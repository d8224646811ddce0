---------------------------- MODULE DesktopCalls ----------------------------
(* The desktop tools; "one" is the window, display, application or capture *)
(* session, "two" the session desktop.observe takes its picture from.      *)
(* "gate" steps are refusals that depend on the host's state, the          *)
(* emergency stop and the applications a share allows: DesktopInput and    *)
(* ScreenShare have them in full.                                          *)
EXTENDS CallTerms

WindowId(x) == IF x = None THEN "" ELSE x
Control(v) == Need("DesktopControl", "window", WindowId(v.one))
Capture(id) == Need("ScreenCapture", "window", id)
AnyApp == Need("DesktopObserve", "application", "")

ListWindows(v) ==
  Plain(TRUE, Need("DesktopObserve", "application", IF Present(v.one) THEN v.one ELSE ""))
AccessibilityTree(v) == Plain(Present(v.one), Need("DesktopObserve", "window", v.one))

(* One element or one window, which must be named.                         *)
OnElement(v) ==
  Guarded(Present(v.one), Control(v), Valid(v.args) \o Stoppable, InScope(TRUE))
InvokeElement(v) == OnElement(v)
SetElementValue(v) == OnElement(v)
ElementOperation(v) == OnElement(v)
WindowOperation(v) ==
  Guarded(Present(v.one), Control(v), Stoppable, InScope(TRUE) \o Valid(v.args))

(* Raw input, for a window or for whatever has the focus.                  *)
ClickAt(v) ==
  Guarded(Fits(v.one), Control(v), Valid(v.args) \o Stoppable, InScope(Present(v.one)))
TypeText(v) ==
  Guarded(Fits(v.one), Control(v), Valid(v.args) \o Stoppable, InScope(Present(v.one)))
Pointer(v) ==
  Tool(When(Fits(v.one), {Control(v)}),
       Stoppable \o Valid(Fits(v.one)) \o Holds({Control(v)}) \o InScope(Present(v.one))
         \o Valid(v.args) \o Touches({Control(v)}))
Keyboard(v) ==
  Tool(When(Fits(v.one), {Control(v)}),
       Stoppable \o Valid(Fits(v.one)) \o InScope(Present(v.one)) \o Holds({Control(v)})
         \o Valid(v.args) \o Touches({Control(v)}))

DesktopStatus(v) == Unguarded(Valid(v.args))
ListDisplays(v) == Guarded(TRUE, AnyApp, Valid(v.args), <<>>)
Inspect(v) == Guarded(TRUE, AnyApp, Valid(v.args), <<>>)
CaptureStatus(v) == Guarded(TRUE, AnyApp, Valid(v.args), <<>>)
ClipboardText(v) == Guarded(TRUE, Need("ClipboardRead", "clipboard", ""), Valid(v.args), <<>>)
PutClipboard(v) == Guarded(TRUE, Need("ClipboardWrite", "clipboard", ""), Valid(v.args), <<>>)
LaunchApplication(v) ==
  Guarded(Present(v.one), Need("ApplicationLaunch", "application", v.one), Stoppable, InScope(TRUE))

(* A picture of the desktop is a capture of the window "".                 *)
Screenshot(v) ==
  Tool(When(Fits(v.one), {Capture(WindowId(v.one))}),
       Valid(Fits(v.one)) \o Valid(v.args) \o Holds({Capture(WindowId(v.one))})
         \o InScope(Present(v.one)) \o Touches({Capture(WindowId(v.one))}))
CaptureStart(v) ==
  Tool(When(Fits(v.one) /\ v.args, {Capture(WindowId(v.one))}),
       Valid(Fits(v.one)) \o Valid(v.args) \o Holds({Capture(WindowId(v.one))})
         \o InScope(Present(v.one)) \o Touches({Capture(WindowId(v.one))}))
CaptureFrame(v) == Plain(Present(v.one), Capture(v.one))
CaptureStop(v) == Plain(Present(v.one), Capture(v.one))

(* desktop.observe finds its picture at the time of the call: the session  *)
(* that was named, the only one there is, or the whole desktop.  Several   *)
(* sessions and none named: no picture.                                    *)
Seen(v) == Need("DesktopObserve", "window", WindowId(v.one))
FrameOf(v) ==
  IF Present(v.two) THEN {v.two} ELSE IF Cardinality(v.open) > 1 THEN {} ELSE v.open
Pictured(v) ==
  IF ~Present(v.two) /\ v.open = {} THEN Holds({Capture("")}) \o Touches({Capture("")})
  ELSE IF FrameOf(v) = {} THEN <<>>
  ELSE LET ways == {Capture(""), Capture(CHOOSE s \in FrameOf(v) : TRUE)}
       IN  Holds(ways) \o Touches(ways)
ObserveDesktop(v) ==
  Compound(When(Fits(v.one), {Seen(v)}
             \cup When(v.image, {Capture(IF Present(v.two) THEN v.two ELSE "")})),
           When(Fits(v.one), {Seen(v)}),
           Valid(Fits(v.one)) \o Holds({Seen(v)}) \o Touches({Seen(v)})
             \o IF v.image THEN Pictured(v) ELSE <<>>)

DesktopTool == {"desktop.list_windows", "desktop.accessibility_tree", "desktop.invoke_element",
                "desktop.set_value", "desktop.focus_element", "desktop.focus_window", "desktop.click",
                "desktop.type_text", "desktop.drag", "desktop.press_key", "desktop.status",
                "desktop.list_displays", "desktop.inspect", "desktop.capture_status",
                "desktop.clipboard_read", "desktop.clipboard_write",
                "desktop.launch_application", "desktop.screenshot", "desktop.capture_start",
                "desktop.capture_frame", "desktop.capture_stop", "desktop.observe"}
DesktopCall(t, v) ==
  CASE t = "desktop.list_windows" -> ListWindows(v)
    [] t = "desktop.accessibility_tree" -> AccessibilityTree(v)
    [] t = "desktop.invoke_element" -> InvokeElement(v)
    [] t = "desktop.set_value" -> SetElementValue(v)
    [] t = "desktop.focus_element" -> ElementOperation(v)
    [] t = "desktop.focus_window" -> WindowOperation(v)
    [] t = "desktop.click" -> ClickAt(v)
    [] t = "desktop.type_text" -> TypeText(v)
    [] t = "desktop.drag" -> Pointer(v)
    [] t = "desktop.press_key" -> Keyboard(v)
    [] t = "desktop.status" -> DesktopStatus(v)
    [] t = "desktop.list_displays" -> ListDisplays(v)
    [] t = "desktop.inspect" -> Inspect(v)
    [] t = "desktop.capture_status" -> CaptureStatus(v)
    [] t = "desktop.clipboard_read" -> ClipboardText(v)
    [] t = "desktop.clipboard_write" -> PutClipboard(v)
    [] t = "desktop.launch_application" -> LaunchApplication(v)
    [] t = "desktop.screenshot" -> Screenshot(v)
    [] t = "desktop.capture_start" -> CaptureStart(v)
    [] t = "desktop.capture_frame" -> CaptureFrame(v)
    [] t = "desktop.capture_stop" -> CaptureStop(v)
    [] t = "desktop.observe" -> ObserveDesktop(v)
=============================================================================
