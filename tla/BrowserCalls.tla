---------------------------- MODULE BrowserCalls ----------------------------
(* The browser tools.  Reading a tab and driving it are two capabilities,  *)
(* a page is opened with the network's; "one" is the tab, "two" the URL.   *)
EXTENDS CallTerms

TabNeed(cap, v) == Need(cap, "tab", v.one)
UrlNeed(v) == Need("NetworkConnect", "url", v.two)
Reads(v, more) == Guarded(Present(v.one), TabNeed("DesktopObserve", v), Valid(more), <<>>)
Drives(v, more) == Guarded(Present(v.one), TabNeed("DesktopControl", v), Valid(more), <<>>)

BrowserStatus(v) == Unguarded(<<>>)
ListTabs(v) == Plain(TRUE, Need("DesktopObserve", "application", "browser"))
OpenPage(v) == Plain(Present(v.two), UrlNeed(v))

NavigateAsksUrl(v) ==
  Compound(When(Present(v.two), {UrlNeed(v)}), When(Present(v.two), {UrlNeed(v)}),
           Valid(Present(v.one)) \o Valid(Present(v.two))
             \o Holds({TabNeed("DesktopControl", v)}) \o Holds({UrlNeed(v)})
             \o Touches({TabNeed("DesktopControl", v)}) \o Touches({UrlNeed(v)}))

(* With both arguments present the tab is asked for whatever its id is     *)
(* worth, the destination only when it is an address.                      *)
Navigate(v) ==
  Compound(When(v.one # None /\ v.two # None, {TabNeed("DesktopControl", v)})
             \cup When(Present(v.two), {UrlNeed(v)}),
           When(Present(v.two), {UrlNeed(v)}),
           Valid(Present(v.one)) \o Valid(Present(v.two))
             \o Holds({TabNeed("DesktopControl", v)}) \o Holds({UrlNeed(v)})
             \o Touches({TabNeed("DesktopControl", v)}) \o Touches({UrlNeed(v)}))
HistoryStep(v) == Drives(v, TRUE)

Snapshot(v) == Reads(v, TRUE)
Query(v) == Reads(v, v.args)
GetText(v) == Reads(v, TRUE)
GetAttribute(v) == Reads(v, v.args)
WaitFor(v) == Reads(v, TRUE)
PageShot(v) == Reads(v, TRUE)
CookiesList(v) == Reads(v, TRUE)

ClickNode(v) == Drives(v, v.args)
TypeInto(v) == Drives(v, v.args)
SetNodeValue(v) == Drives(v, v.args)
Select(v) == Drives(v, v.args)
Scroll(v) == Drives(v, TRUE)
CookiesSet(v) == Drives(v, v.args)
CookiesDelete(v) == Drives(v, v.args)

BrowserTool == {"browser.status", "browser.list_tabs", "browser.open", "browser.navigate",
                "browser.back", "browser.snapshot", "browser.query", "browser.get_text",
                "browser.get_attribute", "browser.wait_for", "browser.screenshot",
                "browser.cookies.list", "browser.click", "browser.type", "browser.set_value",
                "browser.select", "browser.scroll", "browser.cookies.set",
                "browser.cookies.delete"}
BrowserCall(t, v) ==
  CASE t = "browser.status" -> BrowserStatus(v)
    [] t = "browser.list_tabs" -> ListTabs(v)
    [] t = "browser.open" -> OpenPage(v)
    [] t = "browser.navigate" -> Navigate(v)
    [] t = "browser.back" -> HistoryStep(v)
    [] t = "browser.snapshot" -> Snapshot(v)
    [] t = "browser.query" -> Query(v)
    [] t = "browser.get_text" -> GetText(v)
    [] t = "browser.get_attribute" -> GetAttribute(v)
    [] t = "browser.wait_for" -> WaitFor(v)
    [] t = "browser.screenshot" -> PageShot(v)
    [] t = "browser.cookies.list" -> CookiesList(v)
    [] t = "browser.click" -> ClickNode(v)
    [] t = "browser.type" -> TypeInto(v)
    [] t = "browser.set_value" -> SetNodeValue(v)
    [] t = "browser.select" -> Select(v)
    [] t = "browser.scroll" -> Scroll(v)
    [] t = "browser.cookies.set" -> CookiesSet(v)
    [] t = "browser.cookies.delete" -> CookiesDelete(v)
=============================================================================
