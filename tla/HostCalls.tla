----------------------------- MODULE HostCalls ------------------------------
(* The tools on the host's own services: processes, applications,          *)
(* clipboard, notifications, microphone, camera, documents, media, memory, *)
(* durable tasks and the MCP servers.  A capture session is named by its   *)
(* device, a durable task by its id.                                       *)
EXTENDS CallTerms

(* What is spawned is what the name resolves to on PATH at that moment.    *)
Child(v) == Need("ProcessSpawn", "process", IF Present(v.one) THEN v.at[v.one] ELSE v.one)
Spawn(v) ==
  Tool(When(Present(v.one) /\ v.args, {Child(v)}),
       Valid(Present(v.one) /\ v.args) \o Holds({Child(v)}) \o Touches({Child(v)}))
ChildStatus(v) == Unguarded(Valid(Present(v.one)))
KillChild(v) == Unguarded(Valid(Present(v.one)))

ApplicationList(v) == Unguarded(<<>>)
Launch(v) ==
  Guarded(Present(v.one), Need("ApplicationLaunch", "application", v.one), <<>>, InScope(TRUE))
Quit(v) == Guarded(Present(v.one), Need("ProcessSignal", "application", v.one), <<>>, InScope(TRUE))
Activate(v) ==
  Guarded(Present(v.one), Need("DesktopControl", "application", v.one), <<>>, InScope(TRUE))

ClipRead(v) == Plain(TRUE, Need("ClipboardRead", "clipboard", ""))
ClipWrite(v) == Guarded(TRUE, Need("ClipboardWrite", "clipboard", ""), Valid(v.args), <<>>)
ClipClear(v) == Plain(TRUE, Need("ClipboardWrite", "clipboard", ""))
Notify(v) == Guarded(TRUE, Need("NotificationSend", "notifications", ""), Valid(v.args), <<>>)
SystemFacts(v) == Unguarded(Valid(v.args))
SystemProcesses(v) == Unguarded(<<>>)
ProcessInfo(v) == Unguarded(Valid(Present(v.one)))
ResolveUserDir(v) == Unguarded(Valid(Present(v.one)))

(* A tool with typed arguments: what cannot be parsed asks for nothing and *)
(* is refused before the tool is called.                                   *)
Parsed(v, checks) == Unguarded(Valid(v.args) \o checks)
HostEnvironment(v) == Parsed(v, <<>>)
SystemTime(v) == Parsed(v, <<>>)

(* The durable tasks, which anybody who may call tools may change: every   *)
(* step of a task asks for itself when it runs.  "one" is the id or the    *)
(* title, "two" the instruction or a new title.                            *)
TaskId(v) == Valid(Present(v.one))
NonEmpty(text) == Valid(Present(text))
InBounds(v) == Valid(v.args)
Planned(v) == Valid(v.args)
TaskInterval(v) == Parsed(v, NonEmpty(v.one) \o InBounds(v))
TaskCreate(v) == Parsed(v, (NonEmpty(v.one) \o NonEmpty(v.two)) \o Planned(v))
TaskList(v) == Parsed(v, <<>>)
TaskGet(v) == Parsed(v, TaskId(v))
TaskCancel(v) == Parsed(v, TaskId(v))
TaskEdit(v) == Parsed(v, TaskId(v) \o Valid(Fits(v.two)))

Microphone(v) ==
  Need("MicrophoneCapture", "microphone", IF Present(v.one) THEN v.one ELSE "default")
AudioDevices(v) == Unguarded(Valid(v.args))
AudioStatus(v) == Unguarded(<<>>)
AudioStart(v) == Guarded(TRUE, Microphone(v), Valid(v.args), <<>>)
AudioRecord(v) == Guarded(TRUE, Microphone(v), Valid(v.args), <<>>)

(* A session that is open is served against a ticket for its device, which *)
(* its tools do not ask for.                                               *)
OnSession(v, n, more) ==
  Tool({}, Valid(Present(v.one)) \o Valid(more) \o Valid(v.one \in v.open) \o Holds({n}) \o Touches({n}))
AudioSession(v) == OnSession(v, Microphone(v), TRUE)
AudioStop(v) == OnSession(v, Microphone(v), TRUE)

Camera(v) == Need("CameraObserve", "camera", v.one)
CameraList(v) == Unguarded(Valid(v.args))
CameraStatus(v) == Unguarded(<<>>)
CameraPhoto(v) == Guarded(Present(v.one), Camera(v), Valid(v.args), <<>>)
CameraStart(v) == Plain(Present(v.one), Camera(v))
CameraFrame(v) == OnSession(v, Camera(v), v.args)
CameraStop(v) == OnSession(v, Camera(v), TRUE)

(* Documents and media are read by the path as it was written, which is    *)
(* asked for even when it is blank.                                        *)
OfFile(v, more) ==
  LET n == Need("FilesystemRead", "path", v.one)
  IN  Tool(When(v.one # None, {n}), Valid(Present(v.one)) \o Valid(more) \o Holds({n}) \o Touches({n}))
DocumentMetadata(v) == OfFile(v, TRUE)
ExtractText(v) == OfFile(v, TRUE)
PdfText(v) == OfFile(v, TRUE)
PdfPage(v) == OfFile(v, v.args)
ImageMetadata(v) == OfFile(v, TRUE)
ImageResize(v) == OfFile(v, v.args)
MediaMetadata(v) == OfFile(v, TRUE)
VideoFrame(v) == OfFile(v, v.args)
VideoFrames(v) == OfFile(v, v.args)
Keyframes(v) == OfFile(v, v.args)
Thumbnail(v) == OfFile(v, v.args)
Waveform(v) == OfFile(v, TRUE)

Memorable(v) == Valid(v.args)
Remember(v) == Unguarded(Memorable(v))
Recall(v) == Unguarded(Valid(v.args))
Forget(v) == Unguarded(Valid(v.args))

(* An MCP server's tool: the ticket comes before anything else.            *)
McpBridgeUnchecked(v) ==
  LET n == Need("McpInvoke", "mcp", "server.tool") IN Tool({n}, Valid(v.args) \o Touches({n}))
McpBridge(v) ==
  LET n == Need("McpInvoke", "mcp", "server.tool")
  IN  Tool({n}, Holds({n}) \o Valid(v.args) \o Touches({n}))

HostTool == {"process.spawn", "process.status", "process.kill", "application.list",
             "application.launch", "application.quit", "application.activate", "clipboard.read",
             "clipboard.write", "clipboard.clear", "notification.show", "system.os",
             "audio.list_devices", "audio.status", "audio.capture_start", "audio.record",
             "audio.capture_status", "audio.capture_stop", "camera.list", "camera.status",
             "camera.capture_photo", "camera.capture_start", "camera.capture_frame",
             "camera.capture_stop", "document.metadata", "document.extract_text",
             "pdf.extract_text", "pdf.page_image", "image.metadata", "image.resize",
             "media.metadata", "media.video_frame", "media.video_frames", "media.keyframes",
             "media.thumbnail", "media.waveform", "memory.remember", "memory.recall",
             "memory.forget", "mcp", "system.processes", "system.process_info",
             "filesystem.resolve_user_dir", "system.environment", "system.time",
             "tasks.create_interval", "tasks.create", "tasks.list", "tasks.get", "tasks.cancel",
             "tasks.edit"}
HostCall(t, v) ==
  CASE t = "process.spawn" -> Spawn(v)
    [] t = "process.status" -> ChildStatus(v)
    [] t = "process.kill" -> KillChild(v)
    [] t = "application.list" -> ApplicationList(v)
    [] t = "application.launch" -> Launch(v)
    [] t = "application.quit" -> Quit(v)
    [] t = "application.activate" -> Activate(v)
    [] t = "clipboard.read" -> ClipRead(v)
    [] t = "clipboard.write" -> ClipWrite(v)
    [] t = "clipboard.clear" -> ClipClear(v)
    [] t = "notification.show" -> Notify(v)
    [] t = "system.os" -> SystemFacts(v)
    [] t = "audio.list_devices" -> AudioDevices(v)
    [] t = "audio.status" -> AudioStatus(v)
    [] t = "audio.capture_start" -> AudioStart(v)
    [] t = "audio.record" -> AudioRecord(v)
    [] t = "audio.capture_status" -> AudioSession(v)
    [] t = "audio.capture_stop" -> AudioStop(v)
    [] t = "camera.list" -> CameraList(v)
    [] t = "camera.status" -> CameraStatus(v)
    [] t = "camera.capture_photo" -> CameraPhoto(v)
    [] t = "camera.capture_start" -> CameraStart(v)
    [] t = "camera.capture_frame" -> CameraFrame(v)
    [] t = "camera.capture_stop" -> CameraStop(v)
    [] t = "document.metadata" -> DocumentMetadata(v)
    [] t = "document.extract_text" -> ExtractText(v)
    [] t = "pdf.extract_text" -> PdfText(v)
    [] t = "pdf.page_image" -> PdfPage(v)
    [] t = "image.metadata" -> ImageMetadata(v)
    [] t = "image.resize" -> ImageResize(v)
    [] t = "media.metadata" -> MediaMetadata(v)
    [] t = "media.video_frame" -> VideoFrame(v)
    [] t = "media.video_frames" -> VideoFrames(v)
    [] t = "media.keyframes" -> Keyframes(v)
    [] t = "media.thumbnail" -> Thumbnail(v)
    [] t = "media.waveform" -> Waveform(v)
    [] t = "memory.remember" -> Remember(v)
    [] t = "memory.recall" -> Recall(v)
    [] t = "memory.forget" -> Forget(v)
    [] t = "mcp" -> McpBridge(v)
    [] t = "system.processes" -> SystemProcesses(v)
    [] t = "system.process_info" -> ProcessInfo(v)
    [] t = "filesystem.resolve_user_dir" -> ResolveUserDir(v)
    [] t = "system.environment" -> HostEnvironment(v)
    [] t = "system.time" -> SystemTime(v)
    [] t = "tasks.create_interval" -> TaskInterval(v)
    [] t = "tasks.create" -> TaskCreate(v)
    [] t = "tasks.list" -> TaskList(v)
    [] t = "tasks.get" -> TaskGet(v)
    [] t = "tasks.cancel" -> TaskCancel(v)
    [] t = "tasks.edit" -> TaskEdit(v)
=============================================================================
