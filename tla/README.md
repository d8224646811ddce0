# Utsuwa: TLA+ models

Utsuwa is an AI companion: a Rust host (`crates/`) that runs agents, tools,
durable background tasks, devices and plugins, and a SvelteKit front end (`src/`)
with the avatar, chat and voice. This directory holds TLA+ models of what is
concurrent, retried, cancelled or crashed in it, the TLC runs that check them,
and TLAPS proofs. Paths below are relative to the repository root.

`PROJECT.json` lists every component with its status, every hazard of the code at
its line with the properties that would catch it, and the source lines each
definition stands for.

## 1. The system and its modules

| Component | State it keeps | What is hard | Modules |
|---|---|---|---|
| durable tasks (`task-core`, `task-host`, the task calls in `app-host`) | rows, steps, receipts in SQLite; dispatch queue, in-flight set, stashed tickets | rows computed from stale copies; crashes inside a write; leases; reviews racing retries | `DurableTasks` (abstract: `TaskLifecycle`), `StepReviews` |
| model gate (`app-host/runtime/model_gate.rs`) | held, waiters, consecutive admissions | priority, aging, missed wake-ups, dropped waiters | `ModelGate` |
| agent sessions (`app-host/runtime/{session,turn}.rs`) | generation, task, worker handle, decided approvals | a superseded turn that still runs | `AgentSession`, with `ApprovalQueue` |
| approvals (`policy-core`) | pending requests, grants, share marker | decisions for what no longer runs | `ApprovalQueue` |
| tool loop (`agent-core`) | messages, replay cache, counters, the observation latch | a whole response looked at before any of it runs | `AgentLoop` |
| single-call tools, the task tools among them, and their tickets (`tool-*`, `capability-core`, `app-host/tooling.rs`) | none, or a lookup that moves | what is declared, granted, checked and touched are four pieces of code | `CallTerms`, `BrowserCalls`, `DesktopCalls`, `FileCalls`, `HostCalls`, `ToolCalls` |
| paths (`tool-filesystem`, `tool-filesystem-host`, `file-target`) | the volume | one path resolved four times in two ways; which of several selectors counts | `FilePaths`, `FileSelectors` |
| file changes (same crates) | pending edits, the conversation's file | previews write what later calls read; other programs save too | `FileEdits` |
| HTTP (`tool-http`) and archives (`tool-archive`) | one request's chain; one job's thread | redirects; a job that outlives its call | `HttpFetch`, `ArchiveJobs` |
| child processes (`tool-process`), helpers (`tool-media`, `tool-system`) | table of handles; pipes and directories | watchdog, kill, eviction, zombies, full pipes | `ProcessTable`, `HelperRuns` |
| desktop control and sharing (`tool-desktop`, `app-host/runtime.rs`, the backends of X11, the portal, Windows and macOS) | share, allowlist, gate, emergency flag | panel, shortcut, switch and tools at once; aborts between two events | `ScreenShare`, `DesktopInput` |
| screen frames (`desktop-linux*`) | streams, restore token, frame slot | two portal negotiations, blocking threads, aborts | `ScreenFrames` |
| accessibility trees (`desktop-linux-atspi`, `desktop-windows`, `desktop-macos`) | cached connection, snapshots | a registry that restarts; positions taken for names | `DesktopTree` |
| microphone and camera (`audio-capture`, `camera-capture`, their tools) | registries, streams, sessions | workers that end by themselves | `CaptureActivity` |
| browser (`tool-browser`) | targets, snapshots, baselines | pages that change on their own | `BrowserTabs` |
| MCP (`mcp-runtime`) | configurations, tokens, clients | changes during a handshake | `McpServers` |
| plugins (`plugin-core`, `plugin-wasm`) | records, instances, a slot of authority | panel, turns and guest calls under two locks | `PluginHost` |
| model wire (`model-openai-compatible`) | one answer being put together | chunks cut anywhere, retries, a stall | `ModelStream` |
| model settings (`app-host/runtime/providers.rs`, `model-catalog`, `secret-core`, `storage-core`) | settings rows, keychain, catalog cache, refusals | two stores written one after the other; a cache filled late | `ModelSetup` |
| artifacts (`artifact-core`) | entries, a byte count kept by hand | sweeps, replacement, limits | `ArtifactStore` |
| page: speech, voice input, tasks without a host (`src/lib/services`, `src/lib/tasks`) | sessions, slots, recorders, database rows | barge-in, crossed replies, reloads | `VoiceQueue`, `VoiceInput`, `WebTasks` |

How they meet. The session runs a worker per turn; the worker waits at the gate,
runs the tool loop, and what the loop calls goes through approvals to a tool. A
durable step takes the same way without a session. `AgentSession` and
`ScreenShare` hold the queue of `ApprovalQueue` in a variable and change it by its
operators; `ToolCalls` composes `CallTerms` with the four books of calls;
`HelperRuns`, `ArchiveJobs`, `HttpFetch` and `FilePaths` open up what is one step
in `ToolCalls`. The others share no state, only the order in which a turn uses
them. The MC modules therefore do not multiply them: `MCHost`, `MCLive` and
`MCTools` extend them all, a variable `part` chosen at the start says which one
moves, and the others rest in one of their initial states. State spaces add up,
and a property of one part says nothing false of a part at rest.

## 2. How the models correspond to the code

**Atomicity.** A step is what no other thread or task can come into: one critical
section, one autocommit statement, the code up to the next await, or one event
sent to the operating system. A future may be dropped at every await at which
the code can abort it, and the blocking threads it started go on.

**DurableTasks.** `row[t]` is the row of `t` with its steps; `queue` the dispatch
channel; `inFlight` the set of that name. Each actor has a place `pc`, an
operation `op`, a task `cur` and the row `buf` it holds in memory. A store call is
one step, except `SqliteTaskStore::update`, which checks the stored status
(`UpdateCheck`) and takes the lock again for the write (`UpdateWrite`). Rows are
prepared from earlier reads, so lost updates and overtaken checks happen.
`TornWrite` is a crash between the statements of one write. Time is what its
comparisons say: a lease is held or lapsed, a wait pending or passed.

**ModelGate.** `acquire` looks at the state under its mutex (`Admit`, `Refuse`),
lets go, and only then creates the `Notified` future (`Park`) that
`notify_waiters` finds; `Release` and `Wake` are two steps.

**AgentSession, ScreenShare.** Each call of the user or of a thread is a list of
steps, and what is left of it is a variable; a step is one critical section of the
session, the queue, the record or the backend. Generations name workers, numbers
capture sessions.

**ApprovalQueue.** The grants are a vector that is only pushed to, filtered and
searched from the front; the model keeps a set of grants, each with its place.

**AgentLoop.** One response is checked as a whole (`PrepareCall`), then run call by
call (`InvokeCall`, `ReplayCall`); what the policy, the tools and the provider answer is free.

**ToolCalls.** `CallTerms` gives the words: what a tool asks for (`asks`, what its
`required_capability` returns), and what `invoke` does (`does`: checks, tickets
demanded, effects, in its order). The books of calls translate every tool into
those words. `Move` changes where a name leads or which sessions are open, `Lapse`
runs the tickets out.

**FilePaths.** A volume is a tree with links; `Real` follows links as
`canonicalize` does, `Lexical` folds `..` by name. Ask, normalise, authorize and
open each look at the volume of that moment; `Shift` changes it in between.

**FileSelectors.** A call names its file by reference, by place in a user's
directory, by directory and name, by path, or leaves it to the conversation.
`Serve` is one call: the merging of what it gave (`HostArgs` for the host tools,
`UserTarget` for the tools of the user's directories, `Merged`, `Structured` and
`Unified` for the edit tool and the appends), the file it comes to and what its
result says of it; `RememberFile` is what the turn keeps of that. A directory may
be called by its conventional name, be a link, or be missing. Between two calls
`Rearrange` changes the volume. What happens inside the file is `FileEdits`'.

**ModelStream.** A line is one kind of event; a chunk cuts the lines anywhere.

**ModelSetup.** Every settings row is a statement, the keychain a call outside the
settings' lock; the catalog is keyed by provider, address and key as `CacheKey`
is, refusals by provider, address and model as `OverrideKey` is.

**CaptureActivity.** Every change of a registry is published in two more steps, as
`publish_activity` does: a look at the registry under its lock (`Looks`), and after
it is let go the writing of what was seen (`Shows`). The flag, the record, the
channel and the listeners are written one after the other; the model has one of
them. A poisoned lock, which shows the device as on, is left out.

**ScreenFrames.** Whether the secret store does what it is asked to (`LoadToken`,
`TokenWritten`) and whether the end of a share gets to close its portal session
(`StreamStops`) is free.

**The page.** A step of `VoiceQueue`, `VoiceInput` and `WebTasks` runs to the next
await; in `WebTasks` an update is two database transactions, and a task that is
through its steps is verified (`WebVerify`), which may complete it, ask for a review
or fail it retryably. A reload forgets everything but the rows.

Data is left out where no property tells it apart: contents of messages, pages,
pictures, records and prompts; wording; schemas; signatures and hashes.

## 3. Runs

| Run | Bounds | Properties |
|---|---|---|
| `tasks_crash` | 1 task work/pause/event, 2 workers, 3 attempts, 2 crashes | `LegalLifecycle` (refinement of `TaskLifecycle`), `ProgressIsKept`, `RetryBudget` |
| `tasks_call` | one of 2 tasks (work and an event wait; agent and approval with renewals), 1 worker, at most 2 calls and crashes together (the constraint `OneOfThem`) | `TypeOK`, `StepsAreTaken`, `Recoverable`, `OnlyApprovalPasses` |
| `tasks_lapse` | 2 tasks, 2 workers, queue of 1, lapsing leases | `SingleExecution`, `MarksAreOwned` |
| `tasks_live` | 1 call, 1 crash that may tear a write, fairness | `NoTaskIsStuck` |
| `gate` | 2 + 2 turns, 2 each, 1 dropped, fairness | `TypeOK`, `MutualExclusion`, `InteractivePriority`, `ParkedIsWoken` |
| `host` | the fourteen parts of `MCHost` | see below |
| `live` | the five parts of `MCLive`, fairness | see below |
| `tools` | the nine parts of `MCTools` | see below |

`host`:
* `ApprovalDiesWithItsTask`: an approval bound to a task serves none of its calls
  once the task's end has reached the queue, however late the aborted worker
  notices.
* `ShareIsWhole`: grants, pause, sessions, allowlist and gate agree with the share
  on record, through failing and overlapping calls of panel, shortcut and tools.
* `CallsAreSettled`, `NoBlindControl`: every call the model was heard to make gets
  one result and at most one effect; a desktop action runs only after a successful
  observation that the model has been shown since the last one.
* `ReviewsAreHonest`: no more gated calls of a step pass than its reviews approved,
  whatever tickets are stashed, replaced, expired or lost with the process
  (`ApprovalServesOneCall`); a tool step's effect happens again only when its receipt
  was lost, and a step is completed only by an effect (`ReceiptsTellTheTruth`).
* `CaptureIsShown`: from the call that opened it to the call that stops it a stream
  is in the registry, no entry outlasts its stream unless it was made after the
  end, and once nobody publishes an indicator says what its registry does, unless an
  older look was written over a newer one. What that last case lets happen is the run
  `capture_cross`.
* `ChildrenAreAccounted`: no child or zombie is out of reach of status and kill, and
  all who learn of its end learn the same one.
* `HelpersAreReaped`: a helper's call that is over left no child and no directory,
  and a good answer means that all of a child's output arrived.
* `PluginsAreHonest`: a turn that begins after the plugin was turned off is not
  offered its tools (`OffMeansOff`), a call's evidence is of its own write
  (`EvidenceIsOwn`), a refused update leaves what served serving
  (`RefusedUpdateRestores`).
* `CachesAgree`: the store's byte count, the MCP table and its clients, a reader's
  differences, what a model is taken to be able to do and the user's key agree with
  what they stand for.
* `TreeIsTold`: a window's delta, applied to what its reader has, gives what was read;
  with the secrets masked, and a connection that failed does not stay cached unless
  the call that met the failure was aborted.

`live`: `OneUseServesOnce` and `HandleFollowsTurn` about the session; `SpeechIsHonest` (the promise of a speech resolves when it has been
played, in order); `InputsAreSettled` (result and microphone, on every way a
recording ends); `EffectsAreAccounted` (a page's task completes only with its
effects, and every repetition of one is paid for); `WorkEnds` (speech, recordings,
children and page tasks come to rest, and turns get their terminal event,
`TurnsAreAnswered`; the page's tasks but for those of `Unverifiable`, see section 4).

`tools`: `TurnsAreHeard` (what a turn says and does is what one response said);
`FilesStayTrue` (edits and archives leave whole what they were asked to write, and a call's
selectors are heeded: what it touches is what it named, and its result names what
it touched, `SelectorsAreHeeded`);
`InputIsBounded` (after a stop or an abort nothing stays pressed that nobody asked
to hold, nothing is sent through a shut gate); `ScreenIsHonest` ("unchanged" is
said of the picture last handed out only; a stream that runs has an owner, was left
by an abort or could not be closed; no token the portal turned down stays that
the store was able to delete);
`GrantSuffices` (who was granted all a tool declares is not refused, but for the
named exceptions); `CallsStayGranted` (no effect, request or file beyond what was
granted).

### Why these bounds

Tasks share the queue and the marks only, so one task shows what happens to a row
and two show contention. The lease outlives the steps (`LeaseOutlivesSteps`) in the
runs whose question is not what happens when it does not. In the parts, two
threads, tabs, files, keys or servers are the least that can cross; each counter
(`MaxId`, `MaxGen`, `MaxSetups`, `MaxShifts`, ...) is large enough that what it
bounds can meet every other step once and be met by it, and the mutants of every
property show that the case it is about does happen. `ModelSetup` and
`ScreenFrames` start from several situations in which part of the bounds is used
up: forms with faults, offers with refusals, turns with time. `FilePaths` starts
from every arrangement of two user directories, one of which may link to the
other, with links back and forth below them, and nine ways to name a place.
In `CaptureActivity` two microphone sessions (`MaxCaptures`) are the least whose
publications cross. In `WebTasks` one of the two tasks is submitted (`MaxSubmits`):
tasks share only that one of them runs at a time, so what a run shows is about one
task beside its heartbeats, reviews and cancellations, not about two that wait for
each other (the theorem about them is for any number).
`FileSelectors` starts from ninety arrangements of three directories and the files
and links below them; its first call gives any of some two thousand combinations
of one to three selectors, and a later one leaves the file to the conversation,
with a reference that may be wrong or stale or with nothing. Files are alike in
`FileEdits` and values in `DesktopTree`: the initial states that only swap two of
them are left out. Windows and macOS, which open no session and take no lock in
`DesktopInput`, are started with a screen shared only, and of its calls those that
send nothing a key or button could stay down by are made first or not at all
(`AlikeOps`). Of two turns, sessions, readers or callers that are alike the first to
move is always the same one (`FirstTurn`, `FirstMic`, `FirstReader`, `FirstActor`). Some bounds
are taken together: autonomous mode is on in the first two of three generations
(`BoundedSession`; the theorems about the session have no such bound), panel, disk and
guest of a plugin act three times in all (`BoundedPlugin`, likewise), and a third edit
meets no other program's save (`BoundedFiles`).
`Limit`, `Cap` and the sizes in `HttpFetch`, `ArchiveJobs` and `HelperRuns` are the
limits of the code divided down so that one unit more passes them.

Deadlock is not checked: when the bounds are used up, or every task rests, there
is nothing left to do. What must not stop is stated as liveness.

### Fairness

`DurableTasks!FairSpec`: weak fairness of each worker, the ticker, an update that
has begun, and time. The runtime polls what is ready, the tick loop wakes every two
seconds, each runner is under the executor's timeout. No call, event or crash is
fair, so `NoTaskIsStuck` lets a task rest in `needs_review` or in an event wait
without a deadline. `ModelGate!FairSpec`: weak fairness of a turn's own steps and
of aging; new turns and drops are not fair. `LiveSpec`: weak fairness of the part's
own work (workers, watchdogs, timers, replies of devices and of the host, which the
code bounds by timeouts) and, for the session, of a call the user has begun.
Starting something is never fair. `TurnsAreAnswered` takes it that a provider and a
tool return; both have timeouts.

## 4. What contradicts the repository's own words

Violation runs, each against a quoted sentence (`PROJECT.json`, findings):

| Run | Behaviour |
|---|---|
| `tasks_race` | Between the check and the write of `update` another write is stored; the second takes the task out of `cancelled`, or puts an unstarted row over a running task. |
| `gate_lost` | The wake-up falls between unlocking and registering; the waiter stays parked with the gate free. |
| `capture_cross` | A capture ends while another begins: what the first one's publication saw is written last, and the indicator stays off while a stream runs. |
| `plugin_update` | A turn's load instantiates the code it read before an update and marks the record of after it, so a module that never ran is enabled; the next refused update cannot load it again and leaves the plugin without an instance. |

Met while modelling and kept in the models as the code does it, with the
properties stated so that they hold beside it:

* Tasks. A step that completes after its task was cancelled keeps the status it
  reads and the next step starts (docs/durable-tasks.md:52 calls cancellation
  final). A crash inside `create` or `update` leaves a row without steps. A renewal
  writes back the row from before a step's outcome. IPC before the pool starts
  ticks inline beside it (`ipc/tasks.rs:66`). A step whose tool needs several
  capabilities, or writes through a link, goes from review to review
  (docs/durable-tasks.md:57).
* Gate. A chat turn dropped in line stays counted (`model_gate.rs:122`).
* Sharing. `screen_share_stop` without a share takes a mutex it holds
  (`runtime.rs:716`).
* Desktop. Emergency stop also refuses `key_up` and `mouse_up` and does not stop a
  call in flight before its next check (docs/computer-use.md:67); a failed or
  aborted hotkey leaves keys down; launch and clipboard ignore the backend's gate;
  a portal session may open after the gate closed, and a dead one is replaced only
  after the gate closes. On Windows and macOS an element's id is its position in the
  tree, so it may name another element once the window has changed.
* Frames. "Exact duplicate frames are discarded" compares a 32 by 32 sample per
  session; aborted stills leak streams. A token whose deletion the secret store refused
  stays stored and nobody learns of it (`desktop-linux-wayland/src/lib.rs:997`); a stop
  whose worker panicked or whose `close` fails leaves the portal session open (1231).
* Page tasks. A task that asks for a result none of its steps left goes from ready to
  running to ready for ever: its verification fails retryably (`verifier.ts:15`,
  `executor.ts:236`), its cursor is past the end, and no step is there whose attempts
  would grow (`executor.ts:137`). Approving a verification review leads to the
  next verification, which asks for a review again.
* Browser. A click on a node that is gone answers ok (`tool-browser/src/lib.rs:932`
  against 1254); a snapshot's baseline and its id are under two locks.
* Calls. `audio.capture_status`, `audio.capture_stop`, `camera.capture_frame` and
  `camera.capture_stop` enforce a ticket they never declare (docs/computer-use.md:19);
  git remotes and an HTTP retry are not authorized (docs/computer-use.md:156).
* Files. A pending edit's text may come from a later call of the batch; an edit
  without a selector goes to where a later call's preview pointed; a superseded
  turn still records its file. A path with `..` is asked for by name and read by
  link; a write through an existing link lands on its target although links are
  said to be refused; between the check and the open links may still change.
  Two selectors that differ are said to remain a retryable error
  (`edit_args.rs:974`), yet a path reference replaces a differing `path` and a
  `location` that holds a file's path replaces a differing `filename`; a place
  without a name given to a replacement ends at an `expect`; the create and write
  tools do not look at `path`.
* Archives. `create_zip` truncates before it validates; directories of a tar do not
  count as entries, and one file more than the limit lands; an abandoned
  extraction goes on beside its retry.
* Helpers. After its timeout `pdftoppm`'s stderr is read before the kill, so a child
  that hangs with the pipe open blocks the call (`document.rs:539`); one that cannot
  be started leaves its directory; an overflow of ffmpeg's output does not end it.
* HTTP. A HEAD answered 303 becomes a GET; the address that was looked up is not
  the one that is connected (documented).
* Voice input. A recording that stops by itself in the browser (silence, maximum
  duration) is thrown away: the service asks for it after the recorder is gone
  (`audio-capture.ts:551`).
* Wire. A UTF-8 character cut by a chunk fails the stream
  (`model-openai-compatible/src/lib.rs:1303`); a refused audio or video medium is
  asked for again unchanged.
* Settings. `settings.set_model_provider` is called atomic and says it keeps the
  configuration coherent (`ipc/settings.rs:185`, 258); its rows are statements of
  their own, and the key is stored before them and outside their lock, so a turn in
  between pairs the new key with the old address (against `providers.rs:594`); a
  failed form that could not read the old key deletes it; a key migrated meanwhile
  is overwritten or deleted.
* Plugins. Enabling again after disabling never serves; a discovered plugin cannot
  be enabled until it is updated; a module that parses but does not instantiate
  unserves the one it updates (against `plugin-wasm/src/lib.rs:258`); discovery of
  another directory overwrites records; two calls share one slot, so evidence of a
  trapped call is reported by the next, and code may run under another version's
  permissions.

## 5. Proofs

All theorems hold for every value of the constants that satisfies the named
assumptions of the modules (`TasksAssumption`, `ActorsAssumption`,
`PlanAssumption`, `BoundsAssumption`, `TurnsAssumption`, `LoopAssumption`,
`CaptureAssumption`, `NeedAssumption`, `SessionAssumption`, `ShareAssumption`,
`ReviewAssumption`, `ProcessAssumption`, `PluginAssumption`, `HelperAssumption`,
`VoiceAssumption`, `TreeAssumption`, `FramesAssumption`, `CallsAssumption`,
`McpAssumption`, `BrowserAssumption`, `SetupAssumption`, `InputAssumption`,
`WebAssumption`): any number of tasks, workers, turns, calls, sessions, generations and shares, any plan,
limit and bound. The assumptions say that bounds are naturals, that kinds of
things are apart, and that ids suffice for what is bounded to ask for one.

* `DurableTasks_proofs`: `SingleExecutionHolds`, `MarksAreOwnedHolds`. The
  inductive invariant `HostInv` is both properties with the types of `queue`,
  `inFlight`, `pc` and `cur`; neither is inductive alone: a dispatch preserves
  `SingleExecution` only since an unmarked id is nowhere (`MarksAreOwned`), and an
  exit preserves `MarksAreOwned` only since no other worker and no queue entry has
  the id (`SingleExecution`). Rows play no part.
* The same module: `TypeCorrect`, `RecoverableHolds`. `Recoverable` speaks of stored rows; it is kept because every row anybody *holds*, in `buf` or `todo`,
  is already `Good`, whenever it is written and whatever it overwrites, torn writes
  included (`RowInv`).
* `LiveParts_proofs`: `GateTypeCorrect`, `GateExcludes`, `GatePriority`. Because of
  dropped turns `interactive_waiters` is not the number of queued turns; that it is
  never less (`LineInv`) keeps it from underflowing and carries priority.
* `AgentLoop_proofs`: `LoopTypeCorrect`, `CallsSettled`, `ControlIsSighted`. The
  latch opens when an observation succeeds, the model sees the picture only with
  its next request, and calls come from a cache after an approval. `LoopInv` has
  the books (every call taken is answered, prepared or still to be looked at, with
  room under the limit for each), the cache (every effect is in it), and the latch:
  a prepared desktop action is the only one of its response and the model had the
  picture when it asked for it.
* `LiveParts_proofs`, speech: `VoiceTypeCorrect`, `SpeechHonest`. Synthesis finishes in
  any order and the queue plays in one. `VoiceInv` says where the segments of the
  current session are: what the channel and the line still hold are the next ones in
  order (`PlaysInTurn`), a segment sounds only if its runner is with it, and whatever
  an interrupted session left behind can no longer reach the speaker (`ClaimInv`).
* `LiveParts_proofs`, page tasks: `NothingSkipped`, the first half of
  `EffectsAreAccounted`. An update reads a row and writes it later, over whatever came
  between. `WebInv` therefore says of every row, and of every row an update still
  carries, that the effects below its cursor took place, all of them if it is
  completed (`Earned`); that what a run holds is never behind its row (`RunFits`), so
  its outcome is never taken for a later step's; and that of the overtaken updates a
  heartbeat's and a cancellation's never take the cursor further (`BeatFits`,
  `UserFits`), while a review does, by one, and finds no run. The last fails once stale
  heartbeats and orders meet (`Apart` is the hypothesis the property has).
* `HostParts_proofs` has eight parts of the host that share no variable, one section
  each. Capture: `CaptureTypeCorrect`, `IndicatorsAreHonest`. A refresh
  strikes what it did not find alive when it looked. That this is never an open
  stream needs two facts (`MicInv`): the sessions of the map are those whose call is
  between its registration and its stop, and every open one of them was found alive,
  since the map's lock is held meanwhile. For what is shown (`ShowInv`): while nobody is
  about to look, every look that none has followed saw the registry as it is, and so
  does the indicator once such a look was the last to be written.
* The same module, processes: `ProcessTypeCorrect`, `ChildrenAccounted`. The table
  gives up only handles whose end is recorded (`EvictedIsReaped`) and room is always
  made (`RoomForOne`); a recorded end is of a child that is gone, and what callers
  were told of a handle is its recorded reason, which no later step changes.
* The same module, plugin: `PluginTypeCorrect`, `OffStaysOff`, `EvidenceStaysOwn`,
  `RefusalRestores`, together `PluginsHonest`. `OffOK`: the record is enabled only while the panel wants it, and
  a turn that began unwanted stands at no step that leads to collecting, because a
  load that a turn began leads to `Loaded`, never to `Enabled`. `SlotOK`: who is in
  the guest holds its lock, and once it has written the slot's last entry is its own.
  `RestoreOK`: the state a refused update has reached at each of the five steps of
  its load, if no turn has moved.
* The same module, helpers: `HelperTypeCorrect`, `HelpersReaped`. A call joins its
  readers or looks at the picture only after the child's end, and a reader that met
  the end has taken every block, since a child that ended writes no more.
* The same module, reviews: `ReviewTypeCorrect`, `ApprovalsServeOneCall`,
  `ReceiptsAreTrue`, together `ReviewsHonest`. The property counts what passed against what was approved; the
  invariant keeps the books between them: for each need, what was served, what lies in the
  stash and what the worker has in hand are at most what was approved. For the
  receipts it says, for each place of the worker, how many effects the attempt and
  the receipts so far account for.
* The same module, what `CachesAgree` is about. Servers: `ServersFollow`; a client on
  its way is the table's own when it is stored, or its server counts as raced, and a
  server that is gone has none (`McpInv`). Snapshots: `SnapshotsFollow`; the tools of
  a turn run one at a time, so a reader asks for nothing or for the list the cache
  has (`ReadingOK`). Models: `ModelsAreKnown`; the catalog keeps an answer under the
  model and key it was about (`CatalogOK`), and a warning is of a refusal that stays
  noted or is noted again (`WarnedOK`). Keys: `KeysSurvive`; until a form is saved the
  one key is in the table or the keychain, and in the hand of a turn that moves it
  (`FirstKeyOK`). `BytesAreCounted`, the fifth part, is a sum over a set.
* `ApprovalQueue_proofs`: what every operator of the queue returns and that it
  keeps the queue in order (`QueueOK`: requests and one-use grants name different
  requests of the past, none of them used up, and what is bound to a task names
  one). The two modules that hold a queue cite these lemmas.
* `AgentSession_proofs`: `SessionTypeCorrect`, `ApprovalsDie`, `OneUseOnce`,
  `HandleFollows`. A superseded worker runs on beside its successor, so the
  properties are not inductive. `SessionInv` adds that one worker at most holds a
  task and that a suspended turn's task is held by none (so a resumed turn is the
  only one that uses its approval), that each worker has its request ahead of it
  and ids suffice (so an id is never used twice), that the stored handle is that of
  the current generation, and that once the end of a superseded task has reached
  the queue nothing there is bound to it and nothing that could become a grant for
  it is waiting (`Dead`).
* `ScreenShare_proofs`: `ShareWhole`. The property speaks of a panel at rest;
  `ShareInv` says for every step of start, stop, pause and the clean-up of a failed
  start which of record, capture, marker and pause have changed already. The steps
  of the control switch, the emergency stop and the model's capture tools are shown
  harmless once (`HarmlessOK`): they may start captures of their own, stop any and
  revoke grants, and leave the relations alone at whatever step the panel is.
* `ToolParts_proofs` has four parts of the model's tools. Windows: `TreeTypeCorrect`,
  `TreeTold`. A reader walks the tree without the lock and records later; that its
  delta rebuilds what it read rests on the last snapshot being some reader's view and
  on every older view being known by its number (`SnapshotInv`). The same holds where
  the tree is read in one go, on Windows and macOS.
* The same module, frames: `FramesTypeCorrect`, `ScreenHonest`. Three mutexes are
  taken one after the other. `LockInv` and `FrameInv`: who is between the mutex and
  the answer holds it, and what waits in the slot is newer than what was handed out,
  so "unchanged" is never said of an older picture. `OwnerInv`: each stream belongs
  to the share, to a start under way, was left by an abort, or is a portal session that
  could not be closed (`unclosed`). `TokenInv`: a restore token is in one hand, in one
  write that waits, or in the store, and one that was turned down is in the store
  only while its deletion waits or because it failed (`undeleted`). `FramesAssumption`
  says that observers are neither "nobody" nor the stopper.
* The same module, calls: `CallsTypeCorrect`, `GrantsSuffice`, `EffectsAsked`. What a
  tool does is a sequence of steps joined from parts; that every effect has a ticket
  or a gate with its needs before it (`Backed`), and that the tickets it demands are
  those it asks for (`Ready`), is shown once for each way of joining and then for
  every tool (`ToolsAreRegular`). `CallsInv` carries both from the question to the
  steps still to take; they survive the head of the sequence being taken, lapses and
  moves of the world. `CallsAssumption`: a review at least, and no result is `None`.
* The same module, input: `InputTypeCorrect`, `InputBounded`. A plan is the checks
  and at most four calls of the backend. Between two calls it looks at the gate or
  ends (`Ahead`), and what it presses it lets go (`LiftedBy`, `Lifts`) unless it was
  asked to hold; that is shown of one call on each of the four backends, of the calls
  of each operation (`CallsAreFit`) and of their joining (`PlanIsRegular`), and it
  stays true of whatever is left of a plan. `ActorsFit`: what a call sent since a
  stop and what it may send before its next look at the gate are together at most its
  longest backend call. `HeldInv`: while nothing broke off, a key that is down has a
  call that waits to let it go, or was asked to be held.

The queue, the session, the share, the plans of the input and the patches of the
page's rows were put in a form the provers can use, without changing what they do: the
grants are a set with places where they were a sequence, a row with a patch names its
fields, and no list of steps is taken apart inside a nested update.

Only model-checked:
* of the durable tasks `LegalLifecycle`, `ProgressIsKept`, `RetryBudget` and
  `StepsAreTaken`, true under bounds on calls or leases that a proof would have to
  take as hypotheses, and `OnlyApprovalPasses`, true under a bound on overlapping
  updates;
* of the parts `BytesAreCounted` in `CachesAgree`, whose sum is a fold over a set, and
  `InputsAreSettled`, of `EffectsAreAccounted` the price of repetitions
  (`RepeatsArePaid`: each update that is overtaken must be shown to take back at most
  one attempt, which rests on the order of the transactions), and of `tools` what is
  about files and the model's stream;
* `HostTypeOK`, `LiveTypeOK` and `ToolsTypeOK` as a whole; the theorems have the
  types of the parts they are about;
* out of the prover's reach: liveness (`NoTaskIsStuck`, `ParkedIsWoken`,
  `WorkEnds`), and what recursive definitions compute (`FilePaths!Real`).

How far the passing runs of the tasks reach: `RetryBudget`, `LegalLifecycle` and
`ProgressIsKept` are checked without calls and renewals, since an overtaken update
may take back attempts, status and finished steps; `StepsAreTaken` with one call,
whole writes, no renewals and leases that outlive steps; `NoTaskIsStuck` without renewals, as one
that is late in every attempt takes the attempt back each time.

## 6. Not modelled

* The batch limits of the task queries (enough waits without a deadline hide those
  that have passed, `store.rs:774`), per-type concurrency slots, the degraded inline
  tick.
* Transcript compaction, memory ranking, prompts; remembered denials and rules over
  resource patterns of the policy.
* How Windows and macOS capture pictures and list windows; window placement, pixel
  formats; a real device.
* One MCP client's request table: a request is one answer or failure.
* Public model catalogs, which no production path selects; prices and modalities.
* The avatar engine, companion state, chat bridge, stores and web routes of the
  front end, the IPC dispatcher, CLI binaries: data, rendering or one lock.

What a theorem would be worth next: the page's recordings and the price of its repeats; and the
batch limits of `DurableTasks` a model.
