----------------------------- MODULE PluginHost -----------------------------
(* One plugin of the host: its directory, its record in the registry, its  *)
(* instance in the sandbox.  Three kinds of threads take the registry's    *)
(* and the instances' locks one after the other: the IPC thread that       *)
(* enables, disables, updates and removes (Manager), the turns that        *)
(* rediscover the directory and collect the tools of what is enabled, and  *)
(* their tool calls, which hold the instances' lock while the guest runs.  *)
(* A package is named by what its directory holds: a version that runs, a  *)
(* "dud" whose module passes the magic check but does not instantiate, a   *)
(* "native" module, a "broken" directory, or "none".                       *)
EXTENDS Naturals

CONSTANTS Version,           \* packages that instantiate
          Turner,            \* agent turns
          MaxOps, MaxEdits,  \* calls of the panel, changes of disk and settings
          MaxTurnsBegun, MaxGuestCalls

VARIABLES package,    \* what the directory "home" holds
          setting,    \* the directory the settings name: "home" or "other"
          discovered,       \* the one that was discovered last
          homes,      \* the directory remembered for the plugin
          plugin,     \* the registry's record
          guest,      \* the instance, with the slot of the call it serves
          running,    \* the turn whose guest holds the instances' lock
          at, holds,  \* where each thread is and what it carries
          op, was,    \* the panel's operation; was the plugin enabled
          offered,    \* turns that collected the plugin's tools
          wrote,      \* turns whose guest has written during their call
          answer,     \* whose write the turn's last answer tells of
          wanted,     \* history: the panel's last word
          quiet,      \* history: turns that began, and went on, unwanted
          alone,      \* history: no turn has moved since the operation began
          saved,      \* history: a refused update of what served, and its code
          ops, edits, begun, calls
pluginVars == <<package, setting, discovered, homes, plugin, guest, running, at, holds, op,
                was, offered, wrote, answer, wanted, quiet, alone, saved, ops, edits,
                begun, calls>>

Vacant == "nothing"
Manager == "manager"
PluginThread == Turner \cup {Manager}
Readable == Version \cup {"dud", "native"}
Package == Readable \cup {"broken", "none"}
RecordState == {"Discovered", "Validated", "Loaded", "Enabled", "Disabled", "Failed"}
PluginRecord == [state : RecordState, package : Package \ {"none"}]
(* What is not a package that runs has a name of its own.                  *)
ASSUME PluginAssumption ==
  /\ Version \cap {"dud", "native", "broken", "none", Vacant} = {}
  /\ Turner \cap {Manager, Vacant, "open"} = {}

NoRecord == [state |-> "unknown", package |-> "none"]
NoGuest == [code |-> Vacant, slot |-> Vacant]
Guest == [code : Version, slot : Turner \cup {Vacant, "open"}]

PluginInit ==
  /\ package \in Version /\ setting = "home"
  /\ \/ plugin = NoRecord /\ guest = NoGuest /\ discovered = Vacant /\ wanted = FALSE
     \/ /\ plugin = [state |-> "Enabled", package |-> package]
        /\ guest = [code |-> package, slot |-> Vacant]
        /\ discovered = "home" /\ wanted = TRUE
  /\ homes = discovered /\ running = Vacant
  /\ at = [a \in PluginThread |-> "idle"] /\ holds = [a \in PluginThread |-> Vacant]
  /\ op = Vacant /\ was = FALSE
  /\ offered = {} /\ wrote = {} /\ answer = [t \in Turner |-> Vacant]
  /\ quiet = {} /\ alone = FALSE /\ saved = Vacant
  /\ ops = 0 /\ edits = 0 /\ begun = 0 /\ calls = 0

Go(a, l) == at' = [at EXCEPT ![a] = l]
Carry(a, x) == holds' = [holds EXCEPT ![a] = x]
Noticed(a) == alone' = (alone /\ a = Manager)
(* The checked transitions of the registry.                                *)
MayBecome(from) == plugin # NoRecord /\ plugin.state \in from
Become(s) == plugin' = [plugin EXCEPT !.state = s]
DirectoryHolds(d) == IF d = "home" THEN package ELSE "none"

-----------------------------------------------------------------------------
(* load, by a turn or by an update: five steps, five lock holds.           *)
Ghosts == UNCHANGED <<op, was, offered, wrote, answer, wanted, quiet, saved, ops, edits,
                      begun, calls>>
Files == UNCHANGED <<package, setting, discovered, homes>>
GiveUp(a) == Go(a, IF a = Manager THEN "idle" ELSE "ready")

LoadRuntime(a) ==
  /\ at[a] = "load"
  /\ IF plugin # NoRecord /\ plugin.package # "native" THEN Go(a, "bytes") ELSE GiveUp(a)
  /\ Noticed(a) /\ Ghosts /\ Files /\ UNCHANGED <<plugin, guest, running, holds>>

Validatable == {"Discovered", "Failed", "Disabled"}
LoadBytes(a) ==
  /\ at[a] = "bytes"
  /\ IF MayBecome(Validatable \cup {"Validated"})
       THEN Become("Validated") /\ Carry(a, plugin.package) /\ Go(a, "manifest")
       ELSE GiveUp(a) /\ UNCHANGED <<plugin, holds>>
  /\ Noticed(a) /\ Ghosts /\ Files /\ UNCHANGED <<guest, running>>

LoadManifest(a) ==
  /\ at[a] = "manifest"
  /\ IF plugin # NoRecord /\ holds[a] \in Version
       THEN Go(a, "insert") /\ UNCHANGED holds
       ELSE GiveUp(a) /\ Carry(a, Vacant)
  /\ Noticed(a) /\ Ghosts /\ Files /\ UNCHANGED <<plugin, guest, running>>

LoadInstance(a) ==
  /\ at[a] = "insert" /\ running = Vacant
  /\ guest' = [code |-> holds[a], slot |-> Vacant]
  /\ Go(a, "mark") /\ Carry(a, Vacant)
  /\ Noticed(a) /\ Ghosts /\ Files /\ UNCHANGED <<plugin, running>>

LoadMarkServes(a) == \* (mutant) what has been loaded is enabled
  /\ at[a] = "mark"
  /\ IF MayBecome({"Validated", "Disabled"})
       THEN Become("Loaded") /\ Go(a, IF a # Manager THEN "collect" ELSE "enable")
       ELSE GiveUp(a) /\ UNCHANGED plugin
  /\ Noticed(a) /\ Ghosts /\ Files /\ UNCHANGED <<guest, running, holds>>
LoadMark(a) ==
  /\ at[a] = "mark"
  /\ IF MayBecome({"Validated", "Disabled"})
       THEN /\ Become("Loaded")
            /\ Go(a, IF a # Manager THEN "collect" ELSE IF was THEN "enable" ELSE "idle")
       ELSE GiveUp(a) /\ UNCHANGED plugin
  /\ Noticed(a) /\ Ghosts /\ Files /\ UNCHANGED <<guest, running, holds>>

-----------------------------------------------------------------------------
(* The panel: plugin.enable, plugin.disable, plugin.update, plugin.remove. *)
(* Nobody approves native modules, so the allow list stays empty.          *)
Panel == UNCHANGED <<running, offered, wrote, answer, alone, edits, begun, calls,
                     package, setting, discovered>>
InPanel(l) == at[Manager] = l

AskPanel(o) ==
  /\ InPanel("idle") /\ ops < MaxOps /\ ops' = ops + 1
  /\ op' = o /\ was' = FALSE /\ saved' = Vacant
  /\ Go(Manager, CASE o = "enable" -> "enable" [] o = "update" -> "find" [] OTHER -> "drop")
  /\ alone' = (\A t \in Turner : at[t] = "idle")
  /\ Files /\ UNCHANGED <<plugin, guest, running, holds, offered, wrote, answer, wanted,
                          quiet, edits, begun, calls>>

UpdateFinds ==
  /\ InPanel("find")
  /\ Carry(Manager, homes) /\ Go(Manager, IF homes = Vacant THEN "idle" ELSE "was")
  /\ Panel /\ UNCHANGED <<homes, plugin, guest, op, was, wanted, quiet, saved, ops>>

UpdateLooks ==
  /\ InPanel("was")
  /\ was' = MayBecome({"Enabled"})
  /\ Go(Manager, IF plugin = NoRecord THEN "idle" ELSE "drop")
  /\ Panel /\ UNCHANGED <<homes, plugin, guest, holds, op, wanted, quiet, saved, ops>>

DropInstance ==
  /\ InPanel("drop") /\ running = Vacant
  /\ guest' = NoGuest
  /\ Go(Manager, CASE op = "remove" -> "forget"
                   [] op = "update" /\ ~was -> "refresh"
                   [] OTHER -> "off")
  /\ Panel /\ UNCHANGED <<homes, plugin, holds, op, was, wanted, quiet, saved, ops>>

TurnOff ==
  /\ InPanel("off")
  /\ IF MayBecome({"Enabled", "Loaded"})
       THEN /\ Become("Disabled")
            /\ Go(Manager, IF op = "update" THEN "refresh" ELSE "idle")
            /\ wanted' = (wanted /\ op = "update")
       ELSE Go(Manager, "idle") /\ UNCHANGED <<plugin, wanted>>
  /\ Panel /\ UNCHANGED <<homes, guest, holds, op, was, quiet, saved, ops>>

(* The directory is read again; what does not parse leaves the record, and *)
(* a plugin that served is loaded from it.                                 *)
Refresh ==
  /\ InPanel("refresh")
  /\ LET p == DirectoryHolds(holds[Manager]) IN
     IF p \in Readable
       THEN /\ plugin' = [state |-> "Validated", package |-> p]
            /\ Go(Manager, "load") /\ UNCHANGED saved
       ELSE /\ Go(Manager, IF was THEN "load" ELSE "idle")
            /\ saved' = IF was THEN plugin.package ELSE Vacant
            /\ UNCHANGED plugin
  /\ Carry(Manager, Vacant)
  /\ Panel /\ UNCHANGED <<homes, guest, op, was, wanted, quiet, ops>>

TurnOn ==
  /\ InPanel("enable") /\ Go(Manager, "idle")
  /\ IF MayBecome({"Loaded", "Disabled"}) /\ plugin.package # "native"
       THEN /\ Become("Enabled")
            /\ wanted' = (wanted \/ op = "enable")
            /\ quiet' = IF op = "enable" THEN {} ELSE quiet
       ELSE UNCHANGED <<plugin, wanted, quiet>>
  /\ Panel /\ UNCHANGED <<homes, guest, holds, op, was, saved, ops>>

Forget ==
  /\ InPanel("forget") /\ Go(Manager, "erase") /\ homes' = Vacant
  /\ Panel /\ UNCHANGED <<plugin, guest, holds, op, was, wanted, quiet, saved, ops>>
Erase ==
  /\ InPanel("erase") /\ Go(Manager, "idle")
  /\ plugin' = NoRecord /\ wanted' = FALSE
  /\ Panel /\ UNCHANGED <<homes, guest, holds, op, was, quiet, saved, ops>>

-----------------------------------------------------------------------------
(* A turn: the directory is discovered again when the setting has changed, *)
(* then the tools of what is enabled are collected.                        *)
Told == UNCHANGED <<op, was, wanted, saved, ops, edits>>

TurnBegins(t) ==
  /\ at[t] = "idle" /\ begun < MaxTurnsBegun /\ begun' = begun + 1
  /\ discovered' = setting
  /\ IF discovered = setting THEN Go(t, "list") /\ UNCHANGED holds
                       ELSE Go(t, "discover") /\ Carry(t, setting)
  /\ quiet' = IF wanted THEN quiet \ {t} ELSE quiet \cup {t}
  /\ Noticed(t) /\ Told
  /\ UNCHANGED <<package, setting, homes, plugin, guest, running, offered, wrote, answer, calls>>

(* Whatever is found replaces the record, an enabled one too.              *)
Discover(t) ==
  /\ at[t] = "discover" /\ Go(t, "note")
  /\ LET p == DirectoryHolds(holds[t]) IN
     plugin' = CASE p = "none" -> plugin
                 [] p = "broken" -> [state |-> "Failed", package |-> p]
                 [] OTHER -> [state |-> "Discovered", package |-> p]
  /\ Carry(t, IF plugin' = NoRecord THEN Vacant ELSE holds[t])
  /\ Noticed(t) /\ Ghosts /\ Files /\ UNCHANGED <<guest, running>>

(* The directory is remembered for every plugin that is known by now, for  *)
(* those it does not hold too.                                             *)
NoteDirectory(t) ==
  /\ at[t] = "note" /\ Go(t, "list")
  /\ homes' = IF holds[t] = Vacant THEN homes ELSE holds[t]
  /\ Carry(t, Vacant)
  /\ Noticed(t) /\ Ghosts /\ UNCHANGED <<package, setting, discovered, plugin, guest, running>>

ListEnabled(t) ==
  /\ at[t] = "list" /\ Go(t, IF MayBecome({"Enabled"}) THEN "look" ELSE "ready")
  /\ Noticed(t) /\ Ghosts /\ Files /\ UNCHANGED <<plugin, guest, running, holds>>
LookForInstance(t) ==
  /\ at[t] = "look" /\ running = Vacant
  /\ Go(t, IF guest = NoGuest THEN "load" ELSE "collect")
  /\ Noticed(t) /\ Ghosts /\ Files /\ UNCHANGED <<plugin, guest, running, holds>>
Collect(t) ==
  /\ at[t] = "collect" /\ Go(t, "ready")
  /\ offered' = IF plugin # NoRecord /\ plugin.package # "broken"
                  THEN offered \cup {t} ELSE offered
  /\ Noticed(t) /\ Files
  /\ UNCHANGED <<plugin, guest, running, holds, op, was, wrote, answer, wanted, quiet,
                 saved, ops, edits, begun, calls>>
EndTurn(t) ==
  /\ at[t] = "ready" /\ Go(t, "idle")
  /\ offered' = offered \ {t} /\ wrote' = wrote \ {t} /\ quiet' = quiet \ {t}
  /\ answer' = [answer EXCEPT ![t] = Vacant]
  /\ Noticed(t) /\ Told /\ Files /\ UNCHANGED <<plugin, guest, running, holds, begun, calls>>

-----------------------------------------------------------------------------
(* A tool call the user has agreed to.  Its authority is put into the      *)
(* instance's one slot before the guest is entered, under two lock holds.  *)
InCall == UNCHANGED <<op, was, offered, wanted, quiet, saved, ops, edits, begun>>

BeginGuestCall(t) ==
  /\ at[t] = "ready" /\ t \in offered /\ calls < MaxGuestCalls /\ calls' = calls + 1
  /\ wrote' = wrote \ {t} /\ answer' = [answer EXCEPT ![t] = Vacant]
  /\ Go(t, IF plugin = NoRecord THEN "ready" ELSE "install")
  /\ Noticed(t) /\ InCall /\ Files /\ UNCHANGED <<plugin, guest, running, holds>>

Install(t) ==
  /\ at[t] = "install" /\ running = Vacant
  /\ IF guest = NoGuest THEN Go(t, "ready") /\ UNCHANGED guest
       ELSE Go(t, "enter") /\ guest' = [guest EXCEPT !.slot = "open"]
  /\ Noticed(t) /\ Ghosts /\ Files /\ UNCHANGED <<plugin, running, holds>>

EnterGuest(t) ==
  /\ at[t] = "enter" /\ running = Vacant
  /\ IF guest = NoGuest THEN Go(t, "ready") /\ UNCHANGED running
       ELSE Go(t, "guest") /\ running' = t
  /\ Noticed(t) /\ Ghosts /\ Files /\ UNCHANGED <<plugin, guest, holds>>

(* A write the slot's ticket covers; its evidence is the slot's last entry.*)
GuestWrites(t) ==
  /\ at[t] = "guest" /\ guest.slot # Vacant
  /\ guest' = [guest EXCEPT !.slot = t] /\ wrote' = wrote \cup {t}
  /\ Noticed(t) /\ InCall /\ Files
  /\ UNCHANGED <<plugin, running, at, holds, answer, calls>>

GuestReturns(t) ==
  /\ at[t] = "guest" /\ Go(t, "ready") /\ running' = Vacant
  /\ answer' = [answer EXCEPT ![t] = IF guest.slot = Vacant THEN "open" ELSE guest.slot]
  /\ guest' = [guest EXCEPT !.slot = Vacant]
  /\ Noticed(t) /\ InCall /\ Files /\ UNCHANGED <<plugin, holds, wrote, calls>>

(* Out of fuel, out of memory or a result out of bounds: the slot stays.   *)
GuestTraps(t) ==
  /\ at[t] = "guest" /\ Go(t, "ready") /\ running' = Vacant
  /\ Noticed(t) /\ Ghosts /\ Files /\ UNCHANGED <<plugin, guest, holds>>

-----------------------------------------------------------------------------
(* Somebody puts another package there, or names another directory.        *)
Repackage ==
  /\ edits < MaxEdits /\ edits' = edits + 1
  /\ package' \in Package \ {package}
  /\ UNCHANGED <<setting, discovered, homes, plugin, guest, running, at, holds, op, was, offered,
                 wrote, answer, wanted, quiet, alone, saved, ops, begun, calls>>
NameDirectory ==
  /\ edits < MaxEdits /\ edits' = edits + 1
  /\ setting' \in {"home", "other"} \ {setting}
  /\ UNCHANGED <<package, discovered, homes, plugin, guest, running, at, holds, op, was, offered,
                 wrote, answer, wanted, quiet, alone, saved, ops, begun, calls>>

PluginNext ==
  \/ \E a \in PluginThread : \/ LoadRuntime(a) \/ LoadBytes(a) \/ LoadManifest(a)
                        \/ LoadInstance(a) \/ LoadMark(a)
  \/ \E o \in {"enable", "disable", "update", "remove"} : AskPanel(o)
  \/ UpdateFinds \/ UpdateLooks \/ DropInstance \/ TurnOff \/ Refresh \/ TurnOn
  \/ Forget \/ Erase
  \/ \E t \in Turner :
       \/ TurnBegins(t) \/ Discover(t) \/ NoteDirectory(t) \/ ListEnabled(t)
       \/ LookForInstance(t) \/ Collect(t) \/ EndTurn(t)
       \/ BeginGuestCall(t) \/ Install(t) \/ EnterGuest(t)
       \/ GuestWrites(t) \/ GuestReturns(t) \/ GuestTraps(t)
  \/ Repackage \/ NameDirectory
PluginSpec == PluginInit /\ [][PluginNext]_pluginVars

-----------------------------------------------------------------------------
Place ==
  {"idle", "find", "was", "drop", "off", "refresh", "enable", "forget", "erase", "discover", "note",
   "list", "look", "load", "bytes", "manifest", "insert", "mark", "collect", "ready", "install",
   "enter", "guest"}
PluginTypeOK ==
  /\ package \in Package /\ plugin \in PluginRecord \cup {NoRecord} /\ guest \in Guest \cup {NoGuest}
  /\ setting \in {"home", "other"} /\ {discovered, homes} \subseteq {"home", "other", Vacant}
  /\ running \in Turner \cup {Vacant} /\ offered \cup wrote \cup quiet \subseteq Turner
  /\ at \in [PluginThread -> Place]
  /\ holds \in [PluginThread -> Package \cup {"home", "other", Vacant}]
  /\ \A a \in PluginThread : at[a] = "insert" => holds[a] \in Version
  /\ \A a \in PluginThread : at[a] \in {"discover", "note"} => holds[a] \in {"home", "other", Vacant}
  /\ was \in BOOLEAN /\ wanted \in BOOLEAN /\ alone \in BOOLEAN
  /\ answer \in [Turner -> Turner \cup {Vacant, "open"}]

(* A turn that begins after the user turned the plugin off, or removed it, *)
(* is not offered its tools unless the user turns it on meanwhile.         *)
OffMeansOff == \A t \in quiet : t \notin offered

(* A call that answers after its guest has written tells of a write of its *)
(* own, whoever else uses the instance's slot.                             *)
EvidenceIsOwn == \A t \in wrote : answer[t] \in {Vacant, t}

(* An update that finds its directory unreadable leaves a plugin that was  *)
(* serving served from the code of its record, if no turn came in between  *)
(* and that code runs.                                                     *)
RefusedUpdateRestores ==
  saved \in Version /\ InPanel("idle") /\ alone =>
    /\ plugin = [state |-> "Enabled", package |-> saved]
    /\ guest # NoGuest /\ guest.code = saved

(* Off means off, evidence is a call's own, a refusal restores.            *)
PluginsAreHonest == OffMeansOff /\ EvidenceIsOwn /\ RefusedUpdateRestores

(* "An update failure never silently unserves" a serving plugin: what was  *)
(* enabled has an instance again.  But a turn's load instantiates the code *)
(* it read before an update and marks the record of after it.              *)
NeverUnserved ==
  saved # Vacant /\ InPanel("idle") /\ alone => plugin.state = "Enabled" /\ guest # NoGuest
=============================================================================
