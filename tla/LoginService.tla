---------------------------- MODULE LoginService ----------------------------
(***************************************************************************)
(* Start on login: the two installers, which drive systemd or launchd one  *)
(* command after another, and the frontends that call them: the service    *)
(* panel of the terminal and the tray menu.  The daemon they install needs *)
(* the lock of the store, which another program may hold.                  *)
(***************************************************************************)
EXTENDS Naturals

CONSTANTS
  Slots,      \* calls of an installer that may be under way at one time
  MaxVersion, MaxOpenings, MaxFaults, MaxLogins  \* bounds

(* What an instance has to assume of the constants. *)
LoginServiceAssumption ==
  /\ MaxVersion \in Nat \ {0} /\ MaxOpenings \in Nat /\ MaxFaults \in Nat /\ MaxLogins \in Nat

VARIABLES
  platform, \* "linux" or "darwin", which the binaries are built for
  binary,   \* the daemon that resolveDaemonBinaryPath finds
  file,     \* the one the unit or plist names, 0 without a file
  manager,  \* of systemd or launchd: what it has read, enabled, to be kept running
  daemon,   \* the one that runs, 0 without
  other,    \* does another program hold the lock of the store?
  calls,    \* Status, Install and Uninstall
  tui,      \* ServicePanel and serviceGen
  gui,      \* svcActionInFlight and the dialog that is open
  asked,    \* what the last Install or Uninstall has reported
  truths,   \* what has been so since the panel was opened
  faults, logins

vars == <<platform, binary, file, manager, daemon, other, calls, tui, gui, asked, truths, faults, logins>>
service == <<file, manager, daemon>>
world == <<platform, binary, other, faults, logins>>

NoStatus == [installed |-> FALSE, enabled |-> FALSE, running |-> FALSE]
NoCall == [op |-> "none", from |-> "", gen |-> 0, force |-> FALSE, step |-> "",
           wrote |-> 0, status |-> NoStatus, err |-> ""]

Versions == 0..MaxVersion
Status == [installed : BOOLEAN, enabled : BOOLEAN, running : BOOLEAN]

Closed == [open |-> FALSE, gen |-> 0, loading |-> FALSE, busy |-> FALSE, status |-> NoStatus, err |-> ""]

Init ==
  /\ platform \in {"linux", "darwin"}
  /\ binary = 1 /\ file = 0 /\ daemon = 0 /\ other \in BOOLEAN
  /\ manager = [loaded |-> 0, enabled |-> FALSE, wanted |-> FALSE]
  /\ calls = [s \in Slots |-> NoCall]
  /\ tui = Closed /\ gui = [inFlight |-> FALSE, dialog |-> ""]
  /\ asked = "removed" /\ truths = {NoStatus}
  /\ faults = 0 /\ logins = 0

-----------------------------------------------------------------------------
(* The installers. *)

Linux == platform = "linux"

Held == other \/ daemon # 0

Actual == [installed |-> file # 0, enabled |-> manager.enabled, running |-> daemon # 0]

(* After each command of a call the one that follows.                      *)

LinuxInstall == [check |-> "resolve", resolve |-> "write", write |-> "reread",
                 reread |-> "enable", enable |-> "done"]
DarwinInstall == [check |-> "resolve", resolve |-> "write", write |-> "reload",
                  reload |-> "load", load |-> "done"]

(* Mutant: the file goes first. *)
LinuxUninstallFirst == [stat |-> "remove", remove |-> "stop", stop |-> "disable",
                        disable |-> "reread", reread |-> "done"]
LinuxUninstall == [stat |-> "stop", stop |-> "disable", disable |-> "remove",
                   remove |-> "reread", reread |-> "done"]
DarwinUninstall == [stat |-> "unload", unload |-> "remove", remove |-> "done"]

LinuxStatus == [look |-> "isEnabled", isEnabled |-> "isActive", isActive |-> "done"]
DarwinStatus == [look |-> "list", list |-> "done"]

Steps(op) ==
  CASE op = "install" -> IF Linux THEN LinuxInstall ELSE DarwinInstall
    [] op = "uninstall" -> IF Linux THEN LinuxUninstall ELSE DarwinUninstall
    [] op = "status" -> IF Linux THEN LinuxStatus ELSE DarwinStatus

First(op) == CASE op = "install" -> "check" [] op = "uninstall" -> "stat" [] op = "status" -> "look"

Called(s, op, from, gen, force) ==
  [calls EXCEPT ![s] = [op |-> op, from |-> from, gen |-> gen, force |-> force,
                        step |-> First(op), wrote |-> 0, status |-> NoStatus, err |-> ""]]

At(s, step) == calls[s].step = step

(* The call has failed, or has nothing left to do. *)
Returns(s, err) == calls' = [calls EXCEPT ![s].step = "done", ![s].err = err]
Following(s) == Steps(calls[s].op)[calls[s].step]
Goes(s) == calls' = [calls EXCEPT ![s].step = Following(s)]

CheckLock(s) ==
  /\ At(s, "check")
  /\ IF Held /\ ~calls[s].force THEN Returns(s, "locked") ELSE Goes(s)
  /\ UNCHANGED service

Resolve(s) ==
  /\ At(s, "resolve")
  /\ calls' = [calls EXCEPT ![s].step = Following(s), ![s].wrote = binary]
  /\ UNCHANGED service

WriteFile(s) ==
  /\ At(s, "write")
  /\ file' = calls[s].wrote
  (* launchd is only told to forget a job whose file was there. *)
  /\ calls' = [calls EXCEPT ![s].step =
       IF Following(s) = "reload" /\ file = 0 THEN "load" ELSE Following(s)]
  /\ UNCHANGED <<manager, daemon>>

Stat(s) ==
  /\ At(s, "stat")
  /\ IF file = 0 THEN Returns(s, "") ELSE Goes(s)
  /\ UNCHANGED service

RemoveFile(s) ==
  /\ At(s, "remove")
  /\ file' = 0
  /\ Goes(s)
  /\ UNCHANGED <<manager, daemon>>

(* systemd *)

DaemonReload(s) ==
  /\ At(s, "reread")
  /\ manager' = [manager EXCEPT !.loaded = file]
  /\ Goes(s)
  /\ UNCHANGED <<file, daemon>>

(* enable --now: what runs already is not started again. *)
EnableNow(s) ==
  /\ At(s, "enable")
  /\ IF file = 0
     THEN Returns(s, "failed") /\ UNCHANGED manager
     ELSE /\ Goes(s)
          /\ manager' = [loaded |-> IF manager.loaded = 0 THEN file ELSE manager.loaded,
                         enabled |-> TRUE, wanted |-> TRUE]
  /\ UNCHANGED <<file, daemon>>

Stop(s) ==
  /\ At(s, "stop")
  /\ IF file = 0 /\ manager.loaded = 0
     THEN Returns(s, "failed") /\ UNCHANGED <<manager, daemon>>
     ELSE Goes(s) /\ manager' = [manager EXCEPT !.wanted = FALSE] /\ daemon' = 0
  /\ UNCHANGED file

Disable(s) ==
  /\ At(s, "disable")
  /\ IF file = 0
     THEN Returns(s, "failed") /\ UNCHANGED manager
     ELSE Goes(s) /\ manager' = [manager EXCEPT !.enabled = FALSE]
  /\ UNCHANGED <<file, daemon>>

(* launchd: a job that is not loaded need not be unloaded, and one that is *)
(* loaded is not loaded again.  Every file is loaded at login.             *)

Unload(s) ==
  /\ At(s, "unload") \/ At(s, "reload")
  /\ manager' = [manager EXCEPT !.loaded = 0, !.enabled = FALSE, !.wanted = FALSE]
  /\ daemon' = 0
  /\ Goes(s)
  /\ UNCHANGED file

LoadJob(s) ==
  /\ At(s, "load")
  /\ IF file = 0
     THEN Returns(s, "failed") /\ UNCHANGED manager
     ELSE /\ Goes(s)
          /\ manager' = IF manager.loaded # 0 THEN manager
                        ELSE [loaded |-> file, enabled |-> TRUE, wanted |-> TRUE]
  /\ UNCHANGED <<file, daemon>>

Look(s) ==
  /\ At(s, "look")
  /\ calls' = [calls EXCEPT ![s].step = IF file = 0 THEN "done" ELSE Following(s),
                            ![s].status.installed = file # 0]
  /\ UNCHANGED service

QueryState(s) ==
  /\ At(s, "isEnabled") \/ At(s, "isActive")
  /\ calls' = [calls EXCEPT
       ![s].step = Following(s),
       ![s].status = IF At(s, "isEnabled") THEN [@ EXCEPT !.enabled = manager.enabled]
                                            ELSE [@ EXCEPT !.running = daemon # 0]]
  /\ UNCHANGED service

ListJob(s) ==
  /\ At(s, "list")
  /\ calls' = [calls EXCEPT ![s].step = Following(s), ![s].status.enabled = manager.loaded # 0,
                            ![s].status.running = manager.loaded # 0 /\ daemon # 0]
  /\ UNCHANGED service

-----------------------------------------------------------------------------
(* The manager, the daemon and the world around them. *)

(* One that does not get the lock exits and is started again. *)
Start ==
  /\ manager.wanted /\ manager.loaded # 0 /\ daemon = 0 /\ ~other
  /\ daemon' = manager.loaded
  /\ UNCHANGED <<platform, binary, file, manager, other, calls, tui, gui, asked, faults, logins>>

Crash ==
  /\ daemon # 0 /\ faults < MaxFaults
  /\ daemon' = 0 /\ faults' = faults + 1
  /\ UNCHANGED <<platform, binary, file, manager, other, calls, tui, gui, asked, logins>>

LogIn ==
  /\ logins < MaxLogins
  /\ logins' = logins + 1
  /\ daemon' = 0 /\ other' = FALSE
  /\ LET starts == file # 0 /\ (Linux => manager.enabled)
     IN manager' = [loaded |-> file, wanted |-> starts,
                    enabled |-> IF Linux THEN manager.enabled ELSE starts]
  /\ calls' = [s \in Slots |-> NoCall]
  /\ tui' = [Closed EXCEPT !.gen = tui.gen] /\ gui' = [inFlight |-> FALSE, dialog |-> ""]
  /\ UNCHANGED <<platform, binary, file, asked, faults>>

OtherDaemon ==
  /\ other \/ ~Held
  /\ other' = ~other
  /\ UNCHANGED <<platform, binary, service, calls, tui, gui, asked, faults, logins>>

Upgrade ==
  /\ binary < MaxVersion
  /\ binary' = binary + 1
  /\ UNCHANGED <<platform, service, other, calls, tui, gui, asked, faults, logins>>

-----------------------------------------------------------------------------
(* The calls of the frontends. *)

Free(s) == calls[s].op = "none"
Mutates(op) == op \in {"install", "uninstall"}

Begin(s, op, from, gen, force) ==
  /\ Free(s)
  /\ calls' = Called(s, op, from, gen, force)
  /\ asked' = IF Mutates(op) THEN "unknown" ELSE asked

Fail(s) ==
  /\ ~Free(s) /\ ~At(s, "done") /\ faults < MaxFaults
  /\ faults' = faults + 1
  /\ Returns(s, "failed")
  /\ UNCHANGED <<platform, binary, service, other, tui, gui, asked, logins>>

Work(s) ==
  /\ \/ CheckLock(s) \/ Resolve(s) \/ WriteFile(s) \/ Stat(s) \/ RemoveFile(s)
     \/ DaemonReload(s) \/ EnableNow(s) \/ Stop(s) \/ Disable(s)
     \/ Unload(s) \/ LoadJob(s) \/ Look(s) \/ QueryState(s) \/ ListJob(s)
  /\ UNCHANGED <<world, tui, gui, asked>>

Done(s) == At(s, "done")
Succeeds(s) == Done(s) /\ calls[s].err = "" /\ Mutates(calls[s].op)

(* Taken back with the answer. *)
Answered(s) ==
  /\ Done(s)
  /\ calls' = [calls EXCEPT ![s] = NoCall]
  /\ asked' = IF ~Succeeds(s) THEN asked
              ELSE IF calls[s].op = "install" THEN "installed" ELSE "removed"
  /\ UNCHANGED <<world, service>>

(* The terminal: the panel has the keys while it is open. *)

OpenPanel(s) ==
  /\ ~tui.open /\ tui.gen < MaxOpenings
  /\ tui' = [Closed EXCEPT !.open = TRUE, !.gen = tui.gen + 1, !.loading = TRUE]
  /\ Begin(s, "status", "tui", tui'.gen, FALSE)
  /\ UNCHANGED <<world, service, gui>>

ClosePanel ==
  /\ tui.open
  /\ tui' = [Closed EXCEPT !.gen = tui.gen]
  /\ UNCHANGED <<world, service, calls, gui, asked>>

TakesConfirm == tui.open /\ ~tui.loading /\ ~tui.busy /\ tui.err # "failed"

ConfirmPanel(s) ==
  /\ TakesConfirm
  /\ Begin(s, IF tui.err = "" /\ tui.status.installed THEN "uninstall" ELSE "install",
           "tui", tui.gen, tui.err = "locked")
  /\ tui' = [tui EXCEPT !.busy = TRUE]
  /\ UNCHANGED <<world, service, gui>>

(* Mutant: for whichever panel is open. *)
IsCurrentAny(c) == tui.open

IsCurrent(c) == tui.open /\ c.gen = tui.gen

StatusResult(s) ==
  /\ calls[s].from = "tui" /\ calls[s].op = "status"
  /\ Answered(s)
  /\ tui' = IF ~IsCurrent(calls[s]) THEN tui
            ELSE [tui EXCEPT !.loading = FALSE, !.status = calls[s].status, !.err = calls[s].err]
  /\ UNCHANGED gui

ActionAnswer(c) ==
  IF c.err # "" THEN [tui EXCEPT !.busy = FALSE, !.err = c.err]
  ELSE [Closed EXCEPT !.gen = tui.gen]

ActionResult(s) ==
  /\ calls[s].from = "tui" /\ Mutates(calls[s].op)
  /\ Answered(s)
  /\ tui' = IF IsCurrent(calls[s]) THEN ActionAnswer(calls[s]) ELSE tui
  /\ UNCHANGED gui

(* The tray: its menu is as old as its last refresh and offers to install  *)
(* when the status cannot be read, so either item may be clicked.          *)

MayAct == ~gui.inFlight

InstallService(s, force) ==
  /\ MayAct
  /\ Begin(s, "install", "gui", 0, force)
  /\ UNCHANGED <<world, service, tui>>

Enable(s) ==
  /\ InstallService(s, FALSE)
  /\ gui' = [gui EXCEPT !.inFlight = TRUE]

ForceInstall(s) ==
  /\ gui.dialog = "force"
  /\ InstallService(s, TRUE)
  /\ gui' = [inFlight |-> TRUE, dialog |-> ""]

DisableItem ==
  /\ gui.dialog = ""
  /\ gui' = [gui EXCEPT !.dialog = "remove"]
  /\ UNCHANGED <<world, service, calls, tui, asked>>

UninstallService(s) ==
  /\ gui.dialog = "remove" /\ MayAct
  /\ Begin(s, "uninstall", "gui", 0, FALSE)
  /\ gui' = [inFlight |-> TRUE, dialog |-> ""]
  /\ UNCHANGED <<world, service, tui>>

(* The dialog is closed, confirmed while an action is in flight or not. *)
Decline ==
  /\ gui.dialog # ""
  /\ gui' = [gui EXCEPT !.dialog = ""]
  /\ UNCHANGED <<world, service, calls, tui, asked>>

DialogAfter(c) == IF c.err = "locked" /\ ~c.force THEN "force" ELSE gui.dialog

GuiResult(s) ==
  /\ calls[s].from = "gui"
  /\ Answered(s)
  /\ gui' = [inFlight |-> FALSE, dialog |-> DialogAfter(calls[s])]
  /\ UNCHANGED tui

-----------------------------------------------------------------------------

Step ==
  \/ Start \/ Crash \/ LogIn \/ OtherDaemon \/ Upgrade
  \/ ClosePanel \/ DisableItem \/ Decline
  \/ \E s \in Slots :
       \/ Work(s) \/ Fail(s)
       \/ OpenPanel(s) \/ ConfirmPanel(s) \/ StatusResult(s) \/ ActionResult(s)
       \/ Enable(s) \/ ForceInstall(s) \/ UninstallService(s) \/ GuiResult(s)

Next ==
  /\ Step
  /\ truths' = IF tui'.gen # tui.gen THEN {Actual'} ELSE truths \cup {Actual'}

Spec == Init /\ [][Next]_vars

-----------------------------------------------------------------------------

Commands == {"", "done", "check", "resolve", "write", "reread", "enable", "reload", "load",
             "stat", "stop", "disable", "remove", "unload", "look", "isEnabled", "isActive", "list"}
Errors == {"", "locked", "failed"}
Call == [op : {"none", "install", "uninstall", "status"}, from : {"", "tui", "gui"},
         gen : 0..MaxOpenings, force : BOOLEAN, step : Commands, wrote : Versions,
         status : Status, err : Errors]

TypeOK ==
  /\ platform \in {"linux", "darwin"}
  /\ binary \in Versions \ {0} /\ file \in Versions /\ daemon \in Versions
  /\ manager \in [loaded : Versions, enabled : BOOLEAN, wanted : BOOLEAN]
  /\ other \in BOOLEAN /\ calls \in [Slots -> Call]
  /\ tui \in [open : BOOLEAN, gen : 0..MaxOpenings, loading : BOOLEAN, busy : BOOLEAN,
              status : Status, err : Errors]
  /\ gui \in [inFlight : BOOLEAN, dialog : {"", "force", "remove"}]
  /\ asked \in {"installed", "removed", "unknown"}
  /\ faults \in 0..MaxFaults /\ logins \in 0..MaxLogins

(* Nothing of the service is left without its file, which is all that      *)
(* Status and Uninstall go by: every crash, login and failed command in    *)
(* the middle of a call leaves something that can still be removed.        *)
NoOrphan == file = 0 => daemon = 0 /\ ~manager.enabled /\ ~manager.wanted

(* What an installer has reported holds until it is called again: after    *)
(* Install the daemon is kept running and comes back with each login, and  *)
(* after Uninstall it does neither.                                        *)
ReportedHolds ==
  /\ asked = "installed" => file # 0 /\ manager.enabled /\ manager.wanted
  /\ asked = "removed" => daemon = 0 /\ ~manager.enabled /\ ~manager.wanted

(* When Install has succeeded, a daemon that runs is the one it has        *)
(* written into the file, not one that was there before.                   *)
RunsWhatItWrote ==
  \A s \in Slots : Succeeds(s)' /\ ~Done(s) /\ calls[s].op = "install" =>
    daemon' \in {0, calls[s].wrote}
InstallRunsWhatItWrote == [][RunsWhatItWrote]_vars

(* The tray has one action under way, whatever is clicked, confirmed and   *)
(* answered meanwhile, and shows "updating" exactly as long.               *)
OneAction == \A s \in Slots :
  calls[s].from = "gui" => gui.inFlight /\ \A t \in Slots : calls[t].from = "gui" => s = t

(* What the panel says of an installed service has been so since it was    *)
(* opened: answers to an earlier opening are not shown.                    *)
Seen(status, fields) == \A field \in fields : \E t \in truths : t[field] = status[field]
Shown(status) == IF status.installed THEN {"installed", "enabled", "running"} ELSE {"installed"}

ShownWasTrue ==
  tui.open /\ ~tui.loading /\ tui.err # "failed" => Seen(tui.status, Shown(tui.status))

(* A panel acts on one answer at a time: nothing it has asked for is still *)
(* under way when it offers the next action.                               *)
OffersWhenIdle ==
  TakesConfirm => \A s \in Slots : calls[s].from = "tui" => calls[s].gen < tui.gen

(* A panel that waits has something to wait for: its answer comes.         *)
PanelIsServed ==
  tui.open /\ (tui.busy \/ tui.loading) =>
    \E s \in Slots : calls[s].from = "tui" /\ calls[s].gen = tui.gen

(* "Safe for concurrent use": once every call has ended, a daemon that     *)
(* runs has its file.                                                      *)
ConcurrentCallsAgree == (\A s \in Slots : Free(s)) => NoOrphan

-----------------------------------------------------------------------------
(* The inductive invariants. *)

(* A call is at one of the commands of its program, its panel is not of    *)
(* the future, and only the panel asks for the status.                     *)
CallInv == \A s \in Slots :
  IF Free(s) THEN calls[s] = NoCall
  ELSE /\ calls[s].step \in DOMAIN Steps(calls[s].op) \cup {"done"}
       /\ IF calls[s].from = "tui" THEN calls[s].gen <= tui.gen
          ELSE calls[s].from = "gui" /\ Mutates(calls[s].op)

(* For launchd a job is enabled and kept running as long as it is loaded.  *)
JobInv ==
  ~Linux => /\ manager.enabled <=> manager.loaded # 0
            /\ manager.wanted <=> manager.loaded # 0
            /\ daemon # 0 => manager.loaded # 0

(* What a status call has read so far. *)
Read(c) ==
  CASE c.step \in {"isEnabled", "list"} -> {"installed"}
    [] c.step = "isActive" -> {"installed", "enabled"}
    [] c.step = "done" /\ c.err # "failed" -> Shown(c.status)
    [] OTHER -> {}

Current(s) == calls[s].from = "tui" /\ calls[s].gen = tui.gen

(* The panel that is open has one call under way at most, exactly while it *)
(* waits, and a status that has been read since it was opened is true.     *)
PanelInv ==
  /\ Actual \in truths
  /\ ~(tui.loading /\ tui.busy) /\ (tui.busy => tui.err # "failed")
  /\ \A s \in Slots : Current(s) /\ calls[s].op = "status" => Seen(calls[s].status, Read(calls[s]))
  /\ tui.open => \A s \in Slots : Current(s) =>
       /\ IF calls[s].op = "status" THEN tui.loading ELSE tui.busy
       /\ \A t \in Slots : Current(t) => s = t
  /\ ShownWasTrue /\ PanelIsServed

StatusInv == TypeOK /\ CallInv /\ JobInv /\ PanelInv /\ OneAction

(* No two calls at one time install or uninstall. *)
Changes(s) == Mutates(calls[s].op)
OneChanges == \A s, t \in Slots : Changes(s) /\ Changes(t) => s = t

(* What the commands behind a call have left. *)
InstallIsAt(s) ==
  /\ calls[s].step = "write" => calls[s].wrote # 0
  /\ calls[s].step \in {"reread", "enable", "reload", "load"} => file # 0
  /\ calls[s].step = "load" => manager.loaded = 0
  /\ Succeeds(s) => file # 0 /\ manager.enabled /\ manager.wanted

UninstallIsAt(s) ==
  /\ calls[s].step \in {"disable", "remove"} => ~manager.wanted /\ daemon = 0
  /\ calls[s].step = "remove" => ~manager.enabled
  /\ calls[s].step = "reread" \/ Succeeds(s) => file = 0

ChangesInv ==
  /\ \A s \in Slots :
       /\ calls[s].op = "install" => InstallIsAt(s)
       /\ calls[s].op = "uninstall" => UninstallIsAt(s)
       /\ Changes(s) => asked = "unknown"
  /\ asked = "removed" => file = 0
  /\ asked = "installed" => file # 0 /\ manager.enabled /\ manager.wanted
  /\ ~Linux /\ file = 0 => manager.loaded = 0
  /\ NoOrphan
=============================================================================
