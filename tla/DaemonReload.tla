---------------------------- MODULE DaemonReload ----------------------------
(***************************************************************************)
(* wireproxy-daemon while another program edits its store: start-up, the   *)
(* reload on SIGHUP (Load, then AutoConnect, over connections that are     *)
(* live or still starting), and shutdown.  An adapter is one entry per     *)
(* profile; ServiceLifecycle has the steps in between.                     *)
(***************************************************************************)
EXTENDS Naturals, Sequences

CONSTANTS
  Profiles,
  Slots,      \* bounds the startRuntime goroutines of a profile at one time
  Files,      \* contents the store file may be given
  Malformed,  \* one that cannot be parsed
  Absent,     \* of a profile that a file does not have
  MaxEdits, MaxHangups  \* bound the edits of the file and the signals

(* What an instance has to assume of the constants. *)
DaemonAssumption ==
  /\ Malformed \in Files
  /\ \A f \in Files \ {Malformed} : DOMAIN f = Profiles
  /\ MaxEdits \in Nat /\ MaxHangups \in Nat

VARIABLES
  file,     \* the store
  mem,      \* Service.profiles
  status,   \* Service.statuses
  call,     \* the goroutines
  conf,     \* what each was given
  bound,    \* the dispatcher's backing
  events,   \* on their way to handleRuntimeEvent
  daemon,   \* where Run is
  hangup,   \* the channel of capacity one
  owed,     \* has SIGHUP been sent since the file was last read?
  edits, signals

vars == <<file, mem, status, call, conf, bound, events, daemon, hangup, owed, edits, signals>>
connections == <<status, call, conf, bound, events>>
outside == <<file, edits, signals>>

Entries(f) == {f[p] : p \in Profiles}
Config == UNION {Entries(f) : f \in Files \ {Malformed}}

CallState == {"none", "begun", "entered", "up", "serving", "refused", "failed"}
Underway == CallState \ {"none", "serving"}
Kind == {"started", "stopped", "error"}

TypeOK ==
  /\ file \in Files
  /\ mem \in [Profiles -> Config \cup {Absent}]
  /\ status \in [Profiles -> {"", "stopped", "starting", "running", "error"}]
  /\ call \in [Profiles \X Slots -> CallState]
  /\ conf \in [Profiles \X Slots -> Config \cup {Absent}]
  /\ bound \in SUBSET Profiles
  /\ events \in Seq(Profiles \X Kind)
  /\ daemon \in {"load", "auto", "notify", "idle", "reload", "reconnect",
                 "shutdown", "exited", "killed"}
  /\ hangup \in BOOLEAN /\ owed \in BOOLEAN

-----------------------------------------------------------------------------

Loaded(f) == [p \in Profiles |-> f[p]]
Present(p) == mem[p] # Absent
Entered(p) == {i \in Slots : call[<<p, i>>] \in {"entered", "up", "serving"}}
Running(p) == Entered(p) # {}
Alive == daemon \notin {"exited", "killed"}

(* Service.Status *)
Shown(p) == IF Running(p) THEN "running" ELSE IF status[p] = "" THEN "stopped" ELSE status[p]

Init ==
  /\ file \in Files
  /\ mem = [p \in Profiles |-> Absent]
  /\ status = [p \in Profiles |-> ""]
  /\ call = [c \in Profiles \X Slots |-> "none"]
  /\ conf = [c \in Profiles \X Slots |-> Absent]
  /\ bound = {}
  /\ events = <<>>
  /\ daemon = "load"
  /\ hangup = FALSE /\ owed = FALSE
  /\ edits = 0 /\ signals = 0

Load(next) ==
  /\ daemon' = next
  /\ owed' = FALSE
  /\ IF file = Malformed
     THEN UNCHANGED <<mem, status>>
     ELSE /\ mem' = Loaded(file)
          /\ status' = [p \in Profiles |-> IF file[p] = Absent THEN "" ELSE "stopped"]
  /\ UNCHANGED <<call, conf, bound, events, hangup, outside>>

Auto == {p \in Profiles : Present(p) /\ mem[p].auto}
DuplicateBind == \E p, q \in Auto : p # q /\ mem[p].bind = mem[q].bind
(* Mutant: one that has failed is left alone. *)
IdleStopped(p) == ~Running(p) /\ status[p] \in {"", "stopped"}

Idle(p) == ~Running(p) /\ status[p] \notin {"starting", "running"}

IsFree(p, i) == call[<<p, i>>] = "none"
FreeSlot(p) == CHOOSE i \in Slots : IsFree(p, i)

AutoConnect(next) ==
  LET begun == IF DuplicateBind THEN {} ELSE {p \in Auto : Idle(p)}
      New(c) == c[1] \in begun /\ c[2] = FreeSlot(c[1])
  IN /\ \A p \in begun : \E i \in Slots : IsFree(p, i)
     /\ daemon' = next
     /\ status' = [p \in Profiles |->
          IF DuplicateBind /\ p \in Auto THEN "error"
          ELSE IF p \in begun THEN "starting" ELSE status[p]]
     /\ call' = [c \in Profiles \X Slots |-> IF New(c) THEN "begun" ELSE call[c]]
     /\ conf' = [c \in Profiles \X Slots |-> IF New(c) THEN mem[c[1]] ELSE conf[c]]
     /\ UNCHANGED <<mem, bound, events, hangup, owed, outside>>

-----------------------------------------------------------------------------
(* daemon.Run *)

Boot ==
  \/ daemon = "load" /\ Load("auto")
  \/ daemon = "auto" /\ AutoConnect("notify")
  \/ /\ daemon = "notify"
     /\ daemon' = "idle"   \* signal.Notify
     /\ UNCHANGED <<mem, connections, hangup, owed, outside>>

TakeHangup ==
  /\ daemon = "idle" /\ hangup
  /\ hangup' = FALSE
  /\ daemon' = "reload"
  /\ UNCHANGED <<mem, connections, owed, outside>>

Reload ==
  \/ daemon = "reload" /\ Load("reconnect")
  \/ daemon = "reconnect" /\ AutoConnect("idle")

Terminate ==
  /\ daemon = "idle"
  /\ daemon' = "shutdown"
  /\ UNCHANGED <<mem, connections, hangup, owed, outside>>

(* StopAllAndWait has returned, or its time is up. *)
Exit ==
  /\ daemon = "shutdown"
  /\ daemon' = "exited"
  /\ UNCHANGED <<mem, connections, hangup, owed, outside>>

-----------------------------------------------------------------------------
(* startRuntime, and the process it leaves behind. *)

Step(p, i, to) == call' = [call EXCEPT ![<<p, i>>] = to]
Others == <<mem, conf, daemon, hangup, owed, outside>>

Enter(p, i) ==
  /\ Alive /\ call[<<p, i>>] = "begun"
  /\ \/ /\ p \notin bound /\ ~Running(p) /\ daemon # "shutdown"
        /\ bound' = bound \cup {p}
        /\ Step(p, i, "entered")
     \/ (p \in bound \/ daemon = "shutdown") /\ Step(p, i, "refused") /\ UNCHANGED bound
  /\ UNCHANGED <<status, events, Others>>

Up(p, i) ==
  /\ Alive /\ call[<<p, i>>] = "entered"
  /\ \/ /\ daemon # "shutdown"
        /\ Step(p, i, "up")
        /\ events' = Append(events, <<p, "started">>)
        /\ UNCHANGED bound
     \/ Step(p, i, "failed") /\ bound' = bound \ {p} /\ UNCHANGED events
  /\ UNCHANGED <<status, Others>>

Returned(p, i) ==
  /\ Alive /\ call[<<p, i>>] \in {"up", "failed", "refused"}
  /\ Step(p, i, IF call[<<p, i>>] = "up" THEN "serving" ELSE "none")
  /\ status' = [status EXCEPT ![p] =
       IF ~Present(p) THEN @
       ELSE IF call[<<p, i>>] # "up" THEN IF daemon = "shutdown" THEN "stopped" ELSE "error"
       ELSE IF @ = "starting" THEN "running" ELSE @]
  /\ UNCHANGED <<bound, events, Others>>

Leave(p, i) ==
  /\ Alive /\ call[<<p, i>>] = "serving"
  /\ Step(p, i, "none")
  /\ \E end \in {"stopped", "error"} : events' = Append(events, <<p, end>>)
  /\ UNCHANGED <<status, bound, Others>>

HandleRuntimeEvent ==
  /\ Alive /\ events # <<>>
  /\ LET p == Head(events)[1]
         type == Head(events)[2]
     IN /\ status' = [status EXCEPT ![p] =
             IF ~Present(p) THEN @ ELSE IF type = "started" THEN "running" ELSE type]
        /\ bound' = IF type = "started" THEN bound ELSE bound \ {p}
  /\ events' = Tail(events)
  /\ UNCHANGED <<call, Others>>

-----------------------------------------------------------------------------

(* Another frontend, or the user, replaces the file. *)
EditFile ==
  /\ Alive /\ edits < MaxEdits
  /\ file' \in Files \ {file}
  /\ edits' = edits + 1
  /\ UNCHANGED <<mem, connections, daemon, hangup, owed, signals>>

(* Mutant: the signal is lost unless Run is waiting for it. *)
HangupUnbuffered ==
  /\ Alive /\ signals < MaxHangups
  /\ signals' = signals + 1
  /\ daemon \notin {"load", "auto", "notify"}
  /\ hangup' = (hangup \/ daemon = "idle") /\ owed' = TRUE
  /\ UNCHANGED <<file, edits, mem, connections, daemon>>

(* SIGHUP: before signal.Notify it ends the process. *)
Hangup ==
  /\ Alive /\ signals < MaxHangups
  /\ signals' = signals + 1
  /\ IF daemon \in {"load", "auto", "notify"}
     THEN daemon' = "killed" /\ UNCHANGED <<hangup, owed>>
     ELSE hangup' = TRUE /\ owed' = TRUE /\ UNCHANGED daemon
  /\ UNCHANGED <<file, edits, mem, connections>>

Start(p, i) == Enter(p, i) \/ Up(p, i) \/ Returned(p, i)
Run == Boot \/ TakeHangup \/ Reload \/ Exit

Next ==
  \/ Run \/ Terminate
  \/ \E p \in Profiles, i \in Slots : Start(p, i) \/ Leave(p, i)
  \/ HandleRuntimeEvent
  \/ EditFile \/ Hangup

Spec == Init /\ [][Next]_vars

-----------------------------------------------------------------------------

Quiet ==
  /\ daemon = "idle" /\ events = <<>>
  /\ \A c \in Profiles \X Slots : call[c] \in {"none", "serving"}

(* Once everything has settled, what the service shows as running is what  *)
(* runs, however reloads, starts and ends were interleaved.                *)
ShownIsTrue ==
  Quiet => \A p \in Profiles : Present(p) => (Shown(p) = "running" <=> Running(p))

(* A profile never has two connections, although a reload forgets the      *)
(* starts that are under way and begins them again.                        *)
OneConnection == \A p \in Profiles : \A i, j \in Entered(p) : i = j

(* After a signal the file is still to be read, also when the signal was   *)
(* sent while the last one was being handled.                              *)
HangupIsKept == owed => hangup \/ daemon \in {"reload", "shutdown", "exited"}

(* A profile that a reload finds and that is to connect by itself is       *)
(* started, whatever became of its connections before, unless a connection *)
(* or a start of it is there, or an event of one still on its way, or the  *)
(* addresses of such profiles collide.                                     *)
AutoStarts ==
  daemon = "reconnect" /\ daemon' = "idle" /\ ~DuplicateBind =>
    \A p \in Auto :
      \/ \E i \in Slots : call'[<<p, i>>] # "none"
      \/ \E n \in DOMAIN events : events[n][1] = p

(* SIGHUP is the way to pick up edits of the file without a restart        *)
(* (docs/daemon.md:14-19): when all is quiet, what serves is what was      *)
(* loaded.                                                                 *)
ReloadPicksUpEdits ==
  Quiet => \A p \in Profiles, i \in Slots :
    call[<<p, i>>] = "serving" => conf[<<p, i>>] = mem[p]

(* SIGHUP does not end the process (docs/daemon.md:14-19). *)
HangupNeverKills == daemon # "killed"

-----------------------------------------------------------------------------
(* The inductive invariant behind ShownIsTrue, OneConnection, HangupIsKept  *)
(* and AutoStarts.                                                          *)

Connected(p) == \E i \in Slots : call[<<p, i>>] \in {"up", "serving"}
IsEnd(e, p) == e[1] = p /\ e[2] # "started"
EndIsDue(p, after) == \E n \in DOMAIN events : n > after /\ IsEnd(events[n], p)

(* A status is of a profile there is; "running" and "starting" stand for a  *)
(* goroutine, or for one whose end has not been told yet.                   *)
StatusInv ==
  \A p \in Profiles :
    /\ status[p] # "" => Present(p)
    /\ status[p] = "running" => Connected(p) \/ EndIsDue(p, 0)
    /\ status[p] = "starting" =>
         \E i \in Slots : call[<<p, i>>] \in Underway

(* What a started event tells is still so, or its end follows.              *)
StartedInv ==
  \A n \in DOMAIN events :
    events[n][2] = "started" => Connected(events[n][1]) \/ EndIsDue(events[n][1], n)

ReloadInv == TypeOK /\ HangupIsKept /\ OneConnection /\ StatusInv /\ StartedInv

=============================================================================
