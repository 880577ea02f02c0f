---------------------------- MODULE AuthNotices ----------------------------
(***************************************************************************)
(* What a Tailscale login tells the user while node.Up waits               *)
(* (tailscaleAuthLogEmitter).  Two goroutines feed the emitter: tsnet's    *)
(* log callback, and a monitor that polls the state of the node until      *)
(* Start, once Up has returned, stops it.  Which notice is shown is decided*)
(* under the lock, and it is shown after the lock was released.            *)
(***************************************************************************)
EXTENDS Naturals, Sequences

CONSTANTS
  URLs,      \* login URLs the control server hands out
  Delay,     \* tailscaleStatusNoticeDelay, in poll intervals (2 in the code)
  MaxTime,   \* bound on the clock
  MaxShown   \* bound on the notices shown

(* What an instance has to assume of the constants; a URL is no state. *)
States == {"NoState", "NeedsLogin", "NeedsMachineAuth", "Starting", "Running"}

NoticeAssumption ==
  /\ {Delay, MaxTime, MaxShown} \subseteq Nat
  /\ URLs \cap States = {}

VARIABLES
  node,      \* BackendState and AuthURL of the node
  clock,     \* time, in poll intervals
  start,     \* where Start is
  monitor,   \* where the monitor is
  sample,    \* the notice of the status it has polled
  lastPoll,  \* when
  inHand,    \* what a goroutine decided to show and has not shown yet
  lastKey, pendingKey, pendingSince, machineAuthNotified,  \* the emitter
  shown,     \* kinds of the notices shown
  steady     \* since when every status polled was the last one, for Debounced

emitter == <<lastKey, pendingKey, pendingSince, machineAuthNotified>>
vars == <<node, clock, start, monitor, sample, lastPoll, inHand, emitter, shown, steady>>

Callers == {"tsnet", "monitor", "start"}
Kinds == {"none", "loginURL", "waiting", "machineAuth", "running"}

None == [kind |-> "none", key |-> "none"]
Notice == [kind : Kinds, key : States \cup URLs \cup {"none", "key ignored"}]

TypeOK ==
  /\ node \in [state : States, url : URLs \cup {"none"}]
  /\ clock \in 0..MaxTime
  /\ start \in {"up", "stopMonitor", "approve", "show", "done"}
  /\ monitor \in {"poll", "notice", "show", "sleep", "done"}
  /\ sample \in Notice
  /\ lastPoll \in 0..MaxTime
  /\ inHand \in [Callers -> Notice]
  /\ {lastKey, pendingKey} \subseteq States \cup URLs \cup {"none", "key ignored"}
  /\ pendingSince \in 0..MaxTime
  /\ machineAuthNotified \in BOOLEAN
  /\ shown \in Seq(Kinds \ {"none"})
  /\ steady \in [notice : Notice, since : 0..MaxTime]

Init ==
  /\ node = [state |-> "NoState", url |-> "none"]
  /\ clock = 0
  /\ start = "up"
  /\ monitor = "poll" /\ sample = None /\ lastPoll = 0
  /\ inHand = [c \in Callers |-> None]
  /\ lastKey = "none" /\ pendingKey = "none" /\ pendingSince = 0
  /\ machineAuthNotified = FALSE
  /\ shown = <<>>
  /\ steady = [notice |-> None, since |-> 0]

-----------------------------------------------------------------------------
(* tailscaleAuthStateNotice; a state without a message is no notice. *)
StatusNotice(n) ==
  CASE n.state \in {"NoState", "NeedsLogin"} /\ n.url # "none" ->
         [kind |-> "loginURL", key |-> n.url]
    [] n.state \in {"NoState", "NeedsLogin"} /\ n.url = "none" ->
         [kind |-> "waiting", key |-> n.state]
    [] n.state = "NeedsMachineAuth" -> [kind |-> "machineAuth", key |-> n.state]
    [] n.state = "Running" -> [kind |-> "running", key |-> n.state]
    [] OTHER -> None

(* tailscaleUserLogNotice: the lines of tsnet that are about the login. *)
UserLogNotices ==
  {[kind |-> "loginURL", key |-> k] : k \in URLs \cup {"key ignored"}}

Delayed(n) == n.kind \in {"waiting", "machineAuth"}

(* emitNoticeAt, what it does under the lock. *)
EmitNotice(c, n) ==
  LET pending == IF Delayed(n) THEN pendingKey ELSE "none"
      repeated == n.key = lastKey
      first == Delayed(n) /\ ~repeated /\ pending # n.key
      early == Delayed(n) /\ clock - pendingSince < Delay
      unasked == n.kind = "running" /\ ~machineAuthNotified
      silent == repeated \/ first \/ early \/ unasked
  IN /\ pendingKey' = IF first THEN n.key ELSE pending
     /\ pendingSince' = IF first THEN clock ELSE IF Delayed(n) THEN pendingSince ELSE 0
     /\ machineAuthNotified' =
          IF silent THEN machineAuthNotified
          ELSE n.kind = "machineAuth" \/ (machineAuthNotified /\ n.kind # "running")
     /\ lastKey' = IF silent THEN lastKey ELSE n.key
     /\ inHand' = [inHand EXCEPT ![c] = IF silent THEN None ELSE n]

(* ... and after it. *)
Show(c) ==
  /\ shown' = IF inHand[c] = None THEN shown ELSE Append(shown, inHand[c].kind)
  /\ inHand' = [inHand EXCEPT ![c] = None]

-----------------------------------------------------------------------------
(* The node and its callback. *)

NodeChanges ==
  /\ start = "up"
  /\ \E n \in [state : States, url : URLs \cup {"none"}] : n # node /\ node' = n
  /\ UNCHANGED <<clock, start, monitor, sample, lastPoll, inHand, emitter, shown, steady>>

Tick ==
  /\ clock < MaxTime
  /\ clock' = clock + 1
  /\ UNCHANGED <<node, start, monitor, sample, lastPoll, inHand, emitter, shown, steady>>

UserLog ==
  /\ Len(shown) < MaxShown
  /\ inHand["tsnet"] = None
  /\ \E n \in UserLogNotices : EmitNotice("tsnet", n)
  /\ UNCHANGED <<node, clock, start, monitor, sample, lastPoll, shown, steady>>

UserLogShow ==
  /\ inHand["tsnet"] # None
  /\ Show("tsnet")
  /\ UNCHANGED <<node, clock, start, monitor, sample, lastPoll, emitter, steady>>

-----------------------------------------------------------------------------
(* The monitor: poll, hand to the emitter, show, wait for the next tick.    *)

MonitorPoll ==
  /\ monitor = "poll" /\ start = "up" /\ Len(shown) < MaxShown
  /\ monitor' = "notice"
  /\ sample' = StatusNotice(node)
  /\ lastPoll' = clock
  /\ steady' = IF steady.notice = StatusNotice(node) THEN steady
               ELSE [notice |-> StatusNotice(node), since |-> clock]
  /\ UNCHANGED <<node, clock, start, inHand, emitter, shown>>

MonitorNotice ==
  /\ monitor = "notice"
  /\ monitor' = "show"
  /\ IF sample = None THEN UNCHANGED <<emitter, inHand>> ELSE EmitNotice("monitor", sample)
  /\ UNCHANGED <<node, clock, start, sample, lastPoll, shown, steady>>

MonitorShow ==
  /\ monitor = "show"
  /\ monitor' = "sleep"
  /\ Show("monitor")
  /\ UNCHANGED <<node, clock, start, sample, lastPoll, emitter, steady>>

MonitorTick ==
  /\ monitor = "sleep"
  /\ clock > lastPoll
  /\ monitor' = "poll"
  /\ UNCHANGED <<node, clock, start, sample, lastPoll, inHand, emitter, shown, steady>>

(* Its context is cancelled. *)
MonitorEnds ==
  /\ monitor \in {"poll", "sleep"} /\ start # "up"
  /\ monitor' = "done"
  /\ UNCHANGED <<node, clock, start, sample, lastPoll, inHand, emitter, shown, steady>>

-----------------------------------------------------------------------------
(* Start around node.Up. *)

UpReturns ==
  /\ start = "up" /\ node.state = "Running"
  /\ start' = "stopMonitor"
  /\ UNCHANGED <<node, clock, monitor, sample, lastPoll, inHand, emitter, shown, steady>>

(* Mutant: stopAuthMonitor cancels the monitor and does not await it. *)
StopMonitorAtOnce ==
  /\ start = "stopMonitor"
  /\ start' = "approve"
  /\ UNCHANGED <<node, clock, monitor, sample, lastPoll, inHand, emitter, shown, steady>>

StopMonitor ==
  /\ start = "stopMonitor"
  /\ monitor = "done"
  /\ start' = "approve"
  /\ UNCHANGED <<node, clock, monitor, sample, lastPoll, inHand, emitter, shown, steady>>

(* emitDeviceApprovedIfNeeded *)
Approve ==
  /\ start = "approve"
  /\ start' = "show"
  /\ EmitNotice("start", [kind |-> "running", key |-> "Running"])
  /\ UNCHANGED <<node, clock, monitor, sample, lastPoll, shown, steady>>

ApproveShow ==
  /\ start = "show"
  /\ start' = "done"
  /\ Show("start")
  /\ UNCHANGED <<node, clock, monitor, sample, lastPoll, emitter, steady>>

-----------------------------------------------------------------------------

Monitor == MonitorPoll \/ MonitorNotice \/ MonitorShow \/ MonitorTick \/ MonitorEnds
Start == StopMonitor \/ Approve \/ ApproveShow

Next == NodeChanges \/ Tick \/ UserLog \/ UserLogShow \/ Monitor \/ UpReturns \/ Start

Spec == Init /\ [][Next]_vars

-----------------------------------------------------------------------------
(* Properties. *)

(* The user reads "device approved" only after having read that the device  *)
(* has to be approved, and once for each time: the notices of the monitor   *)
(* are shown before Start shows its own, although nothing orders the two    *)
(* but the wait for the monitor.                                            *)
ApprovedWasAsked ==
  \A i \in 1..Len(shown) : shown[i] = "running" =>
    \E j \in 1..(i - 1) :
      /\ shown[j] = "machineAuth"
      /\ \A k \in j..(i - 1) : shown[k] # "running"

(* A user who was asked to approve the device is told when it has happened. *)
ApprovalIsTold ==
  start = "done" =>
    \A i \in 1..Len(shown) : shown[i] = "machineAuth" =>
      \E j \in (i + 1)..Len(shown) : shown[j] = "running"

(* What is told of the approval of a device is true.                        *)
NoticesAreTrue == ApprovedWasAsked /\ ApprovalIsTold

(* A state that a login only passes through is not worth a notice: what is  *)
(* said to be waited for was seen in every poll for the whole delay.        *)
Debounced ==
  [][\A n \in Notice :
       Delayed(n) /\ inHand["monitor"] # n /\ inHand'["monitor"] = n =>
         steady.notice = n /\ clock - steady.since >= Delay]_vars

-----------------------------------------------------------------------------
(* Why the notices are true.                                                *)

(* The last word on the approval, in what was shown, is that it is needed. *)
Asked(said) ==
  \E j \in 1..Len(said) :
    /\ said[j] = "machineAuth"
    /\ \A k \in j..Len(said) : said[k] # "running"

(* What was decided is in hand only between the lock and the screen, and   *)
(* Start decides after the monitor has ended.                               *)
Turns ==
  /\ inHand["tsnet"].kind \in {"none", "loginURL"}
  /\ inHand["start"].kind \in {"none", "running"}
  /\ inHand["monitor"] # None => monitor = "show"
  /\ inHand["start"] # None => start = "show"
  /\ start \in {"approve", "show", "done"} => monitor = "done"

(* The keys tell the notices about the approval from the others.           *)
KeysTell ==
  /\ \A n \in {sample} \cup {inHand[c] : c \in Callers} : n.kind = "none" => n = None
  /\ sample.key = "Running" <=> sample.kind = "running"
  /\ lastKey = "Running" => ~machineAuthNotified

(* The flag says that the device has to be approved and that this was, or  *)
(* is about to be, told; and once Start has decided it is down.             *)
FlagIsTrue ==
  /\ inHand["monitor"].kind = "machineAuth" => machineAuthNotified
  /\ machineAuthNotified => Asked(shown) \/ inHand["monitor"].kind = "machineAuth"
  /\ \A c \in Callers : inHand[c].kind = "running" => ~machineAuthNotified /\ Asked(shown)
  /\ ~machineAuthNotified /\ Asked(shown) => \E c \in Callers : inHand[c].kind = "running"
  /\ start \in {"show", "done"} => ~machineAuthNotified

NoticesInv == TypeOK /\ Turns /\ KeysTell /\ FlagIsTrue /\ ApprovedWasAsked

=============================================================================
