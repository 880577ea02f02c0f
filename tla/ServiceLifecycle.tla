-------------------------- MODULE ServiceLifecycle --------------------------
(***************************************************************************)
(* The life of connections: application.Service on top of the dispatcher   *)
(* (internal/runner.Runner) on top of the WireGuard and Tailscale          *)
(* adapters.  The adapters are what Backend promises; the goroutine that   *)
(* startRuntime runs for every start, the two forwarders and the consumer  *)
(* of the dispatcher's events are each a step at a time.  A call of the    *)
(* service that runs under Service.mu is one action.                       *)
(***************************************************************************)
EXTENDS Naturals, Sequences

CONSTANTS
  Profiles,   \* profile ids, fresh for every profile ever created
  Starts,     \* the starts the service launches (bounds how often it connects)
  NoStart,
  ProfileOf,  \* the profile a start is for
  Addresses,  \* SOCKS5 bind addresses
  Initial,    \* the profiles in the store when the service loads it
  Choices,    \* the configurations the user saves and adds
  Capacity,   \* of every event channel (512 in the code)
  MayFault    \* do Tailscale profiles have port forwards that can fail?

Kinds == {"wireguard", "tailscale"}
Config == [kind : Kinds, bind : Addresses]
Unborn == [kind |-> "unborn"]
Deleted == [kind |-> "deleted"]

ASSUME ServiceAssumption ==
  /\ NoStart \notin Starts
  /\ ProfileOf \in [Starts -> Profiles]
  /\ Initial \in [Profiles -> Config \cup {Unborn}]
  /\ Choices \subseteq Config
  /\ Capacity \in Nat \ {0}
  /\ MayFault \in BOOLEAN

VARIABLES
  profiles,  \* Service.profiles: kind and bind of each profile
  status,    \* Service.statuses
  pending,   \* Service.starts
  canceled,  \* starts whose context is cancelled
  call,      \* the startRuntime goroutine of each start
  result,    \* what its runtime.Start returned
  conf,      \* the profile it was given
  backing,   \* dispatcher: the adapter each profile is bound to
  bus,       \* dispatcher: its event channel
  phase, stopped, table, verdict, \* adapters: see Backend, and how serving ended
  chan,      \* adapters: their event channels
  shutdown   \* how far Shutdown has got

service  == <<profiles, status, pending, canceled>>
goroutine == <<call, result, conf>>
dispatcher == <<backing, bus>>
adapters == <<phase, stopped, table, verdict, chan>>
vars == <<service, goroutine, dispatcher, adapters, shutdown>>

Status == {"", "stopped", "starting", "running", "stopping", "error"}
Event == [start : Starts, type : {"started", "stopped", "error"}]

TypeOK ==
  /\ profiles \in [Profiles -> Config \cup {Unborn, Deleted}]
  /\ status \in [Profiles -> Status]
  /\ pending \in [Profiles -> Starts \cup {NoStart}]
  /\ canceled \in SUBSET Starts
  /\ call \in [Starts -> {"none", "dispatch", "adapter", "failed", "tail", "done"}]
  /\ result \in [Starts -> {"none", "nil", "canceled", "error"}]
  /\ conf \in [Starts -> Config \cup {Unborn}]
  /\ backing \in [Profiles -> Kinds \cup {"none"}]
  /\ bus \in Seq(Event)
  /\ phase \in [Starts -> {"new", "reserved", "checked", "committed", "serving",
                          "leaving", "gone"}]
  /\ stopped \in SUBSET Starts
  /\ table \in [Kinds -> [Profiles -> Starts \cup {NoStart}]]
  /\ verdict \in [Starts -> {"none", "stopped", "error"}]
  /\ chan \in [Kinds -> Seq(Event)]
  /\ shutdown \in {"no", "cancel", "wireguard", "tailscale", "done", "timedOut"}

-----------------------------------------------------------------------------

Present(p) == profiles[p] \in Config

(* Runtime.Running: either adapter has an entry. *)
Running(p) == \E k \in Kinds : table[k][p] # NoStart

LockedStatus(p) == status[p] \in {"starting", "running", "stopping"}
RuntimeLocked(p) == Running(p) \/ LockedStatus(p)

(* Service.Status, which the frontends show. *)
Shown(p) ==
  IF Running(p) /\ status[p] # "stopping" THEN "running"
  ELSE IF status[p] = "" THEN "stopped" ELSE status[p]

(* runner.Stop: the bound adapter first, then whichever has an entry. *)
StopTarget(p) ==
  LET first == IF backing[p] = "none" THEN "wireguard" ELSE backing[p]
      second == CHOOSE k \in Kinds : k # first
  IN IF table[first][p] # NoStart THEN {table[first][p]}
     ELSE {table[second][p]} \ {NoStart}

Offer(ch, s, type) ==
  IF Len(ch) < Capacity THEN Append(ch, [start |-> s, type |-> type]) ELSE ch

Without(t, s) == [p \in Profiles |-> IF t[p] = s THEN NoStart ELSE t[p]]

KindOf(s) == conf[s].kind

Init ==
  /\ profiles = Initial
  /\ status = [p \in Profiles |-> IF Initial[p] = Unborn THEN "" ELSE "stopped"]
  /\ pending = [p \in Profiles |-> NoStart]
  /\ canceled = {}
  /\ call = [s \in Starts |-> "none"]
  /\ result = [s \in Starts |-> "none"]
  /\ conf = [s \in Starts |-> Unborn]
  /\ backing = [p \in Profiles |-> "none"]
  /\ bus = <<>>
  /\ phase = [s \in Starts |-> "new"]
  /\ stopped = {}
  /\ table = [k \in Kinds |-> [p \in Profiles |-> NoStart]]
  /\ verdict = [s \in Starts |-> "none"]
  /\ chan = [k \in Kinds |-> <<>>]
  /\ shutdown = "no"

-----------------------------------------------------------------------------
(* Calls of the service. *)

Fresh(p) == {s \in Starts : ProfileOf[s] = p /\ call[s] = "none"}
NextStart(p) == CHOOSE s \in Fresh(p) : TRUE

(* beginStartLocked for a set of profiles and launchStarts: those that are  *)
(* locked are passed over.                                                  *)
BeginStarts(ps) ==
  LET begun == {p \in ps : ~RuntimeLocked(p)}
      new == {NextStart(p) : p \in begun}
  IN /\ begun # {}
     /\ \A p \in begun : Fresh(p) # {}
     /\ status' = [p \in Profiles |-> IF p \in begun THEN "starting" ELSE status[p]]
     /\ pending' = [p \in Profiles |-> IF p \in begun THEN NextStart(p) ELSE pending[p]]
     /\ call' = [s \in Starts |-> IF s \in new THEN "dispatch" ELSE call[s]]
     /\ conf' = [s \in Starts |-> IF s \in new THEN profiles[ProfileOf[s]] ELSE conf[s]]
     /\ UNCHANGED <<profiles, canceled, result, dispatcher, adapters, shutdown>>

(* Mutant: a profile that is only just starting is no conflict. *)
BindConflictRunning(p) ==
  \E q \in Profiles \ {p} :
    Present(q) /\ profiles[q].bind = profiles[p].bind /\ Running(q)

(* runningBindConflictLocked *)
BindConflict(p) ==
  \E q \in Profiles \ {p} :
    Present(q) /\ profiles[q].bind = profiles[p].bind /\ RuntimeLocked(q)

(* duplicateBindError *)
DuplicateBind(ps) ==
  \E p, q \in ps : p # q /\ profiles[p].bind = profiles[q].bind

(* The frontends call Shutdown last: no other call begins after it. *)
Open == shutdown = "no"

Connect(p) ==
  /\ Open /\ Present(p)
  /\ ~BindConflict(p)
  /\ BeginStarts({p})

ConnectAll ==
  LET all == {p \in Profiles : Present(p)}
  IN Open /\ ~DuplicateBind(all) /\ BeginStarts(all)

(* AutoConnect, right after the store was loaded: which profiles have       *)
(* AutoStart set is not modelled, so any set of them; a duplicate bind      *)
(* marks every one of them as failed.                                       *)
AutoConnect ==
  /\ Open /\ \A s \in Starts : call[s] = "none"
  /\ \E auto \in SUBSET {p \in Profiles : Present(p)} :
       \/ ~DuplicateBind(auto) /\ BeginStarts(auto)
       \/ /\ DuplicateBind(auto)
          /\ status' = [p \in Profiles |-> IF p \in auto THEN "error" ELSE status[p]]
          /\ UNCHANGED <<profiles, pending, canceled, goroutine, dispatcher, adapters, shutdown>>

PendingOf(ps) == {pending[p] : p \in ps} \ {NoStart}

(* Mutant: the process is only stopped when no start is pending. *)
DisconnectEither(p) ==
  /\ Open /\ Present(p)
  /\ canceled' = canceled \cup PendingOf({p})
  /\ stopped' = IF pending[p] = NoStart THEN stopped \cup StopTarget(p) ELSE stopped
  /\ status' = [status EXCEPT ![p] =
       IF StopTarget(p) # {} \/ pending[p] # NoStart THEN "stopping" ELSE "stopped"]
  /\ UNCHANGED <<profiles, pending, goroutine, dispatcher, phase, table, verdict, chan, shutdown>>

Disconnect(p) ==
  /\ Open /\ Present(p)
  /\ canceled' = canceled \cup PendingOf({p})
  /\ stopped' = stopped \cup StopTarget(p)
  /\ status' = [status EXCEPT ![p] =
       IF StopTarget(p) # {} \/ pending[p] # NoStart THEN "stopping" ELSE "stopped"]
  /\ UNCHANGED <<profiles, pending, goroutine, dispatcher, phase, table, verdict, chan, shutdown>>

Entries(k) == {table[k][p] : p \in Profiles} \ {NoStart}

DisconnectAll ==
  /\ Open
  /\ canceled' = canceled \cup PendingOf(Profiles)
  /\ status' = [p \in Profiles |->
       IF Present(p) /\ RuntimeLocked(p) THEN "stopping" ELSE status[p]]
  /\ stopped' = stopped \cup Entries("wireguard") \cup Entries("tailscale")
  /\ UNCHANGED <<profiles, pending, goroutine, dispatcher, phase, table, verdict, chan, shutdown>>

(* Save: kind and bind are runtime fields, refused while the profile is locked. *)
Save(p, c) ==
  /\ Open /\ Present(p) /\ c # profiles[p]
  /\ ~RuntimeLocked(p)
  /\ profiles' = [profiles EXCEPT ![p] = c]
  /\ UNCHANGED <<status, pending, canceled, goroutine, dispatcher, adapters, shutdown>>

Delete(p) ==
  /\ Open /\ Present(p)
  /\ profiles' = [profiles EXCEPT ![p] = Deleted]
  /\ status' = [status EXCEPT ![p] = ""]
  /\ canceled' = canceled \cup PendingOf({p})
  /\ pending' = [pending EXCEPT ![p] = NoStart]
  /\ stopped' = stopped \cup StopTarget(p)
  /\ UNCHANGED <<goroutine, dispatcher, phase, table, verdict, chan, shutdown>>

(* Add, and each profile of an Import: the id is new, and so is the bind    *)
(* unless every one is taken.                                               *)
Add(p, c) ==
  LET taken == {profiles[q].bind : q \in {r \in Profiles : Present(r)}}
  IN /\ Open /\ profiles[p] = Unborn
     /\ c.bind \notin taken \/ taken = Addresses
     /\ profiles' = [profiles EXCEPT ![p] = c]
     /\ status' = [status EXCEPT ![p] = "stopped"]
     /\ UNCHANGED <<pending, canceled, goroutine, dispatcher, adapters, shutdown>>

-----------------------------------------------------------------------------
(* The goroutine of startRuntime, down to the adapter and back. *)

(* runner.Start binds the profile to its adapter ... *)
Dispatch(s) ==
  LET p == ProfileOf[s]
  IN /\ call[s] = "dispatch"
     /\ \/ /\ backing[p] = "none"
           /\ backing' = [backing EXCEPT ![p] = KindOf(s)]
           /\ call' = [call EXCEPT ![s] = "adapter"]
           /\ UNCHANGED result
        \/ /\ backing[p] # "none"
           /\ call' = [call EXCEPT ![s] = "tail"]
           /\ result' = [result EXCEPT ![s] = "error"]
           /\ UNCHANGED backing
     /\ UNCHANGED <<service, conf, bus, adapters, shutdown>>

(* ... whose Start refuses a profile that has an entry or is not valid, ... *)
Refuse(s) ==
  /\ call[s] = "adapter" /\ phase[s] = "new"
  /\ phase' = [phase EXCEPT ![s] = "gone"]
  /\ call' = [call EXCEPT ![s] = "failed"]
  /\ result' = [result EXCEPT ![s] = "error"]
  /\ UNCHANGED <<service, conf, dispatcher, stopped, table, verdict, chan, shutdown>>

Reserve(s) ==
  LET p == ProfileOf[s]
      k == KindOf(s)
  IN /\ call[s] = "adapter" /\ phase[s] = "new"
     /\ table[k][p] = NoStart
     /\ phase' = [phase EXCEPT ![s] = "reserved"]
     /\ table' = [table EXCEPT ![k][p] = s]
     /\ UNCHANGED <<service, goroutine, dispatcher, stopped, verdict, chan, shutdown>>

(* ... looks at its context a last time (closing cancels it too), ...       *)
Check(s) ==
  /\ phase[s] = "reserved"
  /\ s \notin canceled \cup stopped
  /\ phase' = [phase EXCEPT ![s] = "checked"]
  /\ UNCHANGED <<service, goroutine, dispatcher, stopped, table, verdict, chan, shutdown>>

(* ... commits unless it was closed in the meantime, ...                    *)
(* Mutant: commitStart does not look at the closed flag. *)
CommitAnyway(s) ==
  /\ phase[s] = "checked"
  /\ phase' = [phase EXCEPT ![s] = "committed"]
  /\ UNCHANGED <<service, goroutine, dispatcher, stopped, table, verdict, chan, shutdown>>

Commit(s) ==
  /\ phase[s] = "checked"
  /\ s \notin stopped
  /\ phase' = [phase EXCEPT ![s] = "committed"]
  /\ UNCHANGED <<service, goroutine, dispatcher, stopped, table, verdict, chan, shutdown>>

(* Mutant: a failed start forgets its entry. *)
AbandonKeepsEntry(s) ==
  /\ phase[s] \in {"reserved", "checked", "committed"}
  /\ phase' = [phase EXCEPT ![s] = "gone"]
  /\ stopped' = stopped \cup {s}
  /\ call' = [call EXCEPT ![s] = "failed"]
  /\ result' = [result EXCEPT ![s] = "error"]
  /\ UNCHANGED <<service, conf, dispatcher, table, verdict, chan, shutdown>>

(* Mutant: a start only notices that it was closed, not that its context    *)
(* was cancelled.                                                           *)
AbandonClosed(s) ==
  LET k == KindOf(s)
  IN /\ phase[s] \in {"reserved", "checked", "committed"}
     /\ s \in stopped
     /\ phase' = [phase EXCEPT ![s] = "gone"]
     /\ table' = [table EXCEPT ![k] = Without(@, s)]
     /\ call' = [call EXCEPT ![s] = "failed"]
     /\ result' = [result EXCEPT ![s] = "canceled"]
     /\ UNCHANGED <<service, conf, dispatcher, stopped, verdict, chan, shutdown>>

(* ... or cleans up after itself.  Tailscale still has to set the exit node *)
(* before the commit and to bind the port forwards after it, and both can   *)
(* fail.  An interrupted start may report either error.                     *)
Abandon(s) ==
  LET k == KindOf(s)
  IN /\ \/ phase[s] = "reserved"
        \/ phase[s] = "checked" /\ (s \in stopped \/ k = "tailscale")
        \/ phase[s] = "committed" /\ k = "tailscale"
     /\ phase' = [phase EXCEPT ![s] = "gone"]
     /\ stopped' = stopped \cup {s}
     /\ table' = [table EXCEPT ![k] = Without(@, s)]
     /\ call' = [call EXCEPT ![s] = "failed"]
     /\ \/ result' = [result EXCEPT ![s] = "error"]
        \/ /\ s \in canceled \cup stopped
           /\ result' = [result EXCEPT ![s] = "canceled"]
     /\ UNCHANGED <<service, conf, dispatcher, verdict, chan, shutdown>>

Announce(s) ==
  /\ phase[s] = "committed"
  /\ phase' = [phase EXCEPT ![s] = "serving"]
  /\ chan' = [chan EXCEPT ![KindOf(s)] = Offer(@, s, "started")]
  /\ call' = [call EXCEPT ![s] = "tail"]
  /\ result' = [result EXCEPT ![s] = "nil"]
  /\ UNCHANGED <<service, conf, dispatcher, stopped, table, verdict, shutdown>>

(* A failed adapter start unbinds the profile. *)
RemoveBacking(p, k) == backing' = [backing EXCEPT ![p] = IF @ = k THEN "none" ELSE @]

Unbind(s) ==
  /\ call[s] = "failed"
  /\ RemoveBacking(ProfileOf[s], KindOf(s))
  /\ call' = [call EXCEPT ![s] = "tail"]
  /\ UNCHANGED <<service, result, conf, bus, adapters, shutdown>>

(* Mutant: a start that returned nil always shows as running. *)
ReturnedRunning(s) ==
  LET p == ProfileOf[s]
  IN /\ call[s] = "tail"
     /\ call' = [call EXCEPT ![s] = "done"]
     /\ pending' = [pending EXCEPT ![p] = IF @ = s THEN NoStart ELSE @]
     /\ status' = [status EXCEPT ![p] =
          IF ~Present(p) THEN @ ELSE IF result[s] = "nil" THEN "running" ELSE "error"]
     /\ UNCHANGED <<profiles, canceled, result, conf, dispatcher, adapters, shutdown>>

(* startRuntime after runtime.Start returned. *)
Returned(s) ==
  LET p == ProfileOf[s]
      outcome ==
        IF result[s] = "canceled" /\ LockedStatus(p) THEN "stopped"
        ELSE IF result[s] = "error" THEN "error"
        ELSE IF result[s] = "nil" /\ status[p] = "starting" THEN "running"
        ELSE status[p]
  IN /\ call[s] = "tail"
     /\ call' = [call EXCEPT ![s] = "done"]
     /\ pending' = [pending EXCEPT ![p] = IF @ = s THEN NoStart ELSE @]
     /\ status' = [status EXCEPT ![p] = IF Present(p) THEN outcome ELSE @]
     /\ UNCHANGED <<profiles, canceled, result, conf, dispatcher, adapters, shutdown>>

-----------------------------------------------------------------------------
(* The goroutine that serves. *)

(* Mutant: how serving ended is lost. *)
LeaveSilently(s) ==
  /\ phase[s] = "serving"
  /\ phase' = [phase EXCEPT ![s] = "leaving"]
  /\ stopped' = stopped \cup {s}
  /\ table' = [table EXCEPT ![KindOf(s)] = Without(@, s)]
  /\ UNCHANGED <<service, goroutine, dispatcher, verdict, chan, shutdown>>

(* Serving ends because the process was closed, or on its own. *)
Leave(s) ==
  /\ phase[s] = "serving"
  /\ phase' = [phase EXCEPT ![s] = "leaving"]
  /\ stopped' = stopped \cup {s}
  /\ table' = [table EXCEPT ![KindOf(s)] = Without(@, s)]
  /\ \E end \in {"stopped", "error"} :
       verdict' = [verdict EXCEPT ![s] =
                     IF s \in canceled \cup stopped THEN "stopped" ELSE end]
  /\ UNCHANGED <<service, goroutine, dispatcher, chan, shutdown>>

Report(s) ==
  /\ phase[s] = "leaving"
  /\ phase' = [phase EXCEPT ![s] = "gone"]
  /\ chan' = [chan EXCEPT ![KindOf(s)] = Offer(@, s, verdict[s])]
  /\ UNCHANGED <<service, goroutine, dispatcher, stopped, table, verdict, shutdown>>

(* emitForwardError: a port-forward loop of a live Tailscale process ends;  *)
(* its error may be sent when the process is gone already.                  *)
Fault(s) ==
  /\ MayFault /\ KindOf(s) = "tailscale"
  /\ \/ phase[s] \in {"committed", "serving"}
     \/ phase[s] \in {"leaving", "gone"} /\ s \in stopped
  /\ chan' = [chan EXCEPT !["tailscale"] = Offer(@, s, "error")]
  /\ UNCHANGED <<service, goroutine, dispatcher, phase, stopped, table, verdict, shutdown>>

-----------------------------------------------------------------------------
(* Events on their way to the service. *)

(* Mutant: every event ends the binding, the one that announces a start too. *)
ForwardUnbinds(k) ==
  LET e == Head(chan[k])
  IN /\ chan[k] # <<>>
     /\ chan' = [chan EXCEPT ![k] = Tail(@)]
     /\ bus' = Offer(bus, e.start, e.type)
     /\ RemoveBacking(ProfileOf[e.start], k)
     /\ UNCHANGED <<service, goroutine, phase, stopped, table, verdict, shutdown>>

Forward(k) ==
  LET e == Head(chan[k])
      p == ProfileOf[e.start]
  IN /\ chan[k] # <<>>
     /\ chan' = [chan EXCEPT ![k] = Tail(@)]
     /\ bus' = Offer(bus, e.start, e.type)
     /\ IF e.type = "started" THEN UNCHANGED backing ELSE RemoveBacking(p, k)
     /\ UNCHANGED <<service, goroutine, phase, stopped, table, verdict, shutdown>>

StatusOfEvent(type) == IF type = "started" THEN "running" ELSE type

(* consumeRuntimeEvents and handleRuntimeEvent: an event names a profile,   *)
(* not a start.                                                             *)
HandleRuntimeEvent ==
  LET e == Head(bus)
      p == ProfileOf[e.start]
  IN /\ bus # <<>>
     /\ bus' = Tail(bus)
     /\ status' = [status EXCEPT ![p] = IF Present(p) THEN StatusOfEvent(e.type) ELSE @]
     /\ UNCHANGED <<profiles, pending, canceled, goroutine, backing, adapters, shutdown>>

-----------------------------------------------------------------------------
(* Shutdown: cancel every start, then stop and await one adapter after the  *)
(* other.                                                                   *)

ShutdownCancel ==
  /\ shutdown = "no"
  /\ shutdown' = "cancel"
  /\ canceled' = Starts
  /\ UNCHANGED <<profiles, status, pending, goroutine, dispatcher, adapters>>

(* What StopAllAndWait found is closed, and only that is awaited. *)
Awaited(k) == Entries(k) \cap stopped

ShutdownStep(from, k, to) ==
  /\ shutdown = from
  /\ shutdown' = to
  /\ stopped' = stopped \cup Entries(k)
  /\ UNCHANGED <<service, goroutine, dispatcher, phase, table, verdict, chan>>

ShutdownWireguard == ShutdownStep("cancel", "wireguard", "wireguard")

ShutdownTailscale ==
  Awaited("wireguard") = {} /\ ShutdownStep("wireguard", "tailscale", "tailscale")

(* Mutant: Shutdown does not await the Tailscale processes. *)
ShutdownDoneAtOnce ==
  /\ shutdown = "tailscale"
  /\ shutdown' = "done"
  /\ UNCHANGED <<service, goroutine, dispatcher, adapters>>

ShutdownDone ==
  /\ shutdown = "tailscale" /\ Awaited("tailscale") = {}
  /\ shutdown' = "done"
  /\ UNCHANGED <<service, goroutine, dispatcher, adapters>>

(* The context expires: the second adapter is stopped but not awaited. *)
ShutdownTimeout ==
  \/ ShutdownStep("wireguard", "tailscale", "timedOut")
  \/ /\ shutdown = "tailscale"
     /\ shutdown' = "timedOut"
     /\ UNCHANGED <<service, goroutine, dispatcher, adapters>>

-----------------------------------------------------------------------------

ServiceCall ==
  \/ \E p \in Profiles :
       \/ Connect(p) \/ Disconnect(p) \/ Delete(p)
       \/ \E c \in Choices : Save(p, c) \/ Add(p, c)
  \/ ConnectAll \/ AutoConnect \/ DisconnectAll

Goroutine(s) ==
  \/ Dispatch(s) \/ Refuse(s) \/ Reserve(s) \/ Commit(s) \/ Announce(s)
  \/ Unbind(s) \/ Returned(s) \/ Report(s)

Shutdown ==
  \/ ShutdownCancel \/ ShutdownWireguard \/ ShutdownTailscale \/ ShutdownDone
  \/ ShutdownTimeout

Next ==
  \/ ServiceCall
  \/ \E s \in Starts : Goroutine(s) \/ Check(s) \/ Abandon(s) \/ Leave(s) \/ Fault(s)
  \/ \E k \in Kinds : Forward(k)
  \/ HandleRuntimeEvent
  \/ Shutdown

Spec == Init /\ [][Next]_vars

(* Goroutines run, channels are drained while the service is open, and a    *)
(* closed listener ends its Serve.  An adapter's Start returns once it is   *)
(* interrupted; without that it may wait for ever (a Tailscale login that   *)
(* nobody completes).  Shutdown, once called, is not left half way; its     *)
(* context need not expire.                                                 *)
Fairness ==
  /\ \A s \in Starts :
       /\ WF_vars(Goroutine(s))
       /\ WF_vars(s \in canceled \cup stopped /\ (Abandon(s) \/ Leave(s)))
  /\ \A k \in Kinds : WF_vars(Forward(k))
  /\ WF_vars(Open /\ HandleRuntimeEvent)
  /\ WF_vars(ShutdownWireguard \/ ShutdownTailscale \/ ShutdownDone)

FairSpec == Spec /\ Fairness

-----------------------------------------------------------------------------
(* Properties. *)

InTable(s) == phase[s] \in {"reserved", "checked", "committed", "serving"}
Connected(s) == phase[s] \in {"committed", "serving"}

(* Each adapter, as the service sees and drives it, keeps to its contract. *)
PhaseAt(k) ==
  [s \in Starts |-> IF KindOf(s) # k THEN "new"
                    ELSE IF phase[s] = "checked" THEN "reserved" ELSE phase[s]]
StoppedAt(k) == {s \in stopped : KindOf(s) = k}

Wireguard == INSTANCE Backend WITH
  phase <- PhaseAt("wireguard"), stopped <- StoppedAt("wireguard"),
  table <- table["wireguard"], events <- chan["wireguard"], MayFault <- FALSE

Tailscale == INSTANCE Backend WITH
  phase <- PhaseAt("tailscale"), stopped <- StoppedAt("tailscale"),
  table <- table["tailscale"], events <- chan["tailscale"]

WireguardContract == Wireguard!Spec
TailscaleContract == Tailscale!Spec

(* Two profiles with one SOCKS5 address are never both being connected or   *)
(* connected, unless one of them is on its way out.                         *)
OneListener ==
  \A s, t \in Starts :
    /\ InTable(s) /\ InTable(t) /\ {s, t} \cap (stopped \cup canceled) = {}
    /\ conf[s].bind = conf[t].bind
    => ProfileOf[s] = ProfileOf[t]

(* Never do both adapters run the same profile. *)
OneAdapter ==
  \A p \in Profiles : ~ \A k \in Kinds : table[k][p] # NoStart

(* A process that runs is known to the dispatcher under its own adapter, so *)
(* exit-node calls and Stop reach it and no second start gets past it.      *)
RunningIsBound ==
  \A k \in Kinds, p \in Profiles : table[k][p] # NoStart => backing[p] = k

(* A disconnected, deleted or shut-down start is never left serving. *)
CanceledIsStopped ==
  shutdown \in {"no", "done", "timedOut"} =>
    \A s \in canceled : Connected(s) => s \in stopped

Quiet ==
  /\ \A s \in Starts : call[s] \in {"none", "done"} /\ phase[s] \in {"new", "serving", "gone"}
  /\ \A s \in Starts : phase[s] = "serving" => s \notin stopped
  /\ bus = <<>> /\ \A k \in Kinds : chan[k] = <<>>

(* Once everything in flight has settled the status shown tells whether the *)
(* profile runs.                                                            *)
ShownIsTrue ==
  Quiet => \A p \in Profiles : Present(p) => (Shown(p) = "running" <=> Running(p))

(* A profile that is being connected is not shown as connected before it    *)
(* serves.                                                                  *)
ConnectingIsShown ==
  \A p \in Profiles : Present(p) /\ status[p] = "starting" /\ Shown(p) = "running" =>
    \E s \in Starts : ProfileOf[s] = p /\ phase[s] = "serving"

(* Nor is a profile then still between two states. *)
NotStuck ==
  Quiet => \A p \in Profiles : Shown(p) \notin {"starting", "stopping"}

(* A deleted profile leaves no process behind that nobody can stop. *)
NoOrphan ==
  \A s \in Starts : profiles[ProfileOf[s]] = Deleted /\ Connected(s) => s \in stopped

(* What serves a profile serves it as it is configured. *)
ServedAsConfigured ==
  \A s \in Starts : InTable(s) /\ s \notin stopped /\ Present(ProfileOf[s]) =>
    conf[s] = profiles[ProfileOf[s]]

(* A start that was cancelled returns, and its process goes. *)
CanceledReturns ==
  \A s \in Starts : (s \in canceled /\ call[s] # "none") ~>
                       (call[s] = "done" /\ phase[s] \in {"new", "gone"})

(* Shutdown comes to an end without the help of its context. *)
ShutdownEnds == (shutdown = "cancel") ~> (shutdown \in {"done", "timedOut"})

(* After a clean Shutdown nothing serves and nothing will. *)
ShutdownIsFinal ==
  shutdown = "done" => \A s \in Starts : ~Connected(s)

-----------------------------------------------------------------------------
(* The inductive invariants behind the safety properties. *)

(* Where the goroutine of a start is tells how far its adapter start is. *)
CallInv(s) ==
  /\ call[s] = "none" <=> conf[s] = Unborn
  /\ call[s] \in {"none", "dispatch"} => phase[s] = "new"
  /\ call[s] = "adapter" => phase[s] \in {"new", "reserved", "checked", "committed"}
  /\ call[s] = "failed" => phase[s] = "gone"
  /\ call[s] \in {"tail", "done"} => phase[s] \in {"new", "serving", "leaving", "gone"}
  /\ phase[s] = "leaving" => verdict[s] # "none"

(* The tables hold the starts that are in them, each under its own key. *)
TableInv ==
  /\ \A k \in Kinds, p \in Profiles : table[k][p] # NoStart =>
       LET s == table[k][p] IN ProfileOf[s] = p /\ KindOf(s) = k /\ InTable(s)
  /\ \A s \in Starts : InTable(s) => table[KindOf(s)][ProfileOf[s]] = s

(* A start past its last look at the context only ends if it is closed. *)
Past(s) == phase[s] \in {"checked", "committed", "serving"}

(* Each adapter that Shutdown has dealt with can bring nothing up any more. *)
ShutdownInv ==
  /\ shutdown # "no" => canceled = Starts
  /\ \A s \in Starts : Past(s) =>
       /\ shutdown \in {"wireguard", "timedOut"} /\ KindOf(s) = "wireguard" => s \in stopped
       /\ shutdown \in {"tailscale", "timedOut"} /\ KindOf(s) = "tailscale" => s \in stopped
       /\ shutdown = "tailscale" => KindOf(s) # "wireguard"
       /\ shutdown # "done"

ServiceInv == TypeOK /\ (\A s \in Starts : CallInv(s)) /\ TableInv /\ ShutdownInv

(* The events of an adapter are about its own starts, and a start has at    *)
(* most one final event, once it is gone.                                   *)
Final(e) == e.type # "started"

ChanInv ==
  \A k \in Kinds : \A i \in 1..Len(chan[k]) :
    LET s == chan[k][i].start
    IN /\ call[s] # "none" /\ KindOf(s) = k
       /\ Final(chan[k][i]) => phase[s] = "gone" /\ call[s] \in {"tail", "done"}
       /\ \A j \in 1..Len(chan[k]) :
            Final(chan[k][i]) /\ Final(chan[k][j]) /\ chan[k][j].start = s => i = j

(* A start holds the binding of its profile from Dispatch until Unbind, or  *)
(* until the event that says it is gone was forwarded.                      *)
Holds(s) ==
  \/ call[s] \in {"adapter", "failed"}
  \/ phase[s] \in {"serving", "leaving"}
  \/ \E k \in Kinds : \E i \in 1..Len(chan[k]) :
       chan[k][i].start = s /\ Final(chan[k][i])

HolderInv ==
  /\ \A s \in Starts : Holds(s) => backing[ProfileOf[s]] = KindOf(s)
  /\ \A s, t \in Starts :
       Holds(s) /\ Holds(t) /\ ProfileOf[s] = ProfileOf[t] => s = t

PendingInv == \A p \in Profiles : pending[p] # NoStart => ProfileOf[pending[p]] = p

CancelInv ==
  shutdown = "no" => \A s \in canceled : Past(s) => s \in stopped

(* What is connected or on its way, and nobody has told it to stop. *)
Active(s) ==
  /\ call[s] \in {"dispatch", "adapter"} \/ InTable(s)
  /\ s \notin stopped \cup canceled

(* Events are about starts that have got into an adapter. *)
Heard == [start : {s \in Starts : phase[s] # "new"}, type : {"started", "stopped", "error"}]
HeardInv == bus \in Seq(Heard) /\ \A k \in Kinds : chan[k] \in Seq(Heard)

(* With one start of each profile: an active one can be found, by its       *)
(* pending entry or in a table, and runs on what is saved, so that its      *)
(* profile is locked and in the way of others with its address.             *)
OneStart == \A s, t \in Starts : ProfileOf[s] = ProfileOf[t] => s = t

ActiveInv ==
  \A s \in Starts : Active(s) =>
    /\ call[s] \in {"dispatch", "adapter"} => pending[ProfileOf[s]] = s
    /\ profiles[ProfileOf[s]] = conf[s]
    /\ InTable(s) \/ status[ProfileOf[s]] = "starting"

ApartInv ==
  \A s, t \in Starts :
    Active(s) /\ Active(t) /\ conf[s].bind = conf[t].bind => ProfileOf[s] = ProfileOf[t]

ListenerInv == ServiceInv /\ HeardInv /\ ActiveInv /\ ApartInv

(* Without port forwards, which report errors of processes that live on. *)
BindingInv == ServiceInv /\ ChanInv /\ HolderInv /\ PendingInv /\ CancelInv

-----------------------------------------------------------------------------
(* The status of a profile, and what is on its way to change it. *)

FinalAfter(ch, s, i) == \E j \in 1..Len(ch) : j > i /\ ch[j].start = s /\ Final(ch[j])
StartedIn(ch, s) == \E i \in 1..Len(ch) : ch[i].start = s /\ ~Final(ch[i])

(* A start that has not been heard the last of. *)
Serves(s) == phase[s] \in {"serving", "leaving"}
Ends(s) == FinalAfter(bus, s, 0) \/ \E k \in Kinds : FinalAfter(chan[k], s, 0)
Underway(s) ==
  \/ call[s] \in {"dispatch", "adapter", "failed"}
  \/ call[s] = "tail" /\ result[s] # "nil"
  \/ Serves(s) \/ Ends(s)

ResultInv(s) ==
  /\ call[s] = "failed" => result[s] \in {"error", "canceled"}
  /\ call[s] = "tail" => result[s] # "none"

(* The event that a start serves is followed by the one that it is over. *)
StartedInv ==
  /\ \A k \in Kinds : \A i \in 1..Len(chan[k]) : ~Final(chan[k][i]) =>
       LET s == chan[k][i].start IN Serves(s) \/ FinalAfter(chan[k], s, i)
  /\ \A i \in 1..Len(bus) : ~Final(bus[i]) =>
       LET s == bus[i].start
       IN Serves(s) \/ FinalAfter(bus, s, i) \/ \E k \in Kinds : FinalAfter(chan[k], s, 0)

(* What is shown as on or coming will be corrected if it is not, and so     *)
(* will what is shown as going and is not.                                  *)
StatusInv ==
  /\ \A p \in Profiles : Present(p) /\ status[p] \in {"starting", "running"} =>
       \E s \in Starts : ProfileOf[s] = p /\ Underway(s)
  /\ \A s \in Starts :
       /\ phase[s] = "serving" /\ s \notin stopped
       /\ Present(ProfileOf[s]) /\ status[ProfileOf[s]] = "stopping"
       => StartedIn(bus, s) \/ StartedIn(chan[KindOf(s)], s)

(* As long as no channel is full. *)
ShownInv == (\A s \in Starts : ResultInv(s)) /\ StartedInv /\ StatusInv

(* No channel is ever full, so that none drops an event. *)
Roomy == Len(bus) < Capacity /\ \A k \in Kinds : Len(chan[k]) < Capacity

=============================================================================
