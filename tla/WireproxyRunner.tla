-------------------------- MODULE WireproxyRunner --------------------------
(***************************************************************************)
(* The embedded WireGuard adapter (internal/wireproxy.Runner).  Every call *)
(* of Start is a goroutine that reserves an entry in procs, acquires a     *)
(* listener and a WireGuard device one after the other, commits, announces *)
(* itself and then serves.  Meanwhile Stop, StopAll and StopAllAndWait may *)
(* close its process at any point: process.close takes the resources that  *)
(* are attached when it sets the closed flag and releases them after it    *)
(* dropped the lock, and whatever Start acquires later it must release by  *)
(* itself.  One step of the model is one critical section or one external  *)
(* call of the code.                                                       *)
(***************************************************************************)
EXTENDS Naturals, Sequences

CONSTANTS
  Profiles, Starts, NoStart, Capacity,
  Addresses,
  ProfileOf,   \* the profile a call of Start is about
  AddressOf    \* the SOCKS5 bind address in its configuration

ASSUME RunnerAssumption ==
  /\ NoStart \notin Starts
  /\ Capacity \in Nat \ {0}
  /\ ProfileOf \in [Starts -> Profiles]
  /\ AddressOf \in [Starts -> Addresses]

VARIABLES
  pc,        \* where the goroutine of a start is
  procs,     \* Runner.procs
  closing,   \* process.closed, and how far the one effective close() has got
  closer,    \* who runs that close()
  canceled,  \* procCtx.Err() # nil
  listener,  \* process.listener
  tun,       \* process.tun
  verdict,   \* how serveSocks5 ended
  events,    \* Runner.events, the log events left out
  aimed,     \* processes a Stop or StopAll has looked up and not closed yet
  waiter,    \* the StopAllAndWait of the shutdown
  snapshot,  \* the processes it found
  todo       \* those of them it has still to close

vars == <<pc, procs, closing, closer, canceled, listener, tun, verdict,
          events, aimed, waiter, snapshot, todo>>

resources == <<listener, tun>>
stopVars  == <<aimed, waiter, snapshot, todo>>

(* "attach" to "commit" name the call about to be made; "close" and        *)
(* "closing" are the proc.close() of the goroutine itself, "remove" its    *)
(* removeProcess and "report" the event of a process that served.          *)
Pcs == {"new", "parse", "listen", "setListener", "check1", "engine", "setTun",
        "check2", "commit", "announce", "serve", "close", "closing", "remove",
        "report", "gone"}

(* An acquired resource is loose until it is stored in the process. *)
Resource == {"none", "loose", "set", "shut"}

Event == [start : Starts, type : {"started", "stopped", "error"}]

TypeOK ==
  /\ pc \in [Starts -> Pcs]
  /\ procs \in [Profiles -> Starts \cup {NoStart}]
  /\ closing \in [Starts -> {"open", "cancel", "listener", "tun", "closed"}]
  /\ closer \in [Starts -> {"nobody", "self", "stop", "waiter"}]
  /\ canceled \in [Starts -> BOOLEAN]
  /\ listener \in [Starts -> Resource]
  /\ tun \in [Starts -> Resource]
  /\ verdict \in [Starts -> {"none", "stopped", "error"}]
  /\ events \in Seq(Event)
  /\ aimed \in SUBSET Starts
  /\ waiter \in {"idle", "closing", "waiting", "returned", "timedOut"}
  /\ snapshot \in SUBSET Starts
  /\ todo \in SUBSET Starts

-----------------------------------------------------------------------------

Closed(s) == closing[s] # "open"

(* close(proc.done): removeProcess has deleted the entry. *)
Done(s) == pc[s] \in {"report", "gone"}

Registered == {procs[p] : p \in Profiles} \ {NoStart}

AddressFree(a) ==
  \A s \in Starts : AddressOf[s] = a => listener[s] \notin {"loose", "set"}

Offer(type, s) ==
  IF Len(events) < Capacity
  THEN Append(events, [start |-> s, type |-> type])
  ELSE events

GoTo(s, target) == pc' = [pc EXCEPT ![s] = target]

Init ==
  /\ pc = [s \in Starts |-> "new"]
  /\ procs = [p \in Profiles |-> NoStart]
  /\ closing = [s \in Starts |-> "open"]
  /\ closer = [s \in Starts |-> "nobody"]
  /\ canceled = [s \in Starts |-> FALSE]
  /\ listener = [s \in Starts |-> "none"]
  /\ tun = [s \in Starts |-> "none"]
  /\ verdict = [s \in Starts |-> "none"]
  /\ events = <<>>
  /\ aimed = {}
  /\ waiter = "idle"
  /\ snapshot = {}
  /\ todo = {}

-----------------------------------------------------------------------------
(* The goroutine of Start. *)

(* An invalid profile, or one that has an entry (ErrAlreadyConnected). *)
Refuse(s) ==
  /\ pc[s] = "new"
  /\ GoTo(s, "gone")
  /\ UNCHANGED <<procs, closing, closer, canceled, resources, verdict, events, stopVars>>

(* Mutant: nobody looks whether the profile has an entry. *)
ReserveAnyway(s) ==
  /\ pc[s] = "new"
  /\ procs' = [procs EXCEPT ![ProfileOf[s]] = s]
  /\ GoTo(s, "parse")
  /\ UNCHANGED <<closing, closer, canceled, resources, verdict, events, stopVars>>

Reserve(s) ==
  /\ pc[s] = "new"
  /\ procs[ProfileOf[s]] = NoStart
  /\ procs' = [procs EXCEPT ![ProfileOf[s]] = s]
  /\ GoTo(s, "parse")
  /\ UNCHANGED <<closing, closer, canceled, resources, verdict, events, stopVars>>

(* parseConfig and findSocks5Config may reject the configuration. *)
Parse(s) ==
  /\ pc[s] = "parse"
  /\ \E next \in {"listen", "close"} : GoTo(s, next)
  /\ UNCHANGED <<procs, closing, closer, canceled, resources, verdict, events, stopVars>>

(* net.Listen fails on an address in use, by this program or another one. *)
Listen(s) ==
  /\ pc[s] = "listen"
  /\ \/ /\ AddressFree(AddressOf[s])
        /\ listener' = [listener EXCEPT ![s] = "loose"]
        /\ GoTo(s, "setListener")
     \/ /\ GoTo(s, "close")
        /\ UNCHANGED listener
  /\ UNCHANGED <<procs, closing, closer, canceled, tun, verdict, events, stopVars>>

SetListener(s) ==
  /\ pc[s] = "setListener"
  /\ listener' = [listener EXCEPT ![s] = IF Closed(s) THEN "shut" ELSE "set"]
  /\ GoTo(s, "check1")
  /\ UNCHANGED <<procs, closing, closer, canceled, tun, verdict, events, stopVars>>

(* The two looks at procCtx.Err(). *)
CheckCanceled(s) ==
  /\ \/ pc[s] = "check1" /\ GoTo(s, IF canceled[s] THEN "close" ELSE "engine")
     \/ pc[s] = "check2" /\ GoTo(s, IF canceled[s] THEN "close" ELSE "commit")
  /\ UNCHANGED <<procs, closing, closer, canceled, resources, verdict, events, stopVars>>

(* Mutant: the error of startWireguard is dropped. *)
StartWireguardDropsError(s) ==
  /\ pc[s] = "engine"
  /\ \/ /\ tun' = [tun EXCEPT ![s] = "loose"]
        /\ GoTo(s, "setTun")
     \/ /\ GoTo(s, "check2")
        /\ UNCHANGED tun
  /\ UNCHANGED <<procs, closing, closer, canceled, listener, verdict, events, stopVars>>

StartWireguard(s) ==
  /\ pc[s] = "engine"
  /\ \/ /\ tun' = [tun EXCEPT ![s] = "loose"]
        /\ GoTo(s, "setTun")
     \/ /\ GoTo(s, "close")
        /\ UNCHANGED tun
  /\ UNCHANGED <<procs, closing, closer, canceled, listener, verdict, events, stopVars>>

(* Mutant: setTun stores the device in a process that is closed already. *)
SetTunAnyway(s) ==
  /\ pc[s] = "setTun"
  /\ tun' = [tun EXCEPT ![s] = "set"]
  /\ GoTo(s, IF Closed(s) THEN "close" ELSE "check2")
  /\ UNCHANGED <<procs, closing, closer, canceled, listener, verdict, events, stopVars>>

SetTun(s) ==
  /\ pc[s] = "setTun"
  /\ tun' = [tun EXCEPT ![s] = IF Closed(s) THEN "shut" ELSE "set"]
  /\ GoTo(s, IF Closed(s) THEN "close" ELSE "check2")
  /\ UNCHANGED <<procs, closing, closer, canceled, listener, verdict, events, stopVars>>

(* Mutant: commitStart does not look at the closed flag. *)
CommitAnyway(s) ==
  /\ pc[s] = "commit"
  /\ GoTo(s, "announce")
  /\ UNCHANGED <<procs, closing, closer, canceled, resources, verdict, events, stopVars>>

CommitStart(s) ==
  /\ pc[s] = "commit"
  /\ GoTo(s, IF Closed(s) THEN "close" ELSE "announce")
  /\ UNCHANGED <<procs, closing, closer, canceled, resources, verdict, events, stopVars>>

(* emit(EventStarted); Start then returns and the goroutine serves. *)
Announce(s) ==
  /\ pc[s] = "announce"
  /\ events' = Offer("started", s)
  /\ GoTo(s, "serve")
  /\ UNCHANGED <<procs, closing, closer, canceled, resources, verdict, stopVars>>

(* serveSocks5 returns: its listener was closed, or accepting failed.      *)
(* Only a cancelled context makes the end a disconnect whatever the error. *)
ServeEnds(s) ==
  /\ pc[s] = "serve"
  /\ \E end \in {"stopped", "error"} :
       verdict' = [verdict EXCEPT ![s] = IF canceled[s] THEN "stopped" ELSE end]
  /\ GoTo(s, "close")
  /\ UNCHANGED <<procs, closing, closer, canceled, resources, events, stopVars>>

(* proc.close() by the goroutine: returns at once if somebody else closed. *)
CloseSelf(s) ==
  /\ pc[s] = "close"
  /\ IF Closed(s)
     THEN GoTo(s, "remove") /\ UNCHANGED <<closing, closer>>
     ELSE /\ GoTo(s, "closing")
          /\ closing' = [closing EXCEPT ![s] = "cancel"]
          /\ closer' = [closer EXCEPT ![s] = "self"]
  /\ UNCHANGED <<procs, canceled, resources, verdict, events, stopVars>>

ClosedSelf(s) ==
  /\ pc[s] = "closing"
  /\ closing[s] = "closed"
  /\ GoTo(s, "remove")
  /\ UNCHANGED <<procs, closing, closer, canceled, resources, verdict, events, stopVars>>

(* Mutant: a start that never served reports its end as well. *)
RemoveAndReport(s) ==
  /\ pc[s] = "remove"
  /\ procs' = [procs EXCEPT ![ProfileOf[s]] = IF @ = s THEN NoStart ELSE @]
  /\ GoTo(s, "report")
  /\ UNCHANGED <<closing, closer, canceled, resources, verdict, events, stopVars>>

RemoveProcess(s) ==
  /\ pc[s] = "remove"
  /\ procs' = [procs EXCEPT ![ProfileOf[s]] = IF @ = s THEN NoStart ELSE @]
  /\ GoTo(s, IF verdict[s] = "none" THEN "gone" ELSE "report")
  /\ UNCHANGED <<closing, closer, canceled, resources, verdict, events, stopVars>>

Report(s) ==
  /\ pc[s] = "report"
  /\ events' = Offer(verdict[s], s)
  /\ GoTo(s, "gone")
  /\ UNCHANGED <<procs, closing, closer, canceled, resources, verdict, stopVars>>

-----------------------------------------------------------------------------
(* process.close, once the closed flag is set and the lock dropped. *)

CloseStep(s) ==
  /\ \/ /\ closing[s] = "cancel"
        /\ closing' = [closing EXCEPT ![s] = "listener"]
        /\ canceled' = [canceled EXCEPT ![s] = TRUE]
        /\ UNCHANGED resources
     \/ /\ closing[s] = "listener"
        /\ closing' = [closing EXCEPT ![s] = "tun"]
        /\ listener' = [listener EXCEPT ![s] = IF @ = "set" THEN "shut" ELSE @]
        /\ UNCHANGED <<canceled, tun>>
     \/ /\ closing[s] = "tun"
        /\ closing' = [closing EXCEPT ![s] = "closed"]
        /\ tun' = [tun EXCEPT ![s] = IF @ = "set" THEN "shut" ELSE @]
        /\ UNCHANGED <<canceled, listener>>
  /\ UNCHANGED <<pc, procs, closer, verdict, events, stopVars>>

(* The first close() of a process does the work, later ones return at once. *)
CloseBy(s, who) ==
  IF Closed(s)
  THEN UNCHANGED <<closing, closer>>
  ELSE /\ closing' = [closing EXCEPT ![s] = "cancel"]
       /\ closer' = [closer EXCEPT ![s] = who]

-----------------------------------------------------------------------------
(* The callers of the runner. *)

(* The context handed to Start is cancelled: a disconnect, or the shutdown. *)
CancelStart(s) ==
  /\ ~canceled[s]
  /\ canceled' = [canceled EXCEPT ![s] = TRUE]
  /\ UNCHANGED <<pc, procs, closing, closer, resources, verdict, events, stopVars>>

(* Stop and StopAll look processes up under the runner's lock ...*)
Stop(p) ==
  /\ procs[p] # NoStart
  /\ aimed' = aimed \cup {procs[p]}
  /\ UNCHANGED <<pc, procs, closing, closer, canceled, resources, verdict, events,
                 waiter, snapshot, todo>>

StopAll ==
  /\ aimed' = aimed \cup Registered
  /\ UNCHANGED <<pc, procs, closing, closer, canceled, resources, verdict, events,
                 waiter, snapshot, todo>>

(* ... and close them after they released it. *)
StopClose(s) ==
  /\ s \in aimed
  /\ aimed' = aimed \ {s}
  /\ CloseBy(s, "stop")
  /\ UNCHANGED <<pc, procs, canceled, resources, verdict, events, waiter, snapshot, todo>>

StopAllAndWait ==
  /\ waiter = "idle"
  /\ waiter' = "closing"
  /\ snapshot' = Registered
  /\ todo' = Registered
  /\ UNCHANGED <<pc, procs, closing, closer, canceled, resources, verdict, events, aimed>>

(* It closes its processes one after the other. *)
WaiterBusy == \E s \in Starts : closer[s] = "waiter" /\ closing[s] # "closed"

(* Mutant: StopAllAndWait waits for processes it did not close. *)
WaiterOnlyWaits(s) ==
  /\ waiter = "closing"
  /\ s \in todo
  /\ ~WaiterBusy
  /\ todo' = todo \ {s}
  /\ UNCHANGED <<pc, procs, closing, closer, canceled, resources, verdict, events, aimed,
                 waiter, snapshot>>

WaiterClose(s) ==
  /\ waiter = "closing"
  /\ s \in todo
  /\ ~WaiterBusy
  /\ todo' = todo \ {s}
  /\ CloseBy(s, "waiter")
  /\ UNCHANGED <<pc, procs, canceled, resources, verdict, events, aimed, waiter, snapshot>>

WaiterWait ==
  /\ waiter = "closing"
  /\ todo = {}
  /\ ~WaiterBusy
  /\ waiter' = "waiting"
  /\ UNCHANGED <<pc, procs, closing, closer, canceled, resources, verdict, events,
                 aimed, snapshot, todo>>

(* Mutant: it does not await the done channels. *)
WaiterReturnsAtOnce ==
  /\ waiter = "waiting"
  /\ waiter' = "returned"
  /\ UNCHANGED <<pc, procs, closing, closer, canceled, resources, verdict, events,
                 aimed, snapshot, todo>>

WaiterReturn ==
  /\ waiter = "waiting"
  /\ \A s \in snapshot : Done(s)
  /\ waiter' = "returned"
  /\ UNCHANGED <<pc, procs, closing, closer, canceled, resources, verdict, events,
                 aimed, snapshot, todo>>

WaiterTimeout ==
  /\ waiter = "waiting"
  /\ waiter' = "timedOut"
  /\ UNCHANGED <<pc, procs, closing, closer, canceled, resources, verdict, events,
                 aimed, snapshot, todo>>

(* The dispatcher's forwarder takes the next event. *)
Receive ==
  /\ events # <<>>
  /\ events' = Tail(events)
  /\ UNCHANGED <<pc, procs, closing, closer, canceled, resources, verdict, stopVars>>

-----------------------------------------------------------------------------

Goroutine(s) ==
  \/ Parse(s) \/ Listen(s) \/ SetListener(s) \/ CheckCanceled(s)
  \/ StartWireguard(s) \/ SetTun(s) \/ CommitStart(s) \/ Announce(s)
  \/ CloseSelf(s) \/ ClosedSelf(s) \/ RemoveProcess(s) \/ Report(s)

Next ==
  \/ \E s \in Starts :
       \/ Refuse(s) \/ Reserve(s) \/ Goroutine(s) \/ ServeEnds(s) \/ CloseStep(s)
       \/ CancelStart(s) \/ StopClose(s) \/ WaiterClose(s)
  \/ \E p \in Profiles : Stop(p)
  \/ StopAll
  \/ StopAllAndWait \/ WaiterWait \/ WaiterReturn \/ WaiterTimeout
  \/ Receive

Spec == Init /\ [][Next]_vars

(* Goroutines run, external calls return, and Serve returns from a closed  *)
(* listener; nobody has to call Start or Stop and nothing has to fail.     *)
Fairness ==
  /\ \A s \in Starts :
       /\ WF_vars(Goroutine(s))
       /\ WF_vars(listener[s] = "shut" /\ ServeEnds(s))
       /\ WF_vars(CloseStep(s))
       /\ WF_vars(StopClose(s))
       /\ WF_vars(WaiterClose(s))
  /\ WF_vars(WaiterWait)
  /\ WF_vars(WaiterReturn)

FairSpec == Spec /\ Fairness

-----------------------------------------------------------------------------
(* Properties. *)

Released(s) == listener[s] \in {"none", "shut"} /\ tun[s] \in {"none", "shut"}

BeforeCommit == {"parse", "listen", "setListener", "check1", "engine", "setTun", "check2"}
Live == BeforeCommit \cup {"commit", "announce", "serve", "close", "closing", "remove"}

(* The procs map and the goroutines agree: an entry belongs to a start of   *)
(* that profile which has reserved and not removed itself, and each such    *)
(* start still has its entry, so no process runs that Stop cannot find.     *)
EntriesAreLive ==
  /\ \A p \in Profiles : procs[p] # NoStart =>
       ProfileOf[procs[p]] = p /\ pc[procs[p]] \in Live
  /\ \A s \in Starts : pc[s] \in Live => procs[ProfileOf[s]] = s

(* A process that is gone, and whose close() has run to its end, holds      *)
(* neither a listener nor a device, however close() and the acquisitions    *)
(* of Start were interleaved.                                               *)
NoLeak ==
  \A s \in Starts : Done(s) /\ closing[s] \in {"open", "closed"} => Released(s)

(* A start that has committed and that nobody closed owns an open listener  *)
(* and a live device: "connected" never describes a half-built tunnel.      *)
CommittedIsWhole ==
  \A s \in Starts : pc[s] \in {"announce", "serve"} /\ ~Closed(s) =>
    listener[s] = "set" /\ tun[s] = "set"

(* When StopAllAndWait returns nil the processes it found are gone, and the *)
(* listener and device of each are released unless a concurrent Stop, which *)
(* it does not wait for, is still inside close().                           *)
WaitedIsReleased ==
  waiter = "returned" =>
    \A s \in snapshot : Done(s) /\ (closing[s] # "closed" => closer[s] = "stop")
                                /\ (closing[s] = "closed" => Released(s))

(* Once some close() was entered the process leaves the table: a Stop       *)
(* issued at any point of the startup or of the serving takes effect.       *)
ClosedEnds == \A s \in Starts : Closed(s) ~> Done(s)

(* A start whose context is cancelled before its last look at the context   *)
(* ends, even if nobody calls Stop.                                         *)
CanceledEnds ==
  \A s \in Starts : (canceled[s] /\ pc[s] \in BeforeCommit) ~> Done(s)

(* StopAllAndWait returns, without the help of its context.                 *)
WaiterReturns == (waiter = "closing") ~> (waiter \in {"returned", "timedOut"})

-----------------------------------------------------------------------------
(* The runner implements Backend. *)

Phase(s) ==
  IF pc[s] \in {"new", "gone"} THEN pc[s]
  ELSE IF pc[s] = "announce" THEN "committed"
  ELSE IF pc[s] = "report" THEN "leaving"
  ELSE IF pc[s] = "serve" \/ verdict[s] # "none" THEN "serving"
  ELSE "reserved"

Contract == INSTANCE Backend WITH
  phase   <- [s \in Starts |-> Phase(s)],
  stopped <- {s \in Starts : Closed(s)},
  table   <- procs,
  MayFault <- FALSE

(* Whatever its goroutines and its callers do, the WireGuard adapter keeps  *)
(* to the contract the dispatcher and the service are built on.             *)
ImplementsBackend == Contract!Spec

-----------------------------------------------------------------------------
(* The inductive invariant behind the safety properties. *)

(* What a start holds follows from where its goroutine is ... *)
Acquired(s) ==
  /\ pc[s] \in {"new", "parse", "listen"} => listener[s] = "none" /\ tun[s] = "none"
  /\ pc[s] = "setListener" => listener[s] = "loose" /\ tun[s] = "none"
  /\ pc[s] \in {"check1", "engine"} => listener[s] \in {"set", "shut"} /\ tun[s] = "none"
  /\ pc[s] = "setTun" => listener[s] \in {"set", "shut"} /\ tun[s] = "loose"
  /\ pc[s] \in {"check2", "commit", "announce", "serve"} =>
       listener[s] \in {"set", "shut"} /\ tun[s] \in {"set", "shut"}
  /\ pc[s] \in {"close", "closing", "remove", "report", "gone"} =>
       listener[s] # "loose" /\ tun[s] # "loose"

(* ... and what it no longer holds from how far its close() has got. *)
Disposed(s) ==
  /\ closing[s] = "open" => listener[s] # "shut" /\ tun[s] # "shut"
  /\ closing[s] \in {"tun", "closed"} => listener[s] # "set"
  /\ closing[s] = "closed" => tun[s] # "set"

(* close() runs once, and a goroutine that runs it itself waits for its end. *)
ClosedOnce(s) ==
  /\ (closing[s] = "open") <=> (closer[s] = "nobody")
  /\ pc[s] = "closing" => closer[s] = "self"
  /\ closer[s] = "self" /\ closing[s] # "closed" => pc[s] = "closing"
  /\ pc[s] \in {"remove", "report"} => Closed(s)
  /\ pc[s] = "gone" /\ ~Closed(s) => listener[s] = "none" /\ tun[s] = "none"

(* Nobody closes a start that was never in the table. *)
Unseen(s) ==
  /\ pc[s] = "new" => ~Closed(s)
  /\ pc[s] \in {"new", "gone"} /\ ~Closed(s) => s \notin aimed /\ s \notin snapshot

(* Only a start that served has a verdict, and it has one before it is reported. *)
Judged(s) ==
  /\ pc[s] \in {"new", "commit", "announce", "serve"} \cup BeforeCommit => verdict[s] = "none"
  /\ pc[s] = "report" => verdict[s] # "none"

WaiterInv ==
  /\ todo \subseteq snapshot
  /\ waiter = "idle" => snapshot = {}
  /\ \A s \in snapshot \ todo : Closed(s)
  /\ waiter \in {"waiting", "returned", "timedOut"} => todo = {} /\ ~WaiterBusy
  /\ waiter = "returned" => \A s \in snapshot : Done(s)

StartInv(s) ==
  Acquired(s) /\ Disposed(s) /\ ClosedOnce(s) /\ Unseen(s) /\ Judged(s)

IInv == TypeOK /\ EntriesAreLive /\ (\A s \in Starts : StartInv(s)) /\ WaiterInv

=============================================================================
