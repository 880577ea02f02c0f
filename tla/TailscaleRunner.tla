-------------------------- MODULE TailscaleRunner --------------------------
(***************************************************************************)
(* The embedded Tailscale adapter (internal/tailscale.Runner).  A start    *)
(* acquires a listener, a tsnet node and, after its commit point, one      *)
(* listener for each port forward, whose relay runs from then on by itself.*)
(* Bringing the node up may wait for a login for ever, and the node        *)
(* belongs to a local variable of Start until setNode: whoever closes the  *)
(* process earlier does not see it.  Logout removes the state directory of *)
(* a profile that had no entry when it looked.  One step is one critical   *)
(* section or one external call.                                           *)
(***************************************************************************)
EXTENDS Naturals, Sequences

CONSTANTS
  Profiles, Starts, NoStart, Capacity,
  ProfileOf,   \* the profile a call of Start is about; its address is its own
  Forwards     \* how many port forwards every profile has

ASSUME TailscaleAssumption ==
  /\ NoStart \notin Starts
  /\ Capacity \in Nat \ {0}
  /\ ProfileOf \in [Starts -> Profiles]
  /\ Forwards \in Nat

VARIABLES
  pc,        \* where the goroutine of a start is
  verdict,   \* how serveSocks5 ended; "aborted" if a forward was not bound
  procs,     \* Runner.procs
  closing,   \* process.closed, and how far the one effective close() has got
  closer,    \* who runs that close()
  canceled,  \* procCtx.Err() # nil
  listener, node, forward, \* what the start has acquired
  exit,      \* whose exit node the node is set to
  relay,     \* the relay loop of each port forward
  events,    \* Runner.events, the log events left out
  aimed,     \* processes a Stop or StopAll has looked up and not closed yet
  waiter, snapshot, todo,  \* StopAllAndWait, as in WireproxyRunner
  removing,  \* profiles of a Logout that found no entry
  wiped      \* starts whose node lost its state directory under it

own       == <<pc, verdict>>
process   == <<closing, closer, canceled>>
resources == <<listener, node, forward>>
stopVars  == <<aimed, waiter, snapshot, todo>>
logout    == <<removing, wiped>>
vars == <<own, procs, process, resources, exit, relay, events, stopVars, logout>>

(* "listen" to "attach" name the call about to be made, "release" the       *)
(* deferred close of a node that was not handed over.                       *)
Pcs == {"new", "listen", "setListener", "check1", "newNode", "up", "check2",
        "exitNode", "setNode", "commit", "forward", "attach", "announce",
        "serve", "close", "closing", "release", "remove", "report", "gone"}

Rules == 1..Forwards
Resource == {"none", "loose", "set", "shut"}
Event == [start : Starts, type : {"started", "stopped", "error"}]

TypeOK ==
  /\ pc \in [Starts -> Pcs]
  /\ verdict \in [Starts -> {"none", "aborted", "stopped", "error"}]
  /\ procs \in [Profiles -> Starts \cup {NoStart}]
  /\ closing \in [Starts -> {"open", "cancel", "listener", "node", "forwards", "closed"}]
  /\ closer \in [Starts -> {"nobody", "self", "stop", "waiter"}]
  /\ canceled \in [Starts -> BOOLEAN]
  /\ listener \in [Starts -> Resource]
  /\ node \in [Starts -> Resource]
  /\ forward \in [Starts -> [Rules -> Resource]]
  /\ exit \in [Starts -> {"none", "start", "update"}]
  /\ relay \in [Starts -> [Rules -> {"none", "accept", "failed", "ended"}]]
  /\ events \in Seq(Event)
  /\ aimed \in SUBSET Starts
  /\ waiter \in {"idle", "closing", "waiting", "returned", "timedOut"}
  /\ snapshot \in SUBSET Starts
  /\ todo \in SUBSET Starts
  /\ removing \in SUBSET Profiles
  /\ wiped \in SUBSET Starts

-----------------------------------------------------------------------------

Closed(s) == closing[s] # "open"
Done(s) == pc[s] \in {"report", "gone"}
Registered == {procs[p] : p \in Profiles} \ {NoStart}
Held(r) == r \in {"loose", "set"}

AddressFree(s) ==
  \A t \in Starts : ProfileOf[t] = ProfileOf[s] => ~Held(listener[t])

Offer(type, s) ==
  IF Len(events) < Capacity
  THEN Append(events, [start |-> s, type |-> type])
  ELSE events

GoTo(s, target) == pc' = [pc EXCEPT ![s] = target]

Init ==
  /\ pc = [s \in Starts |-> "new"]
  /\ verdict = [s \in Starts |-> "none"]
  /\ procs = [p \in Profiles |-> NoStart]
  /\ closing = [s \in Starts |-> "open"]
  /\ closer = [s \in Starts |-> "nobody"]
  /\ canceled = [s \in Starts |-> FALSE]
  /\ listener = [s \in Starts |-> "none"]
  /\ node = [s \in Starts |-> "none"]
  /\ forward = [s \in Starts |-> [i \in Rules |-> "none"]]
  /\ exit = [s \in Starts |-> "none"]
  /\ relay = [s \in Starts |-> [i \in Rules |-> "none"]]
  /\ events = <<>>
  /\ aimed = {} /\ waiter = "idle" /\ snapshot = {} /\ todo = {}
  /\ removing = {} /\ wiped = {}

-----------------------------------------------------------------------------
(* The goroutine of Start.  A step of it that only moves on: *)
Step(s, from, to) ==
  /\ pc[s] = from
  /\ GoTo(s, to)
  /\ UNCHANGED verdict

Refuse(s) ==
  /\ Step(s, "new", "gone")
  /\ UNCHANGED <<procs, process, resources, exit, relay, events, stopVars, logout>>

(* Mutant: nobody looks whether the profile has an entry. *)
ReserveAnyway(s) ==
  /\ Step(s, "new", "listen")
  /\ procs' = [procs EXCEPT ![ProfileOf[s]] = s]
  /\ UNCHANGED <<process, resources, exit, relay, events, stopVars, logout>>

Reserve(s) ==
  /\ procs[ProfileOf[s]] = NoStart
  /\ Step(s, "new", "listen")
  /\ procs' = [procs EXCEPT ![ProfileOf[s]] = s]
  /\ UNCHANGED <<process, resources, exit, relay, events, stopVars, logout>>

Listen(s) ==
  /\ \/ /\ AddressFree(s)
        /\ Step(s, "listen", "setListener")
        /\ listener' = [listener EXCEPT ![s] = "loose"]
     \/ Step(s, "listen", "close") /\ UNCHANGED listener
  /\ UNCHANGED <<procs, process, node, forward, exit, relay, events, stopVars, logout>>

SetListener(s) ==
  /\ Step(s, "setListener", "check1")
  /\ listener' = [listener EXCEPT ![s] = IF Closed(s) THEN "shut" ELSE "set"]
  /\ UNCHANGED <<procs, process, node, forward, exit, relay, events, stopVars, logout>>

(* The two looks at procCtx.Err(). *)
CheckCanceled(s) ==
  /\ \/ Step(s, "check1", IF canceled[s] THEN "close" ELSE "newNode")
     \/ Step(s, "check2", IF canceled[s] THEN "close" ELSE "exitNode")
  /\ UNCHANGED <<procs, process, resources, exit, relay, events, stopVars, logout>>

(* Mutant: the node is handed to the process before it is configured. *)
NewNodePublished(s) ==
  /\ \/ /\ Step(s, "newNode", "up")
        /\ node' = [node EXCEPT ![s] = "set"]
     \/ Step(s, "newNode", "close") /\ UNCHANGED node
  /\ UNCHANGED <<procs, process, listener, forward, exit, relay, events, stopVars, logout>>

NewNode(s) ==
  /\ \/ /\ Step(s, "newNode", "up")
        /\ node' = [node EXCEPT ![s] = "loose"]
     \/ Step(s, "newNode", "close") /\ UNCHANGED node
  /\ UNCHANGED <<procs, process, listener, forward, exit, relay, events, stopVars, logout>>

(* node.Up waits for a login; it returns at the latest when the context ends. *)
Up(s) ==
  /\ \/ Step(s, "up", "check2")
     \/ Step(s, "up", "close")
  /\ UNCHANGED <<procs, process, resources, exit, relay, events, stopVars, logout>>

ConfigureExitNode(s) ==
  /\ \/ /\ Step(s, "exitNode", "setNode")
        /\ exit' = [exit EXCEPT ![s] = "start"]
     \/ Step(s, "exitNode", "close") /\ UNCHANGED exit
  /\ UNCHANGED <<procs, process, resources, relay, events, stopVars, logout>>

SetNode(s) ==
  /\ Step(s, "setNode", IF Closed(s) THEN "close" ELSE "commit")
  /\ node' = [node EXCEPT ![s] = IF Closed(s) THEN "shut" ELSE "set"]
  /\ UNCHANGED <<procs, process, listener, forward, exit, relay, events, stopVars, logout>>

(* Mutant: commitStart does not look at the closed flag. *)
CommitAnyway(s) ==
  /\ Step(s, "commit", "forward")
  /\ UNCHANGED <<procs, process, resources, exit, relay, events, stopVars, logout>>

CommitStart(s) ==
  /\ Step(s, "commit", IF Closed(s) THEN "close" ELSE "forward")
  /\ UNCHANGED <<procs, process, resources, exit, relay, events, stopVars, logout>>

(* Starting fails after the commit point. *)
Abort(s, from) ==
  /\ pc[s] = from
  /\ GoTo(s, "close")
  /\ verdict' = [verdict EXCEPT ![s] = "aborted"]

(* The rule startPortForwards has come to. *)
IsNext(s, i) == forward[s][i] = "none" /\ \A j \in 1..(i - 1) : forward[s][j] # "none"

(* Mutant: a forward that cannot be bound is skipped. *)
BindForwardSkips(s) ==
  /\ \/ \E i \in Rules :
          /\ IsNext(s, i)
          /\ \/ /\ Step(s, "forward", "attach")
                /\ forward' = [forward EXCEPT ![s][i] = "loose"]
             \/ Step(s, "forward", "announce") /\ UNCHANGED forward
     \/ /\ \A i \in Rules : forward[s][i] # "none"
        /\ Step(s, "forward", "announce")
        /\ UNCHANGED forward
  /\ UNCHANGED <<procs, process, listener, node, exit, relay, events, stopVars, logout>>

(* The next rule is bound on the node or fails the start; after the last    *)
(* one Start is through.                                                    *)
BindForward(s) ==
  /\ \/ \E i \in Rules :
          /\ IsNext(s, i)
          /\ \/ /\ Step(s, "forward", "attach")
                /\ forward' = [forward EXCEPT ![s][i] = "loose"]
             \/ Abort(s, "forward") /\ UNCHANGED forward
     \/ /\ \A i \in Rules : forward[s][i] # "none"
        /\ Step(s, "forward", "announce")
        /\ UNCHANGED forward
  /\ UNCHANGED <<procs, process, listener, node, exit, relay, events, stopVars, logout>>

(* addForwardCloser, and the relay is launched. *)
AddForwardCloser(s) ==
  \E i \in Rules :
    /\ forward[s][i] = "loose"
    /\ IF Closed(s) THEN Abort(s, "attach") ELSE Step(s, "attach", "forward")
    /\ forward' = [forward EXCEPT ![s][i] = IF Closed(s) THEN "shut" ELSE "set"]
    /\ relay' = [relay EXCEPT ![s][i] = IF Closed(s) THEN "none" ELSE "accept"]
    /\ UNCHANGED <<procs, process, listener, node, exit, events, stopVars, logout>>

Announce(s) ==
  /\ Step(s, "announce", "serve")
  /\ events' = Offer("started", s)
  /\ UNCHANGED <<procs, process, resources, exit, relay, stopVars, logout>>

ServeEnds(s) ==
  /\ pc[s] = "serve"
  /\ GoTo(s, "close")
  /\ \E end \in {"stopped", "error"} :
       verdict' = [verdict EXCEPT ![s] = IF canceled[s] THEN "stopped" ELSE end]
  /\ UNCHANGED <<procs, process, resources, exit, relay, events, stopVars, logout>>

(* The goroutine's own proc.close(): somebody else may have closed before. *)
CloseSelf(s) ==
  /\ IF Closed(s)
     THEN Step(s, "close", "release") /\ UNCHANGED <<closing, closer>>
     ELSE /\ Step(s, "close", "closing")
          /\ closing' = [closing EXCEPT ![s] = "cancel"]
          /\ closer' = [closer EXCEPT ![s] = "self"]
  /\ UNCHANGED <<procs, canceled, resources, exit, relay, events, stopVars, logout>>

ClosedSelf(s) ==
  /\ closing[s] = "closed"
  /\ Step(s, "closing", "release")
  /\ UNCHANGED <<procs, process, resources, exit, relay, events, stopVars, logout>>

(* Mutant: the deferred cleanup relies on close(), which never saw the node. *)
ReleaseNothing(s) ==
  /\ Step(s, "release", "remove")
  /\ UNCHANGED <<procs, process, resources, exit, relay, events, stopVars, logout>>

ReleaseNode(s) ==
  /\ Step(s, "release", "remove")
  /\ node' = [node EXCEPT ![s] = IF @ = "loose" THEN "shut" ELSE @]
  /\ UNCHANGED <<procs, process, listener, forward, exit, relay, events, stopVars, logout>>

RemoveProcess(s) ==
  /\ Step(s, "remove", IF verdict[s] \in {"none", "aborted"} THEN "gone" ELSE "report")
  /\ procs' = [procs EXCEPT ![ProfileOf[s]] = IF @ = s THEN NoStart ELSE @]
  /\ UNCHANGED <<process, resources, exit, relay, events, stopVars, logout>>

Report(s) ==
  /\ Step(s, "report", "gone")
  /\ events' = Offer(verdict[s], s)
  /\ UNCHANGED <<procs, process, resources, exit, relay, stopVars, logout>>

-----------------------------------------------------------------------------
(* The relay loop of a port forward. *)

(* Accepting, or reading, fails: a cancelled context or a closed listener   *)
(* is the normal end, anything else will be reported.                       *)
AcceptFails(s, i) ==
  /\ relay[s][i] = "accept"
  /\ relay' = [relay EXCEPT ![s][i] =
       IF canceled[s] \/ forward[s][i] = "shut" THEN "ended" ELSE "failed"]
  /\ UNCHANGED <<own, procs, process, resources, exit, events, stopVars, logout>>

EmitForwardError(s, i) ==
  /\ relay[s][i] = "failed"
  /\ relay' = [relay EXCEPT ![s][i] = "ended"]
  /\ events' = Offer("error", s)
  /\ UNCHANGED <<own, procs, process, resources, exit, stopVars, logout>>

-----------------------------------------------------------------------------
(* process.close, once the closed flag is set and the lock dropped. *)

Shut(r) == IF r = "set" THEN "shut" ELSE r

(* Mutant: close() forgets the port forwards. *)
CloseKeepsForwards(s) ==
  /\ \/ /\ closing[s] = "cancel"
        /\ closing' = [closing EXCEPT ![s] = "listener"]
        /\ canceled' = [canceled EXCEPT ![s] = TRUE]
        /\ UNCHANGED resources
     \/ /\ closing[s] = "listener"
        /\ closing' = [closing EXCEPT ![s] = "node"]
        /\ listener' = [listener EXCEPT ![s] = Shut(@)]
        /\ UNCHANGED <<canceled, node, forward>>
     \/ /\ closing[s] = "node"
        /\ closing' = [closing EXCEPT ![s] = "closed"]
        /\ node' = [node EXCEPT ![s] = Shut(@)]
        /\ UNCHANGED <<canceled, listener, forward>>
  /\ UNCHANGED <<own, procs, closer, exit, relay, events, stopVars, logout>>

CloseStep(s) ==
  /\ \/ /\ closing[s] = "cancel"
        /\ closing' = [closing EXCEPT ![s] = "listener"]
        /\ canceled' = [canceled EXCEPT ![s] = TRUE]
        /\ UNCHANGED resources
     \/ /\ closing[s] = "listener"
        /\ closing' = [closing EXCEPT ![s] = "node"]
        /\ listener' = [listener EXCEPT ![s] = Shut(@)]
        /\ UNCHANGED <<canceled, node, forward>>
     \/ /\ closing[s] = "node"
        /\ closing' = [closing EXCEPT ![s] = "forwards"]
        /\ node' = [node EXCEPT ![s] = Shut(@)]
        /\ UNCHANGED <<canceled, listener, forward>>
     \/ /\ closing[s] = "forwards"
        /\ closing' = [closing EXCEPT ![s] = "closed"]
        /\ forward' = [forward EXCEPT ![s] = [i \in Rules |-> Shut(@[i])]]
        /\ UNCHANGED <<canceled, listener, node>>
  /\ UNCHANGED <<own, procs, closer, exit, relay, events, stopVars, logout>>

CloseBy(s, who) ==
  IF Closed(s)
  THEN UNCHANGED <<closing, closer>>
  ELSE /\ closing' = [closing EXCEPT ![s] = "cancel"]
       /\ closer' = [closer EXCEPT ![s] = who]

-----------------------------------------------------------------------------
(* The callers of the runner. *)

CancelStart(s) ==
  /\ ~canceled[s]
  /\ canceled' = [canceled EXCEPT ![s] = TRUE]
  /\ UNCHANGED <<own, procs, closing, closer, resources, exit, relay, events, stopVars, logout>>

(* Stop and StopAll look processes up under the runner's lock ... *)
Stop(found) ==
  /\ found # {}
  /\ aimed' = aimed \cup found
  /\ UNCHANGED <<own, procs, process, resources, exit, relay, events,
                 waiter, snapshot, todo, logout>>

(* ... and close them after they released it. *)
StopClose(s) ==
  /\ s \in aimed
  /\ aimed' = aimed \ {s}
  /\ CloseBy(s, "stop")
  /\ UNCHANGED <<own, procs, canceled, resources, exit, relay, events,
                 waiter, snapshot, todo, logout>>

WaiterGoesOn(target) ==
  /\ waiter' = target
  /\ UNCHANGED <<own, procs, process, resources, exit, relay, events, aimed, logout>>

WaiterBusy == \E s \in Starts : closer[s] = "waiter" /\ closing[s] # "closed"

StopAllAndWait ==
  /\ waiter = "idle"
  /\ snapshot' = Registered /\ todo' = Registered
  /\ WaiterGoesOn("closing")

WaiterClose(s) ==
  /\ waiter = "closing"
  /\ s \in todo /\ ~WaiterBusy
  /\ todo' = todo \ {s}
  /\ CloseBy(s, "waiter")
  /\ UNCHANGED <<own, procs, canceled, resources, exit, relay, events, aimed,
                 waiter, snapshot, logout>>

WaiterWait ==
  /\ waiter = "closing"
  /\ todo = {} /\ ~WaiterBusy
  /\ UNCHANGED <<snapshot, todo>>
  /\ WaiterGoesOn("waiting")

WaiterReturn ==
  /\ waiter = "waiting"
  /\ \A s \in snapshot : Done(s)
  /\ UNCHANGED <<snapshot, todo>>
  /\ WaiterGoesOn("returned")

WaiterTimeout ==
  /\ waiter = "waiting"
  /\ UNCHANGED <<snapshot, todo>>
  /\ WaiterGoesOn("timedOut")

(* A change of the exit node reaches the node that the process owns. *)
UpdateExitNode(p) ==
  /\ procs[p] # NoStart
  /\ node[procs[p]] = "set"
  /\ exit' = [exit EXCEPT ![procs[p]] = "update"]
  /\ UNCHANGED <<own, procs, process, resources, relay, events, stopVars, logout>>

(* Logout looks for an entry under the lock and removes the directory after. *)
Logout(p) ==
  /\ procs[p] = NoStart
  /\ removing' = removing \cup {p}
  /\ UNCHANGED <<own, procs, process, resources, exit, relay, events, stopVars, wiped>>

RemoveAll(p) ==
  /\ p \in removing
  /\ removing' = removing \ {p}
  /\ wiped' = wiped \cup {s \in Starts : ProfileOf[s] = p /\ Held(node[s])}
  /\ UNCHANGED <<own, procs, process, resources, exit, relay, events, stopVars>>

Receive ==
  /\ events # <<>>
  /\ events' = Tail(events)
  /\ UNCHANGED <<own, procs, process, resources, exit, relay, stopVars, logout>>

-----------------------------------------------------------------------------

Goroutine(s) ==
  \/ Listen(s) \/ SetListener(s) \/ CheckCanceled(s) \/ NewNode(s)
  \/ ConfigureExitNode(s) \/ SetNode(s) \/ CommitStart(s) \/ BindForward(s)
  \/ AddForwardCloser(s) \/ Announce(s) \/ CloseSelf(s) \/ ClosedSelf(s)
  \/ ReleaseNode(s) \/ RemoveProcess(s) \/ Report(s)

(* What goes on by itself or is called by Start's callers ...               *)
Runs ==
  \/ \E s \in Starts :
       \/ Refuse(s) \/ Reserve(s) \/ Goroutine(s) \/ Up(s) \/ ServeEnds(s)
       \/ CloseStep(s) \/ CancelStart(s)
       \/ \E i \in Rules : AcceptFails(s, i) \/ EmitForwardError(s, i)
  \/ Receive

(* ... and what the other callers do.                                       *)
Stops ==
  \/ \E p \in Profiles : Stop({procs[p]} \ {NoStart})
  \/ Stop(Registered)
  \/ \E s \in Starts : StopClose(s)

Waits ==
  \/ StopAllAndWait \/ WaiterWait \/ WaiterReturn \/ WaiterTimeout
  \/ \E s \in Starts : WaiterClose(s)

Updates == \E p \in Profiles : UpdateExitNode(p) \/ Logout(p) \/ RemoveAll(p)

Next == Runs \/ Stops \/ Waits \/ Updates

Spec == Init /\ [][Next]_vars

(* As for WireproxyRunner; a node that waits for a login comes back only    *)
(* when its context is cancelled, a relay when its listener is closed.      *)
Fairness ==
  /\ \A s \in Starts :
       /\ WF_vars(Goroutine(s))
       /\ WF_vars(canceled[s] /\ Up(s))
       /\ WF_vars(listener[s] = "shut" /\ ServeEnds(s))
       /\ WF_vars(CloseStep(s))
       /\ WF_vars(StopClose(s))
       /\ WF_vars(WaiterClose(s))
       /\ \A i \in Rules :
            /\ WF_vars(forward[s][i] = "shut" /\ AcceptFails(s, i))
            /\ WF_vars(EmitForwardError(s, i))
  /\ WF_vars(WaiterWait)
  /\ WF_vars(WaiterReturn)

FairSpec == Spec /\ Fairness

-----------------------------------------------------------------------------
(* Properties. *)

Released(s) ==
  ~Held(listener[s]) /\ ~Held(node[s]) /\ \A i \in Rules : ~Held(forward[s][i])

BeforeCommit == {"listen", "setListener", "check1", "newNode", "up", "check2",
                 "exitNode", "setNode", "commit"}
Ending == {"close", "closing", "release", "remove"}
Live == BeforeCommit \cup {"forward", "attach", "announce", "serve"} \cup Ending

(* The procs map holds exactly the live starts, each under its profile: no  *)
(* node runs that Stop, ExitNodes and Logout cannot find.                   *)
EntriesAreLive ==
  /\ \A p \in Profiles : procs[p] # NoStart =>
       ProfileOf[procs[p]] = p /\ pc[procs[p]] \in Live
  /\ \A s \in Starts : pc[s] \in Live => procs[ProfileOf[s]] = s

(* A process that is gone, and whose close() has run to its end, has        *)
(* released its listener, its node and all of its port forwards, whether    *)
(* they were acquired before or after the close, the node also when close() *)
(* never saw it.                                                            *)
NoLeak ==
  \A s \in Starts : Done(s) /\ closing[s] \in {"open", "closed"} => Released(s)

(* What is announced as connected, and not closed, is complete: listener,   *)
(* node and every port forward.                                             *)
CommittedIsWhole ==
  \A s \in Starts : pc[s] \in {"announce", "serve"} /\ ~Closed(s) =>
    /\ listener[s] = "set" /\ node[s] = "set"
    /\ \A i \in Rules : forward[s][i] = "set"

(* When StopAllAndWait returns nil, what it found is gone and released,     *)
(* unless a concurrent Stop is still inside close().                        *)
WaitedIsReleased ==
  waiter = "returned" =>
    \A s \in snapshot : Done(s) /\ (closing[s] # "closed" => closer[s] = "stop")
                                /\ (closing[s] = "closed" => Released(s))

(* The exit node a user chose while connected is never set back to the one  *)
(* the profile was started with: Start configures before it hands over.     *)
UpdatesStick ==
  [][\A s \in Starts : exit[s] = "update" => exit'[s] = "update"]_vars

(* Whoever closes a process at whatever point, it leaves the table and its  *)
(* relays end, so that no port forward outlives a disconnect.               *)
ClosedEnds ==
  \A s \in Starts : Closed(s) ~>
    (Done(s) /\ \A i \in Rules : relay[s][i] \in {"none", "ended"})

(* A cancelled start does not wait for its login any longer. *)
CanceledEnds ==
  \A s \in Starts :
    (canceled[s] /\ pc[s] \in {"listen", "setListener", "check1", "newNode", "up", "check2"})
      ~> Done(s)

WaiterReturns == (waiter = "closing") ~> (waiter \in {"returned", "timedOut"})

(* A node never loses its state directory while it lives. *)
NodeKeepsState == wiped = {}

-----------------------------------------------------------------------------
(* The runner implements Backend. *)

Phase(s) ==
  IF pc[s] \in {"new", "gone"} THEN pc[s]
  ELSE IF pc[s] = "report" THEN "leaving"
  ELSE IF pc[s] = "serve" \/ verdict[s] \in {"stopped", "error"} THEN "serving"
  ELSE IF pc[s] \in {"forward", "attach", "announce"} \/ verdict[s] = "aborted"
  THEN "committed"
  ELSE "reserved"

Contract == INSTANCE Backend WITH
  phase   <- [s \in Starts |-> Phase(s)],
  stopped <- {s \in Starts : Closed(s)},
  table   <- procs,
  MayFault <- TRUE

(* The Tailscale adapter keeps to the contract, faults of relays included.  *)
ImplementsBackend == Contract!Spec

-----------------------------------------------------------------------------
(* The inductive invariant behind the safety properties. *)

(* What a start holds follows from where its goroutine is ... *)
Acquired(s) ==
  /\ pc[s] \in {"new", "listen"} => listener[s] = "none"
  /\ pc[s] = "setListener" => listener[s] = "loose"
  /\ pc[s] # "setListener" => listener[s] # "loose"
  /\ pc[s] \in {"check1", "newNode", "up", "check2", "exitNode", "setNode", "commit",
                "forward", "attach", "announce", "serve"} => listener[s] # "none"
  /\ pc[s] \in {"new", "listen", "setListener", "check1", "newNode"} => node[s] = "none"
  /\ pc[s] \in {"up", "check2", "exitNode", "setNode"} => node[s] = "loose"
  /\ pc[s] \in {"commit", "forward", "attach", "announce", "serve"} =>
       node[s] \in {"set", "shut"}
  /\ pc[s] \in {"remove", "report", "gone"} => node[s] # "loose"

(* ... one forward at most is bound and not attached yet ... *)
Forwarded(s) ==
  /\ pc[s] \in {"new"} \cup BeforeCommit => \A i \in Rules : forward[s][i] = "none"
  /\ pc[s] # "attach" => \A i \in Rules : forward[s][i] # "loose"
  /\ \A i, j \in Rules : forward[s][i] = "loose" /\ forward[s][j] = "loose" => i = j
  /\ pc[s] \in {"announce", "serve"} => \A i \in Rules : forward[s][i] # "none"
  /\ \A i \in Rules : relay[s][i] # "none" => forward[s][i] \in {"set", "shut"}

(* ... and what it no longer holds from how far its close() has got. *)
Disposed(s) ==
  /\ closing[s] = "open" => /\ listener[s] # "shut" /\ node[s] # "shut"
                            /\ \A i \in Rules : forward[s][i] # "shut"
  /\ closing[s] \in {"node", "forwards", "closed"} => listener[s] # "set"
  /\ closing[s] \in {"forwards", "closed"} => node[s] # "set"
  /\ closing[s] = "closed" => \A i \in Rules : forward[s][i] # "set"

(* close() runs once, and a goroutine that runs it itself waits for its end. *)
ClosedOnce(s) ==
  /\ (closing[s] = "open") <=> (closer[s] = "nobody")
  /\ pc[s] = "closing" => closer[s] = "self"
  /\ closer[s] = "self" /\ closing[s] # "closed" => pc[s] = "closing"
  /\ pc[s] \in {"release", "remove", "report"} => Closed(s)
  /\ pc[s] = "gone" /\ ~Closed(s) =>
       /\ listener[s] = "none" /\ node[s] = "none"
       /\ \A i \in Rules : forward[s][i] = "none"

(* Nobody closes a start that was never in the table. *)
Unseen(s) ==
  /\ pc[s] = "new" => ~Closed(s)
  /\ pc[s] \in {"new", "gone"} /\ ~Closed(s) => s \notin aimed /\ s \notin snapshot

(* A start has a verdict from the time it ends after its commit point, and  *)
(* it is reported if it served.                                             *)
Judged(s) ==
  /\ pc[s] \in {"new", "forward", "attach", "announce", "serve"} \cup BeforeCommit =>
       verdict[s] = "none"
  /\ pc[s] = "report" => verdict[s] \in {"stopped", "error"}
  /\ pc[s] \in Ending /\ (\E i \in Rules : relay[s][i] # "none") => verdict[s] # "none"

(* Only a node that was handed over can be told of another exit node. *)
Updatable(s) == exit[s] = "update" => node[s] \in {"set", "shut"}

StartInv(s) ==
  /\ Acquired(s) /\ Forwarded(s) /\ Disposed(s) /\ ClosedOnce(s)
  /\ Unseen(s) /\ Judged(s) /\ Updatable(s)

WaiterInv ==
  /\ todo \subseteq snapshot
  /\ waiter = "idle" => snapshot = {}
  /\ \A s \in snapshot \ todo : Closed(s)
  /\ waiter \in {"waiting", "returned", "timedOut"} => todo = {} /\ ~WaiterBusy
  /\ waiter = "returned" => \A s \in snapshot : Done(s)

IInv == TypeOK /\ EntriesAreLive /\ (\A s \in Starts : StartInv(s)) /\ WaiterInv

=============================================================================
