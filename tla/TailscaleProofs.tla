-------------------------- MODULE TailscaleProofs --------------------------
(***************************************************************************)
(* The safety properties of TailscaleRunner, and that it implements        *)
(* Backend, for any number of starts, profiles and port forwards, by the   *)
(* inductive invariant IInv; then what holds of the machines that          *)
(* MCTailscale puts beside it.                                             *)
(***************************************************************************)
EXTENDS MCTailscale, TLAPS

USE TailscaleAssumption DEF Pcs, Resource, GoTo, own, process, resources, stopVars,
                          logout, Closed, Done, BeforeCommit, Ending, Live, Rules, Held

LEMMA InitInv == Init => IInv
BY DEF Init, IInv, TypeOK, EntriesAreLive, StartInv, Acquired, Forwarded, Disposed,
       ClosedOnce, Unseen, Judged, Updatable, WaiterInv

(* A send keeps the channel a sequence of events. *)
LEMMA OfferTypeOK ==
  ASSUME TypeOK, NEW s \in Starts, NEW type \in {"started", "stopped", "error"}
  PROVE  Offer(type, s) \in Seq(Event)
<1>1. [start |-> s, type |-> type] \in Event
  BY DEF Event
<1>2. events \in Seq(Event)
  BY DEF TypeOK
<1>3. Append(events, [start |-> s, type |-> type]) \in Seq(Event)
  BY <1>1, <1>2
<1> QED
  BY <1>3 DEF Offer


(* What an action with several outcomes does in each of them. *)
GiveUp(s) ==
  /\ pc[s] \in {"listen", "check1", "newNode", "up", "check2", "exitNode", "commit"}
  /\ Step(s, pc[s], "close")
  /\ UNCHANGED <<procs, process, resources, exit, relay, events, stopVars, logout>>

Listens(s) ==
  /\ Step(s, "listen", "setListener")
  /\ listener' = [listener EXCEPT ![s] = "loose"]
  /\ UNCHANGED <<procs, process, node, forward, exit, relay, events, stopVars, logout>>

Passes(s) ==
  /\ \E target \in {"newNode", "check2", "exitNode"} :
       /\ pc[s] = CASE target = "newNode" -> "check1"
                    [] target = "check2" -> "up"
                    [] target = "exitNode" -> "check2"
       /\ Step(s, pc[s], target)
  /\ UNCHANGED <<procs, process, resources, exit, relay, events, stopVars, logout>>

CreatesNode(s) ==
  /\ Step(s, "newNode", "up")
  /\ node' = [node EXCEPT ![s] = "loose"]
  /\ UNCHANGED <<procs, process, listener, forward, exit, relay, events, stopVars, logout>>

Configures(s) ==
  /\ Step(s, "exitNode", "setNode")
  /\ exit' = [exit EXCEPT ![s] = "start"]
  /\ UNCHANGED <<procs, process, resources, relay, events, stopVars, logout>>

Commits(s) ==
  /\ ~Closed(s)
  /\ Step(s, "commit", "forward")
  /\ UNCHANGED <<procs, process, resources, exit, relay, events, stopVars, logout>>

BindsRule(s, i) ==
  /\ forward[s][i] = "none"
  /\ Step(s, "forward", "attach")
  /\ forward' = [forward EXCEPT ![s][i] = "loose"]
  /\ UNCHANGED <<procs, process, listener, node, exit, relay, events, stopVars, logout>>

FailsToBind(s) ==
  /\ Abort(s, "forward")
  /\ UNCHANGED <<procs, process, resources, exit, relay, events, stopVars, logout>>

BoundAll(s) ==
  /\ \A i \in Rules : forward[s][i] # "none"
  /\ Step(s, "forward", "announce")
  /\ UNCHANGED <<procs, process, resources, exit, relay, events, stopVars, logout>>

Attaches(s, i) ==
  /\ ~Closed(s)
  /\ forward[s][i] = "loose"
  /\ Step(s, "attach", "forward")
  /\ forward' = [forward EXCEPT ![s][i] = "set"]
  /\ relay' = [relay EXCEPT ![s][i] = "accept"]
  /\ UNCHANGED <<procs, process, listener, node, exit, events, stopVars, logout>>

AttachesLate(s, i) ==
  /\ Closed(s)
  /\ forward[s][i] = "loose"
  /\ Abort(s, "attach")
  /\ forward' = [forward EXCEPT ![s][i] = "shut"]
  /\ relay' = [relay EXCEPT ![s][i] = "none"]
  /\ UNCHANGED <<procs, process, listener, node, exit, events, stopVars, logout>>

FindsClosed(s) ==
  /\ Closed(s)
  /\ Step(s, "close", "release")
  /\ UNCHANGED <<procs, process, resources, exit, relay, events, stopVars, logout>>

(* The one effective close() begins, in the goroutine or in a caller. *)
ClosesSelf(s) ==
  /\ ~Closed(s)
  /\ Step(s, "close", "closing")
  /\ closing' = [closing EXCEPT ![s] = "cancel"]
  /\ closer' = [closer EXCEPT ![s] = "self"]
  /\ UNCHANGED <<procs, canceled, resources, exit, relay, events, stopVars, logout>>

LEMMA RefuseKeeps == ASSUME NEW s \in Starts, IInv, Refuse(s) PROVE IInv'
<1>1. TypeOK'
  BY DEF IInv, TypeOK, Refuse, Step
<1>2. EntriesAreLive'
  BY DEF IInv, EntriesAreLive, Refuse, Step
<1>3. ASSUME NEW t \in Starts PROVE StartInv(t)'
  BY DEF IInv, StartInv, Acquired, Forwarded, Disposed, ClosedOnce, Unseen, Judged,
         Updatable, Refuse, Step
<1>4. WaiterInv'
  BY DEF IInv, WaiterInv, WaiterBusy, Refuse, Step
<1> QED
  BY <1>1, <1>2, <1>3, <1>4 DEF IInv

LEMMA ReserveKeeps == ASSUME NEW s \in Starts, IInv, Reserve(s) PROVE IInv'
<1>1. TypeOK'
  BY DEF IInv, TypeOK, Reserve, Step
<1>2. EntriesAreLive'
  BY DEF IInv, TypeOK, EntriesAreLive, Reserve, Step
<1>3. ASSUME NEW t \in Starts PROVE StartInv(t)'
  BY DEF IInv, StartInv, Acquired, Forwarded, Disposed, ClosedOnce, Unseen, Judged,
         Updatable, Reserve, Step
<1>4. WaiterInv'
  BY DEF IInv, WaiterInv, WaiterBusy, Reserve, Step
<1> QED
  BY <1>1, <1>2, <1>3, <1>4 DEF IInv

LEMMA GiveUpKeeps == ASSUME NEW s \in Starts, IInv, GiveUp(s) PROVE IInv'
<1>1. TypeOK'
  BY DEF IInv, TypeOK, GiveUp, Step
<1>2. EntriesAreLive'
  BY DEF IInv, EntriesAreLive, GiveUp, Step
<1>3. ASSUME NEW t \in Starts PROVE StartInv(t)'
  BY DEF IInv, StartInv, Acquired, Forwarded, Disposed, ClosedOnce, Unseen, Judged,
         Updatable, GiveUp, Step
<1>4. WaiterInv'
  BY DEF IInv, WaiterInv, WaiterBusy, GiveUp, Step
<1> QED
  BY <1>1, <1>2, <1>3, <1>4 DEF IInv

LEMMA ListensKeeps == ASSUME NEW s \in Starts, IInv, Listens(s) PROVE IInv'
<1>1. TypeOK'
  BY DEF IInv, TypeOK, Listens, Step
<1>2. EntriesAreLive'
  BY DEF IInv, EntriesAreLive, Listens, Step
<1>3. ASSUME NEW t \in Starts PROVE StartInv(t)'
  BY DEF IInv, TypeOK, StartInv, Acquired, Forwarded, Disposed, ClosedOnce, Unseen,
         Judged, Updatable, Listens, Step
<1>4. WaiterInv'
  BY DEF IInv, WaiterInv, WaiterBusy, Listens, Step
<1> QED
  BY <1>1, <1>2, <1>3, <1>4 DEF IInv

LEMMA SetListenerKeeps == ASSUME NEW s \in Starts, IInv, SetListener(s) PROVE IInv'
<1>1. TypeOK'
  BY DEF IInv, TypeOK, SetListener, Step
<1>2. EntriesAreLive'
  BY DEF IInv, EntriesAreLive, SetListener, Step
<1>3. ASSUME NEW t \in Starts PROVE StartInv(t)'
  BY DEF IInv, TypeOK, StartInv, Acquired, Forwarded, Disposed, ClosedOnce, Unseen,
         Judged, Updatable, SetListener, Step
<1>4. WaiterInv'
  BY DEF IInv, WaiterInv, WaiterBusy, SetListener, Step
<1> QED
  BY <1>1, <1>2, <1>3, <1>4 DEF IInv

LEMMA PassesKeeps == ASSUME NEW s \in Starts, IInv, Passes(s) PROVE IInv'
<1>1. TypeOK'
  BY DEF IInv, TypeOK, Passes, Step
<1>2. EntriesAreLive'
  BY DEF IInv, EntriesAreLive, Passes, Step
<1>3. ASSUME NEW t \in Starts PROVE StartInv(t)'
  BY DEF IInv, StartInv, Acquired, Forwarded, Disposed, ClosedOnce, Unseen, Judged,
         Updatable, Passes, Step
<1>4. WaiterInv'
  BY DEF IInv, WaiterInv, WaiterBusy, Passes, Step
<1> QED
  BY <1>1, <1>2, <1>3, <1>4 DEF IInv

LEMMA CreatesNodeKeeps == ASSUME NEW s \in Starts, IInv, CreatesNode(s) PROVE IInv'
<1>1. TypeOK'
  BY DEF IInv, TypeOK, CreatesNode, Step
<1>2. EntriesAreLive'
  BY DEF IInv, EntriesAreLive, CreatesNode, Step
<1>3. ASSUME NEW t \in Starts PROVE StartInv(t)'
  BY DEF IInv, TypeOK, StartInv, Acquired, Forwarded, Disposed, ClosedOnce, Unseen,
         Judged, Updatable, CreatesNode, Step
<1>4. WaiterInv'
  BY DEF IInv, WaiterInv, WaiterBusy, CreatesNode, Step
<1> QED
  BY <1>1, <1>2, <1>3, <1>4 DEF IInv

LEMMA ConfiguresKeeps == ASSUME NEW s \in Starts, IInv, Configures(s) PROVE IInv'
<1>1. TypeOK'
  BY DEF IInv, TypeOK, Configures, Step
<1>2. EntriesAreLive'
  BY DEF IInv, EntriesAreLive, Configures, Step
<1>3. ASSUME NEW t \in Starts PROVE StartInv(t)'
  BY DEF IInv, StartInv, Acquired, Forwarded, Disposed, ClosedOnce, Unseen, Judged,
         Updatable, Configures, Step
<1>4. WaiterInv'
  BY DEF IInv, WaiterInv, WaiterBusy, Configures, Step
<1> QED
  BY <1>1, <1>2, <1>3, <1>4 DEF IInv

LEMMA SetNodeKeeps == ASSUME NEW s \in Starts, IInv, SetNode(s) PROVE IInv'
<1>1. TypeOK'
  BY DEF IInv, TypeOK, SetNode, Step
<1>2. EntriesAreLive'
  BY DEF IInv, EntriesAreLive, SetNode, Step
<1>3. ASSUME NEW t \in Starts PROVE StartInv(t)'
  BY DEF IInv, TypeOK, StartInv, Acquired, Forwarded, Disposed, ClosedOnce, Unseen,
         Judged, Updatable, SetNode, Step
<1>4. WaiterInv'
  BY DEF IInv, WaiterInv, WaiterBusy, SetNode, Step
<1> QED
  BY <1>1, <1>2, <1>3, <1>4 DEF IInv

LEMMA CommitsKeeps == ASSUME NEW s \in Starts, IInv, Commits(s) PROVE IInv'
<1>1. TypeOK'
  BY DEF IInv, TypeOK, Commits, Step
<1>2. EntriesAreLive'
  BY DEF IInv, EntriesAreLive, Commits, Step
<1>3. ASSUME NEW t \in Starts PROVE StartInv(t)'
  BY DEF IInv, StartInv, Acquired, Forwarded, Disposed, ClosedOnce, Unseen, Judged,
         Updatable, Commits, Step
<1>4. WaiterInv'
  BY DEF IInv, WaiterInv, WaiterBusy, Commits, Step
<1> QED
  BY <1>1, <1>2, <1>3, <1>4 DEF IInv

LEMMA BindsRuleKeeps ==
  ASSUME NEW s \in Starts, NEW i \in Rules, IInv, BindsRule(s, i) PROVE IInv'
<1>1. TypeOK'
  BY DEF IInv, TypeOK, BindsRule, Step
<1>2. EntriesAreLive'
  BY DEF IInv, EntriesAreLive, BindsRule, Step
<1>3. ASSUME NEW t \in Starts PROVE StartInv(t)'
  BY DEF IInv, TypeOK, StartInv, Acquired, Forwarded, Disposed, ClosedOnce, Unseen,
         Judged, Updatable, BindsRule, Step
<1>4. WaiterInv'
  BY DEF IInv, WaiterInv, WaiterBusy, BindsRule, Step
<1> QED
  BY <1>1, <1>2, <1>3, <1>4 DEF IInv

LEMMA FailsToBindKeeps == ASSUME NEW s \in Starts, IInv, FailsToBind(s) PROVE IInv'
<1>1. TypeOK'
  BY DEF IInv, TypeOK, FailsToBind, Abort
<1>2. EntriesAreLive'
  BY DEF IInv, EntriesAreLive, FailsToBind, Abort
<1>3. ASSUME NEW t \in Starts PROVE StartInv(t)'
  BY DEF IInv, TypeOK, StartInv, Acquired, Forwarded, Disposed, ClosedOnce, Unseen,
         Judged, Updatable, FailsToBind, Abort
<1>4. WaiterInv'
  BY DEF IInv, WaiterInv, WaiterBusy, FailsToBind, Abort
<1> QED
  BY <1>1, <1>2, <1>3, <1>4 DEF IInv

LEMMA BoundAllKeeps == ASSUME NEW s \in Starts, IInv, BoundAll(s) PROVE IInv'
<1>1. TypeOK'
  BY DEF IInv, TypeOK, BoundAll, Step
<1>2. EntriesAreLive'
  BY DEF IInv, EntriesAreLive, BoundAll, Step
<1>3. ASSUME NEW t \in Starts PROVE StartInv(t)'
  BY DEF IInv, StartInv, Acquired, Forwarded, Disposed, ClosedOnce, Unseen, Judged,
         Updatable, BoundAll, Step
<1>4. WaiterInv'
  BY DEF IInv, WaiterInv, WaiterBusy, BoundAll, Step
<1> QED
  BY <1>1, <1>2, <1>3, <1>4 DEF IInv

LEMMA AttachesKeeps ==
  ASSUME NEW s \in Starts, NEW i \in Rules, IInv, Attaches(s, i) PROVE IInv'
<1>1. TypeOK'
  BY DEF IInv, TypeOK, Attaches, Step
<1>2. EntriesAreLive'
  BY DEF IInv, EntriesAreLive, Attaches, Step
<1>3. ASSUME NEW t \in Starts PROVE StartInv(t)'
  BY DEF IInv, TypeOK, StartInv, Acquired, Forwarded, Disposed, ClosedOnce, Unseen,
         Judged, Updatable, Attaches, Step
<1>4. WaiterInv'
  BY DEF IInv, WaiterInv, WaiterBusy, Attaches, Step
<1> QED
  BY <1>1, <1>2, <1>3, <1>4 DEF IInv

LEMMA AttachesLateKeeps ==
  ASSUME NEW s \in Starts, NEW i \in Rules, IInv, AttachesLate(s, i) PROVE IInv'
<1>1. TypeOK'
  BY DEF IInv, TypeOK, AttachesLate, Abort
<1>2. EntriesAreLive'
  BY DEF IInv, EntriesAreLive, AttachesLate, Abort
<1>3. ASSUME NEW t \in Starts PROVE StartInv(t)'
  BY DEF IInv, TypeOK, StartInv, Acquired, Forwarded, Disposed, ClosedOnce, Unseen,
         Judged, Updatable, AttachesLate, Abort
<1>4. WaiterInv'
  BY DEF IInv, WaiterInv, WaiterBusy, AttachesLate, Abort
<1> QED
  BY <1>1, <1>2, <1>3, <1>4 DEF IInv

LEMMA AnnounceKeeps == ASSUME NEW s \in Starts, IInv, Announce(s) PROVE IInv'
<1>1. TypeOK'
  BY OfferTypeOK DEF IInv, TypeOK, Announce, Step
<1>2. EntriesAreLive'
  BY DEF IInv, EntriesAreLive, Announce, Step
<1>3. ASSUME NEW t \in Starts PROVE StartInv(t)'
  BY DEF IInv, StartInv, Acquired, Forwarded, Disposed, ClosedOnce, Unseen, Judged,
         Updatable, Announce, Step
<1>4. WaiterInv'
  BY DEF IInv, WaiterInv, WaiterBusy, Announce, Step
<1> QED
  BY <1>1, <1>2, <1>3, <1>4 DEF IInv

LEMMA ServeEndsKeeps == ASSUME NEW s \in Starts, IInv, ServeEnds(s) PROVE IInv'
<1>1. TypeOK'
  BY DEF IInv, TypeOK, ServeEnds
<1>2. EntriesAreLive'
  BY DEF IInv, EntriesAreLive, ServeEnds
<1>3. ASSUME NEW t \in Starts PROVE StartInv(t)'
  BY DEF IInv, TypeOK, StartInv, Acquired, Forwarded, Disposed, ClosedOnce, Unseen,
         Judged, Updatable, ServeEnds
<1>4. WaiterInv'
  BY DEF IInv, WaiterInv, WaiterBusy, ServeEnds
<1> QED
  BY <1>1, <1>2, <1>3, <1>4 DEF IInv

LEMMA FindsClosedKeeps == ASSUME NEW s \in Starts, IInv, FindsClosed(s) PROVE IInv'
<1>1. TypeOK'
  BY DEF IInv, TypeOK, FindsClosed, Step
<1>2. EntriesAreLive'
  BY DEF IInv, EntriesAreLive, FindsClosed, Step
<1>3. ASSUME NEW t \in Starts PROVE StartInv(t)'
  BY DEF IInv, StartInv, Acquired, Forwarded, Disposed, ClosedOnce, Unseen, Judged,
         Updatable, FindsClosed, Step
<1>4. WaiterInv'
  BY DEF IInv, WaiterInv, WaiterBusy, FindsClosed, Step
<1> QED
  BY <1>1, <1>2, <1>3, <1>4 DEF IInv

LEMMA ClosesSelfKeeps == ASSUME NEW s \in Starts, IInv, ClosesSelf(s) PROVE IInv'
<1>1. TypeOK'
  BY DEF IInv, TypeOK, ClosesSelf, Step
<1>2. EntriesAreLive'
  BY DEF IInv, EntriesAreLive, ClosesSelf, Step
<1>3. ASSUME NEW t \in Starts PROVE StartInv(t)'
  BY DEF IInv, TypeOK, StartInv, Acquired, Forwarded, Disposed, ClosedOnce, Unseen,
         Judged, Updatable, ClosesSelf, Step
<1>4. WaiterInv'
  BY DEF IInv, WaiterInv, WaiterBusy, ClosesSelf, Step
<1> QED
  BY <1>1, <1>2, <1>3, <1>4 DEF IInv

LEMMA ClosedSelfKeeps == ASSUME NEW s \in Starts, IInv, ClosedSelf(s) PROVE IInv'
<1>1. TypeOK'
  BY DEF IInv, TypeOK, ClosedSelf, Step
<1>2. EntriesAreLive'
  BY DEF IInv, EntriesAreLive, ClosedSelf, Step
<1>3. ASSUME NEW t \in Starts PROVE StartInv(t)'
  BY DEF IInv, StartInv, Acquired, Forwarded, Disposed, ClosedOnce, Unseen, Judged,
         Updatable, ClosedSelf, Step
<1>4. WaiterInv'
  BY DEF IInv, WaiterInv, WaiterBusy, ClosedSelf, Step
<1> QED
  BY <1>1, <1>2, <1>3, <1>4 DEF IInv

LEMMA ReleaseNodeKeeps == ASSUME NEW s \in Starts, IInv, ReleaseNode(s) PROVE IInv'
<1>1. TypeOK'
  BY DEF IInv, TypeOK, ReleaseNode, Step
<1>2. EntriesAreLive'
  BY DEF IInv, EntriesAreLive, ReleaseNode, Step
<1>3. ASSUME NEW t \in Starts PROVE StartInv(t)'
  BY DEF IInv, TypeOK, StartInv, Acquired, Forwarded, Disposed, ClosedOnce, Unseen,
         Judged, Updatable, ReleaseNode, Step
<1>4. WaiterInv'
  BY DEF IInv, WaiterInv, WaiterBusy, ReleaseNode, Step
<1> QED
  BY <1>1, <1>2, <1>3, <1>4 DEF IInv

LEMMA RemoveProcessKeeps ==
  ASSUME NEW s \in Starts, IInv, RemoveProcess(s) PROVE IInv'
<1>1. TypeOK'
  BY DEF IInv, TypeOK, RemoveProcess, Step
<1>2. EntriesAreLive'
  BY DEF IInv, TypeOK, EntriesAreLive, RemoveProcess, Step
<1>3. ASSUME NEW t \in Starts PROVE StartInv(t)'
  BY DEF IInv, TypeOK, StartInv, Acquired, Forwarded, Disposed, ClosedOnce, Unseen,
         Judged, Updatable, RemoveProcess, Step
<1>4. WaiterInv'
  BY DEF IInv, WaiterInv, WaiterBusy, RemoveProcess, Step
<1> QED
  BY <1>1, <1>2, <1>3, <1>4 DEF IInv

LEMMA ReportKeeps == ASSUME NEW s \in Starts, IInv, Report(s) PROVE IInv'
<1>1. TypeOK'
  BY OfferTypeOK DEF IInv, TypeOK, Report, Step, StartInv, Judged
<1>2. EntriesAreLive'
  BY DEF IInv, EntriesAreLive, Report, Step
<1>3. ASSUME NEW t \in Starts PROVE StartInv(t)'
  BY DEF IInv, StartInv, Acquired, Forwarded, Disposed, ClosedOnce, Unseen, Judged,
         Updatable, Report, Step
<1>4. WaiterInv'
  BY DEF IInv, WaiterInv, WaiterBusy, Report, Step
<1> QED
  BY <1>1, <1>2, <1>3, <1>4 DEF IInv

LEMMA AcceptFailsKeeps ==
  ASSUME NEW s \in Starts, NEW i \in Rules, IInv, AcceptFails(s, i) PROVE IInv'
<1>1. TypeOK'
  BY DEF IInv, TypeOK, AcceptFails
<1>2. EntriesAreLive'
  BY DEF IInv, EntriesAreLive, AcceptFails
<1>3. ASSUME NEW t \in Starts PROVE StartInv(t)'
  BY DEF IInv, StartInv, Acquired, Forwarded, Disposed, ClosedOnce, Unseen, Judged,
         Updatable, AcceptFails
<1>4. WaiterInv'
  BY DEF IInv, WaiterInv, WaiterBusy, AcceptFails
<1> QED
  BY <1>1, <1>2, <1>3, <1>4 DEF IInv

LEMMA EmitForwardErrorKeeps ==
  ASSUME NEW s \in Starts, NEW i \in Rules, IInv, EmitForwardError(s, i) PROVE IInv'
<1>1. TypeOK'
  BY OfferTypeOK DEF IInv, TypeOK, EmitForwardError
<1>2. EntriesAreLive'
  BY DEF IInv, EntriesAreLive, EmitForwardError
<1>3. ASSUME NEW t \in Starts PROVE StartInv(t)'
  BY DEF IInv, StartInv, Acquired, Forwarded, Disposed, ClosedOnce, Unseen, Judged,
         Updatable, EmitForwardError
<1>4. WaiterInv'
  BY DEF IInv, WaiterInv, WaiterBusy, EmitForwardError
<1> QED
  BY <1>1, <1>2, <1>3, <1>4 DEF IInv

LEMMA CloseStepKeeps == ASSUME NEW s \in Starts, IInv, CloseStep(s) PROVE IInv'
<1>1. TypeOK'
  <2> DEFINE shut == [i \in Rules |-> Shut(forward[s][i])]
  <2>1. shut \in [Rules -> Resource]
    BY DEF IInv, TypeOK, Shut
  <2>2. \/ forward' = forward
        \/ forward' = [forward EXCEPT ![s] = shut]
    BY DEF CloseStep
  <2> HIDE DEF shut
  <2>3. forward' \in [Starts -> [Rules -> Resource]]
    <3>1. forward \in [Starts -> [Rules -> Resource]]
      BY DEF IInv, TypeOK
    <3>2. [forward EXCEPT ![s] = shut] \in [Starts -> [Rules -> Resource]]
      BY <2>1, <3>1
    <3> QED
      BY <2>2, <3>1, <3>2
  <2>4. \E k \in {"listener", "node", "forwards", "closed"} : closing' = [closing EXCEPT ![s] = k]
    BY DEF CloseStep
  <2>5. closing' \in [Starts -> {"open", "cancel", "listener", "node", "forwards", "closed"}]
    BY <2>4 DEF IInv, TypeOK
  <2>6. listener' \in [Starts -> Resource] /\ node' \in [Starts -> Resource]
    <3>1. /\ listener \in [Starts -> Resource] /\ node \in [Starts -> Resource]
          /\ Shut(listener[s]) \in Resource /\ Shut(node[s]) \in Resource
      BY DEF IInv, TypeOK, Shut
    <3>2. /\ listener' \in {listener, [listener EXCEPT ![s] = Shut(listener[s])]}
          /\ node' \in {node, [node EXCEPT ![s] = Shut(node[s])]}
      BY DEF CloseStep
    <3> QED
      BY <3>1, <3>2
  <2>7. canceled' \in [Starts -> BOOLEAN]
    BY DEF IInv, TypeOK, CloseStep
  <2> QED
    BY <2>3, <2>5, <2>6, <2>7 DEF IInv, TypeOK, CloseStep
<1>2. EntriesAreLive'
  BY DEF IInv, EntriesAreLive, CloseStep
<1>3. ASSUME NEW t \in Starts PROVE StartInv(t)'
  BY DEF IInv, TypeOK, StartInv, Acquired, Forwarded, Disposed, ClosedOnce, Unseen,
         Judged, Updatable, CloseStep, Shut
<1>4. WaiterInv'
  BY DEF IInv, TypeOK, WaiterInv, WaiterBusy, CloseStep
<1> QED
  BY <1>1, <1>2, <1>3, <1>4 DEF IInv

LEMMA CancelStartKeeps == ASSUME NEW s \in Starts, IInv, CancelStart(s) PROVE IInv'
<1>1. TypeOK'
  BY DEF IInv, TypeOK, CancelStart
<1>2. EntriesAreLive'
  BY DEF IInv, EntriesAreLive, CancelStart
<1>3. ASSUME NEW t \in Starts PROVE StartInv(t)'
  BY DEF IInv, StartInv, Acquired, Forwarded, Disposed, ClosedOnce, Unseen, Judged,
         Updatable, CancelStart
<1>4. WaiterInv'
  BY DEF IInv, WaiterInv, WaiterBusy, CancelStart
<1> QED
  BY <1>1, <1>2, <1>3, <1>4 DEF IInv

LEMMA StopCloseKeeps == ASSUME NEW s \in Starts, IInv, StopClose(s) PROVE IInv'
<1>1. TypeOK'
  <2>1. /\ closing \in [Starts -> {"open", "cancel", "listener", "node", "forwards", "closed"}]
        /\ closer \in [Starts -> {"nobody", "self", "stop", "waiter"}]
        /\ aimed \subseteq Starts
    BY DEF IInv, TypeOK
  <2>2. /\ closing' \in {closing, [closing EXCEPT ![s] = "cancel"]}
        /\ closer' \in {closer, [closer EXCEPT ![s] = "stop"]}
        /\ aimed' = aimed \ {s}
    BY DEF StopClose, CloseBy
  <2>3. /\ closing' \in [Starts -> {"open", "cancel", "listener", "node", "forwards", "closed"}]
        /\ closer' \in [Starts -> {"nobody", "self", "stop", "waiter"}]
        /\ aimed' \subseteq Starts
    BY <2>1, <2>2
  <2> QED
    BY <2>3 DEF IInv, TypeOK, StopClose
<1>2. EntriesAreLive'
  BY DEF IInv, EntriesAreLive, StopClose
<1>3. ASSUME NEW t \in Starts PROVE StartInv(t)'
  BY DEF IInv, TypeOK, StartInv, Acquired, Forwarded, Disposed, ClosedOnce, Unseen,
         Judged, Updatable, StopClose, CloseBy
<1>4. WaiterInv'
  <2>1. \A t \in Starts : closer'[t] = "waiter" => closer[t] = "waiter"
    BY DEF IInv, TypeOK, StopClose, CloseBy
  <2>2. \A t \in Starts : closer[t] = "waiter" /\ closing[t] = "closed" => closing'[t] = "closed"
    BY DEF IInv, TypeOK, StopClose, CloseBy
  <2>3. \A t \in Starts : Closed(t) => Closed(t)'
    BY DEF IInv, TypeOK, StopClose, CloseBy
  <2> QED
    BY <2>1, <2>2, <2>3 DEF IInv, TypeOK, WaiterInv, WaiterBusy, StopClose
<1> QED
  BY <1>1, <1>2, <1>3, <1>4 DEF IInv

LEMMA WaiterCloseKeeps == ASSUME NEW s \in Starts, IInv, WaiterClose(s) PROVE IInv'
<1>1. TypeOK'
  <2>1. CASE Closed(s)
    BY <2>1 DEF IInv, TypeOK, WaiterClose, CloseBy
  <2>2. CASE ~Closed(s)
    BY <2>2 DEF IInv, TypeOK, WaiterClose, CloseBy
  <2> QED
    BY <2>1, <2>2
<1>2. EntriesAreLive'
  BY DEF IInv, EntriesAreLive, WaiterClose
<1>3. ASSUME NEW t \in Starts PROVE StartInv(t)'
  BY DEF IInv, TypeOK, WaiterInv, StartInv, Acquired, Forwarded, Disposed, ClosedOnce,
         Unseen, Judged, Updatable, WaiterClose, CloseBy
<1>4. WaiterInv'
  BY DEF IInv, TypeOK, WaiterInv, WaiterClose, CloseBy
<1> QED
  BY <1>1, <1>2, <1>3, <1>4 DEF IInv

LEMMA StopKeeps ==
  ASSUME NEW found \in SUBSET Registered, IInv, Stop(found) PROVE IInv'
<1>1. TypeOK'
  BY DEF IInv, TypeOK, Stop, Registered
<1>2. EntriesAreLive'
  BY DEF IInv, EntriesAreLive, Stop
<1>3. ASSUME NEW t \in Starts PROVE StartInv(t)'
  BY DEF IInv, EntriesAreLive, StartInv, Acquired, Forwarded, Disposed, ClosedOnce,
         Unseen, Judged, Updatable, Stop, Registered
<1>4. WaiterInv'
  BY DEF IInv, WaiterInv, WaiterBusy, Stop
<1> QED
  BY <1>1, <1>2, <1>3, <1>4 DEF IInv

LEMMA StopAllAndWaitKeeps == ASSUME IInv, StopAllAndWait PROVE IInv'
<1>1. TypeOK'
  BY DEF IInv, TypeOK, StopAllAndWait, WaiterGoesOn, Registered
<1>2. EntriesAreLive'
  BY DEF IInv, EntriesAreLive, StopAllAndWait, WaiterGoesOn
<1>3. ASSUME NEW t \in Starts PROVE StartInv(t)'
  BY DEF IInv, EntriesAreLive, StartInv, Acquired, Forwarded, Disposed, ClosedOnce,
         Unseen, Judged, Updatable, StopAllAndWait, WaiterGoesOn, Registered
<1>4. WaiterInv'
  BY DEF WaiterInv, StopAllAndWait, WaiterGoesOn
<1> QED
  BY <1>1, <1>2, <1>3, <1>4 DEF IInv


(* What touches neither a start nor the waiter's books keeps the invariant. *)
LEMMA OutsideKeeps ==
  ASSUME IInv, TypeOK', UNCHANGED <<own, procs, process, resources, relay, stopVars>>,
         \A t \in Starts : Updatable(t)'
  PROVE  IInv'
<1>1. EntriesAreLive'
  BY DEF IInv, EntriesAreLive
<1>2. ASSUME NEW t \in Starts PROVE StartInv(t)'
  BY DEF IInv, StartInv, Acquired, Forwarded, Disposed, ClosedOnce, Unseen, Judged
<1>3. WaiterInv'
  BY DEF IInv, WaiterInv, WaiterBusy
<1> QED
  BY <1>1, <1>2, <1>3 DEF IInv

LEMMA UpdateExitNodeKeeps ==
  ASSUME NEW p \in Profiles, IInv, UpdateExitNode(p) PROVE IInv'
<1>2. TypeOK'
  BY DEF IInv, TypeOK, UpdateExitNode
<1>3. \A t \in Starts : Updatable(t)'
  BY DEF IInv, StartInv, Updatable, UpdateExitNode
<1> QED
  BY <1>2, <1>3, OutsideKeeps DEF UpdateExitNode

LEMMA LogoutKeeps ==
  ASSUME NEW p \in Profiles, IInv, Logout(p) \/ RemoveAll(p)
  PROVE  IInv'
<1>1. TypeOK'
  BY DEF IInv, TypeOK, Logout, RemoveAll
<1>2. \A t \in Starts : Updatable(t)'
  BY DEF IInv, StartInv, Updatable, Logout, RemoveAll
<1> QED
  BY <1>1, <1>2, OutsideKeeps DEF Logout, RemoveAll

LEMMA ReceiveKeeps == ASSUME IInv, Receive PROVE IInv'
<1>1. TypeOK'
  BY DEF IInv, TypeOK, Receive
<1>2. \A t \in Starts : Updatable(t)'
  BY DEF IInv, StartInv, Updatable, Receive
<1> QED
  BY <1>1, <1>2, OutsideKeeps DEF Receive

(* StopAllAndWait goes on. *)
LEMMA WaiterKeeps ==
  ASSUME IInv, WaiterWait \/ WaiterReturn \/ WaiterTimeout
  PROVE  IInv'
<1> USE DEF WaiterWait, WaiterReturn, WaiterTimeout, WaiterGoesOn
<1>1. TypeOK'
  BY DEF IInv, TypeOK
<1>2. EntriesAreLive'
  BY DEF IInv, EntriesAreLive
<1>3. ASSUME NEW t \in Starts PROVE StartInv(t)'
  BY DEF IInv, StartInv, Acquired, Forwarded, Disposed, ClosedOnce, Unseen, Judged,
         Updatable
<1>4. WaiterInv'
  BY DEF IInv, WaiterInv, WaiterBusy
<1> QED
  BY <1>1, <1>2, <1>3, <1>4 DEF IInv

-----------------------------------------------------------------------------
(* The steps of the goroutine are the outcomes above. *)

LEMMA StepOutcomes ==
  ASSUME NEW s \in Starts, Goroutine(s) \/ Up(s)
  PROVE  \/ GiveUp(s) \/ Listens(s) \/ SetListener(s) \/ Passes(s) \/ CreatesNode(s)
         \/ Configures(s) \/ SetNode(s) \/ Commits(s) \/ FailsToBind(s) \/ BoundAll(s)
         \/ \E i \in Rules : BindsRule(s, i) \/ Attaches(s, i) \/ AttachesLate(s, i)
         \/ Announce(s) \/ FindsClosed(s) \/ ClosesSelf(s) \/ ClosedSelf(s)
         \/ ReleaseNode(s) \/ RemoveProcess(s) \/ Report(s)
<1> USE DEF Step
<1>1. Listen(s) => GiveUp(s) \/ Listens(s)
  BY DEF Listen, GiveUp, Listens
<1>2. CheckCanceled(s) => GiveUp(s) \/ Passes(s)
  BY DEF CheckCanceled, GiveUp, Passes
<1>3. NewNode(s) => GiveUp(s) \/ CreatesNode(s)
  BY DEF NewNode, GiveUp, CreatesNode
<1>4. Up(s) => GiveUp(s) \/ Passes(s)
  BY DEF Up, GiveUp, Passes
<1>5. ConfigureExitNode(s) => GiveUp(s) \/ Configures(s)
  BY DEF ConfigureExitNode, GiveUp, Configures
<1>6. CommitStart(s) => GiveUp(s) \/ Commits(s)
  BY DEF CommitStart, GiveUp, Commits
<1>7. BindForward(s) => FailsToBind(s) \/ BoundAll(s) \/ \E i \in Rules : BindsRule(s, i)
  BY DEF BindForward, IsNext, FailsToBind, BoundAll, BindsRule
<1>8. AddForwardCloser(s) => \E i \in Rules : Attaches(s, i) \/ AttachesLate(s, i)
  BY DEF AddForwardCloser, Attaches, AttachesLate
<1>9. CloseSelf(s) => FindsClosed(s) \/ ClosesSelf(s)
  BY DEF CloseSelf, FindsClosed, ClosesSelf
<1> QED
  BY <1>1, <1>2, <1>3, <1>4, <1>5, <1>6, <1>7, <1>8, <1>9 DEF Goroutine

LEMMA GoroutineKeeps ==
  ASSUME NEW s \in Starts, IInv, Goroutine(s) \/ Up(s) PROVE IInv'
BY StepOutcomes, GiveUpKeeps, ListensKeeps, SetListenerKeeps, PassesKeeps,
   CreatesNodeKeeps, ConfiguresKeeps, SetNodeKeeps, CommitsKeeps, FailsToBindKeeps,
   BoundAllKeeps, BindsRuleKeeps, AttachesKeeps, AttachesLateKeeps, AnnounceKeeps,
   FindsClosedKeeps, ClosesSelfKeeps, ClosedSelfKeeps, ReleaseNodeKeeps,
   RemoveProcessKeeps, ReportKeeps

LEMMA NextInv == IInv /\ [Next]_vars => IInv'
<1> SUFFICES ASSUME IInv, [Next]_vars PROVE IInv'
  OBVIOUS
<1>1. CASE UNCHANGED vars
  <2>1. TypeOK'
    BY <1>1 DEF vars, IInv, TypeOK
  <2> QED
    BY <1>1, <2>1, OutsideKeeps DEF vars, IInv, StartInv, Updatable
<1>2. ASSUME NEW p \in Profiles PROVE {procs[p]} \ {NoStart} \in SUBSET Registered
  BY DEF Registered
<1>3. CASE Runs
  BY <1>3, GoroutineKeeps, RefuseKeeps, ReserveKeeps, ServeEndsKeeps, CloseStepKeeps,
     CancelStartKeeps, AcceptFailsKeeps, EmitForwardErrorKeeps, ReceiveKeeps
     DEF Runs
<1>4. CASE Stops
  BY <1>2, <1>4, StopCloseKeeps, StopKeeps DEF Stops
<1>5. CASE Waits
  BY <1>5, WaiterCloseKeeps, StopAllAndWaitKeeps, WaiterKeeps DEF Waits
<1>6. CASE Updates
  BY <1>6, UpdateExitNodeKeeps, LogoutKeeps DEF Updates
<1> QED
  BY <1>1, <1>3, <1>4, <1>5, <1>6 DEF Next

(* IInv is an invariant of the adapter: what is below follows from it.      *)
THEOREM Invariance == Spec => []IInv
BY InitInv, NextInv, PTL DEF Spec

(* Every variable of internal/tailscale.Runner keeps its type.              *)
THEOREM TypeCorrect == Spec => []TypeOK
<1>1. IInv => TypeOK
  BY DEF IInv
<1> QED
  BY <1>1, Invariance, PTL

(* procs and the goroutines agree: no node runs that Stop, ExitNodes and    *)
(* Logout cannot find (removeProcess, runner.go:1051-1060).                 *)
THEOREM EntriesCorrect == Spec => []EntriesAreLive
<1>1. IInv => EntriesAreLive
  BY DEF IInv
<1> QED
  BY <1>1, Invariance, PTL

LEMMA InvReleases == IInv => NoLeak
BY DEF IInv, StartInv, Acquired, Forwarded, Disposed, ClosedOnce, NoLeak, Released

(* However process.close races with setListener, setNode and                *)
(* addForwardCloser, a process that is gone and completely closed keeps no  *)
(* listener, no node and no port forward, however many it was to have.      *)
THEOREM ResourcesReleased == Spec => []NoLeak
BY InvReleases, Invariance, PTL

(* What is announced is whole: listener, node, and every port forward.      *)
THEOREM CommittedWhole == Spec => []CommittedIsWhole
<1>1. IInv => CommittedIsWhole
  <2> SUFFICES ASSUME IInv, NEW s \in Starts, pc[s] \in {"announce", "serve"}, ~Closed(s)
               PROVE  /\ listener[s] = "set" /\ node[s] = "set"
                      /\ \A i \in Rules : forward[s][i] = "set"
    BY DEF CommittedIsWhole
  <2>1. /\ listener[s] \in Resource /\ node[s] \in Resource
        /\ \A i \in Rules : forward[s][i] \in Resource
        /\ Acquired(s) /\ Forwarded(s) /\ Disposed(s)
    BY DEF IInv, TypeOK, StartInv
  <2> QED
    BY <2>1 DEF Acquired, Forwarded, Disposed
<1> QED
  BY <1>1, Invariance, PTL

(* After StopAllAndWait returned nil the processes it found are gone and    *)
(* released, except where a concurrent Stop has not finished closing.       *)
THEOREM WaitReleases == Spec => []WaitedIsReleased
<1>1. IInv => WaitedIsReleased
  <2> SUFFICES ASSUME IInv, waiter = "returned", NEW s \in snapshot
               PROVE  /\ Done(s)
                      /\ closing[s] # "closed" => closer[s] = "stop"
                      /\ closing[s] = "closed" => Released(s)
    BY DEF WaitedIsReleased
  <2>1. s \in Starts /\ Done(s) /\ Closed(s)
    BY DEF IInv, TypeOK, WaiterInv
  <2>2. closing[s] # "closed" => closer[s] = "stop"
    BY DEF IInv, TypeOK, StartInv, ClosedOnce, WaiterInv, WaiterBusy
  <2>3. closing[s] = "closed" => Released(s)
    BY <2>1, InvReleases DEF NoLeak
  <2> QED
    BY <2>1, <2>2, <2>3
<1> QED
  BY <1>1, Invariance, PTL

-----------------------------------------------------------------------------
(* Only Start itself sets an exit node back, and it does so while nobody    *)
(* else can reach its node.                                                 *)
LEMMA StepKeepsUpdates ==
  ASSUME IInv, [Next]_vars, NEW t \in Starts, exit[t] = "update"
  PROVE  exit'[t] = "update"
<1>1. ASSUME NEW s \in Starts, Configures(s) PROVE exit'[t] = "update"
  BY <1>1 DEF IInv, StartInv, Acquired, Updatable, Configures, Step
<1>2. ASSUME NEW s \in Starts, Goroutine(s) \/ Up(s) PROVE exit'[t] = "update"
  BY <1>1, <1>2, StepOutcomes
     DEF GiveUp, Listens, SetListener, Passes, CreatesNode, SetNode, Commits,
         FailsToBind, BoundAll, BindsRule, Attaches, AttachesLate, Announce,
         FindsClosed, ClosesSelf, ClosedSelf, ReleaseNode, RemoveProcess, Report
<1>3. ASSUME NEW p \in Profiles, UpdateExitNode(p) PROVE exit'[t] = "update"
  BY <1>3 DEF UpdateExitNode
<1> QED
  BY <1>2, <1>3 DEF Next, Runs, Stops, Waits, Updates, vars, Refuse, Reserve, ServeEnds,
                    CloseStep, CancelStart,
                    StopClose, WaiterClose, AcceptFails, EmitForwardError, Stop, Logout,
                    RemoveAll, StopAllAndWait, WaiterWait, WaiterReturn, WaiterTimeout,
                    WaiterGoesOn, Receive

(* An exit node chosen for a running profile is never undone by the start   *)
(* that is still under way (UpdateExitNode, configureExitNode).             *)
THEOREM UpdatesStay == Spec => UpdatesStick
<1>1. IInv /\ [Next]_vars =>
        [\A s \in Starts : exit[s] = "update" => exit'[s] = "update"]_vars
  BY StepKeepsUpdates
<1> QED
  BY <1>1, Invariance, PTL DEF Spec, UpdatesStick

-----------------------------------------------------------------------------
(* The refinement of Backend: its variables phase and stopped are mapped to *)
(* these in TailscaleRunner.                                                *)

phaseOf == [s \in Starts |-> Phase(s)]
closedStarts == {s \in Starts : Closed(s)}

USE DEF Phase, phaseOf, closedStarts

LEMMA InitMaps == Init => Contract!Init
BY DEF Init, Contract!Init

(* What happens between two points the contract names is a stutter. *)
LEMMA StartStutters ==
  ASSUME NEW s \in Starts, IInv,
         \/ GiveUp(s) \/ Listens(s) \/ SetListener(s) \/ Passes(s) \/ CreatesNode(s)
         \/ Configures(s) \/ SetNode(s) \/ FailsToBind(s) \/ BoundAll(s)
         \/ \E i \in Rules : BindsRule(s, i) \/ Attaches(s, i) \/ AttachesLate(s, i)
         \/ FindsClosed(s) \/ ClosedSelf(s) \/ ReleaseNode(s) \/ ServeEnds(s)
  PROVE  UNCHANGED Contract!vars
<1> USE DEF Step, Abort, GiveUp, Listens, SetListener, Passes, CreatesNode, Configures,
        SetNode, FailsToBind, BoundAll, BindsRule, Attaches, AttachesLate, FindsClosed,
        ClosedSelf, ReleaseNode, ServeEnds
<1>2. \A t \in Starts \ {s} : pc'[t] = pc[t] /\ verdict'[t] = verdict[t]
  BY DEF IInv, TypeOK
<1>3. Phase(s)' = Phase(s)
  BY DEF IInv, TypeOK, StartInv, Judged
<1> QED
  BY <1>2, <1>3 DEF Contract!vars

LEMMA CallersStutter ==
  ASSUME IInv,
         \/ \E s \in Starts : CloseStep(s) \/ CancelStart(s)
         \/ \E s \in Starts, i \in Rules : AcceptFails(s, i)
         \/ \E p \in Profiles : UpdateExitNode(p) \/ Logout(p) \/ RemoveAll(p)
         \/ \E found \in SUBSET Registered : Stop(found)
         \/ StopAllAndWait \/ WaiterWait \/ WaiterReturn \/ WaiterTimeout
  PROVE  UNCHANGED Contract!vars
<1> USE DEF CloseStep, CancelStart, AcceptFails, UpdateExitNode, Logout, RemoveAll, Stop,
        StopAllAndWait, WaiterGoesOn, WaiterWait, WaiterReturn, WaiterTimeout
<1>2. \A t \in Starts : Closed(t)' = Closed(t)
  BY DEF IInv, TypeOK
<1> QED
  BY <1>2 DEF Contract!vars

LEMMA RefuseMaps == ASSUME NEW s \in Starts, IInv, Refuse(s) PROVE Contract!Refuse(s)
<1>1. phaseOf' = [phaseOf EXCEPT ![s] = "gone"]
  BY DEF IInv, TypeOK, Refuse, Step
<1> QED
  BY <1>1 DEF Contract!Refuse, Refuse, Step

LEMMA ReserveMaps ==
  ASSUME NEW s \in Starts, IInv, Reserve(s)
  PROVE  Contract!Reserve(s, ProfileOf[s])
<1>1. phaseOf' = [phaseOf EXCEPT ![s] = "reserved"]
  BY DEF IInv, TypeOK, StartInv, Judged, Reserve, Step
<1> QED
  BY <1>1 DEF Contract!Reserve, Reserve, Step

LEMMA CommitMaps == ASSUME NEW s \in Starts, IInv, Commits(s) PROVE Contract!Commit(s)
<1>1. phaseOf' = [phaseOf EXCEPT ![s] = "committed"]
  BY DEF IInv, TypeOK, StartInv, Judged, Commits, Step
<1>2. phaseOf[s] = "reserved"
  BY DEF IInv, StartInv, Judged, Commits, Step
<1> QED
  BY <1>1, <1>2 DEF Contract!Commit, Commits

LEMMA AnnounceMaps ==
  ASSUME NEW s \in Starts, IInv, Announce(s) PROVE Contract!Announce(s)
<1>1. phaseOf' = [phaseOf EXCEPT ![s] = "serving"]
  BY DEF IInv, TypeOK, Announce, Step
<1>2. phaseOf[s] = "committed"
  BY DEF IInv, StartInv, Judged, Announce, Step
<1> QED
  BY <1>1, <1>2 DEF Contract!Announce, Contract!Offer, Announce, Offer

(* Only a start that served says that it stopped. *)
LEMMA RemoveMaps ==
  ASSUME NEW s \in Starts, IInv, RemoveProcess(s)
  PROVE  Contract!Leave(s) \/ Contract!Abandon(s)
<1>1. phaseOf' = [phaseOf EXCEPT ![s] =
        IF verdict[s] \in {"none", "aborted"} THEN "gone" ELSE "leaving"]
  BY DEF IInv, TypeOK, RemoveProcess, Step
<1>2. closedStarts' = closedStarts \cup {s}
  <2>1. Closed(s)
    BY DEF IInv, StartInv, ClosedOnce, RemoveProcess, Step
  <2> QED
    BY <2>1 DEF RemoveProcess
<1>3. procs' = Contract!Without(procs, s)
  <2>1. \A p \in Profiles : procs[p] = s => p = ProfileOf[s]
    BY DEF IInv, EntriesAreLive
  <2> QED
    BY <2>1 DEF IInv, TypeOK, RemoveProcess, Contract!Without
<1>4. phaseOf[s] = IF verdict[s] = "none" THEN "reserved"
                 ELSE IF verdict[s] = "aborted" THEN "committed" ELSE "serving"
  BY DEF IInv, TypeOK, RemoveProcess, Step
<1>5. UNCHANGED events
  BY DEF RemoveProcess
<1>6. CASE verdict[s] \in {"none", "aborted"}
  BY <1>1, <1>2, <1>3, <1>4, <1>5, <1>6 DEF Contract!Abandon
<1>7. CASE verdict[s] \notin {"none", "aborted"}
  BY <1>1, <1>2, <1>3, <1>4, <1>5, <1>7 DEF Contract!Leave
<1> QED
  BY <1>6, <1>7

LEMMA ReportMaps == ASSUME NEW s \in Starts, IInv, Report(s) PROVE Contract!Report(s)
<1>1. phaseOf' = [phaseOf EXCEPT ![s] = "gone"]
  BY DEF IInv, TypeOK, Report, Step
<1>2. verdict[s] \in {"stopped", "error"}
  BY DEF IInv, StartInv, Judged, Report, Step
<1> QED
  BY <1>1, <1>2 DEF Contract!Report, Contract!Offer, Report, Step, Offer

(* An error of a relay comes from a process that has committed, and after   *)
(* its entry has gone only from one that was closed.                        *)
LEMMA FaultMaps ==
  ASSUME NEW s \in Starts, NEW i \in Rules, IInv, EmitForwardError(s, i)
  PROVE  Contract!Fault(s)
<1>1. relay[s][i] # "none" /\ forward[s][i] \in {"set", "shut"}
  BY DEF IInv, StartInv, Forwarded, EmitForwardError
<1>2. pc[s] \notin {"new"} \cup BeforeCommit
  BY <1>1 DEF IInv, StartInv, Forwarded
<1>3. pc[s] \in {"report", "gone"} => Closed(s)
  BY <1>1 DEF IInv, StartInv, ClosedOnce
<1>4. pc[s] \in Ending => verdict[s] # "none"
  BY <1>1 DEF IInv, StartInv, Judged
<1>5. phaseOf[s] \in {"committed", "serving"} \/ (phaseOf[s] \in {"leaving", "gone"} /\ s \in closedStarts)
  BY <1>2, <1>3, <1>4 DEF IInv, TypeOK
<1> QED
  BY <1>5 DEF Contract!Fault, Contract!Offer, EmitForwardError, Offer

(* The one effective close() of a process is the contract's Stop. *)
LEMMA CloseMaps ==
  ASSUME NEW s \in Starts, IInv, ClosesSelf(s) \/ StopClose(s) \/ WaiterClose(s)
  PROVE  Contract!Stop({s}) \/ UNCHANGED Contract!vars
<1>1. phaseOf' = phaseOf
  BY DEF IInv, TypeOK, ClosesSelf, StopClose, WaiterClose, Step
<1>2. UNCHANGED <<procs, events>>
  BY DEF ClosesSelf, StopClose, WaiterClose
<1>3. CASE Closed(s)
  <2>1. closedStarts' = closedStarts
    BY <1>3 DEF ClosesSelf, StopClose, WaiterClose, CloseBy
  <2> QED
    BY <1>1, <1>2, <2>1 DEF Contract!vars
<1>4. CASE ~Closed(s)
  <2>1. closedStarts' = closedStarts \cup {s}
    BY DEF IInv, TypeOK, ClosesSelf, StopClose, WaiterClose, CloseBy
  <2>2. pc[s] \notin {"new", "gone", "report"}
    BY <1>4 DEF IInv, StartInv, Unseen, ClosedOnce, WaiterInv, ClosesSelf, Step,
                StopClose, WaiterClose
  <2>3. phaseOf[s] \in {"reserved", "committed", "serving"}
    BY <2>2
  <2> QED
    BY <1>1, <1>2, <2>1, <2>3 DEF Contract!Stop
<1> QED
  BY <1>3, <1>4

LEMMA ReceiveMaps == ASSUME IInv, Receive PROVE Contract!Receive
BY DEF Contract!Receive, Receive

LEMMA StepMaps == IInv /\ [Next]_vars => [Contract!Next]_Contract!vars
<1> SUFFICES ASSUME IInv, [Next]_vars PROVE Contract!Next \/ UNCHANGED Contract!vars
  OBVIOUS
<1>1. CASE UNCHANGED vars
  BY <1>1 DEF vars, Contract!vars
<1>2. ASSUME NEW s \in Starts, Goroutine(s) \/ Up(s)
      PROVE  Contract!Next \/ UNCHANGED Contract!vars
  BY <1>2, StepOutcomes, StartStutters, CommitMaps, AnnounceMaps, CloseMaps, RemoveMaps,
     ReportMaps
     DEF Contract!Next
<1>3. ASSUME NEW s \in Starts,
             \/ Refuse(s) \/ Reserve(s) \/ ServeEnds(s) \/ CloseStep(s)
             \/ CancelStart(s) \/ StopClose(s) \/ WaiterClose(s)
      PROVE  Contract!Next \/ UNCHANGED Contract!vars
  BY <1>3, RefuseMaps, ReserveMaps, StartStutters, CallersStutter, CloseMaps
     DEF Contract!Next
<1>4. ASSUME NEW s \in Starts, NEW i \in Rules, AcceptFails(s, i) \/ EmitForwardError(s, i)
      PROVE  Contract!Next \/ UNCHANGED Contract!vars
  BY <1>4, CallersStutter, FaultMaps DEF Contract!Next
<1>5. ASSUME NEW p \in Profiles PROVE {procs[p]} \ {NoStart} \in SUBSET Registered
  BY DEF Registered
<1>6. CASE Runs
  BY <1>2, <1>3, <1>4, <1>6, ReceiveMaps DEF Runs, Contract!Next
<1>7. CASE Stops \/ Waits \/ Updates
  BY <1>3, <1>5, <1>7, CallersStutter DEF Stops, Waits, Updates
<1> QED
  BY <1>1, <1>6, <1>7 DEF Next

(* The Tailscale adapter implements the contract of a runtime adapter: one  *)
(* entry per profile, a start stopped before its commit point never         *)
(* reported, the entry gone before the final event, and errors of port      *)
(* forwards while it runs or after it was closed (runner.go:258-365).       *)
THEOREM RunnerImplementsBackend == Spec => ImplementsBackend
<1>1. Spec => Contract!Init /\ [][Contract!Next]_Contract!vars
  BY InitMaps, StepMaps, Invariance, PTL DEF Spec
<1> QED
  BY <1>1 DEF ImplementsBackend, Contract!Spec

-----------------------------------------------------------------------------
(* The contract itself: its table and its phases agree, for any number of   *)
(* profiles and starts.                                                     *)

USE MachineAssumption DEF Promised!BackendAssumption

LEMMA PromiseTyped ==
  ASSUME NEW ch \in Seq(Promised!Event), NEW e \in Promised!Event
  PROVE  Promised!Offer(ch, e) \in Seq(Promised!Event)
BY DEF Promised!Offer

(* Steps that leave the table alone and no start's phase between live and   *)
(* not live.                                                                *)
LEMMA PromisedFrame ==
  ASSUME Promised!TypeOK, Promised!TableIsLive, UNCHANGED table,
         \A s \in Promises : phase'[s] \in {"reserved", "committed", "serving"} <=>
                           phase[s] \in {"reserved", "committed", "serving"}
  PROVE  Promised!TableIsLive'
BY DEF Promised!TypeOK, Promised!TableIsLive

(* A start takes an entry that nobody has. *)
LEMMA PromisedReserve ==
  ASSUME Promised!TypeOK, Promised!TableIsLive,
         NEW s \in Promises, NEW p \in Owners, Promised!Reserve(s, p)
  PROVE  Promised!TypeOK' /\ Promised!TableIsLive'
<1>1. Promised!TypeOK'
  BY DEF Promised!TypeOK, Promised!Reserve, Promised!Phases
<1>2. /\ phase'[s] = "reserved" /\ \A t \in Promises \ {s} : phase'[t] = phase[t]
      /\ table'[p] = s /\ \A q \in Owners \ {p} : table'[q] = table[q]
  BY DEF Promised!TypeOK, Promised!Reserve
<1>3. \A q \in Owners : table[q] # s
  BY DEF Promised!TableIsLive, Promised!Reserve
<1>4. Promised!TableIsLive'
  <2>1. \A q \in Owners : table'[q] # NoStart =>
          phase'[table'[q]] \in {"reserved", "committed", "serving"}
    BY <1>2, <1>3 DEF Promised!TypeOK, Promised!TableIsLive
  <2>2. \A t \in Promises : phase'[t] \in {"reserved", "committed", "serving"} =>
          \E q \in Owners : table'[q] = t
    BY <1>2 DEF Promised!TypeOK, Promised!TableIsLive, Promised!Reserve
  <2>3. \A q, r \in Owners : table'[q] # NoStart /\ table'[q] = table'[r] => q = r
    BY <1>2, <1>3 DEF Promised!TableIsLive
  <2> QED
    BY <2>1, <2>2, <2>3 DEF Promised!TableIsLive
<1> QED
  BY <1>1, <1>4

(* A start that fails or ends takes its own entry along, and no other. *)
LEMMA PromisedGone ==
  ASSUME Promised!TypeOK, Promised!TableIsLive,
         NEW s \in Promises, Promised!Abandon(s) \/ Promised!Leave(s)
  PROVE  Promised!TypeOK' /\ Promised!TableIsLive'
<1>1. /\ phase'[s] \in {"leaving", "gone"} /\ \A t \in Promises \ {s} : phase'[t] = phase[t]
      /\ \A q \in Owners : table'[q] = IF table[q] = s THEN NoStart ELSE table[q]
  BY DEF Promised!TypeOK, Promised!Abandon, Promised!Leave, Promised!Without
<1>2. Promised!TypeOK'
  <2>1. table' \in [Owners -> Promises \cup {NoStart}]
    BY DEF Promised!TypeOK, Promised!Abandon, Promised!Leave, Promised!Without
  <2> QED
    BY <2>1 DEF Promised!TypeOK, Promised!Abandon, Promised!Leave, Promised!Phases
<1>3. Promised!TableIsLive'
  <2>1. \A q \in Owners : table'[q] # NoStart =>
          phase'[table'[q]] \in {"reserved", "committed", "serving"}
    BY <1>1 DEF Promised!TypeOK, Promised!TableIsLive
  <2>2. \A t \in Promises : phase'[t] \in {"reserved", "committed", "serving"} =>
          \E q \in Owners : table'[q] = t
    BY <1>1 DEF Promised!TableIsLive
  <2>3. \A q, r \in Owners : table'[q] # NoStart /\ table'[q] = table'[r] => q = r
    BY <1>1 DEF Promised!TableIsLive
  <2> QED
    BY <2>1, <2>2, <2>3 DEF Promised!TableIsLive
<1> QED
  BY <1>2, <1>3

LEMMA PromisedOther ==
  ASSUME Promised!TypeOK, Promised!TableIsLive,
         \/ \E s \in Promises :
              \/ Promised!Refuse(s) \/ Promised!Commit(s) \/ Promised!Announce(s)
              \/ Promised!Report(s) \/ Promised!Fault(s)
         \/ \E found \in SUBSET Promises : Promised!Stop(found)
         \/ Promised!Receive \/ UNCHANGED Promised!vars
  PROVE  Promised!TypeOK' /\ Promised!TableIsLive'
<1>1. /\ UNCHANGED table
      /\ \A s \in Promises : phase'[s] \in {"reserved", "committed", "serving"} <=>
                           phase[s] \in {"reserved", "committed", "serving"}
  BY DEF Promised!TypeOK, Promised!Refuse, Promised!Commit, Promised!Announce,
         Promised!Report, Promised!Fault, Promised!Stop, Promised!Receive,
         Promised!vars
<1>2. phase' \in [Promises -> Promised!Phases] /\ stopped' \in SUBSET Promises
  BY DEF Promised!TypeOK, Promised!Refuse, Promised!Commit, Promised!Announce,
         Promised!Report, Promised!Fault, Promised!Stop, Promised!Receive,
         Promised!vars, Promised!Phases
<1>3. channel' \in Seq(Promised!Event)
  <2>1. \A s \in Promises, type \in {"started", "stopped", "error"} :
          Promised!Offer(channel, [start |-> s, type |-> type]) \in Seq(Promised!Event)
    BY PromiseTyped DEF Promised!TypeOK, Promised!Event
  <2>2. CASE \E s \in Promises :
               Promised!Announce(s) \/ Promised!Report(s) \/ Promised!Fault(s)
    BY <2>1, <2>2 DEF Promised!Announce, Promised!Report, Promised!Fault
  <2>3. CASE Promised!Receive
    BY <2>3 DEF Promised!Receive, Promised!TypeOK
  <2>4. CASE UNCHANGED channel
    BY <2>4 DEF Promised!TypeOK
  <2> QED
    BY <2>2, <2>3, <2>4
       DEF Promised!Refuse, Promised!Commit, Promised!Stop, Promised!vars
<1> QED
  BY <1>1, <1>2, <1>3, PromisedFrame DEF Promised!TypeOK

(* An adapter that keeps to the contract has in its table exactly the       *)
(* starts that are live, each under one profile: Running, Stop and StopAll  *)
(* miss none and find no other (procs of both adapters).                    *)
THEOREM TableLive == Promised!Spec => [](Promised!TypeOK /\ Promised!TableIsLive)
<1>1. Promised!Init => Promised!TypeOK /\ Promised!TableIsLive
  BY DEF Promised!Init, Promised!TypeOK, Promised!TableIsLive, Promised!Phases
<1>2. Promised!TypeOK /\ Promised!TableIsLive /\ [Promised!Next]_Promised!vars =>
        (Promised!TypeOK /\ Promised!TableIsLive)'
  BY PromisedReserve, PromisedGone, PromisedOther DEF Promised!Next
<1> QED
  BY <1>1, <1>2, PTL DEF Promised!Spec

-----------------------------------------------------------------------------
(* Exit nodes: a user who lets the node choose has chosen none himself.     *)

ChoiceInv == Choice!TypeOK /\ (chosen.auto => chosen.node = Choice!None)

LEMMA InitChoice == Choice!Init => ChoiceInv
<1> SUFFICES ASSUME Choice!Init PROVE ChoiceInv
  OBVIOUS
<1>1. \E known \in SUBSET Peers : peers \in [known -> SUBSET Choice!Attributes]
  <2>1. {} \in SUBSET Peers /\ peers \in [{} -> SUBSET Choice!Attributes]
    BY DEF Choice!Init
  <2> QED
    BY <2>1
<1> QED
  BY <1>1 DEF Choice!Init, ChoiceInv, Choice!TypeOK, Choice!NoPrefs

(* What configureExitNode sends is what the profile says.                   *)
LEMMA WantedIsChosen ==
  ASSUME ChoiceInv, NEW wanted \in Choice!Wanted(chosen, peers)
  PROVE  /\ wanted \in [auto : BOOLEAN, id : Choice!Ids \cup {Choice!None},
                        ip : Choice!IPs \cup {Choice!None}]
         /\ wanted.auto = chosen.auto
         /\ {wanted.id, wanted.ip} = {chosen.node, Choice!None}
<1> USE DEF Choice!NoPrefs
<1>0. PICK known \in SUBSET Peers : peers \in [known -> SUBSET Choice!Attributes]
  BY DEF ChoiceInv, Choice!TypeOK
<1>1. CASE chosen.auto
  BY <1>1 DEF ChoiceInv, Choice!TypeOK, Choice!Wanted
<1>2. CASE ~chosen.auto /\ chosen.node = Choice!None
  <2>1. wanted = Choice!NoPrefs
    BY <1>2 DEF Choice!Wanted
  <2>2. chosen.auto = FALSE
    BY <1>2 DEF ChoiceInv, Choice!TypeOK
  <2> QED
    BY <1>2, <2>1, <2>2
<1>3. CASE /\ ~chosen.auto /\ chosen.node # Choice!None
           /\ Choice!StableID(chosen.node, peers)
  <2>1. chosen.node \in Choice!Ids
    BY <1>0, <1>3 DEF Choice!StableID, Choice!Ids
  <2> QED
    BY <1>3, <2>1 DEF ChoiceInv, Choice!TypeOK, Choice!Wanted
<1>4. CASE /\ ~chosen.auto /\ chosen.node # Choice!None
           /\ ~Choice!StableID(chosen.node, peers)
  <2>1. Choice!ValidIP(chosen.node, peers)
    BY <1>4 DEF Choice!Wanted
  <2>2. chosen.node \in Choice!IPs
    BY <1>0, <2>1 DEF Choice!ValidIP, Choice!IPs
  <2> QED
    BY <1>4, <2>1, <2>2 DEF ChoiceInv, Choice!TypeOK, Choice!Wanted
<1> QED
  BY <1>1, <1>2, <1>3, <1>4

LEMMA OfferedNames ==
  ASSUME Choice!TypeOK
  PROVE  Choice!Offered(peers) \subseteq Choice!Ids \cup Choice!IPs
BY DEF Choice!TypeOK, Choice!Offered, Choice!Name, Choice!Ids, Choice!IPs

LEMMA NextChoice == ChoiceInv /\ [Choice!Next]_Choice!vars => ChoiceInv'
<1> SUFFICES ASSUME ChoiceInv, [Choice!Next]_Choice!vars PROVE ChoiceInv'
  OBVIOUS
<1>1. CASE Choice!PeerChanges
  <2>1. PICK known \in SUBSET Peers : peers \in [known -> SUBSET Choice!Attributes]
    BY DEF ChoiceInv, Choice!TypeOK
  <2>2. \E after \in SUBSET Peers : peers' \in [after -> SUBSET Choice!Attributes]
    <3>1. ASSUME NEW p \in Peers,
                 peers' = [q \in DOMAIN peers \cup {p} |-> IF q = p THEN {} ELSE peers[q]]
          PROVE  peers' \in [known \cup {p} -> SUBSET Choice!Attributes]
      BY <2>1, <3>1
    <3>2. ASSUME NEW p, peers' = [q \in DOMAIN peers \ {p} |-> peers[q]]
          PROVE  peers' \in [known \ {p} -> SUBSET Choice!Attributes]
      BY <2>1, <3>2
    <3>3. ASSUME NEW p \in DOMAIN peers, NEW a \in Choice!Attributes,
                 peers' = [peers EXCEPT ![p] = IF a \in @ THEN @ \ {a} ELSE @ \cup {a}]
          PROVE  peers' \in [known -> SUBSET Choice!Attributes]
      BY <2>1, <3>3
    <3>4. CASE \E p \in Peers \ DOMAIN peers :
                 peers' = [q \in DOMAIN peers \cup {p} |-> IF q = p THEN {} ELSE peers[q]]
      <4>1. PICK p \in Peers :
              peers' = [q \in DOMAIN peers \cup {p} |-> IF q = p THEN {} ELSE peers[q]]
        BY <3>4
      <4>2. known \cup {p} \in SUBSET Peers
        BY <2>1
      <4> QED
        BY <3>1, <4>1, <4>2
    <3>5. CASE \E p \in DOMAIN peers : peers' = [q \in DOMAIN peers \ {p} |-> peers[q]]
      <4>1. PICK p : peers' = [q \in DOMAIN peers \ {p} |-> peers[q]]
        BY <3>5
      <4>2. known \ {p} \in SUBSET Peers
        BY <2>1
      <4> QED
        BY <3>2, <4>1, <4>2
    <3> QED
      BY <1>1, <2>1, <3>3, <3>4, <3>5 DEF Choice!PeerChanges
  <2> QED
    BY <1>1, <2>2 DEF ChoiceInv, Choice!TypeOK, Choice!PeerChanges
<1>2. CASE Choice!ListExitNodes
  BY <1>2, OfferedNames DEF ChoiceInv, Choice!TypeOK, Choice!ListExitNodes
<1>3. CASE Choice!Choose
  BY <1>3 DEF ChoiceInv, Choice!TypeOK, Choice!Choose
<1>4. CASE Choice!Configure
  <2>1. prefs' \in [auto : BOOLEAN, id : Choice!Ids \cup {Choice!None},
                    ip : Choice!IPs \cup {Choice!None}] /\ failed' \in BOOLEAN
    BY <1>4, WantedIsChosen DEF ChoiceInv, Choice!TypeOK, Choice!Configure
  <2> QED
    BY <1>4, <2>1 DEF ChoiceInv, Choice!TypeOK, Choice!Configure
<1>5. CASE UNCHANGED Choice!vars
  BY <1>5 DEF ChoiceInv, Choice!TypeOK, Choice!vars
<1> QED
  BY <1>1, <1>2, <1>3, <1>4, <1>5 DEF Choice!Next

LEMMA OfferedAccepted == Choice!TypeOK => Choice!OfferedIsAccepted
BY DEF Choice!OfferedIsAccepted, Choice!Offered, Choice!Name, Choice!Wanted,
       Choice!StableID, Choice!ValidIP

LEMMA ConfigureIsChosen ==
  ASSUME ChoiceInv, [Choice!Next]_Choice!vars,
         prefs' # prefs \/ (failed /\ ~failed')
  PROVE  prefs'.auto = chosen.auto /\ {prefs'.id, prefs'.ip} = {chosen.node, Choice!None}
<1>1. \E wanted \in Choice!Wanted(chosen, peers) : prefs' = wanted
  <2>1. UNCHANGED <<prefs, failed>> \/ Choice!Configure
    BY DEF Choice!Next, Choice!vars, Choice!PeerChanges, Choice!ListExitNodes, Choice!Choose
  <2> QED
    BY <2>1 DEF Choice!Configure
<1> QED
  BY <1>1, WantedIsChosen

(* For any peers: whoever joins, leaves or changes between the look at the  *)
(* list, the choice and the configuration, a configuration that succeeds    *)
(* leaves the node with the chosen exit node (configureExitNode).           *)
THEOREM ExitNodesKept ==
  Choice!Spec => [](Choice!TypeOK /\ Choice!OfferedIsAccepted) /\ Choice!ConfiguredAsChosen
<1>1. ChoiceInv => Choice!TypeOK /\ Choice!OfferedIsAccepted
  BY OfferedAccepted DEF ChoiceInv
<1>2. ChoiceInv /\ [Choice!Next]_Choice!vars =>
        [prefs' # prefs \/ (failed /\ ~failed') =>
           /\ prefs'.auto = chosen.auto
           /\ {prefs'.id, prefs'.ip} = {chosen.node, Choice!None}]_Choice!vars
  BY ConfigureIsChosen
<1> QED
  BY <1>1, <1>2, InitChoice, NextChoice, PTL DEF Choice!Spec, Choice!ConfiguredAsChosen

-----------------------------------------------------------------------------
(* The notices: what is said of the approval of a device is true, for      *)
(* every set of login URLs and every delay.                                *)

(* What was asked, after one more notice.                                   *)

LEMMA AskedAfter ==
  ASSUME NEW said \in Seq(Login!Kinds \ {"none"}), NEW k \in Login!Kinds \ {"none"}
  PROVE  /\ Append(said, k) \in Seq(Login!Kinds \ {"none"})
         /\ k = "machineAuth" => Login!Asked(Append(said, k))
         /\ k = "running" => ~Login!Asked(Append(said, k))
         /\ k \notin {"machineAuth", "running"} => (Login!Asked(Append(said, k)) <=> Login!Asked(said))
<1> DEFINE after == Append(said, k)
<1>1. /\ after \in Seq(Login!Kinds \ {"none"})
      /\ Len(said) \in Nat
      /\ Len(after) = Len(said) + 1
      /\ after[Len(said) + 1] = k
      /\ \A i \in 1..Len(said) : after[i] = said[i]
  OBVIOUS
<1> HIDE DEF after
<1>2. ASSUME k = "machineAuth" PROVE Login!Asked(after)
  <2>1. /\ Len(after) \in 1..Len(after)
        /\ after[Len(after)] = "machineAuth"
        /\ \A i \in Len(after)..Len(after) : after[i] # "running"
    BY <1>1, <1>2
  <2>2. QED
    BY <2>1 DEF Login!Asked
<1>3. ASSUME k = "running" PROVE ~Login!Asked(after)
  <2>1. \A j \in 1..Len(after) : Len(after) \in j..Len(after)
    BY <1>1
  <2>2. QED
    BY <1>1, <1>3, <2>1 DEF Login!Asked
<1>4. ASSUME k \notin {"machineAuth", "running"}
      PROVE Login!Asked(after) <=> Login!Asked(said)
  <2>1. ASSUME Login!Asked(after) PROVE Login!Asked(said)
    <3>1. PICK j \in 1..Len(after) :
            after[j] = "machineAuth" /\ \A i \in j..Len(after) : after[i] # "running"
      BY <2>1 DEF Login!Asked
    <3>2. j \in 1..Len(said)
      BY <1>1, <1>4, <3>1
    <3>3. \A i \in j..Len(said) : i \in j..Len(after) /\ i \in 1..Len(said)
      BY <1>1, <3>2
    <3>4. QED
      BY <1>1, <3>1, <3>2, <3>3 DEF Login!Asked
  <2>2. ASSUME Login!Asked(said) PROVE Login!Asked(after)
    <3>1. PICK j \in 1..Len(said) :
            said[j] = "machineAuth" /\ \A i \in j..Len(said) : said[i] # "running"
      BY <2>2 DEF Login!Asked
    <3>2. j \in 1..Len(after)
      BY <1>1
    <3>3. \A i \in j..Len(after) : after[i] # "running"
      <4>1. TAKE i \in j..Len(after)
      <4>2. CASE i \in j..Len(said)
        BY <1>1, <3>1, <4>2
      <4>3. CASE i = Len(after)
        BY <1>1, <1>4, <4>3
      <4>4. QED
        BY <1>1, <4>2, <4>3
    <3>4. QED
      BY <1>1, <3>1, <3>2, <3>3 DEF Login!Asked
  <2>3. QED
    BY <2>1, <2>2
<1>5. QED
  BY <1>1, <1>2, <1>3, <1>4 DEF after

-----------------------------------------------------------------------------
(* What the two halves of emitNoticeAt do.                                  *)

LEMMA Emits ==
  ASSUME Login!NoticeAssumption, Login!NoticesInv, NEW c \in Login!Callers,
         NEW n \in Login!Notice,
         Login!EmitNotice(c, n), n.kind = "running" => n.key = "Running"
  PROVE  /\ inHand' \in [Login!Callers -> Login!Notice]
         /\ \A d \in Login!Callers \ {c} : inHand'[d] = inHand[d]
         /\ inHand'[c] \in {Login!None, n}
         /\ {lastKey', pendingKey'} \subseteq Login!States \cup URLs \cup {"none", "key ignored"}
         /\ pendingSince' \in 0..MaxTime
         /\ machineAuthNotified' \in BOOLEAN
         /\ lastKey' \in {lastKey, n.key}
         /\ lastKey' # lastKey => inHand'[c] = n
<1>1. /\ Login!None \in Login!Notice
      /\ inHand \in [Login!Callers -> Login!Notice]
      /\ {lastKey, pendingKey} \subseteq Login!States \cup URLs \cup {"none", "key ignored"}
      /\ machineAuthNotified \in BOOLEAN
      /\ n.key \in Login!States \cup URLs \cup {"none", "key ignored"}
  BY DEF Login!NoticesInv, Login!TypeOK, Login!None, Login!Notice, Login!Kinds
<1>0. clock \in 0..MaxTime /\ pendingSince \in 0..MaxTime /\ 0 \in 0..MaxTime
  <2>1. MaxTime \in Nat
    BY DEF Login!NoticeAssumption
  <2>2. clock \in 0..MaxTime /\ pendingSince \in 0..MaxTime
    BY DEF Login!NoticesInv, Login!TypeOK
  <2>3. QED
    BY <2>1, <2>2
<1>2. \/ inHand' = [inHand EXCEPT ![c] = Login!None] /\ lastKey' = lastKey
      \/ inHand' = [inHand EXCEPT ![c] = n]
  BY DEF Login!EmitNotice
<1>3. /\ inHand' \in [Login!Callers -> Login!Notice]
      /\ \A d \in Login!Callers \ {c} : inHand'[d] = inHand[d]
      /\ inHand'[c] \in {Login!None, n}
      /\ lastKey' # lastKey => inHand'[c] = n
  BY <1>1, <1>2
<1>4. /\ pendingSince' \in 0..MaxTime
      /\ {lastKey', pendingKey'} \subseteq Login!States \cup URLs \cup {"none", "key ignored"}
      /\ lastKey' \in {lastKey, n.key}
  BY <1>0, <1>1 DEF Login!EmitNotice
<1>5. machineAuthNotified' \in BOOLEAN
  BY <1>1 DEF Login!EmitNotice
<1>6. QED
  BY <1>3, <1>4, <1>5

LEMMA EmitsFlag ==
  ASSUME Login!NoticeAssumption, Login!NoticesInv, NEW c \in Login!Callers,
         NEW n \in Login!Notice,
         Login!EmitNotice(c, n), n.kind = "running" => n.key = "Running", n # Login!None
  PROVE  /\ n.kind = "running" =>
              ~machineAuthNotified' /\ inHand'[c] = IF machineAuthNotified THEN n ELSE Login!None
         /\ n.kind = "machineAuth" =>
              \/ inHand'[c] = Login!None /\ machineAuthNotified' = machineAuthNotified
              \/ inHand'[c] = n /\ machineAuthNotified'
         /\ n.kind \notin {"running", "machineAuth"} =>
              machineAuthNotified' = machineAuthNotified
         /\ inHand'[c] = n => lastKey' = n.key
  BY DEF Login!NoticesInv, Login!KeysTell, Login!TypeOK, Login!NoticeAssumption,
         Login!EmitNotice, Login!Delayed, Login!None, Login!Notice, Login!Kinds

LEMMA Shows ==
  ASSUME Login!NoticesInv, NEW c \in Login!Callers, Login!Show(c)
  PROVE  /\ inHand' \in [Login!Callers -> Login!Notice]
         /\ \A d \in Login!Callers \ {c} : inHand'[d] = inHand[d]
         /\ inHand'[c] = Login!None
         /\ shown' \in Seq(Login!Kinds \ {"none"})
         /\ inHand[c].kind = "none" => inHand[c] = Login!None /\ shown' = shown
         /\ inHand[c].kind # "none" => shown' = Append(shown, inHand[c].kind)
<1>1. /\ Login!None \in Login!Notice /\ inHand[c] \in Login!Notice /\ Login!None.kind = "none"
      /\ inHand \in [Login!Callers -> Login!Notice] /\ shown \in Seq(Login!Kinds \ {"none"})
      /\ inHand[c].kind \in Login!Kinds
      /\ inHand[c].kind = "none" => inHand[c] = Login!None
  BY DEF Login!NoticesInv, Login!TypeOK, Login!KeysTell, Login!None, Login!Notice,
         Login!Kinds
<1>2. inHand' = [inHand EXCEPT ![c] = Login!None]
  BY DEF Login!Show
<1>3. shown' = IF inHand[c] = Login!None THEN shown ELSE Append(shown, inHand[c].kind)
  BY DEF Login!Show
<1>4. inHand[c].kind # "none" => inHand[c] # Login!None
  BY <1>1
<1>5. /\ inHand' \in [Login!Callers -> Login!Notice]
      /\ \A d \in Login!Callers : inHand'[d] = IF d = c THEN Login!None ELSE inHand[d]
  BY <1>1, <1>2
<1>6. shown' \in Seq(Login!Kinds \ {"none"})
  <2>1. CASE inHand[c] = Login!None
    BY <1>1, <1>3, <2>1
  <2>2. CASE inHand[c] # Login!None
    BY <1>1, <1>3, <2>2, AskedAfter
  <2>3. QED
    BY <2>1, <2>2
<1>7. QED
  BY <1>1, <1>3, <1>4, <1>5, <1>6

LEMMA StatusTyped ==
  ASSUME Login!NoticeAssumption, Login!NoticesInv
  PROVE  /\ Login!StatusNotice(watched) \in Login!Notice
         /\ Login!StatusNotice(watched).kind = "none" => Login!StatusNotice(watched) = Login!None
         /\ Login!StatusNotice(watched).key = "Running" <=> Login!StatusNotice(watched).kind = "running"
  BY DEF Login!NoticesInv, Login!TypeOK, Login!NoticeAssumption, Login!StatusNotice,
         Login!None, Login!Notice, Login!Kinds, Login!States

LEMMA StillAsked ==
  ASSUME NEW k \in Login!Kinds \ {"none"}, shown \in Seq(Login!Kinds \ {"none"}), Login!ApprovedWasAsked,
         shown' = Append(shown, k), k = "running" => Login!Asked(shown)
  PROVE  Login!ApprovedWasAsked'
<1>1. /\ Len(shown) \in Nat
      /\ Len(shown') = Len(shown) + 1
      /\ shown'[Len(shown) + 1] = k
      /\ \A i \in 1..Len(shown) : shown'[i] = shown[i]
  OBVIOUS
<1>2. SUFFICES ASSUME NEW i \in 1..Len(shown'), shown'[i] = "running"
               PROVE  \E j \in 1..(i - 1) :
                        /\ shown'[j] = "machineAuth"
                        /\ \A m \in j..(i - 1) : shown'[m] # "running"
  BY DEF Login!ApprovedWasAsked
<1>3. PICK j \in 1..(i - 1) :
        shown[j] = "machineAuth" /\ \A m \in j..(i - 1) : shown[m] # "running"
  <2>1. CASE i \in 1..Len(shown)
    BY <1>1, <1>2, <2>1 DEF Login!ApprovedWasAsked
  <2>2. CASE i = Len(shown) + 1
    <3>1. Login!Asked(shown) /\ i - 1 = Len(shown)
      BY <1>1, <1>2, <2>2
    <3>2. QED
      BY <3>1 DEF Login!Asked
  <2>3. QED
    BY <1>1, <2>1, <2>2
<1>4. \A m \in 1..(i - 1) : m \in 1..Len(shown)
  BY <1>1
<1>5. \A m \in j..(i - 1) : m \in 1..(i - 1)
  BY <1>1
<1>6. QED
  BY <1>1, <1>3, <1>4, <1>5

-----------------------------------------------------------------------------
(* Each step keeps the invariant.                                           *)

LEMMA NoticesInit == ASSUME Login!NoticeAssumption PROVE Login!Init => Login!NoticesInv
<1>1. 0 \in 0..MaxTime
  <2>1. MaxTime \in Nat
    BY DEF Login!NoticeAssumption
  <2>2. QED
    BY <2>1
<1>2. Login!None \in Login!Notice /\ <<>> \in Seq(Login!Kinds \ {"none"})
  BY DEF Login!None, Login!Notice, Login!Kinds
<1>3. /\ [state |-> "NoState", url |-> "none"] \in [state : Login!States, url : URLs \cup {"none"}]
      /\ [notice |-> Login!None, since |-> 0] \in [notice : Login!Notice, since : 0..MaxTime]
      /\ [c \in Login!Callers |-> Login!None] \in [Login!Callers -> Login!Notice]
  BY <1>1, <1>2 DEF Login!States
<1> Login!Init => Login!TypeOK
  BY <1>1, <1>2, <1>3 DEF Login!Init, Login!TypeOK
<1>4. Login!Init => Login!Turns /\ Login!KeysTell
  BY DEF Login!Init, Login!Turns, Login!KeysTell, Login!Callers, Login!None
<1>5. Login!Init => Login!FlagIsTrue
  <2>1. ~Login!Asked(<<>>)
    BY DEF Login!Asked
  <2>2. QED
    BY <2>1 DEF Login!Init, Login!FlagIsTrue, Login!Callers, Login!None
<1>6. Login!Init => Login!ApprovedWasAsked
  BY DEF Login!Init, Login!ApprovedWasAsked
<1>7. QED
  BY <1>3, <1>4, <1>5, <1>6 DEF Login!NoticesInv

(* The steps that decide and show nothing. *)
LEMMA ElsewhereKeeps ==
  ASSUME Login!NoticeAssumption, Login!NoticesInv, UNCHANGED <<inHand, Login!emitter, shown>>,
         \/ Login!NodeChanges \/ Login!Tick \/ Login!MonitorTick \/ Login!MonitorEnds
         \/ Login!UpReturns \/ Login!StopMonitor
  PROVE  Login!NoticesInv'
<1>1. /\ Login!TypeOK /\ Login!Turns /\ Login!KeysTell /\ Login!FlagIsTrue
      /\ Login!ApprovedWasAsked
      /\ inHand' = inHand /\ shown' = shown /\ lastKey' = lastKey
      /\ pendingKey' = pendingKey /\ pendingSince' = pendingSince
      /\ machineAuthNotified' = machineAuthNotified
  BY DEF Login!NoticesInv, Login!emitter
<1>2. Login!TypeOK'
  <2>1. MaxTime \in Nat
    BY DEF Login!NoticeAssumption
  <2>2. CASE Login!NodeChanges
    <3>1. watched' \in [state : Login!States, url : URLs \cup {"none"}]
      BY <2>2 DEF Login!NodeChanges
    <3>2. QED
      BY <1>1, <2>2, <3>1 DEF Login!TypeOK, Login!NodeChanges
  <2>3. CASE Login!Tick
    <3>1. clock' \in 0..MaxTime
      <4>1. clock \in 0..MaxTime
        BY <1>1 DEF Login!TypeOK
      <4>2. clock < MaxTime /\ clock' = clock + 1
        BY <2>3 DEF Login!Tick
      <4>3. QED
        BY <2>1, <4>1, <4>2
    <3>2. UNCHANGED <<watched, start, monitor, sample, lastPoll, steady>>
      BY <2>3 DEF Login!Tick
    <3>3. QED
      BY <1>1, <3>1, <3>2 DEF Login!TypeOK
  <2>4. CASE Login!MonitorTick \/ Login!MonitorEnds
    BY <1>1, <2>4 DEF Login!TypeOK, Login!MonitorTick, Login!MonitorEnds
  <2>5. CASE Login!UpReturns \/ Login!StopMonitor
    BY <1>1, <2>5 DEF Login!TypeOK, Login!UpReturns, Login!StopMonitor
  <2>6. QED
    BY <2>2, <2>3, <2>4, <2>5
<1>3. Login!Turns'
  BY <1>1 DEF Login!Turns, Login!NodeChanges, Login!Tick, Login!MonitorTick,
              Login!MonitorEnds, Login!UpReturns, Login!StopMonitor
<1>4. sample' = sample /\ (start' \in {"show", "done"} => start \in {"show", "done"})
  BY DEF Login!NodeChanges, Login!Tick, Login!MonitorTick, Login!MonitorEnds,
         Login!UpReturns, Login!StopMonitor
<1>5. Login!KeysTell'
  BY <1>1, <1>4 DEF Login!KeysTell
<1>6. Login!FlagIsTrue'
  BY <1>1, <1>4 DEF Login!FlagIsTrue
<1>7. Login!ApprovedWasAsked'
  BY <1>1 DEF Login!ApprovedWasAsked
<1>8. QED
  BY <1>2, <1>3, <1>5, <1>6, <1>7 DEF Login!NoticesInv

LEMMA MonitorPollKeeps ==
  ASSUME Login!NoticeAssumption, Login!NoticesInv, Login!MonitorPoll PROVE Login!NoticesInv'
<1>1. /\ Login!TypeOK /\ Login!Turns /\ Login!KeysTell /\ Login!FlagIsTrue
      /\ Login!ApprovedWasAsked
  BY DEF Login!NoticesInv
<1>2. Login!TypeOK'
  BY <1>1, StatusTyped DEF Login!TypeOK, Login!MonitorPoll, Login!emitter
<1>3. Login!Turns'
  BY <1>1 DEF Login!Turns, Login!MonitorPoll
<1>4. Login!KeysTell'
  BY <1>1, StatusTyped DEF Login!KeysTell, Login!MonitorPoll, Login!emitter
<1>5. Login!FlagIsTrue'
  BY <1>1 DEF Login!FlagIsTrue, Login!MonitorPoll, Login!emitter
<1>6. Login!ApprovedWasAsked'
  BY <1>1 DEF Login!ApprovedWasAsked, Login!MonitorPoll
<1>7. QED
  BY <1>2, <1>3, <1>4, <1>5, <1>6 DEF Login!NoticesInv

LEMMA UserLogKeeps ==
  ASSUME Login!NoticeAssumption, Login!NoticesInv, Login!UserLog PROVE Login!NoticesInv'
<1>1. /\ Login!TypeOK /\ Login!Turns /\ Login!KeysTell /\ Login!FlagIsTrue
      /\ Login!ApprovedWasAsked
  BY DEF Login!NoticesInv
<1>2. PICK n \in Login!UserLogNotices : Login!EmitNotice("tsnet", n)
  BY DEF Login!UserLog
<1>3. /\ n \in Login!Notice /\ n # Login!None /\ n.kind = "loginURL" /\ n.key # "Running"
      /\ "tsnet" \in Login!Callers
  <2>1. PICK k \in URLs \cup {"key ignored"} : n = [kind |-> "loginURL", key |-> k]
    BY <1>2 DEF Login!UserLogNotices
  <2>2. k # "Running"
    BY DEF Login!NoticeAssumption, Login!States
  <2>3. QED
    BY <2>1, <2>2 DEF Login!Notice, Login!None, Login!Kinds, Login!Callers
<1>4. UNCHANGED <<watched, clock, start, monitor, sample, lastPoll, shown, steady>>
  BY DEF Login!UserLog
<1>5. /\ inHand' \in [Login!Callers -> Login!Notice]
      /\ inHand["tsnet"] = Login!None
      /\ \A d \in Login!Callers \ {"tsnet"} : inHand'[d] = inHand[d]
      /\ inHand'["tsnet"] \in {Login!None, n}
      /\ lastKey' \in {lastKey, n.key}
      /\ machineAuthNotified' = machineAuthNotified
  BY <1>2, <1>3, Emits, EmitsFlag DEF Login!UserLog
<1>6. Login!None.kind = "none"
  BY DEF Login!None
<1>7. Login!TypeOK'
  BY <1>1, <1>2, <1>3, <1>4, <1>5, Emits DEF Login!TypeOK
<1>8. Login!Turns'
  BY <1>1, <1>3, <1>4, <1>5, <1>6 DEF Login!Turns, Login!Callers
<1>9. Login!KeysTell'
  BY <1>1, <1>3, <1>4, <1>5, <1>6 DEF Login!KeysTell, Login!Callers
<1>10. Login!FlagIsTrue'
  BY <1>1, <1>3, <1>4, <1>5, <1>6 DEF Login!FlagIsTrue, Login!Callers
<1>11. Login!ApprovedWasAsked'
  BY <1>1, <1>4 DEF Login!ApprovedWasAsked
<1>12. QED
  BY <1>7, <1>8, <1>9, <1>10, <1>11 DEF Login!NoticesInv

LEMMA MonitorNoticeKeeps ==
  ASSUME Login!NoticeAssumption, Login!NoticesInv, Login!MonitorNotice
        PROVE Login!NoticesInv'
<1>1. /\ Login!TypeOK /\ Login!Turns /\ Login!KeysTell /\ Login!FlagIsTrue
      /\ Login!ApprovedWasAsked
  BY DEF Login!NoticesInv
<1>2. UNCHANGED <<watched, clock, start, sample, lastPoll, shown, steady>>
  BY DEF Login!MonitorNotice
<1>3. /\ monitor = "notice" /\ monitor' = "show" /\ inHand["monitor"] = Login!None
      /\ start \notin {"approve", "show", "done"}
  BY <1>1 DEF Login!MonitorNotice, Login!Turns
<1>4. Login!None.kind = "none" /\ sample \in Login!Notice /\ "monitor" \in Login!Callers
  BY <1>1 DEF Login!None, Login!TypeOK, Login!Callers
<1>5. CASE sample = Login!None
  <2>1. UNCHANGED <<lastKey, pendingKey, pendingSince, machineAuthNotified, inHand>>
    BY <1>5 DEF Login!MonitorNotice, Login!emitter
  <2>2. Login!TypeOK'
    BY <1>1, <1>2, <1>3, <2>1 DEF Login!TypeOK
  <2>3. Login!Turns' /\ Login!KeysTell' /\ Login!FlagIsTrue'
    BY <1>1, <1>2, <1>3, <2>1 DEF Login!Turns, Login!KeysTell, Login!FlagIsTrue
  <2>4. Login!ApprovedWasAsked'
    BY <1>1, <1>2 DEF Login!ApprovedWasAsked
  <2>5. QED
    BY <2>2, <2>3, <2>4 DEF Login!NoticesInv
<1>6. CASE sample # Login!None
  <2>1. Login!EmitNotice("monitor", sample)
    BY <1>6 DEF Login!MonitorNotice
  <2>2. sample.kind = "running" => sample.key = "Running"
    BY <1>1 DEF Login!KeysTell
  <2>3. /\ inHand' \in [Login!Callers -> Login!Notice]
        /\ \A d \in Login!Callers \ {"monitor"} : inHand'[d] = inHand[d]
        /\ inHand'["monitor"] \in {Login!None, sample}
        /\ lastKey' \in {lastKey, sample.key}
    BY <1>4, <2>1, <2>2, Emits
  <2>4. Login!TypeOK'
    BY <1>1, <1>2, <1>3, <1>4, <2>1, <2>2, <2>3, Emits DEF Login!TypeOK
  <2>5. Login!Turns'
    BY <1>1, <1>2, <1>3, <1>4, <2>3 DEF Login!Turns, Login!Callers
  <2>6. Login!KeysTell'
    BY <1>1, <1>2, <1>4, <1>6, <2>1, <2>2, <2>3, EmitsFlag DEF Login!KeysTell, Login!Callers
  <2>7. Login!FlagIsTrue'
    BY <1>1, <1>2, <1>3, <1>4, <1>6, <2>1, <2>2, <2>3, EmitsFlag
       DEF Login!FlagIsTrue, Login!Turns, Login!KeysTell, Login!Callers
  <2>8. Login!ApprovedWasAsked'
    BY <1>1, <1>2 DEF Login!ApprovedWasAsked
  <2>9. QED
    BY <2>4, <2>5, <2>6, <2>7, <2>8 DEF Login!NoticesInv
<1>7. QED
  BY <1>5, <1>6

(* Between the decision and the screen. *)
LEMMA UserLogShowKeeps ==
  ASSUME Login!NoticeAssumption, Login!NoticesInv, Login!UserLogShow PROVE Login!NoticesInv'
<1>1. /\ Login!TypeOK /\ Login!Turns /\ Login!KeysTell /\ Login!FlagIsTrue
      /\ Login!ApprovedWasAsked
  BY DEF Login!NoticesInv
<1>2. Login!Show("tsnet") /\ "tsnet" \in Login!Callers /\ Login!None.kind = "none"
  BY DEF Login!UserLogShow, Login!Callers, Login!None
<1>3. /\ UNCHANGED <<watched, clock, start, monitor, sample, lastPoll, steady>>
      /\ UNCHANGED <<lastKey, pendingKey, pendingSince, machineAuthNotified>>
  BY DEF Login!UserLogShow, Login!emitter
<1>4. /\ inHand' \in [Login!Callers -> Login!Notice]
      /\ \A d \in Login!Callers \ {"tsnet"} : inHand'[d] = inHand[d]
      /\ inHand'["tsnet"] = Login!None
      /\ shown' \in Seq(Login!Kinds \ {"none"})
  BY <1>2, Shows
<1>5. /\ shown' = Append(shown, "loginURL")
      /\ "loginURL" \in Login!Kinds \ {"none"} /\ shown \in Seq(Login!Kinds \ {"none"})
      /\ Login!Asked(shown') <=> Login!Asked(shown)
  <2>1. inHand["tsnet"].kind = "loginURL"
    BY <1>1 DEF Login!UserLogShow, Login!Turns, Login!KeysTell, Login!Callers
  <2>2. "loginURL" \in Login!Kinds \ {"none"} /\ shown \in Seq(Login!Kinds \ {"none"})
    BY <1>1 DEF Login!TypeOK, Login!Kinds
  <2>3. shown' = Append(shown, "loginURL")
    BY <1>2, <2>1, Shows
  <2>4. QED
    BY <2>2, <2>3, AskedAfter
<1>6. Login!TypeOK'
  BY <1>1, <1>3, <1>4 DEF Login!TypeOK
<1>7. Login!Turns' /\ Login!KeysTell'
  BY <1>1, <1>2, <1>3, <1>4 DEF Login!Turns, Login!KeysTell, Login!Callers
<1>8. Login!FlagIsTrue'
  BY <1>1, <1>2, <1>3, <1>4, <1>5 DEF Login!FlagIsTrue, Login!Turns, Login!Callers
<1>9. Login!ApprovedWasAsked'
  BY <1>1, <1>5, StillAsked
<1>10. QED
  BY <1>6, <1>7, <1>8, <1>9 DEF Login!NoticesInv

LEMMA MonitorShowKeeps ==
  ASSUME Login!NoticeAssumption, Login!NoticesInv, Login!MonitorShow PROVE Login!NoticesInv'
<1>1. /\ Login!TypeOK /\ Login!Turns /\ Login!KeysTell /\ Login!FlagIsTrue
      /\ Login!ApprovedWasAsked
  BY DEF Login!NoticesInv
<1>2. Login!Show("monitor") /\ "monitor" \in Login!Callers /\ Login!None.kind = "none"
  BY DEF Login!MonitorShow, Login!Callers, Login!None
<1>3. /\ UNCHANGED <<watched, clock, start, sample, lastPoll, steady>>
      /\ UNCHANGED <<lastKey, pendingKey, pendingSince, machineAuthNotified>>
      /\ monitor = "show" /\ monitor' = "sleep"
      /\ start \notin {"approve", "show", "done"}
  BY <1>1 DEF Login!MonitorShow, Login!emitter, Login!Turns
<1>4. /\ inHand' \in [Login!Callers -> Login!Notice]
      /\ \A d \in Login!Callers \ {"monitor"} : inHand'[d] = inHand[d]
      /\ inHand'["monitor"] = Login!None
      /\ shown' \in Seq(Login!Kinds \ {"none"})
  BY <1>2, Shows
<1>5. /\ shown \in Seq(Login!Kinds \ {"none"})
      /\ inHand["monitor"].kind \in Login!Kinds
  BY <1>1 DEF Login!TypeOK, Login!Notice, Login!Callers
<1>6. Login!TypeOK'
  BY <1>1, <1>3, <1>4 DEF Login!TypeOK
<1>7. Login!Turns' /\ Login!KeysTell'
  BY <1>1, <1>2, <1>3, <1>4 DEF Login!Turns, Login!KeysTell, Login!Callers
<1>8. Login!FlagIsTrue' /\ Login!ApprovedWasAsked'
  <2> DEFINE said == inHand["monitor"].kind
  <2>1. CASE said = "none"
    <3>1. shown' = shown
      BY <1>2, <2>1, Shows
    <3>2. QED
      BY <1>1, <1>2, <1>3, <1>4, <2>1, <3>1 DEF Login!FlagIsTrue, Login!Turns,
         Login!Callers, Login!ApprovedWasAsked
  <2>2. CASE said # "none"
    <3>1. shown' = Append(shown, said)
      BY <1>2, <2>2, Shows
    <3>2. /\ said = "machineAuth" => Login!Asked(shown')
          /\ said = "running" => ~Login!Asked(shown')
          /\ said \notin {"machineAuth", "running"} => (Login!Asked(shown') <=> Login!Asked(shown))
      BY <1>5, <2>2, <3>1, AskedAfter
    <3>3. said = "running" => Login!Asked(shown)
      BY <1>1, <1>2 DEF Login!FlagIsTrue
    <3>4. Login!ApprovedWasAsked'
      BY <1>1, <1>5, <2>2, <3>1, <3>3, StillAsked
    <3>5. Login!FlagIsTrue'
      BY <1>1, <1>2, <1>3, <1>4, <3>2, <3>3 DEF Login!FlagIsTrue, Login!Turns, Login!Callers
    <3>6. QED
      BY <3>4, <3>5
  <2>3. QED
    BY <2>1, <2>2
<1>9. QED
  BY <1>6, <1>7, <1>8 DEF Login!NoticesInv

(* Start's own notice, once the monitor has ended. *)
LEMMA ApproveKeeps ==
  ASSUME Login!NoticeAssumption, Login!NoticesInv, Login!Approve PROVE Login!NoticesInv'
<1> DEFINE n == [kind |-> "running", key |-> "Running"]
<1>1. /\ Login!TypeOK /\ Login!Turns /\ Login!KeysTell /\ Login!FlagIsTrue
      /\ Login!ApprovedWasAsked
  BY DEF Login!NoticesInv
<1>2. Login!EmitNotice("start", n) /\ "start" \in Login!Callers /\ Login!None.kind = "none"
  BY DEF Login!Approve, Login!Callers, Login!None
<1>3. n \in Login!Notice /\ n # Login!None /\ n.kind = "running" /\ n.key = "Running"
  BY DEF Login!Notice, Login!None, Login!Kinds, Login!States
<1> HIDE DEF n
<1>4. /\ UNCHANGED <<watched, clock, monitor, sample, lastPoll, shown, steady>>
      /\ start = "approve" /\ start' = "show" /\ monitor = "done"
      /\ inHand["monitor"] = Login!None /\ inHand["start"] = Login!None
  BY <1>1 DEF Login!Approve, Login!Turns
<1>5. /\ inHand' \in [Login!Callers -> Login!Notice]
      /\ \A d \in Login!Callers \ {"start"} : inHand'[d] = inHand[d]
      /\ inHand'["start"] \in {Login!None, n}
  BY <1>2, <1>3, Emits
<1>6. ~machineAuthNotified' /\ inHand'["start"] = IF machineAuthNotified THEN n ELSE Login!None
  BY <1>2, <1>3, EmitsFlag
<1>7. Login!TypeOK'
  BY <1>1, <1>2, <1>3, <1>4, <1>5, Emits DEF Login!TypeOK
<1>8. Login!Turns' /\ Login!KeysTell'
  BY <1>1, <1>2, <1>3, <1>4, <1>5, <1>6 DEF Login!Turns, Login!KeysTell, Login!Callers
<1>9. Login!FlagIsTrue'
  BY <1>1, <1>2, <1>3, <1>4, <1>5, <1>6 DEF Login!FlagIsTrue, Login!Turns, Login!Callers
<1>10. Login!ApprovedWasAsked'
  BY <1>1, <1>4 DEF Login!ApprovedWasAsked
<1>11. QED
  BY <1>7, <1>8, <1>9, <1>10 DEF Login!NoticesInv

LEMMA ApproveShowKeeps ==
  ASSUME Login!NoticeAssumption, Login!NoticesInv, Login!ApproveShow PROVE Login!NoticesInv'
<1>1. /\ Login!TypeOK /\ Login!Turns /\ Login!KeysTell /\ Login!FlagIsTrue
      /\ Login!ApprovedWasAsked
  BY DEF Login!NoticesInv
<1>2. Login!Show("start") /\ "start" \in Login!Callers /\ Login!None.kind = "none"
  BY DEF Login!ApproveShow, Login!Callers, Login!None
<1>3. /\ UNCHANGED <<watched, clock, monitor, sample, lastPoll, steady>>
      /\ UNCHANGED <<lastKey, pendingKey, pendingSince, machineAuthNotified>>
      /\ start = "show" /\ start' = "done"
      /\ monitor = "done" /\ inHand["monitor"] = Login!None /\ ~machineAuthNotified
  BY <1>1 DEF Login!ApproveShow, Login!emitter, Login!Turns, Login!FlagIsTrue
<1>4. /\ inHand' \in [Login!Callers -> Login!Notice]
      /\ \A d \in Login!Callers \ {"start"} : inHand'[d] = inHand[d]
      /\ inHand'["start"] = Login!None
      /\ shown' \in Seq(Login!Kinds \ {"none"})
  BY <1>2, Shows
<1>5. /\ shown \in Seq(Login!Kinds \ {"none"})
      /\ "running" \in Login!Kinds \ {"none"}
      /\ inHand["start"].kind \in {"none", "running"}
  BY <1>1 DEF Login!TypeOK, Login!Turns, Login!Kinds
<1>6. Login!TypeOK'
  BY <1>1, <1>3, <1>4 DEF Login!TypeOK
<1>7. Login!Turns' /\ Login!KeysTell'
  BY <1>1, <1>2, <1>3, <1>4 DEF Login!Turns, Login!KeysTell, Login!Callers
<1>8. Login!FlagIsTrue' /\ Login!ApprovedWasAsked'
  <2>1. CASE inHand["start"].kind = "none"
    <3>1. shown' = shown
      BY <1>2, <2>1, Shows
    <3>2. QED
      BY <1>1, <1>2, <1>3, <1>4, <2>1, <3>1 DEF Login!FlagIsTrue, Login!Turns,
         Login!Callers, Login!ApprovedWasAsked
  <2>2. CASE inHand["start"].kind = "running"
    <3>1. shown' = Append(shown, "running")
      BY <1>2, <2>2, Shows
    <3>2. ~Login!Asked(shown')
      BY <1>5, <3>1, AskedAfter
    <3>3. Login!Asked(shown)
      BY <1>1, <1>2, <2>2 DEF Login!FlagIsTrue
    <3>4. Login!ApprovedWasAsked'
      BY <1>1, <1>5, <3>1, <3>3, StillAsked
    <3>5. Login!FlagIsTrue'
      BY <1>1, <1>2, <1>3, <1>4, <3>2 DEF Login!FlagIsTrue, Login!Turns, Login!Callers
    <3>6. QED
      BY <3>4, <3>5
  <2>3. QED
    BY <1>5, <2>1, <2>2
<1>9. QED
  BY <1>6, <1>7, <1>8 DEF Login!NoticesInv

-----------------------------------------------------------------------------

LEMMA NoticesNext == ASSUME Login!NoticeAssumption, Login!NoticesInv, [Login!Next]_(Login!vars)
  PROVE Login!NoticesInv'
<1>1. CASE \/ Login!NodeChanges \/ Login!Tick \/ Login!MonitorTick \/ Login!MonitorEnds
           \/ Login!UpReturns \/ Login!StopMonitor
  <2>1. UNCHANGED <<inHand, Login!emitter, shown>>
    BY <1>1 DEF Login!NodeChanges, Login!Tick, Login!MonitorTick, Login!MonitorEnds,
                Login!UpReturns, Login!StopMonitor
  <2>2. QED
    BY <1>1, <2>1, ElsewhereKeeps
<1>2. CASE UNCHANGED Login!vars
  <2>1. /\ watched' = watched /\ clock' = clock /\ start' = start /\ monitor' = monitor
        /\ sample' = sample /\ lastPoll' = lastPoll /\ inHand' = inHand
        /\ lastKey' = lastKey /\ pendingKey' = pendingKey
        /\ pendingSince' = pendingSince /\ machineAuthNotified' = machineAuthNotified
        /\ shown' = shown /\ steady' = steady
    BY <1>2 DEF Login!vars, Login!emitter
  <2>2. Login!TypeOK'
    BY <2>1 DEF Login!NoticesInv, Login!TypeOK
  <2>3. Login!Turns' /\ Login!KeysTell' /\ Login!FlagIsTrue'
    BY <2>1 DEF Login!NoticesInv, Login!Turns, Login!KeysTell, Login!FlagIsTrue
  <2>4. Login!ApprovedWasAsked'
    BY <2>1 DEF Login!NoticesInv, Login!ApprovedWasAsked
  <2>5. QED
    BY <2>2, <2>3, <2>4 DEF Login!NoticesInv
<1>3. QED
  BY <1>1, <1>2, MonitorPollKeeps, UserLogKeeps, UserLogShowKeeps, MonitorNoticeKeeps,
     MonitorShowKeeps, ApproveKeeps, ApproveShowKeeps DEF Login!Next, Login!Monitor, Login!Start

LEMMA NoticesInvIsTrue == ASSUME Login!NoticesInv PROVE Login!NoticesAreTrue
<1> SUFFICES ASSUME start = "done", NEW i \in 1..Len(shown), shown[i] = "machineAuth",
                    ~ \E j \in (i + 1)..Len(shown) : shown[j] = "running"
             PROVE  FALSE
  BY DEF Login!NoticesInv, Login!NoticesAreTrue, Login!ApprovalIsTold
<1>1. \A j \in (i + 1)..Len(shown) : shown[j] # "running"
  OBVIOUS
<1>2. Len(shown) \in Nat
  <2>1. shown \in Seq(Login!Kinds \ {"none"})
    BY DEF Login!NoticesInv, Login!TypeOK
  <2>2. QED
    BY <2>1
<1>3. Login!Asked(shown)
  BY <1>1, <1>2 DEF Login!Asked
<1>4. \A c \in Login!Callers : inHand[c].kind # "running"
  BY DEF Login!NoticesInv, Login!Turns, Login!FlagIsTrue, Login!Callers, Login!None
<1>5. QED
  BY <1>3, <1>4 DEF Login!NoticesInv, Login!FlagIsTrue

-----------------------------------------------------------------------------

(* The invariant of the emitter and of the two that feed it.                *)
THEOREM NoticesInvariance == ASSUME Login!NoticeAssumption
  PROVE Login!Spec => []Login!NoticesInv
<1>1. Login!Init => Login!NoticesInv
  BY NoticesInit
<1>2. Login!NoticesInv /\ [Login!Next]_(Login!vars) => Login!NoticesInv'
  BY NoticesNext
<1>3. QED
  BY <1>1, <1>2, PTL DEF Login!Spec

(* However the log of tsnet, the monitor and Start show their notices: that *)
(* the device is approved is said after it was said that it has to be, once *)
(* for each time, and when Start is done it has been said                   *)
(* (emitNoticeAt, stopAuthMonitor, emitDeviceApprovedIfNeeded).             *)
THEOREM NoticesTrue == ASSUME Login!NoticeAssumption
  PROVE Login!Spec => [](Login!TypeOK /\ Login!NoticesAreTrue)
<1>1. Login!NoticesInv => Login!TypeOK /\ Login!NoticesAreTrue
  BY NoticesInvIsTrue DEF Login!NoticesInv
<1>2. QED
  BY <1>1, NoticesInvariance, PTL

-----------------------------------------------------------------------------
(* The relays, of any number of connections, sources and sessions.         *)

LEMMA InitRelayInv == Relays!ForwardAssumption /\ Relays!Init => Relays!RelayInv
<1> SUFFICES ASSUME Relays!ForwardAssumption, Relays!Init PROVE Relays!RelayInv
  OBVIOUS
<1>1. Relays!TypeOK
  BY DEF Relays!Init, Relays!Reading, Relays!TypeOK
<1>2. (\A c \in Conns : Relays!DialInv(c)) /\ Relays!RelayIsClosed
  BY DEF Relays!Init, Relays!DialInv, Relays!RelayIsClosed, Relays!Sides
<1>3. Relays!SessionInv /\ Relays!LoopInv
  BY DEF Relays!Init, Relays!Reading, Relays!SessionInv, Relays!Mapped, Relays!LoopInv
<1> QED
  BY <1>1, <1>2, <1>3 DEF Relays!RelayInv

(* The two machines do not touch each other. *)
LEMMA SessionFrame ==
  ASSUME Relays!RelayInv, UNCHANGED Relays!udp
  PROVE  Relays!SessionInv' /\ Relays!LoopInv'
BY DEF Relays!RelayInv, Relays!udp, Relays!SessionInv, Relays!Mapped, Relays!LoopInv

LEMMA ConnFrame ==
  ASSUME Relays!RelayInv, UNCHANGED Relays!tcp
  PROVE  (\A c \in Conns : Relays!DialInv(c)') /\ Relays!RelayIsClosed'
BY DEF Relays!RelayInv, Relays!tcp, Relays!DialInv, Relays!RelayIsClosed

LEMMA TypeFrame ==
  ASSUME Relays!RelayInv,
         (UNCHANGED Relays!udp /\ context' \in BOOLEAN
           /\ tcpRelay' \in [Conns -> {"none", "dial", "wait", "done"}]
           /\ copying' \in [Conns -> [Relays!Sides -> {"none", "copy", "ended"}]]
           /\ side' \in [Conns -> [Relays!Sides -> {"none", "open", "closed"}]]
           /\ watcher' \in [Conns -> {"none", "wait", "ended"}])
  PROVE  Relays!TypeOK'
BY DEF Relays!RelayInv, Relays!udp, Relays!TypeOK

-----------------------------------------------------------------------------
(* TCP connections. *)

LEMMA SideTyped ==
  ASSUME NEW c \in Conns, NEW d \in Relays!Sides, Relays!TypeOK,
         NEW v \in {"none", "open", "closed"}
  PROVE  /\ [side EXCEPT ![c][d] = v] \in [Conns -> [Relays!Sides -> {"none", "open", "closed"}]]
         /\ [side EXCEPT ![c] = [e \in Relays!Sides |-> v]]
              \in [Conns -> [Relays!Sides -> {"none", "open", "closed"}]]
<1>1. [side[c] EXCEPT ![d] = v] \in [Relays!Sides -> {"none", "open", "closed"}]
  BY DEF Relays!TypeOK
<1>2. [e \in Relays!Sides |-> v] \in [Relays!Sides -> {"none", "open", "closed"}]
  OBVIOUS
<1> QED
  BY <1>1, <1>2 DEF Relays!TypeOK

LEMMA AcceptKeeps == ASSUME Relays!RelayInv, NEW c \in Conns, Relays!Accept(c)
  PROVE Relays!RelayInv'
<1>1. Relays!TypeOK /\ "client" \in Relays!Sides
  BY DEF Relays!RelayInv, Relays!Sides
<1>2. Relays!TypeOK'
  <2>1. side' \in [Conns -> [Relays!Sides -> {"none", "open", "closed"}]]
    BY <1>1, SideTyped DEF Relays!Accept
  <2> QED
    BY <1>1, <2>1, TypeFrame DEF Relays!Accept, Relays!TypeOK
<1>3. \A b \in Conns : Relays!DialInv(b)'
  BY <1>1 DEF Relays!RelayInv, Relays!Accept, Relays!DialInv, Relays!TypeOK, Relays!Sides
<1>4. Relays!RelayIsClosed'
  BY <1>1 DEF Relays!RelayInv, Relays!Accept, Relays!RelayIsClosed, Relays!TypeOK,
              Relays!Sides
<1> QED
  BY <1>2, <1>3, <1>4, SessionFrame DEF Relays!RelayInv, Relays!Accept

LEMMA DialTargetKeeps == ASSUME Relays!RelayInv, NEW c \in Conns, Relays!DialTarget(c)
  PROVE Relays!RelayInv'
<1>1. Relays!TypeOK /\ Relays!Sides = {"client", "target"}
  BY DEF Relays!RelayInv, Relays!Sides
<1>2. Relays!TypeOK'
  <2>1. side' \in [Conns -> [Relays!Sides -> {"none", "open", "closed"}]]
    <3>1. \/ side' = [side EXCEPT ![c]["target"] = "open"]
          \/ side' = [side EXCEPT ![c]["client"] = "closed"]
      BY DEF Relays!DialTarget
    <3>2. "client" \in Relays!Sides /\ "target" \in Relays!Sides
      BY <1>1
    <3>3. CASE side' = [side EXCEPT ![c]["target"] = "open"]
      BY <1>1, <3>2, <3>3, SideTyped
    <3>4. CASE side' = [side EXCEPT ![c]["client"] = "closed"]
      BY <1>1, <3>2, <3>4, SideTyped
    <3> QED
      BY <3>1, <3>3, <3>4
  <2>2. copying' \in [Conns -> [Relays!Sides -> {"none", "copy", "ended"}]]
    BY <1>1 DEF Relays!DialTarget, Relays!TypeOK
  <2> QED
    BY <1>1, <2>1, <2>2, TypeFrame DEF Relays!DialTarget, Relays!TypeOK
<1>3. tcpRelay'[c] \in {"wait", "done"} /\ context' = context /\ Relays!udp' = Relays!udp
  BY <1>1 DEF Relays!DialTarget, Relays!TypeOK
<1>4. \A b \in Conns \ {c} :
        /\ tcpRelay'[b] = tcpRelay[b] /\ side'[b] = side[b]
        /\ copying'[b] = copying[b] /\ watcher'[b] = watcher[b]
  BY <1>1 DEF Relays!DialTarget, Relays!TypeOK
<1>5. tcpRelay'[c] = "done" => side'[c]["client"] = "closed" /\ side'[c]["target"] = "none"
  <2>1. tcpRelay[c] = "dial" /\ Relays!DialInv(c)
    BY DEF Relays!RelayInv, Relays!DialTarget
  <2>2. side[c]["target"] = "none"
    BY <2>1 DEF Relays!DialInv
  <2> QED
    BY <1>1, <2>2 DEF Relays!DialTarget, Relays!TypeOK
<1>6. \A b \in Conns : Relays!DialInv(b)'
  BY <1>3, <1>4 DEF Relays!RelayInv, Relays!DialInv
<1>7. Relays!RelayIsClosed'
  BY <1>1, <1>4, <1>5 DEF Relays!RelayInv, Relays!RelayIsClosed
<1> QED
  BY <1>2, <1>3, <1>6, <1>7, SessionFrame DEF Relays!RelayInv

LEMMA CopyEndsKeeps ==
  ASSUME Relays!RelayInv, NEW c \in Conns, NEW d \in Relays!Sides, Relays!CopyEnds(c, d)
  PROVE  Relays!RelayInv'
<1>1. Relays!TypeOK /\ Relays!Sides = {"client", "target"} /\ Relays!Other(d) \in Relays!Sides
  BY DEF Relays!RelayInv, Relays!Sides, Relays!Other
<1>2. tcpRelay[c] \notin {"none", "dial"}
  BY DEF Relays!CopyEnds, Relays!RelayInv, Relays!DialInv
<1>3. \A b \in Conns : \A e \in Relays!Sides : side'[b][e] \in {side[b][e], "closed"}
  BY <1>1 DEF Relays!CopyEnds, Relays!TypeOK
<1>4. \A b \in Conns \ {c} : side'[b] = side[b] /\ copying'[b] = copying[b]
  BY <1>1 DEF Relays!CopyEnds, Relays!TypeOK
<1>5. Relays!TypeOK'
  <2>1. side' \in [Conns -> [Relays!Sides -> {"none", "open", "closed"}]]
    BY <1>1, SideTyped DEF Relays!CopyEnds
  <2>2. copying' \in [Conns -> [Relays!Sides -> {"none", "copy", "ended"}]]
    <3>1. [copying[c] EXCEPT ![d] = "ended"] \in [Relays!Sides -> {"none", "copy", "ended"}]
      BY <1>1 DEF Relays!TypeOK
    <3> QED
      BY <1>1, <3>1 DEF Relays!CopyEnds, Relays!TypeOK
  <2> QED
    BY <1>1, <2>1, <2>2, TypeFrame DEF Relays!CopyEnds, Relays!TypeOK
<1>6. \A b \in Conns : Relays!DialInv(b)'
  BY <1>2, <1>4 DEF Relays!RelayInv, Relays!CopyEnds, Relays!DialInv
<1>7. Relays!RelayIsClosed'
  BY <1>3 DEF Relays!RelayInv, Relays!CopyEnds, Relays!RelayIsClosed
<1> QED
  BY <1>5, <1>6, <1>7, SessionFrame DEF Relays!RelayInv, Relays!CopyEnds

LEMMA RelayDoneKeeps == ASSUME Relays!RelayInv, NEW c \in Conns, Relays!RelayDone(c)
  PROVE Relays!RelayInv'
<1>1. Relays!TypeOK /\ Relays!Sides = {"client", "target"}
  BY DEF Relays!RelayInv, Relays!Sides
<1>2. Relays!TypeOK'
  <2>1. side' \in [Conns -> [Relays!Sides -> {"none", "open", "closed"}]]
    BY <1>1, SideTyped DEF Relays!RelayDone
  <2> QED
    BY <1>1, <2>1, TypeFrame DEF Relays!RelayDone, Relays!TypeOK
<1>3. \A b \in Conns : Relays!DialInv(b)'
  BY <1>1 DEF Relays!RelayInv, Relays!RelayDone, Relays!DialInv, Relays!TypeOK
<1>4. Relays!RelayIsClosed'
  BY <1>1 DEF Relays!RelayInv, Relays!RelayDone, Relays!RelayIsClosed, Relays!TypeOK
<1> QED
  BY <1>2, <1>3, <1>4, SessionFrame DEF Relays!RelayInv, Relays!RelayDone

LEMMA WatcherKeeps == ASSUME Relays!RelayInv, NEW c \in Conns, Relays!Watcher(c)
  PROVE Relays!RelayInv'
<1>1. Relays!TypeOK /\ Relays!Sides = {"client", "target"}
  BY DEF Relays!RelayInv, Relays!Sides
<1>2. tcpRelay[c] \notin {"none", "dial"}
  BY DEF Relays!Watcher, Relays!RelayInv, Relays!DialInv
<1>3. Relays!TypeOK'
  <2>1. side' \in [Conns -> [Relays!Sides -> {"none", "open", "closed"}]]
    BY <1>1, SideTyped DEF Relays!Watcher, Relays!TypeOK
  <2> QED
    BY <1>1, <2>1, TypeFrame DEF Relays!Watcher, Relays!TypeOK
<1>4. \A b \in Conns : Relays!DialInv(b)'
  BY <1>1, <1>2 DEF Relays!RelayInv, Relays!Watcher, Relays!DialInv, Relays!TypeOK
<1>5. Relays!RelayIsClosed'
  BY <1>1 DEF Relays!RelayInv, Relays!Watcher, Relays!RelayIsClosed, Relays!TypeOK
<1> QED
  BY <1>3, <1>4, <1>5, SessionFrame DEF Relays!RelayInv, Relays!Watcher

-----------------------------------------------------------------------------
(* UDP sessions. *)

LEMMA LoopKeeps ==
  ASSUME Relays!ForwardAssumption, Relays!RelayInv,
         (\E a \in Sources : Relays!ReadFrom(a)) \/ Relays!ReadFails \/ Relays!Lookup \/ Relays!Write
  PROVE  Relays!RelayInv'
<1>1. Relays!TypeOK
  BY DEF Relays!RelayInv
<1>2. UNCHANGED <<context, Relays!tcp, packetConn, sessions, reply, conn, source>>
  BY DEF Relays!ReadFrom, Relays!ReadFails, Relays!Lookup, Relays!Write
<1>3. Relays!TypeOK' /\ Relays!LoopInv'
  <2>1. CASE \E a \in Sources : Relays!ReadFrom(a)
    <3>1. PICK a \in Sources : Relays!ReadFrom(a)
      BY <2>1
    <3>2. loop' = [at |-> "lookup", from |-> a, to |-> loop.to]
      BY <1>1, <3>1 DEF Relays!ReadFrom, Relays!TypeOK
    <3> QED
      BY <1>1, <1>2, <3>2 DEF Relays!TypeOK, Relays!LoopInv, Relays!tcp
  <2>2. CASE Relays!ReadFails
    <3>1. loop' = [at |-> "ended", from |-> loop.from, to |-> loop.to]
      BY <1>1, <2>2 DEF Relays!ReadFails, Relays!TypeOK
    <3> QED
      BY <1>1, <1>2, <3>1 DEF Relays!TypeOK, Relays!LoopInv, Relays!tcp
  <2>3. CASE Relays!Lookup
    <3>1. loop.from \in Sources
      BY <2>3 DEF Relays!Lookup, Relays!RelayInv, Relays!LoopInv
    <3>2. CASE sessions[loop.from] = NoSession
      <4>1. loop' = [at |-> "dial", from |-> loop.from, to |-> loop.to]
        BY <1>1, <2>3, <3>2 DEF Relays!Lookup, Relays!TypeOK
      <4> QED
        BY <1>1, <1>2, <3>1, <3>2, <4>1 DEF Relays!TypeOK, Relays!LoopInv, Relays!tcp
    <3>3. CASE sessions[loop.from] # NoSession
      <4>1. loop' = [at |-> "write", from |-> loop.from, to |-> sessions[loop.from]]
        BY <1>1, <2>3, <3>3 DEF Relays!Lookup, Relays!TypeOK
      <4> QED
        BY <1>1, <1>2, <3>1, <4>1 DEF Relays!TypeOK, Relays!LoopInv, Relays!tcp
    <3> QED
      BY <3>2, <3>3
  <2>4. CASE Relays!Write
    <3>1. loop' = [at |-> "read", from |-> NoSession, to |-> NoSession]
      BY <2>4 DEF Relays!Write, Relays!Reading
    <3> QED
      BY <1>1, <1>2, <3>1 DEF Relays!TypeOK, Relays!LoopInv, Relays!tcp
  <2> QED
    BY <2>1, <2>2, <2>3, <2>4
<1>4. Relays!SessionInv'
  BY <1>2 DEF Relays!RelayInv, Relays!SessionInv, Relays!Mapped
<1> QED
  BY <1>2, <1>3, <1>4, ConnFrame DEF Relays!RelayInv

(* A source that gets a session has none: nobody else can have given it one *)
(* while the read loop held mu.                                             *)
LEMMA OpenSessionKeeps == ASSUME Relays!ForwardAssumption, Relays!RelayInv, Relays!OpenSession
  PROVE Relays!RelayInv'
<1>1. /\ Relays!TypeOK /\ Relays!SessionInv /\ UNCHANGED <<context, Relays!tcp, packetConn>>
      /\ loop.from \in Sources /\ sessions[loop.from] = NoSession
  BY DEF Relays!RelayInv, Relays!OpenSession, Relays!LoopInv
<1>2. CASE loop' = Relays!Reading /\ UNCHANGED <<sessions, reply, conn, source>>
  <2>1. Relays!SessionInv'
    BY <1>1, <1>2 DEF Relays!SessionInv, Relays!Mapped
  <2>2. Relays!TypeOK' /\ Relays!LoopInv'
    BY <1>1, <1>2 DEF Relays!TypeOK, Relays!LoopInv, Relays!Reading, Relays!tcp
  <2> QED
    BY <1>1, <2>1, <2>2, ConnFrame DEF Relays!RelayInv
<1>3. ASSUME NEW x \in Sessions,
             /\ reply[x] = "none"
             /\ loop' = [loop EXCEPT !.at = "write", !.to = x]
             /\ sessions' = [sessions EXCEPT ![loop.from] = x]
             /\ reply' = [reply EXCEPT ![x] = "read"]
             /\ conn' = [conn EXCEPT ![x] = "open"]
             /\ source' = [source EXCEPT ![x] = loop.from]
      PROVE  Relays!RelayInv'
  <2>1. PICK a \in Sources : a = loop.from
    BY <1>1
  <2>2. loop' = [at |-> "write", from |-> a, to |-> x]
    BY <1>1, <1>3, <2>1 DEF Relays!TypeOK
  <2>3. Relays!TypeOK' /\ Relays!LoopInv'
    BY <1>1, <1>3, <2>1, <2>2 DEF Relays!TypeOK, Relays!LoopInv, Relays!tcp
  <2>4. /\ sessions'[a] = x /\ \A b \in Sources \ {a} : sessions'[b] = sessions[b]
        /\ reply'[x] = "read" /\ \A y \in Sessions \ {x} : reply'[y] = reply[y]
        /\ conn'[x] = "open" /\ \A y \in Sessions \ {x} : conn'[y] = conn[y]
        /\ source'[x] = a /\ \A y \in Sessions \ {x} : source'[y] = source[y]
    BY <1>1, <1>3, <2>1 DEF Relays!TypeOK
  <2>5. /\ \A y \in Sessions : Relays!Mapped(y) => y # x /\ source[y] # a
        /\ \A b \in Sources : sessions[b] # x
    BY <1>1, <1>3, <2>1 DEF Relays!SessionInv, Relays!Mapped, Relays!ForwardAssumption
  <2>6. Relays!SessionInv'
    <3>1. \A y \in Sessions : Relays!Mapped(y)' => source'[y] \in Sources /\ sessions'[source'[y]] = y
      BY <1>1, <2>4, <2>5 DEF Relays!SessionInv, Relays!Mapped
    <3>2. \A b \in Sources : sessions'[b] # NoSession =>
            source'[sessions'[b]] = b /\ reply'[sessions'[b]] \in {"read", "delete"}
      BY <1>1, <2>4, <2>5 DEF Relays!SessionInv, Relays!Mapped, Relays!TypeOK
    <3>3. \A y \in Sessions : conn'[y] = "open" => reply'[y] = "read"
      BY <1>1, <2>4 DEF Relays!SessionInv
    <3> QED
      BY <3>1, <3>2, <3>3 DEF Relays!SessionInv, Relays!Mapped
  <2> QED
    BY <1>1, <2>3, <2>6, ConnFrame DEF Relays!RelayInv
<1> QED
  BY <1>2, <1>3 DEF Relays!OpenSession

LEMMA ReplyEndsKeeps == ASSUME Relays!RelayInv, NEW x \in Sessions, Relays!ReplyEnds(x)
  PROVE Relays!RelayInv'
<1>1. /\ Relays!TypeOK /\ Relays!SessionInv /\ Relays!LoopInv
      /\ UNCHANGED <<context, Relays!tcp, loop, packetConn, sessions, source>>
  BY DEF Relays!RelayInv, Relays!ReplyEnds
<1>2. Relays!TypeOK' /\ Relays!LoopInv'
  BY <1>1 DEF Relays!TypeOK, Relays!LoopInv, Relays!ReplyEnds, Relays!tcp
<1>3. \A y \in Sessions : (Relays!Mapped(y)' <=> Relays!Mapped(y)) /\ (conn'[y] = "open" => y # x)
  BY <1>1 DEF Relays!ReplyEnds, Relays!Mapped, Relays!TypeOK
<1>4. Relays!SessionInv'
  <2>1. \A b \in Sources : sessions[b] # NoSession => sessions[b] \in Sessions
    BY <1>1 DEF Relays!TypeOK
  <2>2. \A y \in Sessions : conn'[y] = "open" => reply'[y] = "read"
    BY <1>1, <1>3 DEF Relays!ReplyEnds, Relays!TypeOK, Relays!SessionInv
  <2>3. \A b \in Sources : sessions[b] # NoSession =>
          source[sessions[b]] = b /\ reply'[sessions[b]] \in {"read", "delete"}
    BY <1>1, <1>3, <2>1 DEF Relays!SessionInv, Relays!Mapped
  <2> QED
    BY <1>1, <1>3, <2>2, <2>3 DEF Relays!SessionInv, Relays!Mapped
<1> QED
  BY <1>1, <1>2, <1>4, ConnFrame DEF Relays!RelayInv

LEMMA DeleteSessionKeeps ==
  ASSUME Relays!ForwardAssumption, Relays!RelayInv, NEW x \in Sessions, Relays!DeleteSession(x)
  PROVE  Relays!RelayInv'
<1>1. /\ Relays!TypeOK /\ Relays!SessionInv /\ Relays!LoopInv
      /\ UNCHANGED <<context, Relays!tcp, loop, packetConn, conn, source>>
      /\ loop.at \notin {"lookup", "dial"} /\ reply[x] = "delete"
  BY DEF Relays!RelayInv, Relays!DeleteSession, Relays!Locked
<1>2. source[x] \in Sources /\ sessions[source[x]] = x
  BY <1>1 DEF Relays!SessionInv, Relays!Mapped
<1>3. Relays!TypeOK' /\ Relays!LoopInv'
  BY <1>1 DEF Relays!TypeOK, Relays!LoopInv, Relays!DeleteSession, Relays!tcp
<1>4. /\ sessions'[source[x]] = NoSession
      /\ \A b \in Sources \ {source[x]} : sessions'[b] = sessions[b]
      /\ reply'[x] = "gone" /\ \A y \in Sessions \ {x} : reply'[y] = reply[y]
  BY <1>1, <1>2 DEF Relays!TypeOK, Relays!DeleteSession
<1>5. Relays!SessionInv'
  <2>1. \A y \in Sessions : reply'[y] \in {"read", "delete"} =>
          source[y] \in Sources /\ sessions'[source[y]] = y
    BY <1>1, <1>2, <1>4 DEF Relays!SessionInv, Relays!Mapped
  <2>2. \A b \in Sources : sessions'[b] # NoSession =>
          source[sessions'[b]] = b /\ reply'[sessions'[b]] \in {"read", "delete"}
    BY <1>1, <1>2, <1>4 DEF Relays!SessionInv, Relays!Mapped, Relays!TypeOK
  <2>3. \A y \in Sessions : conn[y] = "open" => reply'[y] = "read"
    BY <1>1, <1>4 DEF Relays!SessionInv
  <2> QED
    BY <1>1, <2>1, <2>2, <2>3 DEF Relays!SessionInv, Relays!Mapped
<1> QED
  BY <1>1, <1>3, <1>5, ConnFrame DEF Relays!RelayInv

LEMMA WatchContextKeeps == ASSUME Relays!RelayInv, Relays!WatchContext
  PROVE Relays!RelayInv'
<1>1. /\ Relays!TypeOK /\ Relays!SessionInv /\ Relays!LoopInv
      /\ UNCHANGED <<context, Relays!tcp, loop, sessions, reply, source>>
  BY DEF Relays!RelayInv, Relays!WatchContext
<1>2. Relays!TypeOK' /\ Relays!LoopInv'
  BY <1>1 DEF Relays!TypeOK, Relays!LoopInv, Relays!WatchContext, Relays!tcp
<1>3. \A y \in Sessions : conn'[y] = "open" => conn[y] = "open"
  BY <1>1 DEF Relays!WatchContext, Relays!TypeOK
<1>4. Relays!SessionInv'
  BY <1>1, <1>3 DEF Relays!SessionInv, Relays!Mapped
<1> QED
  BY <1>1, <1>2, <1>4, ConnFrame DEF Relays!RelayInv

LEMMA CancelKeeps == ASSUME Relays!RelayInv, Relays!Cancel \/ UNCHANGED Relays!vars
  PROVE Relays!RelayInv'
<1>1. UNCHANGED Relays!tcp /\ UNCHANGED Relays!udp /\ Relays!TypeOK'
  BY DEF Relays!RelayInv, Relays!Cancel, Relays!vars, Relays!TypeOK, Relays!tcp, Relays!udp
<1> QED
  BY <1>1, SessionFrame, ConnFrame DEF Relays!RelayInv

LEMMA NextRelayInv == ASSUME Relays!ForwardAssumption, Relays!RelayInv, [Relays!Next]_(Relays!vars)
  PROVE Relays!RelayInv'
<1>1. ASSUME NEW c \in Conns,
             \/ Relays!Accept(c) \/ Relays!DialTarget(c) \/ Relays!RelayDone(c) \/ Relays!Watcher(c)
             \/ \E d \in Relays!Sides : Relays!CopyEnds(c, d)
      PROVE  Relays!RelayInv'
  BY <1>1, AcceptKeeps, DialTargetKeeps, RelayDoneKeeps, WatcherKeeps, CopyEndsKeeps
<1>2. CASE (\E a \in Sources : Relays!ReadFrom(a)) \/ Relays!ReadFails \/ Relays!Lookup \/ Relays!Write
  BY <1>2, LoopKeeps
<1>3. ASSUME NEW x \in Sessions, Relays!ReplyEnds(x) \/ Relays!DeleteSession(x)
      PROVE Relays!RelayInv'
  BY <1>3, ReplyEndsKeeps, DeleteSessionKeeps
<1>4. CASE Relays!OpenSession \/ Relays!WatchContext \/ Relays!Cancel \/ UNCHANGED Relays!vars
  BY <1>4, OpenSessionKeeps, WatchContextKeeps, CancelKeeps
<1> QED
  BY <1>1, <1>2, <1>3, <1>4 DEF Relays!Next

(* The map and the reply loops agree with each other, and the sides of a    *)
(* TCP connection with its relay.                                           *)
THEOREM RelayInvariance ==
  ASSUME Relays!ForwardAssumption
  PROVE  Relays!Spec => []Relays!RelayInv
<1>1. Relays!RelayInv /\ [Relays!Next]_(Relays!vars) => Relays!RelayInv'
  BY NextRelayInv
<1> QED
  BY <1>1, InitRelayInv, PTL DEF Relays!Spec

(* However the read loop, the reply loops and a disconnect are interleaved, *)
(* a UDP source has one open session at most and the map finds it, and a    *)
(* TCP relay that is over has closed both ends (relayUDPForward,            *)
(* relayTCPConn).                                                           *)
THEOREM RelaysWhole ==
  ASSUME Relays!ForwardAssumption
  PROVE  Relays!Spec => [](Relays!TypeOK /\ Relays!RelaysAreWhole)
<1>1. Relays!RelayInv => Relays!TypeOK /\ Relays!RelaysAreWhole
  <2> SUFFICES ASSUME Relays!RelayInv PROVE Relays!TypeOK /\ Relays!RelaysAreWhole
    OBVIOUS
  <2>1. Relays!OneSessionPerSource
    BY DEF Relays!RelayInv, Relays!SessionInv, Relays!Mapped, Relays!OneSessionPerSource
  <2>2. Relays!MapIsOpen
    BY DEF Relays!RelayInv, Relays!TypeOK, Relays!SessionInv, Relays!Mapped,
           Relays!MapIsOpen, Relays!ForwardAssumption
  <2> QED
    BY <2>1, <2>2 DEF Relays!RelayInv, Relays!RelaysAreWhole
<1> QED
  BY <1>1, RelayInvariance, PTL

-----------------------------------------------------------------------------
(* The sum: what moves is one machine, so that each behaves as by itself.   *)

allVars == <<vars, contract, notices, relays, choices, moving>>

LEMMA RunnerAlone == AllSpec => Spec
<1>1. AllInit => Init
  BY DEF AllInit
<1>2. [AllNext]_allVars => [Next]_vars
  BY DEF allVars, AllNext, Moves, Next
<1> QED
  BY <1>1, <1>2, PTL DEF AllSpec, Spec, allVars

LEMMA ContractAlone == AllSpec => Promised!Spec
<1>1. AllInit => Promised!Init
  BY DEF AllInit
<1>2. [AllNext]_allVars => [Promised!Next]_Promised!vars
  BY DEF allVars, contract, AllNext, Moves, Promised!vars
<1> QED
  BY <1>1, <1>2, PTL DEF AllSpec, Promised!Spec, allVars

LEMMA LoginAlone == AllSpec => Login!Spec
<1>1. AllInit => Login!Init
  BY DEF AllInit
<1>2. [AllNext]_allVars => [Login!Next]_Login!vars
  BY DEF allVars, notices, AllNext, Moves, Login!vars, Login!emitter
<1> QED
  BY <1>1, <1>2, PTL DEF AllSpec, Login!Spec, allVars

LEMMA RelaysAlone == AllSpec => Relays!Spec
<1>1. AllInit => Relays!Init
  BY DEF AllInit
<1>2. [AllNext]_allVars => [Relays!Next]_(Relays!vars)
  BY DEF allVars, relays, AllNext, Moves, Relays!vars, Relays!tcp, Relays!udp
<1> QED
  BY <1>1, <1>2, PTL DEF AllSpec, Relays!Spec, allVars

LEMMA ChoiceAlone == AllSpec => Choice!Spec
<1>1. AllInit => Choice!Init
  BY DEF AllInit
<1>2. [AllNext]_allVars => [Choice!Next]_Choice!vars
  BY DEF allVars, choices, AllNext, Moves, Choice!vars
<1> QED
  BY <1>1, <1>2, PTL DEF AllSpec, Choice!Spec, allVars

(* The table of the adapter and that of the contract hold exactly the live  *)
(* starts (process, removeProcess).                                         *)
THEOREM TablesLive == AllSpec => []TableIsLive
<1>1. TypeOK /\ EntriesAreLive /\ Promised!TypeOK /\ Promised!TableIsLive => TableIsLive
  BY DEF TableIsLive
<1> QED
  BY <1>1, RunnerAlone, ContractAlone, TypeCorrect, EntriesCorrect, TableLive, PTL

(* The notices of a login are true and come in order, for any login URLs,   *)
(* delay and number of polls (tailscaleAuthLogEmitter).                     *)
THEOREM NoticesKept == AllSpec => []NoticesAreTrue
<1>1. Login!TypeOK /\ Login!NoticesAreTrue => NoticesAreTrue
  BY DEF NoticesAreTrue
<1>2. Login!Spec => [](Login!TypeOK /\ Login!NoticesAreTrue)
  BY MachineAssumption, NoticesTrue DEF MachineAssumption
<1> QED
  BY <1>1, <1>2, LoginAlone, PTL

(* The relays of any number of connections, sources and sessions are whole  *)
(* (relayTCPConn, relayUDPForward).                                         *)
THEOREM RelaysKept == AllSpec => []RelaysAreWhole
<1>1. Relays!TypeOK /\ Relays!RelaysAreWhole => RelaysAreWhole
  BY DEF RelaysAreWhole
<1>2. Relays!Spec => [](Relays!TypeOK /\ Relays!RelaysAreWhole)
  BY MachineAssumption, RelaysWhole DEF MachineAssumption
<1> QED
  BY <1>1, <1>2, RelaysAlone, PTL

(* No traffic leaves by another exit than the one that was chosen, whatever *)
(* happens to the peers meanwhile (configureExitNode, exitNodesFromStatus). *)
THEOREM ExitNodeKept == AllSpec => ExitNodeIsChosen
BY ChoiceAlone, ExitNodesKept, PTL DEF ExitNodeIsChosen

=============================================================================
