----------------------- MODULE WireproxyRunnerProofs -----------------------
(***************************************************************************)
(* The safety properties of WireproxyRunner for any number of starts,      *)
(* profiles and addresses, by the inductive invariant IInv.                *)
(***************************************************************************)
EXTENDS WireproxyRunner, TLAPS

USE RunnerAssumption DEF Pcs, Resource, GoTo, resources, stopVars, Closed, Done,
                       BeforeCommit

LEMMA InitInv == Init => IInv
BY DEF Init, IInv, TypeOK, EntriesAreLive, StartInv, Acquired, Disposed, ClosedOnce,
       Unseen, Judged, WaiterInv, WaiterBusy, Live, BeforeCommit, Event

(* A send keeps the channel a sequence of events. *)
LEMMA OfferTypeOK ==
  ASSUME TypeOK, NEW s \in Starts, NEW type \in {"started", "stopped", "error"}
  PROVE  Offer(type, s) \in Seq(Event)
<1>1. [start |-> s, type |-> type] \in Event
  BY DEF Event
<1>2. events \in Seq(Event)
  BY DEF TypeOK
<1>3. Append(events, [start |-> s, type |-> type]) \in Seq(Event)
  BY <1>1, <1>2
<1> QED
  BY <1>2, <1>3 DEF Offer

-----------------------------------------------------------------------------
(* Each action keeps the invariant: the types, the table, the inductive     *)
(* facts about every start t, and those about StopAllAndWait.               *)

LEMMA RefuseKeeps == ASSUME NEW s \in Starts, IInv, Refuse(s) PROVE IInv'
<1>1. TypeOK'
  BY DEF IInv, TypeOK, Refuse
<1>2. EntriesAreLive'
  BY DEF IInv, TypeOK, EntriesAreLive, Live, BeforeCommit, Refuse
<1>3. ASSUME NEW t \in Starts PROVE StartInv(t)'
  BY DEF IInv, TypeOK, EntriesAreLive, StartInv, Acquired, Disposed, ClosedOnce,
         Unseen, Judged, Live, BeforeCommit, Refuse
<1>4. WaiterInv'
  BY DEF IInv, TypeOK, WaiterInv, WaiterBusy, StartInv, ClosedOnce, Unseen, Refuse
<1> QED
  BY <1>1, <1>2, <1>3, <1>4 DEF IInv

LEMMA ReserveKeeps == ASSUME NEW s \in Starts, IInv, Reserve(s) PROVE IInv'
<1>1. TypeOK'
  BY DEF IInv, TypeOK, Reserve
<1>2. EntriesAreLive'
  BY DEF IInv, TypeOK, EntriesAreLive, Live, BeforeCommit, Reserve
<1>3. ASSUME NEW t \in Starts PROVE StartInv(t)'
  BY DEF IInv, TypeOK, EntriesAreLive, StartInv, Acquired, Disposed, ClosedOnce,
         Unseen, Judged, Live, BeforeCommit, Reserve
<1>4. WaiterInv'
  BY DEF IInv, TypeOK, WaiterInv, WaiterBusy, StartInv, ClosedOnce, Unseen, Reserve
<1> QED
  BY <1>1, <1>2, <1>3, <1>4 DEF IInv

LEMMA ParseKeeps == ASSUME NEW s \in Starts, IInv, Parse(s) PROVE IInv'
<1>1. TypeOK'
  BY DEF IInv, TypeOK, Parse
<1>2. EntriesAreLive'
  BY DEF IInv, TypeOK, EntriesAreLive, Live, BeforeCommit, Parse
<1>3. ASSUME NEW t \in Starts PROVE StartInv(t)'
  BY DEF IInv, TypeOK, EntriesAreLive, StartInv, Acquired, Disposed, ClosedOnce,
         Unseen, Judged, Live, BeforeCommit, Parse
<1>4. WaiterInv'
  BY DEF IInv, TypeOK, WaiterInv, WaiterBusy, StartInv, ClosedOnce, Unseen, Parse
<1> QED
  BY <1>1, <1>2, <1>3, <1>4 DEF IInv

LEMMA ListenKeeps == ASSUME NEW s \in Starts, IInv, Listen(s) PROVE IInv'
<1>1. TypeOK'
  BY DEF IInv, TypeOK, Listen
<1>2. EntriesAreLive'
  BY DEF IInv, TypeOK, EntriesAreLive, Live, BeforeCommit, Listen
<1>3. ASSUME NEW t \in Starts PROVE StartInv(t)'
  BY DEF IInv, TypeOK, EntriesAreLive, StartInv, Acquired, Disposed, ClosedOnce,
         Unseen, Judged, Live, BeforeCommit, Listen
<1>4. WaiterInv'
  BY DEF IInv, TypeOK, WaiterInv, WaiterBusy, StartInv, ClosedOnce, Unseen, Listen
<1> QED
  BY <1>1, <1>2, <1>3, <1>4 DEF IInv

LEMMA SetListenerKeeps == ASSUME NEW s \in Starts, IInv, SetListener(s) PROVE IInv'
<1>1. TypeOK'
  BY DEF IInv, TypeOK, SetListener
<1>2. EntriesAreLive'
  BY DEF IInv, TypeOK, EntriesAreLive, Live, BeforeCommit, SetListener
<1>3. ASSUME NEW t \in Starts PROVE StartInv(t)'
  BY DEF IInv, TypeOK, EntriesAreLive, StartInv, Acquired, Disposed, ClosedOnce,
         Unseen, Judged, Live, BeforeCommit, SetListener
<1>4. WaiterInv'
  BY DEF IInv, TypeOK, WaiterInv, WaiterBusy, StartInv, ClosedOnce, Unseen, SetListener
<1> QED
  BY <1>1, <1>2, <1>3, <1>4 DEF IInv

LEMMA CheckCanceledKeeps == ASSUME NEW s \in Starts, IInv, CheckCanceled(s) PROVE IInv'
<1>1. TypeOK'
  BY DEF IInv, TypeOK, CheckCanceled
<1>2. EntriesAreLive'
  BY DEF IInv, TypeOK, EntriesAreLive, Live, BeforeCommit, CheckCanceled
<1>3. ASSUME NEW t \in Starts PROVE StartInv(t)'
  BY DEF IInv, TypeOK, EntriesAreLive, StartInv, Acquired, Disposed, ClosedOnce,
         Unseen, Judged, Live, BeforeCommit, CheckCanceled
<1>4. WaiterInv'
  BY DEF IInv, TypeOK, WaiterInv, WaiterBusy, StartInv, ClosedOnce, Unseen, CheckCanceled
<1> QED
  BY <1>1, <1>2, <1>3, <1>4 DEF IInv

LEMMA StartWireguardKeeps == ASSUME NEW s \in Starts, IInv, StartWireguard(s) PROVE IInv'
<1>1. TypeOK'
  BY DEF IInv, TypeOK, StartWireguard
<1>2. EntriesAreLive'
  BY DEF IInv, TypeOK, EntriesAreLive, Live, BeforeCommit, StartWireguard
<1>3. ASSUME NEW t \in Starts PROVE StartInv(t)'
  BY DEF IInv, TypeOK, EntriesAreLive, StartInv, Acquired, Disposed, ClosedOnce,
         Unseen, Judged, Live, BeforeCommit, StartWireguard
<1>4. WaiterInv'
  BY DEF IInv, TypeOK, WaiterInv, WaiterBusy, StartInv, ClosedOnce, Unseen, StartWireguard
<1> QED
  BY <1>1, <1>2, <1>3, <1>4 DEF IInv

LEMMA SetTunKeeps == ASSUME NEW s \in Starts, IInv, SetTun(s) PROVE IInv'
<1>1. TypeOK'
  BY DEF IInv, TypeOK, SetTun
<1>2. EntriesAreLive'
  BY DEF IInv, TypeOK, EntriesAreLive, Live, BeforeCommit, SetTun
<1>3. ASSUME NEW t \in Starts PROVE StartInv(t)'
  BY DEF IInv, TypeOK, EntriesAreLive, StartInv, Acquired, Disposed, ClosedOnce,
         Unseen, Judged, Live, BeforeCommit, SetTun
<1>4. WaiterInv'
  BY DEF IInv, TypeOK, WaiterInv, WaiterBusy, StartInv, ClosedOnce, Unseen, SetTun
<1> QED
  BY <1>1, <1>2, <1>3, <1>4 DEF IInv

LEMMA CommitStartKeeps == ASSUME NEW s \in Starts, IInv, CommitStart(s) PROVE IInv'
<1>1. TypeOK'
  BY DEF IInv, TypeOK, CommitStart
<1>2. EntriesAreLive'
  BY DEF IInv, TypeOK, EntriesAreLive, Live, BeforeCommit, CommitStart
<1>3. ASSUME NEW t \in Starts PROVE StartInv(t)'
  BY DEF IInv, TypeOK, EntriesAreLive, StartInv, Acquired, Disposed, ClosedOnce,
         Unseen, Judged, Live, BeforeCommit, CommitStart
<1>4. WaiterInv'
  BY DEF IInv, TypeOK, WaiterInv, WaiterBusy, StartInv, ClosedOnce, Unseen, CommitStart
<1> QED
  BY <1>1, <1>2, <1>3, <1>4 DEF IInv

LEMMA AnnounceKeeps == ASSUME NEW s \in Starts, IInv, Announce(s) PROVE IInv'
<1>1. TypeOK'
  BY OfferTypeOK DEF IInv, TypeOK, Announce
<1>2. EntriesAreLive'
  BY DEF IInv, TypeOK, EntriesAreLive, Live, BeforeCommit, Announce
<1>3. ASSUME NEW t \in Starts PROVE StartInv(t)'
  BY DEF IInv, TypeOK, EntriesAreLive, StartInv, Acquired, Disposed, ClosedOnce,
         Unseen, Judged, Live, BeforeCommit, Announce
<1>4. WaiterInv'
  BY DEF IInv, TypeOK, WaiterInv, WaiterBusy, StartInv, ClosedOnce, Unseen, Announce
<1> QED
  BY <1>1, <1>2, <1>3, <1>4 DEF IInv

LEMMA ServeEndsKeeps == ASSUME NEW s \in Starts, IInv, ServeEnds(s) PROVE IInv'
<1>1. TypeOK'
  BY DEF IInv, TypeOK, ServeEnds
<1>2. EntriesAreLive'
  BY DEF IInv, TypeOK, EntriesAreLive, Live, BeforeCommit, ServeEnds
<1>3. ASSUME NEW t \in Starts PROVE StartInv(t)'
  BY DEF IInv, TypeOK, EntriesAreLive, StartInv, Acquired, Disposed, ClosedOnce,
         Unseen, Judged, Live, BeforeCommit, ServeEnds
<1>4. WaiterInv'
  BY DEF IInv, TypeOK, WaiterInv, WaiterBusy, StartInv, ClosedOnce, Unseen, ServeEnds
<1> QED
  BY <1>1, <1>2, <1>3, <1>4 DEF IInv

LEMMA CloseSelfKeeps == ASSUME NEW s \in Starts, IInv, CloseSelf(s) PROVE IInv'
<1>1. TypeOK'
  BY DEF IInv, TypeOK, CloseSelf
<1>2. EntriesAreLive'
  BY DEF IInv, TypeOK, EntriesAreLive, Live, BeforeCommit, CloseSelf
<1>3. ASSUME NEW t \in Starts PROVE StartInv(t)'
  BY DEF IInv, TypeOK, EntriesAreLive, StartInv, Acquired, Disposed, ClosedOnce,
         Unseen, Judged, Live, BeforeCommit, CloseSelf
<1>4. WaiterInv'
  <2>1. CASE Closed(s)
    BY <2>1 DEF IInv, TypeOK, WaiterInv, WaiterBusy, CloseSelf
  <2>2. CASE ~Closed(s)
    BY <2>2 DEF IInv, TypeOK, WaiterInv, WaiterBusy, CloseSelf
  <2> QED
    BY <2>1, <2>2
<1> QED
  BY <1>1, <1>2, <1>3, <1>4 DEF IInv

LEMMA ClosedSelfKeeps == ASSUME NEW s \in Starts, IInv, ClosedSelf(s) PROVE IInv'
<1>1. TypeOK'
  BY DEF IInv, TypeOK, ClosedSelf
<1>2. EntriesAreLive'
  BY DEF IInv, TypeOK, EntriesAreLive, Live, BeforeCommit, ClosedSelf
<1>3. ASSUME NEW t \in Starts PROVE StartInv(t)'
  BY DEF IInv, TypeOK, EntriesAreLive, StartInv, Acquired, Disposed, ClosedOnce,
         Unseen, Judged, Live, BeforeCommit, ClosedSelf
<1>4. WaiterInv'
  BY DEF IInv, TypeOK, WaiterInv, WaiterBusy, StartInv, ClosedOnce, Unseen, ClosedSelf
<1> QED
  BY <1>1, <1>2, <1>3, <1>4 DEF IInv

LEMMA RemoveProcessKeeps == ASSUME NEW s \in Starts, IInv, RemoveProcess(s) PROVE IInv'
<1>1. TypeOK'
  BY DEF IInv, TypeOK, RemoveProcess
<1>2. EntriesAreLive'
  BY DEF IInv, TypeOK, EntriesAreLive, Live, BeforeCommit, RemoveProcess
<1>3. ASSUME NEW t \in Starts PROVE StartInv(t)'
  BY DEF IInv, TypeOK, EntriesAreLive, StartInv, Acquired, Disposed, ClosedOnce,
         Unseen, Judged, Live, BeforeCommit, RemoveProcess
<1>4. WaiterInv'
  BY DEF IInv, TypeOK, WaiterInv, WaiterBusy, StartInv, ClosedOnce, Unseen, RemoveProcess
<1> QED
  BY <1>1, <1>2, <1>3, <1>4 DEF IInv

LEMMA ReportKeeps == ASSUME NEW s \in Starts, IInv, Report(s) PROVE IInv'
<1>1. TypeOK'
  <2>1. verdict[s] \in {"started", "stopped", "error"}
    BY DEF IInv, TypeOK, StartInv, Judged, Report
  <2> QED
    BY <2>1, OfferTypeOK DEF IInv, TypeOK, Report
<1>2. EntriesAreLive'
  BY DEF IInv, TypeOK, EntriesAreLive, Live, BeforeCommit, Report
<1>3. ASSUME NEW t \in Starts PROVE StartInv(t)'
  BY DEF IInv, TypeOK, EntriesAreLive, StartInv, Acquired, Disposed, ClosedOnce,
         Unseen, Judged, Live, BeforeCommit, Report
<1>4. WaiterInv'
  BY DEF IInv, TypeOK, WaiterInv, WaiterBusy, StartInv, ClosedOnce, Unseen, Report
<1> QED
  BY <1>1, <1>2, <1>3, <1>4 DEF IInv

LEMMA CloseStepKeeps == ASSUME NEW s \in Starts, IInv, CloseStep(s) PROVE IInv'
<1>1. TypeOK'
  BY DEF IInv, TypeOK, CloseStep
<1>2. EntriesAreLive'
  BY DEF IInv, TypeOK, EntriesAreLive, Live, BeforeCommit, CloseStep
<1>3. ASSUME NEW t \in Starts PROVE StartInv(t)'
  BY DEF IInv, TypeOK, EntriesAreLive, StartInv, Acquired, Disposed, ClosedOnce,
         Unseen, Judged, Live, BeforeCommit, CloseStep
<1>4. WaiterInv'
  BY DEF IInv, TypeOK, WaiterInv, WaiterBusy, StartInv, ClosedOnce, Unseen, CloseStep
<1> QED
  BY <1>1, <1>2, <1>3, <1>4 DEF IInv

LEMMA CancelStartKeeps == ASSUME NEW s \in Starts, IInv, CancelStart(s) PROVE IInv'
<1>1. TypeOK'
  BY DEF IInv, TypeOK, CancelStart
<1>2. EntriesAreLive'
  BY DEF IInv, TypeOK, EntriesAreLive, Live, BeforeCommit, CancelStart
<1>3. ASSUME NEW t \in Starts PROVE StartInv(t)'
  BY DEF IInv, TypeOK, EntriesAreLive, StartInv, Acquired, Disposed, ClosedOnce,
         Unseen, Judged, Live, BeforeCommit, CancelStart
<1>4. WaiterInv'
  BY DEF IInv, TypeOK, WaiterInv, WaiterBusy, StartInv, ClosedOnce, Unseen, CancelStart
<1> QED
  BY <1>1, <1>2, <1>3, <1>4 DEF IInv

LEMMA StopCloseKeeps == ASSUME NEW s \in Starts, IInv, StopClose(s) PROVE IInv'
<1>1. TypeOK'
  BY DEF IInv, TypeOK, StopClose, CloseBy
<1>2. EntriesAreLive'
  BY DEF IInv, TypeOK, EntriesAreLive, Live, BeforeCommit, StopClose, CloseBy
<1>3. ASSUME NEW t \in Starts PROVE StartInv(t)'
  BY DEF IInv, TypeOK, EntriesAreLive, StartInv, Acquired, Disposed, ClosedOnce,
         Unseen, Judged, Live, BeforeCommit, StopClose, CloseBy
<1>4. WaiterInv'
  BY DEF IInv, TypeOK, WaiterInv, WaiterBusy, StartInv, ClosedOnce, Unseen, StopClose, CloseBy
<1> QED
  BY <1>1, <1>2, <1>3, <1>4 DEF IInv

LEMMA WaiterCloseKeeps == ASSUME NEW s \in Starts, IInv, WaiterClose(s) PROVE IInv'
<1>1. TypeOK'
  BY DEF IInv, TypeOK, WaiterClose, CloseBy, WaiterBusy
<1>2. EntriesAreLive'
  BY DEF IInv, TypeOK, EntriesAreLive, Live, BeforeCommit, WaiterClose, CloseBy, WaiterBusy
<1>3. ASSUME NEW t \in Starts PROVE StartInv(t)'
  <2>1. pc[s] # "new"
    BY DEF IInv, WaiterInv, StartInv, Unseen, WaiterClose
  <2> QED
    BY <2>1 DEF IInv, TypeOK, StartInv, Acquired, Disposed, ClosedOnce, Unseen,
                Judged, WaiterClose, CloseBy
<1>4. WaiterInv'
  BY DEF IInv, TypeOK, WaiterInv, WaiterBusy, StartInv, ClosedOnce, Unseen, WaiterClose, CloseBy, WaiterBusy
<1> QED
  BY <1>1, <1>2, <1>3, <1>4 DEF IInv

LEMMA StopKeeps == ASSUME NEW p \in Profiles, IInv, Stop(p) PROVE IInv'
<1>1. TypeOK'
  BY DEF IInv, TypeOK, Stop
<1>2. EntriesAreLive'
  BY DEF IInv, TypeOK, EntriesAreLive, Live, BeforeCommit, Stop
<1>3. ASSUME NEW t \in Starts PROVE StartInv(t)'
  BY DEF IInv, TypeOK, EntriesAreLive, StartInv, Acquired, Disposed, ClosedOnce,
         Unseen, Judged, Live, BeforeCommit, Stop
<1>4. WaiterInv'
  BY DEF IInv, TypeOK, WaiterInv, WaiterBusy, StartInv, ClosedOnce, Unseen, Stop
<1> QED
  BY <1>1, <1>2, <1>3, <1>4 DEF IInv

LEMMA StopAllKeeps == ASSUME IInv, StopAll PROVE IInv'
<1>1. TypeOK'
  BY DEF IInv, TypeOK, StopAll, Registered
<1>2. EntriesAreLive'
  BY DEF IInv, TypeOK, EntriesAreLive, Live, BeforeCommit, StopAll, Registered
<1>3. ASSUME NEW t \in Starts PROVE StartInv(t)'
  BY DEF IInv, TypeOK, EntriesAreLive, StartInv, Acquired, Disposed, ClosedOnce,
         Unseen, Judged, Live, BeforeCommit, StopAll, Registered
<1>4. WaiterInv'
  BY DEF IInv, TypeOK, WaiterInv, WaiterBusy, StartInv, ClosedOnce, Unseen, StopAll, Registered
<1> QED
  BY <1>1, <1>2, <1>3, <1>4 DEF IInv

LEMMA StopAllAndWaitKeeps == ASSUME IInv, StopAllAndWait PROVE IInv'
<1>1. TypeOK'
  BY DEF IInv, TypeOK, StopAllAndWait, Registered
<1>2. EntriesAreLive'
  BY DEF IInv, TypeOK, EntriesAreLive, Live, BeforeCommit, StopAllAndWait, Registered
<1>3. ASSUME NEW t \in Starts PROVE StartInv(t)'
  BY DEF IInv, TypeOK, EntriesAreLive, StartInv, Acquired, Disposed, ClosedOnce,
         Unseen, Judged, Live, BeforeCommit, StopAllAndWait, Registered
<1>4. WaiterInv'
  BY DEF IInv, TypeOK, WaiterInv, WaiterBusy, StartInv, ClosedOnce, Unseen, StopAllAndWait, Registered
<1> QED
  BY <1>1, <1>2, <1>3, <1>4 DEF IInv

LEMMA WaiterWaitKeeps == ASSUME IInv, WaiterWait PROVE IInv'
<1>1. TypeOK'
  BY DEF IInv, TypeOK, WaiterWait
<1>2. EntriesAreLive'
  BY DEF IInv, TypeOK, EntriesAreLive, Live, BeforeCommit, WaiterWait
<1>3. ASSUME NEW t \in Starts PROVE StartInv(t)'
  BY DEF IInv, TypeOK, EntriesAreLive, StartInv, Acquired, Disposed, ClosedOnce,
         Unseen, Judged, Live, BeforeCommit, WaiterWait
<1>4. WaiterInv'
  BY DEF IInv, TypeOK, WaiterInv, WaiterBusy, StartInv, ClosedOnce, Unseen, WaiterWait
<1> QED
  BY <1>1, <1>2, <1>3, <1>4 DEF IInv

LEMMA WaiterReturnKeeps == ASSUME IInv, WaiterReturn PROVE IInv'
<1>1. TypeOK'
  BY DEF IInv, TypeOK, WaiterReturn
<1>2. EntriesAreLive'
  BY DEF IInv, TypeOK, EntriesAreLive, Live, BeforeCommit, WaiterReturn
<1>3. ASSUME NEW t \in Starts PROVE StartInv(t)'
  BY DEF IInv, TypeOK, EntriesAreLive, StartInv, Acquired, Disposed, ClosedOnce,
         Unseen, Judged, Live, BeforeCommit, WaiterReturn
<1>4. WaiterInv'
  BY DEF IInv, TypeOK, WaiterInv, WaiterBusy, StartInv, ClosedOnce, Unseen, WaiterReturn
<1> QED
  BY <1>1, <1>2, <1>3, <1>4 DEF IInv

LEMMA WaiterTimeoutKeeps == ASSUME IInv, WaiterTimeout PROVE IInv'
<1>1. TypeOK'
  BY DEF IInv, TypeOK, WaiterTimeout
<1>2. EntriesAreLive'
  BY DEF IInv, TypeOK, EntriesAreLive, Live, BeforeCommit, WaiterTimeout
<1>3. ASSUME NEW t \in Starts PROVE StartInv(t)'
  BY DEF IInv, TypeOK, EntriesAreLive, StartInv, Acquired, Disposed, ClosedOnce,
         Unseen, Judged, Live, BeforeCommit, WaiterTimeout
<1>4. WaiterInv'
  BY DEF IInv, TypeOK, WaiterInv, WaiterBusy, StartInv, ClosedOnce, Unseen, WaiterTimeout
<1> QED
  BY <1>1, <1>2, <1>3, <1>4 DEF IInv

LEMMA ReceiveKeeps == ASSUME IInv, Receive PROVE IInv'
<1>1. TypeOK'
  BY DEF IInv, TypeOK, Receive, Event
<1>2. EntriesAreLive'
  BY DEF IInv, TypeOK, EntriesAreLive, Live, BeforeCommit, Receive, Event
<1>3. ASSUME NEW t \in Starts PROVE StartInv(t)'
  BY DEF IInv, TypeOK, EntriesAreLive, StartInv, Acquired, Disposed, ClosedOnce,
         Unseen, Judged, Live, BeforeCommit, Receive, Event
<1>4. WaiterInv'
  BY DEF IInv, TypeOK, WaiterInv, WaiterBusy, StartInv, ClosedOnce, Unseen, Receive, Event
<1> QED
  BY <1>1, <1>2, <1>3, <1>4 DEF IInv

-----------------------------------------------------------------------------
LEMMA NextInv == IInv /\ [Next]_vars => IInv'
<1> SUFFICES ASSUME IInv, [Next]_vars PROVE IInv'
  OBVIOUS
<1>1. CASE UNCHANGED vars
  BY <1>1 DEF vars, IInv, TypeOK, EntriesAreLive, StartInv, Acquired, Disposed,
              ClosedOnce, Unseen, Judged, WaiterInv, WaiterBusy
<1>2. ASSUME NEW s \in Starts, Goroutine(s) PROVE IInv'
  BY <1>2, ParseKeeps, ListenKeeps, SetListenerKeeps, CheckCanceledKeeps,
     StartWireguardKeeps, SetTunKeeps, CommitStartKeeps, AnnounceKeeps, CloseSelfKeeps,
     ClosedSelfKeeps, RemoveProcessKeeps, ReportKeeps DEF Goroutine
<1>3. CASE Next
  BY <1>2, <1>3, RefuseKeeps, ReserveKeeps, ServeEndsKeeps, CloseStepKeeps,
     CancelStartKeeps, StopCloseKeeps, WaiterCloseKeeps, StopKeeps, StopAllKeeps,
     StopAllAndWaitKeeps, WaiterWaitKeeps, WaiterReturnKeeps, WaiterTimeoutKeeps,
     ReceiveKeeps DEF Next
<1> QED
  BY <1>1, <1>3

(* IInv is an invariant of the runner: what is below follows from it.       *)
THEOREM Invariance == Spec => []IInv
BY InitInv, NextInv, PTL DEF Spec

(* Every variable of internal/wireproxy.Runner keeps its type.              *)
THEOREM TypeCorrect == Spec => []TypeOK
<1>1. IInv => TypeOK
  BY DEF IInv
<1> QED
  BY <1>1, Invariance, PTL

(* procs and the goroutines agree: no process runs that Stop cannot find,   *)
(* and no entry outlives its process (removeProcess, runner.go:246-253).    *)
THEOREM EntriesCorrect == Spec => []EntriesAreLive
<1>1. IInv => EntriesAreLive
  BY DEF IInv
<1> QED
  BY <1>1, Invariance, PTL

(* However process.close races with setListener and setTun, a process that  *)
(* is gone and completely closed keeps neither listener nor device.         *)
THEOREM ResourcesReleased == Spec => []NoLeak
<1>1. IInv => NoLeak
  BY DEF IInv, TypeOK, StartInv, Acquired, Disposed, ClosedOnce, NoLeak, Released
<1> QED
  BY <1>1, Invariance, PTL

(* What commitStart lets through is whole: listener open, device live.      *)
THEOREM CommittedWhole == Spec => []CommittedIsWhole
<1>1. IInv => CommittedIsWhole
  BY DEF IInv, TypeOK, StartInv, Acquired, Disposed, CommittedIsWhole
<1> QED
  BY <1>1, Invariance, PTL

(* After StopAllAndWait returned nil the processes it found are gone and    *)
(* released, except where a concurrent Stop has not finished closing.       *)
THEOREM WaitReleases == Spec => []WaitedIsReleased
<1>1. IInv => WaitedIsReleased
  <2> SUFFICES ASSUME IInv, waiter = "returned", NEW s \in snapshot
               PROVE  /\ Done(s)
                      /\ closing[s] # "closed" => closer[s] = "stop"
                      /\ closing[s] = "closed" => Released(s)
    BY DEF WaitedIsReleased
  <2>1. s \in Starts /\ Done(s) /\ Closed(s)
    BY DEF IInv, TypeOK, WaiterInv
  <2>2. closing[s] # "closed" => closer[s] = "stop"
    BY <2>1 DEF IInv, TypeOK, StartInv, ClosedOnce, WaiterInv, WaiterBusy
  <2>3. closing[s] = "closed" => Released(s)
    BY <2>1 DEF IInv, TypeOK, StartInv, Acquired, Disposed, Released
  <2> QED
    BY <2>1, <2>2, <2>3
<1> QED
  BY <1>1, Invariance, PTL

-----------------------------------------------------------------------------
(* The refinement of Backend: phase and stopped are its variables as the    *)
(* INSTANCE in WireproxyRunner maps them.                                   *)

phase == [s \in Starts |-> Phase(s)]
stopped == {s \in Starts : Closed(s)}

USE DEF Phase, phase, stopped

LEMMA InitMaps == Init => Contract!Init
BY DEF Init, Contract!Init

(* What happens between two points the contract names is a stutter. *)
LEMMA StartStutters ==
  ASSUME NEW s \in Starts, IInv,
         \/ Parse(s) \/ Listen(s) \/ SetListener(s) \/ CheckCanceled(s)
         \/ StartWireguard(s) \/ SetTun(s) \/ ServeEnds(s) \/ ClosedSelf(s)
  PROVE  UNCHANGED Contract!vars
<1>1. \A t \in Starts : Phase(t)' = Phase(t)
  BY DEF IInv, TypeOK, StartInv, Judged, Parse, Listen, SetListener, CheckCanceled,
         StartWireguard, SetTun, ServeEnds, ClosedSelf
<1>2. UNCHANGED <<closing, procs, events>>
  BY DEF Parse, Listen, SetListener, CheckCanceled, StartWireguard, SetTun, ServeEnds,
         ClosedSelf
<1> QED
  BY <1>1, <1>2 DEF Contract!vars

LEMMA CallersStutter ==
  ASSUME IInv,
         \/ \E s \in Starts : CloseStep(s) \/ CancelStart(s)
         \/ \E p \in Profiles : Stop(p)
         \/ StopAll \/ StopAllAndWait \/ WaiterWait \/ WaiterReturn \/ WaiterTimeout
  PROVE  UNCHANGED Contract!vars
<1>1. UNCHANGED <<pc, verdict, procs, events>>
  BY DEF CloseStep, CancelStart, Stop, StopAll, StopAllAndWait, WaiterWait,
         WaiterReturn, WaiterTimeout
<1>2. \A t \in Starts : Closed(t)' = Closed(t)
  BY DEF IInv, TypeOK, CloseStep, CancelStart, Stop, StopAll, StopAllAndWait,
         WaiterWait, WaiterReturn, WaiterTimeout
<1> QED
  BY <1>1, <1>2 DEF Contract!vars

LEMMA RefuseMaps == ASSUME NEW s \in Starts, IInv, Refuse(s) PROVE Contract!Refuse(s)
<1>1. phase' = [phase EXCEPT ![s] = "gone"]
  BY DEF IInv, TypeOK, Refuse
<1>2. stopped' = stopped
  BY DEF Refuse
<1> QED
  BY <1>1, <1>2 DEF Contract!Refuse, Refuse

LEMMA ReserveMaps ==
  ASSUME NEW s \in Starts, IInv, Reserve(s)
  PROVE  Contract!Reserve(s, ProfileOf[s])
<1>1. phase' = [phase EXCEPT ![s] = "reserved"]
  BY DEF IInv, TypeOK, StartInv, Judged, Reserve
<1>2. stopped' = stopped
  BY DEF Reserve
<1> QED
  BY <1>1, <1>2 DEF Contract!Reserve, Reserve

LEMMA CommitMaps ==
  ASSUME NEW s \in Starts, IInv, CommitStart(s)
  PROVE  Contract!Commit(s) \/ UNCHANGED Contract!vars
<1>1. stopped' = stopped
  BY DEF CommitStart
<1>2. CASE Closed(s)
  <2>1. phase' = phase
    BY <1>2 DEF IInv, TypeOK, StartInv, Judged, CommitStart
  <2> QED
    BY <1>1, <2>1 DEF Contract!vars, CommitStart
<1>3. CASE ~Closed(s)
  <2>1. phase' = [phase EXCEPT ![s] = "committed"]
    BY <1>3 DEF IInv, TypeOK, CommitStart
  <2>2. phase[s] = "reserved"
    BY DEF IInv, StartInv, Judged, CommitStart
  <2> QED
    BY <1>1, <1>3, <2>1, <2>2 DEF Contract!Commit, CommitStart
<1> QED
  BY <1>2, <1>3

LEMMA AnnounceMaps == ASSUME NEW s \in Starts, IInv, Announce(s) PROVE Contract!Announce(s)
<1>1. phase' = [phase EXCEPT ![s] = "serving"]
  BY DEF IInv, TypeOK, Announce
<1>2. stopped' = stopped
  BY DEF Announce
<1> QED
  BY <1>1, <1>2 DEF Contract!Announce, Contract!Offer, Announce, Offer

LEMMA RemoveMaps ==
  ASSUME NEW s \in Starts, IInv, RemoveProcess(s)
  PROVE  Contract!Leave(s) \/ Contract!Abandon(s)
<1>1. phase' = [phase EXCEPT ![s] = IF verdict[s] = "none" THEN "gone" ELSE "leaving"]
  BY DEF IInv, TypeOK, RemoveProcess
<1>2. stopped' = stopped \cup {s}
  <2>1. Closed(s)
    BY DEF IInv, TypeOK, RemoveProcess, StartInv, ClosedOnce
  <2>2. stopped' = stopped
    BY DEF RemoveProcess
  <2> QED
    BY <2>1, <2>2
<1>3. procs' = Contract!Without(procs, s)
  <2>1. \A p \in Profiles : procs[p] = s => p = ProfileOf[s]
    BY DEF IInv, EntriesAreLive
  <2> QED
    BY <2>1 DEF IInv, TypeOK, RemoveProcess, Contract!Without
<1>4. phase[s] = IF verdict[s] = "none" THEN "reserved" ELSE "serving"
  BY DEF IInv, TypeOK, RemoveProcess
<1>5. UNCHANGED events
  BY DEF RemoveProcess
<1>6. CASE verdict[s] = "none"
  BY <1>1, <1>2, <1>3, <1>4, <1>5, <1>6 DEF Contract!Abandon
<1>7. CASE verdict[s] # "none"
  BY <1>1, <1>2, <1>3, <1>4, <1>5, <1>7 DEF Contract!Leave
<1> QED
  BY <1>6, <1>7

LEMMA ReportMaps == ASSUME NEW s \in Starts, IInv, Report(s) PROVE Contract!Report(s)
<1>1. phase' = [phase EXCEPT ![s] = "gone"]
  BY DEF IInv, TypeOK, Report
<1>2. stopped' = stopped
  BY DEF Report
<1>3. verdict[s] \in {"stopped", "error"}
  BY DEF IInv, TypeOK, StartInv, Judged, Report
<1> QED
  BY <1>1, <1>2, <1>3 DEF Contract!Report, Contract!Offer, Report, Offer

(* The one effective close() of a process is the contract's Stop. *)
LEMMA CloseMaps ==
  ASSUME NEW s \in Starts, IInv, CloseSelf(s) \/ StopClose(s) \/ WaiterClose(s)
  PROVE  Contract!Stop({s}) \/ UNCHANGED Contract!vars
<1>1. phase' = phase
  BY DEF IInv, TypeOK, CloseSelf, StopClose, WaiterClose
<1>2. UNCHANGED <<procs, events>>
  BY DEF CloseSelf, StopClose, WaiterClose
<1>3. CASE Closed(s)
  <2>1. stopped' = stopped
    BY <1>3 DEF CloseSelf, StopClose, WaiterClose, CloseBy
  <2> QED
    BY <1>1, <1>2, <2>1 DEF Contract!vars
<1>4. CASE ~Closed(s)
  <2>1. stopped' = stopped \cup {s}
    BY <1>4 DEF IInv, TypeOK, CloseSelf, StopClose, WaiterClose, CloseBy
  <2>2. pc[s] \notin {"new", "gone", "report"}
    BY <1>4 DEF IInv, TypeOK, StartInv, Unseen, ClosedOnce, WaiterInv, CloseSelf,
                StopClose, WaiterClose
  <2>3. phase[s] \in {"reserved", "committed", "serving"}
    BY <2>2 DEF IInv, TypeOK
  <2> QED
    BY <1>1, <1>2, <2>1, <2>3 DEF Contract!Stop
<1> QED
  BY <1>3, <1>4

LEMMA ReceiveMaps == ASSUME IInv, Receive PROVE Contract!Receive
BY DEF Contract!Receive, Receive

LEMMA StepMaps == IInv /\ [Next]_vars => [Contract!Next]_Contract!vars
<1> SUFFICES ASSUME IInv, [Next]_vars PROVE Contract!Next \/ UNCHANGED Contract!vars
  OBVIOUS
<1>1. CASE UNCHANGED vars
  BY <1>1 DEF vars, Contract!vars
<1>2. ASSUME NEW s \in Starts, Goroutine(s)
      PROVE  Contract!Next \/ UNCHANGED Contract!vars
  BY <1>2, StartStutters, CommitMaps, AnnounceMaps, CloseMaps, RemoveMaps, ReportMaps
     DEF Goroutine, Contract!Next
<1>3. ASSUME NEW s \in Starts,
             \/ Refuse(s) \/ Reserve(s) \/ ServeEnds(s) \/ CloseStep(s)
             \/ CancelStart(s) \/ StopClose(s) \/ WaiterClose(s)
      PROVE  Contract!Next \/ UNCHANGED Contract!vars
  BY <1>3, RefuseMaps, ReserveMaps, StartStutters, CallersStutter, CloseMaps
     DEF Contract!Next
<1>4. CASE Next
  BY <1>2, <1>3, <1>4, CallersStutter, ReceiveMaps DEF Next, Contract!Next
<1> QED
  BY <1>1, <1>4

(* The WireGuard adapter implements the contract of a runtime adapter: one  *)
(* entry per profile, a start stopped before its commit point never         *)
(* reported, and the entry gone before the final event (runner.go:96-213).  *)
THEOREM RunnerImplementsBackend == Spec => ImplementsBackend
<1>1. Spec => Contract!Init /\ [][Contract!Next]_Contract!vars
  BY InitMaps, StepMaps, Invariance, PTL DEF Spec
<1> QED
  BY <1>1 DEF ImplementsBackend, Contract!Spec

=============================================================================
