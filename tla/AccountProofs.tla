--------------------------- MODULE AccountProofs ---------------------------
(***************************************************************************)
(* What Account promises about the login of a profile, for any exit nodes, *)
(* any number of edits and starts, and whichever writes fail, by the       *)
(* inductive invariant IInv.                                               *)
(***************************************************************************)
EXTENDS Account, TLAPS

USE DEF vars, runtime, Unmarked, Unsaved, Persist, Free, Drained, Locked, Running,
        Starting, KeyOrFlag

LEMMA InitInv == ASSUME AccountAssumption, Init PROVE IInv
<1>1. /\ New \in Profile /\ [New EXCEPT !.key = TRUE] \in Profile
  <2>1. Direct \in Exits /\ 0 \in 0..MaxEdits
    BY DEF AccountAssumption
  <2>2. New \in Profile
    BY <2>1 DEF New, Profile
  <2> QED
    BY <2>2 DEF Profile
<1>2. TypeOK
  <2>1. mem \in Profile
    BY <1>1 DEF Init
  <2>2. events \in Seq({"started", "stopped", "error"})
    BY DEF Init
  <2> QED
    BY <2>1, <2>2 DEF Init, TypeOK, AccountAssumption
<1> QED
  BY <1>2 DEF Init, IInv, New, MemoryIsStored, KeysGo, StartIsEntered, OneCall,
              StartIsAlone, LogoutIsAlone, LiveIsSaved, FlagHasLogin, FlagIsSet,
              StartedPending

(* What the operators of Account return. *)
LEMMA EditsOfTyped ==
  ASSUME AccountAssumption, TypeOK, NEW q \in Profile, NEW p \in EditsOf(q)
  PROVE  p \in Profile /\ KeyOrFlag(p) /\ p.authenticated = q.authenticated
<1>1. PICK e \in Exits, k \in BOOLEAN, n \in {mem.edits, mem.edits + 1} \cap (0..MaxEdits) :
        p = Edited(q, e, k, n)
  BY DEF EditsOf
<1>2. PICK r : r = [q EXCEPT !.exit = e, !.key = k, !.edits = n]
  OBVIOUS
<1>3. r \in Profile /\ r.authenticated = q.authenticated
  BY <1>2 DEF Profile
<1>4. p = [r EXCEPT !.key = @ /\ ~r.authenticated]
  BY <1>1, <1>2 DEF Edited, Normalized
<1>5. p \in Profile /\ p.authenticated = r.authenticated /\ (p.authenticated => ~p.key)
  BY <1>3, <1>4 DEF Profile
<1> QED
  BY <1>3, <1>5

(* A started event that waits for the service, as the channel moves. *)
LEMMA PendingSame == events' = events => (StartedPending' <=> StartedPending)
BY DEF StartedPending

LEMMA PendingAppend ==
  ASSUME TypeOK, NEW e \in {"started", "stopped", "error"}, events' = Append(events, e)
  PROVE  /\ events' \in Seq({"started", "stopped", "error"})
         /\ events' # <<>>
         /\ StartedPending' <=> (StartedPending \/ e = "started")
<1>1. events \in Seq({"started", "stopped", "error"})
  BY DEF TypeOK
<1> QED
  BY <1>1 DEF StartedPending

LEMMA PendingTail ==
  ASSUME TypeOK, events # <<>>, events' = Tail(events)
  PROVE  /\ events' \in Seq({"started", "stopped", "error"})
         /\ Head(events) \in {"started", "stopped", "error"}
         /\ StartedPending <=> (StartedPending' \/ Head(events) = "started")
<1>1. events \in Seq({"started", "stopped", "error"})
  BY DEF TypeOK
<1>2. /\ Len(events') = Len(events) - 1 /\ Len(events) \in Nat \ {0}
      /\ Head(events) = events[1]
      /\ \A n \in 1..Len(events') : events'[n] = events[n + 1]
  OBVIOUS
<1>5. events' \in Seq({"started", "stopped", "error"}) /\ Head(events) \in {"started", "stopped", "error"}
  BY <1>1
<1> QED
  BY <1>2, <1>5 DEF StartedPending

(* markTailscaleAuthenticated: the flag, or nothing. *)
LEMMA MarkOutcomes ==
  ASSUME TypeOK, MarkAuthenticated
  PROVE  \/ Unmarked /\ mem.authenticated
         \/ /\ ~mem.authenticated
            /\ Persist([mem EXCEPT !.key = FALSE, !.authenticated = TRUE]) /\ UNCHANGED told
         \/ Unsaved /\ told'
BY DEF MarkAuthenticated

LEMMA MarkTyped ==
  ASSUME TypeOK, MarkAuthenticated PROVE mem' \in Profile /\ store' \in Profile
<1>1. mem \in Profile /\ store \in Profile
  BY DEF TypeOK
<1>2. PICK r : r = [mem EXCEPT !.key = FALSE, !.authenticated = TRUE]
  OBVIOUS
<1>3. r \in Profile
  BY <1>1, <1>2 DEF Profile
<1>4. \/ mem' = mem /\ store' = store
      \/ mem' = r /\ store' = r
  BY <1>2 DEF MarkAuthenticated
<1> QED
  BY <1>1, <1>3, <1>4


(* Save, whichever of its writes fail. *)
SaveFacts(p) ==
  /\ p \in Profile /\ KeyOrFlag(p)
  /\ \/ p.authenticated = mem.authenticated
     \/ form # NoForm /\ p.authenticated = form.authenticated

LEMMA SaveKeeps ==
  ASSUME AccountAssumption, IInv, NEW p, SaveFacts(p), Save(p), form' \in {form, NoForm}
  PROVE  IInv'
<1>0. events' = events /\ (StartedPending' <=> StartedPending)
  BY PendingSame DEF Save
<1>1. TypeOK'
  <2>1. {mem, store, conf}' \subseteq Profile
    BY DEF IInv, TypeOK, Save, SaveFacts
  <2>2. logout' \in [at : {"no", "saved", "failed"}, existing : Profile]
    BY DEF IInv, TypeOK, Save
  <2>3. form' \in Profile \cup {NoForm}
    BY DEF IInv, TypeOK
  <2>4. live' \in Exits
    BY DEF IInv, TypeOK, Profile, Save, SaveFacts
  <2>5. (login \in BOOLEAN /\ torn \in BOOLEAN /\ told \in BOOLEAN)'
    BY DEF IInv, TypeOK, Save
  <2>6. (status \in {"stopped", "starting", "running", "stopping", "error"})'
    BY DEF IInv, TypeOK, Save
  <2>7. (/\ start \in {"none", "launched", "entered", "up", "failed", "canceled"}
         /\ entry \in {"none", "starting", "up"})'
    BY DEF IInv, TypeOK, Save
  <2>8. (events \in Seq({"started", "stopped", "error"}))'
    BY <1>0 DEF IInv, TypeOK
  <2> QED
    BY <2>1, <2>2, <2>3, <2>4, <2>5, <2>6, <2>7, <2>8 DEF TypeOK
<1>2. MemoryIsStored' /\ KeysGo'
  BY DEF IInv, MemoryIsStored, KeysGo, Save, SaveFacts
<1>3. StartIsEntered' /\ OneCall'
  BY DEF IInv, StartIsEntered, OneCall, Save
<1>4. ~LateEvents => StartIsAlone' /\ LogoutIsAlone'
  BY DEF IInv, OneCall, StartIsAlone, LogoutIsAlone, Save, MayEdit, SaveFacts
<1>5. ~LateEvents => LiveIsSaved'
  BY DEF IInv, LiveIsSaved, Save, MayEdit, AppliesExitNode
<1>6. ~LateEvents => FlagHasLogin'
  BY <1>0 DEF IInv, FlagHasLogin, Save, SaveFacts
<1>7. ~LateEvents => Forms \/ FlagIsSet'
  BY <1>0 DEF IInv, OneCall, FlagIsSet, Save, SaveFacts
<1> QED
  BY <1>1, <1>2, <1>3, <1>4, <1>5, <1>6, <1>7 DEF IInv

-----------------------------------------------------------------------------
(* Each action keeps the invariant. *)

LEMMA OpenFormKeeps ==
  ASSUME AccountAssumption, IInv, OpenForm
  PROVE  IInv'
<1>1. TypeOK'
  BY DEF IInv, TypeOK, OpenForm
<1>2. MemoryIsStored' /\ KeysGo'
  BY DEF IInv, MemoryIsStored, KeysGo, OpenForm
<1>3. StartIsEntered' /\ OneCall'
  BY DEF IInv, StartIsEntered, OneCall, OpenForm
<1>4. ~LateEvents => StartIsAlone' /\ LogoutIsAlone'
  BY DEF IInv, StartIsAlone, LogoutIsAlone, OpenForm
<1>5. ~LateEvents => LiveIsSaved'
  BY DEF IInv, LiveIsSaved, OpenForm
<1>6. ~LateEvents => FlagHasLogin'
  BY PendingSame DEF IInv, FlagHasLogin, OpenForm
<1>7. ~LateEvents => Forms \/ FlagIsSet'
  BY DEF OpenForm
<1> QED
  BY <1>1, <1>2, <1>3, <1>4, <1>5, <1>6, <1>7 DEF IInv

LEMMA CloseFormKeeps ==
  ASSUME AccountAssumption, IInv, CloseForm
  PROVE  IInv'
<1>1. TypeOK'
  BY DEF IInv, TypeOK, CloseForm
<1>2. MemoryIsStored' /\ KeysGo'
  BY DEF IInv, MemoryIsStored, KeysGo, CloseForm
<1>3. StartIsEntered' /\ OneCall'
  BY DEF IInv, StartIsEntered, OneCall, CloseForm
<1>4. ~LateEvents => StartIsAlone' /\ LogoutIsAlone'
  BY DEF IInv, StartIsAlone, LogoutIsAlone, CloseForm
<1>5. ~LateEvents => LiveIsSaved'
  BY DEF IInv, LiveIsSaved, CloseForm
<1>6. ~LateEvents => FlagHasLogin'
  BY PendingSame DEF IInv, FlagHasLogin, CloseForm
<1>7. ~LateEvents => Forms \/ FlagIsSet'
  BY DEF IInv, OneCall, CloseForm
<1> QED
  BY <1>1, <1>2, <1>3, <1>4, <1>5, <1>6, <1>7 DEF IInv

LEMMA ConnectKeeps ==
  ASSUME AccountAssumption, IInv, Connect
  PROVE  IInv'
<1>1. TypeOK'
  BY DEF IInv, TypeOK, Connect
<1>2. MemoryIsStored' /\ KeysGo'
  BY DEF IInv, MemoryIsStored, KeysGo, Connect
<1>3. StartIsEntered' /\ OneCall'
  BY DEF StartIsEntered, OneCall, Connect
<1>4. ~LateEvents => StartIsAlone' /\ LogoutIsAlone'
  BY DEF StartIsAlone, LogoutIsAlone, Connect
<1>5. ~LateEvents => LiveIsSaved'
  BY DEF LiveIsSaved, Connect
<1>6. ~LateEvents => FlagHasLogin'
  BY PendingSame DEF IInv, FlagHasLogin, Connect
<1>7. ~LateEvents => Forms \/ FlagIsSet'
  BY DEF FlagIsSet, Connect
<1> QED
  BY <1>1, <1>2, <1>3, <1>4, <1>5, <1>6, <1>7 DEF IInv

LEMMA EnterKeeps ==
  ASSUME AccountAssumption, IInv, Enter
  PROVE  IInv'
<1>1. TypeOK'
  BY DEF IInv, TypeOK, Enter
<1>2. MemoryIsStored' /\ KeysGo'
  BY DEF IInv, MemoryIsStored, KeysGo, Enter
<1>3. StartIsEntered' /\ OneCall'
  BY DEF IInv, StartIsEntered, OneCall, Enter
<1>4. ~LateEvents => StartIsAlone' /\ LogoutIsAlone'
  BY DEF IInv, StartIsAlone, LogoutIsAlone, Enter
<1>5. ~LateEvents => LiveIsSaved'
  BY DEF LiveIsSaved, Enter
<1>6. ~LateEvents => FlagHasLogin'
  BY PendingSame DEF IInv, FlagHasLogin, Enter
<1>7. ~LateEvents => Forms \/ FlagIsSet'
  BY DEF FlagIsSet, Enter
<1> QED
  BY <1>1, <1>2, <1>3, <1>4, <1>5, <1>6, <1>7 DEF IInv

LEMMA NodeUpKeeps ==
  ASSUME AccountAssumption, IInv, NodeUp
  PROVE  IInv'
<1>0. /\ events' \in Seq({"started", "stopped", "error"}) /\ events' # <<>>
      /\ StartedPending'
  BY PendingAppend DEF IInv, NodeUp
<1>1. TypeOK'
  <2>1. {mem, store, conf}' \subseteq Profile
    BY DEF IInv, TypeOK, NodeUp
  <2>2. logout' \in [at : {"no", "saved", "failed"}, existing : Profile]
    BY DEF IInv, TypeOK, NodeUp
  <2>3. form' \in Profile \cup {NoForm}
    BY DEF IInv, TypeOK, NodeUp
  <2>4. live' \in Exits
    BY DEF IInv, TypeOK, Profile, NodeUp
  <2>5. (login \in BOOLEAN /\ torn \in BOOLEAN /\ told \in BOOLEAN)'
    BY DEF IInv, TypeOK, NodeUp
  <2>6. (status \in {"stopped", "starting", "running", "stopping", "error"})'
    BY DEF IInv, TypeOK, NodeUp
  <2>7. (/\ start \in {"none", "launched", "entered", "up", "failed", "canceled"}
         /\ entry \in {"none", "starting", "up"})'
    BY DEF NodeUp
  <2>8. (events \in Seq({"started", "stopped", "error"}))'
    BY <1>0
  <2> QED
    BY <2>1, <2>2, <2>3, <2>4, <2>5, <2>6, <2>7, <2>8 DEF TypeOK
<1>2. MemoryIsStored' /\ KeysGo'
  BY DEF IInv, MemoryIsStored, KeysGo, NodeUp
<1>3. StartIsEntered' /\ OneCall'
  BY DEF IInv, StartIsEntered, OneCall, NodeUp
<1>4. ~LateEvents => StartIsAlone' /\ LogoutIsAlone'
  BY DEF IInv, StartIsAlone, LogoutIsAlone, NodeUp
<1>5. ~LateEvents => LiveIsSaved'
  BY DEF IInv, StartIsAlone, LiveIsSaved, NodeUp
<1>6. ~LateEvents => FlagHasLogin'
  BY DEF FlagHasLogin, NodeUp
<1>7. ~LateEvents => Forms \/ FlagIsSet'
  BY <1>0 DEF FlagIsSet
<1> QED
  BY <1>1, <1>2, <1>3, <1>4, <1>5, <1>6, <1>7 DEF IInv

LEMMA NodeFailsKeeps ==
  ASSUME AccountAssumption, IInv, NodeFails
  PROVE  IInv'
<1>1. TypeOK'
  BY DEF IInv, TypeOK, NodeFails
<1>2. MemoryIsStored' /\ KeysGo'
  BY DEF IInv, MemoryIsStored, KeysGo, NodeFails
<1>3. StartIsEntered' /\ OneCall'
  BY DEF IInv, StartIsEntered, OneCall, NodeFails
<1>4. ~LateEvents => StartIsAlone' /\ LogoutIsAlone'
  BY DEF IInv, StartIsAlone, LogoutIsAlone, NodeFails
<1>5. ~LateEvents => LiveIsSaved'
  BY DEF LiveIsSaved, NodeFails
<1>6. ~LateEvents => FlagHasLogin'
  BY PendingSame DEF IInv, FlagHasLogin, NodeFails
<1>7. ~LateEvents => Forms \/ FlagIsSet'
  BY DEF FlagIsSet, NodeFails
<1> QED
  BY <1>1, <1>2, <1>3, <1>4, <1>5, <1>6, <1>7 DEF IInv

LEMMA ReturnedKeeps ==
  ASSUME AccountAssumption, IInv, Returned
  PROVE  IInv'
<1>1. TypeOK'
  <2>1. {mem, store, conf}' \subseteq Profile
    BY MarkTyped DEF IInv, TypeOK, Returned
  <2>2. logout' \in [at : {"no", "saved", "failed"}, existing : Profile]
    BY DEF IInv, TypeOK, Returned
  <2>3. form' \in Profile \cup {NoForm}
    BY DEF IInv, TypeOK, Returned
  <2>4. live' \in Exits
    BY DEF IInv, TypeOK, Returned
  <2>5. (login \in BOOLEAN /\ torn \in BOOLEAN /\ told \in BOOLEAN)'
    BY MarkOutcomes DEF IInv, TypeOK, Returned
  <2>6. (status \in {"stopped", "starting", "running", "stopping", "error"})'
    BY DEF IInv, TypeOK, Returned
  <2>7. (/\ start \in {"none", "launched", "entered", "up", "failed", "canceled"}
         /\ entry \in {"none", "starting", "up"})'
    BY DEF IInv, TypeOK, Returned
  <2>8. (events \in Seq({"started", "stopped", "error"}))'
    BY DEF IInv, TypeOK, Returned
  <2> QED
    BY <2>1, <2>2, <2>3, <2>4, <2>5, <2>6, <2>7, <2>8 DEF TypeOK
<1>2. MemoryIsStored' /\ KeysGo'
  BY MarkOutcomes DEF IInv, TypeOK, Profile, MemoryIsStored, KeysGo, Returned
<1>3. StartIsEntered' /\ OneCall'
  BY DEF IInv, StartIsEntered, OneCall, Returned
<1>4. ~LateEvents => StartIsAlone' /\ LogoutIsAlone'
  BY DEF IInv, StartIsAlone, LogoutIsAlone, Returned
<1>5. ~LateEvents => LiveIsSaved'
  BY MarkOutcomes DEF IInv, TypeOK, Profile, LiveIsSaved, Returned
<1>6. ~LateEvents => FlagHasLogin'
  BY PendingSame DEF IInv, FlagHasLogin, Returned
<1>7. ~LateEvents => Forms \/ FlagIsSet'
  BY MarkOutcomes, PendingSame DEF IInv, FlagIsSet, Returned
<1> QED
  BY <1>1, <1>2, <1>3, <1>4, <1>5, <1>6, <1>7 DEF IInv

LEMMA ProcessEndsKeeps ==
  ASSUME AccountAssumption, IInv, ProcessEnds
  PROVE  IInv'
<1>1. TypeOK'
  BY DEF IInv, TypeOK, ProcessEnds
<1>2. MemoryIsStored' /\ KeysGo'
  BY DEF IInv, MemoryIsStored, KeysGo, ProcessEnds
<1>3. StartIsEntered' /\ OneCall'
  BY DEF IInv, StartIsEntered, OneCall, ProcessEnds
<1>4. ~LateEvents => StartIsAlone' /\ LogoutIsAlone'
  BY DEF IInv, StartIsEntered, StartIsAlone, LogoutIsAlone, ProcessEnds
<1>5. ~LateEvents => LiveIsSaved'
  BY DEF LiveIsSaved, ProcessEnds
<1>6. ~LateEvents => FlagHasLogin'
  BY DEF IInv, FlagHasLogin, ProcessEnds
<1>7. ~LateEvents => Forms \/ FlagIsSet'
  BY DEF FlagIsSet, ProcessEnds
<1> QED
  BY <1>1, <1>2, <1>3, <1>4, <1>5, <1>6, <1>7 DEF IInv

LEMMA HandleRuntimeEventKeeps ==
  ASSUME AccountAssumption, IInv, HandleRuntimeEvent
  PROVE  IInv'
<1>0. /\ events' \in Seq({"started", "stopped", "error"})
      /\ Head(events) \in {"started", "stopped", "error"}
      /\ StartedPending <=> (StartedPending' \/ Head(events) = "started")
  BY PendingTail DEF IInv, HandleRuntimeEvent
<1>1. TypeOK'
  <2>1. {mem, store, conf}' \subseteq Profile
    BY MarkTyped DEF IInv, TypeOK, HandleRuntimeEvent
  <2>2. logout' \in [at : {"no", "saved", "failed"}, existing : Profile]
    BY DEF IInv, TypeOK, HandleRuntimeEvent
  <2>3. form' \in Profile \cup {NoForm}
    BY DEF IInv, TypeOK, HandleRuntimeEvent
  <2>4. live' \in Exits
    BY DEF IInv, TypeOK, HandleRuntimeEvent
  <2>5. (login \in BOOLEAN /\ torn \in BOOLEAN /\ told \in BOOLEAN)'
    BY MarkOutcomes DEF IInv, TypeOK, HandleRuntimeEvent
  <2>6. (status \in {"stopped", "starting", "running", "stopping", "error"})'
    BY <1>0 DEF HandleRuntimeEvent
  <2>7. (/\ start \in {"none", "launched", "entered", "up", "failed", "canceled"}
         /\ entry \in {"none", "starting", "up"})'
    BY DEF IInv, TypeOK, HandleRuntimeEvent
  <2>8. (events \in Seq({"started", "stopped", "error"}))'
    BY <1>0
  <2> QED
    BY <2>1, <2>2, <2>3, <2>4, <2>5, <2>6, <2>7, <2>8 DEF TypeOK
<1>2. MemoryIsStored' /\ KeysGo'
  BY MarkOutcomes DEF IInv, TypeOK, Profile, MemoryIsStored, KeysGo, HandleRuntimeEvent
<1>3. StartIsEntered' /\ OneCall'
  BY DEF IInv, StartIsEntered, OneCall, HandleRuntimeEvent
<1>4. ~LateEvents => StartIsAlone' /\ LogoutIsAlone'
  BY DEF IInv, StartIsAlone, LogoutIsAlone, HandleRuntimeEvent
<1>5. ~LateEvents => LiveIsSaved'
  BY MarkOutcomes DEF IInv, TypeOK, Profile, LiveIsSaved, HandleRuntimeEvent
<1>6. ~LateEvents => FlagHasLogin'
  BY <1>0 DEF IInv, FlagHasLogin, HandleRuntimeEvent
<1>7. ~LateEvents => Forms \/ FlagIsSet'
  BY <1>0, MarkOutcomes DEF IInv, TypeOK, Profile, FlagIsSet, HandleRuntimeEvent
<1> QED
  BY <1>1, <1>2, <1>3, <1>4, <1>5, <1>6, <1>7 DEF IInv

LEMMA DisconnectKeeps ==
  ASSUME AccountAssumption, IInv, Disconnect
  PROVE  IInv'
<1>1. TypeOK'
  BY DEF IInv, TypeOK, Disconnect
<1>2. MemoryIsStored' /\ KeysGo'
  BY DEF IInv, MemoryIsStored, KeysGo, Disconnect
<1>3. StartIsEntered' /\ OneCall'
  BY DEF IInv, StartIsEntered, OneCall, Disconnect
<1>4. ~LateEvents => StartIsAlone' /\ LogoutIsAlone'
  BY DEF IInv, StartIsAlone, LogoutIsAlone, Disconnect
<1>5. ~LateEvents => LiveIsSaved'
  BY DEF IInv, LiveIsSaved, Disconnect
<1>6. ~LateEvents => FlagHasLogin'
  BY PendingSame DEF IInv, FlagHasLogin, Disconnect
<1>7. ~LateEvents => Forms \/ FlagIsSet'
  BY PendingSame DEF IInv, FlagIsSet, Disconnect
<1> QED
  BY <1>1, <1>2, <1>3, <1>4, <1>5, <1>6, <1>7 DEF IInv

LEMMA LogoutBeginKeeps ==
  ASSUME AccountAssumption, IInv, LogoutBegin
  PROVE  IInv'
<1>1. TypeOK'
  <2>1. {mem, store, conf}' \subseteq Profile
    <3>1. PICK r : r = [mem EXCEPT !.key = FALSE, !.authenticated = FALSE]
      OBVIOUS
    <3>2. mem \in Profile
      BY DEF IInv, TypeOK
    <3>3. r \in Profile
      BY <3>1, <3>2 DEF Profile
    <3>4. mem' = r /\ store' = r
      BY <3>1 DEF LogoutBegin
    <3> QED
      BY <3>3, <3>4 DEF IInv, TypeOK, LogoutBegin
  <2>2. logout' \in [at : {"no", "saved", "failed"}, existing : Profile]
    BY DEF IInv, TypeOK, LogoutBegin
  <2>3. form' \in Profile \cup {NoForm}
    BY DEF LogoutBegin
  <2>4. live' \in Exits
    BY DEF IInv, TypeOK, LogoutBegin
  <2>5. (login \in BOOLEAN /\ torn \in BOOLEAN /\ told \in BOOLEAN)'
    BY DEF IInv, TypeOK, LogoutBegin
  <2>6. (status \in {"stopped", "starting", "running", "stopping", "error"})'
    BY DEF IInv, TypeOK, LogoutBegin
  <2>7. (/\ start \in {"none", "launched", "entered", "up", "failed", "canceled"}
         /\ entry \in {"none", "starting", "up"})'
    BY DEF IInv, TypeOK, LogoutBegin
  <2>8. (events \in Seq({"started", "stopped", "error"}))'
    BY DEF IInv, TypeOK, LogoutBegin
  <2> QED
    BY <2>1, <2>2, <2>3, <2>4, <2>5, <2>6, <2>7, <2>8 DEF TypeOK
<1>2. MemoryIsStored' /\ KeysGo'
  BY DEF IInv, MemoryIsStored, KeysGo, LogoutBegin
<1>3. StartIsEntered' /\ OneCall'
  BY DEF IInv, StartIsEntered, OneCall, LogoutBegin
<1>4. ~LateEvents => StartIsAlone' /\ LogoutIsAlone'
  BY DEF IInv, StartIsAlone, LogoutIsAlone, LogoutBegin
<1>5. ~LateEvents => LiveIsSaved'
  BY DEF LiveIsSaved, LogoutBegin
<1>6. ~LateEvents => FlagHasLogin'
  BY PendingSame DEF IInv, FlagHasLogin, LogoutBegin
<1>7. ~LateEvents => Forms \/ FlagIsSet'
  BY DEF FlagIsSet, LogoutBegin
<1> QED
  BY <1>1, <1>2, <1>3, <1>4, <1>5, <1>6, <1>7 DEF IInv

LEMMA LogoutRuntimeKeeps ==
  ASSUME AccountAssumption, IInv, LogoutRuntime
  PROVE  IInv'
<1>1. TypeOK'
  BY PendingSame DEF AccountAssumption, IInv, TypeOK, LogoutRuntime, StartedPending
<1>2. MemoryIsStored' /\ KeysGo'
  BY DEF IInv, TypeOK, MemoryIsStored, KeysGo, LogoutRuntime
<1>3. StartIsEntered' /\ OneCall'
  BY DEF IInv, StartIsEntered, OneCall, LogoutRuntime
<1>4. ~LateEvents => StartIsAlone' /\ LogoutIsAlone'
  BY DEF IInv, StartIsAlone, LogoutIsAlone, LogoutRuntime
<1>5. ~LateEvents => LiveIsSaved'
  BY DEF IInv, LiveIsSaved, LogoutRuntime
<1>6. ~LateEvents => FlagHasLogin'
  BY DEF IInv, TypeOK, OneCall, LogoutIsAlone, FlagHasLogin, LogoutRuntime,
         StartedPending
<1>7. ~LateEvents => Forms \/ FlagIsSet'
  BY PendingSame DEF IInv, FlagIsSet, LogoutRuntime
<1> QED
  BY <1>1, <1>2, <1>3, <1>4, <1>5, <1>6, <1>7 DEF IInv

LEMMA LogoutRestoreKeeps ==
  ASSUME AccountAssumption, IInv, LogoutRestore
  PROVE  IInv'
<1>1. TypeOK'
  BY PendingSame DEF AccountAssumption, IInv, TypeOK, LogoutRestore
<1>2. MemoryIsStored' /\ KeysGo'
  BY DEF IInv, MemoryIsStored, KeysGo, LogoutRestore
<1>3. StartIsEntered' /\ OneCall'
  BY DEF IInv, StartIsEntered, OneCall, LogoutRestore
<1>4. ~LateEvents => StartIsAlone' /\ LogoutIsAlone'
  BY DEF IInv, StartIsAlone, LogoutIsAlone, LogoutRestore
<1>5. ~LateEvents => LiveIsSaved'
  BY DEF IInv, LogoutIsAlone, LiveIsSaved, LogoutRestore
<1>6. ~LateEvents => FlagHasLogin'
  BY PendingSame DEF IInv, FlagHasLogin, LogoutRestore
<1>7. ~LateEvents => Forms \/ FlagIsSet'
  BY DEF IInv, LogoutIsAlone, FlagIsSet, LogoutRestore
<1> QED
  BY <1>1, <1>2, <1>3, <1>4, <1>5, <1>6, <1>7 DEF IInv

LEMMA RestartKeeps ==
  ASSUME AccountAssumption, IInv, Restart
  PROVE  IInv'
<1>0. events' = <<>> /\ ~StartedPending'
  BY DEF Restart, StartedPending
<1>1. TypeOK'
  <2>1. {mem, store, conf}' \subseteq Profile
    BY DEF IInv, TypeOK, Restart
  <2>2. logout' \in [at : {"no", "saved", "failed"}, existing : Profile]
    BY DEF IInv, TypeOK, Restart
  <2>3. form' \in Profile \cup {NoForm}
    BY DEF Restart
  <2>4. live' \in Exits
    BY DEF IInv, TypeOK, Restart
  <2>5. (login \in BOOLEAN /\ torn \in BOOLEAN /\ told \in BOOLEAN)'
    BY DEF IInv, TypeOK, Restart
  <2>6. (status \in {"stopped", "starting", "running", "stopping", "error"})'
    BY DEF Restart
  <2>7. (/\ start \in {"none", "launched", "entered", "up", "failed", "canceled"}
         /\ entry \in {"none", "starting", "up"})'
    BY DEF Restart
  <2>8. (events \in Seq({"started", "stopped", "error"}))'
    BY <1>0
  <2> QED
    BY <2>1, <2>2, <2>3, <2>4, <2>5, <2>6, <2>7, <2>8 DEF TypeOK
<1>2. MemoryIsStored' /\ KeysGo'
  BY DEF IInv, MemoryIsStored, KeysGo, Restart
<1>3. StartIsEntered' /\ OneCall'
  BY DEF StartIsEntered, OneCall, Restart
<1>4. ~LateEvents => StartIsAlone' /\ LogoutIsAlone'
  BY DEF StartIsAlone, LogoutIsAlone, Restart
<1>5. ~LateEvents => LiveIsSaved'
  BY DEF LiveIsSaved, Restart
<1>6. ~LateEvents => FlagHasLogin'
  BY <1>0 DEF IInv, FlagHasLogin, Restart
<1>7. ~LateEvents => Forms \/ FlagIsSet'
  BY DEF FlagIsSet, Restart
<1> QED
  BY <1>1, <1>2, <1>3, <1>4, <1>5, <1>6, <1>7 DEF IInv


(* The two edits, by SaveKeeps. *)
LEMMA SaveProfileKeeps == ASSUME AccountAssumption, IInv, SaveProfile PROVE IInv'
<1>1. PICK p \in EditsOf(mem) : Save(p)
  BY DEF SaveProfile
<1>2. SaveFacts(p)
  BY EditsOfTyped DEF IInv, TypeOK, SaveFacts
<1> QED
  BY <1>1, <1>2, SaveKeeps DEF SaveProfile

LEMMA SaveFormKeeps == ASSUME AccountAssumption, IInv, SaveForm PROVE IInv'
<1>1. form \in Profile /\ form # NoForm
  BY DEF IInv, TypeOK, SaveForm
<1>2. PICK p \in EditsOf(form) : Save(p)
  BY DEF SaveForm
<1>3. SaveFacts(p)
  BY <1>1, EditsOfTyped DEF IInv, SaveFacts
<1> QED
  BY <1>2, <1>3, SaveKeeps DEF SaveForm

LEMMA NextInv == ASSUME AccountAssumption, IInv, [Next]_vars PROVE IInv'
<1>1. CASE UNCHANGED vars
  BY <1>1 DEF IInv, TypeOK, MemoryIsStored, KeysGo, StartIsEntered, OneCall,
              StartIsAlone, LogoutIsAlone, LiveIsSaved, FlagHasLogin, FlagIsSet,
              StartedPending
<1>2. CASE User
  BY <1>2, SaveProfileKeeps, OpenFormKeeps, SaveFormKeeps, CloseFormKeeps, ConnectKeeps,
     DisconnectKeeps, LogoutBeginKeeps
     DEF User
<1>3. CASE Next /\ ~User
  BY <1>3, EnterKeeps, NodeUpKeeps, NodeFailsKeeps, ReturnedKeeps, ProcessEndsKeeps,
     HandleRuntimeEventKeeps, LogoutRuntimeKeeps, LogoutRestoreKeeps, RestartKeeps
     DEF Next
<1> QED
  BY <1>1, <1>2, <1>3

-----------------------------------------------------------------------------
(* IInv is an invariant: the flag, the key, the login and the exit node are *)
(* where the call in progress and the events under way leave them.          *)
THEOREM AccountInvariance == ASSUME AccountAssumption PROVE Spec => []IInv
<1>1. Init => IInv
  BY InitInv
<1>2. IInv /\ [Next]_vars => IInv'
  BY NextInv
<1> QED
  BY <1>1, <1>2, PTL DEF Spec

(* Every variable keeps its type. *)
THEOREM AccountTypeCorrect == ASSUME AccountAssumption PROVE Spec => []TypeOK
<1>1. IInv => TypeOK
  BY DEF IInv
<1> QED
  BY <1>1, AccountInvariance, PTL

(* Whichever write fails and wherever the process dies: memory is what is   *)
(* stored; without late events the node leaves by the saved exit node and a *)
(* profile that shows as authenticated has a login; and, without an open    *)
(* form, the auth key goes when the node has come up.                       *)
THEOREM AccountStored == ASSUME AccountAssumption PROVE Spec => []AccountIsStored
<1>1. ASSUME IInv PROVE MemoryIsStored
  BY <1>1 DEF IInv
<1>2. ASSUME IInv, ~LateEvents PROVE LiveIsSaved /\ AuthenticatedHasLogin
  BY <1>2 DEF IInv, FlagHasLogin, AuthenticatedHasLogin
<1>3. ASSUME IInv, ~LateEvents, ~Forms PROVE KeyIsRemoved
  BY <1>3 DEF IInv, MemoryIsStored, KeysGo, FlagIsSet, StartedPending, KeyIsRemoved
<1>4. IInv => AccountIsStored
  BY <1>1, <1>2, <1>3 DEF AccountIsStored
<1> QED
  BY <1>4, AccountInvariance, PTL

(* Only a Logout takes the flag from a profile. *)
LEMMA FlagStays ==
  ASSUME AccountAssumption, ~LateEvents, ~Forms, IInv, Next
  PROVE  StaysAuthenticated
<1> SUFFICES ASSUME mem.authenticated, ~mem'.authenticated, ~torn
             PROVE  logout'.at = "saved"
  BY DEF StaysAuthenticated
<1>1. CASE SaveProfile
  <2>1. PICK p \in EditsOf(mem) : Save(p)
    BY <1>1 DEF SaveProfile
  <2>2. p.authenticated = mem.authenticated
    BY EditsOfTyped DEF IInv, TypeOK
  <2> QED
    BY <2>1, <2>2 DEF Save
<1>2. CASE SaveForm
  BY <1>2 DEF IInv, OneCall, SaveForm
<1>3. CASE OpenForm \/ CloseForm \/ Connect \/ Disconnect
  BY <1>3 DEF OpenForm, CloseForm, Connect, Disconnect
<1>4. CASE LogoutBegin
  <2> QED
    BY <1>4 DEF LogoutBegin
<1>5. CASE Enter \/ NodeUp \/ NodeFails \/ ProcessEnds \/ LogoutRuntime
  BY <1>5 DEF Enter, NodeUp, NodeFails, ProcessEnds, LogoutRuntime
<1>6. CASE Returned
  BY <1>6 DEF Returned, MarkAuthenticated
<1>7. CASE HandleRuntimeEvent
  BY <1>7 DEF HandleRuntimeEvent, MarkAuthenticated
<1>8. CASE LogoutRestore
  BY <1>8 DEF LogoutRestore, IInv, LogoutIsAlone
<1>9. CASE Restart
  BY <1>9 DEF Restart, IInv, MemoryIsStored
<1> QED
  BY <1>1, <1>2, <1>3, <1>4, <1>5, <1>6, <1>7, <1>8, <1>9 DEF Next, User

(* Without late events and open forms a profile stays authenticated until   *)
(* the user logs it out (README:249-251).                                   *)
THEOREM FlagKept ==
  ASSUME AccountAssumption, ~LateEvents, ~Forms
  PROVE  Spec => AuthenticatedUntilLogout
<1>1. IInv /\ [Next]_vars => [StaysAuthenticated]_vars
  BY FlagStays
<1> QED
  BY <1>1, AccountInvariance, PTL DEF Spec, AuthenticatedUntilLogout

=============================================================================
