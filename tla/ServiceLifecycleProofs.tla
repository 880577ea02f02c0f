----------------------- MODULE ServiceLifecycleProofs -----------------------
(***************************************************************************)
(* What holds of ServiceLifecycle for every set of profiles and starts and *)
(* every channel capacity.  ServiceInv is an invariant whatever happens;   *)
(* BindingInv, which also ties the dispatcher's bindings to the starts, is *)
(* one as long as no port forward of a live process reports an error.      *)
(***************************************************************************)
EXTENDS ServiceLifecycle, TLAPS

USE ServiceAssumption DEF service, goroutine, dispatcher, adapters

-----------------------------------------------------------------------------
(* Facts about the operators. *)

LEMMA ConfigKinds ==
  /\ Kinds = {"wireguard", "tailscale"}
  /\ Unborn \notin Config /\ Deleted \notin Config
  /\ \A c \in Config : c.kind \in Kinds
BY DEF Kinds, Config, Unborn, Deleted

LEMMA KindTyped ==
  ASSUME NEW s \in Starts, TypeOK, conf[s] # Unborn
  PROVE  KindOf(s) \in Kinds
BY ConfigKinds DEF TypeOK, KindOf

(* Every start that got as far as the dispatcher has a kind. *)
LEMMA CallKind ==
  ASSUME NEW s \in Starts, TypeOK, CallInv(s), call[s] # "none" \/ phase[s] # "new"
  PROVE  conf[s] # Unborn /\ KindOf(s) \in Kinds
BY KindTyped DEF CallInv, TypeOK

LEMMA OfferTyped ==
  ASSUME NEW ch \in Seq(Event), NEW s \in Starts, NEW type \in {"started", "stopped", "error"}
  PROVE  Offer(ch, s, type) \in Seq(Event)
<1>1. [start |-> s, type |-> type] \in Event
  BY DEF Event
<1>2. Append(ch, [start |-> s, type |-> type]) \in Seq(Event)
  BY <1>1
<1> QED
  BY <1>2 DEF Offer

LEMMA StopTargetTyped ==
  ASSUME TypeOK, NEW p \in Profiles
  PROVE  StopTarget(p) \subseteq Starts
<1>1. PICK first, second \in Kinds :
        StopTarget(p) = IF table[first][p] # NoStart THEN {table[first][p]}
                        ELSE {table[second][p]} \ {NoStart}
  <2> DEFINE first == IF backing[p] = "none" THEN "wireguard" ELSE backing[p]
             second == CHOOSE k \in Kinds : k # first
  <2>1. first \in Kinds
    BY DEF TypeOK, Kinds
  <2>2. \E k \in Kinds : k # first
    BY DEF Kinds
  <2>3. second \in Kinds
    BY <2>2
  <2> QED
    BY <2>1, <2>3 DEF StopTarget
<1> QED
  BY <1>1 DEF TypeOK

LEMMA PendingTyped ==
  ASSUME TypeOK, NEW ps \in SUBSET Profiles
  PROVE  PendingOf(ps) \subseteq Starts
BY DEF TypeOK, PendingOf

LEMMA EntriesTyped ==
  ASSUME TypeOK, NEW k \in Kinds
  PROVE  Entries(k) \subseteq Starts
BY DEF TypeOK, Entries

-----------------------------------------------------------------------------
LEMMA InitServiceInv == Init => ServiceInv
<1> SUFFICES ASSUME Init PROVE ServiceInv
  OBVIOUS
<1>1. TypeOK
  <2>1. profiles \in [Profiles -> Config \cup {Unborn, Deleted}]
    BY DEF Init
  <2>2. bus \in Seq(Event) /\ chan \in [Kinds -> Seq(Event)]
    <3>1. <<>> \in Seq(Event)
      OBVIOUS
    <3> QED
      BY <3>1 DEF Init
  <2>3. table \in [Kinds -> [Profiles -> Starts \cup {NoStart}]]
    BY DEF Init
  <2>4. status \in [Profiles -> Status]
    BY DEF Init, Status
  <2> QED
    BY <2>1, <2>2, <2>3, <2>4 DEF Init, TypeOK
<1>2. \A s \in Starts : CallInv(s)
  BY DEF Init, CallInv
<1>3. TableInv /\ ShutdownInv
  BY DEF Init, TableInv, ShutdownInv, Past, InTable
<1> QED
  BY <1>1, <1>2, <1>3 DEF ServiceInv

(* Calls that leave the starts where they are, and only cancel or close. *)
LEMMA CallerKeeps ==
  ASSUME ServiceInv, TypeOK', UNCHANGED <<goroutine, phase, table, verdict, shutdown>>,
         canceled \subseteq canceled', stopped \subseteq stopped'
  PROVE  ServiceInv'
<1>1. \A s \in Starts : KindOf(s)' = KindOf(s)
  BY DEF KindOf
<1>2. \A s \in Starts : CallInv(s)'
  BY DEF ServiceInv, CallInv
<1>3. TableInv'
  <2>1. \A k \in Kinds, p \in Profiles : table[k][p] # NoStart => table[k][p] \in Starts
    BY DEF ServiceInv, TypeOK
  <2> QED
    BY <1>1, <2>1 DEF ServiceInv, TableInv, InTable
<1>4. ShutdownInv'
  <2>1. \A s \in Starts : Past(s)' <=> Past(s)
    BY DEF Past
  <2>2. canceled' \subseteq Starts
    BY DEF TypeOK
  <2> QED
    BY <1>1, <2>1, <2>2 DEF ServiceInv, ShutdownInv
<1> QED
  BY <1>2, <1>3, <1>4 DEF ServiceInv

LEMMA DisconnectKeeps ==
  ASSUME ServiceInv, NEW p \in Profiles, Disconnect(p)
  PROVE  ServiceInv'
<1>1. TypeOK'
  <2>1. StopTarget(p) \subseteq Starts /\ PendingOf({p}) \subseteq Starts
    BY StopTargetTyped, PendingTyped DEF ServiceInv
  <2>2. status' \in [Profiles -> Status]
    BY DEF ServiceInv, TypeOK, Disconnect, Status
  <2>3. canceled' \subseteq Starts /\ stopped' \subseteq Starts
    BY <2>1 DEF ServiceInv, TypeOK, Disconnect
  <2> QED
    BY <2>2, <2>3 DEF ServiceInv, TypeOK, Disconnect
<1> QED
  BY <1>1, CallerKeeps DEF Disconnect

LEMMA DisconnectAllKeeps == ASSUME ServiceInv, DisconnectAll PROVE ServiceInv'
<1>1. TypeOK'
  <2>1. canceled' \subseteq Starts
    BY PendingTyped DEF ServiceInv, TypeOK, DisconnectAll
  <2>2. stopped' \subseteq Starts
    BY EntriesTyped, ConfigKinds DEF ServiceInv, TypeOK, DisconnectAll
  <2>3. status' \in [Profiles -> Status]
    BY DEF ServiceInv, TypeOK, DisconnectAll, Status
  <2> QED
    BY <2>1, <2>2, <2>3 DEF ServiceInv, TypeOK, DisconnectAll
<1> QED
  BY <1>1, CallerKeeps DEF DisconnectAll

LEMMA SaveKeeps ==
  ASSUME ServiceInv, NEW p \in Profiles, NEW c \in Choices, Save(p, c)
  PROVE  ServiceInv'
<1>1. TypeOK'
  <2>1. profiles' \in [Profiles -> Config \cup {Unborn, Deleted}]
    BY DEF ServiceInv, TypeOK, Save
  <2> QED
    BY <2>1 DEF ServiceInv, TypeOK, Save
<1> QED
  BY <1>1, CallerKeeps DEF Save

LEMMA AddKeeps ==
  ASSUME ServiceInv, NEW p \in Profiles, NEW c \in Choices, Add(p, c)
  PROVE  ServiceInv'
<1>1. TypeOK'
  <2>1. profiles' \in [Profiles -> Config \cup {Unborn, Deleted}]
    BY DEF ServiceInv, TypeOK, Add
  <2>2. status' \in [Profiles -> Status]
    BY DEF ServiceInv, TypeOK, Add, Status
  <2> QED
    BY <2>1, <2>2 DEF ServiceInv, TypeOK, Add
<1> QED
  BY <1>1, CallerKeeps DEF Add

LEMMA DeleteKeeps ==
  ASSUME ServiceInv, NEW p \in Profiles, Delete(p)
  PROVE  ServiceInv'
<1>1. TypeOK'
  <2>1. profiles' \in [Profiles -> Config \cup {Unborn, Deleted}]
    BY DEF ServiceInv, TypeOK, Delete
  <2>2. status' \in [Profiles -> Status]
    BY DEF ServiceInv, TypeOK, Delete, Status
  <2>3. StopTarget(p) \subseteq Starts /\ PendingOf({p}) \subseteq Starts
    BY StopTargetTyped, PendingTyped DEF ServiceInv
  <2>4. canceled' \subseteq Starts /\ stopped' \subseteq Starts
    BY <2>3 DEF ServiceInv, TypeOK, Delete
  <2>5. pending' \in [Profiles -> Starts \cup {NoStart}]
    BY DEF ServiceInv, TypeOK, Delete
  <2> QED
    BY <2>1, <2>2, <2>4, <2>5 DEF ServiceInv, TypeOK, Delete
<1> QED
  BY <1>1, CallerKeeps DEF Delete

(* A start is begun at most once, and for a profile that exists. *)
LEMMA BeginStartsChanges ==
  ASSUME ServiceInv, NEW ps \in SUBSET Profiles, \A p \in ps : Present(p), BeginStarts(ps)
  PROVE  \E new \in SUBSET Starts :
           /\ \A s \in new : call[s] = "none" /\ profiles[ProfileOf[s]] \in Config
           /\ call' = [s \in Starts |-> IF s \in new THEN "dispatch" ELSE call[s]]
           /\ conf' = [s \in Starts |-> IF s \in new THEN profiles[ProfileOf[s]] ELSE conf[s]]
           /\ UNCHANGED <<profiles, canceled, result, dispatcher, adapters, shutdown>>
           /\ \A p \in Profiles : \/ pending'[p] = pending[p]
                                 \/ ProfileOf[pending'[p]] = p
           /\ TypeOK'
<1> DEFINE begun == {p \in ps : ~RuntimeLocked(p)}
           new == {NextStart(p) : p \in begun}
<1>1. \A p \in begun : NextStart(p) \in Starts /\ ProfileOf[NextStart(p)] = p
                       /\ call[NextStart(p)] = "none"
  <2> SUFFICES ASSUME NEW p \in begun
               PROVE  NextStart(p) \in Fresh(p)
    BY DEF Fresh
  <2>1. Fresh(p) # {}
    BY DEF BeginStarts
  <2> QED
    BY <2>1 DEF NextStart
<1>2. \A s \in new : s \in Starts /\ call[s] = "none" /\ profiles[ProfileOf[s]] \in Config
  BY <1>1 DEF Present
<1>3. /\ status' = [p \in Profiles |-> IF p \in begun THEN "starting" ELSE status[p]]
      /\ pending' = [p \in Profiles |-> IF p \in begun THEN NextStart(p) ELSE pending[p]]
      /\ call' = [s \in Starts |-> IF s \in new THEN "dispatch" ELSE call[s]]
      /\ conf' = [s \in Starts |-> IF s \in new THEN profiles[ProfileOf[s]] ELSE conf[s]]
      /\ UNCHANGED <<profiles, canceled, result, dispatcher, adapters, shutdown>>
  BY DEF BeginStarts
<1> HIDE DEF new
<1>4. status' \in [Profiles -> Status] /\ pending' \in [Profiles -> Starts \cup {NoStart}]
  <2> HIDE DEF begun
  <2>1. status' \in [Profiles -> Status]
    BY <1>3 DEF ServiceInv, TypeOK, Status
  <2>2. \A p \in Profiles : pending'[p] \in Starts \cup {NoStart}
    BY <1>1, <1>3 DEF ServiceInv, TypeOK
  <2>3. pending' \in [Profiles -> Starts \cup {NoStart}]
    BY <1>3, <2>2
  <2> QED
    BY <2>1, <2>3
<1>5. call' \in [Starts -> {"none", "dispatch", "adapter", "failed", "tail", "done"}]
  BY <1>3 DEF ServiceInv, TypeOK
<1>6. conf' \in [Starts -> Config \cup {Unborn}]
  BY <1>2, <1>3 DEF ServiceInv, TypeOK
<1>7. TypeOK'
  BY <1>3, <1>4, <1>5, <1>6 DEF ServiceInv, TypeOK
<1>8. \A p \in Profiles : pending'[p] = pending[p] \/ ProfileOf[pending'[p]] = p
  <2> HIDE DEF begun
  <2> QED
    BY <1>1, <1>3
<1> QED
  BY <1>2, <1>3, <1>7, <1>8

LEMMA BeginStartsKeeps ==
  ASSUME ServiceInv, NEW ps \in SUBSET Profiles, \A p \in ps : Present(p), BeginStarts(ps)
  PROVE  ServiceInv'
<1>1. PICK new \in SUBSET Starts :
        /\ \A s \in new : call[s] = "none" /\ profiles[ProfileOf[s]] \in Config
        /\ call' = [s \in Starts |-> IF s \in new THEN "dispatch" ELSE call[s]]
        /\ conf' = [s \in Starts |-> IF s \in new THEN profiles[ProfileOf[s]] ELSE conf[s]]
        /\ UNCHANGED <<profiles, canceled, result, dispatcher, adapters, shutdown>>
        /\ TypeOK'
  BY BeginStartsChanges
<1>2. \A s \in Starts : CallInv(s)'
  BY <1>1, ConfigKinds DEF ServiceInv, CallInv, TypeOK
<1>3. \A s \in Starts : phase[s] # "new" => s \notin new
  BY <1>1 DEF ServiceInv, CallInv
<1>4. \A s \in Starts : phase[s] # "new" => KindOf(s)' = KindOf(s)
  BY <1>1, <1>3 DEF KindOf
<1>5. TableInv'
  <2>1. \A s \in Starts : InTable(s)' <=> InTable(s)
    BY <1>1 DEF InTable, adapters
  <2>2. \A s \in Starts : InTable(s) => KindOf(s)' = KindOf(s)
    BY <1>4 DEF InTable
  <2>3. table' = table
    BY <1>1 DEF adapters
  <2> QED
    BY <2>1, <2>2, <2>3 DEF ServiceInv, TableInv, TypeOK
<1>6. ShutdownInv'
  BY <1>1, <1>4 DEF ServiceInv, ShutdownInv, Past
<1> QED
  BY <1>1, <1>2, <1>5, <1>6 DEF ServiceInv

LEMMA ConnectsKeep ==
  ASSUME ServiceInv, (\E p \in Profiles : Connect(p)) \/ ConnectAll \/ AutoConnect
  PROVE  ServiceInv'
<1>1. CASE \E p \in Profiles : Connect(p)
  <2>1. PICK p \in Profiles : Connect(p)
    BY <1>1
  <2>2. {p} \in SUBSET Profiles /\ (\A q \in {p} : Present(q)) /\ BeginStarts({p})
    BY <2>1 DEF Connect
  <2> QED
    BY <2>2, BeginStartsKeeps
<1>2. CASE ConnectAll
  <2> DEFINE all == {p \in Profiles : Present(p)}
  <2>1. all \in SUBSET Profiles /\ (\A q \in all : Present(q)) /\ BeginStarts(all)
    BY <1>2 DEF ConnectAll
  <2> QED
    BY <2>1, BeginStartsKeeps
<1>3. CASE AutoConnect
  <2>1. PICK auto \in SUBSET {p \in Profiles : Present(p)} :
       \/ BeginStarts(auto)
       \/ /\ status' = [p \in Profiles |-> IF p \in auto THEN "error" ELSE status[p]]
          /\ UNCHANGED <<profiles, pending, canceled, goroutine, dispatcher, adapters, shutdown>>
    BY <1>3 DEF AutoConnect
  <2>2. CASE BeginStarts(auto)
    BY <2>2, BeginStartsKeeps
  <2>3. CASE /\ status' = [p \in Profiles |-> IF p \in auto THEN "error" ELSE status[p]]
             /\ UNCHANGED <<profiles, pending, canceled, goroutine, dispatcher, adapters, shutdown>>
    <3>1. TypeOK'
      BY <2>3 DEF ServiceInv, TypeOK, Status
    <3> QED
      BY <2>3, <3>1, CallerKeeps
  <2> QED
    BY <2>1, <2>2, <2>3
<1> QED
  BY <1>1, <1>2, <1>3

-----------------------------------------------------------------------------
(* The goroutine of a start, the process that serves, the events. *)

(* A step of one start that does not touch its entry in the table. *)
LEMMA StartKeeps ==
  ASSUME ServiceInv, TypeOK', NEW s \in Starts,
         UNCHANGED <<conf, table, verdict, shutdown, canceled>>, stopped \subseteq stopped',
         \A t \in Starts \ {s} : call'[t] = call[t] /\ phase'[t] = phase[t],
         CallInv(s)', InTable(s)' <=> InTable(s), Past(s)' => Past(s)
  PROVE  ServiceInv'
<1>1. \A t \in Starts : KindOf(t)' = KindOf(t)
  BY DEF KindOf
<1>2. \A t \in Starts : CallInv(t)'
  BY DEF ServiceInv, CallInv
<1>3. \A t \in Starts : InTable(t)' <=> InTable(t)
  BY DEF InTable
<1>4. \A t \in Starts : Past(t)' => Past(t)
  BY DEF Past
<1>5. TableInv'
  <2>1. \A k \in Kinds, p \in Profiles : table[k][p] # NoStart => table[k][p] \in Starts
    BY DEF ServiceInv, TypeOK
  <2> QED
    BY <1>1, <1>3, <2>1 DEF ServiceInv, TableInv
<1>6. ShutdownInv'
  BY <1>1, <1>4 DEF ServiceInv, ShutdownInv
<1> QED
  BY <1>2, <1>5, <1>6 DEF ServiceInv

LEMMA DispatchKeeps ==
  ASSUME ServiceInv, NEW s \in Starts, Dispatch(s)
  PROVE  ServiceInv'
<1>1. CallInv(s) /\ TypeOK /\ call[s] = "dispatch"
  BY DEF ServiceInv, Dispatch
<1>2. KindOf(s) \in Kinds
  BY <1>1, CallKind
<1>3. TypeOK'
  <2> DEFINE Granted ==
               /\ backing' = [backing EXCEPT ![ProfileOf[s]] = KindOf(s)]
               /\ call' = [call EXCEPT ![s] = "adapter"]
               /\ UNCHANGED result
             Rejected ==
               /\ call' = [call EXCEPT ![s] = "tail"]
               /\ result' = [result EXCEPT ![s] = "error"]
               /\ UNCHANGED backing
  <2>1. (Granted \/ Rejected) /\ UNCHANGED <<service, conf, bus, adapters, shutdown>>
    BY DEF Dispatch
  <2>2. CASE Granted
    BY <1>1, <1>2, <2>1, <2>2 DEF TypeOK
  <2>3. CASE Rejected
    BY <1>1, <2>1, <2>3 DEF TypeOK
  <2> QED
    BY <2>1, <2>2, <2>3
<1>4. CallInv(s)'
  BY <1>1 DEF TypeOK, CallInv, Dispatch
<1>5. /\ UNCHANGED <<conf, verdict, table, shutdown, canceled, stopped, phase>>
      /\ \A t \in Starts \ {s} : call'[t] = call[t]
  BY <1>1 DEF Dispatch, TypeOK
<1>6. (InTable(s)' <=> InTable(s)) /\ (Past(s)' <=> Past(s))
  BY <1>5 DEF InTable, Past
<1> QED
  BY <1>3, <1>4, <1>5, <1>6, StartKeeps

LEMMA RefuseKeeps ==
  ASSUME ServiceInv, NEW s \in Starts, Refuse(s)
  PROVE  ServiceInv'
<1>1. CallInv(s) /\ TypeOK
  BY DEF ServiceInv
<1>2. TypeOK'
  BY <1>1 DEF TypeOK, Refuse
<1>3. CallInv(s)'
  BY <1>1 DEF TypeOK, CallInv, Refuse
<1>4. /\ UNCHANGED <<conf, verdict, table, shutdown, canceled, stopped>>
      /\ \A t \in Starts \ {s} : call'[t] = call[t] /\ phase'[t] = phase[t]
  BY <1>1 DEF Refuse, TypeOK
<1>5. (InTable(s)' <=> InTable(s)) /\ (Past(s)' <=> Past(s))
  BY <1>1 DEF InTable, Past, Refuse, TypeOK
<1> QED
  BY <1>2, <1>3, <1>4, <1>5, StartKeeps

LEMMA CommitKeeps ==
  ASSUME ServiceInv, NEW s \in Starts, Commit(s)
  PROVE  ServiceInv'
<1>1. CallInv(s) /\ TypeOK
  BY DEF ServiceInv
<1>2. TypeOK'
  BY <1>1 DEF TypeOK, Commit
<1>3. CallInv(s)'
  BY <1>1 DEF TypeOK, CallInv, Commit
<1>4. /\ UNCHANGED <<conf, verdict, call, table, shutdown, canceled, stopped>>
      /\ \A t \in Starts \ {s} : phase'[t] = phase[t]
  BY <1>1 DEF Commit, TypeOK
<1>5. (InTable(s)' <=> InTable(s)) /\ (Past(s)' <=> Past(s))
  BY <1>1 DEF InTable, Past, Commit, TypeOK
<1> QED
  BY <1>2, <1>3, <1>4, <1>5, StartKeeps

LEMMA AnnounceKeeps ==
  ASSUME ServiceInv, NEW s \in Starts, Announce(s)
  PROVE  ServiceInv'
<1>1. CallInv(s) /\ TypeOK /\ phase[s] = "committed"
  BY DEF ServiceInv, Announce
<1>2. KindOf(s) \in Kinds
  BY <1>1, CallKind
<1>3. TypeOK'
  <2>1. Offer(chan[KindOf(s)], s, "started") \in Seq(Event)
    BY <1>1, <1>2, OfferTyped DEF TypeOK
  <2>2. chan' \in [Kinds -> Seq(Event)]
    BY <1>1, <2>1 DEF TypeOK, Announce
  <2> QED
    BY <1>1, <2>2 DEF TypeOK, Announce
<1>4. CallInv(s)'
  BY <1>1 DEF TypeOK, CallInv, Announce
<1>5. /\ UNCHANGED <<conf, verdict, table, shutdown, canceled, stopped>>
      /\ \A t \in Starts \ {s} : call'[t] = call[t] /\ phase'[t] = phase[t]
  BY <1>1 DEF Announce, TypeOK
<1>6. (InTable(s)' <=> InTable(s)) /\ (Past(s)' <=> Past(s))
  BY <1>1 DEF InTable, Past, Announce, TypeOK
<1> QED
  BY <1>3, <1>4, <1>5, <1>6, StartKeeps

LEMMA UnbindKeeps ==
  ASSUME ServiceInv, NEW s \in Starts, Unbind(s)
  PROVE  ServiceInv'
<1>1. CallInv(s) /\ TypeOK
  BY DEF ServiceInv
<1>2. TypeOK'
  BY <1>1 DEF TypeOK, Unbind, RemoveBacking
<1>3. CallInv(s)'
  BY <1>1 DEF TypeOK, CallInv, Unbind
<1>4. /\ UNCHANGED <<conf, verdict, phase, table, shutdown, canceled, stopped>>
      /\ \A t \in Starts \ {s} : call'[t] = call[t]
  BY <1>1 DEF Unbind, TypeOK
<1>5. (InTable(s)' <=> InTable(s)) /\ (Past(s)' <=> Past(s))
  BY <1>4 DEF InTable, Past
<1> QED
  BY <1>2, <1>3, <1>4, <1>5, StartKeeps

LEMMA ReturnedKeeps ==
  ASSUME ServiceInv, NEW s \in Starts, Returned(s)
  PROVE  ServiceInv'
<1>1. CallInv(s) /\ TypeOK
  BY DEF ServiceInv
<1>2. TypeOK'
  <2>1. status' \in [Profiles -> Status]
    BY <1>1 DEF TypeOK, Returned, Status
  <2>2. pending' \in [Profiles -> Starts \cup {NoStart}]
    BY <1>1 DEF TypeOK, Returned
  <2> QED
    BY <1>1, <2>1, <2>2 DEF TypeOK, Returned
<1>3. CallInv(s)'
  BY <1>1 DEF TypeOK, CallInv, Returned
<1>4. /\ UNCHANGED <<conf, verdict, phase, table, shutdown, canceled, stopped>>
      /\ \A t \in Starts \ {s} : call'[t] = call[t]
  BY <1>1 DEF Returned, TypeOK
<1>5. (InTable(s)' <=> InTable(s)) /\ (Past(s)' <=> Past(s))
  BY <1>4 DEF InTable, Past
<1> QED
  BY <1>2, <1>3, <1>4, <1>5, StartKeeps

LEMMA ReportKeeps ==
  ASSUME ServiceInv, NEW s \in Starts, Report(s)
  PROVE  ServiceInv'
<1>1. CallInv(s) /\ TypeOK /\ phase[s] = "leaving"
  BY DEF ServiceInv, Report
<1>2. KindOf(s) \in Kinds
  BY <1>1, CallKind
<1>3. TypeOK'
  <2>1. verdict[s] \in {"stopped", "error"}
    BY <1>1 DEF TypeOK, CallInv
  <2>2. Offer(chan[KindOf(s)], s, verdict[s]) \in Seq(Event)
    BY <1>1, <1>2, <2>1, OfferTyped DEF TypeOK
  <2>3. chan' \in [Kinds -> Seq(Event)]
    BY <1>1, <2>2 DEF TypeOK, Report
  <2> QED
    BY <1>1, <2>3 DEF TypeOK, Report
<1>4. CallInv(s)'
  BY <1>1 DEF TypeOK, CallInv, Report
<1>5. /\ UNCHANGED <<conf, verdict, call, table, shutdown, canceled, stopped>>
      /\ \A t \in Starts \ {s} : phase'[t] = phase[t]
  BY <1>1 DEF Report, TypeOK
<1>6. (InTable(s)' <=> InTable(s)) /\ (Past(s)' <=> Past(s))
  BY <1>1 DEF InTable, Past, Report, TypeOK
<1> QED
  BY <1>3, <1>4, <1>5, <1>6, StartKeeps

(* Reserve and Check bring a start closer to serving. *)
LEMMA ReserveKeeps ==
  ASSUME ServiceInv, NEW s \in Starts, Reserve(s)
  PROVE  ServiceInv'
<1> DEFINE p == ProfileOf[s]
           k == KindOf(s)
<1>1. CallInv(s) /\ TypeOK /\ call[s] = "adapter" /\ phase[s] = "new"
  BY DEF ServiceInv, Reserve
<1>2. k \in Kinds /\ p \in Profiles
  BY <1>1, CallKind
<1>3. \A t \in Starts : KindOf(t)' = KindOf(t) /\ (conf[t] # Unborn => KindOf(t) \in Kinds)
  BY <1>1, KindTyped DEF KindOf, Reserve
<1> HIDE DEF k
<1>4. /\ phase' = [phase EXCEPT ![s] = "reserved"]
      /\ table' = [table EXCEPT ![k][p] = s]
      /\ table[k][p] = NoStart
      /\ UNCHANGED <<service, goroutine, dispatcher, stopped, verdict, chan, shutdown>>
  BY DEF Reserve, k
<1>5. TypeOK'
  <2>1. phase' \in [Starts -> {"new", "reserved", "checked", "committed", "serving",
                              "leaving", "gone"}]
    BY <1>1, <1>4 DEF TypeOK
  <2>2. table' \in [Kinds -> [Profiles -> Starts \cup {NoStart}]]
    BY <1>1, <1>2, <1>4 DEF TypeOK
  <2> QED
    BY <1>1, <1>4, <2>1, <2>2 DEF TypeOK
<1>6. \A t \in Starts : CallInv(t)'
  BY <1>1, <1>4 DEF ServiceInv, TypeOK, CallInv
<1>7. TableInv'
  <2>1. \A l \in Kinds, q \in Profiles :
          table'[l][q] = IF l = k /\ q = p THEN s ELSE table[l][q]
    <3> HIDE DEF p
    <3>1. table' = [table EXCEPT ![k] = [table[k] EXCEPT ![p] = s]]
      BY <1>4
    <3>2. table \in [Kinds -> [Profiles -> Starts \cup {NoStart}]]
      BY <1>1 DEF TypeOK
    <3> QED
      BY <1>2, <3>1, <3>2
  <2>2. \A t \in Starts : InTable(t)' <=> (InTable(t) \/ t = s)
    BY <1>1, <1>4 DEF TypeOK, InTable
  <2>3. ~InTable(s) /\ k = KindOf(s)
    BY <1>1 DEF InTable, k
  <2>4. \A l \in Kinds, q \in Profiles : table[l][q] # NoStart => table[l][q] \in Starts
    BY <1>1 DEF TypeOK
  <2>5. \A l \in Kinds, q \in Profiles, t \in Starts : table'[l][q] = t =>
          ProfileOf[t] = q /\ KindOf(t)' = l /\ InTable(t)'
    BY <1>3, <2>1, <2>2, <2>3, <2>4 DEF ServiceInv, TableInv
  <2>6. \A t \in Starts : InTable(t)' => table'[KindOf(t)'][ProfileOf[t]] = t
    <3> SUFFICES ASSUME NEW t \in Starts, InTable(t)'
                 PROVE  table'[KindOf(t)'][ProfileOf[t]] = t
      OBVIOUS
    <3>1. CASE t = s
      BY <1>2, <1>3, <2>1, <2>3, <3>1
    <3>2. CASE t # s
      <4>1. InTable(t) /\ table[KindOf(t)][ProfileOf[t]] = t
        BY <2>2, <3>2 DEF ServiceInv, TableInv
      <4>2. KindOf(t) \in Kinds
        BY <1>1, <4>1, CallKind DEF InTable, ServiceInv
      <4> QED
        BY <1>3, <1>4, <2>1, <4>1, <4>2
    <3> QED
      BY <3>1, <3>2
  <2>7. \A l \in Kinds, q \in Profiles : table'[l][q] # NoStart => table'[l][q] \in Starts
    BY <1>5 DEF TypeOK
  <2> QED
    BY <2>5, <2>6, <2>7 DEF TableInv
<1>8. ShutdownInv'
  <2>1. \A t \in Starts : Past(t)' <=> Past(t)
    BY <1>1, <1>4 DEF Past, TypeOK
  <2> QED
    BY <1>3, <1>4, <2>1 DEF ServiceInv, ShutdownInv
<1> QED
  BY <1>5, <1>6, <1>7, <1>8 DEF ServiceInv

LEMMA CheckKeeps ==
  ASSUME ServiceInv, NEW s \in Starts, Check(s)
  PROVE  ServiceInv'
<1>1. CallInv(s) /\ TypeOK
  BY DEF ServiceInv
<1>2. TypeOK'
  BY <1>1 DEF TypeOK, Check
<1>3. \A t \in Starts : CallInv(t)'
  BY <1>1 DEF TypeOK, CallInv, Check, ServiceInv
<1>4. \A t \in Starts : KindOf(t)' = KindOf(t)
  BY DEF KindOf, Check
<1>5. TableInv'
  <2>1. \A k \in Kinds, p \in Profiles : table[k][p] # NoStart => table[k][p] \in Starts
    BY <1>1 DEF TypeOK
  <2>2. \A t \in Starts : InTable(t)' <=> InTable(t)
    BY <1>1 DEF InTable, Check, TypeOK
  <2> QED
    BY <1>4, <2>1, <2>2 DEF ServiceInv, TableInv, Check
<1>6. ShutdownInv'
  <2>1. shutdown = "no" /\ shutdown' = "no"
    BY DEF ServiceInv, ShutdownInv, Check
  <2> QED
    BY <2>1 DEF ShutdownInv
<1> QED
  BY <1>2, <1>3, <1>5, <1>6 DEF ServiceInv

(* Abandon and Leave take a start and its entry away. *)
LEMMA WithdrawKeeps ==
  ASSUME ServiceInv, TypeOK', NEW s \in Starts, InTable(s),
         table' = [table EXCEPT ![KindOf(s)] = Without(@, s)],
         UNCHANGED <<conf, shutdown, canceled>>, stopped \subseteq stopped',
         \A t \in Starts \ {s} :
           call'[t] = call[t] /\ phase'[t] = phase[t] /\ verdict'[t] = verdict[t],
         CallInv(s)', ~InTable(s)', ~Past(s)'
  PROVE  ServiceInv'
<1>1. CallInv(s) /\ TypeOK
  BY DEF ServiceInv
<1>2. \A t \in Starts : KindOf(t)' = KindOf(t)
  BY DEF KindOf
<1>3. \A t \in Starts : InTable(t) => KindOf(t) \in Kinds
  BY CallKind DEF ServiceInv, InTable
<1>4. \A t \in Starts : CallInv(t)'
  BY DEF ServiceInv, CallInv
<1>5. \A t \in Starts : InTable(t)' <=> InTable(t) /\ t # s
  BY DEF InTable
<1>6. \A k \in Kinds, p \in Profiles :
        table'[k][p] = IF k = KindOf(s) /\ table[k][p] = s THEN NoStart ELSE table[k][p]
  BY <1>1, <1>3 DEF Without, TypeOK
<1>7. \A k \in Kinds, p \in Profiles : table[k][p] # NoStart => table[k][p] \in Starts
  BY <1>1 DEF TypeOK
<1>8. TableInv'
  <2>1. \A k \in Kinds, p \in Profiles, t \in Starts : table'[k][p] = t =>
          ProfileOf[t] = p /\ KindOf(t)' = k /\ InTable(t)'
    BY <1>2, <1>5, <1>6, <1>7 DEF ServiceInv, TableInv
  <2>2. \A k \in Kinds, p \in Profiles : table'[k][p] # NoStart => table'[k][p] \in Starts
    BY <1>6, <1>7
  <2>3. \A t \in Starts : InTable(t)' => table'[KindOf(t)'][ProfileOf[t]] = t
    BY <1>2, <1>3, <1>5, <1>6 DEF ServiceInv, TableInv
  <2> QED
    BY <2>1, <2>2, <2>3 DEF TableInv
<1>9. ShutdownInv'
  <2>1. \A t \in Starts : Past(t)' => Past(t)
    BY DEF Past
  <2> QED
    BY <1>2, <2>1 DEF ServiceInv, ShutdownInv
<1> QED
  BY <1>4, <1>8, <1>9 DEF ServiceInv

LEMMA WithoutTyped ==
  ASSUME TypeOK, NEW k \in Kinds, NEW s \in Starts
  PROVE  [table EXCEPT ![k] = Without(@, s)] \in [Kinds -> [Profiles -> Starts \cup {NoStart}]]
<1>1. Without(table[k], s) \in [Profiles -> Starts \cup {NoStart}]
  BY DEF TypeOK, Without
<1> QED
  BY <1>1 DEF TypeOK

LEMMA AbandonKeeps ==
  ASSUME ServiceInv, NEW s \in Starts, Abandon(s)
  PROVE  ServiceInv'
<1>1. CallInv(s) /\ TypeOK /\ InTable(s)
  BY DEF ServiceInv, Abandon, InTable
<1>2. KindOf(s) \in Kinds
  BY <1>1, CallKind DEF InTable
<1>3. /\ phase' = [phase EXCEPT ![s] = "gone"]
      /\ stopped' = stopped \cup {s}
      /\ table' = [table EXCEPT ![KindOf(s)] = Without(@, s)]
      /\ call' = [call EXCEPT ![s] = "failed"]
      /\ UNCHANGED <<service, conf, dispatcher, verdict, chan, shutdown>>
  BY DEF Abandon
<1>4. TypeOK'
  <2>1. table' \in [Kinds -> [Profiles -> Starts \cup {NoStart}]]
    BY <1>1, <1>2, <1>3, WithoutTyped
  <2>2. result' \in [Starts -> {"none", "nil", "canceled", "error"}]
    BY <1>1 DEF TypeOK, Abandon
  <2> QED
    BY <1>1, <1>3, <2>1, <2>2 DEF TypeOK
<1>5. CallInv(s)' /\ ~InTable(s)' /\ ~Past(s)'
  BY <1>1, <1>3 DEF TypeOK, CallInv, InTable, Past
<1>6. \A t \in Starts \ {s} :
        call'[t] = call[t] /\ phase'[t] = phase[t] /\ verdict'[t] = verdict[t]
  BY <1>1, <1>3 DEF TypeOK
<1> QED
  BY <1>1, <1>3, <1>4, <1>5, <1>6, WithdrawKeeps

LEMMA LeaveKeeps ==
  ASSUME ServiceInv, NEW s \in Starts, Leave(s)
  PROVE  ServiceInv'
<1>1. CallInv(s) /\ TypeOK /\ InTable(s) /\ phase[s] = "serving"
  BY DEF ServiceInv, Leave, InTable
<1>2. KindOf(s) \in Kinds
  BY <1>1, CallKind DEF InTable
<1>3. PICK end \in {"stopped", "error"} : verdict' = [verdict EXCEPT ![s] = end]
  BY DEF Leave
<1>4. /\ phase' = [phase EXCEPT ![s] = "leaving"]
      /\ stopped' = stopped \cup {s}
      /\ table' = [table EXCEPT ![KindOf(s)] = Without(@, s)]
      /\ UNCHANGED <<service, goroutine, dispatcher, chan, shutdown>>
  BY DEF Leave
<1>5. TypeOK'
  <2>1. table' \in [Kinds -> [Profiles -> Starts \cup {NoStart}]]
    BY <1>1, <1>2, <1>4, WithoutTyped
  <2> QED
    BY <1>1, <1>3, <1>4, <2>1 DEF TypeOK
<1>6. CallInv(s)' /\ ~InTable(s)' /\ ~Past(s)'
  BY <1>1, <1>3, <1>4 DEF TypeOK, CallInv, InTable, Past
<1>7. \A t \in Starts \ {s} :
        call'[t] = call[t] /\ phase'[t] = phase[t] /\ verdict'[t] = verdict[t]
  BY <1>1, <1>3, <1>4 DEF TypeOK
<1> QED
  BY <1>1, <1>4, <1>5, <1>6, <1>7, WithdrawKeeps

LEMMA FaultKeeps ==
  ASSUME ServiceInv, NEW s \in Starts, Fault(s)
  PROVE  ServiceInv'
<1>1. TypeOK'
  <2>1. Offer(chan["tailscale"], s, "error") \in Seq(Event)
    BY OfferTyped, ConfigKinds DEF ServiceInv, TypeOK
  <2>2. chan' \in [Kinds -> Seq(Event)]
    BY <2>1, ConfigKinds DEF ServiceInv, TypeOK, Fault
  <2> QED
    BY <2>2 DEF ServiceInv, TypeOK, Fault
<1> QED
  BY <1>1, CallerKeeps DEF Fault

LEMMA HeadTyped ==
  ASSUME NEW ch \in Seq(Event), ch # <<>>
  PROVE  /\ Head(ch).start \in Starts
         /\ Head(ch).type \in {"started", "stopped", "error"}
         /\ Tail(ch) \in Seq(Event)
<1>1. Head(ch) \in Event /\ Tail(ch) \in Seq(Event)
  OBVIOUS
<1> QED
  BY <1>1 DEF Event

LEMMA ForwardKeeps ==
  ASSUME ServiceInv, NEW k \in Kinds, Forward(k)
  PROVE  ServiceInv'
<1> DEFINE e == Head(chan[k])
<1>1. chan[k] \in Seq(Event) /\ chan[k] # <<>>
  BY DEF ServiceInv, TypeOK, Forward
<1>2. e.start \in Starts /\ e.type \in {"started", "stopped", "error"}
      /\ Tail(chan[k]) \in Seq(Event)
  BY <1>1, HeadTyped
<1>3. TypeOK'
  <2>1. bus' \in Seq(Event)
    BY <1>2, OfferTyped DEF ServiceInv, TypeOK, Forward
  <2>2. chan' \in [Kinds -> Seq(Event)]
    BY <1>2 DEF ServiceInv, TypeOK, Forward
  <2>3. backing' \in [Profiles -> Kinds \cup {"none"}]
    BY DEF ServiceInv, TypeOK, Forward, RemoveBacking
  <2> QED
    BY <2>1, <2>2, <2>3 DEF ServiceInv, TypeOK, Forward
<1> QED
  BY <1>3, CallerKeeps DEF Forward

LEMMA HandleRuntimeEventKeeps ==
  ASSUME ServiceInv, HandleRuntimeEvent PROVE ServiceInv'
<1> DEFINE e == Head(bus)
<1>1. bus \in Seq(Event) /\ bus # <<>>
  BY DEF ServiceInv, TypeOK, HandleRuntimeEvent
<1>2. e.start \in Starts /\ e.type \in {"started", "stopped", "error"} /\ Tail(bus) \in Seq(Event)
  BY <1>1, HeadTyped
<1>3. TypeOK'
  <2>1. StatusOfEvent(e.type) \in Status
    BY <1>2 DEF StatusOfEvent, Status
  <2>2. status' \in [Profiles -> Status]
    BY <1>2, <2>1 DEF ServiceInv, TypeOK, HandleRuntimeEvent
  <2> QED
    BY <1>2, <2>2 DEF ServiceInv, TypeOK, HandleRuntimeEvent
<1> QED
  BY <1>3, CallerKeeps DEF HandleRuntimeEvent

-----------------------------------------------------------------------------
(* Shutdown. *)

(* A shutdown step that leaves the starts alone keeps what does not mention it. *)
LEMMA ShutdownFrame ==
  ASSUME ServiceInv, TypeOK', ShutdownInv', UNCHANGED <<goroutine, phase, table, verdict>>
  PROVE  ServiceInv'
<1>1. \A s \in Starts : KindOf(s)' = KindOf(s)
  BY DEF KindOf
<1>2. \A s \in Starts : CallInv(s)'
  BY DEF ServiceInv, CallInv
<1>3. TableInv'
  <2>1. \A k \in Kinds, p \in Profiles : table[k][p] # NoStart => table[k][p] \in Starts
    BY DEF ServiceInv, TypeOK
  <2> QED
    BY <1>1, <2>1 DEF ServiceInv, TableInv, InTable
<1> QED
  BY <1>2, <1>3 DEF ServiceInv

(* Whatever is past its last look at the context is in its adapter's table. *)
LEMMA PastIsEntry ==
  ASSUME ServiceInv, NEW s \in Starts, Past(s)
  PROVE  KindOf(s) \in Kinds /\ s \in Entries(KindOf(s))
<1>1. KindOf(s) \in Kinds
  BY CallKind DEF ServiceInv, Past
<1>2. table[KindOf(s)][ProfileOf[s]] = s
  BY DEF ServiceInv, TableInv, Past, InTable
<1> QED
  BY <1>1, <1>2 DEF Entries

LEMMA ShutdownKeeps == ASSUME ServiceInv, Shutdown PROVE ServiceInv'
<1>1. \A s \in Starts : (Past(s)' <=> Past(s)) /\ KindOf(s)' = KindOf(s)
  BY DEF Shutdown, ShutdownCancel, ShutdownWireguard, ShutdownTailscale, ShutdownDone,
         ShutdownTimeout, ShutdownStep, Past, KindOf
<1>2. UNCHANGED <<goroutine, phase, table, verdict>>
  BY DEF Shutdown, ShutdownCancel, ShutdownWireguard, ShutdownTailscale, ShutdownDone,
         ShutdownTimeout, ShutdownStep
<1>3. Entries("wireguard") \subseteq Starts /\ Entries("tailscale") \subseteq Starts
  BY EntriesTyped, ConfigKinds DEF ServiceInv
<1>4. CASE ShutdownCancel
  <2>1. TypeOK' /\ ShutdownInv'
    BY <1>4 DEF ServiceInv, TypeOK, ShutdownCancel, ShutdownInv
  <2> QED
    BY <1>2, <2>1, ShutdownFrame
<1>5. CASE ShutdownWireguard
  <2>1. TypeOK'
    BY <1>3, <1>5 DEF ServiceInv, TypeOK, ShutdownWireguard, ShutdownStep
  <2>2. ShutdownInv'
    BY <1>1, <1>5, PastIsEntry DEF ServiceInv, ShutdownInv, ShutdownWireguard, ShutdownStep
  <2> QED
    BY <1>2, <2>1, <2>2, ShutdownFrame
<1>6. CASE ShutdownTailscale
  <2>1. TypeOK'
    BY <1>3, <1>6 DEF ServiceInv, TypeOK, ShutdownTailscale, ShutdownStep
  <2>2. ShutdownInv'
    BY <1>1, <1>6, PastIsEntry
       DEF ServiceInv, ShutdownInv, ShutdownTailscale, ShutdownStep, Awaited
  <2> QED
    BY <1>2, <2>1, <2>2, ShutdownFrame
<1>7. CASE ShutdownDone
  <2>1. TypeOK'
    BY <1>7 DEF ServiceInv, TypeOK, ShutdownDone
  <2>2. ShutdownInv'
    BY <1>1, <1>7, PastIsEntry, ConfigKinds
       DEF ServiceInv, ShutdownInv, ShutdownDone, Awaited
  <2> QED
    BY <1>2, <2>1, <2>2, ShutdownFrame
<1>8. CASE ShutdownTimeout
  <2>1. TypeOK'
    BY <1>3, <1>8 DEF ServiceInv, TypeOK, ShutdownTimeout, ShutdownStep
  <2>2. ShutdownInv'
    BY <1>1, <1>8, PastIsEntry DEF ServiceInv, ShutdownInv, ShutdownTimeout, ShutdownStep
  <2> QED
    BY <1>2, <2>1, <2>2, ShutdownFrame
<1> QED
  BY <1>4, <1>5, <1>6, <1>7, <1>8 DEF Shutdown

-----------------------------------------------------------------------------
LEMMA NextServiceInv == ServiceInv /\ [Next]_vars => ServiceInv'
<1> SUFFICES ASSUME ServiceInv, [Next]_vars PROVE ServiceInv'
  OBVIOUS
<1>1. CASE UNCHANGED vars
  <2>1. TypeOK'
    BY <1>1 DEF ServiceInv, TypeOK, vars
  <2> QED
    BY <1>1, <2>1, CallerKeeps DEF vars
<1>2. CASE ServiceCall
  BY <1>2, ConnectsKeep, DisconnectKeeps, DeleteKeeps, SaveKeeps, AddKeeps,
     DisconnectAllKeeps DEF ServiceCall
<1>3. ASSUME NEW s \in Starts,
             Goroutine(s) \/ Check(s) \/ Abandon(s) \/ Leave(s) \/ Fault(s)
      PROVE  ServiceInv'
  BY <1>3, DispatchKeeps, RefuseKeeps, ReserveKeeps, CommitKeeps, AnnounceKeeps, UnbindKeeps,
     ReturnedKeeps, ReportKeeps, CheckKeeps, AbandonKeeps, LeaveKeeps, FaultKeeps
     DEF Goroutine
<1>4. CASE Next
  BY <1>2, <1>3, <1>4, ForwardKeeps, HandleRuntimeEventKeeps, ShutdownKeeps DEF Next
<1> QED
  BY <1>1, <1>4

(* The invariant of the service, the dispatcher and the adapters together.  *)
THEOREM ServiceInvariance == Spec => []ServiceInv
BY InitServiceInv, NextServiceInv, PTL DEF Spec

(* Every variable of the composition keeps its type. *)
THEOREM ServiceTypeCorrect == Spec => []TypeOK
<1>1. ServiceInv => TypeOK
  BY DEF ServiceInv
<1> QED
  BY <1>1, ServiceInvariance, PTL

(* After Shutdown returned nil nothing serves, and no start that was still  *)
(* on its way can come up any more (service.go:659-667).                    *)
THEOREM ShutdownFinal == Spec => []ShutdownIsFinal
<1>1. ServiceInv => ShutdownIsFinal
  BY DEF ServiceInv, ShutdownInv, ShutdownIsFinal, Past, Connected
<1> QED
  BY <1>1, ServiceInvariance, PTL

-----------------------------------------------------------------------------
(* The dispatcher's bindings. *)

LEMMA InitBindingInv == Init => BindingInv
<1> SUFFICES ASSUME Init PROVE BindingInv
  OBVIOUS
<1>1. \A k \in Kinds : 1..Len(chan[k]) = {}
  <2>1. \A k \in Kinds : chan[k] = <<>>
    BY DEF Init
  <2> QED
    BY <2>1
<1>2. ChanInv
  BY <1>1 DEF ChanInv
<1>3. \A s \in Starts : ~Holds(s)
  <2>1. \A s \in Starts : call[s] = "none" /\ phase[s] = "new"
    BY DEF Init
  <2> QED
    BY <1>1, <2>1 DEF Holds
<1> QED
  BY <1>2, <1>3, InitServiceInv DEF BindingInv, HolderInv, PendingInv, CancelInv, Init

(* The events on the channels are events, and each has its index. *)
LEMMA ChanTyped ==
  ASSUME TypeOK, NEW k \in Kinds
  PROVE  /\ chan[k] \in Seq(Event)
         /\ Len(chan[k]) \in Nat
         /\ \A i \in 1..Len(chan[k]) : chan[k][i].start \in Starts
<1>1. chan[k] \in Seq(Event)
  BY DEF TypeOK
<1>2. \A i \in 1..Len(chan[k]) : chan[k][i] \in Event
  BY <1>1
<1> QED
  BY <1>1, <1>2 DEF Event

(* A start with an entry holds the binding, and so does one that is leaving. *)
LEMMA EntryHolds ==
  ASSUME ServiceInv, NEW s \in Starts, InTable(s)
  PROVE  Holds(s)
BY DEF ServiceInv, CallInv, TypeOK, InTable, Holds

LEMMA OneEntry ==
  ASSUME ServiceInv, HolderInv
  PROVE  RunningIsBound /\ OneAdapter
<1>1. \A k \in Kinds, p \in Profiles : table[k][p] # NoStart => backing[p] = k
  <2> SUFFICES ASSUME NEW k \in Kinds, NEW p \in Profiles, table[k][p] # NoStart
               PROVE  backing[p] = k
    OBVIOUS
  <2> DEFINE s == table[k][p]
  <2>1. s \in Starts /\ ProfileOf[s] = p /\ KindOf(s) = k /\ InTable(s)
    BY DEF ServiceInv, TypeOK, TableInv
  <2>2. Holds(s)
    BY <2>1, EntryHolds
  <2> QED
    BY <2>1, <2>2 DEF HolderInv
<1> QED
  BY <1>1, ConfigKinds DEF RunningIsBound, OneAdapter

(* Steps that neither move a start nor an event: the bindings stay. *)
LEMMA BindingFrame ==
  ASSUME BindingInv, ServiceInv', UNCHANGED <<goroutine, phase, chan, backing>>
  PROVE  ChanInv' /\ HolderInv'
<1>1. \A s \in Starts : KindOf(s)' = KindOf(s)
  BY DEF KindOf
<1>2. ChanInv'
  <2>1. \A k \in Kinds : \A i \in 1..Len(chan[k]) : chan[k][i].start \in Starts
    BY ChanTyped DEF BindingInv, ServiceInv
  <2> QED
    BY <1>1, <2>1 DEF BindingInv, ChanInv, Final
<1>3. \A s \in Starts : Holds(s)' <=> Holds(s)
  BY DEF Holds, Final
<1> QED
  BY <1>1, <1>2, <1>3 DEF BindingInv, HolderInv

(* While the service is open whoever cancels the pending start of a profile *)
(* also closes the process of the profile, so nothing slips through.        *)
LEMMA TargetIsEntry ==
  ASSUME BindingInv, NEW s \in Starts, Past(s)
  PROVE  s \in StopTarget(ProfileOf[s])
<1> DEFINE p == ProfileOf[s]
           k == KindOf(s)
<1>1. k \in Kinds /\ p \in Profiles
  BY CallKind DEF BindingInv, ServiceInv, Past
<1>2. table[k][p] = s
  BY DEF BindingInv, ServiceInv, TableInv, Past, InTable
<1>3. s # NoStart
  OBVIOUS
<1>4. backing[p] = k
  BY <1>1, <1>2, <1>3, OneEntry DEF BindingInv, RunningIsBound
<1>5. backing[p] # "none"
  BY <1>1, <1>4 DEF Kinds
<1> QED
  BY <1>2, <1>3, <1>4, <1>5 DEF StopTarget

LEMMA CallsKeepBinding ==
  ASSUME BindingInv, ServiceInv', PendingInv', stopped \subseteq stopped',
         UNCHANGED <<goroutine, phase, chan, backing>>,
         \/ shutdown' # "no"
         \/ /\ UNCHANGED shutdown
            /\ \A s \in Starts : s \in canceled' /\ Past(s) => s \in canceled \cup stopped'
  PROVE  BindingInv'
<1>1. ChanInv' /\ HolderInv'
  BY BindingFrame
<1>2. \A s \in Starts : Past(s)' <=> Past(s)
  BY DEF Past
<1>3. canceled' \subseteq Starts
  BY DEF ServiceInv, TypeOK
<1>4. CancelInv'
  BY <1>2, <1>3 DEF BindingInv, CancelInv
<1> QED
  BY <1>1, <1>4 DEF BindingInv

LEMMA CallsBind ==
  ASSUME BindingInv, ServiceInv',
         \/ \E p \in Profiles : Disconnect(p) \/ Delete(p)
         \/ \E p \in Profiles, c \in Choices : Save(p, c) \/ Add(p, c)
         \/ DisconnectAll \/ HandleRuntimeEvent \/ Shutdown \/ UNCHANGED vars
  PROVE  BindingInv'
<1>1. CASE \E p \in Profiles : Disconnect(p) \/ Delete(p)
  <2>1. PICK p \in Profiles : Disconnect(p) \/ Delete(p)
    BY <1>1
  <2>2. /\ canceled' = canceled \cup PendingOf({p})
        /\ stopped' = stopped \cup StopTarget(p)
        /\ UNCHANGED <<goroutine, phase, chan, backing, shutdown>>
    BY <2>1 DEF Disconnect, Delete
  <2>3. PendingInv'
    <3>1. pending' = pending \/ pending' = [pending EXCEPT ![p] = NoStart]
      BY <2>1 DEF Disconnect, Delete
    <3>2. pending \in [Profiles -> Starts \cup {NoStart}]
      BY DEF BindingInv, ServiceInv, TypeOK
    <3> QED
      BY <3>1, <3>2 DEF BindingInv, PendingInv
  <2>4. \A s \in PendingOf({p}) : ProfileOf[s] = p
    BY DEF BindingInv, PendingInv, PendingOf
  <2>5. \A s \in Starts : s \in canceled' /\ Past(s) => s \in canceled \cup stopped'
    BY <2>2, <2>4, TargetIsEntry
  <2> QED
    BY <2>2, <2>3, <2>5, CallsKeepBinding
<1>2. CASE DisconnectAll
  <2>1. \A s \in Starts : Past(s) => s \in stopped'
    BY <1>2, PastIsEntry, ConfigKinds DEF DisconnectAll, BindingInv
  <2>2. PendingInv'
    BY <1>2 DEF BindingInv, PendingInv, DisconnectAll
  <2> QED
    BY <1>2, <2>1, <2>2, CallsKeepBinding DEF DisconnectAll
<1>3. CASE \/ \E p \in Profiles, c \in Choices : Save(p, c) \/ Add(p, c)
           \/ HandleRuntimeEvent \/ UNCHANGED vars
  <2>1. UNCHANGED <<goroutine, phase, chan, backing, shutdown, canceled, stopped, pending>>
    BY <1>3 DEF Save, Add, HandleRuntimeEvent, vars
  <2>2. PendingInv'
    BY <2>1 DEF BindingInv, PendingInv
  <2> QED
    BY <2>1, <2>2, CallsKeepBinding
<1>4. CASE Shutdown
  <2>1. /\ UNCHANGED <<goroutine, phase, chan, backing, pending>>
        /\ shutdown' # "no" /\ stopped \subseteq stopped'
    BY <1>4 DEF Shutdown, ShutdownCancel, ShutdownWireguard, ShutdownTailscale, ShutdownDone,
                ShutdownTimeout, ShutdownStep
  <2>2. PendingInv'
    BY <2>1 DEF BindingInv, PendingInv
  <2> QED
    BY <2>1, <2>2, CallsKeepBinding
<1> QED
  BY <1>1, <1>2, <1>3, <1>4

-----------------------------------------------------------------------------
(* Steps of the starts and their events. *)

LEMMA FinalHolds ==
  ASSUME BindingInv, NEW k \in Kinds, NEW i \in 1..Len(chan[k]), Final(chan[k][i])
  PROVE  LET s == chan[k][i].start
         IN s \in Starts /\ KindOf(s) = k /\ Holds(s)
            /\ phase[s] = "gone" /\ call[s] \in {"tail", "done"}
BY ChanTyped DEF BindingInv, ServiceInv, ChanInv, Holds

LEMMA HoldsKind ==
  ASSUME BindingInv, NEW s \in Starts, Holds(s)
  PROVE  call[s] # "none" /\ KindOf(s) \in Kinds
<1>1. CallInv(s) /\ TypeOK
  BY DEF BindingInv, ServiceInv
<1>2. call[s] # "none"
  BY <1>1, FinalHolds DEF Holds, CallInv
<1> QED
  BY <1>1, <1>2, CallKind

(* The cancellation invariant survives every step that cancels nothing and  *)
(* brings nobody who is cancelled past its last look at the context.        *)
LEMMA CancelFrame ==
  ASSUME BindingInv, ServiceInv', UNCHANGED <<canceled, shutdown, pending>>,
         stopped \subseteq stopped',
         \A s \in Starts : s \in canceled /\ Past(s)' => Past(s)
  PROVE  CancelInv' /\ PendingInv'
<1>1. canceled \subseteq Starts
  BY DEF BindingInv, ServiceInv, TypeOK
<1> QED
  BY <1>1 DEF BindingInv, CancelInv, PendingInv

(* The events stay, and what they tell of their starts remains true. *)
LEMMA ChanFrame ==
  ASSUME BindingInv, UNCHANGED <<conf, chan>>,
         \A s \in Starts : call[s] # "none" => call'[s] # "none",
         \A s \in Starts : phase[s] = "gone" /\ call[s] \in {"tail", "done"} =>
                             phase'[s] = "gone" /\ call'[s] \in {"tail", "done"}
  PROVE  ChanInv'
<1>1. \A s \in Starts : KindOf(s)' = KindOf(s)
  BY DEF KindOf
<1>2. \A k \in Kinds : \A i \in 1..Len(chan[k]) : chan[k][i].start \in Starts
  BY ChanTyped DEF BindingInv, ServiceInv
<1> QED
  BY <1>1, <1>2 DEF BindingInv, ChanInv, Final

LEMMA HolderFrame ==
  ASSUME BindingInv, UNCHANGED <<conf, backing>>,
         \A s \in Starts : Holds(s)' => Holds(s)
  PROVE  HolderInv'
<1>1. \A s \in Starts : KindOf(s)' = KindOf(s)
  BY DEF KindOf
<1> QED
  BY <1>1 DEF BindingInv, HolderInv

(* Refuse, Reserve, Check, Commit, Abandon and Leave happen inside the      *)
(* adapter; Returned is the tail of startRuntime.                           *)
LEMMA InsideBinds ==
  ASSUME BindingInv, ServiceInv', NEW s \in Starts,
         \/ Refuse(s) \/ Reserve(s) \/ Check(s) \/ Commit(s) \/ Abandon(s) \/ Leave(s)
  PROVE  BindingInv'
<1>1. CallInv(s) /\ TypeOK
  BY DEF BindingInv, ServiceInv
<1>2. /\ UNCHANGED <<conf, chan, backing, canceled, shutdown, pending>>
      /\ stopped \subseteq stopped'
      /\ \A t \in Starts \ {s} : call'[t] = call[t] /\ phase'[t] = phase[t]
  BY <1>1 DEF Refuse, Reserve, Check, Commit, Abandon, Leave, TypeOK
<1>3. /\ call[s] \in {"adapter", "failed"} \/ phase[s] \in {"serving", "leaving"}
      /\ phase[s] # "gone"
      /\ call'[s] # "none"
  BY <1>1 DEF Refuse, Reserve, Check, Commit, Abandon, Leave, TypeOK, CallInv
<1>4. ChanInv'
  BY <1>2, <1>3, ChanFrame
<1>5. HolderInv'
  <2>1. \A t \in Starts : Holds(t)' => Holds(t)
    BY <1>2, <1>3 DEF Holds, Final
  <2> QED
    BY <1>2, <2>1, HolderFrame
<1>6. CancelInv' /\ PendingInv'
  <2>1. s \in canceled /\ Past(s)' => Past(s)
    BY <1>1 DEF Refuse, Reserve, Check, Commit, Abandon, Leave, TypeOK, Past
  <2>2. \A t \in Starts : t \in canceled /\ Past(t)' => Past(t)
    BY <1>2, <2>1 DEF Past
  <2> QED
    BY <1>2, <2>2, CancelFrame
<1> QED
  BY <1>4, <1>5, <1>6 DEF BindingInv

LEMMA ReturnedBinds ==
  ASSUME BindingInv, ServiceInv', NEW s \in Starts, Returned(s)
  PROVE  BindingInv'
<1>1. /\ UNCHANGED <<conf, chan, backing, canceled, shutdown, phase, stopped>>
      /\ call[s] = "tail" /\ call'[s] = "done"
      /\ \A t \in Starts \ {s} : call'[t] = call[t]
  BY DEF BindingInv, ServiceInv, TypeOK, Returned
<1>2. ChanInv'
  BY <1>1, ChanFrame
<1>3. HolderInv'
  <2>1. \A t \in Starts : Holds(t)' => Holds(t)
    BY <1>1 DEF Holds, Final
  <2> QED
    BY <1>1, <2>1, HolderFrame
<1>4. PendingInv'
  BY DEF BindingInv, ServiceInv, TypeOK, PendingInv, Returned
<1>5. CancelInv'
  <2>1. \A t \in Starts : Past(t)' <=> Past(t)
    BY <1>1 DEF Past
  <2>2. canceled \subseteq Starts
    BY DEF BindingInv, ServiceInv, TypeOK
  <2> QED
    BY <1>1, <2>1, <2>2 DEF BindingInv, CancelInv
<1> QED
  BY <1>2, <1>3, <1>4, <1>5 DEF BindingInv

(* Dispatch binds a profile that nobody held, or does nothing. *)
LEMMA DispatchBinds ==
  ASSUME BindingInv, ServiceInv', NEW s \in Starts, Dispatch(s)
  PROVE  BindingInv'
<1> DEFINE p == ProfileOf[s]
<1>1. /\ TypeOK /\ CallInv(s) /\ p \in Profiles
      /\ call[s] = "dispatch"
      /\ UNCHANGED <<conf, chan, phase, canceled, shutdown, pending, stopped>>
      /\ \A t \in Starts \ {s} : call'[t] = call[t]
      /\ call'[s] # "none"
  BY DEF BindingInv, ServiceInv, TypeOK, Dispatch
<1>2. phase[s] = "new"
  BY <1>1 DEF CallInv
<1>3. ChanInv'
  BY <1>1, <1>2, ChanFrame
<1>4. CancelInv' /\ PendingInv'
  <2>1. \A t \in Starts : Past(t)' <=> Past(t)
    BY <1>1 DEF Past
  <2> QED
    BY <1>1, <2>1, CancelFrame
<1>5. CASE backing[p] # "none"
  <2>1. UNCHANGED backing /\ call'[s] = "tail"
    BY <1>1, <1>5 DEF Dispatch, TypeOK
  <2>2. \A t \in Starts : Holds(t)' => Holds(t)
    BY <1>1, <1>2, <2>1 DEF Holds, Final
  <2> QED
    BY <1>1, <1>3, <1>4, <2>1, <2>2, HolderFrame DEF BindingInv
<1>6. CASE backing[p] = "none"
  <2>1. backing' = [backing EXCEPT ![p] = KindOf(s)]
    BY <1>6 DEF Dispatch
  <2>2. \A t \in Starts : Holds(t) => ProfileOf[t] # p
    BY <1>6, HoldsKind, ConfigKinds DEF BindingInv, HolderInv
  <2>3. \A t \in Starts : Holds(t)' => Holds(t) \/ t = s
    BY <1>1 DEF Holds, Final
  <2>4. \A t \in Starts : KindOf(t)' = KindOf(t)
    BY <1>1 DEF KindOf
  <2>5. backing'[p] = KindOf(s) /\ \A q \in Profiles \ {p} : backing'[q] = backing[q]
    BY <1>1, <2>1 DEF TypeOK
  <2>6. HolderInv'
    BY <2>2, <2>3, <2>4, <2>5 DEF BindingInv, HolderInv
  <2> QED
    BY <1>3, <1>4, <2>6 DEF BindingInv
<1> QED
  BY <1>5, <1>6

(* The binding goes with its last holder. *)
LEMMA ReleaseBinds ==
  ASSUME BindingInv, NEW s \in Starts, UNCHANGED conf, Holds(s), ~Holds(s)',
         RemoveBacking(ProfileOf[s], KindOf(s)),
         \A t \in Starts : Holds(t)' => Holds(t)
  PROVE  HolderInv'
<1>1. \A t \in Starts : Holds(t)' => Holds(t) /\ ProfileOf[t] # ProfileOf[s]
  BY DEF BindingInv, HolderInv
<1>2. \A q \in Profiles \ {ProfileOf[s]} : backing'[q] = backing[q]
  BY DEF RemoveBacking, BindingInv, ServiceInv, TypeOK
<1>3. \A t \in Starts : KindOf(t)' = KindOf(t)
  BY DEF KindOf
<1> QED
  BY <1>1, <1>2, <1>3 DEF BindingInv, HolderInv

LEMMA UnbindBinds ==
  ASSUME BindingInv, ServiceInv', NEW s \in Starts, Unbind(s)
  PROVE  BindingInv'
<1>1. /\ call[s] = "failed" /\ call'[s] = "tail" /\ phase[s] = "gone"
      /\ UNCHANGED <<conf, chan, phase, canceled, shutdown, pending, stopped>>
      /\ \A t \in Starts \ {s} : call'[t] = call[t]
      /\ RemoveBacking(ProfileOf[s], KindOf(s))
  BY DEF BindingInv, ServiceInv, TypeOK, CallInv, Unbind
<1>2. ChanInv'
  BY <1>1, ChanFrame
<1>3. CancelInv' /\ PendingInv'
  <2>1. \A t \in Starts : Past(t)' <=> Past(t)
    BY <1>1 DEF Past
  <2> QED
    BY <1>1, <2>1, CancelFrame
<1>4. HolderInv'
  <2>1. Holds(s)
    BY <1>1 DEF Holds
  <2>2. ~Holds(s)'
    BY <1>1, FinalHolds DEF Holds, Final
  <2>3. \A t \in Starts : Holds(t)' => Holds(t)
    BY <1>1 DEF Holds, Final
  <2> QED
    BY <1>1, <2>1, <2>2, <2>3, ReleaseBinds
<1> QED
  BY <1>2, <1>3, <1>4 DEF BindingInv

(* An offered event is the last one, or is dropped. *)
LEMMA OfferIndices ==
  ASSUME NEW ch \in Seq(Event), NEW s \in Starts, NEW type \in {"started", "stopped", "error"}
  PROVE  \/ Offer(ch, s, type) = ch
         \/ /\ Len(Offer(ch, s, type)) = Len(ch) + 1
            /\ \A i \in 1..Len(ch) : Offer(ch, s, type)[i] = ch[i]
            /\ Offer(ch, s, type)[Len(ch) + 1] = [start |-> s, type |-> type]
<1>1. [start |-> s, type |-> type] \in Event
  BY DEF Event
<1> QED
  BY <1>1 DEF Offer

(* What a send of start s on channel c does to the channels. *)
Sent(c, s, type) == chan' = [chan EXCEPT ![c] = Offer(@, s, type)]

Grown(c, s, type) ==
  \A k \in Kinds : \A i \in 1..Len(chan'[k]) :
    \/ i \in 1..Len(chan[k]) /\ chan'[k][i] = chan[k][i]
    \/ /\ k = c /\ i = Len(chan[k]) + 1
       /\ chan'[k][i] = [start |-> s, type |-> type]

LEMMA SendIndices ==
  ASSUME TypeOK, NEW s \in Starts, NEW c \in Kinds,
         NEW type \in {"started", "stopped", "error"}, Sent(c, s, type)
  PROVE  Grown(c, s, type)
<1> SUFFICES ASSUME NEW k \in Kinds, NEW i \in 1..Len(chan'[k])
             PROVE  \/ i \in 1..Len(chan[k]) /\ chan'[k][i] = chan[k][i]
                    \/ /\ k = c /\ i = Len(chan[k]) + 1
                       /\ chan'[k][i] = [start |-> s, type |-> type]
  BY DEF Grown
<1>1. chan[c] \in Seq(Event) /\ Len(chan[c]) \in Nat
  BY ChanTyped
<1>2. chan'[c] = Offer(chan[c], s, type) /\ \A l \in Kinds \ {c} : chan'[l] = chan[l]
  BY DEF TypeOK, Sent
<1>3. \/ chan'[c] = chan[c]
      \/ /\ Len(chan'[c]) = Len(chan[c]) + 1
         /\ \A j \in 1..Len(chan[c]) : chan'[c][j] = chan[c][j]
         /\ chan'[c][Len(chan[c]) + 1] = [start |-> s, type |-> type]
  <2> DEFINE new == Offer(chan[c], s, type)
  <2>1. \/ new = chan[c]
        \/ /\ Len(new) = Len(chan[c]) + 1
           /\ \A j \in 1..Len(chan[c]) : new[j] = chan[c][j]
           /\ new[Len(chan[c]) + 1] = [start |-> s, type |-> type]
    BY <1>1, OfferIndices
  <2>2. chan'[c] = new
    BY <1>2
  <2> HIDE DEF new
  <2> QED
    BY <2>1, <2>2
<1>4. CASE k = c
  BY <1>1, <1>3, <1>4
<1>5. CASE k # c
  BY <1>2, <1>5
<1> QED
  BY <1>4, <1>5

LEMMA AnnounceBinds ==
  ASSUME BindingInv, ServiceInv', NEW s \in Starts, Announce(s)
  PROVE  BindingInv'
<1>1. /\ TypeOK /\ phase[s] = "committed" /\ phase'[s] = "serving"
      /\ call[s] = "adapter" /\ call'[s] = "tail"
      /\ UNCHANGED <<conf, backing, canceled, shutdown, pending, stopped>>
      /\ \A t \in Starts \ {s} : call'[t] = call[t] /\ phase'[t] = phase[t]
  <2>1. TypeOK /\ CallInv(s) /\ phase[s] = "committed"
    BY DEF BindingInv, ServiceInv, Announce
  <2>2. call[s] = "adapter"
    BY <2>1 DEF TypeOK, CallInv
  <2>3. /\ phase'[s] = "serving" /\ call'[s] = "tail"
        /\ \A t \in Starts \ {s} : call'[t] = call[t] /\ phase'[t] = phase[t]
    BY <2>1 DEF TypeOK, Announce
  <2> QED
    BY <2>1, <2>2, <2>3 DEF Announce
<1>2. KindOf(s) \in Kinds /\ Holds(s)
  BY <1>1, HoldsKind DEF Holds
<1>3. \A k \in Kinds : \A i \in 1..Len(chan'[k]) :
        \/ i \in 1..Len(chan[k]) /\ chan'[k][i] = chan[k][i]
        \/ k = KindOf(s) /\ chan'[k][i].start = s /\ ~Final(chan'[k][i])
  <2> DEFINE c == KindOf(s)
  <2>1. c \in Kinds /\ Sent(c, s, "started")
    BY <1>2 DEF Announce, Sent
  <2> HIDE DEF c
  <2>2. Grown(c, s, "started")
    BY <1>1, <2>1, SendIndices
  <2> QED
    BY <2>2 DEF Grown, Final, c
<1>4. \A t \in Starts : KindOf(t)' = KindOf(t)
  BY <1>1 DEF KindOf
<1>5. \A k \in Kinds : \A i \in 1..Len(chan[k]) :
        chan[k][i].start \in Starts /\ (Final(chan[k][i]) => chan[k][i].start # s)
  BY <1>1, ChanTyped, FinalHolds
<1>6. ChanInv'
  <2>1. \A k \in Kinds : \A i \in 1..Len(chan'[k]) :
          LET t == chan'[k][i].start
          IN /\ t \in Starts /\ call'[t] # "none" /\ KindOf(t) = k
             /\ Final(chan'[k][i]) => phase'[t] = "gone" /\ call'[t] \in {"tail", "done"}
    <3> SUFFICES ASSUME NEW k \in Kinds, NEW i \in 1..Len(chan'[k])
                 PROVE  LET t == chan'[k][i].start
                        IN /\ t \in Starts /\ call'[t] # "none" /\ KindOf(t) = k
                           /\ Final(chan'[k][i]) => phase'[t] = "gone" /\ call'[t] \in {"tail", "done"}
      OBVIOUS
    <3>1. CASE i \in 1..Len(chan[k]) /\ chan'[k][i] = chan[k][i]
      <4>1. PICK t \in Starts : t = chan[k][i].start
        BY <1>5, <3>1
      <4>2. /\ call[t] # "none" /\ KindOf(t) = k
            /\ Final(chan[k][i]) => phase[t] = "gone" /\ call[t] \in {"tail", "done"}
        BY <3>1, <4>1 DEF BindingInv, ChanInv
      <4>3. call'[t] # "none" /\ (t # s => call'[t] = call[t] /\ phase'[t] = phase[t])
        BY <1>1, <4>2
      <4> QED
        BY <1>5, <3>1, <4>1, <4>2, <4>3
    <3>2. CASE k = KindOf(s) /\ chan'[k][i].start = s /\ ~Final(chan'[k][i])
      BY <1>1, <3>2
    <3> QED
      BY <1>3, <3>1, <3>2
  <2>2. \A k \in Kinds : \A i, j \in 1..Len(chan'[k]) :
          Final(chan'[k][i]) /\ Final(chan'[k][j]) /\ chan'[k][j].start = chan'[k][i].start
          => i = j
    BY <1>3, <1>5 DEF BindingInv, ChanInv
  <2> QED
    BY <1>4, <2>1, <2>2 DEF ChanInv, Final
<1>7. HolderInv'
  <2>1. \A t \in Starts : Holds(t)' => Holds(t)
    BY <1>1, <1>2, <1>3 DEF Holds, Final
  <2> QED
    BY <1>1, <2>1, HolderFrame
<1>8. CancelInv' /\ PendingInv'
  <2>1. \A t \in Starts : Past(t)' => Past(t)
    BY <1>1 DEF Past
  <2> QED
    BY <1>1, <2>1, CancelFrame
<1> QED
  BY <1>6, <1>7, <1>8 DEF BindingInv

LEMMA ReportBinds ==
  ASSUME BindingInv, ServiceInv', NEW s \in Starts, Report(s)
  PROVE  BindingInv'
<1>1. /\ TypeOK /\ phase[s] = "leaving" /\ phase'[s] = "gone"
      /\ call[s] \in {"tail", "done"} /\ verdict[s] \in {"stopped", "error"}
      /\ UNCHANGED <<call, conf, backing, canceled, shutdown, pending, stopped>>
      /\ \A t \in Starts \ {s} : phase'[t] = phase[t]
  BY DEF BindingInv, ServiceInv, TypeOK, CallInv, Report
<1>2. KindOf(s) \in Kinds /\ Holds(s)
  BY <1>1, HoldsKind DEF Holds
<1>3. \A k \in Kinds : \A i \in 1..Len(chan'[k]) :
        \/ i \in 1..Len(chan[k]) /\ chan'[k][i] = chan[k][i]
        \/ k = KindOf(s) /\ i = Len(chan[k]) + 1 /\ chan'[k][i].start = s
  <2>1. PICK c \in Kinds : c = KindOf(s)
    BY <1>2
  <2>2. PICK end \in {"started", "stopped", "error"} : end = verdict[s]
    BY <1>1
  <2>3. Sent(c, s, end)
    BY <2>1, <2>2 DEF Report, Sent
  <2>4. Grown(c, s, end)
    <3>1. TypeOK
      BY <1>1
    <3> QED
      BY <2>3, <3>1, SendIndices
  <2> QED
    BY <2>1, <2>4 DEF Grown
<1>4. \A t \in Starts : KindOf(t)' = KindOf(t)
  BY <1>1 DEF KindOf
<1>5. \A k \in Kinds : \A i \in 1..Len(chan[k]) :
        chan[k][i].start \in Starts /\ (Final(chan[k][i]) => chan[k][i].start # s)
  BY <1>1, ChanTyped, FinalHolds
<1>6. ChanInv'
  <2>1. \A k \in Kinds : \A i \in 1..Len(chan'[k]) :
          LET t == chan'[k][i].start
          IN /\ t \in Starts /\ call'[t] # "none" /\ KindOf(t) = k
             /\ Final(chan'[k][i]) => phase'[t] = "gone" /\ call'[t] \in {"tail", "done"}
    <3> SUFFICES ASSUME NEW k \in Kinds, NEW i \in 1..Len(chan'[k])
                 PROVE  LET t == chan'[k][i].start
                        IN /\ t \in Starts /\ call'[t] # "none" /\ KindOf(t) = k
                           /\ Final(chan'[k][i]) =>
                                phase'[t] = "gone" /\ call'[t] \in {"tail", "done"}
      OBVIOUS
    <3>1. CASE i \in 1..Len(chan[k]) /\ chan'[k][i] = chan[k][i]
      BY <1>1, <1>5, <3>1 DEF BindingInv, ChanInv
    <3>2. CASE k = KindOf(s) /\ chan'[k][i].start = s
      BY <1>1, <3>2
    <3> QED
      BY <1>3, <3>1, <3>2
  <2>2. \A k \in Kinds : \A i, j \in 1..Len(chan'[k]) :
          Final(chan'[k][i]) /\ Final(chan'[k][j]) /\ chan'[k][j].start = chan'[k][i].start
          => i = j
    <3> SUFFICES ASSUME NEW k \in Kinds, NEW i \in 1..Len(chan'[k]), NEW j \in 1..Len(chan'[k]),
                        Final(chan'[k][i]), Final(chan'[k][j]),
                        chan'[k][j].start = chan'[k][i].start
                 PROVE  i = j
      OBVIOUS
    <3>1. CASE /\ i \in 1..Len(chan[k]) /\ chan'[k][i] = chan[k][i]
               /\ j \in 1..Len(chan[k]) /\ chan'[k][j] = chan[k][j]
      BY <3>1 DEF BindingInv, ChanInv
    <3>2. CASE i = Len(chan[k]) + 1 /\ j = Len(chan[k]) + 1
      BY <3>2
    <3> QED
      BY <1>3, <1>5, <3>1, <3>2
  <2> QED
    BY <1>4, <2>1, <2>2 DEF ChanInv, Final
<1>7. HolderInv'
  <2>1. \A t \in Starts : Holds(t)' => Holds(t)
    BY <1>1, <1>2, <1>3 DEF Holds, Final
  <2> QED
    BY <1>1, <2>1, HolderFrame
<1>8. CancelInv' /\ PendingInv'
  <2>1. \A t \in Starts : Past(t)' => Past(t)
    BY <1>1 DEF Past
  <2> QED
    BY <1>1, <2>1, CancelFrame
<1> QED
  BY <1>6, <1>7, <1>8 DEF BindingInv

LEMMA TailIndices ==
  ASSUME NEW ch \in Seq(Event), ch # <<>>, NEW i \in 1..Len(Tail(ch))
  PROVE  i + 1 \in 1..Len(ch) /\ Tail(ch)[i] = ch[i + 1]
OBVIOUS

(* The forwarder takes the first event; a final one ends the hold of its    *)
(* start.                                                                   *)
LEMMA ForwardBinds ==
  ASSUME BindingInv, ServiceInv', NEW k \in Kinds, Forward(k)
  PROVE  BindingInv'
<1> DEFINE at(l, i) == IF l = k THEN i + 1 ELSE i
<1>1. /\ TypeOK /\ UNCHANGED <<call, conf, phase, stopped, canceled, shutdown, pending>>
      /\ chan' = [chan EXCEPT ![k] = Tail(@)]
      /\ chan[k] \in Seq(Event) /\ chan[k] # <<>>
  BY ChanTyped DEF BindingInv, ServiceInv, Forward
<1>2. chan'[k] = Tail(chan[k]) /\ \A l \in Kinds \ {k} : chan'[l] = chan[l]
  BY <1>1 DEF TypeOK
<1>3. 1 \in 1..Len(chan[k]) /\ Head(chan[k]) = chan[k][1]
  BY <1>1
<1>4. \A l \in Kinds : \A i \in 1..Len(chan'[l]) :
        at(l, i) \in 1..Len(chan[l]) /\ chan'[l][i] = chan[l][at(l, i)]
  <2> SUFFICES ASSUME NEW l \in Kinds, NEW i \in 1..Len(chan'[l])
               PROVE  at(l, i) \in 1..Len(chan[l]) /\ chan'[l][i] = chan[l][at(l, i)]
    OBVIOUS
  <2>1. CASE l = k
    <3>1. i \in 1..Len(Tail(chan[k]))
      BY <1>2, <2>1
    <3>2. i + 1 \in 1..Len(chan[k]) /\ Tail(chan[k])[i] = chan[k][i + 1]
      BY <1>1, <3>1, TailIndices
    <3> QED
      BY <1>2, <2>1, <3>2
  <2>2. CASE l # k
    BY <1>2, <2>2
  <2> QED
    BY <2>1, <2>2
<1>5. \A l \in Kinds : \A i, j \in 1..Len(chan'[l]) : at(l, i) = at(l, j) => i = j
  OBVIOUS
<1>6. \A t \in Starts : KindOf(t)' = KindOf(t)
  BY <1>1 DEF KindOf
<1> HIDE DEF at
<1>7. ChanInv'
  <2>1. \A l \in Kinds : \A i \in 1..Len(chan'[l]) : chan'[l][i].start \in Starts
    BY <1>4, ChanTyped DEF BindingInv, ServiceInv
  <2>2. ASSUME NEW l \in Kinds, NEW i \in 1..Len(chan'[l])
        PROVE  LET t == chan'[l][i].start
               IN /\ call[t] # "none" /\ KindOf(t) = l
                  /\ Final(chan'[l][i]) => phase[t] = "gone" /\ call[t] \in {"tail", "done"}
    <3>1. PICK m \in 1..Len(chan[l]) : chan'[l][i] = chan[l][m]
      BY <1>4
    <3> QED
      BY <3>1 DEF BindingInv, ChanInv
  <2>3. ASSUME NEW l \in Kinds, NEW i \in 1..Len(chan'[l]), NEW j \in 1..Len(chan'[l]),
               Final(chan'[l][i]), Final(chan'[l][j]), chan'[l][j].start = chan'[l][i].start
        PROVE  i = j
    <3>1. /\ at(l, i) \in 1..Len(chan[l]) /\ chan'[l][i] = chan[l][at(l, i)]
          /\ at(l, j) \in 1..Len(chan[l]) /\ chan'[l][j] = chan[l][at(l, j)]
      BY <1>4
    <3>2. \A m, n \in 1..Len(chan[l]) :
            Final(chan[l][m]) /\ Final(chan[l][n]) /\ chan[l][n].start = chan[l][m].start
            => m = n
      <4> SUFFICES ASSUME NEW m \in 1..Len(chan[l]), NEW n \in 1..Len(chan[l])
                   PROVE  /\ Final(chan[l][m]) /\ Final(chan[l][n])
                          /\ chan[l][n].start = chan[l][m].start
                          => m = n
        OBVIOUS
      <4> QED
        BY DEF BindingInv, ChanInv
    <3>3. at(l, i) = at(l, j)
      BY <2>3, <3>1, <3>2
    <3> QED
      BY <1>5, <3>3
  <2>4. \A l \in Kinds : \A i \in 1..Len(chan'[l]) :
          LET t == chan'[l][i].start
          IN /\ t \in Starts /\ call'[t] # "none" /\ KindOf(t) = l
             /\ Final(chan'[l][i]) => phase'[t] = "gone" /\ call'[t] \in {"tail", "done"}
    BY <1>1, <2>1, <2>2
  <2>5. \A l \in Kinds : \A i, j \in 1..Len(chan'[l]) :
          Final(chan'[l][i]) /\ Final(chan'[l][j]) /\ chan'[l][j].start = chan'[l][i].start
          => i = j
    BY <2>3
  <2> QED
    BY <1>6, <2>4, <2>5 DEF ChanInv, Final
<1>8. \A t \in Starts : Holds(t)' => Holds(t)
  BY <1>1, <1>4 DEF Holds, Final
<1>9. HolderInv'
  <2>1. CASE Final(chan[k][1])
    <3>1. PICK s \in Starts :
            /\ s = chan[k][1].start /\ KindOf(s) = k /\ Holds(s)
            /\ phase[s] = "gone" /\ call[s] \in {"tail", "done"}
      BY <1>3, <2>1, FinalHolds
    <3>2. RemoveBacking(ProfileOf[s], KindOf(s))
      BY <1>3, <2>1, <3>1 DEF Forward, Final
    <3>3. \A l \in Kinds : \A i \in 1..Len(chan'[l]) :
            ~(chan'[l][i].start = s /\ Final(chan'[l][i]))
      <4> SUFFICES ASSUME NEW l \in Kinds, NEW i \in 1..Len(chan'[l]),
                          chan'[l][i].start = s, Final(chan'[l][i])
                   PROVE  FALSE
        OBVIOUS
      <4>1. /\ at(l, i) \in 1..Len(chan[l])
            /\ chan[l][at(l, i)].start = s /\ Final(chan[l][at(l, i)])
        BY <1>4
      <4>2. l = k
        BY <3>1, <4>1 DEF BindingInv, ChanInv
      <4>3. at(l, i) = 1
        BY <1>3, <2>1, <3>1, <4>1, <4>2 DEF BindingInv, ChanInv
      <4> QED
        BY <4>2, <4>3 DEF at
    <3>4. ~Holds(s)'
      BY <1>1, <3>1, <3>3 DEF Holds, Final
    <3> QED
      BY <1>1, <1>8, <3>1, <3>2, <3>4, ReleaseBinds
  <2>2. CASE ~Final(chan[k][1])
    <3>1. UNCHANGED backing
      BY <1>3, <2>2 DEF Forward, Final
    <3> QED
      BY <1>1, <1>8, <3>1, HolderFrame
  <2> QED
    BY <2>1, <2>2
<1>10. CancelInv' /\ PendingInv'
  <2>1. \A t \in Starts : Past(t)' <=> Past(t)
    BY <1>1 DEF Past
  <2> QED
    BY <1>1, <2>1, CancelFrame
<1> QED
  BY <1>7, <1>9, <1>10 DEF BindingInv

(* A start that was not begun yet holds nothing. *)
LEMMA BeginStartsBinds ==
  ASSUME BindingInv, ServiceInv', NEW ps \in SUBSET Profiles,
         \A p \in ps : Present(p), BeginStarts(ps)
  PROVE  BindingInv'
<1>1. PICK new \in SUBSET Starts :
        /\ \A s \in new : call[s] = "none" /\ profiles[ProfileOf[s]] \in Config
        /\ call' = [s \in Starts |-> IF s \in new THEN "dispatch" ELSE call[s]]
        /\ conf' = [s \in Starts |-> IF s \in new THEN profiles[ProfileOf[s]] ELSE conf[s]]
        /\ UNCHANGED <<profiles, canceled, result, dispatcher, adapters, shutdown>>
        /\ \A p \in Profiles : pending'[p] = pending[p] \/ ProfileOf[pending'[p]] = p
        /\ TypeOK'
  BY BeginStartsChanges DEF BindingInv
<1>2. UNCHANGED <<canceled, backing, phase, stopped, chan, shutdown>>
  BY <1>1 DEF dispatcher, adapters
<1>3. \A t \in Starts : t \notin new => call'[t] = call[t] /\ conf'[t] = conf[t]
  BY <1>1
<1>4. \A t \in Starts : Holds(t) => t \notin new
  BY <1>1, HoldsKind
<1>5. \A t \in Starts : Holds(t)' => Holds(t)
  <2>1. \A t \in new : call'[t] = "dispatch" /\ phase[t] = "new"
    BY <1>1 DEF BindingInv, ServiceInv, CallInv
  <2>2. \A k \in Kinds : \A i \in 1..Len(chan[k]) : chan[k][i].start \notin new
    BY <1>1 DEF BindingInv, ChanInv
  <2> QED
    BY <1>2, <1>3, <2>1, <2>2 DEF Holds, Final
<1>6. ChanInv'
  <2>1. \A k \in Kinds : \A i \in 1..Len(chan[k]) :
          chan[k][i].start \in Starts /\ chan[k][i].start \notin new
    BY <1>1, ChanTyped DEF BindingInv, ServiceInv, ChanInv
  <2> QED
    BY <1>2, <1>3, <2>1 DEF BindingInv, ChanInv, KindOf, Final
<1>7. HolderInv'
  <2>1. \A t \in Starts : Holds(t) => KindOf(t)' = KindOf(t)
    BY <1>3, <1>4 DEF KindOf
  <2> QED
    BY <1>2, <1>5, <2>1 DEF BindingInv, HolderInv
<1>8. PendingInv'
  BY <1>1 DEF BindingInv, PendingInv
<1>9. CancelInv'
  <2>1. \A t \in Starts : Past(t)' <=> Past(t)
    BY <1>2 DEF Past
  <2>2. canceled \subseteq Starts
    BY DEF BindingInv, ServiceInv, TypeOK
  <2> QED
    BY <1>2, <2>1, <2>2 DEF BindingInv, CancelInv
<1> QED
  BY <1>6, <1>7, <1>8, <1>9 DEF BindingInv

LEMMA ConnectsBind ==
  ASSUME BindingInv, ServiceInv', (\E p \in Profiles : Connect(p)) \/ ConnectAll \/ AutoConnect
  PROVE  BindingInv'
<1>1. CASE \E p \in Profiles : Connect(p)
  <2>1. PICK p \in Profiles : Connect(p)
    BY <1>1
  <2> QED
    BY <2>1, BeginStartsBinds DEF Connect
<1>2. CASE ConnectAll
  <2> DEFINE all == {p \in Profiles : Present(p)}
  <2>1. all \in SUBSET Profiles /\ (\A p \in all : Present(p)) /\ BeginStarts(all)
    BY <1>2 DEF ConnectAll
  <2> HIDE DEF all
  <2> QED
    BY <2>1, BeginStartsBinds
<1>3. CASE AutoConnect
  <2>1. PICK auto \in SUBSET {p \in Profiles : Present(p)} :
          \/ BeginStarts(auto)
          \/ UNCHANGED <<profiles, pending, canceled, goroutine, dispatcher, adapters, shutdown>>
    BY <1>3 DEF AutoConnect
  <2>2. CASE BeginStarts(auto)
    <3>1. auto \in SUBSET Profiles /\ \A p \in auto : Present(p)
      OBVIOUS
    <3> QED
      BY <2>2, <3>1, BeginStartsBinds
  <2>3. CASE UNCHANGED <<profiles, pending, canceled, goroutine, dispatcher, adapters, shutdown>>
    <3>1. UNCHANGED <<goroutine, phase, chan, backing, shutdown, canceled, stopped, pending>>
      BY <2>3 DEF dispatcher, adapters
    <3>2. PendingInv'
      BY <3>1 DEF BindingInv, PendingInv
    <3> QED
      BY <3>1, <3>2, CallsKeepBinding
  <2> QED
    BY <2>1, <2>2, <2>3
<1> QED
  BY <1>1, <1>2, <1>3

(* No profile has port forwards: none of them can report an error.          *)
LEMMA NextBindingInv ==
  ASSUME MayFault = FALSE, BindingInv, [Next]_vars
  PROVE  BindingInv'
<1>1. ServiceInv'
  BY NextServiceInv DEF BindingInv
<1>2. CASE ServiceCall
  BY <1>1, <1>2, CallsBind, ConnectsBind DEF ServiceCall
<1>3. ASSUME NEW s \in Starts,
             Goroutine(s) \/ Check(s) \/ Abandon(s) \/ Leave(s) \/ Fault(s)
      PROVE  BindingInv'
  BY <1>1, <1>3, DispatchBinds, InsideBinds, AnnounceBinds, UnbindBinds, ReturnedBinds,
     ReportBinds DEF Goroutine, Fault
<1>4. ASSUME NEW k \in Kinds, Forward(k)
      PROVE  BindingInv'
  BY <1>1, <1>4, ForwardBinds
<1>5. CASE HandleRuntimeEvent \/ Shutdown \/ UNCHANGED vars
  BY <1>1, <1>5, CallsBind
<1> QED
  BY <1>2, <1>3, <1>4, <1>5 DEF Next

(* Bindings, events in flight and cancelled starts fit together.           *)
THEOREM BindingInvariance ==
  ASSUME MayFault = FALSE
  PROVE  Spec => []BindingInv
<1>1. BindingInv /\ [Next]_vars => BindingInv'
  BY NextBindingInv
<1> QED
  BY <1>1, InitBindingInv, PTL DEF Spec

(* Whatever the profiles, the connects and disconnects and the capacity of  *)
(* the channels: without port forwards, runner.backing names the adapter of *)
(* every process that runs (runner.Start, forward, removeBacking) ...       *)
THEOREM RunningBound ==
  ASSUME MayFault = FALSE
  PROVE  Spec => []RunningIsBound
<1>1. BindingInv => RunningIsBound
  BY OneEntry DEF BindingInv
<1> QED
  BY <1>1, BindingInvariance, PTL

(* ... so no profile runs in both adapters at once ...                      *)
THEOREM OneAdapterOnly ==
  ASSUME MayFault = FALSE
  PROVE  Spec => []OneAdapter
<1>1. BindingInv => OneAdapter
  BY OneEntry DEF BindingInv
<1> QED
  BY <1>1, BindingInvariance, PTL

(* ... and Disconnect, Delete, DisconnectAll and Shutdown leave no start    *)
(* serving that they cancelled.                                             *)
THEOREM CanceledStopped ==
  ASSUME MayFault = FALSE
  PROVE  Spec => []CanceledIsStopped
<1>1. BindingInv => CanceledIsStopped
  <2> SUFFICES ASSUME BindingInv, shutdown \in {"no", "done", "timedOut"},
                      NEW s \in canceled, Connected(s)
               PROVE  s \in stopped
    BY DEF CanceledIsStopped
  <2>1. s \in Starts /\ Past(s)
    BY DEF BindingInv, ServiceInv, TypeOK, Connected, Past
  <2>2. KindOf(s) \in Kinds
    BY <2>1, CallKind DEF BindingInv, ServiceInv, Past
  <2>3. CASE shutdown = "no"
    BY <2>1, <2>3 DEF BindingInv, CancelInv
  <2>4. CASE shutdown \in {"done", "timedOut"}
    BY <2>1, <2>2, <2>4 DEF BindingInv, ServiceInv, ShutdownInv, Kinds
  <2> QED
    BY <2>3, <2>4
<1> QED
  BY <1>1, BindingInvariance, PTL

-----------------------------------------------------------------------------
(* Each adapter, as the service drives it, keeps to the contract of an      *)
(* adapter.                                                                 *)

Faulty(k) == IF k = "tailscale" THEN MayFault ELSE FALSE

Adapter(k) == INSTANCE Backend WITH
  phase <- PhaseAt(k), stopped <- StoppedAt(k), table <- table[k], events <- chan[k],
  MayFault <- Faulty(k)

(* Only a process is ever closed, and never before it has its entry. *)
StoppedInv == \A s \in stopped : phase[s] # "new"

Still == UNCHANGED <<phase, stopped, table, chan, conf>>

LEMMA EntriesInTable ==
  ASSUME ServiceInv
  PROVE  /\ \A k \in Kinds : Entries(k) \subseteq {s \in Starts : InTable(s)}
         /\ \A p \in Profiles : StopTarget(p) \subseteq {s \in Starts : InTable(s)}
<1>1. ASSUME NEW k \in Kinds, NEW p \in Profiles, table[k][p] # NoStart
      PROVE  table[k][p] \in Starts /\ InTable(table[k][p])
  BY <1>1 DEF ServiceInv, TypeOK, TableInv
<1>2. ASSUME NEW p \in Profiles PROVE StopTarget(p) \subseteq Entries("wireguard") \cup Entries("tailscale")
  <2>1. PICK first, second \in Kinds :
          StopTarget(p) = IF table[first][p] # NoStart THEN {table[first][p]}
                          ELSE {table[second][p]} \ {NoStart}
    <3> DEFINE first == IF backing[p] = "none" THEN "wireguard" ELSE backing[p]
               second == CHOOSE k \in Kinds : k # first
    <3>1. first \in Kinds
      BY DEF ServiceInv, TypeOK, Kinds
    <3>2. \E k \in Kinds : k # first
      BY DEF Kinds
    <3>3. second \in Kinds
      BY <3>2
    <3> QED
      BY <3>1, <3>3 DEF StopTarget
  <2> QED
    BY <2>1 DEF Entries, Kinds
<1>3. \A k \in Kinds : Entries(k) \subseteq {s \in Starts : InTable(s)}
  BY <1>1 DEF Entries
<1> QED
  BY <1>2, <1>3 DEF Kinds

LEMMA StoppedNext == ASSUME ServiceInv, StoppedInv, [Next]_vars PROVE StoppedInv'
<1>1. ASSUME NEW found \in SUBSET Starts, \A s \in found : phase[s] # "new",
             stopped' = stopped \cup found, phase' = phase
      PROVE  StoppedInv'
  BY <1>1 DEF StoppedInv
<1>2. CASE UNCHANGED <<phase, stopped>>
  BY <1>2 DEF StoppedInv
<1>3. ASSUME NEW p \in Profiles, Disconnect(p) \/ Delete(p) PROVE StoppedInv'
  <2>1. StopTarget(p) \subseteq Starts /\ \A s \in StopTarget(p) : phase[s] # "new"
    BY EntriesInTable DEF InTable
  <2> QED
    BY <1>1, <1>3, <2>1 DEF Disconnect, Delete
<1>4. CASE DisconnectAll
  <2> DEFINE found == Entries("wireguard") \cup Entries("tailscale")
  <2>1. found \subseteq Starts /\ \A s \in found : phase[s] # "new"
    BY EntriesInTable DEF InTable, Kinds
  <2>2. stopped' = stopped \cup found /\ phase' = phase
    BY <1>4 DEF DisconnectAll
  <2> QED
    BY <1>1, <2>1, <2>2
<1>5. ASSUME NEW k \in Kinds, NEW from, NEW to, ShutdownStep(from, k, to) PROVE StoppedInv'
  <2>1. Entries(k) \subseteq Starts /\ \A s \in Entries(k) : phase[s] # "new"
    BY EntriesInTable DEF InTable
  <2> QED
    BY <1>1, <1>5, <2>1 DEF ShutdownStep
<1>6. ASSUME NEW s \in Starts, Goroutine(s) \/ Check(s) \/ Abandon(s) \/ Leave(s) \/ Fault(s)
      PROVE  StoppedInv'
  BY <1>6 DEF ServiceInv, TypeOK, StoppedInv, Goroutine, Dispatch, Refuse, Reserve, Commit,
     Announce, Unbind, Returned, Report, Check, Abandon, Leave, Fault
<1>7. CASE Shutdown
  BY <1>2, <1>5, <1>7 DEF Shutdown, ShutdownCancel, ShutdownWireguard, ShutdownTailscale,
     ShutdownDone, ShutdownTimeout, Kinds
<1>8. CASE ServiceCall
  <2>1. ASSUME NEW ps, BeginStarts(ps) PROVE UNCHANGED <<phase, stopped>>
    BY <2>1 DEF BeginStarts
  <2>2. CASE ConnectAll \/ AutoConnect
    BY <1>2, <2>1, <2>2 DEF ConnectAll, AutoConnect
  <2>3. ASSUME NEW p \in Profiles, Connect(p) PROVE StoppedInv'
    BY <1>2, <2>1, <2>3 DEF Connect
  <2>4. ASSUME NEW p \in Profiles, NEW c \in Choices, Save(p, c) \/ Add(p, c) PROVE StoppedInv'
    BY <1>2, <2>4 DEF Save, Add
  <2> QED
    BY <1>3, <1>4, <1>8, <2>2, <2>3, <2>4 DEF ServiceCall
<1>9. CASE UNCHANGED vars \/ HandleRuntimeEvent \/ \E k \in Kinds : Forward(k)
  BY <1>2, <1>9 DEF HandleRuntimeEvent, Forward, vars
<1> QED
  BY <1>6, <1>7, <1>8, <1>9 DEF Next, vars

(* What the mapping makes of a step of one start. *)
LEMMA PhaseStep ==
  ASSUME TypeOK, NEW k \in Kinds, NEW s \in Starts, NEW v,
         phase' = [phase EXCEPT ![s] = v], conf' = conf
  PROVE  /\ KindOf(s) = k /\ v # "checked" => PhaseAt(k)' = [PhaseAt(k) EXCEPT ![s] = v]
         /\ KindOf(s) # k => PhaseAt(k)' = PhaseAt(k)
<1>1. ASSUME NEW t \in Starts
      PROVE  /\ phase'[t] = IF t = s THEN v ELSE phase[t]
             /\ KindOf(t)' = KindOf(t)
  BY DEF TypeOK, KindOf
<1>2. CASE KindOf(s) = k /\ v # "checked"
  <2>1. \A t \in Starts : PhaseAt(k)'[t] = IF t = s THEN v ELSE PhaseAt(k)[t]
    BY <1>1, <1>2 DEF PhaseAt
  <2> QED
    BY <1>2, <2>1 DEF PhaseAt
<1>3. CASE KindOf(s) # k
  <2>1. \A t \in Starts : PhaseAt(k)'[t] = PhaseAt(k)[t]
    BY <1>1, <1>3 DEF PhaseAt
  <2> QED
    BY <1>3, <2>1 DEF PhaseAt
<1> QED
  BY <1>2, <1>3

LEMMA PhaseOf ==
  ASSUME NEW k \in Kinds, NEW s \in Starts, KindOf(s) = k
  PROVE  PhaseAt(k)[s] = IF phase[s] = "checked" THEN "reserved" ELSE phase[s]
BY DEF PhaseAt

LEMMA StillMaps == ASSUME NEW k \in Kinds, Still PROVE UNCHANGED Adapter(k)!vars
BY DEF Still, Adapter!vars, PhaseAt, StoppedAt, KindOf

LEMMA StopMaps ==
  ASSUME TypeOK, NEW k \in Kinds, NEW found, found \subseteq {s \in Starts : InTable(s)},
         stopped' = stopped \cup found, UNCHANGED <<phase, table, chan, conf>>
  PROVE  \E f \in SUBSET Starts : Adapter(k)!Stop(f)
<1> DEFINE f == {s \in found : KindOf(s) = k}
<1>1. \A s \in f : PhaseAt(k)[s] \in {"reserved", "committed", "serving"}
  BY PhaseOf DEF InTable
<1>2. StoppedAt(k)' = StoppedAt(k) \cup f
  BY DEF StoppedAt, KindOf
<1>3. PhaseAt(k)' = PhaseAt(k)
  BY DEF PhaseAt, KindOf
<1>4. Adapter(k)!Stop(f)
  BY <1>1, <1>2, <1>3 DEF Adapter!Stop
<1> QED
  BY <1>4

LEMMA BeginMaps ==
  ASSUME ServiceInv, StoppedInv, NEW k \in Kinds, NEW ps \in SUBSET Profiles, BeginStarts(ps)
  PROVE  UNCHANGED Adapter(k)!vars
<1>1. PICK new : /\ \A s \in new : s \in Starts /\ call[s] = "none"
                 /\ conf' = [s \in Starts |-> IF s \in new THEN profiles[ProfileOf[s]] ELSE conf[s]]
  <2> DEFINE begun == {p \in ps : ~RuntimeLocked(p)}
             new == {NextStart(p) : p \in begun}
  <2>1. \A p \in begun : NextStart(p) \in Fresh(p)
    BY DEF BeginStarts, NextStart
  <2>2. \A s \in new : s \in Starts /\ call[s] = "none"
    BY <2>1 DEF Fresh
  <2>3. conf' = [s \in Starts |-> IF s \in new THEN profiles[ProfileOf[s]] ELSE conf[s]]
    BY DEF BeginStarts
  <2> QED
    BY <2>2, <2>3
<1>2. UNCHANGED <<phase, stopped, table, chan>>
  BY DEF BeginStarts
<1>3. \A s \in new : phase[s] = "new" /\ s \notin stopped
  BY <1>1 DEF ServiceInv, CallInv, StoppedInv
<1>4. \A s \in Starts : PhaseAt(k)'[s] = PhaseAt(k)[s]
  BY <1>1, <1>2, <1>3 DEF PhaseAt, KindOf
<1>5. PhaseAt(k)' = PhaseAt(k)
  BY <1>4 DEF PhaseAt
<1>6. StoppedAt(k)' = StoppedAt(k)
  BY <1>1, <1>2, <1>3 DEF StoppedAt, KindOf, ServiceInv, TypeOK
<1> QED
  BY <1>2, <1>5, <1>6 DEF Adapter!vars

LEMMA RefuseMaps ==
  ASSUME TypeOK, NEW k \in Kinds, NEW s \in Starts, Refuse(s)
  PROVE  Adapter(k)!Refuse(s) \/ UNCHANGED Adapter(k)!vars
<1>1. StoppedAt(k)' = StoppedAt(k)
  BY DEF Refuse, StoppedAt, KindOf
<1> QED
  BY <1>1, PhaseStep, PhaseOf DEF Refuse, Adapter!Refuse, Adapter!vars

LEMMA ReserveMaps ==
  ASSUME TypeOK, NEW k \in Kinds, NEW s \in Starts, Reserve(s)
  PROVE  Adapter(k)!Reserve(s, ProfileOf[s]) \/ UNCHANGED Adapter(k)!vars
<1>1. StoppedAt(k)' = StoppedAt(k)
  BY DEF Reserve, StoppedAt, KindOf
<1>2. CASE KindOf(s) = k
  <2>1. table[k]' = [table[k] EXCEPT ![ProfileOf[s]] = s]
    BY <1>2 DEF TypeOK, Reserve
  <2>2. PhaseAt(k)' = [PhaseAt(k) EXCEPT ![s] = "reserved"] /\ PhaseAt(k)[s] = "new"
    <3>1. phase[s] = "new" /\ phase' = [phase EXCEPT ![s] = "reserved"] /\ conf' = conf
      BY DEF Reserve
    <3>2. PhaseAt(k)[s] = "new"
      BY <1>2, <3>1, PhaseOf
    <3> QED
      BY <1>2, <3>1, <3>2, PhaseStep
  <2>3. table[k][ProfileOf[s]] = NoStart /\ chan' = chan
    BY <1>2 DEF Reserve
  <2> QED
    BY <1>1, <2>1, <2>2, <2>3 DEF Adapter!Reserve
<1>3. CASE KindOf(s) # k
  <2>1. table[k]' = table[k]
    BY <1>3 DEF TypeOK, Reserve
  <2> QED
    BY <1>1, <1>3, <2>1, PhaseStep DEF Reserve, Adapter!vars
<1> QED
  BY <1>2, <1>3

LEMMA CheckMaps ==
  ASSUME TypeOK, NEW k \in Kinds, NEW s \in Starts, Check(s)
  PROVE  UNCHANGED Adapter(k)!vars
<1>1. PhaseAt(k)' = PhaseAt(k)
  BY DEF TypeOK, Check, PhaseAt, KindOf
<1> QED
  BY <1>1 DEF Check, StoppedAt, KindOf, Adapter!vars

LEMMA CommitMaps ==
  ASSUME TypeOK, NEW k \in Kinds, NEW s \in Starts, Commit(s)
  PROVE  Adapter(k)!Commit(s) \/ UNCHANGED Adapter(k)!vars
<1>1. StoppedAt(k)' = StoppedAt(k) /\ s \notin StoppedAt(k)
  BY DEF Commit, StoppedAt, KindOf
<1> QED
  BY <1>1, PhaseStep, PhaseOf DEF Commit, Adapter!Commit, Adapter!vars

(* Abandon and Leave both close the process and delete its entry. *)
LEMMA GoneMaps ==
  ASSUME TypeOK, NEW k \in Kinds, NEW s \in Starts, conf' = conf,
         stopped' = stopped \cup {s},
         table' = [table EXCEPT ![KindOf(s)] = Without(@, s)]
  PROVE  /\ KindOf(s) = k => /\ StoppedAt(k)' = StoppedAt(k) \cup {s}
                             /\ table[k]' = Adapter(k)!Without(table[k], s)
         /\ KindOf(s) # k => StoppedAt(k)' = StoppedAt(k) /\ table[k]' = table[k]
<1>1. \A t \in Starts : KindOf(t)' = KindOf(t)
  BY DEF KindOf
<1>2. StoppedAt(k)' = IF KindOf(s) = k THEN StoppedAt(k) \cup {s} ELSE StoppedAt(k)
  BY <1>1 DEF TypeOK, StoppedAt
<1>3. table[k]' = IF KindOf(s) = k THEN Without(table[k], s) ELSE table[k]
  BY DEF TypeOK
<1>4. Without(table[k], s) = Adapter(k)!Without(table[k], s)
  BY DEF Without, Adapter!Without
<1> QED
  BY <1>2, <1>3, <1>4

LEMMA AbandonMaps ==
  ASSUME TypeOK, NEW k \in Kinds, NEW s \in Starts, Abandon(s)
  PROVE  Adapter(k)!Abandon(s) \/ UNCHANGED Adapter(k)!vars
<1>1. conf' = conf /\ stopped' = stopped \cup {s} /\ chan' = chan
      /\ table' = [table EXCEPT ![KindOf(s)] = Without(@, s)]
      /\ phase' = [phase EXCEPT ![s] = "gone"]
      /\ phase[s] \in {"reserved", "checked", "committed"}
  BY DEF Abandon
<1>5. CASE KindOf(s) = k
  <2>1. PhaseAt(k)' = [PhaseAt(k) EXCEPT ![s] = "gone"] /\ PhaseAt(k)[s] \in {"reserved", "committed"}
    BY <1>1, <1>5, PhaseStep, PhaseOf
  <2> QED
    BY <1>1, <1>5, <2>1, GoneMaps DEF Adapter!Abandon
<1>6. CASE KindOf(s) # k
  <2>1. PhaseAt(k)' = PhaseAt(k)
    BY <1>1, <1>6, PhaseStep
  <2> QED
    BY <1>1, <1>6, <2>1, GoneMaps DEF Adapter!vars
<1> QED
  BY <1>5, <1>6

LEMMA LeaveMaps ==
  ASSUME TypeOK, NEW k \in Kinds, NEW s \in Starts, Leave(s)
  PROVE  Adapter(k)!Leave(s) \/ UNCHANGED Adapter(k)!vars
<1>1. conf' = conf /\ stopped' = stopped \cup {s} /\ chan' = chan
      /\ table' = [table EXCEPT ![KindOf(s)] = Without(@, s)]
      /\ phase' = [phase EXCEPT ![s] = "leaving"]
      /\ phase[s] = "serving"
  BY DEF Leave
<1>5. CASE KindOf(s) = k
  <2>1. PhaseAt(k)' = [PhaseAt(k) EXCEPT ![s] = "leaving"] /\ PhaseAt(k)[s] \in {"serving"}
    BY <1>1, <1>5, PhaseStep, PhaseOf
  <2> QED
    BY <1>1, <1>5, <2>1, GoneMaps DEF Adapter!Leave
<1>6. CASE KindOf(s) # k
  <2>1. PhaseAt(k)' = PhaseAt(k)
    BY <1>1, <1>6, PhaseStep
  <2> QED
    BY <1>1, <1>6, <2>1, GoneMaps DEF Adapter!vars
<1> QED
  BY <1>5, <1>6

(* A send on the channel of its own adapter. *)
LEMMA OfferMaps ==
  ASSUME TypeOK, NEW k \in Kinds, NEW s \in Starts, NEW type, KindOf(s) \in Kinds,
         chan' = [chan EXCEPT ![KindOf(s)] = Offer(@, s, type)]
  PROVE  /\ KindOf(s) = k => chan[k]' = Adapter(k)!Offer(chan[k], [start |-> s, type |-> type])
         /\ KindOf(s) # k => chan[k]' = chan[k]
BY DEF TypeOK, Offer, Adapter!Offer

LEMMA AnnounceMaps ==
  ASSUME TypeOK, NEW k \in Kinds, NEW s \in Starts, Announce(s), KindOf(s) \in Kinds
  PROVE  Adapter(k)!Announce(s) \/ UNCHANGED Adapter(k)!vars
<1>1. StoppedAt(k)' = StoppedAt(k) /\ table' = table
  BY DEF Announce, StoppedAt, KindOf
<1>5. CASE KindOf(s) = k
  <2>1. PhaseAt(k)' = [PhaseAt(k) EXCEPT ![s] = "serving"] /\ PhaseAt(k)[s] \in {"committed"}
    BY <1>1, <1>5, PhaseStep, PhaseOf DEF Announce
  <2> QED
    BY <1>1, <1>5, <2>1, OfferMaps DEF Announce, Adapter!Announce
<1>6. CASE KindOf(s) # k
  <2>1. PhaseAt(k)' = PhaseAt(k)
    BY <1>1, <1>6, PhaseStep DEF Announce
  <2> QED
    BY <1>1, <1>6, <2>1, OfferMaps DEF Adapter!vars, Announce
<1> QED
  BY <1>5, <1>6

LEMMA ReportMaps ==
  ASSUME TypeOK, NEW k \in Kinds, NEW s \in Starts, CallInv(s), Report(s), KindOf(s) \in Kinds
  PROVE  Adapter(k)!Report(s) \/ UNCHANGED Adapter(k)!vars
<1>1. StoppedAt(k)' = StoppedAt(k) /\ table' = table
  BY DEF Report, StoppedAt, KindOf
<1>2. verdict[s] \in {"stopped", "error"}
  BY DEF TypeOK, CallInv, Report
<1>5. CASE KindOf(s) = k
  <2>1. PhaseAt(k)' = [PhaseAt(k) EXCEPT ![s] = "gone"] /\ PhaseAt(k)[s] \in {"leaving"}
    BY <1>1, <1>5, PhaseStep, PhaseOf DEF Report
  <2>2. chan[k]' = Adapter(k)!Offer(chan[k], [start |-> s, type |-> verdict[s]])
    BY <1>5, OfferMaps DEF Report
  <2> QED
    BY <1>1, <1>2, <2>1, <2>2 DEF Adapter!Report
<1>6. CASE KindOf(s) # k
  <2>1. PhaseAt(k)' = PhaseAt(k)
    BY <1>1, <1>6, PhaseStep DEF Report
  <2> QED
    BY <1>1, <1>6, <2>1, <1>2, OfferMaps DEF Adapter!vars, Report
<1> QED
  BY <1>5, <1>6

LEMMA FaultMaps ==
  ASSUME TypeOK, NEW k \in Kinds, NEW s \in Starts, Fault(s)
  PROVE  Adapter(k)!Fault(s) \/ UNCHANGED Adapter(k)!vars
<1>1. StoppedAt(k)' = StoppedAt(k) /\ table' = table /\ PhaseAt(k)' = PhaseAt(k)
  BY DEF Fault, StoppedAt, PhaseAt, KindOf
<1>2. KindOf(s) = "tailscale" /\ KindOf(s) \in Kinds
  BY DEF Fault, Kinds
<1>3. KindOf(s) = k /\ s \in stopped => s \in StoppedAt(k)
  BY DEF StoppedAt, TypeOK
<1> QED
  BY <1>1, <1>2, <1>3, OfferMaps, PhaseOf DEF Fault, Faulty, Adapter!Fault, Adapter!vars

LEMMA ForwardMaps ==
  ASSUME TypeOK, NEW k \in Kinds, NEW j \in Kinds, Forward(j)
  PROVE  Adapter(k)!Receive \/ UNCHANGED Adapter(k)!vars
<1>1. StoppedAt(k)' = StoppedAt(k) /\ table' = table /\ PhaseAt(k)' = PhaseAt(k)
  BY DEF Forward, StoppedAt, PhaseAt, KindOf
<1>2. chan' = [chan EXCEPT ![j] = Tail(@)] /\ chan[j] # <<>>
  BY DEF Forward
<1> QED
  BY <1>1, <1>2 DEF TypeOK, Adapter!Receive, Adapter!vars

LEMMA NextMaps ==
  ASSUME ServiceInv, StoppedInv, NEW k \in Kinds, [Next]_vars
  PROVE  [Adapter(k)!Next]_(Adapter(k)!vars)
<1>0. TypeOK /\ \A s \in Starts : CallInv(s)
  BY DEF ServiceInv
<1>1. CASE Still
  BY <1>1, StillMaps
<1>2. ASSUME NEW ps \in SUBSET Profiles, BeginStarts(ps) PROVE UNCHANGED Adapter(k)!vars
  BY <1>2, BeginMaps
<1>3. ASSUME NEW found, found \subseteq {s \in Starts : InTable(s)},
             stopped' = stopped \cup found, UNCHANGED <<phase, table, chan, conf>>
      PROVE  Adapter(k)!Next
  BY <1>0, <1>3, StopMaps DEF Adapter!Next
<1>4. CASE ServiceCall
  <2>1. CASE ConnectAll
    BY <1>2, <2>1 DEF ConnectAll
  <2>2. CASE AutoConnect
    BY <1>1, <1>2, <2>2 DEF AutoConnect, Still
  <2>3. CASE DisconnectAll
    <3>1. Entries("wireguard") \cup Entries("tailscale") \subseteq {s \in Starts : InTable(s)}
      BY EntriesInTable DEF Kinds
    <3>2. stopped' = stopped \cup (Entries("wireguard") \cup Entries("tailscale"))
          /\ UNCHANGED <<phase, table, chan, conf>>
      BY <2>3 DEF DisconnectAll
    <3> QED
      BY <1>3, <3>1, <3>2
  <2>4. ASSUME NEW p \in Profiles, Connect(p) PROVE UNCHANGED Adapter(k)!vars
    BY <1>2, <2>4 DEF Connect
  <2>5. ASSUME NEW p \in Profiles, Disconnect(p) \/ Delete(p) PROVE Adapter(k)!Next
    <3>1. stopped' = stopped \cup StopTarget(p) /\ UNCHANGED <<phase, table, chan, conf>>
      BY <2>5 DEF Disconnect, Delete
    <3> QED
      BY <1>3, <3>1, EntriesInTable
  <2>6. ASSUME NEW p \in Profiles, NEW c \in Choices, Save(p, c) \/ Add(p, c)
        PROVE  UNCHANGED Adapter(k)!vars
    <3>1. Still
      BY <2>6 DEF Save, Add, Still
    <3> QED
      BY <3>1, StillMaps
  <2> QED
    BY <1>4, <2>1, <2>2, <2>3, <2>4, <2>5, <2>6 DEF ServiceCall
<1>5. ASSUME NEW s \in Starts, Goroutine(s) \/ Check(s) \/ Abandon(s) \/ Leave(s) \/ Fault(s)
      PROVE  [Adapter(k)!Next]_(Adapter(k)!vars)
  <2>1. CASE Dispatch(s) \/ Unbind(s) \/ Returned(s)
    BY <1>1, <2>1 DEF Dispatch, Unbind, Returned, Still
  <2>2. CASE Refuse(s) \/ Commit(s) \/ Check(s) \/ Abandon(s) \/ Leave(s) \/ Fault(s)
    BY <1>0, <2>2, RefuseMaps, CommitMaps, CheckMaps, AbandonMaps, LeaveMaps, FaultMaps
       DEF Adapter!Next
  <2>3. CASE Reserve(s)
    BY <1>0, <2>3, ReserveMaps DEF Adapter!Next
  <2>4. CASE Announce(s) \/ Report(s)
    <3>1. KindOf(s) \in Kinds
      BY <1>0, <2>4, CallKind DEF Announce, Report
    <3> QED
      BY <1>0, <2>4, <3>1, AnnounceMaps, ReportMaps DEF Adapter!Next
  <2> QED
    BY <1>5, <2>1, <2>2, <2>3, <2>4 DEF Goroutine
<1>6. CASE \E j \in Kinds : Forward(j)
  BY <1>0, <1>6, ForwardMaps DEF Adapter!Next
<1>7. CASE HandleRuntimeEvent \/ UNCHANGED vars
  BY <1>1, <1>7 DEF HandleRuntimeEvent, vars, Still
<1>8. CASE Shutdown
  <2>1. ASSUME NEW j \in Kinds, NEW from, NEW to, ShutdownStep(from, j, to) PROVE Adapter(k)!Next
    <3>1. stopped' = stopped \cup Entries(j) /\ UNCHANGED <<phase, table, chan, conf>>
      BY <2>1 DEF ShutdownStep
    <3> QED
      BY <1>3, <3>1, EntriesInTable
  <2>2. CASE ShutdownCancel \/ ShutdownDone
    BY <1>1, <2>2 DEF ShutdownCancel, ShutdownDone, Still
  <2>3. CASE ShutdownWireguard \/ ShutdownTailscale
    BY <2>1, <2>3 DEF ShutdownWireguard, ShutdownTailscale, Kinds
  <2>4. CASE ShutdownTimeout
    BY <1>1, <2>1, <2>4 DEF ShutdownTimeout, Still, Kinds
  <2> QED
    BY <1>8, <2>2, <2>3, <2>4 DEF Shutdown
<1> QED
  BY <1>4, <1>5, <1>6, <1>7, <1>8 DEF Next

LEMMA InitMaps == ASSUME Init, NEW k \in Kinds PROVE StoppedInv /\ Adapter(k)!Init
BY DEF Init, StoppedInv, Adapter!Init, PhaseAt, StoppedAt, Kinds

(* Whatever the service does, and whether it shuts down or loses events:    *)
(* the WireGuard adapter is driven within its contract ...                  *)
THEOREM WireguardKept == Spec => WireguardContract
<1>1. Init => StoppedInv /\ Wireguard!Init
  BY InitMaps DEF Adapter!Init, Wireguard!Init, Kinds
<1>2. ServiceInv /\ StoppedInv /\ [Next]_vars => [Wireguard!Next]_(Wireguard!vars)
  <2>1. Adapter("wireguard")!vars = Wireguard!vars
    BY DEF Adapter!vars, Wireguard!vars
  <2>2. Adapter("wireguard")!vars' = Wireguard!vars'
    BY DEF Adapter!vars, Wireguard!vars
  <2>3. Adapter("wireguard")!Next => Wireguard!Next
    BY DEF Faulty, Adapter!Next, Wireguard!Next, Adapter!Refuse, Wireguard!Refuse,
       Adapter!Reserve, Wireguard!Reserve, Adapter!Stop, Wireguard!Stop,
       Adapter!Commit, Wireguard!Commit, Adapter!Announce, Wireguard!Announce,
       Adapter!Abandon, Wireguard!Abandon, Adapter!Leave, Wireguard!Leave,
       Adapter!Report, Wireguard!Report, Adapter!Fault, Wireguard!Fault,
       Adapter!Receive, Wireguard!Receive, Adapter!Offer, Wireguard!Offer,
       Adapter!Without, Wireguard!Without
  <2> QED
    BY <2>1, <2>2, <2>3, NextMaps DEF Kinds
<1>3. ServiceInv /\ StoppedInv /\ [Next]_vars => StoppedInv'
  BY StoppedNext
<1> QED
  BY <1>1, <1>2, <1>3, ServiceInvariance, PTL DEF Spec, WireguardContract, Wireguard!Spec

(* ... and the Tailscale adapter, whose port forwards may fail, as well.    *)
THEOREM TailscaleKept == Spec => TailscaleContract
<1>1. Init => StoppedInv /\ Tailscale!Init
  BY InitMaps DEF Adapter!Init, Tailscale!Init, Kinds
<1>2. ServiceInv /\ StoppedInv /\ [Next]_vars => [Tailscale!Next]_(Tailscale!vars)
  <2>1. Adapter("tailscale")!vars = Tailscale!vars
    BY DEF Adapter!vars, Tailscale!vars
  <2>2. Adapter("tailscale")!vars' = Tailscale!vars'
    BY DEF Adapter!vars, Tailscale!vars
  <2>3. Adapter("tailscale")!Next => Tailscale!Next
    BY DEF Faulty, Adapter!Next, Tailscale!Next, Adapter!Refuse, Tailscale!Refuse,
       Adapter!Reserve, Tailscale!Reserve, Adapter!Stop, Tailscale!Stop,
       Adapter!Commit, Tailscale!Commit, Adapter!Announce, Tailscale!Announce,
       Adapter!Abandon, Tailscale!Abandon, Adapter!Leave, Tailscale!Leave,
       Adapter!Report, Tailscale!Report, Adapter!Fault, Tailscale!Fault,
       Adapter!Receive, Tailscale!Receive, Adapter!Offer, Tailscale!Offer,
       Adapter!Without, Tailscale!Without
  <2> QED
    BY <2>1, <2>2, <2>3, NextMaps DEF Kinds
<1>3. ServiceInv /\ StoppedInv /\ [Next]_vars => StoppedInv'
  BY StoppedNext
<1> QED
  BY <1>1, <1>2, <1>3, ServiceInvariance, PTL DEF Spec, TailscaleContract, Tailscale!Spec

-----------------------------------------------------------------------------
(* The status that is shown. *)

LEMMA EventTyped ==
  ASSUME NEW s \in Starts, NEW type \in {"started", "stopped", "error"}
  PROVE  [start |-> s, type |-> type] \in Event
BY DEF Event

(* What is in a channel stays in it when an event is added ... *)
LEMMA AppendKeeps ==
  ASSUME NEW ch \in Seq(Event), NEW e \in Event
  PROVE  /\ \A s \in Starts : \A i \in Nat : FinalAfter(ch, s, i) => FinalAfter(Append(ch, e), s, i)
         /\ \A s \in Starts : StartedIn(ch, s) => StartedIn(Append(ch, e), s)
         /\ Final(e) => \A i \in 0..Len(ch) : FinalAfter(Append(ch, e), e.start, i)
         /\ ~Final(e) => StartedIn(Append(ch, e), e.start)
<1> DEFINE new == Append(ch, e)
<1>1. /\ Len(ch) \in Nat /\ Len(new) = Len(ch) + 1
      /\ \A j \in 1..Len(ch) : new[j] = ch[j]
      /\ new[Len(ch) + 1] = e
  OBVIOUS
<1> HIDE DEF new
<1>2. \A j \in 1..Len(ch) : j \in 1..Len(new)
  BY <1>1
<1>3. Len(ch) + 1 \in 1..Len(new) /\ \A i \in 0..Len(ch) : Len(ch) + 1 > i
  BY <1>1
<1>4. \A s \in Starts : \A i \in Nat : FinalAfter(ch, s, i) => FinalAfter(new, s, i)
  BY <1>1, <1>2 DEF FinalAfter
<1>5. \A s \in Starts : StartedIn(ch, s) => StartedIn(new, s)
  BY <1>1, <1>2 DEF StartedIn
<1>6. Final(e) => \A i \in 0..Len(ch) : FinalAfter(new, e.start, i)
  BY <1>1, <1>3 DEF FinalAfter
<1>7. ~Final(e) => StartedIn(new, e.start)
  BY <1>1, <1>3 DEF StartedIn
<1> QED
  BY <1>4, <1>5, <1>6, <1>7 DEF new

(* ... and all but the first when that is taken. *)
LEMMA TailKeeps ==
  ASSUME NEW ch \in Seq(Event), ch # <<>>
  PROVE  /\ Head(ch) \in Event /\ Head(ch) = ch[1] /\ 1 \in 1..Len(ch)
         /\ \A i \in 1..Len(Tail(ch)) : i + 1 \in 1..Len(ch) /\ Tail(ch)[i] = ch[i + 1]
         /\ \A s \in Starts : \A i \in Nat : FinalAfter(ch, s, i + 1) => FinalAfter(Tail(ch), s, i)
         /\ \A s \in Starts : FinalAfter(ch, s, 0) =>
              FinalAfter(Tail(ch), s, 0) \/ (Final(Head(ch)) /\ Head(ch).start = s)
         /\ \A s \in Starts : StartedIn(ch, s) =>
              StartedIn(Tail(ch), s) \/ (~Final(Head(ch)) /\ Head(ch).start = s)
<1> DEFINE new == Tail(ch)
<1>1. /\ Len(ch) \in Nat /\ Len(ch) > 0 /\ Len(new) = Len(ch) - 1
      /\ \A j \in 1..Len(new) : new[j] = ch[j + 1]
      /\ Head(ch) = ch[1] /\ ch[1] \in Event
  OBVIOUS
<1> HIDE DEF new
<1>2. \A i \in 1..Len(new) : i + 1 \in 1..Len(ch) /\ new[i] = ch[i + 1]
  BY <1>1
<1>3. \A j \in 1..Len(ch) : j # 1 => j - 1 \in 1..Len(new) /\ new[j - 1] = ch[j]
  BY <1>1
<1>4. \A s \in Starts : \A i \in Nat : FinalAfter(ch, s, i + 1) => FinalAfter(new, s, i)
  <2> SUFFICES ASSUME NEW s \in Starts, NEW i \in Nat, NEW j \in 1..Len(ch), j > i + 1,
                      ch[j].start = s, Final(ch[j])
               PROVE  FinalAfter(new, s, i)
    BY DEF FinalAfter
  <2>1. j - 1 \in 1..Len(new) /\ j - 1 > i /\ new[j - 1] = ch[j]
    BY <1>3
  <2> QED
    BY <2>1 DEF FinalAfter
<1>5. \A s \in Starts : FinalAfter(ch, s, 0) =>
        FinalAfter(new, s, 0) \/ (Final(Head(ch)) /\ Head(ch).start = s)
  <2> SUFFICES ASSUME NEW s \in Starts, NEW j \in 1..Len(ch), ch[j].start = s, Final(ch[j]), j # 1
               PROVE  FinalAfter(new, s, 0)
    BY <1>1 DEF FinalAfter
  <2>1. j - 1 \in 1..Len(new) /\ j - 1 > 0 /\ new[j - 1] = ch[j]
    BY <1>3
  <2> QED
    BY <2>1 DEF FinalAfter
<1>6. \A s \in Starts : StartedIn(ch, s) =>
        StartedIn(new, s) \/ (~Final(Head(ch)) /\ Head(ch).start = s)
  <2> SUFFICES ASSUME NEW s \in Starts, NEW j \in 1..Len(ch), ch[j].start = s, ~Final(ch[j]), j # 1
               PROVE  StartedIn(new, s)
    BY <1>1 DEF StartedIn
  <2>1. j - 1 \in 1..Len(new) /\ new[j - 1] = ch[j]
    BY <1>3
  <2> QED
    BY <2>1 DEF StartedIn
<1>7. 1 \in 1..Len(ch)
  BY <1>1
<1> QED
  BY <1>1, <1>2, <1>4, <1>5, <1>6, <1>7 DEF new

(* While no channel is full an offered event is added. *)
LEMMA OfferAppends ==
  ASSUME NEW ch \in Seq(Event), Len(ch) < Capacity, NEW s, NEW type
  PROVE  Offer(ch, s, type) = Append(ch, [start |-> s, type |-> type])
BY DEF Offer

LEMMA BusTyped ==
  ASSUME TypeOK
  PROVE  /\ bus \in Seq(Event) /\ Len(bus) \in Nat
         /\ \A i \in 1..Len(bus) : bus[i].start \in Starts
<1>1. bus \in Seq(Event)
  BY DEF TypeOK
<1>2. \A i \in 1..Len(bus) : bus[i] \in Event
  BY <1>1
<1> QED
  BY <1>1, <1>2 DEF Event

LEMMA InitShownInv == Init => ShownInv
<1> SUFFICES ASSUME Init PROVE ShownInv
  OBVIOUS
<1>1. (\A k \in Kinds : 1..Len(chan[k]) = {}) /\ 1..Len(bus) = {}
  <2>1. bus = <<>> /\ \A k \in Kinds : chan[k] = <<>>
    BY DEF Init
  <2> QED
    BY <2>1
<1>2. StartedInv
  BY <1>1 DEF StartedInv
<1>3. \A s \in Starts : ResultInv(s)
  BY DEF Init, ResultInv
<1>4. StatusInv
  <2>1. \A p \in Profiles : status[p] \in {"", "stopped"}
    BY DEF Init
  <2>2. \A s \in Starts : phase[s] = "new"
    BY DEF Init
  <2> QED
    BY <2>1, <2>2 DEF StatusInv
<1> QED
  BY <1>2, <1>3, <1>4 DEF ShownInv

(* Steps that move neither starts nor events. *)
LEMMA CallsKeepShown ==
  ASSUME BindingInv, ShownInv, UNCHANGED <<goroutine, phase, chan, bus>>, stopped \subseteq stopped',
         \A p \in Profiles : Present(p)' /\ status'[p] \in {"starting", "running"} =>
           Present(p) /\ status[p] \in {"starting", "running"},
         \A s \in Starts :
           /\ Past(s) /\ s \notin stopped'
           /\ Present(ProfileOf[s])' /\ status'[ProfileOf[s]] = "stopping"
           => Present(ProfileOf[s]) /\ status[ProfileOf[s]] = "stopping"
  PROVE  ShownInv'
<1>1. \A s \in Starts : ResultInv(s)'
  BY DEF ShownInv, ResultInv
<1>2. StartedInv'
  <2>1. StartedInv /\ phase' = phase /\ chan' = chan /\ bus' = bus
    BY DEF ShownInv
  <2> QED
    BY <2>1 DEF StartedInv, Serves
<1>3. \A s \in Starts : Underway(s) => Underway(s)'
  BY DEF Underway, Ends, Serves, FinalAfter, Final
<1>4. StatusInv'
  <2>1. \A p \in Profiles : Present(p)' /\ status'[p] \in {"starting", "running"} =>
          \E s \in Starts : ProfileOf[s] = p /\ Underway(s)'
    BY <1>3 DEF ShownInv, StatusInv
  <2>2. ASSUME NEW s \in Starts, phase'[s] = "serving", s \notin stopped',
               Present(ProfileOf[s])', status'[ProfileOf[s]] = "stopping"
        PROVE  StartedIn(bus', s) \/ StartedIn(chan'[KindOf(s)'], s)
    <3>1. /\ phase[s] = "serving" /\ s \notin stopped
          /\ Present(ProfileOf[s]) /\ status[ProfileOf[s]] = "stopping"
      BY <2>2 DEF Past
    <3>2. StartedIn(bus, s) \/ StartedIn(chan[KindOf(s)], s)
      BY <3>1 DEF ShownInv, StatusInv
    <3> QED
      BY <3>2 DEF KindOf
  <2> QED
    BY <2>1, <2>2 DEF StatusInv, StartedIn, Final
<1> QED
  BY <1>1, <1>2, <1>4 DEF ShownInv

LEMMA CallsShow ==
  ASSUME BindingInv, ShownInv,
         \/ \E p \in Profiles : Disconnect(p) \/ Delete(p)
         \/ \E p \in Profiles, c \in Choices : Save(p, c) \/ Add(p, c)
         \/ DisconnectAll \/ Shutdown \/ UNCHANGED vars
  PROVE  ShownInv'
<1>0. TypeOK
  BY DEF BindingInv, ServiceInv
<1>1. CASE \E p \in Profiles : Disconnect(p) \/ Delete(p)
  <2>1. PICK p \in Profiles : Disconnect(p) \/ Delete(p)
    BY <1>1
  <2>2. /\ stopped' = stopped \cup StopTarget(p)
        /\ UNCHANGED <<goroutine, phase, chan, bus>>
    BY <2>1 DEF Disconnect, Delete
  <2>3. /\ status'[p] \notin {"starting", "running"}
        /\ \A q \in Profiles \ {p} : status'[q] = status[q]
        /\ \A q \in Profiles : Present(q)' => Present(q)
    BY <1>0, <2>1, ConfigKinds DEF Disconnect, Delete, TypeOK, Present
  <2>4. \A s \in Starts : Past(s) /\ ProfileOf[s] = p => s \in stopped'
    BY <2>2, TargetIsEntry
  <2> QED
    BY <2>2, <2>3, <2>4, CallsKeepShown
<1>2. CASE DisconnectAll
  <2>1. \A s \in Starts : Past(s) => s \in stopped'
    BY <1>2, PastIsEntry, ConfigKinds DEF DisconnectAll, BindingInv
  <2>2. /\ UNCHANGED <<goroutine, phase, chan, bus, profiles>>
        /\ stopped \subseteq stopped'
        /\ \A p \in Profiles : status'[p] \in {status[p], "stopping"}
    BY <1>2 DEF DisconnectAll
  <2> QED
    BY <2>1, <2>2, CallsKeepShown DEF Present
<1>3. CASE \E p \in Profiles, c \in Choices : Save(p, c)
  <2>1. PICK p \in Profiles, c \in Choices : Save(p, c)
    BY <1>3
  <2>2. UNCHANGED <<goroutine, phase, chan, bus, status, stopped>>
    BY <2>1 DEF Save
  <2>3. \A q \in Profiles : Present(q)' => Present(q)
    BY <1>0, <2>1 DEF Save, TypeOK, Present
  <2> QED
    BY <2>2, <2>3, CallsKeepShown
<1>4. CASE \E p \in Profiles, c \in Choices : Add(p, c)
  <2>1. PICK p \in Profiles, c \in Choices : Add(p, c)
    BY <1>4
  <2>2. UNCHANGED <<goroutine, phase, chan, bus, stopped>>
    BY <2>1 DEF Add
  <2>3. status'[p] = "stopped" /\ \A q \in Profiles \ {p} : status'[q] = status[q]
    BY <1>0, <2>1 DEF Add, TypeOK
  <2>4. \A q \in Profiles \ {p} : Present(q)' => Present(q)
    BY <1>0, <2>1 DEF Add, TypeOK, Present
  <2> QED
    BY <2>2, <2>3, <2>4, CallsKeepShown
<1>5. CASE Shutdown \/ UNCHANGED vars
  <2>1. /\ UNCHANGED <<goroutine, phase, chan, bus, profiles, status>>
        /\ stopped \subseteq stopped'
    BY <1>5 DEF vars, Shutdown, ShutdownCancel, ShutdownWireguard, ShutdownTailscale,
                ShutdownDone, ShutdownTimeout, ShutdownStep
  <2> QED
    BY <2>1, CallsKeepShown DEF Present
<1> QED
  BY <1>1, <1>2, <1>3, <1>4, <1>5

(* A start that is begun shows as starting. *)
LEMMA BeginStartsShows ==
  ASSUME BindingInv, ShownInv, NEW ps \in SUBSET Profiles, \A p \in ps : Present(p),
         BeginStarts(ps)
  PROVE  ShownInv'
<1> DEFINE begun == {p \in ps : ~RuntimeLocked(p)}
           new == {NextStart(p) : p \in begun}
<1>1. \A p \in begun : NextStart(p) \in Starts /\ ProfileOf[NextStart(p)] = p
                       /\ call[NextStart(p)] = "none"
  <2> SUFFICES ASSUME NEW p \in begun
               PROVE  NextStart(p) \in Fresh(p)
    BY DEF Fresh
  <2>1. Fresh(p) # {}
    BY DEF BeginStarts
  <2> QED
    BY <2>1 DEF NextStart
<1>2. /\ status' = [p \in Profiles |-> IF p \in begun THEN "starting" ELSE status[p]]
      /\ call' = [s \in Starts |-> IF s \in new THEN "dispatch" ELSE call[s]]
      /\ conf' = [s \in Starts |-> IF s \in new THEN profiles[ProfileOf[s]] ELSE conf[s]]
      /\ UNCHANGED <<profiles, result, bus, phase, stopped, chan>>
  BY DEF BeginStarts
<1> HIDE DEF begun
<1>3. \A s \in Starts : \/ call'[s] = call[s] /\ conf'[s] = conf[s]
                        \/ call'[s] = "dispatch" /\ call[s] = "none"
  BY <1>1, <1>2
<1>4. \A p \in Profiles : \/ status'[p] = status[p]
                          \/ /\ status'[p] = "starting"
                             /\ \E s \in Starts : ProfileOf[s] = p /\ call'[s] = "dispatch"
  BY <1>1, <1>2
<1> HIDE DEF new
<1>5. \A s \in Starts : ResultInv(s)'
  BY <1>2, <1>3 DEF ShownInv, ResultInv
<1>6. StartedInv'
  BY <1>2 DEF ShownInv, StartedInv, Serves, FinalAfter, Final
<1>7. \A s \in Starts : (call'[s] = "dispatch" => Underway(s)') /\ (Underway(s) => Underway(s)')
  BY <1>2, <1>3 DEF Underway, Ends, Serves, FinalAfter, Final
<1>8. \A s \in Starts : phase[s] = "serving" => KindOf(s)' = KindOf(s)
  BY <1>3 DEF BindingInv, ServiceInv, CallInv, KindOf
<1>9. StatusInv'
  <2>1. \A p \in Profiles : Present(p)' /\ status'[p] \in {"starting", "running"} =>
          \E s \in Starts : ProfileOf[s] = p /\ Underway(s)'
    BY <1>2, <1>4, <1>7 DEF ShownInv, StatusInv, Present
  <2>2. ASSUME NEW s \in Starts, phase'[s] = "serving", s \notin stopped',
               Present(ProfileOf[s])', status'[ProfileOf[s]] = "stopping"
        PROVE  (StartedIn(bus, s) \/ StartedIn(chan[KindOf(s)], s))'
    <3>1. /\ phase[s] = "serving" /\ s \notin stopped
          /\ Present(ProfileOf[s]) /\ status[ProfileOf[s]] = "stopping"
      BY <1>2, <1>4, <2>2 DEF Present
    <3>2. StartedIn(bus, s) \/ StartedIn(chan[KindOf(s)], s)
      BY <3>1 DEF ShownInv, StatusInv
    <3> QED
      BY <1>2, <1>8, <3>1, <3>2 DEF StartedIn, Final
  <2> QED
    BY <2>1, <2>2 DEF StatusInv
<1> QED
  BY <1>5, <1>6, <1>9 DEF ShownInv

LEMMA ConnectsShow ==
  ASSUME BindingInv, ShownInv, (\E p \in Profiles : Connect(p)) \/ ConnectAll \/ AutoConnect
  PROVE  ShownInv'
<1>1. CASE \E p \in Profiles : Connect(p)
  <2>1. PICK p \in Profiles : Connect(p)
    BY <1>1
  <2> QED
    BY <2>1, BeginStartsShows DEF Connect
<1>2. CASE ConnectAll
  <2> DEFINE all == {p \in Profiles : Present(p)}
  <2>1. all \in SUBSET Profiles /\ (\A p \in all : Present(p)) /\ BeginStarts(all)
    BY <1>2 DEF ConnectAll
  <2> HIDE DEF all
  <2> QED
    BY <2>1, BeginStartsShows
<1>3. CASE AutoConnect
  <2>1. PICK auto \in SUBSET {p \in Profiles : Present(p)} :
          \/ BeginStarts(auto)
          \/ /\ status' = [p \in Profiles |-> IF p \in auto THEN "error" ELSE status[p]]
             /\ UNCHANGED <<profiles, goroutine, phase, chan, bus, stopped>>
    BY <1>3 DEF AutoConnect
  <2>2. CASE BeginStarts(auto)
    <3>1. auto \in SUBSET Profiles /\ \A p \in auto : Present(p)
      OBVIOUS
    <3> QED
      BY <2>2, <3>1, BeginStartsShows
  <2>3. CASE /\ status' = [p \in Profiles |-> IF p \in auto THEN "error" ELSE status[p]]
             /\ UNCHANGED <<profiles, goroutine, phase, chan, bus, stopped>>
    <3>1. \A p \in Profiles : status'[p] \in {status[p], "error"}
      BY <2>3
    <3> QED
      BY <2>3, <3>1, CallsKeepShown DEF Present
  <2> QED
    BY <2>1, <2>2, <2>3
<1> QED
  BY <1>1, <1>2, <1>3

(* Inside the dispatcher and the adapters a start stays underway. *)
LEMMA InsideShows ==
  ASSUME BindingInv, ShownInv, NEW s \in Starts,
         \/ Dispatch(s) \/ Refuse(s) \/ Reserve(s) \/ Check(s) \/ Commit(s) \/ Abandon(s)
         \/ Unbind(s) \/ Leave(s)
  PROVE  ShownInv'
<1>1. CallInv(s) /\ TypeOK /\ ResultInv(s)
  BY DEF BindingInv, ServiceInv, ShownInv
<1>2. /\ UNCHANGED <<conf, chan, bus, profiles, status>>
      /\ stopped \subseteq stopped'
      /\ \A t \in Starts \ {s} : call'[t] = call[t] /\ phase'[t] = phase[t]
                                 /\ result'[t] = result[t]
  BY <1>1 DEF Dispatch, Refuse, Reserve, Check, Commit, Abandon, Unbind, Leave, TypeOK
<1>3. Serves(s) => Serves(s)'
  BY <1>1 DEF Dispatch, Refuse, Reserve, Check, Commit, Abandon, Unbind, Leave, TypeOK, Serves
<1>4. /\ \/ call'[s] \in {"adapter", "failed"}
         \/ call'[s] = "tail" /\ result'[s] \notin {"none", "nil"}
         \/ Serves(s)' /\ call'[s] = call[s] /\ result'[s] = result[s]
      /\ call'[s] = "failed" => result'[s] \in {"error", "canceled"}
      /\ phase'[s] # "serving"
  <2>1. CASE Dispatch(s)
    BY <1>1, <2>1 DEF Dispatch, TypeOK, CallInv
  <2>2. CASE Refuse(s) \/ Abandon(s)
    BY <1>1, <2>2 DEF Refuse, Abandon, TypeOK, CallInv
  <2>3. CASE Reserve(s) \/ Check(s) \/ Commit(s)
    BY <1>1, <2>3 DEF Reserve, Check, Commit, TypeOK, CallInv
  <2>4. CASE Unbind(s)
    BY <1>1, <2>4 DEF Unbind, TypeOK, CallInv, ResultInv
  <2>5. CASE Leave(s)
    BY <1>1, <2>5 DEF Leave, TypeOK, CallInv, ResultInv, Serves
  <2> QED
    BY <2>1, <2>2, <2>3, <2>4, <2>5
<1>5. \A t \in Starts : ResultInv(t)'
  BY <1>1, <1>2, <1>4 DEF ShownInv, ResultInv
<1>6. \A t \in Starts : Serves(t) => Serves(t)'
  BY <1>2, <1>3 DEF Serves
<1>7. StartedInv'
  <2>1. \A k \in Kinds : \A i \in 1..Len(chan[k]) : chan[k][i].start \in Starts
    BY <1>1, ChanTyped
  <2>2. \A i \in 1..Len(bus) : bus[i].start \in Starts
    BY <1>1, BusTyped
  <2> QED
    BY <1>2, <1>6, <2>1, <2>2 DEF ShownInv, StartedInv, FinalAfter, Final
<1>8. \A t \in Starts : Underway(t) => Underway(t)'
  <2>1. Underway(s)'
    BY <1>4 DEF Underway
  <2>2. ASSUME NEW t \in Starts \ {s}, Underway(t) PROVE Underway(t)'
    BY <1>2, <1>6, <2>2 DEF Underway, Ends, FinalAfter, Final
  <2> QED
    BY <2>1, <2>2
<1>9. StatusInv'
  <2>1. \A p \in Profiles : Present(p)' /\ status'[p] \in {"starting", "running"} =>
          \E t \in Starts : ProfileOf[t] = p /\ Underway(t)'
    BY <1>2, <1>8 DEF ShownInv, StatusInv, Present
  <2>2. ASSUME NEW t \in Starts, phase'[t] = "serving", t \notin stopped',
               Present(ProfileOf[t])', status'[ProfileOf[t]] = "stopping"
        PROVE  (StartedIn(bus, t) \/ StartedIn(chan[KindOf(t)], t))'
    <3>1. /\ phase[t] = "serving" /\ t \notin stopped
          /\ Present(ProfileOf[t]) /\ status[ProfileOf[t]] = "stopping"
      BY <1>2, <1>4, <2>2 DEF Present
    <3>2. StartedIn(bus, t) \/ StartedIn(chan[KindOf(t)], t)
      BY <3>1 DEF ShownInv, StatusInv
    <3> QED
      BY <1>2, <3>2 DEF StartedIn, Final, KindOf
  <2> QED
    BY <2>1, <2>2 DEF StatusInv
<1> QED
  BY <1>5, <1>7, <1>9 DEF ShownInv

(* A start that failed corrects the status when it returns; for one that    *)
(* serves, or did, its own or another event will.                           *)
LEMMA ReturnedShows ==
  ASSUME BindingInv, ShownInv, NEW s \in Starts, Returned(s)
  PROVE  ShownInv'
<1> DEFINE p == ProfileOf[s]
<1>1. /\ TypeOK /\ ResultInv(s) /\ p \in Profiles
      /\ UNCHANGED <<profiles, conf, result, chan, bus, phase, stopped>>
      /\ call[s] = "tail" /\ call'[s] = "done"
      /\ \A t \in Starts \ {s} : call'[t] = call[t]
      /\ \A q \in Profiles \ {p} : status'[q] = status[q]
  BY DEF BindingInv, ServiceInv, ShownInv, TypeOK, Returned
<1>2. result[s] \in {"nil", "canceled", "error"}
  BY <1>1 DEF ResultInv, TypeOK
<1>3. /\ Present(p) /\ result[s] # "nil" => status'[p] \notin {"starting", "running"}
      /\ result[s] = "nil" /\ status'[p] \in {"starting", "running"} =>
           status[p] \in {"starting", "running"}
      /\ status'[p] = "stopping" => status[p] = "stopping"
  BY <1>1, <1>2 DEF Returned, LockedStatus, TypeOK
<1>4. \A t \in Starts : ResultInv(t)'
  BY <1>1 DEF ShownInv, ResultInv
<1>5. StartedInv'
  BY <1>1 DEF ShownInv, StartedInv, Serves, FinalAfter, Final
<1>6. \A t \in Starts : Underway(t) => Underway(t)' \/ (t = s /\ result[s] # "nil")
  BY <1>1 DEF Underway, Ends, Serves, FinalAfter, Final
<1>7. StatusInv'
  <2>1. ASSUME NEW q \in Profiles, Present(q)', status'[q] \in {"starting", "running"}
        PROVE  \E t \in Starts : ProfileOf[t] = q /\ Underway(t)'
    <3>1. Present(q) /\ status[q] \in {"starting", "running"}
      BY <1>1, <1>3, <2>1 DEF Present
    <3>2. PICK t \in Starts : ProfileOf[t] = q /\ Underway(t)
      BY <3>1 DEF ShownInv, StatusInv
    <3> QED
      BY <1>3, <1>6, <2>1, <3>1, <3>2
  <2>2. ASSUME NEW t \in Starts, phase'[t] = "serving", t \notin stopped',
               Present(ProfileOf[t])', status'[ProfileOf[t]] = "stopping"
        PROVE  (StartedIn(bus, t) \/ StartedIn(chan[KindOf(t)], t))'
    <3>1. /\ phase[t] = "serving" /\ t \notin stopped
          /\ Present(ProfileOf[t]) /\ status[ProfileOf[t]] = "stopping"
      BY <1>1, <1>3, <2>2 DEF Present
    <3>2. StartedIn(bus, t) \/ StartedIn(chan[KindOf(t)], t)
      BY <3>1 DEF ShownInv, StatusInv
    <3> QED
      BY <1>1, <3>2 DEF StartedIn, Final, KindOf
  <2> QED
    BY <2>1, <2>2 DEF StatusInv
<1> QED
  BY <1>4, <1>5, <1>7 DEF ShownInv


LEMMA SendKeeps ==
  ASSUME TypeOK, Roomy, NEW s \in Starts, NEW c \in Kinds,
         NEW type \in {"started", "stopped", "error"}, Sent(c, s, type)
  PROVE  /\ Grown(c, s, type)
         /\ \A k \in Kinds, t \in Starts : \A i \in Nat :
              FinalAfter(chan[k], t, i) => FinalAfter(chan'[k], t, i)
         /\ \A k \in Kinds, t \in Starts : StartedIn(chan[k], t) => StartedIn(chan'[k], t)
         /\ type # "started" => \A i \in 0..Len(chan[c]) : FinalAfter(chan'[c], s, i)
         /\ type = "started" => StartedIn(chan'[c], s)
<1> DEFINE e == [start |-> s, type |-> type]
<1>1. e \in Event /\ e.start = s /\ (Final(e) <=> type # "started")
  BY EventTyped DEF Final
<1>2. chan[c] \in Seq(Event) /\ Len(chan[c]) < Capacity
  BY ChanTyped DEF Roomy
<1>3. chan'[c] = Append(chan[c], e) /\ \A k \in Kinds \ {c} : chan'[k] = chan[k]
  <2>1. Offer(chan[c], s, type) = Append(chan[c], e)
    BY <1>2, OfferAppends
  <2>2. chan'[c] = Offer(chan[c], s, type) /\ \A k \in Kinds \ {c} : chan'[k] = chan[k]
    BY DEF TypeOK, Sent
  <2> QED
    BY <2>1, <2>2
<1> HIDE DEF e
<1>4. /\ \A t \in Starts : \A i \in Nat : FinalAfter(chan[c], t, i) => FinalAfter(chan'[c], t, i)
      /\ \A t \in Starts : StartedIn(chan[c], t) => StartedIn(chan'[c], t)
      /\ Final(e) => \A i \in 0..Len(chan[c]) : FinalAfter(chan'[c], s, i)
      /\ ~Final(e) => StartedIn(chan'[c], s)
  BY <1>1, <1>2, <1>3, AppendKeeps
<1>5. Grown(c, s, type)
  BY SendIndices
<1> QED
  BY <1>1, <1>3, <1>4, <1>5

(* A send after which its start serves, or is over, and says so.            *)
LEMMA SendShows ==
  ASSUME BindingInv, ShownInv, Roomy, NEW s \in Starts, NEW c \in Kinds, c = KindOf(s),
         NEW type \in {"started", "stopped", "error"}, Sent(c, s, type),
         UNCHANGED <<conf, bus, profiles, status, stopped>>,
         \A t \in Starts \ {s} : call'[t] = call[t] /\ phase'[t] = phase[t]
                                 /\ result'[t] = result[t],
         call'[s] = "failed" => result'[s] \in {"error", "canceled"},
         call'[s] = "tail" => result'[s] # "none",
         type = "started" => Serves(s)',
         phase'[s] = "serving" => type = "started"
  PROVE  ShownInv'
<1>1. TypeOK
  BY DEF BindingInv, ServiceInv
<1>2. /\ Grown(c, s, type)
      /\ \A k \in Kinds, t \in Starts : \A i \in Nat :
           FinalAfter(chan[k], t, i) => FinalAfter(chan'[k], t, i)
      /\ \A k \in Kinds, t \in Starts : StartedIn(chan[k], t) => StartedIn(chan'[k], t)
      /\ type # "started" => \A i \in 0..Len(chan[c]) : FinalAfter(chan'[c], s, i)
      /\ type = "started" => StartedIn(chan'[c], s)
  BY <1>1, SendKeeps
<1>3. \A t \in Starts : ResultInv(t)'
  BY DEF ShownInv, ResultInv
<1>4. /\ \A t \in Starts \ {s} : Serves(t) => Serves(t)'
      /\ Serves(s)' \/ \A i \in 0..Len(chan[c]) : FinalAfter(chan'[c], s, i)
  BY <1>2 DEF Serves
<1>5. \A t \in Starts : Ends(t) => (FinalAfter(bus, t, 0) \/ \E k \in Kinds : FinalAfter(chan'[k], t, 0))
  BY <1>2 DEF Ends
<1>6. \A t \in Starts : Underway(t) => Underway(t)'
  <2>1. Underway(s)'
    <3>1. Serves(s)' \/ FinalAfter(chan'[c], s, 0)
      BY <1>1, <1>4, ChanTyped
    <3> QED
      BY <3>1 DEF Underway, Ends, FinalAfter, Final
  <2>2. ASSUME NEW t \in Starts \ {s}, Underway(t) PROVE Underway(t)'
    <3>1. Ends(t) => Ends(t)'
      BY <1>5 DEF Ends, FinalAfter, Final
    <3> QED
      BY <1>4, <2>2, <3>1 DEF Underway
  <2> QED
    BY <2>1, <2>2
<1>7. StartedInv'
  <2>1. ASSUME NEW k \in Kinds, NEW i \in 1..Len(chan'[k]), ~Final(chan'[k][i])
        PROVE  LET t == chan'[k][i].start
               IN phase'[t] \in {"serving", "leaving"} \/ FinalAfter(chan'[k], t, i)
    <3>1. CASE i \in 1..Len(chan[k]) /\ chan'[k][i] = chan[k][i]
      <4>1. PICK t \in Starts : t = chan[k][i].start
        BY <1>1, <3>1, ChanTyped
      <4>2. Serves(t) \/ FinalAfter(chan[k], t, i)
        BY <2>1, <3>1, <4>1 DEF ShownInv, StartedInv
      <4>3. k = c \/ t # s
        BY <3>1, <4>1 DEF BindingInv, ChanInv
      <4>4. i \in 0..Len(chan[k]) /\ i \in Nat
        BY <3>1
      <4>5. Serves(t)' \/ FinalAfter(chan'[k], t, i)
        BY <1>2, <1>4, <4>2, <4>3, <4>4
      <4> QED
        BY <3>1, <4>1, <4>5 DEF Serves
    <3>2. CASE chan'[k][i] = [start |-> s, type |-> type]
      BY <2>1, <3>2 DEF Final, Serves
    <3> QED
      BY <1>2, <3>1, <3>2 DEF Grown
  <2>2. ASSUME NEW i \in 1..Len(bus), ~Final(bus[i])
        PROVE  LET t == bus[i].start
               IN \/ phase'[t] \in {"serving", "leaving"} \/ FinalAfter(bus, t, i)
                  \/ \E k \in Kinds : FinalAfter(chan'[k], t, 0)
    <3>1. PICK t \in Starts : t = bus[i].start
      BY <1>1, BusTyped
    <3>2. Serves(t) \/ FinalAfter(bus, t, i) \/ \E k \in Kinds : FinalAfter(chan[k], t, 0)
      BY <2>2, <3>1 DEF ShownInv, StartedInv
    <3>3. 0 \in 0..Len(chan[c]) /\ 0 \in Nat
      BY <1>1, ChanTyped
    <3>4. Serves(t)' \/ FinalAfter(bus, t, i) \/ \E k \in Kinds : FinalAfter(chan'[k], t, 0)
      BY <1>2, <1>4, <3>2, <3>3
    <3> QED
      BY <3>1, <3>4 DEF Serves
  <2> QED
    BY <2>1, <2>2 DEF StartedInv, Serves, FinalAfter, Final
<1>8. StatusInv'
  <2>1. \A p \in Profiles : Present(p)' /\ status'[p] \in {"starting", "running"} =>
          \E t \in Starts : ProfileOf[t] = p /\ Underway(t)'
    BY <1>6 DEF ShownInv, StatusInv, Present
  <2>2. ASSUME NEW t \in Starts, phase'[t] = "serving", t \notin stopped',
               Present(ProfileOf[t])', status'[ProfileOf[t]] = "stopping"
        PROVE  (StartedIn(bus, t) \/ StartedIn(chan[KindOf(t)], t))'
    <3>1. CASE t = s
      <4>1. StartedIn(chan'[c], s)
        BY <1>2, <2>2, <3>1
      <4> QED
        BY <3>1, <4>1 DEF StartedIn, Final, KindOf
    <3>2. CASE t # s
      <4>1. /\ phase[t] = "serving" /\ t \notin stopped
            /\ Present(ProfileOf[t]) /\ status[ProfileOf[t]] = "stopping"
        BY <2>2, <3>2 DEF Present
      <4>2. StartedIn(bus, t) \/ StartedIn(chan[KindOf(t)], t)
        BY <4>1 DEF ShownInv, StatusInv
      <4>3. KindOf(t) \in Kinds
        BY <4>1, CallKind DEF BindingInv, ServiceInv
      <4>4. StartedIn(bus, t) \/ StartedIn(chan'[KindOf(t)], t)
        BY <1>2, <4>2, <4>3
      <4> QED
        BY <4>4 DEF StartedIn, Final, KindOf
    <3> QED
      BY <3>1, <3>2
  <2> QED
    BY <2>1, <2>2 DEF StatusInv
<1> QED
  BY <1>3, <1>7, <1>8 DEF ShownInv

LEMMA AnnounceShows ==
  ASSUME BindingInv, ShownInv, Roomy, NEW s \in Starts, Announce(s)
  PROVE  ShownInv'
<1>1. TypeOK /\ CallInv(s)
  BY DEF BindingInv, ServiceInv
<1>2. PICK c \in Kinds : c = KindOf(s)
  BY <1>1, CallKind DEF Announce
<1>3. /\ UNCHANGED <<conf, bus, profiles, status, stopped>>
      /\ \A t \in Starts \ {s} : call'[t] = call[t] /\ phase'[t] = phase[t]
                                 /\ result'[t] = result[t]
      /\ call'[s] = "tail" /\ result'[s] = "nil" /\ Serves(s)'
  BY <1>1 DEF Announce, TypeOK, Serves
<1>4. Sent(c, s, "started")
  BY <1>2 DEF Announce, Sent
<1> QED
  BY <1>2, <1>3, <1>4, SendShows

LEMMA ReportShows ==
  ASSUME BindingInv, ShownInv, Roomy, NEW s \in Starts, Report(s)
  PROVE  ShownInv'
<1>1. TypeOK /\ CallInv(s) /\ ResultInv(s)
  BY DEF BindingInv, ServiceInv, ShownInv
<1>2. PICK c \in Kinds : c = KindOf(s)
  BY <1>1, CallKind DEF Report
<1>3. /\ UNCHANGED <<conf, bus, profiles, status, stopped, call, result>>
      /\ \A t \in Starts \ {s} : phase'[t] = phase[t]
      /\ phase'[s] = "gone"
  BY <1>1 DEF Report, TypeOK
<1>4. PICK type \in {"stopped", "error"} : type = verdict[s]
  BY <1>1 DEF Report, TypeOK, CallInv
<1>5. Sent(c, s, type)
  BY <1>2, <1>4 DEF Report, Sent
<1>6. /\ call'[s] = "failed" => result'[s] \in {"error", "canceled"}
      /\ call'[s] = "tail" => result'[s] # "none"
  BY <1>1, <1>3 DEF ResultInv
<1> QED
  BY <1>2, <1>3, <1>5, <1>6, SendShows


(* Steps by which events move on or are taken: what they leave behind.      *)
LEMMA ForwardShows ==
  ASSUME BindingInv, ShownInv, Roomy, NEW k \in Kinds, Forward(k)
  PROVE  ShownInv'
<1>1. /\ TypeOK /\ chan[k] \in Seq(Event) /\ chan[k] # <<>> /\ bus \in Seq(Event)
      /\ UNCHANGED <<profiles, status, goroutine, phase, stopped>>
  BY ChanTyped, BusTyped DEF BindingInv, ServiceInv, Forward
<1>2. PICK e \in Event : e = Head(chan[k])
  BY <1>1, TailKeeps
<1>3. /\ chan'[k] = Tail(chan[k]) /\ \A l \in Kinds \ {k} : chan'[l] = chan[l]
      /\ bus' = Append(bus, e)
  <2>1. Offer(bus, e.start, e.type) = Append(bus, [start |-> e.start, type |-> e.type])
    BY <1>1, OfferAppends DEF Roomy
  <2>2. e = [start |-> e.start, type |-> e.type]
    BY DEF Event
  <2>3. bus' = Offer(bus, e.start, e.type)
    BY <1>2 DEF Forward
  <2> QED
    BY <1>1, <2>1, <2>2, <2>3 DEF Forward, TypeOK
<1>4. /\ e = chan[k][1] /\ 1 \in 1..Len(chan[k])
      /\ \A i \in 1..Len(chan'[k]) : i + 1 \in 1..Len(chan[k]) /\ chan'[k][i] = chan[k][i + 1]
      /\ \A t \in Starts : \A i \in Nat : FinalAfter(chan[k], t, i + 1) => FinalAfter(chan'[k], t, i)
      /\ \A t \in Starts : FinalAfter(chan[k], t, 0) =>
           FinalAfter(chan'[k], t, 0) \/ (Final(e) /\ e.start = t)
      /\ \A t \in Starts : StartedIn(chan[k], t) =>
           StartedIn(chan'[k], t) \/ (~Final(e) /\ e.start = t)
  BY <1>1, <1>2, <1>3, TailKeeps
<1>5. /\ \A t \in Starts : \A i \in Nat : FinalAfter(bus, t, i) => FinalAfter(bus', t, i)
      /\ \A t \in Starts : StartedIn(bus, t) => StartedIn(bus', t)
      /\ Final(e) => \A i \in 0..Len(bus) : FinalAfter(bus', e.start, i)
      /\ ~Final(e) => StartedIn(bus', e.start)
  BY <1>1, <1>3, AppendKeeps
<1>6. \A t \in Starts : \A l \in Kinds : \A i \in 0..Len(bus) :
        FinalAfter(chan[l], t, 0) => FinalAfter(chan'[l], t, 0) \/ FinalAfter(bus', t, i)
  BY <1>3, <1>4, <1>5
<1>7. \A t \in Starts : ResultInv(t)'
  BY <1>1 DEF ShownInv, ResultInv
<1>8. \A t \in Starts : Underway(t) => Underway(t)'
  <2>1. \A t \in Starts : Ends(t) => FinalAfter(bus', t, 0) \/ \E l \in Kinds : FinalAfter(chan'[l], t, 0)
    <3>1. 0 \in 0..Len(bus) /\ 0 \in Nat
      BY <1>1, BusTyped
    <3> QED
      BY <1>5, <1>6, <3>1 DEF Ends
  <2>2. \A t \in Starts : Ends(t) => Ends(t)'
    BY <2>1 DEF Ends, FinalAfter, Final
  <2> QED
    BY <1>1, <2>2 DEF Underway, Serves
<1>9. StartedInv'
  <2>1. ASSUME NEW l \in Kinds, NEW i \in 1..Len(chan'[l]), ~Final(chan'[l][i])
        PROVE  LET t == chan'[l][i].start IN Serves(t) \/ FinalAfter(chan'[l], t, i)
    <3>1. CASE l = k
      <4>1. i + 1 \in 1..Len(chan[k]) /\ chan'[k][i] = chan[k][i + 1] /\ i \in Nat
        BY <1>4, <3>1
      <4>2. PICK t \in Starts : t = chan[k][i + 1].start
        BY <1>1, <4>1, ChanTyped
      <4>3. Serves(t) \/ FinalAfter(chan[k], t, i + 1)
        BY <2>1, <3>1, <4>1, <4>2 DEF ShownInv, StartedInv
      <4>4. Serves(t) \/ FinalAfter(chan'[k], t, i)
        BY <1>4, <4>1, <4>3
      <4> QED
        BY <3>1, <4>1, <4>2, <4>4
    <3>2. CASE l # k
      BY <1>3, <2>1, <3>2 DEF ShownInv, StartedInv
    <3> QED
      BY <3>1, <3>2
  <2>2. ASSUME NEW i \in 1..Len(bus'), ~Final(bus'[i])
        PROVE  LET t == bus'[i].start
               IN \/ Serves(t) \/ FinalAfter(bus', t, i)
                  \/ \E l \in Kinds : FinalAfter(chan'[l], t, 0)
    <3>1. \/ i \in 1..Len(bus) /\ bus'[i] = bus[i]
          \/ bus'[i] = e
      BY <1>1, <1>3
    <3>2. CASE i \in 1..Len(bus) /\ bus'[i] = bus[i]
      <4>1. PICK t \in Starts : t = bus[i].start
        BY <1>1, <3>2, BusTyped
      <4>2. Serves(t) \/ FinalAfter(bus, t, i) \/ \E l \in Kinds : FinalAfter(chan[l], t, 0)
        BY <2>2, <3>2, <4>1 DEF ShownInv, StartedInv
      <4>3. i \in 0..Len(bus) /\ i \in Nat
        BY <3>2
      <4>4. Serves(t) \/ FinalAfter(bus', t, i) \/ \E l \in Kinds : FinalAfter(chan'[l], t, 0)
        BY <1>5, <1>6, <4>2, <4>3
      <4> QED
        BY <3>2, <4>1, <4>4
    <3>3. CASE bus'[i] = e
      <4>1. PICK t \in Starts : t = e.start
        BY DEF Event
      <4>2. Serves(t) \/ FinalAfter(chan[k], t, 0 + 1)
        BY <1>4, <2>2, <3>3, <4>1 DEF ShownInv, StartedInv
      <4>3. Serves(t) \/ FinalAfter(chan'[k], t, 0)
        BY <1>4, <4>2
      <4> QED
        BY <3>3, <4>1, <4>3
    <3> QED
      BY <3>1, <3>2, <3>3
  <2> QED
    BY <1>1, <2>1, <2>2 DEF StartedInv, Serves, FinalAfter, Final
<1>10. StatusInv'
  <2>1. \A p \in Profiles : Present(p)' /\ status'[p] \in {"starting", "running"} =>
          \E t \in Starts : ProfileOf[t] = p /\ Underway(t)'
    BY <1>1, <1>8 DEF ShownInv, StatusInv, Present
  <2>2. ASSUME NEW t \in Starts, phase'[t] = "serving", t \notin stopped',
               Present(ProfileOf[t])', status'[ProfileOf[t]] = "stopping"
        PROVE  (StartedIn(bus, t) \/ StartedIn(chan[KindOf(t)], t))'
    <3>1. /\ phase[t] = "serving" /\ t \notin stopped
          /\ Present(ProfileOf[t]) /\ status[ProfileOf[t]] = "stopping"
      BY <1>1, <2>2 DEF Present
    <3>2. StartedIn(bus, t) \/ StartedIn(chan[KindOf(t)], t)
      BY <3>1 DEF ShownInv, StatusInv
    <3>3. KindOf(t) \in Kinds
      BY <3>1, CallKind DEF BindingInv, ServiceInv
    <3>4. StartedIn(bus', t) \/ StartedIn(chan'[KindOf(t)], t)
      BY <1>3, <1>4, <1>5, <3>2, <3>3
    <3> QED
      BY <1>1, <3>4 DEF StartedIn, Final, KindOf
  <2> QED
    BY <2>1, <2>2 DEF StatusInv
<1> QED
  BY <1>7, <1>9, <1>10 DEF ShownInv

LEMMA HandleRuntimeEventShows ==
  ASSUME BindingInv, ShownInv, HandleRuntimeEvent
  PROVE  ShownInv'
<1>1. /\ TypeOK /\ bus \in Seq(Event) /\ bus # <<>> /\ bus' = Tail(bus)
      /\ UNCHANGED <<profiles, goroutine, phase, stopped, chan>>
  BY BusTyped DEF BindingInv, ServiceInv, HandleRuntimeEvent
<1>2. PICK e \in Event : e = Head(bus)
  BY <1>1, TailKeeps
<1>3. PICK s \in Starts : s = e.start
  BY DEF Event
<1>4. /\ e = bus[1] /\ 1 \in 1..Len(bus)
      /\ \A i \in 1..Len(bus') : i + 1 \in 1..Len(bus) /\ bus'[i] = bus[i + 1]
      /\ \A t \in Starts : \A i \in Nat : FinalAfter(bus, t, i + 1) => FinalAfter(bus', t, i)
      /\ \A t \in Starts : FinalAfter(bus, t, 0) => FinalAfter(bus', t, 0) \/ (Final(e) /\ s = t)
      /\ \A t \in Starts : StartedIn(bus, t) => StartedIn(bus', t) \/ (~Final(e) /\ s = t)
  BY <1>1, <1>2, <1>3, TailKeeps
<1>5. /\ \A q \in Profiles \ {ProfileOf[s]} : status'[q] = status[q]
      /\ Present(ProfileOf[s]) => status'[ProfileOf[s]] # "stopping"
      /\ Present(ProfileOf[s]) /\ Final(e) => status'[ProfileOf[s]] \notin {"starting", "running"}
  <2>1. /\ \A q \in Profiles \ {ProfileOf[s]} : status'[q] = status[q]
        /\ Present(ProfileOf[s]) => status'[ProfileOf[s]] = StatusOfEvent(e.type)
    BY <1>1, <1>2, <1>3 DEF HandleRuntimeEvent, TypeOK
  <2>2. /\ StatusOfEvent(e.type) # "stopping"
        /\ Final(e) => StatusOfEvent(e.type) \notin {"starting", "running"}
    BY DEF StatusOfEvent, Event, Final
  <2> QED
    BY <2>1, <2>2
<1>6. \A t \in Starts : ResultInv(t)'
  BY <1>1 DEF ShownInv, ResultInv
<1>7. ~Final(e) => Underway(s)'
  <2>1. ~Final(e) => \/ Serves(s) \/ FinalAfter(bus, s, 0 + 1)
                     \/ \E k \in Kinds : FinalAfter(chan[k], s, 0)
    BY <1>3, <1>4 DEF ShownInv, StartedInv
  <2>2. ~Final(e) => \/ Serves(s) \/ FinalAfter(bus', s, 0)
                     \/ \E k \in Kinds : FinalAfter(chan[k], s, 0)
    BY <1>4, <2>1
  <2> QED
    BY <1>1, <2>2 DEF Underway, Ends, Serves, FinalAfter, Final
<1>8. \A t \in Starts : Underway(t) => Underway(t)' \/ (Final(e) /\ t = s)
  <2>1. \A t \in Starts : Ends(t) =>
          \/ FinalAfter(bus', t, 0) \/ (\E k \in Kinds : FinalAfter(chan[k], t, 0))
          \/ Final(e) /\ t = s
    BY <1>4 DEF Ends
  <2> QED
    BY <1>1, <2>1 DEF Underway, Ends, Serves, FinalAfter, Final
<1>9. StartedInv'
  <2>1. ASSUME NEW i \in 1..Len(bus'), ~Final(bus'[i])
        PROVE  LET t == bus'[i].start
               IN \/ Serves(t) \/ FinalAfter(bus', t, i)
                  \/ \E k \in Kinds : FinalAfter(chan[k], t, 0)
    <3>1. i + 1 \in 1..Len(bus) /\ bus'[i] = bus[i + 1] /\ i \in Nat
      BY <1>4
    <3>2. PICK t \in Starts : t = bus[i + 1].start
      BY <1>1, <3>1, BusTyped
    <3>3. Serves(t) \/ FinalAfter(bus, t, i + 1) \/ \E k \in Kinds : FinalAfter(chan[k], t, 0)
      BY <2>1, <3>1, <3>2 DEF ShownInv, StartedInv
    <3>4. Serves(t) \/ FinalAfter(bus', t, i) \/ \E k \in Kinds : FinalAfter(chan[k], t, 0)
      BY <1>4, <3>1, <3>3
    <3> QED
      BY <3>1, <3>2, <3>4
  <2> QED
    BY <1>1, <2>1 DEF ShownInv, StartedInv, Serves, FinalAfter, Final
<1>10. StatusInv'
  <2>1. ASSUME NEW p \in Profiles, Present(p)', status'[p] \in {"starting", "running"}
        PROVE  \E t \in Starts : ProfileOf[t] = p /\ Underway(t)'
    <3>0. Present(p)
      BY <1>1, <2>1 DEF Present
    <3>1. CASE p = ProfileOf[s]
      BY <1>5, <1>7, <2>1, <3>0, <3>1
    <3>2. CASE p # ProfileOf[s]
      BY <1>5, <1>8, <2>1, <3>0, <3>2 DEF ShownInv, StatusInv
    <3> QED
      BY <3>1, <3>2
  <2>2. ASSUME NEW t \in Starts, phase'[t] = "serving", t \notin stopped',
               Present(ProfileOf[t])', status'[ProfileOf[t]] = "stopping"
        PROVE  (StartedIn(bus, t) \/ StartedIn(chan[KindOf(t)], t))'
    <3>1. /\ phase[t] = "serving" /\ t \notin stopped
          /\ Present(ProfileOf[t]) /\ status[ProfileOf[t]] = "stopping" /\ t # s
      BY <1>1, <1>5, <2>2 DEF Present
    <3>2. StartedIn(bus, t) \/ StartedIn(chan[KindOf(t)], t)
      BY <3>1 DEF ShownInv, StatusInv
    <3>3. StartedIn(bus', t) \/ StartedIn(chan[KindOf(t)], t)
      BY <1>4, <3>1, <3>2
    <3> QED
      BY <1>1, <3>3 DEF StartedIn, Final, KindOf
  <2> QED
    BY <2>1, <2>2 DEF StatusInv
<1> QED
  BY <1>6, <1>9, <1>10 DEF ShownInv

LEMMA NextShownInv ==
  ASSUME MayFault = FALSE, BindingInv, Roomy, ShownInv, [Next]_vars
  PROVE  ShownInv'
<1>1. CASE ServiceCall
  BY <1>1, CallsShow, ConnectsShow DEF ServiceCall
<1>2. ASSUME NEW s \in Starts,
             Goroutine(s) \/ Check(s) \/ Abandon(s) \/ Leave(s) \/ Fault(s)
      PROVE  ShownInv'
  BY <1>2, InsideShows, AnnounceShows, ReturnedShows, ReportShows DEF Goroutine, Fault
<1>3. CASE \E k \in Kinds : Forward(k)
  BY <1>3, ForwardShows
<1>4. CASE HandleRuntimeEvent
  BY <1>4, HandleRuntimeEventShows
<1>5. CASE Shutdown \/ UNCHANGED vars
  BY <1>5, CallsShow
<1> QED
  BY <1>1, <1>2, <1>3, <1>4, <1>5 DEF Next

(* As long as the channels have room, so that no event is lost: whatever    *)
(* was called, and however starts, events and the answers of runtime.Start  *)
(* were interleaved, a profile is shown as running exactly when it runs     *)
(* once everything in flight has settled (Service.Status, startRuntime,     *)
(* handleRuntimeEvent).                                                     *)
THEOREM ShownTrue ==
  ASSUME MayFault = FALSE
  PROVE  Spec /\ []Roomy => []ShownIsTrue
<1>1. BindingInv /\ Roomy /\ ShownInv /\ [Next]_vars => ShownInv'
  BY NextShownInv
<1>2. BindingInv /\ ShownInv => ShownIsTrue
  <2> SUFFICES ASSUME BindingInv, ShownInv, Quiet, NEW p \in Profiles, Present(p)
               PROVE  Shown(p) = "running" <=> Running(p)
    BY DEF ShownIsTrue
  <2>1. \A s \in Starts : Underway(s) => phase[s] = "serving"
    <3>1. bus = <<>> /\ \A k \in Kinds : chan[k] = <<>>
      BY DEF Quiet
    <3>2. \A s \in Starts : ~Ends(s)
      BY <3>1 DEF Ends, FinalAfter
    <3> QED
      BY <3>2 DEF Quiet, Underway, Serves
  <2>2. \A s \in Starts : InTable(s) => phase[s] = "serving" /\ s \notin stopped
    BY DEF Quiet, InTable
  <2>3. \A s \in Starts : phase[s] = "serving" => Running(ProfileOf[s])
    BY CallKind DEF BindingInv, ServiceInv, TableInv, InTable, Running
  <2>4. status[p] \in {"starting", "running"} => Running(p)
    BY <2>1, <2>3 DEF ShownInv, StatusInv
  <2>5. Running(p) => status[p] # "stopping"
    <3>1. ASSUME Running(p), status[p] = "stopping" PROVE FALSE
      <4>1. PICK k \in Kinds : table[k][p] # NoStart
        BY <3>1 DEF Running
      <4>2. PICK s \in Starts : s = table[k][p]
        BY <4>1 DEF BindingInv, ServiceInv, TypeOK
      <4>3. ProfileOf[s] = p /\ InTable(s)
        BY <4>1, <4>2 DEF BindingInv, ServiceInv, TableInv
      <4>4. StartedIn(bus, s) \/ StartedIn(chan[KindOf(s)], s)
        BY <2>2, <3>1, <4>3 DEF ShownInv, StatusInv
      <4>5. KindOf(s) \in Kinds
        BY <4>3, CallKind DEF BindingInv, ServiceInv, InTable
      <4> QED
        BY <4>4, <4>5 DEF Quiet, StartedIn
    <3> QED
      BY <3>1
  <2> QED
    BY <2>4, <2>5 DEF Shown
<1> QED
  BY <1>1, <1>2, InitShownInv, BindingInvariance, PTL DEF Spec

-----------------------------------------------------------------------------
(* One listener on an address, where every profile has one start.           *)

LEMMA SeqGrows ==
  ASSUME NEW S, NEW T, S \subseteq T, NEW q \in Seq(S)
  PROVE  q \in Seq(T)
<1>1. Len(q) \in Nat /\ q \in [1..Len(q) -> S]
  OBVIOUS
<1>2. q \in [1..Len(q) -> T]
  BY <1>1
<1> QED
  BY <1>1, <1>2

LEMMA OfferHeard ==
  ASSUME NEW S, NEW s \in S, NEW type \in {"started", "stopped", "error"},
         NEW q \in Seq([start : S, type : {"started", "stopped", "error"}])
  PROVE  Offer(q, s, type) \in Seq([start : S, type : {"started", "stopped", "error"}])
<1> DEFINE E == [start : S, type : {"started", "stopped", "error"}]
           e == [start |-> s, type |-> type]
<1>1. e \in E
  OBVIOUS
<1> HIDE DEF E, e
<1>2. q \in Seq(E)
  BY DEF E
<1>3. Append(q, e) \in Seq(E)
  BY ONLY <1>1, <1>2
<1> QED
  BY <1>2, <1>3 DEF Offer, E, e

(* No start goes back to where it was before its adapter.                   *)
LEMMA HeardGrows ==
  ASSUME ServiceInv, [Next]_vars
  PROVE  Heard \subseteq Heard'
<1>1. ASSUME NEW s \in Starts, phase[s] # "new" PROVE phase'[s] # "new"
  <2> USE DEF ServiceInv, TypeOK
  <2>1. CASE UNCHANGED phase
    BY <1>1, <2>1
  <2>2. ASSUME NEW t \in Starts, Refuse(t) \/ Reserve(t) \/ Check(t) \/ Commit(t) \/ Abandon(t)
        PROVE  phase'[s] # "new"
    BY <1>1, <2>2 DEF Refuse, Reserve, Check, Commit, Abandon
  <2>3. ASSUME NEW t \in Starts, Announce(t) \/ Leave(t) \/ Report(t)
        PROVE  phase'[s] # "new"
    BY <1>1, <2>3 DEF Announce, Leave, Report
  <2>4. ASSUME NEW t \in Starts, Dispatch(t) \/ Unbind(t) \/ Returned(t) \/ Fault(t)
        PROVE  UNCHANGED phase
    BY <2>4 DEF Dispatch, Unbind, Returned, Fault
  <2>5. CASE ServiceCall
    BY <2>1, <2>5 DEF ServiceCall, Connect, ConnectAll, AutoConnect, BeginStarts, Disconnect,
                      DisconnectAll, Delete, Save, Add
  <2>6. CASE (\E k \in Kinds : Forward(k)) \/ HandleRuntimeEvent \/ UNCHANGED vars
    BY <2>1, <2>6 DEF Forward, HandleRuntimeEvent, vars
  <2>7. CASE Shutdown
    BY <2>1, <2>7 DEF Shutdown, ShutdownCancel, ShutdownWireguard, ShutdownTailscale,
                      ShutdownDone, ShutdownTimeout, ShutdownStep
  <2> QED
    BY <2>1, <2>2, <2>3, <2>4, <2>5, <2>6, <2>7 DEF Next, Goroutine
<1> QED
  BY <1>1 DEF Heard

LEMMA HeardKeeps ==
  ASSUME ServiceInv, HeardInv, [Next]_vars
  PROVE  HeardInv'
<1>1. Heard \subseteq Heard'
  BY HeardGrows
<1>2. bus \in Seq(Heard') /\ \A k \in Kinds : chan[k] \in Seq(Heard')
  BY <1>1, SeqGrows DEF HeardInv
<1>3. chan \in [Kinds -> Seq(Event)] /\ phase \in [Starts -> {"new", "reserved", "checked",
                                            "committed", "serving", "leaving", "gone"}]
  BY DEF ServiceInv, TypeOK
<1>4. CASE UNCHANGED <<bus, chan>>
  BY <1>2, <1>4 DEF HeardInv
<1>5. ASSUME NEW s \in Starts, phase'[s] # "new", NEW k \in Kinds,
             NEW type \in {"started", "stopped", "error"},
             chan' = [chan EXCEPT ![k] = Offer(@, s, type)], UNCHANGED bus
      PROVE  HeardInv'
  <2>1. chan[k] \in Seq([start : {t \in Starts : phase'[t] # "new"},
                         type : {"started", "stopped", "error"}])
    BY <1>2 DEF Heard
  <2>2. Offer(chan[k], s, type) \in Seq(Heard')
    BY <1>5, <2>1, OfferHeard DEF Heard
  <2>3. chan'[k] = Offer(chan[k], s, type) /\ \A l \in Kinds \ {k} : chan'[l] = chan[l]
    BY <1>3, <1>5
  <2> QED
    BY <1>2, <1>5, <2>2, <2>3 DEF HeardInv
<1>6. ASSUME NEW s \in Starts, Announce(s) \/ Report(s) \/ Fault(s) PROVE HeardInv'
  <2>1. CallInv(s) /\ TypeOK /\ phase[s] # "new"
    BY <1>6 DEF ServiceInv, Announce, Report, Fault
  <2>2. phase'[s] # "new"
    BY <1>3, <1>6, <2>1 DEF Announce, Report, Fault
  <2>3. KindOf(s) \in Kinds /\ "tailscale" \in Kinds
    BY <2>1, CallKind, ConfigKinds
  <2>4. phase[s] = "leaving" => verdict[s] \in {"started", "stopped", "error"}
    BY <2>1 DEF CallInv, TypeOK
  <2> QED
    BY <1>5, <1>6, <2>2, <2>3, <2>4 DEF Announce, Report, Fault
<1>7. ASSUME NEW k \in Kinds, Forward(k) PROVE HeardInv'
  <2> DEFINE e == Head(chan[k])
  <2>1. /\ chan' = [chan EXCEPT ![k] = Tail(@)] /\ bus' = Offer(bus, e.start, e.type)
        /\ chan[k] # <<>>
    BY <1>7 DEF Forward
  <2>2. e \in Heard' /\ Tail(chan[k]) \in Seq(Heard')
    <3>1. chan[k] \in Seq(Heard') /\ chan[k] # <<>>
      BY <1>2, <2>1
    <3> QED
      BY ONLY <3>1
  <2>3. /\ e.start \in {t \in Starts : phase'[t] # "new"}
        /\ e.type \in {"started", "stopped", "error"}
    BY <2>2 DEF Heard
  <2> HIDE DEF e
  <2>4. bus' \in Seq(Heard')
    <3>1. bus \in Seq([start : {t \in Starts : phase'[t] # "new"},
                       type : {"started", "stopped", "error"}])
      BY <1>2 DEF Heard
    <3> QED
      BY <2>1, <2>3, <3>1, OfferHeard DEF Heard
  <2>5. chan'[k] = Tail(chan[k]) /\ \A l \in Kinds \ {k} : chan'[l] = chan[l]
    BY <1>3, <2>1
  <2> QED
    BY <1>2, <2>2, <2>4, <2>5 DEF HeardInv
<1>8. CASE HandleRuntimeEvent
  <2>1. bus' = Tail(bus) /\ bus # <<>> /\ UNCHANGED chan
    BY <1>8 DEF HandleRuntimeEvent
  <2>2. Tail(bus) \in Seq(Heard')
    <3>1. bus \in Seq(Heard') /\ bus # <<>>
      BY <1>2, <2>1
    <3> QED
      BY ONLY <3>1
  <2> QED
    BY <1>2, <2>1, <2>2 DEF HeardInv
<1>9. ASSUME NEW s \in Starts,
             Dispatch(s) \/ Refuse(s) \/ Reserve(s) \/ Check(s) \/ Commit(s) \/ Abandon(s)
             \/ Leave(s) \/ Unbind(s) \/ Returned(s)
      PROVE  UNCHANGED <<bus, chan>>
  BY <1>9 DEF Dispatch, Refuse, Reserve, Check, Commit, Abandon, Leave, Unbind, Returned
<1>10. CASE ServiceCall
  BY <1>4, <1>10 DEF ServiceCall, Connect, ConnectAll, AutoConnect, BeginStarts, Disconnect,
                     DisconnectAll, Delete, Save, Add
<1>11. CASE Shutdown \/ UNCHANGED vars
  BY <1>4, <1>11 DEF Shutdown, ShutdownCancel, ShutdownWireguard, ShutdownTailscale,
                     ShutdownDone, ShutdownTimeout, ShutdownStep, vars
<1> QED
  BY <1>4, <1>6, <1>7, <1>8, <1>9, <1>10, <1>11 DEF Next, Goroutine

-----------------------------------------------------------------------------
LEMMA ActiveEntry ==
  ASSUME ServiceInv, NEW s \in Starts, InTable(s)
  PROVE  /\ KindOf(s) \in Kinds /\ ProfileOf[s] \in Profiles
         /\ table[KindOf(s)][ProfileOf[s]] = s /\ Running(ProfileOf[s])
<1>1. KindOf(s) \in Kinds
  BY CallKind DEF ServiceInv, InTable
<1>2. table[KindOf(s)][ProfileOf[s]] = s /\ s # NoStart
  BY DEF ServiceInv, TableInv
<1> QED
  BY <1>1, <1>2 DEF Running

(* The profile of an active start is locked.                                *)
LEMMA ActiveLocks ==
  ASSUME ServiceInv, ActiveInv, NEW s \in Starts, Active(s)
  PROVE  /\ ProfileOf[s] \in Profiles /\ Present(ProfileOf[s]) /\ RuntimeLocked(ProfileOf[s])
         /\ profiles[ProfileOf[s]] = conf[s] /\ call[s] # "none"
<1>1. CallInv(s) /\ TypeOK
  BY DEF ServiceInv
<1>2. call[s] # "none"
  BY <1>1 DEF CallInv, Active, InTable
<1>3. conf[s] \in Config
  BY <1>1, <1>2 DEF CallInv, TypeOK
<1>4. profiles[ProfileOf[s]] = conf[s] /\ (InTable(s) \/ status[ProfileOf[s]] = "starting")
  BY DEF ActiveInv
<1> QED
  BY <1>2, <1>3, <1>4, ActiveEntry DEF Present, RuntimeLocked, LockedStatus

(* Steps after which nothing more is active and what is looks the same.     *)
LEMMA ActiveFrame ==
  ASSUME ServiceInv, ActiveInv, ApartInv, UNCHANGED conf,
         \A s \in Starts : Active(s)' =>
           /\ Active(s)
           /\ call'[s] \in {"dispatch", "adapter"} =>
                call[s] \in {"dispatch", "adapter"} /\ pending'[ProfileOf[s]] = pending[ProfileOf[s]]
           /\ profiles'[ProfileOf[s]] = profiles[ProfileOf[s]]
           /\ InTable(s)' \/ (~InTable(s) /\ status'[ProfileOf[s]] = status[ProfileOf[s]])
  PROVE  ActiveInv' /\ ApartInv'
BY DEF ActiveInv, ApartInv

(* The goroutine and the process of a start leave the service alone.        *)
LEMMA InsideApart ==
  ASSUME ServiceInv, ActiveInv, ApartInv, NEW s \in Starts,
         \/ Dispatch(s) \/ Refuse(s) \/ Reserve(s) \/ Check(s) \/ Commit(s) \/ Abandon(s)
         \/ Announce(s) \/ Unbind(s) \/ Leave(s) \/ Report(s) \/ Fault(s)
  PROVE  ActiveInv' /\ ApartInv'
<1>1. CallInv(s) /\ TypeOK
  BY DEF ServiceInv
<1>2. /\ UNCHANGED <<conf, service>> /\ stopped \subseteq stopped'
      /\ \A t \in Starts \ {s} : call'[t] = call[t] /\ phase'[t] = phase[t]
  BY <1>1 DEF Dispatch, Refuse, Reserve, Check, Commit, Abandon, Announce, Unbind, Leave, Report,
              Fault, TypeOK
<1>3. /\ InTable(s)' => call[s] \in {"dispatch", "adapter"} \/ InTable(s)
      /\ call'[s] \in {"dispatch", "adapter"} => call[s] \in {"dispatch", "adapter"}
      /\ InTable(s) => InTable(s)' \/ call'[s] \notin {"dispatch", "adapter"}
  BY <1>1 DEF Dispatch, Refuse, Reserve, Check, Commit, Abandon, Announce, Unbind, Leave, Report,
              Fault, TypeOK, CallInv, InTable
<1>4. \A t \in Starts \ {s} : InTable(t)' = InTable(t)
  BY <1>2 DEF InTable
<1> QED
  BY <1>2, <1>3, <1>4, ActiveFrame DEF Active

(* Its last step changes the status of its profile, which is locked by its  *)
(* entry now if it is active.                                               *)
LEMMA ReturnedApart ==
  ASSUME ServiceInv, ActiveInv, ApartInv, OneStart, NEW s \in Starts, Returned(s)
  PROVE  ActiveInv' /\ ApartInv'
<1>1. TypeOK
  BY DEF ServiceInv
<1>2. /\ UNCHANGED <<conf, profiles, canceled, phase, stopped>>
      /\ call[s] = "tail" /\ call'[s] = "done"
      /\ \A t \in Starts \ {s} : call'[t] = call[t]
      /\ \A q \in Profiles \ {ProfileOf[s]} : pending'[q] = pending[q] /\ status'[q] = status[q]
  BY <1>1 DEF Returned, TypeOK
<1>3. \A t \in Starts \ {s} : ProfileOf[t] \in Profiles \ {ProfileOf[s]}
  BY DEF OneStart
<1>4. \A t \in Starts : InTable(t)' = InTable(t)
  BY <1>2 DEF InTable
<1> QED
  BY <1>2, <1>3, <1>4, ActiveFrame DEF Active

(* An event is about a start that has got into its adapter, so that it      *)
(* changes no status that an entry does not lock.                           *)
LEMMA EventApart ==
  ASSUME ServiceInv, HeardInv, ActiveInv, ApartInv, OneStart,
         HandleRuntimeEvent \/ \E k \in Kinds : Forward(k)
  PROVE  ActiveInv' /\ ApartInv'
<1>1. TypeOK /\ \A s \in Starts : CallInv(s)
  BY DEF ServiceInv
<1>2. UNCHANGED <<conf, profiles, pending, canceled, call, phase, stopped>>
  BY DEF HandleRuntimeEvent, Forward
<1>3. \A s \in Starts : (InTable(s)' = InTable(s)) /\ (Active(s)' = Active(s))
  BY <1>2 DEF InTable, Active
<1>4. CASE \E k \in Kinds : Forward(k)
  <2>1. UNCHANGED status
    BY <1>4 DEF Forward
  <2> QED
    BY <1>2, <1>3, <2>1, ActiveFrame
<1>5. CASE HandleRuntimeEvent
  <2> DEFINE e == Head(bus)
  <2>1. e \in Heard
    <3>1. bus \in Seq(Heard) /\ bus # <<>>
      BY <1>5 DEF HeardInv, HandleRuntimeEvent
    <3> QED
      BY ONLY <3>1
  <2>2. e.start \in Starts /\ phase[e.start] # "new"
    BY <2>1 DEF Heard
  <2>3. \A q \in Profiles \ {ProfileOf[e.start]} : status'[q] = status[q]
    BY <1>1, <1>5 DEF HandleRuntimeEvent, TypeOK
  <2> HIDE DEF e
  <2>4. ASSUME NEW s \in Starts, Active(s)
        PROVE  InTable(s) \/ status'[ProfileOf[s]] = status[ProfileOf[s]]
    <3>1. CASE s = e.start
      BY <1>1, <2>2, <2>4, <3>1 DEF Active, CallInv, InTable
    <3>2. CASE s # e.start
      BY <2>2, <2>3, <3>2 DEF OneStart
    <3> QED
      BY <3>1, <3>2
  <2> QED
    BY <1>2, <1>3, <2>4, ActiveFrame
<1> QED
  BY <1>4, <1>5

(* What Stop finds of a profile is its only start.                          *)
LEMMA StopFinds ==
  ASSUME ServiceInv, OneStart, NEW s \in Starts, InTable(s)
  PROVE  s \in StopTarget(ProfileOf[s])
<1> DEFINE p == ProfileOf[s]
           k == KindOf(s)
<1>1. k \in Kinds /\ p \in Profiles /\ table[k][p] = s /\ s # NoStart
  BY ActiveEntry
<1>2. \A l \in Kinds : table[l][p] \in {s, NoStart}
  <2>1. \A l \in Kinds : table[l][p] # NoStart =>
          table[l][p] \in Starts /\ ProfileOf[table[l][p]] = p
    BY <1>1 DEF ServiceInv, TypeOK, TableInv
  <2> QED
    BY <2>1 DEF OneStart
<1> HIDE DEF p, k
<1>3. PICK first, second \in Kinds :
        /\ StopTarget(p) = IF table[first][p] # NoStart THEN {table[first][p]}
                           ELSE {table[second][p]} \ {NoStart}
        /\ k \in {first, second}
  <2> DEFINE first == IF backing[p] = "none" THEN "wireguard" ELSE backing[p]
             second == CHOOSE l \in Kinds : l # first
  <2>1. first \in Kinds
    BY <1>1, ConfigKinds DEF ServiceInv, TypeOK
  <2>2. second \in Kinds /\ second # first
    <3>1. \E l \in Kinds : l # first
      BY ConfigKinds
    <3> QED
      BY <3>1
  <2>3. k \in {first, second}
    BY <1>1, <2>1, <2>2, ConfigKinds
  <2> QED
    BY <2>1, <2>2, <2>3 DEF StopTarget
<1>4. s \in StopTarget(p)
  BY <1>1, <1>2, <1>3
<1> QED
  BY <1>4 DEF p

(* Disconnecting and deleting reach what is active, by its pending entry or *)
(* by its table.                                                            *)
LEMMA DisconnectsApart ==
  ASSUME ServiceInv, ActiveInv, ApartInv, OneStart,
         DisconnectAll \/ \E p \in Profiles : Disconnect(p) \/ Delete(p)
  PROVE  ActiveInv' /\ ApartInv'
<1>1. TypeOK
  BY DEF ServiceInv
<1>2. /\ UNCHANGED <<conf, call, phase>>
      /\ canceled \subseteq canceled' /\ stopped \subseteq stopped'
  BY DEF DisconnectAll, Disconnect, Delete
<1>3. \A s \in Starts : (InTable(s)' = InTable(s)) /\ (Active(s)' => Active(s))
  BY <1>2 DEF InTable, Active
<1>4. \A s \in Starts, ps \in SUBSET Profiles :
        Active(s) /\ ~InTable(s) /\ ProfileOf[s] \in ps => s \in PendingOf(ps)
  BY DEF ActiveInv, Active, PendingOf
<1>5. CASE DisconnectAll
  <2>1. UNCHANGED <<profiles, pending>> /\ PendingOf(Profiles) \subseteq canceled'
    BY <1>5 DEF DisconnectAll
  <2>2. \A s \in Starts : Active(s)' => InTable(s)
    BY <1>3, <1>4, <2>1 DEF Active
  <2> QED
    BY <1>2, <1>3, <2>1, <2>2, ActiveFrame
<1>6. ASSUME NEW p \in Profiles, Disconnect(p) PROVE ActiveInv' /\ ApartInv'
  <2>1. /\ UNCHANGED <<profiles, pending>> /\ PendingOf({p}) \subseteq canceled'
        /\ \A q \in Profiles \ {p} : status'[q] = status[q]
    BY <1>1, <1>6 DEF Disconnect, TypeOK
  <2>2. \A s \in Starts : Active(s)' /\ ProfileOf[s] = p => InTable(s)
    BY <1>3, <1>4, <2>1 DEF Active
  <2> QED
    BY <1>2, <1>3, <2>1, <2>2, ActiveFrame
<1>7. ASSUME NEW p \in Profiles, Delete(p) PROVE ActiveInv' /\ ApartInv'
  <2>1. /\ PendingOf({p}) \subseteq canceled' /\ StopTarget(p) \subseteq stopped'
        /\ \A q \in Profiles \ {p} :
             profiles'[q] = profiles[q] /\ pending'[q] = pending[q] /\ status'[q] = status[q]
    BY <1>1, <1>7 DEF Delete, TypeOK
  <2>2. \A s \in Starts : Active(s)' => ProfileOf[s] # p
    BY <1>3, <1>4, <2>1, StopFinds DEF Active
  <2> QED
    BY <1>2, <1>3, <2>1, <2>2, ActiveFrame
<1> QED
  BY <1>5, <1>6, <1>7

(* Only profiles that are not locked, or not there yet, are changed.        *)
LEMMA EditsApart ==
  ASSUME ServiceInv, ActiveInv, ApartInv, NEW p \in Profiles, NEW c \in Choices,
         Save(p, c) \/ Add(p, c)
  PROVE  ActiveInv' /\ ApartInv'
<1>1. TypeOK
  BY DEF ServiceInv
<1>2. UNCHANGED <<conf, call, phase, stopped, canceled, pending>>
  BY DEF Save, Add
<1>3. \A s \in Starts : (InTable(s)' = InTable(s)) /\ (Active(s)' = Active(s))
  BY <1>2 DEF InTable, Active
<1>4. \A q \in Profiles \ {p} : profiles'[q] = profiles[q] /\ status'[q] = status[q]
  BY <1>1 DEF Save, Add, TypeOK
<1>5. \A s \in Starts : Active(s) => ProfileOf[s] # p
  <2>1. ~RuntimeLocked(p) \/ ~Present(p)
    BY ConfigKinds DEF Save, Add, Present
  <2> QED
    BY <2>1, ActiveLocks
<1> QED
  BY <1>2, <1>3, <1>4, <1>5, ActiveFrame

(* What begins is on no address that anything active has.                   *)
LEMMA BeginsApart ==
  ASSUME ServiceInv, ActiveInv, ApartInv, OneStart, NEW ps \in SUBSET Profiles,
         \A p \in ps : Present(p), BeginStarts(ps), ~DuplicateBind(ps),
         \A p \in ps, s \in Starts :
           Active(s) /\ ProfileOf[s] # p => conf[s].bind # profiles[p].bind
  PROVE  ActiveInv' /\ ApartInv'
<1> DEFINE begun == {p \in ps : ~RuntimeLocked(p)}
           new == {NextStart(p) : p \in begun}
<1>1. \A p \in begun : NextStart(p) \in Starts /\ ProfileOf[NextStart(p)] = p
                       /\ call[NextStart(p)] = "none"
  <2> SUFFICES ASSUME NEW p \in begun
               PROVE  NextStart(p) \in Fresh(p)
    BY DEF Fresh
  <2>1. Fresh(p) # {}
    BY DEF BeginStarts
  <2> QED
    BY <2>1 DEF NextStart
<1>2. /\ status' = [p \in Profiles |-> IF p \in begun THEN "starting" ELSE status[p]]
      /\ pending' = [p \in Profiles |-> IF p \in begun THEN NextStart(p) ELSE pending[p]]
      /\ call' = [s \in Starts |-> IF s \in new THEN "dispatch" ELSE call[s]]
      /\ conf' = [s \in Starts |-> IF s \in new THEN profiles[ProfileOf[s]] ELSE conf[s]]
      /\ UNCHANGED <<profiles, canceled, phase, stopped>>
  BY DEF BeginStarts
<1>3. \A s \in Starts : s \in new => ProfileOf[s] \in begun /\ s = NextStart(ProfileOf[s])
  BY <1>1
<1>4. begun \subseteq ps /\ \A p \in begun : ~RuntimeLocked(p)
  OBVIOUS
<1> HIDE DEF begun, new
<1>5. \A s \in Starts : InTable(s)' = InTable(s)
  BY <1>2 DEF InTable
<1>6. \A s \in Starts : Active(s)' => s \in new \/ (Active(s) /\ s \notin new)
  BY <1>2, <1>5 DEF Active
<1>7. \A s \in Starts : Active(s) => ProfileOf[s] \in Profiles \ begun
  BY <1>4, ActiveLocks
<1>8. ActiveInv'
  <2>1. ASSUME NEW s \in new, s \in Starts
        PROVE  /\ pending'[ProfileOf[s]] = s /\ profiles'[ProfileOf[s]] = conf'[s]
               /\ status'[ProfileOf[s]] = "starting"
    BY <1>2, <1>3, <2>1
  <2>2. ASSUME NEW s \in Starts, s \notin new, Active(s)
        PROVE  /\ call'[s] \in {"dispatch", "adapter"} => pending'[ProfileOf[s]] = s
               /\ profiles'[ProfileOf[s]] = conf'[s]
               /\ InTable(s)' \/ status'[ProfileOf[s]] = "starting"
    BY <1>2, <1>5, <1>7, <2>2 DEF ActiveInv
  <2> QED
    BY <1>6, <2>1, <2>2 DEF ActiveInv
<1>9. ApartInv'
  <2>1. ASSUME NEW s \in Starts, s \in new, NEW t \in Starts, t \in new,
               conf'[s].bind = conf'[t].bind
        PROVE  ProfileOf[s] = ProfileOf[t]
    <3>1. /\ profiles[ProfileOf[s]].bind = profiles[ProfileOf[t]].bind
          /\ ProfileOf[s] \in ps /\ ProfileOf[t] \in ps
      BY <1>2, <1>3, <1>4, <2>1
    <3> QED
      BY <3>1 DEF DuplicateBind
  <2>2. ASSUME NEW s \in Starts, s \in new, NEW t \in Starts, t \notin new, Active(t),
               conf'[s].bind = conf'[t].bind
        PROVE  ProfileOf[s] = ProfileOf[t]
    <3>1. profiles[ProfileOf[s]].bind = conf[t].bind /\ ProfileOf[s] \in ps
      BY <1>2, <1>3, <1>4, <2>2
    <3> QED
      BY <2>2, <3>1
  <2>3. ASSUME NEW s \in Starts, s \notin new, Active(s), NEW t \in Starts, t \notin new, Active(t),
               conf'[s].bind = conf'[t].bind
        PROVE  ProfileOf[s] = ProfileOf[t]
    BY <1>2, <2>3 DEF ApartInv
  <2> QED
    BY <1>6, <2>1, <2>2, <2>3 DEF ApartInv
<1> QED
  BY <1>8, <1>9

LEMMA ConnectsApart ==
  ASSUME ServiceInv, ActiveInv, ApartInv, OneStart,
         (\E p \in Profiles : Connect(p)) \/ ConnectAll \/ AutoConnect
  PROVE  ActiveInv' /\ ApartInv'
<1>1. ASSUME NEW p \in Profiles, Connect(p) PROVE ActiveInv' /\ ApartInv'
  <2>1. /\ {p} \in SUBSET Profiles /\ (\A q \in {p} : Present(q)) /\ BeginStarts({p})
        /\ ~DuplicateBind({p})
    BY <1>1 DEF Connect, DuplicateBind
  <2>2. \A s \in Starts : Active(s) /\ ProfileOf[s] # p => conf[s].bind # profiles[p].bind
    <3>1. ~BindConflict(p)
      BY <1>1 DEF Connect
    <3> QED
      BY <3>1, ActiveLocks DEF BindConflict
  <2> QED
    BY <2>1, <2>2, BeginsApart
<1>2. CASE ConnectAll
  <2> DEFINE all == {p \in Profiles : Present(p)}
  <2>1. /\ all \in SUBSET Profiles /\ (\A q \in all : Present(q)) /\ BeginStarts(all)
        /\ ~DuplicateBind(all)
    BY <1>2 DEF ConnectAll
  <2>2. \A p \in all, s \in Starts :
          Active(s) /\ ProfileOf[s] # p => conf[s].bind # profiles[p].bind
    BY <2>1, ActiveLocks DEF DuplicateBind
  <2> QED
    BY <2>1, <2>2, BeginsApart
<1>3. CASE AutoConnect
  <2>1. PICK auto \in SUBSET {p \in Profiles : Present(p)} :
       \/ ~DuplicateBind(auto) /\ BeginStarts(auto)
       \/ UNCHANGED <<profiles, pending, canceled, goroutine, dispatcher, adapters, shutdown>>
    BY <1>3 DEF AutoConnect
  <2>2. \A s \in Starts : ~Active(s)
    <3>1. \A s \in Starts : call[s] = "none"
      BY <1>3 DEF AutoConnect
    <3> QED
      BY <3>1, ActiveLocks
  <2>3. CASE ~DuplicateBind(auto) /\ BeginStarts(auto)
    BY <2>2, <2>3, BeginsApart
  <2>4. CASE UNCHANGED <<profiles, pending, canceled, goroutine, dispatcher, adapters, shutdown>>
    <3>1. \A s \in Starts : Active(s)' = Active(s)
      BY <2>4 DEF Active, InTable
    <3> QED
      BY <2>2, <2>4, <3>1, ActiveFrame
  <2> QED
    BY <2>1, <2>3, <2>4
<1> QED
  BY <1>1, <1>2, <1>3

LEMMA ShutdownApart ==
  ASSUME ServiceInv, ActiveInv, ApartInv, Shutdown \/ UNCHANGED vars
  PROVE  ActiveInv' /\ ApartInv'
<1>1. /\ UNCHANGED <<profiles, status, pending, conf, call, phase>>
      /\ stopped \subseteq stopped' /\ canceled \cap Starts \subseteq canceled'
  BY DEF Shutdown, ShutdownCancel, ShutdownWireguard, ShutdownTailscale, ShutdownDone,
         ShutdownTimeout, ShutdownStep, vars
<1>2. \A s \in Starts : (InTable(s)' = InTable(s)) /\ (Active(s)' => Active(s))
  BY <1>1 DEF InTable, Active
<1> QED
  BY <1>1, <1>2, ActiveFrame

LEMMA NextApart ==
  ASSUME ServiceInv, HeardInv, ActiveInv, ApartInv, OneStart, [Next]_vars
  PROVE  ActiveInv' /\ ApartInv'
<1>1. CASE ServiceCall
  BY <1>1, ConnectsApart, DisconnectsApart, EditsApart DEF ServiceCall
<1>2. ASSUME NEW s \in Starts, Goroutine(s) \/ Check(s) \/ Abandon(s) \/ Leave(s) \/ Fault(s)
      PROVE  ActiveInv' /\ ApartInv'
  BY <1>2, InsideApart, ReturnedApart DEF Goroutine
<1> QED
  BY <1>1, <1>2, EventApart, ShutdownApart DEF Next

LEMMA InitApart == Init => HeardInv /\ ActiveInv /\ ApartInv
<1> SUFFICES ASSUME Init PROVE HeardInv /\ ActiveInv /\ ApartInv
  OBVIOUS
<1>1. HeardInv
  <2>1. bus = <<>> /\ \A k \in Kinds : chan[k] = <<>>
    BY DEF Init
  <2>2. <<>> \in Seq(Heard)
    OBVIOUS
  <2> QED
    BY <2>1, <2>2 DEF HeardInv
<1>2. \A s \in Starts : ~Active(s)
  BY DEF Init, Active, InTable
<1> QED
  BY <1>1, <1>2 DEF ActiveInv, ApartInv

(* For any profiles, addresses and channels: of profiles that are connected *)
(* once each no two with one SOCKS5 address are ever active together, since *)
(* what is active has locked its profile and is seen by                     *)
(* runningBindConflictLocked, or by duplicateBindError.                     *)
THEOREM OneListenerOnly ==
  ASSUME OneStart
  PROVE  Spec => []OneListener
<1>1. Init => ListenerInv
  BY InitServiceInv, InitApart DEF ListenerInv
<1>2. ListenerInv /\ [Next]_vars => ListenerInv'
  BY NextServiceInv, HeardKeeps, NextApart DEF ListenerInv
<1>3. ListenerInv => OneListener
  BY DEF ListenerInv, ApartInv, OneListener, Active
<1> QED
  BY <1>1, <1>2, <1>3, PTL DEF Spec

=============================================================================
