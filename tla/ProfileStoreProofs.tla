------------------------- MODULE ProfileStoreProofs -------------------------
(***************************************************************************)
(* What ProfileStore promises about the file of the profiles and the lock, *)
(* for any editors, daemons and profiles, any number of faults, edits and  *)
(* restarts, by the inductive invariant StoreInv.                          *)
(***************************************************************************)
EXTENDS ProfileStore, TLAPS

USE DEF Procs, Running, memory, ghosts, bounds, vars, TryLock, Release, Starts, Gone,
        TempAfterFailure, InPlace, BeginSave

LEMMA InitInv == ASSUME ProfileStoreAssumption, Init PROVE StoreInv
<1>1. TypeOK
  <2> QED
    BY DEF Init, TypeOK
<1> QED
  BY <1>1 DEF Init, StoreInv, SaveIsAt, DaemonOwns, CleanIsRead, Unreloaded,
              FreshIsStored, OneWriterLosesNothing, ProfileStoreAssumption

-----------------------------------------------------------------------------
(* Each action keeps the invariant: the types, where a save and the daemon  *)
(* stand, what memory was read from, and what is fresh and kept.            *)

LEMMA EditByHandKeeps ==
  ASSUME ProfileStoreAssumption, StoreInv, EditByHand
  PROVE  StoreInv'
<1>1. TypeOK'
  <2>1. (store \in (SUBSET Items) \cup {Broken})'
    BY DEF EditByHand
  <2>2. (temp \in [Procs -> {"none", "part", "whole", "left"}])'
    BY DEF StoreInv, TypeOK, EditByHand
  <2>3. (owner \in Procs \cup {None} /\ (owner # None => pc[owner] \notin {"off", "refused"}))'
    BY DEF StoreInv, TypeOK, EditByHand
  <2>4. (pc \in [Procs -> Running \cup {"off", "probed", "load", "stopping", "refused"}])'
    BY DEF StoreInv, TypeOK, EditByHand
  <2>5. (mem \in [Procs -> SUBSET Items] /\ next \in [Procs -> SUBSET Items])'
    BY DEF StoreInv, TypeOK, EditByHand
  <2>6. (unread \subseteq Procs /\ fresh \subseteq Procs)'
    BY DEF StoreInv, TypeOK, EditByHand
  <2>7. (read \in [Procs -> (SUBSET Items) \cup {None}])'
    BY DEF StoreInv, TypeOK, EditByHand
  <2>8. (clean \in BOOLEAN /\ kept \subseteq Items)'
    BY DEF StoreInv, TypeOK, EditByHand
  <2>9. ({faults, edits, starts, reloads} \subseteq Nat)'
    BY DEF StoreInv, TypeOK, EditByHand
  <2> QED
    BY <2>1, <2>2, <2>3, <2>4, <2>5, <2>6, <2>7, <2>8, <2>9 DEF TypeOK
<1>2. ASSUME NEW q \in Procs PROVE SaveIsAt(q)' /\ DaemonOwns(q)'
  BY DEF StoreInv, SaveIsAt, DaemonOwns, EditByHand
<1>3. CleanIsRead'
  BY DEF CleanIsRead, EditByHand
<1>4. Unreloaded'
  BY DEF StoreInv, Unreloaded, EditByHand
<1>5. reloads' = 0 => FreshIsStored'
  BY DEF FreshIsStored, EditByHand
<1>6. reloads' = 0 => OneWriterLosesNothing'
  BY DEF OneWriterLosesNothing, EditByHand
<1> QED
  BY <1>1, <1>2, <1>3, <1>4, <1>5, <1>6 DEF StoreInv

LEMMA ProbeKeeps ==
  ASSUME ProfileStoreAssumption, StoreInv, NEW p \in Procs, Probe(p)
  PROVE  StoreInv'
<1>1. TypeOK'
  <2>1. (store \in (SUBSET Items) \cup {Broken})'
    BY DEF StoreInv, TypeOK, Probe
  <2>2. (temp \in [Procs -> {"none", "part", "whole", "left"}])'
    BY DEF StoreInv, TypeOK, Probe
  <2>3. (owner \in Procs \cup {None} /\ (owner # None => pc[owner] \notin {"off", "refused"}))'
    BY DEF StoreInv, TypeOK, Probe
  <2>4. (pc \in [Procs -> Running \cup {"off", "probed", "load", "stopping", "refused"}])'
    BY DEF StoreInv, TypeOK, Probe
  <2>5. (mem \in [Procs -> SUBSET Items] /\ next \in [Procs -> SUBSET Items])'
    BY DEF StoreInv, TypeOK, Probe
  <2>6. (unread \subseteq Procs /\ fresh \subseteq Procs)'
    BY DEF StoreInv, TypeOK, Probe
  <2>7. (read \in [Procs -> (SUBSET Items) \cup {None}])'
    BY DEF StoreInv, TypeOK, Probe
  <2>8. (clean \in BOOLEAN /\ kept \subseteq Items)'
    BY DEF StoreInv, TypeOK, Probe
  <2>9. ({faults, edits, starts, reloads} \subseteq Nat)'
    BY DEF StoreInv, TypeOK, Probe
  <2> QED
    BY <2>1, <2>2, <2>3, <2>4, <2>5, <2>6, <2>7, <2>8, <2>9 DEF TypeOK
<1>2. ASSUME NEW q \in Procs PROVE SaveIsAt(q)' /\ DaemonOwns(q)'
  BY DEF ProfileStoreAssumption, StoreInv, TypeOK, SaveIsAt, DaemonOwns, Probe
<1>3. CleanIsRead'
  BY DEF StoreInv, CleanIsRead, Probe
<1>4. Unreloaded'
  BY DEF StoreInv, Unreloaded, Probe
<1>5. reloads' = 0 => FreshIsStored'
  BY DEF StoreInv, FreshIsStored, Probe
<1>6. reloads' = 0 => OneWriterLosesNothing'
  BY DEF StoreInv, OneWriterLosesNothing, Probe
<1> QED
  BY <1>1, <1>2, <1>3, <1>4, <1>5, <1>6 DEF StoreInv

LEMMA ProbeEndsKeeps ==
  ASSUME ProfileStoreAssumption, StoreInv, NEW p \in Procs, ProbeEnds(p)
  PROVE  StoreInv'
<1>1. TypeOK'
  <2>1. (store \in (SUBSET Items) \cup {Broken})'
    BY DEF StoreInv, TypeOK, ProbeEnds
  <2>2. (temp \in [Procs -> {"none", "part", "whole", "left"}])'
    BY DEF StoreInv, TypeOK, ProbeEnds
  <2>3. (owner \in Procs \cup {None} /\ (owner # None => pc[owner] \notin {"off", "refused"}))'
    BY DEF StoreInv, TypeOK, ProbeEnds
  <2>4. (pc \in [Procs -> Running \cup {"off", "probed", "load", "stopping", "refused"}])'
    BY DEF StoreInv, TypeOK, ProbeEnds
  <2>5. (mem \in [Procs -> SUBSET Items] /\ next \in [Procs -> SUBSET Items])'
    BY DEF StoreInv, TypeOK, ProbeEnds
  <2>6. (unread \subseteq Procs /\ fresh \subseteq Procs)'
    BY DEF StoreInv, TypeOK, ProbeEnds
  <2>7. (read \in [Procs -> (SUBSET Items) \cup {None}])'
    BY DEF StoreInv, TypeOK, ProbeEnds
  <2>8. (clean \in BOOLEAN /\ kept \subseteq Items)'
    BY DEF StoreInv, TypeOK, ProbeEnds
  <2>9. ({faults, edits, starts, reloads} \subseteq Nat)'
    BY DEF StoreInv, TypeOK, ProbeEnds
  <2> QED
    BY <2>1, <2>2, <2>3, <2>4, <2>5, <2>6, <2>7, <2>8, <2>9 DEF TypeOK
<1>2. ASSUME NEW q \in Procs PROVE SaveIsAt(q)' /\ DaemonOwns(q)'
  BY DEF StoreInv, SaveIsAt, DaemonOwns, ProbeEnds
<1>3. CleanIsRead'
  BY DEF StoreInv, CleanIsRead, ProbeEnds
<1>4. Unreloaded'
  BY DEF StoreInv, Unreloaded, ProbeEnds
<1>5. reloads' = 0 => FreshIsStored'
  BY DEF StoreInv, FreshIsStored, ProbeEnds
<1>6. reloads' = 0 => OneWriterLosesNothing'
  BY DEF StoreInv, OneWriterLosesNothing, ProbeEnds
<1> QED
  BY <1>1, <1>2, <1>3, <1>4, <1>5, <1>6 DEF StoreInv

LEMMA StartDaemonKeeps ==
  ASSUME ProfileStoreAssumption, StoreInv, NEW p \in Procs, StartDaemon(p)
  PROVE  StoreInv'
<1>1. TypeOK'
  <2>1. (store \in (SUBSET Items) \cup {Broken})'
    BY DEF StoreInv, TypeOK, StartDaemon
  <2>2. (temp \in [Procs -> {"none", "part", "whole", "left"}])'
    BY DEF StoreInv, TypeOK, StartDaemon
  <2>3. (owner \in Procs \cup {None} /\ (owner # None => pc[owner] \notin {"off", "refused"}))'
    BY DEF StoreInv, TypeOK, StartDaemon
  <2>4. (pc \in [Procs -> Running \cup {"off", "probed", "load", "stopping", "refused"}])'
    BY DEF StoreInv, TypeOK, StartDaemon
  <2>5. (mem \in [Procs -> SUBSET Items] /\ next \in [Procs -> SUBSET Items])'
    BY DEF StoreInv, TypeOK, StartDaemon
  <2>6. (unread \subseteq Procs /\ fresh \subseteq Procs)'
    BY DEF StoreInv, TypeOK, StartDaemon
  <2>7. (read \in [Procs -> (SUBSET Items) \cup {None}])'
    BY DEF StoreInv, TypeOK, StartDaemon
  <2>8. (clean \in BOOLEAN /\ kept \subseteq Items)'
    BY DEF StoreInv, TypeOK, StartDaemon
  <2>9. ({faults, edits, starts, reloads} \subseteq Nat)'
    BY DEF StoreInv, TypeOK, StartDaemon
  <2> QED
    BY <2>1, <2>2, <2>3, <2>4, <2>5, <2>6, <2>7, <2>8, <2>9 DEF TypeOK
<1>2. ASSUME NEW q \in Procs PROVE SaveIsAt(q)' /\ DaemonOwns(q)'
  BY DEF ProfileStoreAssumption, StoreInv, TypeOK, SaveIsAt, DaemonOwns, StartDaemon
<1>3. CleanIsRead'
  BY DEF StoreInv, CleanIsRead, StartDaemon
<1>4. Unreloaded'
  BY DEF StoreInv, Unreloaded, StartDaemon
<1>5. reloads' = 0 => FreshIsStored'
  BY DEF StoreInv, FreshIsStored, StartDaemon
<1>6. reloads' = 0 => OneWriterLosesNothing'
  BY DEF StoreInv, OneWriterLosesNothing, StartDaemon
<1> QED
  BY <1>1, <1>2, <1>3, <1>4, <1>5, <1>6 DEF StoreInv

LEMMA RefusedKeeps ==
  ASSUME ProfileStoreAssumption, StoreInv, NEW p \in Procs, Refused(p)
  PROVE  StoreInv'
<1>1. TypeOK'
  <2>1. (store \in (SUBSET Items) \cup {Broken})'
    BY DEF StoreInv, TypeOK, Refused
  <2>2. (temp \in [Procs -> {"none", "part", "whole", "left"}])'
    BY DEF StoreInv, TypeOK, Refused
  <2>3. (owner \in Procs \cup {None} /\ (owner # None => pc[owner] \notin {"off", "refused"}))'
    BY DEF StoreInv, TypeOK, Refused
  <2>4. (pc \in [Procs -> Running \cup {"off", "probed", "load", "stopping", "refused"}])'
    BY DEF StoreInv, TypeOK, Refused
  <2>5. (mem \in [Procs -> SUBSET Items] /\ next \in [Procs -> SUBSET Items])'
    BY DEF StoreInv, TypeOK, Refused
  <2>6. (unread \subseteq Procs /\ fresh \subseteq Procs)'
    BY DEF StoreInv, TypeOK, Refused
  <2>7. (read \in [Procs -> (SUBSET Items) \cup {None}])'
    BY DEF StoreInv, TypeOK, Refused
  <2>8. (clean \in BOOLEAN /\ kept \subseteq Items)'
    BY DEF StoreInv, TypeOK, Refused
  <2>9. ({faults, edits, starts, reloads} \subseteq Nat)'
    BY DEF StoreInv, TypeOK, Refused
  <2> QED
    BY <2>1, <2>2, <2>3, <2>4, <2>5, <2>6, <2>7, <2>8, <2>9 DEF TypeOK
<1>2. ASSUME NEW q \in Procs PROVE SaveIsAt(q)' /\ DaemonOwns(q)'
  BY DEF StoreInv, SaveIsAt, DaemonOwns, Refused
<1>3. CleanIsRead'
  BY DEF StoreInv, CleanIsRead, Refused
<1>4. Unreloaded'
  BY DEF StoreInv, Unreloaded, Refused
<1>5. reloads' = 0 => FreshIsStored'
  BY DEF StoreInv, FreshIsStored, Refused
<1>6. reloads' = 0 => OneWriterLosesNothing'
  BY DEF StoreInv, OneWriterLosesNothing, Refused
<1> QED
  BY <1>1, <1>2, <1>3, <1>4, <1>5, <1>6 DEF StoreInv

LEMMA LoadAtStartKeeps ==
  ASSUME ProfileStoreAssumption, StoreInv, NEW p \in Procs, LoadAtStart(p)
  PROVE  StoreInv'
<1>1. TypeOK'
  <2>1. (store \in (SUBSET Items) \cup {Broken})'
    BY DEF StoreInv, TypeOK, LoadAtStart
  <2>2. (temp \in [Procs -> {"none", "part", "whole", "left"}])'
    BY DEF StoreInv, TypeOK, LoadAtStart
  <2>3. (owner \in Procs \cup {None} /\ (owner # None => pc[owner] \notin {"off", "refused"}))'
    BY DEF StoreInv, TypeOK, LoadAtStart
  <2>4. (pc \in [Procs -> Running \cup {"off", "probed", "load", "stopping", "refused"}])'
    BY DEF StoreInv, TypeOK, LoadAtStart
  <2>5. (mem \in [Procs -> SUBSET Items] /\ next \in [Procs -> SUBSET Items])'
    <3>1. PICK v : v = IF store = Broken THEN {} ELSE store
      OBVIOUS
    <3>2. v \in SUBSET Items
      BY <3>1 DEF StoreInv, TypeOK
    <3>3. mem \in [Procs -> SUBSET Items] /\ next \in [Procs -> SUBSET Items]
      BY DEF StoreInv, TypeOK
    <3>4. [mem EXCEPT ![p] = v] \in [Procs -> SUBSET Items]
      BY <3>2, <3>3
    <3>5. mem' = [mem EXCEPT ![p] = v] /\ next' = next
      BY <3>1 DEF LoadAtStart
    <3> QED
      BY <3>3, <3>4, <3>5
  <2>6. (unread \subseteq Procs /\ fresh \subseteq Procs)'
    BY DEF StoreInv, TypeOK, LoadAtStart
  <2>7. (read \in [Procs -> (SUBSET Items) \cup {None}])'
    BY DEF StoreInv, TypeOK, LoadAtStart
  <2>8. (clean \in BOOLEAN /\ kept \subseteq Items)'
    BY DEF StoreInv, TypeOK, LoadAtStart
  <2>9. ({faults, edits, starts, reloads} \subseteq Nat)'
    BY DEF StoreInv, TypeOK, LoadAtStart
  <2> QED
    BY <2>1, <2>2, <2>3, <2>4, <2>5, <2>6, <2>7, <2>8, <2>9 DEF TypeOK
<1>2. ASSUME NEW q \in Procs PROVE SaveIsAt(q)' /\ DaemonOwns(q)'
  BY DEF StoreInv, SaveIsAt, DaemonOwns, LoadAtStart
<1>3. CleanIsRead'
  BY DEF StoreInv, CleanIsRead, LoadAtStart
<1>4. Unreloaded'
  BY DEF StoreInv, Unreloaded, LoadAtStart
<1>5. reloads' = 0 => FreshIsStored'
  BY DEF StoreInv, TypeOK, FreshIsStored, LoadAtStart
<1>6. reloads' = 0 => OneWriterLosesNothing'
  BY DEF StoreInv, OneWriterLosesNothing, LoadAtStart
<1> QED
  BY <1>1, <1>2, <1>3, <1>4, <1>5, <1>6 DEF StoreInv

LEMMA BeginReloadKeeps ==
  ASSUME ProfileStoreAssumption, StoreInv, NEW p \in Procs, BeginReload(p)
  PROVE  StoreInv'
<1>1. TypeOK'
  <2>1. (store \in (SUBSET Items) \cup {Broken})'
    BY DEF StoreInv, TypeOK, BeginReload
  <2>2. (temp \in [Procs -> {"none", "part", "whole", "left"}])'
    BY DEF StoreInv, TypeOK, BeginReload
  <2>3. (owner \in Procs \cup {None} /\ (owner # None => pc[owner] \notin {"off", "refused"}))'
    BY DEF StoreInv, TypeOK, BeginReload
  <2>4. (pc \in [Procs -> Running \cup {"off", "probed", "load", "stopping", "refused"}])'
    BY DEF StoreInv, TypeOK, BeginReload
  <2>5. (mem \in [Procs -> SUBSET Items] /\ next \in [Procs -> SUBSET Items])'
    BY DEF StoreInv, TypeOK, BeginReload
  <2>6. (unread \subseteq Procs /\ fresh \subseteq Procs)'
    BY DEF StoreInv, TypeOK, BeginReload
  <2>7. (read \in [Procs -> (SUBSET Items) \cup {None}])'
    <3> DEFINE S == (SUBSET Items) \cup {None}
    <3>1. PICK v : v = store
      OBVIOUS
    <3>2. v \in S
      BY <3>1 DEF StoreInv, TypeOK, BeginReload
    <3>3. read \in [Procs -> S]
      BY DEF StoreInv, TypeOK
    <3>4. read' = [read EXCEPT ![p] = v]
      BY <3>1 DEF BeginReload
    <3> HIDE DEF S
    <3>5. read' \in [Procs -> S]
      BY <3>2, <3>3, <3>4
    <3> QED
      BY <3>5 DEF S
  <2>8. (clean \in BOOLEAN /\ kept \subseteq Items)'
    BY DEF StoreInv, TypeOK, BeginReload
  <2>9. ({faults, edits, starts, reloads} \subseteq Nat)'
    BY DEF StoreInv, TypeOK, BeginReload
  <2> QED
    BY <2>1, <2>2, <2>3, <2>4, <2>5, <2>6, <2>7, <2>8, <2>9 DEF TypeOK
<1>2. ASSUME NEW q \in Procs PROVE SaveIsAt(q)' /\ DaemonOwns(q)'
  BY DEF StoreInv, SaveIsAt, DaemonOwns, BeginReload
<1>3. CleanIsRead'
  BY DEF StoreInv, CleanIsRead, BeginReload
<1>4. Unreloaded'
  BY DEF StoreInv, TypeOK, Unreloaded, BeginReload
<1>5. reloads' = 0 => FreshIsStored'
  BY DEF StoreInv, TypeOK, BeginReload
<1>6. reloads' = 0 => OneWriterLosesNothing'
  BY DEF StoreInv, TypeOK, BeginReload
<1> QED
  BY <1>1, <1>2, <1>3, <1>4, <1>5, <1>6 DEF StoreInv

LEMMA EndReloadKeeps ==
  ASSUME ProfileStoreAssumption, StoreInv, NEW p \in Procs, EndReload(p)
  PROVE  StoreInv'
<1>1. TypeOK'
  <2>1. (store \in (SUBSET Items) \cup {Broken})'
    BY DEF StoreInv, TypeOK, EndReload
  <2>2. (temp \in [Procs -> {"none", "part", "whole", "left"}])'
    BY DEF StoreInv, TypeOK, EndReload
  <2>3. (owner \in Procs \cup {None} /\ (owner # None => pc[owner] \notin {"off", "refused"}))'
    BY DEF StoreInv, TypeOK, EndReload
  <2>4. (pc \in [Procs -> Running \cup {"off", "probed", "load", "stopping", "refused"}])'
    BY DEF StoreInv, TypeOK, EndReload
  <2>5. (mem \in [Procs -> SUBSET Items] /\ next \in [Procs -> SUBSET Items])'
    <3>1. PICK v : v = read[p]
      OBVIOUS
    <3>2. v \in SUBSET Items
      BY <3>1 DEF StoreInv, TypeOK, EndReload
    <3>3. mem \in [Procs -> SUBSET Items] /\ next \in [Procs -> SUBSET Items]
      BY DEF StoreInv, TypeOK
    <3>4. [mem EXCEPT ![p] = v] \in [Procs -> SUBSET Items]
      BY <3>2, <3>3
    <3>5. mem' = [mem EXCEPT ![p] = v] /\ next' = next
      BY <3>1 DEF EndReload
    <3> QED
      BY <3>3, <3>4, <3>5
  <2>6. (unread \subseteq Procs /\ fresh \subseteq Procs)'
    BY DEF StoreInv, TypeOK, EndReload
  <2>7. (read \in [Procs -> (SUBSET Items) \cup {None}])'
    <3> DEFINE S == (SUBSET Items) \cup {None}
    <3>1. PICK v : v = None
      OBVIOUS
    <3>2. v \in S
      BY <3>1
    <3>3. read \in [Procs -> S]
      BY DEF StoreInv, TypeOK
    <3>4. read' = [read EXCEPT ![p] = v]
      BY <3>1 DEF EndReload
    <3> HIDE DEF S
    <3>5. read' \in [Procs -> S]
      BY <3>2, <3>3, <3>4
    <3> QED
      BY <3>5 DEF S
  <2>8. (clean \in BOOLEAN /\ kept \subseteq Items)'
    BY DEF StoreInv, TypeOK, EndReload
  <2>9. ({faults, edits, starts, reloads} \subseteq Nat)'
    BY DEF StoreInv, TypeOK, EndReload
  <2> QED
    BY <2>1, <2>2, <2>3, <2>4, <2>5, <2>6, <2>7, <2>8, <2>9 DEF TypeOK
<1>2. ASSUME NEW q \in Procs PROVE SaveIsAt(q)' /\ DaemonOwns(q)'
  BY DEF StoreInv, SaveIsAt, DaemonOwns, EndReload
<1>3. CleanIsRead'
  BY DEF StoreInv, CleanIsRead, EndReload
<1>4. Unreloaded'
  BY DEF StoreInv, Unreloaded, EndReload
<1>5. reloads' = 0 => FreshIsStored'
  BY DEF StoreInv, Unreloaded, EndReload
<1>6. reloads' = 0 => OneWriterLosesNothing'
  BY DEF StoreInv, Unreloaded, EndReload
<1> QED
  BY <1>1, <1>2, <1>3, <1>4, <1>5, <1>6 DEF StoreInv

LEMMA AddKeeps ==
  ASSUME ProfileStoreAssumption, StoreInv, NEW p \in Procs, Add(p)
  PROVE  StoreInv'
<1>1. TypeOK'
  <2>1. (store \in (SUBSET Items) \cup {Broken})'
    BY DEF StoreInv, TypeOK, Add
  <2>2. (temp \in [Procs -> {"none", "part", "whole", "left"}])'
    BY DEF StoreInv, TypeOK, Add
  <2>3. (owner \in Procs \cup {None} /\ (owner # None => pc[owner] \notin {"off", "refused"}))'
    BY DEF StoreInv, TypeOK, Add
  <2>4. (pc \in [Procs -> Running \cup {"off", "probed", "load", "stopping", "refused"}])'
    BY DEF StoreInv, TypeOK, Add
  <2>5. (mem \in [Procs -> SUBSET Items] /\ next \in [Procs -> SUBSET Items])'
    BY DEF StoreInv, TypeOK, Add
  <2>6. (unread \subseteq Procs /\ fresh \subseteq Procs)'
    BY DEF StoreInv, TypeOK, Add
  <2>7. (read \in [Procs -> (SUBSET Items) \cup {None}])'
    BY DEF StoreInv, TypeOK, Add
  <2>8. (clean \in BOOLEAN /\ kept \subseteq Items)'
    BY DEF StoreInv, TypeOK, Add
  <2>9. ({faults, edits, starts, reloads} \subseteq Nat)'
    BY DEF StoreInv, TypeOK, Add
  <2> QED
    BY <2>1, <2>2, <2>3, <2>4, <2>5, <2>6, <2>7, <2>8, <2>9 DEF TypeOK
<1>2. ASSUME NEW q \in Procs PROVE SaveIsAt(q)' /\ DaemonOwns(q)'
  BY DEF StoreInv, TypeOK, SaveIsAt, DaemonOwns, Add
<1>3. CleanIsRead'
  BY DEF StoreInv, CleanIsRead, Add
<1>4. Unreloaded'
  BY DEF StoreInv, Unreloaded, Add
<1>5. reloads' = 0 => FreshIsStored'
  BY DEF StoreInv, FreshIsStored, Add
<1>6. reloads' = 0 => OneWriterLosesNothing'
  BY DEF StoreInv, OneWriterLosesNothing, Add
<1> QED
  BY <1>1, <1>2, <1>3, <1>4, <1>5, <1>6 DEF StoreInv

LEMMA DeleteKeeps ==
  ASSUME ProfileStoreAssumption, StoreInv, NEW p \in Procs, Delete(p)
  PROVE  StoreInv'
<1>1. TypeOK'
  <2>1. (store \in (SUBSET Items) \cup {Broken})'
    BY DEF StoreInv, TypeOK, Delete
  <2>2. (temp \in [Procs -> {"none", "part", "whole", "left"}])'
    BY DEF StoreInv, TypeOK, Delete
  <2>3. (owner \in Procs \cup {None} /\ (owner # None => pc[owner] \notin {"off", "refused"}))'
    BY DEF StoreInv, TypeOK, Delete
  <2>4. (pc \in [Procs -> Running \cup {"off", "probed", "load", "stopping", "refused"}])'
    BY DEF StoreInv, TypeOK, Delete
  <2>5. (mem \in [Procs -> SUBSET Items] /\ next \in [Procs -> SUBSET Items])'
    BY DEF StoreInv, TypeOK, Delete
  <2>6. (unread \subseteq Procs /\ fresh \subseteq Procs)'
    BY DEF StoreInv, TypeOK, Delete
  <2>7. (read \in [Procs -> (SUBSET Items) \cup {None}])'
    BY DEF StoreInv, TypeOK, Delete
  <2>8. (clean \in BOOLEAN /\ kept \subseteq Items)'
    BY DEF StoreInv, TypeOK, Delete
  <2>9. ({faults, edits, starts, reloads} \subseteq Nat)'
    BY DEF StoreInv, TypeOK, Delete
  <2> QED
    BY <2>1, <2>2, <2>3, <2>4, <2>5, <2>6, <2>7, <2>8, <2>9 DEF TypeOK
<1>2. ASSUME NEW q \in Procs PROVE SaveIsAt(q)' /\ DaemonOwns(q)'
  BY DEF StoreInv, TypeOK, SaveIsAt, DaemonOwns, Delete
<1>3. CleanIsRead'
  BY DEF StoreInv, CleanIsRead, Delete
<1>4. Unreloaded'
  BY DEF StoreInv, Unreloaded, Delete
<1>5. reloads' = 0 => FreshIsStored'
  BY DEF StoreInv, FreshIsStored, Delete
<1>6. reloads' = 0 => OneWriterLosesNothing'
  BY DEF StoreInv, OneWriterLosesNothing, Delete
<1> QED
  BY <1>1, <1>2, <1>3, <1>4, <1>5, <1>6 DEF StoreInv

LEMMA MarkAuthenticatedKeeps ==
  ASSUME ProfileStoreAssumption, StoreInv, NEW p \in Procs, MarkAuthenticated(p)
  PROVE  StoreInv'
<1>1. TypeOK'
  <2>1. (store \in (SUBSET Items) \cup {Broken})'
    BY DEF StoreInv, TypeOK, MarkAuthenticated
  <2>2. (temp \in [Procs -> {"none", "part", "whole", "left"}])'
    BY DEF StoreInv, TypeOK, MarkAuthenticated
  <2>3. (owner \in Procs \cup {None} /\ (owner # None => pc[owner] \notin {"off", "refused"}))'
    BY DEF StoreInv, TypeOK, MarkAuthenticated
  <2>4. (pc \in [Procs -> Running \cup {"off", "probed", "load", "stopping", "refused"}])'
    BY DEF StoreInv, TypeOK, MarkAuthenticated
  <2>5. (mem \in [Procs -> SUBSET Items] /\ next \in [Procs -> SUBSET Items])'
    BY DEF StoreInv, TypeOK, MarkAuthenticated
  <2>6. (unread \subseteq Procs /\ fresh \subseteq Procs)'
    BY DEF StoreInv, TypeOK, MarkAuthenticated
  <2>7. (read \in [Procs -> (SUBSET Items) \cup {None}])'
    BY DEF StoreInv, TypeOK, MarkAuthenticated
  <2>8. (clean \in BOOLEAN /\ kept \subseteq Items)'
    BY DEF StoreInv, TypeOK, MarkAuthenticated
  <2>9. ({faults, edits, starts, reloads} \subseteq Nat)'
    BY DEF StoreInv, TypeOK, MarkAuthenticated
  <2> QED
    BY <2>1, <2>2, <2>3, <2>4, <2>5, <2>6, <2>7, <2>8, <2>9 DEF TypeOK
<1>2. ASSUME NEW q \in Procs PROVE SaveIsAt(q)' /\ DaemonOwns(q)'
  BY DEF StoreInv, TypeOK, SaveIsAt, DaemonOwns, MarkAuthenticated
<1>3. CleanIsRead'
  BY DEF StoreInv, CleanIsRead, MarkAuthenticated
<1>4. Unreloaded'
  BY DEF StoreInv, Unreloaded, MarkAuthenticated
<1>5. reloads' = 0 => FreshIsStored'
  BY DEF StoreInv, FreshIsStored, MarkAuthenticated
<1>6. reloads' = 0 => OneWriterLosesNothing'
  BY DEF StoreInv, OneWriterLosesNothing, MarkAuthenticated
<1> QED
  BY <1>1, <1>2, <1>3, <1>4, <1>5, <1>6 DEF StoreInv

LEMMA WriteTempKeeps ==
  ASSUME ProfileStoreAssumption, StoreInv, NEW p \in Procs, WriteTemp(p)
  PROVE  StoreInv'
<1>1. TypeOK'
  <2>1. (store \in (SUBSET Items) \cup {Broken})'
    BY DEF StoreInv, TypeOK, WriteTemp
  <2>2. (temp \in [Procs -> {"none", "part", "whole", "left"}])'
    BY DEF StoreInv, TypeOK, WriteTemp
  <2>3. (owner \in Procs \cup {None} /\ (owner # None => pc[owner] \notin {"off", "refused"}))'
    BY DEF StoreInv, TypeOK, WriteTemp
  <2>4. (pc \in [Procs -> Running \cup {"off", "probed", "load", "stopping", "refused"}])'
    BY DEF StoreInv, TypeOK, WriteTemp
  <2>5. (mem \in [Procs -> SUBSET Items] /\ next \in [Procs -> SUBSET Items])'
    BY DEF StoreInv, TypeOK, WriteTemp
  <2>6. (unread \subseteq Procs /\ fresh \subseteq Procs)'
    BY DEF StoreInv, TypeOK, WriteTemp
  <2>7. (read \in [Procs -> (SUBSET Items) \cup {None}])'
    BY DEF StoreInv, TypeOK, WriteTemp
  <2>8. (clean \in BOOLEAN /\ kept \subseteq Items)'
    BY DEF StoreInv, TypeOK, WriteTemp
  <2>9. ({faults, edits, starts, reloads} \subseteq Nat)'
    BY DEF StoreInv, TypeOK, WriteTemp
  <2> QED
    BY <2>1, <2>2, <2>3, <2>4, <2>5, <2>6, <2>7, <2>8, <2>9 DEF TypeOK
<1>2. ASSUME NEW q \in Procs PROVE SaveIsAt(q)' /\ DaemonOwns(q)'
  BY DEF StoreInv, TypeOK, SaveIsAt, DaemonOwns, WriteTemp
<1>3. CleanIsRead'
  BY DEF StoreInv, CleanIsRead, WriteTemp
<1>4. Unreloaded'
  BY DEF StoreInv, Unreloaded, WriteTemp
<1>5. reloads' = 0 => FreshIsStored'
  BY DEF StoreInv, FreshIsStored, WriteTemp
<1>6. reloads' = 0 => OneWriterLosesNothing'
  BY DEF StoreInv, OneWriterLosesNothing, WriteTemp
<1> QED
  BY <1>1, <1>2, <1>3, <1>4, <1>5, <1>6 DEF StoreInv

LEMMA RenameKeeps ==
  ASSUME ProfileStoreAssumption, StoreInv, NEW p \in Procs, Rename(p)
  PROVE  StoreInv'
<1>1. TypeOK'
  <2>1. (store \in (SUBSET Items) \cup {Broken})'
    BY DEF StoreInv, TypeOK, Rename
  <2>2. (temp \in [Procs -> {"none", "part", "whole", "left"}])'
    BY DEF StoreInv, TypeOK, Rename
  <2>3. (owner \in Procs \cup {None} /\ (owner # None => pc[owner] \notin {"off", "refused"}))'
    BY DEF StoreInv, TypeOK, Rename
  <2>4. (pc \in [Procs -> Running \cup {"off", "probed", "load", "stopping", "refused"}])'
    BY DEF StoreInv, TypeOK, Rename
  <2>5. (mem \in [Procs -> SUBSET Items] /\ next \in [Procs -> SUBSET Items])'
    BY DEF StoreInv, TypeOK, Rename
  <2>6. (unread \subseteq Procs /\ fresh \subseteq Procs)'
    BY DEF StoreInv, TypeOK, Rename
  <2>7. (read \in [Procs -> (SUBSET Items) \cup {None}])'
    BY DEF StoreInv, TypeOK, Rename
  <2>8. (clean \in BOOLEAN /\ kept \subseteq Items)'
    BY DEF StoreInv, TypeOK, Rename
  <2>9. ({faults, edits, starts, reloads} \subseteq Nat)'
    BY DEF StoreInv, TypeOK, Rename
  <2> QED
    BY <2>1, <2>2, <2>3, <2>4, <2>5, <2>6, <2>7, <2>8, <2>9 DEF TypeOK
<1>2. ASSUME NEW q \in Procs PROVE SaveIsAt(q)' /\ DaemonOwns(q)'
  BY DEF StoreInv, TypeOK, SaveIsAt, DaemonOwns, Rename
<1>3. CleanIsRead'
  BY DEF ProfileStoreAssumption, StoreInv, TypeOK, SaveIsAt, CleanIsRead, Rename
<1>4. Unreloaded'
  BY DEF StoreInv, Unreloaded, Rename
<1>5. reloads' = 0 => FreshIsStored'
  BY DEF StoreInv, TypeOK, SaveIsAt, FreshIsStored, Rename
<1>6. reloads' = 0 => OneWriterLosesNothing'
  <2> SUFFICES ASSUME reloads' = 0, clean' PROVE store' = kept'
    BY DEF OneWriterLosesNothing
  <2>1. clean /\ p \in fresh /\ reloads = 0
    BY DEF Rename
  <2>2. store = kept /\ mem[p] = store
    BY <2>1 DEF StoreInv, Unreloaded, CleanIsRead, FreshIsStored, OneWriterLosesNothing
  <2>3. store' = next[p]
    BY DEF StoreInv, SaveIsAt, Rename
  <2>4. kept' = (kept \cup (next[p] \ mem[p])) \ (mem[p] \ next[p])
    BY DEF Rename
  <2>5. kept' = next[p]
    BY <2>2, <2>4
  <2> QED
    BY <2>3, <2>5
<1> QED
  BY <1>1, <1>2, <1>3, <1>4, <1>5, <1>6 DEF StoreInv

LEMMA SaveFailsKeeps ==
  ASSUME ProfileStoreAssumption, StoreInv, NEW p \in Procs, SaveFails(p)
  PROVE  StoreInv'
<1>1. TypeOK'
  <2>1. (store \in (SUBSET Items) \cup {Broken})'
    BY DEF StoreInv, TypeOK, SaveFails
  <2>2. (temp \in [Procs -> {"none", "part", "whole", "left"}])'
    BY DEF StoreInv, TypeOK, SaveFails
  <2>3. (owner \in Procs \cup {None} /\ (owner # None => pc[owner] \notin {"off", "refused"}))'
    BY DEF StoreInv, TypeOK, SaveFails
  <2>4. (pc \in [Procs -> Running \cup {"off", "probed", "load", "stopping", "refused"}])'
    BY DEF StoreInv, TypeOK, SaveFails
  <2>5. (mem \in [Procs -> SUBSET Items] /\ next \in [Procs -> SUBSET Items])'
    BY DEF StoreInv, TypeOK, SaveFails
  <2>6. (unread \subseteq Procs /\ fresh \subseteq Procs)'
    BY DEF StoreInv, TypeOK, SaveFails
  <2>7. (read \in [Procs -> (SUBSET Items) \cup {None}])'
    BY DEF StoreInv, TypeOK, SaveFails
  <2>8. (clean \in BOOLEAN /\ kept \subseteq Items)'
    BY DEF StoreInv, TypeOK, SaveFails
  <2>9. ({faults, edits, starts, reloads} \subseteq Nat)'
    BY DEF StoreInv, TypeOK, SaveFails
  <2> QED
    BY <2>1, <2>2, <2>3, <2>4, <2>5, <2>6, <2>7, <2>8, <2>9 DEF TypeOK
<1>2. ASSUME NEW q \in Procs PROVE SaveIsAt(q)' /\ DaemonOwns(q)'
  BY DEF StoreInv, TypeOK, SaveIsAt, DaemonOwns, SaveFails
<1>3. CleanIsRead'
  BY DEF StoreInv, CleanIsRead, SaveFails
<1>4. Unreloaded'
  BY DEF StoreInv, Unreloaded, SaveFails
<1>5. reloads' = 0 => FreshIsStored'
  BY DEF StoreInv, FreshIsStored, SaveFails
<1>6. reloads' = 0 => OneWriterLosesNothing'
  BY DEF StoreInv, OneWriterLosesNothing, SaveFails
<1> QED
  BY <1>1, <1>2, <1>3, <1>4, <1>5, <1>6 DEF StoreInv

LEMMA BeginStopKeeps ==
  ASSUME ProfileStoreAssumption, StoreInv, NEW p \in Procs, BeginStop(p)
  PROVE  StoreInv'
<1>1. TypeOK'
  <2>1. (store \in (SUBSET Items) \cup {Broken})'
    BY DEF StoreInv, TypeOK, BeginStop
  <2>2. (temp \in [Procs -> {"none", "part", "whole", "left"}])'
    BY DEF StoreInv, TypeOK, BeginStop
  <2>3. (owner \in Procs \cup {None} /\ (owner # None => pc[owner] \notin {"off", "refused"}))'
    BY DEF StoreInv, TypeOK, BeginStop
  <2>4. (pc \in [Procs -> Running \cup {"off", "probed", "load", "stopping", "refused"}])'
    BY DEF StoreInv, TypeOK, BeginStop
  <2>5. (mem \in [Procs -> SUBSET Items] /\ next \in [Procs -> SUBSET Items])'
    BY DEF StoreInv, TypeOK, BeginStop
  <2>6. (unread \subseteq Procs /\ fresh \subseteq Procs)'
    BY DEF StoreInv, TypeOK, BeginStop
  <2>7. (read \in [Procs -> (SUBSET Items) \cup {None}])'
    BY DEF StoreInv, TypeOK, BeginStop
  <2>8. (clean \in BOOLEAN /\ kept \subseteq Items)'
    BY DEF StoreInv, TypeOK, BeginStop
  <2>9. ({faults, edits, starts, reloads} \subseteq Nat)'
    BY DEF StoreInv, TypeOK, BeginStop
  <2> QED
    BY <2>1, <2>2, <2>3, <2>4, <2>5, <2>6, <2>7, <2>8, <2>9 DEF TypeOK
<1>2. ASSUME NEW q \in Procs PROVE SaveIsAt(q)' /\ DaemonOwns(q)'
  BY DEF StoreInv, SaveIsAt, DaemonOwns, BeginStop
<1>3. CleanIsRead'
  BY DEF StoreInv, CleanIsRead, BeginStop
<1>4. Unreloaded'
  BY DEF StoreInv, Unreloaded, BeginStop
<1>5. reloads' = 0 => FreshIsStored'
  BY DEF StoreInv, FreshIsStored, BeginStop
<1>6. reloads' = 0 => OneWriterLosesNothing'
  BY DEF StoreInv, OneWriterLosesNothing, BeginStop
<1> QED
  BY <1>1, <1>2, <1>3, <1>4, <1>5, <1>6 DEF StoreInv

LEMMA ExitKeeps ==
  ASSUME ProfileStoreAssumption, StoreInv, NEW p \in Procs, Exit(p)
  PROVE  StoreInv'
<1>1. TypeOK'
  <2>1. (store \in (SUBSET Items) \cup {Broken})'
    BY DEF StoreInv, TypeOK, Exit
  <2>2. (temp \in [Procs -> {"none", "part", "whole", "left"}])'
    BY DEF StoreInv, TypeOK, Exit
  <2>3. (owner \in Procs \cup {None} /\ (owner # None => pc[owner] \notin {"off", "refused"}))'
    BY DEF StoreInv, TypeOK, Exit
  <2>4. (pc \in [Procs -> Running \cup {"off", "probed", "load", "stopping", "refused"}])'
    BY DEF StoreInv, TypeOK, Exit
  <2>5. (mem \in [Procs -> SUBSET Items] /\ next \in [Procs -> SUBSET Items])'
    BY DEF StoreInv, TypeOK, Exit
  <2>6. (unread \subseteq Procs /\ fresh \subseteq Procs)'
    BY DEF StoreInv, TypeOK, Exit
  <2>7. (read \in [Procs -> (SUBSET Items) \cup {None}])'
    <3> DEFINE S == (SUBSET Items) \cup {None}
    <3>1. PICK v : v = None
      OBVIOUS
    <3>2. v \in S
      BY <3>1
    <3>3. read \in [Procs -> S]
      BY DEF StoreInv, TypeOK
    <3>4. read' = [read EXCEPT ![p] = v]
      BY <3>1 DEF Exit
    <3> HIDE DEF S
    <3>5. read' \in [Procs -> S]
      BY <3>2, <3>3, <3>4
    <3> QED
      BY <3>5 DEF S
  <2>8. (clean \in BOOLEAN /\ kept \subseteq Items)'
    BY DEF StoreInv, TypeOK, Exit
  <2>9. ({faults, edits, starts, reloads} \subseteq Nat)'
    BY DEF StoreInv, TypeOK, Exit
  <2> QED
    BY <2>1, <2>2, <2>3, <2>4, <2>5, <2>6, <2>7, <2>8, <2>9 DEF TypeOK
<1>2. ASSUME NEW q \in Procs PROVE SaveIsAt(q)' /\ DaemonOwns(q)'
  BY DEF StoreInv, TypeOK, SaveIsAt, DaemonOwns, Exit
<1>3. CleanIsRead'
  BY DEF StoreInv, CleanIsRead, Exit
<1>4. Unreloaded'
  BY DEF StoreInv, Unreloaded, Exit
<1>5. reloads' = 0 => FreshIsStored'
  BY DEF StoreInv, FreshIsStored, Exit
<1>6. reloads' = 0 => OneWriterLosesNothing'
  BY DEF StoreInv, OneWriterLosesNothing, Exit
<1> QED
  BY <1>1, <1>2, <1>3, <1>4, <1>5, <1>6 DEF StoreInv

LEMMA CrashKeeps ==
  ASSUME ProfileStoreAssumption, StoreInv, NEW p \in Procs, Crash(p)
  PROVE  StoreInv'
<1>1. TypeOK'
  <2>1. (store \in (SUBSET Items) \cup {Broken})'
    BY DEF StoreInv, TypeOK, Crash
  <2>2. (temp \in [Procs -> {"none", "part", "whole", "left"}])'
    BY DEF StoreInv, TypeOK, Crash
  <2>3. (owner \in Procs \cup {None} /\ (owner # None => pc[owner] \notin {"off", "refused"}))'
    BY DEF StoreInv, TypeOK, Crash
  <2>4. (pc \in [Procs -> Running \cup {"off", "probed", "load", "stopping", "refused"}])'
    BY DEF StoreInv, TypeOK, Crash
  <2>5. (mem \in [Procs -> SUBSET Items] /\ next \in [Procs -> SUBSET Items])'
    BY DEF StoreInv, TypeOK, Crash
  <2>6. (unread \subseteq Procs /\ fresh \subseteq Procs)'
    BY DEF StoreInv, TypeOK, Crash
  <2>7. (read \in [Procs -> (SUBSET Items) \cup {None}])'
    <3> DEFINE S == (SUBSET Items) \cup {None}
    <3>1. PICK v : v = None
      OBVIOUS
    <3>2. v \in S
      BY <3>1
    <3>3. read \in [Procs -> S]
      BY DEF StoreInv, TypeOK
    <3>4. read' = [read EXCEPT ![p] = v]
      BY <3>1 DEF Crash
    <3> HIDE DEF S
    <3>5. read' \in [Procs -> S]
      BY <3>2, <3>3, <3>4
    <3> QED
      BY <3>5 DEF S
  <2>8. (clean \in BOOLEAN /\ kept \subseteq Items)'
    BY DEF StoreInv, TypeOK, Crash
  <2>9. ({faults, edits, starts, reloads} \subseteq Nat)'
    BY DEF StoreInv, TypeOK, Crash
  <2> QED
    BY <2>1, <2>2, <2>3, <2>4, <2>5, <2>6, <2>7, <2>8, <2>9 DEF TypeOK
<1>2. ASSUME NEW q \in Procs PROVE SaveIsAt(q)' /\ DaemonOwns(q)'
  BY DEF StoreInv, TypeOK, SaveIsAt, DaemonOwns, Crash
<1>3. CleanIsRead'
  BY DEF StoreInv, CleanIsRead, Crash
<1>4. Unreloaded'
  BY DEF StoreInv, Unreloaded, Crash
<1>5. reloads' = 0 => FreshIsStored'
  BY DEF StoreInv, FreshIsStored, Crash
<1>6. reloads' = 0 => OneWriterLosesNothing'
  BY DEF StoreInv, OneWriterLosesNothing, Crash
<1> QED
  BY <1>1, <1>2, <1>3, <1>4, <1>5, <1>6 DEF StoreInv

LEMMA NextInv == ASSUME ProfileStoreAssumption, StoreInv, [Next]_vars PROVE StoreInv'
<1>1. CASE UNCHANGED vars
  BY <1>1 DEF StoreInv, TypeOK, SaveIsAt, DaemonOwns, CleanIsRead, Unreloaded,
              FreshIsStored, OneWriterLosesNothing
<1>2. CASE Next
  BY <1>2, EditByHandKeeps, ProbeKeeps, ProbeEndsKeeps, StartDaemonKeeps, RefusedKeeps,
     LoadAtStartKeeps, BeginReloadKeeps, EndReloadKeeps, AddKeeps, DeleteKeeps,
     MarkAuthenticatedKeeps, WriteTempKeeps, RenameKeeps, SaveFailsKeeps,
     BeginStopKeeps, ExitKeeps, CrashKeeps
     DEF Next
<1> QED
  BY <1>1, <1>2

-----------------------------------------------------------------------------
(* StoreInv is an invariant: every process knows what it may overwrite.     *)
THEOREM StoreInvariance == ASSUME ProfileStoreAssumption PROVE Spec => []StoreInv
<1>1. Init => StoreInv
  BY InitInv
<1>2. StoreInv /\ [Next]_vars => StoreInv'
  BY NextInv
<1> QED
  BY <1>1, <1>2, PTL DEF Spec

(* No SIGHUP comes where none may. *)
LEMMA NoReloads ==
  ASSUME ProfileStoreAssumption, MaxReloads = 0 PROVE Spec => [](reloads = 0)
<1>1. Init => reloads = 0
  BY DEF Init
<1>2. reloads = 0 /\ [Next]_vars => (reloads = 0)'
  BY DEF Next, EditByHand, Probe, ProbeEnds, StartDaemon, Refused, LoadAtStart,
         BeginReload, EndReload, Add, Delete, MarkAuthenticated, WriteTemp, Rename,
         SaveFails, BeginStop, Exit, Crash
<1> QED
  BY <1>1, <1>2, PTL DEF Spec

(* Every variable keeps its type. *)
THEOREM StoreTypeCorrect == ASSUME ProfileStoreAssumption PROVE Spec => []TypeOK
<1>1. StoreInv => TypeOK
  BY DEF StoreInv
<1> QED
  BY <1>1, StoreInvariance, PTL

(* Whichever writes fail and whoever crashes: one daemon holds the lock and *)
(* nothing is left of a save (lock.Acquire, writeAtomic); without reloads a *)
(* lone writer loses nothing, and what it has in memory is in the file.     *)
THEOREM StoreKept == ASSUME ProfileStoreAssumption PROVE Spec => []StoreIsKept
<1>1. ASSUME StoreInv PROVE OneDaemon /\ NoLitter
  BY <1>1 DEF StoreInv, SaveIsAt, DaemonOwns, OneDaemon, NoLitter
<1>2. ASSUME StoreInv, reloads = 0 PROVE OneWriterLosesNothing /\ FreshIsStored
  BY <1>2 DEF StoreInv
<1>3. CASE MaxReloads = 0
  <2>1. StoreInv /\ reloads = 0 => StoreIsKept
    BY <1>1, <1>2 DEF StoreIsKept
  <2> QED
    BY <2>1, <1>3, NoReloads, StoreInvariance, PTL
<1>4. CASE MaxReloads # 0
  <2>1. StoreInv => StoreIsKept
    BY <1>1, <1>4 DEF StoreIsKept
  <2> QED
    BY <2>1, StoreInvariance, PTL
<1> QED
  BY <1>3, <1>4

(* Only Rename and an edit by hand touch the file. *)
LEMMA OnlyEditorsBreak ==
  ASSUME ProfileStoreAssumption, StoreInv, Next, store' = Broken
  PROVE  store = Broken \/ edits' > edits
<1>1. CASE EditByHand
  BY <1>1 DEF EditByHand, StoreInv, TypeOK
<1>2. ASSUME NEW p \in Procs, Rename(p) PROVE FALSE
  BY <1>2 DEF Rename, ProfileStoreAssumption, StoreInv, TypeOK, SaveIsAt
<1> QED
  BY <1>1, <1>2 DEF Next, Probe, ProbeEnds, StartDaemon, Refused, LoadAtStart,
                    BeginReload, EndReload, Add, Delete, MarkAuthenticated, WriteTemp,
                    SaveFails, BeginStop, Exit, Crash

(* No step of the program, and no crash in the middle of one, leaves a file *)
(* that cannot be parsed: only an edit by hand does (writeAtomic).          *)
THEOREM StoreWhole == ASSUME ProfileStoreAssumption PROVE Spec => StoreIsWhole
<1>1. StoreInv /\ [Next]_vars => [store' = Broken => store = Broken \/ edits' > edits]_vars
  BY OnlyEditorsBreak
<1> QED
  BY <1>1, StoreInvariance, PTL DEF Spec, StoreIsWhole

=============================================================================
