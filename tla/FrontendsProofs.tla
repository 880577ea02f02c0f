--------------------------- MODULE FrontendsProofs ---------------------------
(***************************************************************************)
(* Theorems about the terminal, and about the sum of the frontends, of     *)
(* whose machines each behaviour moves a single one: what is proved of the *)
(* terminal here and of the window in WindowProofs, they keep side by side *)
(* with the login service.                                                 *)
(***************************************************************************)
EXTENDS MCFrontends, SequenceTheorems, TLAPS

-----------------------------------------------------------------------------
(* The terminal: the invariant of its list, log and surfaces.               *)

List == [items : Seq(Row), selected : Nat, selectedID : Profiles \cup {None}]
Agrees(l) ==
  IF l.items = <<>> THEN l.selectedID = None
  ELSE l.selected \in DOMAIN l.items /\ l.items[l.selected].id = l.selectedID

(* The rows are those of the service's profiles, whatever their status, so *)
(* that a refresh never selects another profile.                           *)
RowsAreProfiles ==
  Len(list.items) = Len(core) /\ \A i \in DOMAIN core : list.items[i].id = core[i]

(* Is the log pane about to be refreshed?                                  *)
LogIsDue ==
  \/ list.selectedID \in due
  \/ \E i \in DOMAIN queue : queue[i] = list.selectedID

ServiceInv ==
  /\ core \in Seq(Profiles) /\ status \in [Profiles -> Statuses]
  /\ logs \in [Profiles -> 0..MaxLogs] /\ due \subseteq Profiles
  /\ queue \in Seq(Profiles) /\ Len(queue) <= Capacity /\ dropped \in BOOLEAN

ListInv ==
  /\ list \in List /\ Agrees(list) /\ RowsAreProfiles
  /\ due = {} /\ queue = <<>> => list.items = Rows

LogInv ==
  /\ log \in [id : Profiles \cup {None}, length : 0..MaxLogs]
  /\ dropped \/ log = LogOf(list.selectedID, logs) \/ LogIsDue

SurfaceInv ==
  /\ mode \in Surfaces /\ asked \in Profiles \cup {None} /\ target \in Profiles \cup {None}
  /\ picker \in Profiles \cup {None} /\ loads \in Seq(Tailscale)
  /\ form \in [field : Nat \ {0}, waits : BOOLEAN]
  /\ mode \in {"form", "confirm", "exitNode"} => target = list.selectedID /\ target # None
  /\ OfferedForTarget

TerminalInv == ServiceInv /\ ListInv /\ LogInv /\ SurfaceInv

LEMMA SequenceFacts ==
  ASSUME NEW S, NEW s \in Seq(S)
  PROVE  /\ Len(s) \in Nat /\ DOMAIN s = 1..Len(s) /\ \A i \in DOMAIN s : s[i] \in S
         /\ s = <<>> <=> Len(s) = 0
OBVIOUS

LEMMA RemovedFrom ==
  ASSUME NEW S, NEW s \in Seq(S), NEW i \in DOMAIN s
  PROVE  RemoveAt(s, i) \in Seq(S)
<1>1. i \in 1..Len(s) /\ Len(s) \in Nat /\ \A j \in 1..Len(s) : s[j] \in S
  OBVIOUS
<1>2. SubSeq(s, 1, i - 1) \in Seq(S)
  <2>1. \A j \in 1..(i - 1) : s[j] \in S
    BY <1>1
  <2>2. QED
    BY <1>1, <2>1, SubSeqProperties
<1>3. SubSeq(s, i + 1, Len(s)) \in Seq(S)
  <2>1. \A j \in (i + 1)..Len(s) : s[j] \in S
    BY <1>1
  <2>2. QED
    BY <1>1, <2>1, SubSeqProperties
<1>4. QED
  BY <1>2, <1>3 DEF RemoveAt

LEMMA LogTyped ==
  ASSUME TerminalAssumption, NEW lengths \in [Profiles -> 0..MaxLogs],
         NEW id \in Profiles \cup {None}
  PROVE  LogOf(id, lengths) \in [id : Profiles \cup {None}, length : 0..MaxLogs]
<1>1. (IF id = None THEN 0 ELSE lengths[id]) \in 0..MaxLogs
  BY DEF TerminalAssumption
<1>2. QED
  BY <1>1 DEF LogOf

LEMMA LogElsewhere ==
  ASSUME NEW lengths \in [Profiles -> 0..MaxLogs], NEW id, NEW q, q # id, NEW n
  PROVE  LogOf(q, [lengths EXCEPT ![id] = n]) = LogOf(q, lengths)
BY DEF LogOf

LEMMA LogsTyped ==
  ASSUME TerminalAssumption, ServiceInv, NEW id \in Profiles, Logged(id)
  PROVE  /\ logs' \in [Profiles -> 0..MaxLogs]
         /\ \A p \in Profiles : p # id => logs'[p] = logs[p]
<1>1. logs \in [Profiles -> 0..MaxLogs] /\ MaxLogs \in Nat
  BY DEF TerminalAssumption, ServiceInv
<1>2. logs[id] + 1 \in 0..MaxLogs /\ logs' = [logs EXCEPT ![id] = logs[id] + 1]
  BY <1>1 DEF Logged
<1>3. QED
  BY <1>1, <1>2

(* Where a refresh leaves the cursor. *)
LEMMA Refreshes ==
  ASSUME TerminalAssumption, NEW l \in List, NEW rows \in Seq(Row)
  PROVE  /\ Refreshed(l, rows) \in List /\ Refreshed(l, rows).items = rows
         /\ Agrees(Refreshed(l, rows))
         /\ (\E i \in DOMAIN rows : rows[i].id = l.selectedID)
              => Refreshed(l, rows).selectedID = l.selectedID
<1>1. CASE rows = <<>>
  <2>1. Refreshed(l, rows) = [items |-> <<>>, selected |-> 0, selectedID |-> None]
    BY <1>1 DEF Refreshed, Empty
  <2>2. <<>> \in Seq(Row) /\ DOMAIN rows = {}
    BY <1>1
  <2>3. Refreshed(l, rows) \in List
    BY <2>1, <2>2 DEF List
  <2>4. Refreshed(l, rows).items = <<>> /\ Refreshed(l, rows).selectedID = None
    BY <2>1
  <2>5. QED
    BY <1>1, <2>2, <2>3, <2>4 DEF Agrees
<1>2. CASE rows # <<>>
  <2> DEFINE at == {i \in DOMAIN rows : rows[i].id = l.selectedID}
             near == IF l.selected > Len(rows) THEN Len(rows)
                     ELSE IF l.selected < 1 THEN 1 ELSE l.selected
             row == CHOOSE i \in DOMAIN rows : IF at # {} THEN i \in at ELSE i = near
  <2>1. Refreshed(l, rows) = [items |-> rows, selected |-> row, selectedID |-> rows[row].id]
    BY <1>2 DEF Refreshed
  <2>2. near \in DOMAIN rows
    BY <1>2 DEF List
  <2> HIDE DEF near
  <2>3. at \subseteq DOMAIN rows
    OBVIOUS
  <2>4. row \in DOMAIN rows /\ (at # {} => row \in at)
    <3>1. \E i \in DOMAIN rows : IF at # {} THEN i \in at ELSE i = near
      BY <2>2, <2>3
    <3>2. QED
      BY <3>1
  <2> HIDE DEF row
  <2>5. row \in Nat /\ rows[row].id \in Profiles
    <3>1. rows[row] \in Row
      BY <2>4
    <3>2. QED
      BY <2>4, <3>1 DEF Row
  <2>6. Refreshed(l, rows) \in List
    BY <2>1, <2>5 DEF List
  <2>7. QED
    BY <1>2, <2>1, <2>4, <2>6 DEF Agrees
<1>3. QED
  BY <1>1, <1>2

LEMMA RowsTyped ==
  ASSUME NEW c \in Seq(Profiles), NEW st \in [Profiles -> Statuses]
  PROVE  /\ RowsOf(c, st) \in Seq(Row) /\ Len(RowsOf(c, st)) = Len(c)
         /\ \A i \in DOMAIN c : RowsOf(c, st)[i].id = c[i]
         /\ DOMAIN RowsOf(c, st) = DOMAIN c
<1>1. DOMAIN c = 1..Len(c) /\ Len(c) \in Nat /\ \A i \in 1..Len(c) : c[i] \in Profiles
  OBVIOUS
<1>2. \A i \in 1..Len(c) : [id |-> c[i], status |-> st[c[i]]] \in Row
  BY <1>1 DEF Row
<1>3. RowsOf(c, st) = [i \in 1..Len(c) |-> [id |-> c[i], status |-> st[c[i]]]]
  BY <1>1 DEF RowsOf
<1>4. RowsOf(c, st) \in [1..Len(c) -> Row]
  BY <1>2, <1>3
<1>5. RowsOf(c, st) \in Seq(Row) /\ Len(RowsOf(c, st)) = Len(c)
  BY <1>1, <1>4
<1>6. QED
  BY <1>1, <1>3, <1>5

(* notify: what fits into the channel is there, in its order; what does not *)
(* is known to be dropped.                                                 *)
LEMMA Notifies ==
  ASSUME TerminalAssumption, ServiceInv, NEW ids \in Seq(Profiles), Notified(ids)
  PROVE  /\ queue' \in Seq(Profiles) /\ Len(queue') <= Capacity /\ dropped' \in BOOLEAN
         /\ dropped => dropped'
         /\ queue # <<>> \/ ids # <<>> => queue' # <<>>
         /\ ~dropped' => /\ \A i \in DOMAIN queue : \E j \in DOMAIN queue' : queue'[j] = queue[i]
                         /\ \A i \in DOMAIN ids : \E j \in DOMAIN queue' : queue'[j] = ids[i]
<1> DEFINE q == queue \o ids
           n == IF Len(q) <= Capacity THEN Len(q) ELSE Capacity
<1>1. /\ queue \in Seq(Profiles) /\ Len(queue) \in Nat /\ Len(ids) \in Nat
      /\ DOMAIN queue = 1..Len(queue) /\ DOMAIN ids = 1..Len(ids)
      /\ Capacity \in Nat \ {0}
  <2>1. queue \in Seq(Profiles) /\ Capacity \in Nat \ {0}
    BY DEF ServiceInv, TerminalAssumption
  <2>2. QED
    BY ONLY <2>1, ids \in Seq(Profiles)
<1>2. /\ q \in Seq(Profiles) /\ Len(q) = Len(queue) + Len(ids)
      /\ \A i \in 1..(Len(queue) + Len(ids)) :
           q[i] = IF i <= Len(queue) THEN queue[i] ELSE ids[i - Len(queue)]
  BY <1>1, ConcatProperties
<1>3. queue' = SubSeq(q, 1, n) /\ dropped' = (dropped \/ Len(queue) + Len(ids) > Capacity)
  BY DEF Notified, NotifiedQueue
<1> HIDE DEF q
<1>4. n \in 0..Len(q) /\ n <= Capacity /\ (Len(q) # 0 => n # 0)
  BY <1>1, <1>2
<1>5. /\ queue' \in Seq(Profiles) /\ Len(queue') = n
      /\ \A i \in 1..n : queue'[i] = q[i]
  <2>1. \A i \in 1..n : q[i] \in Profiles
    BY <1>2, <1>4
  <2> HIDE DEF n
  <2>2. /\ queue' \in Seq(Profiles) /\ Len(queue') = IF 1 <= n THEN n - 1 + 1 ELSE 0
        /\ \A i \in 1..(n - 1 + 1) : queue'[i] = q[1 + i - 1]
    BY <1>3, <1>4, <2>1, SubSeqProperties
  <2>3. QED
    BY <1>4, <2>2
<1>6. ~dropped' => n = Len(queue) + Len(ids)
  <2>1. ~dropped' => ~(Len(queue) + Len(ids) > Capacity)
    BY ONLY <1>3
  <2>2. ~(Len(queue) + Len(ids) > Capacity) => n = Len(queue) + Len(ids)
    BY <1>1, <1>2
  <2>3. QED
    BY <2>1, <2>2
<1> HIDE DEF n
<1>7. DOMAIN queue' = 1..n
  BY <1>4, <1>5
<1>8. ASSUME ~dropped', NEW i \in DOMAIN queue
      PROVE  \E j \in DOMAIN queue' : queue'[j] = queue[i]
  <2>1. i \in DOMAIN queue' /\ queue'[i] = queue[i]
    BY <1>1, <1>2, <1>5, <1>6, <1>7, <1>8
  <2>2. QED
    BY <2>1
<1>9. ASSUME ~dropped', NEW i \in DOMAIN ids
      PROVE  \E j \in DOMAIN queue' : queue'[j] = ids[i]
  <2> DEFINE j == Len(queue) + i
  <2>1. /\ j \in DOMAIN queue' /\ j \in 1..(Len(queue) + Len(ids))
        /\ ~(j <= Len(queue)) /\ j - Len(queue) = i
    BY <1>1, <1>6, <1>7, <1>9
  <2>2. queue'[j] = ids[i]
    BY <1>2, <1>5, <1>7, <2>1
  <2>3. QED
    BY <2>1, <2>2
<1>10. queue # <<>> \/ ids # <<>> => queue' # <<>>
  BY <1>1, <1>2, <1>4, <1>5
<1>11. dropped' \in BOOLEAN /\ (dropped => dropped')
  BY <1>3
<1>12. QED
  BY <1>4, <1>5, <1>8, <1>9, <1>10, <1>11

LEMMA Notified1 ==
  ASSUME TerminalAssumption, ServiceInv, NEW id \in Profiles, Notified(<<id>>)
  PROVE  /\ queue' \in Seq(Profiles) /\ Len(queue') <= Capacity /\ dropped' \in BOOLEAN
         /\ dropped => dropped'
         /\ queue' # <<>>
         /\ ~dropped' => /\ \A i \in DOMAIN queue : \E j \in DOMAIN queue' : queue'[j] = queue[i]
                         /\ \E j \in DOMAIN queue' : queue'[j] = id
<1> DEFINE ids == <<id>>
<1>1. ids \in Seq(Profiles) /\ ids # <<>> /\ 1 \in DOMAIN ids /\ ids[1] = id
  OBVIOUS
<1> HIDE DEF ids
<1>2. Notified(ids)
  BY DEF ids
<1>3. QED
  BY <1>1, <1>2, Notifies

(* The profiles of a refreshed list. *)
LEMMA ListRefreshes ==
  ASSUME TerminalAssumption, NEW l \in List, NEW c \in Seq(Profiles),
         NEW st \in [Profiles -> Statuses]
  PROVE  LET r == Refreshed(l, RowsOf(c, st))
         IN /\ r \in List /\ r.items = RowsOf(c, st) /\ Agrees(r)
            /\ Len(r.items) = Len(c) /\ \A i \in DOMAIN c : r.items[i].id = c[i]
            /\ (\E i \in DOMAIN c : c[i] = l.selectedID) => r.selectedID = l.selectedID
BY Refreshes, RowsTyped

(* The profile under the cursor is in the service. *)
LEMMA SelectedIsThere ==
  ASSUME TerminalAssumption, TerminalInv
  PROVE  /\ list \in List
         /\ list.selectedID # None <=> core # <<>>
         /\ list.selectedID # None =>
              list.selectedID \in Profiles /\ \E i \in DOMAIN core : core[i] = list.selectedID
<1>1. list \in List /\ core \in Seq(Profiles)
  BY DEF TerminalInv, ServiceInv, ListInv
<1>2. list.items \in Seq(Row) /\ Len(list.items) = Len(core)
  BY <1>1 DEF TerminalInv, ListInv, RowsAreProfiles, List
<1>3. CASE core = <<>>
  <2>1. list.items = <<>>
    BY <1>2, <1>3
  <2>2. QED
    BY <1>1, <1>3, <2>1 DEF TerminalInv, ListInv, Agrees
<1>4. CASE core # <<>>
  <2>1. list.items # <<>> /\ DOMAIN list.items = DOMAIN core
    BY <1>1, <1>2, <1>4
  <2>2. list.selected \in DOMAIN core /\ core[list.selected] = list.selectedID
    BY <2>1 DEF TerminalInv, ListInv, Agrees, RowsAreProfiles
  <2>3. list.selectedID \in Profiles
    BY <1>1, <2>2
  <2>4. QED
    BY <1>1, <1>4, <2>2, <2>3 DEF TerminalAssumption
<1>5. QED
  BY <1>3, <1>4

(* A refresh with the profiles of before leaves the cursor on its profile. *)
LEMMA CursorStays ==
  ASSUME TerminalAssumption, TerminalInv, NEW st \in [Profiles -> Statuses]
  PROVE  LET r == Refreshed(list, RowsOf(core, st))
         IN /\ r \in List /\ r.items = RowsOf(core, st) /\ Agrees(r)
            /\ Len(r.items) = Len(core) /\ \A i \in DOMAIN core : r.items[i].id = core[i]
            /\ r.selectedID = list.selectedID
<1> DEFINE r == Refreshed(list, RowsOf(core, st))
<1>1. list \in List /\ core \in Seq(Profiles)
  BY DEF TerminalInv, ServiceInv, ListInv
<1>2. /\ r \in List /\ r.items = RowsOf(core, st) /\ Agrees(r)
      /\ Len(r.items) = Len(core) /\ \A i \in DOMAIN core : r.items[i].id = core[i]
      /\ (\E i \in DOMAIN core : core[i] = list.selectedID) => r.selectedID = list.selectedID
  BY <1>1, ListRefreshes
<1> HIDE DEF r
<1>3. r.selectedID = list.selectedID
  <2>1. CASE core = <<>>
    <3>1. r.items = <<>>
      BY <1>2, <2>1 DEF List
    <3>2. r.selectedID = None
      BY <1>2, <3>1 DEF Agrees
    <3>3. QED
      BY <2>1, <3>2, SelectedIsThere
  <2>2. CASE core # <<>>
    BY <1>2, <2>2, SelectedIsThere
  <2>3. QED
    BY <2>1, <2>2
<1>4. QED
  BY <1>2, <1>3 DEF r

-----------------------------------------------------------------------------

LEMMA InitTerminalInv == ASSUME TerminalAssumption, Init PROVE TerminalInv
<1>1. ServiceInv
  <2>1. /\ core \in Seq(Profiles) /\ status \in [Profiles -> Statuses]
        /\ logs \in [Profiles -> 0..MaxLogs]
    BY DEF Init, TerminalAssumption, Statuses
  <2>2. queue = <<>> /\ Capacity \in Nat /\ due = {} /\ dropped = FALSE
    BY DEF Init, TerminalAssumption
  <2>3. queue \in Seq(Profiles) /\ Len(queue) <= Capacity
    BY <2>2
  <2>4. QED
    BY <2>1, <2>2, <2>3 DEF ServiceInv
<1>2. ListInv
  <2>1. core \in Seq(Profiles) /\ status \in [Profiles -> Statuses]
    BY <1>1 DEF ServiceInv
  <2>2. Empty \in List
    BY DEF Empty, List
  <2>3. list = Refreshed(Empty, RowsOf(core, status))
    BY DEF Init, Rows
  <2>4. QED
    BY <2>1, <2>2, <2>3, ListRefreshes DEF ListInv, Rows, RowsAreProfiles
<1>3. log = LogOf(list.selectedID, logs)
  BY DEF Init
<1>4. log \in [id : Profiles \cup {None}, length : 0..MaxLogs]
  BY <1>1, <1>2, <1>3, LogTyped DEF ServiceInv, ListInv, List
<1>5. SurfaceInv
  <2>1. loads \in Seq(Tailscale)
    BY DEF Init
  <2>2. form \in [field : Nat \ {0}, waits : BOOLEAN]
    BY DEF Init, NewForm
  <2>3. QED
    BY <2>1, <2>2 DEF Init, SurfaceInv, Surfaces, OfferedForTarget
<1>6. QED
  BY <1>1, <1>2, <1>3, <1>4, <1>5 DEF TerminalInv, LogInv

-----------------------------------------------------------------------------
(* What several actions do, and leave alone. *)

LEMMA ViewStays ==
  ASSUME TerminalInv, UNCHANGED <<service, view>>
  PROVE  ServiceInv' /\ ListInv' /\ LogInv' /\ list' = list
BY DEF TerminalInv, ServiceInv, ListInv, LogInv, service, view, changes, RowsAreProfiles, Rows,
       RowsOf, LogIsDue, LogOf, Agrees

LEMMA SurfaceStays ==
  ASSUME TerminalInv, UNCHANGED <<surface, loads>>, list'.selectedID = list.selectedID,
         asked' \in Profiles \cup {None}
  PROVE  SurfaceInv'
BY DEF TerminalInv, SurfaceInv, surface, OfferedForTarget

LEMMA SurfaceClosed ==
  ASSUME Closed, loads' \in Seq(Tailscale), asked' = None
  PROVE  SurfaceInv'
<1>1. form' \in [field : Nat \ {0}, waits : BOOLEAN]
  BY DEF Closed, NewForm
<1>2. QED
  BY <1>1 DEF Closed, SurfaceInv, Surfaces, OfferedForTarget

LEMMA SurfaceOpened ==
  ASSUME NEW surf \in Surfaces \ {"list"}, NEW id \in Profiles \cup {None}, Opened(surf, id),
         surf \in {"form", "confirm", "exitNode"} => id # None /\ id = list'.selectedID,
         loads' \in Seq(Tailscale), asked' = None
  PROVE  SurfaceInv'
<1>1. form' \in [field : Nat \ {0}, waits : BOOLEAN]
  BY DEF Opened, NewForm
<1>2. QED
  BY <1>1 DEF Opened, SurfaceInv, OfferedForTarget

(* A list that is not refreshed waits for the change. *)
LEMMA ListWaits ==
  ASSUME ListInv, UNCHANGED <<core, list>>, due' # {} \/ queue' # <<>>
  PROVE  ListInv'
BY DEF ListInv, RowsAreProfiles, Agrees

LEMMA ListShown ==
  ASSUME TerminalAssumption, TerminalInv, core' = core, status' \in [Profiles -> Statuses],
         list' = Refreshed(list, RowsOf(core, status'))
  PROVE  ListInv' /\ list'.selectedID = list.selectedID
<1>1. /\ list' \in List /\ list'.items = RowsOf(core, status') /\ Agrees(list')
      /\ Len(list'.items) = Len(core) /\ \A i \in DOMAIN core : list'.items[i].id = core[i]
      /\ list'.selectedID = list.selectedID
  BY CursorStays
<1>2. RowsAreProfiles' /\ Agrees(list)'
  BY <1>1 DEF RowsAreProfiles, Agrees
<1>3. list'.items = Rows'
  BY <1>1 DEF Rows, RowsOf
<1>4. QED
  BY <1>1, <1>2, <1>3 DEF ListInv

LEMMA LogWaits ==
  ASSUME LogInv, log' = log, dropped => dropped', list'.selectedID = list.selectedID,
         ~dropped' /\ LogIsDue => LogIsDue',
         ~dropped' => LogOf(list.selectedID, logs') = LogOf(list.selectedID, logs) \/ LogIsDue'
  PROVE  LogInv'
<1>1. LogOf(list.selectedID, logs)' = LogOf(list.selectedID, logs')
  BY DEF LogOf
<1>2. QED
  BY <1>1 DEF LogInv

(* The changes that are due stay so when more are notified. *)
LEMMA ChangesStay ==
  ASSUME TerminalAssumption, TerminalInv, NEW ids \in Seq(Profiles), Notified(ids), due' = due,
         list'.selectedID = list.selectedID
  PROVE  /\ dropped => dropped'
         /\ ~dropped' /\ LogIsDue => LogIsDue'
         /\ ~dropped' /\ (\E i \in DOMAIN ids : ids[i] = list.selectedID) => LogIsDue'
BY Notifies DEF TerminalInv, LogIsDue

-----------------------------------------------------------------------------

LEMMA RuntimeEventKeeps ==
  ASSUME TerminalAssumption, TerminalInv, NEW id \in Profiles, RuntimeEvent(id)
  PROVE  TerminalInv'
<1>1. ServiceInv'
  <2>1. status' \in [Profiles -> Statuses]
    <3>1. status \in [Profiles -> Statuses]
      BY DEF TerminalInv, ServiceInv
    <3>2. Ends[status[id]] \subseteq Statuses
      BY <3>1 DEF Ends, Statuses
    <3>3. PICK s \in Ends[status[id]] : status' = [status EXCEPT ![id] = s]
      BY DEF RuntimeEvent
    <3>4. QED
      BY <3>1, <3>2, <3>3
  <2>2. logs' \in [Profiles -> 0..MaxLogs]
    BY LogsTyped DEF RuntimeEvent, TerminalInv
  <2>3. QED
    BY <2>1, <2>2 DEF RuntimeEvent, TerminalInv, ServiceInv, changes
<1>2. ListInv'
  <2>1. UNCHANGED <<core, list>> /\ due' # {}
    BY DEF RuntimeEvent, view
  <2>2. QED
    BY <2>1, ListWaits DEF TerminalInv
<1>3. LogInv'
  <2>1. /\ log' = log /\ dropped' = dropped /\ list' = list /\ queue' = queue
        /\ due' = due \cup {id} /\ logs' = [logs EXCEPT ![id] = logs[id] + 1]
    BY DEF RuntimeEvent, view, changes, Logged
  <2>2. (LogIsDue => LogIsDue') /\ (id = list.selectedID => LogIsDue')
    BY <2>1 DEF LogIsDue
  <2>3. id # list.selectedID => LogOf(list.selectedID, logs') = LogOf(list.selectedID, logs)
    BY <2>1, LogElsewhere DEF TerminalInv, ServiceInv
  <2>4. QED
    BY <2>1, <2>2, <2>3, LogWaits DEF TerminalInv
<1>4. SurfaceInv'
  BY SurfaceStays DEF RuntimeEvent, view
<1>5. QED
  BY <1>1, <1>2, <1>3, <1>4 DEF TerminalInv

LEMMA NotifyKeeps ==
  ASSUME TerminalAssumption, TerminalInv, NEW id \in Profiles, Notify(id)
  PROVE  TerminalInv'
<1>1. /\ queue' \in Seq(Profiles) /\ Len(queue') <= Capacity /\ dropped' \in BOOLEAN
      /\ dropped => dropped'
      /\ queue' # <<>>
      /\ ~dropped' => /\ \A i \in DOMAIN queue : \E j \in DOMAIN queue' : queue'[j] = queue[i]
                      /\ \E j \in DOMAIN queue' : queue'[j] = id
  BY Notified1 DEF Notify, TerminalInv
<1>2. due' = due \ {id} /\ UNCHANGED <<core, status, logs, list, log, surface, loads>> /\ asked' = None
  BY DEF Notify, view
<1>3. ServiceInv'
  BY <1>1, <1>2 DEF TerminalInv, ServiceInv
<1>4. ListInv'
  BY <1>1, <1>2, ListWaits DEF TerminalInv
<1>5. ~dropped' /\ LogIsDue => LogIsDue'
  BY <1>1, <1>2 DEF LogIsDue
<1>6. LogInv'
  BY <1>1, <1>2, <1>5, LogWaits DEF TerminalInv
<1>7. SurfaceInv'
  BY <1>2, SurfaceStays
<1>8. QED
  BY <1>3, <1>4, <1>6, <1>7 DEF TerminalInv

LEMMA ChangeMsgKeeps ==
  ASSUME TerminalAssumption, TerminalInv, ChangeMsg
  PROVE  TerminalInv'
<1> DEFINE head == Head(queue)
<1>1. /\ UNCHANGED <<core, status, logs, due, dropped>> /\ UNCHANGED <<surface, loads>>
      /\ queue # <<>> /\ queue' = Tail(queue) /\ asked' = None
      /\ list' = Refreshed(list, RowsOf(core, status'))
      /\ log' = IF head = list'.selectedID THEN LogOf(head, logs) ELSE log
  BY DEF ChangeMsg, Changed, LogAfter, Rows
<1>2. queue \in Seq(Profiles) /\ Capacity \in Nat /\ Len(queue) <= Capacity
  BY DEF TerminalInv, ServiceInv, TerminalAssumption
<1>3. /\ Tail(queue) \in Seq(Profiles) /\ Len(Tail(queue)) = Len(queue) - 1
      /\ Len(queue) \in Nat
      /\ \A i \in DOMAIN queue : i = 1 \/ (i - 1 \in DOMAIN Tail(queue) /\ Tail(queue)[i - 1] = queue[i])
      /\ head = queue[1] /\ head \in Profiles
  <2>1. queue \in Seq(Profiles) /\ queue # <<>>
    BY <1>1, <1>2
  <2>2. Len(queue) \in Nat \ {0} /\ DOMAIN queue = 1..Len(queue) /\ head = queue[1]
    BY ONLY <2>1
  <2>3. Tail(queue) \in Seq(Profiles) /\ Len(Tail(queue)) = Len(queue) - 1
    BY ONLY <2>1
  <2>4. \A i \in 1..(Len(queue) - 1) : Tail(queue)[i] = queue[i + 1]
    BY ONLY <2>1
  <2> HIDE DEF head
  <2>5. DOMAIN Tail(queue) = 1..(Len(queue) - 1)
    BY ONLY <2>2, <2>3
  <2>6. ASSUME NEW i \in DOMAIN queue, i # 1
        PROVE  i - 1 \in DOMAIN Tail(queue) /\ Tail(queue)[i - 1] = queue[i]
    <3>1. i - 1 \in 1..(Len(queue) - 1) /\ (i - 1) + 1 = i
      BY <2>2, <2>6
    <3>2. Tail(queue)[i - 1] = queue[(i - 1) + 1]
      BY <2>4, <3>1
    <3>3. QED
      BY <2>5, <3>1, <3>2
  <2>7. head \in Profiles
    BY <2>1, <2>2
  <2>8. QED
    BY <2>2, <2>3, <2>6, <2>7
<1>4. ServiceInv'
  <2>1. Len(queue') <= Capacity
    BY <1>1, <1>2, <1>3
  <2>2. QED
    BY <1>1, <1>3, <2>1 DEF TerminalInv, ServiceInv
<1>5. ListInv' /\ list'.selectedID = list.selectedID
  BY <1>1, <1>4, ListShown DEF ServiceInv
<1> HIDE DEF head
<1>6. LogInv'
  <2>1. CASE head = list'.selectedID
    <3>1. log' = LogOf(head, logs)
      BY <1>1, <2>1
    <3>2. log' = LogOf(list.selectedID, logs)'
      BY <1>1, <2>1, <3>1 DEF LogOf
    <3>3. log' \in [id : Profiles \cup {None}, length : 0..MaxLogs]
      BY <1>3, <3>1, LogTyped DEF TerminalInv, ServiceInv
    <3>4. QED
      BY <3>2, <3>3 DEF LogInv
  <2>2. CASE head # list'.selectedID
    <3>1. log' = log
      BY <1>1, <2>2
    <3>2. LogIsDue => LogIsDue'
      BY <1>1, <1>3, <1>5, <2>2 DEF LogIsDue
    <3>3. LogOf(list.selectedID, logs') = LogOf(list.selectedID, logs)
      BY <1>1
    <3>4. QED
      BY <1>1, <1>5, <3>1, <3>2, <3>3, LogWaits DEF TerminalInv
  <2>3. QED
    BY <2>1, <2>2
<1>7. SurfaceInv'
  BY <1>1, <1>5, SurfaceStays
<1>8. QED
  BY <1>4, <1>5, <1>6, <1>7 DEF TerminalInv

-----------------------------------------------------------------------------
(* Exit nodes, and the form that moves on. *)

LEMMA ExitNodesKeep ==
  ASSUME TerminalAssumption, TerminalInv, NEW i \in 1..MaxLoads,
         ExitNodesLoaded(i) \/ ExitNodesErr(i)
  PROVE  TerminalInv'
<1>1. UNCHANGED <<service, view>> /\ i \in DOMAIN loads /\ loads' = RemoveAt(loads, i) /\ asked' = None
  BY DEF ExitNodesLoaded, ExitNodesErr
<1>2. loads \in Seq(Tailscale) /\ SurfaceInv
  BY DEF TerminalInv, SurfaceInv
<1>3. loads' \in Seq(Tailscale)
  BY <1>1, <1>2, RemovedFrom
<1>4. ServiceInv' /\ ListInv' /\ LogInv' /\ list' = list
  BY <1>1, ViewStays
<1>5. CASE Closed
  BY <1>1, <1>3, <1>4, <1>5, SurfaceClosed DEF TerminalInv
<1>6. CASE UNCHANGED surface
  BY <1>1, <1>2, <1>3, <1>4, <1>6 DEF TerminalInv, SurfaceInv, surface, OfferedForTarget
<1>7. CASE UNCHANGED <<mode, target, form>> /\ Offered(loads[i]) /\ picker' = loads[i]
  <2>1. mode = "exitNode" /\ picker' = target
    BY <1>7 DEF Offered
  <2>2. QED
    BY <1>1, <1>2, <1>3, <1>4, <1>7, <2>1 DEF TerminalInv, SurfaceInv, OfferedForTarget
<1>8. QED
  BY <1>5, <1>6, <1>7 DEF ExitNodesLoaded, ExitNodesErr, surface

LEMMA FormMovesOn ==
  ASSUME TerminalAssumption, TerminalInv, FormMsg \/ EnterField
  PROVE  TerminalInv'
<1>1. /\ UNCHANGED <<service, view>> /\ UNCHANGED <<mode, target, picker, loads>> /\ asked' = None
      /\ \E w \in BOOLEAN : form' = [form EXCEPT !.waits = w]
  BY DEF FormMsg, EnterField, In
<1>2. ServiceInv' /\ ListInv' /\ LogInv' /\ list' = list
  BY <1>1, ViewStays
<1>3. form' \in [field : Nat \ {0}, waits : BOOLEAN]
  BY <1>1 DEF TerminalInv, SurfaceInv
<1>4. QED
  BY <1>1, <1>2, <1>3 DEF TerminalInv, SurfaceInv, OfferedForTarget

-----------------------------------------------------------------------------
(* The keys of the list. *)

LEMMA NothingKeeps ==
  ASSUME TerminalAssumption, TerminalInv, Nothing, asked' \in Profiles \cup {None}
  PROVE  TerminalInv'
<1>1. ServiceInv' /\ ListInv' /\ LogInv' /\ list' = list
  BY ViewStays DEF Nothing
<1>2. SurfaceInv'
  BY <1>1, SurfaceStays DEF Nothing
<1>3. QED
  BY <1>1, <1>2 DEF TerminalInv

LEMMA MoveSelectionKeeps ==
  ASSUME TerminalAssumption, TerminalInv, NEW delta \in {-1, 1}, MoveSelection(delta)
  PROVE  TerminalInv'
<1> DEFINE next == list.selected + delta
           id == list.items[next].id
<1>1. /\ Key /\ next \in DOMAIN list.items
      /\ list' = [list EXCEPT !.selected = next, !.selectedID = id]
      /\ log' = LogOf(id, logs)
      /\ UNCHANGED <<service, surface, loads>>
  BY DEF MoveSelection
<1> HIDE DEF next
<1>2. list \in List /\ ListInv /\ ServiceInv
  BY DEF TerminalInv, ListInv
<1>3. next \in Nat /\ id \in Profiles
  <2>1. list.items \in Seq(Row)
    BY <1>2 DEF List
  <2>2. next \in Nat /\ list.items[next] \in Row
    BY <1>1, <2>1
  <2>3. QED
    BY <2>2 DEF Row
<1> HIDE DEF id
<1>4. /\ list' \in List /\ list'.items = list.items /\ list'.selected = next
      /\ list'.selectedID = id
  BY <1>1, <1>2, <1>3 DEF List
<1>5. list.items # <<>>
  BY <1>1
<1>6. ListInv'
  <2>1. Agrees(list)'
    BY <1>1, <1>4, <1>5 DEF Agrees, id
  <2>2. UNCHANGED <<core, status, due, queue>>
    BY <1>1 DEF service, changes
  <2>3. RowsAreProfiles' /\ Rows' = Rows
    BY <1>2, <1>4, <2>2 DEF ListInv, RowsAreProfiles, Rows, RowsOf
  <2>4. QED
    BY <1>2, <1>4, <2>1, <2>2, <2>3 DEF ListInv
<1>7. LogInv'
  <2>1. log' = LogOf(list.selectedID, logs)'
    BY <1>1, <1>4 DEF LogOf, service
  <2>2. log' \in [id : Profiles \cup {None}, length : 0..MaxLogs]
    BY <1>1, <1>2, <1>3, LogTyped DEF ServiceInv
  <2>3. QED
    BY <2>1, <2>2 DEF LogInv
<1>8. SurfaceInv'
  BY <1>1 DEF TerminalInv, SurfaceInv, surface, OfferedForTarget, Key
<1>9. ServiceInv'
  BY <1>1, <1>2 DEF ServiceInv, service, changes
<1>10. QED
  BY <1>6, <1>7, <1>8, <1>9 DEF TerminalInv

(* Connect and Disconnect, of some profiles, with the list refreshed. *)
LEMMA RefreshesAfter ==
  ASSUME TerminalAssumption, TerminalInv, NEW ids \in Seq(Profiles), Notified(ids),
         UNCHANGED <<core, due, log, surface, loads>>,
         status' \in [Profiles -> Statuses], logs' \in [Profiles -> 0..MaxLogs],
         list' = Refreshed(list, RowsOf(core, status')), asked' \in Profiles \cup {None},
         \A p \in Profiles : logs'[p] = logs[p] \/ \E i \in DOMAIN ids : ids[i] = p
  PROVE  TerminalInv'
<1>1. ListInv' /\ list'.selectedID = list.selectedID
  BY ListShown
<1>2. ServiceInv'
  BY Notifies DEF TerminalInv, ServiceInv
<1>3. LogInv'
  <2>1. /\ dropped => dropped'
        /\ ~dropped' /\ LogIsDue => LogIsDue'
        /\ ~dropped' /\ (\E i \in DOMAIN ids : ids[i] = list.selectedID) => LogIsDue'
    BY <1>1, ChangesStay
  <2>2. \/ LogOf(list.selectedID, logs') = LogOf(list.selectedID, logs)
        \/ \E i \in DOMAIN ids : ids[i] = list.selectedID
    BY DEF LogOf, TerminalInv, ListInv, List
  <2>3. QED
    BY <1>1, <2>1, <2>2, LogWaits DEF TerminalInv
<1>4. SurfaceInv'
  BY <1>1, SurfaceStays
<1>5. QED
  BY <1>1, <1>2, <1>3, <1>4 DEF TerminalInv

LEMMA ConnectKeeps ==
  ASSUME TerminalAssumption, TerminalInv, Connect
  PROVE  TerminalInv'
<1>1. CASE Nothing
  BY <1>1, NothingKeeps DEF Connect, Key
<1>2. CASE ~Nothing
  <2> DEFINE id == list.selectedID
             ids == <<id>>
  <2>1. /\ id # None /\ asked' = None
        /\ status' = [status EXCEPT ![id] = "starting"] /\ Logged(id) /\ Notified(ids)
        /\ list' = Refreshed(list, RowsOf(core, status'))
        /\ UNCHANGED <<core, due, log, surface, loads>>
    BY <1>2 DEF Connect, Key, Selected
  <2>2. id \in Profiles
    BY <2>1, SelectedIsThere
  <2> HIDE DEF id
  <2>3. ids \in Seq(Profiles) /\ 1 \in DOMAIN ids /\ ids[1] = id
    BY <2>2
  <2> HIDE DEF ids
  <2>4. status' \in [Profiles -> Statuses]
    BY <2>1, <2>2 DEF TerminalInv, ServiceInv, Statuses
  <2>5. logs' \in [Profiles -> 0..MaxLogs] /\ \A p \in Profiles : p # id => logs'[p] = logs[p]
    BY <2>1, <2>2, LogsTyped DEF TerminalInv
  <2>6. QED
    BY <2>1, <2>3, <2>4, <2>5, RefreshesAfter
<1>3. QED
  BY <1>1, <1>2

LEMMA DisconnectKeeps ==
  ASSUME TerminalAssumption, TerminalInv, Disconnect
  PROVE  TerminalInv'
<1> DEFINE id == list.selectedID
           ids == <<id>>
<1>1. id \in Profiles /\ asked' = id
  BY SelectedIsThere DEF Disconnect, Selected
<1>2. CASE Nothing
  BY <1>1, <1>2, NothingKeeps
<1>3. CASE ~Nothing
  <2>1. /\ status' = [status EXCEPT ![id] = "stopped"] /\ Notified(ids)
        /\ list' = Refreshed(list, RowsOf(core, status'))
        /\ UNCHANGED <<core, logs, due, log, surface, loads>>
    BY <1>3 DEF Disconnect
  <2> HIDE DEF id
  <2>2. ids \in Seq(Profiles)
    BY <1>1
  <2> HIDE DEF ids
  <2>3. status' \in [Profiles -> Statuses] /\ logs' \in [Profiles -> 0..MaxLogs]
    BY <1>1, <2>1 DEF TerminalInv, ServiceInv, Statuses
  <2>4. QED
    BY <1>1, <2>1, <2>2, <2>3, RefreshesAfter
<1>4. QED
  BY <1>2, <1>3

LEMMA ConnectAllKeeps ==
  ASSUME TerminalAssumption, TerminalInv, ConnectAll
  PROVE  TerminalInv'
<1> DEFINE idle == {i \in DOMAIN core : ~RuntimeLocked(core[i])}
<1>0. PICK n \in 0..Len(core) : \E at \in [1..n -> idle] :
        LET ids == [k \in 1..n |-> core[at[k]]]
        IN /\ \A k \in 1..n : logs[ids[k]] < MaxLogs
           /\ status' = [p \in Profiles |-> IF Contains(ids, p) THEN "starting" ELSE status[p]]
           /\ logs' = [p \in Profiles |-> IF Contains(ids, p) THEN logs[p] + 1 ELSE logs[p]]
           /\ Notified(ids)
  BY DEF ConnectAll
<1>1. PICK at \in [1..n -> idle] :
        LET ids == [k \in 1..n |-> core[at[k]]]
        IN /\ \A k \in 1..n : logs[ids[k]] < MaxLogs
           /\ status' = [p \in Profiles |-> IF Contains(ids, p) THEN "starting" ELSE status[p]]
           /\ logs' = [p \in Profiles |-> IF Contains(ids, p) THEN logs[p] + 1 ELSE logs[p]]
           /\ Notified(ids)
  BY <1>0
<1> DEFINE ids == [k \in 1..n |-> core[at[k]]]
<1>2. core \in Seq(Profiles) /\ n \in Nat
  BY DEF TerminalInv, ServiceInv
<1>3. ids \in Seq(Profiles) /\ DOMAIN ids = 1..n /\ Len(ids) = n
  <2>1. \A k \in 1..n : core[at[k]] \in Profiles
    BY <1>2
  <2>2. QED
    BY <1>2, <2>1
<1> HIDE DEF ids
<1>4. /\ \A k \in 1..n : logs[ids[k]] < MaxLogs
      /\ status' = [p \in Profiles |-> IF Contains(ids, p) THEN "starting" ELSE status[p]]
      /\ logs' = [p \in Profiles |-> IF Contains(ids, p) THEN logs[p] + 1 ELSE logs[p]]
      /\ Notified(ids)
  BY <1>1 DEF ids
<1>5. status' \in [Profiles -> Statuses]
  BY <1>4 DEF TerminalInv, ServiceInv, Statuses
<1>6. ASSUME NEW p \in Profiles
      PROVE  Contains(ids, p) => (\E i \in DOMAIN ids : ids[i] = p) /\ logs[p] < MaxLogs
  BY <1>3, <1>4 DEF Contains
<1>7. /\ logs' \in [Profiles -> 0..MaxLogs]
      /\ \A p \in Profiles : logs'[p] = logs[p] \/ \E i \in DOMAIN ids : ids[i] = p
  <2>1. logs \in [Profiles -> 0..MaxLogs] /\ MaxLogs \in Nat
    BY DEF TerminalInv, ServiceInv, TerminalAssumption
  <2>2. \A p \in Profiles : (IF Contains(ids, p) THEN logs[p] + 1 ELSE logs[p]) \in 0..MaxLogs
    BY <1>6, <2>1
  <2>3. QED
    BY <1>4, <1>6, <2>2
<1>8. /\ list' = Refreshed(list, RowsOf(core, status')) /\ asked' = None
      /\ UNCHANGED <<core, due, log, surface, loads>>
  BY DEF ConnectAll, Key
<1>9. QED
  BY <1>3, <1>4, <1>5, <1>7, <1>8, RefreshesAfter

LEMMA DisconnectAllKeeps ==
  ASSUME TerminalAssumption, TerminalInv, DisconnectAll
  PROVE  TerminalInv'
<1>1. /\ status' = [p \in Profiles |->
                      IF Has(p) /\ RuntimeLocked(p) THEN "stopping" ELSE status[p]]
      /\ Notified(core) /\ asked' = None
      /\ UNCHANGED <<core, logs, due, list, log, surface, loads>>
  BY DEF DisconnectAll, Key, view
<1>2. core \in Seq(Profiles) /\ status \in [Profiles -> Statuses]
  BY DEF TerminalInv, ServiceInv
<1>3. ServiceInv'
  <2>1. status' \in [Profiles -> Statuses]
    BY <1>1, <1>2 DEF Statuses
  <2>2. QED
    BY <1>1, <1>2, <2>1, Notifies DEF TerminalInv, ServiceInv
<1>4. ListInv'
  <2>1. CASE queue' # <<>>
    BY <1>1, <2>1, ListWaits DEF TerminalInv
  <2>2. CASE queue' = <<>>
    <3>1. queue = <<>> /\ core = <<>>
      BY <1>1, <1>2, <2>2, Notifies DEF TerminalInv
    <3>2. \A p \in Profiles : ~Has(p)
      BY <3>1 DEF Has
    <3>3. status' = status
      BY <1>1, <1>2, <3>2
    <3>4. QED
      BY <1>1, <2>2, <3>1, <3>3 DEF TerminalInv, ListInv, RowsAreProfiles, Agrees, Rows, RowsOf
  <2>3. QED
    BY <2>1, <2>2
<1>5. LogInv'
  <2>1. (dropped => dropped') /\ (~dropped' /\ LogIsDue => LogIsDue')
    BY <1>1, <1>2, ChangesStay
  <2>2. QED
    BY <1>1, <2>1, LogWaits DEF TerminalInv
<1>6. SurfaceInv'
  BY <1>1, SurfaceStays
<1>7. QED
  BY <1>3, <1>4, <1>5, <1>6 DEF TerminalInv

(* The profiles that are added, whose first is selected. *)
LEMMA ExtendedKeeps ==
  ASSUME TerminalAssumption, TerminalInv, NEW id \in Profiles, Extended(<<id>>)
  PROVE  ServiceInv' /\ ListInv' /\ LogInv' /\ list'.selectedID = id
<1> DEFINE next == Append(core, id)
           l == Selecting(list, id)
<1>1. <<id>> \in Seq(Profiles) /\ Head(<<id>>) = id
  OBVIOUS
<1>2. core \in Seq(Profiles) /\ status \in [Profiles -> Statuses] /\ list \in List
  BY DEF TerminalInv, ServiceInv, ListInv
<1>3. core \o <<id>> = next
  BY <1>2
<1>4. /\ next \in Seq(Profiles) /\ next # <<>> /\ next[Len(core) + 1] = id
      /\ Len(core) + 1 \in DOMAIN next
  <2>1. Len(core) \in Nat /\ Len(next) = Len(core) + 1 /\ next \in Seq(Profiles)
    BY <1>2
  <2>2. next[Len(core) + 1] = id
    BY <1>2
  <2> HIDE DEF next
  <2>3. DOMAIN next = 1..(Len(core) + 1)
    BY <2>1
  <2>4. Len(core) + 1 \in DOMAIN next
    BY <2>1, <2>3
  <2>5. next # <<>>
    BY <2>1
  <2>6. QED
    BY <2>1, <2>2, <2>4, <2>5
<1> HIDE DEF next
<1>5. /\ core' = next /\ Notified(<<id>>)
      /\ list' = Refreshed(l, RowsOf(next, status))
      /\ UNCHANGED <<status, logs, due, log, loads>>
  <2>1. list' = Refreshed(Selecting(list, Head(<<id>>)), RowsOf(core', status))
    BY DEF Extended
  <2>2. QED
    BY <1>1, <1>3, <2>1 DEF Extended
<1>6. l \in List /\ l.selectedID = id
  BY <1>2 DEF Selecting, List
<1> HIDE DEF l
<1>7. /\ list' \in List /\ list'.items = RowsOf(next, status) /\ Agrees(list')
      /\ Len(list'.items) = Len(next) /\ \A i \in DOMAIN next : list'.items[i].id = next[i]
      /\ list'.selectedID = id
  BY <1>2, <1>4, <1>5, <1>6, ListRefreshes
<1>8. /\ queue' \in Seq(Profiles) /\ Len(queue') <= Capacity /\ dropped' \in BOOLEAN
      /\ dropped => dropped'
      /\ ~dropped' => \E j \in DOMAIN queue' : queue'[j] = id
  BY <1>5, Notified1 DEF TerminalInv
<1>9. ServiceInv'
  BY <1>4, <1>5, <1>8 DEF TerminalInv, ServiceInv
<1>10. ListInv'
  BY <1>5, <1>7 DEF ListInv, Agrees, RowsAreProfiles, Rows, RowsOf
<1>11. LogInv'
  BY <1>5, <1>7, <1>8 DEF TerminalInv, LogInv, LogIsDue
<1>12. QED
  BY <1>7, <1>9, <1>10, <1>11

LEMMA OpenAddFormKeeps ==
  ASSUME TerminalAssumption, TerminalInv, OpenAddForm
  PROVE  TerminalInv'
<1>1. CASE Nothing
  BY <1>1, NothingKeeps DEF OpenAddForm, Key
<1>2. CASE ~Nothing
  <2>1. PICK id \in Profiles : Extended(<<id>>) /\ Opened("form", id)
    BY <1>2 DEF OpenAddForm
  <2>2. ServiceInv' /\ ListInv' /\ LogInv' /\ list'.selectedID = id
    BY <2>1, ExtendedKeeps
  <2>3. loads' \in Seq(Tailscale) /\ asked' = None /\ id # None
    BY <2>1 DEF Extended, OpenAddForm, Key, TerminalInv, SurfaceInv, TerminalAssumption
  <2>4. SurfaceInv'
    BY <2>1, <2>2, <2>3, SurfaceOpened DEF Surfaces
  <2>5. QED
    BY <2>2, <2>4 DEF TerminalInv
<1>3. QED
  BY <1>1, <1>2

LEMMA OpenSurfaceKeeps ==
  ASSUME TerminalAssumption, TerminalInv, OpenEditForm \/ OpenDeleteConfirm \/ OpenExitNodePicker
  PROVE  TerminalInv'
<1>1. PICK surf \in {"form", "confirm", "exitNode"} : OpenSurface(surf)
  BY DEF OpenEditForm, OpenDeleteConfirm, OpenExitNodePicker
<1>2. loads' \in Seq(Tailscale)
  <2>1. loads \in Seq(Tailscale)
    BY DEF TerminalInv, SurfaceInv
  <2>2. QED
    BY <2>1 DEF OpenEditForm, OpenDeleteConfirm, OpenExitNodePicker
<1>3. /\ Opened(surf, list.selectedID) /\ list.selectedID # None /\ asked' = None
      /\ UNCHANGED <<service, view>>
  BY <1>1 DEF OpenSurface, Key, Selected
<1>4. ServiceInv' /\ ListInv' /\ LogInv' /\ list' = list
  BY <1>3, ViewStays
<1>5. SurfaceInv'
  BY <1>1, <1>2, <1>3, <1>4, SelectedIsThere, SurfaceOpened DEF Surfaces
<1>6. QED
  BY <1>4, <1>5 DEF TerminalInv

LEMMA OpenOtherKeeps ==
  ASSUME TerminalAssumption, TerminalInv, OpenOther
  PROVE  TerminalInv'
<1>1. PICK surf \in {"import", "other"} : Opened(surf, None)
  BY DEF OpenOther
<1>2. UNCHANGED <<service, view>> /\ loads' \in Seq(Tailscale) /\ asked' = None
  BY DEF OpenOther, Key, TerminalInv, SurfaceInv
<1>3. ServiceInv' /\ ListInv' /\ LogInv' /\ list' = list
  BY <1>2, ViewStays
<1>4. SurfaceInv'
  BY <1>1, <1>2, SurfaceOpened DEF Surfaces
<1>5. QED
  BY <1>3, <1>4 DEF TerminalInv

-----------------------------------------------------------------------------
(* The keys of the other surfaces. *)

LEMMA EscapeKeeps ==
  ASSUME TerminalAssumption, TerminalInv, Escape
  PROVE  TerminalInv'
<1>1. UNCHANGED <<service, view>> /\ loads' \in Seq(Tailscale) /\ asked' = None /\ Closed
  BY DEF Escape, In, TerminalInv, SurfaceInv
<1>2. QED
  BY <1>1, ViewStays, SurfaceClosed DEF TerminalInv

LEMMA ConfirmDeleteKeeps ==
  ASSUME TerminalAssumption, TerminalInv, ConfirmDelete
  PROVE  TerminalInv'
<1>1. Closed /\ asked' = None /\ loads' \in Seq(Tailscale)
  BY DEF ConfirmDelete, In, TerminalInv, SurfaceInv
<1>2. SurfaceInv'
  BY <1>1, SurfaceClosed
<1>3. CASE UNCHANGED <<service, view>>
  BY <1>2, <1>3, ViewStays DEF TerminalInv
<1>4. CASE ~UNCHANGED <<service, view>>
  <2>1. PICK i \in DOMAIN core :
          /\ core' = RemoveAt(core, i)
          /\ status' = [status EXCEPT ![core[i]] = "stopped"]
          /\ logs' = [logs EXCEPT ![core[i]] = 0]
          /\ due' = due \ {core[i]} /\ Notified(<<core[i]>>)
          /\ list' = Refreshed(Selecting(list, None), RowsOf(core', status'))
          /\ log' = LogOf(list'.selectedID, logs')
    BY <1>4 DEF ConfirmDelete
  <2> DEFINE l == Selecting(list, None)
             next == RemoveAt(core, i)
  <2>2. /\ core \in Seq(Profiles) /\ status \in [Profiles -> Statuses]
        /\ logs \in [Profiles -> 0..MaxLogs] /\ MaxLogs \in Nat /\ list \in List
    BY DEF TerminalInv, ServiceInv, ListInv, TerminalAssumption
  <2>3. core[i] \in Profiles /\ next \in Seq(Profiles)
    BY <2>1, <2>2, RemovedFrom
  <2> HIDE DEF next
  <2>4. core' = next
    BY <2>1 DEF next
  <2>5. ServiceInv'
    <3>1. status' \in [Profiles -> Statuses] /\ logs' \in [Profiles -> 0..MaxLogs]
      BY <2>1, <2>2, <2>3 DEF Statuses
    <3>2. due' \subseteq Profiles
      BY <2>1 DEF TerminalInv, ServiceInv
    <3>3. queue' \in Seq(Profiles) /\ Len(queue') <= Capacity /\ dropped' \in BOOLEAN
      BY <2>1, <2>3, Notified1 DEF TerminalInv
    <3>4. QED
      BY <2>3, <2>4, <3>1, <3>2, <3>3 DEF ServiceInv
  <2>6. l \in List
    BY <2>2 DEF Selecting, List
  <2> HIDE DEF l
  <2>7. status' \in [Profiles -> Statuses] /\ logs' \in [Profiles -> 0..MaxLogs]
    BY <2>5 DEF ServiceInv
  <2>8. list' = Refreshed(l, RowsOf(next, status'))
    BY <2>1, <2>4 DEF l
  <2>9. /\ list' \in List /\ list'.items = RowsOf(next, status') /\ Agrees(list')
        /\ Len(list'.items) = Len(next) /\ \A j \in DOMAIN next : list'.items[j].id = next[j]
    BY <2>3, <2>6, <2>7, <2>8, ListRefreshes
  <2>10. ListInv'
    BY <2>4, <2>9 DEF ListInv, Agrees, RowsAreProfiles, Rows, RowsOf
  <2>11. LogInv'
    <3>1. log' \in [id : Profiles \cup {None}, length : 0..MaxLogs]
      BY <2>1, <2>7, <2>9, LogTyped DEF List
    <3>2. log' = LogOf(list.selectedID, logs)'
      BY <2>1 DEF LogOf
    <3>3. QED
      BY <3>1, <3>2 DEF LogInv
  <2>12. QED
    BY <1>2, <2>5, <2>10, <2>11 DEF TerminalInv
<1>5. QED
  BY <1>3, <1>4

(* A save of the profile that is selected. *)
LEMMA SavesKeeps ==
  ASSUME TerminalAssumption, TerminalInv, list.selectedID # None, Saves(list.selectedID),
         list' = Refreshed(list, RowsOf(core, status')), log' = log
  PROVE  ServiceInv' /\ ListInv' /\ LogInv'
<1> DEFINE id == list.selectedID
<1>1. id \in Profiles
  BY SelectedIsThere
<1>2. UNCHANGED <<core, status, due>>
  BY DEF Saves
<1>3. ListInv' /\ list'.selectedID = list.selectedID
  BY <1>2, ListShown DEF TerminalInv, ServiceInv
<1>4. CASE UNCHANGED <<logs, changes>>
  <2>1. ServiceInv'
    BY <1>2, <1>4 DEF TerminalInv, ServiceInv, changes
  <2>2. LogIsDue => LogIsDue'
    BY <1>2, <1>3, <1>4 DEF LogIsDue, changes
  <2>3. LogInv'
    BY <1>3, <1>4, <2>2, LogWaits DEF TerminalInv, changes
  <2>4. QED
    BY <1>3, <2>1, <2>3
<1>5. CASE Logged(id) /\ Notified(<<id>>)
  <2>1. /\ queue' \in Seq(Profiles) /\ Len(queue') <= Capacity /\ dropped' \in BOOLEAN
        /\ dropped => dropped'
        /\ ~dropped' => \E j \in DOMAIN queue' : queue'[j] = id
    BY <1>1, <1>5, Notified1 DEF TerminalInv
  <2>2. logs' \in [Profiles -> 0..MaxLogs]
    BY <1>1, <1>5, LogsTyped DEF TerminalInv
  <2>3. ServiceInv'
    BY <1>2, <2>1, <2>2 DEF TerminalInv, ServiceInv
  <2>4. ~dropped' => LogIsDue'
    BY <1>3, <2>1 DEF LogIsDue
  <2>5. LogInv'
    BY <1>3, <2>1, <2>4, LogWaits DEF TerminalInv
  <2>6. QED
    BY <1>3, <2>3, <2>5
<1>6. QED
  BY <1>4, <1>5 DEF Saves

LEMMA PickExitNodeKeeps ==
  ASSUME TerminalAssumption, TerminalInv, PickExitNode
  PROVE  TerminalInv'
<1>1. target = list.selectedID /\ list.selectedID # None
  BY DEF PickExitNode, In, TerminalInv, SurfaceInv
<1>2. /\ Saves(target) /\ list' = Refreshed(list, RowsOf(core, status'))
      /\ Closed /\ asked' = None /\ UNCHANGED <<log, loads>>
  BY DEF PickExitNode, In, Rows, Saves
<1>3. ServiceInv' /\ ListInv' /\ LogInv'
  BY <1>1, <1>2, SavesKeeps
<1>4. SurfaceInv'
  BY <1>2, SurfaceClosed DEF TerminalInv, SurfaceInv
<1>5. QED
  BY <1>3, <1>4 DEF TerminalInv

LEMMA SubmitFormKeeps ==
  ASSUME TerminalAssumption, TerminalInv, SubmitForm
  PROVE  TerminalInv'
<1>1. target = list.selectedID /\ list.selectedID # None /\ list \in List
  BY DEF SubmitForm, In, TerminalInv, SurfaceInv, ListInv
<1>2. Selecting(list, target) = list
  BY <1>1 DEF Selecting, List
<1>3. /\ Saves(target) /\ list' = Refreshed(list, RowsOf(core, status'))
      /\ Closed /\ asked' = None /\ UNCHANGED <<log, loads>>
  BY <1>2 DEF SubmitForm, In, Rows, Saves
<1>4. ServiceInv' /\ ListInv' /\ LogInv'
  BY <1>1, <1>3, SavesKeeps
<1>5. SurfaceInv'
  BY <1>3, SurfaceClosed DEF TerminalInv, SurfaceInv
<1>6. QED
  BY <1>4, <1>5 DEF TerminalInv

LEMMA ImportFileKeeps ==
  ASSUME TerminalAssumption, TerminalInv, ImportFile
  PROVE  TerminalInv'
<1>1. Closed /\ asked' = None /\ loads' \in Seq(Tailscale)
  BY DEF ImportFile, In, Extended, TerminalInv, SurfaceInv
<1>2. SurfaceInv'
  BY <1>1, SurfaceClosed
<1>3. CASE UNCHANGED <<service, view, loads>>
  BY <1>2, <1>3, ViewStays DEF TerminalInv
<1>4. CASE \E id \in Profiles : Extended(<<id>>)
  BY <1>2, <1>4, ExtendedKeeps DEF TerminalInv
<1>5. QED
  BY <1>3, <1>4 DEF ImportFile

-----------------------------------------------------------------------------

(* The invariant, through every action. *)
LEMMA TerminalInvariance == ASSUME TerminalAssumption PROVE Spec => []TerminalInv
<1>1. Init => TerminalInv
  BY InitTerminalInv
<1>2. ASSUME TerminalInv, [Next]_vars PROVE TerminalInv'
  <2>1. ASSUME NEW id \in Profiles, RuntimeEvent(id) PROVE TerminalInv'
    BY <1>2, <2>1, RuntimeEventKeeps
  <2>2. ASSUME NEW id \in Profiles, Notify(id) PROVE TerminalInv'
    BY <1>2, <2>2, NotifyKeeps
  <2>3. CASE ChangeMsg
    BY <1>2, <2>3, ChangeMsgKeeps
  <2>4. ASSUME NEW i \in 1..MaxLoads, ExitNodesLoaded(i) \/ ExitNodesErr(i) PROVE TerminalInv'
    BY <1>2, <2>4, ExitNodesKeep
  <2>5. CASE FormMsg \/ EnterField
    BY <1>2, <2>5, FormMovesOn
  <2>6. ASSUME NEW delta \in {-1, 1}, MoveSelection(delta) PROVE TerminalInv'
    BY <1>2, <2>6, MoveSelectionKeeps
  <2>7. CASE Connect \/ ConnectAll \/ Disconnect \/ DisconnectAll
    BY <1>2, <2>7, ConnectKeeps, ConnectAllKeeps, DisconnectKeeps, DisconnectAllKeeps
  <2>8. CASE OpenAddForm \/ OpenEditForm \/ OpenDeleteConfirm \/ OpenExitNodePicker \/ OpenOther
    BY <1>2, <2>8, OpenAddFormKeeps, OpenSurfaceKeeps, OpenOtherKeeps
  <2>9. CASE Escape \/ ConfirmDelete \/ PickExitNode \/ ImportFile \/ SubmitForm
    BY <1>2, <2>9, EscapeKeeps, ConfirmDeleteKeeps, PickExitNodeKeeps, ImportFileKeeps,
       SubmitFormKeeps
  <2>10. CASE UNCHANGED vars
    <3>1. Nothing /\ asked' = asked
      BY <2>10 DEF vars, Nothing, service, changes, view, surface
    <3>2. QED
      BY <1>2, <3>1, NothingKeeps DEF TerminalInv, SurfaceInv
  <2>11. QED
    BY <1>2, <2>1, <2>2, <2>3, <2>4, <2>5, <2>6, <2>7, <2>8, <2>9, <2>10 DEF Next
<1>3. QED
  BY <1>1, <1>2, PTL DEF Spec

(* Whatever is connected, added, imported, deleted or saved, and however    *)
(* late the changes and the exit nodes come in, the terminal's cursor, list *)
(* and log are those of the service once no change is under way, and its    *)
(* picker offers the nodes of the profile they are saved in.                *)
THEOREM TerminalCurrent ==
  ASSUME TerminalAssumption
  PROVE  Spec => [](/\ TypeOK /\ SelectionAgrees /\ QuietIsCurrent /\ QuietLogIsShown
                    /\ OfferedForTarget)
<1>1. ASSUME TerminalInv
      PROVE  TypeOK /\ SelectionAgrees /\ QuietIsCurrent /\ QuietLogIsShown /\ OfferedForTarget
  <2>1. TypeOK
    BY <1>1 DEF TerminalInv, ServiceInv, ListInv, LogInv, SurfaceInv, List, TypeOK
  <2>2. SelectionAgrees /\ QuietIsCurrent
    BY <1>1 DEF TerminalInv, ListInv, Agrees, SelectionAgrees, QuietIsCurrent, Quiet
  <2>3. QuietLogIsShown
    <3>1. Quiet => ~LogIsDue
      BY DEF Quiet, LogIsDue
    <3>2. QED
      BY <1>1, <3>1 DEF TerminalInv, LogInv, QuietLogIsShown
  <2>4. QED
    BY <1>1, <2>1, <2>2, <2>3 DEF TerminalInv, SurfaceInv
<1>2. QED
  BY <1>1, TerminalInvariance, PTL
-----------------------------------------------------------------------------
(* The login service: its calls, what the panel shows, what installers leave. *)

(* Which call is at which command, and what follows it.                     *)
LEMMA Programs ==
  ASSUME Login!TypeOK, Login!CallInv, NEW s \in Slots, ~Login!Free(s), ~Login!At(s, "done")
  PROVE  \/ /\ calls[s].op = "install"
            /\ \/ Login!At(s, "check") /\ Login!Following(s) = "resolve"
               \/ Login!At(s, "resolve") /\ Login!Following(s) = "write"
               \/ Login!At(s, "write") /\
                    Login!Following(s) = (IF Login!Linux THEN "reread" ELSE "reload")
               \/ Login!At(s, "reread") /\ Login!Linux /\ Login!Following(s) = "enable"
               \/ Login!At(s, "enable") /\ Login!Linux /\ Login!Following(s) = "done"
               \/ Login!At(s, "reload") /\ ~Login!Linux /\ Login!Following(s) = "load"
               \/ Login!At(s, "load") /\ ~Login!Linux /\ Login!Following(s) = "done"
         \/ /\ calls[s].op = "uninstall"
            /\ \/ Login!At(s, "stat") /\
                    Login!Following(s) = (IF Login!Linux THEN "stop" ELSE "unload")
               \/ Login!At(s, "stop") /\ Login!Linux /\ Login!Following(s) = "disable"
               \/ Login!At(s, "disable") /\ Login!Linux /\ Login!Following(s) = "remove"
               \/ Login!At(s, "unload") /\ ~Login!Linux /\ Login!Following(s) = "remove"
               \/ Login!At(s, "remove") /\
                    Login!Following(s) = (IF Login!Linux THEN "reread" ELSE "done")
               \/ Login!At(s, "reread") /\ Login!Linux /\ Login!Following(s) = "done"
         \/ /\ calls[s].op = "status"
            /\ \/ Login!At(s, "look") /\
                    Login!Following(s) = (IF Login!Linux THEN "isEnabled" ELSE "list")
               \/ Login!At(s, "isEnabled") /\ Login!Linux /\ Login!Following(s) = "isActive"
               \/ Login!At(s, "isActive") /\ Login!Linux /\ Login!Following(s) = "done"
               \/ Login!At(s, "list") /\ ~Login!Linux /\ Login!Following(s) = "done"
<1>1. calls[s].op \in {"install", "uninstall", "status"}
  BY DEF Login!TypeOK, Login!Call, Login!Free
<1>2. calls[s].step \in DOMAIN Login!Steps(calls[s].op)
  BY DEF Login!CallInv, Login!At
<1>3. CASE calls[s].op = "install"
  BY <1>2, <1>3 DEF Login!At, Login!Following, Login!Steps, Login!LinuxInstall, Login!DarwinInstall
<1>4. CASE calls[s].op = "uninstall"
  BY <1>2, <1>4 DEF Login!At, Login!Following, Login!Steps, Login!LinuxUninstall,
     Login!DarwinUninstall
<1>5. CASE calls[s].op = "status"
  BY <1>2, <1>5 DEF Login!At, Login!Following, Login!Steps, Login!LinuxStatus, Login!DarwinStatus
<1> QED
  BY <1>1, <1>3, <1>4, <1>5

(* What follows a command of a program is one of it, or its end.            *)
LEMMA FollowingIsNext ==
  ASSUME Login!TypeOK, Login!CallInv, NEW s \in Slots, ~Login!Free(s), ~Login!At(s, "done")
  PROVE  /\ Login!Following(s) \in DOMAIN Login!Steps(calls[s].op) \cup {"done"}
         /\ Login!Following(s) \in Login!Commands
<1>1. CASE calls[s].op = "install"
  BY <1>1, Programs DEF Login!Steps, Login!LinuxInstall, Login!DarwinInstall, Login!Commands
<1>2. CASE calls[s].op = "uninstall"
  BY <1>2, Programs DEF Login!Steps, Login!LinuxUninstall, Login!DarwinUninstall, Login!Commands
<1>3. CASE calls[s].op = "status"
  BY <1>3, Programs DEF Login!Steps, Login!LinuxStatus, Login!DarwinStatus, Login!Commands
<1> QED
  BY <1>1, <1>2, <1>3, Programs

(* A call that moves on stays the call it was.                              *)
SameCall(s) ==
  /\ calls' \in [Slots -> Login!Call]
  /\ \A t \in Slots \ {s} : calls'[t] = calls[t]
  /\ calls'[s].op = calls[s].op /\ calls'[s].from = calls[s].from
  /\ calls'[s].gen = calls[s].gen /\ calls'[s].force = calls[s].force

LEMMA StepMoves ==
  ASSUME Login!TypeOK, NEW s \in Slots, NEW step \in Login!Commands,
         calls' = [calls EXCEPT ![s].step = step]
  PROVE  /\ SameCall(s) /\ calls'[s].step = step /\ calls'[s].err = calls[s].err
         /\ calls'[s].status = calls[s].status /\ calls'[s].wrote = calls[s].wrote
<1>1. calls \in [Slots -> Login!Call]
  BY DEF Login!TypeOK
<1>2. calls'[s] = [calls[s] EXCEPT !.step = step] /\ \A t \in Slots \ {s} : calls'[t] = calls[t]
  BY <1>1
<1>3. calls' = [t \in Slots |-> IF t = s THEN [calls[s] EXCEPT !.step = step] ELSE calls[t]]
  BY <1>1
<1>4. [calls[s] EXCEPT !.step = step] \in Login!Call
  BY <1>1 DEF Login!Call
<1> QED
  BY <1>1, <1>2, <1>3, <1>4 DEF SameCall, Login!Call

LEMMA StatusMoves ==
  ASSUME Login!TypeOK, NEW s \in Slots, NEW step \in Login!Commands, NEW answer \in Login!Status,
         calls' = [calls EXCEPT ![s].step = step, ![s].status = answer]
  PROVE  /\ SameCall(s) /\ calls'[s].step = step /\ calls'[s].err = calls[s].err
         /\ calls'[s].status = answer /\ calls'[s].wrote = calls[s].wrote
<1>1. calls \in [Slots -> Login!Call]
  BY DEF Login!TypeOK
<1>2. calls'[s] = [calls[s] EXCEPT !.step = step, !.status = answer]
      /\ \A t \in Slots \ {s} : calls'[t] = calls[t]
  BY <1>1
<1>3. calls' = [t \in Slots |-> IF t = s THEN [calls[s] EXCEPT !.step = step, !.status = answer]
                                ELSE calls[t]]
  BY <1>1
<1>4. [calls[s] EXCEPT !.step = step, !.status = answer] \in Login!Call
  BY <1>1 DEF Login!Call
<1>5. calls' \in [Slots -> Login!Call]
  BY <1>1, <1>3, <1>4
<1>6. calls[s] \in Login!Call
  BY <1>1
<1>10. {"op", "from", "gen", "force", "wrote", "err"} \subseteq DOMAIN calls[s] \ {"step", "status"}
  BY <1>6 DEF Login!Call
<1>11. \A field \in DOMAIN calls[s] \ {"step", "status"} : calls'[s][field] = calls[s][field]
  BY <1>2
<1>7. /\ calls'[s].op = calls[s].op /\ calls'[s].from = calls[s].from
      /\ calls'[s].gen = calls[s].gen /\ calls'[s].force = calls[s].force
  BY <1>10, <1>11
<1>8. calls'[s].step = step /\ calls'[s].status = answer
  BY <1>2, <1>6 DEF Login!Call
<1>9. calls'[s].wrote = calls[s].wrote /\ calls'[s].err = calls[s].err
  BY <1>10, <1>11
<1> QED
  BY <1>2, <1>5, <1>7, <1>8, <1>9 DEF SameCall

LEMMA ReturnMoves ==
  ASSUME Login!TypeOK, NEW s \in Slots, NEW err \in Login!Errors, Login!Returns(s, err)
  PROVE  /\ SameCall(s) /\ calls'[s].step = "done" /\ calls'[s].err = err
         /\ calls'[s].status = calls[s].status /\ calls'[s].wrote = calls[s].wrote
<1>1. calls \in [Slots -> Login!Call] /\ "done" \in Login!Commands
  BY DEF Login!TypeOK, Login!Commands
<1>2. calls'[s] = [calls[s] EXCEPT !.step = "done", !.err = err]
      /\ \A t \in Slots \ {s} : calls'[t] = calls[t]
  BY <1>1 DEF Login!Returns
<1>3. calls' = [t \in Slots |-> IF t = s THEN [calls[s] EXCEPT !.step = "done", !.err = err]
                                ELSE calls[t]]
  BY <1>1 DEF Login!Returns
<1>4. [calls[s] EXCEPT !.step = "done", !.err = err] \in Login!Call
  BY <1>1 DEF Login!Call
<1> QED
  BY <1>1, <1>2, <1>3, <1>4 DEF SameCall, Login!Call
LEMMA BusyAt ==
  ASSUME Login!TypeOK, Login!CallInv, NEW s \in Slots, NEW step \in Login!Commands \ {"", "done"},
           Login!At(s, step)
  PROVE  ~Login!Free(s) /\ ~Login!At(s, "done")
<1>1. calls[s].step = step /\ step # "" /\ step # "done"
  BY DEF Login!At
<1>2. ASSUME Login!Free(s) PROVE FALSE
  <2>1. calls[s] = Login!NoCall
    BY <1>2 DEF Login!CallInv
  <2>2. Login!NoCall.step = ""
    BY DEF Login!NoCall
  <2> QED
    BY <1>1, <2>1, <2>2
<1> QED
  BY <1>1, <1>2 DEF Login!At

ServiceTyped ==
  /\ file \in Login!Versions /\ daemon \in Login!Versions
  /\ manager \in [loaded : Login!Versions, enabled : BOOLEAN, wanted : BOOLEAN]

LEMMA GoesOn ==
  ASSUME Login!TypeOK, Login!CallInv, NEW s \in Slots, ~Login!Free(s), ~Login!At(s, "done"),
           Login!Goes(s)
  PROVE  /\ SameCall(s) /\ calls'[s].step = Login!Following(s) /\ calls'[s].err = calls[s].err
         /\ calls'[s].status = calls[s].status /\ calls'[s].wrote = calls[s].wrote
         /\ calls'[s].step \in DOMAIN Login!Steps(calls[s].op) \cup {"done"}
<1>1. Login!Following(s) \in DOMAIN Login!Steps(calls[s].op) \cup {"done"} /\
        Login!Following(s) \in Login!Commands
  BY FollowingIsNext
<1> QED
  BY <1>1, StepMoves DEF Login!Goes

(* What every command of a call keeps.                                      *)
LEMMA WorkMoves ==
  ASSUME Login!LoginServiceAssumption, Login!TypeOK, Login!CallInv, Login!JobInv, NEW s \in Slots,
           Login!Work(s)
  PROVE  /\ ~Login!Free(s) /\ ~Login!At(s, "done") /\ SameCall(s)
         /\ calls'[s].step \in DOMAIN Login!Steps(calls[s].op) \cup {"done"}
         /\ ServiceTyped' /\ Login!JobInv'
<1> DEFINE MovesOn == /\ ~Login!Free(s) /\ ~Login!At(s, "done") /\ SameCall(s)
                    /\ calls'[s].step \in DOMAIN Login!Steps(calls[s].op) \cup {"done"}
                    /\ ServiceTyped' /\ Login!JobInv'
<1>0. platform' = platform
  BY DEF Login!Work, Login!world
<1>1. /\ ServiceTyped /\ platform' = platform
      /\ calls[s] \in Login!Call /\ 0 \in Login!Versions
  <2>1. 0 \in Login!Versions
    BY DEF Login!Versions, Login!LoginServiceAssumption
  <2> QED
    BY <1>0, <2>1 DEF Login!TypeOK, ServiceTyped
<1>2. (UNCHANGED Login!service) => ServiceTyped' /\ Login!JobInv'
  BY <1>1 DEF Login!service, ServiceTyped, Login!JobInv, Login!Linux
<1>3. CASE Login!CheckLock(s)
  <2>1. Login!At(s, "check") /\ UNCHANGED Login!service
    BY <1>3 DEF Login!CheckLock
  <2>2. ~Login!Free(s) /\ ~Login!At(s, "done")
    BY <2>1, BusyAt DEF Login!Commands
  <2>3. Login!Goes(s) \/ Login!Returns(s, "locked")
    BY <1>3 DEF Login!CheckLock
  <2> QED
    BY <1>2, <2>1, <2>2, <2>3, GoesOn, ReturnMoves DEF Login!Errors
<1>4. CASE Login!Resolve(s)
  <2>1. Login!At(s, "resolve") /\ UNCHANGED Login!service
        /\ calls' = [calls EXCEPT ![s].step = Login!Following(s), ![s].wrote = binary]
    BY <1>4 DEF Login!Resolve
  <2>2. ~Login!Free(s) /\ ~Login!At(s, "done")
    BY <2>1, BusyAt DEF Login!Commands
  <2>3. Login!Following(s) \in DOMAIN Login!Steps(calls[s].op) \cup {"done"} /\
          Login!Following(s) \in Login!Commands
    BY <2>2, FollowingIsNext
  <2>4. SameCall(s) /\ calls'[s].step = Login!Following(s)
    <3>1. [calls[s] EXCEPT !.step = Login!Following(s), !.wrote = binary] \in Login!Call
      BY <2>3, <1>1 DEF Login!Call, Login!TypeOK
    <3>2. calls' = [calls EXCEPT ![s] = [calls[s] EXCEPT !.step = Login!Following(s),
            !.wrote = binary]]
      BY <2>1 DEF Login!TypeOK
    <3> QED
      BY <1>1, <3>1, <3>2 DEF SameCall, Login!Call, Login!TypeOK
  <2> QED
    BY <1>2, <2>1, <2>2, <2>3, <2>4
<1>5. CASE Login!WriteFile(s)
  <2>1. Login!At(s, "write") /\ file' = calls[s].wrote /\ UNCHANGED <<manager, daemon>>
    BY <1>5 DEF Login!WriteFile
  <2>2. ~Login!Free(s) /\ ~Login!At(s, "done")
    BY <2>1, BusyAt DEF Login!Commands
  <2>3. Login!Following(s) = (IF Login!Linux THEN "reread" ELSE "reload") /\ calls[s].op = "install"
    BY <2>1, <2>2, Programs DEF Login!At
  <2>4. PICK step \in {Login!Following(s), "load"} :
          calls' = [calls EXCEPT ![s].step = step] /\ (step = "load" => ~Login!Linux)
    BY <1>5, <2>3 DEF Login!WriteFile
  <2>5. step \in DOMAIN Login!Steps(calls[s].op) /\ step \in Login!Commands
    BY <2>3, <2>4 DEF Login!Steps, Login!LinuxInstall, Login!DarwinInstall, Login!Commands
  <2>6. ServiceTyped' /\ Login!JobInv'
    BY <1>1, <2>1 DEF ServiceTyped, Login!JobInv, Login!Linux, Login!Call
  <2> QED
    BY <2>2, <2>4, <2>5, <2>6, StepMoves
<1>6. CASE Login!Stat(s)
  <2>1. Login!At(s, "stat") /\ UNCHANGED Login!service
    BY <1>6 DEF Login!Stat
  <2>2. ~Login!Free(s) /\ ~Login!At(s, "done")
    BY <2>1, BusyAt DEF Login!Commands
  <2>3. Login!Goes(s) \/ Login!Returns(s, "")
    BY <1>6 DEF Login!Stat
  <2> QED
    BY <1>2, <2>1, <2>2, <2>3, GoesOn, ReturnMoves DEF Login!Errors
<1>7. CASE Login!RemoveFile(s)
  <2>1. Login!At(s, "remove") /\ Login!Goes(s) /\ file' = 0 /\ UNCHANGED <<manager, daemon>>
    BY <1>7 DEF Login!RemoveFile
  <2>2. ~Login!Free(s) /\ ~Login!At(s, "done")
    BY <2>1, BusyAt DEF Login!Commands
  <2>3. ServiceTyped' /\ Login!JobInv'
    BY <1>1, <2>1 DEF ServiceTyped, Login!JobInv, Login!Linux
  <2> QED
    BY <2>1, <2>2, <2>3, GoesOn
<1>8. CASE Login!DaemonReload(s)
  <2>1. /\ Login!At(s, "reread") /\ Login!Goes(s) /\ UNCHANGED <<file, daemon>>
        /\ manager' = [manager EXCEPT !.loaded = file]
    BY <1>8 DEF Login!DaemonReload
  <2>2. ~Login!Free(s) /\ ~Login!At(s, "done")
    BY <2>1, BusyAt DEF Login!Commands
  <2>3. Login!Linux
    BY <2>1, <2>2, Programs DEF Login!At
  <2>4. ServiceTyped' /\ Login!JobInv'
    BY <1>1, <2>1, <2>3 DEF ServiceTyped, Login!JobInv, Login!Linux
  <2> QED
    BY <2>1, <2>2, <2>4, GoesOn
<1>9. CASE Login!EnableNow(s)
  <2>1. /\ Login!At(s, "enable") /\ UNCHANGED <<file, daemon>>
        /\ \/ Login!Returns(s, "failed") /\ UNCHANGED manager
           \/ /\ Login!Goes(s)
              /\ manager' = [loaded |-> IF manager.loaded = 0 THEN file ELSE manager.loaded,
                             enabled |-> TRUE, wanted |-> TRUE]
    BY <1>9 DEF Login!EnableNow
  <2>2. ~Login!Free(s) /\ ~Login!At(s, "done")
    BY <2>1, BusyAt DEF Login!Commands
  <2>3. Login!Linux
    BY <2>1, <2>2, Programs DEF Login!At
  <2>4. ServiceTyped' /\ Login!JobInv'
    <3>1. ServiceTyped'
      <4>1. CASE manager' = manager
        BY <1>1, <2>1, <4>1 DEF ServiceTyped
      <4>2. CASE manager.loaded = 0 /\ manager' = [loaded |-> file, enabled |-> TRUE,
                   wanted |-> TRUE]
        BY <1>1, <2>1, <4>2 DEF ServiceTyped
      <4>3. CASE manager' = [loaded |-> manager.loaded, enabled |-> TRUE, wanted |-> TRUE]
        BY <1>1, <2>1, <4>3 DEF ServiceTyped
      <4> QED
        BY <2>1, <4>1, <4>2, <4>3
    <3> QED
      BY <1>1, <2>3, <3>1 DEF Login!JobInv, Login!Linux
  <2> QED
    BY <2>1, <2>2, <2>4, GoesOn, ReturnMoves DEF Login!Errors
<1>10. CASE Login!Stop(s)
  <2>1. /\ Login!At(s, "stop") /\ UNCHANGED file
        /\ \/ Login!Returns(s, "failed") /\ UNCHANGED <<manager, daemon>>
           \/ Login!Goes(s) /\ manager' = [manager EXCEPT !.wanted = FALSE] /\ daemon' = 0
    BY <1>10 DEF Login!Stop
  <2>2. ~Login!Free(s) /\ ~Login!At(s, "done")
    BY <2>1, BusyAt DEF Login!Commands
  <2>3. Login!Linux
    BY <2>1, <2>2, Programs DEF Login!At
  <2>4. ServiceTyped' /\ Login!JobInv'
    BY <1>1, <2>1, <2>3 DEF ServiceTyped, Login!JobInv, Login!Linux
  <2> QED
    BY <2>1, <2>2, <2>4, GoesOn, ReturnMoves DEF Login!Errors
<1>11. CASE Login!Disable(s)
  <2>1. /\ Login!At(s, "disable") /\ UNCHANGED <<file, daemon>>
        /\ \/ Login!Returns(s, "failed") /\ UNCHANGED manager
           \/ Login!Goes(s) /\ manager' = [manager EXCEPT !.enabled = FALSE]
    BY <1>11 DEF Login!Disable
  <2>2. ~Login!Free(s) /\ ~Login!At(s, "done")
    BY <2>1, BusyAt DEF Login!Commands
  <2>3. Login!Linux
    BY <2>1, <2>2, Programs DEF Login!At
  <2>4. ServiceTyped' /\ Login!JobInv'
    BY <1>1, <2>1, <2>3 DEF ServiceTyped, Login!JobInv, Login!Linux
  <2> QED
    BY <2>1, <2>2, <2>4, GoesOn, ReturnMoves DEF Login!Errors
<1>12. CASE Login!Unload(s)
  <2>1. /\ Login!At(s, "unload") \/ Login!At(s, "reload")
        /\ Login!Goes(s) /\ UNCHANGED file /\ daemon' = 0
        /\ manager' = [manager EXCEPT !.loaded = 0, !.enabled = FALSE, !.wanted = FALSE]
    BY <1>12 DEF Login!Unload
  <2>2. ~Login!Free(s) /\ ~Login!At(s, "done")
    BY <2>1, BusyAt DEF Login!Commands
  <2>4. ServiceTyped' /\ Login!JobInv'
    BY <1>1, <2>1 DEF ServiceTyped, Login!JobInv, Login!Linux
  <2> QED
    BY <2>1, <2>2, <2>4, GoesOn
<1>13. CASE Login!LoadJob(s)
  <2>1. /\ Login!At(s, "load") /\ UNCHANGED <<file, daemon>>
        /\ \/ Login!Returns(s, "failed") /\ UNCHANGED manager
           \/ /\ Login!Goes(s) /\ file # 0
              /\ manager' = IF manager.loaded # 0 THEN manager
                            ELSE [loaded |-> file, enabled |-> TRUE, wanted |-> TRUE]
    BY <1>13 DEF Login!LoadJob
  <2>2. ~Login!Free(s) /\ ~Login!At(s, "done")
    BY <2>1, BusyAt DEF Login!Commands
  <2>3. ~Login!Linux
    BY <2>1, <2>2, Programs DEF Login!At
  <2>4. ServiceTyped' /\ Login!JobInv'
    <3>1. CASE manager' = manager
      BY <1>2, <2>1, <3>1 DEF Login!service
    <3>2. CASE manager' = [loaded |-> file, enabled |-> TRUE, wanted |-> TRUE] /\ file # 0
      <4>1. manager'.loaded = file /\ manager'.enabled = TRUE /\ manager'.wanted = TRUE
        BY <3>2
      <4>2. ServiceTyped'
        BY <1>1, <2>1, <3>2 DEF ServiceTyped
      <4> QED
        BY <3>2, <4>1, <4>2, Zenon DEF Login!JobInv
    <3> QED
      BY <2>1, <3>1, <3>2
  <2> QED
    BY <2>1, <2>2, <2>4, GoesOn, ReturnMoves DEF Login!Errors
<1>14. CASE Login!Look(s)
  <2>1. /\ Login!At(s, "look") /\ UNCHANGED Login!service
        /\ calls' = [calls EXCEPT ![s].step = IF file = 0 THEN "done" ELSE Login!Following(s),
                                  ![s].status.installed = file # 0]
    BY <1>14 DEF Login!Look
  <2>2. ~Login!Free(s) /\ ~Login!At(s, "done")
    BY <2>1, BusyAt DEF Login!Commands
  <2>3. Login!Following(s) \in DOMAIN Login!Steps(calls[s].op) \cup {"done"} /\
          Login!Following(s) \in Login!Commands
    BY <2>2, FollowingIsNext
  <2> DEFINE step == IF file = 0 THEN "done" ELSE Login!Following(s)
             answer == [calls[s].status EXCEPT !.installed = file # 0]
  <2>4. calls' = [calls EXCEPT ![s].step = step, ![s].status = answer]
    BY <2>1
  <2>5. answer \in Login!Status /\ step \in DOMAIN Login!Steps(calls[s].op) \cup {"done"} /\
          step \in Login!Commands
    BY <1>1, <2>3 DEF Login!Status, Login!Call, Login!Commands
  <2> HIDE DEF step, answer
  <2>6. SameCall(s) /\ calls'[s].step = step
    BY <2>4, <2>5, StatusMoves
  <2> QED
    BY <1>2, <2>1, <2>2, <2>5, <2>6
<1>15. CASE Login!QueryState(s)
  <2>1. /\ Login!At(s, "isEnabled") \/ Login!At(s, "isActive")
        /\ UNCHANGED Login!service
        /\ calls' = [calls EXCEPT
             ![s].step = Login!Following(s),
             ![s].status = IF Login!At(s, "isEnabled") THEN [@ EXCEPT !.enabled = manager.enabled]
                                                  ELSE [@ EXCEPT !.running = daemon # 0]]
    BY <1>15 DEF Login!QueryState
  <2>2. ~Login!Free(s) /\ ~Login!At(s, "done")
    BY <2>1, BusyAt DEF Login!Commands
  <2>3. Login!Following(s) \in DOMAIN Login!Steps(calls[s].op) \cup {"done"} /\
          Login!Following(s) \in Login!Commands
    BY <2>2, FollowingIsNext
  <2> DEFINE answer == IF Login!At(s, "isEnabled")
                       THEN [calls[s].status EXCEPT !.enabled = manager.enabled]
                       ELSE [calls[s].status EXCEPT !.running = daemon # 0]
  <2>4. calls' = [calls EXCEPT ![s].step = Login!Following(s), ![s].status = answer]
    BY <2>1
  <2>5. answer \in Login!Status
    BY <1>1 DEF Login!Status, Login!Call, ServiceTyped
  <2> HIDE DEF answer
  <2>6. SameCall(s) /\ calls'[s].step = Login!Following(s)
    BY <2>3, <2>4, <2>5, StatusMoves
  <2> QED
    BY <1>2, <2>1, <2>2, <2>3, <2>6
<1>16. CASE Login!ListJob(s)
  <2>1. /\ Login!At(s, "list") /\ UNCHANGED Login!service
        /\ calls' = [calls EXCEPT ![s].step = Login!Following(s),
                                  ![s].status.enabled = manager.loaded # 0,
                                  ![s].status.running = manager.loaded # 0 /\ daemon # 0]
    BY <1>16 DEF Login!ListJob
  <2>2. ~Login!Free(s) /\ ~Login!At(s, "done")
    BY <2>1, BusyAt DEF Login!Commands
  <2>3. Login!Following(s) \in DOMAIN Login!Steps(calls[s].op) \cup {"done"} /\
          Login!Following(s) \in Login!Commands
    BY <2>2, FollowingIsNext
  <2> DEFINE answer == [calls[s].status EXCEPT !.enabled = manager.loaded # 0,
                                               !.running = manager.loaded # 0 /\ daemon # 0]
  <2>4. calls' = [calls EXCEPT ![s].step = Login!Following(s), ![s].status = answer]
    BY <2>1
  <2>5. answer \in Login!Status
    BY <1>1 DEF Login!Status, Login!Call
  <2> HIDE DEF answer
  <2>6. SameCall(s) /\ calls'[s].step = Login!Following(s)
    BY <2>3, <2>4, <2>5, StatusMoves
  <2> QED
    BY <1>2, <2>1, <2>2, <2>3, <2>6
<1> QED
  BY <1>3, <1>4, <1>5, <1>6, <1>7, <1>8, <1>9, <1>10, <1>11, <1>12, <1>13, <1>14, <1>15, <1>16
     DEF Login!Work
Recorded == truths' = IF panel'.gen # panel.gen THEN {Login!Actual'} ELSE truths \cup {Login!Actual'}

(* No call has begun or come back. *)
SameCalls ==
  \A s \in Slots :
    /\ calls'[s].op = calls[s].op /\ calls'[s].from = calls[s].from
    /\ calls'[s].gen = calls[s].gen

LEMMA PanelFrame ==
  ASSUME Login!PanelInv, Recorded, panel' = panel, SameCalls,
         \A s \in Slots : Login!Current(s) /\ calls[s].op = "status" =>
           \A field \in Login!Read(calls'[s]) : \E t \in truths' : t[field] = calls'[s].status[field]
  PROVE  Login!PanelInv'
<1>1. truths \subseteq truths' /\ Login!Actual' \in truths'
  BY DEF Recorded
<1>2. \A s \in Slots : /\ Login!Current(s)' <=> Login!Current(s)
                       /\ calls'[s].op = calls[s].op
  BY DEF Login!Current, SameCalls
<1>3. Login!ShownWasTrue'
  <2>1. Login!ShownWasTrue
    BY DEF Login!PanelInv
  <2> QED
    BY <1>1, <2>1 DEF Login!ShownWasTrue, Login!Seen
<1>4. Login!PanelIsServed'
  BY DEF Login!PanelInv, Login!PanelIsServed, SameCalls
<1>5. \A s \in Slots : Login!Current(s)' /\ calls'[s].op = "status" =>
        Login!Seen(calls[s].status, Login!Read(calls[s]))'
  BY <1>2 DEF Login!Seen
<1>6. panel'.open => \A s \in Slots : Login!Current(s)' =>
       /\ IF calls'[s].op = "status" THEN panel'.loading ELSE panel'.busy
       /\ \A t \in Slots : Login!Current(t)' => s = t
  BY <1>2 DEF Login!PanelInv
<1>7. ~(panel'.loading /\ panel'.busy) /\ (panel'.busy => panel'.err # "failed")
  BY DEF Login!PanelInv
<1> QED
  BY <1>1, <1>3, <1>4, <1>5, <1>6, <1>7 DEF Login!PanelInv

LEMMA ActionFrame ==
  ASSUME Login!OneAction, tray' = tray, SameCalls
  PROVE  Login!OneAction'
BY DEF Login!OneAction, SameCalls

LEMMA CallFrame ==
  ASSUME Login!CallInv, panel' = panel, platform' = platform, NEW s \in Slots, ~Login!Free(s),
           SameCall(s),
         calls'[s].step \in DOMAIN Login!Steps(calls[s].op) \cup {"done"}
  PROVE  Login!CallInv'
<1> USE DEF Login!Free, Login!Steps, Login!Linux
<1>1. ASSUME NEW t \in Slots
      PROVE  (IF Login!Free(t) THEN calls[t] = Login!NoCall
              ELSE /\ calls[t].step \in DOMAIN Login!Steps(calls[t].op) \cup {"done"}
                   /\ IF calls[t].from = "tui" THEN calls[t].gen <= panel.gen
                      ELSE calls[t].from = "gui" /\ Login!Mutates(calls[t].op))'
  <2>1. CASE t = s
    BY <2>1 DEF Login!CallInv, SameCall, Login!Mutates
  <2>2. CASE t # s
    <3>1. calls'[t] = calls[t]
      BY <2>2 DEF SameCall
    <3> QED
      BY <3>1 DEF Login!CallInv, Login!NoCall, Login!NoStatus, Login!Mutates
  <2> QED
    BY <2>1, <2>2
<1> QED
  BY <1>1 DEF Login!CallInv

(* What a status call has read was so when it read it.                      *)
LEMMA StatusSeen ==
  ASSUME Login!LoginServiceAssumption, Login!TypeOK, Login!CallInv, Login!JobInv, Login!PanelInv,
           Recorded, panel' = panel,
         NEW s \in Slots, Login!Work(s), Login!Current(s), calls[s].op = "status"
  PROVE  \A field \in Login!Read(calls'[s]) : \E t \in truths' : t[field] = calls'[s].status[field]
<1>1. truths \subseteq truths' /\ Login!Actual' \in truths' /\ platform' = platform
  BY DEF Recorded, Login!Work, Login!world
<1>2. Login!Seen(calls[s].status, Login!Read(calls[s])) /\ calls \in [Slots -> Login!Call] /\
        calls[s] \in Login!Call
  BY DEF Login!PanelInv, Login!TypeOK
<1>3. ~Login!Free(s)
  BY DEF Login!Free
<1>4. ~Login!At(s, "done")
  BY WorkMoves
<1>5. \/ Login!At(s, "look") /\ Login!Following(s) \in {"isEnabled", "list"}
      \/ Login!At(s, "isEnabled") /\ Login!Following(s) = "isActive"
      \/ Login!At(s, "isActive") /\ Login!Following(s) = "done"
      \/ Login!At(s, "list") /\ Login!Following(s) = "done" /\ ~Login!Linux
  BY <1>3, <1>4, Programs
<1>6. Login!Actual'.installed = (file' # 0) /\ Login!Actual'.enabled = manager'.enabled
      /\ Login!Actual'.running = (daemon' # 0)
  BY DEF Login!Actual
<1> USE DEF Login!At
<1>7. CASE Login!At(s, "look")
  <2>1. Login!Look(s)
    BY <1>7 DEF Login!Work, Login!CheckLock, Login!Resolve, Login!WriteFile, Login!Stat,
       Login!RemoveFile, Login!DaemonReload,
                Login!EnableNow, Login!Stop, Login!Disable, Login!Unload, Login!LoadJob,
                    Login!QueryState, Login!ListJob
  <2>2. /\ calls'[s].status.installed = (file # 0) /\ UNCHANGED Login!service
        /\ calls'[s].step = IF file = 0 THEN "done" ELSE Login!Following(s)
    BY <1>2, <2>1 DEF Login!Look, Login!Call, Login!Status
  <2>3. Login!Read(calls'[s]) \subseteq {"installed"}
    BY <1>5, <1>7, <2>2 DEF Login!Read, Login!Shown
  <2> QED
    BY <1>1, <1>6, <2>2, <2>3 DEF Login!service
<1>8. CASE Login!At(s, "isEnabled")
  <2>1. Login!QueryState(s)
    BY <1>8 DEF Login!Work, Login!CheckLock, Login!Resolve, Login!WriteFile, Login!Stat,
       Login!RemoveFile, Login!DaemonReload,
                Login!EnableNow, Login!Stop, Login!Disable, Login!Unload, Login!LoadJob,
                    Login!Look, Login!ListJob
  <2>2. /\ calls'[s].status.installed = calls[s].status.installed
        /\ calls'[s].status.enabled = manager.enabled
        /\ calls'[s].step = "isActive" /\ UNCHANGED Login!service
    BY <1>2, <1>5, <1>8, <2>1 DEF Login!QueryState, Login!Call, Login!Status
  <2>3. Login!Read(calls'[s]) = {"installed", "enabled"} /\ Login!Read(calls[s]) = {"installed"}
    BY <1>8, <2>2 DEF Login!Read
  <2> QED
    BY <1>1, <1>2, <1>6, <2>2, <2>3 DEF Login!service, Login!Seen
<1>9. CASE Login!At(s, "isActive")
  <2>1. Login!QueryState(s)
    BY <1>9 DEF Login!Work, Login!CheckLock, Login!Resolve, Login!WriteFile, Login!Stat,
       Login!RemoveFile, Login!DaemonReload,
                Login!EnableNow, Login!Stop, Login!Disable, Login!Unload, Login!LoadJob,
                    Login!Look, Login!ListJob
  <2>2. /\ calls'[s].status.installed = calls[s].status.installed
        /\ calls'[s].status.enabled = calls[s].status.enabled
        /\ calls'[s].status.running = (daemon # 0)
        /\ calls'[s].step = "done" /\ UNCHANGED Login!service
    BY <1>2, <1>5, <1>9, <2>1 DEF Login!QueryState, Login!Call, Login!Status
  <2>3. /\ Login!Read(calls'[s]) \subseteq {"installed", "enabled", "running"}
        /\ Login!Read(calls[s]) = {"installed", "enabled"}
    BY <1>9, <2>2 DEF Login!Read, Login!Shown
  <2> QED
    BY <1>1, <1>2, <1>6, <2>2, <2>3 DEF Login!service, Login!Seen
<1>10. CASE Login!At(s, "list") /\ ~Login!Linux
  <2>1. Login!ListJob(s)
    BY <1>10 DEF Login!Work, Login!CheckLock, Login!Resolve, Login!WriteFile, Login!Stat,
       Login!RemoveFile, Login!DaemonReload,
                 Login!EnableNow, Login!Stop, Login!Disable, Login!Unload, Login!LoadJob,
                     Login!Look, Login!QueryState
  <2>2. /\ calls'[s].status.installed = calls[s].status.installed
        /\ calls'[s].status.enabled = (manager.loaded # 0)
        /\ calls'[s].status.running = (manager.loaded # 0 /\ daemon # 0)
        /\ calls'[s].step = "done" /\ UNCHANGED Login!service
    BY <1>2, <1>5, <1>10, <2>1 DEF Login!ListJob, Login!Call, Login!Status
  <2>3. /\ Login!Read(calls'[s]) \subseteq {"installed", "enabled", "running"}
        /\ Login!Read(calls[s]) = {"installed"}
    BY <1>10, <2>2 DEF Login!Read, Login!Shown
  <2>4. (manager.loaded # 0) = manager.enabled /\ (daemon # 0 => manager.loaded # 0)
    BY <1>10 DEF Login!JobInv, Login!TypeOK
  <2> QED
    BY <1>1, <1>2, <1>6, <2>2, <2>3, <2>4 DEF Login!service, Login!Seen
<1> QED
  BY <1>5, <1>7, <1>8, <1>9, <1>10
LEMMA WorkKeepsStatus ==
  ASSUME Login!LoginServiceAssumption, Login!StatusInv, Recorded, NEW s \in Slots, Login!Work(s)
  PROVE  Login!StatusInv'
<1> USE DEF Login!StatusInv
<1>1. /\ ~Login!Free(s) /\ ~Login!At(s, "done") /\ SameCall(s)
      /\ calls'[s].step \in DOMAIN Login!Steps(calls[s].op) \cup {"done"}
      /\ ServiceTyped' /\ Login!JobInv'
  BY WorkMoves
<1>2. UNCHANGED <<platform, binary, other, faults, logins, panel, tray, reported>>
  BY DEF Login!Work, Login!world
<1>3. Login!TypeOK'
  BY <1>1, <1>2 DEF Login!TypeOK, ServiceTyped, SameCall
<1>4. Login!CallInv'
  BY <1>1, <1>2, CallFrame
<1>5. SameCalls /\ \A t \in Slots \ {s} : calls'[t] = calls[t]
  BY <1>1 DEF SameCall, SameCalls
<1>6. ASSUME NEW t \in Slots, Login!Current(t), calls[t].op = "status"
      PROVE  \A field \in Login!Read(calls'[t]) : \E x \in truths' : x[field] = calls'[t].status[field]
  <2>1. CASE t = s
    BY <1>2, <1>6, <2>1, StatusSeen
  <2>2. CASE t # s
    BY <1>2, <1>5, <1>6, <2>2 DEF Login!PanelInv, Login!Seen, Recorded
  <2> QED
    BY <2>1, <2>2
<1>7. Login!PanelInv'
  BY <1>2, <1>5, <1>6, PanelFrame
<1>8. Login!OneAction'
  BY <1>2, <1>5, ActionFrame
<1> QED
  BY <1>1, <1>3, <1>4, <1>7, <1>8

LEMMA FailKeepsStatus ==
  ASSUME Login!LoginServiceAssumption, Login!StatusInv, Recorded, NEW s \in Slots, Login!Fail(s)
  PROVE  Login!StatusInv'
<1> USE DEF Login!StatusInv
<1>1. SameCall(s) /\ calls'[s].step = "done" /\ calls'[s].err = "failed"
  BY ReturnMoves DEF Login!Fail, Login!Errors
<1>2. /\ UNCHANGED <<platform, binary, file, manager, daemon, other, panel, tray, reported, logins>>
      /\ ~Login!Free(s) /\ faults < MaxFaults /\ faults' = faults + 1
  BY DEF Login!Fail, Login!service
<1>3. Login!TypeOK'
  <2>1. faults' \in 0..MaxFaults
    <3>1. faults \in 0..MaxFaults /\ MaxFaults \in Nat
      BY DEF Login!TypeOK, Login!LoginServiceAssumption
    <3> QED
      BY <1>2, <3>1
  <2> QED
    BY <1>1, <1>2, <2>1 DEF Login!TypeOK, SameCall
<1>4. Login!CallInv'
  BY <1>1, <1>2, CallFrame
<1>5. SameCalls /\ \A t \in Slots \ {s} : calls'[t] = calls[t]
  BY <1>1 DEF SameCall, SameCalls
<1>6. ASSUME NEW t \in Slots, Login!Current(t), calls[t].op = "status"
      PROVE  \A field \in Login!Read(calls'[t]) : \E x \in truths' : x[field] = calls'[t].status[field]
  <2>1. CASE t = s
    BY <1>1, <2>1 DEF Login!Read
  <2>2. CASE t # s
    BY <1>2, <1>5, <1>6, <2>2 DEF Login!PanelInv, Login!Seen, Recorded
  <2> QED
    BY <2>1, <2>2
<1>7. Login!PanelInv'
  BY <1>2, <1>5, <1>6, PanelFrame
<1>8. Login!OneAction'
  BY <1>2, <1>5, ActionFrame
<1>9. Login!JobInv'
  BY <1>2 DEF Login!JobInv, Login!Linux
<1> QED
  BY <1>3, <1>4, <1>7, <1>8, <1>9

(* What happens beside the calls.                                           *)
LEMMA QuietKeepsStatus ==
  ASSUME Login!LoginServiceAssumption, Login!StatusInv, Recorded, calls' = calls, panel' = panel,
           Login!TypeOK', Login!JobInv',
         platform' = platform
  PROVE  Login!CallInv' /\ Login!PanelInv' /\ (tray' = tray => Login!OneAction')
<1> USE DEF Login!StatusInv
<1>1. SameCalls
  BY DEF SameCalls
<1>2. Login!CallInv'
  BY DEF Login!CallInv, Login!Free, Login!Steps, Login!Linux
<1>3. ASSUME NEW t \in Slots, Login!Current(t), calls[t].op = "status"
      PROVE  \A field \in Login!Read(calls'[t]) : \E x \in truths' : x[field] = calls'[t].status[field]
  BY <1>3 DEF Login!PanelInv, Login!Seen, Recorded
<1> QED
  BY <1>1, <1>2, <1>3, PanelFrame, ActionFrame

LEMMA StartKeepsStatus ==
  ASSUME Login!LoginServiceAssumption, Login!StatusInv, Recorded, Login!Start
  PROVE  Login!StatusInv'
<1> USE DEF Login!StatusInv
<1>1. Login!TypeOK'
  BY DEF Login!Start, Login!TypeOK
<1>2. Login!JobInv'
  BY DEF Login!Start, Login!JobInv, Login!Linux
<1> QED
  BY <1>1, <1>2, QuietKeepsStatus DEF Login!Start

LEMMA CrashKeepsStatus ==
  ASSUME Login!LoginServiceAssumption, Login!StatusInv, Recorded, Login!Crash
  PROVE  Login!StatusInv'
<1> USE DEF Login!StatusInv
<1>1. Login!TypeOK'
  <2>1. faults' \in 0..MaxFaults /\ daemon' \in Login!Versions
    <3>1. faults \in 0..MaxFaults /\ MaxFaults \in Nat /\ MaxVersion \in Nat
      BY DEF Login!TypeOK, Login!LoginServiceAssumption
    <3> QED
      BY <3>1 DEF Login!Crash, Login!Versions
  <2> QED
    BY <2>1 DEF Login!Crash, Login!TypeOK
<1>2. Login!JobInv'
  BY DEF Login!Crash, Login!JobInv, Login!Linux
<1> QED
  BY <1>1, <1>2, QuietKeepsStatus DEF Login!Crash

LEMMA OtherKeepsStatus ==
  ASSUME Login!LoginServiceAssumption, Login!StatusInv, Recorded, Login!OtherDaemon
  PROVE  Login!StatusInv'
<1> USE DEF Login!StatusInv
<1>1. Login!TypeOK'
  BY DEF Login!OtherDaemon, Login!TypeOK, Login!service
<1>2. Login!JobInv'
  BY DEF Login!OtherDaemon, Login!JobInv, Login!Linux, Login!service
<1> QED
  BY <1>1, <1>2, QuietKeepsStatus DEF Login!OtherDaemon

LEMMA UpgradeKeepsStatus ==
  ASSUME Login!LoginServiceAssumption, Login!StatusInv, Recorded, Login!Upgrade
  PROVE  Login!StatusInv'
<1> USE DEF Login!StatusInv
<1>1. Login!TypeOK'
  <2>1. binary' \in Login!Versions \ {0}
    <3>1. binary \in Login!Versions \ {0} /\ MaxVersion \in Nat
      BY DEF Login!TypeOK, Login!LoginServiceAssumption
    <3>2. binary < MaxVersion /\ binary' = binary + 1
      BY DEF Login!Upgrade
    <3> QED
      BY <3>1, <3>2 DEF Login!Versions
  <2> QED
    BY <2>1 DEF Login!Upgrade, Login!TypeOK, Login!service
<1>2. Login!JobInv'
  BY DEF Login!Upgrade, Login!JobInv, Login!Linux, Login!service
<1> QED
  BY <1>1, <1>2, QuietKeepsStatus DEF Login!Upgrade

LEMMA DialogKeepsStatus ==
  ASSUME Login!LoginServiceAssumption, Login!StatusInv, Recorded, Login!DisableItem \/ Login!Decline
  PROVE  Login!StatusInv'
<1> USE DEF Login!StatusInv
<1>1. /\ UNCHANGED <<platform, binary, other, faults, logins, file, manager, daemon, calls, panel,
           reported>>
      /\ \E d \in {"", "remove"} : tray' = [tray EXCEPT !.dialog = d]
  BY DEF Login!DisableItem, Login!Decline, Login!world, Login!service
<1>2. Login!TypeOK' /\ tray'.inFlight = tray.inFlight
  BY <1>1 DEF Login!TypeOK
<1>3. Login!JobInv'
  BY <1>1 DEF Login!JobInv, Login!Linux
<1>4. Login!OneAction'
  BY <1>1, <1>2 DEF Login!OneAction
<1> QED
  BY <1>1, <1>2, <1>3, <1>4, QuietKeepsStatus

LEMMA ClosePanelKeepsStatus ==
  ASSUME Login!LoginServiceAssumption, Login!StatusInv, Recorded, Login!ClosePanel
  PROVE  Login!StatusInv'
<1> USE DEF Login!StatusInv
<1>1. /\ UNCHANGED <<platform, binary, other, faults, logins, file, manager, daemon, calls, tray,
           reported>>
      /\ panel' = [Login!Closed EXCEPT !.gen = panel.gen]
  BY DEF Login!ClosePanel, Login!world, Login!service
<1>2. /\ panel'.open = FALSE /\ panel'.loading = FALSE /\ panel'.busy = FALSE /\
           panel'.gen = panel.gen
      /\ Login!TypeOK'
  BY <1>1 DEF Login!Closed, Login!NoStatus, Login!TypeOK, Login!Status, Login!Errors
<1>3. Login!JobInv' /\ Login!OneAction'
  BY <1>1 DEF Login!JobInv, Login!Linux, Login!OneAction
<1>4. Login!CallInv'
  BY <1>1, <1>2 DEF Login!CallInv, Login!Free, Login!Steps, Login!Linux
<1>5. truths \subseteq truths' /\ Login!Actual' \in truths'
  BY <1>2 DEF Recorded
<1>6. \A t \in Slots : Login!Current(t)' => Login!Current(t)
  BY <1>1, <1>2 DEF Login!Current
<1>7. Login!PanelInv'
  BY <1>1, <1>2, <1>5, <1>6 DEF Login!PanelInv, Login!ShownWasTrue, Login!PanelIsServed, Login!Seen
<1> QED
  BY <1>2, <1>3, <1>4, <1>7

LEMMA LogInKeepsStatus ==
  ASSUME Login!LoginServiceAssumption, Login!StatusInv, Recorded, Login!LogIn
  PROVE  Login!StatusInv'
<1> USE DEF Login!StatusInv
<1> DEFINE starts == file # 0 /\ (Login!Linux => manager.enabled)
<1>1. /\ UNCHANGED <<platform, binary, file, reported, faults>>
      /\ daemon' = 0 /\ other' = FALSE /\ calls' = [s \in Slots |-> Login!NoCall]
      /\ manager' = [loaded |-> file, wanted |-> starts,
                     enabled |-> IF Login!Linux THEN manager.enabled ELSE starts]
      /\ panel' = [Login!Closed EXCEPT !.gen = panel.gen] /\ tray' = [inFlight |-> FALSE,
           dialog |-> ""]
  BY DEF Login!LogIn
<1>2. logins' \in 0..MaxLogins /\ daemon' \in Login!Versions
  <2>1. logins \in 0..MaxLogins /\ MaxLogins \in Nat /\ MaxVersion \in Nat
    BY DEF Login!TypeOK, Login!LoginServiceAssumption
  <2>2. logins < MaxLogins /\ logins' = logins + 1 /\ daemon' = 0
    BY DEF Login!LogIn
  <2> QED
    BY <2>1, <2>2 DEF Login!Versions
<1>3. Login!NoCall \in Login!Call
  BY DEF Login!NoCall, Login!Call, Login!NoStatus, Login!Status, Login!Errors, Login!Commands,
     Login!Versions, Login!LoginServiceAssumption
<1>4. manager.enabled \in BOOLEAN /\ starts \in BOOLEAN
  BY DEF Login!TypeOK
<1>5. /\ manager'.loaded = file /\ manager'.wanted = starts
      /\ manager'.enabled = (IF Login!Linux THEN manager.enabled ELSE starts)
  BY <1>1
<1>6. Login!TypeOK'
  <2>1. manager' \in [loaded : Login!Versions, enabled : BOOLEAN, wanted : BOOLEAN]
    <3> HIDE DEF starts
    <3> QED
      BY <1>1, <1>4 DEF Login!TypeOK
  <2>2. panel' \in [open : BOOLEAN, gen : 0..MaxOpenings, loading : BOOLEAN, busy : BOOLEAN,
                  status : Login!Status, err : Login!Errors]
    BY <1>1 DEF Login!TypeOK, Login!Closed, Login!NoStatus, Login!Status, Login!Errors
  <2>3. calls' \in [Slots -> Login!Call]
    BY <1>1, <1>3
  <2> QED
    BY <1>1, <1>2, <2>1, <2>2, <2>3 DEF Login!TypeOK
<1>7. Login!JobInv'
  <2>1. ~Login!Linux' => (starts <=> file # 0) /\ ~Login!Linux
    BY <1>1 DEF Login!Linux
  <2> HIDE DEF starts
  <2> QED
    BY <1>1, <1>5, <2>1 DEF Login!JobInv
<1>8. \A s \in Slots : calls'[s].op = "none" /\ calls'[s].from = "" /\ calls'[s] = Login!NoCall
  BY <1>1 DEF Login!NoCall
<1>9. Login!CallInv' /\ Login!OneAction'
  BY <1>8 DEF Login!CallInv, Login!OneAction, Login!Free
<1>10. panel'.open = FALSE /\ panel'.loading = FALSE /\ panel'.busy = FALSE
  BY <1>1 DEF Login!Closed
<1>11. Login!PanelInv'
  BY <1>8, <1>10 DEF Login!PanelInv, Login!ShownWasTrue, Login!PanelIsServed, Login!Current,
     Recorded
<1> QED
  BY <1>6, <1>7, <1>9, <1>11

(* The calls of the frontends.                                              *)
LEMMA BeginMoves ==
  ASSUME Login!LoginServiceAssumption, Login!TypeOK, NEW s \in Slots,
         NEW op \in {"install", "uninstall", "status"}, NEW from \in {"tui", "gui"},
         NEW gen \in 0..MaxOpenings, NEW force \in BOOLEAN, Login!Begin(s, op, from, gen, force)
  PROVE  /\ Login!Free(s) /\ calls' \in [Slots -> Login!Call]
         /\ \A t \in Slots \ {s} : calls'[t] = calls[t]
         /\ calls'[s].op = op /\ calls'[s].from = from /\ calls'[s].gen = gen
         /\ calls'[s].step = Login!First(op) /\ calls'[s].err = ""
         /\ reported' = IF Login!Mutates(op) THEN "unknown" ELSE reported
<1>1. /\ Login!Free(s) /\ reported' = IF Login!Mutates(op) THEN "unknown" ELSE reported
      /\ calls' = Login!Called(s, op, from, gen, force)
  BY DEF Login!Begin
<1> DEFINE call == [op |-> op, from |-> from, gen |-> gen, force |-> force,
      step |-> Login!First(op),
                    wrote |-> 0, status |-> Login!NoStatus, err |-> ""]
<1>2. Login!First(op) \in Login!Commands
  BY DEF Login!First, Login!Commands
<1>3. Login!NoStatus \in Login!Status /\ 0 \in Login!Versions
  BY DEF Login!NoStatus, Login!Status, Login!Versions, Login!LoginServiceAssumption
<1>4. call \in Login!Call
  BY <1>2, <1>3 DEF Login!Call, Login!Errors
<1>5. call.op = op /\ call.from = from /\ call.gen = gen /\ call.step = Login!First(op) /\
        call.err = ""
  OBVIOUS
<1>6. calls' = [calls EXCEPT ![s] = call]
  BY <1>1 DEF Login!Called
<1> HIDE DEF call
<1>7. calls \in [Slots -> Login!Call]
  BY DEF Login!TypeOK
<1> QED
  BY <1>1, <1>4, <1>5, <1>6, <1>7

LEMMA BegunCall ==
  ASSUME Login!TypeOK, Login!CallInv, NEW s \in Slots, platform' = platform,
         NEW op \in {"install", "uninstall", "status"}, calls'[s].op = op,
         calls'[s].step = Login!First(op), panel'.gen \in 0..MaxOpenings, panel.gen <= panel'.gen,
         MaxOpenings \in Nat,
         \/ calls'[s].from = "tui" /\ calls'[s].gen = panel'.gen
         \/ calls'[s].from = "gui" /\ Login!Mutates(op),
         \A t \in Slots \ {s} : calls'[t] = calls[t]
  PROVE  Login!CallInv'
<1> USE DEF Login!Free, Login!Steps, Login!Linux
<1>1. ASSUME NEW t \in Slots
      PROVE  (IF Login!Free(t) THEN calls[t] = Login!NoCall
              ELSE /\ calls[t].step \in DOMAIN Login!Steps(calls[t].op) \cup {"done"}
                   /\ IF calls[t].from = "tui" THEN calls[t].gen <= panel.gen
                      ELSE calls[t].from = "gui" /\ Login!Mutates(calls[t].op))'
  <2>1. CASE t = s
    <3>1. Login!First(op) \in DOMAIN Login!Steps(op)
      BY DEF Login!First, Login!LinuxInstall, Login!DarwinInstall, Login!LinuxUninstall,
         Login!DarwinUninstall, Login!LinuxStatus,
             Login!DarwinStatus
    <3> QED
      BY <2>1, <3>1 DEF Login!Mutates
  <2>2. CASE t # s
    <3>1. calls'[t] = calls[t] /\ calls[t] \in Login!Call
      BY <2>2 DEF Login!TypeOK
    <3>2. calls[t].from = "tui" /\ calls[t].gen <= panel.gen => calls[t].gen <= panel'.gen
      <4>1. calls[t].gen \in 0..MaxOpenings /\ panel.gen \in 0..MaxOpenings
        BY <3>1 DEF Login!Call, Login!TypeOK
      <4> QED
        BY <4>1
    <3> QED
      BY <3>1, <3>2 DEF Login!CallInv, Login!NoCall, Login!NoStatus, Login!Mutates
  <2> QED
    BY <2>1, <2>2
<1> QED
  BY <1>1 DEF Login!CallInv

LEMMA OpenPanelKeepsStatus ==
  ASSUME Login!LoginServiceAssumption, Login!StatusInv, Recorded, NEW s \in Slots,
           Login!OpenPanel(s)
  PROVE  Login!StatusInv'
<1> USE DEF Login!StatusInv
<1>1. /\ UNCHANGED <<platform, binary, other, faults, logins, file, manager, daemon, tray>>
      /\ panel.gen < MaxOpenings
      /\ panel' = [Login!Closed EXCEPT !.open = TRUE, !.gen = panel.gen + 1, !.loading = TRUE]
      /\ Login!Begin(s, "status", "tui", panel'.gen, FALSE)
  BY DEF Login!OpenPanel, Login!world, Login!service
<1>2. /\ panel.gen \in 0..MaxOpenings /\ MaxOpenings \in Nat
  BY DEF Login!TypeOK, Login!LoginServiceAssumption
<1>3. /\ panel'.open = TRUE /\ panel'.loading = TRUE /\ panel'.busy = FALSE /\
           panel'.gen = panel.gen + 1
      /\ panel'.status = Login!NoStatus /\ panel'.err = ""
      /\ panel' = [open |-> TRUE, gen |-> panel.gen + 1, loading |-> TRUE, busy |-> FALSE,
                 status |-> Login!NoStatus, err |-> ""]
  BY <1>1 DEF Login!Closed
<1>4. panel'.gen \in 0..MaxOpenings /\ panel.gen < panel'.gen
  <2>1. panel.gen < MaxOpenings /\ panel'.gen = panel.gen + 1
    BY <1>1, <1>3
  <2> QED
    BY <1>2, <2>1
<1>5. /\ Login!Free(s) /\ calls' \in [Slots -> Login!Call]
      /\ \A t \in Slots \ {s} : calls'[t] = calls[t]
      /\ calls'[s].op = "status" /\ calls'[s].from = "tui" /\ calls'[s].gen = panel'.gen
      /\ calls'[s].step = Login!First("status")
      /\ reported' = IF Login!Mutates("status") THEN "unknown" ELSE reported
  BY <1>1, <1>4, BeginMoves
<1>6. reported' = reported /\ Login!First("status") = "look"
  BY <1>5 DEF Login!Mutates, Login!First
<1>7. Login!TypeOK'
  <2>1. panel' \in [open : BOOLEAN, gen : 0..MaxOpenings, loading : BOOLEAN, busy : BOOLEAN,
                  status : Login!Status, err : Login!Errors]
    BY <1>3, <1>4 DEF Login!NoStatus, Login!Status, Login!Errors
  <2> QED
    BY <1>1, <1>5, <1>6, <2>1 DEF Login!TypeOK
<1>8. Login!JobInv'
  BY <1>1 DEF Login!JobInv, Login!Linux
<1>9. Login!CallInv'
  BY <1>1, <1>2, <1>4, <1>5, BegunCall
<1>10. Login!OneAction'
  BY <1>1, <1>5 DEF Login!OneAction
<1>11. \A t \in Slots : Login!Current(t)' => t = s
  <2> SUFFICES ASSUME NEW t \in Slots, t # s, calls[t].from = "tui", calls[t].gen = panel'.gen
               PROVE  FALSE
    BY <1>5 DEF Login!Current
  <2>1. Login!NoCall.from = ""
    BY DEF Login!NoCall
  <2>2. calls[t].gen <= panel.gen
    BY <2>1 DEF Login!CallInv
  <2>3. panel'.gen = panel.gen + 1
    BY <1>3
  <2> QED
    BY <1>2, <2>2, <2>3
<1>12. Login!Read(calls'[s]) = {}
  BY <1>5, <1>6 DEF Login!Read
<1>13. Login!PanelInv'
  BY <1>3, <1>5, <1>11, <1>12 DEF Login!PanelInv, Login!ShownWasTrue, Login!PanelIsServed,
     Login!Seen, Recorded, Login!Current
<1> QED
  BY <1>7, <1>8, <1>9, <1>10, <1>13

LEMMA ConfirmPanelKeepsStatus ==
  ASSUME Login!LoginServiceAssumption, Login!StatusInv, Recorded, NEW s \in Slots,
           Login!ConfirmPanel(s)
  PROVE  Login!StatusInv'
<1> USE DEF Login!StatusInv
<1>1. PICK op \in {"install", "uninstall"}, force \in BOOLEAN :
        /\ Login!Begin(s, op, "tui", panel.gen, force)
        /\ UNCHANGED <<platform, binary, other, faults, logins, file, manager, daemon, tray>>
        /\ panel' = [panel EXCEPT !.busy = TRUE] /\ Login!TakesConfirm
  BY DEF Login!ConfirmPanel, Login!world, Login!service
<1>2. panel.gen \in 0..MaxOpenings /\ MaxOpenings \in Nat
  BY DEF Login!TypeOK, Login!LoginServiceAssumption
<1>3. /\ panel'.open = panel.open /\ panel'.loading = panel.loading /\ panel'.busy = TRUE
      /\ panel'.gen = panel.gen /\ panel'.status = panel.status /\ panel'.err = panel.err
  BY <1>1 DEF Login!TypeOK
<1>4. panel.open /\ ~panel.loading /\ ~panel.busy /\ panel.err # "failed"
  BY <1>1 DEF Login!TakesConfirm
<1>5. /\ Login!Free(s) /\ calls' \in [Slots -> Login!Call]
      /\ \A t \in Slots \ {s} : calls'[t] = calls[t]
      /\ calls'[s].op = op /\ calls'[s].from = "tui" /\ calls'[s].gen = panel.gen
      /\ calls'[s].step = Login!First(op)
      /\ reported' = "unknown"
  BY <1>1, <1>2, BeginMoves DEF Login!Mutates
<1>6. Login!TypeOK'
  BY <1>1, <1>5 DEF Login!TypeOK
<1>7. Login!JobInv'
  BY <1>1 DEF Login!JobInv, Login!Linux
<1>8. Login!CallInv'
  BY <1>1, <1>2, <1>3, <1>5, BegunCall
<1>9. Login!OneAction'
  BY <1>1, <1>5 DEF Login!OneAction
<1>10. \A t \in Slots : ~Login!Current(t)
  BY <1>4 DEF Login!PanelInv
<1>11. \A t \in Slots : Login!Current(t)' => t = s
  BY <1>3, <1>5, <1>10 DEF Login!Current
<1>12. truths \subseteq truths' /\ Login!Actual' \in truths'
  BY <1>3 DEF Recorded
<1>13. Login!ShownWasTrue'
  BY <1>3, <1>4, <1>12 DEF Login!PanelInv, Login!ShownWasTrue, Login!Seen
<1>14. Login!PanelInv'
  BY <1>3, <1>4, <1>5, <1>11, <1>12, <1>13 DEF Login!PanelInv, Login!PanelIsServed
<1> QED
  BY <1>6, <1>7, <1>8, <1>9, <1>14

LEMMA TrayKeepsStatus ==
  ASSUME Login!LoginServiceAssumption, Login!StatusInv, Recorded, NEW s \in Slots,
         Login!Enable(s) \/ Login!ForceInstall(s) \/ Login!UninstallService(s)
  PROVE  Login!StatusInv'
<1> USE DEF Login!StatusInv
<1>1. PICK op \in {"install", "uninstall"}, force \in BOOLEAN :
        /\ Login!Begin(s, op, "gui", 0, force)
        /\ UNCHANGED <<platform, binary, other, faults, logins, file, manager, daemon, panel>>
  BY DEF Login!Enable, Login!ForceInstall, Login!UninstallService, Login!InstallService,
     Login!world, Login!service
<1>2. ~tray.inFlight /\ tray'.inFlight /\ tray' \in [inFlight : BOOLEAN, dialog : {"", "force",
        "remove"}]
  <2>1. /\ Login!MayAct
        /\ \/ tray' = [tray EXCEPT !.inFlight = TRUE]
           \/ tray' = [inFlight |-> TRUE, dialog |-> ""]
    BY DEF Login!Enable, Login!ForceInstall, Login!UninstallService, Login!InstallService
  <2>2. tray \in [inFlight : BOOLEAN, dialog : {"", "force", "remove"}] /\ ~tray.inFlight
    BY <2>1 DEF Login!MayAct, Login!TypeOK
  <2>3. CASE tray' = [tray EXCEPT !.inFlight = TRUE]
    BY <2>2, <2>3
  <2>4. CASE tray' = [inFlight |-> TRUE, dialog |-> ""]
    BY <2>2, <2>4
  <2> QED
    BY <2>1, <2>3, <2>4
<1>3. MaxOpenings \in Nat /\ 0 \in 0..MaxOpenings
  BY DEF Login!LoginServiceAssumption
<1>4. /\ Login!Free(s) /\ calls' \in [Slots -> Login!Call]
      /\ \A t \in Slots \ {s} : calls'[t] = calls[t]
      /\ calls'[s].op = op /\ calls'[s].from = "gui" /\ calls'[s].step = Login!First(op)
      /\ reported' = "unknown"
  BY <1>1, <1>3, BeginMoves DEF Login!Mutates
<1>5. Login!TypeOK'
  BY <1>1, <1>2, <1>4 DEF Login!TypeOK
<1>6. Login!JobInv'
  BY <1>1 DEF Login!JobInv, Login!Linux
<1>7. panel.gen \in 0..MaxOpenings /\ panel.gen <= panel'.gen
  <2>1. panel.gen \in 0..MaxOpenings
    BY DEF Login!TypeOK
  <2> QED
    BY <1>1, <2>1
<1>8. Login!CallInv'
  BY <1>1, <1>3, <1>4, <1>7, BegunCall DEF Login!Mutates
<1>9. Login!OneAction'
  BY <1>2, <1>4 DEF Login!OneAction
<1>10. calls[s].from # "tui"
  <2>1. Login!NoCall.from = ""
    BY DEF Login!NoCall
  <2> QED
    BY <1>4, <2>1 DEF Login!CallInv
<1>11. \A t \in Slots : (Login!Current(t)' => t # s /\ Login!Current(t) /\ calls'[t] = calls[t])
                       /\ (Login!Current(t) => Login!Current(t)')
  BY <1>1, <1>4, <1>10 DEF Login!Current
<1>12. truths \subseteq truths' /\ Login!Actual' \in truths'
  BY <1>1 DEF Recorded
<1>13. Login!ShownWasTrue'
  BY <1>1, <1>12 DEF Login!PanelInv, Login!ShownWasTrue, Login!Seen
<1>14. Login!PanelIsServed'
  BY <1>1, <1>4, <1>10 DEF Login!PanelInv, Login!PanelIsServed
<1>15. \A t \in Slots : Login!Current(t)' /\ calls'[t].op = "status" => Login!Seen(calls[t].status,
         Login!Read(calls[t]))'
  BY <1>11, <1>12 DEF Login!PanelInv, Login!Seen
<1>16. Login!PanelInv'
  BY <1>1, <1>11, <1>12, <1>13, <1>14, <1>15 DEF Login!PanelInv
<1> QED
  BY <1>5, <1>6, <1>8, <1>9, <1>16

LEMMA AnswerMoves ==
  ASSUME Login!LoginServiceAssumption, Login!TypeOK, Login!CallInv, NEW s \in Slots,
           Login!Answered(s)
  PROVE  /\ UNCHANGED <<platform, binary, other, faults, logins, file, manager, daemon>>
         /\ ~Login!Free(s) /\ calls[s].step = "done"
         /\ calls' \in [Slots -> Login!Call]
         /\ \A t \in Slots \ {s} : calls'[t] = calls[t]
         /\ calls'[s] = Login!NoCall /\ calls'[s].op = "none" /\ calls'[s].from = ""
         /\ reported' = IF ~Login!Succeeds(s) THEN reported
                     ELSE IF calls[s].op = "install" THEN "installed" ELSE "removed"
<1>1. Login!NoCall \in Login!Call
  BY DEF Login!NoCall, Login!Call, Login!NoStatus, Login!Status, Login!Errors, Login!Commands,
     Login!Versions, Login!LoginServiceAssumption
<1>2. Login!NoCall.op = "none" /\ Login!NoCall.from = "" /\ Login!NoCall.step = ""
  BY DEF Login!NoCall
<1>3. ~Login!Free(s)
  BY <1>2 DEF Login!CallInv, Login!Answered, Login!Done, Login!At
<1> QED
  BY <1>1, <1>2, <1>3 DEF Login!Answered, Login!Done, Login!At, Login!TypeOK, Login!world,
     Login!service

LEMMA AnsweredCall ==
  ASSUME Login!CallInv, platform' = platform, panel'.gen = panel.gen, NEW s \in Slots,
           calls'[s] = Login!NoCall,
         calls'[s].op = "none", \A t \in Slots \ {s} : calls'[t] = calls[t]
  PROVE  Login!CallInv'
<1> USE DEF Login!Free, Login!Steps, Login!Linux
<1>1. ASSUME NEW t \in Slots
      PROVE  (IF Login!Free(t) THEN calls[t] = Login!NoCall
              ELSE /\ calls[t].step \in DOMAIN Login!Steps(calls[t].op) \cup {"done"}
                   /\ IF calls[t].from = "tui" THEN calls[t].gen <= panel.gen
                      ELSE calls[t].from = "gui" /\ Login!Mutates(calls[t].op))'
  <2>1. CASE t = s
    BY <2>1 DEF Login!NoCall, Login!NoStatus
  <2>2. CASE t # s
    <3>1. calls'[t] = calls[t]
      BY <2>2
    <3> QED
      BY <3>1 DEF Login!CallInv, Login!NoCall, Login!NoStatus, Login!Mutates
  <2> QED
    BY <2>1, <2>2
<1> QED
  BY <1>1 DEF Login!CallInv

(* An answer that no open panel waits for changes nothing that is shown.    *)
LEMMA StaleAnswer ==
  ASSUME Login!StatusInv, Recorded, NEW s \in Slots, panel' = panel, panel.open =>
           ~Login!Current(s),
         \A t \in Slots \ {s} : calls'[t] = calls[t], calls'[s].from = ""
  PROVE  Login!PanelInv'
<1> USE DEF Login!StatusInv
<1>1. truths \subseteq truths' /\ Login!Actual' \in truths'
  BY DEF Recorded
<1>2. \A t \in Slots : Login!Current(t)' => t # s /\ Login!Current(t) /\ calls'[t] = calls[t]
  BY DEF Login!Current
<1>3. Login!ShownWasTrue'
  BY <1>1 DEF Login!PanelInv, Login!ShownWasTrue, Login!Seen
<1>4. Login!PanelIsServed'
  BY DEF Login!PanelInv, Login!PanelIsServed, Login!Current
<1>5. ASSUME NEW t \in Slots, Login!Current(t)', calls'[t].op = "status"
      PROVE  Login!Seen(calls[t].status, Login!Read(calls[t]))'
  <2>1. Login!Current(t) /\ calls'[t] = calls[t]
    BY <1>2, <1>5
  <2>2. Login!Seen(calls[t].status, Login!Read(calls[t]))
    BY <1>5, <2>1 DEF Login!PanelInv
  <2> QED
    BY <1>1, <2>1, <2>2 DEF Login!Seen
<1> QED
  BY <1>1, <1>2, <1>3, <1>4, <1>5 DEF Login!PanelInv

LEMMA StatusResultKeepsStatus ==
  ASSUME Login!LoginServiceAssumption, Login!StatusInv, Recorded, NEW s \in Slots,
           Login!StatusResult(s)
  PROVE  Login!StatusInv'
<1> USE DEF Login!StatusInv
<1>1. /\ calls[s].from = "tui" /\ calls[s].op = "status" /\ Login!Answered(s) /\ tray' = tray
      /\ panel' = IF ~Login!IsCurrent(calls[s]) THEN panel
                ELSE [panel EXCEPT !.loading = FALSE, !.status = calls[s].status,
                    !.err = calls[s].err]
  BY DEF Login!StatusResult
<1>2. /\ UNCHANGED <<platform, binary, other, faults, logins, file, manager, daemon>>
      /\ calls[s].step = "done"
      /\ calls' \in [Slots -> Login!Call]
      /\ \A t \in Slots \ {s} : calls'[t] = calls[t]
      /\ calls'[s] = Login!NoCall /\ calls'[s].op = "none" /\ calls'[s].from = ""
      /\ reported' = reported
  BY <1>1, AnswerMoves DEF Login!Succeeds, Login!Mutates
<1>3. panel'.gen = panel.gen
  BY <1>1 DEF Login!TypeOK
<1>4. Login!TypeOK'
  BY <1>1, <1>2 DEF Login!TypeOK, Login!Call
<1>5. Login!JobInv'
  BY <1>2 DEF Login!JobInv, Login!Linux
<1>6. Login!CallInv'
  BY <1>2, <1>3, AnsweredCall
<1>7. Login!OneAction'
  BY <1>1, <1>2 DEF Login!OneAction
<1>8. CASE ~Login!IsCurrent(calls[s])
  BY <1>1, <1>2, <1>4, <1>5, <1>6, <1>7, <1>8, StaleAnswer DEF Login!IsCurrent, Login!Current
<1>9. CASE Login!IsCurrent(calls[s])
  <2>1. Login!Current(s) /\ panel.open
    BY <1>1, <1>9 DEF Login!IsCurrent, Login!Current
  <2>2. /\ panel'.open = panel.open /\ panel'.loading = FALSE /\ panel'.busy = panel.busy
        /\ panel'.status = calls[s].status /\ panel'.err = calls[s].err
    BY <1>1, <1>9 DEF Login!TypeOK
  <2>3. panel.loading /\ ~panel.busy
    BY <1>1, <2>1 DEF Login!PanelInv
  <2>4. \A t \in Slots : ~Login!Current(t)'
    <3>1. \A t \in Slots : Login!Current(t)' => t # s /\ Login!Current(t)
      BY <1>2, <1>3 DEF Login!Current
    <3> QED
      BY <2>1, <3>1 DEF Login!PanelInv
  <2>5. truths \subseteq truths' /\ Login!Actual' \in truths'
    BY <1>3 DEF Recorded
  <2>6. Login!ShownWasTrue'
    <3>1. Login!Seen(calls[s].status, Login!Read(calls[s]))
      BY <1>1, <2>1 DEF Login!PanelInv
    <3>2. calls[s].err # "failed" => Login!Read(calls[s]) = Login!Shown(calls[s].status)
      BY <1>2 DEF Login!Read
    <3> QED
      BY <2>2, <2>5, <3>1, <3>2 DEF Login!ShownWasTrue, Login!Seen, Login!Shown
  <2>7. Login!PanelInv'
    BY <2>2, <2>3, <2>4, <2>5, <2>6 DEF Login!PanelInv, Login!PanelIsServed
  <2> QED
    BY <1>4, <1>5, <1>6, <1>7, <2>7
<1> QED
  BY <1>8, <1>9

LEMMA ActionResultKeepsStatus ==
  ASSUME Login!LoginServiceAssumption, Login!StatusInv, Recorded, NEW s \in Slots,
           Login!ActionResult(s)
  PROVE  Login!StatusInv'
<1> USE DEF Login!StatusInv
<1>1. /\ calls[s].from = "tui" /\ Login!Mutates(calls[s].op) /\ Login!Answered(s) /\ tray' = tray
      /\ panel' = IF Login!IsCurrent(calls[s]) THEN Login!ActionAnswer(calls[s]) ELSE panel
  BY DEF Login!ActionResult
<1>2. /\ UNCHANGED <<platform, binary, other, faults, logins, file, manager, daemon>>
      /\ calls[s].step = "done"
      /\ calls' \in [Slots -> Login!Call]
      /\ \A t \in Slots \ {s} : calls'[t] = calls[t]
      /\ calls'[s] = Login!NoCall /\ calls'[s].op = "none" /\ calls'[s].from = ""
      /\ reported' \in {reported, "installed", "removed"}
  BY <1>1, AnswerMoves
<1>3. calls[s] \in Login!Call
  BY DEF Login!TypeOK
<1>6. /\ platform' \in {"linux", "darwin"}
      /\ binary' \in Login!Versions \ {0} /\ file' \in Login!Versions /\ daemon' \in Login!Versions
      /\ manager' \in [loaded : Login!Versions, enabled : BOOLEAN, wanted : BOOLEAN]
      /\ other' \in BOOLEAN /\ calls' \in [Slots -> Login!Call]
      /\ tray' \in [inFlight : BOOLEAN, dialog : {"", "force", "remove"}]
      /\ reported' \in {"installed", "removed", "unknown"}
      /\ faults' \in 0..MaxFaults /\ logins' \in 0..MaxLogins
  BY <1>1, <1>2 DEF Login!TypeOK
<1>7. Login!JobInv' /\ Login!OneAction'
  <2>1. Login!JobInv'
    BY <1>2 DEF Login!JobInv, Login!Linux
  <2>2. Login!OneAction'
    BY <1>1, <1>2 DEF Login!OneAction
  <2> QED
    BY <2>1, <2>2
<1>4. CASE ~Login!IsCurrent(calls[s])
  <2>1. panel' = panel
    BY <1>1, <1>4
  <2>2. Login!TypeOK' /\ Login!JobInv' /\ Login!OneAction'
    BY <1>6, <1>7, <2>1 DEF Login!TypeOK
  <2>3. Login!CallInv'
    BY <1>2, <2>1, AnsweredCall
  <2> QED
    BY <1>1, <1>2, <1>4, <2>1, <2>2, <2>3, StaleAnswer DEF Login!IsCurrent, Login!Current
<1>5. CASE Login!IsCurrent(calls[s])
  <2>1. Login!Current(s) /\ panel.open /\ panel' = Login!ActionAnswer(calls[s])
    BY <1>1, <1>5 DEF Login!IsCurrent, Login!Current
  <2>2. panel.busy /\ ~panel.loading /\ panel.err # "failed"
    BY <1>1, <2>1 DEF Login!PanelInv, Login!Mutates
  <2>3. \/ /\ panel'.open = panel.open /\ panel'.loading = panel.loading /\ panel'.busy = FALSE
           /\ panel'.status = panel.status /\ panel'.gen = panel.gen
           /\ panel' = [panel EXCEPT !.busy = FALSE, !.err = calls[s].err]
        \/ /\ panel'.open = FALSE /\ panel'.loading = FALSE /\ panel'.busy = FALSE
           /\ panel'.gen = panel.gen /\ panel' = [Login!Closed EXCEPT !.gen = panel.gen]
    BY <2>1 DEF Login!ActionAnswer, Login!Closed, Login!TypeOK
  <2>4. panel' \in [open : BOOLEAN, gen : 0..MaxOpenings, loading : BOOLEAN, busy : BOOLEAN,
                  status : Login!Status, err : Login!Errors]
    <3>1. CASE panel' = [panel EXCEPT !.busy = FALSE, !.err = calls[s].err]
      BY <1>3, <3>1 DEF Login!TypeOK, Login!Call
    <3>2. CASE panel' = [Login!Closed EXCEPT !.gen = panel.gen]
      BY <3>2 DEF Login!TypeOK, Login!Closed, Login!NoStatus, Login!Status, Login!Errors
    <3> QED
      BY <2>3, <3>1, <3>2
  <2>5. Login!TypeOK' /\ Login!JobInv' /\ Login!OneAction'
    BY <1>6, <1>7, <2>4 DEF Login!TypeOK
  <2>6. Login!CallInv'
    BY <1>2, <2>3, AnsweredCall
  <2>7. \A t \in Slots : ~Login!Current(t)'
    <3>1. panel'.gen = panel.gen
      BY <2>3
    <3>2. \A t \in Slots : Login!Current(t)' => t # s /\ Login!Current(t)
      BY <1>2, <3>1 DEF Login!Current
    <3> QED
      BY <2>1, <3>2 DEF Login!PanelInv
  <2>8. truths \subseteq truths' /\ Login!Actual' \in truths'
    BY <2>3 DEF Recorded
  <2>9. Login!ShownWasTrue'
    BY <2>1, <2>2, <2>3, <2>8 DEF Login!PanelInv, Login!ShownWasTrue, Login!Seen
  <2>10. Login!PanelInv'
    BY <2>2, <2>3, <2>7, <2>8, <2>9 DEF Login!PanelInv, Login!PanelIsServed
  <2> QED
    BY <2>5, <2>6, <2>10
<1> QED
  BY <1>4, <1>5

LEMMA GuiResultKeepsStatus ==
  ASSUME Login!LoginServiceAssumption, Login!StatusInv, Recorded, NEW s \in Slots,
           Login!GuiResult(s)
  PROVE  Login!StatusInv'
<1> USE DEF Login!StatusInv
<1>1. /\ calls[s].from = "gui" /\ Login!Answered(s) /\ panel' = panel
      /\ tray' = [inFlight |-> FALSE, dialog |-> Login!DialogAfter(calls[s])]
  BY DEF Login!GuiResult
<1>2. /\ UNCHANGED <<platform, binary, other, faults, logins, file, manager, daemon>>
      /\ calls' \in [Slots -> Login!Call]
      /\ \A t \in Slots \ {s} : calls'[t] = calls[t]
      /\ calls'[s] = Login!NoCall /\ calls'[s].op = "none" /\ calls'[s].from = ""
      /\ reported' \in {reported, "installed", "removed"}
  BY <1>1, AnswerMoves
<1>3. Login!DialogAfter(calls[s]) \in {"", "force", "remove"}
  BY DEF Login!DialogAfter, Login!TypeOK
<1>4. Login!TypeOK'
  BY <1>1, <1>2, <1>3 DEF Login!TypeOK
<1>5. Login!JobInv'
  BY <1>2 DEF Login!JobInv, Login!Linux
<1>6. Login!OneAction'
  BY <1>1, <1>2 DEF Login!OneAction
<1>7. Login!CallInv'
  BY <1>1, <1>2, AnsweredCall
<1> QED
  BY <1>1, <1>2, <1>4, <1>5, <1>6, <1>7, StaleAnswer DEF Login!Current

LEMMA InitStatus == ASSUME Login!LoginServiceAssumption, Login!Init PROVE Login!StatusInv
<1>1. /\ MaxVersion \in Nat \ {0} /\ MaxOpenings \in Nat /\ MaxFaults \in Nat /\ MaxLogins \in Nat
      /\ platform \in {"linux", "darwin"} /\ binary = 1 /\ file = 0 /\ daemon = 0 /\
           other \in BOOLEAN
      /\ manager = [loaded |-> 0, enabled |-> FALSE, wanted |-> FALSE]
      /\ calls = [s \in Slots |-> Login!NoCall] /\ panel = Login!Closed /\
           tray = [inFlight |-> FALSE, dialog |-> ""]
      /\ reported = "removed" /\ truths = {Login!NoStatus} /\ faults = 0 /\ logins = 0
  BY DEF Login!LoginServiceAssumption, Login!Init
<1>2. Login!NoCall.op = "none" /\ Login!NoCall.from = ""
  BY DEF Login!NoCall
<1>3. 0 \in Login!Versions /\ 1 \in Login!Versions \ {0}
  BY DEF Login!Versions, Login!LoginServiceAssumption
<1>4. Login!NoStatus \in Login!Status
  BY DEF Login!NoStatus, Login!Status
<1>5. /\ 0 \in 0..MaxOpenings /\ 0 \in 0..MaxFaults /\ 0 \in 0..MaxLogins
  BY DEF Login!LoginServiceAssumption
<1>6. Login!NoCall \in Login!Call
  BY <1>3, <1>4, <1>5 DEF Login!NoCall, Login!Call, Login!Errors, Login!Commands
<1>7. Login!Closed \in [open : BOOLEAN, gen : 0..MaxOpenings, loading : BOOLEAN, busy : BOOLEAN,
                  status : Login!Status, err : Login!Errors]
  BY <1>4, <1>5 DEF Login!Closed, Login!Errors
<1>8. Login!TypeOK
  BY <1>1, <1>3, <1>5, <1>6, <1>7 DEF Login!TypeOK
<1>9. ~Login!Closed.open /\ ~Login!Closed.loading /\ ~Login!Closed.busy
  BY DEF Login!Closed
<1>10. Login!Actual = Login!NoStatus
  BY <1>1 DEF Login!Actual, Login!NoStatus
<1>11. \A s \in Slots : Login!Free(s) /\ calls[s] = Login!NoCall /\ calls[s].from = ""
  BY <1>1, <1>2 DEF Login!Free
<1>12. Login!CallInv /\ Login!OneAction
  BY <1>11 DEF Login!CallInv, Login!OneAction
<1>13. Login!JobInv
  BY <1>1 DEF Login!JobInv
<1>14. Login!PanelInv
  BY <1>1, <1>9, <1>10, <1>11 DEF Login!PanelInv, Login!Current, Login!ShownWasTrue,
     Login!PanelIsServed
<1> QED
  BY <1>8, <1>12, <1>13, <1>14 DEF Login!StatusInv

LEMMA NextStatus ==
  ASSUME Login!LoginServiceAssumption, Login!StatusInv, [Login!Next]_(Login!vars)
  PROVE  Login!StatusInv'
<1>1. CASE Login!Next
  <2>1. Recorded
    BY <1>1 DEF Login!Next, Recorded
  <2>2. CASE Login!Start \/ Login!Crash \/ Login!LogIn \/ Login!OtherDaemon \/ Login!Upgrade \/
               Login!ClosePanel \/ Login!DisableItem \/ Login!Decline
    BY <2>1, <2>2, StartKeepsStatus, CrashKeepsStatus, LogInKeepsStatus, OtherKeepsStatus,
       UpgradeKeepsStatus, ClosePanelKeepsStatus, DialogKeepsStatus
  <2>3. ASSUME NEW s \in Slots, Login!Work(s) \/ Login!Fail(s) PROVE Login!StatusInv'
    BY <2>1, <2>3, WorkKeepsStatus, FailKeepsStatus
  <2>4. ASSUME NEW s \in Slots, Login!OpenPanel(s) \/ Login!ConfirmPanel(s) \/
                     Login!StatusResult(s) \/ Login!ActionResult(s)
        PROVE  Login!StatusInv'
    BY <2>1, <2>4, OpenPanelKeepsStatus, ConfirmPanelKeepsStatus, StatusResultKeepsStatus,
       ActionResultKeepsStatus
  <2>5. ASSUME NEW s \in Slots, Login!Enable(s) \/ Login!ForceInstall(s) \/
                     Login!UninstallService(s) \/ Login!GuiResult(s)
        PROVE  Login!StatusInv'
    BY <2>1, <2>5, TrayKeepsStatus, GuiResultKeepsStatus
  <2> QED
    BY <1>1, <2>2, <2>3, <2>4, <2>5 DEF Login!Next, Login!Step
<1>2. CASE UNCHANGED Login!vars
  <2>1. /\ UNCHANGED <<platform, binary, file, manager, daemon, other, calls, panel, tray,
             reported>>
        /\ truths' = truths /\ faults' = faults /\ logins' = logins
    BY <1>2 DEF Login!vars
  <2>2. Login!TypeOK'
    BY <2>1 DEF Login!StatusInv, Login!TypeOK
  <2>5. Login!CallInv'
    BY <2>1 DEF Login!StatusInv, Login!CallInv, Login!Free, Login!Steps, Login!Linux
  <2>3. Login!JobInv' /\ Login!OneAction'
    BY <2>1 DEF Login!StatusInv, Login!JobInv, Login!OneAction, Login!Linux
  <2>4. Login!PanelInv'
    BY <2>1 DEF Login!StatusInv, Login!PanelInv, Login!Actual, Login!Current, Login!Seen,
       Login!ShownWasTrue, Login!PanelIsServed
  <2> QED
    BY <2>2, <2>3, <2>4, <2>5 DEF Login!StatusInv
<1> QED
  BY <1>1, <1>2

(* The panel shows nothing that was not so since it was opened, has one call *)
(* under way exactly while it waits, and acts on one answer at a time; the   *)
(* tray has one action under way (ServicePanel, serviceGen,                  *)
(* svcActionInFlight).                                                       *)
THEOREM PanelTrue ==
  ASSUME Login!LoginServiceAssumption
  PROVE  Login!Spec => [](Login!TypeOK /\ Login!ShownWasTrue /\ Login!OffersWhenIdle /\
           Login!PanelIsServed /\ Login!OneAction)
<1>1. ASSUME Login!StatusInv PROVE Login!OffersWhenIdle
  <2> SUFFICES ASSUME Login!TakesConfirm, NEW s \in Slots, calls[s].from = "tui"
               PROVE  calls[s].gen < panel.gen
    BY DEF Login!OffersWhenIdle
  <2>1. panel.open /\ ~panel.loading /\ ~panel.busy
    BY DEF Login!TakesConfirm
  <2>2. calls[s].gen # panel.gen
    BY <1>1, <2>1 DEF Login!StatusInv, Login!PanelInv, Login!Current
  <2>3. ~Login!Free(s)
    <3>1. Login!NoCall.from = ""
      BY DEF Login!NoCall
    <3> QED
      BY <1>1, <3>1 DEF Login!StatusInv, Login!CallInv
  <2>4. calls[s].gen <= panel.gen
    BY <1>1, <2>3 DEF Login!StatusInv, Login!CallInv
  <2>5. calls[s].gen \in 0..MaxOpenings /\ panel.gen \in 0..MaxOpenings
    BY <1>1 DEF Login!StatusInv, Login!TypeOK, Login!Call
  <2> QED
    BY <2>2, <2>4, <2>5
<1>2. Login!StatusInv => Login!TypeOK /\ Login!ShownWasTrue /\ Login!OffersWhenIdle /\
        Login!PanelIsServed /\ Login!OneAction
  BY <1>1 DEF Login!StatusInv, Login!PanelInv
<1> QED
  BY <1>2, InitStatus, NextStatus, PTL DEF Login!Spec

(* A step that leaves the service alone and no installer further than its   *)
(* first command.                                                           *)
LEMMA AskedAgain ==
  ASSUME Login!ChangesInv, UNCHANGED <<platform, file, manager, daemon>>, reported' \in {reported,
           "unknown"},
         \A s \in Slots : Login!Changes(s)' =>
           \/ calls'[s] = calls[s]
           \/ calls'[s].step = Login!First(calls'[s].op) /\ reported' = "unknown"
  PROVE  Login!ChangesInv'
<1>1. ASSUME NEW s \in Slots
      PROVE  (/\ calls[s].op = "install" => Login!InstallIsAt(s)
              /\ calls[s].op = "uninstall" => Login!UninstallIsAt(s)
              /\ Login!Changes(s) => reported = "unknown")'
  <2>1. CASE calls'[s] = calls[s]
    BY <2>1 DEF Login!ChangesInv, Login!InstallIsAt, Login!UninstallIsAt, Login!Succeeds,
       Login!Done, Login!At, Login!Changes
  <2>2. CASE calls'[s].step = Login!First(calls'[s].op) /\ reported' = "unknown"
    BY <2>2 DEF Login!InstallIsAt, Login!UninstallIsAt, Login!Succeeds, Login!Done, Login!At,
       Login!First
  <2>3. CASE ~Login!Changes(s)'
    BY <2>3 DEF Login!Changes, Login!Mutates
  <2> QED
    BY <2>1, <2>2, <2>3
<1>2. (/\ reported = "removed" => file = 0
       /\ reported = "installed" => file # 0 /\ manager.enabled /\ manager.wanted
       /\ ~Login!Linux /\ file = 0 => manager.loaded = 0
       /\ Login!NoOrphan)'
  BY DEF Login!ChangesInv, Login!NoOrphan, Login!Linux
<1> QED
  BY <1>1, <1>2 DEF Login!ChangesInv

(* The command of the one call that installs or uninstalls.                 *)
LEMMA OneMoves ==
  ASSUME Login!ChangesInv, Login!OneChanges, reported' = reported, NEW s \in Slots,
           Login!Changes(s), SameCall(s),
         calls[s].op = "install" => Login!InstallIsAt(s)',
         calls[s].op = "uninstall" => Login!UninstallIsAt(s)',
         ~Login!Linux' /\ file' = 0 => manager'.loaded = 0, Login!NoOrphan'
  PROVE  Login!ChangesInv'
<1>1. reported = "unknown"
  BY DEF Login!ChangesInv
<1>2. \A t \in Slots \ {s} : ~Login!Changes(t) /\ calls'[t] = calls[t]
  BY DEF Login!OneChanges, SameCall
<1>3. ASSUME NEW t \in Slots
      PROVE  (/\ calls[t].op = "install" => Login!InstallIsAt(t)
              /\ calls[t].op = "uninstall" => Login!UninstallIsAt(t)
              /\ Login!Changes(t) => reported = "unknown")'
  <2>1. CASE t = s
    BY <1>1, <2>1 DEF SameCall
  <2>2. CASE t # s
    BY <1>2, <2>2 DEF Login!Changes, Login!Mutates
  <2> QED
    BY <2>1, <2>2
<1> QED
  BY <1>1, <1>3 DEF Login!ChangesInv

(* The command a call is at is the one that works.                          *)
LEMMA CommandIs ==
  ASSUME NEW s \in Slots, Login!Work(s)
  PROVE  /\ Login!At(s, "check") => Login!CheckLock(s)
         /\ Login!At(s, "resolve") => Login!Resolve(s)
         /\ Login!At(s, "write") => Login!WriteFile(s)
         /\ Login!At(s, "reread") => Login!DaemonReload(s)
         /\ Login!At(s, "enable") => Login!EnableNow(s)
         /\ Login!At(s, "reload") \/ Login!At(s, "unload") => Login!Unload(s)
         /\ Login!At(s, "load") => Login!LoadJob(s)
         /\ Login!At(s, "stat") => Login!Stat(s)
         /\ Login!At(s, "stop") => Login!Stop(s)
         /\ Login!At(s, "disable") => Login!Disable(s)
         /\ Login!At(s, "remove") => Login!RemoveFile(s)
BY DEF Login!Work, Login!CheckLock, Login!Resolve, Login!WriteFile, Login!Stat, Login!RemoveFile,
   Login!DaemonReload, Login!EnableNow, Login!Stop, Login!Disable,
   Login!Unload, Login!LoadJob, Login!Look, Login!QueryState, Login!ListJob, Login!At

LEMMA InstallKeepsChanges ==
  ASSUME Login!LoginServiceAssumption, Login!StatusInv, Login!ChangesInv, Login!OneChanges,
           NEW s \in Slots,
         Login!Work(s), calls[s].op = "install"
  PROVE  Login!ChangesInv'
<1> USE DEF Login!StatusInv
<1>1. ~Login!Free(s) /\ ~Login!At(s, "done") /\ SameCall(s)
  BY WorkMoves
<1>2. platform' = platform /\ reported' = reported /\ Login!Changes(s) /\ Login!Changes(s)' /\
        calls'[s].op = "install"
  BY <1>1 DEF Login!Work, Login!world, Login!Changes, Login!Mutates, SameCall
<1>3. Login!InstallIsAt(s) /\ Login!NoOrphan /\ (~Login!Linux /\ file = 0 => manager.loaded = 0)
  BY DEF Login!ChangesInv
<1>4. SUFFICES Login!InstallIsAt(s)' /\ Login!NoOrphan' /\ (~Login!Linux /\ file' = 0 =>
                 manager'.loaded = 0)
  BY <1>1, <1>2, OneMoves DEF Login!Linux
<1>5. manager \in [loaded : Login!Versions, enabled : BOOLEAN, wanted : BOOLEAN]
  BY DEF Login!TypeOK
<1> USE DEF Login!InstallIsAt, Login!NoOrphan, Login!Succeeds, Login!Done
<1>6. CASE Login!At(s, "check")
  <2>1. UNCHANGED Login!service /\ (Login!Goes(s) \/ Login!Returns(s, "locked"))
    BY <1>6, CommandIs DEF Login!CheckLock
  <2>2. Login!Following(s) = "resolve"
    BY <1>1, <1>6, Programs DEF Login!At
  <2>3. calls'[s].step = "resolve" \/ (calls'[s].step = "done" /\ calls'[s].err = "locked")
    <3>1. "locked" \in Login!Errors
      BY DEF Login!Errors
    <3>2. ASSUME Login!Goes(s) PROVE calls'[s].step = "resolve"
      BY <1>1, <2>2, <3>2, GoesOn
    <3>3. ASSUME Login!Returns(s, "locked") PROVE calls'[s].step = "done" /\
                   calls'[s].err = "locked"
      BY <3>1, <3>3, ReturnMoves
    <3> QED
      BY <2>1, <3>2, <3>3
  <2> QED
    BY <1>3, <2>1, <2>3 DEF Login!service, Login!At
<1>7. CASE Login!At(s, "resolve")
  <2>1. /\ UNCHANGED Login!service
        /\ calls' = [calls EXCEPT ![s].step = Login!Following(s), ![s].wrote = binary]
    BY <1>7, CommandIs DEF Login!Resolve
  <2>2. Login!Following(s) = "write"
    BY <1>1, <1>7, Programs DEF Login!At
  <2>3. calls'[s].step = "write" /\ calls'[s].wrote = binary /\ binary # 0
    BY <2>1, <2>2 DEF Login!TypeOK, Login!Call
  <2> QED
    BY <1>3, <2>1, <2>3 DEF Login!service, Login!At
<1>8. CASE Login!At(s, "write")
  <2>1. /\ file' = calls[s].wrote /\ UNCHANGED <<manager, daemon>>
        /\ calls' = [calls EXCEPT ![s].step =
             IF Login!Following(s) = "reload" /\ file = 0 THEN "load" ELSE Login!Following(s)]
    BY <1>8, CommandIs DEF Login!WriteFile
  <2>2. Login!Following(s) = (IF Login!Linux THEN "reread" ELSE "reload")
    BY <1>1, <1>8, Programs DEF Login!At
  <2>3. calls'[s].step \in {"reread", "reload", "load"}
        /\ (calls'[s].step = "load" => file = 0 /\ ~Login!Linux)
    BY <2>1, <2>2 DEF Login!TypeOK, Login!Call
  <2>4. file' # 0
    BY <1>3, <1>8, <2>1 DEF Login!At
  <2> QED
    BY <1>3, <2>1, <2>3, <2>4 DEF Login!At
<1>9. CASE Login!At(s, "reread")
  <2>1. Login!Linux /\ Login!Following(s) = "enable"
    BY <1>1, <1>9, Programs DEF Login!At
  <2>2. Login!Goes(s) /\ UNCHANGED <<file, daemon>>
    BY <1>9, CommandIs DEF Login!DaemonReload
  <2>3. calls'[s].step = "enable"
    BY <1>1, <2>1, <2>2, GoesOn
  <2>4. file # 0
    BY <1>3, <1>9 DEF Login!At
  <2> QED
    BY <2>1, <2>2, <2>3, <2>4 DEF Login!At
<1>10. CASE Login!At(s, "enable")
  <2>1. Login!Linux /\ Login!Following(s) = "done" /\ file # 0
    BY <1>1, <1>3, <1>10, Programs DEF Login!At
  <2>2. /\ Login!Goes(s) /\ UNCHANGED <<file, daemon>>
        /\ manager' = [loaded |-> IF manager.loaded = 0 THEN file ELSE manager.loaded,
                       enabled |-> TRUE, wanted |-> TRUE]
    BY <1>10, <2>1, CommandIs DEF Login!EnableNow
  <2>3. calls'[s].step = "done"
    BY <1>1, <2>1, <2>2, GoesOn
  <2>4. manager'.enabled /\ manager'.wanted
    BY <2>2
  <2> QED
    BY <2>1, <2>2, <2>3, <2>4 DEF Login!At
<1>11. CASE Login!At(s, "reload")
  <2>1. Login!Following(s) = "load" /\ file # 0
    BY <1>1, <1>3, <1>11, Programs DEF Login!At
  <2>2. /\ Login!Goes(s) /\ UNCHANGED file
        /\ manager' = [manager EXCEPT !.loaded = 0, !.enabled = FALSE, !.wanted = FALSE]
    BY <1>11, CommandIs DEF Login!Unload
  <2>3. calls'[s].step = "load" /\ manager'.loaded = 0
    BY <1>1, <1>5, <2>1, <2>2, GoesOn
  <2> QED
    BY <2>1, <2>2, <2>3 DEF Login!At
<1>12. CASE Login!At(s, "load")
  <2>1. Login!Following(s) = "done" /\ file # 0 /\ manager.loaded = 0
    BY <1>1, <1>3, <1>12, Programs DEF Login!At
  <2>2. /\ Login!Goes(s) /\ UNCHANGED <<file, daemon>>
        /\ manager' = [loaded |-> file, enabled |-> TRUE, wanted |-> TRUE]
    BY <1>12, <2>1, CommandIs DEF Login!LoadJob
  <2>3. calls'[s].step = "done"
    BY <1>1, <2>1, <2>2, GoesOn
  <2>4. manager'.enabled /\ manager'.wanted
    BY <2>2
  <2> QED
    BY <2>1, <2>2, <2>3, <2>4 DEF Login!At
<1> QED
  BY <1>1, <1>6, <1>7, <1>8, <1>9, <1>10, <1>11, <1>12, Programs

LEMMA UninstallKeepsChanges ==
  ASSUME Login!LoginServiceAssumption, Login!StatusInv, Login!ChangesInv, Login!OneChanges,
           NEW s \in Slots,
         Login!Work(s), calls[s].op = "uninstall"
  PROVE  Login!ChangesInv'
<1> USE DEF Login!StatusInv
<1>1. ~Login!Free(s) /\ ~Login!At(s, "done") /\ SameCall(s)
  BY WorkMoves
<1>2. platform' = platform /\ reported' = reported /\ Login!Changes(s) /\ Login!Changes(s)' /\
        calls'[s].op = "uninstall"
  BY <1>1 DEF Login!Work, Login!world, Login!Changes, Login!Mutates, SameCall
<1>3. Login!UninstallIsAt(s) /\ Login!NoOrphan /\ (~Login!Linux /\ file = 0 => manager.loaded = 0)
  BY DEF Login!ChangesInv
<1>4. SUFFICES Login!UninstallIsAt(s)' /\ Login!NoOrphan' /\ (~Login!Linux /\ file' = 0 =>
                 manager'.loaded = 0)
  BY <1>1, <1>2, OneMoves DEF Login!Linux
<1>5. manager \in [loaded : Login!Versions, enabled : BOOLEAN, wanted : BOOLEAN]
  BY DEF Login!TypeOK
<1> USE DEF Login!UninstallIsAt, Login!NoOrphan, Login!Succeeds, Login!Done
<1>6. CASE Login!At(s, "stat")
  <2>1. UNCHANGED Login!service /\ (Login!Goes(s) \/ (Login!Returns(s, "") /\ file = 0))
    <3>1. Login!Stat(s)
      BY <1>6, CommandIs
    <3> QED
      BY <3>1 DEF Login!Stat
  <2>2. Login!Following(s) \in {"stop", "unload"}
    BY <1>1, <1>6, Programs DEF Login!At
  <2>3. calls'[s].step \in {"stop", "unload"} \/ (calls'[s].step = "done" /\ file = 0)
    BY <1>1, <2>1, <2>2, GoesOn, ReturnMoves DEF Login!Errors
  <2> QED
    BY <1>3, <2>1, <2>3 DEF Login!service, Login!At
<1>7. CASE Login!At(s, "stop")
  <2>1. Login!Linux /\ Login!Following(s) = "disable"
    BY <1>1, <1>7, Programs DEF Login!At
  <2>2. /\ file' = file
        /\ \/ Login!Returns(s, "failed") /\ UNCHANGED <<manager, daemon>>
           \/ Login!Goes(s) /\ manager' = [manager EXCEPT !.wanted = FALSE] /\ daemon' = 0
    BY <1>7, CommandIs DEF Login!Stop
  <2>3. CASE Login!Returns(s, "failed") /\ UNCHANGED <<manager, daemon>>
    <3>1. calls'[s].step = "done" /\ calls'[s].err = "failed"
      BY <2>3, ReturnMoves DEF Login!Errors
    <3> QED
      BY <1>3, <2>1, <2>2, <2>3, <3>1 DEF Login!At
  <2>4. CASE Login!Goes(s) /\ manager' = [manager EXCEPT !.wanted = FALSE] /\ daemon' = 0
    <3>1. calls'[s].step = "disable"
      BY <1>1, <2>1, <2>4, GoesOn
    <3>2. manager'.wanted = FALSE /\ manager'.enabled = manager.enabled
      BY <1>5, <2>4
    <3> QED
      BY <1>3, <2>1, <2>2, <2>4, <3>1, <3>2 DEF Login!At
  <2> QED
    BY <2>2, <2>3, <2>4
<1>8. CASE Login!At(s, "disable")
  <2>1. Login!Linux /\ Login!Following(s) = "remove"
    BY <1>1, <1>8, Programs DEF Login!At
  <2>2. /\ UNCHANGED <<file, daemon>>
        /\ \/ Login!Returns(s, "failed") /\ UNCHANGED manager
           \/ Login!Goes(s) /\ manager' = [manager EXCEPT !.enabled = FALSE]
    BY <1>8, CommandIs DEF Login!Disable
  <2>3. CASE Login!Returns(s, "failed") /\ UNCHANGED manager
    <3>1. calls'[s].step = "done" /\ calls'[s].err = "failed"
      BY <2>3, ReturnMoves DEF Login!Errors
    <3> QED
      BY <1>3, <2>1, <2>2, <2>3, <3>1 DEF Login!At
  <2>4. CASE Login!Goes(s) /\ manager' = [manager EXCEPT !.enabled = FALSE]
    <3>1. calls'[s].step = "remove"
      BY <1>1, <2>1, <2>4, GoesOn
    <3>2. manager'.enabled = FALSE /\ manager'.wanted = manager.wanted
      BY <1>5, <2>4
    <3>3. ~manager.wanted /\ daemon = 0
      BY <1>3, <1>8 DEF Login!At
    <3> QED
      BY <1>3, <2>1, <2>2, <3>1, <3>2, <3>3 DEF Login!At
  <2> QED
    BY <2>2, <2>3, <2>4
<1>9. CASE Login!At(s, "unload")
  <2>1. Login!Following(s) = "remove"
    BY <1>1, <1>9, Programs DEF Login!At
  <2>2. /\ Login!Goes(s) /\ UNCHANGED file /\ daemon' = 0
        /\ manager' = [manager EXCEPT !.loaded = 0, !.enabled = FALSE, !.wanted = FALSE]
    BY <1>9, CommandIs DEF Login!Unload
  <2>3. calls'[s].step = "remove"
    BY <1>1, <2>1, <2>2, GoesOn
  <2>4. manager'.loaded = 0 /\ ~manager'.enabled /\ ~manager'.wanted
    BY <1>5, <2>2
  <2> QED
    BY <2>2, <2>3, <2>4 DEF Login!At
<1>10. CASE Login!At(s, "remove")
  <2>1. Login!Following(s) = (IF Login!Linux THEN "reread" ELSE "done")
    BY <1>1, <1>10, Programs DEF Login!At
  <2>2. Login!Goes(s) /\ file' = 0 /\ UNCHANGED <<manager, daemon>>
    BY <1>10, CommandIs DEF Login!RemoveFile
  <2>3. calls'[s].step \in {"reread", "done"}
    BY <1>1, <2>1, <2>2, GoesOn
  <2>4. ~manager.wanted /\ daemon = 0 /\ ~manager.enabled
    BY <1>3, <1>10 DEF Login!At
  <2>5. ~Login!Linux => manager.loaded = 0
    BY <2>4 DEF Login!JobInv
  <2> QED
    BY <2>2, <2>3, <2>4, <2>5 DEF Login!At
<1>11. CASE Login!At(s, "reread")
  <2>1. Login!Linux /\ Login!Following(s) = "done" /\ file = 0
    BY <1>1, <1>3, <1>11, Programs DEF Login!At
  <2>2. Login!Goes(s) /\ UNCHANGED <<file, daemon>> /\ manager' = [manager EXCEPT !.loaded = file]
    BY <1>11, CommandIs DEF Login!DaemonReload
  <2>3. calls'[s].step = "done" /\ manager'.enabled = manager.enabled /\
          manager'.wanted = manager.wanted
    BY <1>1, <1>5, <2>1, <2>2, GoesOn
  <2> QED
    BY <1>3, <2>1, <2>2, <2>3 DEF Login!At
<1> QED
  BY <1>1, <1>6, <1>7, <1>8, <1>9, <1>10, <1>11, Programs

LEMMA WorkKeepsChanges ==
  ASSUME Login!LoginServiceAssumption, Login!StatusInv, Login!ChangesInv, Login!OneChanges,
           NEW s \in Slots, Login!Work(s)
  PROVE  Login!ChangesInv'
<1>1. ~Login!Free(s) /\ ~Login!At(s, "done") /\ SameCall(s)
  BY WorkMoves DEF Login!StatusInv
<1>2. CASE calls[s].op = "status"
  <2>1. platform' = platform /\ reported' = reported
    BY DEF Login!Work, Login!world
  <2>2. UNCHANGED <<file, manager, daemon>>
    <3>1. Login!At(s, "look") \/ Login!At(s, "isEnabled") \/ Login!At(s, "isActive") \/ Login!At(s,
            "list")
      BY <1>1, <1>2, Programs DEF Login!StatusInv
    <3> QED
      BY <3>1 DEF Login!Work, Login!CheckLock, Login!Resolve, Login!WriteFile, Login!Stat,
         Login!RemoveFile, Login!DaemonReload, Login!EnableNow,
         Login!Stop, Login!Disable, Login!Unload, Login!LoadJob, Login!Look, Login!QueryState,
             Login!ListJob, Login!At, Login!service
  <2>3. \A t \in Slots : Login!Changes(t)' => calls'[t] = calls[t]
    BY <1>1, <1>2 DEF SameCall, Login!Changes, Login!Mutates
  <2> QED
    BY <2>1, <2>2, <2>3, AskedAgain
<1>3. calls[s].op \in {"install", "uninstall", "status"}
  BY <1>1 DEF Login!StatusInv, Login!TypeOK, Login!Call, Login!Free
<1> QED
  BY <1>2, <1>3, InstallKeepsChanges, UninstallKeepsChanges

LEMMA FailKeepsChanges ==
  ASSUME Login!LoginServiceAssumption, Login!StatusInv, Login!ChangesInv, Login!OneChanges,
           NEW s \in Slots, Login!Fail(s)
  PROVE  Login!ChangesInv'
<1>1. /\ UNCHANGED <<platform, file, manager, daemon, reported>>
      /\ SameCall(s) /\ calls'[s].step = "done" /\ calls'[s].err = "failed"
  BY ReturnMoves DEF Login!Fail, Login!service, Login!StatusInv, Login!Errors
<1>2. CASE Login!Changes(s)
  <2>1. Login!InstallIsAt(s)' /\ Login!UninstallIsAt(s)'
    BY <1>1 DEF Login!InstallIsAt, Login!UninstallIsAt, Login!Succeeds, Login!Done, Login!At
  <2>2. Login!NoOrphan' /\ (~Login!Linux' /\ file' = 0 => manager'.loaded = 0)
    BY <1>1 DEF Login!ChangesInv, Login!NoOrphan, Login!Linux
  <2> QED
    BY <1>1, <1>2, <2>1, <2>2, OneMoves
<1>3. CASE ~Login!Changes(s)
  <2>1. \A t \in Slots : Login!Changes(t)' => calls'[t] = calls[t]
    BY <1>1, <1>3 DEF SameCall, Login!Changes, Login!Mutates
  <2> QED
    BY <1>1, <2>1, AskedAgain
<1> QED
  BY <1>2, <1>3

LEMMA AnswerKeepsChanges ==
  ASSUME Login!LoginServiceAssumption, Login!StatusInv, Login!ChangesInv, Login!OneChanges,
           NEW s \in Slots, Login!Answered(s)
  PROVE  Login!ChangesInv'
<1>1. /\ UNCHANGED <<platform, file, manager, daemon>>
      /\ \A t \in Slots \ {s} : calls'[t] = calls[t]
      /\ calls'[s].op = "none"
      /\ reported' = IF ~Login!Succeeds(s) THEN reported
                  ELSE IF calls[s].op = "install" THEN "installed" ELSE "removed"
  BY AnswerMoves DEF Login!StatusInv
<1>2. \A t \in Slots : Login!Changes(t)' => t # s /\ calls'[t] = calls[t]
  BY <1>1 DEF Login!Changes, Login!Mutates
<1>3. CASE ~Login!Succeeds(s)
  BY <1>1, <1>2, <1>3, AskedAgain
<1>4. CASE Login!Succeeds(s)
  <2>1. Login!Changes(s) /\ calls[s].op \in {"install", "uninstall"}
    BY <1>4 DEF Login!Succeeds, Login!Changes, Login!Mutates
  <2>2. \A t \in Slots : ~Login!Changes(t)'
    BY <1>2, <2>1 DEF Login!OneChanges, Login!Changes
  <2>3. CASE calls[s].op = "install"
    <3>1. file # 0 /\ manager.enabled /\ manager.wanted
      BY <1>4, <2>3 DEF Login!ChangesInv, Login!InstallIsAt
    <3> QED
      BY <1>1, <1>4, <2>2, <2>3, <3>1 DEF Login!ChangesInv, Login!Changes, Login!Mutates,
         Login!NoOrphan, Login!Linux
  <2>4. CASE calls[s].op = "uninstall"
    <3>1. file = 0
      BY <1>4, <2>4 DEF Login!ChangesInv, Login!UninstallIsAt
    <3> QED
      BY <1>1, <1>4, <2>2, <2>4, <3>1 DEF Login!ChangesInv, Login!Changes, Login!Mutates,
         Login!NoOrphan, Login!Linux
  <2> QED
    BY <2>1, <2>3, <2>4
<1> QED
  BY <1>3, <1>4

LEMMA BeginKeepsChanges ==
  ASSUME Login!LoginServiceAssumption, Login!StatusInv, Login!ChangesInv, NEW s \in Slots,
         UNCHANGED <<platform, file, manager, daemon>>,
         NEW op, NEW from, NEW gen, NEW force, Login!Begin(s, op, from, gen, force)
  PROVE  Login!ChangesInv'
<1>1. /\ \A t \in Slots \ {s} : calls'[t] = calls[t]
      /\ calls'[s].op = op /\ calls'[s].step = Login!First(op)
      /\ reported' = IF Login!Mutates(op) THEN "unknown" ELSE reported
  <2> DEFINE call == [op |-> op, from |-> from, gen |-> gen, force |-> force,
        step |-> Login!First(op),
                      wrote |-> 0, status |-> Login!NoStatus, err |-> ""]
  <2>1. calls' = [calls EXCEPT ![s] = call] /\ calls \in [Slots -> Login!Call]
    BY DEF Login!Begin, Login!Called, Login!StatusInv, Login!TypeOK
  <2>2. call.op = op /\ call.step = Login!First(op)
    OBVIOUS
  <2> HIDE DEF call
  <2>3. calls'[s] = call /\ \A t \in Slots \ {s} : calls'[t] = calls[t]
    BY <2>1
  <2>4. reported' = IF Login!Mutates(op) THEN "unknown" ELSE reported
    BY DEF Login!Begin
  <2> QED
    BY <2>2, <2>3, <2>4
<1>2. \A t \in Slots : Login!Changes(t)' =>
        calls'[t] = calls[t] \/ (calls'[t].step = Login!First(calls'[t].op) /\
            reported' = "unknown")
  BY <1>1 DEF Login!Changes, Login!Mutates
<1> QED
  BY <1>1, <1>2, AskedAgain

LEMMA StartKeepsChanges ==
  ASSUME Login!StatusInv, Login!ChangesInv, Login!Start
  PROVE  Login!ChangesInv'
<1>1. /\ UNCHANGED <<platform, file, manager, calls, reported>>
      /\ manager.wanted
  BY DEF Login!Start
<1>2. file # 0
  BY <1>1 DEF Login!ChangesInv, Login!NoOrphan
<1>3. ASSUME NEW s \in Slots
      PROVE  (/\ calls[s].op = "install" => Login!InstallIsAt(s)
              /\ calls[s].op = "uninstall" => Login!UninstallIsAt(s)
              /\ Login!Changes(s) => reported = "unknown")'
  BY <1>1 DEF Login!ChangesInv, Login!InstallIsAt, Login!UninstallIsAt, Login!Changes,
     Login!Succeeds, Login!Done, Login!At
<1> QED
  BY <1>1, <1>2, <1>3 DEF Login!ChangesInv, Login!NoOrphan, Login!Linux

LEMMA CrashKeepsChanges ==
  ASSUME Login!StatusInv, Login!ChangesInv, Login!Crash
  PROVE  Login!ChangesInv'
<1>1. UNCHANGED <<platform, file, manager, calls, reported>> /\ daemon' = 0
  BY DEF Login!Crash
<1>2. ASSUME NEW s \in Slots
      PROVE  (/\ calls[s].op = "install" => Login!InstallIsAt(s)
              /\ calls[s].op = "uninstall" => Login!UninstallIsAt(s)
              /\ Login!Changes(s) => reported = "unknown")'
  BY <1>1 DEF Login!ChangesInv, Login!InstallIsAt, Login!UninstallIsAt, Login!Changes,
     Login!Succeeds, Login!Done, Login!At
<1> QED
  BY <1>1, <1>2 DEF Login!ChangesInv, Login!NoOrphan, Login!Linux

LEMMA LogInKeepsChanges ==
  ASSUME Login!StatusInv, Login!ChangesInv, Login!LogIn
  PROVE  Login!ChangesInv'
<1> DEFINE starts == file # 0 /\ (Login!Linux => manager.enabled)
           enabled == IF Login!Linux THEN manager.enabled ELSE starts
<1>1. /\ UNCHANGED <<platform, file, reported>> /\ daemon' = 0
      /\ manager' = [loaded |-> file, wanted |-> starts, enabled |-> enabled]
      /\ calls' = [s \in Slots |-> Login!NoCall]
  BY DEF Login!LogIn
<1>2. manager'.loaded = file /\ manager'.wanted = starts /\ manager'.enabled = enabled
  BY <1>1
<1>3. \A s \in Slots : calls'[s].op = "none"
  <2>1. Login!NoCall.op = "none"
    BY DEF Login!NoCall
  <2> QED
    BY <1>1, <2>1
<1>4. file = 0 => ~starts /\ ~enabled
  BY DEF Login!ChangesInv, Login!NoOrphan
<1>5. reported = "installed" => file # 0 /\ starts /\ enabled
  BY DEF Login!ChangesInv
<1>6. reported = "removed" => file = 0
  BY DEF Login!ChangesInv
<1> HIDE DEF starts, enabled
<1>7. (/\ reported = "removed" => file = 0
       /\ reported = "installed" => file # 0 /\ manager.enabled /\ manager.wanted
       /\ ~Login!Linux /\ file = 0 => manager.loaded = 0
       /\ Login!NoOrphan)'
  BY <1>1, <1>2, <1>4, <1>5, <1>6 DEF Login!NoOrphan
<1>8. \A s \in Slots : ~Login!Changes(s)'
  BY <1>3 DEF Login!Changes, Login!Mutates
<1> QED
  BY <1>3, <1>7, <1>8 DEF Login!ChangesInv

LEMMA NextChanges ==
  ASSUME Login!LoginServiceAssumption, Login!StatusInv, Login!ChangesInv, Login!OneChanges,
           [Login!Next]_(Login!vars)
  PROVE  Login!ChangesInv'
<1>1. CASE Login!Start \/ Login!Crash \/ Login!LogIn
  BY <1>1, StartKeepsChanges, CrashKeepsChanges, LogInKeepsChanges
<1>2. CASE UNCHANGED Login!vars \/ Login!OtherDaemon \/ Login!Upgrade \/ Login!ClosePanel \/
             Login!DisableItem \/ Login!Decline
  <2>1. UNCHANGED <<platform, file, manager, daemon, calls, reported>>
    BY <1>2 DEF Login!vars, Login!OtherDaemon, Login!Upgrade, Login!ClosePanel, Login!DisableItem,
       Login!Decline, Login!world, Login!service
  <2> QED
    BY <2>1, AskedAgain
<1>3. ASSUME NEW s \in Slots, Login!Work(s) \/ Login!Fail(s) PROVE Login!ChangesInv'
  BY <1>3, WorkKeepsChanges, FailKeepsChanges
<1>4. ASSUME NEW s \in Slots,
             \/ Login!OpenPanel(s) \/ Login!ConfirmPanel(s) \/ Login!Enable(s) \/
                  Login!ForceInstall(s) \/ Login!UninstallService(s)
      PROVE  Login!ChangesInv'
  <2>1. /\ \E op, from, gen, force : Login!Begin(s, op, from, gen, force)
        /\ UNCHANGED <<platform, file, manager, daemon>>
    BY <1>4 DEF Login!OpenPanel, Login!ConfirmPanel, Login!Enable, Login!ForceInstall,
       Login!UninstallService, Login!InstallService, Login!world,
       Login!service
  <2> QED
    BY <2>1, BeginKeepsChanges
<1>5. ASSUME NEW s \in Slots, Login!StatusResult(s) \/ Login!ActionResult(s) \/
                   Login!GuiResult(s) PROVE Login!ChangesInv'
  BY <1>5, AnswerKeepsChanges DEF Login!StatusResult, Login!ActionResult, Login!GuiResult
<1> QED
  BY <1>1, <1>2, <1>3, <1>4, <1>5 DEF Login!Next, Login!Step

LEMMA InitChanges == ASSUME Login!Init PROVE Login!ChangesInv
<1>1. /\ file = 0 /\ daemon = 0 /\ reported = "removed"
      /\ manager = [loaded |-> 0, enabled |-> FALSE, wanted |-> FALSE]
      /\ calls = [s \in Slots |-> Login!NoCall]
  BY DEF Login!Init
<1>2. Login!NoCall.op = "none"
  BY DEF Login!NoCall
<1>3. manager.loaded = 0 /\ ~manager.enabled /\ ~manager.wanted
  BY <1>1
<1>4. \A s \in Slots : calls[s].op = "none"
  BY <1>1, <1>2
<1> QED
  BY <1>1, <1>3, <1>4 DEF Login!ChangesInv, Login!NoOrphan, Login!Changes, Login!Mutates

(* As long as no two calls install or uninstall at one time, whatever fails, *)
(* crashes or logs in between their commands, nothing of the service is left *)
(* without its file, and what an installer has reported holds (Install,      *)
(* Uninstall).                                                               *)
THEOREM ServiceWhole ==
  ASSUME Login!LoginServiceAssumption
  PROVE  Login!Spec /\ []Login!OneChanges => [](Login!NoOrphan /\ Login!ReportedHolds)
<1>1. Login!Spec => []Login!StatusInv
  BY InitStatus, NextStatus, PTL DEF Login!Spec
<1>2. Login!ChangesInv => Login!NoOrphan /\ Login!ReportedHolds
  BY DEF Login!ChangesInv, Login!NoOrphan, Login!ReportedHolds
<1> QED
  BY <1>1, <1>2, InitChanges, NextChanges, PTL DEF Login!Spec

(* On launchd the job that an install has loaded is the one it has written:  *)
(* one that was loaded before has been unloaded.                             *)
LEMMA LaunchdRuns ==
  ASSUME Login!LoginServiceAssumption, Login!StatusInv, Login!ChangesInv, ~Login!Linux,
           [Login!Next]_(Login!vars)
  PROVE  Login!RunsWhatItWrote
<1> SUFFICES ASSUME NEW s \in Slots, Login!Succeeds(s)', ~Login!Done(s), calls[s].op = "install"
             PROVE  daemon' = 0
  BY DEF Login!RunsWhatItWrote
<1> USE DEF Login!StatusInv
<1>1. calls'[s].step = "done" /\ calls'[s].err = "" /\ Login!Mutates(calls'[s].op) /\
        calls[s].step # "done"
  BY DEF Login!Succeeds, Login!Done, Login!At
<1>2. ~Login!Free(s)
  BY DEF Login!Free
<1>3. CASE Login!Start \/ Login!Crash \/ Login!OtherDaemon \/ Login!Upgrade \/ Login!ClosePanel \/
             Login!DisableItem \/ Login!Decline \/ UNCHANGED Login!vars
  BY <1>1, <1>3 DEF Login!Start, Login!Crash, Login!OtherDaemon, Login!Upgrade, Login!ClosePanel,
     Login!DisableItem, Login!Decline, Login!vars
<1>4. CASE Login!LogIn
  BY <1>4 DEF Login!LogIn
<1>5. ASSUME NEW t \in Slots, Login!Work(t) PROVE daemon' = 0
  <2>1. t = s /\ SameCall(s) /\ ~Login!At(s, "done")
    BY <1>1, <1>5, WorkMoves DEF SameCall
  <2>2. Login!At(s, "load")
    <3>1. Login!Work(s) /\ ~Login!Free(s)
      BY <1>5, <1>2, <2>1
    <3> SUFFICES ASSUME ~Login!At(s, "load") PROVE FALSE
      OBVIOUS
    <3>2. /\ Login!At(s, "check") \/ Login!At(s, "resolve") \/ Login!At(s, "write") \/ Login!At(s,
               "reload")
          /\ Login!Following(s) \in {"resolve", "write", "reload", "load"}
      BY <2>1, <3>1, Programs
    <3>3. Login!CheckLock(s) \/ Login!Resolve(s) \/ Login!WriteFile(s) \/ Login!Unload(s)
      BY <3>1, <3>2, CommandIs
    <3>4. CASE Login!CheckLock(s)
      <4>1. Login!Goes(s) \/ Login!Returns(s, "locked")
        BY <3>4 DEF Login!CheckLock
      <4>2. "locked" \in Login!Errors
        BY DEF Login!Errors
      <4> QED
        BY <1>1, <2>1, <3>1, <3>2, <4>1, <4>2, GoesOn, ReturnMoves
    <3>5. CASE Login!Unload(s)
      BY <1>1, <2>1, <3>1, <3>2, <3>5, GoesOn DEF Login!Unload
    <3>6. CASE Login!Resolve(s)
      BY <1>1, <3>2, <3>6 DEF Login!Resolve, Login!TypeOK, Login!Call
    <3>7. CASE Login!WriteFile(s)
      BY <1>1, <3>2, <3>7 DEF Login!WriteFile, Login!TypeOK, Login!Call
    <3> QED
      BY <3>3, <3>4, <3>5, <3>6, <3>7
  <2>3. Login!LoadJob(s)
    BY <1>5, <2>1, <2>2, CommandIs
  <2>4. manager.loaded = 0
    BY <2>2 DEF Login!ChangesInv, Login!InstallIsAt, Login!At
  <2> QED
    BY <2>3, <2>4 DEF Login!JobInv, Login!LoadJob
<1>6. ASSUME NEW t \in Slots, Login!Fail(t) PROVE daemon' = 0
  <2>1. SameCall(t) /\ calls'[t].err = "failed"
    BY <1>6, ReturnMoves DEF Login!Fail, Login!Errors
  <2> QED
    BY <1>1, <2>1 DEF SameCall
<1>7. ASSUME NEW t \in Slots, \E op, from, gen, force : Login!Begin(t, op, from, gen,
                   force) PROVE daemon' = 0
  <2>1. t # s
    BY <1>2, <1>7 DEF Login!Begin
  <2>2. calls'[s] = calls[s]
    BY <1>7, <2>1 DEF Login!Begin, Login!Called, Login!TypeOK
  <2> QED
    BY <1>1, <2>2
<1>8. ASSUME NEW t \in Slots, Login!Answered(t) PROVE daemon' = 0
  <2>1. calls'[t].op = "none" /\ \A u \in Slots \ {t} : calls'[u] = calls[u]
    BY <1>8, AnswerMoves
  <2> QED
    BY <1>1, <2>1 DEF Login!Mutates
<1>9. ASSUME NEW t \in Slots,
             Login!OpenPanel(t) \/ Login!ConfirmPanel(t) \/ Login!Enable(t) \/
                 Login!ForceInstall(t) \/ Login!UninstallService(t)
      PROVE  \E op, from, gen, force : Login!Begin(t, op, from, gen, force)
  BY <1>9 DEF Login!OpenPanel, Login!ConfirmPanel, Login!Enable, Login!ForceInstall,
     Login!UninstallService, Login!InstallService
<1>10. ASSUME NEW t \in Slots, Login!StatusResult(t) \/ Login!ActionResult(t) \/
                    Login!GuiResult(t) PROVE Login!Answered(t)
  BY <1>10 DEF Login!StatusResult, Login!ActionResult, Login!GuiResult
<1> QED
  BY <1>3, <1>4, <1>5, <1>6, <1>7, <1>8, <1>9, <1>10 DEF Login!Next, Login!Step

-----------------------------------------------------------------------------
(* The sum. *)

(* A step of one machine is none of another's, whose variables it leaves. *)
LEMMA TerminalAlone == AllSpec => Spec
<1>1. AllInit => Init
  BY DEF AllInit
<1>2. [AllNext]_allVars => [Next]_vars
  BY DEF AllNext, allVars, Moves
<1> QED
  BY <1>1, <1>2, PTL DEF AllSpec, Spec

LEMMA WindowAlone == AllSpec => Edited!Spec
<1>1. AllInit => Edited!Init
  BY DEF AllInit
<1>2. [AllNext]_allVars => [Edited!Next]_(Edited!vars)
  BY DEF AllNext, allVars, Moves, window, Edited!vars
<1> QED
  BY <1>1, <1>2, PTL DEF AllSpec, Edited!Spec

LEMMA LoginAlone == AllSpec => Login!Spec
<1>1. AllInit => Login!Init
  BY DEF AllInit
<1>2. [AllNext]_allVars => [Login!Next]_(Login!vars)
  BY DEF AllNext, allVars, Moves, installer, Login!vars
<1> QED
  BY <1>1, <1>2, PTL DEF AllSpec, Login!Spec

(* Beside the other frontends the terminal shows what the service has, for  *)
(* any profiles, size of the channel and number of lists under way.         *)
THEOREM TerminalsCurrent == AllSpec => []TerminalIsCurrent
<1>1. Spec => [](/\ TypeOK /\ SelectionAgrees /\ QuietIsCurrent /\ QuietLogIsShown
                 /\ OfferedForTarget)
  BY MachineAssumption, TerminalCurrent DEF MachineAssumption
<1>2. TypeOK /\ SelectionAgrees /\ QuietIsCurrent /\ QuietLogIsShown /\ OfferedForTarget =>
        TerminalIsCurrent
  BY DEF TerminalIsCurrent
<1> QED
  BY <1>1, <1>2, TerminalAlone, PTL

(* And so does the window, whose form is of the selected profile (refresh,  *)
(* showSelected).                                                           *)
THEOREM WindowsCurrent == AllSpec => []WindowIsCurrent
<1>1. Edited!Spec => [](Edited!TypeOK /\ Edited!FormIsOfSelected /\ Edited!QuietIsShown)
  BY MachineAssumption, Edited!WindowCurrent DEF MachineAssumption
<1>2. Edited!TypeOK /\ Edited!FormIsOfSelected /\ Edited!QuietIsShown => WindowIsCurrent
  BY DEF WindowIsCurrent
<1> QED
  BY <1>1, <1>2, WindowAlone, PTL

(* The fields of a connected profile stay as they are in the window, the    *)
(* port forwards apart (updateRuntimeFieldState).                           *)
THEOREM FieldsLocked == AllSpec => RuntimeFieldsLocked
<1>1. Edited!Spec => Edited!RuntimeFieldsLocked
  BY MachineAssumption, Edited!FieldsStayLocked DEF MachineAssumption
<1>2. [Edited!FieldsLocked]_(Edited!vars) => [Edited!FieldsLocked]_window
  BY DEF window, Edited!vars
<1> QED
  BY <1>1, <1>2, WindowAlone, PTL DEF RuntimeFieldsLocked, Edited!RuntimeFieldsLocked

(* A save takes back no login (profileFromForm).                            *)
THEOREM LoginsStay == AllSpec => AuthenticatedStays
<1>1. Edited!Spec => Edited!AuthenticatedStays
  BY MachineAssumption, Edited!AuthenticationStays DEF MachineAssumption
<1>2. [Edited!StaysAuthenticated]_(Edited!vars) => [Edited!StaysAuthenticated]_window
  BY DEF window, Edited!vars
<1> QED
  BY <1>1, <1>2, WindowAlone, PTL DEF AuthenticatedStays, Edited!AuthenticatedStays

(* What the panel shows and offers (ServicePanel, serviceGen).              *)
THEOREM PanelsTrue == AllSpec => []PanelIsTrue
<1>1. Login!Spec =>
        [](Login!TypeOK /\ Login!ShownWasTrue /\ Login!OffersWhenIdle /\ Login!PanelIsServed
           /\ Login!OneAction)
  BY MachineAssumption, PanelTrue DEF MachineAssumption
<1>2. Login!ShownWasTrue /\ Login!OffersWhenIdle /\ Login!PanelIsServed => PanelIsTrue
  BY DEF PanelIsTrue
<1> QED
  BY <1>1, <1>2, LoginAlone, PTL

(* On systemd only the tray moves, on launchd only one call is made.        *)
OneFrontend ==
  /\ moving = "systemd" => ~panel.open /\ \A s \in Slots : calls[s].from # "tui"
  /\ moving = "launchd" => \A s \in Slots \ {1} : calls[s] = Login!NoCall

WholeInv ==
  /\ Login!StatusInv /\ OneFrontend
  /\ moving \in {"systemd", "launchd"} => Login!ChangesInv

LEMMA OneCallChanges ==
  ASSUME WholeInv, moving \in {"systemd", "launchd"} PROVE Login!OneChanges
<1> SUFFICES ASSUME NEW s \in Slots, NEW t \in Slots, Login!Changes(s), Login!Changes(t)
             PROVE  s = t
  BY DEF Login!OneChanges
<1>1. ~Login!Free(s) /\ ~Login!Free(t)
  BY DEF Login!Changes, Login!Mutates, Login!Free
<1>2. CASE moving = "systemd"
  <2>1. calls[s].from = "gui" /\ calls[t].from = "gui"
    BY <1>1, <1>2 DEF WholeInv, OneFrontend, Login!StatusInv, Login!CallInv
  <2> QED
    BY <2>1 DEF WholeInv, Login!StatusInv, Login!OneAction
<1>3. CASE moving = "launchd"
  <2>1. Login!NoCall.op = "none"
    BY DEF Login!NoCall
  <2> QED
    BY <1>1, <1>3, <2>1 DEF WholeInv, OneFrontend, Login!Free
<1> QED
  BY <1>2, <1>3

LEMMA TrayCallsOnly ==
  ASSUME Login!LoginServiceAssumption, Login!StatusInv, Login!Next, panel' = panel, ~panel.open,
         \A s \in Slots : calls[s].from # "tui"
  PROVE  \A s \in Slots : calls'[s].from # "tui"
<1> USE DEF Login!StatusInv
<1>1. CASE \/ Login!Start \/ Login!Crash \/ Login!OtherDaemon \/ Login!Upgrade \/ Login!ClosePanel
           \/ Login!DisableItem \/ Login!Decline
  BY <1>1 DEF Login!Start, Login!Crash, Login!OtherDaemon, Login!Upgrade, Login!ClosePanel,
     Login!DisableItem, Login!Decline
<1>2. CASE Login!LogIn
  <2>1. Login!NoCall.from = ""
    BY DEF Login!NoCall
  <2> QED
    BY <1>2, <2>1 DEF Login!LogIn
<1>3. ASSUME NEW s \in Slots, Login!Work(s) \/ Login!Fail(s) PROVE SameCall(s)
  BY <1>3, WorkMoves, ReturnMoves DEF Login!Fail, Login!Errors
<1>4. ASSUME NEW s \in Slots, Login!OpenPanel(s) \/ Login!ConfirmPanel(s) PROVE FALSE
  BY <1>4 DEF Login!OpenPanel, Login!ConfirmPanel, Login!TakesConfirm, Login!Closed
<1>5. ASSUME NEW s \in Slots,
             Login!Enable(s) \/ Login!ForceInstall(s) \/ Login!UninstallService(s)
      PROVE  \A t \in Slots : calls'[t].from # "tui"
  <2>1. PICK op, force : Login!Begin(s, op, "gui", 0, force)
    BY <1>5 DEF Login!Enable, Login!ForceInstall, Login!UninstallService, Login!InstallService
  <2> QED
    BY <2>1 DEF Login!Begin, Login!Called, Login!TypeOK
<1>6. ASSUME NEW s \in Slots,
             Login!StatusResult(s) \/ Login!ActionResult(s) \/ Login!GuiResult(s)
      PROVE  \A t \in Slots : calls'[t].from # "tui"
  <2>1. Login!Answered(s)
    BY <1>6 DEF Login!StatusResult, Login!ActionResult, Login!GuiResult
  <2> QED
    BY <2>1, AnswerMoves
<1>7. ASSUME NEW s \in Slots, SameCall(s)
      PROVE  \A t \in Slots : calls'[t].from # "tui"
  BY <1>7 DEF SameCall
<1> QED
  BY <1>1, <1>2, <1>3, <1>4, <1>5, <1>6, <1>7 DEF Login!Next, Login!Step

LEMMA WholeInvariance == AllSpec => []WholeInv
<1>1. ASSUME AllInit PROVE WholeInv
  <2>1. Login!Init
    BY <1>1 DEF AllInit
  <2>2. Login!StatusInv /\ Login!ChangesInv
    BY <2>1, InitStatus, InitChanges, MachineAssumption DEF MachineAssumption
  <2>3. panel = Login!Closed /\ calls = [s \in Slots |-> Login!NoCall]
    BY <2>1 DEF Login!Init
  <2>4. Login!NoCall.from = "" /\ Login!Closed.open = FALSE
    BY DEF Login!NoCall, Login!Closed
  <2> QED
    BY <2>2, <2>3, <2>4 DEF WholeInv, OneFrontend
<1>2. ASSUME WholeInv, [AllNext]_allVars PROVE WholeInv'
  <2>1. moving' = moving /\ [Login!Next]_(Login!vars)
    BY <1>2 DEF AllNext, allVars, Moves, installer, Login!vars
  <2>2. Login!StatusInv'
    BY <1>2, <2>1, NextStatus, MachineAssumption DEF WholeInv, MachineAssumption
  <2>3. moving \in {"systemd", "launchd"} => Login!ChangesInv'
    BY <1>2, <2>1, OneCallChanges, NextChanges, MachineAssumption DEF WholeInv, MachineAssumption
  <2>4. CASE moving = "systemd"
    <3>1. UNCHANGED installer \/ (Login!Next /\ panel' = panel)
      BY <1>2, <2>4 DEF AllNext, allVars, Moves, Systemd
    <3>2. ~panel.open /\ \A s \in Slots : calls[s].from # "tui"
      BY <1>2, <2>4 DEF WholeInv, OneFrontend
    <3>3. ASSUME UNCHANGED installer
          PROVE  panel' = panel /\ \A s \in Slots : calls'[s].from # "tui"
      BY <3>2, <3>3 DEF installer
    <3>4. ASSUME Login!Next, panel' = panel PROVE \A s \in Slots : calls'[s].from # "tui"
      BY <1>2, <3>2, <3>4, TrayCallsOnly, MachineAssumption DEF WholeInv, MachineAssumption
    <3>5. moving' = "systemd" /\ panel' = panel /\ \A s \in Slots : calls'[s].from # "tui"
      BY <2>1, <2>4, <3>1, <3>3, <3>4
    <3>6. OneFrontend'
      BY <3>2, <3>5 DEF OneFrontend
    <3> QED
      BY <2>1, <2>2, <2>3, <3>6 DEF WholeInv
  <2>5. CASE moving = "launchd"
    <3>1. \A s \in Slots \ {1} : calls'[s] = calls[s]
      BY <1>2, <2>5 DEF AllNext, allVars, Moves, Launchd, installer
    <3>2. OneFrontend'
      BY <1>2, <2>1, <2>5, <3>1 DEF WholeInv, OneFrontend, Login!NoCall, Login!NoStatus
    <3> QED
      BY <2>1, <2>2, <2>3, <3>2 DEF WholeInv
  <2>6. CASE moving \notin {"systemd", "launchd"}
    BY <2>1, <2>2, <2>6 DEF WholeInv, OneFrontend
  <2> QED
    BY <2>4, <2>5, <2>6
<1> QED
  BY <1>1, <1>2, PTL DEF AllSpec

(* Whichever command fails or is the last before a login or a crash, a      *)
(* service is whole, what its installer has reported holds, and launchd runs *)
(* what was installed, for any number of versions, faults and logins        *)
(* (Install, Uninstall, installService).                                    *)
THEOREM InstallersWhole == AllSpec => InstallerIsWhole
<1>1. WholeInv =>
        (moving \in {"systemd", "launchd"} =>
           Login!TypeOK /\ Login!NoOrphan /\ Login!ReportedHolds /\ Login!OneAction)
  BY DEF WholeInv, Login!StatusInv, Login!ChangesInv, Login!NoOrphan, Login!ReportedHolds
<1>2. WholeInv /\ [AllNext]_allVars =>
        [moving = "launchd" => Login!RunsWhatItWrote]_<<installer, moving>>
  <2> SUFFICES ASSUME WholeInv, [AllNext]_allVars, moving = "launchd",
                      ~UNCHANGED <<installer, moving>>
               PROVE  Login!RunsWhatItWrote
    OBVIOUS
  <2>1. Login!Next /\ ~Login!Linux
    BY DEF AllNext, allVars, Moves, Launchd
  <2> QED
    BY <2>1, LaunchdRuns, MachineAssumption DEF WholeInv, MachineAssumption
<1> QED
  BY <1>1, <1>2, WholeInvariance, PTL DEF AllSpec, InstallerIsWhole
=============================================================================
