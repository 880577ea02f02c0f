------------------------------ MODULE Terminal ------------------------------
(***************************************************************************)
(* The model of the terminal frontend: its list, log pane and modal        *)
(* surfaces, the keys that act on them, and the changes by which it        *)
(* follows the service.  Of the service it has the profiles, their status  *)
(* and how much they have logged.  LoginService has the service panel,     *)
(* Account the keys for Login and Logout.                                  *)
(***************************************************************************)
EXTENDS Integers, Sequences, SequencesExt

CONSTANTS
  Profiles,   \* IDs, in the store or yet to be added
  Tailscale,  \* those of Tailscale profiles
  Initial,    \* the profiles at the start, in their order
  None,
  Capacity,   \* of the changes channel
  Fields,     \* that the form of a profile leaves to fill in, none if it is complete
  MaxLogs, MaxLoads  \* bound the entries of a log and the exit-node lists under way

(* What an instance has to assume of the constants. *)
TerminalAssumption ==
  /\ None \notin Profiles /\ Tailscale \subseteq Profiles /\ Initial \in Seq(Profiles)
  /\ Capacity \in Nat \ {0} /\ Fields \in [Profiles -> Nat] /\ MaxLogs \in Nat /\ MaxLoads \in Nat

VARIABLES
  core,     \* Service.profiles, in their order
  status,   \* Service.statuses
  logs,     \* Service.logs, by their length
  due,      \* profiles the service is about to notify a change of
  queue,    \* Service.changes, with what is on its way from it to Update
  dropped,  \* a change did not fit into the channel
  list,     \* the rows and the selection
  log,      \* the profile and the length of what the log pane shows
  mode,     \* which surface has the keys
  target,   \* the profile that surface is about
  picker,   \* whose exit nodes are offered, None while they load
  loads,    \* profiles whose exit nodes are being listed
  form,     \* the field with the focus, and whether the form has to be told to move on
  asked     \* the profile that the last key was to disconnect

vars == <<core, status, logs, due, queue, dropped, list, log, mode, target, picker, loads, form, asked>>
changes == <<queue, dropped>>
service == <<core, status, logs, due, changes>>
view == <<list, log>>
surface == <<mode, target, picker, form>>

Statuses == {"stopped", "starting", "running", "stopping", "error"}
Row == [id : Profiles, status : Statuses]
Surfaces == {"list", "form", "confirm", "exitNode", "import", "other"}

TypeOK ==
  /\ core \in Seq(Profiles) /\ status \in [Profiles -> Statuses]
  /\ logs \in [Profiles -> 0..MaxLogs] /\ due \subseteq Profiles
  /\ queue \in Seq(Profiles) /\ Len(queue) <= Capacity /\ dropped \in BOOLEAN
  /\ list \in [items : Seq(Row), selected : Nat, selectedID : Profiles \cup {None}]
  /\ log \in [id : Profiles \cup {None}, length : 0..MaxLogs]
  /\ mode \in Surfaces /\ asked \in Profiles \cup {None}
  /\ {target, picker} \subseteq Profiles \cup {None} /\ loads \in Seq(Tailscale)
  /\ form \in [field : Nat \ {0}, waits : BOOLEAN]

-----------------------------------------------------------------------------

RowsOf(c, st) == [i \in DOMAIN c |-> [id |-> c[i], status |-> st[c[i]]]]
Rows == RowsOf(core, status)

Empty == [items |-> <<>>, selected |-> 0, selectedID |-> None]

(* Mutant: the cursor stays on its row, whichever profile is there. *)
RefreshedAtRow(l, rows) ==
  IF rows = <<>> THEN Empty
  ELSE IF l.selected \in DOMAIN rows THEN [l EXCEPT !.items = rows]
  ELSE [items |-> rows, selected |-> Len(rows), selectedID |-> rows[Len(rows)].id]

(* The selection follows its profile, or without it stays near its row. *)
Refreshed(l, rows) ==
  IF rows = <<>> THEN Empty
  ELSE LET at == {i \in DOMAIN rows : rows[i].id = l.selectedID}
           row == CHOOSE i \in DOMAIN rows :
                    IF at # {} THEN i \in at
                    ELSE i = (IF l.selected > Len(rows) THEN Len(rows)
                              ELSE IF l.selected < 1 THEN 1 ELSE l.selected)
       IN [items |-> rows, selected |-> row, selectedID |-> rows[row].id]

Selecting(l, id) == [l EXCEPT !.selectedID = id]

LogOf(id, lengths) == [id |-> id, length |-> IF id = None THEN 0 ELSE lengths[id]]

(* notify never waits: a channel that is full drops the change. *)
NotifiedQueue(ids) ==
  LET q == queue \o ids IN SubSeq(q, 1, IF Len(q) <= Capacity THEN Len(q) ELSE Capacity)

Notified(ids) ==
  /\ queue' = NotifiedQueue(ids)
  /\ dropped' = (dropped \/ Len(queue) + Len(ids) > Capacity)

RuntimeLocked(id) == status[id] \in {"starting", "running", "stopping"}
Has(id) == \E i \in DOMAIN core : core[i] = id

NewForm == [field |-> 1, waits |-> FALSE]
Closed == mode' = "list" /\ target' = None /\ picker' = None /\ form' = NewForm
Opened(surf, id) == mode' = surf /\ target' = id /\ picker' = None /\ form' = NewForm

Init ==
  /\ core = Initial /\ status = [p \in Profiles |-> "stopped"]
  /\ logs = [p \in Profiles |-> 0] /\ due = {} /\ queue = <<>> /\ dropped = FALSE
  /\ list = Refreshed(Empty, Rows) /\ log = LogOf(list.selectedID, logs)
  /\ mode = "list" /\ target = None /\ picker = None /\ loads = <<>>
  /\ form = NewForm /\ asked = None

-----------------------------------------------------------------------------
(* The service on its own: a connection comes or goes, and is notified     *)
(* when the mutex has been given back.                                     *)

Ends == [s \in Statuses |->
          CASE s = "starting" -> {"running", "error", "stopped"}
            [] s = "running" -> {"error", "stopped"}
            [] s = "stopping" -> {"stopped"}
            [] OTHER -> {}]

Logged(id) == logs[id] < MaxLogs /\ logs' = [logs EXCEPT ![id] = @ + 1]

RuntimeEvent(id) ==
  /\ Has(id) /\ Logged(id)
  /\ \E s \in Ends[status[id]] : status' = [status EXCEPT ![id] = s]
  /\ due' = due \cup {id} /\ asked' = None
  /\ UNCHANGED <<core, changes, view, surface, loads>>

Notify(id) ==
  /\ id \in due
  /\ due' = due \ {id} /\ Notified(<<id>>) /\ asked' = None
  /\ UNCHANGED <<core, status, logs, view, surface, loads>>

-----------------------------------------------------------------------------
(* Update: messages. *)

Changed(id) == Refreshed(list, Rows)

LogAfter(id, selectedID) == IF id = selectedID THEN LogOf(id, logs) ELSE log

ChangeMsg ==
  /\ queue # <<>>
  /\ queue' = Tail(queue)
  /\ list' = Changed(Head(queue)) /\ log' = LogAfter(Head(queue), list'.selectedID)
  /\ asked' = None
  /\ UNCHANGED <<core, status, logs, due, dropped, surface, loads>>

Offered(id) == mode = "exitNode" /\ id = target

ExitNodesLoaded(i) ==
  /\ i \in DOMAIN loads
  /\ loads' = RemoveAt(loads, i)
  /\ picker' = IF Offered(loads[i]) THEN loads[i] ELSE picker
  /\ asked' = None /\ UNCHANGED <<service, view, mode, target, form>>

ExitNodesErr(i) ==
  /\ i \in DOMAIN loads
  /\ loads' = RemoveAt(loads, i)
  /\ IF Offered(loads[i]) THEN Closed ELSE UNCHANGED surface
  /\ asked' = None /\ UNCHANGED <<service, view>>

(* By what a form sends itself it moves to its next field; that is no key, *)
(* Update has no case for it and does not pass it on.                      *)
FormMsg ==
  /\ form.waits
  /\ form' = [form EXCEPT !.waits = FALSE]
  /\ asked' = None /\ UNCHANGED <<service, view, mode, target, picker, loads>>

-----------------------------------------------------------------------------
(* Update: keys of the list.  A call that fails leaves a message only. *)

Key == mode = "list" /\ asked' = None
Selected == list.selectedID # None /\ Has(list.selectedID)
Nothing == UNCHANGED <<service, view, surface, loads>>

MoveSelection(delta) ==
  /\ Key
  /\ LET next == list.selected + delta
     IN /\ next \in DOMAIN list.items
        /\ list' = [list EXCEPT !.selected = next, !.selectedID = list.items[next].id]
        /\ log' = LogOf(list.items[next].id, logs)
  /\ UNCHANGED <<service, surface, loads>>

Connect ==
  /\ Key /\ Selected /\ ~RuntimeLocked(list.selectedID)
  /\ \/ Nothing
     \/ LET id == list.selectedID
        IN /\ status' = [status EXCEPT ![id] = "starting"] /\ Logged(id)
           /\ Notified(<<id>>)
           /\ list' = Refreshed(list, RowsOf(core, status'))
           /\ UNCHANGED <<core, due, log, surface, loads>>

(* The rows in their order. *)
Enumerates(at, rows) ==
  /\ \A i \in rows : \E k \in DOMAIN at : at[k] = i
  /\ \A j, k \in DOMAIN at : j < k => at[j] < at[k]

ConnectAll ==
  /\ Key
  /\ LET idle == {i \in DOMAIN core : ~RuntimeLocked(core[i])}
     IN \E n \in 0..Len(core) : \E at \in [1..n -> idle] :
          LET ids == [k \in 1..n |-> core[at[k]]]
          IN /\ Enumerates(at, idle)
             /\ \A k \in 1..n : logs[ids[k]] < MaxLogs
             /\ status' = [p \in Profiles |-> IF Contains(ids, p) THEN "starting" ELSE status[p]]
             /\ logs' = [p \in Profiles |-> IF Contains(ids, p) THEN logs[p] + 1 ELSE logs[p]]
             /\ Notified(ids)
  /\ list' = Refreshed(list, RowsOf(core, status'))
  /\ UNCHANGED <<core, due, log, surface, loads>>

(* doDisconnect asks what doConnect asks, so a profile it lets through is  *)
(* one that Service.Disconnect has nothing to stop of.                     *)
Disconnect ==
  /\ mode = "list" /\ Selected /\ asked' = list.selectedID
  /\ IF RuntimeLocked(list.selectedID) THEN Nothing
     ELSE /\ status' = [status EXCEPT ![list.selectedID] = "stopped"]
          /\ Notified(<<list.selectedID>>)
          /\ list' = Refreshed(list, RowsOf(core, status'))
          /\ UNCHANGED <<core, logs, due, log, surface, loads>>

(* The list waits for the changes. *)
DisconnectAll ==
  /\ Key
  /\ status' = [p \in Profiles |-> IF Has(p) /\ RuntimeLocked(p) THEN "stopping" ELSE status[p]]
  /\ Notified(core)
  /\ UNCHANGED <<core, logs, due, view, surface, loads>>

(* Add and Import: the first of the new profiles is selected, its log is   *)
(* shown when the change has come.                                         *)
Extended(ids) ==
  /\ core' = core \o ids
  /\ Notified(ids)
  /\ list' = Refreshed(Selecting(list, Head(ids)), RowsOf(core', status))
  /\ UNCHANGED <<status, logs, due, log, loads>>

OpenAddForm ==
  /\ Key
  /\ \/ Nothing
     \/ \E id \in Profiles : ~Has(id) /\ Extended(<<id>>) /\ Opened("form", id)

OpenSurface(surf) ==
  /\ Key /\ Selected /\ Opened(surf, list.selectedID)
  /\ UNCHANGED <<service, view>>

OpenEditForm == OpenSurface("form") /\ UNCHANGED loads
OpenDeleteConfirm == OpenSurface("confirm") /\ UNCHANGED loads

OpenExitNodePicker ==
  /\ list.selectedID \in Tailscale /\ OpenSurface("exitNode")
  /\ Len(loads) < MaxLoads /\ loads' = Append(loads, list.selectedID)

(* The import prompt; the export prompt and the help change nothing. *)
OpenOther ==
  /\ Key /\ \E surf \in {"import", "other"} : Opened(surf, None)
  /\ UNCHANGED <<service, view, loads>>

-----------------------------------------------------------------------------
(* Update: keys of the other surfaces. *)

In(surf) == mode = surf /\ asked' = None

Escape ==
  /\ mode # "list" /\ In(mode) /\ Closed
  /\ UNCHANGED <<service, view, loads>>

(* Delete stops the connection; the entry of a status goes with it. *)
ConfirmDelete ==
  /\ In("confirm") /\ Closed
  /\ \/ UNCHANGED <<service, view, loads>>
     \/ \E i \in DOMAIN core :
          /\ core[i] = list.selectedID /\ core' = RemoveAt(core, i)
          /\ status' = [status EXCEPT ![core[i]] = "stopped"]
          /\ logs' = [logs EXCEPT ![core[i]] = 0]
          /\ due' = due \ {core[i]} /\ Notified(<<core[i]>>)
          /\ list' = Refreshed(Selecting(list, None), RowsOf(core', status'))
          /\ log' = LogOf(list'.selectedID, logs')
          /\ UNCHANGED loads

(* Save writes and notifies, or has nothing to write, or fails. *)
Saves(id) ==
  /\ \/ Logged(id) /\ Notified(<<id>>)
     \/ UNCHANGED <<logs, changes>>
  /\ UNCHANGED <<core, status, due>>

PickExitNode ==
  /\ In("exitNode") /\ picker # None /\ Has(target)
  /\ Saves(target) /\ list' = Refreshed(list, Rows) /\ Closed
  /\ UNCHANGED <<log, loads>>

ImportFile ==
  /\ In("import") /\ Closed
  /\ \/ UNCHANGED <<service, view, loads>>
     \/ \E id \in Profiles : ~Has(id) /\ Extended(<<id>>)

(* Enter: the form wants to be told that the next field is due. *)
EnterField ==
  /\ In("form") /\ form.field <= Fields[target]
  /\ form' = [form EXCEPT !.waits = TRUE]
  /\ UNCHANGED <<service, view, mode, target, picker, loads>>

SubmitForm ==
  /\ In("form") /\ form.field > Fields[target]
  /\ Saves(target) /\ list' = Refreshed(Selecting(list, target), Rows) /\ Closed
  /\ UNCHANGED <<log, loads>>

-----------------------------------------------------------------------------

Next ==
  \/ \E id \in Profiles : RuntimeEvent(id) \/ Notify(id)
  \/ ChangeMsg \/ FormMsg
  \/ \E i \in 1..MaxLoads : ExitNodesLoaded(i) \/ ExitNodesErr(i)
  \/ \E delta \in {-1, 1} : MoveSelection(delta)
  \/ Connect \/ ConnectAll \/ Disconnect \/ DisconnectAll
  \/ OpenAddForm \/ OpenEditForm \/ OpenDeleteConfirm \/ OpenExitNodePicker \/ OpenOther
  \/ Escape \/ ConfirmDelete \/ PickExitNode \/ ImportFile \/ EnterField \/ SubmitForm

Spec == Init /\ [][Next]_vars

(* Somebody who fills in a form goes on with enter, and Update handles     *)
(* what it is sent.                                                        *)
FillsIn == WF_vars(EnterField) /\ WF_vars(SubmitForm) /\ WF_vars(FormMsg)
FairSpec == Spec /\ FillsIn

-----------------------------------------------------------------------------

(* Through additions, deletions and refreshes the cursor is on the row of  *)
(* the profile the next key acts on.                                       *)
SelectionAgrees ==
  IF list.items = <<>> THEN list.selectedID = None
  ELSE list.selected \in DOMAIN list.items /\ list.items[list.selected].id = list.selectedID

Quiet == due = {} /\ queue = <<>>

(* Once no change is under way the list shows the service's profiles and   *)
(* statuses, changes that the full channel has dropped included.           *)
QuietIsCurrent == Quiet => list.items = Rows

(* And the log pane shows the log of the selected profile, as long as no   *)
(* change has been dropped.                                                *)
QuietLogIsShown == Quiet /\ ~dropped => log = LogOf(list.selectedID, logs)

(* The picker offers the nodes of the tailnet of the profile they are      *)
(* saved in, however late an earlier list comes in.                        *)
OfferedForTarget == picker # None => mode = "exitNode" /\ picker = target

(* The disconnect key disconnects the selected profile. *)
DisconnectWorks == asked # None => status[asked] \notin {"starting", "running"}

(* A form is left in the end when it is filled in. *)
FormIsLeft == mode = "form" ~> mode # "form"
=============================================================================
