------------------------------ MODULE Backend ------------------------------
(***************************************************************************)
(* What the dispatcher and the application service may rely on when they   *)
(* drive one runtime adapter (internal/runner.Backend).  The adapter keeps *)
(* a table with at most one start per profile; a start that is in the      *)
(* table is either still connecting (reserved), past its commit point      *)
(* (committed, then serving), and leaves the table exactly once.  Only a   *)
(* start that committed is ever reported on the event channel, and it is   *)
(* reported as started before, and as stopped or failed after, it left.    *)
(* WireproxyRunner implements this specification, and ServiceLifecycle     *)
(* drives two adapters that obey it.                                       *)
(***************************************************************************)
EXTENDS Naturals, Sequences

CONSTANTS
  Profiles,   \* profile ids
  Starts,     \* calls of Start: each is one *process of the code
  NoStart,    \* "no entry in procs"
  Capacity,   \* of the adapter's event channel (512 in the code)
  MayFault    \* may the adapter report an error while it keeps serving?

(* What an instance has to assume of the constants. *)
BackendAssumption ==
  /\ NoStart \notin Starts
  /\ Capacity \in Nat \ {0}
  /\ MayFault \in BOOLEAN

VARIABLES
  phase,      \* how far each call of Start has got
  stopped,    \* the starts whose process was closed (Stop, StopAll or itself)
  table,      \* the adapter's procs map
  events      \* the adapter's event channel

vars == <<phase, stopped, table, events>>

Phases == {"new", "reserved", "committed", "serving", "leaving", "gone"}

(* A send on the event channel never blocks: a full channel drops it. *)
Offer(ch, e) == IF Len(ch) < Capacity THEN Append(ch, e) ELSE ch

(* removeProcess: only the entry of the start itself is deleted. *)
Without(t, s) == [p \in Profiles |-> IF t[p] = s THEN NoStart ELSE t[p]]

Event == [start : Starts, type : {"started", "stopped", "error"}]

TypeOK ==
  /\ phase \in [Starts -> Phases]
  /\ stopped \in SUBSET Starts
  /\ table \in [Profiles -> Starts \cup {NoStart}]
  /\ events \in Seq(Event)

Init ==
  /\ phase = [s \in Starts |-> "new"]
  /\ stopped = {}
  /\ table = [p \in Profiles |-> NoStart]
  /\ events = <<>>

(* A refused Start (invalid profile, or the profile has an entry) leaves no trace. *)
Refuse(s) ==
  /\ phase[s] = "new"
  /\ phase' = [phase EXCEPT ![s] = "gone"]
  /\ UNCHANGED <<stopped, table, events>>

Reserve(s, p) ==
  /\ phase[s] = "new"
  /\ table[p] = NoStart
  /\ phase' = [phase EXCEPT ![s] = "reserved"]
  /\ table' = [table EXCEPT ![p] = s]
  /\ UNCHANGED <<stopped, events>>

(* Stop, StopAll: somebody closes processes it found in the table. *)
Stop(found) ==
  /\ \A s \in found : phase[s] \in {"reserved", "committed", "serving"}
  /\ stopped' = stopped \cup found
  /\ UNCHANGED <<phase, table, events>>

(* The commit point: a start that was stopped before it can only be abandoned. *)
Commit(s) ==
  /\ phase[s] = "reserved"
  /\ s \notin stopped
  /\ phase' = [phase EXCEPT ![s] = "committed"]
  /\ UNCHANGED <<stopped, table, events>>

Announce(s) ==
  /\ phase[s] = "committed"
  /\ phase' = [phase EXCEPT ![s] = "serving"]
  /\ events' = Offer(events, [start |-> s, type |-> "started"])
  /\ UNCHANGED <<stopped, table>>

(* A failed start closes its own process, deletes its entry and reports no event. *)
Abandon(s) ==
  /\ phase[s] \in {"reserved", "committed"}
  /\ phase' = [phase EXCEPT ![s] = "gone"]
  /\ stopped' = stopped \cup {s}
  /\ table' = Without(table, s)
  /\ UNCHANGED events

(* Serving ended, stopped or not: the entry goes, the event that says so follows. *)
Leave(s) ==
  /\ phase[s] = "serving"
  /\ phase' = [phase EXCEPT ![s] = "leaving"]
  /\ stopped' = stopped \cup {s}
  /\ table' = Without(table, s)
  /\ UNCHANGED events

Report(s) ==
  /\ phase[s] = "leaving"
  /\ phase' = [phase EXCEPT ![s] = "gone"]
  /\ \E type \in {"stopped", "error"} :
       events' = Offer(events, [start |-> s, type |-> type])
  /\ UNCHANGED <<stopped, table>>

(* A port forward fails: an error, but the process stays.  The error may    *)
(* also be sent late, when the process was closed and left already.         *)
Fault(s) ==
  /\ MayFault
  /\ \/ phase[s] \in {"committed", "serving"}
     \/ phase[s] \in {"leaving", "gone"} /\ s \in stopped
  /\ events' = Offer(events, [start |-> s, type |-> "error"])
  /\ UNCHANGED <<phase, stopped, table>>

Receive ==
  /\ events # <<>>
  /\ events' = Tail(events)
  /\ UNCHANGED <<phase, stopped, table>>

Next ==
  \/ \E s \in Starts :
       \/ Refuse(s) \/ Commit(s) \/ Announce(s)
       \/ Abandon(s) \/ Leave(s) \/ Report(s) \/ Fault(s)
       \/ \E p \in Profiles : Reserve(s, p)
  \/ \E found \in SUBSET Starts : Stop(found)
  \/ Receive

Spec == Init /\ [][Next]_vars

-----------------------------------------------------------------------------

(* The starts that hold an entry are exactly those in the live phases, and *)
(* each holds one: Running(p), which reads the map, tells whether a start  *)
(* of p has reserved and not yet left.                                     *)
TableIsLive ==
  /\ \A p \in Profiles : table[p] # NoStart =>
       phase[table[p]] \in {"reserved", "committed", "serving"}
  /\ \A s \in Starts : phase[s] \in {"reserved", "committed", "serving"} =>
       \E p \in Profiles : table[p] = s
  /\ \A p, q \in Profiles : table[p] # NoStart /\ table[p] = table[q] => p = q

=============================================================================
