-------------------------- MODULE ServiceDataProofs --------------------------
(***************************************************************************)
(* DaemonReload, by the inductive invariant ReloadInv, and what holds of   *)
(* every machine that MCServiceData puts beside it: a step of the sum is a *)
(* step of one of them, so each behaves as it does alone.                  *)
(***************************************************************************)
EXTENDS MCServiceData, TLAPS

USE DEF Reload!CallState, Reload!Underway, Reload!Kind

(* The invariant holds of a daemon that has not read its store yet. *)
LEMMA InitReload == Reload!DaemonAssumption /\ Reload!Init => Reload!ReloadInv
<1> SUFFICES ASSUME Reload!DaemonAssumption, Reload!Init PROVE Reload!ReloadInv
  OBVIOUS
<1> USE DEF Reload!Init
<1>1. Reload!TypeOK
  <2>1. /\ loaded \in [Pair -> Reload!Config \cup {Absent}]
        /\ status \in [Pair -> {"", "stopped", "starting", "running", "error"}]
    OBVIOUS
  <2>2. /\ call \in [Pair \X Slots -> Reload!CallState]
        /\ conf \in [Pair \X Slots -> Reload!Config \cup {Absent}]
    OBVIOUS
  <2>3. events \in Seq(Pair \X Reload!Kind)
    <3>1. events = <<>>
      OBVIOUS
    <3> QED
      BY ONLY <3>1
  <2> QED
    BY <2>1, <2>2, <2>3 DEF Reload!TypeOK
<1>2. Reload!HangupIsKept /\ Reload!StartedInv
  <2>1. DOMAIN events = {}
    <3>1. events = <<>>
      OBVIOUS
    <3> QED
      BY ONLY <3>1
  <2> QED
    BY <2>1 DEF Reload!HangupIsKept, Reload!StartedInv
<1>4. Reload!StatusInv
  BY DEF Reload!StatusInv
<1>3. Reload!OneConnection
  BY DEF Reload!OneConnection, Reload!Entered
<1> QED
  BY <1>1, <1>2, <1>3, <1>4 DEF Reload!ReloadInv

(* An event is of a profile. *)
LEMMA EventTyped ==
  ASSUME NEW q \in Seq(Pair \X Reload!Kind), NEW n \in DOMAIN q
  PROVE  q[n][1] \in Pair
<1>1. q[n] \in Pair \X Reload!Kind
  OBVIOUS
<1> QED
  BY <1>1

LEMMA EventsTyped ==
  ASSUME Reload!ReloadInv
  PROVE  \A n \in DOMAIN events : events[n][1] \in Pair
<1>1. events \in Seq(Pair \X Reload!Kind)
  BY DEF Reload!ReloadInv, Reload!TypeOK
<1> QED
  BY <1>1, EventTyped

-----------------------------------------------------------------------------
(* What leaves connections and statuses alone.                              *)
LEMMA StillConnected ==
  ASSUME Reload!OneConnection, Reload!StatusInv, Reload!StartedInv, UNCHANGED <<loaded,
         Reload!connections>>
  PROVE  Reload!OneConnection' /\ Reload!StatusInv' /\ Reload!StartedInv'
<1> USE DEF Reload!connections
<1>1. Reload!OneConnection'
  BY DEF Reload!OneConnection, Reload!Entered
<1>2. Reload!StatusInv'
  BY DEF Reload!StatusInv, Reload!Connected, Reload!EndIsDue, Reload!IsEnd, Reload!Present
<1>3. Reload!StartedInv'
  BY DEF Reload!StartedInv, Reload!Connected, Reload!EndIsDue, Reload!IsEnd
<1> QED
  BY <1>1, <1>2, <1>3

LEMMA LoadKeepsReload ==
  ASSUME Reload!DaemonAssumption, Reload!ReloadInv, NEW target \in {"auto", "reconnect"},
         Reload!Load(target)
  PROVE  Reload!ReloadInv'
<1> USE DEF Reload!Load, Reload!outside
<1>1. Reload!TypeOK'
  <2>1. file # Malformed => Reload!Loaded(file) \in [Pair -> Reload!Config \cup {Absent}]
    <3> SUFFICES ASSUME file # Malformed, NEW p \in Pair PROVE file[p] \in Reload!Config
      BY DEF Reload!Loaded
    <3>1. file \in Contents \ {Malformed}
      BY DEF Reload!ReloadInv, Reload!TypeOK
    <3>2. file[p] \in Reload!Entries(file)
      BY DEF Reload!Entries
    <3> QED
      BY <3>1, <3>2 DEF Reload!Config
  <2>2. loaded' \in [Pair -> Reload!Config \cup {Absent}]
    BY <2>1 DEF Reload!ReloadInv, Reload!TypeOK
  <2>3. status' \in [Pair -> {"", "stopped", "starting", "running", "error"}]
    BY DEF Reload!ReloadInv, Reload!TypeOK
  <2> QED
    BY <2>2, <2>3 DEF Reload!ReloadInv, Reload!TypeOK
<1>2. Reload!HangupIsKept'
  BY DEF Reload!HangupIsKept
<1>3. Reload!OneConnection' /\ Reload!StartedInv'
  <2>1. Reload!OneConnection'
    <3>1. \A p \in Pair : Reload!Entered(p)' = Reload!Entered(p)
      BY DEF Reload!Entered
    <3> QED
      BY <3>1 DEF Reload!ReloadInv, Reload!OneConnection
  <2>2. Reload!StartedInv'
    BY DEF Reload!ReloadInv, Reload!StartedInv, Reload!Connected, Reload!EndIsDue,
          Reload!IsEnd
  <2> QED
    BY <2>1, <2>2
<1>4. Reload!StatusInv'
  <2>1. CASE file = Malformed
    BY <2>1 DEF Reload!ReloadInv, Reload!StatusInv, Reload!Connected, Reload!EndIsDue,
          Reload!IsEnd, Reload!Present
  <2>2. CASE file # Malformed
    BY <2>2 DEF Reload!StatusInv, Reload!Present, Reload!Loaded
  <2> QED
    BY <2>1, <2>2
<1> QED
  BY <1>1, <1>2, <1>3, <1>4 DEF Reload!ReloadInv

(* AutoConnect, which begins a start of every idle profile. *)
BegunStarts == IF Reload!DuplicateBind THEN {} ELSE {p \in Reload!Auto : Reload!Idle(p)}

LEMMA FreeSlotFound ==
  ASSUME NEW p \in Pair, \E g \in Slots : Reload!IsFree(p, g)
  PROVE  Reload!FreeSlot(p) \in Slots /\ Reload!IsFree(p, Reload!FreeSlot(p))
BY DEF Reload!FreeSlot

LEMMA StartsBegin ==
  ASSUME Reload!ReloadInv, NEW target, Reload!AutoConnect(target)
  PROVE  /\ \A p \in BegunStarts :
              /\ Reload!FreeSlot(p) \in Slots /\ call[<<p, Reload!FreeSlot(p)>>] = "none"
              /\ call'[<<p, Reload!FreeSlot(p)>>] = "begun" /\ status'[p] = "starting"
         /\ \A p \in Pair, g \in Slots :
              call[<<p, g>>] # "none" => call'[<<p, g>>] = call[<<p, g>>]
         /\ \A p \in Pair, g \in Slots :
              call'[<<p, g>>] # call[<<p, g>>] => call'[<<p, g>>] = "begun"
         /\ \A p \in Pair \ BegunStarts :
              status'[p] = status[p] \/ (status'[p] = "error" /\ p \in Reload!Auto)
<1>1. \A p \in BegunStarts :
        Reload!FreeSlot(p) \in Slots /\ call[<<p, Reload!FreeSlot(p)>>] = "none"
  BY FreeSlotFound DEF Reload!AutoConnect, BegunStarts, Reload!Auto, Reload!IsFree
<1>2. /\ call' = [c \in Pair \X Slots |->
                   IF c[1] \in BegunStarts /\ c[2] = Reload!FreeSlot(c[1])
                   THEN "begun" ELSE call[c]]
      /\ status' = [p \in Pair |->
           IF Reload!DuplicateBind /\ p \in Reload!Auto THEN "error"
           ELSE IF p \in BegunStarts THEN "starting" ELSE status[p]]
  BY DEF Reload!AutoConnect, BegunStarts
<1>3. \A p \in BegunStarts : p \in Pair /\ ~Reload!DuplicateBind
  BY DEF BegunStarts, Reload!Auto
<1>4. \A p \in Pair, g \in Slots :
        call'[<<p, g>>] = IF p \in BegunStarts /\ g = Reload!FreeSlot(p)
          THEN "begun" ELSE call[<<p, g>>]
  BY <1>2
<1> QED
  BY <1>1, <1>2, <1>3, <1>4

LEMMA AutoConnectKeeps ==
  ASSUME Reload!ReloadInv, NEW target \in {"notify", "idle"}, Reload!AutoConnect(target),
         hangup \/ ~owed
  PROVE  Reload!ReloadInv'
<1>0. UNCHANGED <<loaded, bound, events, hangup, owed, Reload!outside>> /\ daemon' = target
  BY DEF Reload!AutoConnect
<1>1. Reload!TypeOK'
  <2>1. call' \in [Pair \X Slots -> Reload!CallState]
    BY DEF Reload!ReloadInv, Reload!TypeOK, Reload!AutoConnect
  <2>2. conf' \in [Pair \X Slots -> Reload!Config \cup {Absent}]
    BY DEF Reload!ReloadInv, Reload!TypeOK, Reload!AutoConnect
  <2>3. status' \in [Pair -> {"", "stopped", "starting", "running", "error"}]
    BY DEF Reload!ReloadInv, Reload!TypeOK, Reload!AutoConnect
  <2> QED
    BY <1>0, <2>1, <2>2, <2>3 DEF Reload!ReloadInv, Reload!TypeOK, Reload!outside
<1>2. Reload!HangupIsKept'
  BY <1>0 DEF Reload!HangupIsKept
<1>3. \A p \in Pair : Reload!Entered(p)' = Reload!Entered(p)
  BY StartsBegin DEF Reload!Entered
<1>4. \A p \in Pair : Reload!Connected(p) => Reload!Connected(p)'
  BY StartsBegin DEF Reload!Connected
<1>5. Reload!OneConnection'
  BY <1>3 DEF Reload!ReloadInv, Reload!OneConnection
<1>6. Reload!StartedInv'
  <2>1. \A n \in DOMAIN events : events[n][1] \in Pair
    BY EventsTyped
  <2> QED
    BY <1>0, <1>4, <2>1 DEF Reload!ReloadInv, Reload!StartedInv, Reload!EndIsDue,
          Reload!IsEnd
<1>7. Reload!StatusInv'
  <2> SUFFICES ASSUME NEW p \in Pair
               PROVE  /\ status'[p] # "" => Reload!Present(p)
                      /\ status'[p] = "running" => Reload!Connected(p)' \/ Reload!EndIsDue(p, 0)
                      /\ status'[p] = "starting" =>
                           \E g \in Slots : call'[<<p, g>>] \in Reload!Underway
    BY <1>0 DEF Reload!StatusInv, Reload!Present, Reload!EndIsDue, Reload!IsEnd
  <2>1. CASE p \in BegunStarts
    BY <2>1, StartsBegin DEF BegunStarts, Reload!Auto
  <2>2. CASE p \notin BegunStarts
    <3>1. CASE status'[p] = status[p]
      BY <1>4, <3>1, StartsBegin DEF Reload!ReloadInv, Reload!StatusInv
    <3>2. CASE status'[p] = "error" /\ p \in Reload!Auto
      BY <3>2 DEF Reload!Auto
    <3> QED
      BY <2>2, <3>1, <3>2, StartsBegin
  <2> QED
    BY <2>1, <2>2
<1> QED
  BY <1>1, <1>2, <1>5, <1>6, <1>7 DEF Reload!ReloadInv

(* Steps of Run that only move on, and what comes from outside.             *)
LEMMA RunMovesOn ==
  ASSUME Reload!DaemonAssumption, Reload!ReloadInv,
         \/ /\ daemon = "notify" /\ daemon' = "idle"
            /\ UNCHANGED <<loaded, Reload!connections, hangup, owed, Reload!outside>>
         \/ Reload!TakeHangup \/ Reload!Terminate \/ Reload!Exit \/ Reload!EditFile \/ Reload!Hangup
         \/ UNCHANGED Reload!vars
  PROVE  Reload!ReloadInv'
<1> USE DEF Reload!TakeHangup, Reload!Terminate, Reload!Exit, Reload!EditFile,
        Reload!Hangup, Reload!connections, Reload!outside, Reload!vars
<1>1. Reload!TypeOK'
  BY DEF Reload!ReloadInv, Reload!TypeOK
<1>2. Reload!HangupIsKept'
  BY DEF Reload!ReloadInv, Reload!HangupIsKept, Reload!Alive
<1>3. UNCHANGED <<loaded, Reload!connections>>
  OBVIOUS
<1> QED
  BY <1>1, <1>2, <1>3, StillConnected DEF Reload!ReloadInv

-----------------------------------------------------------------------------
(* The goroutines. *)

LEMMA CallStepped ==
  ASSUME Reload!ReloadInv, NEW p \in Pair, NEW g \in Slots,
         NEW to \in Reload!CallState,
         Reload!Step(p, g, to)
  PROVE  /\ call' \in [Pair \X Slots -> Reload!CallState]
         /\ call'[<<p, g>>] = to
         /\ \A q \in Pair, j \in Slots : q # p \/ j # g => call'[<<q, j>>] = call[<<q, j>>]
BY DEF Reload!ReloadInv, Reload!TypeOK, Reload!Step

LEMMA EnterKeeps ==
  ASSUME Reload!ReloadInv, NEW p \in Pair, NEW g \in Slots, Reload!Enter(p, g)
  PROVE  Reload!ReloadInv'
<1> USE DEF Reload!Others, Reload!outside
<1>0. UNCHANGED <<status, events, Reload!Others>> /\ call[<<p, g>>] = "begun"
  BY DEF Reload!Enter
<1>1. PICK to \in {"entered", "refused"} :
        Reload!Step(p, g, to) /\ (to = "entered" => ~Reload!Running(p))
  BY DEF Reload!Enter
<1>c. /\ call' \in [Pair \X Slots -> Reload!CallState]
      /\ call'[<<p, g>>] = to
      /\ \A q \in Pair, j \in Slots : q # p \/ j # g => call'[<<q, j>>] = call[<<q, j>>]
  BY <1>1, CallStepped
<1>2. Reload!TypeOK'
  <2>1. bound' \in SUBSET Pair
    BY DEF Reload!Enter, Reload!ReloadInv, Reload!TypeOK
  <2> QED
    BY <1>0, <1>1, <2>1, <1>c DEF Reload!ReloadInv, Reload!TypeOK
<1>3. Reload!OneConnection'
  <2>1. \A q \in Pair : q # p => Reload!Entered(q)' = Reload!Entered(q)
    BY <1>1, <1>c DEF Reload!Entered
  <2>2. Reload!Entered(p)' = IF to = "entered" THEN {g} ELSE Reload!Entered(p)
    BY <1>0, <1>1, <1>c DEF Reload!Entered, Reload!Running
  <2> QED
    BY <2>1, <2>2 DEF Reload!ReloadInv, Reload!OneConnection
<1>4. \A q \in Pair : Reload!Connected(q) => Reload!Connected(q)'
  BY <1>0, <1>1, <1>c DEF Reload!Connected
<1>5. Reload!StatusInv'
  <2> SUFFICES ASSUME NEW q \in Pair, status[q] = "starting"
               PROVE  \E j \in Slots :
                        call'[<<q, j>>] \in Reload!Underway
    BY <1>0, <1>4 DEF Reload!ReloadInv, Reload!StatusInv, Reload!Present, Reload!EndIsDue,
          Reload!IsEnd
  <2>1. PICK j \in Slots : call[<<q, j>>] \in Reload!Underway
    BY DEF Reload!ReloadInv, Reload!StatusInv
  <2> QED
    BY <1>1, <2>1, <1>c
<1>6. Reload!StartedInv'
  <2>1. \A n \in DOMAIN events : events[n][1] \in Pair
    BY EventsTyped
  <2> QED
    BY <1>0, <1>4, <2>1 DEF Reload!ReloadInv, Reload!StartedInv, Reload!EndIsDue,
          Reload!IsEnd
<1>7. Reload!HangupIsKept'
  BY <1>0 DEF Reload!ReloadInv, Reload!HangupIsKept
<1> QED
  BY <1>2, <1>3, <1>5, <1>6, <1>7 DEF Reload!ReloadInv

(* An event that is sent comes last. *)
LEMMA EventSent ==
  ASSUME Reload!ReloadInv, NEW e \in Pair \X Reload!Kind,
         events' = Append(events, e)
  PROVE  /\ events' \in Seq(Pair \X Reload!Kind)
         /\ DOMAIN events' = 1..(Len(events) + 1) /\ Len(events) \in Nat
         /\ DOMAIN events = 1..Len(events)
         /\ \A n \in DOMAIN events : events'[n] = events[n]
         /\ events'[Len(events) + 1] = e
         /\ \A q \in Pair, n \in DOMAIN events \cup {0} :
              Reload!EndIsDue(q, n) => Reload!EndIsDue(q, n)'
<1>1. events \in Seq(Pair \X Reload!Kind)
  BY DEF Reload!ReloadInv, Reload!TypeOK
<1>2. /\ events' \in Seq(Pair \X Reload!Kind)
      /\ DOMAIN events' = 1..(Len(events) + 1) /\ Len(events) \in Nat
      /\ DOMAIN events = 1..Len(events)
      /\ \A n \in DOMAIN events : events'[n] = events[n]
      /\ events'[Len(events) + 1] = e
  BY <1>1
<1> QED
  BY <1>2 DEF Reload!EndIsDue, Reload!IsEnd

LEMMA UpKeeps ==
  ASSUME Reload!ReloadInv, NEW p \in Pair, NEW g \in Slots, Reload!Up(p, g)
  PROVE  Reload!ReloadInv'
<1> USE DEF Reload!Others, Reload!outside
<1>0. UNCHANGED <<status, Reload!Others>> /\ call[<<p, g>>] = "entered"
  BY DEF Reload!Up
<1>1. PICK to \in {"up", "failed"} :
        /\ Reload!Step(p, g, to)
        /\ to = "up" => events' = Append(events, <<p, "started">>) /\ UNCHANGED bound
        /\ to = "failed" => UNCHANGED events /\ bound' = bound \ {p}
  BY DEF Reload!Up
<1>c. /\ call' \in [Pair \X Slots -> Reload!CallState]
      /\ call'[<<p, g>>] = to
      /\ \A q \in Pair, j \in Slots : q # p \/ j # g => call'[<<q, j>>] = call[<<q, j>>]
  BY <1>1, CallStepped
<1>3. Reload!OneConnection'
  <2>1. \A q \in Pair : Reload!Entered(q)' \subseteq Reload!Entered(q)
    BY <1>0, <1>1, <1>c DEF Reload!Entered
  <2> QED
    BY <2>1 DEF Reload!ReloadInv, Reload!OneConnection
<1>4. \A q \in Pair : Reload!Connected(q) => Reload!Connected(q)'
  BY <1>0, <1>1, <1>c DEF Reload!Connected
<1>5. ASSUME NEW q \in Pair, status[q] = "starting"
      PROVE  \E j \in Slots : call'[<<q, j>>] \in Reload!Underway
  <2>1. PICK j \in Slots : call[<<q, j>>] \in Reload!Underway
    BY <1>5 DEF Reload!ReloadInv, Reload!StatusInv
  <2> QED
    BY <1>1, <2>1, <1>c
<1>6. Reload!HangupIsKept'
  BY <1>0 DEF Reload!ReloadInv, Reload!HangupIsKept
<1>7. \A n \in DOMAIN events : events[n][1] \in Pair
  BY EventsTyped
<1>8. CASE to = "failed"
  <2>1. Reload!TypeOK'
    BY <1>0, <1>1, <1>8, <1>c DEF Reload!ReloadInv, Reload!TypeOK
  <2>2. Reload!StatusInv'
    <3>1. \A q \in Pair : Reload!EndIsDue(q, 0)' = Reload!EndIsDue(q, 0)
      BY <1>1, <1>8 DEF Reload!EndIsDue, Reload!IsEnd
    <3> QED
      BY <1>0, <1>4, <1>5, <3>1 DEF Reload!ReloadInv, Reload!StatusInv, Reload!Present
  <2>3. Reload!StartedInv'
    BY <1>1, <1>4, <1>7, <1>8 DEF Reload!ReloadInv, Reload!StartedInv, Reload!EndIsDue,
          Reload!IsEnd
  <2> QED
    BY <1>3, <1>6, <2>1, <2>2, <2>3 DEF Reload!ReloadInv
<1>9. CASE to = "up"
  <2> DEFINE e == <<p, "started">>
  <2>0. e \in Pair \X Reload!Kind /\ events' = Append(events, e)
    BY <1>1, <1>9
  <2>1. Reload!TypeOK'
    BY <1>0, <1>1, <1>9, <2>0, EventSent, <1>c DEF Reload!ReloadInv, Reload!TypeOK
  <2>2. Reload!StatusInv'
    BY <1>0, <1>4, <1>5, <2>0, EventSent DEF Reload!ReloadInv, Reload!StatusInv,
          Reload!Present
  <2>3. Reload!Connected(p)'
    BY <1>1, <1>9, <1>c DEF Reload!Connected
  <2>4. Reload!StartedInv'
    <3> SUFFICES ASSUME NEW n \in DOMAIN events', NEW q \in Pair, events'[n][1] = q,
                        events'[n][2] = "started"
                 PROVE  Reload!Connected(q)' \/ Reload!EndIsDue(q, n)'
      BY <2>0, EventSent, EventTyped DEF Reload!StartedInv
    <3>1. CASE n \in DOMAIN events
      BY <1>4, <1>7, <2>0, <3>1, EventSent DEF Reload!ReloadInv, Reload!StartedInv
    <3>2. CASE n = Len(events) + 1
      BY <2>0, <2>3, <3>2, EventSent
    <3> QED
      BY <2>0, <3>1, <3>2, EventSent
  <2> QED
    BY <1>3, <1>6, <2>1, <2>2, <2>4 DEF Reload!ReloadInv
<1> QED
  BY <1>8, <1>9

LEMMA ReturnedKeeps ==
  ASSUME Reload!ReloadInv, NEW p \in Pair, NEW g \in Slots, Reload!Returned(p, g)
  PROVE  Reload!ReloadInv'
<1> USE DEF Reload!Others, Reload!outside
<1>0. /\ UNCHANGED <<bound, events, Reload!Others>> /\ call[<<p, g>>] \in {"up", "failed", "refused"}
      /\ Reload!Step(p, g, IF call[<<p, g>>] = "up" THEN "serving" ELSE "none")
  BY DEF Reload!Returned
<1>1. PICK to \in {"serving", "none"} :
        Reload!Step(p, g, to) /\ (call[<<p, g>>] = "up" <=> to = "serving")
  BY <1>0
<1>c. /\ call' \in [Pair \X Slots -> Reload!CallState]
      /\ call'[<<p, g>>] = to
      /\ \A q \in Pair, j \in Slots : q # p \/ j # g => call'[<<q, j>>] = call[<<q, j>>]
  BY <1>1, CallStepped
<1>2. Reload!TypeOK'
  <2>1. status' \in [Pair -> {"", "stopped", "starting", "running", "error"}]
    BY DEF Reload!Returned, Reload!ReloadInv, Reload!TypeOK
  <2> QED
    BY <1>0, <1>1, <2>1, <1>c DEF Reload!ReloadInv, Reload!TypeOK
<1>3. Reload!OneConnection'
  <2>1. \A q \in Pair : Reload!Entered(q)' \subseteq Reload!Entered(q)
    BY <1>0, <1>1, <1>c DEF Reload!Entered
  <2> QED
    BY <2>1 DEF Reload!ReloadInv, Reload!OneConnection
<1>4. \A q \in Pair : Reload!Connected(q) => Reload!Connected(q)'
  BY <1>0, <1>1, <1>c DEF Reload!Connected
<1>5. Reload!StatusInv'
  <2> SUFFICES ASSUME NEW q \in Pair
               PROVE  /\ status'[q] # "" => Reload!Present(q)
                      /\ status'[q] = "running" => Reload!Connected(q)' \/ Reload!EndIsDue(q, 0)
                      /\ status'[q] = "starting" =>
                           \E j \in Slots : call'[<<q, j>>] \in Reload!Underway
    BY <1>0 DEF Reload!StatusInv, Reload!Present, Reload!EndIsDue, Reload!IsEnd
  <2>1. CASE q # p
    <3>1. status'[q] = status[q]
      BY <2>1 DEF Reload!Returned, Reload!ReloadInv, Reload!TypeOK
    <3>2. \A j \in Slots : call'[<<q, j>>] = call[<<q, j>>]
      BY <1>1, <2>1, <1>c
    <3> QED
      BY <1>4, <3>1, <3>2 DEF Reload!ReloadInv, Reload!StatusInv
  <2>2. CASE q = p
    <3>1. CASE ~Reload!Present(p)
      <4>1. status'[p] = status[p] /\ status[p] = ""
        BY <3>1 DEF Reload!Returned, Reload!ReloadInv, Reload!TypeOK, Reload!StatusInv
      <4> QED
        BY <2>2, <4>1
    <3>2. CASE Reload!Present(p) /\ to = "none"
      <4>1. status'[p] \in {"stopped", "error"}
        BY <1>1, <3>2 DEF Reload!Returned, Reload!ReloadInv, Reload!TypeOK
      <4> QED
        BY <2>2, <3>2, <4>1
    <3>3. CASE Reload!Present(p) /\ to = "serving"
      <4>1. Reload!Connected(p)'
        BY <1>1, <3>3, <1>c DEF Reload!Connected
      <4>2. status'[p] # "starting"
        BY <1>1, <3>3 DEF Reload!Returned, Reload!ReloadInv, Reload!TypeOK
      <4> QED
        BY <2>2, <3>3, <4>1, <4>2
    <3> QED
      BY <3>1, <3>2, <3>3
  <2> QED
    BY <2>1, <2>2
<1>6. Reload!StartedInv'
  <2>1. \A n \in DOMAIN events : events[n][1] \in Pair
    BY EventsTyped
  <2> QED
    BY <1>0, <1>4, <2>1 DEF Reload!ReloadInv, Reload!StartedInv, Reload!EndIsDue,
          Reload!IsEnd
<1>7. Reload!HangupIsKept'
  BY <1>0 DEF Reload!ReloadInv, Reload!HangupIsKept
<1> QED
  BY <1>2, <1>3, <1>5, <1>6, <1>7 DEF Reload!ReloadInv

LEMMA LeaveKeeps ==
  ASSUME Reload!ReloadInv, NEW p \in Pair, NEW g \in Slots, Reload!Leave(p, g)
  PROVE  Reload!ReloadInv'
<1> USE DEF Reload!Others, Reload!outside
<1>0. /\ UNCHANGED <<status, bound, Reload!Others>> /\ call[<<p, g>>] = "serving"
      /\ Reload!Step(p, g, "none")
  BY DEF Reload!Leave
<1>c. /\ call' \in [Pair \X Slots -> Reload!CallState]
      /\ call'[<<p, g>>] = "none"
      /\ \A q \in Pair, j \in Slots : q # p \/ j # g => call'[<<q, j>>] = call[<<q, j>>]
  BY <1>0, CallStepped
<1>1. PICK end \in {"stopped", "error"} : events' = Append(events, <<p, end>>)
  BY DEF Reload!Leave
<1> DEFINE e == <<p, end>>
<1>2. e \in Pair \X Reload!Kind /\ events' = Append(events, e)
  BY <1>1
<1>3. Reload!TypeOK'
  BY <1>0, <1>2, EventSent, <1>c DEF Reload!ReloadInv, Reload!TypeOK
<1>4. Reload!OneConnection'
  <2>1. \A q \in Pair : Reload!Entered(q)' \subseteq Reload!Entered(q)
    BY <1>0, <1>c DEF Reload!Entered
  <2> QED
    BY <2>1 DEF Reload!ReloadInv, Reload!OneConnection
<1>5. \A q \in Pair \ {p} : Reload!Connected(q) => Reload!Connected(q)'
  BY <1>0, <1>c DEF Reload!Connected
<1>6. \A n \in DOMAIN events \cup {0} : Reload!EndIsDue(p, n)'
  BY <1>2, EventSent DEF Reload!EndIsDue, Reload!IsEnd
<1>7. Reload!StatusInv'
  <2> SUFFICES ASSUME NEW q \in Pair
               PROVE  /\ status[q] = "running" => Reload!Connected(q)' \/ Reload!EndIsDue(q, 0)'
                      /\ status[q] = "starting" =>
                           \E j \in Slots : call'[<<q, j>>] \in Reload!Underway
    BY <1>0 DEF Reload!ReloadInv, Reload!StatusInv, Reload!Present
  <2>1. status[q] = "running" => Reload!Connected(q)' \/ Reload!EndIsDue(q, 0)'
    BY <1>2, <1>5, <1>6, EventSent DEF Reload!ReloadInv, Reload!StatusInv
  <2>2. ASSUME status[q] = "starting"
        PROVE  \E j \in Slots : call'[<<q, j>>] \in Reload!Underway
    <3>1. PICK j \in Slots : call[<<q, j>>] \in Reload!Underway
      BY <2>2 DEF Reload!ReloadInv, Reload!StatusInv
    <3> QED
      BY <1>0, <3>1, <1>c
  <2> QED
    BY <2>1, <2>2
<1>8. Reload!StartedInv'
  <2> SUFFICES ASSUME NEW n \in DOMAIN events', NEW q \in Pair, events'[n][1] = q,
                      events'[n][2] = "started"
               PROVE  Reload!Connected(q)' \/ Reload!EndIsDue(q, n)'
    BY <1>2, EventSent, EventTyped DEF Reload!StartedInv
  <2>1. n \in DOMAIN events /\ events'[n] = events[n]
    BY <1>2, EventSent
  <2>2. events[n][1] \in Pair
    BY <2>1, EventsTyped
  <2> QED
    BY <1>2, <1>5, <1>6, <2>1, <2>2, EventSent DEF Reload!ReloadInv, Reload!StartedInv
<1>9. Reload!HangupIsKept'
  BY <1>0 DEF Reload!ReloadInv, Reload!HangupIsKept
<1> QED
  BY <1>3, <1>4, <1>7, <1>8, <1>9 DEF Reload!ReloadInv

LEMMA HandleKeeps ==
  ASSUME Reload!ReloadInv, Reload!HandleRuntimeEvent
  PROVE  Reload!ReloadInv'
<1> USE DEF Reload!Others, Reload!outside
<1>0. UNCHANGED <<call, Reload!Others>> /\ events' = Tail(events) /\ events # <<>>
  BY DEF Reload!HandleRuntimeEvent
<1>1. events \in Seq(Pair \X Reload!Kind)
  BY DEF Reload!ReloadInv, Reload!TypeOK
<1>2. /\ events' \in Seq(Pair \X Reload!Kind)
      /\ DOMAIN events' = 1..(Len(events) - 1) /\ Len(events) \in Nat \ {0}
      /\ DOMAIN events = 1..Len(events)
      /\ \A n \in DOMAIN events' : events'[n] = events[n + 1]
  BY <1>0, <1>1
<1>3. PICK p \in Pair, type \in Reload!Kind :
        events[1][1] = p /\ events[1][2] = type /\ Head(events) = events[1]
  BY <1>0, <1>1
<1>4. /\ status' = [status EXCEPT ![p] =
           IF ~Reload!Present(p) THEN @ ELSE IF type = "started" THEN "running" ELSE type]
      /\ bound' = IF type = "started" THEN bound ELSE bound \ {p}
  BY <1>3 DEF Reload!HandleRuntimeEvent
<1>5. status' \in [Pair -> {"", "stopped", "starting", "running", "error"}]
  BY <1>3, <1>4 DEF Reload!ReloadInv, Reload!TypeOK
<1>6. Reload!TypeOK'
  BY <1>0, <1>2, <1>4, <1>5 DEF Reload!ReloadInv, Reload!TypeOK
<1>7. Reload!OneConnection' /\ Reload!HangupIsKept'
  BY <1>0 DEF Reload!ReloadInv, Reload!OneConnection, Reload!Entered, Reload!HangupIsKept
<1>8. \A q \in Pair, n \in DOMAIN events :
        Reload!EndIsDue(q, n) => Reload!EndIsDue(q, n - 1)'
  <2> SUFFICES ASSUME NEW q \in Pair, NEW n \in DOMAIN events, NEW m \in DOMAIN events,
                      m > n, Reload!IsEnd(events[m], q)
               PROVE  \E k \in DOMAIN events' : k > n - 1 /\ Reload!IsEnd(events'[k], q)
    BY DEF Reload!EndIsDue, Reload!IsEnd
  <2>1. m - 1 \in DOMAIN events' /\ m - 1 > n - 1 /\ (m - 1) + 1 = m
    BY <1>2
  <2> QED
    BY <1>2, <2>1
<1>9. \A q \in Pair :
        Reload!EndIsDue(q, 0) => Reload!EndIsDue(q, 0)' \/ (q = p /\ type # "started")
  <2> SUFFICES ASSUME NEW q \in Pair, NEW m \in DOMAIN events, Reload!IsEnd(events[m], q), m # 1
               PROVE  Reload!EndIsDue(q, 0)'
    BY <1>3 DEF Reload!EndIsDue, Reload!IsEnd
  <2>1. 1 \in DOMAIN events /\ m > 1
    BY <1>2
  <2> QED
    BY <1>8, <2>1 DEF Reload!EndIsDue, Reload!IsEnd
<1>10. Reload!StartedInv'
  <2> SUFFICES ASSUME NEW n \in DOMAIN events', NEW q \in Pair, events'[n][1] = q,
                      events'[n][2] = "started"
               PROVE  Reload!Connected(q)' \/ Reload!EndIsDue(q, n)'
    BY <1>2, EventTyped DEF Reload!StartedInv
  <2>1. n + 1 \in DOMAIN events /\ events'[n] = events[n + 1] /\ (n + 1) - 1 = n
    BY <1>2
  <2>2. Reload!Connected(q) \/ Reload!EndIsDue(q, n + 1)
    BY <2>1 DEF Reload!ReloadInv, Reload!StartedInv
  <2>3. Reload!EndIsDue(q, n + 1) => Reload!EndIsDue(q, (n + 1) - 1)'
    BY <1>8, <2>1
  <2> QED
    BY <1>0, <2>1, <2>2, <2>3 DEF Reload!Connected
<1>11. Reload!StatusInv'
  <2> SUFFICES ASSUME NEW q \in Pair
               PROVE  /\ status'[q] # "" => Reload!Present(q)
                      /\ status'[q] = "running" => Reload!Connected(q) \/ Reload!EndIsDue(q, 0)'
                      /\ status'[q] = "starting" =>
                           \E j \in Slots : call[<<q, j>>] \in Reload!Underway
    BY <1>0 DEF Reload!StatusInv, Reload!Present, Reload!Connected
  <2>1. CASE q # p
    <3>1. status'[q] = status[q]
      BY <1>4, <2>1 DEF Reload!ReloadInv, Reload!TypeOK
    <3> QED
      BY <1>9, <2>1, <3>1 DEF Reload!ReloadInv, Reload!StatusInv
  <2>2. CASE q = p /\ ~Reload!Present(p)
    <3>1. status'[p] = status[p] /\ status[p] = ""
      BY <1>3, <1>4, <2>2 DEF Reload!ReloadInv, Reload!TypeOK, Reload!StatusInv
    <3> QED
      BY <2>2, <3>1
  <2>3. CASE q = p /\ Reload!Present(p) /\ type = "started"
    <3>1. status'[p] = "running"
      BY <1>3, <1>4, <2>3 DEF Reload!ReloadInv, Reload!TypeOK
    <3>2. Reload!Connected(p) \/ Reload!EndIsDue(p, 1)
      BY <1>2, <1>3, <2>3 DEF Reload!ReloadInv, Reload!StartedInv
    <3>3. Reload!EndIsDue(p, 1) => Reload!EndIsDue(p, 1 - 1)'
      BY <1>2, <1>8
    <3> QED
      BY <2>3, <3>1, <3>2, <3>3
  <2>4. CASE q = p /\ Reload!Present(p) /\ type # "started"
    <3>1. status'[p] \in {"stopped", "error"}
      BY <1>3, <1>4, <2>4 DEF Reload!ReloadInv, Reload!TypeOK
    <3> QED
      BY <2>4, <3>1
  <2> QED
    BY <2>1, <2>2, <2>3, <2>4
<1> QED
  BY <1>6, <1>7, <1>10, <1>11 DEF Reload!ReloadInv

LEMMA NextReload ==
  Reload!DaemonAssumption /\ Reload!ReloadInv /\ [Reload!Next]_(Reload!vars) =>
    Reload!ReloadInv'
<1> SUFFICES ASSUME Reload!DaemonAssumption, Reload!ReloadInv, [Reload!Next]_(Reload!vars)
             PROVE  Reload!ReloadInv'
  OBVIOUS
<1>1. CASE Reload!Boot \/ Reload!Reload
  <2>1. daemon \in {"auto", "reconnect"} => hangup \/ ~owed
    BY DEF Reload!ReloadInv, Reload!HangupIsKept
  <2> QED
    BY <1>1, <2>1, LoadKeepsReload, AutoConnectKeeps, RunMovesOn DEF Reload!Boot,
          Reload!Reload
<1>2. CASE \E p \in Pair, g \in Slots : Reload!Start(p, g) \/ Reload!Leave(p, g)
  BY <1>2, EnterKeeps, UpKeeps, ReturnedKeeps, LeaveKeeps DEF Reload!Start
<1> QED
  BY <1>1, <1>2, HandleKeeps, RunMovesOn DEF Reload!Next, Reload!Run

-----------------------------------------------------------------------------

(* ReloadInv is inductive: what a status says and what a started event      *)
(* tells is so, or the event that ends it is in the queue.                  *)
THEOREM ReloadInvariance ==
  ASSUME Reload!DaemonAssumption
  PROVE  Reload!Spec => []Reload!ReloadInv
<1>1. Reload!ReloadInv /\ [Reload!Next]_(Reload!vars) => Reload!ReloadInv'
  BY NextReload
<1> QED
  BY <1>1, InitReload, PTL DEF Reload!Spec

(* When all is quiet no end is due and every status is of a connection.     *)
LEMMA QuietIsTrue == Reload!ReloadInv => Reload!ShownIsTrue
<1> SUFFICES ASSUME Reload!ReloadInv, Reload!Quiet, NEW p \in Pair, Reload!Present(p)
             PROVE  Reload!Shown(p) = "running" <=> Reload!Running(p)
  BY DEF Reload!ShownIsTrue
<1>1. status[p] = "running" => Reload!Connected(p)
  <2>1. ~Reload!EndIsDue(p, 0)
    BY DEF Reload!Quiet, Reload!EndIsDue
  <2> QED
    BY <2>1 DEF Reload!ReloadInv, Reload!StatusInv
<1>2. Reload!Connected(p) => Reload!Running(p)
  BY DEF Reload!Connected, Reload!Running, Reload!Entered
<1> QED
  BY <1>1, <1>2 DEF Reload!Shown

(* A status that keeps AutoConnect from a start is one the invariant        *)
(* explains.                                                                *)
LEMMA ReconnectStarts == Reload!ReloadInv /\ [Reload!Next]_(Reload!vars) => Reload!AutoStarts
<1> SUFFICES ASSUME Reload!ReloadInv, [Reload!Next]_(Reload!vars),
                    daemon = "reconnect", daemon' = "idle", ~Reload!DuplicateBind,
                    NEW p \in Reload!Auto
             PROVE  \/ \E g \in Slots : call'[<<p, g>>] # "none"
                    \/ \E n \in DOMAIN events : events[n][1] = p
  BY DEF Reload!AutoStarts
<1>1. Reload!AutoConnect("idle")
  BY DEF Reload!Next, Reload!Run, Reload!Boot, Reload!TakeHangup, Reload!Reload,
         Reload!Exit, Reload!Terminate, Reload!Start, Reload!Enter, Reload!Up,
         Reload!Returned, Reload!Leave, Reload!HandleRuntimeEvent, Reload!EditFile,
         Reload!Hangup, Reload!Others, Reload!vars, Reload!Load
<1>2. p \in Pair
  BY DEF Reload!Auto
<1>3. CASE p \in BegunStarts
  BY <1>1, <1>3, StartsBegin
<1>4. CASE Reload!Running(p)
  BY <1>1, <1>2, <1>4, StartsBegin DEF Reload!Running, Reload!Entered
<1>5. CASE status[p] = "starting"
  <2>1. PICK g \in Slots : call[<<p, g>>] \in Reload!Underway
    BY <1>2, <1>5 DEF Reload!ReloadInv, Reload!StatusInv
  <2> QED
    BY <1>1, <1>2, <2>1, StartsBegin
<1>6. CASE status[p] = "running"
  <2>1. CASE Reload!Connected(p)
    BY <1>1, <1>2, <2>1, StartsBegin DEF Reload!Connected
  <2>2. CASE Reload!EndIsDue(p, 0)
    BY <2>2 DEF Reload!EndIsDue, Reload!IsEnd
  <2> QED
    BY <1>2, <1>6, <2>1, <2>2 DEF Reload!ReloadInv, Reload!StatusInv
<1> QED
  BY <1>3, <1>4, <1>5, <1>6 DEF BegunStarts, Reload!Idle

(* After any reloads no profile has two connections, no SIGHUP is lost, and *)
(* what shows as running runs once all has settled (daemon.Run, Load).      *)
THEOREM ReloadShown ==
  ASSUME Reload!DaemonAssumption
  PROVE  Reload!Spec =>
           [](Reload!TypeOK /\ Reload!ShownIsTrue /\ Reload!OneConnection /\ Reload!HangupIsKept)
<1>1. Reload!ReloadInv =>
        Reload!TypeOK /\ Reload!ShownIsTrue /\ Reload!OneConnection /\ Reload!HangupIsKept
  BY QuietIsTrue DEF Reload!ReloadInv
<1> QED
  BY <1>1, ReloadInvariance, PTL

(* What a reload finds to connect by itself is started, connected or about  *)
(* to say that it has ended (AutoConnect).                                  *)
THEOREM ReloadBegins ==
  ASSUME Reload!DaemonAssumption
  PROVE  Reload!Spec => [][Reload!AutoStarts]_(Reload!vars)
<1>1. Reload!ReloadInv /\ [Reload!Next]_(Reload!vars) => [Reload!AutoStarts]_(Reload!vars)
  BY ReconnectStarts
<1> QED
  BY <1>1, ReloadInvariance, PTL DEF Reload!Spec

-----------------------------------------------------------------------------
(* ProfileRules: normalising, storing and comparing profiles of any texts,  *)
(* forwards and ports.                                                      *)

(* Trimming once is enough.                                                *)
LEMMA TrimTwice ==
  ASSUME NEW t \in Rules!Text
  PROVE  Rules!Trim(t) \in Rules!Text /\ Rules!Trim(Rules!Trim(t)) = Rules!Trim(t)
BY DEF Rules!Trim, Rules!Text

(* What a normalised profile has in each field (Profile.Normalize).        *)
LEMMA NormalFields ==
  ASSUME NEW p, Rules!IsProfile(p)
  PROVE  LET n == Rules!Normalize(p)
         IN /\ n = [f \in Rules!Fields |-> n[f]]
            /\ DOMAIN n = Rules!Fields
            /\ n.kind = Rules!NormalizedKind(p.kind)
            /\ n.host = Rules!NormalizedHost(p.host)
            /\ n.key = IF p.authenticated THEN Rules!Nothing ELSE Rules!Trim(p.key)
            /\ \A f \in Rules!TextFields \ {"key", "host"} : n[f] = Rules!Trim(p[f])
            /\ n.port = IF p.port = 0 THEN 1080 ELSE p.port
            /\ n.forwards = [k \in DOMAIN p.forwards |-> Rules!NormalizeForward(p.forwards[k])]
            /\ \A f \in Rules!Switches : n[f] = p[f]
<1> USE DEF Rules!Fields, Rules!TextFields, Rules!Switches, Rules!IsProfile
<1>1. DOMAIN p = Rules!Fields
  OBVIOUS
<1> DEFINE n == Rules!Normalize(p)
<1>2. n = [f \in Rules!Fields |-> n[f]] /\ DOMAIN n = Rules!Fields
  BY <1>1 DEF Rules!Normalize
<1>3. n.kind = Rules!NormalizedKind(p.kind)
  BY <1>1 DEF Rules!Normalize
<1>4. n.host = Rules!NormalizedHost(p.host)
  BY <1>1 DEF Rules!Normalize
<1>5. n.key = IF p.authenticated THEN Rules!Nothing ELSE Rules!Trim(p.key)
  BY <1>1 DEF Rules!Normalize
<1>6. \A f \in Rules!TextFields \ {"key", "host"} : n[f] = Rules!Trim(p[f])
  BY <1>1 DEF Rules!Normalize
<1>7. n.port = IF p.port = 0 THEN 1080 ELSE p.port
  BY <1>1 DEF Rules!Normalize
<1>8. n.forwards = [k \in DOMAIN p.forwards |-> Rules!NormalizeForward(p.forwards[k])]
  BY <1>1 DEF Rules!Normalize
<1>9. \A f \in Rules!Switches : n[f] = p[f]
  BY <1>1 DEF Rules!Normalize
<1> QED
  BY <1>2, <1>3, <1>4, <1>5, <1>6, <1>7, <1>8, <1>9

(* A forward that is normalised stays as it is.                            *)
LEMMA ForwardTwice ==
  ASSUME NEW f \in Rules!PortForward
  PROVE  /\ Rules!NormalizeForward(f) \in Rules!PortForward
         /\ Rules!NormalizeForward(Rules!NormalizeForward(f)) = Rules!NormalizeForward(f)
<1> DEFINE protocol == CASE f.protocol \in {"", "TCP"} -> "tcp"
                         [] f.protocol = "UDP " -> "udp" [] OTHER -> f.protocol
           n == Rules!NormalizeForward(f)
<1>1. /\ DOMAIN f = {"port", "protocol", "target"} /\ f = [x \in DOMAIN f |-> f[x]]
      /\ f.port \in Nat /\ f.protocol \in Rules!Protocols /\ f.target \in Rules!Text
  BY DEF Rules!PortForward
<1>2. /\ DOMAIN n = {"port", "protocol", "target"} /\ n = [x \in DOMAIN n |-> n[x]]
      /\ n.port = f.port /\ n.protocol = protocol /\ n.target = Rules!Trim(f.target)
  BY <1>1 DEF Rules!NormalizeForward
<1>3. protocol \in Rules!Protocols /\ protocol \notin {"", "TCP", "UDP "}
  BY <1>1 DEF Rules!Protocols
<1>4. Rules!Trim(f.target) \in Rules!Text
      /\ Rules!Trim(Rules!Trim(f.target)) = Rules!Trim(f.target)
  BY <1>1, TrimTwice
<1> HIDE DEF protocol, n
<1>5. n \in Rules!PortForward
  BY <1>1, <1>2, <1>3, <1>4 DEF Rules!PortForward
<1>6. Rules!NormalizeForward(n) = n
  BY <1>2, <1>3, <1>4 DEF Rules!NormalizeForward
<1> QED
  BY <1>5, <1>6 DEF n

LEMMA ForwardsTwice ==
  ASSUME NEW s \in Seq(Rules!PortForward)
  PROVE  LET n == [k \in DOMAIN s |-> Rules!NormalizeForward(s[k])]
         IN /\ n \in Seq(Rules!PortForward) /\ DOMAIN n = DOMAIN s
            /\ [k \in DOMAIN n |-> Rules!NormalizeForward(n[k])] = n
<1> DEFINE n == [k \in DOMAIN s |-> Rules!NormalizeForward(s[k])]
<1>1. \A k \in DOMAIN s : s[k] \in Rules!PortForward
  OBVIOUS
<1>2. DOMAIN s = 1..Len(s) /\ Len(s) \in Nat
  OBVIOUS
<1>3. \A k \in DOMAIN s : n[k] \in Rules!PortForward
  BY <1>1, ForwardTwice
<1>4. n \in Seq(Rules!PortForward)
  BY <1>2, <1>3
<1>5. \A k \in DOMAIN s : Rules!NormalizeForward(n[k]) = n[k]
  BY <1>1, ForwardTwice
<1> QED
  BY <1>4, <1>5

(* Normalising a profile gives one, and again the same.                    *)
LEMMA NormalizeTwice ==
  ASSUME Rules!RulesAssumption, NEW p, Rules!IsProfile(p)
  PROVE  /\ Rules!IsProfile(Rules!Normalize(p))
         /\ Rules!Normalize(Rules!Normalize(p)) = Rules!Normalize(p)
<1> DEFINE n == Rules!Normalize(p)
<1>1. /\ n = [f \in Rules!Fields |-> n[f]]
      /\ DOMAIN n = Rules!Fields
      /\ n.kind = Rules!NormalizedKind(p.kind)
      /\ n.host = Rules!NormalizedHost(p.host)
      /\ n.key = IF p.authenticated THEN Rules!Nothing ELSE Rules!Trim(p.key)
      /\ \A f \in Rules!TextFields \ {"key", "host"} : n[f] = Rules!Trim(p[f])
      /\ n.port = IF p.port = 0 THEN 1080 ELSE p.port
      /\ n.forwards = [k \in DOMAIN p.forwards |-> Rules!NormalizeForward(p.forwards[k])]
      /\ \A f \in Rules!Switches : n[f] = p[f]
  BY NormalFields
<1>2. /\ \A f \in Rules!TextFields : p[f] \in Rules!Text
      /\ \A f \in Rules!Switches : p[f] \in BOOLEAN
      /\ p.kind \in Rules!Kinds /\ p.port \in Nat /\ p.forwards \in Seq(Rules!PortForward)
  BY DEF Rules!IsProfile
<1> HIDE DEF n
<1>3. \A t \in Rules!Text : /\ Rules!Trim(t) \in Rules!Text
                            /\ Rules!Trim(Rules!Trim(t)) = Rules!Trim(t)
  BY TrimTwice
<1>4. Rules!Nothing \in Rules!Text /\ Rules!Trim(Rules!Nothing) = Rules!Nothing
  BY DEF Rules!RulesAssumption, Rules!Nothing, Rules!Text, Rules!Trim
<1>5. n.kind \in Rules!Kinds /\ Rules!NormalizedKind(n.kind) = n.kind
  BY <1>1, <1>2 DEF Rules!NormalizedKind, Rules!Kinds
<1>6. n.host \in Rules!Text /\ Rules!NormalizedHost(n.host) = n.host
  <2>1. /\ Rules!Word("127.0.0.1") \in Rules!Text
        /\ Rules!Trim(Rules!Word("127.0.0.1")) = Rules!Word("127.0.0.1")
        /\ Rules!Word("127.0.0.1") # Rules!Nothing
    BY DEF Rules!RulesAssumption, Rules!Word, Rules!Text, Rules!Trim, Rules!Nothing
  <2>2. p.host \in Rules!Text
    BY <1>2 DEF Rules!TextFields
  <2> QED
    BY <1>1, <1>3, <2>1, <2>2 DEF Rules!NormalizedHost
<1>7. n.key \in Rules!Text /\ Rules!Trim(n.key) = n.key /\ (p.authenticated => n.key = Rules!Nothing)
  <2>1. p.key \in Rules!Text /\ p.authenticated \in BOOLEAN
    BY <1>2 DEF Rules!TextFields, Rules!Switches
  <2> QED
    BY <1>1, <1>3, <1>4, <2>1
<1>8. \A f \in Rules!TextFields \ {"key", "host"} : n[f] \in Rules!Text /\ Rules!Trim(n[f]) = n[f]
  BY <1>1, <1>2, <1>3
<1>9. n.port \in Nat /\ n.port # 0
  BY <1>1, <1>2
<1>10. /\ n.forwards \in Seq(Rules!PortForward)
       /\ [k \in DOMAIN n.forwards |-> Rules!NormalizeForward(n.forwards[k])] = n.forwards
  BY <1>1, <1>2, ForwardsTwice
<1>11. \A f \in Rules!Switches : n[f] \in BOOLEAN
  BY <1>1, <1>2
<1>12. Rules!IsProfile(n)
  <2>1. \A f \in Rules!TextFields : n[f] \in Rules!Text
    BY <1>6, <1>7, <1>8
  <2> QED
    BY <1>1, <1>5, <1>9, <1>10, <1>11, <2>1 DEF Rules!IsProfile
<1> DEFINE m == Rules!Normalize(n)
<1>13. /\ m = [f \in Rules!Fields |-> m[f]]
       /\ m.kind = Rules!NormalizedKind(n.kind)
       /\ m.host = Rules!NormalizedHost(n.host)
       /\ m.key = IF n.authenticated THEN Rules!Nothing ELSE Rules!Trim(n.key)
       /\ \A f \in Rules!TextFields \ {"key", "host"} : m[f] = Rules!Trim(n[f])
       /\ m.port = IF n.port = 0 THEN 1080 ELSE n.port
       /\ m.forwards = [k \in DOMAIN n.forwards |-> Rules!NormalizeForward(n.forwards[k])]
       /\ \A f \in Rules!Switches : m[f] = n[f]
  BY <1>12, NormalFields
<1> HIDE DEF m
<1>14. n.authenticated = p.authenticated
  BY <1>1 DEF Rules!Switches
<1>15. m.kind = n.kind /\ m.host = n.host /\ m.port = n.port /\ m.forwards = n.forwards
  BY <1>5, <1>6, <1>9, <1>10, <1>13
<1>16. m.key = n.key
  BY <1>7, <1>13, <1>14
<1>17. \A f \in Rules!Fields : m[f] = n[f]
  BY <1>8, <1>13, <1>15, <1>16 DEF Rules!Fields
<1>18. m = n
  BY <1>1, <1>13, <1>17
<1> QED
  BY <1>12, <1>18 DEF n, m

(* What the store leaves out is what a profile without it has (IsZero).     *)
LEMMA StoredBack ==
  ASSUME NEW p, Rules!IsProfile(p), p = [f \in DOMAIN p |-> p[f]]
  PROVE  Rules!ToDomain(Rules!Stored(p)) = p
<1> DEFINE s == Rules!Stored(p)
           d == Rules!ToDomain(s)
<1>1. DOMAIN p = Rules!Fields
  BY DEF Rules!IsProfile
<1>2. /\ \A f \in DOMAIN s : f \in Rules!Fields /\ s[f] = p[f]
      /\ \A f \in Rules!Fields \ DOMAIN s : f \in Rules!TailscaleFields /\ Rules!IsZero(p)
  BY <1>1 DEF Rules!Stored
<1>3. /\ d = [f \in Rules!Fields |-> d[f]]
      /\ \A f \in Rules!Fields :
           d[f] = IF f \in DOMAIN s THEN s[f]
                  ELSE CASE f \in Rules!TailscaleTexts -> Rules!Nothing
                         [] f = "forwards" -> <<>> [] OTHER -> FALSE
  BY DEF Rules!ToDomain
<1> HIDE DEF s, d
<1>4. ASSUME NEW f \in Rules!Fields \ DOMAIN s PROVE d[f] = p[f]
  <2>1. f \in Rules!TailscaleFields /\ Rules!IsZero(p)
    BY <1>2, <1>4
  <2>2. CASE f \in Rules!TailscaleTexts
    BY <1>3, <2>1, <2>2 DEF Rules!IsZero
  <2>3. CASE f = "forwards"
    BY <1>3, <2>1, <2>3 DEF Rules!IsZero, Rules!TailscaleTexts
  <2>4. CASE f \in Rules!TailscaleSwitches
    <3>1. p[f] = FALSE
      BY <2>1, <2>4 DEF Rules!IsZero, Rules!IsProfile, Rules!Switches, Rules!TailscaleSwitches
    <3>2. f \notin Rules!TailscaleTexts /\ f # "forwards"
      BY <2>4 DEF Rules!TailscaleSwitches, Rules!TailscaleTexts
    <3> QED
      BY <1>3, <3>1, <3>2
  <2> QED
    BY <2>1, <2>2, <2>3, <2>4 DEF Rules!TailscaleFields
<1>5. \A f \in Rules!Fields : d[f] = p[f]
  BY <1>2, <1>3, <1>4
<1> QED
  BY <1>1, <1>3, <1>5 DEF s, d

(* A form or a file makes another profile of it.                            *)
LEMMA EditsAreProfiles ==
  ASSUME Rules!RulesAssumption, NEW p, Rules!IsProfile(p), NEW u \in Rules!Edits(p)
  PROVE  Rules!IsProfile(u)
<1>1. PICK f \in DOMAIN p : u \in {[p EXCEPT ![f] = v] : v \in Rules!Values(f)}
  BY DEF Rules!Edits
<1>2. PICK v \in Rules!Values(f) : u = [p EXCEPT ![f] = v]
  BY <1>1
<1>3. /\ DOMAIN u = Rules!Fields /\ f \in Rules!Fields /\ u[f] = v
      /\ \A g \in Rules!Fields : g # f => u[g] = p[g]
  BY <1>2 DEF Rules!IsProfile
<1>4. /\ f \in Rules!TextFields => v \in Rules!Text
      /\ f \in Rules!Switches => v \in BOOLEAN
  BY <1>2 DEF Rules!Values, Rules!RulesAssumption, Rules!TextFields, Rules!Switches
<1>5. /\ f = "kind" => v \in Rules!Kinds
      /\ f = "port" => v \in Nat
      /\ f = "forwards" => v \in Seq(Rules!PortForward)
  BY <1>2 DEF Rules!Values, Rules!RulesAssumption, Rules!TextFields, Rules!Switches
<1>6. /\ \A g \in Rules!TextFields : u[g] \in Rules!Text
      /\ \A g \in Rules!Switches : u[g] \in BOOLEAN
  BY <1>3, <1>4 DEF Rules!IsProfile, Rules!Fields
<1>7. u.kind \in Rules!Kinds /\ u.port \in Nat /\ u.forwards \in Seq(Rules!PortForward)
  BY <1>3, <1>5 DEF Rules!IsProfile, Rules!Fields
<1> QED
  BY <1>3, <1>6, <1>7 DEF Rules!IsProfile

(* Which is normalised before it is kept.                                   *)
LEMMA KeptIsNormal ==
  ASSUME Rules!RulesAssumption, NEW p, Rules!IsProfile(p), NEW u \in Rules!Edits(p)
  PROVE  LET n == Rules!Normalize(u)
         IN /\ Rules!IsProfile(n) /\ Rules!Normalize(n) = n
            /\ n = [f \in DOMAIN n |-> n[f]]
<1>1. Rules!IsProfile(u)
  BY EditsAreProfiles
<1> QED
  BY <1>1, NormalizeTwice, NormalFields

-----------------------------------------------------------------------------
(* What the machine of the rules keeps.                                     *)
RulesInv == Rules!TypeOK /\ Rules!ServedAsSaved /\ Rules!OnlyValidIsServed

LEMMA SavedIsFunction ==
  ASSUME Rules!TypeOK
  PROVE  saved = [f \in DOMAIN saved |-> saved[f]]
BY NormalFields DEF Rules!TypeOK

(* Configuration takes fields that the profile has.                         *)
LEMMA ConfigurationFields ==
  ASSUME NEW p, Rules!IsProfile(p)
  PROVE  DOMAIN Rules!Configuration(p) \subseteq DOMAIN p
BY DEF Rules!Configuration, Rules!IsProfile, Rules!Fields, Rules!TextFields, Rules!Switches

LEMMA InitRules == Rules!RulesAssumption /\ Rules!Init => RulesInv
<1> SUFFICES ASSUME Rules!RulesAssumption, Rules!Init PROVE RulesInv
  OBVIOUS
<1> DEFINE first == [kind |-> "", name |-> Rules!Word("n"), config |-> Rules!Word("wg1"),
                     host |-> Rules!Nothing, port |-> 0, autostart |-> FALSE]
           d == Rules!ToDomain(first)
<1>1. /\ DOMAIN d = Rules!Fields
      /\ \A f \in Rules!Fields :
           d[f] = IF f \in DOMAIN first THEN first[f]
                  ELSE CASE f \in Rules!TailscaleTexts -> Rules!Nothing
                         [] f = "forwards" -> <<>> [] OTHER -> FALSE
  BY DEF Rules!ToDomain
<1>2. /\ DOMAIN first = {"kind", "name", "config", "host", "port", "autostart"}
      /\ first.kind = "" /\ first.port = 0 /\ first.autostart = FALSE
      /\ first.name = Rules!Word("n") /\ first.config = Rules!Word("wg1")
      /\ first.host = Rules!Nothing
  OBVIOUS
<1> HIDE DEF first, d
<1>3. /\ Rules!Word("n") \in Rules!Text /\ Rules!Word("wg1") \in Rules!Text
      /\ Rules!Nothing \in Rules!Text
  BY DEF Rules!Word, Rules!Nothing, Rules!Text, Rules!RulesAssumption
<1>4. \A f \in Rules!TextFields : d[f] \in Rules!Text
  BY <1>1, <1>2, <1>3 DEF Rules!Fields, Rules!TextFields, Rules!TailscaleTexts
<1>5. \A f \in Rules!Switches : d[f] = FALSE
  BY <1>1, <1>2 DEF Rules!Fields, Rules!Switches, Rules!TailscaleTexts
<1>6. d.kind = "" /\ d.port = 0 /\ d.forwards = <<>>
  BY <1>1, <1>2 DEF Rules!Fields, Rules!TailscaleTexts
<1>7. d.forwards \in Seq(Rules!PortForward)
  <2>1. d.forwards = <<>>
    BY <1>6
  <2> QED
    BY ONLY <2>1
<1>8. Rules!IsProfile(d)
  <2>1. \A f \in Rules!Switches : d[f] \in BOOLEAN
    BY <1>5
  <2>2. "" \in Rules!Kinds /\ 0 \in Nat
    BY DEF Rules!Kinds
  <2>3. d.kind \in Rules!Kinds /\ d.port \in Nat
    BY <1>6, <2>2
  <2> QED
    BY <1>1, <1>4, <1>7, <2>1, <2>3 DEF Rules!IsProfile
<1>9. saved = Rules!Normalize(d) /\ served = Rules!Off
  BY DEF Rules!Init, d, first
<1> QED
  BY <1>8, <1>9, NormalizeTwice
     DEF RulesInv, Rules!TypeOK, Rules!ServedAsSaved, Rules!OnlyValidIsServed

(* What Save lets through of a live profile is nothing the adapter has      *)
(* read, or the exit node, which it is told.                                *)
LEMMA SaveKeepsRules ==
  ASSUME Rules!RulesAssumption, RulesInv, Rules!Save
  PROVE  RulesInv'
<1>1. PICK u \in Rules!Edits(saved) :
        LET updated == Rules!Normalize(u)
        IN /\ Rules!Accepts(updated)
           /\ saved' = updated
           /\ served' = IF served # Rules!Off /\ Rules!ExitNodeConfigChanged(saved, updated)
                        THEN [served EXCEPT !.exit = updated.exit, !.auto = updated.auto,
                                            !.lan = updated.lan]
                        ELSE served
  BY DEF Rules!Save
<1>2. Rules!Valid(saved') /\ (served # Rules!Off => ~Rules!RuntimeConfigChanged(saved, saved'))
  BY <1>1 DEF Rules!Accepts
<1>3. /\ Rules!IsProfile(saved') /\ Rules!Normalize(saved') = saved'
      /\ saved' = [f \in DOMAIN saved' |-> saved'[f]]
  BY <1>1, KeptIsNormal DEF RulesInv, Rules!TypeOK
<1>4. ASSUME served # Rules!Off PROVE served' = Rules!Configuration(saved')
  <2>1. /\ served = Rules!Configuration(saved)
        /\ \A f \in {"kind", "config", "host", "port", "hostname", "key", "control", "ephemeral",
                     "forwards"} : saved[f] = saved'[f]
    BY <1>2, <1>4 DEF RulesInv, Rules!ServedAsSaved, Rules!RuntimeConfigChanged,
                      Rules!TailscaleRestartConfigChanged
  <2>2. Rules!IsTailscale(saved) <=> Rules!IsTailscale(saved')
    BY <2>1 DEF Rules!IsTailscale
  <2>3. CASE ~Rules!IsTailscale(saved)
    <3>1. served' = served
      BY <1>1, <2>3 DEF Rules!ExitNodeConfigChanged
    <3> QED
      BY <2>1, <2>2, <2>3, <3>1 DEF Rules!Configuration
  <2>4. CASE Rules!IsTailscale(saved) /\ ~Rules!ExitNodeConfigChanged(saved, saved')
    <3>1. served' = served
      BY <1>1, <2>4
    <3>2. \A f \in {"exit", "auto", "lan"} : saved[f] = saved'[f]
      BY <2>2, <2>4 DEF Rules!ExitNodeConfigChanged
    <3> QED
      BY <2>1, <2>2, <2>4, <3>1, <3>2 DEF Rules!Configuration
  <2>5. CASE Rules!IsTailscale(saved) /\ Rules!ExitNodeConfigChanged(saved, saved')
    <3>1. served' = [served EXCEPT !.exit = saved'.exit, !.auto = saved'.auto,
                                   !.lan = saved'.lan]
      BY <1>1, <1>4, <2>5
    <3> QED
      BY <2>1, <2>2, <2>5, <3>1 DEF Rules!Configuration
  <2> QED
    BY <2>3, <2>4, <2>5
<1>5. served = Rules!Off => served' = Rules!Off
  BY <1>1
<1> QED
  BY <1>2, <1>3, <1>4, <1>5, ConfigurationFields
     DEF RulesInv, Rules!TypeOK, Rules!ServedAsSaved, Rules!OnlyValidIsServed

LEMMA NextRules ==
  Rules!RulesAssumption /\ RulesInv /\ [Rules!Next]_(Rules!vars) => RulesInv'
<1> SUFFICES ASSUME Rules!RulesAssumption, RulesInv, [Rules!Next]_(Rules!vars)
             PROVE  RulesInv'
  OBVIOUS
<1> USE DEF RulesInv, Rules!TypeOK, Rules!ServedAsSaved, Rules!OnlyValidIsServed
<1>1. CASE Rules!Save
  BY <1>1, SaveKeepsRules
<1>2. CASE Rules!Connect
  BY <1>2, ConfigurationFields DEF Rules!Connect
<1>3. CASE Rules!Disconnect
  BY <1>3 DEF Rules!Disconnect
<1>4. CASE Rules!Restart
  <2>1. Rules!ToDomain(Rules!Stored(saved)) = saved
    BY StoredBack, SavedIsFunction
  <2> QED
    BY <1>4, <2>1, KeptIsNormal DEF Rules!Restart
<1>5. CASE UNCHANGED Rules!vars
  BY <1>5 DEF Rules!vars
<1> QED
  BY <1>1, <1>2, <1>3, <1>4, <1>5 DEF Rules!Next

(* What Save takes for no change is none, since it looks at every field.    *)
LEMMA NoChangeIsNone ==
  Rules!RulesAssumption /\ Rules!TypeOK => Rules!UnchangedIsEqual
<1> SUFFICES ASSUME Rules!RulesAssumption, Rules!TypeOK, NEW u \in Rules!Edits(saved),
                    ~Rules!FieldsChanged(saved, Rules!Normalize(u))
             PROVE  Rules!Normalize(u) = saved
  BY DEF Rules!UnchangedIsEqual
<1> DEFINE n == Rules!Normalize(u)
<1>1. Rules!IsProfile(n) /\ n = [f \in DOMAIN n |-> n[f]]
  BY KeptIsNormal DEF Rules!TypeOK
<1>2. DOMAIN n = DOMAIN saved
  BY <1>1 DEF Rules!TypeOK, Rules!IsProfile
<1>3. \A f \in DOMAIN saved : saved[f] = n[f]
  BY DEF Rules!FieldsChanged
<1> HIDE DEF n
<1>4. n = saved
  BY <1>1, <1>2, <1>3, SavedIsFunction
<1> QED
  BY <1>4 DEF n

LEMMA StoreGivesBack == Rules!TypeOK => Rules!StoreRoundTrip
BY StoredBack, SavedIsFunction DEF Rules!TypeOK, Rules!StoreRoundTrip

(* For any texts, forwards and ports: a live connection runs on what its    *)
(* profile says, which stays valid, and normalising and storing it give it  *)
(* back (RuntimeConfigChanged, ExitNodeConfigChanged, Normalize).           *)
THEOREM RulesHold ==
  ASSUME Rules!RulesAssumption
  PROVE  Rules!Spec => [](/\ Rules!TypeOK /\ Rules!ServedAsSaved /\ Rules!OnlyValidIsServed
                          /\ Rules!UnchangedIsEqual /\ Rules!StoreRoundTrip)
<1>1. RulesInv => /\ Rules!TypeOK /\ Rules!ServedAsSaved /\ Rules!OnlyValidIsServed
                  /\ Rules!UnchangedIsEqual /\ Rules!StoreRoundTrip
  BY NoChangeIsNone, StoreGivesBack DEF RulesInv
<1> QED
  BY <1>1, InitRules, NextRules, PTL DEF Rules!Spec

-----------------------------------------------------------------------------
(* The sum: what moves is one machine, so that each behaves as by itself.   *)

allVars == <<accountVars, reloadVars, storeVars, importVars, ruleVars, connections, moving>>

LEMMA CarelessOrNot == Spec => [](moving = "careless") \/ []~(moving = "careless")
<1>1. moving = "careless" /\ [Next]_allVars => (moving = "careless")'
  BY DEF allVars, Next, Moves
<1>2. ~(moving = "careless") /\ [Next]_allVars => ~(moving = "careless")'
  BY DEF allVars, Next, Moves
<1> QED
  BY <1>1, <1>2, PTL DEF Spec, allVars

LEMMA DaemonsOrNot == Spec => [](moving = "daemons") \/ []~(moving = "daemons")
<1>1. moving = "daemons" /\ [Next]_allVars => (moving = "daemons")'
  BY DEF allVars, Next, Moves
<1>2. ~(moving = "daemons") /\ [Next]_allVars => ~(moving = "daemons")'
  BY DEF allVars, Next, Moves
<1> QED
  BY <1>1, <1>2, PTL DEF Spec, allVars

LEMMA MarksOrNot == Spec => [](moving = "marks") \/ []~(moving = "marks")
<1>1. moving = "marks" /\ [Next]_allVars => (moving = "marks")'
  BY DEF allVars, Next, Moves
<1>2. ~(moving = "marks") /\ [Next]_allVars => ~(moving = "marks")'
  BY DEF allVars, Next, Moves
<1> QED
  BY <1>1, <1>2, PTL DEF Spec, allVars

LEMMA ReloadAlone == Spec => Reload!Spec
<1>1. Init => Reload!Init
  BY DEF Init
<1>2. [Next]_allVars => [Reload!Next]_(Reload!vars)
  BY DEF allVars, reloadVars, Next, Moves, AccountOnly, StoreOnly, ImportsOnly, RulesOnly,
         ConnectionsOnly, Reload!vars
<1> QED
  BY <1>1, <1>2, PTL DEF Spec, Reload!Spec, allVars

LEMMA CarelessAlone == Spec /\ moving = "careless" => Careless!Spec
<1>1. Init /\ moving = "careless" => Careless!Init
  BY DEF Init
<1>2. moving = "careless" /\ [Next]_allVars =>
        [Careless!Next]_(Careless!vars) /\ (moving = "careless")'
  BY DEF allVars, accountVars, Next, Moves, Careless!vars
<1> QED
  BY <1>1, <1>2, PTL DEF Spec, Careless!Spec, allVars

LEMMA AccountAlone == Spec /\ ~(moving = "careless") => Account!Spec
<1>1. Init /\ ~(moving = "careless") => Account!Init
  BY DEF Init
<1>2. ~(moving = "careless") /\ [Next]_allVars =>
        [Account!Next]_(Account!vars) /\ ~(moving = "careless")'
  BY DEF allVars, accountVars, Next, Moves, ReloadOnly, StoreOnly, ImportsOnly, RulesOnly,
         ConnectionsOnly, Account!vars
<1> QED
  BY <1>1, <1>2, PTL DEF Spec, Account!Spec, allVars

LEMMA DaemonsAlone == Spec /\ moving = "daemons" => Daemons!Spec
<1>1. Init /\ moving = "daemons" => Daemons!Init
  BY DEF Init
<1>2. moving = "daemons" /\ [Next]_allVars =>
        [Daemons!Next]_(Daemons!vars) /\ (moving = "daemons")'
  BY DEF allVars, storeVars, Next, Moves, Daemons!vars
<1> QED
  BY <1>1, <1>2, PTL DEF Spec, Daemons!Spec, allVars

LEMMA MarksAlone == Spec /\ moving = "marks" => Marks!Spec
<1>1. Init /\ moving = "marks" => Marks!Init
  BY DEF Init
<1>2. moving = "marks" /\ [Next]_allVars => [Marks!Next]_(Marks!vars) /\ (moving = "marks")'
  BY DEF allVars, storeVars, Next, Moves, Marks!vars
<1> QED
  BY <1>1, <1>2, PTL DEF Spec, Marks!Spec, allVars

LEMMA WritersAlone == Spec /\ ~(moving = "daemons") /\ ~(moving = "marks") => Writers!Spec
<1>1. Init /\ ~(moving = "daemons") /\ ~(moving = "marks") => Writers!Init
  BY DEF Init
<1>2. ~(moving = "daemons") /\ ~(moving = "marks") /\ [Next]_allVars =>
        [Writers!Next]_(Writers!vars) /\ ~(moving = "daemons")' /\ ~(moving = "marks")'
  BY DEF allVars, storeVars, Next, Moves, AccountOnly, ReloadOnly, ImportsOnly, RulesOnly,
         ConnectionsOnly, Writers!vars
<1> QED
  BY <1>1, <1>2, PTL DEF Spec, Writers!Spec, allVars

LEMMA RulesAlone == Spec => Rules!Spec
<1>1. Init => Rules!Init
  BY DEF Init
<1>2. [Next]_allVars => [Rules!Next]_(Rules!vars)
  BY DEF allVars, ruleVars, Next, Moves, AccountOnly, ReloadOnly, StoreOnly, ImportsOnly,
         ConnectionsOnly, Rules!vars
<1> QED
  BY <1>1, <1>2, PTL DEF Spec, Rules!Spec, allVars

LEMMA ConnectionsAlone == Spec => Connections!Spec
<1>1. Init => Connections!Init
  BY DEF Init
<1>2. [Next]_allVars => [Connections!Next]_(Connections!vars)
  BY DEF allVars, connections, Next, Moves, AccountOnly, ReloadOnly, StoreOnly, ImportsOnly,
         RulesOnly, Connections!vars, Connections!service, Connections!goroutine,
         Connections!dispatcher, Connections!adapters
<1> QED
  BY <1>1, <1>2, PTL DEF Spec, Connections!Spec, allVars

(* Of a Tailscale profile: memory, store, node and login agree, for any     *)
(* exit nodes and any number of edits, whichever write fails and wherever   *)
(* the process dies (Save, Logout, markTailscaleAuthenticatedLocked).       *)
THEOREM AccountKept == Spec => []AccountIsStored
<1>1. Account!Spec => []Account!TypeOK /\ []Account!AccountIsStored
  BY MachineAssumption, Account!AccountTypeCorrect, Account!AccountStored
<1>2. Careless!Spec => []Careless!TypeOK /\ []Careless!AccountIsStored
  BY MachineAssumption, Careless!AccountTypeCorrect, Careless!AccountStored
<1>3. Spec => [](moving = "careless") \/ []~(moving = "careless")
  BY CarelessOrNot
<1>4. ~(moving = "careless") /\ Account!TypeOK /\ Account!AccountIsStored => AccountIsStored
  BY DEF AccountIsStored
<1>5. moving = "careless" /\ Careless!TypeOK /\ Careless!AccountIsStored => AccountIsStored
  BY DEF AccountIsStored
<1> QED
  BY <1>1, <1>2, <1>3, <1>4, <1>5, AccountAlone, CarelessAlone, PTL

(* Where events are handled in time, a profile stays authenticated until    *)
(* the user logs it out (handleRuntimeEvent, Logout).                       *)
THEOREM AuthenticatedKept == Spec => AuthenticatedUntilLogout
<1>1. Account!Spec => Account!AuthenticatedUntilLogout
  BY MachineAssumption, Account!FlagKept
<1>2. Spec => [](moving = "careless") \/ []~(moving = "careless")
  BY CarelessOrNot
<1>3. [Account!StaysAuthenticated]_(Account!vars) =>
        [moving = "account" => Account!StaysAuthenticated]_<<accountVars, moving>>
  BY DEF accountVars, Account!vars, Account!StaysAuthenticated
<1>4. moving = "careless" /\ [Next]_allVars =>
        [moving = "account" => Account!StaysAuthenticated]_<<accountVars, moving>>
  OBVIOUS
<1> QED
  BY <1>1, <1>2, <1>3, <1>4, AccountAlone, PTL
     DEF Spec, allVars, AuthenticatedUntilLogout, Account!AuthenticatedUntilLogout

(* Of any number of frontends, daemons, profiles, failed writes and         *)
(* crashes: nothing that was saved is lost, and one daemon has the lock     *)
(* (Repository.Save, lock.TryLock).                                         *)
THEOREM StoresKept == Spec => []StoreIsKept
<1>1. Writers!Spec => []Writers!TypeOK /\ []Writers!StoreIsKept
  BY MachineAssumption, Writers!StoreTypeCorrect, Writers!StoreKept
<1>2. Marks!Spec => []Marks!TypeOK /\ []Marks!StoreIsKept
  BY MachineAssumption, Marks!StoreTypeCorrect, Marks!StoreKept
<1>3. Daemons!Spec => []Daemons!TypeOK /\ []Daemons!StoreIsKept
  BY MachineAssumption, Daemons!StoreTypeCorrect, Daemons!StoreKept
<1>4. Spec => [](moving = "daemons") \/ []~(moving = "daemons")
  BY DaemonsOrNot
<1>5. Spec => [](moving = "marks") \/ []~(moving = "marks")
  BY MarksOrNot
<1>6. moving = "daemons" /\ Daemons!TypeOK /\ Daemons!StoreIsKept => StoreIsKept
  BY DEF StoreIsKept
<1>7. moving = "marks" /\ Marks!TypeOK /\ Marks!StoreIsKept => StoreIsKept
  BY DEF StoreIsKept
<1>8. ~(moving = "daemons") /\ ~(moving = "marks") /\ Writers!TypeOK /\ Writers!StoreIsKept =>
        StoreIsKept
  BY DEF StoreIsKept
<1> QED
  BY <1>1, <1>2, <1>3, <1>4, <1>5, <1>6, <1>7, <1>8,
     WritersAlone, MarksAlone, DaemonsAlone, PTL

(* No process ever leaves half a file (writeAtomic): only an editor breaks  *)
(* the store.                                                               *)
THEOREM StoresWhole == Spec => StoreIsWhole
<1>1. Writers!Spec => Daemons!StoreIsWhole
  <2>1. Writers!Spec => Writers!StoreIsWhole
    BY MachineAssumption, Writers!StoreWhole
  <2> QED
    BY <2>1, PTL DEF Writers!StoreIsWhole, Daemons!StoreIsWhole, Writers!vars, Daemons!vars
<1>2. Marks!Spec => Daemons!StoreIsWhole
  <2>1. Marks!Spec => Marks!StoreIsWhole
    BY MachineAssumption, Marks!StoreWhole
  <2> QED
    BY <2>1, PTL DEF Marks!StoreIsWhole, Daemons!StoreIsWhole, Marks!vars, Daemons!vars
<1>3. Daemons!Spec => Daemons!StoreIsWhole
  BY MachineAssumption, Daemons!StoreWhole
<1>4. Spec => [](moving = "daemons") \/ []~(moving = "daemons")
  BY DaemonsOrNot
<1>5. Spec => [](moving = "marks") \/ []~(moving = "marks")
  BY MarksOrNot
<1> QED
  BY <1>1, <1>2, <1>3, <1>4, <1>5, WritersAlone, MarksAlone, DaemonsAlone, PTL
     DEF StoreIsWhole

(* After any reloads over live and starting connections no profile has two  *)
(* of them, what shows as running runs once all has settled, and no SIGHUP  *)
(* is lost, for any number of edits, signals and goroutines (daemon.Run).   *)
THEOREM ReloadsShown == Spec => []ReloadIsShown
<1>1. Reload!Spec =>
        [](Reload!TypeOK /\ Reload!ShownIsTrue /\ Reload!OneConnection /\ Reload!HangupIsKept)
  BY MachineAssumption, ReloadShown
<1>2. Reload!TypeOK /\ Reload!ShownIsTrue /\ Reload!OneConnection /\ Reload!HangupIsKept =>
        ReloadIsShown
  BY DEF ReloadIsShown
<1> QED
  BY <1>1, <1>2, ReloadAlone, PTL

(* A reload starts every profile that is to connect by itself and does not  *)
(* (AutoConnect).                                                           *)
THEOREM ReloadsStart == Spec => ReloadStarts
<1>1. Reload!Spec => [][Reload!AutoStarts]_(Reload!vars)
  BY MachineAssumption, ReloadBegins
<1>2. [Reload!AutoStarts]_(Reload!vars) => [Reload!AutoStarts]_reloadVars
  BY DEF reloadVars, Reload!vars
<1> QED
  BY <1>1, <1>2, ReloadAlone, PTL DEF ReloadStarts

(* For any texts, forwards and ports: a live connection runs on what its    *)
(* profile says, which stays valid and comes back from the store, and Save  *)
(* drops no change (RuntimeConfigChanged, ExitNodeConfigChanged).           *)
THEOREM RulesKept == Spec => []ServedIsSaved
<1>1. /\ Rules!TypeOK /\ Rules!ServedAsSaved /\ Rules!OnlyValidIsServed
      /\ Rules!UnchangedIsEqual /\ Rules!StoreRoundTrip
      => ServedIsSaved
  BY DEF ServedIsSaved
<1>2. Rules!Spec => [](/\ Rules!TypeOK /\ Rules!ServedAsSaved /\ Rules!OnlyValidIsServed
                       /\ Rules!UnchangedIsEqual /\ Rules!StoreRoundTrip)
  BY MachineAssumption, RulesHold
<1> QED
  BY <1>1, <1>2, RulesAlone, PTL

(* Two profiles are never connected on one address, although the check and  *)
(* the start are far apart (runningBindConflictLocked, DuplicateBind).      *)
THEOREM ListenersApart == Spec => []OneListener
<1>1. Connections!Spec => []Connections!TypeOK /\ []Connections!OneListener
  BY MachineAssumption, Connections!ServiceTypeCorrect, Connections!OneListenerOnly
<1>2. Connections!TypeOK /\ Connections!OneListener => OneListener
  BY DEF OneListener
<1> QED
  BY <1>1, <1>2, ConnectionsAlone, PTL

=============================================================================
