---------------------------- MODULE WindowProofs ----------------------------
(***************************************************************************)
(* What holds of Window for any number of profiles, hosts and exit nodes.  *)
(* WindowAssumption is the only assumption, except where a theorem names   *)
(* another one.                                                            *)
(***************************************************************************)
EXTENDS Window, SequenceTheorems, TLAPS

(* The window shows the connection of the selected profile. *)
Current ==
  /\ shown = StatusOf(svc, selected)
  /\ controls = ControlsOf(svc, selected, loading)

(* What is selected is in the service, whose profiles are distinct, and the *)
(* window is current unless a change is on its way to it.                  *)
WindowInv ==
  /\ TypeOK /\ Distinct(svc.core)
  /\ FormIsOfSelected
  /\ selected # None => Has(svc, selected)
  /\ due = {} /\ selected # None => Current
  /\ saving # NotSaving => selected # None /\ (~Races => saving.existing = svc.saved[selected])

-----------------------------------------------------------------------------
(* The operators. *)

LEMMA Removed ==
  ASSUME NEW S, NEW s \in Seq(S), NEW i \in DOMAIN s, Distinct(s)
  PROVE  /\ RemoveAt(s, i) \in Seq(S) /\ Distinct(RemoveAt(s, i))
         /\ \A j \in DOMAIN RemoveAt(s, i) : RemoveAt(s, i)[j] # s[i]
<1> DEFINE front == SubSeq(s, 1, i - 1)
           back == SubSeq(s, i + 1, Len(s))
<1>1. i \in 1..Len(s) /\ Len(s) \in Nat /\ \A j \in 1..Len(s) : s[j] \in S
  OBVIOUS
<1>2. /\ front \in Seq(S) /\ Len(front) = i - 1
      /\ \A j \in 1..(i - 1) : front[j] = s[j]
  <2>1. \A j \in 1..(i - 1) : s[j] \in S
    BY <1>1
  <2>2. QED
    BY <1>1, <2>1, SubSeqProperties
<1>3. /\ back \in Seq(S) /\ Len(back) = Len(s) - i
      /\ \A j \in 1..(Len(s) - i) : back[j] = s[i + j]
  <2>1. \A j \in (i + 1)..Len(s) : s[j] \in S
    BY <1>1
  <2>2. /\ back \in Seq(S)
        /\ Len(back) = IF i + 1 <= Len(s) THEN Len(s) - (i + 1) + 1 ELSE 0
        /\ \A j \in 1..(Len(s) - (i + 1) + 1) : back[j] = s[i + 1 + j - 1]
    BY <1>1, <2>1, SubSeqProperties
  <2>3. QED
    BY <1>1, <2>2
<1>4. RemoveAt(s, i) = front \o back
  BY DEF RemoveAt
<1> HIDE DEF front, back
<1> DEFINE rest == front \o back
<1>0. /\ rest \in Seq(S) /\ Len(rest) = Len(front) + Len(back)
      /\ \A j \in 1..(Len(front) + Len(back)) :
           rest[j] = IF j <= Len(front) THEN front[j] ELSE back[j - Len(front)]
  BY <1>2, <1>3, ConcatProperties
<1> HIDE DEF rest
<1>5. /\ rest \in Seq(S) /\ Len(rest) = Len(s) - 1
      /\ \A j \in 1..(Len(s) - 1) : rest[j] = s[IF j < i THEN j ELSE j + 1]
  <2>1. Len(rest) = Len(s) - 1
    BY <1>0, <1>1, <1>2, <1>3
  <2>2. ASSUME NEW j \in 1..(Len(s) - 1) PROVE rest[j] = s[IF j < i THEN j ELSE j + 1]
    <3>0. j \in 1..(Len(front) + Len(back)) /\ Len(front) = i - 1
      BY <1>1, <1>2, <1>3
    <3>1. CASE j < i
      <4>1. rest[j] = front[j] /\ j \in 1..(i - 1)
        BY <1>0, <1>1, <3>0, <3>1
      <4>2. QED
        BY <1>2, <3>1, <4>1
    <3>2. CASE ~(j < i)
      <4>1. j - (i - 1) \in 1..(Len(s) - i) /\ i + (j - (i - 1)) = j + 1
        BY <1>1, <3>2
      <4>2. rest[j] = back[j - (i - 1)]
        BY <1>0, <1>1, <3>0, <3>2
      <4>3. QED
        BY <1>3, <3>2, <4>1, <4>2
    <3>3. QED
      BY <3>1, <3>2
  <2>3. QED
    BY <1>0, <2>1, <2>2
<1>6. DOMAIN rest = 1..(Len(s) - 1)
  BY <1>5
<1>7. ASSUME NEW j \in DOMAIN rest
      PROVE  (IF j < i THEN j ELSE j + 1) \in DOMAIN s \ {i}
  BY <1>1, <1>6
<1>8. \A j \in DOMAIN rest : rest[j] # s[i]
  BY <1>1, <1>5, <1>6, <1>7 DEF Distinct
<1>9. Distinct(rest)
  <2> SUFFICES ASSUME NEW j \in DOMAIN rest, NEW k \in DOMAIN rest, rest[j] = rest[k]
               PROVE  j = k
    BY DEF Distinct
  <2>1. (IF j < i THEN j ELSE j + 1) = (IF k < i THEN k ELSE k + 1)
    BY <1>5, <1>6, <1>7 DEF Distinct
  <2>2. QED
    BY <1>1, <1>6, <2>1
<1>10. QED
  BY <1>4, <1>5, <1>8, <1>9 DEF rest

LEMMA Appended ==
  ASSUME NEW S, NEW s \in Seq(S), NEW e \in S,
         \A i \in DOMAIN s : s[i] # e, Distinct(s)
  PROVE  /\ Append(s, e) \in Seq(S) /\ Distinct(Append(s, e))
         /\ \E i \in DOMAIN Append(s, e) : Append(s, e)[i] = e
<1> DEFINE t == Append(s, e)
<1>1. /\ t \in Seq(S) /\ Len(t) = Len(s) + 1 /\ Len(s) \in Nat
      /\ t[Len(s) + 1] = e /\ \A i \in 1..Len(s) : t[i] = s[i]
      /\ DOMAIN t = 1..(Len(s) + 1) /\ DOMAIN s = 1..Len(s)
  OBVIOUS
<1> HIDE DEF t
<1>2. Distinct(t)
  BY <1>1 DEF Distinct
<1>3. QED
  BY <1>1, <1>2 DEF t

LEMMA NobodyHasNone ==
  ASSUME WindowAssumption, NEW s \in Service, NEW p, Has(s, p)
  PROVE  p \in Profiles /\ p # None
BY DEF WindowAssumption, Has, Service

LEMMA ViewsTyped ==
  ASSUME WindowAssumption, NEW s \in Service, NEW p \in Profiles, NEW busy
  PROVE  /\ StatusOf(s, p) \in Statuses
         /\ ControlsOf(s, p, busy) \in Controls
         /\ FormOf(s, p) \in Form /\ FormOf(s, p).of = p
<1>1. StatusOf(s, p) \in Statuses
  BY DEF StatusOf, Service, Statuses
<1>2. MayRestart(s, p) \in BOOLEAN
  BY DEF MayRestart, RuntimeLocked, Service
<1>3. Button(s, p) \in {"none", "connect", "locked", "cancel", "disconnect", "disconnecting"}
  BY DEF Button
<1>4. ControlsOf(s, p, busy) \in Controls
  BY <1>2, <1>3 DEF ControlsOf, Controls
<1>5. FormOf(s, p) \in Form /\ FormOf(s, p).of = p
  <2>1. s.saved[p] \in Saved
    BY DEF Service
  <2>2. QED
    BY <2>1 DEF FormOf, Form, Saved
<1>6. QED
  BY <1>1, <1>4, <1>5

(* After showSelected. *)
LEMMA Shown ==
  ASSUME WindowAssumption, TypeOK, svc' \in Service,
         NEW p \in Profiles \cup {None}, p # None => Has(svc', p), ShowSelected(svc', p)
  PROVE  /\ form' \in Form /\ controls' \in Controls /\ shown' \in Statuses
         /\ form'.of = p
         /\ p # None => shown' = StatusOf(svc', p) /\ controls' = ControlsOf(svc', p, loading)
<1>1. CASE p = None
  <2>1. ~Has(svc', p)
    BY <1>1, NobodyHasNone
  <2>2. form' = Blank /\ shown' = "stopped" /\ controls' = Disabled
    BY <2>1 DEF ShowSelected
  <2>3. QED
    BY <1>1, <2>2 DEF Blank, Disabled, Form, Controls, Statuses, WindowAssumption, Exits
<1>2. CASE p # None
  <2>1. /\ form' = FormOf(svc', p) /\ shown' = StatusOf(svc', p)
        /\ controls' = ControlsOf(svc', p, loading)
    BY <1>2 DEF ShowSelected
  <2>2. p \in Profiles
    BY <1>2
  <2>3. QED
    BY <2>1, <2>2, ViewsTyped
<1>3. QED
  BY <1>1, <1>2

(* After refresh. *)
LEMMA Refreshed ==
  ASSUME WindowAssumption, TypeOK, svc' \in Service, NEW busy,
         selected # None => Has(svc', selected), Refresh(svc', selected, busy)
  PROVE  /\ controls' \in Controls /\ shown' \in Statuses
         /\ selected # None =>
              shown' = StatusOf(svc', selected) /\ controls' = ControlsOf(svc', selected, busy)
<1>1. CASE selected = None
  <2>1. ~Has(svc', selected)
    BY <1>1, NobodyHasNone
  <2>2. QED
    BY <1>1, <2>1 DEF Refresh, TypeOK
<1>2. CASE selected # None
  <2>1. selected \in Profiles
    BY <1>2 DEF TypeOK
  <2>2. QED
    BY <1>2, <2>1, ViewsTyped DEF Refresh
<1>3. QED
  BY <1>1, <1>2

-----------------------------------------------------------------------------
(* The invariant. *)

LEMMA InitWindowInv == WindowAssumption /\ Init => WindowInv
<1> SUFFICES ASSUME WindowAssumption, Init PROVE WindowInv
  OBVIOUS
<1>1. PICK named \in [Profiles -> Exits] :
        svc = [core |-> Initial, saved |-> [p \in Profiles |-> [Fresh EXCEPT !.exit = named[p]]],
               status |-> [p \in Profiles |-> "stopped"], alive |-> [p \in Profiles |-> FALSE]]
  BY DEF Init
<1>2. svc \in Service
  <2>1. \A p \in Profiles : [Fresh EXCEPT !.exit = named[p]] \in Saved
    BY DEF WindowAssumption, Fresh, Saved
  <2>2. QED
    BY <1>1, <2>1 DEF WindowAssumption, Service, Statuses
<1>3. CASE Initial = <<>>
  <2>1. selected = None /\ form = Blank /\ controls = Disabled /\ shown = "stopped"
    BY <1>3 DEF Init
  <2>2. form \in Form /\ controls \in Controls /\ shown \in Statuses
    BY <2>1 DEF Blank, Disabled, Form, Controls, Statuses, WindowAssumption, Exits
  <2>3. form.of = selected
    BY <2>1 DEF Blank
  <2>4. QED
    BY <1>1, <1>2, <2>1, <2>2, <2>3
       DEF Init, WindowInv, TypeOK, FormIsOfSelected, WindowAssumption
<1>4. CASE Initial # <<>>
  <2>1. Initial[1] \in Profiles /\ 1 \in DOMAIN Initial /\ Head(Initial) = Initial[1]
    BY <1>4 DEF WindowAssumption
  <2>2. /\ selected = Initial[1] /\ form = FormOf(svc, selected)
        /\ controls = ControlsOf(svc, selected, loading) /\ shown = "stopped"
    BY <1>4, <2>1 DEF Init
  <2>3. shown = StatusOf(svc, selected)
    BY <1>1, <2>1, <2>2 DEF StatusOf
  <2>4. selected # None /\ Has(svc, selected)
    BY <1>1, <2>1, <2>2 DEF WindowAssumption, Has
  <2>5. /\ form \in Form /\ form.of = selected
        /\ controls \in Controls /\ shown \in Statuses
    BY <1>2, <2>1, <2>2, <2>3, ViewsTyped
  <2>6. QED
    BY <1>1, <1>2, <2>1, <2>2, <2>3, <2>4, <2>5
       DEF Init, WindowInv, TypeOK, FormIsOfSelected, WindowAssumption, Current
<1>5. QED
  BY <1>3, <1>4

(* A step of the UI goroutine leaves no save under way. *)
LEMMA Idle ==
  ASSUME WindowAssumption, TypeOK, UI
  PROVE  saving' = NotSaving /\ refused' \in Profiles \cup {None}
BY DEF UI

(* What the service and the user do to the profile they are about. *)
LEMMA ServiceTyped ==
  ASSUME TypeOK, NEW p \in Profiles, NEW st \in Statuses, NEW al \in BOOLEAN
  PROVE  /\ [svc EXCEPT !.status[p] = st, !.alive[p] = al,
                        !.saved[p].authenticated = @ \/ st = "running"] \in Service
         /\ [svc EXCEPT !.status[p] = st] \in Service
         /\ [svc EXCEPT !.saved[p].authenticated = FALSE] \in Service
<1>1. svc \in Service /\ svc.saved[p] \in Saved
  BY DEF TypeOK, Service
<1>2. \A b \in BOOLEAN : [svc.saved[p] EXCEPT !.authenticated = b] \in Saved
  BY <1>1 DEF Saved
<1>3. (svc.saved[p].authenticated \/ st = "running") \in BOOLEAN
  OBVIOUS
<1>4. \A f \in Saved : [svc.saved EXCEPT ![p] = f] \in [Profiles -> Saved]
  BY <1>1 DEF Service
<1>5. /\ [svc.status EXCEPT ![p] = st] \in [Profiles -> Statuses]
      /\ [svc.alive EXCEPT ![p] = al] \in [Profiles -> BOOLEAN]
  BY <1>1 DEF Service
<1>6. QED
  BY <1>1, <1>2, <1>3, <1>4, <1>5 DEF Service

LEMMA RuntimeEventKeeps ==
  ASSUME WindowAssumption, WindowInv, NEW p \in Profiles, RuntimeEvent(p)
  PROVE  WindowInv'
<1>1. PICK st \in Statuses, al \in BOOLEAN, kind \in {"started", "other"} : Moves(p, st, al, kind)
  BY DEF RuntimeEvent, Statuses
<1> DEFINE moved == [svc EXCEPT !.status[p] = st, !.alive[p] = al,
                               !.saved[p].authenticated = @ \/ st = "running"]
<1>a. svc' = moved /\ due' = due \cup {<<p, kind>>}
  BY <1>1 DEF Moves, Changes
<1>b. moved \in Service
  BY ServiceTyped DEF WindowInv
<1>c. moved.core = svc.core
  BY DEF WindowInv, TypeOK, Service
<1> HIDE DEF moved
<1>2. svc' \in Service /\ svc'.core = svc.core
  BY <1>a, <1>b, <1>c
<1>3. due' \subseteq Profiles \X {"started", "other"} /\ due' # {}
  <2>1. due \subseteq Profiles \X {"started", "other"} /\ <<p, kind>> \in Profiles \X {"started", "other"}
    BY DEF WindowInv, TypeOK
  <2>2. QED
    BY <1>a, <2>1
<1>4. UNCHANGED <<selected, form, options, loading, shown, controls, saving, refused>>
  BY DEF RuntimeEvent
<1>5. TypeOK'
  BY <1>2, <1>3, <1>4 DEF WindowInv, TypeOK
<1>6. ~Races => saving = NotSaving
  BY DEF RuntimeEvent
<1>7. QED
  BY <1>2, <1>3, <1>4, <1>5, <1>6 DEF WindowInv, FormIsOfSelected, Has

LEMMA HandleChangeKeeps ==
  ASSUME WindowAssumption, WindowInv, NEW p \in Profiles, NEW kind \in {"started", "other"},
         HandleChange(p, kind)
  PROVE  WindowInv'
<1>1. /\ UNCHANGED <<svc, selected, form, options>>
      /\ due' \subseteq due /\ loading' \in Profiles \cup {None}
      /\ Refresh(svc', selected, loading')
  BY DEF HandleChange, WindowInv, TypeOK
<1>2. /\ controls' \in Controls /\ shown' \in Statuses
      /\ selected # None =>
           shown' = StatusOf(svc', selected) /\ controls' = ControlsOf(svc', selected, loading')
  BY <1>1, Refreshed DEF WindowInv, TypeOK
<1>3. saving' = NotSaving /\ refused' \in Profiles \cup {None}
  BY Idle DEF HandleChange, WindowInv
<1>4. TypeOK'
  BY <1>1, <1>2, <1>3 DEF WindowInv, TypeOK
<1>5. QED
  BY <1>1, <1>2, <1>3, <1>4 DEF WindowInv, FormIsOfSelected, Has, Current

LEMMA RefreshExitNodeOptionsKeeps ==
  ASSUME WindowAssumption, WindowInv, RefreshExitNodeOptions PROVE WindowInv'
<1>1. /\ UNCHANGED <<svc, due, selected, form, options, shown>>
      /\ loading = None /\ loading' = selected /\ Has(svc, selected)
      /\ controls' = [controls EXCEPT !.exit = FALSE]
  BY DEF RefreshExitNodeOptions
<1>2. controls' \in Controls
  BY <1>1 DEF WindowInv, TypeOK, Controls
<1>3. saving' = NotSaving /\ refused' \in Profiles \cup {None}
  BY Idle DEF RefreshExitNodeOptions, WindowInv
<1>4. TypeOK'
  BY <1>1, <1>2, <1>3 DEF WindowInv, TypeOK
<1>5. selected # None
  BY <1>1, NobodyHasNone DEF WindowInv, TypeOK
<1>6. Current => Current'
  <2> DEFINE auto == StatusOf(svc, selected) \notin {"starting", "stopping"}
             restart == MayRestart(svc, selected)
             button == Button(svc, selected)
  <2>1. /\ ControlsOf(svc, selected, None) =
             [restart |-> restart, auto |-> auto, exit |-> auto, button |-> button]
        /\ ControlsOf(svc, selected, selected) =
             [restart |-> restart, auto |-> auto, exit |-> FALSE, button |-> button]
    BY <1>5 DEF ControlsOf
  <2> HIDE DEF auto, restart, button
  <2>2. ASSUME controls = ControlsOf(svc, selected, None)
        PROVE  controls' = ControlsOf(svc, selected, selected)
    <3>1. ControlsOf(svc, selected, selected) \in Controls
      BY <1>5, ViewsTyped DEF WindowInv, TypeOK
    <3>2. /\ controls'.restart = restart /\ controls'.auto = auto
          /\ controls'.exit = FALSE /\ controls'.button = button
      BY <1>1, <2>1, <2>2 DEF WindowInv, TypeOK, Controls
    <3>3. QED
      BY <1>2, <2>1, <3>1, <3>2 DEF Controls
  <2>3. /\ ControlsOf(svc, selected, loading)' = ControlsOf(svc, selected, selected)
        /\ StatusOf(svc, selected)' = StatusOf(svc, selected)
    BY <1>1 DEF ControlsOf, StatusOf, MayRestart, RuntimeLocked, Button
  <2>4. QED
    BY <1>1, <2>2, <2>3 DEF Current
<1>7. QED
  BY <1>1, <1>3, <1>4, <1>6 DEF WindowInv, FormIsOfSelected, Has

(* A typed name, or the ID of the node that the label stands for. *)
LEMMA ExitTyped == ASSUME WindowAssumption, TypeOK PROVE ExitNodeValue(form.exit) \in Exits
<1>1. CASE options # None /\ form.exit \in Tailnet[options]
  <2>1. options \in Profiles /\ form.exit \in Names
    BY <1>1 DEF TypeOK, Names
  <2>2. QED
    BY <1>1, <2>1 DEF ExitNodeValue, Exits
<1>2. CASE ~(options # None /\ form.exit \in Tailnet[options])
  BY <1>2 DEF ExitNodeValue, TypeOK, Form
<1>3. QED
  BY <1>1, <1>2

(* The form keeps its profile when a label is found for its exit node. *)
LEMMA OptionsApplied ==
  ASSUME WindowAssumption, TypeOK, NEW p \in Profiles, ApplyExitNodeOptions(p)
  PROVE  /\ options' \in Profiles
         /\ form' \in Form /\ form'.of = form.of
         /\ form'.host = form.host /\ form'.forwards = form.forwards
<1> DEFINE current == ExitNodeValue(form.exit)
           labels == {n \in Tailnet[p] : current = <<p, n>>}
           value == IF labels # {} THEN CHOOSE n \in labels : TRUE ELSE current
<1>1. options' = p /\ form' = [form EXCEPT !.exit = value]
  BY DEF ApplyExitNodeOptions
<1>2. current \in Exits
  BY ExitTyped
<1>3. value \in Exits
  <2>1. CASE labels # {}
    <3>1. value \in Tailnet[p]
      BY <2>1
    <3>2. QED
      BY <3>1 DEF Exits, Names
  <2>2. CASE labels = {}
    BY <1>2, <2>2
  <2>3. QED
    BY <2>1, <2>2
<1> HIDE DEF value
<1>4. QED
  BY <1>1, <1>3 DEF TypeOK, Form

LEMMA ExitNodesListedKeeps ==
  ASSUME WindowAssumption, WindowInv, ExitNodesListed PROVE WindowInv'
<1>1. /\ UNCHANGED <<svc, due, selected, shown>>
      /\ loading # None /\ loading' = None /\ controls' = ControlsAfterList
      /\ ApplyExitNodeOptions(loading) \/ UNCHANGED <<form, options>>
  BY DEF ExitNodesListed
<1>2. saving' = NotSaving /\ refused' \in Profiles \cup {None}
  BY Idle DEF ExitNodesListed, WindowInv
<1>3. /\ options' \in Profiles \cup {None} /\ form' \in Form /\ form'.of = form.of
  <2>1. loading \in Profiles
    BY <1>1 DEF WindowInv, TypeOK
  <2>2. QED
    BY <1>1, <2>1, OptionsApplied DEF WindowInv, TypeOK
<1>4. controls' \in Controls
  <2>1. CASE Has(svc, selected)
    BY <1>1, <2>1, NobodyHasNone, ViewsTyped DEF ControlsAfterList, WindowInv, TypeOK
  <2>2. CASE ~Has(svc, selected)
    BY <1>1, <2>2 DEF ControlsAfterList, WindowInv, TypeOK
  <2>3. QED
    BY <2>1, <2>2
<1>5. TypeOK'
  BY <1>1, <1>2, <1>3, <1>4 DEF WindowInv, TypeOK
<1>6. selected # None /\ Current => Current'
  BY <1>1 DEF WindowInv, Current, ControlsAfterList
<1>7. QED
  BY <1>1, <1>2, <1>3, <1>5, <1>6 DEF WindowInv, FormIsOfSelected, Has

(* A step of the UI goroutine that shows a profile anew. *)
LEMMA ShownKeeps ==
  ASSUME WindowAssumption, WindowInv, UI, NEW p \in Profiles \cup {None},
         svc' \in Service, Distinct(svc'.core), p # None => Has(svc', p),
         due' \subseteq Profiles \X {"started", "other"},
         selected' = p, ShowSelected(svc', p), UNCHANGED <<options, loading>>
  PROVE  WindowInv'
<1>1. /\ form' \in Form /\ controls' \in Controls /\ shown' \in Statuses
      /\ form'.of = p
      /\ p # None => shown' = StatusOf(svc', p) /\ controls' = ControlsOf(svc', p, loading)
  BY Shown DEF WindowInv
<1>2. saving' = NotSaving /\ refused' \in Profiles \cup {None}
  BY Idle DEF WindowInv
<1>3. TypeOK'
  BY <1>1, <1>2 DEF WindowInv, TypeOK
<1>4. QED
  BY <1>1, <1>2, <1>3 DEF WindowInv, FormIsOfSelected, Current

(* One that refreshes what is shown, the saves among them. *)
LEMMA RefreshedKeeps ==
  ASSUME WindowAssumption, WindowInv, saving' = NotSaving, refused' \in Profiles \cup {None},
         svc' \in Service, svc'.core = svc.core,
         due' \subseteq Profiles \X {"started", "other"},
         Refresh(svc', selected, loading), UNCHANGED <<selected, form, options, loading>>
  PROVE  WindowInv'
<1>1. selected # None => Has(svc', selected)
  BY DEF WindowInv, Has
<1>2. /\ controls' \in Controls /\ shown' \in Statuses
      /\ selected # None =>
           shown' = StatusOf(svc', selected) /\ controls' = ControlsOf(svc', selected, loading)
  BY <1>1, Refreshed DEF WindowInv
<1>3. TypeOK'
  BY <1>2 DEF WindowInv, TypeOK
<1>4. QED
  BY <1>1, <1>2, <1>3 DEF WindowInv, FormIsOfSelected, Current

LEMMA SelectKeeps ==
  ASSUME WindowAssumption, WindowInv, NEW p \in Profiles, Select(p) PROVE WindowInv'
<1>1. /\ UI /\ Has(svc, p) /\ selected' = p /\ ShowSelected(svc, p)
      /\ UNCHANGED <<svc, due, options, loading>>
  BY DEF Select
<1>2. ShowSelected(svc', p) /\ Has(svc', p)
  BY <1>1 DEF Has, ShowSelected, FormOf, StatusOf, ControlsOf, MayRestart, RuntimeLocked, Button
<1>3. svc' \in Service /\ Distinct(svc'.core) /\ due' \subseteq Profiles \X {"started", "other"}
  BY <1>1 DEF WindowInv, TypeOK
<1>4. QED
  BY <1>1, <1>2, <1>3, ShownKeeps

LEMMA AddProfileKeeps ==
  ASSUME WindowAssumption, WindowInv, AddProfile PROVE WindowInv'
<1>1. PICK p \in Profiles :
        /\ ~Has(svc, p)
        /\ svc' = [svc EXCEPT !.core = Append(@, p), !.saved[p] = Fresh]
        /\ Changes(p, "other") /\ selected' = p /\ ShowSelected(svc', p)
  BY DEF AddProfile
<1>2. svc \in Service /\ svc.core \in Seq(Profiles) /\ Distinct(svc.core)
  BY DEF WindowInv, TypeOK, Service
<1>3. /\ Append(svc.core, p) \in Seq(Profiles) /\ Distinct(Append(svc.core, p))
      /\ \E i \in DOMAIN Append(svc.core, p) : Append(svc.core, p)[i] = p
  BY <1>1, <1>2, Appended DEF Has
<1> DEFINE core == Append(svc.core, p)
<1> HIDE DEF core
<1>4. Fresh \in Saved
  BY DEF Fresh, Saved, Exits, WindowAssumption
<1>5. svc' = [svc EXCEPT !.core = core, !.saved[p] = Fresh]
  BY <1>1 DEF core
<1>6. svc' \in Service /\ svc'.core = core
  BY <1>2, <1>3, <1>4, <1>5 DEF Service, core
<1>7. Distinct(svc'.core) /\ Has(svc', p)
  BY <1>3, <1>6 DEF Has, core
<1>8. due' \subseteq Profiles \X {"started", "other"}
  <2>1. due \subseteq Profiles \X {"started", "other"} /\ <<p, "other">> \in Profiles \X {"started", "other"}
    BY DEF WindowInv, TypeOK
  <2>2. QED
    BY <1>1, <2>1 DEF Changes
<1>9. UI /\ UNCHANGED <<options, loading>>
  BY DEF AddProfile
<1>10. QED
  BY <1>1, <1>6, <1>7, <1>8, <1>9, ShownKeeps

LEMMA DeleteSelectedKeeps ==
  ASSUME WindowAssumption, WindowInv, DeleteSelected PROVE WindowInv' /\ selected' # selected
<1>1. PICK i \in DOMAIN svc.core :
        /\ svc.core[i] = selected
        /\ svc' = [svc EXCEPT !.core = RemoveAt(@, i), !.status[selected] = "stopped",
                              !.alive[selected] = FALSE]
  BY DEF DeleteSelected
<1>2. /\ Changes(selected, "other") /\ selected' = First(svc'.core)
      /\ ShowSelected(svc', selected') /\ UI /\ UNCHANGED <<options, loading>>
  BY DEF DeleteSelected, AfterDeletion
<1>3. svc \in Service /\ svc.core \in Seq(Profiles) /\ Distinct(svc.core)
  BY DEF WindowInv, TypeOK, Service
<1> DEFINE core == RemoveAt(svc.core, i)
<1>4. /\ core \in Seq(Profiles) /\ Distinct(core)
      /\ \A j \in DOMAIN core : core[j] # selected
  BY <1>1, <1>3, Removed
<1> HIDE DEF core
<1>5. selected \in Profiles
  BY <1>1, <1>3
<1>6. svc' = [svc EXCEPT !.core = core, !.status[selected] = "stopped", !.alive[selected] = FALSE]
  BY <1>1 DEF core
<1>7. svc' \in Service /\ svc'.core = core
  BY <1>3, <1>4, <1>5, <1>6 DEF Service, Statuses
<1>8. /\ First(core) \in Profiles \cup {None} /\ First(core) # selected
      /\ First(core) # None => Has(svc', First(core))
  <2>1. CASE core = <<>>
    BY <1>5, <2>1 DEF First, WindowAssumption
  <2>2. CASE core # <<>>
    <3>1. 1 \in DOMAIN core /\ First(core) = core[1] /\ core[1] \in Profiles
      BY <1>4, <2>2 DEF First
    <3>2. QED
      BY <1>4, <1>7, <3>1 DEF Has
  <2>3. QED
    BY <2>1, <2>2
<1>9. due' \subseteq Profiles \X {"started", "other"}
  <2>1. /\ due \subseteq Profiles \X {"started", "other"}
        /\ <<selected, "other">> \in Profiles \X {"started", "other"}
    BY <1>5 DEF WindowInv, TypeOK
  <2>2. QED
    BY <1>2, <2>1 DEF Changes
<1>10. QED
  BY <1>2, <1>4, <1>7, <1>8, <1>9, ShownKeeps

LEMMA EditKeeps == ASSUME WindowAssumption, WindowInv, Edit PROVE WindowInv'
<1>1. /\ UI /\ selected # None
      /\ UNCHANGED <<svc, due, selected, options, loading, shown, controls>>
  BY DEF Edit
<1>2. form' \in Form /\ form'.of = form.of
  <2>1. ASSUME NEW h \in Hosts, form' = [form EXCEPT !.host = h]
        PROVE  form' \in Form /\ form'.of = form.of
    BY <2>1 DEF WindowInv, TypeOK, Form
  <2>2. ASSUME NEW n \in {None} \cup Tailnet[selected], form' = [form EXCEPT !.exit = n]
        PROVE  form' \in Form /\ form'.of = form.of
    <3>1. n \in Exits
      BY <1>1 DEF WindowInv, TypeOK, Exits, Names
    <3>2. QED
      BY <2>2, <3>1 DEF WindowInv, TypeOK, Form
  <2>3. ASSUME form' = [form EXCEPT !.forwards = ~@]
        PROVE  form' \in Form /\ form'.of = form.of
    BY <2>3 DEF WindowInv, TypeOK, Form
  <2>4. QED
    BY <2>1, <2>2, <2>3 DEF Edit
<1>3. saving' = NotSaving /\ refused' \in Profiles \cup {None}
  BY <1>1, Idle DEF WindowInv
<1>4. TypeOK'
  BY <1>1, <1>2, <1>3 DEF WindowInv, TypeOK
<1>5. QED
  BY <1>1, <1>2, <1>3, <1>4 DEF WindowInv, FormIsOfSelected, Has, Current

LEMMA BeginSaveKeeps ==
  ASSUME WindowAssumption, WindowInv, NEW then \in {"nothing", "connect", "all"}, BeginSave(then)
  PROVE  WindowInv'
<1>1. /\ UNCHANGED <<svc, due, selected, form, options, loading, shown, controls>>
      /\ saving' = [then |-> then, existing |-> svc.saved[selected]] /\ refused' = None
      /\ Has(svc, selected)
  BY DEF BeginSave
<1>2. svc.saved[selected] \in Saved
  BY <1>1, NobodyHasNone DEF WindowInv, TypeOK, Service
<1>3. saving' \in [then : {"nothing", "connect", "all"}, existing : Saved]
  BY <1>1, <1>2
<1>4. TypeOK'
  BY <1>1, <1>3 DEF WindowInv, TypeOK
<1>5. saving'.existing = svc'.saved[selected'] /\ selected' # None
  BY <1>1, NobodyHasNone DEF WindowInv, TypeOK
<1>6. QED
  BY <1>1, <1>4, <1>5 DEF WindowInv, FormIsOfSelected, Has, Current

LEMMA StartsTyped ==
  ASSUME NEW s \in Service, NEW ps
  PROVE  /\ Starts(s, ps) \in Service /\ Starts(s, ps).core = s.core
         /\ Starts(s, ps).saved = s.saved
<1> DEFINE st == [q \in Profiles |->
                   IF q \in ps /\ Has(s, q) /\ ~RuntimeLocked(s, q) THEN "starting" ELSE s.status[q]]
<1>1. st \in [Profiles -> Statuses]
  BY DEF Service, Statuses
<1>2. Starts(s, ps) = [s EXCEPT !.status = st]
  BY DEF Starts
<1> HIDE DEF st
<1>3. QED
  BY <1>1, <1>2 DEF Service

(* What a save writes, and whom it starts. *)
LEMMA Written ==
  ASSUME WindowAssumption, WindowInv, EndSave
  PROVE  /\ saving' = NotSaving /\ refused' \in Profiles \cup {None} /\ selected \in Profiles
         /\ UNCHANGED <<selected, form, options, loading>>
         /\ \/ UNCHANGED <<svc, due, shown, controls>>
            \/ /\ svc' \in Service /\ svc'.core = svc.core
               /\ svc'.saved = [svc.saved EXCEPT ![selected] = FromForm(saving.existing)]
               /\ due' \subseteq Profiles \X {"started", "other"}
               /\ Refresh(svc', selected, loading)
<1> DEFINE updated == FromForm(saving.existing)
           stored == [svc EXCEPT !.saved[selected] = updated]
           next == CASE saving.then = "connect" -> Starts(stored, {selected})
                     [] saving.then = "all" -> Starts(stored, Profiles)
                     [] OTHER -> stored
           changes == {<<p, "other">> : p \in {q \in Profiles :
                         next.saved[q] # svc.saved[q] \/ next.status[q] # svc.status[q]}}
<1>1. /\ saving # NotSaving /\ saving' = NotSaving /\ UNCHANGED <<selected, form, options, loading>>
      /\ IF Refuses(selected, updated)
         THEN /\ refused' = IF svc.alive[selected] /\ svc.status[selected] = "running" THEN selected ELSE None
              /\ UNCHANGED <<svc, due, shown, controls>>
         ELSE /\ svc' = next /\ refused' = None
              /\ due' = due \cup changes
              /\ Refresh(svc', selected, loading)
  BY DEF EndSave
<1>2. /\ selected \in Profiles /\ saving.existing \in Saved /\ svc \in Service
      /\ due \subseteq Profiles \X {"started", "other"}
  BY <1>1 DEF WindowInv, TypeOK
<1>3. updated \in Saved
  <2>1. ExitNodeValue(form.exit) \in Exits
    BY ExitTyped DEF WindowInv
  <2>2. form.host \in Hosts /\ form.forwards \in BOOLEAN /\ saving.existing.authenticated \in BOOLEAN
    BY <1>2 DEF WindowInv, TypeOK, Form, Saved
  <2>3. QED
    BY <2>1, <2>2 DEF FromForm, Saved
<1>4. changes \subseteq Profiles \X {"started", "other"}
  OBVIOUS
<1> HIDE DEF updated, changes
<1>5. /\ stored \in Service /\ stored.core = svc.core
      /\ stored.saved = [svc.saved EXCEPT ![selected] = updated]
  BY <1>2, <1>3 DEF Service
<1> HIDE DEF stored
<1>6. next \in Service /\ next.core = svc.core /\ next.saved = [svc.saved EXCEPT ![selected] = updated]
  BY <1>5, StartsTyped
<1> HIDE DEF next
<1>7. CASE Refuses(selected, updated)
  BY <1>1, <1>2, <1>7 DEF WindowInv, TypeOK
<1>8. CASE ~Refuses(selected, updated)
  BY <1>1, <1>2, <1>4, <1>6, <1>8 DEF updated
<1>9. QED
  BY <1>7, <1>8

LEMMA EndSaveKeeps == ASSUME WindowAssumption, WindowInv, EndSave PROVE WindowInv'
<1>1. /\ saving' = NotSaving /\ refused' \in Profiles \cup {None}
      /\ UNCHANGED <<selected, form, options, loading>>
  BY Written
<1>2. CASE UNCHANGED <<svc, due, shown, controls>>
  <2>1. TypeOK'
    BY <1>1, <1>2 DEF WindowInv, TypeOK
  <2>2. QED
    BY <1>1, <1>2, <2>1 DEF WindowInv, FormIsOfSelected, Has, Current
<1>3. CASE /\ svc' \in Service /\ svc'.core = svc.core
           /\ due' \subseteq Profiles \X {"started", "other"}
           /\ Refresh(svc', selected, loading)
  BY <1>1, <1>3, RefreshedKeeps
<1>4. QED
  BY <1>2, <1>3, Written

LEMMA LogoutSelectedKeeps ==
  ASSUME WindowAssumption, WindowInv, LogoutSelected PROVE WindowInv'
<1>1. /\ UI /\ Has(svc, selected) /\ svc' = [svc EXCEPT !.saved[selected].authenticated = FALSE]
      /\ due' = due \cup {<<selected, "other">>} /\ ShowSelected(svc', selected)
      /\ UNCHANGED <<selected, options, loading>>
  BY DEF LogoutSelected, Changes
<1>2. /\ selected \in Profiles /\ svc \in Service /\ due \subseteq Profiles \X {"started", "other"}
      /\ Distinct(svc.core)
  BY <1>1, NobodyHasNone DEF WindowInv, TypeOK
<1>3. svc' \in Service
  BY <1>1, <1>2, ServiceTyped DEF WindowInv, Statuses
<1>4. svc'.core = svc.core
  BY <1>1, <1>2 DEF Service
<1>5. Distinct(svc'.core) /\ Has(svc', selected) /\ due' \subseteq Profiles \X {"started", "other"}
  BY <1>1, <1>2, <1>4 DEF Has
<1>6. QED
  BY <1>1, <1>2, <1>3, <1>5, ShownKeeps

LEMMA StoppedTyped ==
  ASSUME TypeOK, NEW p \in Profiles
  PROVE  Stopped(p) \in Service /\ Stopped(p).core = svc.core /\ Stopped(p).saved = svc.saved
<1>1. svc \in Service
  BY DEF TypeOK
<1>2. QED
  BY <1>1 DEF Stopped, Service, Statuses

LEMMA DisconnectSelectedKeeps ==
  ASSUME WindowAssumption, WindowInv, DisconnectSelected PROVE WindowInv'
<1>1. /\ UI /\ Has(svc, selected) /\ svc' = Stopped(selected)
      /\ due' = due \cup {<<selected, "other">>} /\ Refresh(svc', selected, loading)
      /\ UNCHANGED <<selected, form, options, loading>>
  BY DEF DisconnectSelected, Changes
<1>2. selected \in Profiles /\ due \subseteq Profiles \X {"started", "other"}
  BY <1>1, NobodyHasNone DEF WindowInv, TypeOK
<1>3. svc' \in Service /\ svc'.core = svc.core
  BY <1>1, <1>2, StoppedTyped DEF WindowInv
<1>4. due' \subseteq Profiles \X {"started", "other"}
  BY <1>1, <1>2
<1>5. QED
  BY <1>1, <1>3, <1>4, Idle, RefreshedKeeps DEF WindowInv

(* DisconnectAll changes what runs. *)
LEMMA AllStopped ==
  ASSUME TypeOK, DisconnectAll
  PROVE  svc' \in Service /\ svc'.core = svc.core /\ svc'.saved = svc.saved
<1> DEFINE st == [p \in Profiles |->
                   IF Has(svc, p) /\ RuntimeLocked(svc, p) THEN "stopping" ELSE svc.status[p]]
<1>1. svc \in Service
  BY DEF TypeOK
<1>2. st \in [Profiles -> Statuses]
  BY <1>1 DEF Service, Statuses
<1>3. svc' = [svc EXCEPT !.status = st]
  BY DEF DisconnectAll
<1> HIDE DEF st
<1>4. QED
  BY <1>1, <1>2, <1>3 DEF Service

LEMMA DisconnectAllKeeps ==
  ASSUME WindowAssumption, WindowInv, DisconnectAll PROVE WindowInv'
<1>1. /\ UI /\ due' = due \cup {<<p, "other">> : p \in {q \in Profiles : Has(svc, q)}}
      /\ Refresh(svc', selected, loading) /\ UNCHANGED <<selected, form, options, loading>>
  BY DEF DisconnectAll
<1>2. due' \subseteq Profiles \X {"started", "other"}
  <2>1. {<<p, "other">> : p \in {q \in Profiles : Has(svc, q)}} \subseteq Profiles \X {"started", "other"}
    OBVIOUS
  <2>2. QED
    BY <1>1, <2>1 DEF WindowInv, TypeOK
<1>3. QED
  BY <1>1, <1>2, AllStopped, Idle, RefreshedKeeps DEF WindowInv

LEMMA ConnectFromTrayKeeps ==
  ASSUME WindowAssumption, WindowInv, NEW p \in Profiles, ConnectFromTray(p) PROVE WindowInv'
<1>1. /\ UI /\ svc' = Starts(svc, {p}) /\ due' = due \cup {<<p, "other">>}
      /\ UNCHANGED <<selected, form, options, loading, shown, controls>>
  BY DEF ConnectFromTray, Changes
<1>2. svc' \in Service /\ svc'.core = svc.core
  BY <1>1, StartsTyped DEF WindowInv, TypeOK
<1>3. due' \subseteq Profiles \X {"started", "other"} /\ due' # {}
  <2>1. /\ due \subseteq Profiles \X {"started", "other"}
        /\ <<p, "other">> \in Profiles \X {"started", "other"}
    BY DEF WindowInv, TypeOK
  <2>2. QED
    BY <1>1, <2>1
<1>4. saving' = NotSaving /\ refused' \in Profiles \cup {None}
  BY <1>1, Idle DEF WindowInv
<1>5. TypeOK'
  BY <1>1, <1>2, <1>3, <1>4 DEF WindowInv, TypeOK
<1>6. QED
  BY <1>1, <1>2, <1>3, <1>4, <1>5 DEF WindowInv, FormIsOfSelected, Has

LEMMA DisconnectFromTrayKeeps ==
  ASSUME WindowAssumption, WindowInv, NEW p \in Profiles, DisconnectFromTray(p) PROVE WindowInv'
<1>1. /\ UI /\ svc' = Stopped(p) /\ due' = due \cup {<<p, "other">>}
      /\ Refresh(svc', selected, loading) /\ UNCHANGED <<selected, form, options, loading>>
  BY DEF DisconnectFromTray, Changes
<1>2. svc' \in Service /\ svc'.core = svc.core
  BY <1>1, StoppedTyped DEF WindowInv
<1>3. due' \subseteq Profiles \X {"started", "other"}
  BY <1>1 DEF WindowInv, TypeOK
<1>4. QED
  BY <1>1, <1>2, <1>3, Idle, RefreshedKeeps DEF WindowInv

LEMMA NextKeeps == ASSUME WindowAssumption, WindowInv, Next PROVE WindowInv'
BY RuntimeEventKeeps, HandleChangeKeeps, RefreshExitNodeOptionsKeeps, ExitNodesListedKeeps,
   SelectKeeps, AddProfileKeeps, DeleteSelectedKeeps, EditKeeps, BeginSaveKeeps, EndSaveKeeps,
   LogoutSelectedKeeps, DisconnectSelectedKeeps, DisconnectAllKeeps, ConnectFromTrayKeeps,
   DisconnectFromTrayKeeps DEF Next

LEMMA StutterKeeps == WindowInv /\ UNCHANGED vars => WindowInv'
BY DEF vars, WindowInv, TypeOK, FormIsOfSelected, Has, Current, StatusOf, ControlsOf,
       MayRestart, RuntimeLocked, Button

LEMMA WindowInvariance == ASSUME WindowAssumption PROVE Spec => []WindowInv
<1>1. WindowInv /\ [Next]_vars => WindowInv'
  BY NextKeeps, StutterKeeps
<1>2. QED
  BY <1>1, InitWindowInv, PTL DEF Spec

-----------------------------------------------------------------------------
(* What the form holds, and a save would write, is of the selected profile, *)
(* and once no change is under way the window shows its connection         *)
(* (refresh, showSelected).                                                *)
THEOREM WindowCurrent ==
  ASSUME WindowAssumption
  PROVE  Spec => [](TypeOK /\ FormIsOfSelected /\ QuietIsShown)
<1>1. WindowInv => TypeOK /\ FormIsOfSelected /\ QuietIsShown
  BY NobodyHasNone DEF WindowInv, TypeOK, QuietIsShown, Quiet, Current
<1>2. QED
  BY <1>1, WindowInvariance, PTL

(* Which steps write into the form, and where. *)
LEMMA LockedFields ==
  ASSUME WindowAssumption, WindowInv, Next PROVE FieldsLocked
<1> SUFFICES ASSUME Quiet, form'.of = form.of, selected' = selected, form'.host # form.host
             PROVE  ~RuntimeLocked(svc, selected)
  BY DEF FieldsLocked
<1>1. form' # form
  OBVIOUS
<1>2. CASE ExitNodesListed
  <2>1. loading \in Profiles
    BY <1>2 DEF ExitNodesListed, WindowInv, TypeOK
  <2>2. ApplyExitNodeOptions(loading)
    BY <1>1, <1>2 DEF ExitNodesListed
  <2>3. QED
    BY <2>1, <2>2, OptionsApplied DEF WindowInv
<1>3. ASSUME NEW p \in Profiles, Select(p) PROVE FALSE
  BY <1>3 DEF Select
<1>4. CASE AddProfile
  <2>1. selected' \in Profiles /\ ~Has(svc, selected')
    BY <1>4 DEF AddProfile
  <2>2. QED
    BY <2>1 DEF WindowInv, WindowAssumption
<1>5. CASE DeleteSelected
  BY <1>5, DeleteSelectedKeeps
<1>6. CASE Edit
  <2>1. selected # None /\ Current
    BY <1>6 DEF Edit, Quiet, WindowInv
  <2>2. CASE controls.restart
    <3>1. controls.restart = MayRestart(svc, selected)
      BY <2>1 DEF Current, ControlsOf
    <3>2. QED
      BY <2>2, <3>1 DEF MayRestart
  <2>3. ASSUME NEW n, form' = [form EXCEPT !.exit = n] PROVE FALSE
    BY <2>3 DEF WindowInv, TypeOK, Form
  <2>4. ASSUME form' = [form EXCEPT !.forwards = ~@] PROVE FALSE
    BY <2>4 DEF WindowInv, TypeOK, Form
  <2>5. QED
    BY <1>6, <2>2, <2>3, <2>4 DEF Edit
<1>7. CASE LogoutSelected
  BY <1>7 DEF LogoutSelected
<1>8. QED
  BY <1>1, <1>2, <1>3, <1>4, <1>5, <1>6, <1>7
     DEF Next, RuntimeEvent, HandleChange, RefreshExitNodeOptions, BeginSave, EndSave,
         DisconnectSelected, DisconnectAll, ConnectFromTray, DisconnectFromTray

(* A field whose change the service would refuse is not there to be changed, *)
(* the list of port forwards apart (updateRuntimeFieldState).              *)
THEOREM FieldsStayLocked ==
  ASSUME WindowAssumption PROVE Spec => RuntimeFieldsLocked
<1>1. UNCHANGED vars => FieldsLocked
  BY DEF vars, FieldsLocked
<1>2. WindowInv /\ [Next]_vars => [FieldsLocked]_vars
  BY <1>1, LockedFields
<1>3. QED
  BY <1>2, WindowInvariance, PTL DEF Spec, RuntimeFieldsLocked

(* Which steps write the flag. *)
LEMMA FlagStays ==
  ASSUME WindowAssumption, ~Races, WindowInv, Next PROVE StaysAuthenticated
<1> SUFFICES ASSUME NEW p \in Profiles, svc.saved[p].authenticated, ~svc'.saved[p].authenticated
             PROVE  LogoutSelected \/ AddProfile
  BY DEF StaysAuthenticated
<1>1. svc \in Service /\ svc.saved[p] \in Saved /\ svc'.saved # svc.saved
  BY DEF WindowInv, TypeOK, Service
<1>2. ASSUME NEW q \in Profiles, RuntimeEvent(q) PROVE FALSE
  <2>1. PICK st \in Statuses, al \in BOOLEAN, kind \in {"started", "other"} : Moves(q, st, al, kind)
    BY <1>2 DEF RuntimeEvent, Statuses
  <2>2. svc' = [svc EXCEPT !.status[q] = st, !.alive[q] = al,
                          !.saved[q].authenticated = @ \/ st = "running"]
    BY <2>1 DEF Moves
  <2>3. svc'.saved = [svc.saved EXCEPT ![q].authenticated = @ \/ st = "running"]
    BY <1>1, <2>2 DEF Service
  <2>4. CASE p = q
    <3>1. svc'.saved[p] = [svc.saved[p] EXCEPT !.authenticated = @ \/ st = "running"]
      BY <1>1, <2>3, <2>4 DEF Service
    <3>2. QED
      BY <1>1, <3>1 DEF Saved
  <2>5. CASE p # q
    BY <1>1, <2>3, <2>5 DEF Service
  <2>6. QED
    BY <2>4, <2>5
<1>3. ASSUME EndSave PROVE FALSE
  <2>1. saving.existing = svc.saved[selected]
    BY <1>3 DEF WindowInv, EndSave
  <2>2. svc'.saved = [svc.saved EXCEPT ![selected] = FromForm(saving.existing)]
    BY <1>1, <1>3, Written
  <2>3. FromForm(saving.existing).authenticated = svc.saved[selected].authenticated
    BY <2>1 DEF FromForm
  <2>4. QED
    BY <1>1, <2>2, <2>3 DEF Service
<1>4. ASSUME DeleteSelected PROVE FALSE
  BY <1>1, <1>4 DEF DeleteSelected, Service
<1>5. ASSUME DisconnectAll PROVE FALSE
  BY <1>1, <1>5, AllStopped DEF WindowInv
<1>6. ASSUME NEW q \in Profiles, svc' = Stopped(q) PROVE FALSE
  BY <1>1, <1>6, StoppedTyped DEF WindowInv
<1>7. ASSUME NEW q \in Profiles, svc' = Starts(svc, {q}) PROVE FALSE
  BY <1>1, <1>7, StartsTyped
<1>8. ASSUME DisconnectSelected PROVE FALSE
  <2>1. selected \in Profiles /\ svc' = Stopped(selected)
    BY <1>8, NobodyHasNone DEF DisconnectSelected, WindowInv, TypeOK
  <2>2. QED
    BY <1>6, <2>1
<1>9. ASSUME NEW q \in Profiles, ConnectFromTray(q) \/ DisconnectFromTray(q) PROVE FALSE
  BY <1>6, <1>7, <1>9 DEF ConnectFromTray, DisconnectFromTray
<1>10. QED
  BY <1>1, <1>2, <1>3, <1>4, <1>5, <1>8, <1>9
     DEF Next, HandleChange, RefreshExitNodeOptions, ExitNodesListed, Select, Edit, BeginSave

(* A save never takes back that the node is authenticated, if no event of   *)
(* the service comes between its two calls: only a logout does, or a new   *)
(* profile (profileFromForm).                                              *)
THEOREM AuthenticationStays ==
  ASSUME WindowAssumption, ~Races PROVE Spec => AuthenticatedStays
<1>1. UNCHANGED vars => StaysAuthenticated
  BY DEF vars, StaysAuthenticated
<1>2. WindowInv /\ [Next]_vars => [StaysAuthenticated]_vars
  BY <1>1, FlagStays
<1>3. QED
  BY <1>2, WindowInvariance, PTL DEF Spec, AuthenticatedStays
=============================================================================
