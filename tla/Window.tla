------------------------------- MODULE Window -------------------------------
(***************************************************************************)
(* The main window of the graphical frontend: the selected profile, the    *)
(* form its fields are edited in, the controls that are enabled, and the   *)
(* buttons and tray items that save, connect and disconnect.  Every        *)
(* callback runs on the one UI goroutine; the service goes on beside it.   *)
(* Connections are those of ServiceLifecycle reduced to what a window can  *)
(* see, and every profile is a Tailscale profile.  LoginService has the    *)
(* tray's item for the login service, Account the failing saves.           *)
(***************************************************************************)
EXTENDS Naturals, Sequences, SequencesExt

CONSTANTS
  Profiles,      \* IDs, in the store or yet to be added
  Initial,       \* the profiles at the start, in their order
  None,
  Hosts,         \* values of a field that needs a restart to change
  Home,          \* the host of a new profile
  Tailnet,       \* the names of the exit nodes in the tailnet of each profile
  Tray,          \* are the connections of the tray menu used?
  Forwards,      \* are port forwards edited?
  Races          \* does the service go on between the two calls of a save?

Distinct(s) == \A i, j \in DOMAIN s : s[i] = s[j] => i = j

(* What an instance has to assume of the constants. *)
WindowAssumption ==
  /\ None \notin Profiles /\ Initial \in Seq(Profiles) /\ Distinct(Initial)
  /\ Home \in Hosts /\ DOMAIN Tailnet = Profiles
  /\ {Tray, Forwards, Races} \subseteq BOOLEAN

VARIABLES
  svc,       \* the service: core, saved, status, and alive (an adapter has an entry)
  due,       \* changes on their way to handleChange
  selected,  \* GUI.selectedID
  form,      \* the profile the form was filled from, and its fields
  options,   \* the profile whose exit nodes tsExitValues has
  loading,   \* the profile whose exit nodes are being listed, None without exitNodesLoading
  shown,     \* the status in the header
  controls,  \* which fields are enabled, and which connection button is there
  saving,    \* how far saveSelectedProfile is: the profile it has read, and what follows
  refused    \* the connected profile whose last save was refused

vars == <<svc, due, selected, form, options, loading, shown, controls, saving, refused>>

Names == UNION {Tailnet[p] : p \in Profiles}
Exits == {None} \cup Names \cup (Profiles \X Names)  \* none, typed names, node IDs
Saved == [host : Hosts, exit : Exits, forwards : BOOLEAN, authenticated : BOOLEAN]
Statuses == {"stopped", "starting", "running", "stopping", "error"}
Service == [core : Seq(Profiles), saved : [Profiles -> Saved],
            status : [Profiles -> Statuses], alive : [Profiles -> BOOLEAN]]
Form == [of : Profiles \cup {None}, host : Hosts, exit : Exits, forwards : BOOLEAN]
Controls == [restart : BOOLEAN, auto : BOOLEAN, exit : BOOLEAN,
             button : {"none", "connect", "locked", "cancel", "disconnect", "disconnecting"}]
NotSaving == [then |-> "no"]

TypeOK ==
  /\ svc \in Service /\ form \in Form /\ controls \in Controls /\ shown \in Statuses
  /\ due \subseteq Profiles \X {"started", "other"}
  /\ {selected, options, loading, refused} \subseteq Profiles \cup {None}
  /\ saving = NotSaving \/ saving \in [then : {"nothing", "connect", "all"}, existing : Saved]

-----------------------------------------------------------------------------
(* What the window asks of the service. *)

Has(s, p) == \E i \in DOMAIN s.core : s.core[i] = p

StatusOf(s, p) == IF s.alive[p] /\ s.status[p] # "stopping" THEN "running" ELSE s.status[p]
RuntimeLocked(s, p) == s.alive[p] \/ s.status[p] \in {"starting", "running", "stopping"}

-----------------------------------------------------------------------------
(* What the window shows. *)

Disabled == [restart |-> FALSE, auto |-> FALSE, exit |-> FALSE, button |-> "none"]

Button(s, p) ==
  CASE StatusOf(s, p) = "starting" -> "cancel"
    [] StatusOf(s, p) = "running" -> "disconnect"
    [] StatusOf(s, p) = "stopping" -> "disconnecting"
    [] OTHER -> IF RuntimeLocked(s, p) THEN "locked" ELSE "connect"

(* Mutant: looks at the status only. *)
MayRestartByStatus(s, p) == s.status[p] \notin {"starting", "running", "stopping"}

MayRestart(s, p) == ~RuntimeLocked(s, p)

ControlsOf(s, p, busy) ==
  LET auto == StatusOf(s, p) \notin {"starting", "stopping"}
  IN [restart |-> MayRestart(s, p), auto |-> auto, exit |-> auto /\ busy = None,
      button |-> Button(s, p)]

FormOf(s, p) ==
  [of |-> p, host |-> s.saved[p].host, exit |-> s.saved[p].exit, forwards |-> s.saved[p].forwards]

Blank == [of |-> None, host |-> Home, exit |-> None, forwards |-> FALSE]

(* refresh: the header, the log and the controls, never the form. *)
Refresh(s, p, busy) ==
  IF Has(s, p) THEN shown' = StatusOf(s, p) /\ controls' = ControlsOf(s, p, busy)
  ELSE UNCHANGED <<shown, controls>>

(* showSelected fills the form anew. *)
ShowSelected(s, p) ==
  IF Has(s, p)
  THEN form' = FormOf(s, p) /\ shown' = StatusOf(s, p) /\ controls' = ControlsOf(s, p, loading)
  ELSE form' = Blank /\ shown' = "stopped" /\ controls' = Disabled

-----------------------------------------------------------------------------

Fresh == [host |-> Home, exit |-> None, forwards |-> FALSE, authenticated |-> FALSE]

Init ==
  /\ \E named \in [Profiles -> Exits] :
       /\ \A p \in Profiles : named[p] \in {None} \cup Tailnet[p]
       /\ svc = [core |-> Initial, saved |-> [p \in Profiles |-> [Fresh EXCEPT !.exit = named[p]]],
                 status |-> [p \in Profiles |-> "stopped"], alive |-> [p \in Profiles |-> FALSE]]
  /\ due = {}
  /\ selected = IF Initial = <<>> THEN None ELSE Head(Initial)
  /\ form = IF Initial = <<>> THEN Blank ELSE FormOf(svc, Initial[1])
  /\ options = None /\ loading = None /\ shown = "stopped"
  /\ controls = IF Initial = <<>> THEN Disabled ELSE ControlsOf(svc, Initial[1], None)
  /\ saving = NotSaving /\ refused = None

-----------------------------------------------------------------------------
(* The service on its own. *)

Changes(p, kind) == due' = due \cup {<<p, kind>>}

(* A connection of p moves on, and is notified. *)
Moves(p, st, al, kind) ==
  /\ svc' = [svc EXCEPT !.status[p] = st, !.alive[p] = al,
                        !.saved[p].authenticated = @ \/ st = "running"]
  /\ Changes(p, kind)

(* The adapter reserves its entry and logs; the node comes up and is       *)
(* authenticated; or the start fails; a connection reports an error before *)
(* it ends.                                                                *)
RuntimeEvent(p) ==
  /\ Has(svc, p) /\ (Races \/ saving = NotSaving)
  /\ LET st == svc.status[p] al == svc.alive[p]
     IN \/ st = "starting" /\ ~al /\ Moves(p, st, TRUE, "other")
        \/ st = "starting" /\ al /\ Moves(p, "running", TRUE, "started")
        \/ st = "starting" /\ Moves(p, "error", FALSE, "other")
        \/ st = "running" /\ al /\ Moves(p, "error", TRUE, "other")
        \/ st \in {"running", "stopping"} /\ Moves(p, "stopped", FALSE, "other")
        \/ st = "error" /\ al /\ Moves(p, "error", FALSE, "other")
  /\ UNCHANGED <<selected, form, options, loading, shown, controls, saving, refused>>

-----------------------------------------------------------------------------
(* The UI goroutine, which does nothing else while it saves. *)

UI == saving = NotSaving /\ refused' = None /\ UNCHANGED saving

HandleChange(p, kind) ==
  /\ UI /\ <<p, kind>> \in due
  /\ due' = due \ {<<p, kind>>}
  /\ loading' = IF kind = "started" /\ p = selected /\ Has(svc, p) /\ loading = None THEN p ELSE loading
  /\ Refresh(svc, selected, loading')
  /\ UNCHANGED <<svc, selected, form, options>>

RefreshExitNodeOptions ==
  /\ UI /\ controls.exit /\ Has(svc, selected) /\ loading = None
  /\ loading' = selected /\ controls' = [controls EXCEPT !.exit = FALSE]
  /\ UNCHANGED <<svc, due, selected, form, options, shown>>

(* selectedExitNodeValue: a label stands for the node that it labels. *)
ExitNodeValue(text) == IF options # None /\ text \in Tailnet[options] THEN <<options, text>> ELSE text

ApplyExitNodeOptions(p) ==
  /\ options' = p
  /\ LET current == ExitNodeValue(form.exit)
         labels == {n \in Tailnet[p] : current = <<p, n>>}
     IN form' = [form EXCEPT !.exit = IF labels # {} THEN CHOOSE n \in labels : TRUE ELSE current]

(* Mutant: the controls are left as they are when another profile is there. *)
ControlsAfterListOwn == IF selected = loading THEN ControlsOf(svc, selected, None) ELSE controls

ControlsAfterList == IF Has(svc, selected) THEN ControlsOf(svc, selected, None) ELSE controls

ExitNodesListed ==
  /\ UI /\ loading # None
  /\ loading' = None /\ controls' = ControlsAfterList
  /\ \/ selected = loading /\ svc.alive[loading] /\ svc.status[loading] # "starting"
        /\ ApplyExitNodeOptions(loading)
     \/ UNCHANGED <<form, options>>
  /\ UNCHANGED <<svc, due, selected, shown>>

Select(p) ==
  /\ UI /\ Has(svc, p) /\ p # selected
  /\ selected' = p /\ ShowSelected(svc, p)
  /\ UNCHANGED <<svc, due, options, loading>>

(* Add and Import. *)
AddProfile ==
  /\ UI /\ \E p \in Profiles :
       /\ ~Has(svc, p)
       /\ svc' = [svc EXCEPT !.core = Append(@, p), !.saved[p] = Fresh]
       /\ Changes(p, "other") /\ selected' = p /\ ShowSelected(svc', p)
  /\ UNCHANGED <<options, loading>>

AfterDeletion(s, p) == ShowSelected(s, p)

First(core) == IF core = <<>> THEN None ELSE Head(core)

DeleteSelected ==
  /\ UI /\ \E i \in DOMAIN svc.core :
       /\ svc.core[i] = selected
       /\ svc' = [svc EXCEPT !.core = RemoveAt(@, i), !.status[selected] = "stopped",
                             !.alive[selected] = FALSE]
  /\ Changes(selected, "other")
  /\ selected' = First(svc'.core)
  /\ AfterDeletion(svc', selected')
  /\ UNCHANGED <<options, loading>>

(* A user edits what is enabled; the list of forwards always is. *)
Edit ==
  /\ UI /\ selected # None
  /\ \/ controls.restart /\ \E h \in Hosts : form' = [form EXCEPT !.host = h]
     \/ controls.exit /\ \E n \in {None} \cup Tailnet[selected] : form' = [form EXCEPT !.exit = n]
     \/ Forwards /\ form' = [form EXCEPT !.forwards = ~@]
  /\ UNCHANGED <<svc, due, selected, options, loading, shown, controls>>

BeginSave(then) ==
  /\ saving = NotSaving /\ Has(svc, selected)
  /\ then = "connect" => controls.button = "connect"
  /\ saving' = [then |-> then, existing |-> svc.saved[selected]] /\ refused' = None
  /\ UNCHANGED <<svc, due, selected, form, options, loading, shown, controls>>

(* Mutant: the form has no field for the flag, and it is left out. *)
FromFormUnmarked(existing) ==
  [host |-> form.host, exit |-> ExitNodeValue(form.exit), forwards |-> form.forwards,
   authenticated |-> FALSE]

FromForm(existing) ==
  [host |-> form.host, exit |-> ExitNodeValue(form.exit), forwards |-> form.forwards,
   authenticated |-> existing.authenticated]

(* Service.Save: a runtime that is active takes on an exit node only. *)
Refuses(p, updated) ==
  LET existing == svc.saved[p]
  IN /\ RuntimeLocked(svc, p)
     /\ \/ updated.host # existing.host \/ updated.forwards # existing.forwards
        \/ updated.exit # existing.exit /\ ~(svc.alive[p] /\ svc.status[p] = "running")

Starts(s, ps) == [s EXCEPT !.status = [q \in Profiles |->
                    IF q \in ps /\ Has(s, q) /\ ~RuntimeLocked(s, q) THEN "starting" ELSE @[q]]]

EndSave ==
  /\ saving # NotSaving /\ saving' = NotSaving
  /\ LET updated == FromForm(saving.existing)
         stored == [svc EXCEPT !.saved[selected] = updated]
         next == CASE saving.then = "connect" -> Starts(stored, {selected})
                   [] saving.then = "all" -> Starts(stored, Profiles)
                   [] OTHER -> stored
     IN IF Refuses(selected, updated)
        THEN /\ refused' = IF svc.alive[selected] /\ svc.status[selected] = "running" THEN selected ELSE None
             /\ UNCHANGED <<svc, due, shown, controls>>
        ELSE /\ svc' = next /\ refused' = None
             /\ due' = due \cup {<<p, "other">> : p \in {q \in Profiles :
                   next.saved[q] # svc.saved[q] \/ next.status[q] # svc.status[q]}}
             /\ Refresh(svc', selected, loading)
  /\ UNCHANGED <<selected, form, options, loading>>

LogoutSelected ==
  /\ UI /\ Has(svc, selected) /\ controls.restart /\ ~RuntimeLocked(svc, selected)
  /\ svc.saved[selected].authenticated
  /\ svc' = [svc EXCEPT !.saved[selected].authenticated = FALSE]
  /\ Changes(selected, "other") /\ ShowSelected(svc', selected)
  /\ UNCHANGED <<selected, options, loading>>

Stopped(p) == [svc EXCEPT !.status[p] = IF @ = "starting" \/ svc.alive[p] THEN "stopping" ELSE "stopped"]

DisconnectSelected ==
  /\ UI /\ Has(svc, selected) /\ controls.button \in {"cancel", "disconnect"}
  /\ svc' = Stopped(selected) /\ Changes(selected, "other") /\ Refresh(svc', selected, loading)
  /\ UNCHANGED <<selected, form, options, loading>>

DisconnectAll ==
  /\ UI
  /\ svc' = [svc EXCEPT !.status = [p \in Profiles |->
               IF Has(svc, p) /\ RuntimeLocked(svc, p) THEN "stopping" ELSE @[p]]]
  /\ due' = due \cup {<<p, "other">> : p \in {q \in Profiles : Has(svc, q)}}
  /\ Refresh(svc', selected, loading)
  /\ UNCHANGED <<selected, form, options, loading>>

(* The tray connects what is saved, and leaves the form alone. *)
ConnectFromTray(p) ==
  /\ Tray /\ UI /\ Has(svc, p) /\ ~RuntimeLocked(svc, p)
  /\ svc' = Starts(svc, {p}) /\ Changes(p, "other")
  /\ UNCHANGED <<selected, form, options, loading, shown, controls>>

DisconnectFromTray(p) ==
  /\ Tray /\ UI /\ Has(svc, p)
  /\ svc' = Stopped(p) /\ Changes(p, "other") /\ Refresh(svc', selected, loading)
  /\ UNCHANGED <<selected, form, options, loading>>

Next ==
  \/ \E p \in Profiles :
       \/ RuntimeEvent(p) \/ Select(p) \/ ConnectFromTray(p) \/ DisconnectFromTray(p)
       \/ \E kind \in {"started", "other"} : HandleChange(p, kind)
  \/ RefreshExitNodeOptions \/ ExitNodesListed
  \/ AddProfile \/ DeleteSelected \/ Edit \/ LogoutSelected
  \/ \E then \in {"nothing", "connect", "all"} : BeginSave(then)
  \/ EndSave \/ DisconnectSelected \/ DisconnectAll

Spec == Init /\ [][Next]_vars

-----------------------------------------------------------------------------

(* What the form holds, and a save would write, is of the selected profile. *)
FormIsOfSelected == form.of = selected

Quiet == due = {} /\ saving = NotSaving

(* When no change is under way the header, the fields and the button are   *)
(* those of the selected profile's connection, whatever list of exit nodes *)
(* came in meanwhile and for whom.                                         *)
QuietIsShown ==
  Quiet /\ Has(svc, selected) =>
    shown = StatusOf(svc, selected) /\ controls = ControlsOf(svc, selected, loading)

(* A field whose change the service would refuse is not there to be        *)
(* changed, the list of port forwards apart.                               *)
FieldsLocked ==
  Quiet /\ form'.of = form.of /\ selected' = selected /\ form'.host # form.host
    => ~RuntimeLocked(svc, selected)
RuntimeFieldsLocked == [][FieldsLocked]_vars

(* A save never takes back that the node is authenticated: only a logout   *)
(* does, or a new profile.                                                 *)
StaysAuthenticated ==
  \A p \in Profiles : svc.saved[p].authenticated /\ ~svc'.saved[p].authenticated
    => LogoutSelected \/ AddProfile
AuthenticatedStays == [][StaysAuthenticated]_vars

(* An exit node that is saved by its ID is in the profile's own tailnet.   *)
OwnExitNode ==
  \A p, q \in Profiles : \A n \in Names : svc.saved[p].exit = <<q, n>> => q = p

(* The settings that can be changed while connected can be saved then.     *)
RunningSaves == refused = None
=============================================================================
