------------------------------ MODULE Account ------------------------------
(***************************************************************************)
(* What application.Service saves of a Tailscale profile: its auth key,    *)
(* whether it is authenticated, and its exit node.  The store, the memory  *)
(* of the service, the preferences of the live node and the login in its   *)
(* state directory are four copies of one truth, each of which may fail to *)
(* be written; a crash leaves the two that are on disk.                    *)
(***************************************************************************)
EXTENDS Naturals, Sequences

CONSTANTS
  Exits,      \* exit nodes, among them Direct
  Direct,
  MaxEdits,   \* bounds the changes of fields that need no restart (the name)
  LateEvents, \* may a connection leave events behind that are handled after
              \* the next Connect or Logout?  (ServiceLifecycle shows they can)
  Forms,      \* may a form keep a copy of the profile while events come in?
  OneCaller   \* FALSE: Save may run while Logout has released the mutex

(* What an instance has to assume of the constants. *)
AccountAssumption ==
  /\ Direct \in Exits
  /\ MaxEdits \in Nat
  /\ LateEvents \in BOOLEAN /\ Forms \in BOOLEAN /\ OneCaller \in BOOLEAN

VARIABLES
  mem,     \* Service.profiles[i]
  store,   \* the profile in the store file
  status,  \* Service.statuses
  start,   \* the goroutine of startRuntime
  conf,    \* the profile it was given
  entry,   \* the process in the adapter's table
  live,    \* the exit node of its tsnet node
  login,   \* does the state directory hold a login?
  events,  \* on their way to handleRuntimeEvent
  logout,  \* how far Logout is, and `existing`
  form,    \* the copy an edit form was filled with
  torn,    \* has one of two writes failed, and undoing the other as well?
  told     \* has the user been told that saving the authentication failed?

vars == <<mem, store, status, start, conf, entry, live, login, events, logout, form, torn, told>>
runtime == <<start, conf, entry, live, login, events>>

Profile == [key : BOOLEAN, authenticated : BOOLEAN, exit : Exits, edits : 0..MaxEdits]
NoForm == [form |-> "closed"]

TypeOK ==
  /\ {mem, store, conf} \subseteq Profile
  /\ status \in {"stopped", "starting", "running", "stopping", "error"}
  /\ start \in {"none", "launched", "entered", "up", "failed", "canceled"}
  /\ entry \in {"none", "starting", "up"}
  /\ live \in Exits
  /\ login \in BOOLEAN /\ torn \in BOOLEAN /\ told \in BOOLEAN
  /\ events \in Seq({"started", "stopped", "error"})
  /\ logout \in [at : {"no", "saved", "failed"}, existing : Profile]
  /\ form \in Profile \cup {NoForm}

-----------------------------------------------------------------------------

New == [key |-> FALSE, authenticated |-> FALSE, exit |-> Direct, edits |-> 0]

(* TailscaleConfig.Normalize, and what markTailscaleAuthenticated does.     *)
Normalized(p) == [p EXCEPT !.key = @ /\ ~p.authenticated]

Running == entry # "none"
Locked == Running \/ status \in {"starting", "running", "stopping"}

(* A frontend makes one call at a time, and none while a form is open. *)
Free == logout.at = "no" /\ form = NoForm

(* No event of an earlier connection is under way. *)
Drained == LateEvents \/ events = <<>>

Init ==
  /\ mem \in {New, [New EXCEPT !.key = TRUE]}
  /\ store = mem /\ conf = mem
  /\ status = "stopped"
  /\ start = "none" /\ entry = "none"
  /\ live = Direct
  /\ login = FALSE
  /\ events = <<>>
  /\ logout = [at |-> "no", existing |-> mem]
  /\ form = NoForm
  /\ torn = FALSE /\ told = FALSE

(* repository.Save(next), which replaces the file or fails. *)
Persist(p) == mem' = p /\ store' = p
Unsaved == UNCHANGED <<mem, store>>
Unmarked == Unsaved /\ UNCHANGED told

MarkAuthenticated ==
  IF mem.authenticated THEN Unmarked
  ELSE \/ Persist([mem EXCEPT !.key = FALSE, !.authenticated = TRUE]) /\ UNCHANGED told
       \/ Unsaved /\ told' = TRUE

-----------------------------------------------------------------------------

(* Save, of a profile that a frontend has changed. *)

MayEdit(p) ==
  /\ p # mem
  /\ Locked => p.key = mem.key
  /\ (Locked /\ p.exit # mem.exit) => (Running /\ status = "running")

AppliesExitNode(p) == p.exit # mem.exit /\ Running /\ status = "running"

Save(p) ==
  /\ MayEdit(p)
  /\ AppliesExitNode(p) => entry = "up"   \* UpdateExitNode: ErrNotRunning
  /\ \/ /\ Persist(p)
        /\ live' = IF AppliesExitNode(p) THEN p.exit ELSE live
        /\ UNCHANGED torn
     \/ Unsaved /\ UNCHANGED <<live, torn>>
     \/ /\ AppliesExitNode(p)
        /\ live' = p.exit /\ torn' = TRUE
        /\ Unsaved
  /\ UNCHANGED <<status, start, conf, entry, login, events, logout, told>>

(* Mutant: the form does not carry the flag over. *)
EditsForget(p) ==
  {[p EXCEPT !.exit = e, !.key = k, !.authenticated = FALSE] : e \in Exits, k \in BOOLEAN}

(* The fields a user can change in a copy of the profile. *)
Edited(p, e, k, n) == Normalized([p EXCEPT !.exit = e, !.key = k, !.edits = n])
EditsOf(p) ==
  {Edited(p, e, k, n) :
     e \in Exits, k \in BOOLEAN, n \in {mem.edits, mem.edits + 1} \cap (0..MaxEdits)}

(* The window's form and the exit-node picker start from the profile.      *)
SaveProfile ==
  /\ form = NoForm
  /\ OneCaller => logout.at = "no"
  /\ \E p \in EditsOf(mem) : Save(p)
  /\ UNCHANGED form

OpenForm ==
  /\ Forms /\ Free
  /\ form' = mem
  /\ UNCHANGED <<mem, store, status, logout, torn, told, runtime>>

(* EditForm.Result: everything as it was when the form was opened. *)
SaveForm ==
  /\ form # NoForm
  /\ \E p \in EditsOf(form) : Save(p)
  /\ form' = NoForm

CloseForm ==
  /\ form # NoForm
  /\ form' = NoForm
  /\ UNCHANGED <<mem, store, status, logout, torn, told, runtime>>

-----------------------------------------------------------------------------

Connect ==
  /\ Free /\ Drained
  /\ ~Locked /\ start = "none"
  /\ start' = "launched" /\ conf' = mem
  /\ status' = "starting"
  /\ told' = FALSE
  /\ UNCHANGED <<mem, store, entry, live, login, events, logout, form, torn>>

Enter ==
  /\ start = "launched" /\ entry = "none"
  /\ start' = "entered" /\ entry' = "starting"
  /\ UNCHANGED <<mem, store, status, conf, live, login, events, logout, form, torn, told>>

NodeUp ==
  /\ start = "entered" /\ status # "stopping"
  /\ start' = "up" /\ entry' = "up"
  /\ live' = conf.exit
  /\ login' = TRUE
  /\ events' = Append(events, "started")
  /\ UNCHANGED <<mem, store, status, conf, logout, form, torn, told>>

(* The login may have been stored before the start fails. *)
NodeFails ==
  /\ start \in {"launched", "entered"}
  /\ start' \in {"failed", "canceled"} /\ entry' = "none"
  /\ login' \in {login, start = "entered" \/ login}
  /\ UNCHANGED <<mem, store, status, conf, live, events, logout, form, torn, told>>

(* The tail of startRuntime. *)
Returned ==
  /\ start \in {"up", "failed", "canceled"}
  /\ start' = "none"
  /\ CASE start = "failed" -> status' = "error" /\ Unmarked
       [] start = "canceled" ->
            /\ status' = IF status \in {"starting", "running", "stopping"}
                         THEN "stopped" ELSE status
            /\ Unmarked
       [] start = "up" /\ status = "starting" -> status' = "running" /\ MarkAuthenticated
       [] OTHER -> UNCHANGED status /\ Unmarked
  /\ UNCHANGED <<conf, entry, live, login, events, logout, form, torn>>

ProcessEnds ==
  /\ entry = "up"
  /\ entry' = "none"
  /\ \E e \in {"stopped", "error"} : events' = Append(events, e)
  /\ UNCHANGED <<mem, store, status, start, conf, live, login, logout, form, torn, told>>

HandleRuntimeEvent ==
  /\ events # <<>>
  /\ events' = Tail(events)
  /\ IF Head(events) = "started"
     THEN status' = "running" /\ MarkAuthenticated
     ELSE status' = Head(events) /\ Unmarked
  /\ UNCHANGED <<start, conf, entry, live, login, logout, form, torn>>

Disconnect ==
  /\ Free
  /\ status' = IF start # "none" \/ Running THEN "stopping" ELSE "stopped"
  /\ UNCHANGED <<mem, store, logout, form, torn, told, runtime>>

-----------------------------------------------------------------------------

(* Mutant: the state directory is removed before anything is saved. *)
LogoutRemovesFirst ==
  /\ Free /\ Drained
  /\ ~Locked
  /\ login' = FALSE
  /\ logout' = [at |-> "saved", existing |-> mem]
  /\ UNCHANGED <<mem, store, status, start, conf, entry, live, events, form, torn, told>>

LogoutBegin ==
  /\ Free /\ Drained
  /\ ~Locked
  /\ LET p == [mem EXCEPT !.key = FALSE, !.authenticated = FALSE]
     IN Persist(p)
  /\ logout' = [at |-> "saved", existing |-> mem]
  /\ UNCHANGED <<status, form, torn, told, runtime>>

(* Runtime.Logout, without the mutex: ErrAlreadyConnected, or an error of   *)
(* RemoveAll, or the state is gone.                                         *)
LogoutRuntime ==
  /\ logout.at = "saved"
  /\ \/ logout' = [logout EXCEPT !.at = "failed"] /\ UNCHANGED login
     \/ ~Running /\ login' = FALSE /\ logout' = [logout EXCEPT !.at = "no"]
  /\ UNCHANGED <<mem, store, status, start, conf, entry, live, events, form, torn, told>>

(* Memory is restored whether or not the store can be. *)
LogoutRestore ==
  /\ logout.at = "failed"
  /\ mem' = logout.existing
  /\ \/ store' = mem' /\ UNCHANGED torn
     \/ torn' = TRUE /\ UNCHANGED store
  /\ logout' = [logout EXCEPT !.at = "no"]
  /\ UNCHANGED <<status, form, told, runtime>>

(* The process dies and is started again: Load. *)
Restart ==
  /\ mem' = store
  /\ status' = "stopped"
  /\ start' = "none" /\ entry' = "none"
  /\ events' = <<>>
  /\ logout' = [logout EXCEPT !.at = "no"]
  /\ form' = NoForm
  /\ torn' = FALSE /\ told' = FALSE
  /\ UNCHANGED <<store, conf, live, login>>

User == SaveProfile \/ OpenForm \/ SaveForm \/ CloseForm \/ Connect \/ Disconnect \/ LogoutBegin

Next ==
  \/ User
  \/ Enter \/ NodeUp \/ NodeFails \/ Returned \/ ProcessEnds \/ HandleRuntimeEvent
  \/ LogoutRuntime \/ LogoutRestore
  \/ Restart

Spec == Init /\ [][Next]_vars

-----------------------------------------------------------------------------

(* What is in memory is what is in the store, unless Logout could neither  *)
(* remove the login nor put the profile back.                              *)
MemoryIsStored == torn \/ mem = store

(* The traffic of a connected profile leaves where the profile says,       *)
(* whatever write of a change failed, unless undoing it failed as well.    *)
LiveIsSaved == (entry = "up" /\ ~torn) => live = mem.exit

(* A profile that shows as authenticated has a login, so that it can       *)
(* connect without a key; a crash in the middle of Logout does not leave a *)
(* profile whose key field is locked and that cannot log in.               *)
AuthenticatedHasLogin == store.authenticated => login

(* The auth key does not stay in the store when the node has come up,      *)
(* however the tail of the start and the event that tells of it interleave *)
(* with a disconnect; or the user has been told that a write failed.       *)
KeyIsRemoved ==
  (entry = "up" /\ start = "none" /\ events = <<>>) =>
    \/ store.authenticated /\ ~store.key
    \/ told \/ torn

(* The four copies of an account agree, whichever write fails, wherever the *)
(* process dies and whoever else calls.  Events of an earlier connection    *)
(* and open forms take something from that, and no more than is said here.  *)
AccountIsStored ==
  /\ MemoryIsStored
  /\ ~LateEvents => LiveIsSaved /\ AuthenticatedHasLogin
  /\ ~LateEvents /\ ~Forms => KeyIsRemoved

(* A profile stays authenticated until the user logs it out                *)
(* (README:249-251).                                                       *)
StaysAuthenticated ==
  (mem.authenticated /\ ~mem'.authenticated /\ ~torn) => logout'.at = "saved"
AuthenticatedUntilLogout == [][StaysAuthenticated]_vars

-----------------------------------------------------------------------------
(* What every reachable state has that the properties follow from.         *)

(* The auth key of a profile goes with the flag. *)
KeyOrFlag(p) == p.authenticated => ~p.key
KeysGo ==
  /\ KeyOrFlag(mem) /\ KeyOrFlag(store) /\ KeyOrFlag(logout.existing)
  /\ form # NoForm => KeyOrFlag(form)

(* How far the goroutine of a start is says what is in the adapter's table. *)
StartIsEntered ==
  /\ start = "launched" => entry = "none"
  /\ start = "entered" <=> entry = "starting"
  /\ entry = "up" => start \in {"none", "up"}

OneCall == form # NoForm => logout.at = "no" /\ Forms

Starting == start \in {"launched", "entered"}
StartedPending == \E n \in 1..Len(events) : events[n] = "started"

(* Without events of an earlier connection nothing moves the status of a    *)
(* start or a Logout, so that the profile is the one that was read.         *)
StartIsAlone ==
  Starting => /\ status \in {"starting", "stopping"}
              /\ events = <<>>
              /\ logout.at = "no"
              /\ conf.exit = mem.exit

LogoutIsAlone ==
  logout.at # "no" =>
    /\ ~Locked
    /\ events = <<>>
    /\ ~mem.authenticated /\ ~store.authenticated

(* Whoever will set the flag, has it or will put it back has a login. *)
FlagHasLogin ==
  \/ login
  \/ /\ entry # "up" /\ ~StartedPending
     /\ ~(start = "up" /\ status = "starting")
     /\ ~mem.authenticated /\ ~store.authenticated
     /\ logout.at # "no" => ~logout.existing.authenticated
     /\ form # NoForm => ~form.authenticated

(* The node is up: the flag is set or will be, or the user knows. *)
FlagIsSet == entry = "up" => StartedPending \/ mem.authenticated \/ told

IInv ==
  /\ TypeOK /\ MemoryIsStored /\ KeysGo /\ StartIsEntered /\ OneCall
  /\ ~LateEvents =>
       /\ StartIsAlone /\ LogoutIsAlone /\ LiveIsSaved /\ FlagHasLogin
       /\ Forms \/ FlagIsSet

=============================================================================
