---------------------------- MODULE MCFrontends ----------------------------
(***************************************************************************)
(* The terminal, the window and the login service, which share no state:   *)
(* each behaviour is one of a single machine, `moving', and the others     *)
(* stay where they start.                                                  *)
(***************************************************************************)
EXTENDS Terminal, FiniteSets, TLC

CONSTANTS
  Machines,  \* that may move
  a, b, gateway, h1, h2,
  Slots, MaxVersion, MaxOpenings, MaxFaults, MaxLogins  \* of the login service

VARIABLES
  moving,
  \* Window
  svc, changed, selected, entries, options, loading, shown, controls, saving, refused,
  \* LoginService
  platform, binary, file, manager, daemon, other, calls, panel, tray, reported, truths,
  faults, logins

window == <<svc, changed, selected, entries, options, loading, shown, controls, saving, refused>>
installer == <<platform, binary, file, manager, daemon, other, calls, panel, tray, reported,
               truths, faults, logins>>
allVars == <<vars, window, installer, moving>>

-----------------------------------------------------------------------------

(* One profile, whose form has fields to fill in, and room for one that is *)
(* added with a form that is complete.                                      *)
OneProfile == <<a>>
OneForm == [p \in Profiles |-> IF p = a THEN 1 ELSE 0]

(* The service logs; or exit nodes are listed.                              *)
Logging == loads' = <<>> /\ ~form'.waits
Picking == \A p \in Profiles : logs'[p] <= 1

Edited == INSTANCE WindowProofs WITH
  due <- changed, form <- entries, Profiles <- {a, b}, Initial <- <<a>>,
  Hosts <- {h1, h2}, Home <- h1, Tailnet <- [p \in {a, b} |-> IF p = a THEN {gateway} ELSE {}],
  Tray <- TRUE, Forwards <- TRUE, Races <- FALSE

(* A profile and room for a second, few changes of which are under way at   *)
(* one time; or one with a field that needs a restart; or with forwards.    *)
Adding ==
  entries'.host = h1 /\ ~entries'.forwards /\ entries'.exit = None /\ Cardinality(changed') <= 2
Restarting == svc'.core = <<a>> /\ ~entries'.forwards
Forwarding == svc'.core = <<a>> /\ entries'.host = h1

Login == INSTANCE LoginService WITH tui <- panel, gui <- tray, asked <- reported

(* The tray on Linux; both frontends on macOS, one call at a time, where    *)
(* the binary may be replaced; and the panel, which is closed and reopened. *)
Systemd == Login!Linux /\ panel' = panel
Launchd == ~Login!Linux /\ panel'.gen <= 1 /\ \A s \in Slots \ {1} : calls'[s] = calls[s]
Panel == Login!Linux /\ UNCHANGED <<tray, binary, logins>>

ASSUME MachineAssumption ==
  /\ TerminalAssumption
  /\ Edited!WindowAssumption
  /\ Login!LoginServiceAssumption

AllInit ==
  /\ moving \in Machines
  /\ Init
  /\ Edited!Init /\ (moving \in {"fields", "saves"} \/ entries.exit = None)
  /\ Login!Init /\ platform = IF moving = "launchd" THEN "darwin" ELSE "linux"
  /\ moving \in {"launchd", "systemd", "panel"} \/ ~other

Moves(machine, others) == moving = machine /\ UNCHANGED <<moving, others>>

AllNext ==
  \/ Moves("lists", <<window, installer>>) /\ Next /\ Logging
  \/ Moves("pickers", <<window, installer>>) /\ Next /\ Picking
  \/ Moves("views", <<vars, installer>>) /\ Edited!Next /\ Adding
  \/ Moves("fields", <<vars, installer>>) /\ Edited!Next /\ Restarting
  \/ Moves("saves", <<vars, installer>>) /\ Edited!Next /\ Forwarding
  \/ Moves("systemd", <<vars, window>>) /\ Login!Next /\ Systemd
  \/ Moves("launchd", <<vars, window>>) /\ Login!Next /\ Launchd
  \/ Moves("panel", <<vars, window>>) /\ Login!Next /\ Panel

AllSpec == AllInit /\ [][AllNext]_allVars

-----------------------------------------------------------------------------
(* The terminal shows the service's profiles, their status and their log    *)
(* once no change is under way, dropped ones included, its keys act on the  *)
(* profile under the cursor, and a picker offers the nodes of the profile   *)
(* they are saved in (refreshList, handleLogChange, Update).                *)
TerminalIsCurrent ==
  TypeOK /\ SelectionAgrees /\ QuietIsCurrent /\ QuietLogIsShown /\ OfferedForTarget

(* What the form of the window holds is of the selected profile, and once   *)
(* no change is under way so are its fields, its button and its header,     *)
(* whichever list of exit nodes came in late (refresh, showSelected).       *)
WindowIsCurrent == Edited!TypeOK /\ Edited!FormIsOfSelected /\ Edited!QuietIsShown

(* A save never takes back that the node is authenticated: only a logout    *)
(* does, or a new profile (profileFromForm).                                *)
AuthenticatedStays == [][Edited!StaysAuthenticated]_window

(* A field whose change the service would refuse is not there to be changed *)
(* (updateRuntimeFieldState).                                               *)
RuntimeFieldsLocked == [][Edited!FieldsLocked]_window

(* Whichever command fails or is the last before a login or a crash, nothing *)
(* of the service is left without its file, what an installer has reported  *)
(* holds until it is called again, and the tray has one action under way    *)
(* (Install, Uninstall, installService).  launchd runs what was installed.  *)
InstallerIsWhole ==
  /\ [](moving \in {"systemd", "launchd"} =>
          Login!TypeOK /\ Login!NoOrphan /\ Login!ReportedHolds /\ Login!OneAction)
  /\ [][moving = "launchd" => Login!RunsWhatItWrote]_<<installer, moving>>

(* What the panel says has been so since it was opened, it has an answer to *)
(* come while it waits, and nothing of its own under way when it offers the *)
(* next action (ServicePanel, serviceGen).                                  *)
PanelIsTrue == Login!ShownWasTrue /\ Login!OffersWhenIdle /\ Login!PanelIsServed
=============================================================================
