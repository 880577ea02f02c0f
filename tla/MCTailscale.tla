---------------------------- MODULE MCTailscale ----------------------------
(***************************************************************************)
(* The adapter, the contract it implements, and the machines inside one of *)
(* its processes.  They share no state: each behaviour is one of a single  *)
(* machine, `moving', and the others stay where they start.                *)
(***************************************************************************)
EXTENDS TailscaleRunner, TLC

CONSTANTS
  Machines,                           \* that may move
  p1,                                 \* the profile the runner's starts are for
  Owners, Promises, Room,             \* of the contract: profiles, starts, channel
  URLs, Delay, MaxTime, MaxShown,     \* of the notices
  Conns, Sources, Sessions, NoSession,\* of the relays
  Peers                               \* of the exit nodes

VARIABLES
  moving,
  \* Backend
  phase, stopped, table, channel,
  \* AuthNotices
  watched, clock, start, monitor, sample, lastPoll, inHand,
  lastKey, pendingKey, pendingSince, machineAuthNotified, shown, steady,
  \* PortForwards
  context, tcpRelay, copying, side, watcher, loop, packetConn,
  sessions, reply, conn, source,
  \* ExitNodes
  peers, offered, chosen, prefs, failed

contract == <<phase, stopped, table, channel>>
notices == <<watched, clock, start, monitor, sample, lastPoll, inHand,
             lastKey, pendingKey, pendingSince, machineAuthNotified, shown, steady>>
relays == <<context, tcpRelay, copying, side, watcher, loop, packetConn,
            sessions, reply, conn, source>>
choices == <<peers, offered, chosen, prefs, failed>>

-----------------------------------------------------------------------------

(* Two starts of one profile: a reconnect that overtakes the disconnect.   *)
Reconnect == [s \in Starts |-> p1]

(* The contract, with starts of several profiles. *)
Promised == INSTANCE Backend WITH
  Profiles <- Owners, Starts <- Promises, Capacity <- Room, MayFault <- TRUE,
  events <- channel

Login == INSTANCE AuthNotices WITH node <- watched

(* TCP connections; or UDP sources that need several sessions. *)
Relays == INSTANCE PortForwards WITH canceled <- context, relay <- tcpRelay

(* Peers with every combination of attributes, which go by two names. *)
Choice == INSTANCE ExitNodes WITH status <- peers

ASSUME MachineAssumption ==
  Promised!BackendAssumption /\ Login!NoticeAssumption /\ Relays!ForwardAssumption

AllInit ==
  /\ moving \in Machines
  /\ Init /\ Promised!Init /\ Login!Init /\ Relays!Init /\ Choice!Init

Moves(machine, others) == moving = machine /\ UNCHANGED <<moving, others>>

AllNext ==
  \/ Moves("stopped", <<contract, notices, relays, choices>>) /\ (Runs \/ Stops)
  \/ Moves("updated", <<contract, notices, relays, choices>>) /\ (Runs \/ Updates)
  \/ Moves("contract", <<vars, notices, relays, choices>>) /\ Promised!Next
  \/ Moves("login", <<vars, contract, relays, choices>>) /\ Login!Next
  \/ Moves("tcp", <<vars, contract, notices, choices>>) /\ Relays!Next /\ UNCHANGED Relays!udp
  \/ Moves("udp", <<vars, contract, notices, choices>>) /\ Relays!Next /\ UNCHANGED Relays!tcp
  \/ Moves("choice", <<vars, contract, notices, relays>>) /\ Choice!Next

AllSpec == AllInit /\ [][AllNext]_<<vars, contract, notices, relays, choices, moving>>

(* All starts are for the one profile.                                      *)
Interchangeable == Permutations(Starts)

-----------------------------------------------------------------------------
(* Besides those of TailscaleRunner.                                        *)

(* The table of the adapter, and the one its contract promises, holds       *)
(* exactly the starts that are live, so that Stop, StopAll, Running and     *)
(* Logout miss none (process, removeProcess).                               *)
TableIsLive == TypeOK /\ EntriesAreLive /\ Promised!TypeOK /\ Promised!TableIsLive

(* Whatever the log of tsnet, the monitor and Start choose to show one      *)
(* after the other, the user reads that a device is approved after having   *)
(* read that it has to be, and is told it then (tailscaleAuthLogEmitter).   *)
NoticesAreTrue == Login!TypeOK /\ Login!NoticesAreTrue

(* A source has one open session at most and the map finds it, however its  *)
(* reply loop and the read loop meet; a TCP relay that is over has closed   *)
(* both of its ends (relayUDPForward, relayTCPConn).                        *)
RelaysAreWhole == Relays!TypeOK /\ Relays!RelaysAreWhole

(* The traffic of a node never leaves directly, or through the exit node of *)
(* an earlier choice, after the configuration of another one has succeeded, *)
(* and what is offered can be configured (configureExitNode,                *)
(* exitNodesFromStatus).                                                    *)
ExitNodeIsChosen ==
  [](Choice!TypeOK /\ Choice!OfferedIsAccepted) /\ Choice!ConfiguredAsChosen
=============================================================================
