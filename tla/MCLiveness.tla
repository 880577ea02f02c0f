----------------------------- MODULE MCLiveness -----------------------------
(***************************************************************************)
(* What has to happen in the end, in every machine with goroutines: each   *)
(* behaviour is one of a single machine, `moving', and the others stay     *)
(* where they start.                                                       *)
(***************************************************************************)
EXTENDS Naturals, Sequences, TLC

CONSTANTS
  Machines  \* that may move

VARIABLES
  moving,
  \* ServiceLifecycle
  profiles, status, pending, canceled, call, result, conf, backing, bus,
  phase, stopped, table, verdict, chan, shutdown,
  \* WireproxyRunner
  wPc, wProcs, wClosing, wCloser, wCanceled, wListener, tun, wVerdict, wEvents,
  wAimed, wWaiter, wSnapshot, wTodo,
  \* TailscaleRunner
  pc, tVerdict, procs, closing, closer, tCanceled, listener, node, forward, exit, relay,
  events, aimed, waiter, snapshot, todo, removing, wiped,
  \* PortForwards
  context, tcpRelay, copying, side, watcher, loop, packetConn, sessions, reply, conn, source

service == <<profiles, status, pending, canceled, call, result, conf, backing, bus,
             phase, stopped, table, verdict, chan, shutdown>>
wireguard == <<wPc, wProcs, wClosing, wCloser, wCanceled, wListener, tun, wVerdict, wEvents,
               wAimed, wWaiter, wSnapshot, wTodo>>
tailscale == <<pc, tVerdict, procs, closing, closer, tCanceled, listener, node, forward, exit,
               relay, events, aimed, waiter, snapshot, todo, removing, wiped>>
relays == <<context, tcpRelay, copying, side, watcher, loop, packetConn, sessions, reply,
            conn, source>>

-----------------------------------------------------------------------------

Of(starts) == [s \in starts |-> "p"]

(* Two starts of one Tailscale profile. *)
Service == INSTANCE ServiceLifecycle WITH
  Profiles <- {"p"}, Starts <- {"s1", "s2"}, NoStart <- "none", ProfileOf <- Of({"s1", "s2"}),
  Addresses <- {"a"}, Initial <- [p \in {"p"} |-> [kind |-> "tailscale", bind |-> "a"]],
  Choices <- {}, Capacity <- 1, MayFault <- FALSE

(* One start, which Stop, StopAll and StopAllAndWait meet where they like. *)
WireGuard == INSTANCE WireproxyRunner WITH
  pc <- wPc, procs <- wProcs, closing <- wClosing, closer <- wCloser, canceled <- wCanceled,
  listener <- wListener, verdict <- wVerdict, events <- wEvents, aimed <- wAimed,
  waiter <- wWaiter, snapshot <- wSnapshot, todo <- wTodo,
  Profiles <- {"p"}, Starts <- {"s1"}, NoStart <- "none", ProfileOf <- Of({"s1"}),
  AddressOf <- [s \in {"s1"} |-> "a"], Addresses <- {"a"}, Capacity <- 1

Tailscale == INSTANCE TailscaleRunner WITH
  verdict <- tVerdict, canceled <- tCanceled,
  Profiles <- {"p"}, Starts <- {"s1"}, NoStart <- "none", ProfileOf <- Of({"s1"}),
  Capacity <- 1, Forwards <- 1

(* A TCP connection, and a UDP source that may need a second session. *)
Relays == INSTANCE PortForwards WITH
  canceled <- context, relay <- tcpRelay,
  Conns <- {"c"}, Sources <- {"a"}, Sessions <- {"x1", "x2"}, NoSession <- "none"

ASSUME /\ Service!ServiceAssumption /\ WireGuard!RunnerAssumption
       /\ Tailscale!TailscaleAssumption /\ Relays!ForwardAssumption

Init ==
  /\ moving \in Machines
  /\ Service!Init /\ WireGuard!Init /\ Tailscale!Init /\ Relays!Init

Moves(machine, others) == moving = machine /\ UNCHANGED <<moving, others>>

Next ==
  \/ Moves("service", <<wireguard, tailscale, relays>>) /\ Service!Next
  \/ Moves("wireguard", <<service, tailscale, relays>>) /\ WireGuard!Next
  \/ Moves("tailscale", <<service, wireguard, relays>>) 
     /\ (Tailscale!Runs \/ Tailscale!Stops \/ Tailscale!Waits)
  \/ Moves("relays", <<service, wireguard, tailscale>>) /\ Relays!Next

-----------------------------------------------------------------------------
(* The fairness of each module, for the machine that moves.                 *)

On(machine) == moving = machine

ServiceFairness ==
  /\ \A s \in {"s1", "s2"} :
       /\ WF_service(On("service") /\ Service!Goroutine(s))
       /\ WF_service(On("service") /\ s \in canceled \cup stopped
                     /\ (Service!Abandon(s) \/ Service!Leave(s)))
  /\ \A k \in Service!Kinds : WF_service(On("service") /\ Service!Forward(k))
  /\ WF_service(On("service") /\ Service!Open /\ Service!HandleRuntimeEvent)
  /\ WF_service(On("service") /\ (Service!ShutdownWireguard \/ Service!ShutdownTailscale
                                  \/ Service!ShutdownDone))

WireGuardFairness ==
  /\ WF_wireguard(On("wireguard") /\ WireGuard!Goroutine("s1"))
  /\ WF_wireguard(On("wireguard") /\ wListener["s1"] = "shut" /\ WireGuard!ServeEnds("s1"))
  /\ WF_wireguard(On("wireguard") /\ WireGuard!CloseStep("s1"))
  /\ WF_wireguard(On("wireguard") /\ WireGuard!StopClose("s1"))
  /\ WF_wireguard(On("wireguard") /\ WireGuard!WaiterClose("s1"))
  /\ WF_wireguard(On("wireguard") /\ WireGuard!WaiterWait)
  /\ WF_wireguard(On("wireguard") /\ WireGuard!WaiterReturn)

TailscaleFairness ==
  /\ WF_tailscale(On("tailscale") /\ Tailscale!Goroutine("s1"))
  /\ WF_tailscale(On("tailscale") /\ tCanceled["s1"] /\ Tailscale!Up("s1"))
  /\ WF_tailscale(On("tailscale") /\ listener["s1"] = "shut" /\ Tailscale!ServeEnds("s1"))
  /\ WF_tailscale(On("tailscale") /\ Tailscale!CloseStep("s1"))
  /\ WF_tailscale(On("tailscale") /\ Tailscale!StopClose("s1"))
  /\ WF_tailscale(On("tailscale") /\ Tailscale!WaiterClose("s1"))
  /\ \A i \in Tailscale!Rules :
       /\ WF_tailscale(On("tailscale") /\ forward["s1"][i] = "shut" /\ Tailscale!AcceptFails("s1", i))
       /\ WF_tailscale(On("tailscale") /\ Tailscale!EmitForwardError("s1", i))
  /\ WF_tailscale(On("tailscale") /\ Tailscale!WaiterWait)
  /\ WF_tailscale(On("tailscale") /\ Tailscale!WaiterReturn)

RelayFairness ==
  /\ WF_relays(On("relays") /\ context /\ Relays!DialTarget("c"))
  /\ WF_relays(On("relays") /\ Relays!RelayDone("c"))
  /\ WF_relays(On("relays") /\ Relays!Watcher("c"))
  /\ \A d \in {"client", "target"} :
       WF_relays(On("relays") /\ "closed" \in {side["c"]["client"], side["c"]["target"]}
                 /\ Relays!CopyEnds("c", d))
  /\ WF_relays(On("relays") /\ ~packetConn /\ Relays!ReadFails)
  /\ WF_relays(On("relays") /\ (Relays!Lookup \/ Relays!OpenSession \/ Relays!Write))
  /\ \A x \in {"x1", "x2"} :
       /\ WF_relays(On("relays") /\ conn[x] = "closed" /\ Relays!ReplyEnds(x))
       /\ SF_relays(On("relays") /\ Relays!DeleteSession(x))
  /\ WF_relays(On("relays") /\ Relays!WatchContext)

FairSpec ==
  /\ Init
  /\ [][Next]_<<service, wireguard, tailscale, relays, moving>>
  /\ ServiceFairness /\ WireGuardFairness /\ TailscaleFairness /\ RelayFairness

-----------------------------------------------------------------------------
(* A start that is cancelled comes back, whatever it is waiting for, and    *)
(* Shutdown ends (Service.Disconnect, Delete and Shutdown).                 *)
ServiceReturns == Service!CanceledReturns /\ Service!ShutdownEnds

(* A process that is closed, or cancelled while it starts, leaves its       *)
(* adapter's table, with the relays of its port forwards.                   *)
ProcessesEnd ==
  /\ WireGuard!ClosedEnds /\ WireGuard!CanceledEnds
  /\ Tailscale!ClosedEnds /\ Tailscale!CanceledEnds

(* StopAllAndWait of both adapters returns, whoever closes the processes it *)
(* waits for.                                                               *)
WaitersReturn == WireGuard!WaiterReturns /\ Tailscale!WaiterReturns

(* A forwarded connection does not outlive its process, nor one of its      *)
(* directions the other (relayTCPConn, relayUDP).                           *)
RelaysEnd == Relays!HalfOpenEnds /\ Relays!CanceledEnds /\ Relays!BrokenIsReplaced
=============================================================================
