---------------------------- MODULE PortForwards ----------------------------
(***************************************************************************)
(* What runs behind the port forwards of a Tailscale process: a relay      *)
(* goroutine with two copy loops and a watcher for each TCP connection,    *)
(* and for each UDP forward a read loop that opens a session per source,   *)
(* with a reply loop and a watcher of its own.  Everything ends when the   *)
(* context of the process is cancelled, or by itself.                      *)
(***************************************************************************)
EXTENDS Naturals

CONSTANTS
  Conns,      \* accepted TCP connections
  Sources,    \* UDP source addresses
  Sessions,   \* UDP sessions (bounds how many are ever opened)
  NoSession

(* What an instance has to assume of the constants. *)
ForwardAssumption == NoSession \notin Sessions

VARIABLES
  canceled,   \* the context of the process
  relay,      \* relayTCPConn of each connection
  copying,    \* its two copy loops, named by what they read
  side,       \* both ends of it
  watcher,    \* its goroutine that waits for the context or for done
  loop,       \* the UDP read loop: what it does, for whom
  packetConn, \* is it open
  sessions,   \* the map, by source
  reply,      \* the reply loop of each session
  conn,       \* the target connection of each session
  source      \* the source it was opened for

tcp == <<relay, copying, side, watcher>>
udp == <<loop, packetConn, sessions, reply, conn, source>>
vars == <<canceled, tcp, udp>>

Sides == {"client", "target"}
Other(d) == IF d = "client" THEN "target" ELSE "client"

TypeOK ==
  /\ canceled \in BOOLEAN
  /\ relay \in [Conns -> {"none", "dial", "wait", "done"}]
  /\ copying \in [Conns -> [Sides -> {"none", "copy", "ended"}]]
  /\ side \in [Conns -> [Sides -> {"none", "open", "closed"}]]
  /\ watcher \in [Conns -> {"none", "wait", "ended"}]
  /\ loop \in [at : {"read", "lookup", "dial", "write", "ended"},
               from : Sources \cup {NoSession}, to : Sessions \cup {NoSession}]
  /\ packetConn \in BOOLEAN
  /\ sessions \in [Sources -> Sessions \cup {NoSession}]
  /\ reply \in [Sessions -> {"none", "read", "delete", "gone"}]
  /\ conn \in [Sessions -> {"none", "open", "closed"}]
  /\ source \in [Sessions -> Sources \cup {NoSession}]

Reading == [at |-> "read", from |-> NoSession, to |-> NoSession]

Init ==
  /\ canceled = FALSE
  /\ relay = [c \in Conns |-> "none"]
  /\ copying = [c \in Conns |-> [d \in Sides |-> "none"]]
  /\ side = [c \in Conns |-> [d \in Sides |-> "none"]]
  /\ watcher = [c \in Conns |-> "none"]
  /\ loop = Reading
  /\ packetConn = TRUE
  /\ sessions = [a \in Sources |-> NoSession]
  /\ reply = [x \in Sessions |-> "none"]
  /\ conn = [x \in Sessions |-> "none"]
  /\ source = [x \in Sessions |-> NoSession]

-----------------------------------------------------------------------------
(* A TCP connection. *)

Accept(c) ==
  /\ relay[c] = "none"
  /\ relay' = [relay EXCEPT ![c] = "dial"]
  /\ side' = [side EXCEPT ![c]["client"] = "open"]
  /\ UNCHANGED <<canceled, copying, watcher, udp>>

(* The target answers, or the connection is closed again. *)
DialTarget(c) ==
  /\ relay[c] = "dial"
  /\ \/ /\ ~canceled
        /\ relay' = [relay EXCEPT ![c] = "wait"]
        /\ side' = [side EXCEPT ![c]["target"] = "open"]
        /\ copying' = [copying EXCEPT ![c] = [d \in Sides |-> "copy"]]
        /\ watcher' = [watcher EXCEPT ![c] = "wait"]
     \/ /\ relay' = [relay EXCEPT ![c] = "done"]
        /\ side' = [side EXCEPT ![c]["client"] = "closed"]
        /\ UNCHANGED <<copying, watcher>>
  /\ UNCHANGED <<canceled, udp>>

(* Mutant: a copy loop that ends leaves the other direction alone. *)
CopyEndsAlone(c, d) ==
  /\ copying[c][d] = "copy"
  /\ copying' = [copying EXCEPT ![c][d] = "ended"]
  /\ UNCHANGED <<canceled, relay, side, watcher, udp>>

(* io.Copy from one side ends, by itself or because an end was closed; the  *)
(* side it wrote to is closed, which ends the other copy.                   *)
CopyEnds(c, d) ==
  /\ copying[c][d] = "copy"
  /\ copying' = [copying EXCEPT ![c][d] = "ended"]
  /\ side' = [side EXCEPT ![c][Other(d)] = "closed"]
  /\ UNCHANGED <<canceled, relay, watcher, udp>>

RelayDone(c) ==
  /\ relay[c] = "wait"
  /\ \A d \in Sides : copying[c][d] = "ended"
  /\ relay' = [relay EXCEPT ![c] = "done"]
  /\ side' = [side EXCEPT ![c] = [d \in Sides |-> "closed"]]
  /\ UNCHANGED <<canceled, copying, watcher, udp>>

Watcher(c) ==
  /\ watcher[c] = "wait" /\ (canceled \/ relay[c] = "done")
  /\ watcher' = [watcher EXCEPT ![c] = "ended"]
  /\ side' = IF canceled THEN [side EXCEPT ![c] = [d \in Sides |-> "closed"]] ELSE side
  /\ UNCHANGED <<canceled, relay, copying, udp>>

-----------------------------------------------------------------------------
(* The UDP read loop; from "lookup" to "write" it holds mu. *)

Locked == loop.at \in {"lookup", "dial"}

ReadFrom(a) ==
  /\ loop.at = "read" /\ packetConn
  /\ loop' = [loop EXCEPT !.at = "lookup", !.from = a]
  /\ UNCHANGED <<canceled, tcp, packetConn, sessions, reply, conn, source>>

ReadFails ==
  /\ loop.at = "read"
  /\ loop' = [loop EXCEPT !.at = "ended"]
  /\ UNCHANGED <<canceled, tcp, packetConn, sessions, reply, conn, source>>

Lookup ==
  /\ loop.at = "lookup"
  /\ loop' = IF sessions[loop.from] = NoSession
             THEN [loop EXCEPT !.at = "dial"]
             ELSE [loop EXCEPT !.at = "write", !.to = sessions[loop.from]]
  /\ UNCHANGED <<canceled, tcp, packetConn, sessions, reply, conn, source>>

(* A new session, or the datagram is dropped. *)
OpenSession ==
  /\ loop.at = "dial"
  /\ \/ \E x \in Sessions :
          /\ reply[x] = "none" /\ ~canceled
          /\ loop' = [loop EXCEPT !.at = "write", !.to = x]
          /\ sessions' = [sessions EXCEPT ![loop.from] = x]
          /\ reply' = [reply EXCEPT ![x] = "read"]
          /\ conn' = [conn EXCEPT ![x] = "open"]
          /\ source' = [source EXCEPT ![x] = loop.from]
     \/ /\ loop' = Reading
        /\ UNCHANGED <<sessions, reply, conn, source>>
  /\ UNCHANGED <<canceled, tcp, packetConn>>

(* The datagram goes out, or is lost if the session has been closed. *)
Write ==
  /\ loop.at = "write"
  /\ loop' = Reading
  /\ UNCHANGED <<canceled, tcp, packetConn, sessions, reply, conn, source>>

(* Mutant: the entry is deleted first, the connection closed afterwards. *)
ReplyDeletesFirst(x) ==
  /\ reply[x] = "read" /\ ~Locked
  /\ sessions' = [sessions EXCEPT ![source[x]] = NoSession]
  /\ reply' = [reply EXCEPT ![x] = "delete"]
  /\ UNCHANGED <<canceled, tcp, loop, packetConn, conn, source>>

(* The reply loop ends: its connection was closed, or reading it failed     *)
(* (the target refused a datagram), or the context is cancelled.            *)
ReplyEnds(x) ==
  /\ reply[x] = "read"
  /\ reply' = [reply EXCEPT ![x] = "delete"]
  /\ conn' = [conn EXCEPT ![x] = "closed"]
  /\ UNCHANGED <<canceled, tcp, loop, packetConn, sessions, source>>

DeleteSession(x) ==
  /\ reply[x] = "delete" /\ ~Locked
  /\ reply' = [reply EXCEPT ![x] = "gone"]
  /\ sessions' = [sessions EXCEPT ![source[x]] = NoSession]
  /\ UNCHANGED <<canceled, tcp, loop, packetConn, conn, source>>

(* The goroutines that wait for the context, of the forward and of sessions. *)
WatchContext ==
  /\ canceled
  /\ \/ /\ packetConn
        /\ packetConn' = FALSE
        /\ UNCHANGED conn
     \/ \E x \in Sessions :
          /\ conn[x] = "open"
          /\ conn' = [conn EXCEPT ![x] = "closed"]
          /\ UNCHANGED packetConn
  /\ UNCHANGED <<canceled, tcp, loop, sessions, reply, source>>

Cancel ==
  /\ ~canceled
  /\ canceled' = TRUE
  /\ UNCHANGED <<tcp, udp>>

-----------------------------------------------------------------------------

Next ==
  \/ \E c \in Conns :
       \/ Accept(c) \/ DialTarget(c) \/ RelayDone(c) \/ Watcher(c)
       \/ \E d \in Sides : CopyEnds(c, d)
  \/ \E a \in Sources : ReadFrom(a)
  \/ ReadFails \/ Lookup \/ OpenSession \/ Write
  \/ \E x \in Sessions : ReplyEnds(x) \/ DeleteSession(x)
  \/ WatchContext \/ Cancel

Spec == Init /\ [][Next]_vars

(* Goroutines run; a call on a closed connection returns, a dial is ended   *)
(* by the context, and nothing else has to happen.  Deleting a session      *)
(* competes with the read loop for mu.                                      *)
Fairness ==
  /\ \A c \in Conns :
       /\ WF_vars(canceled /\ DialTarget(c))
       /\ WF_vars(RelayDone(c))
       /\ WF_vars(Watcher(c))
       /\ \A d \in Sides :
            WF_vars("closed" \in {side[c]["client"], side[c]["target"]} /\ CopyEnds(c, d))
  /\ WF_vars(~packetConn /\ ReadFails)
  /\ WF_vars(Lookup \/ OpenSession \/ Write)
  /\ \A x \in Sessions :
       /\ WF_vars(conn[x] = "closed" /\ ReplyEnds(x))
       /\ SF_vars(DeleteSession(x))
  /\ WF_vars(WatchContext)

FairSpec == Spec /\ Fairness

-----------------------------------------------------------------------------
(* Properties. *)

(* A source never has two connections to the target open at once, whatever  *)
(* its reply loop was doing when the next datagram arrived: the target sees *)
(* one client, and replies come back over the session that asked.           *)
OneSessionPerSource ==
  \A x, y \in Sessions :
    conn[x] = "open" /\ conn[y] = "open" /\ source[x] = source[y] => x = y

(* The map forgets a session only when it is over, and remembers no other:  *)
(* the next datagram of a source finds the open session if there is one.    *)
MapIsOpen ==
  \A x \in Sessions :
    (reply[x] \in {"read", "delete"}) <=> \E a \in Sources : sessions[a] = x

(* A TCP relay that is over has closed both of its ends. *)
RelayIsClosed ==
  \A c \in Conns : relay[c] = "done" => \A d \in Sides : side[c][d] # "open"

(* One direction that ends takes the whole connection with it, watcher      *)
(* included, without any help of a disconnect: no goroutine piles up.       *)
HalfOpenEnds ==
  \A c \in Conns : (\E d \in Sides : copying[c][d] = "ended") ~>
                     (relay[c] = "done" /\ watcher[c] = "ended")

(* After a disconnect nothing of the forwards is left. *)
CanceledEnds ==
  canceled ~>
    /\ \A c \in Conns : relay[c] = "none" \/ (relay[c] = "done" /\ watcher[c] # "wait")
    /\ \A x \in Sessions : reply[x] \in {"none", "gone"}
    /\ loop.at = "ended"

(* A source whose session broke is served again. *)
BrokenIsReplaced ==
  \A x \in Sessions : (conn[x] = "closed") ~> (\A a \in Sources : sessions[a] # x)

(* The safety of the relays, TCP and UDP. *)
RelaysAreWhole == OneSessionPerSource /\ MapIsOpen /\ RelayIsClosed

-----------------------------------------------------------------------------
(* The inductive invariant behind it. *)

(* Nothing is opened or copied for a connection that was not dialled. *)
DialInv(c) ==
  relay[c] \in {"none", "dial"} =>
    /\ side[c]["target"] = "none" /\ watcher[c] = "none"
    /\ \A d \in Sides : copying[c][d] = "none"

(* A session is in the map from the moment it is opened until its reply     *)
(* loop has deleted it, and open at most that long.                         *)
Mapped(x) == reply[x] \in {"read", "delete"}

SessionInv ==
  /\ \A x \in Sessions : Mapped(x) => source[x] \in Sources /\ sessions[source[x]] = x
  /\ \A a \in Sources : sessions[a] # NoSession => source[sessions[a]] = a /\ Mapped(sessions[a])
  /\ \A x \in Sessions : conn[x] = "open" => reply[x] = "read"

(* The read loop dials for a source that has no session. *)
LoopInv ==
  /\ loop.at \in {"lookup", "dial"} => loop.from \in Sources
  /\ loop.at = "dial" => sessions[loop.from] = NoSession

RelayInv == TypeOK /\ (\A c \in Conns : DialInv(c)) /\ RelayIsClosed /\ SessionInv /\ LoopInv

=============================================================================
