------------------------- MODULE MCWireproxyRunner -------------------------
(***************************************************************************)
(* Two starts of one profile on one SOCKS5 address: a reconnect that       *)
(* overtakes the disconnect.                                               *)
(***************************************************************************)
EXTENDS WireproxyRunner, TLC

CONSTANTS s1, s2, p1, p2, a1

Reconnect == [s \in Starts |-> p1]
SameAddress == [s \in Starts |-> a1]

(* Both starts are for one profile and one address: they are symmetric. *)
Interchangeable == Permutations(Starts)
=============================================================================
