------------------------- MODULE MCServiceLifecycle -------------------------
(***************************************************************************)
(* One profile that is connected again and again, whose adapter and SOCKS5 *)
(* address may be edited in between.                                       *)
(***************************************************************************)
EXTENDS ServiceLifecycle, TLC

CONSTANTS s1, s2, s3, p1, a1, a2

OneProfile == [s \in Starts |-> p1]

WireGuardAt(a) == [kind |-> "wireguard", bind |-> a]
TailscaleAt(a) == [kind |-> "tailscale", bind |-> a]

OneWireGuard == [p \in Profiles |-> IF p = p1 THEN WireGuardAt(a1) ELSE Unborn]
OneTailscale == [p \in Profiles |-> IF p = p1 THEN TailscaleAt(a1) ELSE Unborn]
NoneYet == [p \in Profiles |-> Unborn]
=============================================================================
