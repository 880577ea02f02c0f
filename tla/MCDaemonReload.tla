--------------------------- MODULE MCDaemonReload ---------------------------
EXTENDS DaemonReload, TLC

CONSTANTS p, a, b

Profile(bind, auto) == [bind |-> bind, auto |-> auto]

(* p comes, goes, moves, and stops connecting by itself. *)
OneProfile == {
  p :> Profile(a, TRUE),
  p :> Profile(b, TRUE),
  p :> Profile(a, FALSE),
  p :> Absent,
  Malformed}
=============================================================================
