--------------------------- MODULE MCSessionIndex ---------------------------
(* Small instances of SessionIndex for TLC. *)
EXTENDS SessionIndex

CONSTANTS c1, c2, u1, u2

TwoConnections == {c1, c2}
TwoUsers == {u1, u2}
=============================================================================
