----------------------------- MODULE MCFailover -----------------------------
(* Small instances of Failover for TLC. *)
EXTENDS Failover

CONSTANT o1

OneOperator == {o1}
=============================================================================
