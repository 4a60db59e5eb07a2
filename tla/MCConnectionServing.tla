------------------------ MODULE MCConnectionServing ------------------------
(* Small instances of ConnectionServing for TLC. *)
EXTENDS ConnectionServing

CONSTANTS c1, c2

TwoConns == {c1, c2}
ThreeAndNone == [c \in TwoConns |-> IF c = c1 THEN 3 ELSE 0]
=============================================================================
