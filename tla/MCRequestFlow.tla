---------------------------- MODULE MCRequestFlow ----------------------------
(* Small instances of RequestFlow for TLC. *)
EXTENDS RequestFlow, TLC

CONSTANTS a, b, w1, w2

TwoSessions == {a, b}
OnlyA == {a}
TwoWorkers == {w1, w2}
AnyWorker == Permutations(Workers)
TwoAndOne == (a :> 2) @@ (b :> 1)
Three == a :> 3

\* One notify before and one after the response to the second request of a.
AroundSecond == [s : {a}, grid : {2}, kind : Kinds]
NoNotifies == {}
=============================================================================
