----------------------------- MODULE MCUpstream -----------------------------
(* Small instances of Upstream for TLC. *)
EXTENDS Upstream, TLC

CONSTANTS s1, s2, u1, v1

\* A user who comes back with a second session.
OldAndNew == {s1, s2}
OneUser == [s \in OldAndNew |-> u1]
Most ==
  (s1 :> {"hello", "logout", "broadcast", "before", "echo"}) @@ (s2 :> {"after", "time"})

AllServices == {"hello", "business", "zone"}
AtOneServer == [t \in AllServices |-> v1]
=============================================================================
