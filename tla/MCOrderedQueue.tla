--------------------------- MODULE MCOrderedQueue ---------------------------
(* Small instances of OrderedQueue for TLC. *)
EXTENDS OrderedQueue, TLC

CONSTANTS s1, s2, s3

MCSenders3 == {s1, s2, s3}
AnySender == Permutations(Senders)

AllFaults == {"encode", "expiry", "start", "link"}
NoFaults == {}
=============================================================================
