-------------------------- MODULE MCSessionHandover --------------------------
(* Small instances of SessionHandover for TLC. *)
EXTENDS SessionHandover, TLC

CONSTANTS conn, push

MCSenders == {conn, push}
NoFaults == {}

(***************************************************************************)
(* What tells states apart in the safety run.  The order of the streams    *)
(* and the record of refused and dropped numbers are read by no property   *)
(* of that run; and once the old session is copied, only what it wrote and *)
(* what the client acknowledged there.                                     *)
(***************************************************************************)
Counted(w) == [s \in Seqs |-> Cardinality({i \in DOMAIN w : w[i] = s})]

HandoverView ==
  <<serverSeq, held, queueVars, ackVars, linkUp, Counted(wire), startSeq \in refused,
    clientAck, phase, inherited, inFlight, landed, startSeq,
    Counted(oldWire), oldLastAcked,
    oldSeq = inherited,
    IF Before("copied") THEN <<oldSeq, oldHeld, oldQueue, oldLink, oldAcking>> ELSE <<>> >>
=============================================================================
