--------------------------- MODULE OrderedDelivery ---------------------------
(***************************************************************************)
(* What the ordered send path promises the client of one session: numbers  *)
(* appear on the stream for the first time in increasing order, a number   *)
(* may be repeated while it is open, and once it is settled (acknowledged, *)
(* given up, or the session stopped) it never appears again.               *)
(* Abstract counterpart of internal/session/ordered_queue.go.              *)
(***************************************************************************)
EXTENDS Integers, Sequences

VARIABLES
  out,    \* the numbers written to the stream, in order
  open    \* the numbers that may be written again

delivery == <<out, open>>

DeliveryInit == out = <<>> /\ open = {}

\* The stream only grows; Fresh are the positions of this step's writes.
Grows ==
  /\ out' \in Seq(Nat)
  /\ Len(out) <= Len(out')
  /\ \A i \in 1..Len(out) : out'[i] = out[i]

Fresh == (Len(out) + 1)..Len(out')

\* Numbers never written before, each above everything in front of it.
Deliver ==
  /\ Grows
  /\ \A i \in Fresh : \A k \in 1..(i - 1) : out'[k] < out'[i]
  /\ open' = open \cup {out'[i] : i \in Fresh}

Repeat ==
  /\ Grows
  /\ \A i \in Fresh : out'[i] \in open
  /\ open' = open

Settle == open' \subseteq open /\ out' = out

DeliveryNext == Deliver \/ Repeat \/ Settle

DeliverySpec == DeliveryInit /\ [][DeliveryNext]_delivery
=============================================================================
