---------------------------- MODULE OrderedQueue ----------------------------
(***************************************************************************)
(* The ordered send path of one gateway session                            *)
(* (internal/session/ordered_queue.go, internal/gateway/ordered_sender.go, *)
(* the ACK and START handlers of internal/gateway/handlers.go).            *)
(*                                                                         *)
(* Every goroutine that answers or notifies a client (a Sender) draws a    *)
(* server sequence number with an atomic add, encodes its message, and     *)
(* only then takes the queue's mutex: numbers may reach the queue in any   *)
(* order.  The queue writes them to the QUIC stream in numeric order,      *)
(* parks those that arrive early, keeps what it wrote until the client     *)
(* acknowledges it, and rewrites it a bounded number of times.             *)
(*                                                                         *)
(* One action is one critical section of queueMux.  A message is its       *)
(* number.  Time is abstracted: which messages are past a timeout is a     *)
(* choice.  A stream write fails for good once the connection is lost or   *)
(* the session is marked closed (linkUp = FALSE).                          *)
(***************************************************************************)
EXTENDS Integers, FiniteSets, Sequences, SequencesExt

CONSTANTS
  Senders,       \* goroutines that call SendOrderedMessage
  MaxSeq,        \* bound of the model: highest number drawn in a session
  MaxQueueSize,  \* capacity of the waiting heap (1000 in manager.go)
  MaxRetries,    \* MaxRetries (3 in ordered_queue.go)
  Faults         \* which environment faults may occur, see FaultKinds

(***************************************************************************)
(* "encode": a push above MaxMessageSize is rejected after it got a number *)
(* "expiry": a message waits longer than MessageTimeout                    *)
(* "start" : the client's START names an acknowledged number of an earlier *)
(*           session, which this (fresh) session never sent                *)
(* "link"  : the connection is lost, or the session is marked closed       *)
(***************************************************************************)
FaultKinds == {"encode", "expiry", "start", "link"}

ASSUME QueueAssumption ==
  /\ MaxSeq \in Nat \ {0}
  /\ MaxQueueSize \in Nat
  /\ MaxRetries \in Nat
  /\ Faults \subseteq FaultKinds

Seqs == 1..MaxSeq
None == 0

VARIABLES
  serverSeq,   \* Session.serverSeq: the last number drawn
  held,        \* per sender: the number it drew and has not enqueued, or None
  next,        \* nextExpectedSeq
  lastSent,    \* lastSentSeq
  lastAcked,   \* lastAckedSeq
  waiting,     \* waitingQueue, a heap ordered by number: the set of its numbers
  sent,        \* keys of sentMessages: written, not acknowledged
  retries,     \* Retries of the messages in sent
  stopped,     \* OrderedMessageQueue.stopped
  linkUp,      \* the send callback can still write to the stream
  acking,      \* ACK value between AckMessagesUpTo and ResyncSequence, or None
  startAck,    \* LastAckedSeqId of the client's START, None before it
  wire,        \* history: every number written to the stream, in order
  refused,     \* history: numbers whose SendOrderedMessage returned an error
  dropped      \* history: numbers that left waiting without being written

vars == <<serverSeq, held, next, lastSent, lastAcked, waiting, sent, retries,
          stopped, linkUp, acking, startAck, wire, refused, dropped>>

queueVars == <<next, lastSent, lastAcked, waiting, sent, retries, stopped>>
ackVars   == <<acking, startAck>>

Held == {held[p] : p \in Senders} \ {None}
OnWire == ToSet(wire)
Larger(a, b) == IF a < b THEN b ELSE a

-----------------------------------------------------------------------------
\* NewOrderedMessageQueue and a session with no message sent yet.
Init ==
  /\ serverSeq = 0
  /\ held = [p \in Senders |-> None]
  /\ next = 1 /\ lastSent = 0 /\ lastAcked = 0
  /\ waiting = {} /\ sent = {}
  /\ retries = [s \in Seqs |-> 0]
  /\ stopped = FALSE /\ linkUp = TRUE
  /\ acking = None /\ startAck = None
  /\ wire = <<>> /\ refused = {} /\ dropped = {}

-----------------------------------------------------------------------------
(* Senders: SendOrderedMessage                                             *)

\* The sender draws its number: atomic, outside the queue's mutex.
NewServerSeq(p) ==
  /\ held[p] = None
  /\ serverSeq < MaxSeq
  /\ serverSeq' = serverSeq + 1
  /\ held' = [held EXCEPT ![p] = serverSeq + 1]
  /\ UNCHANGED <<queueVars, ackVars, linkUp, wire, refused, dropped>>

\* SendOrderedMessage returns an error: the number is gone for good.
Refuse(p) ==
  /\ refused' = refused \cup {held[p]}
  /\ held' = [held EXCEPT ![p] = None]
  /\ UNCHANGED <<serverSeq, queueVars, ackVars, linkUp, wire, dropped>>

\* EncodeServerPush rejects the message.
EncodeFails(p) ==
  /\ held[p] # None
  /\ "encode" \in Faults
  /\ Refuse(p)

\* EnqueueMessage takes no message once stopped, or when the heap is full,
\* even the one message the queue is waiting for.
Accepts_NoLimit == ~stopped
Accepts == ~stopped /\ Cardinality(waiting) < MaxQueueSize

EnqueueRefused(p) ==
  /\ held[p] # None
  /\ \/ ~Accepts
     \/ held[p] < next
     \/ held[p] = next /\ ~linkUp
  /\ Refuse(p)

\* The numbers first, first + 1, ..., last as they go to the stream.
Run(first, last) == [k \in 1..(last - first + 1) |-> first + k - 1]

\* The message is due: write it, then processWaitingMessages pops and writes
\* the consecutive numbers parked behind it.  It stops before a number that
\* is still parked only when that write failed.
Due(s) == s = next

DrainTo_None(first, last) == last = first /\ linkUp' = TRUE
DrainTo(first, last) ==
  /\ (first + 1)..last \subseteq waiting
  /\ linkUp' = (last + 1 \notin waiting)
  /\ linkUp' \/ "link" \in Faults

\* What is parked after the drain; a message whose write failed is put back.
ParkedAfter_Popped(first, last) == waiting \ first..(last + 1)
ParkedAfter(first, last) == waiting \ first..last

EnqueueSends(p) ==
  /\ held[p] # None
  /\ Accepts
  /\ Due(held[p])
  /\ linkUp
  /\ \E last \in held[p]..MaxSeq :
       /\ DrainTo(held[p], last)
       /\ wire' = wire \o Run(held[p], last)
       /\ sent' = sent \cup held[p]..last
       /\ retries' = [s \in Seqs |-> IF s \in held[p]..last THEN 0 ELSE retries[s]]
       /\ waiting' = ParkedAfter(held[p], last)
       /\ next' = last + 1
       /\ lastSent' = last
  /\ held' = [held EXCEPT ![p] = None]
  /\ UNCHANGED <<serverSeq, lastAcked, stopped, ackVars, refused, dropped>>

\* A number ahead of the next expected one is parked.
EnqueueParks(p) ==
  /\ held[p] > next
  /\ Accepts
  /\ waiting' = waiting \cup {held[p]}
  /\ held' = [held EXCEPT ![p] = None]
  /\ UNCHANGED <<serverSeq, next, lastSent, lastAcked, sent, retries, stopped,
                 ackVars, linkUp, wire, refused, dropped>>

EnqueueMessage(p) == EnqueueRefused(p) \/ EnqueueSends(p) \/ EnqueueParks(p)

-----------------------------------------------------------------------------
(* The connection goroutine: ACK and START                                 *)

\* Batch acknowledgement, the first of the two critical sections.
Covered_Below(s, a) == s < a
Covered_Only(s, a) == s = a
Covered(s, a) == s <= a

AckMessagesUpTo(a) ==
  /\ acking = None
  /\ sent' = {s \in sent : ~Covered(s, a)}
  /\ lastAcked' = Larger(lastAcked, a)
  /\ acking' = a
  /\ UNCHANGED <<serverSeq, held, next, lastSent, waiting, retries, stopped,
                 linkUp, wire, refused, dropped>>

\* handleAck: the client acknowledges a number it received (or did earlier).
HandleAck ==
  \E a \in OnWire : AckMessagesUpTo(a) /\ UNCHANGED startAck

\* handleStartSync with LastAckedSeqId > 0 in a session that inherited
\* nothing: the client remembers an earlier session.
HandleStart ==
  /\ "start" \in Faults
  /\ startAck = None
  /\ \E a \in Seqs : AckMessagesUpTo(a) /\ startAck' = a

\* The second critical section.  An acknowledgement beyond the expected
\* number moves the expected number past it and forgets what is parked below;
\* what is parked right above stays parked.
ResyncNext(a) == IF a >= next THEN a + 1 ELSE next

ResyncSequence ==
  /\ acking # None
  /\ sent' = {s \in sent : ~Covered(s, acking)}
  /\ next' = ResyncNext(acking)
  /\ lastSent' = IF acking >= next THEN acking ELSE lastSent
  /\ LET passed == {s \in waiting : acking >= next /\ s <= acking}
     IN /\ waiting' = waiting \ passed
        /\ dropped' = dropped \cup passed
  /\ lastAcked' = Larger(lastAcked, acking)
  /\ acking' = None
  /\ UNCHANGED <<serverSeq, held, retries, stopped, startAck, linkUp, wire, refused>>

-----------------------------------------------------------------------------
(* The cleanup goroutine: two critical sections every CleanupInterval      *)

\* A written message is forgotten once it was rewritten MaxRetries times.
Exhausted_Beyond(s) == retries[s] > MaxRetries
Exhausted(s) == retries[s] >= MaxRetries

CleanupExpiredMessages ==
  \E forgotten \in SUBSET {s \in sent : Exhausted(s)},
     overdue \in SUBSET {s \in waiting : "expiry" \in Faults} :
    /\ forgotten \cup overdue # {}
    /\ sent' = sent \ forgotten
    /\ waiting' = waiting \ overdue
    /\ dropped' = dropped \cup overdue
    /\ UNCHANGED <<serverSeq, held, next, lastSent, lastAcked, retries, stopped,
                   ackVars, linkUp, wire, refused>>

\* The timed-out messages are rewritten in the map's random order; those the
\* callback could not write keep their state.
Retriable_Settled(s) == s \in OnWire /\ retries[s] < MaxRetries
Retriable(s) == s \in sent /\ retries[s] < MaxRetries

Batches(S) == {b \in SeqOf(S, MaxSeq) \ {<<>>} : IsInjective(b)}

RetryTimedOutMessages ==
  /\ linkUp
  /\ \E batch \in Batches({s \in Seqs : Retriable(s)}) :
       /\ wire' = wire \o batch
       /\ retries' = [s \in Seqs |-> IF s \in ToSet(batch) THEN retries[s] + 1
                                     ELSE retries[s]]
  /\ UNCHANGED <<serverSeq, held, next, lastSent, lastAcked, waiting, sent,
                 stopped, ackVars, linkUp, refused, dropped>>

-----------------------------------------------------------------------------
(* The end of a session                                                    *)

\* The connection is lost, or SetClosed makes the send callback refuse.
LinkDown ==
  /\ linkUp /\ "link" \in Faults
  /\ linkUp' = FALSE
  /\ UNCHANGED <<serverSeq, held, queueVars, ackVars, wire, refused, dropped>>

\* Session.Close stops the queue after it marked the session closed.
Stop ==
  /\ ~linkUp /\ ~stopped
  /\ stopped' = TRUE
  /\ waiting' = {} /\ sent' = {}
  /\ dropped' = dropped \cup waiting
  /\ UNCHANGED <<serverSeq, held, next, lastSent, lastAcked, retries, ackVars,
                 linkUp, wire, refused>>

-----------------------------------------------------------------------------
Next ==
  \/ \E p \in Senders : NewServerSeq(p) \/ EncodeFails(p) \/ EnqueueMessage(p)
  \/ HandleAck \/ HandleStart \/ ResyncSequence
  \/ CleanupExpiredMessages \/ RetryTimedOutMessages
  \/ LinkDown \/ Stop

Spec == Init /\ [][Next]_vars

\* A goroutine that drew a number goes on to enqueue it, the connection
\* goroutine finishes the handler it is in, and the ticker of cleanupLoop fires
\* for ever.  Nothing obliges a client to acknowledge or a new message to come.
Fairness ==
  /\ \A p \in Senders : WF_vars(EnqueueMessage(p))
  /\ WF_vars(ResyncSequence)
  /\ WF_vars(CleanupExpiredMessages)
  /\ WF_vars(RetryTimedOutMessages)

FairSpec == Spec /\ Fairness

-----------------------------------------------------------------------------
(* Properties                                                              *)

\* Types, and the heap within the capacity EnqueueMessage checks before a push.
TypeOK ==
  /\ serverSeq \in 0..MaxSeq
  /\ held \in [Senders -> 0..MaxSeq]
  /\ next \in 1..(MaxSeq + 1)
  /\ lastSent \in 0..MaxSeq /\ lastAcked \in 0..MaxSeq
  /\ waiting \subseteq Seqs /\ Cardinality(waiting) <= MaxQueueSize
  /\ sent \subseteq Seqs
  /\ retries \in [Seqs -> 0..MaxRetries]
  /\ stopped \in BOOLEAN /\ linkUp \in BOOLEAN
  /\ acking \in 0..MaxSeq /\ startAck \in 0..MaxSeq
  /\ wire \in Seq(Seqs)
  /\ refused \subseteq Seqs /\ dropped \subseteq Seqs

\* Whatever order the senders reach the queue in, and however acknowledgements,
\* rewrites and the cleanup interleave with them, a number written for the first
\* time is larger than every number written before it.
InOrder ==
  \A i \in DOMAIN wire :
    (\A k \in 1..(i - 1) : wire[k] # wire[i]) =>
      \A k \in 1..(i - 1) : wire[k] < wire[i]

\* The client never sees a number while a smaller one is missing, unless its own
\* START claimed to have that one.
NoGap ==
  \A i \in DOMAIN wire : \A s \in 1..(wire[i] - 1) :
    s <= startAck \/ \E k \in 1..(i - 1) : wire[k] = s

\* What is kept for rewriting was written and is not acknowledged.  Between the
\* two critical sections of an ACK a number it covers may still be written and
\* kept: ResyncSequence then removes it.
SentWindow ==
  \A s \in sent :
    /\ s \in OnWire
    /\ s < next
    /\ lastAcked < s \/ s <= acking

Writes(s) == Cardinality({i \in DOMAIN wire : wire[i] = s})

\* The five fates of a number: with its sender, parked, written, refused (the
\* sender got an error) or dropped.
Fates == <<Held, waiting, OnWire, refused, dropped>>

\* Every number drawn has exactly one fate: an error is never reported for a
\* message the client gets, and no message vanishes.
OneFate ==
  \A s \in 1..serverSeq :
    Cardinality({i \in DOMAIN Fates : s \in Fates[i]}) = 1

\* Without faults a parked message waits for a number that a running goroutine
\* is about to enqueue.
GapIsInFlight == linkUp /\ waiting # {} => next \in Held

\* The cleanup goroutine never rewrites a number the client has acknowledged
\* (one covered by an ACK still being applied excepted).
NoRewriteOfAcked ==
  [][\A i \in (Len(wire) + 1)..Len(wire') :
       wire'[i] > lastAcked \/ wire'[i] <= acking]_vars

\* A parked message is written, unless the session ends.
ParkedIsSent ==
  \A s \in Seqs : s \in waiting ~> (s \in OnWire \/ ~linkUp)

\* A written message is not kept for ever while the session lives, even if the
\* client never acknowledges it.
KeptIsSettled ==
  \A s \in Seqs : s \in sent ~> (s \notin sent \/ ~linkUp)

\* The inductive invariant behind InOrder, NoGap and SentWindow: everything
\* written is below the expected number, everything below the expected number
\* was written or claimed by the START, an ACK being applied names a written
\* number or the one of the START, and only such an ACK reaches the expected number.
Frontier ==
  /\ \A i \in DOMAIN wire : wire[i] < next
  /\ \A s \in 1..(next - 1) : s <= startAck \/ s \in OnWire
  /\ acking # None => acking \in OnWire \/ acking = startAck
  /\ lastAcked < next \/ lastAcked = acking
  /\ lastSent = next - 1

IInv == TypeOK /\ Frontier /\ SentWindow /\ InOrder /\ NoGap

\* The inductive invariant behind OneFate: no two of the five hold one number, no
\* two senders hold the same one, and only numbers that were drawn are anywhere.
Apart ==
  /\ \A p, q \in Senders : held[p] = held[q] /\ held[p] # None => p = q
  /\ Held \cap (waiting \cup OnWire \cup refused \cup dropped) = {}
  /\ waiting \cap (OnWire \cup refused \cup dropped) = {}
  /\ OnWire \cap (refused \cup dropped) = {}
  /\ refused \cap dropped = {}
  /\ Held \cup waiting \cup OnWire \cup refused \cup dropped = 1..serverSeq

\* No fault can occur and the heap holds every number of the session.
FaultFree == Faults = {} /\ MaxQueueSize >= MaxSeq

\* The inductive invariant behind GapIsInFlight in a fault-free session: every
\* number drawn is written, parked or with exactly one sender, and what is parked
\* is ahead of the number the queue is waiting for.
Undisturbed ==
  /\ linkUp /\ ~stopped /\ startAck = None
  /\ next <= serverSeq + 1
  /\ \A s \in 1..serverSeq : s < next \/ s \in waiting \/ \E p \in Senders : held[p] = s
  /\ \A s \in waiting : next < s /\ s <= serverSeq
  /\ \A p \in Senders : held[p] # None =>
       /\ next <= held[p] /\ held[p] <= serverSeq
       /\ held[p] \notin waiting
       /\ \A q \in Senders \ {p} : held[q] # held[p]

\* The books of message s when an earlier session wrote it n times: what is kept
\* was rewritten as often as Retries says, and never more often than MaxRetries.
CountedFrom(s, n) ==
  /\ s \in sent => n + Writes(s) = retries[s] + 1
  /\ n + Writes(s) <= MaxRetries + 1

\* Why a message that was written is no longer kept.
SettledFrom(s, n) ==
  s \in sent \/ s <= lastAcked \/ n + Writes(s) = MaxRetries + 1

\* The queue implements the abstract ordered delivery.
Delivery == INSTANCE OrderedDelivery WITH out <- wire, open <- sent
OrderedDelivery == Delivery!DeliverySpec

=============================================================================
