------------------------- MODULE OrderedQueueProofs -------------------------
(***************************************************************************)
(* TLAPS proofs about OrderedQueue, for every set of senders, every bound  *)
(* and every set of faults.                                                *)
(***************************************************************************)
EXTENDS OrderedQueue, FiniteSetTheorems, SequenceTheorems, TLAPS

-----------------------------------------------------------------------------
(* Facts about the sequences written to the stream                         *)

\* Run(first, last) is the sequence of the numbers first..last.
LEMMA RunFacts ==
  ASSUME NEW first \in Seqs, NEW last \in first..MaxSeq
  PROVE  /\ Run(first, last) \in Seq(Seqs)
         /\ Len(Run(first, last)) = last - first + 1
         /\ \A k \in 1..(last - first + 1) : Run(first, last)[k] = first + k - 1
         /\ ToSet(Run(first, last)) = first..last
<1> DEFINE n == last - first + 1
<1>1. n \in Nat /\ \A k \in 1..n : first + k - 1 \in Seqs
  BY QueueAssumption DEF Seqs
<1>2. Run(first, last) \in Seq(Seqs) /\ Len(Run(first, last)) = n
  BY <1>1 DEF Run
<1>3. \A k \in 1..n : Run(first, last)[k] = first + k - 1
  BY <1>1 DEF Run
<1>4. DOMAIN Run(first, last) = 1..n
  BY <1>1 DEF Run
<1>5. ASSUME NEW s \in first..last
      PROVE  s \in ToSet(Run(first, last))
  <2>1. s - first + 1 \in 1..n /\ first + (s - first + 1) - 1 = s
    BY QueueAssumption DEF Seqs
  <2> QED BY <2>1, <1>3, <1>4 DEF ToSet
<1>6. ASSUME NEW s \in ToSet(Run(first, last))
      PROVE  s \in first..last
  <2>1. PICK k \in 1..n : s = Run(first, last)[k]
    BY <1>4 DEF ToSet
  <2> QED BY <2>1, <1>3, QueueAssumption DEF Seqs
<1> QED BY <1>2, <1>3, <1>5, <1>6

\* What a concatenation holds, and where.
LEMMA ConcatFacts ==
  ASSUME NEW S, NEW a \in Seq(S), NEW b \in Seq(S)
  PROVE  /\ a \o b \in Seq(S)
         /\ Len(a \o b) = Len(a) + Len(b)
         /\ \A i \in 1..Len(a) : (a \o b)[i] = a[i]
         /\ \A i \in (Len(a) + 1)..(Len(a) + Len(b)) : (a \o b)[i] = b[i - Len(a)]
         /\ ToSet(a \o b) = ToSet(a) \cup ToSet(b)
<1>1. /\ a \o b \in Seq(S)
      /\ Len(a \o b) = Len(a) + Len(b)
      /\ \A i \in 1..Len(a) : (a \o b)[i] = a[i]
      /\ \A i \in (Len(a) + 1)..(Len(a) + Len(b)) : (a \o b)[i] = b[i - Len(a)]
  OBVIOUS
<1>2. ASSUME NEW x \in ToSet(a \o b)
      PROVE  x \in ToSet(a) \cup ToSet(b)
  <2>1. PICK i \in 1..(Len(a) + Len(b)) : x = (a \o b)[i]
    BY <1>1 DEF ToSet
  <2>2. CASE i <= Len(a)
    BY <2>1, <2>2, <1>1 DEF ToSet
  <2>3. CASE i > Len(a)
    <3>1. i - Len(a) \in 1..Len(b) /\ x = b[i - Len(a)]
      BY <2>1, <2>3, <1>1
    <3> QED BY <3>1 DEF ToSet
  <2> QED BY <2>2, <2>3
<1>3. ASSUME NEW x \in ToSet(a)
      PROVE  x \in ToSet(a \o b)
  <2>1. PICK i \in 1..Len(a) : x = a[i]
    BY DEF ToSet
  <2>2. i \in DOMAIN (a \o b) /\ (a \o b)[i] = x
    BY <2>1, <1>1
  <2> QED BY <2>2 DEF ToSet
<1>4. ASSUME NEW x \in ToSet(b)
      PROVE  x \in ToSet(a \o b)
  <2>1. PICK k \in 1..Len(b) : x = b[k]
    BY DEF ToSet
  <2>2. Len(a) + k \in DOMAIN (a \o b) /\ (a \o b)[Len(a) + k] = x
    BY <2>1, <1>1
  <2> QED BY <2>2 DEF ToSet
<1> QED BY <1>1, <1>2, <1>3, <1>4

\* A batch of rewrites is a nonempty sequence over the retriable numbers.
LEMMA BatchFacts ==
  ASSUME NEW S, NEW b \in Batches(S)
  PROVE  b \in Seq(S) /\ ToSet(b) \subseteq S
<1>1. PICK m \in 0..MaxSeq : b \in [1..m -> S]
  BY DEF Batches, SeqOf
<1>2. b \in Seq(S) /\ DOMAIN b = 1..m
  BY <1>1, QueueAssumption
<1> QED BY <1>1, <1>2 DEF ToSet

-----------------------------------------------------------------------------
(* Type correctness                                                        *)

\* The heap holds finitely many numbers.
LEMMA FiniteWaiting ==
  ASSUME TypeOK
  PROVE  IsFiniteSet(waiting) /\ Cardinality(waiting) \in Nat
<1>1. IsFiniteSet(Seqs)
  BY FS_Interval, QueueAssumption DEF Seqs
<1>2. IsFiniteSet(waiting)
  BY <1>1, FS_Subset DEF TypeOK
<1> QED BY <1>2, FS_CardinalityType

\* What stays of the heap is within its capacity.
LEMMA SmallerHeap ==
  ASSUME TypeOK, NEW W \in SUBSET waiting
  PROVE  Cardinality(W) <= MaxQueueSize
<1>1. IsFiniteSet(waiting) /\ Cardinality(waiting) \in Nat
  BY FiniteWaiting
<1>2. Cardinality(W) <= Cardinality(waiting) /\ IsFiniteSet(W)
  BY <1>1, FS_Subset
<1>3. Cardinality(W) \in Nat
  BY <1>2, FS_CardinalityType
<1> QED BY <1>1, <1>2, <1>3, QueueAssumption DEF TypeOK

\* NewOrderedMessageQueue starts a session in a well-typed state.
LEMMA InitTypeOK == Init => TypeOK
<1> SUFFICES ASSUME Init
             PROVE  TypeOK
  OBVIOUS
<1>1. Cardinality(waiting) <= MaxQueueSize
  BY FS_EmptySet, QueueAssumption DEF Init
<1>2. /\ 0 \in 0..MaxSeq /\ 1 \in 1..(MaxSeq + 1)
      /\ 0 \in 0..MaxRetries
  BY QueueAssumption
<1>3. wire \in Seq(Seqs)
  BY DEF Init
<1>4. held \in [Senders -> 0..MaxSeq] /\ retries \in [Seqs -> 0..MaxRetries]
  BY <1>2 DEF Init, None
<1> QED BY <1>1, <1>2, <1>3, <1>4 DEF Init, TypeOK, None

\* The first critical section of an acknowledgement keeps the types.
LEMMA AckTypeOK ==
  ASSUME TypeOK, NEW a \in Seqs, AckMessagesUpTo(a), startAck' \in 0..MaxSeq
  PROVE  TypeOK'
<1>1. a \in 0..MaxSeq /\ Larger(lastAcked, a) \in 0..MaxSeq
  BY QueueAssumption DEF TypeOK, Larger, Seqs
<1>2. sent' \subseteq Seqs
  BY DEF AckMessagesUpTo, TypeOK
<1> QED BY <1>1, <1>2 DEF AckMessagesUpTo, TypeOK

\* Every handler of the send path keeps the types: one step per action.
LEMMA NextTypeOK == TypeOK /\ [Next]_vars => TypeOK'
<1> SUFFICES ASSUME TypeOK, [Next]_vars
             PROVE  TypeOK'
  OBVIOUS
<1> USE QueueAssumption
<1>1. ASSUME NEW p \in Senders, NewServerSeq(p)
      PROVE  TypeOK'
  BY <1>1 DEF NewServerSeq, TypeOK, Seqs, queueVars, ackVars
<1>2. ASSUME NEW p \in Senders, held[p] # None, Refuse(p)
      PROVE  TypeOK'
  <2>1. held[p] \in Seqs
    BY <1>2 DEF TypeOK, Seqs, None
  <2>2. held' \in [Senders -> 0..MaxSeq] /\ refused' \subseteq Seqs
    BY <1>2, <2>1 DEF Refuse, TypeOK, None
  <2> QED BY <1>2, <2>2 DEF Refuse, TypeOK, queueVars, ackVars
<1>3. ASSUME NEW p \in Senders, EnqueueSends(p)
      PROVE  TypeOK'
  <2>1. held[p] \in Seqs
    BY <1>3 DEF EnqueueSends, TypeOK, Seqs, None
  <2>2. PICK last \in held[p]..MaxSeq :
          /\ DrainTo(held[p], last)
          /\ wire' = wire \o Run(held[p], last)
          /\ sent' = sent \cup held[p]..last
          /\ retries' = [s \in Seqs |-> IF s \in held[p]..last THEN 0 ELSE retries[s]]
          /\ waiting' = ParkedAfter(held[p], last)
          /\ next' = last + 1
          /\ lastSent' = last
    BY <1>3 DEF EnqueueSends
  <2>3. wire' \in Seq(Seqs)
    BY <2>1, <2>2, RunFacts, ConcatFacts DEF TypeOK
  <2>4. waiting' \subseteq Seqs /\ Cardinality(waiting') <= MaxQueueSize
    <3>1. waiting' \in SUBSET waiting
      BY <2>2 DEF ParkedAfter
    <3> QED BY <3>1, SmallerHeap DEF TypeOK
  <2>5. retries' \in [Seqs -> 0..MaxRetries]
    BY <2>2 DEF TypeOK
  <2>6. linkUp' \in BOOLEAN
    BY <2>2 DEF DrainTo
  <2>7. sent' \subseteq Seqs /\ next' \in 1..(MaxSeq + 1) /\ lastSent' \in 0..MaxSeq
    <3>1. last \in Seqs /\ held[p]..last \subseteq Seqs
      BY <2>1 DEF Seqs
    <3>2. sent' \subseteq Seqs
      BY <2>2, <3>1 DEF TypeOK
    <3>3. last + 1 \in 1..(MaxSeq + 1) /\ last \in 0..MaxSeq
      BY <3>1 DEF Seqs
    <3> QED BY <2>2, <3>2, <3>3
  <2> QED BY <1>3, <2>3, <2>4, <2>5, <2>6, <2>7 DEF EnqueueSends, TypeOK, ackVars, None
<1>4. ASSUME NEW p \in Senders, EnqueueParks(p)
      PROVE  TypeOK'
  <2>1. held[p] \in Seqs
    BY <1>4 DEF EnqueueParks, TypeOK, Seqs
  <2>2. Cardinality(waiting') <= MaxQueueSize
    <3>1. IsFiniteSet(waiting) /\ Cardinality(waiting) \in Nat
      BY FiniteWaiting
    <3>2. Cardinality(waiting') \in {Cardinality(waiting), Cardinality(waiting) + 1}
      BY <3>1, <1>4, FS_AddElement DEF EnqueueParks
    <3> QED BY <3>1, <3>2, <1>4 DEF EnqueueParks, Accepts
  <2>3. held' \in [Senders -> 0..MaxSeq] /\ waiting' \subseteq Seqs
    BY <1>4, <2>1 DEF EnqueueParks, TypeOK, None
  <2> QED BY <1>4, <2>2, <2>3 DEF EnqueueParks, TypeOK, ackVars
<1>5. CASE HandleAck
  <2>1. PICK a \in OnWire : AckMessagesUpTo(a) /\ UNCHANGED startAck
    BY <1>5 DEF HandleAck
  <2>2. a \in Seqs
    <3>1. wire \in Seq(Seqs)
      BY DEF TypeOK
    <3> QED BY <3>1 DEF OnWire, ToSet
  <2>3. startAck' \in 0..MaxSeq
    BY <2>1 DEF TypeOK
  <2> QED BY <2>1, <2>2, <2>3, AckTypeOK
<1>6. CASE HandleStart
  <2>1. PICK a \in Seqs : AckMessagesUpTo(a) /\ startAck' = a
    BY <1>6 DEF HandleStart
  <2>2. startAck' \in 0..MaxSeq
    BY <2>1 DEF Seqs
  <2> QED BY <2>1, <2>2, AckTypeOK
<1>7. CASE ResyncSequence
  <2>1. waiting' \in SUBSET waiting /\ dropped' \subseteq Seqs
    BY <1>7 DEF ResyncSequence, TypeOK
  <2>2. Cardinality(waiting') <= MaxQueueSize
    BY <2>1, SmallerHeap
  <2>3. sent' \subseteq Seqs
    BY <1>7 DEF ResyncSequence, TypeOK
  <2>4. /\ next' \in 1..(MaxSeq + 1)
        /\ lastSent' \in 0..MaxSeq
        /\ lastAcked' \in 0..MaxSeq
        /\ acking' \in 0..MaxSeq
    BY <1>7 DEF ResyncSequence, ResyncNext, Larger, TypeOK, None
  <2> QED BY <1>7, <2>1, <2>2, <2>3, <2>4 DEF ResyncSequence, TypeOK
<1>8. CASE CleanupExpiredMessages
  <2>1. waiting' \in SUBSET waiting /\ dropped' \subseteq Seqs /\ sent' \subseteq Seqs
    BY <1>8 DEF CleanupExpiredMessages, TypeOK
  <2>2. Cardinality(waiting') <= MaxQueueSize
    BY <2>1, SmallerHeap
  <2> QED BY <1>8, <2>1, <2>2 DEF CleanupExpiredMessages, TypeOK, ackVars
<1>9. CASE RetryTimedOutMessages
  <2>1. PICK batch \in Batches({s \in Seqs : Retriable(s)}) :
          /\ wire' = wire \o batch
          /\ retries' = [s \in Seqs |-> IF s \in ToSet(batch) THEN retries[s] + 1
                                        ELSE retries[s]]
    BY <1>9 DEF RetryTimedOutMessages
  <2>2. batch \in Seq({s \in Seqs : Retriable(s)})
        /\ ToSet(batch) \subseteq {s \in Seqs : Retriable(s)}
    BY BatchFacts
  <2>3. batch \in Seq(Seqs)
    BY <2>2
  <2>4. wire' \in Seq(Seqs)
    BY <2>1, <2>3, ConcatFacts DEF TypeOK
  <2>5. retries' \in [Seqs -> 0..MaxRetries]
    BY <2>1, <2>2 DEF TypeOK, Retriable
  <2> QED BY <1>9, <2>4, <2>5 DEF RetryTimedOutMessages, TypeOK, ackVars
<1>10. CASE LinkDown
  BY <1>10 DEF LinkDown, TypeOK, queueVars, ackVars
<1>11. CASE Stop
  BY <1>11, FS_EmptySet DEF Stop, TypeOK, ackVars
<1>12. CASE UNCHANGED vars
  BY <1>12 DEF vars, TypeOK
<1> QED
  BY <1>1, <1>2, <1>3, <1>4, <1>5, <1>6, <1>7, <1>8, <1>9, <1>10, <1>11, <1>12
  DEF Next, EncodeFails, EnqueueMessage, EnqueueRefused

\* Every variable keeps its type, and the waiting heap never outgrows the
\* capacity that EnqueueMessage checks.
THEOREM TypeCorrect == Spec => []TypeOK
BY InitTypeOK, NextTypeOK, PTL DEF Spec

-----------------------------------------------------------------------------
(* Ordered delivery                                                        *)

\* A session that has sent nothing satisfies the inductive invariant.
LEMMA InitIInv == Init => IInv
<1> SUFFICES ASSUME Init
             PROVE  IInv
  OBVIOUS
<1>1. TypeOK
  BY InitTypeOK
<1>2. DOMAIN wire = {} /\ sent = {} /\ next = 1 /\ acking = None
  BY DEF Init
<1>3. Frontier
  BY <1>2 DEF Init, Frontier
<1> QED BY <1>1, <1>2, <1>3 DEF IInv, SentWindow, InOrder, NoGap

\* A step that writes nothing and does not take a START's claim back leaves the
\* order of the stream as it is.
LEMMA QuietStream ==
  ASSUME TypeOK, InOrder, NoGap, UNCHANGED wire,
         startAck' = startAck \/ startAck = None
  PROVE  InOrder' /\ NoGap'
<1>1. InOrder'
  BY DEF InOrder
<1>2. NoGap'
  <2> SUFFICES ASSUME NEW i \in DOMAIN wire, NEW s \in 1..(wire[i] - 1)
               PROVE  s <= startAck' \/ \E k \in 1..(i - 1) : wire[k] = s
    BY DEF NoGap
  <2>1. s <= startAck \/ \E k \in 1..(i - 1) : wire[k] = s
    BY DEF NoGap
  <2> QED BY <2>1 DEF None
<1> QED BY <1>1, <1>2

\* A step that leaves the stream, the queue's counters and the ACK in progress
\* alone, and keeps no more for rewriting than before.
LEMMA QuietQueue ==
  ASSUME IInv, TypeOK', sent' \subseteq sent,
         UNCHANGED <<next, lastSent, lastAcked, acking, startAck, wire>>
  PROVE  IInv'
<1>1. InOrder' /\ NoGap'
  BY QuietStream DEF IInv
<1>2. Frontier'
  BY DEF IInv, Frontier, OnWire
<1>3. SentWindow'
  BY DEF IInv, SentWindow, OnWire
<1> QED BY <1>1, <1>2, <1>3 DEF IInv

\* What a send adds to the stream: the run held[p]..last, all of it above what
\* was written before.
LEMMA SendsShape ==
  ASSUME IInv, NEW p \in Senders, EnqueueSends(p)
  PROVE  \E last \in held[p]..MaxSeq :
           /\ held[p] \in Seqs /\ held[p] = next
           /\ sent' = sent \cup held[p]..last
           /\ next' = last + 1
           /\ lastSent' = last
           /\ wire' \in Seq(Seqs)
           /\ Len(wire') = Len(wire) + (last - held[p] + 1)
           /\ \A i \in 1..Len(wire) : wire'[i] = wire[i]
           /\ \A i \in (Len(wire) + 1)..(Len(wire) + (last - held[p] + 1)) :
                wire'[i] = held[p] + (i - Len(wire)) - 1
           /\ OnWire' = OnWire \cup held[p]..last
           /\ \A i \in 1..Len(wire) : wire[i] \in Nat /\ wire[i] < held[p]
<1> DEFINE first == held[p]
           L == Len(wire)
<1>1. first \in Seqs /\ first = next
  BY DEF EnqueueSends, Due, IInv, TypeOK, Seqs, None
<1>2. PICK last \in first..MaxSeq :
        /\ wire' = wire \o Run(first, last)
        /\ sent' = sent \cup first..last
        /\ next' = last + 1
        /\ lastSent' = last
  BY DEF EnqueueSends
<1> HIDE DEF first
<1>3. /\ UNCHANGED <<lastAcked, acking, startAck>>
      /\ wire \in Seq(Seqs) /\ L \in Nat /\ DOMAIN wire = 1..L
      /\ first \in Nat /\ last \in Nat /\ first <= last
      /\ lastAcked \in Nat /\ acking \in Nat /\ startAck \in Nat
  BY <1>1, QueueAssumption DEF EnqueueSends, ackVars, IInv, TypeOK, Seqs
<1>4. /\ wire' \in Seq(Seqs)
      /\ Len(wire') = L + (last - first + 1)
      /\ \A i \in 1..L : wire'[i] = wire[i]
      /\ \A i \in (L + 1)..(L + (last - first + 1)) : wire'[i] = first + (i - L) - 1
      /\ OnWire' = OnWire \cup first..last
  <2>1. /\ Run(first, last) \in Seq(Seqs)
        /\ Len(Run(first, last)) = last - first + 1
        /\ \A k \in 1..(last - first + 1) : Run(first, last)[k] = first + k - 1
        /\ ToSet(Run(first, last)) = first..last
    BY <1>1, RunFacts
  <2>2. /\ wire' \in Seq(Seqs)
        /\ Len(wire') = L + (last - first + 1)
        /\ \A i \in 1..L : wire'[i] = wire[i]
        /\ \A i \in (L + 1)..(L + (last - first + 1)) : wire'[i] = Run(first, last)[i - L]
        /\ OnWire' = OnWire \cup first..last
    <3>0. PICK run \in Seq(Seqs) : run = Run(first, last)
      BY <2>1
    <3>1. /\ wire' \in Seq(Seqs)
          /\ Len(wire') = L + Len(run)
          /\ \A i \in 1..L : wire'[i] = wire[i]
          /\ \A i \in (L + 1)..(L + Len(run)) : wire'[i] = run[i - L]
          /\ ToSet(wire') = ToSet(wire) \cup ToSet(run)
      BY <3>0, <1>2, <1>3, ConcatFacts
    <3> QED BY <3>0, <3>1, <2>1 DEF OnWire
  <2>3. ASSUME NEW i \in (L + 1)..(L + (last - first + 1))
        PROVE  wire'[i] = first + (i - L) - 1
    <3>1. i - L \in 1..(last - first + 1)
      BY <1>3
    <3> QED BY <3>1, <2>1, <2>2
  <2> QED BY <2>2, <2>3
<1>5. \A i \in 1..L : wire[i] \in Nat /\ wire[i] < first
  <2> SUFFICES ASSUME NEW i \in 1..L
               PROVE  wire[i] \in Nat /\ wire[i] < first
    OBVIOUS
  <2>1. wire[i] \in Seqs /\ i \in DOMAIN wire
    BY <1>3
  <2>2. wire[i] < next
    BY <2>1 DEF IInv, Frontier
  <2> QED BY <2>1, <2>2, <1>1, QueueAssumption DEF Seqs
<1> QED BY <1>1, <1>2, <1>4, <1>5 DEF first

\* The run first..last, which begins with the expected number, has been written
\* behind smaller numbers.
RunWritten(first, last) ==
  /\ first \in Seqs /\ last \in first..MaxSeq /\ first = next
  /\ sent' = sent \cup first..last
  /\ next' = last + 1
  /\ lastSent' = last
  /\ wire' \in Seq(Seqs)
  /\ Len(wire') = Len(wire) + (last - first + 1)
  /\ \A i \in 1..Len(wire) : wire'[i] = wire[i]
  /\ \A i \in (Len(wire) + 1)..(Len(wire) + (last - first + 1)) :
       wire'[i] = first + (i - Len(wire)) - 1
  /\ OnWire' = OnWire \cup first..last
  /\ \A i \in 1..Len(wire) : wire[i] \in Nat /\ wire[i] < first

\* Writing such a run keeps the inductive invariant.
LEMMA WriteIInv ==
  ASSUME IInv, TypeOK', NEW first, NEW last, RunWritten(first, last),
         UNCHANGED <<lastAcked, acking, startAck>>
  PROVE  IInv'
<1> DEFINE L == Len(wire)
<1>1. /\ first \in Seqs /\ last \in first..MaxSeq /\ first = next
      /\ sent' = sent \cup first..last
      /\ next' = last + 1
      /\ lastSent' = last
      /\ wire' \in Seq(Seqs)
      /\ Len(wire') = L + (last - first + 1)
      /\ \A i \in 1..L : wire'[i] = wire[i]
      /\ \A i \in (L + 1)..(L + (last - first + 1)) : wire'[i] = first + (i - L) - 1
      /\ OnWire' = OnWire \cup first..last
      /\ \A i \in 1..L : wire[i] \in Nat /\ wire[i] < first
  BY DEF RunWritten
<1>2. next' = last + 1 /\ lastSent' = last /\ sent' = sent \cup first..last
  BY <1>1
<1>3. /\ UNCHANGED <<lastAcked, acking, startAck>>
      /\ wire \in Seq(Seqs) /\ L \in Nat /\ DOMAIN wire = 1..L
      /\ first \in Nat /\ last \in Nat /\ first <= last
      /\ lastAcked \in Nat /\ acking \in Nat /\ startAck \in Nat
  BY <1>1, QueueAssumption DEF IInv, TypeOK, Seqs
<1>4. /\ DOMAIN wire' = 1..(L + (last - first + 1))
      /\ \A i \in 1..L : wire'[i] = wire[i]
      /\ \A i \in (L + 1)..(L + (last - first + 1)) : wire'[i] = first + (i - L) - 1
      /\ OnWire' = OnWire \cup first..last
  BY <1>1
<1>5. \A i \in 1..L : wire[i] \in Nat /\ wire[i] < first
  BY <1>1
<1>6. InOrder'
  <2> SUFFICES ASSUME NEW i \in DOMAIN wire', NEW k \in 1..(i - 1),
                      \A j \in 1..(i - 1) : wire'[j] # wire'[i]
               PROVE  wire'[k] < wire'[i]
    BY DEF InOrder
  <2>1. CASE i <= L
    <3>1. i \in DOMAIN wire /\ \A j \in 1..i : wire'[j] = wire[j]
      BY <2>1, <1>3, <1>4
    <3>2. \A j \in 1..(i - 1) : wire[j] # wire[i]
      BY <3>1, <1>3
    <3>3. wire[k] < wire[i]
      BY <3>1, <3>2 DEF IInv, InOrder
    <3> QED BY <3>1, <3>3, <1>3
  <2>2. CASE i > L
    <3>0. i \in (L + 1)..(L + (last - first + 1)) /\ i \in Int /\ k \in Int
      BY <2>2, <1>3, <1>4
    <3>1. wire'[i] = first + (i - L) - 1
      BY <3>0, <1>4
    <3>2. CASE k <= L
      <4>1. wire'[k] = wire[k] /\ wire[k] \in Nat /\ wire[k] < first
        BY <3>2, <1>3, <1>4, <1>5
      <4> QED BY <4>1, <3>1, <2>2, <1>3, SMTT(40)
    <3>3. CASE k > L
      <4>1. wire'[k] = first + (k - L) - 1
        BY <3>0, <3>3, <1>3, <1>4
      <4> QED BY <4>1, <3>0, <3>1, <1>3
    <3> QED BY <3>0, <3>2, <3>3, <1>3
  <2> QED BY <2>1, <2>2, <1>3, <1>4
<1>7. NoGap'
  <2> SUFFICES ASSUME NEW i \in DOMAIN wire', NEW s \in 1..(wire'[i] - 1)
               PROVE  s <= startAck \/ \E k \in 1..(i - 1) : wire'[k] = s
    BY <1>3 DEF NoGap
  <2>1. CASE i <= L
    <3>1. i \in DOMAIN wire /\ \A j \in 1..i : wire'[j] = wire[j]
      BY <2>1, <1>3, <1>4
    <3>2. s <= startAck \/ \E k \in 1..(i - 1) : wire[k] = s
      BY <3>1, <1>3 DEF IInv, NoGap
    <3> QED BY <3>1, <3>2, <1>3
  <2>2. CASE i > L /\ s < first
    <3>1. s <= startAck \/ s \in OnWire
      BY <1>1, <2>2, <1>3 DEF IInv, Frontier
    <3>2. CASE s \in OnWire
      <4>1. PICK k \in 1..L : wire[k] = s
        BY <3>2, <1>3 DEF OnWire, ToSet
      <4> QED BY <4>1, <2>2, <1>3, <1>4
    <3> QED BY <3>1, <3>2
  <2>3. CASE i > L /\ s >= first
    <3>1. wire'[i] = first + (i - L) - 1
      BY <2>3, <1>3, <1>4
    <3> DEFINE k == L + (s - first + 1)
    <3>2. k \in 1..(i - 1) /\ k \in (L + 1)..(L + (last - first + 1))
      BY <2>3, <3>1, <1>3, <1>4
    <3>3. wire'[k] = first + (k - L) - 1
      BY <3>2, <1>4
    <3>4. wire'[k] = s
      BY <3>3, <1>3
    <3> QED BY <3>2, <3>4
  <2>4. i \in Int /\ s \in Int
    BY <1>3, <1>4
  <2> QED BY <2>1, <2>2, <2>3, <2>4, <1>3
<1>8. Frontier'
  <2>1. \A i \in DOMAIN wire' : wire'[i] < next'
    <3> SUFFICES ASSUME NEW i \in DOMAIN wire'
                 PROVE  wire'[i] < last + 1
      BY <1>2
    <3>1. CASE i <= L
      <4>1. wire'[i] = wire[i] /\ wire[i] \in Nat /\ wire[i] < first
        BY <3>1, <1>3, <1>4, <1>5
      <4> QED BY <4>1, <1>3
    <3>2. CASE i > L
      BY <3>2, <1>3, <1>4
    <3> QED BY <3>1, <3>2, <1>3, <1>4
  <2>2. ASSUME NEW s \in 1..(next' - 1)
        PROVE  s <= startAck' \/ s \in OnWire'
    <3>1. CASE s < first
      BY <3>1, <1>1, <1>3, <1>4 DEF IInv, Frontier
    <3>2. CASE s >= first
      BY <3>2, <1>2, <1>3, <1>4
    <3> QED BY <3>1, <3>2, <1>3
  <2>3. acking' # None => acking' \in OnWire' \/ acking' = startAck'
    BY <1>3, <1>4 DEF IInv, Frontier
  <2>4. lastAcked' < next' \/ lastAcked' = acking'
    BY <1>1, <1>2, <1>3 DEF IInv, Frontier
  <2>5. lastSent' = next' - 1
    BY <1>2, <1>3
  <2> QED BY <2>1, <2>2, <2>3, <2>4, <2>5 DEF Frontier
<1>9. SentWindow'
  <2> SUFFICES ASSUME NEW s \in sent'
               PROVE  s \in OnWire' /\ s < next' /\ (lastAcked < s \/ s <= acking)
    BY <1>3 DEF SentWindow
  <2>1. CASE s \in sent
    <3>1. s \in Nat /\ s \in OnWire /\ s < next /\ (lastAcked < s \/ s <= acking)
      BY <2>1 DEF IInv, SentWindow, TypeOK, Seqs
    <3> QED BY <3>1, <1>1, <1>2, <1>3, <1>4
  <2>2. CASE s \in first..last
    <3>1. lastAcked < first \/ lastAcked = acking
      BY <1>1 DEF IInv, Frontier
    <3> QED BY <2>2, <3>1, <1>2, <1>3, <1>4
  <2> QED BY <2>1, <2>2, <1>2
<1> QED BY <1>6, <1>7, <1>8, <1>9 DEF IInv

\* EnqueueMessage of the due number, with the drain of processWaitingMessages,
\* keeps the inductive invariant.
LEMMA SendsIInv ==
  ASSUME IInv, TypeOK', NEW p \in Senders, EnqueueSends(p)
  PROVE  IInv'
<1>1. \E last : RunWritten(held[p], last)
  BY SendsShape DEF RunWritten
<1>2. UNCHANGED <<lastAcked, acking, startAck>>
  BY DEF EnqueueSends, ackVars
<1> QED BY <1>1, <1>2, WriteIInv

\* What a retry adds to the stream: numbers that are kept for rewriting.
LEMMA RetryShape ==
  ASSUME IInv, RetryTimedOutMessages
  PROVE  /\ UNCHANGED <<next, lastSent, lastAcked, sent, acking, startAck>>
         /\ wire' \in Seq(Seqs) /\ Len(wire) <= Len(wire')
         /\ \A i \in 1..Len(wire) : i \in DOMAIN wire' /\ wire'[i] = wire[i]
         /\ \A i \in (Len(wire) + 1)..Len(wire') : wire'[i] \in sent
         /\ OnWire' = OnWire
<1> DEFINE L == Len(wire)
<1>1. PICK batch \in Batches({s \in Seqs : Retriable(s)}) : wire' = wire \o batch
  BY DEF RetryTimedOutMessages
<1>2. batch \in Seq(Seqs) /\ ToSet(batch) \subseteq sent
  <2>1. /\ batch \in Seq({s \in Seqs : Retriable(s)})
        /\ ToSet(batch) \subseteq {s \in Seqs : Retriable(s)}
    BY BatchFacts
  <2> QED BY <2>1 DEF Retriable
<1>3. /\ UNCHANGED <<next, lastSent, lastAcked, sent, acking, startAck>>
      /\ wire \in Seq(Seqs) /\ L \in Nat /\ DOMAIN wire = 1..L
  BY DEF RetryTimedOutMessages, ackVars, IInv, TypeOK
<1>4. /\ wire' \in Seq(Seqs) /\ L <= Len(wire')
      /\ Len(wire') \in Nat /\ DOMAIN wire' = 1..Len(wire')
      /\ \A i \in 1..L : i \in DOMAIN wire' /\ wire'[i] = wire[i]
      /\ \A i \in (L + 1)..Len(wire') : wire'[i] \in sent
      /\ OnWire' = OnWire
  <2>1. /\ wire' \in Seq(Seqs)
        /\ Len(wire') = L + Len(batch)
        /\ \A i \in 1..L : wire'[i] = wire[i]
        /\ \A i \in (L + 1)..(L + Len(batch)) : wire'[i] = batch[i - L]
        /\ OnWire' = OnWire \cup ToSet(batch)
    BY <1>1, <1>2, <1>3, ConcatFacts DEF OnWire
  <2>2. ASSUME NEW i \in (L + 1)..(L + Len(batch))
        PROVE  wire'[i] \in sent
    <3>1. i - L \in DOMAIN batch
      BY <1>2, <1>3
    <3>2. batch[i - L] \in ToSet(batch)
      BY <3>1 DEF ToSet
    <3> QED BY <2>1, <3>2, <1>2
  <2>3. sent \subseteq OnWire
    BY DEF IInv, SentWindow
  <2>4. Len(batch) \in Nat
    BY <1>2
  <2>5. DOMAIN wire' = 1..Len(wire') /\ Len(wire') \in Nat
    BY <2>1
  <2> QED BY <2>1, <2>2, <2>3, <2>4, <2>5, <1>2, <1>3
<1> QED BY <1>3, <1>4

\* Numbers that are kept have been written again, and nothing else happened.
Rewritten ==
  /\ UNCHANGED <<next, lastSent, lastAcked, sent, acking, startAck>>
  /\ wire' \in Seq(Seqs) /\ Len(wire) <= Len(wire')
  /\ \A i \in 1..Len(wire) : i \in DOMAIN wire' /\ wire'[i] = wire[i]
  /\ \A i \in (Len(wire) + 1)..Len(wire') : wire'[i] \in sent
  /\ OnWire' = OnWire

\* That keeps the inductive invariant.
LEMMA RewriteIInv ==
  ASSUME IInv, TypeOK', Rewritten
  PROVE  IInv'
<1> DEFINE L == Len(wire)
<1>1. /\ UNCHANGED <<next, lastSent, lastAcked, sent, acking, startAck>>
      /\ wire \in Seq(Seqs) /\ L \in Nat /\ DOMAIN wire = 1..L
  BY DEF Rewritten, IInv, TypeOK
<1>2. /\ Len(wire') \in Nat /\ DOMAIN wire' = 1..Len(wire')
      /\ \A i \in 1..L : i \in DOMAIN wire' /\ wire'[i] = wire[i]
      /\ \A i \in (L + 1)..Len(wire') : wire'[i] \in sent
      /\ OnWire' = OnWire
  BY DEF Rewritten
<1>3. ASSUME NEW i \in DOMAIN wire', i > L
      PROVE  \E j \in 1..L : wire[j] = wire'[i]
  <2>1. wire'[i] \in OnWire
    BY <1>1, <1>2, <1>3 DEF IInv, SentWindow
  <2> QED BY <2>1, <1>1 DEF OnWire, ToSet
<1>4. InOrder'
  <2> SUFFICES ASSUME NEW i \in DOMAIN wire', NEW k \in 1..(i - 1),
                      \A j \in 1..(i - 1) : wire'[j] # wire'[i]
               PROVE  wire'[k] < wire'[i]
    BY DEF InOrder
  <2>1. i <= L
    <3> SUFFICES ASSUME i > L
                 PROVE  FALSE
      BY <1>1, <1>2
    <3>1. PICK j \in 1..L : wire[j] = wire'[i]
      BY <1>3
    <3> QED BY <3>1, <1>1, <1>2
  <2>2. i \in DOMAIN wire /\ \A j \in 1..i : wire'[j] = wire[j]
    BY <2>1, <1>1, <1>2
  <2>3. \A j \in 1..(i - 1) : wire[j] # wire[i]
    BY <2>2, <1>1
  <2>4. wire[k] < wire[i]
    BY <2>2, <2>3 DEF IInv, InOrder
  <2> QED BY <2>2, <2>4, <1>1
<1>5. NoGap'
  <2> SUFFICES ASSUME NEW i \in DOMAIN wire', NEW s \in 1..(wire'[i] - 1)
               PROVE  s <= startAck \/ \E k \in 1..(i - 1) : wire'[k] = s
    BY <1>1 DEF NoGap
  <2>1. PICK j \in 1..L : j <= i /\ wire[j] = wire'[i]
    BY <1>1, <1>2, <1>3
  <2>2. s <= startAck \/ \E k \in 1..(j - 1) : wire[k] = s
    BY <2>1, <1>1 DEF IInv, NoGap
  <2> QED BY <2>1, <2>2, <1>1, <1>2
<1>6. Frontier'
  <2>1. \A i \in DOMAIN wire' : wire'[i] < next
    BY <1>1, <1>2, <1>3 DEF IInv, Frontier
  <2> QED BY <2>1, <1>1, <1>2 DEF IInv, Frontier
<1>7. SentWindow'
  BY <1>1, <1>2 DEF IInv, SentWindow
<1> QED BY <1>4, <1>5, <1>6, <1>7 DEF IInv

\* retryTimedOutMessages keeps the inductive invariant.
LEMMA RetryIInv ==
  ASSUME IInv, TypeOK', RetryTimedOutMessages
  PROVE  IInv'
<1>1. Rewritten
  BY RetryShape DEF Rewritten
<1> QED BY <1>1, RewriteIInv

\* One write more, of the expected number or of one that is kept: what a write does
\* that was past the test of IsClosed when the session was marked closed.
LEMMA LateWriteIInv ==
  ASSUME IInv, TypeOK', NEW s \in Seqs, s \in sent \/ s = next,
         wire' = Append(wire, s), sent' = sent \cup {s},
         next' = IF s = next THEN next + 1 ELSE next,
         lastSent' = IF s = next THEN s ELSE lastSent,
         UNCHANGED <<lastAcked, acking, startAck>>
  PROVE  IInv'
<1>1. /\ wire \in Seq(Seqs) /\ Len(wire) \in Nat /\ DOMAIN wire = 1..Len(wire)
      /\ next \in Nat /\ s \in Nat /\ s <= MaxSeq /\ MaxSeq \in Nat
  BY QueueAssumption DEF IInv, TypeOK, Seqs
<1>2. /\ wire' \in Seq(Seqs) /\ Len(wire') = Len(wire) + 1
      /\ DOMAIN wire' = 1..(Len(wire) + 1)
      /\ \A i \in 1..Len(wire) : wire'[i] = wire[i]
      /\ wire'[Len(wire) + 1] = s
  BY <1>1
<1>3. OnWire' = OnWire \cup {s}
  BY <1>1, <1>2 DEF OnWire, ToSet
<1>4. CASE s = next
  <2>1. s \in s..MaxSeq /\ s..s = {s}
    BY <1>1
  <2>2. \A i \in 1..Len(wire) : wire[i] \in Nat /\ wire[i] < s
    BY <1>1, <1>4, QueueAssumption DEF IInv, Frontier, Seqs
  <2>3. \A i \in (Len(wire) + 1)..(Len(wire) + (s - s + 1)) :
          wire'[i] = s + (i - Len(wire)) - 1
    BY <1>1, <1>2
  <2>4. Len(wire') = Len(wire) + (s - s + 1)
    BY <1>1, <1>2
  <2>5. RunWritten(s, s)
    BY <1>2, <1>3, <1>4, <2>1, <2>2, <2>3, <2>4 DEF RunWritten
  <2> QED BY <2>5, WriteIInv
<1>5. CASE s # next
  <2>1. s \in sent /\ sent' = sent /\ s \in OnWire
    BY <1>5 DEF IInv, SentWindow
  <2>2. OnWire' = OnWire
    BY <1>3, <2>1
  <2>3. /\ UNCHANGED <<next, lastSent, lastAcked, sent, acking, startAck>>
        /\ Len(wire) <= Len(wire')
        /\ \A i \in 1..Len(wire) : i \in DOMAIN wire' /\ wire'[i] = wire[i]
        /\ \A i \in (Len(wire) + 1)..Len(wire') : wire'[i] \in sent
    BY <1>1, <1>2, <1>5, <2>1
  <2>4. Rewritten
    BY <1>2, <2>2, <2>3 DEF Rewritten
  <2> QED BY <2>4, RewriteIInv
<1> QED BY <1>4, <1>5

\* The first critical section of an acknowledgement of a written number, or of
\* the number the START claims.
LEMMA AckIInv ==
  ASSUME IInv, TypeOK', NEW a \in Seqs, AckMessagesUpTo(a),
         \/ a \in OnWire /\ startAck' = startAck
         \/ startAck = None /\ startAck' = a
  PROVE  IInv'
<1>1. /\ acking = None /\ acking' = a /\ lastAcked' = Larger(lastAcked, a)
      /\ UNCHANGED <<next, lastSent, wire>>
      /\ sent' = {s \in sent : ~Covered(s, a)}
      /\ a \in Nat /\ a > 0 /\ lastAcked \in Nat /\ next \in Nat
      /\ \A s \in sent : s \in Nat /\ s > 0
  BY QueueAssumption DEF AckMessagesUpTo, IInv, TypeOK, Seqs
<1>2. lastAcked < next
  BY <1>1 DEF IInv, Frontier, TypeOK, None
<1>3. InOrder' /\ NoGap'
  BY <1>1, QuietStream DEF IInv
<1>4. Frontier'
  <2>1. \A s \in 1..(next' - 1) : s <= startAck' \/ s \in OnWire'
    BY <1>1 DEF IInv, Frontier, OnWire, None
  <2>2. acking' \in OnWire' \/ acking' = startAck'
    BY <1>1 DEF OnWire
  <2>3. lastAcked' < next' \/ lastAcked' = acking'
    BY <1>1, <1>2 DEF Larger
  <2> QED BY <2>1, <2>2, <2>3, <1>1 DEF IInv, Frontier
<1>5. SentWindow'
  <2> SUFFICES ASSUME NEW s \in sent, ~Covered(s, a)
               PROVE  s \in OnWire' /\ s < next /\ lastAcked' < s
    BY <1>1 DEF SentWindow
  <2>1. s \in OnWire /\ s < next /\ (lastAcked < s \/ s <= acking)
    BY DEF IInv, SentWindow
  <2>2. lastAcked < s /\ a < s
    BY <2>1, <1>1 DEF Covered, None
  <2> QED BY <2>1, <2>2, <1>1 DEF Larger, OnWire
<1> QED BY <1>3, <1>4, <1>5 DEF IInv

\* An acknowledgement of a written number that reaches its second critical section
\* alone, as the manager finds no session any more.
LEMMA LateAckIInv ==
  ASSUME IInv, TypeOK', acking = None, acking' \in OnWire,
         UNCHANGED <<next, lastSent, lastAcked, sent, startAck, wire>>
  PROVE  IInv'
<1>1. InOrder' /\ NoGap'
  BY QuietStream DEF IInv
<1>2. OnWire' = OnWire
  BY DEF OnWire
<1>3. /\ lastAcked \in Nat /\ next \in Nat /\ next > 0 /\ acking = 0
      /\ \A s \in sent : s \in Nat /\ s > 0
  BY QueueAssumption DEF IInv, TypeOK, Seqs, None
<1>4. lastAcked < next
  BY <1>3 DEF IInv, Frontier
<1>5. Frontier'
  BY <1>2, <1>4 DEF IInv, Frontier
<1>6. SentWindow'
  <2>1. \A s \in sent : s \in OnWire /\ s < next /\ lastAcked < s
    BY <1>3 DEF IInv, SentWindow
  <2> QED BY <1>2, <2>1 DEF SentWindow
<1> QED BY <1>1, <1>5, <1>6 DEF IInv

\* ResyncSequence, the second critical section of an acknowledgement, keeps the
\* inductive invariant.
LEMMA ResyncIInv ==
  ASSUME IInv, TypeOK', ResyncSequence
  PROVE  IInv'
<1>1. /\ acking # None /\ acking' = None /\ lastAcked' = Larger(lastAcked, acking)
      /\ next' = ResyncNext(acking)
      /\ lastSent' = IF acking >= next THEN acking ELSE lastSent
      /\ UNCHANGED <<startAck, wire>>
      /\ sent' = {s \in sent : ~Covered(s, acking)}
      /\ acking \in Nat /\ lastAcked \in Nat /\ next \in Nat /\ startAck \in Nat
      /\ \A s \in sent : s \in Nat
      /\ wire \in Seq(Seqs)
  BY QueueAssumption DEF ResyncSequence, IInv, TypeOK, Seqs
<1>2. InOrder' /\ NoGap'
  BY <1>1, QuietStream DEF IInv
<1>3. acking >= next => acking = startAck
  <2> SUFFICES ASSUME acking >= next, acking \in OnWire
               PROVE  FALSE
    BY <1>1 DEF IInv, Frontier
  <2>1. PICK i \in DOMAIN wire : wire[i] = acking
    BY DEF OnWire, ToSet
  <2>2. wire[i] < next
    BY DEF IInv, Frontier
  <2> QED BY <2>1, <2>2, <1>1
<1>4. next <= next' /\ next' \in Nat /\ acking < next'
  BY <1>1 DEF ResyncNext
<1>5. Frontier'
  <2>1. \A i \in DOMAIN wire' : wire'[i] < next'
    <3> SUFFICES ASSUME NEW i \in DOMAIN wire
                 PROVE  wire[i] < next'
      BY <1>1
    <3>1. wire[i] < next /\ wire[i] \in Int
      BY <1>1, QueueAssumption DEF IInv, Frontier, Seqs
    <3> QED BY <3>1, <1>1, <1>4
  <2>2. ASSUME NEW s \in 1..(next' - 1)
        PROVE  s <= startAck' \/ s \in OnWire'
    <3>1. CASE acking >= next
      BY <3>1, <1>1, <1>3 DEF ResyncNext
    <3>2. CASE ~(acking >= next)
      <4>1. s <= startAck \/ s \in OnWire
        BY <3>2, <1>1 DEF ResyncNext, IInv, Frontier
      <4> QED BY <4>1, <1>1 DEF OnWire
    <3> QED BY <3>1, <3>2
  <2>3. lastAcked' < next'
    BY <1>1, <1>4 DEF IInv, Frontier, Larger
  <2>4. lastSent' = next' - 1
    BY <1>1 DEF IInv, Frontier, ResyncNext
  <2> QED BY <2>1, <2>2, <2>3, <2>4, <1>1 DEF Frontier
<1>6. SentWindow'
  <2> SUFFICES ASSUME NEW s \in sent, ~Covered(s, acking)
               PROVE  s \in OnWire' /\ s < next' /\ lastAcked' < s
    BY <1>1 DEF SentWindow
  <2>1. s \in OnWire /\ s < next /\ (lastAcked < s \/ s <= acking)
    BY DEF IInv, SentWindow
  <2>2. acking < s /\ lastAcked < s
    BY <2>1, <1>1 DEF Covered
  <2> QED BY <2>1, <2>2, <1>1, <1>4 DEF Larger, OnWire
<1> QED BY <1>2, <1>5, <1>6 DEF IInv

\* Every step of the send path keeps the inductive invariant: one step per action.
LEMMA NextIInv == IInv /\ [Next]_vars => IInv'
<1> SUFFICES ASSUME IInv, [Next]_vars
             PROVE  IInv'
  OBVIOUS
<1>0. TypeOK /\ TypeOK'
  BY NextTypeOK DEF IInv
<1>1. ASSUME NEW p \in Senders, NewServerSeq(p)
      PROVE  IInv'
  BY <1>0, <1>1, QuietQueue DEF NewServerSeq, queueVars, ackVars
<1>2. ASSUME NEW p \in Senders, Refuse(p)
      PROVE  IInv'
  BY <1>0, <1>2, QuietQueue DEF Refuse, queueVars, ackVars
<1>3. ASSUME NEW p \in Senders, EnqueueSends(p)
      PROVE  IInv'
  BY <1>0, <1>3, SendsIInv
<1>4. ASSUME NEW p \in Senders, EnqueueParks(p)
      PROVE  IInv'
  BY <1>0, <1>4, QuietQueue DEF EnqueueParks, ackVars
<1>5. CASE HandleAck
  <2>1. PICK a \in OnWire : AckMessagesUpTo(a) /\ UNCHANGED startAck
    BY <1>5 DEF HandleAck
  <2>2. wire \in Seq(Seqs)
    BY <1>0 DEF TypeOK
  <2>3. a \in Seqs
    BY <2>2 DEF OnWire, ToSet
  <2> QED BY <1>0, <2>1, <2>3, AckIInv, SMTT(40)
<1>6. CASE HandleStart
  BY <1>0, <1>6, AckIInv DEF HandleStart
<1>7. CASE ResyncSequence
  BY <1>0, <1>7, ResyncIInv
<1>8. CASE CleanupExpiredMessages
  BY <1>0, <1>8, QuietQueue DEF CleanupExpiredMessages, ackVars
<1>9. CASE RetryTimedOutMessages
  BY <1>0, <1>9, RetryIInv
<1>10. CASE LinkDown
  BY <1>0, <1>10, QuietQueue DEF LinkDown, queueVars, ackVars
<1>11. CASE Stop
  BY <1>0, <1>11, QuietQueue DEF Stop, ackVars
<1>12. CASE UNCHANGED vars
  BY <1>0, <1>12, QuietQueue DEF vars
<1> QED
  BY <1>1, <1>2, <1>3, <1>4, <1>5, <1>6, <1>7, <1>8, <1>9, <1>10, <1>11, <1>12
  DEF Next, EncodeFails, EnqueueMessage, EnqueueRefused

\* The inductive invariant holds in every state of every session.
LEMMA InductiveInvariant == Spec => []IInv
BY InitIInv, NextIInv, PTL DEF Spec

\* First writes reach the stream in increasing order, whatever order the senders
\* enter EnqueueMessage in.
THEOREM DeliveryInOrder == Spec => []InOrder
<1>1. IInv => InOrder
  BY DEF IInv
<1> QED BY <1>1, InductiveInvariant, PTL

\* No number is written before every smaller number that the client's START did
\* not claim.
THEOREM DeliveryWithoutGap == Spec => []NoGap
<1>1. IInv => NoGap
  BY DEF IInv
<1> QED BY <1>1, InductiveInvariant, PTL

\* sentMessages holds written, unacknowledged numbers below nextExpectedSeq only.
THEOREM SentIsUnacknowledged == Spec => []SentWindow
<1>1. IInv => SentWindow
  BY DEF IInv
<1> QED BY <1>1, InductiveInvariant, PTL

-----------------------------------------------------------------------------
(* The queue implements the abstract ordered delivery                      *)

\* A step that writes nothing and keeps no more for rewriting settles numbers.
LEMMA QuietIsSettle ==
  ASSUME sent' \subseteq sent, UNCHANGED wire
  PROVE  Delivery!DeliveryNext
BY DEF Delivery!DeliveryNext, Delivery!Settle

\* A send delivers fresh numbers in increasing order.
LEMMA SendIsDeliver ==
  ASSUME IInv, NEW p \in Senders, EnqueueSends(p)
  PROVE  Delivery!Deliver
<1> DEFINE first == held[p]
           L == Len(wire)
<1>1. PICK last \in first..MaxSeq :
        /\ first \in Seqs
        /\ sent' = sent \cup first..last
        /\ wire' \in Seq(Seqs)
        /\ Len(wire') = L + (last - first + 1)
        /\ \A i \in 1..L : wire'[i] = wire[i]
        /\ \A i \in (L + 1)..(L + (last - first + 1)) : wire'[i] = first + (i - L) - 1
        /\ \A i \in 1..L : wire[i] \in Nat /\ wire[i] < first
  BY SendsShape
<1> HIDE DEF first
<1>2. /\ wire \in Seq(Seqs) /\ L \in Nat
      /\ first \in Nat /\ last \in Nat /\ first <= last
      /\ Seqs \subseteq Nat
  BY <1>1, QueueAssumption DEF IInv, TypeOK, Seqs
<1>3. Delivery!Grows
  <2>1. wire' \in Seq(Nat)
    BY <1>1, QueueAssumption DEF Seqs
  <2> QED BY <2>1, <1>1, <1>2 DEF Delivery!Grows
<1>4. Delivery!Fresh = (L + 1)..(L + (last - first + 1))
  BY <1>1 DEF Delivery!Fresh
<1>5. ASSUME NEW i \in Delivery!Fresh, NEW k \in 1..(i - 1)
      PROVE  wire'[k] < wire'[i]
  <2>1. i \in Int /\ k \in Int /\ wire'[i] = first + (i - L) - 1 /\ i > L
    BY <1>1, <1>2, <1>4
  <2>2. CASE k <= L
    <3>1. wire'[k] = wire[k] /\ wire[k] \in Nat /\ wire[k] < first
      BY <2>1, <2>2, <1>1, <1>2
    <3> QED BY <2>1, <3>1, <1>2
  <2>3. CASE k > L
    <3>1. k \in (L + 1)..(L + (last - first + 1))
      BY <2>1, <2>3, <1>2, <1>4
    <3>2. wire'[k] = first + (k - L) - 1
      BY <3>1, <1>1
    <3> QED BY <2>1, <3>2, <1>2
  <2> QED BY <2>1, <2>2, <2>3, <1>2
<1>6. sent' = sent \cup {wire'[i] : i \in Delivery!Fresh}
  <2>1. ASSUME NEW s \in first..last
        PROVE  s \in {wire'[i] : i \in Delivery!Fresh}
    <3> DEFINE i == L + (s - first + 1)
    <3>1. i \in Delivery!Fresh
      BY <1>2, <1>4
    <3>2. wire'[i] = first + (i - L) - 1
      BY <3>1, <1>1, <1>4
    <3>3. first + (i - L) - 1 = s
      BY <1>2
    <3> QED BY <3>1, <3>2, <3>3
  <2>2. ASSUME NEW i \in Delivery!Fresh
        PROVE  wire'[i] \in first..last
    BY <1>1, <1>2, <1>4
  <2> QED BY <2>1, <2>2, <1>1
<1> QED BY <1>3, <1>5, <1>6 DEF Delivery!Deliver

\* A batch of retryTimedOutMessages repeats open numbers.
LEMMA RetryIsRepeat ==
  ASSUME IInv, RetryTimedOutMessages
  PROVE  Delivery!Repeat
<1>1. /\ UNCHANGED sent
      /\ wire' \in Seq(Seqs) /\ Len(wire) <= Len(wire')
      /\ \A i \in 1..Len(wire) : wire'[i] = wire[i]
      /\ \A i \in (Len(wire) + 1)..Len(wire') : wire'[i] \in sent
  BY RetryShape
<1>2. wire' \in Seq(Nat)
  BY <1>1, QueueAssumption DEF Seqs
<1> QED BY <1>1, <1>2 DEF Delivery!Repeat, Delivery!Grows, Delivery!Fresh

\* Every step of the queue is a delivery, a repetition, a settlement or nothing.
LEMMA StepIsDelivery ==
  IInv /\ [Next]_vars => [Delivery!DeliveryNext]_<<wire, sent>>
<1> SUFFICES ASSUME IInv, [Next]_vars
             PROVE  Delivery!DeliveryNext \/ UNCHANGED <<wire, sent>>
  OBVIOUS
<1>1. ASSUME NEW p \in Senders, NewServerSeq(p)
      PROVE  UNCHANGED <<wire, sent>>
  BY <1>1 DEF NewServerSeq, queueVars
<1>2. ASSUME NEW p \in Senders, Refuse(p)
      PROVE  UNCHANGED <<wire, sent>>
  BY <1>2 DEF Refuse, queueVars
<1>3. ASSUME NEW p \in Senders, EnqueueSends(p)
      PROVE  Delivery!DeliveryNext
  BY <1>3, SendIsDeliver DEF Delivery!DeliveryNext
<1>4. ASSUME NEW p \in Senders, EnqueueParks(p)
      PROVE  UNCHANGED <<wire, sent>>
  BY <1>4 DEF EnqueueParks
<1>5. CASE HandleAck \/ HandleStart
  BY <1>5, QuietIsSettle DEF HandleAck, HandleStart, AckMessagesUpTo
<1>6. CASE ResyncSequence
  BY <1>6, QuietIsSettle DEF ResyncSequence
<1>7. CASE CleanupExpiredMessages
  BY <1>7, QuietIsSettle DEF CleanupExpiredMessages
<1>8. CASE RetryTimedOutMessages
  BY <1>8, RetryIsRepeat DEF Delivery!DeliveryNext
<1>9. CASE LinkDown
  BY <1>9 DEF LinkDown, queueVars
<1>10. CASE Stop
  BY <1>10, QuietIsSettle DEF Stop
<1>11. CASE UNCHANGED vars
  BY <1>11 DEF vars
<1> QED
  BY <1>1, <1>2, <1>3, <1>4, <1>5, <1>6, <1>7, <1>8, <1>9, <1>10, <1>11
  DEF Next, EncodeFails, EnqueueMessage, EnqueueRefused

\* The queue, with its heap, its two-step acknowledgements and its retries,
\* implements the delivery promised to the client.
THEOREM QueueImplementsDelivery == Spec => OrderedDelivery
<1>1. Init => Delivery!DeliveryInit
  BY DEF Init, Delivery!DeliveryInit
<1> QED
  BY <1>1, StepIsDelivery, InductiveInvariant, PTL
  DEF Spec, OrderedDelivery, Delivery!DeliverySpec, Delivery!delivery

-----------------------------------------------------------------------------
(* A fault-free session never stalls behind a missing number               *)

\* In an undisturbed session the heap has room for every number a sender holds.
LEMMA RoomInHeap ==
  ASSUME FaultFree, TypeOK, Undisturbed, NEW p \in Senders, held[p] # None
  PROVE  Accepts
<1>1. held[p] \in Seqs /\ held[p] \notin waiting
  BY DEF TypeOK, Undisturbed, Seqs, None
<1>2. IsFiniteSet(waiting) /\ Cardinality(waiting) \in Nat
  BY FiniteWaiting
<1>3. IsFiniteSet(Seqs) /\ Cardinality(Seqs) = MaxSeq
  BY FS_Interval, QueueAssumption DEF Seqs
<1>4. waiting \cup {held[p]} \in SUBSET Seqs
  BY <1>1 DEF TypeOK
<1>5. Cardinality(waiting \cup {held[p]}) = Cardinality(waiting) + 1
  BY <1>1, <1>2, FS_AddElement
<1>6. Cardinality(waiting \cup {held[p]}) <= Cardinality(Seqs)
  BY <1>3, <1>4, FS_Subset
<1> QED
  BY <1>2, <1>3, <1>5, <1>6, QueueAssumption DEF Accepts, FaultFree, Undisturbed

\* A session that has sent nothing is undisturbed.
LEMMA InitUndisturbed == Init => Undisturbed
BY DEF Init, Undisturbed

\* A step that leaves numbers, heap and faults alone.
LEMMA QuietUndisturbed ==
  ASSUME Undisturbed,
         UNCHANGED <<serverSeq, held, next, waiting, stopped, linkUp, startAck>>
  PROVE  Undisturbed'
BY DEF Undisturbed

\* NewServerSeq hands out a number nobody holds and nothing parks.
LEMMA DrawUndisturbed ==
  ASSUME TypeOK, Undisturbed, NEW p \in Senders, NewServerSeq(p)
  PROVE  Undisturbed'
<1>1. /\ serverSeq' = serverSeq + 1 /\ serverSeq \in Nat /\ next \in Nat
      /\ held' = [held EXCEPT ![p] = serverSeq + 1]
      /\ held \in [Senders -> 0..MaxSeq] /\ held[p] = None
      /\ UNCHANGED <<next, waiting, stopped, linkUp, startAck>>
      /\ waiting \subseteq Nat
  BY QueueAssumption DEF NewServerSeq, queueVars, ackVars, TypeOK, Seqs
<1>2. ASSUME NEW s \in 1..serverSeq'
      PROVE  s < next \/ s \in waiting \/ \E q \in Senders : held'[q] = s
  <2>1. CASE s = serverSeq + 1
    BY <2>1, <1>1
  <2>2. CASE s # serverSeq + 1
    <3>1. s \in 1..serverSeq
      BY <2>2, <1>1
    <3>2. s < next \/ s \in waiting \/ \E q \in Senders : held[q] = s
      BY <3>1 DEF Undisturbed
    <3> QED BY <3>1, <3>2, <1>1 DEF None
  <2> QED BY <2>1, <2>2
<1>3. \A s \in waiting : next < s /\ s <= serverSeq'
  BY <1>1 DEF Undisturbed
<1>4. ASSUME NEW q \in Senders, held'[q] # None
      PROVE  /\ next <= held'[q] /\ held'[q] <= serverSeq'
             /\ held'[q] \notin waiting
             /\ \A r \in Senders \ {q} : held'[r] # held'[q]
  <2>1. \A r \in Senders : held[r] \in Nat /\ held[r] <= serverSeq
    BY <1>1, QueueAssumption DEF Undisturbed, None
  <2>2. CASE q = p
    BY <2>1, <2>2, <1>1 DEF Undisturbed
  <2>3. CASE q # p
    BY <2>1, <2>3, <1>1, <1>4 DEF Undisturbed
  <2> QED BY <2>2, <2>3
<1>5. next' <= serverSeq' + 1
  BY <1>1 DEF Undisturbed
<1> QED BY <1>1, <1>2, <1>3, <1>4, <1>5 DEF Undisturbed

\* After the drain of processWaitingMessages the head of the heap is not due.
LEMMA SendsUndisturbed ==
  ASSUME FaultFree, TypeOK, Undisturbed, NEW p \in Senders, EnqueueSends(p)
  PROVE  Undisturbed'
<1> DEFINE first == held[p]
<1>1. PICK last \in first..MaxSeq :
        /\ (first + 1)..last \subseteq waiting
        /\ last + 1 \notin waiting /\ linkUp'
        /\ waiting' = waiting \ first..last
        /\ next' = last + 1
  BY DEF EnqueueSends, DrainTo, ParkedAfter, FaultFree
<1>2. /\ first = next /\ first \in Nat /\ first >= 1 /\ last \in Nat /\ first <= last
      /\ first <= serverSeq /\ serverSeq \in Nat
      /\ held' = [held EXCEPT ![p] = None]
      /\ held \in [Senders -> 0..MaxSeq]
      /\ UNCHANGED <<serverSeq, stopped, startAck>>
      /\ waiting \subseteq Nat
  <2>1. /\ first # None /\ first = next
        /\ held' = [held EXCEPT ![p] = None]
        /\ UNCHANGED <<serverSeq, stopped, startAck>>
    BY DEF EnqueueSends, Due, ackVars
  <2>2. /\ held \in [Senders -> 0..MaxSeq] /\ serverSeq \in Nat
        /\ waiting \subseteq Nat
        /\ first \in Nat /\ first >= 1 /\ last \in Nat /\ first <= last
    BY <2>1, QueueAssumption DEF TypeOK, Seqs, None
  <2>3. first <= serverSeq
    BY <2>1 DEF Undisturbed
  <2> QED BY <2>1, <2>2, <2>3
<1>3. last <= serverSeq
  <2>1. last = first \/ last \in (first + 1)..last
    BY <1>2
  <2> QED BY <2>1, <1>1, <1>2 DEF Undisturbed
<1>4. ASSUME NEW s \in 1..serverSeq
      PROVE  s < next' \/ s \in waiting' \/ \E q \in Senders : held'[q] = s
  <2>1. s < next \/ s \in waiting \/ \E q \in Senders : held[q] = s
    BY DEF Undisturbed
  <2>2. CASE s <= last
    BY <2>2, <1>1, <1>2
  <2>3. CASE s > last
    BY <2>1, <2>3, <1>1, <1>2
  <2> QED BY <2>2, <2>3, <1>2
<1>5. ASSUME NEW s \in waiting'
      PROVE  next' < s /\ s <= serverSeq
  <2>1. s \in waiting /\ s \in Nat /\ next < s /\ s <= serverSeq
    BY <1>1, <1>2 DEF Undisturbed
  <2>2. s # last + 1 /\ ~(s <= last)
    BY <2>1, <1>1, <1>2
  <2> QED BY <2>1, <2>2, <1>1, <1>2
<1>6. ASSUME NEW q \in Senders, held'[q] # None
      PROVE  /\ next' <= held'[q] /\ held'[q] <= serverSeq
             /\ held'[q] \notin waiting'
             /\ \A r \in Senders \ {q} : held'[r] # held'[q]
  <2>1. q # p /\ held'[q] = held[q] /\ held[q] # None
    BY <1>2, <1>6
  <2>2. /\ next <= held[q] /\ held[q] <= serverSeq /\ held[q] \notin waiting
        /\ \A r \in Senders \ {q} : held[r] # held[q]
    BY <2>1 DEF Undisturbed
  <2>3. held[q] \in Nat /\ held[q] # first
    BY <2>1, <2>2, <1>2, QueueAssumption
  <2>4. ~(held[q] <= last)
    <3> SUFFICES ASSUME held[q] <= last
                 PROVE  FALSE
      OBVIOUS
    <3>1. held[q] \in (first + 1)..last
      BY <2>2, <2>3, <1>2
    <3> QED BY <3>1, <2>2, <1>1
  <2>5. \A r \in Senders \ {q} : held'[r] # held'[q]
    BY <2>1, <2>2, <1>2
  <2> QED BY <2>1, <2>2, <2>3, <2>4, <2>5, <1>1, <1>2
<1>7. next' <= serverSeq + 1
  BY <1>1, <1>2, <1>3
<1> QED BY <1>1, <1>2, <1>4, <1>5, <1>6, <1>7 DEF Undisturbed

\* EnqueueMessage parks only numbers ahead of the expected one.
LEMMA ParksUndisturbed ==
  ASSUME TypeOK, Undisturbed, NEW p \in Senders, EnqueueParks(p)
  PROVE  Undisturbed'
<1>1. /\ held[p] > next /\ held[p] # None /\ next \in Nat /\ next >= 1
      /\ held \in [Senders -> 0..MaxSeq]
      /\ waiting' = waiting \cup {held[p]}
      /\ held' = [held EXCEPT ![p] = None]
      /\ UNCHANGED <<serverSeq, next, stopped, linkUp, startAck>>
  BY QueueAssumption DEF EnqueueParks, ackVars, TypeOK, None
<1>2. /\ held[p] <= serverSeq
      /\ \A q \in Senders \ {p} : held[q] # held[p]
  BY <1>1 DEF Undisturbed
<1>3. ASSUME NEW s \in 1..serverSeq
      PROVE  s < next \/ s \in waiting' \/ \E q \in Senders : held'[q] = s
  <2>1. s < next \/ s \in waiting \/ \E q \in Senders : held[q] = s
    BY DEF Undisturbed
  <2> QED BY <2>1, <1>1
<1>4. \A s \in waiting' : next < s /\ s <= serverSeq
  BY <1>1, <1>2 DEF Undisturbed
<1>5. ASSUME NEW q \in Senders, held'[q] # None
      PROVE  /\ next <= held'[q] /\ held'[q] <= serverSeq
             /\ held'[q] \notin waiting'
             /\ \A r \in Senders \ {q} : held'[r] # held'[q]
  <2>1. q # p /\ held'[q] = held[q] /\ held[q] # None
    BY <1>1, <1>5
  <2> QED BY <2>1, <1>1, <1>2 DEF Undisturbed
<1> QED BY <1>1, <1>3, <1>4, <1>5 DEF Undisturbed

\* Without faults every step keeps a session undisturbed: one step per action.
LEMMA NextUndisturbed ==
  ASSUME FaultFree
  PROVE  IInv /\ Undisturbed /\ [Next]_vars => Undisturbed'
<1> SUFFICES ASSUME IInv, Undisturbed, [Next]_vars
             PROVE  Undisturbed'
  OBVIOUS
<1>0. TypeOK
  BY DEF IInv
<1>1. ASSUME NEW p \in Senders, NewServerSeq(p)
      PROVE  Undisturbed'
  BY <1>0, <1>1, DrawUndisturbed
<1>2. ASSUME NEW p \in Senders, EncodeFails(p)
      PROVE  FALSE
  BY <1>2 DEF EncodeFails, FaultFree
<1>3. ASSUME NEW p \in Senders, EnqueueRefused(p)
      PROVE  FALSE
  <2>1. Accepts /\ next <= held[p] /\ linkUp /\ held[p] \in Nat /\ next \in Nat
    BY <1>0, <1>3, RoomInHeap, QueueAssumption
    DEF EnqueueRefused, Undisturbed, TypeOK
  <2> QED BY <1>3, <2>1 DEF EnqueueRefused
<1>4. ASSUME NEW p \in Senders, EnqueueSends(p)
      PROVE  Undisturbed'
  BY <1>0, <1>4, SendsUndisturbed
<1>5. ASSUME NEW p \in Senders, EnqueueParks(p)
      PROVE  Undisturbed'
  BY <1>0, <1>5, ParksUndisturbed
<1>6. CASE HandleAck
  BY <1>6, QuietUndisturbed DEF HandleAck, AckMessagesUpTo
<1>7. CASE HandleStart
  BY <1>7 DEF HandleStart, FaultFree
<1>8. CASE ResyncSequence
  <2>1. acking \in OnWire /\ acking # None
    BY <1>8 DEF ResyncSequence, IInv, Frontier, Undisturbed
  <2>2. PICK i \in DOMAIN wire : wire[i] = acking
    BY <2>1 DEF OnWire, ToSet
  <2>3. acking < next /\ acking \in Nat /\ next \in Nat
    BY <2>2, <1>0, QueueAssumption DEF IInv, Frontier, TypeOK
  <2>4. next' = next /\ waiting' = waiting
    BY <1>8, <2>3 DEF ResyncSequence, ResyncNext
  <2> QED BY <1>8, <2>4, QuietUndisturbed DEF ResyncSequence
<1>9. CASE CleanupExpiredMessages
  <2>1. waiting' = waiting
    BY <1>9 DEF CleanupExpiredMessages, FaultFree
  <2> QED BY <1>9, <2>1, QuietUndisturbed DEF CleanupExpiredMessages, ackVars
<1>10. CASE RetryTimedOutMessages
  BY <1>10, QuietUndisturbed DEF RetryTimedOutMessages, ackVars
<1>11. CASE LinkDown \/ Stop
  BY <1>11 DEF LinkDown, Stop, FaultFree, Undisturbed
<1>12. CASE UNCHANGED vars
  BY <1>12, QuietUndisturbed DEF vars
<1> QED
  BY <1>1, <1>2, <1>3, <1>4, <1>5, <1>6, <1>7, <1>8, <1>9, <1>10, <1>11, <1>12
  DEF Next, EnqueueMessage

\* Without faults, when messages are parked the number they wait for is with a
\* running sender: reordering between NewServerSeq and EnqueueMessage alone never
\* stalls a session.
THEOREM NoStall ==
  ASSUME FaultFree
  PROVE  Spec => []GapIsInFlight
<1>1. IInv /\ Undisturbed => GapIsInFlight
  <2> SUFFICES ASSUME IInv, Undisturbed, NEW w \in waiting
               PROVE  next \in Held
    BY DEF GapIsInFlight
  <2>1. next \in 1..serverSeq /\ next \notin waiting /\ next # None
    BY QueueAssumption DEF Undisturbed, IInv, TypeOK, Seqs, None
  <2>2. PICK p \in Senders : held[p] = next
    BY <2>1 DEF Undisturbed
  <2> QED BY <2>1, <2>2 DEF Held
<1> QED
  BY <1>1, InitUndisturbed, NextUndisturbed, InductiveInvariant, PTL DEF Spec

-----------------------------------------------------------------------------
(* Acknowledged messages are not written again                             *)

\* One step writes only numbers above the acknowledged one, or covered by the ACK
\* that is being applied.
LEMMA StepRewritesNoAcked ==
  ASSUME IInv, [Next]_vars
  PROVE  \A i \in (Len(wire) + 1)..Len(wire') :
           wire'[i] > lastAcked \/ wire'[i] <= acking
<1> DEFINE Goal == \A i \in (Len(wire) + 1)..Len(wire') :
                     wire'[i] > lastAcked \/ wire'[i] <= acking
<1>0. Len(wire) \in Nat /\ lastAcked \in Nat /\ acking \in Nat /\ next \in Nat
  BY QueueAssumption DEF IInv, TypeOK
<1>1. ASSUME UNCHANGED wire
      PROVE  Goal
  BY <1>0, <1>1
<1>2. ASSUME NEW p \in Senders, EnqueueSends(p)
      PROVE  Goal
  <2>1. PICK last \in held[p]..MaxSeq :
          /\ held[p] \in Seqs /\ held[p] = next
          /\ Len(wire') = Len(wire) + (last - held[p] + 1)
          /\ \A i \in (Len(wire) + 1)..(Len(wire) + (last - held[p] + 1)) :
               wire'[i] = held[p] + (i - Len(wire)) - 1
    BY <1>2, SendsShape
  <2>2. lastAcked < next \/ lastAcked = acking
    BY DEF IInv, Frontier
  <2> SUFFICES ASSUME NEW i \in (Len(wire) + 1)..Len(wire')
               PROVE  wire'[i] > lastAcked \/ wire'[i] <= acking
    OBVIOUS
  <2>3. wire'[i] = next + (i - Len(wire)) - 1
    BY <2>1
  <2> QED BY <2>2, <2>3, <1>0
<1>3. CASE RetryTimedOutMessages
  <2>1. \A i \in (Len(wire) + 1)..Len(wire') : wire'[i] \in sent
    BY <1>3, RetryShape
  <2>2. \A s \in sent : s > lastAcked \/ s <= acking
    BY <1>0 DEF IInv, SentWindow, TypeOK, Seqs
  <2> QED BY <2>1, <2>2
<1>4. CASE UNCHANGED vars
  BY <1>1, <1>4 DEF vars
<1>5. CASE HandleAck \/ HandleStart \/ ResyncSequence \/ CleanupExpiredMessages
           \/ LinkDown \/ Stop
  <2>1. UNCHANGED wire
    BY <1>5 DEF HandleAck, HandleStart, AckMessagesUpTo, ResyncSequence,
                CleanupExpiredMessages, LinkDown, Stop
  <2> QED BY <1>1, <2>1
<1>6. ASSUME NEW p \in Senders, NewServerSeq(p) \/ Refuse(p) \/ EnqueueParks(p)
      PROVE  Goal
  <2>1. UNCHANGED wire
    BY <1>6 DEF NewServerSeq, Refuse, EnqueueParks
  <2> QED BY <1>1, <2>1
<1> QED
  BY <1>2, <1>3, <1>4, <1>5, <1>6 DEF Next, EncodeFails, EnqueueMessage, EnqueueRefused

\* The cleanup goroutine and the senders never write a number the client has
\* already acknowledged, the window of an unfinished ACK excepted.
THEOREM AckedStaysSilent == Spec => NoRewriteOfAcked
<1>1. IInv /\ [Next]_vars =>
        [\A i \in (Len(wire) + 1)..Len(wire') :
           wire'[i] > lastAcked \/ wire'[i] <= acking]_vars
  BY StepRewritesNoAcked
<1> QED BY <1>1, InductiveInvariant, PTL DEF Spec, NoRewriteOfAcked

-----------------------------------------------------------------------------
(* The fate of every number                                                *)

\* A sender gives its number to one of the other sets, or forgets it there.
LEMMA HeldWithout ==
  ASSUME TypeOK, Apart, NEW p \in Senders, held[p] # None,
         held' = [held EXCEPT ![p] = None]
  PROVE  /\ Held = Held' \cup {held[p]} /\ held[p] \notin Held'
         /\ \A q, r \in Senders : held'[q] = held'[r] /\ held'[q] # None => q = r
<1>1. /\ held'[p] = None
      /\ \A q \in Senders \ {p} : held'[q] = held[q]
  BY DEF TypeOK
<1>2. \A q, r \in Senders : held[q] = held[r] /\ held[q] # None => q = r
  BY DEF Apart
<1>3. \A q \in Senders : q # p => held[q] # held[p]
  BY <1>2
<1>4. ASSUME NEW s
      PROVE  s \in Held' <=> s # None /\ \E q \in Senders \ {p} : held[q] = s
  BY <1>1 DEF Held
<1>5. ASSUME NEW s
      PROVE  s \in Held <=> s # None /\ \E q \in Senders : held[q] = s
  BY DEF Held
<1>6. Held = Held' \cup {held[p]} /\ held[p] \notin Held'
  BY <1>3, <1>4, <1>5
<1>7. \A q, r \in Senders : held'[q] = held'[r] /\ held'[q] # None => q = r
  BY <1>1, <1>2
<1> QED BY <1>6, <1>7

\* A session that has drawn no number.
LEMMA InitApart == Init => Apart
<1> SUFFICES ASSUME Init
             PROVE  Apart
  OBVIOUS
<1>1. Held = {} /\ OnWire = {} /\ 1..serverSeq = {}
  BY DEF Init, Held, OnWire, ToSet
<1> QED BY <1>1 DEF Init, Apart

\* A step that moves no number.
LEMMA QuietApart ==
  ASSUME Apart, UNCHANGED <<serverSeq, held, waiting, wire, refused, dropped>>
  PROVE  Apart'
BY DEF Apart, Held, OnWire

\* A step that takes numbers out of the heap without writing them drops them.
LEMMA DropApart ==
  ASSUME Apart, UNCHANGED <<serverSeq, held, wire, refused>>,
         NEW S, waiting' = waiting \ S, dropped' = dropped \cup (waiting \cap S)
  PROVE  Apart'
<1>1. Held' = Held /\ OnWire' = OnWire
  BY DEF Held, OnWire
<1> QED BY <1>1 DEF Apart

\* NewServerSeq draws a number that is nowhere yet.
LEMMA DrawApart ==
  ASSUME TypeOK, Apart, NEW p \in Senders, NewServerSeq(p)
  PROVE  Apart'
<1>1. /\ serverSeq' = serverSeq + 1 /\ serverSeq \in Nat
      /\ held' = [held EXCEPT ![p] = serverSeq + 1]
      /\ held[p] = None
      /\ UNCHANGED <<waiting, wire, refused, dropped>>
  BY QueueAssumption DEF NewServerSeq, queueVars, TypeOK
<1>2. /\ held'[p] = serverSeq + 1
      /\ \A q \in Senders \ {p} : held'[q] = held[q]
  BY <1>1 DEF TypeOK
<1>3. serverSeq + 1 \notin Held /\ serverSeq + 1 # None
  BY <1>1 DEF Apart, None
<1>4. ASSUME NEW q \in Senders
      PROVE  held[q] # serverSeq + 1
  BY <1>3 DEF Held
<1>5. Held' = Held \cup {serverSeq + 1}
  <2>1. ASSUME NEW s \in Held'
        PROVE  s \in Held \cup {serverSeq + 1}
    BY <1>2 DEF Held
  <2>2. ASSUME NEW s \in Held
        PROVE  s \in Held'
    <3>1. PICK q \in Senders : held[q] = s /\ s # None
      BY DEF Held
    <3>2. held'[q] = s
      BY <1>1, <1>2, <3>1
    <3> QED BY <3>1, <3>2 DEF Held
  <2>3. serverSeq + 1 \in Held'
    BY <1>2, <1>3 DEF Held
  <2> QED BY <2>1, <2>2, <2>3
<1>6. \A q, r \in Senders : held'[q] = held'[r] /\ held'[q] # None => q = r
  BY <1>2, <1>4 DEF Apart
<1>7. 1..serverSeq' = 1..serverSeq \cup {serverSeq + 1} /\ serverSeq + 1 \notin 1..serverSeq
  BY <1>1
<1>8. OnWire' = OnWire
  BY <1>1 DEF OnWire
<1> QED BY <1>1, <1>5, <1>6, <1>7, <1>8 DEF Apart

\* SendOrderedMessage returns an error: the number goes from its sender to refused.
LEMMA RefuseApart ==
  ASSUME TypeOK, Apart, NEW p \in Senders, held[p] # None, Refuse(p)
  PROVE  Apart'
<1>1. /\ Held = Held' \cup {held[p]} /\ held[p] \notin Held'
      /\ \A q, r \in Senders : held'[q] = held'[r] /\ held'[q] # None => q = r
  BY HeldWithout DEF Refuse
<1>2. /\ refused' = refused \cup {held[p]}
      /\ UNCHANGED <<serverSeq, waiting, wire, dropped>>
  BY DEF Refuse, queueVars
<1>3. OnWire' = OnWire
  BY <1>2 DEF OnWire
<1> QED BY <1>1, <1>2, <1>3 DEF Apart

\* EnqueueMessage parks the number of its sender.
LEMMA ParksApart ==
  ASSUME TypeOK, Apart, NEW p \in Senders, EnqueueParks(p)
  PROVE  Apart'
<1>1. held[p] # None
  BY QueueAssumption DEF EnqueueParks, TypeOK, None
<1>2. /\ Held = Held' \cup {held[p]} /\ held[p] \notin Held'
      /\ \A q, r \in Senders : held'[q] = held'[r] /\ held'[q] # None => q = r
  BY <1>1, HeldWithout DEF EnqueueParks
<1>3. /\ waiting' = waiting \cup {held[p]}
      /\ UNCHANGED <<serverSeq, wire, refused, dropped>>
  BY DEF EnqueueParks
<1>4. OnWire' = OnWire
  BY <1>3 DEF OnWire
<1> QED BY <1>2, <1>3, <1>4 DEF Apart

\* EnqueueMessage writes the number of its sender, and the drain those it takes
\* from the heap.
LEMMA SendsApart ==
  ASSUME IInv, Apart, NEW p \in Senders, EnqueueSends(p)
  PROVE  Apart'
<1>0. held[p] # None /\ TypeOK
  BY DEF EnqueueSends, IInv
<1>1. PICK last \in held[p]..MaxSeq :
        /\ DrainTo(held[p], last)
        /\ wire' = wire \o Run(held[p], last)
        /\ waiting' = ParkedAfter(held[p], last)
  BY DEF EnqueueSends
<1>2. held[p] \in Seqs /\ held[p] \in Nat /\ last \in Nat
  BY <1>0, QueueAssumption DEF TypeOK, Seqs, None
<1>3. OnWire' = OnWire \cup held[p]..last
  <2>1. Run(held[p], last) \in Seq(Seqs) /\ ToSet(Run(held[p], last)) = held[p]..last
    BY <1>2, RunFacts
  <2>2. wire \in Seq(Seqs)
    BY <1>0 DEF TypeOK
  <2>3. PICK run \in Seq(Seqs) : run = Run(held[p], last)
    BY <2>1
  <2>4. ToSet(wire \o run) = ToSet(wire) \cup ToSet(run)
    BY <2>2, ConcatFacts
  <2> QED BY <1>1, <2>1, <2>3, <2>4 DEF OnWire
<1>4. /\ Held = Held' \cup {held[p]} /\ held[p] \notin Held'
      /\ \A q, r \in Senders : held'[q] = held'[r] /\ held'[q] # None => q = r
  BY <1>0, HeldWithout DEF EnqueueSends
<1>5. /\ (held[p] + 1)..last \subseteq waiting
      /\ waiting' = waiting \ held[p]..last
      /\ UNCHANGED <<serverSeq, refused, dropped>>
  BY <1>1 DEF DrainTo, ParkedAfter, EnqueueSends
<1>6. held[p]..last = {held[p]} \cup (held[p] + 1)..last
  BY <1>2
<1> DEFINE R == (held[p] + 1)..last
<1>7. /\ R \subseteq waiting
      /\ OnWire' = OnWire \cup {held[p]} \cup R
      /\ waiting' = waiting \ ({held[p]} \cup R)
  BY <1>3, <1>5, <1>6
<1> HIDE DEF R
<1> QED BY <1>4, <1>5, <1>7 DEF Apart

\* A rewrite writes nothing that was not written before.
LEMMA RetryApart ==
  ASSUME IInv, Apart, RetryTimedOutMessages
  PROVE  Apart'
<1>1. OnWire' = OnWire
  BY RetryShape
<1>2. UNCHANGED <<serverSeq, held, waiting, refused, dropped>>
  BY DEF RetryTimedOutMessages
<1>3. Held' = Held
  BY <1>2 DEF Held
<1> QED BY <1>1, <1>2, <1>3 DEF Apart

\* Every step of the send path moves numbers from one fate to another: one step
\* per action.
LEMMA NextApart == IInv /\ Apart /\ [Next]_vars => Apart'
<1> SUFFICES ASSUME IInv, Apart, [Next]_vars
             PROVE  Apart'
  OBVIOUS
<1>0. TypeOK
  BY DEF IInv
<1>1. ASSUME NEW p \in Senders, NewServerSeq(p)
      PROVE  Apart'
  BY <1>0, <1>1, DrawApart
<1>2. ASSUME NEW p \in Senders, held[p] # None, Refuse(p)
      PROVE  Apart'
  BY <1>0, <1>2, RefuseApart
<1>3. ASSUME NEW p \in Senders, EnqueueSends(p)
      PROVE  Apart'
  BY <1>3, SendsApart
<1>4. ASSUME NEW p \in Senders, EnqueueParks(p)
      PROVE  Apart'
  BY <1>0, <1>4, ParksApart
<1>5. CASE HandleAck \/ HandleStart
  BY <1>5, QuietApart DEF HandleAck, HandleStart, AckMessagesUpTo
<1>6. CASE ResyncSequence
  <2> DEFINE passed == {s \in waiting : acking >= next /\ s <= acking}
  <2>1. /\ waiting' = waiting \ passed /\ dropped' = dropped \cup (waiting \cap passed)
        /\ UNCHANGED <<serverSeq, held, wire, refused>>
    BY <1>6 DEF ResyncSequence
  <2> HIDE DEF passed
  <2> QED BY <2>1, DropApart
<1>7. CASE CleanupExpiredMessages
  <2>1. PICK overdue \in SUBSET waiting :
          /\ waiting' = waiting \ overdue
          /\ dropped' = dropped \cup overdue
          /\ UNCHANGED <<serverSeq, held, wire, refused>>
    BY <1>7 DEF CleanupExpiredMessages, ackVars
  <2>2. overdue = waiting \cap overdue
    BY <2>1
  <2> QED BY <2>1, <2>2, DropApart
<1>8. CASE RetryTimedOutMessages
  BY <1>8, RetryApart
<1>9. CASE LinkDown
  BY <1>9, QuietApart DEF LinkDown, queueVars
<1>10. CASE Stop
  <2>1. /\ waiting' = waiting \ waiting /\ dropped' = dropped \cup (waiting \cap waiting)
        /\ UNCHANGED <<serverSeq, held, wire, refused>>
    BY <1>10 DEF Stop
  <2> QED BY <2>1, DropApart
<1>11. CASE UNCHANGED vars
  BY <1>11, QuietApart DEF vars
<1> QED
  BY <1>1, <1>2, <1>3, <1>4, <1>5, <1>6, <1>7, <1>8, <1>9, <1>10, <1>11
  DEF Next, EncodeFails, EnqueueMessage, EnqueueRefused

\* A number that was drawn is in exactly one of five disjoint sets.
LEMMA ApartIsOneFate == Apart => OneFate
<1> SUFFICES ASSUME Apart, NEW s \in 1..serverSeq
             PROVE  Cardinality({i \in DOMAIN Fates : s \in Fates[i]}) = 1
  BY DEF OneFate
<1>1. /\ DOMAIN Fates = {1, 2, 3, 4, 5}
      /\ Fates[1] = Held /\ Fates[2] = waiting /\ Fates[3] = OnWire
      /\ Fates[4] = refused /\ Fates[5] = dropped
  BY DEF Fates
<1>2. \E i \in {1, 2, 3, 4, 5} : s \in Fates[i]
  BY <1>1 DEF Apart
<1>3. ASSUME NEW i \in {1, 2, 3, 4, 5}, NEW j \in {1, 2, 3, 4, 5},
             s \in Fates[i], s \in Fates[j]
      PROVE  i = j
  BY <1>1, <1>3 DEF Apart
<1>4. PICK i \in {1, 2, 3, 4, 5} : s \in Fates[i]
  BY <1>2
<1>5. \A j \in {1, 2, 3, 4, 5} : s \in Fates[j] => j = i
  BY <1>3, <1>4
<1>6. {j \in DOMAIN Fates : s \in Fates[j]} = {i}
  BY <1>1, <1>4, <1>5
<1> QED BY <1>6, FS_Singleton

\* Every number a sender drew is with its sender, parked, written, refused or
\* dropped, and only one of these: no error for what the client gets, and nothing
\* vanishes.
THEOREM FateIsDecidedOnce == Spec => []OneFate
BY InitApart, NextApart, ApartIsOneFate, InductiveInvariant, PTL DEF Spec

-----------------------------------------------------------------------------
(* How often a message was written                                         *)

\* Where s stands in a sequence.
Places(w, s) == {i \in DOMAIN w : w[i] = s}

\* There are finitely many such places, none when s is not in the sequence.
LEMMA PlacesFacts ==
  ASSUME NEW S, NEW w \in Seq(S), NEW s
  PROVE  /\ IsFiniteSet(Places(w, s)) /\ Cardinality(Places(w, s)) \in Nat
         /\ s \notin ToSet(w) => Cardinality(Places(w, s)) = 0
<1> DEFINE places == Places(w, s)
<1> USE DEF Places
<1>1. IsFiniteSet(1..Len(w)) /\ DOMAIN w = 1..Len(w)
  BY FS_Interval, LenProperties
<1>2. places \subseteq 1..Len(w)
  BY <1>1
<1>3. IsFiniteSet(places)
  BY <1>1, <1>2, FS_Subset
<1>4. Cardinality(places) \in Nat
  BY <1>3, FS_CardinalityType
<1>5. s \notin ToSet(w) => places = {}
  BY DEF ToSet
<1>6. s \notin ToSet(w) => Cardinality(places) = 0
  BY <1>5, FS_EmptySet
<1> QED BY <1>3, <1>4, <1>6

\* A sequence without repetitions that is appended adds one place to each of its
\* elements.
LEMMA PlacesAppended ==
  ASSUME NEW S, NEW w \in Seq(S), NEW b \in Seq(S), NEW s,
         \A i, j \in 1..Len(b) : b[i] = b[j] => i = j
  PROVE  Cardinality(Places(w \o b, s)) =
           IF s \in ToSet(b) THEN Cardinality(Places(w, s)) + 1
           ELSE Cardinality(Places(w, s))
<1> DEFINE v == w \o b
           L == Len(w)
           old == Places(w, s)
           new == Places(v, s)
<1> USE DEF Places
<1>1. /\ L \in Nat /\ DOMAIN w = 1..L
      /\ Len(b) \in Nat /\ DOMAIN b = 1..Len(b)
  BY LenProperties
<1>2. /\ DOMAIN v = 1..(L + Len(b))
      /\ \A i \in 1..L : v[i] = w[i]
      /\ \A i \in (L + 1)..(L + Len(b)) : v[i] = b[i - L]
  <2>1. /\ v \in Seq(S) /\ Len(v) = L + Len(b)
        /\ \A i \in 1..L : v[i] = w[i]
        /\ \A i \in (L + 1)..(L + Len(b)) : v[i] = b[i - L]
    BY ConcatFacts
  <2>2. DOMAIN v = 1..Len(v)
    BY <2>1, LenProperties
  <2> QED BY <2>1, <2>2
<1> HIDE DEF v, L
<1>3. old \subseteq new
  BY <1>1, <1>2
<1>4. ASSUME NEW i \in new, i \notin old
      PROVE  i \in (L + 1)..(L + Len(b)) /\ i - L \in 1..Len(b) /\ b[i - L] = s
  <2>1. i \in 1..(L + Len(b)) /\ v[i] = s
    BY <1>2
  <2>2. ~(i <= L)
    BY <1>1, <1>2, <1>4, <2>1
  <2>3. i \in (L + 1)..(L + Len(b)) /\ i - L \in 1..Len(b)
    BY <1>1, <2>1, <2>2
  <2> QED BY <1>2, <2>1, <2>3
<1>5. CASE s \notin ToSet(b)
  <2>1. \A k \in 1..Len(b) : b[k] # s
    BY <1>1, <1>5 DEF ToSet
  <2>2. new = old
    BY <1>3, <1>4, <2>1
  <2> QED BY <1>5, <2>2 DEF v
<1>6. CASE s \in ToSet(b)
  <2>1. PICK k \in 1..Len(b) : b[k] = s
    BY <1>1, <1>6 DEF ToSet
  <2>2. L + k \in (L + 1)..(L + Len(b)) /\ (L + k) - L = k /\ L + k \in 1..(L + Len(b))
    BY <1>1, <2>1
  <2>3. L + k \in new
    BY <1>2, <2>1, <2>2
  <2>4. L + k \notin old
    BY <1>1, <2>1
  <2>5. ASSUME NEW i \in new, i \notin old
        PROVE  i = L + k
    <3>1. i \in (L + 1)..(L + Len(b)) /\ i - L \in 1..Len(b) /\ b[i - L] = s
      BY <1>4, <2>5
    <3>2. i - L = k
      BY <2>1, <3>1
    <3> QED BY <1>1, <2>1, <3>1, <3>2
  <2>6. new = old \cup {L + k}
    BY <1>3, <2>3, <2>5
  <2>7. IsFiniteSet(old)
    <3> HIDE DEF Places
    <3> QED BY PlacesFacts
  <2>8. Cardinality(new) = Cardinality(old) + 1
    BY <2>4, <2>6, <2>7, FS_AddElement
  <2> QED BY <1>6, <2>8 DEF v
<1> QED BY <1>5, <1>6

\* What was never written was written no times.
LEMMA WritesFacts ==
  ASSUME TypeOK, NEW s
  PROVE  Writes(s) \in Nat /\ (s \notin OnWire => Writes(s) = 0)
<1>1. wire \in Seq(Seqs)
  BY DEF TypeOK
<1>2. Writes(s) = Cardinality(Places(wire, s))
  BY DEF Writes, Places
<1> QED BY <1>1, <1>2, PlacesFacts DEF OnWire

\* EnqueueMessage writes each number of its run once.
LEMMA SendsWrites ==
  ASSUME TypeOK, NEW first \in Seqs, NEW last \in first..MaxSeq, NEW s,
         wire' = wire \o Run(first, last)
  PROVE  /\ Writes(s)' = IF s \in first..last THEN Writes(s) + 1 ELSE Writes(s)
         /\ OnWire' = OnWire \cup first..last
<1>1. wire \in Seq(Seqs)
  BY DEF TypeOK
<1>2. /\ Run(first, last) \in Seq(Seqs) /\ Len(Run(first, last)) = last - first + 1
      /\ \A k \in 1..(last - first + 1) : Run(first, last)[k] = first + k - 1
      /\ ToSet(Run(first, last)) = first..last
  BY RunFacts
<1>3. PICK run \in Seq(Seqs) : run = Run(first, last)
  BY <1>2
<1>4. first \in Nat /\ last \in Nat
  BY QueueAssumption DEF Seqs
<1>5. \A i, j \in 1..Len(run) : run[i] = run[j] => i = j
  <2>1. Len(run) = last - first + 1 /\ \A k \in 1..Len(run) : run[k] = first + k - 1
    BY <1>2, <1>3
  <2> SUFFICES ASSUME NEW i \in 1..Len(run), NEW j \in 1..Len(run), run[i] = run[j]
               PROVE  i = j
    OBVIOUS
  <2>2. first + i - 1 = first + j - 1
    BY <2>1
  <2> QED BY <1>4, <2>1, <2>2
<1>6. wire' = wire \o run /\ ToSet(run) = first..last
  BY <1>2, <1>3
<1>7. Writes(s)' = IF s \in ToSet(run) THEN Writes(s) + 1 ELSE Writes(s)
  <2>1. Writes(s) = Cardinality(Places(wire, s))
        /\ Writes(s)' = Cardinality(Places(wire', s))
    BY DEF Writes, Places
  <2>2. Cardinality(Places(wire \o run, s)) =
          IF s \in ToSet(run) THEN Cardinality(Places(wire, s)) + 1
          ELSE Cardinality(Places(wire, s))
    BY <1>1, <1>5, PlacesAppended
  <2> QED BY <1>6, <2>1, <2>2
<1>8. OnWire' = OnWire \cup ToSet(run)
  <2>1. ToSet(wire \o run) = ToSet(wire) \cup ToSet(run)
    BY <1>1, ConcatFacts
  <2> QED BY <1>6, <2>1 DEF OnWire
<1> QED BY <1>6, <1>7, <1>8

\* The cleanup goroutine writes each number of its batch once.
LEMMA RetryWrites ==
  ASSUME TypeOK, NEW batch \in Batches({s \in Seqs : Retriable(s)}), NEW s,
         wire' = wire \o batch
  PROVE  /\ Writes(s)' = IF s \in ToSet(batch) THEN Writes(s) + 1 ELSE Writes(s)
         /\ OnWire' = OnWire \cup ToSet(batch)
         /\ ToSet(batch) \subseteq {k \in Seqs : Retriable(k)}
<1>1. wire \in Seq(Seqs)
  BY DEF TypeOK
<1> DEFINE R == {k \in Seqs : Retriable(k)}
<1>2. batch \in Seq(R) /\ ToSet(batch) \subseteq R
  BY BatchFacts
<1>3. batch \in Seq(Seqs)
  BY <1>2
<1>4. \A i, j \in 1..Len(batch) : batch[i] = batch[j] => i = j
  <2>1. IsInjective(batch) /\ DOMAIN batch = 1..Len(batch)
    BY <1>3, LenProperties DEF Batches
  <2> QED BY <2>1 DEF IsInjective
<1>5. Writes(s)' = IF s \in ToSet(batch) THEN Writes(s) + 1 ELSE Writes(s)
  <2>1. Writes(s) = Cardinality(Places(wire, s))
        /\ Writes(s)' = Cardinality(Places(wire', s))
    BY DEF Writes, Places
  <2>2. Cardinality(Places(wire \o batch, s)) =
          IF s \in ToSet(batch) THEN Cardinality(Places(wire, s)) + 1
          ELSE Cardinality(Places(wire, s))
    BY <1>1, <1>3, <1>4, PlacesAppended
  <2> QED BY <2>1, <2>2
<1>6. OnWire' = OnWire \cup ToSet(batch)
  <2>1. ToSet(wire \o batch) = ToSet(wire) \cup ToSet(batch)
    BY <1>1, <1>3, ConcatFacts
  <2> QED BY <2>1 DEF OnWire
<1> QED BY <1>2, <1>5, <1>6

\* A step that writes nothing, and keeps whatever it does not acknowledge or give up.
LEMMA QuietBooks ==
  ASSUME TypeOK, NEW s \in Seqs, NEW n \in Nat, CountedFrom(s, n),
         UNCHANGED <<wire, retries>>, sent' \subseteq sent, lastAcked' \in Nat,
         lastAcked <= lastAcked',
         s \in sent => s \in sent' \/ s <= lastAcked' \/ Exhausted(s)
  PROVE  CountedFrom(s, n)' /\ (SettledFrom(s, n) => SettledFrom(s, n)')
<1>1. Writes(s)' = Writes(s) /\ Writes(s) \in Nat
  BY WritesFacts DEF Writes
<1>2. CountedFrom(s, n)'
  BY <1>1 DEF CountedFrom
<1>3. s \in Nat /\ lastAcked \in Nat /\ retries[s] \in Nat
  BY QueueAssumption DEF Seqs, TypeOK
<1>4. ASSUME SettledFrom(s, n), s \notin sent', ~(s <= lastAcked')
      PROVE  n + Writes(s) = MaxRetries + 1
  BY <1>1, <1>3, <1>4, QueueAssumption DEF CountedFrom, SettledFrom, Exhausted
<1> QED BY <1>1, <1>2, <1>4 DEF SettledFrom

\* An acknowledgement takes from what is kept only what it covers.
LEMMA AckBooks ==
  ASSUME TypeOK, NEW s \in Seqs, NEW n \in Nat, CountedFrom(s, n),
         NEW a \in Nat, AckMessagesUpTo(a)
  PROVE  CountedFrom(s, n)' /\ (SettledFrom(s, n) => SettledFrom(s, n)')
<1>1. lastAcked \in Nat /\ s \in Nat
  BY QueueAssumption DEF TypeOK, Seqs
<1>2. /\ UNCHANGED <<wire, retries>> /\ sent' \subseteq sent
      /\ s \in sent => s \in sent' \/ s <= a
  BY DEF AckMessagesUpTo, Covered
<1>3. lastAcked' \in Nat /\ lastAcked <= lastAcked' /\ a <= lastAcked'
  BY <1>1 DEF AckMessagesUpTo, Larger
<1>4. s <= a => s <= lastAcked'
  BY <1>1, <1>3
<1> QED BY <1>2, <1>3, <1>4, QuietBooks

\* A message written for the first time is kept with no rewrite counted.
LEMMA SendsBooks ==
  ASSUME TypeOK, NEW s \in Seqs, NEW n \in Nat, CountedFrom(s, n),
         NEW p \in Senders, EnqueueSends(p),
         next <= s => n = 0 /\ s \notin OnWire
  PROVE  /\ CountedFrom(s, n)' /\ (SettledFrom(s, n) => SettledFrom(s, n)')
         /\ s \in OnWire' => s \in OnWire \/ s \in sent'
<1>1. held[p] \in Seqs /\ held[p] = next
  BY QueueAssumption DEF EnqueueSends, Due, TypeOK, Seqs, None
<1>2. PICK last \in held[p]..MaxSeq :
        /\ wire' = wire \o Run(held[p], last)
        /\ sent' = sent \cup held[p]..last
        /\ retries' = [k \in Seqs |-> IF k \in held[p]..last THEN 0 ELSE retries[k]]
  BY DEF EnqueueSends
<1>3. /\ Writes(s)' = IF s \in held[p]..last THEN Writes(s) + 1 ELSE Writes(s)
      /\ OnWire' = OnWire \cup held[p]..last
  BY <1>1, <1>2, SendsWrites
<1>4. UNCHANGED lastAcked
  BY DEF EnqueueSends
<1>5. CASE s \in held[p]..last
  <2>1. n = 0 /\ Writes(s) = 0
    BY <1>1, <1>5, WritesFacts, QueueAssumption DEF Seqs
  <2>2. Writes(s)' = 1 /\ retries'[s] = 0 /\ s \in sent'
    BY <1>2, <1>3, <1>5, <2>1
  <2> QED BY <2>1, <2>2, QueueAssumption DEF CountedFrom, SettledFrom
<1>6. CASE s \notin held[p]..last
  <2>1. /\ Writes(s)' = Writes(s) /\ retries'[s] = retries[s]
        /\ s \in sent' <=> s \in sent
        /\ s \in OnWire' <=> s \in OnWire
    BY <1>2, <1>3, <1>6
  <2> QED BY <1>4, <2>1 DEF CountedFrom, SettledFrom
<1> QED BY <1>5, <1>6

\* A rewrite is counted, and only a message that is kept is rewritten.
LEMMA RetryBooks ==
  ASSUME TypeOK, NEW s \in Seqs, NEW n \in Nat, CountedFrom(s, n),
         RetryTimedOutMessages
  PROVE  /\ CountedFrom(s, n)' /\ (SettledFrom(s, n) => SettledFrom(s, n)')
         /\ s \in OnWire' => s \in OnWire \/ s \in sent'
<1>1. PICK batch \in Batches({k \in Seqs : Retriable(k)}) :
        /\ wire' = wire \o batch
        /\ retries' = [k \in Seqs |-> IF k \in ToSet(batch) THEN retries[k] + 1
                                      ELSE retries[k]]
  BY DEF RetryTimedOutMessages
<1>2. /\ Writes(s)' = IF s \in ToSet(batch) THEN Writes(s) + 1 ELSE Writes(s)
      /\ OnWire' = OnWire \cup ToSet(batch)
      /\ ToSet(batch) \subseteq {k \in Seqs : Retriable(k)}
  BY <1>1, RetryWrites
<1>3. UNCHANGED <<sent, lastAcked>>
  BY DEF RetryTimedOutMessages
<1>4. Writes(s) \in Nat /\ retries[s] \in Nat
  BY WritesFacts, QueueAssumption DEF TypeOK
<1>5. CASE s \in ToSet(batch)
  <2>1. s \in sent /\ retries[s] < MaxRetries
    BY <1>2, <1>5 DEF Retriable
  <2>2. Writes(s)' = Writes(s) + 1 /\ retries'[s] = retries[s] + 1 /\ s \in sent'
    BY <1>1, <1>2, <1>3, <1>5, <2>1
  <2> QED BY <1>3, <1>4, <2>1, <2>2, QueueAssumption DEF CountedFrom, SettledFrom
<1>6. CASE s \notin ToSet(batch)
  <2>1. /\ Writes(s)' = Writes(s) /\ retries'[s] = retries[s]
        /\ s \in OnWire' <=> s \in OnWire
    BY <1>1, <1>2, <1>6
  <2> QED BY <1>3, <2>1 DEF CountedFrom, SettledFrom
<1> QED BY <1>5, <1>6

\* Whatever a queue does before it is stopped, the books of a message stay right,
\* provided that it is not written for the first time twice: one step per action.
LEMMA StepBooks ==
  ASSUME TypeOK, TypeOK', [Next]_vars, UNCHANGED stopped,
         NEW s \in Seqs, NEW n \in Nat, CountedFrom(s, n),
         \A p \in Senders : held[p] # None /\ held[p] = next /\ next <= s =>
                              n = 0 /\ s \notin OnWire
  PROVE  /\ CountedFrom(s, n)' /\ (SettledFrom(s, n) => SettledFrom(s, n)')
         /\ s \in OnWire' => s \in OnWire \/ s \in sent'
<1> DEFINE Goal == /\ CountedFrom(s, n)' /\ (SettledFrom(s, n) => SettledFrom(s, n)')
                   /\ s \in OnWire' => s \in OnWire \/ s \in sent'
<1> SUFFICES Goal
  OBVIOUS
<1>0. /\ lastAcked \in Nat /\ lastAcked' \in Nat /\ s \in Nat
      /\ acking \in Nat /\ s \in Seqs
  BY QueueAssumption DEF TypeOK, Seqs
<1>1. ASSUME UNCHANGED <<wire, retries>>, sent' \subseteq sent, lastAcked <= lastAcked',
             s \in sent => s \in sent' \/ s <= lastAcked' \/ Exhausted(s)
      PROVE  Goal
  <2>1. OnWire' = OnWire
    BY <1>1 DEF OnWire
  <2>2. CountedFrom(s, n)' /\ (SettledFrom(s, n) => SettledFrom(s, n)')
    BY <1>0, <1>1, QuietBooks
  <2> QED BY <2>1, <2>2
<1>2. ASSUME UNCHANGED <<wire, retries, sent, lastAcked>>
      PROVE  Goal
  BY <1>0, <1>1, <1>2
<1>3. ASSUME NEW p \in Senders, NewServerSeq(p) \/ Refuse(p) \/ EnqueueParks(p)
      PROVE  Goal
  <2>1. UNCHANGED <<wire, retries, sent, lastAcked>>
    BY <1>3 DEF NewServerSeq, Refuse, EnqueueParks, queueVars
  <2> QED BY <1>2, <2>1
<1>4. ASSUME NEW p \in Senders, EnqueueSends(p)
      PROVE  Goal
  <2>1. held[p] # None /\ held[p] = next
    BY <1>4 DEF EnqueueSends, Due
  <2>2. next <= s => n = 0 /\ s \notin OnWire
    BY <2>1
  <2> QED BY <1>4, <2>2, SendsBooks
<1>5. ASSUME NEW a \in Nat, AckMessagesUpTo(a)
      PROVE  Goal
  <2>1. CountedFrom(s, n)' /\ (SettledFrom(s, n) => SettledFrom(s, n)')
    BY <1>5, AckBooks
  <2>2. OnWire' = OnWire
    BY <1>5 DEF AckMessagesUpTo, OnWire
  <2> QED BY <2>1, <2>2
<1>6. CASE HandleAck
  <2>1. PICK a \in OnWire : AckMessagesUpTo(a)
    BY <1>6 DEF HandleAck
  <2>2. a \in Seqs
    <3>1. wire \in Seq(Seqs)
      BY DEF TypeOK
    <3>2. \A i \in DOMAIN wire : wire[i] \in Seqs
      BY <3>1
    <3> QED BY <3>2 DEF OnWire, ToSet
  <2>3. a \in Nat
    BY <2>2, QueueAssumption DEF Seqs
  <2> QED BY <1>5, <2>1, <2>3
<1>7. CASE HandleStart
  <2>1. PICK a \in Seqs : AckMessagesUpTo(a)
    BY <1>7 DEF HandleStart
  <2>2. a \in Nat
    BY QueueAssumption DEF Seqs
  <2> QED BY <1>5, <2>1, <2>2
<1>8. CASE ResyncSequence
  <2>1. /\ UNCHANGED <<wire, retries>> /\ sent' \subseteq sent
        /\ s \in sent => s \in sent' \/ s <= acking
    BY <1>8 DEF ResyncSequence, Covered
  <2>2. lastAcked <= lastAcked' /\ acking <= lastAcked'
    BY <1>0, <1>8 DEF ResyncSequence, Larger
  <2>3. s <= acking => s <= lastAcked'
    BY <1>0, <2>2
  <2> QED BY <1>1, <2>1, <2>2, <2>3
<1>9. CASE CleanupExpiredMessages
  <2>1. PICK forgotten \in SUBSET {k \in sent : Exhausted(k)} :
          sent' = sent \ forgotten /\ UNCHANGED <<wire, retries, lastAcked>>
    BY <1>9 DEF CleanupExpiredMessages, ackVars
  <2>2. s \in sent => s \in sent' \/ Exhausted(s)
    BY <2>1
  <2> QED BY <1>0, <1>1, <2>1, <2>2
<1>10. CASE RetryTimedOutMessages
  BY <1>10, RetryBooks
<1>11. CASE LinkDown
  <2>1. UNCHANGED <<wire, retries, sent, lastAcked>>
    BY <1>11 DEF LinkDown, queueVars
  <2> QED BY <1>2, <2>1
<1>12. CASE Stop
  BY <1>12 DEF Stop
<1>13. CASE UNCHANGED vars
  <2>1. UNCHANGED <<wire, retries, sent, lastAcked>>
    BY <1>13 DEF vars
  <2> QED BY <1>2, <2>1
<1> HIDE DEF Goal
<1> QED
  BY <1>3, <1>4, <1>6, <1>7, <1>8, <1>9, <1>10, <1>11, <1>12, <1>13
  DEF Next, EncodeFails, EnqueueMessage, EnqueueRefused

\* What one step of a queue does to its counters, its stream and the numbers in
\* hand: it writes something new or moves the expected number only if that number
\* is due or acknowledged.
LEMMA StepProgress ==
  ASSUME TypeOK, [Next]_vars
  PROVE  /\ OnWire \subseteq OnWire' /\ sent' \subseteq sent \cup OnWire'
         /\ lastAcked <= lastAcked' /\ serverSeq <= serverSeq'
         /\ \A p \in Senders : held'[p] # None => held'[p] = held[p] \/ serverSeq < held'[p]
         /\ \/ \E p \in Senders : held[p] # None /\ held[p] = next
            \/ OnWire' \subseteq OnWire \cup sent /\ (next' = next \/ next' <= lastAcked' + 1)
<1> DEFINE Goal ==
      /\ OnWire \subseteq OnWire' /\ sent' \subseteq sent \cup OnWire'
      /\ lastAcked <= lastAcked' /\ serverSeq <= serverSeq'
      /\ \A p \in Senders : held'[p] # None => held'[p] = held[p] \/ serverSeq < held'[p]
      /\ \/ \E p \in Senders : held[p] # None /\ held[p] = next
         \/ OnWire' \subseteq OnWire \cup sent /\ (next' = next \/ next' <= lastAcked' + 1)
<1> SUFFICES Goal
  OBVIOUS
<1>0. /\ lastAcked \in Nat /\ serverSeq \in Nat /\ next \in Nat /\ acking \in Nat
      /\ held \in [Senders -> 0..MaxSeq] /\ None \in 0..MaxSeq
  BY QueueAssumption DEF TypeOK, None
<1>1. ASSUME UNCHANGED <<serverSeq, held, next, wire>>, sent' \subseteq sent,
             lastAcked <= lastAcked'
      PROVE  Goal
  <2>1. OnWire' = OnWire
    BY <1>1 DEF OnWire
  <2> QED BY <1>0, <1>1, <2>1
<1>2. ASSUME NEW p \in Senders, held' = [held EXCEPT ![p] = None]
      PROVE  \A q \in Senders : held'[q] # None => held'[q] = held[q]
  BY <1>0, <1>2
<1>3. ASSUME NEW p \in Senders, NewServerSeq(p)
      PROVE  Goal
  <2>1. /\ serverSeq' = serverSeq + 1 /\ held' = [held EXCEPT ![p] = serverSeq + 1]
        /\ UNCHANGED <<next, wire, sent, lastAcked>>
    BY <1>3 DEF NewServerSeq, queueVars
  <2>2. \A q \in Senders : held'[q] = held[q] \/ held'[q] = serverSeq + 1
    BY <1>0, <2>1
  <2>3. OnWire' = OnWire
    BY <2>1 DEF OnWire
  <2> QED BY <1>0, <2>1, <2>2, <2>3
<1>4. ASSUME NEW p \in Senders, Refuse(p) \/ EnqueueParks(p)
      PROVE  Goal
  <2>1. /\ held' = [held EXCEPT ![p] = None]
        /\ UNCHANGED <<serverSeq, next, wire, sent, lastAcked>>
    BY <1>4 DEF Refuse, EnqueueParks, queueVars
  <2>2. OnWire' = OnWire
    BY <2>1 DEF OnWire
  <2> QED BY <1>0, <1>2, <2>1, <2>2
<1>5. ASSUME NEW p \in Senders, EnqueueSends(p)
      PROVE  Goal
  <2>1. held[p] # None /\ held[p] = next /\ held[p] \in Seqs
    BY <1>0, <1>5, QueueAssumption DEF EnqueueSends, Due, Seqs, None
  <2>2. PICK last \in held[p]..MaxSeq :
          /\ wire' = wire \o Run(held[p], last)
          /\ sent' = sent \cup held[p]..last
    BY <1>5 DEF EnqueueSends
  <2>3. OnWire' = OnWire \cup held[p]..last
    BY <2>1, <2>2, SendsWrites
  <2>4. UNCHANGED <<serverSeq, lastAcked>> /\ held' = [held EXCEPT ![p] = None]
    BY <1>5 DEF EnqueueSends
  <2>5. \A q \in Senders : held'[q] # None => held'[q] = held[q]
    BY <1>2, <2>4
  <2> QED BY <1>0, <2>1, <2>2, <2>3, <2>4, <2>5
<1>6. CASE HandleAck \/ HandleStart
  <2>1. PICK a : a \in OnWire \cup Seqs /\ AckMessagesUpTo(a)
    BY <1>6 DEF HandleAck, HandleStart
  <2>2. a \in Nat
    <3>1. wire \in Seq(Seqs)
      BY DEF TypeOK
    <3>2. a \in Seqs
      BY <2>1, <3>1 DEF OnWire, ToSet
    <3> QED BY <3>2, QueueAssumption DEF Seqs
  <2>3. /\ UNCHANGED <<serverSeq, held, next, wire>> /\ sent' \subseteq sent
        /\ lastAcked' = Larger(lastAcked, a)
    BY <2>1 DEF AckMessagesUpTo
  <2>4. lastAcked <= lastAcked'
    BY <1>0, <2>2, <2>3 DEF Larger
  <2> QED BY <1>1, <2>3, <2>4
<1>7. CASE ResyncSequence
  <2>1. /\ UNCHANGED <<serverSeq, held, wire>> /\ sent' \subseteq sent
        /\ lastAcked' = Larger(lastAcked, acking)
        /\ next' = ResyncNext(acking)
    BY <1>7 DEF ResyncSequence
  <2>2. lastAcked <= lastAcked' /\ (next' = next \/ next' <= lastAcked' + 1)
    BY <1>0, <2>1 DEF Larger, ResyncNext
  <2>3. OnWire' = OnWire
    BY <2>1 DEF OnWire
  <2> QED BY <1>0, <2>1, <2>2, <2>3
<1>8. CASE CleanupExpiredMessages
  <2>1. UNCHANGED <<serverSeq, held, next, wire, lastAcked>> /\ sent' \subseteq sent
    BY <1>8 DEF CleanupExpiredMessages
  <2> QED BY <1>0, <1>1, <2>1
<1>9. CASE RetryTimedOutMessages
  <2>1. PICK batch \in Batches({s \in Seqs : Retriable(s)}) : wire' = wire \o batch
    BY <1>9 DEF RetryTimedOutMessages
  <2>2. /\ OnWire' = OnWire \cup ToSet(batch)
        /\ ToSet(batch) \subseteq {s \in Seqs : Retriable(s)}
    BY <2>1, RetryWrites
  <2>3. UNCHANGED <<serverSeq, held, next, sent, lastAcked>>
    BY <1>9 DEF RetryTimedOutMessages
  <2>4. OnWire' \subseteq OnWire \cup sent
    BY <2>2 DEF Retriable
  <2> QED BY <1>0, <2>2, <2>3, <2>4
<1>10. CASE LinkDown
  BY <1>0, <1>1, <1>10 DEF LinkDown, queueVars
<1>11. CASE Stop
  BY <1>0, <1>1, <1>11 DEF Stop
<1>12. CASE UNCHANGED vars
  BY <1>0, <1>1, <1>12 DEF vars
<1> QED
  BY <1>3, <1>4, <1>5, <1>6, <1>7, <1>8, <1>9, <1>10, <1>11, <1>12
  DEF Next, EncodeFails, EnqueueMessage, EnqueueRefused

=============================================================================
