----------------------- MODULE SessionHandoverProofs -----------------------
(***************************************************************************)
(* TLAPS proofs about SessionHandover, for every set of senders, every     *)
(* bound and every set of faults.  What OrderedQueueProofs proves of a     *)
(* queue is used for both: as it stands for the successor's, and as        *)
(* OldQ for the queue of the session being replaced.                       *)
(***************************************************************************)
EXTENDS SessionHandover, OrderedQueueProofs

OldQ == INSTANCE OrderedQueueProofs WITH
  serverSeq <- oldSeq, held <- oldHeld, next <- oldNext,
  lastSent <- oldLastSent, lastAcked <- oldLastAcked, waiting <- oldWaiting,
  sent <- oldSent, retries <- oldRetries, stopped <- oldStopped,
  linkUp <- oldLink, acking <- oldAcking, startAck <- oldStart,
  wire <- oldWire, refused <- oldRefused, dropped <- oldDropped

-----------------------------------------------------------------------------
(* The old queue is a queue                                                *)

\* The operators of Old are those of OldQ, in this state
LEMMA OldOperators ==
  /\ Old!OnWire = OldQ!OnWire /\ Old!Held = OldQ!Held
  /\ Old!IInv <=> OldQ!IInv
  /\ \A s : Old!Retriable(s) <=> OldQ!Retriable(s)
  /\ \A s, n : Old!CountedFrom(s, n) <=> OldQ!CountedFrom(s, n)
  /\ \A s, n : Old!SettledFrom(s, n) <=> OldQ!SettledFrom(s, n)
  /\ \A s : OldWrites(s) = OldQ!Writes(s)
<1>1. Old!OnWire = OldQ!OnWire /\ Old!Held = OldQ!Held
  BY DEF Old!OnWire, OldQ!OnWire, Old!Held, OldQ!Held, Old!None, OldQ!None,
         Old!ToSet, OldQ!ToSet
<1>2. Old!TypeOK <=> OldQ!TypeOK
  BY DEF Old!TypeOK, OldQ!TypeOK, Old!Seqs, OldQ!Seqs, Old!Cardinality, OldQ!Cardinality
<1>3. /\ Old!Frontier <=> OldQ!Frontier
      /\ Old!SentWindow <=> OldQ!SentWindow
      /\ Old!InOrder <=> OldQ!InOrder
      /\ Old!NoGap <=> OldQ!NoGap
  BY <1>1 DEF Old!Frontier, OldQ!Frontier, Old!SentWindow, OldQ!SentWindow,
              Old!InOrder, OldQ!InOrder, Old!NoGap, OldQ!NoGap, Old!None, OldQ!None
<1>4. Old!IInv <=> OldQ!IInv
  BY <1>2, <1>3 DEF Old!IInv, OldQ!IInv
<1>5. ASSUME NEW s
      PROVE  OldWrites(s) = OldQ!Writes(s) /\ Old!Writes(s) = OldQ!Writes(s)
  BY DEF OldWrites, Old!Writes, OldQ!Writes, Cardinality, Old!Cardinality, OldQ!Cardinality
<1>6. ASSUME NEW s
      PROVE  Old!Retriable(s) <=> OldQ!Retriable(s)
  BY DEF Old!Retriable, OldQ!Retriable
<1>7. ASSUME NEW s, NEW n
      PROVE  /\ Old!CountedFrom(s, n) <=> OldQ!CountedFrom(s, n)
             /\ Old!SettledFrom(s, n) <=> OldQ!SettledFrom(s, n)
  BY <1>5 DEF Old!CountedFrom, OldQ!CountedFrom, Old!SettledFrom, OldQ!SettledFrom
<1> QED BY <1>1, <1>4, <1>5, <1>6, <1>7

\* and in the next one.
LEMMA OldOperatorsNext ==
  /\ Old!OnWire' = OldQ!OnWire'
  /\ Old!IInv' <=> OldQ!IInv'
  /\ \A s, n : Old!CountedFrom(s, n)' <=> OldQ!CountedFrom(s, n)'
  /\ \A s, n : Old!SettledFrom(s, n)' <=> OldQ!SettledFrom(s, n)'
  /\ \A s : OldWrites(s)' = OldQ!Writes(s)'
<1>1. Old!OnWire' = OldQ!OnWire'
  BY DEF Old!OnWire, OldQ!OnWire, Old!ToSet, OldQ!ToSet
<1>2. Old!TypeOK' <=> OldQ!TypeOK'
  BY DEF Old!TypeOK, OldQ!TypeOK, Old!Seqs, OldQ!Seqs, Old!Cardinality, OldQ!Cardinality
<1>3. /\ Old!Frontier' <=> OldQ!Frontier'
      /\ Old!SentWindow' <=> OldQ!SentWindow'
      /\ Old!InOrder' <=> OldQ!InOrder'
      /\ Old!NoGap' <=> OldQ!NoGap'
  BY <1>1 DEF Old!Frontier, OldQ!Frontier, Old!SentWindow, OldQ!SentWindow,
              Old!InOrder, OldQ!InOrder, Old!NoGap, OldQ!NoGap, Old!None, OldQ!None
<1>4. Old!IInv' <=> OldQ!IInv'
  BY <1>2, <1>3 DEF Old!IInv, OldQ!IInv
<1>5. ASSUME NEW s
      PROVE  OldWrites(s)' = OldQ!Writes(s)' /\ Old!Writes(s)' = OldQ!Writes(s)'
  BY DEF OldWrites, Old!Writes, OldQ!Writes, Cardinality, Old!Cardinality, OldQ!Cardinality
<1>6. ASSUME NEW s, NEW n
      PROVE  /\ Old!CountedFrom(s, n)' <=> OldQ!CountedFrom(s, n)'
             /\ Old!SettledFrom(s, n)' <=> OldQ!SettledFrom(s, n)'
  BY <1>5 DEF Old!CountedFrom, OldQ!CountedFrom, Old!SettledFrom, OldQ!SettledFrom
<1> QED BY <1>1, <1>4, <1>5, <1>6

\* What a new session assumes, it assumes of the old one.
LEMMA OldAssumption ==
  OldQ!FaultKinds = FaultKinds /\ OldQ!Seqs = Seqs /\ OldQ!None = None
BY DEF FaultKinds, OldQ!FaultKinds, Seqs, OldQ!Seqs, None, OldQ!None

\* Before it is copied, whatever the old session does is a step of its queue, which
\* is not stopped by it; an ACK that finds no session any more excepted.
LEMMA OldStepIsStep ==
  ASSUME OldStep, ~OldAckUnknown
  PROVE  OldQ!Next /\ UNCHANGED oldStopped
<1>1. ASSUME NEW p \in Senders, Old!NewServerSeq(p)
      PROVE  OldQ!NewServerSeq(p) /\ UNCHANGED oldStopped
  BY <1>1 DEF Old!NewServerSeq, OldQ!NewServerSeq, Old!queueVars, OldQ!queueVars,
              Old!ackVars, OldQ!ackVars, Old!None, OldQ!None
<1>2. ASSUME NEW p \in Senders, Old!EnqueueRefused(p)
      PROVE  OldQ!EnqueueRefused(p) /\ UNCHANGED oldStopped
  BY <1>2 DEF Old!EnqueueRefused, OldQ!EnqueueRefused, Old!Refuse, OldQ!Refuse,
              Old!Accepts, OldQ!Accepts, Old!Cardinality, OldQ!Cardinality,
              Old!queueVars, OldQ!queueVars, Old!ackVars, OldQ!ackVars,
              Old!None, OldQ!None
<1>3. ASSUME NEW p \in Senders, Old!EnqueueSends(p)
      PROVE  OldQ!EnqueueSends(p) /\ UNCHANGED oldStopped
  BY <1>3 DEF Old!EnqueueSends, OldQ!EnqueueSends, Old!Due, OldQ!Due,
              Old!DrainTo, OldQ!DrainTo, Old!ParkedAfter, OldQ!ParkedAfter,
              Old!Run, OldQ!Run, Old!Seqs, OldQ!Seqs,
              Old!Accepts, OldQ!Accepts, Old!Cardinality, OldQ!Cardinality,
              Old!ackVars, OldQ!ackVars, Old!None, OldQ!None
<1>4. ASSUME NEW p \in Senders, Old!EnqueueParks(p)
      PROVE  OldQ!EnqueueParks(p) /\ UNCHANGED oldStopped
  BY <1>4 DEF Old!EnqueueParks, OldQ!EnqueueParks,
              Old!Accepts, OldQ!Accepts, Old!Cardinality, OldQ!Cardinality,
              Old!ackVars, OldQ!ackVars, Old!None, OldQ!None
<1>5. ASSUME Old!ResyncSequence
      PROVE  OldQ!ResyncSequence /\ UNCHANGED oldStopped
  BY <1>5 DEF Old!ResyncSequence, OldQ!ResyncSequence, Old!ResyncNext, OldQ!ResyncNext,
              Old!Larger, OldQ!Larger, Old!Covered, OldQ!Covered, Old!None, OldQ!None
<1>6. ASSUME Old!CleanupExpiredMessages
      PROVE  OldQ!CleanupExpiredMessages /\ UNCHANGED oldStopped
  BY <1>6 DEF Old!CleanupExpiredMessages, OldQ!CleanupExpiredMessages,
              Old!Exhausted, OldQ!Exhausted, Old!ackVars, OldQ!ackVars
<1>7. ASSUME Old!RetryTimedOutMessages
      PROVE  OldQ!RetryTimedOutMessages /\ UNCHANGED oldStopped
  BY <1>7 DEF Old!RetryTimedOutMessages, OldQ!RetryTimedOutMessages,
              Old!Batches, OldQ!Batches, Old!SeqOf, OldQ!SeqOf, Old!Retriable,
              OldQ!Retriable, Old!IsInjective, OldQ!IsInjective, Old!ToSet, OldQ!ToSet,
              Old!Seqs, OldQ!Seqs, Old!ackVars, OldQ!ackVars
<1>8. ASSUME OldAck
      PROVE  OldQ!HandleAck /\ UNCHANGED oldStopped
  <2>1. PICK a \in OldQ!OnWire : Old!AckMessagesUpTo(a) /\ UNCHANGED oldStart
    BY <1>8, OldOperators DEF OldAck
  <2>2. OldQ!AckMessagesUpTo(a) /\ UNCHANGED oldStopped
    BY <2>1 DEF Old!AckMessagesUpTo, OldQ!AckMessagesUpTo, Old!Larger, OldQ!Larger,
                Old!Covered, OldQ!Covered, Old!None, OldQ!None
  <2> QED BY <2>1, <2>2 DEF OldQ!HandleAck
<1> QED
  BY <1>1, <1>2, <1>3, <1>4, <1>5, <1>6, <1>7, <1>8
  DEF OldStep, Old!EnqueueMessage, OldQ!EnqueueMessage, OldQ!Next

-----------------------------------------------------------------------------
(* The phases of the hand-over                                             *)

\* Which phases come before another.
LEMMA PhaseFacts ==
  ASSUME HandoverTypeOK
  PROVE  /\ Before("resynced") <=> phase \in {"serving", "seq"}
         /\ Before("closed") <=> phase \in {"serving", "seq", "resynced"}
         /\ Before("copied") <=> phase \in {"serving", "seq", "resynced", "closed"}
         /\ phase \in {"serving", "seq", "resynced", "closed", "copied", "started"}
<1>1. /\ DOMAIN Phases = {1, 2, 3, 4, 5, 6}
      /\ Phases[1] = "serving" /\ Phases[2] = "seq" /\ Phases[3] = "resynced"
      /\ Phases[4] = "closed" /\ Phases[5] = "copied" /\ Phases[6] = "started"
  BY DEF Phases
<1>2. phase \in {"serving", "seq", "resynced", "closed", "copied", "started"}
  BY <1>1 DEF HandoverTypeOK
<1> QED BY <1>1, <1>2 DEF Before

LEMMA PhaseFactsNext ==
  ASSUME HandoverTypeOK'
  PROVE  /\ Before("resynced")' <=> phase' \in {"serving", "seq"}
         /\ Before("closed")' <=> phase' \in {"serving", "seq", "resynced"}
         /\ Before("copied")' <=> phase' \in {"serving", "seq", "resynced", "closed"}
<1>1. /\ DOMAIN Phases = {1, 2, 3, 4, 5, 6}
      /\ Phases[1] = "serving" /\ Phases[2] = "seq" /\ Phases[3] = "resynced"
      /\ Phases[4] = "closed" /\ Phases[5] = "copied" /\ Phases[6] = "started"
  BY DEF Phases
<1>2. phase' \in {"serving", "seq", "resynced", "closed", "copied", "started"}
  BY <1>1 DEF HandoverTypeOK
<1> QED BY <1>1, <1>2 DEF Before

-----------------------------------------------------------------------------
(* Types                                                                   *)

\* Numbers on the old stream are numbers.
LEMMA OldOnWireType ==
  ASSUME HandoverTypeOK
  PROVE  oldWire \in Seq(Seqs) /\ Old!OnWire \subseteq Seqs
<1>1. OldQ!TypeOK
  BY OldOperators DEF HandoverTypeOK, OldQ!IInv
<1>2. oldWire \in Seq(Seqs)
  BY <1>1, OldAssumption DEF OldQ!TypeOK
<1> QED BY <1>2 DEF Old!OnWire, Old!ToSet

\* The old queue keeps its inductive invariant in every step of the hand-over.
LEMMA OldIInvKept ==
  ASSUME HandoverTypeOK, FlightIsDue, [HandoverNext]_handVars
  PROVE  Old!IInv'
<1>0. OldQ!IInv /\ OldQ!TypeOK
  BY OldOperators DEF HandoverTypeOK, OldQ!IInv
<1> SUFFICES OldQ!IInv'
  BY OldOperatorsNext
<1>1. ASSUME [OldQ!Next]_(OldQ!vars)
      PROVE  OldQ!IInv'
  BY <1>0, <1>1, OldQ!NextIInv, OldAssumption, QueueAssumption
<1>2. ASSUME UNCHANGED oldVars
      PROVE  OldQ!IInv'
  BY <1>1, <1>2 DEF oldVars, oldQueue, OldQ!vars
<1>3. CASE OldStep /\ ~OldAckUnknown
  BY <1>1, <1>3, OldStepIsStep
<1>4. CASE OldAckUnknown
  <2>1. /\ oldAcking = None /\ oldAcking' \in OldQ!OnWire
        /\ UNCHANGED <<oldSeq, oldHeld, oldNext, oldLastSent, oldLastAcked, oldWaiting,
                       oldSent, oldRetries, oldStopped, oldLink, oldStart, oldWire,
                       oldRefused, oldDropped>>
    BY <1>4, OldOperators DEF OldAckUnknown, oldQueue
  <2>2. oldAcking' \in 0..MaxSeq
    BY <2>1, OldOnWireType, OldOperators, QueueAssumption DEF Seqs
  <2>3. OldQ!TypeOK'
    BY <1>0, <2>1, <2>2 DEF OldQ!TypeOK
  <2> QED BY <1>0, <2>1, <2>3, OldQ!LateAckIInv, OldAssumption, QueueAssumption
<1>5. CASE Land
  <2>1. /\ \/ inFlight \in oldSent /\ oldRetries[inFlight] < MaxRetries
           \/ inFlight = oldNext
        /\ inFlight \in Seqs
    BY <1>5 DEF Land, FlightIsDue, HandoverTypeOK, Seqs, None
  <2>2. /\ oldWire' = Append(oldWire, inFlight)
        /\ oldSent' = oldSent \cup {inFlight}
        /\ oldNext' = IF inFlight = oldNext THEN oldNext + 1 ELSE oldNext
        /\ oldLastSent' = IF inFlight = oldNext THEN inFlight ELSE oldLastSent
        /\ UNCHANGED <<oldSeq, oldLastAcked, oldWaiting, oldStopped, oldLink,
                       oldAcking, oldStart, oldRefused, oldDropped>>
    BY <1>5 DEF Land
  <2>3. /\ oldHeld \in [Senders -> 0..MaxSeq] /\ oldRetries \in [Seqs -> 0..MaxRetries]
        /\ oldWire \in Seq(Seqs) /\ oldSent \subseteq Seqs
        /\ oldNext \in 1..(MaxSeq + 1) /\ oldLastSent \in 0..MaxSeq
    BY <1>0, OldAssumption DEF OldQ!TypeOK
  <2>4. oldHeld' \in [Senders -> 0..MaxSeq]
    BY <1>5, <2>3, QueueAssumption DEF Land, None
  <2>5. oldRetries' \in [Seqs -> 0..MaxRetries]
    <3>1. oldRetries' = [oldRetries EXCEPT ![inFlight] =
                           IF inFlight \in oldSent THEN @ + 1 ELSE 0]
      BY <1>5 DEF Land
    <3>2. inFlight \in oldSent => oldRetries[inFlight] + 1 \in 0..MaxRetries
      <4>1. SUFFICES ASSUME inFlight \in oldSent
                     PROVE  oldRetries[inFlight] < MaxRetries
        BY <2>1, <2>3, QueueAssumption
      <4>2. oldNext \notin oldSent
        BY <1>0, <2>3, QueueAssumption DEF OldQ!IInv, OldQ!SentWindow
      <4> QED BY <2>1, <4>1, <4>2
    <3> QED BY <2>1, <2>3, <3>1, <3>2, QueueAssumption
  <2>6. oldWire' \in Seq(Seqs) /\ oldSent' \subseteq Seqs
    BY <2>1, <2>2, <2>3
  <2>7. oldNext' \in 1..(MaxSeq + 1) /\ oldLastSent' \in 0..MaxSeq
    BY <2>1, <2>2, <2>3, QueueAssumption DEF Seqs
  <2>8. OldQ!TypeOK'
    BY <1>0, <2>2, <2>4, <2>5, <2>6, <2>7, OldAssumption DEF OldQ!TypeOK
  <2> QED
    BY <1>0, <2>1, <2>2, <2>8, OldQ!LateWriteIInv, OldAssumption, QueueAssumption
<1>6. CASE SetClosed
  <2>1. /\ oldLink' = FALSE
        /\ UNCHANGED <<oldSeq, oldHeld, oldNext, oldLastSent, oldLastAcked, oldWaiting,
                       oldSent, oldRetries, oldStopped, oldAcking, oldStart, oldWire,
                       oldRefused, oldDropped>>
    BY <1>6 DEF SetClosed, oldQueue
  <2>2. OldQ!TypeOK'
    BY <1>0, <2>1 DEF OldQ!TypeOK
  <2> QED BY <1>0, <2>1, <2>2, OldQ!QuietQueue, OldAssumption, QueueAssumption
<1>7. CASE InheritSeq \/ InheritAck \/ CopySent \/ HandleReconnectStart
           \/ DrawStartResponse \/ NewSessionStep \/ UNCHANGED handVars
  <2>1. UNCHANGED oldVars
    BY <1>7 DEF InheritSeq, InheritAck, CopySent, HandleReconnectStart,
                DrawStartResponse, NewSessionStep, handVars
  <2> QED BY <1>2, <2>1
<1> QED BY <1>3, <1>4, <1>5, <1>6, <1>7 DEF HandoverNext, Handover

\* What the hand-over reads of the old session is well typed.
LEMMA OldTypes ==
  ASSUME HandoverTypeOK
  PROVE  /\ oldSeq \in 0..MaxSeq /\ oldNext \in 1..(MaxSeq + 1) /\ oldLastAcked \in 0..MaxSeq
         /\ oldHeld \in [Senders -> 0..MaxSeq]
         /\ oldSent \subseteq Seqs /\ oldRetries \in [Seqs -> 0..MaxRetries]
         /\ \A s \in oldSent : s \in Old!OnWire /\ s < oldNext
<1>1. OldQ!TypeOK /\ OldQ!SentWindow
  BY OldOperators DEF HandoverTypeOK, OldQ!IInv
<1>2. \A s \in oldSent : s \in Old!OnWire /\ s < oldNext
  BY <1>1, OldOperators DEF OldQ!SentWindow
<1> QED BY <1>1, <1>2, OldAssumption DEF OldQ!TypeOK

\* Once in the indexes the new session takes steps of its queue, which it does
\* not stop; drawing the number of the START response is one.
LEMMA NewStepIsStep ==
  ASSUME NewSessionStep \/ DrawStartResponse
  PROVE  /\ Next /\ UNCHANGED stopped
         /\ UNCHANGED <<oldVars, clientAck, phase, inherited, inFlight, landed>>
<1>1. CASE DrawStartResponse
  BY <1>1, ConnAssumption DEF DrawStartResponse, NewServerSeq, Next, queueVars
<1>2. CASE NewSessionStep
  <2>1. UNCHANGED <<oldVars, clientAck, phase, inherited, inFlight, landed>>
    BY <1>2 DEF NewSessionStep, ctlVars
  <2>2. ASSUME NEW p \in Senders, NewServerSeq(p)
        PROVE  Next /\ UNCHANGED stopped
    BY <2>2 DEF Next, NewServerSeq, queueVars
  <2>3. ASSUME NEW p \in Senders, EnqueueMessage(p)
        PROVE  Next /\ UNCHANGED stopped
    BY <2>3 DEF Next, EnqueueMessage, EnqueueRefused, Refuse, EnqueueSends, EnqueueParks,
                queueVars
  <2>4. ASSUME NEW a \in OnWire, AckOf(a)
        PROVE  Next /\ UNCHANGED stopped
    BY <2>4 DEF Next, HandleAck, AckOf, AckMessagesUpTo
  <2>5. ASSUME ResyncSequence \/ CleanupExpiredMessages \/ RetryTimedOutMessages
        PROVE  Next /\ UNCHANGED stopped
    BY <2>5 DEF Next, ResyncSequence, CleanupExpiredMessages, RetryTimedOutMessages
  <2> QED BY <1>2, <2>1, <2>2, <2>3, <2>4, <2>5 DEF NewSessionStep
<1> QED BY <1>1, <1>2

\* handleStartSync acknowledges a number the old session wrote, or nothing.
LEMMA StartIsAck ==
  ASSUME HandoverTypeOK, HandleReconnectStart
  PROVE  \/ UNCHANGED vars
         \/ \E a \in Seqs : AckMessagesUpTo(a) /\ startAck' = a
<1>1. PICK k \in 0..Len(oldWire) :
        \/ UNCHANGED vars
        \/ \E a \in ToSet(SubSeq(oldWire, 1, k)) : AckMessagesUpTo(a) /\ startAck' = a
  BY DEF HandleReconnectStart
<1>2. oldWire \in Seq(Seqs)
  BY OldOnWireType
<1>3. SubSeq(oldWire, 1, k) \in Seq(Seqs)
  BY <1>2, SubSeqProperties
<1>4. ToSet(SubSeq(oldWire, 1, k)) \subseteq Seqs
  BY <1>3 DEF ToSet
<1> QED BY <1>1, <1>4

\* Every step of the hand-over keeps the types.
LEMMA HandoverTypeKept ==
  ASSUME HandoverTypeOK, FlightIsDue, [HandoverNext]_handVars
  PROVE  HandoverTypeOK'
<1>0. TypeOK /\ Old!IInv'
  BY OldIInvKept DEF HandoverTypeOK
<1>1. /\ clientAck \in 0..MaxSeq /\ inherited \in 0..MaxSeq /\ inFlight \in 0..MaxSeq
      /\ phase \in {Phases[i] : i \in DOMAIN Phases} /\ landed \in BOOLEAN
  BY DEF HandoverTypeOK
<1>2. ASSUME TypeOK', UNCHANGED <<clientAck, phase, inherited, inFlight, landed>>
      PROVE  HandoverTypeOK'
  BY <1>0, <1>1, <1>2 DEF HandoverTypeOK
<1>3. ASSUME UNCHANGED vars
      PROVE  TypeOK'
  BY <1>0, <1>3, NextTypeOK
<1>4. {"seq", "resynced", "closed", "copied", "started"} \subseteq
        {Phases[i] : i \in DOMAIN Phases}
  <2>1. /\ DOMAIN Phases = {1, 2, 3, 4, 5, 6}
        /\ Phases[2] = "seq" /\ Phases[3] = "resynced"
        /\ Phases[4] = "closed" /\ Phases[5] = "copied" /\ Phases[6] = "started"
    BY DEF Phases
  <2> QED BY <2>1
<1>5. CASE OldStep
  <2>1. clientAck' \in 0..MaxSeq
    <3>1. clientAck' = clientAck \/ clientAck' \in Old!OnWire
      BY <1>5 DEF OldStep, OldAck, OldAckUnknown
    <3>2. Old!OnWire \subseteq 0..MaxSeq
      BY OldOnWireType, QueueAssumption DEF Seqs
    <3> QED BY <1>1, <3>1, <3>2
  <2>2. UNCHANGED <<vars, phase, inherited, inFlight, landed>>
    BY <1>5 DEF OldStep
  <2> QED BY <1>0, <1>1, <1>3, <2>1, <2>2 DEF HandoverTypeOK
<1>6. CASE Land
  BY <1>0, <1>1, <1>3, <1>6 DEF Land, HandoverTypeOK
<1>7. CASE InheritSeq
  <2>1. TypeOK'
    BY <1>0, <1>7, OldTypes DEF InheritSeq, TypeOK, queueVars, ackVars
  <2> QED BY <1>0, <1>1, <1>4, <1>7, <2>1, OldTypes DEF InheritSeq, HandoverTypeOK
<1>8. CASE InheritAck
  <2>1. /\ UNCHANGED <<serverSeq, held, waiting, sent, retries, stopped, ackVars, linkUp,
                       wire, refused, dropped>>
        /\ next' = ResumeAt /\ lastSent' = ResumeAt - 1 /\ lastAcked' = clientAck
    BY <1>8 DEF InheritAck
  <2>2. ResumeAt \in 1..(MaxSeq + 1) /\ ResumeAt - 1 \in 0..MaxSeq
    BY <1>0, <1>1, QueueAssumption DEF ResumeAt, ResyncNext, TypeOK
  <2>3. TypeOK'
    BY <1>0, <1>1, <2>1, <2>2 DEF TypeOK, ackVars
  <2> QED BY <1>0, <1>1, <1>4, <1>8, <2>3 DEF InheritAck, HandoverTypeOK
<1>9. CASE SetClosed
  <2>1. inFlight' \in {None} \cup Old!Held \cup Seqs
    BY <1>9 DEF SetClosed
  <2>2. Old!Held \subseteq 0..MaxSeq
    BY OldTypes DEF Old!Held
  <2>3. inFlight' \in 0..MaxSeq
    BY <2>1, <2>2, QueueAssumption DEF Seqs, None
  <2>4. TypeOK'
    BY <1>3, <1>9 DEF SetClosed
  <2> QED BY <1>0, <1>1, <1>4, <1>9, <2>3, <2>4 DEF SetClosed, HandoverTypeOK
<1>10. CASE CopySent
  <2>1. /\ UNCHANGED <<serverSeq, held, next, lastSent, lastAcked, waiting, stopped,
                       ackVars, linkUp, wire, refused, dropped>>
        /\ sent' = oldSent /\ retries' = oldRetries
    BY <1>10 DEF CopySent, CopiedMessages, CopiedRetries
  <2>2. TypeOK'
    BY <1>0, <2>1, OldTypes DEF TypeOK, ackVars
  <2> QED BY <1>0, <1>1, <1>4, <1>10, <2>2 DEF CopySent, HandoverTypeOK
<1>11. CASE HandleReconnectStart
  <2>1. ASSUME NEW a \in Seqs, AckMessagesUpTo(a), startAck' = a
        PROVE  TypeOK'
    <3>1. startAck' \in 0..MaxSeq
      BY <2>1, QueueAssumption DEF Seqs
    <3> QED BY <1>0, <2>1, <3>1, AckTypeOK
  <2>2. TypeOK'
    BY <1>3, <1>11, <2>1, StartIsAck
  <2> QED BY <1>0, <1>1, <1>4, <1>11, <2>2 DEF HandleReconnectStart, HandoverTypeOK
<1>12. CASE DrawStartResponse \/ NewSessionStep
  <2>1. Next /\ UNCHANGED <<clientAck, phase, inherited, inFlight, landed>>
    BY <1>12, NewStepIsStep
  <2>2. TypeOK'
    BY <1>0, <2>1, NextTypeOK
  <2> QED BY <1>2, <2>1, <2>2
<1>13. CASE UNCHANGED handVars
  BY <1>2, <1>3, <1>13 DEF handVars, ctlVars
<1> QED
  BY <1>5, <1>6, <1>7, <1>8, <1>9, <1>10, <1>11, <1>12, <1>13 DEF HandoverNext, Handover

-----------------------------------------------------------------------------
(* The successor before it is in the indexes, and the write in flight      *)

\* Nothing happens to the successor's queue before it is copied into.
LEMMA UntouchedKept ==
  ASSUME HandoverTypeOK, HandoverTypeOK', Untouched, [HandoverNext]_handVars
  PROVE  Untouched'
<1>0. /\ Before("resynced")' <=> phase' \in {"serving", "seq"}
      /\ Before("copied")' <=> phase' \in {"serving", "seq", "resynced", "closed"}
      /\ Before("resynced") <=> phase \in {"serving", "seq"}
      /\ Before("copied") <=> phase \in {"serving", "seq", "resynced", "closed"}
  BY PhaseFacts, PhaseFactsNext
<1>1. ASSUME UNCHANGED <<vars, phase>>
      PROVE  Untouched'
  BY <1>0, <1>1 DEF vars, Untouched
<1>2. CASE OldStep \/ Land \/ UNCHANGED handVars
  BY <1>1, <1>2 DEF OldStep, Land, handVars, ctlVars
<1>3. CASE InheritSeq
  BY <1>0, <1>3 DEF InheritSeq, Untouched, queueVars, ackVars
<1>4. CASE InheritAck
  BY <1>0, <1>4 DEF InheritAck, Untouched, ackVars
<1>5. CASE SetClosed
  BY <1>0, <1>5 DEF SetClosed, Untouched, vars
<1>6. CASE CopySent
  BY <1>0, <1>6 DEF CopySent, Untouched
<1>7. CASE HandleReconnectStart
  BY <1>0, <1>7 DEF HandleReconnectStart, Untouched
<1>8. CASE DrawStartResponse
  BY <1>0, <1>8 DEF DrawStartResponse, Untouched
<1>9. CASE NewSessionStep
  BY <1>0, <1>9 DEF NewSessionStep, Reached, ctlVars, Untouched
<1> QED
  BY <1>2, <1>3, <1>4, <1>5, <1>6, <1>7, <1>8, <1>9 DEF HandoverNext, Handover

\* While a write is in flight, its goroutine holds queueMux: the message stays due.
LEMMA FlightKept ==
  ASSUME HandoverTypeOK, HandoverTypeOK', FlightIsDue, [HandoverNext]_handVars
  PROVE  FlightIsDue'
<1>0. /\ Before("closed")' <=> phase' \in {"serving", "seq", "resynced"}
      /\ Before("closed") <=> phase \in {"serving", "seq", "resynced"}
  BY PhaseFacts, PhaseFactsNext
<1>1. ASSUME UNCHANGED <<oldSent, oldRetries, oldNext, inFlight, landed>>,
             Before("closed")' => Before("closed")
      PROVE  FlightIsDue'
  BY <1>1 DEF FlightIsDue
<1>2. CASE OldStep
  <2>1. UNCHANGED <<phase, inFlight, landed>>
    BY <1>2 DEF OldStep
  <2>2. CASE MutexFree
    BY <1>0, <2>1, <2>2 DEF FlightIsDue, MutexFree
  <2>3. CASE ~MutexFree
    <3>1. (\E p \in Senders : Old!NewServerSeq(p)) \/ OldAckUnknown
      BY <1>2, <2>3 DEF OldStep
    <3>2. UNCHANGED <<oldSent, oldRetries, oldNext>>
      BY <3>1 DEF Old!NewServerSeq, Old!queueVars, OldAckUnknown, oldQueue
    <3> QED BY <1>0, <1>1, <2>1, <3>2
  <2> QED BY <2>2, <2>3
<1>3. CASE Land
  BY <1>0, <1>3 DEF Land, FlightIsDue
<1>4. CASE SetClosed
  <2>1. /\ phase' = "closed" /\ UNCHANGED <<oldSent, oldRetries, oldNext, landed>>
        /\ inFlight' \in {None} \cup {s \in Old!Held : s = oldNext}
                                \cup {s \in Seqs : Old!Retriable(s)}
    BY <1>4 DEF SetClosed, oldQueue
  <2>2. \/ inFlight' = None \/ inFlight' = oldNext
        \/ inFlight' \in oldSent /\ oldRetries[inFlight'] < MaxRetries
    BY <2>1 DEF Old!Retriable
  <2> QED BY <1>0, <2>1, <2>2 DEF FlightIsDue
<1>5. CASE InheritSeq \/ InheritAck \/ CopySent \/ HandleReconnectStart
           \/ DrawStartResponse \/ NewSessionStep \/ UNCHANGED handVars
  <2>1. UNCHANGED <<oldSent, oldRetries, oldNext, inFlight, landed>>
    BY <1>5 DEF InheritSeq, InheritAck, CopySent, HandleReconnectStart,
                DrawStartResponse, NewSessionStep, handVars, ctlVars, oldVars, oldQueue
  <2>2. phase' \in {"serving", "seq", "resynced"} => phase \in {"serving", "seq", "resynced"}
    BY <1>5 DEF InheritSeq, InheritAck, CopySent, HandleReconnectStart,
                DrawStartResponse, NewSessionStep, handVars, ctlVars
  <2> QED BY <1>0, <1>1, <2>1, <2>2
<1> QED BY <1>2, <1>3, <1>4, <1>5 DEF HandoverNext, Handover

-----------------------------------------------------------------------------
(* New numbers wait for the acknowledgement of the inherited ones          *)

\* What the old session wrote stays written.
LEMMA OldWireGrows ==
  ASSUME HandoverTypeOK, [HandoverNext]_handVars
  PROVE  Old!OnWire \subseteq Old!OnWire'
<1>0. OldQ!TypeOK /\ oldWire \in Seq(Seqs)
  BY OldOperators, OldOnWireType DEF HandoverTypeOK, OldQ!IInv
<1>1. ASSUME UNCHANGED oldWire
      PROVE  Old!OnWire \subseteq Old!OnWire'
  BY <1>1 DEF Old!OnWire
<1>2. CASE OldStep /\ ~OldAckUnknown
  <2>1. OldQ!OnWire \subseteq OldQ!OnWire'
    BY <1>0, <1>2, OldStepIsStep, OldQ!StepProgress, OldAssumption, QueueAssumption
  <2> QED BY <2>1, OldOperators, OldOperatorsNext
<1>3. CASE Land
  <2>1. oldWire' = Append(oldWire, inFlight) /\ inFlight \in Seqs
    BY <1>3, QueueAssumption DEF Land, HandoverTypeOK, Seqs, None
  <2>2. \A i \in DOMAIN oldWire : i \in DOMAIN oldWire' /\ oldWire'[i] = oldWire[i]
    BY <1>0, <2>1
  <2> QED BY <2>2 DEF Old!OnWire, Old!ToSet
<1>4. CASE OldAckUnknown \/ InheritSeq \/ InheritAck \/ SetClosed \/ CopySent
           \/ HandleReconnectStart \/ DrawStartResponse \/ NewSessionStep
           \/ UNCHANGED handVars
  BY <1>1, <1>4 DEF OldAckUnknown, InheritSeq, InheritAck, SetClosed, CopySent,
     HandleReconnectStart, DrawStartResponse, NewSessionStep, handVars, oldVars
<1> QED BY <1>2, <1>3, <1>4 DEF HandoverNext, Handover

\* The number a sender of the successor holds is above the inherited ones, and is
\* due only after those have been acknowledged: one step per action.
LEMMA NewAboveKept ==
  ASSUME HandoverTypeOK, HandoverTypeOK', Untouched, NewAboveInherited,
         [HandoverNext]_handVars
  PROVE  NewAboveInherited'
<1>0. /\ Before("resynced")' <=> phase' \in {"serving", "seq"}
      /\ Before("resynced") <=> phase \in {"serving", "seq"}
      /\ Before("copied") <=> phase \in {"serving", "seq", "resynced", "closed"}
  BY PhaseFacts, PhaseFactsNext
<1>1. Old!OnWire \subseteq Old!OnWire'
  BY OldWireGrows
<1>2. /\ TypeOK /\ serverSeq \in Nat /\ next \in Nat /\ lastAcked \in Nat
      /\ inherited \in Nat /\ clientAck \in Nat
      /\ serverSeq' \in Nat /\ next' \in Nat /\ lastAcked' \in Nat /\ inherited' \in Nat
      /\ held \in [Senders -> 0..MaxSeq] /\ held' \in [Senders -> 0..MaxSeq]
  <2>1. TypeOK /\ TypeOK' /\ clientAck \in Nat /\ inherited \in Nat /\ inherited' \in Nat
    BY QueueAssumption DEF HandoverTypeOK
  <2>2. /\ serverSeq \in Nat /\ next \in Nat /\ lastAcked \in Nat
        /\ held \in [Senders -> 0..MaxSeq]
    BY <2>1, QueueAssumption DEF TypeOK
  <2>3. /\ serverSeq' \in Nat /\ next' \in Nat /\ lastAcked' \in Nat
        /\ held' \in [Senders -> 0..MaxSeq]
    BY <2>1, QueueAssumption DEF TypeOK
  <2> QED BY <2>1, <2>2, <2>3
<1>3. Before("copied") => /\ OnWire = {} /\ sent = {}
                          /\ \A p \in Senders : held[p] = None
  BY DEF Untouched, OnWire, ToSet
<1>4. ASSUME UNCHANGED <<serverSeq, held, next, wire, phase, inherited>>,
             sent' \subseteq sent, lastAcked <= lastAcked'
      PROVE  NewAboveInherited'
  <2>1. OnWire' = OnWire
    BY <1>4 DEF OnWire
  <2>2. inherited <= lastAcked => inherited' <= lastAcked'
    BY <1>2, <1>4
  <2> QED BY <1>0, <1>1, <1>4, <2>1, <2>2 DEF NewAboveInherited, Reached
<1>5. CASE OldStep \/ Land \/ UNCHANGED handVars
  <2>1. UNCHANGED <<serverSeq, held, next, wire, phase, inherited, sent, lastAcked>>
    BY <1>5 DEF OldStep, Land, handVars, ctlVars, vars
  <2> QED BY <1>2, <1>4, <2>1
<1>6. CASE InheritSeq
  <2>1. /\ serverSeq' = oldSeq /\ inherited' = oldSeq /\ phase' = "seq"
        /\ UNCHANGED <<held, wire, sent>> /\ phase = "serving"
    BY <1>6 DEF InheritSeq, queueVars
  <2>2. OnWire' = {} /\ sent' = {} /\ \A p \in Senders : held'[p] = None
    BY <1>0, <1>3, <2>1 DEF OnWire
  <2> QED BY <1>0, <1>2, <2>1, <2>2 DEF NewAboveInherited, Reached
<1>7. CASE InheritAck
  <2>1. /\ next' = ResyncNext(clientAck) /\ lastAcked' = clientAck /\ phase' = "resynced"
        /\ UNCHANGED <<serverSeq, held, wire, sent, inherited>> /\ phase = "seq"
    BY <1>7 DEF InheritAck, ResumeAt
  <2>2. OnWire' = {} /\ sent' = {} /\ \A p \in Senders : held'[p] = None
    BY <1>0, <1>3, <2>1 DEF OnWire
  <2>3. next = 1
    BY <1>0, <2>1 DEF Untouched
  <2>4. inherited' < next' => inherited' <= lastAcked'
    BY <1>2, <2>1, <2>3 DEF ResyncNext
  <2>5. inherited' <= serverSeq'
    BY <2>1 DEF NewAboveInherited
  <2> QED BY <2>1, <2>2, <2>4, <2>5 DEF NewAboveInherited
<1>8. CASE SetClosed
  <2>1. /\ UNCHANGED <<serverSeq, held, next, wire, inherited, sent, lastAcked>>
        /\ phase = "resynced" /\ phase' = "closed"
    BY <1>8 DEF SetClosed, vars
  <2>2. OnWire' = OnWire
    BY <2>1 DEF OnWire
  <2> QED BY <1>0, <1>1, <2>1, <2>2 DEF NewAboveInherited, Reached
<1>9. CASE CopySent
  <2>1. /\ UNCHANGED <<serverSeq, held, next, wire, inherited, lastAcked>>
        /\ phase = "closed" /\ phase' = "copied" /\ sent' = oldSent
    BY <1>9 DEF CopySent, CopiedMessages
  <2>2. OnWire' = OnWire
    BY <2>1 DEF OnWire
  <2>3. sent' \subseteq Old!OnWire'
    BY <1>1, <2>1, OldTypes
  <2> QED BY <1>0, <1>1, <2>1, <2>2, <2>3 DEF NewAboveInherited, Reached
<1>10. CASE HandleReconnectStart
  <2>1. /\ UNCHANGED <<serverSeq, held, next, wire>>
        /\ sent' \subseteq sent /\ lastAcked <= lastAcked'
    <3>1. CASE UNCHANGED vars
      BY <1>2, <3>1 DEF vars
    <3>2. ASSUME NEW a \in Seqs, AckMessagesUpTo(a)
          PROVE  /\ UNCHANGED <<serverSeq, held, next, wire>>
                 /\ sent' \subseteq sent /\ lastAcked <= lastAcked'
      <4>1. a \in Nat
        BY QueueAssumption DEF Seqs
      <4>2. lastAcked <= Larger(lastAcked, a)
        BY <1>2, <4>1 DEF Larger
      <4> QED BY <3>2, <4>2 DEF AckMessagesUpTo
    <3> QED BY <1>10, <3>1, <3>2, StartIsAck
  <2>2. UNCHANGED inherited /\ phase = "copied" /\ phase' = "started"
    BY <1>10 DEF HandleReconnectStart
  <2>3. OnWire' = OnWire
    BY <2>1 DEF OnWire
  <2>4. inherited <= lastAcked => inherited' <= lastAcked'
    BY <1>2, <2>1, <2>2
  <2> QED BY <1>0, <1>1, <2>1, <2>2, <2>3, <2>4 DEF NewAboveInherited, Reached
<1>11. CASE DrawStartResponse \/ NewSessionStep
  <2>1. Next /\ UNCHANGED <<phase, inherited>>
    BY <1>11, NewStepIsStep
  <2>2. phase \in {"copied", "started"}
    BY <1>0, <1>11, PhaseFacts DEF DrawStartResponse, NewSessionStep, Reached
  <2>3. /\ OnWire \subseteq OnWire' /\ sent' \subseteq sent \cup OnWire'
        /\ lastAcked <= lastAcked' /\ serverSeq <= serverSeq'
        /\ \A p \in Senders : held'[p] # None => held'[p] = held[p] \/ serverSeq < held'[p]
        /\ \/ \E p \in Senders : held[p] # None /\ held[p] = next
           \/ OnWire' \subseteq OnWire \cup sent /\ (next' = next \/ next' <= lastAcked' + 1)
    BY <1>2, <2>1, StepProgress
  <2>4. /\ inherited <= serverSeq
        /\ \A p \in Senders : held[p] # None => inherited < held[p]
        /\ inherited < next => inherited <= lastAcked
        /\ sent \subseteq Old!OnWire \cup OnWire
        /\ OnWire \subseteq Old!OnWire \/ inherited <= lastAcked
    BY <1>0, <2>2 DEF NewAboveInherited, Reached
  <2>5. inherited' <= serverSeq'
    BY <1>2, <2>1, <2>3, <2>4
  <2>6. ASSUME NEW p \in Senders, held'[p] # None
        PROVE  inherited' < held'[p]
    <3>1. held'[p] \in Int /\ (held'[p] = held[p] \/ serverSeq < held'[p])
      BY <1>2, <2>3, <2>6, QueueAssumption
    <3>2. held'[p] \in Nat
      BY <1>2, QueueAssumption
    <3> QED BY <1>2, <2>1, <2>4, <2>6, <3>1, <3>2
  <2>7. CASE inherited <= lastAcked
    <3>1. inherited' <= lastAcked'
      BY <1>2, <2>1, <2>3, <2>7
    <3>2. sent' \subseteq Old!OnWire' \cup OnWire'
      BY <1>1, <2>3, <2>4
    <3> QED BY <2>5, <2>6, <3>1, <3>2 DEF NewAboveInherited
  <2>8. CASE ~(inherited <= lastAcked)
    <3>1. ~(inherited < next) /\ OnWire \subseteq Old!OnWire
      BY <2>4, <2>8
    <3>2. ~(\E p \in Senders : held[p] # None /\ held[p] = next)
      BY <2>4, <3>1
    <3>3. OnWire' \subseteq OnWire \cup sent /\ (next' = next \/ next' <= lastAcked' + 1)
      BY <2>3, <3>2
    <3>4. inherited' < next' => inherited' <= lastAcked'
      <4>1. inherited' = inherited /\ ~(inherited < next)
        BY <2>1, <3>1
      <4>2. CASE next' = next
        BY <4>1, <4>2
      <4>3. CASE next' <= lastAcked' + 1
        <5>1. inherited' \in Nat /\ next' \in Nat /\ lastAcked' \in Nat
          BY <1>2
        <5>2. \A i, n, a \in Nat : n <= a + 1 /\ i < n => i <= a
          OBVIOUS
        <5> QED BY <4>3, <5>1, <5>2
      <4> QED BY <3>3, <4>2, <4>3
    <3>5. OnWire' \subseteq Old!OnWire' /\ sent' \subseteq Old!OnWire' \cup OnWire'
      BY <1>1, <2>3, <2>4, <3>1, <3>3
    <3> QED BY <2>5, <2>6, <3>4, <3>5 DEF NewAboveInherited
  <2> QED BY <2>7, <2>8
<1> QED
  BY <1>5, <1>6, <1>7, <1>8, <1>9, <1>10, <1>11 DEF HandoverNext, Handover

-----------------------------------------------------------------------------
(* The books of both sessions                                              *)

\* What is on the old stream is below the number the old queue waits for.
LEMMA OldWireBelow ==
  ASSUME HandoverTypeOK, NEW s \in Seqs, oldNext <= s
  PROVE  s \notin OldQ!OnWire
<1>1. OldQ!Frontier
  BY OldOperators DEF HandoverTypeOK, OldQ!IInv
<1>2. oldNext \in Nat /\ s \in Nat
  BY OldTypes, QueueAssumption DEF Seqs
<1> SUFFICES ASSUME s \in OldQ!OnWire
             PROVE  FALSE
  OBVIOUS
<1>3. PICK i \in DOMAIN oldWire : oldWire[i] = s
  BY DEF OldQ!OnWire, OldQ!ToSet
<1>4. s < oldNext
  BY <1>1, <1>3 DEF OldQ!Frontier
<1> QED BY <1>2, <1>4

\* A number has a number of writes.
LEMMA OldWritesType ==
  ASSUME HandoverTypeOK, NEW s
  PROVE  OldWrites(s) \in Nat
<1>1. OldQ!TypeOK
  BY OldOperators DEF HandoverTypeOK, OldQ!IInv
<1> QED BY <1>1, OldQ!WritesFacts, OldOperators, OldAssumption, QueueAssumption

\* The write in flight is not a write of another message.
LEMMA LandElsewhere ==
  ASSUME HandoverTypeOK, Land, NEW s \in Seqs \ {inFlight}
  PROVE  /\ OldWrites(s)' = OldWrites(s)
         /\ s \in Old!OnWire' <=> s \in Old!OnWire
         /\ s \in oldSent' <=> s \in oldSent
         /\ oldRetries'[s] = oldRetries[s]
<1>1. /\ oldWire' = Append(oldWire, inFlight) /\ inFlight \in Seqs
      /\ oldSent' = oldSent \cup {inFlight}
      /\ oldRetries' = [oldRetries EXCEPT ![inFlight] =
                          IF inFlight \in oldSent THEN @ + 1 ELSE 0]
  BY QueueAssumption DEF Land, HandoverTypeOK, Seqs, None
<1>2. oldWire \in Seq(Seqs) /\ oldRetries \in [Seqs -> 0..MaxRetries]
  BY OldOnWireType, OldTypes
<1>3. /\ DOMAIN oldWire' = DOMAIN oldWire \cup {Len(oldWire) + 1}
      /\ \A i \in DOMAIN oldWire : oldWire'[i] = oldWire[i]
      /\ oldWire'[Len(oldWire) + 1] = inFlight
  BY <1>1, <1>2
<1>4. {i \in DOMAIN oldWire' : oldWire'[i] = s} = {i \in DOMAIN oldWire : oldWire[i] = s}
  BY <1>3
<1>5. OldWrites(s)' = OldWrites(s)
  BY <1>4 DEF OldWrites
<1>6. s \in Old!OnWire' <=> s \in Old!OnWire
  BY <1>3 DEF Old!OnWire, Old!ToSet
<1> QED BY <1>1, <1>2, <1>5, <1>6

\* The books of the old session stay right: one step per action.
LEMMA OldBooksKept ==
  ASSUME HandoverTypeOK, HandoverTypeOK', FlightIsDue, [HandoverNext]_handVars,
         NEW s \in Seqs, s # inFlight', s # inFlight,
         Old!CountedFrom(s, 0), s \in Old!OnWire => Old!SettledFrom(s, 0)
  PROVE  Old!CountedFrom(s, 0)' /\ (s \in Old!OnWire' => Old!SettledFrom(s, 0)')
<1> DEFINE Goal == Old!CountedFrom(s, 0)' /\ (s \in Old!OnWire' => Old!SettledFrom(s, 0)')
<1> SUFFICES Goal
  OBVIOUS
<1>1. ASSUME OldWrites(s)' = OldWrites(s), s \in Old!OnWire' => s \in Old!OnWire,
             s \in oldSent' <=> s \in oldSent, oldRetries'[s] = oldRetries[s],
             oldLastAcked' = oldLastAcked
      PROVE  Goal
  <2>1. /\ OldQ!CountedFrom(s, 0)
        /\ s \in Old!OnWire => OldQ!SettledFrom(s, 0)
        /\ OldQ!Writes(s)' = OldQ!Writes(s)
    BY <1>1, OldOperators, OldOperatorsNext
  <2>2. OldQ!CountedFrom(s, 0)' /\ (s \in Old!OnWire' => OldQ!SettledFrom(s, 0)')
    BY <1>1, <2>1 DEF OldQ!CountedFrom, OldQ!SettledFrom
  <2> QED BY <2>2, OldOperatorsNext
<1>2. CASE OldStep /\ ~OldAckUnknown
  <2>1. OldQ!TypeOK /\ OldQ!TypeOK'
    BY OldOperators, OldOperatorsNext DEF HandoverTypeOK, OldQ!IInv
  <2>2. OldQ!Next /\ UNCHANGED oldStopped
    BY <1>2, OldStepIsStep
  <2>3. oldNext <= s => s \notin OldQ!OnWire
    BY OldWireBelow
  <2>4. OldQ!CountedFrom(s, 0) /\ (s \in OldQ!OnWire => OldQ!SettledFrom(s, 0))
    BY OldOperators
  <2>5. /\ OldQ!CountedFrom(s, 0)'
        /\ OldQ!SettledFrom(s, 0) => OldQ!SettledFrom(s, 0)'
        /\ s \in OldQ!OnWire' => s \in OldQ!OnWire \/ s \in oldSent'
    BY <2>1, <2>2, <2>3, <2>4, OldQ!StepBooks, OldAssumption, QueueAssumption
  <2>6. s \in OldQ!OnWire' => OldQ!SettledFrom(s, 0)'
    BY <2>4, <2>5 DEF OldQ!SettledFrom
  <2> QED BY <2>5, <2>6, OldOperatorsNext
<1>3. CASE Land
  <2>1. oldLastAcked' = oldLastAcked
    BY <1>3 DEF Land
  <2> QED BY <1>1, <1>3, <2>1, LandElsewhere
<1>4. CASE OldAckUnknown \/ InheritSeq \/ InheritAck \/ SetClosed \/ CopySent
           \/ HandleReconnectStart \/ DrawStartResponse \/ NewSessionStep
           \/ UNCHANGED handVars
  <2>1. UNCHANGED <<oldWire, oldSent, oldRetries, oldLastAcked>>
    BY <1>4 DEF OldAckUnknown, InheritSeq, InheritAck, SetClosed, CopySent,
       HandleReconnectStart, DrawStartResponse, NewSessionStep, handVars, oldVars, oldQueue
  <2>2. OldWrites(s)' = OldWrites(s) /\ Old!OnWire' = Old!OnWire
    BY <2>1 DEF OldWrites, Old!OnWire
  <2> QED BY <1>1, <2>1, <2>2
<1> QED BY <1>2, <1>3, <1>4 DEF HandoverNext, Handover

\* The books of an inherited message, which the successor goes on with.
NewBook(s) ==
  /\ CountedFrom(s, OldWrites(s))
  /\ s \in Old!OnWire => s <= oldLastAcked \/ SettledFrom(s, OldWrites(s))

\* A step of the successor's queue, or the ACK in the START, keeps them.
LEMMA NewBookStep ==
  ASSUME TypeOK, NEW s \in Seqs, OldWrites(s) \in Nat, NewBook(s), UNCHANGED oldVars,
         \A n \in Nat : CountedFrom(s, n) =>
                          CountedFrom(s, n)' /\ (SettledFrom(s, n) => SettledFrom(s, n)')
  PROVE  NewBook(s)'
<1>1. OldWrites(s)' = OldWrites(s) /\ Old!OnWire' = Old!OnWire /\ oldLastAcked' = oldLastAcked
  BY DEF oldVars, oldQueue, OldWrites, Old!OnWire
<1>2. PICK n \in Nat : n = OldWrites(s)
  OBVIOUS
<1>3. /\ CountedFrom(s, n)
      /\ s \in Old!OnWire => s <= oldLastAcked \/ SettledFrom(s, n)
  BY <1>2 DEF NewBook
<1>4. CountedFrom(s, n)' /\ (SettledFrom(s, n) => SettledFrom(s, n)')
  BY <1>3
<1>5. CountedFrom(s, OldWrites(s))'
  BY <1>1, <1>2, <1>4 DEF CountedFrom
<1>6. SettledFrom(s, n)' => SettledFrom(s, OldWrites(s))'
  BY <1>1, <1>2 DEF SettledFrom
<1> QED BY <1>1, <1>3, <1>4, <1>5, <1>6 DEF NewBook

\* The books of the inherited messages stay right: one step per action.
LEMMA NewBooksKept ==
  ASSUME HandoverTypeOK, HandoverTypeOK', Untouched, NewAboveInherited, BooksKept,
         [HandoverNext]_handVars, Reached("copied")',
         NEW s \in 1..inherited', s # inFlight'
  PROVE  NewBook(s)'
<1>0. /\ Before("copied")' <=> phase' \in {"serving", "seq", "resynced", "closed"}
      /\ Before("copied") <=> phase \in {"serving", "seq", "resynced", "closed"}
  BY PhaseFacts, PhaseFactsNext
<1>1. s \in Seqs /\ TypeOK /\ TypeOK' /\ OldWrites(s) \in Nat
  BY OldWritesType, QueueAssumption DEF HandoverTypeOK, Seqs
<1>2. ASSUME Reached("copied"), UNCHANGED <<inherited, inFlight>>
      PROVE  NewBook(s)
  BY <1>2 DEF BooksKept, NewBook
<1>3. ASSUME UNCHANGED vars
      PROVE  \A n : CountedFrom(s, n)' = CountedFrom(s, n)
                    /\ SettledFrom(s, n)' = SettledFrom(s, n)
  BY <1>3 DEF vars, CountedFrom, SettledFrom, Writes
<1>4. CASE Land
  <2>1. /\ UNCHANGED <<vars, phase, inherited, inFlight, oldLastAcked>>
    BY <1>4 DEF Land
  <2>2. NewBook(s)
    BY <1>0, <1>2, <2>1 DEF Reached
  <2>3. OldWrites(s)' = OldWrites(s) /\ (s \in Old!OnWire' <=> s \in Old!OnWire)
    BY <1>1, <1>4, <2>1, LandElsewhere
  <2>4. UNCHANGED <<wire, sent, retries, lastAcked>> /\ Writes(s)' = Writes(s)
    BY <2>1 DEF vars, Writes
  <2> QED BY <2>1, <2>2, <2>3, <2>4 DEF NewBook, CountedFrom, SettledFrom
<1>5. CASE CopySent
  <2>1. /\ phase = "closed" /\ sent' = oldSent /\ retries' = oldRetries
        /\ UNCHANGED <<wire, lastAcked, oldVars, inherited, inFlight>>
    BY <1>5 DEF CopySent, CopiedMessages, CopiedRetries
  <2>2. wire = <<>>
    BY <1>0, <2>1 DEF Untouched
  <2>3. Writes(s)' = 0
    <3>1. {i \in DOMAIN wire' : wire'[i] = s} = {}
      BY <2>1, <2>2
    <3> QED BY <3>1, FS_EmptySet DEF Writes
  <2>4. s \in Seqs \ {inFlight}
    BY <1>1, <2>1
  <2>5. /\ OldQ!CountedFrom(s, 0)
        /\ s \in Old!OnWire => OldQ!SettledFrom(s, 0)
        /\ OldQ!Writes(s) = OldWrites(s)
    BY <2>4, OldOperators DEF BooksKept
  <2>6. /\ OldWrites(s)' = OldWrites(s) /\ Old!OnWire' = Old!OnWire
        /\ oldLastAcked' = oldLastAcked
    BY <2>1 DEF oldVars, oldQueue, OldWrites, Old!OnWire
  <2>7. /\ s \in oldSent => OldWrites(s) = oldRetries[s] + 1
        /\ OldWrites(s) <= MaxRetries + 1
        /\ s \in Old!OnWire => s \in oldSent \/ s <= oldLastAcked
                                \/ OldWrites(s) = MaxRetries + 1
    BY <1>1, <2>5 DEF OldQ!CountedFrom, OldQ!SettledFrom
  <2> QED
    BY <1>1, <2>1, <2>3, <2>6, <2>7 DEF NewBook, CountedFrom, SettledFrom
<1>6. CASE HandleReconnectStart
  <2>1. phase = "copied" /\ UNCHANGED <<oldVars, inherited, inFlight>>
    BY <1>6 DEF HandleReconnectStart
  <2>2. NewBook(s)
    BY <1>0, <1>2, <2>1 DEF Reached
  <2>3. CASE UNCHANGED vars
    BY <1>1, <1>3, <2>1, <2>2, <2>3, NewBookStep
  <2>4. ASSUME NEW a \in Seqs, AckMessagesUpTo(a)
        PROVE  NewBook(s)'
    <3>1. a \in Nat
      BY QueueAssumption DEF Seqs
    <3>2. \A n \in Nat : CountedFrom(s, n) =>
            CountedFrom(s, n)' /\ (SettledFrom(s, n) => SettledFrom(s, n)')
      BY <1>1, <2>4, <3>1, AckBooks
    <3> QED BY <1>1, <2>1, <2>2, <3>2, NewBookStep
  <2> QED BY <1>6, <2>3, <2>4, StartIsAck
<1>7. CASE DrawStartResponse \/ NewSessionStep
  <2>1. Next /\ UNCHANGED <<stopped, oldVars, phase, inherited, inFlight>>
    BY <1>7, NewStepIsStep
  <2>2. phase \in {"copied", "started"}
    BY <1>0, <1>7, PhaseFacts DEF DrawStartResponse, NewSessionStep, Reached
  <2>3. NewBook(s)
    BY <1>0, <1>2, <2>1, <2>2 DEF Reached
  <2>4. ASSUME NEW p \in Senders, held[p] # None, held[p] = next, next <= s
        PROVE  FALSE
    <3>1. inherited < held[p]
      BY <2>2, <2>4 DEF NewAboveInherited
    <3>2. next \in Nat /\ inherited \in Nat /\ s \in Nat /\ s <= inherited
      BY <1>1, <2>1, QueueAssumption DEF HandoverTypeOK, TypeOK
    <3> QED BY <2>4, <3>1, <3>2
  <2>5. \A n \in Nat : CountedFrom(s, n) =>
          CountedFrom(s, n)' /\ (SettledFrom(s, n) => SettledFrom(s, n)')
    BY <1>1, <2>1, <2>4, StepBooks
  <2> QED BY <1>1, <2>1, <2>3, <2>5, NewBookStep
<1>8. CASE UNCHANGED handVars
  <2>1. UNCHANGED <<vars, oldVars, phase, inherited, inFlight>>
    BY <1>8 DEF handVars, ctlVars
  <2>2. NewBook(s)
    BY <1>0, <1>2, <2>1 DEF Reached
  <2> QED BY <1>1, <1>3, <2>1, <2>2, NewBookStep
<1>9. CASE OldStep \/ InheritSeq \/ InheritAck \/ SetClosed
  <2>1. phase' \in {"serving", "seq", "resynced", "closed"}
    BY <1>0, <1>9 DEF OldStep, InheritSeq, InheritAck, SetClosed
  <2> QED BY <1>0, <2>1 DEF Reached
<1> QED
  BY <1>4, <1>5, <1>6, <1>7, <1>8, <1>9 DEF HandoverNext, Handover

\* Both together.
LEMMA BooksStayKept ==
  ASSUME HandoverInv, HandoverTypeOK', [HandoverNext]_handVars
  PROVE  BooksKept'
<1>0. HandoverTypeOK /\ Untouched /\ FlightIsDue /\ NewAboveInherited /\ BooksKept
  BY DEF HandoverInv
<1>1. ASSUME NEW s \in Seqs, s # inFlight'
      PROVE  Old!CountedFrom(s, 0)' /\ (s \in Old!OnWire' => Old!SettledFrom(s, 0)')
  <2>1. s # inFlight
    <3>1. CASE SetClosed
      <4>1. inFlight = None
        BY <1>0, <3>1, PhaseFacts DEF SetClosed, FlightIsDue
      <4> QED BY <4>1, QueueAssumption DEF Seqs, None
    <3>2. CASE ~SetClosed
      <4>1. UNCHANGED inFlight
        BY <3>2 DEF HandoverNext, Handover, OldStep, Land, InheritSeq, InheritAck,
           CopySent, HandleReconnectStart, DrawStartResponse, NewSessionStep, handVars,
           ctlVars
      <4> QED BY <1>1, <4>1
    <3> QED BY <3>1, <3>2
  <2>2. Old!CountedFrom(s, 0) /\ (s \in Old!OnWire => Old!SettledFrom(s, 0))
    BY <1>0, <2>1 DEF BooksKept
  <2> QED BY <1>0, <1>1, <2>1, <2>2, OldBooksKept
<1>2. ASSUME Reached("copied")', NEW s \in 1..inherited', s # inFlight'
      PROVE  NewBook(s)'
  BY <1>0, <1>2, NewBooksKept
<1> QED BY <1>1, <1>2 DEF BooksKept, NewBook

-----------------------------------------------------------------------------
(* The inductive invariant                                                 *)

\* A queue nothing was written by satisfies its part of the invariant.
LEMMA OldInitInv ==
  ASSUME Old!Init
  PROVE  /\ Old!IInv /\ Old!OnWire = {} /\ oldSent = {}
         /\ \A s : OldWrites(s) = 0
<1>1. OldQ!Init
  BY DEF Old!Init, OldQ!Init, Old!None, OldQ!None, Old!Seqs, OldQ!Seqs
<1>2. Old!IInv
  BY <1>1, OldQ!InitIInv, OldOperators, OldAssumption, QueueAssumption
<1>3. oldWire = <<>> /\ oldSent = {}
  BY DEF Old!Init
<1>4. Old!OnWire = {}
  BY <1>3 DEF Old!OnWire, Old!ToSet
<1>5. ASSUME NEW s
      PROVE  OldWrites(s) = 0
  <2>1. {i \in DOMAIN oldWire : oldWire[i] = s} = {}
    BY <1>3
  <2> QED BY <2>1, FS_EmptySet DEF OldWrites
<1> QED BY <1>2, <1>3, <1>4, <1>5

\* Nobody has reconnected yet.
LEMMA InitHandoverInv == HandoverInit => HandoverInv
<1> SUFFICES ASSUME HandoverInit
             PROVE  HandoverInv
  OBVIOUS
<1>0. /\ Init /\ Old!Init /\ clientAck = 0 /\ phase = "serving" /\ inherited = 0
      /\ inFlight = None /\ landed = FALSE
  BY DEF HandoverInit
<1>1. HandoverTypeOK
  <2>1. TypeOK /\ Old!IInv
    BY <1>0, InitTypeOK, OldInitInv
  <2>2. phase \in {Phases[i] : i \in DOMAIN Phases}
    <3>1. 1 \in DOMAIN Phases /\ Phases[1] = "serving"
      BY DEF Phases
    <3> QED BY <1>0, <3>1
  <2>3. clientAck \in 0..MaxSeq /\ inherited \in 0..MaxSeq /\ inFlight \in 0..MaxSeq
    <3>1. clientAck = 0 /\ inherited = 0 /\ inFlight = 0
      BY <1>0 DEF None
    <3>2. 0 \in 0..MaxSeq
      BY QueueAssumption
    <3> QED BY <3>1, <3>2
  <2> QED BY <1>0, <2>1, <2>2, <2>3 DEF HandoverTypeOK
<1>2. /\ wire = <<>> /\ sent = {} /\ acking = None /\ next = 1 /\ serverSeq = 0
      /\ \A p \in Senders : held[p] = None
  BY <1>0 DEF Init
<1>3. Untouched
  BY <1>2 DEF Untouched
<1>4. FlightIsDue
  BY <1>0 DEF FlightIsDue
<1>5. NewAboveInherited
  <2>1. ~Reached("resynced")
    BY <1>0, <1>1, PhaseFacts DEF Reached
  <2>2. OnWire = {}
    BY <1>2 DEF OnWire, ToSet
  <2> QED BY <1>0, <1>2, <2>1, <2>2 DEF NewAboveInherited
<1>6. BooksKept
  <2>1. ~Reached("copied")
    BY <1>0, <1>1, PhaseFacts DEF Reached
  <2>2. ASSUME NEW s \in Seqs
        PROVE  Old!CountedFrom(s, 0) /\ (s \in Old!OnWire => Old!SettledFrom(s, 0))
    <3>1. OldQ!Writes(s) = 0 /\ oldSent = {} /\ Old!OnWire = {}
      BY <1>0, OldInitInv, OldOperators
    <3>2. OldQ!CountedFrom(s, 0)
      BY <3>1, QueueAssumption DEF OldQ!CountedFrom
    <3> QED BY <3>1, <3>2, OldOperators
  <2> QED BY <2>1, <2>2 DEF BooksKept
<1> QED BY <1>1, <1>3, <1>4, <1>5, <1>6 DEF HandoverInv

\* Every step keeps it: the parts one after the other, the types first.
LEMMA NextHandoverInv == HandoverInv /\ [HandoverNext]_handVars => HandoverInv'
<1> SUFFICES ASSUME HandoverInv, [HandoverNext]_handVars
             PROVE  HandoverInv'
  OBVIOUS
<1>0. HandoverTypeOK /\ Untouched /\ FlightIsDue /\ NewAboveInherited /\ BooksKept
  BY DEF HandoverInv
<1>1. HandoverTypeOK'
  BY <1>0, HandoverTypeKept
<1>2. Untouched' /\ FlightIsDue' /\ NewAboveInherited' /\ BooksKept'
  BY <1>0, <1>1, UntouchedKept, FlightKept, NewAboveKept, BooksStayKept
<1> QED BY <1>1, <1>2 DEF HandoverInv

\* Through every interleaving of the old session, its clients and the goroutine that
\* replaces it (CreateOrReconnectSession), the types, the order of the stream
\* of the old session and the books of both sessions are right.
THEOREM HandoverIsSound == HandoverSpec => []HandoverInv
BY InitHandoverInv, NextHandoverInv, PTL DEF HandoverSpec

-----------------------------------------------------------------------------
(* What a reconnection promises                                            *)

\* The copy of sentMessages made after SetClosed misses no message that the client
\* may still need: whatever the old session wrote of the inherited numbers is kept
\* by its successor, acknowledged, or used up its retries; only a write that was
\* past IsClosed when SetClosed ran may be lost.
THEOREM UnacknowledgedSurvive == HandoverSpec => []UnackedSurvive
<1>1. HandoverInv => UnackedSurvive
  <2> SUFFICES ASSUME HandoverInv, Reached("copied"),
                      NEW s \in (Old!OnWire \cap 1..inherited) \ {inFlight}
               PROVE  \/ s \in sent
                      \/ s <= oldLastAcked \/ s <= lastAcked
                      \/ OldWrites(s) + Writes(s) = MaxRetries + 1
    BY DEF UnackedSurvive
  <2>1. s <= oldLastAcked \/ SettledFrom(s, OldWrites(s))
    BY DEF HandoverInv, BooksKept
  <2> QED BY <2>1 DEF SettledFrom
<1> QED BY <1>1, HandoverIsSound, PTL

\* A message is written at most MaxRetries + 1 times over both connections, because
\* the copied PendingMessage keeps its Retries; the write in flight excepted.
THEOREM RewritesAreBounded == HandoverSpec => []BoundedAcross
<1>1. HandoverInv => BoundedAcross
  <2> SUFFICES ASSUME HandoverInv, NEW s \in 1..inherited \ {inFlight}
               PROVE  OldWrites(s) + Writes(s) <= MaxRetries + 1
    BY DEF BoundedAcross
  <2>0. HandoverTypeOK /\ Untouched /\ BooksKept
    BY DEF HandoverInv
  <2>1. s \in Seqs
    BY <2>0, QueueAssumption DEF HandoverTypeOK, Seqs
  <2>2. CASE Reached("copied")
    BY <2>0, <2>2 DEF BooksKept, CountedFrom
  <2>3. CASE ~Reached("copied")
    <3>1. {i \in DOMAIN wire : wire[i] = s} = {}
      BY <2>0, <2>3 DEF Untouched, Reached
    <3>2. Writes(s) = 0
      BY <3>1, FS_EmptySet DEF Writes
    <3>3. OldQ!CountedFrom(s, 0) /\ OldQ!Writes(s) = OldWrites(s)
      BY <2>0, <2>1, OldOperators DEF BooksKept
    <3>4. OldWrites(s) \in Nat
      BY <2>0, OldWritesType
    <3> QED BY <3>2, <3>3, <3>4, QueueAssumption DEF OldQ!CountedFrom
  <2> QED BY <2>2, <2>3
<1> QED BY <1>1, HandoverIsSound, PTL

\* The successor resumes at the number after the acknowledged one, so a message it
\* drew itself is parked until the client acknowledged all that it inherited.
THEOREM FreshWaitsForAcks == HandoverSpec => []FreshAfterAcked
<1>1. HandoverInv => FreshAfterAcked
  <2> SUFFICES ASSUME HandoverInv, NEW s \in OnWire \ Old!OnWire
               PROVE  lastAcked >= inherited
    BY DEF FreshAfterAcked
  <2>1. inherited <= lastAcked
    BY DEF HandoverInv, NewAboveInherited
  <2>2. inherited \in Nat /\ lastAcked \in Nat
    <3>1. TypeOK /\ inherited \in Nat
      BY QueueAssumption DEF HandoverInv, HandoverTypeOK
    <3> QED BY <3>1, QueueAssumption DEF TypeOK
  <2> QED BY <2>1, <2>2
<1> QED BY <1>1, HandoverIsSound, PTL

=============================================================================
