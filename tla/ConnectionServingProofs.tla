----------------------- MODULE ConnectionServingProofs -----------------------
(***************************************************************************)
(* TLAPS proofs about ConnectionServing, for any number of connections and *)
(* messages, any maximum and any capacity of the channel.                  *)
(***************************************************************************)
EXTENDS ConnectionServing, FiniteSetTheorems, SequenceTheorems, TLAPS

-----------------------------------------------------------------------------
(* The inductive invariant.                                                *)

\* The types of the variables without the bounds, which the other parts give.
Typed ==
  /\ link \in [Conns -> {"none", "queued", "up", "closed"}]
  /\ wrote \in [Conns -> Nat] /\ read \in [Conns -> Nat] /\ event \in [Conns -> Nat]
  /\ msgChan \in [Conns -> Seq(Nat)]
  /\ acceptor \in {"top", "accept", "ended"} \cup Conns
  /\ handler \in [Conns -> {"none", "stream", "first", "work", "send", "select", "wait", "defer",
                            "ended"}]
  /\ reader \in [Conns -> {"none", "top", "read", "message", "error", "ended"}]
  /\ indexed \in [Conns -> BOOLEAN] /\ closed \in [Conns -> BOOLEAN]
  /\ queueMux \in [Conns -> {"free", "handler", "retry"}]
  /\ closeMux \in [Conns -> {"free", "stop"}]
  /\ retry \in [Conns -> {"none", "idle", "send", "ended"}]
  /\ stop \in {StopSteps[i] : i \in DOMAIN StopSteps}

\* A connection that was not accepted, or not admitted yet, has no handler.
NotStarted ==
  \A c \in Conns :
    /\ link[c] \in {"none", "queued"} => handler[c] = "none"
    /\ acceptor = c => handler[c] = "none" /\ link[c] \in {"up", "closed"}

Bounded ==
  \A c \in Conns :
    /\ event[c] <= read[c] /\ read[c] <= wrote[c] /\ wrote[c] <= MaxMessages[c]
    /\ Len(msgChan[c]) <= Capacity

InOrder(e, q) == \A i \in 1..Len(q) : q[i] = e + i

\* What lies between the reader and the handler while both run, and after the reader's end.
Ahead(c) ==
  /\ handler[c] \in {"none", "stream", "first"} => reader[c] = "none" /\ read[c] = 0 /\ event[c] = 0
  /\ reader[c] = "none" => msgChan[c] = <<>>
  /\ handler[c] = "select" => reader[c] # "none"
  /\ handler[c] \in {"work", "send", "select"} =>
       /\ reader[c] \in {"none", "top", "read", "error"} =>
            InOrder(event[c], msgChan[c]) /\ read[c] = event[c] + Len(msgChan[c])
       /\ reader[c] = "message" =>
            InOrder(event[c], msgChan[c]) /\ read[c] = event[c] + Len(msgChan[c]) + 1
       /\ reader[c] = "ended" =>
            InOrder(event[c], Queued(msgChan[c])) /\ event[c] + Len(Queued(msgChan[c])) <= read[c]

ReadsAhead == \A c \in Conns : Ahead(c)

-----------------------------------------------------------------------------
(* Data                                                                    *)

LEMMA QueuedShape ==
  ASSUME NEW q \in Seq(Nat)
  PROVE  /\ Queued(q) \in Seq(Nat) /\ Len(Queued(q)) <= Len(q)
         /\ Len(Queued(q)) = IF q # <<>> /\ q[Len(q)] = 0 THEN Len(q) - 1 ELSE Len(q)
         /\ \A i \in 1..Len(Queued(q)) : Queued(q)[i] = q[i]
<1>1. CASE q # <<>> /\ q[Len(q)] = 0
  <2>1. Queued(q) = SubSeq(q, 1, Len(q) - 1) /\ Len(q) \in Nat /\ Len(q) > 0
    BY <1>1 DEF Queued
  <2> DEFINE n == Len(q) - 1
  <2>2. n \in Int /\ n >= 0 /\ \A i \in 1..n : q[i] \in Nat
    BY <2>1
  <2> HIDE DEF n
  <2>3. /\ SubSeq(q, 1, n) \in Seq(Nat)
        /\ Len(SubSeq(q, 1, n)) = IF 1 <= n THEN n - 1 + 1 ELSE 0
        /\ \A i \in 1..(n - 1 + 1) : SubSeq(q, 1, n)[i] = q[1 + i - 1]
    BY <2>2, SubSeqProperties
  <2>4. Len(SubSeq(q, 1, n)) = n /\ \A i \in 1..n : SubSeq(q, 1, n)[i] = q[i]
    BY <2>2, <2>3
  <2>5. n = Len(q) - 1
    BY DEF n
  <2> QED
    BY <1>1, <2>1, <2>3, <2>4, <2>5
<1>2. CASE ~(q # <<>> /\ q[Len(q)] = 0)
  <2>1. Queued(q) = q /\ Len(q) \in Nat
    BY <1>2 DEF Queued
  <2> QED
    BY <1>2, <2>1
<1> QED
  BY <1>1, <1>2

LEMMA WholeIsQueued ==
  ASSUME NEW e \in Nat, NEW q \in Seq(Nat), InOrder(e, q)
  PROVE  Queued(q) = q
<1>1. q # <<>> => Len(q) \in 1..Len(q)
  OBVIOUS
<1>2. q # <<>> => q[Len(q)] = e + Len(q) /\ Len(q) > 0
  BY <1>1 DEF InOrder
<1> QED
  BY <1>2 DEF Queued

-----------------------------------------------------------------------------
(* Types and the life of a connection                                      *)

LEMMA StopsAtSteps ==
  /\ \A step \in {"running", "cancelled", "flagged", "signalled", "listenerClosed", "sessionsClosed",
                  "returned"} : step \in {StopSteps[i] : i \in DOMAIN StopSteps}
  /\ \A i \in 1..4 : StopSteps[i + 1] \in {StopSteps[j] : j \in DOMAIN StopSteps}
  BY DEF StopSteps

LEMMA TypeStep == Typed /\ [Next]_vars => Typed'
<1> SUFFICES ASSUME Typed, [Next]_vars
             PROVE  Typed'
  OBVIOUS
<1> USE DEF connVars, readerVars, sessionVars
<1>1. ASSUME NEW c \in Conns, Dial(c) \/ Write(c) \/ Leave(c)
      PROVE  Typed'
  <2>1. CASE Dial(c) \/ Leave(c)
    BY <2>1 DEF Dial, Leave, outsideClients, Typed
  <2>2. CASE Write(c)
    BY <2>2 DEF Write, outsideClients, Typed
  <2> QED
    BY <1>1, <2>1, <2>2
<1>2. CASE AcceptorStep
  <2>1. CASE CheckStopped \/ AcceptFails
    BY <2>1 DEF CheckStopped, AcceptFails, outsideAcceptor, Typed
  <2>2. ASSUME NEW c \in Conns, AcceptSucceeds(c) \/ Refuse(c) \/ StartHandler(c)
        PROVE  Typed'
    BY ZenonT(60), <2>2 DEF AcceptSucceeds, Refuse, StartHandler, outsideAcceptor, Typed
  <2> QED
    BY <1>2, <2>1, <2>2 DEF AcceptorStep
<1>3. ASSUME NEW c \in Conns, AcceptStream(c) \/ NoFirstMessage(c) \/ LockQueue(c) \/ StopServing(c)
                                \/ WaitForReader(c) \/ EndHandler(c)
      PROVE  Typed'
  BY ZenonT(60), <1>3 DEF AcceptStream, NoFirstMessage, LockQueue, StopServing, WaitForReader, EndHandler, Goto,
              outsideHandler, Typed
<1>4. ASSUME NEW c \in Conns, FirstMessage(c)
      PROVE  Typed'
  BY <1>4 DEF FirstMessage, Goto, outsideHandler, Typed
<1>5. ASSUME NEW c \in Conns, Send(c) \/ NoResponse(c)
      PROVE  Typed'
  BY ZenonT(60), <1>5 DEF Send, NoResponse, Worked, Goto, outsideHandler, Typed
<1>6. ASSUME NEW c \in Conns, TakeEvent(c)
      PROVE  Typed'
  <2>1. Head(msgChan[c]) \in Nat /\ Tail(msgChan[c]) \in Seq(Nat)
    BY <1>6 DEF TakeEvent, Typed
  <2> QED
    BY ZenonT(60), <1>6, <2>1 DEF TakeEvent, Goto, outsideHandler, Typed
<1>7. ASSUME NEW c \in Conns, RemoveSession(c) \/ BeginRetry(c) \/ EndRetry(c)
      PROVE  Typed'
  BY ZenonT(60), <1>7 DEF RemoveSession, BeginRetry, EndRetry, outsideHandler, outsideRetry, Typed
<1>8. ASSUME NEW c \in Conns, CheckCancelled(c) \/ ReadMessage(c) \/ DropEvent(c)
      PROVE  Typed'
  <2>1. PICK where \in {"read", "message", "error", "ended"} : reader' = [reader EXCEPT ![c] = where]
    BY <1>8 DEF CheckCancelled, ReadMessage, DropEvent
  <2>2. reader' \in [Conns -> {"none", "top", "read", "message", "error", "ended"}]
    BY <2>1 DEF Typed
  <2>3. UNCHANGED read \/ read' = [read EXCEPT ![c] = read[c] + 1]
    BY <1>8 DEF CheckCancelled, ReadMessage, DropEvent
  <2>4. read' \in [Conns -> Nat]
    <3>1. read[c] + 1 \in Nat /\ read \in [Conns -> Nat]
      BY DEF Typed
    <3> QED
      BY <2>3, <3>1
  <2>5. UNCHANGED <<msgChan, outsideReader>>
    BY <1>8 DEF CheckCancelled, ReadMessage, DropEvent
  <2> QED
    BY <2>2, <2>4, <2>5 DEF outsideReader, Typed
<1>9. ASSUME NEW c \in Conns, SendEvent(c)
      PROVE  Typed'
  <2>1. Event(c) \in Nat
    BY DEF Event, Typed
  <2>2. Append(msgChan[c], Event(c)) \in Seq(Nat)
    BY <2>1 DEF Typed
  <2> QED
    BY <1>9, <2>2 DEF SendEvent, outsideReader, Typed
<1>10. ASSUME NEW c \in Conns, CloseSession(c) \/ StopQueue(c)
       PROVE  Typed'
  BY ZenonT(60), <1>10 DEF CloseSession, StopQueue, outsideStop, Typed
<1>11. CASE StopStep \/ SessionsClosed \/ WaitForHandlers
  <2>1. stop' \in {StopSteps[i] : i \in DOMAIN StopSteps}
    BY <1>11, StopsAtSteps DEF StopStep, SessionsClosed, WaitForHandlers
  <2> QED
    BY <1>11, <2>1 DEF StopStep, SessionsClosed, WaitForHandlers, outsideStop, Typed
<1>12. CASE UNCHANGED vars
  BY <1>12 DEF vars, Typed
<1> QED
  BY <1>1, <1>2, <1>3, <1>4, <1>5, <1>6, <1>7, <1>8, <1>9, <1>10, <1>11, <1>12
  DEF Next, HandlerStep, ReaderStep

LEMMA StartedStep == Typed /\ NotStarted /\ [Next]_vars => NotStarted'
<1> SUFFICES ASSUME Typed, NotStarted, [Next]_vars
             PROVE  NotStarted'
  OBVIOUS
<1> USE ServingAssumption DEF connVars, readerVars, sessionVars
<1>1. ASSUME NEW c \in Conns, Dial(c) \/ Leave(c)
      PROVE  NotStarted'
  BY <1>1 DEF Dial, Leave, outsideClients, NotStarted, Typed
<1>2. CASE CheckStopped \/ AcceptFails
  BY <1>2 DEF CheckStopped, AcceptFails, outsideAcceptor, NotStarted
<1>3. ASSUME NEW c \in Conns, AcceptSucceeds(c)
      PROVE  NotStarted'
  BY <1>3 DEF AcceptSucceeds, outsideAcceptor, NotStarted, Typed
<1>4. ASSUME NEW c \in Conns, Refuse(c) \/ StartHandler(c)
      PROVE  NotStarted'
  BY <1>4 DEF Refuse, StartHandler, outsideAcceptor, NotStarted, Typed
<1>5. ASSUME NEW c \in Conns, handler[c] # "none", NEW where, handler' = [handler EXCEPT ![c] = where],
             link' \in {link, [link EXCEPT ![c] = "closed"]}, UNCHANGED acceptor
      PROVE  NotStarted'
  BY <1>5 DEF NotStarted, Typed
<1>6. ASSUME NEW c \in Conns, HandlerStep(c)
      PROVE  NotStarted'
  BY <1>5, <1>6
  DEF HandlerStep, AcceptStream, FirstMessage, NoFirstMessage, LockQueue, Send, NoResponse, Worked,
      TakeEvent, StopServing, WaitForReader, EndHandler, Goto, outsideHandler
<1>7. ASSUME NEW c \in Conns, StopQueue(c)
      PROVE  NotStarted'
  BY <1>7 DEF StopQueue, outsideStop, NotStarted, Typed
<1>8. CASE UNCHANGED <<link, handler, acceptor>>
  BY <1>8 DEF NotStarted
<1> QED
  BY <1>1, <1>2, <1>3, <1>4, <1>6, <1>7, <1>8
  DEF Next, vars, AcceptorStep, Write, RemoveSession, ReaderStep, CheckCancelled, ReadMessage,
      SendEvent, DropEvent, BeginRetry, EndRetry, CloseSession, StopStep, SessionsClosed,
      WaitForHandlers, outsideClients, outsideReader, outsideRetry, outsideStop, outsideHandler

LEMMA CountStep == Typed /\ NotStarted /\ ConnectionsCounted /\ [Next]_vars => ConnectionsCounted'
<1> SUFFICES ASSUME Typed, NotStarted, ConnectionsCounted, [Next]_vars
             PROVE  ConnectionsCounted'
  OBVIOUS
<1> USE ServingAssumption DEF connVars, readerVars, sessionVars
<1> DEFINE Served == {c \in Conns : Serving(c)}
<1>0. IsFiniteSet(Served) /\ active = Cardinality(Served) /\ active \in Nat
  BY FS_Subset, FS_CardinalityType DEF ConnectionsCounted
<1>1. ASSUME NEW c \in Conns, StartHandler(c)
      PROVE  ConnectionsCounted'
  <2>1. ~Serving(c) /\ active' = active + 1 /\ active < MaxConnections
    BY <1>1 DEF StartHandler, AllowNewConnection, Serving, NotStarted
  <2>2. Served' = Served \cup {c}
    BY <1>1 DEF StartHandler, Serving, Typed
  <2>3. Cardinality(Served') = active + 1
    BY <1>0, <2>1, <2>2, FS_AddElement
  <2> QED
    BY <1>0, <2>1, <2>3 DEF ConnectionsCounted
<1>2. ASSUME NEW c \in Conns, EndHandler(c)
      PROVE  ConnectionsCounted'
  <2>1. Serving(c) /\ active' = active - 1
    BY <1>2 DEF EndHandler, AfterEnd, Serving
  <2>2. Served' = Served \ {c}
    BY <1>2 DEF EndHandler, Goto, Serving, Typed
  <2>3. Cardinality(Served') = active - 1
    BY <1>0, <2>1, <2>2, FS_RemoveElement
  <2>4. active # 0
    BY <1>0, <2>1, FS_EmptySet
  <2> QED
    BY <1>0, <2>1, <2>3, <2>4 DEF ConnectionsCounted
<1>3. ASSUME NEW c \in Conns, NEW where, handler' = [handler EXCEPT ![c] = where],
             Serving(c), where \notin {"none", "ended"}, UNCHANGED active
      PROVE  ConnectionsCounted'
  <2>1. Served' = Served
    BY <1>3 DEF Serving, Typed
  <2> QED
    BY <1>3, <2>1 DEF ConnectionsCounted
<1>4. CASE UNCHANGED <<handler, active>>
  BY <1>4 DEF ConnectionsCounted, Serving
<1>5. ASSUME NEW c \in Conns, AcceptStream(c) \/ FirstMessage(c) \/ NoFirstMessage(c)
      PROVE  ConnectionsCounted'
  BY <1>3, <1>5 DEF AcceptStream, FirstMessage, NoFirstMessage, Goto, Serving
<1>6. ASSUME NEW c \in Conns, LockQueue(c) \/ Send(c) \/ NoResponse(c)
      PROVE  ConnectionsCounted'
  BY <1>3, <1>6 DEF LockQueue, Send, NoResponse, Worked, Goto, Serving
<1>7. ASSUME NEW c \in Conns, TakeEvent(c) \/ StopServing(c) \/ WaitForReader(c)
      PROVE  ConnectionsCounted'
  BY ZenonT(60), <1>3, <1>7 DEF TakeEvent, StopServing, WaitForReader, Goto, Serving
<1>8. ASSUME NEW c \in Conns, HandlerStep(c)
      PROVE  ConnectionsCounted'
  BY <1>2, <1>5, <1>6, <1>7, <1>8 DEF HandlerStep
<1>9. CASE AcceptorStep
  BY <1>1, <1>4, <1>9
  DEF AcceptorStep, CheckStopped, AcceptFails, AcceptSucceeds, Refuse, outsideAcceptor
<1>10. ASSUME NEW c \in Conns, Dial(c) \/ Write(c) \/ Leave(c) \/ RemoveSession(c)
       PROVE  ConnectionsCounted'
  BY <1>4, <1>10 DEF Dial, Write, Leave, RemoveSession, outsideClients
<1>11. ASSUME NEW c \in Conns, ReaderStep(c) \/ BeginRetry(c) \/ EndRetry(c)
       PROVE  ConnectionsCounted'
  BY <1>4, <1>11
  DEF ReaderStep, CheckCancelled, ReadMessage, SendEvent, DropEvent, BeginRetry, EndRetry,
      outsideReader, outsideRetry
<1>12. ASSUME NEW c \in Conns, CloseSession(c) \/ StopQueue(c)
       PROVE  ConnectionsCounted'
  BY <1>4, <1>12 DEF CloseSession, StopQueue, outsideStop
<1>13. CASE StopStep \/ SessionsClosed \/ WaitForHandlers \/ UNCHANGED vars
  BY <1>4, <1>13 DEF StopStep, SessionsClosed, WaitForHandlers, outsideStop, vars
<1> QED
  BY <1>8, <1>9, <1>10, <1>11, <1>12, <1>13 DEF Next

-----------------------------------------------------------------------------
(* Between the reader and the handler                                      *)

\* Who is not concerned keeps what it has.
LEMMA AheadKept ==
  ASSUME NEW c \in Conns, Ahead(c),
         UNCHANGED <<handler[c], reader[c], read[c], event[c], msgChan[c]>>
  PROVE  Ahead(c)'
  BY DEF Ahead, InOrder

\* The handler leaves for good.
LEMMA AheadDone ==
  ASSUME NEW c \in Conns, Ahead(c), handler'[c] \in {"wait", "defer", "ended"},
         reader'[c] = "none" => msgChan'[c] = <<>>
  PROVE  Ahead(c)'
  BY DEF Ahead

\* The sequence without its head, or with one event more.
LEMMA TailShape ==
  ASSUME NEW q \in Seq(Nat), q # <<>>
  PROVE  /\ Head(q) = q[1] /\ Head(q) \in Nat /\ Tail(q) \in Seq(Nat) /\ Len(Tail(q)) = Len(q) - 1
         /\ \A i \in 1..(Len(q) - 1) : Tail(q)[i] = q[i + 1]
         /\ Len(q) \in Nat /\ Len(q) > 0
  OBVIOUS

LEMMA AppendShape ==
  ASSUME NEW q \in Seq(Nat), NEW n \in Nat
  PROVE  /\ Append(q, n) \in Seq(Nat) /\ Append(q, n) # <<>>
         /\ Len(q) \in Nat /\ Len(Append(q, n)) = Len(q) + 1
         /\ Append(q, n)[Len(q) + 1] = n
         /\ \A i \in 1..Len(q) : Append(q, n)[i] = q[i]
  OBVIOUS

LEMMA QueuedTail ==
  ASSUME NEW q \in Seq(Nat), q # <<>>, Head(q) # 0
  PROVE  /\ Len(Queued(q)) > 0 /\ Len(Queued(q)) \in Nat
         /\ Len(Queued(Tail(q))) = Len(Queued(q)) - 1
         /\ \A i \in 1..(Len(Queued(q)) - 1) : Queued(Tail(q))[i] = Queued(q)[i + 1]
<1> DEFINE t == Tail(q)
           n == Len(q)
<1>1. /\ Head(q) = q[1] /\ t \in Seq(Nat) /\ Len(t) = n - 1 /\ n \in Nat /\ n > 0
      /\ \A i \in 1..(n - 1) : t[i] = q[i + 1]
  BY TailShape
<1>2. /\ Len(Queued(q)) = IF q[n] = 0 THEN n - 1 ELSE n
      /\ \A i \in 1..Len(Queued(q)) : Queued(q)[i] = q[i]
  BY QueuedShape
<1>3. /\ Len(Queued(t)) = IF t # <<>> /\ t[Len(t)] = 0 THEN Len(t) - 1 ELSE Len(t)
      /\ \A i \in 1..Len(Queued(t)) : Queued(t)[i] = t[i]
  BY <1>1, QueuedShape
<1>4. n = 1 => q[n] # 0 /\ t = <<>>
  <2>1. n = 1 => Len(t) = 0
    BY <1>1
  <2> HIDE DEF t, n
  <2>2. Len(t) = 0 => t = <<>>
    BY <1>1, EmptySeq
  <2> QED
    BY <1>1, <2>1, <2>2
<1>5. n > 1 => t # <<>> /\ t[Len(t)] = q[n]
  <2> SUFFICES ASSUME n > 1
               PROVE  t # <<>> /\ t[Len(t)] = q[n]
    OBVIOUS
  <2>1. n - 1 \in 1..(n - 1) /\ Len(t) = n - 1 /\ Len(t) # 0 /\ (n - 1) + 1 = n
    BY <1>1
  <2> HIDE DEF t, n
  <2>2. t[n - 1] = q[(n - 1) + 1]
    BY <1>1, <2>1
  <2> QED
    BY <1>1, <2>1, <2>2
<1> HIDE DEF t, n
<1>6. Len(Queued(q)) > 0 /\ Len(Queued(q)) \in Nat /\ Len(Queued(t)) = Len(Queued(q)) - 1
  <2>1. CASE n = 1
    BY <1>1, <1>2, <1>3, <1>4, <2>1
  <2>2. CASE n > 1
    BY SMTT(30), <1>1, <1>2, <1>3, <1>5, <2>2
  <2> QED
    BY <1>1, <2>1, <2>2
<1>7. ASSUME NEW i \in 1..(Len(Queued(q)) - 1)
      PROVE  Queued(t)[i] = Queued(q)[i + 1]
  <2>1. i \in 1..Len(Queued(t)) /\ i \in 1..(n - 1) /\ i + 1 \in 1..Len(Queued(q))
    BY <1>1, <1>2, <1>6
  <2> QED
    BY <1>1, <1>2, <1>3, <2>1
<1> QED
  BY <1>6, <1>7 DEF t

\* Order from e on, without the first and with the next number.
LEMMA OrderShifts ==
  ASSUME NEW e \in Nat, NEW q \in Seq(Nat), NEW t \in Seq(Nat), InOrder(e, q), Len(q) > 0,
         Len(t) = Len(q) - 1, \A i \in 1..(Len(q) - 1) : t[i] = q[i + 1]
  PROVE  q[1] = e + 1 /\ InOrder(e + 1, t)
<1>1. Len(q) \in Nat /\ 1 \in 1..Len(q)
  OBVIOUS
<1>2. ASSUME NEW i \in 1..Len(t)
      PROVE  t[i] = e + 1 + i
  <2>1. i \in 1..(Len(q) - 1) /\ i + 1 \in 1..Len(q) /\ i \in Nat
    BY <1>1
  <2>2. t[i] = q[i + 1] /\ q[i + 1] = e + (i + 1)
    BY <2>1 DEF InOrder
  <2> QED
    BY <2>1, <2>2
<1> QED
  BY <1>1, <1>2 DEF InOrder

LEMMA OrderGrows ==
  ASSUME NEW e \in Nat, NEW q \in Seq(Nat), NEW a \in Seq(Nat), InOrder(e, q),
         Len(a) = Len(q) + 1, \A i \in 1..Len(q) : a[i] = q[i], a[Len(q) + 1] = e + Len(q) + 1
  PROVE  InOrder(e, a)
<1> SUFFICES ASSUME NEW i \in 1..(Len(q) + 1)
             PROVE  a[i] = e + i
  BY DEF InOrder
<1>1. Len(q) \in Nat
  OBVIOUS
<1>2. CASE i = Len(q) + 1
  BY <1>1, <1>2
<1>3. CASE i \in 1..Len(q)
  BY <1>3 DEF InOrder
<1> QED
  BY <1>1, <1>2, <1>3

LEMMA AheadStep == Typed /\ NotStarted /\ Bounded /\ ReadsAhead /\ [Next]_vars => ReadsAhead'
<1> SUFFICES ASSUME Typed, NotStarted, Bounded, ReadsAhead, [Next]_vars
             PROVE  ReadsAhead'
  OBVIOUS
<1> USE ServingAssumption DEF connVars, readerVars, sessionVars
<1>0. ASSUME NEW c \in Conns, Ahead(c)',
             \A d \in Conns \ {c} : UNCHANGED <<handler[d], reader[d], read[d], event[d], msgChan[d]>>
      PROVE  ReadsAhead'
  BY <1>0, AheadKept DEF ReadsAhead
<1>1. ASSUME NEW c \in Conns, StartHandler(c)
      PROVE  ReadsAhead'
  <2>1. handler[c] = "none"
    BY <1>1 DEF StartHandler, NotStarted
  <2>2. Ahead(c)'
    BY <1>1, <2>1 DEF StartHandler, outsideAcceptor, ReadsAhead, Ahead, Typed
  <2> QED
    BY <1>0, <1>1, <2>2 DEF StartHandler, outsideAcceptor, Typed
<1>2. ASSUME NEW c \in Conns, AcceptStream(c) \/ NoFirstMessage(c) \/ LockQueue(c) \/ StopServing(c)
                                \/ WaitForReader(c) \/ EndHandler(c)
      PROVE  ReadsAhead'
  <2>1. UNCHANGED <<event, reader, read, msgChan>>
    BY <1>2 DEF AcceptStream, NoFirstMessage, LockQueue, StopServing, WaitForReader, EndHandler
  <2>2. PICK where : handler' = [handler EXCEPT ![c] = where]
                     /\ (\/ where \in {"wait", "defer", "ended"}
                         \/ handler[c] = "stream" /\ where = "first"
                         \/ handler[c] = "work" /\ where = "send")
    BY <1>2 DEF AcceptStream, NoFirstMessage, LockQueue, StopServing, WaitForReader, EndHandler, Goto
  <2>3. handler'[c] = where /\ \A d \in Conns \ {c} : handler'[d] = handler[d]
    BY <2>2 DEF Typed
  <2>4. Ahead(c)'
    <3>1. Ahead(c)
      BY DEF ReadsAhead
    <3>2. CASE where \in {"wait", "defer", "ended"}
      BY <2>1, <2>3, <3>1, <3>2 DEF Ahead
    <3>3. CASE handler[c] = "stream" /\ where = "first"
      BY <2>1, <2>3, <3>1, <3>3 DEF Ahead
    <3>4. CASE handler[c] = "work" /\ where = "send"
      BY <2>1, <2>3, <3>1, <3>4 DEF Ahead, InOrder
    <3> QED
      BY <2>2, <3>2, <3>3, <3>4
  <2> QED
    BY <1>0, <2>1, <2>3, <2>4
<1>3. ASSUME NEW c \in Conns, FirstMessage(c)
      PROVE  ReadsAhead'
  <2>1. /\ handler'[c] = "work" /\ read'[c] = 1 /\ event'[c] = 1
        /\ UNCHANGED <<reader, msgChan>> /\ handler[c] = "first"
        /\ \A d \in Conns \ {c} : UNCHANGED <<handler[d], read[d], event[d]>>
    BY <1>3 DEF FirstMessage, Goto, Typed
  <2>2. reader[c] = "none" /\ msgChan[c] = <<>>
    BY <2>1 DEF ReadsAhead, Ahead
  <2>3. Ahead(c)'
    BY <2>1, <2>2 DEF Ahead, InOrder
  <2> QED
    BY <1>0, <2>1, <2>3
<1>4. ASSUME NEW c \in Conns, Send(c) \/ NoResponse(c)
      PROVE  ReadsAhead'
  <2>1. /\ handler[c] \in {"work", "send"} /\ UNCHANGED <<event, read, msgChan>> /\ Worked(c)
    BY <1>4 DEF Send, NoResponse
  <2>2. /\ handler'[c] = "select" /\ reader'[c] = IF reader[c] = "none" THEN "top" ELSE reader[c]
        /\ \A d \in Conns \ {c} : UNCHANGED <<handler[d], reader[d]>>
    BY <2>1 DEF Worked, Goto, Typed
  <2>3. Ahead(c)'
    BY <2>1, <2>2 DEF ReadsAhead, Ahead, InOrder
  <2> QED
    BY <1>0, <2>1, <2>2, <2>3
<1>5. ASSUME NEW c \in Conns, TakeEvent(c)
      PROVE  ReadsAhead'
  <2> DEFINE q == msgChan[c]
  <2>1. /\ handler[c] = "select" /\ q # <<>> /\ q \in Seq(Nat) /\ event[c] \in Nat /\ read[c] \in Nat
        /\ UNCHANGED <<reader, read>>
        /\ msgChan'[c] = Tail(q) /\ \A d \in Conns \ {c} : msgChan'[d] = msgChan[d]
    BY <1>5 DEF TakeEvent, Typed
  <2>2. Ahead(c) /\ reader[c] # "none"
    BY <2>1 DEF ReadsAhead, Ahead
  <2>3. CASE Head(q) = 0
    <3>1. /\ handler'[c] = "wait"
          /\ \A d \in Conns \ {c} : UNCHANGED <<handler[d], event[d]>>
      BY <1>5, <2>3 DEF TakeEvent, Goto, Typed
    <3>2. Ahead(c)'
      BY <2>1, <2>2, <3>1, AheadDone
    <3> QED
      BY <1>0, <2>1, <3>1, <3>2
  <2>4. CASE Head(q) # 0
    <3>1. /\ handler'[c] = "work" /\ event'[c] = Head(q)
          /\ \A d \in Conns \ {c} : UNCHANGED <<handler[d], event[d]>>
      BY <1>5, <2>4 DEF TakeEvent, Goto, Typed
    <3>2. /\ Head(q) = q[1] /\ Len(Tail(q)) = Len(q) - 1 /\ Len(q) \in Nat /\ Len(q) > 0
          /\ \A i \in 1..(Len(q) - 1) : Tail(q)[i] = q[i + 1]
      BY <2>1, TailShape
    <3>3. ASSUME InOrder(event[c], q)
          PROVE  event'[c] = event[c] + 1 /\ InOrder(event'[c], msgChan'[c])
      <4>1. Tail(q) \in Seq(Nat)
        BY <2>1
      <4> HIDE DEF q
      <4>2. q[1] = event[c] + 1 /\ InOrder(event[c] + 1, Tail(q))
        BY <2>1, <3>2, <3>3, <4>1, OrderShifts
      <4> QED
        BY <2>1, <3>1, <3>2, <4>2
    <3>4. ASSUME InOrder(event[c], Queued(q))
          PROVE  event'[c] = event[c] + 1 /\ InOrder(event'[c], Queued(msgChan'[c]))
      <4> HIDE DEF q
      <4>1. /\ Len(Queued(q)) > 0 /\ Len(Queued(q)) \in Nat
            /\ Len(Queued(Tail(q))) = Len(Queued(q)) - 1
            /\ \A i \in 1..(Len(Queued(q)) - 1) : Queued(Tail(q))[i] = Queued(q)[i + 1]
        BY <2>1, <2>4, QueuedTail
      <4>2. Queued(q) \in Seq(Nat) /\ \A i \in 1..Len(Queued(q)) : Queued(q)[i] = q[i]
        BY <2>1, QueuedShape
      <4>3. Queued(Tail(q)) \in Seq(Nat)
        BY <2>1, TailShape, QueuedShape
      <4>4. Queued(q)[1] = event[c] + 1 /\ InOrder(event[c] + 1, Queued(Tail(q)))
        BY <2>1, <3>4, <4>1, <4>2, <4>3, OrderShifts
      <4>5. 1 \in 1..Len(Queued(q))
        BY <4>1
      <4>6. q[1] = event[c] + 1
        BY <4>2, <4>4, <4>5
      <4> QED
        BY <2>1, <3>1, <3>2, <4>4, <4>6
    <3>5. Ahead(c)'
      <4>1. CASE reader[c] \in {"top", "read", "error", "message"}
        <5>1. /\ InOrder(event[c], q)
              /\ read[c] = event[c] + Len(q) + (IF reader[c] = "message" THEN 1 ELSE 0)
          BY <2>1, <2>2, <4>1 DEF Ahead
        <5>2. event'[c] = event[c] + 1 /\ InOrder(event'[c], msgChan'[c])
          BY <3>3, <5>1
        <5> HIDE DEF q
        <5>3. read'[c] = event'[c] + Len(msgChan'[c]) + (IF reader[c] = "message" THEN 1 ELSE 0)
          BY <2>1, <3>2, <5>1, <5>2
        <5>4. Len(msgChan'[c]) \in Nat /\ event'[c] \in Nat
          BY <2>1, <3>2, <5>2
        <5> QED
          BY <2>1, <2>2, <3>1, <4>1, <5>2, <5>3, <5>4 DEF Ahead
      <4>2. CASE reader[c] = "ended"
        <5>1. InOrder(event[c], Queued(q)) /\ event[c] + Len(Queued(q)) <= read[c]
          BY <2>1, <2>2, <4>2 DEF Ahead
        <5>2. event'[c] = event[c] + 1 /\ InOrder(event'[c], Queued(msgChan'[c]))
          BY <3>4, <5>1
        <5>3. /\ Len(Queued(q)) \in Nat /\ Len(Queued(Tail(q))) = Len(Queued(q)) - 1
          BY <2>1, <2>4, QueuedTail
        <5>4. Queued(msgChan'[c]) = Queued(Tail(q))
          BY <2>1 DEF Queued
        <5>5. event'[c] + Len(Queued(msgChan'[c])) <= read'[c]
          BY <2>1, <5>1, <5>2, <5>3, <5>4
        <5> QED
          BY <2>1, <3>1, <4>2, <5>2, <5>5 DEF Ahead
      <4> QED
        BY <2>2, <4>1, <4>2 DEF Typed
    <3> QED
      BY <1>0, <2>1, <3>1, <3>5
  <2> QED
    BY <2>3, <2>4
<1>6. ASSUME NEW c \in Conns, CheckCancelled(c) \/ DropEvent(c)
      PROVE  ReadsAhead'
  <2> DEFINE q == msgChan[c]
  <2>1. UNCHANGED <<handler, event, read, msgChan>> /\ q \in Seq(Nat) /\ event[c] \in Nat
        /\ read[c] \in Nat /\ Len(q) \in Nat
    BY <1>6 DEF CheckCancelled, DropEvent, outsideReader, Typed
  <2>2. /\ reader'[c] \in {"ended", "read"} /\ reader[c] \in {"top", "message", "error"}
        /\ reader'[c] = "read" => reader[c] = "top"
        /\ \A d \in Conns \ {c} : reader'[d] = reader[d]
    BY <1>6 DEF CheckCancelled, DropEvent, Typed
  <2>3. Ahead(c)'
    <3>1. Ahead(c)
      BY DEF ReadsAhead
    <3>2. CASE reader'[c] = "read"
      BY <2>1, <2>2, <3>1, <3>2 DEF Ahead, InOrder
    <3>3. CASE reader'[c] = "ended"
      <4>1. handler[c] \in {"work", "send", "select"} => InOrder(event[c], q) /\ event[c] + Len(q) <= read[c]
        BY <2>1, <2>2, <3>1 DEF Ahead
      <4>2. InOrder(event[c], q) => Queued(q) = q
        BY <2>1, WholeIsQueued
      <4>3. Queued(msgChan'[c]) = Queued(q)
        BY <2>1 DEF Queued
      <4>4. handler[c] \in {"work", "send", "select"} =>
              InOrder(event'[c], Queued(msgChan'[c])) /\ event'[c] + Len(Queued(msgChan'[c])) <= read'[c]
        BY <2>1, <4>1, <4>2, <4>3 DEF InOrder
      <4> QED
        BY <2>1, <2>2, <3>1, <3>3, <4>4 DEF Ahead
    <3> QED
      BY <2>2, <3>2, <3>3
  <2> QED
    BY <1>0, <2>1, <2>2, <2>3
<1>7. ASSUME NEW c \in Conns, ReadMessage(c)
      PROVE  ReadsAhead'
  <2>1. /\ UNCHANGED <<handler, event, msgChan>> /\ reader[c] = "read"
        /\ event[c] \in Nat /\ read[c] \in Nat /\ Len(msgChan[c]) \in Nat
        /\ \/ reader'[c] = "message" /\ read'[c] = read[c] + 1
           \/ reader'[c] = "error" /\ read'[c] = read[c]
        /\ \A d \in Conns \ {c} : reader'[d] = reader[d] /\ read'[d] = read[d]
    BY <1>7 DEF ReadMessage, outsideReader, Typed
  <2>2. Ahead(c)'
    BY <2>1 DEF ReadsAhead, Ahead, InOrder
  <2> QED
    BY <1>0, <2>1, <2>2
<1>8. ASSUME NEW c \in Conns, SendEvent(c)
      PROVE  ReadsAhead'
  <2> DEFINE q == msgChan[c]
             n == Event(c)
  <2>1. /\ UNCHANGED <<handler, event, read>> /\ q \in Seq(Nat) /\ n \in Nat
        /\ event[c] \in Nat /\ read[c] \in Nat
        /\ msgChan'[c] = Append(q, n) /\ reader[c] \in {"message", "error"}
        /\ reader'[c] = IF reader[c] = "error" THEN "ended" ELSE "top"
        /\ \A d \in Conns \ {c} : UNCHANGED <<reader[d], msgChan[d]>>
    BY <1>8 DEF SendEvent, Event, outsideReader, Typed
  <2>2. /\ Append(q, n) \in Seq(Nat) /\ Append(q, n) # <<>>
        /\ Len(q) \in Nat /\ Len(Append(q, n)) = Len(q) + 1
        /\ Append(q, n)[Len(q) + 1] = n
        /\ \A i \in 1..Len(q) : Append(q, n)[i] = q[i]
    BY <2>1, AppendShape
  <2>3. Ahead(c)
    BY DEF ReadsAhead
  <2>4. Ahead(c)'
    <3>1. CASE reader[c] = "message"
      <4>1. n = read[c]
        BY <3>1 DEF Event
      <4>2. handler[c] \in {"work", "send", "select"} =>
              InOrder(event'[c], msgChan'[c]) /\ read'[c] = event'[c] + Len(msgChan'[c])
        <5> SUFFICES ASSUME handler[c] \in {"work", "send", "select"}
                     PROVE  InOrder(event'[c], msgChan'[c]) /\ read'[c] = event'[c] + Len(msgChan'[c])
          OBVIOUS
        <5>1. InOrder(event[c], q) /\ read[c] = event[c] + Len(q) + 1
          BY <2>3, <3>1 DEF Ahead
        <5>2. n = event[c] + Len(q) + 1
          BY <4>1, <5>1
        <5> HIDE DEF q, n
        <5>3. InOrder(event[c], Append(q, n))
          BY <2>1, <2>2, <5>1, <5>2, OrderGrows
        <5>4. read[c] = event[c] + Len(Append(q, n))
          BY <2>1, <2>2, <5>1
        <5> QED
          BY <2>1, <5>3, <5>4
      <4> QED
        BY <2>1, <2>3, <3>1, <4>2 DEF Ahead
    <3>2. CASE reader[c] = "error"
      <4>1. n = 0
        BY <3>2 DEF Event
      <4>2. Len(Queued(Append(q, n))) = Len(q)
            /\ \A i \in 1..Len(q) : Queued(Append(q, n))[i] = q[i]
        <5> HIDE DEF q, n
        <5>1. Append(q, n)[Len(Append(q, n))] = 0
          BY <2>2, <4>1
        <5>2. /\ Len(Queued(Append(q, n))) = Len(Append(q, n)) - 1
              /\ \A i \in 1..Len(Queued(Append(q, n))) : Queued(Append(q, n))[i] = Append(q, n)[i]
          BY <2>2, <5>1, QueuedShape
        <5>3. Len(Queued(Append(q, n))) = Len(q)
          BY <2>2, <5>2
        <5> QED
          BY <2>2, <5>2, <5>3
      <4>3. Queued(msgChan'[c]) = Queued(Append(q, n))
        BY <2>1 DEF Queued
      <4>4. handler[c] \in {"work", "send", "select"} =>
              InOrder(event'[c], Queued(msgChan'[c])) /\ event'[c] + Len(Queued(msgChan'[c])) <= read'[c]
        <5> SUFFICES ASSUME handler[c] \in {"work", "send", "select"}
                     PROVE  InOrder(event'[c], Queued(msgChan'[c]))
                            /\ event'[c] + Len(Queued(msgChan'[c])) <= read'[c]
          OBVIOUS
        <5>1. InOrder(event[c], q) /\ read[c] = event[c] + Len(q)
          BY <2>3, <3>2 DEF Ahead
        <5> QED
          BY <2>1, <2>2, <4>2, <4>3, <5>1 DEF InOrder
      <4> QED
        BY <2>1, <2>3, <3>2, <4>4 DEF Ahead
    <3> QED
      BY <2>1, <3>1, <3>2
  <2> QED
    BY <1>0, <2>1, <2>4
<1>9. CASE UNCHANGED <<handler, reader, read, event, msgChan>>
  BY <1>9, AheadKept DEF ReadsAhead
<1> QED
  BY <1>1, <1>2, <1>3, <1>4, <1>5, <1>6, <1>7, <1>8, <1>9
  DEF Next, vars, HandlerStep, ReaderStep, AcceptorStep, CheckStopped, AcceptFails, AcceptSucceeds,
      Refuse, Dial, Write, Leave, RemoveSession, BeginRetry, EndRetry, CloseSession, StopQueue,
      StopStep, SessionsClosed, WaitForHandlers, outsideClients, outsideAcceptor, outsideHandler,
      outsideRetry, outsideStop


LEMMA BoundedStep == Typed /\ NotStarted /\ Bounded /\ ReadsAhead /\ [Next]_vars => Bounded'
<1> SUFFICES ASSUME Typed, NotStarted, Bounded, ReadsAhead, [Next]_vars
             PROVE  Bounded'
  OBVIOUS
<1> USE ServingAssumption DEF connVars, readerVars, sessionVars
<1>1. ASSUME NEW c \in Conns, Write(c)
      PROVE  Bounded'
  <2>1. /\ wrote'[c] = wrote[c] + 1 /\ wrote[c] < MaxMessages[c]
        /\ wrote[c] \in Nat /\ read[c] \in Nat /\ MaxMessages[c] \in Nat
        /\ \A d \in Conns \ {c} : wrote'[d] = wrote[d]
        /\ UNCHANGED <<event, read, msgChan>>
    BY <1>1 DEF Write, outsideClients, Typed
  <2> QED
    BY <2>1 DEF Bounded
<1>2. ASSUME NEW c \in Conns, FirstMessage(c)
      PROVE  Bounded'
  <2>1. /\ read'[c] = 1 /\ event'[c] = 1 /\ wrote[c] > 0 /\ wrote[c] \in Nat
        /\ \A d \in Conns \ {c} : read'[d] = read[d] /\ event'[d] = event[d]
        /\ UNCHANGED <<wrote, msgChan>>
    BY <1>2 DEF FirstMessage, outsideHandler, Typed
  <2> QED
    BY <2>1 DEF Bounded
<1>3. ASSUME NEW c \in Conns, TakeEvent(c)
      PROVE  Bounded'
  <2> DEFINE q == msgChan[c]
  <2>1. /\ handler[c] = "select" /\ q # <<>> /\ q \in Seq(Nat) /\ event[c] \in Nat /\ read[c] \in Nat
        /\ UNCHANGED <<wrote, reader, read>>
        /\ msgChan'[c] = Tail(q) /\ \A d \in Conns \ {c} : msgChan'[d] = msgChan[d]
        /\ event'[c] = IF Head(q) = 0 THEN event[c] ELSE Head(q)
        /\ \A d \in Conns \ {c} : event'[d] = event[d]
        /\ reader[c] \in {"none", "top", "read", "message", "error", "ended"}
    BY <1>3 DEF TakeEvent, outsideHandler, Typed
  <2>2. Ahead(c) /\ reader[c] # "none"
    BY <2>1 DEF ReadsAhead, Ahead
  <2>3. /\ Head(q) = q[1] /\ Len(Tail(q)) = Len(q) - 1 /\ Len(q) \in Nat /\ Len(q) > 0
    BY <2>1, TailShape
  <2>4. Head(q) # 0 => Head(q) <= read[c]
    <3> SUFFICES ASSUME Head(q) # 0
                 PROVE  Head(q) <= read[c]
      OBVIOUS
    <3>1. CASE reader[c] = "ended"
      <4>1. InOrder(event[c], Queued(q)) /\ event[c] + Len(Queued(q)) <= read[c]
        BY <2>1, <2>2, <3>1 DEF Ahead
      <4> HIDE DEF q
      <4>2. Len(Queued(q)) > 0 /\ Len(Queued(q)) \in Nat
        BY <2>1, QueuedTail
      <4>3. 1 \in 1..Len(Queued(q))
        BY <4>2
      <4>4. Queued(q)[1] = q[1]
        BY <2>1, <4>3, QueuedShape
      <4>5. Queued(q)[1] = event[c] + 1
        BY <4>1, <4>3 DEF InOrder
      <4> QED
        BY <2>1, <2>3, <4>1, <4>2, <4>4, <4>5
    <3>2. CASE reader[c] # "ended"
      <4>1. InOrder(event[c], q) /\ read[c] >= event[c] + Len(q)
        BY <2>1, <2>2, <3>2, <2>3 DEF Ahead
      <4> HIDE DEF q
      <4>2. 1 \in 1..Len(q)
        BY <2>3
      <4>3. q[1] = event[c] + 1
        BY <4>1, <4>2 DEF InOrder
      <4> QED
        BY <2>1, <2>3, <4>1, <4>3
    <3> QED
      BY <3>1, <3>2
  <2>5. Len(q) <= Capacity /\ event[c] <= read[c]
    BY DEF Bounded
  <2>6. event'[c] <= read'[c] /\ Len(msgChan'[c]) <= Capacity
    BY <2>1, <2>3, <2>4, <2>5
  <2> QED
    BY <2>1, <2>6 DEF Bounded
<1>4. ASSUME NEW c \in Conns, ReadMessage(c)
      PROVE  Bounded'
  <2>1. /\ UNCHANGED <<wrote, event, msgChan>>
        /\ event[c] \in Nat /\ read[c] \in Nat /\ wrote[c] \in Nat
        /\ \A d \in Conns \ {c} : read'[d] = read[d]
        /\ read'[c] = read[c] \/ (read[c] < wrote[c] /\ read'[c] = read[c] + 1)
    BY <1>4 DEF ReadMessage, outsideReader, Typed
  <2> QED
    BY <2>1 DEF Bounded
<1>5. ASSUME NEW c \in Conns, SendEvent(c)
      PROVE  Bounded'
  <2>1. Event(c) \in Nat /\ msgChan[c] \in Seq(Nat)
    BY DEF Event, Typed
  <2>2. /\ UNCHANGED <<wrote, event, read>>
        /\ msgChan'[c] = Append(msgChan[c], Event(c)) /\ Len(msgChan[c]) < Capacity
        /\ \A d \in Conns \ {c} : msgChan'[d] = msgChan[d]
    BY <1>5 DEF SendEvent, Room, outsideReader, Typed
  <2>3. Len(msgChan'[c]) = Len(msgChan[c]) + 1 /\ Len(msgChan[c]) \in Nat
    BY <2>1, <2>2, AppendShape
  <2>4. Len(msgChan'[c]) <= Capacity
    BY <2>2, <2>3
  <2> QED
    BY <2>2, <2>4 DEF Bounded
<1>6. CASE UNCHANGED <<wrote, read, event, msgChan>>
  BY <1>6 DEF Bounded
<1> QED
  BY <1>1, <1>2, <1>3, <1>4, <1>5, <1>6
  DEF Next, vars, HandlerStep, ReaderStep, AcceptorStep, CheckStopped, AcceptFails, AcceptSucceeds,
      Refuse, StartHandler, Dial, Leave, RemoveSession, AcceptStream, NoFirstMessage, LockQueue,
      Send, NoResponse, StopServing, WaitForReader, EndHandler, CheckCancelled, DropEvent,
      BeginRetry, EndRetry, CloseSession, StopQueue, StopStep, SessionsClosed, WaitForHandlers,
      outsideClients, outsideAcceptor, outsideHandler, outsideReader, outsideRetry, outsideStop

-----------------------------------------------------------------------------
(* The theorems                                                            *)

ServingInv == Typed /\ NotStarted /\ Bounded /\ ReadsAhead /\ ConnectionsCounted

LEMMA InitInv == Init => ServingInv
<1> SUFFICES ASSUME Init
             PROVE  ServingInv
  OBVIOUS
<1> USE ServingAssumption DEF Init
<1>1. Typed
  BY StopsAtSteps DEF Typed
<1>2. NotStarted
  BY DEF NotStarted
<1>3. Bounded
  BY DEF Bounded
<1>4. ReadsAhead
  BY DEF ReadsAhead, Ahead
<1>5. ConnectionsCounted
  <2>1. {c \in Conns : Serving(c)} = {}
    BY DEF Serving
  <2>2. Cardinality({c \in Conns : Serving(c)}) = 0
    BY <2>1, FS_EmptySet
  <2>3. active = 0 /\ 0 <= MaxConnections
    OBVIOUS
  <2> QED
    BY <2>2, <2>3 DEF ConnectionsCounted
<1> QED
  BY <1>1, <1>2, <1>3, <1>4, <1>5 DEF ServingInv

\* The inductive invariant holds in every reachable state.
THEOREM InvariantHolds == Spec => []ServingInv
<1>1. ServingInv /\ [Next]_vars => ServingInv'
  BY TypeStep, StartedStep, BoundedStep, AheadStep, CountStep DEF ServingInv
<1> QED
  BY InitInv, <1>1, PTL DEF Spec

LEMMA CountInRange == Typed /\ ConnectionsCounted => active \in 0..MaxConnections
<1> SUFFICES ASSUME ConnectionsCounted
             PROVE  active \in 0..MaxConnections
  OBVIOUS
<1>1. IsFiniteSet({c \in Conns : Serving(c)})
  BY ServingAssumption, FS_Subset
<1>2. active \in Nat
  BY <1>1, FS_CardinalityType DEF ConnectionsCounted
<1> QED
  BY <1>2, ServingAssumption DEF ConnectionsCounted

\* The variables of connections, goroutines, mutexes and shutdown keep their types and bounds.
THEOREM TypeCorrect == Spec => []TypeOK
<1>1. ServingInv => TypeOK
  BY CountInRange DEF ServingInv, Typed, Bounded, TypeOK
<1> QED
  BY InvariantHolds, <1>1, PTL

\* The protector's number of connections is the number of handlers that run, at every moment
\* between OnNewConnection and the deferred OnConnectionClosed.
THEOREM ConnectionsAreCounted == Spec => []ConnectionsCounted
<1>1. ServingInv => ConnectionsCounted
  BY DEF ServingInv
<1> QED
  BY InvariantHolds, <1>1, PTL

\* What the handler still has to work on is in order.
LEMMA OrderOfPending == Typed /\ Bounded /\ ReadsAhead => ReadAheadInOrder
<1> SUFFICES ASSUME Typed, Bounded, ReadsAhead,
                    NEW c \in Conns, handler[c] \in {"work", "send", "select"}
             PROVE  /\ Len(Pending(c)) <= Capacity + 1
                    /\ \A i \in DOMAIN Pending(c) : Pending(c)[i] = event[c] + i
                    /\ reader[c] # "ended" => event[c] + Len(Pending(c)) = read[c]
  BY DEF ReadAheadInOrder
<1> USE ServingAssumption
<1> DEFINE q == msgChan[c]
           e == event[c]
<1>1. q \in Seq(Nat) /\ e \in Nat /\ read[c] \in Nat /\ Len(q) \in Nat /\ Len(q) <= Capacity
  BY DEF Typed, Bounded
<1>2. Queued(q) \in Seq(Nat) /\ Len(Queued(q)) <= Len(q) /\ Len(Queued(q)) \in Nat
  BY <1>1, QueuedShape
<1>3. Ahead(c) /\ reader[c] \in {"none", "top", "read", "message", "error", "ended"}
  BY DEF ReadsAhead, Typed
<1>4. InOrder(e, Queued(q))
      /\ (reader[c] # "ended" =>
            e + Len(Queued(q)) + (IF reader[c] = "message" THEN 1 ELSE 0) = read[c])
  <2>1. CASE reader[c] = "ended"
    BY <1>3, <2>1 DEF Ahead
  <2>2. CASE reader[c] # "ended"
    <3>1. InOrder(e, q) /\ e + Len(q) + (IF reader[c] = "message" THEN 1 ELSE 0) = read[c]
      BY <1>1, <1>3, <2>2 DEF Ahead
    <3> HIDE DEF q, e
    <3>2. Queued(q) = q
      BY <1>1, <3>1, WholeIsQueued
    <3> QED
      BY <2>2, <3>1, <3>2
  <2> QED
    BY <2>1, <2>2
<1>5. CASE reader[c] = "message"
  <2>1. Pending(c) = Append(Queued(q), read[c])
    BY <1>1, <1>2, <1>5 DEF Pending
  <2> HIDE DEF q, e
  <2>2. /\ Len(Pending(c)) = Len(Queued(q)) + 1 /\ Pending(c) \in Seq(Nat)
        /\ Pending(c)[Len(Queued(q)) + 1] = read[c]
        /\ \A i \in 1..Len(Queued(q)) : Pending(c)[i] = Queued(q)[i]
    BY <1>1, <1>2, <2>1, AppendShape
  <2>3. InOrder(e, Pending(c))
    BY <1>1, <1>2, <1>4, <1>5, <2>2, OrderGrows
  <2>4. DOMAIN Pending(c) = 1..Len(Pending(c))
    BY <2>2
  <2> QED
    BY <1>1, <1>2, <1>4, <1>5, <2>2, <2>3, <2>4 DEF InOrder, e
<1>6. CASE reader[c] # "message"
  <2>1. Pending(c) = Queued(q)
    BY <1>2, <1>6 DEF Pending
  <2>2. DOMAIN Pending(c) = 1..Len(Pending(c))
    BY <1>2, <2>1
  <2> HIDE DEF q, e
  <2> QED
    BY <1>1, <1>2, <1>4, <1>6, <2>1, <2>2 DEF InOrder, e
<1> QED
  BY <1>5, <1>6

\* While a connection is served, the messages between its reader and its handler are the ones
\* after the handler's, in order and without a gap, and bounded by the channel.
THEOREM ReadAheadKeepsOrder == Spec => []ReadAheadInOrder
<1>1. ServingInv => ReadAheadInOrder
  BY OrderOfPending DEF ServingInv
<1> QED
  BY InvariantHolds, <1>1, PTL
-----------------------------------------------------------------------------
====
