-------------------------- MODULE ConnectionServing --------------------------
(***************************************************************************)
(* The connections of a gateway from the listener to its shutdown          *)
(* (internal/gateway/server_connection.go, server.go, the connection part  *)
(* of overload_protector.go, and the mutexes of session.go and             *)
(* ordered_queue.go).                                                      *)
(*                                                                         *)
(* An acceptor admits connections up to a maximum and starts a handler for *)
(* each.  The handler reads the first message itself and makes a session   *)
(* of it; then a reader reads ahead of it, through a bounded channel.      *)
(* Writing a response takes the queueMux of the session and, inside, its   *)
(* closeMux; so does the queue's goroutine that retransmits.  Stop of the  *)
(* server closes the sessions, which takes the two in the other order, and *)
(* waits for the acceptor and all handlers.                                *)
(***************************************************************************)
EXTENDS Naturals, Sequences, FiniteSets

CONSTANTS
  Conns,
  MaxConnections,
  Capacity,        \* of msgChan
  MaxMessages      \* bound: messages each client writes

ASSUME ServingAssumption ==
  /\ IsFiniteSet(Conns) /\ {"top", "accept", "ended"} \cap Conns = {}
  /\ MaxConnections \in Nat \ {0} /\ Capacity \in Nat \ {0}
  /\ MaxMessages \in [Conns -> Nat]

VARIABLES
  link,      \* per connection; "closed" by either side
  wrote,     \* messages the client wrote
  acceptor,  \* acceptConnections: where it is, or the connection it accepted
  active,    \* currentConnections of the overload protector
  \* per connection: its goroutines
  handler,   \* handleConnection
  event,     \* the message the handler works on
  reader,    \* the goroutine of handleSubsequentMessages
  read,      \* messages read from the stream
  msgChan,   \* numbers of messages; 0 is the event that carries an error
  \* per connection: its session
  indexed,   \* the session manager knows it
  closed,
  queueMux, closeMux,   \* holders
  retry,     \* cleanupLoop of its queue
  stop       \* how far the shutdown is

readerVars == <<reader, read, msgChan>>
sessionVars == <<indexed, closed, queueMux, closeMux, retry>>
connVars == <<link, wrote>>
vars == <<connVars, acceptor, active, handler, event, readerVars, sessionVars, stop>>

StopSteps == <<"running", "cancelled", "flagged", "signalled", "listenerClosed", "sessionsClosed",
               "returned">>
Reached(step) ==
  \E i, j \in DOMAIN StopSteps : StopSteps[i] = step /\ StopSteps[j] = stop /\ i <= j

\* main cancels the context before it calls Stop.
CtxDone == Reached("cancelled")
IsRunning == ~Reached("flagged")
StopChClosed == Reached("signalled")

Init ==
  /\ link = [c \in Conns |-> "none"] /\ wrote = [c \in Conns |-> 0]
  /\ acceptor = "top" /\ active = 0
  /\ handler = [c \in Conns |-> "none"] /\ event = [c \in Conns |-> 0]
  /\ reader = [c \in Conns |-> "none"] /\ read = [c \in Conns |-> 0]
  /\ msgChan = [c \in Conns |-> <<>>]
  /\ indexed = [c \in Conns |-> FALSE] /\ closed = [c \in Conns |-> FALSE]
  /\ queueMux = [c \in Conns |-> "free"] /\ closeMux = [c \in Conns |-> "free"]
  /\ retry = [c \in Conns |-> "none"]
  /\ stop = "running"

-----------------------------------------------------------------------------
(* Clients                                                                 *)

outsideClients == <<acceptor, active, handler, event, readerVars, sessionVars, stop>>

\* The handshake, which the listener does by itself.
Dial(c) ==
  /\ link[c] = "none" /\ ~Reached("listenerClosed")
  /\ link' = [link EXCEPT ![c] = "queued"]
  /\ UNCHANGED <<wrote, outsideClients>>

Write(c) ==
  /\ link[c] \in {"queued", "up"} /\ wrote[c] < MaxMessages[c]
  /\ wrote' = [wrote EXCEPT ![c] = @ + 1]
  /\ UNCHANGED <<link, outsideClients>>

\* The client closes the connection, or it is idle for too long.
Leave(c) ==
  /\ link[c] = "up"
  /\ link' = [link EXCEPT ![c] = "closed"]
  /\ UNCHANGED <<wrote, outsideClients>>

-----------------------------------------------------------------------------
(* acceptConnections                                                       *)

outsideAcceptor == <<wrote, event, readerVars, sessionVars, stop>>

CheckStopped ==
  /\ acceptor = "top"
  /\ acceptor' = IF CtxDone \/ StopChClosed THEN "ended" ELSE "accept"
  /\ UNCHANGED <<link, active, handler, outsideAcceptor>>

\* Accept fails when the context is cancelled or the listener closed.
AcceptFails ==
  /\ acceptor = "accept" /\ CtxDone
  /\ acceptor' = IF IsRunning THEN "top" ELSE "ended"
  /\ UNCHANGED <<link, active, handler, outsideAcceptor>>

AcceptSucceeds(c) ==
  /\ acceptor = "accept" /\ link[c] = "queued"
  /\ acceptor' = c
  /\ link' = [link EXCEPT ![c] = "up"]
  /\ UNCHANGED <<active, handler, outsideAcceptor>>

AllowNewConnection == active < MaxConnections

Refuse(c) ==
  /\ acceptor = c /\ ~AllowNewConnection
  /\ acceptor' = "top"
  /\ link' = [link EXCEPT ![c] = "closed"]
  /\ UNCHANGED <<active, handler, outsideAcceptor>>

StartHandler(c) ==
  /\ acceptor = c /\ AllowNewConnection
  /\ acceptor' = "top"
  /\ active' = active + 1
  /\ handler' = [handler EXCEPT ![c] = "stream"]
  /\ UNCHANGED <<link, outsideAcceptor>>

-----------------------------------------------------------------------------
(* handleConnection                                                        *)

outsideHandler == <<wrote, acceptor, stop>>

Goto(c, where) == handler' = [handler EXCEPT ![c] = where]

\* AcceptStream: the client's first write opens the stream.
AcceptStream(c) ==
  /\ handler[c] = "stream"
  /\ \/ wrote[c] > 0 /\ Goto(c, "first")
     \/ (link[c] = "closed" \/ CtxDone) /\ Goto(c, "defer")
  /\ UNCHANGED <<link, active, event, readerVars, sessionVars, outsideHandler>>

\* handleFirstMessage: a session is made of the message, which nothing interrupts but the
\* connection's end; or it does not decode.
FirstMessage(c) ==
  /\ handler[c] = "first" /\ wrote[c] > 0
  /\ Goto(c, "work")
  /\ read' = [read EXCEPT ![c] = 1] /\ event' = [event EXCEPT ![c] = 1]
  /\ indexed' = [indexed EXCEPT ![c] = TRUE]
  /\ retry' = [retry EXCEPT ![c] = "idle"]
  /\ UNCHANGED <<link, active, reader, msgChan, closed, queueMux, closeMux, outsideHandler>>

NoFirstMessage(c) ==
  /\ handler[c] = "first"
  /\ wrote[c] > 0 \/ link[c] = "closed"
  /\ Goto(c, "defer")
  /\ UNCHANGED <<link, active, event, readerVars, sessionVars, outsideHandler>>

\* handleMessageEvent ends: after the first message the reader starts.
Worked(c) ==
  /\ Goto(c, "select")
  /\ reader' = IF reader[c] = "none" THEN [reader EXCEPT ![c] = "top"] ELSE reader

\* A request: its response is enqueued under queueMux and the send callback asks IsClosed.
LockQueue(c) ==
  /\ handler[c] = "work" /\ queueMux[c] = "free"
  /\ queueMux' = [queueMux EXCEPT ![c] = "handler"]
  /\ Goto(c, "send")
  /\ UNCHANGED <<link, active, event, readerVars, indexed, closed, closeMux, retry,
                 outsideHandler>>

Send(c) ==
  /\ handler[c] = "send" /\ closeMux[c] = "free"
  /\ queueMux' = [queueMux EXCEPT ![c] = "free"]
  /\ Worked(c)
  /\ UNCHANGED <<link, active, event, read, msgChan, indexed, closed, closeMux, retry,
                 outsideHandler>>

\* A message that is not answered: a wrong number, an ACK, or one that does not decode.
NoResponse(c) ==
  /\ handler[c] = "work"
  /\ Worked(c)
  /\ UNCHANGED <<link, active, event, read, msgChan, sessionVars, outsideHandler>>

\* STOP, a take-over by another connection, or expiry: SetClosed before Close, which then
\* does nothing.
RemoveSession(c) ==
  /\ indexed[c] /\ closeMux[c] = "free"
  /\ indexed' = [indexed EXCEPT ![c] = FALSE]
  /\ closed' = [closed EXCEPT ![c] = TRUE]
  /\ UNCHANGED <<link, active, handler, event, readerVars, queueMux, closeMux, retry,
                 outsideHandler>>

\* handleSubsequentMessages: any of the channels that is ready.
TakeEvent(c) ==
  /\ handler[c] = "select" /\ msgChan[c] # <<>>
  /\ msgChan' = [msgChan EXCEPT ![c] = Tail(@)]
  /\ IF Head(msgChan[c]) = 0
       THEN Goto(c, "wait") /\ UNCHANGED event
       ELSE Goto(c, "work") /\ event' = [event EXCEPT ![c] = Head(msgChan[c])]
  /\ UNCHANGED <<link, active, reader, read, sessionVars, outsideHandler>>

StopServing(c) ==
  /\ handler[c] = "select"
  /\ CtxDone \/ StopChClosed \/ (msgChan[c] = <<>> /\ reader[c] = "ended")
  /\ Goto(c, "wait")
  /\ UNCHANGED <<link, active, event, readerVars, sessionVars, outsideHandler>>

WaitForReader(c) ==
  /\ handler[c] = "wait" /\ reader[c] = "ended"
  /\ Goto(c, "defer")
  /\ UNCHANGED <<link, active, event, readerVars, sessionVars, outsideHandler>>

AfterEnd_Kept == active
AfterEnd == active - 1

\* The deferred calls, and wg.Done.
EndHandler(c) ==
  /\ handler[c] = "defer"
  /\ link' = [link EXCEPT ![c] = "closed"]
  /\ active' = AfterEnd
  /\ Goto(c, "ended")
  /\ UNCHANGED <<event, readerVars, sessionVars, outsideHandler>>

-----------------------------------------------------------------------------
(* The reader                                                              *)

outsideReader == <<connVars, acceptor, active, handler, event, sessionVars, stop>>

ReadCtxDone_Ignored(c) == FALSE
ReadCtxDone(c) == CtxDone \/ handler[c] \in {"wait", "defer", "ended"}

CheckCancelled(c) ==
  /\ reader[c] = "top"
  /\ reader' = [reader EXCEPT ![c] = IF ReadCtxDone(c) THEN "ended" ELSE "read"]
  /\ UNCHANGED <<read, msgChan, outsideReader>>

\* ReadMessage waits for a message, one that is too long, or the end of the connection.
ReadMessage(c) ==
  /\ reader[c] = "read"
  /\ \/ /\ read[c] < wrote[c]
        /\ read' = [read EXCEPT ![c] = @ + 1]
        /\ reader' = [reader EXCEPT ![c] = "message"]
     \/ /\ read[c] < wrote[c] \/ link[c] = "closed"
        /\ reader' = [reader EXCEPT ![c] = "error"]
        /\ UNCHANGED read
  /\ UNCHANGED <<msgChan, outsideReader>>

Room(c) == Len(msgChan[c]) < Capacity
Event(c) == IF reader[c] = "error" THEN 0 ELSE read[c]

SendEvent_IfRoom(c) ==
  /\ reader[c] \in {"message", "error"}
  /\ msgChan' = [msgChan EXCEPT ![c] = IF Room(c) THEN Append(@, Event(c)) ELSE @]
  /\ reader' = [reader EXCEPT ![c] = IF @ = "error" THEN "ended" ELSE "top"]
  /\ UNCHANGED <<read, outsideReader>>
SendEvent(c) ==
  /\ reader[c] \in {"message", "error"} /\ Room(c)
  /\ msgChan' = [msgChan EXCEPT ![c] = Append(@, Event(c))]
  /\ reader' = [reader EXCEPT ![c] = IF @ = "error" THEN "ended" ELSE "top"]
  /\ UNCHANGED <<read, outsideReader>>

DropEvent(c) ==
  /\ reader[c] \in {"message", "error"} /\ ReadCtxDone(c)
  /\ reader' = [reader EXCEPT ![c] = "ended"]
  /\ UNCHANGED <<read, msgChan, outsideReader>>

-----------------------------------------------------------------------------
(* cleanupLoop of the session's queue: retryTimedOutMessages               *)

outsideRetry == <<connVars, acceptor, active, handler, event, readerVars, indexed, closed,
                  closeMux, stop>>

BeginRetry(c) ==
  /\ retry[c] = "idle" /\ queueMux[c] = "free"
  /\ retry' = [retry EXCEPT ![c] = "send"]
  /\ queueMux' = [queueMux EXCEPT ![c] = "retry"]
  /\ UNCHANGED outsideRetry

EndRetry(c) ==
  /\ retry[c] = "send" /\ closeMux[c] = "free"
  /\ retry' = [retry EXCEPT ![c] = "idle"]
  /\ queueMux' = [queueMux EXCEPT ![c] = "free"]
  /\ UNCHANGED outsideRetry

-----------------------------------------------------------------------------
(* The shutdown: waitForShutdown and Server.Stop                           *)

outsideStop == <<wrote, acceptor, active, handler, event, readerVars>>

\* cancel; running; stopCh; the listener, HTTP and gRPC servers, processor, backup manager.
StopStep ==
  /\ \E i \in 1..4 : StopSteps[i] = stop /\ stop' = StopSteps[i + 1]
  /\ UNCHANGED <<link, sessionVars, outsideStop>>

\* Manager.Stop closes the sessions it knows: Session.Close takes closeMux, ...
CloseSession(c) ==
  /\ stop = "listenerClosed" /\ indexed[c]
  /\ \A d \in Conns : closeMux[d] = "free"
  /\ closed' = [closed EXCEPT ![c] = TRUE]
  /\ closeMux' = [closeMux EXCEPT ![c] = "stop"]
  /\ UNCHANGED <<link, indexed, queueMux, retry, stop, outsideStop>>

\* ... and then queueMux, to stop the queue; the stream and the connection are closed.
StopQueue(c) ==
  /\ closeMux[c] = "stop" /\ queueMux[c] = "free"
  /\ closeMux' = [closeMux EXCEPT ![c] = "free"]
  /\ indexed' = [indexed EXCEPT ![c] = FALSE]
  /\ retry' = [retry EXCEPT ![c] = "ended"]
  /\ link' = [link EXCEPT ![c] = "closed"]
  /\ UNCHANGED <<closed, queueMux, stop, outsideStop>>

SessionsClosed ==
  /\ stop = "listenerClosed" /\ \A c \in Conns : ~indexed[c]
  /\ stop' = "sessionsClosed"
  /\ UNCHANGED <<link, sessionVars, outsideStop>>

\* wg.Wait
WaitForHandlers ==
  /\ stop = "sessionsClosed"
  /\ acceptor = "ended" /\ \A c \in Conns : handler[c] \in {"none", "ended"}
  /\ stop' = "returned"
  /\ UNCHANGED <<link, sessionVars, outsideStop>>

-----------------------------------------------------------------------------
AcceptorStep == CheckStopped \/ AcceptFails
                  \/ \E c \in Conns : AcceptSucceeds(c) \/ Refuse(c) \/ StartHandler(c)
HandlerStep(c) ==
  \/ AcceptStream(c) \/ FirstMessage(c) \/ NoFirstMessage(c)
  \/ LockQueue(c) \/ Send(c) \/ NoResponse(c)
  \/ TakeEvent(c) \/ StopServing(c) \/ WaitForReader(c) \/ EndHandler(c)
ReaderStep(c) == CheckCancelled(c) \/ ReadMessage(c) \/ SendEvent(c) \/ DropEvent(c)
ShutdownStep == (stop # "running" /\ StopStep) \/ SessionsClosed \/ WaitForHandlers
                  \/ \E c \in Conns : CloseSession(c) \/ StopQueue(c)

Next ==
  \/ AcceptorStep \/ StopStep \/ SessionsClosed \/ WaitForHandlers
  \/ \E c \in Conns :
       \/ Dial(c) \/ Write(c) \/ Leave(c)
       \/ HandlerStep(c) \/ RemoveSession(c) \/ ReaderStep(c)
       \/ BeginRetry(c) \/ EndRetry(c)
       \/ CloseSession(c) \/ StopQueue(c)

Spec == Init /\ [][Next]_vars

\* A client that has no open session is gone when it was idle for long enough; one that has a
\* session may stay as long as it likes.
FairSpec ==
  /\ Spec
  /\ WF_vars(AcceptorStep) /\ WF_vars(ShutdownStep)
  /\ \A c \in Conns :
       /\ WF_vars(HandlerStep(c)) /\ WF_vars(ReaderStep(c)) /\ WF_vars(EndRetry(c))
       /\ SF_vars(LockQueue(c))
       /\ WF_vars(~indexed[c] /\ Leave(c))

-----------------------------------------------------------------------------
(* Properties                                                              *)

\* The types of the variables.
TypeOK ==
  /\ link \in [Conns -> {"none", "queued", "up", "closed"}]
  /\ {wrote, read, event} \subseteq [Conns -> Nat] /\ msgChan \in [Conns -> Seq(Nat)]
  /\ \A c \in Conns :
       /\ event[c] <= read[c] /\ read[c] <= wrote[c] /\ wrote[c] <= MaxMessages[c]
       /\ Len(msgChan[c]) <= Capacity
  /\ acceptor \in {"top", "accept", "ended"} \cup Conns
  /\ active \in 0..MaxConnections
  /\ handler \in [Conns -> {"none", "stream", "first", "work", "send", "select", "wait", "defer",
                            "ended"}]
  /\ reader \in [Conns -> {"none", "top", "read", "message", "error", "ended"}]
  /\ indexed \in [Conns -> BOOLEAN] /\ closed \in [Conns -> BOOLEAN]
  /\ queueMux \in [Conns -> {"free", "handler", "retry"}]
  /\ closeMux \in [Conns -> {"free", "stop"}]
  /\ retry \in [Conns -> {"none", "idle", "send", "ended"}]
  /\ stop \in {StopSteps[i] : i \in DOMAIN StopSteps}

Serving(c) == handler[c] \notin {"none", "ended"}

\* On every way a connection ends its count is given back, once: the protector's number is the
\* number of connections being served, which never exceeds the maximum.
ConnectionsCounted ==
  active = Cardinality({c \in Conns : Serving(c)}) /\ active <= MaxConnections

\* The messages read and not handled yet; an error is the last event of all.
Queued(q) == IF q # <<>> /\ q[Len(q)] = 0 THEN SubSeq(q, 1, Len(q) - 1) ELSE q
Pending(c) ==
  Queued(msgChan[c]) \o (IF reader[c] = "message" THEN <<read[c]>> ELSE <<>>)

\* The reader runs at most the channel and one message ahead, and what it read reaches the
\* handler in order, without a gap and before the error that ended the reading, as long as
\* both run.
ReadAheadInOrder ==
  \A c \in Conns : handler[c] \in {"work", "send", "select"} =>
    /\ Len(Pending(c)) <= Capacity + 1
    /\ \A i \in DOMAIN Pending(c) : Pending(c)[i] = event[c] + i
    /\ reader[c] # "ended" => event[c] + Len(Pending(c)) = read[c]

\* Session.Close holds closeMux and waits for queueMux, a sender the other way round.
Deadlocked(c) ==
  closeMux[c] = "stop" /\ (handler[c] = "send" \/ retry[c] = "send")

\* Server.Stop returns, whatever clients with a session do, unless it closes a session while a
\* response or a retransmission of that session is being sent.
StopReturns == CtxDone ~> stop = "returned" \/ \E c \in Conns : Deadlocked(c)

\* What a client has written is handled in the end, unless the connection ends or the server
\* stops.
EveryMessageHandled ==
  \A c \in Conns : event[c] < wrote[c] ~> event[c] = wrote[c] \/ link[c] = "closed" \/ CtxDone
=============================================================================
