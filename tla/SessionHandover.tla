--------------------------- MODULE SessionHandover ---------------------------
(***************************************************************************)
(* A client reconnects within the reconnect window: the hand-over of one   *)
(* session to its successor (CreateOrReconnectSession and                  *)
(* handleOldSessionOnReconnectAtomic in internal/session/manager.go,       *)
(* InheritFrom in session.go, handleStartSync in gateway/handlers.go).     *)
(*                                                                         *)
(* Two ordered queues are composed: Old is the queue of the session being  *)
(* replaced, the variables of the extended OrderedQueue are those of its   *)
(* successor.  The goroutine of the new connection reads the old session,  *)
(* closes it and copies its unacknowledged messages in separate steps,     *)
(* none of which holds the old queue's mutex, while the senders, the       *)
(* cleanup goroutine and the connection of the old session go on.          *)
(* Nothing of the old session matters to anyone once it has been copied,   *)
(* but for a write that had passed IsClosed before SetClosed.              *)
(***************************************************************************)
EXTENDS OrderedQueue

CONSTANT Conn    \* the sender that is the goroutine of the new connection

ASSUME ConnAssumption == Conn \in Senders

VARIABLES
  oldSeq, oldHeld, oldNext, oldLastSent, oldLastAcked, oldWaiting, oldSent,
  oldRetries, oldStopped, oldLink, oldAcking, oldStart, oldWire, oldRefused,
  oldDropped,
  clientAck,   \* clientAckServerSeq of the old session
  phase,       \* how far the goroutine of the new connection is
  inherited,   \* the serverSeq the successor inherited
  inFlight,    \* history: the message past IsClosed at SetClosed, or None
  landed,      \* that message has been written
  startSeq     \* number of the START response, None before it is drawn

Old == INSTANCE OrderedQueue WITH
  serverSeq <- oldSeq, held <- oldHeld, next <- oldNext,
  lastSent <- oldLastSent, lastAcked <- oldLastAcked, waiting <- oldWaiting,
  sent <- oldSent, retries <- oldRetries, stopped <- oldStopped,
  linkUp <- oldLink, acking <- oldAcking, startAck <- oldStart,
  wire <- oldWire, refused <- oldRefused, dropped <- oldDropped

oldQueue == <<oldNext, oldLastSent, oldLastAcked, oldWaiting, oldSent, oldRetries,
              oldStopped>>
oldVars  == <<oldSeq, oldHeld, oldQueue, oldLink, oldAcking, oldStart, oldWire,
              oldRefused, oldDropped>>
ctlVars  == <<clientAck, phase, inherited, inFlight, landed, startSeq>>
handVars == <<vars, oldVars, ctlVars>>

Phases == <<"serving", "seq", "resynced", "closed", "copied", "started">>
Before(p) == \E i, j \in DOMAIN Phases : Phases[i] = phase /\ Phases[j] = p /\ i < j
Reached(p) == ~Before(p)

HandoverInit ==
  /\ Init /\ Old!Init
  /\ clientAck = 0 /\ phase = "serving" /\ inherited = 0
  /\ inFlight = None /\ landed = FALSE /\ startSeq = None

-----------------------------------------------------------------------------
(* The old session, until it has been copied                               *)

\* handleAck on the old connection: the manager finds the session by its id and
\* records the acknowledgement in the session before the queue.
OldAck ==
  /\ Before("closed")
  /\ \E a \in Old!OnWire : Old!AckMessagesUpTo(a) /\ clientAck' = a
  /\ UNCHANGED oldStart

\* Once the session left the index only ResyncSequence is applied.
OldAckUnknown ==
  /\ phase = "closed" /\ oldAcking = None
  /\ oldAcking' \in Old!OnWire
  /\ UNCHANGED <<oldSeq, oldHeld, oldQueue, oldLink, oldStart, oldWire, oldRefused,
                 oldDropped, clientAck>>

\* queueMux is with the message in flight until that has landed.
MutexFree == inFlight # None => landed

OldStep ==
  /\ Before("copied")
  /\ \/ (\E p \in Senders : Old!NewServerSeq(p)) /\ UNCHANGED clientAck
     \/ /\ MutexFree
        /\ \/ \E p \in Senders : Old!EnqueueMessage(p)
           \/ Old!ResyncSequence
           \/ Old!CleanupExpiredMessages \/ Old!RetryTimedOutMessages
        /\ UNCHANGED clientAck
     \/ MutexFree /\ OldAck
     \/ OldAckUnknown
  /\ UNCHANGED <<vars, phase, inherited, inFlight, landed, startSeq>>

\* The message that was past IsClosed is written and recorded: the due one of a
\* sender, or one the cleanup goroutine repeats.
Land ==
  /\ inFlight # None /\ ~landed
  /\ landed' = TRUE
  /\ oldWire' = Append(oldWire, inFlight)
  /\ oldSent' = oldSent \cup {inFlight}
  /\ oldRetries' = [oldRetries EXCEPT ![inFlight] =
                      IF inFlight \in oldSent THEN @ + 1 ELSE 0]
  /\ oldHeld' = [p \in Senders |-> IF oldHeld[p] = inFlight THEN None ELSE oldHeld[p]]
  /\ oldNext' = IF inFlight = oldNext THEN oldNext + 1 ELSE oldNext
  /\ oldLastSent' = IF inFlight = oldNext THEN inFlight ELSE oldLastSent
  /\ UNCHANGED <<vars, oldSeq, oldLastAcked, oldWaiting, oldStopped, oldLink,
                 oldAcking, oldStart, oldRefused, oldDropped, clientAck, phase,
                 inherited, inFlight, startSeq>>

-----------------------------------------------------------------------------
(* The goroutine of the new connection: CreateOrReconnectSession           *)

\* InheritFrom, first half: the counter of the old session, while its senders
\* may still draw from it.
InheritSeq ==
  /\ phase = "serving"
  /\ phase' = "seq"
  /\ serverSeq' = oldSeq
  /\ inherited' = oldSeq
  /\ UNCHANGED <<held, queueVars, ackVars, linkUp, wire, refused, dropped, oldVars,
                 clientAck, inFlight, landed, startSeq>>

\* InheritFrom, second half: ResyncSequence of the empty queue to what the client
\* has acknowledged by now.
ResumeAt_ServerSeq == ResyncNext(inherited)
ResumeAt == ResyncNext(clientAck)

InheritAck ==
  /\ phase = "seq"
  /\ phase' = "resynced"
  /\ next' = ResumeAt
  /\ lastSent' = ResumeAt - 1
  /\ lastAcked' = clientAck
  /\ UNCHANGED <<serverSeq, held, waiting, sent, retries, stopped, ackVars, linkUp,
                 wire, refused, dropped, oldVars, clientAck, inherited, inFlight,
                 landed, startSeq>>

\* SetClosed: from now on the callback of the old queue refuses to write.  One
\* message may be past that test: queueMux admits one writer.
SetClosed ==
  /\ phase = "resynced"
  /\ phase' = "closed"
  /\ oldLink' = FALSE
  /\ inFlight' \in {None} \cup {s \in Old!Held : s = oldNext}
                          \cup {s \in Seqs : Old!Retriable(s)}
  /\ UNCHANGED <<vars, oldSeq, oldHeld, oldQueue, oldAcking, oldStart, oldWire,
                 oldRefused, oldDropped, clientAck, inherited, landed, startSeq>>

\* copier.Copy of sentMessages, then the new session enters the two indexes and
\* pushes find it.  What is parked in the old queue is not copied.
CopiedMessages_Unsent == oldSent \cap oldNext..MaxSeq
CopiedMessages == oldSent

CopiedRetries_Reset == [s \in Seqs |-> 0]
CopiedRetries == oldRetries

CopySent ==
  /\ phase = "closed"
  /\ phase' = "copied"
  /\ sent' = CopiedMessages
  /\ retries' = CopiedRetries
  /\ UNCHANGED <<serverSeq, held, next, lastSent, lastAcked, waiting, stopped,
                 ackVars, linkUp, wire, refused, dropped, oldVars, clientAck,
                 inherited, inFlight, landed, startSeq>>

\* handleStartSync: the client, which received some prefix of the old stream,
\* names the last number it has acknowledged, 0 if none.
HandleReconnectStart ==
  /\ phase = "copied"
  /\ phase' = "started"
  /\ \E k \in 0..Len(oldWire) :
       LET got == ToSet(SubSeq(oldWire, 1, k))
       IN /\ clientAck \in got \cup {0}
          /\ \/ UNCHANGED vars
             \/ \E a \in got : AckMessagesUpTo(a) /\ startAck' = a
  /\ UNCHANGED <<oldVars, clientAck, inherited, inFlight, landed, startSeq>>

\* It then draws the number of the START response.
DrawStartResponse ==
  /\ phase = "started" /\ acking = None /\ startSeq = None
  /\ NewServerSeq(Conn)
  /\ startSeq' = serverSeq + 1
  /\ UNCHANGED <<oldVars, clientAck, phase, inherited, inFlight, landed>>

-----------------------------------------------------------------------------
(* The new session, once it is in the indexes                              *)

\* The connection goroutine handles an ACK only between two other handlers.
ConnIdle == startSeq # None /\ held[Conn] = None

\* The client acknowledges what it received on the new connection.
AckOf(a) == AckMessagesUpTo(a) /\ UNCHANGED startAck

\* The queue has no send callback before the first SendOrderedMessage.
CallbackSet == serverSeq > inherited

NewSessionStep ==
  /\ Reached("copied")
  /\ \/ \E p \in Senders \ {Conn} : NewServerSeq(p)
     \/ \E p \in Senders : EnqueueMessage(p)
     \/ ConnIdle /\ \E a \in OnWire : AckOf(a)
     \/ ResyncSequence
     \/ CleanupExpiredMessages
     \/ CallbackSet /\ RetryTimedOutMessages
  /\ UNCHANGED <<oldVars, ctlVars>>

Handover ==
  InheritSeq \/ InheritAck \/ SetClosed \/ CopySent \/ HandleReconnectStart
  \/ DrawStartResponse

HandoverNext == OldStep \/ Land \/ Handover \/ NewSessionStep

HandoverSpec == HandoverInit /\ [][HandoverNext]_handVars

-----------------------------------------------------------------------------
(* The goroutines run and the client acknowledges the last number it has.  *)
AckLast == ConnIdle /\ OnWire # {} /\ AckOf(Max(OnWire)) /\ UNCHANGED <<oldVars, ctlVars>>

HandoverFairness ==
  /\ WF_handVars(Handover) /\ WF_handVars(Land)
  /\ \A p \in Senders :
       WF_handVars(Reached("copied") /\ EnqueueMessage(p) /\ UNCHANGED <<oldVars, ctlVars>>)
  /\ WF_handVars(ResyncSequence /\ UNCHANGED <<oldVars, ctlVars>>)
  /\ WF_handVars(Reached("copied") /\ CallbackSet /\ RetryTimedOutMessages
                 /\ UNCHANGED <<oldVars, ctlVars>>)
  /\ SF_handVars(AckLast)

FairHandoverSpec == HandoverSpec /\ HandoverFairness

-----------------------------------------------------------------------------
(* Properties                                                              *)

OldWrites(s) == Cardinality({i \in DOMAIN oldWire : oldWire[i] = s})

\* Whatever the old session did while it was taken over, every message it wrote is
\* kept by its successor, acknowledged, or was written MaxRetries + 1 times; the
\* one message past IsClosed when SetClosed ran excepted.
UnackedSurvive ==
  Reached("copied") =>
    \A s \in (Old!OnWire \cap 1..inherited) \ {inFlight} :
      \/ s \in sent
      \/ s <= oldLastAcked \/ s <= lastAcked
      \/ OldWrites(s) + Writes(s) = MaxRetries + 1

\* The bound on rewrites spans both sessions: the successor goes on counting where
\* the old queue stopped.  The message in flight at SetClosed, and a number both
\* sessions drew, excepted.
BoundedAcross ==
  \A s \in 1..inherited \ {inFlight} : OldWrites(s) + Writes(s) <= MaxRetries + 1

\* The client gets nothing new before it acknowledged everything the successor
\* inherited.
FreshAfterAcked ==
  (\E s \in OnWire \ Old!OnWire : s > inherited) => lastAcked >= inherited

\* The inductive invariant behind the three: the types of the hand-over,
HandoverTypeOK ==
  /\ Old!IInv /\ TypeOK
  /\ clientAck \in 0..MaxSeq /\ inherited \in 0..MaxSeq /\ inFlight \in 0..MaxSeq
  /\ phase \in {Phases[i] : i \in DOMAIN Phases} /\ landed \in BOOLEAN

\* a successor that does nothing before it is in the indexes,
Untouched ==
  /\ Before("copied") =>
       /\ wire = <<>> /\ sent = {} /\ acking = None
       /\ \A p \in Senders : held[p] = None
  /\ Before("resynced") => next = 1

\* a write in flight that the old queue would still make,
FlightIsDue ==
  /\ Before("closed") => inFlight = None /\ ~landed
  /\ inFlight # None /\ ~landed =>
       \/ inFlight \in oldSent /\ oldRetries[inFlight] < MaxRetries
       \/ inFlight = oldNext

\* new numbers above the inherited ones, out of reach until those are acknowledged,
NewAboveInherited ==
  /\ phase # "serving" =>
       /\ inherited <= serverSeq
       /\ \A p \in Senders : held[p] # None => inherited < held[p]
  /\ Reached("resynced") /\ inherited < next => inherited <= lastAcked
  /\ sent \subseteq Old!OnWire \cup OnWire
  /\ OnWire \subseteq Old!OnWire \/ inherited <= lastAcked

\* and the books of the old session, which its successor goes on with.
BooksKept ==
  /\ \A s \in Seqs \ {inFlight} :
       Old!CountedFrom(s, 0) /\ (s \in Old!OnWire => Old!SettledFrom(s, 0))
  /\ Reached("copied") =>
       \A s \in 1..inherited \ {inFlight} :
         /\ CountedFrom(s, OldWrites(s))
         /\ s \in Old!OnWire => s <= oldLastAcked \/ SettledFrom(s, OldWrites(s))

HandoverInv ==
  HandoverTypeOK /\ Untouched /\ FlightIsDue /\ NewAboveInherited /\ BooksKept

\* The START of a reconnecting client is answered on the new connection.
StartAnswered == startSeq # None ~> startSeq \in OnWire

=============================================================================
