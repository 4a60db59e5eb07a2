----------------------------- MODULE RequestFlow -----------------------------
(***************************************************************************)
(* Business requests from the connection to the answer                     *)
(* (internal/gateway/handlers.go, async_processor.go, unicast_service.go,  *)
(* overload_protector.go, internal/session/notify_ordering.go).            *)
(*                                                                         *)
(* The goroutine of a connection checks a request, is admitted by the      *)
(* overload protector, and either calls upstream itself (the login action  *)
(* "hello") or submits a task that any worker of the pool carries out.     *)
(* While upstream works on a request it may bind notifies to it, to be     *)
(* sent before or after the response.                                      *)
(*                                                                         *)
(* The goroutine of a session's connection has the session's name.  One    *)
(* action is one atomic load or add, one channel operation, one critical   *)
(* section of the notify mutex, one upstream call's start or end, or one   *)
(* SendOrderedMessage.  out[s] lists what the senders of session s handed  *)
(* to its ordered queue, in the order of the numbers they drew, which is   *)
(* the order on the stream (OrderedQueue).                                 *)
(***************************************************************************)
EXTENDS Integers, FiniteSets, Sequences, SequencesExt

CONSTANTS
  Sessions,     \* sessions, and the goroutines of their connections
  Workers,      \* the worker pool
  Notifies,     \* what upstream may bind: records [s, grid, kind]
  MaxRequests,  \* bound of the model: requests of each connection
  Ending,       \* bound of the model: the sessions that may end
  QueueSize,    \* capacity of taskQueue
  MaxUpstream   \* MaxUpstreamConcurrent

Kinds == {"before", "after"}
Ids == UNION {1..MaxRequests[s] : s \in Sessions}
Numbers == Ids \cup {0}         \* the client's seq_id

ASSUME FlowAssumption ==
  /\ Sessions \cap Workers = {} /\ IsFiniteSet(Sessions)
  /\ Ending \subseteq Sessions
  /\ Notifies \subseteq [s : Sessions, grid : Numbers \ {0}, kind : Kinds]
  /\ MaxRequests \in [Sessions -> Nat \ {0}] /\ QueueSize \in Nat /\ MaxUpstream \in Nat

Handlers == Sessions \cup Workers
Jobs == [s : Sessions, id : Ids, grid : Numbers, hello : BOOLEAN,
         owed : SUBSET Notifies]
NoJob == [s |-> "none"]
Messages == [kind : {"response", "error"}, id : Ids]
            \cup [kind : Kinds, grid : Numbers]

VARIABLES
  received,   \* per session: requests read from its connection
  maxSeq,     \* maxClientSeq
  normal,     \* state = SessionNormal: logged in
  open,       \* in the index and not closed
  bound,      \* per session, kind and request: the notifies bound and not taken
  everBound,  \* history: the notifies that were bound
  out,        \* what was handed to the ordered queue, in order
  at,         \* per handler: where it is
  job,        \* the request it handles; owed: what was bound when upstream answered
  list,       \* the notifies it has taken and not sent
  active,     \* upstreamActive
  tasks,      \* taskQueue
  started,    \* AsyncRequestProcessor.started
  stopping    \* its stopCh is closed

vars == <<received, maxSeq, normal, open, bound, everBound, out, at, job, list,
          active, tasks, started, stopping>>

client == <<received, maxSeq>>
session == <<normal, open>>
notify == <<bound, everBound>>
pool == <<tasks, started, stopping>>

Locations == {"idle", "admitting", "counting", "submitting", "calling", "login",
              "takeBefore", "sendBefore", "respond", "takeAfter", "sendAfter",
              "ending", "gone"}

\* A session is fresh, or the successor of one that had logged in.
Init ==
  /\ normal \in [Sessions -> BOOLEAN]
  /\ maxSeq = [s \in Sessions |-> IF normal[s] THEN 1 ELSE 0]
  /\ received = [s \in Sessions |-> 0]
  /\ open = [s \in Sessions |-> TRUE]
  /\ bound = [k \in Sessions \X Kinds \X Numbers |-> <<>>] /\ everBound = {}
  /\ out = [s \in Sessions |-> <<>>]
  /\ at = [h \in Handlers |-> "idle"]
  /\ job = [h \in Handlers |-> NoJob]
  /\ list = [h \in Handlers |-> <<>>]
  /\ active = 0
  /\ tasks = <<>> /\ started = TRUE /\ stopping = FALSE

Goto(h, from, to) ==
  /\ at[h] = from
  /\ at' = [at EXCEPT ![h] = to]
  /\ job' = [job EXCEPT ![h] = IF to \in {"idle", "ending", "gone"} THEN NoJob ELSE @]

\* SendOrderedMessage for session s.  Once the session is closed nothing reaches the
\* client: the call may fail, or succeed and park its message for ever.  What the
\* queue of an open session refuses is the subject of OrderedQueue.
Sent(s, m) == out' = [out EXCEPT ![s] = IF open[s] THEN Append(@, m) ELSE @]
NotSent(s) == ~open[s] /\ UNCHANGED out

Response(j) == [kind |-> "response", id |-> j.id]
ErrorFor(j) == [kind |-> "error", id |-> j.id]
NotifyMsg(n) == [kind |-> n.kind, grid |-> n.grid]

\* sendErrorResponse: nobody looks at its result.
SendError(j) == Sent(j.s, ErrorFor(j))

\* Where a handler goes when it is done with its request: the connection still
\* runs the deferred OnUpstreamEnd.
Done(h) == IF h \in Workers THEN "idle" ELSE "ending"

-----------------------------------------------------------------------------
(* The goroutine of a connection: handleBusinessRequest                    *)

\* The numbers ValidateClientSeq accepts; the session must be in the index.
InSequence(s, seq) == open[s] /\ (maxSeq[s] = 0 \/ seq = maxSeq[s] + 1)

\* A request is rejected for the request rate, its number, its payload, or
\* because its session has not logged in; only the first leave maxClientSeq alone.
Receive(s) ==
  /\ at[s] = "idle"
  /\ received[s] < MaxRequests[s]
  /\ received' = [received EXCEPT ![s] = @ + 1]
  /\ \E j \in [s : {s}, id : {received[s] + 1}, grid : Numbers, hello : BOOLEAN,
             owed : {{}}] :
       \/ /\ InSequence(s, j.grid) /\ (j.hello \/ normal[s])
          /\ at' = [at EXCEPT ![s] = "admitting"]
          /\ job' = [job EXCEPT ![s] = j]
          /\ maxSeq' = [maxSeq EXCEPT ![s] = j.grid]
          /\ UNCHANGED out
       \/ /\ maxSeq' = [maxSeq EXCEPT ![s] = IF InSequence(s, j.grid) THEN j.grid ELSE @]
          /\ SendError(j)
          /\ UNCHANGED <<at, job>>
       \/ SendError(j) /\ UNCHANGED <<at, job, maxSeq>>
  /\ UNCHANGED <<session, notify, list, active, pool>>

\* AllowUpstreamRequest only reads the number of active calls.
AllowUpstreamRequest(s) ==
  /\ \/ active < MaxUpstream /\ Goto(s, "admitting", "counting") /\ UNCHANGED out
     \/ active >= MaxUpstream /\ Goto(s, "admitting", "idle") /\ SendError(job[s])
  /\ UNCHANGED <<client, session, notify, list, active, pool>>

OnUpstreamStart(s) ==
  /\ Goto(s, "counting", IF job[s].hello THEN "calling" ELSE "submitting")
  /\ active' = active + 1
  /\ UNCHANGED <<client, session, notify, out, list, pool>>

\* A full queue or a stopped processor refuses the task.
Queued_Silently(j) ==
  /\ tasks' = IF started /\ Len(tasks) < QueueSize THEN Append(tasks, j) ELSE tasks
  /\ UNCHANGED out
Queued(j) ==
  IF started /\ Len(tasks) < QueueSize
  THEN tasks' = Append(tasks, j) /\ UNCHANGED out
  ELSE SendError(j) /\ UNCHANGED tasks

SubmitTask(s) ==
  /\ Goto(s, "submitting", "ending")
  /\ Queued(job[s])
  /\ UNCHANGED <<client, session, notify, list, active, started, stopping>>

Ended_IfOpen(s) == IF open[s] THEN active - 1 ELSE active
Ended(s) == active - 1

OnUpstreamEnd(s) ==
  /\ Goto(s, "ending", "idle")
  /\ active' = Ended(s)
  /\ UNCHANGED <<client, session, notify, out, list, pool>>

-----------------------------------------------------------------------------
(* The worker pool                                                         *)

\* What remains of the queue when a worker takes its head.
Taken_Kept == tasks
Taken == Tail(tasks)

TakeTask(w) ==
  /\ at[w] = "idle" /\ at' = [at EXCEPT ![w] = "calling"]
  /\ tasks # <<>>
  /\ job' = [job EXCEPT ![w] = Head(tasks)]
  /\ tasks' = Taken
  /\ UNCHANGED <<client, session, notify, out, list, active, started, stopping>>

\* A worker that finds its select ready for both chooses.
MayStop_Ignored == FALSE
MayStop == stopping

StopWorker(w) ==
  /\ MayStop
  /\ Goto(w, "idle", "gone")
  /\ UNCHANGED <<client, session, notify, out, list, active, pool>>

\* AsyncRequestProcessor.Stop
CloseStopCh ==
  /\ ~stopping
  /\ stopping' = TRUE
  /\ UNCHANGED <<client, session, notify, out, at, job, list, active, tasks, started>>

Stopped ==
  /\ stopping /\ started
  /\ \A w \in Workers : at[w] = "gone"
  /\ started' = FALSE
  /\ UNCHANGED <<client, session, notify, out, at, job, list, active, tasks, stopping>>

-----------------------------------------------------------------------------
(* Answering: processTask, and handleBusinessRequestSync for a login       *)

BoundTo(j, kind) == bound[<<j.s, kind, j.grid>>]

\* A worker sends the notifies bound before the response first.
FirstStep_Respond(h) == IF h \in Workers THEN "respond" ELSE "login"
FirstStep(h) == IF h \in Workers THEN "takeBefore" ELSE "login"

\* callUpstreamService returns an answer, or an error (its timeout included).
UpstreamReturns(h) ==
  /\ \/ /\ at[h] = "calling"
        /\ at' = [at EXCEPT ![h] = FirstStep(h)]
        /\ job' = [job EXCEPT ![h].owed =
                     ToSet(BoundTo(job[h], "before")) \cup ToSet(BoundTo(job[h], "after"))]
        /\ UNCHANGED out
     \/ Goto(h, "calling", Done(h)) /\ SendError(job[h])
  /\ UNCHANGED <<client, session, notify, list, active, pool>>

\* handleLoginSuccess for code 200: only a session that is not logged in yet and
\* is in the index can be activated.  Other codes are passed to the client.
HandleLogin(s) ==
  /\ \/ /\ ~normal[s] /\ open[s]
        /\ Goto(s, "login", "respond")
        /\ normal' = [normal EXCEPT ![s] = TRUE]
        /\ UNCHANGED out
     \/ /\ normal[s] \/ ~open[s]
        /\ Goto(s, "login", "ending")
        /\ SendError(job[s])
        /\ UNCHANGED normal
     \/ /\ Goto(s, "login", "respond")
        /\ UNCHANGED <<normal, out>>
  /\ UNCHANGED <<client, open, notify, list, active, pool>>

\* GetAndRemoveBeforeNotifies, GetAndRemoveAfterNotifies
Take(h, kind, from, to) ==
  /\ Goto(h, from, to)
  /\ list' = [list EXCEPT ![h] = BoundTo(job[h], kind)]
  /\ bound' = [bound EXCEPT ![<<job[h].s, kind, job[h].grid>>] = <<>>]
  /\ UNCHANGED <<client, session, everBound, out, active, pool>>

TakeBefore(h) == Take(h, "before", "takeBefore", "sendBefore")
TakeAfter(h)  == Take(h, "after", "takeAfter", "sendAfter")

\* What follows the notifies bound before a response: a worker now responds, the
\* login handler has responded already.
AfterBefore(h) == IF h \in Workers THEN "respond" ELSE "takeAfter"
AfterRespond(h) == IF h \in Workers THEN "takeAfter" ELSE "takeBefore"

\* PushBusinessData of the next notify; the rest is dropped when it fails, and the
\* login handler then leaves the other kind alone, too.
SendNotify(h, from, next, failed) ==
  /\ \/ /\ Goto(h, from, next)
        /\ list[h] = <<>>
        /\ UNCHANGED <<list, out>>
     \/ /\ at[h] = from /\ list[h] # <<>>
        /\ Sent(job[h].s, NotifyMsg(Head(list[h])))
        /\ list' = [list EXCEPT ![h] = Tail(@)]
        /\ UNCHANGED <<at, job>>
     \/ /\ Goto(h, from, failed)
        /\ list[h] # <<>>
        /\ NotSent(job[h].s)
        /\ list' = [list EXCEPT ![h] = <<>>]
  /\ UNCHANGED <<client, session, notify, active, pool>>

SendBefore(h) ==
  SendNotify(h, "sendBefore", AfterBefore(h), IF h \in Workers THEN "respond" ELSE "ending")
SendAfter(h) == SendNotify(h, "sendAfter", Done(h), Done(h))

\* SendBusinessResponse
Respond(h) ==
  /\ \/ Goto(h, "respond", AfterRespond(h)) /\ Sent(job[h].s, Response(job[h]))
     \/ Goto(h, "respond", Done(h)) /\ NotSent(job[h].s)
  /\ UNCHANGED <<client, session, notify, list, active, pool>>

-----------------------------------------------------------------------------
(* The environment                                                         *)

\* processNotifyMessage for a session that has logged in.
BindNotify(n) ==
  /\ normal[n.s] /\ n \notin everBound
  /\ bound' = [bound EXCEPT ![<<n.s, n.kind, n.grid>>] = Append(@, n)]
  /\ everBound' = everBound \cup {n}
  /\ UNCHANGED <<client, session, out, at, job, list, active, pool>>

\* The session is stopped, replaced or expired (SessionIndex).
EndSession(s) ==
  /\ open[s] /\ s \in Ending
  /\ open' = [open EXCEPT ![s] = FALSE]
  /\ UNCHANGED <<client, normal, notify, out, at, job, list, active, pool>>

-----------------------------------------------------------------------------
Connection(s) ==
  AllowUpstreamRequest(s) \/ OnUpstreamStart(s) \/ SubmitTask(s) \/ OnUpstreamEnd(s)
  \/ HandleLogin(s)

Worker(w) == TakeTask(w) \/ StopWorker(w)

Answer(h) ==
  UpstreamReturns(h) \/ TakeBefore(h) \/ SendBefore(h) \/ Respond(h) \/ TakeAfter(h)
  \/ SendAfter(h)

Next ==
  \/ \E s \in Sessions : Receive(s) \/ Connection(s) \/ EndSession(s)
  \/ \E w \in Workers : Worker(w)
  \/ \E h \in Handlers : Answer(h)
  \/ \E n \in Notifies : BindNotify(n)
  \/ CloseStopCh \/ Stopped

Spec == Init /\ [][Next]_vars

\* Goroutines go on, upstream calls end by their timeout at the latest.  No client
\* has to send, and nobody has to stop the processor.
Fairness ==
  /\ \A s \in Sessions : WF_vars(Connection(s)) /\ WF_vars(Answer(s))
  /\ \A w \in Workers : WF_vars(Worker(w)) /\ WF_vars(Answer(w))
  /\ WF_vars(Stopped)

FairSpec == Spec /\ Fairness

-----------------------------------------------------------------------------
(* Properties                                                              *)

\* Types, and the task queue within its capacity.
TypeOK ==
  /\ received \in [Sessions -> Numbers]
  /\ maxSeq \in [Sessions -> Numbers]
  /\ normal \in [Sessions -> BOOLEAN] /\ open \in [Sessions -> BOOLEAN]
  /\ bound \in [Sessions \X Kinds \X Numbers -> Seq(Notifies)] /\ everBound \subseteq Notifies
  /\ out \in [Sessions -> Seq(Messages)]
  /\ at \in [Handlers -> Locations]
  /\ job \in [Handlers -> Jobs \cup {NoJob}]
  /\ list \in [Handlers -> Seq(Notifies)]
  /\ active \in 0..Cardinality(Sessions)
  /\ tasks \in Seq(Jobs) /\ Len(tasks) <= QueueSize
  /\ started \in BOOLEAN /\ stopping \in BOOLEAN

\* The places before an answer: a handler there will still answer its request.
Unanswered == {"admitting", "counting", "submitting", "calling", "login", "takeBefore",
               "sendBefore", "respond"}
Handling(h, s, id) ==
  /\ job[h] # NoJob /\ job[h].s = s /\ job[h].id = id
  /\ at[h] \in IF h \in Workers THEN Unanswered
               ELSE Unanswered \ {"takeBefore", "sendBefore"}

Answers(s, id) ==
  {i \in DOMAIN out[s] : out[s][i].kind \in {"response", "error"} /\ out[s][i].id = id}

\* Whatever path a request takes (rejected, refused by a full queue, timed out,
\* answered by a worker or by the connection), it is in exactly one place as long as
\* its session lives: with one handler, once in the queue, or answered once.
OnePlace ==
  \A s \in Sessions : open[s] =>
    \A id \in 1..received[s] :
      Cardinality({h \in Handlers : Handling(h, s, id)})
        + Cardinality({i \in DOMAIN tasks : tasks[i].s = s /\ tasks[i].id = id})
        + Cardinality(Answers(s, id)) = 1

\* upstreamActive counts exactly the connections between OnUpstreamStart and the
\* deferred OnUpstreamEnd, whichever way they leave the handler: an early return that
\* missed the decrement would in time shut the gateway.
LoadIsCounted ==
  active = Cardinality({s \in Sessions :
                          at[s] \notin {"idle", "admitting", "counting", "gone"}})

IsSent(s, m) == \E i \in DOMAIN out[s] : out[s][i] = m
Position(s, m) == CHOOSE i \in DOMAIN out[s] : out[s][i] = m

\* When a worker has sent the last notify of its task, every notify that was bound
\* when upstream answered is on the stream: those of kind before ahead of the
\* response, those of kind after behind it.
NotifiesInPlace ==
  \A w \in Workers :
    (at[w] = "sendAfter" /\ list[w] = <<>> /\ open[job[w].s]) =>
      \A n \in job[w].owed :
        /\ IsSent(n.s, NotifyMsg(n))
        /\ n.kind = "before" <=>
             Position(n.s, NotifyMsg(n)) < Position(n.s, Response(job[w]))

\* Every request is answered, unless its session ends or the processor stops.
EveryRequestAnswered ==
  \A s \in Sessions : \A id \in 1..MaxRequests[s] :
    received[s] >= id ~> (Answers(s, id) # {} \/ ~open[s] \/ stopping)

\* Stop of the processor returns: every worker finishes its task and leaves.
StopReturns == stopping ~> ~started

=============================================================================
