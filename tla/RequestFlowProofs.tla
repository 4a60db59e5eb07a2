-------------------------- MODULE RequestFlowProofs --------------------------
(***************************************************************************)
(* TLAPS proofs about RequestFlow, for any number of connections, workers, *)
(* requests and notifies.                                                  *)
(***************************************************************************)
EXTENDS RequestFlow, FiniteSetTheorems, TLAPS

-----------------------------------------------------------------------------
(* The inductive invariant.                                                *)

\* A handler has a request exactly when it is not idle, and a connection has one of its own.
JobsMatch ==
  /\ \A h \in Handlers : at[h] \notin {"idle", "ending", "gone"} => job[h] \in Jobs
  /\ \A s \in Sessions : job[s] \in Jobs => job[s].s = s

\* Only connections are admitted, only workers leave.
Roles ==
  /\ \A w \in Workers : at[w] \notin {"admitting", "counting", "submitting", "login", "ending"}
  /\ \A s \in Sessions : at[s] # "gone"

\* The connections that are counted as load.
Loading == {s \in Sessions : at[s] \notin {"idle", "admitting", "counting", "gone"}}

\* Everything but the bound on the number of active calls, which follows from LoadIsCounted.
Typed ==
  /\ received \in [Sessions -> Numbers]
  /\ maxSeq \in [Sessions -> Numbers]
  /\ normal \in [Sessions -> BOOLEAN] /\ open \in [Sessions -> BOOLEAN]
  /\ bound \in [Sessions \X Kinds \X Numbers -> Seq(Notifies)] /\ everBound \subseteq Notifies
  /\ out \in [Sessions -> Seq(Messages)]
  /\ at \in [Handlers -> Locations]
  /\ job \in [Handlers -> Jobs \cup {NoJob}]
  /\ list \in [Handlers -> Seq(Notifies)]
  /\ tasks \in Seq(Jobs) /\ Len(tasks) <= QueueSize
  /\ started \in BOOLEAN /\ stopping \in BOOLEAN

-----------------------------------------------------------------------------
(* Data                                                                    *)

LEMMA NumbersAreNat == Ids \subseteq Nat /\ Numbers \subseteq Nat
  BY FlowAssumption DEF Ids, Numbers

LEMMA NextId ==
  ASSUME NEW s \in Sessions, Typed, received[s] < MaxRequests[s]
  PROVE  received[s] + 1 \in Ids /\ received[s] \in Nat
<1>1. received[s] \in Nat /\ MaxRequests[s] \in Nat
  BY NumbersAreNat, FlowAssumption DEF Typed
<1>2. received[s] + 1 \in 1..MaxRequests[s]
  BY <1>1
<1> QED
  BY <1>1, <1>2 DEF Ids

LEMMA MessageTypes ==
  /\ \A j \in Jobs : Response(j) \in Messages /\ ErrorFor(j) \in Messages
  /\ \A n \in Notifies : NotifyMsg(n) \in Messages
  BY FlowAssumption DEF Response, ErrorFor, NotifyMsg, Messages, Jobs, Numbers, Kinds

LEMMA NoJobIsNone == NoJob \notin Jobs
<1>1. \A j \in Jobs : DOMAIN j = {"s", "id", "grid", "hello", "owed"}
  BY DEF Jobs
<1>2. DOMAIN NoJob = {"s"}
  BY DEF NoJob
<1> QED
  BY <1>1, <1>2

\* What SendOrderedMessage hands over keeps its type.
LEMMA SentType ==
  ASSUME Typed, NEW s \in Sessions, NEW m \in Messages, Sent(s, m)
  PROVE  out' \in [Sessions -> Seq(Messages)]
  BY DEF Sent, Typed

LEMMA GotoType ==
  ASSUME Typed, NEW h \in Handlers, NEW from, NEW to \in Locations, Goto(h, from, to)
  PROVE  /\ at' \in [Handlers -> Locations]
         /\ job' \in [Handlers -> Jobs \cup {NoJob}]
  BY DEF Goto, Typed

-----------------------------------------------------------------------------
(* Types                                                                   *)

LEMMA TypeStep == Typed /\ JobsMatch /\ Roles /\ [Next]_vars => Typed'
<1> SUFFICES ASSUME Typed, JobsMatch, Roles, [Next]_vars
             PROVE  Typed'
  OBVIOUS
<1> USE DEF client, session, notify, pool, Handlers
<1>1. ASSUME NEW s \in Sessions, Receive(s)
      PROVE  Typed'
  <2>1. received[s] + 1 \in Ids /\ received[s] \in Nat /\ received[s] + 1 \in Numbers
    BY <1>1, NextId DEF Receive, Numbers
  <2>2. PICK j \in [s : {s}, id : {received[s] + 1}, grid : Numbers, hello : BOOLEAN, owed : {{}}] :
          /\ UNCHANGED <<at, job>> \/ (at' = [at EXCEPT ![s] = "admitting"] /\ job' = [job EXCEPT ![s] = j])
          /\ maxSeq' \in {maxSeq, [maxSeq EXCEPT ![s] = j.grid]}
          /\ UNCHANGED out \/ SendError(j)
    <3>1. ASSUME NEW j \in [s : {s}, id : {received[s] + 1}, grid : Numbers, hello : BOOLEAN, owed : {{}}],
                 maxSeq' = [maxSeq EXCEPT ![s] = IF InSequence(s, j.grid) THEN j.grid ELSE @]
          PROVE  maxSeq' \in {maxSeq, [maxSeq EXCEPT ![s] = j.grid]}
      BY <3>1 DEF Typed
    <3> QED
      BY <1>1, <3>1 DEF Receive
  <2>3. j \in Jobs /\ j.s = s /\ j.grid \in Numbers
    BY <2>1 DEF Jobs
  <2>4. out' \in [Sessions -> Seq(Messages)]
    BY <2>2, <2>3, SentType, MessageTypes DEF SendError, Typed
  <2>5. received' \in [Sessions -> Numbers]
    BY <1>1, <2>1 DEF Receive, Typed
  <2>6. maxSeq' \in [Sessions -> Numbers]
    BY <2>2, <2>3 DEF Typed
  <2>7. at' \in [Handlers -> Locations]
    BY <2>2 DEF Typed, Locations
  <2>8. job' \in [Handlers -> Jobs \cup {NoJob}]
    BY <2>2, <2>3 DEF Typed
  <2> QED
    BY <1>1, <2>4, <2>5, <2>6, <2>7, <2>8 DEF Receive, Typed
<1>2. ASSUME NEW s \in Sessions, AllowUpstreamRequest(s)
      PROVE  Typed'
  <2>1. job[s] \in Jobs /\ job[s].s = s
    BY <1>2 DEF AllowUpstreamRequest, Goto, JobsMatch
  <2>2. /\ at' \in [Handlers -> Locations] /\ job' \in [Handlers -> Jobs \cup {NoJob}]
        /\ UNCHANGED out \/ SendError(job[s])
    BY <1>2, GotoType DEF AllowUpstreamRequest, Locations
  <2>3. out' \in [Sessions -> Seq(Messages)]
    BY <2>1, <2>2, SentType, MessageTypes DEF SendError, Typed
  <2> QED
    BY <1>2, <2>2, <2>3 DEF AllowUpstreamRequest, Typed
<1>3. ASSUME NEW s \in Sessions, OnUpstreamStart(s)
      PROVE  Typed'
  <2>1. /\ at' \in [Handlers -> Locations] /\ job' \in [Handlers -> Jobs \cup {NoJob}]
    BY <1>3, GotoType DEF OnUpstreamStart, Locations
  <2> QED
    BY <1>3, <2>1 DEF OnUpstreamStart, Typed
<1>4. ASSUME NEW s \in Sessions, SubmitTask(s)
      PROVE  Typed'
  <2>1. job[s] \in Jobs /\ job[s].s = s
    BY <1>4 DEF SubmitTask, Goto, JobsMatch
  <2>2. /\ at' \in [Handlers -> Locations] /\ job' \in [Handlers -> Jobs \cup {NoJob}]
    BY <1>4, GotoType DEF SubmitTask, Locations
  <2>3. out' \in [Sessions -> Seq(Messages)]
    BY <1>4, <2>1, SentType, MessageTypes DEF SubmitTask, Queued, SendError, Typed
  <2>4. tasks' \in Seq(Jobs) /\ Len(tasks') <= QueueSize
    <3>1. CASE UNCHANGED tasks
      BY <3>1 DEF Typed
    <3>2. CASE Len(tasks) < QueueSize /\ tasks' = Append(tasks, job[s])
      <4>1. Len(tasks) \in Nat /\ Append(tasks, job[s]) \in Seq(Jobs)
            /\ Len(Append(tasks, job[s])) = Len(tasks) + 1
        BY <2>1 DEF Typed
      <4> QED
        BY <3>2, <4>1, FlowAssumption
    <3> QED
      BY <1>4, <3>1, <3>2 DEF SubmitTask, Queued
  <2> QED
    BY <1>4, <2>2, <2>3, <2>4 DEF SubmitTask, Typed
<1>5. ASSUME NEW s \in Sessions, OnUpstreamEnd(s)
      PROVE  Typed'
  <2>1. /\ at' \in [Handlers -> Locations] /\ job' \in [Handlers -> Jobs \cup {NoJob}]
    BY <1>5, GotoType DEF OnUpstreamEnd, Locations
  <2> QED
    BY <1>5, <2>1 DEF OnUpstreamEnd, Typed
<1>6. ASSUME NEW s \in Sessions, HandleLogin(s)
      PROVE  Typed'
  <2>1. job[s] \in Jobs /\ job[s].s = s
    BY <1>6 DEF HandleLogin, Goto, JobsMatch
  <2>2. /\ at' \in [Handlers -> Locations] /\ job' \in [Handlers -> Jobs \cup {NoJob}]
        /\ UNCHANGED out \/ SendError(job[s])
    BY <1>6, GotoType DEF HandleLogin, Locations
  <2>3. out' \in [Sessions -> Seq(Messages)]
    BY <2>1, <2>2, SentType, MessageTypes DEF SendError, Typed
  <2>4. normal' \in [Sessions -> BOOLEAN]
    BY <1>6 DEF HandleLogin, Typed
  <2> QED
    BY <1>6, <2>2, <2>3, <2>4 DEF HandleLogin, Typed
<1>7. ASSUME NEW w \in Workers, TakeTask(w)
      PROVE  Typed'
  <2>1. Head(tasks) \in Jobs /\ Tail(tasks) \in Seq(Jobs) /\ Len(Tail(tasks)) <= QueueSize
    BY <1>7, FlowAssumption DEF TakeTask, Typed
  <2> QED
    BY <1>7, <2>1 DEF TakeTask, Taken, Typed, Locations
<1>8. ASSUME NEW w \in Workers, StopWorker(w)
      PROVE  Typed'
  <2>1. /\ at' \in [Handlers -> Locations] /\ job' \in [Handlers -> Jobs \cup {NoJob}]
    BY <1>8, GotoType DEF StopWorker, Locations
  <2> QED
    BY <1>8, <2>1 DEF StopWorker, Typed
<1>9. CASE CloseStopCh \/ Stopped
  BY <1>9 DEF CloseStopCh, Stopped, Typed
<1>10. ASSUME NEW h \in Handlers, UpstreamReturns(h)
       PROVE  Typed'
  <2>1. job[h] \in Jobs
    BY <1>10 DEF UpstreamReturns, Goto, JobsMatch
  <2>2. job[h].s \in Sessions
    BY <2>1 DEF Jobs
  <2>3. CASE Goto(h, "calling", Done(h)) /\ SendError(job[h])
    <3>1. /\ at' \in [Handlers -> Locations] /\ job' \in [Handlers -> Jobs \cup {NoJob}]
      BY <2>3, GotoType DEF Done, Locations
    <3>2. out' \in [Sessions -> Seq(Messages)]
      BY <2>1, <2>2, <2>3, SentType, MessageTypes DEF SendError
    <3> QED
      BY <1>10, <3>1, <3>2 DEF UpstreamReturns, Typed
  <2>4. CASE /\ at' = [at EXCEPT ![h] = FirstStep(h)]
             /\ job' = [job EXCEPT ![h].owed =
                          ToSet(BoundTo(job[h], "before")) \cup ToSet(BoundTo(job[h], "after"))]
             /\ UNCHANGED out
    <3> DEFINE owed == ToSet(BoundTo(job[h], "before")) \cup ToSet(BoundTo(job[h], "after"))
    <3>1. BoundTo(job[h], "before") \in Seq(Notifies) /\ BoundTo(job[h], "after") \in Seq(Notifies)
      BY <2>1 DEF BoundTo, Typed, Jobs, Kinds
    <3>2. owed \subseteq Notifies
      BY <3>1 DEF ToSet
    <3>3. [job[h] EXCEPT !.owed = owed] \in Jobs
      BY <2>1, <3>2 DEF Jobs
    <3>4. job' = [job EXCEPT ![h] = [job[h] EXCEPT !.owed = owed]]
      BY <2>4 DEF Typed
    <3>5. job' \in [Handlers -> Jobs \cup {NoJob}]
      BY <3>3, <3>4 DEF Typed
    <3> QED
      BY <1>10, <2>4, <3>5 DEF UpstreamReturns, FirstStep, Typed, Locations
  <2> QED
    BY <1>10, <2>3, <2>4 DEF UpstreamReturns
<1>11. ASSUME NEW h \in Handlers, TakeBefore(h) \/ TakeAfter(h)
       PROVE  Typed'
  <2>1. PICK kind \in Kinds, from \in {"takeBefore", "takeAfter"}, to \in {"sendBefore", "sendAfter"} :
          Take(h, kind, from, to)
    BY <1>11 DEF TakeBefore, TakeAfter, Kinds
  <2>2. job[h] \in Jobs
    BY <2>1 DEF Take, Goto, JobsMatch
  <2>3. BoundTo(job[h], kind) \in Seq(Notifies)
    BY <2>2 DEF BoundTo, Typed, Jobs
  <2>4. /\ at' \in [Handlers -> Locations] /\ job' \in [Handlers -> Jobs \cup {NoJob}]
    BY <2>1, GotoType DEF Take, Locations
  <2>5. /\ bound' \in [Sessions \X Kinds \X Numbers -> Seq(Notifies)]
        /\ list' \in [Handlers -> Seq(Notifies)]
    <3> DEFINE key == <<job[h].s, kind, job[h].grid>>
    <3>1. bound' = [bound EXCEPT ![key] = <<>>] /\ list' = [list EXCEPT ![h] = BoundTo(job[h], kind)]
      BY <2>1 DEF Take
    <3>2. <<>> \in Seq(Notifies)
      OBVIOUS
    <3> HIDE DEF key
    <3> QED
      BY <2>3, <3>1, <3>2 DEF Typed
  <2> QED
    BY <2>1, <2>4, <2>5 DEF Take, Typed
<1>12. ASSUME NEW h \in Handlers, SendBefore(h) \/ SendAfter(h)
       PROVE  Typed'
  <2>1. PICK from \in {"sendBefore", "sendAfter"}, next \in Locations, failed \in Locations :
          SendNotify(h, from, next, failed)
    BY <1>12 DEF SendBefore, SendAfter, AfterBefore, Done, Locations
  <2>2. at[h] = from /\ job[h] \in Jobs
    BY <2>1 DEF SendNotify, Goto, JobsMatch
  <2>3. /\ at' \in [Handlers -> Locations] /\ job' \in [Handlers -> Jobs \cup {NoJob}]
    <3>1. CASE UNCHANGED <<at, job>>
      BY <3>1 DEF Typed
    <3>2. CASE Goto(h, from, next)
      BY <3>2, GotoType
    <3>3. CASE Goto(h, from, failed)
      BY <3>3, GotoType
    <3> QED
      BY <2>1, <3>1, <3>2, <3>3 DEF SendNotify
  <2>4. list[h] # <<>> => Head(list[h]) \in Notifies /\ Tail(list[h]) \in Seq(Notifies)
    BY DEF Typed
  <2>5. list' \in [Handlers -> Seq(Notifies)]
    <3>1. list' \in {list, [list EXCEPT ![h] = <<>>]}
          \/ (list[h] # <<>> /\ list' = [list EXCEPT ![h] = Tail(list[h])])
      BY <2>1 DEF SendNotify, Typed
    <3>2. <<>> \in Seq(Notifies)
      OBVIOUS
    <3> QED
      BY <2>4, <3>1, <3>2 DEF Typed
  <2>6. out' \in [Sessions -> Seq(Messages)]
    <3>1. job[h].s \in Sessions
      BY <2>2 DEF Jobs
    <3>2. list[h] # <<>> => NotifyMsg(Head(list[h])) \in Messages
      BY <2>4, MessageTypes
    <3>3. UNCHANGED out \/ (list[h] # <<>> /\ Sent(job[h].s, NotifyMsg(Head(list[h]))))
      BY <2>1 DEF SendNotify, NotSent
    <3> QED
      BY <3>1, <3>2, <3>3, SentType DEF Typed
  <2> QED
    BY <2>1, <2>3, <2>5, <2>6 DEF SendNotify, Typed
<1>13. ASSUME NEW h \in Handlers, Respond(h)
       PROVE  Typed'
  <2>1. at[h] = "respond" /\ job[h] \in Jobs
    BY <1>13 DEF Respond, Goto, JobsMatch
  <2>2. /\ at' \in [Handlers -> Locations] /\ job' \in [Handlers -> Jobs \cup {NoJob}]
    BY <1>13, GotoType DEF Respond, AfterRespond, Done, Locations
  <2>3. out' \in [Sessions -> Seq(Messages)]
    <3>1. job[h].s \in Sessions /\ Response(job[h]) \in Messages
      BY <2>1, MessageTypes DEF Jobs
    <3> QED
      BY <1>13, <3>1, SentType DEF Respond, NotSent, Typed
  <2> QED
    BY <1>13, <2>2, <2>3 DEF Respond, Typed
<1>14. ASSUME NEW n \in Notifies, BindNotify(n)
       PROVE  Typed'
  <2>1. <<n.s, n.kind, n.grid>> \in Sessions \X Kinds \X Numbers
    BY FlowAssumption
  <2> QED
    BY <1>14, <2>1 DEF BindNotify, Typed
<1>15. ASSUME NEW s \in Sessions, EndSession(s)
       PROVE  Typed'
  BY <1>15 DEF EndSession, Typed
<1>16. CASE UNCHANGED vars
  BY <1>16 DEF vars, Typed
<1> QED
  BY <1>1, <1>2, <1>3, <1>4, <1>5, <1>6, <1>7, <1>8, <1>9, <1>10, <1>11, <1>12, <1>13, <1>14, <1>15,
     <1>16
  DEF Next, Connection, Worker, Answer

-----------------------------------------------------------------------------
(* Handlers and the load                                                   *)

\* What Goto does to the invariant on jobs.
LEMMA GotoJobs ==
  ASSUME Typed, JobsMatch, Roles, NEW h \in Handlers, NEW from, NEW to,
         from \notin {"idle", "ending", "gone"}, Goto(h, from, to)
  PROVE  JobsMatch'
<1>1. job[h] \in Jobs
  BY DEF Goto, JobsMatch
<1> QED
  BY <1>1, NoJobIsNone DEF Goto, JobsMatch, Typed, Handlers

LEMMA JobsStep == Typed /\ JobsMatch /\ Roles /\ [Next]_vars => JobsMatch' /\ Roles'
<1> SUFFICES ASSUME Typed, JobsMatch, Roles, [Next]_vars
             PROVE  JobsMatch' /\ Roles'
  OBVIOUS
<1> USE DEF Handlers
<1>0. Sessions \cap Workers = {}
  BY FlowAssumption
<1>1. ASSUME NEW s \in Sessions, Receive(s)
      PROVE  JobsMatch' /\ Roles'
  <2>1. received[s] + 1 \in Ids
    BY <1>1, NextId DEF Receive
  <2>2. PICK j \in [s : {s}, id : {received[s] + 1}, grid : Numbers, hello : BOOLEAN, owed : {{}}] :
          UNCHANGED <<at, job>> \/ (at' = [at EXCEPT ![s] = "admitting"] /\ job' = [job EXCEPT ![s] = j])
    BY <1>1 DEF Receive
  <2>3. j \in Jobs /\ j.s = s
    BY <2>1 DEF Jobs
  <2>4. CASE UNCHANGED <<at, job>>
    BY <2>4 DEF JobsMatch, Roles
  <2>5. CASE at' = [at EXCEPT ![s] = "admitting"] /\ job' = [job EXCEPT ![s] = j]
    <3>1. at'[s] = "admitting" /\ job'[s] = j
      BY <2>5 DEF Typed
    <3>2. \A h \in Handlers \ {s} : at'[h] = at[h] /\ job'[h] = job[h]
      BY <2>5 DEF Typed
    <3> QED
      BY <1>0, <2>3, <3>1, <3>2 DEF JobsMatch, Roles
  <2> QED
    BY <2>2, <2>4, <2>5
<1>2. ASSUME NEW h \in Handlers, NEW from, NEW to, Goto(h, from, to),
             from \notin {"idle", "ending", "gone"}, to # "gone",
             h \in Workers => to \notin {"admitting", "counting", "submitting", "login", "ending"}
      PROVE  JobsMatch' /\ Roles'
  <2>1. JobsMatch'
    BY <1>2, GotoJobs
  <2>2. Roles'
    BY <1>0, <1>2 DEF Goto, Roles, Typed
  <2> QED
    BY <2>1, <2>2
<1>3. ASSUME NEW s \in Sessions, OnUpstreamEnd(s)
      PROVE  JobsMatch' /\ Roles'
  BY <1>0, <1>3, NoJobIsNone DEF OnUpstreamEnd, Goto, JobsMatch, Roles, Typed
<1>4. ASSUME NEW w \in Workers, TakeTask(w)
      PROVE  JobsMatch' /\ Roles'
  <2>1. Head(tasks) \in Jobs
    BY <1>4 DEF TakeTask, Typed
  <2> QED
    BY <1>0, <1>4, <2>1 DEF TakeTask, JobsMatch, Roles, Typed
<1>5. ASSUME NEW w \in Workers, StopWorker(w)
      PROVE  JobsMatch' /\ Roles'
  BY <1>0, <1>5 DEF StopWorker, Goto, JobsMatch, Roles, Typed
<1>6. ASSUME NEW h \in Handlers, UpstreamReturns(h)
      PROVE  JobsMatch' /\ Roles'
  <2>1. CASE Goto(h, "calling", Done(h))
    BY <1>2, <2>1 DEF Done
  <2>2. CASE /\ at[h] = "calling" /\ at' = [at EXCEPT ![h] = FirstStep(h)]
             /\ job' = [job EXCEPT ![h].owed =
                          ToSet(BoundTo(job[h], "before")) \cup ToSet(BoundTo(job[h], "after"))]
    <3> DEFINE owed == ToSet(BoundTo(job[h], "before")) \cup ToSet(BoundTo(job[h], "after"))
    <3>1. job[h] \in Jobs
      BY <2>2 DEF JobsMatch
    <3>2. job' = [job EXCEPT ![h] = [job[h] EXCEPT !.owed = owed]] /\ job'[h] \in Jobs \cup {NoJob}
      BY <2>2, TypeStep DEF Typed
    <3>3. [job[h] EXCEPT !.owed = owed].s = job[h].s
          /\ DOMAIN [job[h] EXCEPT !.owed = owed] = {"s", "id", "grid", "hello", "owed"}
      BY <3>1 DEF Jobs
    <3>4. job'[h] = [job[h] EXCEPT !.owed = owed]
      BY <3>2 DEF Typed
    <3>5. job'[h] \in Jobs /\ job'[h].s = job[h].s
      BY <3>2, <3>3, <3>4 DEF NoJob
    <3>6. \A g \in Handlers \ {h} : job'[g] = job[g] /\ at'[g] = at[g]
      BY <2>2, <3>2 DEF Typed
    <3>7. at'[h] = FirstStep(h)
      BY <2>2 DEF Typed
    <3> QED
      BY <1>0, <3>1, <3>5, <3>6, <3>7 DEF JobsMatch, Roles, FirstStep
  <2> QED
    BY <1>6, <2>1, <2>2 DEF UpstreamReturns
<1>7. ASSUME NEW s \in Sessions,
             AllowUpstreamRequest(s) \/ OnUpstreamStart(s) \/ SubmitTask(s) \/ HandleLogin(s)
      PROVE  JobsMatch' /\ Roles'
  BY <1>0, <1>2, <1>7 DEF AllowUpstreamRequest, OnUpstreamStart, SubmitTask, HandleLogin
<1>8. ASSUME NEW h \in Handlers, TakeBefore(h) \/ TakeAfter(h) \/ Respond(h)
      PROVE  JobsMatch' /\ Roles'
  BY <1>2, <1>8 DEF TakeBefore, TakeAfter, Take, Respond, AfterRespond, Done
<1>9. CASE UNCHANGED <<at, job>>
  BY <1>9 DEF JobsMatch, Roles
<1>10. ASSUME NEW h \in Handlers, SendBefore(h) \/ SendAfter(h)
       PROVE  JobsMatch' /\ Roles'
  BY <1>2, <1>9, <1>10 DEF SendBefore, SendAfter, SendNotify, AfterBefore, Done
<1> QED
  BY <1>1, <1>3, <1>4, <1>5, <1>6, <1>7, <1>8, <1>9, <1>10
  DEF Next, vars, Connection, Worker, Answer, CloseStopCh, Stopped, BindNotify, EndSession, notify

LEMMA LoadStep == Typed /\ JobsMatch /\ Roles /\ LoadIsCounted /\ [Next]_vars => LoadIsCounted'
<1> SUFFICES ASSUME Typed, JobsMatch, Roles, LoadIsCounted, [Next]_vars
             PROVE  LoadIsCounted'
  OBVIOUS
<1> USE DEF Handlers
<1>0. Sessions \cap Workers = {} /\ IsFiniteSet(Loading) /\ active = Cardinality(Loading)
  BY FlowAssumption, FS_Subset DEF Loading, LoadIsCounted
<1>1. (Loading' = Loading /\ UNCHANGED active) => LoadIsCounted'
  BY <1>0 DEF LoadIsCounted, Loading
<1>2. ASSUME NEW s \in Sessions, OnUpstreamStart(s)
      PROVE  LoadIsCounted'
  <2>1. s \notin Loading /\ active' = active + 1
    BY <1>2 DEF OnUpstreamStart, Goto, Loading
  <2>2. Loading' = Loading \cup {s}
    BY <1>2 DEF OnUpstreamStart, Goto, Loading, Typed
  <2> QED
    BY <1>0, <2>1, <2>2, FS_AddElement DEF LoadIsCounted, Loading
<1>3. ASSUME NEW s \in Sessions, OnUpstreamEnd(s)
      PROVE  LoadIsCounted'
  <2>1. s \in Loading /\ active' = active - 1
    BY <1>3 DEF OnUpstreamEnd, Ended, Goto, Loading
  <2>2. Loading' = Loading \ {s}
    BY <1>3 DEF OnUpstreamEnd, Goto, Loading, Typed
  <2> QED
    BY <1>0, <2>1, <2>2, FS_RemoveElement DEF LoadIsCounted, Loading
<1>4. ASSUME NEW h \in Handlers, NEW from, NEW to, at[h] = from, at' = [at EXCEPT ![h] = to],
             UNCHANGED active,
             h \in Workers \/ (from \in {"idle", "admitting", "counting", "gone"}
                                <=> to \in {"idle", "admitting", "counting", "gone"})
      PROVE  LoadIsCounted'
  <2>1. Loading' = Loading
    BY <1>0, <1>4 DEF Loading, Typed
  <2> QED
    BY <1>1, <1>4, <2>1
<1>5. CASE UNCHANGED <<at, active>>
  BY <1>1, <1>5 DEF Loading
<1>6. ASSUME NEW s \in Sessions,
             Receive(s) \/ AllowUpstreamRequest(s) \/ SubmitTask(s) \/ HandleLogin(s)
      PROVE  LoadIsCounted'
  BY <1>4, <1>5, <1>6 DEF Receive, AllowUpstreamRequest, SubmitTask, HandleLogin, Goto
<1>7. ASSUME NEW w \in Workers, Worker(w)
      PROVE  LoadIsCounted'
  BY <1>4, <1>7 DEF Worker, TakeTask, StopWorker, Goto
<1>8. ASSUME NEW h \in Handlers, UpstreamReturns(h) \/ TakeBefore(h) \/ TakeAfter(h) \/ Respond(h)
      PROVE  LoadIsCounted'
  BY <1>4, <1>8 DEF UpstreamReturns, FirstStep, TakeBefore, TakeAfter, Take, Respond, AfterRespond,
                    Done, Goto
<1>9. ASSUME NEW h \in Handlers, SendBefore(h) \/ SendAfter(h)
      PROVE  LoadIsCounted'
  BY <1>4, <1>5, <1>9 DEF SendBefore, SendAfter, SendNotify, AfterBefore, Done, Goto
<1> QED
  BY <1>2, <1>3, <1>5, <1>6, <1>7, <1>8, <1>9
  DEF Next, vars, Connection, Answer, CloseStopCh, Stopped, BindNotify, EndSession

-----------------------------------------------------------------------------
(* Every request in one place                                              *)

\* The places of a request, and that it has exactly one of them, or none before it is received.
With(s, id) == {h \in Handlers : Handling(h, s, id)}
InTasks(s, id) == {i \in DOMAIN tasks : tasks[i].s = s /\ tasks[i].id = id}

Placed(s, id) ==
  \/ InTasks(s, id) = {} /\ Answers(s, id) = {} /\ \E h \in Handlers : With(s, id) = {h}
  \/ With(s, id) = {} /\ Answers(s, id) = {} /\ \E i \in DOMAIN tasks : InTasks(s, id) = {i}
  \/ With(s, id) = {} /\ InTasks(s, id) = {} /\ \E i \in DOMAIN out[s] : Answers(s, id) = {i}

Absent(s, id) == With(s, id) = {} /\ InTasks(s, id) = {} /\ Answers(s, id) = {}

Places ==
  \A s \in Sessions : open[s] =>
    \A id \in Ids : IF id <= received[s] THEN Placed(s, id) ELSE Absent(s, id)

Works(h, location) ==
  location \in IF h \in Workers THEN Unanswered ELSE Unanswered \ {"takeBefore", "sendBefore"}

LEMMA WithKept ==
  ASSUME Typed, NEW h \in Handlers,
         \A g \in Handlers \ {h} : at'[g] = at[g] /\ job'[g] = job[g],
         Works(h, at[h]) <=> Works(h, at'[h]),
         Works(h, at[h]) => /\ job[h] \in Jobs /\ job'[h] \in Jobs
                            /\ job'[h].s = job[h].s /\ job'[h].id = job[h].id
  PROVE  \A s \in Sessions, id \in Ids : With(s, id)' = With(s, id)
  BY NoJobIsNone DEF With, Handling, Works

LEMMA WithLeft ==
  ASSUME Typed, NEW h \in Handlers,
         \A g \in Handlers \ {h} : at'[g] = at[g] /\ job'[g] = job[g],
         ~Works(h, at'[h])
  PROVE  \A s \in Sessions, id \in Ids : With(s, id)' = With(s, id) \ {h}
  BY DEF With, Handling, Works

\* A Goto leaves the others alone, and its handler works on its request before and behind it.
LEMMA GotoOthers ==
  ASSUME Typed, JobsMatch, NEW h \in Handlers, NEW from, NEW to, Goto(h, from, to)
  PROVE  /\ \A g \in Handlers \ {h} : at'[g] = at[g] /\ job'[g] = job[g]
         /\ at[h] = from /\ at'[h] = to
         /\ Works(h, from) => job[h] \in Jobs
         /\ Works(h, to) => job'[h] = job[h]
  BY DEF Goto, Typed, JobsMatch, Works, Unanswered

LEMMA GotoKeeps ==
  ASSUME Typed, JobsMatch, NEW h \in Handlers, NEW from, NEW to, Goto(h, from, to),
         Works(h, from) <=> Works(h, to)
  PROVE  \A s \in Sessions, id \in Ids : With(s, id)' = With(s, id)
  BY GotoOthers, WithKept

LEMMA GotoLeaves ==
  ASSUME Typed, JobsMatch, NEW h \in Handlers, NEW from, NEW to, Goto(h, from, to), ~Works(h, to)
  PROVE  \A s \in Sessions, id \in Ids : With(s, id)' = With(s, id) \ {h}
  BY GotoOthers, WithLeft

\* What one more message does to the answers.
LEMMA SentAnswers ==
  ASSUME Typed, NEW t \in Sessions, NEW m \in Messages, Sent(t, m),
         NEW s \in Sessions, open[s], NEW id \in Ids
  PROVE  /\ DOMAIN out[s] \subseteq DOMAIN out'[s]
         /\ IF s = t /\ m.kind \in {"response", "error"} /\ m.id = id
            THEN \E i \in DOMAIN out'[s] : Answers(s, id)' = Answers(s, id) \cup {i}
            ELSE Answers(s, id)' = Answers(s, id)
<1>1. CASE s # t
  BY <1>1 DEF Sent, Answers, Typed
<1>2. CASE s = t
  <2> DEFINE n == Len(out[s])
  <2>1. n \in Nat /\ out'[s] = Append(out[s], m) /\ DOMAIN out[s] = 1..n
    BY <1>2 DEF Sent, Typed
  <2>2. DOMAIN out'[s] = 1..(n + 1) /\ out'[s][n + 1] = m /\ \A i \in 1..n : out'[s][i] = out[s][i]
    BY <1>2, <2>1 DEF Typed
  <2>3. Answers(s, id)' = {i \in 1..(n + 1) : out'[s][i].kind \in {"response", "error"} /\ out'[s][i].id = id}
    BY <2>2 DEF Answers
  <2>4. Answers(s, id) = {i \in 1..n : out[s][i].kind \in {"response", "error"} /\ out[s][i].id = id}
    BY <2>1 DEF Answers
  <2>5. CASE m.kind \in {"response", "error"} /\ m.id = id
    <3>1. Answers(s, id)' = Answers(s, id) \cup {n + 1}
      BY <2>1, <2>2, <2>3, <2>4, <2>5
    <3>2. n + 1 \in DOMAIN out'[s] /\ DOMAIN out[s] \subseteq DOMAIN out'[s]
      BY <2>1, <2>2
    <3>3. \E i \in DOMAIN out'[s] : Answers(s, id)' = Answers(s, id) \cup {i}
      BY <3>1, <3>2
    <3> QED
      BY <1>2, <2>5, <3>2, <3>3
  <2>6. CASE ~(m.kind \in {"response", "error"} /\ m.id = id)
    <3>1. Answers(s, id)' = Answers(s, id)
      BY <2>1, <2>2, <2>3, <2>4, <2>6
    <3> QED
      BY <1>2, <2>1, <2>2, <2>6, <3>1
  <2> QED
    BY <2>5, <2>6
<1> QED
  BY <1>1, <1>2

\* What one more task, and one task less, does to the queue.
LEMMA QueuedTasks ==
  ASSUME Typed, NEW j \in Jobs, tasks' = Append(tasks, j), NEW s \in Sessions, NEW id \in Ids
  PROVE  /\ DOMAIN tasks \subseteq DOMAIN tasks'
         /\ IF j.s = s /\ j.id = id
            THEN \E i \in DOMAIN tasks' : InTasks(s, id)' = InTasks(s, id) \cup {i}
            ELSE InTasks(s, id)' = InTasks(s, id)
<1> DEFINE n == Len(tasks)
<1>1. n \in Nat /\ DOMAIN tasks = 1..n
  BY DEF Typed
<1>2. DOMAIN tasks' = 1..(n + 1) /\ tasks'[n + 1] = j /\ \A i \in 1..n : tasks'[i] = tasks[i]
  BY <1>1 DEF Typed
<1>3. InTasks(s, id)' = {i \in 1..(n + 1) : tasks'[i].s = s /\ tasks'[i].id = id}
  BY <1>2 DEF InTasks
<1>4. InTasks(s, id) = {i \in 1..n : tasks[i].s = s /\ tasks[i].id = id}
  BY <1>1 DEF InTasks
<1>5. CASE j.s = s /\ j.id = id
  <2>1. InTasks(s, id)' = InTasks(s, id) \cup {n + 1}
    BY <1>1, <1>2, <1>3, <1>4, <1>5
  <2> QED
    BY <1>1, <1>2, <1>5, <2>1
<1>6. CASE ~(j.s = s /\ j.id = id)
  <2>1. InTasks(s, id)' = InTasks(s, id)
    BY <1>1, <1>2, <1>3, <1>4, <1>6
  <2> QED
    BY <1>1, <1>2, <1>6, <2>1
<1> QED
  BY <1>5, <1>6

LEMMA TakenTasks ==
  ASSUME Typed, tasks # <<>>, tasks' = Tail(tasks), NEW s \in Sessions, NEW id \in Ids
  PROVE  /\ 1 \in InTasks(s, id) <=> (Head(tasks).s = s /\ Head(tasks).id = id)
         /\ InTasks(s, id) \in {{}, {1}} => InTasks(s, id)' = {}
         /\ \A i \in DOMAIN tasks :
              i # 1 /\ InTasks(s, id) = {i} =>
                i - 1 \in DOMAIN tasks' /\ InTasks(s, id)' = {i - 1}
<1> DEFINE n == Len(tasks)
<1>1. n \in Nat /\ n > 0 /\ DOMAIN tasks = 1..n /\ Head(tasks) = tasks[1]
  BY DEF Typed
<1>2. DOMAIN tasks' = 1..(n - 1) /\ \A i \in 1..(n - 1) : tasks'[i] = tasks[i + 1]
  BY <1>1 DEF Typed
<1>3. InTasks(s, id)' = {i \in 1..(n - 1) : tasks[i + 1].s = s /\ tasks[i + 1].id = id}
  BY <1>2 DEF InTasks
<1>4. InTasks(s, id) = {i \in 1..n : tasks[i].s = s /\ tasks[i].id = id}
  BY <1>1 DEF InTasks
<1>5. \A i : i \in InTasks(s, id)' <=> (i \in 1..(n - 1) /\ i + 1 \in InTasks(s, id))
  BY <1>1, <1>3, <1>4
<1>6. InTasks(s, id) \in {{}, {1}} => InTasks(s, id)' = {}
  BY <1>1, <1>5
<1>7. ASSUME NEW i \in DOMAIN tasks, i # 1, InTasks(s, id) = {i}
      PROVE  i - 1 \in DOMAIN tasks' /\ InTasks(s, id)' = {i - 1}
  BY <1>1, <1>2, <1>5, <1>7
<1> QED
  BY <1>1, <1>4, <1>6, <1>7

LEMMA MessageKinds ==
  /\ \A j \in Jobs : /\ Response(j).kind = "response" /\ Response(j).id = j.id
                     /\ ErrorFor(j).kind = "error" /\ ErrorFor(j).id = j.id
  /\ \A n \in Notifies : NotifyMsg(n).kind \notin {"response", "error"}
  BY FlowAssumption DEF Response, ErrorFor, NotifyMsg, Kinds

\* A step that leaves the three places of every request alone.
LEMMA PlacesKept ==
  ASSUME Places,
         \A s \in Sessions : open'[s] =>
           /\ open[s] /\ received'[s] = received[s]
           /\ DOMAIN out[s] \subseteq DOMAIN out'[s]
           /\ \A id \in Ids : Answers(s, id)' = Answers(s, id),
         \A s \in Sessions, id \in Ids : With(s, id)' = With(s, id),
         UNCHANGED tasks
  PROVE  Places'
<1> SUFFICES ASSUME NEW s \in Sessions, open'[s], NEW id \in Ids
             PROVE  IF id <= received'[s] THEN Placed(s, id)' ELSE Absent(s, id)'
  BY DEF Places
<1>1. open[s] /\ received'[s] = received[s] /\ DOMAIN out[s] \subseteq DOMAIN out'[s]
  OBVIOUS
<1>2. /\ Answers(s, id)' = Answers(s, id) /\ With(s, id)' = With(s, id)
      /\ InTasks(s, id)' = InTasks(s, id)
  BY <1>1 DEF InTasks
<1> QED
  BY <1>1, <1>2 DEF Places, Placed, Absent

\* A handler that works on a request has it all.
LEMMA WorkerHasIt ==
  ASSUME Typed, Places, NEW h \in Handlers, Works(h, at[h]), job[h] \in Jobs, open[job[h].s]
  PROVE  /\ job[h].id <= received[job[h].s]
         /\ With(job[h].s, job[h].id) = {h} /\ InTasks(job[h].s, job[h].id) = {}
         /\ Answers(job[h].s, job[h].id) = {}
<1>1. job[h].s \in Sessions /\ job[h].id \in Ids
  BY DEF Jobs
<1>2. h \in With(job[h].s, job[h].id)
  BY NoJobIsNone DEF With, Handling, Works
<1> QED
  BY <1>1, <1>2 DEF Places, Placed, Absent

LEMMA NotWithOthers ==
  ASSUME NEW h \in Handlers, NEW s \in Sessions, NEW id \in Ids, ~(job[h].s = s /\ job[h].id = id)
  PROVE  h \notin With(s, id)
  BY DEF With, Handling

\* Its handler answers a request and is done with it.
LEMMA PlacesAnswered ==
  ASSUME Typed, Places, NEW h \in Handlers, Works(h, at[h]), job[h] \in Jobs,
         \A s \in Sessions, id \in Ids : With(s, id)' = With(s, id) \ {h},
         NEW m \in {Response(job[h]), ErrorFor(job[h])}, Sent(job[h].s, m),
         UNCHANGED <<received, open, tasks>>
  PROVE  Places'
<1> SUFFICES ASSUME NEW s \in Sessions, open[s], NEW id \in Ids
             PROVE  IF id <= received[s] THEN Placed(s, id)' ELSE Absent(s, id)'
  BY DEF Places
<1>1. job[h].s \in Sessions /\ job[h].id \in Ids /\ m \in Messages
  BY MessageTypes DEF Jobs
<1>2. m.kind \in {"response", "error"} /\ m.id = job[h].id
  BY MessageKinds
<1>3. InTasks(s, id)' = InTasks(s, id)
  BY DEF InTasks
<1>4. /\ DOMAIN out[s] \subseteq DOMAIN out'[s]
      /\ IF job[h].s = s /\ job[h].id = id
         THEN \E i \in DOMAIN out'[s] : Answers(s, id)' = Answers(s, id) \cup {i}
         ELSE Answers(s, id)' = Answers(s, id)
  <2>1. /\ DOMAIN out[s] \subseteq DOMAIN out'[s]
        /\ IF s = job[h].s /\ m.kind \in {"response", "error"} /\ m.id = id
           THEN \E i \in DOMAIN out'[s] : Answers(s, id)' = Answers(s, id) \cup {i}
           ELSE Answers(s, id)' = Answers(s, id)
    BY <1>1, SentAnswers
  <2> QED
    BY <1>2, <2>1
<1>5. CASE job[h].s = s /\ job[h].id = id
  <2>1. PICK i \in DOMAIN out'[s] : Answers(s, id)' = Answers(s, id) \cup {i}
    BY <1>4, <1>5
  <2>2. id <= received[s] /\ With(s, id)' = {} /\ InTasks(s, id)' = {} /\ Answers(s, id)' = {i}
    BY <1>3, <1>5, <2>1, WorkerHasIt
  <2> QED
    BY <2>2 DEF Placed
<1>6. CASE ~(job[h].s = s /\ job[h].id = id)
  <2>1. Answers(s, id)' = Answers(s, id)
    BY <1>4, <1>6
  <2>2. With(s, id)' = With(s, id)
    <3>1. With(s, id)' = With(s, id) \ {h}
      OBVIOUS
    <3>2. h \notin With(s, id)
      BY <1>6, NotWithOthers
    <3> QED
      BY <3>1, <3>2
  <2> QED
    BY <1>3, <1>4, <2>1, <2>2 DEF Places, Placed, Absent
<1> QED
  BY <1>5, <1>6

\* It leaves a request whose session has ended.
LEMMA PlacesDropped ==
  ASSUME Typed, Places, NEW h \in Handlers, ~open[job[h].s],
         \A s \in Sessions, id \in Ids : With(s, id)' = With(s, id) \ {h},
         UNCHANGED <<received, open, tasks, out>>
  PROVE  Places'
<1> SUFFICES ASSUME NEW s \in Sessions, open[s], NEW id \in Ids
             PROVE  IF id <= received[s] THEN Placed(s, id)' ELSE Absent(s, id)'
  BY DEF Places
<1>1. With(s, id)' = With(s, id)
  BY NotWithOthers
<1>2. InTasks(s, id)' = InTasks(s, id) /\ Answers(s, id)' = Answers(s, id)
  BY DEF InTasks, Answers
<1> QED
  BY <1>1, <1>2 DEF Places, Placed, Absent

\* It hands a request to the queue.
LEMMA PlacesQueued ==
  ASSUME Typed, Places, NEW h \in Handlers, Works(h, at[h]), job[h] \in Jobs,
         \A s \in Sessions, id \in Ids : With(s, id)' = With(s, id) \ {h},
         tasks' = Append(tasks, job[h]), UNCHANGED <<received, open, out>>
  PROVE  Places'
<1> SUFFICES ASSUME NEW s \in Sessions, open[s], NEW id \in Ids
             PROVE  IF id <= received[s] THEN Placed(s, id)' ELSE Absent(s, id)'
  BY DEF Places
<1>1. Answers(s, id)' = Answers(s, id) /\ out' = out
  BY DEF Answers
<1>4. /\ DOMAIN tasks \subseteq DOMAIN tasks'
      /\ IF job[h].s = s /\ job[h].id = id
         THEN \E i \in DOMAIN tasks' : InTasks(s, id)' = InTasks(s, id) \cup {i}
         ELSE InTasks(s, id)' = InTasks(s, id)
  BY QueuedTasks
<1>2. CASE job[h].s = s /\ job[h].id = id
  <2>1. PICK i \in DOMAIN tasks' : InTasks(s, id)' = InTasks(s, id) \cup {i}
    BY <1>2, <1>4
  <2>2. id <= received[s] /\ With(s, id) = {h} /\ InTasks(s, id) = {} /\ Answers(s, id) = {}
    BY <1>2, WorkerHasIt
  <2>3. With(s, id)' = {} /\ Answers(s, id)' = {} /\ InTasks(s, id)' = {i}
    BY <1>1, <2>1, <2>2
  <2> QED
    BY <2>2, <2>3 DEF Placed
<1>3. CASE ~(job[h].s = s /\ job[h].id = id)
  <2>1. InTasks(s, id)' = InTasks(s, id)
    BY <1>3, <1>4
  <2>2. With(s, id)' = With(s, id)
    <3>1. With(s, id)' = With(s, id) \ {h}
      OBVIOUS
    <3>2. h \notin With(s, id)
      BY <1>3, NotWithOthers
    <3> QED
      BY <3>1, <3>2
  <2> QED
    BY <1>1, <1>4, <2>1, <2>2 DEF Places, Placed, Absent
<1> QED
  BY <1>2, <1>3

\* A worker takes the first task of the queue.
LEMMA PlacesTaken ==
  ASSUME Typed, Places, JobsMatch, NEW w \in Workers, TakeTask(w)
  PROVE  Places'
<1>1. /\ tasks # <<>> /\ tasks' = Tail(tasks) /\ UNCHANGED <<received, open, out>>
      /\ at[w] = "idle" /\ at'[w] = "calling" /\ job'[w] = Head(tasks) /\ w \in Handlers
      /\ \A g \in Handlers \ {w} : at'[g] = at[g] /\ job'[g] = job[g]
      /\ Head(tasks) \in Jobs
  BY DEF TakeTask, Taken, client, session, Typed, Handlers
<1> SUFFICES ASSUME NEW s \in Sessions, open[s], NEW id \in Ids
             PROVE  IF id <= received[s] THEN Placed(s, id)' ELSE Absent(s, id)'
  BY <1>1 DEF Places
<1>2. Answers(s, id)' = Answers(s, id) /\ DOMAIN out'[s] = DOMAIN out[s]
  BY <1>1 DEF Answers
<1>3. With(s, id)' = IF Head(tasks).s = s /\ Head(tasks).id = id
                     THEN With(s, id) \cup {w} ELSE With(s, id)
  BY <1>1, NoJobIsNone DEF With, Handling, Unanswered
<1>4. 1 \in InTasks(s, id) <=> (Head(tasks).s = s /\ Head(tasks).id = id)
  BY <1>1, TakenTasks
<1>5. CASE InTasks(s, id) = {}
  <2>1. InTasks(s, id)' = {} /\ With(s, id)' = With(s, id)
    BY <1>1, <1>3, <1>4, <1>5, TakenTasks
  <2> QED
    BY <1>2, <1>5, <2>1 DEF Places, Placed, Absent
<1>6. ASSUME NEW i \in DOMAIN tasks, InTasks(s, id) = {i}
      PROVE  IF id <= received[s] THEN Placed(s, id)' ELSE Absent(s, id)'
  <2>1. id <= received[s] /\ With(s, id) = {} /\ Answers(s, id) = {}
    BY <1>6 DEF Places, Placed, Absent
  <2>2. CASE i = 1
    <3>1. InTasks(s, id)' = {} /\ With(s, id)' = {w}
      BY <1>1, <1>3, <1>4, <1>6, <2>1, <2>2, TakenTasks
    <3> QED
      BY <1>1, <1>2, <2>1, <3>1 DEF Placed
  <2>3. CASE i # 1
    <3>1. i - 1 \in DOMAIN tasks' /\ InTasks(s, id)' = {i - 1} /\ With(s, id)' = {}
      BY <1>1, <1>3, <1>4, <1>6, <2>1, <2>3, TakenTasks
    <3> QED
      BY <1>2, <2>1, <3>1 DEF Placed
  <2> QED
    BY <2>2, <2>3
<1>7. InTasks(s, id) = {} \/ \E i \in DOMAIN tasks : InTasks(s, id) = {i}
  BY DEF Places, Placed, Absent
<1> QED
  BY <1>5, <1>6, <1>7

\* A connection reads a request: it rejects it, or works on it.
LEMMA PlacesReceived ==
  ASSUME Typed, Places, JobsMatch, NEW c \in Sessions, Receive(c)
  PROVE  Places'
<1>1. /\ received' = [received EXCEPT ![c] = received[c] + 1] /\ UNCHANGED <<open, tasks>>
      /\ received[c] + 1 \in Ids /\ received[c] \in Nat /\ received'[c] = received[c] + 1
      /\ at[c] = "idle" /\ c \in Handlers
  BY NextId DEF Receive, session, pool, Handlers, Typed
<1> DEFINE new == received[c] + 1
<1>2. PICK j \in [s : {c}, id : {new}, grid : Numbers, hello : BOOLEAN, owed : {{}}] :
        \/ at' = [at EXCEPT ![c] = "admitting"] /\ job' = [job EXCEPT ![c] = j] /\ UNCHANGED out
        \/ SendError(j) /\ UNCHANGED <<at, job>>
  BY <1>1 DEF Receive
<1>3. j \in Jobs /\ j.s = c /\ j.id = new
  BY <1>1 DEF Jobs
<1> SUFFICES ASSUME NEW s \in Sessions, open[s], NEW id \in Ids
             PROVE  IF id <= received'[s] THEN Placed(s, id)' ELSE Absent(s, id)'
  BY <1>1 DEF Places
<1>4. id \in Nat /\ received[s] \in Nat
  BY NumbersAreNat DEF Typed
<1>5. InTasks(s, id)' = InTasks(s, id)
  BY <1>1 DEF InTasks
<1>6. (s = c /\ id = new) => Absent(s, id)
  BY <1>1, <1>4 DEF Places
<1>7. ~(s = c /\ id = new) => (id <= received'[s] <=> id <= received[s])
  <2>1. s # c => received'[s] = received[s]
    BY <1>1 DEF Typed
  <2> QED
    BY <1>1, <1>4, <2>1
<1>8. CASE at' = [at EXCEPT ![c] = "admitting"] /\ job' = [job EXCEPT ![c] = j] /\ UNCHANGED out
  <2>1. /\ at'[c] = "admitting" /\ job'[c] = j /\ job'[c] # NoJob
        /\ \A g \in Handlers \ {c} : at'[g] = at[g] /\ job'[g] = job[g]
    BY <1>1, <1>3, <1>8, NoJobIsNone DEF Typed
  <2>2. With(s, id)' = IF s = c /\ id = new THEN With(s, id) \cup {c} ELSE With(s, id)
    BY <1>1, <1>3, <2>1 DEF With, Handling, Unanswered
  <2>3. Answers(s, id)' = Answers(s, id)
    BY <1>8 DEF Answers
  <2>4. CASE s = c /\ id = new
    <3>1. With(s, id)' = {c} /\ InTasks(s, id)' = {} /\ Answers(s, id)' = {} /\ id <= received'[s]
      BY <1>1, <1>4, <1>5, <1>6, <2>2, <2>3, <2>4 DEF Absent
    <3> QED
      BY <1>1, <3>1 DEF Placed
  <2>5. CASE ~(s = c /\ id = new)
    BY <1>1, <1>5, <1>7, <1>8, <2>2, <2>3, <2>5 DEF Places, Placed, Absent
  <2> QED
    BY <2>4, <2>5
<1>9. CASE SendError(j) /\ UNCHANGED <<at, job>>
  <2>1. With(s, id)' = With(s, id)
    BY <1>9 DEF With, Handling
  <2>2. ErrorFor(j) \in Messages /\ ErrorFor(j).kind = "error" /\ ErrorFor(j).id = new
        /\ Sent(c, ErrorFor(j))
    BY <1>3, <1>9, MessageTypes, MessageKinds DEF SendError
  <2>3. /\ DOMAIN out[s] \subseteq DOMAIN out'[s]
        /\ IF s = c /\ ErrorFor(j).kind \in {"response", "error"} /\ ErrorFor(j).id = id
           THEN \E i \in DOMAIN out'[s] : Answers(s, id)' = Answers(s, id) \cup {i}
           ELSE Answers(s, id)' = Answers(s, id)
    BY <2>2, SentAnswers
  <2>4. CASE s = c /\ id = new
    <3>1. PICK i \in DOMAIN out'[s] : Answers(s, id)' = Answers(s, id) \cup {i}
      BY <2>2, <2>3, <2>4
    <3>2. With(s, id)' = {} /\ InTasks(s, id)' = {} /\ Answers(s, id)' = {i} /\ id <= received'[s]
      BY <1>1, <1>4, <1>5, <1>6, <2>1, <2>4, <3>1 DEF Absent
    <3> QED
      BY <3>2 DEF Placed
  <2>5. CASE ~(s = c /\ id = new)
    <3>1. Answers(s, id)' = Answers(s, id)
      BY <2>2, <2>3, <2>5
    <3> QED
      BY <1>1, <1>5, <1>7, <2>1, <2>3, <2>5, <3>1 DEF Places, Placed, Absent
  <2> QED
    BY <2>4, <2>5
<1> QED
  BY <1>2, <1>8, <1>9

LEMMA PlacesStep == Typed /\ JobsMatch /\ Roles /\ Places /\ [Next]_vars => Places'
<1> SUFFICES ASSUME Typed, JobsMatch, Roles, Places, [Next]_vars
             PROVE  Places'
  OBVIOUS
<1> USE DEF client, session, notify, pool, Handlers
<1>0. Sessions \cap Workers = {}
  BY FlowAssumption
\* The handler works on its request before and behind the step, or neither, and says nothing.
<1>1. ASSUME NEW h \in Handlers, NEW from, NEW to, Goto(h, from, to), Works(h, from) <=> Works(h, to),
             UNCHANGED <<received, open, tasks, out>>
      PROVE  Places'
  <2>1. \A s \in Sessions, id \in Ids : With(s, id)' = With(s, id)
    BY <1>1, GotoKeeps
  <2> QED
    BY <1>1, <2>1, PlacesKept DEF Answers
\* It answers.
<1>2. ASSUME NEW h \in Handlers, NEW from, NEW to, Goto(h, from, to), Works(h, from), ~Works(h, to),
             NEW m \in {Response(job[h]), ErrorFor(job[h])}, Sent(job[h].s, m),
             UNCHANGED <<received, open, tasks>>
      PROVE  Places'
  <2>1. at[h] = from /\ job[h] \in Jobs
    BY <1>2, GotoOthers
  <2>2. \A s \in Sessions, id \in Ids : With(s, id)' = With(s, id) \ {h}
    BY <1>2, GotoLeaves
  <2> QED
    BY <1>2, <2>1, <2>2, PlacesAnswered
<1>3. ASSUME NEW s \in Sessions, AllowUpstreamRequest(s)
      PROVE  Places'
  <2>1. Works(s, "admitting") /\ Works(s, "counting") /\ ~Works(s, "idle")
    BY <1>0 DEF Works, Unanswered
  <2>2. CASE Goto(s, "admitting", "counting") /\ UNCHANGED out
    BY <1>1, <1>3, <2>1, <2>2 DEF AllowUpstreamRequest
  <2>3. CASE Goto(s, "admitting", "idle") /\ SendError(job[s])
    BY <1>2, <1>3, <2>1, <2>3 DEF AllowUpstreamRequest, SendError
  <2> QED
    BY <1>3, <2>2, <2>3 DEF AllowUpstreamRequest
<1>4. ASSUME NEW s \in Sessions, OnUpstreamStart(s)
      PROVE  Places'
  <2>1. Works(s, "counting") /\ Works(s, "calling") /\ Works(s, "submitting")
    BY <1>0 DEF Works, Unanswered
  <2> QED
    BY <1>1, <1>4, <2>1 DEF OnUpstreamStart
<1>5. ASSUME NEW s \in Sessions, SubmitTask(s)
      PROVE  Places'
  <2>1. Works(s, "submitting") /\ ~Works(s, "ending")
    BY <1>0 DEF Works, Unanswered
  <2>2. CASE tasks' = Append(tasks, job[s]) /\ UNCHANGED out
    <3>1. at[s] = "submitting" /\ job[s] \in Jobs
      BY <1>5, <2>1, GotoOthers DEF SubmitTask
    <3>2. \A t \in Sessions, id \in Ids : With(t, id)' = With(t, id) \ {s}
      BY <1>5, <2>1, GotoLeaves DEF SubmitTask
    <3> QED
      BY <1>5, <2>1, <2>2, <3>1, <3>2, PlacesQueued DEF SubmitTask
  <2>3. CASE SendError(job[s]) /\ UNCHANGED tasks
    BY <1>2, <1>5, <2>1, <2>3 DEF SubmitTask, SendError
  <2> QED
    BY <1>5, <2>2, <2>3 DEF SubmitTask, Queued
<1>6. ASSUME NEW s \in Sessions, OnUpstreamEnd(s)
      PROVE  Places'
  <2>1. ~Works(s, "ending") /\ ~Works(s, "idle")
    BY DEF Works, Unanswered
  <2> QED
    BY <1>1, <1>6, <2>1 DEF OnUpstreamEnd
<1>7. ASSUME NEW w \in Workers, StopWorker(w)
      PROVE  Places'
  <2>1. ~Works(w, "gone") /\ ~Works(w, "idle")
    BY DEF Works, Unanswered
  <2> QED
    BY <1>1, <1>7, <2>1 DEF StopWorker
<1>8. ASSUME NEW h \in Handlers, UpstreamReturns(h)
      PROVE  Places'
  <2>1. Works(h, "calling") /\ Works(h, FirstStep(h)) /\ ~Works(h, Done(h))
    BY <1>0 DEF Works, Unanswered, FirstStep, Done
  <2>2. CASE Goto(h, "calling", Done(h)) /\ SendError(job[h])
    BY <1>2, <1>8, <2>1, <2>2 DEF UpstreamReturns, SendError
  <2>3. CASE /\ at[h] = "calling" /\ at' = [at EXCEPT ![h] = FirstStep(h)]
             /\ job' = [job EXCEPT ![h].owed =
                          ToSet(BoundTo(job[h], "before")) \cup ToSet(BoundTo(job[h], "after"))]
             /\ UNCHANGED out
    <3> DEFINE owed == ToSet(BoundTo(job[h], "before")) \cup ToSet(BoundTo(job[h], "after"))
    <3>1. job[h] \in Jobs /\ at'[h] = FirstStep(h)
      BY <2>3 DEF JobsMatch, Typed
    <3>2. /\ \A g \in Handlers \ {h} : at'[g] = at[g] /\ job'[g] = job[g]
          /\ job'[h] = [job[h] EXCEPT !.owed = owed]
      BY <2>3 DEF Typed
    <3>3. job'[h].s = job[h].s /\ job'[h].id = job[h].id
      BY <3>1, <3>2 DEF Jobs
    <3>4. job'[h] \in Jobs
      <4>1. JobsMatch'
        BY JobsStep
      <4>2. FirstStep(h) \notin {"idle", "ending", "gone"}
        BY DEF FirstStep
      <4> QED
        BY <3>1, <4>1, <4>2 DEF JobsMatch
    <3>5. \A s \in Sessions, id \in Ids : With(s, id)' = With(s, id)
      BY ZenonT(60), <2>1, <2>3, <3>1, <3>2, <3>3, <3>4, WithKept
    <3> QED
      BY <1>8, <2>3, <3>5, PlacesKept DEF UpstreamReturns, Answers
  <2> QED
    BY <1>8, <2>2, <2>3 DEF UpstreamReturns
<1>9. ASSUME NEW s \in Sessions, HandleLogin(s)
      PROVE  Places'
  <2>1. Works(s, "login") /\ Works(s, "respond") /\ ~Works(s, "ending")
    BY <1>0 DEF Works, Unanswered
  <2>2. CASE Goto(s, "login", "respond") /\ UNCHANGED out
    BY <1>1, <1>9, <2>1, <2>2 DEF HandleLogin
  <2>3. CASE Goto(s, "login", "ending") /\ SendError(job[s])
    BY <1>2, <1>9, <2>1, <2>3 DEF HandleLogin, SendError
  <2> QED
    BY <1>9, <2>2, <2>3 DEF HandleLogin
<1>10. ASSUME NEW h \in Handlers, TakeBefore(h) \/ TakeAfter(h)
       PROVE  Places'
  <2>1. /\ Works(h, "takeBefore") <=> Works(h, "sendBefore")
        /\ ~Works(h, "takeAfter") /\ ~Works(h, "sendAfter")
    BY DEF Works, Unanswered
  <2> QED
    BY <1>1, <1>10, <2>1 DEF TakeBefore, TakeAfter, Take
<1>11. ASSUME NEW h \in Handlers, SendBefore(h) \/ SendAfter(h)
       PROVE  Places'
  <2>1. PICK from, next, failed :
          /\ SendNotify(h, from, next, failed) /\ from \in {"sendBefore", "sendAfter"}
          /\ Works(h, from) <=> Works(h, next)
          /\ Works(h, from) <=> Works(h, failed)
    BY <1>0, <1>11 DEF SendBefore, SendAfter, AfterBefore, Done, Works, Unanswered
  <2>2. CASE at[h] = from /\ list[h] # <<>> /\ Sent(job[h].s, NotifyMsg(Head(list[h])))
             /\ UNCHANGED <<at, job>>
    <3> DEFINE m == NotifyMsg(Head(list[h]))
    <3>1. job[h] \in Jobs /\ Head(list[h]) \in Notifies
      <4>1. job[h] \in Jobs
        BY <2>1, <2>2 DEF JobsMatch
      <4>2. list[h] \in Seq(Notifies) /\ list[h] # <<>>
        BY <2>2 DEF Typed
      <4> QED
        BY <4>1, <4>2
    <3>2. job[h].s \in Sessions /\ m \in Messages /\ m.kind \notin {"response", "error"}
      BY <3>1, MessageTypes, MessageKinds DEF Jobs
    <3>3. ASSUME NEW s \in Sessions, open[s], NEW id \in Ids
          PROVE  DOMAIN out[s] \subseteq DOMAIN out'[s] /\ Answers(s, id)' = Answers(s, id)
      BY <2>2, <3>2, <3>3, SentAnswers
    <3>4. \A s \in Sessions, id \in Ids : With(s, id)' = With(s, id)
      BY <2>2 DEF With, Handling
    <3>5. \A s \in Sessions : open[s] => DOMAIN out[s] \subseteq DOMAIN out'[s]
      BY <2>2, <3>2 DEF Sent, Typed
    <3> QED
      BY <2>1, <3>3, <3>4, <3>5, PlacesKept DEF SendNotify
  <2>3. CASE Goto(h, from, next) /\ UNCHANGED out
    BY <1>1, <2>1, <2>3 DEF SendNotify
  <2>4. CASE Goto(h, from, failed) /\ UNCHANGED out
    BY <1>1, <2>1, <2>4 DEF SendNotify
  <2> QED
    BY <2>1, <2>2, <2>3, <2>4 DEF SendNotify, NotSent
<1>12. ASSUME NEW h \in Handlers, Respond(h)
       PROVE  Places'
  <2>1. Works(h, "respond") /\ ~Works(h, AfterRespond(h)) /\ ~Works(h, Done(h))
    BY <1>0 DEF Works, Unanswered, AfterRespond, Done
  <2>2. CASE Goto(h, "respond", AfterRespond(h)) /\ Sent(job[h].s, Response(job[h]))
    BY <1>2, <1>12, <2>1, <2>2 DEF Respond
  <2>3. CASE Goto(h, "respond", Done(h)) /\ NotSent(job[h].s)
    <3>1. \A s \in Sessions, id \in Ids : With(s, id)' = With(s, id) \ {h}
      BY <2>1, <2>3, GotoLeaves
    <3> QED
      BY <1>12, <2>3, <3>1, PlacesDropped DEF Respond, NotSent
  <2> QED
    BY <1>12, <2>2, <2>3 DEF Respond
<1>13. CASE UNCHANGED <<received, at, job, out, tasks>> /\ \A s \in Sessions : open'[s] => open[s]
  BY <1>13, PlacesKept DEF With, Handling, Answers
<1>14. ASSUME NEW s \in Sessions, EndSession(s)
       PROVE  Places'
  BY <1>13, <1>14 DEF EndSession, Typed
<1>15. CASE UNCHANGED <<received, at, job, out, tasks, open>>
  BY <1>13, <1>15
<1> QED
  BY <1>3, <1>4, <1>5, <1>6, <1>7, <1>8, <1>9, <1>10, <1>11, <1>12, <1>14, <1>15, PlacesReceived,
     PlacesTaken
  DEF Next, vars, Connection, Worker, Answer, CloseStopCh, Stopped, BindNotify

-----------------------------------------------------------------------------
(* The theorems                                                            *)

FlowInv == Typed /\ JobsMatch /\ Roles /\ LoadIsCounted /\ Places

LEMMA InitInv == Init => FlowInv
<1> SUFFICES ASSUME Init
             PROVE  FlowInv
  OBVIOUS
<1> USE DEF Init
<1>1. Typed
  <2>1. maxSeq \in [Sessions -> Numbers] /\ received \in [Sessions -> Numbers]
    <3>1. ASSUME NEW s \in Sessions
          PROVE  1 \in Numbers
      BY FlowAssumption DEF Numbers, Ids
    <3> QED
      BY <3>1 DEF Numbers
  <2>2. /\ at \in [Handlers -> Locations] /\ job \in [Handlers -> Jobs \cup {NoJob}]
        /\ list \in [Handlers -> Seq(Notifies)]
    BY DEF Locations
  <2>3. /\ out \in [Sessions -> Seq(Messages)] /\ tasks \in Seq(Jobs) /\ Len(tasks) <= QueueSize
        /\ bound \in [Sessions \X Kinds \X Numbers -> Seq(Notifies)]
    <3>1. <<>> \in Seq(Messages) /\ <<>> \in Seq(Jobs) /\ <<>> \in Seq(Notifies) /\ Len(<<>>) = 0
      OBVIOUS
    <3> QED
      BY <3>1, FlowAssumption
  <2> QED
    BY <2>1, <2>2, <2>3 DEF Typed
<1>2. JobsMatch /\ Roles
  BY FlowAssumption, NoJobIsNone DEF JobsMatch, Roles, Handlers
<1>3. LoadIsCounted
  <2>1. {s \in Sessions : at[s] \notin {"idle", "admitting", "counting", "gone"}} = {}
    BY DEF Handlers
  <2> QED
    BY <2>1, FS_EmptySet DEF LoadIsCounted
<1>4. Places
  <2> SUFFICES ASSUME NEW s \in Sessions, NEW id \in Ids
               PROVE  ~(id <= received[s]) /\ Absent(s, id)
    BY DEF Places
  <2>1. ~(id <= received[s])
    BY FlowAssumption DEF Ids
  <2> QED
    BY <2>1 DEF Absent, With, Handling, InTasks, Answers, Unanswered
<1> QED
  BY <1>1, <1>2, <1>3, <1>4 DEF FlowInv

\* What the theorems below take their properties from.
THEOREM InvariantHolds == Spec => []FlowInv
<1>1. Init => FlowInv
  BY InitInv
<1>2. FlowInv /\ [Next]_vars => FlowInv'
  BY TypeStep, JobsStep, LoadStep, PlacesStep DEF FlowInv
<1> QED
  BY <1>1, <1>2, PTL DEF Spec

\* The types of the variables; that there are never more calls upstream than connections is
\* what the count of the protector adds.
THEOREM TypeCorrect == Spec => []TypeOK
<1>1. FlowInv => TypeOK
  <2> SUFFICES ASSUME FlowInv
               PROVE  TypeOK
    OBVIOUS
  <2>1. active \in Nat /\ active <= Cardinality(Sessions) /\ Cardinality(Sessions) \in Nat
    BY FlowAssumption, FS_Subset, FS_CardinalityType DEF FlowInv, LoadIsCounted
  <2> QED
    BY <2>1 DEF FlowInv, Typed, TypeOK
<1> QED
  BY <1>1, InvariantHolds, PTL

\* upstreamActive is exact on every path through handleBusinessRequest.
THEOREM LoadIsExact == Spec => []LoadIsCounted
<1>1. FlowInv => LoadIsCounted
  BY DEF FlowInv
<1> QED
  BY <1>1, InvariantHolds, PTL

\* However connections and workers interleave, a request of an open session is with one
\* handler, once in the task queue, or answered once.
THEOREM RequestsArePlaced == Spec => []OnePlace
<1>1. FlowInv => OnePlace
  <2> SUFFICES ASSUME FlowInv, NEW s \in Sessions, open[s], NEW id \in 1..received[s]
               PROVE  Cardinality(With(s, id)) + Cardinality(InTasks(s, id))
                        + Cardinality(Answers(s, id)) = 1
    BY DEF OnePlace, With, InTasks
  <2>1. id \in Ids /\ id <= received[s]
    <3>0. received[s] \in Numbers
      BY DEF FlowInv, Typed
    <3>1. received[s] \in Nat /\ received[s] # 0
      <4>1. received[s] \in Nat
        BY <3>0, NumbersAreNat
      <4>2. id \in Int /\ 1 <= id /\ id <= received[s]
        BY <4>1
      <4> QED
        BY <4>1, <4>2
    <3>2. PICK t \in Sessions : received[s] \in 1..MaxRequests[t]
      BY <3>0, <3>1 DEF Numbers, Ids
    <3>3. MaxRequests[t] \in Nat
      BY FlowAssumption
    <3>4. id \in 1..MaxRequests[t] /\ id <= received[s]
      BY <3>1, <3>2, <3>3
    <3> QED
      BY <3>4 DEF Ids
  <2>2. Placed(s, id)
    BY <2>1 DEF FlowInv, Places
  <2>3. Cardinality({}) = 0
    BY FS_EmptySet
  <2>4. ASSUME NEW x
        PROVE  Cardinality({x}) = 1
    BY FS_Singleton
  <2>5. CASE InTasks(s, id) = {} /\ Answers(s, id) = {} /\ \E h \in Handlers : With(s, id) = {h}
    <3>1. Cardinality(With(s, id)) = 1
      BY <2>4, <2>5
    <3>2. Cardinality(InTasks(s, id)) = 0 /\ Cardinality(Answers(s, id)) = 0
      BY <2>3, <2>5
    <3> QED
      BY <3>1, <3>2
  <2>6. CASE With(s, id) = {} /\ Answers(s, id) = {} /\ \E i \in DOMAIN tasks : InTasks(s, id) = {i}
    <3>1. Cardinality(InTasks(s, id)) = 1
      BY <2>4, <2>6
    <3>2. Cardinality(With(s, id)) = 0 /\ Cardinality(Answers(s, id)) = 0
      BY <2>3, <2>6
    <3> QED
      BY <3>1, <3>2
  <2>7. CASE With(s, id) = {} /\ InTasks(s, id) = {} /\ \E i \in DOMAIN out[s] : Answers(s, id) = {i}
    <3>1. Cardinality(Answers(s, id)) = 1
      BY <2>4, <2>7
    <3>2. Cardinality(With(s, id)) = 0 /\ Cardinality(InTasks(s, id)) = 0
      BY <2>3, <2>7
    <3> QED
      BY <3>1, <3>2
  <2> QED
    BY <2>2, <2>5, <2>6, <2>7 DEF Placed
<1> QED
  BY <1>1, InvariantHolds, PTL

-----------------------------------------------------------------------------
(* Notifies around their response                                          *)

\* Two requests of one session have different ids and, once its numbers count,
\* different numbers.
Distinct(j, k) == j.s = k.s => j.id # k.id /\ (j.grid = k.grid => j.grid = 0)
InPlay(j, read, numbers) == j.id <= read[j.s] /\ j.grid <= numbers[j.s]

JobsApart ==
  /\ \A h \in Handlers : job[h] \in Jobs => InPlay(job[h], received, maxSeq)
  /\ \A i \in DOMAIN tasks : InPlay(tasks[i], received, maxSeq)
  /\ \A h, g \in Handlers :
       h # g /\ job[h] \in Jobs /\ job[g] \in Jobs => Distinct(job[h], job[g])
  /\ \A h \in Handlers, i \in DOMAIN tasks :
       job[h] \in Jobs => Distinct(job[h], tasks[i])
  /\ \A i, k \in DOMAIN tasks : i # k => Distinct(tasks[i], tasks[k])

\* Where a notify is: bound to its request, taken by a handler, or on the stream.
Key(n) == <<n.s, n.kind, n.grid>>
IsBound(n) == n \in ToSet(bound[Key(n)])
Listed(h, n) == n \in ToSet(list[h])
OnStream(n) == IsSent(n.s, NotifyMsg(n))

\* It is in one of these places at most, and a handler has taken it for its own request.
NotifiesPlaced ==
  /\ \A n \in Notifies : IsBound(n) \/ OnStream(n) => n \in everBound
  /\ \A n \in Notifies : IsBound(n) => ~OnStream(n) /\ \A h \in Handlers : ~Listed(h, n)
  /\ \A h \in Handlers, n \in Notifies : Listed(h, n) =>
       /\ n \in everBound /\ ~OnStream(n)
       /\ at[h] \in {"sendBefore", "sendAfter"} /\ n.s = job[h].s /\ n.grid = job[h].grid
  /\ \A k \in DOMAIN bound, n \in Notifies : n \in ToSet(bound[k]) => k = Key(n)
  /\ \A k \in DOMAIN bound : IsInjective(bound[k])
  /\ \A h \in Handlers : IsInjective(list[h])

\* A notify that was bound when upstream answered is on its way until the worker
\* has sent it.
OnItsWay(w, n) ==
  /\ n.s = job[w].s /\ n.grid = job[w].grid
  /\ n.kind = "before" =>
       \/ at[w] = "takeBefore" /\ IsBound(n)
       \/ at[w] = "sendBefore" /\ Listed(w, n)
       \/ at[w] # "takeBefore" /\ OnStream(n)
  /\ n.kind = "after" =>
       \/ at[w] # "sendAfter" /\ IsBound(n)
       \/ at[w] = "sendAfter" /\ (Listed(w, n) \/ OnStream(n))

\* Once the response is sent, it stands between those of kind before and of kind after.
Responding == {"takeBefore", "sendBefore", "respond", "takeAfter", "sendAfter"}
Between(w, n) ==
  \A i, k \in DOMAIN out[n.s] :
    out[n.s][i] = NotifyMsg(n) /\ out[n.s][k] = Response(job[w]) =>
      (n.kind = "before" <=> i < k)

OwedKept ==
  \A w \in Workers : at[w] \in Responding /\ open[job[w].s] =>
    /\ \A n \in job[w].owed : OnItsWay(w, n)
    /\ at[w] \in {"takeAfter", "sendAfter"} =>
         /\ IsSent(job[w].s, Response(job[w]))
         /\ \A n \in job[w].owed : Between(w, n)

-----------------------------------------------------------------------------
(* Requests stay apart                                                     *)

SameRequest(j, k) == j.s = k.s /\ j.id = k.id /\ j.grid = k.grid

\* A handler that forgets its request, or learns what is owed with it, disturbs nothing.
LEMMA ApartKept ==
  ASSUME JobsApart, UNCHANGED <<client, tasks>>,
         \A h \in Handlers : job'[h] \in Jobs => job[h] \in Jobs /\ SameRequest(job'[h], job[h])
  PROVE  JobsApart'
  BY DEF JobsApart, InPlay, Distinct, SameRequest, client

LEMMA GotoApart ==
  ASSUME Typed, JobsApart, UNCHANGED <<client, tasks>>,
         NEW h \in Handlers, NEW from, NEW to, Goto(h, from, to)
  PROVE  JobsApart'
<1>1. ASSUME NEW g \in Handlers, job'[g] \in Jobs
      PROVE  job'[g] = job[g]
  BY <1>1, NoJobIsNone DEF Goto, Typed
<1> QED BY <1>1, ApartKept DEF SameRequest

\* A request that is accepted has an id and a number of its own.
LEMMA ReceiveApart ==
  ASSUME Typed, JobsMatch, JobsApart, NEW s \in Sessions, Receive(s)
  PROVE  JobsApart'
<1>1. received[s] \in Nat /\ received' = [received EXCEPT ![s] = received[s] + 1]
  BY NextId DEF Receive
<1>2. PICK j \in [s : {s}, id : {received[s] + 1}, grid : Numbers, hello : BOOLEAN, owed : {{}}] :
        \/ InSequence(s, j.grid) /\ job' = [job EXCEPT ![s] = j]
           /\ maxSeq' = [maxSeq EXCEPT ![s] = j.grid]
        \/ UNCHANGED job
           /\ maxSeq' = [maxSeq EXCEPT ![s] = IF InSequence(s, j.grid) THEN j.grid ELSE @]
        \/ UNCHANGED <<job, maxSeq>>
  BY DEF Receive
<1>3. /\ j.s = s /\ j.id = received[s] + 1 /\ j.grid \in Nat /\ UNCHANGED tasks
      /\ received \in [Sessions -> Nat] /\ maxSeq \in [Sessions -> Nat]
  BY NumbersAreNat DEF Receive, pool, Typed
<1>4. InSequence(s, j.grid) => maxSeq[s] = 0 \/ j.grid = maxSeq[s] + 1
  BY DEF InSequence
<1>5. \A t \in Sessions : received[t] <= received'[t]
  BY <1>1, <1>3
<1>6. \A t \in Sessions : maxSeq'[t] \in Nat /\ maxSeq[t] <= maxSeq'[t]
  <2>1. maxSeq' = maxSeq \/ (InSequence(s, j.grid) /\ maxSeq' = [maxSeq EXCEPT ![s] = j.grid])
    BY <1>2, <1>3
  <2> QED BY <1>3, <1>4, <2>1
<1>7. ASSUME NEW k \in Jobs, InPlay(k, received, maxSeq)
      PROVE  InPlay(k, received', maxSeq')
  <2>1. /\ k.s \in Sessions /\ k.id \in Nat /\ k.grid \in Nat
        /\ k.id <= received[k.s] /\ k.grid <= maxSeq[k.s]
    BY <1>7, NumbersAreNat DEF Jobs, InPlay
  <2>2. received'[k.s] \in Nat
    BY <1>1, <1>3, <2>1
  <2>3. k.id <= received'[k.s] /\ k.grid <= maxSeq'[k.s]
    BY <1>3, <1>5, <1>6, <2>1, <2>2
  <2> QED BY <2>3 DEF InPlay
<1>8. \A i \in DOMAIN tasks : tasks[i] \in Jobs
  BY DEF Typed
<1>9. CASE UNCHANGED job
  BY <1>3, <1>7, <1>8, <1>9 DEF JobsApart, Distinct
<1>10. CASE InSequence(s, j.grid) /\ job' = [job EXCEPT ![s] = j]
            /\ maxSeq' = [maxSeq EXCEPT ![s] = j.grid]
  <2>1. ASSUME NEW k \in Jobs, InPlay(k, received, maxSeq)
        PROVE  Distinct(j, k) /\ Distinct(k, j)
    <3> SUFFICES ASSUME k.s = s
                 PROVE  j.id # k.id /\ (j.grid = k.grid => j.grid = 0)
      BY <1>3 DEF Distinct
    <3>1. /\ k.id \in Nat /\ k.grid \in Nat
          /\ k.id <= received[s] /\ k.grid <= maxSeq[s] /\ maxSeq[s] \in Nat
      BY <1>3, <2>1, NumbersAreNat DEF Jobs, InPlay
    <3>2. j.id # k.id
      BY <1>1, <1>3, <3>1
    <3>3. j.grid = k.grid => j.grid = 0
      BY <1>3, <1>4, <1>10, <3>1
    <3> QED BY <3>2, <3>3
  <2>2. InPlay(j, received', maxSeq')
    <3>1. received'[s] = received[s] + 1 /\ maxSeq'[s] = j.grid
      BY <1>1, <1>3, <1>10
    <3> QED BY <1>1, <1>3, <3>1 DEF InPlay
  <2>3. /\ job'[s] = j /\ \A h \in Handlers \ {s} : job'[h] = job[h]
    BY <1>10 DEF Typed, Handlers
  <2>4. \A h \in Handlers : job'[h] \in Jobs => InPlay(job'[h], received', maxSeq')
    BY <1>7, <2>2, <2>3 DEF JobsApart
  <2>5. \A i \in DOMAIN tasks' : InPlay(tasks'[i], received', maxSeq')
    BY <1>3, <1>7, <1>8 DEF JobsApart
  <2>6. \A h, g \in Handlers :
          h # g /\ job'[h] \in Jobs /\ job'[g] \in Jobs => Distinct(job'[h], job'[g])
    BY <2>1, <2>3 DEF JobsApart
  <2>7. \A h \in Handlers, i \in DOMAIN tasks' :
          job'[h] \in Jobs => Distinct(job'[h], tasks'[i])
    BY <1>3, <1>8, <2>1, <2>3 DEF JobsApart
  <2>8. \A i, k \in DOMAIN tasks' : i # k => Distinct(tasks'[i], tasks'[k])
    BY <1>3 DEF JobsApart
  <2> QED BY <2>4, <2>5, <2>6, <2>7, <2>8 DEF JobsApart, Distinct
<1> QED BY <1>2, <1>9, <1>10

\* Handing a request over through the queue keeps it apart from the others.
LEMMA SubmitApart ==
  ASSUME Typed, JobsMatch, JobsApart, NEW s \in Sessions, SubmitTask(s)
  PROVE  JobsApart'
<1>1. /\ s \in Handlers /\ job[s] \in Jobs /\ job'[s] = NoJob
      /\ \A h \in Handlers \ {s} : job'[h] = job[h]
      /\ UNCHANGED client
  BY DEF SubmitTask, Goto, JobsMatch, Typed, Handlers
<1>2. CASE UNCHANGED tasks
  BY <1>2, GotoApart DEF SubmitTask, Handlers
<1>3. CASE tasks' = Append(tasks, job[s])
  <2> DEFINE n == Len(tasks)
  <2>1. /\ n \in Nat /\ DOMAIN tasks = 1..n /\ DOMAIN tasks' = 1..(n + 1)
        /\ tasks'[n + 1] = job[s] /\ \A i \in 1..n : tasks'[i] = tasks[i]
    BY <1>1, <1>3 DEF Typed
  <2>2. \A i \in DOMAIN tasks' : i # n + 1 => i \in DOMAIN tasks
    BY <2>1
  <2> HIDE DEF n
  <2>3. \A k : InPlay(k, received', maxSeq') <=> InPlay(k, received, maxSeq)
    BY <1>1 DEF InPlay, client
  <2>4. \A h \in Handlers : job'[h] \in Jobs => h # s /\ job[h] \in Jobs /\ job'[h] = job[h]
    BY <1>1, NoJobIsNone
  <2>5. \A i \in DOMAIN tasks' : InPlay(tasks'[i], received', maxSeq')
    BY <1>1, <2>1, <2>2, <2>3 DEF JobsApart
  <2>6. \A h \in Handlers, i \in DOMAIN tasks' :
          job'[h] \in Jobs => Distinct(job'[h], tasks'[i])
    BY <1>1, <2>1, <2>2, <2>4 DEF JobsApart
  <2>7. \A i, k \in DOMAIN tasks' : i # k => Distinct(tasks'[i], tasks'[k])
    <3>1. \A i \in DOMAIN tasks : Distinct(tasks[i], job[s]) /\ Distinct(job[s], tasks[i])
      BY <1>1 DEF JobsApart, Distinct
    <3> QED BY <2>1, <2>2, <3>1 DEF JobsApart
  <2>8. /\ \A h \in Handlers : job'[h] \in Jobs => InPlay(job'[h], received', maxSeq')
        /\ \A h, g \in Handlers :
             h # g /\ job'[h] \in Jobs /\ job'[g] \in Jobs => Distinct(job'[h], job'[g])
    BY <2>3, <2>4 DEF JobsApart
  <2> QED BY <2>5, <2>6, <2>7, <2>8 DEF JobsApart, Distinct
<1> QED BY <1>2, <1>3 DEF SubmitTask, Queued

LEMMA TakeApart ==
  ASSUME Typed, JobsApart, NEW w \in Workers, TakeTask(w)
  PROVE  JobsApart'
<1>1. /\ w \in Handlers /\ tasks # <<>> /\ tasks' = Tail(tasks) /\ UNCHANGED client
      /\ job' = [job EXCEPT ![w] = Head(tasks)]
  BY DEF TakeTask, Taken, Handlers
<1>2. /\ 1 \in DOMAIN tasks /\ job'[w] = tasks[1]
      /\ \A h \in Handlers \ {w} : job'[h] = job[h]
      /\ \A i \in DOMAIN tasks' : i \in Nat /\ i + 1 \in DOMAIN tasks /\ i + 1 # 1
                                  /\ tasks'[i] = tasks[i + 1]
  BY <1>1 DEF Typed
<1>3. \A k : InPlay(k, received', maxSeq') <=> InPlay(k, received, maxSeq)
  BY <1>1 DEF InPlay, client
<1>4. \A i \in DOMAIN tasks' : InPlay(tasks'[i], received', maxSeq')
  BY <1>2, <1>3 DEF JobsApart
<1>5. \A h \in Handlers : job'[h] \in Jobs => InPlay(job'[h], received', maxSeq')
  BY <1>2, <1>3 DEF JobsApart
<1>6. \A h, g \in Handlers :
        h # g /\ job'[h] \in Jobs /\ job'[g] \in Jobs => Distinct(job'[h], job'[g])
  <2>1. \A h \in Handlers : job[h] \in Jobs =>
          Distinct(job[h], tasks[1]) /\ Distinct(tasks[1], job[h])
    BY <1>2 DEF JobsApart, Distinct
  <2> QED BY <1>2, <2>1 DEF JobsApart
<1>7. \A h \in Handlers, i \in DOMAIN tasks' :
        job'[h] \in Jobs => Distinct(job'[h], tasks'[i])
  BY <1>2 DEF JobsApart
<1>8. \A i, k \in DOMAIN tasks' : i # k => Distinct(tasks'[i], tasks'[k])
  <2>1. ASSUME NEW i \in DOMAIN tasks', NEW k \in DOMAIN tasks', i # k
        PROVE  Distinct(tasks'[i], tasks'[k])
    <3>1. /\ i + 1 \in DOMAIN tasks /\ k + 1 \in DOMAIN tasks /\ i + 1 # k + 1
          /\ tasks'[i] = tasks[i + 1] /\ tasks'[k] = tasks[k + 1]
      BY <1>2, <2>1
    <3> QED BY <3>1 DEF JobsApart
  <2> QED BY <2>1
<1> QED BY <1>4, <1>5, <1>6, <1>7, <1>8 DEF JobsApart, Distinct

\* When upstream answers, the request takes its notifies on, and is the same.
LEMMA OwedTaken ==
  ASSUME Typed, JobsMatch, NEW h \in Handlers, UpstreamReturns(h),
         at' = [at EXCEPT ![h] = FirstStep(h)],
         job' = [job EXCEPT ![h].owed =
                   ToSet(BoundTo(job[h], "before")) \cup ToSet(BoundTo(job[h], "after"))]
  PROVE  /\ SameRequest(job'[h], job[h])
         /\ job'[h].owed = ToSet(BoundTo(job[h], "before")) \cup ToSet(BoundTo(job[h], "after"))
         /\ \A g \in Handlers \ {h} : job'[g] = job[g]
<1> DEFINE owed == ToSet(BoundTo(job[h], "before")) \cup ToSet(BoundTo(job[h], "after"))
<1> HIDE DEF owed
<1>1. job[h] \in Jobs
  BY DEF UpstreamReturns, Goto, JobsMatch
<1>2. job' = [job EXCEPT ![h] = [job[h] EXCEPT !.owed = owed]]
  BY DEF Typed, owed
<1>3. job'[h] = [job[h] EXCEPT !.owed = owed]
  BY <1>2 DEF Typed
<1>4. /\ job'[h].s = job[h].s /\ job'[h].id = job[h].id /\ job'[h].grid = job[h].grid
      /\ job'[h].owed = owed
  BY <1>1, <1>3 DEF Jobs
<1>5. \A g \in Handlers \ {h} : job'[g] = job[g]
  BY <1>2 DEF Typed
<1> QED BY <1>4, <1>5 DEF SameRequest, owed

LEMMA ApartStep == Typed /\ JobsMatch /\ JobsApart /\ [Next]_vars => JobsApart'
<1> SUFFICES ASSUME Typed, JobsMatch, JobsApart, [Next]_vars
             PROVE  JobsApart'
  OBVIOUS
<1> USE DEF pool, Handlers
<1>1. ASSUME UNCHANGED <<client, tasks, job>>
      PROVE  JobsApart'
  BY <1>1, ApartKept DEF SameRequest
<1>2. ASSUME NEW s \in Sessions, Receive(s) \/ SubmitTask(s)
      PROVE  JobsApart'
  BY <1>2, ReceiveApart, SubmitApart
<1>3. ASSUME NEW s \in Sessions, AllowUpstreamRequest(s) \/ OnUpstreamStart(s)
                                 \/ OnUpstreamEnd(s) \/ HandleLogin(s)
      PROVE  JobsApart'
  BY <1>3, GotoApart DEF AllowUpstreamRequest, OnUpstreamStart, OnUpstreamEnd, HandleLogin
<1>4. ASSUME NEW w \in Workers, Worker(w)
      PROVE  JobsApart'
  BY <1>4, TakeApart, GotoApart DEF Worker, StopWorker
<1>5. ASSUME NEW h \in Handlers, UpstreamReturns(h)
      PROVE  JobsApart'
  <2>1. UNCHANGED <<client, tasks>>
    BY <1>5 DEF UpstreamReturns
  <2>2. CASE Goto(h, "calling", Done(h))
    BY <2>1, <2>2, GotoApart
  <2>3. CASE ~Goto(h, "calling", Done(h))
    <3>1. /\ SameRequest(job'[h], job[h]) /\ job[h] \in Jobs
          /\ \A g \in Handlers \ {h} : job'[g] = job[g]
      BY <1>5, <2>3, OwedTaken DEF UpstreamReturns, JobsMatch
    <3> QED BY <2>1, <3>1, ApartKept DEF SameRequest
  <2> QED BY <2>2, <2>3
<1>6. ASSUME NEW h \in Handlers, TakeBefore(h) \/ TakeAfter(h)
      PROVE  JobsApart'
  BY <1>6, GotoApart DEF TakeBefore, TakeAfter, Take
<1>7. ASSUME NEW h \in Handlers, SendBefore(h) \/ SendAfter(h)
      PROVE  JobsApart'
  BY <1>1, <1>7, GotoApart DEF SendBefore, SendAfter, SendNotify
<1>8. ASSUME NEW h \in Handlers, Respond(h)
      PROVE  JobsApart'
  BY <1>8, GotoApart DEF Respond
<1>9. ASSUME NEW n \in Notifies, BindNotify(n)
      PROVE  JobsApart'
  BY <1>1, <1>9 DEF BindNotify
<1>10. ASSUME NEW s \in Sessions, EndSession(s)
       PROVE  JobsApart'
  BY <1>1, <1>10 DEF EndSession
<1>11. CASE CloseStopCh \/ Stopped \/ UNCHANGED vars
  BY <1>1, <1>11 DEF CloseStopCh, Stopped, vars, client
<1> QED
  BY <1>2, <1>3, <1>4, <1>5, <1>6, <1>7, <1>8, <1>9, <1>10, <1>11
  DEF Next, Connection, Answer

-----------------------------------------------------------------------------
(* Where a notify is                                                       *)

\* What is handed over stands behind everything that was.
LEMMA SentBehind ==
  ASSUME Typed, NEW s \in Sessions, NEW m \in Messages, Sent(s, m), NEW t \in Sessions
  PROVE  \/ out'[t] = out[t]
         \/ /\ t = s /\ open[s]
            /\ DOMAIN out'[t] = DOMAIN out[t] \cup {Len(out[t]) + 1}
            /\ out'[t][Len(out[t]) + 1] = m
            /\ \A i \in DOMAIN out[t] :
                 i < Len(out[t]) + 1 /\ out'[t][i] = out[t][i]
  BY DEF Sent, Typed

\* What is on the stream of a session then is what was, and the new message.
LEMMA SentStream ==
  ASSUME Typed, NEW s \in Sessions, NEW m \in Messages, Sent(s, m),
         NEW t \in Sessions, NEW x
  PROVE  /\ IsSent(t, x) => IsSent(t, x)'
         /\ IsSent(t, x)' => IsSent(t, x) \/ (t = s /\ x = m)
         /\ t = s /\ open[s] /\ x = m => IsSent(t, x)'
<1>1. IsSent(t, x) => IsSent(t, x)'
  BY SentBehind DEF IsSent
<1>2. IsSent(t, x)' => IsSent(t, x) \/ (t = s /\ x = m)
  BY SentBehind DEF IsSent
<1>3. t = s /\ open[s] /\ x = m => IsSent(t, x)'
  <2> SUFFICES ASSUME t = s, open[s], x = m
               PROVE  IsSent(t, x)'
    OBVIOUS
  <2>1. /\ out'[t] = Append(out[t], m) /\ out[t] \in Seq(Messages)
    BY DEF Sent, Typed
  <2>2. Len(out[t]) + 1 \in DOMAIN out'[t] /\ out'[t][Len(out[t]) + 1] = m
    BY <2>1
  <2> QED BY <2>2 DEF IsSent
<1> QED BY <1>1, <1>2, <1>3

\* A notify is known by its message.
LEMMA NotifyMessages ==
  /\ \A n \in Notifies : n.s \in Sessions /\ n.kind \in Kinds /\ n.grid \in Numbers \ {0}
  /\ \A n \in Notifies : NotifyMsg(n).kind = n.kind /\ NotifyMsg(n).grid = n.grid
  /\ \A n, m \in Notifies : n.s = m.s /\ NotifyMsg(n) = NotifyMsg(m) => n = m
  /\ \A j : Response(j).kind = "response" /\ ErrorFor(j).kind = "error"
<1>1. \A n \in Notifies : n \in [s : Sessions, grid : Numbers \ {0}, kind : Kinds]
  BY FlowAssumption
<1>2. \A n \in Notifies : n.s \in Sessions /\ n.kind \in Kinds /\ n.grid \in Numbers \ {0}
  BY <1>1
<1>3. \A n \in Notifies : NotifyMsg(n).kind = n.kind /\ NotifyMsg(n).grid = n.grid
  BY DEF NotifyMsg
<1>4. \A n, m \in Notifies : n.s = m.s /\ NotifyMsg(n) = NotifyMsg(m) => n = m
  <2>1. \A n, m \in Notifies : n.s = m.s /\ n.kind = m.kind /\ n.grid = m.grid => n = m
    BY <1>1
  <2> QED BY <1>3, <2>1
<1>5. \A j : Response(j).kind = "response" /\ ErrorFor(j).kind = "error"
  BY DEF Response, ErrorFor
<1> QED BY <1>2, <1>3, <1>4, <1>5

\* A response or an error is no notify.
LEMMA OtherStream ==
  ASSUME Typed, NEW s \in Sessions, NEW m \in Messages, m.kind \in {"response", "error"},
         Sent(s, m) \/ UNCHANGED out, NEW n \in Notifies
  PROVE  OnStream(n)' <=> OnStream(n)
<1>1. CASE UNCHANGED out
  BY <1>1 DEF OnStream, IsSent
<1>2. CASE Sent(s, m)
  <2>1. n.s \in Sessions /\ NotifyMsg(n) # m
    <3>1. n.s \in Sessions /\ n.kind \in {"before", "after"} /\ NotifyMsg(n).kind = n.kind
      BY NotifyMessages DEF Kinds
    <3> QED BY <3>1
  <2> QED BY <1>2, <2>1, SentStream DEF OnStream
<1> QED BY <1>1, <1>2

\* A step that binds no notify, and takes none from a request.
LEMMA PlacedKept ==
  ASSUME NotifiesPlaced, UNCHANGED notify,
         \A n \in Notifies : OnStream(n)' => n \in everBound /\ ~IsBound(n),
         \A h \in Handlers, n \in Notifies : Listed(h, n)' =>
           /\ Listed(h, n) /\ ~OnStream(n)'
           /\ at'[h] = at[h] /\ job'[h].s = job[h].s /\ job'[h].grid = job[h].grid,
         \A h \in Handlers : IsInjective(list'[h])
  PROVE  NotifiesPlaced'
<1>1. \A n : IsBound(n)' <=> IsBound(n)
  BY DEF notify, IsBound
<1>2. ASSUME NEW h \in Handlers, NEW n \in Notifies, Listed(h, n)'
      PROVE  /\ n \in everBound' /\ ~OnStream(n)'
             /\ at'[h] \in {"sendBefore", "sendAfter"} /\ n.s = job'[h].s
             /\ n.grid = job'[h].grid
  BY <1>2 DEF NotifiesPlaced, notify
<1>3. \A n \in Notifies : IsBound(n)' \/ OnStream(n)' => n \in everBound'
  BY <1>1 DEF NotifiesPlaced, notify
<1>4. \A n \in Notifies : IsBound(n)' =>
        ~OnStream(n)' /\ \A h \in Handlers : ~Listed(h, n)'
  BY <1>1 DEF NotifiesPlaced
<1>5. /\ \A k \in DOMAIN bound', n \in Notifies : n \in ToSet(bound'[k]) => k = Key(n)
      /\ \A k \in DOMAIN bound' : IsInjective(bound'[k])
  BY DEF NotifiesPlaced, notify
<1> QED BY <1>2, <1>3, <1>4, <1>5 DEF NotifiesPlaced

\* A step that sends no notify either.
LEMMA PlacedQuiet ==
  ASSUME NotifiesPlaced, UNCHANGED <<notify, list>>,
         \A n \in Notifies : OnStream(n)' <=> OnStream(n),
         \A h \in Handlers : at[h] \in {"sendBefore", "sendAfter"} /\ list[h] # <<>> =>
           at'[h] = at[h] /\ job'[h].s = job[h].s /\ job'[h].grid = job[h].grid
  PROVE  NotifiesPlaced'
<1>1. ASSUME NEW h \in Handlers, NEW n \in Notifies, Listed(h, n)'
      PROVE  /\ Listed(h, n) /\ ~OnStream(n)'
             /\ at'[h] = at[h] /\ job'[h].s = job[h].s /\ job'[h].grid = job[h].grid
  <2>1. Listed(h, n)
    BY <1>1 DEF Listed
  <2>2. list[h] # <<>>
    BY <2>1 DEF Listed, ToSet
  <2> QED BY <2>1, <2>2 DEF NotifiesPlaced
<1> QED BY <1>1, PlacedKept DEF NotifiesPlaced

LEMMA GotoPlaced ==
  ASSUME Typed, NotifiesPlaced, UNCHANGED <<notify, list>>,
         \A n \in Notifies : OnStream(n)' <=> OnStream(n),
         NEW h \in Handlers, NEW from, NEW to, Goto(h, from, to),
         from \notin {"sendBefore", "sendAfter"} \/ list[h] = <<>>
  PROVE  NotifiesPlaced'
<1>1. \A g \in Handlers : g # h => at'[g] = at[g] /\ job'[g] = job[g]
  BY DEF Goto, Typed
<1> QED BY <1>1, PlacedQuiet DEF Goto

\* A handler takes the notifies of its request.
LEMMA TakePlaced ==
  ASSUME Typed, JobsMatch, NotifiesPlaced, NEW h \in Handlers, NEW kind \in Kinds,
         NEW from \in {"takeBefore", "takeAfter"}, NEW to \in {"sendBefore", "sendAfter"},
         Take(h, kind, from, to)
  PROVE  /\ NotifiesPlaced' /\ UNCHANGED job
         /\ \A n \in Notifies : Listed(h, n)' <=>
              IsBound(n) /\ n.kind = kind /\ n.s = job[h].s /\ n.grid = job[h].grid
         /\ \A n \in Notifies : IsBound(n)' <=>
              IsBound(n) /\ ~(n.kind = kind /\ n.s = job[h].s /\ n.grid = job[h].grid)
         /\ \A g \in Handlers : g # h => list'[g] = list[g] /\ at'[g] = at[g]
<1> DEFINE key == <<job[h].s, kind, job[h].grid>>
<1>1. job[h] \in Jobs /\ key \in Sessions \X Kinds \X Numbers
  BY DEF Take, Goto, JobsMatch, Jobs
<1>2. /\ bound' = [bound EXCEPT ![key] = <<>>] /\ UNCHANGED <<everBound, out>>
      /\ list' = [list EXCEPT ![h] = bound[key]]
      /\ at' = [at EXCEPT ![h] = to] /\ at[h] = from
  BY DEF Take, BoundTo, Goto
<1>3. UNCHANGED job
  BY DEF Take, Goto, Typed
<1>4. \A n \in Notifies : key = Key(n) <=>
        n.kind = kind /\ n.s = job[h].s /\ n.grid = job[h].grid
  BY DEF Key
<1> HIDE DEF key
<1>5. /\ key \in DOMAIN bound /\ bound'[key] = <<>> /\ DOMAIN bound' = DOMAIN bound
      /\ \A k \in DOMAIN bound : k # key => bound'[k] = bound[k]
  BY <1>1, <1>2 DEF Typed
<1>6. /\ list'[h] = bound[key] /\ at'[h] = to
      /\ \A g \in Handlers : g # h => list'[g] = list[g] /\ at'[g] = at[g]
  BY <1>2 DEF Typed
<1>7. \A n \in Notifies : Key(n) \in DOMAIN bound
  BY NotifyMessages DEF Key, Typed
<1>8. \A n \in Notifies : IsBound(n)' <=> IsBound(n) /\ key # Key(n)
  BY <1>5, <1>7 DEF IsBound, ToSet
<1>9. \A n \in Notifies : Listed(h, n)' <=> IsBound(n) /\ key = Key(n)
  BY <1>5, <1>6 DEF Listed, IsBound, NotifiesPlaced
<1>10. \A n \in Notifies : OnStream(n)' <=> OnStream(n)
  BY <1>2 DEF OnStream, IsSent
<1>11. NotifiesPlaced'
  <2>1. \A n \in Notifies : IsBound(n)' \/ OnStream(n)' => n \in everBound'
    BY <1>2, <1>8, <1>10 DEF NotifiesPlaced
  <2>2. \A g \in Handlers, n \in Notifies : g # h => (Listed(g, n)' <=> Listed(g, n))
    BY <1>6 DEF Listed
  <2>3. \A n \in Notifies : IsBound(n)' =>
          ~OnStream(n)' /\ \A g \in Handlers : ~Listed(g, n)'
    BY <1>8, <1>9, <1>10, <2>2 DEF NotifiesPlaced
  <2>4. \A g \in Handlers, n \in Notifies : Listed(g, n)' =>
          /\ n \in everBound' /\ ~OnStream(n)'
          /\ at'[g] \in {"sendBefore", "sendAfter"} /\ n.s = job'[g].s
          /\ n.grid = job'[g].grid
    <3>1. ASSUME NEW n \in Notifies, Listed(h, n)'
          PROVE  /\ n \in everBound' /\ ~OnStream(n)'
                 /\ at'[h] \in {"sendBefore", "sendAfter"} /\ n.s = job'[h].s
                 /\ n.grid = job'[h].grid
      BY <1>2, <1>3, <1>4, <1>6, <1>9, <1>10, <3>1 DEF NotifiesPlaced
    <3>2. ASSUME NEW g \in Handlers, g # h, NEW n \in Notifies, Listed(g, n)'
          PROVE  /\ n \in everBound' /\ ~OnStream(n)'
                 /\ at'[g] \in {"sendBefore", "sendAfter"} /\ n.s = job'[g].s
                 /\ n.grid = job'[g].grid
      BY <1>2, <1>3, <1>6, <1>10, <2>2, <3>2 DEF NotifiesPlaced
    <3> QED BY <3>1, <3>2
  <2>5. \A k \in DOMAIN bound', n \in Notifies : n \in ToSet(bound'[k]) => k = Key(n)
    BY <1>5 DEF NotifiesPlaced, ToSet
  <2>6. \A k \in DOMAIN bound' : IsInjective(bound'[k])
    BY <1>5 DEF NotifiesPlaced, IsInjective
  <2>7. \A g \in Handlers : IsInjective(list'[g])
    BY <1>5, <1>6 DEF NotifiesPlaced
  <2> QED BY <2>1, <2>3, <2>4, <2>5, <2>6, <2>7 DEF NotifiesPlaced
<1> QED BY <1>3, <1>4, <1>6, <1>8, <1>9, <1>11

\* The first of a list without repetitions is not in the rest.
LEMMA HeadLeaves ==
  ASSUME NEW S, NEW q \in Seq(S), q # <<>>, IsInjective(q)
  PROVE  /\ ToSet(Tail(q)) = ToSet(q) \ {Head(q)} /\ Head(q) \in ToSet(q)
         /\ IsInjective(Tail(q))
<1>1. /\ Head(q) = q[1] /\ 1 \in DOMAIN q
      /\ \A i \in DOMAIN Tail(q) : i \in Nat /\ i + 1 \in DOMAIN q /\ i + 1 # 1
                                   /\ Tail(q)[i] = q[i + 1]
      /\ \A i \in DOMAIN q : i \in Nat /\ i # 1 => i - 1 \in DOMAIN Tail(q)
                             /\ Tail(q)[i - 1] = q[i]
  OBVIOUS
<1>2. ToSet(Tail(q)) \subseteq ToSet(q) \ {Head(q)}
  BY <1>1 DEF ToSet, IsInjective
<1>3. ASSUME NEW x \in ToSet(q), x # Head(q)
      PROVE  x \in ToSet(Tail(q))
  <2>1. PICK i \in DOMAIN q : q[i] = x
    BY DEF ToSet
  <2>2. i - 1 \in DOMAIN Tail(q) /\ Tail(q)[i - 1] = x
    BY <1>1, <1>3, <2>1
  <2> QED BY <2>2 DEF ToSet
<1>4. IsInjective(Tail(q))
  <2> SUFFICES ASSUME NEW i \in DOMAIN Tail(q), NEW k \in DOMAIN Tail(q),
                      Tail(q)[i] = Tail(q)[k]
               PROVE  i = k
    BY DEF IsInjective
  <2>1. i + 1 = k + 1
    BY <1>1 DEF IsInjective
  <2> QED BY <1>1, <2>1
<1> QED BY <1>1, <1>2, <1>3, <1>4 DEF ToSet

\* A handler sends the notifies it has taken.
LEMMA SendPlaced ==
  ASSUME Typed, JobsMatch, JobsApart, NotifiesPlaced, NEW h \in Handlers,
         NEW from \in {"sendBefore", "sendAfter"}, NEW next, NEW failed,
         SendNotify(h, from, next, failed)
  PROVE  NotifiesPlaced'
<1>0. UNCHANGED notify /\ at[h] = from /\ job[h] \in Jobs
  BY DEF SendNotify, Goto, JobsMatch
<1>1. CASE Goto(h, from, next) /\ list[h] = <<>> /\ UNCHANGED <<list, out>>
  BY <1>0, <1>1, GotoPlaced DEF OnStream, IsSent
<1>2. CASE /\ Goto(h, from, failed) /\ NotSent(job[h].s)
           /\ list' = [list EXCEPT ![h] = <<>>]
  <2>1. /\ list'[h] = <<>>
        /\ \A g \in Handlers : g # h => list'[g] = list[g] /\ at'[g] = at[g] /\ job'[g] = job[g]
    BY <1>2 DEF Typed, Goto
  <2>2. \A n \in Notifies : OnStream(n)' <=> OnStream(n)
    BY <1>2 DEF NotSent, OnStream, IsSent
  <2>3. \A g \in Handlers : IsInjective(list'[g])
    BY <2>1 DEF NotifiesPlaced, IsInjective
  <2>4. \A g \in Handlers, n \in Notifies : Listed(g, n)' => g # h /\ Listed(g, n)
    BY <2>1 DEF Listed, ToSet
  <2>5. \A g \in Handlers, n \in Notifies : Listed(g, n)' =>
          /\ Listed(g, n) /\ ~OnStream(n)'
          /\ at'[g] = at[g] /\ job'[g].s = job[g].s /\ job'[g].grid = job[g].grid
    BY <2>1, <2>2, <2>4 DEF NotifiesPlaced
  <2>6. \A n \in Notifies : OnStream(n)' => n \in everBound /\ ~IsBound(n)
    BY <2>2 DEF NotifiesPlaced
  <2> QED BY <1>0, <2>3, <2>5, <2>6, PlacedKept
<1>3. CASE /\ list[h] # <<>> /\ Sent(job[h].s, NotifyMsg(Head(list[h])))
           /\ list' = [list EXCEPT ![h] = Tail(list[h])] /\ UNCHANGED <<at, job>>
  <2> DEFINE n0 == Head(list[h])
  <2>1. /\ ToSet(Tail(list[h])) = ToSet(list[h]) \ {n0} /\ n0 \in ToSet(list[h])
        /\ IsInjective(Tail(list[h])) /\ n0 \in Notifies
    <3>1. list[h] \in Seq(Notifies) /\ IsInjective(list[h])
      BY DEF Typed, NotifiesPlaced
    <3> QED BY <1>3, <3>1, HeadLeaves
  <2> HIDE DEF n0
  <2>2. /\ Listed(h, n0) /\ n0.s = job[h].s /\ n0.grid = job[h].grid /\ n0.s \in Sessions
        /\ n0 \in everBound /\ ~IsBound(n0) /\ n0.grid # 0
    <3>1. Listed(h, n0)
      BY <2>1 DEF Listed
    <3> QED BY <2>1, <3>1, NotifyMessages DEF NotifiesPlaced
  <2>3. \A n \in Notifies : OnStream(n)' => OnStream(n) \/ n = n0
    <3>1. Sent(n0.s, NotifyMsg(n0)) /\ NotifyMsg(n0) \in Messages
      BY <1>3, <2>1, <2>2, MessageTypes DEF n0
    <3> QED BY <2>1, <2>2, <3>1, SentStream, NotifyMessages DEF OnStream
  <2>4. /\ list'[h] = Tail(list[h])
        /\ \A g \in Handlers : g # h => list'[g] = list[g]
    BY <1>3 DEF Typed
  <2>5. \A g \in Handlers : IsInjective(list'[g])
    BY <2>1, <2>4 DEF NotifiesPlaced
  <2>6. ASSUME NEW g \in Handlers, NEW n \in Notifies, Listed(g, n)'
        PROVE  Listed(g, n) /\ n # n0
    <3>1. CASE g = h
      BY <2>1, <2>4, <2>6, <3>1 DEF Listed
    <3>2. CASE g # h
      <4>1. Listed(g, n)
        BY <2>4, <2>6, <3>2 DEF Listed
      <4>2. n.s = job[g].s /\ n.grid = job[g].grid /\ job[g] \in Jobs
        BY <4>1 DEF NotifiesPlaced, JobsMatch
      <4>3. Distinct(job[g], job[h])
        BY <1>0, <3>2, <4>2 DEF JobsApart
      <4> QED BY <2>2, <4>1, <4>2, <4>3 DEF Distinct
    <3> QED BY <3>1, <3>2
  <2>7. \A g \in Handlers, n \in Notifies : Listed(g, n)' =>
          /\ Listed(g, n) /\ ~OnStream(n)'
          /\ at'[g] = at[g] /\ job'[g].s = job[g].s /\ job'[g].grid = job[g].grid
    BY <1>3, <2>3, <2>6 DEF NotifiesPlaced
  <2>8. \A n \in Notifies : OnStream(n)' => n \in everBound /\ ~IsBound(n)
    BY <2>2, <2>3 DEF NotifiesPlaced
  <2> QED BY <1>0, <2>5, <2>7, <2>8, PlacedKept
<1> QED BY <1>1, <1>2, <1>3 DEF SendNotify

\* Upstream binds a notify, for the first time.
LEMMA BindPlaced ==
  ASSUME Typed, NotifiesPlaced, NEW n0 \in Notifies, BindNotify(n0)
  PROVE  /\ NotifiesPlaced'
         /\ \A n \in Notifies : IsBound(n)' <=> IsBound(n) \/ n = n0
<1>1. /\ n0 \notin everBound /\ everBound' = everBound \cup {n0}
      /\ bound' = [bound EXCEPT ![Key(n0)] = Append(bound[Key(n0)], n0)]
      /\ UNCHANGED <<out, at, job, list>>
  BY DEF BindNotify, Key, session
<1>2. \A n \in Notifies : Key(n) \in DOMAIN bound
  BY NotifyMessages DEF Key, Typed
<1>3. /\ DOMAIN bound' = DOMAIN bound /\ bound'[Key(n0)] = Append(bound[Key(n0)], n0)
      /\ \A k \in DOMAIN bound : k # Key(n0) => bound'[k] = bound[k]
      /\ bound[Key(n0)] \in Seq(Notifies)
  BY <1>1, <1>2 DEF Typed
<1>4. ToSet(bound'[Key(n0)]) = ToSet(bound[Key(n0)]) \cup {n0}
  <2> DEFINE q == bound[Key(n0)]
  <2> SUFFICES ToSet(Append(q, n0)) = ToSet(q) \cup {n0}
    BY <1>3
  <2>1. q \in Seq(Notifies)
    BY <1>3
  <2> HIDE DEF q
  <2>2. /\ DOMAIN Append(q, n0) = DOMAIN q \cup {Len(q) + 1}
        /\ \A i \in DOMAIN q : Append(q, n0)[i] = q[i]
        /\ Append(q, n0)[Len(q) + 1] = n0
    BY <2>1
  <2> QED BY <2>2 DEF ToSet
<1>5. n0 \notin ToSet(bound[Key(n0)]) /\ ~OnStream(n0) /\ \A h \in Handlers : ~Listed(h, n0)
  BY <1>1 DEF NotifiesPlaced, IsBound
<1>6. IsInjective(bound'[Key(n0)])
  <2> DEFINE q == bound[Key(n0)]
  <2> SUFFICES IsInjective(Append(q, n0))
    BY <1>3
  <2>1. q \in Seq(Notifies) /\ IsInjective(q) /\ \A i \in DOMAIN q : q[i] # n0
    BY <1>2, <1>3, <1>5 DEF NotifiesPlaced, ToSet
  <2> HIDE DEF q
  <2>2. /\ DOMAIN Append(q, n0) = DOMAIN q \cup {Len(q) + 1}
        /\ \A i \in DOMAIN q : Append(q, n0)[i] = q[i]
        /\ Append(q, n0)[Len(q) + 1] = n0
    BY <2>1
  <2> QED BY <2>1, <2>2 DEF IsInjective
<1>7. \A n \in Notifies : IsBound(n)' <=> IsBound(n) \/ n = n0
  <2>1. ASSUME NEW n \in Notifies
        PROVE  IsBound(n)' <=> IsBound(n) \/ n = n0
    <3>1. CASE Key(n) = Key(n0)
      BY <1>4, <3>1 DEF IsBound
    <3>2. CASE Key(n) # Key(n0)
      BY <1>2, <1>3, <3>2 DEF IsBound
    <3> QED BY <3>1, <3>2
  <2> QED BY <2>1
<1>8. /\ \A n : OnStream(n)' <=> OnStream(n)
      /\ \A h, n : Listed(h, n)' <=> Listed(h, n)
  BY <1>1 DEF OnStream, IsSent, Listed
<1>9. NotifiesPlaced'
  <2>1. \A n \in Notifies : IsBound(n)' \/ OnStream(n)' => n \in everBound'
    BY <1>1, <1>7, <1>8 DEF NotifiesPlaced
  <2>2. \A n \in Notifies : IsBound(n)' =>
          ~OnStream(n)' /\ \A g \in Handlers : ~Listed(g, n)'
    BY <1>5, <1>7, <1>8 DEF NotifiesPlaced
  <2>3. \A g \in Handlers, n \in Notifies : Listed(g, n)' =>
          /\ n \in everBound' /\ ~OnStream(n)'
          /\ at'[g] \in {"sendBefore", "sendAfter"} /\ n.s = job'[g].s
          /\ n.grid = job'[g].grid
    BY <1>1, <1>8 DEF NotifiesPlaced
  <2>4. ASSUME NEW k \in DOMAIN bound', NEW n \in Notifies, n \in ToSet(bound'[k])
        PROVE  k = Key(n)
    BY <1>2, <1>3, <1>4, <2>4 DEF NotifiesPlaced
  <2>5. \A k \in DOMAIN bound' : IsInjective(bound'[k])
    BY <1>3, <1>6 DEF NotifiesPlaced
  <2>6. \A g \in Handlers : IsInjective(list'[g])
    BY <1>1 DEF NotifiesPlaced
  <2> QED BY <2>1, <2>2, <2>3, <2>4, <2>5, <2>6 DEF NotifiesPlaced
<1> QED BY <1>7, <1>9

LEMMA PlacedStep ==
  ASSUME Typed, JobsMatch, JobsApart, NotifiesPlaced, [Next]_vars
  PROVE  NotifiesPlaced'
<1> USE DEF Handlers
<1>1. ASSUME UNCHANGED <<notify, list, out, at, job>>
      PROVE  NotifiesPlaced'
  BY <1>1, PlacedQuiet DEF OnStream, IsSent
<1>2. ASSUME UNCHANGED <<notify, list>>, NEW h \in Handlers, NEW from, NEW to,
             Goto(h, from, to), from \notin {"sendBefore", "sendAfter"},
             \/ UNCHANGED out
             \/ \E s \in Sessions, m \in Messages :
                  m.kind \in {"response", "error"} /\ Sent(s, m)
      PROVE  NotifiesPlaced'
  <2>1. \A n \in Notifies : OnStream(n)' <=> OnStream(n)
    <3>1. CASE UNCHANGED out
      BY <3>1 DEF OnStream, IsSent
    <3> QED BY <1>2, <3>1, OtherStream
  <2> QED BY <1>2, <2>1, GotoPlaced
<1>3. \A j \in Jobs : /\ j.s \in Sessions /\ ErrorFor(j) \in Messages /\ Response(j) \in Messages
                      /\ ErrorFor(j).kind = "error" /\ Response(j).kind = "response"
  BY MessageTypes, NotifyMessages DEF Jobs
<1>4. ASSUME NEW s \in Sessions, Receive(s)
      PROVE  NotifiesPlaced'
  <2>1. PICK j \in [s : {s}, id : {received[s] + 1}, grid : Numbers, hello : BOOLEAN, owed : {{}}] :
          /\ UNCHANGED <<at, job>> \/ (at' = [at EXCEPT ![s] = "admitting"] /\ job' = [job EXCEPT ![s] = j])
          /\ UNCHANGED out \/ SendError(j)
    BY <1>4 DEF Receive
  <2>2. j \in Jobs
    BY <1>4, NextId DEF Receive, Jobs
  <2>3. \A n \in Notifies : OnStream(n)' <=> OnStream(n)
    <3>1. CASE UNCHANGED out
      BY <3>1 DEF OnStream, IsSent
    <3> QED BY <1>3, <2>1, <2>2, <3>1, OtherStream DEF SendError
  <2>4. \A h \in Handlers : at[h] \in {"sendBefore", "sendAfter"} =>
          at'[h] = at[h] /\ job'[h] = job[h]
    BY <1>4, <2>1 DEF Receive, Typed
  <2> QED BY <1>4, <2>3, <2>4, PlacedQuiet DEF Receive
<1>5. ASSUME NEW s \in Sessions, AllowUpstreamRequest(s) \/ SubmitTask(s) \/ HandleLogin(s)
      PROVE  NotifiesPlaced'
  <2>1. PICK from \in {"admitting", "submitting", "login"},
             to \in {"counting", "idle", "ending", "respond"} :
          Goto(s, from, to)
    BY <1>5 DEF AllowUpstreamRequest, SubmitTask, HandleLogin
  <2>2. job[s] \in Jobs /\ UNCHANGED <<notify, list>>
    BY <1>5, <2>1 DEF AllowUpstreamRequest, SubmitTask, HandleLogin, Goto, JobsMatch
  <2>3. UNCHANGED out \/ SendError(job[s])
    BY <1>5 DEF AllowUpstreamRequest, SubmitTask, HandleLogin, Queued
  <2> QED BY <1>2, <1>3, <2>1, <2>2, <2>3 DEF SendError
<1>6. ASSUME NEW s \in Sessions, OnUpstreamStart(s) \/ OnUpstreamEnd(s)
      PROVE  NotifiesPlaced'
  BY <1>2, <1>6 DEF OnUpstreamStart, OnUpstreamEnd
<1>7. ASSUME NEW w \in Workers, Worker(w)
      PROVE  NotifiesPlaced'
  <2>1. CASE StopWorker(w)
    BY <1>2, <2>1 DEF StopWorker
  <2>2. CASE TakeTask(w)
    <3>1. \A h \in Handlers : at[h] \in {"sendBefore", "sendAfter"} =>
            at'[h] = at[h] /\ job'[h] = job[h]
      BY <2>2 DEF TakeTask, Typed
    <3> QED BY <2>2, <3>1, PlacedQuiet DEF TakeTask, OnStream, IsSent
  <2> QED BY <1>7, <2>1, <2>2 DEF Worker
<1>8. ASSUME NEW h \in Handlers, UpstreamReturns(h)
      PROVE  NotifiesPlaced'
  <2>1. at[h] = "calling" /\ job[h] \in Jobs /\ UNCHANGED <<notify, list>>
    BY <1>8 DEF UpstreamReturns, Goto, JobsMatch
  <2>2. CASE Goto(h, "calling", Done(h)) /\ SendError(job[h])
    BY <1>2, <1>3, <2>1, <2>2 DEF SendError
  <2>3. CASE ~(Goto(h, "calling", Done(h)) /\ SendError(job[h]))
    <3>1. \A g \in Handlers \ {h} : at'[g] = at[g] /\ job'[g] = job[g]
      BY <1>8, <2>3, OwedTaken DEF UpstreamReturns, Typed
    <3>2. UNCHANGED out
      BY <1>8, <2>3 DEF UpstreamReturns
    <3> QED BY <2>1, <3>1, <3>2, PlacedQuiet DEF OnStream, IsSent
  <2> QED BY <2>2, <2>3
<1>9. ASSUME NEW h \in Handlers, TakeBefore(h) \/ TakeAfter(h)
      PROVE  NotifiesPlaced'
  BY <1>9, TakePlaced DEF TakeBefore, TakeAfter, Kinds
<1>10. ASSUME NEW h \in Handlers, SendBefore(h) \/ SendAfter(h)
       PROVE  NotifiesPlaced'
  BY <1>10, SendPlaced DEF SendBefore, SendAfter
<1>11. ASSUME NEW h \in Handlers, Respond(h)
       PROVE  NotifiesPlaced'
  <2>1. /\ UNCHANGED <<notify, list>> /\ job[h] \in Jobs
        /\ UNCHANGED out \/ Sent(job[h].s, Response(job[h]))
        /\ \E to : Goto(h, "respond", to)
    BY <1>11 DEF Respond, NotSent, Goto, JobsMatch
  <2> QED BY <1>2, <1>3, <2>1
<1>12. ASSUME NEW n \in Notifies, BindNotify(n)
       PROVE  NotifiesPlaced'
  BY <1>12, BindPlaced
<1>13. ASSUME NEW s \in Sessions, EndSession(s)
       PROVE  NotifiesPlaced'
  BY <1>1, <1>13 DEF EndSession
<1>14. CASE CloseStopCh \/ Stopped \/ UNCHANGED vars
  BY <1>1, <1>14 DEF CloseStopCh, Stopped, vars, notify
<1> QED
  BY <1>4, <1>5, <1>6, <1>7, <1>8, <1>9, <1>10, <1>11, <1>12, <1>13, <1>14
  DEF Next, Connection, Answer

-----------------------------------------------------------------------------
(* A worker keeps what it owes                                             *)

\* The part of OwedKept that is about one worker.
OwedBy(w) ==
  /\ \A n \in job[w].owed : OnItsWay(w, n)
  /\ at[w] \in {"takeAfter", "sendAfter"} =>
       /\ IsSent(job[w].s, Response(job[w]))
       /\ \A n \in job[w].owed : Between(w, n)

\* A message of somebody else changes nothing for a worker.
Foreign(w, s, m) ==
  s = job[w].s => m # Response(job[w]) /\ \A n \in job[w].owed : m # NotifyMsg(n)

LEMMA OwedByOthers ==
  ASSUME Typed, JobsMatch, NEW w \in Workers, OwedBy(w), job[w] \in Jobs,
         at'[w] = at[w], job'[w] = job[w], list'[w] = list[w],
         \A n \in job[w].owed : IsBound(n) => IsBound(n)',
         \/ UNCHANGED out
         \/ \E s \in Sessions, m \in Messages : Sent(s, m) /\ Foreign(w, s, m)
  PROVE  OwedBy(w)'
<1>0. /\ job[w].s \in Sessions /\ job[w].owed \subseteq Notifies
      /\ \A n \in job[w].owed : n.s = job[w].s
  BY DEF Jobs, OwedBy, OnItsWay
<1>1. ASSUME NEW x
      PROVE  IsSent(job[w].s, x) => IsSent(job[w].s, x)'
  <2>1. CASE UNCHANGED out
    BY <2>1 DEF IsSent
  <2> QED BY <1>0, <2>1, SentStream
<1>2. ASSUME NEW n \in job[w].owed
      PROVE  OnItsWay(w, n)'
  <2>1. OnItsWay(w, n) /\ n.s = job[w].s
    BY <1>0, <1>2 DEF OwedBy
  <2>2. /\ OnStream(n) => OnStream(n)'
        /\ Listed(w, n)' <=> Listed(w, n)
        /\ IsBound(n) => IsBound(n)'
    BY <1>1, <2>1 DEF OnStream, Listed
  <2> QED BY <2>1, <2>2 DEF OnItsWay
<1>3. ASSUME NEW n \in job[w].owed, Between(w, n)
      PROVE  Between(w, n)'
  <2>1. n.s = job[w].s /\ n.s \in Sessions
    BY <1>0
  <2>2. CASE UNCHANGED out
    BY <1>3, <2>2 DEF Between
  <2>3. ASSUME NEW s \in Sessions, NEW m \in Messages, Sent(s, m), Foreign(w, s, m)
        PROVE  Between(w, n)'
    <3>1. CASE out'[n.s] = out[n.s]
      BY <1>3, <3>1 DEF Between
    <3>2. CASE out'[n.s] # out[n.s]
      <4>1. /\ n.s = s
            /\ DOMAIN out'[n.s] = DOMAIN out[n.s] \cup {Len(out[n.s]) + 1}
            /\ out'[n.s][Len(out[n.s]) + 1] = m
            /\ \A i \in DOMAIN out[n.s] : out'[n.s][i] = out[n.s][i]
        BY <2>1, <2>3, <3>2, SentBehind
      <4>2. m # Response(job[w]) /\ m # NotifyMsg(n)
        BY <2>1, <2>3, <4>1 DEF Foreign
      <4> QED BY <1>3, <4>1, <4>2 DEF Between
    <3> QED BY <3>1, <3>2
  <2> QED BY <2>2, <2>3
<1> QED BY <1>1, <1>2, <1>3 DEF OwedBy

\* What another handler sends is foreign.
LEMMA OthersAreForeign ==
  ASSUME JobsMatch, JobsApart, NEW w \in Workers, job[w] \in Jobs, OwedBy(w),
         NEW h \in Handlers, h # w, job[h] \in Jobs
  PROVE  /\ Foreign(w, job[h].s, Response(job[h]))
         /\ \A n \in Notifies : n.s = job[h].s /\ n.grid = job[h].grid =>
              Foreign(w, job[h].s, NotifyMsg(n))
<1>1. w \in Handlers /\ Distinct(job[h], job[w])
  BY DEF JobsApart, Handlers
<1>2. \A n \in job[w].owed : n \in Notifies /\ n.s = job[w].s /\ n.grid = job[w].grid
  BY DEF Jobs, OwedBy, OnItsWay
<1>3. Foreign(w, job[h].s, Response(job[h]))
  <2> SUFFICES ASSUME job[h].s = job[w].s
               PROVE  /\ Response(job[h]) # Response(job[w])
                      /\ \A n \in job[w].owed : Response(job[h]) # NotifyMsg(n)
    BY DEF Foreign
  <2>1. Response(job[h]).id = job[h].id /\ Response(job[w]).id = job[w].id
    BY DEF Response
  <2>2. \A n \in job[w].owed : NotifyMsg(n).kind \in {"before", "after"}
    BY <1>2, NotifyMessages DEF Kinds
  <2> QED BY <1>1, <2>1, <2>2, NotifyMessages DEF Distinct
<1>4. ASSUME NEW n \in Notifies, n.s = job[h].s, n.grid = job[h].grid
      PROVE  Foreign(w, job[h].s, NotifyMsg(n))
  <2> SUFFICES ASSUME job[h].s = job[w].s
               PROVE  /\ NotifyMsg(n) # Response(job[w])
                      /\ \A m \in job[w].owed : NotifyMsg(n) # NotifyMsg(m)
    BY DEF Foreign
  <2>1. NotifyMsg(n).kind \in {"before", "after"} /\ n.grid # 0
    BY <1>4, NotifyMessages DEF Kinds
  <2>2. ASSUME NEW m \in job[w].owed, NotifyMsg(n) = NotifyMsg(m)
        PROVE  FALSE
    <3>1. n = m /\ m.grid = job[w].grid
      BY <1>2, <1>4, <2>2, NotifyMessages
    <3> QED BY <1>1, <1>4, <2>1, <3>1 DEF Distinct
  <2> QED BY <2>1, <2>2, NotifyMessages
<1> QED BY <1>3, <1>4

\* An error is foreign to every worker.
LEMMA ErrorsAreForeign ==
  ASSUME NEW w \in Workers, job[w] \in Jobs, NEW s, NEW j
  PROVE  Foreign(w, s, ErrorFor(j))
<1>1. \A n \in job[w].owed : n \in Notifies /\ NotifyMsg(n).kind \in {"before", "after"}
  BY NotifyMessages DEF Kinds, Jobs
<1> QED BY <1>1, NotifyMessages DEF Foreign

\* The worker's own steps, one lemma each.
LEMMA OwedReturns ==
  ASSUME Typed, JobsMatch, NotifiesPlaced, NEW w \in Workers, UpstreamReturns(w),
         at'[w] \in Responding
  PROVE  OwedBy(w)'
<1>0. w \in Handlers /\ at[w] = "calling" /\ job[w] \in Jobs
  BY DEF Handlers, UpstreamReturns, Goto, JobsMatch
<1>1. ~Goto(w, "calling", Done(w))
  BY <1>0 DEF Goto, Done, Responding, Typed
<1>2. /\ at' = [at EXCEPT ![w] = FirstStep(w)] /\ UNCHANGED notify
      /\ SameRequest(job'[w], job[w])
      /\ job'[w].owed = ToSet(BoundTo(job[w], "before")) \cup ToSet(BoundTo(job[w], "after"))
  BY <1>0, <1>1, OwedTaken DEF UpstreamReturns
<1>3. at'[w] = "takeBefore"
  BY <1>0, <1>2 DEF FirstStep, Typed
<1>4. ASSUME NEW kind \in Kinds, NEW n \in ToSet(BoundTo(job[w], kind))
      PROVE  n.s = job[w].s /\ n.grid = job[w].grid /\ IsBound(n)
  <2> DEFINE key == <<job[w].s, kind, job[w].grid>>
  <2>1. key \in DOMAIN bound /\ bound[key] \in Seq(Notifies) /\ n \in ToSet(bound[key])
    BY <1>0, <1>4 DEF BoundTo, Jobs, Typed
  <2>2. n \in Notifies
    BY <2>1 DEF ToSet
  <2>3. key = Key(n)
    BY <2>1, <2>2 DEF NotifiesPlaced
  <2> QED BY <2>1, <2>3 DEF Key, IsBound
<1>5. ASSUME NEW n \in job'[w].owed
      PROVE  OnItsWay(w, n)'
  <2>1. n.s = job[w].s /\ n.grid = job[w].grid /\ IsBound(n)
    BY <1>2, <1>4, <1>5 DEF Kinds
  <2>2. IsBound(n)' /\ n.s = job'[w].s /\ n.grid = job'[w].grid
    BY <1>2, <2>1 DEF IsBound, notify, SameRequest
  <2> QED BY <1>3, <2>2 DEF OnItsWay
<1> QED BY <1>3, <1>5 DEF OwedBy

LEMMA OwedTakes ==
  ASSUME Typed, JobsMatch, NotifiesPlaced, NEW w \in Workers, OwedBy(w),
         TakeBefore(w) \/ TakeAfter(w)
  PROVE  OwedBy(w)'
<1>0. w \in Handlers /\ job[w] \in Jobs /\ UNCHANGED out
  BY DEF Handlers, TakeBefore, TakeAfter, Take, Goto, JobsMatch
<1>1. PICK kind \in Kinds, from \in {"takeBefore", "takeAfter"},
           to \in {"sendBefore", "sendAfter"} :
        /\ Take(w, kind, from, to)
        /\ kind = "before" <=> from = "takeBefore"
        /\ kind = "before" <=> to = "sendBefore"
  BY DEF TakeBefore, TakeAfter, Kinds
<1>2. at[w] = from /\ at'[w] = to
  BY <1>0, <1>1 DEF Take, Goto, Typed
<1>3. /\ UNCHANGED job
      /\ \A n \in Notifies : Listed(w, n)' <=>
           IsBound(n) /\ n.kind = kind /\ n.s = job[w].s /\ n.grid = job[w].grid
      /\ \A n \in Notifies : IsBound(n)' <=>
           IsBound(n) /\ ~(n.kind = kind /\ n.s = job[w].s /\ n.grid = job[w].grid)
  BY <1>0, <1>1, TakePlaced
<1>4. ASSUME NEW n \in job[w].owed
      PROVE  OnItsWay(w, n)'
  <2>1. n \in Notifies /\ OnItsWay(w, n) /\ n.kind \in {"before", "after"}
    BY <1>0, NotifyMessages DEF OwedBy, Jobs, Kinds
  <2>2. /\ n.s = job[w].s /\ n.grid = job[w].grid
        /\ n.kind = "before" => IF from = "takeBefore" THEN IsBound(n) ELSE OnStream(n)
        /\ n.kind = "after" => IsBound(n)
    BY <1>2, <2>1 DEF OnItsWay
  <2>3. /\ Listed(w, n)' <=> IsBound(n) /\ n.kind = kind
        /\ IsBound(n)' <=> IsBound(n) /\ n.kind # kind
    BY <1>3, <2>1, <2>2
  <2>4. OnStream(n)' <=> OnStream(n)
    BY <1>0 DEF OnStream, IsSent
  <2>5. n.s = job'[w].s /\ n.grid = job'[w].grid
    BY <1>3, <2>2
  <2>6. n.kind = "before" =>
          \/ at'[w] = "sendBefore" /\ Listed(w, n)'
          \/ at'[w] # "takeBefore" /\ OnStream(n)'
    BY <1>1, <1>2, <2>2, <2>3, <2>4
  <2>7. kind \in {"before", "after"}
    BY DEF Kinds
  <2>8. n.kind = "after" =>
          \/ at'[w] # "sendAfter" /\ IsBound(n)'
          \/ at'[w] = "sendAfter" /\ (Listed(w, n)' \/ OnStream(n)')
    BY <1>1, <1>2, <2>2, <2>3, <2>7
  <2> QED BY <2>5, <2>6, <2>8 DEF OnItsWay
<1>5. at'[w] \in {"takeAfter", "sendAfter"} =>
        /\ IsSent(job[w].s, Response(job[w]))'
        /\ \A n \in job[w].owed : Between(w, n)'
  BY <1>0, <1>1, <1>2, <1>3 DEF OwedBy, IsSent, Between
<1> QED BY <1>3, <1>4, <1>5 DEF OwedBy

LEMMA OwedSends ==
  ASSUME Typed, JobsMatch, NotifiesPlaced, NEW w \in Workers, OwedBy(w),
         SendBefore(w) \/ SendAfter(w), at'[w] \in Responding, open'[job'[w].s]
  PROVE  OwedBy(w)'
<1>0. /\ w \in Handlers /\ job[w] \in Jobs /\ UNCHANGED <<notify, open>>
      /\ at[w] \in {"sendBefore", "sendAfter"}
  BY DEF Handlers, SendBefore, SendAfter, SendNotify, Goto, JobsMatch, session
<1>1. /\ \A n \in job[w].owed : n \in Notifies /\ OnItsWay(w, n) /\ n.s = job[w].s
      /\ job[w].s \in Sessions
  BY <1>0 DEF OwedBy, Jobs, OnItsWay
<1>2. \A n : IsBound(n)' <=> IsBound(n)
  BY <1>0 DEF notify, IsBound
<1>3. CASE \E to : to # at[w] /\ Goto(w, at[w], to)
  <2>1. PICK to : to # at[w] /\ Goto(w, at[w], to)
    BY <1>3
  <2>2. at'[w] = to /\ to \notin {"idle", "ending", "gone"}
    BY <1>0, <2>1 DEF Goto, Typed, Responding
  <2>3. job'[w] = job[w]
    BY <1>0, <2>1, <2>2 DEF Goto, Typed
  <2>4. at'[w] = "respond" /\ at[w] = "sendBefore" /\ list[w] = <<>> /\ UNCHANGED <<list, out>>
    <3>0. at'[w] # at[w]
      BY <2>1, <2>2
    <3>1. open[job[w].s]
      BY <1>0, <2>3
    <3>2. CASE SendBefore(w)
      BY <1>0, <2>3, <3>0, <3>1, <3>2 DEF SendBefore, SendNotify, NotSent, Goto, AfterBefore, Typed
    <3>3. CASE SendAfter(w)
      BY <1>0, <2>2, <3>0, <3>3 DEF SendAfter, SendNotify, Goto, Done, Typed
    <3> QED BY <3>2, <3>3
  <2>5. ASSUME NEW n \in job[w].owed
        PROVE  OnItsWay(w, n)'
    <3>1. OnStream(n)' <=> OnStream(n)
      BY <2>4 DEF OnStream, IsSent
    <3>2. ~Listed(w, n)
      BY <2>4 DEF Listed, ToSet
    <3> QED BY <1>1, <1>2, <2>3, <2>4, <3>1, <3>2 DEF OnItsWay
  <2> QED BY <2>3, <2>4, <2>5 DEF OwedBy
<1>4. CASE ~\E to : to # at[w] /\ Goto(w, at[w], to)
  <2>0. /\ list[w] # <<>> /\ Sent(job[w].s, NotifyMsg(Head(list[w])))
        /\ list' = [list EXCEPT ![w] = Tail(list[w])] /\ UNCHANGED <<at, job>>
    <3>1. at[w] \notin {"respond", "idle"}
      BY <1>0
    <3>2. Done(w) = "idle" /\ AfterBefore(w) = "respond"
      BY DEF Done, AfterBefore
    <3>3. CASE SendBefore(w)
      <4>1. at[w] = "sendBefore"
        BY <3>3 DEF SendBefore, SendNotify, Goto
      <4> QED BY <1>0, <1>4, <3>1, <3>2, <3>3, <4>1 DEF SendBefore, SendNotify, Typed
    <3>4. CASE SendAfter(w)
      <4>1. at[w] = "sendAfter"
        BY <3>4 DEF SendAfter, SendNotify, Goto
      <4> QED BY <1>0, <1>4, <3>1, <3>2, <3>4, <4>1 DEF SendAfter, SendNotify, Typed
    <3> QED BY <3>3, <3>4
  <2>10. list[w] \in Seq(Notifies) /\ IsInjective(list[w])
    BY <1>0 DEF Typed, NotifiesPlaced
  <2>11. PICK n0 \in Notifies : n0 = Head(list[w])
    BY <2>0, <2>10
  <2>1. /\ Sent(job[w].s, NotifyMsg(n0))
        /\ list' = [list EXCEPT ![w] = Tail(list[w])] /\ UNCHANGED <<at, job>>
    BY <2>0, <2>11
  <2>2. /\ ToSet(Tail(list[w])) = ToSet(list[w]) \ {n0} /\ n0 \in ToSet(list[w])
        /\ n0 \in Notifies
    BY <2>0, <2>10, <2>11, HeadLeaves
  <2>3. Listed(w, n0) /\ ~OnStream(n0) /\ n0.s = job[w].s /\ open[job[w].s]
    <3>1. Listed(w, n0)
      BY <2>2 DEF Listed
    <3> QED BY <1>0, <2>1, <2>2, <3>1 DEF NotifiesPlaced
  <2>4. \A n : Listed(w, n)' <=> Listed(w, n) /\ n # n0
    <3>1. list'[w] = Tail(list[w])
      BY <1>0, <2>1 DEF Typed
    <3> QED BY <2>2, <3>1 DEF Listed
  <2>5. NotifyMsg(n0) \in Messages
    BY <2>2, MessageTypes
  <2>6. \A n \in job[w].owed : OnStream(n) => OnStream(n)'
    BY <1>1, <2>1, <2>5, SentStream DEF OnStream
  <2>7. OnStream(n0)'
    BY <1>1, <2>1, <2>3, <2>5, SentStream DEF OnStream
  <2>8. ASSUME NEW n \in job[w].owed
        PROVE  OnItsWay(w, n)'
    BY <1>0, <1>1, <1>2, <2>1, <2>4, <2>6, <2>7 DEF OnItsWay
  <2>9. ASSUME at[w] = "sendAfter"
        PROVE  /\ IsSent(job[w].s, Response(job[w]))'
               /\ \A n \in job[w].owed : Between(w, n)'
    <3>1. IsSent(job[w].s, Response(job[w]))'
      BY <1>1, <2>1, <2>5, <2>9, SentStream DEF OwedBy
    <3>2. ASSUME NEW n \in job[w].owed
          PROVE  Between(w, n)'
      <4>0. Between(w, n) /\ n.s = job[w].s
        BY <1>1, <2>9 DEF OwedBy
      <4>1. CASE out'[n.s] = out[n.s]
        BY <2>1, <4>0, <4>1 DEF Between
      <4>2. CASE out'[n.s] # out[n.s]
        <5>1. /\ DOMAIN out'[n.s] = DOMAIN out[n.s] \cup {Len(out[n.s]) + 1}
              /\ out'[n.s][Len(out[n.s]) + 1] = NotifyMsg(n0)
              /\ \A i \in DOMAIN out[n.s] :
                   i < Len(out[n.s]) + 1 /\ out'[n.s][i] = out[n.s][i]
          BY <1>1, <2>1, <2>5, <4>0, <4>2, SentBehind
        <5>2. NotifyMsg(n0) # Response(job[w])
          <6>1. NotifyMsg(n0).kind \in {"before", "after"}
            BY <2>2, NotifyMessages DEF Kinds
          <6> QED BY <6>1, NotifyMessages
        <5>3. n # n0 => NotifyMsg(n) # NotifyMsg(n0)
          BY <1>1, <2>2, <2>3, NotifyMessages
        <5>4. n = n0 => n.kind # "before"
          BY <1>1, <2>3, <2>9 DEF OnItsWay
        <5>5. n.kind \in Kinds
          BY <1>1, NotifyMessages
        <5>6. ASSUME NEW i \in DOMAIN out'[n.s], NEW k \in DOMAIN out'[n.s],
                     out'[n.s][i] = NotifyMsg(n), out'[n.s][k] = Response(job[w])
              PROVE  n.kind = "before" <=> i < k
          <6>1. k \in DOMAIN out[n.s] /\ out[n.s][k] = Response(job[w])
            BY <5>1, <5>2, <5>6
          <6>2. CASE i \in DOMAIN out[n.s]
            BY <4>0, <5>1, <5>6, <6>1, <6>2 DEF Between
          <6>3. CASE i = Len(out[n.s]) + 1
            <7>1. n = n0
              BY <5>1, <5>3, <5>6, <6>3
            <7>2. ~(i < k)
              BY <1>1, <4>0, <5>1, <6>1, <6>3 DEF Typed
            <7> QED BY <5>4, <7>1, <7>2
          <6> QED BY <5>1, <5>6, <6>2, <6>3
        <5> QED BY <2>1, <5>6 DEF Between
      <4> QED BY <4>1, <4>2
    <3> QED BY <3>1, <3>2
  <2> QED BY <1>0, <2>1, <2>8, <2>9 DEF OwedBy
<1> QED BY <1>3, <1>4

LEMMA OwedResponds ==
  ASSUME Typed, JobsMatch, JobsApart, Places, NotifiesPlaced, NEW w \in Workers, OwedBy(w),
         Respond(w), at'[w] \in Responding, open'[job'[w].s]
  PROVE  OwedBy(w)'
<1>0. /\ w \in Handlers /\ job[w] \in Jobs /\ UNCHANGED <<notify, list, open>>
      /\ at[w] = "respond"
  BY DEF Handlers, Respond, Goto, JobsMatch, session
<1>1. Goto(w, "respond", "takeAfter") /\ Sent(job[w].s, Response(job[w]))
  BY <1>0 DEF Respond, Goto, Done, AfterRespond, Typed, Responding
<1>2. at'[w] = "takeAfter" /\ job'[w] = job[w] /\ open[job[w].s]
  BY <1>0, <1>1 DEF Goto, Typed
<1>3. /\ \A n \in job[w].owed : n \in Notifies /\ OnItsWay(w, n) /\ n.s = job[w].s
      /\ job[w].s \in Sessions /\ job[w].id \in Ids /\ Response(job[w]) \in Messages
  BY <1>0, MessageTypes DEF OwedBy, Jobs, OnItsWay
<1>4. \A k \in DOMAIN out[job[w].s] : out[job[w].s][k] # Response(job[w])
  <2>1. w \in With(job[w].s, job[w].id)
    BY <1>0, NoJobIsNone DEF With, Handling, Unanswered
  <2>2. Answers(job[w].s, job[w].id) = {}
    BY <1>2, <1>3, <2>1 DEF Places, Placed, Absent
  <2>3. Response(job[w]).kind = "response" /\ Response(job[w]).id = job[w].id
    BY DEF Response
  <2> QED BY <2>2, <2>3 DEF Answers
<1>5. \A n : (IsBound(n)' <=> IsBound(n)) /\ (Listed(w, n)' <=> Listed(w, n))
  BY <1>0 DEF notify, IsBound, Listed
<1>6. IsSent(job[w].s, Response(job[w]))'
  BY <1>1, <1>2, <1>3, SentStream
<1>7. ASSUME NEW n \in job[w].owed
      PROVE  OnItsWay(w, n)' /\ Between(w, n)'
  <2>1. n \in Notifies /\ OnItsWay(w, n) /\ n.s = job[w].s
    BY <1>3
  <2>2. OnStream(n) => OnStream(n)'
    BY <1>1, <1>3, <2>1, SentStream DEF OnStream
  <2>3. OnItsWay(w, n)'
    BY <1>0, <1>2, <1>5, <2>1, <2>2 DEF OnItsWay
  <2>4. n.kind = "after" => ~OnStream(n)
    BY <1>0, <2>1 DEF OnItsWay, NotifiesPlaced
  <2>5. n.kind \in {"before", "after"} /\ NotifyMsg(n) # Response(job[w])
    <3>1. NotifyMsg(n).kind \in {"before", "after"} /\ n.kind \in {"before", "after"}
      BY <2>1, NotifyMessages DEF Kinds
    <3> QED BY <3>1, NotifyMessages
  <2>6. \/ out'[n.s] = out[n.s]
        \/ /\ DOMAIN out'[n.s] = DOMAIN out[n.s] \cup {Len(out[n.s]) + 1}
           /\ out'[n.s][Len(out[n.s]) + 1] = Response(job[w])
           /\ \A i \in DOMAIN out[n.s] :
                i < Len(out[n.s]) + 1 /\ out'[n.s][i] = out[n.s][i]
    BY <1>1, <1>3, <2>1, SentBehind
  <2>7. ASSUME NEW i \in DOMAIN out'[n.s], NEW k \in DOMAIN out'[n.s],
               out'[n.s][i] = NotifyMsg(n), out'[n.s][k] = Response(job[w])
        PROVE  n.kind = "before" <=> i < k
    <3>1. \/ k = Len(out[n.s]) + 1 /\ k \notin DOMAIN out[n.s]
          \/ out'[n.s] # out[n.s]
      BY <1>4, <2>1, <2>7
    <3>2. /\ k = Len(out[n.s]) + 1 /\ i \in DOMAIN out[n.s] /\ i < Len(out[n.s]) + 1
          /\ out[n.s][i] = NotifyMsg(n)
      BY <1>4, <2>1, <2>5, <2>6, <2>7, <3>1
    <3>3. n.kind = "before"
      BY <2>4, <2>5, <3>2 DEF OnStream, IsSent
    <3> QED BY <3>2, <3>3
  <2>8. Between(w, n)'
    BY <1>2, <2>7 DEF Between
  <2> QED BY <2>3, <2>8
<1> QED BY <1>2, <1>6, <1>7 DEF OwedBy

\* Every step keeps what the workers owe: one step per action.
LEMMA OwedStep ==
  ASSUME Typed, JobsMatch, Roles, Places, JobsApart, NotifiesPlaced, OwedKept, [Next]_vars
  PROVE  OwedKept'
<1> SUFFICES ASSUME NEW w \in Workers, at'[w] \in Responding, open'[job'[w].s]
             PROVE  OwedBy(w)'
  BY DEF OwedKept, OwedBy
<1>0. /\ w \in Handlers /\ w \notin Sessions
      /\ at[w] \in Responding => job[w] \in Jobs /\ job[w].s \in Sessions
  BY FlowAssumption DEF Handlers, JobsMatch, Responding, Jobs
\* The worker itself does not move: the others must leave alone what it owes.
<1>1. ASSUME at'[w] = at[w], job'[w] = job[w], list'[w] = list[w],
             open'[job[w].s] => open[job[w].s],
             \A n \in Notifies : OwedBy(w) /\ n \in job[w].owed /\ IsBound(n) => IsBound(n)',
             \/ UNCHANGED out
             \/ \E s \in Sessions, m \in Messages :
                  Sent(s, m) /\ (OwedBy(w) => Foreign(w, s, m))
      PROVE  OwedBy(w)'
  <2>1. job[w] \in Jobs /\ OwedBy(w)
    BY <1>0, <1>1 DEF OwedKept, OwedBy
  <2>2. \A n \in job[w].owed : IsBound(n) => IsBound(n)'
    BY <1>1, <2>1 DEF Jobs
  <2> QED BY <1>1, <2>1, <2>2, OwedByOthers
<1>2. ASSUME NEW h \in Handlers, h # w, NEW to, NEW from, Goto(h, from, to)
      PROVE  at'[w] = at[w] /\ job'[w] = job[w]
  BY <1>0, <1>2 DEF Goto, Typed
<1>3. ASSUME at'[w] = at[w], job'[w] = job[w], UNCHANGED <<list, open, notify>>,
             \/ UNCHANGED out
             \/ \E j \in Jobs : SendError(j)
      PROVE  OwedBy(w)'
  <2>1. job[w] \in Jobs
    BY <1>0, <1>3
  <2>2. ASSUME NEW j \in Jobs, SendError(j)
        PROVE  j.s \in Sessions /\ ErrorFor(j) \in Messages /\ Sent(j.s, ErrorFor(j))
               /\ Foreign(w, j.s, ErrorFor(j))
    BY <2>1, <2>2, MessageTypes, ErrorsAreForeign DEF SendError, Jobs
  <2> QED BY <1>1, <1>3, <2>2 DEF notify, IsBound
<1>4. ASSUME UNCHANGED <<at, job, list, open, notify, out>>
      PROVE  OwedBy(w)'
  BY <1>3, <1>4
<1>5. ASSUME NEW s \in Sessions, Receive(s)
      PROVE  OwedBy(w)'
  <2>1. PICK j \in [s : {s}, id : {received[s] + 1}, grid : Numbers, hello : BOOLEAN, owed : {{}}] :
          /\ UNCHANGED <<at, job>> \/ (at' = [at EXCEPT ![s] = "admitting"] /\ job' = [job EXCEPT ![s] = j])
          /\ UNCHANGED out \/ SendError(j)
    BY <1>5 DEF Receive
  <2>2. j \in Jobs
    BY <1>5, NextId DEF Receive, Jobs
  <2>3. at'[w] = at[w] /\ job'[w] = job[w] /\ UNCHANGED <<list, open, notify>>
    BY <1>0, <1>5, <2>1 DEF Receive, Typed, session
  <2> QED BY <1>3, <2>1, <2>2, <2>3
<1>6. ASSUME NEW s \in Sessions, Connection(s)
      PROVE  OwedBy(w)'
  <2>1. s \in Handlers /\ s # w
    BY <1>0 DEF Handlers
  <2>2. PICK from \in {"admitting", "counting", "submitting", "ending", "login"} :
          \E to : Goto(s, from, to)
    BY <1>6 DEF Connection, AllowUpstreamRequest, OnUpstreamStart, SubmitTask, OnUpstreamEnd,
       HandleLogin
  <2>3. UNCHANGED out \/ SendError(job[s])
    BY <1>6 DEF Connection, AllowUpstreamRequest, OnUpstreamStart, SubmitTask, Queued,
       OnUpstreamEnd, HandleLogin
  <2>4. UNCHANGED out \/ job[s] \in Jobs
    <3>1. CASE from = "ending"
      BY <1>6, <2>2, <3>1 DEF Connection, AllowUpstreamRequest, OnUpstreamStart, SubmitTask,
         OnUpstreamEnd, HandleLogin, Goto
    <3>2. CASE from # "ending"
      BY <2>1, <2>2, <3>2 DEF JobsMatch, Goto
    <3> QED BY <3>1, <3>2
  <2>5. UNCHANGED <<list, open, notify>>
    BY <1>6 DEF Connection, AllowUpstreamRequest, OnUpstreamStart, SubmitTask, OnUpstreamEnd,
       HandleLogin, session
  <2> QED BY <1>2, <1>3, <2>1, <2>2, <2>3, <2>4, <2>5
<1>7. ASSUME NEW v \in Workers, Worker(v)
      PROVE  OwedBy(w)'
  <2>1. v # w
    BY <1>0, <1>7 DEF Worker, TakeTask, StopWorker, Goto, Typed, Responding
  <2>2. at'[w] = at[w] /\ job'[w] = job[w]
    BY <1>0, <1>7, <2>1 DEF Worker, TakeTask, StopWorker, Goto, Typed, Handlers
  <2> QED BY <1>3, <1>7, <2>2 DEF Worker, TakeTask, StopWorker, session
<1>8. ASSUME NEW h \in Handlers, UpstreamReturns(h)
      PROVE  OwedBy(w)'
  <2>1. CASE h = w
    BY <1>8, <2>1, OwedReturns
  <2>2. CASE h # w
    <3>1. job[h] \in Jobs /\ UNCHANGED <<list, open, notify>>
      BY <1>8 DEF UpstreamReturns, Goto, JobsMatch, session
    <3>2. CASE Goto(h, "calling", Done(h)) /\ SendError(job[h])
      BY <1>2, <1>3, <2>2, <3>1, <3>2
    <3>3. CASE ~(Goto(h, "calling", Done(h)) /\ SendError(job[h]))
      <4>1. at'[w] = at[w] /\ job'[w] = job[w] /\ UNCHANGED out
        BY <1>0, <1>8, <2>2, <3>3, OwedTaken DEF UpstreamReturns, Typed
      <4> QED BY <1>3, <3>1, <4>1
    <3> QED BY <3>2, <3>3
  <2> QED BY <2>1, <2>2
\* The worker itself moves: it kept what it owed so far.
<1>9. ASSUME NEW h \in Handlers, h = w, NEW from, NEW to, Goto(h, from, to), from \in Responding,
             UNCHANGED open
      PROVE  OwedBy(w)
  <2>1. job'[w] = job[w]
    BY <1>0, <1>9 DEF Goto, Typed, Responding
  <2> QED BY <1>0, <1>9, <2>1 DEF OwedKept, OwedBy, Goto
<1>10. ASSUME NEW h \in Handlers, TakeBefore(h) \/ TakeAfter(h)
       PROVE  OwedBy(w)'
  <2>1. UNCHANGED <<open, out, job>> /\ job[h] \in Jobs
    BY <1>10 DEF TakeBefore, TakeAfter, Take, session, Goto, JobsMatch, Typed
  <2>2. CASE h = w
    <3>1. at[w] \in Responding
      BY <1>10, <2>2 DEF TakeBefore, TakeAfter, Take, Goto, Responding
    <3>2. OwedBy(w)
      BY <2>1, <3>1 DEF OwedKept, OwedBy
    <3> QED BY <1>10, <2>2, <3>2, OwedTakes
  <2>3. CASE h # w
    <3>1. PICK kind \in Kinds :
            /\ \A n \in Notifies : IsBound(n)' <=>
                 IsBound(n) /\ ~(n.kind = kind /\ n.s = job[h].s /\ n.grid = job[h].grid)
            /\ \A g \in Handlers : g # h => list'[g] = list[g] /\ at'[g] = at[g]
      BY <1>10, TakePlaced DEF TakeBefore, TakeAfter, Kinds
    <3>2. at'[w] = at[w] /\ job'[w] = job[w] /\ list'[w] = list[w]
      BY <1>0, <2>1, <2>3, <3>1
    <3>3. job[w] \in Jobs
      BY <1>0, <3>2
    <3>4. Distinct(job[w], job[h])
      BY <1>0, <2>1, <2>3, <3>3 DEF JobsApart
    <3>5. ASSUME NEW n \in Notifies, OwedBy(w), n \in job[w].owed, IsBound(n)
          PROVE  IsBound(n)'
      <4>1. n.s = job[w].s /\ n.grid = job[w].grid /\ n.grid # 0
        BY <3>5, NotifyMessages DEF OwedBy, OnItsWay
      <4> QED BY <3>1, <3>4, <3>5, <4>1 DEF Distinct
    <3> QED BY <1>1, <2>1, <3>2, <3>5
  <2> QED BY <2>2, <2>3
<1>11. ASSUME NEW h \in Handlers, SendBefore(h) \/ SendAfter(h)
       PROVE  OwedBy(w)'
  <2>1. /\ UNCHANGED <<open, notify>> /\ job[h] \in Jobs
        /\ at[h] \in {"sendBefore", "sendAfter"}
    BY <1>11 DEF SendBefore, SendAfter, SendNotify, session, Goto, JobsMatch
  <2>2. CASE h = w
    <3>1. job'[w] = job[w]
      <4>1. job' = job \/ \E to : Goto(w, at[w], to)
        BY <1>11, <2>2 DEF SendBefore, SendAfter, SendNotify, Goto
      <4>2. ASSUME NEW to, Goto(w, at[w], to)
            PROVE  job'[w] = job[w]
        BY <1>0, <4>2 DEF Goto, Typed, Responding
      <4> QED BY <4>1, <4>2
    <3>2. OwedBy(w)
      BY <2>1, <2>2, <3>1 DEF OwedKept, OwedBy, Responding
    <3> QED BY <1>11, <2>2, <3>2, OwedSends
  <2>3. CASE h # w
    <3>1. at'[w] = at[w] /\ job'[w] = job[w] /\ list'[w] = list[w]
      BY <1>0, <1>11, <2>3 DEF SendBefore, SendAfter, SendNotify, Goto, Typed
    <3>2. job[w] \in Jobs
      BY <1>0, <3>1
    <3>3. \/ UNCHANGED out
          \/ list[h] # <<>> /\ Sent(job[h].s, NotifyMsg(Head(list[h])))
      BY <1>11 DEF SendBefore, SendAfter, SendNotify, NotSent
    <3>4. ASSUME list[h] # <<>>, Sent(job[h].s, NotifyMsg(Head(list[h])))
          PROVE  \E s \in Sessions, m \in Messages :
                   Sent(s, m) /\ (OwedBy(w) => Foreign(w, s, m))
      <4>1. list[h] \in Seq(Notifies) /\ IsInjective(list[h])
        BY DEF Typed, NotifiesPlaced
      <4>2. Head(list[h]) \in Notifies /\ Listed(h, Head(list[h]))
        BY <3>4, <4>1, HeadLeaves DEF Listed
      <4>3. /\ Head(list[h]).s = job[h].s /\ Head(list[h]).grid = job[h].grid
            /\ job[h].s \in Sessions /\ NotifyMsg(Head(list[h])) \in Messages
        BY <2>1, <4>2, MessageTypes DEF NotifiesPlaced, Jobs
      <4>4. OwedBy(w) => Foreign(w, job[h].s, NotifyMsg(Head(list[h])))
        BY <2>1, <2>3, <3>2, <4>2, <4>3, OthersAreForeign
      <4> QED BY <3>4, <4>3, <4>4
    <3> QED BY <1>1, <2>1, <3>1, <3>3, <3>4 DEF notify, IsBound
  <2> QED BY <2>2, <2>3
<1>12. ASSUME NEW h \in Handlers, Respond(h)
       PROVE  OwedBy(w)'
  <2>1. /\ UNCHANGED <<list, open, notify>> /\ job[h] \in Jobs /\ at[h] = "respond"
        /\ \E to : Goto(h, "respond", to)
        /\ UNCHANGED out \/ Sent(job[h].s, Response(job[h]))
    BY <1>12 DEF Respond, session, NotSent, Goto, JobsMatch
  <2>2. CASE h = w
    <3>1. OwedBy(w)
      BY <1>9, <2>1, <2>2 DEF Responding
    <3> QED BY <1>12, <2>2, <3>1, OwedResponds
  <2>3. CASE h # w
    <3>1. at'[w] = at[w] /\ job'[w] = job[w]
      BY <1>2, <2>1, <2>3
    <3>2. job[h].s \in Sessions /\ Response(job[h]) \in Messages /\ job[w] \in Jobs
      BY <1>0, <2>1, <3>1, MessageTypes DEF Jobs
    <3>3. OwedBy(w) => Foreign(w, job[h].s, Response(job[h]))
      BY <2>1, <2>3, <3>2, OthersAreForeign
    <3> QED BY <1>1, <2>1, <3>1, <3>2, <3>3 DEF notify, IsBound
  <2> QED BY <2>2, <2>3
<1>13. ASSUME NEW n0 \in Notifies, BindNotify(n0)
       PROVE  OwedBy(w)'
  <2>1. \A n \in Notifies : IsBound(n) => IsBound(n)'
    BY <1>13, BindPlaced
  <2> QED BY <1>1, <1>13, <2>1 DEF BindNotify, session
<1>14. ASSUME NEW s \in Sessions, EndSession(s)
       PROVE  OwedBy(w)'
  <2>1. UNCHANGED <<at, job, list, notify, out>> /\ (open'[job[w].s] => open[job[w].s])
    BY <1>0, <1>14 DEF EndSession, Typed
  <2> QED BY <1>1, <2>1 DEF notify, IsBound
<1>15. CASE CloseStopCh \/ Stopped \/ UNCHANGED vars
  BY <1>4, <1>15 DEF CloseStopCh, Stopped, vars, notify, session
<1> QED
  BY <1>5, <1>6, <1>7, <1>8, <1>10, <1>11, <1>12, <1>13, <1>14, <1>15 DEF Next, Answer

NotifyInv == JobsApart /\ NotifiesPlaced /\ OwedKept

LEMMA InitNotifyInv == Init => NotifyInv
<1> SUFFICES ASSUME Init
             PROVE  NotifyInv
  OBVIOUS
<1>1. JobsApart
  BY NoJobIsNone DEF Init, JobsApart
<1>2. NotifiesPlaced
  <2>1. \A n \in Notifies : ~IsBound(n) /\ ~OnStream(n)
    BY NotifyMessages DEF Init, IsBound, Key, OnStream, IsSent, ToSet
  <2>2. \A h \in Handlers, n \in Notifies : ~Listed(h, n)
    BY DEF Init, Listed, ToSet
  <2>3. \A k \in DOMAIN bound : bound[k] = <<>>
    BY DEF Init
  <2>4. \A h \in Handlers : list[h] = <<>>
    BY DEF Init
  <2> QED BY <2>1, <2>2, <2>3, <2>4 DEF NotifiesPlaced, ToSet, IsInjective
<1>3. OwedKept
  BY DEF Init, OwedKept, Handlers, Responding
<1> QED BY <1>1, <1>2, <1>3 DEF NotifyInv

\* Whatever the other workers and connections do meanwhile, requests of one session are
\* told apart by their numbers, a notify is bound, taken or sent and never two of these,
\* and a worker has what it owes at hand until it is on the stream.
THEOREM NotifiesAreKept == Spec => []NotifyInv
<1>1. Init => NotifyInv
  BY InitNotifyInv
<1>2. FlowInv /\ NotifyInv /\ [Next]_vars => NotifyInv'
  BY ApartStep, PlacedStep, OwedStep DEF FlowInv, NotifyInv
<1> QED BY <1>1, <1>2, InvariantHolds, PTL DEF Spec

\* A worker that has sent its last notify has put every notify bound when upstream
\* answered on the stream, on its side of the response
\* (processTask, GetAndRemoveBeforeNotifies, GetAndRemoveAfterNotifies).
THEOREM NotifiesSurround == Spec => []NotifiesInPlace
<1>1. FlowInv /\ NotifyInv => NotifiesInPlace
  <2> SUFFICES ASSUME FlowInv, NotifyInv, NEW w \in Workers,
                      at[w] = "sendAfter", list[w] = <<>>, open[job[w].s],
                      NEW n \in job[w].owed
               PROVE  /\ IsSent(n.s, NotifyMsg(n))
                      /\ n.kind = "before" <=>
                           Position(n.s, NotifyMsg(n)) < Position(n.s, Response(job[w]))
    BY DEF NotifiesInPlace
  <2>1. /\ w \in Handlers /\ job[w] \in Jobs /\ n \in Notifies /\ n.kind \in {"before", "after"}
        /\ OnItsWay(w, n) /\ Between(w, n) /\ IsSent(job[w].s, Response(job[w]))
    <3>1. w \in Handlers /\ job[w] \in Jobs
      BY DEF FlowInv, JobsMatch, Handlers
    <3>2. n \in Notifies /\ n.kind \in {"before", "after"}
      BY <3>1, NotifyMessages DEF Jobs, Kinds
    <3> QED BY <3>1, <3>2 DEF NotifyInv, OwedKept, Responding
  <2>2. ~Listed(w, n)
    BY DEF Listed, ToSet
  <2>3. IsSent(n.s, NotifyMsg(n)) /\ n.s = job[w].s
    BY <2>1, <2>2 DEF OnItsWay, OnStream
  <2>4. /\ Position(n.s, NotifyMsg(n)) \in DOMAIN out[n.s]
        /\ out[n.s][Position(n.s, NotifyMsg(n))] = NotifyMsg(n)
    BY <2>3 DEF IsSent, Position
  <2>5. /\ Position(n.s, Response(job[w])) \in DOMAIN out[n.s]
        /\ out[n.s][Position(n.s, Response(job[w]))] = Response(job[w])
    BY <2>1, <2>3 DEF IsSent, Position
  <2> QED BY <2>1, <2>3, <2>4, <2>5 DEF Between
<1> QED BY <1>1, InvariantHolds, NotifiesAreKept, PTL

=============================================================================
