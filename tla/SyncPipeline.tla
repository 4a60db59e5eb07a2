---------------------------- MODULE SyncPipeline ----------------------------
(***************************************************************************)
(* How the sessions of a primary reach its backup (internal/backup:        *)
(* sync_service.go, sync_receiver.go, data_validator.go and the periodic   *)
(* synchronisation of backup_manager.go).                                  *)
(*                                                                         *)
(* Hooks, goroutines that a promotion starts and nothing ends, walk over   *)
(* all sessions and offer the state of each to the manager's service.  The *)
(* service keeps offers in a bounded channel; its processor gathers them   *)
(* in a batch and writes the batch to the connection its connection        *)
(* manager made.  On the backup a handler per connection reads, validates  *)
(* and records them.  A demotion stops the service while all of these run; *)
(* a promotion makes a new one.  The backup's receiver stops and starts    *)
(* too, and connections break.                                             *)
(*                                                                         *)
(* A session's state is the number of changes it went through.  Rejected   *)
(* are the states ValidateSession refuses: not logged in yet, or a queue   *)
(* whose acknowledged number is above its sent one, as after a reconnect.  *)
(***************************************************************************)
EXTENDS Naturals, Sequences, FiniteSets

CONSTANTS
  Sessions,
  FullSync,      \* stands for the session of a full synchronisation request
  Hooks,         \* goroutines of periodicSync
  Operators,     \* goroutines that call TriggerSync
  BatchSize, BufferSize,
  Rejected,
  Conns,         \* slots for connections
  WireCapacity,  \* messages in a connection's buffers; beyond it a write blocks
  MaxVersion, MaxServices, MaxFaults      \* bounds

ASSUME SyncAssumption ==
  /\ FullSync \notin Sessions /\ Hooks \cap Operators = {}
  /\ BatchSize \in Nat \ {0} /\ BufferSize \in Nat \ {0}
  /\ 0 \notin Conns /\ Rejected \subseteq Nat
  /\ WireCapacity \in Nat \ {0} /\ MaxVersion \in Nat /\ MaxServices \in Nat \ {0} /\ MaxFaults \in Nat

Services == 1..MaxServices
Callers == Hooks \cup Operators
Messages == [session: Sessions \cup {FullSync}, version: 0..MaxVersion]

VARIABLES
  version,    \* the state of each session on the primary
  \* the backup manager
  primary,    \* currentMode = ModePrimary
  service,    \* syncService; 0 is nil
  created,    \* services made so far
  hooksDue,   \* goroutines that sleep before startSessionSyncHooks
  panicked,   \* a goroutine panicked: the process is gone
  \* per caller of a service
  at, todo,   \* where it is, and the sessions it still has to sync
  held,       \* the service it called
  offer,      \* the message it made
  \* per service
  state,      \* how far Stop is
  chan,       \* syncChan
  batch,
  processor, manager,      \* the goroutines syncProcessor and connectionManager
  peer,       \* peerConn; 0 is nil
  \* per connection
  link,       \* "shut": closed by the sender, "broken": not to its knowledge
  wire,       \* written and not read yet
  handler,    \* handleConnection
  stale,      \* the context of its receiver is cancelled
  \* the backup
  receiver,
  copy,       \* the state last recorded of each session
  faults

managerVars == <<primary, service, created, hooksDue>>
callerVars == <<at, todo, held, offer>>
goroutines == <<processor, manager>>
linkVars == <<link, wire, handler, stale>>
senderVars == <<managerVars, callerVars, panicked, state, chan, batch, goroutines, peer>>
backupVars == <<receiver, copy>>
vars == <<version, senderVars, linkVars, backupVars, faults>>

NoOffer == [session |-> FullSync, version |-> 0]

Init ==
  /\ version = [s \in Sessions |-> 0]
  /\ primary = TRUE /\ service = 1 /\ created = 1 /\ hooksDue = 1 /\ panicked = FALSE
  /\ at = [c \in Callers |-> IF c \in Hooks THEN "absent" ELSE "idle"]
  /\ todo = [c \in Callers |-> {}]
  /\ held = [c \in Callers |-> 0]
  /\ offer = [c \in Callers |-> NoOffer]
  /\ state = [g \in Services |-> IF g = 1 THEN "running" ELSE "unborn"]
  /\ chan = [g \in Services |-> <<>>] /\ batch = [g \in Services |-> <<>>]
  /\ processor = [g \in Services |-> "select"]
  /\ manager = [g \in Services |-> "on"]
  /\ peer = [g \in Services |-> 0]
  /\ link = [k \in Conns |-> "free"] /\ wire = [k \in Conns |-> <<>>]
  /\ handler = [k \in Conns |-> "none"] /\ stale = [k \in Conns |-> FALSE]
  /\ receiver = "up" /\ copy = [s \in Sessions |-> 0]
  /\ faults = 0

Change(s) ==
  /\ version[s] < MaxVersion
  /\ version' = [version EXCEPT ![s] = @ + 1]
  /\ UNCHANGED <<senderVars, linkVars, backupVars, faults>>

-----------------------------------------------------------------------------
(* The callers: periodicSync and TriggerSync                               *)

outsideCalls == <<version, managerVars, state, batch, goroutines, peer, linkVars,
                  backupVars, faults>>

\* The sleep after a start or a promotion ends; without a service no hook starts.
StartHook ==
  /\ ~panicked
  /\ hooksDue > 0
  /\ hooksDue' = hooksDue - 1
  /\ IF service = 0
       THEN UNCHANGED at
       ELSE \E h \in Hooks : at[h] = "absent" /\ at' = [at EXCEPT ![h] = "idle"]
  /\ UNCHANGED <<version, primary, service, created, todo, held, offer, panicked, state, chan,
                 batch, goroutines, peer, linkVars, backupVars, faults>>

Begin(c, work) ==
  /\ ~panicked
  /\ at[c] = "idle" /\ service # 0
  /\ at' = [at EXCEPT ![c] = "round"]
  /\ todo' = [todo EXCEPT ![c] = work]
  /\ UNCHANGED <<held, offer, panicked, chan, outsideCalls>>

Tick(h) == primary /\ Begin(h, Sessions)
TriggerSync(o) == Begin(o, {FullSync})

VersionOf(s) == IF s = FullSync THEN 0 ELSE version[s]

\* The manager's service is read again for every session and may be nil by now.  If it is
\* connected, a message is made of the session's state at this time.
SyncSession(c) ==
  /\ ~panicked
  /\ at[c] = "round"
  /\ \E s \in todo[c] :
       /\ todo' = [todo EXCEPT ![c] = @ \ {s}]
       /\ panicked' = (service = 0)
       /\ IF service # 0 /\ peer[service] # 0
            THEN /\ at' = [at EXCEPT ![c] = "offering"]
                 /\ held' = [held EXCEPT ![c] = service]
                 /\ offer' = [offer EXCEPT ![c] = [session |-> s, version |-> VersionOf(s)]]
            ELSE /\ at' = [at EXCEPT ![c] = IF todo[c] = {s} THEN "idle" ELSE @]
                 /\ UNCHANGED <<held, offer>>
  /\ UNCHANGED <<chan, outsideCalls>>

\* SyncSession returns: on to the next session, or the round is over.
Returned(c) ==
  /\ at' = [at EXCEPT ![c] = IF todo[c] = {} THEN "idle" ELSE "round"]
  /\ held' = [held EXCEPT ![c] = 0]
  /\ offer' = [offer EXCEPT ![c] = NoOffer]

ChannelClosed_WithLink(g) == state[g] = "closed" \/ peer[g] = 0
ChannelClosed(g) == state[g] = "closed"

\* The channel may have been closed since, or be full.
Accept(c) ==
  /\ ~panicked
  /\ at[c] = "offering"
  /\ ~ChannelClosed(held[c])
  /\ Len(chan[held[c]]) < BufferSize
  /\ chan' = [chan EXCEPT ![held[c]] = Append(@, offer[c])]
  /\ Returned(c)
  /\ UNCHANGED <<todo, panicked, outsideCalls>>

Decline(c) ==
  /\ ~panicked
  /\ at[c] = "offering"
  /\ ~ChannelClosed(held[c])
  /\ Len(chan[held[c]]) = BufferSize
  /\ Returned(c)
  /\ UNCHANGED <<todo, panicked, chan, outsideCalls>>

SendOnClosed(c) ==
  /\ ~panicked
  /\ at[c] = "offering"
  /\ ChannelClosed(held[c])
  /\ panicked' = TRUE
  /\ UNCHANGED <<callerVars, chan, outsideCalls>>

-----------------------------------------------------------------------------
(* The service's processor                                                 *)

outsideProcessor == <<version, managerVars, callerVars, panicked, state, manager,
                      backupVars, faults>>
Cancelled(g) == state[g] \in {"cancelled", "unlinked", "closed"}

\* sendBatch: nothing is sent without a connection.
SendBatch(g, b, then) ==
  IF b = <<>> \/ peer[g] = 0
    THEN batch' = [batch EXCEPT ![g] = <<>>] /\ processor' = [processor EXCEPT ![g] = then]
    ELSE /\ batch' = [batch EXCEPT ![g] = b]
         /\ processor' = [processor EXCEPT ![g] = IF then = "select" THEN "sending" ELSE "last"]

IsUrgent(m) == m.session = FullSync
Due(b) == Len(b) >= BatchSize \/ IsUrgent(b[Len(b)])

Gathered_First(b, m) == <<m>> \o b
Gathered(b, m) == Append(b, m)

TakeMessage(g) ==
  /\ ~panicked
  /\ processor[g] = "select" /\ chan[g] # <<>>
  /\ chan' = [chan EXCEPT ![g] = Tail(@)]
  /\ LET b == Gathered(batch[g], Head(chan[g]))
     IN IF Due(b)
          THEN SendBatch(g, b, "select")
          ELSE batch' = [batch EXCEPT ![g] = b] /\ UNCHANGED processor
  /\ UNCHANGED <<peer, linkVars, outsideProcessor>>

BatchTimeout(g) ==
  /\ ~panicked
  /\ processor[g] = "select" /\ batch[g] # <<>>
  /\ SendBatch(g, batch[g], "select")
  /\ UNCHANGED <<chan, peer, linkVars, outsideProcessor>>

\* select may prefer the channel while both are ready.
SeeCancelled(g) ==
  /\ ~panicked
  /\ processor[g] = "select" /\ Cancelled(g)
  /\ SendBatch(g, batch[g], "ended")
  /\ UNCHANGED <<chan, peer, linkVars, outsideProcessor>>

SeeClosed(g) ==
  /\ ~panicked
  /\ processor[g] = "select" /\ ChannelClosed(g) /\ chan[g] = <<>>
  /\ processor' = [processor EXCEPT ![g] = "ended"]
  /\ batch' = [batch EXCEPT ![g] = <<>>]
  /\ UNCHANGED <<chan, peer, linkVars, outsideProcessor>>

\* What a write leaves of the batch.
Remaining_Kept(g, rest) ==
  /\ batch' = IF rest = <<>> THEN batch ELSE [batch EXCEPT ![g] = rest]
  /\ processor' = IF rest # <<>> THEN processor
                  ELSE [processor EXCEPT ![g] = IF @ = "last" THEN "ended" ELSE "select"]
Remaining_Dropped(g, rest) ==
  /\ batch' = [batch EXCEPT ![g] = <<>>]
  /\ processor' = [processor EXCEPT ![g] = IF @ = "last" THEN "ended" ELSE "select"]
Remaining(g, rest) ==
  /\ batch' = [batch EXCEPT ![g] = rest]
  /\ processor' = IF rest # <<>> THEN processor
                  ELSE [processor EXCEPT ![g] = IF @ = "last" THEN "ended" ELSE "select"]

\* A write to a broken connection may succeed without effect.
SendMessage(g) ==
  /\ ~panicked
  /\ processor[g] \in {"sending", "last"} /\ peer[g] # 0
  /\ Len(wire[peer[g]]) < WireCapacity
  /\ wire' = IF link[peer[g]] = "open"
               THEN [wire EXCEPT ![peer[g]] = Append(@, Head(batch[g]))]
               ELSE wire
  /\ Remaining(g, Tail(batch[g]))
  /\ UNCHANGED <<chan, peer, link, handler, stale, outsideProcessor>>

Closed_NotReset(g) == peer
Closed(g) == [peer EXCEPT ![g] = 0]
Hangup(k) == [link EXCEPT ![k] = IF handler[k] = "none" THEN "free" ELSE "shut"]

\* The write fails: closeConnection, and the rest of the batch is not sent.
SendFails(g) ==
  /\ ~panicked
  /\ processor[g] \in {"sending", "last"}
  /\ \/ peer[g] = 0 /\ UNCHANGED <<peer, link>>
     \/ /\ peer[g] # 0 /\ link[peer[g]] = "broken"
        /\ link' = Hangup(peer[g])
        /\ peer' = Closed(g)
  /\ Remaining(g, <<>>)
  /\ UNCHANGED <<chan, wire, handler, stale, outsideProcessor>>

-----------------------------------------------------------------------------
(* The service's connection manager                                        *)

FreeConns == {k \in Conns : link[k] = "free"}

\* At a tick, or after SendFails; reconnectCh and ticker may win over a cancelled context.
TryConnect(g) ==
  /\ ~panicked
  /\ state[g] # "unborn" /\ manager[g] = "on" /\ peer[g] = 0
  /\ receiver # "down"
  /\ FreeConns # {}
  /\ LET k == CHOOSE k \in FreeConns : TRUE
     IN
       /\ peer' = [peer EXCEPT ![g] = k]
       /\ link' = [link EXCEPT ![k] = "open"]
       /\ handler' = [handler EXCEPT ![k] = "backlog"]
       /\ stale' = [stale EXCEPT ![k] = FALSE]
  /\ UNCHANGED <<version, managerVars, callerVars, panicked, state, chan, batch, goroutines,
                 wire, backupVars, faults>>

ManagerEnds(g) ==
  /\ ~panicked
  /\ manager[g] = "on" /\ Cancelled(g)
  /\ manager' = [manager EXCEPT ![g] = "ended"]
  /\ UNCHANGED <<version, managerVars, callerVars, panicked, state, chan, batch, processor,
                 peer, linkVars, backupVars, faults>>

-----------------------------------------------------------------------------
(* onModeSwitch: Stop of the service, step by step, and a new one          *)

outsideSwitch == <<version, callerVars, panicked, chan, batch, goroutines, wire, handler, stale,
                   backupVars, faults>>

\* The last service is not stopped, a bound.
Demote ==
  /\ ~panicked
  /\ primary /\ service # 0 /\ created < MaxServices
  /\ primary' = FALSE
  /\ UNCHANGED <<service, created, hooksDue, state, peer, link, outsideSwitch>>

StopStep(from, to) ==
  /\ ~panicked
  /\ ~primary /\ service # 0 /\ state[service] = from
  /\ state' = [state EXCEPT ![service] = to]
  /\ UNCHANGED <<primary, created, hooksDue, outsideSwitch>>

Cancel == StopStep("running", "cancelled") /\ UNCHANGED <<service, peer, link>>

CloseConnection ==
  /\ StopStep("cancelled", "unlinked")
  /\ IF peer[service] = 0
       THEN UNCHANGED <<peer, link>>
       ELSE link' = Hangup(peer[service]) /\ peer' = Closed(service)
  /\ UNCHANGED service

CloseChannel == StopStep("unlinked", "closed") /\ UNCHANGED <<service, peer, link>>

ForgetService ==
  /\ ~panicked
  /\ ~primary /\ service # 0 /\ state[service] = "closed"
  /\ service' = 0
  /\ UNCHANGED <<primary, created, hooksDue, state, peer, link, outsideSwitch>>

Promote ==
  /\ ~panicked
  /\ ~primary /\ service = 0
  /\ primary' = TRUE
  /\ created' = created + 1
  /\ service' = created'
  /\ hooksDue' = hooksDue + 1
  /\ state' = [state EXCEPT ![created'] = "running"]
  /\ UNCHANGED <<peer, link, outsideSwitch>>

-----------------------------------------------------------------------------
(* The backup                                                              *)

\* Accept, which may be under way when Stop cancels the context.
AcceptConnection(k) ==
  /\ handler[k] = "backlog" /\ receiver # "down"
  /\ handler' = [handler EXCEPT ![k] = "accepted"]
  /\ stale' = [stale EXCEPT ![k] = receiver = "cancelled"]
  /\ UNCHANGED <<version, senderVars, link, wire, backupVars, faults>>

RegisterConnection(k) ==
  /\ handler[k] = "accepted"
  /\ handler' = [handler EXCEPT ![k] = "top"]
  /\ UNCHANGED <<version, senderVars, link, wire, stale, backupVars, faults>>

\* The handler returns and closes its connection.
Return(k) ==
  /\ handler' = [handler EXCEPT ![k] = "none"]
  /\ wire' = [wire EXCEPT ![k] = <<>>]
  /\ link' = [link EXCEPT ![k] = IF @ = "shut" THEN "free" ELSE "broken"]
  /\ UNCHANGED <<version, senderVars, stale, backupVars>>

CheckContext_Never(k) ==
  /\ handler[k] = "top"
  /\ handler' = [handler EXCEPT ![k] = "read"]
  /\ UNCHANGED <<version, senderVars, link, wire, stale, backupVars, faults>>
CheckContext(k) ==
  /\ handler[k] = "top"
  /\ IF stale[k]
       THEN Return(k)
       ELSE /\ handler' = [handler EXCEPT ![k] = "read"]
            /\ UNCHANGED <<version, senderVars, link, wire, stale, backupVars>>
  /\ UNCHANGED faults

ValidateSession(m) == m.version \notin Rejected

\* readMessage, processMessage: a state that fails validation leaves an error behind only.
HandleMessage(k) ==
  /\ handler[k] = "read" /\ wire[k] # <<>>
  /\ LET m == Head(wire[k])
     IN copy' = IF m.session \in Sessions /\ ValidateSession(m)
                  THEN [copy EXCEPT ![m.session] = m.version]
                  ELSE copy
  /\ wire' = [wire EXCEPT ![k] = Tail(@)]
  /\ handler' = [handler EXCEPT ![k] = "top"]
  /\ UNCHANGED <<version, senderVars, link, stale, receiver, faults>>

\* The connection is at its end.
ReadFails(k) ==
  /\ handler[k] = "read" /\ wire[k] = <<>> /\ link[k] # "open"
  /\ Return(k)
  /\ UNCHANGED faults

\* A message that has not arrived whole: Read returns what is there, which does not decode.
ShortRead(k) ==
  /\ faults < MaxFaults
  /\ handler[k] = "read" /\ wire[k] # <<>>
  /\ Return(k)
  /\ faults' = faults + 1

\* onModeSwitch of the backup, and Stop of its receiver.
CancelReceiver ==
  /\ faults < MaxFaults
  /\ receiver = "up"
  /\ receiver' = "cancelled"
  /\ stale' = [k \in Conns |-> stale[k] \/ handler[k] \in {"accepted", "top", "read"}]
  /\ faults' = faults + 1
  /\ UNCHANGED <<version, senderVars, link, wire, handler, copy>>

\* Listener and registered connections are closed.
CloseReceiver ==
  /\ receiver = "cancelled"
  /\ receiver' = "down"
  /\ LET cut == {k \in Conns : handler[k] = "backlog" \/ handler[k] \in {"top", "read"}}
     IN /\ wire' = [k \in Conns |-> IF k \in cut THEN <<>> ELSE wire[k]]
        /\ handler' = [k \in Conns |-> IF handler[k] = "backlog" THEN "none" ELSE handler[k]]
        /\ link' = [k \in Conns |-> IF k \notin cut THEN link[k]
                                    ELSE IF link[k] = "open" THEN "broken"
                                    ELSE IF handler[k] = "backlog" /\ link[k] = "shut" THEN "free"
                                    ELSE link[k]]
  /\ UNCHANGED <<version, senderVars, stale, copy, faults>>

StartReceiver ==
  /\ receiver = "down"
  /\ receiver' = "up"
  /\ UNCHANGED <<version, senderVars, linkVars, copy, faults>>

\* The network or the peer's kernel drops a connection and the end of what was written to it.
Break(k) ==
  /\ faults < MaxFaults
  /\ link[k] = "open"
  /\ link' = [link EXCEPT ![k] = "broken"]
  /\ \E n \in 0..Len(wire[k]) : wire' = [wire EXCEPT ![k] = SubSeq(@, 1, n)]
  /\ faults' = faults + 1
  /\ UNCHANGED <<version, senderVars, handler, stale, backupVars>>

-----------------------------------------------------------------------------
CallStep(c) == SyncSession(c) \/ Accept(c) \/ Decline(c) \/ SendOnClosed(c)
ProcessorStep(g) == TakeMessage(g) \/ BatchTimeout(g) \/ SeeCancelled(g) \/ SeeClosed(g)
                      \/ SendMessage(g) \/ SendFails(g)
SwitchStep == Cancel \/ CloseConnection \/ CloseChannel \/ ForgetService
HandlerStep(k) == AcceptConnection(k) \/ RegisterConnection(k) \/ CheckContext(k)
                    \/ HandleMessage(k) \/ ReadFails(k)

Next ==
  \/ \E s \in Sessions : Change(s)
  \/ StartHook
  \/ \E h \in Hooks : Tick(h)
  \/ \E o \in Operators : TriggerSync(o)
  \/ \E c \in Callers : CallStep(c)
  \/ \E g \in Services : ProcessorStep(g) \/ TryConnect(g) \/ ManagerEnds(g)
  \/ Demote \/ SwitchStep \/ Promote
  \/ \E k \in Conns : HandlerStep(k) \/ ShortRead(k) \/ Break(k)
  \/ CancelReceiver \/ CloseReceiver \/ StartReceiver

Spec == Init /\ [][Next]_vars

\* A write to a broken connection fails in the end.
FairSpec ==
  /\ Spec
  /\ WF_vars(StartHook) /\ WF_vars(SwitchStep) /\ WF_vars(CloseReceiver)
  /\ \A h \in Hooks : WF_vars(Tick(h))
  /\ \A c \in Callers : WF_vars(CallStep(c))
  /\ \A g \in Services :
       /\ WF_vars(ProcessorStep(g)) /\ SF_vars(SendFails(g)) /\ WF_vars(BatchTimeout(g))
       /\ WF_vars(TryConnect(g)) /\ WF_vars(ManagerEnds(g))
  /\ \A k \in Conns : WF_vars(HandlerStep(k))

-----------------------------------------------------------------------------
(* Properties                                                              *)

\* Types: a batch stays below its size outside sendBatch, the channel within its buffer.
TypeOK ==
  /\ version \in [Sessions -> 0..MaxVersion] /\ copy \in [Sessions -> 0..MaxVersion]
  /\ primary \in BOOLEAN /\ panicked \in BOOLEAN
  /\ service \in 0..created /\ created \in Services /\ hooksDue \in 0..created
  /\ at \in [Callers -> {"absent", "idle", "round", "offering"}]
  /\ todo \in [Callers -> SUBSET (Sessions \cup {FullSync})]
  /\ held \in [Callers -> 0..created] /\ offer \in [Callers -> Messages]
  /\ state \in [Services -> {"unborn", "running", "cancelled", "unlinked", "closed"}]
  /\ chan \in [Services -> Seq(Messages)] /\ batch \in [Services -> Seq(Messages)]
  /\ \A g \in Services : Len(chan[g]) <= BufferSize /\ Len(batch[g]) <= BatchSize
  /\ processor \in [Services -> {"select", "sending", "last", "ended"}]
  /\ manager \in [Services -> {"on", "ended"}]
  /\ peer \in [Services -> Conns \cup {0}]
  /\ link \in [Conns -> {"free", "open", "shut", "broken"}]
  /\ wire \in [Conns -> Seq(Messages)]
  /\ handler \in [Conns -> {"none", "backlog", "accepted", "top", "read"}]
  /\ stale \in [Conns -> BOOLEAN]
  /\ receiver \in {"up", "cancelled", "down"} /\ faults \in 0..MaxFaults

Piped(g) == (IF peer[g] = 0 THEN <<>> ELSE wire[peer[g]]) \o batch[g] \o chan[g]

Without(q, i, j) == SubSeq(q, 1, i) \o SubSeq(q, j + 1, Len(q))
Accepted(g) == Len(chan'[g]) = Len(chan[g]) + 1 /\ Piped(g)' = Append(Piped(g), chan'[g][Len(chan'[g])])

\* What is on its way from a service keeps its order and is never repeated, whatever breaks
\* and stops: a step adds one message at the end or loses one stretch of them, and a batch that
\* was written or given up does not come back.
PipeKeepsOrder ==
  [][\A g \in Services :
       \/ Accepted(g)
       \/ \E j \in 0..Len(Piped(g)) : \E i \in 0..j : Piped(g)' = Without(Piped(g), i, j)]_vars

\* A service over a connection that is whole loses nothing it accepted: messages leave
\* for the handler only, and in order.
Sound(g) == state[g] = "running" /\ peer[g] # 0 /\ link[peer[g]] = "open"
Read(k) == handler[k] = "read" /\ handler'[k] = "top"

NothingLost ==
  [][\A g \in Services : Sound(g) /\ Sound(g)' =>
       \/ Piped(g)' = Piped(g)
       \/ Accepted(g)
       \/ Read(peer[g]) /\ Piped(g)' = Tail(Piped(g))]_vars

\* The process panics, on a nil service or a closed channel, in the wake of a demotion only:
\* no order of ticks, triggers, failed writes and reconnects gets there.
PanicNeedsDemotion == panicked => state[1] # "running"

\* With one hook, the backup's record of a session goes back to an older state only through a
\* connection the sender has given up: what it still carries may be read after newer messages,
\* and nothing in a message tells the receiver its age.
OlderFromGivenUp ==
  [][\A s \in Sessions : created = 1 /\ copy'[s] < copy[s] =>
       \E k \in Conns : Read(k) /\ link[k] = "shut"]_vars

\* After its Stop has returned, a receiver handles no message any more: a connection is
\* registered, and then closed by Stop, or its handler sees the cancelled context first.
StoppedIsDeaf == [][\A k \in Conns : Read(k) => ~stale[k] \/ receiver = "cancelled"]_vars

Settled == primary /\ service # 0 /\ ~panicked /\ receiver = "up"

\* A hook's period is twice the processor's timeout: again and again a round begins with the
\* channel drained.
RoundsAreApart ==
  \A h \in Hooks : []<><<Tick(h) /\ chan[service] = <<>>>>_vars

\* When no more switches happen the backup records every session's last state, unless it
\* rejects it, whatever was lost before: the hooks repeat and the service reconnects.
CatchesUp ==
  <>[]Settled /\ RoundsAreApart =>
    \A s \in Sessions : <>[](copy[s] = version[s] \/ version[s] \in Rejected)

=============================================================================
