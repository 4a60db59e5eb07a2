------------------------- MODULE SyncPipelineProofs -------------------------
(***************************************************************************)
(* TLAPS proofs about SyncPipeline, for any number of sessions, hooks,     *)
(* operators, services and connections, and any sizes of batch, channel    *)
(* and wire.                                                               *)
(***************************************************************************)
EXTENDS SyncPipeline, SequenceTheorems, TLAPS

-----------------------------------------------------------------------------
(* The inductive invariant.                                                *)

\* Services are made one after the other, and the earlier ones are stopped.
InTurn ==
  /\ primary \/ created < MaxServices
  /\ service # 0 => service = created
  /\ \A g \in Services :
       /\ g < created \/ (service = 0 /\ g = created) => state[g] = "closed"
       /\ g > created => state[g] = "unborn"
  /\ \A c \in Callers : at[c] = "offering" => held[c] \in 1..created

\* A batch is below its size while messages are gathered, and there is one to send.
BatchesFit ==
  \A g \in Services :
    /\ processor[g] = "select" => Len(batch[g]) < BatchSize
    /\ processor[g] \in {"sending", "last"} => batch[g] # <<>>

\* A connection belongs to the service that made it, until that one closes it.
LinksAreOwned ==
  /\ \A g \in Services : peer[g] # 0 => link[peer[g]] \in {"open", "broken"}
  /\ \A g, h \in Services : peer[g] # 0 /\ peer[g] = peer[h] => g = h
  /\ \A k \in Conns :
       /\ link[k] = "free" => handler[k] = "none"
       /\ handler[k] = "none" => link[k] # "open" /\ wire[k] = <<>>

\* A handler that reads on although its receiver was stopped is at the end of its connection.
DeafInside ==
  \A k \in Conns : stale[k] /\ handler[k] = "read" =>
    receiver = "cancelled" \/ (wire[k] = <<>> /\ link[k] # "open")

-----------------------------------------------------------------------------
(* Data                                                                    *)

LEMMA ServiceNumbers ==
  /\ Services \subseteq Nat \ {0} /\ 1 \in Services
  /\ \A n \in Services : n < MaxServices => n + 1 \in Services
  /\ \A n \in Services : 0..n \subseteq 0..MaxServices /\ 1..n \subseteq Services
BY SyncAssumption DEF Services

LEMMA MessageParts ==
  /\ NoOffer \in Messages
  /\ \A m \in Messages : m.session \in Sessions \cup {FullSync} /\ m.version \in 0..MaxVersion
BY SyncAssumption DEF NoOffer, Messages

-----------------------------------------------------------------------------
(* Types                                                                   *)

LEMMA CallsKeepTypes ==
  ASSUME TypeOK, NEW c \in Callers, CallStep(c)
  PROVE  TypeOK'
<1> USE DEF outsideCalls, managerVars, goroutines, linkVars, backupVars
<1>1. CASE SyncSession(c)
  <2>1. PICK s \in todo[c] :
          /\ todo' = [todo EXCEPT ![c] = @ \ {s}]
          /\ IF service # 0 /\ peer[service] # 0
               THEN /\ at' = [at EXCEPT ![c] = "offering"]
                    /\ held' = [held EXCEPT ![c] = service]
                    /\ offer' = [offer EXCEPT ![c] = [session |-> s, version |-> VersionOf(s)]]
               ELSE /\ at' = [at EXCEPT ![c] = IF todo[c] = {s} THEN "idle" ELSE @]
                    /\ UNCHANGED <<held, offer>>
    BY <1>1 DEF SyncSession
  <2>2. s \in Sessions \cup {FullSync}
    BY <2>1 DEF TypeOK
  <2>3. VersionOf(s) \in 0..MaxVersion
    BY <2>2, SyncAssumption DEF VersionOf, TypeOK
  <2>4. [session |-> s, version |-> VersionOf(s)] \in Messages
    BY <2>2, <2>3 DEF Messages
  <2>5. /\ todo' \in [Callers -> SUBSET (Sessions \cup {FullSync})]
        /\ at' \in [Callers -> {"absent", "idle", "round", "offering"}]
    <3>1. todo[c] \ {s} \in SUBSET (Sessions \cup {FullSync})
      BY DEF TypeOK
    <3>2. todo' \in [Callers -> SUBSET (Sessions \cup {FullSync})]
      BY <2>1, <3>1 DEF TypeOK
    <3>3. at \in [Callers -> {"absent", "idle", "round", "offering"}]
      BY DEF TypeOK
    <3>4. \E where \in {"offering", "idle", at[c]} : at' = [at EXCEPT ![c] = where]
      BY <2>1
    <3>5. at' \in [Callers -> {"absent", "idle", "round", "offering"}]
      BY <3>3, <3>4
    <3> QED
      BY <3>2, <3>5
  <2>6. held' \in [Callers -> 0..created] /\ offer' \in [Callers -> Messages]
    <3>1. held \in [Callers -> 0..created] /\ offer \in [Callers -> Messages] /\ service \in 0..created
      BY DEF TypeOK
    <3>2. held' \in {held, [held EXCEPT ![c] = service]}
      BY <2>1
    <3>3. offer' \in {offer, [offer EXCEPT ![c] = [session |-> s, version |-> VersionOf(s)]]}
      BY <2>1
    <3>4. held' \in [Callers -> 0..created]
      BY <3>1, <3>2
    <3> QED
      BY <2>4, <3>1, <3>3, <3>4
  <2>7. panicked' \in BOOLEAN /\ UNCHANGED <<chan, outsideCalls>>
    BY <1>1 DEF SyncSession
  <2> QED
    BY <2>5, <2>6, <2>7 DEF TypeOK
<1>2. CASE Accept(c) \/ Decline(c)
  <2>1. Returned(c) /\ UNCHANGED <<todo, panicked, outsideCalls>>
    BY <1>2 DEF Accept, Decline
  <2>2. at' \in [Callers -> {"absent", "idle", "round", "offering"}]
    BY <2>1 DEF Returned, TypeOK
  <2>3. held' \in [Callers -> 0..created] /\ offer' \in [Callers -> Messages]
    BY <2>1, MessageParts, ServiceNumbers DEF Returned, TypeOK
  <2>4. /\ chan' \in [Services -> Seq(Messages)]
        /\ \A g \in Services : Len(chan'[g]) <= BufferSize
    <3>1. CASE chan' = chan
      BY <3>1 DEF TypeOK
    <3>2. CASE Len(chan[held[c]]) < BufferSize
               /\ chan' = [chan EXCEPT ![held[c]] = Append(@, offer[c])]
      <4>1. offer[c] \in Messages /\ chan \in [Services -> Seq(Messages)]
        BY DEF TypeOK
      <4>2. held[c] \in Services =>
              /\ Append(chan[held[c]], offer[c]) \in Seq(Messages)
              /\ Len(Append(chan[held[c]], offer[c])) = Len(chan[held[c]]) + 1
              /\ Len(chan[held[c]]) \in Nat
        BY <4>1, AppendProperties, LenProperties
      <4>3. \A g \in Services :
              chan'[g] = IF g = held[c] THEN Append(chan[held[c]], offer[c]) ELSE chan[g]
        BY <3>2, <4>1
      <4>4. \A g \in Services : Len(chan[g]) <= BufferSize
        BY DEF TypeOK
      <4>5. \A g \in Services : chan'[g] \in Seq(Messages) /\ Len(chan'[g]) <= BufferSize
        BY <3>2, <4>1, <4>2, <4>3, <4>4, SyncAssumption
      <4>6. chan' = [g \in Services |-> chan'[g]]
        BY <3>2, <4>1
      <4> QED
        BY <4>5, <4>6
    <3> QED
      BY <1>2, <3>1, <3>2 DEF Accept, Decline
  <2> QED
    BY <2>1, <2>2, <2>3, <2>4 DEF TypeOK
<1>3. CASE SendOnClosed(c)
  BY <1>3 DEF SendOnClosed, callerVars, TypeOK
<1> QED
  BY <1>1, <1>2, <1>3 DEF CallStep

\* What sendBatch leaves: nothing, the batch it was given, or what it will send of it.
LEMMA SentBatch ==
  ASSUME TypeOK, NEW g \in Services, NEW b \in Seq(Messages), Len(b) <= BatchSize,
         NEW then \in {"select", "ended"}, SendBatch(g, b, then)
  PROVE  /\ batch' \in [Services -> Seq(Messages)]
         /\ processor' \in [Services -> {"select", "sending", "last", "ended"}]
         /\ \A h \in Services \ {g} : batch'[h] = batch[h] /\ processor'[h] = processor[h]
         /\ \/ batch'[g] = <<>> /\ processor'[g] = then /\ (b = <<>> \/ peer[g] = 0)
            \/ batch'[g] = b /\ b # <<>> /\ processor'[g] \in {"sending", "last"}
<1>1. batch \in [Services -> Seq(Messages)] /\ <<>> \in Seq(Messages)
  BY EmptySeq DEF TypeOK
<1>2. processor \in [Services -> {"select", "sending", "last", "ended"}]
  BY DEF TypeOK
<1>3. CASE b = <<>> \/ peer[g] = 0
  BY <1>1, <1>2, <1>3 DEF SendBatch
<1>4. CASE ~(b = <<>> \/ peer[g] = 0)
  BY <1>1, <1>2, <1>4 DEF SendBatch
<1> QED
  BY <1>3, <1>4

\* What Remaining leaves.
LEMMA RemainsOfBatch ==
  ASSUME TypeOK, NEW g \in Services, NEW rest \in Seq(Messages), Remaining(g, rest),
         processor[g] \in {"sending", "last"}
  PROVE  /\ batch' \in [Services -> Seq(Messages)] /\ batch'[g] = rest
         /\ processor' \in [Services -> {"select", "sending", "last", "ended"}]
         /\ \A h \in Services \ {g} : batch'[h] = batch[h] /\ processor'[h] = processor[h]
         /\ processor'[g] \in {"sending", "last"} => rest # <<>>
         /\ processor'[g] = "select" => rest = <<>>
<1>1. batch \in [Services -> Seq(Messages)]
      /\ processor \in [Services -> {"select", "sending", "last", "ended"}]
  BY DEF TypeOK
<1>2. CASE rest # <<>>
  BY <1>1, <1>2 DEF Remaining
<1>3. CASE rest = <<>>
  BY <1>1, <1>3 DEF Remaining
<1> QED
  BY <1>2, <1>3

\* The batch a message is added to.
LEMMA GatheredBatch ==
  ASSUME TypeOK, BatchesFit, NEW g \in Services, processor[g] = "select", chan[g] # <<>>
  PROVE  LET b == Gathered(batch[g], Head(chan[g]))
         IN /\ b \in Seq(Messages) /\ b # <<>> /\ Len(b) <= BatchSize
            /\ ~Due(b) => Len(b) < BatchSize
            /\ Head(chan[g]) \in Messages /\ Tail(chan[g]) \in Seq(Messages)
            /\ Len(Tail(chan[g])) <= BufferSize
<1>1. /\ chan[g] \in Seq(Messages) /\ batch[g] \in Seq(Messages)
      /\ Len(batch[g]) < BatchSize /\ Len(chan[g]) <= BufferSize
  BY DEF TypeOK, BatchesFit
<1>2. /\ Head(chan[g]) \in Messages /\ Tail(chan[g]) \in Seq(Messages)
      /\ Len(Tail(chan[g])) = Len(chan[g]) - 1 /\ Len(chan[g]) \in Nat /\ Len(batch[g]) \in Nat
  BY <1>1, HeadTailProperties, LenProperties
<1> DEFINE b == Append(batch[g], Head(chan[g]))
<1>3. b \in Seq(Messages) /\ b # <<>> /\ Len(b) = Len(batch[g]) + 1
  BY <1>1, <1>2, AppendProperties
<1>4. Len(b) <= BatchSize /\ Len(Tail(chan[g])) <= BufferSize
  BY <1>1, <1>2, <1>3, SyncAssumption
<1>5. ~Due(b) => Len(b) < BatchSize
  BY <1>1, <1>2, <1>3, <1>4, SyncAssumption DEF Due
<1> QED
  BY <1>2, <1>3, <1>4, <1>5 DEF Gathered

ProcessorTyped ==
  /\ batch \in [Services -> Seq(Messages)] /\ \A g \in Services : Len(batch[g]) <= BatchSize
  /\ processor \in [Services -> {"select", "sending", "last", "ended"}]
  /\ BatchesFit

LEMMA ProcessorKeepsBatches ==
  ASSUME TypeOK, BatchesFit, NEW g \in Services, ProcessorStep(g)
  PROVE  ProcessorTyped'
<1>0. /\ batch \in [Services -> Seq(Messages)] /\ <<>> \in Seq(Messages) /\ Len(<<>>) = 0
      /\ processor \in [Services -> {"select", "sending", "last", "ended"}]
      /\ \A h \in Services : Len(batch[h]) <= BatchSize
      /\ BatchSize \in Nat /\ BatchSize > 0
  BY EmptySeq, SyncAssumption DEF TypeOK
<1>1. ASSUME batch' \in [Services -> Seq(Messages)], Len(batch'[g]) <= BatchSize,
             processor' \in [Services -> {"select", "sending", "last", "ended"}],
             \A h \in Services \ {g} : batch'[h] = batch[h] /\ processor'[h] = processor[h],
             processor'[g] = "select" => Len(batch'[g]) < BatchSize,
             processor'[g] \in {"sending", "last"} => batch'[g] # <<>>
      PROVE  ProcessorTyped'
  BY <1>0, <1>1 DEF ProcessorTyped, BatchesFit
<1>2. ASSUME NEW b \in Seq(Messages), Len(b) <= BatchSize, NEW then \in {"select", "ended"},
             SendBatch(g, b, then)
      PROVE  ProcessorTyped'
  BY <1>0, <1>1, <1>2, SentBatch
<1>3. ASSUME NEW rest \in Seq(Messages), Len(rest) <= BatchSize, Remaining(g, rest),
             processor[g] \in {"sending", "last"}
      PROVE  ProcessorTyped'
  BY <1>0, <1>1, <1>3, RemainsOfBatch
<1>4. CASE TakeMessage(g)
  <2> DEFINE b == Gathered(batch[g], Head(chan[g]))
  <2>1. /\ processor[g] = "select" /\ chan[g] # <<>>
        /\ IF Due(b) THEN SendBatch(g, b, "select")
           ELSE batch' = [batch EXCEPT ![g] = b] /\ UNCHANGED processor
    BY <1>4 DEF TakeMessage
  <2>2. b \in Seq(Messages) /\ b # <<>> /\ Len(b) <= BatchSize /\ (~Due(b) => Len(b) < BatchSize)
    BY <2>1, GatheredBatch
  <2> HIDE DEF b
  <2>3. CASE Due(b)
    BY <1>2, <2>1, <2>2, <2>3
  <2>4. CASE ~Due(b)
    BY <1>0, <1>1, <2>1, <2>2, <2>4
  <2> QED
    BY <2>3, <2>4
<1>5. CASE BatchTimeout(g) \/ SeeCancelled(g)
  BY <1>0, <1>2, <1>5 DEF BatchTimeout, SeeCancelled
<1>6. CASE SeeClosed(g)
  BY <1>0, <1>1, <1>6 DEF SeeClosed
<1>7. CASE SendMessage(g)
  <2>1. Remaining(g, Tail(batch[g])) /\ processor[g] \in {"sending", "last"} /\ batch[g] # <<>>
    BY <1>7 DEF SendMessage, BatchesFit
  <2>2. Tail(batch[g]) \in Seq(Messages) /\ Len(Tail(batch[g])) = Len(batch[g]) - 1
        /\ Len(batch[g]) \in Nat
    BY <1>0, <2>1, HeadTailProperties, LenProperties
  <2>3. Len(Tail(batch[g])) <= BatchSize
    BY <1>0, <2>2
  <2> QED
    BY <1>3, <2>1, <2>2, <2>3
<1>8. CASE SendFails(g)
  <2>1. Remaining(g, <<>>) /\ processor[g] \in {"sending", "last"}
    BY <1>8 DEF SendFails
  <2>2. Len(<<>>) <= BatchSize
    BY <1>0
  <2> QED
    BY <1>0, <1>3, <2>1, <2>2
<1> QED
  BY <1>4, <1>5, <1>6, <1>7, <1>8 DEF ProcessorStep

\* The processor's part of the connection.
LEMMA ProcessorKeepsTypes ==
  ASSUME TypeOK, BatchesFit, NEW g \in Services, ProcessorStep(g)
  PROVE  TypeOK'
<1> USE DEF managerVars, callerVars, backupVars
<1>1. /\ batch' \in [Services -> Seq(Messages)] /\ \A h \in Services : Len(batch'[h]) <= BatchSize
      /\ processor' \in [Services -> {"select", "sending", "last", "ended"}]
  BY ProcessorKeepsBatches DEF ProcessorTyped
<1>2. UNCHANGED outsideProcessor /\ UNCHANGED <<handler, stale>>
  BY DEF ProcessorStep, TakeMessage, BatchTimeout, SeeCancelled, SeeClosed, SendMessage, SendFails,
         linkVars
<1>3. chan' \in [Services -> Seq(Messages)] /\ \A h \in Services : Len(chan'[h]) <= BufferSize
  <2>1. CASE UNCHANGED chan
    BY <2>1 DEF TypeOK
  <2>2. CASE TakeMessage(g)
    <3>1. Tail(chan[g]) \in Seq(Messages) /\ Len(Tail(chan[g])) <= BufferSize
      BY <2>2, GatheredBatch DEF TakeMessage
    <3> QED
      BY <2>2, <3>1 DEF TakeMessage, TypeOK
  <2> QED
    BY <2>1, <2>2 DEF ProcessorStep, BatchTimeout, SeeCancelled, SeeClosed, SendMessage, SendFails
<1>4. wire' \in [Conns -> Seq(Messages)]
  <2>1. CASE UNCHANGED wire
    BY <2>1 DEF TypeOK
  <2>2. CASE SendMessage(g)
    <3>1. peer[g] \in Conns /\ batch[g] \in Seq(Messages) /\ batch[g] # <<>>
      BY <2>2 DEF SendMessage, BatchesFit, TypeOK
    <3>2. Append(wire[peer[g]], Head(batch[g])) \in Seq(Messages)
      BY <3>1, HeadTailProperties, AppendProperties DEF TypeOK
    <3> QED
      BY <2>2, <3>2 DEF SendMessage, TypeOK
  <2> QED
    BY <2>1, <2>2
    DEF ProcessorStep, TakeMessage, BatchTimeout, SeeCancelled, SeeClosed, SendFails, linkVars
<1>5. link' \in [Conns -> {"free", "open", "shut", "broken"}] /\ peer' \in [Services -> Conns \cup {0}]
  <2>1. CASE UNCHANGED <<link, peer>>
    BY <2>1 DEF TypeOK
  <2>2. CASE link' = Hangup(peer[g]) /\ peer' = Closed(g)
    BY <2>2 DEF Hangup, Closed, TypeOK
  <2> QED
    BY <2>1, <2>2
    DEF ProcessorStep, TakeMessage, BatchTimeout, SeeCancelled, SeeClosed, SendMessage, SendFails,
        linkVars
<1> QED
  BY <1>1, <1>2, <1>3, <1>4, <1>5 DEF outsideProcessor, TypeOK

LEMMA HandlersKeepTypes ==
  ASSUME TypeOK, NEW k \in Conns, HandlerStep(k) \/ ShortRead(k) \/ Break(k)
  PROVE  TypeOK'
<1> USE DEF senderVars, managerVars, callerVars, goroutines, backupVars
<1>0. <<>> \in Seq(Messages) /\ handler \in [Conns -> {"none", "backlog", "accepted", "top", "read"}]
  BY EmptySeq DEF TypeOK
<1>1. CASE AcceptConnection(k) \/ RegisterConnection(k)
  <2>1. handler' \in [Conns -> {"none", "backlog", "accepted", "top", "read"}]
    BY <1>0, <1>1 DEF AcceptConnection, RegisterConnection
  <2>2. stale' \in [Conns -> BOOLEAN]
    <3>1. (receiver = "cancelled") \in BOOLEAN /\ stale \in [Conns -> BOOLEAN]
      BY DEF TypeOK
    <3>2. \E b \in BOOLEAN : stale' = [stale EXCEPT ![k] = b] \/ stale' = stale
      BY <1>1 DEF AcceptConnection, RegisterConnection
    <3> QED
      BY <3>1, <3>2
  <2> QED
    BY <1>1, <2>1, <2>2 DEF AcceptConnection, RegisterConnection, TypeOK
<1>2. ASSUME Return(k), faults' \in 0..MaxFaults
      PROVE  TypeOK'
  <2>1. /\ handler' \in [Conns -> {"none", "backlog", "accepted", "top", "read"}]
        /\ wire' \in [Conns -> Seq(Messages)]
    BY <1>0, <1>2 DEF Return, TypeOK
  <2>2. link' \in [Conns -> {"free", "open", "shut", "broken"}]
    BY <1>2 DEF Return, TypeOK
  <2> QED
    BY <1>2, <2>1, <2>2 DEF Return, TypeOK
<1>3. CASE CheckContext(k)
  <2>1. CASE stale[k]
    BY <1>2, <1>3, <2>1 DEF CheckContext, TypeOK
  <2>2. CASE ~stale[k]
    <3>1. handler' \in [Conns -> {"none", "backlog", "accepted", "top", "read"}]
      BY <1>0, <1>3, <2>2 DEF CheckContext
    <3> QED
      BY <1>3, <2>2, <3>1 DEF CheckContext, TypeOK
  <2> QED
    BY <2>1, <2>2
<1>4. CASE HandleMessage(k)
  <2> DEFINE m == Head(wire[k])
  <2>1. m \in Messages /\ Tail(wire[k]) \in Seq(Messages)
    BY <1>4, HeadTailProperties DEF HandleMessage, TypeOK
  <2>2. m.version \in 0..MaxVersion
    BY <2>1, MessageParts
  <2>3. copy' \in {copy, [copy EXCEPT ![m.session] = m.version]}
    BY <1>4 DEF HandleMessage
  <2> HIDE DEF m
  <2>4. copy' \in [Sessions -> 0..MaxVersion]
    BY <2>2, <2>3 DEF TypeOK
  <2>5. wire' \in [Conns -> Seq(Messages)]
    BY <1>4, <2>1 DEF HandleMessage, TypeOK
  <2>6. handler' \in [Conns -> {"none", "backlog", "accepted", "top", "read"}]
    BY <1>0, <1>4 DEF HandleMessage
  <2> QED
    BY <1>4, <2>4, <2>5, <2>6 DEF HandleMessage, TypeOK
<1>5. CASE ReadFails(k)
  BY <1>2, <1>5 DEF ReadFails, TypeOK
<1>6. CASE ShortRead(k)
  <2>1. faults' \in 0..MaxFaults
    BY <1>6, SyncAssumption DEF ShortRead, TypeOK
  <2> QED
    BY <1>2, <1>6, <2>1 DEF ShortRead
<1>7. CASE Break(k)
  <2>1. faults' \in 0..MaxFaults
    BY <1>7, SyncAssumption DEF Break, TypeOK
  <2>2. PICK n \in 0..Len(wire[k]) : wire' = [wire EXCEPT ![k] = SubSeq(@, 1, n)]
    BY <1>7 DEF Break
  <2>3. wire[k] \in Seq(Messages) /\ n \in Int /\ \A i \in 1..n : wire[k][i] \in Messages
    BY ElementOfSeq, LenProperties DEF TypeOK
  <2>4. SubSeq(wire[k], 1, n) \in Seq(Messages)
    BY <2>3, SubSeqProperties
  <2>5. wire' \in [Conns -> Seq(Messages)]
    BY <2>2, <2>4 DEF TypeOK
  <2>6. link' \in [Conns -> {"free", "open", "shut", "broken"}]
    BY <1>7 DEF Break, TypeOK
  <2> QED
    BY <1>7, <2>1, <2>5, <2>6 DEF Break, TypeOK
<1> QED
  BY <1>1, <1>3, <1>4, <1>5, <1>6, <1>7 DEF HandlerStep

LEMMA SwitchesKeepTypes ==
  ASSUME TypeOK, InTurn, StartHook \/ Demote \/ SwitchStep \/ Promote
  PROVE  TypeOK'
<1> USE DEF callerVars, goroutines, linkVars, backupVars, outsideSwitch
<1>0. /\ created \in Services /\ created \in Nat /\ hooksDue \in Nat /\ hooksDue <= created
      /\ state \in [Services -> {"unborn", "running", "cancelled", "unlinked", "closed"}]
  BY ServiceNumbers DEF TypeOK
<1>1. CASE StartHook
  <2>1. hooksDue' \in 0..created
    BY <1>0, <1>1 DEF StartHook
  <2>2. at' \in [Callers -> {"absent", "idle", "round", "offering"}]
    <3>1. at \in [Callers -> {"absent", "idle", "round", "offering"}]
      BY DEF TypeOK
    <3>2. UNCHANGED at \/ \E h \in Hooks : at' = [at EXCEPT ![h] = "idle"]
      BY <1>1 DEF StartHook
    <3> QED
      BY <3>1, <3>2
  <2> QED
    BY <1>1, <2>1, <2>2 DEF StartHook, TypeOK
<1>2. CASE Demote
  BY <1>2 DEF Demote, TypeOK
<1>3. ASSUME NEW from, NEW to \in {"cancelled", "unlinked", "closed"}, StopStep(from, to)
      PROVE  /\ state' \in [Services -> {"unborn", "running", "cancelled", "unlinked", "closed"}]
             /\ UNCHANGED <<primary, created, hooksDue, outsideSwitch>>
  BY <1>0, <1>3 DEF StopStep
<1>4. CASE Cancel \/ CloseChannel
  BY <1>3, <1>4 DEF Cancel, CloseChannel, TypeOK
<1>5. CASE CloseConnection
  <2>1. /\ state' \in [Services -> {"unborn", "running", "cancelled", "unlinked", "closed"}]
        /\ UNCHANGED <<primary, created, hooksDue, outsideSwitch>> /\ UNCHANGED service
    BY <1>3, <1>5 DEF CloseConnection
  <2>2. /\ link' \in [Conns -> {"free", "open", "shut", "broken"}]
        /\ peer' \in [Services -> Conns \cup {0}]
    <3>1. CASE UNCHANGED <<peer, link>>
      BY <3>1 DEF TypeOK
    <3>2. CASE link' = Hangup(peer[service]) /\ peer' = Closed(service)
      BY <3>2 DEF Hangup, Closed, TypeOK
    <3> QED
      BY <1>5, <3>1, <3>2 DEF CloseConnection
  <2> QED
    BY <2>1, <2>2 DEF TypeOK
<1>6. CASE ForgetService
  BY <1>0, <1>6 DEF ForgetService, TypeOK
<1>7. CASE Promote
  <2>1. created < MaxServices
    BY <1>7 DEF Promote, InTurn
  <2>2. created + 1 \in Services
    BY <1>0, <2>1, ServiceNumbers
  <2>3. created' \in Services /\ service' \in 0..created' /\ hooksDue' \in 0..created'
    BY <1>0, <1>7, <2>2 DEF Promote
  <2>4. state' \in [Services -> {"unborn", "running", "cancelled", "unlinked", "closed"}]
    BY <1>0, <1>7 DEF Promote
  <2>5. held' \in [Callers -> 0..created'] /\ primary' \in BOOLEAN
    <3>1. 0..created \subseteq 0..created' /\ UNCHANGED held
      BY <1>0, <1>7 DEF Promote
    <3> QED
      BY <1>7, <3>1 DEF Promote, TypeOK
  <2> QED
    BY <1>7, <2>3, <2>4, <2>5 DEF Promote, TypeOK
<1> QED
  BY <1>1, <1>2, <1>4, <1>5, <1>6, <1>7 DEF SwitchStep

LEMMA OthersKeepTypes ==
  ASSUME TypeOK,
         \/ \E s \in Sessions : Change(s)
         \/ \E h \in Hooks : Tick(h)
         \/ \E o \in Operators : TriggerSync(o)
         \/ \E g \in Services : TryConnect(g) \/ ManagerEnds(g)
         \/ CancelReceiver \/ CloseReceiver \/ StartReceiver
         \/ UNCHANGED vars
  PROVE  TypeOK'
<1> USE DEF senderVars, managerVars, callerVars, goroutines, linkVars, backupVars
<1>1. ASSUME NEW s \in Sessions, Change(s)
      PROVE  TypeOK'
  <2>1. version[s] + 1 \in 0..MaxVersion
    BY <1>1, SyncAssumption DEF Change, TypeOK
  <2> QED
    BY <1>1, <2>1 DEF Change, TypeOK
<1>2. ASSUME NEW c, NEW work \in SUBSET (Sessions \cup {FullSync}), Begin(c, work)
      PROVE  TypeOK'
  <2>1. /\ at' \in [Callers -> {"absent", "idle", "round", "offering"}]
        /\ todo' \in [Callers -> SUBSET (Sessions \cup {FullSync})]
    BY <1>2 DEF Begin, TypeOK
  <2> QED
    BY <1>2, <2>1 DEF Begin, outsideCalls, TypeOK
<1>3. ASSUME NEW g \in Services, TryConnect(g)
      PROVE  TypeOK'
  <2>1. PICK k \in Conns :
          /\ peer' = [peer EXCEPT ![g] = k]
          /\ link' = [link EXCEPT ![k] = "open"]
          /\ handler' = [handler EXCEPT ![k] = "backlog"]
          /\ stale' = [stale EXCEPT ![k] = FALSE]
    BY <1>3 DEF TryConnect, FreeConns
  <2>2. peer' \in [Services -> Conns \cup {0}] /\ link' \in [Conns -> {"free", "open", "shut", "broken"}]
    BY <2>1 DEF TypeOK
  <2>3. /\ handler' \in [Conns -> {"none", "backlog", "accepted", "top", "read"}]
        /\ stale' \in [Conns -> BOOLEAN]
    BY <2>1 DEF TypeOK
  <2> QED
    BY <1>3, <2>2, <2>3 DEF TryConnect, TypeOK
<1>4. ASSUME NEW g \in Services, ManagerEnds(g)
      PROVE  TypeOK'
  BY <1>4 DEF ManagerEnds, TypeOK
<1>5. CASE CancelReceiver
  <2>1. faults' \in 0..MaxFaults
    BY <1>5, SyncAssumption DEF CancelReceiver, TypeOK
  <2>2. stale' \in [Conns -> BOOLEAN]
    BY <1>5 DEF CancelReceiver
  <2> QED
    BY <1>5, <2>1, <2>2 DEF CancelReceiver, TypeOK
<1>6. CASE CloseReceiver
  <2> DEFINE cut == {k \in Conns : handler[k] = "backlog" \/ handler[k] \in {"top", "read"}}
  <2>1. wire' = [k \in Conns |-> IF k \in cut THEN <<>> ELSE wire[k]]
    BY <1>6 DEF CloseReceiver
  <2>2. wire' \in [Conns -> Seq(Messages)]
    BY <2>1, EmptySeq DEF TypeOK
  <2>3. handler' \in [Conns -> {"none", "backlog", "accepted", "top", "read"}]
    BY <1>6 DEF CloseReceiver, TypeOK
  <2>4. link' \in [Conns -> {"free", "open", "shut", "broken"}]
    BY <1>6 DEF CloseReceiver, TypeOK
  <2> QED
    BY <1>6, <2>2, <2>3, <2>4 DEF CloseReceiver, TypeOK
<1>7. CASE StartReceiver
  BY <1>7 DEF StartReceiver, TypeOK
<1>8. CASE UNCHANGED vars
  BY <1>8 DEF vars, TypeOK
<1>9. ASSUME NEW h \in Hooks, Tick(h)
      PROVE  TypeOK'
  BY <1>2, <1>9 DEF Tick
<1>10. ASSUME NEW o \in Operators, TriggerSync(o)
       PROVE  TypeOK'
  BY <1>2, <1>10 DEF TriggerSync
<1> QED
  BY <1>1, <1>3, <1>4, <1>5, <1>6, <1>7, <1>8, <1>9, <1>10

LEMMA TypeStep == TypeOK /\ InTurn /\ BatchesFit /\ [Next]_vars => TypeOK'
<1> SUFFICES ASSUME TypeOK, InTurn, BatchesFit, [Next]_vars
             PROVE  TypeOK'
  OBVIOUS
<1>1. ASSUME NEW c \in Callers, CallStep(c)
      PROVE  TypeOK'
  BY <1>1, CallsKeepTypes
<1>2. ASSUME NEW g \in Services, ProcessorStep(g)
      PROVE  TypeOK'
  BY <1>2, ProcessorKeepsTypes
<1>3. ASSUME NEW k \in Conns, HandlerStep(k) \/ ShortRead(k) \/ Break(k)
      PROVE  TypeOK'
  BY <1>3, HandlersKeepTypes
<1>4. CASE StartHook \/ Demote \/ SwitchStep \/ Promote
  BY <1>4, SwitchesKeepTypes
<1> QED
  BY <1>1, <1>2, <1>3, <1>4, OthersKeepTypes DEF Next

-----------------------------------------------------------------------------
(* Services, and what can panic                                            *)

LEMMA TurnStep == TypeOK /\ InTurn /\ [Next]_vars => InTurn'
<1> SUFFICES ASSUME TypeOK, InTurn, [Next]_vars
             PROVE  InTurn'
  OBVIOUS
<1> USE DEF managerVars, callerVars, senderVars, goroutines, backupVars, linkVars, outsideSwitch
<1>0. /\ created \in Services /\ created \in Nat /\ Services \subseteq Nat \ {0}
      /\ service \in 0..created /\ held \in [Callers -> 0..created]
      /\ at \in [Callers -> {"absent", "idle", "round", "offering"}]
      /\ state \in [Services -> {"unborn", "running", "cancelled", "unlinked", "closed"}]
  BY ServiceNumbers DEF TypeOK
<1>1. ASSUME UNCHANGED <<primary, service, created, state, held>>,
             \A c \in Callers : at'[c] = "offering" => at[c] = "offering"
      PROVE  InTurn'
  BY <1>1 DEF InTurn
<1>2. ASSUME NEW c \in Callers, SyncSession(c)
      PROVE  InTurn'
  <2>1. UNCHANGED <<primary, service, created, state>>
    BY <1>2 DEF SyncSession, outsideCalls
  <2>2. \A d \in Callers : at'[d] = "offering" =>
          (held'[d] = held[d] /\ at[d] = "offering") \/ (held'[d] = service /\ service # 0)
    <3>1. CASE service # 0 /\ peer[service] # 0
      BY <1>0, <1>2, <3>1 DEF SyncSession
    <3>2. CASE ~(service # 0 /\ peer[service] # 0)
      BY <1>0, <1>2, <3>2 DEF SyncSession
    <3> QED
      BY <3>1, <3>2
  <2>3. \A d \in Callers : at'[d] = "offering" => held'[d] \in 1..created'
    BY <1>0, <2>1, <2>2 DEF InTurn
  <2> QED
    BY <2>1, <2>3 DEF InTurn
<1>3. ASSUME NEW c \in Callers, Accept(c) \/ Decline(c)
      PROVE  InTurn'
  <2>1. Returned(c) /\ UNCHANGED <<primary, service, created, state>>
    BY <1>3 DEF Accept, Decline, outsideCalls
  <2>2. \A d \in Callers : at'[d] = "offering" => at[d] = "offering" /\ held'[d] = held[d]
    BY <1>0, <2>1 DEF Returned
  <2> QED
    BY <2>1, <2>2 DEF InTurn
<1>4. CASE StartHook
  <2>1. UNCHANGED <<primary, service, created, state, held>>
    BY <1>4 DEF StartHook
  <2>2. \A c \in Callers : at'[c] = "offering" => at[c] = "offering"
    BY <1>0, <1>4 DEF StartHook
  <2> QED
    BY <1>1, <2>1, <2>2
<1>5. ASSUME NEW c, NEW work, Begin(c, work)
      PROVE  InTurn'
  <2>1. UNCHANGED <<primary, service, created, state, held>>
    BY <1>5 DEF Begin, outsideCalls
  <2>2. \A d \in Callers : at'[d] = "offering" => at[d] = "offering"
    BY <1>0, <1>5 DEF Begin
  <2> QED
    BY <1>1, <2>1, <2>2
<1>6. CASE Demote
  BY <1>6 DEF Demote, InTurn
<1>7. ASSUME NEW from \in {"running", "cancelled", "unlinked"}, NEW to, StopStep(from, to),
             UNCHANGED service
      PROVE  InTurn'
  <2>1. service # 0 /\ service = created
    BY <1>7 DEF StopStep, InTurn
  <2>2. \A g \in Services : g # created => state'[g] = state[g]
    BY <1>0, <1>7, <2>1 DEF StopStep
  <2> QED
    BY <1>0, <1>7, <2>1, <2>2 DEF StopStep, InTurn
<1>8. CASE Cancel \/ CloseConnection \/ CloseChannel
  BY <1>7, <1>8 DEF Cancel, CloseConnection, CloseChannel
<1>9. CASE ForgetService
  BY <1>0, <1>9 DEF ForgetService, InTurn
<1>10. CASE Promote
  <2>1. /\ service = 0 /\ created' = created + 1 /\ service' = created' /\ primary' = TRUE
        /\ UNCHANGED <<at, held>>
        /\ \A g \in Services : g # created + 1 => state'[g] = state[g]
    BY <1>0, <1>10 DEF Promote
  <2>2. \A g \in Services : g <= created => state[g] = "closed"
    BY <1>0, <2>1 DEF InTurn
  <2>3. \A g \in Services : g < created + 1 => state'[g] = "closed"
    BY <1>0, <2>1, <2>2
  <2>4. \A g \in Services : g > created + 1 => state'[g] = "unborn"
    BY <1>0, <2>1 DEF InTurn
  <2>5. \A c \in Callers : at'[c] = "offering" => held'[c] \in 1..created'
    BY <1>0, <2>1 DEF InTurn
  <2> QED
    BY <1>0, <2>1, <2>3, <2>4, <2>5 DEF InTurn
<1>11. CASE UNCHANGED <<primary, service, created, state, held, at>>
  BY <1>1, <1>11
<1>12. ASSUME NEW c \in Callers, CallStep(c)
       PROVE  InTurn'
  BY <1>2, <1>3, <1>11, <1>12 DEF CallStep, SendOnClosed, outsideCalls
<1>13. ASSUME NEW g \in Services, ProcessorStep(g) \/ TryConnect(g) \/ ManagerEnds(g)
       PROVE  InTurn'
  BY <1>11, <1>13
  DEF ProcessorStep, TakeMessage, BatchTimeout, SeeCancelled, SeeClosed, SendMessage, SendFails,
      TryConnect, ManagerEnds, outsideProcessor
<1>14. ASSUME NEW k \in Conns, HandlerStep(k) \/ ShortRead(k) \/ Break(k)
       PROVE  InTurn'
  BY <1>11, <1>14
  DEF HandlerStep, AcceptConnection, RegisterConnection, CheckContext, HandleMessage, ReadFails,
      ShortRead, Break, Return
<1>15. CASE CancelReceiver \/ CloseReceiver \/ StartReceiver \/ UNCHANGED vars
  BY <1>11, <1>15 DEF CancelReceiver, CloseReceiver, StartReceiver, vars
<1>16. ASSUME NEW s \in Sessions, Change(s)
       PROVE  InTurn'
  BY <1>11, <1>16 DEF Change
<1> QED
  BY <1>4, <1>5, <1>6, <1>8, <1>9, <1>10, <1>12, <1>13, <1>14, <1>15, <1>16
  DEF Next, SwitchStep, Tick, TriggerSync

\* Until the first service is stopped there is a service and its channel is open.
LEMMA FirstRuns == TypeOK /\ InTurn /\ state[1] = "running" => service = 1 /\ created = 1
<1> SUFFICES ASSUME TypeOK, InTurn, state[1] = "running"
             PROVE  service = 1 /\ created = 1
  OBVIOUS
<1>1. 1 \in Services /\ created \in Nat \ {0} /\ service \in Nat
  BY ServiceNumbers DEF TypeOK
<1>2. ~(1 < created \/ (service = 0 /\ 1 = created))
  BY <1>1 DEF InTurn
<1> QED
  BY <1>1, <1>2 DEF InTurn

LEMMA PanicStep == TypeOK /\ InTurn /\ PanicNeedsDemotion /\ [Next]_vars => PanicNeedsDemotion'
<1> SUFFICES ASSUME TypeOK, InTurn, PanicNeedsDemotion, [Next]_vars, panicked', state'[1] = "running"
             PROVE  FALSE
  BY DEF PanicNeedsDemotion
<1> USE DEF managerVars, callerVars, senderVars, goroutines, backupVars, linkVars, outsideSwitch
<1>0. 1 \in Services /\ created \in Nat \ {0}
      /\ state \in [Services -> {"unborn", "running", "cancelled", "unlinked", "closed"}]
  BY ServiceNumbers DEF TypeOK
<1>1. state[1] = "running"
  <2>1. CASE Promote
    <3>1. 1 # created'
      BY <1>0, <2>1 DEF Promote
    <3> QED
      BY <1>0, <2>1, <3>1 DEF Promote
  <2>2. ASSUME NEW from, NEW to \in {"cancelled", "unlinked", "closed"}, StopStep(from, to)
        PROVE  state[1] = "running"
    BY <1>0, <2>2 DEF StopStep
  <2>3. CASE UNCHANGED state
    BY <2>3
  <2>4. CASE SwitchStep
    BY <2>2, <2>3, <2>4
    DEF SwitchStep, Cancel, CloseConnection, CloseChannel, ForgetService
  <2>5. ASSUME NEW c \in Callers, CallStep(c)
        PROVE  state[1] = "running"
    BY <2>3, <2>5 DEF CallStep, SyncSession, Accept, Decline, SendOnClosed, outsideCalls
  <2>6. ASSUME NEW g \in Services, ProcessorStep(g) \/ TryConnect(g) \/ ManagerEnds(g)
        PROVE  state[1] = "running"
    BY <2>3, <2>6
    DEF ProcessorStep, TakeMessage, BatchTimeout, SeeCancelled, SeeClosed, SendMessage, SendFails,
        TryConnect, ManagerEnds, outsideProcessor
  <2>7. ASSUME NEW k \in Conns, HandlerStep(k) \/ ShortRead(k) \/ Break(k)
        PROVE  state[1] = "running"
    BY <2>3, <2>7
    DEF HandlerStep, AcceptConnection, RegisterConnection, CheckContext, HandleMessage, ReadFails,
        ShortRead, Break, Return
  <2>8. CASE StartHook \/ Demote \/ CancelReceiver \/ CloseReceiver \/ StartReceiver
             \/ UNCHANGED vars
    BY <2>3, <2>8 DEF StartHook, Demote, CancelReceiver, CloseReceiver, StartReceiver, vars
  <2>9. CASE (\E s \in Sessions : Change(s)) \/ (\E h \in Hooks : Tick(h))
             \/ (\E o \in Operators : TriggerSync(o))
    BY <2>3, <2>9 DEF Change, Tick, TriggerSync, Begin, outsideCalls
  <2> QED
    BY <2>1, <2>4, <2>5, <2>6, <2>7, <2>8, <2>9 DEF Next
<1>2. service = 1 /\ created = 1 /\ ~panicked
  BY <1>1, FirstRuns DEF PanicNeedsDemotion
<1>3. ASSUME NEW c \in Callers, SyncSession(c) \/ SendOnClosed(c)
      PROVE  FALSE
  <2>1. ~SyncSession(c)
    <3>1. SyncSession(c) => panicked' = (service = 0)
      BY DEF SyncSession
    <3>2. service # 0 /\ panicked'
      BY <1>1, <1>2
    <3> QED
      BY <3>1, <3>2
  <2>2. SendOnClosed(c) => held[c] = 1
    BY <1>2 DEF SendOnClosed, InTurn
  <2> QED
    BY <1>1, <1>3, <2>1, <2>2 DEF SendOnClosed, ChannelClosed
<1>4. UNCHANGED panicked
  <2>1. ASSUME NEW c \in Callers, CallStep(c)
        PROVE  UNCHANGED panicked
    BY <1>3, <2>1 DEF CallStep, Accept, Decline
  <2>2. ASSUME NEW g \in Services, ProcessorStep(g) \/ TryConnect(g) \/ ManagerEnds(g)
        PROVE  UNCHANGED panicked
    BY <2>2
    DEF ProcessorStep, TakeMessage, BatchTimeout, SeeCancelled, SeeClosed, SendMessage, SendFails,
        TryConnect, ManagerEnds, outsideProcessor
  <2>3. ASSUME NEW k \in Conns, HandlerStep(k) \/ ShortRead(k) \/ Break(k)
        PROVE  UNCHANGED panicked
    BY <2>3
    DEF HandlerStep, AcceptConnection, RegisterConnection, CheckContext, HandleMessage, ReadFails,
        ShortRead, Break, Return
  <2>4. CASE SwitchStep \/ Promote
    BY <2>4
    DEF SwitchStep, Cancel, CloseConnection, CloseChannel, ForgetService, Promote, StopStep
  <2>5. CASE StartHook \/ Demote \/ CancelReceiver \/ CloseReceiver \/ StartReceiver
             \/ UNCHANGED vars
    BY <2>5 DEF StartHook, Demote, CancelReceiver, CloseReceiver, StartReceiver, vars
  <2>6. CASE (\E s \in Sessions : Change(s)) \/ (\E h \in Hooks : Tick(h))
             \/ (\E o \in Operators : TriggerSync(o))
    BY <2>6 DEF Change, Tick, TriggerSync, Begin
  <2> QED
    BY <2>1, <2>2, <2>3, <2>4, <2>5, <2>6 DEF Next
<1> QED
  BY <1>2, <1>4

-----------------------------------------------------------------------------
(* Batches and connections                                                 *)

LEMMA BatchStep == TypeOK /\ BatchesFit /\ [Next]_vars => BatchesFit'
<1> SUFFICES ASSUME TypeOK, BatchesFit, [Next]_vars
             PROVE  BatchesFit'
  OBVIOUS
<1> USE DEF managerVars, callerVars, senderVars, goroutines, backupVars, linkVars
<1>1. ASSUME NEW g \in Services, ProcessorStep(g)
      PROVE  BatchesFit'
  <2>1. ProcessorTyped'
    BY <1>1, ProcessorKeepsBatches
  <2> QED
    BY <2>1 DEF ProcessorTyped
<1>2. ASSUME UNCHANGED <<batch, processor>>
      PROVE  BatchesFit'
  BY <1>2 DEF BatchesFit
<1>3. ASSUME NEW c \in Callers, CallStep(c)
      PROVE  UNCHANGED <<batch, processor>>
  BY <1>3 DEF CallStep, SyncSession, Accept, Decline, SendOnClosed, outsideCalls
<1>4. ASSUME NEW g \in Services, TryConnect(g) \/ ManagerEnds(g)
      PROVE  UNCHANGED <<batch, processor>>
  BY <1>4 DEF TryConnect, ManagerEnds
<1>5. ASSUME NEW k \in Conns, HandlerStep(k) \/ ShortRead(k) \/ Break(k)
      PROVE  UNCHANGED <<batch, processor>>
  BY <1>5
  DEF HandlerStep, AcceptConnection, RegisterConnection, CheckContext, HandleMessage, ReadFails,
      ShortRead, Break, Return
<1>6. CASE Demote \/ SwitchStep \/ Promote
  BY <1>2, <1>6
  DEF Demote, SwitchStep, Cancel, CloseConnection, CloseChannel, ForgetService, StopStep, Promote,
      outsideSwitch
<1>7. CASE StartHook \/ CancelReceiver \/ CloseReceiver \/ StartReceiver \/ UNCHANGED vars
  BY <1>2, <1>7 DEF StartHook, CancelReceiver, CloseReceiver, StartReceiver, vars
<1>8. CASE (\E s \in Sessions : Change(s)) \/ (\E h \in Hooks : Tick(h))
           \/ (\E o \in Operators : TriggerSync(o))
  BY <1>2, <1>8 DEF Change, Tick, TriggerSync, Begin, outsideCalls
<1> QED
  BY <1>1, <1>2, <1>3, <1>4, <1>5, <1>6, <1>7, <1>8 DEF Next

\* What the sender's ends, and everything that is no connection's business, do to connections.
Settles(g) == /\ peer[g] # 0 /\ peer' = Closed(g) /\ link' = Hangup(peer[g])
              /\ UNCHANGED <<wire, handler, stale, receiver>>
Writes(g) == /\ peer[g] # 0 /\ link[peer[g]] = "open"
             /\ \E m \in Messages : wire' = [wire EXCEPT ![peer[g]] = Append(@, m)]
             /\ UNCHANGED <<peer, link, handler, stale, receiver>>

LEMMA SenderOnLinks ==
  ASSUME TypeOK, BatchesFit,
         \/ \E s \in Sessions : Change(s)
         \/ StartHook
         \/ \E h \in Hooks : Tick(h)
         \/ \E o \in Operators : TriggerSync(o)
         \/ \E c \in Callers : CallStep(c)
         \/ \E g \in Services : ProcessorStep(g) \/ ManagerEnds(g)
         \/ Demote \/ SwitchStep \/ Promote
         \/ UNCHANGED vars
  PROVE  \/ UNCHANGED <<peer, linkVars, receiver>>
         \/ \E g \in Services : Settles(g) \/ Writes(g)
<1> USE DEF managerVars, callerVars, senderVars, goroutines, backupVars, linkVars
<1>1. CASE (\E s \in Sessions : Change(s)) \/ (\E h \in Hooks : Tick(h))
           \/ (\E o \in Operators : TriggerSync(o)) \/ StartHook \/ UNCHANGED vars
  BY <1>1 DEF Change, Tick, TriggerSync, Begin, StartHook, outsideCalls, vars
<1>2. ASSUME NEW c \in Callers, CallStep(c)
      PROVE  UNCHANGED <<peer, linkVars, receiver>>
  BY <1>2 DEF CallStep, SyncSession, Accept, Decline, SendOnClosed, outsideCalls
<1>3. ASSUME NEW g \in Services, SendMessage(g)
      PROVE  UNCHANGED <<peer, linkVars, receiver>> \/ Writes(g)
  <2>1. batch[g] \in Seq(Messages) /\ batch[g] # <<>> /\ peer[g] # 0
        /\ UNCHANGED <<peer, link, handler, stale, receiver>>
    BY <1>3 DEF SendMessage, BatchesFit, TypeOK, outsideProcessor
  <2>2. Head(batch[g]) \in Messages
    BY <2>1, HeadTailProperties
  <2>3. CASE link[peer[g]] = "open"
    <3>1. wire' = [wire EXCEPT ![peer[g]] = Append(@, Head(batch[g]))]
      BY <1>3, <2>3 DEF SendMessage
    <3> QED
      BY <2>1, <2>2, <2>3, <3>1 DEF Writes
  <2>4. CASE link[peer[g]] # "open"
    BY <1>3, <2>1, <2>4 DEF SendMessage
  <2> QED
    BY <2>3, <2>4
<1>4. ASSUME NEW g \in Services, SendFails(g)
      PROVE  UNCHANGED <<peer, linkVars, receiver>> \/ Settles(g)
  BY <1>4 DEF SendFails, Settles, outsideProcessor
<1>5. ASSUME NEW g \in Services,
             TakeMessage(g) \/ BatchTimeout(g) \/ SeeCancelled(g) \/ SeeClosed(g) \/ ManagerEnds(g)
      PROVE  UNCHANGED <<peer, linkVars, receiver>>
  BY <1>5 DEF TakeMessage, BatchTimeout, SeeCancelled, SeeClosed, ManagerEnds, outsideProcessor
<1>6. CASE CloseConnection
  <2>1. service # 0 /\ service \in 0..created /\ created \in Services
    BY <1>6 DEF CloseConnection, StopStep, TypeOK
  <2>2. service \in Services
    BY <2>1, ServiceNumbers
  <2>3. UNCHANGED <<peer, linkVars, receiver>> \/ Settles(service)
    BY <1>6 DEF CloseConnection, StopStep, Settles, outsideSwitch
  <2> QED
    BY <2>2, <2>3
<1>7. CASE Demote \/ Cancel \/ CloseChannel \/ ForgetService \/ Promote
  BY <1>7 DEF Demote, Cancel, CloseChannel, ForgetService, StopStep, Promote, outsideSwitch
<1> QED
  BY <1>1, <1>2, <1>3, <1>4, <1>5, <1>6, <1>7 DEF ProcessorStep, SwitchStep

LEMMA LinkStep == TypeOK /\ BatchesFit /\ LinksAreOwned /\ [Next]_vars => LinksAreOwned'
<1> SUFFICES ASSUME TypeOK, BatchesFit, LinksAreOwned, [Next]_vars
             PROVE  LinksAreOwned'
  OBVIOUS
<1> USE DEF managerVars, callerVars, senderVars, goroutines, backupVars, linkVars
<1>0. /\ peer \in [Services -> Conns \cup {0}] /\ wire \in [Conns -> Seq(Messages)]
      /\ link \in [Conns -> {"free", "open", "shut", "broken"}] /\ 0 \notin Conns
      /\ handler \in [Conns -> {"none", "backlog", "accepted", "top", "read"}]
  BY SyncAssumption DEF TypeOK
<1>1. ASSUME UNCHANGED <<peer, link, wire>>,
             \A k \in Conns : handler'[k] = "none" <=> handler[k] = "none"
      PROVE  LinksAreOwned'
  BY <1>1 DEF LinksAreOwned
<1>2. ASSUME NEW g \in Services, Settles(g)
      PROVE  LinksAreOwned'
  <2>1. /\ peer[g] \in Conns /\ UNCHANGED <<wire, handler>>
        /\ \A h \in Services : peer'[h] = IF h = g THEN 0 ELSE peer[h]
        /\ \A k \in Conns :
             link'[k] = IF k = peer[g] THEN IF handler[k] = "none" THEN "free" ELSE "shut"
                        ELSE link[k]
    BY <1>0, <1>2 DEF Settles, Closed, Hangup
  <2>2. \A h \in Services : peer'[h] # 0 => link'[peer'[h]] \in {"open", "broken"}
    BY <1>0, <2>1 DEF LinksAreOwned
  <2>3. \A h, i \in Services : peer'[h] # 0 /\ peer'[h] = peer'[i] => h = i
    BY <2>1 DEF LinksAreOwned
  <2> QED
    BY <2>1, <2>2, <2>3 DEF LinksAreOwned
<1>3. ASSUME NEW g \in Services, Writes(g)
      PROVE  LinksAreOwned'
  <2>1. /\ peer[g] \in Conns /\ handler[peer[g]] # "none" /\ UNCHANGED <<peer, link, handler>>
        /\ \A k \in Conns \ {peer[g]} : wire'[k] = wire[k]
    BY <1>0, <1>3 DEF Writes, LinksAreOwned
  <2> QED
    BY <2>1 DEF LinksAreOwned
<1>4. ASSUME NEW g \in Services, TryConnect(g)
      PROVE  LinksAreOwned'
  <2>1. PICK k \in Conns :
          /\ link[k] = "free"
          /\ peer' = [peer EXCEPT ![g] = k]
          /\ link' = [link EXCEPT ![k] = "open"]
          /\ handler' = [handler EXCEPT ![k] = "backlog"]
          /\ wire' = wire
    BY <1>4 DEF TryConnect, FreeConns
  <2>2. \A h \in Services : peer[h] # k
    BY <1>0, <2>1 DEF LinksAreOwned
  <2>3. /\ \A h \in Services : peer'[h] = IF h = g THEN k ELSE peer[h]
        /\ \A l \in Conns : /\ link'[l] = IF l = k THEN "open" ELSE link[l]
                            /\ handler'[l] = IF l = k THEN "backlog" ELSE handler[l]
    BY <1>0, <2>1
  <2>4. \A h \in Services : peer'[h] # 0 => link'[peer'[h]] \in {"open", "broken"}
    BY <1>0, <2>2, <2>3 DEF LinksAreOwned
  <2>5. \A h, i \in Services : peer'[h] # 0 /\ peer'[h] = peer'[i] => h = i
    BY <2>2, <2>3 DEF LinksAreOwned
  <2> QED
    BY <2>1, <2>3, <2>4, <2>5 DEF LinksAreOwned
<1>5. ASSUME NEW k \in Conns, Return(k)
      PROVE  LinksAreOwned'
  <2>1. /\ peer' = peer
        /\ \A l \in Conns :
             /\ link'[l] = IF l # k THEN link[l] ELSE IF link[k] = "shut" THEN "free" ELSE "broken"
             /\ handler'[l] = IF l = k THEN "none" ELSE handler[l]
             /\ wire'[l] = IF l = k THEN <<>> ELSE wire[l]
    BY <1>0, <1>5 DEF Return
  <2>2. \A h \in Services : peer'[h] # 0 => link'[peer'[h]] \in {"open", "broken"}
    BY <1>0, <2>1 DEF LinksAreOwned
  <2>3. \A l \in Conns : /\ link'[l] = "free" => handler'[l] = "none"
                         /\ handler'[l] = "none" => link'[l] # "open" /\ wire'[l] = <<>>
    BY <2>1 DEF LinksAreOwned
  <2> QED
    BY <2>1, <2>2, <2>3 DEF LinksAreOwned
<1>6. ASSUME NEW k \in Conns, HandlerStep(k) \/ ShortRead(k)
      PROVE  LinksAreOwned'
  <2>1. CASE AcceptConnection(k) \/ RegisterConnection(k)
    BY <1>0, <1>1, <2>1 DEF AcceptConnection, RegisterConnection
  <2>2. CASE CheckContext(k)
    <3>1. CASE stale[k]
      BY <1>5, <2>2, <3>1 DEF CheckContext
    <3>2. CASE ~stale[k]
      BY <1>0, <1>1, <2>2, <3>2 DEF CheckContext
    <3> QED
      BY <3>1, <3>2
  <2>3. CASE HandleMessage(k)
    <3>1. /\ handler[k] = "read" /\ UNCHANGED <<peer, link>>
          /\ \A l \in Conns : handler'[l] = IF l = k THEN "top" ELSE handler[l]
          /\ \A l \in Conns \ {k} : wire'[l] = wire[l]
      BY <1>0, <2>3 DEF HandleMessage
    <3> QED
      BY <3>1 DEF LinksAreOwned
  <2>4. CASE ReadFails(k) \/ ShortRead(k)
    BY <1>5, <2>4 DEF ReadFails, ShortRead
  <2> QED
    BY <1>6, <2>1, <2>2, <2>3, <2>4 DEF HandlerStep
<1>7. ASSUME NEW k \in Conns, Break(k)
      PROVE  LinksAreOwned'
  <2>1. /\ handler[k] # "none" /\ UNCHANGED <<peer, handler>>
        /\ \A l \in Conns : link'[l] = IF l = k THEN "broken" ELSE link[l]
        /\ \A l \in Conns \ {k} : wire'[l] = wire[l]
    BY <1>0, <1>7 DEF Break, LinksAreOwned
  <2>2. \A h \in Services : peer'[h] # 0 => link'[peer'[h]] \in {"open", "broken"}
    BY <1>0, <2>1 DEF LinksAreOwned
  <2> QED
    BY <2>1, <2>2 DEF LinksAreOwned
<1>8. CASE CloseReceiver
  <2> DEFINE cut == {k \in Conns : handler[k] = "backlog" \/ handler[k] \in {"top", "read"}}
  <2>1. /\ peer' = peer
        /\ \A k \in Conns :
             /\ wire'[k] = IF k \in cut THEN <<>> ELSE wire[k]
             /\ handler'[k] = IF handler[k] = "backlog" THEN "none" ELSE handler[k]
             /\ link'[k] = IF k \notin cut THEN link[k]
                           ELSE IF link[k] = "open" THEN "broken"
                           ELSE IF handler[k] = "backlog" /\ link[k] = "shut" THEN "free"
                           ELSE link[k]
    BY <1>8 DEF CloseReceiver
  <2>2. \A h \in Services : peer'[h] # 0 => link'[peer'[h]] \in {"open", "broken"}
    BY <1>0, <2>1 DEF LinksAreOwned
  <2>3. \A k \in Conns : /\ link'[k] = "free" => handler'[k] = "none"
                         /\ handler'[k] = "none" => link'[k] # "open" /\ wire'[k] = <<>>
    BY <2>1 DEF LinksAreOwned
  <2> QED
    BY <2>1, <2>2, <2>3 DEF LinksAreOwned
<1>9. CASE CancelReceiver \/ StartReceiver
  BY <1>1, <1>9 DEF CancelReceiver, StartReceiver
<1>10. ASSUME UNCHANGED <<peer, linkVars, receiver>>
       PROVE  LinksAreOwned'
  BY <1>1, <1>10
<1> QED
  BY <1>2, <1>3, <1>4, <1>6, <1>7, <1>8, <1>9, <1>10, SenderOnLinks DEF Next

LEMMA DeafStep == TypeOK /\ BatchesFit /\ DeafInside /\ [Next]_vars => DeafInside'
<1> SUFFICES ASSUME TypeOK, BatchesFit, DeafInside, [Next]_vars
             PROVE  DeafInside'
  OBVIOUS
<1> USE DEF managerVars, callerVars, senderVars, goroutines, backupVars, linkVars
<1>0. /\ peer \in [Services -> Conns \cup {0}] /\ wire \in [Conns -> Seq(Messages)]
      /\ link \in [Conns -> {"free", "open", "shut", "broken"}]
      /\ handler \in [Conns -> {"none", "backlog", "accepted", "top", "read"}]
      /\ stale \in [Conns -> BOOLEAN]
  BY DEF TypeOK
\* A step that changes one connection only, to one that reads with a valid context or not at all.
<1>1. ASSUME NEW k \in Conns, receiver' = receiver, ~(stale'[k] /\ handler'[k] = "read"),
             \A l \in Conns \ {k} : /\ wire'[l] = wire[l] /\ link'[l] = link[l]
                                    /\ stale'[l] = stale[l] /\ handler'[l] = handler[l]
      PROVE  DeafInside'
  BY <1>1 DEF DeafInside
<1>2. ASSUME UNCHANGED <<stale, handler, receiver>>,
             \A k \in Conns : wire[k] = <<>> /\ link[k] # "open" =>
                                wire'[k] = <<>> /\ link'[k] # "open"
      PROVE  DeafInside'
  BY <1>2 DEF DeafInside
<1>3. ASSUME NEW g \in Services, Settles(g)
      PROVE  DeafInside'
  BY <1>0, <1>2, <1>3 DEF Settles, Hangup
<1>4. ASSUME NEW g \in Services, Writes(g)
      PROVE  DeafInside'
  <2>1. \A k \in Conns : link[k] # "open" => wire'[k] = wire[k]
    BY <1>0, <1>4 DEF Writes
  <2> QED
    BY <1>2, <1>4, <2>1 DEF Writes
<1>5. ASSUME NEW g \in Services, TryConnect(g)
      PROVE  DeafInside'
  <2>1. PICK k \in Conns :
          /\ link' = [link EXCEPT ![k] = "open"]
          /\ handler' = [handler EXCEPT ![k] = "backlog"]
          /\ stale' = [stale EXCEPT ![k] = FALSE]
          /\ wire' = wire /\ receiver' = receiver
    BY <1>5 DEF TryConnect, FreeConns
  <2>2. handler'[k] = "backlog"
    BY <1>0, <2>1
  <2>3. \A l \in Conns \ {k} : stale'[l] = stale[l]
    BY <1>0, <2>1
  <2>4. \A l \in Conns \ {k} : link'[l] = link[l] /\ handler'[l] = handler[l] /\ wire'[l] = wire[l]
    BY <1>0, <2>1
  <2> QED
    BY <1>1, <2>1, <2>2, <2>3, <2>4
<1>6. ASSUME NEW k \in Conns, Return(k)
      PROVE  DeafInside'
  <2>1. handler'[k] # "read"
    BY <1>0, <1>6 DEF Return
  <2> QED
    BY <1>0, <1>1, <1>6, <2>1 DEF Return
<1>7. ASSUME NEW k \in Conns, AcceptConnection(k)
      PROVE  DeafInside'
  <2>1. handler'[k] # "read"
    BY <1>0, <1>7 DEF AcceptConnection
  <2>2. \A l \in Conns \ {k} : stale'[l] = stale[l]
    BY <1>0, <1>7 DEF AcceptConnection
  <2> QED
    BY <1>0, <1>1, <1>7, <2>1, <2>2 DEF AcceptConnection
<1>8. ASSUME NEW k \in Conns, RegisterConnection(k) \/ HandleMessage(k)
      PROVE  DeafInside'
  <2>1. handler'[k] # "read"
    BY <1>0, <1>8 DEF RegisterConnection, HandleMessage
  <2> QED
    BY <1>0, <1>1, <1>8, <2>1 DEF RegisterConnection, HandleMessage
<1>9. ASSUME NEW k \in Conns, CheckContext(k)
      PROVE  DeafInside'
  <2>1. CASE stale[k]
    BY <1>6, <1>9, <2>1 DEF CheckContext
  <2>2. CASE ~stale[k]
    <3>1. UNCHANGED <<stale, wire, link, receiver>> /\ handler' = [handler EXCEPT ![k] = "read"]
      BY <1>9, <2>2 DEF CheckContext
    <3>2. ~stale'[k]
      BY <2>2, <3>1
    <3> QED
      BY <1>0, <1>1, <3>1, <3>2
  <2> QED
    BY <2>1, <2>2
<1>10. ASSUME NEW k \in Conns, Break(k)
       PROVE  DeafInside'
  <2>1. \A l \in Conns : link[l] # "open" => link'[l] # "open" /\ wire'[l] = wire[l]
    BY <1>0, <1>10 DEF Break
  <2> QED
    BY <1>2, <1>10, <2>1 DEF Break
<1>11. CASE CloseReceiver
  <2>1. UNCHANGED stale
        /\ \A k \in Conns : handler'[k] = "read" =>
             handler[k] = "read" /\ wire'[k] = <<>> /\ link'[k] # "open"
    BY <1>11 DEF CloseReceiver
  <2> QED
    BY <2>1 DEF DeafInside
<1>12. CASE CancelReceiver
  BY <1>12 DEF CancelReceiver, DeafInside
<1>13. CASE StartReceiver
  BY <1>13 DEF StartReceiver, DeafInside
<1>14. ASSUME UNCHANGED <<peer, linkVars, receiver>>
       PROVE  DeafInside'
  BY <1>2, <1>14
<1>15. ASSUME NEW k \in Conns, HandlerStep(k) \/ ShortRead(k)
       PROVE  DeafInside'
  BY <1>6, <1>7, <1>8, <1>9, <1>15 DEF HandlerStep, ReadFails, ShortRead
<1> QED
  BY <1>3, <1>4, <1>5, <1>10, <1>11, <1>12, <1>13, <1>14, <1>15, SenderOnLinks DEF Next

\* A handler goes from its read to the top of its loop by handling a message.
LEMMA OnlyMessagesAreRead ==
  ASSUME TypeOK, BatchesFit, [Next]_vars, NEW k \in Conns, Read(k)
  PROVE  HandleMessage(k)
<1> USE DEF managerVars, callerVars, senderVars, goroutines, backupVars, linkVars
<1>0. /\ handler \in [Conns -> {"none", "backlog", "accepted", "top", "read"}]
      /\ handler[k] = "read" /\ handler'[k] = "top"
  BY DEF TypeOK, Read
<1>1. ASSUME NEW l \in Conns, Return(l)
      PROVE  FALSE
  BY <1>0, <1>1 DEF Return
<1>2. ASSUME NEW l \in Conns, HandlerStep(l) \/ ShortRead(l) \/ Break(l)
      PROVE  HandleMessage(k)
  <2>1. CASE AcceptConnection(l) \/ RegisterConnection(l) \/ Break(l)
    BY <1>0, <2>1 DEF AcceptConnection, RegisterConnection, Break
  <2>2. CASE CheckContext(l)
    <3>1. ~stale[l]
      BY <1>1, <2>2 DEF CheckContext
    <3> QED
      BY <1>0, <2>2, <3>1 DEF CheckContext
  <2>3. CASE HandleMessage(l)
    <3>1. l = k
      BY <1>0, <2>3 DEF HandleMessage
    <3> QED
      BY <2>3, <3>1
  <2>4. CASE ReadFails(l) \/ ShortRead(l)
    BY <1>1, <2>4 DEF ReadFails, ShortRead
  <2> QED
    BY <1>2, <2>1, <2>2, <2>3, <2>4 DEF HandlerStep
<1>3. ASSUME NEW g \in Services, TryConnect(g)
      PROVE  FALSE
  <2>1. PICK l \in Conns : handler' = [handler EXCEPT ![l] = "backlog"]
    BY <1>3 DEF TryConnect, FreeConns
  <2> QED
    BY <1>0, <2>1
<1>4. CASE CancelReceiver \/ CloseReceiver \/ StartReceiver
  BY <1>0, <1>4 DEF CancelReceiver, CloseReceiver, StartReceiver
<1>5. handler' # handler
  BY <1>0
<1>6. ~UNCHANGED <<peer, linkVars, receiver>> /\ \A g \in Services : ~Settles(g) /\ ~Writes(g)
  BY <1>5 DEF Settles, Writes
<1> QED
  BY <1>2, <1>3, <1>4, <1>6, SenderOnLinks DEF Next

-----------------------------------------------------------------------------
(* The invariant holds                                                     *)

SyncInv == TypeOK /\ InTurn /\ BatchesFit /\ LinksAreOwned /\ DeafInside /\ PanicNeedsDemotion

LEMMA InitInv == Init => SyncInv
<1> SUFFICES ASSUME Init
             PROVE  SyncInv
  OBVIOUS
<1>0. /\ 1 \in Services /\ Services \subseteq Nat \ {0} /\ <<>> \in Seq(Messages) /\ Len(<<>>) = 0
      /\ NoOffer \in Messages /\ SyncAssumption
      /\ Callers = Hooks \cup Operators
  BY ServiceNumbers, EmptySeq, MessageParts, SyncAssumption DEF Callers
<1>1. TypeOK
  <2>1. /\ primary \in BOOLEAN /\ panicked \in BOOLEAN
        /\ service \in 0..created /\ created \in Services /\ hooksDue \in 0..created
        /\ faults \in 0..MaxFaults /\ receiver \in {"up", "cancelled", "down"}
    <3>1. primary = TRUE /\ panicked = FALSE /\ service = 1 /\ created = 1 /\ hooksDue = 1
          /\ faults = 0 /\ receiver = "up"
      BY DEF Init
    <3>2. 1 \in 0..1 /\ 0 \in 0..MaxFaults
      BY <1>0 DEF SyncAssumption
    <3> QED
      BY <1>0, <3>1, <3>2
  <2>2. /\ version \in [Sessions -> 0..MaxVersion] /\ copy \in [Sessions -> 0..MaxVersion]
    BY <1>0 DEF Init, SyncAssumption
  <2>3. /\ at \in [Callers -> {"absent", "idle", "round", "offering"}]
        /\ todo \in [Callers -> SUBSET (Sessions \cup {FullSync})]
        /\ held \in [Callers -> 0..created] /\ offer \in [Callers -> Messages]
    BY <1>0 DEF Init
  <2>4. /\ state \in [Services -> {"unborn", "running", "cancelled", "unlinked", "closed"}]
        /\ chan \in [Services -> Seq(Messages)] /\ batch \in [Services -> Seq(Messages)]
        /\ processor \in [Services -> {"select", "sending", "last", "ended"}]
        /\ manager \in [Services -> {"on", "ended"}]
        /\ peer \in [Services -> Conns \cup {0}]
    BY <1>0 DEF Init
  <2>5. \A g \in Services : Len(chan[g]) <= BufferSize /\ Len(batch[g]) <= BatchSize
    BY <1>0 DEF Init, SyncAssumption
  <2>6. /\ link \in [Conns -> {"free", "open", "shut", "broken"}]
        /\ wire \in [Conns -> Seq(Messages)]
        /\ handler \in [Conns -> {"none", "backlog", "accepted", "top", "read"}]
        /\ stale \in [Conns -> BOOLEAN]
    BY <1>0 DEF Init
  <2> QED
    BY <2>1, <2>2, <2>3, <2>4, <2>5, <2>6 DEF TypeOK
<1>2. InTurn
  <2>1. primary /\ service = 1 /\ created = 1
    BY DEF Init
  <2>2. \A g \in Services : ~(g < 1) /\ (g > 1 => state[g] = "unborn")
    BY <1>0 DEF Init
  <2>3. \A c \in Callers : at[c] # "offering"
    BY DEF Init
  <2> QED
    BY <2>1, <2>2, <2>3 DEF InTurn
<1>3. BatchesFit
  BY <1>0 DEF Init, SyncAssumption, BatchesFit
<1>4. LinksAreOwned
  BY DEF Init, LinksAreOwned
<1>5. DeafInside /\ PanicNeedsDemotion
  BY DEF Init, DeafInside, PanicNeedsDemotion
<1> QED
  BY <1>1, <1>2, <1>3, <1>4, <1>5 DEF SyncInv

LEMMA InvStep == SyncInv /\ [Next]_vars => SyncInv'
BY TypeStep, TurnStep, BatchStep, LinkStep, DeafStep, PanicStep DEF SyncInv

\* The parts of the invariant hold together in every behaviour of manager, service and receiver.
THEOREM InvariantHolds == Spec => []SyncInv
BY InitInv, InvStep, PTL DEF Spec

\* Every variable keeps its type: sync_service.go's batch stays below its size outside sendBatch
\* and its channel within its buffer.
THEOREM TypeCorrect == Spec => []TypeOK
BY InvariantHolds, PTL DEF SyncInv

\* No order of ticks, triggers, failed writes and reconnects panics: SyncSession meets a nil
\* service or a closed channel only once the first service's Stop has begun.
THEOREM PanicsAfterDemotionOnly == Spec => []PanicNeedsDemotion
BY InvariantHolds, PTL DEF SyncInv

\* After Stop of the receiver has returned, none of its handlers handles a message.
THEOREM StoppedReceiversAreDeaf == Spec => StoppedIsDeaf
<1>1. SyncInv /\ [Next]_vars => [\A k \in Conns : Read(k) => ~stale[k] \/ receiver = "cancelled"]_vars
  <2> SUFFICES ASSUME SyncInv, [Next]_vars, NEW k \in Conns, Read(k), stale[k]
               PROVE  receiver = "cancelled"
    OBVIOUS
  <2>1. HandleMessage(k)
    BY OnlyMessagesAreRead DEF SyncInv
  <2>2. handler[k] = "read" /\ wire[k] # <<>>
    BY <2>1 DEF HandleMessage
  <2> QED
    BY <2>2 DEF SyncInv, DeafInside
<1> QED
  BY <1>1, InvariantHolds, PTL DEF Spec, StoppedIsDeaf

-----------------------------------------------------------------------------
(* Order in the pipe                                                       *)

\* r is q without one stretch, that may be empty.
Loss(q, r) == \E j \in 0..Len(q) : \E i \in 0..j : r = Without(q, i, j)

LEMMA StretchIsLost ==
  ASSUME NEW S, NEW a \in Seq(S), NEW b \in Seq(S), NEW c \in Seq(S)
  PROVE  Loss((a \o b) \o c, a \o c)
<1> DEFINE q == (a \o b) \o c
           i == Len(a)
           j == Len(a) + Len(b)
<1>1. /\ Len(a) \in Nat /\ Len(b) \in Nat /\ Len(c) \in Nat /\ a \o b \in Seq(S)
      /\ Len(a \o b) = j
  BY LenProperties, ConcatProperties
<1>2. /\ q \in Seq(S) /\ Len(q) = j + Len(c)
      /\ \A n \in 1..Len(q) : q[n] = IF n <= j THEN (a \o b)[n] ELSE c[n - j]
  BY <1>1, ConcatProperties
<1>3. \A n \in 1..i : q[n] = a[n]
  <2> SUFFICES ASSUME NEW n \in 1..i
               PROVE  q[n] = a[n]
    OBVIOUS
  <2>1. n \in 1..Len(q) /\ n <= j /\ n \in 1..j /\ n <= Len(a)
    BY <1>1, <1>2
  <2>2. (a \o b)[n] = a[n]
    BY <1>1, <2>1, ConcatProperties
  <2> QED
    BY <1>2, <2>1, <2>2
<1>4. \A n \in 1..Len(c) : q[j + n] = c[n]
  <2> SUFFICES ASSUME NEW n \in 1..Len(c)
               PROVE  q[j + n] = c[n]
    OBVIOUS
  <2>1. j + n \in 1..Len(q) /\ ~(j + n <= j) /\ (j + n) - j = n
    BY <1>1, <1>2
  <2> QED
    BY <1>2, <2>1
<1> HIDE DEF q
<1>5. SubSeq(q, 1, i) = a
  <2>1. \A n \in 1..i : q[n] \in S
    BY <1>3, ElementOfSeq
  <2>2. /\ SubSeq(q, 1, i) \in Seq(S) /\ Len(SubSeq(q, 1, i)) = Len(a)
        /\ \A n \in 1..i : SubSeq(q, 1, i)[n] = q[n]
    BY <1>1, <2>1, SubSeqProperties
  <2> QED
    BY <1>3, <2>2, SeqEqual
<1>6. SubSeq(q, j + 1, Len(q)) = c
  <2>1. j + 1 \in Int /\ Len(q) \in Int /\ Len(q) - (j + 1) + 1 = Len(c)
    BY <1>1, <1>2
  <2>2. \A n \in (j + 1)..Len(q) : q[n] \in S
    BY <1>1, <1>2, ElementOfSeq
  <2>3. /\ SubSeq(q, j + 1, Len(q)) \in Seq(S) /\ Len(SubSeq(q, j + 1, Len(q))) = Len(c)
        /\ \A n \in 1..Len(c) : SubSeq(q, j + 1, Len(q))[n] = q[(j + 1) + n - 1]
    BY <1>1, <1>2, <2>1, <2>2, SubSeqProperties
  <2>4. \A n \in 1..Len(c) : (j + 1) + n - 1 = j + n
    BY <1>1
  <2>5. \A n \in 1..Len(c) : SubSeq(q, j + 1, Len(q))[n] = c[n]
    BY <1>4, <2>3, <2>4
  <2> QED
    BY <2>3, <2>5, SeqEqual
<1>7. j \in 0..Len(q) /\ i \in 0..j
  BY <1>1, <1>2
<1>8. a \o c = Without(q, i, j)
  BY <1>5, <1>6 DEF Without
<1>9. Loss(q, a \o c)
  BY <1>7, <1>8 DEF Loss
<1> QED
  BY <1>9 DEF q

LEMMA Concatenations ==
  ASSUME NEW S
  PROVE  /\ <<>> \in Seq(S) /\ \A s, t \in Seq(S) : s \o t \in Seq(S)
         /\ \A s \in Seq(S) : s \o <<>> = s /\ <<>> \o s = s
         /\ \A s, t, u \in Seq(S) : (s \o t) \o u = s \o (t \o u)
         /\ \A s, t, u \in Seq(S) : Loss((s \o t) \o u, s \o u)
         /\ \A m \in S : <<m>> \in Seq(S) /\ \A s \in Seq(S) : Append(s, m) = s \o <<m>>
         /\ \A s \in Seq(S) :
              s # <<>> => Head(s) \in S /\ Tail(s) \in Seq(S) /\ s = <<Head(s)>> \o Tail(s)
<1>0. /\ <<>> \in Seq(S) /\ \A s, t \in Seq(S) : s \o t \in Seq(S)
      /\ \A s \in Seq(S) : s \o <<>> = s /\ <<>> \o s = s
  BY EmptySeq, ConcatProperties, ConcatEmptySeq
<1>1. \A s, t, u \in Seq(S) : (s \o t) \o u = s \o (t \o u)
  BY ConcatAssociative
<1>2. \A s, t, u \in Seq(S) : Loss((s \o t) \o u, s \o u)
  BY StretchIsLost
<1>3. \A m \in S : <<m>> \in Seq(S) /\ \A s \in Seq(S) : Append(s, m) = s \o <<m>>
  <2>1. \A m \in S : <<m>> = Append(<<>>, m)
    OBVIOUS
  <2> QED
    BY <1>0, <2>1, AppendProperties, AppendIsConcat
<1>4. \A s \in Seq(S) : s # <<>> => Head(s) \in S /\ Tail(s) \in Seq(S) /\ s = <<Head(s)>> \o Tail(s)
  <2> SUFFICES ASSUME NEW s \in Seq(S), s # <<>>
               PROVE  Head(s) \in S /\ Tail(s) \in Seq(S) /\ s = <<Head(s)>> \o Tail(s)
    OBVIOUS
  <2>1. /\ Head(s) \in S /\ Tail(s) \in Seq(S) /\ Len(Tail(s)) = Len(s) - 1
        /\ Len(s) \in Nat \ {0} /\ Tail(s) = SubSeq(s, 2, Len(s))
    BY HeadTailProperties, EmptySeq, TailIsSubSeq
  <2>2. SubSeq(s, 1, Len(s)) = <<s[1]>> \o SubSeq(s, 2, Len(s))
    <3>1. 1 \in 1..Len(s) /\ Len(s) \in 1..Len(s) /\ 1 + 1 = 2
      BY <2>1
    <3>2. SubSeq(s, 1, Len(s)) = <<s[1]>> \o SubSeq(s, 1 + 1, Len(s))
      BY <3>1, SubSeqRecursiveFirst
    <3> QED
      BY <3>1, <3>2
  <2>3. SubSeq(s, 1, Len(s)) = s /\ Head(s) = s[1]
    BY <2>1, SubSeqFull
  <2> QED
    BY <2>1, <2>2, <2>3
<1> QED
  BY <1>0, <1>1, <1>2, <1>3, <1>4

\* What a step makes of a wire, a batch and a channel, one after the other.
Moves(w, b, c, w2, b2, c2) ==
  \/ w2 \in {w, <<>>} /\ b2 \in {b, <<>>} /\ c2 = c
  \/ w # <<>> /\ w2 = Tail(w) /\ b2 = b /\ c2 = c
  \/ (\E n \in 0..Len(w) : w2 = SubSeq(w, 1, n)) /\ b2 = b /\ c2 = c
  \/ b # <<>> /\ w2 \in {w, Append(w, Head(b))} /\ b2 = Tail(b) /\ c2 = c
  \/ c # <<>> /\ w2 = w /\ b2 \in {Append(b, Head(c)), <<>>} /\ c2 = Tail(c)

LEMMA MovesLoseAStretch ==
  ASSUME NEW w \in Seq(Messages), NEW b \in Seq(Messages), NEW c \in Seq(Messages),
         NEW w2, NEW b2, NEW c2, Moves(w, b, c, w2, b2, c2)
  PROVE  Loss((w \o b) \o c, (w2 \o b2) \o c2)
<1>0. /\ <<>> \in Seq(Messages) /\ \A s, t \in Seq(Messages) : s \o t \in Seq(Messages)
      /\ \A s \in Seq(Messages) : s \o <<>> = s /\ <<>> \o s = s
  BY Concatenations
<1>1. \A s, t, u \in Seq(Messages) : (s \o t) \o u = s \o (t \o u)
  BY Concatenations
<1>2. \A s, t, u \in Seq(Messages) : Loss((s \o t) \o u, s \o u)
  BY Concatenations
<1>3. \A m \in Messages : <<m>> \in Seq(Messages) /\ \A s \in Seq(Messages) : Append(s, m) = s \o <<m>>
  BY Concatenations
<1>4. \A s \in Seq(Messages) : s # <<>> =>
        Head(s) \in Messages /\ Tail(s) \in Seq(Messages) /\ s = <<Head(s)>> \o Tail(s)
  BY Concatenations
<1>5. Loss((w \o b) \o c, (w \o b) \o c)
  <2>1. Loss(((w \o b) \o <<>>) \o c, (w \o b) \o c)
    BY <1>0, <1>2
  <2> QED
    BY <1>0, <2>1
<1>6. Loss((w \o b) \o c, (<<>> \o b) \o c)
  <2>1. Loss((<<>> \o w) \o (b \o c), <<>> \o (b \o c))
    BY <1>0, <1>2
  <2>2. <<>> \o w = w /\ <<>> \o (b \o c) = b \o c /\ <<>> \o b = b
    BY <1>0
  <2>3. (w \o b) \o c = w \o (b \o c)
    BY <1>1
  <2> QED
    BY <2>1, <2>2, <2>3
<1>7. Loss((w \o b) \o c, (w \o <<>>) \o c)
  <2>1. Loss((w \o b) \o c, w \o c)
    BY <1>2
  <2> QED
    BY <1>0, <2>1
<1>8. Loss((w \o b) \o c, (<<>> \o <<>>) \o c)
  <2>1. w \o b \in Seq(Messages)
    BY <1>0
  <2>2. Loss((<<>> \o (w \o b)) \o c, <<>> \o c)
    BY <1>0, <1>2, <2>1
  <2>3. <<>> \o (w \o b) = w \o b /\ <<>> \o <<>> = <<>>
    BY <1>0, <2>1
  <2> QED
    BY <2>2, <2>3
<1>9. ASSUME NEW n \in 0..Len(w)
      PROVE  Loss((w \o b) \o c, (SubSeq(w, 1, n) \o b) \o c)
  <2> DEFINE s == SubSeq(w, 1, n)
             t == SubSeq(w, n + 1, Len(w))
  <2>1. Len(w) \in Nat /\ n \in Int /\ n + 1 \in Int
    BY <1>9, LenProperties
  <2>2. s \in Seq(Messages) /\ t \in Seq(Messages)
    BY <2>1, ElementOfSeq, SubSeqProperties
  <2>3. s \o t = w
    <3>1. 1 \in 1..(Len(w) + 1) /\ n \in (1 - 1)..Len(w) /\ Len(w) \in n..Len(w)
      BY <2>1
    <3>2. s \o t = SubSeq(w, 1, Len(w))
      BY <3>1, ConcatAdjacentSubSeq
    <3> QED
      BY <3>2, SubSeqFull
  <2> HIDE DEF s, t
  <2>4. Loss((s \o t) \o (b \o c), s \o (b \o c))
    BY <1>0, <1>2, <2>2
  <2>5. (w \o b) \o c = w \o (b \o c)
    BY <1>1
  <2>6. (s \o b) \o c = s \o (b \o c)
    BY <1>1, <2>2, ZenonT(60)
  <2>7. Loss((w \o b) \o c, (s \o b) \o c)
    BY <2>3, <2>4, <2>5, <2>6
  <2> QED
    BY <2>7 DEF s
<1>10. ASSUME w # <<>>
       PROVE  Loss((w \o b) \o c, (Tail(w) \o b) \o c)
  <2> DEFINE h == <<Head(w)>>
             t == Tail(w)
             r == b \o c
  <2>1. h \in Seq(Messages) /\ t \in Seq(Messages) /\ w = h \o t /\ r \in Seq(Messages)
    BY <1>0, <1>3, <1>4, <1>10
  <2>2. w \o r = (w \o b) \o c /\ t \o r = (t \o b) \o c
    BY <1>1, <2>1, ZenonT(60)
  <2> HIDE DEF h, t, r
  <2>3. Loss((<<>> \o h) \o (t \o r), <<>> \o (t \o r))
    BY <1>0, <1>2, <2>1
  <2>4. Loss(h \o (t \o r), t \o r)
    BY <1>0, <2>1, <2>3
  <2>5. h \o (t \o r) = w \o r
    <3>1. h \in Seq(Messages) /\ t \in Seq(Messages) /\ r \in Seq(Messages)
      BY <2>1
    <3>2. \A y, z \in Seq(Messages) : (h \o y) \o z = h \o (y \o z)
      BY <1>1, <3>1, Zenon
    <3>3. (h \o t) \o r = h \o (t \o r)
      BY <3>1, <3>2, Zenon
    <3> QED
      BY <2>1, <3>3
  <2>6. Loss((w \o b) \o c, (t \o b) \o c)
    BY <2>2, <2>4, <2>5
  <2> QED
    BY <2>6 DEF t
<1>11. ASSUME b # <<>>
       PROVE  /\ Loss((w \o b) \o c, (w \o Tail(b)) \o c)
              /\ (Append(w, Head(b)) \o Tail(b)) \o c = (w \o b) \o c
  <2> DEFINE h == <<Head(b)>>
             t == Tail(b)
  <2>1. h \in Seq(Messages) /\ t \in Seq(Messages) /\ b = h \o t /\ Append(w, Head(b)) = w \o h
    BY <1>3, <1>4, <1>11
  <2> HIDE DEF h, t
  <2>2. Loss((w \o h) \o (t \o c), w \o (t \o c))
    BY <1>0, <1>2, <2>1
  <2>3. w \o (t \o c) = (w \o t) \o c
    BY <1>1, <2>1, ZenonT(60)
  <2>4. (w \o h) \o t = w \o b
    BY <1>1, <2>1, ZenonT(60)
  <2>5. w \o h \in Seq(Messages)
    BY <1>0, <2>1
  <2>6. (w \o h) \o (t \o c) = ((w \o h) \o t) \o c
    <3> DEFINE u == w \o h
    <3>1. u \in Seq(Messages) /\ t \in Seq(Messages)
      BY <2>1, <2>5
    <3> HIDE DEF u
    <3>2. \A y, z \in Seq(Messages) : (u \o y) \o z = u \o (y \o z)
      BY <1>1, <3>1, Zenon
    <3>3. (u \o t) \o c = u \o (t \o c)
      BY <3>1, <3>2, Zenon
    <3> QED
      BY <3>3 DEF u
  <2> QED
    BY <2>1, <2>2, <2>3, <2>4, <2>6 DEF t
<1>12. ASSUME c # <<>>
       PROVE  /\ (w \o Append(b, Head(c))) \o Tail(c) = (w \o b) \o c
              /\ Loss((w \o b) \o c, (w \o <<>>) \o Tail(c))
  <2> DEFINE h == <<Head(c)>>
             t == Tail(c)
  <2>1. h \in Seq(Messages) /\ t \in Seq(Messages) /\ c = h \o t /\ Append(b, Head(c)) = b \o h
    BY <1>3, <1>4, <1>12
  <2> HIDE DEF h, t
  <2>2. (w \o (b \o h)) \o t = (w \o b) \o c
    <3>1. w \o (b \o h) = (w \o b) \o h
      BY <1>1, <2>1, ZenonT(60)
    <3>2. w \o b \in Seq(Messages)
      BY <1>0
    <3>3. ((w \o b) \o h) \o t = (w \o b) \o (h \o t)
      BY <1>1, <2>1, <3>2
    <3> QED
      BY <2>1, <3>1, <3>3
  <2>3. Loss((w \o (b \o h)) \o t, w \o t)
    BY <1>0, <1>2, <2>1
  <2> QED
    BY <1>0, <2>1, <2>2, <2>3 DEF t
<1>13. CASE w2 \in {w, <<>>} /\ b2 \in {b, <<>>} /\ c2 = c
  BY <1>5, <1>6, <1>7, <1>8, <1>13
<1>14. CASE w # <<>> /\ w2 = Tail(w) /\ b2 = b /\ c2 = c
  BY <1>10, <1>14
<1>15. CASE (\E n \in 0..Len(w) : w2 = SubSeq(w, 1, n)) /\ b2 = b /\ c2 = c
  BY <1>9, <1>15
<1>16. CASE b # <<>> /\ w2 \in {w, Append(w, Head(b))} /\ b2 = Tail(b) /\ c2 = c
  BY <1>5, <1>11, <1>16
<1>17. CASE c # <<>> /\ w2 = w /\ b2 \in {Append(b, Head(c)), <<>>} /\ c2 = Tail(c)
  BY <1>5, <1>12, <1>17
<1> QED
  BY <1>13, <1>14, <1>15, <1>16, <1>17 DEF Moves

LEMMA LastIsAdded ==
  ASSUME NEW w \in Seq(Messages), NEW b \in Seq(Messages), NEW c \in Seq(Messages), NEW m \in Messages
  PROVE  (w \o b) \o Append(c, m) = Append((w \o b) \o c, m)
<1>0. /\ <<>> \in Seq(Messages) /\ \A s, t \in Seq(Messages) : s \o t \in Seq(Messages)
      /\ \A s \in Seq(Messages) : s \o <<>> = s /\ <<>> \o s = s
  BY Concatenations
<1>1. \A s, t, u \in Seq(Messages) : (s \o t) \o u = s \o (t \o u)
  BY Concatenations
<1>2. <<m>> \in Seq(Messages) /\ \A s \in Seq(Messages) : Append(s, m) = s \o <<m>>
  BY Concatenations
<1>3. /\ <<m>> \in Seq(Messages) /\ Append(c, m) = c \o <<m>>
      /\ Append((w \o b) \o c, m) = ((w \o b) \o c) \o <<m>>
  BY <1>0, <1>2
<1> QED
  BY <1>0, <1>1, <1>3

Wired(g) == IF peer[g] = 0 THEN <<>> ELSE wire[peer[g]]
PipeKept(g) == Wired(g)' = Wired(g) /\ batch'[g] = batch[g] /\ chan'[g] = chan[g]

LEMMA CallsAddOne ==
  ASSUME TypeOK, NEW g \in Services, NEW d \in Callers, CallStep(d)
  PROVE  Accepted(g) \/ PipeKept(g)
<1>0. /\ wire \in [Conns -> Seq(Messages)] /\ peer \in [Services -> Conns \cup {0}]
      /\ batch \in [Services -> Seq(Messages)] /\ chan \in [Services -> Seq(Messages)]
  BY DEF TypeOK
<1> DEFINE w == Wired(g)
           b == batch[g]
           c == chan[g]
<1>1. w \in Seq(Messages) /\ b \in Seq(Messages) /\ c \in Seq(Messages)
  BY <1>0, EmptySeq DEF Wired
<1>2. Piped(g) = (w \o b) \o c /\ Piped(g)' = (Wired(g)' \o batch'[g]) \o chan'[g]
  BY DEF Piped, Wired
<1> HIDE DEF w
<1>3. UNCHANGED <<peer, wire, batch>>
  BY DEF CallStep, SyncSession, Accept, Decline, SendOnClosed, outsideCalls, linkVars
<1>4. Wired(g)' = w /\ batch'[g] = b
  BY <1>3 DEF Wired, w
<1>5. CASE Accept(d) /\ held[d] = g
  <2>1. chan'[g] = Append(c, offer[d]) /\ offer[d] \in Messages
    BY <1>0, <1>5 DEF Accept, TypeOK
  <2>2. /\ Len(chan'[g]) = Len(c) + 1 /\ Len(c) \in Nat /\ chan'[g][Len(c) + 1] = offer[d]
    BY <1>1, <2>1, AppendProperties, LenProperties
  <2>3. (w \o b) \o Append(c, offer[d]) = Append((w \o b) \o c, offer[d])
    BY <1>1, <2>1, LastIsAdded
  <2>4. Piped(g)' = Append(Piped(g), offer[d])
    BY <1>2, <1>4, <2>1, <2>3
  <2> QED
    BY <2>2, <2>4 DEF Accepted
<1>6. CASE Accept(d) /\ held[d] # g
  <2>1. chan'[g] = c
    BY <1>0, <1>6 DEF Accept
  <2> QED
    BY <1>4, <2>1 DEF PipeKept, w
<1>7. CASE SyncSession(d) \/ Decline(d) \/ SendOnClosed(d)
  <2>1. chan' = chan
    BY <1>7 DEF SyncSession, Decline, SendOnClosed
  <2> QED
    BY <1>4, <2>1 DEF PipeKept, w
<1> QED
  BY <1>5, <1>6, <1>7 DEF CallStep

LEMMA OthersKeepThePipe ==
  ASSUME TypeOK, LinksAreOwned, NEW g \in Services, NEW h \in Services, h # g, ProcessorStep(h)
  PROVE  PipeKept(g)
<1> USE DEF linkVars
<1>0. /\ wire \in [Conns -> Seq(Messages)] /\ peer \in [Services -> Conns \cup {0}]
      /\ batch \in [Services -> Seq(Messages)] /\ chan \in [Services -> Seq(Messages)]
  BY DEF TypeOK
<1>1. batch'[g] = batch[g]
  BY <1>0
  DEF ProcessorStep, TakeMessage, BatchTimeout, SeeCancelled, SeeClosed, SendMessage, SendFails,
      SendBatch, Remaining
<1>2. chan'[g] = chan[g]
  BY <1>0
  DEF ProcessorStep, TakeMessage, BatchTimeout, SeeCancelled, SeeClosed, SendMessage, SendFails
<1>3. CASE SendMessage(h)
  <2>1. peer[h] # 0 /\ peer[h] # peer[g] /\ peer' = peer
    BY <1>3 DEF SendMessage, LinksAreOwned
  <2>2. peer[g] # 0 => wire'[peer[g]] = wire[peer[g]]
    BY <1>0, <1>3, <2>1 DEF SendMessage
  <2> QED
    BY <1>1, <1>2, <2>1, <2>2 DEF Wired, PipeKept
<1>4. CASE SendFails(h)
  <2>1. peer'[g] = peer[g] /\ wire' = wire
    BY <1>0, <1>4 DEF SendFails, Closed
  <2> QED
    BY <1>1, <1>2, <2>1 DEF Wired, PipeKept
<1>5. CASE TakeMessage(h) \/ BatchTimeout(h) \/ SeeCancelled(h) \/ SeeClosed(h)
  <2>1. UNCHANGED <<peer, wire>>
    BY <1>5 DEF TakeMessage, BatchTimeout, SeeCancelled, SeeClosed
  <2> QED
    BY <1>1, <1>2, <2>1 DEF Wired, PipeKept
<1> QED
  BY <1>3, <1>4, <1>5 DEF ProcessorStep

LEMMA PipeStep ==
  ASSUME TypeOK, BatchesFit, LinksAreOwned, [Next]_vars, NEW g \in Services
  PROVE  Accepted(g) \/ Loss(Piped(g), Piped(g)')
<1> USE DEF managerVars, callerVars, senderVars, goroutines, backupVars, linkVars
<1>0. /\ peer \in [Services -> Conns \cup {0}] /\ wire \in [Conns -> Seq(Messages)] /\ 0 \notin Conns
      /\ link \in [Conns -> {"free", "open", "shut", "broken"}]
      /\ batch \in [Services -> Seq(Messages)] /\ chan \in [Services -> Seq(Messages)]
      /\ <<>> \in Seq(Messages)
  BY EmptySeq, SyncAssumption DEF TypeOK
<1> DEFINE w == Wired(g)
           b == batch[g]
           c == chan[g]
           Moved == Moves(w, b, c, Wired(g)', batch'[g], chan'[g])
<1>1. w \in Seq(Messages) /\ b \in Seq(Messages) /\ c \in Seq(Messages)
  BY <1>0 DEF Wired
<1>2. Piped(g) = (w \o b) \o c /\ Piped(g)' = (Wired(g)' \o batch'[g]) \o chan'[g]
  BY DEF Piped, Wired
<1>3. ASSUME Moved
      PROVE  Loss(Piped(g), Piped(g)')
  <2>1. Loss((w \o b) \o c, (Wired(g)' \o batch'[g]) \o chan'[g])
    BY <1>1, <1>3, MovesLoseAStretch
  <2> QED
    BY <1>2, <2>1
<1> HIDE DEF w
<1> SUFFICES Accepted(g) \/ Moved
  BY <1>3
<1>4. ASSUME Wired(g)' = w \/ Wired(g)' = <<>>, batch'[g] = b, chan'[g] = c
      PROVE  Moved
  BY <1>4 DEF Moves
<1>5. ASSUME UNCHANGED <<peer, wire, batch, chan>>
      PROVE  Moved
  BY <1>4, <1>5 DEF w, Wired
<1>6. ASSUME NEW h \in Services, Settles(h), batch'[g] = b, chan'[g] = c
      PROVE  Moved
  <2>1. Wired(g)' = w \/ Wired(g)' = <<>>
    BY <1>0, <1>6 DEF Settles, Closed, Wired, w
  <2> QED
    BY <1>4, <1>6, <2>1
<1>7. ASSUME NEW d \in Callers, CallStep(d)
      PROVE  Accepted(g) \/ Moved
  <2>1. Accepted(g) \/ PipeKept(g)
    BY <1>7, CallsAddOne
  <2> QED
    BY <1>4, <2>1 DEF PipeKept, w
<1>8. ASSUME NEW h \in Services, ProcessorStep(h), h # g
      PROVE  Moved
  <2>1. PipeKept(g)
    BY <1>8, OthersKeepThePipe
  <2> QED
    BY <1>4, <2>1 DEF PipeKept, w
<1>9. ASSUME ProcessorStep(g)
      PROVE  Moved
  <2>1. CASE TakeMessage(g)
    <3>1. c # <<>> /\ chan'[g] = Tail(c) /\ UNCHANGED <<peer, wire>>
      BY <1>0, <2>1 DEF TakeMessage
    <3>2. batch'[g] = Append(b, Head(c)) \/ batch'[g] = <<>>
      <4> DEFINE a == Gathered(b, Head(c))
      <4>1. \/ SendBatch(g, a, "select")
            \/ batch' = [batch EXCEPT ![g] = a]
        BY <2>1 DEF TakeMessage
      <4> HIDE DEF a
      <4>2. batch'[g] = a \/ batch'[g] = <<>>
        BY <1>0, <4>1 DEF SendBatch
      <4> QED
        BY <4>2 DEF a, Gathered
    <3>3. Wired(g)' = w
      BY <3>1 DEF Wired, w
    <3> QED
      BY <3>1, <3>2, <3>3 DEF Moves
  <2>2. CASE BatchTimeout(g) \/ SeeCancelled(g) \/ SeeClosed(g)
    <3>1. UNCHANGED <<peer, wire, chan>>
      BY <2>2 DEF BatchTimeout, SeeCancelled, SeeClosed
    <3>2. batch'[g] = b \/ batch'[g] = <<>>
      BY <1>0, <2>2 DEF BatchTimeout, SeeCancelled, SeeClosed, SendBatch
    <3>3. Wired(g)' = w /\ chan'[g] = c
      BY <3>1 DEF Wired, w
    <3> QED
      BY <3>2, <3>3 DEF Moves
  <2>3. CASE SendMessage(g)
    <3>1. b # <<>> /\ batch'[g] = Tail(b) /\ UNCHANGED <<peer, chan>> /\ peer[g] \in Conns
      BY <1>0, <2>3 DEF SendMessage, Remaining, BatchesFit
    <3>2. Wired(g)' = Append(w, Head(b)) \/ Wired(g)' = w
      BY <1>0, <2>3, <3>1 DEF SendMessage, Wired, w
    <3> QED
      BY <3>1, <3>2 DEF Moves
  <2>4. CASE SendFails(g)
    <3>1. batch'[g] = <<>> /\ UNCHANGED <<wire, chan>>
      BY <1>0, <2>4 DEF SendFails, Remaining
    <3>2. Wired(g)' = w \/ Wired(g)' = <<>>
      BY <1>0, <2>4, <3>1 DEF SendFails, Closed, Wired, w
    <3> QED
      BY <3>1, <3>2 DEF Moves
  <2> QED
    BY <1>9, <2>1, <2>2, <2>3, <2>4 DEF ProcessorStep
<1>10. ASSUME NEW h \in Services, TryConnect(h)
       PROVE  Moved
  <2>1. PICK k \in Conns : link[k] = "free" /\ peer' = [peer EXCEPT ![h] = k]
    BY <1>10 DEF TryConnect, FreeConns
  <2>2. UNCHANGED <<wire, batch, chan>> /\ peer[h] = 0 /\ wire[k] = <<>>
    BY <1>10, <2>1 DEF TryConnect, LinksAreOwned
  <2>3. Wired(g)' = w
    BY <1>0, <2>1, <2>2 DEF Wired, w
  <2> QED
    BY <1>4, <2>2, <2>3
<1>11. ASSUME NEW k \in Conns, HandlerStep(k) \/ ShortRead(k) \/ Break(k)
       PROVE  Moved
  <2>1. UNCHANGED <<peer, batch, chan>>
    BY <1>11
    DEF HandlerStep, AcceptConnection, RegisterConnection, CheckContext, HandleMessage, ReadFails,
        ShortRead, Break, Return
  <2>2. \A l \in Conns \ {k} : wire'[l] = wire[l]
    BY <1>0, <1>11
    DEF HandlerStep, AcceptConnection, RegisterConnection, CheckContext, HandleMessage, ReadFails,
        ShortRead, Break, Return
  <2>3. CASE peer[g] # k
    <3>1. Wired(g)' = w
      BY <1>0, <2>1, <2>2, <2>3 DEF Wired, w
    <3> QED
      BY <1>4, <2>1, <3>1
  <2>4. CASE peer[g] = k
    <3>1. w = wire[k] /\ Wired(g)' = wire'[k]
      BY <1>0, <2>1, <2>4 DEF Wired, w
    <3>2. \/ wire'[k] = wire[k] \/ wire'[k] = <<>>
          \/ wire[k] # <<>> /\ wire'[k] = Tail(wire[k])
          \/ \E n \in 0..Len(wire[k]) : wire'[k] = SubSeq(wire[k], 1, n)
      BY <1>0, <1>11
      DEF HandlerStep, AcceptConnection, RegisterConnection, CheckContext, HandleMessage, ReadFails,
          ShortRead, Break, Return
    <3> QED
      BY <1>4, <2>1, <3>1, <3>2 DEF Moves
  <2> QED
    BY <2>3, <2>4
<1>12. CASE CloseReceiver
  <2>1. /\ UNCHANGED <<peer, batch, chan>>
        /\ \A k \in Conns : wire'[k] = wire[k] \/ wire'[k] = <<>>
    BY <1>12 DEF CloseReceiver
  <2>2. Wired(g)' = w \/ Wired(g)' = <<>>
    BY <1>0, <2>1 DEF Wired, w
  <2> QED
    BY <1>4, <2>1, <2>2
<1>13. CASE CloseConnection
  <2>1. service # 0 /\ service \in 0..created /\ created \in Services /\ UNCHANGED <<batch, chan>>
    BY <1>13 DEF CloseConnection, StopStep, TypeOK, outsideSwitch
  <2>2. service \in Services
    BY <2>1, ServiceNumbers
  <2>3. UNCHANGED <<peer, wire>> \/ Settles(service)
    BY <1>13 DEF CloseConnection, StopStep, Settles, outsideSwitch
  <2> QED
    BY <1>5, <1>6, <2>1, <2>2, <2>3
<1>14. CASE Demote \/ Cancel \/ CloseChannel \/ ForgetService \/ Promote \/ StartHook
  BY <1>5, <1>14
  DEF Demote, Cancel, CloseChannel, ForgetService, StopStep, Promote, outsideSwitch, StartHook
<1>15. CASE (\E s \in Sessions : Change(s)) \/ (\E h \in Hooks : Tick(h))
            \/ (\E o \in Operators : TriggerSync(o)) \/ (\E h \in Services : ManagerEnds(h))
            \/ CancelReceiver \/ StartReceiver \/ UNCHANGED vars
  <2>1. UNCHANGED <<peer, wire, batch, chan>>
    BY <1>15
    DEF Change, Tick, TriggerSync, Begin, ManagerEnds, CancelReceiver, StartReceiver, vars,
        outsideCalls
  <2> QED
    BY <1>5, <2>1
<1> HIDE DEF Moved
<1> QED
  BY <1>7, <1>8, <1>9, <1>10, <1>11, <1>12, <1>13, <1>14, <1>15 DEF Next, SwitchStep

\* What a service accepted stays in order and is never repeated: a step adds one message at the
\* end or loses one stretch, whatever breaks, is demoted or stops.
THEOREM PipesKeepOrder == Spec => PipeKeepsOrder
<1>1. SyncInv /\ [Next]_vars =>
        [\A g \in Services :
           \/ Accepted(g)
           \/ \E j \in 0..Len(Piped(g)) : \E i \in 0..j : Piped(g)' = Without(Piped(g), i, j)]_vars
  BY PipeStep DEF SyncInv, Loss
<1> QED
  BY <1>1, InvariantHolds, PTL DEF Spec, PipeKeepsOrder

-----------------------------------------------------------------------------
(* A sound connection                                                      *)

LEMMA HeadMovesOn ==
  ASSUME NEW w \in Seq(Messages), NEW b \in Seq(Messages), NEW c \in Seq(Messages)
  PROVE  /\ b # <<>> => (Append(w, Head(b)) \o Tail(b)) \o c = (w \o b) \o c
         /\ c # <<>> => (w \o Append(b, Head(c))) \o Tail(c) = (w \o b) \o c
         /\ w # <<>> => (Tail(w) \o b) \o c = Tail((w \o b) \o c)
<1> DEFINE S == Messages
<1>1. \A s, t \in Seq(S) : s \o t \in Seq(S)
  BY Concatenations
<1>2. \A s, t, u \in Seq(S) : (s \o t) \o u = s \o (t \o u)
  BY Concatenations
<1>3. \A m \in S : <<m>> \in Seq(S) /\ \A s \in Seq(S) : Append(s, m) = s \o <<m>>
  BY Concatenations
<1>4. \A s \in Seq(S) :
        s # <<>> => Head(s) \in S /\ Tail(s) \in Seq(S) /\ s = <<Head(s)>> \o Tail(s)
  BY Concatenations
<1> HIDE DEF S
<1>0. w \in Seq(S) /\ b \in Seq(S) /\ c \in Seq(S)
  BY DEF S
<1>5. \A s, t \in Seq(S) : t # <<>> => Append(s, Head(t)) \o Tail(t) = s \o t
  <2> SUFFICES ASSUME NEW s \in Seq(S), NEW t \in Seq(S), t # <<>>
               PROVE  Append(s, Head(t)) \o Tail(t) = s \o t
    OBVIOUS
  <2>1. Head(t) \in S /\ Tail(t) \in Seq(S) /\ t = <<Head(t)>> \o Tail(t)
    BY <1>4
  <2>2. <<Head(t)>> \in Seq(S) /\ Append(s, Head(t)) = s \o <<Head(t)>>
    BY <1>3, <2>1
  <2>3. (s \o <<Head(t)>>) \o Tail(t) = s \o (<<Head(t)>> \o Tail(t))
    BY <1>2, <2>1, <2>2
  <2> QED
    BY <2>1, <2>2, <2>3
<1>6. ASSUME b # <<>>
      PROVE  (Append(w, Head(b)) \o Tail(b)) \o c = (w \o b) \o c
  BY <1>0, <1>5, <1>6
<1>7. ASSUME c # <<>>
      PROVE  (w \o Append(b, Head(c))) \o Tail(c) = (w \o b) \o c
  <2>1. Head(c) \in S /\ Tail(c) \in Seq(S)
    BY <1>0, <1>4, <1>7
  <2>2. Append(b, Head(c)) \in Seq(S)
    BY <1>0, <2>1, AppendProperties
  <2>3. (w \o Append(b, Head(c))) \o Tail(c) = w \o (Append(b, Head(c)) \o Tail(c))
    BY <1>0, <1>2, <2>1, <2>2
  <2>4. Append(b, Head(c)) \o Tail(c) = b \o c
    BY <1>0, <1>5, <1>7
  <2>5. (w \o b) \o c = w \o (b \o c)
    BY <1>0, <1>2
  <2>6. (w \o Append(b, Head(c))) \o Tail(c) = w \o (b \o c)
    BY <2>3, <2>4, Zenon
  <2> QED
    BY <2>5, <2>6, Zenon
<1>8. ASSUME w # <<>>
      PROVE  (Tail(w) \o b) \o c = Tail((w \o b) \o c)
  <2>1. \A p, q \in Seq(S) : w = p \o q => (w \o b) \o c = p \o ((q \o b) \o c)
    <3> SUFFICES ASSUME NEW p \in Seq(S), NEW q \in Seq(S), w = p \o q
                 PROVE  (w \o b) \o c = p \o ((q \o b) \o c)
      OBVIOUS
    <3>1. q \o b \in Seq(S) /\ (p \o q) \o b = p \o (q \o b)
      BY <1>0, <1>1, <1>2
    <3>2. (p \o (q \o b)) \o c = p \o ((q \o b) \o c)
      BY <1>0, <1>2, <3>1
    <3> QED
      BY <3>1, <3>2
  <2>2. Head(w) \in S /\ Tail(w) \in Seq(S) /\ w = <<Head(w)>> \o Tail(w)
    BY <1>0, <1>4, <1>8, Zenon
  <2>3. <<Head(w)>> \in Seq(S)
    BY <1>3, <2>2, Zenon
  <2>4. (w \o b) \o c = <<Head(w)>> \o ((Tail(w) \o b) \o c)
    BY <2>1, <2>2, <2>3
  <2>5. (Tail(w) \o b) \o c \in Seq(S)
    BY <1>0, <1>1, <2>2, Zenon
  <2>6. \A m \in S, r \in Seq(S) : Tail(<<m>> \o r) = r
    BY <1>3
  <2>7. Tail(<<Head(w)>> \o ((Tail(w) \o b) \o c)) = (Tail(w) \o b) \o c
    BY <2>2, <2>5, <2>6, Zenon
  <2> QED
    BY <2>4, <2>7, Zenon
<1> QED
  BY <1>6, <1>7, <1>8

LEMMA SoundStep ==
  ASSUME TypeOK, BatchesFit, LinksAreOwned, [Next]_vars,
         NEW g \in Services, Sound(g), Sound(g)'
  PROVE  \/ Piped(g)' = Piped(g)
         \/ Accepted(g)
         \/ Read(peer[g]) /\ Piped(g)' = Tail(Piped(g))
<1> USE DEF managerVars, callerVars, senderVars, goroutines, backupVars, linkVars
<1>0. /\ peer \in [Services -> Conns \cup {0}] /\ wire \in [Conns -> Seq(Messages)] /\ 0 \notin Conns
      /\ link \in [Conns -> {"free", "open", "shut", "broken"}]
      /\ handler \in [Conns -> {"none", "backlog", "accepted", "top", "read"}]
      /\ batch \in [Services -> Seq(Messages)] /\ chan \in [Services -> Seq(Messages)]
      /\ state \in [Services -> {"unborn", "running", "cancelled", "unlinked", "closed"}]
  BY SyncAssumption DEF TypeOK
<1> DEFINE k == peer[g]
           w == wire[k]
           b == batch[g]
           c == chan[g]
           Goal == \/ Piped(g)' = Piped(g)
                   \/ Accepted(g)
                   \/ Read(peer[g]) /\ Piped(g)' = Tail(Piped(g))
<1>1. /\ k \in Conns /\ k # 0 /\ link[k] = "open" /\ state[g] = "running"
      /\ Wired(g) = w /\ w \in Seq(Messages) /\ b \in Seq(Messages) /\ c \in Seq(Messages)
  BY <1>0 DEF Sound, Wired
<1>2. Piped(g) = (w \o b) \o c /\ Piped(g)' = (Wired(g)' \o batch'[g]) \o chan'[g]
  BY <1>1 DEF Piped, Wired
<1>3. ASSUME peer'[g] = peer[g]
      PROVE  Wired(g)' = wire'[k] /\ link'[k] = "open"
  BY <1>1, <1>3 DEF Wired, Sound
<1>4. ASSUME PipeKept(g)
      PROVE  Goal
  BY <1>1, <1>2, <1>4 DEF PipeKept
<1>5. ASSUME peer'[g] = peer[g], wire'[k] = w, batch'[g] = b, chan'[g] = c
      PROVE  Goal
  BY <1>1, <1>3, <1>4, <1>5 DEF PipeKept
<1> SUFFICES Goal
  OBVIOUS
<1>6. ASSUME UNCHANGED <<peer, wire, batch, chan>>
      PROVE  Goal
  BY <1>5, <1>6
<1>7. ASSUME NEW d \in Callers, CallStep(d)
      PROVE  Goal
  <2>1. Accepted(g) \/ PipeKept(g)
    BY <1>7, CallsAddOne
  <2> QED
    BY <1>4, <2>1
<1>8. ASSUME NEW h \in Services, ProcessorStep(h), h # g
      PROVE  Goal
  <2>1. PipeKept(g)
    BY <1>8, OthersKeepThePipe
  <2> QED
    BY <1>4, <2>1
<1>9. ASSUME ProcessorStep(g)
      PROVE  Goal
  <2>1. CASE TakeMessage(g)
    <3>1. c # <<>> /\ chan'[g] = Tail(c) /\ UNCHANGED <<peer, wire>>
      BY <1>0, <2>1 DEF TakeMessage
    <3>2. batch'[g] = Append(b, Head(c))
      <4> DEFINE a == Gathered(b, Head(c))
      <4>1. Head(c) \in Messages
        BY <1>1, <3>1, HeadTailProperties
      <4>2. a # <<>>
        BY <1>1, <4>1, AppendProperties DEF Gathered
      <4>3. \/ SendBatch(g, a, "select")
            \/ batch' = [batch EXCEPT ![g] = a]
        BY <2>1 DEF TakeMessage
      <4> HIDE DEF a
      <4>4. batch'[g] = a
        BY <1>0, <1>1, <4>2, <4>3 DEF SendBatch
      <4> QED
        BY <4>4 DEF a, Gathered
    <3>3. (w \o Append(b, Head(c))) \o Tail(c) = (w \o b) \o c
      BY <1>1, <3>1, HeadMovesOn
    <3>4. Wired(g)' = w
      BY <1>3, <3>1
    <3> QED
      BY <1>2, <3>1, <3>2, <3>3, <3>4
  <2>2. CASE BatchTimeout(g)
    <3>1. UNCHANGED <<peer, wire, chan>> /\ b # <<>>
      BY <2>2 DEF BatchTimeout
    <3>2. batch'[g] = b
      BY <1>0, <1>1, <2>2, <3>1 DEF BatchTimeout, SendBatch
    <3> QED
      BY <1>5, <3>1, <3>2
  <2>3. CASE SeeCancelled(g) \/ SeeClosed(g)
    BY <1>1, <2>3 DEF SeeCancelled, SeeClosed, Cancelled, ChannelClosed
  <2>4. CASE SendMessage(g)
    <3>1. b # <<>> /\ batch'[g] = Tail(b) /\ UNCHANGED <<peer, chan>>
      BY <1>0, <2>4 DEF SendMessage, Remaining, BatchesFit
    <3>2. wire'[k] = Append(w, Head(b))
      BY <1>0, <1>1, <2>4 DEF SendMessage
    <3>3. (Append(w, Head(b)) \o Tail(b)) \o c = (w \o b) \o c
      BY <1>1, <3>1, HeadMovesOn
    <3>4. Wired(g)' = Append(w, Head(b))
      BY <1>3, <3>1, <3>2
    <3> QED
      BY <1>2, <3>1, <3>3, <3>4
  <2>5. CASE SendFails(g)
    BY <1>1, <2>5 DEF SendFails
  <2> QED
    BY <1>9, <2>1, <2>2, <2>3, <2>4, <2>5 DEF ProcessorStep
<1>10. ASSUME NEW h \in Services, TryConnect(h)
       PROVE  Goal
  <2>1. PICK l \in Conns : peer' = [peer EXCEPT ![h] = l]
    BY <1>10 DEF TryConnect, FreeConns
  <2>2. UNCHANGED <<wire, batch, chan>> /\ peer[h] = 0
    BY <1>10 DEF TryConnect
  <2>3. peer'[g] = peer[g]
    BY <1>0, <1>1, <2>1, <2>2
  <2> QED
    BY <1>5, <2>2, <2>3
<1>11. ASSUME NEW l \in Conns, HandlerStep(l) \/ ShortRead(l) \/ Break(l)
       PROVE  Goal
  <2>1. UNCHANGED <<peer, batch, chan>>
    BY <1>11
    DEF HandlerStep, AcceptConnection, RegisterConnection, CheckContext, HandleMessage, ReadFails,
        ShortRead, Break, Return
  <2>2. link'[k] = "open" /\ Wired(g)' = wire'[k]
    BY <1>3, <2>1
  <2>3. CASE l # k
    <3>1. wire'[k] = w
      BY <1>0, <1>1, <1>11, <2>3
      DEF HandlerStep, AcceptConnection, RegisterConnection, CheckContext, HandleMessage,
          ReadFails, ShortRead, Break, Return
    <3> QED
      BY <1>5, <2>1, <3>1
  <2>4. CASE l = k
    \* A connection its handler returns from, or that breaks, is sound no more.
    <3>1. ~Return(k) /\ ~Break(k)
      BY <1>0, <1>1, <2>2 DEF Return, Break
    <3>2. CASE AcceptConnection(k) \/ RegisterConnection(k) \/ CheckContext(k)
      <4>1. wire' = wire
        BY <3>1, <3>2 DEF AcceptConnection, RegisterConnection, CheckContext
      <4> QED
        BY <1>6, <2>1, <4>1
    <3>3. CASE HandleMessage(k)
      <4>1. w # <<>> /\ wire'[k] = Tail(w) /\ handler[k] = "read" /\ handler'[k] = "top"
        BY <1>0, <1>1, <3>3 DEF HandleMessage
      <4>2. (Tail(w) \o b) \o c = Tail((w \o b) \o c)
        BY <1>1, <4>1, HeadMovesOn
      <4>3. Piped(g)' = Tail(Piped(g))
        BY <1>2, <2>1, <2>2, <4>1, <4>2
      <4> QED
        BY <4>1, <4>3 DEF Read
    <3> QED
      BY <1>11, <2>4, <3>1, <3>2, <3>3 DEF HandlerStep, ReadFails, ShortRead
  <2> QED
    BY <2>3, <2>4
<1>12. CASE CloseReceiver
  <2>1. UNCHANGED <<peer, batch, chan>>
    BY <1>12 DEF CloseReceiver
  <2>2. link'[k] = "open"
    BY <1>3, <2>1
  <2> DEFINE cut == {l \in Conns : handler[l] = "backlog" \/ handler[l] \in {"top", "read"}}
  <2>3. k \notin cut
    BY <1>1, <1>12, <2>2 DEF CloseReceiver
  <2>4. wire'[k] = w
    BY <1>1, <1>12, <2>3 DEF CloseReceiver
  <2> QED
    BY <1>5, <2>1, <2>4
<1>13. CASE CloseConnection
  <2>1. UNCHANGED <<wire, batch, chan>> /\ service # g
    BY <1>1, <1>13 DEF CloseConnection, StopStep, outsideSwitch
  <2>2. peer'[g] = peer[g]
    BY <1>0, <1>13, <2>1 DEF CloseConnection, Closed
  <2> QED
    BY <1>5, <2>1, <2>2
<1>14. CASE Demote \/ Cancel \/ CloseChannel \/ ForgetService \/ Promote \/ StartHook
  BY <1>6, <1>14
  DEF Demote, Cancel, CloseChannel, ForgetService, StopStep, Promote, outsideSwitch, StartHook
<1>15. CASE (\E s \in Sessions : Change(s)) \/ (\E h \in Hooks : Tick(h))
            \/ (\E o \in Operators : TriggerSync(o)) \/ (\E h \in Services : ManagerEnds(h))
            \/ CancelReceiver \/ StartReceiver \/ UNCHANGED vars
  <2>1. UNCHANGED <<peer, wire, batch, chan>>
    BY <1>15
    DEF Change, Tick, TriggerSync, Begin, ManagerEnds, CancelReceiver, StartReceiver, vars,
        outsideCalls
  <2> QED
    BY <1>6, <2>1
<1> HIDE DEF Goal
<1> QED
  BY <1>7, <1>8, <1>9, <1>10, <1>11, <1>12, <1>13, <1>14, <1>15 DEF Next, SwitchStep

\* While a running service stays on a connection that is whole, what it accepted leaves for the
\* handler only, the oldest first: batches, timeouts, full wires and other services drop nothing.
THEOREM NothingIsLost == Spec => NothingLost
<1>1. SyncInv /\ [Next]_vars =>
        [\A g \in Services : Sound(g) /\ Sound(g)' =>
           \/ Piped(g)' = Piped(g)
           \/ Accepted(g)
           \/ Read(peer[g]) /\ Piped(g)' = Tail(Piped(g))]_vars
  BY SoundStep DEF SyncInv
<1> QED
  BY <1>1, InvariantHolds, PTL DEF Spec, NothingLost


-----------------------------------------------------------------------------
(* The age of what the backup is sent, before the first promotion.  A      *)
(* service's pipe holds the states of a session in the order they came     *)
(* about, so what it carries is at least as new as what the backup has     *)
(* recorded and as what connections it has given up still carry.           *)

\* m says nothing of a session that is newer than what n says of it.
Before(m, n) == m.session = n.session /\ m.session \in Sessions => m.version <= n.version
Elements(q) == {q[i] : i \in 1..Len(q)}
InAge(q) == \A i, j \in 1..Len(q) : i < j => Before(q[i], q[j])
\* The session has been, with versions v, through the state that m holds.
Reached(v, m) == m.session \in Sessions => m.version <= v[m.session]

\* What the backup has recorded, or reads from a connection the first service does not use.
Past ==
  {m \in Messages :
     \/ m.session \in Sessions /\ m.version = copy[m.session]
     \/ \E k \in Conns \ {peer[1]} : m \in Elements(wire[k])}
Coming == Elements(Piped(1))

\* A connection that its sender has not closed is the one a service uses.
LinksAreUsed ==
  /\ \A g \in Services : state[g] = "unborn" => peer[g] = 0
  /\ \A k \in Conns : link[k] \in {"open", "broken"} => \E g \in Services : peer[g] = k

OperatorsSyncAll == \A o \in Operators : todo[o] \subseteq {FullSync} /\ offer[o].session = FullSync

OneHookRuns ==
  created = 1 =>
    /\ hooksDue <= 1
    /\ \A h \in Hooks : at[h] # "absent" => hooksDue = 0 /\ \A i \in Hooks \ {h} : at[i] = "absent"

ComesInAge ==
  created = 1 =>
    /\ InAge(Piped(1))
    /\ \A m \in Past, n \in Coming : Before(m, n)
    /\ \A m \in Past \cup Coming : Reached(version, m)
    /\ \A h \in Hooks : at[h] = "offering" =>
         Reached(version, offer[h]) /\ \A m \in Past \cup Coming : Before(m, offer[h])

AgeInv == LinksAreUsed /\ OperatorsSyncAll /\ OneHookRuns /\ ComesInAge

LEMMA LossKeepsAge ==
  ASSUME NEW q \in Seq(Messages), NEW r, Loss(q, r)
  PROVE  Elements(r) \subseteq Elements(q) /\ (InAge(q) => InAge(r))
<1>a. PICK j \in 0..Len(q) : \E i \in 0..j : r = Without(q, i, j)
  BY DEF Loss
<1>1. PICK i \in 0..j : r = Without(q, i, j)
  BY <1>a
<1> DEFINE a == SubSeq(q, 1, i)
           c == SubSeq(q, j + 1, Len(q))
           Place(n) == IF n <= i THEN n ELSE n + (j - i)
<1>2. Len(q) \in Nat /\ i \in Nat /\ j \in Nat /\ i <= j /\ j <= Len(q)
  BY LenProperties
<1>3. /\ a \in Seq(Messages) /\ Len(a) = i
      /\ \A n \in 1..i : a[n] = q[n]
  <2>1. \A n \in 1..i : q[n] \in Messages
    BY <1>2, ElementOfSeq
  <2> QED
    BY <1>2, <2>1, SubSeqProperties
<1>4. /\ c \in Seq(Messages) /\ Len(c) = Len(q) - j
      /\ \A n \in 1..(Len(q) - j) : c[n] = q[j + n]
  <2>1. \A n \in (j + 1)..Len(q) : q[n] \in Messages
    BY <1>2, ElementOfSeq
  <2>2. j + 1 \in Int /\ Len(q) \in Int /\ Len(q) - (j + 1) + 1 = Len(q) - j
    BY <1>2
  <2>3. /\ c \in Seq(Messages)
        /\ Len(c) = IF j + 1 <= Len(q) THEN Len(q) - (j + 1) + 1 ELSE 0
        /\ \A n \in 1..(Len(q) - (j + 1) + 1) : c[n] = q[(j + 1) + n - 1]
    BY <2>1, <2>2, SubSeqProperties
  <2>4. (IF j + 1 <= Len(q) THEN Len(q) - (j + 1) + 1 ELSE 0) = Len(q) - j
    BY <1>2
  <2>5. \A n \in 1..(Len(q) - j) : (j + 1) + n - 1 = j + n
    BY <1>2
  <2> QED
    BY <2>2, <2>3, <2>4, <2>5
<1>b. r = a \o c
  BY <1>1 DEF Without
<1> HIDE DEF a, c
<1>5. /\ Len(r) = i + (Len(q) - j)
      /\ \A n \in 1..Len(r) : r[n] = IF n <= i THEN a[n] ELSE c[n - i]
  <2>1. /\ Len(r) = Len(a) + Len(c)
        /\ \A n \in 1..(Len(a) + Len(c)) : r[n] = IF n <= Len(a) THEN a[n] ELSE c[n - Len(a)]
    BY <1>3, <1>4, <1>b, ConcatProperties
  <2> QED
    BY <1>3, <1>4, <2>1
<1>6. \A n \in 1..Len(r) : Place(n) \in 1..Len(q) /\ r[n] = q[Place(n)]
  <2> SUFFICES ASSUME NEW n \in 1..Len(r)
               PROVE  Place(n) \in 1..Len(q) /\ r[n] = q[Place(n)]
    OBVIOUS
  <2>1. CASE n <= i
    BY <1>2, <1>3, <1>5, <2>1
  <2>2. CASE ~(n <= i)
    <3>1. n - i \in 1..(Len(q) - j) /\ j + (n - i) = n + (j - i) /\ Place(n) \in 1..Len(q)
      BY <1>2, <1>5, <2>2
    <3>2. r[n] = c[n - i] /\ c[n - i] = q[j + (n - i)]
      BY <1>4, <1>5, <2>2, <3>1
    <3> QED
      BY <2>2, <3>1, <3>2
  <2> QED
    BY <2>1, <2>2
<1>7. \A m, n \in 1..Len(r) : m < n => Place(m) < Place(n)
  BY <1>2, <1>5
<1> HIDE DEF Place
<1>8. Elements(r) \subseteq Elements(q)
  BY <1>6 DEF Elements
<1>9. InAge(q) => InAge(r)
  BY <1>6, <1>7 DEF InAge
<1> QED
  BY <1>8, <1>9

LEMMA LastInAge ==
  ASSUME NEW q \in Seq(Messages), NEW n \in Messages
  PROVE  /\ Elements(Append(q, n)) = Elements(q) \cup {n}
         /\ InAge(q) /\ (\A m \in Elements(q) : Before(m, n)) => InAge(Append(q, n))
<1>1. /\ Len(q) \in Nat /\ Len(Append(q, n)) = Len(q) + 1
      /\ \A i \in 1..Len(q) : Append(q, n)[i] = q[i]
      /\ Append(q, n)[Len(q) + 1] = n
  BY LenProperties, AppendProperties
<1> DEFINE r == Append(q, n)
<1>2. 1..Len(r) = 1..Len(q) \cup {Len(q) + 1}
  BY <1>1
<1>3. Elements(r) = Elements(q) \cup {n}
  <2> HIDE DEF r
  <2> QED
    BY <1>1, <1>2 DEF Elements, r
<1>4. ASSUME InAge(q), \A m \in Elements(q) : Before(m, n)
      PROVE  InAge(r)
  <2> SUFFICES ASSUME NEW i \in 1..Len(r), NEW j \in 1..Len(r), i < j
               PROVE  Before(r[i], r[j])
    BY DEF InAge
  <2>1. i \in 1..Len(q) /\ r[i] = q[i] /\ q[i] \in Elements(q)
    BY <1>1, <1>2 DEF Elements
  <2>2. CASE j \in 1..Len(q)
    BY <1>1, <1>4, <2>1, <2>2 DEF InAge
  <2>3. CASE j = Len(q) + 1
    BY <1>1, <1>4, <2>1, <2>3
  <2> QED
    BY <1>2, <2>2, <2>3
<1> QED
  BY <1>3, <1>4

LEMMA FrontInAge ==
  ASSUME NEW a \in Seq(Messages), NEW b \in Seq(Messages), InAge(a \o b)
  PROVE  \A m \in Elements(a), n \in Elements(b) : Before(m, n)
<1>1. /\ Len(a) \in Nat /\ Len(b) \in Nat /\ Len(a \o b) = Len(a) + Len(b)
      /\ \A i \in 1..Len(a) : (a \o b)[i] = a[i]
      /\ \A j \in 1..Len(b) : (a \o b)[Len(a) + j] = b[j]
  <2>1. Len(a) \in Nat /\ Len(b) \in Nat /\ Len(a \o b) = Len(a) + Len(b)
    BY LenProperties, ConcatProperties
  <2>2. \A i \in 1..Len(a) : i \in 1..(Len(a) + Len(b)) /\ i <= Len(a)
    BY <2>1
  <2>3. \A j \in 1..Len(b) : /\ Len(a) + j \in 1..(Len(a) + Len(b)) /\ ~(Len(a) + j <= Len(a))
                             /\ (Len(a) + j) - Len(a) = j
    BY <2>1
  <2> QED
    BY <2>1, <2>2, <2>3, ConcatProperties
<1>2. ASSUME NEW i \in 1..Len(a), NEW j \in 1..Len(b)
      PROVE  Before(a[i], b[j])
  <2>1. i \in 1..Len(a \o b) /\ Len(a) + j \in 1..Len(a \o b) /\ i < Len(a) + j
    BY <1>1
  <2>2. Before((a \o b)[i], (a \o b)[Len(a) + j])
    BY <2>1 DEF InAge
  <2> QED
    BY <1>1, <2>2
<1> QED
  BY <1>2 DEF Elements

LEMMA PartsOfElements ==
  ASSUME NEW q \in Seq(Messages)
  PROVE  /\ Elements(<<>>) = {} /\ Elements(q) \subseteq Messages
         /\ q # <<>> => Head(q) \in Elements(q) /\ Elements(Tail(q)) \subseteq Elements(q)
         /\ \A n \in 0..Len(q) : Elements(SubSeq(q, 1, n)) \subseteq Elements(q)
<1>1. Elements(<<>>) = {} /\ Elements(q) \subseteq Messages
  BY ElementOfSeq DEF Elements
<1>2. ASSUME q # <<>>
      PROVE  Head(q) \in Elements(q) /\ Elements(Tail(q)) \subseteq Elements(q)
  <2>1. Len(q) \in Nat /\ Len(q) >= 1 /\ Head(q) = q[1]
    BY <1>2, LenProperties, EmptySeq
  <2>2. Len(Tail(q)) = Len(q) - 1 /\ \A i \in 1..Len(Tail(q)) : Tail(q)[i] = q[i + 1]
    BY <1>2, <2>1
  <2>3. \A i \in 1..Len(Tail(q)) : i + 1 \in 1..Len(q)
    BY <2>1, <2>2
  <2>4. 1 \in 1..Len(q)
    BY <2>1
  <2> QED
    BY <2>1, <2>2, <2>3, <2>4 DEF Elements
<1>3. ASSUME NEW n \in 0..Len(q)
      PROVE  Elements(SubSeq(q, 1, n)) \subseteq Elements(q)
  <2>1. n \in Nat /\ 1..n \subseteq 1..Len(q) /\ n <= Len(q)
    BY LenProperties
  <2>2. \A i \in 1..n : q[i] \in Messages
    BY <2>1, ElementOfSeq
  <2>3. Len(SubSeq(q, 1, n)) = n /\ \A i \in 1..n : SubSeq(q, 1, n)[i] = q[i]
    BY <2>1, <2>2, SubSeqProperties
  <2> QED
    BY <2>1, <2>3 DEF Elements
<1> QED
  BY <1>1, <1>2, <1>3

LEMMA ElementsOfBoth ==
  ASSUME NEW a \in Seq(Messages), NEW b \in Seq(Messages)
  PROVE  Elements(a \o b) = Elements(a) \cup Elements(b)
<1>1. /\ Len(a) \in Nat /\ Len(b) \in Nat /\ Len(a \o b) = Len(a) + Len(b)
      /\ \A i \in 1..(Len(a) + Len(b)) : (a \o b)[i] = IF i <= Len(a) THEN a[i] ELSE b[i - Len(a)]
  BY LenProperties, ConcatProperties
<1>2. \A i \in 1..Len(a) : i \in 1..Len(a \o b) /\ (a \o b)[i] = a[i]
  BY <1>1
<1>3. \A j \in 1..Len(b) : Len(a) + j \in 1..Len(a \o b) /\ (a \o b)[Len(a) + j] = b[j]
  <2> SUFFICES ASSUME NEW j \in 1..Len(b)
               PROVE  Len(a) + j \in 1..Len(a \o b) /\ (a \o b)[Len(a) + j] = b[j]
    OBVIOUS
  <2>1. /\ Len(a) + j \in 1..(Len(a) + Len(b)) /\ ~(Len(a) + j <= Len(a))
        /\ (Len(a) + j) - Len(a) = j
    BY <1>1
  <2> QED
    BY <1>1, <2>1
<1>4. \A i \in 1..Len(a \o b) :
        \/ i \in 1..Len(a) /\ (a \o b)[i] = a[i]
        \/ i - Len(a) \in 1..Len(b) /\ (a \o b)[i] = b[i - Len(a)]
  BY <1>1
<1> QED
  BY <1>2, <1>3, <1>4 DEF Elements

LEMMA UseStep ==
  ASSUME TypeOK, BatchesFit, LinksAreOwned, LinksAreUsed, [Next]_vars
  PROVE  LinksAreUsed'
<1> USE DEF managerVars, callerVars, senderVars, goroutines, backupVars, linkVars
<1>0. /\ peer \in [Services -> Conns \cup {0}] /\ 0 \notin Conns
      /\ link \in [Conns -> {"free", "open", "shut", "broken"}]
      /\ state \in [Services -> {"unborn", "running", "cancelled", "unlinked", "closed"}]
      /\ handler \in [Conns -> {"none", "backlog", "accepted", "top", "read"}]
  BY SyncAssumption DEF TypeOK
<1>1. \A g \in Services : state'[g] = "unborn" => state[g] = "unborn"
  <2>1. CASE state' = state
    BY <2>1
  <2>2. CASE SwitchStep \/ Promote
    BY <1>0, <2>2
    DEF SwitchStep, Cancel, CloseConnection, CloseChannel, ForgetService, StopStep, Promote
  <2> QED
    BY <2>1, <2>2
    DEF Next, Change, StartHook, Tick, TriggerSync, Begin, CallStep, SyncSession, Accept, Decline,
        SendOnClosed, ProcessorStep, TakeMessage, BatchTimeout, SeeCancelled, SeeClosed,
        SendMessage, SendFails, TryConnect, ManagerEnds, Demote, HandlerStep, AcceptConnection,
        RegisterConnection, CheckContext, HandleMessage, ReadFails, ShortRead, Break, Return,
        CancelReceiver, CloseReceiver, StartReceiver, outsideCalls, outsideProcessor,
        outsideSwitch, vars
<1>2. ASSUME peer' = peer,
             \A k \in Conns : link'[k] \in {"open", "broken"} => link[k] \in {"open", "broken"}
      PROVE  LinksAreUsed'
  BY <1>1, <1>2 DEF LinksAreUsed
<1>3. ASSUME NEW g \in Services, Settles(g)
      PROVE  LinksAreUsed'
  <2>1. /\ peer[g] \in Conns /\ \A h \in Services : peer'[h] = IF h = g THEN 0 ELSE peer[h]
        /\ \A k \in Conns : link'[k] = IF k = peer[g]
                                         THEN IF handler[k] = "none" THEN "free" ELSE "shut"
                                         ELSE link[k]
    BY <1>0, <1>3 DEF Settles, Closed, Hangup
  <2>2. \A k \in Conns : link'[k] \in {"open", "broken"} => \E h \in Services : peer'[h] = k
    BY <2>1 DEF LinksAreUsed
  <2> QED
    BY <1>1, <2>1, <2>2 DEF LinksAreUsed
<1>4. ASSUME NEW g \in Services, Writes(g)
      PROVE  LinksAreUsed'
  BY <1>2, <1>4 DEF Writes
<1>5. ASSUME NEW g \in Services, TryConnect(g)
      PROVE  LinksAreUsed'
  <2>1. PICK k \in Conns : /\ peer' = [peer EXCEPT ![g] = k]
                           /\ link' = [link EXCEPT ![k] = "open"]
    BY <1>5 DEF TryConnect, FreeConns
  <2>2. state[g] # "unborn" /\ peer[g] = 0
    BY <1>5 DEF TryConnect
  <2>3. /\ \A h \in Services : peer'[h] = IF h = g THEN k ELSE peer[h]
        /\ \A l \in Conns : link'[l] = IF l = k THEN "open" ELSE link[l]
    BY <1>0, <2>1
  <2>4. \A l \in Conns : link'[l] \in {"open", "broken"} => \E h \in Services : peer'[h] = l
    BY <1>0, <2>2, <2>3 DEF LinksAreUsed
  <2> QED
    BY <1>1, <2>2, <2>3, <2>4 DEF LinksAreUsed
<1>6. ASSUME NEW k \in Conns, HandlerStep(k) \/ ShortRead(k) \/ Break(k)
      PROVE  LinksAreUsed'
  <2>1. CASE Return(k) /\ handler[k] # "none"
    <3>1. link[k] # "free" /\ peer' = peer
      BY <2>1 DEF Return, LinksAreOwned
    <3> QED
      BY <1>0, <1>2, <2>1, <3>1 DEF Return
  <2>2. CASE peer' = peer /\ link' = link
    BY <1>2, <2>2
  <2>3. CASE Break(k)
    BY <1>0, <1>2, <2>3 DEF Break
  <2> QED
    BY <1>6, <2>1, <2>2, <2>3
    DEF HandlerStep, AcceptConnection, RegisterConnection, CheckContext, HandleMessage, ReadFails,
        ShortRead
<1>7. CASE CancelReceiver \/ CloseReceiver \/ StartReceiver
  BY <1>0, <1>2, <1>7 DEF CancelReceiver, CloseReceiver, StartReceiver
<1>8. ASSUME UNCHANGED <<peer, linkVars, receiver>>
      PROVE  LinksAreUsed'
  BY <1>2, <1>8
<1> QED
  BY <1>3, <1>4, <1>5, <1>6, <1>7, <1>8, SenderOnLinks DEF Next

LEMMA OperatorStep ==
  ASSUME TypeOK, OperatorsSyncAll, [Next]_vars
  PROVE  OperatorsSyncAll'
<1> SUFFICES ASSUME NEW o \in Operators
             PROVE  todo'[o] \subseteq {FullSync} /\ offer'[o].session = FullSync
  BY DEF OperatorsSyncAll
<1> USE DEF managerVars, callerVars, senderVars, goroutines, backupVars, linkVars
<1>0. /\ o \in Callers /\ o \notin Hooks /\ todo[o] \subseteq {FullSync} /\ offer[o].session = FullSync
      /\ todo \in [Callers -> SUBSET (Sessions \cup {FullSync})] /\ offer \in [Callers -> Messages]
      /\ NoOffer.session = FullSync
  BY SyncAssumption DEF OperatorsSyncAll, TypeOK, Callers, NoOffer
<1>1. CASE todo'[o] = todo[o] /\ offer'[o] = offer[o]
  BY <1>0, <1>1
<1>2. ASSUME NEW h \in Hooks, Tick(h)
      PROVE  todo'[o] \subseteq {FullSync} /\ offer'[o].session = FullSync
  BY <1>0, <1>2 DEF Tick, Begin
<1>3. ASSUME NEW p \in Operators, TriggerSync(p)
      PROVE  todo'[o] \subseteq {FullSync} /\ offer'[o].session = FullSync
  BY <1>0, <1>3 DEF TriggerSync, Begin
<1>4. ASSUME NEW c \in Callers, CallStep(c)
      PROVE  todo'[o] \subseteq {FullSync} /\ offer'[o].session = FullSync
  <2>1. CASE SyncSession(c)
    <3>1. PICK s \in todo[c] :
            /\ todo' = [todo EXCEPT ![c] = @ \ {s}]
            /\ offer' = offer \/ offer' = [offer EXCEPT ![c] = [session |-> s, version |-> VersionOf(s)]]
      BY <2>1 DEF SyncSession
    <3>2. CASE c = o
      <4>1. s = FullSync /\ todo'[o] \subseteq {FullSync}
        BY <1>0, <3>1, <3>2
      <4>2. offer'[o] = offer[o] \/ offer'[o] = [session |-> s, version |-> VersionOf(s)]
        BY <1>0, <3>1, <3>2
      <4> QED
        BY <1>0, <4>1, <4>2
    <3>3. CASE c # o
      BY <1>0, <1>1, <3>1, <3>3
    <3> QED
      BY <3>2, <3>3
  <2>2. CASE Accept(c) \/ Decline(c)
    <3>1. todo' = todo /\ offer' = [offer EXCEPT ![c] = NoOffer]
      BY <2>2 DEF Accept, Decline, Returned
    <3> QED
      BY <1>0, <3>1
  <2>3. CASE SendOnClosed(c)
    BY <1>1, <2>3 DEF SendOnClosed
  <2> QED
    BY <1>4, <2>1, <2>2, <2>3 DEF CallStep
<1>5. CASE UNCHANGED <<todo, offer>>
  BY <1>1, <1>5
<1>6. (\E h \in Hooks : Tick(h)) \/ (\E p \in Operators : TriggerSync(p))
      \/ (\E c \in Callers : CallStep(c)) \/ UNCHANGED <<todo, offer>>
  BY DEF Next, Change, StartHook, ProcessorStep, TakeMessage, BatchTimeout, SeeCancelled, SeeClosed,
         SendMessage, SendFails, TryConnect, ManagerEnds, Demote, SwitchStep, Cancel,
         CloseConnection, CloseChannel, ForgetService, StopStep, Promote, HandlerStep,
         AcceptConnection, RegisterConnection, CheckContext, HandleMessage, ReadFails, ShortRead,
         Break, Return, CancelReceiver, CloseReceiver, StartReceiver, outsideProcessor,
         outsideSwitch, vars
<1> QED
  BY <1>2, <1>3, <1>4, <1>5, <1>6

LEMMA HookStep ==
  ASSUME TypeOK, OneHookRuns, [Next]_vars
  PROVE  OneHookRuns' /\ (created' = 1 => created = 1)
<1> USE DEF managerVars, callerVars, senderVars, goroutines, backupVars, linkVars
<1>0. /\ created \in Nat \ {0} /\ hooksDue \in Nat /\ Hooks \subseteq Callers
      /\ at \in [Callers -> {"absent", "idle", "round", "offering"}]
  <2>1. created \in Services /\ hooksDue \in 0..created
    BY DEF TypeOK
  <2> QED
    BY <2>1, ServiceNumbers DEF TypeOK, Callers
<1>1. CASE Promote
  <2>1. created' = created + 1
    BY <1>1 DEF Promote
  <2> QED
    BY <1>0, <2>1 DEF OneHookRuns
<1>2. CASE StartHook
  <2>1. created' = created /\ hooksDue > 0 /\ hooksDue' = hooksDue - 1
    BY <1>2 DEF StartHook
  <2>2. at' = at \/ \E h \in Hooks : at[h] = "absent" /\ at' = [at EXCEPT ![h] = "idle"]
    BY <1>2 DEF StartHook
  <2>3. created = 1 => hooksDue' = 0 /\ \A h \in Hooks : at[h] = "absent"
    BY <1>0, <2>1 DEF OneHookRuns
  <2>4. \A h, i \in Hooks : created = 1 /\ at'[h] # "absent" /\ at'[i] # "absent" => h = i
    BY <1>0, <2>2, <2>3
  <2> QED
    BY <2>1, <2>3, <2>4 DEF OneHookRuns
<1>3. CASE UNCHANGED <<created, hooksDue>> /\ \A h \in Hooks : at'[h] = "absent" <=> at[h] = "absent"
  BY <1>3 DEF OneHookRuns
<1>4. CASE (\E h \in Hooks : Tick(h)) \/ (\E o \in Operators : TriggerSync(o))
           \/ (\E c \in Callers : CallStep(c))
  <2>1. UNCHANGED <<created, hooksDue>>
    BY <1>4
    DEF Tick, TriggerSync, Begin, CallStep, SyncSession, Accept, Decline, SendOnClosed, outsideCalls
  <2>2. \A h \in Hooks : at'[h] = "absent" <=> at[h] = "absent"
    BY <1>0, <1>4
    DEF Tick, TriggerSync, Begin, CallStep, SyncSession, Accept, Decline, SendOnClosed, Returned
  <2> QED
    BY <1>3, <2>1, <2>2
<1>5. CASE UNCHANGED <<created, hooksDue, at>>
  BY <1>3, <1>5
<1>6. Promote \/ StartHook \/ (\E h \in Hooks : Tick(h)) \/ (\E o \in Operators : TriggerSync(o))
      \/ (\E c \in Callers : CallStep(c)) \/ UNCHANGED <<created, hooksDue, at>>
  BY DEF Next, Change, ProcessorStep, TakeMessage, BatchTimeout, SeeCancelled, SeeClosed,
         SendMessage, SendFails, TryConnect, ManagerEnds, Demote, SwitchStep, Cancel,
         CloseConnection, CloseChannel, ForgetService, StopStep, HandlerStep, AcceptConnection,
         RegisterConnection, CheckContext, HandleMessage, ReadFails, ShortRead, Break, Return,
         CancelReceiver, CloseReceiver, StartReceiver, outsideProcessor, outsideSwitch, vars
<1>7. created' = 1 => created = 1
  <2>1. created' = created \/ created' = created + 1
    BY <1>6, <1>4
    DEF Promote, StartHook, Tick, TriggerSync, Begin, CallStep, SyncSession, Accept, Decline,
        SendOnClosed, outsideCalls
  <2> QED
    BY <1>0, <2>1
<1> QED
  BY <1>1, <1>2, <1>4, <1>5, <1>6, <1>7

LEMMA OnlyHandlersRecord ==
  ASSUME [Next]_vars
  PROVE  copy' = copy \/ \E k \in Conns : HandleMessage(k)
BY DEF managerVars, callerVars, senderVars, goroutines, backupVars, linkVars, Next, Change,
       StartHook, Tick, TriggerSync, Begin, CallStep, SyncSession, Accept, Decline, SendOnClosed,
       ProcessorStep, TakeMessage, BatchTimeout, SeeCancelled, SeeClosed, SendMessage, SendFails,
       TryConnect, ManagerEnds, Demote, SwitchStep, Cancel, CloseConnection, CloseChannel,
       ForgetService, StopStep, Promote, HandlerStep, AcceptConnection, RegisterConnection,
       CheckContext, ReadFails, ShortRead, Break, Return, CancelReceiver, CloseReceiver,
       StartReceiver, outsideCalls, outsideProcessor, outsideSwitch, vars

LEMMA VersionsGrow ==
  ASSUME TypeOK, [Next]_vars, NEW m \in Messages, Reached(version, m)
  PROVE  Reached(version', m)
<1> USE DEF managerVars, callerVars, senderVars, goroutines, backupVars, linkVars
<1>1. version' = version \/ \E s \in Sessions : Change(s)
  BY DEF Next, StartHook, Tick, TriggerSync, Begin, CallStep, SyncSession, Accept, Decline,
         SendOnClosed, ProcessorStep, TakeMessage, BatchTimeout, SeeCancelled, SeeClosed,
         SendMessage, SendFails, TryConnect, ManagerEnds, Demote, SwitchStep, Cancel,
         CloseConnection, CloseChannel, ForgetService, StopStep, Promote, HandlerStep,
         AcceptConnection, RegisterConnection, CheckContext, HandleMessage, ReadFails, ShortRead,
         Break, Return, CancelReceiver, CloseReceiver, StartReceiver, outsideCalls,
         outsideProcessor, outsideSwitch, vars
<1>2. m.version \in Nat /\ version \in [Sessions -> Nat]
  <2>1. m.version \in 0..MaxVersion /\ version \in [Sessions -> 0..MaxVersion]
    BY MessageParts DEF TypeOK
  <2> QED
    BY <2>1, SyncAssumption
<1>3. ASSUME NEW s \in Sessions, Change(s)
      PROVE  Reached(version', m)
  <2>1. version' = [version EXCEPT ![s] = version[s] + 1]
    BY <1>3 DEF Change
  <2> QED
    BY <1>2, <2>1 DEF Reached
<1> QED
  BY <1>1, <1>3 DEF Reached

LEMMA NewcomerIsOffered ==
  ASSUME TypeOK, [Next]_vars, NEW g \in Services, Accepted(g)
  PROVE  \E d \in Callers : /\ Accept(d) /\ held[d] = g
                            /\ Piped(g)' = Append(Piped(g), offer[d])
<1> USE DEF managerVars, callerVars, senderVars, goroutines, backupVars, linkVars
<1>0. chan \in [Services -> Seq(Messages)] /\ chan[g] \in Seq(Messages) /\ Len(chan[g]) \in Nat
      /\ offer \in [Callers -> Messages]
  BY LenProperties DEF TypeOK
<1>1. chan'[g] # chan[g]
  BY <1>0 DEF Accepted
<1>2. (\E c \in Callers : Accept(c)) \/ (\E h \in Services : TakeMessage(h)) \/ chan' = chan
  BY DEF Next, Change, StartHook, Tick, TriggerSync, Begin, CallStep, SyncSession, Decline,
         SendOnClosed, ProcessorStep, BatchTimeout, SeeCancelled, SeeClosed, SendMessage, SendFails,
         TryConnect, ManagerEnds, Demote, SwitchStep, Cancel, CloseConnection, CloseChannel,
         ForgetService, StopStep, Promote, HandlerStep, AcceptConnection, RegisterConnection,
         CheckContext, HandleMessage, ReadFails, ShortRead, Break, Return, CancelReceiver,
         CloseReceiver, StartReceiver, outsideCalls, outsideProcessor, outsideSwitch, vars
<1>3. ASSUME NEW h \in Services, TakeMessage(h)
      PROVE  FALSE
  <2>1. h = g /\ chan[g] # <<>> /\ chan'[g] = Tail(chan[g])
    BY <1>0, <1>1, <1>3 DEF TakeMessage
  <2>2. Len(Tail(chan[g])) = Len(chan[g]) - 1
    BY <1>0, <2>1, HeadTailProperties
  <2> QED
    BY <1>0, <2>1, <2>2 DEF Accepted
<1>4. PICK d \in Callers : Accept(d)
  BY <1>1, <1>2, <1>3
<1>5. held[d] = g /\ chan'[g] = Append(chan[g], offer[d]) /\ offer[d] \in Messages
  BY <1>0, <1>1, <1>4 DEF Accept
<1>6. Len(chan'[g]) = Len(chan[g]) + 1 /\ chan'[g][Len(chan[g]) + 1] = offer[d]
  BY <1>0, <1>5, AppendProperties
<1> QED
  BY <1>4, <1>5, <1>6 DEF Accepted

LEMMA HooksOffer ==
  ASSUME TypeOK, [Next]_vars, NEW h \in Hooks, at'[h] = "offering"
  PROVE  \/ at[h] = "offering" /\ offer'[h] = offer[h] /\ ~Accept(h)
         \/ SyncSession(h) /\ at[h] # "offering"
<1> USE DEF managerVars, callerVars, senderVars, goroutines, backupVars, linkVars
<1>0. h \in Callers /\ at \in [Callers -> {"absent", "idle", "round", "offering"}]
      /\ offer \in [Callers -> Messages]
  BY DEF TypeOK, Callers
<1>1. ASSUME Accept(h)
      PROVE  FALSE
  BY <1>0, <1>1 DEF Accept, Returned
<1>2. CASE UNCHANGED <<at, offer>>
  BY <1>1, <1>2
<1>3. CASE StartHook
  BY <1>0, <1>1, <1>3 DEF StartHook
<1>4. ASSUME NEW c \in Callers, \E work : Begin(c, work)
      PROVE  at[h] = "offering" /\ offer'[h] = offer[h]
  BY <1>0, <1>4 DEF Begin
<1>5. ASSUME NEW c \in Callers, CallStep(c), c # h
      PROVE  at[h] = "offering" /\ offer'[h] = offer[h]
  BY <1>0, <1>5 DEF CallStep, SyncSession, Accept, Decline, SendOnClosed, Returned
<1>6. ASSUME CallStep(h)
      PROVE  \/ at[h] = "offering" /\ offer'[h] = offer[h]
             \/ SyncSession(h) /\ at[h] # "offering"
  BY <1>0, <1>6 DEF CallStep, SyncSession, Accept, Decline, SendOnClosed, Returned
<1>7. UNCHANGED <<at, offer>> \/ StartHook \/ (\E c \in Callers : CallStep(c))
      \/ (\E c \in Callers : \E work : Begin(c, work))
  BY DEF Next, Change, Tick, TriggerSync, ProcessorStep, TakeMessage, BatchTimeout, SeeCancelled,
         SeeClosed, SendMessage, SendFails, TryConnect, ManagerEnds, Demote, SwitchStep, Cancel,
         CloseConnection, CloseChannel, ForgetService, StopStep, Promote, HandlerStep,
         AcceptConnection, RegisterConnection, CheckContext, HandleMessage, ReadFails, ShortRead,
         Break, Return, CancelReceiver, CloseReceiver, StartReceiver, outsideProcessor,
         outsideSwitch, vars, Callers
<1> QED
  BY <1>1, <1>2, <1>3, <1>4, <1>5, <1>6, <1>7

\* What joins the past in a step was at the front of the pipe.
LEMMA PastStep ==
  ASSUME TypeOK, InTurn, BatchesFit, LinksAreUsed, created = 1, InAge(Piped(1)), [Next]_vars,
         NEW m \in Messages, m \in Past', m \notin Past
  PROVE  m \in Coming /\ \A n \in Coming' : Before(m, n)
<1> USE DEF managerVars, callerVars, senderVars, goroutines, backupVars, linkVars
<1>0. /\ peer \in [Services -> Conns \cup {0}] /\ wire \in [Conns -> Seq(Messages)] /\ 0 \notin Conns
      /\ batch \in [Services -> Seq(Messages)] /\ chan \in [Services -> Seq(Messages)]
      /\ <<>> \in Seq(Messages) /\ 1 \in Services /\ copy \in [Sessions -> 0..MaxVersion]
  BY EmptySeq, SyncAssumption, ServiceNumbers DEF TypeOK
<1> DEFINE w == Wired(1)
           b == batch[1]
           c == chan[1]
           Goal == m \in Coming /\ \A n \in Coming' : Before(m, n)
<1>1. /\ w \in Seq(Messages) /\ b \in Seq(Messages) /\ c \in Seq(Messages)
      /\ Piped(1) = (w \o b) \o c /\ Piped(1)' = (Wired(1)' \o batch'[1]) \o chan'[1]
  BY <1>0 DEF Piped, Wired
<1>a. \A q, r \in Seq(Messages) : q \o r \in Seq(Messages)
  BY Concatenations
<1>b. \A q, r, s \in Seq(Messages) : (q \o r) \o s = q \o (r \o s)
  BY Concatenations
<1>c. \A q, r \in Seq(Messages) : Elements(q \o r) = Elements(q) \cup Elements(r)
  BY ElementsOfBoth
<1>d. peer[1] # 0 => w = wire[peer[1]]
  BY DEF Wired
<1> HIDE DEF w
<1>2. \A g \in Services : peer[g] # 0 => g = 1
  <2> SUFFICES ASSUME NEW g \in Services, peer[g] # 0
               PROVE  g = 1
    OBVIOUS
  <2>1. ~(g > created)
    BY DEF LinksAreUsed, InTurn
  <2>2. g \in Nat \ {0}
    BY ServiceNumbers
  <2> QED
    BY <2>1, <2>2
<1>3. \/ m.session \in Sessions /\ m.version = copy'[m.session]
      \/ \E k \in Conns : k # peer'[1] /\ m \in Elements(wire'[k])
  BY DEF Past
<1>4. /\ ~(m.session \in Sessions /\ m.version = copy[m.session])
      /\ \A k \in Conns : k # peer[1] => m \notin Elements(wire[k])
  BY DEF Past
<1>5. ASSUME copy' = copy,
             \A k \in Conns : k # peer'[1] => k # peer[1] /\ Elements(wire'[k]) \subseteq Elements(wire[k])
      PROVE  Goal
  BY <1>3, <1>4, <1>5
<1>6. ASSUME UNCHANGED <<copy, peer, wire>>
      PROVE  Goal
  BY <1>5, <1>6
<1> SUFFICES Goal
  OBVIOUS
\* The first service gives its connection up.
<1>7. ASSUME UNCHANGED <<copy, wire>>, peer[1] # 0, peer'[1] = 0,
             batch'[1] = b \/ batch'[1] = <<>>, chan'[1] = c
      PROVE  Goal
  <2>1. m \in Elements(w)
    <3>1. PICK k \in Conns : m \in Elements(wire'[k])
      BY <1>3, <1>4, <1>7
    <3>2. k = peer[1]
      BY <1>4, <1>7, <3>1
    <3> QED
      BY <1>7, <1>d, <3>1, <3>2
  <2>2. w \o b \in Seq(Messages) /\ b \o c \in Seq(Messages) /\ Piped(1) = w \o (b \o c)
    BY <1>1, <1>a, <1>b
  <2>3. /\ Elements(Piped(1)) = Elements(w) \cup Elements(b \o c)
        /\ \A n \in Elements(b \o c) : Before(m, n)
    BY <1>1, <1>c, <2>1, <2>2, FrontInAge
  <2>4. Elements(b \o c) = Elements(b) \cup Elements(c)
    BY <1>1, <1>c
  <2>5. Wired(1)' = <<>>
    BY <1>7 DEF Wired
  <2>6. Piped(1)' = b \o c \/ Piped(1)' = c
    <3>1. \A s \in Seq(Messages) : <<>> \o s = s
      BY Concatenations
    <3> QED
      BY <1>0, <1>1, <1>7, <2>5, <3>1
  <2>7. Elements(Piped(1)') \subseteq Elements(b \o c)
    BY <2>4, <2>6
  <2> QED
    BY <2>1, <2>3, <2>7 DEF Coming, Elements
<1>8. ASSUME NEW k \in Conns, HandleMessage(k)
      PROVE  Goal
  <2>1. /\ handler[k] = "read" /\ wire[k] # <<>> /\ wire[k] \in Seq(Messages)
        /\ wire' = [wire EXCEPT ![k] = Tail(wire[k])] /\ UNCHANGED <<peer, batch, chan>>
    BY <1>0, <1>8 DEF HandleMessage
  <2> DEFINE p == Head(wire[k])
  <2>2. p \in Messages /\ p \in Elements(wire[k]) /\ Elements(Tail(wire[k])) \subseteq Elements(wire[k])
    BY <2>1, HeadTailProperties, PartsOfElements
  <2>3. \A l \in Conns : Elements(wire'[l]) \subseteq Elements(wire[l])
    BY <1>0, <2>1, <2>2
  <2>4. m.session \in Sessions /\ m.version = copy'[m.session]
    BY <1>3, <1>4, <2>1, <2>3
  <2>5. copy' = copy \/ (p.session \in Sessions /\ copy' = [copy EXCEPT ![p.session] = p.version])
    BY <1>8 DEF HandleMessage
  <2>6. m.session = p.session /\ m.version = p.version
    BY <1>0, <1>4, <2>4, <2>5
  <2>7. m = p
    BY <2>2, <2>6 DEF Messages
  <2>8. k = peer[1] /\ w = wire[k] /\ Wired(1)' = Tail(w)
    BY <1>0, <1>4, <1>d, <2>1, <2>2, <2>7 DEF Wired
  <2>9. Piped(1)' = (Tail(w) \o b) \o c
    BY <1>1, <2>1, <2>8
  <2>10. /\ <<p>> \in Seq(Messages) /\ w = <<p>> \o Tail(w) /\ Tail(w) \in Seq(Messages)
    BY <1>1, <2>1, <2>2, <2>8, Concatenations
  <2>11. /\ (Tail(w) \o b) \o c \in Seq(Messages)
         /\ Piped(1) = <<p>> \o ((Tail(w) \o b) \o c)
    <3>1. Tail(w) \o b \in Seq(Messages) /\ (Tail(w) \o b) \o c \in Seq(Messages)
      BY <1>1, <1>a, <2>10
    <3>2. (<<p>> \o Tail(w)) \o b = <<p>> \o (Tail(w) \o b)
      BY <1>1, <1>b, <2>10, Zenon
    <3>3. (<<p>> \o (Tail(w) \o b)) \o c = <<p>> \o ((Tail(w) \o b) \o c)
      <4>1. \A q \in Seq(Messages) : (<<p>> \o q) \o c = <<p>> \o (q \o c)
        BY <1>1, <1>b, <2>10
      <4> QED
        BY <3>1, <4>1, Zenon
    <3>4. (w \o b) \o c = <<p>> \o ((Tail(w) \o b) \o c)
      BY <2>10, <3>2, <3>3
    <3> QED
      BY <1>1, <3>1, <3>4
  <2>12. \A n \in Elements((Tail(w) \o b) \o c), q \in Elements(<<p>>) : Before(q, n)
    BY <2>10, <2>11, FrontInAge
  <2>13. p \in Elements(<<p>>)
    BY DEF Elements
  <2>14. p \in Elements(Piped(1))
    <3>1. Elements(Piped(1)) = Elements(<<p>>) \cup Elements((Tail(w) \o b) \o c)
      BY <1>c, <2>10, <2>11, Zenon
    <3> QED
      BY <2>13, <3>1, Zenon
  <2> QED
    BY <2>7, <2>9, <2>12, <2>13, <2>14 DEF Coming, Elements
<1>9. ASSUME NEW g \in Services, ProcessorStep(g)
      PROVE  Goal
  <2>1. CASE SendMessage(g)
    <3>1. g = 1 /\ peer[1] # 0 /\ UNCHANGED <<peer, copy>>
      BY <1>2, <2>1 DEF SendMessage, outsideProcessor
    <3>2. \A k \in Conns : k # peer[1] => wire'[k] = wire[k]
      BY <1>0, <2>1, <3>1 DEF SendMessage
    <3> QED
      BY <1>5, <3>1, <3>2
  <2>2. CASE SendFails(g)
    <3>1. CASE peer[g] = 0
      BY <1>6, <2>2, <3>1 DEF SendFails, outsideProcessor
    <3>2. CASE peer[g] # 0
      <4>1. g = 1 /\ UNCHANGED <<copy, wire, chan>>
        BY <1>2, <2>2, <3>2 DEF SendFails, outsideProcessor
      <4>2. peer'[1] = 0 /\ batch'[1] = <<>>
        BY <1>0, <2>2, <3>2, <4>1 DEF SendFails, Closed, Remaining
      <4> QED
        BY <1>7, <3>2, <4>1, <4>2
    <3> QED
      BY <3>1, <3>2
  <2>3. CASE TakeMessage(g) \/ BatchTimeout(g) \/ SeeCancelled(g) \/ SeeClosed(g)
    BY <1>6, <2>3 DEF TakeMessage, BatchTimeout, SeeCancelled, SeeClosed, outsideProcessor
  <2> QED
    BY <1>9, <2>1, <2>2, <2>3 DEF ProcessorStep
<1>10. CASE CloseConnection
  <2>1. service = 1 /\ UNCHANGED <<copy, wire, batch, chan>>
    BY <1>10 DEF CloseConnection, StopStep, outsideSwitch, InTurn
  <2>2. CASE peer[1] = 0
    BY <1>6, <1>10, <2>1, <2>2 DEF CloseConnection
  <2>3. CASE peer[1] # 0
    <3>1. peer'[1] = 0
      BY <1>0, <1>10, <2>1, <2>3 DEF CloseConnection, Closed
    <3> QED
      BY <1>7, <2>1, <2>3, <3>1
  <2> QED
    BY <2>2, <2>3
<1>11. ASSUME NEW g \in Services, TryConnect(g)
       PROVE  Goal
  <2>1. PICK k \in Conns : peer' = [peer EXCEPT ![g] = k]
    BY <1>11 DEF TryConnect, FreeConns
  <2>2. peer[g] = 0 /\ UNCHANGED <<wire, copy>>
    BY <1>11 DEF TryConnect
  <2>3. \A l \in Conns : l # peer'[1] => l # peer[1]
    BY <1>0, <2>1, <2>2
  <2> QED
    BY <1>5, <2>2, <2>3
<1>12. ASSUME NEW k \in Conns, HandlerStep(k) \/ ShortRead(k) \/ Break(k)
       PROVE  Goal
  <2>1. CASE Return(k)
    <3>1. UNCHANGED <<peer, copy>> /\ \A l \in Conns : wire'[l] = wire[l] \/ wire'[l] = <<>>
      BY <1>0, <2>1 DEF Return
    <3>2. \A l \in Conns : Elements(wire'[l]) \subseteq Elements(wire[l])
      BY <1>0, <3>1, PartsOfElements
    <3> QED
      BY <1>5, <3>1, <3>2
  <2>2. CASE Break(k)
    <3>1. UNCHANGED <<peer, copy>>
      BY <2>2 DEF Break
    <3>2. PICK n \in 0..Len(wire[k]) : wire' = [wire EXCEPT ![k] = SubSeq(wire[k], 1, n)]
      BY <2>2 DEF Break
    <3>3. wire[k] \in Seq(Messages) /\ Elements(SubSeq(wire[k], 1, n)) \subseteq Elements(wire[k])
      BY <1>0, PartsOfElements
    <3>4. \A l \in Conns : Elements(wire'[l]) \subseteq Elements(wire[l])
      BY <1>0, <3>2, <3>3
    <3> QED
      BY <1>5, <3>1, <3>4
  <2>3. CASE HandleMessage(k)
    BY <1>8, <2>3
  <2>4. CASE UNCHANGED <<copy, peer, wire>>
    BY <1>6, <2>4
  <2> QED
    BY <1>12, <2>1, <2>2, <2>3, <2>4
    DEF HandlerStep, AcceptConnection, RegisterConnection, CheckContext, ReadFails, ShortRead
<1>13. CASE CloseReceiver
  <2>1. UNCHANGED <<peer, copy>> /\ \A k \in Conns : wire'[k] = wire[k] \/ wire'[k] = <<>>
    BY <1>13 DEF CloseReceiver
  <2>2. \A k \in Conns : Elements(wire'[k]) \subseteq Elements(wire[k])
    BY <1>0, <2>1, PartsOfElements
  <2> QED
    BY <1>5, <2>1, <2>2
<1>14. CASE Demote \/ Cancel \/ CloseChannel \/ ForgetService \/ Promote \/ StartHook
  <2>1. UNCHANGED <<copy, peer, wire>>
    BY <1>14
    DEF Demote, Cancel, CloseChannel, ForgetService, StopStep, Promote, StartHook, outsideSwitch
  <2> QED
    BY <1>6, <2>1
<1>15. ASSUME NEW d \in Callers, CallStep(d)
       PROVE  Goal
  <2>1. UNCHANGED <<copy, peer, wire>>
    BY <1>15 DEF CallStep, SyncSession, Accept, Decline, SendOnClosed, outsideCalls
  <2> QED
    BY <1>6, <2>1
<1>16. CASE (\E s \in Sessions : Change(s)) \/ (\E h \in Hooks : Tick(h))
            \/ (\E o \in Operators : TriggerSync(o)) \/ (\E g \in Services : ManagerEnds(g))
            \/ CancelReceiver \/ StartReceiver \/ UNCHANGED vars
  <2>1. UNCHANGED <<copy, peer, wire>>
    BY <1>16
    DEF Change, Tick, TriggerSync, Begin, ManagerEnds, CancelReceiver, StartReceiver, vars,
        outsideCalls
  <2> QED
    BY <1>6, <2>1
<1> HIDE DEF Goal
<1> QED
  BY <1>9, <1>10, <1>11, <1>12, <1>13, <1>14, <1>15, <1>16 DEF Next, SwitchStep

LEMMA AgeStep ==
  ASSUME TypeOK, InTurn, BatchesFit, LinksAreOwned, AgeInv, [Next]_vars
  PROVE  ComesInAge'
<1> SUFFICES ASSUME created' = 1
             PROVE  /\ InAge(Piped(1)')
                    /\ \A m \in Past', n \in Coming' : Before(m, n)
                    /\ \A m \in Past' \cup Coming' : Reached(version', m)
                    /\ \A h \in Hooks : at'[h] = "offering" =>
                         Reached(version', offer'[h]) /\ \A m \in Past' \cup Coming' : Before(m, offer'[h])
  BY DEF ComesInAge
<1>1. created = 1 /\ 1 \in Services /\ Hooks \subseteq Callers
  BY HookStep, ServiceNumbers DEF AgeInv, Callers
<1>2. /\ peer \in [Services -> Conns \cup {0}] /\ wire \in [Conns -> Seq(Messages)]
      /\ batch \in [Services -> Seq(Messages)] /\ chan \in [Services -> Seq(Messages)]
      /\ offer \in [Callers -> Messages] /\ Piped(1) \in Seq(Messages) /\ Coming \subseteq Messages
  <2>1. /\ peer \in [Services -> Conns \cup {0}] /\ wire \in [Conns -> Seq(Messages)]
        /\ batch \in [Services -> Seq(Messages)] /\ chan \in [Services -> Seq(Messages)]
        /\ offer \in [Callers -> Messages]
    BY DEF TypeOK
  <2>2. Wired(1) \in Seq(Messages) /\ batch[1] \in Seq(Messages) /\ chan[1] \in Seq(Messages)
    BY <1>1, <2>1, EmptySeq DEF Wired
  <2>3. Piped(1) = (Wired(1) \o batch[1]) \o chan[1]
    BY DEF Piped, Wired
  <2>4. \A q, r \in Seq(Messages) : q \o r \in Seq(Messages)
    BY Concatenations
  <2>5. Piped(1) \in Seq(Messages)
    BY <2>2, <2>3, <2>4
  <2> QED
    BY <2>1, <2>5, PartsOfElements DEF Coming
<1>3. /\ InAge(Piped(1))
      /\ \A m \in Past, n \in Coming : Before(m, n)
      /\ \A m \in Past \cup Coming : Reached(version, m)
      /\ \A h \in Hooks : at[h] = "offering" =>
           Reached(version, offer[h]) /\ \A m \in Past \cup Coming : Before(m, offer[h])
  BY <1>1 DEF AgeInv, ComesInAge
<1>4. \A m \in Past' : m \in Messages /\ m \in Past \cup Coming
                       /\ (m \notin Past => \A n \in Coming' : Before(m, n))
  <2> SUFFICES ASSUME NEW m \in Messages, m \in Past'
               PROVE  m \in Past \cup Coming /\ (m \notin Past => \A n \in Coming' : Before(m, n))
    BY DEF Past
  <2> QED
    BY <1>1, <1>3, PastStep DEF AgeInv
<1>5. \A m \in Messages : Reached(version, m) => Reached(version', m)
  BY VersionsGrow
\* A message that a hook or an operator adds is of the age of all the service has taken so far.
<1>6. ASSUME NEW d \in Callers, Accept(d)
      PROVE  /\ Reached(version, offer[d]) /\ \A m \in Past \cup Coming : Before(m, offer[d])
             /\ \A h \in Hooks : at'[h] = "offering" => Before(offer[d], offer'[h])
  <2>1. at[d] = "offering" /\ UNCHANGED version
    BY <1>6 DEF Accept, outsideCalls
  <2>2. CASE d \in Hooks
    <3>1. \A h \in Hooks \ {d} : at[h] = "absent"
      BY <1>1, <2>1, <2>2 DEF AgeInv, OneHookRuns
    <3>2. at \in [Callers -> {"absent", "idle", "round", "offering"}]
      BY DEF TypeOK
    <3>3. \A h \in Hooks : at'[h] # "offering"
      BY <1>1, <1>6, <2>2, <3>1, <3>2 DEF Accept, Returned
    <3> QED
      BY <1>3, <2>1, <2>2, <3>3
  <2>3. CASE d \in Operators
    <3>1. offer[d].session \notin Sessions
      BY <2>3, SyncAssumption DEF AgeInv, OperatorsSyncAll
    <3> QED
      BY <3>1 DEF Reached, Before
  <2> QED
    BY <2>2, <2>3 DEF Callers
<1>7. /\ InAge(Piped(1)')
      /\ \/ Coming' \subseteq Coming
         \/ \E d \in Callers : Accept(d) /\ Coming' = Coming \cup {offer[d]}
  <2>1. CASE Accepted(1)
    <3>1. PICK d \in Callers : Accept(d) /\ Piped(1)' = Append(Piped(1), offer[d])
      BY <1>1, <2>1, NewcomerIsOffered
    <3>2. \A m \in Elements(Piped(1)) : Before(m, offer[d])
      BY <1>6, <3>1 DEF Coming
    <3>3. offer[d] \in Messages
      BY <1>2
    <3>4. /\ Elements(Append(Piped(1), offer[d])) = Elements(Piped(1)) \cup {offer[d]}
          /\ InAge(Append(Piped(1), offer[d]))
      BY <1>2, <1>3, <3>2, <3>3, LastInAge
    <3>5. Elements(Piped(1)') = Coming \cup {offer[d]} /\ InAge(Piped(1)')
      BY <3>1, <3>4 DEF Coming
    <3> QED
      BY <3>1, <3>5 DEF Coming, Elements
  <2>2. CASE Loss(Piped(1), Piped(1)')
    <3>1. Elements(Piped(1)') \subseteq Elements(Piped(1)) /\ InAge(Piped(1)')
      BY <1>2, <1>3, <2>2, LossKeepsAge
    <3> QED
      BY <3>1 DEF Coming, Elements
  <2> QED
    BY <1>1, <2>1, <2>2, PipeStep
<1>8. ASSUME NEW m \in Past', NEW n \in Coming'
      PROVE  Before(m, n)
  <2>1. CASE m \notin Past
    BY <1>4, <2>1
  <2>2. CASE m \in Past /\ n \in Coming
    BY <1>3, <2>2
  <2>3. CASE m \in Past /\ n \notin Coming
    BY <1>6, <1>7, <2>3
  <2> QED
    BY <2>1, <2>2, <2>3
<1>9. ASSUME NEW m \in Past' \cup Coming'
      PROVE  m \in Past \cup Coming \/ \E d \in Callers : Accept(d) /\ m = offer[d]
  BY <1>4, <1>7
<1>10. ASSUME NEW m \in Past' \cup Coming'
       PROVE  m \in Messages /\ Reached(version', m)
  <2>1. m \in Messages
    BY <1>2, <1>4, <1>7
  <2>2. Reached(version, m)
    BY <1>3, <1>6, <1>9
  <2> QED
    BY <1>5, <2>1, <2>2
<1>11. ASSUME NEW h \in Hooks, at'[h] = "offering"
       PROVE  Reached(version', offer'[h]) /\ \A m \in Past' \cup Coming' : Before(m, offer'[h])
  <2>1. CASE at[h] = "offering" /\ offer'[h] = offer[h] /\ ~Accept(h)
    <3>1. offer[h] \in Messages /\ Reached(version, offer[h]) /\ \A m \in Past \cup Coming : Before(m, offer[h])
      BY <1>1, <1>2, <1>3, <2>1
    <3>2. \A o \in Messages : o = offer[h] => Reached(version', o)
      BY <1>5, <3>1
    <3>3. Reached(version', offer'[h])
      BY <2>1, <3>1, <3>2 DEF Reached
    <3>4. \A m \in Past' \cup Coming' : Before(m, offer'[h])
      BY <1>6, <1>9, <1>11, <2>1, <3>1
    <3> QED
      BY <3>3, <3>4
  \* What a hook offers is the session's present state.
  <2>2. CASE SyncSession(h) /\ at[h] # "offering"
    <3>1. UNCHANGED version /\ UNCHANGED chan
      BY <2>2 DEF SyncSession, outsideCalls
    <3>2. at \in [Callers -> {"absent", "idle", "round", "offering"}] /\ h \in Callers
          /\ offer \in [Callers -> Messages]
      BY <1>1 DEF TypeOK
    <3>3. PICK s \in todo[h] :
            \/ /\ at' = [at EXCEPT ![h] = "offering"]
               /\ offer' = [offer EXCEPT ![h] = [session |-> s, version |-> VersionOf(s)]]
            \/ at' = [at EXCEPT ![h] = IF todo[h] = {s} THEN "idle" ELSE @]
      BY <2>2 DEF SyncSession
    <3>4. offer'[h] = [session |-> s, version |-> VersionOf(s)]
      BY <1>11, <2>2, <3>2, <3>3
    <3>5. /\ offer'[h].session = s
          /\ s \in Sessions => offer'[h].version = version[s]
      BY <3>4, SyncAssumption DEF VersionOf
    <3>6. version \in [Sessions -> Nat]
      BY SyncAssumption DEF TypeOK
    <3>7. Reached(version', offer'[h])
      BY <3>1, <3>5, <3>6 DEF Reached
    <3>8. \A m \in Past' \cup Coming' : Reached(version, m)
      BY <1>10, <3>1 DEF Reached
    <3> QED
      BY <3>5, <3>7, <3>8 DEF Reached, Before
  <2> QED
    BY <1>11, <2>1, <2>2, HooksOffer
<1> QED
  BY <1>7, <1>8, <1>10, <1>11

LEMMA InitAge == Init => AgeInv
<1> SUFFICES ASSUME Init
             PROVE  AgeInv
  OBVIOUS
<1>1. /\ 1 \in Services /\ 0 \notin Conns /\ peer[1] = 0 /\ batch[1] = <<>> /\ chan[1] = <<>>
      /\ \A k \in Conns : wire[k] = <<>> /\ link[k] = "free"
      /\ \A s \in Sessions : copy[s] = 0 /\ version[s] = 0
      /\ \A h \in Hooks : at[h] = "absent"
      /\ \A o \in Operators : todo[o] = {} /\ offer[o].session = FullSync
      /\ hooksDue = 1
  BY ServiceNumbers, SyncAssumption DEF Init, Callers, NoOffer
<1>2. Elements(<<>>) = {} /\ InAge(<<>>)
  BY DEF Elements, InAge
<1>3. Piped(1) = <<>>
  <2>1. <<>> \in Seq(Messages) /\ \A q \in Seq(Messages) : q \o <<>> = q
    BY Concatenations
  <2>2. <<>> \o <<>> = <<>>
    BY <2>1
  <2> QED
    BY <1>1, <2>2 DEF Piped
<1>4. Coming = {}
  BY <1>2, <1>3 DEF Coming
<1>5. \A m \in Past : Reached(version, m)
  BY <1>1, <1>2 DEF Past, Reached
<1>6. ComesInAge
  BY <1>1, <1>2, <1>3, <1>4, <1>5 DEF ComesInAge
<1>7. LinksAreUsed
  BY <1>1 DEF LinksAreUsed, Init
<1> QED
  BY <1>1, <1>6, <1>7 DEF AgeInv, OperatorsSyncAll, OneHookRuns

\* Until the first promotion the one hook offers what sessions are, in the order they became it,
\* and one service passes it on: nothing it still has to pass on is older than what the backup
\* has recorded, whatever links break and whatever operators ask for meanwhile.
THEOREM PipesCarryTheLatest == Spec => []AgeInv
<1>1. SyncInv /\ AgeInv /\ [Next]_vars => AgeInv'
  BY UseStep, OperatorStep, HookStep, AgeStep DEF SyncInv, AgeInv
<1> QED
  BY <1>1, InitAge, InvariantHolds, PTL DEF Spec

\* The backup's record of a session goes back only when it reads on from a connection the sender
\* has given up; before the first promotion, which is when there is one hook.
THEOREM OlderIsFromGivenUp == Spec => OlderFromGivenUp
<1>1. SyncInv /\ AgeInv /\ [Next]_vars =>
        [\A s \in Sessions : created = 1 /\ copy'[s] < copy[s] =>
           \E k \in Conns : Read(k) /\ link[k] = "shut"]_vars
  <2> SUFFICES ASSUME SyncInv, AgeInv, [Next]_vars, NEW s \in Sessions, created = 1, copy'[s] < copy[s]
               PROVE  \E k \in Conns : Read(k) /\ link[k] = "shut"
    OBVIOUS
  <2>1. /\ copy \in [Sessions -> 0..MaxVersion] /\ wire \in [Conns -> Seq(Messages)]
        /\ handler \in [Conns -> {"none", "backlog", "accepted", "top", "read"}]
        /\ link \in [Conns -> {"free", "open", "shut", "broken"}] /\ 0 \notin Conns
        /\ batch[1] \in Seq(Messages) /\ chan[1] \in Seq(Messages)
    BY ServiceNumbers, SyncAssumption DEF SyncInv, TypeOK
  <2>2. copy[s] \in Nat /\ copy[s] \in 0..MaxVersion
    BY <2>1, SyncAssumption
  <2>3. PICK k \in Conns : HandleMessage(k)
    BY <2>2, OnlyHandlersRecord
  <2>4. Read(k) /\ wire[k] # <<>> /\ wire[k] \in Seq(Messages)
    BY <2>1, <2>3 DEF HandleMessage, Read
  <2> DEFINE p == Head(wire[k])
  <2>5. p \in Messages /\ p \in Elements(wire[k])
    BY <2>4, HeadTailProperties, PartsOfElements
  <2>6. p.session = s /\ copy'[s] = p.version
    BY <2>1, <2>2, <2>3 DEF HandleMessage
  <2>7. ASSUME link[k] # "shut"
        PROVE  FALSE
    <3>1. link[k] \in {"open", "broken"}
      BY <2>1, <2>4, <2>7 DEF Read, SyncInv, LinksAreOwned
    <3>2. PICK g \in Services : peer[g] = k
      BY <3>1 DEF AgeInv, LinksAreUsed
    <3>3. g = 1
      <4>1. state[g] # "unborn" /\ g \in Nat \ {0}
        BY <2>1, <3>2, ServiceNumbers DEF AgeInv, LinksAreUsed
      <4> QED
        BY <4>1 DEF SyncInv, InTurn
    <3>4. p \in Coming
      <4>1. Piped(1) = (wire[k] \o batch[1]) \o chan[1]
        BY <2>1, <3>2, <3>3 DEF Piped
      <4>2. wire[k] \o batch[1] \in Seq(Messages)
        BY <2>1, <2>4, Concatenations
      <4>3. Elements(Piped(1)) = Elements(wire[k] \o batch[1]) \cup Elements(chan[1])
        BY <2>1, <4>1, <4>2, ElementsOfBoth
      <4>4. Elements(wire[k] \o batch[1]) = Elements(wire[k]) \cup Elements(batch[1])
        BY <2>1, <2>4, ElementsOfBoth
      <4> QED
        BY <2>5, <4>3, <4>4 DEF Coming
    <3> DEFINE r == [session |-> s, version |-> copy[s]]
    <3>5. r \in Past
      BY <2>2 DEF Past, Messages
    <3>6. Before(r, p)
      BY <3>4, <3>5 DEF AgeInv, ComesInAge
    <3>7. copy[s] <= p.version
      BY <2>6, <3>6 DEF Before
    <3> QED
      BY <2>2, <2>5, <2>6, <3>7, MessageParts, SyncAssumption
  <2> QED
    BY <2>4, <2>7
<1> QED
  BY <1>1, PipesCarryTheLatest, InvariantHolds, PTL DEF Spec, OlderFromGivenUp

=============================================================================
