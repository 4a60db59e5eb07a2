--------------------------- MODULE FailoverProofs ---------------------------
(***************************************************************************)
(* TLAPS proofs about Failover, for any number of operators.               *)
(***************************************************************************)
EXTENDS Failover, TLAPS

-----------------------------------------------------------------------------
(* The inductive invariant                                                 *)

\* Whoever holds the service's mutex is in a switch to another mode than the present
\* one, and once the callback has run its first half, mode is what it asked for.
SwitchInProgress ==
  \A s \in Servers :
    /\ holder[s] # "none" => asked[s][holder[s]] \in Modes
    /\ called[s] => holder[s] # "none" /\ mode[s] = asked[s][holder[s]]

\* A process that is down will start in its configured mode, with nothing pending.
DownIsReset ==
  \A s \in Servers : ~up[s] =>
    /\ mode[s] = Configured(s) /\ fMode[s] = Configured(s)
    /\ holder[s] = "none" /\ ~called[s]

FailoverInv == TypeOK /\ SwitchInProgress /\ DownIsReset /\ ModesAgree /\ ServicesMatch

-----------------------------------------------------------------------------
(* Preservation                                                            *)

Entries == Modes \cup {"none"}
Asked == [Servers -> [Callers -> Entries]]
Updated(f, s, c, v) == [f EXCEPT ![s][c] = v]

\* g is f but for one caller's entry.
OneChanged(f, g, s, c, v) ==
  \A t \in Servers, d \in Callers : g[t][d] = IF t = s /\ d = c THEN v ELSE f[t][d]

\* What the update of one caller's entry leaves in the table.
LEMMA UpdateFacts ==
  ASSUME NEW f \in Asked, NEW s \in Servers, NEW c \in Callers, NEW v \in Entries
  PROVE  Updated(f, s, c, v) \in Asked /\ OneChanged(f, Updated(f, s, c, v), s, c, v)
  BY DEF Asked, Updated, OneChanged

LEMMA EntryFacts == "none" \in Entries /\ "primary" \in Entries /\ "backup" \in Entries
  BY DEF Entries, Modes

\* Each step keeps the types.
LEMMA TypeStep == TypeOK /\ SwitchInProgress /\ [Next]_vars => TypeOK'
<1> SUFFICES ASSUME TypeOK, SwitchInProgress, [Next]_vars
             PROVE  TypeOK'
  OBVIOUS
<1>0. asked \in Asked
  BY DEF TypeOK, Asked, Entries
<1> USE <1>0, FailoverAssumption
    DEF TypeOK, SwitchInProgress, Modes, Threshold, Callers, hearing, link, switching, services, manager
<1>1. CASE Connect
  BY <1>1 DEF Connect
<1>2. CASE SendHeartbeat
  BY <1>2 DEF SendHeartbeat
<1>3. CASE SendFails
  BY <1>3 DEF SendFails, Closed
<1>4. CASE ReceiveHeartbeat
  BY <1>4 DEF ReceiveHeartbeat, Ages
<1>5. CASE HandlerEnds
  BY <1>5 DEF HandlerEnds
<1>6. CASE Elapse
  BY <1>6 DEF Elapse, Ages
<1>7. CASE CheckHeartbeat
  BY <1>7 DEF CheckHeartbeat
<1>8. ASSUME NEW s \in Servers, Detect(s)
      PROVE  TypeOK'
  <2>1. asked' = asked \/ asked' = Updated(asked, s, "detector", "primary")
    BY <1>8 DEF Detect, Updated
  <2>2. asked' \in Asked
    <3>1. "detector" \in Callers
      OBVIOUS
    <3> QED
      BY ONLY <1>0, <2>1, <3>1, s \in Servers, UpdateFacts, EntryFacts
  <2>3. failures' \in [Servers -> 0..(Threshold - 1)]
    <3>1. Counted(s) \in 0..(Threshold - 1)
      BY DEF Counted
    <3> QED
      BY <1>8, <3>1 DEF Detect
  <2>4. UNCHANGED <<up, reachable, link, hearing, fMode, holder, called, manager>>
    BY <1>8 DEF Detect
  <2> QED
    BY <2>2, <2>3, <2>4 DEF Asked, Entries
<1>9. ASSUME NEW s \in Servers, OnModeSwitch(s)
      PROVE  TypeOK'
  BY <1>9 DEF OnModeSwitch
<1>10. ASSUME NEW s \in Servers, AdjustServices(s)
      PROVE  TypeOK'
  <2>1. holder[s] \in Callers /\ asked[s][holder[s]] \in Modes
    BY <1>10 DEF AdjustServices
  <2>2. asked' = Updated(asked, s, holder[s], "none")
    BY <1>10 DEF AdjustServices, Updated
  <2>3. asked' \in Asked
    BY <2>2, <2>1, UpdateFacts, EntryFacts
  <2>4. sender' \in [Servers -> BOOLEAN] /\ receiver' \in [Servers -> Receivers]
    BY <1>10 DEF AdjustServices, SenderIn, Receivers, NewReceiver
  <2>5. fMode' \in [Servers -> Modes]
    BY <1>10, <2>1 DEF AdjustServices, Concluded
  <2>6. called' \in [Servers -> BOOLEAN] /\ holder' \in [Servers -> Callers \cup {"none"}]
    BY <1>10 DEF AdjustServices
  <2>7. UNCHANGED <<up, reachable, link, hearing, failures, mode, jammed>>
    BY <1>10 DEF AdjustServices
  <2> QED
    BY <2>3, <2>4, <2>5, <2>6, <2>7 DEF Asked, Entries
<1>11. ASSUME NEW s \in Servers, SwitchMode(s)
      PROVE  TypeOK'
  BY <1>11 DEF SwitchMode
<1>12. ASSUME NEW s \in Servers, Crash(s)
      PROVE  TypeOK'
  <2>1. asked' \in Asked
    BY <1>12 DEF Crash, Asked, Entries
  <2>2. Configured(s) \in Modes
    BY DEF Configured
  <2>3. /\ fMode' \in [Servers -> Modes] /\ mode' \in [Servers -> Modes]
        /\ failures' \in [Servers -> 0..(Threshold - 1)]
        /\ holder' \in [Servers -> Callers \cup {"none"}]
    BY <1>12, <2>2 DEF Crash
  <2>4. /\ up' \in [Servers -> BOOLEAN] /\ called' \in [Servers -> BOOLEAN]
        /\ jammed' \in [Servers -> BOOLEAN] /\ sender' \in [Servers -> BOOLEAN]
        /\ receiver' \in [Servers -> Receivers]
    BY <1>12 DEF Crash, Receivers
  <2>5. /\ conn' \in BOOLEAN /\ served' \in BOOLEAN /\ ping' \in BOOLEAN
        /\ alive' \in BOOLEAN /\ heard' \in Ages /\ reachable' \in BOOLEAN
    BY <1>12 DEF Crash, Ages
  <2> QED
    BY <2>1, <2>3, <2>4, <2>5 DEF Asked, Entries
<1>13. ASSUME NEW s \in Servers, StartServer(s)
      PROVE  TypeOK'
  BY <1>13 DEF StartServer, SenderIn, Configured, Receivers
<1>14. ASSUME NEW s \in Servers, NEW c \in Callers, BeginSwitch(s, c)
      PROVE  TypeOK'
  <2>1. asked' = asked \/ asked' = Updated(asked, s, c, "none")
    BY <1>14 DEF BeginSwitch, Updated
  <2>2. asked' \in Asked
    BY <2>1, UpdateFacts, EntryFacts
  <2>3. holder' \in [Servers -> Callers \cup {"none"}]
    BY <1>14 DEF BeginSwitch
  <2>4. UNCHANGED <<up, reachable, link, hearing, fMode, failures, called, manager>>
    BY <1>14 DEF BeginSwitch
  <2> QED
    BY <2>2, <2>3, <2>4 DEF Asked, Entries
<1>15. ASSUME NEW s \in Servers, NEW o \in Operators, TriggerFailover(s, o)
      PROVE  TypeOK'
  <2>1. o \in Callers
    OBVIOUS
  <2>2. asked' = Updated(asked, s, o, IF mode[s] = "backup" THEN "primary" ELSE "backup")
    BY <1>15 DEF TriggerFailover, Updated
  <2>3. asked' \in Asked
    BY <2>2, <2>1, UpdateFacts, EntryFacts
  <2> QED
    BY <1>15, <2>3 DEF TriggerFailover, Asked, Entries
<1>16. CASE NetworkChanges
  BY <1>16 DEF NetworkChanges
<1>17. CASE UNCHANGED vars
  BY <1>17 DEF vars
<1> QED
  BY <1>1, <1>2, <1>3, <1>4, <1>5, <1>6, <1>7, <1>8, <1>9, <1>10,
     <1>11, <1>12, <1>13, <1>14, <1>15, <1>16, <1>17
  DEF Next, Heartbeats, Switch

\* A switch holds the mutex from its first step to its last, so that each step finds
\* what the one before it left.
LEMMA InvariantStep == FailoverInv /\ [Next]_vars => FailoverInv'
<1> SUFFICES ASSUME FailoverInv, [Next]_vars
             PROVE  FailoverInv'
  OBVIOUS
<1>0. TypeOK /\ TypeOK' /\ asked \in Asked
  BY TypeStep DEF FailoverInv, TypeOK, Asked, Entries
<1>a. asked \in Asked
  BY <1>0
<1> USE <1>0, FailoverAssumption
    DEF TypeOK, FailoverInv, SwitchInProgress, DownIsReset, ModesAgree, ServicesMatch,
        Modes, Callers, hearing, link, switching, services, manager
<1>1. CASE Connect
  BY <1>1 DEF Connect
<1>2. CASE SendHeartbeat
  BY <1>2 DEF SendHeartbeat
<1>3. CASE SendFails
  BY <1>3 DEF SendFails, Closed
<1>4. CASE ReceiveHeartbeat
  BY <1>4 DEF ReceiveHeartbeat, Ages
<1>5. CASE HandlerEnds
  BY <1>5 DEF HandlerEnds
<1>6. CASE Elapse
  BY <1>6 DEF Elapse, Ages
<1>7. CASE CheckHeartbeat
  BY <1>7 DEF CheckHeartbeat
<1>8. ASSUME NEW s \in Servers, Detect(s)
      PROVE  FailoverInv'
  <2>1. asked' = asked \/ asked' = Updated(asked, s, "detector", "primary")
    BY <1>8 DEF Detect, Updated
  <2>2. \A t \in Servers, d \in Callers :
          asked'[t][d] # asked[t][d] => t = s /\ d = "detector" /\ asked'[t][d] = "primary"
    <3>1. "detector" \in Callers
      OBVIOUS
    <3>2. asked' = asked \/ OneChanged(asked, asked', s, "detector", "primary")
      BY ONLY <2>1, <1>a, <3>1, s \in Servers, UpdateFacts, EntryFacts
    <3> QED
      BY ONLY <3>2 DEF OneChanged
  <2>3. SwitchInProgress'
    BY <1>8, <2>2 DEF Detect, Counted, Suspects
  <2>4. DownIsReset'
    BY <1>8, <2>2 DEF Detect, Counted, Suspects
  <2>5. ModesAgree'
    BY <1>8, <2>2 DEF Detect, Counted, Suspects
  <2>6. ServicesMatch'
    BY <1>8, <2>2 DEF Detect, Counted, Suspects
  <2> QED
    BY <2>3, <2>4, <2>5, <2>6, <1>0
<1>9. ASSUME NEW s \in Servers, OnModeSwitch(s)
      PROVE  FailoverInv'
  <2>1. holder[s] \in Callers /\ asked[s][holder[s]] \in Modes
    BY <1>9 DEF OnModeSwitch
  <2>2. SwitchInProgress'
    BY <1>9, <2>1 DEF OnModeSwitch
  <2>3. DownIsReset'
    BY <1>9, <2>1 DEF OnModeSwitch
  <2>4. ModesAgree'
    BY <1>9, <2>1 DEF OnModeSwitch
  <2>5. ServicesMatch'
    BY <1>9, <2>1 DEF OnModeSwitch
  <2> QED
    BY <2>2, <2>3, <2>4, <2>5, <1>0
<1>10. ASSUME NEW s \in Servers, AdjustServices(s)
      PROVE  FailoverInv'
  <2>1. holder[s] \in Callers /\ asked[s][holder[s]] \in Modes
    BY <1>10 DEF AdjustServices
  <2>2. asked' = Updated(asked, s, holder[s], "none")
    BY <1>10 DEF AdjustServices, Updated
  <2>3. \A t \in Servers, d \in Callers :
          asked'[t][d] = IF t = s /\ d = holder[s]
                         THEN "none" ELSE asked[t][d]
    <3>1. OneChanged(asked, asked', s, holder[s], "none")
      BY ONLY <1>a, <2>2, <2>1, s \in Servers, UpdateFacts, EntryFacts
    <3> QED
      BY ONLY <3>1 DEF OneChanged
  <2>4. SwitchInProgress'
    BY <1>10, <2>3, <2>1 DEF AdjustServices, Concluded, SenderIn, NewReceiver
  <2>5. DownIsReset'
    BY <1>10, <2>3, <2>1 DEF AdjustServices, Concluded, SenderIn, NewReceiver
  <2>6. ModesAgree'
    BY <1>10, <2>3, <2>1 DEF AdjustServices, Concluded, SenderIn, NewReceiver
  <2>7. ASSUME NEW t \in Servers, up'[t], ~called'[t]
        PROVE  /\ sender'[t] <=> mode'[t] = "primary"
               /\ receiver'[t] = "none" <=> mode'[t] = "primary"
    <3>1. CASE t = s
      <4>1. mode'[s] = asked[s][holder[s]] /\ (sender'[s] <=> asked[s][holder[s]] = "primary")
        <5>1. mode'[s] = asked[s][holder[s]]
          BY <1>10 DEF AdjustServices
        <5>2. sender' = [sender EXCEPT ![s] = SenderIn(asked[s][holder[s]])]
          BY <1>10 DEF AdjustServices
        <5>3. sender'[s] = SenderIn(asked[s][holder[s]])
          BY ONLY <1>0, <5>2, s \in Servers, Zenon DEF TypeOK
        <5> QED
          BY ONLY <5>1, <5>3, Zenon DEF SenderIn
      <4>2. receiver'[s] = "none" <=> asked[s][holder[s]] = "primary"
        BY <1>10, <2>1 DEF AdjustServices, NewReceiver
      <4> QED
        BY <3>1, <4>1, <4>2
    <3>2. CASE t # s
      <4>1. /\ up[t] /\ ~called[t] /\ mode'[t] = mode[t]
            /\ sender'[t] = sender[t] /\ receiver'[t] = receiver[t]
        BY <1>10, <2>7, <3>2 DEF AdjustServices
      <4> QED
        BY <4>1
    <3> QED
      BY <3>1, <3>2
  <2> QED
    BY <2>4, <2>5, <2>6, <2>7, <1>0
<1>11. ASSUME NEW s \in Servers, SwitchMode(s)
      PROVE  FailoverInv'
  BY <1>11 DEF SwitchMode
<1>12. ASSUME NEW s \in Servers, Crash(s)
      PROVE  FailoverInv'
  BY <1>12 DEF Crash, Configured
<1>13. ASSUME NEW s \in Servers, StartServer(s)
      PROVE  FailoverInv'
  <2>1. SwitchInProgress'
    BY <1>13 DEF StartServer, SenderIn, Configured, Receivers
  <2>2. DownIsReset'
    BY <1>13 DEF StartServer, SenderIn, Configured, Receivers
  <2>3. ModesAgree'
    BY <1>13 DEF StartServer, SenderIn, Configured, Receivers
  <2>4. ASSUME NEW t \in Servers, up'[t], ~called'[t]
        PROVE  /\ sender'[t] <=> mode'[t] = "primary"
               /\ receiver'[t] = "none" <=> mode'[t] = "primary"
    <3>1. CASE t = s
      <4>1. mode'[s] = Configured(s) /\ (sender'[s] <=> Configured(s) = "primary")
        <5>1. mode'[s] = Configured(s)
          BY <1>13 DEF StartServer
        <5>2. sender' = [sender EXCEPT ![s] = SenderIn(Configured(s))]
          BY <1>13 DEF StartServer
        <5>3. sender'[s] = SenderIn(Configured(s))
          BY ONLY <1>0, <5>2, s \in Servers, Zenon DEF TypeOK
        <5> QED
          BY ONLY <5>1, <5>3, Zenon DEF SenderIn
      <4>2. receiver'[s] = "none" <=> Configured(s) = "primary"
        BY <1>13 DEF StartServer, Configured
      <4> QED
        BY <3>1, <4>1, <4>2
    <3>2. CASE t # s
      <4>1. /\ up[t] /\ ~called[t] /\ mode'[t] = mode[t]
            /\ sender'[t] = sender[t] /\ receiver'[t] = receiver[t]
        BY <1>13, <2>4, <3>2 DEF StartServer
      <4> QED
        BY <4>1
    <3> QED
      BY <3>1, <3>2
  <2> QED
    BY <2>1, <2>2, <2>3, <2>4, <1>0
<1>14. ASSUME NEW s \in Servers, NEW c \in Callers, BeginSwitch(s, c)
      PROVE  FailoverInv'
  <2>1. asked' = asked \/ asked' = Updated(asked, s, c, "none")
    BY <1>14 DEF BeginSwitch, Updated
  <2>2. \A t \in Servers, d \in Callers :
          asked'[t][d] # asked[t][d] => t = s /\ d = c /\ asked'[t][d] = "none"
    <3>1. asked' = asked \/ OneChanged(asked, asked', s, c, "none")
      BY ONLY <2>1, <1>a, s \in Servers, c \in Callers, UpdateFacts, EntryFacts
    <3> QED
      BY ONLY <3>1 DEF OneChanged
  <2>3. SwitchInProgress'
    BY <1>14, <2>2 DEF BeginSwitch
  <2>4. DownIsReset'
    BY <1>14, <2>2 DEF BeginSwitch
  <2>5. ModesAgree'
    BY <1>14, <2>2 DEF BeginSwitch
  <2>6. ServicesMatch'
    BY <1>14, <2>2 DEF BeginSwitch
  <2> QED
    BY <2>3, <2>4, <2>5, <2>6, <1>0
<1>15. ASSUME NEW s \in Servers, NEW o \in Operators, TriggerFailover(s, o)
      PROVE  FailoverInv'
  <2>1. o \in Callers
    OBVIOUS
  <2>2. asked' = Updated(asked, s, o, IF mode[s] = "backup" THEN "primary" ELSE "backup")
    BY <1>15 DEF TriggerFailover, Updated
  <2>3. \A t \in Servers, d \in Callers :
          asked'[t][d] = IF t = s /\ d = o
                         THEN IF mode[s] = "backup" THEN "primary" ELSE "backup" ELSE asked[t][d]
    <3>1. OneChanged(asked, asked', s, o, IF mode[s] = "backup" THEN "primary" ELSE "backup")
      BY ONLY <1>a, <2>2, <2>1, s \in Servers, UpdateFacts, EntryFacts
    <3> QED
      BY ONLY <3>1 DEF OneChanged
  <2>4. SwitchInProgress'
    BY <1>15, <2>3, <2>1 DEF TriggerFailover
  <2>5. DownIsReset'
    BY <1>15, <2>3, <2>1 DEF TriggerFailover
  <2>6. ModesAgree'
    BY <1>15, <2>3, <2>1 DEF TriggerFailover
  <2>7. ServicesMatch'
    BY <1>15, <2>3, <2>1 DEF TriggerFailover
  <2> QED
    BY <2>4, <2>5, <2>6, <2>7, <1>0
<1>16. CASE NetworkChanges
  BY <1>16 DEF NetworkChanges
<1>17. CASE UNCHANGED vars
  BY <1>17 DEF vars
<1> QED
  BY <1>1, <1>2, <1>3, <1>4, <1>5, <1>6, <1>7, <1>8, <1>9, <1>10,
     <1>11, <1>12, <1>13, <1>14, <1>15, <1>16, <1>17
  DEF Next, Heartbeats, Switch

LEMMA InvariantHolds == Spec => []FailoverInv
<1>1. Init => FailoverInv
  <2> SUFFICES ASSUME Init PROVE FailoverInv
    OBVIOUS
  <2>1. TypeOK
    <3>1. /\ \A s \in Servers : Configured(s) \in Modes
          /\ asked \in Asked /\ sender \in [Servers -> BOOLEAN]
      BY DEF Init, Configured, Modes, Asked, Entries, SenderIn
    <3>2. receiver \in [Servers -> Receivers] /\ failures \in [Servers -> 0..(Threshold - 1)]
      BY DEF Init, Receivers, Threshold
    <3> QED
      BY <3>1, <3>2 DEF Init, TypeOK, Asked, Entries, Ages
  <2>2. SwitchInProgress /\ DownIsReset /\ ModesAgree
    BY DEF Init, SwitchInProgress, DownIsReset, ModesAgree
  <2>3. ServicesMatch
    BY DEF Init, ServicesMatch, SenderIn, Configured
  <2> QED
    BY <2>1, <2>2, <2>3 DEF FailoverInv
<1> QED
  BY <1>1, InvariantStep, PTL DEF Spec

-----------------------------------------------------------------------------
(* Theorems                                                                *)

\* Types, and the detector counts below its threshold.
THEOREM TypeCorrect == Spec => []TypeOK
<1>1. FailoverInv => TypeOK
  BY DEF FailoverInv
<1> QED
  BY <1>1, InvariantHolds, PTL

\* However the detector and any number of operators interleave their switches, and
\* wherever a server crashes, the two modes of a server differ only within a switch or
\* after a demotion whose receiver could not listen.
THEOREM OneModePerServer == Spec => []ModesAgree
<1>1. FailoverInv => ModesAgree
  BY DEF FailoverInv
<1> QED
  BY <1>1, InvariantHolds, PTL

\* Outside a switch the synchronisation services fit the manager's mode.
THEOREM ServicesFollowMode == Spec => []ServicesMatch
<1>1. FailoverInv => ServicesMatch
  BY DEF FailoverInv
<1> QED
  BY <1>1, InvariantHolds, PTL

=============================================================================
