------------------------------ MODULE Failover ------------------------------
(***************************************************************************)
(* Two gateways that watch each other and switch between primary and       *)
(* backup (internal/backup/heartbeat.go, failover.go, backup_manager.go).  *)
(*                                                                         *)
(* Main is configured as primary, Standby as backup.  Main dials Standby   *)
(* and sends it heartbeats, whatever the modes become later.  On each      *)
(* server a detector and any number of operators (TriggerFailover and      *)
(* SwitchMode of the server) ask for switches, which the failover service  *)
(* carries out one at a time; it calls the manager back, which keeps a     *)
(* mode of its own and the synchronisation services.                       *)
(*                                                                         *)
(* What Main hears of Standby is left out: while Main is a backup its      *)
(* detector always suspects a failure (Suspects).                          *)
(***************************************************************************)
EXTENDS Naturals

CONSTANTS
  Main, Standby,
  Operators     \* operators' goroutines on each server

Servers == {Main, Standby}
Callers == Operators \cup {"detector"}
Modes == {"primary", "backup"}
Threshold == 3      \* maxConsecutiveFailures

ASSUME FailoverAssumption == Main # Standby /\ Operators \cap {"detector", "none"} = {}

VARIABLES
  up,         \* the process runs
  reachable,  \* the network carries messages between the two
  \* heartbeats
  conn,       \* Main's peerConn is not nil
  served,     \* Standby's goroutine for that connection reads it
  ping,       \* a heartbeat is on its way
  alive,      \* Standby's peerAlive
  heard,      \* the age of Standby's lastPeerTime against the timeouts
  \* per server: the failover service
  fMode,      \* FailoverService.currentMode
  failures,   \* consecutiveFailures of the detector
  asked,      \* per caller: the switch it is in, from its call to its return
  holder,     \* the caller that holds the service's modeMux
  \* per server: the backup manager
  mode,       \* BackupManagerImpl.currentMode
  called,     \* the callback has set mode, the services are not adjusted yet
  jammed,     \* modeMux is held for ever
  sender,     \* syncService # nil
  receiver    \* syncReceiver: nil, listening, or one whose listener failed

vars == <<up, reachable, conn, served, ping, alive, heard, fMode, failures, asked,
          holder, mode, called, jammed, sender, receiver>>

hearing == <<alive, heard>>
link == <<conn, served, ping>>
switching == <<asked, holder, called>>
services == <<sender, receiver>>
manager == <<mode, jammed, services>>

Configured(s) == IF s = Main THEN "primary" ELSE "backup"
Receivers == {"none", "listening", "failed"}
Ages == {"never", "recent", "late"}

SenderIn_Always(m) == TRUE
SenderIn(m) == m = "primary"

Init ==
  /\ up = [s \in Servers |-> TRUE] /\ reachable = TRUE
  /\ conn = FALSE /\ served = FALSE /\ ping = FALSE
  /\ alive = FALSE /\ heard = "never"
  /\ fMode = [s \in Servers |-> Configured(s)]
  /\ failures = [s \in Servers |-> 0]
  /\ asked = [s \in Servers |-> [c \in Callers |-> "none"]]
  /\ holder = [s \in Servers |-> "none"]
  /\ mode = [s \in Servers |-> Configured(s)]
  /\ called = [s \in Servers |-> FALSE]
  /\ jammed = [s \in Servers |-> FALSE]
  /\ sender = [s \in Servers |-> SenderIn(Configured(s))]
  /\ receiver = [s \in Servers |-> IF s = Main THEN "none" ELSE "listening"]

-----------------------------------------------------------------------------
(* Heartbeats                                                              *)

\* The listener of the other side takes a connection whenever its process runs.
Accepts == up[Standby] /\ reachable

Connect ==
  /\ up[Main] /\ ~conn /\ Accepts
  /\ conn' = TRUE /\ served' = TRUE
  /\ UNCHANGED <<up, reachable, ping, hearing, fMode, failures, switching, manager>>

\* A write to a connection nobody serves succeeds for a while, without effect.
Delivers == served /\ reachable

SendHeartbeat ==
  /\ up[Main] /\ conn /\ Delivers
  /\ ping' = TRUE
  /\ UNCHANGED <<up, reachable, conn, served, hearing, fMode, failures, switching,
                 manager>>

\* The write fails: closeConnection, and the connection manager dials again.
Closed_NotReset == conn
Closed == FALSE

SendFails ==
  /\ up[Main] /\ conn
  /\ ~Delivers
  /\ conn' = Closed
  /\ UNCHANGED <<up, reachable, served, ping, hearing, fMode, failures, switching,
                 manager>>

\* A heartbeat that is read in one piece.
Arrived == served /\ ping

ReceiveHeartbeat ==
  /\ up[Standby] /\ Arrived
  /\ ping' = FALSE
  /\ alive' = TRUE /\ heard' = "recent"
  /\ UNCHANGED <<up, reachable, conn, served, fMode, failures, switching, manager>>

\* The read deadline passes, the connection is closed, or a heartbeat that arrived in
\* pieces cannot be decoded.
HandlerEnds ==
  /\ up[Standby] /\ served
  /\ served' = FALSE /\ ping' = FALSE
  /\ UNCHANGED <<up, reachable, conn, hearing, fMode, failures, switching, manager>>

\* Three heartbeat intervals, which is also DetectionTimeout, pass.
Elapse ==
  /\ heard = "recent" /\ heard' = "late"
  /\ UNCHANGED <<up, reachable, link, alive, fMode, failures, switching, manager>>

CheckHeartbeat ==
  /\ up[Standby] /\ heard = "late" /\ alive
  /\ alive' = FALSE
  /\ UNCHANGED <<up, reachable, link, heard, fMode, failures, switching, manager>>

-----------------------------------------------------------------------------
(* The failover service                                                    *)

\* DetectFailure.  Standby's service was built without a synchronisation service;
\* Main's asks the one it was built with, which a demotion has stopped.
Suspects_Alive(s) == s = Main \/ (alive /\ heard = "late")
Suspects(s) == s = Main \/ (~alive /\ heard = "late")

\* consecutiveFailures after a tick.
Counted(s) == IF Suspects(s) /\ failures[s] + 1 < Threshold THEN failures[s] + 1 ELSE 0

\* The detector's goroutine runs SwitchToPrimary itself.
Detect(s) ==
  /\ up[s] /\ fMode[s] = "backup" /\ asked[s]["detector"] = "none"
  /\ failures' = [failures EXCEPT ![s] = Counted(s)]
  /\ asked' = IF Suspects(s) /\ failures[s] + 1 >= Threshold
              THEN [asked EXCEPT ![s]["detector"] = "primary"] ELSE asked
  /\ UNCHANGED <<up, reachable, link, hearing, fMode, holder, called, manager>>

\* SwitchToPrimary and SwitchToBackup take modeMux; a switch to the present mode is
\* refused.
BeginSwitch(s, c) ==
  /\ up[s] /\ asked[s][c] # "none" /\ holder[s] = "none"
  /\ IF fMode[s] = asked[s][c]
     THEN /\ asked' = [asked EXCEPT ![s][c] = "none"]
          /\ UNCHANGED holder
     ELSE /\ holder' = [holder EXCEPT ![s] = c]
          /\ UNCHANGED asked
  /\ UNCHANGED <<up, reachable, link, hearing, fMode, failures, called, manager>>

\* onModeSwitch first sets the manager's mode under the manager's modeMux.
OnModeSwitch(s) ==
  /\ up[s] /\ holder[s] # "none" /\ ~called[s]
  /\ ~jammed[s]
  /\ mode' = [mode EXCEPT ![s] = asked[s][holder[s]]]
  /\ called' = [called EXCEPT ![s] = TRUE]
  /\ UNCHANGED <<up, reachable, link, hearing, fMode, failures, asked, holder, jammed,
                 services>>

\* What SwitchToPrimary and SwitchToBackup leave in currentMode; an error of the
\* callback returns early.
Concluded_Old(s, ok) == fMode[s]
Concluded(s, ok) == IF ok THEN asked[s][holder[s]] ELSE fMode[s]

NewReceiver(ok) == IF ok THEN "listening" ELSE "failed"

\* The rest of the callback and of the switch.  A receiver that is not nil is taken
\* to listen; a new one listens on the configured address, which may be in use or,
\* on Main, the other server's.
AdjustServices(s) ==
  /\ up[s] /\ called[s]
  /\ \E ok \in BOOLEAN :
       /\ asked[s][holder[s]] = "primary" \/ receiver[s] # "none" => ok
       /\ sender' = [sender EXCEPT ![s] = SenderIn(asked[s][holder[s]])]
       /\ receiver' = [receiver EXCEPT ![s] =
            IF asked[s][holder[s]] = "primary" THEN "none"
            ELSE IF receiver[s] = "none" THEN NewReceiver(ok) ELSE receiver[s]]
       /\ fMode' = [fMode EXCEPT ![s] = Concluded(s, ok)]
  /\ called' = [called EXCEPT ![s] = FALSE]
  /\ asked' = [asked EXCEPT ![s][holder[s]] = "none"]
  /\ holder' = [holder EXCEPT ![s] = "none"]
  /\ UNCHANGED <<up, reachable, link, hearing, failures, mode, jammed>>

-----------------------------------------------------------------------------
(* The operators                                                           *)

\* TriggerFailover reads the manager's mode without its mutex.
TriggerFailover(s, o) ==
  /\ up[s] /\ asked[s][o] = "none"
  /\ asked' = [asked EXCEPT ![s][o] = IF mode[s] = "backup" THEN "primary" ELSE "backup"]
  /\ UNCHANGED <<up, reachable, link, hearing, fMode, failures, holder, called, manager>>

\* SwitchMode to the other mode logs getModeString, which waits for the mutex that
\* SwitchMode holds.
SwitchMode(s) ==
  /\ up[s] /\ ~jammed[s]
  /\ jammed' = [jammed EXCEPT ![s] = TRUE]
  /\ UNCHANGED <<up, reachable, link, hearing, fMode, failures, switching, mode,
                 services>>

-----------------------------------------------------------------------------
(* The environment                                                         *)

NetworkChanges ==
  /\ reachable' = ~reachable
  /\ UNCHANGED <<up, link, hearing, fMode, failures, switching, manager>>

\* The process ends, by a crash or by Stop; nothing is persisted.
Crash(s) ==
  /\ up[s]
  /\ up' = [up EXCEPT ![s] = FALSE]
  /\ conn' = (conn /\ s # Main)
  /\ served' = (served /\ s # Standby)
  /\ ping' = (ping /\ s # Standby)
  /\ alive' = (alive /\ s # Standby)
  /\ heard' = IF s = Standby THEN "never" ELSE heard
  /\ fMode' = [fMode EXCEPT ![s] = Configured(s)]
  /\ failures' = [failures EXCEPT ![s] = 0]
  /\ asked' = [asked EXCEPT ![s] = [c \in Callers |-> "none"]]
  /\ holder' = [holder EXCEPT ![s] = "none"]
  /\ mode' = [mode EXCEPT ![s] = Configured(s)]
  /\ called' = [called EXCEPT ![s] = FALSE]
  /\ jammed' = [jammed EXCEPT ![s] = FALSE]
  /\ sender' = [sender EXCEPT ![s] = FALSE]
  /\ receiver' = [receiver EXCEPT ![s] = "none"]
  /\ UNCHANGED reachable

\* BackupManagerImpl.Start
StartServer(s) ==
  /\ ~up[s]
  /\ up' = [up EXCEPT ![s] = TRUE]
  /\ sender' = [sender EXCEPT ![s] = SenderIn(Configured(s))]
  /\ receiver' = [receiver EXCEPT ![s] = IF s = Main THEN "none" ELSE "listening"]
  /\ UNCHANGED <<reachable, link, hearing, fMode, failures, switching, mode, jammed>>

-----------------------------------------------------------------------------
Heartbeats ==
  Connect \/ SendHeartbeat \/ SendFails \/ ReceiveHeartbeat \/ HandlerEnds \/ Elapse
  \/ CheckHeartbeat

Switch(s) == (\E c \in Callers : BeginSwitch(s, c)) \/ OnModeSwitch(s) \/ AdjustServices(s)

Next ==
  \/ Heartbeats
  \/ \E s \in Servers : Detect(s) \/ Switch(s) \/ SwitchMode(s) \/ Crash(s) \/ StartServer(s)
  \/ \E s \in Servers, o \in Operators : TriggerFailover(s, o)
  \/ NetworkChanges

Spec == Init /\ [][Next]_vars

\* Tickers fire and goroutines go on.  Of all connections to a server that is up, not
\* every one ends before its first heartbeat, which is due within a third of the read
\* deadline, nor does every heartbeat arrive in pieces.  Time passes while a server that
\* is down sends nothing.
Fairness ==
  /\ WF_vars(Connect) /\ WF_vars(SendFails)
  /\ SF_vars(SendHeartbeat) /\ SF_vars(ReceiveHeartbeat)
  /\ WF_vars(CheckHeartbeat)
  /\ WF_vars(~up[Main] /\ ~ping /\ Elapse)
  /\ \A s \in Servers : WF_vars(Detect(s)) /\ WF_vars(Switch(s))

FairSpec == Spec /\ Fairness

-----------------------------------------------------------------------------
(* Properties                                                              *)

\* Types, and the detector's counter below its threshold.
TypeOK ==
  /\ up \in [Servers -> BOOLEAN] /\ reachable \in BOOLEAN
  /\ conn \in BOOLEAN /\ served \in BOOLEAN /\ ping \in BOOLEAN
  /\ alive \in BOOLEAN /\ heard \in Ages
  /\ fMode \in [Servers -> Modes] /\ mode \in [Servers -> Modes]
  /\ failures \in [Servers -> 0..(Threshold - 1)]
  /\ asked \in [Servers -> [Callers -> Modes \cup {"none"}]]
  /\ holder \in [Servers -> Callers \cup {"none"}]
  /\ called \in [Servers -> BOOLEAN] /\ jammed \in [Servers -> BOOLEAN]
  /\ sender \in [Servers -> BOOLEAN] /\ receiver \in [Servers -> Receivers]

\* The failover service and the manager keep a mode each, set under different mutexes.
\* They differ only in the middle of a switch, or when the receiver of a demotion
\* could not listen.
ModesAgree ==
  \A s \in Servers :
    mode[s] # fMode[s] => called[s] \/ (mode[s] = "backup" /\ receiver[s] = "failed")

\* Outside a switch a server synchronises in the direction of the manager's mode and
\* in no other: a primary sends, a backup has a receiver.
ServicesMatch ==
  \A s \in Servers : up[s] /\ ~called[s] =>
    /\ sender[s] <=> mode[s] = "primary"
    /\ receiver[s] = "none" <=> mode[s] = "primary"

\* When Main goes down for good, a Standby that has heard it becomes primary, in spite
\* of partitions and operators, except when SwitchMode has jammed its manager.
Takeover ==
  (up[Standby] /\ ~up[Main] /\ heard # "never")
    ~> (fMode[Standby] = "primary" \/ up[Main] \/ ~up[Standby] \/ jammed[Standby])

\* After crashes and partitions the heartbeats resume.
HeartbeatsResume ==
  <>[](up[Main] /\ up[Standby] /\ reachable) => []<>alive

=============================================================================
