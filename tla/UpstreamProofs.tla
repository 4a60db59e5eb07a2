--------------------------- MODULE UpstreamProofs ---------------------------
(***************************************************************************)
(* TLAPS proofs about Upstream, for any number of sessions, users, servers *)
(* and requests.                                                           *)
(***************************************************************************)
EXTENDS Upstream, FiniteSetTheorems, TLAPS

-----------------------------------------------------------------------------
(* The inductive invariant.                                                *)

\* A session nobody connected has done nothing and nobody goes on with it.
FreshIsUnknown ==
  \A s \in Sessions : state[s] = "none" =>
    /\ maxSeq[s] = 0 /\ root[s] = NoSession /\ s \notin open
    /\ \A t \in Sessions : root[t] # s
    /\ \A c \in Calls : c[1] = s => act[c] = "none"

\* A request was asked for under a number its session has reached, and goes nowhere before; only a
\* broadcast calls back.
RequestsAreAsked ==
  \A c \in Calls :
    /\ act[c] # "none" => act[c] \in Asked[c[1]] /\ c[2] <= maxSeq[c[1]]
    /\ act[c] = "none" => gw[c] = "none"
    /\ gw[c] \in {"none", "get", "create"} => srv[c] = "none"
    /\ srv[c] = "casting" => act[c] = "broadcast"

\* Past the pool a request has its client.
ClientIsThere ==
  \A c \in Calls : gw[c] \in {"wait", "failed", "done"} => Server(c) \in clients

\* The index names sessions of the right user.
UsersMatch ==
  \A u \in Users : byUID[u] # NoSession => UserOf[byUID[u]] = u

-----------------------------------------------------------------------------
(* Data                                                                    *)

LEMMA CallParts ==
  ASSUME NEW c \in Calls
  PROVE  c[1] \in Sessions /\ c[2] \in 1..MaxSeq /\ c = <<c[1], c[2]>>
  BY DEF Calls

LEMMA CallsFinite == IsFiniteSet(Calls)
<1>1. IsFiniteSet(1..MaxSeq)
  BY FS_Interval, UpstreamAssumption
<1> QED
  BY <1>1, FS_Product, UpstreamAssumption DEF Calls

\* The server of a request that was asked for.
LEMMA ServerKnown ==
  ASSUME RequestsAreAsked, NEW c \in Calls, act[c] # "none"
  PROVE  Server(c) \in Servers
  BY CallParts, UpstreamAssumption DEF RequestsAreAsked, Server

\* A request the service is working on is counted.
LEMMA WorkingCounted ==
  ASSUME RequestsAreAsked, CallsCounted, NEW c \in Calls, srv[c] \in {"arrived", "casting"}
  PROVE  Server(c) \in Servers /\ active[Server(c)] \in Nat \ {0}
<1> DEFINE W == {d \in Calls : InService(Server(c), d)}
<1>1. Server(c) \in Servers
  BY ServerKnown DEF RequestsAreAsked
<1>2. c \in W
  BY DEF InService
<1>3. IsFiniteSet(W)
  BY CallsFinite, FS_Subset
<1>4. Cardinality(W) \in Nat /\ Cardinality(W) # 0
  BY <1>2, <1>3, FS_CardinalityType, FS_EmptySet
<1> QED
  BY <1>1, <1>4 DEF CallsCounted

LEMMA RepliesType ==
  ASSUME TypeOK, RequestsAreAsked, CallsCounted, NEW c \in Calls,
         NEW from \in {"arrived", "casting"}, Replies(c, from)
  PROVE  /\ srv' \in [Calls -> {"none", "arrived", "casting", "replied", "lost"}]
         /\ active' \in [Servers -> Nat]
<1>1. Server(c) \in Servers /\ active[Server(c)] \in Nat \ {0}
  BY WorkingCounted DEF Replies
<1>2. srv' \in [Calls -> {"none", "arrived", "casting", "replied", "lost"}]
  BY DEF Replies, TypeOK
<1>3. Left(c) \in Nat
  BY <1>1 DEF Left
<1>4. active' \in [Servers -> Nat]
  BY <1>1, <1>3 DEF Replies, TypeOK
<1> QED
  BY <1>2, <1>4

\* A push names its request, its user and its service.
LEMMA PushType ==
  ASSUME RequestsAreAsked, TypeOK, NEW c \in Calls, srv[c] = "arrived", NEW hint \in Timed \cup {"gid"}
  PROVE  Push(c, hint) \subseteq Pushes
<1>1. Server(c) \in Servers
  BY ServerKnown DEF RequestsAreAsked
<1>2. c[1] \in Sessions /\ c[2] \in 1..MaxSeq
  BY CallParts
<1>3. UserOf[c[1]] \in Users
  BY <1>2, UpstreamAssumption
<1>4. [user |-> UserOf[c[1]], hint |-> hint, seq |-> c[2], from |-> c, by |-> Server(c)] \in Pushes
  BY <1>1, <1>2, <1>3 DEF Pushes
<1> QED
  BY <1>4 DEF Push, TypeOK

LEMMA TypeStep == TypeOK /\ RequestsAreAsked /\ CallsCounted /\ [Next]_vars => TypeOK'
<1> SUFFICES ASSUME TypeOK, RequestsAreAsked, CallsCounted, [Next]_vars
             PROVE  TypeOK'
  OBVIOUS
<1> USE DEF sessionVars, notifyVars, callVars, poolVars, tableVars
<1>1. ASSUME NEW s \in Sessions, Reconnect(s)
      PROVE  TypeOK'
  <2> DEFINE old == byUID[UserOf[s]]
  <2>1. UserOf[s] \in Users /\ old \in Sessions /\ state[old] \in {"none", "inited", "normal"}
    BY <1>1, UpstreamAssumption DEF Reconnect, TypeOK
  <2>2. /\ maxSeq[old] \in 0..MaxSeq
        /\ root[old] \in Sessions \cup {NoSession}
    BY <2>1 DEF TypeOK
  <2> QED
    BY <1>1, <2>1, <2>2 DEF Reconnect, InheritedSeq, outsideSessions, TypeOK
<1>2. ASSUME NEW s \in Sessions, Connect(s)
      PROVE  TypeOK'
  BY <1>2 DEF Connect, outsideSessions, TypeOK
<1>3. ASSUME NEW s \in Sessions, RemoveSession(s)
      PROVE  TypeOK'
  BY <1>3 DEF RemoveSession, outsideSessions, TypeOK
<1>4. ASSUME NEW s \in Sessions, NEW n \in 1..MaxSeq, NEW a \in Asked[s], Request(s, n, a)
      PROVE  TypeOK'
  <2>1. <<s, n>> \in Calls /\ a \in Actions
    BY UpstreamAssumption DEF Calls
  <2> QED
    BY <1>4, <2>1 DEF Request, TypeOK
<1>5. ASSUME NEW c \in Calls, GetClient(c)
      PROVE  TypeOK'
  BY <1>5 DEF GetClient, outsideCall, TypeOK
<1>6. ASSUME NEW c \in Calls, CreateClient(c)
      PROVE  TypeOK'
  <2>1. Server(c) \in Servers
    BY <1>6, ServerKnown DEF CreateClient, RequestsAreAsked
  <2> QED
    BY <1>6, <2>1 DEF CreateClient, Dial, outsideCall, TypeOK
<1>7. ASSUME NEW c \in Calls, CallFails(c)
      PROVE  TypeOK'
  BY <1>7 DEF CallFails, outsideCall, TypeOK
<1>8. ASSUME NEW c \in Calls, Respond(c)
      PROVE  TypeOK'
  <2>1. c[1] \in Sessions
    BY CallParts
  <2>2. /\ state' \in [Sessions -> {"none", "inited", "normal"}]
        /\ gw' \in [Calls -> {"none", "get", "create", "wait", "failed", "done"}]
    BY <1>8, <2>1 DEF Respond, TypeOK
  <2>3. bound' \in [Sessions -> SUBSET Pushes]
    BY <1>8, <2>1 DEF Respond, TypeOK
  <2>4. delivered' \subseteq [notify : Pushes, with : Calls]
    BY <1>8, <2>1 DEF Respond, TypeOK
  <2> QED
    BY <1>8, <2>2, <2>3, <2>4 DEF Respond, TypeOK
<1>9. ASSUME NEW c \in Calls, Arrive(c)
      PROVE  TypeOK'
  <2>1. Server(c) \in Servers
    BY <1>9, ServerKnown DEF Arrive, RequestsAreAsked
  <2> QED
    BY <1>9, <2>1 DEF Arrive, outsideServer, TypeOK
<1>10. ASSUME NEW c \in Calls, HandleLogin(c)
      PROVE  TypeOK'
  <2>1. Server(c) \in Servers /\ c[1] \in Sessions /\ UserOf[c[1]] \in Users
    BY <1>10, ServerKnown, CallParts, UpstreamAssumption DEF HandleLogin, Replies, RequestsAreAsked
  <2> QED
    BY <1>10, <2>1, RepliesType DEF HandleLogin, Recorded, outsideServer, TypeOK
<1>11. ASSUME NEW c \in Calls, HandleLogout(c)
      PROVE  TypeOK'
  <2>1. Server(c) \in Servers /\ c[1] \in Sessions /\ UserOf[c[1]] \in Users
    BY <1>11, ServerKnown, CallParts, UpstreamAssumption DEF HandleLogout, Replies, RequestsAreAsked
  <2> QED
    BY <1>11, <2>1, RepliesType DEF HandleLogout, outsideServer, TypeOK
<1>12. ASSUME NEW c \in Calls, HandleQuery(c)
      PROVE  TypeOK'
  BY <1>12, RepliesType DEF HandleQuery, outsideServer, TypeOK
<1>13. ASSUME NEW c \in Calls, HandleEcho(c)
      PROVE  TypeOK'
  <2>1. Push(c, "gid") \subseteq Pushes
    BY <1>13, PushType DEF HandleEcho, Replies
  <2> QED
    BY <1>13, <2>1, RepliesType DEF HandleEcho, outsideServer, TypeOK
<1>14. ASSUME NEW c \in Calls, HandleTimed(c)
      PROVE  TypeOK'
  <2>1. Push(c, act[c]) \subseteq Pushes
    BY <1>14, PushType DEF HandleTimed, Replies
  <2> QED
    BY <1>14, <2>1, RepliesType DEF HandleTimed, outsideServer, TypeOK
<1>15. ASSUME NEW c \in Calls, HandleBroadcast(c)
      PROVE  TypeOK'
  <2>1. CASE Replies(c, "arrived") /\ UNCHANGED cast
    BY <1>15, <2>1, RepliesType DEF HandleBroadcast, outsideServer, TypeOK
  <2>2. CASE srv' = [srv EXCEPT ![c] = "casting"] /\ AskCast(c) /\ UNCHANGED active
    <3>1. c \in Broadcasters
      BY DEF Broadcasters
    <3> QED
      BY <1>15, <2>2, <3>1 DEF HandleBroadcast, AskCast, NoCast, outsideServer, TypeOK
  <2> QED
    BY <1>15, <2>1, <2>2 DEF HandleBroadcast
<1>16. ASSUME NEW c \in Calls, BroadcastReturns(c)
      PROVE  TypeOK'
  BY <1>16, RepliesType DEF BroadcastReturns, outsideServer, TypeOK
<1>17. ASSUME NEW t \in Services, Preconnect(t)
      PROVE  TypeOK'
  <2>1. ServerOf[t] \in Servers
    BY UpstreamAssumption
  <2> QED
    BY <1>17, <2>1 DEF Preconnect, Dial, outsideCall, TypeOK
<1>18. ASSUME NEW v \in Servers, Tick(v)
      PROVE  TypeOK'
  BY <1>18 DEF Tick, AskCast, NoCast, Broadcasters, outsideServer, TypeOK
<1>19. ASSUME NEW v \in Servers, Restart(v)
      PROVE  TypeOK'
  <2>1. loggedIn' \in [Servers -> [Users -> Sessions \cup {NoSession}]]
    BY <1>19 DEF Restart, TypeOK
  <2>2. forgotten' \in [Servers -> SUBSET Users]
    BY <1>19 DEF Restart, Online, TypeOK
  <2>3. srv' \in [Calls -> {"none", "arrived", "casting", "replied", "lost"}]
    BY <1>19 DEF Restart, TypeOK
  <2>4. /\ active' \in [Servers -> Nat] /\ pushes' \subseteq Pushes
        /\ restarts' \in 0..MaxRestarts
    BY <1>19, UpstreamAssumption DEF Restart, TypeOK
  <2> QED
    BY <1>19, <2>1, <2>2, <2>3, <2>4 DEF Restart, TypeOK
<1>20. ASSUME NEW p \in pushes, PushToClient(p)
      PROVE  TypeOK'
  BY <1>20 DEF PushToClient, outsidePush, TypeOK
<1>21. ASSUME NEW p \in pushes, PushFails(p)
      PROVE  TypeOK'
  BY <1>21 DEF PushFails, outsidePush, TypeOK
<1>22. ASSUME NEW b \in Broadcasters, BeginBroadcast(b)
      PROVE  TypeOK'
  BY <1>22 DEF BeginBroadcast, outsideCast, TypeOK
<1>23. ASSUME NEW b \in Broadcasters, EndBroadcast(b)
      PROVE  TypeOK'
  BY <1>23 DEF EndBroadcast, NoCast, outsideCast, TypeOK
<1>24. ASSUME NEW b \in Broadcasters, NEW s \in Sessions, BroadcastTo(b, s)
      PROVE  TypeOK'
  <2>1. /\ cast[b] \in [at : {"idle", "asked", "sending"}, todo : SUBSET Sessions,
                      sent : SUBSET Sessions, steady : SUBSET Sessions]
        /\ Rest(b, s) \subseteq Sessions
    BY DEF Rest, TypeOK
  <2>2. cast' \in [Broadcasters -> [at : {"idle", "asked", "sending"}, todo : SUBSET Sessions,
                                    sent : SUBSET Sessions, steady : SUBSET Sessions]]
    BY <1>24, <2>1 DEF BroadcastTo, TypeOK
  <2> QED
    BY <1>24, <2>2 DEF BroadcastTo, outsideCast, TypeOK
<1>25. CASE UNCHANGED vars
  BY <1>25 DEF vars, TypeOK
<1> QED
  BY <1>1, <1>2, <1>3, <1>4, <1>5, <1>6, <1>7, <1>8, <1>9, <1>10, <1>11, <1>12, <1>13, <1>14,
     <1>15, <1>16, <1>17, <1>18, <1>19, <1>20, <1>21, <1>22, <1>23, <1>24, <1>25
  DEF Next, Service, Broadcast

\* A session's next number has not been used.
LEMMA RequestUnasked ==
  ASSUME TypeOK, RequestsAreAsked, NEW s \in Sessions, NEW n \in 1..MaxSeq, InSequence(s, n)
  PROVE  <<s, n>> \in Calls /\ act[<<s, n>>] = "none" /\ gw[<<s, n>>] = "none" /\ srv[<<s, n>>] = "none"
<1>1. <<s, n>> \in Calls
  BY DEF Calls
<1>2. maxSeq[s] \in Nat /\ ~(n <= maxSeq[s])
  BY DEF InSequence, TypeOK
<1>3. act[<<s, n>>] # "none" => n <= maxSeq[s]
  BY <1>1 DEF RequestsAreAsked
<1> QED
  BY <1>1, <1>2, <1>3 DEF RequestsAreAsked

-----------------------------------------------------------------------------
(* Requests and the pool                                                   *)

LEMMA AskedStep == TypeOK /\ FreshIsUnknown /\ RequestsAreAsked /\ [Next]_vars => RequestsAreAsked'
<1> SUFFICES ASSUME TypeOK, FreshIsUnknown, RequestsAreAsked, [Next]_vars
             PROVE  RequestsAreAsked'
  OBVIOUS
<1> USE DEF sessionVars, notifyVars, callVars, poolVars, tableVars
<1>1. ASSUME NEW s \in Sessions, Reconnect(s) \/ Connect(s) \/ RemoveSession(s)
      PROVE  RequestsAreAsked'
  <2>1. UNCHANGED <<act, gw, srv>>
    BY <1>1 DEF Reconnect, Connect, RemoveSession, outsideSessions
  <2>2. \A c \in Calls : act[c] # "none" => maxSeq'[c[1]] = maxSeq[c[1]]
    BY <1>1, CallParts
    DEF Reconnect, Connect, RemoveSession, outsideSessions, FreshIsUnknown, TypeOK
  <2> QED
    BY <2>1, <2>2 DEF RequestsAreAsked
<1>2. ASSUME NEW s \in Sessions, NEW n \in 1..MaxSeq, NEW a \in Asked[s], Request(s, n, a)
      PROVE  RequestsAreAsked'
  <2>1. <<s, n>> \in Calls
    BY DEF Calls
  <2>2. maxSeq' = [maxSeq EXCEPT ![s] = n] /\ maxSeq[s] <= n
    BY <1>2 DEF Request, InSequence, TypeOK
  <2>3. /\ act' = [act EXCEPT ![<<s, n>>] = a] /\ gw' = [gw EXCEPT ![<<s, n>>] = "get"]
        /\ UNCHANGED srv
    BY <1>2 DEF Request
  <2>4. ASSUME NEW c \in Calls
        PROVE  /\ act'[c] # "none" => act'[c] \in Asked[c[1]] /\ c[2] <= maxSeq'[c[1]]
               /\ act'[c] = "none" => gw'[c] = "none"
               /\ gw'[c] \in {"none", "get", "create"} => srv'[c] = "none"
               /\ srv'[c] = "casting" => act'[c] = "broadcast"
    <3>1. CASE c = <<s, n>>
      <4>1. InSequence(s, n)
        BY <1>2 DEF Request
      <4>2. act'[c] = a /\ gw'[c] = "get" /\ srv'[c] = "none" /\ c[1] = s /\ c[2] = n /\ maxSeq'[s] = n
        BY <2>1, <2>2, <2>3, <3>1, <4>1, RequestUnasked DEF TypeOK
      <4>3. a # "none"
        BY UpstreamAssumption DEF Actions, Logins, Queries, Timed
      <4> QED
        BY <4>2, <4>3
    <3>2. CASE c # <<s, n>>
      <4>1. maxSeq[c[1]] \in Nat /\ maxSeq'[c[1]] \in Nat /\ maxSeq[c[1]] <= maxSeq'[c[1]]
        BY <2>2, CallParts DEF TypeOK
      <4>2. c[2] \in Nat
        BY CallParts
      <4> QED
        BY <2>1, <2>3, <3>2, <4>1, <4>2 DEF RequestsAreAsked, TypeOK
    <3> QED
      BY <3>1, <3>2
  <2> QED
    BY <2>4 DEF RequestsAreAsked
<1>3. ASSUME NEW c \in Calls, GetClient(c) \/ CreateClient(c) \/ CallFails(c) \/ Respond(c)
      PROVE  RequestsAreAsked'
  BY <1>3 DEF GetClient, CreateClient, CallFails, Respond, outsideCall, RequestsAreAsked, TypeOK
<1>4. ASSUME NEW c \in Calls, Arrive(c) \/ Service(c)
      PROVE  RequestsAreAsked'
  <2>1. /\ srv[c] # "none" \/ gw[c] \in {"wait", "failed"}
        /\ \E r \in {"arrived", "casting", "replied"} :
             srv' = [srv EXCEPT ![c] = r] /\ (r = "casting" => act[c] = "broadcast")
        /\ UNCHANGED <<maxSeq, act, gw>>
    BY <1>4 DEF Arrive, Service, HandleLogin, HandleLogout, HandleQuery, HandleEcho, HandleTimed,
                HandleBroadcast, BroadcastReturns, Replies, outsideServer
  <2> QED
    BY <2>1 DEF RequestsAreAsked, TypeOK
<1>5. ASSUME NEW v \in Servers, Restart(v)
      PROVE  RequestsAreAsked'
  <2>1. \A c \in Calls : srv'[c] = srv[c] \/ (srv[c] # "none" /\ srv'[c] = "lost")
    BY <1>5 DEF Restart, InService
  <2> QED
    BY <1>5, <2>1 DEF Restart, RequestsAreAsked
<1>6. CASE UNCHANGED <<maxSeq, act, gw, srv>>
  BY <1>6 DEF RequestsAreAsked
<1> QED
  BY <1>1, <1>2, <1>3, <1>4, <1>5, <1>6
  DEF Next, vars, Preconnect, Tick, PushToClient, PushFails, Broadcast, BeginBroadcast,
      EndBroadcast, BroadcastTo, outsideCall, outsideServer, outsidePush, outsideCast

LEMMA FreshStep ==
  TypeOK /\ FreshIsUnknown /\ UsersMatch /\ [Next]_vars
    => FreshIsUnknown' /\ UsersMatch'
<1> SUFFICES ASSUME TypeOK, FreshIsUnknown, UsersMatch, [Next]_vars
             PROVE  FreshIsUnknown' /\ UsersMatch'
  OBVIOUS
<1> USE DEF sessionVars, notifyVars, callVars, poolVars, tableVars
<1>1. ASSUME NEW s \in Sessions, Reconnect(s)
      PROVE  FreshIsUnknown' /\ UsersMatch'
  <2> DEFINE old == byUID[UserOf[s]]
  <2>1. UserOf[s] \in Users /\ old \in open /\ old \in Sessions /\ UserOf[old] = UserOf[s]
    BY <1>1, UpstreamAssumption DEF Reconnect, TypeOK, UsersMatch
  <2>2. state[old] # "none" /\ state[s] = "none" /\ root[old] # s
    BY <1>1, <2>1 DEF Reconnect, FreshIsUnknown
  <2>3. /\ state' = [state EXCEPT ![s] = state[old]] /\ root' = [root EXCEPT ![s] = root[old]]
        /\ \A t \in Sessions : t # s => maxSeq'[t] = maxSeq[t]
        /\ open' = (open \ {old}) \cup {s}
        /\ byUID' = [byUID EXCEPT ![UserOf[s]] = s]
        /\ act' = act
    BY <1>1 DEF Reconnect, outsideSessions, TypeOK
  <2>4. FreshIsUnknown'
    <3>1. ASSUME NEW t \in Sessions, state'[t] = "none"
          PROVE  t # s /\ state[t] = "none" /\ root[old] # t
      BY <2>1, <2>2, <2>3, <3>1 DEF TypeOK, FreshIsUnknown
    <3> QED
      BY <2>1, <2>3, <3>1 DEF FreshIsUnknown, TypeOK
  <2>5. UsersMatch'
    BY <2>1, <2>3 DEF UsersMatch, TypeOK
  <2> QED
    BY <2>4, <2>5
<1>2. ASSUME NEW s \in Sessions, Connect(s)
      PROVE  FreshIsUnknown' /\ UsersMatch'
  <2>1. UserOf[s] \in Users
    BY UpstreamAssumption
  <2> QED
    BY <1>2, <2>1 DEF Connect, outsideSessions, FreshIsUnknown, UsersMatch, TypeOK
<1>3. ASSUME NEW s \in Sessions, RemoveSession(s)
      PROVE  FreshIsUnknown' /\ UsersMatch'
  BY <1>3, UpstreamAssumption DEF RemoveSession, outsideSessions, FreshIsUnknown, UsersMatch, TypeOK
<1>4. ASSUME NEW s \in Sessions, NEW n \in 1..MaxSeq, NEW a \in Asked[s], Request(s, n, a)
      PROVE  FreshIsUnknown' /\ UsersMatch'
  <2>1. state[s] # "none"
    BY <1>4 DEF Request, FreshIsUnknown
  <2>2. /\ \A t \in Sessions : t # s => maxSeq'[t] = maxSeq[t]
        /\ \A c \in Calls : c[1] # s => act'[c] = act[c]
    BY <1>4 DEF Request, TypeOK, Calls
  <2> QED
    BY <1>4, <2>1, <2>2 DEF Request, FreshIsUnknown, UsersMatch
<1>5. ASSUME NEW c \in Calls, Respond(c)
      PROVE  FreshIsUnknown' /\ UsersMatch'
  <2>1. \A t \in Sessions : state'[t] = "none" => state[t] = "none"
    BY <1>5, CallParts DEF Respond, TypeOK
  <2> QED
    BY <1>5, <2>1 DEF Respond, FreshIsUnknown, UsersMatch
<1>6. CASE UNCHANGED <<sessionVars, act>>
  BY <1>6 DEF FreshIsUnknown, UsersMatch
<1> QED
  BY <1>1, <1>2, <1>3, <1>4, <1>5, <1>6
  DEF Next, vars, GetClient, CreateClient, CallFails, Arrive, Preconnect, Tick, Restart,
      Service, HandleLogin, HandleLogout, HandleQuery, HandleEcho, HandleTimed, HandleBroadcast,
      BroadcastReturns, PushToClient, PushFails, Broadcast, BeginBroadcast,
      EndBroadcast, BroadcastTo, outsideCall, outsideServer, outsidePush, outsideCast

LEMMA PoolStep ==
  TypeOK /\ RequestsAreAsked /\ ClientIsThere /\ OneConnection /\ [Next]_vars
    => ClientIsThere' /\ OneConnection'
<1> SUFFICES ASSUME TypeOK, RequestsAreAsked, ClientIsThere, OneConnection, [Next]_vars
             PROVE  ClientIsThere' /\ OneConnection'
  OBVIOUS
<1> USE DEF sessionVars, notifyVars, callVars, poolVars, tableVars
<1>1. ASSUME NEW s \in Sessions, NEW n \in 1..MaxSeq, NEW a \in Asked[s], Request(s, n, a)
      PROVE  ClientIsThere' /\ OneConnection'
  <2>1. <<s, n>> \in Calls /\ srv[<<s, n>>] = "none"
    BY <1>1, RequestUnasked DEF Request
  <2>2. \A c \in Calls : c # <<s, n>> => Server(c)' = Server(c) /\ gw'[c] = gw[c]
    BY <1>1, <2>1 DEF Request, Server, TypeOK
  <2>3. gw'[<<s, n>>] = "get" /\ UNCHANGED <<srv, clients, connections>>
    BY <1>1, <2>1 DEF Request, TypeOK
  <2> QED
    BY <2>1, <2>2, <2>3 DEF ClientIsThere, OneConnection
<1>2. ASSUME NEW v \in Servers, Dial(v), UNCHANGED <<act, srv>>,
             \A c \in Calls : gw'[c] = gw[c] \/ (gw'[c] = "wait" /\ Server(c) = v)
      PROVE  ClientIsThere' /\ OneConnection'
  <2>1. /\ clients' = clients \cup {v}
        /\ connections' = [connections EXCEPT ![v] = IF v \notin clients THEN @ + 1 ELSE @]
    BY <1>2 DEF Dial, Dials, Cached
  <2>2. \A c \in Calls : Server(c)' = Server(c)
    BY <1>2 DEF Server
  <2>3. ClientIsThere'
    BY <1>2, <2>1, <2>2 DEF ClientIsThere
  <2>4. OneConnection'
    BY <1>2, <2>1, <2>2 DEF OneConnection, TypeOK
  <2> QED
    BY <2>3, <2>4
<1>3. ASSUME NEW c \in Calls, CreateClient(c)
      PROVE  ClientIsThere' /\ OneConnection'
  <2>1. Server(c) \in Servers
    BY <1>3, ServerKnown DEF CreateClient, RequestsAreAsked
  <2> QED
    BY <1>2, <1>3, <2>1 DEF CreateClient, outsideCall, TypeOK
<1>4. ASSUME NEW t \in Services, Preconnect(t)
      PROVE  ClientIsThere' /\ OneConnection'
  <2>1. ServerOf[t] \in Servers
    BY UpstreamAssumption
  <2>2. CASE Dial(ServerOf[t])
    BY <1>2, <1>4, <2>1, <2>2 DEF Preconnect, outsideCall
  <2>3. CASE UNCHANGED <<clients, connections>>
    BY <1>4, <2>3 DEF Preconnect, outsideCall, ClientIsThere, OneConnection, Server
  <2> QED
    BY <1>4, <2>2, <2>3 DEF Preconnect
<1>5. ASSUME NEW c \in Calls, GetClient(c) \/ CallFails(c) \/ Respond(c)
      PROVE  ClientIsThere' /\ OneConnection'
  BY <1>5 DEF GetClient, Cached, CallFails, Respond, outsideCall, ClientIsThere, OneConnection,
              Server, TypeOK
<1>6. ASSUME NEW c \in Calls, Arrive(c) \/ Service(c)
      PROVE  ClientIsThere' /\ OneConnection'
  <2>1. /\ gw[c] \in {"wait", "failed", "done"} \/ srv[c] # "none"
        /\ \E r \in {"arrived", "casting", "replied"} : srv' = [srv EXCEPT ![c] = r]
        /\ UNCHANGED <<act, gw, clients, connections>>
    BY <1>6 DEF Arrive, Service, HandleLogin, HandleLogout, HandleQuery, HandleEcho, HandleTimed,
                HandleBroadcast, BroadcastReturns, Replies, outsideServer
  <2> QED
    BY <2>1 DEF ClientIsThere, OneConnection, Server, TypeOK
<1>7. ASSUME NEW v \in Servers, Restart(v)
      PROVE  ClientIsThere' /\ OneConnection'
  <2>1. \A c \in Calls : srv[c] = "none" => srv'[c] = "none"
    BY <1>7 DEF Restart, InService
  <2> QED
    BY <1>7, <2>1 DEF Restart, ClientIsThere, OneConnection, Server
<1>8. CASE UNCHANGED <<callVars, clients, connections>>
  BY <1>8 DEF ClientIsThere, OneConnection, Server
<1> QED
  BY <1>1, <1>3, <1>4, <1>5, <1>6, <1>7, <1>8
  DEF Next, vars, Reconnect, Connect, RemoveSession, Tick, PushToClient, PushFails, Broadcast,
      BeginBroadcast, EndBroadcast, BroadcastTo, outsideSessions, outsideServer, outsidePush,
      outsideCast

-----------------------------------------------------------------------------
(* The count of active calls                                               *)

LEMMA CountStep ==
  TypeOK /\ RequestsAreAsked /\ CallsCounted /\ [Next]_vars => CallsCounted'
<1> SUFFICES ASSUME TypeOK, RequestsAreAsked, CallsCounted, [Next]_vars
             PROVE  CallsCounted'
  OBVIOUS
<1> USE DEF sessionVars, notifyVars, callVars, poolVars, tableVars
<1> DEFINE W(v) == {c \in Calls : InService(v, c)}
<1>0. \A v \in Servers : IsFiniteSet(W(v)) /\ Cardinality(W(v)) = active[v] /\ active[v] \in Nat
  BY CallsFinite, FS_Subset DEF CallsCounted, TypeOK
<1>1. ASSUME NEW s \in Sessions, NEW n \in 1..MaxSeq, NEW a \in Asked[s], Request(s, n, a)
      PROVE  CallsCounted'
  <2>1. <<s, n>> \in Calls /\ srv[<<s, n>>] = "none" /\ UNCHANGED <<srv, active>>
    BY <1>1, RequestUnasked DEF Request
  <2>2. \A c \in Calls : c # <<s, n>> => act'[c] = act[c]
    BY <1>1, <2>1 DEF Request, TypeOK
  <2>3. \A v \in Servers : W(v)' = W(v)
    BY <2>1, <2>2 DEF InService, Server
  <2> QED
    BY <2>1, <2>3 DEF CallsCounted
<1>2. ASSUME NEW c \in Calls, Arrive(c)
      PROVE  CallsCounted'
  <2>1. Server(c) \in Servers
    BY <1>2, ServerKnown DEF Arrive, RequestsAreAsked
  <2>2. /\ srv[c] = "none" /\ srv' = [srv EXCEPT ![c] = "arrived"]
        /\ active' = [active EXCEPT ![Server(c)] = @ + 1] /\ UNCHANGED act
    BY <1>2 DEF Arrive, outsideServer
  <2>3. \A v \in Servers : W(v)' = IF v = Server(c) THEN W(v) \cup {c} ELSE W(v)
    BY <2>2 DEF InService, Server, TypeOK
  <2>4. c \notin W(Server(c))
    BY <2>2 DEF InService
  <2>5. Cardinality(W(Server(c)) \cup {c}) = Cardinality(W(Server(c))) + 1
    BY <1>0, <2>1, <2>4, FS_AddElement
  <2> QED
    BY <1>0, <2>1, <2>2, <2>3, <2>5 DEF CallsCounted, TypeOK
<1>3. ASSUME NEW c \in Calls, Replies(c, "arrived") \/ Replies(c, "casting"), UNCHANGED act
      PROVE  CallsCounted'
  <2>1. Server(c) \in Servers /\ active[Server(c)] \in Nat \ {0}
    BY <1>3, WorkingCounted DEF Replies
  <2>2. /\ srv[c] \in {"arrived", "casting"} /\ srv' = [srv EXCEPT ![c] = "replied"]
        /\ active' = [active EXCEPT ![Server(c)] = @ - 1] /\ UNCHANGED act
    BY <1>3 DEF Replies, Left
  <2>3. \A v \in Servers : W(v)' = IF v = Server(c) THEN W(v) \ {c} ELSE W(v)
    BY <2>2 DEF InService, Server, TypeOK
  <2>4. c \in W(Server(c))
    BY <2>2 DEF InService
  <2>5. Cardinality(W(Server(c)) \ {c}) = Cardinality(W(Server(c))) - 1
    BY <1>0, <2>1, <2>4, FS_RemoveElement
  <2> QED
    BY ZenonT(60), <1>0, <2>1, <2>2, <2>3, <2>5 DEF CallsCounted, TypeOK
<1>4. ASSUME NEW c \in Calls, Service(c)
      PROVE  CallsCounted'
  <2>1. CASE Replies(c, "arrived") \/ Replies(c, "casting")
    BY <1>3, <1>4, <2>1
    DEF Service, HandleLogin, HandleLogout, HandleQuery, HandleEcho, HandleTimed,
        HandleBroadcast, BroadcastReturns, outsideServer
  <2>2. CASE ~(Replies(c, "arrived") \/ Replies(c, "casting"))
    <3>1. /\ srv[c] = "arrived" /\ srv' = [srv EXCEPT ![c] = "casting"]
          /\ UNCHANGED <<act, active>>
      BY <1>4, <2>2
      DEF Service, HandleLogin, HandleLogout, HandleQuery, HandleEcho, HandleTimed,
          HandleBroadcast, BroadcastReturns, outsideServer
    <3>2. \A v \in Servers : W(v)' = W(v)
      BY <3>1 DEF InService, Server, TypeOK
    <3> QED
      BY <3>1, <3>2 DEF CallsCounted
  <2> QED
    BY <2>1, <2>2
<1>5. ASSUME NEW v \in Servers, Restart(v)
      PROVE  CallsCounted'
  <2>1. /\ active' = [active EXCEPT ![v] = 0] /\ UNCHANGED act
        /\ srv' = [c \in Calls |-> IF InService(v, c) THEN "lost" ELSE srv[c]]
    BY <1>5 DEF Restart
  <2>2. \A u \in Servers : W(u)' = IF u = v THEN {} ELSE W(u)
    BY <2>1 DEF InService, Server
  <2> QED
    BY <1>0, <2>1, <2>2, FS_EmptySet DEF CallsCounted, TypeOK
<1>6. CASE UNCHANGED <<act, srv, active>>
  <2>1. \A v \in Servers : W(v)' = W(v)
    BY <1>6 DEF InService, Server
  <2> QED
    BY <1>6, <2>1 DEF CallsCounted
<1> QED
  BY <1>1, <1>2, <1>4, <1>5, <1>6
  DEF Next, vars, Reconnect, Connect, RemoveSession, GetClient, CreateClient, CallFails, Respond,
      Preconnect, Tick, PushToClient, PushFails, Broadcast, BeginBroadcast, EndBroadcast,
      BroadcastTo, outsideSessions, outsideCall, outsideServer, outsidePush, outsideCast

-----------------------------------------------------------------------------
(* Logins                                                                  *)

\* The users a service has recorded or forgotten.
Known(v) == Online(v) \cup forgotten[v]

\* The service has recorded who it answers, and the gateway activates nobody before.
LoginsAreKnown ==
  LET v == ServerOf["hello"] IN
  /\ \A c \in Calls : srv[c] = "replied" /\ act[c] = "hello" => UserOf[c[1]] \in Known(v)
  /\ \A s \in Sessions : state[s] = "normal" => UserOf[s] \in Known(v)

LEMMA KnownGrows ==
  ASSUME TypeOK, RequestsAreAsked, [Next]_vars, NEW v \in Servers
  PROVE  Known(v) \subseteq Known(v)'
<1> USE DEF sessionVars, notifyVars, callVars, poolVars, tableVars
<1>1. ASSUME NEW c \in Calls, HandleLogin(c)
      PROVE  Known(v) \subseteq Known(v)'
  <2>1. Server(c) \in Servers /\ c[1] \in Sessions /\ UserOf[c[1]] \in Users
    BY <1>1, ServerKnown, CallParts, UpstreamAssumption
    DEF HandleLogin, Replies, RequestsAreAsked
  <2> QED
    BY <1>1, <2>1, UpstreamAssumption DEF HandleLogin, Recorded, Known, Online, TypeOK
<1>2. ASSUME NEW c \in Calls, HandleLogout(c)
      PROVE  Known(v) \subseteq Known(v)'
  <2>1. Server(c) \in Servers /\ c[1] \in Sessions /\ UserOf[c[1]] \in Users
    BY <1>2, ServerKnown, CallParts, UpstreamAssumption
    DEF HandleLogout, Replies, RequestsAreAsked
  <2> QED
    BY <1>2, <2>1 DEF HandleLogout, Known, Online, TypeOK
<1>3. ASSUME NEW w \in Servers, Restart(w)
      PROVE  Known(v) \subseteq Known(v)'
  BY <1>3 DEF Restart, Known, Online, TypeOK
<1>4. CASE UNCHANGED tableVars
  BY <1>4 DEF Known, Online
<1> QED
  BY <1>1, <1>2, <1>3, <1>4
  DEF Next, vars, Reconnect, Connect, RemoveSession, Request, GetClient, CreateClient, CallFails,
      Respond, Arrive, Preconnect, Tick, Service, HandleQuery, HandleEcho, HandleTimed,
      HandleBroadcast, BroadcastReturns, PushToClient, PushFails, Broadcast, BeginBroadcast,
      EndBroadcast, BroadcastTo, outsideSessions, outsideCall, outsideServer, outsidePush,
      outsideCast

LEMMA LoginStep ==
  TypeOK /\ RequestsAreAsked /\ UsersMatch /\ LoginsAreKnown /\ [Next]_vars => LoginsAreKnown'
<1> SUFFICES ASSUME TypeOK, RequestsAreAsked, UsersMatch, LoginsAreKnown, [Next]_vars
             PROVE  LoginsAreKnown'
  OBVIOUS
<1> USE DEF sessionVars, notifyVars, callVars, poolVars, tableVars
<1> DEFINE v == ServerOf["hello"]
<1>0. v \in Servers /\ Known(v) \subseteq Known(v)'
  BY KnownGrows, UpstreamAssumption
<1>1. ASSUME NEW s \in Sessions, Reconnect(s) \/ Connect(s) \/ RemoveSession(s)
      PROVE  LoginsAreKnown'
  <2>1. \A t \in Sessions : state'[t] = "normal" => UserOf[t] \in Known(v)
    BY <1>1, UpstreamAssumption
    DEF Reconnect, Connect, RemoveSession, UsersMatch, LoginsAreKnown, TypeOK
  <2>2. UNCHANGED <<act, srv>>
    BY <1>1 DEF Reconnect, Connect, RemoveSession, outsideSessions
  <2> QED
    BY <1>0, <2>1, <2>2 DEF LoginsAreKnown
<1>2. ASSUME NEW s \in Sessions, NEW n \in 1..MaxSeq, NEW a \in Asked[s], Request(s, n, a)
      PROVE  LoginsAreKnown'
  <2>1. <<s, n>> \in Calls /\ srv[<<s, n>>] = "none" /\ UNCHANGED <<srv, state>>
    BY <1>2, RequestUnasked DEF Request
  <2>2. \A c \in Calls : srv[c] = "replied" => act'[c] = act[c]
    BY <1>2, <2>1 DEF Request, TypeOK
  <2> QED
    BY <1>0, <2>1, <2>2 DEF LoginsAreKnown
<1>3. ASSUME NEW c \in Calls, Respond(c)
      PROVE  LoginsAreKnown'
  <2>1. c[1] \in Sessions /\ srv[c] = "replied" /\ UNCHANGED <<act, srv>>
    BY <1>3, CallParts DEF Respond
  <2>2. \A t \in Sessions :
          state'[t] = "normal" => state[t] = "normal" \/ (t = c[1] /\ act[c] = "hello")
    BY <1>3, <2>1 DEF Respond, TypeOK
  <2> QED
    BY <1>0, <2>1, <2>2 DEF LoginsAreKnown
<1>4. ASSUME NEW c \in Calls, HandleLogin(c)
      PROVE  LoginsAreKnown'
  <2>1. c[1] \in Sessions /\ UserOf[c[1]] \in Users
    BY CallParts, UpstreamAssumption
  <2>2. act[c] = "hello" => Server(c) = v
    BY DEF Server, determineUpstreamService
  <2>3. act[c] = "hello" => UserOf[c[1]] \in Known(v)'
    BY <1>0, <1>4, <2>1, <2>2, UpstreamAssumption DEF HandleLogin, Recorded, Known, Online, TypeOK
  <2>4. /\ \A d \in Calls : srv'[d] = "replied" => srv[d] = "replied" \/ d = c
        /\ UNCHANGED <<act, state>>
    BY <1>4 DEF HandleLogin, Replies, outsideServer, TypeOK
  <2> QED
    BY <1>0, <2>3, <2>4 DEF LoginsAreKnown
<1>5. ASSUME \A d \in Calls : srv'[d] = "replied" => srv[d] = "replied" \/ act[d] # "hello",
             UNCHANGED <<act, state>>
      PROVE  LoginsAreKnown'
  BY <1>0, <1>5 DEF LoginsAreKnown
<1>6. ASSUME NEW c \in Calls, Service(c) /\ ~HandleLogin(c)
      PROVE  LoginsAreKnown'
  <2>1. act[c] = "hello" => srv'[c] # "replied"
    BY <1>6 DEF Service, HandleLogout, HandleQuery, HandleEcho, HandleTimed, HandleBroadcast,
                BroadcastReturns, Replies, Queries, Timed, Logins, RequestsAreAsked
  <2> QED
    BY <1>5, <1>6, <2>1 DEF Service, HandleLogout, HandleQuery, HandleEcho, HandleTimed,
                HandleBroadcast, BroadcastReturns, Replies, outsideServer, TypeOK
<1>7. CASE \E c \in Calls : Arrive(c)
  BY <1>5, <1>7 DEF Arrive, outsideServer, TypeOK
<1>8. CASE \E w \in Servers : Restart(w)
  BY <1>5, <1>8 DEF Restart
<1>9. CASE UNCHANGED <<act, state, srv>>
  BY <1>5, <1>9
<1> QED
  BY <1>1, <1>2, <1>3, <1>4, <1>6, <1>7, <1>8, <1>9
  DEF Next, vars, GetClient, CreateClient, CallFails, Preconnect, Tick, PushToClient, PushFails,
      Broadcast, BeginBroadcast, EndBroadcast, BroadcastTo, outsideCall, outsideServer,
      outsidePush, outsideCast

-----------------------------------------------------------------------------
(* Broadcasts                                                              *)

\* Who had logged in when a broadcast began is logged in.
SteadyAreNormal ==
  \A b \in Broadcasters : \A s \in cast[b].steady : state[s] = "normal"

LEMMA NormalStays ==
  ASSUME TypeOK, [Next]_vars, NEW s \in Sessions, state[s] = "normal"
  PROVE  state'[s] = "normal"
<1> USE DEF sessionVars, notifyVars, callVars, poolVars, tableVars
<1>1. CASE \E t \in Sessions : Reconnect(t) \/ Connect(t)
  BY <1>1 DEF Reconnect, Connect, TypeOK
<1>2. ASSUME NEW c \in Calls, Respond(c)
      PROVE  state'[s] = "normal"
  BY <1>2, CallParts DEF Respond, TypeOK
<1>3. CASE UNCHANGED state
  BY <1>3
<1> QED
  BY <1>1, <1>2, <1>3
  DEF Next, vars, RemoveSession, Request, GetClient, CreateClient, CallFails, Arrive, Preconnect,
      Tick, Restart, Service, HandleLogin, HandleLogout, HandleQuery, HandleEcho, HandleTimed,
      HandleBroadcast, BroadcastReturns, PushToClient, PushFails, Broadcast, BeginBroadcast,
      EndBroadcast, BroadcastTo, outsideCall, outsideServer, outsidePush, outsideCast

LEMMA BroadcastStep ==
  TypeOK /\ SteadyAreNormal /\ BroadcastReachesAll /\ [Next]_vars
    => SteadyAreNormal' /\ BroadcastReachesAll'
<1> SUFFICES ASSUME TypeOK, SteadyAreNormal, BroadcastReachesAll, [Next]_vars
             PROVE  SteadyAreNormal' /\ BroadcastReachesAll'
  OBVIOUS
<1> USE DEF sessionVars, notifyVars, callVars, poolVars, tableVars
<1>0. /\ \A b \in Broadcasters : cast[b].steady \subseteq Sessions
      /\ \A s \in Sessions : state[s] = "normal" => state'[s] = "normal"
  BY NormalStays DEF TypeOK
<1>1. ASSUME NEW b \in Broadcasters, AskCast(b) \/ EndBroadcast(b), open' = open
      PROVE  SteadyAreNormal' /\ BroadcastReachesAll'
  <2>1. \A d \in Broadcasters : cast'[d] = cast[d] \/ (cast'[d].at # "sending" /\ cast'[d].steady = {})
    BY <1>1 DEF AskCast, EndBroadcast, NoCast, TypeOK
  <2> QED
    BY <1>0, <1>1, <2>1 DEF SteadyAreNormal, BroadcastReachesAll
<1>2. ASSUME NEW b \in Broadcasters, BeginBroadcast(b)
      PROVE  SteadyAreNormal' /\ BroadcastReachesAll'
  <2>1. /\ cast'[b].steady = {s \in open : state[s] = "normal"} /\ cast'[b].todo = open
        /\ \A d \in Broadcasters \ {b} : cast'[d] = cast[d]
        /\ UNCHANGED <<state, open>>
    BY <1>2 DEF BeginBroadcast, outsideCast, TypeOK
  <2> QED
    BY <2>1 DEF SteadyAreNormal, BroadcastReachesAll
<1>3. ASSUME NEW b \in Broadcasters, NEW s \in Sessions, BroadcastTo(b, s)
      PROVE  SteadyAreNormal' /\ BroadcastReachesAll'
  <2>1. /\ cast'[b].at = cast[b].at /\ cast'[b].steady = cast[b].steady
        /\ cast'[b].todo = cast[b].todo \ {s}
        /\ cast'[b].sent = IF state[s] = "normal" /\ s \in open
                           THEN cast[b].sent \cup {s} ELSE cast[b].sent
        /\ \A d \in Broadcasters \ {b} : cast'[d] = cast[d]
        /\ UNCHANGED <<state, open>>
    BY <1>3 DEF BroadcastTo, Rest, Receives, outsideCast, TypeOK
  <2> QED
    BY <2>1 DEF SteadyAreNormal, BroadcastReachesAll
<1>4. ASSUME NEW s \in Sessions, Reconnect(s) \/ Connect(s) \/ RemoveSession(s)
      PROVE  SteadyAreNormal' /\ BroadcastReachesAll'
  <2>1. UNCHANGED cast /\ \A t \in open' : t \in open \/ state[t] = "none"
    BY <1>4 DEF Reconnect, Connect, RemoveSession, outsideSessions
  <2> QED
    BY <1>0, <2>1 DEF SteadyAreNormal, BroadcastReachesAll
<1>5. CASE UNCHANGED <<cast, open>>
  BY <1>0, <1>5 DEF SteadyAreNormal, BroadcastReachesAll
<1>6. ASSUME NEW c \in Calls, HandleBroadcast(c)
      PROVE  SteadyAreNormal' /\ BroadcastReachesAll'
  BY <1>1, <1>5, <1>6 DEF HandleBroadcast, outsideServer, Broadcasters
<1>7. ASSUME NEW v \in Servers, Tick(v)
      PROVE  SteadyAreNormal' /\ BroadcastReachesAll'
  BY <1>1, <1>7 DEF Tick, outsideServer, Broadcasters
<1>8. ASSUME NEW b \in Broadcasters, EndBroadcast(b)
      PROVE  SteadyAreNormal' /\ BroadcastReachesAll'
  BY <1>1, <1>8 DEF EndBroadcast, outsideCast
<1> QED
  BY <1>2, <1>3, <1>4, <1>5, <1>6, <1>7, <1>8
  DEF Next, vars, Request, GetClient, CreateClient, CallFails, Respond, Arrive, Preconnect,
      Restart, Service, HandleLogin, HandleLogout, HandleQuery, HandleEcho, HandleTimed,
      BroadcastReturns, PushToClient, PushFails, Broadcast, outsideCall, outsideServer, outsidePush

-----------------------------------------------------------------------------
(* Notifies                                                                *)

\* Sessions that go on with the same numbers: one of them is open, it has reached every number
\* they used, and none of them used a number twice.
NumbersAreUnique ==
  /\ \A c, d \in Calls :
       act[c] # "none" /\ act[d] # "none" /\ root[c[1]] = root[d[1]] /\ c[2] = d[2] => c = d
  /\ \A s, t \in open : root[s] = root[t] => s = t
  /\ \A s \in open : \A c \in Calls :
       act[c] # "none" /\ root[c[1]] = root[s] => c[2] <= maxSeq[s]

\* A notify names the request it was made for.
Genuine(p) == act[p.from] # "none" /\ p.seq = p.from[2] /\ p.user = UserOf[p.from[1]]

NotifiesAreGenuine ==
  /\ \A p \in pushes : Genuine(p)
  /\ \A s \in Sessions : \A p \in bound[s] : Genuine(p) /\ p.user = UserOf[s]
  /\ \A d \in delivered :
       /\ Genuine(d.notify) /\ act[d.with] # "none"
       /\ d.with[2] = d.notify.seq /\ UserOf[d.with[1]] = d.notify.user

LEMMA NumbersStep ==
  TypeOK /\ FreshIsUnknown /\ RequestsAreAsked /\ NumbersAreUnique /\ [Next]_vars => NumbersAreUnique'
<1> SUFFICES ASSUME TypeOK, FreshIsUnknown, RequestsAreAsked, NumbersAreUnique, [Next]_vars
             PROVE  NumbersAreUnique'
  OBVIOUS
<1> USE DEF sessionVars, notifyVars, callVars, poolVars, tableVars
<1>1. ASSUME NEW s \in Sessions, Reconnect(s)
      PROVE  NumbersAreUnique'
  <2> DEFINE old == byUID[UserOf[s]]
  <2>1. old \in open /\ old \in Sessions /\ state[s] = "none" /\ s \notin open
    BY <1>1 DEF Reconnect, FreshIsUnknown, TypeOK
  <2>2. /\ root' = [root EXCEPT ![s] = root[old]] /\ maxSeq' = [maxSeq EXCEPT ![s] = maxSeq[old]]
        /\ open' = (open \ {old}) \cup {s} /\ UNCHANGED act
    BY <1>1 DEF Reconnect, InheritedSeq, outsideSessions
  <2>3. \A c \in Calls : act[c] # "none" => c[1] # s
    BY <2>1 DEF FreshIsUnknown
  <2>4. \A c \in Calls : act[c] # "none" => root'[c[1]] = root[c[1]]
    BY <2>2, <2>3, CallParts DEF TypeOK
  <2>5. /\ root'[s] = root[old] /\ maxSeq'[s] = maxSeq[old]
        /\ \A t \in open : t # s /\ root'[t] = root[t] /\ maxSeq'[t] = maxSeq[t]
    BY <2>1, <2>2 DEF TypeOK
  <2>6. \A t, u \in open' : root'[t] = root'[u] => t = u
    BY <2>1, <2>2, <2>5 DEF NumbersAreUnique
  <2>7. \A t \in open' : \A c \in Calls :
          act'[c] # "none" /\ root'[c[1]] = root'[t] => c[2] <= maxSeq'[t]
    BY <2>1, <2>2, <2>4, <2>5 DEF NumbersAreUnique
  <2>8. \A c, d \in Calls :
          act'[c] # "none" /\ act'[d] # "none" /\ root'[c[1]] = root'[d[1]] /\ c[2] = d[2] => c = d
    BY <2>2, <2>4 DEF NumbersAreUnique
  <2> QED
    BY <2>6, <2>7, <2>8 DEF NumbersAreUnique
<1>2. ASSUME NEW s \in Sessions, Connect(s)
      PROVE  NumbersAreUnique'
  <2>1. state[s] = "none" /\ s \notin open /\ \A t \in Sessions : root[t] # s
    BY <1>2 DEF Connect, FreshIsUnknown
  <2>2. root' = [root EXCEPT ![s] = s] /\ open' = open \cup {s} /\ UNCHANGED <<act, maxSeq>>
    BY <1>2 DEF Connect, outsideSessions
  <2>3. \A c \in Calls : act[c] # "none" => c[1] # s
    BY <2>1 DEF FreshIsUnknown
  <2>4. \A c \in Calls : act[c] # "none" => root'[c[1]] = root[c[1]] /\ root[c[1]] # s
    BY <2>1, <2>2, <2>3, CallParts DEF TypeOK
  <2>5. /\ root'[s] = s
        /\ \A t \in open : t # s /\ root'[t] = root[t] /\ root[t] # s
    BY <2>1, <2>2 DEF TypeOK
  <2> QED
    BY <2>2, <2>4, <2>5 DEF NumbersAreUnique
<1>3. ASSUME NEW s \in Sessions, RemoveSession(s)
      PROVE  NumbersAreUnique'
  BY <1>3 DEF RemoveSession, outsideSessions, NumbersAreUnique
<1>4. ASSUME NEW s \in Sessions, NEW n \in 1..MaxSeq, NEW a \in Asked[s], Request(s, n, a)
      PROVE  NumbersAreUnique'
  <2>1. <<s, n>> \in Calls /\ s \in open /\ maxSeq[s] \in Nat /\ maxSeq[s] < n
    BY <1>4, RequestUnasked DEF Request, InSequence, TypeOK
  <2>2. /\ maxSeq' = [maxSeq EXCEPT ![s] = n] /\ act' = [act EXCEPT ![<<s, n>>] = a]
        /\ UNCHANGED <<root, open>>
    BY <1>4 DEF Request
  <2>3. /\ maxSeq'[s] = n /\ \A t \in Sessions \ {s} : maxSeq'[t] = maxSeq[t]
        /\ \A c \in Calls : c # <<s, n>> => act'[c] = act[c]
    BY <2>1, <2>2 DEF TypeOK
  <2>4. ASSUME NEW c \in Calls, act'[c] # "none", c # <<s, n>>, root[c[1]] = root[s]
        PROVE  c[2] \in Nat /\ c[2] <= maxSeq[s] /\ c[2] < n
    BY <2>1, <2>3, <2>4, CallParts DEF NumbersAreUnique
  <2>5. \A c, d \in Calls :
          act'[c] # "none" /\ act'[d] # "none" /\ root'[c[1]] = root'[d[1]] /\ c[2] = d[2] => c = d
    <3> SUFFICES ASSUME NEW c \in Calls, NEW d \in Calls, act'[c] # "none", act'[d] # "none",
                        root[c[1]] = root[d[1]], c[2] = d[2]
                 PROVE  c = d
      BY <2>2
    <3>1. CASE c = <<s, n>>
      BY <2>4, <3>1
    <3>2. CASE d = <<s, n>>
      BY <2>4, <3>2
    <3>3. CASE c # <<s, n>> /\ d # <<s, n>>
      BY <2>3, <3>3 DEF NumbersAreUnique
    <3> QED
      BY <3>1, <3>2, <3>3
  <2>6. \A t \in open' : \A c \in Calls :
          act'[c] # "none" /\ root'[c[1]] = root'[t] => c[2] <= maxSeq'[t]
    <3> SUFFICES ASSUME NEW t \in open, NEW c \in Calls, act'[c] # "none", root[c[1]] = root[t]
                 PROVE  c[2] <= maxSeq'[t]
      BY <2>2
    <3>1. CASE t = s /\ c # <<s, n>>
      BY <2>3, <2>4, <3>1
    <3>2. CASE t # s /\ c # <<s, n>>
      BY <2>3, <3>2 DEF NumbersAreUnique, TypeOK
    <3>3. CASE c = <<s, n>>
      <4>1. t = s
        BY <2>1, <3>3 DEF NumbersAreUnique
      <4> QED
        BY <2>3, <3>3, <4>1
    <3> QED
      BY <3>1, <3>2, <3>3
  <2> QED
    BY <2>2, <2>5, <2>6 DEF NumbersAreUnique
<1>5. CASE UNCHANGED <<open, maxSeq, root, act>>
  BY <1>5 DEF NumbersAreUnique
<1> QED
  BY <1>1, <1>2, <1>3, <1>4, <1>5
  DEF Next, vars, GetClient, CreateClient, CallFails, Respond, Arrive, Preconnect, Tick, Restart,
      Service, HandleLogin, HandleLogout, HandleQuery, HandleEcho, HandleTimed, HandleBroadcast,
      BroadcastReturns, PushToClient, PushFails, Broadcast, BeginBroadcast, EndBroadcast,
      BroadcastTo, outsideCall, outsideServer, outsidePush, outsideCast

LEMMA NotifyStep ==
  TypeOK /\ FreshIsUnknown /\ RequestsAreAsked /\ UsersMatch /\ NotifiesAreGenuine /\ [Next]_vars
    => NotifiesAreGenuine'
<1> SUFFICES ASSUME TypeOK, FreshIsUnknown, RequestsAreAsked, UsersMatch, NotifiesAreGenuine, [Next]_vars
             PROVE  NotifiesAreGenuine'
  OBVIOUS
<1> USE DEF sessionVars, notifyVars, callVars, poolVars, tableVars
<1>0. \A c \in Calls : act[c] # "none" => act'[c] # "none"
  <2>1. ASSUME NEW s \in Sessions, NEW n \in 1..MaxSeq, NEW a \in Asked[s], Request(s, n, a)
        PROVE  \A c \in Calls : act[c] # "none" => act'[c] # "none"
    <3>1. a # "none" /\ <<s, n>> \in Calls
      BY UpstreamAssumption DEF Actions, Logins, Queries, Timed, Calls
    <3> QED
      BY <2>1, <3>1 DEF Request, TypeOK
  <2>2. CASE UNCHANGED act
    BY <2>2
  <2> QED
    BY <2>1, <2>2
    DEF Next, vars, Reconnect, Connect, RemoveSession, GetClient, CreateClient, CallFails, Respond,
        Arrive, Preconnect, Tick, Restart, Service, HandleLogin, HandleLogout, HandleQuery,
        HandleEcho, HandleTimed, HandleBroadcast, BroadcastReturns, PushToClient, PushFails,
        Broadcast, BeginBroadcast, EndBroadcast, BroadcastTo, outsideSessions, outsideCall,
        outsideServer, outsidePush, outsideCast
<1>1. \A p \in Pushes : Genuine(p) => Genuine(p)'
  BY <1>0 DEF Genuine, Pushes
<1>2. ASSUME NEW c \in Calls, Respond(c)
      PROVE  NotifiesAreGenuine'
  <2>1. c[1] \in Sessions /\ act[c] # "none" /\ UNCHANGED pushes
    BY <1>2, CallParts DEF Respond, RequestsAreAsked
  <2>2. \A s \in Sessions : bound'[s] \subseteq bound[s]
    BY <1>2, <2>1 DEF Respond, TypeOK
  <2>3. \A d \in delivered' :
          d \in delivered \/ \E p \in bound[c[1]] : p.seq = c[2] /\ d = [notify |-> p, with |-> c]
    BY <1>2 DEF Respond
  <2>4. ASSUME NEW d \in delivered'
        PROVE  (/\ Genuine(d.notify) /\ act[d.with] # "none"
                /\ d.with[2] = d.notify.seq /\ UserOf[d.with[1]] = d.notify.user)'
    <3>1. CASE d \in delivered
      BY <1>0, <1>1, <3>1 DEF NotifiesAreGenuine, TypeOK
    <3>2. ASSUME NEW p \in bound[c[1]], p.seq = c[2], d = [notify |-> p, with |-> c]
          PROVE  (/\ Genuine(d.notify) /\ act[d.with] # "none"
                  /\ d.with[2] = d.notify.seq /\ UserOf[d.with[1]] = d.notify.user)'
      BY <1>0, <1>1, <2>1, <3>2 DEF NotifiesAreGenuine, TypeOK
    <3> QED
      BY <2>3, <3>1, <3>2
  <2> QED
    BY <1>1, <2>1, <2>2, <2>4 DEF NotifiesAreGenuine, TypeOK
<1>3. ASSUME NEW c \in Calls, NEW hint \in Timed \cup {"gid"}, srv[c] = "arrived",
             pushes' \in {pushes, Push(c, hint)}, UNCHANGED notifyVars
      PROVE  NotifiesAreGenuine'
  <2>1. act[c] # "none"
    BY <1>3 DEF RequestsAreAsked
  <2>2. \A p \in Push(c, hint) : p \in pushes \/ Genuine(p)
    BY <2>1 DEF Push, Genuine
  <2>3. Push(c, hint) \subseteq Pushes
    BY <1>3, PushType
  <2> QED
    BY <1>0, <1>1, <1>3, <2>2, <2>3 DEF NotifiesAreGenuine, TypeOK
<1>4. ASSUME NEW c \in Calls, HandleEcho(c) \/ HandleTimed(c)
      PROVE  NotifiesAreGenuine'
  BY <1>3, <1>4 DEF HandleEcho, HandleTimed, Replies, outsideServer
<1>5. ASSUME NEW p \in pushes, PushToClient(p)
      PROVE  NotifiesAreGenuine'
  <2> DEFINE s == byUID[p.user]
  <2>1. p \in Pushes /\ p.user \in Users /\ Genuine(p)
    BY DEF TypeOK, Pushes, NotifiesAreGenuine
  <2>2. s # NoSession => s \in Sessions /\ UserOf[s] = p.user
    BY <2>1 DEF TypeOK, UsersMatch
  <2>3. \A t \in Sessions : bound'[t] \subseteq bound[t] \cup (IF t = s /\ s # NoSession THEN {p} ELSE {})
    BY <1>5, <2>2 DEF PushToClient, TypeOK
  <2>4. pushes' \subseteq pushes /\ UNCHANGED delivered
    BY <1>5 DEF PushToClient, outsidePush
  <2> QED
    BY <1>0, <1>1, <2>1, <2>2, <2>3, <2>4 DEF NotifiesAreGenuine, TypeOK
<1>6. CASE pushes' \subseteq pushes /\ UNCHANGED notifyVars
  BY <1>0, <1>1, <1>6 DEF NotifiesAreGenuine, TypeOK
<1> QED
  BY <1>2, <1>4, <1>5, <1>6
  DEF Next, vars, Reconnect, Connect, RemoveSession, Request, GetClient, CreateClient, CallFails,
      Arrive, Preconnect, Tick, Restart, Service, HandleLogin, HandleLogout, HandleQuery,
      HandleBroadcast, BroadcastReturns, PushFails, Broadcast, BeginBroadcast, EndBroadcast,
      BroadcastTo, outsideSessions, outsideCall, outsideServer, outsidePush, outsideCast

-----------------------------------------------------------------------------
(* The theorems                                                            *)

UpstreamInv ==
  /\ TypeOK /\ FreshIsUnknown /\ RequestsAreAsked /\ UsersMatch
  /\ ClientIsThere /\ OneConnection /\ CallsCounted /\ LoginsAreKnown
  /\ SteadyAreNormal /\ BroadcastReachesAll /\ NumbersAreUnique /\ NotifiesAreGenuine

LEMMA InitInv == Init => UpstreamInv
<1> SUFFICES ASSUME Init
             PROVE  UpstreamInv
  OBVIOUS
<1> USE UpstreamAssumption DEF Init
<1>1. TypeOK
  BY DEF TypeOK, NoCast
<1>2. FreshIsUnknown /\ RequestsAreAsked /\ UsersMatch
  BY CallParts DEF FreshIsUnknown, RequestsAreAsked, UsersMatch
<1>3. ClientIsThere /\ OneConnection
  BY DEF ClientIsThere, OneConnection
<1>4. CallsCounted
  <2>1. \A v \in Servers : {c \in Calls : InService(v, c)} = {}
    BY DEF InService
  <2> QED
    BY <2>1, FS_EmptySet DEF CallsCounted
<1>5. LoginsAreKnown
  BY DEF LoginsAreKnown
<1>6. SteadyAreNormal /\ BroadcastReachesAll
  BY DEF SteadyAreNormal, BroadcastReachesAll, NoCast
<1>7. NumbersAreUnique /\ NotifiesAreGenuine
  BY DEF NumbersAreUnique, NotifiesAreGenuine
<1> QED
  BY <1>1, <1>2, <1>3, <1>4, <1>5, <1>6, <1>7 DEF UpstreamInv

LEMMA NextInv == UpstreamInv /\ [Next]_vars => UpstreamInv'
  BY TypeStep, FreshStep, AskedStep, PoolStep, CountStep, LoginStep, BroadcastStep, NumbersStep,
     NotifyStep
  DEF UpstreamInv

\* What every theorem below takes its property from.
THEOREM InvariantHolds == Spec => []UpstreamInv
<1>1. Init => UpstreamInv
  BY InitInv
<1>2. UpstreamInv /\ [Next]_vars => UpstreamInv'
  BY NextInv
<1> QED
  BY <1>1, <1>2, PTL DEF Spec

\* The types of the variables; that a service's count never falls below zero needs the
\* rest of the invariant.
THEOREM TypeCorrect == Spec => []TypeOK
<1>1. UpstreamInv => TypeOK
  BY DEF UpstreamInv
<1> QED
  BY <1>1, InvariantHolds, PTL

\* However many requests and preconnections look for a client at once, createClient opens one
\* connection to an endpoint.
THEOREM ClientsAreShared == Spec => []OneConnection
<1>1. UpstreamInv => OneConnection
  BY DEF UpstreamInv
<1> QED
  BY <1>1, InvariantHolds, PTL

\* The interceptor's count is the number of calls in the service, whoever has given them up.
THEOREM CountIsExact == Spec => []CallsCounted
<1>1. UpstreamInv => CallsCounted
  BY DEF UpstreamInv
<1> QED
  BY <1>1, InvariantHolds, PTL

\* ActivateSession never activates the session of a user the service has not recorded.
THEOREM LoginsAreRecorded == Spec => []ActivatedIsKnown
<1>1. UpstreamInv => ActivatedIsKnown
  BY DEF UpstreamInv, LoginsAreKnown, ActivatedIsKnown, Known
<1> QED
  BY <1>1, InvariantHolds, PTL

\* BroadcastToClients misses nobody who was there all the time.
THEOREM BroadcastIsComplete == Spec => []BroadcastReachesAll
<1>1. UpstreamInv => BroadcastReachesAll
  BY DEF UpstreamInv
<1> QED
  BY <1>1, InvariantHolds, PTL

\* A notify that is bound through byUID goes with the response of the request it was made for,
\* over any number of replacements of the user's session.
THEOREM NotifiesFindTheirResponse == Spec => []NotifyWithItsResponse
<1>1. UpstreamInv => NotifyWithItsResponse
  <2> SUFFICES ASSUME UpstreamInv, NEW d \in delivered
               PROVE  /\ UserOf[d.with[1]] = d.notify.user
                      /\ root[d.with[1]] = root[d.notify.from[1]] => d.with = d.notify.from
    BY DEF NotifyWithItsResponse
  <2>1. d.with \in Calls /\ d.notify.from \in Calls
    BY DEF UpstreamInv, TypeOK, Pushes
  <2>2. /\ act[d.with] # "none" /\ act[d.notify.from] # "none"
        /\ d.with[2] = d.notify.from[2] /\ UserOf[d.with[1]] = d.notify.user
    BY DEF UpstreamInv, NotifiesAreGenuine, Genuine
  <2> QED
    BY <2>1, <2>2 DEF UpstreamInv, NumbersAreUnique
<1> QED
  BY <1>1, InvariantHolds, PTL

====
