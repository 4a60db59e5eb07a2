------------------------------ MODULE Upstream ------------------------------
(***************************************************************************)
(* The gateway and the upstream services behind it: routing and the pool   *)
(* of client connections (gateway/upstream_routerold.go,                   *)
(* upstream/manager.go), the demo service that implements them all         *)
(* (upstream/server.go, unicast_client.go), and the calls it makes back to *)
(* the gateway (gateway/unicast_service.go).                               *)
(*                                                                         *)
(* A request of a session goes through the pool to the service its action  *)
(* is routed to.  The service keeps the users who logged in there, answers *)
(* at once, and pushes: a notify bound to a response from a goroutine that *)
(* the answer does not wait for, a broadcast to every session of the       *)
(* gateway on demand or by a ticker.  Meanwhile sessions are replaced and  *)
(* stopped, calls time out at the gateway while the service still works on *)
(* them, and services restart.  The steps of a worker around its response  *)
(* are those of RequestFlow, the ones of the index those of SessionIndex.  *)
(***************************************************************************)
EXTENDS Naturals, FiniteSets

CONSTANTS
  Sessions, Users, UserOf,
  NoSession,
  Servers,      \* endpoints, with one demo service each
  Services,     \* the service types configured
  ServerOf,     \* their first addresses
  Asked,        \* bound: the actions each session asks for
  MaxSeq,       \* bound: sequence number of a request
  MaxCalls,     \* bound: requests
  MaxRestarts   \* bound

Logins == {"hello", "login"}                \* also auth and signin
Queries == {"status", "time", "user_list"}  \* also heartbeat, calculate, and what is unknown
Timed == {"before", "after"}
Actions == Logins \cup Queries \cup Timed \cup {"logout", "broadcast", "echo"}

determineUpstreamService(a) ==
  CASE a \in {"hello", "logout", "status"} -> "hello"
    [] a \in {"echo", "time"} -> "zone"
    [] OTHER -> "business"

\* Every action that is asked for is routed to a service that is configured.
ASSUME UpstreamAssumption ==
  /\ IsFiniteSet(Sessions) /\ NoSession \notin Sessions /\ UserOf \in [Sessions -> Users]
  /\ ServerOf \in [Services -> Servers] /\ "hello" \in Services
  /\ Asked \in [Sessions -> SUBSET Actions]
  /\ \A s \in Sessions : \A a \in Asked[s] : determineUpstreamService(a) \in Services
  /\ MaxSeq \in Nat /\ MaxCalls \in Nat /\ MaxRestarts \in Nat

Calls == Sessions \X (1..MaxSeq)
Broadcasters == Servers \cup Calls   \* the ticker of a server, or a request for it
Pushes == [user : Users, hint : Timed \cup {"gid"}, seq : 1..MaxSeq, from : Calls, by : Servers]

VARIABLES
  \* the gateway's sessions
  state, maxSeq,
  open,        \* sessions in the index, which are not closed
  byUID,       \* sessionsByUID
  root,        \* history: the session whose numbers a session goes on with
  bound,       \* the notifies bound at a session's responses
  delivered,   \* history: notifies sent, each with the response it went with
  \* requests
  act,         \* the action asked for
  gw,          \* the gateway's side of a call
  srv,         \* the service's side of it
  \* the pool
  clients,     \* endpoints with a client
  connections, \* connections opened, per endpoint
  dialing,     \* service types whose preconnecting goroutine found no client
  \* the services
  loggedIn,    \* loggedInUsers: the session each user logged in from
  forgotten,   \* history: users a logout or a restart removed since they logged in
  active,      \* activeConnections
  pushes,      \* push goroutines
  cast,        \* BroadcastToClients, at most one for each broadcaster
  restarts

sessionVars == <<state, maxSeq, open, byUID, root>>
notifyVars == <<bound, delivered>>
callVars == <<act, gw, srv>>
poolVars == <<clients, connections, dialing>>
tableVars == <<loggedIn, forgotten>>
vars == <<sessionVars, notifyVars, callVars, poolVars, tableVars, active, pushes, cast,
          restarts>>

NoCast == [at |-> "idle", todo |-> {}, sent |-> {}, steady |-> {}]

Init ==
  /\ state = [s \in Sessions |-> "none"] /\ maxSeq = [s \in Sessions |-> 0]
  /\ open = {} /\ byUID = [u \in Users |-> NoSession]
  /\ root = [s \in Sessions |-> NoSession]
  /\ bound = [s \in Sessions |-> {}] /\ delivered = {}
  /\ act = [c \in Calls |-> "none"] /\ gw = [c \in Calls |-> "none"]
  /\ srv = [c \in Calls |-> "none"]
  /\ clients = {} /\ connections = [v \in Servers |-> 0] /\ dialing = {}
  /\ loggedIn = [v \in Servers |-> [u \in Users |-> NoSession]]
  /\ forgotten = [v \in Servers |-> {}]
  /\ active = [v \in Servers |-> 0] /\ pushes = {}
  /\ cast = [b \in Broadcasters |-> NoCast]
  /\ restarts = 0

-----------------------------------------------------------------------------
(* Sessions                                                                *)

outsideSessions == <<notifyVars, callVars, poolVars, tableVars, active, pushes, cast, restarts>>

InheritedSeq_None(old) == 0
InheritedSeq(old) == maxSeq[old]

\* The first message of a connection takes over the session of its user, if that one is still
\* in the index: its state, and the number its requests had reached.
Reconnect(s) ==
  LET old == byUID[UserOf[s]]
  IN /\ state[s] = "none" /\ old \in open
     /\ state' = [state EXCEPT ![s] = state[old]]
     /\ maxSeq' = [maxSeq EXCEPT ![s] = InheritedSeq(old)]
     /\ root' = [root EXCEPT ![s] = root[old]]
     /\ open' = (open \ {old}) \cup {s}
     /\ byUID' = [byUID EXCEPT ![UserOf[s]] = s]
     /\ UNCHANGED outsideSessions

\* Otherwise it is a new session; one that was idle for a minute stays beside it.
Connect(s) ==
  /\ state[s] = "none"
  /\ state' = [state EXCEPT ![s] = "inited"]
  /\ root' = [root EXCEPT ![s] = s]
  /\ open' = open \cup {s}
  /\ byUID' = [byUID EXCEPT ![UserOf[s]] = s]
  /\ UNCHANGED <<maxSeq, outsideSessions>>

\* STOP removes the user's entry, whichever session it names; expiry leaves it.
RemoveSession(s) ==
  /\ s \in open
  /\ open' = open \ {s}
  /\ byUID' \in {byUID, [byUID EXCEPT ![UserOf[s]] = NoSession]}
  /\ UNCHANGED <<state, maxSeq, root, outsideSessions>>

-----------------------------------------------------------------------------
(* Requests, as the gateway sees them                                      *)

Server(c) == ServerOf[determineUpstreamService(act[c])]
\* ValidateClientSeq takes any number from a session that has seen none.
InSequence(s, n) == IF maxSeq[s] = 0 THEN n > 0 ELSE n = maxSeq[s] + 1

\* A connection waits for the answer to a hello before it reads on.
InLogin(s) == \E c \in Calls : c[1] = s /\ act[c] = "hello" /\ gw[c] \in {"get", "create", "wait"}

Request(s, n, a) ==
  /\ s \in open /\ (state[s] = "normal" \/ a = "hello")
  /\ ~InLogin(s) /\ InSequence(s, n)
  /\ Cardinality({c \in Calls : act[c] # "none"}) < MaxCalls
  /\ maxSeq' = [maxSeq EXCEPT ![s] = n]
  /\ act' = [act EXCEPT ![<<s, n>>] = a]
  /\ gw' = [gw EXCEPT ![<<s, n>>] = "get"]
  /\ UNCHANGED <<state, open, byUID, root, notifyVars, srv, poolVars, tableVars, active, pushes,
                 cast, restarts>>

outsideCall == <<sessionVars, notifyVars, act, tableVars, active, pushes, cast, restarts>>

Cached(v) == v \in clients

\* Also for a session that is closed: nothing sets the state that a worker would skip.
\* GetClient looks the endpoint up, ...
GetClient(c) ==
  /\ gw[c] = "get"
  /\ gw' = [gw EXCEPT ![c] = IF Cached(Server(c)) THEN "wait" ELSE "create"]
  /\ UNCHANGED <<srv, poolVars, outsideCall>>

\* ... and createClient looks again with the pool locked.
Dials_Unchecked(v) == TRUE
Dials(v) == ~Cached(v)

Dial(v) ==
  /\ connections' = [connections EXCEPT ![v] = IF Dials(v) THEN @ + 1 ELSE @]
  /\ clients' = clients \cup {v}

CreateClient(c) ==
  /\ gw[c] = "create"
  /\ Dial(Server(c))
  /\ gw' = [gw EXCEPT ![c] = "wait"]
  /\ UNCHANGED <<srv, dialing, outsideCall>>

\* initUpstreamConnections runs GetClient for each service type; it does nothing if there is a
\* client.
Preconnect(t) ==
  /\ \/ /\ t \notin dialing /\ ~Cached(ServerOf[t])
        /\ dialing' = dialing \cup {t}
        /\ UNCHANGED <<clients, connections>>
     \/ /\ t \in dialing
        /\ Dial(ServerOf[t])
        /\ dialing' = dialing \ {t}
  /\ UNCHANGED <<gw, srv, outsideCall>>

\* The upstream call fails: its timeout, or a service that is not there.  It may reach the
\* service all the same.
CallFails(c) ==
  /\ gw[c] = "wait"
  /\ gw' = [gw EXCEPT ![c] = "failed"]
  /\ UNCHANGED <<srv, poolVars, outsideCall>>

\* ActivateSession activates only a session that is indexed and not logged in.
Activates(s) == s \in open /\ state[s] = "inited"

\* The answer arrives: a session logs in, and the notifies bound to the number of the request
\* are sent around the response.
Respond(c) ==
  LET s == c[1]
      fails == act[c] = "hello" /\ ~Activates(s)
      due == {n \in bound[s] : ~fails /\ s \in open /\ n.seq = c[2]}
  IN /\ gw[c] = "wait" /\ srv[c] = "replied"
     /\ gw' = [gw EXCEPT ![c] = "done"]
     /\ state' = IF act[c] = "hello" /\ ~fails THEN [state EXCEPT ![s] = "normal"] ELSE state
     /\ bound' = [bound EXCEPT ![s] = @ \ due]
     /\ delivered' = delivered \cup {[notify |-> n, with |-> c] : n \in due}
     /\ UNCHANGED <<maxSeq, open, byUID, root, act, srv, poolVars, tableVars, active, pushes,
                    cast, restarts>>

-----------------------------------------------------------------------------
(* The demo service                                                        *)

outsideServer == <<sessionVars, notifyVars, act, poolVars, restarts>>

\* unaryInterceptor
Arrive(c) ==
  /\ gw[c] \in {"wait", "failed"} /\ srv[c] = "none"
  /\ srv' = [srv EXCEPT ![c] = "arrived"]
  /\ active' = [active EXCEPT ![Server(c)] = @ + 1]
  /\ UNCHANGED <<gw, tableVars, pushes, cast, outsideServer>>

Left_IfWaiting(c) == IF gw[c] = "wait" THEN active[Server(c)] - 1 ELSE active[Server(c)]
Left(c) == active[Server(c)] - 1

\* The handler returns, and with it the interceptor.
Replies(c, from) ==
  /\ srv[c] = from
  /\ srv' = [srv EXCEPT ![c] = "replied"]
  /\ active' = [active EXCEPT ![Server(c)] = Left(c)]

Recorded_Lost(c) == loggedIn
Recorded(c) == [loggedIn EXCEPT ![Server(c)][UserOf[c[1]]] = c[1]]

HandleLogin(c) ==
  /\ act[c] \in Logins /\ Replies(c, "arrived")
  /\ loggedIn' = Recorded(c)
  /\ forgotten' = [forgotten EXCEPT ![Server(c)] = @ \ {UserOf[c[1]]}]
  /\ UNCHANGED <<gw, pushes, cast, outsideServer>>

\* The user's record goes, whichever session it names.
HandleLogout(c) ==
  /\ act[c] = "logout" /\ Replies(c, "arrived")
  /\ loggedIn' = [loggedIn EXCEPT ![Server(c)][UserOf[c[1]]] = NoSession]
  /\ forgotten' = [forgotten EXCEPT ![Server(c)] = @ \cup {UserOf[c[1]]}]
  /\ UNCHANGED <<gw, pushes, cast, outsideServer>>

\* Actions that change nothing.
HandleQuery(c) ==
  /\ act[c] \in Queries /\ Replies(c, "arrived")
  /\ UNCHANGED <<gw, tableVars, pushes, cast, outsideServer>>

Push(c, hint) ==
  pushes \cup {[user |-> UserOf[c[1]], hint |-> hint, seq |-> c[2], from |-> c, by |-> Server(c)]}

\* An echo may ask for a push to a gid as well.
HandleEcho(c) ==
  /\ act[c] = "echo" /\ Replies(c, "arrived")
  /\ pushes' \in {pushes, Push(c, "gid")}
  /\ UNCHANGED <<gw, tableVars, cast, outsideServer>>

\* handleBeforeCommand, handleAfterCommand: a goroutine pushes.
HandleTimed(c) ==
  /\ act[c] \in Timed /\ Replies(c, "arrived")
  /\ pushes' = Push(c, act[c])
  /\ UNCHANGED <<gw, tableVars, cast, outsideServer>>

Online(v) == {u \in Users : loggedIn[v][u] # NoSession}

\* sendBroadcastMessage calls the gateway if anybody is logged in at this service.
AskCast(b) == cast' = [cast EXCEPT ![b] = [NoCast EXCEPT !.at = "asked"]]

HandleBroadcast(c) ==
  /\ act[c] = "broadcast"
  /\ \/ /\ Online(Server(c)) = {} /\ Replies(c, "arrived")
        /\ UNCHANGED cast
     \/ /\ Online(Server(c)) # {} /\ srv[c] = "arrived"
        /\ srv' = [srv EXCEPT ![c] = "casting"] /\ AskCast(c)
        /\ UNCHANGED active
  /\ UNCHANGED <<gw, tableVars, pushes, outsideServer>>

\* The call returns, or ten seconds are over.
BroadcastReturns(c) ==
  /\ Replies(c, "casting")
  /\ UNCHANGED <<gw, tableVars, pushes, cast, outsideServer>>

\* broadcastRoutine
Tick(v) ==
  /\ cast[v].at = "idle" /\ Online(v) # {}
  /\ AskCast(v)
  /\ UNCHANGED <<gw, srv, tableVars, active, pushes, outsideServer>>

InService(v, c) == srv[c] \in {"arrived", "casting"} /\ Server(c) = v

\* The process ends and starts again; what the gateway has begun for it goes on.
Restart(v) ==
  /\ restarts < MaxRestarts
  /\ restarts' = restarts + 1
  /\ loggedIn' = [loggedIn EXCEPT ![v] = [u \in Users |-> NoSession]]
  /\ forgotten' = [forgotten EXCEPT ![v] = @ \cup Online(v)]
  /\ active' = [active EXCEPT ![v] = 0]
  /\ srv' = [c \in Calls |-> IF InService(v, c) THEN "lost" ELSE srv[c]]
  /\ pushes' = {p \in pushes : p.by # v}
  /\ UNCHANGED <<sessionVars, notifyVars, act, gw, poolVars, cast>>

-----------------------------------------------------------------------------
(* What the gateway does for a service: PushToClient, BroadcastToClients   *)

outsidePush == <<sessionVars, delivered, callVars, poolVars, tableVars, active, cast, restarts>>

\* A notify is bound to the user's present session; no other target is served.
PushToClient(p) ==
  LET s == byUID[p.user]
  IN /\ pushes' = pushes \ {p}
     /\ bound' = IF p.hint \in Timed /\ s # NoSession /\ state[s] = "normal"
                   THEN [bound EXCEPT ![s] = @ \cup {p}] ELSE bound
     /\ UNCHANGED outsidePush

\* Five seconds are over, or the gateway is not reached.
PushFails(p) ==
  /\ pushes' = pushes \ {p}
  /\ UNCHANGED <<bound, outsidePush>>

outsideCast == <<sessionVars, notifyVars, callVars, poolVars, tableVars, active, pushes, restarts>>

\* BroadcastToClients: the sessions of the index, ...
BeginBroadcast(b) ==
  /\ cast[b].at = "asked"
  /\ cast' = [cast EXCEPT ![b] =
                [at |-> "sending", sent |-> {}, todo |-> open,
                 steady |-> {s \in open : state[s] = "normal"}]]
  /\ UNCHANGED outsideCast

\* ... one after the other, those that are logged in; one that is not is skipped.
Receives(s) == state[s] = "normal" /\ s \in open

Rest_UpToSkipped(b, s) == IF Receives(s) THEN cast[b].todo \ {s} ELSE {}
Rest(b, s) == cast[b].todo \ {s}

BroadcastTo(b, s) ==
  /\ s \in cast[b].todo
  /\ cast' = [cast EXCEPT ![b] = [at |-> @.at, todo |-> Rest(b, s), steady |-> @.steady,
                                   sent |-> IF Receives(s) THEN @.sent \cup {s} ELSE @.sent]]
  /\ UNCHANGED outsideCast

EndBroadcast(b) ==
  /\ cast[b].at = "sending" /\ cast[b].todo = {}
  /\ cast' = [cast EXCEPT ![b] = NoCast]
  /\ UNCHANGED outsideCast

-----------------------------------------------------------------------------
Service(c) ==
  \/ HandleLogin(c) \/ HandleLogout(c) \/ HandleQuery(c) \/ HandleEcho(c)
  \/ HandleTimed(c) \/ HandleBroadcast(c) \/ BroadcastReturns(c)
Broadcast(b) == BeginBroadcast(b) \/ EndBroadcast(b) \/ \E s \in Sessions : BroadcastTo(b, s)

Next ==
  \/ \E s \in Sessions : Reconnect(s) \/ Connect(s) \/ RemoveSession(s)
                          \/ \E n \in 1..MaxSeq, a \in Asked[s] : Request(s, n, a)
  \/ \E c \in Calls : GetClient(c) \/ CreateClient(c) \/ CallFails(c) \/ Respond(c)
                       \/ Arrive(c) \/ Service(c)
  \/ \E t \in Services : Preconnect(t)
  \/ \E v \in Servers : Tick(v) \/ Restart(v)
  \/ \E p \in pushes : PushToClient(p) \/ PushFails(p)
  \/ \E b \in Broadcasters : Broadcast(b)

Spec == Init /\ [][Next]_vars

-----------------------------------------------------------------------------
(* Properties                                                              *)

\* The types of the variables.
TypeOK ==
  /\ state \in [Sessions -> {"none", "inited", "normal"}]
  /\ maxSeq \in [Sessions -> 0..MaxSeq] /\ open \subseteq Sessions
  /\ byUID \in [Users -> Sessions \cup {NoSession}]
  /\ root \in [Sessions -> Sessions \cup {NoSession}]
  /\ bound \in [Sessions -> SUBSET Pushes] /\ pushes \subseteq Pushes
  /\ delivered \subseteq [notify : Pushes, with : Calls]
  /\ act \in [Calls -> Actions \cup {"none"}]
  /\ gw \in [Calls -> {"none", "get", "create", "wait", "failed", "done"}]
  /\ srv \in [Calls -> {"none", "arrived", "casting", "replied", "lost"}]
  /\ clients \subseteq Servers /\ connections \in [Servers -> Nat]
  /\ dialing \subseteq Services
  /\ loggedIn \in [Servers -> [Users -> Sessions \cup {NoSession}]]
  /\ forgotten \in [Servers -> SUBSET Users]
  /\ active \in [Servers -> Nat]
  /\ cast \in [Broadcasters -> [at : {"idle", "asked", "sending"}, todo : SUBSET Sessions,
                                 sent : SUBSET Sessions, steady : SUBSET Sessions]]
  /\ restarts \in 0..MaxRestarts

\* Whatever requests and preconnections race for the first client of an endpoint, one
\* connection is opened, and no call is made without it.
OneConnection ==
  /\ \A v \in Servers : connections[v] = IF v \in clients THEN 1 ELSE 0
  /\ \A c \in Calls : srv[c] # "none" => Server(c) \in clients

\* The number of active calls a service reports is the number it is working on, also when the
\* gateway has given one up.
CallsCounted ==
  \A v \in Servers : active[v] = Cardinality({c \in Calls : InService(v, c)})

\* A user with an activated session is known to the service that logs in, unless a logout or a
\* restart removed the record since: calls that time out, and answers that arrive late, never
\* activate a session the service did not record.
ActivatedIsKnown ==
  \A s \in Sessions : LET v == ServerOf["hello"] IN
    state[s] = "normal" => UserOf[s] \in Online(v) \cup forgotten[v]

\* A broadcast reaches every session that is logged in when it begins and open when it ends;
\* one that replaces another in between may be missed.
BroadcastReachesAll ==
  \A b \in Broadcasters : cast[b].at = "sending" =>
    cast[b].steady \cap open \subseteq cast[b].sent \cup cast[b].todo

\* A notify goes to its user, and with the response it was bound to, however often the user's
\* session was replaced meanwhile; with another request's only if the user came back with a
\* session that counts afresh.
NotifyWithItsResponse ==
  \A d \in delivered :
    /\ UserOf[d.with[1]] = d.notify.user
    /\ root[d.with[1]] = root[d.notify.from[1]] => d.with = d.notify.from
=============================================================================
