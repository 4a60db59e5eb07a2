---------------------------- MODULE SessionIndex ----------------------------
(***************************************************************************)
(* The session manager (internal/session/manager.go): which sessions are   *)
(* in its two indexes, which are marked closed, and which have released    *)
(* their queue, stream and connection.                                     *)
(*                                                                         *)
(* Every connection is served by one goroutine and creates one session, so *)
(* a session stands for both.  A session's goroutine, the cleanup          *)
(* goroutine of the manager and the delayed closers of replaced sessions   *)
(* run concurrently.  One action is one operation on a sync.Map or one     *)
(* critical section of closeMux; no lock spans two of them.                *)
(***************************************************************************)
EXTENDS Integers, FiniteSets

CONSTANTS
  Sessions,   \* the connections of the run
  Users,      \* OpenIDs
  NoSession, NoUser

ASSUME IndexAssumption == NoSession \notin Sessions /\ NoUser \notin Users

VARIABLES
  sessions,   \* keys of Manager.sessions
  byUID,      \* Manager.sessionsByUID
  user,       \* Session.OpenID
  age,        \* time since LastActivity, against the two timeouts
  closed,     \* Session.closed
  released,   \* how often the body of Close ran: queue stopped, closeCh closed
  pc,         \* where the session's goroutine is
  pred,       \* the session it is replacing
  closers,    \* replaced sessions whose delayed Close is pending
  victims,    \* the cleanup goroutine's list of expired sessions
  expiring    \* the one it has deleted and not closed yet

vars == <<sessions, byUID, user, age, closed, released, pc, pred,
          closers, victims, expiring>>

index == <<sessions, byUID>>
flags == <<closed, released>>
reaping == <<closers, victims, expiring>>

\* "recent": within connectionDownDelay*2 of LastActivity; "idle": later;
\* "expired": beyond sessionTimeout.
Ages == {"recent", "idle", "expired"}
Locations == {"new", "looked", "inherited", "unindex", "store", "storeUID",
              "binding", "bindStore", "serving", "marking", "removing",
              "deleting", "deleteUID", "closing", "gone"}

Init ==
  /\ sessions = {} /\ byUID = [u \in Users |-> NoSession]
  /\ user = [s \in Sessions |-> NoUser]
  /\ age = [s \in Sessions |-> "recent"]
  /\ closed = [s \in Sessions |-> FALSE]
  /\ released = [s \in Sessions |-> 0]
  /\ pc = [s \in Sessions |-> "new"]
  /\ pred = [s \in Sessions |-> NoSession]
  /\ closers = {} /\ victims = {} /\ expiring = NoSession

Goto(s, from, to) == pc[s] = from /\ pc' = [pc EXCEPT ![s] = to]

\* Session.Close: its body runs once, and not at all after SetClosed.
Close_Again(s) ==
  /\ closed' = [closed EXCEPT ![s] = TRUE]
  /\ released' = [released EXCEPT ![s] = @ + 1]
Close(s) ==
  /\ closed' = [closed EXCEPT ![s] = TRUE]
  /\ released' = [released EXCEPT ![s] = IF closed[s] THEN @ ELSE @ + 1]

-----------------------------------------------------------------------------
(* CreateOrReconnectSession                                                *)

\* handleFirstMessage: the first message names a user or not; the user's session
\* is a candidate when it was active within the reconnect window.
FirstMessage(s) ==
  /\ Goto(s, "new", "looked")
  /\ \E u \in Users \cup {NoUser} :
       /\ user' = [user EXCEPT ![s] = u]
       /\ pred' = [pred EXCEPT ![s] =
            IF u # NoUser /\ byUID[u] # NoSession /\ age[byUID[u]] = "recent"
            THEN byUID[u] ELSE NoSession]
  /\ UNCHANGED <<index, age, flags, reaping>>

\* The candidate is taken over if it is still in the index: InheritFrom.
TakesOver(s) == pred[s] \in sessions

CheckOld(s) ==
  /\ IF TakesOver(s)
     THEN /\ Goto(s, "looked", "inherited")
          /\ UNCHANGED pred
     ELSE /\ Goto(s, "looked", "store")
          /\ pred' = [pred EXCEPT ![s] = NoSession]
  /\ UNCHANGED <<index, user, age, flags, reaping>>

\* handleOldSessionOnReconnectAtomic
CloseOld(s) ==
  /\ Goto(s, "inherited", "unindex")
  /\ closed' = [closed EXCEPT ![pred[s]] = TRUE]
  /\ UNCHANGED <<index, user, age, released, pred, reaping>>

Unindexed_None(s) == sessions
Unindexed(s) == sessions \ {pred[s]}

UnindexOld(s) ==
  /\ Goto(s, "unindex", "store")
  /\ sessions' = Unindexed(s)
  /\ closers' = closers \cup {pred[s]}
  /\ UNCHANGED <<byUID, user, age, flags, pred, victims, expiring>>

StoreSession(s) ==
  /\ Goto(s, "store", IF user[s] = NoUser THEN "serving" ELSE "storeUID")
  /\ sessions' = sessions \cup {s}
  /\ UNCHANGED <<byUID, user, age, flags, pred, reaping>>

StoreUID(s) ==
  /\ Goto(s, "storeUID", "serving")
  /\ byUID' = [byUID EXCEPT ![user[s]] = s]
  /\ UNCHANGED <<sessions, user, age, flags, pred, reaping>>

\* The delayed goroutine: Close of a session that SetClosed has marked.
CloseReplaced(s) ==
  /\ s \in closers
  /\ closers' = closers \ {s}
  /\ Close(s)
  /\ UNCHANGED <<index, user, age, pc, pred, victims, expiring>>

-----------------------------------------------------------------------------
(* Messages of an established session                                      *)

\* handleMessageEvent calls UpdateActivity before anything else.
Touch(s) == age' = [age EXCEPT ![s] = "recent"]

\* A request that leaves the index alone.
Message(s) ==
  /\ pc[s] = "serving" /\ Touch(s)
  /\ UNCHANGED <<index, user, flags, pc, pred, reaping>>

\* handleStartSync assigns OpenID before BindSession has accepted it.
Start(s) ==
  /\ Goto(s, "serving", "binding") /\ Touch(s)
  /\ \E u \in Users : user' = [user EXCEPT ![s] = u]
  /\ UNCHANGED <<index, flags, pred, reaping>>

BindCheck(s) ==
  /\ Goto(s, "binding",
          IF byUID[user[s]] \in {NoSession, s} THEN "bindStore" ELSE "serving")
  /\ UNCHANGED <<index, user, age, flags, pred, reaping>>

BindStore(s) ==
  /\ Goto(s, "bindStore", "serving")
  /\ byUID' = [byUID EXCEPT ![user[s]] = s]
  /\ UNCHANGED <<sessions, user, age, flags, pred, reaping>>

-----------------------------------------------------------------------------
(* STOP: RemoveSessionWithDelay(delay = false), immediateRemoveSession     *)

StopRequest(s) ==
  /\ Goto(s, "serving", IF s \in sessions THEN "marking" ELSE "serving")
  /\ Touch(s)
  /\ UNCHANGED <<index, user, flags, pred, reaping>>

MarkClosed_Later(s) ==
  /\ Goto(s, "marking", "removing")
  /\ UNCHANGED <<index, user, age, flags, pred, reaping>>
MarkClosed(s) ==
  /\ Goto(s, "marking", "removing")
  /\ closed' = [closed EXCEPT ![s] = TRUE]
  /\ UNCHANGED <<index, user, age, released, pred, reaping>>

LoadForRemoval(s) ==
  /\ Goto(s, "removing", IF s \in sessions THEN "deleting" ELSE "serving")
  /\ UNCHANGED <<index, user, age, flags, pred, reaping>>

DeleteSession(s) ==
  /\ Goto(s, "deleting", IF user[s] = NoUser THEN "closing" ELSE "deleteUID")
  /\ sessions' = sessions \ {s}
  /\ UNCHANGED <<byUID, user, age, flags, pred, reaping>>

\* The user's entry goes, whichever session it names.
DeleteUID(s) ==
  /\ Goto(s, "deleteUID", "closing")
  /\ byUID' = [byUID EXCEPT ![user[s]] = NoSession]
  /\ UNCHANGED <<sessions, user, age, flags, pred, reaping>>

CloseRemoved(s) ==
  /\ Goto(s, "closing", "serving")
  /\ Close(s)
  /\ UNCHANGED <<index, user, age, pred, reaping>>

\* The connection ends: its goroutine returns and leaves the session alone.
Disconnect(s) ==
  /\ Goto(s, "serving", "gone")
  /\ UNCHANGED <<index, user, age, flags, pred, reaping>>

-----------------------------------------------------------------------------
(* The cleanup goroutine: removeExpiredSessions                            *)

\* Time passes without a message of s.
Age(s) ==
  /\ pc[s] \in {"serving", "gone"} /\ age[s] # "expired"
  /\ age' = [age EXCEPT ![s] = IF @ = "recent" THEN "idle" ELSE "expired"]
  /\ UNCHANGED <<index, user, flags, pc, pred, reaping>>

Expired_Named(s) == age[s] = "expired" /\ user[s] # NoUser
Expired(s) == age[s] = "expired"

Sweep ==
  /\ victims = {} /\ expiring = NoSession
  /\ victims' = {s \in sessions : Expired(s)}
  /\ victims' # {}
  /\ UNCHANGED <<index, user, age, flags, pc, pred, closers, expiring>>

\* Each victim is loaded again and deleted; it may have spoken since.
ExpireSession ==
  /\ expiring = NoSession
  /\ \E s \in victims :
       /\ victims' = victims \ {s}
       /\ expiring' = IF s \in sessions THEN s ELSE NoSession
       /\ sessions' = sessions \ {s}
  /\ UNCHANGED <<byUID, user, age, flags, pc, pred, closers>>

CloseExpired ==
  /\ expiring # NoSession
  /\ Close(expiring)
  /\ expiring' = NoSession
  /\ UNCHANGED <<index, user, age, pc, pred, closers, victims>>

-----------------------------------------------------------------------------
Create(s) ==
  FirstMessage(s) \/ CheckOld(s) \/ CloseOld(s) \/ UnindexOld(s) \/ StoreSession(s)
  \/ StoreUID(s)

Remove(s) ==
  MarkClosed(s) \/ LoadForRemoval(s) \/ DeleteSession(s) \/ DeleteUID(s)
  \/ CloseRemoved(s)

Serve(s) ==
  Message(s) \/ Start(s) \/ BindCheck(s) \/ BindStore(s)
  \/ StopRequest(s) \/ Disconnect(s)

Cleanup == Sweep \/ ExpireSession \/ CloseExpired

Next ==
  \/ \E s \in Sessions : Create(s) \/ Serve(s) \/ Remove(s) \/ Age(s) \/ CloseReplaced(s)
  \/ Cleanup

Spec == Init /\ [][Next]_vars

\* The ticker of the cleanup goroutine and the delayed closers fire, and a
\* connection goroutine finishes the handler it is in.  No client has to speak.
Fairness ==
  /\ WF_vars(Cleanup)
  /\ \A s \in Sessions :
       /\ WF_vars(CloseReplaced(s))
       /\ WF_vars(Remove(s))
       /\ WF_vars(pc[s] # "new" /\ Create(s))
       /\ WF_vars(BindCheck(s) \/ BindStore(s))

FairSpec == Spec /\ Fairness

-----------------------------------------------------------------------------
(* Properties                                                              *)

\* Types of the two indexes, the sessions and the goroutines' locals.
TypeOK ==
  /\ sessions \subseteq Sessions
  /\ byUID \in [Users -> Sessions \cup {NoSession}]
  /\ user \in [Sessions -> Users \cup {NoUser}]
  /\ age \in [Sessions -> Ages]
  /\ closed \in [Sessions -> BOOLEAN] /\ released \in [Sessions -> Nat]
  /\ pc \in [Sessions -> Locations]
  /\ pred \in [Sessions -> Sessions \cup {NoSession}]
  /\ closers \subseteq Sessions /\ victims \subseteq Sessions
  /\ expiring \in Sessions \cup {NoSession}

\* Somebody who marked s closed is on the way to delete it from the index.
Leaving(s) ==
  \/ pc[s] \in {"removing", "deleting"}
  \/ \E t \in Sessions : pc[t] = "unindex" /\ pred[t] = s

\* Replaced, stopped or expired, a session marked closed stays in the index only
\* while the goroutine that marked it is removing it.
IndexedIsOpen == \A s \in sessions : closed[s] => Leaving(s)

Established(s) == pc[s] \notin {"new", "looked", "inherited", "unindex", "store"}

\* An established session that nobody closed is in the index: requests that look it
\* up by id (sequence check, acknowledgement, login) find it.
OpenIsIndexed ==
  \A s \in Sessions : Established(s) /\ ~closed[s] => s \in sessions \/ s = expiring

\* STOP, reconnect, the delayed closer and expiry may all close a session: its
\* channel closeCh is closed at most once (a second time would panic).
ClosedOnce == \A s \in Sessions : released[s] <= 1

\* A successor and the session it replaced are never both in the index.
OneOfTheTwo ==
  \A s \in sessions : pred[s] # NoSession => pred[s] \notin sessions

\* A session whose client is gone leaves the index and is closed.
ExpiredIsRemoved ==
  \A s \in Sessions :
    (pc[s] = "gone" /\ age[s] = "expired") ~> (s \notin sessions /\ closed[s])

=============================================================================
