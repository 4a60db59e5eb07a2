------------------------- MODULE SessionIndexProofs -------------------------
(***************************************************************************)
(* TLAPS proofs about SessionIndex, for any number of connections and      *)
(* users.                                                                  *)
(***************************************************************************)
EXTENDS SessionIndex, TLAPS

-----------------------------------------------------------------------------
(* The inductive invariant.  None of the properties is inductive alone: a  *)
(* session marked closed may be in the index, and the step that takes it   *)
(* out belongs to another goroutine.                                       *)

\* A session nobody has stored yet is unknown to everyone but its own goroutine.
FreshIsUnknown ==
  \A s \in Sessions : ~Established(s) =>
    /\ s \notin sessions /\ ~closed[s] /\ released[s] = 0
    /\ s \notin closers /\ s \notin victims /\ s # expiring
    /\ \A t \in Sessions : pred[t] # s
    /\ \A u \in Users : byUID[u] # s

\* Close marks a session closed and does nothing for one that is.
ReleasedIsClosed ==
  \A s \in Sessions : released[s] = 0 \/ (released[s] = 1 /\ closed[s])

\* Whoever is on the way to close a session has taken it out of the index, and
\* whoever takes it out without closing it has marked it closed.
PendingCloses ==
  /\ \A s \in Sessions : s \in closers => s \notin sessions
  /\ expiring \notin sessions
  /\ \A s \in Sessions : pc[s] \in {"deleteUID", "closing"} => s \notin sessions
  /\ \A s \in Sessions : pc[s] \in {"removing", "deleting"} => closed[s]

\* A take-over has somebody to take over, marks it closed, and then removes it.
TakeOver ==
  /\ \A s \in Sessions : pc[s] \in {"inherited", "unindex"} => pred[s] \in Sessions
  /\ \A s \in Sessions : pc[s] = "unindex" => closed[pred[s]]
  /\ \A s \in Sessions :
       (pc[s] \notin {"new", "looked", "inherited", "unindex"} /\ pred[s] # NoSession)
         => pred[s] \notin sessions

IndexInv ==
  /\ TypeOK /\ FreshIsUnknown /\ ReleasedIsClosed /\ PendingCloses /\ TakeOver
  /\ IndexedIsOpen /\ OpenIsIndexed

-----------------------------------------------------------------------------
(* Preservation                                                            *)

\* Each step keeps the types; only a take-over that has somebody to take over puts
\* a session on the list of the delayed closers.
LEMMA TypeStep == TypeOK /\ TakeOver /\ [Next]_vars => TypeOK'
<1> SUFFICES ASSUME TypeOK, TakeOver, [Next]_vars
             PROVE  TypeOK'
  OBVIOUS
<1> USE DEF TypeOK, Ages, Locations, index, flags, reaping
<1>1. ASSUME NEW s \in Sessions, FirstMessage(s)
      PROVE  TypeOK'
  BY <1>1 DEF FirstMessage, Goto
<1>2. ASSUME NEW s \in Sessions, CheckOld(s)
      PROVE  TypeOK'
  BY <1>2 DEF CheckOld, Goto, TakesOver
<1>3. ASSUME NEW s \in Sessions, CloseOld(s)
      PROVE  TypeOK'
  BY <1>3 DEF CloseOld, Goto
<1>4. ASSUME NEW s \in Sessions, UnindexOld(s)
      PROVE  TypeOK'
  BY <1>4 DEF UnindexOld, Goto, Unindexed, TakeOver
<1>5. ASSUME NEW s \in Sessions, StoreSession(s)
      PROVE  TypeOK'
  BY <1>5 DEF StoreSession, Goto
<1>6. ASSUME NEW s \in Sessions, StoreUID(s)
      PROVE  TypeOK'
  BY <1>6 DEF StoreUID, Goto
<1>7. ASSUME NEW s \in Sessions, Message(s)
      PROVE  TypeOK'
  BY <1>7 DEF Message, Touch
<1>8. ASSUME NEW s \in Sessions, Start(s)
      PROVE  TypeOK'
  BY <1>8 DEF Start, Goto, Touch
<1>9. ASSUME NEW s \in Sessions, BindCheck(s)
      PROVE  TypeOK'
  BY <1>9 DEF BindCheck, Goto
<1>10. ASSUME NEW s \in Sessions, BindStore(s)
      PROVE  TypeOK'
  BY <1>10 DEF BindStore, Goto
<1>11. ASSUME NEW s \in Sessions, StopRequest(s)
      PROVE  TypeOK'
  BY <1>11 DEF StopRequest, Goto, Touch
<1>12. ASSUME NEW s \in Sessions, Disconnect(s)
      PROVE  TypeOK'
  BY <1>12 DEF Disconnect, Goto
<1>13. ASSUME NEW s \in Sessions, MarkClosed(s)
      PROVE  TypeOK'
  BY <1>13 DEF MarkClosed, Goto
<1>14. ASSUME NEW s \in Sessions, LoadForRemoval(s)
      PROVE  TypeOK'
  BY <1>14 DEF LoadForRemoval, Goto
<1>15. ASSUME NEW s \in Sessions, DeleteSession(s)
      PROVE  TypeOK'
  BY <1>15 DEF DeleteSession, Goto
<1>16. ASSUME NEW s \in Sessions, DeleteUID(s)
      PROVE  TypeOK'
  BY <1>16 DEF DeleteUID, Goto
<1>17. ASSUME NEW s \in Sessions, CloseRemoved(s)
      PROVE  TypeOK'
  BY <1>17 DEF CloseRemoved, Goto, Close
<1>18. ASSUME NEW s \in Sessions, Age(s)
      PROVE  TypeOK'
  BY <1>18 DEF Age
<1>19. ASSUME NEW s \in Sessions, CloseReplaced(s)
      PROVE  TypeOK'
  BY <1>19 DEF CloseReplaced, Close
<1>20. CASE Sweep
  BY <1>20 DEF Sweep, Expired
<1>21. CASE ExpireSession
  BY <1>21 DEF ExpireSession
<1>22. CASE CloseExpired
  BY <1>22 DEF CloseExpired, Close
<1>23. CASE UNCHANGED vars
  BY <1>23 DEF vars
<1> QED
  BY <1>1, <1>2, <1>3, <1>4, <1>5, <1>6, <1>7, <1>8, <1>9, <1>10, <1>11, <1>12,
     <1>13, <1>14, <1>15, <1>16, <1>17, <1>18, <1>19, <1>20, <1>21, <1>22, <1>23
  DEF Next, Create, Serve, Remove, Cleanup

\* The conjuncts lean on one another: a stored session is new to the index, a
\* removed one was marked closed, and so on around the circle.
LEMMA InvariantStep == IndexInv /\ [Next]_vars => IndexInv'
<1> SUFFICES ASSUME IndexInv, [Next]_vars
             PROVE  IndexInv'
  OBVIOUS
<1>0. TypeOK /\ TypeOK'
  BY TypeStep DEF IndexInv
<1> USE <1>0, IndexAssumption
    DEF TypeOK, IndexInv, FreshIsUnknown, ReleasedIsClosed, PendingCloses, TakeOver,
        IndexedIsOpen, Leaving, OpenIsIndexed, Established, Locations, index, flags,
        reaping
<1>1. ASSUME NEW s \in Sessions, FirstMessage(s)
      PROVE  IndexInv'
  BY <1>1 DEF FirstMessage, Goto
<1>2. ASSUME NEW s \in Sessions, CheckOld(s)
      PROVE  IndexInv'
  BY <1>2 DEF CheckOld, Goto, TakesOver
<1>3. ASSUME NEW s \in Sessions, CloseOld(s)
      PROVE  IndexInv'
  BY <1>3 DEF CloseOld, Goto
<1>4. ASSUME NEW s \in Sessions, UnindexOld(s)
      PROVE  IndexInv'
  BY <1>4 DEF UnindexOld, Goto, Unindexed
<1>5. ASSUME NEW s \in Sessions, StoreSession(s)
      PROVE  IndexInv'
  BY <1>5 DEF StoreSession, Goto
<1>6. ASSUME NEW s \in Sessions, StoreUID(s)
      PROVE  IndexInv'
  BY <1>6 DEF StoreUID, Goto
<1>7. ASSUME NEW s \in Sessions, Message(s)
      PROVE  IndexInv'
  BY <1>7 DEF Message, Touch
<1>8. ASSUME NEW s \in Sessions, Start(s)
      PROVE  IndexInv'
  BY <1>8 DEF Start, Goto, Touch
<1>9. ASSUME NEW s \in Sessions, BindCheck(s)
      PROVE  IndexInv'
  BY <1>9 DEF BindCheck, Goto
<1>10. ASSUME NEW s \in Sessions, BindStore(s)
      PROVE  IndexInv'
  BY <1>10 DEF BindStore, Goto
<1>11. ASSUME NEW s \in Sessions, StopRequest(s)
      PROVE  IndexInv'
  BY <1>11 DEF StopRequest, Goto, Touch
<1>12. ASSUME NEW s \in Sessions, Disconnect(s)
      PROVE  IndexInv'
  BY <1>12 DEF Disconnect, Goto
<1>13. ASSUME NEW s \in Sessions, MarkClosed(s)
      PROVE  IndexInv'
  BY <1>13 DEF MarkClosed, Goto
<1>14. ASSUME NEW s \in Sessions, LoadForRemoval(s)
      PROVE  IndexInv'
  BY <1>14 DEF LoadForRemoval, Goto
<1>15. ASSUME NEW s \in Sessions, DeleteSession(s)
      PROVE  IndexInv'
  BY <1>15 DEF DeleteSession, Goto
<1>16. ASSUME NEW s \in Sessions, DeleteUID(s)
      PROVE  IndexInv'
  BY <1>16 DEF DeleteUID, Goto
<1>17. ASSUME NEW s \in Sessions, CloseRemoved(s)
      PROVE  IndexInv'
  BY <1>17 DEF CloseRemoved, Goto, Close
<1>18. ASSUME NEW s \in Sessions, Age(s)
      PROVE  IndexInv'
  BY <1>18 DEF Age
<1>19. ASSUME NEW s \in Sessions, CloseReplaced(s)
      PROVE  IndexInv'
  BY <1>19 DEF CloseReplaced, Close
<1>20. CASE Sweep
  BY <1>20 DEF Sweep, Expired
<1>21. CASE ExpireSession
  BY <1>21 DEF ExpireSession
<1>22. CASE CloseExpired
  BY <1>22 DEF CloseExpired, Close
<1>23. CASE UNCHANGED vars
  BY <1>23 DEF vars
<1> QED
  BY <1>1, <1>2, <1>3, <1>4, <1>5, <1>6, <1>7, <1>8, <1>9, <1>10, <1>11, <1>12,
     <1>13, <1>14, <1>15, <1>16, <1>17, <1>18, <1>19, <1>20, <1>21, <1>22, <1>23
  DEF Next, Create, Serve, Remove, Cleanup

LEMMA InvariantHolds == Spec => []IndexInv
<1>1. Init => IndexInv
  BY IndexAssumption
  DEF Init, IndexInv, TypeOK, Ages, Locations, FreshIsUnknown, ReleasedIsClosed,
      PendingCloses, TakeOver, IndexedIsOpen, OpenIsIndexed, Established
<1> QED
  BY <1>1, InvariantStep, PTL DEF Spec

-----------------------------------------------------------------------------
(* Theorems                                                                *)

\* The indexes and the locals of every goroutine keep their types.
THEOREM TypeCorrect == Spec => []TypeOK
<1>1. IndexInv => TypeOK
  BY DEF IndexInv
<1> QED
  BY <1>1, InvariantHolds, PTL

\* However STOP, take-over, delayed close and expiry interleave, closeCh of a session
\* is closed at most once: Close never panics.
THEOREM CloseNeverPanics == Spec => []ClosedOnce
<1>1. IndexInv => ClosedOnce
  BY DEF IndexInv, ReleasedIsClosed, ClosedOnce
<1> QED
  BY <1>1, InvariantHolds, PTL

\* A session marked closed stays in the index only while the goroutine that marked
\* it is on the way to delete it.
THEOREM ClosedLeaves == Spec => []IndexedIsOpen
<1>1. IndexInv => IndexedIsOpen
  BY DEF IndexInv
<1> QED
  BY <1>1, InvariantHolds, PTL

\* An established session nobody closed is found under its id by every handler.
THEOREM OpenIsFound == Spec => []OpenIsIndexed
<1>1. IndexInv => OpenIsIndexed
  BY DEF IndexInv
<1> QED
  BY <1>1, InvariantHolds, PTL

\* A reconnect never leaves the successor and the replaced session in the index
\* together, whatever other connections do meanwhile.
THEOREM ReplacedLeaves == Spec => []OneOfTheTwo
<1>1. IndexInv => OneOfTheTwo
  BY DEF IndexInv, TypeOK, FreshIsUnknown, TakeOver, Established, OneOfTheTwo
<1> QED
  BY <1>1, InvariantHolds, PTL

=============================================================================
