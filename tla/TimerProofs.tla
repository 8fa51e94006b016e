--------------------------- MODULE TimerProofs ---------------------------
(***************************************************************************)
(* Proofs about the class Timer, for every number of calls of stop().      *)
(***************************************************************************)
EXTENDS Timer, TLAPS

(* The thread holds the mutex exactly while it tests the predicate or is   *)
(* about to fall asleep.                                                   *)
MutexHeld == mutex = "thread" <=> tpc \in {"test", "sleep"}

(* A thread that has not ended is joinable, and stop() leaves none.        *)
ThreadJoinable ==
    /\ tpc \notin {"none", "done"} => joinable
    /\ opc = "stopped" => ~joinable

(* After the late callback the thread is on its way out: it finds running  *)
(* cleared before it could wait again.                                     *)
LateOnWayOut ==
    \/ late = 0
    \/ late = 1 /\ ~running /\ tpc \in {"callback", "thrown", "lock", "test", "done"}

(* The inductive invariant behind the safety properties. *)
IInv == TypeOK /\ MutexHeld /\ ThreadJoinable /\ LateOnWayOut

(* The constructor establishes the invariant. *)
LEMMA InitIInv == Init => IInv
<1> SUFFICES ASSUME Init PROVE IInv
    BY Zenon
<1>1. stops \in 0 .. MaxStops /\ late \in Nat
    BY MaxStopsAssumption DEF Init
<1>2. running \in BOOLEAN /\ joinable \in BOOLEAN
    BY Zenon DEF Init
<1> QED
    BY <1>1, <1>2, Zenon DEF Init, IInv, TypeOK, MutexHeld, ThreadJoinable, LateOnWayOut

(* Every step of the owner, of the thread and of the condition variable    *)
(* preserves the invariant.                                                *)
LEMMA NextIInv == IInv /\ [Next]_vars => IInv'
<1> USE MaxStopsAssumption DEF IInv, TypeOK, MutexHeld, ThreadJoinable, LateOnWayOut
<1> SUFFICES ASSUME IInv, [Next]_vars PROVE IInv'
    BY Zenon
<1>1. CASE Start
    BY <1>1, Zenon DEF Start
<1>2. CASE CallStop
    BY <1>2 DEF CallStop
<1>3. CASE ClearRunning
    BY <1>3, Zenon DEF ClearRunning
<1>4. CASE NotifyOne
    BY <1>4, Zenon DEF NotifyOne
<1>5. CASE Join
    BY <1>5, Zenon DEF Join
<1>6. CASE Lock
    BY <1>6, Zenon DEF Lock
<1>7. CASE TestPredicate
    BY <1>7, Zenon DEF TestPredicate
<1>8. CASE Sleep
    BY <1>8, Zenon DEF Sleep
<1>9. CASE Wake
    BY <1>9, Zenon DEF Wake
<1>10. CASE ReturnFromTimeOut
    BY <1>10, Zenon DEF ReturnFromTimeOut
<1>11. CASE BeginCallback
    BY <1>11 DEF BeginCallback
<1>12. CASE EndCallback
    BY <1>12, Zenon DEF EndCallback
<1>13. CASE CallbackThrows
    BY <1>13, Zenon DEF CallbackThrows
<1>14. CASE CatchException
    BY <1>14, Zenon DEF CatchException
<1>15. CASE TimeOut
    BY <1>15, Zenon DEF TimeOut
<1>16. CASE SpuriousWakeup
    BY <1>16, Zenon DEF SpuriousWakeup
<1>17. CASE UNCHANGED vars
    BY <1>17, Zenon DEF vars
<1> QED
    BY <1>1, <1>2, <1>3, <1>4, <1>5, <1>6, <1>7, <1>8, <1>9, <1>10, <1>11, <1>12,
       <1>13, <1>14, <1>15, <1>16, <1>17, Zenon DEF Next, Owner, Thread

(* Every reachable state satisfies the inductive invariant. *)
THEOREM IInvInvariant == Spec => []IInv
BY InitIInv, NextIInv, PTL DEF Spec

(* The variables of a Timer keep their types. *)
THEOREM TypeCorrect == Spec => []TypeOK
<1>1. IInv => TypeOK
    BY Zenon DEF IInv
<1> QED
    BY IInvInvariant, <1>1, PTL

(* When stop() has returned, the thread has ended: a Timer that is         *)
(* destroyed leaves no callback behind, however often it was stopped or    *)
(* started.                                                                *)
THEOREM StopIsFinal == Spec => []NoCallbackAfterStop
<1>1. IInv => NoCallbackAfterStop
    BY Zenon DEF IInv, TypeOK, ThreadJoinable, NoCallbackAfterStop
<1> QED
    BY IInvInvariant, <1>1, PTL

(* At most one callback begins after running has been cleared. *)
THEOREM LateCallbackBound == Spec => []AtMostOneLateCallback
<1>1. IInv => AtMostOneLateCallback
    BY DEF IInv, LateOnWayOut, AtMostOneLateCallback
<1> QED
    BY IInvInvariant, <1>1, PTL
============================================================================
