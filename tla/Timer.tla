------------------------------ MODULE Timer ------------------------------
(***************************************************************************)
(* The class Timer (src/timer.cpp): a thread that calls a function         *)
(* periodically, waiting on a condition variable in between, and the owner *)
(* of the object, who starts it and stops it.  MonotonicTimer and          *)
(* TPMWatcher each own one.                                                *)
(*                                                                         *)
(* wait_for(lock, interval, pred) is, as the standard defines it,          *)
(*   while (!pred()) if (wait_until(...) == timeout) return pred();        *)
(*   return true;                                                          *)
(* where waiting releases the mutex and returning takes it again.  How     *)
(* long the interval is does not matter here: a wait may time out whenever *)
(* the scheduler says so, and may also wake up spuriously.                 *)
(***************************************************************************)
EXTENDS Naturals

CONSTANT MaxStops  \* bound: how often the owner calls stop()

ASSUME MaxStopsAssumption == MaxStops \in Nat

VARIABLES
    tpc,       \* where the thread is
    opc,       \* where the owner is
    mutex,     \* who holds Timer::mutex
    running,   \* Timer::running
    joinable,  \* Timer::thread.joinable()
    stops,     \* number of calls of stop()
    late       \* history: callbacks begun since running was cleared

vars == <<tpc, opc, mutex, running, joinable, stops, late>>

Init ==
    /\ tpc = "none"
    /\ opc = "idle"
    /\ mutex = "free"
    /\ running = TRUE
    /\ joinable = FALSE
    /\ stops = 0
    /\ late = 0

----------------------------------------------------------------------------
(* The owner. *)

(* start() may not be called while the thread is joinable: the assignment  *)
(* to Timer::thread would terminate the program.  It may be called after   *)
(* stop(), and does not set running again.                                 *)
Start ==
    /\ opc \in {"idle", "stopped"}
    /\ ~joinable
    /\ opc' = "idle"
    /\ tpc' = "lock"
    /\ joinable' = TRUE
    /\ UNCHANGED <<mutex, running, stops, late>>

(* stop(), called explicitly or by the destructor. *)
CallStop ==
    /\ opc \in {"idle", "stopped"}
    /\ stops < MaxStops
    /\ opc' = "clear"
    /\ stops' = stops + 1
    /\ UNCHANGED <<tpc, mutex, running, joinable, late>>

(* The lock_guard's block: the mutex is taken, running cleared and the     *)
(* mutex released, with nothing in between that another thread could see.  *)
ClearRunning_WithoutMutex ==
    /\ opc = "clear"
    /\ running' = FALSE
    /\ opc' = "notify"
    /\ UNCHANGED <<tpc, mutex, joinable, stops, late>>

ClearRunning ==
    /\ opc = "clear"
    /\ mutex = "free"
    /\ running' = FALSE
    /\ opc' = "notify"
    /\ UNCHANGED <<tpc, mutex, joinable, stops, late>>

NotifyOne ==
    /\ opc = "notify"
    /\ opc' = "join"
    /\ tpc' = IF tpc = "waiting" THEN "woken" ELSE tpc
    /\ UNCHANGED <<mutex, running, joinable, stops, late>>

Join_Detaches ==
    /\ opc = "join"
    /\ joinable' = FALSE
    /\ opc' = "stopped"
    /\ UNCHANGED <<tpc, mutex, running, stops, late>>

Join ==
    /\ opc = "join"
    /\ joinable => tpc = "done"
    /\ joinable' = FALSE
    /\ opc' = "stopped"
    /\ UNCHANGED <<tpc, mutex, running, stops, late>>

----------------------------------------------------------------------------
(* The thread. *)

(* unique_lock's constructor, and lock() after the callback. *)
Lock ==
    /\ tpc = "lock"
    /\ mutex = "free"
    /\ mutex' = "thread"
    /\ tpc' = "test"
    /\ UNCHANGED <<opc, running, joinable, stops, late>>

(* while (!pred()): the thread ends, or sleeps and releases the mutex.     *)
(* Testing and falling asleep are two steps, both with the mutex held.     *)
TestPredicate_NoBreak ==
    /\ tpc = "test"
    /\ IF running
       THEN tpc' = "sleep" /\ UNCHANGED mutex
       ELSE tpc' = "call" /\ mutex' = "free"
    /\ UNCHANGED <<opc, running, joinable, stops, late>>

TestPredicate ==
    /\ tpc = "test"
    /\ IF running
       THEN tpc' = "sleep" /\ UNCHANGED mutex
       ELSE tpc' = "done" /\ mutex' = "free"
    /\ UNCHANGED <<opc, running, joinable, stops, late>>

Sleep ==
    /\ tpc = "sleep"
    /\ tpc' = "waiting"
    /\ mutex' = "free"
    /\ UNCHANGED <<opc, running, joinable, stops, late>>

TimeOut ==
    /\ tpc = "waiting"
    /\ tpc' = "timedOut"
    /\ UNCHANGED <<opc, mutex, running, joinable, stops, late>>

SpuriousWakeup ==
    /\ tpc = "waiting"
    /\ tpc' = "woken"
    /\ UNCHANGED <<opc, mutex, running, joinable, stops, late>>

(* Notified or woken for no reason: back to the test of the loop. *)
Wake ==
    /\ tpc = "woken"
    /\ mutex = "free"
    /\ mutex' = "thread"
    /\ tpc' = "test"
    /\ UNCHANGED <<opc, running, joinable, stops, late>>

(* Timed out: the predicate decides whether wait_for() returns true.  In   *)
(* both cases the thread then releases the mutex.                          *)
ReturnFromTimeOut ==
    /\ tpc = "timedOut"
    /\ mutex = "free"
    /\ tpc' = IF running THEN "call" ELSE "done"
    /\ UNCHANGED <<opc, mutex, running, joinable, stops, late>>

BeginCallback ==
    /\ tpc = "call"
    /\ tpc' = "callback"
    /\ late' = late + (IF running THEN 0 ELSE 1)
    /\ UNCHANGED <<opc, mutex, running, joinable, stops>>

(* The callback returns. *)
EndCallback ==
    /\ tpc = "callback"
    /\ tpc' = "lock"
    /\ UNCHANGED <<opc, mutex, running, joinable, stops, late>>

(* An exception leaves the callback, and ... *)
CallbackThrows ==
    /\ tpc = "callback"
    /\ tpc' = "thrown"
    /\ UNCHANGED <<opc, mutex, running, joinable, stops, late>>

(* ... the handler around the call swallows it.  Not caught it would leave *)
(* the function of the thread, which ends the whole process.               *)
CatchException ==
    /\ tpc = "thrown"
    /\ tpc' = "lock"
    /\ UNCHANGED <<opc, mutex, running, joinable, stops, late>>

Owner == CallStop \/ ClearRunning \/ NotifyOne \/ Join

Thread ==
    \/ Lock
    \/ TestPredicate
    \/ Sleep
    \/ Wake
    \/ ReturnFromTimeOut
    \/ BeginCallback
    \/ EndCallback
    \/ CallbackThrows
    \/ CatchException

Next == Start \/ Owner \/ Thread \/ TimeOut \/ SpuriousWakeup

Spec == Init /\ [][Next]_vars

(* The scheduler runs both threads, the callback ends, and a mutex that    *)
(* is free again and again is eventually obtained.  Nothing is assumed     *)
(* about time-outs and spurious wake-ups: stop() must not need them.       *)
FairSpec ==
    /\ Spec
    /\ WF_vars(Thread)
    /\ SF_vars(ClearRunning) /\ WF_vars(NotifyOne) /\ WF_vars(Join)

----------------------------------------------------------------------------
(* Properties *)

(* Every variable stays within the states of the code. *)
TypeOK ==
    /\ tpc \in {"none", "lock", "test", "sleep", "waiting", "woken", "timedOut",
                "call", "callback", "thrown", "done"}
    /\ opc \in {"idle", "clear", "notify", "join", "stopped"}
    /\ mutex \in {"free", "thread"}
    /\ running \in BOOLEAN
    /\ joinable \in BOOLEAN
    /\ stops \in 0 .. MaxStops
    /\ late \in Nat

(* "Stops the timer before quitting": once stop() has returned, the thread *)
(* has ended and no callback runs, so what it uses may be destroyed.       *)
NoCallbackAfterStop == opc = "stopped" => tpc \in {"none", "done"}

(* After stop() has cleared running at most one more callback begins: the  *)
(* one whose wait had already timed out.  Not even a later start() makes   *)
(* the timer fire again.                                                   *)
AtMostOneLateCallback == late <= 1

(* stop() returns even if the wait never times out: the notification is    *)
(* not lost, wherever the thread is when it is sent, and a callback that   *)
(* throws does not end the loop that has to notice it.                     *)
StopReturns == opc = "clear" ~> opc = "stopped"
============================================================================
