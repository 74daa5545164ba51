------------------------------- MODULE Monitor -------------------------------
(***************************************************************************)
(* What thread::WaitCondition promises to the code that waits on it: a     *)
(* set of waiting threads and a number of wakeups that have been granted   *)
(* and not taken yet.  A wakeup is not addressed to a thread: whichever    *)
(* waiter the system lets run takes it.  A waiter whose time runs out      *)
(* leaves without taking one, so wakeups may outlive the threads they were *)
(* granted for.                                                            *)
(*                                                                         *)
(* WaitCondition.tla implements this module; Thread.tla and ThreadPool.tla *)
(* use it for Thread::thread_done_ and ThreadPool::task_ready_.            *)
(***************************************************************************)
EXTENDS Naturals, FiniteSets

CONSTANT Threads        \* the threads that may wait on the condition

VARIABLES waiting,      \* the threads inside wait()
          wakeups       \* wakeups granted and not taken

vars == <<waiting, wakeups>>

Least(a, b) == IF a < b THEN a ELSE b

Init == waiting = {} /\ wakeups = 0

(* The caller's mutex is released and the caller waits, in one step. *)
Enter(t) ==
    /\ t \notin waiting
    /\ waiting' = waiting \cup {t}
    /\ UNCHANGED wakeups

(* One more wakeup, but never more than there are waiters to take it. *)
SignalOne ==
    /\ wakeups' = Least(wakeups + 1, Cardinality(waiting))
    /\ UNCHANGED waiting

SignalAll ==
    /\ wakeups' = Cardinality(waiting)
    /\ UNCHANGED waiting

(* A waiter takes a wakeup: wait() returns true. *)
Wake(t) ==
    /\ t \in waiting
    /\ wakeups > 0
    /\ waiting' = waiting \ {t}
    /\ wakeups' = wakeups - 1

(* The time of a waiter runs out: wait() returns false. *)
Expire(t) ==
    /\ t \in waiting
    /\ waiting' = waiting \ {t}
    /\ UNCHANGED wakeups

Next ==
    \/ \E t \in Threads : Enter(t) \/ Wake(t) \/ Expire(t)
    \/ SignalOne
    \/ SignalAll

Spec == Init /\ [][Next]_vars

(* A granted wakeup does not stay untaken while there is a thread for it. *)
Fairness == WF_vars(\E t \in Threads : Wake(t))

FairSpec == Spec /\ Fairness
==============================================================================
