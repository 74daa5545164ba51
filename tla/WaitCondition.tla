---------------------------- MODULE WaitCondition ----------------------------
(***************************************************************************)
(* thread::WaitCondition of the unix build (src/unix/thread.cc): waiters_, *)
(* wakeups_ and a pthread condition variable under an internal mutex_, and *)
(* the caller's own mutex which wait() releases and takes again.           *)
(*                                                                         *)
(* Every thread runs the protocol the library's code follows: lock the     *)
(* caller's mutex, then wait, signal or unlock; signalling needs no lock.  *)
(* pc[t] is where t stands:                                                *)
(*   idle      outside, holds nothing                                      *)
(*   locked    holds the caller's mutex                                    *)
(*   calling   in wait(), holds the caller's mutex, has to get mutex_      *)
(*   entered   in wait(), holds the caller's mutex and mutex_              *)
(*   unlocked  in wait(), has released the caller's mutex, holds mutex_    *)
(*   blocked   in pthread_cond_(timed)wait, mutex_ released                *)
(*   waking    taken off cond_, res = 0, has to get mutex_ back            *)
(*   expired   taken off cond_, res = ETIMEDOUT, has to get mutex_ back    *)
(*   relock    mutex_ released, has to get the caller's mutex back         *)
(* The steps made while mutex_ is held, and which nobody can observe       *)
(* before it is released, are one action.                                  *)
(***************************************************************************)
EXTENDS Naturals, FiniteSets

CONSTANTS
    Threads,            \* the threads of the program
    Waiters,            \* those that call wait(); the others only signal
    TimedWaiters,       \* those that pass a time out to wait()
    SpuriousWakeups,    \* whether pthread_cond_wait may return unsignalled
    Nobody              \* the owner of a free mutex

ASSUME WaitersAssumption ==
    /\ IsFiniteSet(Threads)
    /\ Waiters \subseteq Threads
    /\ TimedWaiters \subseteq Waiters
    /\ SpuriousWakeups \in BOOLEAN
    /\ Nobody \notin Threads

VARIABLES
    mutex,      \* owner of the caller's mutex, or Nobody
    mutex_,     \* owner of the internal mutex, or Nobody
    waiters_,
    wakeups_,
    pc,
    res         \* what the last wait() of each thread returned

vars == <<mutex, mutex_, waiters_, wakeups_, pc, res>>

PCs == {"idle", "locked", "calling", "entered", "unlocked", "blocked", "waking",
        "expired", "relock"}

At(l) == {t \in Threads : pc[t] = l}

(* The threads counted by waiters_. *)
Registered == {t \in Threads : pc[t] \in {"blocked", "waking", "expired"}}

Least(a, b) == IF a < b THEN a ELSE b

Init ==
    /\ mutex = Nobody
    /\ mutex_ = Nobody
    /\ waiters_ = 0
    /\ wakeups_ = 0
    /\ pc = [t \in Threads |-> "idle"]
    /\ res = [t \in Threads |-> TRUE]

-----------------------------------------------------------------------------
(* The caller's mutex. *)

Lock(t) ==
    /\ pc[t] = "idle"
    /\ mutex = Nobody
    /\ mutex' = t
    /\ pc' = [pc EXCEPT ![t] = "locked"]
    /\ UNCHANGED <<mutex_, waiters_, wakeups_, res>>

Unlock(t) ==
    /\ pc[t] = "locked"
    /\ mutex' = Nobody
    /\ pc' = [pc EXCEPT ![t] = "idle"]
    /\ UNCHANGED <<mutex_, waiters_, wakeups_, res>>

-----------------------------------------------------------------------------
(* wait(mutex, timeout). *)

(* Variant: the caller's mutex is released before mutex_ is taken. *)
CallWaitUnlocking(t) ==
    /\ t \in Waiters
    /\ pc[t] = "locked"
    /\ mutex' = Nobody
    /\ pc' = [pc EXCEPT ![t] = "unlocked"]
    /\ UNCHANGED <<mutex_, waiters_, wakeups_, res>>

CallWait(t) ==
    /\ t \in Waiters
    /\ pc[t] = "locked"
    /\ pc' = [pc EXCEPT ![t] = "calling"]
    /\ UNCHANGED <<mutex, mutex_, waiters_, wakeups_, res>>

LockInternal(t) ==
    /\ pc[t] = "calling"
    /\ mutex_ = Nobody
    /\ mutex_' = t
    /\ pc' = [pc EXCEPT ![t] = "entered"]
    /\ UNCHANGED <<mutex, waiters_, wakeups_, res>>

UnlockCaller(t) ==
    /\ pc[t] = "entered"
    /\ mutex' = Nobody
    /\ pc' = [pc EXCEPT ![t] = "unlocked"]
    /\ UNCHANGED <<mutex_, waiters_, wakeups_, res>>

(* waiters_++ and the atomic unlock-and-block of pthread_cond_wait. *)
Block(t) ==
    /\ pc[t] = "unlocked"
    /\ waiters_' = waiters_ + 1
    /\ mutex_' = Nobody
    /\ pc' = [pc EXCEPT ![t] = "blocked"]
    /\ UNCHANGED <<mutex, wakeups_, res>>

SpuriousWake(t) ==
    /\ SpuriousWakeups
    /\ pc[t] = "blocked"
    /\ pc' = [pc EXCEPT ![t] = "waking"]
    /\ UNCHANGED <<mutex, mutex_, waiters_, wakeups_, res>>

TimeOut(t) ==
    /\ t \in TimedWaiters
    /\ pc[t] = "blocked"
    /\ pc' = [pc EXCEPT ![t] = "expired"]
    /\ UNCHANGED <<mutex, mutex_, waiters_, wakeups_, res>>

(* res == 0 but no wakeup is left: back into pthread_cond_wait. *)
Rewait(t) ==
    /\ pc[t] = "waking"
    /\ mutex_ = Nobody
    /\ wakeups_ = 0
    /\ pc' = [pc EXCEPT ![t] = "blocked"]
    /\ UNCHANGED <<mutex, mutex_, waiters_, wakeups_, res>>

(* Variant: mutex_ is kept. *)
TakeWakeupKeeping(t) ==
    /\ wakeups_ # 0
    /\ pc[t] = "waking"
    /\ mutex_ = Nobody
    /\ mutex_' = t
    /\ waiters_' = waiters_ - 1
    /\ wakeups_' = wakeups_ - 1
    /\ res' = [res EXCEPT ![t] = TRUE]
    /\ pc' = [pc EXCEPT ![t] = "relock"]
    /\ UNCHANGED mutex

(* res == 0 and a wakeup is there: take it and leave. *)
TakeWakeup(t) ==
    /\ pc[t] = "waking"
    /\ mutex_ = Nobody
    /\ wakeups_ # 0
    /\ waiters_' = waiters_ - 1
    /\ wakeups_' = wakeups_ - 1
    /\ res' = [res EXCEPT ![t] = TRUE]
    /\ pc' = [pc EXCEPT ![t] = "relock"]
    /\ UNCHANGED <<mutex, mutex_>>

(* res != 0: leave, whatever wakeups_ holds. *)
GiveUp(t) ==
    /\ pc[t] = "expired"
    /\ mutex_ = Nobody
    /\ waiters_' = waiters_ - 1
    /\ res' = [res EXCEPT ![t] = FALSE]
    /\ pc' = [pc EXCEPT ![t] = "relock"]
    /\ UNCHANGED <<mutex, mutex_, wakeups_>>

Relock(t) ==
    /\ pc[t] = "relock"
    /\ mutex = Nobody
    /\ mutex' = t
    /\ pc' = [pc EXCEPT ![t] = "locked"]
    /\ UNCHANGED <<mutex_, waiters_, wakeups_, res>>

-----------------------------------------------------------------------------
(* signal_one() and signal_all(): one critical section under mutex_. *)

MaySignal(t) == pc[t] \in {"idle", "locked"} /\ mutex_ = Nobody

(* pthread_cond_signal takes one blocked thread off cond_ if there is one. *)
CondSignal ==
    IF At("blocked") = {}
    THEN pc' = pc
    ELSE \E w \in At("blocked") : pc' = [pc EXCEPT ![w] = "waking"]

SignalOne(t) ==
    /\ MaySignal(t)
    /\ wakeups_' = Least(wakeups_ + 1, waiters_)
    /\ CondSignal
    /\ UNCHANGED <<mutex, mutex_, waiters_, res>>

(* Variant: pthread_cond_signal instead of pthread_cond_broadcast. *)
CondBroadcastOne == CondSignal

CondBroadcast ==
    pc' = [w \in Threads |-> IF pc[w] = "blocked" THEN "waking" ELSE pc[w]]

SignalAll(t) ==
    /\ MaySignal(t)
    /\ wakeups_' = waiters_
    /\ CondBroadcast
    /\ UNCHANGED <<mutex, mutex_, waiters_, res>>

-----------------------------------------------------------------------------

Next ==
    \E t \in Threads :
        \/ Lock(t) \/ Unlock(t)
        \/ CallWait(t) \/ LockInternal(t) \/ UnlockCaller(t) \/ Block(t)
        \/ SpuriousWake(t) \/ TimeOut(t)
        \/ Rewait(t) \/ TakeWakeup(t) \/ GiveUp(t) \/ Relock(t)
        \/ SignalOne(t) \/ SignalAll(t)

Spec == Init /\ [][Next]_vars

(***************************************************************************)
(* A thread that can run does, and a thread that keeps asking for a mutex  *)
(* which is freed again and again gets it (the scheduler of the system).   *)
(* Nobody is obliged to signal, to wait or to lock.                        *)
(***************************************************************************)
Proceeds(t) == Unlock(t) \/ UnlockCaller(t) \/ Block(t)

TakesMutex(t) ==
    LockInternal(t) \/ Rewait(t) \/ TakeWakeup(t) \/ GiveUp(t) \/ Relock(t)

Fairness ==
    \A t \in Threads : WF_vars(Proceeds(t)) /\ SF_vars(TakesMutex(t))

FairSpec == Spec /\ Fairness

-----------------------------------------------------------------------------
(* Properties. *)

TypeOK ==
    /\ mutex \in Threads \cup {Nobody}
    /\ mutex_ \in Threads \cup {Nobody}
    /\ waiters_ \in Nat
    /\ wakeups_ \in Nat
    /\ pc \in [Threads -> PCs]
    /\ res \in [Threads -> BOOLEAN]

(***************************************************************************)
(* mutex_ is held by the one thread that has entered wait() and is not in  *)
(* pthread_cond_wait yet, and waiters_ is the number of threads that are   *)
(* in there, on every way out of it: signalled, timed out or woken for     *)
(* nothing.                                                                *)
(***************************************************************************)
WaitersCounted ==
    /\ \A t \in Threads : pc[t] \in {"entered", "unlocked"} <=> mutex_ = t
    /\ waiters_ = Cardinality(Registered)

(***************************************************************************)
(* No lost wakeup (threads that wait without a time out): for every wakeup *)
(* that has been granted there is a thread already taken off cond_ that    *)
(* will find it, so no granted wakeup can be left behind with every waiter *)
(* asleep.  It rests on signal_one() capping wakeups_ by waiters_, on the  *)
(* loop in wait(timeout) going back to sleep only when wakeups_ is 0, and  *)
(* on waiters_ being counted under mutex_.                                 *)
(***************************************************************************)
WakeupHasTaker == wakeups_ <= Cardinality(At("waking"))

(***************************************************************************)
(* wait(mutex) releases the caller's mutex and starts waiting in one step  *)
(* as far as any signaller can tell, signal_one() grants at most one       *)
(* wakeup and never more than there are waiters, and a wakeup is taken     *)
(* once: WaitCondition implements Monitor, with a thread counted as        *)
(* waiting from the moment it has released the caller's mutex.             *)
(***************************************************************************)
Waiting == Registered \cup At("unlocked")

Abstract == INSTANCE Monitor WITH waiting <- Waiting, wakeups <- wakeups_

ImplementsMonitor == Abstract!Spec

(***************************************************************************)
(* As long as nobody's time runs out a granted wakeup is taken: this is    *)
(* the fairness the users of Monitor rely on, derived from the fairness of *)
(* the threads.                                                            *)
(***************************************************************************)
WakeupsTaken == [](At("expired") = {}) => Abstract!Fairness

(***************************************************************************)
(* A thread whose wait() is over gets back to its caller: with mutex_ and  *)
(* the caller's mutex both contended, neither lock of the pair is ever     *)
(* kept by a thread that waits for the other one.                          *)
(***************************************************************************)
WaitReturns ==
    \A t \in Threads : pc[t] \in {"expired", "relock"} ~> pc[t] = "locked"
==============================================================================
