------------------------- MODULE WaitConditionProofs -------------------------
(***************************************************************************)
(* Theorems about WaitCondition, for any number of threads: the counters   *)
(* of the condition are right, it implements Monitor, and no wakeup is     *)
(* lost when no wait() has a time out.                                     *)
(***************************************************************************)
EXTENDS WaitCondition, FiniteSetTheorems, TLAPS

(* TypeOK is not inductive alone: that waiters_ - 1 is a natural number    *)
(* needs waiters_ to count the thread that leaves.                         *)
IInv == TypeOK /\ WaitersCounted

(* The sets of threads the counters are compared with are finite. *)
LEMMA CountedSets ==
    /\ IsFiniteSet(Registered)
    /\ IsFiniteSet(At("waking"))
    /\ Cardinality(Registered) \in Nat
    /\ Cardinality(At("waking")) \in Nat
<1>1. IsFiniteSet(Threads)
  BY WaitersAssumption
<1>2. Registered \in SUBSET Threads /\ At("waking") \in SUBSET Threads
  BY DEF Registered, At
<1>. QED
  BY <1>1, <1>2, FS_Subset, FS_CardinalityType

(* A thread that is not registered is counted by one more when it joins... *)
LEMMA OneMore ==
    ASSUME NEW S, IsFiniteSet(S), NEW t, t \notin S
    PROVE  Cardinality(S \cup {t}) = Cardinality(S) + 1
BY FS_AddElement

(* ... and a registered one by one less when it leaves. *)
LEMMA OneLess ==
    ASSUME NEW S, IsFiniteSet(S), NEW t \in S
    PROVE  /\ Cardinality(S \ {t}) = Cardinality(S) - 1
           /\ Cardinality(S) \in Nat \ {0}
<1>1. Cardinality(S) \in Nat /\ Cardinality(S) # 0
  BY FS_CardinalityType, FS_EmptySet
<1>. QED
  BY <1>1, FS_RemoveElement

LEMMA InitIInv == Init => IInv
<1>. SUFFICES ASSUME Init PROVE IInv
  OBVIOUS
<1>1. TypeOK
  BY DEF Init, TypeOK, PCs
<1>2. Registered = {}
  BY DEF Init, Registered
<1>3. waiters_ = Cardinality(Registered)
  BY <1>2, FS_EmptySet DEF Init
<1>4. \A t \in Threads : pc[t] \in {"entered", "unlocked"} <=> mutex_ = t
  BY WaitersAssumption DEF Init
<1>. QED
  BY <1>1, <1>3, <1>4 DEF IInv, WaitersCounted

(* What a signal does to a thread: it may be taken off cond_. *)
LEMMA SignalMoves ==
    ASSUME IInv, NEW t \in Threads, SignalOne(t) \/ SignalAll(t)
    PROVE  /\ pc' \in [Threads -> PCs]
           /\ \A w \in Threads : pc'[w] = pc[w] \/ (pc[w] = "blocked" /\ pc'[w] = "waking")
           /\ Registered' = Registered
           /\ mutex_ = Nobody /\ UNCHANGED mutex_
           /\ waiters_' = waiters_
           /\ wakeups_' \in Nat
           /\ UNCHANGED <<mutex, res>>
<1>. USE DEF IInv, TypeOK, PCs
<1>1. CASE SignalOne(t)
  <2>1. /\ pc' \in [Threads -> PCs]
        /\ \A w \in Threads : pc'[w] = pc[w] \/ (pc[w] = "blocked" /\ pc'[w] = "waking")
    <3>1. CASE pc' = pc
      BY <3>1
    <3>2. CASE \E w \in At("blocked") : pc' = [pc EXCEPT ![w] = "waking"]
      BY <3>2 DEF At
    <3>. QED
      BY <1>1, <3>1, <3>2 DEF SignalOne, CondSignal
  <2>2. Registered' = Registered
    BY <2>1 DEF Registered
  <2>. QED
    BY <1>1, <2>1, <2>2 DEF SignalOne, MaySignal, Least
<1>2. CASE SignalAll(t)
  <2>1. /\ pc' \in [Threads -> PCs]
        /\ \A w \in Threads : pc'[w] = pc[w] \/ (pc[w] = "blocked" /\ pc'[w] = "waking")
    BY <1>2 DEF SignalAll, CondBroadcast
  <2>2. Registered' = Registered
    BY <2>1 DEF Registered
  <2>. QED
    BY <1>2, <2>1, <2>2 DEF SignalAll, MaySignal
<1>. QED
  BY <1>1, <1>2

(* What the steps of wait() do to the threads waiters_ counts. *)
LEMMA RegisteredMoves ==
    ASSUME IInv, NEW t \in Threads
    PROVE  /\ Lock(t) \/ Unlock(t) \/ CallWait(t) \/ LockInternal(t) \/ UnlockCaller(t)
                 \/ SpuriousWake(t) \/ TimeOut(t) \/ Rewait(t) \/ Relock(t)
              => Registered' = Registered
           /\ Block(t) => t \notin Registered /\ Registered' = Registered \cup {t}
           /\ TakeWakeup(t) \/ GiveUp(t)
              => t \in Registered /\ Registered' = Registered \ {t}
<1>. USE DEF IInv, TypeOK, Registered
<1>1. Lock(t) \/ Unlock(t) \/ CallWait(t) \/ LockInternal(t) \/ UnlockCaller(t)
        => Registered' = Registered
  BY DEF Lock, Unlock, CallWait, LockInternal, UnlockCaller
<1>2. SpuriousWake(t) \/ TimeOut(t) \/ Rewait(t) \/ Relock(t) => Registered' = Registered
  BY DEF SpuriousWake, TimeOut, Rewait, Relock
<1>3. Block(t) => t \notin Registered /\ Registered' = Registered \cup {t}
  BY DEF Block
<1>4. TakeWakeup(t) \/ GiveUp(t) => t \in Registered /\ Registered' = Registered \ {t}
  BY DEF TakeWakeup, GiveUp
<1>. QED
  BY <1>1, <1>2, <1>3, <1>4

LEMMA NextIInv == IInv /\ [Next]_vars => IInv'
<1>. SUFFICES ASSUME IInv, [Next]_vars PROVE IInv'
  OBVIOUS
<1>. USE DEF IInv, TypeOK, WaitersCounted, PCs
<1>0. IsFiniteSet(Registered)
  BY CountedSets
<1>1. CASE UNCHANGED vars
  <2>1. Registered' = Registered
    BY <1>1 DEF vars, Registered
  <2>. QED
    BY <1>1, <2>1 DEF vars
<1>2. ASSUME NEW t \in Threads, Lock(t) \/ Unlock(t) \/ CallWait(t) \/ LockInternal(t)
                                  \/ UnlockCaller(t)
      PROVE  IInv'
  <2>1. Registered' = Registered
    BY <1>2, RegisteredMoves
  <2>2. CASE Lock(t)
    BY <2>1, <2>2 DEF Lock
  <2>3. CASE Unlock(t)
    BY <2>1, <2>3 DEF Unlock
  <2>4. CASE CallWait(t)
    BY <2>1, <2>4 DEF CallWait
  <2>5. CASE LockInternal(t)
    BY <2>1, <2>5, WaitersAssumption DEF LockInternal
  <2>6. CASE UnlockCaller(t)
    BY <2>1, <2>6 DEF UnlockCaller
  <2>. QED
    BY <1>2, <2>2, <2>3, <2>4, <2>5, <2>6
<1>3. ASSUME NEW t \in Threads, SpuriousWake(t) \/ TimeOut(t) \/ Rewait(t) \/ Relock(t)
      PROVE  IInv'
  <2>1. Registered' = Registered
    BY <1>3, RegisteredMoves
  <2>2. CASE SpuriousWake(t)
    BY <2>1, <2>2 DEF SpuriousWake
  <2>3. CASE TimeOut(t)
    BY <2>1, <2>3 DEF TimeOut
  <2>4. CASE Rewait(t)
    BY <2>1, <2>4 DEF Rewait
  <2>5. CASE Relock(t)
    BY <2>1, <2>5 DEF Relock
  <2>. QED
    BY <1>3, <2>2, <2>3, <2>4, <2>5
<1>4. ASSUME NEW t \in Threads, Block(t)
      PROVE  IInv'
  <2>1. waiters_' = Cardinality(Registered)'
    BY <1>0, <1>4, RegisteredMoves, OneMore DEF Block
  <2>2. \A u \in Threads : pc'[u] \in {"entered", "unlocked"} <=> mutex_' = u
    BY <1>4, WaitersAssumption DEF Block
  <2>3. TypeOK'
    BY <1>4 DEF Block
  <2>. QED
    BY <2>1, <2>2, <2>3
<1>5. ASSUME NEW t \in Threads, TakeWakeup(t) \/ GiveUp(t)
      PROVE  IInv'
  <2>1. /\ waiters_' = Cardinality(Registered)'
        /\ waiters_' \in Nat
    BY <1>0, <1>5, RegisteredMoves, OneLess DEF TakeWakeup, GiveUp
  <2>2. \A u \in Threads : pc'[u] \in {"entered", "unlocked"} <=> mutex_' = u
    BY <1>5 DEF TakeWakeup, GiveUp
  <2>3. TypeOK'
    <3>1. CASE TakeWakeup(t)
      BY <2>1, <3>1 DEF TakeWakeup
    <3>2. CASE GiveUp(t)
      BY <2>1, <3>2 DEF GiveUp
    <3>. QED
      BY <1>5, <3>1, <3>2
  <2>. QED
    BY <2>1, <2>2, <2>3
<1>6. ASSUME NEW t \in Threads, SignalOne(t) \/ SignalAll(t)
      PROVE  IInv'
  <2>1. Cardinality(Registered)' = Cardinality(Registered)
    BY <1>6, SignalMoves
  <2>2. \A u \in Threads : pc'[u] \in {"entered", "unlocked"} <=> mutex_' = u
    BY <1>6, SignalMoves
  <2>3. TypeOK'
    BY <1>6, SignalMoves
  <2>. QED
    BY <1>6, <2>1, <2>2, <2>3, SignalMoves
<1>. QED
  BY <1>1, <1>2, <1>3, <1>4, <1>5, <1>6 DEF Next

(***************************************************************************)
(* The type invariant, and the ownership of mutex_ and the meaning of      *)
(* waiters_, which WaitCondition::wait and the signals maintain between    *)
(* them.                                                                   *)
(***************************************************************************)
THEOREM CountersCorrect == Spec => [](TypeOK /\ WaitersCounted)
<1>1. IInv => TypeOK /\ WaitersCounted
  BY DEF IInv
<1>. QED
  BY InitIInv, NextIInv, <1>1, PTL DEF Spec

-----------------------------------------------------------------------------
(* WaitCondition implements Monitor. *)

LEMMA InitRefines == Init => Abstract!Init
BY DEF Init, Abstract!Init, Waiting, Registered, At

(* While mutex_ is free nobody is between releasing the caller's mutex and *)
(* being counted, so a signal sees every thread that waits.                *)
LEMMA SignalSeesAll ==
    ASSUME IInv, mutex_ = Nobody
    PROVE  Waiting = Registered
<1>1. At("unlocked") = {}
  BY WaitersAssumption DEF IInv, WaitersCounted, At
<1>. QED
  BY <1>1 DEF Waiting

(***************************************************************************)
(* Every step of WaitCondition is a step of Monitor or leaves its          *)
(* variables alone: releasing the caller's mutex is Enter, taking a wakeup *)
(* is Wake, leaving on a time out is Expire.                               *)
(***************************************************************************)
LEMMA NextRefines == IInv /\ [Next]_vars => [Abstract!Next]_(Abstract!vars)
<1>. SUFFICES ASSUME IInv, [Next]_vars
              PROVE  Abstract!Next \/ UNCHANGED <<Waiting, wakeups_>>
  BY DEF Abstract!vars
<1>. USE DEF IInv, TypeOK, PCs
<1>1. CASE UNCHANGED vars
  BY <1>1 DEF vars, Waiting, Registered, At
<1>2. ASSUME NEW t \in Threads, Lock(t) \/ Unlock(t) \/ CallWait(t) \/ LockInternal(t)
                                  \/ Block(t)
      PROVE  UNCHANGED <<Waiting, wakeups_>>
  <2>1. CASE Lock(t) \/ Unlock(t)
    BY <2>1 DEF Lock, Unlock, Waiting, Registered, At
  <2>2. CASE CallWait(t) \/ LockInternal(t)
    BY <2>2 DEF CallWait, LockInternal, Waiting, Registered, At
  <2>3. CASE Block(t)
    BY <2>3 DEF Block, Waiting, Registered, At
  <2>. QED
    BY <1>2, <2>1, <2>2, <2>3
<1>3. ASSUME NEW t \in Threads, SpuriousWake(t) \/ TimeOut(t) \/ Rewait(t) \/ Relock(t)
      PROVE  UNCHANGED <<Waiting, wakeups_>>
  <2>1. CASE SpuriousWake(t) \/ TimeOut(t)
    BY <2>1 DEF SpuriousWake, TimeOut, Waiting, Registered, At
  <2>2. CASE Rewait(t) \/ Relock(t)
    BY <2>2 DEF Rewait, Relock, Waiting, Registered, At
  <2>. QED
    BY <1>3, <2>1, <2>2
<1>4. ASSUME NEW t \in Threads, UnlockCaller(t)
      PROVE  Abstract!Enter(t)
  BY <1>4 DEF UnlockCaller, Abstract!Enter, Waiting, Registered, At
<1>5. ASSUME NEW t \in Threads, TakeWakeup(t)
      PROVE  Abstract!Wake(t)
  BY <1>5 DEF TakeWakeup, Abstract!Wake, Waiting, Registered, At
<1>6. ASSUME NEW t \in Threads, GiveUp(t)
      PROVE  Abstract!Expire(t)
  BY <1>6 DEF GiveUp, Abstract!Expire, Waiting, Registered, At
<1>7. ASSUME NEW t \in Threads, SignalOne(t) \/ SignalAll(t)
      PROVE  Abstract!SignalOne \/ Abstract!SignalAll
  <2>1. Waiting = Registered
    BY <1>7, SignalMoves, SignalSeesAll
  <2>2. Waiting' = Waiting
    BY <1>7, SignalMoves DEF Waiting, Registered, At
  <2>3. waiters_ = Abstract!Cardinality(Waiting)
    <3>1. Abstract!Cardinality(Waiting) = Cardinality(Waiting)
      BY DEF Cardinality, Abstract!Cardinality
    <3>. QED
      BY <2>1, <3>1 DEF WaitersCounted
  <2>4. CASE SignalOne(t)
    BY <2>2, <2>3, <2>4 DEF SignalOne, Least, Abstract!SignalOne, Abstract!Least
  <2>5. CASE SignalAll(t)
    BY <2>2, <2>3, <2>5 DEF SignalAll, Abstract!SignalAll
  <2>. QED
    BY <1>7, <2>4, <2>5
<1>. QED
  BY <1>1, <1>2, <1>3, <1>4, <1>5, <1>6, <1>7 DEF Next, Abstract!Next

(***************************************************************************)
(* WaitCondition keeps the promises of Monitor, for any number of threads, *)
(* with time outs and spurious wakeups.                                    *)
(***************************************************************************)
THEOREM Refinement == Spec => ImplementsMonitor
BY InitIInv, NextIInv, InitRefines, NextRefines, PTL
   DEF Spec, ImplementsMonitor, Abstract!Spec

-----------------------------------------------------------------------------
(* No wakeup is lost when no wait() has a time out. *)

(* What makes WakeupHasTaker inductive: nobody is on the way to leaving    *)
(* without a wakeup, so a thread that is registered and not blocked is     *)
(* waking, and a signal finds a blocked thread or has a taker already.     *)
TakerInv == At("expired") = {} /\ WakeupHasTaker

LEMMA NextTaker ==
    ASSUME TimedWaiters = {}, IInv, TakerInv, [Next]_vars
    PROVE  TakerInv'
<1>. USE DEF IInv, TypeOK, PCs, TakerInv, WakeupHasTaker
<1>0. /\ IsFiniteSet(At("waking"))
      /\ Cardinality(At("waking")) \in Nat
  BY CountedSets
<1>1. CASE UNCHANGED vars
  <2>1. At("waking")' = At("waking") /\ At("expired")' = At("expired")
    BY <1>1 DEF vars, At
  <2>. QED
    BY <1>1, <2>1 DEF vars
<1>2. ASSUME NEW t \in Threads, Lock(t) \/ Unlock(t) \/ CallWait(t) \/ LockInternal(t)
                                  \/ UnlockCaller(t) \/ Block(t) \/ Relock(t)
      PROVE  TakerInv'
  <2>1. At("waking")' = At("waking") /\ At("expired")' = At("expired") /\ wakeups_' = wakeups_
    <3>1. CASE Lock(t) \/ Unlock(t) \/ CallWait(t)
      BY <3>1 DEF Lock, Unlock, CallWait, At
    <3>2. CASE LockInternal(t) \/ UnlockCaller(t)
      BY <3>2 DEF LockInternal, UnlockCaller, At
    <3>3. CASE Block(t) \/ Relock(t)
      BY <3>3 DEF Block, Relock, At
    <3>. QED
      BY <1>2, <3>1, <3>2, <3>3
  <2>. QED
    BY <2>1
<1>3. ASSUME NEW t \in Threads, SpuriousWake(t)
      PROVE  TakerInv'
  <2>1. /\ t \notin At("waking")
        /\ At("waking")' = At("waking") \cup {t}
        /\ At("expired")' = At("expired")
    BY <1>3 DEF SpuriousWake, At
  <2>2. Cardinality(At("waking")') = Cardinality(At("waking")) + 1
    BY <1>0, <2>1, OneMore
  <2>. QED
    BY <1>0, <1>3, <2>1, <2>2 DEF SpuriousWake
<1>4. ASSUME NEW t \in Threads, TimeOut(t) \/ GiveUp(t)
      PROVE  FALSE
  BY <1>4 DEF TimeOut, GiveUp, At
<1>5. ASSUME NEW t \in Threads, Rewait(t)
      PROVE  TakerInv'
  <2>1. At("waking")' = At("waking") \ {t} /\ At("expired")' = At("expired")
    BY <1>5 DEF Rewait, At
  <2>2. Cardinality(At("waking")') \in Nat
    BY <1>0, <2>1, FS_RemoveElement, FS_CardinalityType
  <2>. QED
    BY <1>5, <2>1, <2>2 DEF Rewait
<1>6. ASSUME NEW t \in Threads, TakeWakeup(t)
      PROVE  TakerInv'
  <2>1. /\ t \in At("waking")
        /\ At("waking")' = At("waking") \ {t}
        /\ At("expired")' = At("expired")
    BY <1>6 DEF TakeWakeup, At
  <2>2. Cardinality(At("waking")') = Cardinality(At("waking")) - 1
    BY <1>0, <2>1, OneLess
  <2>. QED
    BY <1>0, <1>6, <2>1, <2>2 DEF TakeWakeup
<1>7. ASSUME NEW t \in Threads, SignalOne(t)
      PROVE  TakerInv'
  <2>1. At("expired")' = At("expired")
    BY <1>7, SignalMoves DEF At
  <2>2. wakeups_' <= wakeups_ + 1 /\ wakeups_' <= Cardinality(Registered)
    BY <1>7 DEF SignalOne, Least, WaitersCounted
  <2>3. CASE At("blocked") = {}
    <3>1. At("waking") = Registered
      BY <2>3 DEF At, Registered
    <3>2. At("waking")' = At("waking")
      BY <1>7, <2>3 DEF SignalOne, CondSignal, At
    <3>. QED
      BY <2>1, <2>2, <3>1, <3>2
  <2>4. CASE At("blocked") # {}
    <3>1. PICK w \in At("blocked") : pc' = [pc EXCEPT ![w] = "waking"]
      BY <1>7, <2>4 DEF SignalOne, CondSignal
    <3>2. w \notin At("waking") /\ At("waking")' = At("waking") \cup {w}
      BY <3>1 DEF At
    <3>3. Cardinality(At("waking")') = Cardinality(At("waking")) + 1
      BY <1>0, <3>2, OneMore
    <3>4. wakeups_' \in Nat
      BY <1>7, SignalMoves
    <3>. QED
      BY <1>0, <2>1, <2>2, <3>3, <3>4
  <2>. QED
    BY <2>3, <2>4
<1>8. ASSUME NEW t \in Threads, SignalAll(t)
      PROVE  TakerInv'
  <2>1. At("expired")' = At("expired")
    BY <1>8, SignalMoves DEF At
  <2>2. At("waking")' = Registered
    BY <1>8 DEF SignalAll, CondBroadcast, At, Registered
  <2>. QED
    BY <1>8, <2>1, <2>2, CountedSets DEF SignalAll, WaitersCounted
<1>. QED
  BY <1>1, <1>2, <1>3, <1>4, <1>5, <1>6, <1>7, <1>8 DEF Next

(***************************************************************************)
(* No lost wakeup: when wait() is called without a time out, as kill() and *)
(* the pool's joins do, every wakeup granted by signal_one() or            *)
(* signal_all() has a thread on its way to take it, in spite of spurious   *)
(* wakeups.                                                                *)
(***************************************************************************)
THEOREM NoLostWakeup == ASSUME TimedWaiters = {} PROVE Spec => []WakeupHasTaker
<1>1. Init => TakerInv
  <2>. SUFFICES ASSUME Init PROVE TakerInv
    OBVIOUS
  <2>1. At("expired") = {} /\ At("waking") = {}
    BY DEF Init, At
  <2>. QED
    BY <2>1, FS_EmptySet DEF Init, TakerInv, WakeupHasTaker
<1>2. IInv /\ TakerInv /\ [Next]_vars => TakerInv'
  BY NextTaker
<1>3. TakerInv => WakeupHasTaker
  BY DEF TakerInv
<1>. QED
  BY InitIInv, NextIInv, <1>1, <1>2, <1>3, PTL DEF Spec
==============================================================================
