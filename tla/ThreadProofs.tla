----------------------------- MODULE ThreadProofs ----------------------------
(***************************************************************************)
(* Theorems about Thread, for any number of clients and native threads:    *)
(* running() is accurate, run() is never executed twice at a time and no   *)
(* call of wait() or kill() that is woken returns too early, although      *)
(* wait() and kill() give mutex_ up and start() does not join the native   *)
(* thread it replaces: as long as no start() overtakes the wakeups of an   *)
(* earlier native thread or, for the first two, as nobody calls kill().    *)
(***************************************************************************)
EXTENDS Thread, FiniteSetTheorems, TLAPS

InOrder == Killers = {} \/ ~stale

(* Without killers nobody is in kill(). *)
NobodyKills == Killers = {} => \A c \in Clients : pc[c] \notin {"killing", "killed"}

(* The native thread that is alive is the one thread_ names.  It has to be *)
(* said of thread_, and not only of their number, for a cleanup() to be    *)
(* known to end the last one.                                              *)
OnlyLatest == InOrder => \A n \in Natives : n \in Alive <=> running_ /\ n = thread_

Created(n) == n \in Natives /\ native[n] # "none"

(* A call that waits was made for a native thread that had been created.   *)
CallsKnown ==
    /\ running_ => Created(thread_)
    /\ \A c \in Clients : pc[c] \in {"waiting", "killing"} => Created(awaited[c])

(* Wakeups are there to be taken, and kill() is yet to write running_,     *)
(* only while the object is not running.                                   *)
Calm ==
    ~stale => /\ wakeups > 0 => ~running_
              /\ \A c \in Clients : pc[c] = "killed" => ~running_

IInv == TypeOK /\ NobodyKills /\ OnlyLatest /\ CallsKnown /\ Calm /\ WokenAfterExit

LEMMA WakeupsCounted ==
    ASSUME TypeOK, IsFiniteSet(Clients), ThreadDone!SignalAll
    PROVE  waiting' = waiting /\ wakeups' \in Nat
<1>1. IsFiniteSet(waiting)
  BY FS_Subset DEF TypeOK
<1>2. ThreadDone!Cardinality(waiting) = Cardinality(waiting)
  BY DEF Cardinality, ThreadDone!Cardinality
<1>. QED
  BY <1>1, <1>2, FS_CardinalityType DEF ThreadDone!SignalAll

LEMMA StartOK == ASSUME IInv, NEW c \in Clients, Start(c) PROVE IInv'
<1>1. PICK n \in Natives : /\ native[n] = "none"
                           /\ native' = [native EXCEPT ![n] = "running"]
                           /\ thread_' = n
  BY DEF Start
<1>2. /\ ~running_ /\ running_'
      /\ stale' = (stale \/ wakeups > 0 \/ \E d \in Clients : pc[d] = "killed")
      /\ UNCHANGED <<cancelled, waiting, wakeups, pc, awaited>>
  BY DEF Start, threadDone
<1>3. TypeOK'
  BY <1>1, <1>2 DEF IInv, TypeOK
<1>4. InOrder' => InOrder
  BY <1>2 DEF InOrder
<1>5. OnlyLatest'
  <2>. SUFFICES ASSUME InOrder' PROVE \A m \in Natives : m \in Alive' <=> m = n
    BY <1>1, <1>2 DEF OnlyLatest
  <2>1. Alive = {}
    BY <1>2, <1>4 DEF IInv, OnlyLatest, Alive
  <2>. QED
    BY <1>1, <2>1 DEF Alive, IInv, TypeOK
<1>6. \A m \in Natives : Created(m) => Created(m)' /\ native'[m] = native[m]
  BY <1>1 DEF Created, IInv, TypeOK
<1>7. Created(n)'
  BY <1>1 DEF Created, IInv, TypeOK
<1>8. CallsKnown'
  BY <1>1, <1>2, <1>6, <1>7 DEF CallsKnown, IInv, TypeOK, Created
<1>9. Calm'
  BY <1>2, <1>3 DEF Calm, IInv, TypeOK
<1>10. WokenAfterExit'
  <2>. SUFFICES ASSUME ~stale', NEW d \in Clients, pc[d] \in {"waited", "killed"}
                PROVE  native'[awaited[d]] = "gone"
    BY <1>2 DEF WokenAfterExit
  <2>1. native[awaited[d]] = "gone"
    BY <1>2 DEF IInv, WokenAfterExit
  <2>. QED
    BY <1>1, <2>1 DEF IInv, TypeOK
<1>. QED
  BY <1>2, <1>3, <1>5, <1>8, <1>9, <1>10 DEF IInv, NobodyKills

LEMMA RunEndsOK ==
    ASSUME IInv, NEW n \in Natives, RunEnds(n) \/ ActOnCancel(n)
    PROVE  IInv'
<1>1. /\ native[n] = "running"
      /\ native' = [native EXCEPT ![n] = "exiting"]
      /\ UNCHANGED <<running_, thread_, cancelled, waiting, wakeups, pc, awaited, stale>>
  BY DEF RunEnds, ActOnCancel, threadDone
<1>2. TypeOK'
  BY <1>1 DEF IInv, TypeOK
<1>3. Alive' = Alive
  BY <1>1 DEF Alive, IInv, TypeOK
<1>4. \A m \in Natives : Created(m)' <=> Created(m)
  BY <1>1 DEF Created, IInv, TypeOK
<1>5. CallsKnown'
  BY <1>1, <1>4 DEF CallsKnown, IInv, Created
<1>6. WokenAfterExit'
  BY <1>1 DEF WokenAfterExit, IInv, TypeOK
<1>. QED
  BY <1>1, <1>2, <1>3, <1>5, <1>6 DEF IInv, NobodyKills, OnlyLatest, InOrder, Calm

LEMMA CleanupOK ==
    ASSUME IInv, IsFiniteSet(Clients), NEW n \in Natives, Cleanup(n)
    PROVE  IInv'
<1>1. /\ native[n] = "exiting"
      /\ native' = [native EXCEPT ![n] = "gone"]
      /\ ~running_'
      /\ UNCHANGED <<thread_, cancelled, pc, awaited, stale>>
  BY DEF Cleanup
<1>2. TypeOK'
  BY <1>1, WakeupsCounted DEF Cleanup, IInv, TypeOK
<1>3. OnlyLatest'
  <2>. SUFFICES ASSUME InOrder PROVE Alive' = {}
    BY <1>1 DEF OnlyLatest, InOrder
  <2>1. n = thread_
    BY <1>1 DEF Alive, IInv, OnlyLatest
  <2>. QED
    BY <1>1, <2>1 DEF Alive, IInv, TypeOK, OnlyLatest
<1>4. \A m \in Natives : Created(m) => Created(m)'
  BY <1>1 DEF Created, IInv, TypeOK
<1>5. CallsKnown'
  BY <1>1, <1>4 DEF CallsKnown, IInv, Created
<1>6. WokenAfterExit'
  BY <1>1 DEF WokenAfterExit, IInv, TypeOK
<1>. QED
  BY <1>1, <1>2, <1>3, <1>5, <1>6 DEF IInv, NobodyKills, Calm

(* A call that takes a wakeup in order finds its native thread gone.       *)
LEMMA TakeWakeupOK == ASSUME IInv, NEW c \in Clients, TakeWakeup(c) PROVE IInv'
<1>1. /\ pc[c] \in {"waiting", "killing"}
      /\ wakeups > 0 /\ wakeups' = wakeups - 1
      /\ waiting' = waiting \ {c}
      /\ pc' = [pc EXCEPT ![c] = IF @ = "waiting" THEN "waited" ELSE "killed"]
      /\ UNCHANGED <<running_, thread_, native, cancelled, awaited, stale>>
  BY DEF TakeWakeup, ThreadDone!Wake
<1>2. pc' \in [Clients -> {"idle", "waiting", "killing", "waited", "killed", "expired"}]
  BY <1>1 DEF IInv, TypeOK
<1>3. TypeOK'
  BY <1>1, <1>2 DEF IInv, TypeOK
<1>4. NobodyKills'
  BY <1>1 DEF IInv, NobodyKills, TypeOK
<1>5. CallsKnown'
  BY <1>1 DEF IInv, CallsKnown, Created, TypeOK
<1>6. Calm'
  BY <1>1 DEF IInv, Calm, TypeOK
<1>7. ~stale => native[awaited[c]] = "gone"
  <2>. SUFFICES ASSUME ~stale PROVE native[awaited[c]] = "gone"
    OBVIOUS
  <2>1. Created(awaited[c]) /\ ~running_
    BY <1>1 DEF IInv, CallsKnown, Calm
  <2>2. awaited[c] \notin Alive
    BY <2>1 DEF IInv, OnlyLatest, InOrder, Created
  <2>. QED
    BY <2>1, <2>2 DEF Created, Alive, IInv, TypeOK
<1>8. WokenAfterExit'
  BY <1>1, <1>7 DEF IInv, WokenAfterExit, TypeOK
<1>. QED
  BY <1>1, <1>3, <1>4, <1>5, <1>6, <1>8 DEF IInv, OnlyLatest, InOrder, Alive

LEMMA EnterOK == ASSUME IInv, NEW c \in Clients, Wait(c) \/ Kill(c) PROVE IInv'
<1>1. PICK l \in {"waiting", "killing"} : pc' = [pc EXCEPT ![c] = l]
  BY DEF Wait, Kill
<1>2. /\ running_
      /\ waiting' = waiting \cup {c}
      /\ cancelled' \in {cancelled, cancelled \cup {thread_}}
      /\ awaited' = [awaited EXCEPT ![c] = thread_]
      /\ UNCHANGED <<running_, thread_, native, wakeups, stale>>
  BY DEF Wait, Kill, ThreadDone!Enter
<1>3. Created(thread_)
  BY <1>2 DEF IInv, CallsKnown
<1>4. TypeOK'
  <2>1. pc' \in [Clients -> {"idle", "waiting", "killing", "waited", "killed", "expired"}]
    BY <1>1 DEF IInv, TypeOK
  <2>2. awaited' \in [Clients -> Natives \cup {NoNative}]
    BY <1>2, <1>3 DEF IInv, TypeOK, Created
  <2>. QED
    BY <1>2, <1>3, <2>1, <2>2 DEF IInv, TypeOK, Created
<1>5. NobodyKills'
  <2>. SUFFICES ASSUME Killers = {} PROVE pc' = [pc EXCEPT ![c] = "waiting"]
    BY DEF IInv, NobodyKills, TypeOK
  <2>. QED
    BY DEF Wait, Kill
<1>6. CallsKnown'
  BY <1>1, <1>2, <1>3 DEF IInv, CallsKnown, Created, TypeOK
<1>7. Calm'
  BY <1>1, <1>2 DEF IInv, Calm, TypeOK
<1>8. WokenAfterExit'
  BY <1>1, <1>2 DEF IInv, WokenAfterExit, TypeOK
<1>. QED
  BY <1>2, <1>4, <1>5, <1>6, <1>7, <1>8 DEF IInv, OnlyLatest, InOrder, Alive

LEMMA LeaveOK ==
    ASSUME IInv, NEW c \in Clients, TimeOut(c) \/ Returns(c)
    PROVE  IInv'
<1>1. PICK l \in {"expired", "idle"} : pc' = [pc EXCEPT ![c] = l]
  BY DEF TimeOut, Returns, WaitReturns, KillReturns
<1>2. /\ waiting' \subseteq waiting
      /\ awaited' \in {awaited, [awaited EXCEPT ![c] = NoNative]}
      /\ UNCHANGED <<thread_, native, cancelled, wakeups, stale>>
  BY DEF TimeOut, Returns, WaitReturns, KillReturns, threadDone, ThreadDone!Expire
<1>3. UNCHANGED running_ \/ (pc[c] = "killed" /\ running_' = FALSE)
  BY DEF TimeOut, Returns, WaitReturns, KillReturns
<1>4. TypeOK'
  <2>1. pc' \in [Clients -> {"idle", "waiting", "killing", "waited", "killed", "expired"}]
    BY <1>1 DEF IInv, TypeOK
  <2>2. awaited' \in [Clients -> Natives \cup {NoNative}]
    BY <1>2 DEF IInv, TypeOK
  <2>3. running_' \in BOOLEAN
    BY <1>3 DEF IInv, TypeOK
  <2>. QED
    BY <1>2, <2>1, <2>2, <2>3 DEF IInv, TypeOK
<1>5. InOrder => UNCHANGED running_
  <2>. SUFFICES ASSUME InOrder, pc[c] = "killed" PROVE ~running_
    BY <1>3, <1>4 DEF IInv, TypeOK
  <2>. QED
    BY DEF IInv, InOrder, NobodyKills, Calm
<1>6. OnlyLatest'
  BY <1>2, <1>5 DEF IInv, OnlyLatest, InOrder, Alive
<1>7. NobodyKills'
  BY <1>1 DEF IInv, NobodyKills, TypeOK
<1>8. CallsKnown'
  BY <1>1, <1>2, <1>3 DEF IInv, CallsKnown, Created, TypeOK
<1>9. Calm'
  BY <1>1, <1>2, <1>3 DEF IInv, Calm, TypeOK
<1>10. WokenAfterExit'
  BY <1>1, <1>2 DEF IInv, WokenAfterExit, TypeOK
<1>. QED
  BY <1>4, <1>6, <1>7, <1>8, <1>9, <1>10 DEF IInv

LEMMA NextIInv ==
    ASSUME IsFiniteSet(Clients), IInv, [Next]_vars
    PROVE  IInv'
<1>1. ASSUME NEW n \in Natives, NativeStep(n) PROVE IInv'
  BY <1>1, RunEndsOK, CleanupOK DEF NativeStep
<1>2. ASSUME NEW c \in Clients,
             Start(c) \/ Wait(c) \/ Kill(c) \/ TakeWakeup(c) \/ TimeOut(c) \/ Returns(c)
      PROVE  IInv'
  BY <1>2, StartOK, EnterOK, TakeWakeupOK, LeaveOK
<1>3. CASE UNCHANGED vars
  BY <1>3 DEF vars, IInv, TypeOK, NobodyKills, OnlyLatest, InOrder, Alive, CallsKnown,
              Created, Calm, WokenAfterExit
<1>. QED
  BY <1>1, <1>2, <1>3 DEF Next

LEMMA Invariance ==
    ASSUME IsFiniteSet(Clients)
    PROVE  Spec => []IInv
<1>1. ASSUME Init PROVE IInv
  <2>1. /\ native \in [Natives -> {"none", "running", "exiting", "gone"}]
        /\ pc \in [Clients -> {"idle", "waiting", "killing", "waited", "killed",
                               "expired"}]
        /\ awaited \in [Clients -> Natives \cup {NoNative}]
    BY <1>1 DEF Init
  <2>2. TypeOK
    BY <1>1, <2>1 DEF Init, TypeOK, ThreadDone!Init
  <2>3. OnlyLatest /\ NobodyKills
    BY <1>1 DEF Init, OnlyLatest, Alive, NobodyKills
  <2>4. CallsKnown /\ Calm /\ WokenAfterExit
    BY <1>1 DEF Init, CallsKnown, Calm, WokenAfterExit, ThreadDone!Init
  <2>. QED
    BY <2>2, <2>3, <2>4 DEF IInv
<1>. QED
  BY <1>1, NextIInv, PTL DEF Spec

(* "If the thread is running true is returned, if not false is returned":  *)
(* running() follows the native thread, and start() never makes two native *)
(* threads execute run(), whatever wait() and kill() do, timed out waits   *)
(* included, if no start() overtakes a kill().                             *)
THEOREM RunningAccurate ==
    ASSUME IsFiniteSet(Clients)
    PROVE  Spec => []RunningIsAccurate
<1>1. ASSUME IInv PROVE RunningIsAccurate
  <2>. SUFFICES ASSUME InOrder PROVE Alive = IF running_ THEN {thread_} ELSE {}
    BY DEF RunningIsAccurate, InOrder
  <2>1. \A n : n \in Alive <=> running_ /\ n = thread_
    BY <1>1 DEF IInv, OnlyLatest, Alive, CallsKnown, Created
  <2>. QED
    BY <1>1, <2>1 DEF IInv, TypeOK
<1>. QED
  BY <1>1, Invariance, PTL

(* "the function does not return until the the thread has exited": a       *)
(* wait() or kill() that is woken finds its native thread gone, if no      *)
(* start() came between the wakeups and the calls they were meant for.     *)
THEOREM NotWokenEarly ==
    ASSUME IsFiniteSet(Clients)
    PROVE  Spec => []WokenAfterExit
<1>1. IInv => WokenAfterExit
  BY DEF IInv
<1>. QED
  BY <1>1, Invariance, PTL
==============================================================================
