-------------------------- MODULE ThreadPoolProofs ---------------------------
(***************************************************************************)
(* Theorems about ThreadPool.  For every number of threads, tasks, clients *)
(* and reservations, with retire timeouts and failures to create threads:  *)
(*   - the state stays well formed although idl_threads_ may wrap, the     *)
(*     pool never owns more than max_threads_ threads and forgets none, so *)
(*     that one wait() at a time shuts all of them down;                   *)
(*   - no task is executed twice, or executed when it was refused.         *)
(* Under the assumptions each theorem states:                              *)
(*   - no InternalThread is used after its delete, nor deleted running;    *)
(*   - idl_threads_ counts the workers that wait and are not signalled;    *)
(*   - wait() returns when all tasks are finished.                         *)
(***************************************************************************)
EXTENDS ThreadPool, FiniteSetTheorems, SequenceTheorems, TLAPS

-----------------------------------------------------------------------------
(* Sequences of threads, and the counters. *)

LEMMA Appended ==
    ASSUME NEW S, NEW s \in Seq(S), NEW x \in S
    PROVE  /\ Append(s, x) \in Seq(S)
           /\ Len(Append(s, x)) = Len(s) + 1
           /\ Range(s) \subseteq Range(Append(s, x))
           /\ x \in Range(Append(s, x))
<1>. DEFINE a == Append(s, x)
<1>1. a \in Seq(S) /\ Len(a) = Len(s) + 1
  BY AppendProperties
<1>2. (\A i \in 1 .. Len(s) : a[i] = s[i]) /\ a[Len(s) + 1] = x
  BY AppendProperties
<1>3. Len(s) \in Nat /\ DOMAIN s = 1 .. Len(s) /\ DOMAIN a = 1 .. Len(a)
  BY <1>1, LenProperties
<1>. QED
  BY <1>1, <1>2, <1>3 DEF Range

LEMMA Behead ==
    ASSUME NEW S, NEW s \in Seq(S), s # <<>>
    PROVE  /\ Head(s) \in S
           /\ Tail(s) \in Seq(S)
           /\ \A x \in Range(s) : x = Head(s) \/ x \in Range(Tail(s))
           /\ Tail(s) = <<>> <=> Len(s) = 1
<1>. DEFINE r == Tail(s)
<1>1. /\ Head(s) \in S
      /\ r \in Seq(S)
      /\ Len(r) = Len(s) - 1
      /\ \A i \in 1 .. Len(r) : r[i] = s[i + 1]
  BY HeadTailProperties
<1>2. Len(s) \in Nat \ {0} /\ DOMAIN s = 1 .. Len(s) /\ DOMAIN r = 1 .. Len(r)
  BY <1>1, LenProperties, EmptySeq
<1>3. ASSUME NEW i \in 1 .. Len(s)
      PROVE  s[i] = Head(s) \/ s[i] \in Range(r)
  <2>1. CASE i = 1
    BY <2>1
  <2>2. CASE i # 1
    <3>1. i - 1 \in 1 .. Len(r)
      BY <1>1, <1>2, <2>2
    <3>2. r[i - 1] = s[i]
      BY <1>1, <3>1
    <3>. HIDE DEF r
    <3>. QED
      BY <1>2, <3>1, <3>2 DEF Range
  <2>. QED
    BY <2>1, <2>2
<1>4. \A x \in Range(s) : x = Head(s) \/ x \in Range(r)
  BY <1>2, <1>3 DEF Range
<1>5. r = <<>> <=> Len(s) = 1
  <2>. HIDE DEF r
  <2>1. r # <<>> => Len(r) \in Nat \ {0}
    BY <1>1, EmptySeq
  <2>2. r = <<>> => Len(r) = 0
    OBVIOUS
  <2>. QED
    BY <1>1, <1>2, <2>1, <2>2
<1>. QED
  BY <1>1, <1>4, <1>5

LEMMA LastOut ==
    ASSUME NEW S, NEW s \in Seq(S), s # <<>>
    PROVE  Front(s) \in Seq(S) /\ Last(s) \in S
BY DEF Front, Last

LEMMA WrapType == ASSUME NEW n \in Int PROVE Wrap(n) \in Word
BY PoolAssumption DEF Wrap, Word

LEMMA WrapSmall == ASSUME NEW n \in Nat, n < WordSize PROVE Wrap(n) = n
BY PoolAssumption DEF Wrap

LEMMA PoolCardinality == ASSUME TypeOK PROVE TaskReady!Cardinality(waiting) \in Nat
<1>1. IsFiniteSet(waiting)
  BY PoolAssumption, FS_Subset DEF TypeOK
<1>2. TaskReady!Cardinality(waiting) = Cardinality(waiting)
  BY DEF Cardinality, TaskReady!Cardinality
<1>. QED
  BY <1>1, <1>2, FS_CardinalityType

LEMMA Signalled ==
    ASSUME TypeOK, TaskReady!SignalOne \/ TaskReady!SignalAll
    PROVE  waiting' = waiting /\ wakeups' \in Nat
BY PoolCardinality DEF TaskReady!SignalOne, TaskReady!SignalAll, TaskReady!Least, TypeOK

(* Spawning keeps to the limit: no thread is idle or retired then, so all  *)
(* of all_threads_ is active and the unsigned sum has not wrapped.         *)
LEMMA RoomToSpawn ==
    ASSUME TypeOK, ThreadLimit, NEW res \in 0 .. MaxThreads, Unreserved(res),
           idl_threads_ = 0, ret_threads_ = <<>>
    PROVE  Len(all_threads_) < MaxThreads
<1>1. Len(all_threads_) \in Nat /\ Len(ret_threads_) = 0
  BY DEF TypeOK
<1>2. Len(all_threads_) + res - Len(ret_threads_) - idl_threads_ = Len(all_threads_) + res
  BY <1>1
<1>3. MaxThreads \in Nat /\ WordSize \in Nat /\ WordSize > 2 * MaxThreads
  BY PoolAssumption
<1>4. Len(all_threads_) + res < WordSize
  BY <1>1, <1>3 DEF ThreadLimit
<1>5. ActiveWith(res) = Len(all_threads_) + res
  BY <1>1, <1>2, <1>4, WrapSmall DEF ActiveWith
<1>. QED
  BY <1>1, <1>3, <1>5 DEF Unreserved

-----------------------------------------------------------------------------
(* The inductive invariant.  ThreadLimit needs the types, for the sums to  *)
(* be sums of naturals; that no thread is forgotten needs to know when the *)
(* copies that wait() makes are empty.                                     *)

IInv == TypeOK /\ ThreadLimit /\ WorkersListed

(* The part of it that the workers and try_start() disturb. *)
PoolOK ==
    /\ pol_threads_ \in Word
    /\ idl_threads_ \in Word
    /\ all_threads_ \in Seq(Workers)
    /\ ret_threads_ \in Seq(Workers)
    /\ queue_ \subseteq Tasks \X Priorities
    /\ waiting \subseteq Workers
    /\ wakeups \in Nat
    /\ wpc \in [Workers -> WPCs]
    /\ task_ \in [Workers -> Tasks \cup {NULL}]
    /\ ExecutesTask
    /\ undefined \in BOOLEAN
    /\ ThreadLimit
    /\ WorkersListed

(* The part that the clients and the history keep. *)
ClientsOK ==
    /\ exiting_ \in BOOLEAN
    /\ res_threads_ \in 0 .. MaxThreads
    /\ cpc \in [Clients -> CPCs]
    /\ joining \in [Clients -> Seq(Workers)]
    /\ accepted \subseteq Tasks
    /\ finished \subseteq Tasks

LEMMA Parts == /\ IInv <=> PoolOK /\ ClientsOK
               /\ IInv' <=> PoolOK' /\ ClientsOK'
BY DEF IInv, PoolOK, ClientsOK, TypeOK

Exists(w) == wpc[w] \notin {"absent", "deleted"}

(* A worker that exists already may change its pc; lists stay as they are. *)
LEMMA PcMoves ==
    ASSUME IInv, NEW w \in Workers, Exists(w), NEW l \in WPCs,
           wpc' = [wpc EXCEPT ![w] = l], UNCHANGED <<all_threads_, clients>>
    PROVE  wpc' \in [Workers -> WPCs] /\ ThreadLimit' /\ WorkersListed'
<1>1. wpc' \in [Workers -> WPCs]
  BY DEF IInv, TypeOK
<1>2. \A v \in Workers : wpc'[v] \notin {"absent", "deleted"} => Exists(v)
  BY DEF IInv, TypeOK, Exists
<1>3. Joined' = Joined /\ Range(all_threads_)' = Range(all_threads_)
  BY DEF Joined, clients
<1>4. WorkersListed'
  BY <1>2, <1>3 DEF IInv, WorkersListed, Exists, clients
<1>. QED
  BY <1>1, <1>4 DEF IInv, ThreadLimit

LEMMA ListsUnchanged ==
    ASSUME IInv, UNCHANGED <<wpc, all_threads_, clients>>
    PROVE  ThreadLimit' /\ WorkersListed'
<1>1. Joined' = Joined /\ Range(all_threads_)' = Range(all_threads_)
  BY DEF Joined, clients
<1>. QED
  BY <1>1 DEF IInv, ThreadLimit, WorkersListed, clients

LEMMA TasksKept ==
    ASSUME IInv,
           \A w \in Workers :
              wpc'[w] = "exec" => wpc[w] = "exec" /\ task_'[w] = task_[w]
    PROVE  ExecutesTask'
BY DEF IInv, TypeOK, ExecutesTask

LEMMA TaskGiven ==
    ASSUME IInv, NEW w \in Workers, NEW t \in Tasks, NEW l \in WPCs,
           task_' = [task_ EXCEPT ![w] = t],
           wpc' = [wpc EXCEPT ![w] = l] \/ wpc' = wpc
    PROVE  ExecutesTask'
BY PoolAssumption DEF IInv, TypeOK, ExecutesTask, NULL

LEMMA CountersInt == ASSUME IInv PROVE pol_threads_ \in Int /\ idl_threads_ \in Int
BY PoolAssumption DEF IInv, TypeOK, Word

LEMMA FetchOK ==
    ASSUME IInv, NEW w \in Workers, Exists(w), Fetch(w), pol_threads_' \in Word,
           UNCHANGED <<idl_threads_, all_threads_, ret_threads_, taskReady, clients,
                       undefined>>
    PROVE  PoolOK'
<1>1. PICK top \in queue_ : /\ task_' = [task_ EXCEPT ![w] = top[1]]
                            /\ queue_' = queue_ \ {top}
                            /\ wpc' = [wpc EXCEPT ![w] = "exec"]
  BY DEF Fetch, TopEntries
<1>2. top[1] \in Tasks
  BY DEF IInv, TypeOK
<1>3. wpc' \in [Workers -> WPCs] /\ ThreadLimit' /\ WorkersListed'
  BY <1>1, PcMoves DEF WPCs
<1>4. ExecutesTask'
  BY <1>1, <1>2, TaskGiven DEF WPCs
<1>. QED
  BY <1>1, <1>2, <1>3, <1>4 DEF IInv, TypeOK, PoolOK, taskReady

LEMMA NoTaskOK ==
    ASSUME IInv, NEW w \in Workers, Exists(w), NEW polled \in {0, 1},
           NoTask(w, polled), UNCHANGED <<all_threads_, clients, undefined>>
    PROVE  PoolOK'
<1>1. pol_threads_' \in Word /\ Wrap(idl_threads_ + 1) \in Word
  <2>1. pol_threads_ \in Int /\ idl_threads_ \in Int
    BY CountersInt
  <2>2. pol_threads_ + polled - 1 \in Int /\ idl_threads_ + 1 \in Int
    BY <2>1
  <2>. QED
    BY <2>2, WrapType DEF NoTask
<1>2. PICK l \in {"leaving", "waiting"} : wpc' = [wpc EXCEPT ![w] = l]
  BY DEF NoTask
<1>3. wpc' \in [Workers -> WPCs] /\ ThreadLimit' /\ WorkersListed'
  BY <1>2, PcMoves DEF WPCs
<1>4. /\ queue_' = queue_
      /\ task_' \in [Workers -> Tasks \cup {NULL}]
  BY DEF NoTask, IInv, TypeOK
<1>5. /\ idl_threads_' \in Word
      /\ ret_threads_' \in Seq(Workers)
      /\ waiting' \subseteq Workers
      /\ wakeups' \in Nat
  <2>1. CASE UNCHANGED <<idl_threads_, taskReady>> /\ ret_threads_' = ret_threads_
    BY <2>1 DEF taskReady, IInv, TypeOK
  <2>2. CASE UNCHANGED <<idl_threads_, taskReady>> /\ ret_threads_' = Append(ret_threads_, w)
    BY <2>2 DEF taskReady, IInv, TypeOK
  <2>3. CASE /\ idl_threads_' = Wrap(idl_threads_ + 1)
             /\ TaskReady!Enter(w)
             /\ UNCHANGED ret_threads_
    BY <1>1, <2>3 DEF TaskReady!Enter, IInv, TypeOK
  <2>. QED
    BY <2>1, <2>2, <2>3 DEF NoTask
<1>6. ExecutesTask'
  <2>1. wpc'[w] # "exec" /\ \A v \in Workers : v # w => wpc'[v] = wpc[v] /\ task_'[v] = task_[v]
    BY <1>2 DEF NoTask, IInv, TypeOK
  <2>. QED
    BY <2>1, TasksKept
<1>. QED
  BY <1>1, <1>3, <1>4, <1>5, <1>6 DEF IInv, TypeOK, PoolOK

(* What try_start() does to the pool in each of its branches. *)

LEMMA SpawnOK ==
    ASSUME IInv, NEW t \in Tasks, NEW created \in BOOLEAN, NEW res \in 0 .. MaxThreads,
           Unreserved(res), Spawn(t, created), UNCHANGED clients
    PROVE  /\ pol_threads_' \in Word
           /\ idl_threads_' = idl_threads_
           /\ all_threads_' \in Seq(Workers)
           /\ ret_threads_' = ret_threads_
           /\ wpc' \in [Workers -> WPCs]
           /\ task_' \in [Workers -> Tasks \cup {NULL}]
           /\ ExecutesTask'
           /\ undefined' = undefined
           /\ ThreadLimit'
           /\ WorkersListed'
<1>1. PICK w \in Workers :
          /\ all_threads_' = Append(all_threads_, w)
          /\ task_' = [task_ EXCEPT ![w] = t]
          /\ wpc' = [wpc EXCEPT ![w] = IF created THEN "exec" ELSE "done"]
  BY DEF Spawn
<1>2. wpc' \in [Workers -> WPCs] /\ task_' \in [Workers -> Tasks \cup {NULL}]
  BY <1>1 DEF IInv, TypeOK, WPCs
<1>3. /\ all_threads_' \in Seq(Workers)
      /\ Len(all_threads_') = Len(all_threads_) + 1
      /\ Range(all_threads_) \subseteq Range(all_threads_')
      /\ w \in Range(all_threads_')
  BY <1>1, Appended DEF IInv, TypeOK
<1>4. ThreadLimit'
  <2>1. Len(all_threads_) < MaxThreads
    BY RoomToSpawn DEF Spawn, IInv
  <2>2. Len(all_threads_) \in Nat /\ MaxThreads \in Nat
    BY PoolAssumption DEF IInv, TypeOK
  <2>. QED
    BY <1>3, <2>1, <2>2 DEF ThreadLimit
<1>5. WorkersListed'
  <2>1. Joined' = Joined
    BY DEF Joined, clients
  <2>2. \A v \in Workers : v # w => wpc'[v] = wpc[v]
    BY <1>1 DEF IInv, TypeOK
  <2>3. \A v \in Workers : wpc'[v] \notin {"absent", "deleted"}
                           => v \in Range(all_threads_') \cup Joined
    BY <1>3, <2>2 DEF IInv, WorkersListed
  <2>. QED
    BY <2>1, <2>3 DEF IInv, WorkersListed, clients
<1>6. pol_threads_' \in Word
  BY CountersInt, WrapType DEF Spawn
<1>7. ExecutesTask'
  BY <1>1, TaskGiven DEF WPCs
<1>. QED
  BY <1>2, <1>3, <1>4, <1>5, <1>6, <1>7 DEF Spawn

LEMMA StartedOK ==
    ASSUME IInv, NEW t \in Tasks, NEW q \in SUBSET (Tasks \X Priorities),
           NEW res \in 0 .. MaxThreads, Started(t, q, res), UNCHANGED clients
    PROVE  PoolOK'
<1>1. CASE HandToIdle(t, q)
  <2>1. idl_threads_' \in Word
    BY <1>1, PoolAssumption DEF HandToIdle, IInv, TypeOK, Word
  <2>2. queue_' \subseteq Tasks \X Priorities
    BY <1>1, PoolAssumption DEF HandToIdle
  <2>3. waiting' = waiting /\ wakeups' \in Nat
    BY <1>1, Signalled DEF HandToIdle, IInv
  <2>4. ThreadLimit' /\ WorkersListed' /\ ExecutesTask'
    BY <1>1, ListsUnchanged, TasksKept DEF HandToIdle, workers
  <2>. QED
    BY <1>1, <2>1, <2>2, <2>3, <2>4 DEF HandToIdle, PoolOK, IInv, TypeOK, workers
<1>2. CASE Restart(t, q)
  <2>. DEFINE w == Last(ret_threads_)
  <2>1. ret_threads_' \in Seq(Workers) /\ w \in Workers
    BY <1>2, LastOut DEF Restart, IInv, TypeOK
  <2>2. task_' \in [Workers -> Tasks \cup {NULL}]
    BY <1>2 DEF Restart, IInv, TypeOK
  <2>3. wpc' = wpc \/ (Exists(w) /\ wpc' = [wpc EXCEPT ![w] = "exec"])
    BY <1>2 DEF Restart, Exists
  <2>4. UNCHANGED <<all_threads_, clients>>
    BY <1>2 DEF Restart
  <2>5. wpc' \in [Workers -> WPCs] /\ ThreadLimit' /\ WorkersListed'
    <3>. HIDE DEF w
    <3>1. CASE wpc' = wpc
      BY <2>4, <3>1, ListsUnchanged DEF IInv, TypeOK
    <3>2. CASE Exists(w) /\ wpc' = [wpc EXCEPT ![w] = "exec"]
      BY <2>1, <2>4, <3>2, PcMoves DEF WPCs
    <3>. QED
      BY <2>3, <3>1, <3>2
  <2>6. pol_threads_' \in Word
    BY <1>2, CountersInt, WrapType DEF Restart
  <2>7. undefined' \in BOOLEAN /\ UNCHANGED <<idl_threads_, taskReady>> /\ queue_' = q
    BY <1>2 DEF Restart
  <2>8. ExecutesTask'
    <3>1. task_' = [task_ EXCEPT ![w] = t]
      BY <1>2 DEF Restart
    <3>. HIDE DEF w
    <3>. QED
      BY <2>1, <2>3, <3>1, TaskGiven DEF WPCs
  <2>. QED
    BY <2>1, <2>2, <2>4, <2>5, <2>6, <2>7, <2>8 DEF PoolOK, IInv, TypeOK, taskReady
<1>3. CASE Spawn(t, TRUE) /\ queue_' = q /\ UNCHANGED taskReady
  <2>1. Unreserved(res)
    BY DEF Started
  <2>. QED
    BY <1>3, <2>1, SpawnOK DEF PoolOK, taskReady, IInv, TypeOK
<1>. QED
  BY <1>1, <1>2, <1>3 DEF Started

LEMMA NotStartedOK ==
    ASSUME IInv, NEW t \in Tasks, NEW res \in 0 .. MaxThreads, NotStarted(t, res),
           UNCHANGED clients, queue_' \subseteq Tasks \X Priorities,
           waiting' = waiting, wakeups' \in Nat
    PROVE  PoolOK'
<1>1. CASE UNCHANGED <<pol_threads_, idl_threads_, all_threads_, ret_threads_,
                       workers, undefined>>
  BY <1>1, ListsUnchanged, TasksKept DEF PoolOK, IInv, TypeOK, workers
<1>2. CASE Unreserved(res) /\ CreateFails /\ Spawn(t, FALSE)
  BY <1>2, SpawnOK DEF PoolOK, IInv, TypeOK
<1>. QED
  BY <1>1, <1>2 DEF NotStarted

-----------------------------------------------------------------------------
(* The steps of wait(). *)

(* Moving all_threads_ to the copy of a wait() forgets none of its threads *)
(* because that copy was empty.                                            *)
LEMMA JoinOrFinishOK ==
    ASSUME IInv, NEW c \in Clients, cpc[c] \in {"idle", "relock"}, NEW e \in BOOLEAN,
           JoinOrFinish(c, e), UNCHANGED <<res_threads_, queue_, workers, history>>,
           waiting' = waiting, wakeups' \in Nat
    PROVE  IInv'
<1>1. joining[c] = <<>> /\ ExecutesTask'
  BY TasksKept DEF IInv, WorkersListed, workers
<1>2. CASE /\ all_threads_ # <<>>
           /\ joining' = [joining EXCEPT ![c] = all_threads_]
           /\ all_threads_' = <<>>
           /\ cpc' = [cpc EXCEPT ![c] = "join"]
           /\ exiting_' = e
           /\ UNCHANGED <<ret_threads_, pol_threads_, idl_threads_>>
  <2>1. /\ all_threads_' \in Seq(Workers)
        /\ joining' \in [Clients -> Seq(Workers)]
        /\ cpc' \in [Clients -> CPCs]
    BY <1>2 DEF IInv, TypeOK, CPCs
  <2>2. TypeOK'
    BY <1>1, <1>2, <2>1 DEF IInv, TypeOK, workers, history
  <2>3. ThreadLimit'
    BY <1>2, PoolAssumption DEF ThreadLimit
  <2>4. Range(all_threads_) \cup Joined \subseteq Joined'
    <3>1. joining'[c] = all_threads_ /\ \A d \in Clients : d # c => joining'[d] = joining[d]
      BY <1>2 DEF IInv, TypeOK
    <3>2. Range(joining[c]) = {}
      BY <1>1 DEF Range
    <3>. QED
      BY <3>1, <3>2 DEF Joined
  <2>5. \A d \in Clients : joining'[d] = <<>> <=> cpc'[d] \in {"idle", "relock"}
    BY <1>2 DEF IInv, TypeOK, WorkersListed
  <2>6. WorkersListed'
    BY <2>4, <2>5 DEF IInv, WorkersListed, workers
  <2>. QED
    BY <2>2, <2>3, <2>6 DEF IInv
<1>3. CASE /\ all_threads_ = <<>>
           /\ ret_threads_' = <<>>
           /\ pol_threads_' = 0
           /\ idl_threads_' = 0
           /\ exiting_' = FALSE
           /\ cpc' = [cpc EXCEPT ![c] = "idle"]
           /\ UNCHANGED <<all_threads_, joining>>
  <2>1. /\ ret_threads_' \in Seq(Workers)
        /\ pol_threads_' \in Word
        /\ idl_threads_' \in Word
        /\ cpc' \in [Clients -> CPCs]
    BY <1>3, PoolAssumption DEF IInv, TypeOK, CPCs, Word
  <2>2. TypeOK'
    BY <1>1, <1>3, <2>1 DEF IInv, TypeOK, workers, history
  <2>3. ThreadLimit'
    BY <1>3 DEF IInv, ThreadLimit
  <2>4. Joined' = Joined
    BY <1>3 DEF Joined
  <2>5. \A d \in Clients : joining'[d] = <<>> <=> cpc'[d] \in {"idle", "relock"}
    BY <1>1, <1>3 DEF IInv, TypeOK, WorkersListed
  <2>6. WorkersListed'
    BY <1>3, <2>4, <2>5 DEF IInv, WorkersListed, workers
  <2>. QED
    BY <2>2, <2>3, <2>6 DEF IInv
<1>. QED
  BY <1>2, <1>3 DEF JoinOrFinish

LEMMA JoinOK == ASSUME IInv, NEW c \in Clients, Join(c) PROVE IInv'
<1>1. PICK l \in {"joining", "delete"} : cpc' = [cpc EXCEPT ![c] = l]
  BY DEF Join
<1>2. TypeOK'
  BY <1>1, TasksKept DEF Join, IInv, TypeOK, CPCs, counters, taskReady, workers, history
<1>3. Joined' = Joined
  BY DEF Join, Joined
<1>4. \A d \in Clients : joining'[d] = <<>> <=> cpc'[d] \in {"idle", "relock"}
  BY <1>1 DEF Join, IInv, TypeOK, WorkersListed
<1>5. WorkersListed'
  BY <1>3, <1>4 DEF Join, IInv, WorkersListed, workers
<1>. QED
  BY <1>2, <1>5 DEF Join, IInv, ThreadLimit

LEMMA DeleteOK == ASSUME IInv, NEW c \in Clients, Delete(c) PROVE IInv'
<1>. DEFINE w == Head(joining[c])
<1>1. joining[c] \in Seq(Workers) /\ joining[c] # <<>>
  BY DEF Delete, IInv, TypeOK, WorkersListed
<1>2. /\ w \in Workers
      /\ Tail(joining[c]) \in Seq(Workers)
      /\ \A x \in Range(joining[c]) : x = w \/ x \in Range(Tail(joining[c]))
      /\ Tail(joining[c]) = <<>> <=> Len(joining[c]) = 1
  BY <1>1, Behead
<1>3. /\ wpc' = [wpc EXCEPT ![w] = "deleted"]
      /\ joining' = [joining EXCEPT ![c] = Tail(joining[c])]
      /\ cpc' = [cpc EXCEPT ![c] = IF Len(joining[c]) = 1 THEN "relock" ELSE "join"]
      /\ undefined' \in BOOLEAN
  BY DEF Delete
<1>. HIDE DEF w
<1>4. TypeOK'
  <2>1. /\ wpc' \in [Workers -> WPCs]
        /\ joining' \in [Clients -> Seq(Workers)]
        /\ cpc' \in [Clients -> CPCs]
    BY <1>2, <1>3 DEF IInv, TypeOK, WPCs, CPCs
  <2>2. ExecutesTask'
    BY <1>2, <1>3, TasksKept DEF Delete, IInv, TypeOK
  <2>. QED
    BY <1>3, <2>1, <2>2 DEF Delete, IInv, TypeOK, counters, taskReady
<1>5. \A d \in Clients : joining'[d] = <<>> <=> cpc'[d] \in {"idle", "relock"}
  BY <1>2, <1>3 DEF IInv, TypeOK, WorkersListed
<1>6. \A x \in Joined : x = w \/ x \in Joined'
  <2>1. joining'[c] = Tail(joining[c]) /\ \A d \in Clients : d # c => joining'[d] = joining[d]
    BY <1>3 DEF IInv, TypeOK
  <2>. QED
    BY <1>2, <2>1 DEF Joined
<1>7. \A v \in Workers : wpc'[v] \notin {"absent", "deleted"} => v # w /\ wpc'[v] = wpc[v]
  BY <1>2, <1>3 DEF IInv, TypeOK
<1>8. WorkersListed'
  BY <1>5, <1>6, <1>7 DEF Delete, IInv, WorkersListed
<1>. QED
  BY <1>4, <1>8 DEF Delete, IInv, ThreadLimit

LEMMA WaitOK == ASSUME IInv, NEW c \in Clients, Wait(c) \/ WaitAgain(c) PROVE IInv'
<1>1. CASE Wait(c)
  BY <1>1, Signalled, JoinOrFinishOK DEF Wait, IInv
<1>2. CASE WaitAgain(c)
  BY <1>2, JoinOrFinishOK DEF WaitAgain, IInv, TypeOK, taskReady
<1>. QED
  BY <1>1, <1>2

(* Thread::cleanup moves the joiners on, within their copies. *)
LEMMA CleanupOK == ASSUME IInv, NEW w \in Workers, Cleanup(w) PROVE IInv'
<1>1. wpc' \in [Workers -> WPCs]
  BY DEF Cleanup, IInv, TypeOK, WPCs
<1>2. /\ cpc' \in [Clients -> CPCs]
      /\ \A c \in Clients : cpc'[c] = cpc[c] \/ (cpc[c] = "joining" /\ cpc'[c] = "delete")
  BY DEF Cleanup, IInv, TypeOK, CPCs
<1>3. TypeOK'
  <2>1. ExecutesTask'
    BY TasksKept DEF Cleanup, IInv, TypeOK
  <2>. QED
    BY <1>1, <1>2, <2>1 DEF Cleanup, IInv, TypeOK, counters, taskReady, history
<1>4. Joined' = Joined
  BY DEF Cleanup, Joined
<1>5. \A v \in Workers : wpc'[v] \notin {"absent", "deleted"} => Exists(v)
  BY DEF Cleanup, IInv, TypeOK, Exists
<1>6. \A c \in Clients : joining'[c] = <<>> <=> cpc'[c] \in {"idle", "relock"}
  BY <1>2 DEF Cleanup, IInv, WorkersListed
<1>7. WorkersListed'
  BY <1>4, <1>5, <1>6 DEF Cleanup, IInv, WorkersListed, Exists
<1>. QED
  BY <1>3, <1>7 DEF Cleanup, IInv, ThreadLimit

-----------------------------------------------------------------------------
(* The steps of the workers. *)

LEMMA EndTaskOK == ASSUME IInv, NEW w \in Workers, EndTask(w) PROVE IInv'
<1>1. Exists(w) /\ finished' \subseteq Tasks
  BY DEF EndTask, Exists, IInv, TypeOK, ExecutesTask
<1>2. PoolOK'
  <2>1. CASE Fetch(w) /\ UNCHANGED <<pol_threads_, idl_threads_, ret_threads_, taskReady>>
    BY <1>1, <2>1, FetchOK DEF EndTask, IInv, TypeOK
  <2>2. CASE NoTask(w, 0)
    BY <1>1, <2>2, NoTaskOK DEF EndTask
  <2>. QED
    BY <2>1, <2>2 DEF EndTask
<1>3. ClientsOK'
  BY <1>1 DEF EndTask, ClientsOK, IInv, TypeOK, clients
<1>. QED
  BY <1>2, <1>3, Parts

LEMMA ResumeOK == ASSUME IInv, NEW w \in Workers, Resume(w) PROVE IInv'
<1>1. Exists(w)
  BY DEF Resume, Exists
<1>2. PoolOK'
  <2>1. CASE /\ Fetch(w)
             /\ pol_threads_' = Wrap(pol_threads_ + 1)
             /\ UNCHANGED <<idl_threads_, ret_threads_, taskReady>>
    <3>1. pol_threads_' \in Word
      BY <2>1, CountersInt, WrapType
    <3>. QED
      BY <1>1, <2>1, <3>1, FetchOK DEF Resume, history
  <2>2. CASE NoTask(w, 1)
    BY <1>1, <2>2, NoTaskOK DEF Resume, history
  <2>. QED
    BY <2>1, <2>2 DEF Resume
<1>3. ClientsOK'
  BY DEF Resume, ClientsOK, IInv, TypeOK, clients, history
<1>. QED
  BY <1>2, <1>3, Parts

LEMMA WaitForWorkOK ==
    ASSUME IInv, NEW w \in Workers, TakeWakeup(w) \/ TimeOut(w)
    PROVE  IInv'
<1>1. /\ Exists(w)
      /\ waiting' \subseteq Workers
      /\ wakeups' \in Nat
  BY DEF TakeWakeup, TimeOut, TaskReady!Wake, TaskReady!Expire, Exists, IInv, TypeOK
<1>2. PICK l \in {"woken", "expired"} : wpc' = [wpc EXCEPT ![w] = l]
  BY DEF TakeWakeup, TimeOut
<1>3. UNCHANGED <<exiting_, counters, all_threads_, ret_threads_, queue_, task_,
                  clients, history>>
  BY DEF TakeWakeup, TimeOut
<1>4. wpc' \in [Workers -> WPCs] /\ ThreadLimit' /\ WorkersListed'
  BY <1>1, <1>2, <1>3, PcMoves DEF WPCs
<1>5. ExecutesTask'
  BY <1>2, <1>3, TasksKept DEF IInv, TypeOK
<1>. QED
  BY <1>1, <1>3, <1>4, <1>5 DEF IInv, TypeOK, counters, clients, history

LEMMA RetireOK == ASSUME IInv, NEW w \in Workers, Retire(w) PROVE IInv'
<1>1. wpc' \in [Workers -> WPCs] /\ ThreadLimit' /\ WorkersListed'
  BY PcMoves DEF Retire, Exists, WPCs
<1>2. idl_threads_' \in Word /\ ret_threads_' \in Seq(Workers)
  BY CountersInt, WrapType DEF Retire, IInv, TypeOK
<1>3. ExecutesTask'
  BY TasksKept DEF Retire, IInv, TypeOK
<1>. QED
  BY <1>1, <1>2, <1>3 DEF Retire, IInv, TypeOK, taskReady, clients, history

-----------------------------------------------------------------------------
(* The calls that start tasks. *)

LEMMA StartOK ==
    ASSUME IInv, NEW c \in Clients, NEW t \in Tasks, NEW p \in Priorities, Start(c, t, p)
    PROVE  IInv'
<1>1. queue_ \in SUBSET (Tasks \X Priorities) /\ res_threads_ \in 0 .. MaxThreads
  BY DEF IInv, TypeOK
<1>2. UNCHANGED clients
  BY DEF Start
<1>3. PoolOK'
  <2>1. CASE Started(t, queue_, res_threads_)
    BY <1>1, <1>2, <2>1, StartedOK
  <2>2. CASE NotStarted(t, res_threads_) /\ enqueue(t, p)
    <3>1. queue_' \subseteq Tasks \X Priorities
      BY <1>1, <2>2 DEF enqueue
    <3>2. waiting' = waiting /\ wakeups' \in Nat
      BY <2>2, Signalled DEF enqueue, IInv
    <3>. QED
      BY <1>1, <1>2, <2>2, <3>1, <3>2, NotStartedOK
  <2>. QED
    BY <2>1, <2>2 DEF Start
<1>4. ClientsOK'
  BY DEF Start, ClientsOK, IInv, TypeOK, clients
<1>. QED
  BY <1>3, <1>4, Parts

LEMMA StartNowOK ==
    ASSUME IInv, NEW c \in Clients, NEW t \in Tasks, StartNow(c, t)
    PROVE  IInv'
<1>1. queue_ \in SUBSET (Tasks \X Priorities) /\ res_threads_ \in 0 .. MaxThreads
  BY DEF IInv, TypeOK
<1>2. UNCHANGED clients
  BY DEF StartNow
<1>3. PoolOK'
  <2>1. CASE Started(t, queue_, res_threads_)
    BY <1>1, <1>2, <2>1, StartedOK
  <2>2. CASE NotStarted(t, res_threads_) /\ UNCHANGED <<queue_, taskReady, accepted>>
    BY <1>1, <1>2, <2>2, NotStartedOK DEF IInv, TypeOK, taskReady
  <2>. QED
    BY <2>1, <2>2 DEF StartNow
<1>4. ClientsOK'
  BY DEF StartNow, ClientsOK, IInv, TypeOK, clients
<1>. QED
  BY <1>3, <1>4, Parts

LEMMA ReserveOK ==
    ASSUME IInv, NEW c \in Clients, NEW n \in Reservations, Reserve(c, n)
    PROVE  IInv'
<1>1. res_threads_' \in 0 .. MaxThreads
  BY PoolAssumption DEF Reserve
<1>2. UNCHANGED clients
  BY DEF Reserve
<1>3. PoolOK'
  <2>1. CASE queue_ # {} /\ \E top \in TopEntries(queue_) :
                \/ Started(top[1], queue_ \ {top}, res_threads_')
                \/ /\ NotStarted(top[1], res_threads_')
                   /\ UNCHANGED <<queue_, taskReady>>
    <3>1. PICK top \in queue_ :
                \/ Started(top[1], queue_ \ {top}, res_threads_')
                \/ /\ NotStarted(top[1], res_threads_')
                   /\ UNCHANGED <<queue_, taskReady>>
      BY <2>1 DEF TopEntries
    <3>2. top[1] \in Tasks /\ queue_ \ {top} \in SUBSET (Tasks \X Priorities)
      BY DEF IInv, TypeOK
    <3>3. CASE Started(top[1], queue_ \ {top}, res_threads_')
      BY <1>1, <1>2, <3>2, <3>3, StartedOK
    <3>4. CASE NotStarted(top[1], res_threads_') /\ UNCHANGED <<queue_, taskReady>>
      BY <1>1, <1>2, <3>2, <3>4, NotStartedOK DEF IInv, TypeOK, taskReady
    <3>. QED
      BY <3>1, <3>3, <3>4
  <2>2. CASE UNCHANGED <<pol_threads_, idl_threads_, all_threads_, ret_threads_,
                         queue_, taskReady, workers, undefined>>
    BY <1>2, <2>2, ListsUnchanged, TasksKept DEF PoolOK, IInv, TypeOK, taskReady, workers
  <2>. QED
    BY <2>1, <2>2 DEF Reserve
<1>4. ClientsOK'
  BY <1>1 DEF Reserve, ClientsOK, IInv, TypeOK, clients
<1>. QED
  BY <1>3, <1>4, Parts

-----------------------------------------------------------------------------

LEMMA InitIInv == Init => IInv
<1>. SUFFICES ASSUME Init PROVE IInv
  OBVIOUS
<1>1. 0 \in Word /\ 0 \in 0 .. MaxThreads
  BY PoolAssumption DEF Word
<1>2. /\ wpc \in [Workers -> WPCs]
      /\ task_ \in [Workers -> Tasks \cup {NULL}]
      /\ cpc \in [Clients -> CPCs]
  BY DEF Init, WPCs, CPCs
<1>3. ExecutesTask /\ joining \in [Clients -> Seq(Workers)]
  BY DEF Init, ExecutesTask
<1>4. /\ all_threads_ \in Seq(Workers)
      /\ ret_threads_ \in Seq(Workers)
      /\ waiting \subseteq Workers
      /\ wakeups \in Nat
  BY DEF Init, TaskReady!Init
<1>5. TypeOK
  BY <1>1, <1>2, <1>3, <1>4 DEF Init, TypeOK
<1>6. ThreadLimit
  BY PoolAssumption DEF Init, ThreadLimit
<1>7. WorkersListed
  BY DEF Init, WorkersListed
<1>. QED
  BY <1>5, <1>6, <1>7 DEF IInv

LEMMA NextIInv == IInv /\ [Next]_vars => IInv'
<1>. SUFFICES ASSUME IInv, [Next]_vars PROVE IInv'
  OBVIOUS
<1>. USE DEF Clients
<1>1. ASSUME NEW w \in Workers, WorkerStep(w) \/ TakeWakeup(w) \/ TimeOut(w)
      PROVE  IInv'
  BY <1>1, EndTaskOK, ResumeOK, RetireOK, CleanupOK, WaitForWorkOK DEF WorkerStep
<1>2. ASSUME NEW c \in Submitters, NEW t \in Tasks,
             StartNow(c, t) \/ \E p \in Priorities : Start(c, t, p)
      PROVE  IInv'
  BY <1>2, StartOK, StartNowOK
<1>3. ASSUME NEW c \in Owners, Wait(c) \/ WaitStep(c) \/ \E n \in Reservations : Reserve(c, n)
      PROVE  IInv'
  BY <1>3, JoinOK, DeleteOK, WaitOK, ReserveOK DEF WaitStep
<1>4. CASE UNCHANGED vars
  <2>1. TypeOK'
    BY <1>4, TasksKept DEF IInv, TypeOK, vars, counters, taskReady, workers, clients, history
  <2>2. ThreadLimit' /\ WorkersListed'
    BY <1>4, ListsUnchanged DEF vars, workers
  <2>. QED
    BY <2>1, <2>2 DEF IInv
<1>. QED
  BY <1>1, <1>2, <1>3, <1>4 DEF Next

LEMMA Invariance == Spec => []IInv
BY InitIInv, NextIInv, PTL DEF Spec

(* The types are kept, and a worker that executes has a task to execute,   *)
(* although idl_threads_ is decremented for a thread that try_start() has  *)
(* taken out of it already: it wraps, and stays an unsigned word.          *)
THEOREM TypeCorrect == Spec => []TypeOK
BY Invariance, PTL DEF IInv

(* all_threads_ never holds more than max_threads_ threads: try_start()    *)
(* spawns only when idl_threads_ is 0 and ret_threads_ is empty, and then  *)
(* active_threads() is exact, whatever was in the two before.              *)
THEOREM KeepsToLimit == Spec => []ThreadLimit
BY Invariance, PTL DEF IInv

(* A thread that exists is in all_threads_ or in the copy a wait() joins.  *)
THEOREM NoThreadForgotten == Spec => [](WorkersListed /\ NoOrphan)
<1>1. IInv => WorkersListed /\ NoOrphan
  BY DEF IInv, WorkersListed, NoOrphan, Live, Running
<1>. QED
  BY <1>1, Invariance, PTL

-----------------------------------------------------------------------------
(* When wait() returns. *)

(* Only owners call wait(). *)
OthersIdle == \A c \in Clients \ Owners : cpc[c] = "idle"

LEMMA OthersStayIdle == IInv /\ OthersIdle /\ [Next]_vars => OthersIdle'
<1>. SUFFICES ASSUME IInv, OthersIdle, [Next]_vars PROVE OthersIdle'
  OBVIOUS
<1>1. ASSUME NEW w \in Workers, Cleanup(w) PROVE OthersIdle'
  BY <1>1 DEF Cleanup, OthersIdle
<1>2. ASSUME NEW c \in Owners, Wait(c) \/ WaitStep(c) PROVE OthersIdle'
  <2>1. \E l \in CPCs : cpc' = [cpc EXCEPT ![c] = l]
    BY <1>2 DEF Wait, WaitStep, Join, Delete, WaitAgain, JoinOrFinish, CPCs
  <2>. QED
    BY <2>1 DEF OthersIdle, IInv, TypeOK
<1>3. CASE UNCHANGED cpc
  BY <1>3 DEF OthersIdle
<1>. QED
  BY <1>1, <1>2, <1>3
  DEF Next, WorkerStep, EndTask, Resume, Retire, TakeWakeup, TimeOut, Start, StartNow,
      Reserve, clients, vars

(* The wait() of an only owner returns when all_threads_ is empty, its own *)
(* copy is joined, and nobody else has one: no thread is left.             *)
LEMMA LastOneOut ==
    ASSUME NEW o, Owners = {o}, IInv, OthersIdle, WaitFinishes(o)
    PROVE  Live' = {}
<1>1. o \in Clients /\ cpc[o] \in {"idle", "relock"} /\ UNCHANGED wpc
  BY DEF WaitFinishes, Wait, WaitAgain, Clients, workers
<1>2. all_threads_ = <<>>
  BY <1>1 DEF WaitFinishes, Wait, WaitAgain, JoinOrFinish, IInv, TypeOK
<1>3. \A c \in Clients : joining[c] = <<>>
  BY <1>1 DEF OthersIdle, IInv, WorkersListed
<1>4. Range(all_threads_) = {} /\ Joined = {}
  BY <1>2, <1>3 DEF Range, Joined
<1>. QED
  BY <1>1, <1>4 DEF IInv, WorkersListed, Live, Running

(* "shutdown all threads": if one client at a time calls wait(), it leaves *)
(* no native thread behind, whatever start() does while it joins.          *)
THEOREM ShutsDown == ASSUME NEW o, Owners = {o} PROVE Spec => WaitShutsDown
<1>1. Init => OthersIdle
  BY DEF Init, OthersIdle
<1>2. IInv /\ OthersIdle /\ [Next]_vars
        => [\A c \in Owners : WaitFinishes(c) => Live' = {}]_vars
  BY LastOneOut
<1>. QED
  BY <1>1, <1>2, Invariance, OthersStayIdle, PTL DEF Spec, WaitShutsDown

-----------------------------------------------------------------------------
(* Where a task is. *)

(* A worker that waits to be restarted executes nothing, and is listed     *)
(* once: restarting it overwrites no task in its hands, and leaves no      *)
(* second entry through which a task in its hands could be overwritten.    *)
RetiredRest ==
    /\ IsInjective(ret_threads_)
    /\ \A w \in Range(ret_threads_) : wpc[w] \in {"leaving", "done", "deleted"}

Holds(w) == wpc[w] = "exec"

QueuedOnce == \A e, f \in queue_ : e[1] = f[1] => e = f

HeldOnce == \A v, w \in Workers : Holds(v) /\ Holds(w) /\ task_[v] = task_[w] => v = w

Apart ==
    /\ \A e \in queue_ : e[1] \notin finished
    /\ \A w \in Workers : Holds(w) => task_[w] \notin finished
    /\ \A w \in Workers, e \in queue_ : Holds(w) => task_[w] # e[1]

OnlyAccepted ==
    /\ \A e \in queue_ : e[1] \in accepted
    /\ \A w \in Workers : Holds(w) => task_[w] \in accepted
    /\ finished \subseteq accepted

Places == QueuedOnce /\ HeldOnce /\ Apart /\ OnlyAccepted

OnePlace == RetiredRest /\ Places

(* A task that is nowhere once the queue is q. *)
Free(t, q) ==
    /\ t \notin finished
    /\ \A e \in q : e[1] # t
    /\ \A w \in Workers : Holds(w) => task_[w] # t

LEMMA AppendedDistinct ==
    ASSUME NEW S, NEW s \in Seq(S), NEW x \in S
    PROVE  /\ \A y \in Range(Append(s, x)) : y = x \/ y \in Range(s)
           /\ IsInjective(s) /\ x \notin Range(s) => IsInjective(Append(s, x))
<1>. DEFINE a == Append(s, x)
<1>1. a \in Seq(S) /\ Len(a) = Len(s) + 1
  BY AppendProperties
<1>2. (\A i \in 1 .. Len(s) : a[i] = s[i]) /\ a[Len(s) + 1] = x
  BY AppendProperties
<1>3. Len(s) \in Nat /\ DOMAIN s = 1 .. Len(s) /\ DOMAIN a = 1 .. Len(a)
  BY <1>1, LenProperties
<1>. HIDE DEF a
<1>4. \A i \in DOMAIN a : i = Len(s) + 1 \/ i \in DOMAIN s
  BY <1>1, <1>3
<1>5. \A i \in DOMAIN s : a[i] \in Range(s)
  BY <1>2, <1>3 DEF Range
<1>6. IsInjective(s) /\ x \notin Range(s) => IsInjective(a)
  BY <1>2, <1>3, <1>4, <1>5 DEF IsInjective
<1>7. \A y \in Range(a) : y = x \/ y \in Range(s)
  BY <1>2, <1>3, <1>4, <1>5 DEF Range
<1>. QED
  BY <1>6, <1>7 DEF a

LEMMA LastTaken ==
    ASSUME NEW S, NEW s \in Seq(S), s # <<>>
    PROVE  /\ Front(s) \in Seq(S)
           /\ Last(s) \in Range(s)
           /\ Range(Front(s)) \subseteq Range(s)
           /\ IsInjective(s) => IsInjective(Front(s)) /\ Last(s) \notin Range(Front(s))
<1>. DEFINE f == Front(s)
<1>1. Len(s) \in Nat \ {0} /\ DOMAIN s = 1 .. Len(s)
  BY LenProperties, EmptySeq
<1>2. /\ f \in Seq(S)
      /\ Len(f) = Len(s) - 1
      /\ \A i \in 1 .. Len(f) : f[i] = s[i]
  BY <1>1 DEF Front
<1>3. DOMAIN f = 1 .. Len(s) - 1
  BY <1>2, LenProperties
<1>4. Last(s) = s[Len(s)] /\ Len(s) \in DOMAIN s
  BY <1>1 DEF Last
<1>. HIDE DEF f
<1>5. \A i \in DOMAIN f : i \in DOMAIN s /\ f[i] = s[i] /\ i # Len(s)
  BY <1>1, <1>2, <1>3
<1>6. Last(s) \in Range(s) /\ Range(f) \subseteq Range(s)
  BY <1>4, <1>5 DEF Range
<1>7. IsInjective(s) => IsInjective(f) /\ Last(s) \notin Range(f)
  BY <1>4, <1>5 DEF Range, IsInjective
<1>. QED
  BY <1>2, <1>6, <1>7 DEF f

(* Workers may come to rest, and others than the retired may move. *)
LEMMA RestKept ==
    ASSUME RetiredRest, ret_threads_' = ret_threads_,
           \A w \in Range(ret_threads_) :
              wpc'[w] = wpc[w] \/ wpc'[w] \in {"leaving", "done", "deleted"}
    PROVE  RetiredRest'
BY DEF RetiredRest

(* A worker that moves to a rest state appends itself. *)
LEMMA RestAdded ==
    ASSUME IInv, RetiredRest, NEW w \in Workers,
           wpc[w] \notin {"leaving", "done", "deleted"},
           ret_threads_' = Append(ret_threads_, w),
           wpc' = [wpc EXCEPT ![w] = "leaving"]
    PROVE  RetiredRest'
<1>1. w \notin Range(ret_threads_) /\ ret_threads_ \in Seq(Workers)
  BY DEF RetiredRest, IInv, TypeOK
<1>2. /\ IsInjective(Append(ret_threads_, w))
      /\ \A y \in Range(Append(ret_threads_, w)) : y = w \/ y \in Range(ret_threads_)
  BY <1>1, AppendedDistinct DEF RetiredRest
<1>3. wpc'[w] = "leaving" /\ \A v \in Workers : v # w => wpc'[v] = wpc[v]
  BY DEF IInv, TypeOK
<1>4. Range(ret_threads_) \subseteq Workers
  BY <1>1 DEF Range
<1>5. IsInjective(ret_threads_') /\ \A y \in Range(ret_threads_') : y = w \/ y \in Range(ret_threads_)
  BY <1>2
<1>. QED
  BY <1>3, <1>4, <1>5 DEF RetiredRest

(* Tasks in hands are kept or dropped, queued ones are kept or dropped. *)
LEMMA PlacesKept ==
    ASSUME Places, queue_' \subseteq queue_, finished' = finished,
           accepted \subseteq accepted',
           \A w \in Workers : wpc'[w] = "exec" => Holds(w) /\ task_'[w] = task_[w]
    PROVE  Places'
<1>1. QueuedOnce'
  BY DEF Places, QueuedOnce
<1>2. HeldOnce'
  BY DEF Places, HeldOnce, Holds
<1>3. Apart'
  BY DEF Places, Apart, Holds
<1>4. OnlyAccepted'
  BY DEF Places, OnlyAccepted, Holds
<1>. QED
  BY <1>1, <1>2, <1>3, <1>4 DEF Places

(* A task that is nowhere else is put into the queue, while no worker gets *)
(* another one.                                                            *)
LEMMA PlacedInQueue ==
    ASSUME Places, NEW t, NEW p, NEW q \in SUBSET queue_, Free(t, q), t \in accepted',
           queue_' = q \cup {<<t, p>>}, finished' = finished,
           accepted \subseteq accepted',
           \A w \in Workers : wpc'[w] = "exec" => Holds(w) /\ task_'[w] = task_[w]
    PROVE  Places'
<1>1. \A e \in queue_' : e = <<t, p>> \/ (e \in queue_ /\ e[1] # t)
  BY DEF Free
<1>2. QueuedOnce'
  BY <1>1 DEF Places, QueuedOnce
<1>3. HeldOnce'
  BY DEF Places, HeldOnce, Holds
<1>4. Apart'
  BY <1>1 DEF Places, Apart, Holds, Free
<1>5. OnlyAccepted'
  BY <1>1 DEF Places, OnlyAccepted, Holds
<1>. QED
  BY <1>2, <1>3, <1>4, <1>5 DEF Places

(* A task that is nowhere else is put into the hands of w, which has       *)
(* finished the task it held before, if any.                               *)
LEMMA PlacedInHands ==
    ASSUME IInv, Places, NEW t, NEW q \in SUBSET queue_, Free(t, q), t \in accepted',
           NEW w \in Workers,
           wpc' = [wpc EXCEPT ![w] = "exec"], task_' = [task_ EXCEPT ![w] = t],
           queue_' = q, accepted \subseteq accepted',
           finished' = finished \/ (Holds(w) /\ finished' = finished \cup {task_[w]})
    PROVE  Places'
<1>1. /\ wpc'[w] = "exec" /\ task_'[w] = t
      /\ \A v \in Workers : v # w => wpc'[v] = wpc[v] /\ task_'[v] = task_[v]
  BY DEF IInv, TypeOK
<1>2. QueuedOnce'
  BY DEF Places, QueuedOnce
<1>3. HeldOnce'
  BY <1>1 DEF Places, HeldOnce, Holds, Free
<1>4. Apart'
  BY <1>1 DEF Places, Apart, HeldOnce, Holds, Free
<1>5. OnlyAccepted'
  BY <1>1 DEF Places, OnlyAccepted, Holds
<1>. QED
  BY <1>2, <1>3, <1>4, <1>5 DEF Places

LEMMA FetchPlaces ==
    ASSUME IInv, Places, NEW w \in Workers, Fetch(w), UNCHANGED accepted,
           finished' = finished \/ (Holds(w) /\ finished' = finished \cup {task_[w]})
    PROVE  Places'
<1>1. PICK top \in queue_ : /\ task_' = [task_ EXCEPT ![w] = top[1]]
                            /\ queue_' = queue_ \ {top}
                            /\ wpc' = [wpc EXCEPT ![w] = "exec"]
  BY DEF Fetch, TopEntries
<1>2. Free(top[1], queue_ \ {top}) /\ top[1] \in accepted'
  BY DEF Free, Places, QueuedOnce, Apart, OnlyAccepted
<1>. QED
  BY <1>1, <1>2, PlacedInHands

LEMMA NoTaskPlaces ==
    ASSUME IInv, Places, NEW w \in Workers, NEW polled, NoTask(w, polled), UNCHANGED accepted,
           finished' = finished \/ (Holds(w) /\ finished' = finished \cup {task_[w]})
    PROVE  Places'
<1>1. PICK l \in {"leaving", "waiting"} : wpc' = [wpc EXCEPT ![w] = l]
  BY DEF NoTask
<1>2. /\ wpc'[w] # "exec"
      /\ \A v \in Workers : v # w => wpc'[v] = wpc[v] /\ task_'[v] = task_[v]
      /\ queue_' = queue_
  BY <1>1 DEF NoTask, IInv, TypeOK
<1>3. QueuedOnce' /\ HeldOnce'
  BY <1>2 DEF Places, QueuedOnce, HeldOnce, Holds
<1>4. Apart'
  BY <1>2 DEF Places, Apart, HeldOnce, Holds
<1>5. OnlyAccepted'
  BY <1>2 DEF Places, OnlyAccepted, Holds
<1>. QED
  BY <1>3, <1>4, <1>5 DEF Places

(* The retired are left alone by a worker that is not one of them. *)
LEMMA MovesOnRest ==
    ASSUME IInv, RetiredRest, NEW w \in Workers,
           wpc[w] \notin {"leaving", "done", "deleted"},
           NEW l, wpc' = [wpc EXCEPT ![w] = l], ret_threads_' = ret_threads_
    PROVE  RetiredRest'
<1>1. \A v \in Range(ret_threads_) : v # w /\ v \in Workers
  BY DEF RetiredRest, IInv, TypeOK, Range
<1>. QED
  BY <1>1, RestKept DEF IInv, TypeOK

LEMMA NoTaskRest ==
    ASSUME IInv, RetiredRest, NEW w \in Workers, NEW polled, NoTask(w, polled),
           wpc[w] \in {"exec", "woken"}
    PROVE  RetiredRest'
BY RestAdded, MovesOnRest DEF NoTask

(* try_start() with a task that is nowhere: it is handed to somebody, or   *)
(* lost if a retired worker was chosen that cannot be restarted.           *)
LEMMA StartedPlaces ==
    ASSUME IInv, OnePlace, NEW t \in Tasks, NEW q \in SUBSET queue_, NEW res,
           Free(t, q), t \in accepted', accepted \subseteq accepted',
           finished' = finished, Started(t, q, res)
    PROVE  OnePlace'
<1>. USE DEF OnePlace
<1>1. CASE HandToIdle(t, q)
  <2>1. Places'
    BY <1>1, PlacedInQueue DEF HandToIdle, Holds, workers
  <2>2. RetiredRest'
    BY <1>1 DEF HandToIdle, RetiredRest, workers
  <2>. QED
    BY <2>1, <2>2
<1>2. CASE Restart(t, q)
  <2>. DEFINE w == Last(ret_threads_)
  <2>1. /\ Front(ret_threads_) \in Seq(Workers)
        /\ w \in Range(ret_threads_)
        /\ Range(Front(ret_threads_)) \subseteq Range(ret_threads_)
        /\ IsInjective(Front(ret_threads_)) /\ w \notin Range(Front(ret_threads_))
    BY <1>2, LastTaken DEF Restart, IInv, TypeOK, RetiredRest
  <2>2. w \in Workers /\ ~Holds(w) /\ Range(ret_threads_) \subseteq Workers
    <3>1. Range(ret_threads_) \subseteq Workers
      BY DEF IInv, TypeOK, Range
    <3>. HIDE DEF w
    <3>. QED
      BY <2>1, <3>1 DEF RetiredRest, Holds
  <2>3. /\ ret_threads_' = Front(ret_threads_)
        /\ task_' = [task_ EXCEPT ![w] = t]
        /\ wpc' = [wpc EXCEPT ![w] = "exec"] \/ wpc' = wpc
        /\ queue_' = q
    BY <1>2 DEF Restart
  <2>. HIDE DEF w
  <2>4. RetiredRest'
    BY <2>1, <2>2, <2>3 DEF RetiredRest, IInv, TypeOK
  <2>5. CASE wpc' = [wpc EXCEPT ![w] = "exec"]
    BY <2>2, <2>3, <2>4, <2>5, PlacedInHands
  <2>6. CASE wpc' = wpc
    <3>1. \A v \in Workers : wpc'[v] = "exec" => Holds(v) /\ task_'[v] = task_[v]
      BY <2>2, <2>3, <2>6 DEF Holds, IInv, TypeOK
    <3>. QED
      BY <2>3, <2>4, <3>1, PlacesKept
  <2>. QED
    BY <2>3, <2>5, <2>6
<1>3. CASE Spawn(t, TRUE) /\ queue_' = q
  <2>1. PICK w \in Workers :
          /\ task_' = [task_ EXCEPT ![w] = t]
          /\ wpc' = [wpc EXCEPT ![w] = "exec"]
    BY <1>3 DEF Spawn
  <2>2. RetiredRest'
    BY <1>3 DEF Spawn, RetiredRest, Range, IsInjective
  <2>. QED
    BY <1>3, <2>1, <2>2, PlacedInHands
<1>. QED
  BY <1>1, <1>2, <1>3 DEF Started

(* try_start() that fails puts no task into anybody's hands. *)
LEMMA NotStartedHolds ==
    ASSUME IInv, RetiredRest, NEW t, NEW res, NotStarted(t, res)
    PROVE  /\ RetiredRest'
           /\ \A w \in Workers : wpc'[w] = "exec" => Holds(w) /\ task_'[w] = task_[w]
<1>1. CASE UNCHANGED <<pol_threads_, idl_threads_, all_threads_, ret_threads_,
                       workers, undefined>>
  BY <1>1 DEF RetiredRest, Holds, workers
<1>2. CASE Spawn(t, FALSE)
  <2>1. PICK w \in Workers :
          /\ wpc[w] = "absent"
          /\ task_' = [task_ EXCEPT ![w] = t]
          /\ wpc' = [wpc EXCEPT ![w] = "done"]
    BY <1>2 DEF Spawn
  <2>2. RetiredRest'
    BY <1>2 DEF Spawn, RetiredRest, Range, IsInjective
  <2>. QED
    BY <2>1, <2>2 DEF Holds, IInv, TypeOK
<1>. QED
  BY <1>1, <1>2 DEF NotStarted

LEMMA WorkersOnePlace ==
    ASSUME IInv, OnePlace, NEW w \in Workers, WorkerStep(w) \/ TakeWakeup(w) \/ TimeOut(w)
    PROVE  OnePlace'
<1>. USE DEF OnePlace
<1>1. CASE EndTask(w)
  <2>1. /\ Holds(w)
        /\ accepted' = accepted
        /\ finished' = finished \cup {task_[w]}
    BY <1>1 DEF EndTask, Holds
  <2>2. CASE Fetch(w) /\ UNCHANGED ret_threads_
    BY <2>1, <2>2, FetchPlaces, MovesOnRest DEF Fetch, Holds
  <2>3. CASE NoTask(w, 0)
    BY <2>1, <2>3, NoTaskPlaces, NoTaskRest DEF Holds
  <2>. QED
    BY <1>1, <2>2, <2>3 DEF EndTask
<1>2. CASE Resume(w)
  <2>1. wpc[w] = "woken" /\ UNCHANGED <<accepted, finished>>
    BY <1>2 DEF Resume, history
  <2>2. CASE Fetch(w) /\ UNCHANGED ret_threads_
    BY <2>1, <2>2, FetchPlaces, MovesOnRest DEF Fetch
  <2>3. CASE NoTask(w, 1)
    BY <2>1, <2>3, NoTaskPlaces, NoTaskRest
  <2>. QED
    BY <1>2, <2>2, <2>3 DEF Resume
<1>3. CASE Retire(w) \/ Cleanup(w) \/ TakeWakeup(w) \/ TimeOut(w)
  <2>1. PICK l \in {"leaving", "done", "woken", "expired"} : wpc' = [wpc EXCEPT ![w] = l]
    BY <1>3 DEF Retire, Cleanup, TakeWakeup, TimeOut
  <2>2. UNCHANGED <<queue_, task_, accepted, finished>>
    BY <1>3 DEF Retire, Cleanup, TakeWakeup, TimeOut, history
  <2>3. \A v \in Workers : wpc'[v] = "exec" => Holds(v) /\ task_'[v] = task_[v]
    BY <2>1, <2>2 DEF Holds, IInv, TypeOK
  <2>4. Places'
    BY <2>2, <2>3, PlacesKept
  <2>5. RetiredRest'
    <3>1. CASE Retire(w)
      BY <3>1, RestAdded DEF Retire
    <3>2. CASE Cleanup(w)
      BY <3>2, RestKept DEF Cleanup, IInv, TypeOK
    <3>3. CASE TakeWakeup(w) \/ TimeOut(w)
      BY <3>3, MovesOnRest DEF TakeWakeup, TimeOut
    <3>. QED
      BY <1>3, <3>1, <3>2, <3>3
  <2>. QED
    BY <2>4, <2>5
<1>. QED
  BY <1>1, <1>2, <1>3 DEF WorkerStep

LEMMA StartOnePlace ==
    ASSUME IInv, OnePlace, NEW c, NEW t \in Tasks,
           StartNow(c, t) \/ \E p \in Priorities : Start(c, t, p)
    PROVE  OnePlace'
<1>1. t \notin accepted /\ Free(t, queue_) /\ finished' = finished
  BY DEF Start, StartNow, Free, OnePlace, Places, OnlyAccepted
<1>2. CASE accepted' = accepted \cup {t} /\ Started(t, queue_, res_threads_)
  BY <1>1, <1>2, StartedPlaces
<1>3. ASSUME NEW p, NotStarted(t, res_threads_), enqueue(t, p), accepted' = accepted \cup {t}
      PROVE  OnePlace'
  <2>1. /\ RetiredRest'
        /\ \A w \in Workers : wpc'[w] = "exec" => Holds(w) /\ task_'[w] = task_[w]
    BY <1>3, NotStartedHolds DEF OnePlace
  <2>2. queue_' = queue_ \cup {<<t, p>>}
    BY <1>3 DEF enqueue
  <2>. QED
    BY <1>1, <1>3, <2>1, <2>2, PlacedInQueue DEF OnePlace
<1>4. CASE NotStarted(t, res_threads_) /\ UNCHANGED <<queue_, accepted>>
  BY <1>1, <1>4, NotStartedHolds, PlacesKept DEF OnePlace
<1>. QED
  BY <1>2, <1>3, <1>4 DEF Start, StartNow

LEMMA ReserveOnePlace ==
    ASSUME IInv, OnePlace, NEW c, NEW n, Reserve(c, n)
    PROVE  OnePlace'
<1>1. accepted' = accepted /\ finished' = finished
  BY DEF Reserve
<1>2. ASSUME NEW top \in queue_, Started(top[1], queue_ \ {top}, res_threads_')
      PROVE  OnePlace'
  <2>1. Free(top[1], queue_ \ {top}) /\ top[1] \in accepted'
    BY <1>1 DEF Free, OnePlace, Places, QueuedOnce, Apart, OnlyAccepted
  <2>2. top[1] \in Tasks
    BY DEF IInv, TypeOK
  <2>. QED
    BY <1>1, <1>2, <2>1, <2>2, StartedPlaces
<1>3. ASSUME NEW top \in queue_, NotStarted(top[1], res_threads_'), queue_' = queue_
      PROVE  OnePlace'
  BY <1>1, <1>3, NotStartedHolds, PlacesKept DEF OnePlace
<1>4. CASE UNCHANGED <<ret_threads_, queue_, workers>>
  BY <1>1, <1>4, PlacesKept, RestKept DEF OnePlace, Holds, workers
<1>. QED
  BY <1>2, <1>3, <1>4 DEF Reserve, TopEntries

LEMMA WaitOnePlace ==
    ASSUME IInv, OnePlace, NEW c \in Clients, Wait(c) \/ WaitStep(c)
    PROVE  OnePlace'
<1>1. UNCHANGED <<queue_, task_, accepted, finished>>
  BY DEF Wait, WaitStep, Join, Delete, WaitAgain, workers, history
<1>2. \A w \in Workers : wpc'[w] = wpc[w] \/ wpc'[w] = "deleted"
  BY DEF Wait, WaitStep, Join, Delete, WaitAgain, workers, IInv, TypeOK
<1>3. Places'
  BY <1>1, <1>2, PlacesKept DEF OnePlace, Holds
<1>4. ret_threads_' = ret_threads_ \/ ret_threads_' = <<>>
  BY DEF Wait, WaitStep, Join, Delete, WaitAgain, JoinOrFinish
<1>5. Range(ret_threads_) \subseteq Workers
  BY DEF IInv, TypeOK, Range
<1>6. RetiredRest'
  <2>1. CASE ret_threads_' = ret_threads_
    BY <1>2, <1>5, <2>1, RestKept DEF OnePlace
  <2>2. CASE ret_threads_' = <<>>
    BY <2>2 DEF RetiredRest, IsInjective, Range
  <2>. QED
    BY <1>4, <2>1, <2>2
<1>. QED
  BY <1>3, <1>6 DEF OnePlace

LEMMA OnePlaceInit == Init => OnePlace
BY DEF Init, OnePlace, RetiredRest, IsInjective, Range, Places, QueuedOnce, HeldOnce, Apart,
       OnlyAccepted, Holds

LEMMA OnePlaceNext == IInv /\ OnePlace /\ [Next]_vars => OnePlace'
<1>. SUFFICES ASSUME IInv, OnePlace, [Next]_vars PROVE OnePlace'
  OBVIOUS
<1>1. CASE UNCHANGED vars
  BY <1>1, PlacesKept, RestKept DEF OnePlace, Holds, vars, workers, history
<1>. QED
  BY <1>1, WorkersOnePlace, StartOnePlace, ReserveOnePlace, WaitOnePlace DEF Next, Clients

(* A set that has at most one member, as a number. *)
LEMMA AtMostOne ==
    ASSUME NEW S, \A x, y \in S : x = y
    PROVE  Cardinality(S) \in {0, 1} /\ (Cardinality(S) = 1 => S # {})
<1>1. CASE S = {}
  BY <1>1, FS_EmptySet
<1>2. CASE S # {}
  <2>1. PICK x : S = {x}
    BY <1>2
  <2>. QED
    BY <2>1, FS_Singleton
<1>. QED
  BY <1>1, <1>2

LEMMA OnePlaceCounts == ASSUME IInv, OnePlace PROVE TaskInOnePlace
<1>. SUFFICES ASSUME NEW t \in Tasks
              PROVE  /\ Cardinality({e \in queue_ : e[1] = t}) + Cardinality(Executing(t))
                          + Cardinality({t} \cap finished) <= 1
                     /\ t \notin accepted =>
                           t \notin Queued \cup finished /\ Executing(t) = {}
  BY DEF TaskInOnePlace
<1>. DEFINE Q == {e \in queue_ : e[1] = t}
            X == Executing(t)
            F == {t} \cap finished
<1>1. /\ \A x, y \in Q : x = y
      /\ \A x, y \in X : x = y
      /\ \A x, y \in F : x = y
  BY DEF OnePlace, Places, QueuedOnce, HeldOnce, Holds, Executing
<1>2. /\ Q = {} \/ X = {}
      /\ Q = {} \/ F = {}
      /\ X = {} \/ F = {}
  BY DEF OnePlace, Places, Apart, Holds, Executing
<1>3. /\ Cardinality(Q) \in {0, 1} /\ (Cardinality(Q) = 1 => Q # {})
      /\ Cardinality(X) \in {0, 1} /\ (Cardinality(X) = 1 => X # {})
      /\ Cardinality(F) \in {0, 1} /\ (Cardinality(F) = 1 => F # {})
  <2>. HIDE DEF Q, X, F
  <2>. QED
    BY <1>1, AtMostOne
<1>4. t \notin accepted => t \notin Queued \cup finished /\ Executing(t) = {}
  BY DEF OnePlace, Places, OnlyAccepted, Holds, Queued, Executing
<1>. HIDE DEF Q, X, F
<1>5. Cardinality(Q) + Cardinality(X) + Cardinality(F) <= 1
  BY <1>2, <1>3
<1>. QED
  BY <1>4, <1>5 DEF Q, X, F

(* A task that start() or start_now() took is at any time in the queue     *)
(* once, or in the hands of one worker, or finished: whatever try_start(), *)
(* reserve() and the workers that retire and restart do, it is never       *)
(* executed twice, and a task that was refused is never executed.          *)
THEOREM ExecutedOnce == Spec => []TaskInOnePlace
BY Invariance, OnePlaceInit, OnePlaceNext, OnePlaceCounts, PTL DEF Spec

-----------------------------------------------------------------------------
(* What a wait() deletes. *)

LEMMA TailListed ==
    ASSUME NEW S, NEW s \in Seq(S), s # <<>>
    PROVE  Head(s) \in Range(s) /\ Range(Tail(s)) \subseteq Range(s)
<1>. DEFINE r == Tail(s)
<1>1. /\ Head(s) = s[1]
      /\ Len(r) = Len(s) - 1
      /\ \A i \in 1 .. Len(r) : r[i] = s[i + 1]
      /\ DOMAIN r = 1 .. Len(r)
  BY HeadTailProperties, LenProperties
<1>2. Len(s) \in Nat \ {0} /\ DOMAIN s = 1 .. Len(s)
  BY LenProperties, EmptySeq
<1>. HIDE DEF r
<1>3. \A i \in DOMAIN r : i + 1 \in DOMAIN s /\ r[i] = s[i + 1]
  BY <1>1, <1>2
<1>. QED
  BY <1>1, <1>2, <1>3 DEF Range, r

(* Nobody joins a worker that does not exist; while o is in no call no     *)
(* retired worker is deleted, and o deletes only what does not run.        *)
DeleteSafe(o) ==
    /\ ~undefined
    /\ \A w \in Range(all_threads_) \cup Joined : wpc[w] # "absent"
    /\ cpc[o] = "idle" => \A w \in Range(ret_threads_) : wpc[w] # "deleted"
    /\ cpc[o] = "delete" => wpc[Head(joining[o])] \in {"done", "deleted"}

(* try_start() would restart no retired worker. *)
NoRestart == idl_threads_ = 0 /\ ret_threads_ # <<>> => ~Unreserved(res_threads_)

LEMMA ListedWorkers ==
    ASSUME IInv
    PROVE  Range(all_threads_) \cup Joined \cup Range(ret_threads_) \subseteq Workers
BY DEF IInv, TypeOK, Joined, Range

LEMMA JoinedHead ==
    ASSUME IInv, NEW o \in Clients, cpc[o] \in {"join", "joining", "delete"}
    PROVE  /\ joining[o] \in Seq(Workers) /\ joining[o] # <<>>
           /\ Head(joining[o]) \in Joined
           /\ Range(Tail(joining[o])) \subseteq Range(joining[o])
<1>1. joining[o] \in Seq(Workers) /\ joining[o] # <<>>
  BY DEF IInv, TypeOK, WorkersListed
<1>. QED
  BY <1>1, TailListed DEF Joined

(* A worker moves, perhaps to the retired ones. *)
LEMMA MovesSafely ==
    ASSUME IInv, NEW o \in Clients, DeleteSafe(o), NEW w \in Workers,
           wpc[w] \in {"exec", "waiting", "woken", "expired", "leaving"},
           NEW l \in WPCs \ {"absent", "deleted"}, wpc' = [wpc EXCEPT ![w] = l],
           ret_threads_' = ret_threads_ \/ ret_threads_' = Append(ret_threads_, w),
           UNCHANGED <<all_threads_, undefined, joining>>,
           cpc'[o] = "idle" => cpc[o] = "idle",
           cpc'[o] = "delete" => \/ cpc[o] = "delete"
                                \/ wpc'[Head(joining[o])] \in {"done", "deleted"}
    PROVE  DeleteSafe(o)'
<1>1. \A y \in Range(ret_threads_') : y = w \/ y \in Range(ret_threads_)
  BY AppendedDistinct DEF IInv, TypeOK
<1>2. wpc'[w] = l /\ \A v \in Workers : v # w => wpc'[v] = wpc[v]
  BY DEF IInv, TypeOK
<1>3. Joined' = Joined
  BY DEF Joined
<1>4. \A v \in Range(all_threads_') \cup Joined' : wpc'[v] # "absent"
  BY <1>2, <1>3, ListedWorkers DEF DeleteSafe
<1>5. cpc'[o] = "idle" => \A v \in Range(ret_threads_') : wpc'[v] # "deleted"
  BY <1>1, <1>2, ListedWorkers DEF DeleteSafe
<1>6. cpc'[o] = "delete" => wpc'[Head(joining'[o])] \in {"done", "deleted"}
  <2>1. SUFFICES ASSUME cpc[o] = "delete" PROVE wpc'[Head(joining[o])] \in {"done", "deleted"}
    OBVIOUS
  <2>2. Head(joining[o]) \in Workers /\ wpc[Head(joining[o])] \in {"done", "deleted"}
    BY <2>1, JoinedHead, ListedWorkers DEF DeleteSafe
  <2>. QED
    BY <1>2, <2>2
<1>. QED
  BY <1>4, <1>5, <1>6 DEF DeleteSafe

LEMMA WorkersDeleteSafe ==
    ASSUME IInv, NEW o \in Clients, DeleteSafe(o), NEW w \in Workers,
           WorkerStep(w) \/ TakeWakeup(w) \/ TimeOut(w)
    PROVE  DeleteSafe(o)'
<1>1. CASE Cleanup(w)
  <2>1. /\ cpc'[o] = "idle" => cpc[o] = "idle"
        /\ cpc'[o] = "delete" => cpc[o] = "delete" \/ Head(joining[o]) = w
    BY <1>1 DEF Cleanup
  <2>2. wpc'[w] = "done"
    BY <1>1 DEF Cleanup, IInv, TypeOK
  <2>. QED
    BY <1>1, <2>1, <2>2, MovesSafely DEF Cleanup, WPCs, history
<1>2. CASE EndTask(w) \/ Resume(w) \/ Retire(w) \/ TakeWakeup(w) \/ TimeOut(w)
  <2>1. PICK l \in WPCs \ {"absent", "deleted"} : wpc' = [wpc EXCEPT ![w] = l]
    BY <1>2 DEF EndTask, Resume, Retire, TakeWakeup, TimeOut, Fetch, NoTask, WPCs
  <2>2. ret_threads_' = ret_threads_ \/ ret_threads_' = Append(ret_threads_, w)
    BY <1>2 DEF EndTask, Resume, Retire, TakeWakeup, TimeOut, NoTask
  <2>3. UNCHANGED <<all_threads_, undefined, joining, cpc>>
    BY <1>2 DEF EndTask, Resume, Retire, TakeWakeup, TimeOut, clients, history
  <2>4. wpc[w] \in {"exec", "waiting", "woken", "expired", "leaving"}
    BY <1>2 DEF EndTask, Resume, Retire, TakeWakeup, TimeOut
  <2>. QED
    BY <2>1, <2>2, <2>3, <2>4, MovesSafely
<1>. QED
  BY <1>1, <1>2 DEF WorkerStep

(* A call that starts a task leaves the deletions alone if it restarts     *)
(* nobody, and can only restart a worker that exists while o is idle.      *)
LEMMA SpawnDeleteSafe ==
    ASSUME IInv, NEW o \in Clients, DeleteSafe(o), NEW t, NEW created \in BOOLEAN,
           Spawn(t, created), UNCHANGED clients
    PROVE  DeleteSafe(o)'
<1>1. PICK w \in Workers :
          /\ wpc[w] = "absent"
          /\ all_threads_' = Append(all_threads_, w)
          /\ wpc' = [wpc EXCEPT ![w] = IF created THEN "exec" ELSE "done"]
  BY DEF Spawn
<1>2. wpc'[w] \in {"exec", "done"} /\ \A v \in Workers : v # w => wpc'[v] = wpc[v]
  BY <1>1 DEF IInv, TypeOK
<1>3. \A y \in Range(all_threads_') : y = w \/ y \in Range(all_threads_)
  BY <1>1, AppendedDistinct DEF IInv, TypeOK
<1>4. Joined' = Joined /\ UNCHANGED <<ret_threads_, undefined, cpc, joining>>
  BY DEF Spawn, Joined, clients
<1>5. \A v \in Range(all_threads_') \cup Joined' : wpc'[v] # "absent"
  BY <1>2, <1>3, <1>4, ListedWorkers DEF DeleteSafe
<1>6. cpc[o] = "delete" => wpc'[Head(joining[o])] \in {"done", "deleted"}
  <2>1. SUFFICES ASSUME cpc[o] = "delete" PROVE wpc'[Head(joining[o])] \in {"done", "deleted"}
    OBVIOUS
  <2>2. Head(joining[o]) \in Workers /\ wpc[Head(joining[o])] \in {"done", "deleted"}
    BY <2>1, JoinedHead, ListedWorkers DEF DeleteSafe
  <2>. QED
    BY <1>1, <1>2, <2>2
<1>7. cpc[o] = "idle" => \A v \in Range(ret_threads_) : wpc'[v] # "deleted"
  BY <1>2, ListedWorkers DEF DeleteSafe
<1>. QED
  BY <1>4, <1>5, <1>6, <1>7 DEF DeleteSafe

LEMMA SameDeleteSafe ==
    ASSUME IInv, NEW o \in Clients, DeleteSafe(o),
           UNCHANGED <<wpc, all_threads_, ret_threads_, undefined, clients>>
    PROVE  DeleteSafe(o)'
BY DEF DeleteSafe, Joined, clients

LEMMA StartedDeleteSafe ==
    ASSUME IInv, NEW o \in Clients, DeleteSafe(o), NEW t, NEW q, NEW res,
           Started(t, q, res), UNCHANGED clients,
           cpc[o] = "idle" \/ (NoRestart /\ res = res_threads_)
    PROVE  DeleteSafe(o)'
<1>1. CASE HandToIdle(t, q)
  BY <1>1, SameDeleteSafe DEF HandToIdle, workers
<1>2. CASE Restart(t, q)
  <2>. DEFINE w == Last(ret_threads_)
  <2>1. cpc[o] = "idle"
    BY <1>2 DEF Started, Restart, NoRestart
  <2>2. /\ w \in Range(ret_threads_)
        /\ Range(Front(ret_threads_)) \subseteq Range(ret_threads_)
    BY <1>2, LastTaken DEF Restart, IInv, TypeOK
  <2>3. /\ undefined' = (undefined \/ wpc[w] = "deleted")
        /\ ret_threads_' = Front(ret_threads_)
        /\ wpc' = [wpc EXCEPT ![w] = "exec"] \/ wpc' = wpc
    BY <1>2 DEF Restart
  <2>4. UNCHANGED all_threads_ /\ Joined' = Joined /\ cpc' = cpc
    BY <1>2 DEF Restart, Joined, clients
  <2>. HIDE DEF w
  <2>5. ~undefined'
    BY <2>1, <2>2, <2>3 DEF DeleteSafe
  <2>6. \A v \in Workers : wpc'[v] = wpc[v] \/ wpc'[v] = "exec"
    BY <2>3 DEF IInv, TypeOK
  <2>. QED
    BY <2>1, <2>2, <2>3, <2>4, <2>5, <2>6, ListedWorkers DEF DeleteSafe
<1>3. CASE Spawn(t, TRUE)
  BY <1>3, SpawnDeleteSafe
<1>. QED
  BY <1>1, <1>2, <1>3 DEF Started

LEMMA NotStartedDeleteSafe ==
    ASSUME IInv, NEW o \in Clients, DeleteSafe(o), NEW t, NEW res,
           NotStarted(t, res), UNCHANGED clients
    PROVE  DeleteSafe(o)'
BY SameDeleteSafe, SpawnDeleteSafe DEF NotStarted, workers

LEMMA StartDeleteSafe ==
    ASSUME IInv, NEW o \in Clients, DeleteSafe(o), NEW c, NEW t,
           StartNow(c, t) \/ \E p \in Priorities : Start(c, t, p),
           cpc[o] = "idle" \/ NoRestart
    PROVE  DeleteSafe(o)'
BY StartedDeleteSafe, NotStartedDeleteSafe DEF Start, StartNow

LEMMA ReserveDeleteSafe ==
    ASSUME IInv, NEW o \in Clients, DeleteSafe(o), NEW n, Reserve(o, n)
    PROVE  DeleteSafe(o)'
<1>1. cpc[o] = "idle" /\ UNCHANGED clients
  BY DEF Reserve
<1>2. ASSUME NEW top, Started(top[1], queue_ \ {top}, res_threads_')
      PROVE  DeleteSafe(o)'
  BY <1>1, <1>2, StartedDeleteSafe
<1>3. ASSUME NEW top, NotStarted(top[1], res_threads_')
      PROVE  DeleteSafe(o)'
  BY <1>1, <1>3, NotStartedDeleteSafe
<1>4. CASE UNCHANGED <<pol_threads_, idl_threads_, all_threads_, ret_threads_,
                       queue_, taskReady, workers, undefined>>
  BY <1>1, <1>4, SameDeleteSafe DEF workers
<1>. QED
  BY <1>2, <1>3, <1>4 DEF Reserve

(* The steps of the wait() of o, who is the only one to call it. *)
LEMMA WaitDeleteSafe ==
    ASSUME IInv, NEW o \in Clients, DeleteSafe(o), Wait(o) \/ WaitStep(o)
    PROVE  DeleteSafe(o)'
<1>1. CASE Wait(o) \/ WaitAgain(o)
  <2>1. UNCHANGED <<wpc, undefined>>
    BY <1>1 DEF Wait, WaitAgain, workers, history
  <2>2. cpc'[o] # "delete" /\ (cpc'[o] = "idle" => ret_threads_' = <<>>)
    BY <1>1 DEF Wait, WaitAgain, JoinOrFinish, IInv, TypeOK
  <2>3. Range(all_threads_') \cup Joined' \subseteq Range(all_threads_) \cup Joined
    <3>1. CASE UNCHANGED <<all_threads_, joining>>
      BY <3>1 DEF Joined
    <3>2. CASE joining' = [joining EXCEPT ![o] = all_threads_] /\ all_threads_' = <<>>
      <4>1. \A c \in Clients : joining'[c] = joining[c] \/ joining'[c] = all_threads_
        BY <3>2 DEF IInv, TypeOK
      <4>2. Range(all_threads_') = {}
        BY <3>2 DEF Range
      <4>. QED
        BY <4>1, <4>2 DEF Joined
    <3>. QED
      BY <1>1, <3>1, <3>2 DEF Wait, WaitAgain, JoinOrFinish
  <2>4. ret_threads_' = <<>> => Range(ret_threads_') = {}
    BY DEF Range
  <2>. QED
    BY <2>1, <2>2, <2>3, <2>4 DEF DeleteSafe
<1>2. CASE Join(o)
  <2>1. UNCHANGED <<wpc, undefined, all_threads_, ret_threads_, joining>> /\ Joined' = Joined
    BY <1>2 DEF Join, workers, history, Joined
  <2>2. cpc'[o] # "idle" /\ (cpc'[o] = "delete" => ~Running(Head(joining[o])))
    BY <1>2 DEF Join, IInv, TypeOK
  <2>3. Head(joining[o]) \in Workers /\ wpc[Head(joining[o])] # "absent"
    BY <1>2, JoinedHead, ListedWorkers DEF Join, DeleteSafe
  <2>4. wpc[Head(joining[o])] \in WPCs
    BY <2>3 DEF IInv, TypeOK
  <2>. QED
    BY <2>1, <2>2, <2>3, <2>4 DEF DeleteSafe, Running, WPCs
<1>3. CASE Delete(o)
  <2>. DEFINE w == Head(joining[o])
  <2>1. /\ w \in Joined
        /\ Range(Tail(joining[o])) \subseteq Range(joining[o])
        /\ wpc[w] \in {"done", "deleted"}
    BY <1>3, JoinedHead DEF Delete, DeleteSafe
  <2>2. /\ undefined' = (undefined \/ Running(w))
        /\ wpc' = [wpc EXCEPT ![w] = "deleted"]
        /\ joining' = [joining EXCEPT ![o] = Tail(joining[o])]
        /\ cpc'[o] \in {"relock", "join"}
        /\ UNCHANGED <<all_threads_, ret_threads_>>
    BY <1>3 DEF Delete, IInv, TypeOK
  <2>. HIDE DEF w
  <2>3. Joined' \subseteq Joined
    <3>1. \A c \in Clients : Range(joining'[c]) \subseteq Range(joining[c])
      BY <2>1, <2>2 DEF IInv, TypeOK
    <3>. QED
      BY <3>1 DEF Joined
  <2>4. \A v \in Workers : wpc'[v] = wpc[v] \/ wpc'[v] = "deleted"
    BY <2>2 DEF IInv, TypeOK
  <2>. QED
    BY <2>1, <2>2, <2>3, <2>4, ListedWorkers DEF DeleteSafe, Running
<1>. QED
  BY <1>1, <1>2, <1>3 DEF WaitStep

LEMMA InitDeleteSafe == ASSUME NEW o \in Clients PROVE Init => DeleteSafe(o)
<1>. SUFFICES ASSUME Init PROVE DeleteSafe(o)
  OBVIOUS
<1>1. Range(<<>>) = {}
  BY DEF Range
<1>2. Joined = {}
  BY <1>1 DEF Init, Joined
<1>. QED
  BY <1>1, <1>2 DEF Init, DeleteSafe

LEMMA StutterDeleteSafe ==
    ASSUME IInv, NEW o \in Clients, DeleteSafe(o), UNCHANGED vars
    PROVE  DeleteSafe(o)'
BY SameDeleteSafe DEF vars, workers, history

(* If the pool has a single client, no InternalThread is used after it     *)
(* was deleted and none is deleted while it runs, with any reservations:   *)
(* wait() has cleared ret_threads_ when the client can call start() again. *)
THEOREM AloneNoUseAfterDelete ==
    ASSUME NEW o, Clients = {o}
    PROVE  Spec => []NoUseAfterDelete
<1>0. o \in Clients
  OBVIOUS
<1>1. IInv /\ DeleteSafe(o) /\ [Next]_vars => DeleteSafe(o)'
  <2>. SUFFICES ASSUME IInv, DeleteSafe(o), [Next]_vars PROVE DeleteSafe(o)'
    OBVIOUS
  <2>. USE <1>0
  <2>1. \A c \in Submitters \cup Owners : c = o
    BY DEF Clients
  <2>2. ASSUME NEW c \in Submitters, NEW t, StartNow(c, t) \/ \E p \in Priorities : Start(c, t, p)
        PROVE  DeleteSafe(o)'
    <3>1. cpc[o] = "idle"
      BY <2>1, <2>2 DEF Start, StartNow
    <3>. QED
      BY <2>2, <3>1, StartDeleteSafe
  <2>3. ASSUME NEW c \in Owners, Wait(c) \/ WaitStep(c) \/ \E n \in Reservations : Reserve(c, n)
        PROVE  DeleteSafe(o)'
    BY <2>1, <2>3, WaitDeleteSafe, ReserveDeleteSafe
  <2>. QED
    BY <2>2, <2>3, WorkersDeleteSafe, StutterDeleteSafe DEF Next
<1>2. DeleteSafe(o) => NoUseAfterDelete
  BY DEF DeleteSafe, NoUseAfterDelete
<1>. QED
  BY <1>0, <1>1, <1>2, InitDeleteSafe, Invariance, PTL DEF Spec

-----------------------------------------------------------------------------
(* A wait() while others start tasks. *)

LEMMA WrapBelow == ASSUME NEW n \in Int, -WordSize <= n, n < 0 PROVE Wrap(n) = n + WordSize
BY PoolAssumption DEF Wrap

LEMMA DistinctFit ==
    ASSUME NEW S, NEW s \in Seq(S), NEW T, IsFiniteSet(T), Range(s) \subseteq T, IsInjective(s)
    PROVE  Len(s) <= Cardinality(T)
<1>1. Len(s) \in Nat /\ DOMAIN s = 1 .. Len(s)
  BY LenProperties
<1>2. IsFiniteSet(1 .. Len(s)) /\ Cardinality(1 .. Len(s)) = Len(s)
  BY <1>1, FS_Interval
<1>3. s \in Injection(1 .. Len(s), T)
  BY <1>1 DEF Range, IsInjective, Injection
<1>. QED
  BY <1>2, <1>3, FS_Injection

LEMMA RangeFits ==
    ASSUME NEW S, NEW s \in Seq(S)
    PROVE  IsFiniteSet(Range(s)) /\ Cardinality(Range(s)) <= Len(s)
<1>1. Len(s) \in Nat /\ DOMAIN s = 1 .. Len(s)
  BY LenProperties
<1>2. IsFiniteSet(1 .. Len(s)) /\ Cardinality(1 .. Len(s)) = Len(s)
  BY <1>1, FS_Interval
<1>3. s \in Surjection(1 .. Len(s), Range(s))
  BY <1>1 DEF Range, Surjection
<1>. QED
  BY <1>2, <1>3, FS_Surjection

(* The workers that are retired or can retire once the pool is exiting. *)
Retirable == {w \in Workers : wpc[w] \in {"waiting", "expired"}} \cup Range(ret_threads_)

(* idl_threads_ is k below zero, as a word. *)
IdleBelow(k) == idl_threads_ = IF k = 0 THEN 0 ELSE WordSize - k

BelowZero ==
    \E k \in Nat : /\ Len(ret_threads_) <= k
                   /\ k + Len(all_threads_) <= MaxThreads + Len(ret_threads_)
                   /\ IdleBelow(k)

(* While wait() joins, no worker can start to wait or, but for those that  *)
(* were about to, retire.  If workers are spawned meanwhile, idl_threads_  *)
(* was zero and nobody retired.  Every worker that retires from then on    *)
(* takes idl_threads_ one below zero, and so does try_start() when it      *)
(* takes that for idle workers, until active_threads() has reached its     *)
(* limit.                                                                  *)
Closing(o) ==
    /\ res_threads_ = 0
    /\ cpc[o] = "idle" <=> ~exiting_
    /\ exiting_ => Cardinality(Retirable) <= MaxThreads
    /\ exiting_ /\ all_threads_ # <<>> => BelowZero

LEMMA RetirableFinite == ASSUME IInv PROVE IsFiniteSet(Retirable)
<1>1. Retirable \subseteq Workers
  BY ListedWorkers DEF Retirable
<1>. QED
  BY <1>1, PoolAssumption, FS_Subset

LEMMA FewRetired ==
    ASSUME IInv, RetiredRest, NEW o \in Clients, Closing(o), exiting_
    PROVE  Len(ret_threads_) \in 0 .. MaxThreads
<1>1. Len(ret_threads_) <= Cardinality(Retirable)
  BY DistinctFit, RetirableFinite DEF Retirable, RetiredRest, IInv, TypeOK
<1>2. Cardinality(Retirable) \in Nat /\ Len(ret_threads_) \in Nat
  BY RetirableFinite, FS_CardinalityType DEF IInv, TypeOK
<1>. QED
  BY <1>1, <1>2, PoolAssumption DEF Closing

(* active_threads() below zero is a large word: nothing is started then.   *)
LEMMA ClosingNoRestart ==
    ASSUME IInv, RetiredRest, NEW o \in Clients, Closing(o), exiting_
    PROVE  NoRestart
<1>. SUFFICES ASSUME idl_threads_ = 0, ret_threads_ # <<>>
              PROVE  ~Unreserved(res_threads_)
  BY DEF NoRestart
<1>. DEFINE r == Len(ret_threads_)
            n == Len(all_threads_)
<1>1. r \in 1 .. MaxThreads /\ n \in Nat
  BY FewRetired, EmptySeq DEF IInv, TypeOK
<1>2. MaxThreads \in Nat /\ WordSize \in Nat /\ WordSize > 2 * MaxThreads
  BY PoolAssumption
<1>3. CASE all_threads_ = <<>>
  <2>1. n + res_threads_ - r - idl_threads_ = -r
    BY <1>1, <1>3 DEF Closing
  <2>. HIDE DEF r, n
  <2>2. Wrap(-r) = WordSize - r
    BY <1>1, <1>2, WrapBelow
  <2>. QED
    BY <1>1, <1>2, <2>1, <2>2 DEF Unreserved, ActiveWith, r, n
<1>4. CASE all_threads_ # <<>>
  <2>1. PICK k \in Nat : r <= k /\ k + n <= MaxThreads + r /\ IdleBelow(k)
    BY <1>4 DEF Closing, BelowZero
  <2>. HIDE DEF r, n
  <2>. QED
    BY <1>1, <1>2, <2>1 DEF IdleBelow
<1>. QED
  BY <1>3, <1>4

(* An idle worker is counted that does not exist: idl_threads_ goes down.  *)
LEMMA HandedBelow ==
    ASSUME IInv, RetiredRest, NEW o \in Clients, Closing(o), exiting_, all_threads_ # <<>>,
           Unreserved(res_threads_), idl_threads_ > 0, idl_threads_' = idl_threads_ - 1,
           UNCHANGED <<ret_threads_, all_threads_>>
    PROVE  BelowZero'
<1>. DEFINE r == Len(ret_threads_)
            n == Len(all_threads_)
<1>1. r \in 0 .. MaxThreads /\ n \in Nat \ {0}
  BY FewRetired, EmptySeq DEF IInv, TypeOK
<1>2. MaxThreads \in Nat /\ WordSize \in Nat /\ WordSize > 2 * MaxThreads
  BY PoolAssumption
<1>3. PICK k \in Nat : r <= k /\ k + n <= MaxThreads + r /\ IdleBelow(k)
  BY DEF Closing, BelowZero
<1>4. Wrap(n + 0 - r - idl_threads_) < MaxThreads
  BY DEF Closing, Unreserved, ActiveWith
<1>. HIDE DEF r, n
<1>5. k # 0 /\ idl_threads_ = WordSize - k
  BY <1>3 DEF IdleBelow
<1>6. n - r + k < MaxThreads
  <2>. DEFINE m == n + 0 - r - idl_threads_
  <2>1. m = n - r + k - WordSize
    BY <1>1, <1>2, <1>5
  <2>2. m \in Int /\ -WordSize <= m /\ m < 0
    BY <1>1, <1>2, <1>3, <2>1
  <2>3. Wrap(m) = m + WordSize
    <3>. HIDE DEF m
    <3>. QED
      BY <2>2, WrapBelow
  <2>. QED
    BY <1>1, <1>2, <1>4, <2>1, <2>3
<1>7. k + 1 \in Nat /\ r <= k + 1 /\ (k + 1) + n <= MaxThreads + r /\ IdleBelow(k + 1)'
  BY <1>1, <1>2, <1>3, <1>5, <1>6 DEF IdleBelow
<1>. QED
  BY <1>7 DEF BelowZero, r, n

LEMMA RetiredBelow ==
    ASSUME IInv, RetiredRest, NEW o \in Clients, Closing(o), exiting_, all_threads_ # <<>>,
           idl_threads_' = Wrap(idl_threads_ - 1), UNCHANGED all_threads_,
           NEW w \in Workers, ret_threads_' = Append(ret_threads_, w)
    PROVE  BelowZero'
<1>. DEFINE r == Len(ret_threads_)
            n == Len(all_threads_)
<1>1. r \in 0 .. MaxThreads /\ n \in Nat \ {0}
  BY FewRetired, EmptySeq DEF IInv, TypeOK
<1>2. MaxThreads \in Nat /\ WordSize \in Nat /\ WordSize > 2 * MaxThreads
  BY PoolAssumption
<1>3. PICK k \in Nat : r <= k /\ k + n <= MaxThreads + r /\ IdleBelow(k)
  BY DEF Closing, BelowZero
<1>. HIDE DEF r, n
<1>4. k < WordSize
  BY <1>1, <1>2, <1>3
<1>5. idl_threads_' = WordSize - (k + 1)
  <2>1. CASE k = 0
    BY <1>2, <1>3, <2>1, WrapBelow DEF IdleBelow
  <2>2. CASE k # 0
    <3>1. idl_threads_ - 1 = WordSize - (k + 1) /\ WordSize - (k + 1) \in Nat
      BY <1>2, <1>3, <1>4, <2>2 DEF IdleBelow
    <3>. QED
      BY <1>2, <3>1, WrapSmall
  <2>. QED
    BY <2>1, <2>2
<1>6. k + 1 \in Nat /\ r + 1 <= k + 1 /\ (k + 1) + n <= MaxThreads + (r + 1) /\ IdleBelow(k + 1)'
  BY <1>1, <1>2, <1>3, <1>5 DEF IdleBelow
<1>7. Len(ret_threads_') = r + 1 /\ Len(all_threads_') = n
  BY AppendProperties DEF IInv, TypeOK, r, n
<1>. QED
  BY <1>6, <1>7 DEF BelowZero

LEMMA FewerRetirable ==
    ASSUME IInv, NEW o, Closing(o), exiting_, Retirable' \subseteq Retirable
    PROVE  Cardinality(Retirable') <= MaxThreads
<1>1. Cardinality(Retirable') <= Cardinality(Retirable)
  BY RetirableFinite, FS_Subset
<1>2. Cardinality(Retirable') \in Nat /\ Cardinality(Retirable) \in Nat
  BY RetirableFinite, FS_Subset, FS_CardinalityType
<1>. QED
  BY <1>1, <1>2, PoolAssumption DEF Closing

(* A step of the joining phase, or one outside it. *)
LEMMA ClosingKept ==
    ASSUME IInv, NEW o, Closing(o), UNCHANGED <<exiting_, res_threads_>>,
           cpc'[o] = "idle" <=> cpc[o] = "idle",
           exiting_ => Retirable' \subseteq Retirable,
           exiting_ /\ all_threads_' # <<>> => BelowZero'
    PROVE  Closing(o)'
BY FewerRetirable DEF Closing

LEMMA SameBelow ==
    ASSUME NEW o, Closing(o), exiting_, all_threads_ # <<>>,
           UNCHANGED <<idl_threads_, all_threads_, ret_threads_>>
    PROVE  BelowZero'
BY DEF Closing, BelowZero, IdleBelow

LEMMA WorkersClosing ==
    ASSUME IInv, RetiredRest, NEW o \in Clients, Closing(o), NEW w \in Workers,
           WorkerStep(w) \/ TakeWakeup(w) \/ TimeOut(w)
    PROVE  Closing(o)'
<1>1. /\ UNCHANGED <<exiting_, res_threads_, all_threads_>>
      /\ cpc'[o] = "idle" <=> cpc[o] = "idle"
  BY DEF WorkerStep, EndTask, Resume, Retire, Cleanup, TakeWakeup, TimeOut, clients, counters
<1>2. CASE Retire(w)
  <2>1. /\ wpc[w] = "expired"
        /\ ret_threads_' = Append(ret_threads_, w)
        /\ idl_threads_' = Wrap(idl_threads_ - 1)
        /\ wpc' = [wpc EXCEPT ![w] = "leaving"]
    BY <1>2 DEF Retire
  <2>2. \A y \in Range(ret_threads_') : y = w \/ y \in Range(ret_threads_)
    BY <2>1, AppendedDistinct DEF IInv, TypeOK
  <2>3. \A v \in Workers : v # w => wpc'[v] = wpc[v]
    BY <2>1 DEF IInv, TypeOK
  <2>4. Retirable' \subseteq Retirable
    BY <2>1, <2>2, <2>3 DEF Retirable
  <2>5. exiting_ /\ all_threads_' # <<>> => BelowZero'
    BY <1>1, <2>1, RetiredBelow
  <2>. QED
    BY <1>1, <2>4, <2>5, ClosingKept
<1>3. CASE ~Retire(w)
  <2>1. exiting_ =>
          /\ UNCHANGED <<idl_threads_, ret_threads_>>
          /\ wpc'[w] \in {"waiting", "expired"} => wpc[w] \in {"waiting", "expired"}
          /\ \A v \in Workers : v # w => wpc'[v] = wpc[v]
    <3>. SUFFICES ASSUME exiting_
                  PROVE  /\ UNCHANGED <<idl_threads_, ret_threads_>>
                         /\ wpc'[w] \in {"waiting", "expired"} => wpc[w] \in {"waiting", "expired"}
                         /\ \A v \in Workers : v # w => wpc'[v] = wpc[v]
      OBVIOUS
    <3>1. CASE EndTask(w) \/ Resume(w)
      <4>1. UNCHANGED <<idl_threads_, ret_threads_>>
        BY <3>1 DEF EndTask, Resume, NoTask
      <4>2. PICK l \in {"exec", "leaving"} : wpc' = [wpc EXCEPT ![w] = l]
        BY <3>1 DEF EndTask, Resume, NoTask, Fetch
      <4>. QED
        BY <4>1, <4>2 DEF IInv, TypeOK
    <3>2. CASE Cleanup(w) \/ TakeWakeup(w) \/ TimeOut(w)
      <4>1. UNCHANGED <<idl_threads_, ret_threads_>>
        BY <3>2 DEF Cleanup, TakeWakeup, TimeOut, counters
      <4>2. PICK l \in {"done", "woken", "expired"} : wpc' = [wpc EXCEPT ![w] = l]
        BY <3>2 DEF Cleanup, TakeWakeup, TimeOut
      <4>3. wpc'[w] = "expired" => wpc[w] = "waiting"
        BY <3>2 DEF Cleanup, TakeWakeup, TimeOut, IInv, TypeOK
      <4>. QED
        BY <4>1, <4>2, <4>3 DEF IInv, TypeOK
    <3>. QED
      BY <1>3, <3>1, <3>2 DEF WorkerStep
  <2>2. exiting_ => Retirable' \subseteq Retirable
    BY <2>1 DEF Retirable
  <2>3. exiting_ /\ all_threads_' # <<>> => BelowZero'
    BY <1>1, <2>1, SameBelow
  <2>. QED
    BY <1>1, <2>2, <2>3, ClosingKept
<1>. QED
  BY <1>2, <1>3

LEMMA SpawnClosing ==
    ASSUME IInv, NEW o \in Clients, Closing(o), NEW t, NEW created \in BOOLEAN,
           Unreserved(res_threads_), Spawn(t, created),
           UNCHANGED <<exiting_, res_threads_, clients>>
    PROVE  Closing(o)'
<1>1. PICK w \in Workers :
          /\ all_threads_' = Append(all_threads_, w)
          /\ wpc' = [wpc EXCEPT ![w] = IF created THEN "exec" ELSE "done"]
  BY DEF Spawn
<1>2. Retirable' \subseteq Retirable
  <2>1. \A v \in Workers : wpc'[v] = wpc[v] \/ wpc'[v] \in {"exec", "done"}
    BY <1>1 DEF IInv, TypeOK
  <2>2. ret_threads_' = ret_threads_
    BY DEF Spawn
  <2>. QED
    BY <2>1, <2>2 DEF Retirable
<1>3. BelowZero'
  <2>1. Len(all_threads_) < MaxThreads
    BY RoomToSpawn DEF Spawn, IInv, TypeOK
  <2>2. Len(all_threads_') = Len(all_threads_) + 1 /\ Len(all_threads_) \in Nat
    BY <1>1, AppendProperties DEF IInv, TypeOK
  <2>3. Len(ret_threads_') = 0 /\ idl_threads_' = 0
    BY DEF Spawn
  <2>. QED
    BY <2>1, <2>2, <2>3, PoolAssumption DEF BelowZero, IdleBelow
<1>. QED
  BY <1>2, <1>3, ClosingKept DEF clients

LEMMA HandClosing ==
    ASSUME IInv, RetiredRest, NEW o \in Clients, Closing(o), NEW t, NEW q,
           Unreserved(res_threads_), HandToIdle(t, q),
           UNCHANGED <<exiting_, res_threads_, clients>>
    PROVE  Closing(o)'
<1>1. Retirable' = Retirable
  BY DEF HandToIdle, Retirable, workers
<1>2. exiting_ /\ all_threads_' # <<>> => BelowZero'
  BY HandedBelow DEF HandToIdle
<1>. QED
  BY <1>1, <1>2, ClosingKept DEF clients

LEMMA SameClosing ==
    ASSUME IInv, NEW o \in Clients, Closing(o),
           UNCHANGED <<exiting_, res_threads_, idl_threads_, all_threads_, ret_threads_, wpc, cpc>>
    PROVE  Closing(o)'
<1>1. Retirable' = Retirable
  BY DEF Retirable
<1>. QED
  BY <1>1, SameBelow, ClosingKept

LEMMA StartClosing ==
    ASSUME IInv, RetiredRest, NEW o \in Clients, Closing(o), NEW c, NEW t,
           StartNow(c, t) \/ \E p \in Priorities : Start(c, t, p)
    PROVE  Closing(o)'
<1>1. UNCHANGED <<exiting_, res_threads_, clients>>
  BY DEF Start, StartNow
<1>2. CASE Started(t, queue_, res_threads_)
  <2>1. CASE Restart(t, queue_)
    <3>1. ~exiting_
      BY <1>2, <2>1, ClosingNoRestart DEF Started, Restart, NoRestart
    <3>. QED
      BY <1>1, <3>1, ClosingKept DEF clients
  <2>. QED
    BY <1>1, <1>2, <2>1, HandClosing, SpawnClosing DEF Started
<1>3. CASE NotStarted(t, res_threads_)
  BY <1>1, <1>3, SpawnClosing, SameClosing DEF NotStarted, workers, clients
<1>. QED
  BY <1>2, <1>3 DEF Start, StartNow

LEMMA ReserveClosing ==
    ASSUME IInv, NEW o \in Clients, Closing(o), Reserve(o, 0)
    PROVE  Closing(o)'
<1>1. ~exiting_ /\ exiting_' = exiting_ /\ cpc' = cpc
  BY DEF Reserve, Closing, clients
<1>2. res_threads_' = 0
  BY PoolAssumption DEF Reserve
<1>. QED
  BY <1>1, <1>2 DEF Closing

(* wait() starts to join when nobody but what all_threads_ holds is there  *)
(* to retire.                                                              *)
LEMMA WaitClosing ==
    ASSUME IInv, RetiredRest, NEW o, Owners = {o}, OthersIdle, DeleteSafe(o), Closing(o),
           Wait(o) \/ WaitStep(o)
    PROVE  Closing(o)'
<1>0. o \in Clients /\ UNCHANGED res_threads_
  BY DEF Clients, Wait, WaitStep, Join, Delete, WaitAgain, counters
<1>1. CASE Wait(o)
  <2>1. cpc[o] = "idle" /\ ~exiting_ /\ UNCHANGED wpc
    BY <1>1 DEF Wait, Closing, workers
  <2>2. CASE all_threads_ # <<>>
    <3>1. /\ all_threads_' = <<>>
          /\ ret_threads_' = ret_threads_
          /\ cpc'[o] = "join"
          /\ exiting_' = TRUE
      BY <1>0, <1>1, <2>2 DEF Wait, JoinOrFinish, IInv, TypeOK
    <3>2. Joined = {}
      <4>1. \A c \in Clients : Range(joining[c]) = {}
        BY <2>1 DEF OthersIdle, IInv, WorkersListed, Range
      <4>. QED
        BY <4>1 DEF Joined
    <3>3. \A w \in Range(ret_threads_) : wpc[w] \notin {"absent", "deleted"}
      BY <2>1 DEF DeleteSafe, RetiredRest
    <3>4. Retirable' \subseteq Range(all_threads_)
      BY <2>1, <3>1, <3>2, <3>3, ListedWorkers DEF Retirable, IInv, WorkersListed
    <3>5. Cardinality(Retirable') <= Cardinality(Range(all_threads_))
      BY <3>4, RangeFits, FS_Subset DEF IInv, TypeOK
    <3>6. /\ Cardinality(Range(all_threads_)) <= Len(all_threads_)
          /\ Cardinality(Range(all_threads_)) \in Nat
          /\ Cardinality(Retirable') \in Nat
          /\ Len(all_threads_) \in Nat
      BY <3>4, RangeFits, FS_Subset, FS_CardinalityType DEF IInv, TypeOK
    <3>7. Cardinality(Retirable') <= MaxThreads
      BY <3>5, <3>6, PoolAssumption DEF IInv, ThreadLimit
    <3>. QED
      BY <1>0, <3>1, <3>7 DEF Closing
  <2>3. CASE all_threads_ = <<>>
    <3>1. exiting_' = FALSE /\ cpc'[o] = "idle"
      BY <1>0, <1>1, <2>3 DEF Wait, JoinOrFinish, IInv, TypeOK
    <3>. QED
      BY <1>0, <3>1 DEF Closing
  <2>. QED
    BY <2>2, <2>3
<1>2. CASE WaitAgain(o)
  <2>1. CASE all_threads_ # <<>>
    <3>1. /\ all_threads_' = <<>>
          /\ cpc[o] # "idle" /\ cpc'[o] # "idle"
          /\ UNCHANGED <<exiting_, ret_threads_, wpc>>
      BY <1>0, <1>2, <2>1 DEF WaitAgain, JoinOrFinish, IInv, TypeOK, workers
    <3>. QED
      BY <1>0, <3>1, ClosingKept DEF Retirable
  <2>2. CASE all_threads_ = <<>>
    <3>1. exiting_' = FALSE /\ cpc'[o] = "idle"
      BY <1>0, <1>2, <2>2 DEF WaitAgain, JoinOrFinish, IInv, TypeOK
    <3>. QED
      BY <1>0, <3>1 DEF Closing
  <2>. QED
    BY <2>1, <2>2
<1>3. CASE Join(o)
  <2>1. UNCHANGED <<exiting_, idl_threads_, all_threads_, ret_threads_, wpc>>
    BY <1>3 DEF Join, counters, workers
  <2>2. cpc[o] # "idle" /\ cpc'[o] # "idle"
    BY <1>0, <1>3 DEF Join, IInv, TypeOK
  <2>. QED
    BY <1>0, <2>1, <2>2, ClosingKept, SameBelow DEF Retirable
<1>4. CASE Delete(o)
  <2>1. UNCHANGED <<exiting_, idl_threads_, all_threads_, ret_threads_>>
    BY <1>4 DEF Delete, counters
  <2>2. cpc[o] # "idle" /\ cpc'[o] # "idle"
    BY <1>0, <1>4 DEF Delete, IInv, TypeOK
  <2>3. \A v \in Workers : wpc'[v] = wpc[v] \/ wpc'[v] = "deleted"
    BY <1>4 DEF Delete, IInv, TypeOK
  <2>4. Retirable' \subseteq Retirable
    BY <2>1, <2>3 DEF Retirable
  <2>. QED
    BY <1>0, <2>1, <2>2, <2>4, ClosingKept, SameBelow
<1>. QED
  BY <1>1, <1>2, <1>3, <1>4 DEF WaitStep

(* One client calls wait() and others call start() meanwhile, as a comment *)
(* in wait() expects: without reservations no InternalThread is used after *)
(* it was deleted, because active_threads() or idl_threads_ is then below  *)
(* zero, a large word, whenever a joined worker is among the retired.      *)
(* With reservations this is false (run ThreadPool_deleted).               *)
THEOREM UnreservedNoUseAfterDelete ==
    ASSUME NEW o, Owners = {o}, Reservations \subseteq {0}
    PROVE  Spec => []NoUseAfterDelete
<1>. DEFINE Inv == RetiredRest /\ OthersIdle /\ DeleteSafe(o) /\ Closing(o)
<1>0. o \in Clients
  BY DEF Clients
<1>1. Init => Inv
  <2>. SUFFICES ASSUME Init PROVE Inv
    OBVIOUS
  <2>1. RetiredRest /\ OthersIdle
    BY OnePlaceInit DEF OnePlace, Init, OthersIdle
  <2>2. DeleteSafe(o)
    BY <1>0, InitDeleteSafe
  <2>3. Closing(o)
    BY <1>0 DEF Init, Closing
  <2>. QED
    BY <2>1, <2>2, <2>3
<1>2. IInv /\ OnePlace /\ Inv /\ [Next]_vars => Inv'
  <2>. SUFFICES ASSUME IInv, OnePlace, Inv, [Next]_vars PROVE Inv'
    OBVIOUS
  <2>. USE <1>0
  <2>1. RetiredRest' /\ OthersIdle'
    BY OnePlaceNext, OthersStayIdle DEF OnePlace
  <2>2. cpc[o] = "idle" \/ NoRestart
    BY ClosingNoRestart DEF Closing
  <2>3. DeleteSafe(o)'
    BY <2>2, WorkersDeleteSafe, StartDeleteSafe, ReserveDeleteSafe, WaitDeleteSafe,
       StutterDeleteSafe DEF Next
  <2>4. Closing(o)'
    <3>1. CASE UNCHANGED vars
      BY <3>1, SameClosing DEF vars, counters, workers, clients
    <3>2. ASSUME NEW n \in Reservations, Reserve(o, n) PROVE Closing(o)'
      BY <3>2, ReserveClosing
    <3>. QED
      BY <3>1, <3>2, WorkersClosing, StartClosing, WaitClosing DEF Next
  <2>. QED
    BY <2>1, <2>3, <2>4
<1>3. Inv => NoUseAfterDelete
  BY DEF DeleteSafe, NoUseAfterDelete
<1>. QED
  BY <1>1, <1>2, <1>3, Invariance, OnePlaceInit, OnePlaceNext, PTL DEF Spec

-----------------------------------------------------------------------------
(* A pool whose workers do not retire. *)

(* No reservation and no timeout: nobody retires, a worker waits on        *)
(* task_ready_ exactly when its pc says so, and while the pool is not      *)
(* exiting idl_threads_ counts the waiting ones that nobody signalled.     *)
Steady(o) ==
    /\ ret_threads_ = <<>>
    /\ res_threads_ = 0
    /\ \A w \in Workers : wpc[w] # "expired"
    /\ waiting = {w \in Workers : wpc[w] = "waiting"}
    /\ wakeups <= Cardinality(waiting)
    /\ cpc[o] = "idle" <=> ~exiting_
    /\ IdleAccounted

(* The part of it that a task and a worker disturb. *)
WaitersCounted ==
    /\ \A w \in Workers : wpc[w] # "expired"
    /\ waiting = {w \in Workers : wpc[w] = "waiting"}
    /\ wakeups <= Cardinality(waiting)
    /\ IdleAccounted

LEMMA WaitersFinite == ASSUME IInv PROVE IsFiniteSet(waiting) /\ Cardinality(waiting) \in Nat
<1>1. IsFiniteSet(waiting)
  BY PoolAssumption, FS_Subset DEF IInv, TypeOK
<1>. QED
  BY <1>1, FS_CardinalityType

LEMMA Signals ==
    ASSUME IInv
    PROVE  /\ TaskReady!SignalOne =>
                 /\ wakeups' = IF wakeups + 1 < Cardinality(waiting)
                               THEN wakeups + 1 ELSE Cardinality(waiting)
                 /\ waiting' = waiting
           /\ TaskReady!SignalAll => wakeups' = Cardinality(waiting) /\ waiting' = waiting
<1>1. TaskReady!Cardinality(waiting) = Cardinality(waiting)
  BY DEF Cardinality, TaskReady!Cardinality
<1>. QED
  BY <1>1 DEF TaskReady!SignalOne, TaskReady!SignalAll, TaskReady!Least

(* Then the unsigned sums are exact, and nobody is superfluous. *)
LEMMA Exact ==
    ASSUME IInv, NEW o, Owners = {o}, OthersIdle, Steady(o), ~exiting_
    PROVE  /\ Cardinality(waiting) <= Len(all_threads_)
           /\ idl_threads_ \in 0 .. MaxThreads
           /\ active_threads = Len(all_threads_) - idl_threads_
           /\ ~overworking
<1>0. o \in Clients
  BY DEF Clients
<1>1. Joined = {}
  <2>1. \A c \in Clients : Range(joining[c]) = {}
    BY <1>0 DEF Steady, OthersIdle, IInv, WorkersListed, Range
  <2>. QED
    BY <2>1 DEF Joined
<1>2. waiting \subseteq Range(all_threads_)
  BY <1>1 DEF Steady, IInv, WorkersListed
<1>3. Cardinality(waiting) <= Cardinality(Range(all_threads_))
  BY <1>2, RangeFits, FS_Subset DEF IInv, TypeOK
<1>4. /\ Cardinality(Range(all_threads_)) <= Len(all_threads_)
      /\ Cardinality(Range(all_threads_)) \in Nat
      /\ Cardinality(waiting) \in Nat
      /\ Len(all_threads_) \in Nat
  BY RangeFits, WaitersFinite, FS_CardinalityType DEF IInv, TypeOK
<1>5. Cardinality(waiting) <= Len(all_threads_)
  BY <1>3, <1>4
<1>6. idl_threads_ \in Nat /\ wakeups \in Nat /\ idl_threads_ + wakeups = Cardinality(waiting)
  BY DEF IInv, TypeOK, Word, Steady, IdleAccounted
<1>7. MaxThreads \in Nat /\ WordSize \in Nat /\ WordSize > 2 * MaxThreads
  BY PoolAssumption
<1>8. idl_threads_ \in 0 .. MaxThreads /\ Len(all_threads_) <= MaxThreads
  BY <1>4, <1>5, <1>6, <1>7 DEF IInv, ThreadLimit
<1>. DEFINE n == Len(all_threads_) - idl_threads_
<1>9. /\ n \in 0 .. MaxThreads /\ n < WordSize
      /\ Len(all_threads_) + res_threads_ - Len(ret_threads_) - idl_threads_ = n
  BY <1>4, <1>5, <1>6, <1>7, <1>8 DEF Steady
<1>10. active_threads = n
  <2>. HIDE DEF n
  <2>. QED
    BY <1>9, WrapSmall DEF active_threads, ActiveWith
<1>. QED
  BY <1>5, <1>7, <1>8, <1>9, <1>10 DEF overworking

LEMMA NoTaskSteady ==
    ASSUME IInv, NEW o, Owners = {o}, OthersIdle, Steady(o),
           NEW w \in Workers, NEW polled, wpc[w] \in {"exec", "woken"}, NoTask(w, polled),
           exiting_' = exiting_
    PROVE  ret_threads_' = ret_threads_ /\ WaitersCounted'
<1>1. w \notin waiting
  BY DEF Steady
<1>2. CASE exiting_
  <2>1. /\ wpc' = [wpc EXCEPT ![w] = "leaving"]
        /\ UNCHANGED <<ret_threads_, idl_threads_, taskReady>>
    BY <1>2 DEF NoTask
  <2>2. wpc'[w] = "leaving" /\ \A v \in Workers : v # w => wpc'[v] = wpc[v]
    BY <2>1 DEF IInv, TypeOK
  <2>. QED
    BY <1>1, <1>2, <2>1, <2>2 DEF Steady, WaitersCounted, IdleAccounted, taskReady
<1>3. CASE ~exiting_
  <2>1. ~overworking /\ idl_threads_ \in 0 .. MaxThreads
    BY <1>3, Exact
  <2>2. /\ idl_threads_' = Wrap(idl_threads_ + 1)
        /\ waiting' = waiting \cup {w}
        /\ wakeups' = wakeups
        /\ wpc' = [wpc EXCEPT ![w] = "waiting"]
        /\ ret_threads_' = ret_threads_
    BY <1>3, <2>1 DEF NoTask, TaskReady!Enter
  <2>3. wpc'[w] = "waiting" /\ \A v \in Workers : v # w => wpc'[v] = wpc[v]
    BY <2>2 DEF IInv, TypeOK
  <2>4. Cardinality(waiting') = Cardinality(waiting) + 1
    BY <1>1, <2>2, WaitersFinite, FS_AddElement
  <2>5. idl_threads_' = idl_threads_ + 1
    <3>1. idl_threads_ + 1 \in Nat /\ idl_threads_ + 1 < WordSize
      BY <2>1, PoolAssumption
    <3>. QED
      BY <2>2, <3>1, WrapSmall
  <2>6. waiting' = {v \in Workers : wpc'[v] = "waiting"} /\ \A v \in Workers : wpc'[v] # "expired"
    BY <2>2, <2>3 DEF Steady
  <2>7. wakeups' <= Cardinality(waiting') /\ idl_threads_' + wakeups' = Cardinality(waiting')
    <3>1. /\ Cardinality(waiting) \in Nat /\ wakeups \in Nat /\ idl_threads_ \in Nat
          /\ wakeups <= Cardinality(waiting)
          /\ idl_threads_ + wakeups = Cardinality(waiting)
      BY <1>3, <2>1, WaitersFinite DEF Steady, IdleAccounted, IInv, TypeOK
    <3>. QED
      BY <2>2, <2>4, <2>5, <3>1
  <2>. QED
    BY <2>2, <2>6, <2>7 DEF WaitersCounted, IdleAccounted
<1>. QED
  BY <1>2, <1>3

(* Workers that do not wait move. *)
LEMMA MovesSteady ==
    ASSUME IInv, NEW o, Steady(o), UNCHANGED <<exiting_, idl_threads_, taskReady>>,
           \A w \in Workers : \/ wpc'[w] = wpc[w]
                              \/ wpc[w] # "waiting" /\ wpc'[w] \notin {"waiting", "expired"}
    PROVE  WaitersCounted'
BY DEF Steady, WaitersCounted, IdleAccounted, taskReady

LEMMA WorkersSteady ==
    ASSUME IInv, NEW o, Owners = {o}, OthersIdle, Steady(o), ~RetireTimeouts,
           NEW w \in Workers, WorkerStep(w) \/ TakeWakeup(w) \/ TimeOut(w)
    PROVE  Steady(o)'
<1>0. o \in Clients
  BY DEF Clients
<1>1. UNCHANGED <<exiting_, res_threads_>> /\ (cpc'[o] = "idle" <=> cpc[o] = "idle")
  BY <1>0 DEF WorkerStep, EndTask, Resume, Retire, Cleanup, TakeWakeup, TimeOut, clients, counters
<1>2. ret_threads_' = ret_threads_ /\ WaitersCounted'
  <2>1. CASE EndTask(w) \/ Resume(w)
    <3>1. wpc[w] \in {"exec", "woken"}
      BY <2>1 DEF EndTask, Resume
    <3>2. CASE NoTask(w, 0) \/ NoTask(w, 1)
      BY <1>1, <3>1, <3>2, NoTaskSteady
    <3>3. CASE Fetch(w) /\ UNCHANGED <<idl_threads_, ret_threads_, taskReady>>
      <4>1. wpc' = [wpc EXCEPT ![w] = "exec"]
        BY <3>3 DEF Fetch
      <4>. QED
        BY <1>1, <3>1, <3>3, <4>1, MovesSteady DEF IInv, TypeOK
    <3>. QED
      BY <2>1, <3>2, <3>3 DEF EndTask, Resume
  <2>2. CASE Cleanup(w)
    BY <2>2, MovesSteady DEF Cleanup, counters, IInv, TypeOK
  <2>3. CASE TakeWakeup(w)
    <3>1. /\ w \in waiting
          /\ wakeups > 0
          /\ waiting' = waiting \ {w}
          /\ wakeups' = wakeups - 1
          /\ wpc' = [wpc EXCEPT ![w] = "woken"]
          /\ UNCHANGED <<exiting_, idl_threads_, ret_threads_>>
      BY <2>3 DEF TakeWakeup, TaskReady!Wake, counters
    <3>2. Cardinality(waiting') = Cardinality(waiting) - 1
      BY <3>1, WaitersFinite, FS_RemoveElement
    <3>3. wpc'[w] = "woken" /\ \A v \in Workers : v # w => wpc'[v] = wpc[v]
      BY <3>1 DEF IInv, TypeOK
    <3>4. waiting' = {v \in Workers : wpc'[v] = "waiting"} /\ \A v \in Workers : wpc'[v] # "expired"
      BY <3>1, <3>3 DEF Steady
    <3>5. /\ wakeups' <= Cardinality(waiting')
          /\ ~exiting_ => idl_threads_ + wakeups' = Cardinality(waiting')
      BY <3>1, <3>2, WaitersFinite, CountersInt DEF Steady, IdleAccounted, IInv, TypeOK
    <3>. QED
      BY <3>1, <3>4, <3>5 DEF WaitersCounted, IdleAccounted
  <2>4. ~Retire(w) /\ ~TimeOut(w)
    BY DEF Retire, TimeOut, Steady
  <2>. QED
    BY <2>1, <2>2, <2>3, <2>4 DEF WorkerStep
<1>. QED
  BY <1>1, <1>2 DEF Steady, WaitersCounted

LEMMA SpawnSteady ==
    ASSUME IInv, NEW o, Steady(o), NEW t, NEW created \in BOOLEAN, Spawn(t, created),
           UNCHANGED <<exiting_, waiting>>
    PROVE  /\ idl_threads_ = 0 /\ UNCHANGED <<idl_threads_, ret_threads_>>
           /\ waiting' = {w \in Workers : wpc'[w] = "waiting"}
           /\ \A w \in Workers : wpc'[w] # "expired"
<1>1. PICK w \in Workers :
          /\ wpc[w] = "absent"
          /\ wpc' = [wpc EXCEPT ![w] = IF created THEN "exec" ELSE "done"]
  BY DEF Spawn
<1>2. \A v \in Workers : \/ wpc'[v] = wpc[v]
                         \/ wpc[v] # "waiting" /\ wpc'[v] \notin {"waiting", "expired"}
  BY <1>1 DEF IInv, TypeOK
<1>. QED
  BY <1>2 DEF Spawn, Steady

LEMMA StartSteady ==
    ASSUME IInv, NEW o, Owners = {o}, OthersIdle, Steady(o), NEW c, NEW t,
           StartNow(c, t) \/ \E p \in Priorities : Start(c, t, p)
    PROVE  Steady(o)'
<1>1. UNCHANGED <<exiting_, res_threads_, clients>>
  BY DEF Start, StartNow
<1>. DEFINE n == Cardinality(waiting)
<1>2. n \in Nat /\ wakeups \in Nat /\ idl_threads_ \in Nat /\ wakeups <= n
  BY WaitersFinite DEF IInv, TypeOK, Word, Steady
<1>3. ~exiting_ => idl_threads_ + wakeups = n
  BY DEF Steady, IdleAccounted
<1>4. CASE Started(t, queue_, res_threads_)
  <2>1. CASE HandToIdle(t, queue_)
    <3>1. /\ idl_threads_ > 0 /\ idl_threads_' = idl_threads_ - 1
          /\ waiting' = waiting
          /\ wakeups' = IF wakeups + 1 < n THEN wakeups + 1 ELSE n
          /\ UNCHANGED <<ret_threads_, wpc>>
      BY <2>1, Signals DEF HandToIdle, workers
    <3>. HIDE DEF n
    <3>2. wakeups' <= n /\ (~exiting_ => idl_threads_' + wakeups' = n)
      BY <1>2, <1>3, <3>1
    <3>. QED
      BY <1>1, <3>1, <3>2 DEF Steady, IdleAccounted, clients, n
  <2>2. CASE Spawn(t, TRUE) /\ UNCHANGED taskReady
    BY <1>1, <2>2, SpawnSteady DEF Steady, IdleAccounted, taskReady, clients
  <2>3. ~Restart(t, queue_)
    BY DEF Restart, Steady
  <2>. QED
    BY <1>4, <2>1, <2>2, <2>3 DEF Started
<1>5. ASSUME NEW p, NotStarted(t, res_threads_), enqueue(t, p)
      PROVE  Steady(o)'
  <2>1. /\ waiting' = waiting
        /\ wakeups' = IF wakeups + 1 < n THEN wakeups + 1 ELSE n
    BY <1>5, Signals DEF enqueue
  <2>2. /\ ~exiting_ => idl_threads_ = 0
        /\ UNCHANGED <<idl_threads_, ret_threads_>>
        /\ waiting' = {w \in Workers : wpc'[w] = "waiting"}
        /\ \A w \in Workers : wpc'[w] # "expired"
    <3>1. CASE Spawn(t, FALSE)
      BY <1>1, <2>1, <3>1, SpawnSteady
    <3>2. CASE /\ ~Unreserved(res_threads_)
               /\ UNCHANGED <<pol_threads_, idl_threads_, all_threads_, ret_threads_,
                              workers, undefined>>
      <4>1. ~exiting_ => idl_threads_ = 0
        <5>. SUFFICES ASSUME ~exiting_ PROVE idl_threads_ = 0
          OBVIOUS
        <5>1. active_threads = Len(all_threads_) - idl_threads_ /\ Len(all_threads_) <= MaxThreads
          BY Exact DEF IInv, ThreadLimit
        <5>2. active_threads >= MaxThreads
          BY <1>2, <3>2, <5>1, PoolAssumption DEF Unreserved, active_threads, IInv, TypeOK
        <5>. QED
          BY <1>2, <5>1, <5>2, PoolAssumption DEF IInv, TypeOK
      <4>. QED
        BY <2>1, <3>2, <4>1 DEF Steady, workers
    <3>. QED
      BY <1>5, <3>1, <3>2 DEF NotStarted
  <2>. HIDE DEF n
  <2>3. wakeups' <= n /\ (~exiting_ => idl_threads_' + wakeups' = n)
    BY <1>2, <1>3, <2>1, <2>2
  <2>. QED
    BY <1>1, <2>1, <2>2, <2>3 DEF Steady, IdleAccounted, clients, n
<1>6. CASE NotStarted(t, res_threads_) /\ UNCHANGED taskReady
  <2>1. /\ UNCHANGED <<idl_threads_, ret_threads_>>
        /\ waiting' = {w \in Workers : wpc'[w] = "waiting"}
        /\ \A w \in Workers : wpc'[w] # "expired"
    BY <1>1, <1>6, SpawnSteady DEF NotStarted, taskReady, workers, Steady
  <2>. QED
    BY <1>1, <1>6, <2>1 DEF Steady, IdleAccounted, clients, taskReady
<1>. QED
  BY <1>4, <1>5, <1>6 DEF Start, StartNow

LEMMA WaitSteady ==
    ASSUME IInv, NEW o, Owners = {o}, OthersIdle, DeleteSafe(o), Steady(o),
           Wait(o) \/ WaitStep(o)
    PROVE  Steady(o)'
<1>0. o \in Clients /\ UNCHANGED res_threads_
  BY DEF Clients, Wait, WaitStep, Join, Delete, WaitAgain, counters
<1>1. CASE Wait(o)
  <2>1. UNCHANGED <<waiting, wpc>> /\ wakeups' = Cardinality(waiting) /\ ~exiting_
    BY <1>1, Signals DEF Wait, workers, Steady
  <2>2. \/ exiting_' = TRUE /\ cpc'[o] = "join" /\ ret_threads_' = ret_threads_
        \/ exiting_' = FALSE /\ cpc'[o] = "idle" /\ ret_threads_' = <<>> /\ idl_threads_' = 0
    BY <1>0, <1>1 DEF Wait, JoinOrFinish, IInv, TypeOK
  <2>. QED
    BY <1>0, <2>1, <2>2, WaitersFinite DEF Steady, IdleAccounted
<1>2. CASE WaitAgain(o)
  <2>1. UNCHANGED <<waiting, wakeups, wpc>> /\ exiting_
    BY <1>2 DEF WaitAgain, workers, taskReady, Steady
  <2>2. CASE cpc'[o] = "join" /\ UNCHANGED <<exiting_, ret_threads_>>
    BY <1>0, <2>1, <2>2 DEF Steady, IdleAccounted
  <2>3. CASE /\ cpc'[o] = "idle" /\ exiting_' = FALSE /\ ret_threads_' = <<>>
             /\ idl_threads_' = 0
    <3>1. Live' = {}
      BY <1>2, <2>3, LastOneOut DEF WaitFinishes
    <3>2. waiting = {}
      BY <2>1, <3>1 DEF Steady, Live, Running
    <3>3. Cardinality(waiting) = 0
      BY <3>2, FS_EmptySet
    <3>4. wakeups = 0
      BY <3>3 DEF Steady, IInv, TypeOK
    <3>. QED
      BY <1>0, <2>1, <2>3, <3>3, <3>4 DEF Steady, IdleAccounted
  <2>. QED
    BY <1>0, <1>2, <2>2, <2>3 DEF WaitAgain, JoinOrFinish, IInv, TypeOK
<1>3. CASE Join(o)
  <2>1. cpc[o] # "idle" /\ cpc'[o] # "idle"
    BY <1>0, <1>3 DEF Join, IInv, TypeOK
  <2>2. UNCHANGED <<exiting_, idl_threads_, ret_threads_, waiting, wakeups, wpc>>
    BY <1>3 DEF Join, counters, taskReady, workers
  <2>. QED
    BY <1>0, <2>1, <2>2 DEF Steady, IdleAccounted
<1>4. CASE Delete(o)
  <2>1. cpc[o] # "idle" /\ cpc'[o] # "idle"
    BY <1>0, <1>4 DEF Delete, IInv, TypeOK
  <2>2. UNCHANGED <<exiting_, idl_threads_, ret_threads_, taskReady>>
    BY <1>4 DEF Delete, counters
  <2>3. wpc[Head(joining[o])] \in {"done", "deleted"}
    BY <1>4 DEF Delete, DeleteSafe
  <2>4. WaitersCounted'
    BY <1>4, <2>2, <2>3, MovesSteady DEF Delete, IInv, TypeOK
  <2>. QED
    BY <1>0, <2>1, <2>2, <2>4 DEF Steady, WaitersCounted
<1>. QED
  BY <1>1, <1>2, <1>3, <1>4 DEF WaitStep

SteadyInv(o) == OthersIdle /\ DeleteSafe(o) /\ Steady(o)

LEMMA SteadyInit == ASSUME NEW o, Owners = {o} PROVE Init => SteadyInv(o)
<1>. SUFFICES ASSUME Init PROVE SteadyInv(o)
  OBVIOUS
<1>1. o \in Clients
  BY DEF Clients
<1>2. OthersIdle /\ DeleteSafe(o)
  BY <1>1, InitDeleteSafe DEF Init, OthersIdle
<1>3. waiting = {} /\ wakeups = 0 /\ Cardinality(waiting) = 0
  BY FS_EmptySet DEF Init, TaskReady!Init
<1>. QED
  BY <1>1, <1>2, <1>3 DEF Init, SteadyInv, Steady, IdleAccounted

LEMMA SteadyNext ==
    ASSUME NEW o, Owners = {o}, ~RetireTimeouts, Reservations \subseteq {0}
    PROVE  IInv /\ SteadyInv(o) /\ [Next]_vars => SteadyInv(o)'
<1>. SUFFICES ASSUME IInv, SteadyInv(o), [Next]_vars PROVE SteadyInv(o)'
  OBVIOUS
<1>. USE DEF SteadyInv
<1>1. o \in Clients /\ NoRestart
  BY DEF Clients, NoRestart, Steady
<1>2. OthersIdle'
  BY OthersStayIdle
<1>3. DeleteSafe(o)'
  BY <1>1, WorkersDeleteSafe, StartDeleteSafe, ReserveDeleteSafe, WaitDeleteSafe,
     StutterDeleteSafe DEF Next
<1>4. Steady(o)'
  <2>1. CASE UNCHANGED vars
    BY <2>1 DEF Steady, IdleAccounted, vars, counters, taskReady, workers, clients
  <2>2. ASSUME NEW n \in Reservations, Reserve(o, n) PROVE Steady(o)'
    <3>1. n = 0 /\ ~(n < res_threads_)
      BY DEF Steady
    <3>2. res_threads_' = 0
      BY <2>2, <3>1, PoolAssumption DEF Reserve
    <3>. QED
      BY <2>2, <3>1, <3>2 DEF Reserve, Steady, IdleAccounted, taskReady, workers, clients
  <2>. QED
    BY <2>1, <2>2, WorkersSteady, StartSteady, WaitSteady DEF Next
<1>. QED
  BY <1>2, <1>3, <1>4

(* idl_threads_ is exact when nobody retires, whatever is started while a  *)
(* wait() joins and whether or not threads can be created: a worker leaves *)
(* the count when it is signalled, never when it wakes up, and wait()      *)
(* starts the count anew when nobody waits.                                *)
THEOREM IdleCounted ==
    ASSUME NEW o, Owners = {o}, ~RetireTimeouts, Reservations \subseteq {0}
    PROVE  Spec => []IdleAccounted
<1>1. SteadyInv(o) => IdleAccounted
  BY DEF SteadyInv, Steady
<1>. QED
  BY <1>1, SteadyInit, SteadyNext, Invariance, PTL DEF Spec

-----------------------------------------------------------------------------
(* Nothing is left in the queue when the last worker goes. *)

Woken == {w \in Workers : wpc[w] = "woken"}

(* A task that start() took is somewhere. *)
NoneLost ==
    \A t \in accepted : \/ t \in finished
                        \/ \E e \in queue_ : e[1] = t
                        \/ \E w \in Workers : Holds(w) /\ task_[w] = t

(* Outside wait() no worker of the pool has left. *)
AtWork ==
    /\ ~exiting_ => \A w \in Range(all_threads_) : wpc[w] \in {"exec", "waiting", "woken"}
    /\ exiting_ => all_threads_ = <<>>

(* Somebody will look at the queue.  As long as idl_threads_ is above      *)
(* zero, and active_threads() with it below once all_threads_ is empty, a  *)
(* worker that ends a task may leave without a look: then there is a       *)
(* wakeup, or a worker that took one, for every task in the queue.         *)
Attended ==
    /\ IsFiniteSet(queue_)
    /\ idl_threads_ > 0 => Cardinality(queue_) <= wakeups + Cardinality(Woken)
    /\ queue_ # {} => wakeups > 0 \/ \E w \in Workers : wpc[w] \in {"exec", "woken"}

AllIn == NoneLost /\ AtWork /\ Attended

LEMMA WokenFinite == IsFiniteSet(Woken) /\ Cardinality(Woken) \in Nat
<1>1. IsFiniteSet(Woken)
  BY PoolAssumption, FS_Subset DEF Woken
<1>. QED
  BY <1>1, FS_CardinalityType

(* A wakeup, or a worker that took one, is there for the queue. *)
LEMMA Covered ==
    ASSUME IInv, Attended, idl_threads_ > 0, queue_ # {}
    PROVE  wakeups > 0 \/ \E w \in Workers : wpc[w] = "woken"
<1>1. Cardinality(queue_) \in Nat \ {0}
  BY FS_EmptySet, FS_CardinalityType DEF Attended
<1>2. CASE Woken = {}
  <2>1. Cardinality(Woken) = 0
    BY <1>2, FS_EmptySet
  <2>. QED
    BY <1>1, <2>1 DEF Attended, IInv, TypeOK
<1>3. CASE Woken # {}
  BY <1>3 DEF Woken
<1>. QED
  BY <1>2, <1>3

LEMMA FetchAllIn ==
    ASSUME IInv, AllIn, NEW w \in Workers, wpc[w] \in {"exec", "woken"}, Fetch(w),
           UNCHANGED <<exiting_, idl_threads_, all_threads_, taskReady, accepted>>,
           finished \subseteq finished', Holds(w) => task_[w] \in finished'
    PROVE  AllIn'
<1>1. PICK top \in queue_ : /\ task_' = [task_ EXCEPT ![w] = top[1]]
                            /\ queue_' = queue_ \ {top}
                            /\ wpc' = [wpc EXCEPT ![w] = "exec"]
  BY DEF Fetch, TopEntries
<1>2. /\ wpc'[w] = "exec" /\ task_'[w] = top[1]
      /\ \A v \in Workers : v # w => wpc'[v] = wpc[v] /\ task_'[v] = task_[v]
  BY <1>1 DEF IInv, TypeOK
<1>3. NoneLost'
  BY <1>1, <1>2 DEF AllIn, NoneLost, Holds
<1>4. AtWork'
  BY <1>2, ListedWorkers DEF AllIn, AtWork
<1>5. Attended'
  <2>1. IsFiniteSet(queue_') /\ Cardinality(queue_') = Cardinality(queue_) - 1
    BY <1>1, FS_RemoveElement DEF AllIn, Attended
  <2>2. Woken' = Woken \ {w}
    BY <1>2 DEF Woken
  <2>3. Cardinality(Woken') >= Cardinality(Woken) - 1
    BY <2>2, WokenFinite, FS_RemoveElement
  <2>4. /\ Cardinality(queue_) \in Nat /\ Cardinality(Woken) \in Nat
        /\ Cardinality(Woken') \in Nat /\ wakeups \in Nat
    BY <2>2, WokenFinite, FS_RemoveElement, FS_CardinalityType DEF AllIn, Attended, IInv, TypeOK
  <2>5. idl_threads_' > 0 => Cardinality(queue_') <= wakeups' + Cardinality(Woken')
    BY <2>1, <2>3, <2>4 DEF AllIn, Attended, taskReady
  <2>. QED
    BY <1>2, <2>1, <2>5 DEF Attended
<1>. QED
  BY <1>3, <1>4, <1>5 DEF AllIn

(* The worker goes, or waits: the queue is empty or attended by others. *)
LEMMA NoTaskAllIn ==
    ASSUME IInv, NEW o, Owners = {o}, OthersIdle, Steady(o), AllIn,
           NEW w \in Workers, wpc[w] \in {"exec", "woken"}, NEW polled, NoTask(w, polled),
           queue_ = {} \/ (wpc[w] = "exec" /\ overworking),
           UNCHANGED <<exiting_, all_threads_, accepted>>,
           finished \subseteq finished', Holds(w) => task_[w] \in finished'
    PROVE  AllIn'
<1>1. PICK l \in {"leaving", "waiting"} : wpc' = [wpc EXCEPT ![w] = l]
  BY DEF NoTask
<1>2. /\ wpc'[w] = l
      /\ \A v \in Workers : v # w => wpc'[v] = wpc[v] /\ task_'[v] = task_[v]
      /\ queue_' = queue_
  BY <1>1 DEF NoTask, IInv, TypeOK
<1>3. NoneLost'
  BY <1>2 DEF AllIn, NoneLost, Holds
<1>4. ~exiting_ => ~overworking /\ l = "waiting"
  <2>1. ~exiting_ => ~overworking
    BY Exact
  <2>2. ~exiting_ => wpc' = [wpc EXCEPT ![w] = "waiting"]
    BY <2>1 DEF NoTask
  <2>. QED
    BY <1>2, <2>1, <2>2 DEF IInv, TypeOK
<1>5. AtWork'
  BY <1>2, <1>4, ListedWorkers DEF AllIn, AtWork
<1>6. CASE queue_ = {}
  <2>1. Cardinality(queue_') = 0 /\ IsFiniteSet(queue_')
    BY <1>2, <1>6, FS_EmptySet
  <2>2. wakeups' \in Nat
    BY DEF NoTask, taskReady, TaskReady!Enter, IInv, TypeOK
  <2>3. Cardinality(Woken') \in Nat
    <3>1. IsFiniteSet(Woken')
      BY PoolAssumption, FS_Subset DEF Woken
    <3>. QED
      BY <3>1, FS_CardinalityType
  <2>4. Attended'
    BY <1>2, <1>6, <2>1, <2>2, <2>3 DEF Attended
  <2>. QED
    BY <1>3, <1>5, <2>4 DEF AllIn
<1>7. CASE queue_ # {} /\ wpc[w] = "exec" /\ overworking
  <2>1. exiting_ /\ UNCHANGED <<idl_threads_, taskReady>>
    BY <1>4, <1>7 DEF NoTask
  <2>2. idl_threads_ > 0
    <3>1. all_threads_ = <<>>
      BY <2>1 DEF AllIn, AtWork
    <3>2. idl_threads_ = 0 => active_threads = 0
      BY <3>1, WrapSmall, PoolAssumption DEF active_threads, ActiveWith, Steady
    <3>. QED
      BY <1>7, <3>2, PoolAssumption DEF overworking, IInv, TypeOK, Word
  <2>3. wakeups > 0 \/ \E v \in Workers : wpc[v] = "woken"
    BY <1>7, <2>2, Covered DEF AllIn
  <2>4. wakeups' > 0 \/ \E v \in Workers : wpc'[v] = "woken"
    BY <1>2, <1>7, <2>1, <2>3 DEF taskReady
  <2>5. Woken' = Woken
    BY <1>2, <1>7 DEF Woken
  <2>6. Attended'
    BY <1>2, <2>1, <2>4, <2>5 DEF AllIn, Attended, taskReady
  <2>. QED
    BY <1>3, <1>5, <2>6 DEF AllIn
<1>. QED
  BY <1>6, <1>7

LEMMA WorkersAllIn ==
    ASSUME IInv, NEW o, Owners = {o}, OthersIdle, Steady(o), AllIn, ~RetireTimeouts,
           NEW w \in Workers, WorkerStep(w) \/ TakeWakeup(w) \/ TimeOut(w)
    PROVE  AllIn'
<1>1. CASE EndTask(w)
  <2>1. /\ wpc[w] = "exec"
        /\ UNCHANGED <<exiting_, all_threads_, accepted>>
        /\ finished \subseteq finished' /\ task_[w] \in finished'
    BY <1>1 DEF EndTask
  <2>. QED
    BY <1>1, <2>1, FetchAllIn, NoTaskAllIn DEF EndTask
<1>2. CASE Resume(w)
  <2>1. /\ wpc[w] = "woken" /\ ~Holds(w)
        /\ UNCHANGED <<exiting_, all_threads_, accepted, finished>>
    BY <1>2 DEF Resume, Holds, history
  <2>. QED
    BY <1>2, <2>1, FetchAllIn, NoTaskAllIn DEF Resume
<1>3. CASE TakeWakeup(w)
  <2>1. /\ wpc[w] = "waiting"
        /\ wakeups > 0 /\ wakeups' = wakeups - 1
        /\ wpc' = [wpc EXCEPT ![w] = "woken"]
        /\ UNCHANGED <<exiting_, idl_threads_, all_threads_, queue_, task_, accepted, finished>>
    BY <1>3 DEF TakeWakeup, TaskReady!Wake, counters, history
  <2>2. wpc'[w] = "woken" /\ \A v \in Workers : v # w => wpc'[v] = wpc[v]
    BY <2>1 DEF IInv, TypeOK
  <2>3. NoneLost'
    BY <2>1, <2>2 DEF AllIn, NoneLost, Holds
  <2>4. AtWork'
    BY <2>1, <2>2, ListedWorkers DEF AllIn, AtWork
  <2>5. Cardinality(Woken') = Cardinality(Woken) + 1
    <3>1. Woken' = Woken \cup {w} /\ w \notin Woken
      BY <2>1, <2>2 DEF Woken
    <3>. QED
      BY <3>1, WokenFinite, FS_AddElement
  <2>6. Attended'
    <3>1. wakeups \in Nat /\ wakeups' + Cardinality(Woken') = wakeups + Cardinality(Woken)
      BY <2>1, <2>5, WokenFinite DEF IInv, TypeOK
    <3>. QED
      BY <2>1, <2>2, <3>1 DEF AllIn, Attended
  <2>. QED
    BY <2>3, <2>4, <2>6 DEF AllIn
<1>4. CASE Cleanup(w)
  <2>1. /\ wpc[w] = "leaving"
        /\ wpc' = [wpc EXCEPT ![w] = "done"]
        /\ UNCHANGED <<exiting_, idl_threads_, all_threads_, queue_, taskReady, task_,
                       accepted, finished>>
    BY <1>4 DEF Cleanup, counters, history
  <2>2. wpc'[w] = "done" /\ \A v \in Workers : v # w => wpc'[v] = wpc[v]
    BY <2>1 DEF IInv, TypeOK
  <2>3. NoneLost'
    BY <2>1, <2>2 DEF AllIn, NoneLost, Holds
  <2>4. AtWork'
    BY <2>1, <2>2, ListedWorkers DEF AllIn, AtWork
  <2>5. Woken' = Woken
    BY <2>1, <2>2 DEF Woken
  <2>6. Attended'
    BY <2>1, <2>2, <2>5 DEF AllIn, Attended, taskReady
  <2>. QED
    BY <2>3, <2>4, <2>6 DEF AllIn
<1>5. ~Retire(w) /\ ~TimeOut(w)
  BY DEF Retire, TimeOut, Steady
<1>. QED
  BY <1>1, <1>2, <1>3, <1>4, <1>5 DEF WorkerStep

LEMMA HandAllIn ==
    ASSUME IInv, NEW o, Steady(o), AllIn, ~exiting_, NEW t, HandToIdle(t, queue_),
           accepted' = accepted \cup {t}, UNCHANGED <<exiting_, finished>>
    PROVE  AllIn'
<1>. DEFINE n == Cardinality(waiting)
<1>1. n \in Nat /\ wakeups \in Nat /\ idl_threads_ \in Nat /\ idl_threads_ + wakeups = n
  BY WaitersFinite DEF IInv, TypeOK, Word, Steady, IdleAccounted
<1>2. /\ idl_threads_ > 0
      /\ wakeups' = IF wakeups + 1 < n THEN wakeups + 1 ELSE n
      /\ queue_' = queue_ \cup {<<t, 0>>}
      /\ UNCHANGED <<all_threads_, wpc, task_>>
  BY Signals DEF HandToIdle, workers
<1>3. wakeups' = wakeups + 1
  <2>. HIDE DEF n
  <2>. QED
    BY <1>1, <1>2
<1>4. IsFiniteSet(queue_') /\ Cardinality(queue_') <= Cardinality(queue_) + 1
  <2>1. /\ IsFiniteSet(queue_')
        /\ Cardinality(queue_') = IF <<t, 0>> \in queue_ THEN Cardinality(queue_)
                                  ELSE Cardinality(queue_) + 1
    BY <1>2, FS_AddElement DEF AllIn, Attended
  <2>2. Cardinality(queue_) \in Nat
    BY FS_CardinalityType DEF AllIn, Attended
  <2>. QED
    BY <2>1, <2>2
<1>5. Woken' = Woken
  BY <1>2 DEF Woken
<1>6. Cardinality(queue_') <= wakeups' + Cardinality(Woken')
  <2>1. Cardinality(queue_) \in Nat /\ Cardinality(queue_') \in Nat
    BY <1>4, FS_CardinalityType DEF AllIn, Attended
  <2>. QED
    BY <1>1, <1>2, <1>3, <1>4, <1>5, <2>1, WokenFinite DEF AllIn, Attended
<1>7. Attended'
  BY <1>1, <1>3, <1>4, <1>6 DEF Attended
<1>8. NoneLost'
  <2>1. <<t, 0>> \in queue_' /\ <<t, 0>>[1] = t
    BY <1>2
  <2>. QED
    BY <1>2, <2>1 DEF AllIn, NoneLost, Holds
<1>9. AtWork'
  BY <1>2 DEF AllIn, AtWork
<1>. QED
  BY <1>7, <1>8, <1>9 DEF AllIn

LEMMA SpawnAllIn ==
    ASSUME IInv, AllIn, ~exiting_, NEW t, Spawn(t, TRUE),
           queue_' = queue_, accepted' = accepted \cup {t}, UNCHANGED <<exiting_, finished>>
    PROVE  AllIn'
<1>1. PICK w \in Workers :
          /\ wpc[w] = "absent"
          /\ all_threads_' = Append(all_threads_, w)
          /\ task_' = [task_ EXCEPT ![w] = t]
          /\ wpc' = [wpc EXCEPT ![w] = "exec"]
  BY DEF Spawn
<1>2. /\ wpc'[w] = "exec" /\ task_'[w] = t
      /\ \A v \in Workers : v # w => wpc'[v] = wpc[v] /\ task_'[v] = task_[v]
  BY <1>1 DEF IInv, TypeOK
<1>3. \A y \in Range(all_threads_') : y = w \/ y \in Range(all_threads_)
  BY <1>1, AppendedDistinct DEF IInv, TypeOK
<1>4. NoneLost'
  BY <1>1, <1>2 DEF AllIn, NoneLost, Holds
<1>5. AtWork'
  BY <1>2, <1>3, ListedWorkers DEF AllIn, AtWork
<1>6. Attended'
  BY <1>2 DEF AllIn, Attended, Spawn
<1>. QED
  BY <1>4, <1>5, <1>6 DEF AllIn

(* All workers are busy, or waiting and signalled all. *)
LEMMA EnqueueAllIn ==
    ASSUME IInv, NEW o, Owners = {o}, OthersIdle, Steady(o), AllIn, ~exiting_,
           ~Unreserved(res_threads_), NEW t, NEW p, enqueue(t, p),
           accepted' = accepted \cup {t},
           UNCHANGED <<exiting_, idl_threads_, all_threads_, workers, finished>>
    PROVE  AllIn'
<1>. DEFINE n == Cardinality(waiting)
<1>1. n \in Nat /\ wakeups \in Nat /\ idl_threads_ \in Nat /\ idl_threads_ + wakeups = n
  BY WaitersFinite DEF IInv, TypeOK, Word, Steady, IdleAccounted
<1>2. idl_threads_ = 0 /\ Len(all_threads_) = MaxThreads
  <2>1. active_threads = Len(all_threads_) - idl_threads_ /\ Len(all_threads_) <= MaxThreads
    BY Exact DEF IInv, ThreadLimit
  <2>2. active_threads >= MaxThreads
    BY <1>1, <2>1, PoolAssumption DEF Unreserved, active_threads, IInv, TypeOK
  <2>. QED
    BY <1>1, <2>1, <2>2, PoolAssumption DEF IInv, TypeOK
<1>3. /\ queue_' = queue_ \cup {<<t, p>>}
      /\ wakeups' = IF wakeups + 1 < n THEN wakeups + 1 ELSE n
  BY Signals DEF enqueue
<1>4. wakeups' = n
  <2>. HIDE DEF n
  <2>. QED
    BY <1>1, <1>2, <1>3
<1>5. n > 0 \/ \E w \in Workers : wpc[w] \in {"exec", "woken"}
  <2>1. PICK w \in Range(all_threads_) : TRUE
    <3>1. 1 \in DOMAIN all_threads_
      BY <1>2, PoolAssumption, LenProperties DEF IInv, TypeOK
    <3>. QED
      BY <3>1 DEF Range
  <2>2. w \in Workers /\ wpc[w] \in {"exec", "waiting", "woken"}
    BY ListedWorkers DEF AllIn, AtWork
  <2>3. CASE wpc[w] = "waiting"
    <3>1. waiting # {}
      BY <2>2, <2>3 DEF Steady
    <3>2. n # 0
      BY <3>1, WaitersFinite, FS_EmptySet
    <3>. QED
      BY <1>1, <3>2
  <2>. QED
    BY <2>2, <2>3
<1>6. Attended'
  <2>1. IsFiniteSet(queue_')
    BY <1>3, FS_AddElement DEF AllIn, Attended
  <2>. QED
    BY <1>2, <1>4, <1>5, <2>1 DEF Attended, workers
<1>7. NoneLost'
  <2>1. <<t, p>> \in queue_' /\ <<t, p>>[1] = t
    BY <1>3
  <2>. QED
    BY <1>3, <2>1 DEF AllIn, NoneLost, Holds, workers
<1>8. AtWork'
  BY DEF AllIn, AtWork, workers
<1>. QED
  BY <1>6, <1>7, <1>8 DEF AllIn

LEMMA SameAllIn ==
    ASSUME AllIn, UNCHANGED <<exiting_, idl_threads_, all_threads_, queue_, taskReady,
                              workers, accepted, finished>>
    PROVE  AllIn'
BY DEF AllIn, NoneLost, AtWork, Attended, Holds, Woken, taskReady, workers

LEMMA StartAllIn ==
    ASSUME IInv, NEW o, Owners = {o}, OthersIdle, Steady(o), AllIn, ~CreateFails,
           cpc[o] = "idle", NEW c, NEW t,
           StartNow(c, t) \/ \E p \in Priorities : Start(c, t, p)
    PROVE  AllIn'
<1>1. ~exiting_ /\ UNCHANGED <<exiting_, finished>>
  BY DEF Start, StartNow, Steady
<1>2. CASE Started(t, queue_, res_threads_) /\ accepted' = accepted \cup {t}
  <2>1. ~Restart(t, queue_)
    BY DEF Restart, Steady
  <2>. QED
    BY <1>1, <1>2, <2>1, HandAllIn, SpawnAllIn DEF Started
<1>3. ASSUME NEW p, NotStarted(t, res_threads_), enqueue(t, p), accepted' = accepted \cup {t}
      PROVE  AllIn'
  BY <1>1, <1>3, EnqueueAllIn DEF NotStarted
<1>4. CASE NotStarted(t, res_threads_) /\ UNCHANGED <<queue_, taskReady, accepted>>
  BY <1>1, <1>4, SameAllIn DEF NotStarted
<1>. QED
  BY <1>2, <1>3, <1>4 DEF Start, StartNow

LEMMA WaitAllIn ==
    ASSUME IInv, NEW o, Owners = {o}, OthersIdle, DeleteSafe(o), Steady(o), AllIn,
           Wait(o) \/ WaitStep(o)
    PROVE  AllIn'
<1>0. o \in Clients
  BY DEF Clients
<1>1. CASE Wait(o) \/ WaitAgain(o)
  <2>1. UNCHANGED <<wpc, task_, queue_, accepted, finished>>
    BY <1>1 DEF Wait, WaitAgain, workers, history
  <2>2. wakeups' >= wakeups /\ wakeups \in Nat /\ wakeups' \in Nat
    <3>1. wakeups \in Nat /\ wakeups <= Cardinality(waiting) /\ Cardinality(waiting) \in Nat
      BY WaitersFinite DEF IInv, TypeOK, Steady
    <3>2. wakeups' = wakeups \/ wakeups' = Cardinality(waiting)
      BY <1>1, Signals DEF Wait, WaitAgain, taskReady
    <3>. QED
      BY <3>1, <3>2
  <2>3. /\ all_threads_' = <<>>
        /\ idl_threads_' = idl_threads_ \/ idl_threads_' = 0
    BY <1>1 DEF Wait, WaitAgain, JoinOrFinish
  <2>4. NoneLost'
    BY <2>1 DEF AllIn, NoneLost, Holds
  <2>5. AtWork'
    BY <2>3 DEF AtWork, Range
  <2>6. Attended'
    <3>1. Woken' = Woken
      BY <2>1 DEF Woken
    <3>2. Cardinality(queue_) \in Nat
      BY FS_CardinalityType DEF AllIn, Attended
    <3>3. idl_threads_' > 0 => Cardinality(queue_) <= wakeups' + Cardinality(Woken)
      BY <2>2, <2>3, <3>2, WokenFinite DEF AllIn, Attended
    <3>4. queue_ # {} => wakeups' > 0 \/ \E w \in Workers : wpc[w] \in {"exec", "woken"}
      BY <2>2 DEF AllIn, Attended
    <3>. QED
      BY <2>1, <3>1, <3>3, <3>4 DEF AllIn, Attended
  <2>. QED
    BY <2>4, <2>5, <2>6 DEF AllIn
<1>2. CASE Join(o)
  BY <1>2, SameAllIn DEF Join, counters, history
<1>3. CASE Delete(o)
  <2>. DEFINE w == Head(joining[o])
  <2>1. /\ wpc[w] \in {"done", "deleted"}
        /\ wpc' = [wpc EXCEPT ![w] = "deleted"]
        /\ UNCHANGED <<exiting_, idl_threads_, all_threads_, queue_, taskReady, task_,
                       accepted, finished>>
    BY <1>3 DEF Delete, DeleteSafe, counters
  <2>. HIDE DEF w
  <2>2. \A v \in Workers : wpc'[v] = wpc[v] \/ (wpc[v] = "done" /\ wpc'[v] = "deleted")
    BY <2>1 DEF IInv, TypeOK
  <2>3. exiting_
    BY <1>3 DEF Delete, Steady
  <2>4. NoneLost'
    BY <2>1, <2>2 DEF AllIn, NoneLost, Holds
  <2>5. AtWork'
    BY <2>1, <2>3 DEF AllIn, AtWork
  <2>6. Woken' = Woken
    BY <2>2 DEF Woken
  <2>7. Attended'
    BY <2>1, <2>2, <2>6 DEF AllIn, Attended, taskReady
  <2>. QED
    BY <2>4, <2>5, <2>7 DEF AllIn
<1>. QED
  BY <1>1, <1>2, <1>3 DEF WaitStep

LEMMA LastTaskDone ==
    ASSUME NEW o, Owners = {o}, IInv, OthersIdle, Steady(o), AllIn, WaitFinishes(o)
    PROVE  accepted \subseteq finished
<1>1. \A w \in Workers : ~Running(w)
  <2>1. Live' = {} /\ UNCHANGED wpc
    BY LastOneOut DEF WaitFinishes, Wait, WaitAgain, workers
  <2>. QED
    BY <2>1 DEF Live, Running
<1>2. wakeups = 0
  <2>1. waiting = {}
    BY <1>1 DEF Steady, Running
  <2>2. Cardinality(waiting) = 0
    BY <2>1, FS_EmptySet
  <2>. QED
    BY <2>2 DEF Steady, IInv, TypeOK
<1>3. queue_ = {}
  BY <1>1, <1>2 DEF AllIn, Attended, Running
<1>. QED
  BY <1>1, <1>3 DEF AllIn, NoneLost, Holds, Running

(* "Waits for all tasks to finish": the wait() of an only client returns   *)
(* when every task it ever started is finished, if nobody retires and      *)
(* threads can be created.  A worker may leave while there are tasks in    *)
(* the queue, since active_threads() wraps as soon as wait() has taken     *)
(* all_threads_; those tasks are then left to workers that have been woken *)
(* for them.                                                               *)
THEOREM WaitsForAllTasks ==
    ASSUME NEW o, Clients = {o}, o \in Owners, ~RetireTimeouts, ~CreateFails,
           Reservations \subseteq {0}
    PROVE  Spec => WaitFinishesAll
<1>0. Owners = {o} /\ o \in Clients /\ \A c \in Submitters : c = o
  BY DEF Clients
<1>1. Init => AllIn
  <2>. SUFFICES ASSUME Init PROVE AllIn
    OBVIOUS
  <2>1. IsFiniteSet(queue_) /\ idl_threads_ = 0
    BY FS_EmptySet DEF Init
  <2>. QED
    BY <2>1 DEF Init, AllIn, NoneLost, AtWork, Attended, Range
<1>2. IInv /\ SteadyInv(o) /\ AllIn /\ [Next]_vars => AllIn'
  <2>. SUFFICES ASSUME IInv, SteadyInv(o), AllIn, [Next]_vars PROVE AllIn'
    OBVIOUS
  <2>. USE <1>0 DEF SteadyInv
  <2>1. CASE UNCHANGED vars
    BY <2>1, SameAllIn DEF vars, counters, history
  <2>2. ASSUME NEW n \in Reservations, Reserve(o, n) PROVE AllIn'
    <3>1. n = 0 /\ ~(n < res_threads_)
      BY DEF Steady
    <3>. QED
      BY <2>2, <3>1, SameAllIn DEF Reserve
  <2>3. ASSUME NEW c \in Submitters, NEW t, StartNow(c, t) \/ \E p \in Priorities : Start(c, t, p)
        PROVE  AllIn'
    <3>1. cpc[o] = "idle"
      BY <2>3 DEF Start, StartNow
    <3>. QED
      BY <2>3, <3>1, StartAllIn
  <2>. QED
    BY <2>1, <2>2, <2>3, WorkersAllIn, WaitAllIn DEF Next
<1>3. IInv /\ SteadyInv(o) /\ AllIn
        => [\A c \in Owners : WaitFinishes(c) => accepted \subseteq finished]_vars
  BY <1>0, LastTaskDone DEF SteadyInv
<1>. QED
  BY <1>0, <1>1, <1>2, <1>3, SteadyInit, SteadyNext, Invariance, PTL DEF Spec, WaitFinishesAll
==============================================================================
