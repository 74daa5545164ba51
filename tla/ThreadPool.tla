----------------------------- MODULE ThreadPool ------------------------------
(***************************************************************************)
(* ThreadPool (src/threadpool.cc): its worker threads, its work queue and  *)
(* the clients that call start(), start_now(), reserve() and wait().       *)
(*                                                                         *)
(* What the code does between taking the pool's mutex_ and giving it up    *)
(* is one action.  A worker gives it up to execute a task, to wait on      *)
(* task_ready_ and when run() returns; wait() gives it up to join.         *)
(*   wpc[w]  absent   the InternalThread does not exist                    *)
(*           exec     executes task_[w]                                    *)
(*           waiting  in task_ready_.wait                                  *)
(*           woken    that wait returned true, mutex_ not taken yet        *)
(*           expired  that wait returned false, mutex_ not taken yet       *)
(*           leaving  run() has returned, Thread::cleanup not done yet     *)
(*           done     the native thread is gone (or was never created)     *)
(*           deleted  the InternalThread has been deleted                  *)
(*   cpc[c]  idle     in no call                                           *)
(*           join     wait(): about to call wait() on Head(joining[c])     *)
(*           joining  wait(): inside that call                             *)
(*           delete   wait(): about to delete Head(joining[c])             *)
(*           relock   wait(): all joined, mutex_ not taken yet             *)
(* task_ready_ is the Monitor that WaitCondition.tla implements; starting  *)
(* and joining a worker are the calls modelled in Thread.tla.              *)
(***************************************************************************)
EXTENDS Integers, FiniteSets, SequencesExt

CONSTANTS
    Submitters,     \* clients that call start() and start_now()
    Owners,         \* clients that call reserve() and wait()
    Workers,        \* bound: the InternalThread objects that can be created
    Tasks,          \* bound: the tasks, each submitted once, as addresses
    Priorities,     \* the priorities clients pass to start()
    MaxThreads,     \* max_threads_
    Reservations,   \* the arguments of reserve()
    RetireTimeouts, \* whether ret_timeout_ can run out
    CreateFails,    \* whether pthread_create can fail
    WordSize        \* the counters are unsigned: 2^32 in the code

ASSUME PoolAssumption ==
    /\ MaxThreads \in Nat \ {0}
    /\ WordSize \in Nat
    /\ WordSize > 2 * MaxThreads
    /\ IsFiniteSet(Workers)
    /\ Tasks \subseteq Nat \ {0}
    /\ Priorities \subseteq Nat
    /\ 0 \in Priorities
    /\ Reservations \subseteq Nat
    /\ RetireTimeouts \in BOOLEAN
    /\ CreateFails \in BOOLEAN

Clients == Submitters \cup Owners

NULL == 0

VARIABLES
    exiting_, pol_threads_, res_threads_, idl_threads_,
    all_threads_, ret_threads_, queue_,
    waiting, wakeups,           \* task_ready_
    wpc, task_,
    cpc, joining,
    accepted, finished,         \* history: tasks start() took, tasks executed
    undefined                   \* an InternalThread was used after its delete

counters == <<pol_threads_, res_threads_, idl_threads_>>
taskReady == <<waiting, wakeups>>
workers == <<wpc, task_>>
clients == <<cpc, joining>>
history == <<accepted, finished, undefined>>

vars == <<exiting_, counters, all_threads_, ret_threads_, queue_, taskReady,
          workers, clients, history>>

TaskReady == INSTANCE Monitor WITH Threads <- Workers

(* Unsigned arithmetic of the counters (the variant: signed counters). *)
WrapSigned(n) == n

Wrap(n) == n % WordSize

ActiveWith(res) ==
    Wrap(Len(all_threads_) + res - Len(ret_threads_) - idl_threads_)

active_threads == ActiveWith(res_threads_)

overworking == active_threads > MaxThreads

(* Thread::running() of a worker, and the workers with a native thread. *)
Running(w) == wpc[w] \in {"exec", "waiting", "woken", "expired", "leaving"}

Live == {w \in Workers : Running(w)}

(* top() of the std::priority_queue of pairs: the pointer is compared      *)
(* first.  It is one entry, or none if q is empty.                         *)
TopEntries(q) ==
    {e \in q : \A f \in q : f[1] < e[1] \/ (f[1] = e[1] /\ f[2] <= e[2])}

Init ==
    /\ exiting_ = FALSE
    /\ pol_threads_ = 0
    /\ res_threads_ = 0
    /\ idl_threads_ = 0
    /\ all_threads_ = <<>>
    /\ ret_threads_ = <<>>
    /\ queue_ = {}
    /\ TaskReady!Init
    /\ wpc = [w \in Workers |-> "absent"]
    /\ task_ = [w \in Workers |-> NULL]
    /\ cpc = [c \in Clients |-> "idle"]
    /\ joining = [c \in Clients |-> <<>>]
    /\ accepted = {}
    /\ finished = {}
    /\ undefined = FALSE

-----------------------------------------------------------------------------
(* InternalThread::run(). *)

(* Variant: the task is left in the queue. *)
FetchWithoutPop(w) ==
    \E top \in TopEntries(queue_) :
        /\ task_' = [task_ EXCEPT ![w] = top[1]]
        /\ wpc' = [wpc EXCEPT ![w] = "exec"]
        /\ UNCHANGED queue_

Fetch(w) ==
    \E top \in TopEntries(queue_) :
        /\ task_' = [task_ EXCEPT ![w] = top[1]]
        /\ queue_' = queue_ \ {top}
        /\ wpc' = [wpc EXCEPT ![w] = "exec"]

(* The rest of the loop, for a worker left without a task: it ends if the  *)
(* pool is exiting, retires if the pool is overworking and waits for work  *)
(* otherwise.  polled is what the step adds to pol_threads_ on its way.    *)
NoTask(w, polled) ==
    /\ task_' = [task_ EXCEPT ![w] = NULL]
    /\ pol_threads_' = Wrap(pol_threads_ + polled - 1)
    /\ \/ /\ exiting_
          /\ wpc' = [wpc EXCEPT ![w] = "leaving"]
          /\ UNCHANGED <<ret_threads_, idl_threads_, taskReady>>
       \/ /\ ~exiting_
          /\ overworking
          /\ ret_threads_' = Append(ret_threads_, w)
          /\ wpc' = [wpc EXCEPT ![w] = "leaving"]
          /\ UNCHANGED <<idl_threads_, taskReady>>
       \/ /\ ~exiting_
          /\ ~overworking
          /\ idl_threads_' = Wrap(idl_threads_ + 1)
          /\ TaskReady!Enter(w)
          /\ wpc' = [wpc EXCEPT ![w] = "waiting"]
          /\ UNCHANGED ret_threads_
    /\ UNCHANGED queue_

(* Variants: exiting_ is tested before the queue; the queue is not looked   *)
(* at once a task has ended.                                               *)
EndTaskOrExit(w) ==
    /\ wpc[w] = "exec"
    /\ finished' = finished \cup {task_[w]}
    /\ \/ /\ ~overworking /\ ~exiting_
          /\ Fetch(w)
          /\ UNCHANGED <<pol_threads_, idl_threads_, ret_threads_, taskReady>>
       \/ /\ overworking \/ exiting_ \/ queue_ = {}
          /\ NoTask(w, 0)
    /\ UNCHANGED <<exiting_, res_threads_, all_threads_, clients, accepted,
                   undefined>>

EndTaskOnly(w) ==
    /\ wpc[w] = "exec"
    /\ finished' = finished \cup {task_[w]}
    /\ NoTask(w, 0)
    /\ UNCHANGED <<exiting_, res_threads_, all_threads_, clients, accepted,
                   undefined>>

(* A task ends, by returning or throwing: take the next one unless the     *)
(* pool is overworking.                                                    *)
EndTask(w) ==
    /\ wpc[w] = "exec"
    /\ finished' = finished \cup {task_[w]}
    /\ \/ /\ ~overworking
          /\ Fetch(w)
          /\ UNCHANGED <<pol_threads_, idl_threads_, ret_threads_, taskReady>>
       \/ /\ overworking \/ queue_ = {}
          /\ NoTask(w, 0)
    /\ UNCHANGED <<exiting_, res_threads_, all_threads_, clients, accepted,
                   undefined>>

TakeWakeup(w) ==
    /\ wpc[w] = "waiting"
    /\ TaskReady!Wake(w)
    /\ wpc' = [wpc EXCEPT ![w] = "woken"]
    /\ UNCHANGED <<exiting_, counters, all_threads_, ret_threads_, queue_,
                   task_, clients, history>>

TimeOut(w) ==
    /\ RetireTimeouts
    /\ wpc[w] = "waiting"
    /\ TaskReady!Expire(w)
    /\ wpc' = [wpc EXCEPT ![w] = "expired"]
    /\ UNCHANGED <<exiting_, counters, all_threads_, ret_threads_, queue_,
                   task_, clients, history>>

(* Woken with mutex_ back: whoever signalled has taken the worker out of   *)
(* idl_threads_, and the queue is looked at before exiting_ is.            *)
Resume(w) ==
    /\ wpc[w] = "woken"
    /\ \/ /\ Fetch(w)
          /\ pol_threads_' = Wrap(pol_threads_ + 1)
          /\ UNCHANGED <<idl_threads_, ret_threads_, taskReady>>
       \/ /\ queue_ = {}
          /\ NoTask(w, 1)
    /\ UNCHANGED <<exiting_, res_threads_, all_threads_, clients, history>>

(* Timed out with mutex_ back: retire, without a look at the queue. *)
Retire(w) ==
    /\ wpc[w] = "expired"
    /\ idl_threads_' = Wrap(idl_threads_ - 1)
    /\ ret_threads_' = Append(ret_threads_, w)
    /\ wpc' = [wpc EXCEPT ![w] = "leaving"]
    /\ UNCHANGED <<exiting_, pol_threads_, res_threads_, all_threads_, queue_,
                   taskReady, task_, clients, history>>

(* Variant: the threads that join the worker are not signalled. *)
CleanupSilent(w) ==
    /\ wpc[w] = "leaving"
    /\ wpc' = [wpc EXCEPT ![w] = "done"]
    /\ UNCHANGED <<exiting_, counters, all_threads_, ret_threads_, queue_,
                   taskReady, task_, clients, history>>

(* Thread::cleanup: running() is false from here on, joiners wake up. *)
Cleanup(w) ==
    /\ wpc[w] = "leaving"
    /\ wpc' = [wpc EXCEPT ![w] = "done"]
    /\ cpc' = [c \in Clients |->
                 IF cpc[c] = "joining" /\ Head(joining[c]) = w
                 THEN "delete" ELSE cpc[c]]
    /\ UNCHANGED <<exiting_, counters, all_threads_, ret_threads_, queue_,
                   taskReady, task_, joining, history>>

-----------------------------------------------------------------------------
(* try_start() with res reserved threads and q for the queue. *)

UnreservedOffByOne(res) == ActiveWith(res) <= MaxThreads

Unreserved(res) == ActiveWith(res) < MaxThreads

(* Variant: the idle worker stays in the count. *)
HandToIdleUncounted(t, q) ==
    /\ idl_threads_ > 0
    /\ queue_' = q \cup {<<t, 0>>}
    /\ TaskReady!SignalOne
    /\ UNCHANGED <<counters, all_threads_, ret_threads_, workers, undefined>>

(* An idle worker is taken out of the count and signalled. *)
HandToIdle(t, q) ==
    /\ idl_threads_ > 0
    /\ idl_threads_' = idl_threads_ - 1
    /\ queue_' = q \cup {<<t, 0>>}
    /\ TaskReady!SignalOne
    /\ UNCHANGED <<pol_threads_, all_threads_, ret_threads_, workers, undefined>>

(* The last worker to retire is restarted.  Thread::start() fails, which   *)
(* nobody looks at, when its native thread is not quite gone or none can   *)
(* be created.  A worker that wait() has deleted is memory of no type.     *)
Restart(t, q) ==
    /\ idl_threads_ = 0
    /\ ret_threads_ # <<>>
    /\ ret_threads_' = Front(ret_threads_)
    /\ pol_threads_' = Wrap(pol_threads_ + 1)
    /\ LET w == Last(ret_threads_) IN
         /\ undefined' = (undefined \/ wpc[w] = "deleted")
         /\ task_' = [task_ EXCEPT ![w] = t]
         /\ \/ wpc[w] = "done" /\ wpc' = [wpc EXCEPT ![w] = "exec"]
            \/ (wpc[w] # "done" \/ CreateFails) /\ wpc' = wpc
    /\ queue_' = q
    /\ UNCHANGED <<idl_threads_, all_threads_, taskReady>>

(* Variant: only a worker that could not be started is remembered. *)
SpawnForgotten(t, created) ==
    /\ idl_threads_ = 0
    /\ ret_threads_ = <<>>
    /\ \E w \in Workers :
          /\ wpc[w] = "absent"
          /\ all_threads_' = IF created THEN all_threads_ ELSE Append(all_threads_, w)
          /\ task_' = [task_ EXCEPT ![w] = t]
          /\ wpc' = [wpc EXCEPT ![w] = IF created THEN "exec" ELSE "done"]
    /\ pol_threads_' = Wrap(pol_threads_ + 1)
    /\ UNCHANGED <<idl_threads_, ret_threads_, undefined>>

(* A new worker; it is in all_threads_ even if it cannot be started. *)
Spawn(t, created) ==
    /\ idl_threads_ = 0
    /\ ret_threads_ = <<>>
    /\ \E w \in Workers :
          /\ wpc[w] = "absent"
          /\ all_threads_' = Append(all_threads_, w)
          /\ task_' = [task_ EXCEPT ![w] = t]
          /\ wpc' = [wpc EXCEPT ![w] = IF created THEN "exec" ELSE "done"]
    /\ pol_threads_' = Wrap(pol_threads_ + 1)
    /\ UNCHANGED <<idl_threads_, ret_threads_, undefined>>

Started(t, q, res) ==
    /\ Unreserved(res)
    /\ \/ HandToIdle(t, q)
       \/ Restart(t, q)
       \/ Spawn(t, TRUE) /\ queue_' = q /\ UNCHANGED taskReady

(* try_start() is false: queue_ and task_ready_ are left to the caller. *)
NotStarted(t, res) ==
    \/ /\ ~Unreserved(res)
       /\ UNCHANGED <<pol_threads_, idl_threads_, all_threads_, ret_threads_,
                      workers, undefined>>
    \/ Unreserved(res) /\ CreateFails /\ Spawn(t, FALSE)

enqueue(t, priority) ==
    /\ queue_' = queue_ \cup {<<t, priority>>}
    /\ TaskReady!SignalOne

-----------------------------------------------------------------------------
(* The calls of the clients. *)

Start(c, t, priority) ==
    /\ cpc[c] = "idle"
    /\ t \notin accepted
    /\ accepted' = accepted \cup {t}
    /\ \/ Started(t, queue_, res_threads_)
       \/ NotStarted(t, res_threads_) /\ enqueue(t, priority)
    /\ UNCHANGED <<exiting_, res_threads_, clients, finished>>

(* The quick check is made without mutex_: racing with the others it may   *)
(* find anything, and what it finds choked changes nothing.                *)
StartNow(c, t) ==
    /\ cpc[c] = "idle"
    /\ t \notin accepted
    /\ \/ /\ Started(t, queue_, res_threads_)
          /\ accepted' = accepted \cup {t}
       \/ /\ NotStarted(t, res_threads_)
          /\ UNCHANGED <<queue_, taskReady, accepted>>
    /\ UNCHANGED <<exiting_, res_threads_, clients, finished>>

(* reserve(): one queued task is started if the reservation shrinks. *)
Reserve(c, num_threads) ==
    /\ cpc[c] = "idle"
    /\ res_threads_' = IF num_threads > MaxThreads THEN MaxThreads ELSE num_threads
    /\ IF num_threads < res_threads_ /\ queue_ # {}
       THEN \E top \in TopEntries(queue_) :
              \/ Started(top[1], queue_ \ {top}, res_threads_')
              \/ /\ NotStarted(top[1], res_threads_')
                 /\ UNCHANGED <<queue_, taskReady>>
       ELSE UNCHANGED <<pol_threads_, idl_threads_, all_threads_, ret_threads_,
                        queue_, taskReady, workers, undefined>>
    /\ UNCHANGED <<exiting_, clients, accepted, finished>>

(* Variants: ret_threads_ is not cleared; what all_threads_ holds once the  *)
(* first threads are joined is forgotten.                                  *)
JoinOrFinishKeepingRetired(c, exiting) ==
    \/ /\ all_threads_ # <<>>
       /\ joining' = [joining EXCEPT ![c] = all_threads_]
       /\ all_threads_' = <<>>
       /\ cpc' = [cpc EXCEPT ![c] = "join"]
       /\ exiting_' = exiting
       /\ UNCHANGED <<ret_threads_, pol_threads_, idl_threads_>>
    \/ /\ all_threads_ = <<>>
       /\ pol_threads_' = 0
       /\ idl_threads_' = 0
       /\ exiting_' = FALSE
       /\ cpc' = [cpc EXCEPT ![c] = "idle"]
       /\ UNCHANGED <<ret_threads_, all_threads_, joining>>

WaitAgainForgetting(c) ==
    /\ cpc[c] = "relock"
    /\ all_threads_' = <<>>
    /\ ret_threads_' = <<>>
    /\ pol_threads_' = 0
    /\ idl_threads_' = 0
    /\ exiting_' = FALSE
    /\ cpc' = [cpc EXCEPT ![c] = "idle"]
    /\ UNCHANGED <<joining, res_threads_, queue_, taskReady, workers, history>>

(* wait() with mutex_ held: join what all_threads_ holds, or finish. *)
JoinOrFinish(c, exiting) ==
    \/ /\ all_threads_ # <<>>
       /\ joining' = [joining EXCEPT ![c] = all_threads_]
       /\ all_threads_' = <<>>
       /\ cpc' = [cpc EXCEPT ![c] = "join"]
       /\ exiting_' = exiting
       /\ UNCHANGED <<ret_threads_, pol_threads_, idl_threads_>>
    \/ /\ all_threads_ = <<>>
       /\ ret_threads_' = <<>>
       /\ pol_threads_' = 0
       /\ idl_threads_' = 0
       /\ exiting_' = FALSE
       /\ cpc' = [cpc EXCEPT ![c] = "idle"]
       /\ UNCHANGED <<all_threads_, joining>>

Wait(c) ==
    /\ cpc[c] = "idle"
    /\ TaskReady!SignalAll
    /\ JoinOrFinish(c, TRUE)
    /\ UNCHANGED <<res_threads_, queue_, workers, history>>

(* Thread::wait() on the next worker. *)
Join(c) ==
    /\ cpc[c] = "join"
    /\ cpc' = [cpc EXCEPT ![c] =
                 IF Running(Head(joining[c])) THEN "joining" ELSE "delete"]
    /\ UNCHANGED <<exiting_, counters, all_threads_, ret_threads_, queue_,
                   taskReady, workers, joining, history>>

(* A worker that was restarted after it was joined is deleted running. *)
Delete(c) ==
    /\ cpc[c] = "delete"
    /\ LET w == Head(joining[c]) IN
         /\ undefined' = (undefined \/ Running(w))
         /\ wpc' = [wpc EXCEPT ![w] = "deleted"]
    /\ joining' = [joining EXCEPT ![c] = Tail(@)]
    /\ cpc' = [cpc EXCEPT ![c] = IF Len(joining[c]) = 1 THEN "relock" ELSE "join"]
    /\ UNCHANGED <<exiting_, counters, all_threads_, ret_threads_, queue_,
                   taskReady, task_, accepted, finished>>

WaitAgain(c) ==
    /\ cpc[c] = "relock"
    /\ JoinOrFinish(c, exiting_)
    /\ UNCHANGED <<res_threads_, queue_, taskReady, workers, history>>

-----------------------------------------------------------------------------

WorkerStep(w) == EndTask(w) \/ Resume(w) \/ Retire(w) \/ Cleanup(w)

WaitStep(c) == Join(c) \/ Delete(c) \/ WaitAgain(c)

(* What follows the first use of deleted memory stands for nothing: a run   *)
(* that checks other properties shows that undefined stays FALSE in it.    *)
Next ==
    \/ \E w \in Workers : WorkerStep(w) \/ TakeWakeup(w) \/ TimeOut(w)
    \/ \E c \in Submitters, t \in Tasks :
          StartNow(c, t) \/ \E p \in Priorities : Start(c, t, p)
    \/ \E c \in Owners :
          Wait(c) \/ WaitStep(c) \/ \E n \in Reservations : Reserve(c, n)

Spec == Init /\ [][Next]_vars

(***************************************************************************)
(* Tasks end, threads that can run do, a worker that waits for work takes  *)
(* a wakeup granted to it or its time runs out, and a call of wait() goes  *)
(* on when the worker it joins is gone.  Clients need not call anything.   *)
(***************************************************************************)
Fairness ==
    /\ \A w \in Workers :
          /\ WF_vars(WorkerStep(w))
          /\ WF_vars(TimeOut(w))
    /\ WF_vars(\E w \in Workers : TakeWakeup(w))
    /\ \A c \in Owners : WF_vars(WaitStep(c))

FairSpec == Spec /\ Fairness

-----------------------------------------------------------------------------
(* Properties. *)

WPCs == {"absent", "exec", "waiting", "woken", "expired", "leaving", "done",
         "deleted"}

CPCs == {"idle", "join", "joining", "delete", "relock"}

Word == 0 .. WordSize - 1

(* run() calls start() on the task_ of a worker that executes. *)
ExecutesTask == \A w \in Workers : wpc[w] = "exec" => task_[w] # NULL

TypeOK ==
    /\ exiting_ \in BOOLEAN
    /\ pol_threads_ \in Word
    /\ res_threads_ \in 0 .. MaxThreads
    /\ idl_threads_ \in Word
    /\ all_threads_ \in Seq(Workers)
    /\ ret_threads_ \in Seq(Workers)
    /\ queue_ \subseteq Tasks \X Priorities
    /\ waiting \subseteq Workers
    /\ wakeups \in Nat
    /\ wpc \in [Workers -> WPCs]
    /\ task_ \in [Workers -> Tasks \cup {NULL}]
    /\ ExecutesTask
    /\ cpc \in [Clients -> CPCs]
    /\ joining \in [Clients -> Seq(Workers)]
    /\ accepted \subseteq Tasks
    /\ finished \subseteq Tasks
    /\ undefined \in BOOLEAN

Queued == {e[1] : e \in queue_}

Executing(t) == {w \in Workers : wpc[w] = "exec" /\ task_[w] = t}

Joined == UNION {Range(joining[c]) : c \in Clients}

(***************************************************************************)
(* "Maximum number of threads" (max_threads_, threadpool.hh): the pool     *)
(* never owns more than max_threads_ threads: try_start() spawns           *)
(* only when no thread is idle or retired, whatever the retire timeouts,   *)
(* the reservations and the failures to create threads have done to        *)
(* idl_threads_ and ret_threads_.                                          *)
(***************************************************************************)
ThreadLimit == Len(all_threads_) <= MaxThreads

(***************************************************************************)
(* A task is executed at most once: it is in the queue once, or in the     *)
(* hands of one worker, or finished, and never in two of these; and a task *)
(* start_now() refused is in none.  The task is handed over through        *)
(* queue_, an InternalThread's task_ and, in reserve(), back to queue_.    *)
(***************************************************************************)
TaskInOnePlace ==
    \A t \in Tasks :
        /\ Cardinality({e \in queue_ : e[1] = t}) + Cardinality(Executing(t))
             + Cardinality({t} \cap finished) <= 1
        /\ t \notin accepted => t \notin Queued \cup finished /\ Executing(t) = {}

(***************************************************************************)
(* No thread is forgotten: a worker with a native thread is in             *)
(* all_threads_ or among those a wait() is joining, so that wait() and the *)
(* destructor, which waits, find it.                                       *)
(***************************************************************************)
NoOrphan == Live \subseteq Range(all_threads_) \cup Joined

(***************************************************************************)
(* Every InternalThread that has been created and not deleted yet is in    *)
(* all_threads_ or in the copy of a wait() that has not reached it, and a  *)
(* wait() takes mutex_ again only when it has deleted its whole copy.      *)
(***************************************************************************)
WorkersListed ==
    /\ \A w \in Workers :
          wpc[w] \notin {"absent", "deleted"} => w \in Range(all_threads_) \cup Joined
    /\ \A c \in Clients : joining[c] = <<>> <=> cpc[c] \in {"idle", "relock"}

(***************************************************************************)
(* No InternalThread is used after wait() has deleted it, and none is      *)
(* deleted while its native thread runs: the comment in wait() expects     *)
(* start() to be called while it joins.                                    *)
(***************************************************************************)
NoUseAfterDelete == ~undefined

WaitFinishes(c) == (Wait(c) \/ WaitAgain(c)) /\ cpc'[c] = "idle"

(***************************************************************************)
(* "shutdown all threads essentially restoing the thread pool" (wait(),    *)
(* threadpool.hh): when wait() returns no native thread of the pool        *)
(* exists, so the pool, its mutex_ and its task_ready_ can be destroyed.   *)
(***************************************************************************)
WaitShutsDown ==
    [][\A c \in Owners : WaitFinishes(c) => Live' = {}]_vars

(***************************************************************************)
(* "Waits for all tasks to finish" (wait(), threadpool.hh): no task that   *)
(* start() has accepted is unfinished when wait() returns.                 *)
(***************************************************************************)
WaitFinishesAll ==
    [][\A c \in Owners : WaitFinishes(c) => accepted \subseteq finished]_vars

(***************************************************************************)
(* idl_threads_ is the number of workers that wait on task_ready_ and that *)
(* nobody has signalled yet: try_start() relies on it when it hands a task *)
(* to "an idle thread waiting" instead of spawning a thread for it.        *)
(***************************************************************************)
IdleAccounted == ~exiting_ => idl_threads_ + wakeups = Cardinality(waiting)

(***************************************************************************)
(* Every task that start() or start_now() accepted is executed.            *)
(***************************************************************************)
AllTasksFinish == \A t \in Tasks : t \in accepted ~> t \in finished

(***************************************************************************)
(* wait() returns, also when tasks are started while it joins.             *)
(***************************************************************************)
WaitEnds == \A c \in Owners : cpc[c] # "idle" ~> cpc[c] = "idle"
==============================================================================
