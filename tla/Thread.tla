------------------------------- MODULE Thread --------------------------------
(***************************************************************************)
(* One Thread object of the unix build (src/unix/thread.cc): the clients   *)
(* that call start(), wait() and kill() on it and the native threads it    *)
(* creates, one after another.  Every method runs under the object's       *)
(* mutex_ and is one action, except where it waits on thread_done_ and     *)
(* gives mutex_ up: what happens before the wait is one action, taking the *)
(* wakeup is a second, and what is done with mutex_ back is a third.       *)
(* thread_done_ is the Monitor that WaitCondition.tla implements.          *)
(*                                                                         *)
(* pc[c] is idle, waiting or killing (inside thread_done_.wait), and then  *)
(* waited, killed or expired until mutex_ is taken again.  A native thread *)
(* is none, running (run() has not returned), exiting (cleanup() has not   *)
(* had mutex_ yet) or gone.                                                *)
(***************************************************************************)
EXTENDS Naturals, FiniteSets

CONSTANTS
    Starters,       \* clients that call start()
    Joiners,        \* clients that call wait()
    Killers,        \* clients that call kill()
    Natives,        \* bound: the native threads that can be created
    NoNative,       \* the value of thread_ before the first start()
    TimedWaits      \* whether wait() is given a time out

ASSUME NativesAssumption ==
    /\ NoNative \notin Natives
    /\ TimedWaits \in BOOLEAN

Clients == Starters \cup Joiners \cup Killers

VARIABLES
    running_,
    thread_,
    native,         \* the life of each native thread
    cancelled,      \* the native threads pthread_cancel was called on
    waiting,        \* thread_done_: the clients waiting on it
    wakeups,        \* thread_done_: its untaken wakeups
    pc,
    awaited,        \* history: the native thread a client's call is about
    stale           \* history: a start() came between the wakeups of an earlier
                    \* native thread and the calls they are for

vars == <<running_, thread_, native, cancelled, waiting, wakeups, pc, awaited, stale>>

threadDone == <<waiting, wakeups>>

ThreadDone == INSTANCE Monitor WITH Threads <- Clients

Alive == {n \in Natives : native[n] \in {"running", "exiting"}}

Init ==
    /\ running_ = FALSE
    /\ thread_ = NoNative
    /\ native = [n \in Natives |-> "none"]
    /\ cancelled = {}
    /\ ThreadDone!Init
    /\ pc = [c \in Clients |-> "idle"]
    /\ awaited = [c \in Clients |-> NoNative]
    /\ stale = FALSE

-----------------------------------------------------------------------------
(* start().  A start() that finds running_ set, or whose pthread_create    *)
(* fails, returns false and changes nothing.                               *)

(* Variant: running_ is not tested. *)
StartUnchecked(c) ==
    /\ c \in Starters
    /\ pc[c] = "idle"
    /\ \E n \in Natives :
          /\ native[n] = "none"
          /\ native' = [native EXCEPT ![n] = "running"]
          /\ thread_' = n
    /\ running_' = TRUE
    /\ UNCHANGED <<cancelled, threadDone, pc, awaited, stale>>

Start(c) ==
    /\ c \in Starters
    /\ pc[c] = "idle"
    /\ ~running_
    /\ \E n \in Natives :
          /\ native[n] = "none"
          /\ native' = [native EXCEPT ![n] = "running"]
          /\ thread_' = n
    /\ running_' = TRUE
    /\ stale' = (stale \/ wakeups > 0 \/ \E d \in Clients : pc[d] = "killed")
    /\ UNCHANGED <<cancelled, threadDone, pc, awaited>>

-----------------------------------------------------------------------------
(* native_thread() and cleanup(). *)

(* Variant: thread_done_ is signalled before cleanup() has mutex_. *)
RunEndsSignalling(n) ==
    /\ native[n] = "running"
    /\ native' = [native EXCEPT ![n] = "exiting"]
    /\ ThreadDone!SignalAll
    /\ UNCHANGED <<running_, thread_, cancelled, pc, awaited, stale>>

(* run() returns, or throws and the exception is swallowed. *)
RunEnds(n) ==
    /\ native[n] = "running"
    /\ native' = [native EXCEPT ![n] = "exiting"]
    /\ UNCHANGED <<running_, thread_, cancelled, threadDone, pc, awaited, stale>>

(* run() reaches a cancellation point. *)
ActOnCancel(n) ==
    /\ native[n] = "running"
    /\ n \in cancelled
    /\ native' = [native EXCEPT ![n] = "exiting"]
    /\ UNCHANGED <<running_, thread_, cancelled, threadDone, pc, awaited, stale>>

Cleanup(n) ==
    /\ native[n] = "exiting"
    /\ native' = [native EXCEPT ![n] = "gone"]
    /\ running_' = FALSE
    /\ ThreadDone!SignalAll
    /\ UNCHANGED <<thread_, cancelled, pc, awaited, stale>>

-----------------------------------------------------------------------------
(* wait() and kill().  Called on an object that is not running they return *)
(* false and change nothing.                                               *)

(* Variant: running_ is not tested before waiting. *)
WaitUnchecked(c) ==
    /\ c \in Joiners
    /\ pc[c] = "idle"
    /\ thread_ # NoNative
    /\ ThreadDone!Enter(c)
    /\ pc' = [pc EXCEPT ![c] = "waiting"]
    /\ awaited' = [awaited EXCEPT ![c] = thread_]
    /\ UNCHANGED <<running_, thread_, native, cancelled, stale>>

Wait(c) ==
    /\ c \in Joiners
    /\ pc[c] = "idle"
    /\ running_
    /\ ThreadDone!Enter(c)
    /\ pc' = [pc EXCEPT ![c] = "waiting"]
    /\ awaited' = [awaited EXCEPT ![c] = thread_]
    /\ UNCHANGED <<running_, thread_, native, cancelled, stale>>

Kill(c) ==
    /\ c \in Killers
    /\ pc[c] = "idle"
    /\ running_
    /\ cancelled' = cancelled \cup {thread_}
    /\ ThreadDone!Enter(c)
    /\ pc' = [pc EXCEPT ![c] = "killing"]
    /\ awaited' = [awaited EXCEPT ![c] = thread_]
    /\ UNCHANGED <<running_, thread_, native, stale>>

TakeWakeup(c) ==
    /\ pc[c] \in {"waiting", "killing"}
    /\ ThreadDone!Wake(c)
    /\ pc' = [pc EXCEPT ![c] = IF @ = "waiting" THEN "waited" ELSE "killed"]
    /\ UNCHANGED <<running_, thread_, native, cancelled, awaited, stale>>

(* Only wait() takes a time out; kill() waits without one. *)
TimeOut(c) ==
    /\ TimedWaits
    /\ pc[c] = "waiting"
    /\ ThreadDone!Expire(c)
    /\ pc' = [pc EXCEPT ![c] = "expired"]
    /\ UNCHANGED <<running_, thread_, native, cancelled, awaited, stale>>

WaitReturns(c) ==
    /\ pc[c] \in {"waited", "expired"}
    /\ pc' = [pc EXCEPT ![c] = "idle"]
    /\ awaited' = [awaited EXCEPT ![c] = NoNative]
    /\ UNCHANGED <<running_, thread_, native, cancelled, threadDone, stale>>

(* kill() clears running_ once more, whoever set it in the meantime. *)
KillReturns(c) ==
    /\ pc[c] = "killed"
    /\ running_' = FALSE
    /\ pc' = [pc EXCEPT ![c] = "idle"]
    /\ awaited' = [awaited EXCEPT ![c] = NoNative]
    /\ UNCHANGED <<thread_, native, cancelled, threadDone, stale>>

-----------------------------------------------------------------------------

NativeStep(n) == RunEnds(n) \/ ActOnCancel(n) \/ Cleanup(n)

Returns(c) == WaitReturns(c) \/ KillReturns(c)

Next ==
    \/ \E n \in Natives : NativeStep(n)
    \/ \E c \in Clients :
          \/ Start(c) \/ Wait(c) \/ Kill(c)
          \/ TakeWakeup(c) \/ TimeOut(c) \/ Returns(c)

Spec == Init /\ [][Next]_vars

(***************************************************************************)
(* run() ends and the native thread gets through cleanup(); a wakeup of    *)
(* thread_done_ is taken (Monitor's fairness, which WaitCondition          *)
(* implements for waits with no time out); a call that is over returns.    *)
(***************************************************************************)
Fairness ==
    /\ \A n \in Natives : WF_vars(NativeStep(n))
    /\ WF_vars(\E c \in Clients : TakeWakeup(c))
    /\ \A c \in Clients : WF_vars(Returns(c))

FairSpec == Spec /\ Fairness

-----------------------------------------------------------------------------
(* Properties. *)

TypeOK ==
    /\ running_ \in BOOLEAN
    /\ thread_ \in Natives \cup {NoNative}
    /\ native \in [Natives -> {"none", "running", "exiting", "gone"}]
    /\ cancelled \subseteq Natives
    /\ waiting \subseteq Clients
    /\ wakeups \in Nat
    /\ pc \in [Clients -> {"idle", "waiting", "killing", "waited", "killed",
                           "expired"}]
    /\ awaited \in [Clients -> Natives \cup {NoNative}]
    /\ stale \in BOOLEAN

(***************************************************************************)
(* "If the thread is running true is returned, if not false is returned"   *)
(* (running(), unix/thread.hh): running_, which start(), cleanup() and     *)
(* kill() all write, follows the native thread's life, and run() is never  *)
(* executed by two native threads of one object at once although start()   *)
(* forgets the previous thread_ without joining it.  Where there is a      *)
(* kill(), its last step may undo a start() that came before it.           *)
(***************************************************************************)
RunningIsAccurate ==
    Killers = {} \/ ~stale => Alive = IF running_ THEN {thread_} ELSE {}

(***************************************************************************)
(* "the function does not return until the the thread has exited" (kill()) *)
(* and "Waits until the thread has finished" (wait()): a call that took a  *)
(* wakeup of thread_done_ finds the native thread it was made for gone.    *)
(* A wakeup left over from an earlier native thread ends a call too early. *)
(***************************************************************************)
WokenAfterExit ==
    ~stale => \A c \in Clients : pc[c] \in {"waited", "killed"} => native[awaited[c]] = "gone"

(***************************************************************************)
(* Every wait() and kill() returns once run() does: cleanup() cannot pass  *)
(* between the test of running_ and the wait on thread_done_.              *)
(***************************************************************************)
CallsReturn == \A c \in Clients : pc[c] # "idle" ~> pc[c] = "idle"
==============================================================================
