------------------------------ MODULE WinThread ------------------------------
(***************************************************************************)
(* One Thread object of the windows build (src/windows/thread.cc), with    *)
(* thread_done_, its WaitCondition, taken apart: clients that call         *)
(* start(), wait() and kill(), and the native threads they create.  pc is  *)
(*   idle       client: in no call                                         *)
(*   starting   client: in start(), holds mutex_, waits on start_event_    *)
(*   blocked    client: in wait(), has released mutex_, waits on sema_     *)
(*   woken      client: has a permit of sema_, still counted by waiters_   *)
(*   expired    client: its time is up, still counted by waiters_          *)
(*   relock     client: about to take mutex_ back and leave wait()         *)
(*   signalling in signal_all(), holds mutex_, waits on waiters_done_      *)
(*   none, begin, running, exiting, gone                                   *)
(*              native thread: to be created, about to set start_event_,   *)
(*              in run(), about to take mutex_, ended                      *)
(* A section under critical_ is one step.  SignalObjectAndWait is not      *)
(* atomic, but sema_ counts: a permit released in between is kept.         *)
(***************************************************************************)
EXTENDS Naturals, FiniteSets

CONSTANTS
    Clients,
    TimedClients,       \* those that pass a time out to wait()
    Natives,            \* bound: the native threads that can be created
    Nobody              \* the owner of a free mutex

ASSUME WinThreadAssumption ==
    /\ IsFiniteSet(Clients)
    /\ TimedClients \subseteq Clients
    /\ Clients \cap Natives = {}
    /\ Nobody \notin Clients \cup Natives

Threads == Clients \cup Natives

VARIABLES
    mutex_, running_, start_event_, thread_,
    waiters_, broadcast_, sema_, waiters_done_,
    pc,
    miscounted      \* history: a signal_all() has counted a waiter that left
                    \* because its time was up

object == <<running_, start_event_, thread_>>
threadDone == <<waiters_, broadcast_, sema_, waiters_done_>>

vars == <<mutex_, object, threadDone, pc, miscounted>>

(* The clients waiters_ counts, and the native threads that execute. *)
Waiters == {c \in Clients : pc[c] \in {"blocked", "woken", "expired"}}

Alive == {n \in Natives : pc[n] \in {"begin", "running", "exiting", "signalling"}}

Init ==
    /\ mutex_ = Nobody
    /\ running_ = FALSE
    /\ start_event_ = FALSE
    /\ thread_ = Nobody
    /\ waiters_ = 0
    /\ broadcast_ = FALSE
    /\ sema_ = 0
    /\ waiters_done_ = FALSE
    /\ pc = [t \in Threads |-> IF t \in Clients THEN "idle" ELSE "none"]
    /\ miscounted = FALSE

Goes(t, from, to) ==
    /\ pc[t] = from
    /\ pc' = [pc EXCEPT ![t] = to]

-----------------------------------------------------------------------------
(* start().  One that finds running_ set, or cannot create a thread,       *)
(* returns false.                                                          *)

(* Variant: running_ is not tested. *)
StartUnchecked(c) ==
    /\ pc[c] = "idle"
    /\ mutex_ = Nobody
    /\ \E n \in Natives :
          /\ pc[n] = "none"
          /\ thread_' = n
          /\ pc' = [pc EXCEPT ![c] = "starting", ![n] = "begin"]
    /\ mutex_' = c
    /\ UNCHANGED <<running_, start_event_, threadDone, miscounted>>

Start(c) ==
    /\ pc[c] = "idle"
    /\ mutex_ = Nobody
    /\ ~running_
    /\ \E n \in Natives :
          /\ pc[n] = "none"
          /\ thread_' = n
          /\ pc' = [pc EXCEPT ![c] = "starting", ![n] = "begin"]
    /\ mutex_' = c
    /\ UNCHANGED <<running_, start_event_, threadDone, miscounted>>

Begin(n) ==
    /\ Goes(n, "begin", "running")
    /\ start_event_' = TRUE
    /\ UNCHANGED <<mutex_, running_, thread_, threadDone, miscounted>>

Started(c) ==
    /\ Goes(c, "starting", "idle")
    /\ start_event_
    /\ start_event_' = FALSE
    /\ running_' = TRUE
    /\ mutex_' = Nobody
    /\ UNCHANGED <<thread_, threadDone, miscounted>>

-----------------------------------------------------------------------------
(* signal_all(), called under mutex_ by the native thread and by kill();   *)
(* both then reset running_ and release mutex_.                            *)

(* Variant: one permit more than there are waiters. *)
SignalAllOneMore(t) ==
    /\ mutex_' = t
    /\ broadcast_' = TRUE
    /\ sema_' = sema_ + waiters_ + 1
    /\ UNCHANGED <<running_, waiters_, waiters_done_>>

SignalAll(t) ==
    IF waiters_ > 0
    THEN /\ mutex_' = t
         /\ broadcast_' = TRUE
         /\ sema_' = sema_ + waiters_
         /\ UNCHANGED <<running_, waiters_, waiters_done_>>
    ELSE /\ running_' = FALSE
         /\ UNCHANGED <<mutex_, threadDone>>

Ended(t) == IF t \in Clients THEN "idle" ELSE "gone"

Signalled(t) ==
    /\ Goes(t, "signalling", Ended(t))
    /\ waiters_done_
    /\ waiters_done_' = FALSE
    /\ broadcast_' = FALSE
    /\ running_' = FALSE
    /\ mutex_' = Nobody
    /\ UNCHANGED <<start_event_, thread_, waiters_, sema_, miscounted>>

(* run() returns or throws. *)
RunEnds(n) ==
    /\ Goes(n, "running", "exiting")
    /\ UNCHANGED <<mutex_, object, threadDone, miscounted>>

Exit(n) ==
    /\ mutex_ = Nobody
    /\ Goes(n, "exiting", IF waiters_ > 0 THEN "signalling" ELSE "gone")
    /\ SignalAll(n)
    /\ UNCHANGED <<start_event_, thread_, miscounted>>

(* TerminateThread() succeeds; a kill() that finds running_ reset, or is   *)
(* refused, returns false.                                                 *)
Kill(c) ==
    /\ pc[c] = "idle"
    /\ mutex_ = Nobody
    /\ running_
    /\ pc' = [pc EXCEPT ![thread_] = "gone",
                        ![c] = IF waiters_ > 0 THEN "signalling" ELSE "idle"]
    /\ SignalAll(c)
    /\ UNCHANGED <<start_event_, thread_, miscounted>>

-----------------------------------------------------------------------------
(* wait(): one that finds running_ reset returns false. *)

CallWait(c) ==
    /\ mutex_ = Nobody
    /\ running_
    /\ Goes(c, "idle", "blocked")
    /\ waiters_' = waiters_ + 1
    /\ UNCHANGED <<mutex_, object, broadcast_, sema_, waiters_done_, miscounted>>

Wake(c) ==
    /\ Goes(c, "blocked", "woken")
    /\ sema_ > 0
    /\ sema_' = sema_ - 1
    /\ UNCHANGED <<mutex_, object, waiters_, broadcast_, waiters_done_, miscounted>>

(* Nobody is left waiting while there is a permit. *)
TimeOut(c) ==
    /\ c \in TimedClients
    /\ sema_ = 0
    /\ Goes(c, "blocked", "expired")
    /\ UNCHANGED <<mutex_, object, threadDone, miscounted>>

(* Variant: the last waiter does not notify the signaller. *)
LeaveSilently(c) ==
    /\ Goes(c, "woken", "relock")
    /\ waiters_' = waiters_ - 1
    /\ UNCHANGED <<mutex_, object, broadcast_, sema_, waiters_done_, miscounted>>

(* The last waiter sets waiters_done_. *)
Leave(c) ==
    /\ Goes(c, "woken", "relock")
    /\ waiters_' = waiters_ - 1
    /\ waiters_done_' = (waiters_done_ \/ (broadcast_ /\ waiters_ = 1))
    /\ UNCHANGED <<mutex_, object, broadcast_, sema_, miscounted>>

LeaveExpired(c) ==
    /\ Goes(c, "expired", "relock")
    /\ waiters_' = waiters_ - 1
    /\ miscounted' = (miscounted \/ broadcast_)
    /\ UNCHANGED <<mutex_, object, broadcast_, sema_, waiters_done_>>

(* mutex_ is taken, and released as wait() returns. *)
Relock(c) ==
    /\ mutex_ = Nobody
    /\ Goes(c, "relock", "idle")
    /\ UNCHANGED <<mutex_, object, threadDone, miscounted>>

-----------------------------------------------------------------------------

Next ==
    \/ \E c \in Clients :
          \/ Start(c) \/ Started(c) \/ Kill(c)
          \/ CallWait(c) \/ Wake(c) \/ TimeOut(c)
          \/ Leave(c) \/ LeaveExpired(c) \/ Relock(c)
    \/ \E n \in Natives : Begin(n) \/ RunEnds(n) \/ Exit(n)
    \/ \E t \in Threads : Signalled(t)

Spec == Init /\ [][Next]_vars

(***************************************************************************)
(* A thread that can run does, run() ends, and whoever keeps asking for    *)
(* mutex_ gets it.  Nobody is obliged to call start(), wait() or kill().   *)
(***************************************************************************)
Fairness ==
    /\ \A c \in Clients :
          /\ WF_vars(Started(c) \/ Wake(c) \/ Leave(c) \/ LeaveExpired(c))
          /\ SF_vars(Relock(c))
    /\ \A n \in Natives : WF_vars(Begin(n) \/ RunEnds(n)) /\ SF_vars(Exit(n))
    /\ \A t \in Threads : WF_vars(Signalled(t))

FairSpec == Spec /\ Fairness

-----------------------------------------------------------------------------
(* Properties. *)

PCs == {"idle", "starting", "blocked", "woken", "expired", "relock", "signalling",
        "none", "begin", "running", "exiting", "gone"}

TypeOK ==
    /\ mutex_ \in Threads \cup {Nobody}
    /\ running_ \in BOOLEAN
    /\ start_event_ \in BOOLEAN
    /\ thread_ \in Natives \cup {Nobody}
    /\ waiters_ \in Nat
    /\ broadcast_ \in BOOLEAN
    /\ sema_ \in Nat
    /\ waiters_done_ \in BOOLEAN
    /\ pc \in [Threads -> PCs]
    /\ miscounted \in BOOLEAN

(***************************************************************************)
(* running() (thread.cc:121), which reads running_ under mutex_, tells     *)
(* whether a native thread executes, and that one is thread_: however      *)
(* start(), kill(), the end of run() and time outs come together.          *)
(***************************************************************************)
RunningIsAccurate ==
    mutex_ = Nobody => Alive = IF running_ THEN {thread_} ELSE {}

(***************************************************************************)
(* signal_all() (thread.cc:305) wakes the waiters of its time and leaves   *)
(* no permit and no event behind for a later wait() or signal_all(), if    *)
(* none of the waiters it has counted left because its time was up.        *)
(***************************************************************************)
NothingLeftBehind ==
    ~broadcast_ /\ ~miscounted => sema_ = 0 /\ ~waiters_done_

(***************************************************************************)
(* wait() is true only when the native thread has come to its end or has   *)
(* been terminated (thread.cc:89-119), under the same condition.            *)
(***************************************************************************)
WokenAfterExit ==
    ~miscounted =>
        \A c \in Clients :
            pc[c] = "woken" => \A n \in Natives : pc[n] \notin {"begin", "running", "exiting"}

(***************************************************************************)
(* Every call returns, under the same condition: the last waiter lets the  *)
(* signaller go on, which holds mutex_ meanwhile (thread.cc:279-290).      *)
(***************************************************************************)
CallsReturn ==
    \A c \in Clients :
        (pc[c] # "idle") ~> (pc[c] = "idle" \/ miscounted)
==============================================================================
