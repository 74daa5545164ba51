------------------------------- MODULE Process -------------------------------
(***************************************************************************)
(* Process and ProcessMonitor of the unix build (src/unix/process.cc): one *)
(* Process object, the client that calls it, the children it forks, the    *)
(* listen thread of each child and the SIGCHLD handler.                    *)
(*                                                                         *)
(* Child k is the k-th child of the object and listener k its listen       *)
(* thread.  The client stands at cpc:                                      *)
(*   idle      in no call                                                  *)
(*   close, open, mark, fork, register, spawn                              *)
(*             in create(), about to do this                               *)
(*   starting  in create(), waits for started_event_                       *)
(*   waiting   in wait(), has to get mutex_exec_                           *)
(*   killing   in kill(), has found the process running                    *)
(*   destroying, destroyed   in the destructor, and after it               *)
(* and listener k at lpc[k]:                                               *)
(*   none      has not been created                                        *)
(*   start     has to get mutex_exec_                                      *)
(*   loop      about to test state_                                        *)
(*   poll      about to select() and read                                  *)
(*   broken    a read has failed, the pipes are closed                     *)
(*   closing   event_finished() has been called                            *)
(*   ended     mutex_exec_ is released                                     *)
(*                                                                         *)
(* The handler interrupts any thread that is not in it already: the        *)
(* client, a listener, or another thread of the program (other).           *)
(***************************************************************************)
EXTENDS Naturals

CONSTANTS
    MaxChildren,    \* bound: the children forked
    Streams,        \* the pipes read: standard output and standard error
    MaxBlocks,      \* bound: the blocks each child writes
    PipeCapacity,   \* the blocks a pipe holds
    Codes,          \* the exit codes of children
    MaxOthers,      \* bound: the children of others that exit
    signalled,      \* stands for the exit code of a child a signal has ended
    client, other   \* threads, beside the listeners

Children == 1 .. MaxChildren

ASSUME ProcessAssumption ==
    /\ MaxChildren \in Nat
    /\ MaxBlocks \in Nat
    /\ PipeCapacity \in Nat
    /\ 0 \in Codes
    /\ signalled \notin Codes
    /\ MaxOthers \in Nat
    /\ client \notin Children
    /\ other \notin Children \cup {client}

Threads == Children \cup {client, other}

Nobody == 0

VARIABLES
    state_, pid_, exit_code_, started_event_,
    pipes_,         \* the child whose pipes are open, or Nobody
    mutex_exec_,    \* the listener that holds it, or Nobody
    pid_map_,       \* the children registered in the ProcessMonitor
    installed,      \* whether the ProcessMonitor has been constructed
    unread,         \* the blocks in each open pipe
    child,          \* none, alive, zombie or reaped
    born,           \* the children forked so far
    code,           \* the exit code, or signalled
    wrote,          \* the blocks each child has written
    others,         \* zombies that are not children of the object
    otherExits,
    sigchld,        \* SIGCHLD is pending
    handler,        \* the child whose exit code the handler is to store
    cpc, lpc,
    early,          \* history: the children that ended before create() did
    stale           \* history: create() went on while a listener or a handler
                    \* of an earlier child was not through

object == <<state_, pid_, exit_code_, started_event_, pipes_, unread>>
monitor == <<pid_map_, installed>>
children == <<child, born, code, wrote, early>>
otherChildren == <<others, otherExits>>
signals == <<sigchld, handler>>
threads == <<mutex_exec_, cpc, lpc, stale>>

vars == <<object, monitor, children, otherChildren, signals, threads>>

Empty == [s \in Streams |-> 0]

(* The listeners that exist, and whether a thread can run. *)
Listening == {k \in Children : lpc[k] \notin {"none", "ended"}}

Free(t) == handler[t] = Nobody

Init ==
    /\ state_ = "STOPPED"
    /\ pid_ = Nobody
    /\ exit_code_ = 0
    /\ started_event_ = FALSE
    /\ pipes_ = Nobody
    /\ mutex_exec_ = Nobody
    /\ pid_map_ = {}
    /\ installed = FALSE
    /\ unread = Empty
    /\ child = [k \in Children |-> "none"]
    /\ born = 0
    /\ code = [k \in Children |-> 0]
    /\ wrote = [k \in Children |-> 0]
    /\ others = 0
    /\ otherExits = 0
    /\ sigchld = FALSE
    /\ handler = [t \in Threads |-> Nobody]
    /\ cpc = "idle"
    /\ lpc = [k \in Children |-> "none"]
    /\ early = {}
    /\ stale = FALSE

-----------------------------------------------------------------------------
(* close(): one critical section of mutex_; blocks left unread are lost. *)

Close ==
    /\ pipes_' = Nobody
    /\ unread' = Empty
    /\ started_event_' = FALSE
    /\ pid_' = Nobody
    /\ state_' = "STOPPED"
    /\ UNCHANGED exit_code_

-----------------------------------------------------------------------------
(* The children. *)

(* These end.  SIGCHLD is ignored as long as no handler is installed, and  *)
(* two that are pending are one.                                           *)
Exit(ending, c) ==
    /\ child' = [k \in Children |-> IF k \in ending THEN "zombie" ELSE child[k]]
    /\ code' = [k \in Children |-> IF k \in ending THEN c ELSE code[k]]
    /\ sigchld' = (sigchld \/ (installed /\ ending # {}))
    /\ early' = IF cpc \in {"register", "spawn", "starting"}
                THEN early \cup (ending \cap {born}) ELSE early

(* Whom kill() ends; process identifier -1, which is Nobody, is everybody. *)
Killed(pid) == {k \in Children : child[k] = "alive" /\ pid \in {k, Nobody}}

ChildExits(k) ==
    /\ child[k] = "alive"
    /\ \E c \in Codes : Exit({k}, c)
    /\ UNCHANGED <<object, monitor, born, wrote, otherChildren, handler, threads>>

(* The write ends do not block: what does not fit is lost. *)
ChildWrites(k, s) ==
    /\ child[k] = "alive"
    /\ wrote[k] < MaxBlocks
    /\ wrote' = [wrote EXCEPT ![k] = @ + 1]
    /\ unread' = IF pipes_ = k /\ unread[s] < PipeCapacity
                 THEN [unread EXCEPT ![s] = @ + 1] ELSE unread
    /\ UNCHANGED <<state_, pid_, exit_code_, started_event_, pipes_, monitor,
                   child, born, code, early, otherChildren, signals, threads>>

(* A child of another Process, or of the program itself. *)
OtherExits ==
    /\ installed
    /\ otherExits < MaxOthers
    /\ otherExits' = otherExits + 1
    /\ others' = others + 1
    /\ sigchld' = TRUE
    /\ UNCHANGED <<object, monitor, children, handler, threads>>

-----------------------------------------------------------------------------
(* sigchld_handler(): each signal reaps one child, whichever it is. *)

(* Variant: the exit code is not stored. *)
StopWithoutCode(t, k) ==
    /\ state_' = IF k \in pid_map_ THEN "STOPPED" ELSE state_
    /\ UNCHANGED handler

Stop(t, k) ==
    /\ state_' = IF k \in pid_map_ THEN "STOPPED" ELSE state_
    /\ handler' = IF k \in pid_map_ /\ code[k] # signalled
                  THEN [handler EXCEPT ![t] = k] ELSE handler

(* Variant: a child that is not the object's stops it as well. *)
ReapOtherStopping(t) ==
    /\ others > 0
    /\ others' = others - 1
    /\ state_' = "STOPPED"
    /\ UNCHANGED <<pid_, exit_code_, started_event_, pipes_, unread, handler,
                   children>>

ReapOther(t) ==
    /\ others > 0
    /\ others' = others - 1
    /\ UNCHANGED <<object, handler, children>>

ReapChild(t) ==
    /\ \E k \in Children :
          /\ child[k] = "zombie"
          /\ child' = [child EXCEPT ![k] = "reaped"]
          /\ Stop(t, k)
    /\ UNCHANGED <<others, pid_, exit_code_, started_event_, pipes_, unread,
                   born, code, wrote, early>>

Handle(t) ==
    /\ sigchld
    /\ Free(t)
    /\ t \in Children => t \in Listening
    /\ sigchld' = FALSE
    /\ ReapChild(t) \/ ReapOther(t)
    /\ UNCHANGED <<otherExits, monitor, threads>>

(* exit_code_ is stored after state_. *)
StoreCode(t) ==
    /\ handler[t] # Nobody
    /\ exit_code_' = code[handler[t]]
    /\ handler' = [handler EXCEPT ![t] = Nobody]
    /\ UNCHANGED <<state_, pid_, started_event_, pipes_, unread, monitor,
                   children, otherChildren, sigchld, threads>>

-----------------------------------------------------------------------------
(* listen(). *)

Listen(k) ==
    /\ Free(k)
    /\ lpc[k] = "start"
    /\ mutex_exec_ = Nobody
    /\ mutex_exec_' = k
    /\ started_event_' = TRUE
    /\ lpc' = [lpc EXCEPT ![k] = "loop"]
    /\ UNCHANGED <<state_, pid_, exit_code_, pipes_, unread, monitor, children,
                   otherChildren, signals, cpc, stale>>

TestRunning(k) ==
    /\ Free(k)
    /\ lpc[k] = "loop"
    /\ state_ = "RUNNING"
    /\ lpc' = [lpc EXCEPT ![k] = "poll"]
    /\ UNCHANGED <<object, monitor, children, otherChildren, signals,
                   mutex_exec_, cpc, stale>>

(* Nothing to read: select() has timed out. *)
PollTimesOut(k) ==
    /\ Free(k)
    /\ lpc[k] = "poll"
    /\ unread = Empty
    /\ lpc' = [lpc EXCEPT ![k] = "loop"]
    /\ UNCHANGED <<object, monitor, children, otherChildren, signals,
                   mutex_exec_, cpc, stale>>

(* Some of what is in the pipes is read, and event_output() called. *)
Read(k) ==
    /\ Free(k)
    /\ lpc[k] = "poll"
    /\ \E left \in [Streams -> 0 .. PipeCapacity] :
          /\ \A s \in Streams : unread[s] > 0 => left[s] < unread[s]
          /\ \A s \in Streams : unread[s] = 0 => left[s] = 0
          /\ left # unread
          /\ unread' = left
    /\ lpc' = [lpc EXCEPT ![k] = "loop"]
    /\ UNCHANGED <<state_, pid_, exit_code_, started_event_, pipes_, monitor,
                   children, otherChildren, signals, mutex_exec_, cpc, stale>>

(* The pipes are gone: FD_ISSET looks up descriptor -1 and may find it,    *)
(* and read() fails.                                                       *)
ReadFails(k) ==
    /\ Free(k)
    /\ lpc[k] = "poll"
    /\ pipes_ = Nobody
    /\ Close
    /\ lpc' = [lpc EXCEPT ![k] = "broken"]
    /\ UNCHANGED <<monitor, children, otherChildren, signals, mutex_exec_, cpc,
                   stale>>

(* Variant: the loop ends on a time out of select(). *)
FinishOnTimeout(k) ==
    /\ Free(k)
    /\ \/ lpc[k] = "loop" /\ (state_ = "STOPPED" \/ unread = Empty)
       \/ lpc[k] = "broken"
    /\ lpc' = [lpc EXCEPT ![k] = "closing"]
    /\ UNCHANGED <<object, monitor, children, otherChildren, signals,
                   mutex_exec_, cpc, stale>>

(* event_finished(). *)
Finish(k) ==
    /\ Free(k)
    /\ \/ lpc[k] = "loop" /\ state_ = "STOPPED"
       \/ lpc[k] = "broken"
    /\ lpc' = [lpc EXCEPT ![k] = "closing"]
    /\ UNCHANGED <<object, monitor, children, otherChildren, signals,
                   mutex_exec_, cpc, stale>>

(* Variant: mutex_exec_ is not released. *)
EndLocked(k) ==
    /\ Free(k)
    /\ lpc[k] = "closing"
    /\ Close
    /\ lpc' = [lpc EXCEPT ![k] = "ended"]
    /\ UNCHANGED <<monitor, children, otherChildren, signals, mutex_exec_, cpc,
                   stale>>

End(k) ==
    /\ Free(k)
    /\ lpc[k] = "closing"
    /\ Close
    /\ mutex_exec_' = Nobody
    /\ lpc' = [lpc EXCEPT ![k] = "ended"]
    /\ UNCHANGED <<monitor, children, otherChildren, signals, cpc, stale>>

ListenerStep(k) ==
    \/ Listen(k) \/ TestRunning(k) \/ PollTimesOut(k) \/ Read(k)
    \/ ReadFails(k) \/ Finish(k) \/ End(k)

-----------------------------------------------------------------------------
(* create(). *)

(* The client goes from one place to the next. *)
At(from, to) ==
    /\ Free(client)
    /\ cpc = from
    /\ cpc' = to

CallCreate ==
    /\ At("idle", "close")
    /\ state_ = "STOPPED"
    /\ stale' = (stale \/ Listening # {} \/ \E t \in Threads : ~Free(t))
    /\ UNCHANGED <<object, monitor, children, otherChildren, signals,
                   mutex_exec_, lpc>>

ClosePrevious ==
    /\ At("close", "open")
    /\ Close
    /\ UNCHANGED <<monitor, children, otherChildren, signals, mutex_exec_, lpc,
                   stale>>

(* There is no such executable, or a pipe cannot be made. *)
OpenFails ==
    /\ At("open", "idle")
    /\ UNCHANGED <<object, monitor, children, otherChildren, signals,
                   mutex_exec_, lpc, stale>>

OpenPipes ==
    /\ At("open", "mark")
    /\ born < MaxChildren
    /\ pipes_' = born + 1
    /\ UNCHANGED <<state_, pid_, exit_code_, started_event_, unread, monitor,
                   children, otherChildren, signals, mutex_exec_, lpc, stale>>

MarkRunning ==
    /\ At("mark", "fork")
    /\ state_' = "RUNNING"
    /\ UNCHANGED <<pid_, exit_code_, started_event_, pipes_, unread, monitor,
                   children, otherChildren, signals, mutex_exec_, lpc, stale>>

(* state_ stays as it is. *)
ForkFails ==
    /\ At("fork", "idle")
    /\ pid_' = Nobody
    /\ UNCHANGED <<state_, exit_code_, started_event_, pipes_, unread, monitor,
                   children, otherChildren, signals, mutex_exec_, lpc, stale>>

Fork ==
    /\ At("fork", "register")
    /\ child' = [child EXCEPT ![born + 1] = "alive"]
    /\ born' = born + 1
    /\ pid_' = born + 1
    /\ UNCHANGED <<state_, exit_code_, started_event_, pipes_, unread, monitor,
                   code, wrote, early, otherChildren, signals, mutex_exec_, lpc,
                   stale>>

(* The first call constructs the ProcessMonitor.  Nobody is a key as well, *)
(* which no child is found under.                                          *)
Register ==
    /\ At("register", "spawn")
    /\ installed' = TRUE
    /\ pid_map_' = (pid_map_ \cup {pid_}) \ {Nobody}
    /\ UNCHANGED <<object, children, otherChildren, signals, mutex_exec_, lpc,
                   stale>>

(* No listen thread: the child is killed and nobody waits for it. *)
SpawnFails ==
    /\ At("spawn", "idle")
    /\ Exit(Killed(pid_), signalled)
    /\ UNCHANGED <<object, monitor, born, wrote, otherChildren, handler,
                   mutex_exec_, lpc, stale>>

Spawn ==
    /\ At("spawn", "starting")
    /\ lpc' = [lpc EXCEPT ![born] = "start"]
    /\ UNCHANGED <<object, monitor, children, otherChildren, signals,
                   mutex_exec_, stale>>

Started ==
    /\ At("starting", "idle")
    /\ started_event_
    /\ exit_code_' = 0
    /\ UNCHANGED <<state_, pid_, started_event_, pipes_, unread, monitor,
                   children, otherChildren, signals, mutex_exec_, lpc, stale>>

-----------------------------------------------------------------------------
(* The other calls. *)

CallWait ==
    /\ At("idle", "waiting")
    /\ UNCHANGED <<object, monitor, children, otherChildren, signals,
                   mutex_exec_, lpc, stale>>

WaitReturns ==
    /\ At("waiting", "idle")
    /\ mutex_exec_ = Nobody
    /\ UNCHANGED <<object, monitor, children, otherChildren, signals,
                   mutex_exec_, lpc, stale>>

(* pid_ and state_, which only close() resets after each other. *)
CallKill ==
    /\ At("idle", "killing")
    /\ pid_ # Nobody
    /\ state_ = "RUNNING"
    /\ UNCHANGED <<object, monitor, children, otherChildren, signals,
                   mutex_exec_, lpc, stale>>

(* SIGTERM, to the child CallKill has found; pid_ may be reset since. *)
Kill ==
    /\ At("killing", "idle")
    /\ Exit(Killed(born), signalled)
    /\ UNCHANGED <<object, monitor, born, wrote, otherChildren, handler,
                   mutex_exec_, lpc, stale>>

Destroy ==
    /\ At("idle", "destroying")
    /\ UNCHANGED <<object, monitor, children, otherChildren, signals,
                   mutex_exec_, lpc, stale>>

Destroyed ==
    /\ At("destroying", "destroyed")
    /\ mutex_exec_ = Nobody
    /\ Close
    /\ UNCHANGED <<monitor, children, otherChildren, signals, mutex_exec_, lpc,
                   stale>>

InCreate ==
    \/ ClosePrevious \/ OpenFails \/ OpenPipes \/ MarkRunning \/ ForkFails
    \/ Fork \/ Register \/ SpawnFails \/ Spawn \/ Started

ClientStep == InCreate \/ WaitReturns \/ Kill \/ Destroyed

Next ==
    \/ \E k \in Children :
          \/ ChildExits(k)
          \/ \E s \in Streams : ChildWrites(k, s)
          \/ ListenerStep(k)
    \/ OtherExits
    \/ \E t \in Threads : Handle(t) \/ StoreCode(t)
    \/ CallCreate \/ CallWait \/ CallKill \/ Destroy
    \/ ClientStep

Spec == Init /\ [][Next]_vars

(***************************************************************************)
(* Every thread runs, calls that can go on do, and a pending signal is     *)
(* delivered.  Children need not end, and the client need not call.        *)
(***************************************************************************)
Fairness ==
    /\ \A k \in Children : WF_vars(ListenerStep(k))
    /\ WF_vars(\E t \in Threads : Handle(t))
    /\ \A t \in Threads : WF_vars(StoreCode(t))
    /\ WF_vars(ClientStep)

FairSpec == Spec /\ Fairness

-----------------------------------------------------------------------------
(* Properties. *)

CPCs == {"idle", "close", "open", "mark", "fork", "register", "spawn",
         "starting", "waiting", "killing", "destroying", "destroyed"}

LPCs == {"none", "start", "loop", "poll", "broken", "closing", "ended"}

TypeOK ==
    /\ state_ \in {"STOPPED", "RUNNING"}
    /\ pid_ \in Children \cup {Nobody}
    /\ exit_code_ \in Codes
    /\ started_event_ \in BOOLEAN
    /\ pipes_ \in Children \cup {Nobody}
    /\ mutex_exec_ \in Children \cup {Nobody}
    /\ pid_map_ \subseteq Children
    /\ installed \in BOOLEAN
    /\ unread \in [Streams -> 0 .. PipeCapacity]
    /\ child \in [Children -> {"none", "alive", "zombie", "reaped"}]
    /\ born \in 0 .. MaxChildren
    /\ code \in [Children -> Codes \cup {signalled}]
    /\ wrote \in [Children -> 0 .. MaxBlocks]
    /\ others \in 0 .. MaxOthers
    /\ otherExits \in 0 .. MaxOthers
    /\ sigchld \in BOOLEAN
    /\ handler \in [Threads -> Children \cup {Nobody}]
    /\ cpc \in CPCs
    /\ lpc \in [Children -> LPCs]
    /\ early \subseteq Children
    /\ stale \in BOOLEAN

(***************************************************************************)
(* "This mutex will be locked through the entire execution" (mutex_exec_): *)
(* outside create() every listen thread that exists holds it, so that      *)
(* wait() waits for it and the destructor destroys no object that a        *)
(* listener uses.  It rests on create() waiting for started_event_, which  *)
(* every close() resets and only the new listener sets.                    *)
(***************************************************************************)
ExecutionLocked ==
    \A k \in Listening : mutex_exec_ = k \/ (cpc = "starting" /\ k = born)

(***************************************************************************)
(* event_finished() is called, and wait() returns, after the child has     *)
(* ended: the listener leaves its loop only when the handler has reaped    *)
(* its own child.  Not so (stale) if create() is called while the listener *)
(* of an earlier child has not ended, which running() does not tell.       *)
(***************************************************************************)
FinishedMeansReaped ==
    \A k \in Children :
        lpc[k] \in {"broken", "closing", "ended"} /\ ~stale => child[k] = "reaped"

(***************************************************************************)
(* A child that runs can be waited for, killed, read from and written to:  *)
(* nothing that happens to other children, and no call of the client,      *)
(* makes the object forget it.                                             *)
(***************************************************************************)
AliveIsRunning ==
    \A k \in Listening :
        child[k] = "alive" /\ ~stale
          => state_ = "RUNNING" /\ pid_ = k /\ pipes_ = k

(***************************************************************************)
(* exit_code() gives the exit code of the child: once the handler is       *)
(* through, and unless the child ended before create() did, whose last     *)
(* assignment then takes the code away.                                    *)
(***************************************************************************)
ExitCodeKept ==
    \A k \in Children :
        /\ k = born /\ cpc \notin {"register", "spawn", "starting"}
        /\ child[k] = "reaped" /\ code[k] # signalled
        /\ lpc[k] # "none"
        /\ k \notin early /\ ~stale
        /\ \A t \in Threads : handler[t] # k
        => exit_code_ = code[k]

(***************************************************************************)
(* wait() returns once state_ tells that the child has ended, whatever the *)
(* child left in its pipes and whoever the handler interrupts.             *)
(***************************************************************************)
WaitEnds ==
    \A k \in Children :
        (cpc = "waiting" /\ mutex_exec_ = k /\ state_ = "STOPPED")
          ~> cpc = "idle"
==============================================================================
