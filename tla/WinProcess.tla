----------------------------- MODULE WinProcess ------------------------------
(***************************************************************************)
(* Process of the windows build (src/windows/process.cc): one object, the  *)
(* client that creates its children and destroys it, other clients that    *)
(* wait for and kill them, and the listen thread of each child.  pc is     *)
(*   idle                   in no call                                     *)
(*   close, open, store, mark, starting                                    *)
(*                          in create(): about to close, to create the     *)
(*                          child and its listen thread, to store the      *)
(*                          handle of the thread, to set state_; waits for *)
(*                          start_event_                                   *)
(*   failed                 in create(): no thread, about to close         *)
(*   asked, waiting, checking                                              *)
(*                          in wait(): has the handle of the thread, waits *)
(*                          for its end, for state_                        *)
(*   killing                in kill(): has the handle of the process       *)
(*   destroying, destroyed  in the destructor, about to close; after it    *)
(*   none, start, loop, poll, leave, release, finishing, ended             *)
(*                          listen thread: not created; about to take      *)
(*                          mutex_exec_, to read, to wait, to close, to    *)
(*                          release mutex_exec_, to call event_finished()  *)
(* In close() each of close, failed, destroying and leave has a successor, *)
(* closing, failing, clearing and reaping: mutex_ is held, and the child   *)
(* has to end.                                                             *)
(***************************************************************************)
EXTENDS Naturals

CONSTANTS
    MaxChildren,        \* bound: the children created
    creator, callers,   \* the clients: creator also waits and kills
    MaxBlocks,          \* bound: the blocks each child writes
    Codes,              \* the exit codes
    Nobody, Garbage     \* no handle, and one that is not valid: never set, or
                        \* closed already

Children == 1 .. MaxChildren

Clients == callers \cup {creator}

Threads == Clients \cup Children

ASSUME WinProcessAssumption ==
    /\ MaxChildren \in Nat
    /\ MaxBlocks \in Nat
    /\ 0 \in Codes
    /\ Clients \cap Children = {}
    /\ {Nobody, Garbage} \cap (Children \cup Clients) = {}
    /\ Nobody # Garbage

VARIABLES
    mutex_, mutex_exec_, state_, exit_code_, start_event_,
    thread_handle_, process_handle_, pipes_,
    child,              \* none, alive, mute (has closed its output) or ended
    code, wrote, unread,
    pc,
    handle,             \* the handle wait() and kill() have copied
    early               \* history: a listen thread has closed the object while
                        \* the create() it belongs to was under way

mutexes == <<mutex_, mutex_exec_>>
object == <<state_, exit_code_, start_event_>>
handles == <<thread_handle_, process_handle_, pipes_>>
children == <<child, code, wrote, unread>>

vars == <<mutexes, object, handles, children, pc, handle, early>>

Init ==
    /\ mutex_ = Nobody
    /\ mutex_exec_ = Nobody
    /\ state_ = "STOPPED"
    /\ exit_code_ = 0
    /\ start_event_ = FALSE
    /\ thread_handle_ = Nobody
    /\ process_handle_ = Nobody
    /\ pipes_ = Nobody
    /\ child = [k \in Children |-> "none"]
    /\ code = [k \in Children |-> 0]
    /\ wrote = [k \in Children |-> 0]
    /\ unread = [k \in Children |-> 0]
    /\ pc = [t \in Threads |-> IF t \in Clients THEN "idle" ELSE "none"]
    /\ handle = [c \in Clients |-> Nobody]
    /\ early = FALSE

Goes(t, from, to) ==
    /\ pc[t] = from
    /\ pc' = [pc EXCEPT ![t] = to]

InCreate ==
    pc[creator] \in {"close", "closing", "open", "store", "mark", "starting",
                     "failed", "failing"}

Destroyed == pc[creator] \in {"destroying", "clearing", "destroyed"}

(* A listen thread whose close() of the object has begun; one that is over. *)
Left == {"leave", "reaping", "release", "finishing", "ended"}

Through == {"release", "finishing", "ended"}

-----------------------------------------------------------------------------
(* close(). *)

Entry == [close |-> "closing", failed |-> "failing", destroying |-> "clearing",
          leave |-> "reaping"]

Exit == [closing |-> "open", failing |-> "idle", clearing |-> "destroyed",
         reaping |-> "release"]

(* A listen thread does not join itself, and closes what handle there is.  *)
Close(t) ==
    /\ pc[t] \in DOMAIN Entry
    /\ mutex_ = Nobody
    /\ pc' = [pc EXCEPT ![t] = Entry[pc[t]]]
    /\ mutex_' = t
    /\ IF t \in Children \/ thread_handle_ = Nobody
       THEN thread_handle_' = Nobody /\ pipes_' = Nobody
       ELSE UNCHANGED <<thread_handle_, pipes_>>
    /\ UNCHANGED <<mutex_exec_, object, process_handle_, children, handle, early>>

(* A client joins the listen thread it finds, with mutex_ held. *)
Joining(t) == t \in Clients /\ thread_handle_ # Nobody

Join(t) ==
    /\ pc[t] \in DOMAIN Exit
    /\ Joining(t)
    /\ pc[thread_handle_] = "ended"
    /\ thread_handle_' = Nobody
    /\ pipes_' = Nobody
    /\ UNCHANGED <<mutexes, object, process_handle_, children, pc, handle, early>>

Ended(h) == h \in Children => child[h] = "ended"

CodeOf(h) ==
    CASE h = Nobody -> exit_code_
      [] h = Garbage -> Garbage
      [] OTHER -> code[h]

(* Variant: the child is not waited for. *)
ReapedAlive(t) ==
    /\ pc[t] \in DOMAIN Exit
    /\ pc' = [pc EXCEPT ![t] = Exit[pc[t]]]
    /\ exit_code_' = CodeOf(process_handle_)
    /\ process_handle_' = Nobody
    /\ start_event_' = FALSE
    /\ state_' = "STOPPED"
    /\ mutex_' = Nobody
    /\ early' = (early \/ (t \in Children /\ InCreate))
    /\ UNCHANGED <<mutex_exec_, thread_handle_, pipes_, children, handle>>

Reaped(t) ==
    /\ pc[t] \in DOMAIN Exit
    /\ ~Joining(t)
    /\ Ended(process_handle_)
    /\ pc' = [pc EXCEPT ![t] = Exit[pc[t]]]
    /\ exit_code_' = CodeOf(process_handle_)
    /\ process_handle_' = Nobody
    /\ start_event_' = FALSE
    /\ state_' = "STOPPED"
    /\ mutex_' = Nobody
    /\ early' = (early \/ (t \in Children /\ InCreate))
    /\ UNCHANGED <<mutex_exec_, thread_handle_, pipes_, children, handle>>

-----------------------------------------------------------------------------
(* create(). *)

(* Variant: running() is not asked. *)
CallCreateUnchecked ==
    /\ Goes(creator, "idle", "close")
    /\ mutex_ = Nobody
    /\ early' = FALSE
    /\ UNCHANGED <<mutexes, object, handles, children, handle>>

CallCreate ==
    /\ Goes(creator, "idle", "close")
    /\ mutex_ = Nobody
    /\ state_ = "STOPPED"
    /\ early' = FALSE
    /\ UNCHANGED <<mutexes, object, handles, children, handle>>

(* No pipe, or only pipe_output_, which is closed again and not forgotten,  *)
(* could be created; or CreateProcess() fails and leaves pi as it was,      *)
(* uninitialised.                                                           *)
OpenFails ==
    /\ Goes(creator, "open", "idle")
    /\ \/ UNCHANGED process_handle_ /\ pipes_' \in {Nobody, Garbage}
       \/ process_handle_' \in {process_handle_, Garbage} /\ pipes_' = Nobody
    /\ UNCHANGED <<mutexes, object, thread_handle_, children, handle, early>>

(* The child runs, and its listen thread, which knows thread_id_, if one   *)
(* could be created.                                                       *)
Open ==
    \E k \in Children :
        /\ child[k] = "none"
        /\ \A j \in 1 .. k - 1 : child[j] # "none"
        /\ pc[creator] = "open"
        /\ child' = [child EXCEPT ![k] = "alive"]
        /\ process_handle_' = k
        /\ pipes_' = k
        /\ \/ pc' = [pc EXCEPT ![creator] = "store", ![k] = "start"]
           \/ pc' = [pc EXCEPT ![creator] = "failed"]
        /\ UNCHANGED <<mutexes, object, thread_handle_, code, wrote, unread, handle, early>>

Newest(k) == k \in Children /\ pc[k] # "none" /\ \A j \in Children : j > k => pc[j] = "none"

Store ==
    /\ Goes(creator, "store", "mark")
    /\ \E k \in Children : Newest(k) /\ thread_handle_' = k
    /\ UNCHANGED <<mutexes, object, process_handle_, pipes_, children, handle, early>>

(* Variant: state_ is not set. *)
MarkStopped ==
    /\ Goes(creator, "mark", "starting")
    /\ UNCHANGED <<mutexes, object, handles, children, handle, early>>

Mark ==
    /\ Goes(creator, "mark", "starting")
    /\ state_' = "RUNNING"
    /\ UNCHANGED <<mutexes, exit_code_, start_event_, handles, children, handle, early>>

Started ==
    /\ Goes(creator, "starting", "idle")
    /\ start_event_
    /\ UNCHANGED <<mutexes, object, handles, children, handle, early>>

-----------------------------------------------------------------------------
(* wait() and kill(). *)

CallWait(c) ==
    /\ ~Destroyed
    /\ mutex_ = Nobody
    /\ thread_handle_ # Nobody
    /\ Goes(c, "idle", "asked")
    /\ handle' = [handle EXCEPT ![c] = thread_handle_]
    /\ UNCHANGED <<mutexes, object, handles, children, early>>

WaitRefused(c) ==
    /\ mutex_ = Nobody
    /\ state_ = "STOPPED"
    /\ Goes(c, "asked", "idle")
    /\ handle' = [handle EXCEPT ![c] = Nobody]
    /\ UNCHANGED <<mutexes, object, handles, children, early>>

Wait(c) ==
    /\ mutex_ = Nobody
    /\ state_ = "RUNNING"
    /\ Goes(c, "asked", "waiting")
    /\ UNCHANGED <<mutexes, object, handles, children, handle, early>>

(* The listen thread has closed its own handle. *)
WaitFails(c) ==
    /\ thread_handle_ # handle[c]
    /\ Goes(c, "waiting", "idle")
    /\ handle' = [handle EXCEPT ![c] = Nobody]
    /\ UNCHANGED <<mutexes, object, handles, children, early>>

Joined(c) ==
    /\ Goes(c, "waiting", "checking")
    /\ pc[handle[c]] = "ended"
    /\ UNCHANGED <<mutexes, object, handles, children, handle, early>>

WaitReturns(c) ==
    /\ state_ = "STOPPED"
    /\ Goes(c, "checking", "idle")
    /\ handle' = [handle EXCEPT ![c] = Nobody]
    /\ UNCHANGED <<mutexes, object, handles, children, early>>

CallKill(c) ==
    /\ ~Destroyed
    /\ mutex_ = Nobody
    /\ process_handle_ # Nobody
    /\ Goes(c, "idle", "killing")
    /\ handle' = [handle EXCEPT ![c] = process_handle_]
    /\ UNCHANGED <<mutexes, object, handles, children, early>>

(* TerminateProcess(), if running(), with a handle that may be closed.     *)
Kill(c) ==
    /\ mutex_ = Nobody
    /\ Goes(c, "killing", "idle")
    /\ IF state_ = "RUNNING" /\ process_handle_ = handle[c] /\ ~Ended(handle[c])
       THEN child' = [child EXCEPT ![handle[c]] = "ended"]
       ELSE UNCHANGED child
    /\ handle' = [handle EXCEPT ![c] = Nobody]
    /\ UNCHANGED <<mutexes, object, handles, code, wrote, unread, early>>

(* The destructor has had mutex_exec_, and nobody is in a call. *)
Destroy ==
    /\ \A c \in Clients : pc[c] = "idle"
    /\ mutex_exec_ = Nobody
    /\ Goes(creator, "idle", "destroying")
    /\ UNCHANGED <<mutexes, object, handles, children, handle, early>>

-----------------------------------------------------------------------------
(* listen(). *)

ListenStart(k) ==
    /\ Goes(k, "start", "loop")
    /\ mutex_exec_ = Nobody
    /\ mutex_exec_' = k
    /\ start_event_' = TRUE
    /\ UNCHANGED <<mutex_, state_, exit_code_, handles, children, handle, early>>

(* read_output() reads what there is, and fails if nobody can write any    *)
(* more.                                                                   *)
ReadOutput(k) ==
    /\ Goes(k, "loop", IF child[k] = "alive" THEN "poll" ELSE "leave")
    /\ unread' = [unread EXCEPT ![k] = 0]
    /\ UNCHANGED <<mutexes, object, handles, child, code, wrote, handle, early>>

PollAgain(k) ==
    /\ Goes(k, "poll", "loop")
    /\ UNCHANGED <<mutexes, object, handles, children, handle, early>>

(* Variant: what is left is not read. *)
ProcessEndedUnread(k) ==
    /\ child[k] = "ended"
    /\ Goes(k, "poll", "leave")
    /\ UNCHANGED <<mutexes, object, handles, children, handle, early>>

ProcessEnded(k) ==
    /\ child[k] = "ended"
    /\ Goes(k, "poll", "leave")
    /\ unread' = [unread EXCEPT ![k] = 0]
    /\ UNCHANGED <<mutexes, object, handles, child, code, wrote, handle, early>>

Release(k) ==
    /\ Goes(k, "release", "finishing")
    /\ mutex_exec_' = Nobody
    /\ UNCHANGED <<mutex_, object, handles, children, handle, early>>

EventFinished(k) ==
    /\ Goes(k, "finishing", "ended")
    /\ UNCHANGED <<mutexes, object, handles, children, handle, early>>

-----------------------------------------------------------------------------
(* The children. *)

ChildWrites(k) ==
    /\ child[k] = "alive"
    /\ wrote[k] < MaxBlocks
    /\ wrote' = [wrote EXCEPT ![k] = @ + 1]
    /\ unread' = [unread EXCEPT ![k] = IF pipes_ = k THEN @ + 1 ELSE @]
    /\ UNCHANGED <<mutexes, object, handles, child, code, pc, handle, early>>

ChildCloses(k) ==
    /\ child[k] = "alive"
    /\ child' = [child EXCEPT ![k] = "mute"]
    /\ UNCHANGED <<mutexes, object, handles, code, wrote, unread, pc, handle, early>>

ChildExits(k) ==
    /\ child[k] \in {"alive", "mute"}
    /\ child' = [child EXCEPT ![k] = "ended"]
    /\ \E n \in Codes : code' = [code EXCEPT ![k] = n]
    /\ UNCHANGED <<mutexes, object, handles, wrote, unread, pc, handle, early>>

-----------------------------------------------------------------------------

(* What a thread in a call, and a listen thread, does next. *)
Step(t) ==
    \/ Close(t) \/ Join(t) \/ Reaped(t)
    \/ t = creator /\ (OpenFails \/ Open \/ Store \/ Mark \/ Started)
    \/ t \in Clients /\ \/ WaitRefused(t) \/ Wait(t) \/ WaitFails(t)
                         \/ Joined(t) \/ WaitReturns(t) \/ Kill(t)
    \/ t \in Children /\ \/ ListenStart(t) \/ ReadOutput(t) \/ PollAgain(t)
                          \/ ProcessEnded(t) \/ Release(t) \/ EventFinished(t)

Next ==
    \/ \E t \in Threads : Step(t)
    \/ CallCreate \/ Destroy
    \/ \E c \in Clients : CallWait(c) \/ CallKill(c)
    \/ \E k \in Children : ChildWrites(k) \/ ChildCloses(k) \/ ChildExits(k)

Spec == Init /\ [][Next]_vars

(***************************************************************************)
(* Threads that can run do, whoever asks for a mutex gets it in the end,   *)
(* and "we expect all our child processes to properly terminate and don't  *)
(* freeze on exit" (process.cc:139-140).                                   *)
(***************************************************************************)
Fairness ==
    /\ \A t \in Threads : SF_vars(Step(t))
    /\ \A k \in Children : WF_vars(ChildExits(k))

FairSpec == Spec /\ Fairness

-----------------------------------------------------------------------------
(* Properties. *)

(***************************************************************************)
(* A child that runs can be waited for and killed: once create() is over,  *)
(* running() is true, the handles are the child's and the listen thread    *)
(* reads its pipe, or has found it closed and waits for the child with     *)
(* mutex_ held.                                                            *)
(***************************************************************************)
AliveIsRunning ==
    \A k \in Children :
        child[k] \in {"alive", "mute"} /\ ~InCreate
        => /\ state_ = "RUNNING"
           /\ process_handle_ = k
           /\ (thread_handle_ = k /\ pipes_ = k) \/ mutex_ = k

(* An object that is not running has no handle of a child left, and        *)
(* exit_code() is the code its last child ended with (process.cc:109-110,  *)
(* 137-160).  What it may have instead is the handle of a listen thread    *)
(* which was through close() before it was stored, or else what a failed   *)
(* create() leaves behind: the uninitialised pi.hProcess (371) or the      *)
(* pipe_output_ that has been closed already (345), never both.            *)
StoppedIsClosed ==
    state_ = "STOPPED" /\ mutex_ = Nobody /\ ~InCreate
    => /\ thread_handle_ # Nobody => pc[thread_handle_] \in Through
       /\ {pipes_, process_handle_} \subseteq {Nobody, Garbage}
       /\ Nobody \in {pipes_, process_handle_}
       /\ \A k \in Children :
             /\ child[k] # "none"
             /\ \A j \in Children : j > k => child[j] = "none"
             => exit_code_ \in {code[k], Garbage}

(* The destructor leaves nothing, whatever it has found.                   *)
DestroyedIsClosed ==
    pc[creator] = "destroyed"
    => thread_handle_ = Nobody /\ process_handle_ = Nobody /\ pipes_ = Nobody

(***************************************************************************)
(* state_, the handles and the exit code, which create(), close() and the  *)
(* listen thread all write, follow the child.                              *)
(***************************************************************************)
ObjectFollowsChild == AliveIsRunning /\ StoppedIsClosed /\ DestroyedIsClosed

(***************************************************************************)
(* Everything a child has written is read before its pipe is closed,       *)
(* whether it ends, closes its output or is killed (process.cc:249-265).   *)
(***************************************************************************)
OutputRead ==
    \A k \in Children : pc[k] \in Left => unread[k] = 0

(***************************************************************************)
(* wait() returns true only when the process it was called for has ended   *)
(* and its event_finished() has returned (process.cc:428-433).             *)
(***************************************************************************)
WaitedForEnd ==
    [][\A c \in Clients :
          pc[c] = "checking" /\ pc'[c] = "idle"
          => child[handle[c]] = "ended" /\ pc[handle[c]] = "ended"]_vars

(***************************************************************************)
(* Every call returns, if the listen thread does not come to its end       *)
(* before create() has set state_ and seen start_event_.                   *)
(***************************************************************************)
CallsReturn ==
    \A c \in Clients :
        pc[c] \notin {"idle", "destroyed"}
            ~> (pc[c] \in {"idle", "destroyed"} \/ early)
==============================================================================
