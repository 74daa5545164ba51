--------------------------- MODULE WinProcessProofs ---------------------------
(***************************************************************************)
(* Theorems about WinProcess, for any number of children, callers, blocks  *)
(* and exit codes: what state_, the handles and the exit code tell of the  *)
(* child, that its output is read to the end, and that wait() returns      *)
(* after the end of the process it was called for.                         *)
(***************************************************************************)
EXTENDS WinProcess, TLAPS

(* Where a thread is: a client in no call, or in wait() or kill(); the     *)
(* creator in create() and in the destructor; a listen thread.             *)
Calling == {"idle", "asked", "waiting", "checking", "killing"}

Creating == {"close", "closing", "open", "store", "mark", "starting", "failed",
             "failing"}

Destroying == {"destroying", "clearing", "destroyed"}

Listening == {"start", "loop", "poll", "leave", "reaping"}

ListenPCs == {"none"} \cup Listening \cup Through

Handles == Children \cup {Nobody, Garbage}

Typed ==
    /\ mutex_ \in Threads \cup {Nobody}
    /\ mutex_exec_ \in Children \cup {Nobody}
    /\ state_ \in {"STOPPED", "RUNNING"}
    /\ start_event_ \in BOOLEAN
    /\ thread_handle_ \in Children \cup {Nobody}
    /\ process_handle_ \in Handles
    /\ child \in [Children -> {"none", "alive", "mute", "ended"}]
    /\ code \in [Children -> Codes]
    /\ unread \in [Children -> Nat]
    /\ pc \in [Threads -> Calling \cup Creating \cup Destroying \cup ListenPCs]
    /\ \A c \in Clients : pc[c] \in Calling \/ c = creator
    /\ pc[creator] \in Calling \cup Creating \cup Destroying
    /\ \A k \in Children : pc[k] \in ListenPCs
    /\ handle \in [Clients -> Handles]
    /\ \A c \in Clients :
          pc[c] \in {"asked", "waiting", "checking"} => handle[c] \in Children

(* Clients and listen threads are different threads.                       *)
LEMMA Sides ==
    /\ creator \in Clients
    /\ Clients \subseteq Threads
    /\ Children \subseteq Threads
    /\ Clients \cap Children = {}
    /\ Nobody \notin Threads /\ Garbage \notin Threads /\ Nobody # Garbage
    /\ Children \subseteq Nat
BY WinProcessAssumption DEF Clients, Threads, Children

(* What close() comes from and leads to.                                   *)
LEMMA EntryOK ==
    /\ DOMAIN Entry = {"close", "failed", "destroying", "leave"}
    /\ Entry["close"] = "closing" /\ Entry["failed"] = "failing"
    /\ Entry["destroying"] = "clearing" /\ Entry["leave"] = "reaping"
BY DEF Entry

LEMMA ExitOK ==
    /\ DOMAIN Exit = {"closing", "failing", "clearing", "reaping"}
    /\ Exit["closing"] = "open" /\ Exit["failing"] = "idle"
    /\ Exit["clearing"] = "destroyed" /\ Exit["reaping"] = "release"
BY DEF Exit

(* A thread goes to a place of its kind.                                   *)
LEMMA GoesTyped ==
    ASSUME Typed, NEW t \in Threads, NEW to, pc' = [pc EXCEPT ![t] = to],
           t \in Children => to \in ListenPCs,
           t \in Clients => to \in Calling \/ t = creator,
           t = creator => to \in Calling \cup Creating \cup Destroying
    PROVE  /\ pc' \in [Threads -> Calling \cup Creating \cup Destroying \cup ListenPCs]
           /\ \A c \in Clients : pc'[c] \in Calling \/ c = creator
           /\ pc'[creator] \in Calling \cup Creating \cup Destroying
           /\ \A k \in Children : pc'[k] \in ListenPCs
           /\ \A u \in Threads \ {t} : pc'[u] = pc[u]
           /\ pc'[t] = to
<1>1. pc \in [Threads -> Calling \cup Creating \cup Destroying \cup ListenPCs]
  BY DEF Typed
<1>2. to \in Calling \cup Creating \cup Destroying \cup ListenPCs
  BY Sides DEF Threads
<1>3. /\ \A u \in Threads \ {t} : pc'[u] = pc[u]
      /\ pc'[t] = to
  BY <1>1
<1>. QED
  BY <1>1, <1>2, <1>3, Sides DEF Typed

LEMMA StepTyped == Typed /\ [Next]_vars => Typed'
<1>. SUFFICES ASSUME Typed, [Next]_vars
              PROVE  Typed'
  OBVIOUS
<1>. USE Sides DEF mutexes, object, handles, children, Goes
<1>. USE DEF Calling, Creating, Destroying, Listening, Through, ListenPCs
<1>1. ASSUME NEW t \in Threads, Close(t)
      PROVE  Typed'
  <2>1. /\ pc[t] \in {"close", "failed", "destroying", "leave"}
        /\ pc' = [pc EXCEPT ![t] = Entry[pc[t]]]
    BY <1>1, EntryOK DEF Close
  <2>2. t \in Children <=> pc[t] = "leave"
    BY <2>1 DEF Typed, Threads
  <2>3. t \in Children \/ t = creator
    BY <2>1, <2>2 DEF Typed, Threads
  <2>4. /\ t \in Children => Entry[pc[t]] = "reaping"
        /\ t = creator => Entry[pc[t]] \in {"closing", "failing", "clearing"}
    BY <2>1, <2>2, EntryOK
  <2>5. /\ pc' \in [Threads -> Calling \cup Creating \cup Destroying \cup ListenPCs]
        /\ \A c \in Clients : pc'[c] \in Calling \/ c = creator
        /\ pc'[creator] \in Calling \cup Creating \cup Destroying
        /\ \A k \in Children : pc'[k] \in ListenPCs
        /\ \A u \in Threads \ {t} : pc'[u] = pc[u]
        /\ pc'[t] = Entry[pc[t]]
    BY <2>1, <2>3, <2>4, GoesTyped
  <2>. QED
    BY <1>1, <2>3, <2>4, <2>5 DEF Close, Typed
<1>2. ASSUME NEW t \in Threads, Join(t)
      PROVE  Typed'
  BY <1>2 DEF Join, Typed
<1>3. ASSUME NEW t \in Threads, Reaped(t)
      PROVE  Typed'
  <2>1. /\ pc[t] \in {"closing", "failing", "clearing", "reaping"}
        /\ pc' = [pc EXCEPT ![t] = Exit[pc[t]]]
    BY <1>3, ExitOK DEF Reaped
  <2>2. t \in Children <=> pc[t] = "reaping"
    BY <2>1 DEF Typed, Threads
  <2>3. t \in Children \/ t = creator
    BY <2>1, <2>2 DEF Typed, Threads
  <2>4. /\ t \in Children => Exit[pc[t]] = "release"
        /\ t = creator => Exit[pc[t]] \in {"open", "idle", "destroyed"}
    BY <2>1, <2>2, ExitOK
  <2>5. /\ pc' \in [Threads -> Calling \cup Creating \cup Destroying \cup ListenPCs]
        /\ \A c \in Clients : pc'[c] \in Calling \/ c = creator
        /\ pc'[creator] \in Calling \cup Creating \cup Destroying
        /\ \A k \in Children : pc'[k] \in ListenPCs
        /\ \A u \in Threads \ {t} : pc'[u] = pc[u]
        /\ pc'[t] = Exit[pc[t]]
    BY <2>1, <2>3, <2>4, GoesTyped
  <2>. QED
    BY <1>3, <2>3, <2>4, <2>5 DEF Reaped, Typed, Handles
<1>4. CASE OpenFails \/ Store \/ Mark \/ Started \/ CallCreate \/ Destroy
  <2>1. \E to \in Calling \cup Creating \cup Destroying :
            /\ to \notin {"asked", "waiting", "checking"}
            /\ pc' = [pc EXCEPT ![creator] = to]
    BY <1>4 DEF OpenFails, Store, Mark, Started, CallCreate, Destroy
  <2>2. /\ pc' \in [Threads -> Calling \cup Creating \cup Destroying \cup ListenPCs]
        /\ \A c \in Clients : pc'[c] \in Calling \/ c = creator
        /\ pc'[creator] \in Calling \cup Creating \cup Destroying
        /\ pc'[creator] \notin {"asked", "waiting", "checking"}
        /\ \A k \in Children : pc'[k] \in ListenPCs
        /\ \A u \in Threads \ {creator} : pc'[u] = pc[u]
    BY <2>1, GoesTyped
  <2>3. /\ mutex_' = mutex_ /\ mutex_exec_' = mutex_exec_
        /\ state_' \in {"STOPPED", "RUNNING"} /\ start_event_' = start_event_
        /\ thread_handle_' \in Children \cup {Nobody}
        /\ process_handle_' \in Handles
        /\ child' = child /\ code' = code /\ unread' = unread /\ handle' = handle
    BY <1>4 DEF OpenFails, Store, Mark, Started, CallCreate, Destroy, Typed, Handles, Newest
  <2>. QED
    BY <2>2, <2>3 DEF Typed
<1>5. CASE Open
  <2>1. PICK k \in Children :
            /\ child[k] = "none"
            /\ child' = [child EXCEPT ![k] = "alive"]
            /\ process_handle_' = k
            /\ \/ pc' = [pc EXCEPT ![creator] = "store", ![k] = "start"]
               \/ pc' = [pc EXCEPT ![creator] = "failed"]
            /\ UNCHANGED <<mutexes, object, thread_handle_, code, unread, handle>>
    BY <1>5 DEF Open
  <2>2. /\ \A u \in Threads : pc'[u] = pc[u] \/ u = creator \/ u = k
        /\ pc'[creator] \in {"store", "failed"}
        /\ pc'[k] = pc[k] \/ pc'[k] = "start"
        /\ pc' \in [Threads -> Calling \cup Creating \cup Destroying \cup ListenPCs]
    BY <2>1 DEF Typed
  <2>. QED
    BY <2>1, <2>2 DEF Typed, Handles
<1>6. ASSUME NEW c \in Clients,
             \/ WaitRefused(c) \/ Wait(c) \/ WaitFails(c) \/ Joined(c)
             \/ WaitReturns(c) \/ Kill(c) \/ CallWait(c) \/ CallKill(c)
      PROVE  Typed'
  <2>1. \E to \in Calling :
            /\ pc' = [pc EXCEPT ![c] = to]
            /\ to \in {"asked", "waiting", "checking"} => handle'[c] \in Children
    BY <1>6 DEF WaitRefused, Wait, WaitFails, Joined, WaitReturns, Kill, CallWait,
                CallKill, Typed
  <2>2. /\ pc' \in [Threads -> Calling \cup Creating \cup Destroying \cup ListenPCs]
        /\ \A d \in Clients : pc'[d] \in Calling \/ d = creator
        /\ pc'[creator] \in Calling \cup Creating \cup Destroying
        /\ \A k \in Children : pc'[k] \in ListenPCs
        /\ \A u \in Threads \ {c} : pc'[u] = pc[u]
        /\ pc'[c] \in {"asked", "waiting", "checking"} => handle'[c] \in Children
    BY <2>1, GoesTyped
  <2>3. /\ handle' \in [Clients -> Handles]
        /\ \A d \in Clients \ {c} : handle'[d] = handle[d]
    BY <1>6 DEF WaitRefused, Wait, WaitFails, Joined, WaitReturns, Kill, CallWait,
                CallKill, Typed, Handles
  <2>4. child' \in [Children -> {"none", "alive", "mute", "ended"}]
    BY <1>6 DEF WaitRefused, Wait, WaitFails, Joined, WaitReturns, Kill, CallWait,
                CallKill, Typed
  <2>5. UNCHANGED <<mutexes, object, handles, code, unread>>
    BY <1>6 DEF WaitRefused, Wait, WaitFails, Joined, WaitReturns, Kill, CallWait,
                CallKill
  <2>. QED
    BY <2>2, <2>3, <2>4, <2>5 DEF Typed
<1>7. ASSUME NEW k \in Children,
             \/ ListenStart(k) \/ ReadOutput(k) \/ PollAgain(k)
             \/ ProcessEnded(k) \/ Release(k) \/ EventFinished(k)
      PROVE  Typed'
  <2>1. \E to \in ListenPCs : pc' = [pc EXCEPT ![k] = to]
    BY <1>7 DEF ListenStart, ReadOutput, PollAgain, ProcessEnded, Release, EventFinished
  <2>2. /\ pc' \in [Threads -> Calling \cup Creating \cup Destroying \cup ListenPCs]
        /\ \A d \in Clients : pc'[d] \in Calling \/ d = creator
        /\ pc'[creator] \in Calling \cup Creating \cup Destroying
        /\ \A j \in Children : pc'[j] \in ListenPCs
        /\ \A u \in Threads \ {k} : pc'[u] = pc[u]
    BY <2>1, GoesTyped
  <2>3. unread' \in [Children -> Nat]
    BY <1>7 DEF ListenStart, ReadOutput, PollAgain, ProcessEnded, Release,
                EventFinished, Typed
  <2>4. mutex_exec_' \in Children \cup {Nobody} /\ start_event_' \in BOOLEAN
    BY <1>7 DEF ListenStart, ReadOutput, PollAgain, ProcessEnded, Release,
                EventFinished, Typed
  <2>5. UNCHANGED <<mutex_, state_, handles, child, code, handle>>
    BY <1>7 DEF ListenStart, ReadOutput, PollAgain, ProcessEnded, Release,
                EventFinished
  <2>. QED
    BY <2>2, <2>3, <2>4, <2>5 DEF Typed
<1>8. ASSUME NEW k \in Children, ChildWrites(k) \/ ChildCloses(k) \/ ChildExits(k)
      PROVE  Typed'
  <2>1. /\ unread' \in [Children -> Nat]
        /\ child' \in [Children -> {"none", "alive", "mute", "ended"}]
        /\ code' \in [Children -> Codes]
        /\ UNCHANGED <<mutexes, object, handles, pc, handle>>
    BY <1>8 DEF ChildWrites, ChildCloses, ChildExits, Typed
  <2>. QED
    BY <2>1 DEF Typed
<1>9. CASE UNCHANGED vars
  BY <1>9 DEF vars, Typed
<1>. QED
  BY <1>1, <1>2, <1>3, <1>4, <1>5, <1>6, <1>7, <1>8, <1>9 DEF Next, Step

-----------------------------------------------------------------------------
(* A listen thread is that of a child that has been created; once it is    *)
(* about to close the object, the child writes no more and nothing is left.*)
Emptied ==
    \A k \in Children :
        /\ child[k] = "none" => pc[k] = "none"
        /\ pc[k] \in Left => unread[k] = 0 /\ child[k] \in {"mute", "ended"}

LEMMA StepEmptied == Typed /\ Emptied /\ [Next]_vars => Emptied'
<1>. SUFFICES ASSUME Typed, Emptied, [Next]_vars
              PROVE  Emptied'
  OBVIOUS
<1>. USE Sides DEF mutexes, object, handles, children, Goes, Left
<1>t. /\ pc \in [Threads -> Calling \cup Creating \cup Destroying \cup ListenPCs]
      /\ child \in [Children -> {"none", "alive", "mute", "ended"}]
      /\ unread \in [Children -> Nat]
      /\ \A c \in Clients : pc[c] \in Calling \/ c = creator
      /\ pc[creator] \in Calling \cup Creating \cup Destroying
      /\ \A k \in Children : pc[k] \in ListenPCs
  BY DEF Typed
(* Only clients move, and children end.                                    *)
<1>a. ASSUME \A k \in Children : pc'[k] = pc[k],
             unread' = unread,
             \A k \in Children : child'[k] = child[k] \/ child'[k] = "ended"
      PROVE  Emptied'
  BY <1>a DEF Emptied
<1>1. ASSUME NEW t \in Threads, Close(t)
      PROVE  Emptied'
  <2>1. /\ pc[t] \in {"close", "failed", "destroying", "leave"}
        /\ pc' = [pc EXCEPT ![t] = Entry[pc[t]]]
        /\ UNCHANGED <<child, unread>>
    BY <1>1, EntryOK DEF Close
  <2>2. \A k \in Children : pc'[k] = pc[k] \/ (pc[k] = "leave" /\ pc'[k] = "reaping")
    BY <1>t, <2>1, EntryOK DEF ListenPCs, Listening, Through
  <2>. QED
    BY <2>1, <2>2 DEF Emptied
<1>2. ASSUME NEW t \in Threads, Join(t)
      PROVE  Emptied'
  BY <1>2, <1>a DEF Join
<1>3. ASSUME NEW t \in Threads, Reaped(t)
      PROVE  Emptied'
  <2>1. /\ pc[t] \in {"closing", "failing", "clearing", "reaping"}
        /\ pc' = [pc EXCEPT ![t] = Exit[pc[t]]]
        /\ UNCHANGED <<child, unread>>
    BY <1>3, ExitOK DEF Reaped
  <2>2. \A k \in Children : pc'[k] = pc[k] \/ (pc[k] = "reaping" /\ pc'[k] = "release")
    BY <1>t, <2>1, ExitOK DEF ListenPCs, Listening, Through
  <2>. QED
    BY <2>1, <2>2 DEF Emptied
<1>4. CASE OpenFails \/ Store \/ Mark \/ Started \/ CallCreate \/ Destroy
  <2>1. \A k \in Children : pc'[k] = pc[k]
    BY <1>4, <1>t DEF OpenFails, Store, Mark, Started, CallCreate, Destroy
  <2>2. UNCHANGED <<child, unread>>
    BY <1>4 DEF OpenFails, Store, Mark, Started, CallCreate, Destroy
  <2>. QED
    BY <1>a, <2>1, <2>2
<1>5. CASE Open
  <2>1. PICK k \in Children :
            /\ child[k] = "none"
            /\ child' = [child EXCEPT ![k] = "alive"]
            /\ \/ pc' = [pc EXCEPT ![creator] = "store", ![k] = "start"]
               \/ pc' = [pc EXCEPT ![creator] = "failed"]
            /\ unread' = unread
    BY <1>5 DEF Open
  <2>2. /\ \A j \in Children \ {k} : pc'[j] = pc[j] /\ child'[j] = child[j]
        /\ child'[k] = "alive" /\ pc'[k] \in {pc[k], "start"} /\ pc[k] = "none"
    BY <1>t, <2>1 DEF Emptied
  <2>. QED
    BY <2>1, <2>2 DEF Emptied
<1>6. ASSUME NEW c \in Clients,
             \/ WaitRefused(c) \/ Wait(c) \/ WaitFails(c) \/ Joined(c)
             \/ WaitReturns(c) \/ Kill(c) \/ CallWait(c) \/ CallKill(c)
      PROVE  Emptied'
  <2>1. \A k \in Children : pc'[k] = pc[k]
    BY <1>6, <1>t DEF WaitRefused, Wait, WaitFails, Joined, WaitReturns, Kill,
                      CallWait, CallKill
  <2>2. unread' = unread /\ \A k \in Children : child'[k] = child[k] \/ child'[k] = "ended"
    BY <1>6, <1>t DEF WaitRefused, Wait, WaitFails, Joined, WaitReturns, Kill,
                      CallWait, CallKill
  <2>. QED
    BY <1>a, <2>1, <2>2
<1>7. ASSUME NEW k \in Children,
             \/ ListenStart(k) \/ ReadOutput(k) \/ PollAgain(k)
             \/ ProcessEnded(k) \/ Release(k) \/ EventFinished(k)
      PROVE  Emptied'
  <2>1. pc[k] # "none" /\ child[k] # "none" /\ UNCHANGED child
    BY <1>7 DEF ListenStart, ReadOutput, PollAgain, ProcessEnded, Release,
                EventFinished, Emptied
  <2>2. \A j \in Children \ {k} : pc'[j] = pc[j] /\ unread'[j] = unread[j]
    BY <1>7, <1>t DEF ListenStart, ReadOutput, PollAgain, ProcessEnded, Release,
                EventFinished
  <2>3. pc'[k] \in Left => unread'[k] = 0 /\ child[k] \in {"mute", "ended"}
    <3>1. CASE ListenStart(k) \/ PollAgain(k)
      BY <1>t, <3>1 DEF ListenStart, PollAgain
    <3>2. CASE ReadOutput(k) \/ ProcessEnded(k)
      BY <1>t, <2>1, <3>2 DEF ReadOutput, ProcessEnded
    <3>3. CASE Release(k) \/ EventFinished(k)
      BY <1>t, <3>3 DEF Release, EventFinished, Emptied
    <3>. QED
      BY <1>7, <3>1, <3>2, <3>3
  <2>. QED
    BY <2>1, <2>2, <2>3 DEF Emptied
<1>8. ASSUME NEW k \in Children, ChildWrites(k)
      PROVE  Emptied'
  BY <1>8, <1>t DEF ChildWrites, Emptied
<1>9. ASSUME NEW k \in Children, ChildCloses(k) \/ ChildExits(k)
      PROVE  Emptied'
  <2>1. /\ child' = [child EXCEPT ![k] = "mute"] \/ child' = [child EXCEPT ![k] = "ended"]
        /\ child[k] # "none"
        /\ UNCHANGED <<pc, unread>>
    BY <1>9 DEF ChildCloses, ChildExits
  <2>. QED
    BY <1>t, <2>1 DEF Emptied
<1>10. CASE UNCHANGED vars
  BY <1>10, <1>a DEF vars
<1>. QED
  BY <1>1, <1>2, <1>3, <1>4, <1>5, <1>6, <1>7, <1>8, <1>9, <1>10 DEF Next, Step

-----------------------------------------------------------------------------
(* Who holds the mutexes.                                                  *)
Guarded ==
    /\ \A t \in Threads : pc[t] \in DOMAIN Exit <=> mutex_ = t
    /\ \A k \in Children :
          pc[k] \in {"loop", "poll", "leave", "reaping", "release"} <=> mutex_exec_ = k

(* A thread moves, and takes or releases nothing.                          *)
LEMMA GuardedKept ==
    ASSUME Typed, Guarded, UNCHANGED mutexes,
           \A t \in Threads : pc'[t] \in DOMAIN Exit <=> pc[t] \in DOMAIN Exit,
           \A k \in Children :
               pc'[k] \in {"loop", "poll", "leave", "reaping", "release"}
                 <=> pc[k] \in {"loop", "poll", "leave", "reaping", "release"}
    PROVE  Guarded'
BY DEF Guarded, mutexes

LEMMA StepGuarded == Typed /\ Emptied /\ Guarded /\ [Next]_vars => Guarded'
<1>. SUFFICES ASSUME Typed, Emptied, Guarded, [Next]_vars
              PROVE  Guarded'
  OBVIOUS
<1>. USE Sides DEF object, handles, children, Goes
<1>t. /\ pc \in [Threads -> Calling \cup Creating \cup Destroying \cup ListenPCs]
      /\ \A c \in Clients : pc[c] \in Calling \/ c = creator
      /\ pc[creator] \in Calling \cup Creating \cup Destroying
      /\ \A k \in Children : pc[k] \in ListenPCs
  BY DEF Typed
<1>1. ASSUME NEW t \in Threads, Close(t)
      PROVE  Guarded'
  <2>1. /\ pc[t] \in {"close", "failed", "destroying", "leave"}
        /\ pc' = [pc EXCEPT ![t] = Entry[pc[t]]]
        /\ mutex_ = Nobody /\ mutex_' = t /\ mutex_exec_' = mutex_exec_
    BY <1>1, EntryOK DEF Close
  <2>2. pc'[t] = Entry[pc[t]] /\ \A u \in Threads \ {t} : pc'[u] = pc[u]
    BY <1>t, <2>1
  <2>3. \A u \in Threads : pc'[u] \in DOMAIN Exit <=> u = t
    BY <2>1, <2>2, EntryOK, ExitOK DEF Guarded
  <2>4. t \in Children => pc[t] = "leave" /\ pc'[t] = "reaping"
    BY <1>t, <2>1, <2>2, EntryOK DEF ListenPCs, Listening, Through
  <2>5. \A k \in Children :
           pc'[k] \in {"loop", "poll", "leave", "reaping", "release"} <=> mutex_exec_ = k
    BY <2>2, <2>4 DEF Guarded
  <2>. QED
    BY <2>1, <2>3, <2>5 DEF Guarded
<1>2. ASSUME NEW t \in Threads, Join(t)
      PROVE  Guarded'
  BY <1>2, GuardedKept DEF Join
<1>3. ASSUME NEW t \in Threads, Reaped(t)
      PROVE  Guarded'
  <2>1. /\ pc[t] \in DOMAIN Exit
        /\ pc' = [pc EXCEPT ![t] = Exit[pc[t]]]
        /\ mutex_' = Nobody /\ mutex_exec_' = mutex_exec_
    BY <1>3 DEF Reaped
  <2>2. pc'[t] = Exit[pc[t]] /\ \A u \in Threads \ {t} : pc'[u] = pc[u]
    BY <1>t, <2>1
  <2>3. mutex_ = t
    BY <2>1 DEF Guarded
  <2>4. \A u \in Threads : pc'[u] \notin DOMAIN Exit
    BY <2>1, <2>2, <2>3, ExitOK DEF Guarded
  <2>5. t \in Children => pc[t] = "reaping" /\ pc'[t] = "release"
    BY <1>t, <2>1, <2>2, ExitOK DEF ListenPCs, Listening, Through
  <2>6. \A k \in Children :
           pc'[k] \in {"loop", "poll", "leave", "reaping", "release"} <=> mutex_exec_ = k
    BY <2>2, <2>5 DEF Guarded
  <2>. QED
    BY <2>1, <2>4, <2>6 DEF Guarded
<1>4. CASE OpenFails \/ Store \/ Mark \/ Started \/ CallCreate \/ Destroy
  <2>1. /\ \A u \in Threads \ {creator} : pc'[u] = pc[u]
        /\ pc[creator] \notin DOMAIN Exit /\ pc'[creator] \notin DOMAIN Exit
        /\ UNCHANGED mutexes
    BY <1>4, <1>t, ExitOK DEF OpenFails, Store, Mark, Started, CallCreate, Destroy
  <2>. QED
    BY <2>1, GuardedKept
<1>5. CASE Open
  <2>1. PICK k \in Children :
            /\ child[k] = "none"
            /\ \/ pc' = [pc EXCEPT ![creator] = "store", ![k] = "start"]
               \/ pc' = [pc EXCEPT ![creator] = "failed"]
            /\ pc[creator] = "open"
            /\ UNCHANGED mutexes
    BY <1>5 DEF Open
  <2>2. /\ \A u \in Threads \ {creator, k} : pc'[u] = pc[u]
        /\ pc'[k] \in {"none", "start"} /\ pc[k] = "none"
        /\ pc[creator] \notin DOMAIN Exit /\ pc'[creator] \notin DOMAIN Exit
    BY <1>t, <2>1, ExitOK DEF Emptied
  <2>3. \A t \in Threads : pc'[t] \in DOMAIN Exit <=> pc[t] \in DOMAIN Exit
    BY <2>2, ExitOK
  <2>4. \A j \in Children :
           pc'[j] \in {"loop", "poll", "leave", "reaping", "release"}
             <=> pc[j] \in {"loop", "poll", "leave", "reaping", "release"}
    BY <2>2
  <2>. QED
    BY <2>1, <2>3, <2>4, GuardedKept
<1>6. ASSUME NEW c \in Clients,
             \/ WaitRefused(c) \/ Wait(c) \/ WaitFails(c) \/ Joined(c)
             \/ WaitReturns(c) \/ Kill(c) \/ CallWait(c) \/ CallKill(c)
      PROVE  Guarded'
  <2>1. /\ \A u \in Threads \ {c} : pc'[u] = pc[u]
        /\ pc[c] \notin DOMAIN Exit /\ pc'[c] \notin DOMAIN Exit
        /\ UNCHANGED mutexes
    BY <1>6, <1>t, ExitOK DEF WaitRefused, Wait, WaitFails, Joined, WaitReturns, Kill,
                      CallWait, CallKill
  <2>. QED
    BY <2>1, GuardedKept
<1>7. ASSUME NEW k \in Children,
             \/ ReadOutput(k) \/ PollAgain(k) \/ ProcessEnded(k) \/ EventFinished(k)
      PROVE  Guarded'
  <2>1. /\ \A u \in Threads \ {k} : pc'[u] = pc[u]
        /\ pc[k] \notin DOMAIN Exit /\ pc'[k] \notin DOMAIN Exit
        /\ pc'[k] \in {"loop", "poll", "leave", "reaping", "release"}
             <=> pc[k] \in {"loop", "poll", "leave", "reaping", "release"}
        /\ UNCHANGED mutexes
    BY <1>7, <1>t, ExitOK DEF ReadOutput, PollAgain, ProcessEnded, EventFinished
  <2>. QED
    BY <2>1, GuardedKept
<1>8. ASSUME NEW k \in Children, ListenStart(k) \/ Release(k)
      PROVE  Guarded'
  <2>1. /\ \A u \in Threads \ {k} : pc'[u] = pc[u]
        /\ pc[k] \notin DOMAIN Exit /\ pc'[k] \notin DOMAIN Exit
        /\ mutex_' = mutex_
    BY <1>8, <1>t, ExitOK DEF ListenStart, Release
  <2>2. CASE ListenStart(k)
    BY <1>t, <2>1, <2>2 DEF ListenStart, Guarded
  <2>3. CASE Release(k)
    BY <1>t, <2>1, <2>3 DEF Release, Guarded
  <2>. QED
    BY <1>8, <2>2, <2>3
<1>9. ASSUME NEW k \in Children, ChildWrites(k) \/ ChildCloses(k) \/ ChildExits(k)
      PROVE  Guarded'
  BY <1>9, GuardedKept DEF ChildWrites, ChildCloses, ChildExits
<1>10. CASE UNCHANGED vars
  BY <1>10, GuardedKept DEF vars
<1>. QED
  BY <1>1, <1>2, <1>3, <1>4, <1>5, <1>6, <1>7, <1>8, <1>9, <1>10 DEF Next, Step

-----------------------------------------------------------------------------
(* The object and its last child.                                          *)
Latest(k) == child[k] # "none" /\ \A j \in Children : j > k => child[j] = "none"

InOrder ==
    \A j, k \in Children : j < k /\ child[k] # "none" => child[j] # "none"

(* No listen thread is on its way to close the object; and the child that  *)
(* has just been created has no listen thread.                             *)
Quiet == \A k \in Children : pc[k] \notin Listening

Unheard == pc[creator] \in {"failed", "failing"}

(* A listen thread on its way is that of the last child, and the object is *)
(* its object, as far as create() has come.  It takes the handles away     *)
(* with the first step of its close(), and the rest with the second.       *)
Follows ==
    \A k \in Children : pc[k] \in Listening =>
        /\ Latest(k)
        /\ process_handle_ = k
        /\ pc[creator] \in Calling \cup {"store", "mark", "starting"}
        /\ pipes_ = (IF pc[k] = "reaping" THEN Nobody ELSE k)
        /\ pc[k] # "reaping" /\ pc[creator] # "store" => thread_handle_ = k
        /\ pc[k] = "start" => pc[creator] \in {"store", "mark", "starting"}
        /\ start_event_ <=> pc[k] # "start"
        /\ state_ = "RUNNING" \/ pc[creator] \in {"store", "mark"}

(* A child that runs has a listen thread, or is to be waited for by the    *)
(* create() that found none.                                               *)
Attended ==
    \A k \in Children : child[k] \in {"alive", "mute"} =>
        pc[k] \in Listening \/ (Unheard /\ process_handle_ = k /\ pc[k] = "none")

(* What else there is of the object belongs to nobody.                     *)
Idle ==
    Quiet =>
        /\ process_handle_ \in {Nobody, Garbage} \/ Unheard
        /\ \/ pipes_ \in {Nobody, Garbage} /\ Nobody \in {pipes_, process_handle_}
           \/ Unheard /\ (pc[creator] = "failed" \/ pipes_ = Nobody)
        /\ state_ = "STOPPED" \/ pc[creator] = "starting"
        /\ ~start_event_

(* The creator in close(), and in what follows it at once.                 *)
Emptying == {"closing", "open", "failing", "clearing"}

(* How far create(), and the destructor, have come.                        *)
Created ==
    /\ thread_handle_ # Nobody => pc[thread_handle_] # "none"
    /\ pc[creator] \in {"open", "store", "failed", "failing"} => thread_handle_ = Nobody
    /\ pc[creator] = "open" => process_handle_ = Nobody
    /\ pc[creator] \in Creating \ {"starting"} => state_ = "STOPPED"
    /\ Unheard => process_handle_ \in Children /\ Latest(process_handle_)
    /\ pc[creator] \in Emptying /\ thread_handle_ = Nobody => pipes_ = Nobody
    /\ DestroyedIsClosed

Coded ==
    \A k \in Children :
        Latest(k) /\ pc[k] \notin Listening /\ ~Unheard => exit_code_ \in {code[k], Garbage}

Accounted == InOrder /\ Follows /\ Attended /\ Idle /\ Created /\ Coded

LEMMA InitAccounted == Init => Typed /\ Emptied /\ Guarded /\ Accounted
<1>. SUFFICES ASSUME Init PROVE Typed /\ Emptied /\ Guarded /\ Accounted
  OBVIOUS
<1>. USE Sides, WinProcessAssumption DEF Init
<1>1. /\ \A c \in Clients : pc[c] = "idle"
      /\ \A k \in Children : pc[k] = "none" /\ child[k] = "none"
      /\ \A t \in Threads : pc[t] \in {"idle", "none"}
  OBVIOUS
<1>2. Typed
  <2>1. /\ child \in [Children -> {"none", "alive", "mute", "ended"}]
        /\ code \in [Children -> Codes] /\ unread \in [Children -> Nat]
        /\ handle \in [Clients -> Handles]
    BY DEF Handles
  <2>2. pc \in [Threads -> Calling \cup Creating \cup Destroying \cup ListenPCs]
    BY DEF Calling, Creating, Destroying, ListenPCs
  <2>. QED
    BY <1>1, <2>1, <2>2 DEF Typed, Calling, ListenPCs, Handles
<1>3. Emptied
  BY <1>1 DEF Emptied, Left
<1>4. Guarded
  BY <1>1, ExitOK DEF Guarded
<1>5. Accounted
  BY <1>1 DEF Accounted, InOrder, Follows, Attended, Idle, Created, Coded, Latest, Quiet,
              Unheard, Listening, Creating, Emptying, DestroyedIsClosed
<1>. QED
  BY <1>2, <1>3, <1>4, <1>5

LEMMA LatestUnique ==
    ASSUME NEW j \in Children, NEW k \in Children, Latest(j), Latest(k)
    PROVE  j = k
<1>1. j \in Nat /\ k \in Nat
  BY Sides
<1>. QED
  BY <1>1 DEF Latest

(* Threads move where nothing depends on it, and children end.             *)
LEMMA AccountedKept ==
    ASSUME Typed, Accounted,
           UNCHANGED <<state_, exit_code_, start_event_, handles>>,
           \A k \in Children :
               /\ pc'[k] \in Listening <=> pc[k] \in Listening
               /\ pc'[k] = "start" <=> pc[k] = "start"
               /\ pc'[k] = "reaping" <=> pc[k] = "reaping"
               /\ pc'[k] = "none" <=> pc[k] = "none"
               /\ child'[k] = "none" <=> child[k] = "none"
               /\ child'[k] \in {"alive", "mute"} => child[k] \in {"alive", "mute"}
               /\ code'[k] = code[k] \/ child[k] \in {"alive", "mute"},
           pc'[creator] = pc[creator]
             \/ (pc[creator] \in Calling /\ pc'[creator] \in Calling)
    PROVE  Accounted'
<1>. USE DEF handles
<1>1. /\ \A k \in Children : Latest(k)' <=> Latest(k)
      /\ Quiet' <=> Quiet
      /\ Unheard' <=> Unheard
  BY DEF Latest, Quiet, Unheard, Calling
<1>2. InOrder' /\ Follows' /\ Attended' /\ Idle'
  BY <1>1 DEF Accounted, InOrder, Follows, Attended, Idle, Calling
<1>3. Created'
  <2>1. thread_handle_ \in Children \cup {Nobody}
    BY DEF Typed
  <2>. QED
    BY <1>1, <2>1 DEF Accounted, Created, Emptying, DestroyedIsClosed, Calling, Creating, Unheard
<1>4. Coded'
  <2>. SUFFICES ASSUME NEW k \in Children, Latest(k), pc[k] \notin Listening, ~Unheard
                PROVE  exit_code_ \in {code'[k], Garbage}
    BY <1>1 DEF Coded
  <2>1. child[k] \notin {"alive", "mute"}
    BY DEF Accounted, Attended
  <2>. QED
    BY <2>1 DEF Accounted, Coded
<1>. QED
  BY <1>2, <1>3, <1>4 DEF Accounted

(* A child that is created becomes the last one.                           *)
LEMMA NewLatest ==
    ASSUME Typed, InOrder, NEW k \in Children, child[k] = "none",
           \A j \in 1 .. k - 1 : child[j] # "none",
           child' = [child EXCEPT ![k] = "alive"]
    PROVE  InOrder' /\ Latest(k)'
<1>1. /\ \A j \in Children \ {k} : child'[j] = child[j]
      /\ child'[k] = "alive"
  BY DEF Typed
<1>2. \A j \in Children : j < k => child[j] # "none"
  BY WinProcessAssumption DEF Children
<1>3. \A j \in Children : j > k => child[j] = "none"
  BY DEF InOrder
<1>4. Latest(k)'
  BY <1>1, <1>3, Sides DEF Latest
<1>5. \A i, j \in Children : i < j /\ child'[j] # "none" => child'[i] # "none"
  <2>. SUFFICES ASSUME NEW i \in Children, NEW j \in Children, i < j, child'[j] # "none"
                PROVE  child'[i] # "none"
    OBVIOUS
  <2>1. i \in Nat /\ j \in Nat /\ k \in Nat
    BY Sides
  <2>2. CASE j = k
    BY <1>1, <1>2, <2>2
  <2>3. CASE j # k
    BY <1>1, <2>3 DEF InOrder
  <2>. QED
    BY <2>2, <2>3
<1>. QED
  BY <1>4, <1>5 DEF InOrder

(* The creator, or a listen thread, is the only one to close the object.   *)
LEMMA Closers ==
    ASSUME Typed, NEW t \in Threads, pc[t] \in DOMAIN Entry \cup DOMAIN Exit
    PROVE  \/ t = creator /\ pc[t] \notin {"leave", "reaping"}
           \/ t \in Children /\ pc[t] \in {"leave", "reaping"}
BY Sides, EntryOK, ExitOK
   DEF Typed, Threads, Calling, Creating, Destroying, ListenPCs, Listening, Through

LEMMA CloseAccounted ==
    ASSUME Typed, Accounted, NEW t \in Threads, Close(t)
    PROVE  Accounted'
<1>. USE Sides DEF object, children
<1>t. /\ pc \in [Threads -> Calling \cup Creating \cup Destroying \cup ListenPCs]
      /\ thread_handle_ \in Children \cup {Nobody}
  BY DEF Typed
<1>1. /\ pc[t] \in DOMAIN Entry
      /\ pc' = [pc EXCEPT ![t] = Entry[pc[t]]]
      /\ UNCHANGED <<state_, exit_code_, start_event_, process_handle_, child, code>>
      /\ \/ thread_handle_' = Nobody /\ pipes_' = Nobody
         \/ t \notin Children /\ thread_handle_ # Nobody /\ UNCHANGED <<thread_handle_, pipes_>>
  BY DEF Close
<1>2. pc'[t] = Entry[pc[t]] /\ \A u \in Threads \ {t} : pc'[u] = pc[u]
  BY <1>t, <1>1
<1>3. \A k \in Children : Latest(k)' <=> Latest(k)
  BY <1>1 DEF Latest
<1>4. CASE t = creator /\ pc[t] \notin {"leave", "reaping"}
  <2>1. \/ pc[creator] = "close" /\ pc'[creator] = "closing"
        \/ pc[creator] = "failed" /\ pc'[creator] = "failing"
        \/ pc[creator] = "destroying" /\ pc'[creator] = "clearing"
    BY <1>1, <1>2, <1>4, EntryOK
  <2>2. \A k \in Children : pc'[k] = pc[k]
    BY <1>2, <1>4
  <2>3. Quiet
    BY <2>1 DEF Accounted, Follows, Quiet, Calling
  <2>4. Quiet' /\ (Unheard' <=> Unheard)
    BY <2>1, <2>2, <2>3 DEF Quiet, Unheard
  <2>5. InOrder' /\ Attended' /\ Coded'
    BY <1>1, <1>3, <2>2, <2>4 DEF Accounted, InOrder, Attended, Coded
  <2>6. Follows'
    BY <2>4 DEF Follows, Quiet
  <2>7. Idle'
    BY <1>1, <2>1, <2>3, <2>4 DEF Accounted, Idle, Created, Unheard
  <2>8. Created'
    BY <1>t, <1>1, <1>3, <2>1, <2>2
       DEF Accounted, Created, Emptying, DestroyedIsClosed, Creating, Unheard
  <2>. QED
    BY <2>5, <2>6, <2>7, <2>8 DEF Accounted
<1>5. CASE t \in Children /\ pc[t] \in {"leave", "reaping"}
  <2>1. pc[t] = "leave" /\ pc'[t] = "reaping" /\ thread_handle_' = Nobody /\ pipes_' = Nobody
    BY <1>1, <1>2, <1>5, EntryOK
  <2>2. pc'[creator] = pc[creator]
    BY <1>2, <1>5
  <2>3. \A k \in Children : pc'[k] \in Listening <=> pc[k] \in Listening
    BY <1>2, <2>1 DEF Listening
  <2>4. Unheard' <=> Unheard
    BY <2>2 DEF Unheard
  <2>5. InOrder' /\ Attended' /\ Coded'
    BY <1>1, <1>2, <1>3, <2>1, <2>3, <2>4 DEF Accounted, InOrder, Attended, Coded
  <2>6. ~Quiet'
    BY <1>5, <2>1 DEF Quiet, Listening
  <2>7. Created'
    BY <1>1, <1>3, <2>1, <2>2 DEF Accounted, Created, Emptying, DestroyedIsClosed, Unheard
  <2>8. Follows'
    <3>. SUFFICES ASSUME NEW k \in Children, pc'[k] \in Listening
                  PROVE  /\ Latest(k)'
                         /\ process_handle_' = k
                         /\ pc'[creator] \in Calling \cup {"store", "mark", "starting"}
                         /\ pipes_' = (IF pc'[k] = "reaping" THEN Nobody ELSE k)
                         /\ pc'[k] = "reaping"
                         /\ start_event_'
                         /\ state_' = "RUNNING" \/ pc'[creator] \in {"store", "mark"}
      BY DEF Follows
    <3>1. k = t
      BY <1>5, <2>1, <2>3, LatestUnique DEF Accounted, Follows, Listening
    <3>. QED
      BY <1>1, <1>3, <2>1, <2>2, <3>1 DEF Accounted, Follows, Listening
  <2>. QED
    BY <2>5, <2>6, <2>7, <2>8 DEF Accounted, Idle
<1>. QED
  BY <1>1, <1>4, <1>5, Closers

LEMMA JoinAccounted ==
    ASSUME Typed, Accounted, NEW t \in Threads, Join(t)
    PROVE  Accounted'
<1>. USE Sides DEF object, children
<1>1. /\ pc[t] \in DOMAIN Exit /\ t \in Clients
      /\ thread_handle_' = Nobody /\ pipes_' = Nobody
      /\ UNCHANGED <<state_, exit_code_, start_event_, process_handle_, child, code, pc>>
  BY DEF Join, Joining
<1>2. t = creator /\ pc[creator] \in {"closing", "failing", "clearing"}
  BY <1>1, Closers, ExitOK
<1>3. Quiet
  BY <1>2 DEF Accounted, Follows, Quiet, Calling
<1>4. /\ Quiet' /\ (Unheard' <=> Unheard)
      /\ \A k \in Children : Latest(k)' <=> Latest(k)
  BY <1>1, <1>3 DEF Quiet, Unheard, Latest
<1>5. InOrder' /\ Follows' /\ Attended' /\ Idle' /\ Created' /\ Coded'
  BY <1>1, <1>3, <1>4
     DEF Accounted, InOrder, Follows, Attended, Idle, Created, Coded, Quiet, Emptying,
         DestroyedIsClosed
<1>. QED
  BY <1>5 DEF Accounted

LEMMA ReapedAccounted ==
    ASSUME Typed, Accounted, NEW t \in Threads, Reaped(t)
    PROVE  Accounted'
<1>. USE Sides DEF children
<1>t. /\ pc \in [Threads -> Calling \cup Creating \cup Destroying \cup ListenPCs]
      /\ thread_handle_ \in Children \cup {Nobody}
      /\ \A k \in Children : pc[k] \in ListenPCs
  BY DEF Typed
<1>1. /\ pc[t] \in DOMAIN Exit /\ ~Joining(t) /\ Ended(process_handle_)
      /\ pc' = [pc EXCEPT ![t] = Exit[pc[t]]]
      /\ exit_code_' = CodeOf(process_handle_)
      /\ process_handle_' = Nobody /\ start_event_' = FALSE /\ state_' = "STOPPED"
      /\ UNCHANGED <<thread_handle_, pipes_, child, code>>
  BY DEF Reaped
<1>2. pc'[t] = Exit[pc[t]] /\ \A u \in Threads \ {t} : pc'[u] = pc[u]
  BY <1>t, <1>1
<1>3. \A k \in Children : Latest(k)' <=> Latest(k)
  BY <1>1 DEF Latest
<1>4. InOrder'
  BY <1>1 DEF Accounted, InOrder
<1>5. ASSUME NEW k \in Children, process_handle_ = k
      PROVE  exit_code_' = code[k] /\ child[k] = "ended"
  BY <1>1, <1>5 DEF CodeOf, Ended
<1>6. ASSUME process_handle_ \in {Nobody, Garbage}
      PROVE  exit_code_' \in {exit_code_, Garbage}
  BY <1>1, <1>6 DEF CodeOf
<1>7. CASE t = creator /\ pc[t] \notin {"leave", "reaping"}
  <2>1. \/ pc[creator] = "closing" /\ pc'[creator] = "open"
        \/ pc[creator] = "failing" /\ pc'[creator] = "idle"
        \/ pc[creator] = "clearing" /\ pc'[creator] = "destroyed"
    BY <1>1, <1>2, <1>7, ExitOK
  <2>2. \A k \in Children : pc'[k] = pc[k]
    BY <1>2, <1>7
  <2>3. Quiet /\ Quiet' /\ ~Unheard'
    BY <2>1, <2>2 DEF Accounted, Follows, Quiet, Calling, Unheard
  <2>4. thread_handle_ = Nobody
    BY <1>1, <1>7 DEF Joining
  <2>5. Follows'
    BY <2>3 DEF Follows, Quiet
  <2>6. Attended'
    BY <1>1, <1>5, <2>3 DEF Accounted, Attended, Quiet
  <2>7. Idle'
    BY <1>1, <2>1, <2>3 DEF Accounted, Idle
  <2>8. Created'
    BY <1>1, <2>1, <2>3, <2>4 DEF Accounted, Created, Emptying, DestroyedIsClosed
  <2>9. Coded'
    <3>. SUFFICES ASSUME NEW k \in Children, Latest(k)
                  PROVE  exit_code_' \in {code[k], Garbage}
      BY <1>1, <1>3 DEF Coded
    <3>1. CASE Unheard
      BY <1>5, <3>1, LatestUnique DEF Accounted, Created
    <3>2. CASE ~Unheard
      BY <1>6, <2>3, <3>2 DEF Accounted, Idle, Coded, Quiet
    <3>. QED
      BY <3>1, <3>2
  <2>. QED
    BY <1>4, <2>5, <2>6, <2>7, <2>8, <2>9 DEF Accounted
<1>8. CASE t \in Children /\ pc[t] \in {"leave", "reaping"}
  <2>1. pc[t] = "reaping" /\ pc'[t] = "release" /\ pc'[creator] = pc[creator]
    BY <1>1, <1>2, <1>8, ExitOK
  <2>2. /\ Latest(t) /\ process_handle_ = t /\ pipes_ = Nobody
        /\ pc[creator] \in Calling \cup {"store", "mark", "starting"}
    BY <1>8, <2>1 DEF Accounted, Follows, Listening
  <2>3. ~Unheard' /\ ~Unheard
    BY <2>1, <2>2 DEF Unheard, Calling
  <2>4. ASSUME NEW k \in Children
        PROVE  pc[k] \in Listening => k = t
    BY <1>8, <2>2, LatestUnique DEF Accounted, Follows
  <2>5. Quiet'
    <3>. SUFFICES ASSUME NEW k \in Children
                  PROVE  pc'[k] \notin Listening
      BY DEF Quiet
    <3>. QED
      BY <1>2, <2>1, <2>4 DEF Listening
  <2>6. Follows'
    BY <2>5 DEF Follows, Quiet
  <2>7. Attended'
    BY <1>1, <1>5, <1>8, <2>2, <2>3, <2>4 DEF Accounted, Attended
  <2>8. Idle'
    BY <1>1, <2>2 DEF Idle
  <2>9. Created'
    <3>1. thread_handle_ # Nobody => pc'[thread_handle_] # "none"
      BY <1>t, <1>2, <2>1 DEF Accounted, Created
    <3>. QED
      BY <1>1, <2>1, <2>2, <2>3, <3>1 DEF Accounted, Created, Emptying, DestroyedIsClosed, Calling
  <2>10. Coded'
    BY <1>1, <1>3, <1>5, <1>8, <2>2, LatestUnique DEF Coded
  <2>. QED
    BY <1>4, <2>6, <2>7, <2>8, <2>9, <2>10 DEF Accounted
<1>. QED
  BY <1>1, <1>7, <1>8, Closers

LEMMA OpenAccounted ==
    ASSUME Typed, Emptied, Accounted, OpenFails \/ Open
    PROVE  Accounted'
<1>. USE Sides DEF object, children, Goes
<1>t. pc \in [Threads -> Calling \cup Creating \cup Destroying \cup ListenPCs]
  BY DEF Typed
<1>1. /\ pc[creator] = "open" /\ Quiet /\ ~Unheard
      /\ process_handle_ = Nobody /\ thread_handle_ = Nobody
      /\ ~start_event_ /\ state_ = "STOPPED"
  <2>1. pc[creator] = "open"
    BY DEF OpenFails, Open
  <2>2. Quiet
    BY <2>1 DEF Accounted, Follows, Quiet, Calling
  <2>. QED
    BY <2>1, <2>2 DEF Accounted, Idle, Created, Unheard
<1>2. CASE OpenFails
  <2>1. /\ pc' = [pc EXCEPT ![creator] = "idle"]
        /\ {pipes_', process_handle_'} \subseteq {Nobody, Garbage}
        /\ Nobody \in {pipes_', process_handle_'}
        /\ UNCHANGED <<state_, exit_code_, start_event_, thread_handle_, child, code>>
    BY <1>1, <1>2 DEF OpenFails
  <2>2. /\ pc'[creator] = "idle" /\ \A k \in Children : pc'[k] = pc[k]
        /\ \A k \in Children : Latest(k)' <=> Latest(k)
    BY <1>t, <2>1 DEF Latest
  <2>3. Quiet' /\ ~Unheard'
    BY <1>1, <2>2 DEF Quiet, Unheard
  <2>4. InOrder' /\ Attended' /\ Coded'
    BY <1>1, <2>1, <2>2, <2>3 DEF Accounted, InOrder, Attended, Coded, Quiet
  <2>5. Follows' /\ Idle' /\ Created'
    BY <1>1, <2>1, <2>2, <2>3
       DEF Follows, Idle, Created, Emptying, DestroyedIsClosed, Quiet, Creating
  <2>. QED
    BY <2>4, <2>5 DEF Accounted
<1>3. CASE Open
  <2>1. PICK k \in Children :
            /\ child[k] = "none"
            /\ \A j \in 1 .. k - 1 : child[j] # "none"
            /\ child' = [child EXCEPT ![k] = "alive"]
            /\ process_handle_' = k
            /\ pipes_' = k
            /\ \/ pc' = [pc EXCEPT ![creator] = "store", ![k] = "start"]
               \/ pc' = [pc EXCEPT ![creator] = "failed"]
            /\ UNCHANGED <<state_, exit_code_, start_event_, thread_handle_, code>>
    BY <1>3 DEF Open
  <2>2. InOrder' /\ Latest(k)'
    BY <2>1, NewLatest DEF Accounted
  <2>3. \A j \in Children : Latest(j)' => j = k
    <3>. SUFFICES ASSUME NEW j \in Children, Latest(j)', j # k
                  PROVE  FALSE
      OBVIOUS
    <3>1. j \in Nat /\ k \in Nat
      OBVIOUS
    <3>. QED
      BY <2>2, <3>1 DEF Latest
  <2>4. \A j \in Children \ {k} : pc'[j] = pc[j] /\ child'[j] = child[j]
    BY <1>t, <2>1 DEF Typed
  <2>5. \A j \in Children \ {k} : child[j] \notin {"alive", "mute"}
    BY <1>1 DEF Accounted, Attended, Quiet
  <2>6. pc[k] = "none"
    BY <2>1 DEF Emptied
  <2>7. CASE pc' = [pc EXCEPT ![creator] = "store", ![k] = "start"]
    <3>1. pc'[k] = "start" /\ pc'[creator] = "store" /\ ~Unheard'
      BY <1>t, <2>7 DEF Unheard
    <3>2. \A j \in Children : pc'[j] \in Listening => j = k
      BY <1>1, <2>4 DEF Quiet
    <3>3. Follows'
      BY <1>1, <2>1, <2>2, <3>1, <3>2 DEF Follows
    <3>4. Attended' /\ Coded'
      BY <2>3, <2>4, <2>5, <3>1 DEF Attended, Coded, Listening
    <3>5. Idle'
      BY <3>1 DEF Idle, Quiet, Listening
    <3>6. Created'
      BY <1>1, <2>1, <3>1 DEF Created, Emptying, DestroyedIsClosed
    <3>. QED
      BY <2>2, <3>3, <3>4, <3>5, <3>6 DEF Accounted
  <2>8. CASE pc' = [pc EXCEPT ![creator] = "failed"]
    <3>1. pc'[creator] = "failed" /\ Unheard' /\ \A j \in Children : pc'[j] = pc[j]
      BY <1>t, <2>8 DEF Unheard
    <3>2. Quiet'
      BY <1>1, <3>1 DEF Quiet
    <3>3. Follows' /\ Idle'
      BY <1>1, <2>1, <3>1, <3>2 DEF Follows, Idle, Quiet
    <3>4. Attended' /\ Coded'
      BY <2>1, <2>4, <2>5, <2>6, <3>1 DEF Attended, Coded
    <3>5. Created'
      BY <1>1, <2>1, <2>2, <3>1 DEF Created, Emptying, DestroyedIsClosed
    <3>. QED
      BY <2>2, <3>3, <3>4, <3>5 DEF Accounted
  <2>. QED
    BY <2>1, <2>7, <2>8
<1>. QED
  BY <1>2, <1>3

LEMMA StoreAccounted ==
    ASSUME Typed, Emptied, Accounted, Store
    PROVE  Accounted'
<1>. USE Sides DEF object, children, Goes
<1>t. pc \in [Threads -> Calling \cup Creating \cup Destroying \cup ListenPCs]
  BY DEF Typed
<1>1. PICK n \in Children : Newest(n) /\ thread_handle_' = n
  BY DEF Store
<1>2. /\ pc[creator] = "store" /\ pc' = [pc EXCEPT ![creator] = "mark"]
      /\ UNCHANGED <<state_, exit_code_, start_event_, process_handle_, pipes_, child, code>>
  BY DEF Store
<1>3. /\ pc'[creator] = "mark" /\ \A k \in Children : pc'[k] = pc[k]
      /\ \A k \in Children : Latest(k)' <=> Latest(k)
      /\ Quiet' <=> Quiet
  BY <1>t, <1>2 DEF Latest, Quiet
<1>4. ~Unheard /\ ~Unheard'
  BY <1>2, <1>3 DEF Unheard
<1>5. ASSUME NEW k \in Children, pc[k] \in Listening
      PROVE  k = n
  <2>1. Latest(k) /\ pc[k] # "none"
    BY <1>5 DEF Accounted, Follows, Listening
  <2>2. ~(k > n)
    BY <1>1, <2>1 DEF Newest
  <2>3. ~(n > k)
    BY <1>1, <2>1 DEF Newest, Latest, Emptied
  <2>4. n \in Nat /\ k \in Nat
    OBVIOUS
  <2>. QED
    BY <2>2, <2>3, <2>4
<1>6. Follows'
  <2>. SUFFICES ASSUME NEW k \in Children, pc[k] \in Listening
                PROVE  /\ Latest(k)
                       /\ process_handle_ = k
                       /\ pipes_ = (IF pc[k] = "reaping" THEN Nobody ELSE k)
                       /\ thread_handle_' = k
                       /\ start_event_ <=> pc[k] # "start"
    BY <1>2, <1>3 DEF Follows
  <2>. QED
    BY <1>1, <1>5 DEF Accounted, Follows
<1>7. InOrder' /\ Attended' /\ Idle' /\ Coded'
  BY <1>2, <1>3, <1>4 DEF Accounted, InOrder, Attended, Idle, Coded
<1>8. Created'
  BY <1>1, <1>2, <1>3, <1>4 DEF Accounted, Created, Emptying, DestroyedIsClosed, Creating, Newest
<1>. QED
  BY <1>6, <1>7, <1>8 DEF Accounted

(* create() goes on, or begins, and the destructor begins.                 *)
LEMMA CreatorAccounted ==
    ASSUME Typed, Guarded, Accounted, Mark \/ Started \/ CallCreate \/ Destroy
    PROVE  Accounted'
<1>. USE Sides DEF object, handles, children, Goes
<1>t. /\ pc \in [Threads -> Calling \cup Creating \cup Destroying \cup ListenPCs]
      /\ state_ \in {"STOPPED", "RUNNING"}
  BY DEF Typed
<1>1. /\ \/ pc[creator] = "mark" /\ pc'[creator] = "starting" /\ state_' = "RUNNING"
         \/ pc[creator] = "starting" /\ pc'[creator] = "idle" /\ start_event_ /\ state_' = state_
         \/ /\ pc[creator] = "idle" /\ pc'[creator] = "close"
            /\ state_ = "STOPPED" /\ state_' = state_
         \/ /\ pc[creator] = "idle" /\ pc'[creator] = "destroying"
            /\ mutex_exec_ = Nobody /\ state_' = state_
      /\ \A k \in Children : pc'[k] = pc[k]
      /\ UNCHANGED <<exit_code_, start_event_, handles, child, code>>
  BY <1>t DEF Mark, Started, CallCreate, Destroy
<1>2. /\ \A k \in Children : Latest(k)' <=> Latest(k)
      /\ Quiet' <=> Quiet
      /\ ~Unheard /\ ~Unheard'
  BY <1>1 DEF Latest, Quiet, Unheard
<1>3. InOrder' /\ Attended' /\ Coded'
  BY <1>1, <1>2 DEF Accounted, InOrder, Attended, Coded
<1>4. Created'
  <2>1. pc'[creator] \in Creating \ {"starting"} => state_' = "STOPPED"
    BY <1>1 DEF Creating
  <2>2. thread_handle_ # Nobody => pc'[thread_handle_] # "none"
    BY <1>1 DEF Accounted, Created, Typed
  <2>3. pc'[creator] \notin {"open", "store"}
    BY <1>1
  <2>. QED
    BY <1>1, <1>2, <2>1, <2>2, <2>3 DEF Created, Emptying, DestroyedIsClosed, Unheard
<1>5. pc'[creator] \in {"close", "destroying"} => Quiet
  <2>1. CASE pc'[creator] = "close"
    BY <1>1, <2>1 DEF Accounted, Follows, Quiet
  <2>2. CASE pc'[creator] = "destroying"
    BY <1>1, <2>2 DEF Accounted, Follows, Quiet, Guarded, Listening
  <2>. QED
    BY <2>1, <2>2
<1>6. Follows'
  <2>1. CASE Quiet
    BY <1>2, <2>1 DEF Follows, Quiet
  <2>2. CASE ~Quiet
    BY <1>1, <1>5, <2>2 DEF Accounted, Follows, Calling, Latest
  <2>. QED
    BY <2>1, <2>2
<1>7. Idle'
  BY <1>1, <1>2 DEF Accounted, Idle, Created, Creating
<1>. QED
  BY <1>3, <1>4, <1>6, <1>7 DEF Accounted

LEMMA ListenAccounted ==
    ASSUME Typed, Accounted, NEW k \in Children, ListenStart(k)
    PROVE  Accounted'
<1>. USE Sides DEF handles, children, Goes
<1>t. pc \in [Threads -> Calling \cup Creating \cup Destroying \cup ListenPCs]
  BY DEF Typed
<1>1. /\ pc[k] = "start" /\ pc'[k] = "loop" /\ start_event_' = TRUE
      /\ \A j \in Threads \ {k} : pc'[j] = pc[j]
      /\ pc'[creator] = pc[creator]
      /\ UNCHANGED <<state_, exit_code_, handles, child, code>>
  BY <1>t DEF ListenStart
<1>2. /\ \A j \in Children : Latest(j)' <=> Latest(j)
      /\ \A j \in Children : pc'[j] \in Listening <=> pc[j] \in Listening
      /\ Unheard' <=> Unheard
      /\ ~Quiet'
  BY <1>1 DEF Latest, Quiet, Unheard, Listening
<1>3. \A j \in Children : pc[j] \in Listening => j = k
  BY <1>1, LatestUnique DEF Accounted, Follows, Listening
<1>4. Follows'
  BY <1>1, <1>2, <1>3 DEF Accounted, Follows, Listening
<1>5. InOrder' /\ Attended' /\ Coded' /\ Idle'
  BY <1>1, <1>2 DEF Accounted, InOrder, Attended, Coded, Idle
<1>6. Created'
  <2>1. thread_handle_ # Nobody => pc'[thread_handle_] # "none"
    BY <1>1 DEF Accounted, Created, Typed
  <2>. QED
    BY <1>1, <1>2, <2>1 DEF Accounted, Created, Emptying, DestroyedIsClosed, Unheard
<1>. QED
  BY <1>4, <1>5, <1>6 DEF Accounted

(* wait() and kill(), what a listen thread does beside close(), and what a *)
(* child does.                                                             *)
LEMMA OthersAccounted ==
    ASSUME Typed, Emptied, Accounted,
           \/ \E c \in Clients :
                 \/ WaitRefused(c) \/ Wait(c) \/ WaitFails(c) \/ Joined(c)
                 \/ WaitReturns(c) \/ Kill(c) \/ CallWait(c) \/ CallKill(c)
           \/ \E k \in Children :
                 \/ ReadOutput(k) \/ PollAgain(k) \/ ProcessEnded(k) \/ Release(k)
                 \/ EventFinished(k)
                 \/ ChildWrites(k) \/ ChildCloses(k) \/ ChildExits(k)
    PROVE  Accounted'
<1>. USE Sides DEF mutexes, object, handles, children, Goes
<1>t. /\ pc \in [Threads -> Calling \cup Creating \cup Destroying \cup ListenPCs]
      /\ child \in [Children -> {"none", "alive", "mute", "ended"}]
      /\ code \in [Children -> Codes]
      /\ \A k \in Children : pc[k] \in ListenPCs
  BY DEF Typed
<1>1. ASSUME NEW c \in Clients,
             \/ WaitRefused(c) \/ Wait(c) \/ WaitFails(c) \/ Joined(c)
             \/ WaitReturns(c) \/ Kill(c) \/ CallWait(c) \/ CallKill(c)
      PROVE  Accounted'
  <2>1. /\ pc[c] \in Calling /\ pc'[c] \in Calling
        /\ \A t \in Threads \ {c} : pc'[t] = pc[t]
        /\ UNCHANGED <<state_, exit_code_, start_event_, handles, code>>
    BY <1>1, <1>t DEF WaitRefused, Wait, WaitFails, Joined, WaitReturns, Kill,
                      CallWait, CallKill, Calling
  <2>2. \A k \in Children :
           /\ child'[k] = "none" <=> child[k] = "none"
           /\ child'[k] \in {"alive", "mute"} => child[k] \in {"alive", "mute"}
    <3>1. CASE Kill(c)
      <4>1. CASE UNCHANGED child
        BY <4>1
      <4>2. CASE /\ state_ = "RUNNING" /\ process_handle_ = handle[c] /\ ~Ended(handle[c])
                 /\ child' = [child EXCEPT ![handle[c]] = "ended"]
        <5>1. process_handle_ \in Children
          BY <4>2 DEF Ended
        <5>2. Latest(process_handle_)
          <6>1. CASE Quiet
            BY <4>2, <5>1, <6>1 DEF Accounted, Idle, Created
          <6>2. CASE ~Quiet
            BY <6>2 DEF Accounted, Follows, Quiet
          <6>. QED
            BY <6>1, <6>2
        <5>. QED
          BY <1>t, <4>2, <5>1, <5>2 DEF Latest
      <4>. QED
        BY <3>1, <4>1, <4>2 DEF Kill
    <3>2. CASE ~Kill(c)
      BY <1>1, <3>2 DEF WaitRefused, Wait, WaitFails, Joined, WaitReturns, CallWait, CallKill
    <3>. QED
      BY <3>1, <3>2
  <2>3. \A k \in Children : pc'[k] = pc[k]
    BY <2>1
  <2>4. pc'[creator] = pc[creator] \/ (pc[creator] \in Calling /\ pc'[creator] \in Calling)
    BY <2>1
  <2>. QED
    BY <2>1, <2>2, <2>3, <2>4, AccountedKept
<1>2. ASSUME NEW k \in Children,
             \/ ReadOutput(k) \/ PollAgain(k) \/ ProcessEnded(k) \/ Release(k)
             \/ EventFinished(k)
      PROVE  Accounted'
  <2>1. /\ UNCHANGED <<state_, exit_code_, start_event_, handles, child, code>>
        /\ \A t \in Threads \ {k} : pc'[t] = pc[t]
        /\ pc[k] \in {"loop", "poll", "release", "finishing"}
        /\ pc[k] \in {"loop", "poll"} => pc'[k] \in {"loop", "poll", "leave"}
        /\ pc[k] \in {"release", "finishing"} => pc'[k] \in {"finishing", "ended"}
    BY <1>2, <1>t DEF ReadOutput, PollAgain, ProcessEnded, Release, EventFinished
  <2>2. \A j \in Children :
           /\ pc'[j] \in Listening <=> pc[j] \in Listening
           /\ pc'[j] = "start" <=> pc[j] = "start"
           /\ pc'[j] = "reaping" <=> pc[j] = "reaping"
           /\ pc'[j] = "none" <=> pc[j] = "none"
    BY <2>1 DEF Listening
  <2>3. pc'[creator] = pc[creator]
    BY <2>1
  <2>. QED
    BY <2>1, <2>2, <2>3, AccountedKept
<1>3. ASSUME NEW k \in Children, ChildWrites(k) \/ ChildCloses(k) \/ ChildExits(k)
      PROVE  Accounted'
  <2>1. /\ UNCHANGED <<state_, exit_code_, start_event_, handles, pc>>
        /\ child[k] \in {"alive", "mute"} /\ child'[k] # "none"
        /\ \A j \in Children \ {k} : child'[j] = child[j] /\ code'[j] = code[j]
    BY <1>3, <1>t DEF ChildWrites, ChildCloses, ChildExits
  <2>2. \A j \in Children :
           /\ child'[j] = "none" <=> child[j] = "none"
           /\ child'[j] \in {"alive", "mute"} => child[j] \in {"alive", "mute"}
           /\ code'[j] = code[j] \/ child[j] \in {"alive", "mute"}
    BY <2>1
  <2>. QED
    BY <2>1, <2>2, AccountedKept
<1>. QED
  BY <1>1, <1>2, <1>3

LEMMA StepAccounted ==
    Typed /\ Emptied /\ Guarded /\ Accounted /\ [Next]_vars => Accounted'
<1>. SUFFICES ASSUME Typed, Emptied, Guarded, Accounted, [Next]_vars
              PROVE  Accounted'
  OBVIOUS
<1>1. ASSUME NEW t \in Threads, Step(t)
      PROVE  Accounted'
  <2>1. CASE Close(t) \/ Join(t) \/ Reaped(t)
    BY <2>1, CloseAccounted, JoinAccounted, ReapedAccounted
  <2>2. CASE OpenFails \/ Open
    BY <2>2, OpenAccounted
  <2>3. CASE Store
    BY <2>3, StoreAccounted
  <2>4. CASE Mark \/ Started
    BY <2>4, CreatorAccounted
  <2>5. ASSUME t \in Clients,
               \/ WaitRefused(t) \/ Wait(t) \/ WaitFails(t)
               \/ Joined(t) \/ WaitReturns(t) \/ Kill(t)
        PROVE  Accounted'
    BY <2>5, OthersAccounted
  <2>6. ASSUME t \in Children, ListenStart(t)
        PROVE  Accounted'
    BY <2>6, ListenAccounted
  <2>7. ASSUME t \in Children,
               \/ ReadOutput(t) \/ PollAgain(t) \/ ProcessEnded(t) \/ Release(t)
               \/ EventFinished(t)
        PROVE  Accounted'
    BY <2>7, OthersAccounted
  <2>. QED
    BY <1>1, <2>1, <2>2, <2>3, <2>4, <2>5, <2>6, <2>7 DEF Step
<1>2. CASE CallCreate \/ Destroy
  BY <1>2, CreatorAccounted
<1>3. ASSUME NEW c \in Clients, CallWait(c) \/ CallKill(c)
      PROVE  Accounted'
  BY <1>3, OthersAccounted
<1>4. ASSUME NEW k \in Children, ChildWrites(k) \/ ChildCloses(k) \/ ChildExits(k)
      PROVE  Accounted'
  BY <1>4, OthersAccounted
<1>5. CASE UNCHANGED vars
  BY <1>5, AccountedKept DEF vars, object, handles, children
<1>. QED
  BY <1>1, <1>2, <1>3, <1>4, <1>5 DEF Next

LEMMA SpecInvariant == Spec => [](Typed /\ Emptied /\ Guarded /\ Accounted)
BY InitAccounted, StepTyped, StepEmptied, StepGuarded, StepAccounted, PTL DEF Spec

(***************************************************************************)
(* What a child has written is read before its pipe is closed.             *)
(***************************************************************************)
THEOREM ReadToTheEnd == Spec => []OutputRead
<1>1. Emptied => OutputRead
  BY DEF Emptied, OutputRead
<1>. QED
  BY <1>1, SpecInvariant, PTL

(***************************************************************************)
(* state_, the handles and the exit code follow the child: one that runs   *)
(* can be waited for and killed, and the code of one that has ended is     *)
(* there, whoever waits, kills and destroys.                               *)
(***************************************************************************)
THEOREM FollowsChild == Spec => []ObjectFollowsChild
<1>. USE Sides
<1>1. Typed /\ Guarded /\ Accounted => AliveIsRunning
  <2>. SUFFICES ASSUME Typed, Guarded, Accounted, ~InCreate, NEW k \in Children,
                       child[k] \in {"alive", "mute"}
                PROVE  /\ state_ = "RUNNING"
                       /\ process_handle_ = k
                       /\ (thread_handle_ = k /\ pipes_ = k) \/ mutex_ = k
    BY DEF AliveIsRunning
  <2>1. pc[creator] \notin {"store", "mark", "starting", "failed", "failing"}
    BY DEF InCreate
  <2>2. pc[k] \in Listening
    BY <2>1 DEF Accounted, Attended, Unheard
  <2>3. pc[k] = "reaping" => mutex_ = k
    BY ExitOK DEF Guarded
  <2>. QED
    BY <2>1, <2>2, <2>3 DEF Accounted, Follows
<1>2. Typed /\ Guarded /\ Accounted => StoppedIsClosed
  <2>. SUFFICES ASSUME Typed, Guarded, Accounted, ~InCreate, state_ = "STOPPED"
                PROVE  /\ thread_handle_ # Nobody => pc[thread_handle_] \in Through
                       /\ {pipes_, process_handle_} \subseteq {Nobody, Garbage}
                       /\ Nobody \in {pipes_, process_handle_}
                       /\ \A k \in Children :
                             /\ child[k] # "none"
                             /\ \A j \in Children : j > k => child[j] = "none"
                             => exit_code_ \in {code[k], Garbage}
    BY DEF StoppedIsClosed
  <2>1. pc[creator] \notin {"store", "mark", "starting", "failed", "failing"}
    BY DEF InCreate
  <2>2. Quiet
    BY <2>1 DEF Accounted, Follows, Quiet
  <2>3. ~Unheard
    BY <2>1 DEF Unheard
  <2>4. thread_handle_ # Nobody => pc[thread_handle_] \in Through
    BY <2>2 DEF Typed, Accounted, Created, Quiet, ListenPCs
  <2>. QED
    BY <2>1, <2>2, <2>3, <2>4 DEF Accounted, Idle, Coded, Latest, Quiet
<1>3. Typed /\ Guarded /\ Accounted => ObjectFollowsChild
  BY <1>1, <1>2 DEF ObjectFollowsChild, Accounted, Created
<1>. QED
  BY <1>3, SpecInvariant, PTL

-----------------------------------------------------------------------------
(* A client that has joined a listen thread finds it ended.                *)
Waited == \A c \in Clients : pc[c] = "checking" => pc[handle[c]] = "ended"

(* Nothing comes after the end of a listen thread.                         *)
LEMMA EndedStays ==
    ASSUME Typed, Emptied, [Next]_vars, NEW k \in Children, pc[k] = "ended"
    PROVE  pc'[k] = "ended"
<1>. USE Sides, EntryOK, ExitOK DEF Goes
<1>t. pc \in [Threads -> Calling \cup Creating \cup Destroying \cup ListenPCs]
  BY DEF Typed
<1>1. ASSUME NEW t \in Threads, Step(t)
      PROVE  pc'[k] = "ended"
  <2>1. CASE Open
    <3>1. child[k] # "none"
      BY DEF Emptied
    <3>. QED
      BY <1>t, <2>1, <3>1 DEF Open
  <2>2. CASE ~Open
    BY <1>t, <1>1, <2>2
       DEF Step, Close, Join, Reaped, OpenFails, Store, Mark, Started, WaitRefused, Wait,
           WaitFails, Joined, WaitReturns, Kill, ListenStart, ReadOutput, PollAgain,
           ProcessEnded, Release, EventFinished
  <2>. QED
    BY <2>1, <2>2
<1>2. CASE \/ CallCreate \/ Destroy
           \/ \E c \in Clients : CallWait(c) \/ CallKill(c)
           \/ \E j \in Children : ChildWrites(j) \/ ChildCloses(j) \/ ChildExits(j)
  BY <1>t, <1>2 DEF CallCreate, Destroy, CallWait, CallKill, ChildWrites, ChildCloses,
                    ChildExits
<1>. QED
  BY <1>1, <1>2 DEF Next, vars

LEMMA StepWaited == Typed /\ Emptied /\ Waited /\ [Next]_vars => Waited'
<1>. SUFFICES ASSUME Typed, Emptied, Waited, [Next]_vars,
                     NEW c \in Clients, pc'[c] = "checking"
              PROVE  pc'[handle'[c]] = "ended"
  BY DEF Waited
<1>. USE Sides, EntryOK, ExitOK DEF Goes
<1>t. /\ pc \in [Threads -> Calling \cup Creating \cup Destroying \cup ListenPCs]
      /\ handle \in [Clients -> Handles]
      /\ \A d \in Clients : pc[d] \in {"waiting", "checking"} => handle[d] \in Children
  BY DEF Typed
<1>1. \/ pc[c] = "checking" /\ handle'[c] = handle[c]
      \/ pc[c] = "waiting" /\ handle'[c] = handle[c] /\ pc[handle[c]] = "ended"
  <2>1. ASSUME NEW t \in Threads, Step(t), ~(t \in Clients /\ (Joined(t) \/ WaitRefused(t)
                 \/ WaitFails(t) \/ WaitReturns(t) \/ Kill(t)))
        PROVE  pc[c] = "checking" /\ handle'[c] = handle[c]
    BY <1>t, <2>1
       DEF Step, Close, Join, Reaped, OpenFails, Open, Store, Mark, Started, Wait,
           ListenStart, ReadOutput, PollAgain, ProcessEnded, Release, EventFinished
  <2>2. ASSUME NEW d \in Clients, Joined(d)
        PROVE  \/ pc[c] = "checking" /\ handle'[c] = handle[c]
               \/ pc[c] = "waiting" /\ handle'[c] = handle[c] /\ pc[handle[c]] = "ended"
    BY <1>t, <2>2 DEF Joined
  <2>3. ASSUME NEW d \in Clients,
               \/ WaitRefused(d) \/ WaitFails(d) \/ WaitReturns(d) \/ Kill(d)
               \/ CallWait(d) \/ CallKill(d)
        PROVE  pc[c] = "checking" /\ handle'[c] = handle[c]
    BY <1>t, <2>3 DEF WaitRefused, WaitFails, WaitReturns, Kill, CallWait, CallKill
  <2>4. CASE \/ CallCreate \/ Destroy
             \/ \E j \in Children : ChildWrites(j) \/ ChildCloses(j) \/ ChildExits(j)
             \/ UNCHANGED vars
    BY <1>t, <2>4 DEF CallCreate, Destroy, ChildWrites, ChildCloses, ChildExits, vars
  <2>. QED
    BY <2>1, <2>2, <2>3, <2>4 DEF Next
<1>2. handle[c] \in Children /\ pc[handle[c]] = "ended"
  BY <1>t, <1>1 DEF Waited
<1>. QED
  BY <1>1, <1>2, EndedStays

(***************************************************************************)
(* wait() returns true after the end of the process it was called for and  *)
(* of its listen thread, though it asks for the state of the object, which *)
(* may be that of another process by then.                                 *)
(***************************************************************************)
THEOREM WaitAwaitsEnd == Spec => WaitedForEnd
<1>1. Init => Waited
  BY DEF Init, Waited, Threads
<1>2. ASSUME Typed, Emptied, Accounted, Waited
      PROVE  [\A c \in Clients :
                 pc[c] = "checking" /\ pc'[c] = "idle"
                 => child[handle[c]] = "ended" /\ pc[handle[c]] = "ended"]_vars
  <2>. SUFFICES ASSUME NEW c \in Clients, pc[c] = "checking"
                PROVE  child[handle[c]] = "ended" /\ pc[handle[c]] = "ended"
    OBVIOUS
  <2>1. handle[c] \in Children /\ pc[handle[c]] = "ended"
    BY <1>2 DEF Typed, Waited
  <2>2. child[handle[c]] # "none"
    BY <1>2, <2>1 DEF Emptied
  <2>3. child[handle[c]] \notin {"alive", "mute"}
    BY <1>2, <2>1 DEF Accounted, Attended, Listening
  <2>. QED
    BY <1>2, <2>1, <2>2, <2>3 DEF Typed
<1>3. Spec => []Waited
  <2>1. Typed /\ Emptied /\ Waited /\ [Next]_vars => Waited'
    BY StepWaited
  <2>. QED
    BY <1>1, <2>1, SpecInvariant, PTL DEF Spec
<1>4. Typed /\ Emptied /\ Accounted /\ Waited
        => [\A c \in Clients :
               pc[c] = "checking" /\ pc'[c] = "idle"
               => child[handle[c]] = "ended" /\ pc[handle[c]] = "ended"]_vars
  BY <1>2
<1>. QED
  BY <1>3, <1>4, SpecInvariant, PTL DEF WaitedForEnd
==============================================================================
