--------------------------- MODULE WinThreadProofs ---------------------------
(***************************************************************************)
(* Theorems about WinThread, for any number of clients and native threads, *)
(* whatever combination of start(), wait(), time outs and kill() they use: *)
(* running() is accurate, and as long as no signal_all() has counted a     *)
(* waiter that left because its time was up, the semaphore and the event   *)
(* are as they should be and nobody is woken early.                        *)
(***************************************************************************)
EXTENDS WinThread, FiniteSetTheorems, TLAPS

Woken == {c \in Clients : pc[c] = "woken"}

Counted == waiters_ = Cardinality(Waiters)

(* Who holds mutex_ between two steps, and what broadcast_ tells of it. *)
Owned ==
    /\ \A t \in Threads : mutex_ = t <=> pc[t] \in {"starting", "signalling"}
    /\ broadcast_ <=> \E t \in Threads : pc[t] = "signalling"

(* While mutex_ is held running_ has not caught up with the native thread. *)
Accurate ==
    /\ RunningIsAccurate
    /\ \A c \in Clients : pc[c] = "starting" => ~running_ /\ Alive = {thread_}
    /\ \A t \in Threads : pc[t] = "signalling" => Alive = {t} \cap Natives

(* signal_all() hands out a permit to each waiter that is counted, and is  *)
(* notified when the last of them has left.                                *)
Permits ==
    ~miscounted =>
        IF broadcast_
        THEN /\ sema_ + Cardinality(Woken) = waiters_
             /\ waiters_done_ <=> waiters_ = 0
        ELSE sema_ = 0 /\ ~waiters_done_ /\ Woken = {}

IInv == TypeOK /\ Counted /\ Owned /\ Accurate /\ Permits

LEMMA ClientMoves ==
    ASSUME TypeOK, NEW c \in Clients, NEW l \in PCs \ {"begin", "running", "exiting"},
           pc' = [pc EXCEPT ![c] = l]
    PROVE  /\ pc' \in [Threads -> PCs]
           /\ pc'[c] = l
           /\ \A t \in Threads \ {c} : pc'[t] = pc[t]
           /\ Alive' = Alive
           /\ Waiters' = IF l \in {"blocked", "woken", "expired"}
                         THEN Waiters \cup {c} ELSE Waiters \ {c}
           /\ Woken' = IF l = "woken" THEN Woken \cup {c} ELSE Woken \ {c}
<1>1. c \in Threads /\ c \notin Natives
  BY WinThreadAssumption DEF Threads
<1>2. /\ pc' \in [Threads -> PCs]
      /\ pc'[c] = l
      /\ \A t \in Threads \ {c} : pc'[t] = pc[t]
  BY <1>1 DEF TypeOK
<1>3. Alive' = Alive
  BY <1>1, <1>2 DEF Alive, Threads
<1>4. \A d \in Clients : pc'[d] = IF d = c THEN l ELSE pc[d]
  BY <1>2 DEF Threads
<1>. QED
  BY <1>2, <1>3, <1>4 DEF Waiters, Woken

LEMMA NativeMoves ==
    ASSUME TypeOK, NEW n \in Natives, NEW l \in PCs, pc' = [pc EXCEPT ![n] = l]
    PROVE  /\ pc' \in [Threads -> PCs]
           /\ pc'[n] = l
           /\ \A t \in Threads \ {n} : pc'[t] = pc[t]
           /\ Alive' = IF l \in {"begin", "running", "exiting", "signalling"}
                       THEN Alive \cup {n} ELSE Alive \ {n}
           /\ Waiters' = Waiters
           /\ Woken' = Woken
<1>1. n \in Threads /\ n \notin Clients
  BY WinThreadAssumption DEF Threads
<1>2. /\ pc' \in [Threads -> PCs]
      /\ pc'[n] = l
      /\ \A t \in Threads \ {n} : pc'[t] = pc[t]
  BY <1>1 DEF TypeOK
<1>3. Waiters' = Waiters /\ Woken' = Woken
  BY <1>1, <1>2 DEF Waiters, Woken, Threads
<1>4. \A m \in Natives : pc'[m] = IF m = n THEN l ELSE pc[m]
  BY <1>2 DEF Threads
<1>. QED
  BY <1>2, <1>3, <1>4 DEF Alive

LEMMA FiniteCounts ==
    /\ IsFiniteSet(Waiters) /\ Cardinality(Waiters) \in Nat
    /\ IsFiniteSet(Woken) /\ Cardinality(Woken) \in Nat
BY WinThreadAssumption, FS_Subset, FS_CardinalityType DEF Waiters, Woken

(* No other thread holds mutex_, and there is no signal_all() going on, at *)
(* a step that takes mutex_.                                               *)
LEMMA NobodyHolds ==
    ASSUME IInv, mutex_ = Nobody
    PROVE  /\ \A t \in Threads : pc[t] \notin {"starting", "signalling"}
           /\ ~broadcast_
BY WinThreadAssumption DEF IInv, Owned, Threads

(* The steps of a client that leave mutex_, running_ and Alive alone.      *)
LEMMA QuietStep ==
    ASSUME IInv, NEW c \in Clients, NEW l \in PCs,
           pc[c] \notin {"starting", "signalling"},
           l \notin {"begin", "running", "exiting", "starting", "signalling"},
           pc' = [pc EXCEPT ![c] = l],
           UNCHANGED <<mutex_, running_, thread_, broadcast_>>
    PROVE  Owned' /\ Accurate'
<1>1. /\ pc'[c] = l /\ Alive' = Alive
      /\ \A t \in Threads \ {c} : pc'[t] = pc[t]
      /\ c \in Threads
  BY ClientMoves DEF IInv, Threads
<1>. QED
  BY <1>1 DEF IInv, Owned, Accurate, RunningIsAccurate, Threads

LEMMA StartOK == ASSUME IInv, NEW c \in Clients, Start(c) PROVE IInv'
<1>1. PICK n \in Natives : /\ pc[n] = "none"
                           /\ thread_' = n
                           /\ pc' = [pc EXCEPT ![c] = "starting", ![n] = "begin"]
  BY DEF Start
<1>2. /\ pc[c] = "idle" /\ mutex_ = Nobody /\ mutex_' = c /\ ~running_
      /\ UNCHANGED <<running_, start_event_, waiters_, broadcast_, sema_, waiters_done_, miscounted>>
  BY DEF Start, threadDone
<1>3. /\ c \in Threads /\ n \in Threads /\ c \notin Natives /\ n \notin Clients /\ c # n
      /\ Nobody \notin Threads
  BY WinThreadAssumption DEF Threads
<1>4. /\ pc' \in [Threads -> PCs] /\ pc'[c] = "starting" /\ pc'[n] = "begin"
      /\ \A t \in Threads \ {c, n} : pc'[t] = pc[t]
  BY <1>1, <1>3 DEF IInv, TypeOK, PCs
<1>5. Waiters' = Waiters /\ Woken' = Woken
  BY <1>2, <1>3, <1>4 DEF Waiters, Woken, Threads
<1>6. Alive = {}
  BY <1>2 DEF IInv, Accurate, RunningIsAccurate
<1>7. Alive' = {n}
  BY <1>1, <1>3, <1>4, <1>6 DEF Alive, Threads
<1>8. TypeOK'
  BY <1>1, <1>2, <1>3, <1>4 DEF IInv, TypeOK
<1>9. Counted' /\ Permits'
  BY <1>2, <1>5 DEF IInv, Counted, Permits
<1>10. /\ \A t \in Threads : pc[t] \notin {"starting", "signalling"}
       /\ ~broadcast_
  BY <1>2, NobodyHolds
<1>11. Owned'
  BY <1>2, <1>3, <1>4, <1>10 DEF Owned
<1>12. Accurate'
  BY <1>1, <1>2, <1>3, <1>4, <1>7, <1>10 DEF Accurate, RunningIsAccurate, Threads
<1>. QED
  BY <1>8, <1>9, <1>11, <1>12 DEF IInv

(* What the native thread does by itself: it begins, and run() ends.       *)
LEMMA RunOK == ASSUME IInv, NEW n \in Natives, Begin(n) \/ RunEnds(n) PROVE IInv'
<1>1. PICK l \in {"running", "exiting"} :
          pc[n] \in {"begin", "running"} /\ pc' = [pc EXCEPT ![n] = l]
  BY DEF Begin, RunEnds, Goes
<1>2. /\ start_event_' \in BOOLEAN
      /\ UNCHANGED <<mutex_, running_, thread_, waiters_, broadcast_, sema_, waiters_done_, miscounted>>
  BY DEF Begin, RunEnds, threadDone, object, IInv, TypeOK
<1>3. l \in PCs /\ n \in Threads
  BY DEF PCs, Threads
<1>4. /\ pc' \in [Threads -> PCs] /\ pc'[n] = l
      /\ \A t \in Threads \ {n} : pc'[t] = pc[t]
      /\ Alive' = Alive \cup {n} /\ Waiters' = Waiters /\ Woken' = Woken
  BY <1>1, <1>3, NativeMoves DEF IInv
<1>5. Alive' = Alive
  BY <1>1, <1>4 DEF Alive
<1>6. TypeOK'
  BY <1>2, <1>4 DEF IInv, TypeOK
<1>7. Owned' /\ Accurate'
  BY <1>1, <1>2, <1>3, <1>4, <1>5, WinThreadAssumption
  DEF IInv, Owned, Accurate, RunningIsAccurate, Threads
<1>. QED
  BY <1>2, <1>4, <1>6, <1>7 DEF IInv, Counted, Permits

LEMMA StartedOK == ASSUME IInv, NEW c \in Clients, Started(c) PROVE IInv'
<1>1. /\ pc[c] = "starting" /\ pc' = [pc EXCEPT ![c] = "idle"]
      /\ running_' /\ mutex_' = Nobody /\ start_event_' = FALSE
      /\ running_' \in BOOLEAN
      /\ UNCHANGED <<thread_, waiters_, broadcast_, sema_, waiters_done_, miscounted>>
  BY DEF Started, Goes, threadDone
<1>2. c \in Threads /\ Nobody \notin Threads /\ "idle" \in PCs
  BY WinThreadAssumption DEF Threads, PCs
<1>3. /\ pc' \in [Threads -> PCs] /\ pc'[c] = "idle"
      /\ \A t \in Threads \ {c} : pc'[t] = pc[t]
      /\ Alive' = Alive
      /\ Waiters' = Waiters \ {c} /\ Woken' = Woken \ {c}
  BY <1>1, <1>2, ClientMoves DEF IInv
<1>4. Waiters' = Waiters /\ Woken' = Woken
  BY <1>1, <1>3 DEF Waiters, Woken
<1>5. TypeOK'
  BY <1>1, <1>3 DEF IInv, TypeOK
<1>6. mutex_ = c /\ Alive = {thread_}
  BY <1>1, <1>2 DEF IInv, Owned, Accurate
<1>7. \A t \in Threads : pc'[t] \notin {"starting", "signalling"}
  BY <1>1, <1>2, <1>3, <1>6 DEF IInv, Owned
<1>8. ~\E t \in Threads : pc[t] = "signalling"
  BY <1>1, <1>2, <1>6 DEF IInv, Owned
<1>9. Owned'
  BY <1>1, <1>2, <1>7, <1>8 DEF IInv, Owned
<1>10. Accurate'
  BY <1>1, <1>3, <1>6, <1>7 DEF Accurate, RunningIsAccurate, Threads
<1>. QED
  BY <1>1, <1>4, <1>5, <1>9, <1>10 DEF IInv, Counted, Permits

(* signal_all(), whoever calls it.                                         *)
LEMMA SignalOK ==
    ASSUME IInv, NEW t \in Threads, mutex_ = Nobody, SignalAll(t),
           pc' \in [Threads -> PCs], Waiters' = Waiters, Woken' = Woken,
           \A u \in Threads \ {t} : pc'[u] \notin {"starting", "signalling"},
           IF waiters_ > 0
           THEN pc'[t] = "signalling" /\ Alive' = {t} \cap Natives
           ELSE pc'[t] \in {"idle", "gone"} /\ Alive' = {},
           UNCHANGED <<start_event_, thread_, miscounted>>
    PROVE  IInv'
<1>1. ~broadcast_
  BY NobodyHolds
<1>2. t # Nobody /\ Nobody \notin Threads
  BY WinThreadAssumption DEF Threads
<1>3. CASE waiters_ > 0
  <2>1. /\ mutex_' = t /\ broadcast_' /\ broadcast_' \in BOOLEAN /\ sema_' = sema_ + waiters_
        /\ UNCHANGED <<running_, waiters_, waiters_done_>>
    BY <1>3 DEF SignalAll
  <2>2. TypeOK'
    BY <2>1 DEF IInv, TypeOK
  <2>3. Owned' /\ Accurate'
    BY <1>2, <1>3, <2>1 DEF Owned, Accurate, RunningIsAccurate, Threads
  <2>4. Permits'
    <3>. SUFFICES ASSUME ~miscounted
                  PROVE  sema_' + Cardinality(Woken) = waiters_ /\ ~waiters_done_
      BY <1>3, <2>1, <2>2 DEF Permits, TypeOK
    <3>1. sema_ = 0 /\ ~waiters_done_ /\ Woken = {}
      BY <1>1 DEF IInv, Permits
    <3>. QED
      BY <2>1, <3>1, FS_EmptySet DEF IInv, TypeOK
  <2>. QED
    BY <2>1, <2>2, <2>3, <2>4 DEF IInv, Counted
<1>4. CASE ~(waiters_ > 0)
  <2>1. ~running_' /\ running_' \in BOOLEAN /\ UNCHANGED <<mutex_, waiters_, broadcast_, sema_, waiters_done_>>
    BY <1>4 DEF SignalAll, threadDone
  <2>2. \A u \in Threads : pc'[u] \notin {"starting", "signalling"}
    BY <1>4
  <2>3. TypeOK'
    BY <2>1 DEF IInv, TypeOK
  <2>4. Owned' /\ Accurate'
    BY <1>1, <1>2, <1>4, <2>1, <2>2 DEF Owned, Accurate, RunningIsAccurate, Threads
  <2>. QED
    BY <2>1, <2>3, <2>4 DEF IInv, Counted, Permits
<1>. QED
  BY <1>3, <1>4

LEMMA ExitOK == ASSUME IInv, NEW n \in Natives, Exit(n) PROVE IInv'
<1>1. PICK l \in {"signalling", "gone"} :
          /\ pc[n] = "exiting" /\ pc' = [pc EXCEPT ![n] = l]
          /\ l = IF waiters_ > 0 THEN "signalling" ELSE "gone"
  BY DEF Exit, Goes
<1>2. mutex_ = Nobody /\ SignalAll(n) /\ UNCHANGED <<start_event_, thread_, miscounted>>
  BY DEF Exit
<1>3. l \in PCs /\ n \in Threads
  BY <1>1 DEF PCs, Threads
<1>4. /\ pc' \in [Threads -> PCs] /\ pc'[n] = l
      /\ \A t \in Threads \ {n} : pc'[t] = pc[t]
      /\ Alive' = IF l \in {"begin", "running", "exiting", "signalling"}
                  THEN Alive \cup {n} ELSE Alive \ {n}
      /\ Waiters' = Waiters /\ Woken' = Woken
  BY <1>1, <1>3, NativeMoves DEF IInv
<1>5. Alive = {n}
  BY <1>1, <1>2 DEF IInv, Accurate, RunningIsAccurate, Alive
<1>6. \A u \in Threads \ {n} : pc'[u] \notin {"starting", "signalling"}
  BY <1>2, <1>4, NobodyHolds
<1>7. CASE waiters_ > 0
  BY <1>1, <1>2, <1>3, <1>4, <1>5, <1>6, <1>7, SignalOK
<1>8. CASE ~(waiters_ > 0)
  BY <1>1, <1>2, <1>3, <1>4, <1>5, <1>6, <1>8, SignalOK
<1>. QED
  BY <1>7, <1>8

LEMMA KillOK == ASSUME IInv, NEW c \in Clients, Kill(c) PROVE IInv'
<1>1. PICK l \in {"signalling", "idle"} :
          /\ pc[c] = "idle" /\ pc' = [pc EXCEPT ![thread_] = "gone", ![c] = l]
          /\ l = IF waiters_ > 0 THEN "signalling" ELSE "idle"
  BY DEF Kill
<1>2. /\ mutex_ = Nobody /\ running_ /\ SignalAll(c)
      /\ UNCHANGED <<start_event_, thread_, miscounted>>
  BY DEF Kill
<1>3. Alive = {thread_}
  BY <1>2 DEF IInv, Accurate, RunningIsAccurate
<1>4. /\ thread_ \in Natives /\ thread_ \in Threads /\ thread_ \notin Clients
      /\ c \in Threads /\ c \notin Natives /\ c # thread_
  BY <1>3, WinThreadAssumption DEF Alive, Threads
<1>5. /\ pc' \in [Threads -> PCs] /\ pc'[c] = l /\ pc'[thread_] = "gone"
      /\ \A t \in Threads \ {c, thread_} : pc'[t] = pc[t]
  BY <1>1, <1>4 DEF IInv, TypeOK, PCs
<1>6. Waiters' = Waiters /\ Woken' = Woken
  BY <1>1, <1>4, <1>5 DEF Waiters, Woken, Threads
<1>7. Alive' = {}
  BY <1>3, <1>4, <1>5 DEF Alive, Threads
<1>8. \A u \in Threads \ {c} : pc'[u] \notin {"starting", "signalling"}
  BY <1>2, <1>5, NobodyHolds
<1>9. CASE waiters_ > 0
  BY <1>1, <1>2, <1>4, <1>5, <1>6, <1>7, <1>8, <1>9, SignalOK
<1>10. CASE ~(waiters_ > 0)
  BY <1>1, <1>2, <1>4, <1>5, <1>6, <1>7, <1>8, <1>10, SignalOK
<1>. QED
  BY <1>9, <1>10

LEMMA SignalledOK == ASSUME IInv, NEW t \in Threads, Signalled(t) PROVE IInv'
<1>1. /\ pc[t] = "signalling" /\ pc' = [pc EXCEPT ![t] = Ended(t)]
      /\ waiters_done_ /\ waiters_done_' = FALSE /\ broadcast_' = FALSE
      /\ running_' = FALSE /\ mutex_' = Nobody
      /\ UNCHANGED <<start_event_, thread_, waiters_, sema_, miscounted>>
  BY DEF Signalled, Goes
<1>2. Ended(t) \in {"idle", "gone"} /\ Nobody \notin Threads
  BY WinThreadAssumption DEF Ended, Threads
<1>3. /\ pc' \in [Threads -> PCs] /\ pc'[t] = Ended(t)
      /\ \A u \in Threads \ {t} : pc'[u] = pc[u]
  BY <1>1, <1>2 DEF IInv, TypeOK, PCs
<1>4. Waiters' = Waiters /\ Woken' = Woken
  BY <1>1, <1>2, <1>3 DEF Waiters, Woken, Threads
<1>5. mutex_ = t /\ broadcast_ /\ Alive = {t} \cap Natives
  BY <1>1 DEF IInv, Owned, Accurate
<1>6. \A u \in Threads : pc'[u] \notin {"starting", "signalling"}
  BY <1>1, <1>2, <1>3, <1>5 DEF IInv, Owned
<1>7. Alive' = {}
  BY <1>2, <1>3, <1>5 DEF Alive, Threads
<1>8. TypeOK'
  BY <1>1, <1>3 DEF IInv, TypeOK
<1>9. Owned' /\ Accurate'
  BY <1>1, <1>2, <1>6, <1>7 DEF Owned, Accurate, RunningIsAccurate, Threads
<1>10. Permits'
  <2>. SUFFICES ASSUME ~miscounted PROVE sema_ = 0 /\ Woken = {}
    BY <1>1, <1>4 DEF Permits
  <2>1. sema_ + Cardinality(Woken) = 0
    BY <1>1, <1>5 DEF IInv, Permits
  <2>2. Cardinality(Woken) = 0 /\ sema_ = 0
    BY <2>1, FiniteCounts DEF IInv, TypeOK
  <2>. QED
    BY <2>2, FiniteCounts, FS_EmptySet
<1>. QED
  BY <1>1, <1>4, <1>8, <1>9, <1>10 DEF IInv, Counted

LEMMA CallWaitOK == ASSUME IInv, NEW c \in Clients, CallWait(c) PROVE IInv'
<1>1. /\ pc[c] = "idle" /\ pc' = [pc EXCEPT ![c] = "blocked"]
      /\ mutex_ = Nobody /\ waiters_' = waiters_ + 1
      /\ UNCHANGED <<mutex_, running_, start_event_, thread_, broadcast_, sema_, waiters_done_,
                     miscounted>>
  BY DEF CallWait, Goes, object
<1>2. "blocked" \in PCs
  BY DEF PCs
<1>3. /\ pc' \in [Threads -> PCs]
      /\ Waiters' = Waiters \cup {c} /\ Woken' = Woken \ {c}
  BY <1>1, <1>2, ClientMoves DEF IInv
<1>4. c \notin Waiters /\ Woken' = Woken
  BY <1>1, <1>3 DEF Waiters, Woken
<1>5. TypeOK'
  BY <1>1, <1>3 DEF IInv, TypeOK
<1>6. Counted'
  BY <1>1, <1>3, <1>4, FiniteCounts, FS_AddElement DEF IInv, Counted
<1>7. Owned' /\ Accurate'
  BY <1>1, <1>2, QuietStep
<1>8. Permits'
  BY <1>1, <1>4, NobodyHolds DEF IInv, Permits
<1>. QED
  BY <1>5, <1>6, <1>7, <1>8 DEF IInv

LEMMA WakeOK == ASSUME IInv, NEW c \in Clients, Wake(c) PROVE IInv'
<1>1. /\ pc[c] = "blocked" /\ pc' = [pc EXCEPT ![c] = "woken"]
      /\ sema_ > 0 /\ sema_' = sema_ - 1
      /\ UNCHANGED <<mutex_, running_, start_event_, thread_, waiters_, broadcast_, waiters_done_,
                     miscounted>>
  BY DEF Wake, Goes, object
<1>2. "woken" \in PCs
  BY DEF PCs
<1>3. /\ pc' \in [Threads -> PCs]
      /\ Waiters' = Waiters \cup {c} /\ Woken' = Woken \cup {c}
  BY <1>1, <1>2, ClientMoves DEF IInv
<1>4. Waiters' = Waiters /\ c \notin Woken
  BY <1>1, <1>3 DEF Waiters, Woken
<1>5. Cardinality(Woken') = Cardinality(Woken) + 1
  BY <1>3, <1>4, FiniteCounts, FS_AddElement
<1>6. TypeOK'
  BY <1>1, <1>3 DEF IInv, TypeOK
<1>7. Owned' /\ Accurate'
  BY <1>1, <1>2, QuietStep
<1>8. Permits'
  <2>. SUFFICES ASSUME ~miscounted
                PROVE  /\ broadcast_
                       /\ sema_' + Cardinality(Woken') = waiters_
                       /\ waiters_done_ <=> waiters_ = 0
    BY <1>1 DEF Permits
  <2>1. broadcast_
    BY <1>1 DEF IInv, Permits
  <2>2. sema_ + Cardinality(Woken) = waiters_ /\ (waiters_done_ <=> waiters_ = 0)
    BY <2>1 DEF IInv, Permits
  <2>. QED
    BY <1>1, <1>5, <2>1, <2>2, FiniteCounts DEF IInv, TypeOK
<1>. QED
  BY <1>1, <1>4, <1>6, <1>7, <1>8 DEF IInv, Counted

LEMMA LeaveOK ==
    ASSUME IInv, NEW c \in Clients, Leave(c) \/ LeaveExpired(c)
    PROVE  IInv'
<1>1. /\ pc[c] \in {"woken", "expired"} /\ pc' = [pc EXCEPT ![c] = "relock"]
      /\ waiters_' = waiters_ - 1
      /\ UNCHANGED <<mutex_, running_, start_event_, thread_, broadcast_, sema_>>
  BY DEF Leave, LeaveExpired, Goes, object
<1>2. "relock" \in PCs
  BY DEF PCs
<1>3. /\ pc' \in [Threads -> PCs]
      /\ Waiters' = Waiters \ {c} /\ Woken' = Woken \ {c}
  BY <1>1, <1>2, ClientMoves DEF IInv
<1>4. c \in Waiters
  BY <1>1 DEF Waiters
<1>5. Cardinality(Waiters') = Cardinality(Waiters) - 1
  BY <1>3, <1>4, FiniteCounts, FS_RemoveElement
<1>6. Cardinality(Waiters') \in Nat
  BY <1>3, FiniteCounts, FS_Subset, FS_CardinalityType
<1>7. Counted' /\ waiters_' \in Nat /\ waiters_ > 0
  BY <1>1, <1>5, <1>6 DEF IInv, Counted, TypeOK
<1>8. waiters_done_' \in BOOLEAN /\ miscounted' \in BOOLEAN
  BY DEF Leave, LeaveExpired, IInv, TypeOK
<1>9. TypeOK'
  BY <1>1, <1>3, <1>7, <1>8 DEF IInv, TypeOK
<1>10. Owned' /\ Accurate'
  BY <1>1, <1>2, QuietStep
<1>11. CASE LeaveExpired(c)
  <2>1. /\ pc[c] = "expired" /\ miscounted' = (miscounted \/ broadcast_)
        /\ UNCHANGED waiters_done_
    BY <1>11 DEF LeaveExpired, Goes
  <2>2. Woken' = Woken
    BY <1>3, <2>1 DEF Woken
  <2>. QED
    BY <1>1, <1>7, <1>9, <1>10, <2>1, <2>2 DEF IInv, Permits
<1>12. CASE Leave(c)
  <2>1. /\ pc[c] = "woken" /\ UNCHANGED miscounted
        /\ waiters_done_' = (waiters_done_ \/ (broadcast_ /\ waiters_ = 1))
    BY <1>12 DEF Leave, Goes
  <2>2. c \in Woken
    BY <2>1 DEF Woken
  <2>3. Cardinality(Woken') = Cardinality(Woken) - 1
    BY <1>3, <2>2, FiniteCounts, FS_RemoveElement
  <2>4. Permits'
    <3>. SUFFICES ASSUME ~miscounted
                  PROVE  /\ broadcast_
                         /\ sema_ + Cardinality(Woken') = waiters_'
                         /\ waiters_done_' <=> waiters_' = 0
      BY <1>1, <2>1 DEF Permits
    <3>1. broadcast_
      BY <2>2 DEF IInv, Permits
    <3>2. sema_ + Cardinality(Woken) = waiters_ /\ (waiters_done_ <=> waiters_ = 0)
      BY <3>1 DEF IInv, Permits
    <3>3. sema_ + Cardinality(Woken') = waiters_'
      BY <1>1, <2>3, <3>2, FiniteCounts DEF IInv, TypeOK
    <3>4. waiters_done_' <=> waiters_ = 1
      <4>1. ~waiters_done_
        BY <1>7, <3>2 DEF IInv, TypeOK
      <4>. QED
        BY <2>1, <3>1, <4>1
    <3>5. waiters_ = 1 <=> waiters_' = 0
      BY <1>1, <1>7 DEF IInv, TypeOK
    <3>. QED
      BY <3>1, <3>3, <3>4, <3>5
  <2>. QED
    BY <1>7, <1>9, <1>10, <2>4 DEF IInv
<1>. QED
  BY <1>11, <1>12

(* A time out, and the end of wait(), change nothing but where c stands.   *)
LEMMA PassOK ==
    ASSUME IInv, NEW c \in Clients, TimeOut(c) \/ Relock(c)
    PROVE  IInv'
<1>1. PICK l \in {"expired", "idle"} :
          /\ pc[c] = IF l = "expired" THEN "blocked" ELSE "relock"
          /\ pc' = [pc EXCEPT ![c] = l]
  BY DEF TimeOut, Relock, Goes
<1>2. UNCHANGED <<mutex_, running_, start_event_, thread_, waiters_, broadcast_, sema_,
                 waiters_done_, miscounted>>
  BY DEF TimeOut, Relock, object, threadDone
<1>3. l \in PCs
  BY DEF PCs
<1>4. /\ pc' \in [Threads -> PCs]
      /\ Waiters' = IF l = "expired" THEN Waiters \cup {c} ELSE Waiters \ {c}
      /\ Woken' = Woken \ {c}
  BY <1>1, <1>3, ClientMoves DEF IInv
<1>5. Waiters' = Waiters /\ Woken' = Woken
  BY <1>1, <1>4 DEF Waiters, Woken
<1>6. TypeOK'
  BY <1>2, <1>4 DEF IInv, TypeOK
<1>7. Owned' /\ Accurate'
  BY <1>1, <1>2, <1>3, QuietStep
<1>. QED
  BY <1>2, <1>5, <1>6, <1>7 DEF IInv, Counted, Permits

LEMMA InitIInv == Init => IInv
<1>. SUFFICES ASSUME Init PROVE IInv
  OBVIOUS
<1>1. /\ pc \in [Threads -> PCs]
      /\ \A t \in Threads : pc[t] \in {"idle", "none"}
  BY DEF Init, PCs
<1>2. TypeOK
  BY <1>1 DEF Init, TypeOK
<1>3. Waiters = {} /\ Woken = {}
  BY <1>1 DEF Waiters, Woken, Threads
<1>4. Alive = {}
  BY <1>1 DEF Alive, Threads
<1>5. Counted
  BY <1>3, FS_EmptySet DEF Init, Counted
<1>6. Owned
  BY <1>1, WinThreadAssumption DEF Init, Owned, Threads
<1>7. Accurate /\ Permits
  BY <1>1, <1>3, <1>4 DEF Init, Accurate, RunningIsAccurate, Permits, Threads
<1>. QED
  BY <1>2, <1>5, <1>6, <1>7 DEF IInv

LEMMA NextIInv == IInv /\ [Next]_vars => IInv'
<1>. SUFFICES ASSUME IInv, [Next]_vars PROVE IInv'
  OBVIOUS
<1>1. ASSUME NEW c \in Clients,
             \/ Start(c) \/ Started(c) \/ Kill(c)
             \/ CallWait(c) \/ Wake(c) \/ TimeOut(c)
             \/ Leave(c) \/ LeaveExpired(c) \/ Relock(c)
      PROVE  IInv'
  BY <1>1, StartOK, StartedOK, KillOK, CallWaitOK, WakeOK, LeaveOK, PassOK
<1>2. ASSUME NEW n \in Natives, Begin(n) \/ RunEnds(n) \/ Exit(n) PROVE IInv'
  BY <1>2, RunOK, ExitOK
<1>3. ASSUME NEW t \in Threads, Signalled(t) PROVE IInv'
  BY <1>3, SignalledOK
<1>4. CASE UNCHANGED vars
  BY <1>4 DEF vars, object, threadDone, IInv, TypeOK, Counted, Owned, Accurate,
              RunningIsAccurate, Permits, Waiters, Woken, Alive
<1>. QED
  BY <1>1, <1>2, <1>3, <1>4 DEF Next

LEMMA Invariance == Spec => []IInv
BY InitIInv, NextIInv, PTL DEF Spec

(* running(), which reads running_ under mutex_, is true exactly while a   *)
(* native thread of the object executes, and it is thread_: start() never  *)
(* creates a second one.                                                   *)
THEOREM RunningAccurate == Spec => []RunningIsAccurate
<1>1. IInv => RunningIsAccurate
  BY DEF IInv, Accurate
<1>. QED
  BY <1>1, Invariance, PTL

(* signal_all() leaves no permit and no event behind.                      *)
THEOREM CleanSignals == Spec => []NothingLeftBehind
<1>1. IInv => NothingLeftBehind
  BY DEF IInv, Permits, NothingLeftBehind
<1>. QED
  BY <1>1, Invariance, PTL

(* Nobody comes back from wait() woken while run() is under way.           *)
THEOREM NotWokenEarly == Spec => []WokenAfterExit
<1>1. ASSUME IInv PROVE WokenAfterExit
  <2>. SUFFICES ASSUME ~miscounted, NEW c \in Clients, pc[c] = "woken",
                       NEW n \in Natives, pc[n] \in {"begin", "running", "exiting"}
                PROVE  FALSE
    BY DEF WokenAfterExit
  <2>1. broadcast_
    BY <1>1 DEF IInv, Permits, Woken
  <2>2. PICK t \in Threads : pc[t] = "signalling"
    BY <1>1, <2>1 DEF IInv, Owned
  <2>3. Alive = {t} \cap Natives /\ n \in Alive
    BY <1>1, <2>2 DEF IInv, Accurate, Alive
  <2>. QED
    BY <2>2, <2>3
<1>. QED
  BY <1>1, Invariance, PTL
==============================================================================
