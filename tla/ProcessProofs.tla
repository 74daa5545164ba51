---------------------------- MODULE ProcessProofs ----------------------------
(***************************************************************************)
(* Theorems about Process, for any number of children, streams, blocks and *)
(* exit codes: mutex_exec_ covers the execution of a listen thread, and    *)
(* unless create() is called while an earlier listener or handler is not   *)
(* through, event_finished() comes after the end of the child, a child     *)
(* that runs is not forgotten and the exit code of one that has ended is   *)
(* kept.                                                                   *)
(***************************************************************************)
EXTENDS Process, TLAPS

(* TypeOK is not inductive alone: the bounds of others and of the index of *)
(* the child to fork come from elsewhere, and that exit_code_ is an exit   *)
(* code rests on the handler storing none of a child a signal has ended.   *)
Typed ==
    /\ TypeOK
    /\ others <= otherExits
    /\ cpc \in {"mark", "fork"} => born < MaxChildren
    /\ cpc \in {"register", "spawn", "starting", "killing"} => born > 0
    /\ pid_ # Nobody => born > 0
    /\ \A k \in Children : k > born => child[k] = "none"
    /\ \A t \in Threads :
          handler[t] # Nobody
            => child[handler[t]] = "reaped" /\ code[handler[t]] \in Codes

(* Who holds mutex_exec_, and that started_event_ is that of the listener  *)
(* the client waits for.                                                   *)
Locked ==
    /\ \A k \in Children :
          lpc[k] \in {"loop", "poll", "broken", "closing"} <=> mutex_exec_ = k
    /\ \A k \in Children :
          lpc[k] = "start" => cpc = "starting" /\ k = born /\ ~started_event_
    /\ cpc \in {"open", "mark", "fork", "register", "spawn"} => ~started_event_
    /\ \A k \in Children : k > born => lpc[k] = "none"
    /\ cpc \in {"register", "spawn"} => lpc[born] = "none"
    /\ cpc = "destroyed" => \A k \in Children : lpc[k] \in {"none", "ended"}

(* The actions that leave what Locked speaks of alone. *)
Elsewhere ==
    UNCHANGED <<mutex_exec_, lpc, started_event_, cpc, born>>

LEMMA EmptyTyped == Empty \in [Streams -> 0 .. PipeCapacity]
<1>1. 0 \in 0 .. PipeCapacity
  BY ProcessAssumption
<1>. QED
  BY <1>1 DEF Empty

LEMMA InitTyped == Init => Typed
<1>. SUFFICES ASSUME Init PROVE Typed
  OBVIOUS
<1>1. 0 \in 0 .. MaxBlocks /\ 0 \in 0 .. MaxOthers /\ 0 \in 0 .. MaxChildren /\ 0 \in Codes
  BY ProcessAssumption
<1>2. unread \in [Streams -> 0 .. PipeCapacity]
  BY EmptyTyped DEF Init
<1>3. child \in [Children -> {"none", "alive", "zombie", "reaped"}]
  BY DEF Init
<1>4. /\ code \in [Children -> Codes \cup {signalled}]
      /\ wrote \in [Children -> 0 .. MaxBlocks]
  BY <1>1 DEF Init
<1>5. handler \in [Threads -> Children \cup {Nobody}] /\ \A t \in Threads : handler[t] = Nobody
  BY DEF Init
<1>6. lpc \in [Children -> LPCs]
  BY DEF Init, LPCs
<1>7. /\ state_ \in {"STOPPED", "RUNNING"}
      /\ pid_ \in Children \cup {Nobody} /\ pipes_ \in Children \cup {Nobody}
      /\ exit_code_ \in Codes /\ mutex_exec_ \in Children \cup {Nobody}
      /\ started_event_ \in BOOLEAN /\ installed \in BOOLEAN
      /\ sigchld \in BOOLEAN /\ stale \in BOOLEAN
      /\ pid_map_ \subseteq Children /\ early \subseteq Children
      /\ born \in 0 .. MaxChildren /\ others \in 0 .. MaxOthers
      /\ otherExits \in 0 .. MaxOthers
      /\ cpc \in CPCs
  BY <1>1 DEF Init, CPCs
<1>8. /\ others <= otherExits
      /\ cpc \notin {"mark", "fork", "register", "spawn", "starting", "killing"}
      /\ pid_ = Nobody
      /\ \A k \in Children : child[k] = "none"
  BY DEF Init
<1>. QED
  BY <1>2, <1>3, <1>4, <1>5, <1>6, <1>7, <1>8 DEF Typed, TypeOK

LEMMA ClosedTyped ==
    ASSUME Typed, Close
    PROVE  /\ state_' \in {"STOPPED", "RUNNING"}
           /\ pid_' = Nobody /\ pid_' \in Children \cup {Nobody}
           /\ exit_code_' \in Codes
           /\ started_event_' \in BOOLEAN
           /\ pipes_' \in Children \cup {Nobody}
           /\ unread' \in [Streams -> 0 .. PipeCapacity]
<1>1. unread' \in [Streams -> 0 .. PipeCapacity]
  BY EmptyTyped DEF Close
<1>. QED
  BY <1>1 DEF Typed, TypeOK, Close

LEMMA ExitTyped ==
    ASSUME Typed, NEW ending \in SUBSET Children,
           \A k \in ending : child[k] = "alive",
           NEW c \in Codes \cup {signalled}, Exit(ending, c),
           UNCHANGED <<born, handler>>
    PROVE  /\ child' \in [Children -> {"none", "alive", "zombie", "reaped"}]
           /\ code' \in [Children -> Codes \cup {signalled}]
           /\ sigchld' \in BOOLEAN
           /\ early' \subseteq Children
           /\ \A j \in Children : j > born' => child'[j] = "none"
           /\ \A t \in Threads :
                 handler'[t] # Nobody
                   => child'[handler'[t]] = "reaped" /\ code'[handler'[t]] \in Codes
<1>. USE DEF Typed, TypeOK
<1>1. /\ child' = [k \in Children |-> IF k \in ending THEN "zombie" ELSE child[k]]
      /\ code' = [k \in Children |-> IF k \in ending THEN c ELSE code[k]]
  BY DEF Exit
<1>2. /\ child' \in [Children -> {"none", "alive", "zombie", "reaped"}]
      /\ code' \in [Children -> Codes \cup {signalled}]
  BY <1>1
<1>3. sigchld' \in BOOLEAN /\ early' \subseteq Children
  BY DEF Exit
<1>4. \A j \in Children : j > born' => child'[j] = "none"
  BY <1>1
<1>5. \A t \in Threads :
         handler'[t] # Nobody
           => child'[handler'[t]] = "reaped" /\ code'[handler'[t]] \in Codes
  BY <1>1
<1>. QED
  BY <1>2, <1>3, <1>4, <1>5

LEMMA StepTyped == Typed /\ [Next]_vars => Typed'
<1>. SUFFICES ASSUME Typed, [Next]_vars
              PROVE  Typed'
  OBVIOUS
<1>. USE ProcessAssumption DEF Typed, TypeOK, Nobody, Children
<1>. USE DEF object, monitor, children, otherChildren, signals, threads
<1>1. ASSUME NEW k \in Children, ChildExits(k)
      PROVE  Typed'
  <2>1. PICK c \in Codes : Exit({k}, c)
    BY <1>1 DEF ChildExits
  <2>2. /\ {k} \in SUBSET Children /\ \A j \in {k} : child[j] = "alive"
        /\ c \in Codes \cup {signalled}
    BY <1>1 DEF ChildExits
  <2>3. UNCHANGED <<object, monitor, born, wrote, otherChildren, handler, threads>>
    BY <1>1 DEF ChildExits
  <2>4. /\ state_' = state_ /\ pid_' = pid_ /\ exit_code_' = exit_code_
        /\ started_event_' = started_event_ /\ pipes_' = pipes_
        /\ unread' = unread /\ pid_map_' = pid_map_ /\ installed' = installed
        /\ born' = born /\ wrote' = wrote /\ others' = others
        /\ otherExits' = otherExits /\ mutex_exec_' = mutex_exec_
        /\ cpc' = cpc /\ lpc' = lpc /\ stale' = stale
    BY <2>3
  <2>5. UNCHANGED <<born, handler>>
    BY <2>3
  <2>6. /\ child' \in [Children -> {"none", "alive", "zombie", "reaped"}]
        /\ code' \in [Children -> Codes \cup {signalled}]
        /\ sigchld' \in BOOLEAN /\ early' \subseteq Children
        /\ \A j \in Children : j > born' => child'[j] = "none"
        /\ \A t \in Threads :
              handler'[t] # Nobody
                => child'[handler'[t]] = "reaped" /\ code'[handler'[t]] \in Codes
    BY <2>1, <2>2, <2>5, ExitTyped
  <2>7. handler' \in [Threads -> Children \cup {Nobody}]
    BY <2>5
  <2>. QED
    BY <2>4, <2>6, <2>7
<1>2. ASSUME NEW k \in Children, NEW s \in Streams, ChildWrites(k, s)
      PROVE  Typed'
  <2>1. wrote' \in [Children -> 0 .. MaxBlocks]
    BY <1>2 DEF ChildWrites
  <2>2. unread' \in [Streams -> 0 .. PipeCapacity]
    <3>1. unread[s] < PipeCapacity => unread[s] + 1 \in 0 .. PipeCapacity
      OBVIOUS
    <3>. QED
      BY <1>2, <3>1 DEF ChildWrites
  <2>3. /\ state_' = state_ /\ pid_' = pid_ /\ exit_code_' = exit_code_
        /\ started_event_' = started_event_ /\ pipes_' = pipes_
        /\ pid_map_' = pid_map_ /\ installed' = installed
        /\ child' = child /\ born' = born /\ code' = code /\ early' = early
        /\ others' = others /\ otherExits' = otherExits
        /\ sigchld' = sigchld /\ handler' = handler
        /\ mutex_exec_' = mutex_exec_ /\ cpc' = cpc /\ lpc' = lpc
        /\ stale' = stale
    BY <1>2 DEF ChildWrites
  <2>4. /\ \A t \in Threads :
              handler'[t] # Nobody
                => child'[handler'[t]] = "reaped" /\ code'[handler'[t]] \in Codes
        /\ \A j \in Children : j > born' => child'[j] = "none"
    BY <2>3
  <2>5. TypeOK'
    BY <2>1, <2>2, <2>3
  <2>. QED
    BY <2>3, <2>4, <2>5
<1>3. CASE OtherExits
  BY <1>3 DEF OtherExits
<1>4. ASSUME NEW t \in Threads, Handle(t)
      PROVE  Typed'
  <2>1. CASE ReapChild(t)
    <3>1. PICK k \in Children :
              /\ child[k] = "zombie"
              /\ child' = [child EXCEPT ![k] = "reaped"]
              /\ Stop(t, k)
      BY <2>1 DEF ReapChild
    <3>2. /\ UNCHANGED <<others, pid_, exit_code_, started_event_, pipes_, unread, born,
                         code, wrote, early, otherExits, monitor, threads>>
          /\ sigchld' = FALSE
      BY <1>4, <2>1 DEF Handle, ReapChild
    <3>3. child' \in [Children -> {"none", "alive", "zombie", "reaped"}]
      BY <3>1
    <3>4. code[k] # signalled => code[k] \in Codes
      OBVIOUS
    <3>5. /\ handler' \in [Threads -> Children \cup {Nobody}]
          /\ \A u \in Threads :
                handler'[u] = handler[u]
                  \/ (handler'[u] = k /\ code[k] \in Codes)
          /\ state_' \in {"STOPPED", "RUNNING"}
      <4>1. handler' = handler \/ (handler' = [handler EXCEPT ![t] = k] /\ code[k] # signalled)
        BY <3>1 DEF Stop
      <4>2. handler' = handler \/ (handler' = [handler EXCEPT ![t] = k] /\ code[k] \in Codes)
        BY <3>4, <4>1
      <4>3. state_' \in {"STOPPED", "RUNNING"}
        BY <3>1 DEF Stop
      <4>4. CASE handler' = handler
        BY <4>3, <4>4
      <4>5. CASE handler' = [handler EXCEPT ![t] = k] /\ code[k] \in Codes
        BY <4>3, <4>5
      <4>. QED
        BY <4>2, <4>4, <4>5
    <3>6. \A u \in Threads :
             handler'[u] # Nobody
               => child'[handler'[u]] = "reaped" /\ code'[handler'[u]] \in Codes
      <4>. SUFFICES ASSUME NEW u \in Threads, handler'[u] # Nobody
                    PROVE  child'[handler'[u]] = "reaped" /\ code'[handler'[u]] \in Codes
        OBVIOUS
      <4>1. child'[k] = "reaped" /\ code' = code
        BY <3>1, <3>2
      <4>2. CASE handler'[u] = handler[u]
        BY <3>1, <4>1, <4>2
      <4>3. CASE handler'[u] = k /\ code[k] \in Codes
        BY <4>1, <4>3
      <4>. QED
        BY <3>5, <4>2, <4>3
    <3>7. \A j \in Children : j > born => child'[j] = "none"
      BY <3>1
    <3>. QED
      BY <3>2, <3>3, <3>5, <3>6, <3>7
  <2>2. CASE ReapOther(t)
    <3>1. others' = others - 1 /\ others' \in 0 .. MaxOthers /\ others' <= otherExits
      BY <2>2 DEF ReapOther
    <3>2. /\ sigchld' = FALSE
          /\ UNCHANGED <<object, handler, children, otherExits, monitor, threads>>
      BY <1>4, <2>2 DEF Handle, ReapOther
    <3>. QED
      BY <3>1, <3>2
  <2>. QED
    BY <1>4, <2>1, <2>2 DEF Handle
<1>5. ASSUME NEW t \in Threads, StoreCode(t)
      PROVE  Typed'
  <2>1. /\ handler[t] \in Children /\ code[handler[t]] \in Codes
        /\ handler' = [handler EXCEPT ![t] = Nobody]
        /\ exit_code_' = code[handler[t]]
    BY <1>5 DEF StoreCode
  <2>2. /\ UNCHANGED <<state_, pid_, started_event_, pipes_, unread, monitor>>
        /\ UNCHANGED <<children, otherChildren, sigchld, threads>>
    BY <1>5 DEF StoreCode
  <2>3. handler' \in [Threads -> Children \cup {Nobody}]
    BY <2>1
  <2>4. \A u \in Threads :
           handler'[u] # Nobody
             => child'[handler'[u]] = "reaped" /\ code'[handler'[u]] \in Codes
    <3>. SUFFICES ASSUME NEW u \in Threads, handler'[u] # Nobody
                  PROVE  child'[handler'[u]] = "reaped" /\ code'[handler'[u]] \in Codes
      OBVIOUS
    <3>1. handler'[u] = handler[u]
      BY <2>1
    <3>2. child' = child /\ code' = code
      BY <2>2
    <3>. QED
      BY <3>1, <3>2
  <2>5. exit_code_' \in Codes
    BY <2>1
  <2>6. /\ state_' = state_ /\ pid_' = pid_ /\ started_event_' = started_event_
        /\ pipes_' = pipes_ /\ unread' = unread /\ pid_map_' = pid_map_
        /\ installed' = installed /\ child' = child /\ born' = born
        /\ code' = code /\ wrote' = wrote /\ early' = early
        /\ others' = others /\ otherExits' = otherExits
        /\ sigchld' = sigchld /\ mutex_exec_' = mutex_exec_
        /\ cpc' = cpc /\ lpc' = lpc /\ stale' = stale
    BY <2>2
  <2>. QED
    BY <2>3, <2>4, <2>5, <2>6
<1>6. ASSUME NEW k \in Children, ListenerStep(k)
      PROVE  Typed'
  <2>1. CASE Listen(k)
    BY <2>1 DEF Listen, LPCs
  <2>2. CASE TestRunning(k)
    BY <2>2 DEF TestRunning, LPCs
  <2>3. CASE PollTimesOut(k)
    BY <2>3 DEF PollTimesOut, LPCs
  <2>4. CASE Read(k)
    BY <2>4 DEF Read, LPCs
  <2>5. CASE ReadFails(k)
    BY <2>5, ClosedTyped DEF ReadFails, LPCs
  <2>6. CASE Finish(k)
    BY <2>6 DEF Finish, LPCs
  <2>7. CASE End(k)
    BY <2>7, ClosedTyped DEF End, LPCs
  <2>. QED
    BY <1>6, <2>1, <2>2, <2>3, <2>4, <2>5, <2>6, <2>7 DEF ListenerStep
<1>7. CASE CallCreate \/ CallWait \/ CallKill \/ Destroy
  <2>1. CASE CallCreate
    BY <2>1 DEF CallCreate, At, CPCs
  <2>2. CASE CallWait
    BY <2>2 DEF CallWait, At, CPCs
  <2>3. CASE CallKill
    BY <2>3 DEF CallKill, At, CPCs
  <2>4. CASE Destroy
    BY <2>4 DEF Destroy, At, CPCs
  <2>. QED
    BY <1>7, <2>1, <2>2, <2>3, <2>4
<1>8. CASE ClientStep
  <2>1. CASE ClosePrevious
    BY <2>1, ClosedTyped DEF ClosePrevious, At, CPCs
  <2>2. CASE OpenFails
    BY <2>2 DEF OpenFails, At, CPCs
  <2>3. CASE OpenPipes
    BY <2>3 DEF OpenPipes, At, CPCs
  <2>4. CASE MarkRunning
    BY <2>4 DEF MarkRunning, At, CPCs
  <2>5. CASE ForkFails
    BY <2>5 DEF ForkFails, At, CPCs
  <2>6. CASE Fork
    <3>1. born + 1 \in Children /\ child[born + 1] = "none"
      BY <2>6 DEF Fork, At
    <3>2. /\ child' = [child EXCEPT ![born + 1] = "alive"]
          /\ born' = born + 1 /\ pid_' = born + 1 /\ cpc' = "register"
          /\ UNCHANGED <<code, wrote, early, handler>>
      BY <2>6 DEF Fork, At
    <3>3. \A t \in Threads :
             handler'[t] # Nobody
               => child'[handler'[t]] = "reaped" /\ code'[handler'[t]] \in Codes
      BY <3>1, <3>2
    <3>4. \A k \in Children : k > born' => child'[k] = "none"
      BY <3>1, <3>2
    <3>5. child' \in [Children -> {"none", "alive", "zombie", "reaped"}]
      BY <3>1, <3>2
    <3>. QED
      BY <2>6, <3>1, <3>2, <3>3, <3>4, <3>5 DEF Fork, At, CPCs
  <2>7. CASE Register
    BY <2>7 DEF Register, At, CPCs
  <2>8. CASE SpawnFails
    <3>1. Exit(Killed(pid_), signalled) /\ UNCHANGED <<born, handler>>
      BY <2>8 DEF SpawnFails
    <3>2. /\ Killed(pid_) \in SUBSET Children
          /\ \A k \in Killed(pid_) : child[k] = "alive"
      BY DEF Killed
    <3>3. /\ cpc' = "idle"
          /\ UNCHANGED <<object, monitor, wrote, otherChildren, mutex_exec_, lpc, stale>>
      BY <2>8 DEF SpawnFails, At
    <3>. QED
      BY <3>1, <3>2, <3>3, ExitTyped DEF CPCs
  <2>9. CASE Spawn
    BY <2>9 DEF Spawn, At, CPCs, LPCs
  <2>10. CASE Started
    BY <2>10 DEF Started, At, CPCs
  <2>11. CASE WaitReturns
    BY <2>11 DEF WaitReturns, At, CPCs
  <2>12. CASE Kill
    <3>1. Exit(Killed(born), signalled) /\ UNCHANGED <<born, handler>>
      BY <2>12 DEF Kill
    <3>2. /\ Killed(born) \in SUBSET Children
          /\ \A k \in Killed(born) : child[k] = "alive"
      BY DEF Killed
    <3>3. /\ cpc' = "idle"
          /\ UNCHANGED <<object, monitor, wrote, otherChildren, mutex_exec_, lpc, stale>>
      BY <2>12 DEF Kill, At
    <3>. QED
      BY <3>1, <3>2, <3>3, ExitTyped DEF CPCs
  <2>13. CASE Destroyed
    BY <2>13, ClosedTyped DEF Destroyed, At, CPCs
  <2>. QED
    BY <1>8, <2>1, <2>2, <2>3, <2>4, <2>5, <2>6, <2>7, <2>8, <2>9, <2>10, <2>11,
       <2>12, <2>13 DEF ClientStep, InCreate
<1>9. CASE UNCHANGED vars
  <2>1. /\ state_' = state_ /\ pid_' = pid_ /\ exit_code_' = exit_code_
        /\ started_event_' = started_event_ /\ pipes_' = pipes_
        /\ unread' = unread /\ pid_map_' = pid_map_ /\ installed' = installed
        /\ child' = child /\ born' = born /\ code' = code /\ wrote' = wrote
        /\ early' = early /\ others' = others /\ otherExits' = otherExits
        /\ sigchld' = sigchld /\ handler' = handler
        /\ mutex_exec_' = mutex_exec_ /\ cpc' = cpc /\ lpc' = lpc
        /\ stale' = stale
    BY <1>9 DEF vars
  <2>. QED
    BY <2>1
<1>. QED
  BY <1>1, <1>2, <1>3, <1>4, <1>5, <1>6, <1>7, <1>8, <1>9 DEF Next

(***************************************************************************)
(* Type correctness of the object, the monitor and the threads.            *)
(***************************************************************************)
THEOREM TypeCorrect == Spec => []TypeOK
<1>1. Typed => TypeOK
  BY DEF Typed
<1>. QED
  BY <1>1, InitTyped, StepTyped, PTL DEF Spec

LEMMA InitLocked == Init => Locked
BY DEF Init, Locked, Nobody, Children

LEMMA StepLocked == Typed /\ Locked /\ [Next]_vars => Locked'
<1>. SUFFICES ASSUME Typed, Locked, [Next]_vars
              PROVE  Locked'
  OBVIOUS
<1>. USE DEF Locked
<1>. USE DEF object, monitor, children, otherChildren, signals, threads
<1>t. /\ lpc \in [Children -> LPCs] /\ born \in 0 .. MaxChildren
      /\ MaxChildren \in Nat
      /\ mutex_exec_ \in Children \cup {Nobody} /\ Nobody \notin Children
      /\ cpc \in {"register", "spawn", "starting", "killing"} => born \in Children
      /\ Children \subseteq Nat
  BY ProcessAssumption DEF Typed, TypeOK, Nobody, Children
<1>1. ASSUME NEW k \in Children, ChildExits(k)
      PROVE  Locked'
  BY <1>1 DEF ChildExits
<1>2. ASSUME NEW k \in Children, NEW s \in Streams, ChildWrites(k, s)
      PROVE  Locked'
  BY <1>2 DEF ChildWrites
<1>3. CASE OtherExits
  BY <1>3 DEF OtherExits
<1>4. ASSUME NEW t \in Threads, Handle(t)
      PROVE  Locked'
  <2>1. Elsewhere
    BY <1>4 DEF Handle, ReapChild, ReapOther, Elsewhere
  <2>. QED
    BY <2>1 DEF Elsewhere
<1>5. ASSUME NEW t \in Threads, StoreCode(t)
      PROVE  Locked'
  BY <1>5 DEF StoreCode
<1>6. ASSUME NEW k \in Children, ListenerStep(k)
      PROVE  Locked'
  <2>1. CASE Listen(k)
    BY <1>t, <2>1 DEF Listen
  <2>2. CASE TestRunning(k)
    BY <1>t, <2>2 DEF TestRunning
  <2>3. CASE PollTimesOut(k)
    BY <1>t, <2>3 DEF PollTimesOut
  <2>4. CASE Read(k)
    BY <1>t, <2>4 DEF Read
  <2>5. CASE ReadFails(k)
    BY <1>t, <2>5 DEF ReadFails, Close
  <2>6. CASE Finish(k)
    BY <1>t, <2>6 DEF Finish
  <2>7. CASE End(k)
    BY <1>t, <2>7 DEF End, Close
  <2>. QED
    BY <1>6, <2>1, <2>2, <2>3, <2>4, <2>5, <2>6, <2>7 DEF ListenerStep
<1>7. CASE CallCreate \/ CallWait \/ CallKill \/ Destroy
  BY <1>t, <1>7 DEF CallCreate, CallWait, CallKill, Destroy, At
<1>8. CASE ClientStep
  <2>1. CASE ClosePrevious
    BY <1>t, <2>1 DEF ClosePrevious, Close, At
  <2>2. CASE OpenFails \/ OpenPipes \/ MarkRunning \/ ForkFails
    BY <1>t, <2>2 DEF OpenFails, OpenPipes, MarkRunning, ForkFails, At
  <2>3. CASE Fork
    <3>1. /\ cpc = "fork" /\ cpc' = "register" /\ born' = born + 1
          /\ UNCHANGED <<lpc, mutex_exec_, started_event_>>
      BY <2>3 DEF Fork, At
    <3>2. born + 1 \in Children /\ lpc[born + 1] = "none"
      BY <3>1, ProcessAssumption DEF Typed, TypeOK, Children
    <3>3. \A k \in Children : k > born' => lpc[k] = "none"
      BY <1>t, <3>1
    <3>. QED
      BY <1>t, <3>1, <3>2, <3>3
  <2>4. CASE Register
    BY <1>t, <2>4 DEF Register, At
  <2>5. CASE SpawnFails
    BY <1>t, <2>5 DEF SpawnFails, At
  <2>6. CASE Spawn
    BY <1>t, <2>6 DEF Spawn, At
  <2>7. CASE Started
    BY <1>t, <2>7 DEF Started, At
  <2>8. CASE WaitReturns \/ Kill
    BY <1>t, <2>8 DEF WaitReturns, Kill, At
  <2>9. CASE Destroyed
    <3>1. \A k \in Children : lpc[k] \in {"none", "ended"}
      BY <1>t, <2>9 DEF Destroyed, At, LPCs
    <3>. QED
      BY <1>t, <2>9, <3>1 DEF Destroyed, Close, At
  <2>. QED
    BY <1>8, <2>1, <2>2, <2>3, <2>4, <2>5, <2>6, <2>7, <2>8, <2>9
       DEF ClientStep, InCreate
<1>9. CASE UNCHANGED vars
  BY <1>9 DEF vars
<1>. QED
  BY <1>1, <1>2, <1>3, <1>4, <1>5, <1>6, <1>7, <1>8, <1>9 DEF Next

(***************************************************************************)
(* mutex_exec_ is held throughout the execution of a listen thread: what   *)
(* wait() and the destructor wait for.                                     *)
(***************************************************************************)
THEOREM LockedThroughout == Spec => []ExecutionLocked
<1>1. Typed /\ Locked => ExecutionLocked
  BY DEF Typed, TypeOK, Locked, ExecutionLocked, Listening, LPCs
<1>. QED
  BY <1>1, InitTyped, StepTyped, InitLocked, StepLocked, PTL DEF Spec

-----------------------------------------------------------------------------
(* While create() has never gone on with an earlier listener or handler    *)
(* about, there is one listener at most, that of the last child, and the   *)
(* object is its object until it has been reaped.                          *)
AllReaped == \A k \in Children : k <= born => child[k] = "reaped"

OneAtATime ==
    /\ \A k \in Listening :
          k = born /\ cpc \notin {"close", "open", "mark", "fork", "register", "spawn"}
    /\ \A k \in Children :
          lpc[k] \in {"start", "loop", "poll"} => pipes_ = k /\ pid_ = k
    /\ \A k \in Children :
          lpc[k] \in {"broken", "closing", "ended"} => child[k] = "reaped"
    /\ \A k \in Children : k < born => child[k] = "reaped"
    /\ cpc \in {"close", "open", "mark", "fork"} => AllReaped
    /\ state_ = "STOPPED" /\ cpc # "destroyed" => AllReaped
    /\ cpc = "fork" => state_ = "RUNNING"
    /\ cpc \in {"mark", "fork"} => pipes_ = born + 1
    /\ cpc \in {"register", "spawn"} => pipes_ = born /\ pid_ = born

Followed == ~stale => OneAtATime

LEMMA InitFollowed == Init => Followed
BY DEF Init, Followed, OneAtATime, AllReaped, Listening, Children

(* A step that changes none of this but what is read, stored or counted. *)
LEMMA FollowedKept ==
    ASSUME Followed, UNCHANGED <<stale, lpc, cpc, born, child, state_, pipes_, pid_>>
    PROVE  Followed'
BY DEF Followed, OneAtATime, AllReaped, Listening

(* The end of a child changes nothing: only a reaped child counts. *)
LEMMA FollowedExit ==
    ASSUME Typed, Followed, NEW ending, \A k \in ending : child[k] = "alive",
           NEW c, Exit(ending, c),
           UNCHANGED <<stale, lpc, born, state_, pipes_, pid_>>,
           cpc' = cpc \/ (cpc' = "idle" /\ cpc \in {"spawn", "killing"})
    PROVE  Followed'
<1>1. \A j \in Children : child[j] = "reaped" => child'[j] = "reaped"
  BY DEF Exit, Typed, TypeOK
<1>. QED
  BY <1>1 DEF Followed, OneAtATime, AllReaped, Listening

LEMMA StepFollowed == Typed /\ Locked /\ Followed /\ [Next]_vars => Followed'
<1>. SUFFICES ASSUME Typed, Locked, Followed, [Next]_vars
              PROVE  Followed'
  OBVIOUS
<1>. USE DEF object, monitor, children, otherChildren, signals, threads
<1>t. /\ lpc \in [Children -> LPCs]
      /\ child \in [Children -> {"none", "alive", "zombie", "reaped"}]
      /\ born \in 0 .. MaxChildren /\ MaxChildren \in Nat
      /\ Nobody \notin Children /\ Children \subseteq Nat
      /\ cpc \in {"register", "spawn", "starting", "killing"} => born \in Children
      /\ cpc \in {"mark", "fork"} => born + 1 \in Children
      /\ \A k \in Children : k > born => child[k] = "none" /\ lpc[k] = "none"
      /\ stale \in BOOLEAN
  BY ProcessAssumption DEF Typed, TypeOK, Locked, Nobody, Children
<1>1. ASSUME NEW k \in Children, ChildExits(k)
      PROVE  Followed'
  <2>1. PICK c \in Codes : Exit({k}, c)
    BY <1>1 DEF ChildExits
  <2>. QED
    BY <1>1, <2>1, FollowedExit DEF ChildExits
<1>2. ASSUME NEW k \in Children, NEW s \in Streams, ChildWrites(k, s)
      PROVE  Followed'
  BY <1>2, FollowedKept DEF ChildWrites
<1>3. CASE OtherExits
  BY <1>3, FollowedKept DEF OtherExits
<1>4. ASSUME NEW t \in Threads, Handle(t)
      PROVE  Followed'
  <2>1. CASE ReapChild(t)
    <3>1. PICK k \in Children :
              /\ child[k] = "zombie"
              /\ child' = [child EXCEPT ![k] = "reaped"]
              /\ Stop(t, k)
      BY <2>1 DEF ReapChild
    <3>2. /\ UNCHANGED <<stale, lpc, cpc, born, pipes_, pid_>>
          /\ state_' = state_ \/ state_' = "STOPPED"
      BY <1>4, <2>1, <3>1 DEF Handle, ReapChild, Stop
    <3>3. \A j \in Children : child[j] = "reaped" => child'[j] = "reaped"
      BY <1>t, <3>1
    <3>4. k <= born
      BY <1>t, <3>1
    <3>5. ASSUME ~stale
          PROVE  AllReaped' /\ ~AllReaped
      <4>1. k = born
        BY <1>t, <3>1, <3>4, <3>5 DEF Followed, OneAtATime
      <4>2. child'[k] = "reaped"
        BY <1>t, <3>1
      <4>3. \A j \in Children : j < born => child[j] = "reaped"
        BY <3>5 DEF Followed, OneAtATime
      <4>. QED
        BY <1>t, <3>1, <3>2, <3>3, <4>1, <4>2, <4>3 DEF AllReaped
    <3>. QED
      BY <3>2, <3>3, <3>5 DEF Followed, OneAtATime, Listening
  <2>2. CASE ReapOther(t)
    BY <1>4, <2>2, FollowedKept DEF Handle, ReapOther
  <2>. QED
    BY <1>4, <2>1, <2>2 DEF Handle
<1>5. ASSUME NEW t \in Threads, StoreCode(t)
      PROVE  Followed'
  BY <1>5, FollowedKept DEF StoreCode
<1>6. ASSUME NEW k \in Children, ListenerStep(k)
      PROVE  Followed'
  <2>1. CASE Listen(k) \/ TestRunning(k) \/ PollTimesOut(k) \/ Read(k)
    <3>1. /\ UNCHANGED <<stale, cpc, born, child, state_, pipes_, pid_>>
          /\ \E to \in {"loop", "poll"} : lpc' = [lpc EXCEPT ![k] = to]
          /\ lpc[k] \in {"start", "loop", "poll"}
      BY <2>1 DEF Listen, TestRunning, PollTimesOut, Read
    <3>. QED
      BY <1>t, <3>1 DEF Followed, OneAtATime, AllReaped, Listening
  <2>2. CASE ReadFails(k)
    <3>1. lpc[k] = "poll" /\ pipes_ = Nobody /\ UNCHANGED stale
      BY <2>2 DEF ReadFails
    <3>2. stale
      BY <1>t, <3>1 DEF Followed, OneAtATime
    <3>. QED
      BY <3>1, <3>2 DEF Followed
  <2>3. CASE Finish(k)
    <3>1. /\ UNCHANGED <<stale, cpc, born, child, state_, pipes_, pid_>>
          /\ lpc' = [lpc EXCEPT ![k] = "closing"]
          /\ lpc[k] = "broken" \/ (lpc[k] = "loop" /\ state_ = "STOPPED")
      BY <2>3 DEF Finish
    <3>2. cpc # "destroyed" /\ k <= born
      BY <1>t, <3>1 DEF Locked
    <3>3. ~stale => child[k] = "reaped"
      BY <3>1, <3>2 DEF Followed, OneAtATime, AllReaped
    <3>. QED
      BY <1>t, <3>1, <3>3 DEF Followed, OneAtATime, AllReaped, Listening
  <2>4. CASE End(k)
    <3>1. /\ UNCHANGED <<stale, cpc, born, child>>
          /\ lpc' = [lpc EXCEPT ![k] = "ended"]
          /\ lpc[k] = "closing"
          /\ state_' = "STOPPED"
      BY <2>4 DEF End, Close
    <3>2. ASSUME ~stale
          PROVE  /\ k = born /\ AllReaped
                 /\ cpc \notin {"close", "open", "mark", "fork", "register", "spawn"}
      <4>1. k \in Listening
        BY <3>1 DEF Listening
      <4>2. k = born /\ cpc \notin {"close", "open", "mark", "fork", "register", "spawn"}
        BY <3>2, <4>1 DEF Followed, OneAtATime
      <4>3. child[k] = "reaped" /\ \A j \in Children : j < born => child[j] = "reaped"
        BY <3>1, <3>2 DEF Followed, OneAtATime
      <4>. QED
        BY <1>t, <4>2, <4>3 DEF AllReaped
    <3>3. ~stale => \A j \in Children : lpc'[j] \notin {"start", "loop", "poll"}
      BY <1>t, <3>1, <3>2 DEF Followed, OneAtATime, Listening
    <3>. QED
      BY <1>t, <3>1, <3>2, <3>3 DEF Followed, OneAtATime, AllReaped, Listening
  <2>. QED
    BY <1>6, <2>1, <2>2, <2>3, <2>4 DEF ListenerStep
<1>7. CASE CallCreate
  <2>1. /\ cpc = "idle" /\ cpc' = "close" /\ state_ = "STOPPED"
        /\ ~stale' => ~stale /\ Listening = {}
        /\ UNCHANGED <<lpc, born, child, state_, pipes_, pid_>>
    BY <1>7 DEF CallCreate, At
  <2>. QED
    BY <2>1 DEF Followed, OneAtATime, AllReaped, Listening
<1>8. CASE CallWait \/ CallKill \/ Destroy
  <2>1. /\ cpc = "idle" /\ cpc' \in {"waiting", "killing", "destroying"}
        /\ UNCHANGED <<stale, lpc, born, child, state_, pipes_, pid_>>
    BY <1>8 DEF CallWait, CallKill, Destroy, At
  <2>. QED
    BY <2>1 DEF Followed, OneAtATime, AllReaped, Listening
<1>9. CASE ClientStep
  <2>1. CASE ClosePrevious
    <3>1. /\ cpc = "close" /\ cpc' = "open" /\ state_' = "STOPPED"
          /\ UNCHANGED <<stale, lpc, born, child>>
      BY <2>1 DEF ClosePrevious, Close, At
    <3>. QED
      BY <1>t, <3>1 DEF Followed, OneAtATime, AllReaped, Listening
  <2>2. CASE OpenFails
    <3>1. /\ cpc = "open" /\ cpc' = "idle"
          /\ UNCHANGED <<stale, lpc, born, child, state_, pipes_, pid_>>
      BY <2>2 DEF OpenFails, At
    <3>. QED
      BY <3>1 DEF Followed, OneAtATime, AllReaped, Listening
  <2>3. CASE OpenPipes
    <3>1. /\ cpc = "open" /\ cpc' = "mark" /\ pipes_' = born + 1
          /\ UNCHANGED <<stale, lpc, born, child, state_, pid_>>
      BY <2>3 DEF OpenPipes, At
    <3>. QED
      BY <1>t, <3>1 DEF Followed, OneAtATime, AllReaped, Listening
  <2>4. CASE MarkRunning
    <3>1. /\ cpc = "mark" /\ cpc' = "fork" /\ state_' = "RUNNING"
          /\ UNCHANGED <<stale, lpc, born, child, pipes_, pid_>>
      BY <2>4 DEF MarkRunning, At
    <3>. QED
      BY <1>t, <3>1 DEF Followed, OneAtATime, AllReaped, Listening
  <2>5. CASE ForkFails
    <3>1. /\ cpc = "fork" /\ cpc' = "idle"
          /\ UNCHANGED <<stale, lpc, born, child, state_, pipes_>>
      BY <2>5 DEF ForkFails, At
    <3>. QED
      BY <1>t, <3>1 DEF Followed, OneAtATime, AllReaped, Listening
  <2>6. CASE Fork
    <3>1. /\ cpc = "fork" /\ cpc' = "register"
          /\ born' = born + 1 /\ pid_' = born + 1
          /\ child' = [child EXCEPT ![born + 1] = "alive"]
          /\ UNCHANGED <<stale, lpc, state_, pipes_>>
      BY <2>6 DEF Fork, At
    <3>2. \A k \in Children : child[k] = "reaped" => child'[k] = "reaped"
      BY <1>t, <3>1
    <3>. QED
      BY <1>t, <3>1, <3>2 DEF Followed, OneAtATime, AllReaped, Listening
  <2>7. CASE Register
    <3>1. /\ cpc = "register" /\ cpc' = "spawn"
          /\ UNCHANGED <<stale, lpc, born, child, state_, pipes_, pid_>>
      BY <2>7 DEF Register, At
    <3>. QED
      BY <3>1 DEF Followed, OneAtATime, AllReaped, Listening
  <2>8. CASE SpawnFails \/ Kill
    <3>1. /\ cpc \in {"spawn", "killing"} /\ cpc' = "idle" /\ born \in Children
          /\ UNCHANGED <<stale, lpc, born, state_, pipes_, pid_>>
      BY <1>t, <2>8 DEF SpawnFails, Kill, At
    <3>2. \E pid \in {pid_, born} : Exit(Killed(pid), signalled)
      BY <2>8 DEF SpawnFails, Kill
    <3>3. \A pid : \A k \in Killed(pid) : child[k] = "alive"
      BY DEF Killed
    <3>. QED
      BY <3>1, <3>2, <3>3, FollowedExit
  <2>9. CASE Spawn
    <3>1. /\ cpc = "spawn" /\ cpc' = "starting"
          /\ lpc' = [lpc EXCEPT ![born] = "start"]
          /\ UNCHANGED <<stale, born, child, state_, pipes_, pid_>>
      BY <2>9 DEF Spawn, At
    <3>. QED
      BY <1>t, <3>1 DEF Followed, OneAtATime, AllReaped, Listening
  <2>10. CASE Started \/ WaitReturns
    <3>1. /\ cpc \in {"starting", "waiting"} /\ cpc' = "idle"
          /\ UNCHANGED <<stale, lpc, born, child, state_, pipes_, pid_>>
      BY <2>10 DEF Started, WaitReturns, At
    <3>. QED
      BY <3>1 DEF Followed, OneAtATime, AllReaped, Listening
  <2>11. CASE Destroyed
    <3>1. /\ cpc = "destroying" /\ cpc' = "destroyed" /\ mutex_exec_ = Nobody
          /\ UNCHANGED <<stale, lpc, born, child>>
      BY <2>11 DEF Destroyed, At
    <3>2. \A k \in Children : lpc[k] \in {"none", "ended"}
      BY <1>t, <3>1 DEF Locked, LPCs
    <3>. QED
      BY <3>1, <3>2 DEF Followed, OneAtATime, AllReaped, Listening
  <2>. QED
    BY <1>9, <2>1, <2>2, <2>3, <2>4, <2>5, <2>6, <2>7, <2>8, <2>9, <2>10, <2>11
       DEF ClientStep, InCreate
<1>10. CASE UNCHANGED vars
  BY <1>10, FollowedKept DEF vars
<1>. QED
  BY <1>1, <1>2, <1>3, <1>4, <1>5, <1>6, <1>7, <1>8, <1>9, <1>10 DEF Next

LEMMA SpecInvariant == Spec => [](Typed /\ Locked /\ Followed)
BY InitTyped, StepTyped, InitLocked, StepLocked, InitFollowed, StepFollowed, PTL
   DEF Spec

(***************************************************************************)
(* event_finished(), wait() and the destructor come after the end of the   *)
(* child.                                                                  *)
(***************************************************************************)
THEOREM FinishedAfterExit == Spec => []FinishedMeansReaped
<1>1. Followed => FinishedMeansReaped
  BY DEF Followed, OneAtATime, FinishedMeansReaped
<1>. QED
  BY <1>1, SpecInvariant, PTL

(***************************************************************************)
(* A child that runs is the object's child until it ends.                  *)
(***************************************************************************)
THEOREM NotForgotten == Spec => []AliveIsRunning
<1>1. Typed /\ Locked /\ Followed => AliveIsRunning
  <2>. SUFFICES ASSUME Typed, Locked, Followed, ~stale,
                       NEW k \in Listening, child[k] = "alive"
                PROVE  state_ = "RUNNING" /\ pid_ = k /\ pipes_ = k
    BY DEF AliveIsRunning
  <2>1. k \in Children /\ lpc[k] \in {"start", "loop", "poll"}
    BY DEF Listening, Typed, TypeOK, LPCs, Followed, OneAtATime
  <2>2. k = born /\ born \in Nat
    BY ProcessAssumption DEF Followed, OneAtATime, Typed, TypeOK
  <2>3. cpc # "destroyed"
    BY <2>1 DEF Locked
  <2>4. ~AllReaped
    BY <2>1, <2>2 DEF AllReaped
  <2>5. state_ = "RUNNING"
    BY <2>3, <2>4 DEF Followed, OneAtATime, Typed, TypeOK
  <2>. QED
    BY <2>1, <2>5 DEF Followed, OneAtATime
<1>. QED
  BY <1>1, SpecInvariant, PTL

-----------------------------------------------------------------------------
(* What becomes of the exit code of the last child, unless create() was    *)
(* called too early: the child is registered before create() can return,   *)
(* so that the handler that reaps it finds it; a child that ends after     *)
(* create() is alive when create() takes the code away; and until the      *)
(* handler has stored the code it is about to.                             *)
Recorded ==
    ~stale =>
      /\ \A t \in Threads :
            handler[t] # Nobody
              => handler[t] = born /\ cpc \notin {"close", "open", "mark", "fork"}
      /\ born # 0 /\ cpc # "register" => born \in pid_map_
      /\ cpc \in {"register", "spawn", "starting"}
           => child[born] = "alive" \/ born \in early
      /\ born # 0 /\ cpc \notin {"register", "spawn", "starting"}
         /\ child[born] = "reaped" /\ code[born] # signalled /\ born \notin early
           => exit_code_ = code[born] \/ \E t \in Threads : handler[t] = born

LEMMA InitRecorded == Init => Recorded
BY DEF Init, Recorded

(* A step that changes none of this: create() goes on, or nowhere near.    *)
LEMMA RecordedKept ==
    ASSUME Recorded,
           UNCHANGED <<stale, handler, born, pid_map_, child, early, code, exit_code_>>,
           \/ cpc' = cpc
           \/ /\ cpc \notin {"register", "spawn", "starting"}
              /\ cpc' \notin {"register", "spawn", "starting"}
              /\ ~stale /\ cpc' \in {"close", "open", "mark", "fork"}
                    => \A t \in Threads : handler[t] = Nobody
    PROVE  Recorded'
BY DEF Recorded

(* The end of a child: it is a zombie, and early if create() is about.     *)
LEMMA RecordedExit ==
    ASSUME Typed, Recorded,
           NEW ending \in SUBSET Children, \A k \in ending : child[k] = "alive",
           NEW c, Exit(ending, c),
           UNCHANGED <<stale, handler, born, pid_map_, exit_code_>>,
           cpc' = cpc \/ (cpc' = "idle" /\ cpc \in {"spawn", "killing"})
    PROVE  Recorded'
<1>. SUFFICES ASSUME ~stale'
              PROVE  Recorded'
  BY DEF Recorded
<1>. USE DEF Typed, TypeOK, Nobody, Children
<1>1. ~stale /\ Recorded
  OBVIOUS
<1>2. /\ child' = [k \in Children |-> IF k \in ending THEN "zombie" ELSE child[k]]
      /\ code' = [k \in Children |-> IF k \in ending THEN c ELSE code[k]]
      /\ early' = IF cpc \in {"register", "spawn", "starting"}
                  THEN early \cup (ending \cap {born}) ELSE early
  BY DEF Exit
<1>3. born # 0 => born \in Children
  BY ProcessAssumption
<1>4. ASSUME born # 0
      PROVE  /\ child'[born] = "reaped" => child[born] = "reaped" /\ code'[born] = code[born]
             /\ child'[born] # "alive" => child[born] # "alive" \/ born \in ending
             /\ born \in early => born \in early'
  <2>1. born \in Children
    BY <1>3, <1>4
  <2>2. child'[born] = (IF born \in ending THEN "zombie" ELSE child[born])
    BY <1>2, <2>1
  <2>3. code'[born] = (IF born \in ending THEN c ELSE code[born])
    BY <1>2, <2>1
  <2>. QED
    BY <1>2, <2>2, <2>3
<1>5. cpc \in {"register", "spawn", "starting"} => born # 0
  BY DEF Typed
<1>6. cpc' \in {"register", "spawn", "starting"}
        => child'[born] = "alive" \/ born \in early'
  BY <1>1, <1>2, <1>4, <1>5 DEF Recorded
<1>7. born # 0 /\ cpc' \notin {"register", "spawn", "starting"}
      /\ child'[born] = "reaped" /\ code'[born] # signalled /\ born \notin early'
        => exit_code_' = code'[born] \/ \E t \in Threads : handler'[t] = born
  <2>. SUFFICES ASSUME born # 0, cpc' \notin {"register", "spawn", "starting"},
                       child'[born] = "reaped", code'[born] # signalled, born \notin early'
                PROVE  exit_code_ = code[born] \/ \E t \in Threads : handler[t] = born
    BY <1>4
  <2>1. child[born] = "reaped" /\ code[born] # signalled /\ born \notin early
    BY <1>4
  <2>2. cpc \notin {"register", "spawn", "starting"}
    BY <1>1, <2>1 DEF Recorded
  <2>. QED
    BY <1>1, <2>1, <2>2 DEF Recorded
<1>. QED
  BY <1>1, <1>6, <1>7 DEF Recorded

(* A signal reaps the last child, or one that is not the object's. *)
LEMMA RecordedHandle ==
    ASSUME Typed, Followed, Recorded, NEW t \in Threads, Handle(t)
    PROVE  Recorded'
<1>. SUFFICES ASSUME ~stale
              PROVE  Recorded'
  BY DEF Handle, Recorded, threads
<1>. USE DEF Typed, TypeOK, Nobody, Children
<1>1. /\ handler[t] = Nobody
      /\ UNCHANGED <<monitor, threads>>
      /\ UNCHANGED <<born, code, early, exit_code_>>
  BY DEF Handle, Free, ReapChild, ReapOther, object, children
<1>2. CASE ReapOther(t)
  BY <1>1, <1>2, RecordedKept DEF ReapOther, children, monitor, threads
<1>3. CASE ReapChild(t)
  <2>1. PICK k \in Children :
            /\ child[k] = "zombie"
            /\ child' = [child EXCEPT ![k] = "reaped"]
            /\ Stop(t, k)
    BY <1>3 DEF ReapChild
  <2>2. k = born /\ born \in Children
    <3>1. k <= born /\ ~(k < born)
      BY <2>1 DEF Followed, OneAtATime
    <3>. QED
      BY <3>1, ProcessAssumption
  <2>3. cpc \notin {"close", "open", "mark", "fork"}
    BY <2>1, <2>2 DEF Followed, OneAtATime, AllReaped
  <2>4. child'[born] = "reaped"
    BY <2>1, <2>2
  <2>5. \A u \in Threads : handler'[u] = handler[u] \/ handler'[u] = born
    BY <2>1, <2>2 DEF Stop
  <2>6. \A u \in Threads :
           handler'[u] # Nobody
             => handler'[u] = born' /\ cpc' \notin {"close", "open", "mark", "fork"}
    BY <1>1, <2>3, <2>5 DEF Recorded, threads
  <2>7. born # 0 /\ cpc # "register" => born \in pid_map_
    BY DEF Recorded
  <2>8. cpc \in {"register", "spawn", "starting"} => born \in early
    BY <2>1, <2>2 DEF Recorded
  <2>9. cpc # "register" /\ code[born] # signalled => handler'[t] = born
    BY <2>1, <2>2, <2>7 DEF Stop
  <2>. QED
    BY <1>1, <2>4, <2>6, <2>7, <2>8, <2>9 DEF Recorded, threads, monitor
<1>. QED
  BY <1>2, <1>3 DEF Handle

(* The handler stores the exit code of the last child. *)
LEMMA RecordedStore ==
    ASSUME Typed, Recorded, NEW t \in Threads, StoreCode(t)
    PROVE  Recorded'
<1>. SUFFICES ASSUME ~stale
              PROVE  Recorded'
  BY DEF StoreCode, Recorded, threads
<1>1. /\ handler[t] # Nobody
      /\ exit_code_' = code[handler[t]]
      /\ handler' = [handler EXCEPT ![t] = Nobody]
      /\ UNCHANGED <<monitor, children, threads>>
  BY DEF StoreCode
<1>2. handler[t] = born /\ exit_code_' = code[born]
  BY <1>1 DEF Recorded
<1>3. \A u \in Threads : handler'[u] = handler[u] \/ handler'[u] = Nobody
  BY <1>1 DEF Typed, TypeOK
<1>. QED
  BY <1>1, <1>2, <1>3 DEF Recorded, monitor, children, threads

LEMMA StepRecorded ==
    Typed /\ Locked /\ Followed /\ Recorded /\ [Next]_vars => Recorded'
<1>. SUFFICES ASSUME Typed, Locked, Followed, Recorded, [Next]_vars
              PROVE  Recorded'
  OBVIOUS
<1>. USE DEF object, monitor, children, otherChildren, signals, threads
<1>1. ASSUME NEW k \in Children, ChildExits(k)
      PROVE  Recorded'
  <2>1. PICK c \in Codes : Exit({k}, c)
    BY <1>1 DEF ChildExits
  <2>2. {k} \in SUBSET Children /\ \A j \in {k} : child[j] = "alive"
    BY <1>1 DEF ChildExits
  <2>3. cpc' = cpc /\ UNCHANGED <<stale, handler, born, pid_map_, exit_code_>>
    BY <1>1 DEF ChildExits
  <2>. QED
    BY <2>1, <2>2, <2>3, RecordedExit
<1>2. ASSUME NEW k \in Children, NEW s \in Streams, ChildWrites(k, s)
      PROVE  Recorded'
  BY <1>2, RecordedKept DEF ChildWrites
<1>3. CASE OtherExits
  BY <1>3, RecordedKept DEF OtherExits
<1>4. ASSUME NEW t \in Threads, Handle(t)
      PROVE  Recorded'
  BY <1>4, RecordedHandle
<1>5. ASSUME NEW t \in Threads, StoreCode(t)
      PROVE  Recorded'
  BY <1>5, RecordedStore
<1>6. ASSUME NEW k \in Children, ListenerStep(k)
      PROVE  Recorded'
  <2>1. /\ cpc' = cpc
        /\ UNCHANGED <<stale, handler, born, pid_map_, child, early, code, exit_code_>>
    BY <1>6 DEF ListenerStep, Listen, TestRunning, PollTimesOut, Read, ReadFails,
                Finish, End, Close
  <2>. QED
    BY <2>1, RecordedKept
<1>7. CASE CallCreate
  <2>1. /\ cpc = "idle" /\ cpc' = "close"
        /\ stale' = (stale \/ Listening # {} \/ \E t \in Threads : ~Free(t))
        /\ UNCHANGED <<handler, born, pid_map_, child, early, code, exit_code_>>
    BY <1>7 DEF CallCreate, At
  <2>. SUFFICES ASSUME ~stale'
                PROVE  Recorded'
    BY DEF Recorded
  <2>2. ~stale /\ \A t \in Threads : handler[t] = Nobody
    BY <2>1 DEF Free
  <2>3. UNCHANGED stale
    BY <2>1, <2>2 DEF Typed, TypeOK
  <2>. QED
    BY <2>1, <2>2, <2>3, RecordedKept
<1>8. CASE CallWait \/ CallKill \/ Destroy
  BY <1>8, RecordedKept DEF CallWait, CallKill, Destroy, At
<1>9. CASE ClientStep
  <2>1. CASE ClosePrevious \/ OpenFails \/ OpenPipes \/ MarkRunning \/ ForkFails
    <3>1. /\ cpc \in {"close", "open", "mark", "fork"}
          /\ cpc' \in {"open", "mark", "fork", "idle"}
          /\ UNCHANGED <<stale, handler, born, pid_map_, child, early, code, exit_code_>>
      BY <2>1 DEF ClosePrevious, OpenFails, OpenPipes, MarkRunning, ForkFails, At, Close
    <3>2. ~stale => \A t \in Threads : handler[t] = Nobody
      BY <3>1 DEF Recorded
    <3>. QED
      BY <3>1, <3>2, RecordedKept
  <2>2. CASE Fork
    <3>1. /\ cpc = "fork" /\ cpc' = "register" /\ born' = born + 1
          /\ child' = [child EXCEPT ![born + 1] = "alive"]
          /\ UNCHANGED <<stale, handler, pid_map_, early, code, exit_code_>>
      BY <2>2 DEF Fork, At
    <3>2. born + 1 \in Children
      BY <3>1, ProcessAssumption DEF Typed, TypeOK, Children
    <3>3. child'[born'] = "alive"
      BY <3>1, <3>2 DEF Typed, TypeOK
    <3>4. ~stale => \A t \in Threads : handler[t] = Nobody
      BY <3>1 DEF Recorded
    <3>. QED
      BY <3>1, <3>3, <3>4 DEF Recorded
  <2>3. CASE Register
    <3>1. /\ cpc = "register" /\ cpc' = "spawn"
          /\ pid_map_' = (pid_map_ \cup {pid_}) \ {Nobody}
          /\ UNCHANGED <<stale, handler, born, child, early, code, exit_code_>>
      BY <2>3 DEF Register, At
    <3>2. ~stale => pid_ = born
      BY <3>1 DEF Followed, OneAtATime
    <3>. QED
      BY <3>1, <3>2 DEF Recorded, Nobody
  <2>4. CASE SpawnFails \/ Kill
    <3>1. /\ cpc \in {"spawn", "killing"} /\ cpc' = "idle"
          /\ UNCHANGED <<stale, handler, born, pid_map_, exit_code_>>
      BY <2>4 DEF SpawnFails, Kill, At
    <3>2. PICK pid \in {pid_, born} : Exit(Killed(pid), signalled)
      BY <2>4 DEF SpawnFails, Kill
    <3>3. Killed(pid) \in SUBSET Children /\ \A k \in Killed(pid) : child[k] = "alive"
      BY DEF Killed
    <3>. QED
      BY <3>1, <3>2, <3>3, RecordedExit
  <2>5. CASE Spawn
    BY <2>5 DEF Spawn, At, Recorded
  <2>6. CASE Started
    BY <2>6 DEF Started, At, Recorded
  <2>7. CASE WaitReturns
    BY <2>7, RecordedKept DEF WaitReturns, At
  <2>8. CASE Destroyed
    BY <2>8, RecordedKept DEF Destroyed, Close, At
  <2>. QED
    BY <1>9, <2>1, <2>2, <2>3, <2>4, <2>5, <2>6, <2>7, <2>8 DEF ClientStep, InCreate
<1>10. CASE UNCHANGED vars
  BY <1>10, RecordedKept DEF vars
<1>. QED
  BY <1>1, <1>2, <1>3, <1>4, <1>5, <1>6, <1>7, <1>8, <1>9, <1>10 DEF Next

(***************************************************************************)
(* exit_code() gives the exit code of the child, once the handler is       *)
(* through: no close(), and no later signal, takes it away.                *)
(***************************************************************************)
THEOREM ExitCodeStays == Spec => []ExitCodeKept
<1>1. Typed /\ Recorded => ExitCodeKept
  <2>. SUFFICES ASSUME Typed, Recorded, ~stale, NEW k \in Children, k = born,
                       cpc \notin {"register", "spawn", "starting"},
                       child[k] = "reaped", code[k] # signalled, k \notin early,
                       \A t \in Threads : handler[t] # k
                PROVE  exit_code_ = code[k]
    BY DEF ExitCodeKept
  <2>1. born # 0
    BY ProcessAssumption DEF Children
  <2>. QED
    BY <2>1 DEF Recorded
<1>2. Spec => []Recorded
  BY InitTyped, StepTyped, InitLocked, StepLocked, InitFollowed, StepFollowed,
     InitRecorded, StepRecorded, PTL DEF Spec
<1>. QED
  BY <1>1, <1>2, SpecInvariant, PTL
==============================================================================
