----------------------------- MODULE FilesProofs ------------------------------
(***************************************************************************)
(* Theorems about Files, for any number of processes, objects, names and   *)
(* files: writers are kept out, and kept alone, by the locks of unix and   *)
(* by the sharing modes of windows; and size2() leaves the file pointer    *)
(* where it was.                                                           *)
(***************************************************************************)
EXTENDS Files, TLAPS

Handles == [inode : Inodes \cup {None}, pos : Int, mode : Modes]

LockStates == {"none", "read", "write"}

(* TypeOK without the bounds. *)
Typed ==
    /\ windows \in BOOLEAN
    /\ process \in [Objects -> Processes]
    /\ entry \in [Names -> Inodes \cup {None}]
    /\ length \in [Inodes -> Int]
    /\ lock \in [Inodes -> [Processes -> LockStates]]
    /\ file_path_ \in [Objects -> Names]
    /\ handle \in [Objects -> Handles]
    /\ pc \in [Objects -> PCs]
    /\ target \in [Objects -> Names]
    /\ saved \in [Objects -> Int]

(* The locks that fcntl() has granted do not conflict. *)
Compatible ==
    \A i \in Inodes, p, q \in Processes :
        p # q /\ lock[i][p] = "write" => lock[i][q] = "none"

(* An object that has set its lock still has it, if no other object of its *)
(* process can have given it up.                                           *)
LocksKept ==
    ~windows =>
        \A o \in Objects :
            Alone(o) /\ Holds(o) => lock[handle[o].inode][process[o]] = Wanted(handle[o].mode)

(* On windows only readers have a file open together. *)
SharingKept ==
    windows =>
        \A o, u \in Objects :
            /\ o # u
            /\ IsOpen(o)
            /\ handle[o].inode = handle[u].inode
            => handle[o].mode = "READ" /\ handle[u].mode = "READ"

(* size2() works on a file that is open. *)
SizingOpen == \A o \in Objects : pc[o] = "end" => IsOpen(o)

Excluded == Compatible /\ LocksKept /\ SharingKept /\ SizingOpen

IInv == Typed /\ Excluded

(* A step of o that sets no lock, and opens no file against the sharing    *)
(* mode: it may give up locks of its process.                              *)
LEMMA Loses ==
    ASSUME IInv, NEW o \in Objects,
           handle' \in [Objects -> Handles],
           \A u \in Objects \ {o} :
               handle'[u] = handle[u] /\ pc'[u] = pc[u] /\ (u \in bare' <=> u \in bare),
           \A i \in Inodes, p \in Processes :
               lock'[i][p] = lock[i][p] \/ (p = process[o] /\ lock'[i][p] = "none"),
           pc'[o] # "end",
           ~windows => ~Holds(o)',
           windows =>
               \/ handle'[o].inode = None
               \/ \A u \in Objects \ {o} :
                     handle[u].inode = handle'[o].inode
                     => handle[u].mode = "READ" /\ handle'[o].mode = "READ",
           UNCHANGED <<windows, process>>
    PROVE  Excluded'
<1>1. Compatible'
  <2>. SUFFICES ASSUME NEW i \in Inodes, NEW p \in Processes, NEW q \in Processes,
                       p # q, lock'[i][p] = "write"
                PROVE  lock'[i][q] = "none"
    BY DEF Compatible
  <2>1. lock[i][p] = "write" /\ (lock'[i][q] = lock[i][q] \/ lock'[i][q] = "none")
    OBVIOUS
  <2>2. lock[i][q] = "none"
    BY <2>1 DEF IInv, Excluded, Compatible
  <2>. QED
    BY <2>1, <2>2
<1>2. LocksKept'
  <2>. SUFFICES ASSUME ~windows, NEW u \in Objects, Alone(u)', Holds(u)'
                PROVE  lock'[handle'[u].inode][process[u]] = Wanted(handle'[u].mode)
    BY DEF LocksKept
  <2>1. u # o
    OBVIOUS
  <2>2. Alone(u) /\ process[u] # process[o]
    BY <2>1 DEF Alone
  <2>3. Holds(u) /\ handle'[u] = handle[u]
    BY <2>1 DEF Holds, IsOpen
  <2>4. lock[handle[u].inode][process[u]] = Wanted(handle[u].mode)
    BY <2>2, <2>3 DEF IInv, Excluded, LocksKept
  <2>5. handle[u].inode \in Inodes /\ process[u] \in Processes
    BY <2>3 DEF IInv, Typed, Handles, Holds, IsOpen
  <2>. QED
    BY <2>2, <2>3, <2>4, <2>5
<1>3. SharingKept'
  <2>. SUFFICES ASSUME windows, NEW u \in Objects, NEW v \in Objects, u # v,
                       handle'[u].inode # None, handle'[u].inode = handle'[v].inode
                PROVE  handle'[u].mode = "READ" /\ handle'[v].mode = "READ"
    BY DEF SharingKept, IsOpen
  <2>1. CASE u # o /\ v # o
    BY <2>1 DEF IInv, Excluded, SharingKept, IsOpen
  <2>2. CASE u = o
    BY <2>2
  <2>3. CASE v = o
    BY <2>3
  <2>. QED
    BY <2>1, <2>2, <2>3
<1>4. SizingOpen'
  BY DEF IInv, Excluded, SizingOpen, IsOpen
<1>. QED
  BY <1>1, <1>2, <1>3, <1>4 DEF Excluded

(* Closing gives up locks of the process and nothing else.                 *)
LEMMA UnlockedOK ==
    ASSUME Typed, NEW o \in Objects, NEW i \in Inodes \cup {None}
    PROVE  /\ Unlocked(o, i) \in [Inodes -> [Processes -> LockStates]]
           /\ \A j \in Inodes, p \in Processes :
                 \/ Unlocked(o, i)[j][p] = lock[j][p]
                 \/ p = process[o] /\ Unlocked(o, i)[j][p] = "none"
BY DEF Typed, Unlocked, LockStates

(* A step that moves file pointers, and names, at most.                    *)
LEMMA Moves ==
    ASSUME IInv,
           handle' \in [Objects -> Handles],
           \A u \in Objects : handle'[u].inode = handle[u].inode /\ handle'[u].mode = handle[u].mode,
           \A u \in Objects : pc'[u] = "lock" <=> pc[u] = "lock",
           \A u \in Objects : pc'[u] = "end" => IsOpen(u),
           UNCHANGED <<windows, process, lock, bare>>
    PROVE  Excluded'
<1>1. \A u \in Objects : Holds(u)' <=> Holds(u)
  BY DEF Holds, IsOpen
<1>2. \A u \in Objects : Alone(u)' <=> Alone(u)
  BY DEF Alone
<1>3. LocksKept'
  BY <1>1, <1>2 DEF IInv, Excluded, LocksKept, Wanted
<1>. QED
  BY <1>3 DEF IInv, Excluded, Compatible, SharingKept, SizingOpen, IsOpen

LEMMA FreeUnusedOK == ASSUME Typed, FreeUnused PROVE length' \in [Inodes -> Int]
BY DEF Typed, FreeUnused

LEMMA ClosedOK == Closed \in Handles /\ Closed.inode = None
BY DEF Closed, Handles, Modes

(* close(), the two halves of remove(), and rename().                      *)
LEMMA CloseOK ==
    ASSUME IInv, NEW o \in Objects,
           Close(o) \/ RemoveRefused(o) \/ TestRemove(o) \/ RemoveOnWindows(o) \/ Rename(o)
    PROVE  IInv'
<1>1. /\ handle' = [handle EXCEPT ![o] = Closed]
      /\ UNCHANGED <<windows, process, saved>>
      /\ FreeUnused
  BY DEF Close, RemoveRefused, TestRemove, RemoveOnWindows, Rename, calls
<1>2. pc' = pc \/ pc' = [pc EXCEPT ![o] = "unlink"] \/ pc' = [pc EXCEPT ![o] = "idle"]
  BY DEF Close, RemoveRefused, TestRemove, RemoveOnWindows, Rename, Goes, calls
<1>3. bare' = bare \/ bare' = bare \ {o}
  BY DEF Close, RemoveRefused, TestRemove, RemoveOnWindows, Rename, calls
<1>4. handle' \in [Objects -> Handles] /\ handle'[o].inode = None
  BY <1>1, ClosedOK DEF IInv, Typed
<1>5. handle[o].inode \in Inodes \cup {None}
  BY DEF IInv, Typed, Handles
<1>6. /\ lock' \in [Inodes -> [Processes -> LockStates]]
      /\ \A i \in Inodes, q \in Processes :
            lock'[i][q] = lock[i][q] \/ (q = process[o] /\ lock'[i][q] = "none")
  <2>1. CASE lock' = lock
    BY <2>1 DEF IInv, Typed
  <2>2. CASE lock' = Unlocked(o, handle[o].inode)
    BY <1>5, <2>2, UnlockedOK DEF IInv
  <2>3. CASE \E i \in Inodes \cup {None} :
                lock' = [Unlocked(o, handle[o].inode) EXCEPT ![i][process[o]] = "none"]
    <3>1. PICK i \in Inodes \cup {None} :
              lock' = [Unlocked(o, handle[o].inode) EXCEPT ![i][process[o]] = "none"]
      BY <2>3
    <3>2. /\ Unlocked(o, handle[o].inode) \in [Inodes -> [Processes -> LockStates]]
          /\ \A j \in Inodes, q \in Processes :
                \/ Unlocked(o, handle[o].inode)[j][q] = lock[j][q]
                \/ q = process[o] /\ Unlocked(o, handle[o].inode)[j][q] = "none"
      BY <1>5, UnlockedOK DEF IInv
    <3>. DEFINE l == Unlocked(o, handle[o].inode)
    <3>3. /\ l \in [Inodes -> [Processes -> LockStates]]
          /\ lock' = [l EXCEPT ![i][process[o]] = "none"]
          /\ \A j \in Inodes, q \in Processes :
                l[j][q] = lock[j][q] \/ (q = process[o] /\ l[j][q] = "none")
      BY <3>1, <3>2
    <3>. HIDE DEF l
    <3>4. lock' \in [Inodes -> [Processes -> LockStates]]
      BY <3>3 DEF LockStates
    <3>5. \A j \in Inodes, q \in Processes :
              lock'[j][q] = l[j][q] \/ (q = process[o] /\ lock'[j][q] = "none")
      BY <3>3
    <3>. QED
      BY <3>3, <3>4, <3>5
  <2>. QED
    <3>1. entry[file_path_[o]] \in Inodes \cup {None}
      BY DEF IInv, Typed
    <3>. QED
      BY <2>1, <2>2, <2>3, <3>1 DEF Close, RemoveRefused, TestRemove, RemoveOnWindows, Rename
<1>7. Excluded'
  <2>1. \A u \in Objects \ {o} :
            handle'[u] = handle[u] /\ pc'[u] = pc[u] /\ (u \in bare' <=> u \in bare)
    BY <1>1, <1>2, <1>3 DEF IInv, Typed
  <2>2. ~Holds(o)'
    BY <1>4 DEF Holds, IsOpen
  <2>3. pc'[o] # "end"
    BY <1>2 DEF Close, RemoveRefused, TestRemove, RemoveOnWindows, Rename, Goes, IInv, Typed
  <2>. QED
    BY <1>1, <1>4, <1>6, <2>1, <2>2, <2>3, Loses
<1>8. Typed'
  <2>1. pc' \in [Objects -> PCs]
    BY <1>2 DEF IInv, Typed, PCs
  <2>2. entry' \in [Names -> Inodes \cup {None}]
    BY DEF Close, RemoveRefused, TestRemove, RemoveOnWindows, Rename, IInv, Typed
  <2>3. file_path_' \in [Objects -> Names] /\ target' \in [Objects -> Names]
    BY DEF Close, RemoveRefused, TestRemove, RemoveOnWindows, Rename, calls, IInv, Typed
  <2>4. length' \in [Inodes -> Int]
    BY <1>1, FreeUnusedOK DEF IInv
  <2>. QED
    BY <1>1, <1>4, <1>6, <2>1, <2>2, <2>3, <2>4 DEF IInv, Typed
<1>. QED
  BY <1>7, <1>8 DEF IInv

(* open2(): on windows the file is shared, new or not opened at all.       *)
LEMMA OpenOK ==
    ASSUME IInv, NEW o \in Objects, NEW mode \in Modes, Open(o, mode)
    PROVE  IInv'
<1>1. /\ lock' = Unlocked(o, handle[o].inode)
      /\ bare' = bare \ {o}
      /\ UNCHANGED <<windows, process, file_path_, target, saved>>
  BY DEF Open
<1>2. PICK i \in Inodes \cup {None}, m \in Modes :
          /\ handle' = [handle EXCEPT ![o] = [inode |-> i, pos |-> 0, mode |-> m]]
          /\ i # None => m = mode /\ (~windows => pc' = [pc EXCEPT ![o] = "lock"])
          /\ i # None /\ windows => ~Used(i) \/ Shared(o, i, mode)
          /\ pc' \in {pc, [pc EXCEPT ![o] = "lock"], [pc EXCEPT ![o] = "idle"]}
          /\ entry' \in [Names -> Inodes \cup {None}]
          /\ length' \in [Inodes -> Int]
  <2>1. entry[file_path_[o]] \in Inodes \cup {None}
    BY DEF IInv, Typed
  <2>2. CASE /\ entry[file_path_[o]] # None
             /\ windows => Shared(o, entry[file_path_[o]], mode)
             /\ handle' = [handle EXCEPT ![o] =
                             [inode |-> entry[file_path_[o]], pos |-> 0, mode |-> mode]]
             /\ pc' = [pc EXCEPT ![o] = IF windows THEN "idle" ELSE "lock"]
             /\ UNCHANGED entry
             /\ IF windows /\ mode = "WRITE"
                THEN length' = [length EXCEPT ![entry[file_path_[o]]] = 0] ELSE FreeUnused
    <3>1. length' \in [Inodes -> Int]
      BY <2>2, FreeUnusedOK DEF IInv, Typed
    <3>2. entry' \in [Names -> Inodes \cup {None}]
      BY <2>2 DEF IInv, Typed
    <3>. QED
      BY <2>1, <2>2, <3>1, <3>2
  <2>3. CASE /\ \E i \in Inodes :
                   /\ ~Used(i)
                   /\ entry' = [entry EXCEPT ![file_path_[o]] = i]
                   /\ handle' = [handle EXCEPT ![o] = [inode |-> i, pos |-> 0, mode |-> mode]]
                   /\ FreeUnused
             /\ pc' = [pc EXCEPT ![o] = IF windows THEN "idle" ELSE "lock"]
    <3>1. length' \in [Inodes -> Int]
      BY <2>3, FreeUnusedOK DEF IInv
    <3>2. PICK i \in Inodes :
              /\ ~Used(i)
              /\ entry' = [entry EXCEPT ![file_path_[o]] = i]
              /\ handle' = [handle EXCEPT ![o] = [inode |-> i, pos |-> 0, mode |-> mode]]
      BY <2>3
    <3>3. entry' \in [Names -> Inodes \cup {None}]
      BY <3>2 DEF IInv, Typed
    <3>. QED
      BY <2>3, <3>1, <3>2, <3>3
  <2>4. CASE /\ handle' = [handle EXCEPT ![o] = Closed]
             /\ UNCHANGED <<entry, pc>>
             /\ FreeUnused
    <3>1. length' \in [Inodes -> Int] /\ entry' \in [Names -> Inodes \cup {None}]
      BY <2>4, FreeUnusedOK DEF IInv, Typed
    <3>2. None \in Inodes \cup {None} /\ "READ" \in Modes
      BY DEF Modes
    <3>. QED
      BY <2>4, <3>1, <3>2 DEF Closed
  <2>. QED
    BY <2>2, <2>3, <2>4 DEF Open
<1>3. handle' \in [Objects -> Handles]
      /\ handle'[o] = [inode |-> i, pos |-> 0, mode |-> m]
  BY <1>2 DEF IInv, Typed, Handles
<1>4. pc' \in [Objects -> PCs]
  BY <1>2 DEF IInv, Typed, PCs
<1>5. /\ lock' \in [Inodes -> [Processes -> LockStates]]
      /\ \A j \in Inodes, q \in Processes :
            lock'[j][q] = lock[j][q] \/ (q = process[o] /\ lock'[j][q] = "none")
  <2>1. handle[o].inode \in Inodes \cup {None}
    BY DEF IInv, Typed, Handles
  <2>. QED
    BY <1>1, <2>1, UnlockedOK DEF IInv
<1>6. Excluded'
  <2>1. \A u \in Objects \ {o} :
            handle'[u] = handle[u] /\ pc'[u] = pc[u] /\ (u \in bare' <=> u \in bare)
    BY <1>1, <1>2 DEF IInv, Typed
  <2>2. ~windows => ~Holds(o)'
    BY <1>2, <1>3 DEF Holds, IsOpen, IInv, Typed
  <2>3. windows =>
            \/ handle'[o].inode = None
            \/ \A u \in Objects \ {o} :
                  handle[u].inode = handle'[o].inode
                  => handle[u].mode = "READ" /\ handle'[o].mode = "READ"
    BY <1>2, <1>3 DEF Used, Shared
  <2>4. pc'[o] # "end"
    BY <1>2 DEF Open, IInv, Typed
  <2>. QED
    BY <1>1, <1>3, <1>5, <2>1, <2>2, <2>3, <2>4, Loses
<1>7. Typed'
  BY <1>1, <1>2, <1>3, <1>4, <1>5 DEF IInv, Typed
<1>. QED
  BY <1>6, <1>7 DEF IInv

(* F_SETLK.  The lock is granted only if it agrees with the others.        *)
LEMMA LockOK == ASSUME IInv, NEW o \in Objects, Lock(o) PROVE IInv'
<1>. DEFINE i == handle[o].inode
            wanted == Wanted(handle[o].mode)
<1>1. /\ pc[o] = "lock" /\ pc' = [pc EXCEPT ![o] = "idle"]
      /\ FreeUnused
      /\ UNCHANGED <<windows, process, entry, file_path_, target, saved>>
  BY DEF Lock, Goes
<1>2. i \in Inodes \cup {None} /\ wanted \in {"read", "write"} /\ handle[o].mode \in Modes
  BY DEF IInv, Typed, Handles, Wanted
<1>3. /\ pc' \in [Objects -> PCs] /\ length' \in [Inodes -> Int]
      /\ process[o] \in Processes
  BY <1>1, FreeUnusedOK DEF IInv, Typed, PCs
<1>4. CASE /\ ~Refused(o, i, wanted)
           /\ lock' = [lock EXCEPT ![i][process[o]] = wanted]
           /\ UNCHANGED <<handle, bare>>
  <2>1. lock' \in [Inodes -> [Processes -> LockStates]]
    BY <1>2, <1>3, <1>4 DEF IInv, Typed, LockStates
  <2>2. \A j \in Inodes, q \in Processes :
            lock'[j][q] = IF j = i /\ q = process[o] THEN wanted ELSE lock[j][q]
    BY <1>4 DEF IInv, Typed
  <2>3. \A q \in Processes \ {process[o]} :
            i \in Inodes => lock[i][q] # "write" /\ (wanted = "write" => lock[i][q] = "none")
    BY <1>4 DEF Refused, IInv, Typed, LockStates
  <2>4. Compatible'
    <3>. SUFFICES ASSUME NEW j \in Inodes, NEW q \in Processes, NEW r \in Processes,
                         q # r, lock'[j][q] = "write"
                  PROVE  lock'[j][r] = "none"
      BY DEF Compatible
    <3>1. CASE j # i
      BY <2>2, <3>1 DEF IInv, Excluded, Compatible
    <3>2. CASE j = i /\ q = process[o]
      BY <2>2, <2>3, <3>2
    <3>3. CASE j = i /\ q # process[o]
      BY <2>2, <2>3, <3>3
    <3>. QED
      BY <3>1, <3>2, <3>3
  <2>5. LocksKept'
    <3>. SUFFICES ASSUME ~windows, NEW u \in Objects, Alone(u)', Holds(u)'
                  PROVE  lock'[handle[u].inode][process[u]] = Wanted(handle[u].mode)
      BY <1>1, <1>4 DEF LocksKept
    <3>1. handle[u].inode \in Inodes /\ process[u] \in Processes
      BY <1>4 DEF Holds, IsOpen, IInv, Typed, Handles
    <3>2. CASE u = o
      BY <2>2, <3>1, <3>2
    <3>3. CASE u # o
      <4>1. process[u] # process[o] /\ Alone(u)
        BY <1>1, <3>3 DEF Alone
      <4>2. Holds(u)
        BY <1>1, <1>4, <3>3 DEF Holds, IsOpen, IInv, Typed
      <4>. QED
        BY <1>1, <2>2, <3>1, <4>1, <4>2 DEF IInv, Excluded, LocksKept
    <3>. QED
      BY <3>2, <3>3
  <2>6. SharingKept'
    BY <1>1, <1>4 DEF IInv, Excluded, SharingKept, IsOpen
  <2>7. SizingOpen'
    BY <1>1, <1>4 DEF IInv, Typed, Excluded, SizingOpen, IsOpen
  <2>. QED
    BY <1>1, <1>3, <1>4, <2>1, <2>4, <2>5, <2>6, <2>7 DEF IInv, Typed, Excluded
<1>5. CASE /\ lock' = Unlocked(o, i)
           /\ handle' = [handle EXCEPT ![o] = Closed]
           /\ UNCHANGED bare
  <2>1. handle' \in [Objects -> Handles] /\ handle'[o].inode = None
    BY <1>5, ClosedOK DEF IInv, Typed
  <2>2. /\ lock' \in [Inodes -> [Processes -> LockStates]]
        /\ \A j \in Inodes, q \in Processes :
              lock'[j][q] = lock[j][q] \/ (q = process[o] /\ lock'[j][q] = "none")
    BY <1>2, <1>5, UnlockedOK DEF IInv
  <2>3. \A u \in Objects \ {o} :
            handle'[u] = handle[u] /\ pc'[u] = pc[u] /\ (u \in bare' <=> u \in bare)
    BY <1>1, <1>5 DEF IInv, Typed
  <2>4. ~Holds(o)'
    BY <2>1 DEF Holds, IsOpen
  <2>5. Excluded'
    <3>1. pc'[o] # "end"
      BY <1>1 DEF IInv, Typed
    <3>. QED
      BY <1>1, <2>1, <2>2, <2>3, <2>4, <3>1, Loses
  <2>. QED
    BY <1>1, <1>3, <2>1, <2>2, <2>5 DEF IInv, Typed
<1>6. CASE /\ bare' = bare \cup {o}
           /\ UNCHANGED <<lock, handle>>
  <2>1. Excluded'
    <3>1. \A u \in Objects : Holds(u)' => Holds(u)
      BY <1>1, <1>6 DEF Holds, IsOpen, IInv, Typed
    <3>2. \A u \in Objects : Alone(u)' <=> Alone(u)
      BY <1>1 DEF Alone
    <3>3. LocksKept'
      BY <1>1, <1>6, <3>1, <3>2 DEF IInv, Excluded, LocksKept
    <3>4. SizingOpen'
      BY <1>1, <1>6 DEF IInv, Typed, Excluded, SizingOpen, IsOpen
    <3>. QED
      BY <1>1, <1>6, <3>3, <3>4 DEF IInv, Excluded, Compatible, SharingKept, IsOpen
  <2>. QED
    BY <1>1, <1>3, <1>6, <2>1 DEF IInv, Typed
<1>. QED
  BY <1>4, <1>5, <1>6 DEF Lock

LEMMA AsIntOK == ASSUME NEW n \in Int PROVE AsInt(n) \in Int
BY FilesAssumption DEF AsInt

LEMMA MoveToOK ==
    ASSUME IInv, NEW o \in Objects, NEW pos \in Int, MoveTo(o, pos)
    PROVE  /\ handle' \in [Objects -> Handles]
           /\ \A u \in Objects :
                 handle'[u].inode = handle[u].inode /\ handle'[u].mode = handle[u].mode
BY DEF IInv, Typed, Handles, MoveTo

(* seek2(), read() and write().                                            *)
LEMMA AccessOK ==
    ASSUME IInv, NEW o \in Objects,
           \/ \E d \in {-1, 0, 1}, whence \in {"CURRENT", "BEGIN", "END"} : Seek(o, d, whence)
           \/ \E n \in 1 .. Chunk : Read(o, n) \/ Write(o, n)
    PROVE  IInv'
<1>1. UNCHANGED <<windows, process, entry, lock, file_path_, pc, target, saved, before, bare>>
  BY DEF Seek, Read, Write, files, calls
<1>2. /\ handle[o].pos \in Int /\ handle[o].inode \in Inodes \cup {None}
      /\ \A i \in Inodes : length[i] \in Int
  BY DEF IInv, Typed, Handles
<1>3. UNCHANGED handle \/ \E pos \in Int : MoveTo(o, pos)
  <2>1. ASSUME NEW d \in {-1, 0, 1}, NEW whence \in {"CURRENT", "BEGIN", "END"},
               Seek(o, d, whence)
        PROVE  UNCHANGED handle \/ \E pos \in Int : MoveTo(o, pos)
    <3>. DEFINE base == CASE whence = "CURRENT" -> handle[o].pos
                          [] whence = "BEGIN" -> 0
                          [] whence = "END" -> IF IsOpen(o) THEN length[handle[o].inode] ELSE 0
    <3>1. base \in Int
      BY <1>2 DEF IsOpen
    <3>2. base + d \in Int
      BY <3>1
    <3>3. UNCHANGED handle \/ MoveTo(o, base + d)
      BY <2>1 DEF Seek
    <3>. QED
      BY <3>2, <3>3
  <2>2. ASSUME NEW n \in 1 .. Chunk, Read(o, n) \/ Write(o, n)
        PROVE  \E pos \in Int : MoveTo(o, pos)
    <3>1. handle[o].pos + n \in Int /\ MoveTo(o, handle[o].pos + n)
      BY <1>2, <2>2 DEF Read, Write
    <3>. QED
      BY <3>1
  <2>. QED
    BY <2>1, <2>2
<1>4. /\ handle' \in [Objects -> Handles]
      /\ \A u \in Objects :
            handle'[u].inode = handle[u].inode /\ handle'[u].mode = handle[u].mode
  BY <1>3, MoveToOK DEF IInv, Typed
<1>5. length' \in [Inodes -> Int]
  <2>1. CASE UNCHANGED length
    BY <2>1 DEF IInv, Typed
  <2>2. CASE \E n \in 1 .. Chunk : Write(o, n)
    <3>1. PICK n \in 1 .. Chunk : Write(o, n)
      BY <2>2
    <3>2. handle[o].inode \in Inodes /\ handle[o].pos + n \in Int
      BY <1>2, <3>1 DEF Write, IsOpen
    <3>. QED
      BY <1>2, <3>1, <3>2 DEF Write, IInv, Typed
  <2>. QED
    BY <2>1, <2>2 DEF Seek, Read, files
<1>6. \A u \in Objects : pc'[u] = "end" => IsOpen(u)
  BY <1>1 DEF IInv, Excluded, SizingOpen
<1>7. Excluded'
  BY <1>1, <1>4, <1>6, Moves
<1>. QED
  BY <1>1, <1>4, <1>5, <1>7 DEF IInv, Typed

(* The steps of size2().                                                   *)
LEMMA SizeOK ==
    ASSUME IInv, NEW o \in Objects, Tell(o) \/ SeekEnd(o) \/ SeekBack(o)
    PROVE  IInv'
<1>1. UNCHANGED <<windows, process, entry, length, lock, file_path_, target, bare>>
  BY DEF Tell, SeekEnd, SeekBack, files, objects
<1>2. PICK l \in {"end", "back", "idle"} : pc[o] # "lock" /\ pc' = [pc EXCEPT ![o] = l]
  BY DEF Tell, SeekEnd, SeekBack, Goes
<1>3. /\ handle[o].pos \in Int /\ handle[o].inode \in Inodes \cup {None}
      /\ saved[o] \in Int
  BY DEF IInv, Typed, Handles
<1>4. saved' \in [Objects -> Int]
  BY <1>3, AsIntOK DEF Tell, SeekEnd, SeekBack, Forgets, IInv, Typed
<1>5. /\ handle' \in [Objects -> Handles]
      /\ \A u \in Objects :
            handle'[u].inode = handle[u].inode /\ handle'[u].mode = handle[u].mode
  <2>1. CASE UNCHANGED handle
    BY <2>1 DEF IInv, Typed
  <2>2. CASE SeekBack(o)
    BY <1>3, <2>1, <2>2, MoveToOK DEF SeekBack
  <2>3. CASE SeekEnd(o)
    <3>1. handle[o].inode \in Inodes
      BY <1>3, <2>3 DEF SeekEnd, IInv, Excluded, SizingOpen, IsOpen
    <3>2. length[handle[o].inode] \in Int
      BY <3>1 DEF IInv, Typed
    <3>. QED
      BY <2>3, <3>2, MoveToOK DEF SeekEnd
  <2>. QED
    BY <2>1, <2>2, <2>3 DEF Tell, objects
<1>6. pc' \in [Objects -> PCs] /\ \A u \in Objects : pc'[u] = "lock" <=> pc[u] = "lock"
  BY <1>2 DEF IInv, Typed, PCs
<1>7. \A u \in Objects : pc'[u] = "end" => IsOpen(u)
  BY <1>2 DEF Tell, SeekEnd, SeekBack, Goes, IInv, Typed, Excluded, SizingOpen
<1>8. Excluded'
  BY <1>1, <1>5, <1>6, <1>7, Moves
<1>. QED
  BY <1>1, <1>4, <1>5, <1>6, <1>8 DEF IInv, Typed

(* What changes names only.                                                *)
LEMMA NamesOK ==
    ASSUME IInv,
           \/ \E o \in Objects :
                 \/ Unlink(o) \/ \E n \in Names : Temp(o, n)
                 \/ \E new \in Names \ {file_path_[o]} : TestRename(o, new)
           \/ \E n \in Names : RemoveStatic(n)
    PROVE  IInv'
<1>1. UNCHANGED <<windows, process, lock, handle, saved, bare>>
  BY DEF Unlink, Temp, TestRename, RemoveStatic, files, objects, calls
<1>2. entry' \in [Names -> Inodes \cup {None}] /\ length' \in [Inodes -> Int]
  BY FreeUnusedOK DEF Unlink, Temp, TestRename, RemoveStatic, files, IInv, Typed
<1>3. file_path_' \in [Objects -> Names] /\ target' \in [Objects -> Names]
  BY DEF Unlink, Temp, TestRename, RemoveStatic, objects, calls, IInv, Typed
<1>4. \/ UNCHANGED pc
      \/ \E o \in Objects, l \in {"idle", "rename"} :
            pc[o] \in {"idle", "unlink"} /\ pc' = [pc EXCEPT ![o] = l]
  BY DEF Unlink, Temp, TestRename, RemoveStatic, calls, Goes
<1>5. /\ pc' \in [Objects -> PCs]
      /\ \A u \in Objects : pc'[u] = "lock" <=> pc[u] = "lock"
      /\ \A u \in Objects : pc'[u] = "end" => IsOpen(u)
  BY <1>4 DEF IInv, Typed, PCs, Excluded, SizingOpen
<1>6. handle' \in [Objects -> Handles]
  BY <1>1 DEF IInv, Typed
<1>7. Excluded'
  BY <1>1, <1>5, <1>6, Moves
<1>. QED
  BY <1>1, <1>2, <1>3, <1>5, <1>6, <1>7 DEF IInv, Typed

LEMMA InitIInv == Init => IInv
<1>. SUFFICES ASSUME Init PROVE IInv
  OBVIOUS
<1>1. handle \in [Objects -> Handles] /\ \A o \in Objects : ~IsOpen(o)
  BY ClosedOK DEF Init, IsOpen
<1>2. pc \in [Objects -> PCs] /\ \A o \in Objects : pc[o] = "idle"
  BY DEF Init, PCs
<1>3. Typed
  BY <1>1, <1>2, FilesAssumption DEF Init, Typed, LockStates
<1>4. Compatible
  BY DEF Init, Compatible
<1>. QED
  BY <1>1, <1>2, <1>3, <1>4 DEF IInv, Excluded, LocksKept, SharingKept, SizingOpen, Holds

LEMMA NextIInv == IInv /\ [Next]_vars => IInv'
<1>. SUFFICES ASSUME IInv, [Next]_vars PROVE IInv'
  OBVIOUS
<1>1. CASE \E o \in Objects : \E mode \in Modes : Open(o, mode)
  BY <1>1, OpenOK
<1>2. CASE \E o \in Objects : Lock(o)
  BY <1>2, LockOK
<1>3. CASE \E o \in Objects :
              Close(o) \/ RemoveRefused(o) \/ TestRemove(o) \/ RemoveOnWindows(o) \/ Rename(o)
  BY <1>3, CloseOK
<1>4. CASE \E o \in Objects :
              \/ \E d \in {-1, 0, 1}, whence \in {"CURRENT", "BEGIN", "END"} : Seek(o, d, whence)
              \/ \E n \in 1 .. Chunk : Read(o, n) \/ Write(o, n)
  <2>1. PICK o \in Objects :
              \/ \E d \in {-1, 0, 1}, whence \in {"CURRENT", "BEGIN", "END"} : Seek(o, d, whence)
              \/ \E n \in 1 .. Chunk : Read(o, n) \/ Write(o, n)
    BY <1>4
  <2>. QED
    BY <2>1, AccessOK
<1>5. CASE \E o \in Objects : Tell(o) \/ SeekEnd(o) \/ SeekBack(o)
  BY <1>5, SizeOK
<1>6. CASE \/ \E o \in Objects :
                 \/ Unlink(o) \/ \E n \in Names : Temp(o, n)
                 \/ \E new \in Names \ {file_path_[o]} : TestRename(o, new)
           \/ \E n \in Names : RemoveStatic(n)
  BY <1>6, NamesOK
<1>7. CASE UNCHANGED vars
  BY <1>7 DEF vars, files, objects, calls, IInv, Typed, Excluded, Compatible, LocksKept,
              SharingKept, SizingOpen, Holds, Alone, IsOpen, Wanted
<1>. QED
  BY <1>1, <1>2, <1>3, <1>4, <1>5, <1>6, <1>7 DEF Next

(* "Set lock" (open2()): nobody has a file open that another process has   *)
(* open for writing, whoever opens, renames and removes files meanwhile.   *)
THEOREM OneWriter == Spec => []WritersExclude
<1>1. ASSUME IInv PROVE WritersExclude
  <2>. SUFFICES ASSUME NEW o \in Objects, NEW u \in Objects, o # u,
                       Holds(o), Holds(u), handle[o].inode = handle[u].inode,
                       windows \/ (Alone(o) /\ Alone(u))
                PROVE  handle[o].mode = "READ" /\ handle[u].mode = "READ"
    BY DEF WritersExclude
  <2>1. CASE windows
    BY <1>1, <2>1 DEF IInv, Excluded, SharingKept, Holds
  <2>2. CASE ~windows
    <3>1. process[o] # process[u] /\ process[o] \in Processes /\ process[u] \in Processes
      BY <1>1, <2>2 DEF Alone, IInv, Typed
    <3>2. handle[o].inode \in Inodes
      BY <1>1 DEF Holds, IsOpen, IInv, Typed, Handles
    <3>3. /\ lock[handle[o].inode][process[o]] = Wanted(handle[o].mode)
          /\ lock[handle[o].inode][process[u]] = Wanted(handle[u].mode)
      BY <1>1, <2>2 DEF IInv, Excluded, LocksKept
    <3>4. Wanted(handle[o].mode) # "write" /\ Wanted(handle[u].mode) # "write"
      BY <1>1, <3>1, <3>2, <3>3 DEF IInv, Excluded, Compatible, Wanted
    <3>. QED
      BY <3>4 DEF Wanted
  <2>. QED
    BY <2>1, <2>2
<1>2. IInv /\ [Next]_vars => IInv'
  BY NextIInv
<1>. QED
  BY <1>1, <1>2, InitIInv, PTL DEF Spec

-----------------------------------------------------------------------------
(* Sizes and positions are not negative, and size2() remembers what an int *)
(* holds of the position it was called at.                                 *)
Positions ==
    /\ length \in [Inodes -> Nat]
    /\ \A o \in Objects : handle[o].pos \in Nat
    /\ before \in [Objects -> Nat]
    /\ \A o \in Objects : pc[o] \in {"end", "back"} => saved[o] = AsInt(before[o])

(* An int holds what is less than half its range.                          *)
LEMMA AsIntSmall == ASSUME NEW n \in Nat, n < IntHalf PROVE AsInt(n) = n
<1>1. IntHalf \in Nat /\ IntHalf > 0
  BY FilesAssumption
<1>2. ASSUME NEW m \in Nat, NEW b \in Nat, b > 0, m < b
      PROVE  m % b = m
  BY <1>2
<1>3. n + IntHalf \in Nat /\ 2 * IntHalf \in Nat /\ 2 * IntHalf > 0 /\ n + IntHalf < 2 * IntHalf
  BY <1>1
<1>4. (n + IntHalf) % (2 * IntHalf) = n + IntHalf
  BY <1>2, <1>3
<1>. QED
  BY <1>1, <1>4 DEF AsInt

(* A step outside size2().                                                 *)
LEMMA PositionsKept ==
    ASSUME Positions, UNCHANGED <<saved, before>>,
           length' \in [Inodes -> Nat],
           \A o \in Objects : handle'[o].pos \in Nat,
           \A o \in Objects : pc'[o] \in {"end", "back"} => pc'[o] = pc[o]
    PROVE  Positions'
BY DEF Positions

LEMMA FreeUnusedNat ==
    ASSUME Positions, FreeUnused PROVE length' \in [Inodes -> Nat]
BY DEF Positions, FreeUnused

LEMMA InitPositions == Init => Positions
BY DEF Init, Positions, Closed

LEMMA NextPositions == IInv /\ Positions /\ [Next]_vars => Positions'
<1>. SUFFICES ASSUME IInv, Positions, [Next]_vars PROVE Positions'
  OBVIOUS
<1>t. /\ handle \in [Objects -> Handles] /\ pc \in [Objects -> PCs]
      /\ saved \in [Objects -> Int]
      /\ \A o \in Objects : handle[o].inode \in Inodes \cup {None} /\ handle[o].pos \in Nat
      /\ \A i \in Inodes : length[i] \in Nat
  BY DEF IInv, Typed, Handles, Positions
<1>c. Closed \in Handles /\ Closed.pos = 0
  BY ClosedOK DEF Closed
<1>1. ASSUME NEW o \in Objects, NEW mode \in Modes, Open(o, mode)
      PROVE  Positions'
  <2>1. /\ UNCHANGED <<saved, before>>
        /\ pc' = pc \/ \E l \in {"idle", "lock"} : pc' = [pc EXCEPT ![o] = l]
    BY <1>1 DEF Open
  <2>2. \E i : handle' = [handle EXCEPT ![o] = i] /\ i.pos = 0
    <3>1. \A i \in Inodes \cup {None} : [inode |-> i, pos |-> 0, mode |-> mode].pos = 0
      OBVIOUS
    <3>. QED
      BY <1>1, <1>c, <3>1 DEF Open
  <2>3. length' \in [Inodes -> Nat]
    <3>1. FreeUnused \/ \E i : length' = [length EXCEPT ![i] = 0]
      BY <1>1 DEF Open
    <3>. QED
      BY <3>1, FreeUnusedNat DEF Positions
  <2>. QED
    BY <1>t, <2>1, <2>2, <2>3, PositionsKept
<1>2. ASSUME NEW o \in Objects,
             \/ Lock(o) \/ Close(o) \/ RemoveRefused(o) \/ TestRemove(o)
             \/ RemoveOnWindows(o) \/ Rename(o)
      PROVE  Positions'
  <2>1. /\ UNCHANGED <<saved, before>> /\ FreeUnused
        /\ pc' = pc \/ \E l \in {"idle", "unlink"} : pc' = [pc EXCEPT ![o] = l]
        /\ handle' = handle \/ handle' = [handle EXCEPT ![o] = Closed]
    BY <1>2 DEF Lock, Close, RemoveRefused, TestRemove, RemoveOnWindows, Rename, Goes, calls
  <2>. QED
    BY <1>t, <1>c, <2>1, FreeUnusedNat, PositionsKept
<1>3. ASSUME NEW o \in Objects, NEW d \in {-1, 0, 1},
             NEW whence \in {"CURRENT", "BEGIN", "END"}, Seek(o, d, whence)
      PROVE  Positions'
  <2>. DEFINE base == CASE whence = "CURRENT" -> handle[o].pos
                        [] whence = "BEGIN" -> 0
                        [] whence = "END" -> IF IsOpen(o) THEN length[handle[o].inode] ELSE 0
  <2>1. base \in Int
    BY <1>t DEF IsOpen
  <2>2. UNCHANGED handle \/ (base + d >= 0 /\ MoveTo(o, base + d))
    <3>1. ~(base + d < 0) => base + d >= 0
      BY <2>1
    <3>. QED
      BY <1>3, <3>1 DEF Seek
  <2>. HIDE DEF base
  <2>3. \A u \in Objects : handle'[u].pos \in Nat
    <3>1. base + d >= 0 => base + d \in Nat
      BY <2>1
    <3>. QED
      BY <1>t, <2>2, <3>1 DEF MoveTo, Handles
  <2>4. UNCHANGED <<saved, before, pc, length>>
    BY <1>3 DEF Seek, files, calls
  <2>. QED
    BY <2>3, <2>4, PositionsKept DEF Positions
<1>4. ASSUME NEW o \in Objects, NEW n \in 1 .. Chunk, Read(o, n) \/ Write(o, n)
      PROVE  Positions'
  <2>1. /\ UNCHANGED <<saved, before, pc>>
        /\ MoveTo(o, handle[o].pos + n) /\ handle[o].inode \in Inodes
        /\ handle[o].pos + n \in Nat
    BY <1>t, <1>4 DEF Read, Write, IsOpen, calls
  <2>2. \A u \in Objects : handle'[u].pos \in Nat
    BY <1>t, <2>1 DEF MoveTo, Handles
  <2>3. length' \in [Inodes -> Nat]
    <3>1. CASE Read(o, n)
      BY <3>1 DEF Read, files, Positions
    <3>2. CASE Write(o, n)
      BY <1>t, <2>1, <3>2 DEF Write, Positions
    <3>. QED
      BY <1>4, <3>1, <3>2
  <2>. QED
    BY <2>1, <2>2, <2>3, PositionsKept
<1>5. ASSUME NEW o \in Objects, Tell(o)
      PROVE  Positions'
  <2>1. /\ pc' = [pc EXCEPT ![o] = "end"]
        /\ saved' = [saved EXCEPT ![o] = AsInt(handle[o].pos)]
        /\ before' = [before EXCEPT ![o] = handle[o].pos]
        /\ UNCHANGED <<length, handle>>
    BY <1>5 DEF Tell, Goes, files, objects
  <2>. QED
    BY <1>t, <2>1 DEF Positions
<1>6. ASSUME NEW o \in Objects, SeekEnd(o)
      PROVE  Positions'
  <2>1. handle[o].inode \in Inodes
    BY <1>6, <1>t DEF SeekEnd, IInv, Excluded, SizingOpen, IsOpen
  <2>2. /\ MoveTo(o, length[handle[o].inode]) /\ length[handle[o].inode] \in Nat
        /\ UNCHANGED length
    BY <1>6, <1>t, <2>1 DEF SeekEnd, files
  <2>3. \A u \in Objects : handle'[u].pos \in Nat
    BY <1>t, <2>2 DEF MoveTo, Handles
  <2>4. \/ pc' = [pc EXCEPT ![o] = "idle"] /\ Forgets(o)
        \/ pc[o] = "end" /\ pc' = [pc EXCEPT ![o] = "back"] /\ UNCHANGED <<saved, before>>
    BY <1>6 DEF SeekEnd, Goes
  <2>. QED
    BY <1>t, <2>2, <2>3, <2>4 DEF Positions, Forgets
<1>7. ASSUME NEW o \in Objects, SeekBack(o)
      PROVE  Positions'
  <2>1. /\ pc' = [pc EXCEPT ![o] = "idle"] /\ Forgets(o) /\ UNCHANGED length
        /\ UNCHANGED handle \/ (saved[o] >= 0 /\ MoveTo(o, saved[o]))
    BY <1>7, <1>t DEF SeekBack, Goes, files
  <2>2. \A u \in Objects : handle'[u].pos \in Nat
    BY <1>t, <2>1 DEF MoveTo, Handles
  <2>. QED
    BY <1>t, <2>1, <2>2 DEF Positions, Forgets
<1>8. CASE \/ \E o \in Objects :
                 \/ Unlink(o) \/ \E n \in Names : Temp(o, n)
                 \/ \E new \in Names \ {file_path_[o]} : TestRename(o, new)
           \/ \E n \in Names : RemoveStatic(n)
  <2>1. UNCHANGED <<handle, saved, before>> /\ (FreeUnused \/ UNCHANGED length)
    BY <1>8 DEF Unlink, Temp, TestRename, RemoveStatic, files, objects, calls
  <2>2. UNCHANGED pc \/ \E o \in Objects, l \in {"idle", "rename"} : pc' = [pc EXCEPT ![o] = l]
    BY <1>8 DEF Unlink, Temp, TestRename, RemoveStatic, calls, Goes
  <2>3. length' \in [Inodes -> Nat]
    BY <2>1, FreeUnusedNat DEF Positions
  <2>. QED
    BY <1>t, <2>1, <2>2, <2>3, PositionsKept
<1>9. CASE UNCHANGED vars
  BY <1>9 DEF vars, files, objects, calls, Positions
<1>. QED
  BY <1>1, <1>2, <1>3, <1>4, <1>5, <1>6, <1>7, <1>8, <1>9 DEF Next

(***************************************************************************)
(* size2() leaves the file pointer where it was, whatever is written,      *)
(* renamed and removed meanwhile: for what an int holds.                   *)
(***************************************************************************)
THEOREM SizeRestores == Spec => SizeKeepsPosition
<1>. DEFINE Kept(o) ==
        /\ pc[o] \in {"end", "back"} /\ pc'[o] = "idle"
        /\ before[o] < IntHalf
        /\ length[handle[o].inode] < IntHalf
        => handle'[o].pos = before[o]
<1>1. ASSUME IInv, Positions, [Next]_vars PROVE [\A o \in Objects : Kept(o)]_vars
  <2>. SUFFICES ASSUME NEW o \in Objects, Next,
                       pc[o] \in {"end", "back"}, pc'[o] = "idle",
                       before[o] < IntHalf, length[handle[o].inode] < IntHalf
                PROVE  handle'[o].pos = before[o]
    BY <1>1
  <2>t. /\ handle \in [Objects -> Handles] /\ pc \in [Objects -> PCs]
        /\ before[o] \in Nat /\ saved[o] = AsInt(before[o])
    BY <1>1 DEF IInv, Typed, Positions
  <2>1. SeekEnd(o) \/ SeekBack(o)
    <3>1. ASSUME NEW u \in Objects, NEW mode \in Modes
          PROVE  ~Open(u, mode)
      BY <2>t DEF Open
    <3>2. ASSUME NEW u \in Objects
          PROVE  /\ ~Lock(u) /\ ~Close(u) /\ ~RemoveRefused(u) /\ ~TestRemove(u)
                 /\ ~RemoveOnWindows(u) /\ ~Rename(u) /\ ~Unlink(u) /\ ~Tell(u)
      BY <2>t DEF Lock, Close, RemoveRefused, TestRemove, RemoveOnWindows, Rename,
                  Unlink, Tell, Goes, calls
    <3>3. ASSUME NEW u \in Objects, NEW d, NEW whence
          PROVE  ~Seek(u, d, whence)
      BY <2>t DEF Seek, calls
    <3>4. ASSUME NEW u \in Objects, NEW n
          PROVE  ~Read(u, n) /\ ~Write(u, n) /\ ~Temp(u, n) /\ ~TestRename(u, n)
      BY <2>t DEF Read, Write, Temp, TestRename, Goes, calls
    <3>5. \A n : ~RemoveStatic(n)
      BY <2>t DEF RemoveStatic, calls
    <3>6. \E u \in Objects : SeekEnd(u) \/ SeekBack(u)
      BY <3>1, <3>2, <3>3, <3>4, <3>5 DEF Next
    <3>. QED
      BY <2>t, <3>6 DEF SeekEnd, SeekBack, Goes
  <2>2. CASE SeekEnd(o)
    <3>1. length[handle[o].inode] \in Nat
      BY <1>1, <2>t, <2>2 DEF SeekEnd, IInv, Excluded, SizingOpen, IsOpen, Handles, Positions
    <3>2. AsInt(length[handle[o].inode]) # -1
      BY <3>1, AsIntSmall
    <3>3. pc'[o] = "back"
      BY <2>t, <2>2, <3>2 DEF SeekEnd, Goes
    <3>. QED
      BY <3>3
  <2>3. CASE SeekBack(o)
    <3>1. saved[o] = before[o]
      BY <2>t, AsIntSmall
    <3>2. MoveTo(o, before[o])
      BY <2>t, <2>3, <3>1 DEF SeekBack
    <3>. QED
      BY <2>t, <3>2 DEF MoveTo, Handles
  <2>. QED
    BY <2>1, <2>2, <2>3
<1>2. IInv /\ Positions /\ [Next]_vars => [\A o \in Objects : Kept(o)]_vars
  BY <1>1
<1>3. SizeKeepsPosition <=> [][\A o \in Objects : Kept(o)]_vars
  BY DEF SizeKeepsPosition
<1>. QED
  BY <1>2, <1>3, InitIInv, NextIInv, InitPositions, NextPositions, PTL DEF Spec
==============================================================================
