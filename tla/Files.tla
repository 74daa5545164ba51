-------------------------------- MODULE Files --------------------------------
(***************************************************************************)
(* File objects of one or several processes on one file system, in the     *)
(* unix build (src/unix/file.cc) or in the windows build                   *)
(* (src/windows/file.cc).  Each object is used by one thread, which stands *)
(* at pc:                                                                  *)
(*   idle      in no call                                                  *)
(*   lock      in open2(): the file is open, the lock has to be set        *)
(*   end, back in size2(): has to seek to the end, and back                *)
(*   unlink    in remove(): has found that nobody locks the file           *)
(*   rename    in rename(): has found that no file has the new name        *)
(*                                                                         *)
(* A file is what an inode is; its contents are a number of bytes.  An int *)
(* of the unix build holds -IntHalf .. IntHalf - 1.                        *)
(***************************************************************************)
EXTENDS Integers

CONSTANTS
    Objects,        \* the File objects
    Processes,
    Names,          \* the file names
    Inodes,         \* the files; more than the objects and names hold at once are never used
    MaxSize,        \* bound: the size of a file
    Chunk,          \* bound: the bytes read or written at once
    IntHalf,        \* 2^31
    Windows         \* the builds considered: {FALSE}, {TRUE} or both

ASSUME FilesAssumption ==
    /\ MaxSize \in Nat
    /\ Chunk \in Nat
    /\ IntHalf \in Nat \ {0}
    /\ 0 \notin Inodes
    /\ Windows \subseteq BOOLEAN

None == 0
Modes == {"READ", "WRITE", "READWRITE"}
PCs == {"idle", "lock", "end", "back", "unlink", "rename"}

(* No file is open; and a file open for this, at this position. *)
Closed == [inode |-> None, pos |-> 0, mode |-> "READ"]

VARIABLES
    windows, process,   \* the build, and the process of each object
    entry,              \* the file each name is an entry of
    length,             \* the size of each file
    lock,               \* unix: the lock of a process on a file
    file_path_, handle, \* the object
    pc,
    target,             \* the new name of rename()
    saved,              \* what size2() has found to be the position
    before,             \* history: the position when size2() was called
    bare                \* history: the objects opened without a lock

files == <<entry, length>>
objects == <<file_path_, handle>>
calls == <<pc, target, saved, before, bare>>

vars == <<windows, process, files, lock, objects, calls>>

Init ==
    /\ windows \in Windows
    /\ process \in [Objects -> Processes]
    /\ entry = [n \in Names |-> None]
    /\ length = [i \in Inodes |-> 0]
    /\ lock = [i \in Inodes |-> [p \in Processes |-> "none"]]
    /\ file_path_ \in [Objects -> Names]
    /\ handle = [o \in Objects |-> Closed]
    /\ pc = [o \in Objects |-> "idle"]
    /\ target = file_path_
    /\ saved = [o \in Objects |-> 0]
    /\ before = [o \in Objects |-> 0]
    /\ bare = {}

IsOpen(o) == handle[o].inode # None

InUse(i) == \E n \in Names : entry[n] = i

Used(i) == InUse(i) \/ \E o \in Objects : handle[o].inode = i

(* A file that has no name and that nobody has open is gone. *)
FreeUnused == length' = [i \in Inodes |-> IF Used(i)' THEN length[i] ELSE 0]

(* The conversion to int. *)
AsInt(n) == ((n + IntHalf) % (2 * IntHalf)) - IntHalf

Goes(o, from, to) ==
    /\ pc[o] = from
    /\ pc' = [pc EXCEPT ![o] = to]

-----------------------------------------------------------------------------
(* open2() and close(). *)

(* Closing any descriptor of a file gives up every lock of the process. *)
Unlocked(o, i) ==
    IF i = None \/ windows THEN lock ELSE [lock EXCEPT ![i][process[o]] = "none"]

Close(o) ==
    /\ pc[o] = "idle"
    /\ IsOpen(o)
    /\ lock' = Unlocked(o, handle[o].inode)
    /\ handle' = [handle EXCEPT ![o] = Closed]
    /\ bare' = bare \ {o}
    /\ UNCHANGED <<windows, process, entry, file_path_, pc, target, saved, before>>
    /\ FreeUnused

(* The object is destroyed, and another one made for a temporary file,     *)
(* whose name is that of no file yet.                                      *)
Temp(o, n) ==
    /\ pc[o] = "idle"
    /\ ~IsOpen(o)
    /\ entry[n] = None
    /\ file_path_' = [file_path_ EXCEPT ![o] = n]
    /\ target' = [target EXCEPT ![o] = n]
    /\ UNCHANGED <<windows, process, files, lock, handle, pc, saved, before, bare>>

(* What the sharing mode of windows lets be open beside it: everything is  *)
(* opened with FILE_SHARE_READ.                                            *)
Shared(o, i, mode) ==
    \A u \in Objects \ {o} :
        handle[u].inode = i => mode = "READ" /\ handle[u].mode = "READ"

(* A file that is not there is created for writing; windows empties one    *)
(* that is.  On windows there is no lock to set.                           *)
Open(o, mode) ==
    /\ pc[o] = "idle"
    /\ lock' = Unlocked(o, handle[o].inode)
    /\ bare' = bare \ {o}
    /\ LET name == file_path_[o]
           found == entry[name]
       IN  \/ /\ found # None
              /\ windows => Shared(o, found, mode)
              /\ handle' = [handle EXCEPT ![o] = [inode |-> found, pos |-> 0, mode |-> mode]]
              /\ pc' = [pc EXCEPT ![o] = IF windows THEN "idle" ELSE "lock"]
              /\ UNCHANGED entry
              /\ IF windows /\ mode = "WRITE"
                 THEN length' = [length EXCEPT ![found] = 0] ELSE FreeUnused
           \/ /\ found = None /\ mode = "WRITE"
              /\ \E i \in Inodes :
                    /\ ~Used(i)
                    /\ entry' = [entry EXCEPT ![name] = i]
                    /\ handle' = [handle EXCEPT ![o] = [inode |-> i, pos |-> 0, mode |-> mode]]
                    /\ FreeUnused
              /\ pc' = [pc EXCEPT ![o] = IF windows THEN "idle" ELSE "lock"]
           \/ /\ IF found = None THEN mode # "WRITE"
                 ELSE windows /\ ~Shared(o, found, mode)
              /\ handle' = [handle EXCEPT ![o] = Closed]
              /\ UNCHANGED <<entry, pc>>
              /\ FreeUnused
    /\ UNCHANGED <<windows, process, file_path_, target, saved, before>>

Wanted(mode) == IF mode = "READ" THEN "read" ELSE "write"

(* Variant: a reader does not keep a writer out. *)
RefusedByWriters(o, i, wanted) ==
    \E p \in Processes \ {process[o]} : lock[i][p] = "write"

(* F_SETLK is refused because of another process. *)
Refused(o, i, wanted) ==
    \E p \in Processes \ {process[o]} :
        lock[i][p] = "write" \/ (lock[i][p] = "read" /\ wanted = "write")

(* The lock replaces the one the process has on the file.  An error other  *)
(* than a refusal leaves the file open without one.                        *)
Lock(o) ==
    /\ Goes(o, "lock", "idle")
    /\ LET i == handle[o].inode
           wanted == Wanted(handle[o].mode)
       IN  \/ /\ ~Refused(o, i, wanted)
              /\ lock' = [lock EXCEPT ![i][process[o]] = wanted]
              /\ UNCHANGED <<handle, bare>>
           \/ /\ Refused(o, i, wanted)
              /\ lock' = Unlocked(o, i)
              /\ handle' = [handle EXCEPT ![o] = Closed]
              /\ UNCHANGED bare
           \/ /\ bare' = bare \cup {o}
              /\ UNCHANGED <<lock, handle>>
    /\ UNCHANGED <<windows, process, entry, file_path_, target, saved, before>>
    /\ FreeUnused

-----------------------------------------------------------------------------
(* The file pointer. *)

MoveTo(o, pos) == handle' = [handle EXCEPT ![o].pos = pos]

(* seek2(): the result is converted to int, and -1 taken for a failure;    *)
(* before the beginning there is nowhere to seek to.                       *)
Seek(o, distance, whence) ==
    /\ pc[o] = "idle"
    /\ LET base == CASE whence = "CURRENT" -> handle[o].pos
                     [] whence = "BEGIN" -> 0
                     [] whence = "END" -> IF IsOpen(o) THEN length[handle[o].inode] ELSE 0
           fails == ~IsOpen(o) \/ base + distance < 0
       IN  /\ base + distance <= MaxSize
           /\ IF fails THEN UNCHANGED handle ELSE MoveTo(o, base + distance)
    /\ UNCHANGED <<windows, process, files, lock, file_path_, calls>>

(* read() and write() of n bytes; READWRITE does not read on windows. *)
Reads(mode) == mode = "READ" \/ (mode = "READWRITE" /\ ~windows)

Read(o, n) ==
    /\ pc[o] = "idle"
    /\ IsOpen(o)
    /\ Reads(handle[o].mode)
    /\ handle[o].pos + n <= length[handle[o].inode]
    /\ MoveTo(o, handle[o].pos + n)
    /\ UNCHANGED <<windows, process, files, lock, file_path_, calls>>

Write(o, n) ==
    /\ pc[o] = "idle"
    /\ IsOpen(o)
    /\ handle[o].mode # "READ"
    /\ handle[o].pos + n <= MaxSize
    /\ MoveTo(o, handle[o].pos + n)
    /\ length' = [length EXCEPT
          ![handle[o].inode] = IF handle[o].pos + n > @ THEN handle[o].pos + n ELSE @]
    /\ UNCHANGED <<windows, process, entry, lock, file_path_, calls>>

(* size2() of an open file asks tell2() first, which throws if the result  *)
(* is 1.                                                                   *)
Tell(o) ==
    /\ ~windows
    /\ IsOpen(o)
    /\ AsInt(handle[o].pos) # 1
    /\ Goes(o, "idle", "end")
    /\ saved' = [saved EXCEPT ![o] = AsInt(handle[o].pos)]
    /\ before' = [before EXCEPT ![o] = handle[o].pos]
    /\ UNCHANGED <<windows, process, files, lock, objects, target, bare>>

Forgets(o) ==
    /\ saved' = [saved EXCEPT ![o] = 0]
    /\ before' = [before EXCEPT ![o] = 0]

(* seek2(0, ckFILE_END), which takes -1 for a failure. *)
SeekEnd(o) ==
    /\ pc[o] = "end"
    /\ LET size == length[handle[o].inode] IN
       /\ MoveTo(o, size)
       /\ IF AsInt(size) = -1
          THEN Goes(o, "end", "idle") /\ Forgets(o)
          ELSE Goes(o, "end", "back") /\ UNCHANGED <<saved, before>>
    /\ UNCHANGED <<windows, process, files, lock, file_path_, target, bare>>

(* Variant: back to where the end was. *)
SeekNowhere(o) ==
    /\ Goes(o, "back", "idle")
    /\ Forgets(o)
    /\ UNCHANGED <<windows, process, files, lock, file_path_, handle, target, bare>>

(* seek2(cur_pos, ckFILE_BEGIN). *)
SeekBack(o) ==
    /\ Goes(o, "back", "idle")
    /\ IF saved[o] < 0 THEN UNCHANGED handle ELSE MoveTo(o, saved[o])
    /\ Forgets(o)
    /\ UNCHANGED <<windows, process, files, lock, file_path_, target, bare>>

-----------------------------------------------------------------------------
(* remove() and rename(), of an object and static. *)

(* The file is closed, then opened for writing and locked; the descriptor  *)
(* that has tested the lock is closed before the file is unlinked.         *)
TestRemove(o) ==
    /\ ~windows
    /\ Goes(o, "idle", "unlink")
    /\ LET found == entry[file_path_[o]]
           unlocked == Unlocked(o, handle[o].inode)
       IN  /\ found # None => ~Refused(o, found, "write")
           /\ lock' = IF found = None THEN unlocked
                      ELSE [unlocked EXCEPT ![found][process[o]] = "none"]
    /\ handle' = [handle EXCEPT ![o] = Closed]
    /\ bare' = bare \ {o}
    /\ UNCHANGED <<windows, process, entry, file_path_, target, saved, before>>
    /\ FreeUnused

(* Somebody else locks the file: it is closed and stays. *)
RemoveRefused(o) ==
    /\ ~windows
    /\ pc[o] = "idle"
    /\ LET found == entry[file_path_[o]] IN
       /\ found # None /\ Refused(o, found, "write")
       /\ lock' = [Unlocked(o, handle[o].inode) EXCEPT ![found][process[o]] = "none"]
    /\ handle' = [handle EXCEPT ![o] = Closed]
    /\ bare' = bare \ {o}
    /\ UNCHANGED <<windows, process, entry, file_path_, pc, target, saved, before>>
    /\ FreeUnused

Unlink(o) ==
    /\ Goes(o, "unlink", "idle")
    /\ entry' = [entry EXCEPT ![file_path_[o]] = None]
    /\ UNCHANGED <<windows, process, lock, objects, target, saved, before, bare>>
    /\ FreeUnused

(* Nobody else has the file open, as DeleteFile() and MoveFile() demand. *)
Unopened(o, i) == \A u \in Objects \ {o} : handle[u].inode # i

(* On windows DeleteFile() refuses a file that is open. *)
RemoveOnWindows(o) ==
    /\ windows
    /\ pc[o] = "idle"
    /\ LET found == entry[file_path_[o]] IN
       entry' = IF found # None /\ Unopened(o, found)
                THEN [entry EXCEPT ![file_path_[o]] = None] ELSE entry
    /\ handle' = [handle EXCEPT ![o] = Closed]
    /\ UNCHANGED <<windows, process, lock, file_path_, calls>>
    /\ FreeUnused

(* The static remove() asks for no lock. *)
RemoveStatic(n) ==
    /\ entry[n] # None
    /\ windows => \A u \in Objects : handle[u].inode # entry[n]
    /\ entry' = [entry EXCEPT ![n] = None]
    /\ UNCHANGED <<windows, process, lock, objects, calls>>
    /\ FreeUnused

TestRename(o, new) ==
    /\ Goes(o, "idle", "rename")
    /\ entry[new] = None
    /\ target' = [target EXCEPT ![o] = new]
    /\ UNCHANGED <<windows, process, files, lock, objects, saved, before, bare>>

(* The file is closed and renamed; unix replaces a file of that name, and  *)
(* windows moves neither onto one nor an open file.                        *)
Rename(o) ==
    /\ Goes(o, "rename", "idle")
    /\ lock' = Unlocked(o, handle[o].inode)
    /\ handle' = [handle EXCEPT ![o] = Closed]
    /\ bare' = bare \ {o}
    /\ LET old == file_path_[o]
           new == target[o]
           moves == /\ entry[old] # None
                    /\ windows => entry[new] = None /\ Unopened(o, entry[old])
       IN  IF moves
           THEN /\ entry' = [entry EXCEPT ![old] = None, ![new] = entry[old]]
                /\ file_path_' = [file_path_ EXCEPT ![o] = new]
           ELSE UNCHANGED <<entry, file_path_>>
    /\ target' = [target EXCEPT ![o] = file_path_'[o]]
    /\ UNCHANGED <<windows, process, saved, before>>
    /\ FreeUnused

Next ==
    \/ \E o \in Objects :
          \/ Close(o) \/ Lock(o) \/ Tell(o) \/ SeekEnd(o) \/ SeekBack(o)
          \/ TestRemove(o) \/ RemoveRefused(o) \/ Unlink(o) \/ RemoveOnWindows(o)
          \/ Rename(o)
          \/ \E mode \in Modes : Open(o, mode)
          \/ \E n \in Names : Temp(o, n)
          \/ \E d \in {-1, 0, 1}, whence \in {"CURRENT", "BEGIN", "END"} :
                Seek(o, d, whence)
          \/ \E n \in 1 .. Chunk : Read(o, n) \/ Write(o, n)
          \/ \E new \in Names \ {file_path_[o]} : TestRename(o, new)
    \/ \E n \in Names : RemoveStatic(n)

Spec == Init /\ [][Next]_vars

-----------------------------------------------------------------------------
(* Properties. *)

TypeOK ==
    /\ windows \in Windows
    /\ process \in [Objects -> Processes]
    /\ entry \in [Names -> Inodes \cup {None}]
    /\ length \in [Inodes -> 0 .. MaxSize]
    /\ lock \in [Inodes -> [Processes -> {"none", "read", "write"}]]
    /\ file_path_ \in [Objects -> Names]
    /\ handle \in [Objects -> [inode : Inodes \cup {None}, pos : 0 .. MaxSize, mode : Modes]]
    /\ pc \in [Objects -> PCs]
    /\ target \in [Objects -> Names]
    /\ saved \in [Objects -> -IntHalf .. IntHalf - 1]
    /\ before \in [Objects -> 0 .. MaxSize]
    /\ bare \subseteq Objects

(* The only File object of its process, open with its lock set. *)
Alone(o) == \A u \in Objects : process[u] = process[o] => u = o

Holds(o) == IsOpen(o) /\ pc[o] # "lock" /\ o \notin bare

(***************************************************************************)
(* "Set lock" (open2()): nobody has a file open that another process has   *)
(* open for writing.  On windows the sharing mode sees to it, for objects  *)
(* of one process as well; on unix the locks do, for processes with one    *)
(* File object: a second one of the same process would not be kept out,    *)
(* and closing it would give up the lock of the first.                     *)
(***************************************************************************)
WritersExclude ==
    \A o, u \in Objects :
        /\ o # u
        /\ Holds(o) /\ Holds(u)
        /\ handle[o].inode = handle[u].inode
        /\ windows \/ (Alone(o) /\ Alone(u))
        => handle[o].mode = "READ" /\ handle[u].mode = "READ"

(***************************************************************************)
(* size2() leaves the file pointer where it was, whatever others do to the *)
(* file meanwhile: as long as an int holds the position and the size.      *)
(***************************************************************************)
SizeKeepsPosition ==
    [][\A o \in Objects :
          /\ pc[o] \in {"end", "back"} /\ pc'[o] = "idle"
          /\ before[o] < IntHalf
          /\ length[handle[o].inode] < IntHalf
          => handle'[o].pos = before[o]]_vars
==============================================================================
