----------------------------- MODULE Directories -----------------------------
(***************************************************************************)
(* A Directory object and the iterators over it, in the unix build         *)
(* (src/unix/directory.cc) or in the windows build                         *)
(* (src/windows/directory.cc), while other processes add and remove        *)
(* entries.  The object owns the handles its iterators read, by the        *)
(* addresses the iterators were made at: a slot is such an address, and    *)
(* holds one iterator at a time.                                           *)
(*                                                                         *)
(* A handle gives every entry that is there throughout once, in any order, *)
(* and one that comes or goes meanwhile or not: unread is what it has      *)
(* still to give.                                                          *)
(***************************************************************************)
CONSTANTS
    EntryNames,     \* the names of files and directories
    Slots,          \* the addresses of iterators
    Handles,        \* what opendir() and FindFirstFile() give
    Windows         \* the builds considered: {FALSE}, {TRUE} or both

ASSUME DirectoriesAssumption == Windows \subseteq BOOLEAN

Dots == {".", ".."}

(* No handle, NULL or INVALID_HANDLE_VALUE; no entry; what is in memory    *)
(* that was never written, or has been written over.                       *)
Unopened == "unopened"
Failed == "failed"
NoEntry == "null"
Garbage == "garbage"
NoIterator == [handle |-> Unopened, cur |-> NoEntry]

ASSUME HandlesAssumption == Unopened \notin Handles /\ Failed \notin Handles

ASSUME NamesAssumption == EntryNames \cap (Dots \cup {NoEntry, Garbage}) = {}

VARIABLES
    windows,        \* the build
    alive,          \* the Directory object has not been destroyed
    dir_handles_,   \* the handle stored for an address, if any
    it,             \* the iterators: dir_handle_ and cur_ent_
    entries,        \* what is in the directory, but for the dots
    open,           \* the handles that have been opened and not closed
    unread,
    owed            \* history: the entries there since a handle was opened, not shown yet

object == <<alive, dir_handles_>>
system == <<entries, open, unread>>

directoryVars == <<windows, object, it, system, owed>>

DirectoriesInit ==
    /\ windows \in Windows
    /\ alive = TRUE
    /\ dir_handles_ = [s \in Slots |-> Unopened]
    /\ it = [s \in Slots |-> NoIterator]
    /\ entries \in SUBSET EntryNames
    /\ open = {}
    /\ unread = [h \in Handles |-> {}]
    /\ owed = [h \in Handles |-> {}]

(* at_end_ on windows; equal to end(). *)
Finished(s) == it[s].cur = NoEntry

(* operator*. *)
Shows(s) == IF Finished(s) THEN "NULL" ELSE it[s].cur

Empty(s) == it[s] = NoIterator

-----------------------------------------------------------------------------
(* Iterator. *)

(* Variant: the entry after one of the dots is taken as it comes. *)
NextSkippingOnce(S) ==
    {[cur |-> e, left |-> S \ {e}] : e \in S \ Dots} \cup
    {[cur |-> e, left |-> S \ {e, d}] : e \in S, d \in S \cap Dots} \cup
    (IF S \subseteq Dots THEN {[cur |-> NoEntry, left |-> {}]} ELSE {})

(* next(): what the iterator may come to, and what is left.  Any of the    *)
(* dots may be met, and is passed over.                                    *)
NextEntry(S) ==
    {[cur |-> e, left |-> S \ (met \cup {e})] : e \in S \ Dots, met \in SUBSET Dots} \cup
    (IF S \subseteq Dots THEN {[cur |-> NoEntry, left |-> {}]} ELSE {})

(* Variant: the entry FindFirstFile() has given is always passed over. *)
FirstEntryOnWindowsSkipped(S) == UNION {NextEntry(S \ {e}) : e \in S}

(* FindFirstFile() gives the first entry with the handle. *)
FirstEntryOnWindows(S) ==
    {[cur |-> e, left |-> S \ {e}] : e \in S \ Dots} \cup
    UNION {NextEntry(S \ {d}) : d \in Dots}

FirstEntry(S) == IF windows THEN FirstEntryOnWindows(S) ELSE NextEntry(S)

(* readdir() may write over what it has given before; windows copies it. *)
Overwritten(h, s) ==
    IF windows THEN {it}
    ELSE {it, [r \in Slots |->
                  IF r # s /\ it[r].handle = h /\ ~Finished(r)
                  THEN [it[r] EXCEPT !.cur = Garbage] ELSE it[r]]}

(* The iterator at s reads on, with what is due of the entries. *)
Reads(s, h, outcomes, due) ==
    \E outcome \in outcomes, others \in Overwritten(h, s) :
        /\ it' = [others EXCEPT ![s] = [handle |-> h, cur |-> outcome.cur]]
        /\ unread' = [unread EXCEPT ![h] = outcome.left]
        /\ owed' = [owed EXCEPT ![h] = due \ {outcome.cur}]

(* begin() at an address that is new to the object. *)
BeginNew(s) ==
    /\ alive /\ Empty(s)
    /\ dir_handles_[s] = Unopened
    /\ \E h \in Handles \ open :
          /\ dir_handles_' = [dir_handles_ EXCEPT ![s] = h]
          /\ open' = open \cup {h}
          /\ Reads(s, h, FirstEntry(entries \cup Dots), entries)
    /\ UNCHANGED <<windows, alive, entries>>

(* The directory cannot be opened: what stands for that is stored as well, *)
(* and found again.                                                        *)
BeginFails(s) ==
    /\ alive /\ Empty(s)
    /\ dir_handles_[s] \in {Unopened, Failed}
    /\ dir_handles_' = [dir_handles_ EXCEPT ![s] = Failed]
    /\ it' = [it EXCEPT ![s] = [handle |-> Failed, cur |-> NoEntry]]
    /\ UNCHANGED <<windows, alive, system, owed>>

(* begin() where the object has stored a handle: it is read on.  On        *)
(* windows cur_ent_ has not been written; unless that looks like one of    *)
(* the dots, it is the entry the iterator begins with.                     *)
BeginAgain(s) ==
    /\ alive /\ Empty(s)
    /\ dir_handles_[s] \in Handles
    /\ LET h == dir_handles_[s]
           unwritten == [cur |-> Garbage, left |-> unread[h]]
       IN  Reads(s, h, NextEntry(unread[h]) \cup (IF windows THEN {unwritten} ELSE {}), owed[h])
    /\ UNCHANGED <<windows, object, entries, open>>

(* Either operator++. *)
Increment(s) ==
    /\ alive /\ it[s].handle \in Handles
    /\ ~Finished(s)
    /\ Reads(s, it[s].handle, NextEntry(unread[it[s].handle]), owed[it[s].handle])
    /\ UNCHANGED <<windows, object, entries, open>>

(* it = dir.begin(): the iterator is copied, and shares the handle. *)
Copy(from, to) ==
    /\ ~Empty(from) /\ Empty(to)
    /\ it' = [it EXCEPT ![to] = it[from]]
    /\ UNCHANGED <<windows, object, system, owed>>

(* The destructor of an iterator does nothing. *)
Drop(s) ==
    /\ ~Empty(s)
    /\ it' = [it EXCEPT ![s] = NoIterator]
    /\ UNCHANGED <<windows, object, system, owed>>

-----------------------------------------------------------------------------
(* Variant: the handles of iterators that are gone are left alone. *)
DestroyUsed ==
    /\ alive
    /\ alive' = FALSE
    /\ open' = open \ {it[s].handle : s \in Slots}
    /\ dir_handles_' = [s \in Slots |-> Unopened]
    /\ UNCHANGED <<windows, it, entries, unread, owed>>

(* ~Directory() closes what it has stored. *)
Destroy ==
    /\ alive
    /\ alive' = FALSE
    /\ open' = open \ {dir_handles_[s] : s \in Slots}
    /\ dir_handles_' = [s \in Slots |-> Unopened]
    /\ UNCHANGED <<windows, it, entries, unread, owed>>

(* Others. *)
AddEntry(n) ==
    /\ n \notin entries
    /\ entries' = entries \cup {n}
    /\ \E H \in SUBSET open :
          unread' = [h \in Handles |-> IF h \in H THEN unread[h] \cup {n} ELSE unread[h]]
    /\ UNCHANGED <<windows, object, it, open, owed>>

RemoveEntry(n) ==
    /\ n \in entries
    /\ entries' = entries \ {n}
    /\ \E H \in SUBSET open :
          unread' = [h \in Handles |-> IF h \in H THEN unread[h] \ {n} ELSE unread[h]]
    /\ owed' = [h \in Handles |-> owed[h] \ {n}]
    /\ UNCHANGED <<windows, object, it, open>>

DirectoriesNext ==
    \/ \E s \in Slots :
          \/ BeginNew(s) \/ BeginFails(s) \/ BeginAgain(s) \/ Increment(s) \/ Drop(s)
          \/ \E to \in Slots \ {s} : Copy(s, to)
    \/ Destroy
    \/ \E n \in EntryNames : AddEntry(n) \/ RemoveEntry(n)

DirectoriesSpec == DirectoriesInit /\ [][DirectoriesNext]_directoryVars

-----------------------------------------------------------------------------
(* Properties. *)

(***************************************************************************)
(* begin() and ++ pass nothing over: when an iterator comes to its end,    *)
(* everything that was there all the time since the handle it reads was    *)
(* opened has been shown, by it, by a copy of it, or by the iterators that *)
(* were made at the same address before, whatever comes and goes.  None of *)
(* them ever shows a dot: "Skip system '.' and '..' directories", in       *)
(* whatever order they come and wherever the reading begins.               *)
(***************************************************************************)
EntriesShown ==
    \A s \in Slots :
        /\ it[s].handle \in Handles /\ Finished(s) => owed[it[s].handle] = {}
        /\ Shows(s) \notin Dots

(***************************************************************************)
(* "Since the Directory object owns the iterator handles, we need to free  *)
(* them": an iterator never reads a handle that is closed while the object *)
(* lives, and no handle stays open after it, those of iterators that have  *)
(* been copied and dropped included.                                       *)
(***************************************************************************)
HandlesOwned ==
    IF alive THEN \A s \in Slots : it[s].handle \in Handles => it[s].handle \in open
    ELSE open = {}
==============================================================================
