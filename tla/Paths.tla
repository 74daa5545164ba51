-------------------------------- MODULE Paths --------------------------------
(***************************************************************************)
(* Path of the unix build (src/path.cc) without its state: names are       *)
(* sequences of characters, of which only the delimiter, the dot and the   *)
(* text NULL, taken for one character, matter.  Positions are those of the *)
(* code, from 0, and npos is -1: what is subtracted below 0 wraps.         *)
(***************************************************************************)
EXTENDS Integers, SequencesExt

Slash == "/"
Dot == "."
Null == <<"NULL">>

IsSlash(c) == c = Slash

(* find() of a delimiter, or the end; rfind(), or -1. *)
Find(s, from) ==
    LET i == SelectInSubSeq(s, from + 1, Len(s), IsSlash)
    IN  IF i = 0 THEN Len(s) ELSE i - 1

RFind(s, pos) ==
    SelectLastInSubSeq(s, 1, IF pos < 0 THEN Len(s) ELSE pos + 1, IsSlash) - 1

Substr(s, from, n) ==
    SubSeq(s, from + 1, IF n < 0 \/ from + n > Len(s) THEN Len(s) ELSE from + n)

-----------------------------------------------------------------------------
(* Path::Iterator. *)

(* Variant: a name of one character at the end is left out. *)
AdvanceShort(s, it) ==
    IF it.end >= Len(s) - 2
    THEN [it EXCEPT !.at_end = TRUE]
    ELSE LET start == IF Find(s, it.start + 1) = 0 THEN it.start + 1 ELSE it.start
         IN  [at_end |-> FALSE, start |-> start, end |-> Find(s, start + 1)]

Advance(s, it) ==
    IF it.end \in {Len(s), Len(s) - 1}
    THEN [it EXCEPT !.at_end = TRUE]
    ELSE LET start == IF Find(s, it.start + 1) = 0 THEN it.start + 1 ELSE it.start
         IN  [at_end |-> FALSE, start |-> start, end |-> Find(s, start + 1)]

Begin(s) == Advance(s, [at_end |-> FALSE, start |-> -1, end |-> 0])

Following(s, it) == Advance(s, [it EXCEPT !.start = it.end])

Item(s, it) ==
    IF it.at_end THEN Null ELSE Substr(s, it.start + 1, it.end - it.start - 1)

(* it == end(). *)
AtEnd(s, it) == it.at_end \/ Item(s, it) = Null

RECURSIVE Walk(_, _)
Walk(s, it) ==
    IF AtEnd(s, it) THEN <<>> ELSE <<Item(s, it)>> \o Walk(s, Following(s, it))

(* What a loop from begin() to end() finds. *)
Components(s) == Walk(s, Begin(s))

RECURSIVE EqualFrom(_, _, _, _)
EqualFrom(p, it, q, jt) ==
    IF AtEnd(p, it) \/ AtEnd(q, jt)
    THEN AtEnd(p, it) /\ AtEnd(q, jt)
    ELSE /\ Item(p, it) = Item(q, jt)
         /\ EqualFrom(p, Following(p, it), q, Following(q, jt))

(* operator==. *)
PathEqual(p, q) == EqualFrom(p, Begin(p), q, Begin(q))

-----------------------------------------------------------------------------
(* The parts of a name, and concatenation. *)

RootName(s) == IF s # <<>> /\ s[1] = Slash THEN <<Slash>> ELSE <<>>

DirName(s) ==
    LET end == Len(s) - 1
        last == RFind(s, -1)
        delim == IF last = end THEN RFind(s, end - 1) ELSE last
    IN  IF delim = -1 THEN <<>> ELSE Substr(s, 0, delim + 1)

BaseName(s) ==
    LET last == RFind(s, -1)
        end == IF last = Len(s) - 1 THEN Len(s) - 2 ELSE Len(s) - 1
        delim == IF last = Len(s) - 1 THEN RFind(s, end) ELSE last
    IN  IF delim = -1 THEN Substr(s, 0, end + 1) ELSE Substr(s, delim + 1, end - delim)

IsDot(c) == c = Dot

ExtName(s) ==
    LET delim == SelectLastInSeq(BaseName(s), IsDot)
    IN  IF delim = 0 THEN <<>> ELSE Substr(BaseName(s), delim, -1)

Glue(p, q) ==
    LET ends == p[Len(p)] = Slash
        begins == q # <<>> /\ q[1] = Slash
    IN  CASE ends /\ begins -> Front(p) \o q
          [] ~ends /\ ~begins -> Append(p, Slash) \o q
          [] OTHER -> p \o q

(* operator+: what is added to a name that is not empty is returned if it  *)
(* is empty.  operator+= is Glue, of a name that is not empty.             *)
Plus(p, q) == IF p = <<>> \/ q = <<>> THEN q ELSE Glue(p, q)

-----------------------------------------------------------------------------
(* The names between the delimiters: where the code walks along a sequence *)
(* from the front, this looks at all of it.                                *)

Runs(s, IsDelim(_)) ==
    LET Starts == {i \in 1 .. Len(s) :
                      ~IsDelim(s[i]) /\ (i = 1 \/ IsDelim(s[i - 1]))}
        End(i) == CHOOSE j \in i .. Len(s) :
                      /\ \A k \in i .. j : ~IsDelim(s[k])
                      /\ j = Len(s) \/ IsDelim(s[j + 1])
        starts == SetToSortSeq(Starts, <)
    IN  [k \in 1 .. Len(starts) |-> SubSeq(s, starts[k], End(starts[k]))]

Names(s) == Runs(s, IsSlash)

NonEmpty(s) == s # <<>>
==============================================================================
