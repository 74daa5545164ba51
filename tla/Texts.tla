-------------------------------- MODULE Texts --------------------------------
(***************************************************************************)
(* The parts of the library that go through a text from its front: Path,   *)
(* Directory::create, LineReader, the splitting of a child's output into   *)
(* blocks and of a command line into arguments, CrcStream.  text is what   *)
(* is gone through, scan the state of the one that does, its field job.    *)
(* Each is compared with a definition that looks at the whole text.        *)
(***************************************************************************)
EXTENDS Paths, Crc

CONSTANTS
    MaxName,        \* bounds on the length of a name,
    MaxText,        \* of the other texts,
    MaxBytes,       \* and of what is written between two resets
    ReadSize,       \* READ_BUFFER_SIZE - 1
    MaxMeddling,    \* how often another process touches the directories
    CreateOnWindows \* the builds of Directory considered: {FALSE}, {TRUE} or both

ASSUME TextsAssumption ==
    /\ {MaxName, MaxText, MaxBytes, ReadSize, MaxMeddling} \subseteq Nat
    /\ CreateOnWindows \subseteq BOOLEAN

VARIABLES text, scan

textVars == <<text, scan>>

NameChars == {Slash, "a", Dot}
DirectoryChars == {Slash, "a", "b"}
LineChars == {"CR", "LF", "a"}
OutputChars == {"LF", "a", "b"}
CommandChars == {"quote", " ", "a"}
MarkBytes == {0, 14, 40, 76, 100, 102, 115, 187, 191, 221, 238, 239, 247, 251,
              254, 255, 1}
CrcBytes == {{}, 0 .. 7} \cup {{b} : b \in 0 .. 7}

-----------------------------------------------------------------------------
(* LineReader. *)

(* The tests of encoding(), in their order: how many bytes each one skips  *)
(* on top of those before it.  The last one leaves the result alone, which *)
(* is that of the test of the shorter mark.                                *)
Marks ==
    << [mark |-> <<254, 255>>, skip |-> 2, encoding |-> "UTF16BE"],
       [mark |-> <<255, 254>>, skip |-> 2, encoding |-> "UTF16LE"],
       [mark |-> <<247, 100, 76>>, skip |-> 3, encoding |-> "UTF1"],
       [mark |-> <<239, 187, 191>>, skip |-> 3, encoding |-> "UTF8"],
       [mark |-> <<14, 254, 255>>, skip |-> 3, encoding |-> "SCSU"],
       [mark |-> <<251, 238, 40>>, skip |-> 3, encoding |-> "BOCU1"],
       [mark |-> <<0, 0, 254, 255>>, skip |-> 4, encoding |-> "UTF32BE"],
       [mark |-> <<255, 254, 0, 0>>, skip |-> 2, encoding |-> "UTF32LE"],
       [mark |-> <<221, 115, 102, 115>>, skip |-> 4, encoding |-> "UTFEBCDIC"],
       [mark |-> <<251, 238, 40, 255>>, skip |-> 1, encoding |-> "BOCU1"] >>

Encoding(bytes) ==
    LET found == SelectSeq(Marks, LAMBDA m : IsPrefix(m.mark, bytes))
    IN  IF found = <<>> THEN [encoding |-> "ANSI", skip |-> 0]
        ELSE [encoding |-> Last(found).encoding,
              skip |-> FoldLeft(LAMBDA n, m : n + m.skip, 0, found)]

IsBreak(c) == c \in {"CR", "LF"}

(* read_line(): the line, where it leaves the stream and next_str_. *)

(* Variant: the character after a carriage return is lost. *)
LineForgetting(s, pos, next) ==
    LET first == SelectInSubSeq(s, pos + 1, Len(s), IsBreak)
        after == IF first # 0 /\ s[first] = "CR" /\ first < Len(s) THEN first + 1 ELSE first
    IN  IF first = 0
        THEN [line |-> next \o Substr(s, pos, -1), pos |-> Len(s), next |-> <<>>]
        ELSE [line |-> next \o SubSeq(s, pos + 1, first - 1), pos |-> after,
              next |-> <<>>]

Line(s, pos, next) ==
    LET first == SelectInSubSeq(s, pos + 1, Len(s), IsBreak)
        looks == first # 0 /\ s[first] = "CR" /\ first < Len(s)
        after == IF looks THEN first + 1 ELSE first
    IN  IF first = 0
        THEN [line |-> next \o Substr(s, pos, -1), pos |-> Len(s), next |-> <<>>]
        ELSE [line |-> next \o SubSeq(s, pos + 1, first - 1), pos |-> after,
              next |-> IF looks /\ s[after] # "LF" THEN <<s[after]>> ELSE <<>>]

(* end(). *)
Ended == scan.pos = Len(text) /\ scan.next = <<>>

ReadLine ==
    /\ scan.job = "lines" /\ ~Ended
    /\ LET read == Line(text, scan.pos, scan.next) IN
       scan' = [scan EXCEPT !.pos = read.pos, !.next = read.next,
                            !.lines = Append(@, read.line)]
    /\ UNCHANGED text

LinesOf(s) ==
    LET Ends == {i \in 1 .. Len(s) :
                    \/ s[i] = "LF" \/ i = Len(s)
                    \/ s[i] = "CR" /\ s[i + 1] # "LF"}
        ends == <<0>> \o SetToSortSeq(Ends, <)
    IN  [k \in 1 .. Cardinality(Ends) |->
            SelectSeq(SubSeq(s, ends[k] + 1, ends[k + 1]), LAMBDA c : ~IsBreak(c))]

-----------------------------------------------------------------------------
(* What a child writes, and a command line. *)

IsDelim(c) == c = "LF"

(* One character of read_stdout(), read_stderr() and read_output(). *)

(* Variant: an empty block is delivered. *)
SplitEmpty(state, c) ==
    IF IsDelim(c)
    THEN [blocks |-> Append(state.blocks, state.buffer), buffer |-> <<>>]
    ELSE [state EXCEPT !.buffer = Append(@, c)]

Split(state, c) ==
    CASE ~IsDelim(c) -> [state EXCEPT !.buffer = Append(@, c)]
      [] IsDelim(c) /\ state.buffer = <<>> -> state
      [] OTHER -> [blocks |-> Append(state.blocks, state.buffer), buffer |-> <<>>]

(* Any part of what there is may be read at a time. *)
ReadOutput ==
    /\ scan.job = "blocks"
    /\ \E n \in 1 .. ReadSize :
          /\ scan.pos + n =< Len(text)
          /\ scan' = [scan EXCEPT !.pos = @ + n,
                                  !.read = FoldLeft(Split, @, Substr(text, scan.pos, n))]
    /\ UNCHANGED text

(* parse_cmd_line(). *)
Args(s) ==
    LET Step(state, c) ==
            CASE c = "quote" -> [state EXCEPT !.quoted = ~@]
              [] c = " " /\ ~state.quoted /\ state.arg # <<>> ->
                    [state EXCEPT !.args = Append(@, state.arg), !.arg = <<>>]
              [] c = " " /\ ~state.quoted /\ state.arg = <<>> -> state
              [] OTHER -> [state EXCEPT !.arg = Append(@, c)]
        last == FoldLeft(Step, [args |-> <<>>, arg |-> <<>>, quoted |-> FALSE], s)
    IN  IF last.arg = <<>> THEN last.args ELSE Append(last.args, last.arg)

(* The words between the spaces outside quotes, without their quotes. *)
Words(s) ==
    LET Parts(i) == /\ s[i] = " "
                    /\ Cardinality({j \in 1 .. i : s[j] = "quote"}) % 2 = 0
        words == Runs([i \in 1 .. Len(s) |-> i], Parts)
        Bare(w) == SelectSeq([k \in 1 .. Len(w) |-> s[w[k]]], LAMBDA c : c # "quote")
    IN  SelectSeq([k \in 1 .. Len(words) |-> Bare(words[k])], NonEmpty)

-----------------------------------------------------------------------------
(* CrcStream, text being what was written since it was reset. *)

Write ==
    /\ scan.job = "crc"
    /\ \E bytes \in {<<b>> : b \in CrcBytes} \cup {<<b, {0, 7}>> : b \in CrcBytes} :
          /\ Len(text) + Len(bytes) =< MaxBytes
          /\ text' = text \o bytes
          /\ scan' = [scan EXCEPT !.checksum = Written(scan.type, @, bytes)]

Reset ==
    /\ scan.job = "crc"
    /\ text' = <<>>
    /\ scan' = [scan EXCEPT !.checksum = scan.type.ends]

-----------------------------------------------------------------------------
(* Directory::create.  A directory is the way to it, the sequence of the   *)
(* names that lead there from the root or from where the program is.  dirs *)
(* are those there are, files the other entries, cur is cur_path, it the   *)
(* iterator.  What leads from a drive (C:) is a way like one from where    *)
(* the program is.                                                         *)

Way(s) == SelectSeq(<<RootName(s)>>, NonEmpty) \o Names(s)

Here == {<<>>, <<<<Slash>>>>}

Exists(s) == Way(s) \in scan.dirs

Leading == {SubSeq(Way(text), 1, n) : n \in 0 .. Len(Way(text))} \ Here

(* What mkdir(2) needs, whoever calls it. *)
CanMake(d) == d \notin scan.dirs \cup scan.files /\ Front(d) \in scan.dirs

(* cur_path is empty at the beginning on windows. *)
FirstPath(windows) == IF windows THEN <<>> ELSE RootName(text)

NextName == scan.cur \o Item(text, scan.it) \o <<Slash>>

FoundName ==
    /\ scan.job = "create" /\ scan.pc = "look" /\ ~AtEnd(text, scan.it)
    /\ Exists(NextName)
    /\ scan' = [scan EXCEPT !.cur = NextName, !.it = Following(text, @)]
    /\ UNCHANGED text

(* There is no such directory, or exist() is not let look at it; mkdir()   *)
(* may be refused as well, and is wherever exist() is.                     *)
MissedName ==
    /\ scan.job = "create" /\ scan.pc = "look" /\ ~AtEnd(text, scan.it)
    /\ \E refused \in BOOLEAN :
          /\ ~Exists(NextName) \/ refused
          /\ scan' = [scan EXCEPT !.cur = NextName, !.pc = "mkdir", !.refused = refused]
    /\ UNCHANGED text

Makes == CanMake(Way(scan.cur)) /\ ~scan.refused

(* Variant: mkdir() failing does not matter. *)
MakeNameUnchecked ==
    /\ scan.job = "create" /\ scan.pc = "mkdir"
    /\ scan' = [scan EXCEPT !.it = Following(text, @), !.pc = "look",
                            !.dirs = IF Makes
                                     THEN @ \cup {Way(scan.cur)} ELSE @]
    /\ UNCHANGED text

MakeName ==
    /\ scan.job = "create" /\ scan.pc = "mkdir"
    /\ scan' = IF Makes
               THEN [scan EXCEPT !.dirs = @ \cup {Way(scan.cur)},
                                 !.it = Following(text, @), !.pc = "look"]
               ELSE [scan EXCEPT !.pc = "false"]
    /\ UNCHANGED text

Created ==
    /\ scan.job = "create" /\ scan.pc = "look" /\ AtEnd(text, scan.it)
    /\ scan' = [scan EXCEPT !.pc = "true"]
    /\ UNCHANGED text

(* Another process makes, or removes, one of the directories. *)
Meddle ==
    /\ scan.job = "create" /\ scan.pc \in {"look", "mkdir"}
    /\ scan.made + scan.removed < MaxMeddling
    /\ \E d \in Leading :
          \/ /\ CanMake(d)
             /\ scan' = [scan EXCEPT !.dirs = @ \cup {d}, !.made = @ + 1]
          \/ /\ d \in scan.dirs /\ \A e \in scan.dirs \cup scan.files : ~IsStrictPrefix(d, e)
             /\ scan' = [scan EXCEPT !.dirs = @ \ {d}, !.removed = @ + 1]
    /\ UNCHANGED text

-----------------------------------------------------------------------------
TextsInit ==
    \/ /\ text \in BoundedSeq(NameChars, MaxName)
       /\ scan = [job |-> "path"]
    \/ /\ text \in BoundedSeq(DirectoryChars, MaxName)
       /\ \E n \in 0 .. Len(Way(text)), windows \in CreateOnWindows,
             files \in {{}} \cup {{d} : d \in Leading} :
             /\ \A f \in files : Len(f) > n
             /\ scan = [job |-> "create", windows |-> windows, it |-> Begin(text),
                        cur |-> FirstPath(windows), pc |-> "look",
                        refused |-> FALSE, made |-> 0,
                        removed |-> 0, files |-> files,
                        dirs |-> Here \cup {d \in Leading : Len(d) =< n}]
    \/ /\ text \in BoundedSeq(LineChars, MaxText)
       /\ scan = [job |-> "lines", pos |-> 0, next |-> <<>>, lines |-> <<>>]
    \/ /\ text \in BoundedSeq(OutputChars, MaxText)
       /\ scan = [job |-> "blocks", pos |-> 0,
                  read |-> [blocks |-> <<>>, buffer |-> <<>>]]
    \/ /\ text \in BoundedSeq(CommandChars, MaxText)
       /\ scan = [job |-> "args"]
    \/ /\ text \in BoundedSeq(MarkBytes, 4)
       /\ scan = [job |-> "mark"]
    \/ /\ text = <<>>
       /\ \E t \in CrcTypes : scan = [job |-> "crc", type |-> t, checksum |-> t.ends]

TextsNext ==
    \/ ReadLine \/ ReadOutput \/ Write \/ Reset
    \/ FoundName \/ MissedName \/ MakeName \/ Created \/ Meddle

TextsSpec == TextsInit /\ [][TextsNext]_textVars

-----------------------------------------------------------------------------
(* Path: a loop over a name of more than one character meets the names     *)
(* between the delimiters (and empty ones where delimiters meet);          *)
(* dir_name() and base_name() part a name in two, less a delimiter at its  *)
(* end; p + q leads to where q leads from p; and names are equal if what   *)
(* they lead through is.  A name of one character has no components:       *)
(* Iterator::next() takes it for the end.                                  *)
PathsAgree ==
    scan.job = "path" =>
        /\ Len(text) # 1 => SelectSeq(Components(text), NonEmpty) = Names(text)
        /\ text # <<Slash>> =>
              DirName(text) \o BaseName(text) =
                  IF text # <<>> /\ Last(text) = Slash THEN Front(text) ELSE text
        /\ ExtName(text) # <<>> => IsSuffix(<<Dot>> \o ExtName(text), BaseName(text))
        /\ \A k \in 1 .. Len(text) - 1 :
              LET p == SubSeq(text, 1, k)
                  q == SubSeq(text, k + 1, Len(text))
              IN  /\ Names(Plus(p, q)) = Names(p) \o Names(q)
                  /\ PathEqual(p, q) <=> Components(p) = Components(q)

(* Directory::create returns true only when every directory on the way     *)
(* exists, unless somebody has removed one, and false only if somebody has *)
(* touched them, a file is in the way or the program has been refused.  On *)
(* windows this is about names that do not begin with a delimiter.         *)
CreatesDirectories ==
    scan.job = "create" /\ (scan.windows => RootName(text) = <<>>) =>
        /\ scan.pc = "true" /\ scan.removed = 0 /\ Len(text) # 1 => Leading \subseteq scan.dirs
        /\ scan.pc = "false" => scan.made + scan.removed > 0 \/ scan.files # {} \/ scan.refused

(* LineReader returns the lines of the text, whatever mixture of CR, LF    *)
(* and CR LF ends them, if no CR follows another one; and encoding()       *)
(* leaves the stream behind the longest mark there is.                     *)
LinesAgree ==
    /\ scan.job = "lines" /\ (\A i \in 2 .. Len(text) : SubSeq(text, i - 1, i) # <<"CR", "CR">>) =>
          /\ IsPrefix(scan.lines, LinesOf(text))
          /\ Ended => scan.lines = LinesOf(text)
    /\ scan.job = "mark" =>
          LET Longest(m) == \A n \in ToSet(Marks) :
                                IsPrefix(n.mark, text) => Len(n.mark) =< Len(m.mark)
              found == {m \in ToSet(Marks) : IsPrefix(m.mark, text) /\ Longest(m)}
          IN  IF found = {} THEN Encoding(text) = [encoding |-> "ANSI", skip |-> 0]
              ELSE \A m \in found : Encoding(text) =
                       [encoding |-> m.encoding, skip |-> Len(m.mark)]

(* However the output of a child arrives, what has been delivered and what *)
(* is kept are the blocks between the delimiters; and the arguments of a   *)
(* command line are its words.                                             *)
SplitsAgree ==
    /\ scan.job = "blocks" =>
          scan.read.blocks \o SelectSeq(<<scan.read.buffer>>, NonEmpty)
              = Runs(Substr(text, 0, scan.pos), IsDelim)
    /\ scan.job = "args" => Args(text) = Words(text)

(* CrcStream computes the remainder of what was written since the reset.   *)
ChecksumAgrees ==
    scan.job = "crc" => Checksum(scan.type, scan.checksum) = CrcOf(scan.type, text)

(* Paths, lines, blocks, arguments and checksums, each as it is meant to be. *)
TextsAgree == PathsAgree /\ LinesAgree /\ SplitsAgree /\ ChecksumAgrees
==============================================================================
