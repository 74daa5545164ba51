--------------------------------- MODULE Crc ---------------------------------
(***************************************************************************)
(* CrcStream (src/crcstream.cc).  A word is the set of its bits that are   *)
(* set, numbered from the least, and t a type of checksum: its order_, its *)
(* polynomial without the highest term, whether it reflects, and the word  *)
(* that is both the initial and the final one.                             *)
(***************************************************************************)
EXTENDS Integers, SequencesExt

ByteBits == 8

CrcTypes ==
    { [name |-> "16", order |-> 16, reflect |-> TRUE, ends |-> 0 .. 15,
       poly |-> {15, 2, 0}],
      [name |-> "32", order |-> 32, reflect |-> TRUE, ends |-> 0 .. 31,
       poly |-> {26, 23, 22, 16, 12, 11, 10, 8, 7, 5, 4, 2, 1, 0}],
      [name |-> "CCITT", order |-> 16, reflect |-> FALSE, ends |-> {},
       poly |-> {12, 5, 0}] }

Up(w, n) == {b + n : b \in w}

Low(w, n) == {b \in w : b < n}

Down(w, n) == {b - n : b \in w \ Low(w, n)}

Reflect(w, length) == {length - 1 - b : b \in Low(w, length)}

(* crc after j of the steps that make an entry of table_; bits that leave  *)
(* the word are of no account.                                             *)
Divided(t, i) ==
    LET f[j \in 0 .. ByteBits] ==
            IF j = 0
            THEN Up(IF t.reflect THEN Reflect(i, ByteBits) ELSE i, t.order - ByteBits)
            ELSE LET crc == f[j - 1] IN
                 IF t.order - 1 \in crc THEN SymDiff(Up(crc, 1), t.poly) ELSE Up(crc, 1)
    IN  f[ByteBits]

Table(t, i) ==
    LET crc == Divided(t, i) IN
    Low(IF t.reflect THEN Reflect(crc, t.order) ELSE crc, t.order)

(* Variant: the byte is taken from the wrong end of the checksum. *)
UpdatedLow(t, checksum, byte) ==
    LET i == SymDiff(Low(checksum, ByteBits), byte)
    IN  IF t.reflect
        THEN SymDiff(Down(checksum, ByteBits), Table(t, i))
        ELSE Low(SymDiff(Up(checksum, ByteBits), Table(t, i)), t.order)

(* One byte of write(). *)
Updated(t, checksum, byte) ==
    IF t.reflect
    THEN SymDiff(Down(checksum, ByteBits),
                 Table(t, SymDiff(Low(checksum, ByteBits), byte)))
    ELSE Low(SymDiff(Up(checksum, ByteBits),
                     Table(t, SymDiff(Low(Down(checksum, t.order - ByteBits), ByteBits),
                                      byte))),
             t.order)

Written(t, checksum, bytes) ==
    FoldLeft(LAMBDA crc, byte : Updated(t, crc, byte), checksum, bytes)

Checksum(t, checksum) == SymDiff(checksum, t.ends)

-----------------------------------------------------------------------------
(* What a checksum is: the remainder of the message, as a polynomial over  *)
(* the field of two elements with its first bit the highest term, after    *)
(* the initial word has been added to its front.                           *)

Message(t, bytes) ==
    LET n == Len(bytes)
        Bits(k) == IF t.reflect THEN Reflect(bytes[k], ByteBits) ELSE bytes[k]
    IN  UNION {Up(Bits(k), ByteBits * (n - k)) : k \in 1 .. n}

Remainder(t, p, degree) ==
    LET divisor == t.poly \cup {t.order}
        f[d \in t.order - 1 .. degree] ==
            IF d = degree THEN p
            ELSE LET above == f[d + 1] IN
                 IF d + 1 \in above
                 THEN SymDiff(above, Up(divisor, d + 1 - t.order))
                 ELSE above
    IN  f[t.order - 1]

CrcOf(t, bytes) ==
    LET n == ByteBits * Len(bytes)
        initial == IF t.reflect THEN Reflect(t.ends, t.order) ELSE t.ends
        rest == Remainder(t, SymDiff(Up(Message(t, bytes), t.order), Up(initial, n)),
                          n + t.order)
    IN  SymDiff(IF t.reflect THEN Reflect(rest, t.order) ELSE rest, t.ends)
==============================================================================
