------------------------------- MODULE Values --------------------------------
(***************************************************************************)
(* What the library computes: numbers as text (convert.cc), times as DOS   *)
(* and the C library have them (convert.cc, windows/util.cc), text between *)
(* characters of different width (string.cc, the unix build) and the sizes *)
(* of the processor's caches (system.cc).  run is the state of the one     *)
(* computation that runs, its field job; a loop of the code is an action.  *)
(***************************************************************************)
EXTENDS Integers, SequencesExt

CONSTANTS
    Word,           \* 2^64: an unsigned integer is below it
    ToStrLength,    \* INT_TO_STR_BUFLEN
    Byte,           \* 2^8: a char is at least - Byte / 2, and below Byte / 2
    Years,          \* the years considered
    MaxLength       \* bound: the length of a text, and of a buffer

ASSUME ValuesAssumption ==
    /\ {Word, ToStrLength, Byte, MaxLength} \subseteq Nat
    /\ Word > 1 /\ Byte > 1
    /\ Years \subseteq Nat

VARIABLE run

(* The n bits of a word from bit low on. *)
Bits(word, low, n) == (word \div 2^low) % 2^n

-----------------------------------------------------------------------------
(* Numbers.  i64_to_str2() negates in a word, also the least number.       *)

Signed(value) ==
    IF value >= 0 THEN [sign |-> <<>>, value |-> value]
    ELSE [sign |-> <<"-">>, value |-> (-value) % Word]

(* Variant: the loop ends before the last digit. *)
MoreDigitsBut(value) == value > 9

MoreDigits(value) == value > 0

(* One turn of the loop of ui64_to_str2(), which makes at least one, and   *)
(* the reversal after the last: 0 comes out as the code's short cut has it.*)
Digit ==
    /\ run.job = "digits" /\ run.pc = "loop"
    /\ LET digits == Append(run.digits, run.value % 10)
           rest == run.value \div 10
       IN  run' = IF MoreDigits(rest)
                  THEN [run EXCEPT !.digits = digits, !.value = rest]
                  ELSE [run EXCEPT !.digits = Reverse(digits), !.value = rest, !.pc = "done"]

Numbers == {value \in -Word .. Word : value < Word /\ 2 * value >= -Word}

DigitsStart ==
    \E value \in Numbers :
        run = [job |-> "digits", pc |-> "loop", of |-> value, digits |-> <<>>,
               sign |-> Signed(value).sign, value |-> Signed(value).value]

-----------------------------------------------------------------------------
(* Times. *)

(* tm_to_dostime(): the year is what is left of it in seven bits.          *)

DosDate(tm) == (tm.mday + (tm.mon + 1) * 2^5 + (tm.year - 80) * 2^9) % 2^16

(* Variant: the seconds are not halved. *)
DosTimeWhole(tm) == (tm.sec + tm.min * 2^5 + tm.hour * 2^11) % 2^16

DosTime(tm) == ((tm.sec \div 2) + tm.min * 2^5 + tm.hour * 2^11) % 2^16

MonthDays == <<31, 28, 31, 30, 31, 30, 31, 31, 30, 31, 30, 31>>

Leap(year) == year % 400 = 0 \/ (year % 4 = 0 /\ year % 100 # 0)

DaysIn(year, month) == IF month = 2 /\ Leap(year) THEN 29 ELSE MonthDays[month]

(* But for the day of the week, that of the year and the daylight saving.  *)
SysTimeToTm(date) ==
    [year |-> date.year - 1900, mon |-> date.month - 1, mday |-> date.day]

TimesStart ==
    \/ \E year \in Years, month \in 1 .. 12 : \E day \in 1 .. DaysIn(year, month) :
          LET date == [year |-> year, month |-> month, day |-> day] IN
          run = [job |-> "date", of |-> date, tm |-> SysTimeToTm(date)]
    \/ \E sec \in 0 .. 60, min \in {0, 1, 31, 32, 59}, hour \in 0 .. 23 :
          run = [job |-> "time", tm |-> [sec |-> sec, min |-> min, hour |-> hour]]

-----------------------------------------------------------------------------
(* Text.  A character that is no ASCII is negative as a char, and as the   *)
(* wchar_t it is assigned to: its sign is extended.                        *)

Chars == {c \in -Byte .. Byte : 2 * c < Byte /\ 2 * c >= -Byte} \ {0}

(* Variant: a text that fills the buffer is not shortened. *)
OutLengthWhole(length, room) == IF length > room THEN room - 1 ELSE length

OutLength(length, room) == IF length >= room THEN room - 1 ELSE length

ToUtf16(c) == c

ToAnsi(w) == LET low == w % Byte IN IF 2 * low < Byte THEN low ELSE low - Byte

(* The loops of ansi_to_utf16() and utf16_to_ansi(), and the terminator. *)
CopyChar ==
    /\ run.job = "text" /\ run.pc \in {"utf16", "ansi"}
    /\ LET n == Len(run.out)
           c == IF run.pc = "utf16" THEN ToUtf16(run.text[n + 1]) ELSE ToAnsi(run.text[n + 1])
       IN  run' = IF n < OutLength(Len(run.text), run.room)
                  THEN [run EXCEPT !.out = Append(@, c)]
                  ELSE IF run.pc = "utf16"
                  THEN [run EXCEPT !.text = run.out, !.utf16 = Append(run.out, 0),
                                   !.out = <<>>, !.pc = "ansi"]
                  ELSE [run EXCEPT !.out = Append(@, 0), !.pc = "done"]

(* A buffer of no characters is not one to be asked to fill. *)
TextStart ==
    \E text \in BoundedSeq(Chars, MaxLength), room \in 1 .. MaxLength :
        run = [job |-> "text", pc |-> "utf16", of |-> text, text |-> text, room |-> room,
               out |-> <<>>, utf16 |-> <<>>]

-----------------------------------------------------------------------------
(* Caches.  What cpuid gives: on Intel one leaf for each cache, with       *)
(* numbers less one in the bits of its registers, on AMD a leaf for each   *)
(* level.                                                                  *)

Cache(type, level, ways, parts, line, sets) ==
    [type |-> type, level |-> level, ways |-> ways, parts |-> parts, line |-> line,
     sets |-> sets]

Caches ==
    {Cache(type, level, 2, 1, 64, 3) : type \in 1 .. 3, level \in 1 .. 3} \cup
    {Cache(1, 1, 511, 2, 1, 1), Cache(3, 2, 1, 1024, 4, 5), Cache(3, 2, 1, 1, 4096, 2)}

(* Bits 8 and up of eax tell other things. *)
Cpuid4(leaves, reg) ==
    IF reg < Len(leaves)
    THEN LET c == leaves[reg + 1] IN
         [a |-> c.type + 32 * c.level + 256,
          b |-> (c.ways - 1) * 2^22 + (c.parts - 1) * 2^12 + (c.line - 1),
          c |-> c.sets - 1]
    ELSE [a |-> 0, b |-> 0, c |-> 0]

VendorOf(regs) == regs.b \o regs.d \o regs.c

(* Variant: an instruction cache will do. *)
OfLevelAny(a, level) == Bits(a, 5, 3) = level

OfLevel(a, level) == Bits(a, 0, 5) \in {1, 3} /\ Bits(a, 5, 3) = level

(* One turn of the loop of cache_size_intel(). *)
NextCache ==
    /\ run.job = "intel" /\ run.pc = "loop"
    /\ LET r == Cpuid4(run.leaves, run.reg) IN
       run' = CASE Bits(r.a, 0, 5) = 0 -> [run EXCEPT !.pc = "done", !.size = 0]
                [] Bits(r.a, 0, 5) # 0 /\ OfLevel(r.a, run.level) ->
                      [run EXCEPT !.pc = "done",
                                  !.size = (Bits(r.b, 22, 10) + 1) * (Bits(r.b, 12, 10) + 1)
                                               * (Bits(r.b, 0, 12) + 1) * (r.c + 1)]
                [] OTHER -> [run EXCEPT !.reg = @ + 1]

(* cache_size_amd(); kilobytes in the highest bits of ecx.  There is no    *)
(* third level.                                                            *)
AmdSize(c, level) ==
    CASE level = 1 -> Bits(c, 24, 8) * 1024
      [] level = 2 -> Bits(c, 16, 16) * 1024
      [] OTHER -> 0

(* cache_size() of a vendor whose name the registers hold in pieces. *)
CacheSize ==
    /\ run.job = "cpu"
    /\ run' = CASE VendorOf(run.regs) = <<"Genu", "ineI", "ntel">> ->
                     [job |-> "intel", pc |-> "loop", leaves |-> run.leaves, reg |-> 0,
                      level |-> run.level, size |-> 0]
                [] VendorOf(run.regs) = <<"Auth", "enti", "cAMD">> ->
                     [job |-> "amd", pc |-> "done", kilobytes |-> run.kilobytes,
                      level |-> run.level,
                      size |-> AmdSize(IF run.level = 1 THEN run.kilobytes * 2^24 + 64
                                       ELSE run.kilobytes * 2^16 + 64, run.level)]
                [] OTHER -> [job |-> "other", pc |-> "done", level |-> run.level, size |-> 0]

CachesStart ==
    \E level \in 1 .. 3, leaves \in BoundedSeq(Caches, 2), kilobytes \in {0, 1, 64, 127},
       vendor \in {<<"Genu", "ineI", "ntel">>, <<"Auth", "enti", "cAMD">>,
                   <<"Cent", "aurH", "auls">>} :
        /\ vendor[1] = "Genu" => kilobytes = 0
        /\ vendor[1] # "Genu" => leaves = <<>>
        /\ run = [job |-> "cpu", level |-> level, leaves |-> leaves, kilobytes |-> kilobytes,
                  regs |-> [b |-> <<vendor[1]>>, d |-> <<vendor[2]>>, c |-> <<vendor[3]>>]]

-----------------------------------------------------------------------------
ValuesInit == DigitsStart \/ TimesStart \/ TextStart \/ CachesStart

ValuesNext == Digit \/ CopyChar \/ NextCache \/ CacheSize

ValuesSpec == ValuesInit /\ [][ValuesNext]_run

-----------------------------------------------------------------------------
(* Properties. *)

Done(job) == run.job = job /\ run.pc = "done"

(***************************************************************************)
(* Reading the digits gives the number again, without a zero before it,    *)
(* from the least number to the greatest, and sign, digits and terminator  *)
(* fit into the buffer.                                                    *)
(***************************************************************************)
DigitsAgree ==
    Done("digits") =>
        LET read == FoldLeft(LAMBDA n, d : 10 * n + d, 0, run.digits) IN
        /\ run.of = IF run.sign = <<>> THEN read ELSE -read
        /\ Len(run.digits) > 1 => run.digits[1] # 0
        /\ Len(run.sign) + Len(run.digits) + 1 =< ToStrLength

(***************************************************************************)
(* The fields of a DOS time are those of the time, down to two seconds, a  *)
(* leap second included; and those of a DOS date are those of the date of  *)
(* the system, by way of SysTimeToTm(), for the years it can tell.         *)
(***************************************************************************)
TimesAgree ==
    /\ run.job = "time" =>
          LET dos == DosTime(run.tm) IN
          /\ Bits(dos, 0, 5) = run.tm.sec \div 2
          /\ Bits(dos, 5, 6) = run.tm.min
          /\ Bits(dos, 11, 5) = run.tm.hour
    /\ run.job = "date" /\ run.of.year \in 1980 .. 2107 =>
          LET dos == DosDate(run.tm) IN
          /\ Bits(dos, 0, 5) = run.of.day
          /\ Bits(dos, 5, 4) = run.of.month
          /\ Bits(dos, 9, 7) + 1980 = run.of.year

(***************************************************************************)
(* What ansi_to_utf16() and utf16_to_ansi() write stays in the buffer, is  *)
(* terminated, and is as much of the text as there was room for.  The      *)
(* first keeps what is ASCII; the UTF-16 that string.hh:132 promises is    *)
(* not claimed of other characters, whose sign is extended.  The second    *)
(* gives them back, whatever they are.                                     *)
(***************************************************************************)
TextsKept ==
    /\ run.job = "text" => Len(run.out) =< run.room /\ Len(run.utf16) =< run.room
    /\ Done("text") =>
          LET kept == SubSeq(run.of, 1, IF Len(run.of) < run.room THEN Len(run.of)
                                        ELSE run.room - 1)
          IN  /\ Len(run.utf16) = Len(kept) + 1 /\ Last(run.utf16) = 0
              /\ \A i \in DOMAIN kept : kept[i] > 0 => run.utf16[i] = kept[i]
              /\ run.out = Append(kept, 0)

(***************************************************************************)
(* "The size of the cache is returned in bytes" (system.hh): on Intel that *)
(* of the first data or unified cache of the level, and 0 if there is none *)
(* or the processor is another.                                            *)
(***************************************************************************)
CachesAgree ==
    /\ Done("intel") =>
          LET fits == SelectSeq(run.leaves, LAMBDA c : c.type # 2 /\ c.level = run.level) IN
          run.size = IF fits = <<>> THEN 0
                     ELSE fits[1].ways * fits[1].parts * fits[1].line * fits[1].sets
    /\ Done("amd") => run.size = IF run.level = 3 THEN 0 ELSE run.kilobytes * 1024
    /\ Done("other") => run.size = 0

(***************************************************************************)
(* Digits, times, texts and caches, each as it is meant to be.             *)
(***************************************************************************)
ValuesAgree == DigitsAgree /\ TimesAgree /\ TextsKept /\ CachesAgree
==============================================================================
