------------------------------ MODULE Messages -------------------------------
(***************************************************************************)
(* The messages of exceptions (src/exception.cc), which are thrown, caught *)
(* and thrown again with a prefix, and on their way are formatted and turn *)
(* from one encoding into another (src/string.cc): in the unix build, and  *)
(* in the windows build, with and without _UNICODE.                        *)
(*                                                                         *)
(* A text is a sequence of characters, and NUL may be one of them; a C     *)
(* string ends at the first.  UTF-8 has two bytes for a character that is  *)
(* in DOMAIN Lead.                                                         *)
(***************************************************************************)
EXTENDS Integers, SequencesExt

CONSTANTS
    Builds,         \* the builds considered, of "unix", "windows" and "unicode"
    MaxSaying,      \* bound: the length of what is said at a time
    BufferLength,   \* the 1024 of ansi_to_auto<1024>()
    MaxThrows       \* bound: how often an exception is thrown

ASSUME MessagesAssumption ==
    /\ Builds \subseteq {"unix", "windows", "unicode"}
    /\ {MaxSaying, BufferLength, MaxThrows} \subseteq Nat

Lead == [e |-> "e1"]
Trail == [e |-> "e2"]
NUL == "NUL"
Junk == "junk"

(* What a program says. *)
Sayings == BoundedSeq({"a", "e"}, MaxSaying)

(* "no error description available" *)
NoDescription == <<"a">>

(* What std::length_error says. *)
LengthError == <<"a", "a">>

VARIABLES
    build,
    thrown,     \* the exception: an Exception2 with err_msg_, or another one
    throws,     \* how often there has been one
    said,       \* history: what the exceptions were to say, all together
    lost        \* history: by what a text has been lost on the way

messageVars == <<build, thrown, throws, said, lost>>

Nobody == [own |-> FALSE, text |-> <<>>]

MessagesInit ==
    /\ build \in Builds
    /\ thrown = Nobody
    /\ throws = 0
    /\ said = <<>>
    /\ lost = {}

CString(t) ==
    LET n == SelectInSeq(t, LAMBDA c : c = NUL) IN
    IF n = 0 THEN t ELSE SubSeq(t, 1, n - 1)

(* WideCharToMultiByte() and MultiByteToWideChar(), of a given length. *)
Utf8(t) ==
    FoldLeft(LAMBDA bytes, c :
                bytes \o IF c \in DOMAIN Lead THEN <<Lead[c], Trail[c]>> ELSE <<c>>,
             <<>>, t)

Utf16(bytes) ==
    LET Char(b) == CHOOSE c \in DOMAIN Lead : Trail[c] = b
    IN  FoldLeft(LAMBDA t, b :
                    IF \E c \in DOMAIN Lead : Lead[c] = b THEN t
                    ELSE Append(t, IF \E c \in DOMAIN Lead : Trail[c] = b THEN Char(b) ELSE b),
                 <<>>, bytes)

-----------------------------------------------------------------------------
(* string.cc *)

(* Variant: the terminator that vsnprintf() has written stays. *)
FormattedWhole(t) == Append(t, NUL)

(* vformatstr(): the string is made one longer for the terminator, and     *)
(* shorter again.                                                          *)
Formatted(t) == SubSeq(Append(t, NUL), 1, Len(t))

(* The results of ansi_to_auto<BufferLength>().  MultiByteToWideChar()     *)
(* returns 0 if there is no room for text and terminator, which is taken   *)
(* for no truncation: no terminator is written.                            *)
Auto(t) ==
    IF build = "unicode" /\ Len(t) >= BufferLength
    THEN {SubSeq(t, 1, BufferLength) \o junk : junk \in {<<>>, <<Junk>>}}
    ELSE {t}

-----------------------------------------------------------------------------
(* Exception2.  On windows a string is converted with its terminator, and  *)
(* the std::string that receives it has one of its own.                    *)

Exception(t) ==
    [own |-> TRUE, text |-> IF build = "unicode" THEN Utf8(Append(t, NUL)) ELSE t]

(* Of a tchar *. *)
ExceptionOf(t) == Exception(CString(t))

what(e) == CString(e.text)

message(e) ==
    IF build = "unicode" THEN Append(Utf16(Append(e.text, NUL)), NUL) ELSE e.text

get_except_msg(e) == IF e.own THEN {message(e)} ELSE Auto(what(e))

-----------------------------------------------------------------------------
Throws(e) ==
    /\ throws < MaxThrows
    /\ throws' = throws + 1
    /\ thrown' = e
    /\ UNCHANGED build

(* vformatstr() if the text cannot be formatted: resize() is asked for a   *)
(* length of -1, and throws another exception.                             *)
FormatFails ==
    /\ Throws([own |-> FALSE, text |-> LengthError])
    /\ lost' = lost \cup {"format"}

(* throw Exception2(...), and throw_internal_error(). *)
Throw(t) ==
    /\ thrown = Nobody
    /\ \/ Throws(ExceptionOf(t)) /\ UNCHANGED lost
       \/ Throws(Exception(Formatted(t))) /\ UNCHANGED lost
       \/ FormatFails
    /\ said' = t

(* Another exception. *)
ThrowOther(t) ==
    /\ thrown = Nobody
    /\ Throws([own |-> FALSE, text |-> t])
    /\ said' = t
    /\ UNCHANGED lost

(* The strerror_r() of the GNU library may leave the buffer as it is. *)
errno_msgs(t) == IF build = "unix" THEN {t, <<Junk>>} ELSE {t}

(* throw_from_errno(), its prefix NULL if it is to say nothing. *)
ThrowFromErrno(prefix, t) ==
    /\ thrown = Nobody
    /\ said' = prefix \o t
    /\ \/ \E msg \in errno_msgs(t) :
             /\ Throws(Exception(Formatted(prefix) \o msg))
             /\ lost' = IF msg = t THEN lost ELSE lost \cup {"errno"}
       \/ prefix # <<>> /\ FormatFails

ThrowFromHresult(prefix, t) ==
    /\ thrown = Nobody
    /\ build # "unix"
    /\ said' = prefix \o t
    /\ \/ Throws(Exception(Formatted(prefix) \o t)) /\ UNCHANGED lost
       \/ prefix # <<>> /\ FormatFails

(* build_last_error_msg(). *)
last_error_msg(prefix, description) == Formatted(prefix) \o description

(* throw_from_last_error() and throw_from_given_last_error(); windows may  *)
(* know no description.                                                    *)
ThrowFromLastError(prefix, t) ==
    /\ thrown = Nobody
    /\ build # "unix"
    /\ \E description \in {t, NoDescription} :
          /\ said' = prefix \o description
          /\ \/ Throws(Exception(last_error_msg(prefix, description))) /\ UNCHANGED lost
             \/ prefix # <<>> /\ FormatFails

(* rethrow_with_pfx(): the prefix is formatted first. *)
RethrowWithPfx(prefix) ==
    /\ thrown # Nobody
    /\ said' = prefix \o said
    /\ \/ /\ \E t \in get_except_msg(thrown) : Throws(Exception(Formatted(prefix) \o t))
          /\ lost' = IF ~thrown.own /\ build = "unicode" /\ Len(what(thrown)) >= BufferLength
                     THEN lost \cup {"buffer"} ELSE lost
       \/ FormatFails

MessagesNext ==
    \/ \E t \in Sayings : Throw(t) \/ ThrowOther(t) \/ RethrowWithPfx(t)
    \/ \E prefix, t \in Sayings :
          \/ ThrowFromErrno(prefix, t) \/ ThrowFromHresult(prefix, t)
          \/ ThrowFromLastError(prefix, t)

MessagesSpec == MessagesInit /\ [][MessagesNext]_messageVars

-----------------------------------------------------------------------------
(* Properties. *)

(***************************************************************************)
(* However often an exception is thrown again, its message says all the    *)
(* prefixes and the first message, in that order, and what() the same in   *)
(* UTF-8: the terminators that each pass through UTF-8 leaves behind never *)
(* come before anything that is to be said.                                *)
(***************************************************************************)
MessageKept ==
    lost = {} /\ thrown.own =>
        /\ CString(message(thrown)) = said
        /\ what(thrown) = IF build = "unicode" THEN Utf8(said) ELSE said
==============================================================================
