------------------------------- MODULE Streams -------------------------------
(***************************************************************************)
(* The streams of ckcore, composed: a source (MemoryInStream, or           *)
(* FileInStream over a file) that may be read through a BufferedInStream,  *)
(* one of the six copy functions of stream.cc and canexstream.cc, and a    *)
(* sink (MemoryOutStream, or a device that may fail or write less than it  *)
(* is given) that may be written through a BufferedOutStream.              *)
(*                                                                         *)
(* Byte i of the source, counted from 0, is the number i + 1; padding is   *)
(* 0.  A buffer is a function from offsets to bytes and memcpy() updates   *)
(* it.  The client stands at pc:                                           *)
(*   idle          in no call; it may seek, or start the copy              *)
(*   skip          in BufferedInStream::seek(), which reads                *)
(*   test          at the head of the copy loop                            *)
(*   read, write   in a read() and in a write() of the copy loop           *)
(*   pad, padding  at the head of the padding loop, and in its write()     *)
(*   done, closed  the copy has returned; the sink has been destroyed      *)
(***************************************************************************)
EXTENDS Integers, Sequences

CONSTANTS
    Length,         \* the bytes of the source
    Wholes,         \* the stale sizes size() may give of a file, which may fail too
    Block,          \* the buffer of a copy function, 8192 in the code
    InSizes,        \* buffer sizes of a BufferedInStream; 0 for none
    OutSizes,       \* buffer sizes of a BufferedOutStream; 0 for none
    Room,           \* the initial buffer of a MemoryOutStream
    Sizes,          \* the sizes a sized copy is asked for
    MaxStart        \* bound: where a seek may lead

ASSUME StreamsAssumption ==
    /\ Length \in Nat
    /\ Wholes \subseteq Nat
    /\ Block \in Nat \ {0}
    /\ InSizes \subseteq Nat
    /\ OutSizes \subseteq Nat
    /\ Room \in Nat \ {0}
    /\ Sizes \subseteq Nat
    /\ MaxStart \in Nat

Kinds == {"plain", "progress", "progresser", "sized", "canex", "canexsized"}

Setups ==
    [file : BOOLEAN, whole : Wholes \cup {Length, -1}, device : BOOLEAN,
     inSize : InSizes, outSize : OutSizes, kind : Kinds, size : Sizes]

VARIABLES
    setup,      \* what is composed; never changes
    position,   \* MemoryInStream's pos_, FileInStream's read_
    in,         \* BufferedInStream: data, pos (buffer_pos_), left (buffer_data_)
    call,       \* the read() in progress: count and pos
    distance,   \* what seek() has still to skip
    block,      \* the buffer of the copy function
    res,        \* the last result of read() or write() in the copy
    out,        \* BufferedOutStream: data, pos (buffer_pos_)
    put,        \* the write() in progress: count and pos
    sink,       \* the bytes that have arrived
    room,       \* MemoryOutStream's buffer_size_
    size,       \* what a sized copy has still to write
    count_,     \* written, or the Progresser's count_
    percent,    \* the progress last reported
    outcome,    \* how the copy has returned
    pc,
    start,      \* history: the position the client has asked for
    faults      \* history: the kinds of faults met, each at most once

reader == <<position, in, call, distance>>
writer == <<out, put, sink, room>>
copier == <<block, res, size, count_, percent, outcome>>

vars == <<setup, reader, writer, copier, pc, start, faults>>

Canex == setup.kind \in {"canex", "canexsized"}
Sized == setup.kind \in {"sized", "canexsized"}
Reports == setup.kind # "plain"

Least(a, b) == IF a < b THEN a ELSE b

Junk(n) == [i \in 0 .. n - 1 |-> Length + 1]
Zeros(n) == [i \in 0 .. n - 1 |-> 0]

(* memcpy(to + at, from + offset, n). *)
Copied(to, at, from, offset, n) ==
    [i \in DOMAIN to |-> IF i \in at .. at + n - 1 THEN from[offset + i - at] ELSE to[i]]

Init ==
    /\ setup \in Setups
    /\ setup.file \/ setup.whole = Length
    /\ Sized \/ \A s \in Sizes : setup.size <= s
    /\ position = 0
    /\ in = [data |-> Junk(setup.inSize), pos |-> 0, left |-> 0]
    /\ call = [count |-> 0, pos |-> 0]
    /\ distance = 0
    /\ block = Junk(Block)
    /\ res = 0
    /\ out = [data |-> Junk(setup.outSize), pos |-> 0]
    /\ put = [count |-> 0, pos |-> 0]
    /\ sink = <<>>
    /\ room = Room
    /\ size = setup.size
    /\ count_ = 0
    /\ percent = 0
    /\ outcome = "none"
    /\ pc = "idle"
    /\ start = 0
    /\ faults = {}

Fault(kind) ==
    /\ kind \notin faults
    /\ faults' = faults \cup {kind}

-----------------------------------------------------------------------------
(* The source: MemoryInStream and FileInStream. *)

(* Variant: the end is noticed only beyond it. *)
SourceEndPast == position > setup.whole

SourceEnd == position >= setup.whole

(* read() of the source: r bytes, which a file may give fewer of than      *)
(* asked for as long as it gives some, or a failure.                       *)
SourceReads(n, r) ==
    LET there == IF position < Length THEN Length - position ELSE 0 IN
    \/ /\ r = Least(n, there)
       /\ UNCHANGED faults
    \/ /\ setup.file
       /\ r \in 1 .. Least(n, there)
       /\ UNCHANGED faults
    \/ /\ setup.file
       /\ r = -1
       /\ Fault("read")

Advance(r) == position' = IF r = -1 THEN position ELSE position + r

(* The bytes read() of the source stores. *)
Source(n) == [i \in 0 .. n - 1 |-> position + i + 1]

-----------------------------------------------------------------------------
(* BufferedInStream. *)

(* Variant: what the internal buffer still holds is forgotten. *)
InEndOfSource == SourceEnd

InEnd == SourceEnd /\ in.left = 0

(* The call of read() that is in progress has returned r; a client whose   *)
(* seek() fails gives up as well.                                          *)
Returned(r) ==
    /\ call' = [count |-> 0, pos |-> 0]
    /\ \/ /\ r = -1
          /\ pc' = "done"
          /\ outcome' = IF Canex THEN "thrown" ELSE "false"
          /\ UNCHANGED <<distance, put, res>>
       \/ /\ pc = "read" /\ r # -1
          /\ pc' = "write"
          /\ put' = [count |-> r, pos |-> 0]
          /\ res' = r
          /\ UNCHANGED <<distance, outcome>>
       \/ /\ pc = "skip" /\ r # -1
          /\ distance' = distance - r
          /\ pc' = IF distance' = 0 THEN "idle" ELSE "skip"
          /\ UNCHANGED <<put, res, outcome>>

(* Variant: the position in the internal buffer is forgotten. *)
HandedFromStart(n) ==
    IF pc = "skip" THEN block
    ELSE Copied(block, call.pos, in.data, 0, n)

(* Into the caller's buffer; seek() throws away what it reads. *)
Handed(n) ==
    IF pc = "skip" THEN block
    ELSE Copied(block, call.pos, in.data, in.pos, n)

(* One turn of the loop in read(): the internal buffer is used up, and     *)
(* more is fetched unless the stream is at its end.                        *)
Refill ==
    /\ pc \in {"read", "skip"}
    /\ setup.inSize > 0
    /\ call.count > in.left
    /\ block' = Handed(in.left)
    /\ LET got == call.pos + in.left IN
       \/ /\ SourceEnd
          /\ in' = [in EXCEPT !.pos = 0, !.left = 0]
          /\ Returned(got)
          /\ UNCHANGED <<position, faults>>
       \/ /\ ~SourceEnd
          /\ SourceReads(setup.inSize, -1)
          /\ in' = [in EXCEPT !.pos = 0, !.left = 0]
          /\ Returned(IF got = 0 THEN -1 ELSE got)
          /\ UNCHANGED position
       \/ /\ ~SourceEnd
          /\ \E r \in 0 .. setup.inSize :
                /\ SourceReads(setup.inSize, r)
                /\ Advance(r)
                /\ in' = [data |-> Copied(in.data, 0, Source(r), 0, r), pos |-> 0, left |-> r]
          /\ call' = [count |-> call.count - in.left, pos |-> got]
          /\ UNCHANGED <<pc, put, res, distance, outcome>>
    /\ UNCHANGED <<setup, out, sink, room, size, count_, percent, start>>

(* What is left of the call is in the internal buffer. *)
Serve ==
    /\ pc \in {"read", "skip"}
    /\ setup.inSize > 0
    /\ call.count \in 1 .. in.left
    /\ block' = Handed(call.count)
    /\ in' = [in EXCEPT !.pos = @ + call.count, !.left = @ - call.count]
    /\ Returned(call.pos + call.count)
    /\ UNCHANGED <<setup, position, out, sink, room, size, count_, percent, start,
                   faults>>

(* No BufferedInStream: the source is read. *)
ReadSource ==
    /\ pc = "read"
    /\ setup.inSize = 0
    /\ \E r \in -1 .. Block :
          /\ SourceReads(call.count, r)
          /\ Advance(r)
          /\ block' = IF r = -1 THEN block ELSE Copied(block, 0, Source(r), 0, r)
          /\ Returned(r)
    /\ UNCHANGED <<setup, in, out, sink, room, size, count_, percent, start>>

(* Where seek() of the source leads. *)
Moved(d, fromStart) == IF fromStart THEN d ELSE position + d

(* seek() of the source, or of the BufferedInStream: from the beginning    *)
(* with both reset, or on from the present position.                       *)
Seek(d, fromStart) ==
    /\ pc = "idle"
    /\ start' = IF fromStart THEN d ELSE start + d
    /\ start' <= MaxStart
    /\ \/ /\ setup.inSize = 0
          /\ position' = Moved(d, fromStart)
          /\ UNCHANGED <<in, distance, pc>>
       \/ /\ setup.inSize > 0
          /\ position' = IF fromStart THEN Moved(0, TRUE) ELSE position
          /\ in' = IF fromStart THEN [in EXCEPT !.pos = 0, !.left = 0] ELSE in
          /\ distance' = d
          /\ pc' = IF d = 0 THEN "idle" ELSE "skip"
    /\ UNCHANGED <<setup, call, writer, copier, faults>>

(* The next read() of seek(). *)
Skip ==
    /\ pc = "skip"
    /\ call.count = 0
    /\ call' = [call EXCEPT !.count = Least(distance, setup.inSize)]
    /\ UNCHANGED <<setup, position, in, distance, writer, copier, pc, start, faults>>

-----------------------------------------------------------------------------
(* The sink, and BufferedOutStream. *)

(* write() of the sink: the first r of n bytes arrive, or it fails; all of *)
(* them if it is a MemoryOutStream, for which Grow has made room.          *)
SinkWrites(data, n, r) ==
    /\ \/ /\ r = n
          /\ setup.device \/ Len(sink) + n <= room
          /\ UNCHANGED faults
       \/ setup.device /\ r \in 0 .. n - 1 /\ Fault("short")
       \/ setup.device /\ r = -1 /\ Fault("failed")
    /\ sink' = IF r = -1 THEN sink ELSE sink \o [i \in 1 .. r |-> data[i - 1]]

(* Variant: what the buffer holds already is forgotten. *)
OverflowsAlone == put.count > setup.outSize

(* What write() of the sink is about to be given. *)
Overflows == out.pos + put.count > setup.outSize

Offered ==
    CASE pc = "done" -> out.pos
      [] setup.outSize = 0 -> put.count
      [] OTHER -> IF Overflows THEN setup.outSize ELSE 0

Writing == pc \in {"write", "padding"}

(* MemoryOutStream::write() doubles its buffer until there is room. *)
Grow ==
    /\ ~setup.device
    /\ Writing \/ (pc = "done" /\ setup.outSize > 0)
    /\ Len(sink) + Offered > room
    /\ room' = 2 * room
    /\ UNCHANGED <<setup, reader, out, put, sink, copier, pc, start, faults>>

(* Progresser::update(), and what copy() does with Progress itself; the    *)
(* cast of a quotient by zero gives 0.                                     *)
Percent(part, total) == IF total = 0 THEN 0 ELSE ((part * 100) \div total) % 256

(* Variant: what a seek() has passed over counts as work to do, except in *)
(* a sized copy, for which it is the source that is counted.              *)
TotalOfSource == IF start < setup.whole THEN setup.whole - start ELSE 0

Total ==
    CASE Sized -> setup.size
      [] setup.kind = "progress" -> setup.whole
      [] OTHER -> IF start < setup.whole THEN setup.whole - start ELSE 0

Update(n) ==
    IF Reports
    THEN /\ count_' = count_ + n
         /\ percent' = Percent(count_', Total)
    ELSE UNCHANGED <<count_, percent>>

(* CanexOutStream::write() throws if less has been written. *)
Refused(r) == r = -1 \/ (Canex /\ r # put.pos + put.count)

(* The call of write() that is in progress has returned r.  The progress   *)
(* of the padding in canexstream::copy() is that of the last read().       *)
Wrote(r) ==
    /\ put' = [count |-> 0, pos |-> 0]
    /\ IF Refused(r)
       THEN /\ outcome' = IF Canex THEN "thrown" ELSE "false"
            /\ pc' = "done"
            /\ UNCHANGED <<res, size, count_, percent>>
       ELSE /\ res' = IF Canex THEN res ELSE r
            /\ size' = IF Sized THEN size - r ELSE size
            /\ Update(res')
            /\ pc' = IF pc = "padding" THEN "pad" ELSE "test"
            /\ UNCHANGED outcome

(* No BufferedOutStream: the sink is written. *)
WriteSink ==
    /\ Writing
    /\ setup.outSize = 0
    /\ \E r \in -1 .. put.count :
          /\ SinkWrites(block, put.count, r)
          /\ Wrote(r)
    /\ UNCHANGED <<setup, reader, out, room, block, start>>

(* One turn of the loop in write(): the buffer is filled up and written.   *)
(* If that fails the buffer stays full up to where it was before.          *)
Spill ==
    /\ Writing
    /\ setup.outSize > 0
    /\ Overflows
    /\ LET remain == setup.outSize - out.pos
           filled == Copied(out.data, out.pos, block, put.pos, remain)
           taken == put.pos + remain
       IN  \E r \in -1 .. setup.outSize :
              /\ SinkWrites(filled, setup.outSize, r)
              /\ IF r = -1
                 THEN /\ out' = [out EXCEPT !.data = filled]
                      /\ Wrote(IF taken = 0 THEN -1 ELSE taken)
                 ELSE /\ out' = [data |-> filled, pos |-> 0]
                      /\ put' = [count |-> put.count - remain, pos |-> taken]
                      /\ UNCHANGED <<res, size, count_, percent, outcome, pc>>
    /\ UNCHANGED <<setup, reader, room, block, start>>

(* The rest fits into the buffer. *)
Keep ==
    /\ Writing
    /\ setup.outSize > 0
    /\ ~Overflows
    /\ out' = [data |-> Copied(out.data, out.pos, block, put.pos, put.count),
               pos |-> out.pos + put.count]
    /\ Wrote(put.pos + put.count)
    /\ UNCHANGED <<setup, reader, sink, room, block, start, faults>>

(* ~BufferedOutStream() flushes, whatever comes of it. *)
Flush ==
    /\ pc = "done"
    /\ IF setup.outSize = 0
       THEN UNCHANGED <<out, sink, faults>>
       ELSE \E r \in -1 .. setup.outSize :
               /\ SinkWrites(out.data, out.pos, r)
               /\ out' = IF r = -1 THEN out ELSE [out EXCEPT !.pos = 0]
    /\ pc' = "closed"
    /\ UNCHANGED <<setup, reader, put, room, copier, start>>

-----------------------------------------------------------------------------
(* The copy functions. *)

Start ==
    /\ pc = "idle"
    /\ pc' = "test"
    /\ UNCHANGED <<setup, reader, writer, copier, start, faults>>

(* The loop goes on: the next block, or what a sized copy still needs. *)
Continue ==
    /\ pc = "test"
    /\ ~InEnd
    /\ Sized => size > 0
    /\ call' = [count |-> IF Sized THEN Least(size, Block) ELSE Block, pos |-> 0]
    /\ pc' = "read"
    /\ UNCHANGED <<setup, position, in, distance, writer, copier, start, faults>>

(* cancelled() is asked in every turn. *)
Cancel ==
    /\ pc = "test"
    /\ Reports
    /\ ~InEnd
    /\ Sized => size > 0
    /\ outcome' = "cancelled"
    /\ pc' = "done"
    /\ UNCHANGED <<setup, reader, writer, block, res, size, count_, percent, start,
                   faults>>

(* "Set to 100 in case of rounding errors." *)
Finish ==
    /\ pc = "test"
    /\ InEnd
    /\ ~Sized
    /\ outcome' = "true"
    /\ percent' = IF setup.kind = "progress" /\ setup.whole # -1 THEN 100 ELSE percent
    /\ pc' = "done"
    /\ UNCHANGED <<setup, reader, writer, block, res, size, count_, start, faults>>

PadNext ==
    /\ Sized
    /\ \/ pc = "test" /\ (InEnd \/ size = 0)
       \/ pc = "pad"
    /\ IF size > 0
       THEN /\ block' = Zeros(Block)
            /\ put' = [count |-> Least(size, Block), pos |-> 0]
            /\ pc' = "padding"
            /\ UNCHANGED outcome
       ELSE /\ outcome' = "true"
            /\ pc' = "done"
            /\ UNCHANGED <<block, put>>
    /\ UNCHANGED <<setup, reader, out, sink, room, res, size, count_, percent, start,
                   faults>>

StreamStep ==
    \/ Refill \/ Serve \/ ReadSource \/ Skip
    \/ Grow \/ WriteSink \/ Spill \/ Keep \/ Flush

CopyStep == Continue \/ Cancel \/ Finish \/ PadNext

Next ==
    \/ \E d \in 0 .. MaxStart, fromStart \in BOOLEAN : Seek(d, fromStart)
    \/ Start
    \/ StreamStep
    \/ CopyStep

Spec == Init /\ [][Next]_vars

(* The calls go on; the client need make none. *)
FairSpec == Spec /\ WF_vars(StreamStep) /\ WF_vars(CopyStep)

-----------------------------------------------------------------------------
(* Properties. *)

(* The bytes the client has asked for, padded. *)
Expected(i) == IF start + i < Length THEN start + i + 1 ELSE 0

(* No write has lost bytes without the copy being told: a failed write     *)
(* ends an unbuffered copy, and a short one that of canexstream.           *)
Clean ==
    \/ faults \cap {"short", "failed"} = {}
    \/ setup.outSize = 0 /\ (Canex \/ "short" \notin faults)

(***************************************************************************)
(* "Copies the contents of the input stream to the output stream" (copy(), *)
(* stream.hh): what has arrived, with what the BufferedOutStream holds, is *)
(* byte for byte what follows the position last sought, and zeros come     *)
(* only after the end of the source, however reads come out short and      *)
(* wherever the blocks and the two buffers break.                          *)
(***************************************************************************)
Delivered ==
    Clean /\ setup.whole >= Length
      => /\ \A i \in 1 .. Len(sink) : sink[i] = Expected(i - 1)
         /\ \A i \in 0 .. out.pos - 1 : out.data[i] = Expected(Len(sink) + i)

(***************************************************************************)
(* "If successfull true is returned": a copy that returns true has         *)
(* delivered everything, and a sized one exactly the size.  With           *)
(* canexstream and no BufferedOutStream this needs no sink without faults: *)
(* it throws "if not all bytes were written" (canexstream.hh).             *)
(***************************************************************************)
Complete ==
    pc = "closed" /\ outcome = "true" /\ Clean /\ setup.whole = Length
      => Len(sink) = IF Sized THEN setup.size
                     ELSE IF start < Length THEN Length - start ELSE 0

(***************************************************************************)
(* No memcpy() of the streams leaves its buffers: the internal ones, the   *)
(* caller's and the one MemoryOutStream grows.                             *)
(***************************************************************************)
WithinBuffers ==
    /\ in.pos + in.left <= setup.inSize
    /\ out.pos <= setup.outSize
    /\ pc = "read" => call.pos + call.count <= Block
    /\ put.pos + put.count <= Block
    /\ setup.device \/ Len(sink) <= room

(***************************************************************************)
(* A copy, and a seek() through a BufferedInStream, returns: unless size() *)
(* promises more than the source has, or seek() is to leave it.            *)
(***************************************************************************)
CopyReturns ==
    pc \in {"skip", "test"} /\ setup.whole <= Length /\ start <= setup.whole
      ~> pc \in {"idle", "closed"}

(***************************************************************************)
(* "The progress in percent" (progress.hh) does not fall, and stays within *)
(* 100, whatever is read and written short.  Not so while canexstream pads *)
(* (its progress goes by the last read) or if the source has outgrown      *)
(* size().                                                                 *)
(***************************************************************************)
ProgressRises ==
    [][/\ setup.whole >= Length
       /\ ~(setup.kind = "canexsized" /\ start + setup.size > Length)
       => percent <= percent' /\ percent' <= 100]_vars
==============================================================================
