------------------------- MODULE InputOutputProofs -------------------------
(***************************************************************************)
(* Theorems about Streams, for sources, blocks and buffers of any size:    *)
(* no memcpy() leaves its buffers, what arrives is what was to be sent, a  *)
(* copy that returns true has sent all of it, and its progress rises.      *)
(*                                                                         *)
(* Theorems about Directories, for any number of iterators, addresses used *)
(* again included: the handles that are open are those the Directory has   *)
(* stored, and an iterator reads one of them; and the iterators of a       *)
(* handle pass no entry over.                                              *)
(***************************************************************************)
EXTENDS Streams, Directories, SequenceTheorems, TLAPS

(***************************************************************************)
(*                                 Streams                                 *)
(***************************************************************************)

(* The position of the client: what it would read next. *)
Ahead == position - in.left

(* What the sink has and is going to get from the BufferedOutStream. *)
Accepted == Len(sink) + out.pos

(* No write() of the sink was short or failed. *)
Faultless == faults \cap {"short", "failed"} = {}

NoCall == [count |-> 0, pos |-> 0]

PCs == {"idle", "skip", "test", "read", "write", "pad", "padding", "done", "closed"}

Typed ==
    /\ setup \in Setups
    /\ position \in Nat
    /\ in \in [data : [0 .. setup.inSize - 1 -> Nat], pos : Nat, left : Nat]
    /\ call \in [count : Nat, pos : Nat]
    /\ distance \in Nat
    /\ block \in [0 .. Block - 1 -> Nat]
    /\ res \in Nat
    /\ out \in [data : [0 .. setup.outSize - 1 -> Nat], pos : Nat]
    /\ put \in [count : Nat, pos : Nat]
    /\ sink \in Seq(Nat)
    /\ room \in Nat
    /\ size \in Nat
    /\ count_ \in Nat
    /\ outcome \in {"none", "true", "false", "thrown", "cancelled"}
    /\ pc \in PCs
    /\ start \in Nat

(* WithinBuffers is about the calls in progress: what they have done and   *)
(* what they have still to do.                                             *)
Bounded ==
    /\ WithinBuffers
    /\ pc \notin {"read", "skip"} => call = NoCall
    /\ pc = "skip" => /\ setup.inSize > 0
                      /\ distance > 0
                      /\ call.pos + call.count <= distance
                      /\ call.count = 0 => call.pos = 0
    /\ pc = "read" => /\ call.count > 0
                      /\ Sized => call.pos + call.count <= size
                      /\ setup.inSize = 0 => call.pos = 0
    /\ ~Writing => put = NoCall
    /\ Writing /\ Sized => put.pos + put.count <= size
    /\ setup.outSize = 0 => put.pos = 0
    /\ pc \in {"pad", "padding"} => Sized

LEMMA SetupFields ==
    ASSUME setup \in Setups
    PROVE  /\ setup.inSize \in Nat
           /\ setup.outSize \in Nat
           /\ setup.size \in Nat
           /\ setup.whole \in Int
           /\ setup.kind \in Kinds
           /\ setup.file \in BOOLEAN /\ setup.device \in BOOLEAN
<1>1. /\ setup.inSize \in InSizes /\ setup.outSize \in OutSizes /\ setup.size \in Sizes
      /\ setup.whole \in Wholes \cup {Length, -1}
      /\ setup.kind \in Kinds
  BY DEF Setups
<1>2. setup.file \in BOOLEAN /\ setup.device \in BOOLEAN
  BY Zenon DEF Setups
<1>3. setup.whole \in Int
  <2>1. CASE setup.whole \in Wholes
    <3>1. Wholes \subseteq Nat
      BY StreamsAssumption
    <3>2. setup.whole \in Nat
      BY <2>1, <3>1, Zenon
    <3>. QED
      BY <3>2
  <2>2. CASE setup.whole = Length
    BY <2>2, StreamsAssumption
  <2>3. CASE setup.whole = -1
    BY <2>3
  <2>. QED
    BY <1>1, <2>1, <2>2, <2>3
<1>. QED
  BY <1>1, <1>2, <1>3, StreamsAssumption

(* The numbers of a state. *)
Numbers ==
    /\ setup \in Setups
    /\ setup.inSize \in Nat /\ setup.outSize \in Nat /\ setup.size \in Nat
    /\ setup.whole \in Int
    /\ position \in Nat /\ in.pos \in Nat /\ in.left \in Nat
    /\ call.count \in Nat /\ call.pos \in Nat /\ distance \in Nat
    /\ res \in Nat
    /\ out.pos \in Nat /\ put.count \in Nat /\ put.pos \in Nat
    /\ room \in Nat /\ size \in Nat /\ count_ \in Nat /\ start \in Nat
    /\ Len(sink) \in Nat
    /\ Length \in Nat /\ Block \in Nat \ {0} /\ Room \in Nat \ {0} /\ MaxStart \in Nat

LEMMA TypedNumbers == ASSUME Typed PROVE Numbers
<1>1. Len(sink) \in Nat
  BY LenProperties DEF Typed
<1>. QED
  BY <1>1, SetupFields, StreamsAssumption DEF Typed, Numbers

LEMMA Shifted ==
    ASSUME NEW a \in Nat, NEW b \in Nat, NEW n \in Nat, NEW j \in b .. b + n - 1
    PROVE  a + j - b \in a .. a + n - 1
OBVIOUS

(* memcpy() *)
IsCopy(new, D, to, at, from, offset, n) ==
    /\ new \in [D -> Nat]
    /\ \A i \in D :
          new[i] = IF i \in at .. at + n - 1 THEN from[offset + i - at] ELSE to[i]

LEMMA CopiedBytes ==
    ASSUME NEW D \in SUBSET Int, NEW to \in [D -> Nat], NEW at \in Nat,
           NEW n \in Nat, NEW offset \in Nat, NEW from,
           \A i \in offset .. offset + n - 1 : from[i] \in Nat
    PROVE  IsCopy(Copied(to, at, from, offset, n), D, to, at, from, offset, n)
<1>1. DOMAIN to = D
  OBVIOUS
<1>2. ASSUME NEW i \in D, i \in at .. at + n - 1
      PROVE  from[offset + i - at] \in Nat
  <2>1. offset + i - at \in offset .. offset + n - 1
    BY <1>2, Shifted
  <2>. QED
    BY <2>1
<1>3. Copied(to, at, from, offset, n)
        = [i \in D |-> IF i \in at .. at + n - 1 THEN from[offset + i - at] ELSE to[i]]
  BY <1>1 DEF Copied
<1>. QED
  BY <1>2, <1>3 DEF IsCopy

LEMMA InitSound == Init => Typed /\ Bounded
<1>. SUFFICES ASSUME Init PROVE Typed /\ Bounded
  OBVIOUS
<1>1. setup \in Setups
  BY DEF Init
<1>2. \A n \in Nat : Junk(n) \in [0 .. n - 1 -> Nat]
  BY StreamsAssumption DEF Junk
<1>3. Typed
  <2>1. in \in [data : [0 .. setup.inSize - 1 -> Nat], pos : Nat, left : Nat]
    BY <1>1, <1>2, SetupFields DEF Init
  <2>2. out \in [data : [0 .. setup.outSize - 1 -> Nat], pos : Nat]
    BY <1>1, <1>2, SetupFields DEF Init
  <2>3. block \in [0 .. Block - 1 -> Nat]
    BY <1>2, StreamsAssumption DEF Init
  <2>. QED
    BY <1>1, <2>1, <2>2, <2>3, SetupFields, StreamsAssumption DEF Init, Typed, PCs
<1>4. Bounded
  BY <1>1, SetupFields, StreamsAssumption
     DEF Init, Bounded, WithinBuffers, NoCall, Writing
<1>. QED
  BY <1>3, <1>4

-----------------------------------------------------------------------------
(* Reading. *)

(* What the internal buffer still holds is the source from the client's    *)
(* position on; and only a client that reads the source itself may seek    *)
(* beyond its end.                                                         *)
Reading ==
    /\ in.left <= position
    /\ position <= Length \/ (setup.inSize = 0 /\ start >= Length /\ position = start)
    /\ \A i \in in.pos .. in.pos + in.left - 1 : in.data[i] = Ahead + i - in.pos + 1
    /\ pc = "idle" => Ahead = start
    /\ pc = "skip" => Ahead + distance = start + call.pos

LEMMA InitReading == Init => Reading
<1>. SUFFICES ASSUME Init PROVE Reading
  OBVIOUS
<1>. QED
  BY StreamsAssumption DEF Init, Reading, Ahead

(* The source gives what is there. *)
LEMMA SourceFaults ==
    ASSUME NEW n, NEW r, SourceReads(n, r)
    PROVE  faults' \cap {"short", "failed"} = faults \cap {"short", "failed"}
<1>1. faults' = faults \/ faults' = faults \cup {"read"}
  BY DEF SourceReads, Fault
<1>. QED
  BY <1>1

LEMMA SourceGives ==
    ASSUME position \in Nat, NEW n \in Nat, NEW r \in Int, SourceReads(n, r)
    PROVE  /\ r = -1 \/ r \in 0 .. n
           /\ r > 0 => position + r <= Length
           /\ faults' \cap {"short", "failed"} = faults \cap {"short", "failed"}
<1>2. faults' \cap {"short", "failed"} = faults \cap {"short", "failed"}
  BY SourceFaults
<1>3. r = -1 \/ (r \in 0 .. n /\ (r > 0 => position + r <= Length))
  BY StreamsAssumption DEF SourceReads, Least
<1>. QED
  BY <1>2, <1>3

(* k bytes come to the caller's buffer, which a seek() does not have. *)
Takes(k) ==
    /\ Ahead' = Ahead + k
    /\ k > 0 => Ahead + k <= Length
    /\ block' \in [0 .. Block - 1 -> Nat]
    /\ pc = "read" =>
          \A j \in 0 .. Block - 1 :
              block'[j] = IF j \in call.pos .. call.pos + k - 1
                          THEN Ahead + j - call.pos + 1 ELSE block[j]

(* read() of a BufferedInStream is not through. *)
ReadsOn(k) ==
    /\ setup.inSize > 0
    /\ k < call.count
    /\ call' = [count |-> call.count - k, pos |-> call.pos + k]
    /\ UNCHANGED <<pc, put, res, distance, outcome>>

(* What becomes of the source and of the internal buffer. *)
Holds ==
    /\ position \in Nat
    /\ in \in [data : [0 .. setup.inSize - 1 -> Nat], pos : Nat, left : Nat]
    /\ in.pos + in.left <= setup.inSize
    /\ in.left <= position
    /\ position <= Length \/ (setup.inSize = 0 /\ start >= Length /\ position = start)
    /\ \A i \in in.pos .. in.pos + in.left - 1 : in.data[i] = Ahead + i - in.pos + 1

(* The internal buffer hands over the n bytes it has next. *)
LEMMA HandedBytes ==
    ASSUME Typed, Bounded, Reading, pc \in {"read", "skip"}, setup.inSize > 0,
           NEW n \in Nat, n <= in.left, n <= call.count, block' = Handed(n),
           Ahead' = Ahead + n
    PROVE  Takes(n)
<1>n. Numbers
  BY TypedNumbers
<1>1. n > 0 => Ahead + n <= Length
  <2>1. position <= Length
    BY DEF Reading
  <2>2. position \in Nat /\ in.left \in Nat /\ Length \in Nat
    BY <1>n DEF Numbers
  <2>. QED
    BY <2>1, <2>2 DEF Ahead
<1>2. CASE pc = "skip"
  BY <1>1, <1>2 DEF Handed, Takes, Typed
<1>3. CASE pc = "read"
  <2>1. ASSUME NEW i \in in.pos .. in.pos + n - 1
        PROVE  in.data[i] \in Nat /\ in.data[i] = Ahead + i - in.pos + 1
    <3>0. in.pos + in.left <= setup.inSize
      BY DEF Bounded, WithinBuffers
    <3>1. i \in in.pos .. in.pos + in.left - 1 /\ i \in 0 .. setup.inSize - 1
      BY <1>n, <3>0, SMTT(60) DEF Numbers
    <3>. QED
      BY <3>1 DEF Reading, Typed
  <2>2. /\ block' \in [0 .. Block - 1 -> Nat]
        /\ \A j \in 0 .. Block - 1 :
              block'[j] = IF j \in call.pos .. call.pos + n - 1
                          THEN in.data[in.pos + j - call.pos] ELSE block[j]
    <3>1. block' = Copied(block, call.pos, in.data, in.pos, n)
      BY <1>3 DEF Handed
    <3>2. block \in [0 .. Block - 1 -> Nat]
      BY DEF Typed
    <3>3. call.pos \in Nat /\ in.pos \in Nat /\ 0 .. Block - 1 \in SUBSET Int
      BY <1>n DEF Numbers
    <3>4. \A i \in in.pos .. in.pos + n - 1 : in.data[i] \in Nat
      BY <2>1
    <3>5. IsCopy(Copied(block, call.pos, in.data, in.pos, n), 0 .. Block - 1,
                 block, call.pos, in.data, in.pos, n)
      BY <3>2, <3>3, <3>4, CopiedBytes
    <3>. QED
      BY <3>1, <3>5 DEF IsCopy
  <2>3. ASSUME NEW j \in 0 .. Block - 1, j \in call.pos .. call.pos + n - 1
        PROVE  in.data[in.pos + j - call.pos] = Ahead + j - call.pos + 1
    <3>1. in.pos + j - call.pos \in in.pos .. in.pos + n - 1
      BY <1>n, <2>3, Shifted DEF Numbers
    <3>2. in.data[in.pos + j - call.pos] = Ahead + (in.pos + j - call.pos) - in.pos + 1
      BY <2>1, <3>1
    <3>. QED
      BY <1>n, <2>3, <3>2, SMTT(60) DEF Numbers, Ahead
  <2>. QED
    BY <1>1, <2>2, <2>3 DEF Takes
<1>. QED
  BY <1>2, <1>3

LEMMA HoldsOf == ASSUME Typed, Bounded, Reading PROVE Holds
BY DEF Typed, Bounded, WithinBuffers, Reading, Holds

(* What a step of read() does. *)
ReadsSome(k) ==
    /\ pc \in {"read", "skip"}
    /\ k \in 0 .. call.count
    /\ Takes(k)
    /\ Holds'
    /\ Returned(-1) \/ Returned(call.pos + k) \/ ReadsOn(k)
    /\ faults' \cap {"short", "failed"} = faults \cap {"short", "failed"}
    /\ UNCHANGED <<setup, out, sink, room, size, count_, percent, start>>

LEMMA RefillReads ==
    ASSUME Typed, Bounded, Reading, Refill
    PROVE  ReadsSome(in.left)
<1>n. Numbers
  BY TypedNumbers
<1>1. /\ pc \in {"read", "skip"} /\ setup.inSize > 0 /\ in.left < call.count
      /\ block' = Handed(in.left)
      /\ UNCHANGED <<setup, out, sink, room, size, count_, percent, start>>
  BY <1>n DEF Refill, Numbers
<1>2. Holds
  BY HoldsOf
<1>3. ASSUME in' = [in EXCEPT !.pos = 0, !.left = 0], position' = position
      PROVE  Ahead' = Ahead + in.left /\ Holds'
  <2>1. /\ in' \in [data : [0 .. setup.inSize - 1 -> Nat], pos : Nat, left : Nat]
        /\ in'.pos = 0 /\ in'.left = 0
    BY <1>3 DEF Typed
  <2>2. Ahead' = position /\ Ahead' = Ahead + in.left
    <3>1. Ahead' = position - 0
      BY <1>3, <2>1, Zenon DEF Ahead
    <3>2. position \in Nat /\ in.left \in Nat
      BY <1>n DEF Numbers
    <3>3. Ahead + in.left = position
      BY <3>2 DEF Ahead
    <3>. QED
      BY <3>1, <3>2, <3>3
  <2>3. \A i \in in'.pos .. in'.pos + in'.left - 1 : in'.data[i] = Ahead' + i - in'.pos + 1
    BY <2>1
  <2>. QED
    BY <1>n, <1>1, <1>2, <1>3, <2>1, <2>2, <2>3, SMTT(60) DEF Numbers, Holds
<1>4. ASSUME Ahead' = Ahead + in.left
      PROVE  Takes(in.left)
  BY <1>n, <1>1, <1>4, HandedBytes DEF Numbers
<1>8. in.left \in 0 .. call.count
  BY <1>n, <1>1 DEF Numbers
<1>5. CASE /\ SourceEnd
           /\ in' = [in EXCEPT !.pos = 0, !.left = 0]
           /\ Returned(call.pos + in.left)
           /\ UNCHANGED <<position, faults>>
  BY <1>1, <1>3, <1>4, <1>5, <1>8 DEF ReadsSome
<1>6. CASE /\ SourceReads(setup.inSize, -1)
           /\ in' = [in EXCEPT !.pos = 0, !.left = 0]
           /\ Returned(IF call.pos + in.left = 0 THEN -1 ELSE call.pos + in.left)
           /\ UNCHANGED position
  <2>1. faults' \cap {"short", "failed"} = faults \cap {"short", "failed"}
    BY <1>6, SourceFaults
  <2>2. Returned(-1) \/ Returned(call.pos + in.left)
    BY <1>6
  <2>. QED
    BY <1>1, <1>3, <1>4, <1>6, <1>8, <2>1, <2>2 DEF ReadsSome
<1>7. CASE /\ \E r \in 0 .. setup.inSize :
                 /\ SourceReads(setup.inSize, r)
                 /\ Advance(r)
                 /\ in' = [data |-> Copied(in.data, 0, Source(r), 0, r), pos |-> 0, left |-> r]
           /\ call' = [count |-> call.count - in.left, pos |-> call.pos + in.left]
           /\ UNCHANGED <<pc, put, res, distance, outcome>>
  <2>1. PICK r \in 0 .. setup.inSize :
           /\ SourceReads(setup.inSize, r)
           /\ Advance(r)
           /\ in' = [data |-> Copied(in.data, 0, Source(r), 0, r), pos |-> 0, left |-> r]
    BY <1>7
  <2>2. /\ r \in Nat
        /\ r > 0 => position + r <= Length
        /\ faults' \cap {"short", "failed"} = faults \cap {"short", "failed"}
    BY <1>n, <2>1, SourceGives DEF Numbers
  <2>3. position' = position + r
    BY <1>n, <2>1, <2>2 DEF Advance, Numbers
  <2>4. \A i \in 0 .. r - 1 : Source(r)[i] = position + i + 1
    BY DEF Source
  <2>5. IsCopy(Copied(in.data, 0, Source(r), 0, r), 0 .. setup.inSize - 1,
               in.data, 0, Source(r), 0, r)
    <3>1. \A i \in 0 .. 0 + r - 1 : Source(r)[i] \in Nat
      BY <1>n, <2>2, <2>4, SMTT(60) DEF Numbers
    <3>2. in.data \in [0 .. setup.inSize - 1 -> Nat] /\ 0 .. setup.inSize - 1 \in SUBSET Int
      BY <1>n, SMTT(60) DEF Typed, Numbers
    <3>. QED
      BY <2>2, <3>1, <3>2, CopiedBytes
  <2>6. /\ in' \in [data : [0 .. setup.inSize - 1 -> Nat], pos : Nat, left : Nat]
        /\ in'.pos = 0 /\ in'.left = r
        /\ \A i \in 0 .. setup.inSize - 1 : i \in 0 .. r - 1 => in'.data[i] = position + i + 1
    <3>1. in'.data = Copied(in.data, 0, Source(r), 0, r)
      BY <2>1
    <3>2. ASSUME NEW i \in 0 .. setup.inSize - 1, i \in 0 .. r - 1
          PROVE  in'.data[i] = position + i + 1
      <4>1. i \in 0 .. 0 + r - 1 /\ 0 + i - 0 = i
        BY <2>2, <3>2
      <4>. QED
        BY <2>4, <2>5, <3>1, <3>2, <4>1 DEF IsCopy
    <3>3. in' \in [data : [0 .. setup.inSize - 1 -> Nat], pos : Nat, left : Nat]
      BY <2>1, <2>2, <2>5 DEF IsCopy
    <3>. QED
      BY <2>1, <3>2, <3>3
  <2>7. Ahead' = Ahead + in.left /\ Ahead' = position
    BY <1>n, <2>2, <2>3, <2>6 DEF Ahead, Numbers
  <2>8. Holds'
    <3>1. ASSUME NEW i \in in'.pos .. in'.pos + in'.left - 1
          PROVE  in'.data[i] = Ahead' + i - in'.pos + 1
      <4>1. i \in 0 .. setup.inSize - 1 /\ i \in 0 .. r - 1
        BY <1>n, <2>2, <2>6 DEF Numbers
      <4>2. in'.data[i] = position + i + 1
        BY <2>6, <4>1
      <4>. QED
        BY <1>n, <2>6, <2>7, <4>1, <4>2 DEF Numbers
    <3>2. position' <= Length \/ (setup.inSize = 0 /\ start >= Length /\ position' = start)
      BY <1>n, <1>1, <1>2, <2>2, <2>3 DEF Numbers, Holds
    <3>. QED
      BY <1>n, <1>1, <2>1, <2>2, <2>3, <2>6, <3>1, <3>2 DEF Numbers, Holds
  <2>. QED
    BY <1>1, <1>4, <1>7, <1>8, <2>2, <2>7, <2>8 DEF ReadsSome, ReadsOn
<1>. QED
  BY <1>5, <1>6, <1>7 DEF Refill

LEMMA Consumed ==
    ASSUME NEW a \in Int, NEW p \in Nat, NEW l \in Nat, NEW n \in Nat, n <= l,
           NEW i \in p + n .. p + n + (l - n) - 1
    PROVE  /\ i \in p .. p + l - 1
           /\ a + i - p + 1 = (a + n) + i - (p + n) + 1
OBVIOUS

LEMMA ServeReads ==
    ASSUME Typed, Bounded, Reading, Serve
    PROVE  ReadsSome(call.count)
<1>n. Numbers
  BY TypedNumbers
<1>1. /\ pc \in {"read", "skip"} /\ setup.inSize > 0 /\ call.count <= in.left
      /\ block' = Handed(call.count)
      /\ in' = [in EXCEPT !.pos = @ + call.count, !.left = @ - call.count]
      /\ Returned(call.pos + call.count)
      /\ UNCHANGED <<setup, position, out, sink, room, size, count_, percent, start, faults>>
  BY <1>n DEF Serve, Numbers
<1>0. call.count <= in.left
  BY <1>1
<1>2. Holds
  BY HoldsOf
<1>3. /\ in'.data = in.data
      /\ in'.pos = in.pos + call.count /\ in'.left = in.left - call.count
      /\ in'.pos \in Nat /\ in'.left \in Nat
      /\ in' \in [data : [0 .. setup.inSize - 1 -> Nat], pos : Nat, left : Nat]
  <2>1. in \in [data : [0 .. setup.inSize - 1 -> Nat], pos : Nat, left : Nat]
    BY DEF Typed
  <2>2. /\ in.pos \in Nat /\ in.left \in Nat /\ call.count \in Nat
        /\ in.pos + call.count \in Nat /\ in.left - call.count \in Nat
    BY <1>n, <1>0, SMTT(60) DEF Numbers
  <2>3. in' = [data |-> in.data, pos |-> in.pos + call.count, left |-> in.left - call.count]
    BY <1>1, <2>1
  <2>. QED
    BY <2>1, <2>2, <2>3
<1>4. Ahead' = Ahead + call.count
  <2>1. Ahead' = position - (in.left - call.count)
    BY <1>1, <1>3 DEF Ahead
  <2>. QED
    BY <1>n, <2>1 DEF Numbers, Ahead
<1>5. Takes(call.count)
  BY <1>n, <1>1, <1>4, HandedBytes, SMTT(60) DEF Numbers
<1>6. Holds'
  <2>1. ASSUME NEW i \in in'.pos .. in'.pos + in'.left - 1
        PROVE  in'.data[i] = Ahead' + i - in'.pos + 1
    <3>0. /\ in.pos \in Nat /\ in.left \in Nat /\ call.count \in Nat /\ Ahead \in Int
          /\ call.count <= in.left
      BY <1>n, <1>0 DEF Numbers, Ahead
    <3>1. i \in in.pos + call.count .. in.pos + call.count + (in.left - call.count) - 1
      BY <1>3
    <3>2. /\ i \in in.pos .. in.pos + in.left - 1
          /\ Ahead + i - in.pos + 1 = (Ahead + call.count) + i - (in.pos + call.count) + 1
      BY <3>0, <3>1, Consumed
    <3>3. in.data[i] = Ahead + i - in.pos + 1
      BY <1>2, <3>2 DEF Holds
    <3>. QED
      BY <1>3, <1>4, <3>2, <3>3
  <2>2. in'.left <= position' /\ in'.pos + in'.left <= setup.inSize
    <3>1. in.left <= position /\ in.pos + in.left <= setup.inSize
      BY <1>2 DEF Holds
    <3>2. position' = position
      BY <1>1
    <3>3. in'.pos + in'.left = in.pos + in.left /\ in'.left = in.left - call.count
      <4>1. in'.pos = in.pos + call.count /\ in'.left = in.left - call.count
        BY <1>3
      <4>. QED
        BY <1>n, <4>1 DEF Numbers
    <3>. QED
      BY <1>n, <1>0, <3>1, <3>2, <3>3 DEF Numbers
  <2>. QED
    BY <1>1, <1>2, <1>3, <2>1, <2>2 DEF Holds
<1>7. call.count \in 0 .. call.count
  BY <1>n DEF Numbers
<1>. QED
  BY <1>1, <1>5, <1>6, <1>7 DEF ReadsSome

LEMMA ReadSourceReads ==
    ASSUME Typed, Bounded, Reading, ReadSource
    PROVE  \E k \in Nat : ReadsSome(k)
<1>n. Numbers
  BY TypedNumbers
<1>1. /\ pc = "read" /\ setup.inSize = 0 /\ call.pos = 0 /\ in.left = 0
      /\ UNCHANGED <<setup, in, out, sink, room, size, count_, percent, start>>
  BY <1>n DEF ReadSource, Numbers, Bounded, WithinBuffers
<1>2. PICK r \in -1 .. Block :
         /\ SourceReads(call.count, r)
         /\ Advance(r)
         /\ block' = IF r = -1 THEN block ELSE Copied(block, 0, Source(r), 0, r)
         /\ Returned(r)
  BY DEF ReadSource
<1>3. /\ r = -1 \/ r \in 0 .. call.count
      /\ r > 0 => position + r <= Length
      /\ faults' \cap {"short", "failed"} = faults \cap {"short", "failed"}
      /\ r \in Int
  <2>1. r \in Int
    BY <1>n, <1>2 DEF Numbers
  <2>. QED
    BY <1>n, <1>2, <2>1, SourceGives DEF Numbers
<1>4. Holds
  BY HoldsOf
<1>5. block \in [0 .. Block - 1 -> Nat]
  BY DEF Typed
<1>6. CASE r = -1
  <2>1. UNCHANGED <<position, block>> /\ Returned(-1)
    BY <1>2, <1>6 DEF Advance
  <2>2. Ahead' = Ahead /\ Ahead + 0 = Ahead
    BY <1>n, <1>1, <2>1 DEF Ahead, Numbers
  <2>3. Holds'
    BY <1>1, <1>4, <2>1, <2>2 DEF Holds
  <2>4. call.pos .. call.pos + 0 - 1 = {}
    BY <1>1
  <2>5. Takes(0)
    BY <1>5, <2>1, <2>2, <2>4 DEF Takes
  <2>6. 0 \in 0 .. call.count
    BY <1>n DEF Numbers
  <2>. QED
    BY <1>1, <1>3, <2>1, <2>3, <2>5, <2>6 DEF ReadsSome
<1>7. CASE r # -1
  <2>1. /\ r \in 0 .. call.count /\ r \in Nat /\ position' = position + r
        /\ block' = Copied(block, 0, Source(r), 0, r)
        /\ Returned(call.pos + r)
    <3>1. r \in 0 .. call.count /\ call.pos + r = r
      BY <1>n, <1>1, <1>3, <1>7 DEF Numbers
    <3>. QED
      BY <1>n, <1>2, <1>7, <3>1 DEF Advance, Numbers
  <2>2. Ahead' = Ahead + r /\ Ahead = position /\ Ahead' = position + r
    BY <1>n, <1>1, <2>1 DEF Ahead, Numbers
  <2>3. Holds'
    <3>1. in'.pos .. in'.pos + in'.left - 1 = {}
      BY <1>n, <1>1 DEF Numbers
    <3>2. position' <= Length \/ (setup.inSize = 0 /\ start >= Length /\ position' = start)
      BY <1>n, <1>3, <1>4, <2>1 DEF Holds, Numbers
    <3>. QED
      BY <1>n, <1>1, <1>4, <2>1, <3>1, <3>2 DEF Holds, Numbers
  <2>4. \A i \in 0 .. r - 1 : Source(r)[i] = position + i + 1
    BY DEF Source
  <2>5. IsCopy(Copied(block, 0, Source(r), 0, r), 0 .. Block - 1, block, 0, Source(r), 0, r)
    <3>1. \A i \in 0 .. 0 + r - 1 : Source(r)[i] \in Nat
      BY <1>n, <2>1, <2>4, SMTT(60) DEF Numbers
    <3>2. 0 .. Block - 1 \in SUBSET Int
      BY <1>n DEF Numbers
    <3>. QED
      BY <1>5, <2>1, <3>1, <3>2, CopiedBytes
  <2>6. Takes(r)
    <3>1. ASSUME NEW j \in 0 .. Block - 1
          PROVE  block'[j] = IF j \in call.pos .. call.pos + r - 1
                             THEN Ahead + j - call.pos + 1 ELSE block[j]
      <4>1. CASE j \in 0 .. r - 1
        <5>1. j \in 0 .. 0 + r - 1 /\ 0 + j - 0 = j /\ j - call.pos = j /\ j \in Int
          BY <1>1, <2>1, <4>1
        <5>2. block'[j] = position + j + 1
          BY <2>1, <2>4, <2>5, <4>1, <5>1 DEF IsCopy
        <5>. QED
          BY <1>n, <1>1, <2>2, <4>1, <5>1, <5>2 DEF Numbers
      <4>2. CASE j \notin 0 .. r - 1
        BY <1>1, <2>1, <2>5, <4>2 DEF IsCopy
      <4>. QED
        BY <4>1, <4>2
    <3>2. block' \in [0 .. Block - 1 -> Nat]
      BY <2>1, <2>5 DEF IsCopy
    <3>3. r > 0 => Ahead + r <= Length
      BY <1>3, <2>2
    <3>. QED
      BY <2>2, <3>1, <3>2, <3>3 DEF Takes
  <2>. QED
    BY <1>1, <1>3, <2>1, <2>3, <2>6 DEF ReadsSome
<1>. QED
  BY <1>6, <1>7

LEMMA ReadStep ==
    ASSUME Typed, Bounded, Reading, Refill \/ Serve \/ ReadSource
    PROVE  \E k \in Nat : ReadsSome(k)
<1>1. in.left \in Nat /\ call.count \in Nat
  BY TypedNumbers DEF Numbers
<1>. QED
  BY <1>1, RefillReads, ServeReads, ReadSourceReads

LEMMA ReadTyped ==
    ASSUME Typed, Bounded, Reading, NEW k \in Nat, ReadsSome(k)
    PROVE  Typed'
<1>n. Numbers
  BY TypedNumbers
<1>1. /\ k <= call.count
      /\ position' \in Nat
      /\ in' \in [data : [0 .. setup.inSize - 1 -> Nat], pos : Nat, left : Nat]
      /\ block' \in [0 .. Block - 1 -> Nat]
      /\ UNCHANGED <<setup, out, sink, room, size, count_, start>>
  BY DEF ReadsSome, Holds, Takes
<1>0. k <= call.count
  BY <1>1
<1>2. call.pos + k \in Nat /\ call.count - k \in Nat
  BY <1>n, <1>0, SMTT(60) DEF Numbers
<1>3. /\ call' \in [count : Nat, pos : Nat]
      /\ distance' \in Nat
      /\ res' \in Nat
      /\ put' \in [count : Nat, pos : Nat]
      /\ outcome' \in {"none", "true", "false", "thrown", "cancelled"}
      /\ pc' \in PCs
  <2>0. /\ distance \in Nat /\ res \in Nat /\ put \in [count : Nat, pos : Nat]
        /\ outcome \in {"none", "true", "false", "thrown", "cancelled"}
        /\ pc \in PCs
    BY DEF Typed
  <2>1. CASE Returned(-1)
    BY <2>0, <2>1 DEF Returned, PCs
  <2>2. CASE Returned(call.pos + k) /\ pc = "read"
    BY <1>2, <2>0, <2>2 DEF Returned, PCs
  <2>3. CASE Returned(call.pos + k) /\ pc = "skip"
    <3>1. distance - (call.pos + k) \in Nat
      <4>1. call.pos + call.count <= distance
        BY <2>3 DEF Bounded
      <4>. QED
        BY <1>n, <1>0, <4>1, SMTT(60) DEF Numbers
    <3>. QED
      BY <1>2, <2>0, <2>3, <3>1 DEF Returned, PCs
  <2>4. CASE ReadsOn(k)
    BY <1>2, <2>0, <2>4 DEF ReadsOn
  <2>. QED
    BY <2>1, <2>2, <2>3, <2>4 DEF ReadsSome
<1>. QED
  BY <1>1, <1>3 DEF Typed

LEMMA ReadBounded ==
    ASSUME Typed, Bounded, Reading, NEW k \in Nat, ReadsSome(k)
    PROVE  Bounded'
<1>n. Numbers
  BY TypedNumbers
<1>1. /\ k <= call.count
      /\ in'.pos + in'.left <= setup.inSize
      /\ UNCHANGED <<setup, out, sink, room, size>>
      /\ pc \in {"read", "skip"}
  BY DEF ReadsSome, Holds
<1>2. /\ out'.pos <= setup'.outSize
      /\ setup'.device \/ Len(sink') <= room'
      /\ in'.pos + in'.left <= setup'.inSize
  BY <1>1 DEF Bounded, WithinBuffers
<1>3. put = NoCall
  BY <1>1 DEF Bounded, Writing
<1>4. CASE Returned(-1)
  BY <1>n, <1>1, <1>2, <1>3, <1>4 DEF Returned, Bounded, WithinBuffers, NoCall, Writing, Numbers, Sized
<1>5. CASE Returned(call.pos + k) /\ pc = "read"
  <2>1. call.pos + k <= Block /\ (Sized => call.pos + k <= size)
    BY <1>n, <1>1, <1>5, SMTT(60) DEF Bounded, WithinBuffers, Numbers
  <2>2. /\ call' = NoCall /\ pc' = "write" /\ put' = [count |-> call.pos + k, pos |-> 0]
    BY <1>n, <1>5 DEF Returned, Numbers, NoCall
  <2>3. put'.pos = 0 /\ put'.pos + put'.count = call.pos + k
    BY <1>n, <2>2 DEF Numbers
  <2>. QED
    BY <1>1, <1>2, <2>1, <2>2, <2>3 DEF Bounded, WithinBuffers, Writing, Sized
<1>6. CASE Returned(call.pos + k) /\ pc = "skip"
  <2>1. /\ call' = NoCall /\ put' = NoCall /\ distance' = distance - (call.pos + k)
        /\ pc' = IF distance' = 0 THEN "idle" ELSE "skip"
    BY <1>n, <1>3, <1>6 DEF Returned, Numbers, NoCall
  <2>2. /\ setup.inSize > 0 /\ distance - (call.pos + k) \in Nat
    BY <1>n, <1>1, <1>6, SMTT(60) DEF Bounded, Numbers
  <2>. QED
    BY <1>1, <1>2, <2>1, <2>2 DEF Bounded, WithinBuffers, NoCall, Writing
<1>7. CASE ReadsOn(k)
  <2>1. /\ call'.count = call.count - k /\ call'.pos = call.pos + k
        /\ call'.count > 0 /\ call'.pos + call'.count = call.pos + call.count
        /\ setup.inSize > 0
        /\ UNCHANGED <<pc, put, distance>>
    <3>1. /\ call' = [count |-> call.count - k, pos |-> call.pos + k] /\ k < call.count
          /\ setup.inSize > 0
          /\ UNCHANGED <<pc, put, distance>>
      BY <1>7 DEF ReadsOn
    <3>2. call.count - k > 0 /\ (call.pos + k) + (call.count - k) = call.pos + call.count
      <4>1. k < call.count
        BY <3>1
      <4>2. call.count \in Nat /\ call.pos \in Nat
        BY <1>n DEF Numbers
      <4>. QED
        BY <4>1, <4>2
    <3>. QED
      BY <3>1, <3>2
  <2>2. put' = put /\ put.pos = 0 /\ put.pos + put.count <= Block /\ pc' = pc
    BY <1>n, <1>3, <2>1 DEF NoCall, Numbers
  <2>. QED
    BY <1>1, <1>2, <1>3, <2>1, <2>2 DEF Bounded, WithinBuffers, Writing, Sized
<1>. QED
  BY <1>1, <1>4, <1>5, <1>6, <1>7 DEF ReadsSome

LEMMA ReadReading ==
    ASSUME Typed, Bounded, Reading, NEW k \in Nat, ReadsSome(k)
    PROVE  Reading'
<1>n. Numbers
  BY TypedNumbers
<1>1. /\ k <= call.count /\ Ahead' = Ahead + k /\ start' = start /\ Holds'
      /\ pc \in {"read", "skip"} /\ setup' = setup
  BY DEF ReadsSome, Takes
<1>3. Ahead \in Int
  BY <1>n DEF Ahead, Numbers
<1>2. /\ pc' = "idle" => Ahead' = start'
      /\ pc' = "skip" => Ahead' + distance' = start' + call'.pos
  <2>0. pc = "skip" => Ahead + distance = start + call.pos
    BY DEF Reading
  <2>1. CASE pc = "skip" /\ Returned(call.pos + k)
    <3>1. /\ call'.pos = 0 /\ distance' = distance - (call.pos + k)
          /\ pc' = "idle" => distance' = 0
      BY <1>n, <2>1 DEF Returned, Numbers
    <3>2. Ahead' = Ahead + k /\ start' = start /\ Ahead + distance = start + call.pos
      BY <1>1, <2>0, <2>1
    <3>3. distance \in Int /\ start \in Int /\ call.pos \in Int /\ k \in Int
      BY <1>n DEF Numbers
    <3>. QED
      BY <1>3, <3>1, <3>2, <3>3
  <2>2. CASE pc = "skip" /\ ReadsOn(k)
    <3>1. call'.pos = call.pos + k /\ distance' = distance /\ pc' = "skip"
      BY <2>2 DEF ReadsOn
    <3>2. Ahead' = Ahead + k /\ start' = start /\ Ahead + distance = start + call.pos
      BY <1>1, <2>0, <2>2
    <3>3. distance \in Int /\ start \in Int /\ call.pos \in Int /\ k \in Int
      BY <1>n DEF Numbers
    <3>4. (Ahead + k) + distance = start + (call.pos + k)
      BY <1>3, <3>2, <3>3
    <3>. QED
      BY <3>1, <3>2, <3>4
  <2>3. CASE pc = "read" \/ Returned(-1)
    BY <1>1, <2>3 DEF ReadsSome, Returned, ReadsOn
  <2>. QED
    BY <1>1, <2>1, <2>2, <2>3 DEF ReadsSome
<1>. QED
  BY <1>1, <1>2 DEF Holds, Reading

-----------------------------------------------------------------------------
(* Writing. *)

(* Byte i of what the sink has and is going to get. *)
Arrived(i) == IF i < Len(sink) THEN sink[i + 1] ELSE out.data[i - Len(sink)]

(* r of the bytes have arrived. *)
Arrives(data, r) ==
    /\ sink' \in Seq(Nat)
    /\ Len(sink') = Len(sink) + r
    /\ \A i \in 1 .. Len(sink) + r :
          sink'[i] = IF i <= Len(sink) THEN sink[i] ELSE data[i - Len(sink) - 1]

(* What write() of the sink does, and what its result tells. *)
LEMMA SinkArrives ==
    ASSUME Typed, Bounded, NEW n \in Nat, NEW r \in Int, NEW data,
           \A i \in 0 .. n - 1 : data[i] \in Nat,
           SinkWrites(data, n, r)
    PROVE  /\ r = -1 \/ r \in 0 .. n
           /\ r = -1 => sink' = sink /\ "failed" \in faults'
           /\ r # -1 => Arrives(data, r)
           /\ setup.device \/ Len(sink') <= room
           /\ faults \subseteq faults'
           /\ r = n => faults' = faults
           /\ r # n /\ r # -1 => "short" \in faults'
<1>n. Numbers
  BY TypedNumbers
<1>1. /\ r = -1 \/ r \in 0 .. n
      /\ setup.device \/ (r = n /\ Len(sink) + n <= room)
      /\ faults \subseteq faults'
      /\ r = n => faults' = faults
      /\ r = -1 => "failed" \in faults'
      /\ r # n /\ r # -1 => "short" \in faults'
  BY DEF SinkWrites, Fault
<1>2. CASE r = -1
  <2>1. sink' = sink
    BY <1>2 DEF SinkWrites
  <2>2. setup.device \/ Len(sink) <= room
    BY DEF Bounded, WithinBuffers
  <2>. QED
    BY <1>1, <1>2, <2>1, <2>2
<1>3. CASE r # -1
  <2>1. r \in Nat /\ r \in 0 .. n
    BY <1>1, <1>3
  <2>2. sink' = sink \o [i \in 1 .. r |-> data[i - 1]]
    BY <1>3 DEF SinkWrites
  <2>3. \A i \in 1 .. r : data[i - 1] \in Nat
    <3>1. \A i \in 1 .. r : i - 1 \in 0 .. n - 1
      BY <2>1
    <3>. QED
      BY <3>1
  <2>4. /\ [i \in 1 .. r |-> data[i - 1]] \in Seq(Nat)
        /\ Len([i \in 1 .. r |-> data[i - 1]]) = r
    BY <2>1, <2>3, IsASeq
  <2>5. sink \in Seq(Nat)
    BY DEF Typed
  <2>6. Arrives(data, r)
    <3>. DEFINE new == [i \in 1 .. r |-> data[i - 1]]
    <3>1. \A i \in 1 .. r : new[i] = data[i - 1]
      OBVIOUS
    <3>. HIDE DEF new
    <3>5. new \in Seq(Nat) /\ Len(new) = r
      BY <2>4 DEF new
    <3>2. /\ sink \o new \in Seq(Nat)
          /\ Len(sink \o new) = Len(sink) + r
          /\ \A i \in 1 .. Len(sink) + r :
                (sink \o new)[i] = IF i <= Len(sink) THEN sink[i] ELSE new[i - Len(sink)]
      BY <2>5, <3>5, ConcatProperties
    <3>3. ASSUME NEW i \in 1 .. Len(sink) + r, ~(i <= Len(sink))
          PROVE  new[i - Len(sink)] = data[i - Len(sink) - 1]
      <4>1. i - Len(sink) \in 1 .. r
        BY <1>n, <2>1, <3>3 DEF Numbers
      <4>. QED
        BY <3>1, <4>1
    <3>4. sink' = sink \o new
      BY <2>2 DEF new
    <3>. QED
      BY <3>2, <3>3, <3>4 DEF Arrives
  <2>7. setup.device \/ Len(sink') <= room
    BY <1>1, <2>6 DEF Arrives
  <2>. QED
    BY <1>1, <1>3, <2>6, <2>7
<1>. QED
  BY <1>2, <1>3

(* k bytes of the caller's are accepted, unless bytes were lost. *)
Stores(k) ==
    /\ Accepted' = Accepted + k
    /\ \A i \in 0 .. Accepted + k - 1 :
          Arrived(i)' = IF i < Accepted THEN Arrived(i)
                        ELSE block[put.pos + (i - Accepted)]

(* write() of a BufferedOutStream is not through. *)
WritesOn(k) ==
    /\ setup.outSize > 0
    /\ k < put.count
    /\ put' = [count |-> put.count - k, pos |-> put.pos + k]
    /\ UNCHANGED <<res, size, count_, percent, outcome, pc>>
    /\ faults' = faults \/ "short" \in faults'

(* What becomes of the sink and of the internal buffer. *)
Keeps ==
    /\ sink \in Seq(Nat)
    /\ out \in [data : [0 .. setup.outSize - 1 -> Nat], pos : Nat]
    /\ out.pos <= setup.outSize
    /\ setup.device \/ Len(sink) <= room

(* What a step of write() does. *)
WritesSome(k) ==
    /\ Writing
    /\ k \in 0 .. put.count
    /\ Keeps'
    /\ faults \subseteq faults'
    /\ Clean' => Stores(k)
    /\ \/ Wrote(-1) /\ "failed" \in faults'
       \/ /\ Wrote(put.pos + k)
          /\ IF k = put.count THEN faults' = faults
             ELSE \/ "short" \in faults'
                  \/ setup.outSize > 0 /\ "failed" \in faults'
       \/ WritesOn(k)
    /\ UNCHANGED <<setup, reader, room, block, start>>

LEMMA CleanStays == ASSUME faults \subseteq faults', setup' = setup, Clean' PROVE Clean
BY DEF Clean, Canex

LEMMA WriteSinkWrites ==
    ASSUME Typed, Bounded, WriteSink
    PROVE  \E k \in Nat : WritesSome(k)
<1>n. Numbers
  BY TypedNumbers
<1>1. /\ Writing /\ setup.outSize = 0 /\ put.pos = 0 /\ out.pos = 0
      /\ UNCHANGED <<setup, reader, out, room, block, start>>
  BY <1>n DEF WriteSink, Bounded, WithinBuffers, Numbers
<1>2. PICK r \in -1 .. put.count : SinkWrites(block, put.count, r) /\ Wrote(r)
  BY DEF WriteSink
<1>3. /\ r = -1 \/ r \in 0 .. put.count
      /\ r = -1 => sink' = sink /\ "failed" \in faults'
      /\ r # -1 => Arrives(block, r)
      /\ setup.device \/ Len(sink') <= room
      /\ faults \subseteq faults'
      /\ r = put.count => faults' = faults
      /\ r # put.count /\ r # -1 => "short" \in faults'
  <2>1. r \in Int /\ put.count \in Nat
    BY <1>n DEF Numbers
  <2>2. \A i \in 0 .. put.count - 1 : block[i] \in Nat
    <3>1. put.count <= Block
      BY <1>n, <1>1 DEF Bounded, WithinBuffers, Numbers
    <3>2. \A i \in 0 .. put.count - 1 : i \in 0 .. Block - 1
      BY <1>n, <3>1 DEF Numbers
    <3>. QED
      BY <3>2 DEF Typed
  <2>. QED
    BY <1>2, <2>1, <2>2, SinkArrives
<1>4. sink' \in Seq(Nat)
  <2>1. sink \in Seq(Nat)
    BY DEF Typed
  <2>. QED
    BY <1>3, <2>1 DEF Arrives
<1>5. Keeps'
  <2>1. out' \in [data : [0 .. setup'.outSize - 1 -> Nat], pos : Nat] /\ out'.pos <= setup'.outSize
    BY <1>1 DEF Typed
  <2>. QED
    BY <1>1, <1>3, <1>4, <2>1 DEF Keeps
<1>6. CASE r = -1
  <2>1. Accepted' = Accepted /\ Accepted \in Nat /\ Accepted + 0 = Accepted
    BY <1>n, <1>1, <1>3, <1>6 DEF Accepted, Numbers
  <2>2. \A i : Arrived(i)' = Arrived(i)
    BY <1>1, <1>3, <1>6 DEF Arrived
  <2>3. Stores(0)
    BY <2>1, <2>2 DEF Stores
  <2>4. 0 \in 0 .. put.count
    BY <1>n DEF Numbers
  <2>. QED
    BY <1>1, <1>2, <1>3, <1>5, <1>6, <2>3, <2>4 DEF WritesSome
<1>7. CASE r # -1
  <2>1. r \in Nat /\ r \in 0 .. put.count /\ put.pos + r = r
    BY <1>1, <1>3, <1>7
  <2>2. /\ Accepted = Len(sink) /\ Accepted' = Accepted + r
    <3>1. Len(sink') = Len(sink) + r /\ out.pos = 0 /\ out'.pos = 0
      BY <1>1, <1>3, <1>7 DEF Arrives
    <3>. QED
      BY <1>n, <2>1, <3>1 DEF Accepted, Numbers
  <2>3. ASSUME NEW i \in 0 .. Accepted + r - 1
        PROVE  Arrived(i)' = IF i < Accepted THEN Arrived(i)
                             ELSE block[put.pos + (i - Accepted)]
    <3>1. i + 1 \in 1 .. Len(sink) + r /\ i < Len(sink') /\ i \in Int
      <4>1. Len(sink') = Len(sink) + r
        BY <1>3, <1>7 DEF Arrives
      <4>. QED
        BY <1>n, <2>1, <2>2, <4>1 DEF Numbers
    <3>2. Arrived(i)' = sink'[i + 1]
      BY <3>1 DEF Arrived
    <3>3. sink'[i + 1] = IF i + 1 <= Len(sink) THEN sink[i + 1] ELSE block[i + 1 - Len(sink) - 1]
      BY <1>3, <1>7, <3>1 DEF Arrives
    <3>4. CASE i < Len(sink)
      BY <1>n, <2>2, <3>1, <3>2, <3>3, <3>4 DEF Arrived, Numbers
    <3>5. CASE ~(i < Len(sink))
      <4>1. ~(i + 1 <= Len(sink)) /\ i + 1 - Len(sink) - 1 = put.pos + (i - Accepted)
        BY <1>n, <1>1, <2>2, <3>1, <3>5 DEF Numbers
      <4>. QED
        BY <2>2, <3>2, <3>3, <3>5, <4>1
    <3>. QED
      BY <3>4, <3>5
  <2>4. Stores(r)
    BY <2>2, <2>3 DEF Stores
  <2>. QED
    BY <1>1, <1>2, <1>3, <1>5, <1>7, <2>1, <2>4 DEF WritesSome
<1>. QED
  BY <1>6, <1>7

(* The buffer takes n bytes. *)
LEMMA BufferFills ==
    ASSUME Typed, Bounded, Writing, NEW n \in Nat, n <= put.count,
           out.pos + n <= setup.outSize,
           NEW filled, filled = Copied(out.data, out.pos, block, put.pos, n)
    PROVE  /\ filled \in [0 .. setup.outSize - 1 -> Nat]
           /\ \A j \in 0 .. out.pos + n - 1 :
                 filled[j] = IF j < out.pos THEN out.data[j]
                             ELSE block[put.pos + (j - out.pos)]
<1>n. Numbers
  BY TypedNumbers
<1>1. \A i \in put.pos .. put.pos + n - 1 : block[i] \in Nat
  <2>1. put.pos + put.count <= Block
    BY DEF Bounded, WithinBuffers
  <2>2. \A i \in put.pos .. put.pos + n - 1 : i \in 0 .. Block - 1
    BY <1>n, <2>1 DEF Numbers
  <2>. QED
    BY <2>2 DEF Typed
<1>2. IsCopy(filled, 0 .. setup.outSize - 1, out.data, out.pos, block, put.pos, n)
  <2>1. /\ out.data \in [0 .. setup.outSize - 1 -> Nat]
        /\ 0 .. setup.outSize - 1 \in SUBSET Int /\ out.pos \in Nat /\ put.pos \in Nat
    BY <1>n, SMTT(60) DEF Typed, Numbers
  <2>. QED
    BY <1>1, <2>1, CopiedBytes
<1>3. ASSUME NEW j \in 0 .. out.pos + n - 1
      PROVE  filled[j] = IF j < out.pos THEN out.data[j] ELSE block[put.pos + (j - out.pos)]
  <2>1. j \in 0 .. setup.outSize - 1 /\ j \in Int
    BY <1>n, <1>3, SMTT(60) DEF Numbers
  <2>2. filled[j] = IF j \in out.pos .. out.pos + n - 1
                    THEN block[put.pos + j - out.pos] ELSE out.data[j]
    BY <1>2, <2>1 DEF IsCopy
  <2>3. CASE j < out.pos
    <3>1. j \notin out.pos .. out.pos + n - 1
      BY <1>n, <2>1, <2>3 DEF Numbers
    <3>. QED
      BY <2>2, <2>3, <3>1
  <2>4. CASE ~(j < out.pos)
    <3>1. j \in out.pos .. out.pos + n - 1 /\ put.pos + j - out.pos = put.pos + (j - out.pos)
      BY <1>n, <1>3, <2>1, <2>4 DEF Numbers
    <3>. QED
      BY <2>2, <2>4, <3>1
  <2>. QED
    BY <2>3, <2>4
<1>. QED
  BY <1>2, <1>3 DEF IsCopy

LEMMA KeepWrites ==
    ASSUME Typed, Bounded, Keep
    PROVE  WritesSome(put.count)
<1>n. Numbers
  BY TypedNumbers
<1>1. /\ Writing /\ out.pos + put.count <= setup.outSize
      /\ Wrote(put.pos + put.count)
      /\ UNCHANGED <<setup, reader, sink, room, block, start, faults>>
  BY <1>n DEF Keep, Overflows, Numbers
<1>2. PICK filled : /\ filled = Copied(out.data, out.pos, block, put.pos, put.count)
                    /\ out' = [data |-> filled, pos |-> out.pos + put.count]
  BY DEF Keep
<1>3. /\ filled \in [0 .. setup.outSize - 1 -> Nat]
      /\ \A j \in 0 .. out.pos + put.count - 1 :
            filled[j] = IF j < out.pos THEN out.data[j]
                        ELSE block[put.pos + (j - out.pos)]
  <2>1. put.count \in Nat /\ put.count <= put.count
    BY <1>n DEF Numbers
  <2>. QED
    BY <1>1, <1>2, <2>1, BufferFills, SMTT(60)
<1>4. Keeps'
  <2>1. out.pos + put.count \in Nat
    BY <1>n DEF Numbers
  <2>2. sink \in Seq(Nat) /\ (setup.device \/ Len(sink) <= room)
    BY DEF Typed, Bounded, WithinBuffers
  <2>. QED
    BY <1>1, <1>2, <1>3, <2>1, <2>2 DEF Keeps
<1>5. Stores(put.count)
  <2>1. sink' = sink /\ out'.pos = out.pos + put.count /\ out'.data = filled
    BY <1>1, <1>2
  <2>2. Accepted' = Accepted + put.count
    BY <1>n, <2>1 DEF Accepted, Numbers
  <2>3. ASSUME NEW i \in 0 .. Accepted + put.count - 1
        PROVE  Arrived(i)' = IF i < Accepted THEN Arrived(i)
                             ELSE block[put.pos + (i - Accepted)]
    <3>0. i \in Int /\ Accepted = Len(sink) + out.pos /\ Len(sink) \in Nat /\ out.pos \in Nat
          /\ put.count \in Nat
      BY <1>n DEF Accepted, Numbers
    <3>1. CASE i < Len(sink)
      BY <2>1, <3>0, <3>1 DEF Arrived
    <3>2. CASE ~(i < Len(sink))
      <4>1. i - Len(sink) \in 0 .. out.pos + put.count - 1
        BY <2>3, <3>0, <3>2, SMTT(60)
      <4>2. Arrived(i)' = filled[i - Len(sink)] /\ Arrived(i) = out.data[i - Len(sink)]
        BY <2>1, <3>2 DEF Arrived
      <4>3. filled[i - Len(sink)] = IF i - Len(sink) < out.pos THEN out.data[i - Len(sink)]
                                    ELSE block[put.pos + (i - Len(sink) - out.pos)]
        BY <1>3, <4>1
      <4>4. /\ (i - Len(sink) < out.pos) = (i < Accepted)
            /\ i - Len(sink) - out.pos = i - Accepted
        BY <3>0
      <4>. QED
        BY <4>2, <4>3, <4>4
    <3>. QED
      BY <3>1, <3>2
  <2>. QED
    BY <2>2, <2>3 DEF Stores
<1>6. put.count \in 0 .. put.count
  BY <1>n DEF Numbers
<1>. QED
  BY <1>1, <1>4, <1>5, <1>6 DEF WritesSome

LEMMA SpillWrites ==
    ASSUME Typed, Bounded, Spill
    PROVE  WritesSome(setup.outSize - out.pos)
<1>. DEFINE remain == setup.outSize - out.pos
            taken == put.pos + remain
<1>n. Numbers
  BY TypedNumbers
<1>0. remain \in Nat /\ remain < put.count /\ out.pos + remain = setup.outSize
      /\ setup.outSize > 0
  <2>1. out.pos <= setup.outSize
    BY DEF Bounded, WithinBuffers
  <2>2. out.pos + put.count > setup.outSize /\ setup.outSize > 0
    BY DEF Spill, Overflows
  <2>. QED
    BY <1>n, <2>1, <2>2, SMTT(60) DEF Numbers
<1>1. /\ Writing
      /\ UNCHANGED <<setup, reader, room, block, start>>
  BY DEF Spill
<1>2. PICK filled :
         /\ filled = Copied(out.data, out.pos, block, put.pos, remain)
         /\ \E r \in -1 .. setup.outSize :
               /\ SinkWrites(filled, setup.outSize, r)
               /\ IF r = -1
                  THEN /\ out' = [out EXCEPT !.data = filled]
                       /\ Wrote(IF taken = 0 THEN -1 ELSE taken)
                  ELSE /\ out' = [data |-> filled, pos |-> 0]
                       /\ put' = [count |-> put.count - remain, pos |-> taken]
                       /\ UNCHANGED <<res, size, count_, percent, outcome, pc>>
  BY DEF Spill
<1>. HIDE DEF remain
<1>3. /\ filled \in [0 .. setup.outSize - 1 -> Nat]
      /\ \A j \in 0 .. setup.outSize - 1 :
            filled[j] = IF j < out.pos THEN out.data[j]
                        ELSE block[put.pos + (j - out.pos)]
  <2>1. remain \in Nat /\ remain <= put.count /\ out.pos + remain <= setup.outSize
    BY <1>n, <1>0, SMTT(60) DEF Numbers
  <2>2. /\ filled \in [0 .. setup.outSize - 1 -> Nat]
        /\ \A j \in 0 .. out.pos + remain - 1 :
              filled[j] = IF j < out.pos THEN out.data[j]
                          ELSE block[put.pos + (j - out.pos)]
    BY <1>1, <1>2, <2>1, BufferFills
  <2>3. \A j \in 0 .. setup.outSize - 1 : j \in 0 .. out.pos + remain - 1
    BY <1>n, <1>0 DEF Numbers
  <2>. QED
    BY <2>2, <2>3
<1>4. PICK r \in -1 .. setup.outSize :
         /\ SinkWrites(filled, setup.outSize, r)
         /\ IF r = -1
            THEN /\ out' = [out EXCEPT !.data = filled]
                 /\ Wrote(IF taken = 0 THEN -1 ELSE taken)
            ELSE /\ out' = [data |-> filled, pos |-> 0]
                 /\ put' = [count |-> put.count - remain, pos |-> taken]
                 /\ UNCHANGED <<res, size, count_, percent, outcome, pc>>
  BY <1>2
<1>5. /\ r = -1 \/ r \in 0 .. setup.outSize
      /\ r = -1 => sink' = sink /\ "failed" \in faults'
      /\ r # -1 => Arrives(filled, r)
      /\ setup.device \/ Len(sink') <= room
      /\ faults \subseteq faults'
      /\ r = setup.outSize => faults' = faults
      /\ r # setup.outSize /\ r # -1 => "short" \in faults'
  <2>1. r \in Int /\ setup.outSize \in Nat
    BY <1>n DEF Numbers
  <2>2. \A i \in 0 .. setup.outSize - 1 : filled[i] \in Nat
    BY <1>3
  <2>. QED
    BY <1>4, <2>1, <2>2, SinkArrives
<1>6. sink' \in Seq(Nat)
  <2>1. sink \in Seq(Nat)
    BY DEF Typed
  <2>. QED
    BY <1>5, <2>1 DEF Arrives
<1>7. remain \in 0 .. put.count
  BY <1>n, <1>0 DEF Numbers
<1>8. CASE r = -1
  <2>1. out' = [data |-> filled, pos |-> out.pos]
    BY <1>4, <1>8 DEF Typed
  <2>2. Keeps'
    <3>1. out.pos \in Nat /\ out.pos <= setup.outSize
      BY <1>n DEF Numbers, Bounded, WithinBuffers
    <3>. QED
      BY <1>1, <1>3, <1>5, <1>6, <2>1, <3>1 DEF Keeps
  <2>3. ~Clean'
    BY <1>0, <1>1, <1>5, <1>8 DEF Clean
  <2>4. Wrote(-1) \/ Wrote(put.pos + remain)
    BY <1>4, <1>8
  <2>5. remain # put.count
    BY <1>n, <1>0 DEF Numbers
  <2>. QED
    BY <1>0, <1>1, <1>5, <1>7, <1>8, <2>2, <2>3, <2>4, <2>5 DEF WritesSome, remain
<1>9. CASE r # -1
  <2>1. /\ out' = [data |-> filled, pos |-> 0]
        /\ put' = [count |-> put.count - remain, pos |-> put.pos + remain]
        /\ UNCHANGED <<res, size, count_, percent, outcome, pc>>
    BY <1>4, <1>9
  <2>2. Keeps'
    BY <1>n, <1>1, <1>3, <1>5, <1>6, <2>1 DEF Keeps, Numbers
  <2>3. WritesOn(remain)
    BY <1>0, <1>5, <1>9, <2>1 DEF WritesOn
  <2>4. ASSUME Clean' PROVE Stores(remain)
    <3>1. r = setup.outSize
      BY <1>0, <1>1, <1>5, <1>9, <2>4 DEF Clean
    <3>2. Len(sink') = Len(sink) + setup.outSize
      BY <1>5, <1>9, <3>1 DEF Arrives
    <3>0. Accepted = Len(sink) + out.pos /\ Len(sink) \in Nat /\ out.pos \in Nat
          /\ setup.outSize \in Nat
      BY <1>n DEF Accepted, Numbers
    <3>3. Accepted' = Accepted + remain /\ Accepted + remain = Len(sink) + setup.outSize
      <4>1. Accepted' = Len(sink') + 0
        BY <2>1 DEF Accepted
      <4>. QED
        BY <1>0, <3>0, <3>2, <4>1, SMTT(60)
    <3>4. ASSUME NEW i \in 0 .. Accepted + remain - 1
          PROVE  Arrived(i)' = IF i < Accepted THEN Arrived(i)
                               ELSE block[put.pos + (i - Accepted)]
      <4>0. i \in Int /\ i \in 0 .. Len(sink) + setup.outSize - 1
        <5>1. Accepted + (remain - 1) = Len(sink) + (setup.outSize - 1)
          <6>1. \A a, b, c, d \in Int : a + b = c + d => a + (b - 1) = c + (d - 1)
            OBVIOUS
          <6>2. Accepted \in Int /\ remain \in Int /\ Len(sink) \in Int /\ setup.outSize \in Int
            BY <1>0, <3>0
          <6>3. Accepted + remain = Len(sink) + setup.outSize
            BY <3>3
          <6>. QED
            BY <6>1, <6>2, <6>3
        <5>2. i \in 0 .. Len(sink) + (setup.outSize - 1)
          BY <3>4, <5>1, Zenon
        <5>. QED
          BY <3>0, <5>2
      <4>1. i + 1 \in 1 .. Len(sink) + r /\ i < Len(sink')
        BY <3>0, <3>1, <3>2, <4>0
      <4>2. Arrived(i)' = sink'[i + 1]
        BY <4>1 DEF Arrived
      <4>3. sink'[i + 1] = IF i + 1 <= Len(sink) THEN sink[i + 1] ELSE filled[i + 1 - Len(sink) - 1]
        BY <1>5, <1>9, <4>1 DEF Arrives
      <4>4. CASE i < Len(sink)
        <5>1. i + 1 <= Len(sink) /\ i < Accepted
          BY <3>0, <4>0, <4>4
        <5>. QED
          BY <4>2, <4>3, <4>4, <5>1 DEF Arrived
      <4>5. CASE ~(i < Len(sink))
        <5>1. /\ ~(i + 1 <= Len(sink)) /\ i + 1 - Len(sink) - 1 = i - Len(sink)
              /\ i - Len(sink) \in 0 .. setup.outSize - 1
              /\ (i - Len(sink) < out.pos) = (i < Accepted)
              /\ i - Len(sink) - out.pos = i - Accepted
          BY <3>0, <4>0, <4>5, SMTT(60)
        <5>2. filled[i - Len(sink)] = IF i - Len(sink) < out.pos THEN out.data[i - Len(sink)]
                                      ELSE block[put.pos + (i - Len(sink) - out.pos)]
          BY <1>3, <5>1
        <5>3. Arrived(i) = out.data[i - Len(sink)]
          BY <4>5 DEF Arrived
        <5>. QED
          BY <4>2, <4>3, <5>1, <5>2, <5>3
      <4>. QED
        BY <4>4, <4>5
    <3>. QED
      BY <3>3, <3>4 DEF Stores
  <2>. QED
    BY <1>1, <1>5, <1>7, <2>2, <2>3, <2>4 DEF WritesSome, remain
<1>. QED
  BY <1>8, <1>9

LEMMA WriteStep ==
    ASSUME Typed, Bounded, WriteSink \/ Spill \/ Keep
    PROVE  \E k \in Nat : WritesSome(k)
<1>n. Numbers
  BY TypedNumbers
<1>1. CASE WriteSink
  BY <1>1, WriteSinkWrites
<1>2. CASE Spill
  <2>1. out.pos <= setup.outSize
    BY DEF Bounded, WithinBuffers
  <2>2. setup.outSize - out.pos \in Nat
    BY <1>n, <2>1 DEF Numbers
  <2>. QED
    BY <1>2, <2>2, SpillWrites
<1>3. CASE Keep
  <2>1. put.count \in Nat
    BY <1>n DEF Numbers
  <2>. QED
    BY <1>3, <2>1, KeepWrites
<1>. QED
  BY <1>1, <1>2, <1>3

LEMMA WriteTyped ==
    ASSUME Typed, Bounded, NEW k \in Nat, WritesSome(k)
    PROVE  Typed'
<1>n. Numbers
  BY TypedNumbers
<1>1. /\ sink' \in Seq(Nat)
      /\ out' \in [data : [0 .. setup'.outSize - 1 -> Nat], pos : Nat]
      /\ UNCHANGED <<setup, reader, room, block, start>>
      /\ Writing
  BY DEF WritesSome, Keeps
<1>0. k <= put.count
  BY DEF WritesSome
<1>2. put.pos + k \in Nat /\ put.count - k \in Nat /\ count_ + (put.pos + k) \in Nat
      /\ count_ + res \in Nat
  BY <1>n, <1>0, SMTT(60) DEF Numbers
<1>3. Sized => size - (put.pos + k) \in Nat
  <2>1. Sized => put.pos + put.count <= size
    BY <1>1 DEF Bounded
  <2>. QED
    BY <1>n, <1>0, <2>1, SMTT(60) DEF Numbers
<1>4. /\ put' \in [count : Nat, pos : Nat]
      /\ res' \in Nat
      /\ size' \in Nat
      /\ count_' \in Nat
      /\ outcome' \in {"none", "true", "false", "thrown", "cancelled"}
      /\ pc' \in PCs
  <2>0. /\ res \in Nat /\ size \in Nat /\ count_ \in Nat
        /\ outcome \in {"none", "true", "false", "thrown", "cancelled"}
        /\ pc \in PCs
    BY DEF Typed
  <2>1. CASE Wrote(-1)
    BY <2>0, <2>1 DEF Wrote, Refused, PCs
  <2>2. CASE Wrote(put.pos + k)
    BY <1>2, <1>3, <2>0, <2>2 DEF Wrote, Update, PCs
  <2>3. CASE WritesOn(k)
    BY <1>2, <2>0, <2>3 DEF WritesOn
  <2>. QED
    BY <2>1, <2>2, <2>3 DEF WritesSome
<1>. QED
  BY <1>1, <1>4 DEF Typed, reader

LEMMA WriteBounded ==
    ASSUME Typed, Bounded, NEW k \in Nat, WritesSome(k)
    PROVE  Bounded'
<1>n. Numbers
  BY TypedNumbers
<1>1. /\ k <= put.count /\ Writing
      /\ out'.pos <= setup.outSize
      /\ setup.device \/ Len(sink') <= room'
      /\ UNCHANGED <<setup, position, in, call, room, start>>
  BY DEF WritesSome, Keeps, reader
<1>2. /\ in'.pos + in'.left <= setup'.inSize
      /\ call' = NoCall
      /\ put.pos + put.count <= Block
      /\ pc = "padding" => Sized
  BY <1>1 DEF Bounded, WithinBuffers, Writing
<1>3. CASE Wrote(-1) \/ Wrote(put.pos + k)
  <2>1. put' = NoCall /\ pc' \in {"done", "test", "pad"} /\ (pc' = "pad" => Sized)
    BY <1>1, <1>2, <1>3 DEF Wrote, NoCall
  <2>2. put'.pos + put'.count <= Block /\ put'.pos = 0
    BY <1>n, <2>1 DEF NoCall, Numbers
  <2>. QED
    BY <1>1, <1>2, <2>1, <2>2 DEF Bounded, WithinBuffers, Writing, Sized
<1>4. CASE WritesOn(k)
  <2>1. /\ put'.pos = put.pos + k /\ put'.count = put.count - k /\ setup.outSize > 0
        /\ UNCHANGED <<pc, size>>
    BY <1>4 DEF WritesOn
  <2>2. put'.pos + put'.count = put.pos + put.count
    BY <1>n, <2>1 DEF Numbers
  <2>. QED
    BY <1>n, <1>1, <1>2, <2>1, <2>2 DEF Bounded, WithinBuffers, Writing, Sized, NoCall, Numbers
<1>. QED
  BY <1>3, <1>4 DEF WritesSome

LEMMA WriteReading ==
    ASSUME Reading, NEW k \in Nat, WritesSome(k)
    PROVE  Reading'
<1>1. pc' \notin {"idle", "skip"}
  BY DEF WritesSome, Wrote, WritesOn, Writing
<1>2. UNCHANGED <<setup, position, in, start>>
  BY DEF WritesSome, reader
<1>. QED
  BY <1>1, <1>2 DEF Reading, Ahead

(* The flush keeps what was accepted, unless bytes are lost. *)
LEMMA FlushKeeps ==
    ASSUME Typed, Bounded, Flush
    PROVE  /\ Keeps'
           /\ faults \subseteq faults'
           /\ Clean' => /\ out'.pos = 0
                        /\ Accepted' = Accepted
                        /\ \A i \in 0 .. Accepted - 1 : Arrived(i)' = Arrived(i)
<1>n. Numbers
  BY TypedNumbers
<1>0. Keeps /\ UNCHANGED <<setup, room>>
  BY DEF Typed, Bounded, WithinBuffers, Keeps, Flush
<1>1. CASE setup.outSize = 0
  <2>1. UNCHANGED <<out, sink, faults>>
    BY <1>1 DEF Flush
  <2>2. out.pos = 0
    BY <1>n, <1>1 DEF Bounded, WithinBuffers, Numbers
  <2>. QED
    BY <1>0, <2>1, <2>2 DEF Keeps, Accepted, Arrived
<1>2. CASE setup.outSize # 0
  <2>1. PICK r \in -1 .. setup.outSize :
           /\ SinkWrites(out.data, out.pos, r)
           /\ out' = IF r = -1 THEN out ELSE [out EXCEPT !.pos = 0]
    BY <1>2 DEF Flush
  <2>2. /\ r = -1 \/ r \in 0 .. out.pos
        /\ r = -1 => sink' = sink /\ "failed" \in faults'
        /\ r # -1 => Arrives(out.data, r)
        /\ setup.device \/ Len(sink') <= room
        /\ faults \subseteq faults'
        /\ r # out.pos /\ r # -1 => "short" \in faults'
    <3>1. r \in Int /\ out.pos \in Nat
      BY <1>n DEF Numbers
    <3>2. \A i \in 0 .. out.pos - 1 : out.data[i] \in Nat
      <4>1. out.pos <= setup.outSize
        BY DEF Bounded, WithinBuffers
      <4>2. \A i \in 0 .. out.pos - 1 : i \in 0 .. setup.outSize - 1
        BY <1>n, <4>1 DEF Numbers
      <4>. QED
        BY <4>2 DEF Typed
    <3>. QED
      BY <2>1, <3>1, <3>2, SinkArrives
  <2>3. /\ out' \in [data : [0 .. setup.outSize - 1 -> Nat], pos : Nat]
        /\ out'.pos <= setup.outSize
        /\ r # -1 => out'.pos = 0
    <3>1. out \in [data : [0 .. setup.outSize - 1 -> Nat], pos : Nat] /\ out.pos <= setup.outSize
      BY <1>0 DEF Keeps
    <3>2. CASE r = -1
      BY <2>1, <3>1, <3>2
    <3>3. CASE r # -1
      <4>1. out' = [data |-> out.data, pos |-> 0]
        BY <2>1, <3>1, <3>3
      <4>2. 0 <= setup.outSize
        BY <1>n DEF Numbers
      <4>. QED
        BY <3>1, <4>1, <4>2
    <3>. QED
      BY <3>2, <3>3
  <2>4. sink' \in Seq(Nat)
    BY <1>0, <2>2 DEF Keeps, Arrives
  <2>5. ASSUME Clean'
        PROVE  /\ out'.pos = 0
               /\ Accepted' = Accepted
               /\ \A i \in 0 .. Accepted - 1 : Arrived(i)' = Arrived(i)
    <3>1. r = out.pos /\ r # -1
      BY <1>n, <1>0, <1>2, <2>2, <2>5 DEF Clean, Numbers
    <3>2. /\ Len(sink') = Len(sink) + out.pos
          /\ out'.pos = 0
          /\ \A i \in 1 .. Len(sink) + out.pos :
                sink'[i] = IF i <= Len(sink) THEN sink[i] ELSE out.data[i - Len(sink) - 1]
      BY <2>2, <2>3, <3>1 DEF Arrives
    <3>3. Accepted' = Accepted
      BY <1>n, <3>2 DEF Accepted, Numbers
    <3>4. ASSUME NEW i \in 0 .. Accepted - 1 PROVE Arrived(i)' = Arrived(i)
      <4>0. /\ i \in Int /\ i + 1 \in 1 .. Len(sink) + out.pos
            /\ i < Len(sink) + out.pos /\ Len(sink) \in Nat /\ out.pos \in Nat
        BY <1>n DEF Numbers, Accepted
      <4>1. Arrived(i)' = sink'[i + 1]
        BY <3>2, <4>0 DEF Arrived
      <4>2. sink'[i + 1] = IF i + 1 <= Len(sink) THEN sink[i + 1]
                           ELSE out.data[i + 1 - Len(sink) - 1]
        BY <3>2, <4>0
      <4>3. CASE i < Len(sink)
        <5>1. i + 1 <= Len(sink)
          BY <4>0, <4>3
        <5>. QED
          BY <4>1, <4>2, <4>3, <5>1 DEF Arrived
      <4>4. CASE ~(i < Len(sink))
        <5>1. ~(i + 1 <= Len(sink)) /\ i + 1 - Len(sink) - 1 = i - Len(sink)
          BY <4>0, <4>4
        <5>. QED
          BY <4>1, <4>2, <4>4, <5>1 DEF Arrived
      <4>. QED
        BY <4>3, <4>4
    <3>. QED
      BY <3>2, <3>3, <3>4
  <2>. QED
    BY <1>0, <2>2, <2>3, <2>4, <2>5 DEF Keeps
<1>. QED
  BY <1>1, <1>2

Base == Typed /\ Bounded /\ Reading

LEMMA BaseStep == Base /\ [Next]_vars => Base'
<1>. SUFFICES ASSUME Typed, Bounded, Reading, [Next]_vars PROVE Base'
  BY DEF Base
<1>n. Numbers
  BY TypedNumbers
<1>1. CASE Refill \/ Serve \/ ReadSource
  <2>1. PICK k \in Nat : ReadsSome(k)
    BY <1>1, ReadStep
  <2>. QED
    BY <2>1, ReadTyped, ReadBounded, ReadReading DEF Base
<1>2. CASE WriteSink \/ Spill \/ Keep
  <2>1. PICK k \in Nat : WritesSome(k)
    BY <1>2, WriteStep
  <2>. QED
    BY <2>1, WriteTyped, WriteBounded, WriteReading DEF Base
<1>3. CASE Skip
  <2>1. /\ pc = "skip" /\ call.count = 0 /\ call.pos = 0 /\ setup.inSize > 0 /\ distance > 0
        /\ call' = [call EXCEPT !.count = Least(distance, setup.inSize)]
        /\ UNCHANGED <<setup, position, in, distance, writer, copier, pc, start, faults>>
    BY <1>3 DEF Skip, Bounded
  <2>2. Least(distance, setup.inSize) \in Nat /\ Least(distance, setup.inSize) <= distance
        /\ Least(distance, setup.inSize) # 0
    <3>1. distance > 0 /\ setup.inSize > 0
      BY <2>1
    <3>. QED
      BY <1>n, <3>1, SMTT(60) DEF Numbers, Least
  <2>3. call' = [count |-> Least(distance, setup.inSize), pos |-> 0]
    BY <2>1 DEF Typed
  <2>4. Typed'
    BY <2>1, <2>2, <2>3 DEF Typed, writer, copier
  <2>5. Bounded'
    BY <1>n, <2>1, <2>2, <2>3 DEF Bounded, WithinBuffers, writer, copier, Writing, Sized, NoCall, Numbers
  <2>6. Reading'
    BY <2>1, <2>3 DEF Reading, Ahead
  <2>. QED
    BY <2>4, <2>5, <2>6 DEF Base
<1>4. CASE Grow
  <2>1. /\ room' = 2 * room
        /\ UNCHANGED <<setup, reader, out, put, sink, copier, pc, start>>
    BY <1>4 DEF Grow
  <2>2. room' \in Nat /\ (setup.device \/ Len(sink) <= room')
    BY <1>n, <2>1 DEF Numbers, Bounded, WithinBuffers
  <2>3. Typed'
    BY <2>1, <2>2 DEF Typed, reader, copier
  <2>4. Bounded'
    BY <2>1, <2>2 DEF Bounded, WithinBuffers, reader, copier, Writing, Sized, NoCall
  <2>. QED
    BY <2>1, <2>3, <2>4 DEF Base, Reading, Ahead, reader
<1>5. CASE Flush
  <2>1. Keeps' /\ pc = "done" /\ pc' = "closed" /\ UNCHANGED <<setup, reader, put, room, copier, start>>
    BY <1>5, FlushKeeps DEF Flush
  <2>2. Typed'
    BY <2>1 DEF Typed, Keeps, reader, copier, PCs
  <2>3. Bounded'
    BY <2>1 DEF Bounded, WithinBuffers, Keeps, reader, copier, Writing, Sized, NoCall
  <2>. QED
    BY <2>1, <2>2, <2>3 DEF Base, Reading, Ahead, reader
<1>6. ASSUME NEW d \in 0 .. MaxStart, NEW fromStart \in BOOLEAN, Seek(d, fromStart)
      PROVE  Base'
  <2>0. /\ d \in Nat /\ pc = "idle" /\ call = NoCall /\ Ahead = start
        /\ start' = IF fromStart THEN d ELSE start + d
        /\ UNCHANGED <<setup, call, writer, copier, faults>>
    BY <1>n, <1>6 DEF Seek, Numbers, Bounded, Reading
  <2>1. start' \in Nat
    BY <1>n, <2>0 DEF Numbers
  <2>2. CASE setup.inSize = 0
    <3>1. position' = Moved(d, fromStart) /\ UNCHANGED <<in, distance, pc>>
      BY <1>6, <2>2 DEF Seek
    <3>2. in.left = 0
      BY <1>n, <2>2 DEF Bounded, WithinBuffers, Numbers
    <3>3. position = start
      BY <1>n, <2>0, <3>2 DEF Ahead, Numbers
    <3>4. position' = start'
      BY <2>0, <3>1, <3>3 DEF Moved
    <3>5. Typed'
      BY <2>0, <2>1, <3>1, <3>4 DEF Typed, writer, copier
    <3>6. Bounded'
      BY <2>0, <3>1 DEF Bounded, WithinBuffers, writer, copier, Writing, Sized, NoCall
    <3>7. Reading'
      <4>1. Ahead' = position' /\ in'.left = 0
        <5>1. position' \in Nat /\ in'.left = 0
          BY <2>1, <3>1, <3>2, <3>4
        <5>2. Ahead' = position' - 0
          BY <5>1, Zenon DEF Ahead
        <5>3. \A n \in Nat : n - 0 = n
          OBVIOUS
        <5>. QED
          BY <5>1, <5>2, <5>3, Zenon
      <4>2. position' <= Length \/ (start' >= Length)
        BY <1>n, <2>1, <3>4 DEF Numbers
      <4>3. in'.pos .. in'.pos + in'.left - 1 = {}
        BY <1>n, <3>1, <3>2 DEF Numbers
      <4>4. in'.left <= position'
        BY <2>1, <3>4, <4>1
      <4>. QED
        BY <2>0, <2>2, <3>1, <3>4, <4>1, <4>2, <4>3, <4>4 DEF Reading
    <3>. QED
      BY <3>5, <3>6, <3>7 DEF Base
  <2>3. CASE setup.inSize > 0
    <3>1. /\ position' = IF fromStart THEN 0 ELSE position
          /\ in' = IF fromStart THEN [in EXCEPT !.pos = 0, !.left = 0] ELSE in
          /\ distance' = d
          /\ pc' = IF d = 0 THEN "idle" ELSE "skip"
      BY <1>n, <1>6, <2>3 DEF Seek, Moved, Numbers
    <3>2. Typed'
      <4>1. /\ in' \in [data : [0 .. setup.inSize - 1 -> Nat], pos : Nat, left : Nat]
            /\ position' \in Nat /\ pc' \in PCs
        BY <3>1 DEF Typed, PCs
      <4>. QED
        BY <2>0, <2>1, <3>1, <4>1 DEF Typed, writer, copier
    <3>3. Bounded'
      <4>1. in'.pos + in'.left <= setup.inSize
        <5>1. CASE fromStart
          <6>1. in'.pos = 0 /\ in'.left = 0
            BY <3>1, <5>1 DEF Typed
          <6>. QED
            BY <1>n, <6>1 DEF Numbers
        <5>2. CASE ~fromStart
          BY <3>1, <5>2 DEF Bounded, WithinBuffers
        <5>. QED
          BY <5>1, <5>2
      <4>2. call' = NoCall /\ call'.count = 0 /\ call'.pos = 0 /\ call'.pos + call'.count = 0
        BY <2>0 DEF NoCall
      <4>3. pc' \in {"idle", "skip"} /\ (pc' = "skip" => distance' > 0)
        BY <2>0, <3>1
      <4>4. setup' = setup /\ out' = out /\ put' = put /\ sink' = sink /\ room' = room /\ size' = size
        BY <2>0 DEF writer, copier
      <4>5. put = NoCall
        BY <2>0 DEF Bounded, Writing
      <4>. QED
        <5>1. WithinBuffers'
          BY <2>0, <4>1, <4>3, <4>4 DEF Bounded, WithinBuffers
        <5>2. call'.pos + call'.count <= distance'
          BY <2>0, <3>1, <4>2
        <5>3. pc' \notin {"read", "write", "pad", "padding"} /\ put'.pos = 0
          BY <4>3, <4>4, <4>5 DEF NoCall
        <5>. QED
          BY <2>3, <4>2, <4>3, <4>4, <4>5, <5>1, <5>2, <5>3 DEF Bounded, Writing
    <3>4. Reading'
      <4>1. CASE fromStart
        <5>1. /\ in'.pos = 0 /\ in'.left = 0 /\ position' = 0 /\ start' = d /\ distance' = d
              /\ call'.pos = 0
          BY <2>0, <3>1, <4>1 DEF Typed, NoCall
        <5>2. Ahead' = 0
          BY <5>1 DEF Ahead
        <5>3. in'.pos .. in'.pos + in'.left - 1 = {}
          BY <5>1
        <5>4. pc' = "idle" => d = 0
          BY <3>1
        <5>. QED
          BY <1>n, <2>0, <5>1, <5>2, <5>3, <5>4 DEF Reading, Numbers
      <4>2. CASE ~fromStart
        <5>1. /\ in' = in /\ position' = position /\ start' = start + d /\ distance' = d
              /\ call'.pos = 0 /\ setup' = setup
          BY <2>0, <3>1, <4>2 DEF NoCall
        <5>2. Ahead' = start /\ start \in Nat
          BY <1>n, <2>0, <5>1 DEF Ahead, Numbers
        <5>3. pc' = "idle" => d = 0
          BY <3>1
        <5>4. position <= Length
          BY <2>3 DEF Reading
        <5>5. \A i \in in.pos .. in.pos + in.left - 1 : in.data[i] = Ahead + i - in.pos + 1
          BY DEF Reading
        <5>6. /\ pc' = "idle" => Ahead' = start'
              /\ pc' = "skip" => Ahead' + distance' = start' + call'.pos
          BY <2>0, <5>1, <5>2, <5>3
        <5>7. Ahead' = Ahead /\ in.left <= position
          BY <5>1 DEF Ahead, Reading
        <5>. QED
          BY <5>1, <5>4, <5>5, <5>6, <5>7 DEF Reading
      <4>. QED
        BY <4>1, <4>2
    <3>. QED
      BY <3>2, <3>3, <3>4 DEF Base
  <2>. QED
    BY <1>n, <2>2, <2>3 DEF Numbers
<1>7. CASE Start
  BY <1>7 DEF Start, Base, Typed, PCs, Bounded, WithinBuffers, Reading, Ahead, NoCall,
              Writing, Sized, reader, writer, copier
<1>8. CASE Continue
  <2>1. /\ pc = "test" /\ pc' = "read"
        /\ (Sized => size > 0)
        /\ call' = [count |-> IF Sized THEN Least(size, Block) ELSE Block, pos |-> 0]
        /\ UNCHANGED <<setup, position, in, distance, writer, copier, start, faults>>
    BY <1>8 DEF Continue
  <2>2. PICK n \in Nat : /\ n > 0 /\ n <= Block /\ (Sized => n <= size)
                         /\ call' = [count |-> n, pos |-> 0]
    <3>1. Least(size, Block) \in Nat /\ Least(size, Block) <= size /\ Least(size, Block) <= Block
          /\ (size > 0 => Least(size, Block) > 0)
      BY <1>n DEF Numbers, Least
    <3>. QED
      BY <1>n, <2>1, <3>1 DEF Numbers
  <2>3. call'.count = n /\ call'.pos = 0 /\ call'.pos + call'.count = n
    BY <2>2
  <2>4. Typed'
    BY <2>1, <2>2 DEF Typed, PCs, writer, copier
  <2>5. Bounded'
    <3>1. UNCHANGED <<setup, in, out, put, sink, room, size>> /\ put = NoCall
      BY <2>1 DEF Bounded, Writing, writer, copier
    <3>. QED
      BY <2>1, <2>2, <2>3, <3>1 DEF Bounded, WithinBuffers, Writing, Sized, NoCall
  <2>. QED
    BY <2>1, <2>4, <2>5 DEF Base, Reading, Ahead
<1>9. CASE Cancel \/ Finish
  <2>1. /\ pc = "test" /\ pc' = "done" /\ outcome' \in {"true", "cancelled"}
        /\ UNCHANGED <<setup, reader, writer, block, res, size, count_, start>>
    BY <1>9 DEF Cancel, Finish
  <2>2. Typed'
    BY <2>1 DEF Typed, PCs, reader, writer
  <2>3. Bounded'
    BY <2>1 DEF Bounded, WithinBuffers, NoCall, Writing, Sized, reader, writer
  <2>. QED
    BY <2>1, <2>2, <2>3 DEF Base, Reading, Ahead, reader
<1>10. CASE PadNext
  <2>1. /\ Sized /\ pc \in {"test", "pad"}
        /\ UNCHANGED <<setup, reader, out, sink, room, res, size, count_, percent, start, faults>>
    BY <1>10 DEF PadNext
  <2>2. CASE size > 0
    <3>1. /\ block' = Zeros(Block)
          /\ put' = [count |-> Least(size, Block), pos |-> 0]
          /\ pc' = "padding"
          /\ UNCHANGED outcome
      BY <1>10, <2>2 DEF PadNext
    <3>2. Least(size, Block) \in Nat /\ Least(size, Block) <= size /\ Least(size, Block) <= Block
      BY <1>n DEF Numbers, Least
    <3>3. block' \in [0 .. Block - 1 -> Nat]
      BY <3>1 DEF Zeros
    <3>4. Typed'
      BY <2>1, <3>1, <3>2, <3>3 DEF Typed, PCs, reader
    <3>5. Bounded'
      <4>1. call = NoCall
        BY <2>1 DEF Bounded
      <4>2. put'.pos = 0 /\ put'.pos + put'.count = Least(size, Block)
        BY <3>1, <3>2
      <4>. QED
        BY <2>1, <3>1, <3>2, <4>1, <4>2 DEF Bounded, WithinBuffers, NoCall, Writing, Sized, reader
    <3>. QED
      BY <2>1, <3>1, <3>4, <3>5 DEF Base, Reading, Ahead, reader
  <2>3. CASE ~(size > 0)
    <3>1. outcome' = "true" /\ pc' = "done" /\ UNCHANGED <<block, put>>
      BY <1>10, <2>3 DEF PadNext
    <3>2. Typed'
      BY <2>1, <3>1 DEF Typed, PCs, reader
    <3>3. Bounded'
      BY <2>1, <3>1 DEF Bounded, WithinBuffers, NoCall, Writing, Sized, reader
    <3>. QED
      BY <2>1, <3>1, <3>2, <3>3 DEF Base, Reading, Ahead, reader
  <2>. QED
    BY <2>2, <2>3
<1>11. CASE UNCHANGED vars
  <2>1. UNCHANGED <<setup, position, in, call, distance, block, res, out, put, sink, room,
                    size, count_, outcome, pc, start>>
    BY <1>11 DEF vars, reader, writer, copier
  <2>2. Typed'
    BY <2>1 DEF Typed
  <2>3. Bounded'
    BY <2>1 DEF Bounded, WithinBuffers, NoCall, Writing, Sized
  <2>4. Reading'
    BY <2>1 DEF Reading, Ahead
  <2>. QED
    BY <2>2, <2>3, <2>4 DEF Base
<1>. QED
  BY <1>1, <1>2, <1>3, <1>4, <1>5, <1>6, <1>7, <1>8, <1>9, <1>10, <1>11
     DEF Next, StreamStep, CopyStep

LEMMA InitBase == Init => Base
BY InitSound, InitReading DEF Base

(***************************************************************************)
(* No memcpy() of the streams leaves its buffers, whatever the sizes of    *)
(* the source, of the blocks and of the two internal buffers.              *)
(***************************************************************************)
THEOREM BuffersKept == Spec => []WithinBuffers
<1>1. Base => WithinBuffers
  BY DEF Base, Bounded
<1>. QED
  BY <1>1, InitBase, BaseStep, PTL DEF Spec

-----------------------------------------------------------------------------
(* What is sent. *)

(* A copy that may have lost bytes unnoticed is not Clean; one that has    *)
(* noticed returns.                                                        *)
Settled == Clean => Faultless \/ (pc \in {"done", "closed"} /\ outcome # "true")

(* Where the client stands in the source and what has been accepted of     *)
(* what it has read.                                                       *)
Placed ==
    Faultless =>
      /\ pc \in {"idle", "skip"} => Accepted = 0
      /\ pc = "test" => Ahead = start + Accepted
      /\ pc = "read" => Ahead = start + Accepted + call.pos
      /\ pc = "write" => Ahead = start + Accepted + put.count
      /\ pc \in {"pad", "padding"} /\ setup.whole >= Length => start + Accepted >= Length
      /\ Sized /\ pc \in {"idle", "skip", "test", "read", "pad"}
           => size + Accepted = setup.size
      /\ Sized /\ Writing => size + Accepted = setup.size + put.pos

(* What has arrived, and what the caller's buffer holds of what is next. *)
Arranged ==
    Clean /\ setup.whole >= Length =>
      /\ \A i \in 0 .. Accepted - 1 : Arrived(i) = Expected(i)
      /\ pc = "read" => \A j \in 0 .. call.pos - 1 : block[j] = Expected(Accepted + j)
      /\ Writing => \A j \in put.pos .. put.pos + put.count - 1 :
                        block[j] = Expected(Accepted + (j - put.pos))

Concluded ==
    /\ outcome = "true" => pc \in {"done", "closed"}
    /\ Clean /\ pc = "closed" => out.pos = 0
    /\ outcome = "true" /\ Clean /\ setup.whole = Length
         => Accepted = IF Sized THEN setup.size
                       ELSE IF start < Length THEN Length - start ELSE 0

LEMMA FaultlessClean ==
    /\ Faultless => Clean
    /\ Faultless' => Clean'
BY DEF Faultless, Clean

(* The steps that are neither in a read() nor in a write(), as far as what *)
(* is sent depends on them.                                                *)
LEMMA FaultsStay ==
    ASSUME faults' \cap {"short", "failed"} = faults \cap {"short", "failed"},
           setup' = setup
    PROVE  /\ Faultless' = Faultless
           /\ Clean' = Clean
<1>1. ("short" \in faults') = ("short" \in faults)
  OBVIOUS
<1>. QED
  BY <1>1 DEF Faultless, Clean, Canex

LEMMA ReadSettled ==
    ASSUME Settled, Concluded, NEW k \in Nat, ReadsSome(k)
    PROVE  Settled'
<1>1. Clean' = Clean /\ Faultless' = Faultless
  BY FaultsStay DEF ReadsSome
<1>2. pc \in {"read", "skip"}
  BY DEF ReadsSome
<1>. QED
  BY <1>1, <1>2 DEF Settled

LEMMA WriteSettled ==
    ASSUME Typed, Bounded, Settled, NEW k \in Nat, WritesSome(k)
    PROVE  Settled'
<1>n. Numbers
  BY TypedNumbers
<1>. SUFFICES ASSUME Clean', ~Faultless'
              PROVE  pc' \in {"done", "closed"} /\ outcome' # "true"
  BY DEF Settled
<1>1. Writing /\ setup' = setup /\ faults \subseteq faults'
  BY DEF WritesSome
<1>2. Faultless
  BY <1>1, CleanStays DEF Settled, Writing
<1>3. faults' # faults /\ setup.outSize = 0 /\ (Canex \/ "short" \notin faults')
  BY <1>1, <1>2 DEF Faultless, Clean, Canex
<1>4. CASE Wrote(-1)
  BY <1>4 DEF Wrote, Refused
<1>5. CASE /\ Wrote(put.pos + k)
           /\ IF k = put.count THEN faults' = faults
              ELSE \/ "short" \in faults'
                   \/ setup.outSize > 0 /\ "failed" \in faults'
  <2>1. k # put.count /\ Canex
    BY <1>3, <1>5
  <2>2. put.pos + k # put.pos + put.count
    BY <1>n, <2>1 DEF Numbers
  <2>3. Refused(put.pos + k)
    BY <2>1, <2>2 DEF Refused
  <2>. QED
    BY <1>5, <2>1, <2>3 DEF Wrote
<1>6. CASE WritesOn(k)
  BY <1>3, <1>6 DEF WritesOn
<1>. QED
  BY <1>4, <1>5, <1>6 DEF WritesSome

LEMMA ReadPlaced ==
    ASSUME Typed, Bounded, Reading, Placed, NEW k \in Nat, ReadsSome(k)
    PROVE  Placed'
<1>n. Numbers
  BY TypedNumbers
<1>. SUFFICES ASSUME Faultless' PROVE Placed'
  BY DEF Placed
<1>1. /\ pc \in {"read", "skip"} /\ Ahead' = Ahead + k
      /\ UNCHANGED <<setup, out, sink, size, start>>
  BY DEF ReadsSome, Takes
<1>2. Faultless
  BY FaultsStay DEF ReadsSome
<1>3. Accepted' = Accepted /\ Accepted \in Nat /\ Ahead \in Int
  <2>1. Accepted \in Nat /\ Ahead \in Int
    BY <1>n, SMTT(60) DEF Accepted, Ahead, Numbers
  <2>. QED
    BY <1>1, <2>1 DEF Accepted
<1>4. CASE pc = "skip"
  <2>1. pc' \in {"idle", "skip", "done"}
    BY <1>1, <1>4 DEF ReadsSome, Returned, ReadsOn
  <2>. QED
    BY <1>1, <1>2, <1>3, <1>4, <2>1 DEF Placed, Sized, Writing
<1>5. CASE pc = "read"
  <2>1. Ahead = start + Accepted + call.pos /\ (Sized => size + Accepted = setup.size)
    BY <1>2, <1>5 DEF Placed
  <2>2. CASE Returned(-1)
    BY <2>2 DEF Returned, Placed, Writing
  <2>3. CASE Returned(call.pos + k)
    <3>1. CASE pc' = "done"
      BY <3>1 DEF Placed, Writing
    <3>2. CASE pc' = "write"
      <4>1. put' = [count |-> call.pos + k, pos |-> 0]
        BY <1>5, <2>3, <3>2 DEF Returned
      <4>2. Ahead + k = start + Accepted + (call.pos + k)
        BY <1>n, <1>3, <2>1 DEF Numbers
      <4>3. Sized => size + Accepted = setup.size + 0
        BY <1>n, <2>1 DEF Numbers
      <4>. QED
        BY <1>1, <1>3, <3>2, <4>1, <4>2, <4>3 DEF Placed, Writing, Sized
    <3>. QED
      BY <1>5, <2>3, <3>1, <3>2 DEF Returned
  <2>4. CASE ReadsOn(k)
    <3>1. call'.pos = call.pos + k /\ pc' = "read"
      BY <1>5, <2>4 DEF ReadsOn
    <3>2. Ahead + k = start + Accepted + (call.pos + k)
      BY <1>n, <1>3, <2>1 DEF Numbers
    <3>. QED
      BY <1>1, <1>3, <2>1, <3>1, <3>2 DEF Placed, Writing, Sized
  <2>. QED
    BY <2>2, <2>3, <2>4 DEF ReadsSome
<1>. QED
  BY <1>1, <1>4, <1>5

LEMMA WritePlaced ==
    ASSUME Typed, Bounded, Placed, NEW k \in Nat, WritesSome(k)
    PROVE  Placed'
<1>n. Numbers
  BY TypedNumbers
<1>. SUFFICES ASSUME Faultless' PROVE Placed'
  BY DEF Placed
<1>1. /\ Writing /\ UNCHANGED <<setup, position, in, call, start>> /\ faults \subseteq faults'
      /\ Stores(k)
  BY FaultlessClean DEF WritesSome, reader
<1>2. Faultless
  BY <1>1 DEF Faultless
<1>3. Accepted' = Accepted + k /\ Accepted \in Nat /\ Ahead' = Ahead /\ Ahead \in Int
  <2>1. Accepted \in Nat /\ Ahead \in Int
    BY <1>n, SMTT(60) DEF Accepted, Ahead, Numbers
  <2>2. Ahead' = Ahead
    BY <1>1 DEF Ahead
  <2>. QED
    BY <1>1, <2>1, <2>2 DEF Stores
<1>4. /\ pc = "write" => Ahead = start + Accepted + put.count
      /\ pc = "padding" /\ setup.whole >= Length => start + Accepted >= Length
      /\ Sized => size + Accepted = setup.size + put.pos
  BY <1>1, <1>2 DEF Placed
<1>5. CASE WritesOn(k)
  <2>1. put' = [count |-> put.count - k, pos |-> put.pos + k] /\ UNCHANGED <<size, pc>>
    BY <1>5 DEF WritesOn
  <2>2. pc = "write" => Ahead = start + (Accepted + k) + (put.count - k)
    BY <1>n, <1>3, <1>4 DEF Numbers
  <2>3. pc = "padding" /\ setup.whole >= Length => start + (Accepted + k) >= Length
    <3>1. start \in Nat /\ Length \in Nat /\ Accepted \in Nat
      BY <1>n, <1>3 DEF Numbers
    <3>. QED
      BY <1>4, <3>1
  <2>4. ASSUME Sized PROVE size + (Accepted + k) = setup.size + (put.pos + k)
    <3>1. size \in Nat /\ setup.size \in Nat /\ put.pos \in Nat /\ Accepted \in Nat
      BY <1>n, <1>3 DEF Numbers
    <3>2. size + Accepted = setup.size + put.pos
      BY <1>4, <2>4
    <3>3. size + (Accepted + k) = (size + Accepted) + k
      BY <3>1
    <3>4. setup.size + (put.pos + k) = (setup.size + put.pos) + k
      BY <3>1
    <3>. QED
      BY <3>2, <3>3, <3>4, Zenon
  <2>. QED
    BY <1>1, <1>3, <2>1, <2>2, <2>3, <2>4 DEF Placed, Writing, Sized
<1>6. CASE Wrote(put.pos + k) /\ k = put.count
  <2>1. ~Refused(put.pos + k)
    BY <1>n, <1>6 DEF Refused, Numbers
  <2>2. /\ size' = IF Sized THEN size - (put.pos + k) ELSE size
        /\ pc' = IF pc = "padding" THEN "pad" ELSE "test"
    BY <1>6, <2>1 DEF Wrote
  <2>3. pc = "write" => Ahead = start + (Accepted + k)
    BY <1>n, <1>3, <1>4, <1>6 DEF Numbers
  <2>4. pc = "padding" /\ setup.whole >= Length => start + (Accepted + k) >= Length
    <3>1. start \in Nat /\ Length \in Nat /\ Accepted \in Nat
      BY <1>n, <1>3 DEF Numbers
    <3>. QED
      BY <1>4, <3>1
  <2>5. Sized => size - (put.pos + k) + (Accepted + k) = setup.size
    <3>1. size \in Nat /\ setup.size \in Nat /\ put.pos \in Nat /\ Accepted \in Nat
      BY <1>n, <1>3 DEF Numbers
    <3>2. Sized => size + Accepted = setup.size + put.pos
      BY <1>4
    <3>. QED
      BY <3>1, <3>2
  <2>. QED
    BY <1>1, <1>3, <2>2, <2>3, <2>4, <2>5 DEF Placed, Writing, Sized
<1>. QED
  BY <1>5, <1>6 DEF WritesSome, Faultless

LEMMA SettledStep ==
    ASSUME Base, Settled, Concluded, [Next]_vars
    PROVE  Settled'
<1>b. Typed /\ Bounded /\ Reading
  BY DEF Base
<1>1. CASE Refill \/ Serve \/ ReadSource
  <2>1. PICK k \in Nat : ReadsSome(k)
    BY <1>1, <1>b, ReadStep
  <2>. QED
    BY <2>1, ReadSettled
<1>2. CASE WriteSink \/ Spill \/ Keep
  <2>1. PICK k \in Nat : WritesSome(k)
    BY <1>2, <1>b, WriteStep
  <2>. QED
    BY <2>1, <1>b, WriteSettled
<1>3. CASE Flush
  <2>1. /\ faults \subseteq faults' /\ pc' = "closed" /\ UNCHANGED <<setup, outcome>>
        /\ pc = "done"
        /\ setup.outSize = 0 => UNCHANGED faults
    BY <1>3, <1>b, FlushKeeps DEF Flush, copier
  <2>. SUFFICES ASSUME Clean', ~Faultless' PROVE outcome # "true"
    BY <2>1 DEF Settled
  <2>2. faults' = faults
    BY <2>1 DEF Clean, Faultless
  <2>. QED
    BY <2>1, <2>2 DEF Settled, Clean, Faultless, Canex
<1>4. CASE \/ Skip \/ Start \/ Continue \/ Cancel \/ Finish \/ PadNext
           \/ \E d \in 0 .. MaxStart, fromStart \in BOOLEAN : Seek(d, fromStart)
  <2>1. UNCHANGED <<setup, faults>> /\ pc \notin {"done", "closed"}
    BY <1>4 DEF Skip, Start, Continue, Cancel, Finish, PadNext, Seek
  <2>. QED
    BY <2>1 DEF Settled, Clean, Faultless, Canex
<1>5. CASE Grow \/ UNCHANGED vars
  <2>1. UNCHANGED <<setup, faults, pc, outcome>>
    BY <1>5 DEF Grow, vars, copier
  <2>. QED
    BY <2>1 DEF Settled, Clean, Faultless, Canex
<1>. QED
  BY <1>1, <1>2, <1>3, <1>4, <1>5 DEF Next, StreamStep, CopyStep

(* At the end of the source there is nothing ahead. *)
LEMMA AtEnd ==
    ASSUME Typed, InEnd
    PROVE  Ahead = position /\ position >= setup.whole
<1>n. Numbers
  BY TypedNumbers
<1>1. in.left = 0 /\ position >= setup.whole
  BY DEF InEnd, SourceEnd
<1>2. position \in Nat
  BY <1>n DEF Numbers
<1>. QED
  BY <1>1, <1>2 DEF Ahead

LEMMA PlacedStep ==
    ASSUME Base, Placed, [Next]_vars
    PROVE  Placed'
<1>b. Typed /\ Bounded /\ Reading
  BY DEF Base
<1>n. Numbers
  BY <1>b, TypedNumbers
<1>a. Accepted \in Nat /\ Ahead \in Int
  BY <1>n, SMTT(60) DEF Accepted, Ahead, Numbers
<1>1. CASE Refill \/ Serve \/ ReadSource
  <2>1. PICK k \in Nat : ReadsSome(k)
    BY <1>1, <1>b, ReadStep
  <2>. QED
    BY <2>1, <1>b, ReadPlaced
<1>2. CASE WriteSink \/ Spill \/ Keep
  <2>1. PICK k \in Nat : WritesSome(k)
    BY <1>2, <1>b, WriteStep
  <2>. QED
    BY <2>1, <1>b, WritePlaced
<1>3. CASE \/ Skip
           \/ \E d \in 0 .. MaxStart, fromStart \in BOOLEAN : Seek(d, fromStart)
  <2>1. /\ pc \in {"idle", "skip"} /\ pc' \in {"idle", "skip"}
        /\ UNCHANGED <<setup, writer, copier, faults>>
    BY <1>3 DEF Skip, Seek
  <2>2. UNCHANGED <<setup, sink, out, size, faults>>
    BY <2>1 DEF writer, copier
  <2>. QED
    BY <2>1, <2>2 DEF Placed, Accepted, Faultless, Sized, Writing
<1>4. CASE Start
  <2>1. /\ pc = "idle" /\ pc' = "test"
        /\ UNCHANGED <<setup, position, in, start, faults, sink, out, size>>
    BY <1>4 DEF Start, reader, writer, copier
  <2>2. Ahead = start
    BY <1>b, <2>1 DEF Reading
  <2>3. Accepted' = Accepted /\ Ahead' = Ahead
    BY <2>1 DEF Accepted, Ahead
  <2>4. start + 0 = start
    BY <1>n DEF Numbers
  <2>. QED
    BY <2>1, <2>2, <2>3, <2>4 DEF Placed, Faultless, Sized, Writing
<1>5. CASE Continue
  <2>1. /\ pc = "test" /\ pc' = "read" /\ call'.pos = 0
        /\ UNCHANGED <<setup, position, in, start, faults, sink, out, size>>
    BY <1>5 DEF Continue, writer, copier
  <2>2. Accepted' = Accepted /\ Ahead' = Ahead
    BY <2>1 DEF Accepted, Ahead
  <2>3. start + Accepted + 0 = start + Accepted
    BY <1>n, <1>a DEF Numbers
  <2>. QED
    BY <2>1, <2>2, <2>3 DEF Placed, Faultless, Sized, Writing
<1>6. CASE Cancel \/ Finish \/ Flush
  <2>1. pc' \in {"done", "closed"}
    BY <1>6 DEF Cancel, Finish, Flush
  <2>. QED
    BY <2>1 DEF Placed, Writing
<1>7. CASE PadNext
  <2>1. /\ Sized /\ (pc = "test" \/ pc = "pad")
        /\ UNCHANGED <<setup, position, in, start, faults, sink, out, size>>
    BY <1>7 DEF PadNext, reader
  <2>2. CASE size > 0
    <3>1. /\ put'.pos = 0 /\ pc' = "padding"
          /\ pc = "test" => InEnd
      BY <1>7, <1>n, <2>2 DEF PadNext, Numbers
    <3>2. Accepted' = Accepted
      BY <2>1 DEF Accepted
    <3>3. ASSUME Faultless, setup.whole >= Length
          PROVE  start + Accepted >= Length
      <4>1. CASE pc = "pad"
        BY <3>3, <4>1 DEF Placed
      <4>2. CASE pc = "test"
        <5>1. Ahead = position /\ position >= setup.whole
          BY <1>b, <3>1, <4>2, AtEnd
        <5>2. Ahead = start + Accepted
          BY <3>3, <4>2 DEF Placed
        <5>3. position >= Length
          BY <1>n, <3>3, <5>1 DEF Numbers
        <5>. QED
          BY <5>1, <5>2, <5>3
      <4>. QED
        BY <2>1, <4>1, <4>2
    <3>4. setup.size + 0 = setup.size
      BY <1>n DEF Numbers
    <3>5. Faultless => size + Accepted = setup.size
      BY <2>1 DEF Placed
    <3>. QED
      BY <2>1, <3>1, <3>2, <3>3, <3>4, <3>5 DEF Placed, Faultless, Sized, Writing
  <2>3. CASE ~(size > 0)
    <3>1. pc' = "done"
      BY <1>7, <2>3 DEF PadNext
    <3>. QED
      BY <3>1 DEF Placed, Writing
  <2>. QED
    BY <2>2, <2>3
<1>8. CASE Grow \/ UNCHANGED vars
  <2>1. UNCHANGED <<setup, position, in, call, out, put, sink, size, faults, pc, start>>
    BY <1>8 DEF Grow, vars, reader, writer, copier
  <2>. QED
    BY <2>1 DEF Placed, Accepted, Ahead, Faultless, Sized, Writing
<1>. QED
  BY <1>1, <1>2, <1>3, <1>4, <1>5, <1>6, <1>7, <1>8 DEF Next, StreamStep, CopyStep

LEMMA ReadArranged ==
    ASSUME Typed, Bounded, Settled, Placed, Arranged, NEW k \in Nat, ReadsSome(k)
    PROVE  Arranged'
<1>n. Numbers
  BY TypedNumbers
<1>1. /\ pc \in {"read", "skip"} /\ k <= call.count /\ Takes(k)
      /\ UNCHANGED <<setup, out, sink, start>>
      /\ Clean' = Clean /\ Faultless' = Faultless
  BY FaultsStay DEF ReadsSome
<1>. SUFFICES ASSUME Clean, setup.whole >= Length PROVE Arranged'
  BY <1>1 DEF Arranged
<1>2. /\ Accepted' = Accepted /\ Accepted \in Nat /\ Ahead \in Int
      /\ \A i : Arrived(i)' = Arrived(i) /\ Expected(i)' = Expected(i)
  <2>1. Accepted \in Nat /\ Ahead \in Int
    BY <1>n, SMTT(60) DEF Accepted, Ahead, Numbers
  <2>. QED
    BY <1>1, <2>1 DEF Accepted, Arrived, Expected
<1>3. \A i \in 0 .. Accepted' - 1 : Arrived(i)' = Expected(i)'
  BY <1>2 DEF Arranged
<1>4. CASE pc = "skip"
  <2>1. pc' \in {"idle", "skip", "done"}
    BY <1>1, <1>4 DEF ReadsSome, Returned, ReadsOn
  <2>. QED
    BY <1>3, <2>1 DEF Arranged, Writing
<1>5. CASE pc = "read"
  <2>1. Ahead = start + Accepted + call.pos
    BY <1>5 DEF Settled, Placed
  <2>2. ASSUME NEW j \in 0 .. call.pos + k - 1
        PROVE  block'[j] = Expected(Accepted + j)
    <3>1. j \in 0 .. Block - 1 /\ j \in Int /\ call.pos \in Nat /\ start \in Nat
      <4>1. call.pos + call.count <= Block
        BY <1>5 DEF Bounded, WithinBuffers
      <4>2. call.count \in Nat /\ call.pos \in Nat /\ start \in Nat /\ Block \in Nat /\ k <= call.count
        BY <1>n, <1>1 DEF Numbers
      <4>. QED
        BY <4>1, <4>2
    <3>2. block'[j] = IF j \in call.pos .. call.pos + k - 1
                      THEN Ahead + j - call.pos + 1 ELSE block[j]
      BY <1>1, <1>5, <3>1 DEF Takes
    <3>3. CASE j \in call.pos .. call.pos + k - 1
      <4>1. k > 0 /\ Ahead + k <= Length
        BY <1>1, <3>1, <3>3 DEF Takes
      <4>2. /\ Ahead + j - call.pos + 1 = start + (Accepted + j) + 1
            /\ start + (Accepted + j) < Length
        <5>1. Length \in Nat
          BY <1>n DEF Numbers
        <5>2. j <= call.pos + k - 1
          BY <3>1, <3>3
        <5>. QED
          BY <1>2, <2>1, <3>1, <4>1, <5>1, <5>2
      <4>. QED
        BY <3>2, <3>3, <4>2 DEF Expected
    <3>4. CASE j \notin call.pos .. call.pos + k - 1
      <4>1. j \in 0 .. call.pos - 1
        BY <2>2, <3>1, <3>4
      <4>. QED
        BY <1>5, <3>2, <3>4, <4>1 DEF Arranged
    <3>. QED
      BY <3>3, <3>4
  <2>3. CASE Returned(-1)
    BY <1>3, <2>3 DEF Returned, Arranged, Writing
  <2>4. CASE Returned(call.pos + k)
    <3>1. CASE pc' = "done"
      BY <1>3, <3>1 DEF Arranged, Writing
    <3>2. CASE pc' = "write"
      <4>1. put'.pos = 0 /\ put'.count = call.pos + k
        BY <1>5, <2>4, <3>2 DEF Returned
      <4>2. ASSUME NEW j \in put'.pos .. put'.pos + put'.count - 1
            PROVE  block'[j] = Expected(Accepted + (j - put'.pos))
        <5>1. j \in 0 .. 0 + (call.pos + k) - 1
          BY <4>1, <4>2
        <5>2. j \in 0 .. call.pos + k - 1 /\ j - 0 = j
          BY <1>n, <5>1 DEF Numbers
        <5>. QED
          BY <2>2, <4>1, <5>2
      <4>. QED
        BY <1>2, <1>3, <3>2, <4>2 DEF Arranged
    <3>. QED
      BY <1>5, <2>4, <3>1, <3>2 DEF Returned
  <2>5. CASE ReadsOn(k)
    <3>1. call'.pos = call.pos + k /\ pc' = "read"
      BY <1>5, <2>5 DEF ReadsOn
    <3>2. ASSUME NEW j \in 0 .. call'.pos - 1
          PROVE  block'[j] = Expected(Accepted + j)
      <4>1. call.pos \in Nat
        BY <1>n DEF Numbers
      <4>2. j \in 0 .. call.pos + k - 1
        BY <3>1, <3>2, <4>1
      <4>. QED
        BY <2>2, <4>2
    <3>3. ~Writing'
      BY <3>1 DEF Writing
    <3>. QED
      BY <1>2, <1>3, <3>2, <3>3 DEF Arranged
  <2>. QED
    BY <2>3, <2>4, <2>5 DEF ReadsSome
<1>. QED
  BY <1>1, <1>4, <1>5

LEMMA WriteArranged ==
    ASSUME Typed, Bounded, Arranged, NEW k \in Nat, WritesSome(k)
    PROVE  Arranged'
<1>n. Numbers
  BY TypedNumbers
<1>1. /\ Writing /\ k <= put.count /\ faults \subseteq faults'
      /\ UNCHANGED <<setup, block, start>>
  BY DEF WritesSome
<1>. SUFFICES ASSUME Clean', setup.whole >= Length PROVE Arranged'
  BY <1>1 DEF Arranged
<1>2. Clean /\ Stores(k)
  BY <1>1, CleanStays DEF WritesSome
<1>a. /\ Accepted \in Nat /\ put.pos \in Nat /\ put.count \in Nat
      /\ Accepted' = Accepted + k
      /\ \A i : Expected(i)' = Expected(i)
  <2>1. Accepted \in Nat /\ put.pos \in Nat /\ put.count \in Nat
    BY <1>n DEF Accepted, Numbers
  <2>. QED
    BY <1>1, <1>2, <2>1 DEF Stores, Expected
<1>3. ASSUME NEW i \in 0 .. Accepted + k - 1
      PROVE  Arrived(i)' = Expected(i)
  <2>1. Arrived(i)' = IF i < Accepted THEN Arrived(i) ELSE block[put.pos + (i - Accepted)]
    BY <1>2 DEF Stores
  <2>2. CASE i < Accepted
    <3>1. i \in 0 .. Accepted - 1
      BY <1>a, <2>2
    <3>. QED
      BY <1>2, <2>1, <2>2, <3>1 DEF Arranged
  <2>3. CASE ~(i < Accepted)
    <3>1. /\ put.pos + (i - Accepted) \in put.pos .. put.pos + put.count - 1
          /\ Accepted + ((put.pos + (i - Accepted)) - put.pos) = i
      BY <1>1, <1>a, <2>3
    <3>2. block[put.pos + (i - Accepted)] = Expected(Accepted + ((put.pos + (i - Accepted)) - put.pos))
      BY <1>1, <1>2, <3>1 DEF Arranged
    <3>. QED
      BY <2>1, <2>3, <3>1, <3>2
  <2>. QED
    BY <2>2, <2>3
<1>4. CASE Wrote(-1) \/ Wrote(put.pos + k)
  <2>1. pc' \in {"done", "test", "pad"}
    BY <1>4 DEF Wrote
  <2>. QED
    BY <1>a, <1>3, <2>1 DEF Arranged, Writing
<1>5. CASE WritesOn(k)
  <2>1. put'.pos = put.pos + k /\ put'.count = put.count - k /\ pc' = pc
    BY <1>5 DEF WritesOn
  <2>2. ASSUME NEW j \in put'.pos .. put'.pos + put'.count - 1
        PROVE  block[j] = Expected((Accepted + k) + (j - put'.pos))
    <3>1. /\ j \in put.pos .. put.pos + put.count - 1
          /\ (Accepted + k) + (j - (put.pos + k)) = Accepted + (j - put.pos)
      <4>1. j \in put.pos + k .. put.pos + k + (put.count - k) - 1
        BY <2>1, <2>2
      <4>. QED
        BY <1>a, <1>1, <4>1
    <3>. QED
      BY <1>1, <1>2, <2>1, <3>1 DEF Arranged
  <2>. QED
    BY <1>1, <1>a, <1>3, <2>1, <2>2 DEF Arranged, Writing
<1>. QED
  BY <1>4, <1>5 DEF WritesSome

LEMMA ArrangedStep ==
    ASSUME Base, Settled, Placed, Arranged, [Next]_vars
    PROVE  Arranged'
<1>b. Typed /\ Bounded /\ Reading
  BY DEF Base
<1>n. Numbers
  BY <1>b, TypedNumbers
<1>1. CASE Refill \/ Serve \/ ReadSource
  <2>1. PICK k \in Nat : ReadsSome(k)
    BY <1>1, <1>b, ReadStep
  <2>. QED
    BY <2>1, <1>b, ReadArranged
<1>2. CASE WriteSink \/ Spill \/ Keep
  <2>1. PICK k \in Nat : WritesSome(k)
    BY <1>2, <1>b, WriteStep
  <2>. QED
    BY <2>1, <1>b, WriteArranged
<1>3. CASE Flush
  <2>1. /\ faults \subseteq faults' /\ pc' = "closed" /\ UNCHANGED <<setup, start>>
        /\ Clean' => /\ Accepted' = Accepted
                     /\ \A i \in 0 .. Accepted - 1 : Arrived(i)' = Arrived(i)
    BY <1>3, <1>b, FlushKeeps DEF Flush
  <2>2. Clean' => Clean
    BY <2>1, CleanStays
  <2>3. \A i : Expected(i)' = Expected(i)
    BY <2>1 DEF Expected
  <2>. QED
    BY <2>1, <2>2, <2>3 DEF Arranged, Writing
<1>4. CASE \E d \in 0 .. MaxStart, fromStart \in BOOLEAN : Seek(d, fromStart)
  <2>1. /\ pc = "idle" /\ pc' \in {"idle", "skip"}
        /\ UNCHANGED <<setup, faults, sink, out>>
    BY <1>4 DEF Seek, writer, copier
  <2>2. Clean' => Accepted' = 0
    BY <2>1 DEF Settled, Placed, Clean, Canex, Accepted
  <2>3. Clean' => 0 .. Accepted' - 1 = {}
    BY <2>2
  <2>. QED
    BY <2>1, <2>3 DEF Arranged, Writing
<1>5. CASE Skip \/ Start \/ Continue \/ Cancel \/ Finish \/ Grow \/ UNCHANGED vars
  <2>1. /\ UNCHANGED <<setup, faults, sink, out, start, block, put>>
        /\ pc' = "read" => call'.pos = 0 \/ (pc = "read" /\ call' = call)
        /\ Writing' => Writing
    BY <1>5 DEF Skip, Start, Continue, Cancel, Finish, Grow, vars, reader, writer, copier, Writing
  <2>2. /\ Clean' = Clean /\ Accepted' = Accepted
        /\ \A i : Expected(i)' = Expected(i) /\ Arrived(i)' = Arrived(i)
    BY <2>1 DEF Clean, Canex, Accepted, Expected, Arrived
  <2>3. 0 .. 0 - 1 = {}
    OBVIOUS
  <2>. QED
    BY <2>1, <2>2, <2>3 DEF Arranged
<1>6. CASE PadNext
  <2>1. /\ Sized /\ (pc = "test" \/ pc = "pad")
        /\ UNCHANGED <<setup, start, faults, sink, out>>
    BY <1>6 DEF PadNext
  <2>2. /\ Clean' = Clean /\ Accepted' = Accepted
        /\ \A i : Expected(i)' = Expected(i) /\ Arrived(i)' = Arrived(i)
    BY <2>1 DEF Clean, Canex, Accepted, Expected, Arrived
  <2>3. CASE size > 0
    <3>1. /\ block' = Zeros(Block) /\ pc' = "padding"
          /\ put'.pos = 0 /\ put'.count = Least(size, Block)
          /\ pc = "test" => InEnd
      BY <1>6, <1>n, <2>3 DEF PadNext, Numbers
    <3>2. ASSUME Clean, setup.whole >= Length
          PROVE  start + Accepted >= Length
      <4>1. Faultless
        BY <2>1, <3>2 DEF Settled
      <4>2. CASE pc = "pad"
        BY <3>2, <4>1, <4>2 DEF Placed
      <4>3. CASE pc = "test"
        <5>1. Ahead = position /\ position >= setup.whole
          BY <1>b, <3>1, <4>3, AtEnd
        <5>2. Ahead = start + Accepted
          BY <4>1, <4>3 DEF Placed
        <5>3. position >= Length
          BY <1>n, <3>2, <5>1 DEF Numbers
        <5>. QED
          BY <5>1, <5>2, <5>3
      <4>. QED
        BY <2>1, <4>2, <4>3
    <3>3. ASSUME Clean, setup.whole >= Length,
                 NEW j \in 0 .. 0 + Least(size, Block) - 1
          PROVE  block'[j] = Expected(Accepted + (j - 0))
      <4>1. j \in 0 .. Block - 1 /\ j - 0 = j /\ j \in Nat
        BY <1>n DEF Numbers, Least
      <4>2. block'[j] = 0
        BY <3>1, <4>1 DEF Zeros
      <4>3. ~(start + (Accepted + j) < Length)
        <5>1. start \in Nat /\ Accepted \in Nat /\ Length \in Nat
          BY <1>n, SMTT(60) DEF Numbers, Accepted
        <5>. QED
          BY <3>2, <3>3, <4>1, <5>1
      <4>. QED
        BY <4>1, <4>2, <4>3 DEF Expected
    <3>. QED
      BY <2>2, <2>1, <3>1, <3>3 DEF Arranged
  <2>4. CASE ~(size > 0)
    <3>1. pc' = "done"
      BY <1>6, <2>4 DEF PadNext
    <3>. QED
      BY <2>1, <2>2, <3>1 DEF Arranged, Writing
  <2>. QED
    BY <2>3, <2>4
<1>. QED
  BY <1>1, <1>2, <1>3, <1>4, <1>5, <1>6 DEF Next, StreamStep, CopyStep

LEMMA ConcludedStep ==
    ASSUME Base, Settled, Placed, Concluded, [Next]_vars
    PROVE  Concluded'
<1>b. Typed /\ Bounded /\ Reading
  BY DEF Base
<1>n. Numbers
  BY <1>b, TypedNumbers
<1>a. Accepted \in Nat /\ Ahead \in Int
  BY <1>n, SMTT(60) DEF Accepted, Ahead, Numbers
<1>1. CASE Refill \/ Serve \/ ReadSource
  <2>1. PICK k \in Nat : ReadsSome(k)
    BY <1>1, <1>b, ReadStep
  <2>2. outcome # "true" /\ pc' # "closed" /\ outcome' # "true"
    BY <2>1 DEF ReadsSome, Returned, ReadsOn, Concluded
  <2>. QED
    BY <2>2 DEF Concluded
<1>2. CASE WriteSink \/ Spill \/ Keep
  <2>1. PICK k \in Nat : WritesSome(k)
    BY <1>2, <1>b, WriteStep
  <2>2. outcome # "true" /\ pc' # "closed" /\ outcome' # "true"
    BY <2>1 DEF WritesSome, Wrote, WritesOn, Writing, Concluded
  <2>. QED
    BY <2>2 DEF Concluded
<1>3. CASE Flush
  <2>1. /\ faults \subseteq faults' /\ pc' = "closed" /\ UNCHANGED <<setup, start, outcome>>
        /\ Clean' => out'.pos = 0 /\ Accepted' = Accepted
    BY <1>3, <1>b, FlushKeeps DEF Flush, copier
  <2>2. Clean' => Clean
    BY <2>1, CleanStays
  <2>. QED
    BY <2>1, <2>2 DEF Concluded, Sized
<1>4. CASE \/ Skip \/ Start \/ Continue \/ Cancel
           \/ \E d \in 0 .. MaxStart, fromStart \in BOOLEAN : Seek(d, fromStart)
  <2>1. pc \notin {"done", "closed"} /\ pc' # "closed" /\ outcome' \in {outcome, "cancelled"}
    BY <1>4 DEF Skip, Start, Continue, Cancel, Seek, copier
  <2>. QED
    BY <2>1 DEF Concluded
<1>5. CASE Finish
  <2>1. /\ pc = "test" /\ pc' = "done" /\ InEnd /\ ~Sized
        /\ UNCHANGED <<setup, faults, sink, out, start>>
    BY <1>5 DEF Finish, writer
  <2>2. Clean' = Clean /\ Accepted' = Accepted
    BY <2>1 DEF Clean, Canex, Accepted
  <2>3. ASSUME Clean, setup.whole = Length
        PROVE  Accepted = IF start < Length THEN Length - start ELSE 0
    <3>1. position = start + Accepted
      <4>1. Ahead = start + Accepted
        BY <2>1, <2>3 DEF Settled, Placed
      <4>. QED
        BY <1>b, <2>1, <4>1, AtEnd
    <3>2. position >= Length
      BY <1>b, <2>1, <2>3, AtEnd
    <3>3. position <= Length \/ (start >= Length /\ position = start)
      BY <1>b DEF Reading
    <3>4. position \in Nat /\ start \in Nat /\ Length \in Nat
      BY <1>n DEF Numbers
    <3>. QED
      BY <1>a, <3>1, <3>2, <3>3, <3>4
  <2>. QED
    BY <2>1, <2>2, <2>3 DEF Concluded, Sized
<1>6. CASE PadNext
  <2>1. /\ Sized /\ pc \in {"test", "pad"}
        /\ UNCHANGED <<setup, start, faults, sink, out, size>>
    BY <1>6 DEF PadNext
  <2>2. CASE size > 0
    <3>1. pc' = "padding" /\ outcome' = outcome
      BY <1>6, <2>2 DEF PadNext
    <3>. QED
      BY <2>1, <3>1 DEF Concluded
  <2>3. CASE ~(size > 0)
    <3>1. pc' = "done"
      BY <1>6, <2>3 DEF PadNext
    <3>2. Clean' = Clean /\ Accepted' = Accepted
      BY <2>1 DEF Clean, Canex, Accepted
    <3>3. Clean => Accepted = setup.size
      <4>1. Clean => size + Accepted = setup.size
        BY <2>1 DEF Settled, Placed
      <4>2. size = 0
        BY <1>n, <2>3 DEF Numbers
      <4>. QED
        BY <1>a, <4>1, <4>2
    <3>. QED
      BY <2>1, <3>1, <3>2, <3>3 DEF Concluded, Sized
  <2>. QED
    BY <2>2, <2>3
<1>7. CASE Grow \/ UNCHANGED vars
  <2>1. UNCHANGED <<setup, sink, out, faults, pc, outcome, start>>
    BY <1>7 DEF Grow, vars, writer, copier
  <2>. QED
    BY <2>1 DEF Concluded, Accepted, Clean, Canex, Sized
<1>. QED
  BY <1>1, <1>2, <1>3, <1>4, <1>5, <1>6, <1>7 DEF Next, StreamStep, CopyStep

Sent == Settled /\ Placed /\ Arranged /\ Concluded

LEMMA InitSent == Init => Sent
<1>. SUFFICES ASSUME Init PROVE Sent
  OBVIOUS
<1>1. setup.size \in Nat
  BY SetupFields DEF Init
<1>2. Accepted = 0 /\ 0 .. Accepted - 1 = {}
  BY DEF Init, Accepted
<1>. QED
  BY <1>1, <1>2 DEF Init, Sent, Settled, Placed, Arranged, Concluded, Faultless, Writing, Sized

LEMMA SentStep == Base /\ Sent /\ [Next]_vars => Sent'
BY SettledStep, PlacedStep, ArrangedStep, ConcludedStep DEF Sent

LEMMA SentDelivered == Typed /\ Sent => Delivered
<1>. SUFFICES ASSUME Typed, Sent, Clean, setup.whole >= Length
              PROVE  /\ \A i \in 1 .. Len(sink) : sink[i] = Expected(i - 1)
                     /\ \A i \in 0 .. out.pos - 1 : out.data[i] = Expected(Len(sink) + i)
  BY DEF Delivered
<1>n. Len(sink) \in Nat /\ out.pos \in Nat /\ Accepted = Len(sink) + out.pos
  BY TypedNumbers DEF Numbers, Accepted
<1>1. \A i \in 0 .. Accepted - 1 : Arrived(i) = Expected(i)
  BY DEF Sent, Arranged
<1>2. ASSUME NEW i \in 1 .. Len(sink) PROVE sink[i] = Expected(i - 1)
  <2>1. i - 1 \in 0 .. Accepted - 1 /\ i - 1 < Len(sink) /\ (i - 1) + 1 = i
    BY <1>n
  <2>. QED
    BY <1>1, <2>1 DEF Arrived
<1>3. ASSUME NEW i \in 0 .. out.pos - 1 PROVE out.data[i] = Expected(Len(sink) + i)
  <2>1. /\ Len(sink) + i \in 0 .. Accepted - 1 /\ ~(Len(sink) + i < Len(sink))
        /\ Len(sink) + i - Len(sink) = i
    BY <1>n
  <2>. QED
    BY <1>1, <2>1 DEF Arrived
<1>. QED
  BY <1>2, <1>3

(***************************************************************************)
(* "Copies the contents of the input stream to the output stream": what    *)
(* has arrived is byte for byte what follows the position last sought, for *)
(* every source, every block and every size of the two internal buffers,   *)
(* wherever the reads and the writes break.                                *)
(***************************************************************************)
THEOREM BytesDelivered == Spec => []Delivered
BY InitBase, BaseStep, InitSent, SentStep, SentDelivered, PTL DEF Spec, Base

(***************************************************************************)
(* "If successfull true is returned": a copy that returns true has         *)
(* delivered everything, and a sized one exactly the size.                 *)
(***************************************************************************)
THEOREM CopiesComplete == Spec => []Complete
<1>1. Base /\ Sent => Complete
  <2>. SUFFICES ASSUME Base, Sent, pc = "closed", outcome = "true", Clean,
                       setup.whole = Length
                PROVE  Len(sink) = IF Sized THEN setup.size
                                   ELSE IF start < Length THEN Length - start ELSE 0
    BY DEF Complete
  <2>1. Len(sink) \in Nat /\ out.pos = 0
    BY TypedNumbers DEF Base, Numbers, Sent, Concluded
  <2>2. Accepted = Len(sink)
    BY <2>1 DEF Accepted
  <2>. QED
    BY <2>2 DEF Sent, Concluded
<1>. QED
  BY <1>1, InitBase, BaseStep, InitSent, SentStep, PTL DEF Spec

-----------------------------------------------------------------------------
(* The progress. *)

LEMMA Products ==
    ASSUME NEW t \in Nat, NEW x \in Int, NEW y \in Int, x < y
    PROVE  t * x + t <= t * y
<1>1. PICK n \in Nat : y = x + 1 + n
  <2>1. y - x - 1 \in Nat /\ y = x + 1 + (y - x - 1)
    OBVIOUS
  <2>. QED
    BY <2>1
<1>2. t * n >= 0
  OBVIOUS
<1>3. t * (x + 1 + n) = t * x + t + t * n
  OBVIOUS
<1>. QED
  BY <1>1, <1>2, <1>3

LEMMA Quotients ==
    ASSUME NEW a \in Nat, NEW t \in Nat \ {0}
    PROVE  /\ a \div t \in Nat
           /\ t * (a \div t) <= a
           /\ a < t * (a \div t) + t
OBVIOUS

LEMMA PercentBounds ==
    ASSUME NEW c \in Nat, NEW t \in Nat, c <= t
    PROVE  /\ Percent(c, t) \in 0 .. 100
           /\ t > 0 => Percent(c, t) = (c * 100) \div t
<1>1. CASE t = 0
  BY <1>1 DEF Percent
<1>2. CASE t > 0
  <2>. DEFINE q == (c * 100) \div t
  <2>1. c * 100 \in Nat
    OBVIOUS
  <2>2. q \in Nat /\ t * q <= c * 100
    BY <1>2, <2>1, Quotients
  <2>. HIDE DEF q
  <2>3. q <= 100
    <3>. SUFFICES ASSUME 100 < q PROVE FALSE
      BY <2>2
    <3>1. t * 100 + t <= t * q
      BY <2>2, Products
    <3>. QED
      BY <1>2, <2>1, <2>2, <3>1
  <2>4. q % 256 = q
    BY <2>2, <2>3
  <2>5. Percent(c, t) = q % 256
    BY <1>2 DEF Percent, q
  <2>. QED
    BY <2>2, <2>3, <2>4, <2>5 DEF q
<1>. QED
  BY <1>1, <1>2

LEMMA PercentRises ==
    ASSUME NEW c \in Nat, NEW d \in Nat, NEW t \in Nat, c <= d, d <= t
    PROVE  Percent(c, t) <= Percent(d, t)
<1>1. CASE t = 0
  BY <1>1 DEF Percent
<1>2. CASE t > 0
  <2>. DEFINE p == (c * 100) \div t
              q == (d * 100) \div t
  <2>1. c * 100 \in Nat /\ d * 100 \in Nat /\ c * 100 <= d * 100
    OBVIOUS
  <2>2. p \in Nat /\ t * p <= c * 100
    BY <1>2, <2>1, Quotients
  <2>3. q \in Nat /\ d * 100 < t * q + t
    BY <1>2, <2>1, Quotients
  <2>4. Percent(c, t) = p /\ Percent(d, t) = q
    BY <1>2, PercentBounds
  <2>. HIDE DEF p, q
  <2>5. p <= q
    <3>. SUFFICES ASSUME q < p PROVE FALSE
      BY <2>2, <2>3
    <3>1. t * q + t <= t * p
      BY <2>2, <2>3, Products
    <3>2. t * p \in Int /\ t * q \in Int
      BY <2>2, <2>3
    <3>. QED
      BY <2>1, <2>2, <2>3, <3>1, <3>2
  <2>. QED
    BY <2>4, <2>5
<1>. QED
  BY <1>1, <1>2

LEMMA PercentZero == ASSUME NEW t \in Nat PROVE Percent(0, t) = 0
<1>1. CASE t = 0
  BY <1>1 DEF Percent
<1>2. CASE t > 0
  <2>1. 0 * 100 = 0 /\ 0 \div t = 0 /\ 0 % 256 = 0
    BY <1>2
  <2>. QED
    BY <1>2, <2>1 DEF Percent
<1>. QED
  BY <1>1, <1>2

(* No more is counted than has been read; in canexstream all of it is. *)
Reached(n) == start + count_ + n <= Ahead /\ (Canex => start + count_ + n = Ahead)

(* canexstream::copy() is not asked for more than the source has. *)
Unpadded == setup.kind = "canexsized" => start + setup.size <= Length

Counted ==
    /\ pc \in {"idle", "skip"} => count_ = 0 /\ percent = 0 /\ size = setup.size
    /\ pc = "test" => Reached(0)
    /\ pc = "read" => Reached(call.pos)
    /\ pc = "write" => /\ Reached(put.pos + put.count)
                       /\ Canex => res = put.pos + put.count
    /\ Sized /\ setup.whole >= Length /\ Unpadded => size + count_ = setup.size
    /\ setup.kind = "canexsized" /\ setup.whole >= Length /\ Unpadded
         => pc \notin {"pad", "padding"}
    /\ setup.kind = "plain" => count_ = 0

LEMMA ReadCounted ==
    ASSUME Typed, Bounded, Counted, NEW k \in Nat, ReadsSome(k)
    PROVE  Counted'
<1>n. Numbers
  BY TypedNumbers
<1>1. /\ pc \in {"read", "skip"} /\ Ahead' = Ahead + k
      /\ UNCHANGED <<setup, size, count_, percent, start>>
  BY DEF ReadsSome, Takes
<1>2. /\ Unpadded' = Unpadded /\ Sized' = Sized /\ Canex' = Canex
      /\ Ahead \in Int
  <2>1. Ahead \in Int
    BY <1>n DEF Ahead, Numbers
  <2>. QED
    BY <1>1, <2>1 DEF Unpadded, Sized, Canex
<1>3. CASE pc = "skip"
  <2>1. pc' \in {"idle", "skip", "done"}
    BY <1>1, <1>3 DEF ReadsSome, Returned, ReadsOn
  <2>. QED
    BY <1>1, <1>2, <1>3, <2>1 DEF Counted
<1>4. CASE pc = "read"
  <2>1. Reached(call.pos)
    BY <1>4 DEF Counted
  <2>2. ASSUME NEW n \in Nat, n = call.pos + k PROVE Reached(n)'
    <3>1. /\ start \in Nat /\ count_ \in Nat /\ call.pos \in Nat
          /\ start + count_ + call.pos <= Ahead
          /\ Canex => start + count_ + call.pos = Ahead
      BY <1>n, <2>1 DEF Numbers, Reached
    <3>2. start + count_ + n <= Ahead + k
      BY <1>2, <2>2, <3>1
    <3>3. ASSUME Canex PROVE start + count_ + n = Ahead + k
      BY <1>2, <2>2, <3>1, <3>3
    <3>. QED
      BY <1>1, <1>2, <3>2, <3>3 DEF Reached
  <2>3. CASE Returned(-1)
    <3>1. pc' = "done"
      BY <2>3 DEF Returned
    <3>. QED
      BY <1>1, <1>2, <3>1 DEF Counted
  <2>4. CASE Returned(call.pos + k)
    <3>1. CASE pc' = "done"
      BY <1>1, <1>2, <3>1 DEF Counted
    <3>2. CASE pc' = "write"
      <4>1. put'.pos = 0 /\ put'.count = call.pos + k /\ res' = call.pos + k
        BY <1>4, <2>4, <3>2 DEF Returned
      <4>2. put'.pos + put'.count = call.pos + k /\ put'.pos + put'.count \in Nat
        BY <1>n, <4>1, SMTT(60) DEF Numbers
      <4>3. Reached(put.pos + put.count)'
        BY <2>2, <4>2
      <4>. QED
        BY <1>1, <1>2, <3>2, <4>1, <4>2, <4>3 DEF Counted
    <3>. QED
      BY <1>4, <2>4, <3>1, <3>2 DEF Returned
  <2>5. CASE ReadsOn(k)
    <3>1. call'.pos = call.pos + k /\ pc' = "read"
      BY <1>4, <2>5 DEF ReadsOn
    <3>2. call'.pos \in Nat
      BY <1>n, <3>1, SMTT(60) DEF Numbers
    <3>3. Reached(call.pos)'
      BY <2>2, <3>1, <3>2
    <3>. QED
      BY <1>1, <1>2, <3>1, <3>3 DEF Counted
  <2>. QED
    BY <2>3, <2>4, <2>5 DEF ReadsSome
<1>. QED
  BY <1>1, <1>3, <1>4

LEMMA WriteCounted ==
    ASSUME Typed, Bounded, Counted, NEW k \in Nat, WritesSome(k)
    PROVE  Counted'
<1>n. Numbers
  BY TypedNumbers
<1>1. /\ Writing /\ UNCHANGED <<setup, position, in, call, start>> /\ k <= put.count
  BY DEF WritesSome, reader
<1>2. /\ Unpadded' = Unpadded /\ Sized' = Sized /\ Canex' = Canex /\ Ahead' = Ahead
      /\ Ahead \in Int
  <2>1. Ahead \in Int
    BY <1>n DEF Ahead, Numbers
  <2>. QED
    BY <1>1, <2>1 DEF Unpadded, Sized, Canex, Ahead
<1>a. /\ start \in Nat /\ count_ \in Nat /\ size \in Nat /\ setup.size \in Nat
      /\ put.pos \in Nat /\ put.count \in Nat /\ res \in Nat
  BY <1>n DEF Numbers
<1>3. ASSUME pc' = "done", UNCHANGED <<size, count_>>
      PROVE  Counted'
  BY <1>1, <1>2, <1>3 DEF Counted
<1>4. CASE WritesOn(k)
  <2>1. /\ put' = [count |-> put.count - k, pos |-> put.pos + k]
        /\ UNCHANGED <<res, size, count_, percent, pc>>
    BY <1>4 DEF WritesOn
  <2>2. put'.pos + put'.count = put.pos + put.count
    BY <1>a, <2>1
  <2>3. pc = "write" => Reached(put.pos + put.count)'
    BY <1>1, <1>2, <2>1, <2>2 DEF Counted, Reached
  <2>. QED
    BY <1>1, <1>2, <2>1, <2>2, <2>3 DEF Counted, Writing
<1>5. CASE Wrote(-1)
  BY <1>3, <1>5 DEF Wrote, Refused
<1>6. CASE Wrote(put.pos + k) /\ Refused(put.pos + k)
  BY <1>3, <1>6 DEF Wrote
<1>7. CASE Wrote(put.pos + k) /\ ~Refused(put.pos + k)
  <2>1. /\ res' = IF Canex THEN res ELSE put.pos + k
        /\ size' = IF Sized THEN size - (put.pos + k) ELSE size
        /\ count_' = IF Reports THEN count_ + res' ELSE count_
        /\ pc' = IF pc = "padding" THEN "pad" ELSE "test"
    BY <1>7 DEF Wrote, Update
  <2>2. Canex => Reports /\ k = put.count
    <3>1. Canex => put.pos + k = put.pos + put.count
      BY <1>7 DEF Refused
    <3>. QED
      BY <1>a, <3>1 DEF Canex, Reports
  <2>3. pc = "write" => /\ start + count_ + (put.pos + put.count) <= Ahead
                        /\ Canex => start + count_ + (put.pos + put.count) = Ahead
                        /\ Canex => res = put.pos + put.count
    BY DEF Counted, Reached
  <2>4. ASSUME pc = "write" PROVE Reached(0)'
    <3>1. CASE Canex
      <4>1. count_' = count_ + (put.pos + put.count)
        BY <2>1, <2>2, <2>3, <2>4, <3>1
      <4>2. start + (count_ + (put.pos + put.count)) + 0 = Ahead
        BY <1>a, <1>2, <2>3, <2>4, <3>1
      <4>. QED
        BY <1>1, <1>2, <4>1, <4>2 DEF Reached
    <3>2. CASE ~Canex
      <4>1. PICK n \in Nat : n <= put.pos + put.count /\ count_' = count_ + n
        <5>1. count_' = count_ + (put.pos + k) \/ count_' = count_ + 0
          BY <1>a, <2>1, <3>2
        <5>. QED
          BY <1>1, <1>a, <5>1
      <4>2. start + count_ + (put.pos + put.count) <= Ahead
        BY <2>3, <2>4
      <4>3. start + (count_ + n) + 0 <= Ahead
        BY <1>a, <1>2, <4>1, <4>2
      <4>. QED
        BY <1>1, <1>2, <3>2, <4>1, <4>3 DEF Reached
    <3>. QED
      BY <3>1, <3>2
  <2>5. ASSUME Sized, setup.whole >= Length, Unpadded
        PROVE  size' + count_' = setup.size
    <3>1. size + count_ = setup.size
      BY <2>5 DEF Counted
    <3>2. res' = put.pos + k /\ Reports
      <4>1. CASE setup.kind = "sized"
        BY <2>1, <4>1 DEF Canex, Reports
      <4>2. CASE setup.kind = "canexsized"
        <5>1. pc = "write" /\ Canex
          BY <1>1, <2>5, <4>2 DEF Counted, Writing, Canex
        <5>. QED
          BY <2>1, <2>2, <2>3, <5>1
      <4>. QED
        BY <2>5, <4>1, <4>2 DEF Sized
    <3>3. size' = size - (put.pos + k) /\ count_' = count_ + (put.pos + k)
      BY <2>1, <2>5, <3>2
    <3>. QED
      BY <1>a, <3>1, <3>3
  <2>6. ASSUME setup.kind = "canexsized", setup.whole >= Length, Unpadded
        PROVE  pc' \notin {"pad", "padding"}
    BY <2>1, <2>6 DEF Counted
  <2>7. setup.kind = "plain" => count_' = 0
    BY <2>1 DEF Counted, Reports
  <2>. QED
    BY <1>1, <1>2, <2>1, <2>4, <2>5, <2>6, <2>7 DEF Counted, Writing
<1>. QED
  BY <1>4, <1>5, <1>6, <1>7 DEF WritesSome

LEMMA CountedStep ==
    ASSUME Base, Counted, [Next]_vars
    PROVE  Counted'
<1>b. Typed /\ Bounded /\ Reading
  BY DEF Base
<1>n. Numbers
  BY <1>b, TypedNumbers
<1>a. /\ start \in Nat /\ count_ \in Nat /\ size \in Nat /\ setup.size \in Nat
      /\ Length \in Nat /\ setup.whole \in Int /\ position \in Nat
  BY <1>n DEF Numbers
<1>1. CASE Refill \/ Serve \/ ReadSource
  <2>1. PICK k \in Nat : ReadsSome(k)
    BY <1>1, <1>b, ReadStep
  <2>. QED
    BY <2>1, <1>b, ReadCounted
<1>2. CASE WriteSink \/ Spill \/ Keep
  <2>1. PICK k \in Nat : WritesSome(k)
    BY <1>2, <1>b, WriteStep
  <2>. QED
    BY <2>1, <1>b, WriteCounted
<1>3. CASE \/ Skip
           \/ \E d \in 0 .. MaxStart, fromStart \in BOOLEAN : Seek(d, fromStart)
  <2>1. /\ pc \in {"idle", "skip"} /\ pc' \in {"idle", "skip"}
        /\ UNCHANGED <<setup, size, count_, percent>>
    BY <1>3 DEF Skip, Seek, copier
  <2>2. count_ = 0 /\ percent = 0 /\ size = setup.size
    BY <2>1 DEF Counted
  <2>3. size + 0 = size
    BY <1>a
  <2>. QED
    BY <2>1, <2>2, <2>3 DEF Counted, Sized
<1>4. CASE Start
  <2>1. /\ pc = "idle" /\ pc' = "test"
        /\ UNCHANGED <<setup, position, in, start, size, count_>>
    BY <1>4 DEF Start, reader, copier
  <2>2. Ahead = start /\ count_ = 0
    BY <1>b, <2>1 DEF Reading, Counted
  <2>3. Ahead' = Ahead /\ start + 0 + 0 = start
    BY <1>a, <2>1 DEF Ahead
  <2>4. Reached(0)'
    BY <1>a, <2>1, <2>2, <2>3 DEF Reached
  <2>. QED
    BY <2>1, <2>4 DEF Counted, Sized, Unpadded
<1>5. CASE Continue
  <2>1. /\ pc = "test" /\ pc' = "read" /\ call'.pos = 0
        /\ UNCHANGED <<setup, position, in, start, size, count_>>
    BY <1>5 DEF Continue, copier
  <2>2. Reached(0)'
    BY <2>1 DEF Counted, Reached, Ahead, Canex
  <2>. QED
    BY <2>1, <2>2 DEF Counted, Sized, Unpadded
<1>6. CASE Cancel \/ Finish \/ Flush
  <2>1. pc' \in {"done", "closed"} /\ UNCHANGED <<setup, start, size, count_>>
    BY <1>6 DEF Cancel, Finish, Flush, copier
  <2>. QED
    BY <2>1 DEF Counted, Sized, Unpadded
<1>7. CASE PadNext
  <2>1. /\ Sized /\ (pc = "test" \/ pc = "pad") /\ pc' \in {"padding", "done"}
        /\ UNCHANGED <<setup, start, size, count_>>
    BY <1>7 DEF PadNext
  <2>2. ASSUME setup.kind = "canexsized", setup.whole >= Length, Unpadded,
               pc' = "padding"
        PROVE  FALSE
    <3>1. pc = "test" /\ size > 0
      BY <1>7, <2>1, <2>2 DEF PadNext, Counted
    <3>2. InEnd
      BY <1>7, <1>a, <3>1 DEF PadNext
    <3>3. Ahead = position /\ position >= setup.whole
      BY <1>b, <3>2, AtEnd
    <3>4. start + count_ + 0 = Ahead /\ size + count_ = setup.size
      BY <2>1, <2>2, <3>1 DEF Counted, Reached, Canex
    <3>5. start + setup.size <= Length
      BY <2>2 DEF Unpadded
    <3>. QED
      BY <1>a, <2>2, <3>1, <3>3, <3>4, <3>5
  <2>. QED
    BY <2>1, <2>2 DEF Counted, Sized, Unpadded
<1>8. CASE Grow \/ UNCHANGED vars
  <2>1. UNCHANGED <<setup, position, in, call, put, res, size, count_, percent, pc, start>>
    BY <1>8 DEF Grow, vars, reader, writer, copier
  <2>. QED
    BY <2>1 DEF Counted, Reached, Ahead, Canex, Sized, Unpadded
<1>. QED
  BY <1>1, <1>2, <1>3, <1>4, <1>5, <1>6, <1>7, <1>8 DEF Next, StreamStep, CopyStep

(* The progress last reported is that of what is counted. *)
Percented ==
    setup.whole >= Length /\ Unpadded =>
      /\ percent \in 0 .. 100
      /\ pc \notin {"done", "closed"} => percent = Percent(count_, Total)

LEMMA TotalNat == Typed /\ setup.whole >= Length => Total \in Nat
<1>. SUFFICES ASSUME Typed, setup.whole >= Length PROVE Total \in Nat
  OBVIOUS
<1>1. /\ setup.whole \in Int /\ Length \in Nat /\ start \in Nat /\ setup.size \in Nat
      /\ setup.whole >= Length
  BY TypedNumbers DEF Numbers
<1>. QED
  BY <1>1 DEF Total

(* No more is counted than there is. *)
LEMMA CountedTotal ==
    Base /\ Counted /\ setup.whole >= Length /\ Unpadded /\ pc \in {"test", "pad"}
      => count_ <= Total
<1>. SUFFICES ASSUME Base, Counted, setup.whole >= Length, Unpadded, pc \in {"test", "pad"}
              PROVE  count_ <= Total
  OBVIOUS
<1>b. Typed /\ Bounded /\ Reading
  BY DEF Base
<1>a. /\ start \in Nat /\ count_ \in Nat /\ size \in Nat /\ setup.size \in Nat
      /\ Length \in Nat /\ setup.whole \in Int /\ position \in Nat /\ in.left \in Nat
  BY <1>b, TypedNumbers DEF Numbers
<1>1. CASE Sized
  <2>1. size + count_ = setup.size
    BY <1>1 DEF Counted
  <2>. QED
    <3>1. Total = setup.size
      BY <1>1 DEF Total, Sized
    <3>. QED
      BY <1>a, <2>1, <3>1
<1>2. CASE ~Sized
  <2>1. pc = "test"
    BY <1>b, <1>2 DEF Bounded
  <2>2. start + count_ <= position
    <3>1. start + count_ + 0 <= Ahead
      BY <2>1 DEF Counted, Reached
    <3>2. Ahead <= position
      BY <1>a DEF Ahead
    <3>3. Ahead \in Int
      BY <1>a DEF Ahead
    <3>. QED
      BY <1>a, <3>1, <3>2, <3>3
  <2>3. position <= Length \/ position = start
    BY <1>b DEF Reading
  <2>4. /\ count_ <= setup.whole
        /\ start < setup.whole => count_ <= setup.whole - start
        /\ ~(start < setup.whole) => count_ = 0
    BY <1>a, <2>2, <2>3
  <2>. QED
    BY <1>2, <1>a, <2>4 DEF Total
<1>. QED
  BY <1>1, <1>2

(* A write() reports no less than before, and no more than everything. *)
LEMMA WriteRises ==
    ASSUME Base, Counted, Percented, Counted', Base', NEW k \in Nat, WritesSome(k),
           setup.whole >= Length, Unpadded
    PROVE  /\ percent <= percent' /\ percent' <= 100
           /\ Percented'
<1>b. Typed /\ Bounded
  BY DEF Base
<1>1. /\ Writing /\ UNCHANGED <<setup, start>>
  BY DEF WritesSome
<1>2. /\ Total' = Total /\ Unpadded' = Unpadded
      /\ count_ \in Nat /\ Total \in Nat
      /\ percent = Percent(count_, Total) /\ percent \in 0 .. 100
  <2>1. Total \in Nat
    BY <1>b, TotalNat
  <2>2. count_ \in Nat
    BY <1>b, TypedNumbers DEF Numbers
  <2>. QED
    BY <1>1, <2>1, <2>2 DEF Total, Sized, Unpadded, Percented, Writing
<1>3. CASE UNCHANGED <<count_, percent>>
  BY <1>1, <1>2, <1>3 DEF Percented
<1>4. CASE ~UNCHANGED <<count_, percent>>
  <2>1. PICK r \in {-1, put.pos + k} : Wrote(r) /\ ~Refused(r)
    BY <1>4 DEF WritesSome, WritesOn, Wrote
  <2>2. /\ pc' \in {"test", "pad"}
        /\ count_' = count_ + res' /\ percent' = Percent(count_', Total)
    BY <1>1, <1>2, <1>4, <2>1 DEF Wrote, Update, Writing
  <2>3. count_' \in Nat /\ res' \in Nat
    BY DEF Base, Typed
  <2>4. count_ <= count_'
    <3>1. \A c, d \in Nat : c <= c + d
      OBVIOUS
    <3>. QED
      BY <1>2, <2>2, <2>3, <3>1, Zenon
  <2>5. count_' <= Total
    <3>1. (Base /\ Counted /\ setup.whole >= Length /\ Unpadded /\ pc \in {"test", "pad"}
             => count_ <= Total)'
      BY CountedTotal, PTL
    <3>. QED
      BY <1>1, <1>2, <2>2, <3>1
  <2>6. percent' \in 0 .. 100 /\ Percent(count_, Total) <= Percent(count_', Total)
    BY <1>2, <2>2, <2>3, <2>4, <2>5, PercentBounds, PercentRises
  <2>. QED
    BY <1>1, <1>2, <2>2, <2>6 DEF Percented
<1>. QED
  BY <1>3, <1>4

LEMMA PercentStep ==
    ASSUME Base, Counted, Percented, Base', Counted', [Next]_vars
    PROVE  /\ Percented'
           /\ setup.whole >= Length /\ Unpadded => percent <= percent' /\ percent' <= 100
<1>b. Typed /\ Bounded /\ Reading
  BY DEF Base
<1>1. CASE WriteSink \/ Spill \/ Keep
  <2>1. PICK k \in Nat : WritesSome(k)
    BY <1>1, <1>b, WriteStep
  <2>2. setup' = setup /\ start' = start
    BY <2>1 DEF WritesSome
  <2>3. CASE setup.whole >= Length /\ Unpadded
    BY <2>1, <2>3, WriteRises
  <2>4. CASE ~(setup.whole >= Length /\ Unpadded)
    BY <2>2, <2>4 DEF Percented, Unpadded
  <2>. QED
    BY <2>3, <2>4
<1>2. CASE \E d \in 0 .. MaxStart, fromStart \in BOOLEAN : Seek(d, fromStart)
  <2>1. /\ pc = "idle" /\ UNCHANGED <<setup, count_, percent>>
    BY <1>2 DEF Seek, copier
  <2>2. count_ = 0 /\ percent = 0
    BY <2>1 DEF Counted
  <2>3. (Typed /\ setup.whole >= Length => Total \in Nat)'
    BY TotalNat, PTL
  <2>4. setup.whole >= Length => Percent(0, Total') = 0
    BY <2>1, <2>3, PercentZero DEF Base
  <2>. QED
    BY <2>1, <2>2, <2>4 DEF Percented
<1>3. CASE Refill \/ Serve \/ ReadSource \/ Skip \/ Grow \/ Flush \/ Start \/ Continue
           \/ Cancel \/ PadNext \/ UNCHANGED vars
  <2>1. /\ UNCHANGED <<setup, start, count_, percent>>
        /\ pc \in {"done", "closed"} => pc' \in {"done", "closed"}
    BY <1>3 DEF Refill, Serve, ReadSource, Skip, Grow, Flush, Start, Continue, Cancel,
                PadNext, vars, writer, copier
  <2>2. percent \in 0 .. 100 => percent <= percent /\ percent <= 100
    OBVIOUS
  <2>. QED
    BY <2>1, <2>2 DEF Percented, Unpadded, Total, Sized
<1>4. CASE Finish
  <2>1. /\ UNCHANGED <<setup, start>> /\ pc' = "done" /\ percent' \in {percent, 100}
    BY <1>4 DEF Finish
  <2>2. percent \in 0 .. 100 =>
          percent <= percent' /\ percent' <= 100 /\ percent' \in 0 .. 100
    BY <2>1
  <2>. QED
    BY <2>1, <2>2 DEF Percented, Unpadded
<1>. QED
  BY <1>1, <1>2, <1>3, <1>4 DEF Next, StreamStep, CopyStep

LEMMA InitCounted == Init => Counted /\ Percented
<1>. SUFFICES ASSUME Init PROVE Counted /\ Percented
  OBVIOUS
<1>1. Typed /\ setup.size \in Nat
  BY InitSound, SetupFields DEF Init
<1>2. setup.whole >= Length => Percent(0, Total) = 0
  BY <1>1, TotalNat, PercentZero
<1>. QED
  BY <1>1, <1>2 DEF Init, Counted, Percented

(***************************************************************************)
(* "The progress in percent" does not fall and stays within 100, whatever  *)
(* is read and written short; but for the padding of canexstream and a     *)
(* source that has outgrown size().                                        *)
(***************************************************************************)
THEOREM ProgressNeverFalls == Spec => ProgressRises
<1>1. ASSUME Base, Counted, Percented, [Next]_vars
      PROVE  /\ Base' /\ Counted' /\ Percented'
             /\ setup.whole >= Length /\ Unpadded => percent <= percent' /\ percent' <= 100
  <2>1. Base' /\ Counted'
    BY <1>1, BaseStep, CountedStep
  <2>. QED
    BY <1>1, <2>1, PercentStep
<1>2. ASSUME Base, Counted, Percented, [Next]_vars
      PROVE  [/\ setup.whole >= Length
              /\ ~(setup.kind = "canexsized" /\ start + setup.size > Length)
              => percent <= percent' /\ percent' <= 100]_vars
  <2>1. /\ Length \in Nat /\ start \in Nat /\ setup.size \in Nat
    BY <1>2, TypedNumbers DEF Base, Numbers
  <2>. QED
    BY <1>1, <1>2, <2>1 DEF Unpadded
<1>. QED
  BY <1>1, <1>2, InitBase, InitCounted, PTL DEF Spec, ProgressRises

-----------------------------------------------------------------------------
(***************************************************************************)
(*                               Directories                               *)
(***************************************************************************)

MaybeHandles == Handles \cup {Unopened, Failed}
Shown == EntryNames \cup Dots \cup {NoEntry, Garbage}

TypeOK ==
    /\ alive \in BOOLEAN
    /\ dir_handles_ \in [Slots -> MaybeHandles]
    /\ it \in [Slots -> [handle : MaybeHandles, cur : Shown]]
    /\ entries \subseteq EntryNames
    /\ open \subseteq Handles
    /\ unread \in [Handles -> SUBSET (EntryNames \cup Dots)]

Stored == {dir_handles_[s] : s \in Slots}

(* The inductive invariant. *)
Owned ==
    /\ TypeOK
    /\ alive =>
          /\ \A h \in Handles : h \in open <=> h \in Stored
          /\ \A s \in Slots : it[s].handle \in Handles => it[s].handle \in Stored
    /\ ~alive => open = {}

-----------------------------------------------------------------------------
(* next() and FindFirstFile() give an entry, or nothing, and leave the rest. *)
LEMMA NextTyped ==
    ASSUME NEW S \in SUBSET (EntryNames \cup Dots), NEW o \in NextEntry(S)
    PROVE  o.cur \in Shown /\ o.left \in SUBSET (EntryNames \cup Dots)
BY DEF NextEntry, Shown

LEMMA FirstTyped ==
    ASSUME NEW S \in SUBSET (EntryNames \cup Dots), NEW o \in FirstEntry(S)
    PROVE  o.cur \in Shown /\ o.left \in SUBSET (EntryNames \cup Dots)
<1>1. CASE o \in NextEntry(S)
  BY <1>1, NextTyped
<1>2. CASE \E e \in S \ Dots : o = [cur |-> e, left |-> S \ {e}]
  BY <1>2 DEF Shown
<1>3. CASE \E d \in Dots : o \in NextEntry(S \ {d})
  <2>1. PICK d \in Dots : o \in NextEntry(S \ {d})
    BY <1>3
  <2>2. S \ {d} \in SUBSET (EntryNames \cup Dots)
    OBVIOUS
  <2> QED BY <2>1, <2>2, NextTyped
<1> QED BY <1>1, <1>2, <1>3 DEF FirstEntry, FirstEntryOnWindows

(* An iterator that reads on changes no iterator's handle but its own. *)
LEMMA ReadsTyped ==
    ASSUME TypeOK, NEW s \in Slots, NEW h \in Handles, NEW outcomes, NEW due,
           Reads(s, h, outcomes, due),
           \A o \in outcomes : o.cur \in Shown /\ o.left \in SUBSET (EntryNames \cup Dots)
    PROVE  /\ it' \in [Slots -> [handle : MaybeHandles, cur : Shown]]
           /\ unread' \in [Handles -> SUBSET (EntryNames \cup Dots)]
           /\ \A r \in Slots : it'[r].handle = IF r = s THEN h ELSE it[r].handle
<1>1. PICK o \in outcomes, others \in Overwritten(h, s) :
        /\ it' = [others EXCEPT ![s] = [handle |-> h, cur |-> o.cur]]
        /\ unread' = [unread EXCEPT ![h] = o.left]
  BY DEF Reads
<1>2. others \in [Slots -> [handle : MaybeHandles, cur : Shown]]
      /\ \A r \in Slots : others[r].handle = it[r].handle
  <2>1. CASE others = it
    BY <2>1 DEF TypeOK
  <2>2. CASE others = [r \in Slots |->
                          IF r # s /\ it[r].handle = h /\ ~Finished(r)
                          THEN [it[r] EXCEPT !.cur = Garbage] ELSE it[r]]
    <3>1. \A r \in Slots :
            /\ it[r] \in [handle : MaybeHandles, cur : Shown]
            /\ [it[r] EXCEPT !.cur = Garbage] \in [handle : MaybeHandles, cur : Shown]
            /\ [it[r] EXCEPT !.cur = Garbage].handle = it[r].handle
      BY DEF TypeOK, Shown
    <3> QED BY <2>2, <3>1
  <2> QED BY <2>1, <2>2 DEF Overwritten
<1>3. [handle |-> h, cur |-> o.cur] \in [handle : MaybeHandles, cur : Shown]
  BY DEF MaybeHandles
<1> QED BY <1>1, <1>2, <1>3 DEF TypeOK

-----------------------------------------------------------------------------
LEMMA OwnedInit == DirectoriesInit => Owned
BY HandlesAssumption DEF DirectoriesInit, Owned, TypeOK, NoIterator, Stored, MaybeHandles, Shown

(* Reading on at a handle that is stored already. *)
LEMMA OwnedReads ==
    ASSUME Owned, alive, NEW s \in Slots, NEW S \in SUBSET (EntryNames \cup Dots),
           NEW outcomes, NEW due,
           outcomes = NextEntry(S)
               \/ outcomes = NextEntry(S) \cup {[cur |-> Garbage, left |-> S]},
           NEW h \in Handles, h \in Stored,
           Reads(s, h, outcomes, due),
           UNCHANGED <<windows, object, entries, open>>
    PROVE  Owned'
<1>1. \A o \in outcomes : o.cur \in Shown /\ o.left \in SUBSET (EntryNames \cup Dots)
  <2>1. ASSUME NEW o \in NextEntry(S)
        PROVE  o.cur \in Shown /\ o.left \in SUBSET (EntryNames \cup Dots)
    BY <2>1, NextTyped
  <2>2. ASSUME NEW o, o = [cur |-> Garbage, left |-> S]
        PROVE  o.cur \in Shown /\ o.left \in SUBSET (EntryNames \cup Dots)
    BY <2>2 DEF Shown
  <2> QED BY <2>1, <2>2
<1>2. /\ it' \in [Slots -> [handle : MaybeHandles, cur : Shown]]
      /\ unread' \in [Handles -> SUBSET (EntryNames \cup Dots)]
      /\ \A r \in Slots : it'[r].handle = IF r = s THEN h ELSE it[r].handle
  BY <1>1, ReadsTyped DEF Owned
<1> QED BY <1>2 DEF Owned, TypeOK, Stored, object

LEMMA OwnedStep == Owned /\ [DirectoriesNext]_directoryVars => Owned'
<1> SUFFICES ASSUME Owned, [DirectoriesNext]_directoryVars PROVE Owned'
  OBVIOUS
<1>1. ASSUME NEW s \in Slots, BeginNew(s) PROVE Owned'
  <2>1. PICK h \in Handles \ open :
          /\ dir_handles_' = [dir_handles_ EXCEPT ![s] = h]
          /\ open' = open \cup {h}
          /\ Reads(s, h, FirstEntry(entries \cup Dots), entries)
    BY <1>1 DEF BeginNew
  <2>2. \A o \in FirstEntry(entries \cup Dots) :
            o.cur \in Shown /\ o.left \in SUBSET (EntryNames \cup Dots)
    BY FirstTyped DEF Owned, TypeOK
  <2>3. /\ it' \in [Slots -> [handle : MaybeHandles, cur : Shown]]
        /\ unread' \in [Handles -> SUBSET (EntryNames \cup Dots)]
        /\ \A r \in Slots : it'[r].handle = IF r = s THEN h ELSE it[r].handle
    BY <2>1, <2>2, ReadsTyped DEF Owned
  <2>4. /\ alive /\ alive' /\ entries' = entries
        /\ dir_handles_[s] \notin Handles
    BY <1>1, HandlesAssumption DEF BeginNew
  <2>5. TypeOK'
    BY <2>1, <2>3, <2>4 DEF Owned, TypeOK, MaybeHandles
  <2>6. \A g \in Handles : g \in Stored' <=> g \in Stored \/ g = h
    BY <2>1, <2>4 DEF Owned, TypeOK, Stored
  <2> QED BY <2>1, <2>3, <2>4, <2>5, <2>6 DEF Owned
<1>2. ASSUME NEW s \in Slots, BeginFails(s) PROVE Owned'
  <2>1. /\ dir_handles_' = [dir_handles_ EXCEPT ![s] = Failed]
        /\ it' = [it EXCEPT ![s] = [handle |-> Failed, cur |-> NoEntry]]
        /\ dir_handles_[s] \notin Handles
        /\ UNCHANGED <<alive, entries, open, unread>>
    BY <1>2, HandlesAssumption DEF BeginFails, system
  <2>2. [handle |-> Failed, cur |-> NoEntry] \in [handle : MaybeHandles, cur : Shown]
    BY DEF MaybeHandles, Shown
  <2>3. TypeOK'
    BY <2>1, <2>2 DEF Owned, TypeOK, MaybeHandles
  <2>4. \A g \in Handles : g \in Stored' <=> g \in Stored
    BY <2>1, HandlesAssumption DEF Owned, TypeOK, Stored
  <2>5. \A r \in Slots : it'[r].handle \in Handles => it[r].handle = it'[r].handle
    BY <2>1, HandlesAssumption DEF Owned, TypeOK
  <2> QED BY <2>1, <2>3, <2>4, <2>5 DEF Owned
<1>3. ASSUME NEW s \in Slots, BeginAgain(s) PROVE Owned'
  <2> DEFINE h == dir_handles_[s]
             outcomes == NextEntry(unread[h]) \cup
                         (IF windows THEN {[cur |-> Garbage, left |-> unread[h]]} ELSE {})
  <2>1. /\ alive /\ h \in Handles /\ h \in Stored
        /\ Reads(s, h, outcomes, owed[h])
        /\ UNCHANGED <<windows, object, entries, open>>
    BY <1>3 DEF BeginAgain, Stored
  <2>2. unread[h] \in SUBSET (EntryNames \cup Dots)
    BY <2>1 DEF Owned, TypeOK
  <2>3. \/ outcomes = NextEntry(unread[h])
        \/ outcomes = NextEntry(unread[h]) \cup {[cur |-> Garbage, left |-> unread[h]]}
    OBVIOUS
  <2> HIDE DEF h, outcomes
  <2> QED BY <2>1, <2>2, <2>3, OwnedReads
<1>4. ASSUME NEW s \in Slots, Increment(s) PROVE Owned'
  <2> DEFINE h == it[s].handle
  <2>1. /\ alive /\ h \in Handles
        /\ Reads(s, h, NextEntry(unread[h]), owed[h])
        /\ UNCHANGED <<windows, object, entries, open>>
    BY <1>4 DEF Increment
  <2>2. h \in Stored /\ unread[h] \in SUBSET (EntryNames \cup Dots)
    BY <2>1 DEF Owned, TypeOK
  <2> HIDE DEF h
  <2> QED BY <2>1, <2>2, OwnedReads
<1>5. ASSUME NEW s \in Slots, Drop(s) PROVE Owned'
  <2>1. /\ it' = [it EXCEPT ![s] = NoIterator]
        /\ UNCHANGED <<alive, dir_handles_, entries, open, unread>>
    BY <1>5 DEF Drop, object, system
  <2>2. /\ NoIterator \in [handle : MaybeHandles, cur : Shown]
        /\ NoIterator.handle \notin Handles
    BY HandlesAssumption DEF NoIterator, MaybeHandles, Shown
  <2> QED BY <2>1, <2>2 DEF Owned, TypeOK, Stored
<1>6. ASSUME NEW s \in Slots, NEW to \in Slots \ {s}, Copy(s, to) PROVE Owned'
  <2>1. /\ it' = [it EXCEPT ![to] = it[s]]
        /\ UNCHANGED <<alive, dir_handles_, entries, open, unread>>
    BY <1>6 DEF Copy, object, system
  <2> QED BY <2>1 DEF Owned, TypeOK, Stored
<1>7. ASSUME Destroy PROVE Owned'
  <2>1. /\ alive /\ alive' = FALSE
        /\ open' = open \ {dir_handles_[s] : s \in Slots}
        /\ dir_handles_' = [s \in Slots |-> Unopened]
        /\ UNCHANGED <<it, entries, unread>>
    BY <1>7 DEF Destroy
  <2>2. open' = {}
    BY <2>1 DEF Owned, TypeOK, Stored
  <2> QED BY <2>1, <2>2 DEF Owned, TypeOK, MaybeHandles
<1>8. ASSUME NEW n \in EntryNames, AddEntry(n) \/ RemoveEntry(n) PROVE Owned'
  <2>1. /\ entries' \subseteq EntryNames
        /\ unread' \in [Handles -> SUBSET (EntryNames \cup Dots)]
    BY <1>8 DEF AddEntry, RemoveEntry, Owned, TypeOK
  <2>2. UNCHANGED <<alive, dir_handles_, it, open>>
    BY <1>8 DEF AddEntry, RemoveEntry, object
  <2> QED BY <2>1, <2>2 DEF Owned, TypeOK, Stored
<1>9. CASE UNCHANGED directoryVars
  BY <1>9 DEF directoryVars, object, system, Owned, TypeOK, Stored
<1> QED BY <1>1, <1>2, <1>3, <1>4, <1>5, <1>6, <1>7, <1>8, <1>9 DEF DirectoriesNext

LEMMA OwnedAlways == DirectoriesSpec => []Owned
BY OwnedInit, OwnedStep, PTL DEF DirectoriesSpec

(* ~Directory() "needs to free" the handles of its iterators: none is      *)
(* closed under an iterator before, and none is left open after it.        *)
THEOREM HandlesFreed == DirectoriesSpec => []HandlesOwned
<1>1. Owned => HandlesOwned
  BY DEF Owned, HandlesOwned
<1> QED BY <1>1, OwnedAlways, PTL

-----------------------------------------------------------------------------
(* What an iterator has still to show is what its handle has still to give. *)

OwedUnread == owed \in [Handles -> SUBSET EntryNames] /\ \A h \in Handles : owed[h] \subseteq unread[h]

(* The inductive invariant. *)
Due ==
    /\ OwedUnread
    /\ \A s \in Slots : it[s].handle \in Handles /\ Finished(s) => owed[it[s].handle] = {}
    /\ \A s \in Slots : it[s].cur \notin Dots

(* What may come of reading: an entry that is not a dot, and no entry that *)
(* is due is passed over.                                                  *)
Outcome(o, due) ==
    /\ o.cur \notin Dots
    /\ due \ {o.cur} \subseteq o.left
    /\ o.cur = NoEntry => due = {}

LEMMA NextOutcome ==
    ASSUME NEW S, NEW due \in SUBSET EntryNames, due \subseteq S, NEW o \in NextEntry(S),
           NoEntry \notin S
    PROVE  Outcome(o, due)
<1>1. CASE \E e \in S \ Dots, met \in SUBSET Dots : o = [cur |-> e, left |-> S \ (met \cup {e})]
  BY <1>1, NamesAssumption DEF Outcome
<1>2. CASE S \subseteq Dots /\ o = [cur |-> NoEntry, left |-> {}]
  BY <1>2, NamesAssumption DEF Outcome, NoEntry, Dots
<1> QED BY <1>1, <1>2 DEF NextEntry

LEMMA FirstOutcome ==
    ASSUME NEW E \in SUBSET EntryNames, NEW o \in FirstEntry(E \cup Dots)
    PROVE  Outcome(o, E)
<1>1. NoEntry \notin E \cup Dots
  BY NamesAssumption DEF NoEntry, Dots
<1>2. CASE o \in NextEntry(E \cup Dots)
  BY <1>1, <1>2, NextOutcome
<1>3. CASE \E e \in (E \cup Dots) \ Dots : o = [cur |-> e, left |-> (E \cup Dots) \ {e}]
  BY <1>1, <1>3 DEF Outcome
<1>4. ASSUME NEW d \in Dots, o \in NextEntry((E \cup Dots) \ {d})
      PROVE  Outcome(o, E)
  <2>1. E \subseteq (E \cup Dots) \ {d}
    BY NamesAssumption
  <2> QED BY <1>1, <1>4, <2>1, NextOutcome
<1> QED BY <1>2, <1>3, <1>4 DEF FirstEntry, FirstEntryOnWindows

(* An iterator reads: no other one comes to its end, or shows a dot.  What *)
(* the others of that handle have still to show is less than before, or    *)
(* there is none of them.                                                  *)
LEMMA DueReads ==
    ASSUME Owned, Due, NEW s \in Slots, NEW h \in Handles, NEW outcomes, NEW due \in SUBSET EntryNames,
           Reads(s, h, outcomes, due),
           \A o \in outcomes : Outcome(o, due),
           due = owed[h] \/ \A r \in Slots : it[r].handle # h
    PROVE  Due'
<1>1. PICK o \in outcomes, others \in Overwritten(h, s) :
        /\ it' = [others EXCEPT ![s] = [handle |-> h, cur |-> o.cur]]
        /\ unread' = [unread EXCEPT ![h] = o.left]
        /\ owed' = [owed EXCEPT ![h] = due \ {o.cur}]
  BY DEF Reads
<1>2. Outcome(o, due)
  OBVIOUS
<1>3. /\ DOMAIN others = Slots
      /\ \A r \in Slots : /\ others[r].handle = it[r].handle
                          /\ others[r].cur = it[r].cur \/ others[r].cur = Garbage
  <2>1. CASE others = it
    BY <2>1 DEF Owned, TypeOK
  <2>2. CASE others = [r \in Slots |->
                          IF r # s /\ it[r].handle = h /\ ~Finished(r)
                          THEN [it[r] EXCEPT !.cur = Garbage] ELSE it[r]]
    <3>1. \A r \in Slots : /\ [it[r] EXCEPT !.cur = Garbage].handle = it[r].handle
                           /\ [it[r] EXCEPT !.cur = Garbage].cur = Garbage
      BY DEF Owned, TypeOK
    <3> QED BY <2>2, <3>1
  <2> QED BY <2>1, <2>2 DEF Overwritten
<1>4. /\ it'[s].handle = h /\ it'[s].cur = o.cur
      /\ \A r \in Slots : r # s => it'[r] = others[r]
  BY <1>1, <1>3
<1>5. /\ owed'[h] = due \ {o.cur}
      /\ \A g \in Handles : g # h => owed'[g] = owed[g] /\ unread'[g] = unread[g]
      /\ unread'[h] = o.left
  BY <1>1 DEF Owned, TypeOK, Due, OwedUnread
<1>6. OwedUnread'
  <2>1. owed' \in [Handles -> SUBSET EntryNames]
    BY <1>1 DEF Due, OwedUnread
  <2> QED BY <1>2, <1>5, <2>1 DEF Due, OwedUnread, Outcome
<1>7. ASSUME NEW r \in Slots PROVE it'[r].cur \notin Dots
  BY <1>2, <1>3, <1>4 DEF Outcome, Due, Dots, Garbage
<1>8. ASSUME NEW r \in Slots, it'[r].handle \in Handles, it'[r].cur = NoEntry
      PROVE  owed'[it'[r].handle] = {}
  <2>1. CASE r = s
    BY <1>2, <1>4, <1>5, <1>8, <2>1 DEF Outcome
  <2>2. CASE r # s
    <3>1. it[r].cur = NoEntry /\ it'[r].handle = it[r].handle
      BY <1>3, <1>4, <1>8, <2>2 DEF NoEntry, Garbage
    <3>2. owed[it[r].handle] = {}
      BY <1>8, <3>1 DEF Due, Finished
    <3> QED BY <1>5, <1>8, <3>1, <3>2
  <2> QED BY <2>1, <2>2
<1> QED BY <1>6, <1>7, <1>8 DEF Due, Finished

LEMMA DueInit == DirectoriesInit => Due
BY HandlesAssumption DEF DirectoriesInit, Due, OwedUnread, NoIterator, NoEntry, Dots, Finished

LEMMA DueStep == Owned /\ Due /\ [DirectoriesNext]_directoryVars => Due'
<1> SUFFICES ASSUME Owned, Due, [DirectoriesNext]_directoryVars PROVE Due'
  OBVIOUS
<1>1. ASSUME NEW s \in Slots, BeginNew(s) PROVE Due'
  <2>1. PICK h \in Handles \ open : Reads(s, h, FirstEntry(entries \cup Dots), entries)
    BY <1>1 DEF BeginNew
  <2>2. \A r \in Slots : it[r].handle # h
    BY <1>1 DEF Owned, BeginNew
  <2> QED BY <2>1, <2>2, FirstOutcome, DueReads DEF Owned, TypeOK
<1>2. ASSUME NEW s \in Slots, NEW h \in Handles, NEW outcomes,
             Reads(s, h, outcomes, owed[h]),
             outcomes \subseteq NextEntry(unread[h]) \cup {[cur |-> Garbage, left |-> unread[h]]}
      PROVE  Due'
  <2>1. owed[h] \in SUBSET EntryNames /\ owed[h] \subseteq unread[h]
    BY DEF Due, OwedUnread
  <2>2. NoEntry \notin unread[h]
    <3>1. unread[h] \subseteq EntryNames \cup Dots
      BY DEF Owned, TypeOK
    <3> QED BY <3>1, NamesAssumption DEF NoEntry, Dots
  <2>3. Outcome([cur |-> Garbage, left |-> unread[h]], owed[h])
    BY <2>1 DEF Outcome, Garbage, NoEntry, Dots
  <2>4. \A o \in outcomes : Outcome(o, owed[h])
    BY <1>2, <2>1, <2>2, <2>3, NextOutcome
  <2> QED BY <1>2, <2>1, <2>4, DueReads
<1>3. ASSUME NEW s \in Slots, BeginAgain(s) PROVE Due'
  <2> DEFINE h == dir_handles_[s]
             outcomes == NextEntry(unread[h]) \cup
                         (IF windows THEN {[cur |-> Garbage, left |-> unread[h]]} ELSE {})
  <2>1. h \in Handles /\ Reads(s, h, outcomes, owed[h])
    BY <1>3 DEF BeginAgain
  <2>2. outcomes \subseteq NextEntry(unread[h]) \cup {[cur |-> Garbage, left |-> unread[h]]}
    OBVIOUS
  <2> HIDE DEF h, outcomes
  <2> QED BY <1>2, <2>1, <2>2
<1>4. ASSUME NEW s \in Slots, Increment(s) PROVE Due'
  <2> DEFINE h == it[s].handle
  <2>1. h \in Handles /\ Reads(s, h, NextEntry(unread[h]), owed[h])
    BY <1>4 DEF Increment
  <2> HIDE DEF h
  <2> QED BY <1>2, <2>1
<1>5. ASSUME NEW s \in Slots, BeginFails(s) \/ Drop(s) \/ \E from \in Slots : Copy(from, s)
      PROVE  Due'
  <2>1. UNCHANGED <<unread, owed>>
    BY <1>5 DEF BeginFails, Drop, Copy, system
  <2>2. PICK i : /\ it' = [it EXCEPT ![s] = i]
                 /\ i.cur \notin Dots
                 /\ i.handle \in Handles => \E from \in Slots : i = it[from]
    <3>1. CASE BeginFails(s)
      <4> DEFINE i == [handle |-> Failed, cur |-> NoEntry]
      <4>1. it' = [it EXCEPT ![s] = i] /\ i.cur \notin Dots /\ i.handle \notin Handles
        BY <3>1, HandlesAssumption DEF BeginFails, NoEntry, Dots
      <4> HIDE DEF i
      <4> QED BY <4>1
    <3>2. CASE Drop(s)
      <4>1. /\ it' = [it EXCEPT ![s] = NoIterator]
            /\ NoIterator.cur \notin Dots /\ NoIterator.handle \notin Handles
        BY <3>2, HandlesAssumption DEF Drop, NoIterator, NoEntry, Dots
      <4> QED BY <4>1
    <3>3. ASSUME NEW from \in Slots, Copy(from, s)
          PROVE  \E i : /\ it' = [it EXCEPT ![s] = i]
                        /\ i.cur \notin Dots
                        /\ i.handle \in Handles => \E f \in Slots : i = it[f]
      <4>1. it' = [it EXCEPT ![s] = it[from]] /\ it[from].cur \notin Dots
        BY <3>3 DEF Copy, Due
      <4> QED BY <4>1
    <3> QED BY <1>5, <3>1, <3>2, <3>3
  <2>3. it'[s] = i /\ \A r \in Slots : r # s => it'[r] = it[r]
    BY <2>2 DEF Owned, TypeOK
  <2>4. \A r \in Slots : it'[r].cur \notin Dots
    BY <2>2, <2>3 DEF Due
  <2>5. ASSUME NEW r \in Slots, it'[r].handle \in Handles, it'[r].cur = NoEntry
        PROVE  owed[it'[r].handle] = {}
    BY <2>2, <2>3, <2>5 DEF Due, Finished
  <2>6. OwedUnread'
    BY <2>1 DEF Due, OwedUnread
  <2> QED BY <2>1, <2>4, <2>5, <2>6 DEF Due, Finished
<1>6. ASSUME NEW n \in EntryNames, AddEntry(n) \/ RemoveEntry(n) PROVE Due'
  <2>1. /\ it' = it
        /\ \A h \in Handles : owed'[h] \subseteq owed[h] /\ owed'[h] \subseteq unread'[h]
        /\ owed' \in [Handles -> SUBSET EntryNames]
    BY <1>6 DEF AddEntry, RemoveEntry, Due, OwedUnread
  <2> QED BY <2>1 DEF Due, OwedUnread, Finished
<1>7. CASE UNCHANGED <<it, unread, owed>>
  BY <1>7 DEF Due, OwedUnread, Finished
<1> QED BY <1>1, <1>3, <1>4, <1>5, <1>6, <1>7 DEF DirectoriesNext, Destroy, directoryVars, system

(* begin() and ++ pass no entry over, and show no dot, on unix and on      *)
(* windows, for any number of iterators, copies and addresses used again,  *)
(* whatever is added and removed: what was in the directory all the time   *)
(* since the handle was opened is still in what the handle has to give, or *)
(* has been shown.                                                         *)
THEOREM NothingPassedOver == DirectoriesSpec => []EntriesShown
<1>1. Owned /\ Due => EntriesShown
  BY DEF Due, EntriesShown, Shows, Dots
<1> QED BY <1>1, OwnedAlways, DueInit, DueStep, PTL DEF DirectoriesSpec
=============================================================================
