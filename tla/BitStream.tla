------------------------------ MODULE BitStream ------------------------------
(***************************************************************************)
(* What the bit writer of libFLAC writes, its bit reader reads: items are  *)
(* written, the buffer is taken, and the same kinds of items are read from *)
(* it, through a callback that hands out pieces of any size.  This is what *)
(* the encoder's verification does with every frame.                       *)
(***************************************************************************)
EXTENDS BitWriter, BitReader, FiniteSets

CONSTANTS
    RawItems,    \* bit sequences for write_raw_uint32 and its relatives
    UnaryItems,  \* numbers for write_unary_unsigned
    RiceBlocks,  \* sequences of residuals for write_rice_signed_block
    Parameters,  \* Rice parameters
    ByteBlocks,  \* sequences of bytes for write_byte_block
    MaxItems     \* bound: items in a stream

ASSUME ItemsAssumption ==
    /\ \A b \in RawItems : b \in Seq(Bit) /\ Len(b) \in 1..BitsPerWord
    /\ UnaryItems \subseteq Nat
    /\ \A b \in RiceBlocks : b \in Seq(Int) /\ b # <<>>
    /\ Parameters \subseteq 0..(BitsPerWord - 2)
    /\ \A b \in ByteBlocks : b \in Seq([1..BitsPerByte -> Bit]) /\ b # <<>>
    /\ MaxItems \in Nat

VARIABLES
    bw,       \* the writer
    items,    \* what was written
    phase,    \* "writing", "reading", "failed"
    stream,   \* the bytes that were taken from the writer, as bits
    fed,      \* how many of these bits the callback has handed out
    br,       \* the reader
    call,     \* the read call that is under way
    got,      \* what was read
    crcFrom   \* the place in the stream where the CRC was reset, -1 if not

vars == <<bw, items, phase, stream, fed, br, call, got, crcFrom>>

NoCall == [op |-> "none"]

Items == [op : {"raw"}, bits : RawItems]
         \cup [op : {"unary"}, n : UnaryItems]
         \cup [op : {"rice"}, vals : RiceBlocks, k : Parameters]
         \cup [op : {"block"}, bytes : ByteBlocks]

(* The bits of an item as the format defines them: the reference both      *)
(* sides are compared with.                                                *)
RiceCode(v, k) ==
    Append(Zeroes(Fold(v) \div 2^k), 1) \o Binary(Fold(v), k)

Joined(f, n) ==
    LET first[i \in 0..n] == IF i = 0 THEN <<>> ELSE first[i - 1] \o f[i]
    IN  first[n]

Code(it) ==
    CASE it.op = "raw" -> it.bits
      [] it.op = "unary" -> Append(Zeroes(it.n), 1)
      [] it.op = "rice" -> Joined([i \in DOMAIN it.vals |->
                                      RiceCode(it.vals[i], it.k)], Len(it.vals))
      [] it.op = "block" -> Joined(it.bytes, Len(it.bytes))

Codes(its) == Joined([i \in DOMAIN its |-> Code(its[i])], Len(its))

Init ==
    /\ bw = NewWriter
    /\ items = <<>>
    /\ phase = "writing"
    /\ stream = <<>> /\ fed = 0
    /\ br = NewReader
    /\ call = NoCall
    /\ got = <<>>
    /\ crcFrom = -1

-----------------------------------------------------------------------------
(* Writing.  Every function that fails makes its caller give up.           *)
Wrote(after, it) ==
    /\ bw' = after
    /\ items' = IF after.ok THEN Append(items, it) ELSE items
    /\ phase' = IF after.ok THEN "writing" ELSE "failed"
    /\ UNCHANGED <<stream, fed, br, call, got, crcFrom>>

MayWrite == phase = "writing" /\ Len(items) < MaxItems

WriteRawItem ==
    /\ MayWrite
    /\ \E b \in RawItems :
         Wrote(WriteRaw(bw, b), [op |-> "raw", bits |-> b])

WriteUnaryItem ==
    /\ MayWrite
    /\ \E n \in UnaryItems :
         Wrote(WriteUnary(bw, n), [op |-> "unary", n |-> n])

(* A loop over s that stops at the first failure. *)
ForAllOf(s, Op(_, _)) ==
    LET after[i \in 0..Len(s)] ==
            IF i = 0 THEN bw
            ELSE IF after[i - 1].ok THEN Op(after[i - 1], s[i])
            ELSE after[i - 1]
    IN  after[Len(s)]

WriteRiceBlock ==
    /\ MayWrite
    /\ \E vs \in RiceBlocks, k \in Parameters :
         Wrote(ForAllOf(vs, LAMBDA w, v : WriteRiceOfBlock(w, v, k)),
               [op |-> "rice", vals |-> vs, k |-> k])

WriteRiceSingly ==
    /\ MayWrite
    /\ \E vs \in RiceBlocks, k \in Parameters :
         Wrote(ForAllOf(vs, LAMBDA w, v : WriteRiceSigned(w, v, k)),
               [op |-> "rice", vals |-> vs, k |-> k])

(* write_byte_block: used in metadata, where everything before it is bytes. *)
WriteBlock ==
    /\ MayWrite
    /\ bw.bits % BitsPerByte = 0
    /\ \E b \in ByteBlocks :
         Wrote(ForAllOf(b, WriteRaw), [op |-> "block", bytes |-> b])

(* The frame is padded and its bytes are taken.  On their way to a reader  *)
(* some may be lost at the end: a file that was cut short.                 *)
TakeBuffer ==
    /\ phase = "writing"
    /\ LET padded == ZeroPad(bw)
           ready  == IF padded.ok THEN BufferReady(padded) ELSE padded
       IN  /\ bw' = ready
           /\ phase' = IF ready.ok THEN "reading" ELSE "failed"
           /\ \E n \in 0..(Len(BufferBits(ready)) \div BitsPerByte) :
                stream' = SubSeq(BufferBits(ready), 1, n * BitsPerByte)
    /\ UNCHANGED <<items, fed, br, call, got, crcFrom>>

-----------------------------------------------------------------------------
(* Reading.  A call is a record with its locals; it ends with the item.    *)
Returned(reader, it) ==
    /\ br' = reader
    /\ got' = Append(got, it)
    /\ call' = NoCall
    /\ UNCHANGED <<bw, items, phase, stream, fed, crcFrom>>

Continues(reader, c) ==
    /\ br' = reader
    /\ call' = c
    /\ UNCHANGED <<bw, items, phase, stream, fed, got, crcFrom>>

(* The entry of read_rice_signed_block: with parameter 0 every value is a  *)
(* unary number; else the place goes into registers: the word cw and how   *)
(* many of its bits are unconsumed.                                        *)
RiceEntry(vs, k) ==
    [op |-> "rice", k |-> k, todo |-> Len(vs), vals |-> <<>>,
     at |-> IF k = 0 \/ br.consumedWords >= CompleteWords(br)
            THEN "msbs" ELSE "fast",
     msbs |-> 0, lsbs |-> <<>>,
     cw |-> br.consumedWords, uc |-> BitsPerWord - br.consumedBits]

BeginRead ==
    /\ phase = "reading" /\ call = NoCall /\ Len(got) < Len(items)
    /\ LET it == items[Len(got) + 1] IN
         Continues(br,
           CASE it.op = "raw" -> [op |-> "raw", n |-> Len(it.bits)]
             [] it.op = "unary" -> [op |-> "unary", zeros |-> 0]
             [] it.op = "rice" -> RiceEntry(it.vals, it.k)
             [] it.op = "block" ->
                  [op |-> "block", todo |-> Len(it.bytes), bytes |-> <<>>])

ReadRaw ==
    /\ call.op = "raw"
    /\ Unconsumed(br) >= call.n
    /\ Returned(AfterRaw(br, call.n), [op |-> "raw", bits |-> Peek(br, call.n)])

ReadUnary ==
    /\ call.op = "unary"
    /\ Unconsumed(br) > 0
    /\ LET s == UnaryScan(br) IN
         IF s.found
         THEN Returned(s.br, [op |-> "unary", n |-> call.zeros + s.zeros])
         ELSE Continues(s.br, [call EXCEPT !.zeros = @ + s.zeros])

(* Faulty: the count of the value before is not set to zero.               *)
WithValueAdded(c, lsbs) ==
    [c EXCEPT !.vals = Append(@, Unfold(c.msbs * 2^c.k + Number(lsbs))),
              !.todo = @ - 1, !.lsbs = <<>>]

(* A value is complete: it is stored, and the loops decide where to go on. *)
(* In the fast part the reader's own fields are left behind; they are set  *)
(* when it is left.                                                        *)
WithValue(c, lsbs) ==
    [c EXCEPT !.vals = Append(@, Unfold(c.msbs * 2^c.k + Number(lsbs))),
              !.todo = @ - 1, !.msbs = 0, !.lsbs = <<>>]

(* Where the registers go back into the reader. *)
FlushRegisters(reader, c) ==
    LET used == c.uc = 0 /\ c.cw < CompleteWords(reader)
        left == [reader EXCEPT !.consumedWords = c.cw,
                               !.consumedBits = BitsPerWord - c.uc]
    IN  IF used THEN MovedTo(left, (c.cw + 1) * BitsPerWord) ELSE left

RiceOn(reader, c) ==
    IF c.todo = 0
    THEN Returned(IF c.at = "fast" THEN FlushRegisters(reader, c) ELSE reader,
                  [op |-> "rice", vals |-> c.vals, k |-> c.k])
    ELSE Continues(reader, c)

(* CRC of the words cw to last - 1, from the registers. *)
CrcFromRegisters(c, last) ==
    CrcWords([br EXCEPT !.consumedWords = c.cw], last)

(* One pass of the loop over complete words: the stop bit is looked for,   *)
(* the binary part may go over into the next word, and at the end of the   *)
(* words the rest is left to the other loop.                               *)
RiceFast ==
    /\ call.op = "rice" /\ call.at = "fast"
    /\ LET c     == call
           W     == BitsPerWord
           words == CompleteWords(br)
           head  == (c.cw + 1) * W - c.uc
           stops == StopBits(br, head, words * W)
           p     == FirstOf(stops)
           cw    == p \div W
           uc    == W - 1 - (p % W)
           lsbs  == SubSeq(br.data, p + 2, p + 1 + c.k)
           msbs  == p - head
           spent == [CrcFromRegisters(c, words) EXCEPT
                       !.consumedWords = words, !.consumedBits = 0]
       IN  \/ /\ stops = {}
              /\ Continues(spent, [c EXCEPT !.at = "msbs",
                                            !.msbs = words * W - head])
           \/ /\ stops # {} /\ c.k <= uc
              /\ RiceOn([CrcFromRegisters(c, cw) EXCEPT
                           !.consumedWords = br.consumedWords],
                        [WithValue([c EXCEPT !.msbs = msbs], lsbs) EXCEPT
                           !.cw = cw, !.uc = uc - c.k])
           \/ /\ stops # {} /\ c.k > uc /\ cw + 1 < words
              /\ RiceOn([CrcFromRegisters(c, cw + 1) EXCEPT
                           !.consumedWords = br.consumedWords],
                        [WithValue([c EXCEPT !.msbs = msbs], lsbs) EXCEPT
                           !.cw = cw + 1, !.uc = uc + W - c.k])
           \/ /\ stops # {} /\ c.k > uc /\ cw + 1 >= words
              /\ Continues(spent,
                   [c EXCEPT !.at = "lsbs", !.msbs = msbs,
                             !.lsbs = SubSeq(br.data, p + 2, p + 1 + uc)])

(* process_tail: the value is read, or ended, with the plain calls. *)
RiceMsbs ==
    /\ call.op = "rice" /\ call.at = "msbs"
    /\ Unconsumed(br) > 0
    /\ LET s == UnaryScan(br)
           c == [call EXCEPT !.msbs = @ + s.zeros]
       IN  IF ~s.found THEN Continues(s.br, c)
           ELSE IF call.k = 0 THEN RiceOn(s.br, WithValue(c, <<>>))
           ELSE Continues(s.br, [c EXCEPT !.at = "lsbs"])

RiceLsbs ==
    /\ call.op = "rice" /\ call.at = "lsbs"
    /\ LET n     == call.k - Len(call.lsbs)
           after == AfterRaw(br, n)
           fast  == after.consumedWords < CompleteWords(after)
       IN  /\ Unconsumed(br) >= n
           /\ RiceOn(after,
                [WithValue(call, call.lsbs \o Peek(br, n)) EXCEPT
                   !.at = IF fast THEN "fast" ELSE "msbs",
                   !.cw = after.consumedWords,
                   !.uc = BitsPerWord - after.consumedBits])

(* read_byte_block_aligned_no_crc: bytes up to a word, whole words that go *)
(* past the CRC, bytes that are left.                                      *)
BlockOn(reader, c) ==
    IF c.todo = 0 THEN Returned(reader, [op |-> "block", bytes |-> c.bytes])
    ELSE Continues(reader, c)

Bytes(bits) ==
    [i \in 1..(Len(bits) \div BitsPerByte) |->
        SubSeq(bits, (i - 1) * BitsPerByte + 1, i * BitsPerByte)]

BlockByByte(c) == br.consumedBits > 0 \/ c.todo < BytesPerWord

ReadBlockByte ==
    /\ call.op = "block"
    /\ BlockByByte(call)
    /\ Unconsumed(br) >= BitsPerByte
    /\ BlockOn(AfterRaw(br, BitsPerByte),
               [call EXCEPT !.todo = @ - 1,
                            !.bytes = @ \o Bytes(Peek(br, BitsPerByte))])

ReadBlockWord ==
    /\ call.op = "block"
    /\ ~BlockByByte(call)
    /\ br.consumedWords < CompleteWords(br)
    /\ BlockOn([br EXCEPT !.consumedWords = @ + 1],
               [call EXCEPT !.todo = @ - BytesPerWord,
                            !.bytes = @ \o Bytes(Peek(br, BitsPerWord))])

(* The call goes to the client: it has less than it needs. *)
NeedsClient ==
    \/ call.op = "raw" /\ Unconsumed(br) < call.n
    \/ call.op = "unary" /\ Unconsumed(br) = 0
    \/ call.op = "rice" /\ call.at = "msbs" /\ Unconsumed(br) = 0
    \/ call.op = "rice" /\ call.at = "lsbs"
         /\ Unconsumed(br) < call.k - Len(call.lsbs)
    \/ call.op = "block" /\ BlockByByte(call) /\ Unconsumed(br) < BitsPerByte
    \/ call.op = "block" /\ ~BlockByByte(call)
         /\ br.consumedWords >= CompleteWords(br)

Fetch ==
    /\ phase = "reading" /\ NeedsClient
    /\ Room(br) > 0
    /\ \E n \in 1..Least(Room(br), (Len(stream) - fed) \div BitsPerByte) :
         /\ br' = Refill(br, SubSeq(stream, fed + 1, fed + n * BitsPerByte))
         /\ fed' = fed + n * BitsPerByte
    /\ UNCHANGED <<bw, items, phase, stream, call, got, crcFrom>>

(* The buffer is full, or the client has nothing more. *)
FetchFails ==
    /\ phase = "reading" /\ NeedsClient
    /\ Room(br) = 0 \/ fed = Len(stream)
    /\ phase' = "failed"
    /\ UNCHANGED <<bw, items, stream, fed, br, call, got, crcFrom>>

ResetCrc ==
    /\ phase = "reading" /\ call = NoCall /\ ByteAligned(br) /\ crcFrom = -1
    /\ crcFrom' = Len(Codes(got))
    /\ br' = CrcReset(br)
    /\ UNCHANGED <<bw, items, phase, stream, fed, call, got>>

(* The CRC is asked for where the footer of a frame would be. *)
GetCrc ==
    /\ phase = "reading" /\ call = NoCall /\ ByteAligned(br) /\ crcFrom >= 0
    /\ br' = CrcRead(br)
    /\ UNCHANGED <<bw, items, phase, stream, fed, call, got, crcFrom>>

Writer == WriteRawItem \/ WriteUnaryItem \/ WriteRiceBlock \/ WriteRiceSingly
          \/ WriteBlock \/ TakeBuffer

Reader == BeginRead \/ ReadRaw \/ ReadUnary \/ RiceFast \/ RiceMsbs \/ RiceLsbs
          \/ ReadBlockByte \/ ReadBlockWord \/ Fetch \/ FetchFails

Next == Writer \/ Reader \/ ResetCrc \/ GetCrc

Spec == Init /\ [][Next]_vars

(* A read call that was begun goes on, and its client answers. *)
FairSpec == Spec /\ WF_vars(Reader)

-----------------------------------------------------------------------------
(* What is in the writer is what was written, bit by bit, whatever mixture *)
(* of paths it took, and room was made before it was stored: the fast      *)
(* paths, the stale high bits of accum and the pessimistic tests of        *)
(* bitwriter.c together.                                                   *)
WriterExact ==
    /\ RoomKept(bw)
    /\ bw.ok => SubSeq(BufferBits(bw), 1, Len(Codes(items))) = Codes(items)
    /\ phase = "writing" => Len(BufferBits(bw)) = Len(Codes(items))

(* What is read is what was written, however the client cuts it up.        *)
RoundTrip == got = SubSeq(items, 1, Len(got))

(* At a byte boundary the reader's CRC is over the bytes since the reset   *)
(* and no others: the words passed in the fast loop, the one that is       *)
(* partly consumed, the tail.  Byte blocks are read past the CRC.          *)
CrcCovers ==
    (/\ phase = "reading" /\ call = NoCall /\ crcFrom >= 0 /\ ByteAligned(br)
     /\ \A i \in DOMAIN got : got[i].op # "block")
       => CrcRead(br).crc = SubSeq(stream, crcFrom + 1, Len(Codes(got)))

(* The reader stays inside its buffer, leaves no head word without         *)
(* unconsumed bits, and outside the fast loop its fields are the place up  *)
(* to which it has read.                                                   *)
ReaderInside ==
    /\ Len(br.data) <= ReaderCapacity * BitsPerWord
    /\ br.consumedBits \in 0..(BitsPerWord - 1)
    /\ Consumed(br) <= Len(br.data)
    /\ br.data = SubSeq(stream, fed - Len(br.data) + 1, fed)
    /\ call = NoCall => fed - Unconsumed(br) = Len(Codes(got))

(* No item that is there completely is refused by the reader: its buffer   *)
(* is never too small for a read, and it does not ask for bytes beyond     *)
(* those it needs (bitreader.c: the buffer "should be at least twice as    *)
(* large as the largest number of words required").                        *)
ReadsWhatIsThere ==
    phase = "failed" /\ bw.ok =>
        Len(Codes(SubSeq(items, 1, Len(got) + 1))) > Len(stream)

(* Reading comes to its end, with all items or because bytes are missing.  *)
ReadingEnds == phase = "reading" ~> (got = items \/ phase = "failed")
=============================================================================
