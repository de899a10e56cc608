------------------------------ MODULE BitWriter ------------------------------
(***************************************************************************)
(* The bit writer of libFLAC (bitwriter.c): a buffer of complete words, an *)
(* accumulator for the bits of the next one, and a capacity that grows     *)
(* before anything is written.  An operator stands for a function of the   *)
(* C interface: it takes the writer and returns the writer afterwards; the *)
(* field ok is the value the function returned.                            *)
(***************************************************************************)
EXTENDS BitWords

CONSTANTS
    DefaultCapacity,  \* FLAC__BITWRITER_DEFAULT_CAPACITY, in words
    Increment,        \* FLAC__BITWRITER_DEFAULT_INCREMENT, in words
    Memory            \* bound: realloc fails for more words than this

ASSUME WriterAssumption ==
    /\ DefaultCapacity \in Nat \ {0}
    /\ Increment \in Nat \ {0}
    /\ Memory \in Nat

NewWriter ==
    [buffer |-> <<>>, accum |-> Zeroes(BitsPerWord), bits |-> 0,
     capacity |-> DefaultCapacity, ok |-> TRUE]

Words(bw) == Len(bw.buffer)

(* Words needed when n more bits are there, and that rounded up to a       *)
(* multiple of the increment.                                              *)
WordsNeeded(bw, n) ==
    Words(bw) + (bw.bits + n + BitsPerWord - 1) \div BitsPerWord

RoundedUp(bw, need) ==
    LET odd == (need - bw.capacity) % Increment
    IN  IF odd = 0 THEN need ELSE need + Increment - odd

Grow(bw, n) ==
    LET need == WordsNeeded(bw, n)
    IN  IF bw.capacity >= need THEN bw
        ELSE IF RoundedUp(bw, need) > Memory THEN [bw EXCEPT !.ok = FALSE]
        ELSE [bw EXCEPT !.capacity = RoundedUp(bw, need)]

(* The pessimistic test every writing function starts with. *)
Ensure(bw, slack, n) ==
    IF bw.capacity <= Words(bw) + slack THEN Grow(bw, n) ELSE bw

(* The accumulator, when it is full, becomes a word of the buffer. *)
Flushed(bw) ==
    IF bw.bits = BitsPerWord
    THEN [bw EXCEPT !.buffer = Append(@, bw.accum), !.bits = 0]
    ELSE bw

(* n zero bits, where there is room for them: up to the end of the word,   *)
(* whole words, leftovers.                                                 *)
PutZeroes(bw, n) ==
    LET lead    == IF bw.bits = 0 THEN 0 ELSE Least(BitsPerWord - bw.bits, n)
        aligned == Flushed([bw EXCEPT !.accum = ShiftLeft(@, lead),
                                      !.bits = @ + lead])
        rest    == n - lead
        left    == rest % BitsPerWord
    IN  IF aligned.bits > 0 THEN aligned
        ELSE [aligned EXCEPT
                !.buffer = @ \o [i \in 1..(rest \div BitsPerWord)
                                    |-> Zeroes(BitsPerWord)],
                !.accum = IF left > 0 THEN Zeroes(BitsPerWord) ELSE @,
                !.bits = left]

(* The bits val, where there is room for them.  The high bits that were    *)
(* already stored stay in the accumulator until they are shifted out.      *)
PutBits(bw, val) ==
    LET left == BitsPerWord - bw.bits
    IN  IF Len(val) < left
        THEN [bw EXCEPT !.accum = BitOr(ShiftLeft(@, Len(val)), Extended(val)),
                        !.bits = @ + Len(val)]
        ELSE IF bw.bits > 0
        THEN LET over == Len(val) - left
             IN  [bw EXCEPT
                    !.buffer = Append(@, BitOr(ShiftLeft(bw.accum, left),
                                           ShiftRight(Extended(val), over))),
                    !.accum = Extended(val),
                    !.bits = over]
        ELSE [bw EXCEPT !.buffer = Append(@, Extended(val)),
                        !.accum = Extended(val)]

WriteZeroes(bw, n) ==
    IF n = 0 THEN bw
    ELSE LET g == Ensure(bw, n, n) IN IF g.ok THEN PutZeroes(g, n) ELSE g

WriteRaw(bw, val) ==
    IF val = <<>> THEN bw
    ELSE LET g == Ensure(bw, Len(val), Len(val))
         IN  IF g.ok THEN PutBits(g, val) ELSE g

(* write_zeroes(...) && write_raw(...) *)
ZeroesThenRaw(bw, n, val) ==
    LET z == WriteZeroes(bw, n) IN IF z.ok THEN WriteRaw(z, val) ELSE z

WriteUnary(bw, n) ==
    IF n < BitsPerWord THEN WriteRaw(bw, Append(Zeroes(n), 1))
    ELSE ZeroesThenRaw(bw, n, <<1>>)

(* Stop bit and binary part of a Rice code. *)
Pattern(u, k) == <<1>> \o Binary(u, k)

WriteRiceSigned(bw, v, k) ==
    LET u    == Fold(v)
        msbs == u \div 2^k
    IN  IF 1 + k + msbs <= BitsPerWord
        THEN WriteRaw(bw, Zeroes(msbs) \o Pattern(u, k))
        ELSE ZeroesThenRaw(bw, msbs, Pattern(u, k))

(* Faulty: room is made for what comes after the bits of accum only.       *)
WriteRiceWithoutRoom(bw, v, k) ==
    LET u    == Fold(v)
        msbs == u \div 2^k
        fits == bw.bits > 0 /\ bw.bits + msbs + 1 + k <= BitsPerWord
        g    == Ensure(bw, bw.bits + msbs + 1, msbs + 1 + k)
    IN  IF fits
        THEN [bw EXCEPT !.accum = BitOr(ShiftLeft(@, msbs + 1 + k),
                                        Extended(Pattern(u, k))),
                        !.bits = @ + msbs + 1 + k]
        ELSE IF ~g.ok THEN g
        ELSE PutBits(IF msbs = 0 THEN g ELSE PutZeroes(g, msbs), Pattern(u, k))

(* One pass of the loop of write_rice_signed_block: its own test for room, *)
(* and a fast path when all fits into a word that was begun.               *)
WriteRiceOfBlock(bw, v, k) ==
    LET u    == Fold(v)
        msbs == u \div 2^k
        fits == bw.bits > 0 /\ bw.bits + msbs + 1 + k < BitsPerWord
        g    == Ensure(bw, bw.bits + msbs + 1, msbs + 1 + k)
    IN  IF fits
        THEN [bw EXCEPT !.accum = BitOr(ShiftLeft(@, msbs + 1 + k),
                                        Extended(Pattern(u, k))),
                        !.bits = @ + msbs + 1 + k]
        ELSE IF ~g.ok THEN g
        ELSE PutBits(IF msbs = 0 THEN g ELSE PutZeroes(g, msbs), Pattern(u, k))

ZeroPad(bw) ==
    IF bw.bits % BitsPerByte = 0 THEN bw
    ELSE WriteZeroes(bw, BitsPerByte - (bw.bits % BitsPerByte))

(* get_buffer: the accumulator is put behind the words, left-justified.    *)
(* The functions that take a CRC or hand the bytes out go through it.      *)
BufferReady(bw) ==
    IF bw.bits > 0 /\ Words(bw) = bw.capacity THEN Grow(bw, BitsPerWord) ELSE bw

FlatWords(ws) ==
    [i \in 1..(Len(ws) * BitsPerWord) |->
        ws[(i - 1) \div BitsPerWord + 1][((i - 1) % BitsPerWord) + 1]]

BufferBits(bw) ==
    FlatWords(bw.buffer)
    \o SubSeq(ShiftLeft(bw.accum, BitsPerWord - bw.bits), 1, bw.bits)

-----------------------------------------------------------------------------
(* No word was stored beyond the buffer, and whenever the accumulator      *)
(* holds something there is a word to put it in: get_buffer and the fast   *)
(* path of the Rice block store or go on without any test.                 *)
RoomKept(bw) ==
    /\ Words(bw) <= bw.capacity
    /\ bw.bits < BitsPerWord
    /\ bw.bits > 0 => Words(bw) < bw.capacity
=============================================================================
