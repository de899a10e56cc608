------------------------------ MODULE BitReader ------------------------------
(***************************************************************************)
(* The bit reader of libFLAC (bitreader.c).  The client's callback hands   *)
(* out bytes in pieces of any size.  The buffer is kept as a flat sequence *)
(* of bits: complete words, then the bytes of an incomplete one.  The CRC  *)
(* is kept as the sequence of bits that went into it.                      *)
(***************************************************************************)
EXTENDS BitWords

CONSTANTS
    ReaderCapacity   \* FLAC__BITREADER_DEFAULT_CAPACITY, in words

ASSUME ReaderAssumption ==
    ReaderCapacity \in Nat \ {0, 1}

NewReader ==
    [data |-> <<>>, consumedWords |-> 0, consumedBits |-> 0,
     crc |-> <<>>, crcAlign |-> 0]

CompleteWords(br) == Len(br.data) \div BitsPerWord

TailBytes(br) == (Len(br.data) % BitsPerWord) \div BitsPerByte

Consumed(br) == br.consumedWords * BitsPerWord + br.consumedBits

Unconsumed(br) == Len(br.data) - Consumed(br)

ByteAligned(br) == br.consumedBits % BitsPerByte = 0

(* Bytes the callback is asked for, after the words that were used up have *)
(* been moved out of the way.                                              *)
Room(br) ==
    (ReaderCapacity - (CompleteWords(br) - br.consumedWords)) * BytesPerWord
        - TailBytes(br)

(* bitreader_read_from_client_, when the callback brings the bits new.     *)
Refill(br, new) ==
    [br EXCEPT
        !.data = SubSeq(@, br.consumedWords * BitsPerWord + 1, Len(@)) \o new,
        !.consumedWords = 0]

(* Faulty: what was left of the alignment counts for later words too.      *)
CrcWordsMisaligned(br, last) ==
    IF last = br.consumedWords THEN br
    ELSE [br EXCEPT
            !.crc = @ \o SubSeq(br.data,
                          br.consumedWords * BitsPerWord + br.crcAlign + 1,
                          last * BitsPerWord)]

(* crc16_update_word_ for the words from the current one up to last, which *)
(* is not included: of the first, what is behind crc16_align.              *)
CrcWords(br, last) ==
    IF last = br.consumedWords THEN br
    ELSE [br EXCEPT
            !.crc = @ \o SubSeq(br.data,
                          br.consumedWords * BitsPerWord + br.crcAlign + 1,
                          last * BitsPerWord),
            !.crcAlign = 0]

(* The reader at bit place of its buffer, every word passed in the CRC. *)
MovedTo(br, place) ==
    [CrcWords(br, place \div BitsPerWord) EXCEPT
        !.consumedWords = place \div BitsPerWord,
        !.consumedBits = place % BitsPerWord]

Peek(br, n) == SubSeq(br.data, Consumed(br) + 1, Consumed(br) + n)

(* read_raw_uint32 with enough bits there: the rest of a complete word and *)
(* then the next one, or a part of the incomplete word.                    *)
AfterRaw(br, n) ==
    IF br.consumedWords < CompleteWords(br)
    THEN MovedTo(br, Consumed(br) + n)
    ELSE [br EXCEPT !.consumedBits = @ + n]

(* reset_read_crc16 and get_read_crc16. *)
CrcReset(br) == [br EXCEPT !.crc = <<>>, !.crcAlign = br.consumedBits]

CrcRead(br) ==
    IF br.consumedBits = 0 \/ br.crcAlign >= br.consumedBits THEN br
    ELSE [br EXCEPT
            !.crc = @ \o SubSeq(br.data,
                          br.consumedWords * BitsPerWord + br.crcAlign + 1,
                          Consumed(br)),
            !.crcAlign = br.consumedBits]

(* Places of one bits in the buffer from bit from (0 is the first) on,     *)
(* before bit to.                                                          *)
StopBits(br, from, to) == {p \in from..(to - 1) : br.data[p + 1] = 1}

FirstOf(S) == CHOOSE p \in S : \A q \in S : p <= q

(* read_unary_unsigned up to where it has to ask the client, or to its     *)
(* end: the zeros it counted, whether the stop bit came, the reader.       *)
UnaryScan(br) ==
    LET stops == StopBits(br, Consumed(br), Len(br.data))
        p     == FirstOf(stops)
        whole == CompleteWords(br) * BitsPerWord
    IN  IF stops # {}
        THEN [zeros |-> p - Consumed(br), found |-> TRUE,
              br |-> MovedTo(br, p + 1)]
        ELSE [zeros |-> Unconsumed(br), found |-> FALSE,
              br |-> [MovedTo(br, IF Consumed(br) < whole THEN whole
                                  ELSE Consumed(br))
                        EXCEPT !.consumedBits = Len(br.data) % BitsPerWord]]
=============================================================================
