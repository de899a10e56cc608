----------------------------- MODULE FrameHeader -----------------------------
(***************************************************************************)
(* The header of a frame, byte by byte: FLAC__frame_add_header             *)
(* (stream_encoder_framing.c) writes it, read_frame_header_                *)
(* (stream_decoder.c) reads it.  Common block sizes, sample rates and      *)
(* sample sizes have codes, others follow at the end; the number of the    *)
(* frame is in a code like UTF-8; a CRC ends it.                           *)
(***************************************************************************)
EXTENDS Integers, Sequences, Bitwise, TLC

(* A header: block size, sample rate, channel assignment ("independent",   *)
(* "left", "right" or "mid"), channels, bits per sample, its number, and   *)
(* whether this is the number of its first sample or of the frame.         *)

Low(v) == v % 256
High(v) == v \div 256

-----------------------------------------------------------------------------
(* The codes.  Zero means: see STREAMINFO; the hints: it follows.          *)
BlocksizeCode(n) ==
    CASE n = 192 -> 1
      [] n \in {576 * 2^i : i \in 0..3} ->
             2 + (CHOOSE i \in 0..3 : n = 576 * 2^i)
      [] n \in {256 * 2^i : i \in 0..7} ->
             8 + (CHOOSE i \in 0..7 : n = 256 * 2^i)
      [] OTHER -> IF n <= 256 THEN 6 ELSE 7

Rates == <<88200, 176400, 192000, 8000, 16000, 22050, 24000, 32000, 44100,
           48000, 96000>>

(* Faulty: a rate that does not fit in hertz is taken for tens of them.    *)
RateCodeOfTens(r) ==
    CASE \E i \in 1..11 : Rates[i] = r -> CHOOSE i \in 1..11 : Rates[i] = r
      [] OTHER -> IF r <= 255000 /\ r % 1000 = 0 THEN 12
                  ELSE IF r <= 65535 THEN 13 ELSE 14

RateCode(r) ==
    CASE \E i \in 1..11 : Rates[i] = r -> CHOOSE i \in 1..11 : Rates[i] = r
      [] OTHER -> IF r <= 255000 /\ r % 1000 = 0 THEN 12
                  ELSE IF r % 10 = 0 THEN 14
                  ELSE IF r <= 65535 THEN 13
                  ELSE 0

Assignments == <<"left", "right", "mid">>

ChannelCode(h) ==
    IF h.assignment = "independent" THEN h.channels - 1
    ELSE 7 + (CHOOSE i \in 1..3 : Assignments[i] = h.assignment)

SampleSizes == (8 :> 1) @@ (12 :> 2) @@ (16 :> 4) @@ (20 :> 5) @@ (24 :> 6)

SampleSizeCode(bps) == IF bps \in DOMAIN SampleSizes THEN SampleSizes[bps] ELSE 0

(* FLAC__bitwriter_write_utf8_uint32: n bytes follow the first.  So does   *)
(* _uint64 up to 31 bits; it has one more length for numbers up to 36 bits. *)
Following(v) ==
    IF v < 128 THEN 0
    ELSE CHOOSE n \in 1..5 : /\ n = 5 \/ v < 2^(5 * n + 6)
                             /\ \A m \in 1..(n - 1) : v >= 2^(5 * m + 6)

LeadMark(n) == 256 - 2^(7 - n)

Utf8(v) ==
    LET n == Following(v)
    IN  IF n = 0 THEN <<v>>
        ELSE <<LeadMark(n) + (v \div 2^(6 * n))>>
             \o [i \in 1..n |-> 128 + ((v \div 2^(6 * (n - i))) % 64)]

(* FLAC__crc8: the polynomial x^8 + x^2 + x + 1.                           *)
Crc8(bytes) ==
    LET shift[i \in 0..8, c \in 0..255] ==
            IF i = 0 THEN c
            ELSE shift[i - 1, IF c >= 128 THEN (2 * c - 256) ^^ 7 ELSE 2 * c]
        crc[i \in 0..Len(bytes)] ==
            IF i = 0 THEN 0 ELSE shift[8, crc[i - 1] ^^ bytes[i]]
    IN  crc[Len(bytes)]

HeaderBytes(h) ==
    LET size == BlocksizeCode(h.blocksize)
        rate == RateCode(h.rate)
        start == <<255, 248 + (IF h.variable THEN 1 ELSE 0), 16 * size + rate,
                   16 * ChannelCode(h) + 2 * SampleSizeCode(h.bps)>>
        sized == CASE size = 6 -> <<h.blocksize - 1>>
                   [] size = 7 -> <<High(h.blocksize - 1), Low(h.blocksize - 1)>>
                   [] OTHER -> <<>>
        rated == CASE rate = 12 -> <<h.rate \div 1000>>
                   [] rate = 13 -> <<High(h.rate), Low(h.rate)>>
                   [] rate = 14 -> <<High(h.rate \div 10), Low(h.rate \div 10)>>
                   [] OTHER -> <<>>
        all == start \o Utf8(h.number) \o sized \o rated
    IN  Append(all, Crc8(all))

-----------------------------------------------------------------------------
(* Reading.  The reader's tests of the first byte of the number look at    *)
(* more than the comments beside them say: a byte 10xxxxxx passes too.     *)
LeadFollowing(x, most) ==
    IF x < 128 THEN 0
    ELSE LET fit == {n \in 1..most : (x \div 2^(6 - n)) % 2 = 0}
         IN  IF fit = {} THEN -1 ELSE CHOOSE n \in fit : \A m \in fit : n <= m

(* FLAC__bitreader_read_utf8_uint32 and _uint64, from place p on: the      *)
(* value, -1 if the code is invalid, and the bytes it took.  The value of  *)
(* a code of six following bytes has no bits of the first.                 *)
ReadUtf8(b, p, most) ==
    LET n == LeadFollowing(b[p], most)
        good(i) == b[p + i] \in 128..191
        value[i \in 0..6] ==
            IF i = 0 THEN IF n = 0 THEN b[p] ELSE b[p] % 2^(6 - n)
            ELSE 64 * value[i - 1] + (b[p + i] % 64)
        bad == {i \in 1..n : p + i \in DOMAIN b /\ ~good(i)}
    IN  CASE n = -1 -> [value |-> -1, len |-> 1]
          [] n >= 0 /\ bad # {} ->
                 [value |-> -1, len |-> 1 + (CHOOSE i \in bad : \A j \in bad : i <= j)]
          [] n >= 0 /\ bad = {} /\ p + n > Len(b) -> [value |-> 0, len |-> n + 1]
          [] OTHER -> [value |-> value[n], len |-> n + 1]

CodedBlocksize(code) ==
    CASE code = 1 -> 192
      [] code \in 2..5 -> 576 * 2^(code - 2)
      [] code \in 8..15 -> 256 * 2^(code - 8)

Outcome(result, taken) == [result |-> result, taken |-> taken]

(* read_frame_header_ on the bytes b, of which the first two are the sync  *)
(* code that was found; info is STREAMINFO.  The result is "bad" as soon   *)
(* as the sync cannot have been one, and "short" when bytes are missing.   *)
ReadHeader(b, info) ==
    LET size == b[3] \div 16
        rate == b[3] % 16
        channel == b[4] \div 16
        sample == (b[4] % 16) \div 2
        variable == b[2] % 2 = 1 \/ info.minBlocksize # info.maxBlocksize
        number == ReadUtf8(b, 5, IF variable THEN 6 ELSE 5)
        p == 5 + number.len
        sizeLen == CASE size = 6 -> 1 [] size = 7 -> 2 [] OTHER -> 0
        rateLen == CASE rate = 12 -> 1 [] rate \in {13, 14} -> 2 [] OTHER -> 0
        field(at, n) == IF n = 1 THEN b[at] ELSE 256 * b[at] + b[at + 1]
        end == p + sizeLen + rateLen
        unparseable == \/ (b[2] \div 2) % 2 = 1 \/ size = 0
                       \/ channel \in 11..15 \/ sample \in {3, 7} \/ b[4] % 2 = 1
        given == field(p + sizeLen, rateLen)
        header ==
            [blocksize |-> IF sizeLen > 0 THEN field(p, sizeLen) + 1
                           ELSE CodedBlocksize(size),
             rate |-> CASE rate = 0 -> info.rate [] rate \in 1..11 -> Rates[rate]
                        [] rate = 12 -> 1000 * given [] rate = 13 -> given
                        [] rate = 14 -> 10 * given,
             channels |-> IF channel < 8 THEN channel + 1 ELSE 2,
             assignment |-> IF channel < 8 THEN "independent"
                            ELSE Assignments[channel - 7],
             bps |-> IF sample = 0 THEN info.bps
                     ELSE CHOOSE n \in DOMAIN SampleSizes : SampleSizes[n] = sample,
             variable |-> variable, number |-> number.value]
    IN  CASE Len(b) < 3 -> Outcome("short", Len(b))
          [] Len(b) >= 3 /\ b[3] = 255 -> Outcome("bad", 3)
          [] Len(b) = 3 /\ b[3] # 255 -> Outcome("short", 3)
          [] Len(b) > 3 /\ b[3] # 255 /\ b[4] = 255 -> Outcome("bad", 4)
          [] OTHER ->
             CASE rate = 15 -> Outcome("bad", 4)
               [] rate # 15 /\ Len(b) = 4 -> Outcome("short", 4)
               [] OTHER ->
                  CASE number.value = -1 -> Outcome("bad", 4 + number.len)
                    [] number.value # -1 /\ end > Len(b) -> Outcome("short", Len(b))
                    [] OTHER ->
                       CASE Crc8(SubSeq(b, 1, end - 1)) # b[end] -> Outcome("bad", end)
                         [] OTHER ->
                            IF unparseable THEN Outcome("unparseable", end)
                            ELSE [result |-> "ok", taken |-> end, header |-> header]
=============================================================================
