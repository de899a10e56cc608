------------------------------ MODULE BitWords ------------------------------
(***************************************************************************)
(* Words of bits, as the bit writer and the bit reader of libFLAC keep     *)
(* them (bitwriter.c, bitreader.c).  A word is a sequence of bits, the     *)
(* most significant first; the byte order in memory                        *)
(* (SWAP_BE_WORD_TO_HOST) is left out.                                     *)
(***************************************************************************)
EXTENDS Integers, Sequences

CONSTANTS
    BitsPerByte,   \* 8 in the code
    BytesPerWord   \* FLAC__BYTES_PER_WORD, 4 in the code

ASSUME WordAssumption ==
    /\ BitsPerByte \in Nat \ {0, 1}
    /\ BytesPerWord \in Nat \ {0, 1}

BitsPerWord == BitsPerByte * BytesPerWord

(* What ^ means, for the powers of 2 that occur: the provers know nothing  *)
(* of it.                                                                  *)
ASSUME PowerAssumption ==
    /\ 2^0 = 1
    /\ \A n \in 1..BitsPerWord : 2^n = 2 * 2^(n - 1)

Bit == {0, 1}

Word == [1..BitsPerWord -> Bit]

Zeroes(n) == [i \in 1..n |-> 0]

ShiftLeft(w, n) == SubSeq(w, n + 1, BitsPerWord) \o Zeroes(n)

ShiftRight(w, n) == Zeroes(n) \o SubSeq(w, 1, BitsPerWord - n)

BitOr(w, v) == [i \in 1..BitsPerWord |-> IF w[i] = 1 THEN 1 ELSE v[i]]

(* The variable that holds the number with the bits val. *)
Extended(val) == Zeroes(BitsPerWord - Len(val)) \o val

(* The n low bits of the number v. *)
Binary(v, n) == [i \in 1..n |-> (v \div 2^(n - i)) % 2]

(* The fold of signed to unsigned: (val<<1) ^ (val>>31). *)
Fold(v) == IF v < 0 THEN -2 * v - 1 ELSE 2 * v

(* The fold undone: (x >> 1) ^ -(x & 1). *)
Unfold(u) == IF u % 2 = 1 THEN -(u \div 2) - 1 ELSE u \div 2

Number(bits) ==
    LET value[i \in 0..Len(bits)] ==
            IF i = 0 THEN 0 ELSE 2 * value[i - 1] + bits[i]
    IN  value[Len(bits)]

Least(a, b) == IF a < b THEN a ELSE b
=============================================================================
