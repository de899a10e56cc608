--------------------------- MODULE BitStreamProofs ---------------------------
(***************************************************************************)
(* The bit writer stores what it is given, bit by bit, and never beyond    *)
(* its buffer, and the bit reader reads it back, with a CRC over all of    *)
(* it: for words of any width, items of any size, every capacity,          *)
(* increment and limit of memory, and refills at any place.                *)
(***************************************************************************)
EXTENDS BitStream, SequenceTheorems, WellFoundedInduction, TLAPS

Bits == Seq(Bit)

LEMMA WordWidth == BitsPerWord \in Nat /\ BitsPerWord >= 4
BY WordAssumption DEF BitsPerWord

-----------------------------------------------------------------------------
(* Numbers: the least one of a set, and a number by its quotient and rest. *)
LEMMA LeastNumber ==
    ASSUME NEW T, T \subseteq Nat, T # {}
    PROVE  \E m \in T : \A n \in T : m <= n
<1>1. PICK m \in T : \A n \in T : <<n, m>> \notin OpToRel(<, Nat)
  BY NatLessThanWellFounded, WFMin
<1>2. ASSUME NEW n \in T, n < m PROVE FALSE
  BY <1>1, <1>2 DEF OpToRel
<1>3. \A n \in T : m <= n
  BY <1>2
<1> QED
  BY <1>3

LEMMA QuotientRest ==
    ASSUME NEW w \in Nat \ {0}, NEW x \in Nat
    PROVE  /\ x \div w \in Nat /\ x % w \in 0..(w - 1)
           /\ x = (x \div w) * w + (x % w)
<1>1. x % w \in 0..(w - 1)
  OBVIOUS
<1>2. x \div w \in Int
  OBVIOUS
<1>3. x = (x \div w) * w + (x % w)
  OBVIOUS
<1>4. x \div w >= 0
  OBVIOUS
<1> QED
  BY <1>1, <1>2, <1>3, <1>4

LEMMA QuotientOf ==
    ASSUME NEW w \in Nat \ {0}, NEW q \in Nat, NEW r \in 0..(w - 1)
    PROVE  (q * w + r) \div w = q /\ (q * w + r) % w = r
OBVIOUS

LEMMA QuotientBelow ==
    ASSUME NEW w \in Nat \ {0}, NEW q \in Nat, NEW x \in Nat, x < q * w
    PROVE  x \div w < q
OBVIOUS

LEMMA QuotientFrom ==
    ASSUME NEW w \in Nat \ {0}, NEW q \in Nat, NEW x \in Nat, x >= q * w
    PROVE  x \div w >= q
OBVIOUS

-----------------------------------------------------------------------------
(* Words, bit by bit.                                                      *)
LEMMA Joining ==
    ASSUME NEW s \in Bits, NEW t \in Bits
    PROVE  /\ s \o t \in Bits /\ Len(s) \in Nat /\ Len(t) \in Nat
           /\ Len(s \o t) = Len(s) + Len(t)
           /\ \A i \in 1..Len(s) : (s \o t)[i] = s[i]
           /\ \A i \in 1..Len(t) : (s \o t)[Len(s) + i] = t[i]
<1>1. /\ s \o t \in Bits /\ Len(s) \in Nat /\ Len(t) \in Nat
      /\ Len(s \o t) = Len(s) + Len(t)
      /\ \A i \in 1..(Len(s) + Len(t)) :
            (s \o t)[i] = IF i <= Len(s) THEN s[i] ELSE t[i - Len(s)]
  BY ConcatProperties DEF Bits
<1>2. ASSUME NEW i \in 1..Len(t) PROVE (s \o t)[Len(s) + i] = t[i]
  <2>1. Len(s) + i \in 1..(Len(s) + Len(t)) /\ ~(Len(s) + i <= Len(s)) /\ (Len(s) + i) - Len(s) = i
    BY <1>1
  <2> QED
    BY <1>1, <2>1
<1>3. ASSUME NEW i \in 1..Len(s) PROVE (s \o t)[i] = s[i]
  BY <1>1
<1> QED
  BY <1>1, <1>2, <1>3

LEMMA WordIsSeq ==
    ASSUME NEW w \in Word
    PROVE  w \in Bits /\ Len(w) = BitsPerWord /\ \A i \in 1..BitsPerWord : w[i] \in Bit
BY WordWidth DEF Word, Bits

LEMMA ZeroesAre ==
    ASSUME NEW n \in Nat
    PROVE  /\ Zeroes(n) \in Bits /\ Len(Zeroes(n)) = n
           /\ \A i \in 1..n : Zeroes(n)[i] = 0
BY DEF Zeroes, Bits, Bit

LEMMA SeqIsWord ==
    ASSUME NEW w \in Bits, Len(w) = BitsPerWord
    PROVE  w \in Word
BY WordWidth DEF Word, Bits

LEMMA ShiftLeftIs ==
    ASSUME NEW w \in Word, NEW n \in 0..BitsPerWord
    PROVE  /\ ShiftLeft(w, n) \in Word
           /\ \A i \in 1..BitsPerWord :
                 ShiftLeft(w, n)[i] = IF i + n <= BitsPerWord THEN w[i + n] ELSE 0
<1> DEFINE kept == SubSeq(w, n + 1, BitsPerWord)
<1>1. /\ n \in Nat /\ BitsPerWord \in Nat /\ w \in Bits
      /\ \A i \in 1..BitsPerWord : w[i] \in Bit
  BY WordWidth, WordIsSeq
<1>2. /\ kept \in Bits /\ Len(kept) = BitsPerWord - n
      /\ \A i \in 1..(BitsPerWord - n) : kept[i] = w[n + i]
  BY <1>1, SubSeqProperties DEF Bits
<1>3. /\ Zeroes(n) \in Bits /\ Len(Zeroes(n)) = n
      /\ \A i \in 1..n : Zeroes(n)[i] = 0
  BY <1>1, ZeroesAre
<1>4. ShiftLeft(w, n) = kept \o Zeroes(n)
  BY DEF ShiftLeft
<1> HIDE DEF kept
<1>5. /\ ShiftLeft(w, n) \in Bits /\ Len(ShiftLeft(w, n)) = BitsPerWord
      /\ \A i \in 1..(BitsPerWord - n) : ShiftLeft(w, n)[i] = kept[i]
      /\ \A i \in 1..n : ShiftLeft(w, n)[BitsPerWord - n + i] = Zeroes(n)[i]
  <2> DEFINE z == Zeroes(n)
  <2> HIDE DEF z
  <2>0. /\ kept \o z \in Bits /\ Len(kept \o z) = Len(kept) + Len(z)
        /\ \A i \in 1..Len(kept) : (kept \o z)[i] = kept[i]
        /\ \A i \in 1..Len(z) : (kept \o z)[Len(kept) + i] = z[i]
    BY <1>2, <1>3, Joining DEF z
  <2>1. /\ kept \o Zeroes(n) \in Bits
        /\ Len(kept \o Zeroes(n)) = (BitsPerWord - n) + n
        /\ \A i \in 1..(BitsPerWord - n) : (kept \o Zeroes(n))[i] = kept[i]
        /\ \A i \in 1..n : (kept \o Zeroes(n))[(BitsPerWord - n) + i] = Zeroes(n)[i]
    BY <1>2, <1>3, <2>0 DEF z
  <2>2. (BitsPerWord - n) + n = BitsPerWord
    BY <1>1
  <2> QED
    BY <1>4, <2>1, <2>2
<1>6. ShiftLeft(w, n) \in Word
  BY <1>5, SeqIsWord
<1>7. ASSUME NEW i \in 1..BitsPerWord
      PROVE  ShiftLeft(w, n)[i] = IF i + n <= BitsPerWord THEN w[i + n] ELSE 0
  <2>1. CASE i + n <= BitsPerWord
    BY <1>1, <1>2, <1>5, <2>1
  <2>2. CASE ~(i + n <= BitsPerWord)
    <3>1. /\ i - (BitsPerWord - n) \in 1..n
          /\ (BitsPerWord - n) + (i - (BitsPerWord - n)) = i
      BY <1>1, <2>2
    <3> QED
      BY <1>3, <1>5, <2>2, <3>1
  <2> QED
    BY <2>1, <2>2
<1> QED
  BY <1>6, <1>7

LEMMA ShiftRightIs ==
    ASSUME NEW w \in Word, NEW n \in 0..BitsPerWord
    PROVE  /\ ShiftRight(w, n) \in Word
           /\ \A i \in 1..BitsPerWord :
                 ShiftRight(w, n)[i] = IF i <= n THEN 0 ELSE w[i - n]
<1> DEFINE kept == SubSeq(w, 1, BitsPerWord - n)
<1>1. /\ n \in Nat /\ BitsPerWord \in Nat /\ w \in Bits
      /\ \A i \in 1..BitsPerWord : w[i] \in Bit
  BY WordWidth, WordIsSeq
<1>2. /\ kept \in Bits /\ Len(kept) = BitsPerWord - n
      /\ \A i \in 1..(BitsPerWord - n) : kept[i] = w[i]
  BY <1>1, SubSeqProperties DEF Bits
<1>3. /\ Zeroes(n) \in Bits /\ Len(Zeroes(n)) = n
      /\ \A i \in 1..n : Zeroes(n)[i] = 0
  BY <1>1, ZeroesAre
<1>4. ShiftRight(w, n) = Zeroes(n) \o kept
  BY DEF ShiftRight
<1> HIDE DEF kept
<1>5. /\ ShiftRight(w, n) \in Bits /\ Len(ShiftRight(w, n)) = BitsPerWord
      /\ \A i \in 1..n : ShiftRight(w, n)[i] = Zeroes(n)[i]
      /\ \A i \in 1..(BitsPerWord - n) : ShiftRight(w, n)[n + i] = kept[i]
  <2> DEFINE z == Zeroes(n)
  <2> HIDE DEF z
  <2>0. /\ z \o kept \in Bits /\ Len(z \o kept) = Len(z) + Len(kept)
        /\ \A i \in 1..Len(z) : (z \o kept)[i] = z[i]
        /\ \A i \in 1..Len(kept) : (z \o kept)[Len(z) + i] = kept[i]
    BY <1>2, <1>3, Joining DEF z
  <2>1. /\ Zeroes(n) \o kept \in Bits
        /\ Len(Zeroes(n) \o kept) = n + (BitsPerWord - n)
        /\ \A i \in 1..n : (Zeroes(n) \o kept)[i] = Zeroes(n)[i]
        /\ \A i \in 1..(BitsPerWord - n) : (Zeroes(n) \o kept)[n + i] = kept[i]
    BY <1>2, <1>3, <2>0 DEF z
  <2>2. n + (BitsPerWord - n) = BitsPerWord
    BY <1>1
  <2> QED
    BY <1>4, <2>1, <2>2
<1>6. ShiftRight(w, n) \in Word
  BY <1>5, SeqIsWord
<1>7. ASSUME NEW i \in 1..BitsPerWord
      PROVE  ShiftRight(w, n)[i] = IF i <= n THEN 0 ELSE w[i - n]
  <2>1. CASE i <= n
    BY <1>1, <1>3, <1>5, <2>1
  <2>2. CASE ~(i <= n)
    <3>1. i - n \in 1..(BitsPerWord - n) /\ n + (i - n) = i
      BY <1>1, <2>2
    <3> QED
      BY <1>2, <1>5, <2>2, <3>1
  <2> QED
    BY <2>1, <2>2
<1> QED
  BY <1>6, <1>7

LEMMA ExtendedIs ==
    ASSUME NEW val \in Bits, Len(val) <= BitsPerWord
    PROVE  /\ Extended(val) \in Word
           /\ \A i \in 1..BitsPerWord :
                 Extended(val)[i] = IF i <= BitsPerWord - Len(val) THEN 0
                                    ELSE val[i - (BitsPerWord - Len(val))]
<1> DEFINE n == BitsPerWord - Len(val)
<1>1. n \in Nat /\ BitsPerWord \in Nat /\ Len(val) \in Nat
  BY WordWidth DEF Bits
<1>2. /\ Zeroes(n) \in Bits /\ Len(Zeroes(n)) = n
      /\ \A i \in 1..n : Zeroes(n)[i] = 0
  BY <1>1, ZeroesAre
<1>3. Extended(val) = Zeroes(n) \o val
  BY DEF Extended
<1> HIDE DEF n
<1>4. /\ Extended(val) \in Bits /\ Len(Extended(val)) = n + Len(val)
      /\ \A i \in 1..n : Extended(val)[i] = Zeroes(n)[i]
      /\ \A i \in 1..Len(val) : Extended(val)[n + i] = val[i]
  <2> DEFINE z == Zeroes(n)
  <2> HIDE DEF z
  <2>0. /\ z \o val \in Bits /\ Len(z \o val) = Len(z) + Len(val)
        /\ \A i \in 1..Len(z) : (z \o val)[i] = z[i]
        /\ \A i \in 1..Len(val) : (z \o val)[Len(z) + i] = val[i]
    BY <1>2, Joining DEF z
  <2>1. /\ Zeroes(n) \o val \in Bits /\ Len(Zeroes(n) \o val) = n + Len(val)
        /\ \A i \in 1..n : (Zeroes(n) \o val)[i] = Zeroes(n)[i]
        /\ \A i \in 1..Len(val) : (Zeroes(n) \o val)[n + i] = val[i]
    BY <1>2, <2>0 DEF z
  <2> QED
    BY <1>3, <2>1
<1>5. n + Len(val) = BitsPerWord
  BY <1>1 DEF n
<1>6. Extended(val) \in Word
  BY <1>4, <1>5, SeqIsWord
<1>7. ASSUME NEW i \in 1..BitsPerWord
      PROVE  Extended(val)[i] = IF i <= n THEN 0 ELSE val[i - n]
  <2>1. CASE i <= n
    BY <1>1, <1>2, <1>4, <2>1
  <2>2. CASE ~(i <= n)
    <3>1. i - n \in 1..Len(val) /\ n + (i - n) = i
      BY <1>1, <1>5, <2>2
    <3> QED
      BY <1>4, <2>2, <3>1
  <2> QED
    BY <2>1, <2>2
<1> QED
  BY <1>6, <1>7 DEF n

LEMMA BitOrIs ==
    ASSUME NEW w \in Word, NEW v \in Word
    PROVE  /\ BitOr(w, v) \in Word
           /\ \A i \in 1..BitsPerWord :
                 /\ w[i] = 0 => BitOr(w, v)[i] = v[i]
                 /\ v[i] = 0 => BitOr(w, v)[i] = w[i]
<1>1. \A i \in 1..BitsPerWord : w[i] \in {0, 1} /\ v[i] \in {0, 1}
  BY DEF Word, Bit
<1>2. \A i \in 1..BitsPerWord : BitOr(w, v)[i] = IF w[i] = 1 THEN 1 ELSE v[i]
  BY DEF BitOr
<1>3. BitOr(w, v) \in Word
  BY <1>1 DEF BitOr, Word, Bit
<1> QED
  BY <1>1, <1>2, <1>3

(* Two sequences of bits are one if they have the same bits.               *)
LEMMA SameBits ==
    ASSUME NEW s \in Bits, NEW t \in Bits, Len(s) = Len(t),
           \A i \in 1..Len(s) : s[i] = t[i]
    PROVE  s = t
BY SeqEqual DEF Bits

(* What a sequence is that begins as one and goes on as another.           *)
LEMMA IsJoined ==
    ASSUME NEW r \in Bits, NEW s \in Bits, NEW t \in Bits,
           Len(r) = Len(s) + Len(t),
           \A i \in 1..Len(s) : r[i] = s[i],
           \A i \in 1..Len(t) : r[Len(s) + i] = t[i]
    PROVE  r = s \o t
<1>1. /\ s \o t \in Bits /\ Len(s) \in Nat /\ Len(t) \in Nat
      /\ Len(s \o t) = Len(s) + Len(t)
      /\ \A i \in 1..Len(s) : (s \o t)[i] = s[i]
      /\ \A i \in 1..Len(t) : (s \o t)[Len(s) + i] = t[i]
  BY Joining
<1>2. ASSUME NEW i \in 1..Len(r) PROVE r[i] = (s \o t)[i]
  <2>1. CASE i <= Len(s)
    BY <1>1, <2>1
  <2>2. CASE ~(i <= Len(s))
    <3>1. i - Len(s) \in 1..Len(t) /\ Len(s) + (i - Len(s)) = i
      BY <1>1, <2>2
    <3> QED
      BY <1>1, <3>1
  <2> QED
    BY <2>1, <2>2
<1> QED
  BY <1>1, <1>2, SameBits

(* The n low bits of a word.                                               *)
LowBits(w, n) == SubSeq(ShiftLeft(w, BitsPerWord - n), 1, n)

LEMMA LowBitsAre ==
    ASSUME NEW w \in Word, NEW n \in 0..BitsPerWord
    PROVE  /\ LowBits(w, n) \in Bits /\ Len(LowBits(w, n)) = n
           /\ \A i \in 1..n : LowBits(w, n)[i] = w[BitsPerWord - n + i]
<1> DEFINE x == ShiftLeft(w, BitsPerWord - n)
<1>1. BitsPerWord \in Nat /\ n \in Nat /\ BitsPerWord - n \in 0..BitsPerWord
  BY WordWidth
<1>2. /\ x \in Word
      /\ \A i \in 1..BitsPerWord :
            x[i] = IF i + (BitsPerWord - n) <= BitsPerWord
                   THEN w[i + (BitsPerWord - n)] ELSE 0
  BY <1>1, ShiftLeftIs
<1>3. x \in Bits /\ Len(x) = BitsPerWord
  BY <1>2, WordIsSeq
<1> HIDE DEF x
<1>4. /\ SubSeq(x, 1, n) \in Bits /\ Len(SubSeq(x, 1, n)) = n
      /\ \A i \in 1..n : SubSeq(x, 1, n)[i] = x[i]
  BY <1>1, <1>3, SubSeqProperties DEF Bits
<1>5. ASSUME NEW i \in 1..n PROVE x[i] = w[BitsPerWord - n + i]
  <2>1. /\ i \in 1..BitsPerWord /\ i + (BitsPerWord - n) <= BitsPerWord
        /\ i + (BitsPerWord - n) = BitsPerWord - n + i
    BY <1>1
  <2> QED
    BY <1>2, <2>1
<1> QED
  BY <1>4, <1>5 DEF LowBits, x

(* The whole word, and none of it.                                         *)
LEMMA LowBitsAll ==
    ASSUME NEW w \in Word
    PROVE  LowBits(w, BitsPerWord) = w /\ LowBits(w, 0) = <<>>
<1>1. BitsPerWord \in Nat /\ BitsPerWord \in 0..BitsPerWord /\ 0 \in 0..BitsPerWord
  BY WordWidth
<1>2. w \in Bits /\ Len(w) = BitsPerWord
  BY WordIsSeq
<1>3. /\ LowBits(w, BitsPerWord) \in Bits
      /\ Len(LowBits(w, BitsPerWord)) = BitsPerWord
      /\ \A i \in 1..BitsPerWord :
            LowBits(w, BitsPerWord)[i] = w[BitsPerWord - BitsPerWord + i]
  BY <1>1, LowBitsAre
<1>4. \A i \in 1..BitsPerWord : BitsPerWord - BitsPerWord + i = i
  BY <1>1
<1>5. LowBits(w, BitsPerWord) = w
  BY <1>2, <1>3, <1>4, SameBits
<1>6. LowBits(w, 0) \in Bits /\ Len(LowBits(w, 0)) = 0
  BY <1>1, LowBitsAre
<1>7. LowBits(w, 0) = <<>>
  BY <1>6, EmptySeq DEF Bits
<1> QED
  BY <1>5, <1>7

-----------------------------------------------------------------------------
(* The accumulator takes bits: those that are there are shifted up, the    *)
(* stale bits above them with them.                                        *)
LEMMA Accumulates ==
    ASSUME NEW w \in Word, NEW val \in Bits, NEW n \in 0..BitsPerWord,
           n + Len(val) <= BitsPerWord
    PROVE  /\ BitOr(ShiftLeft(w, Len(val)), Extended(val)) \in Word
           /\ LowBits(BitOr(ShiftLeft(w, Len(val)), Extended(val)), n + Len(val))
                = LowBits(w, n) \o val
<1> DEFINE m == Len(val)
           up == ShiftLeft(w, m)
           ext == Extended(val)
           x == BitOr(up, ext)
<1>1. /\ BitsPerWord \in Nat /\ n \in Nat /\ m \in Nat /\ m \in 0..BitsPerWord
      /\ n + m \in 0..BitsPerWord
  BY WordWidth DEF Bits
<1>2. /\ up \in Word
      /\ \A i \in 1..BitsPerWord : up[i] = IF i + m <= BitsPerWord THEN w[i + m] ELSE 0
  BY <1>1, ShiftLeftIs
<1>3. /\ ext \in Word
      /\ \A i \in 1..BitsPerWord :
            ext[i] = IF i <= BitsPerWord - m THEN 0 ELSE val[i - (BitsPerWord - m)]
  BY <1>1, ExtendedIs
<1>4. m = Len(val)
  OBVIOUS
<1> HIDE DEF up, ext, m
<1>5. /\ x \in Word
      /\ \A i \in 1..BitsPerWord : /\ up[i] = 0 => x[i] = ext[i]
                                   /\ ext[i] = 0 => x[i] = up[i]
  BY <1>2, <1>3, BitOrIs
<1> HIDE DEF x
<1>6. /\ LowBits(x, n + m) \in Bits /\ Len(LowBits(x, n + m)) = n + m
      /\ \A i \in 1..(n + m) : LowBits(x, n + m)[i] = x[BitsPerWord - (n + m) + i]
  BY <1>1, <1>5, LowBitsAre
<1>7. /\ LowBits(w, n) \in Bits /\ Len(LowBits(w, n)) = n
      /\ \A i \in 1..n : LowBits(w, n)[i] = w[BitsPerWord - n + i]
  BY LowBitsAre
<1>8. ASSUME NEW i \in 1..n PROVE LowBits(x, n + m)[i] = LowBits(w, n)[i]
  <2> DEFINE j == BitsPerWord - (n + m) + i
  <2>1. /\ i \in 1..(n + m) /\ j \in 1..BitsPerWord /\ j <= BitsPerWord - m
        /\ j + m <= BitsPerWord /\ j + m = BitsPerWord - n + i
    BY <1>1
  <2> HIDE DEF j
  <2>2. ext[j] = 0 /\ up[j] = w[j + m]
    BY <1>2, <1>3, <2>1
  <2>3. x[j] = w[BitsPerWord - n + i]
    BY <1>5, <2>1, <2>2
  <2> QED
    BY <1>6, <1>7, <2>1, <2>3 DEF j
<1>9. ASSUME NEW i \in 1..m PROVE LowBits(x, n + m)[n + i] = val[i]
  <2> DEFINE j == BitsPerWord - (n + m) + (n + i)
  <2>1. /\ n + i \in 1..(n + m) /\ j \in 1..BitsPerWord /\ ~(j <= BitsPerWord - m)
        /\ ~(j + m <= BitsPerWord) /\ j - (BitsPerWord - m) = i
    BY <1>1
  <2> HIDE DEF j
  <2>2. up[j] = 0 /\ ext[j] = val[i]
    BY <1>2, <1>3, <2>1
  <2>3. x[j] = val[i]
    BY <1>5, <2>1, <2>2
  <2> QED
    BY <1>6, <2>1, <2>3 DEF j
<1>10. LowBits(x, n + m) = LowBits(w, n) \o val
  <2> DEFINE r == LowBits(x, n + m)
             s == LowBits(w, n)
  <2>1. /\ r \in Bits /\ s \in Bits /\ Len(r) = Len(s) + Len(val)
        /\ \A i \in 1..Len(s) : r[i] = s[i]
        /\ \A i \in 1..Len(val) : r[Len(s) + i] = val[i]
    BY <1>4, <1>6, <1>7, <1>8, <1>9
  <2> HIDE DEF r, s
  <2>2. r = s \o val
    BY <2>1, IsJoined
  <2> QED
    BY <2>2 DEF r, s
<1> QED
  BY <1>5, <1>10 DEF x, up, ext, m

(* A word is completed: of the bits that are to be stored, as many as it   *)
(* has room for go into it.                                                *)
LEMMA Completes ==
    ASSUME NEW w \in Word, NEW val \in Bits, NEW n \in 0..BitsPerWord,
           Len(val) <= BitsPerWord, n + Len(val) >= BitsPerWord
    PROVE  LET left == BitsPerWord - n
               over == Len(val) - left
               full == BitOr(ShiftLeft(w, left), ShiftRight(Extended(val), over))
           IN  /\ full \in Word
               /\ full = LowBits(w, n) \o SubSeq(val, 1, left)
<1> DEFINE m == Len(val)
           left == BitsPerWord - n
           over == m - left
           up == ShiftLeft(w, left)
           ext == Extended(val)
           down == ShiftRight(ext, over)
           full == BitOr(up, down)
           first == SubSeq(val, 1, left)
<1>1. /\ BitsPerWord \in Nat /\ n \in Nat /\ m \in Nat /\ m \in 0..BitsPerWord
      /\ left \in 0..BitsPerWord /\ over \in 0..BitsPerWord /\ left <= m
      /\ left = BitsPerWord - n /\ over = m - left
  BY WordWidth DEF Bits
<1>2. /\ first \in Bits /\ Len(first) = left
      /\ \A i \in 1..left : first[i] = val[i]
  BY <1>1, SubSeqProperties DEF Bits
<1>3. /\ ext \in Word
      /\ \A i \in 1..BitsPerWord :
            ext[i] = IF i <= BitsPerWord - m THEN 0 ELSE val[i - (BitsPerWord - m)]
  BY <1>1, ExtendedIs
<1> HIDE DEF ext, m, left, over
<1>4. /\ up \in Word
      /\ \A i \in 1..BitsPerWord :
            up[i] = IF i + left <= BitsPerWord THEN w[i + left] ELSE 0
  BY <1>1, ShiftLeftIs
<1>5. /\ down \in Word
      /\ \A i \in 1..BitsPerWord : down[i] = IF i <= over THEN 0 ELSE ext[i - over]
  BY <1>1, <1>3, ShiftRightIs
<1> HIDE DEF up, down, first
<1>6. /\ full \in Word
      /\ \A i \in 1..BitsPerWord : /\ up[i] = 0 => full[i] = down[i]
                                   /\ down[i] = 0 => full[i] = up[i]
  BY <1>4, <1>5, BitOrIs
<1> HIDE DEF full
<1>7. /\ LowBits(w, n) \in Bits /\ Len(LowBits(w, n)) = n
      /\ \A i \in 1..n : LowBits(w, n)[i] = w[BitsPerWord - n + i]
  BY LowBitsAre
<1>8. full \in Bits /\ Len(full) = BitsPerWord
  BY <1>6, WordIsSeq
<1>9. ASSUME NEW i \in 1..n PROVE full[i] = LowBits(w, n)[i]
  <2>1. /\ i \in 1..BitsPerWord /\ i + left <= BitsPerWord
        /\ i + left = BitsPerWord - n + i
    BY <1>1
  <2>2. down[i] = 0
    <3>1. CASE i <= over
      BY <1>5, <2>1, <3>1
    <3>2. CASE ~(i <= over)
      <4>1. i - over \in 1..BitsPerWord /\ i - over <= BitsPerWord - m
        BY <1>1, <3>2
      <4> QED
        BY <1>3, <1>5, <2>1, <3>2, <4>1
    <3> QED
      BY <3>1, <3>2
  <2>3. up[i] = w[BitsPerWord - n + i]
    BY <1>4, <2>1
  <2> QED
    BY <1>6, <1>7, <2>1, <2>2, <2>3
<1>10. ASSUME NEW i \in 1..left PROVE full[n + i] = first[i]
  <2> DEFINE j == n + i
  <2>1. /\ j \in 1..BitsPerWord /\ ~(j + left <= BitsPerWord) /\ ~(j <= over)
        /\ j - over \in 1..BitsPerWord /\ ~(j - over <= BitsPerWord - m)
        /\ (j - over) - (BitsPerWord - m) = i
    BY <1>1
  <2> HIDE DEF j
  <2>2. up[j] = 0 /\ down[j] = ext[j - over]
    BY <1>4, <1>5, <2>1
  <2>3. ext[j - over] = val[i]
    BY <1>3, <2>1
  <2>4. full[j] = first[i]
    BY <1>2, <1>6, <2>1, <2>2, <2>3
  <2> QED
    BY <2>4 DEF j
<1>11. full = LowBits(w, n) \o first
  <2> DEFINE s == LowBits(w, n)
  <2>1. /\ s \in Bits /\ Len(full) = Len(s) + Len(first)
        /\ \A i \in 1..Len(s) : full[i] = s[i]
        /\ \A i \in 1..Len(first) : full[Len(s) + i] = first[i]
    BY <1>1, <1>2, <1>7, <1>8, <1>9, <1>10
  <2> HIDE DEF s
  <2>2. full = s \o first
    BY <1>2, <1>8, <2>1, IsJoined
  <2> QED
    BY <2>2 DEF s
<1> QED
  BY <1>6, <1>11 DEF full, up, down, ext, first, m, left, over

-----------------------------------------------------------------------------
(* The words of the buffer, put one after the other.                       *)
LEMMA FlatIs ==
    ASSUME NEW ws \in Seq(Word)
    PROVE  /\ FlatWords(ws) \in Bits
           /\ Len(FlatWords(ws)) = Len(ws) * BitsPerWord
           /\ \A i \in 1..(Len(ws) * BitsPerWord) :
                 FlatWords(ws)[i] = ws[(i - 1) \div BitsPerWord + 1]
                                      [((i - 1) % BitsPerWord) + 1]
<1> DEFINE W == BitsPerWord
           n == Len(ws)
           At(i) == ws[(i - 1) \div W + 1][((i - 1) % W) + 1]
<1>1. W \in Nat \ {0} /\ n \in Nat
  BY WordWidth
<1>2. n * W \in Nat
  <2> HIDE DEF W, n
  <2> QED
    BY <1>1
<1>3. ASSUME NEW i \in 1..(n * W) PROVE At(i) \in Bit
  <2> DEFINE x == i - 1
             q == x \div W
             r == x % W
  <2>1. x \in Nat /\ x < n * W
    <3> HIDE DEF W, n
    <3> QED
      BY <1>2
  <2> HIDE DEF x
  <2>2. q \in Nat /\ r \in 0..(W - 1)
    <3> HIDE DEF W, n
    <3> QED
      BY <1>1, <2>1, QuotientRest
  <2>3. q < n
    <3> HIDE DEF W, n
    <3> QED
      BY <1>1, <2>1, QuotientBelow
  <2> HIDE DEF q, r
  <2>4. q + 1 \in 1..n /\ r + 1 \in 1..W
    <3> HIDE DEF W, n
    <3> QED
      BY <1>1, <2>2, <2>3
  <2>5. ws[q + 1] \in Word
    BY <2>4
  <2> HIDE DEF n
  <2>6. ws[q + 1][r + 1] \in Bit
    BY <2>4, <2>5 DEF Word
  <2> QED
    BY <2>6 DEF q, r, x
<1>4. FlatWords(ws) = [i \in 1..(n * W) |-> At(i)]
  BY DEF FlatWords
<1> HIDE DEF At, n, W
<1>5. [i \in 1..(n * W) |-> At(i)] \in [1..(n * W) -> Bit]
  BY <1>3
<1>6. FlatWords(ws) \in Bits /\ Len(FlatWords(ws)) = n * W
  BY <1>2, <1>4, <1>5 DEF Bits
<1>7. \A i \in 1..(n * W) : FlatWords(ws)[i] = At(i)
  BY <1>4
<1> QED
  BY <1>6, <1>7 DEF At, n, W

LEMMA FlatNone == FlatWords(<<>>) = <<>>
<1>1. <<>> \in Seq(Word) /\ Len(<<>>) = 0
  OBVIOUS
<1>2. FlatWords(<<>>) \in Bits /\ Len(FlatWords(<<>>)) = 0 * BitsPerWord
  BY <1>1, FlatIs
<1>3. 0 * BitsPerWord = 0
  BY WordWidth
<1> QED
  BY <1>2, <1>3, EmptySeq DEF Bits

(* One word more.                                                          *)
LEMMA FlatAppend ==
    ASSUME NEW ws \in Seq(Word), NEW w \in Word
    PROVE  FlatWords(Append(ws, w)) = FlatWords(ws) \o w
<1> DEFINE W == BitsPerWord
           n == Len(ws)
           more == Append(ws, w)
           flat == FlatWords(ws)
           r == FlatWords(more)
<1>1. W \in Nat \ {0} /\ n \in Nat
  BY WordWidth
<1>2. /\ more \in Seq(Word) /\ Len(more) = n + 1 /\ more[n + 1] = w
      /\ \A j \in 1..n : more[j] = ws[j]
  BY AppendProperties
<1>3. w \in Bits /\ Len(w) = W
  BY WordIsSeq
<1>4. /\ flat \in Bits /\ Len(flat) = n * W
      /\ \A i \in 1..(n * W) : flat[i] = ws[(i - 1) \div W + 1][((i - 1) % W) + 1]
  BY FlatIs
<1> HIDE DEF more, W
<1>5. /\ r \in Bits /\ Len(r) = Len(more) * W
      /\ \A i \in 1..(Len(more) * W) :
            r[i] = more[(i - 1) \div W + 1][((i - 1) % W) + 1]
  BY <1>2, FlatIs DEF W
<1> HIDE DEF r, flat, n
<1>6. Len(more) * W = n * W + W /\ n * W \in Nat
  BY <1>1, <1>2
<1>7. ASSUME NEW i \in 1..Len(flat) PROVE r[i] = flat[i]
  <2> DEFINE q == (i - 1) \div W
             m == (i - 1) % W
  <2>1. i - 1 \in Nat /\ i - 1 < n * W /\ i \in 1..(n * W) /\ i \in 1..(n * W + W)
    BY <1>1, <1>4, <1>6
  <2>2. q \in Nat /\ q < n
    BY <1>1, <2>1, QuotientRest, QuotientBelow
  <2>3. r[i] = more[q + 1][m + 1] /\ flat[i] = ws[q + 1][m + 1]
    BY <1>4, <1>5, <1>6, <2>1
  <2> HIDE DEF q, m
  <2>4. q + 1 \in 1..n
    BY <1>1, <2>2
  <2> QED
    BY <1>2, <2>3, <2>4
<1>8. ASSUME NEW i \in 1..Len(w) PROVE r[Len(flat) + i] = w[i]
  <2> DEFINE x == Len(flat) + i
             m == i - 1
  <2>1. /\ x \in 1..(n * W + W) /\ m \in 0..(W - 1) /\ x - 1 = n * W + m
        /\ m + 1 = i
    BY <1>1, <1>3, <1>4, <1>6
  <2> HIDE DEF x, m
  <2>2. (x - 1) \div W = n /\ (x - 1) % W = m
    BY <1>1, <2>1, QuotientOf
  <2>3. r[x] = more[n + 1][m + 1]
    BY <1>5, <1>6, <2>1, <2>2
  <2>4. r[x] = w[i]
    BY <1>2, <2>1, <2>3
  <2> QED
    BY <2>4 DEF x
<1>9. r = flat \o w
  <2>1. Len(r) = Len(flat) + Len(w)
    BY <1>3, <1>4, <1>5, <1>6
  <2> QED
    BY <1>3, <1>4, <1>5, <1>7, <1>8, <2>1, IsJoined
<1> QED
  BY <1>9 DEF r, flat, more

ZeroWords(q) == [i \in 1..q |-> Zeroes(BitsPerWord)]

LEMMA ZeroIsWord == Zeroes(BitsPerWord) \in Word
BY WordWidth DEF Zeroes, Word, Bit

LEMMA ZeroWordsAre ==
    ASSUME NEW q \in Nat
    PROVE  ZeroWords(q) \in Seq(Word) /\ Len(ZeroWords(q)) = q
BY ZeroIsWord DEF ZeroWords

LEMMA ZeroesJoined ==
    ASSUME NEW m \in Nat, NEW n \in Nat
    PROVE  Zeroes(m) \o Zeroes(n) = Zeroes(m + n)
<1> DEFINE r == Zeroes(m + n)
           s == Zeroes(m)
           t == Zeroes(n)
<1>1. m + n \in Nat
  OBVIOUS
<1>2. r \in Bits /\ Len(r) = m + n /\ \A i \in 1..(m + n) : r[i] = 0
  BY <1>1, ZeroesAre
<1>3. /\ s \in Bits /\ Len(s) = m /\ \A i \in 1..m : s[i] = 0
      /\ t \in Bits /\ Len(t) = n /\ \A i \in 1..n : t[i] = 0
  BY ZeroesAre
<1> HIDE DEF r, s, t
<1>4. /\ \A i \in 1..Len(s) : r[i] = s[i]
      /\ \A i \in 1..Len(t) : r[Len(s) + i] = t[i]
  <2>1. \A i \in 1..m : i \in 1..(m + n)
    OBVIOUS
  <2>2. \A i \in 1..n : m + i \in 1..(m + n)
    OBVIOUS
  <2> QED
    BY <1>2, <1>3, <2>1, <2>2
<1>5. r = s \o t
  BY <1>2, <1>3, <1>4, IsJoined
<1> QED
  BY <1>5 DEF r, s, t

LEMMA FlatJoined ==
    ASSUME NEW ws \in Seq(Word), NEW q \in Nat
    PROVE  FlatWords(ws \o ZeroWords(q)) = FlatWords(ws) \o Zeroes(q * BitsPerWord)
<1> DEFINE W == BitsPerWord
           n == Len(ws)
           zs == ZeroWords(q)
           more == ws \o zs
           flat == FlatWords(ws)
           none == Zeroes(q * W)
           r == FlatWords(more)
<1>1. W \in Nat \ {0} /\ n \in Nat
  BY WordWidth
<1>2. /\ zs \in Seq(Word) /\ Len(zs) = q
      /\ \A j \in 1..q : zs[j] = Zeroes(W)
  BY ZeroWordsAre DEF ZeroWords
<1>3. /\ flat \in Bits /\ Len(flat) = n * W
      /\ \A i \in 1..(n * W) : flat[i] = ws[(i - 1) \div W + 1][((i - 1) % W) + 1]
  BY FlatIs
<1> HIDE DEF zs
<1>4. /\ more \in Seq(Word) /\ Len(more) = n + q
      /\ \A i \in 1..(n + q) : more[i] = IF i <= n THEN ws[i] ELSE zs[i - n]
  BY <1>2, ConcatProperties
<1> HIDE DEF more, W
<1>5. /\ r \in Bits /\ Len(r) = Len(more) * W
      /\ \A i \in 1..(Len(more) * W) :
            r[i] = more[(i - 1) \div W + 1][((i - 1) % W) + 1]
  BY <1>4, FlatIs DEF W
<1> HIDE DEF r, flat, n
<1>6. Len(more) * W = n * W + q * W /\ n * W \in Nat /\ q * W \in Nat
  BY <1>1, <1>4
<1>7. none \in Bits /\ Len(none) = q * W /\ \A i \in 1..(q * W) : none[i] = 0
  BY <1>6, ZeroesAre
<1>8. \A m \in 0..(W - 1) : Zeroes(W)[m + 1] = 0
  <2>1. \A m \in 0..(W - 1) : m + 1 \in 1..W
    BY <1>1
  <2> QED
    BY <2>1 DEF Zeroes
<1> HIDE DEF none
<1>9. ASSUME NEW i \in 1..Len(flat) PROVE r[i] = flat[i]
  <2> DEFINE p == (i - 1) \div W
             m == (i - 1) % W
  <2>1. i - 1 \in Nat /\ i - 1 < n * W /\ i \in 1..(n * W) /\ i \in 1..(n * W + q * W)
    BY <1>1, <1>3, <1>6
  <2>2. p \in Nat /\ p < n
    BY <1>1, <2>1, QuotientRest, QuotientBelow
  <2>3. r[i] = more[p + 1][m + 1] /\ flat[i] = ws[p + 1][m + 1]
    BY <1>3, <1>5, <1>6, <2>1
  <2> HIDE DEF p, m
  <2>4. p + 1 \in 1..(n + q) /\ p + 1 <= n
    BY <1>1, <2>2
  <2> QED
    BY <1>4, <2>3, <2>4
<1>10. ASSUME NEW i \in 1..Len(none) PROVE r[Len(flat) + i] = none[i]
  <2> DEFINE x == Len(flat) + i
             p == (x - 1) \div W
             m == (x - 1) % W
  <2>1. /\ x \in 1..(n * W + q * W) /\ x - 1 \in Nat /\ x - 1 >= n * W
        /\ x - 1 < n * W + q * W
    BY <1>1, <1>3, <1>6, <1>7
  <2>2. (n + q) * W = n * W + q * W /\ n + q \in Nat
    BY <1>1
  <2> HIDE DEF x
  <2>3. p \in Nat /\ m \in 0..(W - 1) /\ p >= n /\ p < n + q
    BY <1>1, <2>1, <2>2, QuotientRest, QuotientBelow, QuotientFrom
  <2>4. r[x] = more[p + 1][m + 1]
    BY <1>5, <1>6, <2>1
  <2> HIDE DEF p, m
  <2>5. p + 1 \in 1..(n + q) /\ ~(p + 1 <= n) /\ (p + 1) - n \in 1..q
    BY <1>1, <2>3
  <2>6. more[p + 1] = Zeroes(W)
    BY <1>2, <1>4, <2>5
  <2>7. r[x] = 0
    BY <1>8, <2>3, <2>4, <2>6
  <2>8. none[i] = 0
    BY <1>7
  <2> QED
    BY <2>7, <2>8 DEF x
<1>11. r = flat \o none
  <2>1. Len(r) = Len(flat) + Len(none)
    BY <1>3, <1>5, <1>6, <1>7
  <2> QED
    BY <1>3, <1>5, <1>7, <1>9, <1>10, <2>1, IsJoined
<1> QED
  BY <1>11 DEF r, flat, more, none, zs, W

-----------------------------------------------------------------------------
(* Writers, the bits they hold, and room for n bits more.                  *)
AnyWriter == [buffer : Seq(Word), accum : Word, bits : 0..BitsPerWord,
              capacity : Nat, ok : BOOLEAN]

HasRoom(w, n) ==
    \E k \in Nat : w.bits + n <= k * BitsPerWord /\ Len(w.buffer) + k <= w.capacity

LEMMA HeldIs ==
    ASSUME NEW w \in AnyWriter
    PROVE  /\ BufferBits(w) = FlatWords(w.buffer) \o LowBits(w.accum, w.bits)
           /\ FlatWords(w.buffer) \in Bits /\ LowBits(w.accum, w.bits) \in Bits
           /\ BufferBits(w) \in Bits
<1>1. w.buffer \in Seq(Word) /\ w.accum \in Word /\ w.bits \in 0..BitsPerWord
  BY DEF AnyWriter
<1>2. BufferBits(w) = FlatWords(w.buffer) \o LowBits(w.accum, w.bits)
  BY DEF BufferBits, LowBits
<1>3. FlatWords(w.buffer) \in Bits /\ LowBits(w.accum, w.bits) \in Bits
  BY <1>1, FlatIs, LowBitsAre
<1>4. FlatWords(w.buffer) \o LowBits(w.accum, w.bits) \in Bits
  BY <1>3, Joining
<1> QED
  BY <1>2, <1>3, <1>4

LEMMA RoomKeptIs ==
    ASSUME NEW w \in AnyWriter, w.bits < BitsPerWord
    PROVE  RoomKept(w) <=> HasRoom(w, 0)
<1>1. /\ BitsPerWord \in Nat \ {0} /\ w.bits \in Nat /\ w.capacity \in Nat
      /\ Len(w.buffer) \in Nat
  BY WordWidth DEF AnyWriter
<1>2. ASSUME RoomKept(w) PROVE HasRoom(w, 0)
  <2>1. CASE w.bits = 0
    <3>1. 0 \in Nat /\ w.bits + 0 <= 0 * BitsPerWord /\ Len(w.buffer) + 0 <= w.capacity
      BY <1>1, <1>2, <2>1 DEF RoomKept, Words
    <3> QED
      BY <3>1 DEF HasRoom
  <2>2. CASE w.bits # 0
    <3>1. 1 \in Nat /\ w.bits + 0 <= 1 * BitsPerWord /\ Len(w.buffer) + 1 <= w.capacity
      BY <1>1, <1>2, <2>2 DEF RoomKept, Words
    <3> QED
      BY <3>1 DEF HasRoom
  <2> QED
    BY <2>1, <2>2
<1>3. ASSUME HasRoom(w, 0) PROVE RoomKept(w)
  <2>1. PICK k \in Nat : w.bits + 0 <= k * BitsPerWord /\ Len(w.buffer) + k <= w.capacity
    BY <1>3 DEF HasRoom
  <2>2. w.bits > 0 => k >= 1
    BY <1>1, <2>1
  <2> QED
    BY <1>1, <2>1, <2>2 DEF RoomKept, Words
<1> QED
  BY <1>2, <1>3

LEMMA Associates ==
    ASSUME NEW s \in Bits, NEW t \in Bits, NEW u \in Bits
    PROVE  (s \o t) \o u = s \o (t \o u) /\ s \o t \in Bits /\ t \o u \in Bits
BY ConcatAssociative, Joining DEF Bits

(* The same without a choice of names, for provers that instantiate.       *)
LEMMA JoinedFirst ==
    \A s, t, u \in Bits : (s \o t) \o u = s \o (t \o u)
BY Associates

LEMMA NoneJoined ==
    ASSUME NEW s \in Bits
    PROVE  s \o <<>> = s /\ <<>> \o s = s /\ <<>> \in Bits
BY ConcatEmptySeq DEF Bits

(* A sequence of bits that is cut in two.                                  *)
LEMMA CutInTwo ==
    ASSUME NEW s \in Bits, NEW n \in 0..Len(s)
    PROVE  /\ SubSeq(s, 1, n) \in Bits /\ SubSeq(s, n + 1, Len(s)) \in Bits
           /\ s = SubSeq(s, 1, n) \o SubSeq(s, n + 1, Len(s))
<1> DEFINE m == Len(s)
           a == SubSeq(s, 1, n)
           b == SubSeq(s, n + 1, m)
<1>1. m \in Nat /\ n \in Nat /\ n <= m
  BY DEF Bits
<1>2. /\ a \in Bits /\ Len(a) = n /\ \A i \in 1..n : a[i] = s[i]
      /\ b \in Bits /\ Len(b) = m - n /\ \A i \in 1..(m - n) : b[i] = s[n + i]
  BY <1>1, SubSeqProperties DEF Bits
<1>3. /\ Len(s) = Len(a) + Len(b)
      /\ \A i \in 1..Len(a) : s[i] = a[i]
      /\ \A i \in 1..Len(b) : s[Len(a) + i] = b[i]
  <2> HIDE DEF a, b
  <2> QED
    BY <1>1, <1>2
<1> HIDE DEF a, b
<1>4. s = a \o b
  BY <1>2, <1>3, IsJoined
<1> QED
  BY <1>2, <1>4 DEF a, b

(* The low bits of the variable that holds val are the last ones of val.   *)
LEMMA LowBitsOfExtended ==
    ASSUME NEW val \in Bits, Len(val) <= BitsPerWord, NEW n \in 0..Len(val)
    PROVE  LowBits(Extended(val), n) = SubSeq(val, Len(val) - n + 1, Len(val))
<1> DEFINE m == Len(val)
           ext == Extended(val)
           s == SubSeq(val, m - n + 1, m)
           r == LowBits(ext, n)
<1>1. /\ BitsPerWord \in Nat /\ m \in Nat /\ n \in Nat /\ n <= m /\ m <= BitsPerWord
      /\ n \in 0..BitsPerWord
  BY WordWidth DEF Bits
<1>2. /\ ext \in Word
      /\ \A i \in 1..BitsPerWord :
            ext[i] = IF i <= BitsPerWord - m THEN 0 ELSE val[i - (BitsPerWord - m)]
  BY ExtendedIs
<1>3. s \in Bits /\ Len(s) = n /\ \A i \in 1..n : s[i] = val[m - n + i]
  <2>1. s \in Bits /\ Len(s) = m - (m - n + 1) + 1
        /\ \A i \in 1..(m - (m - n + 1) + 1) : s[i] = val[(m - n + 1) + i - 1]
    BY <1>1, SubSeqProperties DEF Bits
  <2>2. m - (m - n + 1) + 1 = n /\ \A i \in 1..n : (m - n + 1) + i - 1 = m - n + i
    BY <1>1
  <2> HIDE DEF s
  <2> QED
    BY <2>1, <2>2
<1> HIDE DEF ext, s, m
<1>4. r \in Bits /\ Len(r) = n /\ \A i \in 1..n : r[i] = ext[BitsPerWord - n + i]
  BY <1>1, <1>2, LowBitsAre
<1> HIDE DEF r
<1>5. ASSUME NEW i \in 1..n PROVE r[i] = s[i]
  <2> DEFINE j == BitsPerWord - n + i
  <2>1. /\ j \in 1..BitsPerWord /\ ~(j <= BitsPerWord - m)
        /\ j - (BitsPerWord - m) = m - n + i
    BY <1>1
  <2> HIDE DEF j
  <2>2. ext[j] = val[m - n + i]
    BY <1>2, <2>1
  <2> QED
    BY <1>3, <1>4, <2>2 DEF j
<1>6. r = s
  BY <1>3, <1>4, <1>5, SameBits
<1> QED
  BY <1>6 DEF r, s, ext, m

(* The bits val are stored, and nothing else changes.                      *)
LEMMA PutBitsPuts ==
    ASSUME NEW w \in AnyWriter, w.bits < BitsPerWord,
           NEW val \in Bits, Len(val) \in 1..BitsPerWord, HasRoom(w, Len(val))
    PROVE  /\ PutBits(w, val) \in AnyWriter
           /\ RoomKept(PutBits(w, val))
           /\ BufferBits(PutBits(w, val)) = BufferBits(w) \o val
           /\ PutBits(w, val).ok = w.ok
<1> DEFINE n == w.bits
           m == Len(val)
           left == BitsPerWord - n
           flat == FlatWords(w.buffer)
           low == LowBits(w.accum, n)
           r == PutBits(w, val)
<1>1. /\ BitsPerWord \in Nat \ {0} /\ n \in 0..BitsPerWord /\ n \in Nat /\ m \in Nat
      /\ w.capacity \in Nat /\ Len(w.buffer) \in Nat /\ w.ok \in BOOLEAN
      /\ w.buffer \in Seq(Word) /\ w.accum \in Word /\ m \in 1..BitsPerWord
      /\ n < BitsPerWord
  BY WordWidth DEF AnyWriter
<1>2. /\ BufferBits(w) = flat \o low /\ flat \in Bits /\ low \in Bits
      /\ BufferBits(w) \in Bits
  BY HeldIs
<1>0. n = w.bits /\ m = Len(val)
  OBVIOUS
<1> HIDE DEF n, m
<1>3. PICK k \in Nat : n + m <= k * BitsPerWord /\ Len(w.buffer) + k <= w.capacity
  BY <1>0 DEF HasRoom
<1>4. CASE m < left
  <2> DEFINE acc == BitOr(ShiftLeft(w.accum, m), Extended(val))
  <2>1. r = [w EXCEPT !.accum = acc, !.bits = n + m]
    BY <1>0, <1>4 DEF PutBits
  <2>2. acc \in Word /\ LowBits(acc, n + m) = low \o val
    <3>1. n + m <= BitsPerWord
      BY <1>1, <1>4
    <3> QED
      BY <1>0, <1>1, <3>1, Accumulates
  <2>3. n + m \in 0..BitsPerWord /\ n + m < BitsPerWord
    BY <1>1, <1>4
  <2> HIDE DEF acc, r
  <2>4. /\ r \in AnyWriter /\ r.buffer = w.buffer /\ r.accum = acc
        /\ r.bits = n + m /\ r.capacity = w.capacity /\ r.ok = w.ok
    BY <2>1, <2>2, <2>3 DEF AnyWriter
  <2>5. HasRoom(r, 0)
    <3>1. r.bits + 0 <= k * BitsPerWord /\ Len(r.buffer) + k <= r.capacity
      <4>1. n + m + 0 = n + m
        BY <1>1
      <4> QED
        BY <1>3, <2>4, <4>1
    <3> QED
      BY <3>1 DEF HasRoom
  <2>6. RoomKept(r)
    BY <2>3, <2>4, <2>5, RoomKeptIs
  <2>7. BufferBits(r) = flat \o (low \o val)
    BY <2>2, <2>4, HeldIs
  <2>8. BufferBits(r) = BufferBits(w) \o val
    <3>1. flat \in Bits /\ low \in Bits
      BY <1>2
    <3>2. (flat \o low) \o val = flat \o (low \o val)
      BY <3>1, JoinedFirst, Zenon
    <3> QED
      BY <1>2, <2>7, <3>2
  <2> QED
    BY <2>4, <2>6, <2>8 DEF r
<1>5. CASE ~(m < left)
  <2> DEFINE over == m - left
             full == BitOr(ShiftLeft(w.accum, left), ShiftRight(Extended(val), over))
             first == SubSeq(val, 1, left)
             rest == SubSeq(val, left + 1, m)
             next == [w EXCEPT !.buffer = Append(@, full), !.accum = Extended(val),
                               !.bits = over]
  <2>1. /\ left \in 0..m /\ over \in 0..m /\ over \in 0..BitsPerWord /\ left \in Nat
        /\ over < BitsPerWord /\ m - over = left
    BY <1>1, <1>5
  <2>2. full \in Word /\ full = low \o first
    <3>1. n + Len(val) >= BitsPerWord /\ Len(val) <= BitsPerWord
      BY <1>0, <1>1, <1>5
    <3> QED
      BY <1>0, <1>1, <3>1, Completes
  <2>3. first \in Bits /\ rest \in Bits /\ val = first \o rest
    BY <1>0, <2>1, CutInTwo
  <2>4. Extended(val) \in Word
    BY <1>0, <1>1, ExtendedIs
  <2>5. LowBits(Extended(val), over) = rest
    <3>1. LowBits(Extended(val), over) = SubSeq(val, m - over + 1, m)
      <4>1. over \in 0..Len(val) /\ Len(val) <= BitsPerWord
        BY <1>0, <1>1, <2>1
      <4> HIDE DEF over
      <4> QED
        BY <1>0, <4>1, LowBitsOfExtended
    <3> QED
      BY <2>1, <3>1
  <2>6. /\ Append(w.buffer, full) \in Seq(Word)
        /\ Len(Append(w.buffer, full)) = Len(w.buffer) + 1
        /\ FlatWords(Append(w.buffer, full)) = flat \o full
    <3>1. Append(w.buffer, full) \in Seq(Word)
          /\ Len(Append(w.buffer, full)) = Len(w.buffer) + 1
      BY <1>1, <2>2, AppendProperties
    <3>2. FlatWords(Append(w.buffer, full)) = flat \o full
      BY <1>1, <2>2, FlatAppend
    <3> QED
      BY <3>1, <3>2
  <2> HIDE DEF full, first, rest, over
  <2>7. /\ next \in AnyWriter /\ next.buffer = Append(w.buffer, full)
        /\ next.accum = Extended(val) /\ next.bits = over
        /\ next.capacity = w.capacity /\ next.ok = w.ok
    BY <2>1, <2>4, <2>6 DEF AnyWriter
  <2> HIDE DEF next
  <2>8. HasRoom(next, 0)
    <3>1. k >= 1
      BY <1>1, <1>3
    <3>2. k - 1 \in Nat /\ (k - 1) * BitsPerWord = k * BitsPerWord - BitsPerWord
      BY <1>1, <3>1
    <3>3. over = n + m - BitsPerWord
      BY <1>1 DEF over
    <3>4. /\ next.bits + 0 <= (k - 1) * BitsPerWord
          /\ Len(next.buffer) + (k - 1) <= next.capacity
      BY <1>1, <1>3, <2>6, <2>7, <3>2, <3>3
    <3> QED
      BY <3>2, <3>4 DEF HasRoom
  <2>9. RoomKept(next)
    BY <2>1, <2>7, <2>8, RoomKeptIs
  <2>10. BufferBits(next) = (flat \o (low \o first)) \o rest
    BY <2>2, <2>5, <2>6, <2>7, HeldIs
  <2>11. BufferBits(next) = BufferBits(w) \o val
    <3> HIDE DEF flat, low
    <3>1. flat \o (low \o first) = (flat \o low) \o first /\ flat \o low \in Bits
      <4>0. flat \in Bits /\ low \in Bits /\ first \in Bits
        BY <1>2, <2>3
      <4>1. (flat \o low) \o first = flat \o (low \o first)
        BY <4>0, JoinedFirst, Zenon
      <4> QED
        BY <1>2, <4>1
    <3>2. ((flat \o low) \o first) \o rest = (flat \o low) \o (first \o rest)
      BY <2>3, <3>1, Associates
    <3> QED
      BY <1>2, <2>3, <2>10, <3>1, <3>2
  <2>12. r = next
    <3>1. CASE n > 0
      BY <1>0, <1>5, <3>1 DEF PutBits, next, full, over
    <3>2. CASE ~(n > 0)
      <4>1. n = 0 /\ left = BitsPerWord /\ m = BitsPerWord /\ over = 0
        BY <1>1, <1>5, <3>2 DEF over
      <4>2. r = [w EXCEPT !.buffer = Append(@, Extended(val)), !.accum = Extended(val)]
        BY <1>0, <1>5, <3>2 DEF PutBits
      <4>3. full = Extended(val)
        <5>1. low = <<>>
          BY <1>1, <4>1, LowBitsAll
        <5>2. Extended(val) = LowBits(Extended(val), BitsPerWord)
          BY <2>4, LowBitsAll
        <5>3. LowBits(Extended(val), BitsPerWord) = SubSeq(val, m - BitsPerWord + 1, m)
          <6>1. BitsPerWord \in 0..Len(val) /\ Len(val) <= BitsPerWord
            BY <1>0, <1>1, <4>1
          <6> QED
            BY <1>0, <6>1, LowBitsOfExtended
        <5>4. m - BitsPerWord + 1 = 1 /\ first = SubSeq(val, 1, m)
          BY <1>1, <4>1 DEF first
        <5>5. full = <<>> \o first
          BY <2>2, <5>1
        <5> QED
          BY <2>3, <5>2, <5>3, <5>4, <5>5, NoneJoined
      <4>4. next = [w EXCEPT !.buffer = Append(@, Extended(val)),
                             !.accum = Extended(val), !.bits = 0]
        BY <4>1, <4>3 DEF next
      <4>5. [w EXCEPT !.buffer = Append(@, Extended(val)),
                      !.accum = Extended(val), !.bits = 0]
            = [w EXCEPT !.buffer = Append(@, Extended(val)), !.accum = Extended(val)]
        BY <1>0, <4>1 DEF AnyWriter
      <4> QED
        BY <4>2, <4>4, <4>5
    <3> QED
      BY <3>1, <3>2
  <2> QED
    BY <2>7, <2>9, <2>11, <2>12
<1> QED
  BY <1>4, <1>5

(* A word that is shifted up has zeroes below its low bits.                *)
LEMMA ShiftsUp ==
    ASSUME NEW w \in Word, NEW n \in 0..BitsPerWord, NEW m \in 0..BitsPerWord,
           n + m <= BitsPerWord
    PROVE  /\ ShiftLeft(w, m) \in Word
           /\ LowBits(ShiftLeft(w, m), n + m) = LowBits(w, n) \o Zeroes(m)
<1> DEFINE up == ShiftLeft(w, m)
           z == Zeroes(m)
           s == LowBits(w, n)
           r == LowBits(up, n + m)
<1>1. /\ BitsPerWord \in Nat /\ n \in Nat /\ m \in Nat /\ n + m \in 0..BitsPerWord
  BY WordWidth
<1>2. /\ up \in Word
      /\ \A i \in 1..BitsPerWord : up[i] = IF i + m <= BitsPerWord THEN w[i + m] ELSE 0
  BY ShiftLeftIs
<1>3. z \in Bits /\ Len(z) = m /\ \A i \in 1..m : z[i] = 0
  BY <1>1, ZeroesAre
<1>4. s \in Bits /\ Len(s) = n /\ \A i \in 1..n : s[i] = w[BitsPerWord - n + i]
  BY LowBitsAre
<1> HIDE DEF up, z, s
<1>5. r \in Bits /\ Len(r) = n + m /\ \A i \in 1..(n + m) : r[i] = up[BitsPerWord - (n + m) + i]
  BY <1>1, <1>2, LowBitsAre
<1> HIDE DEF r
<1>6. ASSUME NEW i \in 1..Len(s) PROVE r[i] = s[i]
  <2> DEFINE j == BitsPerWord - (n + m) + i
  <2>1. /\ i \in 1..n /\ i \in 1..(n + m) /\ j \in 1..BitsPerWord
        /\ j + m <= BitsPerWord /\ j + m = BitsPerWord - n + i
    BY <1>1, <1>4
  <2> HIDE DEF j
  <2>2. up[j] = w[BitsPerWord - n + i]
    BY <1>2, <2>1
  <2> QED
    BY <1>4, <1>5, <2>1, <2>2 DEF j
<1>7. ASSUME NEW i \in 1..Len(z) PROVE r[Len(s) + i] = z[i]
  <2> DEFINE j == BitsPerWord - (n + m) + (n + i)
  <2>1. /\ i \in 1..m /\ n + i \in 1..(n + m) /\ j \in 1..BitsPerWord
        /\ ~(j + m <= BitsPerWord)
    BY <1>1, <1>3
  <2> HIDE DEF j
  <2>2. up[j] = 0
    BY <1>2, <2>1
  <2> QED
    BY <1>3, <1>4, <1>5, <2>1, <2>2 DEF j
<1>8. r = s \o z
  <2>1. Len(r) = Len(s) + Len(z)
    BY <1>3, <1>4, <1>5
  <2> QED
    BY <1>3, <1>4, <1>5, <1>6, <1>7, <2>1, IsJoined
<1> QED
  BY <1>2, <1>8 DEF r, s, z, up

LEMMA LowBitsOfZeroes ==
    ASSUME NEW n \in 0..BitsPerWord
    PROVE  LowBits(Zeroes(BitsPerWord), n) = Zeroes(n)
<1> DEFINE r == LowBits(Zeroes(BitsPerWord), n)
           z == Zeroes(n)
<1>1. BitsPerWord \in Nat /\ n \in Nat
  BY WordWidth
<1>2. Zeroes(BitsPerWord) \in Word
  BY ZeroIsWord
<1>3. \A i \in 1..BitsPerWord : Zeroes(BitsPerWord)[i] = 0
  BY <1>1, ZeroesAre
<1>4. z \in Bits /\ Len(z) = n /\ \A i \in 1..n : z[i] = 0
  BY <1>1, ZeroesAre
<1>5. /\ r \in Bits /\ Len(r) = n
      /\ \A i \in 1..n : r[i] = Zeroes(BitsPerWord)[BitsPerWord - n + i]
  BY <1>2, LowBitsAre
<1> HIDE DEF r, z
<1>6. ASSUME NEW i \in 1..n PROVE r[i] = z[i]
  <2>1. BitsPerWord - n + i \in 1..BitsPerWord
    BY <1>1
  <2> QED
    BY <1>3, <1>4, <1>5, <2>1
<1>7. r = z
  BY <1>4, <1>5, <1>6, SameBits
<1> QED
  BY <1>7 DEF r, z

(* A full accumulator becomes a word of the buffer.                        *)
LEMMA FlushedKeeps ==
    ASSUME NEW w \in AnyWriter, NEW n \in Nat, HasRoom(w, n)
    PROVE  /\ Flushed(w) \in AnyWriter
           /\ BufferBits(Flushed(w)) = BufferBits(w)
           /\ HasRoom(Flushed(w), n)
           /\ Flushed(w).ok = w.ok
           /\ Flushed(w).bits = IF w.bits = BitsPerWord THEN 0 ELSE w.bits
           /\ Flushed(w).accum = w.accum
<1>1. CASE w.bits # BitsPerWord
  <2>1. Flushed(w) = w
    BY <1>1 DEF Flushed
  <2> QED
    BY <1>1, <2>1
<1>2. CASE w.bits = BitsPerWord
  <2> DEFINE flat == FlatWords(w.buffer)
             more == Append(w.buffer, w.accum)
             r == [w EXCEPT !.buffer = more, !.bits = 0]
  <2>1. /\ BitsPerWord \in Nat \ {0} /\ w.capacity \in Nat /\ Len(w.buffer) \in Nat
        /\ w.buffer \in Seq(Word) /\ w.accum \in Word
    BY WordWidth DEF AnyWriter
  <2>2. /\ Append(w.buffer, w.accum) \in Seq(Word)
        /\ Len(Append(w.buffer, w.accum)) = Len(w.buffer) + 1
        /\ FlatWords(Append(w.buffer, w.accum)) = flat \o w.accum
    <3>1. Append(w.buffer, w.accum) \in Seq(Word)
          /\ Len(Append(w.buffer, w.accum)) = Len(w.buffer) + 1
      BY <2>1, AppendProperties
    <3>2. FlatWords(Append(w.buffer, w.accum)) = flat \o w.accum
      BY <2>1, FlatAppend
    <3> QED
      BY <3>1, <3>2
  <2>3. Flushed(w) = r
    BY <1>2 DEF Flushed
  <2>4. /\ r \in AnyWriter /\ r.buffer = Append(w.buffer, w.accum)
        /\ r.accum = w.accum /\ r.bits = 0 /\ r.capacity = w.capacity /\ r.ok = w.ok
    <3>1. more \in Seq(Word) /\ 0 \in 0..BitsPerWord
      BY <2>1, <2>2
    <3>2. r = [w EXCEPT !.buffer = more, !.bits = 0]
      OBVIOUS
    <3> HIDE DEF more, r
    <3>3. /\ r \in AnyWriter /\ r.buffer = more
          /\ r.accum = w.accum /\ r.bits = 0 /\ r.capacity = w.capacity /\ r.ok = w.ok
      BY <3>1, <3>2 DEF AnyWriter
    <3> QED
      BY <3>3 DEF more
  <2>5. BufferBits(w) = flat \o w.accum /\ flat \in Bits /\ w.accum \in Bits
    BY <1>2, <2>1, HeldIs, LowBitsAll, WordIsSeq
  <2> HIDE DEF r
  <2>6. BufferBits(r) = (flat \o w.accum) \o <<>>
    BY <2>1, <2>2, <2>4, HeldIs, LowBitsAll
  <2>7. BufferBits(r) = BufferBits(w)
    BY <2>5, <2>6, NoneJoined, Joining
  <2>8. HasRoom(r, n)
    <3>1. PICK k \in Nat : /\ w.bits + n <= k * BitsPerWord
                           /\ Len(w.buffer) + k <= w.capacity
      BY DEF HasRoom
    <3>2. k >= 1
      BY <1>2, <2>1, <3>1
    <3>3. k - 1 \in Nat /\ (k - 1) * BitsPerWord = k * BitsPerWord - BitsPerWord
      BY <2>1, <3>2
    <3>4. /\ r.bits + n <= (k - 1) * BitsPerWord
          /\ Len(r.buffer) + (k - 1) <= r.capacity
      BY <1>2, <2>1, <2>2, <2>4, <3>1, <3>3
    <3> QED
      BY <3>3, <3>4 DEF HasRoom
  <2> QED
    BY <1>2, <2>3, <2>4, <2>7, <2>8
<1> QED
  BY <1>1, <1>2

(* Zeroes are stored, and the room for what comes after them stays.        *)
LEMMA PutZeroesPuts ==
    ASSUME NEW w \in AnyWriter, w.bits < BitsPerWord,
           NEW n \in Nat \ {0}, NEW m \in Nat, HasRoom(w, n + m)
    PROVE  /\ PutZeroes(w, n) \in AnyWriter
           /\ PutZeroes(w, n).bits < BitsPerWord
           /\ HasRoom(PutZeroes(w, n), m)
           /\ BufferBits(PutZeroes(w, n)) = BufferBits(w) \o Zeroes(n)
           /\ PutZeroes(w, n).ok = w.ok
<1> DEFINE lead == IF w.bits = 0 THEN 0 ELSE Least(BitsPerWord - w.bits, n)
           begun == [w EXCEPT !.accum = ShiftLeft(@, lead), !.bits = @ + lead]
           aligned == Flushed(begun)
           rest == n - lead
           left == rest % BitsPerWord
           q == rest \div BitsPerWord
           r == PutZeroes(w, n)
<1>1. /\ BitsPerWord \in Nat \ {0} /\ w.bits \in 0..BitsPerWord /\ w.bits \in Nat
      /\ w.capacity \in Nat /\ Len(w.buffer) \in Nat /\ w.ok \in BOOLEAN
      /\ w.buffer \in Seq(Word) /\ w.accum \in Word /\ n + m \in Nat
  BY WordWidth DEF AnyWriter
<1>2. /\ lead \in Nat /\ lead <= n /\ w.bits + lead <= BitsPerWord
      /\ lead \in 0..BitsPerWord /\ rest \in Nat
      /\ w.bits + lead < BitsPerWord => (w.bits + lead = 0 \/ rest = 0)
  BY <1>1 DEF Least
<1>3. /\ BufferBits(w) = FlatWords(w.buffer) \o LowBits(w.accum, w.bits)
      /\ FlatWords(w.buffer) \in Bits /\ LowBits(w.accum, w.bits) \in Bits
      /\ BufferBits(w) \in Bits
  BY HeldIs
<1>4. Zeroes(lead) \in Bits /\ Zeroes(rest) \in Bits
      /\ Zeroes(lead) \o Zeroes(rest) = Zeroes(n)
  <2>1. Zeroes(lead) \in Bits /\ Zeroes(rest) \in Bits
    BY <1>2, ZeroesAre
  <2>2. lead + rest = n
    BY <1>2
  <2> HIDE DEF lead, rest
  <2> QED
    BY <1>2, <2>1, <2>2, ZeroesJoined
<1> HIDE DEF lead, rest
<1>5. /\ ShiftLeft(w.accum, lead) \in Word
      /\ LowBits(ShiftLeft(w.accum, lead), w.bits + lead)
            = LowBits(w.accum, w.bits) \o Zeroes(lead)
  BY <1>1, <1>2, ShiftsUp
<1>6. /\ begun \in AnyWriter /\ begun.buffer = w.buffer
      /\ begun.accum = ShiftLeft(w.accum, lead) /\ begun.bits = w.bits + lead
      /\ begun.capacity = w.capacity /\ begun.ok = w.ok
  <2> DEFINE acc == ShiftLeft(w.accum, lead)
             b == w.bits + lead
  <2>1. acc \in Word /\ b \in 0..BitsPerWord
    BY <1>1, <1>2, <1>5
  <2>2. begun = [w EXCEPT !.accum = acc, !.bits = b]
    OBVIOUS
  <2> HIDE DEF acc, b, begun
  <2>3. /\ begun \in AnyWriter /\ begun.buffer = w.buffer
        /\ begun.accum = acc /\ begun.bits = b
        /\ begun.capacity = w.capacity /\ begun.ok = w.ok
    BY <2>1, <2>2 DEF AnyWriter
  <2> QED
    BY <2>3 DEF acc, b
<1> HIDE DEF begun
<1>7. BufferBits(begun) = BufferBits(w) \o Zeroes(lead)
  <2> DEFINE flat == FlatWords(w.buffer)
             low == LowBits(w.accum, w.bits)
             z == Zeroes(lead)
  <2>1. BufferBits(begun) = flat \o (low \o z)
    BY <1>5, <1>6, HeldIs
  <2>2. flat \in Bits /\ low \in Bits /\ z \in Bits /\ BufferBits(w) = flat \o low
    BY <1>3, <1>4
  <2> HIDE DEF flat, low, z
  <2>3. (flat \o low) \o z = flat \o (low \o z)
    BY <2>2, Associates
  <2> QED
    BY <2>1, <2>2, <2>3 DEF z
<1>8. HasRoom(begun, rest + m)
  <2>1. PICK k \in Nat : /\ w.bits + (n + m) <= k * BitsPerWord
                         /\ Len(w.buffer) + k <= w.capacity
    BY DEF HasRoom
  <2>2. (w.bits + lead) + (rest + m) = w.bits + (n + m)
    BY <1>1, <1>2 DEF rest
  <2>3. /\ begun.bits + (rest + m) <= k * BitsPerWord
        /\ Len(begun.buffer) + k <= begun.capacity
    BY <1>6, <2>1, <2>2
  <2> QED
    BY <2>3 DEF HasRoom
<1>9. /\ aligned \in AnyWriter /\ BufferBits(aligned) = BufferBits(begun)
      /\ HasRoom(aligned, rest + m) /\ aligned.ok = begun.ok
      /\ aligned.bits = IF begun.bits = BitsPerWord THEN 0 ELSE begun.bits
  <2>1. rest + m \in Nat
    BY <1>2
  <2> QED
    BY <1>6, <1>8, <2>1, FlushedKeeps
<1>10. r = IF aligned.bits > 0 THEN aligned
           ELSE [aligned EXCEPT
                  !.buffer = @ \o ZeroWords(q),
                  !.accum = IF left > 0 THEN Zeroes(BitsPerWord) ELSE @,
                  !.bits = left]
  BY DEF PutZeroes, begun, rest, lead, ZeroWords
<1> HIDE DEF aligned, r
<1>11. CASE aligned.bits > 0
  <2>1. rest = 0 /\ rest + m = m
    BY <1>1, <1>2, <1>6, <1>9, <1>11
  <2>2. r = aligned /\ aligned.bits < BitsPerWord
    BY <1>1, <1>2, <1>6, <1>9, <1>10, <1>11
  <2>3. Zeroes(lead) = Zeroes(n)
    <3>1. lead = n
      BY <1>2, <2>1 DEF rest
    <3> QED
      BY <3>1
  <2>4. HasRoom(r, m)
    BY <1>9, <2>1, <2>2
  <2>5. BufferBits(r) = BufferBits(w) \o Zeroes(n)
    BY <1>7, <1>9, <2>2, <2>3
  <2> QED
    BY <1>6, <1>9, <2>2, <2>4, <2>5 DEF r
<1>12. CASE ~(aligned.bits > 0)
  <2> DEFINE acc == IF left > 0 THEN Zeroes(BitsPerWord) ELSE aligned.accum
             more == aligned.buffer \o ZeroWords(q)
             flat == FlatWords(aligned.buffer)
  <2>1. /\ aligned.bits = 0 /\ aligned.buffer \in Seq(Word) /\ aligned.accum \in Word
        /\ aligned.capacity \in Nat /\ Len(aligned.buffer) \in Nat
    BY <1>9, <1>12 DEF AnyWriter
  <2>2. /\ q \in Nat /\ left \in 0..(BitsPerWord - 1) /\ rest = q * BitsPerWord + left
        /\ left \in Nat /\ left \in 0..BitsPerWord /\ left < BitsPerWord
    <3>1. q \in Nat /\ left \in 0..(BitsPerWord - 1) /\ rest = q * BitsPerWord + left
      BY <1>1, <1>2, QuotientRest
    <3> HIDE DEF q, left
    <3> QED
      BY <1>1, <3>1
  <2> HIDE DEF q, left
  <2>3. q * BitsPerWord \in Nat
    BY <1>1, <2>2
  <2>4. ZeroWords(q) \in Seq(Word) /\ Len(ZeroWords(q)) = q
    BY <2>2, ZeroWordsAre
  <2>5. /\ more \in Seq(Word) /\ Len(more) = Len(aligned.buffer) + q
        /\ FlatWords(more) = flat \o Zeroes(q * BitsPerWord)
    <3>1. more \in Seq(Word) /\ Len(more) = Len(aligned.buffer) + q
      <4> DEFINE zs == ZeroWords(q)
                 ws == aligned.buffer
      <4>1. zs \in Seq(Word) /\ Len(zs) = q /\ ws \in Seq(Word)
        BY <2>1, <2>4
      <4>2. more = ws \o zs
        OBVIOUS
      <4> HIDE DEF zs, ws, more
      <4>3. ws \o zs \in Seq(Word) /\ Len(ws \o zs) = Len(ws) + Len(zs)
        BY <4>1, ConcatProperties
      <4>4. more \in Seq(Word) /\ Len(more) = Len(ws) + q
        BY <4>1, <4>2, <4>3
      <4> QED
        BY <4>4 DEF ws
    <3>2. FlatWords(more) = flat \o Zeroes(q * BitsPerWord)
      BY <2>1, <2>2, FlatJoined
    <3> QED
      BY <3>1, <3>2
  <2>6. acc \in Word /\ LowBits(acc, left) = Zeroes(left)
    <3>1. CASE left > 0
      BY <2>2, <3>1, ZeroIsWord, LowBitsOfZeroes
    <3>2. CASE ~(left > 0)
      <4>1. left = 0 /\ acc = aligned.accum
        BY <2>2, <3>2
      <4>2. Zeroes(0) \in Bits /\ Len(Zeroes(0)) = 0
        BY ZeroesAre
      <4>3. Zeroes(0) = <<>>
        BY <4>2, EmptySeq DEF Bits
      <4> QED
        BY <2>1, <4>1, <4>3, LowBitsAll
    <3> QED
      BY <3>1, <3>2
  <2> HIDE DEF acc, more
  <2>7. r = [aligned EXCEPT !.buffer = more, !.accum = acc, !.bits = left]
    BY <1>10, <1>12 DEF acc, more
  <2>8. /\ r \in AnyWriter /\ r.buffer = more /\ r.accum = acc /\ r.bits = left
        /\ r.capacity = aligned.capacity /\ r.ok = aligned.ok
    BY <1>9, <2>2, <2>5, <2>6, <2>7 DEF AnyWriter
  <2>9. BufferBits(aligned) = flat /\ flat \in Bits
    <3>1. /\ BufferBits(aligned) = flat \o LowBits(aligned.accum, 0) /\ flat \in Bits
      BY <1>9, <2>1, HeldIs
    <3>2. LowBits(aligned.accum, 0) = <<>>
      BY <2>1, LowBitsAll
    <3> QED
      BY <3>1, <3>2, NoneJoined
  <2>10. BufferBits(r) = flat \o Zeroes(rest)
    <3> DEFINE a == Zeroes(q * BitsPerWord)
               b == Zeroes(left)
    <3>1. BufferBits(r) = (flat \o a) \o b
      BY <2>5, <2>6, <2>8, HeldIs
    <3>2. a \in Bits /\ b \in Bits /\ a \o b = Zeroes(rest)
      BY <2>2, <2>3, ZeroesAre, ZeroesJoined
    <3> HIDE DEF a, b, flat
    <3>3. (flat \o a) \o b = flat \o (a \o b)
      BY <2>9, <3>2, Associates
    <3> QED
      BY <3>1, <3>2, <3>3
  <2>11. BufferBits(r) = BufferBits(w) \o Zeroes(n)
    <3> DEFINE held == BufferBits(w)
               a == Zeroes(lead)
               b == Zeroes(rest)
    <3>1. BufferBits(r) = (held \o a) \o b
      BY <1>7, <1>9, <2>9, <2>10
    <3>2. held \in Bits /\ a \in Bits /\ b \in Bits /\ a \o b = Zeroes(n)
      BY <1>3, <1>4
    <3> HIDE DEF held, a, b
    <3>3. (held \o a) \o b = held \o (a \o b)
      BY <3>2, Associates
    <3>4. BufferBits(r) = held \o Zeroes(n)
      BY <3>1, <3>2, <3>3
    <3> QED
      BY <3>4 DEF held
  <2>12. HasRoom(r, m)
    <3>1. PICK k \in Nat : /\ aligned.bits + (rest + m) <= k * BitsPerWord
                           /\ Len(aligned.buffer) + k <= aligned.capacity
      BY <1>9 DEF HasRoom
    <3>2. q * BitsPerWord <= k * BitsPerWord
      BY <1>1, <2>1, <2>2, <2>3, <3>1
    <3>3. k >= q
      BY <1>1, <2>2, <3>2
    <3>4. k - q \in Nat /\ (k - q) * BitsPerWord = k * BitsPerWord - q * BitsPerWord
      BY <1>1, <2>2, <3>3
    <3>5. /\ r.bits + m <= (k - q) * BitsPerWord
          /\ Len(r.buffer) + (k - q) <= r.capacity
      BY <1>1, <2>1, <2>2, <2>3, <2>5, <2>8, <3>1, <3>4
    <3> QED
      BY <3>4, <3>5 DEF HasRoom
  <2> QED
    <3>1. r \in AnyWriter /\ r.bits < BitsPerWord /\ r.ok = w.ok
      BY <1>6, <1>9, <2>2, <2>8
    <3> QED
      BY <2>11, <2>12, <3>1 DEF r
<1> QED
  BY <1>11, <1>12 DEF r

-----------------------------------------------------------------------------
(* The functions of the interface.  A writer as it is between two calls;   *)
(* and what a call comes to: it fails, or the bits s have been added.      *)
Writers == {w \in AnyWriter : RoomKept(w)}

Puts(r, w, s) ==
    /\ r \in Writers
    /\ r.ok => w.ok /\ BufferBits(r) = BufferBits(w) \o s

LEMMA WriterFields ==
    ASSUME NEW w \in Writers
    PROVE  /\ w \in AnyWriter /\ RoomKept(w)
           /\ w.buffer \in Seq(Word) /\ w.accum \in Word /\ w.bits \in Nat
           /\ w.bits \in 0..BitsPerWord /\ w.bits < BitsPerWord
           /\ w.capacity \in Nat /\ w.ok \in BOOLEAN /\ Len(w.buffer) \in Nat
           /\ BufferBits(w) \in Bits
<1>1. w \in AnyWriter /\ RoomKept(w)
  BY DEF Writers
<1>2. BufferBits(w) \in Bits
  BY <1>1, HeldIs
<1> QED
  BY <1>1, <1>2, WordWidth DEF AnyWriter, RoomKept

(* A writer whose capacity has grown, or whose growing has failed.         *)
LEMMA OtherCapacity ==
    ASSUME NEW w \in Writers, NEW c \in Nat, c >= w.capacity
    PROVE  /\ [w EXCEPT !.capacity = c] \in Writers
           /\ BufferBits([w EXCEPT !.capacity = c]) = BufferBits(w)
           /\ [w EXCEPT !.capacity = c].capacity = c
           /\ [w EXCEPT !.capacity = c].bits = w.bits
           /\ [w EXCEPT !.capacity = c].buffer = w.buffer
           /\ [w EXCEPT !.capacity = c].ok = w.ok
           /\ [w EXCEPT !.ok = FALSE] \in Writers
           /\ [w EXCEPT !.ok = FALSE].bits = w.bits
           /\ BufferBits([w EXCEPT !.ok = FALSE]) = BufferBits(w)
           /\ [w EXCEPT !.ok = FALSE].ok = FALSE
<1> DEFINE r == [w EXCEPT !.capacity = c]
           s == [w EXCEPT !.ok = FALSE]
<1>1. /\ w \in AnyWriter /\ RoomKept(w) /\ w.bits \in Nat /\ w.capacity \in Nat
      /\ Len(w.buffer) \in Nat
  BY WriterFields
<1>2. /\ r \in AnyWriter /\ r.buffer = w.buffer /\ r.accum = w.accum
      /\ r.bits = w.bits /\ r.capacity = c /\ r.ok = w.ok
  BY <1>1 DEF AnyWriter
<1>3. /\ s \in AnyWriter /\ s.buffer = w.buffer /\ s.accum = w.accum
      /\ s.bits = w.bits /\ s.capacity = w.capacity /\ s.ok = FALSE
  BY <1>1 DEF AnyWriter
<1> HIDE DEF r, s
<1>4. RoomKept(r) /\ RoomKept(s)
  BY <1>1, <1>2, <1>3 DEF RoomKept, Words
<1>5. BufferBits(r) = BufferBits(w) /\ BufferBits(s) = BufferBits(w)
  BY <1>2, <1>3 DEF BufferBits
<1> QED
  BY <1>2, <1>3, <1>4, <1>5 DEF Writers, r, s

(* The buffer grows by whole increments, up to what is needed or beyond,   *)
(* or the call fails.                                                      *)
LEMMA Grows ==
    ASSUME NEW w \in Writers, NEW n \in Nat
    PROVE  /\ Grow(w, n) \in Writers
           /\ BufferBits(Grow(w, n)) = BufferBits(w)
           /\ Grow(w, n).bits = w.bits
           /\ Grow(w, n).ok => w.ok /\ HasRoom(Grow(w, n), n)
<1> DEFINE need == WordsNeeded(w, n)
           more == RoundedUp(w, need)
           x == w.bits + n + BitsPerWord - 1
           k == x \div BitsPerWord
           odd == (need - w.capacity) % Increment
           r == Grow(w, n)
<1>1. /\ BitsPerWord \in Nat \ {0} /\ w.bits \in Nat /\ w.capacity \in Nat
      /\ Len(w.buffer) \in Nat /\ w.ok \in BOOLEAN
  BY WordWidth, WriterFields
<1>2. x \in Nat /\ need = Len(w.buffer) + k
  BY <1>1 DEF WordsNeeded, Words
<1>3. k \in Nat /\ w.bits + n <= k * BitsPerWord
  <2>1. /\ k \in Nat /\ x % BitsPerWord \in 0..(BitsPerWord - 1)
        /\ x = k * BitsPerWord + (x % BitsPerWord)
    BY <1>1, <1>2, QuotientRest
  <2>2. k * BitsPerWord \in Nat
    <3> HIDE DEF k
    <3> QED
      BY <1>1, <2>1
  <2> DEFINE m == x % BitsPerWord
             p == k * BitsPerWord
  <2>3. m \in 0..(BitsPerWord - 1) /\ p \in Nat /\ w.bits + n + BitsPerWord - 1 = p + m
    BY <2>1, <2>2
  <2> HIDE DEF m, p
  <2>4. w.bits + n <= p
    BY <1>1, <2>3
  <2> QED
    BY <2>1, <2>4 DEF p
<1> HIDE DEF k, x
<1>4. need \in Nat
  BY <1>1, <1>2, <1>3
<1> HIDE DEF need
<1>5. ASSUME NEW c \in Nat, c >= need, NEW g \in Writers,
             g.bits = w.bits, g.buffer = w.buffer, g.capacity = c
      PROVE  HasRoom(g, n)
  <2>1. g.bits + n <= k * BitsPerWord /\ Len(g.buffer) + k <= g.capacity
    BY <1>1, <1>2, <1>3, <1>5
  <2> QED
    BY <1>3, <2>1 DEF HasRoom
<1>6. CASE w.capacity >= need
  <2>1. r = w
    BY <1>6 DEF Grow, need
  <2> QED
    BY <1>1, <1>5, <1>6, <2>1
<1>7. CASE ~(w.capacity >= need)
  <2>1. need - w.capacity \in Nat
    BY <1>1, <1>4, <1>7
  <2>2. odd \in 0..(Increment - 1) /\ Increment \in Nat \ {0}
    BY <2>1, WriterAssumption
  <2>3. more = IF odd = 0 THEN need ELSE need + Increment - odd
    BY DEF RoundedUp
  <2> HIDE DEF odd
  <2>4. more \in Nat /\ more >= need /\ more >= w.capacity
    BY <1>1, <1>4, <1>7, <2>2, <2>3
  <2> HIDE DEF more
  <2>5. r = IF more > Memory THEN [w EXCEPT !.ok = FALSE]
            ELSE [w EXCEPT !.capacity = more]
    BY <1>7 DEF Grow, need, more
  <2>6. CASE more > Memory
    <3>1. r = [w EXCEPT !.ok = FALSE]
      BY <2>5, <2>6
    <3>2. /\ [w EXCEPT !.ok = FALSE] \in Writers /\ [w EXCEPT !.ok = FALSE].bits = w.bits
          /\ BufferBits([w EXCEPT !.ok = FALSE]) = BufferBits(w)
          /\ [w EXCEPT !.ok = FALSE].ok = FALSE
      BY <2>4, OtherCapacity
    <3> QED
      BY <3>1, <3>2
  <2>7. CASE ~(more > Memory)
    <3> DEFINE g == [w EXCEPT !.capacity = more]
    <3>1. r = g
      BY <2>5, <2>7
    <3>2. /\ g \in Writers /\ BufferBits(g) = BufferBits(w) /\ g.capacity = more
          /\ g.bits = w.bits /\ g.buffer = w.buffer /\ g.ok = w.ok
      BY <2>4, OtherCapacity
    <3> HIDE DEF g
    <3>3. HasRoom(g, n)
      BY <1>5, <2>4, <3>2
    <3> QED
      BY <3>1, <3>2, <3>3
  <2> QED
    BY <2>6, <2>7
<1> QED
  BY <1>6, <1>7 DEF r

(* The test at the beginning: what it takes for room is room.              *)
LEMMA Ensures ==
    ASSUME NEW w \in Writers, NEW slack \in Nat, NEW n \in Nat,
           w.bits + n <= (slack + 1) * BitsPerWord
    PROVE  /\ Ensure(w, slack, n) \in Writers
           /\ BufferBits(Ensure(w, slack, n)) = BufferBits(w)
           /\ Ensure(w, slack, n).bits = w.bits
           /\ Ensure(w, slack, n).ok => w.ok /\ HasRoom(Ensure(w, slack, n), n)
<1>1. w.capacity \in Nat /\ Len(w.buffer) \in Nat
  BY WriterFields
<1>2. CASE w.capacity <= Len(w.buffer) + slack
  <2>1. Ensure(w, slack, n) = Grow(w, n)
    BY <1>2 DEF Ensure, Words
  <2> QED
    BY <2>1, Grows
<1>3. CASE ~(w.capacity <= Len(w.buffer) + slack)
  <2>1. Ensure(w, slack, n) = w
    BY <1>3 DEF Ensure, Words
  <2>2. slack + 1 \in Nat /\ Len(w.buffer) + (slack + 1) <= w.capacity
    <3> DEFINE c == w.capacity
               l == Len(w.buffer)
    <3>1. c \in Nat /\ l \in Nat /\ ~(c <= l + slack)
      BY <1>1, <1>3
    <3> HIDE DEF c, l
    <3>2. slack + 1 \in Nat /\ l + (slack + 1) <= c
      BY <3>1
    <3> QED
      BY <3>2 DEF c, l
  <2>3. HasRoom(w, n)
    BY <2>2 DEF HasRoom
  <2> QED
    BY <2>1, <2>3
<1> QED
  BY <1>2, <1>3

LEMMA AtLeast ==
    ASSUME NEW n \in Nat, NEW w \in Nat \ {0}
    PROVE  n * w \in Nat /\ n <= n * w /\ (n + 1) * w = n * w + w
OBVIOUS

LEMMA RawPuts ==
    ASSUME NEW w \in Writers, NEW val \in Bits, Len(val) <= BitsPerWord
    PROVE  Puts(WriteRaw(w, val), w, val)
<1>1. /\ BitsPerWord \in Nat \ {0} /\ w.bits \in Nat /\ w.bits < BitsPerWord
      /\ BufferBits(w) \in Bits /\ Len(val) \in Nat
  BY WordWidth, WriterFields DEF Bits
<1>2. CASE val = <<>>
  <2>1. WriteRaw(w, val) = w
    BY <1>2 DEF WriteRaw
  <2> QED
    BY <1>1, <1>2, <2>1, NoneJoined DEF Puts
<1>3. CASE val # <<>>
  <2> DEFINE n == Len(val)
             g == Ensure(w, n, n)
  <2>1. n \in 1..BitsPerWord
    <3>1. n # 0
      BY <1>3, EmptySeq DEF Bits
    <3> QED
      BY <1>1, <3>1
  <2>2. w.bits + n <= (n + 1) * BitsPerWord
    <3> HIDE DEF n
    <3>1. n \in Nat
      BY <1>1 DEF n
    <3> QED
      BY <1>1, <3>1, AtLeast
  <2>3. /\ g \in Writers /\ BufferBits(g) = BufferBits(w)
        /\ g.ok => w.ok /\ HasRoom(g, n)
    BY <1>1, <2>2, Ensures
  <2>4. WriteRaw(w, val) = IF g.ok THEN PutBits(g, val) ELSE g
    BY <1>3 DEF WriteRaw
  <2> HIDE DEF g
  <2>5. CASE g.ok
    <3>1. g \in AnyWriter /\ g.bits < BitsPerWord
      BY <2>3, WriterFields
    <3>2. /\ PutBits(g, val) \in AnyWriter /\ RoomKept(PutBits(g, val))
          /\ BufferBits(PutBits(g, val)) = BufferBits(g) \o val
      BY <2>1, <2>3, <2>5, <3>1, PutBitsPuts
    <3> QED
      BY <2>3, <2>4, <2>5, <3>2 DEF Puts, Writers
  <2>6. CASE ~g.ok
    BY <2>3, <2>4, <2>6 DEF Puts
  <2> QED
    BY <2>5, <2>6
<1> QED
  BY <1>2, <1>3

LEMMA ZeroesPut ==
    ASSUME NEW w \in Writers, NEW n \in Nat
    PROVE  Puts(WriteZeroes(w, n), w, Zeroes(n))
<1>1. /\ BitsPerWord \in Nat \ {0} /\ w.bits \in Nat /\ w.bits < BitsPerWord
      /\ BufferBits(w) \in Bits
  BY WordWidth, WriterFields
<1>2. CASE n = 0
  <2>1. WriteZeroes(w, n) = w
    BY <1>2 DEF WriteZeroes
  <2>2. Zeroes(n) = <<>>
    <3>1. Zeroes(n) \in Bits /\ Len(Zeroes(n)) = 0
      BY <1>2, ZeroesAre
    <3> QED
      BY <3>1, EmptySeq DEF Bits
  <2> QED
    BY <1>1, <2>1, <2>2, NoneJoined DEF Puts
<1>3. CASE n # 0
  <2> DEFINE g == Ensure(w, n, n)
             r == PutZeroes(g, n)
  <2>1. w.bits + n <= (n + 1) * BitsPerWord
    BY <1>1, AtLeast
  <2>2. /\ g \in Writers /\ BufferBits(g) = BufferBits(w)
        /\ g.ok => w.ok /\ HasRoom(g, n)
    BY <2>1, Ensures
  <2>3. WriteZeroes(w, n) = IF g.ok THEN r ELSE g
    BY <1>3 DEF WriteZeroes
  <2> HIDE DEF g
  <2>4. CASE g.ok
    <3>1. g \in AnyWriter /\ g.bits < BitsPerWord
      BY <2>2, WriterFields
    <3>2. n \in Nat \ {0} /\ 0 \in Nat /\ HasRoom(g, n + 0)
      <4>1. n + 0 = n
        OBVIOUS
      <4> QED
        BY <1>3, <2>2, <2>4, <4>1
    <3>3. /\ r \in AnyWriter /\ r.bits < BitsPerWord /\ HasRoom(r, 0)
          /\ BufferBits(r) = BufferBits(g) \o Zeroes(n)
      BY <3>1, <3>2, PutZeroesPuts
    <3>4. RoomKept(r)
      BY <3>3, RoomKeptIs
    <3> QED
      BY <2>2, <2>3, <2>4, <3>3, <3>4 DEF Puts, Writers
  <2>5. CASE ~g.ok
    BY <2>2, <2>3, <2>5 DEF Puts
  <2> QED
    BY <2>4, <2>5
<1> QED
  BY <1>2, <1>3

(* One call after the other.                                               *)
LEMMA PutsMore ==
    ASSUME NEW w \in Writers, NEW v, NEW r, NEW s \in Bits, NEW t \in Bits,
           Puts(v, w, s), Puts(r, v, t)
    PROVE  Puts(r, w, s \o t)
<1>1. BufferBits(w) \in Bits
  BY WriterFields
<1>2. (BufferBits(w) \o s) \o t = BufferBits(w) \o (s \o t)
  BY <1>1, Associates
<1> QED
  BY <1>2 DEF Puts

LEMMA ZeroesThenRawPuts ==
    ASSUME NEW w \in Writers, NEW n \in Nat, NEW val \in Bits, Len(val) <= BitsPerWord
    PROVE  Puts(ZeroesThenRaw(w, n, val), w, Zeroes(n) \o val)
<1> DEFINE z == WriteZeroes(w, n)
<1>1. Puts(z, w, Zeroes(n)) /\ Zeroes(n) \in Bits
  BY ZeroesPut, ZeroesAre
<1>2. z \in Writers
  BY <1>1 DEF Puts
<1>3. ZeroesThenRaw(w, n, val) = IF z.ok THEN WriteRaw(z, val) ELSE z
  BY DEF ZeroesThenRaw
<1> HIDE DEF z
<1>4. CASE z.ok
  <2>1. Puts(WriteRaw(z, val), z, val)
    BY <1>2, RawPuts
  <2>2. Puts(WriteRaw(z, val), w, Zeroes(n) \o val)
    BY <1>1, <2>1, PutsMore
  <2> QED
    BY <1>3, <1>4, <2>2
<1>5. CASE ~z.ok
  BY <1>2, <1>3, <1>5 DEF Puts
<1> QED
  BY <1>4, <1>5

LEMMA OneIs == <<1>> \in Bits /\ Len(<<1>>) = 1
BY DEF Bits, Bit

LEMMA UnaryPuts ==
    ASSUME NEW w \in Writers, NEW n \in Nat
    PROVE  /\ Puts(WriteUnary(w, n), w, Append(Zeroes(n), 1))
           /\ Append(Zeroes(n), 1) \in Bits
<1> DEFINE code == Append(Zeroes(n), 1)
<1>1. Zeroes(n) \in Bits /\ Len(Zeroes(n)) = n /\ BitsPerWord \in Nat \ {0}
  BY ZeroesAre, WordWidth
<1>2. code = Zeroes(n) \o <<1>>
  BY <1>1, AppendIsConcat DEF Bits, Bit
<1>3. code \in Bits /\ Len(code) = n + 1
  BY <1>1, AppendProperties DEF Bits, Bit
<1>4. CASE n < BitsPerWord
  <2>1. WriteUnary(w, n) = WriteRaw(w, code)
    BY <1>4 DEF WriteUnary
  <2>2. Len(code) <= BitsPerWord
    BY <1>1, <1>3, <1>4
  <2> HIDE DEF code
  <2>3. Puts(WriteRaw(w, code), w, code)
    BY <1>3, <2>2, RawPuts
  <2> QED
    BY <1>3, <2>1, <2>3 DEF code
<1>5. CASE ~(n < BitsPerWord)
  <2>1. WriteUnary(w, n) = ZeroesThenRaw(w, n, <<1>>)
    BY <1>5 DEF WriteUnary
  <2>2. Puts(ZeroesThenRaw(w, n, <<1>>), w, Zeroes(n) \o <<1>>)
    <3>1. 1 <= BitsPerWord
      BY <1>1
    <3> QED
      BY <3>1, OneIs, ZeroesThenRawPuts
  <2> QED
    BY <1>2, <1>3, <2>1, <2>2
<1> QED
  BY <1>4, <1>5

-----------------------------------------------------------------------------
(* Rice codes.                                                             *)
LEMMA FoldIs ==
    ASSUME NEW v \in Int
    PROVE  Fold(v) \in Nat
BY DEF Fold

LEMMA PowerIs ==
    ASSUME NEW n \in 0..BitsPerWord
    PROVE  2^n \in Nat \ {0}
<1> DEFINE wrong == {m \in 0..BitsPerWord : 2^m \notin Nat \ {0}}
<1>1. SUFFICES ASSUME wrong # {} PROVE FALSE
  OBVIOUS
<1>2. wrong \subseteq Nat
  BY WordWidth
<1>3. PICK m \in wrong : \A j \in wrong : m <= j
  <2> HIDE DEF wrong
  <2> QED
    BY <1>1, <1>2, LeastNumber
<1>4. m # 0
  <2>1. 2^0 \in Nat \ {0}
    BY PowerAssumption
  <2>2. 2^m \notin Nat \ {0}
    OBVIOUS
  <2> QED
    BY <2>1, <2>2
<1>5. m \in 1..BitsPerWord /\ m - 1 \in 0..BitsPerWord /\ ~ (m <= m - 1)
  BY <1>4, WordWidth
<1>6. m - 1 \notin wrong
  <2> HIDE DEF wrong
  <2> QED
    BY <1>3, <1>5
<1>7. 2^(m - 1) \in Nat \ {0}
  BY <1>5, <1>6
<1>8. 2^m = 2 * 2^(m - 1)
  BY <1>5, PowerAssumption
<1>9. \A p \in Nat \ {0} : 2 * p \in Nat \ {0}
  OBVIOUS
<1> QED
  BY <1>7, <1>8, <1>9

LEMMA HalvesAre ==
    ASSUME NEW u \in Nat, NEW p \in Nat \ {0}
    PROVE  /\ u \div p \in Nat /\ u \div (2 * p) \in Nat
           /\ u \div p = 2 * (u \div (2 * p)) + ((u \div p) % 2)
<1> DEFINE q == u \div p
           r == u % p
<1>1. q \in Nat /\ r \in 0..(p - 1) /\ u = q * p + r
  BY QuotientRest
<1> HIDE DEF q, r
<1> DEFINE h == q \div 2
           b == q % 2
<1>2. h \in Nat /\ b \in {0, 1} /\ q = 2 * h + b
  BY <1>1
<1> HIDE DEF h, b
<1>3. (b * p) + r \in 0..(2 * p - 1)
  <2>1. CASE b = 0
    BY <1>1, <2>1
  <2>2. CASE b = 1
    BY <1>1, <2>2
  <2> QED
    BY <1>2, <2>1, <2>2
<1>4. u = h * (2 * p) + ((b * p) + r)
  <2>1. (2 * h + b) * p = h * (2 * p) + b * p
    BY <1>1, <1>2
  <2>2. h * (2 * p) \in Nat /\ b * p \in Nat
    BY <1>1, <1>2
  <2> QED
    BY <1>1, <1>2, <2>1, <2>2
<1>5. u \div (2 * p) = h
  <2> DEFINE w == 2 * p
             x == (b * p) + r
  <2>1. w \in Nat \ {0} /\ x \in 0..(w - 1)
    BY <1>3
  <2> HIDE DEF w, x
  <2>2. (h * w + x) \div w = h
    BY <1>2, <2>1, QuotientOf
  <2> QED
    BY <1>4, <2>2 DEF w, x
<1>6. u \div p = q
  BY DEF q
<1>7. q % 2 = b
  BY DEF b
<1> QED
  BY <1>1, <1>2, <1>5, <1>6, <1>7

LEMMA BinaryIs ==
    ASSUME NEW u \in Nat, NEW k \in 0..BitsPerWord
    PROVE  Binary(u, k) \in Bits /\ Len(Binary(u, k)) = k /\ u \div 2^k \in Nat
<1>1. BitsPerWord \in Nat /\ k \in Nat
  BY WordWidth
<1>2. ASSUME NEW i \in 1..k PROVE (u \div 2^(k - i)) % 2 \in Bit
  <2> DEFINE p == 2^(k - i)
  <2>1. k - i \in 0..BitsPerWord
    BY <1>1
  <2>2. p \in Nat \ {0}
    BY <2>1, PowerIs
  <2> HIDE DEF p
  <2>3. u \div p \in Nat
    BY <2>2, QuotientRest
  <2> DEFINE q == u \div p
  <2> HIDE DEF q
  <2>4. q % 2 \in {0, 1}
    <3>1. q \in Nat
      BY <2>3 DEF q
    <3> QED
      BY <3>1
  <2> QED
    BY <2>4 DEF q, p, Bit
<1>3. Binary(u, k) \in [1..k -> Bit]
  BY <1>2 DEF Binary
<1>4. Binary(u, k) \in Bits /\ Len(Binary(u, k)) = k
  BY <1>1, <1>3 DEF Bits
<1>5. u \div 2^k \in Nat
  <2> DEFINE p == 2^k
  <2>1. p \in Nat \ {0}
    BY PowerIs
  <2> HIDE DEF p
  <2>2. u \div p \in Nat
    BY <2>1, QuotientRest
  <2> QED
    BY <2>2 DEF p
<1> QED
  BY <1>4, <1>5

(* The code is the zeroes and the pattern.                                 *)
LEMMA RiceCodeIs ==
    ASSUME NEW v \in Int, NEW k \in Nat, k <= BitsPerWord - 2
    PROVE  LET u == Fold(v)
               msbs == u \div 2^k
           IN  /\ msbs \in Nat
               /\ Zeroes(msbs) \in Bits /\ Len(Zeroes(msbs)) = msbs
               /\ Pattern(u, k) \in Bits /\ Len(Pattern(u, k)) = 1 + k
               /\ RiceCode(v, k) = Zeroes(msbs) \o Pattern(u, k)
               /\ RiceCode(v, k) \in Bits /\ Len(RiceCode(v, k)) = msbs + (1 + k)
<1> DEFINE u == Fold(v)
           msbs == u \div 2^k
           z == Zeroes(msbs)
           b == Binary(u, k)
           p == Pattern(u, k)
<1>1. k \in 0..BitsPerWord /\ u \in Nat
  BY WordWidth, FoldIs
<1>2. b \in Bits /\ Len(b) = k /\ msbs \in Nat
  BY <1>1, BinaryIs
<1>3. z \in Bits /\ Len(z) = msbs
  BY <1>2, ZeroesAre
<1>4. p = <<1>> \o b
  BY DEF Pattern
<1>5. RiceCode(v, k) = Append(z, 1) \o b
  BY DEF RiceCode
<1> HIDE DEF z, b, p, u, msbs
<1>6. Append(z, 1) = z \o <<1>>
  BY <1>3, AppendIsConcat DEF Bits, Bit
<1>7. (z \o <<1>>) \o b = z \o (<<1>> \o b)
  BY <1>2, <1>3, OneIs, Associates
<1>8. p \in Bits /\ Len(p) = 1 + k
  BY <1>2, <1>4, OneIs, Joining
<1>9. RiceCode(v, k) = z \o p
  BY <1>4, <1>5, <1>6, <1>7
<1>10. z \o p \in Bits /\ Len(z \o p) = msbs + (1 + k)
  BY <1>3, <1>8, Joining
<1> QED
  BY <1>2, <1>3, <1>8, <1>9, <1>10 DEF z, p, u, msbs

LEMMA RiceSignedPuts ==
    ASSUME NEW w \in Writers, NEW v \in Int, NEW k \in Nat, k <= BitsPerWord - 2
    PROVE  Puts(WriteRiceSigned(w, v, k), w, RiceCode(v, k))
<1> DEFINE u == Fold(v)
           msbs == u \div 2^k
           p == Pattern(u, k)
           code == RiceCode(v, k)
<1>1. /\ msbs \in Nat /\ p \in Bits /\ Len(p) = 1 + k
      /\ code = Zeroes(msbs) \o p /\ code \in Bits /\ Len(code) = msbs + (1 + k)
      /\ BitsPerWord \in Nat
  BY RiceCodeIs, WordWidth
<1>2. WriteRiceSigned(w, v, k) = IF 1 + k + msbs <= BitsPerWord
                                 THEN WriteRaw(w, Zeroes(msbs) \o p)
                                 ELSE ZeroesThenRaw(w, msbs, p)
  BY DEF WriteRiceSigned
<1> HIDE DEF u, msbs, p, code
<1>3. CASE 1 + k + msbs <= BitsPerWord
  <2>1. Len(code) <= BitsPerWord
    BY <1>1, <1>3
  <2>2. Puts(WriteRaw(w, code), w, code)
    BY <1>1, <2>1, RawPuts
  <2> QED
    BY <1>1, <1>2, <1>3, <2>2 DEF code
<1>4. CASE ~(1 + k + msbs <= BitsPerWord)
  <2>1. Len(p) <= BitsPerWord
    BY <1>1
  <2>2. Puts(ZeroesThenRaw(w, msbs, p), w, Zeroes(msbs) \o p)
    BY <1>1, <2>1, ZeroesThenRawPuts
  <2> QED
    BY <1>1, <1>2, <1>4, <2>2 DEF code
<1> QED
  BY <1>3, <1>4

(* A variable that holds a number holds it with zeroes before it.          *)
LEMMA ExtendedAgain ==
    ASSUME NEW m \in Nat, NEW val \in Bits, m + Len(val) <= BitsPerWord
    PROVE  Extended(Zeroes(m) \o val) = Extended(val)
<1> DEFINE n == Len(val)
           z == Zeroes(m)
           a == Zeroes(BitsPerWord - (m + n))
<1>1. /\ BitsPerWord \in Nat /\ n \in Nat /\ BitsPerWord - (m + n) \in Nat
      /\ (BitsPerWord - (m + n)) + m = BitsPerWord - n
  BY WordWidth DEF Bits
<1>2. z \in Bits /\ Len(z) = m /\ a \in Bits
  BY <1>1, ZeroesAre
<1>3. a \o z = Zeroes(BitsPerWord - n)
  BY <1>1, ZeroesJoined
<1>4. Len(z \o val) = m + n
  <2> HIDE DEF z
  <2> QED
    BY <1>2, Joining
<1>5. Extended(z \o val) = a \o (z \o val)
  BY <1>4 DEF Extended
<1>6. Extended(val) = (a \o z) \o val
  BY <1>3 DEF Extended
<1> HIDE DEF a, z
<1>7. (a \o z) \o val = a \o (z \o val)
  BY <1>2, Associates
<1> QED
  BY <1>5, <1>6, <1>7 DEF z

LEMMA RiceOfBlockPuts ==
    ASSUME NEW w \in Writers, NEW v \in Int, NEW k \in Nat, k <= BitsPerWord - 2
    PROVE  Puts(WriteRiceOfBlock(w, v, k), w, RiceCode(v, k))
<1> DEFINE u == Fold(v)
           msbs == u \div 2^k
           p == Pattern(u, k)
           code == RiceCode(v, k)
           slack == w.bits + msbs + 1
           fits == w.bits > 0 /\ w.bits + msbs + 1 + k < BitsPerWord
           g == Ensure(w, slack, msbs + 1 + k)
           quick == [w EXCEPT !.accum = BitOr(ShiftLeft(@, msbs + 1 + k), Extended(p)),
                              !.bits = @ + msbs + 1 + k]
           ready == IF msbs = 0 THEN g ELSE PutZeroes(g, msbs)
           r == WriteRiceOfBlock(w, v, k)
<1>1. /\ msbs \in Nat /\ p \in Bits /\ Len(p) = 1 + k
      /\ code = Zeroes(msbs) \o p /\ code \in Bits /\ Len(code) = msbs + (1 + k)
      /\ BitsPerWord \in Nat \ {0}
  <2>1. BitsPerWord \in Nat \ {0}
    BY WordWidth
  <2> QED
    BY <2>1, RiceCodeIs
<1>2. r = IF fits THEN quick ELSE IF ~g.ok THEN g ELSE PutBits(ready, p)
  BY DEF WriteRiceOfBlock
<1>3. /\ w \in AnyWriter /\ w.bits \in Nat /\ w.bits < BitsPerWord /\ RoomKept(w)
      /\ w.capacity \in Nat /\ Len(w.buffer) \in Nat
  BY WriterFields
<1> HIDE DEF u, msbs, p, code, r
<1>4. CASE fits
  <2>1. msbs + 1 + k = Len(code) /\ Len(code) < BitsPerWord - w.bits
        /\ w.bits + msbs + 1 + k = w.bits + Len(code)
        /\ Len(code) \in 1..BitsPerWord /\ msbs + Len(p) <= BitsPerWord
    <3> DEFINE n == Len(code)
               l == Len(p)
               b == w.bits
    <3>1. /\ msbs \in Nat /\ l = 1 + k /\ n = msbs + (1 + k) /\ BitsPerWord \in Nat
          /\ b \in Nat /\ b > 0 /\ b + msbs + 1 + k < BitsPerWord /\ k \in Nat
      BY <1>1, <1>3, <1>4
    <3> HIDE DEF n, l, b
    <3>2. /\ msbs + 1 + k = n /\ n < BitsPerWord - b
          /\ b + msbs + 1 + k = b + n /\ n \in 1..BitsPerWord
          /\ msbs + l <= BitsPerWord
      BY ONLY <3>1
    <3> QED
      BY <3>2 DEF n, l, b
  <2>2. Extended(p) = Extended(code)
    BY <1>1, <2>1, ExtendedAgain
  <2>3. quick = PutBits(w, code)
    BY <2>1, <2>2 DEF PutBits
  <2>4. HasRoom(w, Len(code))
    <3>1. 1 \in Nat /\ w.bits + Len(code) <= 1 * BitsPerWord
      BY <1>1, <1>3, <2>1
    <3>2. Len(w.buffer) + 1 <= w.capacity
      BY <1>3, <1>4 DEF RoomKept, Words
    <3> QED
      BY <3>1, <3>2 DEF HasRoom
  <2>5. /\ PutBits(w, code) \in AnyWriter /\ RoomKept(PutBits(w, code))
        /\ BufferBits(PutBits(w, code)) = BufferBits(w) \o code
        /\ PutBits(w, code).ok = w.ok
    BY <1>1, <1>3, <2>1, <2>4, PutBitsPuts
  <2>6. r = PutBits(w, code)
    BY <1>2, <1>4, <2>3
  <2> QED
    BY <2>5, <2>6 DEF Puts, Writers, r, code
<1>5. CASE ~fits
  <2>1. slack \in Nat /\ msbs + 1 + k \in Nat
    BY <1>1, <1>3
  <2>2. w.bits + (msbs + 1 + k) <= (slack + 1) * BitsPerWord
    <3>1. w.bits + (msbs + 1 + k) = slack + k
      BY <1>1, <1>3
    <3> HIDE DEF slack
    <3> DEFINE a == slack * BitsPerWord
               c == (slack + 1) * BitsPerWord
               b == w.bits + (msbs + 1 + k)
    <3>2. slack <= a /\ c = a + BitsPerWord /\ a \in Nat
      BY <1>1, <2>1, AtLeast
    <3>3. b = slack + k
      BY <3>1
    <3> HIDE DEF a, b, c
    <3>4. b <= c
      BY <1>1, <2>1, <3>2, <3>3
    <3> QED
      BY <3>4 DEF b, c
  <2> HIDE DEF slack
  <2>3. /\ g \in Writers /\ BufferBits(g) = BufferBits(w)
        /\ g.ok => w.ok /\ HasRoom(g, msbs + 1 + k)
    <3> DEFINE n == msbs + 1 + k
    <3> HIDE DEF n
    <3>1. LET e == Ensure(w, slack, n)
          IN  /\ e \in Writers /\ BufferBits(e) = BufferBits(w)
              /\ e.ok => w.ok /\ HasRoom(e, n)
      BY <2>1, <2>2, Ensures DEF n
    <3> QED
      BY <3>1 DEF n
  <2>4. g \in AnyWriter /\ g.bits < BitsPerWord /\ BufferBits(g) \in Bits
    BY <2>3, WriterFields
  <2>5. r = IF ~g.ok THEN g ELSE PutBits(ready, p)
    BY <1>2, <1>5
  <2> HIDE DEF g, ready
  <2>6. CASE ~g.ok
    BY <2>3, <2>5, <2>6 DEF Puts, r
  <2>7. CASE g.ok
    <3>1. /\ ready \in AnyWriter /\ ready.bits < BitsPerWord /\ HasRoom(ready, 1 + k)
          /\ BufferBits(ready) = BufferBits(g) \o Zeroes(msbs)
      <4>1. msbs + 1 + k = msbs + (1 + k) /\ 1 + k \in Nat
        BY <1>1
      <4>2. CASE msbs = 0
        <5>1. ready = g /\ msbs + (1 + k) = 1 + k
          BY <4>1, <4>2 DEF ready
        <5>2. HasRoom(ready, 1 + k)
          BY <2>3, <2>7, <4>1, <5>1
        <5>3. Zeroes(msbs) = <<>>
          <6>1. Zeroes(msbs) \in Bits /\ Len(Zeroes(msbs)) = 0
            BY <1>1, <4>2, ZeroesAre
          <6> QED
            BY <6>1, EmptySeq DEF Bits
        <5> QED
          BY <2>4, <5>1, <5>2, <5>3, NoneJoined
      <4>3. CASE msbs # 0
        <5>1. ready = PutZeroes(g, msbs) /\ msbs \in Nat \ {0}
          BY <1>1, <4>3 DEF ready
        <5>2. HasRoom(g, msbs + (1 + k))
          BY <2>3, <2>7, <4>1
        <5> DEFINE m == 1 + k
        <5>3. HasRoom(g, msbs + m) /\ m \in Nat
          BY <4>1, <5>2
        <5> HIDE DEF m
        <5>4. /\ PutZeroes(g, msbs) \in AnyWriter
              /\ PutZeroes(g, msbs).bits < BitsPerWord
              /\ HasRoom(PutZeroes(g, msbs), m)
              /\ BufferBits(PutZeroes(g, msbs)) = BufferBits(g) \o Zeroes(msbs)
          BY <2>4, <5>1, <5>3, PutZeroesPuts
        <5> QED
          BY <5>1, <5>4 DEF m
      <4> QED
        BY <4>2, <4>3
    <3>2. Len(p) \in 1..BitsPerWord /\ HasRoom(ready, Len(p))
      BY <1>1, <3>1
    <3>3. /\ PutBits(ready, p) \in AnyWriter /\ RoomKept(PutBits(ready, p))
          /\ BufferBits(PutBits(ready, p)) = BufferBits(ready) \o p
      BY <1>1, <3>1, <3>2, PutBitsPuts
    <3>4. (BufferBits(g) \o Zeroes(msbs)) \o p = BufferBits(g) \o code
      <4>1. Zeroes(msbs) \in Bits
        BY <1>1, ZeroesAre
      <4>2. BufferBits(g) \in Bits /\ p \in Bits
        BY <1>1, <2>4
      <4>3. (BufferBits(g) \o Zeroes(msbs)) \o p = BufferBits(g) \o (Zeroes(msbs) \o p)
        BY <4>1, <4>2, JoinedFirst, Zenon
      <4> QED
        BY <1>1, <2>4, <4>3
    <3>5. r = PutBits(ready, p)
      BY <2>5, <2>7
    <3> QED
      BY <2>3, <2>7, <3>1, <3>3, <3>4, <3>5 DEF Puts, Writers, r, code
  <2> QED
    BY <2>6, <2>7
<1> QED
  BY <1>4, <1>5

-----------------------------------------------------------------------------
(* The end of a frame: zeroes up to a byte, and a word for the rest.       *)
LEMMA PadPuts ==
    ASSUME NEW w \in Writers
    PROVE  \E n \in Nat : Puts(ZeroPad(w), w, Zeroes(n))
<1> DEFINE odd == w.bits % BitsPerByte
<1>1. w.bits \in Nat /\ BitsPerByte \in Nat \ {0}
  BY WriterFields, WordAssumption
<1>2. odd \in 0..(BitsPerByte - 1)
  BY <1>1, QuotientRest
<1>3. CASE odd = 0
  <2>1. ZeroPad(w) = w
    BY <1>3 DEF ZeroPad
  <2>2. Zeroes(0) = <<>>
    <3>1. Zeroes(0) \in Bits /\ Len(Zeroes(0)) = 0
      BY ZeroesAre
    <3> QED
      BY <3>1, EmptySeq DEF Bits
  <2>3. BufferBits(w) \o <<>> = BufferBits(w)
    BY WriterFields, NoneJoined
  <2>4. Puts(w, w, Zeroes(0))
    BY <2>2, <2>3 DEF Puts
  <2> QED
    BY <2>1, <2>4
<1>4. CASE odd # 0
  <2>1. ZeroPad(w) = WriteZeroes(w, BitsPerByte - odd)
    BY <1>4 DEF ZeroPad
  <2>2. BitsPerByte - odd \in Nat
    <3> HIDE DEF odd
    <3> QED
      BY <1>1, <1>2
  <2> DEFINE n == BitsPerByte - odd
  <2> HIDE DEF n
  <2>3. n \in Nat /\ Puts(WriteZeroes(w, n), w, Zeroes(n))
    BY <2>2, ZeroesPut DEF n
  <2> QED
    BY <2>1, <2>3 DEF n
<1> QED
  BY <1>3, <1>4

LEMMA ReadyKeeps ==
    ASSUME NEW w \in Writers
    PROVE  /\ BufferReady(w) \in Writers
           /\ BufferBits(BufferReady(w)) = BufferBits(w)
           /\ BufferReady(w).ok => w.ok
<1>1. BufferReady(w) = w \/ BufferReady(w) = Grow(w, BitsPerWord)
  BY DEF BufferReady
<1>2. /\ Grow(w, BitsPerWord) \in Writers
      /\ BufferBits(Grow(w, BitsPerWord)) = BufferBits(w)
      /\ Grow(w, BitsPerWord).ok => w.ok
  BY WordWidth, Grows
<1> QED
  BY <1>1, <1>2

-----------------------------------------------------------------------------
(* A function that a step builds from its value at the number before.      *)
Builds(h, n, X, base, step) ==
    /\ h \in [0..n -> X]
    /\ h[0] = base
    /\ \A j \in 1..n : h[j] = step[j][h[j - 1]]

Steps(n, X) == [1..n -> [X -> X]]

LEMMA Recursion ==
    ASSUME NEW n \in Nat, NEW X, NEW base \in X, NEW step \in Steps(n, X)
    PROVE  \E h : Builds(h, n, X, base, step)
<1> DEFINE missing == {m \in 0..n : ~ \E h : Builds(h, m, X, base, step)}
<1>1. SUFFICES ASSUME missing # {} PROVE FALSE
  BY <1>1
<1>2. PICK m \in missing : \A k \in missing : m <= k
  <2>1. missing \subseteq Nat
    OBVIOUS
  <2> HIDE DEF missing
  <2> QED
    BY <1>1, <2>1, LeastNumber
<1>3. CASE m = 0
  <2>1. Builds([j \in 0..0 |-> base], 0, X, base, step)
    BY DEF Builds
  <2> QED
    BY <1>2, <1>3, <2>1
<1>4. CASE m # 0
  <2>1. m \in 1..n /\ m - 1 \in 0..n /\ m - 1 \notin missing
    BY <1>2, <1>4
  <2>2. PICK h : Builds(h, m - 1, X, base, step)
    BY <2>1
  <2> DEFINE g == [j \in 0..m |-> IF j = m THEN step[m][h[m - 1]] ELSE h[j]]
  <2>3. h[m - 1] \in X /\ step[m] \in [X -> X]
    BY <2>1, <2>2 DEF Builds, Steps
  <2>4. g \in [0..m -> X] /\ g[0] = base
    BY <2>1, <2>2, <2>3 DEF Builds
  <2>5. ASSUME NEW j \in 1..m PROVE g[j] = step[j][g[j - 1]]
    <3>1. g[j - 1] = h[j - 1]
      BY <2>1
    <3>2. CASE j = m
      BY <3>1, <3>2
    <3>3. CASE j # m
      <4>1. j \in 1..(m - 1) /\ g[j] = h[j]
        BY <3>3
      <4> QED
        BY <2>2, <3>1, <4>1 DEF Builds
    <3> QED
      BY <3>2, <3>3
  <2>6. Builds(g, m, X, base, step)
    BY <2>4, <2>5 DEF Builds
  <2> QED
    BY <1>2, <2>6
<1> QED
  BY <1>3, <1>4

(* Two functions that begin alike and go on alike are alike.               *)
Alike(n, f, g) ==
    /\ f[0] = g[0]
    /\ \A j \in 1..n : f[j - 1] = g[j - 1] => f[j] = g[j]

LEMMA SameRecursion ==
    ASSUME NEW n \in Nat, NEW f, NEW g, Alike(n, f, g)
    PROVE  \A j \in 0..n : f[j] = g[j]
<1> DEFINE differ == {j \in 0..n : f[j] # g[j]}
<1>1. SUFFICES ASSUME differ # {} PROVE FALSE
  BY <1>1
<1>2. PICK j \in differ : \A k \in differ : j <= k
  <2>1. differ \subseteq Nat
    OBVIOUS
  <2> HIDE DEF differ
  <2> QED
    BY <1>1, <2>1, LeastNumber
<1>3. j \in 1..n /\ j - 1 \in 0..n /\ j - 1 \notin differ
  BY <1>2 DEF Alike
<1> QED
  BY <1>2, <1>3 DEF Alike

(* Sequences of bits that are joined: first[j] is the first j of them.     *)
Joins(first, n, f) ==
    /\ first[0] = <<>>
    /\ \A j \in 1..n : first[j] = first[j - 1] \o f[j]
    /\ \A j \in 0..n : first[j] \in Bits

LEMMA JoinedUnfold ==
    ASSUME NEW n \in Nat, NEW f, \A j \in 1..n : f[j] \in Bits
    PROVE  \E first : Joins(first, n, f) /\ Joined(f, n) = first[n]
<1> DEFINE Body(g) == [i \in 0..n |-> IF i = 0 THEN <<>> ELSE g[i - 1] \o f[i]]
           step == [j \in 1..n |-> [s \in Bits |-> s \o f[j]]]
           first == CHOOSE g : g = Body(g)
<1>1. <<>> \in Bits
  BY DEF Bits
<1>2. step \in Steps(n, Bits)
  <2>1. ASSUME NEW j \in 1..n, NEW s \in Bits PROVE s \o f[j] \in Bits
    BY Joining
  <2> QED
    BY <2>1 DEF Steps
<1>3. PICK h : Builds(h, n, Bits, <<>>, step)
  <2> HIDE DEF step
  <2> QED
    BY <1>1, <1>2, Recursion
<1>4. /\ h \in [0..n -> Bits] /\ h[0] = <<>>
      /\ \A j \in 1..n : h[j] = h[j - 1] \o f[j]
  <2>1. /\ h \in [0..n -> Bits] /\ h[0] = <<>>
        /\ \A j \in 1..n : h[j] = step[j][h[j - 1]]
    BY <1>3 DEF Builds
  <2>2. ASSUME NEW j \in 1..n PROVE h[j] = h[j - 1] \o f[j]
    <3>1. j - 1 \in 0..n
      OBVIOUS
    <3>2. h[j - 1] \in Bits
      BY <2>1, <3>1
    <3>3. step[j][h[j - 1]] = h[j - 1] \o f[j]
      BY <3>2
    <3> HIDE DEF step
    <3> QED
      BY <2>1, <3>3
  <2> QED
    BY <2>1, <2>2
<1>5. h = Body(h)
  <2>1. ASSUME NEW j \in 0..n PROVE h[j] = Body(h)[j]
    <3>1. CASE j = 0
      BY <1>4, <3>1
    <3>2. CASE j # 0
      <4>1. j \in 1..n
        BY <3>2
      <4>2. h[j] = h[j - 1] \o f[j]
        BY <1>4, <4>1
      <4> QED
        BY <3>2, <4>2
    <3> QED
      BY <3>1, <3>2
  <2>2. DOMAIN h = 0..n /\ h = [j \in 0..n |-> h[j]]
    BY <1>4
  <2> QED
    BY <2>1, <2>2
<1>6. first = Body(first)
  <2> HIDE DEF Body
  <2> QED
    BY <1>5
<1>7. Joined(f, n) = first[n]
  BY DEF Joined
<1> HIDE DEF first
<1>8. /\ first[0] = <<>>
      /\ \A j \in 1..n : first[j] = first[j - 1] \o f[j]
  <2>1. \A j \in 0..n : first[j] = Body(first)[j]
    BY <1>6
  <2>2. 0 \in 0..n /\ \A j \in 1..n : j \in 0..n /\ j # 0
    OBVIOUS
  <2> QED
    BY <2>1, <2>2
<1>9. \A j \in 0..n : first[j] = h[j]
  <2>1. Alike(n, first, h)
    BY <1>4, <1>8 DEF Alike
  <2> QED
    BY <2>1, SameRecursion
<1>10. \A j \in 0..n : first[j] \in Bits
  BY <1>4, <1>9
<1> QED
  BY <1>7, <1>8, <1>10 DEF Joins

LEMMA JoinedIsBits ==
    ASSUME NEW n \in Nat, NEW f, \A j \in 1..n : f[j] \in Bits
    PROVE  Joined(f, n) \in Bits
<1>1. PICK first : Joins(first, n, f) /\ Joined(f, n) = first[n]
  BY JoinedUnfold
<1> QED
  BY <1>1 DEF Joins

(* One more.                                                               *)
LEMMA JoinedMore ==
    ASSUME NEW n \in Nat, NEW f, NEW g,
           \A j \in 1..n : f[j] \in Bits /\ g[j] = f[j], g[n + 1] \in Bits
    PROVE  Joined(g, n + 1) = Joined(f, n) \o g[n + 1]
<1>1. n + 1 \in Nat /\ \A j \in 1..(n + 1) : g[j] \in Bits
  <2>1. ASSUME NEW j \in 1..(n + 1) PROVE g[j] \in Bits
    <3>1. j \in 1..n \/ j = n + 1
      OBVIOUS
    <3> QED
      BY <3>1
  <2> QED
    BY <2>1
<1>2. PICK a : Joins(a, n, f) /\ Joined(f, n) = a[n]
  BY JoinedUnfold
<1>3. PICK b : Joins(b, n + 1, g) /\ Joined(g, n + 1) = b[n + 1]
  <2> DEFINE m == n + 1
  <2>1. m \in Nat /\ \A j \in 1..m : g[j] \in Bits
    BY <1>1
  <2> HIDE DEF m
  <2>2. \E b : Joins(b, m, g) /\ Joined(g, m) = b[m]
    BY <2>1, JoinedUnfold
  <2> QED
    BY <2>2 DEF m
<1>4. a[n] = b[n]
  <2>1. Alike(n, a, b)
    <3>1. \A j \in 1..n : j \in 1..(n + 1)
      OBVIOUS
    <3> QED
      BY <1>2, <1>3, <3>1 DEF Alike, Joins
  <2> QED
    BY <2>1, SameRecursion
<1>5. b[n + 1] = b[n] \o g[n + 1]
  <2>1. n + 1 \in 1..(n + 1) /\ (n + 1) - 1 = n
    OBVIOUS
  <2> QED
    BY <1>3, <2>1 DEF Joins
<1> QED
  BY <1>2, <1>3, <1>4, <1>5

-----------------------------------------------------------------------------
(* A loop that writes one after the other, and stops when a call fails.    *)
Loops(after, n, base, out) ==
    /\ after[0] = base
    /\ \A j \in 1..n : after[j] = IF after[j - 1].ok THEN out[j][after[j - 1]]
                                   ELSE after[j - 1]

LEMMA LoopThere ==
    ASSUME NEW n \in Nat, NEW base \in Writers, NEW out \in Steps(n, Writers)
    PROVE  \E h \in [0..n -> Writers] : Loops(h, n, base, out)
<1> DEFINE step == [j \in 1..n |-> [v \in Writers |-> IF v.ok THEN out[j][v] ELSE v]]
<1>1. step \in Steps(n, Writers)
  <2>1. ASSUME NEW j \in 1..n, NEW v \in Writers PROVE out[j][v] \in Writers
    BY DEF Steps
  <2> QED
    BY <2>1 DEF Steps
<1>2. PICK h : Builds(h, n, Writers, base, step)
  <2> HIDE DEF step
  <2> QED
    BY <1>1, Recursion
<1>3. /\ h \in [0..n -> Writers] /\ h[0] = base
      /\ \A j \in 1..n : h[j] = step[j][h[j - 1]]
  BY <1>2 DEF Builds
<1>4. ASSUME NEW j \in 1..n
      PROVE  h[j] = IF h[j - 1].ok THEN out[j][h[j - 1]] ELSE h[j - 1]
  <2>1. j - 1 \in 0..n
    OBVIOUS
  <2>2. h[j - 1] \in Writers
    BY <1>3, <2>1
  <2>3. step[j][h[j - 1]] = IF h[j - 1].ok THEN out[j][h[j - 1]] ELSE h[j - 1]
    BY <2>2
  <2> HIDE DEF step
  <2> QED
    BY <1>3, <2>3
<1> QED
  BY <1>3, <1>4 DEF Loops

(* What such a loop has written.                                           *)
LEMMA LoopPuts ==
    ASSUME NEW n \in Nat, NEW base \in Writers, NEW out, NEW after,
           Loops(after, n, base, out), NEW c, NEW first, Joins(first, n, c),
           \A j \in 1..n : c[j] \in Bits,
           \A j \in 1..n : \A v \in Writers : Puts(out[j][v], v, c[j])
    PROVE  Puts(after[n], base, first[n])
<1> DEFINE bad == {j \in 0..n : ~Puts(after[j], base, first[j])}
<1>1. SUFFICES ASSUME bad # {} PROVE FALSE
  BY <1>1
<1>2. PICK j \in bad : \A m \in bad : j <= m
  <2>1. bad \subseteq Nat
    OBVIOUS
  <2> HIDE DEF bad
  <2> QED
    BY <1>1, <2>1, LeastNumber
<1>3. CASE j = 0
  <2>1. BufferBits(base) \o <<>> = BufferBits(base)
    BY WriterFields, NoneJoined
  <2>2. Puts(after[0], base, first[0])
    BY <2>1 DEF Puts, Loops, Joins
  <2> QED
    BY <1>2, <1>3, <2>2
<1>4. CASE j # 0
  <2>1. j \in 1..n /\ j - 1 \in 0..n /\ j - 1 \notin bad
    BY <1>2, <1>4
  <2> DEFINE v == after[j - 1]
             s == first[j - 1]
  <2>2. Puts(v, base, s)
    BY <2>1
  <2>3. v \in Writers /\ s \in Bits /\ c[j] \in Bits
    <3>1. v \in Writers
      BY <2>2 DEF Puts
    <3>2. s \in Bits
      BY <2>1 DEF Joins
    <3> QED
      BY <2>1, <3>1, <3>2
  <2>4. after[j] = (IF v.ok THEN out[j][v] ELSE v) /\ first[j] = s \o c[j]
    BY <2>1 DEF Loops, Joins
  <2> HIDE DEF v, s
  <2>5. CASE v.ok
    <3>1. Puts(out[j][v], v, c[j])
      BY <2>1, <2>3
    <3>2. Puts(out[j][v], base, s \o c[j])
      BY <2>2, <2>3, <3>1, PutsMore
    <3> QED
      BY <1>2, <2>4, <2>5, <3>2
  <2>6. CASE ~v.ok
    <3>1. Puts(after[j], base, first[j])
      BY <2>3, <2>4, <2>6 DEF Puts
    <3> QED
      BY <1>2, <3>1
  <2> QED
    BY <2>5, <2>6
<1> QED
  BY <1>3, <1>4

(* The three loops.                                                       *)
LEMMA RiceBlockPuts ==
    ASSUME bw \in Writers, NEW vs \in Seq(Int), NEW k \in Nat, k <= BitsPerWord - 2
    PROVE  Puts(ForAllOf(vs, LAMBDA w, v : WriteRiceOfBlock(w, v, k)),
                bw, Joined([i \in DOMAIN vs |-> RiceCode(vs[i], k)], Len(vs)))
<1> DEFINE n == Len(vs)
           c == [i \in DOMAIN vs |-> RiceCode(vs[i], k)]
           out == [j \in 1..n |-> [v \in Writers |-> WriteRiceOfBlock(v, vs[j], k)]]
           Body(f) == [i \in 0..n |-> IF i = 0 THEN bw
                                      ELSE IF f[i - 1].ok THEN WriteRiceOfBlock(f[i - 1], vs[i], k)
                                      ELSE f[i - 1]]
           after == CHOOSE f : f = Body(f)
<1>1. n \in Nat
  OBVIOUS
<1>2. ASSUME NEW j \in 1..n
      PROVE  /\ c[j] \in Bits
             /\ \A v \in Writers : Puts(out[j][v], v, c[j])
  <2>1. vs[j] \in Int
    BY DEF n
  <2>2. c[j] = RiceCode(vs[j], k)
    BY DEF n
  <2>3. RiceCode(vs[j], k) \in Bits
    BY <2>1, RiceCodeIs
  <2>4. ASSUME NEW v \in Writers PROVE Puts(WriteRiceOfBlock(v, vs[j], k), v, RiceCode(vs[j], k))
    BY <2>1, RiceOfBlockPuts
  <2>5. \A v \in Writers : out[j][v] = WriteRiceOfBlock(v, vs[j], k)
    OBVIOUS
  <2> HIDE DEF out, c
  <2> QED
    BY <2>2, <2>3, <2>4, <2>5
<1>3. out \in Steps(n, Writers)
  <2>1. ASSUME NEW j \in 1..n, NEW v \in Writers PROVE out[j][v] \in Writers
    BY <1>2 DEF Puts
  <2>2. \A j \in 1..n : \A v \in Writers : out[j][v] = WriteRiceOfBlock(v, vs[j], k)
    OBVIOUS
  <2>3. \A j \in 1..n : \A v \in Writers : WriteRiceOfBlock(v, vs[j], k) \in Writers
    BY <2>1, <2>2
  <2> HIDE DEF n, c
  <2> QED
    BY <2>3 DEF Steps
<1>4. \A j \in 1..n : \A v \in Writers : out[j][v] = WriteRiceOfBlock(v, vs[j], k)
  OBVIOUS
<1> HIDE DEF out, c, n
<1>5. PICK h \in [0..n -> Writers] : Loops(h, n, bw, out)
  BY <1>1, <1>3, LoopThere
<1>6. /\ h[0] = bw
      /\ \A i \in 1..n : h[i] = IF h[i - 1].ok THEN WriteRiceOfBlock(h[i - 1], vs[i], k) ELSE h[i - 1]
  <2>1. ASSUME NEW i \in 1..n
        PROVE  h[i] = IF h[i - 1].ok THEN WriteRiceOfBlock(h[i - 1], vs[i], k) ELSE h[i - 1]
    <3>1. i - 1 \in 0..n
      BY <1>1
    <3>2. h[i - 1] \in Writers
      BY <3>1
    <3>3. out[i][h[i - 1]] = WriteRiceOfBlock(h[i - 1], vs[i], k)
      BY <1>4, <3>2
    <3> QED
      BY <1>5, <3>3 DEF Loops
  <2> QED
    BY <1>5, <2>1 DEF Loops
<1>7. h = Body(h)
  <2>1. ASSUME NEW i \in 0..n PROVE h[i] = Body(h)[i]
    <3>1. CASE i = 0
      BY <1>6, <3>1
    <3>2. CASE i # 0
      <4>1. i \in 1..n
        BY <1>1, <3>2
      <4>2. h[i] = IF h[i - 1].ok THEN WriteRiceOfBlock(h[i - 1], vs[i], k) ELSE h[i - 1]
        BY <1>6, <4>1
      <4> QED
        BY <3>2, <4>2
    <3> QED
      BY <3>1, <3>2
  <2>2. h = [i \in 0..n |-> h[i]]
    OBVIOUS
  <2> QED
    BY <2>1, <2>2
<1>8. after = Body(after)
  <2> HIDE DEF Body
  <2> QED
    BY <1>7
<1>9. ForAllOf(vs, LAMBDA w, v : WriteRiceOfBlock(w, v, k)) = after[n]
  BY DEF ForAllOf, n
<1> HIDE DEF after
<1>10. /\ after[0] = bw
       /\ \A i \in 1..n : after[i] = IF after[i - 1].ok THEN WriteRiceOfBlock(after[i - 1], vs[i], k)
                                      ELSE after[i - 1]
  <2>1. \A i \in 0..n : after[i] = Body(after)[i]
    BY <1>8
  <2>2. 0 \in 0..n /\ \A i \in 1..n : i \in 0..n /\ i # 0
    BY <1>1
  <2> QED
    BY <2>1, <2>2
<1>11. \A i \in 0..n : after[i] = h[i]
  <2>1. Alike(n, after, h)
    BY <1>6, <1>10 DEF Alike
  <2> QED
    BY <1>1, <2>1, SameRecursion
<1>12. Loops(after, n, bw, out)
  <2>1. \A i \in 1..n : i \in 0..n /\ i - 1 \in 0..n
    BY <1>1
  <2>2. 0 \in 0..n
    BY <1>1
  <2> QED
    BY <1>5, <1>11, <2>1, <2>2 DEF Loops
<1>13. PICK first : Joins(first, n, c) /\ Joined(c, n) = first[n]
  BY <1>1, <1>2, JoinedUnfold
<1>14. Puts(after[n], bw, Joined(c, n))
  BY <1>1, <1>2, <1>12, <1>13, LoopPuts
<1> QED
  BY <1>9, <1>14 DEF c, n

LEMMA RiceSinglyPuts ==
    ASSUME bw \in Writers, NEW vs \in Seq(Int), NEW k \in Nat, k <= BitsPerWord - 2
    PROVE  Puts(ForAllOf(vs, LAMBDA w, v : WriteRiceSigned(w, v, k)),
                bw, Joined([i \in DOMAIN vs |-> RiceCode(vs[i], k)], Len(vs)))
<1> DEFINE n == Len(vs)
           c == [i \in DOMAIN vs |-> RiceCode(vs[i], k)]
           out == [j \in 1..n |-> [v \in Writers |-> WriteRiceSigned(v, vs[j], k)]]
           Body(f) == [i \in 0..n |-> IF i = 0 THEN bw
                                      ELSE IF f[i - 1].ok THEN WriteRiceSigned(f[i - 1], vs[i], k)
                                      ELSE f[i - 1]]
           after == CHOOSE f : f = Body(f)
<1>1. n \in Nat
  OBVIOUS
<1>2. ASSUME NEW j \in 1..n
      PROVE  /\ c[j] \in Bits
             /\ \A v \in Writers : Puts(out[j][v], v, c[j])
  <2>1. vs[j] \in Int
    BY DEF n
  <2>2. c[j] = RiceCode(vs[j], k)
    BY DEF n
  <2>3. RiceCode(vs[j], k) \in Bits
    BY <2>1, RiceCodeIs
  <2>4. ASSUME NEW v \in Writers PROVE Puts(WriteRiceSigned(v, vs[j], k), v, RiceCode(vs[j], k))
    BY <2>1, RiceSignedPuts
  <2>5. \A v \in Writers : out[j][v] = WriteRiceSigned(v, vs[j], k)
    OBVIOUS
  <2> HIDE DEF out, c
  <2> QED
    BY <2>2, <2>3, <2>4, <2>5
<1>3. out \in Steps(n, Writers)
  <2>1. ASSUME NEW j \in 1..n, NEW v \in Writers PROVE out[j][v] \in Writers
    BY <1>2 DEF Puts
  <2>2. \A j \in 1..n : \A v \in Writers : out[j][v] = WriteRiceSigned(v, vs[j], k)
    OBVIOUS
  <2>3. \A j \in 1..n : \A v \in Writers : WriteRiceSigned(v, vs[j], k) \in Writers
    BY <2>1, <2>2
  <2> HIDE DEF n, c
  <2> QED
    BY <2>3 DEF Steps
<1>4. \A j \in 1..n : \A v \in Writers : out[j][v] = WriteRiceSigned(v, vs[j], k)
  OBVIOUS
<1> HIDE DEF out, c, n
<1>5. PICK h \in [0..n -> Writers] : Loops(h, n, bw, out)
  BY <1>1, <1>3, LoopThere
<1>6. /\ h[0] = bw
      /\ \A i \in 1..n : h[i] = IF h[i - 1].ok THEN WriteRiceSigned(h[i - 1], vs[i], k) ELSE h[i - 1]
  <2>1. ASSUME NEW i \in 1..n
        PROVE  h[i] = IF h[i - 1].ok THEN WriteRiceSigned(h[i - 1], vs[i], k) ELSE h[i - 1]
    <3>1. i - 1 \in 0..n
      BY <1>1
    <3>2. h[i - 1] \in Writers
      BY <3>1
    <3>3. out[i][h[i - 1]] = WriteRiceSigned(h[i - 1], vs[i], k)
      BY <1>4, <3>2
    <3> QED
      BY <1>5, <3>3 DEF Loops
  <2> QED
    BY <1>5, <2>1 DEF Loops
<1>7. h = Body(h)
  <2>1. ASSUME NEW i \in 0..n PROVE h[i] = Body(h)[i]
    <3>1. CASE i = 0
      BY <1>6, <3>1
    <3>2. CASE i # 0
      <4>1. i \in 1..n
        BY <1>1, <3>2
      <4>2. h[i] = IF h[i - 1].ok THEN WriteRiceSigned(h[i - 1], vs[i], k) ELSE h[i - 1]
        BY <1>6, <4>1
      <4> QED
        BY <3>2, <4>2
    <3> QED
      BY <3>1, <3>2
  <2>2. h = [i \in 0..n |-> h[i]]
    OBVIOUS
  <2> QED
    BY <2>1, <2>2
<1>8. after = Body(after)
  <2> HIDE DEF Body
  <2> QED
    BY <1>7
<1>9. ForAllOf(vs, LAMBDA w, v : WriteRiceSigned(w, v, k)) = after[n]
  BY DEF ForAllOf, n
<1> HIDE DEF after
<1>10. /\ after[0] = bw
       /\ \A i \in 1..n : after[i] = IF after[i - 1].ok THEN WriteRiceSigned(after[i - 1], vs[i], k)
                                      ELSE after[i - 1]
  <2>1. \A i \in 0..n : after[i] = Body(after)[i]
    BY <1>8
  <2>2. 0 \in 0..n /\ \A i \in 1..n : i \in 0..n /\ i # 0
    BY <1>1
  <2> QED
    BY <2>1, <2>2
<1>11. \A i \in 0..n : after[i] = h[i]
  <2>1. Alike(n, after, h)
    BY <1>6, <1>10 DEF Alike
  <2> QED
    BY <1>1, <2>1, SameRecursion
<1>12. Loops(after, n, bw, out)
  <2>1. \A i \in 1..n : i \in 0..n /\ i - 1 \in 0..n
    BY <1>1
  <2>2. 0 \in 0..n
    BY <1>1
  <2> QED
    BY <1>5, <1>11, <2>1, <2>2 DEF Loops
<1>13. PICK first : Joins(first, n, c) /\ Joined(c, n) = first[n]
  BY <1>1, <1>2, JoinedUnfold
<1>14. Puts(after[n], bw, Joined(c, n))
  BY <1>1, <1>2, <1>12, <1>13, LoopPuts
<1> QED
  BY <1>9, <1>14 DEF c, n

LEMMA ByteIs ==
    ASSUME NEW b \in [1..BitsPerByte -> Bit]
    PROVE  b \in Bits /\ Len(b) <= BitsPerWord
<1>1. /\ BitsPerByte \in Nat \ {0} /\ BytesPerWord \in Nat \ {0}
      /\ BitsPerByte <= BitsPerByte * BytesPerWord
  BY WordAssumption
<1>2. b \in Bits /\ Len(b) = BitsPerByte
  BY <1>1 DEF Bits
<1> QED
  BY <1>1, <1>2 DEF BitsPerWord

LEMMA BytesPut ==
    ASSUME bw \in Writers, NEW bs \in Seq([1..BitsPerByte -> Bit])
    PROVE  Puts(ForAllOf(bs, WriteRaw), bw, Joined(bs, Len(bs)))
<1> DEFINE n == Len(bs)
           c == bs
           out == [j \in 1..n |-> [v \in Writers |-> WriteRaw(v, bs[j])]]
           Body(f) == [i \in 0..n |-> IF i = 0 THEN bw
                                      ELSE IF f[i - 1].ok THEN WriteRaw(f[i - 1], bs[i])
                                      ELSE f[i - 1]]
           after == CHOOSE f : f = Body(f)
<1>1. n \in Nat
  OBVIOUS
<1>2. ASSUME NEW j \in 1..n
      PROVE  /\ c[j] \in Bits
             /\ \A v \in Writers : Puts(out[j][v], v, c[j])
  <2>1. bs[j] \in Bits /\ Len(bs[j]) <= BitsPerWord
    BY ByteIs DEF n
  <2>2. ASSUME NEW v \in Writers PROVE Puts(WriteRaw(v, bs[j]), v, bs[j])
    BY <2>1, RawPuts
  <2>3. \A v \in Writers : out[j][v] = WriteRaw(v, bs[j])
    OBVIOUS
  <2> HIDE DEF out
  <2> QED
    BY <2>1, <2>2, <2>3
<1>3. out \in Steps(n, Writers)
  <2>1. ASSUME NEW j \in 1..n, NEW v \in Writers PROVE out[j][v] \in Writers
    BY <1>2 DEF Puts
  <2>2. \A j \in 1..n : \A v \in Writers : out[j][v] = WriteRaw(v, bs[j])
    OBVIOUS
  <2>3. \A j \in 1..n : \A v \in Writers : WriteRaw(v, bs[j]) \in Writers
    BY <2>1, <2>2
  <2> HIDE DEF n, c
  <2> QED
    BY <2>3 DEF Steps
<1>4. \A j \in 1..n : \A v \in Writers : out[j][v] = WriteRaw(v, bs[j])
  OBVIOUS
<1> HIDE DEF out, c, n
<1>5. PICK h \in [0..n -> Writers] : Loops(h, n, bw, out)
  BY <1>1, <1>3, LoopThere
<1>6. /\ h[0] = bw
      /\ \A i \in 1..n : h[i] = IF h[i - 1].ok THEN WriteRaw(h[i - 1], bs[i]) ELSE h[i - 1]
  <2>1. ASSUME NEW i \in 1..n
        PROVE  h[i] = IF h[i - 1].ok THEN WriteRaw(h[i - 1], bs[i]) ELSE h[i - 1]
    <3>1. i - 1 \in 0..n
      BY <1>1
    <3>2. h[i - 1] \in Writers
      BY <3>1
    <3>3. out[i][h[i - 1]] = WriteRaw(h[i - 1], bs[i])
      BY <1>4, <3>2
    <3> QED
      BY <1>5, <3>3 DEF Loops
  <2> QED
    BY <1>5, <2>1 DEF Loops
<1>7. h = Body(h)
  <2>1. ASSUME NEW i \in 0..n PROVE h[i] = Body(h)[i]
    <3>1. CASE i = 0
      BY <1>6, <3>1
    <3>2. CASE i # 0
      <4>1. i \in 1..n
        BY <1>1, <3>2
      <4>2. h[i] = IF h[i - 1].ok THEN WriteRaw(h[i - 1], bs[i]) ELSE h[i - 1]
        BY <1>6, <4>1
      <4> QED
        BY <3>2, <4>2
    <3> QED
      BY <3>1, <3>2
  <2>2. h = [i \in 0..n |-> h[i]]
    OBVIOUS
  <2> QED
    BY <2>1, <2>2
<1>8. after = Body(after)
  <2> HIDE DEF Body
  <2> QED
    BY <1>7
<1>9. ForAllOf(bs, WriteRaw) = after[n]
  BY DEF ForAllOf, n
<1> HIDE DEF after
<1>10. /\ after[0] = bw
       /\ \A i \in 1..n : after[i] = IF after[i - 1].ok THEN WriteRaw(after[i - 1], bs[i])
                                      ELSE after[i - 1]
  <2>1. \A i \in 0..n : after[i] = Body(after)[i]
    BY <1>8
  <2>2. 0 \in 0..n /\ \A i \in 1..n : i \in 0..n /\ i # 0
    BY <1>1
  <2> QED
    BY <2>1, <2>2
<1>11. \A i \in 0..n : after[i] = h[i]
  <2>1. Alike(n, after, h)
    BY <1>6, <1>10 DEF Alike
  <2> QED
    BY <1>1, <2>1, SameRecursion
<1>12. Loops(after, n, bw, out)
  <2>1. \A i \in 1..n : i \in 0..n /\ i - 1 \in 0..n
    BY <1>1
  <2>2. 0 \in 0..n
    BY <1>1
  <2> QED
    BY <1>5, <1>11, <2>1, <2>2 DEF Loops
<1>13. PICK first : Joins(first, n, c) /\ Joined(c, n) = first[n]
  BY <1>1, <1>2, JoinedUnfold
<1>14. Puts(after[n], bw, Joined(c, n))
  BY <1>1, <1>2, <1>12, <1>13, LoopPuts
<1> QED
  BY <1>9, <1>14 DEF c, n

-----------------------------------------------------------------------------
(* The codes of items.                                                     *)
LEMMA ItemCodes ==
    /\ \A b \in RawItems :
          /\ b \in Bits /\ Len(b) <= BitsPerWord
          /\ [op |-> "raw", bits |-> b] \in Items
          /\ Code([op |-> "raw", bits |-> b]) = b
    /\ \A n \in UnaryItems :
          /\ n \in Nat
          /\ [op |-> "unary", n |-> n] \in Items
          /\ Code([op |-> "unary", n |-> n]) = Append(Zeroes(n), 1)
    /\ \A vs \in RiceBlocks, k \in Parameters :
          /\ vs \in Seq(Int) /\ k \in Nat /\ k <= BitsPerWord - 2
          /\ [op |-> "rice", vals |-> vs, k |-> k] \in Items
          /\ Code([op |-> "rice", vals |-> vs, k |-> k])
                = Joined([i \in DOMAIN vs |-> RiceCode(vs[i], k)], Len(vs))
    /\ \A bs \in ByteBlocks :
          /\ bs \in Seq([1..BitsPerByte -> Bit])
          /\ [op |-> "block", bytes |-> bs] \in Items
          /\ Code([op |-> "block", bytes |-> bs]) = Joined(bs, Len(bs))
<1>1. BitsPerWord \in Nat
  BY WordWidth
<1>2. ASSUME NEW b \in RawItems
      PROVE  /\ b \in Bits /\ Len(b) <= BitsPerWord
             /\ [op |-> "raw", bits |-> b] \in Items
             /\ Code([op |-> "raw", bits |-> b]) = b
  <2>1. b \in Bits /\ Len(b) <= BitsPerWord
    BY <1>1, ItemsAssumption DEF Bits
  <2> QED
    BY <2>1 DEF Items, Code
<1>3. ASSUME NEW n \in UnaryItems
      PROVE  /\ n \in Nat
             /\ [op |-> "unary", n |-> n] \in Items
             /\ Code([op |-> "unary", n |-> n]) = Append(Zeroes(n), 1)
  BY ItemsAssumption DEF Items, Code
<1>4. ASSUME NEW vs \in RiceBlocks, NEW k \in Parameters
      PROVE  /\ vs \in Seq(Int) /\ k \in Nat /\ k <= BitsPerWord - 2
             /\ [op |-> "rice", vals |-> vs, k |-> k] \in Items
             /\ Code([op |-> "rice", vals |-> vs, k |-> k])
                   = Joined([i \in DOMAIN vs |-> RiceCode(vs[i], k)], Len(vs))
  <2>1. vs \in Seq(Int) /\ k \in 0..(BitsPerWord - 2)
    BY ItemsAssumption
  <2>2. [op |-> "rice", vals |-> vs, k |-> k] \in Items
    BY DEF Items
  <2>3. Code([op |-> "rice", vals |-> vs, k |-> k])
           = Joined([i \in DOMAIN vs |-> RiceCode(vs[i], k)], Len(vs))
    BY DEF Code
  <2> QED
    BY <1>1, <2>1, <2>2, <2>3
<1>5. ASSUME NEW bs \in ByteBlocks
      PROVE  /\ bs \in Seq([1..BitsPerByte -> Bit])
             /\ [op |-> "block", bytes |-> bs] \in Items
             /\ Code([op |-> "block", bytes |-> bs]) = Joined(bs, Len(bs))
  BY ItemsAssumption DEF Items, Code
<1> QED
  BY <1>2, <1>3, <1>4, <1>5

LEMMA CodeIsBits ==
    ASSUME NEW it \in Items
    PROVE  Code(it) \in Bits
<1>1. CASE it \in [op : {"raw"}, bits : RawItems]
  <2>1. PICK b \in RawItems : it = [op |-> "raw", bits |-> b]
    BY <1>1
  <2> QED
    BY <2>1, ItemCodes
<1>2. CASE it \in [op : {"unary"}, n : UnaryItems]
  <2>1. PICK n \in UnaryItems : it = [op |-> "unary", n |-> n]
    BY <1>2
  <2>2. n \in Nat /\ Code(it) = Append(Zeroes(n), 1)
    BY <2>1, ItemCodes
  <2> QED
    BY <2>2, ZeroesAre, AppendProperties DEF Bits, Bit
<1>3. CASE it \in [op : {"rice"}, vals : RiceBlocks, k : Parameters]
  <2>1. PICK vs \in RiceBlocks, k \in Parameters : it = [op |-> "rice", vals |-> vs, k |-> k]
    BY <1>3
  <2> DEFINE f == [i \in DOMAIN vs |-> RiceCode(vs[i], k)]
             n == Len(vs)
  <2>2. vs \in Seq(Int) /\ k \in Nat /\ k <= BitsPerWord - 2 /\ Code(it) = Joined(f, n)
    BY <2>1, ItemCodes
  <2>3. n \in Nat /\ \A j \in 1..n : f[j] \in Bits
    <3>1. ASSUME NEW j \in 1..n PROVE f[j] \in Bits
      <4>1. vs[j] \in Int /\ j \in DOMAIN vs
        BY <2>2
      <4>2. RiceCode(vs[j], k) \in Bits
        BY <2>2, <4>1, RiceCodeIs
      <4> QED
        BY <4>1, <4>2
    <3> QED
      BY <2>2, <3>1
  <2> HIDE DEF f, n
  <2> QED
    BY <2>2, <2>3, JoinedIsBits
<1>4. CASE it \in [op : {"block"}, bytes : ByteBlocks]
  <2>1. PICK bs \in ByteBlocks : it = [op |-> "block", bytes |-> bs]
    BY <1>4
  <2>2. bs \in Seq([1..BitsPerByte -> Bit]) /\ Code(it) = Joined(bs, Len(bs))
    BY <2>1, ItemCodes
  <2>3. Len(bs) \in Nat /\ \A j \in 1..Len(bs) : bs[j] \in Bits
    <3>1. \A j \in 1..Len(bs) : bs[j] \in [1..BitsPerByte -> Bit]
      BY <2>2
    <3> QED
      BY <2>2, <3>1, ByteIs
  <2> QED
    BY <2>2, <2>3, JoinedIsBits
<1> QED
  BY <1>1, <1>2, <1>3, <1>4 DEF Items

LEMMA CodesOfNone == Codes(<<>>) = <<>>
<1> DEFINE f == [i \in DOMAIN <<>> |-> Code(<<>>[i])]
<1>1. Codes(<<>>) = Joined(f, 0)
  BY DEF Codes
<1>2. \A j \in 1..0 : f[j] \in Bits
  OBVIOUS
<1> HIDE DEF f
<1>3. PICK first : Joins(first, 0, f) /\ Joined(f, 0) = first[0]
  BY <1>2, JoinedUnfold
<1> QED
  BY <1>1, <1>3 DEF Joins

LEMMA CodesMore ==
    ASSUME NEW its \in Seq(Items), NEW it \in Items
    PROVE  /\ Codes(its) \in Bits
           /\ Codes(Append(its, it)) = Codes(its) \o Code(it)
<1> DEFINE n == Len(its)
           more == Append(its, it)
           f == [i \in DOMAIN its |-> Code(its[i])]
           g == [i \in DOMAIN more |-> Code(more[i])]
<1>1. n \in Nat /\ DOMAIN its = 1..n /\ \A j \in 1..n : its[j] \in Items
  OBVIOUS
<1>2. /\ Len(more) = n + 1 /\ DOMAIN more = 1..(n + 1) /\ more[n + 1] = it
      /\ \A j \in 1..n : more[j] = its[j]
  <2>1. more \in Seq(Items) /\ Len(more) = n + 1 /\ more[n + 1] = it
        /\ \A j \in 1..n : more[j] = its[j]
    BY AppendProperties
  <2> HIDE DEF more
  <2> QED
    BY <2>1
<1> HIDE DEF more
<1>3. \A j \in 1..n : f[j] = Code(its[j]) /\ f[j] \in Bits
  BY <1>1, CodeIsBits
<1>4. \A j \in 1..n : g[j] = f[j]
  <2>1. \A j \in 1..n : j \in 1..(n + 1)
    BY <1>1
  <2> QED
    BY <1>1, <1>2, <2>1
<1>5. g[n + 1] = Code(it) /\ Code(it) \in Bits
  <2>1. n + 1 \in 1..(n + 1)
    BY <1>1
  <2> QED
    BY <1>2, <2>1, CodeIsBits
<1>6. Codes(its) = Joined(f, n) /\ Codes(more) = Joined(g, n + 1)
  <2> HIDE DEF g
  <2>1. Codes(more) = Joined([i \in DOMAIN more |-> Code(more[i])], Len(more))
    BY DEF Codes
  <2> QED
    BY <1>2, <2>1 DEF Codes, g
<1> HIDE DEF f, g, n
<1>7. Joined(f, n) \in Bits
  BY <1>1, <1>3, JoinedIsBits
<1>8. Joined(g, n + 1) = Joined(f, n) \o g[n + 1]
  BY <1>1, <1>3, <1>4, <1>5, JoinedMore
<1> QED
  BY <1>5, <1>6, <1>7, <1>8 DEF more

-----------------------------------------------------------------------------
(* The invariant: what the writer holds is the codes of the items and, when *)
(* the frame has been padded, some zeroes.  It says of the writer what the *)
(* functions need of it: the accumulator is never left full, and there is  *)
(* room for what it holds.                                                 *)
WriterInv ==
    /\ bw \in Writers
    /\ items \in Seq(Items)
    /\ phase = "writing" => bw.ok /\ BufferBits(bw) = Codes(items)
    /\ bw.ok => \E n \in Nat : BufferBits(bw) = Codes(items) \o Zeroes(n)

LEMMA InitWriter == Init => WriterInv
<1> SUFFICES ASSUME Init PROVE WriterInv
  OBVIOUS
<1>1. /\ BitsPerWord \in Nat \ {0} /\ DefaultCapacity \in Nat
      /\ Zeroes(BitsPerWord) \in Word
  BY WordWidth, WriterAssumption, ZeroIsWord
<1> DEFINE w == NewWriter
           acc == Zeroes(BitsPerWord)
<1>2. /\ w.buffer = <<>> /\ w.accum = acc /\ w.bits = 0
      /\ w.capacity = DefaultCapacity /\ w.ok = TRUE
  BY DEF NewWriter
<1>3. w \in AnyWriter
  <2>1. <<>> \in Seq(Word) /\ 0 \in 0..BitsPerWord
    BY <1>1
  <2> HIDE DEF acc
  <2>2. acc \in Word /\ w = [buffer |-> <<>>, accum |-> acc, bits |-> 0,
                             capacity |-> DefaultCapacity, ok |-> TRUE]
    BY <1>1 DEF NewWriter, acc
  <2> QED
    BY <1>1, <2>1, <2>2 DEF AnyWriter
<1> HIDE DEF w
<1>4. RoomKept(w)
  BY <1>1, <1>2 DEF RoomKept, Words
<1>5. BufferBits(w) = <<>>
  <2>1. BufferBits(w) = FlatWords(<<>>) \o LowBits(acc, 0)
    BY <1>2, <1>3, HeldIs
  <2>2. LowBits(acc, 0) = <<>>
    BY <1>1, LowBitsAll
  <2> QED
    BY <2>1, <2>2, FlatNone, NoneJoined DEF Bits
<1>6. Zeroes(0) = <<>>
  <2>1. Zeroes(0) \in Bits /\ Len(Zeroes(0)) = 0
    BY ZeroesAre
  <2> QED
    BY <2>1, EmptySeq DEF Bits
<1>7. <<>> \o Zeroes(0) = <<>>
  BY <1>6, NoneJoined DEF Bits
<1>8. bw = w /\ items = <<>> /\ 0 \in Nat
  BY DEF Init, w
<1> QED
  BY <1>2, <1>3, <1>4, <1>5, <1>7, <1>8, CodesOfNone DEF WriterInv, Writers

LEMMA WroteKeeps ==
    ASSUME WriterInv, phase = "writing", NEW after, NEW it \in Items,
           Puts(after, bw, Code(it)), Wrote(after, it)
    PROVE  WriterInv'
<1>1. /\ bw' = after /\ items' = (IF after.ok THEN Append(items, it) ELSE items)
      /\ phase' = IF after.ok THEN "writing" ELSE "failed"
  BY DEF Wrote
<1>2. after \in Writers /\ items \in Seq(Items) /\ BufferBits(bw) = Codes(items)
  BY DEF WriterInv, Puts
<1>3. CASE after.ok
  <2>1. BufferBits(after) = Codes(items) \o Code(it)
    BY <1>2, <1>3 DEF Puts
  <2>2. items' = Append(items, it) /\ items' \in Seq(Items)
    BY <1>1, <1>2, <1>3, AppendProperties
  <2>3. BufferBits(bw') = Codes(items')
    BY <1>1, <1>2, <2>1, <2>2, CodesMore
  <2>4. BufferBits(after) \in Bits
    BY <1>2, WriterFields
  <2>5. Zeroes(0) = <<>>
    <3>1. Zeroes(0) \in Bits /\ Len(Zeroes(0)) = 0
      BY ZeroesAre
    <3> QED
      BY <3>1, EmptySeq DEF Bits
  <2>6. 0 \in Nat /\ BufferBits(bw') = Codes(items') \o Zeroes(0)
    BY <1>1, <2>3, <2>4, <2>5, NoneJoined
  <2> QED
    BY <1>1, <1>2, <1>3, <2>2, <2>3, <2>6 DEF WriterInv
<1>4. CASE ~after.ok
  BY <1>1, <1>2, <1>4 DEF WriterInv
<1> QED
  BY <1>3, <1>4

LEMMA TakesBuffer ==
    ASSUME WriterInv, TakeBuffer
    PROVE  WriterInv'
<1> DEFINE padded == ZeroPad(bw)
           ready == IF padded.ok THEN BufferReady(padded) ELSE padded
<1>1. /\ bw' = ready /\ items' = items
      /\ phase' = IF ready.ok THEN "reading" ELSE "failed"
  BY DEF TakeBuffer
<1>2. bw \in Writers /\ items \in Seq(Items) /\ BufferBits(bw) = Codes(items)
  BY DEF WriterInv, TakeBuffer
<1>3. PICK n \in Nat : Puts(padded, bw, Zeroes(n))
  BY <1>2, PadPuts
<1> HIDE DEF padded
<1>4. padded \in Writers /\ (padded.ok => BufferBits(padded) = Codes(items) \o Zeroes(n))
  BY <1>2, <1>3 DEF Puts
<1>5. /\ ready \in Writers
      /\ ready.ok => BufferBits(ready) = Codes(items) \o Zeroes(n)
  BY <1>4, ReadyKeeps
<1> HIDE DEF ready
<1>6. phase' # "writing"
  BY <1>1
<1> QED
  BY <1>1, <1>2, <1>5, <1>6 DEF WriterInv

(* The reader leaves the writer alone.                                     *)
ReaderSteps == Reader \/ ResetCrc \/ GetCrc

LEMMA ReadersKeep ==
    ASSUME WriterInv, ReaderSteps \/ UNCHANGED vars
    PROVE  WriterInv'
<1>1. bw' = bw /\ items' = items /\ (phase' = phase \/ phase' = "failed")
  <2>1. CASE BeginRead
    BY <2>1 DEF BeginRead, Continues
  <2>2. CASE ReadRaw
    BY <2>2 DEF ReadRaw, Returned
  <2>3. CASE ReadUnary
    BY <2>3 DEF ReadUnary, Returned, Continues
  <2>4. CASE RiceFast
    BY <2>4 DEF RiceFast, RiceOn, Returned, Continues
  <2>5. CASE RiceMsbs
    BY <2>5 DEF RiceMsbs, RiceOn, Returned, Continues
  <2>6. CASE RiceLsbs
    BY <2>6 DEF RiceLsbs, RiceOn, Returned, Continues
  <2>7. CASE ReadBlockByte
    BY <2>7 DEF ReadBlockByte, BlockOn, Returned, Continues
  <2>8. CASE ReadBlockWord
    BY <2>8 DEF ReadBlockWord, BlockOn, Returned, Continues
  <2>9. CASE Fetch
    BY <2>9 DEF Fetch
  <2>10. CASE FetchFails
    BY <2>10 DEF FetchFails
  <2>11. CASE ResetCrc
    BY <2>11 DEF ResetCrc
  <2>12. CASE GetCrc
    BY <2>12 DEF GetCrc
  <2>13. CASE UNCHANGED vars
    BY <2>13 DEF vars
  <2> QED
    BY <2>1, <2>2, <2>3, <2>4, <2>5, <2>6, <2>7, <2>8, <2>9, <2>10, <2>11, <2>12,
       <2>13 DEF ReaderSteps, Reader
<1>2. phase' = "writing" => phase = "writing"
  BY <1>1
<1> QED
  BY <1>1, <1>2 DEF WriterInv

LEMMA NextWriter == WriterInv /\ [Next]_vars => WriterInv'
<1> SUFFICES ASSUME WriterInv, [Next]_vars PROVE WriterInv'
  OBVIOUS
<1>1. bw \in Writers
  BY DEF WriterInv
<1>2. CASE WriteRawItem
  <2>1. PICK b \in RawItems : Wrote(WriteRaw(bw, b), [op |-> "raw", bits |-> b])
    BY <1>2 DEF WriteRawItem
  <2> DEFINE it == [op |-> "raw", bits |-> b]
  <2>2. b \in Bits /\ Len(b) <= BitsPerWord /\ it \in Items /\ Code(it) = b
    BY ItemCodes
  <2>3. Puts(WriteRaw(bw, b), bw, Code(it))
    BY <1>1, <2>2, RawPuts
  <2>4. phase = "writing"
    BY <1>2 DEF WriteRawItem, MayWrite
  <2> HIDE DEF it
  <2> QED
    BY <2>1, <2>2, <2>3, <2>4, WroteKeeps DEF it
<1>3. CASE WriteUnaryItem
  <2>1. PICK n \in UnaryItems : Wrote(WriteUnary(bw, n), [op |-> "unary", n |-> n])
    BY <1>3 DEF WriteUnaryItem
  <2> DEFINE it == [op |-> "unary", n |-> n]
  <2>2. n \in Nat /\ it \in Items /\ Code(it) = Append(Zeroes(n), 1)
    BY ItemCodes
  <2>3. Puts(WriteUnary(bw, n), bw, Code(it))
    BY <1>1, <2>2, UnaryPuts
  <2>4. phase = "writing"
    BY <1>3 DEF WriteUnaryItem, MayWrite
  <2> HIDE DEF it
  <2> QED
    BY <2>1, <2>2, <2>3, <2>4, WroteKeeps DEF it
<1>4. CASE WriteRiceBlock
  <2>1. PICK vs \in RiceBlocks, k \in Parameters :
           Wrote(ForAllOf(vs, LAMBDA w, v : WriteRiceOfBlock(w, v, k)),
                 [op |-> "rice", vals |-> vs, k |-> k])
    BY <1>4 DEF WriteRiceBlock
  <2> DEFINE it == [op |-> "rice", vals |-> vs, k |-> k]
             after == ForAllOf(vs, LAMBDA w, v : WriteRiceOfBlock(w, v, k))
  <2>2. /\ vs \in Seq(Int) /\ k \in Nat /\ k <= BitsPerWord - 2 /\ it \in Items
        /\ Code(it) = Joined([i \in DOMAIN vs |-> RiceCode(vs[i], k)], Len(vs))
    BY ItemCodes
  <2>3. Puts(after, bw, Code(it))
    BY <1>1, <2>2, RiceBlockPuts
  <2>4. phase = "writing"
    BY <1>4 DEF WriteRiceBlock, MayWrite
  <2>5. Wrote(after, it)
    BY <2>1
  <2> HIDE DEF it, after
  <2> QED
    BY <2>2, <2>3, <2>4, <2>5, WroteKeeps
<1>5. CASE WriteRiceSingly
  <2>1. PICK vs \in RiceBlocks, k \in Parameters :
           Wrote(ForAllOf(vs, LAMBDA w, v : WriteRiceSigned(w, v, k)),
                 [op |-> "rice", vals |-> vs, k |-> k])
    BY <1>5 DEF WriteRiceSingly
  <2> DEFINE it == [op |-> "rice", vals |-> vs, k |-> k]
             after == ForAllOf(vs, LAMBDA w, v : WriteRiceSigned(w, v, k))
  <2>2. /\ vs \in Seq(Int) /\ k \in Nat /\ k <= BitsPerWord - 2 /\ it \in Items
        /\ Code(it) = Joined([i \in DOMAIN vs |-> RiceCode(vs[i], k)], Len(vs))
    BY ItemCodes
  <2>3. Puts(after, bw, Code(it))
    BY <1>1, <2>2, RiceSinglyPuts
  <2>4. phase = "writing"
    BY <1>5 DEF WriteRiceSingly, MayWrite
  <2>5. Wrote(after, it)
    BY <2>1
  <2> HIDE DEF it, after
  <2> QED
    BY <2>2, <2>3, <2>4, <2>5, WroteKeeps
<1>6. CASE WriteBlock
  <2>1. PICK bs \in ByteBlocks :
           Wrote(ForAllOf(bs, WriteRaw), [op |-> "block", bytes |-> bs])
    BY <1>6 DEF WriteBlock
  <2> DEFINE it == [op |-> "block", bytes |-> bs]
             after == ForAllOf(bs, WriteRaw)
  <2>2. /\ bs \in Seq([1..BitsPerByte -> Bit]) /\ it \in Items
        /\ Code(it) = Joined(bs, Len(bs))
    BY ItemCodes
  <2>3. Puts(after, bw, Code(it))
    BY <1>1, <2>2, BytesPut
  <2>4. phase = "writing"
    BY <1>6 DEF WriteBlock, MayWrite
  <2>5. Wrote(after, it)
    BY <2>1
  <2> HIDE DEF it, after
  <2> QED
    BY <2>2, <2>3, <2>4, <2>5, WroteKeeps
<1>7. CASE TakeBuffer
  BY <1>7, TakesBuffer
<1>8. CASE ReaderSteps \/ UNCHANGED vars
  BY <1>8, ReadersKeep
<1> QED
  BY <1>2, <1>3, <1>4, <1>5, <1>6, <1>7, <1>8 DEF Next, Writer, ReaderSteps

(* The writer is sound at every moment, whatever is written.               *)
THEOREM WriterInvariant == Spec => []WriterInv
<1>1. Init => WriterInv
  BY InitWriter
<1>2. WriterInv /\ [Next]_vars => WriterInv'
  BY NextWriter
<1> QED
  BY <1>1, <1>2, PTL DEF Spec

(* What is in the writer is what was written, bit by bit, and there was    *)
(* room for it, for words of any width and items of any size.              *)
THEOREM WriterExactHolds == Spec => []WriterExact
<1>1. WriterInv => WriterExact
  <2> SUFFICES ASSUME WriterInv PROVE WriterExact
    OBVIOUS
  <2>1. RoomKept(bw) /\ items \in Seq(Items)
    BY DEF WriterInv, Writers
  <2>2. Codes(items) \in Bits
    <3> DEFINE n == Len(items)
               f == [i \in DOMAIN items |-> Code(items[i])]
    <3>1. n \in Nat /\ \A j \in 1..n : f[j] \in Bits
      BY <2>1, CodeIsBits
    <3>2. Codes(items) = Joined(f, n)
      BY DEF Codes
    <3> HIDE DEF f, n
    <3> QED
      BY <3>1, <3>2, JoinedIsBits
  <2>3. ASSUME bw.ok
        PROVE  SubSeq(BufferBits(bw), 1, Len(Codes(items))) = Codes(items)
    <3>1. PICK n \in Nat : BufferBits(bw) = Codes(items) \o Zeroes(n)
      BY <2>3 DEF WriterInv
    <3> DEFINE s == Codes(items)
               z == Zeroes(n)
    <3>2. s \in Bits /\ z \in Bits
      BY <2>2, ZeroesAre
    <3> HIDE DEF s, z
    <3>3. SubSeq(s \o z, 1, Len(s)) = s
      BY <3>2 DEF Bits
    <3> QED
      BY <3>1, <3>3 DEF s, z
  <2>4. phase = "writing" => Len(BufferBits(bw)) = Len(Codes(items))
    BY DEF WriterInv
  <2> QED
    BY <2>1, <2>3, <2>4 DEF WriterExact
<1> QED
  BY <1>1, WriterInvariant, PTL

-----------------------------------------------------------------------------
(* Numbers in binary.                                                      *)
LEMMA NumberUnfolds ==
    ASSUME NEW bits \in Bits
    PROVE  \E value : /\ value[0] = 0
                      /\ \A j \in 1..Len(bits) :
                            value[j] = 2 * value[j - 1] + bits[j]
                      /\ Number(bits) = value[Len(bits)]
<1> DEFINE n == Len(bits)
           Body(g) == [i \in 0..n |-> IF i = 0 THEN 0 ELSE 2 * g[i - 1] + bits[i]]
           step == [j \in 1..n |-> [x \in Nat |-> 2 * x + bits[j]]]
           value == CHOOSE g : g = Body(g)
<1>1. n \in Nat /\ \A j \in 1..n : bits[j] \in Nat
  BY DEF Bits, Bit
<1>2. step \in Steps(n, Nat)
  <2>1. ASSUME NEW j \in 1..n, NEW x \in Nat PROVE 2 * x + bits[j] \in Nat
    BY <1>1
  <2> QED
    BY <2>1 DEF Steps
<1>3. Number(bits) = value[n]
  BY DEF Number
<1> HIDE DEF n
<1>4. PICK h : Builds(h, n, Nat, 0, step)
  <2> HIDE DEF step
  <2>1. 0 \in Nat
    OBVIOUS
  <2> QED
    BY <1>1, <1>2, <2>1, Recursion
<1>5. /\ h \in [0..n -> Nat] /\ h[0] = 0
      /\ \A j \in 1..n : h[j] = 2 * h[j - 1] + bits[j]
  <2>1. /\ h \in [0..n -> Nat] /\ h[0] = 0
        /\ \A j \in 1..n : h[j] = step[j][h[j - 1]]
    BY <1>4 DEF Builds
  <2>2. ASSUME NEW j \in 1..n PROVE h[j] = 2 * h[j - 1] + bits[j]
    <3>1. j - 1 \in 0..n
      BY <1>1
    <3>2. h[j - 1] \in Nat
      BY <2>1, <3>1
    <3>3. step[j][h[j - 1]] = 2 * h[j - 1] + bits[j]
      BY <3>2
    <3> HIDE DEF step
    <3> QED
      BY <2>1, <3>3
  <2> QED
    BY <2>1, <2>2
<1>6. h = Body(h)
  <2>1. ASSUME NEW j \in 0..n PROVE h[j] = Body(h)[j]
    <3>1. CASE j = 0
      BY <1>5, <3>1
    <3>2. CASE j # 0
      <4>1. j \in 1..n
        BY <1>1, <3>2
      <4>2. h[j] = 2 * h[j - 1] + bits[j]
        BY <1>5, <4>1
      <4> QED
        BY <3>2, <4>2
    <3> QED
      BY <3>1, <3>2
  <2>2. DOMAIN h = 0..n /\ h = [j \in 0..n |-> h[j]]
    BY <1>5
  <2> QED
    BY <2>1, <2>2
<1>7. value = Body(value)
  <2> HIDE DEF Body
  <2> QED
    BY <1>6
<1> HIDE DEF value
<1>8. /\ value[0] = 0
      /\ \A j \in 1..n : value[j] = 2 * value[j - 1] + bits[j]
  <2>1. \A j \in 0..n : value[j] = Body(value)[j]
    BY <1>7
  <2>2. 0 \in 0..n /\ \A j \in 1..n : j \in 0..n /\ j # 0
    BY <1>1
  <2> QED
    BY <2>1, <2>2
<1> QED
  BY <1>3, <1>8 DEF n

(* What the binary part of a code leaves out is in its zeroes.             *)
LEMMA NumberOfBinary ==
    ASSUME NEW u \in Nat, NEW k \in 0..BitsPerWord
    PROVE  (u \div 2^k) * 2^k + Number(Binary(u, k)) = u
<1> DEFINE M == u \div 2^k
           a(j) == u \div 2^(k - j)
           s == Binary(u, k)
<1>1. BitsPerWord \in Nat /\ k \in Nat /\ s \in Bits /\ Len(s) = k /\ M \in Nat
  BY WordWidth, BinaryIs
<1>2. PICK value : /\ value[0] = 0
                   /\ \A j \in 1..k : value[j] = 2 * value[j - 1] + s[j]
                   /\ Number(s) = value[k]
  <2> HIDE DEF s
  <2> QED
    BY <1>1, NumberUnfolds
<1>3. ASSUME NEW j \in 0..k PROVE a(j) \in Nat /\ 2^j \in Nat
  <2>1. k - j \in 0..BitsPerWord /\ j \in 0..BitsPerWord
    BY <1>1
  <2>2. 2^(k - j) \in Nat \ {0} /\ 2^j \in Nat \ {0}
    BY <2>1, PowerIs
  <2> QED
    BY <2>2, HalvesAre
<1>4. ASSUME NEW j \in 1..k
      PROVE  a(j) = 2 * a(j - 1) + s[j] /\ s[j] \in {0, 1} /\ 2^j = 2 * 2^(j - 1)
  <2> DEFINE p == 2^(k - j)
  <2>1. /\ k - j \in 0..BitsPerWord /\ j \in 1..BitsPerWord
        /\ k - (j - 1) \in 1..BitsPerWord /\ (k - (j - 1)) - 1 = k - j
    BY <1>1
  <2>2. p \in Nat \ {0} /\ 2^(k - (j - 1)) = 2 * p /\ 2^j = 2 * 2^(j - 1)
    BY <2>1, PowerIs, PowerAssumption
  <2>3. s[j] = (u \div p) % 2
    BY DEF Binary
  <2> HIDE DEF p, s
  <2>4. u \div p = 2 * (u \div (2 * p)) + ((u \div p) % 2)
    BY <2>2, HalvesAre
  <2>5. a(j) = u \div p /\ a(j - 1) = u \div (2 * p)
    BY <2>2 DEF p
  <2>6. s[j] \in {0, 1}
    BY <1>1 DEF Bits, Bit
  <2> QED
    BY <2>2, <2>3, <2>4, <2>5, <2>6
<1> HIDE DEF a, s, M
<1>5. a(0) = M /\ a(k) = u
  <2>1. k - 0 = k /\ k - k = 0 /\ u \div 1 = u
    BY <1>1
  <2> QED
    BY <2>1, PowerAssumption DEF a, M
<1>6. \A j \in 0..k : value[j] = a(j) - 2^j * M
  <2> DEFINE wrong == {j \in 0..k : value[j] # a(j) - 2^j * M}
  <2>1. SUFFICES ASSUME wrong # {} PROVE FALSE
    BY <2>1
  <2>2. PICK j \in wrong : \A i \in wrong : j <= i
    <3>1. wrong \subseteq Nat
      BY <1>1
    <3> HIDE DEF wrong
    <3> QED
      BY <2>1, <3>1, LeastNumber
  <2>3. j # 0
    <3>1. 2^0 * M = M
      BY <1>1, PowerAssumption
    <3>2. value[0] = a(0) - 2^0 * M
      BY <1>1, <1>2, <1>5, <3>1
    <3> QED
      BY <3>2
  <2>4. j \in 1..k /\ j - 1 \in 0..k /\ ~ (j <= j - 1)
    BY <1>1, <2>3
  <2>5. j - 1 \notin wrong
    <3> HIDE DEF wrong
    <3> QED
      BY <2>2, <2>4
  <2> DEFINE P == 2^(j - 1)
             b == a(j - 1)
  <2>6. value[j - 1] = b - P * M /\ P \in Nat /\ b \in Nat
    BY <1>3, <2>4, <2>5
  <2>7. /\ a(j) = 2 * b + s[j] /\ s[j] \in {0, 1} /\ 2^j = 2 * P
        /\ value[j] = 2 * value[j - 1] + s[j]
    BY <1>2, <1>4, <2>4
  <2> HIDE DEF P, b
  <2>8. (2 * P) * M = 2 * (P * M) /\ P * M \in Nat
    BY <1>1, <2>6
  <2>9. value[j] = a(j) - 2^j * M
    <3> DEFINE m == P * M
    <3> HIDE DEF m
    <3>1. 2^j * M = 2 * m /\ value[j - 1] = b - m /\ m \in Nat
      BY <2>6, <2>7, <2>8 DEF m
    <3>2. 2 * (b - m) + s[j] = (2 * b + s[j]) - 2 * m
      BY <2>6, <2>7, <3>1
    <3> QED
      BY <2>7, <3>1, <3>2
  <2> QED
    BY <2>9
<1>7. value[k] = u - 2^k * M
  BY <1>1, <1>5, <1>6
<1>8. 2^k \in Nat
  BY PowerIs
<1>9. M * 2^k = 2^k * M /\ 2^k * M \in Nat
  BY <1>1, <1>8
<1>10. M * 2^k + Number(s) = u
  <2> DEFINE m == 2^k * M
  <2> HIDE DEF m
  <2>1. M * 2^k = m /\ m \in Nat /\ Number(s) = u - m
    BY <1>2, <1>7, <1>9 DEF m
  <2> QED
    BY <2>1
<1> QED
  BY <1>10 DEF M, s

LEMMA Unfolded ==
    ASSUME NEW v \in Int
    PROVE  Fold(v) \in Nat /\ Unfold(Fold(v)) = v
<1>1. CASE v < 0
  <2>1. Fold(v) = 2 * (-v - 1) + 1
    BY <1>1 DEF Fold
  <2>2. (2 * (-v - 1) + 1) % 2 = 1 /\ (2 * (-v - 1) + 1) \div 2 = -v - 1
    OBVIOUS
  <2> QED
    BY <1>1, <2>1, <2>2 DEF Unfold
<1>2. CASE v >= 0
  <2>1. (2 * v) % 2 = 0 /\ (2 * v) \div 2 = v
    OBVIOUS
  <2> QED
    BY <1>2, <2>1 DEF Fold, Unfold
<1> QED
  BY <1>1, <1>2

-----------------------------------------------------------------------------
(* The sequence s stands in t behind its first p bits.                     *)
There(t, p, s) ==
    /\ p + Len(s) <= Len(t)
    /\ \A i \in 1..Len(s) : t[p + i] = s[i]

LEMMA ThereWithin ==
    ASSUME NEW t \in Bits, NEW s \in Bits, NEW r \in Bits, NEW p \in Nat, NEW q \in Nat,
           There(t, p, s), There(s, q, r)
    PROVE  There(t, p + q, r)
<1>1. Len(t) \in Nat /\ Len(s) \in Nat /\ Len(r) \in Nat
  BY DEF Bits
<1>2. p + q + Len(r) <= Len(t)
  BY <1>1 DEF There
<1>3. ASSUME NEW i \in 1..Len(r) PROVE t[(p + q) + i] = r[i]
  <2>1. q + i \in 1..Len(s) /\ p + (q + i) = (p + q) + i
    BY <1>1 DEF There
  <2>2. t[p + (q + i)] = s[q + i] /\ s[q + i] = r[i]
    BY <2>1 DEF There
  <2> QED
    BY <2>1, <2>2
<1> QED
  BY <1>2, <1>3 DEF There

LEMMA ThereJoined ==
    ASSUME NEW s \in Bits, NEW t \in Bits
    PROVE  There(s \o t, 0, s) /\ There(s \o t, Len(s), t) /\ There(s, 0, s)
<1>1. /\ Len(s) \in Nat /\ Len(t) \in Nat /\ Len(s \o t) = Len(s) + Len(t)
      /\ \A i \in 1..Len(s) : (s \o t)[i] = s[i]
      /\ \A i \in 1..Len(t) : (s \o t)[Len(s) + i] = t[i]
  BY Joining
<1>2. \A i \in 1..Len(s) : 0 + i = i
  BY <1>1
<1> QED
  BY <1>1, <1>2 DEF There

LEMMA PartsOfJoined ==
    ASSUME NEW n \in Nat, NEW f, \A j \in 1..n : f[j] \in Bits, NEW i \in 1..n
    PROVE  /\ Joined(f, i - 1) \in Bits /\ Joined(f, i) \in Bits /\ f[i] \in Bits
           /\ Joined(f, i) = Joined(f, i - 1) \o f[i]
           /\ Len(Joined(f, i)) = Len(Joined(f, i - 1)) + Len(f[i])
           /\ There(Joined(f, i), Len(Joined(f, i - 1)), f[i])
           /\ There(Joined(f, i), 0, Joined(f, i - 1))
<1> DEFINE m == i - 1
<1>1. m \in Nat /\ \A j \in 1..m : f[j] \in Bits
  OBVIOUS
<1>2. m + 1 = i /\ f[m + 1] \in Bits /\ f[i] \in Bits
  OBVIOUS
<1> HIDE DEF m
<1>3. Joined(f, m + 1) = Joined(f, m) \o f[m + 1]
  BY <1>1, <1>2, JoinedMore
<1>4. Joined(f, m) \in Bits
  BY <1>1, JoinedIsBits
<1>5. Joined(f, i) = Joined(f, m) \o f[i]
  BY <1>2, <1>3
<1> QED
  BY <1>2, <1>4, <1>5, Joining, ThereJoined DEF m

LEMMA JoinedBegins ==
    ASSUME NEW n \in Nat, NEW f, \A j \in 1..n : f[j] \in Bits, NEW i \in 0..n
    PROVE  /\ Joined(f, i) \in Bits /\ Len(Joined(f, i)) \in Nat
           /\ There(Joined(f, n), 0, Joined(f, i))
<1>1. \A j \in 0..n : Joined(f, j) \in Bits
  <2> TAKE j \in 0..n
  <2>1. j \in Nat /\ \A l \in 1..j : f[l] \in Bits
    OBVIOUS
  <2> QED
    BY <2>1, JoinedIsBits
<1> DEFINE wrong == {j \in 0..n : i <= j /\ ~ There(Joined(f, j), 0, Joined(f, i))}
<1>2. wrong = {}
  <2>1. SUFFICES ASSUME wrong # {} PROVE FALSE
    BY <2>1
  <2>2. PICK j \in wrong : \A l \in wrong : j <= l
    <3>1. wrong \subseteq Nat
      OBVIOUS
    <3> HIDE DEF wrong
    <3> QED
      BY <2>1, <3>1, LeastNumber
  <2>3. j # i
    BY <1>1, ThereJoined
  <2>4. j \in 1..n /\ j - 1 \in 0..n /\ i <= j - 1 /\ ~ (j <= j - 1)
    BY <2>3
  <2>5. j - 1 \notin wrong
    <3> HIDE DEF wrong
    <3> QED
      BY <2>2, <2>4
  <2>6. There(Joined(f, j - 1), 0, Joined(f, i))
    BY <2>4, <2>5
  <2>7. There(Joined(f, j), 0, Joined(f, j - 1))
    BY <2>4, PartsOfJoined
  <2>8. There(Joined(f, j), 0 + 0, Joined(f, i))
    <3>1. Joined(f, j) \in Bits /\ Joined(f, j - 1) \in Bits /\ Joined(f, i) \in Bits
      BY <1>1, <2>4
    <3>2. 0 \in Nat
      OBVIOUS
    <3> HIDE DEF wrong
    <3> QED
      BY <2>6, <2>7, <3>1, <3>2, ThereWithin
  <2> QED
    BY <2>8
<1>3. n \in 0..n /\ i <= n
  OBVIOUS
<1>4. There(Joined(f, n), 0, Joined(f, i))
  BY <1>2, <1>3
<1> QED
  BY <1>1, <1>4 DEF Bits

(* Where each of the joined stands.                                        *)
LEMMA JoinedThere ==
    ASSUME NEW n \in Nat, NEW f, \A j \in 1..n : f[j] \in Bits, NEW i \in 1..n
    PROVE  /\ There(Joined(f, n), Len(Joined(f, i - 1)), f[i])
           /\ Len(Joined(f, i)) = Len(Joined(f, i - 1)) + Len(f[i])
           /\ Len(Joined(f, i)) <= Len(Joined(f, n))
           /\ Len(Joined(f, i - 1)) \in Nat /\ Len(f[i]) \in Nat
<1>1. /\ Joined(f, i - 1) \in Bits /\ Joined(f, i) \in Bits /\ f[i] \in Bits
      /\ Len(Joined(f, i)) = Len(Joined(f, i - 1)) + Len(f[i])
      /\ There(Joined(f, i), Len(Joined(f, i - 1)), f[i])
  BY PartsOfJoined
<1>2. i \in 0..n /\ n \in 0..n
  OBVIOUS
<1>3. There(Joined(f, n), 0, Joined(f, i)) /\ Joined(f, n) \in Bits
  BY <1>2, JoinedBegins
<1>4. 0 \in Nat /\ Len(Joined(f, i - 1)) \in Nat /\ Len(f[i]) \in Nat
      /\ 0 + Len(Joined(f, i - 1)) = Len(Joined(f, i - 1))
  BY <1>1 DEF Bits
<1>5. There(Joined(f, n), 0 + Len(Joined(f, i - 1)), f[i])
  BY <1>1, <1>3, <1>4, ThereWithin
<1>6. Len(Joined(f, i)) <= Len(Joined(f, n))
  <2>1. 0 + Len(Joined(f, i)) <= Len(Joined(f, n))
    BY <1>3 DEF There
  <2>2. Len(Joined(f, i)) \in Nat /\ Len(Joined(f, n)) \in Nat
    <3>1. \A s \in Bits : Len(s) \in Nat
      BY DEF Bits
    <3> QED
      BY <1>1, <1>3, <3>1
  <2> QED
    BY <2>1, <2>2
<1> QED
  BY <1>1, <1>4, <1>5, <1>6

LEMMA NothingJoined ==
    ASSUME NEW f
    PROVE  Joined(f, 0) = <<>>
<1>1. 0 \in Nat /\ \A j \in 1..0 : f[j] \in Bits
  OBVIOUS
<1>2. PICK first : Joins(first, 0, f) /\ Joined(f, 0) = first[0]
  BY <1>1, JoinedUnfold
<1> QED
  BY <1>2 DEF Joins

-----------------------------------------------------------------------------
(* Reading.  A reader, how far it is in its buffer, and how far its CRC    *)
(* goes.                                                                   *)
AnyReader == [data : Seq(Bit), consumedWords : Nat, consumedBits : 0..BitsPerWord,
              crc : Seq(Bit), crcAlign : Nat]

Readers == {r \in AnyReader : Consumed(r) <= Len(r.data)}

CrcPlace(r) == r.consumedWords * BitsPerWord + r.crcAlign

LEMMA PieceIs ==
    ASSUME NEW s \in Bits, NEW a \in Nat, NEW b \in Nat, a <= b, b <= Len(s)
    PROVE  /\ SubSeq(s, a + 1, b) \in Bits /\ Len(SubSeq(s, a + 1, b)) = b - a
           /\ \A i \in 1..(b - a) : SubSeq(s, a + 1, b)[i] = s[a + i]
<1>1. Len(s) \in Nat /\ \A i \in 1..Len(s) : s[i] \in Bit
  BY DEF Bits
<1>2. SubSeq(s, a + 1, b) = [i \in 1..(b - a) |-> s[a + i]]
  <2>1. SubSeq(s, a + 1, b) = [i \in 1..((b - (a + 1)) + 1) |-> s[(i + (a + 1)) - 1]]
    OBVIOUS
  <2>2. (b - (a + 1)) + 1 = b - a /\ \A i \in 1..(b - a) : (i + (a + 1)) - 1 = a + i
    OBVIOUS
  <2> QED
    BY <2>1, <2>2
<1>3. \A i \in 1..(b - a) : a + i \in 1..Len(s)
  BY <1>1
<1>4. SubSeq(s, a + 1, b) \in [1..(b - a) -> Bit]
  BY <1>1, <1>2, <1>3
<1>5. b - a \in Nat
  OBVIOUS
<1>6. SubSeq(s, a + 1, b) \in Bits /\ Len(SubSeq(s, a + 1, b)) = b - a
  BY <1>4, <1>5 DEF Bits
<1> QED
  BY <1>2, <1>6

LEMMA PiecesJoin ==
    ASSUME NEW s \in Bits, NEW a \in Nat, NEW b \in Nat, NEW c \in Nat,
           a <= b, b <= c, c <= Len(s)
    PROVE  SubSeq(s, a + 1, b) \o SubSeq(s, b + 1, c) = SubSeq(s, a + 1, c)
<1> DEFINE x == SubSeq(s, a + 1, b)
           y == SubSeq(s, b + 1, c)
           z == SubSeq(s, a + 1, c)
<1>1. Len(s) \in Nat /\ b <= Len(s) /\ a <= c
  BY DEF Bits
<1>2. /\ x \in Bits /\ Len(x) = b - a /\ \A i \in 1..(b - a) : x[i] = s[a + i]
      /\ y \in Bits /\ Len(y) = c - b /\ \A i \in 1..(c - b) : y[i] = s[b + i]
      /\ z \in Bits /\ Len(z) = c - a /\ \A i \in 1..(c - a) : z[i] = s[a + i]
  BY <1>1, PieceIs
<1> HIDE DEF x, y, z
<1>3. Len(z) = Len(x) + Len(y)
  BY <1>2
<1>4. \A i \in 1..Len(x) : z[i] = x[i]
  BY <1>2
<1>5. \A i \in 1..Len(y) : z[Len(x) + i] = y[i]
  <2> TAKE i \in 1..Len(y)
  <2>1. (b - a) + i \in 1..(c - a) /\ a + ((b - a) + i) = b + i /\ i \in 1..(c - b)
    BY <1>2
  <2>2. z[(b - a) + i] = s[a + ((b - a) + i)] /\ y[i] = s[b + i]
    BY <1>2, <2>1
  <2> QED
    BY <1>2, <2>1, <2>2
<1> QED
  BY <1>2, <1>3, <1>4, <1>5, IsJoined DEF x, y, z

(* A reader that has gone on to place p; every bit it passed is in the     *)
(* CRC, up to where the CRC goes.                                          *)
Moves(q, r, p) ==
    /\ q \in Readers /\ q.data = r.data
    /\ Consumed(q) = p
    /\ r.crcAlign <= r.consumedBits =>
          /\ q.crcAlign <= q.consumedBits
          /\ CrcPlace(r) <= CrcPlace(q)
          /\ q.crc = r.crc \o SubSeq(r.data, CrcPlace(r) + 1, CrcPlace(q))

LEMMA ReaderIs ==
    ASSUME NEW r \in Readers
    PROVE  /\ r \in AnyReader
           /\ r = [data |-> r.data, consumedWords |-> r.consumedWords,
                   consumedBits |-> r.consumedBits, crc |-> r.crc,
                   crcAlign |-> r.crcAlign]
           /\ r.data \in Bits /\ Len(r.data) \in Nat
           /\ r.consumedWords \in Nat /\ r.consumedBits \in 0..BitsPerWord
           /\ r.consumedBits \in Nat
           /\ r.crc \in Bits /\ r.crcAlign \in Nat
           /\ r.consumedWords * BitsPerWord \in Nat
           /\ Consumed(r) = r.consumedWords * BitsPerWord + r.consumedBits
           /\ Consumed(r) \in 0..Len(r.data)
           /\ CrcPlace(r) = r.consumedWords * BitsPerWord + r.crcAlign
           /\ CrcPlace(r) \in Nat
<1>1. r \in AnyReader /\ Consumed(r) <= Len(r.data)
  BY DEF Readers
<1>2. /\ r.data \in Bits /\ Len(r.data) \in Nat
      /\ r.consumedWords \in Nat /\ r.consumedBits \in 0..BitsPerWord
      /\ r.crc \in Bits /\ r.crcAlign \in Nat
      /\ r = [data |-> r.data, consumedWords |-> r.consumedWords,
              consumedBits |-> r.consumedBits, crc |-> r.crc,
              crcAlign |-> r.crcAlign]
  BY <1>1 DEF AnyReader, Bits
<1>3. r.consumedWords * BitsPerWord \in Nat /\ r.consumedBits \in Nat
  BY <1>2, WordWidth
<1> QED
  BY <1>1, <1>2, <1>3 DEF Consumed, CrcPlace

LEMMA CrcWordsAre ==
    ASSUME NEW r \in Readers, NEW last \in Nat, last * BitsPerWord <= Len(r.data)
    PROVE  LET over == SubSeq(r.data, CrcPlace(r) + 1, last * BitsPerWord)
               x == CrcWords(r, last)
           IN  /\ x \in AnyReader /\ x.data = r.data
               /\ x.crc = IF last = r.consumedWords THEN r.crc ELSE r.crc \o over
               /\ x.crcAlign = IF last = r.consumedWords THEN r.crcAlign ELSE 0
<1> DEFINE over == SubSeq(r.data, CrcPlace(r) + 1, last * BitsPerWord)
           x == CrcWords(r, last)
           c == r.crc \o over
<1>1. x = IF last = r.consumedWords THEN r
          ELSE [r EXCEPT !.crc = r.crc \o over, !.crcAlign = 0]
  BY DEF CrcWords, CrcPlace
<1>2. over \in Bits
  <2> DEFINE y == last * BitsPerWord
             place == CrcPlace(r)
  <2>1. y \in Nat /\ y <= Len(r.data) /\ place \in Nat /\ r.data \in Bits
        /\ Len(r.data) \in Nat
    BY ReaderIs, WordWidth
  <2> HIDE DEF y, place
  <2>2. CASE place <= y
    BY <2>1, <2>2, PieceIs DEF y, place
  <2>3. CASE place > y
    <3>1. SubSeq(r.data, place + 1, y) = <<>>
      BY <2>1, <2>3 DEF Bits
    <3>2. over = <<>>
      BY <3>1 DEF y, place
    <3> HIDE DEF over
    <3> QED
      BY <3>2, NoneJoined, <2>1
  <2> HIDE DEF over
  <2> QED
    BY <2>1, <2>2, <2>3
<1> HIDE DEF over
<1>3. c \in Bits /\ r \in AnyReader
  BY <1>2, ReaderIs, Joining
<1>4. x = IF last = r.consumedWords THEN r ELSE [r EXCEPT !.crc = c, !.crcAlign = 0]
  BY <1>1
<1> HIDE DEF c, x
<1>5. /\ [r EXCEPT !.crc = c, !.crcAlign = 0] \in AnyReader
      /\ [r EXCEPT !.crc = c, !.crcAlign = 0].data = r.data
      /\ [r EXCEPT !.crc = c, !.crcAlign = 0].crc = c
      /\ [r EXCEPT !.crc = c, !.crcAlign = 0].crcAlign = 0
  BY <1>3, WordWidth DEF AnyReader, Bits
<1>6. /\ x \in AnyReader /\ x.data = r.data
      /\ x.crc = IF last = r.consumedWords THEN r.crc ELSE c
      /\ x.crcAlign = IF last = r.consumedWords THEN r.crcAlign ELSE 0
  <2>1. CASE last = r.consumedWords
    BY <1>3, <1>4, <2>1
  <2>2. CASE last # r.consumedWords
    <3>1. x = [r EXCEPT !.crc = c, !.crcAlign = 0]
      BY <1>4, <2>2
    <3> QED
      BY <1>5, <2>2, <3>1
  <2> QED
    BY <2>1, <2>2
<1> QED
  BY <1>6 DEF x, c, over

(* A reader with the buffer of r, and r's CRC with the words up to last.   *)
Crossed(q, r, last) ==
    /\ q \in AnyReader /\ q.data = r.data
    /\ q.crc = CrcWords(r, last).crc /\ q.crcAlign = CrcWords(r, last).crcAlign

(* Over whole words up to last, and to a bit of it.                        *)
LEMMA WordMoves ==
    ASSUME NEW r \in Readers, NEW last \in Nat, NEW q, Crossed(q, r, last),
           q.consumedWords = last, last >= r.consumedWords,
           last * BitsPerWord + q.consumedBits >= Consumed(r),
           last * BitsPerWord + q.consumedBits <= Len(r.data)
    PROVE  Moves(q, r, last * BitsPerWord + q.consumedBits)
<1> DEFINE W == BitsPerWord
           cw == r.consumedWords
           place == CrcPlace(r)
           over == SubSeq(r.data, place + 1, last * W)
           b == q.consumedBits
<1>0. b \in 0..W /\ q.consumedBits = b
  BY DEF Crossed, AnyReader
<1>9. last * W + b >= Consumed(r) /\ last * W + b <= Len(r.data)
  OBVIOUS
<1> HIDE DEF b
<1>1. /\ W \in Nat /\ W >= 4 /\ cw \in Nat /\ r.consumedBits \in 0..W
      /\ r.crcAlign \in Nat /\ r.crc \in Bits /\ r.data \in Bits /\ Len(r.data) \in Nat
      /\ Consumed(r) = cw * W + r.consumedBits /\ place = cw * W + r.crcAlign
      /\ cw * W \in Nat /\ last * W \in Nat /\ b \in Nat /\ place \in Nat
  <2>1. W \in Nat /\ W >= 4 /\ b \in Nat
    BY <1>0, WordWidth
  <2>2. last * W \in Nat
    BY <2>1
  <2> HIDE DEF W
  <2> QED
    BY <2>1, <2>2, ReaderIs DEF W
<1>2. last * W <= Len(r.data)
  <2> DEFINE m == last * W
  <2> HIDE DEF m
  <2>1. m + b <= Len(r.data) /\ m \in Nat
    BY <1>1, <1>9 DEF m, b
  <2> QED
    BY <1>1, <2>1 DEF m
<1>3. /\ q \in AnyReader /\ q.data = r.data /\ q.consumedWords = last /\ q.consumedBits = b
      /\ q.crc = IF last = cw THEN r.crc ELSE r.crc \o over
      /\ q.crcAlign = IF last = cw THEN r.crcAlign ELSE 0
  BY <1>0, <1>2, CrcWordsAre DEF Crossed
<1> HIDE DEF place
<1>6. q \in Readers
  <2> HIDE DEF over
  <2> QED
    BY <1>3, <1>9 DEF Readers, Consumed
<1>7. Consumed(q) = last * W + b
  BY <1>3 DEF Consumed
<1>8. ASSUME r.crcAlign <= r.consumedBits
      PROVE  /\ q.crcAlign <= q.consumedBits /\ place <= CrcPlace(q)
             /\ q.crc = r.crc \o SubSeq(r.data, place + 1, CrcPlace(q))
  <2>1. CASE last = cw
    <3>1. b >= r.consumedBits
      <4> DEFINE m == cw * W
      <4> HIDE DEF m
      <4>1. m + b >= m + r.consumedBits /\ m \in Nat
        BY <1>1, <1>9, <2>1 DEF m
      <4> QED
        BY <1>1, <4>1
    <3>2. CrcPlace(q) = place
      BY <1>1, <1>3, <2>1 DEF CrcPlace, place
    <3>3. SubSeq(r.data, place + 1, place) = <<>>
      BY <1>1 DEF Bits
    <3>4. q.crc = r.crc \o <<>>
      BY <1>1, <1>3, <2>1, NoneJoined
    <3>5. q.crcAlign <= q.consumedBits
      <4>1. q.crcAlign = r.crcAlign /\ q.consumedBits = b
        BY <1>3, <2>1
      <4>2. r.crcAlign \in Nat /\ r.consumedBits \in Nat /\ b \in Nat
        BY <1>1
      <4> QED
        BY <1>8, <3>1, <4>1, <4>2
    <3>6. q.crc = r.crc \o SubSeq(r.data, place + 1, CrcPlace(q))
      BY <3>2, <3>3, <3>4
    <3>7. place <= CrcPlace(q)
      BY <1>1, <3>2
    <3> HIDE DEF over, W
    <3> QED
      BY <3>5, <3>6, <3>7
  <2>2. CASE last # cw
    <3>1. last * W >= cw * W + W
      <4>1. last >= cw + 1
        BY <1>1, <2>2
      <4>2. \A x, y, w \in Nat : x >= y + 1 => x * w >= y * w + w
        OBVIOUS
      <4> QED
        BY <1>1, <4>1, <4>2
    <3>2. q.crcAlign = 0 /\ q.crc = r.crc \o over
      BY <1>3, <2>2
    <3>3. CrcPlace(q) = last * W
      BY <1>1, <1>3, <3>2 DEF CrcPlace
    <3>4. place <= CrcPlace(q)
      <4> DEFINE m == cw * W
                 n == last * W
      <4> HIDE DEF m, n
      <4>1. place = m + r.crcAlign /\ n >= m + W /\ CrcPlace(q) = n
            /\ m \in Nat /\ n \in Nat
        BY <1>1, <3>1, <3>3 DEF m, n
      <4>2. r.crcAlign \in Nat /\ r.consumedBits \in Nat /\ r.consumedBits <= W /\ W \in Nat
        BY <1>1
      <4> HIDE DEF W
      <4> QED
        BY <1>8, <4>1, <4>2
    <3>5. q.crcAlign <= q.consumedBits
      BY <1>1, <1>3, <3>2
    <3>6. q.crc = r.crc \o SubSeq(r.data, place + 1, CrcPlace(q))
      BY <3>2, <3>3
    <3> HIDE DEF over, W
    <3> QED
      BY <3>4, <3>5, <3>6
  <2> QED
    BY <2>1, <2>2
<1> QED
  BY <1>3, <1>6, <1>7, <1>8 DEF Moves, b, place

LEMMA MovedToMoves ==
    ASSUME NEW r \in Readers, NEW p \in Nat, p >= Consumed(r), p <= Len(r.data)
    PROVE  /\ Moves(MovedTo(r, p), r, p)
           /\ Crossed(MovedTo(r, p), r, p \div BitsPerWord)
           /\ MovedTo(r, p).consumedWords = p \div BitsPerWord
<1> DEFINE W == BitsPerWord
           w == p \div W
           b == p % W
<1>1. W \in Nat \ {0} /\ W \in Nat
  BY WordWidth
<1>2. w \in Nat /\ b \in 0..(W - 1) /\ p = w * W + b
  BY <1>1, QuotientRest
<1>3. MovedTo(r, p) = [CrcWords(r, w) EXCEPT !.consumedWords = w, !.consumedBits = b]
  BY DEF MovedTo
<1>4. r.consumedWords \in Nat /\ p >= r.consumedWords * W
  BY ReaderIs
<1>5. w >= r.consumedWords
  BY <1>1, <1>4, QuotientFrom
<1>6. w * BitsPerWord <= Len(r.data)
  <2> DEFINE m == w * W
  <2> HIDE DEF m
  <2>1. m \in Nat /\ p = m + b
    BY <1>1, <1>2 DEF m
  <2>2. m <= Len(r.data)
    BY <1>2, <2>1
  <2> QED
    BY <2>2 DEF m
<1> DEFINE x == CrcWords(r, w)
           q == MovedTo(r, p)
<1> HIDE DEF w, b
<1>7. x \in AnyReader /\ x.data = r.data
  BY <1>2, <1>6, CrcWordsAre
<1>8. q = [x EXCEPT !.consumedWords = w, !.consumedBits = b]
  BY <1>3
<1>9. b \in 0..BitsPerWord
  BY <1>1, <1>2
<1> HIDE DEF x, q, W
<1>10. /\ q \in AnyReader /\ q.data = x.data /\ q.crc = x.crc /\ q.crcAlign = x.crcAlign
       /\ q.consumedWords = w /\ q.consumedBits = b
  BY <1>2, <1>7, <1>8, <1>9 DEF AnyReader
<1>11. Crossed(q, r, w)
  BY <1>7, <1>10 DEF Crossed, x
<1>12. w * BitsPerWord + b = p
  BY <1>2 DEF W
<1>13. Moves(q, r, w * BitsPerWord + q.consumedBits)
  BY <1>2, <1>5, <1>10, <1>11, <1>12, WordMoves
<1>14. Moves(q, r, p)
  BY <1>10, <1>12, <1>13
<1> QED
  BY <1>10, <1>11, <1>14 DEF q, w, W

-----------------------------------------------------------------------------
(* The functions of the interface, on a buffer that has what they need.    *)
LEMMA CompleteIs ==
    ASSUME NEW r \in Readers
    PROVE  /\ CompleteWords(r) \in Nat
           /\ CompleteWords(r) * BitsPerWord \in Nat
           /\ Len(r.data) % BitsPerWord \in 0..(BitsPerWord - 1)
           /\ Len(r.data) = CompleteWords(r) * BitsPerWord + (Len(r.data) % BitsPerWord)
           /\ r.consumedWords <= CompleteWords(r)
<1> DEFINE W == BitsPerWord
           n == Len(r.data)
           c == CompleteWords(r)
<1>1. W \in Nat \ {0} /\ n \in Nat
  BY WordWidth, ReaderIs
<1>2. c = n \div W
  BY DEF CompleteWords
<1> HIDE DEF c
<1>3. c \in Nat /\ n % W \in 0..(W - 1) /\ n = c * W + (n % W)
  BY <1>1, <1>2, QuotientRest
<1>4. r.consumedWords \in Nat /\ n >= r.consumedWords * W
  BY ReaderIs
<1>5. r.consumedWords <= c
  BY <1>1, <1>2, <1>4, QuotientFrom
<1>6. c * W \in Nat
  BY <1>1, <1>3
<1> QED
  BY <1>3, <1>5, <1>6 DEF c

(* A place that is past the complete words is in the word after them.      *)
LEMMA PastComplete ==
    ASSUME NEW r \in Readers, r.consumedWords >= CompleteWords(r)
    PROVE  /\ r.consumedWords = CompleteWords(r)
           /\ r.consumedBits <= Len(r.data) % BitsPerWord
           /\ Len(r.data) - Consumed(r) = (Len(r.data) % BitsPerWord) - r.consumedBits
<1> DEFINE W == BitsPerWord
           c == CompleteWords(r)
           m == c * W
           rest == Len(r.data) % W
<1>1. /\ c \in Nat /\ m \in Nat /\ rest \in 0..(W - 1) /\ Len(r.data) = m + rest
      /\ r.consumedWords = c
  BY CompleteIs, ReaderIs
<1>2. /\ Consumed(r) = m + r.consumedBits /\ r.consumedBits \in Nat
      /\ Consumed(r) \in 0..Len(r.data) /\ Len(r.data) \in Nat
  BY <1>1, ReaderIs
<1> HIDE DEF c, m, rest
<1>3. r.consumedBits <= rest
  BY <1>1, <1>2, WordWidth
<1>4. Len(r.data) - Consumed(r) = rest - r.consumedBits
  BY <1>1, <1>2, WordWidth
<1> QED
  BY <1>1, <1>3, <1>4 DEF c, rest

LEMMA AfterRawMoves ==
    ASSUME NEW r \in Readers, NEW n \in Nat, n <= Unconsumed(r)
    PROVE  Moves(AfterRaw(r, n), r, Consumed(r) + n)
<1>1. /\ Consumed(r) \in 0..Len(r.data) /\ Len(r.data) \in Nat
      /\ Consumed(r) + n \in Nat /\ Consumed(r) + n <= Len(r.data)
  BY ReaderIs DEF Unconsumed
<1>2. CASE r.consumedWords < CompleteWords(r)
  <2>1. AfterRaw(r, n) = MovedTo(r, Consumed(r) + n)
    BY <1>2 DEF AfterRaw
  <2> DEFINE p == Consumed(r) + n
  <2>2. p \in Nat /\ p >= Consumed(r) /\ p <= Len(r.data)
    BY <1>1
  <2> HIDE DEF p
  <2>3. Moves(MovedTo(r, p), r, p)
    BY <2>2, MovedToMoves
  <2> QED
    BY <2>1, <2>3 DEF p
<1>3. CASE ~(r.consumedWords < CompleteWords(r))
  <2> DEFINE b == r.consumedBits + n
             q == AfterRaw(r, n)
             last == r.consumedWords
  <2>1. r.consumedWords >= CompleteWords(r)
    BY <1>3, ReaderIs, CompleteIs
  <2>2. b \in 0..BitsPerWord
    <3>1. Len(r.data) - Consumed(r) = (Len(r.data) % BitsPerWord) - r.consumedBits
      BY <2>1, PastComplete
    <3>2. Len(r.data) % BitsPerWord \in 0..(BitsPerWord - 1) /\ r.consumedBits \in Nat
      BY CompleteIs, ReaderIs
    <3> DEFINE rest == Len(r.data) % BitsPerWord
    <3> HIDE DEF rest
    <3>3. /\ Len(r.data) - Consumed(r) = rest - r.consumedBits
          /\ rest \in 0..(BitsPerWord - 1) /\ r.consumedBits \in Nat
      BY <3>1, <3>2 DEF rest
    <3> QED
      BY <1>1, <3>3, WordWidth
  <2>3. q = [r EXCEPT !.consumedBits = b]
    BY <1>3 DEF AfterRaw
  <2>4. r \in AnyReader
    BY ReaderIs
  <2> HIDE DEF b, q
  <2>5. /\ q \in AnyReader /\ q.data = r.data /\ q.crc = r.crc /\ q.crcAlign = r.crcAlign
        /\ q.consumedWords = last /\ q.consumedBits = b
    BY <2>2, <2>3, <2>4 DEF AnyReader
  <2>6. CrcWords(r, last) = r
    BY DEF CrcWords
  <2>7. Crossed(q, r, last)
    BY <2>5, <2>6 DEF Crossed
  <2>8. last * BitsPerWord + b = Consumed(r) + n
    <3>1. /\ Consumed(r) = last * BitsPerWord + r.consumedBits
          /\ last * BitsPerWord \in Nat /\ r.consumedBits \in Nat
      BY ReaderIs
    <3> QED
      BY <3>1 DEF b
  <2>9. last \in Nat /\ last >= r.consumedWords
    BY ReaderIs
  <2>10. Moves(q, r, last * BitsPerWord + q.consumedBits)
    <3> DEFINE p == last * BitsPerWord + b
    <3> HIDE DEF last
    <3>1. p >= Consumed(r) /\ p <= Len(r.data)
      BY <1>1, <2>8
    <3> QED
      BY <2>5, <2>7, <2>9, <3>1, WordMoves
  <2> QED
    BY <2>5, <2>8, <2>10 DEF q
<1> QED
  BY <1>2, <1>3

(* The zeroes from a place on, and the stop bit, as far as they are there. *)
ZeroesFrom(r, from, to, z) ==
    /\ \A i \in 1..z : from + i <= to => r.data[from + i] = 0
    /\ from + (z + 1) <= to => r.data[from + (z + 1)] = 1

LEMMA StopBitsAre ==
    ASSUME NEW r, NEW from \in Nat, NEW to \in Nat, from <= to, NEW z \in Nat,
           ZeroesFrom(r, from, to, z)
    PROVE  /\ from + z < to => /\ StopBits(r, from, to) # {}
                               /\ FirstOf(StopBits(r, from, to)) = from + z
           /\ from + z >= to => StopBits(r, from, to) = {}
<1> DEFINE S == StopBits(r, from, to)
<1>1. \A p \in S : p \in from..(to - 1) /\ p >= from + z
  <2> SUFFICES ASSUME NEW p \in S, p < from + z PROVE p \in from..(to - 1) /\ FALSE
    BY DEF StopBits
  <2>1. p \in from..(to - 1) /\ r.data[p + 1] = 1
    BY DEF StopBits
  <2> DEFINE i == (p + 1) - from
  <2>2. i \in 1..z /\ from + i = p + 1 /\ from + i <= to
    BY <2>1
  <2>3. r.data[p + 1] = 0
    BY <2>2 DEF ZeroesFrom
  <2> QED
    BY <2>1, <2>3
<1>2. ASSUME from + z < to PROVE from + z \in S
  <2>1. from + z \in from..(to - 1) /\ from + (z + 1) = (from + z) + 1
        /\ from + (z + 1) <= to
    BY <1>2
  <2>2. r.data[(from + z) + 1] = 1
    BY <2>1 DEF ZeroesFrom
  <2> QED
    BY <2>1, <2>2 DEF StopBits
<1> HIDE DEF S
<1>3. ASSUME from + z < to PROVE FirstOf(S) = from + z
  <2>1. from + z \in S /\ \A p \in S : from + z <= p
    BY <1>1, <1>2, <1>3
  <2>2. FirstOf(S) \in S /\ \A p \in S : FirstOf(S) <= p
    BY <2>1 DEF FirstOf
  <2>3. FirstOf(S) \in Int /\ from + z \in Int
    BY <1>1, <2>2
  <2> QED
    BY <2>1, <2>2, <2>3
<1>4. from + z >= to => S = {}
  BY <1>1
<1> QED
  BY <1>2, <1>3, <1>4 DEF S

LEMMA UnaryScans ==
    ASSUME NEW r \in Readers, NEW z \in Nat,
           ZeroesFrom(r, Consumed(r), Len(r.data), z)
    PROVE  LET s == UnaryScan(r)
           IN  IF Consumed(r) + z < Len(r.data)
               THEN /\ s.found /\ s.zeros = z
                    /\ Moves(s.br, r, Consumed(r) + (z + 1))
               ELSE /\ ~ s.found /\ s.zeros = Len(r.data) - Consumed(r)
                    /\ Moves(s.br, r, Len(r.data))
<1> DEFINE n == Len(r.data)
           at == Consumed(r)
           s == UnaryScan(r)
<1>1. n \in Nat /\ at \in Nat /\ at <= n
  BY ReaderIs
<1>2. /\ at + z < n => StopBits(r, at, n) # {} /\ FirstOf(StopBits(r, at, n)) = at + z
      /\ at + z >= n => StopBits(r, at, n) = {}
  <2> HIDE DEF n, at
  <2> QED
    BY <1>1, StopBitsAre DEF n, at
<1>3. CASE at + z < n
  <2>1. s = [zeros |-> (at + z) - at, found |-> TRUE, br |-> MovedTo(r, (at + z) + 1)]
    BY <1>2, <1>3 DEF UnaryScan
  <2>2. (at + z) - at = z /\ (at + z) + 1 = at + (z + 1)
    BY <1>1
  <2>3. s.found /\ s.zeros = z /\ s.br = MovedTo(r, at + (z + 1))
    BY <2>1, <2>2
  <2> DEFINE p == at + (z + 1)
  <2>4. p \in Nat /\ p >= Consumed(r) /\ p <= Len(r.data)
    BY <1>1, <1>3
  <2> HIDE DEF p, s
  <2>5. Moves(MovedTo(r, p), r, p)
    BY <2>4, MovedToMoves
  <2> QED
    BY <1>3, <2>3, <2>5 DEF p, s
<1>4. CASE ~(at + z < n)
  <2> DEFINE W == BitsPerWord
             c == CompleteWords(r)
             whole == c * W
             x == IF at < whole THEN whole ELSE at
             b == n % W
             m == MovedTo(r, x)
             q == s.br
  <2>1. StopBits(r, at, n) = {}
    BY <1>1, <1>2, <1>4
  <2>2. s = [zeros |-> Unconsumed(r), found |-> FALSE, br |-> [m EXCEPT !.consumedBits = b]]
    BY <2>1 DEF UnaryScan
  <2>3. s.zeros = n - at /\ ~ s.found /\ q = [m EXCEPT !.consumedBits = b]
    <3> HIDE DEF m, b
    <3> QED
      BY <2>2 DEF Unconsumed
  <2>4. /\ c \in Nat /\ whole \in Nat /\ b \in 0..(W - 1) /\ n = whole + b
        /\ W \in Nat \ {0} /\ r.consumedWords <= c
    <3>1. W \in Nat \ {0}
      BY WordWidth
    <3>2. /\ c \in Nat /\ whole \in Nat /\ b \in 0..(W - 1) /\ n = whole + b
          /\ r.consumedWords <= c
      BY CompleteIs
    <3> HIDE DEF W, c, whole, b, n
    <3> QED
      BY <3>1, <3>2
  <2>5. x \in Nat /\ x >= at /\ x <= n /\ x - whole \in 0..(W - 1) /\ whole + (x - whole) = x
    <3> HIDE DEF whole, b, at, n, W
    <3> QED
      BY <1>1, <2>4
  <2>6. x \div W = c
    <3> DEFINE y == x - whole
    <3> HIDE DEF x, y, W
    <3>1. y \in 0..(W - 1) /\ c * W + y = x
      BY <2>5 DEF y
    <3> QED
      BY <2>4, <3>1, QuotientOf
  <2> HIDE DEF x, m, q, c, b, s
  <2>7. Crossed(m, r, c)  /\ m.consumedWords = c
    BY <2>5, <2>6, MovedToMoves DEF m
  <2>8. /\ q \in AnyReader /\ q.data = m.data /\ q.crc = m.crc /\ q.crcAlign = m.crcAlign
        /\ q.consumedWords = c /\ q.consumedBits = b
    <3>1. m \in AnyReader /\ b \in 0..BitsPerWord
      BY <2>4, <2>7 DEF Crossed
    <3> QED
      BY <2>3, <2>7, <3>1 DEF AnyReader
  <2>9. Crossed(q, r, c)
    BY <2>7, <2>8 DEF Crossed
  <2>10. c * BitsPerWord + b = n
    BY <2>4
  <2>11. Moves(q, r, c * BitsPerWord + q.consumedBits)
    <3>1. c * BitsPerWord + q.consumedBits = n
      BY <2>8, <2>10
    <3> QED
      BY <1>1, <2>4, <2>8, <2>9, <3>1, WordMoves
  <2> QED
    BY <1>4, <2>3, <2>8, <2>10, <2>11 DEF q, s
<1> QED
  BY <1>3, <1>4

-----------------------------------------------------------------------------
(* In the fast part of a Rice block the registers of the call stand for    *)
(* the reader's own fields.                                                *)
InRegisters(r, c) == [r EXCEPT !.consumedWords = c.cw,
                               !.consumedBits = BitsPerWord - c.uc]

Live == IF call.op = "rice" THEN
           IF call.at = "fast" THEN InRegisters(br, call) ELSE br
        ELSE br

(* The place in the stream where the buffer begins.                        *)
Base == fed - Len(br.data)

Loaded ==
    /\ Live \in Readers /\ br \in AnyReader
    /\ stream \in Seq(Bit) /\ Len(stream) <= Len(BufferBits(bw))
    /\ stream = SubSeq(BufferBits(bw), 1, Len(stream))
    /\ fed \in 0..Len(stream) /\ Len(br.data) <= fed
    /\ br.data = SubSeq(stream, Base + 1, fed)

Pos == Base + Consumed(Live)

RiceCalls == [op : {"rice"}, k : Nat, todo : Nat, vals : Seq(Int),
              at : {"fast", "msbs", "lsbs"}, msbs : Nat, lsbs : Seq(Bit),
              cw : Nat, uc : 0..BitsPerWord]

BlockCalls == [op : {"block"}, todo : Nat, bytes : Seq([1..BitsPerByte -> Bit])]

RiceCodes(it) == [i \in DOMAIN it.vals |-> RiceCode(it.vals[i], it.k)]

(* What a read of the item it, which begins at from, has done so far.      *)
RawDone(it, from) ==
    /\ it.op = "raw" /\ call = [op |-> "raw", n |-> Len(it.bits)]
    /\ Pos = from

UnaryDone(it, from) ==
    /\ it.op = "unary" /\ call = [op |-> "unary", zeros |-> call.zeros]
    /\ call.zeros \in 0..it.n
    /\ Pos = from + call.zeros

RiceDone(it, from) ==
    /\ it.op = "rice" /\ call \in RiceCalls
    /\ call.k = it.k
    /\ Len(call.vals) < Len(it.vals)
    /\ call.vals = SubSeq(it.vals, 1, Len(call.vals))
    /\ call.todo = Len(it.vals) - Len(call.vals)
    /\ LET u  == Fold(it.vals[Len(call.vals) + 1])
           at == from + Len(Joined(RiceCodes(it), Len(call.vals)))
       IN  \/ /\ call.at = "fast" /\ call.cw < CompleteWords(br)
              /\ call.msbs = 0 /\ call.lsbs = <<>>
              /\ Pos = at
           \/ /\ call.at = "msbs"
              /\ call.msbs <= u \div 2^it.k /\ call.lsbs = <<>>
              /\ Pos = at + call.msbs
           \/ /\ call.at = "lsbs"
              /\ call.msbs = u \div 2^it.k
              /\ Len(call.lsbs) <= it.k
              /\ call.lsbs = SubSeq(Binary(u, it.k), 1, Len(call.lsbs))
              /\ Pos = at + call.msbs + 1 + Len(call.lsbs)

BlockDone(it, from) ==
    /\ it.op = "block" /\ call \in BlockCalls
    /\ Len(call.bytes) < Len(it.bytes)
    /\ call.bytes = SubSeq(it.bytes, 1, Len(call.bytes))
    /\ call.todo = Len(it.bytes) - Len(call.bytes)
    /\ Pos = from + Len(Joined(it.bytes, Len(call.bytes)))

Progress ==
    LET from == Len(Codes(got))
    IN  \/ call = NoCall /\ Pos = from
        \/ /\ Len(got) < Len(items)
           /\ LET it == items[Len(got) + 1]
              IN  \/ RawDone(it, from) \/ UnaryDone(it, from)
                  \/ RiceDone(it, from) \/ BlockDone(it, from)

(* As long as no block of bytes was read past it, the CRC has every bit    *)
(* since it was reset, up to a place that is not beyond what was read.     *)
Counted ==
    /\ crcFrom >= 0 /\ call.op # "block"
    /\ \A i \in DOMAIN got : got[i].op # "block"

CrcUpTo ==
    /\ Live.crcAlign <= Live.consumedBits
    /\ crcFrom <= Base + CrcPlace(Live)
    /\ br.crc = SubSeq(stream, crcFrom + 1, Base + CrcPlace(Live))

Checked == Counted => CrcUpTo

Untouched == got = <<>> /\ call = NoCall /\ br = NewReader /\ fed = 0

ReaderInv ==
    /\ phase \in {"writing", "reading", "failed"}
    /\ crcFrom \in Int /\ crcFrom >= -1
    /\ got \in Seq(Items)
    /\ Len(got) <= Len(items) /\ got = SubSeq(items, 1, Len(got))
    /\ phase = "reading" => bw.ok
    /\ phase = "writing" \/ ~bw.ok => Untouched /\ crcFrom = -1
    /\ phase # "writing" /\ bw.ok => Loaded /\ Progress /\ Checked

-----------------------------------------------------------------------------
(* Where the reader is.                                                    *)
LEMMA LiveIs ==
    ASSUME br \in AnyReader
    PROVE  Live.data = br.data /\ Live.crc = br.crc /\ Live.crcAlign = br.crcAlign
<1>1. Live = br \/ Live = InRegisters(br, call)
  BY DEF Live
<1>2. /\ InRegisters(br, call).data = br.data /\ InRegisters(br, call).crc = br.crc
      /\ InRegisters(br, call).crcAlign = br.crcAlign
  BY DEF InRegisters, AnyReader
<1> QED
  BY <1>1, <1>2

LEMMA Placed ==
    ASSUME Loaded, BufferBits(bw) \in Bits
    PROVE  /\ Live \in Readers /\ Live.data = br.data
           /\ Len(br.data) \in Nat /\ Base \in Nat /\ Pos \in Nat
           /\ Consumed(Live) \in 0..Len(br.data) /\ Pos = Base + Consumed(Live)
           /\ Base + Len(br.data) = fed /\ Pos <= fed /\ fed \in Nat
           /\ stream \in Bits /\ fed <= Len(stream) /\ Len(stream) \in Nat
           /\ \A i \in 1..Len(br.data) :
                 br.data[i] = stream[Base + i] /\ br.data[i] = BufferBits(bw)[Base + i]
<1> DEFINE n == Len(br.data)
           U == BufferBits(bw)
<1>1. Live \in Readers /\ br \in AnyReader /\ Live.data = br.data
  BY LiveIs DEF Loaded
<1>2. /\ n \in Nat /\ Consumed(Live) \in 0..n
  BY <1>1, ReaderIs
<1>3. /\ stream \in Bits /\ Len(stream) \in Nat /\ Len(U) \in Nat /\ Len(stream) <= Len(U)
      /\ fed \in Nat /\ fed <= Len(stream) /\ n <= fed
      /\ stream = SubSeq(U, 1, Len(stream))
      /\ br.data = SubSeq(stream, Base + 1, fed)
  <2>1. /\ stream \in Seq(Bit) /\ Len(stream) <= Len(U) /\ fed \in 0..Len(stream)
        /\ n <= fed /\ stream = SubSeq(U, 1, Len(stream))
        /\ br.data = SubSeq(stream, Base + 1, fed)
    BY DEF Loaded
  <2> HIDE DEF U, n
  <2>2. Len(stream) \in Nat /\ Len(U) \in Nat
    BY <2>1 DEF Bits, U
  <2>3. fed \in Nat /\ fed <= Len(stream)
    BY <2>1, <2>2
  <2> QED
    BY <2>1, <2>2, <2>3 DEF Bits
<1>4. Base \in Nat /\ Base + n = fed /\ Base <= fed /\ fed - Base = n
  BY <1>2, <1>3 DEF Base
<1>5. \A i \in 1..Len(stream) : stream[i] = U[i]
  <2>1. /\ 0 \in Nat /\ 0 <= Len(stream) /\ Len(stream) - 0 = Len(stream)
        /\ stream = SubSeq(U, 0 + 1, Len(stream))
        /\ \A i \in 1..Len(stream) : 0 + i = i
    BY <1>3
  <2> HIDE DEF U
  <2>2. \A i \in 1..(Len(stream) - 0) : SubSeq(U, 0 + 1, Len(stream))[i] = U[0 + i]
    BY <1>3, <2>1, PieceIs DEF U
  <2> QED
    BY <2>1, <2>2
<1>6. \A i \in 1..n : br.data[i] = stream[Base + i]
  <2> HIDE DEF n
  <2>1. \A i \in 1..(fed - Base) : SubSeq(stream, Base + 1, fed)[i] = stream[Base + i]
    BY <1>3, <1>4, PieceIs
  <2> QED
    BY <1>3, <1>4, <2>1
<1>7. \A i \in 1..n : Base + i \in 1..Len(stream)
  <2> HIDE DEF n
  <2> QED
    BY <1>2, <1>3, <1>4
<1>8. Pos = Base + Consumed(Live)
  BY DEF Pos
<1> HIDE DEF n, U
<1>9. Pos \in Nat /\ Pos <= fed
  BY <1>2, <1>4, <1>8
<1> QED
  BY <1>1, <1>2, <1>3, <1>4, <1>5, <1>6, <1>7, <1>8, <1>9 DEF n, U

(* What is ahead of a reader in its buffer, as far as it is there, is s.   *)
Ahead(r, s) ==
    \A i \in 1..Len(s) :
        Consumed(r) + i <= Len(r.data) => r.data[Consumed(r) + i] = s[i]

LEMMA AheadIs ==
    ASSUME Loaded, BufferBits(bw) \in Bits, NEW s \in Bits,
           There(BufferBits(bw), Pos, s)
    PROVE  Ahead(Live, s)
<1>1. /\ Live.data = br.data /\ Len(br.data) \in Nat /\ Base \in Nat
      /\ Consumed(Live) \in Nat /\ Pos = Base + Consumed(Live) /\ Len(s) \in Nat
      /\ \A i \in 1..Len(br.data) : br.data[i] = BufferBits(bw)[Base + i]
  BY Placed DEF Bits
<1> SUFFICES ASSUME NEW i \in 1..Len(s), Consumed(Live) + i <= Len(br.data)
             PROVE  br.data[Consumed(Live) + i] = s[i]
  BY <1>1 DEF Ahead
<1>2. /\ Consumed(Live) + i \in 1..Len(br.data)
      /\ Base + (Consumed(Live) + i) = Pos + i
  BY <1>1
<1>3. br.data[Consumed(Live) + i] = BufferBits(bw)[Pos + i]
  BY <1>1, <1>2
<1>4. BufferBits(bw)[Pos + i] = s[i]
  BY DEF There
<1> QED
  BY <1>3, <1>4

LEMMA PeekIs ==
    ASSUME NEW r \in Readers, NEW s \in Bits, Ahead(r, s), Len(s) <= Unconsumed(r)
    PROVE  Peek(r, Len(s)) = s
<1>1. /\ Len(s) \in Nat /\ Consumed(r) \in Nat /\ r.data \in Bits /\ Len(r.data) \in Nat
      /\ Consumed(r) + Len(s) <= Len(r.data)
  BY ReaderIs DEF Unconsumed, Bits
<1> DEFINE a == Consumed(r)
           b == a + Len(s)
           x == SubSeq(r.data, a + 1, b)
<1>2. b \in Nat /\ a \in Nat /\ a <= b /\ b <= Len(r.data) /\ b - a = Len(s)
  BY <1>1
<1>3. Peek(r, Len(s)) = x
  BY DEF Peek
<1> HIDE DEF a, b
<1>4. x \in Bits /\ Len(x) = Len(s) /\ \A i \in 1..Len(s) : x[i] = r.data[a + i]
  BY <1>1, <1>2, PieceIs
<1>5. ASSUME NEW i \in 1..Len(s) PROVE x[i] = s[i]
  <2>1. Consumed(r) + i <= Len(r.data)
    BY <1>1
  <2> QED
    BY <1>4, <2>1 DEF Ahead, a
<1> HIDE DEF x
<1>6. x = s
  BY <1>4, <1>5, SameBits
<1> QED
  BY <1>3, <1>6 DEF x

(* A code that ends in a stop bit, of which z zeroes have been read.       *)
LEMMA AheadZeroes ==
    ASSUME Loaded, BufferBits(bw) \in Bits, NEW m \in Nat, NEW z \in 0..m, NEW at \in Nat,
           There(BufferBits(bw), at, Append(Zeroes(m), 1)), Pos = at + z
    PROVE  ZeroesFrom(Live, Consumed(Live), Len(br.data), m - z)
<1> DEFINE s == Append(Zeroes(m), 1)
           a == Consumed(Live)
           U == BufferBits(bw)
<1>1. /\ Live.data = br.data /\ Len(br.data) \in Nat /\ Base \in Nat
      /\ a \in Nat /\ Pos = Base + a
      /\ \A i \in 1..Len(br.data) : br.data[i] = U[Base + i]
  BY Placed
<1>2. Len(s) = m + 1 /\ s[m + 1] = 1 /\ \A i \in 1..m : s[i] = 0
  <2>1. Zeroes(m) \in Seq(Bit) /\ Len(Zeroes(m)) = m /\ \A i \in 1..m : Zeroes(m)[i] = 0
    BY ZeroesAre DEF Bits
  <2>2. 1 \in Bit
    BY DEF Bit
  <2> QED
    BY <2>1, <2>2, AppendProperties
<1> HIDE DEF s, a, U
<1>3. ASSUME NEW i \in 1..((m - z) + 1), a + i <= Len(br.data)
      PROVE  br.data[a + i] = s[z + i]
  <2>1. a + i \in 1..Len(br.data) /\ z + i \in 1..(m + 1)
    BY <1>1, <1>3
  <2>4. Base + (a + i) = at + (z + i)
    <3>1. Base + a = at + z /\ Base \in Nat /\ a \in Nat /\ z \in Nat /\ i \in Nat
      BY <1>1
    <3> QED
      BY <3>1
  <2>2. U[at + (z + i)] = s[z + i]
    BY <1>2, <2>1 DEF There, s, U
  <2> QED
    BY <1>1, <2>1, <2>2, <2>4
<1>4. \A i \in 1..(m - z) : i \in 1..((m - z) + 1) /\ z + i \in 1..m
  OBVIOUS
<1>5. (m - z) + 1 \in 1..((m - z) + 1) /\ z + ((m - z) + 1) = m + 1
  OBVIOUS
<1>6. ASSUME NEW i \in 1..(m - z), a + i <= Len(br.data) PROVE br.data[a + i] = 0
  BY <1>2, <1>3, <1>4, <1>6
<1>7. ASSUME a + ((m - z) + 1) <= Len(br.data) PROVE br.data[a + ((m - z) + 1)] = 1
  BY <1>2, <1>3, <1>5, <1>7
<1> QED
  BY <1>1, <1>6, <1>7 DEF ZeroesFrom, a

(* What a step that moves the reader does to the place in the stream.      *)
LEMMA LoadedGoesOn ==
    ASSUME Loaded, BufferBits(bw) \in Bits, UNCHANGED <<bw, stream, fed>>,
           br' \in AnyReader, br'.data = br.data, Live' \in Readers
    PROVE  Loaded' /\ Base' = Base /\ Pos' = Base + Consumed(Live')
<1>1. Base' = Base
  BY DEF Base
<1>2. Loaded'
  BY <1>1 DEF Loaded
<1>3. Pos' = Base + Consumed(Live')
  BY <1>1 DEF Pos
<1> QED
  BY <1>1, <1>2, <1>3

LEMMA DataPiece ==
    ASSUME Loaded, BufferBits(bw) \in Bits, NEW x \in Nat, NEW y \in Nat,
           x <= y, y <= Len(br.data)
    PROVE  SubSeq(br.data, x + 1, y) = SubSeq(stream, (Base + x) + 1, Base + y)
<1> DEFINE a == SubSeq(br.data, x + 1, y)
           b == SubSeq(stream, (Base + x) + 1, Base + y)
<1>1. /\ Base \in Nat /\ Base + Len(br.data) = fed /\ Len(br.data) \in Nat
      /\ stream \in Bits /\ fed <= Len(stream) /\ Len(stream) \in Nat /\ fed \in Nat
      /\ \A i \in 1..Len(br.data) : br.data[i] = stream[Base + i]
  BY Placed
<1>2. br.data \in Bits
  BY DEF Loaded, AnyReader, Bits
<1>3. /\ Base + x \in Nat /\ Base + y \in Nat /\ Base + x <= Base + y
      /\ Base + y <= Len(stream) /\ (Base + y) - (Base + x) = y - x
  BY <1>1
<1>4. a \in Bits /\ Len(a) = y - x /\ \A i \in 1..(y - x) : a[i] = br.data[x + i]
  BY <1>2, PieceIs
<1>5. /\ b \in Bits /\ Len(b) = (Base + y) - (Base + x)
      /\ \A i \in 1..((Base + y) - (Base + x)) : b[i] = stream[(Base + x) + i]
  BY <1>1, <1>3, PieceIs
<1>6. \A i \in 1..(y - x) : x + i \in 1..Len(br.data) /\ Base + (x + i) = (Base + x) + i
  BY <1>1
<1> HIDE DEF a, b
<1>7. \A i \in 1..(y - x) : a[i] = b[i]
  BY <1>1, <1>3, <1>4, <1>5, <1>6
<1>8. a = b
  BY <1>3, <1>4, <1>5, <1>7, SameBits
<1> QED
  BY <1>8 DEF a, b

LEMMA CrcGoesOn ==
    ASSUME Loaded, BufferBits(bw) \in Bits, Checked, crcFrom \in Int,
           UNCHANGED <<bw, stream, fed, crcFrom>>,
           br' \in AnyReader, br'.data = br.data, NEW p, Moves(Live', Live, p),
           Counted' => Counted
    PROVE  Checked'
<1> SUFFICES ASSUME Counted' PROVE CrcUpTo'
  BY DEF Checked
<1>1. CrcUpTo /\ crcFrom >= 0
  BY DEF Checked, Counted
<1> DEFINE q == Live'
           r == Live
           x == CrcPlace(r)
           y == CrcPlace(q)
<1>2. /\ r \in Readers /\ r.data = br.data /\ r.crc = br.crc
      /\ Base \in Nat /\ Base + Len(br.data) = fed /\ Len(br.data) \in Nat
      /\ stream \in Bits /\ fed <= Len(stream) /\ Len(stream) \in Nat
      /\ \A i \in 1..Len(br.data) : br.data[i] = stream[Base + i]
  BY Placed, LiveIs DEF Loaded
<1>3. q \in Readers /\ q.data = br.data /\ q.crc = br'.crc
  <2>1. Live'.crc = br'.crc
    <3>1. Live' = br' \/ Live' = InRegisters(br', call')
      BY DEF Live
    <3>2. InRegisters(br', call').crc = br'.crc
      BY DEF InRegisters, AnyReader
    <3> QED
      BY <3>1, <3>2
  <2> QED
    BY <1>2, <2>1 DEF Moves
<1>4. /\ r.crcAlign <= r.consumedBits /\ crcFrom <= Base + x
      /\ br.crc = SubSeq(stream, crcFrom + 1, Base + x)
  BY <1>1 DEF CrcUpTo
<1>5. /\ q.crcAlign <= q.consumedBits /\ x <= y
      /\ q.crc = r.crc \o SubSeq(br.data, x + 1, y)
  BY <1>2, <1>4 DEF Moves
<1>6. x \in Nat /\ y \in Nat /\ y <= Consumed(q) /\ Consumed(q) <= Len(br.data)
  <2>1. /\ q.consumedWords * BitsPerWord \in Nat /\ q.crcAlign \in Nat
        /\ q.consumedBits \in Nat
        /\ Consumed(q) = q.consumedWords * BitsPerWord + q.consumedBits
        /\ y = q.consumedWords * BitsPerWord + q.crcAlign /\ y \in Nat
        /\ Consumed(q) \in 0..Len(q.data)
    BY <1>3, ReaderIs
  <2>2. x \in Nat
    BY <1>2, ReaderIs
  <2> DEFINE m == q.consumedWords * BitsPerWord
  <2> HIDE DEF m, q, x, y
  <2>3. m \in Nat /\ Consumed(q) = m + q.consumedBits /\ y = m + q.crcAlign
    BY <2>1 DEF m
  <2> QED
    BY <1>2, <1>3, <1>5, <2>1, <2>2, <2>3
<1>7. q.crc = br'.crc /\ Base' = Base /\ CrcPlace(Live') = y
  BY <1>3 DEF Base
<1>13. CrcUpTo' = (/\ q.crcAlign <= q.consumedBits /\ crcFrom <= Base + y
                   /\ br'.crc = SubSeq(stream, crcFrom + 1, Base + y))
  BY <1>7 DEF CrcUpTo
<1> HIDE DEF q, r, x, y
<1>8. y <= Len(br.data) /\ Base + x \in Nat /\ Base + y \in Nat /\ Base + x <= Base + y
      /\ Base + y <= Len(stream) /\ crcFrom \in Nat /\ crcFrom <= Base + y
  <2>1. Consumed(q) \in Nat
    BY <1>3, ReaderIs
  <2>2. y <= Len(br.data)
    BY <1>2, <1>6, <2>1
  <2>3. /\ Base + x \in Nat /\ Base + y \in Nat /\ Base + x <= Base + y
        /\ Base + y <= Base + Len(br.data)
    BY <1>2, <1>5, <1>6, <2>2
  <2>4. fed \in Nat
    BY <1>2
  <2>5. Base + y <= Len(stream)
    BY <1>2, <2>3, <2>4
  <2>6. crcFrom \in Nat /\ crcFrom <= Base + y
    BY <1>1, <1>4, <2>3
  <2> QED
    BY <2>2, <2>3, <2>5, <2>6
<1>9. SubSeq(br.data, x + 1, y) = SubSeq(stream, (Base + x) + 1, Base + y)
  BY <1>5, <1>6, <1>8, DataPiece
<1>10. q.crc = SubSeq(stream, crcFrom + 1, Base + x)
                 \o SubSeq(stream, (Base + x) + 1, Base + y)
  BY <1>2, <1>4, <1>5, <1>9
<1>11. q.crc = SubSeq(stream, crcFrom + 1, Base + y)
  <2> DEFINE u == Base + x
             v == Base + y
  <2>1. u \in Nat /\ v \in Nat /\ crcFrom <= u /\ u <= v /\ v <= Len(stream)
    BY <1>4, <1>8
  <2>2. q.crc = SubSeq(stream, crcFrom + 1, u) \o SubSeq(stream, u + 1, v)
    BY <1>10
  <2> HIDE DEF u, v
  <2>3. q.crc = SubSeq(stream, crcFrom + 1, v)
    BY <1>2, <1>8, <2>1, <2>2, PiecesJoin
  <2> QED
    BY <2>3 DEF v
<1> QED
  BY <1>5, <1>7, <1>8, <1>11, <1>13

LEMMA MovesNot ==
    ASSUME NEW r \in Readers
    PROVE  Moves(r, r, Consumed(r))
<1>1. CrcPlace(r) \in Nat /\ r.data \in Bits /\ r.crc \in Bits
  BY ReaderIs
<1> DEFINE x == CrcPlace(r)
<1> HIDE DEF x
<1>2. SubSeq(r.data, x + 1, x) = <<>>
  BY <1>1 DEF Bits, x
<1>3. r.crc = r.crc \o <<>>
  BY <1>1, NoneJoined
<1>4. x <= x
  BY <1>1 DEF x
<1> QED
  BY <1>2, <1>3, <1>4 DEF Moves, x

LEMMA MovesAgain ==
    ASSUME NEW r \in Readers, NEW s, NEW t, NEW p, NEW q,
           Moves(s, r, p), Moves(t, s, q)
    PROVE  Moves(t, r, q)
<1>1. /\ s \in Readers /\ s.data = r.data /\ t \in Readers /\ t.data = r.data
      /\ Consumed(t) = q
  BY DEF Moves
<1> DEFINE x == CrcPlace(r)
           y == CrcPlace(s)
           z == CrcPlace(t)
<1>2. ASSUME r.crcAlign <= r.consumedBits
      PROVE  /\ t.crcAlign <= t.consumedBits /\ x <= z
             /\ t.crc = r.crc \o SubSeq(r.data, x + 1, z)
  <2>1. /\ t.crcAlign <= t.consumedBits /\ x <= y /\ y <= z
        /\ s.crc = r.crc \o SubSeq(r.data, x + 1, y)
        /\ t.crc = s.crc \o SubSeq(r.data, y + 1, z)
    BY <1>1, <1>2 DEF Moves
  <2>2. x \in Nat /\ y \in Nat /\ z \in Nat /\ z <= Len(r.data) /\ r.data \in Bits
        /\ r.crc \in Bits
    <3>1. /\ x \in Nat /\ y \in Nat /\ z \in Nat /\ r.data \in Bits /\ r.crc \in Bits
          /\ Len(r.data) \in Nat
      BY <1>1, ReaderIs
    <3>2. /\ t.consumedWords * BitsPerWord \in Nat /\ t.crcAlign \in Nat
          /\ t.consumedBits \in Nat
          /\ Consumed(t) = t.consumedWords * BitsPerWord + t.consumedBits
          /\ z = t.consumedWords * BitsPerWord + t.crcAlign
          /\ Consumed(t) \in 0..Len(t.data)
      BY <1>1, ReaderIs
    <3> DEFINE m == t.consumedWords * BitsPerWord
    <3> HIDE DEF m, x, y, z
    <3>3. m \in Nat /\ Consumed(t) = m + t.consumedBits /\ z = m + t.crcAlign
      BY <3>2 DEF m
    <3>4. z <= Consumed(t)
      BY <2>1, <3>2, <3>3
    <3>5. Consumed(t) <= Len(r.data) /\ Consumed(t) \in Nat
      BY <1>1, <3>1, <3>2
    <3> QED
      BY <3>1, <3>4, <3>5
  <2> HIDE DEF x, y, z
  <2> DEFINE a == SubSeq(r.data, x + 1, y)
             b == SubSeq(r.data, y + 1, z)
  <2>3. y <= Len(r.data) /\ Len(r.data) \in Nat
    BY <2>1, <2>2 DEF Bits
  <2>4. a \in Bits /\ b \in Bits
    BY <2>1, <2>2, <2>3, PieceIs
  <2>5. a \o b = SubSeq(r.data, x + 1, z)
    BY <2>1, <2>2, PiecesJoin
  <2>6. (r.crc \o a) \o b = r.crc \o (a \o b)
    BY <2>2, <2>4, Associates
  <2>7. t.crc = (r.crc \o a) \o b
    BY <2>1
  <2>8. x <= z
    BY <2>1, <2>2
  <2> HIDE DEF a, b
  <2> QED
    BY <2>1, <2>5, <2>6, <2>7, <2>8
<1> QED
  BY <1>1, <1>2 DEF Moves

LEMMA RegistersAre ==
    ASSUME NEW r \in AnyReader, NEW c, c.cw \in Nat, c.uc \in 0..BitsPerWord
    PROVE  LET x == InRegisters(r, c)
           IN  /\ x \in AnyReader /\ x.data = r.data /\ x.crc = r.crc
               /\ x.crcAlign = r.crcAlign
               /\ x.consumedWords = c.cw /\ x.consumedBits = BitsPerWord - c.uc
               /\ Consumed(x) = c.cw * BitsPerWord + (BitsPerWord - c.uc)
<1> DEFINE x == InRegisters(r, c)
           b == BitsPerWord - c.uc
<1>1. b \in 0..BitsPerWord
  BY WordWidth
<1>2. x = [r EXCEPT !.consumedWords = c.cw, !.consumedBits = b]
  BY DEF InRegisters
<1> HIDE DEF x, b
<1>3. /\ x \in AnyReader /\ x.data = r.data /\ x.crc = r.crc
      /\ x.crcAlign = r.crcAlign /\ x.consumedWords = c.cw /\ x.consumedBits = b
  BY <1>1, <1>2 DEF AnyReader
<1>4. Consumed(x) = c.cw * BitsPerWord + b
  BY <1>3 DEF Consumed
<1> QED
  BY <1>3, <1>4 DEF x, b

(* The registers go back into the reader, and it stays where it is.        *)
LEMMA FlushMoves ==
    ASSUME NEW r \in AnyReader, NEW c, c.cw \in Nat, c.uc \in 0..BitsPerWord,
           InRegisters(r, c) \in Readers
    PROVE  Moves(FlushRegisters(r, c), InRegisters(r, c), Consumed(InRegisters(r, c)))
<1> DEFINE left == InRegisters(r, c)
           p == (c.cw + 1) * BitsPerWord
<1>1. FlushRegisters(r, c) = IF c.uc = 0 /\ c.cw < CompleteWords(r)
                             THEN MovedTo(left, p) ELSE left
  BY DEF FlushRegisters, InRegisters
<1>2. Consumed(left) = c.cw * BitsPerWord + (BitsPerWord - c.uc)
  BY RegistersAre
<1>3. BitsPerWord \in Nat
  BY WordWidth
<1>4. ASSUME c.uc = 0 PROVE p = Consumed(left)
  <2>1. (c.cw + 1) * BitsPerWord = c.cw * BitsPerWord + BitsPerWord
    BY <1>3
  <2>2. BitsPerWord - c.uc = BitsPerWord
    BY <1>3, <1>4
  <2> QED
    BY <1>2, <2>1, <2>2
<1> HIDE DEF left, p
<1>5. left \in Readers /\ Consumed(left) \in Nat /\ Consumed(left) <= Len(left.data)
      /\ Consumed(left) >= Consumed(left)
  BY ReaderIs DEF left
<1>6. CASE c.uc = 0 /\ c.cw < CompleteWords(r)
  <2>1. Moves(MovedTo(left, Consumed(left)), left, Consumed(left))
    BY <1>5, MovedToMoves
  <2> QED
    BY <1>1, <1>4, <1>6, <2>1 DEF left
<1>7. CASE ~(c.uc = 0 /\ c.cw < CompleteWords(r))
  BY <1>1, <1>5, <1>7, MovesNot DEF left
<1> QED
  BY <1>6, <1>7

-----------------------------------------------------------------------------
(* The item that is read next, and where its code is.                      *)
LEMMA JoinedSame ==
    ASSUME NEW n \in Nat, NEW f, NEW g, \A j \in 1..n : f[j] \in Bits /\ g[j] = f[j]
    PROVE  Joined(g, n) = Joined(f, n)
<1>1. CASE n = 0
  <2>1. Joined(g, 0) = <<>> /\ Joined(f, 0) = <<>>
    BY NothingJoined
  <2> QED
    BY <1>1, <2>1
<1>2. CASE n # 0
  <2> DEFINE m == n - 1
  <2>1. m \in Nat /\ m + 1 = n /\ m + 1 \in 1..n /\ \A j \in 1..m : j \in 1..n
    BY <1>2
  <2> HIDE DEF m
  <2>2. \A j \in 1..m : f[j] \in Bits /\ g[j] = f[j] /\ f[j] = f[j]
    BY <2>1
  <2>3. f[m + 1] \in Bits /\ g[m + 1] = f[m + 1]
    BY <2>1
  <2>4. Joined(g, m + 1) = Joined(f, m) \o g[m + 1]
    BY <2>1, <2>2, <2>3, JoinedMore
  <2>5. Joined(f, m + 1) = Joined(f, m) \o f[m + 1]
    BY <2>1, <2>2, <2>3, JoinedMore
  <2> QED
    BY <2>1, <2>3, <2>4, <2>5
<1> QED
  BY <1>1, <1>2

LEMMA NextItem ==
    ASSUME WriterInv, bw.ok, got \in Seq(Items), Len(got) < Len(items),
           got = SubSeq(items, 1, Len(got))
    PROVE  LET it == items[Len(got) + 1]
               from == Len(Codes(got))
           IN  /\ it \in Items /\ Code(it) \in Bits
               /\ from \in Nat /\ BufferBits(bw) \in Bits
               /\ There(BufferBits(bw), from, Code(it))
               /\ Append(got, it) \in Seq(Items)
               /\ Len(Append(got, it)) = Len(got) + 1
               /\ Append(got, it) = SubSeq(items, 1, Len(got) + 1)
               /\ Len(Codes(Append(got, it))) = from + Len(Code(it))
<1> DEFINE n == Len(got)
           it == items[n + 1]
           f == [i \in DOMAIN items |-> Code(items[i])]
           g == [i \in DOMAIN got |-> Code(got[i])]
           N == Len(items)
<1>1. /\ items \in Seq(Items) /\ n \in Nat /\ N \in Nat /\ n + 1 \in 1..N
      /\ BufferBits(bw) \in Bits
  BY WriterFields DEF WriterInv
<1>2. it \in Items /\ Code(it) \in Bits
  BY <1>1, CodeIsBits
<1>3. \A j \in 1..N : f[j] = Code(items[j]) /\ f[j] \in Bits
  <2>1. \A j \in 1..N : items[j] \in Items
    BY <1>1
  <2> QED
    BY <1>1, <2>1, CodeIsBits
<1>4. \A j \in 1..n : got[j] = items[j]
  <2>1. SubSeq(items, 1, n) = [j \in 1..n |-> items[j]]
    BY <1>1
  <2> QED
    BY <1>1, <2>1
<1>5. \A j \in 1..n : g[j] = f[j] /\ f[j] \in Bits
  <2>1. \A j \in 1..n : j \in DOMAIN got /\ j \in 1..N
    BY <1>1
  <2> QED
    BY <1>3, <1>4, <2>1
<1>6. Codes(items) = Joined(f, N) /\ Codes(got) = Joined(g, n)
  BY DEF Codes
<1>7. f[n + 1] = Code(it)
  BY <1>1, <1>3
<1>8. Append(got, it) \in Seq(Items) /\ Len(Append(got, it)) = n + 1
  BY <1>1, <1>2, AppendProperties
<1>9. Append(got, it) = SubSeq(items, 1, n + 1)
  <2> DEFINE s == Append(got, it)
             t == SubSeq(items, 1, n + 1)
  <2>1. s \in Seq(Items) /\ Len(s) = n + 1 /\ s[n + 1] = it
        /\ \A j \in 1..n : s[j] = got[j]
    BY <1>2, AppendProperties
  <2>2. t = [j \in 1..(n + 1) |-> items[j]]
    BY <1>1
  <2>3. s = [j \in 1..(n + 1) |-> s[j]]
    BY <1>1, <2>1
  <2> HIDE DEF s
  <2>4. \A j \in 1..(n + 1) : s[j] = items[j]
    <3> TAKE j \in 1..(n + 1)
    <3>1. j \in 1..n \/ j = n + 1
      BY <1>1
    <3> QED
      BY <1>4, <2>1, <3>1
  <2>5. s = t
    BY <2>2, <2>3, <2>4
  <2> QED
    BY <2>5 DEF s
<1>10. Codes(Append(got, it)) = Codes(got) \o Code(it) /\ Codes(got) \in Bits
  BY <1>2, CodesMore
<1>11. Len(Codes(Append(got, it))) = Len(Codes(got)) + Len(Code(it))
       /\ Len(Codes(got)) \in Nat
  BY <1>2, <1>10, Joining
<1> HIDE DEF f, g, it, n, N
<1>12. Joined(g, n) = Joined(f, n)
  BY <1>1, <1>5, JoinedSame
<1>13. There(Codes(items), Len(Codes(got)), Code(it))
  <2>1. (n + 1) - 1 = n
    BY <1>1
  <2>2. There(Joined(f, N), Len(Joined(f, (n + 1) - 1)), f[n + 1])
    BY <1>1, <1>3, JoinedThere
  <2> QED
    BY <1>6, <1>7, <1>12, <2>1, <2>2
<1>14. PICK z \in Nat : BufferBits(bw) = Codes(items) \o Zeroes(z)
  BY DEF WriterInv
<1>15. Codes(items) \in Bits
  BY <1>1, <1>3, <1>6, JoinedIsBits
<1>16. There(BufferBits(bw), Len(Codes(got)), Code(it))
  <2>1. Zeroes(z) \in Bits
    BY ZeroesAre
  <2>2. There(BufferBits(bw), 0, Codes(items))
    BY <1>14, <1>15, <2>1, ThereJoined
  <2>3. 0 \in Nat /\ 0 + Len(Codes(got)) = Len(Codes(got))
    BY <1>11
  <2>4. There(BufferBits(bw), 0 + Len(Codes(got)), Code(it))
    BY <1>1, <1>2, <1>11, <1>13, <1>15, <2>2, <2>3, ThereWithin
  <2> QED
    BY <2>3, <2>4
<1> QED
  BY <1>1, <1>2, <1>8, <1>9, <1>11, <1>16 DEF it, n

-----------------------------------------------------------------------------
(* The ends of the steps of the reader.                                    *)
Going == WriterInv /\ ReaderInv /\ phase # "writing" /\ bw.ok

LEMMA GoingIs ==
    ASSUME Going
    PROVE  /\ Loaded /\ Progress /\ Checked /\ BufferBits(bw) \in Bits
           /\ crcFrom \in Int /\ got \in Seq(Items) /\ Len(got) \in Nat
           /\ br \in AnyReader /\ Live \in Readers /\ Live.data = br.data
           /\ items \in Seq(Items) /\ Len(items) \in Nat
           /\ got = SubSeq(items, 1, Len(got))
<1>1. /\ Loaded /\ Progress /\ Checked /\ crcFrom \in Int /\ got \in Seq(Items)
      /\ got = SubSeq(items, 1, Len(got))
  BY DEF Going, ReaderInv
<1>2. items \in Seq(Items) /\ BufferBits(bw) \in Bits
  BY WriterFields DEF Going, WriterInv
<1>3. br \in AnyReader /\ Live \in Readers
  BY <1>1 DEF Loaded
<1>4. Len(got) \in Nat /\ Len(items) \in Nat
  BY <1>1, <1>2
<1> QED
  BY <1>1, <1>2, <1>3, <1>4, LiveIs

LEMMA StepCloses ==
    ASSUME Going, UNCHANGED <<bw, items, phase, crcFrom>>,
           got' \in Seq(Items), Len(got') <= Len(items), got' = SubSeq(items, 1, Len(got')),
           Loaded', Progress', Checked'
    PROVE  ReaderInv'
BY DEF Going, ReaderInv

LEMMA ItemReturns ==
    ASSUME Going, Len(got) < Len(items), NEW q \in Readers, q.data = br.data,
           Returned(q, items[Len(got) + 1]),
           Base + Consumed(q) = Len(Codes(got)) + Len(Code(items[Len(got) + 1])),
           \/ items[Len(got) + 1].op = "block"
           \/ call.op # "block" /\ Moves(q, Live, Consumed(q))
    PROVE  ReaderInv'
<1> DEFINE it == items[Len(got) + 1]
<1>1. /\ Loaded /\ Checked /\ BufferBits(bw) \in Bits /\ crcFrom \in Int
      /\ got \in Seq(Items) /\ Len(got) \in Nat /\ Len(items) \in Nat
      /\ got = SubSeq(items, 1, Len(got)) /\ q \in AnyReader
  BY GoingIs, ReaderIs
<1>2. /\ br' = q /\ got' = Append(got, it) /\ call' = NoCall
      /\ UNCHANGED <<bw, items, phase, stream, fed, crcFrom>>
  BY DEF Returned
<1>3. /\ it \in Items /\ Append(got, it) \in Seq(Items)
      /\ Len(Append(got, it)) = Len(got) + 1
      /\ Append(got, it) = SubSeq(items, 1, Len(got) + 1)
      /\ Len(Codes(Append(got, it))) = Len(Codes(got)) + Len(Code(it))
  BY <1>1, NextItem DEF Going
<1>4. Live' = q
  BY <1>2 DEF Live, NoCall
<1>5. Loaded' /\ Pos' = Base + Consumed(q)
  BY <1>1, <1>2, <1>4, LoadedGoesOn
<1>6. Progress'
  BY <1>2, <1>3, <1>5 DEF Progress
<1>7. Checked'
  <2>1. CASE it.op = "block"
    <3>1. Len(got) + 1 \in DOMAIN got' /\ got'[Len(got) + 1] = it
      BY <1>1, <1>2, <1>3, AppendProperties
    <3> HIDE DEF it
    <3>2. ~ Counted'
      BY <2>1, <3>1 DEF Counted
    <3> QED
      BY <3>2 DEF Checked
  <2>2. CASE call.op # "block" /\ Moves(q, Live, Consumed(q))
    <3>1. Counted' => Counted
      <4>1. \A i \in DOMAIN got : i \in DOMAIN got' /\ got'[i] = got[i]
        BY <1>1, <1>2, <1>3, AppendProperties
      <4> QED
        BY <1>2, <2>2, <4>1 DEF Counted
    <3> QED
      BY <1>1, <1>2, <1>4, <2>2, <3>1, CrcGoesOn
  <2> QED
    BY <2>1, <2>2
<1>8. Len(got') <= Len(items)
  BY <1>1, <1>2, <1>3
<1> HIDE DEF it
<1> QED
  BY <1>2, <1>3, <1>5, <1>6, <1>7, <1>8, StepCloses

LEMMA ItemContinues ==
    ASSUME Going, NEW q \in AnyReader, q.data = br.data, NEW c, Continues(q, c),
           Live' \in Readers, Progress',
           c.op = "block" \/ (call.op # "block" /\ Moves(Live', Live, Consumed(Live')))
    PROVE  ReaderInv'
<1>1. /\ Loaded /\ Checked /\ BufferBits(bw) \in Bits /\ crcFrom \in Int
      /\ got \in Seq(Items) /\ got = SubSeq(items, 1, Len(got))
      /\ Len(got) <= Len(items)
  BY GoingIs DEF Going, ReaderInv
<1>2. /\ br' = q /\ call' = c
      /\ UNCHANGED <<bw, items, phase, stream, fed, got, crcFrom>>
  BY DEF Continues
<1>3. Loaded'
  BY <1>1, <1>2, LoadedGoesOn
<1>4. Checked'
  <2>1. CASE c.op = "block"
    BY <1>2, <2>1 DEF Checked, Counted
  <2>2. CASE call.op # "block" /\ Moves(Live', Live, Consumed(Live'))
    <3>1. Counted' => Counted
      BY <1>2, <2>2 DEF Counted
    <3> QED
      BY <1>1, <1>2, <2>2, <3>1, CrcGoesOn
  <2> QED
    BY <2>1, <2>2
<1> QED
  BY <1>1, <1>2, <1>3, <1>4, StepCloses

-----------------------------------------------------------------------------
(* The kinds of items, and of calls.                                       *)
LEMMA ItemIs ==
    ASSUME NEW it \in Items
    PROVE  /\ it.op = "raw" =>
                 /\ it = [op |-> "raw", bits |-> it.bits]
                 /\ it.bits \in Bits /\ Code(it) = it.bits
           /\ it.op = "unary" =>
                 /\ it = [op |-> "unary", n |-> it.n]
                 /\ it.n \in Nat /\ Code(it) = Append(Zeroes(it.n), 1)
           /\ it.op = "rice" =>
                 /\ it = [op |-> "rice", vals |-> it.vals, k |-> it.k]
                 /\ it.vals \in Seq(Int) /\ it.vals # <<>>
                 /\ it.k \in Nat /\ it.k <= BitsPerWord - 2
                 /\ Code(it) = Joined(RiceCodes(it), Len(it.vals))
           /\ it.op = "block" =>
                 /\ it = [op |-> "block", bytes |-> it.bytes]
                 /\ it.bytes \in Seq([1..BitsPerByte -> Bit]) /\ it.bytes # <<>>
                 /\ Code(it) = Joined(it.bytes, Len(it.bytes))
<1>1. CASE it \in [op : {"raw"}, bits : RawItems]
  <2>1. it.op = "raw" /\ it.bits \in RawItems /\ it = [op |-> "raw", bits |-> it.bits]
    BY <1>1
  <2>2. it.bits \in Bits /\ Code([op |-> "raw", bits |-> it.bits]) = it.bits
    BY <2>1, ItemCodes
  <2> QED
    BY <2>1, <2>2
<1>2. CASE it \in [op : {"unary"}, n : UnaryItems]
  <2>1. it.op = "unary" /\ it.n \in UnaryItems /\ it = [op |-> "unary", n |-> it.n]
    BY <1>2
  <2>2. it.n \in Nat /\ Code([op |-> "unary", n |-> it.n]) = Append(Zeroes(it.n), 1)
    BY <2>1, ItemCodes
  <2> QED
    BY <2>1, <2>2
<1>3. CASE it \in [op : {"rice"}, vals : RiceBlocks, k : Parameters]
  <2>1. /\ it.op = "rice" /\ it.vals \in RiceBlocks /\ it.k \in Parameters
        /\ it = [op |-> "rice", vals |-> it.vals, k |-> it.k]
    BY <1>3
  <2>2. /\ it.vals \in Seq(Int) /\ it.k \in Nat /\ it.k <= BitsPerWord - 2
        /\ Code([op |-> "rice", vals |-> it.vals, k |-> it.k])
              = Joined([i \in DOMAIN it.vals |-> RiceCode(it.vals[i], it.k)], Len(it.vals))
    BY <2>1, ItemCodes
  <2>3. it.vals # <<>>
    BY <2>1, ItemsAssumption
  <2>4. Code(it) = Joined(RiceCodes(it), Len(it.vals))
    BY <2>1, <2>2 DEF RiceCodes
  <2> QED
    BY <2>1, <2>2, <2>3, <2>4
<1>4. CASE it \in [op : {"block"}, bytes : ByteBlocks]
  <2>1. /\ it.op = "block" /\ it.bytes \in ByteBlocks
        /\ it = [op |-> "block", bytes |-> it.bytes]
    BY <1>4
  <2>2. /\ it.bytes \in Seq([1..BitsPerByte -> Bit])
        /\ Code([op |-> "block", bytes |-> it.bytes]) = Joined(it.bytes, Len(it.bytes))
    BY <2>1, ItemCodes
  <2>3. it.bytes # <<>>
    BY <2>1, ItemsAssumption
  <2> QED
    BY <2>1, <2>2, <2>3
<1> QED
  BY <1>1, <1>2, <1>3, <1>4 DEF Items

LEMMA CallIs ==
    ASSUME Going
    PROVE  LET it == items[Len(got) + 1]
               from == Len(Codes(got))
           IN  /\ call = NoCall <=> call.op = "none"
               /\ call = NoCall => Pos = from
               /\ call # NoCall => Len(got) < Len(items) /\ it \in Items
               /\ call.op = "raw" => RawDone(it, from)
               /\ call.op = "unary" => UnaryDone(it, from)
               /\ call.op = "rice" => RiceDone(it, from)
               /\ call.op = "block" => BlockDone(it, from)
<1> DEFINE it == items[Len(got) + 1]
           from == Len(Codes(got))
<1>1. \/ call = NoCall /\ Pos = from
      \/ /\ Len(got) < Len(items)
         /\ RawDone(it, from) \/ UnaryDone(it, from) \/ RiceDone(it, from)
              \/ BlockDone(it, from)
  BY GoingIs DEF Progress
<1>2. Len(got) < Len(items) => it \in Items
  BY GoingIs
<1> HIDE DEF it, from
<1>3. CASE call = NoCall /\ Pos = from
  BY <1>3 DEF NoCall, it, from
<1>4. CASE Len(got) < Len(items) /\ RawDone(it, from)
  <2>1. call.op = "raw"
    BY <1>4 DEF RawDone
  <2> QED
    BY <1>2, <1>4, <2>1 DEF NoCall, it, from
<1>5. CASE Len(got) < Len(items) /\ UnaryDone(it, from)
  <2>1. call.op = "unary"
    BY <1>5 DEF UnaryDone
  <2> QED
    BY <1>2, <1>5, <2>1 DEF NoCall, it, from
<1>6. CASE Len(got) < Len(items) /\ RiceDone(it, from)
  <2>1. call.op = "rice"
    BY <1>6 DEF RiceDone, RiceCalls
  <2> QED
    BY <1>2, <1>6, <2>1 DEF NoCall, it, from
<1>7. CASE Len(got) < Len(items) /\ BlockDone(it, from)
  <2>1. call.op = "block"
    BY <1>7 DEF BlockDone, BlockCalls
  <2> QED
    BY <1>2, <1>7, <2>1 DEF NoCall, it, from
<1> QED
  BY <1>1, <1>3, <1>4, <1>5, <1>6, <1>7

(* Where the next item is, for a call that is under way.                   *)
LEMMA NextIs ==
    ASSUME Going, Len(got) < Len(items)
    PROVE  LET it == items[Len(got) + 1]
               from == Len(Codes(got))
           IN  /\ it \in Items /\ Code(it) \in Bits /\ Len(Code(it)) \in Nat
               /\ from \in Nat /\ There(BufferBits(bw), from, Code(it))
<1>1. WriterInv /\ bw.ok /\ got \in Seq(Items) /\ got = SubSeq(items, 1, Len(got))
  BY GoingIs DEF Going
<1>2. \A s \in Bits : Len(s) \in Nat
  BY DEF Bits
<1> QED
  BY <1>1, <1>2, NextItem

LEMMA RawReads ==
    ASSUME Going, ReadRaw
    PROVE  ReaderInv'
<1> DEFINE it == items[Len(got) + 1]
           from == Len(Codes(got))
           s == it.bits
           n == Len(s)
           q == AfterRaw(br, n)
<1>1. call.op = "raw" /\ call # NoCall
  BY DEF ReadRaw, NoCall
<1>2. Len(got) < Len(items) /\ it \in Items /\ RawDone(it, from)
  BY <1>1, CallIs
<1>3. /\ Code(it) \in Bits /\ from \in Nat /\ There(BufferBits(bw), from, Code(it))
  BY <1>2, NextIs
<1>4. it.op = "raw" /\ call.n = n /\ Pos = from
  BY <1>2 DEF RawDone
<1>5. it = [op |-> "raw", bits |-> s] /\ s \in Bits /\ Code(it) = s
  BY <1>2, <1>4, ItemIs
<1>6. Live = br /\ br \in Readers
  BY <1>1, GoingIs DEF Live
<1>7. n <= Unconsumed(br) /\ Returned(q, [op |-> "raw", bits |-> Peek(br, n)])
  <2>1. Unconsumed(br) \in Int /\ n \in Nat
    BY <1>5, <1>6, ReaderIs DEF Unconsumed, Bits
  <2>2. Unconsumed(br) >= call.n
        /\ Returned(AfterRaw(br, call.n), [op |-> "raw", bits |-> Peek(br, call.n)])
    BY DEF ReadRaw
  <2> QED
    BY <1>4, <2>1, <2>2
<1> HIDE DEF it, from
<1>8. Peek(br, n) = s
  <2>1. Ahead(br, s)
    BY <1>3, <1>4, <1>5, <1>6, AheadIs, GoingIs
  <2> QED
    BY <1>5, <1>6, <1>7, <2>1, PeekIs
<1>9. n \in Nat
  BY <1>5 DEF Bits
<1> HIDE DEF s, n, q
<1>10. Moves(q, br, Consumed(br) + n)
  BY <1>6, <1>7, <1>9, AfterRawMoves DEF q
<1>11. q \in Readers /\ q.data = br.data /\ Consumed(q) = Consumed(br) + n
  BY <1>10 DEF Moves
<1>12. Returned(q, it)
  BY <1>5, <1>7, <1>8
<1>13. Base + Consumed(q) = from + Len(Code(it))
  <2>1. Len(Code(it)) = n
    BY <1>5 DEF n
  <2>2. Base \in Nat /\ Consumed(br) \in Nat /\ Pos = Base + Consumed(br)
    BY <1>6, Placed, GoingIs
  <2> QED
    BY <1>3, <1>4, <1>9, <1>11, <2>1, <2>2
<1> QED
  BY <1>1, <1>2, <1>6, <1>10, <1>11, <1>12, <1>13, ItemReturns DEF it, from

LEMMA UnaryReads ==
    ASSUME Going, ReadUnary
    PROVE  ReaderInv'
<1> DEFINE it == items[Len(got) + 1]
           from == Len(Codes(got))
           m == it.n
           z == call.zeros
           s == UnaryScan(br)
           q == s.br
<1>1. call.op = "unary" /\ call # NoCall
  BY DEF ReadUnary, NoCall
<1>2. Len(got) < Len(items) /\ it \in Items /\ UnaryDone(it, from)
  BY <1>1, CallIs
<1>3. /\ from \in Nat /\ There(BufferBits(bw), from, Code(it))
  BY <1>2, NextIs
<1>4. /\ it.op = "unary" /\ call = [op |-> "unary", zeros |-> z] /\ z \in 0..m
      /\ Pos = from + z
  BY <1>2 DEF UnaryDone
<1>5. it = [op |-> "unary", n |-> m] /\ m \in Nat /\ Code(it) = Append(Zeroes(m), 1)
  BY <1>2, <1>4, ItemIs
<1>6. /\ Live = br /\ br \in Readers /\ Base \in Nat /\ Consumed(br) \in Nat
      /\ Pos = Base + Consumed(br) /\ Len(br.data) \in Nat /\ Consumed(br) <= Len(br.data)
  <2>1. Live = br
    BY <1>1 DEF Live
  <2>2. Consumed(br) \in 0..Len(br.data) /\ Len(br.data) \in Nat
    BY <2>1, Placed, GoingIs
  <2> QED
    BY <2>1, <2>2, Placed, GoingIs
<1>7. IF s.found THEN Returned(q, [op |-> "unary", n |-> z + s.zeros])
      ELSE Continues(q, [call EXCEPT !.zeros = @ + s.zeros])
  BY DEF ReadUnary
<1>8. Len(Code(it)) = m + 1
  <2>1. Zeroes(m) \in Seq(Bit) /\ Len(Zeroes(m)) = m /\ 1 \in Bit
    BY <1>5, ZeroesAre DEF Bits, Bit
  <2> QED
    BY <1>5, <2>1, AppendProperties
<1> HIDE DEF it, from, m, z
<1>9. ZeroesFrom(br, Consumed(br), Len(br.data), m - z) /\ m - z \in Nat
  <2>1. ZeroesFrom(Live, Consumed(Live), Len(br.data), m - z)
    BY <1>3, <1>4, <1>5, AheadZeroes, GoingIs
  <2> QED
    BY <1>4, <1>5, <1>6, <2>1
<1> DEFINE y == m - z
<1>10. IF Consumed(br) + y < Len(br.data)
       THEN s.found /\ s.zeros = y /\ Moves(q, br, Consumed(br) + (y + 1))
       ELSE ~ s.found /\ s.zeros = Len(br.data) - Consumed(br) /\ Moves(q, br, Len(br.data))
  <2> HIDE DEF y
  <2> QED
    BY <1>6, <1>9, UnaryScans DEF y
<1> HIDE DEF s, q
<1>11. CASE Consumed(br) + y < Len(br.data)
  <2>1. Returned(q, [op |-> "unary", n |-> z + y])
    BY <1>7, <1>10, <1>11
  <2>2. z + y = m
    BY <1>4, <1>5
  <2>3. Returned(q, it)
    BY <1>5, <2>1, <2>2
  <2>4. Moves(q, br, Consumed(br) + (y + 1))
    BY <1>10, <1>11
  <2>5. q \in Readers /\ q.data = br.data /\ Consumed(q) = Consumed(br) + (y + 1)
    BY <2>4 DEF Moves
  <2>6. Base + Consumed(q) = from + Len(Code(it))
    <3>1. /\ Base + Consumed(br) = from + z /\ Base \in Nat /\ Consumed(br) \in Nat
          /\ from \in Nat /\ z \in Nat /\ m \in Nat
      BY <1>3, <1>4, <1>5, <1>6
    <3>2. Consumed(q) = Consumed(br) + ((m - z) + 1) /\ Len(Code(it)) = m + 1
      BY <1>8, <2>5
    <3> QED
      BY <3>1, <3>2
  <2> HIDE DEF y
  <2> QED
    BY <1>1, <1>2, <1>6, <2>3, <2>4, <2>5, <2>6, ItemReturns DEF it, from
<1>12. CASE ~(Consumed(br) + y < Len(br.data))
  <2> DEFINE new == z + (Len(br.data) - Consumed(br))
             c == [op |-> "unary", zeros |-> new]
  <2>1. Moves(q, br, Len(br.data)) /\ ~ s.found /\ s.zeros = Len(br.data) - Consumed(br)
    BY <1>10, <1>12
  <2>2. [call EXCEPT !.zeros = @ + s.zeros] = c
    BY <1>4, <2>1
  <2>3. Continues(q, c)
    BY <1>7, <2>1, <2>2
  <2>4. q \in Readers /\ q.data = br.data /\ Consumed(q) = Len(br.data)
    BY <2>1 DEF Moves
  <2>5. new \in 0..m /\ Base + Consumed(q) = from + new
    <3> DEFINE a == Consumed(br)
               n == Len(br.data)
    <3>0. new = z + (n - a)
      OBVIOUS
    <3>1. /\ Base + a = from + z /\ Base \in Nat /\ a \in Nat /\ n \in Nat /\ a <= n
          /\ from \in Nat /\ z \in Nat /\ m \in Nat /\ Consumed(q) = n
      <4>1. from \in Nat
        BY <1>3
      <4>2. m \in Nat /\ z \in Nat
        BY <1>4, <1>5
      <4>3. /\ Base \in Nat /\ a \in Nat /\ n \in Nat /\ a <= n
        BY <1>6
      <4>4. Base + a = from + z
        BY <1>4, <1>6
      <4>5. Consumed(q) = n
        BY <2>4
      <4> HIDE DEF new, y, a, n
      <4> QED
        BY <4>1, <4>2, <4>3, <4>4, <4>5
    <3>2. ~(a + (m - z) < n)
      BY <1>12
    <3> HIDE DEF a, n, new, y
    <3>3. new \in Nat /\ new <= m
      BY <3>0, <3>1, <3>2
    <3>4. Base + n = from + new
      BY <3>0, <3>1
    <3> QED
      BY <3>1, <3>3, <3>4
  <2> HIDE DEF new, y
  <2>6. br' = q /\ call' = c /\ UNCHANGED <<bw, items, phase, stream, fed, got, crcFrom>>
    BY <2>3 DEF Continues
  <2>7. Live' = q
    BY <2>6 DEF Live
  <2>8. q \in AnyReader
    BY <2>4, ReaderIs
  <2>9. Pos' = Base + Consumed(q)
    BY <2>4, <2>6, <2>7, <2>8, LoadedGoesOn, GoingIs
  <2>10. Progress'
    <3>1. it' = it /\ from' = from
      BY <2>6 DEF it, from
    <3>2. UnaryDone(it, from)'
      BY <1>4, <2>5, <2>6, <2>9, <3>1 DEF UnaryDone, m
    <3>3. (Len(got) < Len(items))'
      BY <1>2, <2>6
    <3> QED
      BY <3>2, <3>3 DEF Progress, it, from
  <2>11. Live' \in Readers /\ Moves(Live', Live, Consumed(Live')) /\ call.op # "block"
    BY <1>1, <1>6, <2>1, <2>4, <2>7
  <2> HIDE DEF c
  <2> QED
    BY <2>3, <2>4, <2>8, <2>10, <2>11, ItemContinues
<1> QED
  BY <1>11, <1>12

-----------------------------------------------------------------------------
(* Blocks of bytes.                                                        *)
LEMMA ByteWidth ==
    /\ BitsPerByte \in Nat \ {0} /\ BytesPerWord \in Nat \ {0}
    /\ BitsPerWord = BytesPerWord * BitsPerByte
BY WordAssumption DEF BitsPerWord

LEMMA BytesJoined ==
    ASSUME NEW bs \in Seq([1..BitsPerByte -> Bit]), NEW j \in 0..Len(bs)
    PROVE  Len(Joined(bs, j)) = j * BitsPerByte
<1> DEFINE n == Len(bs)
           wrong == {i \in 0..n : Len(Joined(bs, i)) # i * BitsPerByte}
<1>1. /\ n \in Nat /\ BitsPerByte \in Nat
      /\ \A i \in 1..n : bs[i] \in Bits /\ Len(bs[i]) = BitsPerByte
  <2>1. BitsPerByte \in Nat
    BY ByteWidth
  <2>2. \A i \in 1..n : bs[i] \in [1..BitsPerByte -> Bit]
    OBVIOUS
  <2>3. \A b \in [1..BitsPerByte -> Bit] : Len(b) = BitsPerByte
    BY <2>1
  <2> QED
    BY <2>1, <2>2, <2>3, ByteIs
<1>2. wrong = {}
  <2>1. SUFFICES ASSUME wrong # {} PROVE FALSE
    BY <2>1
  <2>2. PICK i \in wrong : \A l \in wrong : i <= l
    <3>1. wrong \subseteq Nat
      OBVIOUS
    <3> HIDE DEF wrong
    <3> QED
      BY <2>1, <3>1, LeastNumber
  <2>3. i # 0
    <3>1. Joined(bs, 0) = <<>>
      BY NothingJoined
    <3>2. 0 * BitsPerByte = 0
      BY <1>1
    <3> QED
      BY <3>1, <3>2
  <2>4. i \in 1..n /\ i - 1 \in 0..n /\ ~ (i <= i - 1)
    BY <1>1, <2>3
  <2>5. i - 1 \notin wrong
    <3> HIDE DEF wrong
    <3> QED
      BY <2>2, <2>4
  <2>6. Len(Joined(bs, i - 1)) = (i - 1) * BitsPerByte
    BY <2>4, <2>5
  <2>7. Len(Joined(bs, i)) = Len(Joined(bs, i - 1)) + Len(bs[i])
    <3> HIDE DEF wrong
    <3> QED
      BY <1>1, <2>4, PartsOfJoined
  <2>8. (i - 1) * BitsPerByte + BitsPerByte = i * BitsPerByte
    <3>1. i \in Nat /\ BitsPerByte \in Nat
      BY <1>1, <2>4
    <3> QED
      BY <3>1
  <2>9. Len(Joined(bs, i)) = i * BitsPerByte
    BY <1>1, <2>4, <2>6, <2>7, <2>8
  <2> QED
    BY <2>9
<1> QED
  BY <1>2

(* What comes next in the buffer are the bytes that are still to be read.  *)
LEMMA BytesAhead ==
    ASSUME Going, call.op = "block", NEW i \in 1..call.todo,
           i * BitsPerByte <= Unconsumed(br)
    PROVE  LET bs == items[Len(got) + 1].bytes
           IN  Bytes(Peek(br, i * BitsPerByte))
                  = [l \in 1..i |-> bs[Len(call.bytes) + l]]
<1> DEFINE it == items[Len(got) + 1]
           bs == it.bytes
           from == Len(Codes(got))
           j == Len(call.bytes)
           B == BitsPerByte
           a == Consumed(br)
           w == i * B
           s == Peek(br, w)
           U == BufferBits(bw)
<1>1. call # NoCall
  BY DEF NoCall
<1>2. Len(got) < Len(items) /\ it \in Items /\ BlockDone(it, from)
  BY <1>1, CallIs
<1>3. /\ Code(it) \in Bits /\ from \in Nat /\ There(U, from, Code(it))
  BY <1>2, NextIs
<1>4. /\ it.op = "block" /\ j < Len(bs) /\ call.bytes = SubSeq(bs, 1, j)
      /\ call.todo = Len(bs) - j /\ Pos = from + Len(Joined(bs, j))
  BY <1>2 DEF BlockDone
<1>5. bs \in Seq([1..B -> Bit]) /\ Code(it) = Joined(bs, Len(bs)) /\ Len(bs) \in Nat
  BY <1>2, <1>4, ItemIs
<1>6. Live = br
  BY DEF Live
<1>7. /\ br \in Readers /\ a \in Nat /\ Base \in Nat /\ Pos = Base + a
      /\ Len(br.data) \in Nat /\ br.data \in Bits
      /\ \A x \in 1..Len(br.data) : br.data[x] = U[Base + x]
  <2>1. /\ Live \in Readers /\ Consumed(Live) \in 0..Len(br.data) /\ Base \in Nat
        /\ Pos = Base + Consumed(Live) /\ Len(br.data) \in Nat
        /\ \A x \in 1..Len(br.data) : br.data[x] = U[Base + x]
    BY GoingIs, Placed
  <2> QED
    BY <1>6, <2>1, ReaderIs
<1>8. j \in Nat /\ B \in Nat \ {0} /\ i \in Nat /\ i >= 1 /\ j + i <= Len(bs)
  <2>1. call.bytes \in Seq([1..B -> Bit])
    BY <1>2 DEF BlockDone, BlockCalls
  <2>2. j \in Nat
    BY <2>1
  <2> HIDE DEF j, bs
  <2> QED
    BY <1>4, <1>5, <2>2, ByteWidth
<1>9. Len(Joined(bs, j)) = j * B
  <2>1. j \in 0..Len(bs)
    <3> HIDE DEF j, bs
    <3> QED
      BY <1>5, <1>8
  <2> HIDE DEF bs, j
  <2> QED
    BY <1>5, <2>1, BytesJoined
<1> HIDE DEF it, from
<1>10. w \in Nat /\ a + w \in Nat /\ a + w <= Len(br.data) /\ w \div B = i
  <2>1. i * B \in Nat
    BY <1>8
  <2>2. (i * B + 0) \div B = i /\ i * B + 0 = i * B
    <3>1. 0 \in 0..(B - 1)
      BY <1>8
    <3> QED
      BY <1>8, <2>1, <3>1, QuotientOf
  <2>3. w <= Len(br.data) - a
    BY DEF Unconsumed
  <2> HIDE DEF w, a
  <2>4. w \in Nat
    BY <2>1 DEF w
  <2>5. a + w \in Nat /\ a + w <= Len(br.data)
    BY <1>7, <2>3, <2>4
  <2> QED
    BY <2>2, <2>4, <2>5 DEF w
<1> HIDE DEF w, a
<1>11. s \in Bits /\ Len(s) = w /\ \A x \in 1..w : s[x] = br.data[a + x]
  <2> DEFINE b == a + w
  <2>1. b \in Nat /\ a <= b /\ b <= Len(br.data) /\ b - a = w
    BY <1>7, <1>10
  <2>2. s = SubSeq(br.data, a + 1, b)
    BY DEF Peek, a
  <2> HIDE DEF b, s
  <2> QED
    BY <1>7, <2>1, <2>2, PieceIs
<1>12. Bytes(s) = [l \in 1..i |-> SubSeq(s, (l - 1) * B + 1, l * B)]
  BY <1>10, <1>11 DEF Bytes
<1> HIDE DEF s
<1>13. ASSUME NEW l \in 1..i
       PROVE  SubSeq(s, (l - 1) * B + 1, l * B) = bs[j + l]
  <2> DEFINE u == (l - 1) * B
             v == l * B
             k == j + l
             b == bs[k]
             x == SubSeq(s, u + 1, v)
  <2>1. /\ u \in Nat /\ v \in Nat /\ v = u + B
    <3>1. l \in Nat /\ l - 1 \in Nat /\ B \in Nat
      BY <1>8
    <3>2. \A e \in Nat : e * B \in Nat /\ (e + 1) * B = e * B + B
      BY <3>1
    <3> DEFINE e == l - 1
    <3>3. e \in Nat /\ e + 1 = l
      BY <3>1
    <3> HIDE DEF e
    <3>4. e * B \in Nat /\ (e + 1) * B = e * B + B /\ (e + 1) * B \in Nat
      BY <3>2, <3>3
    <3> QED
      BY <3>3, <3>4 DEF e
  <2>2. v <= w
    <3>1. l <= i /\ l \in Nat /\ i \in Nat /\ B \in Nat
      BY <1>8
    <3>2. \A e, f, g \in Nat : e <= f => e * g <= f * g
      OBVIOUS
    <3> QED
      BY <3>1, <3>2 DEF w
  <2>3. k \in 1..Len(bs) /\ k - 1 = j + (l - 1) /\ k - 1 \in 0..Len(bs)
    <3>1. l \in Nat /\ l >= 1 /\ l <= i
      BY <1>8
    <3> HIDE DEF bs, j
    <3> QED
      BY <1>5, <1>8, <3>1
  <2>4. b \in Bits /\ Len(b) = B /\ \A e \in 1..Len(bs) : bs[e] \in Bits
    <3>1. \A e \in 1..Len(bs) : bs[e] \in [1..B -> Bit]
      BY <1>5
    <3>2. b \in [1..B -> Bit]
      BY <2>3, <3>1
    <3>3. Len(b) = B
      BY <1>8, <3>2
    <3> QED
      BY <3>1, <3>2, <3>3, ByteIs
  <2>5. (k - 1) * B = j * B + u /\ (k - 1) * B \in Nat
    <3>1. j \in Nat /\ l - 1 \in Nat /\ B \in Nat
      BY <1>8
    <3>2. \A e, f, g \in Nat : (e + f) * g = e * g + f * g /\ (e + f) * g \in Nat
      OBVIOUS
    <3>3. (j + (l - 1)) * B = j * B + (l - 1) * B /\ (j + (l - 1)) * B \in Nat
      <4> HIDE DEF j
      <4> QED
        BY <3>1, <3>2
    <3> QED
      BY <2>3, <3>3
  <2> HIDE DEF u, v, k
  <2>6. There(Code(it), (k - 1) * B, b)
    <3>1. Len(Joined(bs, k - 1)) = (k - 1) * B
      BY <1>5, <2>3, BytesJoined
    <3>2. There(Joined(bs, Len(bs)), Len(Joined(bs, k - 1)), b)
      <4> HIDE DEF bs
      <4> QED
        BY <1>5, <2>3, <2>4, JoinedThere
    <3> QED
      BY <1>5, <3>1, <3>2
  <2>7. There(U, from + (k - 1) * B, b)
    <3>1. U \in Bits
      BY GoingIs
    <3> HIDE DEF U, b
    <3> QED
      BY <1>3, <2>4, <2>5, <2>6, <3>1, ThereWithin
  <2>8. from + (k - 1) * B = Base + (a + u)
    <3> DEFINE e == j * B
    <3>1. Base + a = from + e /\ (k - 1) * B = e + u /\ e \in Nat
      <4>1. j \in Nat /\ B \in Nat
        BY <1>8
      <4>2. j * B \in Nat
        <5> HIDE DEF j
        <5> QED
          BY <4>1
      <4>3. Base + a = from + j * B
        BY <1>4, <1>7, <1>9
      <4> QED
        BY <2>5, <4>2, <4>3
    <3> HIDE DEF e
    <3> QED
      BY <1>3, <1>7, <2>1, <3>1
  <2>9. x \in Bits /\ Len(x) = B /\ \A y \in 1..B : x[y] = s[u + y]
    <3>1. u <= v /\ v <= Len(s) /\ v - u = B
      BY <1>8, <1>11, <2>1, <2>2
    <3> QED
      BY <1>11, <2>1, <3>1, PieceIs
  <2>10. ASSUME NEW y \in 1..B PROVE x[y] = b[y]
    <3>1. u + y \in 1..w /\ a + (u + y) \in 1..Len(br.data)
          /\ Base + (a + (u + y)) = (Base + (a + u)) + y
      BY <1>7, <1>8, <1>10, <2>1, <2>2
    <3>2. s[u + y] = U[Base + (a + (u + y))]
      BY <1>7, <1>11, <3>1
    <3>3. U[(Base + (a + u)) + y] = b[y]
      BY <2>4, <2>7, <2>8 DEF There
    <3> QED
      BY <2>9, <3>1, <3>2, <3>3
  <2> HIDE DEF x, b
  <2>11. x = b
    BY <2>4, <2>9, <2>10, SameBits
  <2> QED
    BY <2>11 DEF x, b, u, v, k
<1> QED
  BY <1>12, <1>13 DEF s, w, it

LEMMA BlockStep ==
    ASSUME Going, call.op = "block", NEW i \in 1..call.todo,
           NEW q \in Readers, q.data = br.data,
           i * BitsPerByte <= Unconsumed(br),
           Consumed(q) = Consumed(br) + i * BitsPerByte,
           BlockOn(q, [call EXCEPT !.todo = @ - i,
                                   !.bytes = @ \o Bytes(Peek(br, i * BitsPerByte))])
    PROVE  ReaderInv'
<1> DEFINE it == items[Len(got) + 1]
           bs == it.bytes
           from == Len(Codes(got))
           j == Len(call.bytes)
           B == BitsPerByte
           more == [l \in 1..i |-> bs[j + l]]
           left == call.todo - i
           read == call.bytes \o more
           c == [op |-> "block", todo |-> left, bytes |-> read]
<1>1. call # NoCall
  BY DEF NoCall
<1>2. Len(got) < Len(items) /\ it \in Items /\ BlockDone(it, from)
  BY <1>1, CallIs
<1>3. from \in Nat
  BY <1>2, NextIs
<1>4. /\ it.op = "block" /\ call \in BlockCalls /\ j < Len(bs)
      /\ call.bytes = SubSeq(bs, 1, j)
      /\ call.todo = Len(bs) - j /\ Pos = from + Len(Joined(bs, j))
  BY <1>2 DEF BlockDone
<1>5. /\ it = [op |-> "block", bytes |-> bs] /\ bs \in Seq([1..B -> Bit])
      /\ Code(it) = Joined(bs, Len(bs)) /\ Len(bs) \in Nat
  BY <1>2, <1>4, ItemIs
<1>6. /\ call.bytes \in Seq([1..B -> Bit]) /\ j \in Nat /\ call.todo \in Nat
      /\ call = [op |-> "block", todo |-> call.todo, bytes |-> call.bytes]
  BY <1>4 DEF BlockCalls
<1>7. i \in Nat /\ i >= 1 /\ j + i <= Len(bs) /\ left = Len(bs) - (j + i) /\ B \in Nat
  <2> HIDE DEF bs, j
  <2> QED
    BY <1>4, <1>5, <1>6, ByteWidth
<1>8. Live = br /\ br \in Readers /\ Base \in Nat /\ Pos = Base + Consumed(br)
      /\ Consumed(br) \in Nat
  <2>1. Live = br
    BY DEF Live
  <2> QED
    BY <2>1, GoingIs, Placed, ReaderIs
<1> HIDE DEF it, from
<1>9. read = SubSeq(bs, 1, j + i) /\ Len(read) = j + i /\ read \in Seq([1..B -> Bit])
  <2> DEFINE S == [1..B -> Bit]
             old == call.bytes
             t == SubSeq(bs, 1, j + i)
  <2>0. /\ bs \in Seq(S) /\ old \in Seq(S) /\ Len(old) = j /\ old = SubSeq(bs, 1, j)
    BY <1>4, <1>5, <1>6
  <2>1. more \in Seq(S) /\ Len(more) = i /\ \A l \in 1..i : more[l] = bs[j + l]
    <3>1. ASSUME NEW l \in 1..i PROVE bs[j + l] \in S
      <4>1. j + l \in 1..Len(bs)
        <5> HIDE DEF bs, j
        <5> QED
          BY <1>5, <1>6, <1>7
      <4> HIDE DEF bs, j, S
      <4> QED
        BY <2>0, <4>1
    <3>2. more \in [1..i -> S]
      BY <3>1
    <3> HIDE DEF S, bs, j
    <3> QED
      BY <1>7, <3>2
  <2> HIDE DEF S, old, more, bs, j
  <2>2. \A l \in 1..j : old[l] = bs[l]
    <3>1. SubSeq(bs, 1, j) = [l \in 1..j |-> bs[l]]
      BY <1>5, <1>6, <1>7, <2>0
    <3> QED
      BY <2>0, <3>1
  <2>3. /\ old \o more \in Seq(S) /\ Len(old \o more) = j + i
        /\ \A l \in 1..(j + i) : (old \o more)[l] = IF l <= j THEN old[l] ELSE more[l - j]
    BY <1>6, <1>7, <2>0, <2>1, ConcatProperties
  <2>4. t = [l \in 1..(j + i) |-> bs[l]]
    BY <1>5, <1>6, <1>7, <2>0
  <2> DEFINE x == old \o more
  <2>5. x = [l \in 1..(j + i) |-> x[l]]
    <3> HIDE DEF x
    <3>1. x \in Seq(S) /\ Len(x) = j + i
      BY <2>3 DEF x
    <3> QED
      BY <1>6, <1>7, <3>1
  <2>6. ASSUME NEW l \in 1..(j + i) PROVE x[l] = bs[l]
    <3>1. CASE l <= j
      <4>1. l \in 1..j
        BY <1>6, <3>1
      <4> QED
        BY <2>2, <2>3, <3>1, <4>1
    <3>2. CASE ~(l <= j)
      <4>1. l - j \in 1..i /\ j + (l - j) = l
        BY <1>6, <1>7, <3>2
      <4>2. more[l - j] = bs[j + (l - j)]
        BY <2>1, <4>1
      <4> QED
        BY <2>3, <3>2, <4>1, <4>2
    <3> QED
      BY <3>1, <3>2
  <2>7. x = t
    <3> HIDE DEF x, t
    <3> QED
      BY <2>4, <2>5, <2>6
  <2> QED
    BY <2>3, <2>7 DEF old, S, bs, j
<1>13. left \in Nat
  <2> HIDE DEF bs, j, left
  <2> QED
    BY <1>5, <1>6, <1>7
<1>10. [call EXCEPT !.todo = @ - i, !.bytes = @ \o Bytes(Peek(br, i * B))] = c
  <2> DEFINE S == Seq([1..B -> Bit])
             x == [call EXCEPT !.todo = @ - i, !.bytes = @ \o more]
  <2>1. Bytes(Peek(br, i * B)) = more
    BY BytesAhead DEF it
  <2> HIDE DEF more, S
  <2>2. /\ x.op = "block" /\ x.todo = left /\ x.bytes = read
        /\ x \in [op : {"block"}, todo : Nat, bytes : S]
    <3>1. left \in Nat /\ read \in S /\ call \in [op : {"block"}, todo : Nat, bytes : S]
      BY <1>4, <1>9, <1>13 DEF BlockCalls, S
    <3>2. x = [call EXCEPT !.todo = left, !.bytes = read]
      OBVIOUS
    <3> HIDE DEF x, left, read
    <3> QED
      BY <3>1, <3>2
  <2> HIDE DEF x
  <2>3. x = [op |-> x.op, todo |-> x.todo, bytes |-> x.bytes]
    BY <2>2
  <2>4. x = c
    BY <2>2, <2>3
  <2> QED
    BY <2>1, <2>4 DEF x
<1>11. /\ Len(Joined(bs, j + i)) = (j + i) * B
       /\ Base + Consumed(q) = from + Len(Joined(bs, j + i))
  <2>1. j \in 0..Len(bs) /\ j + i \in 0..Len(bs)
    <3> HIDE DEF j, bs
    <3> QED
      BY <1>5, <1>6, <1>7
  <2> HIDE DEF j, bs
  <2>2. Len(Joined(bs, j)) = j * B /\ Len(Joined(bs, j + i)) = (j + i) * B
    BY <1>5, <2>1, BytesJoined
  <2>3. (j + i) * B = j * B + i * B /\ j * B \in Nat /\ i * B \in Nat
    BY <1>6, <1>7
  <2> DEFINE e == j * B
             f == i * B
  <2>4. /\ Base + Consumed(br) = from + e /\ Consumed(q) = Consumed(br) + f
        /\ e \in Nat /\ f \in Nat /\ (j + i) * B = e + f
    <3>1. Pos = from + Len(Joined(bs, j))
      BY <1>4 DEF j, bs
    <3> QED
      BY <1>8, <2>2, <2>3, <3>1
  <2> HIDE DEF e, f
  <2>5. Base + Consumed(q) = from + (e + f)
    BY <1>3, <1>8, <2>4
  <2> QED
    BY <2>2, <2>4, <2>5
<1>12. BlockOn(q, c)
  BY <1>10
<1>14. CASE left = 0
  <2>1. Returned(q, [op |-> "block", bytes |-> read])
    <3> HIDE DEF left, read
    <3> QED
      BY <1>12, <1>14 DEF BlockOn
  <2>2. j + i = Len(bs)
    <3> HIDE DEF bs, j, left
    <3> QED
      BY <1>5, <1>6, <1>7, <1>14
  <2>3. SubSeq(bs, 1, Len(bs)) = bs
    <3> HIDE DEF bs
    <3> QED
      BY <1>5
  <2>4. read = bs
    BY <1>9, <2>2, <2>3
  <2>5. Returned(q, it)
    BY <1>5, <2>1, <2>4
  <2>6. Base + Consumed(q) = from + Len(Code(it))
    BY <1>5, <1>11, <2>2
  <2> HIDE DEF bs, j, read, c, more, left
  <2> QED
    BY <1>2, <1>4, <2>5, <2>6, ItemReturns DEF it, from
<1>15. CASE left # 0
  <2>1. Continues(q, c)
    <3> HIDE DEF left, read
    <3> QED
      BY <1>12, <1>15 DEF BlockOn
  <2>2. j + i < Len(bs)
    <3> HIDE DEF bs, j, left
    <3> QED
      BY <1>5, <1>6, <1>7, <1>15
  <2>3. q \in AnyReader
    BY ReaderIs
  <2>4. br' = q /\ call' = c /\ UNCHANGED <<bw, items, phase, stream, fed, got, crcFrom>>
    BY <2>1 DEF Continues
  <2>5. Live' = q
    BY <2>4 DEF Live
  <2>6. Pos' = Base + Consumed(q)
    BY <2>3, <2>4, <2>5, LoadedGoesOn, GoingIs
  <2>7. c \in BlockCalls /\ c.todo = left /\ c.bytes = read /\ c.op = "block"
    <3> HIDE DEF read, left
    <3> QED
      BY <1>9, <1>13 DEF BlockCalls
  <2> HIDE DEF c, read, more
  <2>8. BlockDone(it, from)'
    <3>1. it' = it /\ from' = from
      BY <2>4 DEF it, from
    <3>2. /\ call'.todo = left /\ call'.bytes = read /\ call' \in BlockCalls
          /\ Len(call'.bytes) = j + i
      BY <1>9, <2>4, <2>7
    <3>3. Len(call'.bytes) < Len(bs) /\ call'.bytes = SubSeq(bs, 1, Len(call'.bytes))
      BY <1>9, <2>2, <3>2
    <3>4. call'.todo = Len(bs) - Len(call'.bytes)
      BY <1>7, <3>2
    <3>5. Pos' = from + Len(Joined(bs, Len(call'.bytes)))
      BY <1>11, <2>6, <3>2
    <3> QED
      BY <1>4, <3>1, <3>2, <3>3, <3>4, <3>5 DEF BlockDone
  <2>9. Progress'
    <3>1. (Len(got) < Len(items))'
      BY <1>2, <2>4
    <3> QED
      BY <2>8, <3>1 DEF Progress, it, from
  <2> HIDE DEF left, j, bs
  <2> QED
    BY <2>1, <2>3, <2>5, <2>7, <2>9, ItemContinues
<1> QED
  BY <1>14, <1>15

LEMMA BlockCallIs ==
    ASSUME Going, call.op = "block"
    PROVE  /\ call.todo \in Nat \ {0}
           /\ Live = br /\ br \in Readers
<1>1. call # NoCall
  BY DEF NoCall
<1> DEFINE it == items[Len(got) + 1]
<1>2. it \in Items /\ BlockDone(it, Len(Codes(got)))
  BY <1>1, CallIs
<1>3. /\ call \in BlockCalls /\ it.op = "block" /\ Len(call.bytes) < Len(it.bytes)
      /\ call.todo = Len(it.bytes) - Len(call.bytes)
  BY <1>2 DEF BlockDone
<1>4. it.bytes \in Seq([1..BitsPerByte -> Bit])
  BY <1>2, <1>3, ItemIs
<1> HIDE DEF it
<1>5. call.todo \in Nat /\ Len(it.bytes) \in Nat /\ Len(call.bytes) \in Nat
  BY <1>3, <1>4 DEF BlockCalls
<1>6. call.todo # 0
  BY <1>3, <1>5
<1>7. Live = br
  BY DEF Live
<1> QED
  BY <1>5, <1>6, <1>7, GoingIs

LEMMA BlockByteReads ==
    ASSUME Going, ReadBlockByte
    PROVE  ReaderInv'
<1> DEFINE B == BitsPerByte
           q == AfterRaw(br, B)
<1>1. call.op = "block"
  BY DEF ReadBlockByte
<1>2. call.todo \in Nat \ {0} /\ br \in Readers
  BY <1>1, BlockCallIs
<1>3. /\ B \in Nat /\ B <= Unconsumed(br)
      /\ BlockOn(q, [call EXCEPT !.todo = @ - 1, !.bytes = @ \o Bytes(Peek(br, B))])
  <2>1. Unconsumed(br) \in Int /\ B \in Nat
    BY <1>2, ReaderIs, ByteWidth DEF Unconsumed
  <2> QED
    BY <2>1 DEF ReadBlockByte
<1>4. Moves(q, br, Consumed(br) + B)
  BY <1>2, <1>3, AfterRawMoves
<1>5. q \in Readers /\ q.data = br.data /\ Consumed(q) = Consumed(br) + B
  BY <1>4 DEF Moves
<1>6. 1 * B = B /\ 1 \in 1..call.todo
  BY <1>2, <1>3
<1> HIDE DEF q
<1> QED
  BY <1>1, <1>3, <1>5, <1>6, BlockStep

LEMMA BlockWordReads ==
    ASSUME Going, ReadBlockWord
    PROVE  ReaderInv'
<1> DEFINE W == BitsPerWord
           cw == br.consumedWords
           q == [br EXCEPT !.consumedWords = @ + 1]
           n == BytesPerWord
<1>1. call.op = "block"
  BY DEF ReadBlockWord
<1>2. call.todo \in Nat \ {0} /\ br \in Readers /\ br \in AnyReader
  BY <1>1, BlockCallIs, ReaderIs
<1>3. /\ ~(br.consumedBits > 0) /\ ~(call.todo < n) /\ cw < CompleteWords(br)
      /\ BlockOn(q, [call EXCEPT !.todo = @ - n, !.bytes = @ \o Bytes(Peek(br, W))])
  BY DEF ReadBlockWord, BlockByByte
<1>4. /\ cw \in Nat /\ br.consumedBits = 0 /\ W \in Nat
      /\ Consumed(br) = cw * W + br.consumedBits
      /\ Len(br.data) \in Nat
  <2>1. br.consumedBits \in Nat
    BY <1>2, ReaderIs
  <2>2. br.consumedBits = 0
    BY <1>3, <2>1
  <2> QED
    BY <1>2, <2>2, ReaderIs, WordWidth
<1>5. /\ q \in AnyReader /\ q.data = br.data /\ q.consumedWords = cw + 1
      /\ q.consumedBits = 0
  BY <1>2, <1>4 DEF AnyReader
<1>6. (cw + 1) * W = cw * W + W /\ cw * W \in Nat
  BY <1>4
<1>7. (cw + 1) * W <= Len(br.data)
  <2> DEFINE c == CompleteWords(br)
             rest == Len(br.data) % W
             m == c * W
  <2>1. c \in Nat /\ m \in Nat /\ rest \in 0..(W - 1) /\ Len(br.data) = m + rest
    BY <1>2, CompleteIs
  <2>2. cw + 1 <= c /\ cw + 1 \in Nat
    <3>1. cw < c /\ c \in Nat /\ cw \in Nat
      BY <1>3, <1>4, <2>1
    <3> HIDE DEF c, cw
    <3> QED
      BY <3>1
  <2>3. (cw + 1) * W <= m
    <3> HIDE DEF c
    <3>1. \A e, f, g \in Nat : e <= f => e * g <= f * g
      OBVIOUS
    <3> QED
      BY <1>4, <2>1, <2>2, <3>1
  <2> DEFINE p == (cw + 1) * W
  <2>4. p \in Nat
    BY <1>4
  <2> HIDE DEF m, rest, p
  <2>5. p <= m + rest
    BY <1>4, <2>1, <2>3, <2>4 DEF p
  <2> QED
    BY <2>1, <2>5 DEF p
<1>8. Consumed(q) = Consumed(br) + W
  <2>1. Consumed(q) = (cw + 1) * W + 0
    BY <1>5 DEF Consumed
  <2> QED
    BY <1>4, <1>6, <2>1
<1>9. q \in Readers
  <2>1. Consumed(q) = (cw + 1) * W
    BY <1>4, <1>6, <1>8
  <2> QED
    BY <1>5, <1>7, <2>1 DEF Readers
<1>10. W <= Unconsumed(br)
  <2>1. Consumed(br) + W <= Len(br.data) /\ Consumed(br) \in Nat
    BY <1>4, <1>6, <1>7
  <2> QED
    BY <1>4, <2>1 DEF Unconsumed
<1>11. n * BitsPerByte = W /\ n \in 1..call.todo
  BY <1>2, <1>3, ByteWidth
<1> HIDE DEF q, W
<1> QED
  BY <1>1, <1>3, <1>5, <1>8, <1>9, <1>10, <1>11, BlockStep

-----------------------------------------------------------------------------
(* The other steps of the reader.                                          *)
LEMMA BeginsRead ==
    ASSUME Going, BeginRead
    PROVE  ReaderInv'
<1> DEFINE it == items[Len(got) + 1]
           from == Len(Codes(got))
           c == CASE it.op = "raw" -> [op |-> "raw", n |-> Len(it.bits)]
                  [] it.op = "unary" -> [op |-> "unary", zeros |-> 0]
                  [] it.op = "rice" -> RiceEntry(it.vals, it.k)
                  [] it.op = "block" ->
                       [op |-> "block", todo |-> Len(it.bytes), bytes |-> <<>>]
<1>1. call = NoCall /\ Len(got) < Len(items) /\ Continues(br, c)
  BY DEF BeginRead
<1>2. call.op = "none" /\ Pos = from /\ Live = br /\ br \in Readers /\ br \in AnyReader
  <2>1. Pos = from /\ call.op = "none"
    BY <1>1, CallIs
  <2>2. Live = br
    BY <2>1 DEF Live
  <2> QED
    BY <2>1, <2>2, GoingIs
<1>3. it \in Items /\ from \in Nat
  BY <1>1, NextIs
<1>4. br' = br /\ call' = c /\ UNCHANGED <<bw, items, phase, stream, fed, got, crcFrom>>
  BY <1>1 DEF Continues
<1>5. it' = it /\ from' = from /\ (Len(got) < Len(items))'
  BY <1>1, <1>4
<1> HIDE DEF it, from
<1>6. ASSUME Live' = br PROVE Pos' = from /\ Live' \in Readers /\ Moves(Live', Live, Consumed(Live'))
  <2>1. Pos' = Base + Consumed(br)
    BY <1>2, <1>4, <1>6, LoadedGoesOn, GoingIs
  <2>2. Pos = Base + Consumed(br)
    BY <1>2, Placed, GoingIs
  <2> QED
    BY <1>2, <1>6, <2>1, <2>2, MovesNot
<1>7. ASSUME Live' = br, Progress' PROVE ReaderInv'
  BY <1>1, <1>2, <1>6, <1>7, ItemContinues
<1>8. CASE it.op = "raw"
  <2>1. c = [op |-> "raw", n |-> Len(it.bits)]
    BY <1>8
  <2> HIDE DEF c
  <2>2. Live' = br
    BY <1>4, <2>1 DEF Live
  <2>3. RawDone(it, from)'
    BY <1>4, <1>5, <1>6, <1>8, <2>1, <2>2 DEF RawDone
  <2>4. Progress'
    BY <1>5, <2>3 DEF Progress, it, from
  <2> QED
    BY <1>7, <2>2, <2>4
<1>9. CASE it.op = "unary"
  <2>1. c = [op |-> "unary", zeros |-> 0]
    BY <1>9
  <2> HIDE DEF c
  <2>2. Live' = br
    BY <1>4, <2>1 DEF Live
  <2>3. it.n \in Nat
    BY <1>3, <1>9, ItemIs
  <2>4. UnaryDone(it, from)'
    <3>1. Pos' = from + 0
      BY <1>3, <1>6, <2>2
    <3> QED
      BY <1>4, <1>5, <1>9, <2>1, <2>3, <3>1 DEF UnaryDone
  <2>5. Progress'
    BY <1>5, <2>4 DEF Progress, it, from
  <2> QED
    BY <1>7, <2>2, <2>5
<1>10. CASE it.op = "rice"
  <2> DEFINE fast == ~(it.k = 0 \/ br.consumedWords >= CompleteWords(br))
             n == Len(it.vals)
             uc == BitsPerWord - br.consumedBits
  <2>1. c = [op |-> "rice", k |-> it.k, todo |-> n, vals |-> <<>>,
             at |-> IF it.k = 0 \/ br.consumedWords >= CompleteWords(br)
                    THEN "msbs" ELSE "fast",
             msbs |-> 0, lsbs |-> <<>>, cw |-> br.consumedWords, uc |-> uc]
    BY <1>10 DEF RiceEntry
  <2>2. it.vals \in Seq(Int) /\ it.vals # <<>> /\ it.k \in Nat /\ it.k <= BitsPerWord - 2
    BY <1>3, <1>10, ItemIs
  <2>3. n \in Nat \ {0} /\ SubSeq(it.vals, 1, 0) = <<>>
    BY <2>2
  <2>4. /\ br.consumedWords \in Nat /\ uc \in 0..BitsPerWord /\ BitsPerWord - uc = br.consumedBits
        /\ CompleteWords(br) \in Nat
    <3>1. br.consumedBits \in 0..BitsPerWord /\ BitsPerWord \in Nat
      BY <1>2, ReaderIs, WordWidth
    <3>2. uc \in 0..BitsPerWord /\ BitsPerWord - uc = br.consumedBits
      BY <3>1
    <3>3. br.consumedWords \in Nat /\ CompleteWords(br) \in Nat
      BY <1>2, ReaderIs, CompleteIs
    <3> QED
      BY <3>2, <3>3
  <2> HIDE DEF c, n, uc
  <2>5. /\ c.op = "rice" /\ c.k = it.k /\ c.todo = n /\ c.vals = <<>>
        /\ c.at = IF fast THEN "fast" ELSE "msbs"
        /\ c.msbs = 0 /\ c.lsbs = <<>> /\ c.cw = br.consumedWords /\ c.uc = uc
    BY <2>1
  <2>6. c \in RiceCalls
    <3>1. <<>> \in Seq(Int) /\ <<>> \in Seq(Bit) /\ n \in Nat /\ 0 \in Nat
      BY <2>3
    <3>2. (IF it.k = 0 \/ br.consumedWords >= CompleteWords(br) THEN "msbs" ELSE "fast")
             \in {"fast", "msbs", "lsbs"}
      OBVIOUS
    <3> HIDE DEF fast
    <3> QED
      BY <2>1, <2>2, <2>4, <3>1, <3>2 DEF RiceCalls
  <2>7. Live' = br
    <3>1. CASE fast
      <4> DEFINE x == InRegisters(br, c)
      <4>1. Live' = InRegisters(br', call')
        BY <1>4, <2>5, <3>1 DEF Live
      <4>2. /\ x \in AnyReader /\ x.data = br.data /\ x.crc = br.crc
            /\ x.crcAlign = br.crcAlign
            /\ x.consumedWords = c.cw /\ x.consumedBits = BitsPerWord - c.uc
        BY <1>2, <2>4, <2>5, RegistersAre
      <4> HIDE DEF x
      <4>3. x.consumedWords = br.consumedWords /\ x.consumedBits = br.consumedBits
        BY <2>4, <2>5, <4>2
      <4>4. x = br
        <5>1. \A y \in AnyReader :
                 y = [data |-> y.data, consumedWords |-> y.consumedWords,
                      consumedBits |-> y.consumedBits, crc |-> y.crc,
                      crcAlign |-> y.crcAlign]
          BY DEF AnyReader
        <5> QED
          BY <1>2, <4>2, <4>3, <5>1
      <4> QED
        BY <1>4, <4>1, <4>4 DEF x
    <3>2. CASE ~fast
      BY <1>4, <2>5, <3>2 DEF Live
    <3> QED
      BY <3>1, <3>2
  <2>8. Pos' = from
    BY <1>6, <2>7
  <2>9. RiceDone(it, from)'
    <3>1. Len(Joined(RiceCodes(it), 0)) = 0
      BY NothingJoined
    <3>2. it.vals[0 + 1] \in Int /\ Fold(it.vals[0 + 1]) \in Nat
      <4>1. 1 \in 1..Len(it.vals)
        BY <2>3 DEF n
      <4>2. it.vals[1] \in Int
        BY <2>2, <4>1
      <4> QED
        BY <4>2, FoldIs
    <3>3. Fold(it.vals[0 + 1]) \div 2^it.k \in Nat
      <4>1. it.k \in 0..BitsPerWord
        BY <2>2, WordWidth
      <4> QED
        BY <3>2, <4>1, BinaryIs
    <3>4. /\ call' = c /\ Len(call'.vals) = 0
      BY <1>4, <2>5
    <3>5. from + 0 = from
      BY <1>3
    <3> DEFINE m == Fold(it.vals[0 + 1]) \div 2^it.k
               at == from + Len(Joined(RiceCodes(it), 0))
    <3>6. at = from /\ m \in Nat /\ 0 <= m /\ at + 0 = at
      BY <3>1, <3>3, <3>5
    <3> HIDE DEF m, at
    <3>7. \/ /\ c.at = "fast" /\ c.cw < CompleteWords(br)
             /\ c.msbs = 0 /\ c.lsbs = <<>>
             /\ Pos' = at
          \/ /\ c.at = "msbs"
             /\ c.msbs <= m /\ c.lsbs = <<>>
             /\ Pos' = at + c.msbs
      BY <2>4, <2>5, <2>8, <3>6
    <3>8. Len(call'.vals) < Len(it.vals) /\ call'.vals = SubSeq(it.vals, 1, 0)
          /\ call'.todo = Len(it.vals) - 0
      <4>1. 0 < n /\ n - 0 = n
        BY <2>3
      <4>2. call'.vals = <<>> /\ call'.todo = n /\ SubSeq(it.vals, 1, 0) = <<>>
        BY <2>3, <2>5, <3>4
      <4> QED
        BY <3>4, <4>1, <4>2 DEF n
    <3> QED
      BY <1>4, <1>5, <1>10, <2>5, <2>6, <3>4, <3>7, <3>8 DEF RiceDone, m, at, RiceCodes
  <2>10. Progress'
    BY <1>5, <2>9 DEF Progress, it, from
  <2> QED
    BY <1>7, <2>7, <2>10
<1>11. CASE it.op = "block"
  <2>1. c = [op |-> "block", todo |-> Len(it.bytes), bytes |-> <<>>]
    BY <1>11
  <2> HIDE DEF c
  <2>2. Live' = br
    BY <1>4, <2>1 DEF Live
  <2>3. it.bytes \in Seq([1..BitsPerByte -> Bit]) /\ it.bytes # <<>>
    BY <1>3, <1>11, ItemIs
  <2>4. /\ Len(it.bytes) \in Nat \ {0} /\ SubSeq(it.bytes, 1, 0) = <<>>
        /\ <<>> \in Seq([1..BitsPerByte -> Bit])
    BY <2>3
  <2>5. /\ c \in BlockCalls /\ c.todo = Len(it.bytes) /\ c.bytes = <<>> /\ Len(c.bytes) = 0
    BY <2>1, <2>4 DEF BlockCalls
  <2>6. BlockDone(it, from)'
    <3>1. Pos' = from + 0
      BY <1>3, <1>6, <2>2
    <3>2. Len(Joined(it.bytes, 0)) = 0
      BY NothingJoined
    <3>3. Len(it.bytes) - 0 = Len(it.bytes) /\ 0 < Len(it.bytes)
      BY <2>4
    <3> QED
      BY <1>4, <1>5, <1>11, <2>4, <2>5, <3>1, <3>2, <3>3 DEF BlockDone
  <2>7. Progress'
    BY <1>5, <2>6 DEF Progress, it, from
  <2> QED
    BY <1>7, <2>2, <2>7
<1>12. it.op \in {"raw", "unary", "rice", "block"}
  BY <1>3 DEF Items
<1> HIDE DEF c
<1> QED
  BY <1>8, <1>9, <1>10, <1>11, <1>12

(* The bytes that are still needed move to the front of the buffer, and    *)
(* what the client brings goes behind them.                                *)
LEMMA Refilled ==
    ASSUME Loaded, BufferBits(bw) \in Bits, Live = br, NEW to \in Nat,
           fed <= to, to <= Len(stream), UNCHANGED <<bw, stream>>,
           br' = Refill(br, SubSeq(stream, fed + 1, to)), fed' = to, Live' = br'
    PROVE  /\ Loaded' /\ Pos' = Pos
           /\ Base' + CrcPlace(br') = Base + CrcPlace(br)
           /\ br'.crc = br.crc /\ br'.crcAlign = br.crcAlign
           /\ br'.consumedBits = br.consumedBits
<1> DEFINE W == BitsPerWord
           m == br.consumedWords * W
           n == Len(br.data)
           new == SubSeq(stream, fed + 1, to)
           old == SubSeq(br.data, m + 1, Len(br.data))
           d == old \o new
           b == br.consumedBits
           e == br.crcAlign
<1>1. /\ br \in Readers /\ Base \in Nat /\ Base + n = fed /\ n \in Nat
      /\ stream \in Bits /\ fed <= Len(stream) /\ Len(stream) \in Nat /\ fed \in Nat
      /\ Pos = Base + Consumed(br)
  BY Placed
<1>2. /\ br \in AnyReader /\ br.data \in Bits /\ m \in Nat /\ b \in Nat /\ b \in 0..W
      /\ Consumed(br) = m + b /\ Consumed(br) \in 0..n
      /\ CrcPlace(br) = m + e /\ e \in Nat
  BY <1>1, ReaderIs
<1> HIDE DEF m, n, b, e
<1>3. m <= n
  BY <1>1, <1>2
<1>4. old = SubSeq(stream, (Base + m) + 1, fed)
  <2>1. n <= Len(br.data) /\ n = Len(br.data)
    BY <1>1 DEF n
  <2>2. SubSeq(br.data, m + 1, n) = SubSeq(stream, (Base + m) + 1, Base + n)
    BY <1>1, <1>2, <1>3, <2>1, DataPiece
  <2> QED
    BY <1>1, <2>1, <2>2
<1>5. /\ Base + m \in Nat /\ Base + m <= fed /\ fed <= to
      /\ to - (Base + m) \in Nat
  BY <1>1, <1>2, <1>3
<1>6. d = SubSeq(stream, (Base + m) + 1, to)
  <2> DEFINE u == Base + m
  <2> HIDE DEF u
  <2>1. u \in Nat /\ u <= fed /\ old = SubSeq(stream, u + 1, fed)
    BY <1>4, <1>5 DEF u
  <2>2. SubSeq(stream, u + 1, fed) \o SubSeq(stream, fed + 1, to) = SubSeq(stream, u + 1, to)
    BY <1>1, <2>1, PiecesJoin
  <2> QED
    BY <2>1, <2>2 DEF u
<1>7. d \in Bits /\ Len(d) = to - (Base + m)
  <2> DEFINE u == Base + m
  <2> HIDE DEF u, d
  <2>1. u \in Nat /\ u <= to /\ d = SubSeq(stream, u + 1, to)
    BY <1>1, <1>5, <1>6 DEF u
  <2>2. d \in Bits /\ Len(d) = to - u
    BY <1>1, <2>1, PieceIs
  <2> QED
    BY <2>2 DEF u
<1>8. br' = [br EXCEPT !.data = d, !.consumedWords = 0]
  BY DEF Refill, m
<1> HIDE DEF d, old, new
<1>9. /\ br' \in AnyReader /\ br'.data = d /\ br'.consumedWords = 0
      /\ br'.consumedBits = b /\ br'.crc = br.crc /\ br'.crcAlign = e
  <2> DEFINE x == [br EXCEPT !.data = d, !.consumedWords = 0]
  <2>1. d \in Seq(Bit)
    BY <1>7 DEF Bits
  <2>2. /\ x \in AnyReader /\ x.data = d /\ x.consumedWords = 0
        /\ x.consumedBits = br.consumedBits /\ x.crc = br.crc
        /\ x.crcAlign = br.crcAlign
    BY <1>2, <2>1 DEF AnyReader
  <2> HIDE DEF x
  <2>3. br' = x
    BY <1>8 DEF x
  <2> QED
    BY <2>2, <2>3 DEF b, e
<1>10. Consumed(br') = b /\ CrcPlace(br') = e
  <2>1. 0 * BitsPerWord = 0
    BY WordWidth
  <2> QED
    BY <1>2, <1>9, <2>1 DEF Consumed, CrcPlace
<1>11. Base' = Base + m
  <2>1. Base' = fed' - Len(br'.data)
    BY DEF Base
  <2> QED
    BY <1>1, <1>2, <1>5, <1>7, <1>9, <2>1
<1>12. br' \in Readers
  <2>1. b <= Len(d)
    BY <1>1, <1>2, <1>5, <1>7
  <2> QED
    BY <1>9, <1>10, <2>1 DEF Readers
<1>13. Loaded'
  <2>1. br'.data = SubSeq(stream, Base' + 1, to)
    BY <1>6, <1>9, <1>11
  <2>2. Len(br'.data) <= to /\ to \in 0..Len(stream)
    BY <1>1, <1>5, <1>7, <1>9
  <2>3. /\ stream \in Seq(Bit) /\ Len(stream) <= Len(BufferBits(bw))
        /\ stream = SubSeq(BufferBits(bw), 1, Len(stream))
    BY DEF Loaded
  <2> QED
    BY <1>9, <1>12, <2>1, <2>2, <2>3 DEF Loaded
<1>14. Pos' = Base' + Consumed(Live')
  BY DEF Pos
<1>15. Pos' = Pos
  BY <1>1, <1>2, <1>10, <1>11, <1>14
<1>16. Base' + CrcPlace(br') = Base + CrcPlace(br)
  BY <1>1, <1>2, <1>10, <1>11
<1> QED
  BY <1>9, <1>13, <1>15, <1>16 DEF b, e

(* What the client hands out is there, and there is room for it.           *)
LEMMA FetchWithin ==
    ASSUME Going, Live = br,
           NEW n \in 1..Least(Room(br), (Len(stream) - fed) \div BitsPerByte)
    PROVE  /\ n \in Nat /\ n <= Room(br) /\ Room(br) \in Int
           /\ LET to == fed + n * BitsPerByte
              IN  to \in Nat /\ fed <= to /\ to <= Len(stream)
<1> DEFINE B == BitsPerByte
           h == (Len(stream) - fed) \div B
           to == fed + n * B
           k == Len(stream) - fed
<1>1. /\ stream \in Bits /\ fed <= Len(stream) /\ Len(stream) \in Nat /\ fed \in Nat
  BY Placed, GoingIs
<1>2. k \in Nat /\ B \in Nat \ {0}
  BY <1>1, ByteWidth
<1>3. h \in Nat /\ k % B \in 0..(B - 1) /\ k = h * B + (k % B)
  <2> HIDE DEF k
  <2>1. k \div B \in Nat /\ k % B \in 0..(B - 1) /\ k = (k \div B) * B + (k % B)
    BY <1>2, QuotientRest
  <2>2. h = k \div B
    BY DEF k
  <2> HIDE DEF h
  <2> QED
    BY <2>1, <2>2
<1>4. Room(br) \in Int
  <2>1. /\ CompleteWords(br) \in Nat /\ br.consumedWords \in Nat
        /\ Len(br.data) \in Nat
    BY GoingIs, CompleteIs, ReaderIs
  <2>2. TailBytes(br) \in Int
    <3>1. BitsPerWord \in Nat /\ BitsPerWord >= 4
      BY WordWidth
    <3> DEFINE y == Len(br.data) % BitsPerWord
    <3>2. y \in 0..(BitsPerWord - 1)
      BY GoingIs, CompleteIs
    <3> HIDE DEF y
    <3>3. y \div BitsPerByte \in Int
      BY <1>2, <3>1, <3>2
    <3> QED
      BY <3>3 DEF TailBytes, y
  <2>3. \A x \in Int, y \in Nat : x * y \in Int
    OBVIOUS
  <2>4. ReaderCapacity - (CompleteWords(br) - br.consumedWords) \in Int
        /\ BytesPerWord \in Nat
    BY <2>1, ReaderAssumption, ByteWidth
  <2>5. (ReaderCapacity - (CompleteWords(br) - br.consumedWords)) * BytesPerWord \in Int
    BY <2>3, <2>4
  <2> QED
    BY <2>2, <2>5 DEF Room
<1>5. n \in Nat /\ n <= h /\ n <= Room(br)
  <2>1. n \in 1..Least(Room(br), h)
    OBVIOUS
  <2> HIDE DEF h
  <2>2. (Least(Room(br), h) = Room(br) /\ Room(br) < h) \/ (Least(Room(br), h) = h /\ ~(Room(br) < h))
    BY DEF Least
  <2>3. Least(Room(br), h) \in Int
    BY <1>3, <1>4, <2>2
  <2> QED
    BY <1>3, <1>4, <2>1, <2>2, <2>3
<1>6. n * B <= h * B /\ n * B \in Nat
  <2>1. \A e, f, g \in Nat : e <= f => e * g <= f * g /\ e * g \in Nat
    OBVIOUS
  <2> HIDE DEF h
  <2> QED
    BY <1>2, <1>3, <1>5, <2>1
<1>7. h * B \in Nat
  <2> HIDE DEF h
  <2> QED
    BY <1>2, <1>3
<1> DEFINE x == n * B
           y == h * B
           z == k % B
<1>8. /\ x \in Nat /\ y \in Nat /\ z \in Nat /\ x <= y /\ k = y + z
  <2> HIDE DEF h, k
  <2> QED
    BY <1>2, <1>3, <1>6, <1>7
<1>9. k = Len(stream) - fed /\ to = fed + x
  OBVIOUS
<1> HIDE DEF x, y, z, k, to
<1>10. to \in Nat /\ fed <= to /\ to <= Len(stream)
  BY <1>1, <1>8, <1>9
<1> QED
  BY <1>4, <1>5, <1>10 DEF to

LEMMA Fetches ==
    ASSUME Going, Fetch
    PROVE  ReaderInv'
<1> DEFINE it == items[Len(got) + 1]
           from == Len(Codes(got))
<1>1. /\ call.op # "none" /\ ~(call.op = "rice" /\ call.at = "fast")
      /\ UNCHANGED <<bw, items, phase, stream, call, got, crcFrom>>
  BY DEF Fetch, NeedsClient
<1>2. Live = br /\ Live' = br'
  BY <1>1 DEF Live
<1>3. /\ Loaded /\ Checked /\ BufferBits(bw) \in Bits /\ crcFrom \in Int
      /\ got \in Seq(Items) /\ got = SubSeq(items, 1, Len(got)) /\ Len(got) <= Len(items)
  BY GoingIs DEF Going, ReaderInv
<1>4. /\ stream \in Bits /\ fed <= Len(stream) /\ Len(stream) \in Nat /\ fed \in Nat
  BY <1>3, Placed
<1>5. PICK n \in 1..Least(Room(br), (Len(stream) - fed) \div BitsPerByte) :
         /\ br' = Refill(br, SubSeq(stream, fed + 1, fed + n * BitsPerByte))
         /\ fed' = fed + n * BitsPerByte
  BY DEF Fetch
<1> DEFINE to == fed + n * BitsPerByte
<1>6. to \in Nat /\ fed <= to /\ to <= Len(stream)
  BY <1>2, FetchWithin
<1>7. br' = Refill(br, SubSeq(stream, fed + 1, to)) /\ fed' = to
  BY <1>5
<1> HIDE DEF to
<1>8. /\ Loaded' /\ Pos' = Pos
      /\ Base' + CrcPlace(br') = Base + CrcPlace(br)
      /\ br'.crc = br.crc /\ br'.crcAlign = br.crcAlign
      /\ br'.consumedBits = br.consumedBits
  BY <1>1, <1>2, <1>3, <1>6, <1>7, Refilled
<1>9. Checked'
  <2>1. Counted' = Counted
    BY <1>1 DEF Counted
  <2>2. CrcUpTo => CrcUpTo'
    BY <1>1, <1>2, <1>8 DEF CrcUpTo
  <2> QED
    BY <1>3, <2>1, <2>2 DEF Checked
<1>10. Progress'
  <2>1. call # NoCall
    BY <1>1 DEF NoCall
  <2>2. Len(got) < Len(items)
    BY <2>1, CallIs
  <2>3. RawDone(it, from) \/ UnaryDone(it, from) \/ RiceDone(it, from) \/ BlockDone(it, from)
    BY <2>1, GoingIs DEF Progress
  <2>4. it' = it /\ from' = from /\ (Len(got) < Len(items))'
    BY <1>1, <2>2
  <2> HIDE DEF it, from
  <2>5. RawDone(it, from) => RawDone(it, from)'
    BY <1>1, <1>8, <2>4 DEF RawDone
  <2>6. UnaryDone(it, from) => UnaryDone(it, from)'
    BY <1>1, <1>8, <2>4 DEF UnaryDone
  <2>7. BlockDone(it, from) => BlockDone(it, from)'
    BY <1>1, <1>8, <2>4 DEF BlockDone
  <2>8. RiceDone(it, from) => RiceDone(it, from)'
    <3>1. RiceDone(it, from) => call.op = "rice"
      BY DEF RiceDone, RiceCalls
    <3> QED
      BY <1>1, <1>8, <2>4, <3>1 DEF RiceDone, RiceCodes
  <2> QED
    BY <2>3, <2>4, <2>5, <2>6, <2>7, <2>8 DEF Progress, it, from
<1> QED
  BY <1>1, <1>3, <1>8, <1>9, <1>10, StepCloses

LEMMA FetchesNot ==
    ASSUME Going, FetchFails
    PROVE  ReaderInv'
<1>1. phase' = "failed" /\ UNCHANGED <<bw, items, stream, fed, br, call, got, crcFrom>>
  BY DEF FetchFails
<1>2. Loaded /\ Progress /\ Checked
  BY GoingIs
<1>3. Live' = Live
  BY <1>1 DEF Live
<1>4. Base' = Base
  BY <1>1 DEF Base
<1>5. Pos' = Pos
  BY <1>3, <1>4 DEF Pos
<1>6. Loaded'
  BY <1>1, <1>2, <1>3, <1>4 DEF Loaded
<1>7. Checked'
  BY <1>1, <1>2, <1>3, <1>4 DEF Checked, Counted, CrcUpTo
<1>8. Progress'
  BY <1>1, <1>2, <1>5 DEF Progress, RawDone, UnaryDone, RiceDone, BlockDone
<1> QED
  BY <1>1, <1>6, <1>7, <1>8 DEF Going, ReaderInv

(* The CRC of the rest of the current word.                                *)
LEMMA CrcReadMoves ==
    ASSUME NEW r \in Readers
    PROVE  /\ CrcRead(r) \in AnyReader
           /\ Moves(CrcRead(r), r, Consumed(r))
           /\ r.crcAlign <= r.consumedBits =>
                 /\ CrcPlace(CrcRead(r)) = Consumed(r)
                 /\ CrcPlace(r) <= Consumed(r)
<1> DEFINE q == CrcRead(r)
           b == r.consumedBits
           e == r.crcAlign
           m == r.consumedWords * BitsPerWord
           over == SubSeq(r.data, CrcPlace(r) + 1, Consumed(r))
<1>1. /\ r \in AnyReader /\ m \in Nat /\ b \in Nat /\ e \in Nat /\ b \in 0..BitsPerWord
      /\ Consumed(r) = m + b /\ CrcPlace(r) = m + e /\ r.crc \in Bits /\ r.data \in Bits
      /\ Consumed(r) \in 0..Len(r.data) /\ Len(r.data) \in Nat
  BY ReaderIs
<1>2. CASE b = 0 \/ e >= b
  <2>1. q = r
    BY <1>2 DEF CrcRead
  <2>2. e <= b => CrcPlace(r) = Consumed(r)
    <3> HIDE DEF b, e, m
    <3>1. e <= b => e = b
      BY <1>1, <1>2
    <3> QED
      BY <1>1, <3>1
  <2>3. e <= b => CrcPlace(r) <= Consumed(r)
    <3>1. Consumed(r) \in Nat
      BY <1>1
    <3> QED
      BY <2>2, <3>1
  <2> HIDE DEF q
  <2> QED
    BY <1>1, <2>1, <2>2, <2>3, MovesNot DEF q
<1>3. CASE ~(b = 0 \/ e >= b)
  <2>1. e < b
    <3> HIDE DEF b, e
    <3> QED
      BY <1>1, <1>3
  <2>2. q = [r EXCEPT !.crc = r.crc \o over, !.crcAlign = b]
    BY <1>3 DEF CrcRead, CrcPlace
  <2>3. CrcPlace(r) <= Consumed(r) /\ CrcPlace(r) \in Nat /\ Consumed(r) \in Nat
        /\ Consumed(r) <= Len(r.data)
    <3> HIDE DEF b, e, m
    <3> QED
      BY <1>1, <2>1
  <2>4. over \in Bits
    BY <1>1, <2>3, PieceIs
  <2> DEFINE c == r.crc \o over
  <2>5. c \in Bits
    <3> HIDE DEF over
    <3> QED
      BY <1>1, <2>4, Joining
  <2> HIDE DEF c, over
  <2>6. q = [r EXCEPT !.crc = c, !.crcAlign = b]
    BY <2>2 DEF c
  <2> HIDE DEF q, b, m, e
  <2>7. /\ q \in AnyReader /\ q.data = r.data /\ q.consumedWords = r.consumedWords
        /\ q.consumedBits = b /\ q.crc = c /\ q.crcAlign = b
    BY <1>1, <2>5, <2>6 DEF AnyReader, Bits, b
  <2>8. Consumed(q) = Consumed(r) /\ CrcPlace(q) = Consumed(r)
    BY <1>1, <2>7 DEF Consumed, CrcPlace, m, b
  <2>9. q \in Readers
    BY <2>3, <2>7, <2>8 DEF Readers
  <2>10. q.crcAlign <= q.consumedBits
    BY <1>1, <2>7
  <2> QED
    BY <2>3, <2>7, <2>8, <2>9, <2>10 DEF Moves, q, c, over
<1> QED
  BY <1>2, <1>3

LEMMA CrcGets ==
    ASSUME Going, GetCrc
    PROVE  ReaderInv'
<1>1. call = NoCall /\ Continues(CrcRead(br), call)
  BY DEF GetCrc, Continues
<1>2. call.op = "none" /\ Pos = Len(Codes(got)) /\ Live = br /\ br \in Readers
  <2>1. Pos = Len(Codes(got)) /\ call.op = "none"
    BY <1>1, CallIs
  <2>2. Live = br
    BY <2>1 DEF Live
  <2> QED
    BY <2>1, <2>2, GoingIs
<1> DEFINE q == CrcRead(br)
<1>3. q \in AnyReader /\ Moves(q, br, Consumed(br))
  BY <1>2, CrcReadMoves
<1> HIDE DEF q
<1>4. q \in Readers /\ q.data = br.data /\ Consumed(q) = Consumed(br)
  BY <1>3 DEF Moves
<1>5. br' = q /\ call' = call /\ UNCHANGED <<bw, items, phase, stream, fed, got, crcFrom>>
  BY <1>1 DEF Continues, q
<1>6. Live' = q
  BY <1>2, <1>5 DEF Live
<1>7. Pos' = Base + Consumed(q) /\ Pos = Base + Consumed(br)
  BY <1>2, <1>3, <1>4, <1>5, <1>6, LoadedGoesOn, Placed, GoingIs
<1>8. Progress'
  BY <1>1, <1>2, <1>4, <1>5, <1>7 DEF Progress
<1>9. Continues(q, call)
  BY <1>1 DEF q
<1>10. Moves(Live', Live, Consumed(Live')) /\ Live' \in Readers /\ call.op # "block"
  BY <1>2, <1>3, <1>4, <1>6
<1> QED
  BY <1>3, <1>4, <1>8, <1>9, <1>10, ItemContinues

LEMMA CrcResets ==
    ASSUME Going, ResetCrc
    PROVE  ReaderInv'
<1> DEFINE from == Len(Codes(got))
           q == CrcReset(br)
<1>1. /\ call = NoCall /\ crcFrom' = from /\ br' = q
      /\ UNCHANGED <<bw, items, phase, stream, fed, call, got>>
  BY DEF ResetCrc
<1>2. call.op = "none" /\ Pos = from /\ Live = br /\ br \in Readers /\ br \in AnyReader
  <2>1. Pos = from /\ call.op = "none"
    BY <1>1, CallIs
  <2>2. Live = br
    BY <2>1 DEF Live
  <2> QED
    BY <2>1, <2>2, GoingIs
<1>3. /\ Pos \in Nat /\ Pos = Base + Consumed(br) /\ Pos <= fed /\ fed \in Nat
      /\ fed <= Len(stream) /\ Len(stream) \in Nat /\ stream \in Bits
  BY <1>2, GoingIs, Placed
<1>4. br.consumedBits \in Nat /\ br.consumedBits \in 0..BitsPerWord /\ <<>> \in Seq(Bit)
  BY <1>2, ReaderIs
<1>5. q = [br EXCEPT !.crc = <<>>, !.crcAlign = br.consumedBits]
  BY DEF CrcReset
<1> HIDE DEF q, from
<1>6. /\ q \in AnyReader /\ q.data = br.data /\ q.consumedWords = br.consumedWords
      /\ q.consumedBits = br.consumedBits /\ q.crc = <<>> /\ q.crcAlign = br.consumedBits
  BY <1>2, <1>4, <1>5 DEF AnyReader
<1>7. Consumed(q) = Consumed(br) /\ CrcPlace(q) = Consumed(br)
  BY <1>6 DEF Consumed, CrcPlace
<1>8. q \in Readers
  BY <1>2, <1>6, <1>7, ReaderIs DEF Readers
<1>9. Live' = q
  BY <1>1, <1>2 DEF Live
<1>10. Loaded' /\ Base' = Base /\ Pos' = Base + Consumed(q)
  BY <1>1, <1>6, <1>8, <1>9, LoadedGoesOn, GoingIs
<1>11. Progress'
  BY <1>1, <1>2, <1>3, <1>7, <1>10 DEF Progress, from
<1>12. Checked'
  <2>1. SubSeq(stream, Pos + 1, Pos) = <<>>
    BY <1>3 DEF Bits
  <2>2. Base' + CrcPlace(Live') = Pos /\ crcFrom' = Pos /\ br'.crc = <<>>
        /\ Live'.crcAlign <= Live'.consumedBits
    BY <1>1, <1>2, <1>3, <1>4, <1>6, <1>7, <1>9, <1>10
  <2>3. CrcUpTo'
    BY <1>1, <1>3, <2>1, <2>2 DEF CrcUpTo
  <2> QED
    BY <2>3 DEF Checked
<1>13. crcFrom' \in Int /\ crcFrom' >= -1
  BY <1>1, <1>2, <1>3
<1> QED
  BY <1>1, <1>10, <1>11, <1>12, <1>13 DEF Going, ReaderInv

-----------------------------------------------------------------------------
(* Blocks of Rice codes: the item that is read, the value of it that is    *)
(* read next, the two parts of the value's code, and the place of the code *)
(* in the stream.                                                          *)
RiceItem == items[Len(got) + 1]

RiceVal == RiceItem.vals[Len(call.vals) + 1]

RiceZeroes == Fold(RiceVal) \div 2^call.k

RiceBits == Binary(Fold(RiceVal), call.k)

RiceAt == Len(Codes(got)) + Len(Joined(RiceCodes(RiceItem), Len(call.vals)))

RicePlaces ==
    \/ /\ call.at = "fast" /\ call.cw < CompleteWords(br)
       /\ call.msbs = 0 /\ call.lsbs = <<>>
       /\ Pos = RiceAt
    \/ /\ call.at = "msbs"
       /\ call.msbs <= RiceZeroes /\ call.lsbs = <<>>
       /\ Pos = RiceAt + call.msbs
    \/ /\ call.at = "lsbs"
       /\ call.msbs = RiceZeroes
       /\ Len(call.lsbs) <= call.k
       /\ call.lsbs = SubSeq(RiceBits, 1, Len(call.lsbs))
       /\ Pos = RiceAt + call.msbs + 1 + Len(call.lsbs)

LEMMA RiceIs ==
    ASSUME Going, call.op = "rice"
    PROVE  /\ Len(got) < Len(items) /\ RiceItem \in Items /\ RiceItem.op = "rice"
           /\ RiceItem.vals \in Seq(Int)
           /\ call \in RiceCalls /\ call.k = RiceItem.k
           /\ call.k \in Nat /\ call.k <= BitsPerWord - 2
           /\ Len(call.vals) \in Nat /\ Len(call.vals) < Len(RiceItem.vals)
           /\ call.vals = SubSeq(RiceItem.vals, 1, Len(call.vals))
           /\ call.todo = Len(RiceItem.vals) - Len(call.vals)
           /\ RicePlaces
<1>1. call # NoCall
  BY DEF NoCall
<1>2. Len(got) < Len(items) /\ RiceItem \in Items /\ RiceDone(RiceItem, Len(Codes(got)))
  BY <1>1, CallIs DEF RiceItem
<1>3. /\ RiceItem.op = "rice" /\ call \in RiceCalls /\ call.k = RiceItem.k
      /\ Len(call.vals) < Len(RiceItem.vals)
      /\ call.vals = SubSeq(RiceItem.vals, 1, Len(call.vals))
      /\ call.todo = Len(RiceItem.vals) - Len(call.vals)
      /\ RicePlaces
  BY <1>2 DEF RiceDone, RicePlaces, RiceAt, RiceVal, RiceZeroes, RiceBits
<1>4. RiceItem.vals \in Seq(Int) /\ RiceItem.k \in Nat /\ RiceItem.k <= BitsPerWord - 2
  BY <1>2, <1>3, ItemIs
<1>5. Len(call.vals) \in Nat
  BY <1>3 DEF RiceCalls
<1> QED
  BY <1>2, <1>3, <1>4, <1>5

LEMMA RiceCodeThere ==
    ASSUME Going, call.op = "rice"
    PROVE  /\ RiceVal \in Int /\ RiceZeroes \in Nat /\ RiceAt \in Nat
           /\ RiceBits \in Bits /\ Len(RiceBits) = call.k
           /\ There(BufferBits(bw), RiceAt, Append(Zeroes(RiceZeroes), 1))
           /\ There(BufferBits(bw), RiceAt + (RiceZeroes + 1), RiceBits)
           /\ Len(Joined(RiceCodes(RiceItem), Len(call.vals) + 1))
                 = Len(Joined(RiceCodes(RiceItem), Len(call.vals)))
                      + (RiceZeroes + 1 + call.k)
           /\ Unfold(RiceZeroes * 2^call.k + Number(RiceBits)) = RiceVal
<1> DEFINE vs == RiceItem.vals
           k == call.k
           n == Len(vs)
           j == Len(call.vals)
           f == RiceCodes(RiceItem)
           u == Fold(RiceVal)
           m == RiceZeroes
           code == RiceCode(RiceVal, k)
           one == Append(Zeroes(m), 1)
           from == Len(Codes(got))
           U == BufferBits(bw)
<1>1. /\ RiceItem \in Items /\ RiceItem.op = "rice" /\ vs \in Seq(Int)
      /\ k = RiceItem.k /\ k \in Nat /\ k <= BitsPerWord - 2
      /\ j \in Nat /\ j < n /\ Len(got) < Len(items)
  BY RiceIs
<1>2. k \in 0..BitsPerWord
  BY <1>1, WordWidth
<1>3. n \in Nat /\ j + 1 \in 1..n /\ (j + 1) - 1 = j
  <2>1. n \in Nat
    BY <1>1
  <2> HIDE DEF n, j
  <2> QED
    BY <1>1, <2>1
<1>4. ASSUME NEW i \in 1..n
      PROVE  f[i] = RiceCode(vs[i], k) /\ f[i] \in Bits
  <2>1. i \in DOMAIN vs /\ vs[i] \in Int
    BY <1>1
  <2>2. f[i] = RiceCode(vs[i], k)
    BY <1>1, <2>1 DEF RiceCodes
  <2>3. RiceCode(vs[i], k) \in Bits
    <3> HIDE DEF k, vs
    <3> QED
      BY <1>1, <2>1, RiceCodeIs
  <2> QED
    BY <2>2, <2>3
<1>5. RiceVal \in Int
  BY <1>1, <1>3 DEF RiceVal
<1>6. u \in Nat /\ Unfold(u) = RiceVal
  BY <1>5, Unfolded
<1>7. /\ m \in Nat /\ Zeroes(m) \in Bits /\ Len(Zeroes(m)) = m
      /\ RiceBits \in Bits /\ Len(RiceBits) = k
      /\ m * 2^k + Number(RiceBits) = u
  <2>1. RiceBits \in Bits /\ Len(RiceBits) = k /\ m \in Nat
    BY <1>2, <1>6, BinaryIs DEF RiceBits, RiceZeroes
  <2>2. m * 2^k + Number(RiceBits) = u
    BY <1>2, <1>6, NumberOfBinary DEF RiceBits, RiceZeroes
  <2> HIDE DEF m
  <2> QED
    BY <2>1, <2>2, ZeroesAre
<1>8. code = one \o RiceBits
  BY DEF RiceCode, RiceZeroes, RiceBits
<1>9. one \in Bits /\ Len(one) = m + 1
  <2>1. 1 \in Bit /\ Zeroes(m) \in Seq(Bit)
    BY <1>7 DEF Bit, Bits
  <2> QED
    BY <1>7, <2>1, AppendProperties DEF Bits
<1> HIDE DEF one, code, f, m
<1>10. code \in Bits /\ Len(code) = (m + 1) + k
       /\ There(code, 0, one) /\ There(code, m + 1, RiceBits)
  <2> DEFINE lsbs == RiceBits
  <2>1. lsbs \in Bits /\ Len(lsbs) = k
    BY <1>7
  <2>2. code = one \o lsbs
    BY <1>8
  <2> HIDE DEF lsbs
  <2>3. one \o lsbs \in Bits /\ Len(one \o lsbs) = Len(one) + Len(lsbs)
    BY <1>9, <2>1, Joining
  <2>4. There(one \o lsbs, 0, one) /\ There(one \o lsbs, Len(one), lsbs)
    BY <1>9, <2>1, ThereJoined
  <2> HIDE DEF k
  <2>5. code \in Bits /\ Len(code) = (m + 1) + k
    BY <1>9, <2>1, <2>2, <2>3
  <2>6. There(code, 0, one) /\ There(code, m + 1, lsbs)
    BY <1>9, <2>2, <2>4
  <2> QED
    BY <2>5, <2>6 DEF lsbs
<1>11. f[j + 1] = code
  <2>1. f[j + 1] = RiceCode(vs[j + 1], k)
    <3> HIDE DEF vs, n, j, k
    <3> QED
      BY <1>3, <1>4
  <2> QED
    BY <2>1 DEF code, RiceVal
<1>12. /\ There(Joined(f, n), Len(Joined(f, j)), code)
       /\ Len(Joined(f, j + 1)) = Len(Joined(f, j)) + Len(code)
       /\ Len(Joined(f, j)) \in Nat
  <2> HIDE DEF n, j, vs, k
  <2>1. /\ There(Joined(f, n), Len(Joined(f, (j + 1) - 1)), f[j + 1])
        /\ Len(Joined(f, j + 1)) = Len(Joined(f, (j + 1) - 1)) + Len(f[j + 1])
        /\ Len(Joined(f, (j + 1) - 1)) \in Nat
    BY <1>3, <1>4, JoinedThere
  <2> QED
    BY <1>3, <1>11, <2>1
<1>13. /\ from \in Nat /\ There(U, from, Joined(f, n)) /\ Joined(f, n) \in Bits
       /\ U \in Bits
  <2>1. /\ from \in Nat /\ There(U, from, Code(RiceItem)) /\ Code(RiceItem) \in Bits
    BY <1>1, NextIs DEF RiceItem
  <2>2. Code(RiceItem) = Joined(f, n)
    BY <1>1, ItemIs DEF f
  <2> QED
    BY <2>1, <2>2, GoingIs
<1>14. RiceAt = from + Len(Joined(f, j)) /\ RiceAt \in Nat
  <2>1. RiceAt = from + Len(Joined(f, j))
    BY DEF RiceAt, f
  <2> HIDE DEF from
  <2> QED
    BY <1>12, <1>13, <2>1
<1>15. There(U, RiceAt, code)
  <2> HIDE DEF U, from, j, n
  <2> QED
    BY <1>10, <1>12, <1>13, <1>14, ThereWithin
<1>16. There(U, RiceAt, one) /\ There(U, RiceAt + (m + 1), RiceBits)
  <2> HIDE DEF U
  <2>1. There(U, RiceAt + 0, one)
    BY <1>9, <1>10, <1>13, <1>14, <1>15, ThereWithin
  <2>2. m + 1 \in Nat
    BY <1>7
  <2>3. There(U, RiceAt + (m + 1), RiceBits)
    BY <1>7, <1>10, <1>13, <1>14, <1>15, <2>2, ThereWithin
  <2>4. RiceAt + 0 = RiceAt
    BY <1>14
  <2> QED
    BY <2>1, <2>3, <2>4
<1>17. Len(Joined(f, j + 1)) = Len(Joined(f, j)) + (m + 1 + k)
  BY <1>10, <1>12
<1> QED
  BY <1>5, <1>6, <1>7, <1>14, <1>16, <1>17 DEF f, m, one

-----------------------------------------------------------------------------
(* A value is read completely.                                             *)
ReaderOf(r, c) == IF c.at = "fast" THEN InRegisters(r, c) ELSE r

LEMMA LiveOf ==
    ASSUME call'.op = "rice", NEW r, NEW c, br' = r, call' = c
    PROVE  Live' = ReaderOf(r, c)
BY DEF Live, ReaderOf

LEMMA RiceValueRead ==
    ASSUME Going, call.op = "rice", NEW r \in AnyReader, r.data = br.data,
           NEW c \in RiceCalls, c.k = call.k, c.todo = call.todo - 1,
           c.vals = Append(call.vals, RiceVal), c.msbs = 0, c.lsbs = <<>>,
           c.at = "fast" \/ c.at = "msbs",
           c.at = "fast" => c.cw < CompleteWords(r),
           Moves(ReaderOf(r, c), Live, Consumed(ReaderOf(r, c))),
           Base + Consumed(ReaderOf(r, c)) = RiceAt + (RiceZeroes + 1 + call.k),
           RiceOn(r, c)
    PROVE  ReaderInv'
<1> DEFINE it == RiceItem
           vs == RiceItem.vals
           from == Len(Codes(got))
           n == Len(vs)
           j == Len(call.vals)
           f == RiceCodes(RiceItem)
           q == ReaderOf(r, c)
<1>1. /\ it \in Items /\ it.op = "rice" /\ vs \in Seq(Int)
      /\ call.k = it.k /\ call.k \in Nat /\ call.k <= BitsPerWord - 2
      /\ j \in Nat /\ j < n /\ Len(got) < Len(items)
      /\ call.vals = SubSeq(vs, 1, j) /\ call.todo = n - j /\ call \in RiceCalls
  BY RiceIs
<1>2. it = [op |-> "rice", vals |-> vs, k |-> it.k] /\ Code(it) = Joined(f, n)
  BY <1>1, ItemIs
<1>3. /\ RiceVal \in Int /\ RiceAt \in Nat
      /\ Len(Joined(f, j + 1)) = Len(Joined(f, j)) + (RiceZeroes + 1 + call.k)
      /\ RiceZeroes \in Nat
  BY RiceCodeThere
<1>4. c.vals = SubSeq(vs, 1, j + 1) /\ Len(c.vals) = j + 1
  <2> DEFINE old == call.vals
             t == SubSeq(vs, 1, j + 1)
             x == Append(old, RiceVal)
  <2>1. old \in Seq(Int) /\ Len(old) = j
    BY <1>1 DEF RiceCalls
  <2>2. x \in Seq(Int) /\ Len(x) = j + 1 /\ x[j + 1] = RiceVal /\ \A i \in 1..j : x[i] = old[i]
    BY <1>3, <2>1, AppendProperties
  <2>3. RiceVal = vs[j + 1]
    BY DEF RiceVal
  <2>8. old = SubSeq(vs, 1, j) /\ c.vals = x
    BY <1>1
  <2> HIDE DEF old, vs, j, x
  <2>4. \A i \in 1..j : old[i] = vs[i]
    <3>1. SubSeq(vs, 1, j) = [i \in 1..j |-> vs[i]]
      BY <1>1
    <3> QED
      BY <2>8, <3>1
  <2>5. t = [i \in 1..(j + 1) |-> vs[i]]
    BY <1>1
  <2>6. x = [i \in 1..(j + 1) |-> x[i]]
    BY <1>1, <2>2
  <2>7. \A i \in 1..(j + 1) : x[i] = vs[i]
    <3> TAKE i \in 1..(j + 1)
    <3>1. i \in 1..j \/ i = j + 1
      BY <1>1
    <3> QED
      BY <2>2, <2>3, <2>4, <3>1
  <2> QED
    BY <2>2, <2>5, <2>6, <2>7, <2>8
<1>5. from + Len(Joined(f, j + 1)) = Base + Consumed(q)
  <2>1. RiceAt = from + Len(Joined(f, j))
    BY DEF RiceAt
  <2>2. from \in Nat /\ Len(Joined(f, j)) \in Nat
    <3>1. from \in Nat
      BY <1>1, NextIs DEF RiceItem
    <3>2. j \in 0..n /\ n \in Nat
      <4>1. n \in Nat
        BY <1>1
      <4> HIDE DEF n, j
      <4> QED
        BY <1>1, <4>1
    <3>3. \A i \in 1..n : f[i] \in Bits
      <4> TAKE i \in 1..n
      <4>1. i \in DOMAIN vs /\ vs[i] \in Int
        BY <1>1
      <4>2. f[i] = RiceCode(vs[i], it.k)
        BY <4>1 DEF RiceCodes
      <4>3. RiceCode(vs[i], it.k) \in Bits
        <5> HIDE DEF it, vs
        <5> QED
          BY <1>1, <4>1, RiceCodeIs
      <4> QED
        BY <4>2, <4>3
    <3> HIDE DEF f, n, j
    <3> QED
      BY <3>1, <3>2, <3>3, JoinedBegins
  <2>3. Base + Consumed(q) = RiceAt + (RiceZeroes + 1 + call.k)
    OBVIOUS
  <2> DEFINE d == RiceZeroes + 1 + call.k
  <2>4. d \in Nat
    BY <1>1, <1>3
  <2> HIDE DEF from, f, j, q, d
  <2>5. from + (Len(Joined(f, j)) + d) = (from + Len(Joined(f, j))) + d
    BY <2>2, <2>4
  <2> QED
    BY <1>3, <2>1, <2>3, <2>5 DEF d, f, j
<1>6. n \in Nat
  BY <1>1
<1>7. q \in Readers /\ q.data = br.data
  <2>1. q \in Readers /\ q.data = Live.data
    BY DEF Moves
  <2> QED
    BY <2>1, GoingIs
<1>8. c.cw \in Nat /\ c.uc \in 0..BitsPerWord /\ c.todo \in Nat /\ c.op = "rice"
  BY DEF RiceCalls
<1>9. CASE c.todo = 0
  <2> DEFINE x == IF c.at = "fast" THEN FlushRegisters(r, c) ELSE r
             y == [op |-> "rice", vals |-> c.vals, k |-> c.k]
  <2>1. Returned(x, y)
    BY <1>9 DEF RiceOn
  <2>2. j + 1 = n
    <3> HIDE DEF j, n
    <3> QED
      BY <1>1, <1>6, <1>9
  <2>3. SubSeq(vs, 1, n) = vs
    BY <1>1
  <2>4. y = it
    <3>1. c.vals = vs
      BY <1>4, <2>2, <2>3
    <3> HIDE DEF it, vs, j
    <3> QED
      BY <1>1, <1>2, <3>1
  <2>5. Moves(x, q, Consumed(q))
    <3>1. CASE c.at = "fast"
      <4>1. q = InRegisters(r, c) /\ x = FlushRegisters(r, c)
        BY <3>1 DEF ReaderOf
      <4> HIDE DEF q, x
      <4> QED
        BY <1>7, <1>8, <4>1, FlushMoves
    <3>2. CASE c.at # "fast"
      <4>1. q = r /\ x = r
        BY <3>2 DEF ReaderOf
      <4> HIDE DEF q, x
      <4> QED
        BY <1>7, <4>1, MovesNot
    <3> QED
      BY <3>1, <3>2
  <2>6. Moves(x, Live, Consumed(q))
    <3>1. Moves(q, Live, Consumed(q)) /\ Live \in Readers
      BY GoingIs
    <3> HIDE DEF q, x
    <3> QED
      BY <2>5, <3>1, MovesAgain
  <2> HIDE DEF x, y, q
  <2>7. x \in Readers /\ x.data = br.data /\ Consumed(x) = Consumed(q)
    BY <1>7, <2>5 DEF Moves
  <2>8. Base + Consumed(x) = from + Len(Code(it))
    BY <1>2, <1>5, <2>2, <2>7
  <2>9. Returned(x, it) /\ call.op # "block" /\ Moves(x, Live, Consumed(x))
    BY <2>1, <2>4, <2>6, <2>7
  <2> HIDE DEF vs, j, n, f
  <2> QED
    BY <1>1, <2>7, <2>8, <2>9, ItemReturns DEF RiceItem
<1>10. CASE c.todo # 0
  <2>1. Continues(r, c)
    BY <1>10 DEF RiceOn
  <2>2. br' = r /\ call' = c /\ UNCHANGED <<bw, items, phase, stream, fed, got, crcFrom>>
    BY <2>1 DEF Continues
  <2>3. Live' = q
    BY <1>8, <2>2, LiveOf
  <2> HIDE DEF q
  <2>4. Pos' = Base + Consumed(q)
    BY <1>7, <2>2, <2>3, LoadedGoesOn, GoingIs
  <2>5. j + 1 < n /\ c.todo = n - (j + 1)
    <3> HIDE DEF j, n
    <3> QED
      BY <1>1, <1>6, <1>8, <1>10
  <2> DEFINE w == vs[(j + 1) + 1]
             m == Fold(w) \div 2^it.k
             at == from + Len(Joined(f, j + 1))
  <2>6. m \in Nat /\ 0 <= m /\ at + 0 = at
    <3>1. (j + 1) + 1 \in 1..n
      <4> HIDE DEF j, n
      <4> QED
        BY <1>1, <1>6, <2>5
    <3>2. w \in Int
      BY <1>1, <3>1
    <3>3. it.k \in 0..BitsPerWord
      BY <1>1, WordWidth
    <3>4. m \in Nat
      <4> HIDE DEF w, it
      <4> QED
        BY <3>2, <3>3, FoldIs, BinaryIs
    <3>5. at \in Nat
      <4>1. at = Base + Consumed(q)
        BY <1>5
      <4>2. Base \in Nat /\ Consumed(q) \in Nat
        BY <1>7, ReaderIs, Placed, GoingIs
      <4> QED
        BY <4>1, <4>2
    <3> HIDE DEF m, at
    <3> QED
      BY <3>4, <3>5
  <2>7. \/ /\ c.at = "fast" /\ c.cw < CompleteWords(br')
           /\ c.msbs = 0 /\ c.lsbs = <<>>
           /\ Pos' = at
        \/ /\ c.at = "msbs"
           /\ c.msbs <= m /\ c.lsbs = <<>>
           /\ Pos' = at + c.msbs
    <3>1. Pos' = at
      BY <1>5, <2>4
    <3> HIDE DEF m, at
    <3> QED
      BY <2>2, <2>6, <3>1
  <2>8. RiceDone(it, from)'
    <3>1. it' = it /\ from' = from /\ RiceCodes(it') = f
      BY <2>2 DEF RiceItem, RiceCodes
    <3>2. Len(call'.vals) = j + 1 /\ call' = c
      BY <1>4, <2>2
    <3>3. /\ Len(call'.vals) < Len(vs) /\ call'.vals = SubSeq(vs, 1, Len(call'.vals))
          /\ call'.todo = Len(vs) - Len(call'.vals)
      BY <1>4, <2>2, <2>5
    <3>4. call'.k = it.k /\ call' \in RiceCalls
      BY <1>1, <2>2
    <3>5. LET u == Fold(vs[Len(call'.vals) + 1])
              p == from + Len(Joined(f, Len(call'.vals)))
          IN  \/ /\ call'.at = "fast" /\ call'.cw < CompleteWords(br')
                 /\ call'.msbs = 0 /\ call'.lsbs = <<>>
                 /\ Pos' = p
              \/ /\ call'.at = "msbs"
                 /\ call'.msbs <= u \div 2^it.k /\ call'.lsbs = <<>>
                 /\ Pos' = p + call'.msbs
      BY <2>7, <3>2
    <3> HIDE DEF it, from, f
    <3> QED
      BY <1>1, <3>1, <3>3, <3>4, <3>5 DEF RiceDone, it
  <2>9. Progress'
    <3>1. (Len(got) < Len(items))'
      BY <1>1, <2>2
    <3> QED
      BY <2>8, <3>1 DEF Progress, RiceItem
  <2>10. call.op # "block" /\ Moves(Live', Live, Consumed(Live')) /\ Live' \in Readers
    BY <1>7, <2>3 DEF q
  <2> QED
    BY <2>1, <2>9, <2>10, ItemContinues
<1> QED
  BY <1>9, <1>10

(* A value is read in part: the rest of it is left to the plain calls.     *)
LEMMA RicePartRead ==
    ASSUME Going, call.op = "rice", NEW r \in Readers, r.data = br.data,
           NEW c \in RiceCalls, c.k = call.k, c.vals = call.vals, c.todo = call.todo,
           Continues(r, c), Moves(r, Live, Consumed(r)),
           \/ /\ c.at = "msbs" /\ c.msbs <= RiceZeroes /\ c.lsbs = <<>>
              /\ Base + Consumed(r) = RiceAt + c.msbs
           \/ /\ c.at = "lsbs" /\ c.msbs = RiceZeroes
              /\ Len(c.lsbs) <= call.k
              /\ c.lsbs = SubSeq(RiceBits, 1, Len(c.lsbs))
              /\ Base + Consumed(r) = RiceAt + c.msbs + 1 + Len(c.lsbs)
    PROVE  ReaderInv'
<1> DEFINE it == RiceItem
           from == Len(Codes(got))
<1>1. /\ it.op = "rice" /\ call.k = it.k /\ Len(call.vals) < Len(it.vals)
      /\ call.vals = SubSeq(it.vals, 1, Len(call.vals)) /\ Len(got) < Len(items)
      /\ call.todo = Len(it.vals) - Len(call.vals)
  BY RiceIs
<1>2. br' = r /\ call' = c /\ UNCHANGED <<bw, items, phase, stream, fed, got, crcFrom>>
  BY DEF Continues
<1>3. c.op = "rice" /\ ReaderOf(r, c) = r
  BY DEF RiceCalls, ReaderOf
<1>4. Live' = r
  BY <1>2, <1>3, LiveOf
<1>5. r \in AnyReader
  BY ReaderIs
<1>6. Pos' = Base + Consumed(r)
  BY <1>2, <1>4, <1>5, LoadedGoesOn, GoingIs
<1>7. RiceDone(it, from)'
  <2>1. it' = it /\ from' = from /\ RiceCodes(it') = RiceCodes(it)
    BY <1>2 DEF RiceItem, RiceCodes
  <2>2. /\ Len(call'.vals) < Len(it.vals)
        /\ call'.vals = SubSeq(it.vals, 1, Len(call'.vals))
        /\ call'.todo = Len(it.vals) - Len(call'.vals)
        /\ call'.k = it.k /\ call' \in RiceCalls
    BY <1>1, <1>2
  <2>3. /\ RiceAt = from + Len(Joined(RiceCodes(it), Len(call'.vals)))
        /\ RiceZeroes = Fold(it.vals[Len(call'.vals) + 1]) \div 2^it.k
        /\ RiceBits = Binary(Fold(it.vals[Len(call'.vals) + 1]), it.k)
    BY <1>1, <1>2 DEF RiceAt, RiceZeroes, RiceBits, RiceVal
  <2> DEFINE u == Fold(it.vals[Len(call'.vals) + 1])
             p == from + Len(Joined(RiceCodes(it), Len(call'.vals)))
  <2>4. \/ /\ call'.at = "msbs"
           /\ call'.msbs <= u \div 2^it.k /\ call'.lsbs = <<>>
           /\ Pos' = p + call'.msbs
        \/ /\ call'.at = "lsbs"
           /\ call'.msbs = u \div 2^it.k
           /\ Len(call'.lsbs) <= it.k
           /\ call'.lsbs = SubSeq(Binary(u, it.k), 1, Len(call'.lsbs))
           /\ Pos' = p + call'.msbs + 1 + Len(call'.lsbs)
    BY <1>1, <1>2, <1>6, <2>3
  <2> HIDE DEF it, from
  <2> QED
    BY <1>1, <2>1, <2>2, <2>4 DEF RiceDone, it
<1>8. Progress'
  <2>1. (Len(got) < Len(items))'
    BY <1>1, <1>2
  <2> QED
    BY <1>7, <2>1 DEF Progress, RiceItem
<1>9. call.op # "block" /\ Moves(Live', Live, Consumed(Live')) /\ Live' \in Readers
  BY <1>4
<1> QED
  BY <1>5, <1>8, <1>9, ItemContinues

(* The call with a value stored, and with the place it is gone on from.    *)
LEMMA ValueStored ==
    ASSUME NEW c \in RiceCalls, c.todo > 0, NEW lsbs \in Bits,
           NEW v \in Int, Unfold(c.msbs * 2^c.k + Number(lsbs)) = v
    PROVE  LET x == WithValue(c, lsbs)
           IN  /\ x \in RiceCalls /\ x.k = c.k /\ x.todo = c.todo - 1
               /\ x.vals = Append(c.vals, v) /\ x.msbs = 0 /\ x.lsbs = <<>>
               /\ x.at = c.at /\ x.cw = c.cw /\ x.uc = c.uc
<1> DEFINE x == WithValue(c, lsbs)
<1>1. /\ c = [op |-> c.op, k |-> c.k, todo |-> c.todo, vals |-> c.vals,
              at |-> c.at, msbs |-> c.msbs, lsbs |-> c.lsbs, cw |-> c.cw, uc |-> c.uc]
      /\ c.op = "rice" /\ c.k \in Nat /\ c.todo \in Nat /\ c.vals \in Seq(Int)
      /\ c.cw \in Nat /\ c.uc \in 0..BitsPerWord /\ c.at \in {"fast", "msbs", "lsbs"}
  BY DEF RiceCalls
<1>2. Append(c.vals, v) \in Seq(Int) /\ c.todo - 1 \in Nat /\ <<>> \in Seq(Bit)
  BY <1>1
<1>3. x = [c EXCEPT !.vals = Append(c.vals, v), !.todo = c.todo - 1,
                    !.msbs = 0, !.lsbs = <<>>]
  BY DEF WithValue
<1> HIDE DEF x
<1>4. /\ x \in RiceCalls /\ x.k = c.k /\ x.todo = c.todo - 1
      /\ x.vals = Append(c.vals, v) /\ x.msbs = 0 /\ x.lsbs = <<>>
      /\ x.at = c.at /\ x.cw = c.cw /\ x.uc = c.uc
  BY <1>1, <1>2, <1>3 DEF RiceCalls
<1> QED
  BY <1>4 DEF x

LEMMA CallPlaced ==
    ASSUME NEW c \in RiceCalls, NEW cw \in Nat, NEW uc \in 0..BitsPerWord,
           NEW at \in {"fast", "msbs"}
    PROVE  /\ LET x == [c EXCEPT !.cw = cw, !.uc = uc]
              IN  /\ x \in RiceCalls /\ x.k = c.k /\ x.todo = c.todo
                  /\ x.vals = c.vals /\ x.msbs = c.msbs /\ x.lsbs = c.lsbs
                  /\ x.at = c.at /\ x.cw = cw /\ x.uc = uc
           /\ LET x == [c EXCEPT !.at = at, !.cw = cw, !.uc = uc]
              IN  /\ x \in RiceCalls /\ x.k = c.k /\ x.todo = c.todo
                  /\ x.vals = c.vals /\ x.msbs = c.msbs /\ x.lsbs = c.lsbs
                  /\ x.at = at /\ x.cw = cw /\ x.uc = uc
BY DEF RiceCalls

LEMMA CallInPart ==
    ASSUME NEW c \in RiceCalls, NEW m \in Nat, NEW lsbs \in Bits,
           NEW at \in {"msbs", "lsbs"}
    PROVE  /\ LET x == [c EXCEPT !.msbs = m]
              IN  /\ x \in RiceCalls /\ x.k = c.k /\ x.todo = c.todo
                  /\ x.vals = c.vals /\ x.msbs = m /\ x.lsbs = c.lsbs
                  /\ x.at = c.at /\ x.cw = c.cw /\ x.uc = c.uc
           /\ LET x == [c EXCEPT !.at = at]
              IN  /\ x \in RiceCalls /\ x.k = c.k /\ x.todo = c.todo
                  /\ x.vals = c.vals /\ x.msbs = c.msbs /\ x.lsbs = c.lsbs
                  /\ x.at = at
           /\ LET x == [c EXCEPT !.at = at, !.msbs = m]
              IN  /\ x \in RiceCalls /\ x.k = c.k /\ x.todo = c.todo
                  /\ x.vals = c.vals /\ x.msbs = m /\ x.lsbs = c.lsbs
                  /\ x.at = at
           /\ LET x == [c EXCEPT !.at = at, !.msbs = m, !.lsbs = lsbs]
              IN  /\ x \in RiceCalls /\ x.k = c.k /\ x.todo = c.todo
                  /\ x.vals = c.vals /\ x.msbs = m /\ x.lsbs = lsbs
                  /\ x.at = at
BY DEF RiceCalls, Bits

-----------------------------------------------------------------------------
(* The plain calls that end a value.                                       *)
LEMMA RicePlain ==
    ASSUME Going, call.op = "rice", call.at # "fast"
    PROVE  /\ Live = br /\ br \in Readers
           /\ Pos = Base + Consumed(br) /\ Base \in Nat /\ Consumed(br) \in Nat
           /\ Len(br.data) \in Nat /\ Consumed(br) <= Len(br.data)
<1>1. Live = br
  BY DEF Live
<1>2. Live \in Readers
  BY GoingIs
<1> QED
  BY <1>1, <1>2, GoingIs, Placed, ReaderIs

LEMMA RiceMsbsReads ==
    ASSUME Going, RiceMsbs
    PROVE  ReaderInv'
<1> DEFINE s == UnaryScan(br)
           c == [call EXCEPT !.msbs = @ + s.zeros]
           z == RiceZeroes - call.msbs
<1>1. call.op = "rice" /\ call.at = "msbs"
  BY DEF RiceMsbs
<1>2. /\ call \in RiceCalls /\ call.k \in Nat /\ call.msbs \in Nat /\ RicePlaces
      /\ call.todo \in Nat /\ call.todo > 0
  <2>1. /\ call \in RiceCalls /\ RicePlaces
        /\ Len(call.vals) < Len(RiceItem.vals) /\ RiceItem.vals \in Seq(Int)
        /\ call.todo = Len(RiceItem.vals) - Len(call.vals)
    BY <1>1, RiceIs
  <2> QED
    BY <2>1 DEF RiceCalls
<1>3. call.msbs <= RiceZeroes /\ call.lsbs = <<>> /\ Pos = RiceAt + call.msbs
  BY <1>1, <1>2 DEF RicePlaces
<1>4. /\ RiceVal \in Int /\ RiceZeroes \in Nat /\ RiceAt \in Nat
      /\ RiceBits \in Bits /\ Len(RiceBits) = call.k
      /\ There(BufferBits(bw), RiceAt, Append(Zeroes(RiceZeroes), 1))
      /\ Unfold(RiceZeroes * 2^call.k + Number(RiceBits)) = RiceVal
  BY <1>1, RiceCodeThere
<1>5. /\ Live = br /\ br \in Readers
      /\ Pos = Base + Consumed(br) /\ Base \in Nat /\ Consumed(br) \in Nat
      /\ Len(br.data) \in Nat /\ Consumed(br) <= Len(br.data)
  BY <1>1, RicePlain
<1>6. z \in Nat /\ call.msbs \in 0..RiceZeroes
  BY <1>2, <1>3, <1>4
<1>7. ZeroesFrom(br, Consumed(br), Len(br.data), z)
  <2>1. Loaded /\ BufferBits(bw) \in Bits
    BY GoingIs
  <2>2. ZeroesFrom(Live, Consumed(Live), Len(br.data), z)
    BY <1>3, <1>4, <1>6, <2>1, AheadZeroes
  <2> QED
    BY <1>5, <2>2
<1> HIDE DEF s, z
<1>8. IF Consumed(br) + z < Len(br.data)
      THEN s.found /\ s.zeros = z /\ Moves(s.br, br, Consumed(br) + (z + 1))
      ELSE /\ ~ s.found /\ s.zeros = Len(br.data) - Consumed(br)
           /\ Moves(s.br, br, Len(br.data))
  BY <1>5, <1>6, <1>7, UnaryScans DEF s
<1>9. s.zeros \in Nat /\ call.msbs + s.zeros \in Nat /\ call.msbs + s.zeros <= RiceZeroes
  <2>1. s.zeros \in Nat /\ s.zeros <= z
    BY <1>5, <1>6, <1>8
  <2> QED
    BY <1>2, <1>3, <1>4, <2>1 DEF z
<1>10. /\ c \in RiceCalls /\ c.k = call.k /\ c.todo = call.todo
       /\ c.vals = call.vals /\ c.msbs = call.msbs + s.zeros /\ c.lsbs = <<>>
       /\ c.at = "msbs"
  <2> DEFINE m == call.msbs + s.zeros
  <2>1. <<>> \in Bits /\ "msbs" \in {"msbs", "lsbs"} /\ m \in Nat
    BY <1>9 DEF Bits
  <2>2. c = [call EXCEPT !.msbs = m]
    OBVIOUS
  <2> HIDE DEF c, m
  <2>3. /\ c \in RiceCalls /\ c.k = call.k /\ c.todo = call.todo
        /\ c.vals = call.vals /\ c.msbs = m /\ c.lsbs = call.lsbs
        /\ c.at = call.at
    BY <1>2, <2>1, <2>2 DEF RiceCalls
  <2> QED
    BY <1>1, <1>3, <2>3 DEF m
<1>11. s.br \in Readers /\ s.br.data = br.data
  BY <1>8 DEF Moves
<1>12. Moves(s.br, Live, Consumed(s.br))
  BY <1>5, <1>8 DEF Moves
<1>13. \/ ~ s.found /\ Continues(s.br, c)
       \/ s.found /\ call.k = 0 /\ RiceOn(s.br, WithValue(c, <<>>))
       \/ s.found /\ call.k # 0 /\ Continues(s.br, [c EXCEPT !.at = "lsbs"])
  BY DEF RiceMsbs, s
<1>14. /\ s.found => Base + Consumed(s.br) = RiceAt + (RiceZeroes + 1)
       /\ ~ s.found => Base + Consumed(s.br) = RiceAt + (call.msbs + s.zeros)
  <2>1. /\ RiceAt \in Nat /\ RiceZeroes \in Nat /\ call.msbs \in Nat /\ s.zeros \in Nat
        /\ Base \in Nat /\ Consumed(br) \in Nat /\ Base + Consumed(br) = RiceAt + call.msbs
    BY <1>2, <1>3, <1>4, <1>5, <1>9
  <2>2. CASE s.found
    <3>1. s.zeros = z /\ Consumed(s.br) = Consumed(br) + (z + 1)
      BY <1>8, <2>2 DEF Moves
    <3> QED
      BY <2>1, <2>2, <3>1 DEF z
  <2>3. CASE ~ s.found
    <3>1. Consumed(s.br) = Consumed(br) + s.zeros
      BY <1>5, <1>8, <2>3 DEF Moves
    <3> QED
      BY <2>1, <2>3, <3>1
  <2> QED
    BY <2>2, <2>3
<1>15. s.found => c.msbs = RiceZeroes
  BY <1>2, <1>4, <1>8, <1>10 DEF z
<1> HIDE DEF c
<1>16. CASE ~ s.found /\ Continues(s.br, c)
  <2>1. c.msbs <= RiceZeroes /\ Base + Consumed(s.br) = RiceAt + c.msbs
    BY <1>9, <1>10, <1>14, <1>16
  <2> QED
    BY <1>1, <1>10, <1>11, <1>12, <1>16, <2>1, RicePartRead
<1>17. CASE s.found /\ call.k = 0 /\ RiceOn(s.br, WithValue(c, <<>>))
  <2> DEFINE x == WithValue(c, <<>>)
  <2>1. RiceBits = <<>> /\ <<>> \in Bits
    BY <1>4, <1>17 DEF Bits
  <2>2. Unfold(c.msbs * 2^c.k + Number(<<>>)) = RiceVal
    BY <1>4, <1>10, <1>15, <1>17, <2>1
  <2>3. c.todo > 0
    BY <1>2, <1>10
  <2>4. /\ x \in RiceCalls /\ x.k = c.k /\ x.todo = c.todo - 1
        /\ x.vals = Append(c.vals, RiceVal) /\ x.msbs = 0 /\ x.lsbs = <<>>
        /\ x.at = c.at
    BY <1>4, <1>10, <2>1, <2>2, <2>3, ValueStored
  <2>5. RiceOn(s.br, x)
    BY <1>17
  <2> HIDE DEF x
  <2>6. ReaderOf(s.br, x) = s.br
    BY <1>10, <2>4 DEF ReaderOf
  <2>7. RiceZeroes + 1 = RiceZeroes + 1 + call.k
    BY <1>4, <1>17
  <2>8. Base + Consumed(s.br) = RiceAt + (RiceZeroes + 1 + call.k)
    BY <1>14, <1>17, <2>7
  <2>9. s.br \in AnyReader
    BY <1>11, ReaderIs
  <2> QED
    BY <1>1, <1>10, <1>11, <1>12, <2>4, <2>5, <2>6, <2>8, <2>9, RiceValueRead
<1>18. CASE s.found /\ call.k # 0 /\ Continues(s.br, [c EXCEPT !.at = "lsbs"])
  <2> DEFINE x == [c EXCEPT !.at = "lsbs"]
  <2>1. /\ x \in RiceCalls /\ x.k = c.k /\ x.todo = c.todo
        /\ x.vals = c.vals /\ x.msbs = c.msbs /\ x.lsbs = c.lsbs
        /\ x.at = "lsbs"
    <3>1. <<>> \in Bits
      BY DEF Bits
    <3> QED
      BY <1>4, <1>10, <3>1, CallInPart
  <2>2. Continues(s.br, x)
    BY <1>18
  <2> HIDE DEF x
  <2>3. Len(x.lsbs) = 0 /\ x.lsbs = SubSeq(RiceBits, 1, Len(x.lsbs))
    <3>1. SubSeq(RiceBits, 1, 0) = <<>>
      BY <1>4 DEF Bits
    <3>2. x.lsbs = <<>> /\ Len(x.lsbs) = 0
      BY <1>10, <2>1
    <3> QED
      BY <3>1, <3>2
  <2>4. Base + Consumed(s.br) = RiceAt + x.msbs + 1 + Len(x.lsbs)
    <3>1. Base + Consumed(s.br) = RiceAt + (RiceZeroes + 1)
      BY <1>14, <1>18
    <3>2. x.msbs = RiceZeroes
      BY <1>15, <1>18, <2>1
    <3> QED
      BY <1>4, <2>3, <3>1, <3>2
  <2>5. Len(x.lsbs) <= call.k /\ x.msbs = RiceZeroes
    BY <1>2, <1>15, <1>18, <2>1, <2>3
  <2> QED
    BY <1>1, <1>10, <1>11, <1>12, <2>1, <2>2, <2>3, <2>4, <2>5, RicePartRead
<1> QED
  BY <1>13, <1>16, <1>17, <1>18

LEMMA RiceLsbsReads ==
    ASSUME Going, RiceLsbs
    PROVE  ReaderInv'
<1> DEFINE L == Len(call.lsbs)
           n == call.k - L
           after == AfterRaw(br, n)
           fast == after.consumedWords < CompleteWords(after)
           rest == SubSeq(RiceBits, L + 1, call.k)
           c == WithValue(call, call.lsbs \o Peek(br, n))
           at == IF fast THEN "fast" ELSE "msbs"
           uc == BitsPerWord - after.consumedBits
           x == [c EXCEPT !.at = at, !.cw = after.consumedWords, !.uc = uc]
<1>1. call.op = "rice" /\ call.at = "lsbs" /\ Unconsumed(br) >= n /\ RiceOn(after, x)
  BY DEF RiceLsbs
<1>2. /\ call \in RiceCalls /\ call.k \in Nat /\ call.msbs \in Nat /\ RicePlaces
      /\ call.todo \in Nat /\ call.todo > 0 /\ call.lsbs \in Seq(Bit) /\ L \in Nat
  <2>1. /\ call \in RiceCalls /\ RicePlaces
        /\ Len(call.vals) < Len(RiceItem.vals) /\ RiceItem.vals \in Seq(Int)
        /\ call.todo = Len(RiceItem.vals) - Len(call.vals)
    BY <1>1, RiceIs
  <2> QED
    BY <2>1 DEF RiceCalls
<1>3. /\ call.msbs = RiceZeroes /\ L <= call.k /\ call.lsbs = SubSeq(RiceBits, 1, L)
      /\ Pos = RiceAt + RiceZeroes + 1 + L
  BY <1>1, <1>2 DEF RicePlaces
<1>4. /\ RiceVal \in Int /\ RiceZeroes \in Nat /\ RiceAt \in Nat
      /\ RiceBits \in Bits /\ Len(RiceBits) = call.k
      /\ There(BufferBits(bw), RiceAt + (RiceZeroes + 1), RiceBits)
      /\ Unfold(RiceZeroes * 2^call.k + Number(RiceBits)) = RiceVal
  BY <1>1, RiceCodeThere
<1>5. /\ Live = br /\ br \in Readers
      /\ Pos = Base + Consumed(br) /\ Base \in Nat /\ Consumed(br) \in Nat
      /\ Len(br.data) \in Nat /\ Consumed(br) <= Len(br.data)
  BY <1>1, RicePlain
<1>6. n \in Nat
  BY <1>2, <1>3
<1>7. /\ rest \in Bits /\ Len(rest) = n /\ There(RiceBits, L, rest)
      /\ call.lsbs \o rest = RiceBits
  <2>1. /\ rest \in Bits /\ Len(rest) = call.k - L
        /\ \A i \in 1..(call.k - L) : rest[i] = RiceBits[L + i]
    BY <1>2, <1>3, <1>4, PieceIs
  <2>2. There(RiceBits, L, rest)
    <3> HIDE DEF rest, L
    <3> QED
      BY <1>2, <1>3, <1>4, <2>1 DEF There
  <2>3. call.lsbs \o rest = RiceBits
    <3>1. L \in 0..Len(RiceBits)
      BY <1>2, <1>3, <1>4
    <3> QED
      BY <1>3, <1>4, <3>1, CutInTwo
  <2> QED
    BY <2>1, <2>2, <2>3
<1> HIDE DEF L, rest
<1>8. Peek(br, n) = rest
  <2>1. BufferBits(bw) \in Bits /\ Loaded
    BY GoingIs
  <2>2. There(BufferBits(bw), RiceAt + (RiceZeroes + 1) + L, rest)
    <3>1. RiceAt + (RiceZeroes + 1) \in Nat
      BY <1>4
    <3> QED
      BY <1>2, <1>4, <1>7, <2>1, <3>1, ThereWithin
  <2>3. Pos = RiceAt + (RiceZeroes + 1) + L
    BY <1>2, <1>3, <1>4
  <2>4. Ahead(Live, rest)
    BY <1>7, <2>1, <2>2, <2>3, AheadIs
  <2>5. Len(rest) <= Unconsumed(br)
    BY <1>1, <1>7
  <2> HIDE DEF n
  <2>6. Peek(br, Len(rest)) = rest
    BY <1>5, <1>7, <2>4, <2>5, PeekIs
  <2> QED
    BY <1>7, <2>6
<1>9. Moves(after, br, Consumed(br) + n)
  <2>1. n <= Unconsumed(br)
    BY <1>1, <1>5, <1>6 DEF Unconsumed
  <2> HIDE DEF n
  <2> QED
    BY <1>5, <1>6, <2>1, AfterRawMoves DEF after
<1> HIDE DEF n, after
<1>10. /\ after \in Readers /\ after.data = br.data /\ Consumed(after) = Consumed(br) + n
       /\ Moves(after, Live, Consumed(after))
  BY <1>5, <1>9 DEF Moves
<1>11. /\ after \in AnyReader /\ after.consumedWords \in Nat
       /\ after.consumedBits \in 0..BitsPerWord /\ uc \in 0..BitsPerWord
       /\ at \in {"fast", "msbs"} /\ BitsPerWord - uc = after.consumedBits
  <2>1. /\ after \in AnyReader /\ after.consumedWords \in Nat
        /\ after.consumedBits \in 0..BitsPerWord
    BY <1>10, ReaderIs
  <2>2. uc \in 0..BitsPerWord /\ BitsPerWord - uc = after.consumedBits
    BY <2>1, WordWidth
  <2> HIDE DEF fast
  <2> QED
    BY <2>1, <2>2
<1>12. /\ c \in RiceCalls /\ c.k = call.k /\ c.todo = call.todo - 1
       /\ c.vals = Append(call.vals, RiceVal) /\ c.msbs = 0 /\ c.lsbs = <<>>
  <2>1. call.lsbs \o Peek(br, n) = RiceBits
    BY <1>7, <1>8
  <2>2. c = WithValue(call, RiceBits)
    BY <2>1
  <2>3. Unfold(call.msbs * 2^call.k + Number(RiceBits)) = RiceVal
    BY <1>3, <1>4
  <2> HIDE DEF c
  <2> QED
    BY <1>2, <1>4, <2>2, <2>3, ValueStored
<1> HIDE DEF c, at, uc
<1>13. /\ x \in RiceCalls /\ x.k = call.k /\ x.todo = call.todo - 1
       /\ x.vals = Append(call.vals, RiceVal) /\ x.msbs = 0 /\ x.lsbs = <<>>
       /\ x.at = at /\ x.cw = after.consumedWords /\ x.uc = uc
  BY <1>11, <1>12 DEF RiceCalls
<1> HIDE DEF x
<1>14. ReaderOf(after, x) = after
  <2>1. InRegisters(after, x) = after
    <3>1. InRegisters(after, x) = [after EXCEPT !.consumedWords = after.consumedWords,
                                                !.consumedBits = after.consumedBits]
      BY <1>11, <1>13 DEF InRegisters
    <3> QED
      BY <1>11, <3>1 DEF AnyReader
  <2> QED
    BY <2>1 DEF ReaderOf
<1>15. Base + Consumed(after) = RiceAt + (RiceZeroes + 1 + call.k)
  <2>1. Consumed(after) = Consumed(br) + (call.k - L)
    BY <1>10 DEF n
  <2>2. Base + Consumed(br) = RiceAt + RiceZeroes + 1 + L
    BY <1>3, <1>5
  <2>3. /\ RiceAt \in Nat /\ RiceZeroes \in Nat /\ L \in Nat /\ call.k \in Nat
        /\ Base \in Nat /\ Consumed(br) \in Nat
    BY <1>2, <1>4, <1>5
  <2> QED
    BY <2>1, <2>2, <2>3
<1>16. x.at = "fast" => x.cw < CompleteWords(after)
  BY <1>13 DEF at
<1>17. x.at = "fast" \/ x.at = "msbs"
  BY <1>11, <1>13
<1> QED
  BY <1>1, <1>10, <1>11, <1>13, <1>14, <1>15, <1>16, <1>17, RiceValueRead

-----------------------------------------------------------------------------
(* The loop over complete words, in registers.                             *)
RiceHead == (call.cw + 1) * BitsPerWord - call.uc

LEMMA FastIs ==
    ASSUME Going, call.op = "rice", call.at = "fast"
    PROVE  /\ Live = InRegisters(br, call) /\ Live \in Readers /\ br \in AnyReader
           /\ Live.data = br.data /\ Len(br.data) \in Nat
           /\ Live.consumedWords = call.cw /\ call.cw \in Nat
           /\ call.uc \in 0..BitsPerWord
           /\ RiceHead \in Nat /\ Consumed(Live) = RiceHead
           /\ call.cw * BitsPerWord \in Nat
           /\ RiceHead = call.cw * BitsPerWord + (BitsPerWord - call.uc)
           /\ CompleteWords(br) \in Nat /\ call.cw < CompleteWords(br)
           /\ CompleteWords(br) * BitsPerWord \in Nat
           /\ CompleteWords(br) * BitsPerWord <= Len(br.data)
           /\ RiceHead <= CompleteWords(br) * BitsPerWord
           /\ Base \in Nat /\ Base + RiceHead = RiceAt
<1> DEFINE W == BitsPerWord
           words == CompleteWords(br)
           m == call.cw * W
           t == words * W
<1>1. /\ call \in RiceCalls /\ RicePlaces
  BY RiceIs
<1>2. call.cw \in Nat /\ call.uc \in 0..W
  BY <1>1 DEF RiceCalls
<1>3. call.cw < words /\ Pos = RiceAt
  BY <1>1 DEF RicePlaces
<1>4. Live = InRegisters(br, call) /\ Live \in Readers /\ br \in AnyReader
      /\ Live.data = br.data
  BY GoingIs DEF Live
<1>5. Live.consumedWords = call.cw /\ Consumed(Live) = m + (W - call.uc)
  BY <1>2, <1>4, RegistersAre
<1>6. W \in Nat
  BY WordWidth
<1>7. m \in Nat /\ (call.cw + 1) * W = m + W
  <2> HIDE DEF W
  <2> QED
    BY <1>2, <1>6
<1>8. /\ words \in Nat /\ t \in Nat /\ t <= Len(br.data) /\ Len(br.data) \in Nat
  <2> DEFINE rest == Len(br.data) % W
  <2>1. /\ CompleteWords(Live) \in Nat /\ CompleteWords(Live) * W \in Nat
        /\ Len(Live.data) % W \in 0..(W - 1)
        /\ Len(Live.data) = CompleteWords(Live) * W + (Len(Live.data) % W)
    BY <1>4, CompleteIs
  <2>2. CompleteWords(Live) = words
    BY <1>4 DEF CompleteWords
  <2>3. /\ words \in Nat /\ t \in Nat /\ rest \in 0..(W - 1) /\ Len(br.data) = t + rest
    BY <1>4, <2>1, <2>2
  <2> HIDE DEF rest, W, t, words
  <2> QED
    BY <1>6, <2>3
<1>9. m + W <= t
  <2>1. call.cw + 1 <= words
    <3> HIDE DEF words
    <3> QED
      BY <1>2, <1>3, <1>8
  <2>2. \A e, f, g \in Nat : e <= f => e * g <= f * g
    OBVIOUS
  <2>3. (call.cw + 1) * W <= words * W
    <3> HIDE DEF words, W
    <3> QED
      BY <1>2, <1>6, <1>8, <2>1, <2>2
  <2> QED
    BY <1>7, <2>3
<1>10. RiceHead = m + (W - call.uc)
  <2>1. RiceHead = (m + W) - call.uc
    BY <1>7 DEF RiceHead
  <2> HIDE DEF m, W
  <2> QED
    BY <1>2, <1>6, <1>7, <2>1
<1>11. RiceHead \in Nat /\ RiceHead <= t
  <2> HIDE DEF m, W, t
  <2> QED
    BY <1>2, <1>6, <1>7, <1>8, <1>9, <1>10
<1>12. Base \in Nat /\ Pos = Base + Consumed(Live)
  BY GoingIs, Placed
<1> QED
  BY <1>2, <1>3, <1>4, <1>5, <1>7, <1>8, <1>10, <1>11, <1>12

LEMMA FastCrc ==
    ASSUME Going, call.op = "rice", call.at = "fast", NEW last \in Nat,
           last * BitsPerWord <= Len(br.data)
    PROVE  LET x == CrcFromRegisters(call, last)
           IN  /\ x \in AnyReader /\ x.data = br.data
               /\ x.crc = CrcWords(Live, last).crc
               /\ x.crcAlign = CrcWords(Live, last).crcAlign
<1> DEFINE r == [br EXCEPT !.consumedWords = call.cw]
           y == CrcWords(Live, last)
           x == CrcFromRegisters(call, last)
           over == SubSeq(br.data, call.cw * BitsPerWord + br.crcAlign + 1,
                          last * BitsPerWord)
<1>1. /\ Live \in Readers /\ br \in AnyReader /\ Live.data = br.data
      /\ Live.consumedWords = call.cw /\ call.cw \in Nat
  BY FastIs
<1>2. Live.crc = br.crc /\ Live.crcAlign = br.crcAlign
  BY <1>1, LiveIs
<1>3. /\ y \in AnyReader
      /\ y.crc = IF last = call.cw THEN br.crc ELSE br.crc \o over
      /\ y.crcAlign = IF last = call.cw THEN br.crcAlign ELSE 0
  BY <1>1, <1>2, CrcWordsAre DEF CrcPlace
<1>4. y.crc \in Seq(Bit)
  BY <1>3 DEF AnyReader
<1>5. /\ r \in AnyReader /\ r.data = br.data /\ r.crc = br.crc
      /\ r.crcAlign = br.crcAlign /\ r.consumedWords = call.cw
  BY <1>1 DEF AnyReader
<1>6. x = IF last = call.cw THEN r ELSE [r EXCEPT !.crc = br.crc \o over, !.crcAlign = 0]
  <2> HIDE DEF r
  <2>1. CrcWords(r, last) = IF last = call.cw THEN r
                            ELSE [r EXCEPT !.crc = br.crc \o over, !.crcAlign = 0]
    BY <1>5 DEF CrcWords
  <2> QED
    BY <2>1 DEF CrcFromRegisters, r
<1>7. last # call.cw => br.crc \o over \in Seq(Bit)
  BY <1>3, <1>4
<1> HIDE DEF x, y, over, r
<1>8. x \in AnyReader /\ x.data = br.data /\ x.crc = y.crc /\ x.crcAlign = y.crcAlign
  <2>1. CASE last = call.cw
    BY <1>3, <1>5, <1>6, <2>1
  <2>2. CASE last # call.cw
    <3> DEFINE s == br.crc \o over
    <3>1. s \in Seq(Bit) /\ x = [r EXCEPT !.crc = s, !.crcAlign = 0]
      BY <1>6, <1>7, <2>2
    <3>2. y.crc = s /\ y.crcAlign = 0
      BY <1>3, <2>2
    <3> HIDE DEF s
    <3> QED
      BY <1>5, <3>1, <3>2 DEF AnyReader
  <2> QED
    BY <2>1, <2>2
<1> QED
  BY <1>8 DEF x, y

(* The reader that is left at bit b of the word last.                      *)
LEMMA FastMoves ==
    ASSUME Going, call.op = "rice", call.at = "fast", NEW last \in Nat,
           call.cw <= last, NEW b \in 0..BitsPerWord,
           last * BitsPerWord + b >= RiceHead,
           last * BitsPerWord + b <= Len(br.data),
           NEW q \in AnyReader, q.data = br.data, q.consumedWords = last,
           q.consumedBits = b,
           q.crc = CrcFromRegisters(call, last).crc,
           q.crcAlign = CrcFromRegisters(call, last).crcAlign
    PROVE  /\ Moves(q, Live, Consumed(q)) /\ q \in Readers
           /\ Consumed(q) = last * BitsPerWord + b
<1> DEFINE t == last * BitsPerWord
<1>1. /\ Live \in Readers /\ Live.data = br.data /\ Len(br.data) \in Nat
      /\ Live.consumedWords = call.cw /\ call.cw \in Nat
      /\ RiceHead \in Nat /\ Consumed(Live) = RiceHead
  BY FastIs
<1>2. t \in Nat /\ b \in Nat
  <2>1. BitsPerWord \in Nat
    BY WordWidth
  <2> QED
    BY <2>1
<1>3. t <= Len(br.data)
  <2> HIDE DEF t
  <2>1. t + b <= Len(br.data)
    BY DEF t
  <2> QED
    BY <1>1, <1>2, <2>1
<1>4. Crossed(q, Live, last)
  <2>1. /\ q.crc = CrcWords(Live, last).crc
        /\ q.crcAlign = CrcWords(Live, last).crcAlign
    BY <1>3, FastCrc
  <2> QED
    BY <1>1, <2>1 DEF Crossed
<1>5. Moves(q, Live, t + b)
  BY <1>1, <1>2, <1>4, WordMoves
<1> QED
  BY <1>5 DEF Moves

(* What is in the buffer behind the stop bit is the binary part.           *)
LEMMA RiceBitsRead ==
    ASSUME Going, call.op = "rice", NEW p \in Nat, NEW j \in 0..call.k,
           Base + p = RiceAt + RiceZeroes, p + 1 + j <= Len(br.data)
    PROVE  SubSeq(br.data, p + 2, p + 1 + j) = SubSeq(RiceBits, 1, j)
<1> DEFINE U == BufferBits(bw)
           d == br.data
           at == RiceAt + (RiceZeroes + 1)
<1>1. /\ Base \in Nat /\ Len(d) \in Nat /\ d \in Seq(Bit)
      /\ \A i \in 1..Len(d) : d[i] = U[Base + i]
  BY GoingIs, Placed DEF AnyReader
<1>2. /\ RiceZeroes \in Nat /\ RiceAt \in Nat
      /\ RiceBits \in Bits /\ Len(RiceBits) = call.k
      /\ There(U, at, RiceBits)
  BY RiceCodeThere
<1>3. call.k \in Nat /\ j \in Nat /\ j <= call.k
  BY RiceIs
<1>4. \A i \in 1..call.k : U[at + i] = RiceBits[i]
  BY <1>2 DEF There
<1>5. at = Base + (p + 1)
  BY <1>1, <1>2
<1> HIDE DEF U, d, at
<1>6. p + 1 + j = (p + 1) + j /\ p + 2 = (p + 1) + 1 /\ p + 1 \in Nat
  OBVIOUS
<1>7. \A i \in 1..j : d[(p + 1) + i] = RiceBits[i]
  <2> TAKE i \in 1..j
  <2>1. i \in 1..call.k /\ (p + 1) + i \in 1..Len(d)
    BY <1>1, <1>3 DEF d
  <2>2. d[(p + 1) + i] = U[Base + ((p + 1) + i)]
    BY <1>1, <2>1
  <2>3. Base + ((p + 1) + i) = at + i
    BY <1>1, <1>5
  <2> QED
    BY <1>4, <2>1, <2>2, <2>3
<1>8. /\ SubSeq(d, (p + 1) + 1, (p + 1) + j) \in Bits
      /\ Len(SubSeq(d, (p + 1) + 1, (p + 1) + j)) = j
      /\ \A i \in 1..j : SubSeq(d, (p + 1) + 1, (p + 1) + j)[i] = d[(p + 1) + i]
  <2> DEFINE a == p + 1
             b == (p + 1) + j
  <2>1. a \in Nat /\ b \in Nat /\ a <= b /\ b <= Len(d) /\ b - a = j
    BY <1>1, <1>3 DEF d
  <2>2. d \in Bits
    BY <1>1 DEF Bits
  <2> HIDE DEF a, b
  <2>3. /\ SubSeq(d, a + 1, b) \in Bits /\ Len(SubSeq(d, a + 1, b)) = b - a
        /\ \A i \in 1..(b - a) : SubSeq(d, a + 1, b)[i] = d[a + i]
    BY <2>1, <2>2, PieceIs
  <2> QED
    BY <2>1, <2>3 DEF a, b
<1>9. /\ SubSeq(RiceBits, 1, j) \in Bits /\ Len(SubSeq(RiceBits, 1, j)) = j
      /\ \A i \in 1..j : SubSeq(RiceBits, 1, j)[i] = RiceBits[i]
  BY <1>2, <1>3 DEF Bits
<1>10. SubSeq(d, (p + 1) + 1, (p + 1) + j) = SubSeq(RiceBits, 1, j)
  <2> DEFINE s == SubSeq(d, (p + 1) + 1, (p + 1) + j)
             t == SubSeq(RiceBits, 1, j)
  <2>1. s \in Bits /\ t \in Bits /\ Len(s) = j /\ Len(t) = j /\ \A i \in 1..j : s[i] = t[i]
    BY <1>7, <1>8, <1>9
  <2> HIDE DEF s, t
  <2>2. s = t
    BY <2>1, SameBits
  <2> QED
    BY <2>2 DEF s, t
<1> QED
  BY <1>6, <1>10 DEF d

(* The stop bit in the complete words: whether it is there, and where.     *)
LEMMA RiceStops ==
    ASSUME Going, call.op = "rice", call.at = "fast"
    PROVE  LET to == CompleteWords(br) * BitsPerWord
               stops == StopBits(br, RiceHead, to)
               p == RiceHead + RiceZeroes
           IN  /\ stops = {} => to <= p
               /\ stops # {} => FirstOf(stops) = p /\ p < to
<1> DEFINE to == CompleteWords(br) * BitsPerWord
           n == Len(br.data)
           z == RiceZeroes
<1>1. /\ Live.data = br.data /\ n \in Nat /\ RiceHead \in Nat
      /\ Consumed(Live) = RiceHead /\ to \in Nat /\ to <= n /\ RiceHead <= to
      /\ Base \in Nat /\ Base + RiceHead = RiceAt /\ Live \in Readers
  BY FastIs
<1>2. /\ z \in Nat /\ RiceAt \in Nat
      /\ There(BufferBits(bw), RiceAt, Append(Zeroes(z), 1))
  BY RiceCodeThere
<1>3. Loaded /\ BufferBits(bw) \in Bits /\ Pos = Base + Consumed(Live)
  BY GoingIs, Placed
<1>4. 0 \in 0..z /\ Pos = RiceAt + 0 /\ z - 0 = z
  BY <1>1, <1>2, <1>3
<1>5. ZeroesFrom(Live, Consumed(Live), n, z - 0)
  BY <1>2, <1>3, <1>4, AheadZeroes
<1>6. ZeroesFrom(br, RiceHead, n, z)
  BY <1>1, <1>4, <1>5 DEF ZeroesFrom
<1> HIDE DEF to, n, z
<1>7. ZeroesFrom(br, RiceHead, to, z)
  BY <1>1, <1>2, <1>6 DEF ZeroesFrom
<1>8. /\ RiceHead + z < to => /\ StopBits(br, RiceHead, to) # {}
                              /\ FirstOf(StopBits(br, RiceHead, to)) = RiceHead + z
      /\ RiceHead + z >= to => StopBits(br, RiceHead, to) = {}
  BY <1>1, <1>2, <1>7, StopBitsAre
<1> QED
  BY <1>1, <1>2, <1>8 DEF to, z

(* A value that ends in the complete words.                                *)
LEMMA FastValue ==
    ASSUME Going, call.op = "rice", call.at = "fast",
           NEW p \in Nat, p = RiceHead + RiceZeroes,
           NEW last \in Nat, call.cw <= last, last < CompleteWords(br),
           NEW uc \in 0..BitsPerWord,
           last * BitsPerWord + (BitsPerWord - uc) = p + 1 + call.k,
           p + 1 + call.k <= Len(br.data),
           RiceOn([CrcFromRegisters(call, last) EXCEPT
                     !.consumedWords = br.consumedWords],
                  [WithValue([call EXCEPT !.msbs = p - RiceHead],
                             SubSeq(br.data, p + 2, p + 1 + call.k)) EXCEPT
                     !.cw = last, !.uc = uc])
    PROVE  ReaderInv'
<1> DEFINE W == BitsPerWord
           k == call.k
           m == p - RiceHead
           bits == SubSeq(br.data, p + 2, p + 1 + k)
           c1 == [call EXCEPT !.msbs = m]
           c == WithValue(c1, bits)
           x == [c EXCEPT !.cw = last, !.uc = uc]
           y == CrcFromRegisters(call, last)
           r == [y EXCEPT !.consumedWords = br.consumedWords]
           q == InRegisters(r, x)
<1>1. /\ br \in AnyReader /\ Len(br.data) \in Nat /\ RiceHead \in Nat
      /\ CompleteWords(br) \in Nat /\ Base \in Nat /\ Base + RiceHead = RiceAt
  BY FastIs
<1>2. /\ RiceVal \in Int /\ RiceZeroes \in Nat /\ RiceAt \in Nat
      /\ RiceBits \in Bits /\ Len(RiceBits) = k
      /\ Unfold(RiceZeroes * 2^k + Number(RiceBits)) = RiceVal
  BY RiceCodeThere
<1>3. /\ call \in RiceCalls /\ k \in Nat /\ call.todo \in Nat /\ call.todo > 0
  <2>1. /\ call \in RiceCalls
        /\ Len(call.vals) < Len(RiceItem.vals) /\ RiceItem.vals \in Seq(Int)
        /\ call.todo = Len(RiceItem.vals) - Len(call.vals)
    BY RiceIs
  <2> QED
    BY <2>1 DEF RiceCalls
<1>4. m = RiceZeroes
  BY <1>1, <1>2
<1>5. bits = RiceBits
  <2>1. Base + p = RiceAt + RiceZeroes
    BY <1>1, <1>2
  <2>2. k \in 0..call.k
    BY <1>3
  <2>3. bits = SubSeq(RiceBits, 1, k)
    BY <1>1, <2>1, <2>2, RiceBitsRead
  <2>4. SubSeq(RiceBits, 1, k) = RiceBits
    BY <1>2 DEF Bits
  <2> QED
    BY <2>3, <2>4
<1>6. RiceOn(r, x)
  OBVIOUS
<1> HIDE DEF m, bits, k
<1>7. /\ c1 \in RiceCalls /\ c1.msbs = RiceZeroes /\ c1.k = k /\ c1.todo = call.todo
      /\ c1.vals = call.vals /\ c1.at = "fast"
  BY <1>2, <1>3, <1>4 DEF RiceCalls, k
<1> HIDE DEF c1
<1>8. /\ c \in RiceCalls /\ c.k = k /\ c.todo = call.todo - 1
      /\ c.vals = Append(call.vals, RiceVal) /\ c.msbs = 0 /\ c.lsbs = <<>>
      /\ c.at = "fast"
  <2>1. c = WithValue(c1, RiceBits)
    BY <1>5
  <2>2. Unfold(c1.msbs * 2^c1.k + Number(RiceBits)) = RiceVal
    BY <1>2, <1>7
  <2>3. c1.todo > 0
    BY <1>3, <1>7
  <2>4. LET v == WithValue(c1, RiceBits)
        IN  /\ v \in RiceCalls /\ v.k = c1.k /\ v.todo = c1.todo - 1
            /\ v.vals = Append(c1.vals, RiceVal) /\ v.msbs = 0 /\ v.lsbs = <<>>
            /\ v.at = c1.at
    BY <1>2, <1>7, <2>2, <2>3, ValueStored
  <2> HIDE DEF c
  <2> QED
    BY <1>7, <2>1, <2>4
<1> HIDE DEF c
<1>9. /\ x \in RiceCalls /\ x.k = k /\ x.todo = call.todo - 1
      /\ x.vals = Append(call.vals, RiceVal) /\ x.msbs = 0 /\ x.lsbs = <<>>
      /\ x.at = "fast" /\ x.cw = last /\ x.uc = uc
  BY <1>8 DEF RiceCalls
<1> HIDE DEF x
<1>10. last * W <= Len(br.data) /\ last * W + (W - uc) >= RiceHead
       /\ last * W + (W - uc) <= Len(br.data) /\ W - uc \in 0..W
  <2> DEFINE t == last * W
  <2>1. W \in Nat /\ t \in Nat
    <3>1. W \in Nat
      BY WordWidth
    <3> HIDE DEF W
    <3> QED
      BY <3>1
  <2>2. t + (W - uc) = p + 1 + k /\ p + 1 + k <= Len(br.data)
    BY DEF k
  <2>4. uc \in 0..W
    OBVIOUS
  <2> DEFINE b == W - uc
             e == p + 1 + k
  <2>5. b \in 0..W
    <3> HIDE DEF W
    <3> QED
      BY <2>1, <2>4
  <2>6. e \in Nat /\ e >= RiceHead
    BY <1>1, <1>2, <1>3
  <2> HIDE DEF t, W, b, e
  <2>7. b \in Nat
    BY <2>1, <2>5
  <2>8. t + b = e /\ e <= Len(br.data)
    BY <2>2 DEF b, e
  <2>9. t <= Len(br.data)
    BY <1>1, <2>1, <2>6, <2>7, <2>8
  <2>3. t <= Len(br.data) /\ t + (W - uc) >= RiceHead /\ W - uc \in 0..W
    BY <2>5, <2>6, <2>8, <2>9 DEF b
  <2> QED
    BY <2>2, <2>3 DEF t
<1>11. /\ y \in AnyReader /\ y.data = br.data
  BY <1>10, FastCrc
<1> HIDE DEF y
<1>12. /\ r \in AnyReader /\ r.data = br.data /\ r.crc = y.crc /\ r.crcAlign = y.crcAlign
  <2>1. br.consumedWords \in Nat
    BY <1>1 DEF AnyReader
  <2> QED
    BY <1>11, <2>1 DEF AnyReader
<1> HIDE DEF r
<1>13. /\ q \in AnyReader /\ q.data = br.data /\ q.crc = y.crc
       /\ q.crcAlign = y.crcAlign
       /\ q.consumedWords = last /\ q.consumedBits = W - uc
  <2>1. x.cw \in Nat /\ x.uc \in 0..BitsPerWord
    BY <1>9
  <2>2. /\ q \in AnyReader /\ q.data = r.data /\ q.crc = r.crc
        /\ q.crcAlign = r.crcAlign
        /\ q.consumedWords = x.cw /\ q.consumedBits = BitsPerWord - x.uc
    BY <1>12, <2>1, RegistersAre
  <2> HIDE DEF q
  <2> QED
    BY <1>9, <1>12, <2>2
<1> HIDE DEF q
<1>14. /\ Moves(q, Live, Consumed(q)) /\ q \in Readers
       /\ Consumed(q) = last * W + (W - uc)
  BY <1>10, <1>13, FastMoves DEF y
<1>15. ReaderOf(r, x) = q
  BY <1>9 DEF ReaderOf, q
<1>16. Base + Consumed(q) = RiceAt + (RiceZeroes + 1 + k)
  <2>1. Consumed(q) = p + 1 + k
    BY <1>14 DEF k
  <2>2. k \in Nat
    BY <1>3
  <2> QED
    BY <1>1, <1>2, <2>1, <2>2
<1>17. x.at = "fast" => x.cw < CompleteWords(r)
  BY <1>9, <1>12 DEF CompleteWords
<1> QED
  BY <1>6, <1>9, <1>12, <1>14, <1>15, <1>16, <1>17, RiceValueRead DEF k

(* The end of the complete words: the registers go back into the reader.   *)
LEMMA FastSpent ==
    ASSUME Going, call.op = "rice", call.at = "fast"
    PROVE  LET words == CompleteWords(br)
               x == [CrcFromRegisters(call, words) EXCEPT
                       !.consumedWords = words, !.consumedBits = 0]
           IN  /\ x \in Readers /\ x.data = br.data
               /\ Moves(x, Live, Consumed(x))
               /\ Consumed(x) = words * BitsPerWord
<1> DEFINE words == CompleteWords(br)
           y == CrcFromRegisters(call, words)
           x == [y EXCEPT !.consumedWords = words, !.consumedBits = 0]
           t == words * BitsPerWord
<1>1. /\ words \in Nat /\ call.cw <= words /\ t \in Nat /\ t <= Len(br.data)
      /\ RiceHead <= t /\ RiceHead \in Nat
  BY FastIs
<1>2. /\ y \in AnyReader /\ y.data = br.data
  BY <1>1, FastCrc
<1>3. 0 \in 0..BitsPerWord
  BY WordWidth
<1> HIDE DEF y, words
<1>4. /\ x \in AnyReader /\ x.data = br.data /\ x.crc = y.crc
      /\ x.crcAlign = y.crcAlign /\ x.consumedWords = words /\ x.consumedBits = 0
  BY <1>1, <1>2, <1>3 DEF AnyReader
<1> HIDE DEF x
<1>5. t + 0 = t /\ t + 0 >= RiceHead /\ t + 0 <= Len(br.data)
  <2> HIDE DEF t
  <2> QED
    BY <1>1
<1>6. Moves(x, Live, Consumed(x)) /\ x \in Readers /\ Consumed(x) = t + 0
  BY <1>1, <1>3, <1>4, <1>5, FastMoves DEF y
<1> QED
  BY <1>4, <1>5, <1>6 DEF x, y, words

LEMMA RiceFastReads ==
    ASSUME Going, RiceFast
    PROVE  ReaderInv'
<1> DEFINE W == BitsPerWord
           words == CompleteWords(br)
           k == call.k
           stops == StopBits(br, RiceHead, words * W)
           p == FirstOf(stops)
           cw == p \div W
           rest == p % W
           uc == W - 1 - (p % W)
           spent == [CrcFromRegisters(call, words) EXCEPT
                       !.consumedWords = words, !.consumedBits = 0]
<1>1. call.op = "rice" /\ call.at = "fast"
  BY DEF RiceFast
<1>2. \/ /\ stops = {}
         /\ Continues(spent, [call EXCEPT !.at = "msbs",
                                          !.msbs = words * W - RiceHead])
      \/ /\ stops # {} /\ k <= uc
         /\ RiceOn([CrcFromRegisters(call, cw) EXCEPT
                      !.consumedWords = br.consumedWords],
                   [WithValue([call EXCEPT !.msbs = p - RiceHead],
                              SubSeq(br.data, p + 2, p + 1 + k)) EXCEPT
                      !.cw = cw, !.uc = uc - k])
      \/ /\ stops # {} /\ k > uc /\ cw + 1 < words
         /\ RiceOn([CrcFromRegisters(call, cw + 1) EXCEPT
                      !.consumedWords = br.consumedWords],
                   [WithValue([call EXCEPT !.msbs = p - RiceHead],
                              SubSeq(br.data, p + 2, p + 1 + k)) EXCEPT
                      !.cw = cw + 1, !.uc = uc + W - k])
      \/ /\ stops # {} /\ k > uc /\ cw + 1 >= words
         /\ Continues(spent,
              [call EXCEPT !.at = "lsbs", !.msbs = p - RiceHead,
                           !.lsbs = SubSeq(br.data, p + 2, p + 1 + uc)])
  BY DEF RiceFast, RiceHead
<1>3. /\ Len(br.data) \in Nat /\ words \in Nat /\ words * W \in Nat
      /\ words * W <= Len(br.data) /\ RiceHead \in Nat /\ RiceHead <= words * W
      /\ call.cw \in Nat /\ call.cw < words /\ call.cw * W \in Nat
      /\ call.uc \in 0..W /\ RiceHead = call.cw * W + (W - call.uc)
      /\ Base \in Nat /\ Base + RiceHead = RiceAt
  BY <1>1, FastIs
<1>4. /\ RiceZeroes \in Nat /\ RiceBits \in Bits /\ Len(RiceBits) = k
  BY <1>1, RiceCodeThere
<1>5. /\ call \in RiceCalls /\ k \in Nat /\ k <= W - 2 /\ RicePlaces
  BY <1>1, RiceIs
<1>6. call.msbs = 0 /\ call.lsbs = <<>>
  BY <1>1, <1>5 DEF RicePlaces
<1>7. /\ stops = {} => words * W <= RiceHead + RiceZeroes
      /\ stops # {} => p = RiceHead + RiceZeroes /\ p < words * W
  BY <1>1, RiceStops
<1>8. W \in Nat /\ W >= 4
  BY WordWidth
<1>9. /\ spent \in Readers /\ spent.data = br.data
      /\ Moves(spent, Live, Consumed(spent)) /\ Consumed(spent) = words * W
  BY <1>1, FastSpent
<1> HIDE DEF k, p, stops, spent, words
<1>10. ASSUME stops # {}
       PROVE  /\ p \in Nat /\ rest \in 0..(W - 1) /\ cw \in Nat /\ cw * W \in Nat
              /\ p = cw * W + rest /\ uc = W - 1 - rest /\ uc \in 0..(W - 1)
              /\ cw < words /\ call.cw <= cw
              /\ (cw + 1) * W = cw * W + W /\ (cw + 1) * W = p + 1 + uc
  <2>1. p \in Nat /\ p < words * W /\ p >= call.cw * W
    <3> DEFINE t == call.cw * W
    <3>1. p \in Nat /\ p < words * W
      BY <1>3, <1>4, <1>7, <1>10
    <3>2. p = RiceHead + RiceZeroes /\ RiceHead = t + (W - call.uc) /\ t \in Nat
          /\ call.uc \in 0..W
      BY <1>3, <1>7, <1>10
    <3> HIDE DEF t, W
    <3>3. RiceHead >= t
      BY <1>8, <3>2
    <3> QED
      BY <1>3, <1>4, <3>1, <3>2, <3>3 DEF t
  <2>2. W \in Nat \ {0}
    BY <1>8
  <2> HIDE DEF W
  <2>3. cw \in Nat /\ rest \in 0..(W - 1) /\ p = cw * W + rest
    BY <2>1, <2>2, QuotientRest
  <2>4. cw < words
    BY <1>3, <2>1, <2>2, QuotientBelow
  <2>5. cw >= call.cw
    BY <1>3, <2>1, <2>2, QuotientFrom
  <2> HIDE DEF cw, rest
  <2>6. cw * W \in Nat /\ (cw + 1) * W = cw * W + W
    BY <2>2, <2>3, AtLeast
  <2>7. uc = W - 1 - rest
    BY DEF rest
  <2> DEFINE t == cw * W
             t1 == (cw + 1) * W
  <2>8. t \in Nat /\ t1 = t + W /\ p = t + rest
    BY <2>3, <2>6
  <2> HIDE DEF t, t1, uc
  <2>9. uc \in 0..(W - 1) /\ t1 = p + 1 + uc
    BY <1>8, <2>1, <2>3, <2>7, <2>8
  <2> QED
    BY <1>3, <2>1, <2>3, <2>4, <2>5, <2>6, <2>7, <2>9 DEF t1
<1>11. CASE /\ stops = {}
            /\ Continues(spent, [call EXCEPT !.at = "msbs",
                                             !.msbs = words * W - RiceHead])
  <2> DEFINE m == words * W - RiceHead
             x == [call EXCEPT !.at = "msbs", !.msbs = m]
  <2>1. m \in Nat /\ m <= RiceZeroes /\ RiceHead + m = words * W
    <3> DEFINE t == words * W
    <3>1. t \in Nat /\ RiceHead <= t /\ t <= RiceHead + RiceZeroes
      BY <1>3, <1>7, <1>11
    <3> HIDE DEF t
    <3> QED
      BY <1>3, <1>4, <3>1 DEF t
  <2>2. Continues(spent, x)
    BY <1>11
  <2> HIDE DEF m
  <2>3. /\ x \in RiceCalls /\ x.k = call.k /\ x.todo = call.todo
        /\ x.vals = call.vals /\ x.msbs = m /\ x.lsbs = <<>> /\ x.at = "msbs"
    BY <1>5, <1>6, <2>1 DEF RiceCalls
  <2> HIDE DEF x
  <2>4. Base + Consumed(spent) = RiceAt + x.msbs
    <3>1. Consumed(spent) = RiceHead + m
      BY <1>9, <2>1
    <3> QED
      BY <1>3, <2>1, <2>3, <3>1
  <2> QED
    BY <1>1, <1>9, <2>1, <2>2, <2>3, <2>4, RicePartRead
<1>12. CASE /\ stops # {} /\ k <= uc
            /\ RiceOn([CrcFromRegisters(call, cw) EXCEPT
                         !.consumedWords = br.consumedWords],
                      [WithValue([call EXCEPT !.msbs = p - RiceHead],
                                 SubSeq(br.data, p + 2, p + 1 + k)) EXCEPT
                         !.cw = cw, !.uc = uc - k])
  <2>1. /\ p \in Nat /\ rest \in 0..(W - 1) /\ cw \in Nat /\ cw * W \in Nat
        /\ p = cw * W + rest /\ uc = W - 1 - rest /\ uc \in 0..(W - 1)
        /\ cw < words /\ call.cw <= cw
        /\ (cw + 1) * W = cw * W + W /\ (cw + 1) * W = p + 1 + uc
    BY <1>10, <1>12
  <2> DEFINE u == uc - k
             t == cw * W
  <2>2. RiceOn([CrcFromRegisters(call, cw) EXCEPT
                  !.consumedWords = br.consumedWords],
               [WithValue([call EXCEPT !.msbs = p - RiceHead],
                          SubSeq(br.data, p + 2, p + 1 + k)) EXCEPT
                  !.cw = cw, !.uc = u])
    BY <1>12
  <2> HIDE DEF W, cw, rest, uc
  <2>3. /\ t \in Nat /\ t + W = p + 1 + uc /\ p = t + rest
    BY <2>1
  <2> HIDE DEF t
  <2>4. u \in 0..W
    BY <1>5, <1>8, <1>12, <2>1
  <2>5. t + (W - u) = p + 1 + k
    BY <1>5, <1>8, <2>1, <2>3
  <2>6. p + 1 + k <= Len(br.data)
    <3>1. \A e, f, g \in Nat : e <= f => e * g <= f * g
      OBVIOUS
    <3>2. cw + 1 <= words /\ cw + 1 \in Nat
      BY <1>3, <2>1
    <3>3. (cw + 1) * W <= words * W
      BY <1>3, <1>8, <3>1, <3>2
    <3> DEFINE a == words * W
               b == (cw + 1) * W
    <3>4. a \in Nat /\ a <= Len(br.data) /\ b <= a /\ b = p + 1 + uc
      BY <1>3, <2>1, <3>3
    <3>5. k \in Nat /\ k <= uc /\ uc \in Nat /\ p \in Nat /\ Len(br.data) \in Nat
      BY <1>3, <1>5, <1>8, <1>12, <2>1
    <3> HIDE DEF a, b
    <3> QED
      BY <3>4, <3>5
  <2> HIDE DEF u
  <2>7. p = RiceHead + RiceZeroes
    BY <1>7, <1>12
  <2> QED
    BY <1>1, <2>1, <2>2, <2>4, <2>5, <2>6, <2>7, FastValue DEF W, words, k, t
<1>13. CASE /\ stops # {} /\ k > uc /\ cw + 1 < words
            /\ RiceOn([CrcFromRegisters(call, cw + 1) EXCEPT
                         !.consumedWords = br.consumedWords],
                      [WithValue([call EXCEPT !.msbs = p - RiceHead],
                                 SubSeq(br.data, p + 2, p + 1 + k)) EXCEPT
                         !.cw = cw + 1, !.uc = uc + W - k])
  <2>1. /\ p \in Nat /\ rest \in 0..(W - 1) /\ cw \in Nat /\ cw * W \in Nat
        /\ p = cw * W + rest /\ uc = W - 1 - rest /\ uc \in 0..(W - 1)
        /\ cw < words /\ call.cw <= cw
        /\ (cw + 1) * W = cw * W + W /\ (cw + 1) * W = p + 1 + uc
    BY <1>10, <1>13
  <2> DEFINE u == uc + W - k
             last == cw + 1
             t == last * W
  <2>2. RiceOn([CrcFromRegisters(call, last) EXCEPT
                  !.consumedWords = br.consumedWords],
               [WithValue([call EXCEPT !.msbs = p - RiceHead],
                          SubSeq(br.data, p + 2, p + 1 + k)) EXCEPT
                  !.cw = last, !.uc = u])
    BY <1>13
  <2>3. last < words
    BY <1>13
  <2> HIDE DEF W, cw, rest, uc
  <2>4. /\ t = p + 1 + uc /\ last \in Nat /\ call.cw <= last
    <3>1. t = p + 1 + uc
      BY <2>1
    <3>2. cw \in Nat /\ call.cw \in Nat /\ call.cw <= cw
      BY <1>3, <2>1
    <3>3. last \in Nat /\ call.cw <= last
      BY <3>2
    <3> QED
      BY <3>1, <3>3
  <2> HIDE DEF t, last
  <2>5. u \in 0..W
    BY <1>5, <1>8, <1>13, <2>1
  <2>6. t + (W - u) = p + 1 + k
    BY <1>5, <1>8, <2>1, <2>4
  <2>7. p + 1 + k <= Len(br.data)
    <3>1. \A e, f, g \in Nat : e <= f => e * g <= f * g
      OBVIOUS
    <3>2. last + 1 <= words /\ last + 1 \in Nat
      BY <1>3, <2>3, <2>4
    <3>3. (last + 1) * W <= words * W
      BY <1>3, <1>8, <3>1, <3>2
    <3>4. (last + 1) * W = t + W /\ t \in Nat
      BY <1>8, <2>4, AtLeast DEF t
    <3> DEFINE a == words * W
               b == (last + 1) * W
    <3>5. a \in Nat /\ a <= Len(br.data) /\ b <= a /\ b = t + W
      BY <1>3, <3>3, <3>4
    <3> HIDE DEF a, b
    <3> QED
      BY <1>3, <1>5, <1>8, <2>1, <2>4, <3>4, <3>5
  <2> HIDE DEF u
  <2>8. p = RiceHead + RiceZeroes
    BY <1>7, <1>13
  <2> QED
    BY <1>1, <2>1, <2>2, <2>3, <2>4, <2>5, <2>6, <2>7, <2>8, FastValue
       DEF W, words, k, t
<1>14. CASE /\ stops # {} /\ k > uc /\ cw + 1 >= words
            /\ Continues(spent,
                 [call EXCEPT !.at = "lsbs", !.msbs = p - RiceHead,
                              !.lsbs = SubSeq(br.data, p + 2, p + 1 + uc)])
  <2>1. /\ p \in Nat /\ cw \in Nat /\ uc \in 0..(W - 1)
        /\ cw < words /\ (cw + 1) * W = p + 1 + uc
    BY <1>10, <1>14
  <2> DEFINE m == p - RiceHead
             bits == SubSeq(br.data, p + 2, p + 1 + uc)
             x == [call EXCEPT !.at = "lsbs", !.msbs = m, !.lsbs = bits]
  <2>2. Continues(spent, x) /\ k > uc /\ cw + 1 >= words
    BY <1>14
  <2> HIDE DEF W, cw, uc
  <2>3. cw + 1 = words
    BY <1>3, <2>1, <2>2
  <2>4. words * W = p + 1 + uc
    BY <2>1, <2>3
  <2>5. m = RiceZeroes /\ m \in Nat /\ p = RiceHead + RiceZeroes
    <3>1. p = RiceHead + RiceZeroes
      BY <1>7, <1>14
    <3> QED
      BY <1>3, <1>4, <3>1
  <2>6. uc \in Nat /\ uc \in 0..k
    BY <1>5, <1>8, <2>1, <2>2
  <2>7. bits = SubSeq(RiceBits, 1, uc)
    <3>1. Base + p = RiceAt + RiceZeroes
      BY <1>3, <1>4, <2>1, <2>5
    <3>2. p + 1 + uc <= Len(br.data)
      BY <1>3, <2>4
    <3> QED
      BY <1>1, <2>1, <2>6, <3>1, <3>2, RiceBitsRead DEF k
  <2>8. bits \in Seq(Bit) /\ Len(bits) = uc
    <3>1. SubSeq(RiceBits, 1, uc) \in Seq(Bit) /\ Len(SubSeq(RiceBits, 1, uc)) = uc
      BY <1>4, <1>5, <2>6 DEF Bits
    <3> QED
      BY <2>7, <3>1
  <2> HIDE DEF m, bits
  <2>9. /\ x \in RiceCalls /\ x.k = call.k /\ x.todo = call.todo
        /\ x.vals = call.vals /\ x.msbs = m /\ x.lsbs = bits /\ x.at = "lsbs"
    BY <1>5, <2>5, <2>8 DEF RiceCalls
  <2> HIDE DEF x
  <2>10. Base + Consumed(spent) = RiceAt + x.msbs + 1 + Len(x.lsbs)
    <3>1. Consumed(spent) = p + 1 + uc
      BY <1>9, <2>4
    <3>2. x.msbs = RiceZeroes /\ Len(x.lsbs) = uc
      BY <2>5, <2>8, <2>9
    <3> QED
      BY <1>3, <1>4, <2>5, <2>6, <3>1, <3>2
  <2>11. x.msbs = RiceZeroes /\ Len(x.lsbs) <= call.k
         /\ x.lsbs = SubSeq(RiceBits, 1, Len(x.lsbs))
    BY <1>5, <2>5, <2>6, <2>7, <2>8, <2>9 DEF k
  <2> QED
    BY <1>1, <1>9, <2>2, <2>9, <2>10, <2>11, RicePartRead
<1> QED
  BY <1>2, <1>11, <1>12, <1>13, <1>14

-----------------------------------------------------------------------------
(* Every step.                                                             *)
LEMMA NewReaderIs == NewReader \in Readers /\ NewReader \in AnyReader /\ Consumed(NewReader) = 0
<1>1. BitsPerWord \in Nat
  BY WordWidth
<1>2. <<>> \in Seq(Bit) /\ Len(<<>>) = 0
  OBVIOUS
<1>3. NewReader \in AnyReader
  BY <1>1, <1>2 DEF NewReader, AnyReader
<1>4. Consumed(NewReader) = 0
  BY <1>1 DEF Consumed, NewReader
<1> QED
  BY <1>3, <1>4 DEF Readers, NewReader

LEMMA InitReader == Init => ReaderInv
<1> SUFFICES ASSUME Init PROVE ReaderInv
  OBVIOUS
<1>1. <<>> \in Seq(Items) /\ Len(<<>>) = 0 /\ <<>> = SubSeq(<<>>, 1, Len(<<>>))
  OBVIOUS
<1>2. Untouched /\ crcFrom = -1 /\ phase = "writing" /\ got = <<>> /\ items = <<>>
  BY DEF Init, Untouched
<1> QED
  BY <1>1, <1>2 DEF ReaderInv

LEMMA WriteKeepsReader ==
    ASSUME WriterInv', ReaderInv, phase = "writing", NEW after, NEW it, Wrote(after, it)
    PROVE  ReaderInv'
<1>1. Untouched /\ crcFrom = -1
  BY DEF ReaderInv
<1>2. Untouched' /\ crcFrom' = -1 /\ got' = <<>>
  BY <1>1 DEF Wrote, Untouched
<1>3. items' \in Seq(Items)
  BY DEF WriterInv
<1>4. Len(got') <= Len(items') /\ got' = SubSeq(items', 1, Len(got')) /\ got' \in Seq(Items)
  BY <1>2, <1>3
<1>5. /\ phase' \in {"writing", "failed"} /\ (phase' = "writing" \/ ~ bw'.ok)
  BY DEF Wrote
<1> QED
  BY <1>2, <1>4, <1>5 DEF ReaderInv

(* Of the buffer whole bytes are taken. *)
LEMMA TakenIs ==
    ASSUME NEW s \in Bits, NEW n \in 0..(Len(s) \div BitsPerByte)
    PROVE  LET t == SubSeq(s, 1, n * BitsPerByte)
           IN  t \in Bits /\ Len(t) <= Len(s) /\ t = SubSeq(s, 1, Len(t))
<1>1. Len(s) \in Nat /\ BitsPerByte \in Nat \ {0}
  BY ByteWidth DEF Bits
<1>2. n * BitsPerByte \in Nat /\ n * BitsPerByte <= Len(s)
  <2> DEFINE q == Len(s) \div BitsPerByte
  <2>1. /\ q \in Nat /\ Len(s) % BitsPerByte \in 0..(BitsPerByte - 1)
        /\ Len(s) = q * BitsPerByte + (Len(s) % BitsPerByte)
    BY <1>1, QuotientRest
  <2>2. \A e, f, g \in Nat : e <= f => e * g <= f * g
    OBVIOUS
  <2>3. n \in Nat /\ n <= q
    BY <2>1
  <2> HIDE DEF q
  <2>4. n * BitsPerByte <= q * BitsPerByte /\ n * BitsPerByte \in Nat /\ q * BitsPerByte \in Nat
    BY <1>1, <2>1, <2>2, <2>3
  <2> DEFINE a == n * BitsPerByte
             b == q * BitsPerByte
             c == Len(s) % BitsPerByte
  <2>5. a \in Nat /\ b \in Nat /\ a <= b /\ c \in Nat /\ Len(s) = b + c
    BY <1>1, <2>1, <2>4
  <2> HIDE DEF a, b, c
  <2>6. a <= Len(s)
    BY <2>5
  <2> QED
    BY <2>4, <2>6 DEF a
<1> DEFINE m == n * BitsPerByte
<1> HIDE DEF m
<1>3. m \in Nat /\ m <= Len(s) /\ s \in Seq(Bit)
  BY <1>2 DEF m, Bits
<1>4. /\ SubSeq(s, 1, m) \in Seq(Bit) /\ Len(SubSeq(s, 1, m)) = m
  BY <1>3
<1> QED
  BY <1>3, <1>4 DEF m, Bits

LEMMA TakeKeepsReader ==
    ASSUME WriterInv', ReaderInv, TakeBuffer
    PROVE  ReaderInv'
<1> DEFINE s == BufferBits(bw')
<1>1. phase = "writing" /\ Untouched /\ crcFrom = -1 /\ UNCHANGED <<items, fed, br, call, got, crcFrom>>
  BY DEF TakeBuffer, ReaderInv
<1>2. /\ got' = <<>> /\ call' = NoCall /\ br' = NewReader /\ fed' = 0
      /\ crcFrom' = -1 /\ Untouched'
  BY <1>1 DEF Untouched
<1>3. /\ items' \in Seq(Items) /\ bw' \in Writers
  BY DEF WriterInv
<1>4. s \in Bits
  BY <1>3, WriterFields
<1>5. Len(got') <= Len(items') /\ got' = SubSeq(items', 1, Len(got')) /\ got' \in Seq(Items)
  BY <1>2, <1>3
<1>6. phase' \in {"reading", "failed"} /\ (phase' = "failed" <=> ~ bw'.ok)
  BY DEF TakeBuffer
<1>7. /\ stream' \in Seq(Bit) /\ Len(stream') <= Len(s)
      /\ stream' = SubSeq(s, 1, Len(stream'))
  <2>1. PICK n \in 0..(Len(s) \div BitsPerByte) : stream' = SubSeq(s, 1, n * BitsPerByte)
    BY DEF TakeBuffer
  <2> HIDE DEF s
  <2>2. /\ stream' \in Bits /\ Len(stream') <= Len(s)
        /\ stream' = SubSeq(s, 1, Len(stream'))
    BY <1>4, <2>1, TakenIs
  <2> QED
    BY <2>2 DEF Bits
<1>8. Live' = NewReader
  BY <1>2 DEF Live, NoCall
<1>9. /\ NewReader.data = <<>> /\ Len(NewReader.data) = 0
  BY DEF NewReader
<1>10. Base' = 0
  <2>1. br'.data = <<>> /\ Len(br'.data) = 0 /\ fed' = 0
    BY <1>2, <1>9
  <2>2. Base' = fed' - Len(br'.data)
    BY DEF Base
  <2> QED
    BY <2>1, <2>2
<1>11. br'.data = SubSeq(stream', Base' + 1, fed')
  BY <1>2, <1>7, <1>9, <1>10
<1>12. Loaded'
  <2>1. Live' \in Readers /\ br' \in AnyReader
    BY <1>2, <1>8, NewReaderIs
  <2>2. Len(br'.data) = 0 /\ fed' = 0 /\ Len(stream') \in Nat
    BY <1>2, <1>7, <1>9
  <2>3. fed' \in 0..Len(stream') /\ Len(br'.data) <= fed'
    BY <2>2
  <2> QED
    BY <1>7, <1>11, <2>1, <2>3 DEF Loaded
<1>13. Pos' = 0
  BY <1>8, <1>10, NewReaderIs DEF Pos
<1>14. Progress'
  <2>1. Len(Codes(got')) = 0
    BY <1>2, CodesOfNone
  <2> QED
    BY <1>2, <1>13, <2>1 DEF Progress
<1>15. Checked'
  BY <1>2 DEF Checked, Counted
<1> QED
  BY <1>2, <1>5, <1>6, <1>12, <1>14, <1>15 DEF ReaderInv

LEMMA ReaderGoes ==
    ASSUME WriterInv, ReaderInv, Reader \/ ResetCrc \/ GetCrc
    PROVE  Going
<1>1. phase = "reading" \/ call # NoCall
  <2>1. NoCall.op = "none"
    BY DEF NoCall
  <2> QED
    BY <2>1 DEF Reader, ResetCrc, GetCrc, BeginRead, ReadRaw, ReadUnary, RiceFast,
                RiceMsbs, RiceLsbs, ReadBlockByte, ReadBlockWord, Fetch, FetchFails
<1> QED
  BY <1>1 DEF Going, ReaderInv, Untouched

LEMMA NextReader == WriterInv /\ ReaderInv /\ [Next]_vars => ReaderInv'
<1> SUFFICES ASSUME WriterInv, ReaderInv, [Next]_vars PROVE ReaderInv'
  OBVIOUS
<1>1. WriterInv'
  BY NextWriter
<1>2. CASE Writer
  <2>1. ASSUME NEW after, NEW it, phase = "writing", Wrote(after, it) PROVE ReaderInv'
    BY <1>1, <2>1, WriteKeepsReader
  <2>2. CASE WriteRawItem
    BY <2>1, <2>2 DEF WriteRawItem, MayWrite
  <2>3. CASE WriteUnaryItem
    BY <2>1, <2>3 DEF WriteUnaryItem, MayWrite
  <2>4. CASE WriteRiceBlock
    BY <2>1, <2>4 DEF WriteRiceBlock, MayWrite
  <2>5. CASE WriteRiceSingly
    BY <2>1, <2>5 DEF WriteRiceSingly, MayWrite
  <2>6. CASE WriteBlock
    BY <2>1, <2>6 DEF WriteBlock, MayWrite
  <2>7. CASE TakeBuffer
    BY <1>1, <2>7, TakeKeepsReader
  <2> QED
    BY <1>2, <2>2, <2>3, <2>4, <2>5, <2>6, <2>7 DEF Writer
<1>3. CASE Reader \/ ResetCrc \/ GetCrc
  <2>1. Going
    BY <1>3, ReaderGoes
  <2> QED
    BY <1>3, <2>1, BeginsRead, RawReads, UnaryReads, RiceFastReads, RiceMsbsReads,
       RiceLsbsReads, BlockByteReads, BlockWordReads, Fetches, FetchesNot, CrcResets,
       CrcGets DEF Reader
<1>4. CASE UNCHANGED vars
  <2>1. UNCHANGED <<bw, items, phase, stream, fed, br, call, got, crcFrom>>
    BY <1>4 DEF vars
  <2>2. Live' = Live /\ Base' = Base
    BY <2>1 DEF Live, Base
  <2>3. Pos' = Pos
    BY <2>2 DEF Pos
  <2>4. Loaded' = Loaded
    BY <2>1, <2>2 DEF Loaded
  <2>5. Progress' = Progress
    BY <2>1, <2>3 DEF Progress, RawDone, UnaryDone, RiceDone, BlockDone
  <2>6. Checked' = Checked
    BY <2>1, <2>2 DEF Checked, Counted, CrcUpTo
  <2>7. Untouched' = Untouched
    BY <2>1 DEF Untouched
  <2> QED
    BY <2>1, <2>4, <2>5, <2>6, <2>7 DEF ReaderInv
<1> QED
  BY <1>2, <1>3, <1>4 DEF Next

(* What was read is a beginning of what was written, and the reader stands *)
(* in the stream where the codes of it end, plus what the call under way   *)
(* has read of the next code; its CRC has every bit since the reset.       *)
THEOREM ReaderInvariant == Spec => []ReaderInv
<1>1. Init => ReaderInv
  BY InitReader
<1>2. WriterInv /\ ReaderInv /\ [Next]_vars => ReaderInv'
  BY NextReader
<1> QED
  BY <1>1, <1>2, WriterInvariant, PTL DEF Spec

(* Items of every kind are read back as they were written, for words and   *)
(* items of any size, whatever pieces the client's callback hands out and  *)
(* wherever a word or the buffer ends inside of a code.                    *)
THEOREM RoundTripHolds == Spec => []RoundTrip
<1>1. ReaderInv => RoundTrip
  BY DEF ReaderInv, RoundTrip
<1> QED
  BY <1>1, ReaderInvariant, PTL

(* The CRC-16 that is asked for at a byte boundary is over all bits since  *)
(* it was reset, each once, however they were read.                        *)
LEMMA CrcIsOver == WriterInv /\ ReaderInv => CrcCovers
<1> SUFFICES ASSUME WriterInv, ReaderInv, phase = "reading", call = NoCall,
                    crcFrom >= 0, \A i \in DOMAIN got : got[i].op # "block"
             PROVE  CrcRead(br).crc = SubSeq(stream, crcFrom + 1, Len(Codes(got)))
  BY DEF CrcCovers
<1>1. Going
  BY DEF Going, ReaderInv
<1>2. call.op = "none" /\ Live = br
  BY DEF NoCall, Live
<1>3. /\ Loaded /\ Checked /\ BufferBits(bw) \in Bits /\ crcFrom \in Int
      /\ br \in Readers
  BY <1>1, <1>2, GoingIs
<1>4. /\ br.crcAlign <= br.consumedBits /\ crcFrom <= Base + CrcPlace(br)
      /\ br.crc = SubSeq(stream, crcFrom + 1, Base + CrcPlace(br))
  BY <1>2, <1>3 DEF Checked, Counted, CrcUpTo
<1>5. /\ CrcRead(br).crc = br.crc \o SubSeq(br.data, CrcPlace(br) + 1, Consumed(br))
      /\ CrcPlace(br) <= Consumed(br)
  <2>1. /\ Moves(CrcRead(br), br, Consumed(br))
        /\ CrcPlace(CrcRead(br)) = Consumed(br) /\ CrcPlace(br) <= Consumed(br)
    BY <1>3, <1>4, CrcReadMoves
  <2> QED
    BY <1>4, <2>1 DEF Moves
<1>6. /\ Base \in Nat /\ Consumed(br) \in Nat /\ Consumed(br) <= Len(br.data)
      /\ Pos = Base + Consumed(br) /\ Pos <= Len(stream) /\ Pos \in Nat
      /\ stream \in Bits /\ CrcPlace(br) \in Nat /\ crcFrom \in Nat
  <2>1. /\ Base \in Nat /\ Consumed(br) \in 0..Len(br.data) /\ Pos \in Nat
        /\ Len(br.data) \in Nat
        /\ Pos = Base + Consumed(br) /\ Pos <= fed /\ fed <= Len(stream)
        /\ stream \in Bits /\ fed \in Nat /\ Len(stream) \in Nat
    BY <1>2, <1>3, Placed
  <2>2. CrcPlace(br) \in Nat
    BY <1>3, ReaderIs
  <2> QED
    BY <1>3, <2>1, <2>2
<1>7. SubSeq(br.data, CrcPlace(br) + 1, Consumed(br))
         = SubSeq(stream, (Base + CrcPlace(br)) + 1, Base + Consumed(br))
  BY <1>3, <1>5, <1>6, DataPiece
<1>8. CrcRead(br).crc = SubSeq(stream, crcFrom + 1, Pos)
  <2> DEFINE b == Base + CrcPlace(br)
  <2>1. b \in Nat /\ crcFrom <= b /\ b <= Pos
    BY <1>4, <1>5, <1>6
  <2>2. SubSeq(stream, crcFrom + 1, b) \o SubSeq(stream, b + 1, Pos)
           = SubSeq(stream, crcFrom + 1, Pos)
    BY <1>6, <2>1, PiecesJoin
  <2> QED
    BY <1>4, <1>5, <1>6, <1>7, <2>2
<1>9. Pos = Len(Codes(got))
  BY <1>1, CallIs
<1> QED
  BY <1>8, <1>9

(* The CRC the reader compares with the footer of a frame is that of the   *)
(* frame's bytes, for words of any width and refills at any place.         *)
THEOREM CrcCoversHolds == Spec => []CrcCovers
BY CrcIsOver, WriterInvariant, ReaderInvariant, PTL

(* A value of a block ends where its item does, or before.                 *)
LEMMA RiceEnds ==
    ASSUME Going, call.op = "rice"
    PROVE  /\ RiceZeroes \in Nat /\ RiceAt \in Nat
           /\ RiceAt + (RiceZeroes + 1 + call.k) <= Len(Codes(got)) + Len(Code(RiceItem))
<1> DEFINE vs == RiceItem.vals
           k == call.k
           n == Len(vs)
           j == Len(call.vals)
           f == RiceCodes(RiceItem)
           from == Len(Codes(got))
           a == Len(Joined(f, j))
           b == Len(Joined(f, j + 1))
           e == Len(Joined(f, n))
<1>1. /\ RiceItem \in Items /\ RiceItem.op = "rice" /\ vs \in Seq(Int)
      /\ k = RiceItem.k /\ k \in Nat /\ k <= BitsPerWord - 2
      /\ j \in Nat /\ j < n /\ Len(got) < Len(items)
  BY RiceIs
<1>2. n \in Nat /\ j + 1 \in 1..n /\ (j + 1) - 1 = j
  <2>1. n \in Nat
    BY <1>1
  <2> HIDE DEF n, j
  <2> QED
    BY <1>1, <2>1
<1>3. \A i \in 1..n : f[i] \in Bits
  <2> TAKE i \in 1..n
  <2>1. i \in DOMAIN vs /\ vs[i] \in Int
    BY <1>1
  <2>2. f[i] = RiceCode(vs[i], k)
    BY <1>1, <2>1 DEF RiceCodes
  <2>3. RiceCode(vs[i], k) \in Bits
    <3> HIDE DEF k, vs
    <3> QED
      BY <1>1, <2>1, RiceCodeIs
  <2> QED
    BY <2>2, <2>3
<1>4. RiceZeroes \in Nat /\ RiceAt \in Nat /\ b = a + (RiceZeroes + 1 + k)
  BY RiceCodeThere
<1>5. Code(RiceItem) = Joined(f, n)
  BY <1>1, ItemIs
<1>6. from \in Nat /\ RiceAt = from + a
  BY <1>1, NextIs DEF RiceAt
<1> HIDE DEF f
<1>7. b <= e /\ a \in Nat
  <2> HIDE DEF n, j
  <2>1. /\ Len(Joined(f, j + 1)) <= Len(Joined(f, n))
        /\ Len(Joined(f, (j + 1) - 1)) \in Nat
    BY <1>2, <1>3, JoinedThere
  <2> QED
    BY <1>2, <2>1
<1>8. e \in Nat
  <2> HIDE DEF n
  <2>1. Joined(f, n) \in Bits
    BY <1>2, <1>3, JoinedIsBits
  <2> QED
    BY <2>1 DEF Bits
<1> HIDE DEF a, b, e, from, k
<1>9. RiceAt + (RiceZeroes + 1 + k) <= from + e
  BY <1>1, <1>4, <1>6, <1>7, <1>8
<1> QED
  BY <1>4, <1>5, <1>9 DEF e, from, k

-----------------------------------------------------------------------------
(* What the reader refuses.  When it goes to the client less than a word   *)
(* is unconsumed, so that its buffer always has room for more.             *)
LEMMA RoomIsLeft ==
    ASSUME NEW r \in Readers, Unconsumed(r) < BitsPerWord
    PROVE  Room(r) \in Int /\ Room(r) > 0
<1> DEFINE W == BitsPerWord
           c == CompleteWords(r)
           w == r.consumedWords
           m == c * W
           v == w * W
           rest == Len(r.data) % W
           tail == TailBytes(r)
<1>1. /\ c \in Nat /\ m \in Nat /\ rest \in 0..(W - 1) /\ Len(r.data) = m + rest
      /\ w <= c
  BY CompleteIs
<1>2. /\ w \in Nat /\ v \in Nat /\ r.consumedBits \in 0..W /\ Len(r.data) \in Nat
      /\ Consumed(r) = v + r.consumedBits
  BY ReaderIs
<1>3. W \in Nat /\ W >= 4
  BY WordWidth
<1>4. c - w \in {0, 1}
  <2>1. SUFFICES ASSUME w + 2 <= c PROVE FALSE
    <3> HIDE DEF c, w
    <3> QED
      BY <1>1, <1>2, <2>1
  <2>2. (w + 2) * W <= m
    <3>1. \A e, f, g \in Nat : e <= f => e * g <= f * g
      OBVIOUS
    <3> HIDE DEF c, w
    <3> QED
      BY <1>1, <1>2, <1>3, <2>1, <3>1
  <2>3. (w + 2) * W = v + (W + W)
    <3> HIDE DEF w
    <3> QED
      BY <1>2, <1>3
  <2>4. v + (W + W) <= m
    BY <2>2, <2>3
  <2>5. Unconsumed(r) = (m + rest) - (v + r.consumedBits)
    BY <1>1, <1>2 DEF Unconsumed
  <2> HIDE DEF m, v, rest
  <2>6. (m + rest) - (v + r.consumedBits) < W
    BY <2>5
  <2> HIDE DEF W
  <2> QED
    BY <1>1, <1>2, <1>3, <2>4, <2>6
<1>5. tail \in Nat /\ tail < BytesPerWord
  <2> DEFINE q == rest \div BitsPerByte
  <2> HIDE DEF rest
  <2>1. rest \in Nat /\ rest < BytesPerWord * BitsPerByte
    <3>1. rest \in 0..(W - 1) /\ W \in Nat /\ W = BytesPerWord * BitsPerByte
      BY <1>1, <1>3, ByteWidth
    <3> HIDE DEF W
    <3> QED
      BY <3>1
  <2>2. q \in Nat /\ q < BytesPerWord
    BY <2>1, ByteWidth, QuotientRest, QuotientBelow
  <2>3. tail = q
    BY DEF TailBytes, rest
  <2> QED
    BY <2>2, <2>3
<1>6. (ReaderCapacity - (c - w)) * BytesPerWord \in Nat
      /\ BytesPerWord <= (ReaderCapacity - (c - w)) * BytesPerWord
  <2> DEFINE e == ReaderCapacity - (c - w)
  <2>1. e \in Nat /\ 1 <= e
    <3> DEFINE d == c - w
    <3>1. d \in {0, 1}
      BY <1>4
    <3> HIDE DEF d
    <3> QED
      BY <3>1, ReaderAssumption DEF d
  <2>2. \A f, g \in Nat : 1 <= f => g <= f * g /\ f * g \in Nat
    OBVIOUS
  <2> HIDE DEF e
  <2> QED
    BY <2>1, <2>2, ByteWidth DEF e
<1>7. Room(r) = (ReaderCapacity - (c - w)) * BytesPerWord - tail
  BY DEF Room
<1> DEFINE most == (ReaderCapacity - (c - w)) * BytesPerWord
<1> HIDE DEF most, tail
<1>8. most \in Nat /\ BytesPerWord <= most /\ Room(r) = most - tail
  BY <1>6, <1>7 DEF most, tail
<1> QED
  BY <1>5, <1>8, ByteWidth

(* It goes there only when the item that is being read is not complete in  *)
(* what the client has handed out so far.                                  *)
LEMMA ClientNeeded ==
    ASSUME Going, NeedsClient
    PROVE  LET it == items[Len(got) + 1]
           IN  /\ Len(got) < Len(items)
               /\ Live = br /\ br \in Readers
               /\ Unconsumed(br) \in Nat /\ Unconsumed(br) < BitsPerWord
               /\ fed < Len(Codes(got)) + Len(Code(it))
<1> DEFINE it == items[Len(got) + 1]
           from == Len(Codes(got))
           u == Unconsumed(br)
           end == from + Len(Code(it))
<1>1. call # NoCall /\ ~(call.op = "rice" /\ call.at = "fast")
  BY DEF NeedsClient, NoCall
<1>2. Live = br /\ br \in Readers
  BY <1>1, GoingIs DEF Live
<1>3. Len(got) < Len(items) /\ it \in Items
  BY <1>1, CallIs
<1>4. from \in Nat /\ Len(Code(it)) \in Nat
  BY <1>3, NextIs
<1>5. /\ u \in Nat /\ Pos \in Nat /\ fed = Pos + u /\ Len(br.data) \in Nat
      /\ Consumed(br) \in Nat /\ Len(br.data) = Consumed(br) + u
  <2>1. /\ Len(br.data) \in Nat /\ Base \in Nat /\ Pos \in Nat
        /\ Consumed(br) \in 0..Len(br.data) /\ Pos = Base + Consumed(br)
        /\ Base + Len(br.data) = fed
    BY <1>2, Placed, GoingIs
  <2>2. u = Len(br.data) - Consumed(br)
    BY DEF Unconsumed
  <2> DEFINE d == Len(br.data)
             x == Consumed(br)
  <2>3. d \in Nat /\ x \in 0..d /\ Base \in Nat /\ Pos = Base + x /\ Base + d = fed
        /\ u = d - x
    BY <2>1, <2>2
  <2> HIDE DEF u, d, x
  <2>4. u \in Nat /\ x \in Nat /\ d = x + u /\ fed = Pos + u
    BY <2>3
  <2> QED
    BY <2>1, <2>4 DEF d, x
<1>6. BitsPerWord \in Nat /\ BitsPerWord >= 4
  BY WordWidth
<1> HIDE DEF u
<1>7. CASE call.op = "raw" /\ u < call.n
  <2>1. RawDone(it, from)
    BY <1>7, CallIs
  <2>2. it.op = "raw" /\ call.n = Len(it.bits) /\ Pos = from
    BY <2>1 DEF RawDone
  <2>3. it.bits \in Bits /\ Code(it) = it.bits /\ Len(it.bits) <= BitsPerWord
    <3>1. it = [op |-> "raw", bits |-> it.bits] /\ it.bits \in Bits /\ Code(it) = it.bits
      BY <1>3, <2>2, ItemIs
    <3>2. it.bits \in RawItems
      BY <1>3, <2>2 DEF Items
    <3> QED
      BY <3>1, <3>2, ItemCodes
  <2> HIDE DEF it, from
  <2>4. Len(it.bits) \in Nat
    BY <2>3 DEF Bits
  <2>5. u < BitsPerWord /\ fed < end
    BY <1>4, <1>5, <1>6, <1>7, <2>2, <2>3, <2>4
  <2> QED
    BY <1>2, <1>3, <1>5, <2>5 DEF it, from, u
<1>8. CASE call.op = "unary" /\ u = 0
  <2>1. UnaryDone(it, from)
    BY <1>8, CallIs
  <2>2. it.op = "unary" /\ call.zeros \in 0..it.n /\ Pos = from + call.zeros
    BY <2>1 DEF UnaryDone
  <2>3. it.n \in Nat /\ Code(it) = Append(Zeroes(it.n), 1)
    BY <1>3, <2>2, ItemIs
  <2> HIDE DEF it, from
  <2>4. Len(Code(it)) = it.n + 1
    <3>1. Zeroes(it.n) \in Bits /\ Len(Zeroes(it.n)) = it.n
      BY <2>3, ZeroesAre
    <3> QED
      BY <2>3, <3>1, AppendProperties DEF Bits
  <2>5. u < BitsPerWord /\ fed < end
    BY <1>4, <1>5, <1>6, <1>8, <2>2, <2>3, <2>4
  <2> QED
    BY <1>2, <1>3, <1>5, <2>5 DEF it, from, u
<1>9. CASE call.op = "rice" /\ (\/ call.at = "msbs" /\ u = 0
                                \/ call.at = "lsbs" /\ u < call.k - Len(call.lsbs))
  <2>1. /\ RicePlaces /\ call \in RiceCalls /\ call.k \in Nat
        /\ call.k <= BitsPerWord - 2 /\ RiceItem = it
    BY <1>9, RiceIs DEF RiceItem
  <2>2. Len(call.lsbs) \in Nat /\ call.msbs \in Nat
    BY <2>1 DEF RiceCalls
  <2>3. RiceZeroes \in Nat /\ RiceAt \in Nat /\ RiceAt + (RiceZeroes + 1 + call.k) <= end
    BY <1>9, RiceEnds DEF RiceItem
  <2> HIDE DEF end, it, from
  <2>4. u < BitsPerWord /\ fed < RiceAt + (RiceZeroes + 1 + call.k)
    <3>1. CASE call.at = "msbs" /\ u = 0
      <4>1. call.msbs <= RiceZeroes /\ Pos = RiceAt + call.msbs
        BY <2>1, <3>1 DEF RicePlaces
      <4> QED
        BY <1>5, <1>6, <2>1, <2>2, <2>3, <3>1, <4>1
    <3>2. CASE call.at = "lsbs" /\ u < call.k - Len(call.lsbs)
      <4> DEFINE l == Len(call.lsbs)
                 k == call.k
      <4>1. call.msbs = RiceZeroes /\ Pos = RiceAt + call.msbs + 1 + l
        BY <2>1, <3>2 DEF RicePlaces
      <4>2. l \in Nat /\ k \in Nat /\ k <= BitsPerWord - 2 /\ u < k - l
        BY <2>1, <2>2, <3>2
      <4> HIDE DEF k, l
      <4>3. u < BitsPerWord /\ fed < RiceAt + (RiceZeroes + 1 + k)
        BY <1>5, <1>6, <2>3, <4>1, <4>2
      <4> QED
        BY <4>3 DEF k
    <3> QED
      BY <1>9, <3>1, <3>2
  <2>5. end \in Nat
    BY <1>4 DEF end
  <2>6. fed < end
    BY <1>5, <2>1, <2>3, <2>4, <2>5
  <2> QED
    BY <1>2, <1>3, <1>5, <2>4, <2>6 DEF end, it, from, u
<1>10. CASE call.op = "block" /\ (\/ BlockByByte(call) /\ u < BitsPerByte
                                  \/ ~BlockByByte(call) /\ br.consumedWords >= CompleteWords(br))
  <2> DEFINE j == Len(call.bytes)
             n == Len(it.bytes)
             B == BitsPerByte
  <2>1. BlockDone(it, from)
    BY <1>10, CallIs
  <2>2. /\ it.op = "block" /\ call \in BlockCalls /\ j < n /\ call.todo = n - j
        /\ Pos = from + Len(Joined(it.bytes, j))
    BY <2>1 DEF BlockDone
  <2>3. it.bytes \in Seq([1..B -> Bit]) /\ Code(it) = Joined(it.bytes, n)
    BY <1>3, <2>2, ItemIs
  <2>4. j \in Nat /\ n \in Nat /\ j \in 0..n /\ n \in 0..n
    <3>1. j \in Nat /\ n \in Nat
      BY <2>2, <2>3 DEF BlockCalls
    <3> HIDE DEF j, n
    <3> QED
      BY <2>2, <3>1
  <2>5. Len(Joined(it.bytes, j)) = j * B /\ Len(Joined(it.bytes, n)) = n * B
    <3> HIDE DEF it, j
    <3> QED
      BY <2>3, <2>4, BytesJoined
  <2> HIDE DEF it, from, j, n
  <2>6. B \in Nat \ {0} /\ BytesPerWord \in Nat \ {0} /\ BitsPerWord = BytesPerWord * B
        /\ B <= BitsPerWord
    <3>1. \A f, g \in Nat : f # 0 => g <= f * g
      OBVIOUS
    <3> QED
      BY <3>1, ByteWidth
  <2>7. \A i \in Nat : i <= n - j => j * B + i * B <= n * B /\ i * B \in Nat
    <3> TAKE i \in Nat
    <3> HAVE i <= n - j
    <3>1. \A e, f, g \in Nat : e <= f => e * g <= f * g
      OBVIOUS
    <3>2. (j + i) * B <= n * B
      BY <2>4, <2>6, <3>1
    <3> QED
      BY <2>4, <2>6, <3>2
  <2>8. j * B \in Nat /\ n * B \in Nat /\ Pos = from + j * B /\ end = from + n * B
    BY <2>2, <2>3, <2>4, <2>5, <2>6
  <2> HIDE DEF end
  <2> DEFINE x == j * B
             y == n * B
  <2>9. u < BitsPerWord /\ fed < end
    <3>1. CASE BlockByByte(call) /\ u < B
      <4>1. x + B <= y
        <5>1. j * B + 1 * B <= n * B
          BY <2>2, <2>4, <2>7
        <5> QED
          BY <2>6, <5>1
      <4> HIDE DEF x, y, B
      <4> QED
        BY <1>4, <1>5, <1>6, <2>6, <2>8, <3>1, <4>1 DEF x, y
    <3>2. CASE ~BlockByByte(call) /\ br.consumedWords >= CompleteWords(br)
      <4>1. ~ (br.consumedBits > 0) /\ BytesPerWord <= n - j
        BY <2>2, <2>4, <2>6, <3>2 DEF BlockByByte
      <4>2. x + BitsPerWord <= y
        BY <2>6, <2>7, <4>1
      <4>3. u < BitsPerWord
        <5>1. br.consumedBits \in Nat
          BY <1>2, ReaderIs
        <5>2. Len(br.data) - Consumed(br) = (Len(br.data) % BitsPerWord) - br.consumedBits
          BY <1>2, <3>2, PastComplete
        <5>3. Len(br.data) % BitsPerWord \in 0..(BitsPerWord - 1)
          BY <1>2, CompleteIs
        <5> QED
          BY <1>5, <1>6, <5>1, <5>2, <5>3
      <4> HIDE DEF x, y
      <4> QED
        BY <1>4, <1>5, <1>6, <2>8, <4>2, <4>3 DEF x, y
    <3> QED
      BY <1>10, <3>1, <3>2
  <2> QED
    BY <1>2, <1>3, <1>5, <2>9 DEF end, it, from, u
<1> QED
  BY <1>7, <1>8, <1>9, <1>10 DEF NeedsClient, u

(* A call that has been refused stays as it was: nothing can happen.       *)
Refused ==
    phase = "failed" /\ bw.ok => NeedsClient /\ fed = Len(stream)

LEMMA NothingFollows ==
    ASSUME Going, phase = "failed", NeedsClient, [Next]_vars
    PROVE  UNCHANGED vars
<1>1. /\ br \in Readers /\ Unconsumed(br) \in Nat
      /\ call.op = "raw" => call.n \in Nat
      /\ call.op = "rice" => call.k \in Nat /\ Len(call.lsbs) \in Nat
      /\ CompleteWords(br) \in Nat /\ br.consumedWords \in Nat
  <2>1. br \in Readers /\ Unconsumed(br) \in Nat
    BY ClientNeeded
  <2>2. ASSUME call.op = "raw" PROVE call.n \in Nat
    <3> DEFINE it == items[Len(got) + 1]
    <3>1. call # NoCall
      BY <2>2 DEF NoCall
    <3>2. it \in Items /\ RawDone(it, Len(Codes(got)))
      BY <2>2, <3>1, CallIs
    <3>3. it.op = "raw" /\ call.n = Len(it.bits)
      BY <3>2 DEF RawDone
    <3>4. it.bits \in Bits
      BY <3>2, <3>3, ItemIs
    <3> HIDE DEF it
    <3> QED
      BY <3>3, <3>4 DEF Bits
  <2>3. ASSUME call.op = "rice" PROVE call.k \in Nat /\ Len(call.lsbs) \in Nat
    <3>1. call \in RiceCalls
      BY <2>3, RiceIs
    <3> QED
      BY <3>1 DEF RiceCalls
  <2> QED
    BY <2>1, <2>2, <2>3, CompleteIs, ReaderIs
<1>2. call # NoCall
  BY DEF NeedsClient, NoCall
<1>3. ~ Writer
  BY DEF Writer, WriteRawItem, WriteUnaryItem, WriteRiceBlock, WriteRiceSingly,
         WriteBlock, TakeBuffer, MayWrite
<1>4. ~ BeginRead /\ ~ Fetch /\ ~ FetchFails /\ ~ ResetCrc /\ ~ GetCrc
  BY DEF BeginRead, Fetch, FetchFails, ResetCrc, GetCrc
<1>5. ~ ReadRaw
  BY <1>1 DEF ReadRaw, NeedsClient
<1>6. ~ ReadUnary
  BY <1>1 DEF ReadUnary, NeedsClient
<1>7. ~ RiceFast
  BY DEF RiceFast, NeedsClient
<1>8. ~ RiceMsbs
  BY <1>1 DEF RiceMsbs, NeedsClient
<1>9. ~ RiceLsbs
  <2> SUFFICES ASSUME RiceLsbs PROVE FALSE
    OBVIOUS
  <2>1. /\ call.op = "rice" /\ call.at = "lsbs"
        /\ Unconsumed(br) >= call.k - Len(call.lsbs)
    BY DEF RiceLsbs
  <2>2. Unconsumed(br) < call.k - Len(call.lsbs)
    BY <2>1 DEF NeedsClient
  <2> QED
    BY <1>1, <2>1, <2>2
<1>10. ~ ReadBlockByte
  BY <1>1, ByteWidth DEF ReadBlockByte, NeedsClient
<1>11. ~ ReadBlockWord
  BY <1>1 DEF ReadBlockWord, NeedsClient
<1> QED
  BY <1>3, <1>4, <1>5, <1>6, <1>7, <1>8, <1>9, <1>10, <1>11 DEF Next, Reader

LEMMA NextRefused == WriterInv /\ ReaderInv /\ Refused /\ [Next]_vars => Refused'
<1> SUFFICES ASSUME WriterInv, ReaderInv, Refused, [Next]_vars, phase' = "failed", bw'.ok
             PROVE  (NeedsClient /\ fed = Len(stream))'
  BY DEF Refused
<1>1. CASE phase = "failed" /\ bw.ok
  <2>1. Going /\ NeedsClient /\ fed = Len(stream)
    BY <1>1 DEF Going, Refused
  <2>2. UNCHANGED vars
    BY <1>1, <2>1, NothingFollows
  <2> QED
    BY <2>1, <2>2 DEF vars, NeedsClient, BlockByByte
<1>2. CASE FetchFails
  <2>1. phase = "reading" /\ NeedsClient /\ (Room(br) = 0 \/ fed = Len(stream))
        /\ UNCHANGED <<bw, items, stream, fed, br, call, got, crcFrom>>
    BY <1>2 DEF FetchFails
  <2>2. Going
    BY <2>1 DEF Going, ReaderInv
  <2>3. Room(br) # 0
    <3>1. br \in Readers /\ Unconsumed(br) < BitsPerWord
      BY <2>1, <2>2, ClientNeeded
    <3> QED
      BY <3>1, RoomIsLeft
  <2> QED
    BY <2>1, <2>3 DEF NeedsClient, BlockByByte
<1>3. CASE Writer
  <2>1. ASSUME NEW after, NEW it, Wrote(after, it) PROVE FALSE
    BY <2>1 DEF Wrote
  <2>2. ~ TakeBuffer
    BY DEF TakeBuffer
  <2> QED
    BY <1>3, <2>1, <2>2 DEF Writer, WriteRawItem, WriteUnaryItem, WriteRiceBlock,
                            WriteRiceSingly, WriteBlock
<1>4. CASE (Reader /\ ~ FetchFails) \/ ResetCrc \/ GetCrc \/ UNCHANGED vars
  <2>1. UNCHANGED <<bw, phase>>
    <3>1. ASSUME NEW r, NEW x, Returned(r, x) \/ Continues(r, x)
          PROVE  UNCHANGED <<bw, phase>>
      BY <3>1 DEF Returned, Continues
    <3>2. ASSUME NEW r, NEW c, RiceOn(r, c) \/ BlockOn(r, c)
          PROVE  UNCHANGED <<bw, phase>>
      BY <3>1, <3>2 DEF RiceOn, BlockOn
    <3>3. CASE BeginRead
      BY <3>1, <3>3 DEF BeginRead
    <3>4. CASE ReadRaw
      BY <3>1, <3>4 DEF ReadRaw
    <3>5. CASE ReadUnary
      BY <3>1, <3>5 DEF ReadUnary
    <3>6. CASE RiceFast
      BY <3>1, <3>2, <3>6 DEF RiceFast
    <3>7. CASE RiceMsbs
      BY <3>1, <3>2, <3>7 DEF RiceMsbs
    <3>8. CASE RiceLsbs
      BY <3>2, <3>8 DEF RiceLsbs
    <3>9. CASE ReadBlockByte
      BY <3>2, <3>9 DEF ReadBlockByte
    <3>10. CASE ReadBlockWord
      BY <3>2, <3>10 DEF ReadBlockWord
    <3>11. CASE Fetch \/ ResetCrc \/ GetCrc \/ UNCHANGED vars
      BY <3>11 DEF Fetch, ResetCrc, GetCrc, vars
    <3> QED
      BY <1>4, <3>3, <3>4, <3>5, <3>6, <3>7, <3>8, <3>9, <3>10, <3>11 DEF Reader
  <2>2. phase = "failed" /\ bw.ok
    BY <2>1
  <2> QED
    BY <1>1, <2>2
<1> QED
  BY <1>2, <1>3, <1>4 DEF Next

(* What the reader refuses is not there: read calls fail only when the     *)
(* client's bytes end before the item does, never because the buffer is    *)
(* too small for the item or because more was asked for than is needed.    *)
THEOREM ReadsWhatIsThereHolds == Spec => []ReadsWhatIsThere
<1>1. Init => Refused
  BY DEF Init, Refused
<1>2. WriterInv /\ ReaderInv /\ Refused => ReadsWhatIsThere
  <2> SUFFICES ASSUME WriterInv, ReaderInv, Refused, phase = "failed", bw.ok
               PROVE  Len(Codes(SubSeq(items, 1, Len(got) + 1))) > Len(stream)
    BY DEF ReadsWhatIsThere
  <2> DEFINE it == items[Len(got) + 1]
  <2>1. Going /\ NeedsClient /\ fed = Len(stream)
    BY DEF Going, Refused
  <2>2. Len(got) < Len(items) /\ fed < Len(Codes(got)) + Len(Code(it))
    BY <2>1, ClientNeeded
  <2>3. /\ Append(got, it) = SubSeq(items, 1, Len(got) + 1)
        /\ Len(Codes(Append(got, it))) = Len(Codes(got)) + Len(Code(it))
    BY <2>1, <2>2, NextItem, GoingIs
  <2>4. fed \in Nat /\ Len(Codes(got)) + Len(Code(it)) \in Nat
    BY <2>1, <2>2, NextIs, Placed, GoingIs
  <2> HIDE DEF it
  <2> QED
    BY <2>1, <2>2, <2>3, <2>4
<1> QED
  BY <1>1, <1>2, NextRefused, WriterInvariant, ReaderInvariant, PTL DEF Spec

-----------------------------------------------------------------------------
(* The reader's buffer.  Whatever a read leaves behind, the place of the   *)
(* reader is inside a word.                                                *)
WithinWord(q, r) ==
    q.data = r.data /\ q.consumedBits \in 0..(BitsPerWord - 1)

LEMMA CrcWordsKeep ==
    ASSUME NEW r \in AnyReader, NEW last
    PROVE  LET x == CrcWords(r, last)
           IN  x = [data |-> r.data, consumedWords |-> r.consumedWords,
                    consumedBits |-> r.consumedBits, crc |-> x.crc,
                    crcAlign |-> x.crcAlign]
<1> DEFINE x == CrcWords(r, last)
           s == r.crc \o SubSeq(r.data, r.consumedWords * BitsPerWord + r.crcAlign + 1,
                                last * BitsPerWord)
<1>1. x = IF last = r.consumedWords THEN r ELSE [r EXCEPT !.crc = s, !.crcAlign = 0]
  BY DEF CrcWords
<1> HIDE DEF x, s
<1>2. r = [data |-> r.data, consumedWords |-> r.consumedWords,
           consumedBits |-> r.consumedBits, crc |-> r.crc, crcAlign |-> r.crcAlign]
  BY DEF AnyReader
<1> QED
  BY <1>1, <1>2 DEF x

LEMMA MovedToFits ==
    ASSUME NEW r \in AnyReader, NEW p \in Nat
    PROVE  /\ WithinWord(MovedTo(r, p), r)
           /\ \A b \in 0..(BitsPerWord - 1) :
                 WithinWord([MovedTo(r, p) EXCEPT !.consumedBits = b], r)
<1> DEFINE w == p \div BitsPerWord
           b == p % BitsPerWord
           x == CrcWords(r, w)
           q == MovedTo(r, p)
<1>1. b \in 0..(BitsPerWord - 1)
  BY WordWidth, QuotientRest
<1>2. x = [data |-> r.data, consumedWords |-> r.consumedWords,
           consumedBits |-> r.consumedBits, crc |-> x.crc, crcAlign |-> x.crcAlign]
  <2> HIDE DEF w
  <2> QED
    BY CrcWordsKeep
<1>3. q = [x EXCEPT !.consumedWords = w, !.consumedBits = b]
  BY DEF MovedTo
<1> HIDE DEF q, x, w, b
<1>4. PICK y, z : q = [data |-> r.data, consumedWords |-> w, consumedBits |-> b,
                       crc |-> y, crcAlign |-> z]
  <2> DEFINE y == x.crc
             z == x.crcAlign
  <2>1. x = [data |-> r.data, consumedWords |-> r.consumedWords,
             consumedBits |-> r.consumedBits, crc |-> y, crcAlign |-> z]
    BY <1>2
  <2> HIDE DEF y, z
  <2>2. q = [data |-> r.data, consumedWords |-> w, consumedBits |-> b,
             crc |-> y, crcAlign |-> z]
    BY <1>3, <2>1
  <2> QED
    BY <2>2
<1>5. WithinWord(q, r)
  BY <1>1, <1>4 DEF WithinWord
<1>6. \A e \in 0..(BitsPerWord - 1) : WithinWord([q EXCEPT !.consumedBits = e], r)
  BY <1>4 DEF WithinWord
<1> QED
  BY <1>5, <1>6 DEF q

LEMMA AfterRawFits ==
    ASSUME NEW r \in Readers, NEW n \in Nat, n <= Unconsumed(r)
    PROVE  AfterRaw(r, n) \in Readers /\ WithinWord(AfterRaw(r, n), r)
<1> DEFINE q == AfterRaw(r, n)
<1>1. q \in Readers /\ q.data = r.data
  BY AfterRawMoves DEF Moves
<1>2. CASE r.consumedWords < CompleteWords(r)
  <2> DEFINE p == Consumed(r) + n
  <2>1. p \in Nat /\ q = MovedTo(r, p)
    BY <1>2, ReaderIs DEF AfterRaw
  <2> HIDE DEF p, q
  <2>2. r \in AnyReader
    BY ReaderIs
  <2>3. WithinWord(q, r)
    BY <2>1, <2>2, MovedToFits
  <2> QED
    BY <1>1, <2>3 DEF q
<1>3. CASE ~(r.consumedWords < CompleteWords(r))
  <2>1. q.consumedWords = r.consumedWords
    <3>1. q = [r EXCEPT !.consumedBits = @ + n]
      BY <1>3 DEF AfterRaw
    <3> HIDE DEF q
    <3> QED
      BY <3>1, ReaderIs DEF AnyReader
  <2> HIDE DEF q
  <2>2. CompleteWords(q) = CompleteWords(r)
    BY <1>1 DEF CompleteWords
  <2>3. q.consumedWords >= CompleteWords(q)
    BY <1>3, <2>1, <2>2, CompleteIs, ReaderIs
  <2>4. q.consumedBits <= Len(q.data) % BitsPerWord
    BY <1>1, <2>3, PastComplete
  <2>5. q.consumedBits \in Nat /\ Len(q.data) % BitsPerWord \in 0..(BitsPerWord - 1)
    BY <1>1, CompleteIs, ReaderIs
  <2>6. q.consumedBits \in 0..(BitsPerWord - 1)
    <3> DEFINE rest == Len(q.data) % BitsPerWord
    <3>1. rest \in 0..(BitsPerWord - 1) /\ q.consumedBits <= rest /\ q.consumedBits \in Nat
      BY <2>4, <2>5
    <3> HIDE DEF rest
    <3> QED
      BY <3>1, WordWidth
  <2> QED
    BY <1>1, <2>6 DEF WithinWord, q
<1> QED
  BY <1>2, <1>3

LEMMA FirstIs ==
    ASSUME NEW S, S \subseteq Nat, S # {}
    PROVE  FirstOf(S) \in S
<1>1. \E p \in S : \A q \in S : p <= q
  BY LeastNumber
<1> QED
  BY <1>1 DEF FirstOf

LEMMA ScanFits ==
    ASSUME NEW r \in Readers
    PROVE  WithinWord(UnaryScan(r).br, r)
<1> DEFINE s == StopBits(r, Consumed(r), Len(r.data))
           p == FirstOf(s)
           whole == CompleteWords(r) * BitsPerWord
           place == IF Consumed(r) < whole THEN whole ELSE Consumed(r)
           rest == Len(r.data) % BitsPerWord
<1>1. /\ r \in AnyReader /\ Consumed(r) \in Nat /\ Len(r.data) \in Nat
      /\ whole \in Nat /\ rest \in 0..(BitsPerWord - 1)
  BY ReaderIs, CompleteIs
<1>2. CASE s # {}
  <2>1. s \subseteq Nat
    BY <1>1 DEF StopBits
  <2> HIDE DEF s
  <2>2. p \in Nat
    BY <1>2, <2>1, FirstIs
  <2>3. UnaryScan(r).br = MovedTo(r, p + 1)
    BY <1>2 DEF UnaryScan, s
  <2> HIDE DEF p
  <2> QED
    BY <1>1, <2>2, <2>3, MovedToFits
<1>3. CASE s = {}
  <2>1. UnaryScan(r).br = [MovedTo(r, place) EXCEPT !.consumedBits = rest]
    BY <1>3 DEF UnaryScan
  <2>2. place \in Nat
    <3> HIDE DEF whole
    <3> QED
      BY <1>1
  <2> HIDE DEF place, rest
  <2> QED
    BY <1>1, <2>1, <2>2, MovedToFits
<1> QED
  BY <1>2, <1>3

LEMMA FlushFits ==
    ASSUME NEW r \in AnyReader, NEW c, c.cw \in Nat, c.uc \in 0..BitsPerWord,
           c.cw < CompleteWords(r)
    PROVE  WithinWord(FlushRegisters(r, c), r)
<1> DEFINE left == InRegisters(r, c)
           p == (c.cw + 1) * BitsPerWord
<1>1. /\ left \in AnyReader /\ left.data = r.data
      /\ left.consumedBits = BitsPerWord - c.uc
  BY RegistersAre
<1>2. FlushRegisters(r, c) = IF c.uc = 0 THEN MovedTo(left, p) ELSE left
  BY DEF FlushRegisters, InRegisters
<1>3. p \in Nat
  BY WordWidth
<1> HIDE DEF left, p
<1>4. WithinWord(MovedTo(left, p), left)
  BY <1>1, <1>3, MovedToFits
<1>5. CASE c.uc = 0
  BY <1>1, <1>2, <1>4, <1>5 DEF WithinWord
<1>6. CASE c.uc # 0
  <2>1. BitsPerWord - c.uc \in 0..(BitsPerWord - 1)
    BY <1>6, WordWidth
  <2> QED
    BY <1>1, <1>2, <1>6, <2>1 DEF WithinWord
<1> QED
  BY <1>5, <1>6

(* What holds of the buffer and of the reader's own fields, in the fast    *)
(* loop too, where they are behind the registers.                          *)
Inside ==
    /\ stream \in Bits
    /\ WithinWord(br, br)
    /\ Consumed(br) <= Len(br.data)
    /\ Len(br.data) <= ReaderCapacity * BitsPerWord
    /\ \E t \in Nat : Len(br.data) = t * BitsPerByte

InFastLoop(c) == c.op = "rice" /\ c.at = "fast"

(* A step that takes nothing from the client. *)
Tidy ==
    /\ UNCHANGED <<bw, phase, stream>>
    /\ WithinWord(br', br)
    /\ InFastLoop(call') => Consumed(br') <= Len(br'.data)

LEMMA TidyKeeps ==
    ASSUME Going, Inside, ReaderInv', Tidy
    PROVE  Inside'
<1>1. Live' \in Readers
  BY DEF Tidy, Going, ReaderInv, Loaded
<1>2. ~ InFastLoop(call') => Live' = br'
  BY DEF InFastLoop, Live
<1>3. Consumed(br') <= Len(br'.data)
  <2>1. CASE InFastLoop(call')
    BY <2>1 DEF Tidy
  <2>2. CASE ~ InFastLoop(call')
    BY <1>1, <1>2, <2>2 DEF Readers
  <2> QED
    BY <2>1, <2>2
<1>4. br'.data = br.data /\ WithinWord(br', br') /\ stream' = stream
  BY DEF Tidy, WithinWord
<1> QED
  BY <1>3, <1>4 DEF Inside

LEMMA RawTidy ==
    ASSUME Going, ReadRaw
    PROVE  Tidy
<1> DEFINE n == call.n
<1>1. call.op = "raw" /\ call # NoCall /\ Unconsumed(br) >= n
      /\ Returned(AfterRaw(br, n), [op |-> "raw", bits |-> Peek(br, n)])
  BY DEF ReadRaw, NoCall
<1>2. Live = br /\ br \in Readers
  BY <1>1, GoingIs DEF Live
<1>3. n \in Nat
  <2> DEFINE it == items[Len(got) + 1]
  <2>1. it \in Items /\ RawDone(it, Len(Codes(got)))
    BY <1>1, CallIs
  <2>2. it.op = "raw" /\ n = Len(it.bits)
    BY <2>1 DEF RawDone
  <2>3. it.bits \in Bits
    BY <2>1, <2>2, ItemIs
  <2> HIDE DEF it
  <2> QED
    BY <2>2, <2>3 DEF Bits
<1> HIDE DEF n
<1>4. WithinWord(AfterRaw(br, n), br)
  <2>1. Unconsumed(br) \in Int
    BY <1>2, ReaderIs DEF Unconsumed
  <2> QED
    BY <1>1, <1>2, <1>3, <2>1, AfterRawFits
<1>5. ~ InFastLoop(call')
  BY <1>1 DEF Returned, InFastLoop, NoCall
<1> QED
  BY <1>1, <1>4, <1>5 DEF Returned, Tidy

LEMMA UnaryTidy ==
    ASSUME Going, ReadUnary
    PROVE  Tidy
<1> DEFINE s == UnaryScan(br)
<1>1. /\ call.op = "unary" /\ call # NoCall
      /\ IF s.found
         THEN Returned(s.br, [op |-> "unary", n |-> call.zeros + s.zeros])
         ELSE Continues(s.br, [call EXCEPT !.zeros = @ + s.zeros])
  BY DEF ReadUnary, NoCall
<1>2. Live = br /\ br \in Readers
  BY <1>1, GoingIs DEF Live
<1>3. call = [op |-> "unary", zeros |-> call.zeros]
  BY <1>1, CallIs DEF UnaryDone
<1>4. WithinWord(s.br, br)
  BY <1>2, ScanFits
<1> HIDE DEF s
<1>5. ~ InFastLoop([call EXCEPT !.zeros = @ + s.zeros])
  <2> DEFINE z == call.zeros
             m == z + s.zeros
  <2>1. [call EXCEPT !.zeros = @ + s.zeros] = [call EXCEPT !.zeros = m]
    OBVIOUS
  <2>2. call = [op |-> "unary", zeros |-> z]
    BY <1>3
  <2> HIDE DEF z, m
  <2>3. [call EXCEPT !.zeros = m].op = "unary"
    BY <2>2
  <2> QED
    BY <2>1, <2>3 DEF InFastLoop
<1>6. ~ InFastLoop(NoCall)
  BY DEF InFastLoop, NoCall
<1>7. CASE s.found
  BY <1>1, <1>4, <1>6, <1>7 DEF Returned, Tidy
<1>8. CASE ~ s.found
  BY <1>1, <1>4, <1>5, <1>8 DEF Continues, Tidy
<1> QED
  BY <1>7, <1>8

(* A reader whose own fields are still where they were.                    *)
Behind(r) ==
    /\ r \in AnyReader /\ r.data = br.data
    /\ r.consumedWords = br.consumedWords /\ r.consumedBits = br.consumedBits

LEMMA RiceTidy ==
    ASSUME Going, Inside, NEW r \in AnyReader, NEW c,
           r.data = br.data, r.consumedBits \in 0..(BitsPerWord - 1),
           c.at = "fast" =>
              /\ c.cw \in Nat /\ c.uc \in 0..BitsPerWord /\ c.cw < CompleteWords(r)
              /\ r \in Readers \/ Behind(r),
           RiceOn(r, c)
    PROVE  Tidy
<1>1. ~ InFastLoop(NoCall)
  BY DEF InFastLoop, NoCall
<1>2. CASE c.todo = 0
  <2> DEFINE q == IF c.at = "fast" THEN FlushRegisters(r, c) ELSE r
  <2>1. Returned(q, [op |-> "rice", vals |-> c.vals, k |-> c.k])
    BY <1>2 DEF RiceOn
  <2>2. WithinWord(q, br)
    <3>1. CASE c.at = "fast"
      BY <3>1, FlushFits DEF WithinWord
    <3>2. CASE c.at # "fast"
      BY <3>2 DEF WithinWord
    <3> QED
      BY <3>1, <3>2
  <2> HIDE DEF q
  <2> QED
    BY <1>1, <2>1, <2>2 DEF Returned, Tidy
<1>3. CASE c.todo # 0
  <2>1. Continues(r, c)
    BY <1>3 DEF RiceOn
  <2>2. InFastLoop(c) => Consumed(r) <= Len(r.data)
    <3>1. Behind(r) => Consumed(r) = Consumed(br)
      BY DEF Behind, Consumed
    <3>2. r \in Readers => Consumed(r) <= Len(r.data)
      BY DEF Readers
    <3> QED
      BY <3>1, <3>2 DEF InFastLoop, Inside
  <2> QED
    BY <2>1, <2>2 DEF Continues, Tidy, WithinWord
<1> QED
  BY <1>2, <1>3

LEMMA RiceMsbsTidy ==
    ASSUME Going, Inside, RiceMsbs
    PROVE  Tidy
<1> DEFINE s == UnaryScan(br)
           m == call.msbs + s.zeros
           c == [call EXCEPT !.msbs = m]
<1>1. /\ call.op = "rice" /\ call.at = "msbs"
      /\ \/ ~ s.found /\ Continues(s.br, c)
         \/ s.found /\ call.k = 0 /\ RiceOn(s.br, WithValue(c, <<>>))
         \/ s.found /\ call.k # 0 /\ Continues(s.br, [c EXCEPT !.at = "lsbs"])
  BY DEF RiceMsbs
<1>2. br \in Readers /\ call \in RiceCalls
  BY <1>1, RicePlain, RiceIs
<1>3. WithinWord(s.br, br)
  BY <1>2, ScanFits
<1> HIDE DEF s, m
<1>4. /\ c.at = "msbs" /\ [c EXCEPT !.at = "lsbs"].at = "lsbs"
      /\ WithValue(c, <<>>).at = "msbs"
  BY <1>1, <1>2 DEF RiceCalls, WithValue
<1> HIDE DEF c
<1>5. CASE ~ s.found /\ Continues(s.br, c)
  BY <1>3, <1>4, <1>5 DEF Continues, Tidy, InFastLoop
<1>6. CASE s.found /\ call.k # 0 /\ Continues(s.br, [c EXCEPT !.at = "lsbs"])
  <2> DEFINE d == [c EXCEPT !.at = "lsbs"]
  <2>1. Continues(s.br, d) /\ d.at = "lsbs"
    BY <1>4, <1>6
  <2> HIDE DEF d
  <2> QED
    BY <1>3, <2>1 DEF Continues, Tidy, InFastLoop
<1>7. CASE s.found /\ call.k = 0 /\ RiceOn(s.br, WithValue(c, <<>>))
  <2> DEFINE d == WithValue(c, <<>>)
  <2>1. RiceOn(s.br, d) /\ d.at = "msbs"
    BY <1>4, <1>7
  <2> HIDE DEF d
  <2>2. CASE d.todo = 0
    BY <1>3, <2>1, <2>2 DEF RiceOn, Returned, Tidy, InFastLoop, NoCall
  <2>3. CASE d.todo # 0
    BY <1>3, <2>1, <2>3 DEF RiceOn, Continues, Tidy, InFastLoop
  <2> QED
    BY <2>2, <2>3
<1> QED
  BY <1>1, <1>5, <1>6, <1>7

LEMMA RiceLsbsTidy ==
    ASSUME Going, Inside, RiceLsbs
    PROVE  Tidy
<1> DEFINE L == Len(call.lsbs)
           n == call.k - L
           after == AfterRaw(br, n)
           fast == after.consumedWords < CompleteWords(after)
           d == WithValue(call, call.lsbs \o Peek(br, n))
           at == IF fast THEN "fast" ELSE "msbs"
           uc == BitsPerWord - after.consumedBits
           x == [d EXCEPT !.at = at, !.cw = after.consumedWords, !.uc = uc]
<1>1. call.op = "rice" /\ call.at = "lsbs" /\ Unconsumed(br) >= n /\ RiceOn(after, x)
  BY DEF RiceLsbs
<1>2. br \in Readers /\ call \in RiceCalls /\ RicePlaces /\ call.k \in Nat
  BY <1>1, RicePlain, RiceIs
<1>3. L \in Nat /\ L <= call.k
  BY <1>1, <1>2 DEF RicePlaces, RiceCalls
<1>4. n \in Nat
  BY <1>2, <1>3
<1> HIDE DEF n, L
<1>5. after \in Readers /\ WithinWord(after, br) /\ after \in AnyReader
  <2>1. n <= Unconsumed(br)
    <3>1. Unconsumed(br) \in Int
      BY <1>2, ReaderIs DEF Unconsumed
    <3> QED
      BY <1>1, <1>4, <3>1
  <2>2. after \in Readers /\ WithinWord(after, br)
    BY <1>2, <1>4, <2>1, AfterRawFits
  <2> HIDE DEF after
  <2> QED
    BY <2>2, ReaderIs
<1> HIDE DEF after
<1>6. /\ after.data = br.data /\ after.consumedBits \in 0..(BitsPerWord - 1)
      /\ after.consumedWords \in Nat /\ uc \in 0..BitsPerWord
  BY <1>5, WordWidth, ReaderIs DEF WithinWord
<1>7. /\ x.at = at /\ x.cw = after.consumedWords /\ x.uc = uc
  BY <1>2 DEF RiceCalls, WithValue
<1> HIDE DEF x, uc
<1>8. x.at = "fast" => x.cw \in Nat /\ x.uc \in 0..BitsPerWord /\ x.cw < CompleteWords(after)
  BY <1>6, <1>7
<1> QED
  BY <1>1, <1>5, <1>6, <1>8, RiceTidy

LEMMA RiceFastTidy ==
    ASSUME Going, Inside, RiceFast
    PROVE  Tidy
<1> DEFINE W == BitsPerWord
           words == CompleteWords(br)
           k == call.k
           stops == StopBits(br, RiceHead, words * W)
           p == FirstOf(stops)
           cw == p \div W
           uc == W - 1 - (p % W)
           spent == [CrcFromRegisters(call, words) EXCEPT
                       !.consumedWords = words, !.consumedBits = 0]
           left(last) == [CrcFromRegisters(call, last) EXCEPT
                            !.consumedWords = br.consumedWords]
           done(last, u) == [WithValue([call EXCEPT !.msbs = p - RiceHead],
                                       SubSeq(br.data, p + 2, p + 1 + k)) EXCEPT
                               !.cw = last, !.uc = u]
<1>1. call.op = "rice" /\ call.at = "fast"
  BY DEF RiceFast
<1>2. \/ /\ stops = {}
         /\ Continues(spent, [call EXCEPT !.at = "msbs",
                                          !.msbs = words * W - RiceHead])
      \/ stops # {} /\ k <= uc /\ RiceOn(left(cw), done(cw, uc - k))
      \/ /\ stops # {} /\ k > uc /\ cw + 1 < words
         /\ RiceOn(left(cw + 1), done(cw + 1, uc + W - k))
      \/ /\ stops # {} /\ k > uc /\ cw + 1 >= words
         /\ Continues(spent,
              [call EXCEPT !.at = "lsbs", !.msbs = p - RiceHead,
                           !.lsbs = SubSeq(br.data, p + 2, p + 1 + uc)])
  BY DEF RiceFast, RiceHead
<1>3. /\ br \in AnyReader /\ Len(br.data) \in Nat /\ words \in Nat /\ words * W \in Nat
      /\ words * W <= Len(br.data) /\ RiceHead \in Nat
  BY <1>1, FastIs
<1>4. call \in RiceCalls /\ k \in Nat /\ k <= W - 2
  BY <1>1, RiceIs
<1>5. W \in Nat /\ W >= 4
  BY WordWidth
<1>6. WithinWord(spent, br)
  <2> DEFINE y == CrcFromRegisters(call, words)
  <2>1. y \in AnyReader /\ y.data = br.data
    BY <1>1, <1>3, FastCrc
  <2> DEFINE x == [y EXCEPT !.consumedWords = words, !.consumedBits = 0]
  <2>2. 0 \in 0..(BitsPerWord - 1)
    BY WordWidth
  <2>3. spent = x
    OBVIOUS
  <2> HIDE DEF y, words, spent
  <2>4. x.data = br.data /\ x.consumedBits = 0
    BY <2>1 DEF AnyReader
  <2> HIDE DEF x
  <2> QED
    BY <2>2, <2>3, <2>4 DEF WithinWord
<1>7. ASSUME NEW last \in Nat, last < words, NEW u \in 0..W,
             RiceOn(left(last), done(last, u))
      PROVE  Tidy
  <2> DEFINE y == CrcFromRegisters(call, last)
             r == [y EXCEPT !.consumedWords = br.consumedWords]
             x == done(last, u)
  <2>1. last * W <= Len(br.data)
    <3>1. \A e, f, g \in Nat : e <= f => e * g <= f * g
      OBVIOUS
    <3> HIDE DEF words, W
    <3>2. last * W <= words * W /\ last * W \in Nat
      BY <1>3, <1>5, <1>7, <3>1
    <3> DEFINE a == last * W
               b == words * W
    <3>3. a \in Nat /\ a <= b /\ b \in Nat /\ b <= Len(br.data)
      BY <1>3, <3>2
    <3> HIDE DEF a, b
    <3> QED
      BY <1>3, <3>3 DEF a
  <2>2. y \in AnyReader /\ y.data = br.data
    BY <1>1, <2>1, FastCrc
  <2>3. y.consumedBits = br.consumedBits
    <3> DEFINE z == [br EXCEPT !.consumedWords = call.cw]
    <3>1. z \in AnyReader /\ z.consumedBits = br.consumedBits
      BY <1>3, <1>4 DEF AnyReader, RiceCalls
    <3>2. y = CrcWords(z, last)
      BY DEF CrcFromRegisters
    <3> HIDE DEF y, z
    <3>3. CrcWords(z, last).consumedBits = z.consumedBits
      <4> DEFINE v == CrcWords(z, last)
                 e == v.crc
                 a == v.crcAlign
      <4>1. v = [data |-> z.data, consumedWords |-> z.consumedWords,
                 consumedBits |-> z.consumedBits, crc |-> e, crcAlign |-> a]
        BY <3>1, CrcWordsKeep
      <4> HIDE DEF v, e, a
      <4>2. v.consumedBits = z.consumedBits
        BY <4>1
      <4> QED
        BY <4>2 DEF v
    <3> QED
      BY <3>1, <3>2, <3>3
  <2> HIDE DEF y
  <2>4. /\ r \in AnyReader /\ r.data = br.data
        /\ r.consumedWords = br.consumedWords /\ r.consumedBits = br.consumedBits
    BY <1>3, <2>2, <2>3 DEF AnyReader
  <2>5. x.cw = last /\ x.uc = u
    BY <1>4 DEF RiceCalls, WithValue
  <2>6. CompleteWords(r) = words
    BY <2>4 DEF CompleteWords
  <2>7. RiceOn(r, x)
    BY <1>7 DEF y
  <2>8. r.consumedBits \in 0..(BitsPerWord - 1) /\ Behind(r)
    BY <2>4 DEF Inside, WithinWord, Behind
  <2> HIDE DEF r, x, words
  <2> QED
    BY <1>7, <2>4, <2>5, <2>6, <2>7, <2>8, RiceTidy
<1>8. ASSUME stops # {}
      PROVE  cw \in Nat /\ cw < words /\ uc \in 0..(W - 1)
  <2>1. p \in stops
    <3>1. stops \subseteq Nat
      BY <1>3 DEF StopBits
    <3> HIDE DEF stops
    <3> QED
      BY <1>8, <3>1, FirstIs
  <2>2. p \in Nat /\ p < words * W
    <3> DEFINE t == words * W
    <3>1. t \in Nat /\ p \in RiceHead..(t - 1)
      BY <1>3, <2>1 DEF StopBits
    <3> HIDE DEF t, p
    <3>2. p \in Nat /\ p < t
      BY <1>3, <3>1
    <3> QED
      BY <3>2 DEF t
  <2> HIDE DEF p, words
  <2>3. cw \in Nat /\ p % W \in 0..(W - 1) /\ cw < words
    <3>1. W \in Nat \ {0}
      BY <1>5
    <3> HIDE DEF W
    <3> QED
      BY <1>3, <2>2, <3>1, QuotientRest, QuotientBelow
  <2> DEFINE rest == p % W
  <2>4. rest \in 0..(W - 1) /\ uc = W - 1 - rest
    BY <2>3
  <2> HIDE DEF rest, W, uc
  <2>5. uc \in 0..(W - 1)
    BY <1>5, <2>4
  <2> QED
    BY <2>3, <2>5
<1>9. CASE /\ stops = {}
           /\ Continues(spent, [call EXCEPT !.at = "msbs",
                                            !.msbs = words * W - RiceHead])
  <2> DEFINE m == words * W - RiceHead
             c == [call EXCEPT !.at = "msbs", !.msbs = m]
  <2>1. Continues(spent, c)
    BY <1>9
  <2> HIDE DEF m
  <2>2. c.at = "msbs"
    BY <1>4 DEF RiceCalls
  <2> HIDE DEF c, spent
  <2> QED
    BY <1>6, <2>1, <2>2 DEF Continues, Tidy, InFastLoop
<1>10. CASE stops # {} /\ k <= uc /\ RiceOn(left(cw), done(cw, uc - k))
  <2>1. cw \in Nat /\ cw < words /\ uc \in 0..(W - 1)
    BY <1>8, <1>10
  <2>2. uc - k \in 0..W
    <3> HIDE DEF uc, W, k
    <3> QED
      BY <1>4, <1>5, <1>10, <2>1
  <2> HIDE DEF cw, uc, words, W, k, left, done, stops
  <2> QED
    BY <1>7, <1>10, <2>1, <2>2
<1>11. CASE /\ stops # {} /\ k > uc /\ cw + 1 < words
            /\ RiceOn(left(cw + 1), done(cw + 1, uc + W - k))
  <2>1. cw \in Nat /\ cw < words /\ uc \in 0..(W - 1)
    BY <1>8, <1>11
  <2>2. uc + W - k \in 0..W
    <3> HIDE DEF uc, W, k
    <3> QED
      BY <1>4, <1>5, <1>11, <2>1
  <2>3. cw + 1 \in Nat /\ cw + 1 < words
    <3> HIDE DEF cw, words
    <3> QED
      BY <1>11, <2>1
  <2> HIDE DEF cw, uc, words, W, k, left, done, stops
  <2> QED
    BY <1>7, <1>11, <2>2, <2>3
<1>12. CASE /\ stops # {} /\ k > uc /\ cw + 1 >= words
            /\ Continues(spent,
                 [call EXCEPT !.at = "lsbs", !.msbs = p - RiceHead,
                              !.lsbs = SubSeq(br.data, p + 2, p + 1 + uc)])
  <2> DEFINE m == p - RiceHead
             bits == SubSeq(br.data, p + 2, p + 1 + uc)
             c == [call EXCEPT !.at = "lsbs", !.msbs = m, !.lsbs = bits]
  <2>1. Continues(spent, c)
    BY <1>12
  <2> HIDE DEF m, bits
  <2>2. c.at = "lsbs"
    BY <1>4 DEF RiceCalls
  <2> HIDE DEF c, spent
  <2> QED
    BY <1>6, <2>1, <2>2 DEF Continues, Tidy, InFastLoop
<1> QED
  BY <1>2, <1>9, <1>10, <1>11, <1>12

LEMMA BlockTidy ==
    ASSUME Going, Inside, call.op = "block", NEW q, WithinWord(q, br), NEW todo, NEW bytes,
           BlockOn(q, [call EXCEPT !.todo = todo, !.bytes = bytes])
    PROVE  Tidy
<1> DEFINE c == [call EXCEPT !.todo = todo, !.bytes = bytes]
<1>1. call # NoCall
  BY DEF NoCall
<1>2. call \in BlockCalls
  BY <1>1, CallIs DEF BlockDone
<1>3. c.op = "block"
  BY <1>2 DEF BlockCalls
<1> HIDE DEF c
<1>4. BlockOn(q, c)
  BY DEF c
<1>5. CASE c.todo = 0
  BY <1>4, <1>5 DEF BlockOn, Returned, Tidy, InFastLoop, NoCall
<1>6. CASE c.todo # 0
  BY <1>3, <1>4, <1>6 DEF BlockOn, Continues, Tidy, InFastLoop
<1> QED
  BY <1>5, <1>6

LEMMA BlockByteTidy ==
    ASSUME Going, Inside, ReadBlockByte
    PROVE  Tidy
<1> DEFINE q == AfterRaw(br, BitsPerByte)
           todo == call.todo - 1
           bytes == call.bytes \o Bytes(Peek(br, BitsPerByte))
<1>1. /\ call.op = "block" /\ Unconsumed(br) >= BitsPerByte
      /\ BlockOn(q, [call EXCEPT !.todo = todo, !.bytes = bytes])
  BY DEF ReadBlockByte
<1>2. br \in Readers
  BY <1>1, BlockCallIs
<1>3. WithinWord(q, br)
  <2>1. Unconsumed(br) \in Int
    BY <1>2, ReaderIs DEF Unconsumed
  <2> QED
    BY <1>1, <1>2, <2>1, AfterRawFits, ByteWidth
<1> HIDE DEF q, todo, bytes
<1> QED
  BY <1>1, <1>3, BlockTidy

LEMMA BlockWordTidy ==
    ASSUME Going, Inside, ReadBlockWord
    PROVE  Tidy
<1> DEFINE q == [br EXCEPT !.consumedWords = @ + 1]
           todo == call.todo - BytesPerWord
           bytes == call.bytes \o Bytes(Peek(br, BitsPerWord))
<1>1. call.op = "block" /\ BlockOn(q, [call EXCEPT !.todo = todo, !.bytes = bytes])
  BY DEF ReadBlockWord
<1>2. br \in Readers
  BY <1>1, BlockCallIs
<1>3. WithinWord(q, br)
  <2>1. q.data = br.data /\ q.consumedBits = br.consumedBits
    BY <1>2, ReaderIs DEF AnyReader
  <2> QED
    BY <2>1 DEF WithinWord, Inside
<1> HIDE DEF q, todo, bytes
<1> QED
  BY <1>1, <1>3, BlockTidy

(* A step that leaves the reader where it is. *)
LEMMA StandsTidy ==
    ASSUME Going, Inside, BeginRead \/ FetchFails \/ ResetCrc \/ GetCrc
    PROVE  /\ UNCHANGED <<bw, stream>>
           /\ br'.data = br.data /\ br'.consumedWords = br.consumedWords
           /\ br'.consumedBits = br.consumedBits
<1>1. br \in AnyReader
  BY GoingIs
<1>2. CASE BeginRead
  BY <1>2 DEF BeginRead, Continues
<1>3. CASE FetchFails
  BY <1>3 DEF FetchFails
<1>4. CASE ResetCrc
  <2>1. br' = [br EXCEPT !.crc = <<>>, !.crcAlign = br.consumedBits]
    BY <1>4 DEF ResetCrc, CrcReset
  <2> QED
    BY <1>1, <1>4, <2>1 DEF ResetCrc, AnyReader
<1>5. CASE GetCrc
  <2> DEFINE s == br.crc \o SubSeq(br.data, br.consumedWords * BitsPerWord + br.crcAlign + 1,
                                   Consumed(br))
  <2>1. br' = br \/ br' = [br EXCEPT !.crc = s, !.crcAlign = br.consumedBits]
    BY <1>5 DEF GetCrc, CrcRead
  <2> HIDE DEF s
  <2> QED
    BY <1>1, <1>5, <2>1 DEF GetCrc, AnyReader
<1> QED
  BY <1>2, <1>3, <1>4, <1>5

LEMMA FetchInside ==
    ASSUME Going, Inside, Fetch, ReaderInv'
    PROVE  Inside'
<1> DEFINE W == BitsPerWord
           B == BitsPerByte
           cap == ReaderCapacity
           c == CompleteWords(br)
           w == br.consumedWords
           len == Len(br.data)
           rest == len % W
           tail == TailBytes(br)
<1>1. /\ call.op # "none" /\ ~(call.op = "rice" /\ call.at = "fast")
      /\ UNCHANGED <<bw, phase, stream, call>>
  BY DEF Fetch, NeedsClient
<1>2. Live = br /\ Live' = br'
  BY <1>1 DEF Live
<1>3. br \in Readers /\ br \in AnyReader /\ Loaded
  BY <1>2, GoingIs
<1>4. br' \in Readers
  BY <1>1, <1>2 DEF Going, ReaderInv, Loaded
<1>5. PICK n \in 1..Least(Room(br), (Len(stream) - fed) \div B) :
         br' = Refill(br, SubSeq(stream, fed + 1, fed + n * B))
  BY DEF Fetch
<1> DEFINE to == fed + n * B
           old == SubSeq(br.data, w * W + 1, len)
           new == SubSeq(stream, fed + 1, to)
<1>6. /\ n \in Nat /\ n <= Room(br) /\ Room(br) \in Int
      /\ to \in Nat /\ fed <= to /\ to <= Len(stream)
  BY <1>2, FetchWithin
<1>7. /\ stream \in Bits /\ fed \in Nat /\ len \in Nat
  BY <1>3, Placed, GoingIs
<1>8. /\ c \in Nat /\ c * W \in Nat /\ rest \in 0..(W - 1) /\ len = c * W + rest /\ w <= c
      /\ w \in Nat /\ w * W \in Nat /\ br.data \in Bits
  BY <1>3, CompleteIs, ReaderIs
<1>9. B \in Nat \ {0} /\ BytesPerWord \in Nat \ {0} /\ W = BytesPerWord * B
  BY ByteWidth
<1>10. w * W <= len
  <2> DEFINE x == w * W
             y == Consumed(br)
  <2>1. y = x + br.consumedBits /\ y \in 0..len /\ br.consumedBits \in Nat
    BY <1>3, ReaderIs
  <2> HIDE DEF x, y, len
  <2> QED
    BY <1>7, <1>8, <2>1 DEF x
<1>11. br'.data = old \o new /\ br'.consumedBits = br.consumedBits
  <2> DEFINE d == old \o new
  <2>1. br' = [br EXCEPT !.data = d, !.consumedWords = 0]
    BY <1>5 DEF Refill
  <2> HIDE DEF d
  <2> QED
    BY <1>3, <2>1 DEF AnyReader, d
<1>12. old \in Bits /\ Len(old) = len - w * W /\ new \in Bits /\ Len(new) = n * B
  <2>1. old \in Bits /\ Len(old) = len - w * W
    <3> DEFINE x == w * W
    <3>1. x \in Nat /\ x <= len /\ len = Len(br.data)
      BY <1>8, <1>10
    <3> HIDE DEF x, len
    <3>2. SubSeq(br.data, x + 1, len) \in Bits /\ Len(SubSeq(br.data, x + 1, len)) = len - x
      BY <1>7, <1>8, <3>1, PieceIs
    <3> QED
      BY <3>2 DEF x
  <2>2. new \in Bits /\ Len(new) = to - fed
    <3> HIDE DEF to
    <3> QED
      BY <1>6, <1>7, PieceIs
  <2>3. to - fed = n * B
    <3>1. n * B \in Nat
      BY <1>6, <1>9
    <3> DEFINE x == n * B
    <3> HIDE DEF x
    <3> QED
      BY <1>7, <3>1 DEF x
  <2> QED
    BY <2>1, <2>2, <2>3
<1>13. Len(br'.data) = (len - w * W) + n * B
  <2> HIDE DEF old, new, len, w
  <2> QED
    BY <1>11, <1>12, Joining
<1>14. PICK t \in Nat : len = t * B
  BY DEF Inside
<1>15. rest = tail * B /\ tail \in Nat /\ w * W = (w * BytesPerWord) * B
       /\ t = c * BytesPerWord + tail
  <2> DEFINE a == c * BytesPerWord
             s == t - a
  <2>1. a \in Nat /\ c * W = a * B /\ w * W = (w * BytesPerWord) * B
    <3> HIDE DEF c, w, W
    <3> QED
      BY <1>8, <1>9
  <2>2. rest = s * B
    <3> DEFINE x == t * B
               y == a * B
    <3>1. s * B = x - y /\ x \in Int /\ y \in Int
      <4> HIDE DEF a
      <4> QED
        BY <1>9, <2>1
    <3>2. x = y + rest
      BY <1>8, <1>14, <2>1
    <3>3. rest \in Int
      BY <1>8
    <3> HIDE DEF x, y, rest, s
    <3> QED
      BY <3>1, <3>2, <3>3
  <2>3. s \in Nat
    <3>1. s \in Int /\ (s < 0 => s * B < 0)
      <4>1. \A e \in Int, f \in Nat \ {0} : e < 0 => e * f < 0
        OBVIOUS
      <4>2. s \in Int
        BY <2>1
      <4> HIDE DEF s
      <4> QED
        BY <1>9, <4>1, <4>2
    <3>2. rest >= 0
      BY <1>8
    <3> HIDE DEF s, rest
    <3> QED
      BY <2>2, <3>1, <3>2
  <2>4. tail = s
    <3>1. tail = rest \div B
      BY DEF TailBytes
    <3> HIDE DEF s, tail, rest
    <3>2. s * B + 0 = s * B /\ 0 \in 0..(B - 1)
      BY <1>9, <2>3
    <3>3. (s * B + 0) \div B = s
      BY <1>9, <2>3, <3>2, QuotientOf
    <3> QED
      BY <2>2, <3>1, <3>2, <3>3
  <2>5. t = a + s
    BY <2>1
  <2> HIDE DEF s, tail, a
  <2> QED
    BY <2>1, <2>2, <2>3, <2>4, <2>5 DEF a
<1>16. Len(br'.data) = (t - w * BytesPerWord + n) * B
       /\ t - w * BytesPerWord + n \in Nat
       /\ t - w * BytesPerWord + n <= cap * BytesPerWord
  <2> DEFINE v == w * BytesPerWord
             a == c * BytesPerWord
             most == (cap - (c - w)) * BytesPerWord
             all == cap * BytesPerWord
  <2>1. v \in Nat /\ a \in Nat /\ v <= a /\ most = all - a + v /\ all \in Nat
    <3>1. \A e, f, g \in Nat : e <= f => e * g <= f * g
      OBVIOUS
    <3>2. cap \in Nat
      BY ReaderAssumption
    <3> HIDE DEF c, w, cap
    <3> QED
      BY <1>8, <1>9, <3>1, <3>2
  <2>2. n <= most - tail /\ t = a + tail /\ tail \in Nat
    BY <1>6, <1>15 DEF Room
  <2>3. Len(br'.data) = (t * B - v * B) + n * B
    BY <1>13, <1>14, <1>15
  <2> HIDE DEF v, a, most, all, tail
  <2>4. t - v + n \in Nat /\ t - v + n <= all
    BY <1>6, <2>1, <2>2
  <2>5. (t * B - v * B) + n * B = (t - v + n) * B
    BY <1>6, <1>9, <2>1
  <2> QED
    BY <2>3, <2>4, <2>5 DEF v, all
<1>17. Len(br'.data) <= cap * W
  <2> DEFINE x == t - w * BytesPerWord + n
             all == cap * BytesPerWord
  <2>1. x \in Nat /\ x <= all /\ Len(br'.data) = x * B /\ all \in Nat
    BY <1>9, <1>16, ReaderAssumption
  <2>2. \A e, f, g \in Nat : e <= f => e * g <= f * g
    OBVIOUS
  <2>3. all * B = cap * W
    <3> HIDE DEF W
    <3> QED
      BY <1>9, ReaderAssumption
  <2> HIDE DEF x, all, W
  <2> QED
    BY <1>9, <2>1, <2>2, <2>3
<1>18. Consumed(br') <= Len(br'.data)
  BY <1>4 DEF Readers
<1>19. WithinWord(br', br')
  BY <1>11 DEF WithinWord, Inside
<1>20. stream' \in Bits
  BY <1>1, <1>7
<1>21. \E x \in Nat : Len(br'.data) = x * B
  BY <1>16
<1> QED
  BY <1>17, <1>18, <1>19, <1>20, <1>21 DEF Inside

LEMMA InitInside == Init => Inside
<1> SUFFICES ASSUME Init PROVE Inside
  OBVIOUS
<1>1. stream = <<>> /\ br = NewReader
  BY DEF Init
<1>2. br.data = <<>> /\ Len(br.data) = 0 /\ br.consumedBits = 0 /\ Consumed(br) = 0
  BY <1>1, NewReaderIs DEF NewReader
<1>3. stream \in Bits
  BY <1>1 DEF Bits
<1>4. 0 \in 0..(BitsPerWord - 1) /\ 0 <= ReaderCapacity * BitsPerWord
  BY WordWidth, ReaderAssumption
<1>5. 0 \in Nat /\ Len(br.data) = 0 * BitsPerByte
  BY <1>2, ByteWidth
<1> QED
  BY <1>2, <1>3, <1>4, <1>5 DEF Inside, WithinWord

LEMMA StandsInside ==
    ASSUME Inside, stream' \in Bits, br'.data = br.data,
           br'.consumedWords = br.consumedWords, br'.consumedBits = br.consumedBits
    PROVE  Inside'
<1>1. Consumed(br') = Consumed(br)
  BY DEF Consumed
<1> QED
  BY <1>1 DEF Inside, WithinWord

LEMMA NextInside ==
    WriterInv /\ ReaderInv /\ Inside /\ [Next]_vars => Inside'
<1> SUFFICES ASSUME WriterInv, ReaderInv, Inside, [Next]_vars PROVE Inside'
  OBVIOUS
<1>1. WriterInv' /\ ReaderInv'
  BY NextWriter, NextReader
<1>2. stream \in Bits
  BY DEF Inside
<1>3. CASE Writer
  <2>1. ASSUME NEW after, NEW it, Wrote(after, it) PROVE Inside'
    BY <1>2, <2>1, StandsInside DEF Wrote
  <2>2. CASE TakeBuffer
    <3>1. PICK n \in 0..(Len(BufferBits(bw')) \div BitsPerByte) :
             stream' = SubSeq(BufferBits(bw'), 1, n * BitsPerByte)
      BY <2>2 DEF TakeBuffer
    <3>2. BufferBits(bw') \in Bits
      BY <1>1, WriterFields DEF WriterInv
    <3>3. stream' \in Bits
      BY <3>1, <3>2, TakenIs
    <3> QED
      BY <2>2, <3>3, StandsInside DEF TakeBuffer
  <2> QED
    BY <1>3, <2>1, <2>2 DEF Writer, WriteRawItem, WriteUnaryItem, WriteRiceBlock,
                            WriteRiceSingly, WriteBlock
<1>4. CASE Reader \/ ResetCrc \/ GetCrc
  <2>1. Going
    BY <1>4, ReaderGoes
  <2>2. CASE BeginRead \/ FetchFails \/ ResetCrc \/ GetCrc
    BY <1>2, <2>1, <2>2, StandsTidy, StandsInside
  <2>3. CASE Fetch
    BY <1>1, <2>1, <2>3, FetchInside
  <2>4. CASE ReadRaw \/ ReadUnary \/ RiceFast \/ RiceMsbs \/ RiceLsbs
             \/ ReadBlockByte \/ ReadBlockWord
    <3>1. Tidy
      BY <2>1, <2>4, RawTidy, UnaryTidy, RiceFastTidy, RiceMsbsTidy, RiceLsbsTidy,
         BlockByteTidy, BlockWordTidy
    <3> QED
      BY <1>1, <2>1, <3>1, TidyKeeps
  <2> QED
    BY <1>4, <2>2, <2>3, <2>4 DEF Reader
<1>5. CASE UNCHANGED vars
  BY <1>2, <1>5, StandsInside DEF vars
<1> QED
  BY <1>3, <1>4, <1>5 DEF Next

(* The reader's buffer holds no more than its words, and what it holds are *)
(* the bits of the stream up to the last one that was handed out; the      *)
(* place of the reader is inside of it and never behind the last bit of a  *)
(* word; between calls it is where the codes of what was read end.         *)
THEOREM ReaderInsideHolds == Spec => []ReaderInside
<1>1. WriterInv /\ ReaderInv /\ Inside => ReaderInside
  <2> SUFFICES ASSUME WriterInv, ReaderInv, Inside PROVE ReaderInside
    OBVIOUS
  <2>1. /\ Len(br.data) <= ReaderCapacity * BitsPerWord
        /\ br.consumedBits \in 0..(BitsPerWord - 1)
        /\ Consumed(br) <= Len(br.data)
    BY DEF Inside, WithinWord
  <2>2. /\ br.data = SubSeq(stream, fed - Len(br.data) + 1, fed)
        /\ call = NoCall => fed - Unconsumed(br) = Len(Codes(got))
    <3>1. CASE phase # "writing" /\ bw.ok
      <4>1. Going
        BY <3>1 DEF Going
      <4>2. br.data = SubSeq(stream, fed - Len(br.data) + 1, fed)
        BY <4>1, GoingIs DEF Loaded, Base
      <4>3. ASSUME call = NoCall PROVE fed - Unconsumed(br) = Len(Codes(got))
        <5>1. Live = br
          BY <4>3 DEF Live, NoCall
        <5>2. Pos = Len(Codes(got))
          BY <4>1, <4>3, CallIs
        <5> DEFINE d == Len(br.data)
                   x == Consumed(br)
        <5>3. d \in Nat /\ x \in 0..d /\ Base \in Nat /\ Pos = Base + x /\ Base + d = fed
          BY <4>1, <5>1, Placed, GoingIs
        <5>4. Unconsumed(br) = d - x
          BY DEF Unconsumed
        <5> HIDE DEF d, x
        <5>5. fed - (d - x) = Pos
          BY <5>3
        <5> QED
          BY <5>2, <5>4, <5>5
      <4> QED
        BY <4>2, <4>3
    <3>2. CASE phase = "writing" \/ ~ bw.ok
      <4>1. got = <<>> /\ br = NewReader /\ fed = 0
        BY <3>2 DEF ReaderInv, Untouched
      <4>2. br.data = <<>> /\ Len(br.data) = 0 /\ Consumed(br) = 0
        BY <4>1, NewReaderIs DEF NewReader
      <4>3. Len(Codes(got)) = 0
        BY <4>1, CodesOfNone
      <4>4. SubSeq(stream, fed - Len(br.data) + 1, fed) = <<>>
        <5>1. stream \in Seq(Bit)
          BY DEF Inside, Bits
        <5> QED
          BY <4>1, <4>2, <5>1
      <4>5. fed - Unconsumed(br) = 0
        <5>1. Unconsumed(br) = Len(br.data) - Consumed(br)
          BY DEF Unconsumed
        <5>2. Unconsumed(br) = 0
          BY <4>2, <5>1
        <5> QED
          BY <4>1, <5>2
      <4> QED
        BY <4>2, <4>3, <4>4, <4>5
    <3> QED
      BY <3>1, <3>2
  <2> QED
    BY <2>1, <2>2 DEF ReaderInside
<1> QED
  BY <1>1, InitInside, NextInside, WriterInvariant, ReaderInvariant, PTL DEF Spec
=============================================================================
