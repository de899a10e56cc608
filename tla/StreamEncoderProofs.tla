------------------------ MODULE StreamEncoderProofs ------------------------
(***************************************************************************)
(* Theorems about StreamEncoder for any signal, block sizes, calls,        *)
(* metadata and failures.  The argument follows the samples: what the      *)
(* client handed over is, at every moment, what the frames decode to, what *)
(* the encoder has in its buffer, and what the call under way has left.    *)
(* The header is followed in the same way, from the units initialization   *)
(* sets out to write to the fields finish goes back to, and so is the seek *)
(* table: the points that were reached lead to their frames, the others    *)
(* wait in order.  At the end, what the arithmetic of a frame (Prediction) *)
(* takes apart is put together.                                            *)
(***************************************************************************)
EXTENDS StreamEncoder, Prediction, SequenceTheorems, FiniteSetTheorems,
        WellFoundedInduction, TLAPS

-----------------------------------------------------------------------------
(* Definitions by recursion.                                               *)
LEMMA LeastNumber ==
    ASSUME NEW T, T \subseteq Nat, T # {}
    PROVE  \E m \in T : \A n \in T : m <= n
<1>1. PICK m \in T : \A n \in T : <<n, m>> \notin OpToRel(<, Nat)
  BY NatLessThanWellFounded, WFMin
<1>2. ASSUME NEW n \in T, n < m PROVE FALSE
  BY <1>1, <1>2 DEF OpToRel
<1>3. \A n \in T : m <= n
  BY <1>2
<1> QED
  BY <1>3

(* A function that a step builds from its value at the number before.      *)
Builds(h, n, X, base, step) ==
    /\ h \in [0..n -> X]
    /\ h[0] = base
    /\ \A j \in 1..n : h[j] = step[j][h[j - 1]]

Steps(n, X) == [1..n -> [X -> X]]

LEMMA Recursion ==
    ASSUME NEW n \in Nat, NEW X, NEW base \in X, NEW step \in Steps(n, X)
    PROVE  \E h : Builds(h, n, X, base, step)
<1> DEFINE missing == {m \in 0..n : ~ \E h : Builds(h, m, X, base, step)}
<1>1. SUFFICES ASSUME missing # {} PROVE FALSE
  BY <1>1
<1>2. PICK m \in missing : \A k \in missing : m <= k
  <2>1. missing \subseteq Nat
    OBVIOUS
  <2> HIDE DEF missing
  <2> QED
    BY <1>1, <2>1, LeastNumber
<1>3. CASE m = 0
  <2>1. Builds([j \in 0..0 |-> base], 0, X, base, step)
    BY DEF Builds
  <2> QED
    BY <1>2, <1>3, <2>1
<1>4. CASE m # 0
  <2>1. m \in 1..n /\ m - 1 \in 0..n /\ m - 1 \notin missing
    BY <1>2, <1>4
  <2>2. PICK h : Builds(h, m - 1, X, base, step)
    BY <2>1
  <2> DEFINE g == [j \in 0..m |-> IF j = m THEN step[m][h[m - 1]] ELSE h[j]]
  <2>3. h[m - 1] \in X /\ step[m] \in [X -> X]
    BY <2>1, <2>2 DEF Builds, Steps
  <2>4. g \in [0..m -> X] /\ g[0] = base
    BY <2>1, <2>2, <2>3 DEF Builds
  <2>5. ASSUME NEW j \in 1..m PROVE g[j] = step[j][g[j - 1]]
    <3>1. g[j - 1] = h[j - 1]
      BY <2>1
    <3>2. CASE j = m
      BY <3>1, <3>2
    <3>3. CASE j # m
      <4>1. j \in 1..(m - 1) /\ g[j] = h[j]
        BY <3>3
      <4> QED
        BY <2>2, <3>1, <4>1 DEF Builds
    <3> QED
      BY <3>2, <3>3
  <2>6. Builds(g, m, X, base, step)
    BY <2>4, <2>5 DEF Builds
  <2> QED
    BY <1>2, <2>6
<1> QED
  BY <1>3, <1>4

(* Two functions that begin alike and go on alike are alike.               *)
Alike(n, f, g) ==
    /\ f[0] = g[0]
    /\ \A j \in 1..n : f[j - 1] = g[j - 1] => f[j] = g[j]

LEMMA SameRecursion ==
    ASSUME NEW n \in Nat, NEW f, NEW g, Alike(n, f, g)
    PROVE  \A j \in 0..n : f[j] = g[j]
<1> DEFINE differ == {j \in 0..n : f[j] # g[j]}
<1>1. SUFFICES ASSUME differ # {} PROVE FALSE
  BY <1>1
<1>2. PICK j \in differ : \A k \in differ : j <= k
  <2>1. differ \subseteq Nat
    OBVIOUS
  <2> HIDE DEF differ
  <2> QED
    BY <1>1, <2>1, LeastNumber
<1>3. j \in 1..n /\ j - 1 \in 0..n /\ j - 1 \notin differ
  BY <1>2 DEF Alike
<1> QED
  BY <1>2, <1>3 DEF Alike

(* FramesOf, unfolded: its values, and that they are what it returns.      *)
LEMMA FramesUnfold ==
    ASSUME NEW A, NEW units \in Seq(A)
    PROVE  \E kept :
              /\ kept[0] = <<>>
              /\ \A j \in 1..Len(units) :
                    kept[j] = IF units[j].type = "frame"
                              THEN Append(kept[j - 1], units[j]) ELSE kept[j - 1]
              /\ \A j \in 0..Len(units) :
                    kept[j] \in Seq({a \in A : a.type = "frame"})
              /\ FramesOf(units) = kept[Len(units)]
<1> DEFINE n == Len(units)
           F == {a \in A : a.type = "frame"}
           Keep(j, fs) == IF units[j].type = "frame" THEN Append(fs, units[j]) ELSE fs
           step == [j \in 1..n |-> [fs \in Seq(F) |-> Keep(j, fs)]]
           Body(f) == [j \in 0..n |-> IF j = 0 THEN <<>>
                                      ELSE IF units[j].type = "frame"
                                      THEN Append(f[j - 1], units[j]) ELSE f[j - 1]]
           kept == CHOOSE f : f = Body(f)
<1>1. n \in Nat /\ <<>> \in Seq(F)
  OBVIOUS
<1>2. step \in [1..n -> [Seq(F) -> Seq(F)]]
  <2>1. ASSUME NEW j \in 1..n, NEW fs \in Seq(F) PROVE Keep(j, fs) \in Seq(F)
    <3>1. units[j] \in A
      OBVIOUS
    <3>2. units[j].type = "frame" => units[j] \in F
      BY <3>1
    <3> QED
      BY <3>2
  <2> HIDE DEF Keep
  <2> QED
    BY <2>1
<1>3. PICK h \in [0..n -> Seq(F)] :
         h[0] = <<>> /\ \A j \in 1..n : h[j] = step[j][h[j - 1]]
  <2> DEFINE X == Seq(F)
  <2>1. n \in Nat /\ <<>> \in X /\ step \in Steps(n, X)
    BY <1>1, <1>2 DEF Steps
  <2> HIDE DEF step, X, n
  <2>2. PICK h : Builds(h, n, X, <<>>, step)
    BY <2>1, Recursion
  <2> QED
    BY <2>2 DEF Builds, X
<1>4. \A j \in 1..n : h[j] = Keep(j, h[j - 1])
  <2>1. ASSUME NEW j \in 1..n PROVE h[j] = Keep(j, h[j - 1])
    <3>1. h[j - 1] \in Seq(F)
      BY <1>3
    <3>2. step[j][h[j - 1]] = Keep(j, h[j - 1])
      BY <3>1
    <3> QED
      BY <1>3, <3>2
  <2> QED
    BY <2>1
<1>5. h = Body(h)
  <2>1. ASSUME NEW j \in 0..n PROVE h[j] = Body(h)[j]
    <3>1. CASE j = 0
      BY <1>3, <3>1
    <3>2. CASE j # 0
      <4>1. j \in 1..n
        BY <3>2
      <4>2. h[j] = Keep(j, h[j - 1])
        BY <1>4, <4>1
      <4> QED
        BY <3>2, <4>2
    <3> QED
      BY <3>1, <3>2
  <2>2. DOMAIN h = 0..n /\ h = [j \in 0..n |-> h[j]]
    BY <1>3
  <2> QED
    BY <2>1, <2>2
<1>6. kept = Body(kept)
  <2> HIDE DEF Body
  <2> QED
    BY <1>5
<1>7. FramesOf(units) = kept[n]
  BY DEF FramesOf
<1> HIDE DEF kept
<1>8. /\ kept[0] = <<>>
      /\ \A j \in 1..n : kept[j] = Keep(j, kept[j - 1])
  <2>1. \A j \in 0..n : kept[j] = Body(kept)[j]
    BY <1>6
  <2> QED
    BY <2>1
<1>9. \A j \in 0..n : kept[j] = h[j]
  <2>1. Alike(n, kept, h)
    <3> HIDE DEF Keep
    <3> QED
      BY <1>3, <1>4, <1>8 DEF Alike
  <2> QED
    BY <1>1, <2>1, SameRecursion
<1>10. \A j \in 0..n : kept[j] \in Seq(F)
  BY <1>3, <1>9
<1> QED
  BY <1>7, <1>8, <1>10

(* What the frames of one unit more are.                                   *)
LEMMA FramesAppend ==
    ASSUME NEW A, NEW units \in Seq(A), NEW u \in A
    PROVE  FramesOf(Append(units, u)) =
              IF u.type = "frame" THEN Append(FramesOf(units), u) ELSE FramesOf(units)
<1> DEFINE n == Len(units)
           more == Append(units, u)
<1>1. PICK h : /\ h[0] = <<>>
               /\ \A j \in 1..n : h[j] = IF units[j].type = "frame"
                                         THEN Append(h[j - 1], units[j]) ELSE h[j - 1]
               /\ FramesOf(units) = h[n]
  BY FramesUnfold
<1>2. more \in Seq(A) /\ Len(more) = n + 1 /\ n \in Nat
  OBVIOUS
<1>3. more[n + 1] = u /\ \A j \in 1..n : more[j] = units[j]
  OBVIOUS
<1> HIDE DEF more
<1>4. PICK g : /\ g[0] = <<>>
               /\ \A j \in 1..(n + 1) : g[j] = IF more[j].type = "frame"
                                               THEN Append(g[j - 1], more[j]) ELSE g[j - 1]
               /\ FramesOf(more) = g[n + 1]
  <2>1. Len(more) = n + 1
    BY <1>2
  <2> HIDE DEF n
  <2> QED
    BY <1>2, <2>1, FramesUnfold
<1>5. h[n] = g[n]
  <2>1. Alike(n, h, g)
    BY <1>1, <1>3, <1>4 DEF Alike
  <2>2. n \in Nat /\ n \in 0..n
    BY <1>2
  <2> HIDE DEF n
  <2> QED
    BY <2>1, <2>2, SameRecursion
<1>6. g[n + 1] = IF more[n + 1].type = "frame"
                 THEN Append(g[n], more[n + 1]) ELSE g[n]
  <2>1. n + 1 \in 1..(n + 1) /\ (n + 1) - 1 = n
    BY <1>2
  <2> QED
    BY <1>4, <2>1
<1> QED
  BY <1>1, <1>3, <1>4, <1>5, <1>6 DEF more

(* A sequence whose frames are the same units at the same places has the   *)
(* same frames.                                                            *)
LEMMA FramesSame ==
    ASSUME NEW A, NEW units \in Seq(A), NEW B, NEW others \in Seq(B),
           Len(others) = Len(units),
           \A i \in 1..Len(units) :
              /\ others[i].type = units[i].type
              /\ units[i].type = "frame" => others[i] = units[i]
    PROVE  FramesOf(others) = FramesOf(units)
<1> DEFINE n == Len(units)
<1>1. PICK h : /\ h[0] = <<>>
               /\ \A j \in 1..n : h[j] = IF units[j].type = "frame"
                                         THEN Append(h[j - 1], units[j]) ELSE h[j - 1]
               /\ FramesOf(units) = h[n]
  BY FramesUnfold
<1>2. PICK g : /\ g[0] = <<>>
               /\ \A j \in 1..n : g[j] = IF others[j].type = "frame"
                                         THEN Append(g[j - 1], others[j]) ELSE g[j - 1]
               /\ FramesOf(others) = g[n]
  <2> HIDE DEF n
  <2>1. Len(others) = n
    BY DEF n
  <2> QED
    BY <2>1, FramesUnfold
<1>3. Alike(n, h, g)
  BY <1>1, <1>2 DEF Alike
<1>4. n \in Nat /\ n \in 0..n
  OBVIOUS
<1> HIDE DEF n
<1>5. h[n] = g[n]
  BY <1>3, <1>4, SameRecursion
<1> QED
  BY <1>1, <1>2, <1>5

LEMMA FramesOfNone == FramesOf(<<>>) = <<>>
<1> DEFINE none == <<>>
<1>1. none \in Seq({}) /\ Len(none) = 0
  OBVIOUS
<1> HIDE DEF none
<1>2. PICK h : h[0] = <<>> /\ FramesOf(none) = h[Len(none)]
  BY <1>1, FramesUnfold
<1>3. FramesOf(none) = <<>>
  BY <1>1, <1>2
<1> QED
  BY <1>3 DEF none

LEMMA FramesType ==
    ASSUME NEW A, NEW units \in Seq(A)
    PROVE  FramesOf(units) \in Seq({a \in A : a.type = "frame"})
<1>1. Len(units) \in 0..Len(units)
  OBVIOUS
<1> QED
  BY <1>1, FramesUnfold

(* The same for AudioOf.                                                   *)
LEMMA AudioUnfold ==
    ASSUME NEW A, NEW frames \in Seq(A), \A f \in A : Decoded(f) \in Seq(Int)
    PROVE  \E heard :
              /\ heard[0] = <<>>
              /\ \A j \in 1..Len(frames) : heard[j] = heard[j - 1] \o Decoded(frames[j])
              /\ \A j \in 0..Len(frames) : heard[j] \in Seq(Int)
              /\ AudioOf(frames) = heard[Len(frames)]
<1> DEFINE n == Len(frames)
           X == Seq(Int)
           step == [j \in 1..n |-> [x \in X |-> x \o Decoded(frames[j])]]
           Body(f) == [j \in 0..n |-> IF j = 0 THEN <<>>
                                      ELSE f[j - 1] \o Decoded(frames[j])]
           heard == CHOOSE f : f = Body(f)
<1>1. n \in Nat /\ <<>> \in X
  OBVIOUS
<1>2. ASSUME NEW j \in 1..n PROVE Decoded(frames[j]) \in X
  OBVIOUS
<1>3. step \in Steps(n, X)
  <2>1. ASSUME NEW j \in 1..n, NEW x \in X PROVE x \o Decoded(frames[j]) \in X
    <3>1. Decoded(frames[j]) \in X
      BY <1>2
    <3> QED
      BY <3>1
  <2> HIDE DEF X
  <2> QED
    BY <2>1 DEF Steps
<1>4. PICK h : Builds(h, n, X, <<>>, step)
  <2> HIDE DEF step, X, n
  <2> QED
    BY <1>1, <1>3, Recursion
<1>5. /\ h \in [0..n -> X] /\ h[0] = <<>>
      /\ \A j \in 1..n : h[j] = h[j - 1] \o Decoded(frames[j])
  <2>1. h \in [0..n -> X] /\ h[0] = <<>>
    BY <1>4 DEF Builds
  <2>2. ASSUME NEW j \in 1..n PROVE h[j] = h[j - 1] \o Decoded(frames[j])
    <3>1. h[j - 1] \in X
      <4>1. j - 1 \in 0..n
        OBVIOUS
      <4> HIDE DEF X
      <4> QED
        BY <2>1, <4>1
    <3>2. step[j][h[j - 1]] = h[j - 1] \o Decoded(frames[j])
      <4> HIDE DEF X
      <4> QED
        BY <3>1
    <3> HIDE DEF step
    <3> QED
      BY <1>4, <3>2 DEF Builds
  <2> QED
    BY <2>1, <2>2
<1>6. h = Body(h)
  <2>1. ASSUME NEW j \in 0..n PROVE h[j] = Body(h)[j]
    <3>1. j # 0 => j \in 1..n
      OBVIOUS
    <3> QED
      BY <1>5, <3>1
  <2>2. h = [j \in 0..n |-> h[j]]
    BY <1>5
  <2> QED
    BY <2>1, <2>2
<1>7. heard = Body(heard)
  <2> HIDE DEF Body
  <2> QED
    BY <1>6
<1>8. AudioOf(frames) = heard[n]
  BY DEF AudioOf
<1> HIDE DEF heard
<1>9. /\ heard[0] = <<>>
      /\ \A j \in 1..n : heard[j] = heard[j - 1] \o Decoded(frames[j])
  <2>1. ASSUME NEW j \in 0..n
        PROVE  heard[j] = IF j = 0 THEN <<>> ELSE heard[j - 1] \o Decoded(frames[j])
    BY <1>7
  <2>2. heard[0] = <<>>
    BY <1>1, <2>1
  <2>3. ASSUME NEW j \in 1..n PROVE heard[j] = heard[j - 1] \o Decoded(frames[j])
    <3>1. j \in 0..n /\ j # 0
      OBVIOUS
    <3> QED
      BY <2>1, <3>1
  <2> QED
    BY <2>2, <2>3
<1>10. \A j \in 0..n : heard[j] = h[j]
  <2>1. Alike(n, heard, h)
    BY <1>5, <1>9 DEF Alike
  <2> QED
    BY <1>1, <2>1, SameRecursion
<1>11. \A j \in 0..n : heard[j] \in X
  BY <1>5, <1>10
<1> QED
  BY <1>8, <1>9, <1>11

LEMMA AudioAppend ==
    ASSUME NEW A, NEW frames \in Seq(A), \A f \in A : Decoded(f) \in Seq(Int),
           NEW u \in A
    PROVE  AudioOf(Append(frames, u)) = AudioOf(frames) \o Decoded(u)
<1> DEFINE n == Len(frames)
           more == Append(frames, u)
<1>1. PICK h : /\ h[0] = <<>>
               /\ \A j \in 1..n : h[j] = h[j - 1] \o Decoded(frames[j])
               /\ AudioOf(frames) = h[n]
  BY AudioUnfold
<1>2. /\ more \in Seq(A) /\ Len(more) = n + 1 /\ n \in Nat
      /\ more[n + 1] = u /\ \A j \in 1..n : more[j] = frames[j]
  OBVIOUS
<1> HIDE DEF more
<1>3. PICK g : /\ g[0] = <<>>
               /\ \A j \in 1..(n + 1) : g[j] = g[j - 1] \o Decoded(more[j])
               /\ AudioOf(more) = g[n + 1]
  <2>1. Len(more) = n + 1
    BY <1>2
  <2> HIDE DEF n
  <2> QED
    BY <1>2, <2>1, AudioUnfold
<1>4. h[n] = g[n]
  <2>1. Alike(n, h, g)
    <3>1. ASSUME NEW j \in 1..n, h[j - 1] = g[j - 1] PROVE h[j] = g[j]
      <4>1. h[j] = h[j - 1] \o Decoded(frames[j]) /\ more[j] = frames[j]
        BY <1>1, <1>2
      <4>2. g[j] = g[j - 1] \o Decoded(more[j])
        <5>1. j \in 1..(n + 1)
          BY <1>2
        <5> QED
          BY <1>3, <5>1
      <4> QED
        BY <3>1, <4>1, <4>2
    <3> QED
      BY <1>1, <1>3, <3>1 DEF Alike
  <2>2. n \in Nat /\ n \in 0..n
    BY <1>2
  <2> HIDE DEF n
  <2> QED
    BY <2>1, <2>2, SameRecursion
<1>5. g[n + 1] = g[n] \o Decoded(more[n + 1])
  <2>1. n + 1 \in 1..(n + 1) /\ (n + 1) - 1 = n
    BY <1>2
  <2> QED
    BY <1>3, <2>1
<1> QED
  BY <1>1, <1>2, <1>3, <1>4, <1>5 DEF more

LEMMA AudioType ==
    ASSUME NEW A, NEW frames \in Seq(A), \A f \in A : Decoded(f) \in Seq(Int)
    PROVE  AudioOf(frames) \in Seq(Int)
<1>1. Len(frames) \in 0..Len(frames)
  OBVIOUS
<1> QED
  BY <1>1, AudioUnfold

LEMMA AudioOfNone == AudioOf(<<>>) = <<>>
<1> DEFINE none == <<>>
           E == {}
<1>1. none \in Seq(E) /\ Len(none) = 0
  OBVIOUS
<1>2. \A f \in E : Decoded(f) \in Seq(Int)
  OBVIOUS
<1> HIDE DEF none, E
<1>3. PICK h : h[0] = <<>> /\ AudioOf(none) = h[Len(none)]
  BY <1>1, <1>2, AudioUnfold
<1> QED
  BY <1>1, <1>3 DEF none

-----------------------------------------------------------------------------
(* Wasted bits: shifting them out and in again changes nothing.            *)
LEMMA PowersPositive == \A s \in 0..30 : 2^s \in Nat \ {0}
<1>1. ASSUME NEW s \in 0..30 PROVE 2^s \in Nat \ {0}
  <2>1. \/ s = 0 \/ s = 1 \/ s = 2 \/ s = 3 \/ s = 4 \/ s = 5 \/ s = 6 \/ s = 7
        \/ s = 8 \/ s = 9 \/ s = 10 \/ s = 11 \/ s = 12 \/ s = 13 \/ s = 14
        \/ s = 15 \/ s = 16 \/ s = 17 \/ s = 18 \/ s = 19 \/ s = 20 \/ s = 21
        \/ s = 22 \/ s = 23 \/ s = 24 \/ s = 25 \/ s = 26 \/ s = 27 \/ s = 28
        \/ s = 29 \/ s = 30
    OBVIOUS
  <2>2. /\ 2^0 \in Nat \ {0} /\ 2^1 \in Nat \ {0} /\ 2^2 \in Nat \ {0}
        /\ 2^3 \in Nat \ {0} /\ 2^4 \in Nat \ {0} /\ 2^5 \in Nat \ {0}
        /\ 2^6 \in Nat \ {0} /\ 2^7 \in Nat \ {0} /\ 2^8 \in Nat \ {0}
        /\ 2^9 \in Nat \ {0} /\ 2^10 \in Nat \ {0} /\ 2^11 \in Nat \ {0}
        /\ 2^12 \in Nat \ {0} /\ 2^13 \in Nat \ {0} /\ 2^14 \in Nat \ {0}
        /\ 2^15 \in Nat \ {0} /\ 2^16 \in Nat \ {0} /\ 2^17 \in Nat \ {0}
        /\ 2^18 \in Nat \ {0} /\ 2^19 \in Nat \ {0} /\ 2^20 \in Nat \ {0}
        /\ 2^21 \in Nat \ {0} /\ 2^22 \in Nat \ {0} /\ 2^23 \in Nat \ {0}
        /\ 2^24 \in Nat \ {0} /\ 2^25 \in Nat \ {0} /\ 2^26 \in Nat \ {0}
        /\ 2^27 \in Nat \ {0} /\ 2^28 \in Nat \ {0} /\ 2^29 \in Nat \ {0}
        /\ 2^30 \in Nat \ {0}
    OBVIOUS
  <2> QED
    BY <2>1, <2>2, Zenon
<1> QED
  BY <1>1

LEMMA WastedWasted ==
    ASSUME NEW block \in Seq(Int)
    PROVE  /\ Wasted(block) \in 0..30
           /\ \A i \in 1..Len(block) : block[i] % 2^Wasted(block) = 0
<1>1. 0 \in WastedIn(block)
  <2>1. 2^0 = 1
    OBVIOUS
  <2>2. \A i \in DOMAIN block : block[i] % 1 = 0
    OBVIOUS
  <2> QED
    BY <2>1, <2>2 DEF WastedIn
<1>2. WastedIn(block) \subseteq 0..30
  BY DEF WastedIn
<1>3. \E s \in WastedIn(block) : \A t \in WastedIn(block) : t <= s
  <2> DEFINE spare == {30 - s : s \in WastedIn(block)}
  <2>1. spare \subseteq Nat /\ spare # {}
    <3>1. ASSUME NEW s \in WastedIn(block) PROVE 30 - s \in Nat
      <4>1. s \in 0..30
        BY <1>2
      <4> QED
        BY <4>1
    <3>2. 30 - 0 \in spare
      BY <1>1
    <3> QED
      BY <3>1, <3>2
  <2>2. PICK m \in spare : \A k \in spare : m <= k
    <3> HIDE DEF spare
    <3> QED
      BY <2>1, LeastNumber
  <2>3. PICK s \in WastedIn(block) : m = 30 - s
    OBVIOUS
  <2>4. ASSUME NEW t \in WastedIn(block) PROVE t <= s
    <3>1. 30 - t \in spare
      OBVIOUS
    <3> HIDE DEF spare
    <3>2. m <= 30 - t
      BY <2>2, <3>1
    <3>3. s \in 0..30 /\ t \in 0..30
      BY <1>2
    <3> QED
      BY <2>3, <3>2, <3>3
  <2> QED
    BY <2>4
<1>4. CASE \A i \in DOMAIN block : block[i] = 0
  <2>1. Wasted(block) = 0
    BY <1>4 DEF Wasted
  <2> QED
    BY <1>1, <2>1 DEF WastedIn
<1>5. CASE ~ \A i \in DOMAIN block : block[i] = 0
  <2>1. Wasted(block) \in WastedIn(block)
    BY <1>3, <1>5 DEF Wasted
  <2> QED
    BY <2>1 DEF WastedIn
<1> QED
  BY <1>4, <1>5

LEMMA ShiftedBack ==
    ASSUME NEW x \in Int, NEW p \in Nat \ {0}
    PROVE  /\ x \div p \in Int
           /\ x % p = 0 => (x \div p) * p = x
           /\ x % p = 0 => (x \div p + 1) * p # x
<1>1. x = p * (x \div p) + (x % p) /\ x \div p \in Int
  OBVIOUS
<1> DEFINE q == x \div p
<1>2. q * p = p * q /\ (q + 1) * p = p * q + p
  BY <1>1
<1> QED
  BY <1>1, <1>2

-----------------------------------------------------------------------------
(* Types.  A record whose fields are known but not all of interest is said *)
(* to be what its fields make it; a sequence, one of its own items.        *)
EncoderFields ==
    {"verify", "blocksize", "valid", "metadata", "seekTable", "client", "state",
     "signal", "fifo", "fifoSize", "frameNumber", "samplesWritten", "firstPoint",
     "hint", "file", "streaminfo", "streaminfoOffset", "seektableOffset", "audioOffset"}

Whole(e) == e = [f \in EncoderFields |-> e[f]]

EncoderType(e) ==
    /\ Whole(e)
    /\ e.verify \in BOOLEAN
    /\ e.blocksize \in Nat /\ e.fifoSize \in Nat /\ e.frameNumber \in Nat
    /\ e.signal \in Seq(Int) /\ e.fifo \in Seq(Int)
    /\ e.metadata \in Seq(Blocks)
    /\ e.streaminfo \in [total : Nat, min : Nat, max : Nat]

Items(s) == {s[i] : i \in DOMAIN s}

HeaderUnit(u) == "type" \in DOMAIN u /\ u.type # "frame"

Frame(u) ==
    /\ "type" \in DOMAIN u /\ u.type = "frame"
    /\ u.wasted \in 0..30 /\ u.coded \in Seq(Int)

UnitsType(units) ==
    /\ units \in Seq(Items(units))
    /\ \A u \in Items(units) : HeaderUnit(u) \/ Frame(u)

(* What finish updates in the header, in this order.                       *)
Updates == {"md5", "total", "sizes", "points"}

CallType ==
    \/ call = NoCall
    \/ /\ call = [op |-> "init", todo |-> call.todo]
       /\ call.todo \in Seq(Items(call.todo))
       /\ \A u \in Items(call.todo) : HeaderUnit(u)
    \/ call \in [op : {"process"}, todo : Seq(Int)]
    \/ call \in [op : {"finish"}, error : BOOLEAN, todo : Seq(Updates)]

HistoryType ==
    history \in [streams : Nat, faults : Nat, client : Kinds \cup {"none"},
                miscoded : BOOLEAN, unverified : BOOLEAN, failed : BOOLEAN,
                mismatch : BOOLEAN]

Types ==
    /\ EncoderType(enc)
    /\ UnitsType(out)
    /\ CallType
    /\ given \in Seq(Int)
    /\ HistoryType

(* When each call is under way, and what a stream that went wrong leaves.  *)
Control ==
    /\ call.op \in {"init", "process"} => enc.state = "OK"
    /\ call.op = "finish" =>
          /\ enc.state # "UNINITIALIZED"
          /\ enc.state = "OK" => enc.signal = <<>>
          /\ call.error => enc.state # "OK"
          /\ call.todo # <<>> => enc.state = "OK"
    /\ enc.state \notin {"OK", "UNINITIALIZED"} => history.failed
    /\ finish = "true" => enc.state = "UNINITIALIZED" /\ call = NoCall
    /\ enc.state = "OK" /\ call.op # "init" => enc.hint = "audio"

Todo == IF call.op = "process" THEN call.todo ELSE <<>>

(* Where the samples of a stream are: in its frames, in the encoder's       *)
(* buffer, and left in the call.                                            *)
SamplesAt(h, g, units, e, left) ==
    LET audio == AudioOf(FramesOf(units))
    IN  /\ ~h.unverified => g = (audio \o e.signal) \o left
        /\ Len(g) = Len(audio) + Len(e.signal) + Len(left)
        /\ e.fifo = IF e.verify THEN e.signal ELSE <<>>
        /\ e.verify => ~h.miscoded
        /\ e.frameNumber = Len(FramesOf(units))

(* The numbers of the frames.                                              *)
Numbered(frames) == \A i \in DOMAIN frames : frames[i].number = i - 1

(* While a stream is encoded, nothing is lost and the buffers are in step.  *)
Buffers ==
    enc.state = "OK" =>
        /\ SamplesAt(history, given, out, enc, Todo)
        /\ Len(enc.signal) <= enc.blocksize
        /\ call.op # "finish" => enc.blocksize > 0 /\ enc.fifoSize = enc.blocksize + 1

(* What stays true when the stream was given up or is finished.            *)
Results ==
    /\ history.mismatch => history.miscoded
    /\ history.unverified => history.miscoded
    /\ Len(enc.fifo) <= enc.fifoSize
    /\ ~history.unverified => IsPrefix(Audio, given)
    /\ Numbered(Frames)
    /\ finish = "true" /\ ~history.failed =>
          /\ Len(given) = Len(Audio)
          /\ ~history.unverified => given = Audio

IInv == Types /\ Control /\ Buffers /\ Results

-----------------------------------------------------------------------------
(* What the functions of the encoder do to it.                             *)
(* The fields that writing leaves alone.                                   *)
Kept(e, d) ==
    /\ d.verify = e.verify /\ d.blocksize = e.blocksize /\ d.fifoSize = e.fifoSize
    /\ d.frameNumber = e.frameNumber /\ d.signal = e.signal /\ d.metadata = e.metadata
    /\ d.hint = e.hint /\ d.client = e.client /\ d.seekTable = e.seekTable

Result(r) ==
    /\ r = [enc |-> r.enc, tables |-> r.tables, out |-> r.out, ok |-> r.ok]
    /\ r.ok \in BOOLEAN

ErrorStates ==
    {"CLIENT_ERROR", "MEMORY_ERROR", "VERIFY_DECODER_ERROR", "FRAMING_ERROR", "IO_ERROR"}

(* Where the encoder remembers that a header unit begins.                  *)
Located(e, units, unit, d) ==
    LET position == IF CanTell(e.client) THEN Position(units) ELSE 0
    IN  /\ d.streaminfoOffset = IF unit.type = "streaminfo" THEN position
                                ELSE e.streaminfoOffset
        /\ d.seektableOffset = IF unit.type = "seektable" /\ e.seektableOffset = 0
                               THEN position ELSE e.seektableOffset

Alright(e, d) ==
    /\ EncoderType(d) /\ Kept(e, d) /\ d.fifo = e.fifo /\ d.streaminfo = e.streaminfo

LEMMA OneFieldFailed ==
    ASSUME NEW e, EncoderType(e), NEW t, NEW units, NEW state
    PROVE  LET r == Failed(e, t, units, state)
           IN  /\ Result(r) /\ ~r.ok /\ r.out = units
               /\ Alright(e, r.enc) /\ r.enc.state = state
<1> DEFINE d == [e EXCEPT !.state = state]
           r == Failed(e, t, units, state)
<1>1. Alright(e, d) /\ d.state = state
  BY DEF EncoderType, EncoderFields, Whole, Kept, Alright
<1>2. r = [enc |-> d, tables |-> t, out |-> units, ok |-> FALSE]
  BY DEF Failed
<1> HIDE DEF d, r
<1>3. Result(r) /\ ~r.ok /\ r.out = units /\ r.enc = d
  BY <1>2 DEF Result
<1> QED
  BY <1>1, <1>3 DEF r

Wrote(e, units, unit, r) ==
    /\ Result(r) /\ Alright(e, r.enc)
    /\ r.ok => /\ r.enc.state = e.state /\ r.out = Append(units, unit)
               /\ Located(e, units, unit, r.enc)
    /\ ~r.ok => r.enc.state \in ErrorStates /\ r.out = units

LEMMA WriteFrameWrites ==
    ASSUME NEW e, EncoderType(e), NEW t, NEW units, NEW unit, NEW samples \in Nat, NEW f,
           samples = 0 <=> unit.type # "frame"
    PROVE  Wrote(e, units, unit, WriteFrame(e, t, units, unit, samples, f))
<1> DEFINE position == IF CanTell(e.client) THEN Position(units) ELSE 0
           marks == e.seekTable # NoTable /\ e.audioOffset > 0
           located ==
               CASE samples = 0 /\ unit.type = "streaminfo" ->
                        [e EXCEPT !.streaminfoOffset = position]
                 [] samples = 0 /\ unit.type = "seektable" /\ e.seektableOffset = 0 ->
                        [e EXCEPT !.seektableOffset = position]
                 [] OTHER -> e
           marked == IF marks THEN [t EXCEPT ![e.seekTable] = Marked(e, @, position)]
                     ELSE t
           advanced == IF marks
                       THEN [located EXCEPT
                               !.firstPoint = @ + Cardinality(Reached(e, t[e.seekTable]))]
                       ELSE located
           r == WriteFrame(e, t, units, unit, samples, f)
           Offsets(d) ==
               /\ d.streaminfoOffset = IF unit.type = "streaminfo" THEN position
                                       ELSE e.streaminfoOffset
               /\ d.seektableOffset = IF unit.type = "seektable" /\ e.seektableOffset = 0
                                      THEN position ELSE e.seektableOffset
<1>1. r = CASE f = "tell" -> Failed(e, t, units, "CLIENT_ERROR")
            [] f = "write" -> Failed(advanced, marked, units, "CLIENT_ERROR")
            [] OTHER -> Done([advanced EXCEPT !.samplesWritten = @ + samples],
                             marked, Append(units, unit))
  BY DEF WriteFrame
<1>2. \A d : Offsets(d) => Located(e, units, unit, d)
  BY DEF Located
<1> HIDE DEF r, marked, position
<1>3. Alright(e, located) /\ located.state = e.state /\ Offsets(located)
  <2>1. CASE unit.type = "streaminfo"
    <3>1. located = [e EXCEPT !.streaminfoOffset = position]
      BY <2>1
    <3> QED
      BY <2>1, <3>1 DEF EncoderType, EncoderFields, Whole, Kept, Alright
  <2>2. CASE unit.type = "seektable" /\ e.seektableOffset = 0
    <3>1. located = [e EXCEPT !.seektableOffset = position]
      BY <2>2
    <3> QED
      BY <2>2, <3>1 DEF EncoderType, EncoderFields, Whole, Kept, Alright
  <2>3. CASE /\ unit.type # "streaminfo"
             /\ ~ (unit.type = "seektable" /\ e.seektableOffset = 0)
    <3>1. located = e
      BY <2>3
    <3> QED
      BY <2>3, <3>1 DEF Kept, Alright
  <2> QED
    BY <2>1, <2>2, <2>3
<1> HIDE DEF located
<1>4. Alright(e, advanced) /\ advanced.state = e.state /\ Offsets(advanced)
  BY <1>3 DEF EncoderType, EncoderFields, Whole, Kept, Alright
<1> HIDE DEF advanced
<1>5. CASE f = "tell"
  <2>1. r = Failed(e, t, units, "CLIENT_ERROR")
    BY <1>1, <1>5
  <2>2. Result(r) /\ ~r.ok /\ r.out = units /\ Alright(e, r.enc)
        /\ r.enc.state = "CLIENT_ERROR"
    BY <2>1, OneFieldFailed
  <2> QED
    BY <2>2 DEF Wrote, ErrorStates, r
<1>6. CASE f = "write"
  <2>1. r = Failed(advanced, marked, units, "CLIENT_ERROR")
    BY <1>1, <1>6
  <2>2. EncoderType(advanced)
    BY <1>4 DEF Alright
  <2>3. Result(r) /\ ~r.ok /\ r.out = units /\ Alright(advanced, r.enc)
        /\ r.enc.state = "CLIENT_ERROR"
    BY <2>1, <2>2, OneFieldFailed
  <2>4. Alright(e, r.enc)
    BY <1>4, <2>3 DEF Alright, Kept
  <2> QED
    BY <2>3, <2>4 DEF Wrote, ErrorStates, r
<1>7. CASE f # "tell" /\ f # "write"
  <2> DEFINE d == [advanced EXCEPT !.samplesWritten = @ + samples]
  <2>1. r = Done(d, marked, Append(units, unit))
    BY <1>1, <1>7
  <2>2. Alright(e, d) /\ d.state = e.state /\ Offsets(d)
    BY <1>4 DEF EncoderType, EncoderFields, Whole, Kept, Alright
  <2> HIDE DEF d
  <2>3. r.enc = d /\ r.out = Append(units, unit) /\ r.ok = TRUE /\ Result(r)
    BY <2>1 DEF Done, Result
  <2>4. Located(e, units, unit, d)
    BY <1>2, <2>2
  <2> QED
    BY <2>2, <2>3, <2>4 DEF Wrote, r
<1> QED
  BY <1>5, <1>6, <1>7

(* A unit of the header is not verified.                                   *)
LEMMA WriteHeaderWrites ==
    ASSUME NEW e, EncoderType(e), e.state = "OK", NEW t, NEW units, NEW unit,
           HeaderUnit(unit), NEW f
    PROVE  Wrote(e, units, unit, WriteBitbuffer(e, t, units, unit, 0, f))
<1> DEFINE checks == e.verify /\ e.hint # "magic"
           checked == IF checks /\ unit.type = "frame" THEN Verified(e, unit) ELSE e
           written == WriteFrame(checked, t, units, unit, 0, f)
           info == written.enc.streaminfo
           patched == [written EXCEPT !.enc.streaminfo =
                         [info EXCEPT !.min = Smaller(unit.size, info.min),
                                      !.max = Larger(unit.size, info.max)]]
           r == WriteBitbuffer(e, t, units, unit, 0, f)
<1>1. r = IF f = "memory" THEN Failed(e, t, units, "MEMORY_ERROR")
          ELSE IF checks /\ f = "decoder"
          THEN Failed(e, t, units, "VERIFY_DECODER_ERROR")
          ELSE IF checked.state = "VERIFY_MISMATCH"
          THEN Failed(checked, t, units, "VERIFY_MISMATCH")
          ELSE IF written.ok /\ 0 > 0 THEN patched ELSE written
  BY DEF WriteBitbuffer
<1>2. checked = e /\ checked.state # "VERIFY_MISMATCH"
  BY DEF HeaderUnit
<1>3. Wrote(e, units, unit, written)
  <2>1. written = WriteFrame(e, t, units, unit, 0, f)
    BY <1>2
  <2>2. 0 \in Nat /\ (0 = 0 <=> unit.type # "frame")
    BY DEF HeaderUnit
  <2> HIDE DEF written
  <2> QED
    BY <2>1, <2>2, WriteFrameWrites
<1> HIDE DEF r, written, checked, checks, patched
<1>4. ASSUME NEW state \in ErrorStates, r = Failed(e, t, units, state)
      PROVE  Wrote(e, units, unit, r)
  BY <1>4, OneFieldFailed DEF Wrote
<1>5. "MEMORY_ERROR" \in ErrorStates /\ "VERIFY_DECODER_ERROR" \in ErrorStates
  BY DEF ErrorStates
<1>6. \/ r = Failed(e, t, units, "MEMORY_ERROR")
      \/ r = Failed(e, t, units, "VERIFY_DECODER_ERROR")
      \/ r = written
  BY <1>1, <1>2
<1> QED
  BY <1>3, <1>4, <1>5, <1>6 DEF r

(* A frame is: it agrees with the oldest samples of the fifo, or the stream *)
(* is given up.                                                             *)
Agrees(e, unit) == Decoded(unit) = SubSeq(e.fifo, 1, Len(unit.coded))
WithoutOldest(e, unit) == SubSeq(e.fifo, Len(unit.coded) + 1, Len(e.fifo))

WroteFrame(e, units, unit, r) ==
    /\ Result(r) /\ EncoderType(r.enc) /\ Kept(e, r.enc)
    /\ r.enc.state = "VERIFY_MISMATCH" => e.verify /\ ~Agrees(e, unit)
    /\ r.ok =>
          /\ r.enc.state = "OK" /\ r.out = Append(units, unit)
          /\ e.verify => Agrees(e, unit)
          /\ r.enc.fifo = IF e.verify THEN WithoutOldest(e, unit) ELSE e.fifo
          /\ r.enc.streaminfoOffset = e.streaminfoOffset
          /\ r.enc.seektableOffset = e.seektableOffset
          /\ r.enc.streaminfo = [total |-> e.streaminfo.total,
                                 min |-> Smaller(unit.size, e.streaminfo.min),
                                 max |-> Larger(unit.size, e.streaminfo.max)]
    /\ ~r.ok =>
          /\ r.enc.state \in ErrorStates \cup {"VERIFY_MISMATCH"} /\ r.out = units
          /\ r.enc.fifo \in {e.fifo, WithoutOldest(e, unit)}

LEMMA Rest ==
    ASSUME NEW S, NEW s \in Seq(S), NEW n \in Nat
    PROVE  SubSeq(s, n + 1, Len(s)) \in Seq(S)
<1>1. \A i \in (n + 1)..Len(s) : s[i] \in S
  OBVIOUS
<1> QED
  BY <1>1, SubSeqProperties

LEMMA SameRest ==
    ASSUME NEW S, NEW s \in Seq(S), NEW x \in Seq(S), NEW n \in Nat,
           Len(x) = Len(s), \A i \in (n + 1)..Len(s) : x[i] = s[i]
    PROVE  SubSeq(x, n + 1, Len(x)) = SubSeq(s, n + 1, Len(s))
<1> DEFINE a == SubSeq(s, n + 1, Len(s))
           b == SubSeq(x, n + 1, Len(x))
<1>1. \A i \in (n + 1)..Len(s) : s[i] \in S /\ x[i] \in S
  OBVIOUS
<1>2. /\ a \in Seq(S) /\ Len(a) = IF n + 1 <= Len(s) THEN Len(s) - (n + 1) + 1 ELSE 0
      /\ \A i \in 1..(Len(s) - (n + 1) + 1) : a[i] = s[n + 1 + i - 1]
  BY <1>1, SubSeqProperties
<1>3. /\ b \in Seq(S) /\ Len(b) = IF n + 1 <= Len(s) THEN Len(s) - (n + 1) + 1 ELSE 0
      /\ \A i \in 1..(Len(s) - (n + 1) + 1) : b[i] = x[n + 1 + i - 1]
  BY <1>1, SubSeqProperties
<1> HIDE DEF a, b
<1>4. ASSUME NEW i \in 1..Len(a) PROVE a[i] = b[i]
  <2>1. Len(s) \in Nat
    OBVIOUS
  <2>2. i \in 1..(Len(s) - (n + 1) + 1) /\ n + 1 + i - 1 \in (n + 1)..Len(s)
    BY <1>2, <2>1
  <2> QED
    BY <1>2, <1>3, <2>2
<1>5. a = b
  BY <1>2, <1>3, <1>4, SeqEqual
<1> QED
  BY <1>5 DEF a, b

LEMMA WriteVerifies ==
    ASSUME NEW e, EncoderType(e), e.state = "OK", e.hint = "audio", NEW t, NEW units,
           NEW unit, Frame(unit), unit.size \in Nat, NEW samples \in Nat \ {0}, NEW f
    PROVE  WroteFrame(e, units, unit, WriteBitbuffer(e, t, units, unit, samples, f))
<1> DEFINE checks == e.verify /\ e.hint # "magic"
           checked == IF checks /\ unit.type = "frame" THEN Verified(e, unit) ELSE e
           written == WriteFrame(checked, t, units, unit, samples, f)
           info == written.enc.streaminfo
           patched == [written EXCEPT !.enc.streaminfo =
                         [info EXCEPT !.min = Smaller(unit.size, info.min),
                                      !.max = Larger(unit.size, info.max)]]
           r == WriteBitbuffer(e, t, units, unit, samples, f)
<1>1. r = IF f = "memory" THEN Failed(e, t, units, "MEMORY_ERROR")
          ELSE IF checks /\ f = "decoder"
          THEN Failed(e, t, units, "VERIFY_DECODER_ERROR")
          ELSE IF checked.state = "VERIFY_MISMATCH"
          THEN Failed(checked, t, units, "VERIFY_MISMATCH")
          ELSE IF written.ok /\ samples > 0 THEN patched ELSE written
  BY DEF WriteBitbuffer
<1>2. checked = IF e.verify THEN Verified(e, unit) ELSE e
  BY DEF Frame
<1>3. /\ EncoderType(checked) /\ Kept(e, checked)
      /\ checked.streaminfo = e.streaminfo
      /\ checked.streaminfoOffset = e.streaminfoOffset
      /\ checked.seektableOffset = e.seektableOffset
      /\ \/ /\ checked.state = "OK"
            /\ e.verify => Agrees(e, unit)
            /\ checked.fifo = IF e.verify THEN WithoutOldest(e, unit) ELSE e.fifo
         \/ /\ checked.state = "VERIFY_MISMATCH"
            /\ e.verify /\ ~Agrees(e, unit) /\ checked.fifo = e.fifo
  <2>1. CASE ~e.verify
    BY <1>2, <2>1 DEF Kept, EncoderType
  <2>2. CASE e.verify /\ Agrees(e, unit)
    <3>1. checked = [e EXCEPT !.fifo = WithoutOldest(e, unit)]
      <4>1. Verified(e, unit) = [e EXCEPT !.fifo = WithoutOldest(e, unit)]
        BY <2>2 DEF Verified, Agrees, WithoutOldest
      <4> QED
        BY <1>2, <2>2, <4>1
    <3>2. WithoutOldest(e, unit) \in Seq(Int)
      <4>1. Len(unit.coded) \in Nat
        BY DEF Frame
      <4> QED
        BY <4>1, Rest DEF WithoutOldest, EncoderType
    <3> QED
      BY <2>2, <3>1, <3>2 DEF Kept, EncoderType, EncoderFields, Whole
  <2>3. CASE e.verify /\ ~Agrees(e, unit)
    <3>1. checked = [e EXCEPT !.state = "VERIFY_MISMATCH"]
      BY <1>2, <2>3 DEF Verified, Agrees
    <3> QED
      BY <2>3, <3>1 DEF Kept, EncoderType, EncoderFields, Whole
  <2> QED
    BY <2>1, <2>2, <2>3
<1>4. Wrote(checked, units, unit, written)
  <2> HIDE DEF checked
  <2> QED
    BY <1>3, WriteFrameWrites DEF Frame
<1> HIDE DEF r, written, checked, checks, patched
<1>5. ASSUME NEW state \in ErrorStates, r = Failed(e, t, units, state)
      PROVE  WroteFrame(e, units, unit, r)
  <2>1. /\ Result(r) /\ ~r.ok /\ r.out = units
        /\ Alright(e, r.enc) /\ r.enc.state = state
    BY <1>5, OneFieldFailed
  <2> QED
    BY <2>1 DEF WroteFrame, Alright, ErrorStates
<1>6. CASE f = "memory"
  <2>1. r = Failed(e, t, units, "MEMORY_ERROR")
    BY <1>1, <1>6
  <2> QED
    BY <1>5, <2>1 DEF r, ErrorStates
<1>7. CASE f # "memory" /\ checks /\ f = "decoder"
  <2>1. r = Failed(e, t, units, "VERIFY_DECODER_ERROR")
    BY <1>1, <1>7
  <2> QED
    BY <1>5, <2>1 DEF r, ErrorStates
<1>8. CASE /\ f # "memory" /\ ~ (checks /\ f = "decoder")
           /\ checked.state = "VERIFY_MISMATCH"
  <2>1. r = Failed(checked, t, units, "VERIFY_MISMATCH")
    BY <1>1, <1>8
  <2>2. /\ Result(r) /\ ~r.ok /\ r.out = units
        /\ Alright(checked, r.enc) /\ r.enc.state = "VERIFY_MISMATCH"
    BY <1>3, <2>1, OneFieldFailed
  <2>3. EncoderType(r.enc) /\ Kept(e, r.enc) /\ r.enc.fifo = checked.fifo
    BY <1>3, <2>2 DEF Alright, Kept
  <2>4. WroteFrame(e, units, unit, r)
    BY <1>3, <1>8, <2>2, <2>3 DEF WroteFrame
  <2> QED
    BY <2>4 DEF r
<1>9. CASE /\ f # "memory" /\ ~ (checks /\ f = "decoder")
           /\ checked.state # "VERIFY_MISMATCH"
  <2>1. r = IF written.ok THEN patched ELSE written
    BY <1>1, <1>9
  <2>2. /\ Result(written) /\ Kept(e, written.enc) /\ EncoderType(written.enc)
        /\ written.enc.fifo = checked.fifo /\ written.enc.streaminfo = e.streaminfo
    BY <1>3, <1>4 DEF Wrote, Alright, Kept
  <2>3. CASE ~written.ok
    <3>1. written.enc.state \in ErrorStates /\ written.out = units
      BY <1>4, <2>3 DEF Wrote
    <3>2. checked.fifo \in {e.fifo, WithoutOldest(e, unit)}
      BY <1>3
    <3>3. r = written
      BY <2>1, <2>3
    <3>4. WroteFrame(e, units, unit, r)
      BY <2>2, <2>3, <3>1, <3>2, <3>3 DEF WroteFrame, ErrorStates
    <3> QED
      BY <3>4 DEF r
  <2>4. CASE written.ok
    <3> DEFINE d == [written.enc EXCEPT !.streaminfo =
                       [info EXCEPT !.min = Smaller(unit.size, info.min),
                                    !.max = Larger(unit.size, info.max)]]
    <3>1. r = [enc |-> d, tables |-> written.tables, out |-> written.out, ok |-> TRUE]
      BY <2>1, <2>2, <2>4 DEF Result, patched
    <3>2. d.streaminfo = [total |-> e.streaminfo.total,
                          min |-> Smaller(unit.size, e.streaminfo.min),
                          max |-> Larger(unit.size, e.streaminfo.max)]
      BY <2>2 DEF EncoderType, EncoderFields, Whole
    <3>3. d.streaminfo \in [total : Nat, min : Nat, max : Nat]
      <4>1. /\ e.streaminfo.total \in Nat /\ e.streaminfo.min \in Nat
            /\ e.streaminfo.max \in Nat
        BY DEF EncoderType
      <4>2. /\ Smaller(unit.size, e.streaminfo.min) \in Nat
            /\ Larger(unit.size, e.streaminfo.max) \in Nat
        BY <4>1 DEF Smaller, Larger
      <4> HIDE DEF d
      <4> QED
        BY <3>2, <4>1, <4>2
    <3>4. /\ EncoderType(d) /\ Kept(e, d) /\ d.fifo = written.enc.fifo
          /\ d.state = written.enc.state
          /\ d.streaminfoOffset = written.enc.streaminfoOffset
          /\ d.seektableOffset = written.enc.seektableOffset
      BY <2>2, <3>3 DEF EncoderType, EncoderFields, Whole, Kept
    <3> HIDE DEF d
    <3>5. Result(r) /\ r.ok /\ r.enc = d /\ r.out = written.out
      BY <3>1 DEF Result
    <3>6. /\ written.enc.state = checked.state /\ written.out = Append(units, unit)
          /\ written.enc.streaminfoOffset = checked.streaminfoOffset
          /\ written.enc.seektableOffset = checked.seektableOffset
      BY <1>4, <2>4 DEF Wrote, Located, Frame
    <3>7. WroteFrame(e, units, unit, r)
      BY <1>3, <1>9, <2>2, <3>2, <3>4, <3>5, <3>6 DEF WroteFrame
    <3> QED
      BY <3>7 DEF r
  <2> QED
    BY <2>3, <2>4
<1> QED
  BY <1>6, <1>7, <1>8, <1>9

(* One block, from the buffer into a frame.                                *)
SettingsKept(e, d) ==
    /\ d.verify = e.verify /\ d.blocksize = e.blocksize /\ d.fifoSize = e.fifoSize
    /\ d.metadata = e.metadata /\ d.hint = e.hint /\ d.client = e.client
    /\ d.seekTable = e.seekTable

ProcessedFrame(e, units, wrong, size, r) ==
    /\ Result(r) /\ EncoderType(r.enc) /\ SettingsKept(e, r.enc)
    /\ r.enc.state = "VERIFY_MISMATCH" => wrong
    /\ r.ok =>
          /\ r.enc.state = "OK"
          /\ wrong => ~e.verify
          /\ r.enc.signal = SubSeq(e.signal, e.blocksize + 1, Len(e.signal))
          /\ r.enc.fifo = IF e.verify THEN r.enc.signal ELSE <<>>
          /\ r.enc.frameNumber = e.frameNumber + 1
          /\ r.enc.streaminfoOffset = e.streaminfoOffset
          /\ r.enc.seektableOffset = e.seektableOffset
          /\ r.enc.streaminfo = [total |-> e.streaminfo.total + e.blocksize,
                                 min |-> Smaller(size, e.streaminfo.min),
                                 max |-> Larger(size, e.streaminfo.max)]
          /\ \E u : /\ Frame(u) /\ u.number = e.frameNumber /\ u.size = size
                    /\ Len(u.coded) = e.blocksize
                    /\ ~wrong => Decoded(u) = SubSeq(e.signal, 1, e.blocksize)
                    /\ r.out = Append(units, u)
    /\ ~r.ok =>
          /\ r.enc.state \in ErrorStates \cup {"VERIFY_MISMATCH"} /\ r.out = units
          /\ Len(r.enc.fifo) <= Len(e.fifo)

LEMMA FrameProcessed ==
    ASSUME NEW e, EncoderType(e), e.state = "OK", e.hint = "audio",
           e.blocksize \in 1..Len(e.signal),
           e.fifo = IF e.verify THEN e.signal ELSE <<>>,
           NEW t, NEW units, NEW wrong \in BOOLEAN, NEW size \in Nat, NEW f
    PROVE  ProcessedFrame(e, units, wrong, size, ProcessFrame(e, t, units, wrong, size, f))
<1> DEFINE n == e.blocksize
           block == SubSeq(e.signal, 1, n)
           wasted == Wasted(block)
           power == 2^wasted
           shifted == [e EXCEPT !.signal = Shifted(@, n, wasted)]
           coded == [i \in 1..n |-> IF wrong /\ i = 1 THEN shifted.signal[i] + 1
                                    ELSE shifted.signal[i]]
           frame == [type |-> "frame", number |-> e.frameNumber, wasted |-> wasted,
                     coded |-> coded, size |-> size]
           written == WriteBitbuffer(shifted, t, units, frame, n, f)
           r == ProcessFrame(e, t, units, wrong, size, f)
<1>1. n \in Nat \ {0} /\ n <= Len(e.signal) /\ e.signal \in Seq(Int)
      /\ Len(e.signal) \in Nat
  BY DEF EncoderType
<1>2. /\ block \in Seq(Int) /\ Len(block) = n
      /\ \A i \in 1..n : block[i] = e.signal[i]
  <2>1. \A i \in 1..n : e.signal[i] \in Int
    BY <1>1
  <2> QED
    BY <1>1, <2>1, SubSeqProperties
<1> HIDE DEF block
<1>3. wasted \in 0..30 /\ \A i \in 1..n : e.signal[i] % 2^wasted = 0
  BY <1>2, WastedWasted
<1> HIDE DEF wasted
<1>4. power \in Nat \ {0} /\ \A i \in 1..n : e.signal[i] % power = 0
  BY <1>3, PowersPositive
<1>5. /\ EncoderType(shifted) /\ SettingsKept(e, shifted)
      /\ shifted.state = "OK" /\ shifted.fifo = e.fifo
      /\ shifted.frameNumber = e.frameNumber /\ shifted.streaminfo = e.streaminfo
      /\ shifted.streaminfoOffset = e.streaminfoOffset
      /\ shifted.seektableOffset = e.seektableOffset
      /\ Len(shifted.signal) = Len(e.signal)
      /\ \A i \in 1..n : shifted.signal[i] = e.signal[i] \div power
      /\ \A i \in (n + 1)..Len(e.signal) : shifted.signal[i] = e.signal[i]
  <2> DEFINE x == Shifted(e.signal, n, wasted)
  <2>1. x = [i \in 1..Len(e.signal) |->
                IF i <= n THEN e.signal[i] \div power ELSE e.signal[i]]
    BY <1>1 DEF Shifted
  <2>2. \A i \in 1..Len(e.signal) : e.signal[i] \in Int /\ e.signal[i] \div power \in Int
    BY <1>1, <1>4
  <2> HIDE DEF x, power
  <2>3. x \in Seq(Int) /\ Len(x) = Len(e.signal)
    BY <1>1, <2>1, <2>2
  <2>4. shifted = [e EXCEPT !.signal = x]
    BY DEF x
  <2>5. /\ EncoderType(shifted) /\ SettingsKept(e, shifted)
        /\ shifted.state = "OK" /\ shifted.fifo = e.fifo
        /\ shifted.frameNumber = e.frameNumber /\ shifted.streaminfo = e.streaminfo
        /\ shifted.streaminfoOffset = e.streaminfoOffset
        /\ shifted.seektableOffset = e.seektableOffset
        /\ shifted.signal = x
    <3> HIDE DEF shifted
    <3> QED
      BY <2>3, <2>4 DEF EncoderType, EncoderFields, Whole, SettingsKept
  <2> HIDE DEF shifted
  <2> QED
    BY <1>1, <2>1, <2>3, <2>5
<1> HIDE DEF shifted, power
<1>6. /\ coded \in Seq(Int) /\ Len(coded) = n
      /\ \A i \in 1..n : coded[i] = IF wrong /\ i = 1 THEN e.signal[i] \div power + 1
                                    ELSE e.signal[i] \div power
  <2>1. coded = [i \in 1..n |-> IF wrong /\ i = 1 THEN e.signal[i] \div power + 1
                                ELSE e.signal[i] \div power]
    BY <1>5
  <2>2. ASSUME NEW i \in 1..n
        PROVE  (IF wrong /\ i = 1 THEN e.signal[i] \div power + 1
                ELSE e.signal[i] \div power) \in Int
    <3>1. e.signal[i] \in Int
      BY <1>1
    <3>2. e.signal[i] \div power \in Int
      BY <1>4, <3>1, ShiftedBack
    <3> QED
      BY <3>2
  <2> HIDE DEF coded
  <2> DEFINE it(i) == IF wrong /\ i = 1 THEN e.signal[i] \div power + 1
                      ELSE e.signal[i] \div power
  <2>3. \A i \in 1..n : it(i) \in Int
    BY <2>2
  <2>4. coded = [i \in 1..n |-> it(i)]
    BY <2>1
  <2> HIDE DEF it
  <2>5. coded \in Seq(Int) /\ Len(coded) = n /\ \A i \in 1..n : coded[i] = it(i)
    BY <1>1, <2>3, <2>4
  <2> QED
    BY <2>5 DEF it
<1> HIDE DEF coded
<1>7. /\ Frame(frame) /\ frame.number = e.frameNumber /\ frame.size = size
      /\ frame.coded = coded
      /\ Decoded(frame) = [i \in 1..n |-> coded[i] * power]
  BY <1>1, <1>3, <1>6 DEF Frame, Decoded, power
<1> HIDE DEF frame
<1>8. Decoded(frame) = block <=> ~wrong
  <2>1. ASSUME ~wrong PROVE Decoded(frame) = block
    <3>1. ASSUME NEW i \in 1..n PROVE coded[i] * power = block[i]
      <4>1. coded[i] = e.signal[i] \div power /\ block[i] = e.signal[i]
        BY <1>2, <1>6, <2>1
      <4>2. e.signal[i] \in Int /\ e.signal[i] % power = 0
        BY <1>1, <1>4
      <4> QED
        BY <1>4, <4>1, <4>2, ShiftedBack
    <3>2. block = [i \in 1..n |-> block[i]]
      BY <1>1, <1>2
    <3> QED
      BY <1>7, <3>1, <3>2
  <2>2. ASSUME wrong PROVE Decoded(frame) # block
    <3>1. 1 \in 1..n
      BY <1>1
    <3>2. coded[1] = e.signal[1] \div power + 1 /\ block[1] = e.signal[1]
      BY <1>2, <1>6, <2>2, <3>1
    <3>3. e.signal[1] \in Int /\ e.signal[1] % power = 0
      BY <1>1, <1>4, <3>1
    <3>4. coded[1] * power # block[1]
      BY <1>4, <3>2, <3>3, ShiftedBack
    <3>5. Decoded(frame)[1] = coded[1] * power
      BY <1>7, <3>1
    <3> QED
      BY <3>4, <3>5
  <2> QED
    BY <2>1, <2>2
<1>9. WroteFrame(shifted, units, frame, written)
  <2>1. shifted.hint = "audio"
    BY <1>5 DEF SettingsKept
  <2> QED
    BY <1>1, <1>5, <1>7, <2>1, WriteVerifies
<1> HIDE DEF written
<1>10. e.verify => /\ Agrees(shifted, frame) <=> ~wrong
                   /\ WithoutOldest(shifted, frame) = SubSeq(e.signal, n + 1, Len(e.signal))
  BY <1>5, <1>6, <1>7, <1>8 DEF Agrees, WithoutOldest, block
<1>11. Len(e.fifo) \in Nat /\ (e.verify => Len(WithoutOldest(shifted, frame)) <= Len(e.fifo))
       /\ (~e.verify => WithoutOldest(shifted, frame) = <<>>)
  <2>1. CASE e.verify
    <3>1. \A i \in (n + 1)..Len(e.signal) : e.signal[i] \in Int
      BY <1>1
    <3>2. Len(SubSeq(e.signal, n + 1, Len(e.signal))) <= Len(e.signal)
      BY <1>1, <3>1, SubSeqProperties
    <3> QED
      BY <1>1, <1>10, <2>1, <3>2
  <2>2. CASE ~e.verify
    <3>1. e.fifo = <<>> /\ shifted.fifo = <<>>
      BY <1>5, <2>2
    <3>2. WithoutOldest(shifted, frame) = SubSeq(<<>>, n + 1, 0)
      BY <1>6, <1>7, <3>1 DEF WithoutOldest
    <3> QED
      BY <1>1, <2>2, <3>1, <3>2, SubSeqEmpty
  <2> QED
    BY <2>1, <2>2
<1>12. SubSeq(shifted.signal, n + 1, Len(shifted.signal))
          = SubSeq(e.signal, n + 1, Len(e.signal))
  <2> DEFINE x == shifted.signal
             s == e.signal
  <2>1. x \in Seq(Int) /\ s \in Seq(Int) /\ n \in Nat
    BY <1>1, <1>5 DEF EncoderType
  <2>2. Len(x) = Len(s) /\ \A i \in (n + 1)..Len(s) : x[i] = s[i]
    BY <1>5
  <2> HIDE DEF x, s, n
  <2>3. SubSeq(x, n + 1, Len(x)) = SubSeq(s, n + 1, Len(s))
    BY <2>1, <2>2, SameRest
  <2> QED
    BY <2>3 DEF x, s, n
<1> DEFINE ended == [written EXCEPT !.enc.signal = SubSeq(@, n + 1, Len(@)),
                                    !.enc.frameNumber = @ + 1,
                                    !.enc.streaminfo.total = @ + n]
<1>13. r = CASE f = "framing" -> Failed(shifted, t, units, "FRAMING_ERROR")
             [] f # "framing" /\ written.ok -> ended
             [] OTHER -> written
  BY DEF ProcessFrame, written, frame, coded, shifted, wasted, block
<1> HIDE DEF r
<1>14. CASE f = "framing"
  <2>1. r = Failed(shifted, t, units, "FRAMING_ERROR")
    BY <1>13, <1>14
  <2>2. /\ Result(r) /\ ~r.ok /\ r.out = units
        /\ Alright(shifted, r.enc) /\ r.enc.state = "FRAMING_ERROR"
    BY <1>5, <2>1, OneFieldFailed
  <2>3. EncoderType(r.enc) /\ SettingsKept(e, r.enc) /\ Len(r.enc.fifo) <= Len(e.fifo)
    BY <1>5, <1>11, <2>2 DEF Alright, Kept, SettingsKept
  <2>4. ProcessedFrame(e, units, wrong, size, r)
    BY <2>2, <2>3 DEF ProcessedFrame, ErrorStates
  <2> QED
    BY <2>4 DEF r
<1>15. EncoderType(written.enc) /\ SettingsKept(e, written.enc)
  BY <1>5, <1>9 DEF WroteFrame, Kept, SettingsKept
<1>16. CASE f # "framing" /\ ~written.ok
  <2>1. r = written
    BY <1>13, <1>16
  <2>2. Result(written) /\ written.out = units
        /\ written.enc.state \in ErrorStates \cup {"VERIFY_MISMATCH"}
    BY <1>9, <1>16 DEF WroteFrame
  <2>3. Len(written.enc.fifo) <= Len(e.fifo)
    <3>1. written.enc.fifo \in {e.fifo, WithoutOldest(shifted, frame)}
      BY <1>5, <1>9, <1>16 DEF WroteFrame
    <3>2. Len(<<>>) = 0
      OBVIOUS
    <3> QED
      BY <1>11, <3>1, <3>2
  <2>4. written.enc.state = "VERIFY_MISMATCH" => wrong
    <3>1. written.enc.state = "VERIFY_MISMATCH" => e.verify /\ ~Agrees(shifted, frame)
      BY <1>5, <1>9 DEF WroteFrame, SettingsKept
    <3> QED
      BY <1>10, <3>1
  <2>5. ProcessedFrame(e, units, wrong, size, r)
    BY <1>15, <1>16, <2>1, <2>2, <2>3, <2>4 DEF ProcessedFrame
  <2> QED
    BY <2>5 DEF r
<1>17. CASE f # "framing" /\ written.ok
  <2> DEFINE rest == SubSeq(e.signal, n + 1, Len(e.signal))
             info == [total |-> e.streaminfo.total + n,
                      min |-> Smaller(size, e.streaminfo.min),
                      max |-> Larger(size, e.streaminfo.max)]
             d == [written.enc EXCEPT !.signal = SubSeq(@, n + 1, Len(@)),
                                      !.frameNumber = @ + 1,
                                      !.streaminfo.total = @ + n]
  <2>1. /\ written.enc.state = "OK" /\ written.out = Append(units, frame)
        /\ e.verify => Agrees(shifted, frame)
        /\ written.enc.fifo = IF e.verify THEN WithoutOldest(shifted, frame) ELSE e.fifo
        /\ written.enc.streaminfoOffset = e.streaminfoOffset
        /\ written.enc.seektableOffset = e.seektableOffset
        /\ written.enc.streaminfo = [total |-> e.streaminfo.total,
                                     min |-> Smaller(size, e.streaminfo.min),
                                     max |-> Larger(size, e.streaminfo.max)]
        /\ written.enc.signal = shifted.signal
        /\ written.enc.frameNumber = e.frameNumber
    BY <1>5, <1>7, <1>9, <1>17 DEF WroteFrame, Kept, SettingsKept
  <2>2. r = [enc |-> d, tables |-> written.tables, out |-> written.out, ok |-> TRUE]
    BY <1>9, <1>13, <1>17 DEF WroteFrame, Result
  <2>3. rest \in Seq(Int)
    BY <1>1, Rest
  <2>4. SubSeq(written.enc.signal, n + 1, Len(written.enc.signal)) = rest
    BY <1>12, <2>1
  <2>5. info \in [total : Nat, min : Nat, max : Nat]
    BY <1>1 DEF EncoderType, Smaller, Larger
  <2>6. e.frameNumber \in Nat
    BY DEF EncoderType
  <2> HIDE DEF rest
  <2>7. d.streaminfo = info
    <3>1. d.streaminfo = [written.enc.streaminfo EXCEPT !.total = @ + n]
      <4> HIDE DEF n
      <4> QED
        BY <1>15 DEF EncoderType, EncoderFields, Whole
    <3> HIDE DEF d
    <3> QED
      BY <2>1, <3>1
  <2>8. /\ EncoderType(d) /\ SettingsKept(e, d) /\ d.signal = rest
        /\ d.fifo = written.enc.fifo /\ d.state = "OK"
        /\ d.frameNumber = e.frameNumber + 1
        /\ d.streaminfoOffset = e.streaminfoOffset
        /\ d.seektableOffset = e.seektableOffset
    <3> DEFINE w == written.enc
               k == e.frameNumber + 1
    <3>1. /\ d.signal = rest /\ d.frameNumber = k
          /\ \A j \in EncoderFields \ {"signal", "frameNumber", "streaminfo"} : d[j] = w[j]
          /\ Whole(d)
      <4>1. DOMAIN w = EncoderFields
        BY <1>15 DEF EncoderType, Whole
      <4>2. d = [w EXCEPT !.signal = rest, !.frameNumber = k, !.streaminfo.total = @ + n]
        BY <2>1, <2>4
      <4> HIDE DEF w, d, n, k
      <4> QED
        BY <4>1, <4>2 DEF EncoderFields, Whole
    <3>2. d.streaminfo \in [total : Nat, min : Nat, max : Nat] /\ k \in Nat
      BY <2>5, <2>6, <2>7
    <3>3. /\ d.verify = w.verify /\ d.blocksize = w.blocksize /\ d.fifoSize = w.fifoSize
          /\ d.metadata = w.metadata /\ d.hint = w.hint /\ d.client = w.client
          /\ d.seekTable = w.seekTable /\ d.fifo = w.fifo /\ d.state = w.state
          /\ d.streaminfoOffset = w.streaminfoOffset
          /\ d.seektableOffset = w.seektableOffset
      <4> HIDE DEF w, d
      <4> QED
        BY <3>1 DEF EncoderFields
    <3> HIDE DEF d, k
    <3>4. EncoderType(d) /\ SettingsKept(e, d)
      BY <1>15, <2>3, <3>1, <3>2, <3>3 DEF EncoderType, SettingsKept
    <3> QED
      BY <2>1, <3>1, <3>3, <3>4 DEF k
  <2> HIDE DEF d, info
  <2>9. Result(r) /\ r.ok /\ r.enc = d /\ r.out = Append(units, frame)
    BY <2>1, <2>2 DEF Result
  <2>10. wrong => ~e.verify
    BY <1>10, <2>1
  <2>11. d.fifo = IF e.verify THEN rest ELSE <<>>
    BY <1>10, <2>1, <2>8 DEF rest
  <2>12. ProcessedFrame(e, units, wrong, size, r)
    BY <1>6, <1>7, <1>8, <2>7, <2>8, <2>9, <2>10, <2>11
       DEF ProcessedFrame, info, rest, block
  <2> QED
    BY <2>12 DEF r
<1> QED
  BY <1>14, <1>16, <1>17

-----------------------------------------------------------------------------
(* What one unit more does to the frames and to the audio.                 *)
LEMMA DecodedType ==
    ASSUME NEW u, Frame(u)
    PROVE  Decoded(u) \in Seq(Int) /\ Len(Decoded(u)) = Len(u.coded)
<1> DEFINE n == Len(u.coded)
           power == 2^u.wasted
<1>1. u.coded \in Seq(Int) /\ n \in Nat /\ power \in Nat
  <2>1. u.coded \in Seq(Int) /\ u.wasted \in 0..30
    BY DEF Frame
  <2> DEFINE w == u.wasted
  <2>2. \A x \in 0..30 : 2^x \in Nat
    BY PowersPositive
  <2>3. 2^w \in Nat
    <3> HIDE DEF w
    <3>1. w \in 0..30
      BY <2>1 DEF w
    <3> QED
      BY <2>2, <3>1, Zenon
  <2> QED
    BY <2>1, <2>3
<1>2. Decoded(u) = [i \in 1..n |-> u.coded[i] * power]
  BY <1>1 DEF Decoded
<1>3. ASSUME NEW i \in 1..n PROVE u.coded[i] * power \in Int
  <2>1. u.coded[i] \in Int
    BY <1>1
  <2>2. \A a, b \in Int : a * b \in Int
    OBVIOUS
  <2> QED
    BY <1>1, <2>1, <2>2
<1> DEFINE it(i) == u.coded[i] * power
<1>4. Decoded(u) = [i \in 1..n |-> it(i)] /\ \A i \in 1..n : it(i) \in Int
  BY <1>2, <1>3
<1> HIDE DEF it, n
<1>5. Decoded(u) \in Seq(Int) /\ Len(Decoded(u)) = n
  BY <1>1, <1>4
<1> QED
  BY <1>5 DEF n

LEMMA OfItsItems ==
    ASSUME NEW A, NEW s \in Seq(A)
    PROVE  s \in Seq(Items(s)) /\ Items(s) \subseteq A
<1>1. \A i \in 1..Len(s) : s[i] \in Items(s)
  BY DEF Items
<1>2. Items(s) \subseteq A
  BY DEF Items
<1> QED
  BY <1>1, <1>2

LEMMA AudioOfUnits ==
    ASSUME NEW units, UnitsType(units)
    PROVE  /\ FramesOf(units) \in Seq({u \in Items(units) : u.type = "frame"})
           /\ \A u \in {u \in Items(units) : u.type = "frame"} :
                 Frame(u) /\ Decoded(u) \in Seq(Int)
           /\ AudioOf(FramesOf(units)) \in Seq(Int)
<1> DEFINE F == {u \in Items(units) : u.type = "frame"}
<1>1. FramesOf(units) \in Seq(F)
  BY FramesType DEF UnitsType
<1>2. \A u \in F : Frame(u) /\ Decoded(u) \in Seq(Int)
  BY DecodedType DEF UnitsType, HeaderUnit
<1> HIDE DEF F
<1>3. AudioOf(FramesOf(units)) \in Seq(Int)
  BY <1>1, <1>2, AudioType
<1> QED
  BY <1>1, <1>2, <1>3 DEF F

LEMMA UnitAppended ==
    ASSUME NEW units, UnitsType(units), NEW u, HeaderUnit(u) \/ Frame(u)
    PROVE  /\ UnitsType(Append(units, u))
           /\ Items(Append(units, u)) = Items(units) \cup {u}
           /\ FramesOf(Append(units, u)) =
                 IF u.type = "frame" THEN Append(FramesOf(units), u) ELSE FramesOf(units)
<1> DEFINE A == Items(units) \cup {u}
           more == Append(units, u)
<1>1. units \in Seq(A) /\ u \in A
  BY SeqMonotonic DEF UnitsType
<1>2. more \in Seq(A)
  BY <1>1
<1>3. Items(more) \subseteq A /\ more \in Seq(Items(more))
  <2> HIDE DEF A, more
  <2> QED
    BY <1>2, OfItsItems
<1>4. A \subseteq Items(more)
  <2>1. Len(more) = Len(units) + 1 /\ Len(units) \in Nat /\ DOMAIN more = 1..Len(more)
        /\ DOMAIN units = 1..Len(units)
    BY <1>1
  <2>2. more[Len(units) + 1] = u /\ \A i \in 1..Len(units) : more[i] = units[i]
    BY <1>1, AppendProperties
  <2> HIDE DEF more
  <2>3. \A i \in 1..Len(units) : units[i] \in Items(more)
    BY <2>1, <2>2 DEF Items
  <2>4. u \in Items(more)
    BY <2>1, <2>2 DEF Items
  <2> QED
    BY <2>1, <2>3, <2>4 DEF Items
<1>5. UnitsType(more)
  BY <1>3 DEF UnitsType
<1>6. FramesOf(more) = IF u.type = "frame" THEN Append(FramesOf(units), u)
                       ELSE FramesOf(units)
  <2> HIDE DEF A
  <2> QED
    BY <1>1, FramesAppend
<1> QED
  BY <1>3, <1>4, <1>5, <1>6

LEMMA FrameAppended ==
    ASSUME NEW units, UnitsType(units), NEW u, Frame(u)
    PROVE  /\ UnitsType(Append(units, u))
           /\ FramesOf(Append(units, u)) = Append(FramesOf(units), u)
           /\ AudioOf(FramesOf(Append(units, u))) = AudioOf(FramesOf(units)) \o Decoded(u)
<1> DEFINE F == {v \in Items(units) : v.type = "frame"} \cup {u}
<1>1. UnitsType(Append(units, u)) /\ FramesOf(Append(units, u)) = Append(FramesOf(units), u)
  BY UnitAppended DEF Frame
<1>2. FramesOf(units) \in Seq(F) /\ \A v \in F : Decoded(v) \in Seq(Int)
  <2> DEFINE G == {v \in Items(units) : v.type = "frame"}
  <2>1. FramesOf(units) \in Seq(G) /\ \A v \in G : Decoded(v) \in Seq(Int)
    BY AudioOfUnits
  <2>2. Decoded(u) \in Seq(Int)
    BY DecodedType
  <2>3. F = G \cup {u}
    OBVIOUS
  <2> HIDE DEF F, G
  <2>4. FramesOf(units) \in Seq(F)
    BY <2>1, <2>3, SeqMonotonic
  <2> QED
    BY <2>1, <2>2, <2>3, <2>4
<1>3. u \in F
  OBVIOUS
<1> HIDE DEF F
<1> QED
  BY <1>1, <1>2, <1>3, AudioAppend

-----------------------------------------------------------------------------
(* Samples on their way: a part moves from one sequence to the next.       *)
LEMMA CutAt ==
    ASSUME NEW S, NEW s \in Seq(S), NEW n \in 0..Len(s)
    PROVE  /\ SubSeq(s, 1, n) \in Seq(S) /\ SubSeq(s, n + 1, Len(s)) \in Seq(S)
           /\ Len(SubSeq(s, 1, n)) = n /\ Len(SubSeq(s, n + 1, Len(s))) = Len(s) - n
           /\ SubSeq(s, 1, n) \o SubSeq(s, n + 1, Len(s)) = s
<1>1. n \in Nat /\ Len(s) \in Nat
  OBVIOUS
<1>2. \A i \in 1..n : s[i] \in S
  OBVIOUS
<1>3. SubSeq(s, 1, n) \in Seq(S) /\ Len(SubSeq(s, 1, n)) = n
  BY <1>1, <1>2, SubSeqProperties
<1>4. \A i \in (n + 1)..Len(s) : s[i] \in S
  OBVIOUS
<1>5. SubSeq(s, n + 1, Len(s)) \in Seq(S) /\ Len(SubSeq(s, n + 1, Len(s))) = Len(s) - n
  <2>1. n + 1 \in Int /\ Len(s) \in Int
    BY <1>1
  <2>2. /\ SubSeq(s, n + 1, Len(s)) \in Seq(S)
        /\ Len(SubSeq(s, n + 1, Len(s))) =
              IF n + 1 <= Len(s) THEN Len(s) - (n + 1) + 1 ELSE 0
    BY <1>4, <2>1, SubSeqProperties
  <2> QED
    BY <1>1, <2>2
<1>6. SubSeq(s, 1, n) \o SubSeq(s, n + 1, Len(s)) = SubSeq(s, 1, Len(s))
  <2>1. 1 \in 1..(Len(s) + 1) /\ n \in (1 - 1)..Len(s) /\ Len(s) \in n..Len(s)
    BY <1>1
  <2> QED
    BY <2>1, ConcatAdjacentSubSeq
<1>7. SubSeq(s, 1, Len(s)) = s
  BY SubSeqFull
<1> QED
  BY <1>3, <1>5, <1>6, <1>7

LEMMA Joined ==
    ASSUME NEW a \in Seq(Int), NEW b \in Seq(Int)
    PROVE  /\ a \o b \in Seq(Int) /\ Len(a \o b) = Len(a) + Len(b)
           /\ \A c \in Seq(Int) : a \o (b \o c) = (a \o b) \o c
<1>1. a \o b \in Seq(Int) /\ Len(a \o b) = Len(a) + Len(b)
  BY ConcatProperties
<1>2. \A c \in Seq(Int) : a \o (b \o c) = (a \o b) \o c
  BY ConcatAssociative
<1> QED
  BY <1>1, <1>2

(* The provers regroup sequences of an opaque set where they lose their way  *)
(* among those of Seq(Int).                                                *)
Samples == Seq(Int)

LEMMA MoveOver ==
    ASSUME NEW a \in Samples, NEW s \in Samples, NEW x \in Samples, NEW y \in Samples
    PROVE  (a \o s) \o (x \o y) = (a \o (s \o x)) \o y
<1> DEFINE p == a \o s
<1>1. a \in Seq(Int) /\ s \in Seq(Int) /\ x \in Seq(Int) /\ y \in Seq(Int)
  BY DEF Samples
<1>2. p \in Seq(Int) /\ p \o x = a \o (s \o x)
  BY <1>1, Joined, Zenon
<1> HIDE DEF p
<1>3. p \o (x \o y) = (p \o x) \o y
  BY <1>1, <1>2, Joined, Zenon
<1> QED
  BY <1>2, <1>3 DEF p

LEMMA MiddlePart ==
    ASSUME NEW S, NEW a \in Seq(S), NEW s \in Seq(S), NEW t \in Seq(S)
    PROVE  /\ IsPrefix(a, (a \o s) \o t)
           /\ SubSeq((a \o s) \o t, Len(a) + 1, Len((a \o s) \o t) - Len(t)) = s
<1> DEFINE as == a \o s
           all == as \o t
           part == SubSeq(all, Len(a) + 1, Len(all) - Len(t))
<1>1. /\ as \in Seq(S) /\ Len(as) = Len(a) + Len(s)
      /\ \A i \in 1..(Len(a) + Len(s)) :
            as[i] = IF i <= Len(a) THEN a[i] ELSE s[i - Len(a)]
  BY ConcatProperties
<1> HIDE DEF as
<1>2. /\ all \in Seq(S) /\ Len(all) = Len(as) + Len(t)
      /\ \A i \in 1..(Len(as) + Len(t)) :
            all[i] = IF i <= Len(as) THEN as[i] ELSE t[i - Len(as)]
  <2>1. as \in Seq(S)
    BY <1>1
  <2> QED
    BY <2>1, ConcatProperties
<1> HIDE DEF all
<1>3. Len(a) \in Nat /\ Len(s) \in Nat /\ Len(t) \in Nat
  OBVIOUS
<1>4. \A i \in 1..Len(a) : all[i] = a[i]
  <2>1. ASSUME NEW i \in 1..Len(a) PROVE all[i] = a[i]
    <3>1. i \in 1..(Len(a) + Len(s)) /\ i \in 1..(Len(as) + Len(t)) /\ i <= Len(as)
      BY <1>1, <1>3
    <3>2. all[i] = as[i]
      BY <1>2, <3>1
    <3>3. as[i] = IF i <= Len(a) THEN a[i] ELSE s[i - Len(a)]
      BY <1>1, <3>1
    <3> QED
      BY <3>2, <3>3
  <2> QED
    BY <2>1
<1>5. \A i \in 1..Len(s) : all[Len(a) + i] = s[i]
  <2>1. ASSUME NEW i \in 1..Len(s) PROVE all[Len(a) + i] = s[i]
    <3>1. /\ Len(a) + i \in 1..(Len(a) + Len(s)) /\ Len(a) + i \in 1..(Len(as) + Len(t))
          /\ Len(a) + i <= Len(as) /\ ~ (Len(a) + i <= Len(a)) /\ Len(a) + i - Len(a) = i
      BY <1>1, <1>3
    <3> DEFINE j == Len(a) + i
    <3> HIDE DEF j
    <3>2. all[j] = as[j]
      BY <1>2, <3>1 DEF j
    <3>3. as[j] = s[j - Len(a)]
      BY <1>1, <3>1 DEF j
    <3> QED
      BY <3>1, <3>2, <3>3 DEF j
  <2> QED
    BY <2>1
<1>6. SubSeq(all, 1, Len(a)) = a
  <2> DEFINE b == SubSeq(all, 1, Len(a))
  <2>1. \A i \in 1..Len(a) : all[i] \in S
    BY <1>4
  <2>2. /\ b \in Seq(S) /\ Len(b) = IF 1 <= Len(a) THEN Len(a) - 1 + 1 ELSE 0
        /\ \A i \in 1..(Len(a) - 1 + 1) : b[i] = all[1 + i - 1]
    BY <1>3, <2>1, SubSeqProperties
  <2> HIDE DEF b
  <2>3. Len(b) = Len(a)
    BY <1>3, <2>2
  <2>4. \A i \in 1..Len(b) : b[i] = a[i]
    BY <1>3, <1>4, <2>2, <2>3
  <2>5. b = a
    BY <2>2, <2>3, <2>4, SeqEqual
  <2> QED
    BY <2>5 DEF b
<1>7. part = s
  <2> DEFINE m == Len(a) + 1
             k == Len(all) - Len(t)
  <2>1. m \in Int /\ k \in Int /\ k = Len(a) + Len(s)
    BY <1>1, <1>2, <1>3
  <2>2. \A i \in m..k : all[i] \in S
    BY <1>1, <1>2, <1>3, <2>1
  <2> HIDE DEF m, k
  <2>3. /\ part \in Seq(S) /\ Len(part) = IF m <= k THEN k - m + 1 ELSE 0
        /\ \A i \in 1..(k - m + 1) : part[i] = all[m + i - 1]
    BY <2>1, <2>2, SubSeqProperties DEF m, k
  <2> HIDE DEF part
  <2>4. Len(part) = Len(s)
    BY <1>3, <2>1, <2>3 DEF m
  <2>5. \A i \in 1..Len(part) : part[i] = s[i]
    <3>1. ASSUME NEW i \in 1..Len(s) PROVE part[i] = s[i]
      <4>1. i \in 1..(k - m + 1) /\ m + i - 1 = Len(a) + i
        BY <1>3, <2>1 DEF m
      <4> QED
        BY <1>5, <2>3, <4>1
    <3> QED
      BY <2>4, <3>1
  <2> QED
    BY <2>3, <2>4, <2>5, SeqEqual
<1>8. IsPrefix(a, all)
  <2>1. SubSeq(a, 1, Len(a)) = a
    BY SubSeqFull
  <2> QED
    BY <1>1, <1>2, <1>3, <1>6, <2>1 DEF IsPrefix
<1> QED
  BY <1>7, <1>8 DEF part, all, as

-----------------------------------------------------------------------------
(* Steps.  What a call that ends, well or not, leaves in the history.      *)
CountedAs(h, wrong, r, g) ==
    /\ g.miscoded = (h.miscoded \/ wrong)
    /\ g.unverified = (h.unverified \/ (wrong /\ ~enc.verify))
    /\ g.failed = (h.failed \/ ~r.ok)
    /\ g.mismatch = (h.mismatch \/ r.enc.state = "VERIFY_MISMATCH")
    /\ g.client = h.client

HistoryFields ==
    {"streams", "faults", "client", "miscoded", "unverified", "failed", "mismatch"}

LEMMA HistoryCounted ==
    ASSUME HistoryType, enc.verify \in BOOLEAN, NEW f, NEW wrong \in BOOLEAN,
           NEW r, Result(r), history' = Counted(f, wrong, r)
    PROVE  HistoryType' /\ CountedAs(history, wrong, r, history')
<1> DEFINE faults == IF f # "none" THEN history.faults + 1 ELSE history.faults
           miscoded == history.miscoded \/ wrong
           unverified == history.unverified \/ (wrong /\ ~enc.verify)
           failed == history.failed \/ ~r.ok
           mismatch == history.mismatch \/ r.enc.state = "VERIFY_MISMATCH"
<1>1. /\ faults \in Nat /\ miscoded \in BOOLEAN /\ unverified \in BOOLEAN
      /\ failed \in BOOLEAN /\ mismatch \in BOOLEAN
  BY DEF HistoryType, Result
<1>2. history' = [history EXCEPT !.faults = faults, !.miscoded = miscoded,
                                 !.unverified = unverified, !.failed = failed,
                                 !.mismatch = mismatch]
  BY DEF Counted
<1> HIDE DEF faults, miscoded, unverified, failed, mismatch
<1>3. HistoryType'
  BY <1>1, <1>2 DEF HistoryType
<1>4. /\ history'.miscoded = miscoded /\ history'.unverified = unverified
      /\ history'.failed = failed /\ history'.mismatch = mismatch
      /\ history'.client = history.client
  BY <1>2 DEF HistoryType
<1> QED
  BY <1>3, <1>4 DEF CountedAs, miscoded, unverified, failed, mismatch

(* A frame more: its samples leave the buffer for the audio.               *)
Moved(units, u, signal, left) ==
    LET n == Len(u.coded)
        audio == AudioOf(FramesOf(units))
        more == AudioOf(FramesOf(Append(units, u)))
        rest == SubSeq(signal, n + 1, Len(signal))
    IN  /\ audio \in Seq(Int) /\ more \in Seq(Int) /\ rest \in Seq(Int)
        /\ Len(more) = Len(audio) + n
        /\ Len(rest) = Len(signal) - n
        /\ Decoded(u) = SubSeq(signal, 1, n) =>
              (audio \o signal) \o left = (more \o rest) \o left

LEMMA SamplesMove ==
    ASSUME NEW units, UnitsType(units), NEW u, Frame(u),
           NEW signal \in Seq(Int), NEW left \in Seq(Int), Len(u.coded) \in 0..Len(signal)
    PROVE  Moved(units, u, signal, left)
<1> DEFINE n == Len(u.coded)
           audio == AudioOf(FramesOf(units))
           more == AudioOf(FramesOf(Append(units, u)))
           block == SubSeq(signal, 1, n)
           rest == SubSeq(signal, n + 1, Len(signal))
           d == Decoded(u)
<1>1. more = audio \o d
  BY FrameAppended
<1>2. audio \in Seq(Int)
  BY AudioOfUnits
<1>3. d \in Seq(Int) /\ Len(d) = n
  BY DecodedType
<1>4. block \in Seq(Int) /\ rest \in Seq(Int) /\ Len(rest) = Len(signal) - n
      /\ block \o rest = signal
  BY CutAt
<1> HIDE DEF n, audio, more, block, rest, d
<1>5. more \in Seq(Int) /\ Len(more) = Len(audio) + n
  BY <1>1, <1>2, <1>3, Joined
<1>6. audio \o signal = (audio \o block) \o rest
  <2>1. block \in Seq(Int) /\ rest \in Seq(Int)
    BY <1>4
  <2>2. audio \o (block \o rest) = (audio \o block) \o rest
    BY <1>2, <2>1, Joined, Zenon
  <2> QED
    BY <1>4, <2>2, Zenon
<1>7. d = block => (audio \o signal) \o left = (more \o rest) \o left
  BY <1>1, <1>6
<1>8. /\ audio \in Seq(Int) /\ more \in Seq(Int) /\ rest \in Seq(Int)
      /\ Len(more) = Len(audio) + n /\ Len(rest) = Len(signal) - n
      /\ d = block => (audio \o signal) \o left = (more \o rest) \o left
  BY <1>2, <1>4, <1>5, <1>7
<1> QED
  BY <1>8 DEF Moved, n, audio, more, block, rest, d

LEMMA NumbersAppended ==
    ASSUME NEW units, UnitsType(units), NEW u, Frame(u), u.number = Len(FramesOf(units)),
           Numbered(FramesOf(units))
    PROVE  /\ Len(FramesOf(Append(units, u))) = Len(FramesOf(units)) + 1
           /\ Numbered(FramesOf(Append(units, u)))
<1> DEFINE F == {v \in Items(units) : v.type = "frame"} \cup {u}
           frames == FramesOf(units)
           more == FramesOf(Append(units, u))
           k == Len(frames)
<1>1. more = Append(frames, u)
  BY FrameAppended
<1>2. frames \in Seq(F) /\ u \in F
  <2> DEFINE G == {v \in Items(units) : v.type = "frame"}
  <2>1. frames \in Seq(G)
    BY AudioOfUnits
  <2>2. F = G \cup {u}
    OBVIOUS
  <2> HIDE DEF F, G, frames
  <2> QED
    BY <2>1, <2>2, SeqMonotonic
<1> HIDE DEF F, more, frames
<1>3. /\ Len(more) = k + 1 /\ k \in Nat /\ DOMAIN more = 1..(k + 1) /\ DOMAIN frames = 1..k
      /\ more[k + 1] = u /\ \A i \in 1..k : more[i] = frames[i]
  <2>1. DOMAIN frames = 1..k /\ k \in Nat
    BY <1>2
  <2>2. Append(frames, u) \in Seq(F)
    BY <1>2
  <2> QED
    BY <1>1, <1>2, <2>1, <2>2, AppendProperties
<1>4. ASSUME NEW i \in DOMAIN more PROVE more[i].number = i - 1
  <2>1. CASE i = k + 1
    BY <1>3, <2>1 DEF frames
  <2>2. CASE i # k + 1
    <3>1. i \in 1..k
      BY <1>3, <2>2
    <3>2. frames[i].number = i - 1
      BY <1>3, <3>1 DEF frames, Numbered
    <3> QED
      BY <1>3, <3>1, <3>2
  <2> QED
    BY <2>1, <2>2
<1> QED
  BY <1>3, <1>4 DEF more, frames, Numbered

(* A block of a stream is processed: what ProcessChunk and Finish share.   *)
Ready(e) ==
    /\ EncoderType(e) /\ e.state = "OK" /\ e.hint = "audio" /\ e.verify = enc.verify
    /\ e.blocksize \in 1..Len(e.signal) /\ Len(e.fifo) <= e.fifoSize

LEMMA FrameStep ==
    ASSUME UnitsType(out), given \in Seq(Int), HistoryType, Results,
           enc.verify \in BOOLEAN, finish # "true",
           NEW e, Ready(e), NEW left \in Seq(Int), SamplesAt(history, given, out, e, left),
           NEW wrong \in BOOLEAN, NEW size \in Nat, NEW f, NEW r,
           r = ProcessFrame(e, tables, out, wrong, size, f),
           enc' = r.enc, out' = r.out, history' = Counted(f, wrong, r),
           given' = given, finish' = finish
    PROVE  /\ EncoderType(enc') /\ UnitsType(out') /\ HistoryType' /\ Results'
           /\ SettingsKept(e, enc') /\ Result(r)
           /\ r.ok => /\ enc'.state = "OK"
                      /\ enc'.signal = SubSeq(e.signal, e.blocksize + 1, Len(e.signal))
                      /\ SamplesAt(history', given, out', enc', left)
           /\ ~r.ok => enc'.state \notin {"OK", "UNINITIALIZED"} /\ history'.failed
<1> DEFINE n == e.blocksize
           audio == AudioOf(FramesOf(out))
           audio2 == AudioOf(FramesOf(out'))
<1>1. ProcessedFrame(e, out, wrong, size, r)
  <2>1. e.fifo = IF e.verify THEN e.signal ELSE <<>>
    BY DEF SamplesAt
  <2> QED
    BY <2>1, FrameProcessed DEF Ready
<1>2. Result(r) /\ EncoderType(enc') /\ SettingsKept(e, enc')
  BY <1>1 DEF ProcessedFrame
<1>3. HistoryType' /\ CountedAs(history, wrong, r, history')
  BY <1>2, HistoryCounted
<1>4. /\ history'.mismatch => history'.miscoded
      /\ history'.unverified => history'.miscoded
  BY <1>1, <1>3 DEF ProcessedFrame, CountedAs, Results
<1>5. CASE ~r.ok
  <2>1. /\ enc'.state \in ErrorStates \cup {"VERIFY_MISMATCH"} /\ out' = out
        /\ Len(enc'.fifo) <= Len(e.fifo)
    BY <1>1, <1>5 DEF ProcessedFrame
  <2>2. enc'.state \notin {"OK", "UNINITIALIZED"}
    BY <2>1 DEF ErrorStates
  <2>3. history'.failed /\ (~history'.unverified => ~history.unverified)
    BY <1>3, <1>5 DEF CountedAs
  <2>4. Len(enc'.fifo) <= enc'.fifoSize
    <3>1. /\ enc'.fifoSize = e.fifoSize /\ e.fifoSize \in Nat
          /\ enc'.fifo \in Seq(Int) /\ e.fifo \in Seq(Int)
          /\ Len(e.fifo) <= e.fifoSize
      BY <1>2 DEF SettingsKept, EncoderType, Ready
    <3>2. Len(enc'.fifo) \in Nat /\ Len(e.fifo) \in Nat
      BY <3>1, LenProperties, Zenon
    <3> QED
      BY <2>1, <3>1, <3>2
  <2>5. Results'
    BY <1>4, <2>1, <2>3, <2>4 DEF Results, Audio, Frames
  <2> QED
    BY <1>2, <1>3, <1>5, <2>1, <2>2, <2>3, <2>5
<1>6. CASE r.ok
  <2>1. /\ enc'.state = "OK"
        /\ wrong => ~e.verify
        /\ enc'.signal = SubSeq(e.signal, n + 1, Len(e.signal))
        /\ enc'.fifo = IF e.verify THEN enc'.signal ELSE <<>>
        /\ enc'.frameNumber = e.frameNumber + 1
    BY <1>1, <1>6 DEF ProcessedFrame
  <2>2. PICK u : /\ Frame(u) /\ u.number = e.frameNumber /\ u.size = size
                 /\ Len(u.coded) = n
                 /\ ~wrong => Decoded(u) = SubSeq(e.signal, 1, n)
                 /\ out' = Append(out, u)
    BY <1>1, <1>6 DEF ProcessedFrame
  <2>3. e.signal \in Seq(Int) /\ n \in 0..Len(e.signal) /\ Len(e.signal) \in Nat
    BY DEF EncoderType, Ready
  <2>4. UnitsType(out')
    BY <2>2, FrameAppended
  <2>5. /\ audio \in Seq(Int) /\ audio2 \in Seq(Int) /\ enc'.signal \in Seq(Int)
        /\ Len(audio2) = Len(audio) + n
        /\ Len(enc'.signal) = Len(e.signal) - n
        /\ ~wrong => (audio \o e.signal) \o left = (audio2 \o enc'.signal) \o left
    <3> DEFINE k == Len(u.coded)
               more == AudioOf(FramesOf(Append(out, u)))
               rest == SubSeq(e.signal, k + 1, Len(e.signal))
    <3>1. Len(u.coded) \in 0..Len(e.signal)
      BY <2>2, <2>3
    <3>2. Moved(out, u, e.signal, left)
      BY <2>2, <2>3, <3>1, SamplesMove
    <3>3. k = n /\ more = audio2 /\ rest = enc'.signal
      BY <2>1, <2>2
    <3>4. /\ audio \in Seq(Int) /\ more \in Seq(Int) /\ rest \in Seq(Int)
          /\ Len(more) = Len(audio) + k
          /\ Len(rest) = Len(e.signal) - k
          /\ Decoded(u) = SubSeq(e.signal, 1, k) =>
                (audio \o e.signal) \o left = (more \o rest) \o left
      BY <3>2 DEF Moved
    <3> HIDE DEF k, more, rest, audio, audio2, n
    <3> QED
      BY <2>2, <3>3, <3>4 DEF n
  <2>6. /\ Len(FramesOf(out')) = Len(FramesOf(out)) + 1
        /\ Numbered(FramesOf(out'))
    <3> DEFINE more == Append(out, u)
    <3>1. u.number = Len(FramesOf(out)) /\ Numbered(FramesOf(out))
      BY <2>2 DEF SamplesAt, Results, Frames
    <3>2. Len(FramesOf(more)) = Len(FramesOf(out)) + 1 /\ Numbered(FramesOf(more))
      BY <2>2, <3>1, NumbersAppended, Zenon
    <3>3. out' = more
      BY <2>2
    <3> HIDE DEF more
    <3> QED
      BY <3>2, <3>3
  <2>7. ~history'.unverified => ~history.unverified /\ ~wrong
    BY <1>3, <2>1 DEF CountedAs, Ready
  <2>8. enc'.verify = e.verify /\ enc'.fifoSize = e.fifoSize
    BY <1>2 DEF SettingsKept
  <2> HIDE DEF n, audio, audio2
  <2>9. ~history'.unverified => given = (audio2 \o enc'.signal) \o left
    BY <2>5, <2>7 DEF SamplesAt, audio
  <2>10. Len(given) = Len(audio2) + Len(enc'.signal) + Len(left)
    <3> DEFINE g == Len(given)
               a == Len(audio)
               s == Len(e.signal)
               l == Len(left)
               b == Len(audio2)
               t == Len(enc'.signal)
    <3>1. g = a + s + l /\ b = a + n /\ t = s - n
      BY <2>5 DEF SamplesAt, audio
    <3>2. a \in Nat /\ l \in Nat
      BY <2>5, LenProperties, Zenon
    <3>3. n \in Nat /\ s \in Nat
      BY <2>3 DEF n
    <3> HIDE DEF g, a, s, l, b, t
    <3>4. g = b + t + l
      BY <3>1, <3>2, <3>3
    <3> QED
      BY <3>4 DEF g, b, t, l
  <2>11. enc'.verify => ~history'.miscoded
    BY <1>3, <2>1, <2>8 DEF SamplesAt, CountedAs
  <2>12. SamplesAt(history', given, out', enc', left)
    BY <2>1, <2>6, <2>8, <2>9, <2>10, <2>11 DEF SamplesAt, audio2
  <2>13. Len(enc'.fifo) <= enc'.fifoSize
    <3>1. CASE e.verify
      <4>1. n \in 0..Len(e.signal) /\ Len(e.signal) \in Nat
        BY <2>3 DEF n
      <4>3. Len(enc'.signal) <= Len(e.signal) /\ Len(enc'.signal) \in Nat
        BY <2>5, <4>1
      <4>2. e.fifo = e.signal /\ enc'.fifo = enc'.signal /\ e.fifoSize \in Nat
            /\ Len(e.fifo) <= e.fifoSize
        BY <2>1, <3>1 DEF SamplesAt, EncoderType, Ready
      <4> QED
        BY <2>8, <4>1, <4>2, <4>3
    <3>2. CASE ~e.verify
      <4>1. Len(enc'.fifo) = 0 /\ e.fifoSize \in Nat
        BY <2>1, <3>2 DEF EncoderType, Ready
      <4> QED
        BY <2>8, <4>1
    <3> QED
      BY <3>1, <3>2
  <2>14. ~history'.unverified => IsPrefix(audio2, given)
    <3>1. \A a, s, t \in Seq(Int) : IsPrefix(a, (a \o s) \o t)
      BY MiddlePart
    <3>2. IsPrefix(audio2, (audio2 \o enc'.signal) \o left)
      BY <2>5, <3>1, Zenon
    <3> QED
      BY <2>9, <3>2, Zenon
  <2>15. Results'
    BY <1>4, <2>6, <2>13, <2>14 DEF Results, Audio, Frames, audio2
  <2> QED
    BY <1>2, <1>3, <1>6, <2>1, <2>4, <2>12, <2>15 DEF n
<1> QED
  BY <1>5, <1>6

(* Nothing is written yet.                                                 *)
LEMMA NothingYet ==
    /\ FramesOf(<<>>) = <<>> /\ AudioOf(FramesOf(<<>>)) = <<>> /\ UnitsType(<<>>)
    /\ Numbered(FramesOf(<<>>)) /\ IsPrefix(<<>>, <<>>)
<1>1. FramesOf(<<>>) = <<>> /\ AudioOf(<<>>) = <<>>
  BY FramesOfNone, AudioOfNone
<1>2. UnitsType(<<>>)
  BY DEF UnitsType, Items
<1>3. Numbered(<<>>)
  BY DEF Numbered
<1>4. IsPrefix(<<>>, <<>>)
  <2>1. SubSeq(<<>>, 1, 0) = <<>>
    BY SubSeqEmpty
  <2> QED
    BY <2>1 DEF IsPrefix
<1> QED
  BY <1>1, <1>2, <1>3, <1>4

LEMMA Begins == Init => IInv
<1> SUFFICES ASSUME Init PROVE IInv
  OBVIOUS
<1>1. enc = NewEncoder /\ out = <<>> /\ call = NoCall /\ given = <<>> /\ finish = "none"
  BY DEF Init
<1>2. EncoderType(enc) /\ enc.state = "UNINITIALIZED" /\ Len(enc.fifo) <= enc.fifoSize
  BY <1>1 DEF NewEncoder, EncoderType, EncoderFields, Whole
<1>3. HistoryType /\ ~history.mismatch /\ ~history.unverified
  BY DEF Init, HistoryType
<1>4. call.op = "none"
  BY <1>1 DEF NoCall
<1>5. Types
  BY <1>1, <1>2, <1>3, NothingYet DEF Types, CallType
<1>6. Control /\ Buffers
  BY <1>1, <1>2, <1>4 DEF Control, Buffers
<1>7. Results
  BY <1>1, <1>2, <1>3, NothingYet DEF Results, Audio, Frames
<1> QED
  BY <1>5, <1>6, <1>7 DEF IInv

LEMMA SettersKeep == ASSUME IInv, Setters PROVE IInv'
<1>1. /\ call = NoCall /\ enc.state = "UNINITIALIZED" /\ finish # "deleted"
      /\ UNCHANGED <<tables, out, call, given, finish, history>>
  BY DEF Setters, Set
<1>2. \/ \E v \in BOOLEAN : enc' = [enc EXCEPT !.verify = v]
      \/ \E b \in Nat : enc' = [enc EXCEPT !.blocksize = b]
      \/ \E m \in Seq(Blocks) : enc' = [enc EXCEPT !.metadata = m]
      \/ enc' = [enc EXCEPT !.valid = FALSE]
  BY EncoderAssumption DEF Setters, Set
<1>3. EncoderType(enc) /\ Len(enc.fifo) <= enc.fifoSize
  BY DEF IInv, Types, Results
<1>4. /\ EncoderType(enc') /\ enc'.state = enc.state /\ enc'.fifo = enc.fifo
      /\ enc'.fifoSize = enc.fifoSize
  BY <1>2, <1>3 DEF EncoderType, EncoderFields, Whole
<1>5. Types'
  BY <1>1, <1>4 DEF IInv, Types, CallType, HistoryType
<1>6. call.op = "none"
  BY <1>1 DEF NoCall
<1>7. Control' /\ Buffers'
  BY <1>1, <1>4, <1>6 DEF IInv, Control, Buffers
<1>8. Results'
  BY <1>1, <1>3, <1>4 DEF IInv, Results, Audio, Frames
<1> QED
  BY <1>5, <1>7, <1>8 DEF IInv

(* The checks of the initialization leave the settings what they were, but  *)
(* for the block size and the seek table.                                   *)
LEMMA CheckedKeeps ==
    ASSUME NEW e, EncoderType(e), NEW client
    PROVE  LET d == Checked(e, client)
           IN  /\ EncoderType(d) /\ d.state = e.state
               /\ d.fifo = e.fifo /\ d.fifoSize = e.fifoSize
               /\ client # "seekonly" => d.blocksize = Blocksize(e)
<1> DEFINE d == Checked(e, client)
<1>1. Blocksize(e) \in Nat
  BY EncoderAssumption DEF Blocksize, EncoderType
<1> DEFINE sized == IF client = "seekonly" THEN e
                    ELSE [e EXCEPT !.blocksize = Blocksize(e)]
<1>2. /\ EncoderType(sized) /\ sized.state = e.state
      /\ sized.fifo = e.fifo /\ sized.fifoSize = e.fifoSize
      /\ client # "seekonly" => sized.blocksize = Blocksize(e)
  BY <1>1 DEF EncoderType, EncoderFields, Whole
<1>3. d = sized \/ \E table : d = [sized EXCEPT !.seekTable = table]
  BY DEF Checked
<1> HIDE DEF sized, d
<1>4. /\ EncoderType(d) /\ d.state = sized.state
      /\ d.fifo = sized.fifo /\ d.fifoSize = sized.fifoSize
      /\ d.blocksize = sized.blocksize
  BY <1>2, <1>3 DEF EncoderType, EncoderFields, Whole
<1> QED
  BY <1>2, <1>4 DEF d

LEMMA HeaderUnitsType ==
    ASSUME NEW e, EncoderType(e)
    PROVE  /\ HeaderUnits(e) \in Seq(Items(HeaderUnits(e)))
           /\ \A u \in Items(HeaderUnits(e)) : HeaderUnit(u)
<1> DEFINE list == e.metadata
           info == [type |-> "streaminfo", size |-> 1, last |-> FALSE,
                    total |-> 0, sizes |-> <<0, 0>>]
           comment == [type |-> "vorbis", size |-> 1, last |-> list = <<>>]
           magic == [type |-> "magic", size |-> 1]
           it(i) == LET last == i = Len(list)
                    IN  IF list[i].type = "seektable"
                        THEN [type |-> "seektable", size |-> 1, last |-> last,
                              points |-> tables[list[i].table]]
                        ELSE [type |-> list[i].type, size |-> 1, last |-> last]
           begin == <<magic, info>>
           middle == IF OfType(list, "vorbis") = {} THEN <<comment>> ELSE <<>>
           end == [i \in DOMAIN list |-> it(i)]
           U == {magic, info, comment} \cup {it(i) : i \in 1..Len(list)}
<1>1. list \in Seq(Blocks) /\ Len(list) \in Nat /\ DOMAIN list = 1..Len(list)
  BY DEF EncoderType
<1>2. HeaderUnit(magic) /\ HeaderUnit(info) /\ HeaderUnit(comment)
  BY DEF HeaderUnit
<1>3. ASSUME NEW i \in 1..Len(list) PROVE HeaderUnit(it(i))
  <2>1. list[i].type # "frame"
    <3>1. list[i] \in Blocks
      BY <1>1
    <3> QED
      BY <3>1 DEF Blocks
  <2> QED
    BY <2>1 DEF HeaderUnit
<1>4. HeaderUnits(e) = (begin \o middle) \o end
  BY DEF HeaderUnits
<1> HIDE DEF it, magic, info, comment, list
<1>5. begin \in Seq(U) /\ middle \in Seq(U)
  <2>1. magic \in U /\ info \in U /\ comment \in U
    OBVIOUS
  <2> HIDE DEF U
  <2> QED
    BY <2>1
<1>6. end \in Seq(U)
  BY <1>1
<1>7. \A u \in U : HeaderUnit(u)
  BY <1>2, <1>3
<1> HIDE DEF begin, middle, end, U
<1>8. HeaderUnits(e) \in Seq(U)
  BY <1>4, <1>5, <1>6
<1> QED
  BY <1>7, <1>8, OfItsItems

(* What the beginning of a stream leaves of the one before.                *)
LEMMA InitStreamKeeps == ASSUME IInv, InitStream PROVE IInv'
<1>1. PICK client \in Clients, f \in {"none", "open", "memory", "decoder"} :
        /\ f \in {"memory", "decoder"} => Accepted(enc, client)
        /\ LET opened == IF client = "file" THEN [enc EXCEPT !.file = "open"] ELSE enc
               begun == [Checked(opened, client) EXCEPT
                            !.state = "OK", !.client = client,
                            !.signal = <<>>, !.fifo = <<>>, !.hint = "magic",
                            !.fifoSize = Blocksize(enc) + 1,
                            !.frameNumber = 0, !.samplesWritten = 0,
                            !.firstPoint = 1, !.streaminfoOffset = 0,
                            !.seektableOffset = 0, !.audioOffset = 0,
                            !.streaminfo = [total |-> 0, min |-> 0, max |-> 0]]
           IN  \/ /\ f = "open"
                  /\ enc' = [enc EXCEPT !.state = "IO_ERROR"]
                  /\ call' = NoCall
               \/ /\ f = "none" /\ ~Accepted(enc, client)
                  /\ enc' = Checked(opened, client)
                  /\ call' = NoCall
               \/ /\ f \in {"memory", "decoder"}
                  /\ enc' = [begun EXCEPT !.state =
                               IF f = "memory" THEN "MEMORY_ERROR"
                               ELSE "VERIFY_DECODER_ERROR"]
                  /\ call' = NoCall
               \/ /\ f = "none" /\ Accepted(enc, client)
                  /\ enc' = begun
                  /\ call' = [op |-> "init", todo |-> HeaderUnits(enc)]
        /\ out' = <<>> /\ given' = <<>> /\ finish' = "none"
        /\ history' = [history EXCEPT
                         !.streams = @ + 1, !.client = client,
                         !.faults = IF f # "none" THEN @ + 1 ELSE @,
                         !.miscoded = FALSE, !.unverified = FALSE,
                         !.failed = f # "none" \/ ~Accepted(enc, client),
                         !.mismatch = FALSE]
  BY DEF InitStream
<1> DEFINE opened == IF client = "file" THEN [enc EXCEPT !.file = "open"] ELSE enc
           d == Checked(opened, client)
           begun == [d EXCEPT
                        !.state = "OK", !.client = client,
                        !.signal = <<>>, !.fifo = <<>>, !.hint = "magic",
                        !.fifoSize = Blocksize(enc) + 1,
                        !.frameNumber = 0, !.samplesWritten = 0,
                        !.firstPoint = 1, !.streaminfoOffset = 0,
                        !.seektableOffset = 0, !.audioOffset = 0,
                        !.streaminfo = [total |-> 0, min |-> 0, max |-> 0]]
<1>2. EncoderType(enc) /\ Len(enc.fifo) <= enc.fifoSize /\ enc.state = "UNINITIALIZED"
  BY DEF InitStream, IInv, Types, Results
<1>3. /\ EncoderType(opened) /\ opened.state = enc.state /\ opened.fifo = enc.fifo
      /\ opened.fifoSize = enc.fifoSize /\ opened.blocksize = enc.blocksize
  BY <1>2 DEF EncoderType, EncoderFields, Whole
<1>4. /\ EncoderType(d) /\ d.state = "UNINITIALIZED" /\ Len(d.fifo) <= d.fifoSize
      /\ client # "seekonly" => d.blocksize = Blocksize(enc)
  <2> HIDE DEF opened
  <2>1. Blocksize(opened) = Blocksize(enc)
    BY <1>3 DEF Blocksize
  <2> QED
    BY <1>2, <1>3, <2>1, CheckedKeeps
<1>5. \/ f = "open" /\ enc' = [enc EXCEPT !.state = "IO_ERROR"] /\ call' = NoCall
      \/ f = "none" /\ ~Accepted(enc, client) /\ enc' = d /\ call' = NoCall
      \/ /\ f \in {"memory", "decoder"} /\ call' = NoCall
         /\ enc' = [begun EXCEPT !.state = IF f = "memory" THEN "MEMORY_ERROR"
                                           ELSE "VERIFY_DECODER_ERROR"]
      \/ /\ f = "none" /\ Accepted(enc, client) /\ enc' = begun
         /\ call' = [op |-> "init", todo |-> HeaderUnits(enc)]
  BY <1>1
<1>6. /\ out' = <<>> /\ given' = <<>> /\ finish' = "none"
      /\ history' = [history EXCEPT
                       !.streams = @ + 1, !.client = client,
                       !.faults = IF f # "none" THEN @ + 1 ELSE @,
                       !.miscoded = FALSE, !.unverified = FALSE,
                       !.failed = f # "none" \/ ~Accepted(enc, client),
                       !.mismatch = FALSE]
  BY <1>1
<1> HIDE DEF opened, d
<1>7. HistoryType' /\ ~history'.miscoded /\ ~history'.unverified /\ ~history'.mismatch
      /\ (f # "none" => history'.failed)
  <2> DEFINE failed == f # "none" \/ ~Accepted(enc, client)
             faults == IF f # "none" THEN history.faults + 1 ELSE history.faults
  <2>1. client \in Kinds \cup {"none"} /\ failed \in BOOLEAN /\ faults \in Nat
    BY EncoderAssumption DEF IInv, Types, HistoryType
  <2>2. f # "none" => failed
    OBVIOUS
  <2>3. HistoryType
    BY DEF IInv, Types
  <2>4. history' = [history EXCEPT
                       !.streams = @ + 1, !.client = client, !.faults = faults,
                       !.miscoded = FALSE, !.unverified = FALSE,
                       !.failed = failed, !.mismatch = FALSE]
    BY <1>6
  <2> HIDE DEF failed, faults
  <2>5. HistoryType'
    <3> DEFINE streams == history.streams + 1
    <3>1. streams \in Nat
      BY <2>3 DEF HistoryType
    <3>2. history' = [streams |-> streams, faults |-> faults, client |-> client,
                      miscoded |-> FALSE, unverified |-> FALSE, failed |-> failed,
                      mismatch |-> FALSE]
      BY <2>3, <2>4 DEF HistoryType
    <3> HIDE DEF streams
    <3> QED
      BY <2>1, <3>1, <3>2 DEF HistoryType
  <2>6. /\ history'.miscoded = FALSE /\ history'.unverified = FALSE
        /\ history'.mismatch = FALSE /\ history'.failed = failed
    BY <2>3, <2>4 DEF HistoryType
  <2> QED
    BY <2>2, <2>5, <2>6
<1>8. Accepted(enc, client) =>
        /\ client # "seekonly" /\ Blocksize(enc) \in Nat /\ Blocksize(enc) > 0
  BY EncoderAssumption DEF Accepted
<1>9. Accepted(enc, client) =>
        /\ EncoderType(begun) /\ begun.state = "OK" /\ begun.signal = <<>>
        /\ begun.fifo = <<>> /\ begun.frameNumber = 0
        /\ begun.blocksize = Blocksize(enc) /\ begun.fifoSize = Blocksize(enc) + 1
  <2> DEFINE size == Blocksize(enc) + 1
             info == [total |-> 0, min |-> 0, max |-> 0]
  <2>1. begun = [d EXCEPT
                    !.state = "OK", !.client = client,
                    !.signal = <<>>, !.fifo = <<>>, !.hint = "magic",
                    !.fifoSize = size,
                    !.frameNumber = 0, !.samplesWritten = 0,
                    !.firstPoint = 1, !.streaminfoOffset = 0,
                    !.seektableOffset = 0, !.audioOffset = 0,
                    !.streaminfo = info]
    OBVIOUS
  <2>2. Accepted(enc, client) => size \in Nat
    BY <1>8
  <2>3. info \in [total : Nat, min : Nat, max : Nat] /\ <<>> \in Seq(Int)
    OBVIOUS
  <2> HIDE DEF begun, info, size
  <2>4. Whole(d) /\ d.verify \in BOOLEAN /\ d.metadata \in Seq(Blocks)
    BY <1>4 DEF EncoderType
  <2>5. /\ Whole(begun) /\ begun.verify = d.verify /\ begun.metadata = d.metadata
        /\ begun.state = "OK" /\ begun.signal = <<>> /\ begun.fifo = <<>>
        /\ begun.frameNumber = 0 /\ begun.blocksize = d.blocksize
        /\ begun.fifoSize = size /\ begun.streaminfo = info
    BY <2>1, <2>4 DEF EncoderFields, Whole
  <2> QED
    BY <1>4, <1>8, <2>2, <2>3, <2>4, <2>5 DEF EncoderType, size
<1> HIDE DEF begun
<1>10. EncoderType(enc') /\ Len(enc'.fifo) <= enc'.fifoSize
  <2>1. CASE f = "open"
    <3>1. enc' = [enc EXCEPT !.state = "IO_ERROR"]
      BY <1>5, <2>1
    <3> QED
      BY <1>2, <3>1 DEF EncoderType, EncoderFields, Whole
  <2>2. CASE f = "none" /\ ~Accepted(enc, client)
    BY <1>4, <1>5, <2>2
  <2>3. CASE f \in {"memory", "decoder"}
    <3>1. enc' = [begun EXCEPT !.state = IF f = "memory" THEN "MEMORY_ERROR"
                                           ELSE "VERIFY_DECODER_ERROR"]
      BY <1>5, <2>3
    <3>2. EncoderType(begun) /\ Len(begun.fifo) <= begun.fifoSize
      BY <1>1, <1>8, <1>9, <2>3
    <3> QED
      BY <3>1, <3>2 DEF EncoderType, EncoderFields, Whole
  <2>4. CASE f = "none" /\ Accepted(enc, client)
    BY <1>5, <1>8, <1>9, <2>4
  <2> QED
    BY <2>1, <2>2, <2>3, <2>4
<1>11. \/ call' = NoCall /\ enc'.state = "UNINITIALIZED"
       \/ call' = NoCall /\ enc'.state \notin {"OK", "UNINITIALIZED"} /\ history'.failed
       \/ /\ call' = [op |-> "init", todo |-> HeaderUnits(enc)]
          /\ Accepted(enc, client) /\ enc' = begun
  <2>1. CASE f = "open"
    BY <1>2, <1>5, <1>7, <2>1 DEF EncoderType, EncoderFields, Whole
  <2>2. CASE f = "none" /\ ~Accepted(enc, client)
    BY <1>4, <1>5, <2>2
  <2>3. CASE f \in {"memory", "decoder"}
    <3>1. EncoderType(begun)
      BY <1>1, <1>9, <2>3
    <3>2. enc'.state \in {"MEMORY_ERROR", "VERIFY_DECODER_ERROR"} /\ call' = NoCall
      BY <1>5, <2>3, <3>1 DEF EncoderType, EncoderFields, Whole
    <3> QED
      BY <1>7, <2>3, <3>2
  <2>4. CASE f = "none" /\ Accepted(enc, client)
    BY <1>5, <2>4
  <2> QED
    BY <2>1, <2>2, <2>3, <2>4
<1>12. CallType'
  <2>1. call' = NoCall \/ call' = [op |-> "init", todo |-> HeaderUnits(enc)]
    BY <1>5
  <2> QED
    BY <1>2, <2>1, HeaderUnitsType DEF CallType
<1>13. Types'
  BY <1>6, <1>7, <1>10, <1>12, NothingYet DEF Types
<1>14. call'.op \in {"none", "init"} /\ (call'.op = "init" => enc'.state = "OK")
       /\ (enc'.state = "OK" => call'.op = "init" /\ Accepted(enc, client) /\ enc' = begun)
  BY <1>9, <1>11 DEF NoCall
<1>15. Control'
  BY <1>6, <1>11, <1>14 DEF Control
<1>16. Buffers'
  <2>1. SUFFICES ASSUME enc'.state = "OK"
                 PROVE  /\ SamplesAt(history', given', out', enc', <<>>)
                        /\ Len(enc'.signal) <= enc'.blocksize
                        /\ enc'.blocksize > 0 /\ enc'.fifoSize = enc'.blocksize + 1
    BY <1>14 DEF Buffers, Todo
  <2>2. SamplesAt(history', given', out', enc', <<>>)
    BY <1>6, <1>7, <1>9, <1>14, <2>1, NothingYet DEF SamplesAt
  <2> QED
    BY <1>8, <1>9, <1>14, <2>1, <2>2
<1>17. Results'
  BY <1>6, <1>7, <1>10, NothingYet DEF Results, Audio, Frames
<1> QED
  BY <1>13, <1>15, <1>16, <1>17 DEF IInv

(* A step that writes no frame and leaves the buffers alone.               *)
Unmoved ==
    /\ EncoderType(enc') /\ UnitsType(out') /\ given' = given /\ finish' = finish
    /\ FramesOf(out') = FramesOf(out)
    /\ enc'.signal = enc.signal /\ enc'.fifo = enc.fifo /\ enc'.verify = enc.verify
    /\ enc'.blocksize = enc.blocksize /\ enc'.fifoSize = enc.fifoSize
    /\ enc'.frameNumber = enc.frameNumber
    /\ HistoryType' /\ history'.miscoded = history.miscoded
    /\ history'.unverified = history.unverified /\ history'.mismatch = history.mismatch
    /\ history.failed => history'.failed
    /\ enc'.state = "OK" => /\ enc.state = "OK" /\ Todo' = Todo
                            /\ call.op = "finish" => call'.op = "finish"

LEMMA UnmovedKeeps == ASSUME IInv, Unmoved, CallType', Control' PROVE IInv'
<1>1. Types'
  BY DEF IInv, Types, Unmoved
<1>2. Buffers'
  <2>1. SUFFICES ASSUME enc'.state = "OK"
                 PROVE  /\ SamplesAt(history', given', out', enc', Todo')
                        /\ Len(enc'.signal) <= enc'.blocksize
                        /\ call'.op # "finish" =>
                              enc'.blocksize > 0 /\ enc'.fifoSize = enc'.blocksize + 1
    BY DEF Buffers
  <2>2. /\ SamplesAt(history, given, out, enc, Todo) /\ Todo' = Todo
        /\ Len(enc.signal) <= enc.blocksize
        /\ call.op # "finish" => enc.blocksize > 0 /\ enc.fifoSize = enc.blocksize + 1
        /\ call.op = "finish" => call'.op = "finish"
    BY <2>1 DEF IInv, Buffers, Unmoved
  <2>3. SamplesAt(history', given', out', enc', Todo')
    BY <2>2 DEF SamplesAt, Unmoved
  <2> QED
    BY <2>2, <2>3 DEF Unmoved
<1>3. Results'
  BY DEF IInv, Results, Unmoved, Audio, Frames
<1> QED
  BY <1>1, <1>2, <1>3 DEF IInv

LEMMA NotAlright ==
    ErrorStates \cap {"OK", "UNINITIALIZED", "VERIFY_MISMATCH"} = {}
  BY DEF ErrorStates

(* What is under way, by the name of the call.                             *)
LEMMA CallByName ==
    ASSUME CallType
    PROVE  /\ call.op \in {"none", "init", "process", "finish"}
           /\ call.op = "none" => call = NoCall
           /\ call.op = "init" =>
                 /\ call = [op |-> "init", todo |-> call.todo]
                 /\ call.todo \in Seq(Items(call.todo))
                 /\ \A u \in Items(call.todo) : HeaderUnit(u)
           /\ call.op = "process" => call \in [op : {"process"}, todo : Seq(Int)]
           /\ call.op = "finish" =>
                 call \in [op : {"finish"}, error : BOOLEAN, todo : Seq(Updates)]
<1>1. CASE call = NoCall
  BY <1>1 DEF NoCall
<1>2. CASE /\ call = [op |-> "init", todo |-> call.todo]
           /\ call.todo \in Seq(Items(call.todo))
           /\ \A u \in Items(call.todo) : HeaderUnit(u)
  <2>1. call.op = "init"
    BY <1>2
  <2> QED
    BY <1>2, <2>1
<1>3. CASE call \in [op : {"process"}, todo : Seq(Int)]
  BY <1>3
<1>4. CASE call \in [op : {"finish"}, error : BOOLEAN, todo : Seq(Updates)]
  BY <1>4
<1> QED
  BY <1>1, <1>2, <1>3, <1>4 DEF CallType

LEMMA WriteHeaderUnitKeeps == ASSUME IInv, WriteHeaderUnit PROVE IInv'
<1> DEFINE unit == Head(call.todo)
<1>1. PICK f \in Faults(UnitFaults) :
        LET r == WriteBitbuffer(enc, tables, out, unit, 0, f)
            e == IF unit.type # "streaminfo" THEN r.enc
                 ELSE [r.enc EXCEPT !.streaminfo =
                          [total |-> 0, min |-> NoMinimum, max |-> 0]]
        IN  /\ enc' = IF r.ok THEN [e EXCEPT !.hint = "metadata"] ELSE r.enc
            /\ tables' = r.tables /\ out' = r.out
            /\ call' = IF r.ok THEN [call EXCEPT !.todo = Tail(@)] ELSE NoCall
            /\ history' = Counted(f, FALSE, r)
  BY DEF WriteHeaderUnit
<1> DEFINE r == WriteBitbuffer(enc, tables, out, unit, 0, f)
           info == [total |-> 0, min |-> NoMinimum, max |-> 0]
           e == IF unit.type # "streaminfo" THEN r.enc
                ELSE [r.enc EXCEPT !.streaminfo = info]
<1>2. /\ call.op = "init" /\ call.todo # <<>> /\ UNCHANGED <<given, finish>>
      /\ call = [op |-> "init", todo |-> call.todo]
      /\ call.todo \in Seq(Items(call.todo))
      /\ \A u \in Items(call.todo) : HeaderUnit(u)
  BY CallByName DEF WriteHeaderUnit, IInv, Types
<1>3. EncoderType(enc) /\ enc.state = "OK" /\ UnitsType(out) /\ HistoryType
      /\ enc.verify \in BOOLEAN
  BY <1>2 DEF IInv, Types, Control, EncoderType
<1>4. unit \in Items(call.todo) /\ HeaderUnit(unit) /\ unit.type # "frame"
      /\ Tail(call.todo) \in Seq(Items(call.todo))
  <2>1. unit \in Items(call.todo) /\ Tail(call.todo) \in Seq(Items(call.todo))
    BY <1>2, HeadTailProperties
  <2> QED
    BY <1>2, <2>1 DEF HeaderUnit
<1> HIDE DEF unit
<1>5. Wrote(enc, out, unit, r)
  BY <1>3, <1>4, WriteHeaderWrites
<1>6. /\ enc' = IF r.ok THEN [e EXCEPT !.hint = "metadata"] ELSE r.enc
      /\ out' = r.out /\ history' = Counted(f, FALSE, r)
      /\ call' = IF r.ok THEN [call EXCEPT !.todo = Tail(@)] ELSE NoCall
  BY <1>1
<1> HIDE DEF r
<1>7. Result(r) /\ Alright(enc, r.enc)
  BY <1>5 DEF Wrote
<1>8. info \in [total : Nat, min : Nat, max : Nat]
  BY EncoderAssumption
<1> HIDE DEF info
<1>10. /\ EncoderType(enc') /\ enc'.signal = enc.signal /\ enc'.fifo = enc.fifo
       /\ enc'.verify = enc.verify /\ enc'.blocksize = enc.blocksize
       /\ enc'.fifoSize = enc.fifoSize /\ enc'.frameNumber = enc.frameNumber
       /\ enc'.state = r.enc.state
  <2>1. EncoderType(e) /\ e.signal = r.enc.signal /\ e.fifo = r.enc.fifo
        /\ e.verify = r.enc.verify /\ e.blocksize = r.enc.blocksize
        /\ e.fifoSize = r.enc.fifoSize /\ e.frameNumber = r.enc.frameNumber
        /\ e.state = r.enc.state
    BY <1>7, <1>8 DEF Alright, EncoderType, EncoderFields, Whole
  <2> HIDE DEF e
  <2>2. /\ EncoderType(enc') /\ enc'.signal = r.enc.signal /\ enc'.fifo = r.enc.fifo
        /\ enc'.verify = r.enc.verify /\ enc'.blocksize = r.enc.blocksize
        /\ enc'.fifoSize = r.enc.fifoSize /\ enc'.frameNumber = r.enc.frameNumber
        /\ enc'.state = r.enc.state
    BY <1>6, <1>7, <2>1 DEF Alright, EncoderType, EncoderFields, Whole
  <2> QED
    BY <1>7, <2>2 DEF Alright, Kept
<1>11. HistoryType' /\ CountedAs(history, FALSE, r, history')
  BY <1>3, <1>6, <1>7, HistoryCounted
<1>12. CASE r.ok
  <2>1. /\ enc'.state = "OK" /\ out' = Append(out, unit)
        /\ call' = [call EXCEPT !.todo = Tail(@)]
    BY <1>3, <1>5, <1>6, <1>10, <1>12 DEF Wrote
  <2>2. call' = [op |-> "init", todo |-> Tail(call.todo)]
    BY <1>2, <2>1
  <2>3. CallType'
    <3> DEFINE tail == Tail(call.todo)
    <3>1. tail \in Seq(Items(tail)) /\ Items(tail) \subseteq Items(call.todo)
      BY <1>4, OfItsItems
    <3> HIDE DEF tail
    <3>2. call' = [op |-> "init", todo |-> tail]
      BY <2>2 DEF tail
    <3> QED
      BY <1>2, <3>1, <3>2 DEF CallType
  <2>4. call'.op = "init"
    BY <2>2
  <2>5. Control'
    BY <1>2, <2>1, <2>4 DEF IInv, Control, NoCall
  <2>6. UnitsType(out') /\ FramesOf(out') = FramesOf(out)
    BY <1>3, <1>4, <2>1, UnitAppended
  <2>7. Todo' = Todo
    BY <1>2, <2>4 DEF Todo
  <2>8. /\ history'.miscoded = history.miscoded
        /\ history'.unverified = history.unverified
        /\ history'.mismatch = history.mismatch /\ (history.failed => history'.failed)
    BY <1>3, <1>10, <1>11, <2>1 DEF CountedAs, HistoryType
  <2>9. Unmoved
    BY <1>2, <1>3, <1>10, <1>11, <2>4, <2>6, <2>7, <2>8 DEF Unmoved
  <2> QED
    BY <2>3, <2>5, <2>9, UnmovedKeeps
<1>13. CASE ~r.ok
  <2>1. /\ enc'.state \notin {"OK", "UNINITIALIZED", "VERIFY_MISMATCH"}
        /\ out' = out /\ call' = NoCall
    BY <1>5, <1>6, <1>10, <1>13, NotAlright DEF Wrote
  <2>2. /\ history'.miscoded = history.miscoded /\ history'.failed
        /\ history'.unverified = history.unverified
        /\ history'.mismatch = history.mismatch
    BY <1>3, <1>10, <1>11, <1>13, <2>1 DEF CountedAs, HistoryType
  <2>3. CallType' /\ call'.op = "none"
    BY <2>1 DEF CallType, NoCall
  <2>4. finish # "true"
    BY <1>2 DEF IInv, Control, NoCall
  <2>5. Control'
    BY <1>2, <2>1, <2>2, <2>3, <2>4 DEF Control
  <2>6. Unmoved
    BY <1>2, <1>3, <1>10, <1>11, <2>1, <2>2 DEF Unmoved
  <2> QED
    BY <2>3, <2>5, <2>6, UnmovedKeeps
<1> QED
  BY <1>12, <1>13

LEMMA HeaderWrittenKeeps == ASSUME IInv, HeaderWritten PROVE IInv'
<1> DEFINE position == IF CanTell(enc.client) THEN Position(out) ELSE 0
           d == [enc EXCEPT !.audioOffset = position, !.hint = "audio"]
<1>1. PICK f \in Faults({"none", "tell"}) :
        LET r == IF f = "tell" THEN Failed(enc, tables, out, "CLIENT_ERROR")
                 ELSE Done(d, tables, out)
        IN  /\ enc' = r.enc
            /\ call' = NoCall
            /\ history' = Counted(f, FALSE, r)
  BY DEF HeaderWritten
<1> DEFINE r == IF f = "tell" THEN Failed(enc, tables, out, "CLIENT_ERROR")
                ELSE Done(d, tables, out)
<1>2. /\ call.op = "init" /\ UNCHANGED <<tables, out, given, finish>>
      /\ enc' = r.enc /\ call' = NoCall /\ history' = Counted(f, FALSE, r)
  BY <1>1 DEF HeaderWritten
<1>3. EncoderType(enc) /\ enc.state = "OK" /\ UnitsType(out) /\ HistoryType
      /\ enc.verify \in BOOLEAN /\ finish # "true"
  BY <1>2 DEF IInv, Types, Control, EncoderType, NoCall
<1>4. EncoderType(d) /\ d.hint = "audio" /\ d.state = "OK"
  BY <1>3 DEF EncoderType, EncoderFields, Whole
<1>5. /\ d.signal = enc.signal /\ d.fifo = enc.fifo /\ d.verify = enc.verify
      /\ d.blocksize = enc.blocksize /\ d.fifoSize = enc.fifoSize
      /\ d.frameNumber = enc.frameNumber
  BY <1>3 DEF EncoderType, EncoderFields, Whole
<1> HIDE DEF d
<1>6. Result(r) /\ EncoderType(r.enc)
      /\ \/ r.ok /\ r.enc.state = "OK" /\ r.enc.hint = "audio"
         \/ ~r.ok /\ r.enc.state = "CLIENT_ERROR"
  <2>1. CASE f = "tell"
    <3>1. r = Failed(enc, tables, out, "CLIENT_ERROR")
      BY <2>1
    <3> QED
      BY <1>3, <3>1, OneFieldFailed DEF Alright
  <2>2. CASE f # "tell"
    <3>1. r = [enc |-> d, tables |-> tables, out |-> out, ok |-> TRUE]
      BY <2>2 DEF Done
    <3> HIDE DEF r
    <3>2. Result(r) /\ r.ok /\ r.enc = d
      BY <3>1 DEF Result
    <3> QED
      BY <1>4, <3>2
  <2> QED
    BY <2>1, <2>2
<1>7. /\ r.enc.signal = enc.signal /\ r.enc.fifo = enc.fifo /\ r.enc.verify = enc.verify
      /\ r.enc.blocksize = enc.blocksize /\ r.enc.fifoSize = enc.fifoSize
      /\ r.enc.frameNumber = enc.frameNumber
  <2>1. CASE f = "tell"
    <3>1. r = Failed(enc, tables, out, "CLIENT_ERROR")
      BY <2>1
    <3>2. Alright(enc, r.enc)
      BY <1>3, <3>1, OneFieldFailed
    <3> QED
      BY <3>2 DEF Alright, Kept
  <2>2. CASE f # "tell"
    <3>1. r.enc = d
      BY <2>2 DEF Done
    <3> QED
      BY <1>5, <3>1
  <2> QED
    BY <2>1, <2>2
<1> HIDE DEF r
<1>8. HistoryType' /\ CountedAs(history, FALSE, r, history')
  BY <1>2, <1>3, <1>6, HistoryCounted
<1>9. /\ history'.miscoded = history.miscoded
      /\ history'.unverified = history.unverified
      /\ history'.mismatch = history.mismatch /\ (history.failed => history'.failed)
      /\ (~r.ok => history'.failed)
  BY <1>3, <1>6, <1>8 DEF CountedAs, HistoryType
<1>10. CallType' /\ call'.op = "none"
  BY <1>2 DEF CallType, NoCall
<1>11. Control'
  BY <1>2, <1>3, <1>6, <1>9, <1>10 DEF Control
<1>12. Todo' = Todo
  BY <1>2, <1>10 DEF Todo
<1>13. Unmoved
  BY <1>2, <1>3, <1>6, <1>7, <1>8, <1>9, <1>12 DEF Unmoved
<1> QED
  BY <1>10, <1>11, <1>13, UnmovedKeeps

(* The samples of a call are new at the end of what was handed over.       *)
LEMMA ProcessKeeps == ASSUME IInv, Process PROVE IInv'
<1>1. PICK n \in 0..(Len(Signal) - Len(given)) :
        LET samples == SubSeq(Signal, Len(given) + 1, Len(given) + n)
        IN  /\ call' = [op |-> "process", todo |-> samples]
            /\ given' = given \o samples
  BY DEF Process
<1> DEFINE samples == SubSeq(Signal, Len(given) + 1, Len(given) + n)
           audio == AudioOf(FramesOf(out))
<1>2. /\ call' = [op |-> "process", todo |-> samples] /\ given' = given \o samples
      /\ call = NoCall /\ enc.state = "OK" /\ UNCHANGED <<enc, tables, out, finish, history>>
  BY <1>1 DEF Process
<1>3. samples \in Seq(Int)
  <2>1. Signal \in Seq(Int) /\ given \in Seq(Int)
    BY EncoderAssumption DEF IInv, Types
  <2>2. Len(given) \in Nat /\ Len(Signal) \in Nat
    BY <2>1
  <2>3. \A i \in (Len(given) + 1)..(Len(given) + n) : Signal[i] \in Int
    BY <2>1, <2>2
  <2>4. Len(given) + 1 \in Int /\ Len(given) + n \in Int
    BY <2>2
  <2> QED
    BY <2>3, <2>4, SubSeqProperties
<1>4. given \in Seq(Int) /\ UnitsType(out) /\ enc.signal \in Seq(Int)
  BY DEF IInv, Types, EncoderType
<1>5. audio \in Seq(Int)
  BY <1>4, AudioOfUnits
<1>6. call.op = "none" /\ Todo = <<>>
  BY <1>2 DEF NoCall, Todo
<1> HIDE DEF samples
<1>7. call'.op = "process" /\ Todo' = samples
  BY <1>2 DEF Todo
<1>8. Types'
  <2>1. given' \in Seq(Int)
    BY <1>2, <1>3, <1>4, Joined
  <2>2. CallType'
    BY <1>2, <1>3 DEF CallType
  <2> QED
    BY <1>2, <2>1, <2>2 DEF IInv, Types, HistoryType
<1>9. Control'
  BY <1>2, <1>6, <1>7 DEF IInv, Control, NoCall
<1>10. SamplesAt(history, given, out, enc, <<>>)
  BY <1>2, <1>6 DEF IInv, Buffers
<1> HIDE DEF audio
<1>11. ~history.unverified => given = audio \o enc.signal
  <2>1. audio \o enc.signal \in Seq(Int)
    BY <1>4, <1>5, Joined
  <2>2. (audio \o enc.signal) \o <<>> = audio \o enc.signal
    BY <2>1, ConcatEmptySeq
  <2> QED
    BY <1>10, <2>2 DEF SamplesAt, audio
<1>12. Buffers'
  <2>1. ~history.unverified => given' = (audio \o enc.signal) \o samples
    BY <1>2, <1>11
  <2>2. Len(given') = Len(audio) + Len(enc.signal) + Len(samples)
    <3>1. Len(given') = Len(given) + Len(samples)
      BY <1>2, <1>3, <1>4, Joined
    <3>2. Len(given) = Len(audio) + Len(enc.signal) + Len(<<>>)
      BY <1>10 DEF SamplesAt, audio
    <3>3. Len(audio) \in Nat /\ Len(enc.signal) \in Nat /\ Len(<<>>) = 0
      BY <1>4, <1>5
    <3> QED
      BY <3>1, <3>2, <3>3
  <2>3. SamplesAt(history, given', out, enc, samples)
    BY <1>10, <2>1, <2>2 DEF SamplesAt, audio
  <2> QED
    BY <1>2, <1>6, <1>7, <2>3 DEF IInv, Buffers
<1>13. ~history.unverified => IsPrefix(audio, given')
  <2>1. \A a, s, t \in Seq(Int) : IsPrefix(a, (a \o s) \o t)
    BY MiddlePart
  <2>2. IsPrefix(audio, (audio \o enc.signal) \o samples)
    BY <1>3, <1>4, <1>5, <2>1, Zenon
  <2> QED
    BY <1>2, <1>11, <2>2
<1>14. Results'
  <2>1. finish' # "true"
    BY <1>2 DEF IInv, Control
  <2> QED
    BY <1>2, <1>13, <2>1 DEF IInv, Results, Audio, Frames, audio
<1> QED
  BY <1>8, <1>9, <1>12, <1>14 DEF IInv

(* The encoder takes n samples of the call into its buffer.                *)
Filled(e, taken) ==
    [e EXCEPT !.signal = @ \o taken, !.fifo = IF e.verify THEN @ \o taken ELSE @]

LEMMA BufferFilled ==
    ASSUME NEW e, EncoderType(e), NEW h, NEW g \in Seq(Int),
           NEW units, UnitsType(units), NEW todo \in Seq(Int),
           SamplesAt(h, g, units, e, todo), NEW n \in 0..Len(todo)
    PROVE  LET taken == SubSeq(todo, 1, n)
               left == SubSeq(todo, n + 1, Len(todo))
               d == Filled(e, taken)
           IN  /\ EncoderType(d) /\ SettingsKept(e, d) /\ d.state = e.state
               /\ Len(d.signal) = Len(e.signal) + n
               /\ left \in Seq(Int)
               /\ SamplesAt(h, g, units, d, left)
<1> DEFINE taken == SubSeq(todo, 1, n)
           left == SubSeq(todo, n + 1, Len(todo))
           d == Filled(e, taken)
           audio == AudioOf(FramesOf(units))
           more == e.signal \o taken
           queue == IF e.verify THEN more ELSE <<>>
<1>1. /\ taken \in Seq(Int) /\ left \in Seq(Int) /\ Len(taken) = n
      /\ Len(left) = Len(todo) - n /\ taken \o left = todo
  BY CutAt
<1>2. e.signal \in Seq(Int) /\ audio \in Seq(Int) /\ e.verify \in BOOLEAN
  BY AudioOfUnits DEF EncoderType
<1>3. Len(todo) \in Nat /\ n \in 0..Len(todo) /\ Len(audio) \in Nat /\ Len(e.signal) \in Nat
  BY <1>2, LenProperties
<1> HIDE DEF taken, left, audio
<1>4. more \in Seq(Int) /\ Len(more) = Len(e.signal) + n
  BY <1>1, <1>2, Joined
<1>5. d = [e EXCEPT !.signal = more, !.fifo = queue]
  <2>1. e.fifo = IF e.verify THEN e.signal ELSE <<>>
    BY DEF SamplesAt
  <2>2. (IF e.verify THEN e.fifo \o taken ELSE e.fifo) = queue
    BY <2>1
  <2> HIDE DEF more, queue
  <2> QED
    BY <2>2 DEF Filled, more
<1>6. queue \in Seq(Int)
  BY <1>2, <1>4
<1> HIDE DEF more, queue, d
<1>7. /\ EncoderType(d) /\ SettingsKept(e, d) /\ d.state = e.state
      /\ d.signal = more /\ d.fifo = queue /\ d.frameNumber = e.frameNumber
  BY <1>4, <1>5, <1>6 DEF EncoderType, EncoderFields, Whole, SettingsKept
<1>8. (audio \o e.signal) \o todo = (audio \o more) \o left
  <2> DEFINE old == e.signal
  <2>1. audio \in Samples /\ old \in Samples /\ taken \in Samples /\ left \in Samples
    BY <1>1, <1>2 DEF Samples
  <2> HIDE DEF old
  <2>2. (audio \o old) \o (taken \o left) = (audio \o (old \o taken)) \o left
    BY <2>1, MoveOver
  <2> QED
    BY <1>1, <2>2 DEF more, old
<1>9. Len(g) = Len(audio) + Len(more) + Len(left)
  <2>1. Len(g) = Len(audio) + Len(e.signal) + Len(todo)
    BY DEF SamplesAt, audio
  <2> QED
    BY <1>1, <1>3, <1>4, <2>1
<1>10. SamplesAt(h, g, units, d, left)
  BY <1>7, <1>8, <1>9 DEF SamplesAt, SettingsKept, audio, queue
<1> QED
  BY <1>1, <1>4, <1>7, <1>10 DEF d, left, taken

LEMMA ProcessChunkKeeps == ASSUME IInv, ProcessChunk PROVE IInv'
<1> DEFINE room == enc.blocksize + 1 - Len(enc.signal)
           n == Smaller(room, Len(call.todo))
           taken == SubSeq(call.todo, 1, n)
           left == SubSeq(call.todo, n + 1, Len(call.todo))
           filled == Filled(enc, taken)
           rest == IF left = <<>> THEN NoCall ELSE [call EXCEPT !.todo = left]
<1>1. /\ call.op = "process" /\ UNCHANGED <<given, finish>>
      /\ \/ /\ Len(filled.signal) <= enc.blocksize
            /\ enc' = filled /\ call' = rest
            /\ UNCHANGED <<tables, out, history>>
         \/ /\ Len(filled.signal) > enc.blocksize
            /\ \E f \in Faults(FrameFaults), size \in FrameSizes,
                 wrong \in {FALSE, Miscodes} :
                  LET r == ProcessFrame(filled, tables, out, wrong, size, f)
                  IN  /\ enc' = r.enc /\ tables' = r.tables /\ out' = r.out
                      /\ call' = IF r.ok THEN rest ELSE NoCall
                      /\ history' = Counted(f, wrong, r)
  BY DEF ProcessChunk, Filled
<1>2. call \in [op : {"process"}, todo : Seq(Int)] /\ call.todo \in Seq(Int)
  BY <1>1, CallByName DEF IInv, Types
<1>3. /\ EncoderType(enc) /\ UnitsType(out) /\ given \in Seq(Int) /\ HistoryType
      /\ Results /\ enc.state = "OK" /\ enc.hint = "audio" /\ finish # "true"
      /\ enc.verify \in BOOLEAN
  BY <1>1 DEF IInv, Types, Control, EncoderType, NoCall
<1>4. /\ SamplesAt(history, given, out, enc, call.todo)
      /\ Len(enc.signal) <= enc.blocksize
      /\ enc.blocksize > 0 /\ enc.fifoSize = enc.blocksize + 1
  BY <1>1, <1>3 DEF IInv, Buffers, Todo
<1>5. enc.blocksize \in Nat /\ Len(enc.signal) \in Nat /\ Len(call.todo) \in Nat
  BY <1>2, <1>3 DEF EncoderType
<1>6. n \in 0..Len(call.todo) /\ Len(enc.signal) + n <= enc.blocksize + 1
  BY <1>4, <1>5 DEF Smaller
<1> HIDE DEF n
<1>7. /\ EncoderType(filled) /\ SettingsKept(enc, filled) /\ filled.state = "OK"
      /\ Len(filled.signal) = Len(enc.signal) + n
      /\ left \in Seq(Int)
      /\ SamplesAt(history, given, out, filled, left)
  <2> DEFINE todo == call.todo
  <2>1. todo \in Seq(Int) /\ n \in 0..Len(todo) /\ SamplesAt(history, given, out, enc, todo)
    BY <1>2, <1>4, <1>6
  <2> HIDE DEF todo
  <2>2. LET t == SubSeq(todo, 1, n)
            l == SubSeq(todo, n + 1, Len(todo))
            d == Filled(enc, t)
        IN  /\ EncoderType(d) /\ SettingsKept(enc, d) /\ d.state = enc.state
            /\ Len(d.signal) = Len(enc.signal) + n
            /\ l \in Seq(Int)
            /\ SamplesAt(history, given, out, d, l)
    BY <1>3, <2>1, BufferFilled
  <2> QED
    BY <1>3, <2>2 DEF todo
<1> HIDE DEF filled, left, taken
<1>8. /\ rest.op \in {"none", "process"}
      /\ left # <<>> => rest = [op |-> "process", todo |-> left]
      /\ left = <<>> => rest = NoCall
      /\ rest.op = "process" => rest = [op |-> "process", todo |-> left]
      /\ (IF rest.op = "process" THEN rest.todo ELSE <<>>) = left
  <2>1. CASE left = <<>>
    BY <2>1 DEF NoCall
  <2>2. CASE left # <<>>
    <3>1. rest = [op |-> "process", todo |-> left]
      BY <1>2, <2>2
    <3> QED
      BY <2>2, <3>1
  <2> QED
    BY <2>1, <2>2
<1> HIDE DEF rest
<1>9. filled.verify = enc.verify /\ filled.blocksize = enc.blocksize
      /\ filled.fifoSize = enc.fifoSize /\ filled.hint = "audio"
  BY <1>3, <1>7 DEF SettingsKept
<1>10. Len(filled.fifo) <= filled.fifoSize
  <2>1. filled.fifo = IF filled.verify THEN filled.signal ELSE <<>>
    BY <1>7 DEF SamplesAt
  <2>2. CASE filled.verify
    BY <1>4, <1>5, <1>6, <1>7, <1>9, <2>1, <2>2
  <2>3. CASE ~filled.verify
    <3>1. Len(filled.fifo) = 0
      BY <2>1, <2>3
    <3> QED
      BY <1>4, <1>5, <1>9, <3>1
  <2> QED
    BY <2>2, <2>3
<1>11. CASE /\ Len(filled.signal) <= enc.blocksize
            /\ enc' = filled /\ call' = rest
            /\ UNCHANGED <<tables, out, history>>
  <2>1. CallType' /\ Todo' = left /\ call'.op \in {"none", "process"}
    BY <1>7, <1>8, <1>11 DEF CallType, Todo
  <2>2. Types'
    BY <1>1, <1>3, <1>7, <1>11, <2>1 DEF Types, HistoryType
  <2>3. Control'
    BY <1>1, <1>3, <1>7, <1>9, <1>11, <2>1 DEF Control
  <2>4. Buffers'
    <3>1. SamplesAt(history', given', out', enc', Todo')
      BY <1>1, <1>7, <1>11, <2>1
    <3> QED
      BY <1>4, <1>9, <1>11, <2>1, <3>1 DEF Buffers
  <2>5. Results'
    BY <1>1, <1>3, <1>10, <1>11 DEF Results, Audio, Frames
  <2> QED
    BY <2>2, <2>3, <2>4, <2>5 DEF IInv
<1>12. ASSUME Len(filled.signal) > enc.blocksize,
              NEW f \in Faults(FrameFaults), NEW size \in FrameSizes,
              NEW wrong \in {FALSE, Miscodes}, NEW r,
              r = ProcessFrame(filled, tables, out, wrong, size, f),
              enc' = r.enc, tables' = r.tables, out' = r.out,
              call' = IF r.ok THEN rest ELSE NoCall, history' = Counted(f, wrong, r)
       PROVE  IInv'
  <2>1. wrong \in BOOLEAN /\ size \in Nat
    <3>1. wrong \in BOOLEAN
      BY EncoderAssumption
    <3>2. size \in Nat
      BY EncoderAssumption
    <3> QED
      BY <3>1, <3>2
  <2>2. Ready(filled)
    <3>1. filled.blocksize \in 1..Len(filled.signal)
      BY <1>4, <1>5, <1>6, <1>7, <1>9, <1>12
    <3> QED
      BY <1>7, <1>9, <1>10, <3>1 DEF Ready
  <2>3. /\ EncoderType(enc') /\ UnitsType(out') /\ HistoryType' /\ Results'
        /\ SettingsKept(filled, enc') /\ Result(r)
        /\ r.ok => /\ enc'.state = "OK"
                   /\ enc'.signal = SubSeq(filled.signal, filled.blocksize + 1,
                                           Len(filled.signal))
                   /\ SamplesAt(history', given, out', enc', left)
        /\ ~r.ok => enc'.state \notin {"OK", "UNINITIALIZED"} /\ history'.failed
    BY <1>1, <1>3, <1>7, <1>12, <2>1, <2>2, FrameStep
  <2>4. CallType'
    BY <1>7, <1>8, <1>12 DEF CallType, NoCall
  <2>5. Types'
    BY <1>1, <1>3, <2>3, <2>4 DEF Types
  <2>6. /\ r.ok => call' = rest /\ call'.op \in {"none", "process"} /\ Todo' = left
        /\ ~r.ok => call'.op = "none"
    BY <1>8, <1>12 DEF NoCall, Todo
  <2>7. Control'
    <3>1. enc'.hint = "audio"
      BY <1>9, <2>3 DEF SettingsKept
    <3> QED
      BY <1>1, <1>3, <2>3, <2>6, <3>1, <2>4 DEF Control
  <2>8. Buffers'
    <3>1. SUFFICES ASSUME enc'.state = "OK"
                   PROVE  /\ SamplesAt(history', given', out', enc', Todo')
                          /\ Len(enc'.signal) <= enc'.blocksize
                          /\ enc'.blocksize > 0 /\ enc'.fifoSize = enc'.blocksize + 1
      BY DEF Buffers
    <3>2. r.ok
      BY <2>3, <3>1
    <3>3. enc'.blocksize = enc.blocksize /\ enc'.fifoSize = enc.fifoSize
      BY <1>9, <2>3 DEF SettingsKept
    <3>4. Len(enc'.signal) <= 1
      <4> DEFINE s == filled.signal
                 b == filled.blocksize
      <4>1. s \in Seq(Int) /\ b \in 0..Len(s) /\ Len(s) <= b + 1 /\ b \in Nat
        <5>1. s \in Seq(Int) /\ b \in Nat
          BY <1>7 DEF EncoderType
        <5> QED
          BY <1>5, <1>6, <1>7, <1>9, <1>12, <5>1
      <4>2. enc'.signal = SubSeq(s, b + 1, Len(s))
        BY <2>3, <3>2
      <4> HIDE DEF s, b
      <4>3. Len(SubSeq(s, b + 1, Len(s))) = Len(s) - b
        BY <4>1, CutAt
      <4> QED
        BY <4>1, <4>2, <4>3
    <3>5. Len(enc'.signal) \in Nat
      BY <2>3 DEF EncoderType
    <3> QED
      BY <1>1, <1>4, <1>5, <2>3, <2>6, <3>2, <3>3, <3>4, <3>5
  <2> QED
    BY <2>3, <2>5, <2>7, <2>8 DEF IInv
<1> QED
  BY <1>1, <1>11, <1>12

Ends(r) ==
    [op |-> "finish", error |-> ~r.ok,
     todo |-> IF r.enc.state = "OK" /\ r.enc.client \in {"pipe", "file"}
              THEN <<"md5", "total", "sizes", "points">> ELSE <<>>]

LEMMA EndsType ==
    ASSUME NEW r, r.ok \in BOOLEAN
    PROVE  /\ Ends(r) \in [op : {"finish"}, error : BOOLEAN, todo : Seq(Updates)]
           /\ Ends(r).op = "finish" /\ Ends(r).error = ~r.ok
           /\ Ends(r).todo # <<>> => r.enc.state = "OK"
<1> DEFINE todo == IF r.enc.state = "OK" /\ r.enc.client \in {"pipe", "file"}
                   THEN <<"md5", "total", "sizes", "points">> ELSE <<>>
<1>1. todo \in Seq(Updates)
  <2>1. <<"md5", "total", "sizes", "points">> \in Seq(Updates) /\ <<>> \in Seq(Updates)
    <3>1. "md5" \in Updates /\ "total" \in Updates /\ "sizes" \in Updates
          /\ "points" \in Updates
      BY DEF Updates
    <3> QED
      BY <3>1
  <2> QED
    BY <2>1, Zenon
<1>2. Ends(r) = [op |-> "finish", error |-> ~r.ok, todo |-> todo]
  BY DEF Ends
<1>3. todo # <<>> => r.enc.state = "OK"
  OBVIOUS
<1> HIDE DEF todo
<1> QED
  BY <1>1, <1>2, <1>3

(* What is left in the buffer is the last block, of its own size.          *)
LEMMA FinishKeeps == ASSUME IInv, Finish PROVE IInv'
<1> DEFINE last == [enc EXCEPT !.blocksize = Len(enc.signal)]
<1>1. /\ call = NoCall /\ finish # "deleted" /\ enc.state # "UNINITIALIZED"
      /\ UNCHANGED <<given, finish>>
      /\ \/ /\ enc.state = "OK" /\ enc.signal # <<>>
            /\ \E f \in Faults(FrameFaults), size \in FrameSizes,
                 wrong \in {FALSE, Miscodes} :
                  LET r == ProcessFrame(last, tables, out, wrong, size, f)
                  IN  /\ enc' = r.enc /\ tables' = r.tables /\ out' = r.out
                      /\ call' = Ends(r)
                      /\ history' = Counted(f, wrong, r)
         \/ /\ enc.state # "OK" \/ enc.signal = <<>>
            /\ call' = Ends(Done(enc, tables, out))
            /\ UNCHANGED <<enc, tables, out, history>>
  BY DEF Finish, Ends
<1>2. /\ EncoderType(enc) /\ UnitsType(out) /\ given \in Seq(Int) /\ HistoryType
      /\ Results /\ finish # "true" /\ enc.verify \in BOOLEAN
  BY <1>1 DEF IInv, Types, Control, EncoderType
<1>3. call.op = "none" /\ Todo = <<>>
  BY <1>1 DEF NoCall, Todo
<1>4. CASE /\ enc.state # "OK" \/ enc.signal = <<>>
           /\ call' = Ends(Done(enc, tables, out))
           /\ UNCHANGED <<enc, tables, out, history>>
  <2> DEFINE r == Done(enc, tables, out)
  <2>1. r.ok = TRUE /\ r.enc = enc /\ call' = Ends(r)
    BY <1>4 DEF Done
  <2> HIDE DEF r
  <2>2. /\ CallType' /\ call'.op = "finish" /\ call'.error = FALSE
        /\ call'.todo # <<>> => enc.state = "OK"
    <3>1. /\ Ends(r) \in [op : {"finish"}, error : BOOLEAN, todo : Seq(Updates)]
          /\ Ends(r).op = "finish" /\ Ends(r).error = ~r.ok
          /\ Ends(r).todo # <<>> => r.enc.state = "OK"
      <4>1. r.ok \in BOOLEAN
        BY <2>1
      <4> QED
        BY <4>1, EndsType
    <3>2. Ends(r).error = FALSE
      BY <2>1, <3>1
    <3> QED
      BY <2>1, <3>1, <3>2 DEF CallType
  <2>3. Control'
    BY <1>1, <1>2, <1>3, <1>4, <2>2 DEF IInv, Control
  <2>4. Todo' = Todo
    BY <1>3, <2>2 DEF Todo
  <2>5. Unmoved
    BY <1>1, <1>2, <1>3, <1>4, <2>2, <2>4 DEF Unmoved, HistoryType
  <2> QED
    BY <2>2, <2>3, <2>5, UnmovedKeeps
<1>5. ASSUME enc.state = "OK", enc.signal # <<>>,
             NEW f \in Faults(FrameFaults), NEW size \in FrameSizes,
             NEW wrong \in {FALSE, Miscodes}, NEW r,
             r = ProcessFrame(last, tables, out, wrong, size, f),
             enc' = r.enc, tables' = r.tables, out' = r.out,
             call' = Ends(r), history' = Counted(f, wrong, r)
      PROVE  IInv'
  <2>1. wrong \in BOOLEAN /\ size \in Nat
    <3>1. wrong \in BOOLEAN
      BY EncoderAssumption
    <3>2. size \in Nat
      BY EncoderAssumption
    <3> QED
      BY <3>1, <3>2
  <2>2. /\ SamplesAt(history, given, out, enc, <<>>) /\ enc.hint = "audio"
        /\ Len(enc.fifo) <= enc.fifoSize
    BY <1>3, <1>5 DEF IInv, Buffers, Control, Results
  <2>3. enc.signal \in Seq(Int) /\ Len(enc.signal) \in Nat /\ Len(enc.signal) # 0
    <3>1. enc.signal \in Seq(Int)
      BY <1>2 DEF EncoderType
    <3> QED
      BY <1>5, <3>1, EmptySeq
  <2>4. /\ EncoderType(last) /\ last.state = "OK" /\ last.hint = "audio"
        /\ last.verify = enc.verify /\ last.signal = enc.signal
        /\ last.blocksize = Len(enc.signal) /\ last.fifo = enc.fifo
        /\ last.fifoSize = enc.fifoSize /\ last.frameNumber = enc.frameNumber
    BY <1>2, <1>5, <2>2, <2>3 DEF EncoderType, EncoderFields, Whole
  <2> HIDE DEF last
  <2>5. Ready(last)
    <3>1. last.blocksize \in 1..Len(last.signal)
      BY <2>3, <2>4
    <3> QED
      BY <2>2, <2>4, <3>1 DEF Ready
  <2>6. SamplesAt(history, given, out, last, <<>>)
    BY <2>2, <2>4 DEF SamplesAt
  <2>7. <<>> \in Seq(Int)
    OBVIOUS
  <2>8. /\ EncoderType(enc') /\ UnitsType(out') /\ HistoryType' /\ Results'
        /\ SettingsKept(last, enc') /\ Result(r)
        /\ r.ok => /\ enc'.state = "OK"
                   /\ enc'.signal = SubSeq(last.signal, last.blocksize + 1,
                                           Len(last.signal))
                   /\ SamplesAt(history', given, out', enc', <<>>)
        /\ ~r.ok => enc'.state \notin {"OK", "UNINITIALIZED"} /\ history'.failed
    BY <1>1, <1>2, <1>5, <2>1, <2>5, <2>6, <2>7, FrameStep
  <2>9. /\ CallType' /\ call'.op = "finish" /\ call'.error = ~r.ok
        /\ call'.todo # <<>> => enc'.state = "OK"
    BY <1>5, <2>8, EndsType DEF CallType, Result
  <2>10. Types'
    BY <1>1, <1>2, <2>8, <2>9 DEF Types
  <2>11. r.ok => enc'.signal = <<>> /\ Len(enc'.signal) = 0
    <3> DEFINE old == enc.signal
               none == SubSeq(old, Len(old) + 1, Len(old))
    <3>1. none = <<>> /\ Len(none) = 0
      BY <2>3, SubSeqEmpty
    <3>2. r.ok => enc'.signal = none
      BY <2>4, <2>8
    <3> HIDE DEF none
    <3> QED
      BY <3>1, <3>2
  <2>12. enc'.hint = "audio" /\ (enc'.state = "OK" => r.ok)
    BY <2>4, <2>8 DEF SettingsKept
  <2>13. Control'
    BY <1>1, <1>2, <2>8, <2>9, <2>11, <2>12 DEF Control
  <2>14. Buffers'
    <3>1. SUFFICES ASSUME enc'.state = "OK"
                   PROVE  /\ SamplesAt(history', given', out', enc', <<>>)
                          /\ Len(enc'.signal) <= enc'.blocksize
      BY <2>9 DEF Buffers, Todo
    <3>2. enc'.blocksize \in Nat
      BY <2>8 DEF EncoderType
    <3> QED
      BY <1>1, <2>8, <2>11, <2>12, <3>1, <3>2
  <2> QED
    BY <2>8, <2>10, <2>13, <2>14 DEF IInv
<1> QED
  BY <1>1, <1>4, <1>5

(* Writing a field of the header touches no frame.                         *)
LEMMA PatchedKeeps ==
    ASSUME NEW units, UnitsType(units), NEW offset,
           NEW type \in {"streaminfo", "seektable"},
           NEW field \in {"total", "sizes", "points"}, NEW value
    PROVE  LET more == Patched(units, offset, type, field, value)
           IN  UnitsType(more) /\ FramesOf(more) = FramesOf(units)
<1> DEFINE more == Patched(units, offset, type, field, value)
<1>1. CASE ~ \E i \in Starting(units, offset) : units[i].type = type
  <2> DEFINE ruined == [type |-> "ruined", size |-> 0]
  <2>1. more = Append(units, ruined)
    BY <1>1 DEF Patched
  <2>2. HeaderUnit(ruined) /\ ruined.type # "frame"
    BY DEF HeaderUnit
  <2> HIDE DEF ruined, more
  <2>3. UnitsType(more) /\ FramesOf(more) = FramesOf(units)
    BY <2>1, <2>2, UnitAppended
  <2> QED
    BY <2>3 DEF more
<1>2. CASE \E i \in Starting(units, offset) : units[i].type = type
  <2> DEFINE i == CHOOSE j \in Starting(units, offset) : units[j].type = type
             u == [units[i] EXCEPT ![field] = value]
             B == Items(units) \cup {u}
  <2>1. more = [units EXCEPT ![i] = u]
    BY <1>2 DEF Patched
  <2>2. i \in DOMAIN units /\ units[i].type = type
    BY <1>2 DEF Starting
  <2>3. units \in Seq(Items(units)) /\ \A v \in Items(units) : HeaderUnit(v) \/ Frame(v)
    BY DEF UnitsType
  <2> HIDE DEF i
  <2>4. i \in 1..Len(units) /\ units[i] \in Items(units)
    BY <2>2, <2>3 DEF Items
  <2>5. HeaderUnit(units[i])
    BY <2>2, <2>3, <2>4 DEF Frame
  <2>6. HeaderUnit(u) /\ u.type = units[i].type
    BY <2>5 DEF HeaderUnit
  <2> HIDE DEF u, more
  <2>7. units \in Seq(B) /\ u \in B
    BY <2>3, SeqMonotonic
  <2> HIDE DEF B
  <2>8. /\ more \in Seq(B) /\ Len(more) = Len(units)
        /\ \A j \in 1..Len(units) : more[j] = IF j = i THEN u ELSE units[j]
    BY <2>1, <2>4, <2>7
  <2>9. UnitsType(more)
    <3>1. more \in Seq(Items(more)) /\ Items(more) \subseteq B
      BY <2>8, OfItsItems
    <3> QED
      BY <2>3, <2>6, <3>1 DEF UnitsType, B
  <2>10. FramesOf(more) = FramesOf(units)
    <3>1. \A j \in 1..Len(units) :
            /\ more[j].type = units[j].type
            /\ units[j].type = "frame" => more[j] = units[j]
      BY <2>2, <2>6, <2>8
    <3> QED
      BY <2>3, <2>8, <3>1, FramesSame
  <2> QED
    BY <2>9, <2>10 DEF more
<1> QED
  BY <1>1, <1>2

LEMMA UpdateHeaderKeeps == ASSUME IInv, UpdateHeader PROVE IInv'
<1> DEFINE field == Head(call.todo)
           sorted == [tables EXCEPT ![enc.seekTable] = SortedPoints(@)]
           patched ==
               CASE field = "md5" -> out
                 [] field = "total" ->
                        Patched(out, enc.streaminfoOffset, "streaminfo",
                                "total", enc.streaminfo.total)
                 [] field = "sizes" ->
                        Patched(out, enc.streaminfoOffset, "streaminfo",
                                "sizes", <<enc.streaminfo.min, enc.streaminfo.max>>)
                 [] field = "points" ->
                        Patched(out, enc.seektableOffset, "seektable",
                                "points", sorted[enc.seekTable])
<1>1. /\ call.op = "finish" /\ call.todo # <<>> /\ UNCHANGED <<given, finish>>
      /\ \/ /\ call' = [call EXCEPT !.todo = <<>>]
            /\ UNCHANGED <<enc, out, history>>
         \/ \E f \in Faults({"none", "seek", "write"}) :
               LET r == IF f = "none" THEN Done(enc, tables, patched)
                        ELSE Failed(enc, tables, out, "CLIENT_ERROR")
               IN  /\ enc' = r.enc /\ out' = r.out
                   /\ call' = IF r.ok THEN [call EXCEPT !.todo = Tail(@)]
                              ELSE [call EXCEPT !.todo = <<>>, !.error = TRUE]
                   /\ history' = Counted(f, FALSE, r)
  BY DEF UpdateHeader
<1>2. /\ EncoderType(enc) /\ UnitsType(out) /\ HistoryType /\ finish # "true"
      /\ enc.verify \in BOOLEAN /\ Todo = <<>>
      /\ enc.signal = <<>> /\ enc.hint = "audio" /\ ~call.error /\ enc.state = "OK"
  BY <1>1 DEF IInv, Types, Control, EncoderType, NoCall, Todo
<1>3. call \in [op : {"finish"}, error : BOOLEAN, todo : Seq(Updates)]
  BY <1>1, CallByName DEF IInv, Types
<1>4. field \in Updates /\ Tail(call.todo) \in Seq(Updates)
  BY <1>1, <1>3, HeadTailProperties
<1>5. UnitsType(patched) /\ FramesOf(patched) = FramesOf(out)
  <2> HIDE DEF sorted, field
  <2>1. CASE field = "md5"
    BY <1>2, <2>1
  <2>2. CASE field = "total"
    <3>1. patched = Patched(out, enc.streaminfoOffset, "streaminfo",
                            "total", enc.streaminfo.total)
      BY <2>2
    <3> HIDE DEF patched
    <3> QED
      BY <1>2, <3>1, PatchedKeeps
  <2>3. CASE field = "sizes"
    <3> DEFINE sizes == <<enc.streaminfo.min, enc.streaminfo.max>>
    <3>1. patched = Patched(out, enc.streaminfoOffset, "streaminfo", "sizes", sizes)
      BY <2>3
    <3> HIDE DEF patched, sizes
    <3> QED
      BY <1>2, <3>1, PatchedKeeps
  <2>4. CASE field = "points"
    <3> DEFINE points == sorted[enc.seekTable]
    <3>1. patched = Patched(out, enc.seektableOffset, "seektable", "points", points)
      BY <2>4
    <3> HIDE DEF patched, points
    <3> QED
      BY <1>2, <3>1, PatchedKeeps
  <2> QED
    BY <1>4, <2>1, <2>2, <2>3, <2>4 DEF Updates
<1> HIDE DEF patched, sorted, field
<1>6. CASE call' = [call EXCEPT !.todo = <<>>] /\ UNCHANGED <<enc, out, history>>
  <2>1. /\ call' \in [op : {"finish"}, error : BOOLEAN, todo : Seq(Updates)]
        /\ call'.op = "finish" /\ call'.error = call.error
    <3>1. call' = [op |-> "finish", error |-> call.error, todo |-> <<>>]
      BY <1>3, <1>6
    <3>2. call.error \in BOOLEAN /\ <<>> \in Seq(Updates)
      BY <1>3
    <3> QED
      BY <3>1, <3>2
  <2>2. CallType' /\ Todo' = Todo
    BY <1>2, <2>1 DEF CallType, Todo
  <2>3. Control'
    BY <1>1, <1>2, <1>6, <2>1 DEF IInv, Control
  <2>4. Unmoved
    BY <1>1, <1>2, <1>6, <2>1, <2>2 DEF Unmoved, HistoryType
  <2> QED
    BY <2>2, <2>3, <2>4, UnmovedKeeps
<1>7. ASSUME NEW f \in Faults({"none", "seek", "write"}), NEW r,
             r = IF f = "none" THEN Done(enc, tables, patched)
                 ELSE Failed(enc, tables, out, "CLIENT_ERROR"),
             enc' = r.enc, out' = r.out,
             call' = IF r.ok THEN [call EXCEPT !.todo = Tail(@)]
                     ELSE [call EXCEPT !.todo = <<>>, !.error = TRUE],
             history' = Counted(f, FALSE, r)
      PROVE  IInv'
  <2>1. /\ Result(r) /\ Alright(enc, r.enc) /\ UnitsType(r.out)
        /\ FramesOf(r.out) = FramesOf(out)
        /\ r.ok => r.enc = enc
        /\ ~r.ok => r.enc.state = "CLIENT_ERROR"
    <3>1. CASE f = "none"
      <4>1. r = [enc |-> enc, tables |-> tables, out |-> patched, ok |-> TRUE]
        BY <1>7, <3>1 DEF Done
      <4>2. Result(r) /\ r.ok /\ r.enc = enc /\ r.out = patched
        BY <4>1 DEF Result
      <4> QED
        BY <1>2, <1>5, <4>2 DEF Alright, Kept
    <3>2. CASE f # "none"
      <4>1. r = Failed(enc, tables, out, "CLIENT_ERROR")
        BY <1>7, <3>2
      <4> QED
        BY <1>2, <4>1, OneFieldFailed
    <3> QED
      BY <3>1, <3>2
  <2>2. HistoryType' /\ CountedAs(history, FALSE, r, history')
    BY <1>2, <1>7, <2>1, HistoryCounted
  <2>3. r.enc.state = IF r.ok THEN "OK" ELSE "CLIENT_ERROR"
    BY <1>2, <2>1
  <2>4. /\ call' \in [op : {"finish"}, error : BOOLEAN, todo : Seq(Updates)]
        /\ call'.op = "finish" /\ call'.error = ~r.ok
        /\ ~r.ok => call'.todo = <<>>
    <3> DEFINE todo == IF r.ok THEN Tail(call.todo) ELSE <<>>
    <3>1. call' = [op |-> "finish", error |-> ~r.ok, todo |-> todo]
      <4>1. call.error = FALSE
        BY <1>2, <1>3
      <4>2. CASE r.ok
        <5>1. call' = [call EXCEPT !.todo = Tail(call.todo)]
          BY <1>7, <4>2
        <5> QED
          BY <1>3, <2>1, <4>1, <4>2, <5>1 DEF Result
      <4>3. CASE ~r.ok
        <5>1. call' = [call EXCEPT !.todo = <<>>, !.error = TRUE]
          BY <1>7, <4>3
        <5> QED
          BY <1>3, <2>1, <4>3, <5>1 DEF Result
      <4> QED
        BY <4>2, <4>3
    <3>2. todo \in Seq(Updates) /\ (~r.ok => todo = <<>>)
      BY <1>4
    <3> HIDE DEF todo
    <3> QED
      BY <2>1, <3>1, <3>2 DEF Result
  <2>5. CallType' /\ Todo' = Todo
    BY <1>2, <2>4 DEF CallType, Todo
  <2>6. /\ history'.miscoded = history.miscoded
        /\ history'.unverified = history.unverified
        /\ history'.mismatch = history.mismatch /\ (history.failed => history'.failed)
        /\ (~r.ok => history'.failed)
    BY <1>2, <2>1, <2>2, <2>3 DEF CountedAs, HistoryType, Result
  <2>7. /\ EncoderType(enc') /\ enc'.signal = enc.signal /\ enc'.fifo = enc.fifo
        /\ enc'.verify = enc.verify /\ enc'.blocksize = enc.blocksize
        /\ enc'.fifoSize = enc.fifoSize /\ enc'.frameNumber = enc.frameNumber
        /\ enc'.hint = "audio"
    BY <1>2, <1>7, <2>1 DEF Alright, Kept
  <2>8. Control'
    BY <1>1, <1>2, <1>7, <2>1, <2>3, <2>4, <2>6, <2>7 DEF Control, Result
  <2>9. Unmoved
    BY <1>1, <1>2, <1>7, <2>1, <2>2, <2>4, <2>5, <2>6, <2>7 DEF Unmoved
  <2> QED
    BY <2>5, <2>8, <2>9, UnmovedKeeps
<1> QED
  BY <1>1, <1>6, <1>7

(* What is left of an encoder that is finished or deleted.                 *)
LEMMA ResetType ==
    ASSUME EncoderType(enc), NEW state, NEW d,
           d = WithDefaults([enc EXCEPT !.state = state, !.signal = <<>>, !.fifo = <<>>,
                                        !.file = "closed"])
    PROVE  /\ EncoderType(d) /\ d.state = state /\ d.fifo = <<>>
           /\ d.fifoSize = enc.fifoSize
<1> DEFINE e == [enc EXCEPT !.state = state, !.signal = <<>>, !.fifo = <<>>,
                            !.file = "closed"]
<1>1. Whole(enc)
  BY DEF EncoderType
<1>2. /\ Whole(e) /\ e.state = state /\ e.signal = <<>> /\ e.fifo = <<>>
      /\ e.fifoSize = enc.fifoSize /\ e.frameNumber = enc.frameNumber
      /\ e.streaminfo = enc.streaminfo
  BY <1>1 DEF EncoderFields, Whole
<1>3. d = [e EXCEPT !.verify = FALSE, !.blocksize = 0, !.valid = TRUE, !.metadata = <<>>,
                    !.seekTable = NoTable, !.client = "none"]
  BY DEF WithDefaults
<1> HIDE DEF e
<1>4. /\ Whole(d) /\ d.verify = FALSE /\ d.blocksize = 0 /\ d.metadata = <<>>
      /\ d.state = e.state /\ d.signal = e.signal /\ d.fifo = e.fifo
      /\ d.fifoSize = e.fifoSize /\ d.frameNumber = e.frameNumber
      /\ d.streaminfo = e.streaminfo
  BY <1>2, <1>3 DEF EncoderFields, Whole
<1>5. /\ enc.fifoSize \in Nat /\ enc.frameNumber \in Nat
      /\ enc.streaminfo \in [total : Nat, min : Nat, max : Nat]
  BY DEF EncoderType
<1>6. <<>> \in Seq(Blocks) /\ <<>> \in Seq(Int)
  OBVIOUS
<1>7. /\ d.signal \in Seq(Int) /\ d.fifo \in Seq(Int) /\ d.metadata \in Seq(Blocks)
      /\ d.state = state /\ d.fifo = <<>> /\ d.fifoSize = enc.fifoSize
  BY <1>2, <1>4, <1>6, Zenon
<1>8. /\ d.verify \in BOOLEAN /\ d.blocksize \in Nat /\ d.fifoSize \in Nat
      /\ d.frameNumber \in Nat /\ d.streaminfo \in [total : Nat, min : Nat, max : Nat]
  <2>1. FALSE \in BOOLEAN /\ 0 \in Nat
    OBVIOUS
  <2> QED
    BY <1>2, <1>4, <1>5, <2>1, Zenon
<1> QED
  BY <1>4, <1>7, <1>8, Zenon DEF EncoderType

LEMMA FinishReturnsKeeps == ASSUME IInv, FinishReturns PROVE IInv'
<1> DEFINE state == IF call.error THEN enc.state ELSE "UNINITIALIZED"
<1>1. /\ call.op = "finish" /\ call' = NoCall
      /\ enc' = WithDefaults([enc EXCEPT
                  !.state = IF call.error THEN @ ELSE "UNINITIALIZED",
                  !.signal = <<>>, !.fifo = <<>>, !.file = "closed"])
      /\ finish' = IF call.error THEN "false" ELSE "true"
      /\ UNCHANGED <<tables, out, given, history>>
  BY DEF FinishReturns
<1>2. /\ EncoderType(enc) /\ UnitsType(out) /\ HistoryType /\ given \in Seq(Int)
      /\ Results /\ Todo = <<>> /\ enc.fifoSize \in Nat
      /\ enc.state # "UNINITIALIZED" /\ (enc.state = "OK" => enc.signal = <<>>)
      /\ (call.error => enc.state # "OK")
      /\ (enc.state \notin {"OK", "UNINITIALIZED"} => history.failed)
  BY <1>1 DEF IInv, Types, Control, EncoderType, Todo
<1>3. /\ EncoderType(enc') /\ enc'.state = state /\ enc'.fifo = <<>>
      /\ enc'.fifoSize = enc.fifoSize
  <2>1. enc' = WithDefaults([enc EXCEPT !.state = state, !.signal = <<>>, !.fifo = <<>>,
                                        !.file = "closed"])
    BY <1>1
  <2> HIDE DEF state
  <2> QED
    BY <1>2, <2>1, ResetType
<1>4. CallType' /\ call'.op = "none"
  BY <1>1 DEF CallType, NoCall
<1>5. Types'
  BY <1>1, <1>2, <1>3, <1>4 DEF Types, HistoryType
<1>6. enc'.state # "OK" /\ (finish' = "true" => enc'.state = "UNINITIALIZED")
      /\ (enc'.state # "UNINITIALIZED" => history.failed)
  BY <1>1, <1>2, <1>3
<1>7. Control' /\ Buffers'
  BY <1>1, <1>4, <1>6 DEF Control, Buffers
<1>8. ~history.failed => /\ Len(given) = Len(Audio)
                         /\ ~history.unverified => given = Audio
  <2>1. SUFFICES ASSUME ~history.failed
                 PROVE  Len(given) = Len(Audio) /\ (~history.unverified => given = Audio)
    OBVIOUS
  <2>2. enc.state = "OK" /\ enc.signal = <<>>
    BY <1>2, <2>1
  <2>3. SamplesAt(history, given, out, enc, <<>>)
    BY <1>2, <2>2 DEF IInv, Buffers
  <2>4. Audio \in Seq(Int)
    BY <1>2, AudioOfUnits DEF Audio, Frames
  <2>5. /\ ~history.unverified => given = (Audio \o <<>>) \o <<>>
        /\ Len(given) = Len(Audio) + Len(<<>>) + Len(<<>>)
    BY <2>2, <2>3 DEF SamplesAt, Audio, Frames
  <2>6. Audio \o <<>> = Audio /\ Len(<<>>) = 0 /\ Len(Audio) \in Nat
    BY <2>4, ConcatEmptySeq
  <2> QED
    BY <2>5, <2>6
<1>9. Results'
  <2>1. Len(enc'.fifo) <= enc'.fifoSize
    <3>1. Len(<<>>) = 0
      OBVIOUS
    <3> QED
      BY <1>2, <1>3, <3>1
  <2> QED
    BY <1>1, <1>2, <1>8, <2>1 DEF Results, Audio, Frames
<1> QED
  BY <1>5, <1>7, <1>9 DEF IInv

LEMMA DeleteKeeps == ASSUME IInv, Delete PROVE IInv'
<1>1. /\ call = NoCall /\ finish' = "deleted"
      /\ enc' = IF enc.state = "UNINITIALIZED" THEN enc
                ELSE WithDefaults([enc EXCEPT !.state = "UNINITIALIZED",
                                              !.signal = <<>>, !.fifo = <<>>,
                                              !.file = "closed"])
      /\ UNCHANGED <<tables, out, call, given, history>>
  BY DEF Delete
<1>2. EncoderType(enc) /\ Results /\ enc.fifoSize \in Nat
  BY DEF IInv, Types, EncoderType
<1>3. EncoderType(enc') /\ enc'.state = "UNINITIALIZED" /\ Len(enc'.fifo) <= enc'.fifoSize
  <2>1. CASE enc.state = "UNINITIALIZED"
    BY <1>1, <1>2, <2>1 DEF Results
  <2>2. CASE enc.state # "UNINITIALIZED"
    <3>1. /\ EncoderType(enc') /\ enc'.state = "UNINITIALIZED" /\ enc'.fifo = <<>>
          /\ enc'.fifoSize = enc.fifoSize
      BY <1>1, <1>2, <2>2, ResetType
    <3>2. Len(<<>>) = 0
      OBVIOUS
    <3> QED
      BY <1>2, <3>1, <3>2
  <2> QED
    BY <2>1, <2>2
<1>4. call.op = "none"
  BY <1>1 DEF NoCall
<1>5. Types'
  BY <1>1, <1>3 DEF IInv, Types, CallType, HistoryType
<1>6. Control' /\ Buffers'
  BY <1>1, <1>3, <1>4 DEF Control, Buffers
<1>7. Results'
  BY <1>1, <1>2, <1>3 DEF Results, Audio, Frames
<1> QED
  BY <1>5, <1>6, <1>7 DEF IInv

LEMMA StutteringKeeps == ASSUME IInv, UNCHANGED vars PROVE IInv'
<1>1. UNCHANGED <<enc, out, call, given, finish, history>>
  BY DEF vars
<1>2. Types'
  BY <1>1 DEF IInv, Types, CallType, HistoryType
<1>3. Control' /\ Buffers'
  BY <1>1 DEF IInv, Control, Buffers, Todo
<1>4. Results'
  BY <1>1 DEF IInv, Results, Audio, Frames
<1> QED
  BY <1>2, <1>3, <1>4 DEF IInv

-----------------------------------------------------------------------------
(* The invariant holds in every state of every encoder: after any calls of  *)
(* the client, with any failures (stream_encoder.c).                        *)
THEOREM InductiveInvariant == Spec => []IInv
<1>1. ASSUME IInv, [Next]_vars PROVE IInv'
  BY <1>1, SettersKeep, InitStreamKeeps, WriteHeaderUnitKeeps, HeaderWrittenKeeps,
     ProcessKeeps, ProcessChunkKeeps, FinishKeeps, UpdateHeaderKeeps,
     FinishReturnsKeeps, DeleteKeeps, StutteringKeeps
  DEF Next
<1> QED
  BY <1>1, Begins, PTL DEF Spec

(* An encoder that does not see a miscoded frame does not report one, its   *)
(* fifo has room for what it is given, and holds at every moment exactly    *)
(* the samples that are buffered and not in a frame yet                     *)
(* (append_to_verify_fifo_, verify_write_callback_).                        *)
THEOREM NoFalseAlarmHolds == Spec => []NoFalseAlarm
<1>1. ASSUME IInv PROVE NoFalseAlarm
  <2>1. history.mismatch => history.miscoded
    BY <1>1 DEF IInv, Results
  <2>2. Len(enc.fifo) <= enc.fifoSize
    BY <1>1 DEF IInv, Results
  <2>3. SUFFICES ASSUME enc.state = "OK", enc.verify, ~history.miscoded
                 PROVE  enc.fifo = SubSeq(given, Len(Audio) + 1, Len(given) - Len(Todo))
    <3>1. Len(Todo) = IF call.op = "process" THEN Len(call.todo) ELSE 0
      BY DEF Todo
    <3> QED
      BY <2>1, <2>2, <3>1 DEF NoFalseAlarm
  <2>4. /\ given = (Audio \o enc.signal) \o Todo /\ enc.fifo = enc.signal
    BY <1>1, <2>3 DEF IInv, Results, Buffers, SamplesAt, Audio, Frames
  <2>5. Audio \in Seq(Int) /\ enc.signal \in Seq(Int) /\ Todo \in Seq(Int)
    <3>1. Todo \in Seq(Int)
      <4>1. call.op = "process" => call.todo \in Seq(Int)
        BY <1>1, CallByName DEF IInv, Types
      <4> QED
        BY <4>1 DEF Todo
    <3> QED
      BY <1>1, <3>1, AudioOfUnits DEF IInv, Types, EncoderType, Audio, Frames
  <2>6. SubSeq((Audio \o enc.signal) \o Todo, Len(Audio) + 1,
               Len((Audio \o enc.signal) \o Todo) - Len(Todo)) = enc.signal
    BY <2>5, MiddlePart
  <2> QED
    BY <2>4, <2>6
<1> QED
  BY <1>1, InductiveInvariant, PTL

(* Whatever the sizes of its calls and blocks, whatever fails: the frames   *)
(* that were written decode to the beginning of the signal, numbered        *)
(* without a gap, and to all of it when finish succeeds and nothing failed  *)
(* before; the one exception is a coder that goes wrong unverified          *)
(* (process_frame_, verify_write_callback_).                                *)
THEOREM LosslessHolds == Spec => []Lossless
<1>1. ASSUME IInv PROVE Lossless
  BY <1>1 DEF IInv, Results, Lossless, Numbered
<1> QED
  BY <1>1, InductiveInvariant, PTL

-----------------------------------------------------------------------------
(* The header.                                                             *)
(* The units of the header that are blocks of metadata.                    *)
Block(u) ==
    /\ {"type", "size", "last"} \subseteq DOMAIN u
    /\ u.type \notin {"magic", "frame", "ruined"}

(* A stream: the magic number, STREAMINFO, other blocks, one of them marked *)
(* as the last, and frames.                                                *)
Layout(units) ==
    /\ Len(units) >= 2 /\ {"total", "sizes"} \subseteq DOMAIN units[2]
    /\ units[1].type = "magic"
    /\ \A i \in 1..Len(units) :
          /\ i = 2 <=> units[i].type = "streaminfo"
          /\ i > 1 => Block(units[i]) \/ units[i].type = "frame"
          /\ Block(units[i]) =>
                units[i].last <=> (\A j \in 1..Len(units) : Block(units[j]) => j <= i)

FrameLengths(units) == {FramesOf(units)[i].size : i \in DOMAIN FramesOf(units)}

Extremes(units, min, max) ==
    LET lengths == FrameLengths(units)
    IN  /\ lengths \subseteq FrameSizes
        /\ IF lengths = {} THEN min = NoMinimum /\ max = 0
           ELSE /\ min \in lengths /\ \A s \in lengths : min <= s
                /\ max \in lengths /\ \A s \in lengths : s <= max

(* What STREAMINFO says of the stream, in the encoder and in the header.   *)
Measured(e, units) ==
    /\ e.streaminfo.total = Len(AudioOf(FramesOf(units)))
    /\ Extremes(units, e.streaminfo.min, e.streaminfo.max)

TotalTrue(units) == units[2].total = Len(AudioOf(FramesOf(units)))
SizesTrue(units) == Extremes(units, units[2].sizes[1], units[2].sizes[2])

(* Where the encoder remembers a unit, there is one.                       *)
Found(units, offset, type) == \E i \in Starting(units, offset) : units[i].type = type

(* The header units that initialization still has to write.                *)
Pending == IF call.op = "init" THEN call.todo ELSE <<>>

(* What is left to update, and what has been.                              *)
Due(todo, units) ==
    \/ todo = <<"md5", "total", "sizes", "points">>
    \/ todo = <<"total", "sizes", "points">>
    \/ todo = <<"sizes", "points">> /\ TotalTrue(units)
    \/ todo \in {<<"points">>, <<>>} /\ TotalTrue(units) /\ SizesTrue(units)

Streaming(e, units) ==
    /\ 2 <= Len(units) => Measured(e, units)
    /\ e.client = "file" /\ 2 <= Len(units) => Found(units, e.streaminfoOffset, "streaminfo")
    /\ e.client = "file" /\ e.seektableOffset # 0 =>
          Found(units, e.seektableOffset, "seektable")

NotRuined == \A i \in 1..Len(out) : out[i].type # "ruined"

HeaderBegun ==
    enc.state = "OK" =>
        /\ enc.client = history.client /\ ~history.failed
        /\ Layout(out \o Pending)
        /\ Streaming(enc, out)
        /\ call.op = "init" => Frames = <<>>
        /\ call.op = "finish" /\ enc.client = "file" => Due(call.todo, out)

HeaderDone ==
    finish = "true" /\ ~history.failed /\ history.client = "file" =>
        Layout(out) /\ TotalTrue(out) /\ SizesTrue(out)

HeaderInv == NotRuined /\ HeaderBegun /\ HeaderDone

(* The position depends on the sizes only.                                 *)
LEMMA PositionSame ==
    ASSUME NEW units, NEW others, Len(others) = Len(units), Len(units) \in Nat,
           \A i \in 1..Len(units) : others[i].size = units[i].size
    PROVE  Position(others) = Position(units)
<1> DEFINE n == Len(units)
           Body(s, f) == [j \in 0..n |-> IF j = 0 THEN 0 ELSE f[j - 1] + s[j].size]
<1>1. \A f : Body(others, f) = Body(units, f)
  OBVIOUS
<1>2. Position(units) = (CHOOSE f : f = Body(units, f))[n]
  BY DEF Position
<1>3. Position(others) = (CHOOSE f : f = Body(others, f))[n]
  BY DEF Position
<1> HIDE DEF Body
<1>4. (CHOOSE f : f = Body(units, f)) = (CHOOSE f : f = Body(others, f))
  BY <1>1, Zenon
<1> QED
  BY <1>2, <1>3, <1>4

(* A beginning of a sequence, and of a longer or changed one.              *)
LEMMA Beginning ==
    ASSUME NEW A, NEW s \in Seq(A), NEW i \in 1..(Len(s) + 1)
    PROVE  LET p == SubSeq(s, 1, i - 1)
           IN  p \in Seq(A) /\ Len(p) = i - 1 /\ \A j \in 1..(i - 1) : p[j] = s[j]
<1>1. Len(s) \in Nat /\ i - 1 \in 0..Len(s) /\ i - 1 \in Int
  OBVIOUS
<1>2. \A j \in 1..(i - 1) : s[j] \in A
  BY <1>1
<1> QED
  BY <1>1, <1>2, SubSeqProperties

LEMMA SameBeginning ==
    ASSUME NEW A, NEW s \in Seq(A), NEW t \in Seq(A), NEW i \in 1..(Len(s) + 1),
           Len(s) <= Len(t), \A j \in 1..Len(s) : t[j] = s[j]
    PROVE  SubSeq(t, 1, i - 1) = SubSeq(s, 1, i - 1)
<1> DEFINE p == SubSeq(s, 1, i - 1)
           q == SubSeq(t, 1, i - 1)
<1>1. Len(s) \in Nat /\ Len(t) \in Nat /\ i \in 1..(Len(t) + 1)
  OBVIOUS
<1>2. p \in Seq(A) /\ Len(p) = i - 1 /\ \A j \in 1..(i - 1) : p[j] = s[j]
  BY Beginning
<1>3. q \in Seq(A) /\ Len(q) = i - 1 /\ \A j \in 1..(i - 1) : q[j] = t[j]
  BY <1>1, Beginning
<1> HIDE DEF p, q
<1>4. \A j \in 1..Len(p) : p[j] = q[j]
  BY <1>1, <1>2, <1>3
<1>5. p = q
  BY <1>2, <1>3, <1>4, SeqEqual
<1> QED
  BY <1>5 DEF p, q

(* What was found stays where it was when a unit is appended, and the new   *)
(* unit is found where the others ended.                                   *)
LEMMA FoundAppended ==
    ASSUME NEW units, UnitsType(units), NEW u, HeaderUnit(u) \/ Frame(u)
    PROVE  LET more == Append(units, u)
           IN  /\ \A offset, type :
                     Found(units, offset, type) => Found(more, offset, type)
               /\ Found(more, Position(units), u.type)
<1> DEFINE A == Items(units) \cup {u}
           more == Append(units, u)
           n == Len(units)
<1>1. units \in Seq(A) /\ u \in A
  BY SeqMonotonic DEF UnitsType
<1>2. more \in Seq(A) /\ Len(more) = n + 1 /\ n \in Nat
      /\ DOMAIN more = 1..(n + 1) /\ DOMAIN units = 1..n
  BY <1>1
<1>3. more[n + 1] = u /\ \A i \in 1..n : more[i] = units[i]
  BY <1>1, AppendProperties
<1> HIDE DEF A, more
<1>4. \A i \in 1..(n + 1) : SubSeq(more, 1, i - 1) = SubSeq(units, 1, i - 1)
  BY <1>1, <1>2, <1>3, SameBeginning
<1>5. ASSUME NEW offset, NEW type, Found(units, offset, type)
      PROVE  Found(more, offset, type)
  <2>1. PICK i \in 1..n : Position(SubSeq(units, 1, i - 1)) = offset /\ units[i].type = type
    BY <1>2, <1>5 DEF Found, Starting
  <2>2. i \in 1..(n + 1)
    BY <1>2
  <2>3. i \in Starting(more, offset) /\ more[i].type = type
    BY <1>2, <1>3, <1>4, <2>1, <2>2 DEF Starting
  <2> QED
    BY <2>3 DEF Found
<1>6. Found(more, Position(units), u.type)
  <2>1. SubSeq(units, 1, n) = units /\ n + 1 \in 1..(n + 1) /\ n + 1 - 1 = n
    BY <1>1, <1>2, SubSeqFull
  <2>2. n + 1 \in Starting(more, Position(units))
    <3>1. SubSeq(more, 1, (n + 1) - 1) = SubSeq(units, 1, (n + 1) - 1)
      BY <1>4, <2>1
    <3>2. SubSeq(more, 1, (n + 1) - 1) = units
      BY <2>1, <3>1
    <3> QED
      BY <1>2, <2>1, <3>2, Zenon DEF Starting
  <2> QED
    BY <1>3, <2>2 DEF Found
<1> QED
  BY <1>5, <1>6 DEF more

LEMMA LayoutAppended ==
    ASSUME NEW units, UnitsType(units), Layout(units), NEW u, Frame(u)
    PROVE  Layout(Append(units, u))
<1> DEFINE A == Items(units) \cup {u}
           more == Append(units, u)
           n == Len(units)
<1>1. units \in Seq(A) /\ u \in A
  BY SeqMonotonic DEF UnitsType
<1>2. more \in Seq(A) /\ Len(more) = n + 1 /\ n \in Nat /\ n >= 2
  BY <1>1 DEF Layout
<1>3. more[n + 1] = u /\ \A i \in 1..n : more[i] = units[i]
  BY <1>1, AppendProperties
<1>4. u.type = "frame" /\ ~Block(u)
  BY DEF Frame, Block
<1> HIDE DEF A, more
<1>5. more[1].type = "magic" /\ {"total", "sizes"} \subseteq DOMAIN more[2]
  <2>1. more[1] = units[1] /\ more[2] = units[2]
    BY <1>2, <1>3
  <2> QED
    BY <2>1 DEF Layout
<1>6. \A i \in 1..Len(more) : i \in 1..n \/ i = n + 1
  BY <1>2
<1>7. \A i \in 1..n : i \in 1..Len(more)
  BY <1>2
<1>8. ASSUME NEW i \in 1..Len(more)
      PROVE  /\ i = 2 <=> more[i].type = "streaminfo"
             /\ i > 1 => Block(more[i]) \/ more[i].type = "frame"
             /\ Block(more[i]) =>
                   (more[i].last <=> \A j \in 1..Len(more) : Block(more[j]) => j <= i)
  <2>1. CASE i = n + 1
    BY <1>2, <1>3, <1>4, <2>1
  <2>2. CASE i \in 1..n
    <3>1. more[i] = units[i]
      BY <1>3, <2>2
    <3>2. (\A j \in 1..Len(more) : Block(more[j]) => j <= i)
          <=> (\A j \in 1..n : Block(units[j]) => j <= i)
      BY <1>3, <1>4, <1>6, <1>7
    <3>3. /\ i = 2 <=> units[i].type = "streaminfo"
          /\ i > 1 => Block(units[i]) \/ units[i].type = "frame"
          /\ Block(units[i]) =>
                (units[i].last <=> \A j \in 1..n : Block(units[j]) => j <= i)
      BY <2>2 DEF Layout
    <3> QED
      BY <3>1, <3>2, <3>3
  <2> QED
    BY <1>6, <2>1, <2>2
<1>9. Len(more) >= 2
  BY <1>2
<1>10. Layout(more)
  BY <1>5, <1>8, <1>9 DEF Layout
<1> QED
  BY <1>10 DEF more

(* Writing a field of the header that is found where it should be.         *)
Rewritten(units, more, type, field, value) ==
    /\ UnitsType(more) /\ Len(more) = Len(units) /\ FramesOf(more) = FramesOf(units)
    /\ \A i \in 1..Len(units) : more[i].type = units[i].type
    /\ Layout(more)
    /\ \A o, t : Found(units, o, t) => Found(more, o, t)
    /\ type = "streaminfo" =>
          more[2] = [units[2] EXCEPT ![field] = value]
    /\ type # "streaminfo" => more[2] = units[2]

LEMMA PatchedRewrites ==
    ASSUME NEW units, UnitsType(units), Layout(units), NEW offset,
           NEW type \in {"streaminfo", "seektable"}, Found(units, offset, type),
           NEW field \in {"total", "sizes", "points"}, NEW value
    PROVE  Rewritten(units, Patched(units, offset, type, field, value), type, field, value)
<1> DEFINE more == Patched(units, offset, type, field, value)
           n == Len(units)
           i == CHOOSE j \in Starting(units, offset) : units[j].type = type
           u == [units[i] EXCEPT ![field] = value]
           B == Items(units) \cup {u}
<1>1. i \in Starting(units, offset) /\ units[i].type = type
  BY DEF Found
<1>2. more = [units EXCEPT ![i] = u]
  BY DEF Found, Patched
<1>3. units \in Seq(Items(units)) /\ n \in Nat /\ DOMAIN units = 1..n
  BY DEF UnitsType
<1>4. i \in 1..n
  BY <1>1, <1>3 DEF Starting
<1> HIDE DEF i
<1>5. Block(units[i])
  <2>1. i > 1
    <3>1. i # 1
      BY <1>1 DEF Layout
    <3> QED
      BY <1>3, <1>4, <3>1
  <2> QED
    BY <1>1, <1>4, <2>1 DEF Layout
<1>6. /\ Block(u) /\ u.type = units[i].type /\ u.size = units[i].size
      /\ u.last = units[i].last
  BY <1>5 DEF Block
<1>7. /\ DOMAIN u = DOMAIN units[i]
  OBVIOUS
<1> HIDE DEF u
<1>8. units \in Seq(B) /\ u \in B
  BY <1>3, SeqMonotonic
<1> HIDE DEF B
<1>9. /\ more \in Seq(B) /\ Len(more) = n /\ DOMAIN more = 1..n
      /\ \A j \in 1..n : more[j] = IF j = i THEN u ELSE units[j]
  BY <1>2, <1>3, <1>4, <1>8
<1> HIDE DEF more
<1>10. /\ \A j \in 1..n : more[j].type = units[j].type
       /\ \A j \in 1..n : more[j].size = units[j].size
       /\ \A j \in 1..n : Block(more[j]) <=> Block(units[j])
       /\ \A j \in 1..n : more[j].last = units[j].last
  BY <1>5, <1>6, <1>9
<1>11. UnitsType(more) /\ FramesOf(more) = FramesOf(units)
  BY PatchedKeeps DEF more
<1>12. Len(units) >= 2 /\ units[1].type = "magic"
       /\ {"total", "sizes"} \subseteq DOMAIN units[2]
       /\ 1 \in 1..n /\ 2 \in 1..n
  BY <1>3 DEF Layout
<1>13. Layout(more)
  <2>1. more[1].type = "magic"
    BY <1>10, <1>12
  <2>2. DOMAIN more[2] = DOMAIN units[2]
    BY <1>7, <1>9, <1>12
  <2>3. ASSUME NEW j \in 1..n
        PROVE  /\ j = 2 <=> more[j].type = "streaminfo"
               /\ j > 1 => Block(more[j]) \/ more[j].type = "frame"
               /\ Block(more[j]) =>
                     (more[j].last <=> \A k \in 1..n : Block(more[k]) => k <= j)
    <3>1. /\ j = 2 <=> units[j].type = "streaminfo"
          /\ j > 1 => Block(units[j]) \/ units[j].type = "frame"
          /\ Block(units[j]) =>
                (units[j].last <=> \A k \in 1..n : Block(units[k]) => k <= j)
      BY DEF Layout
    <3>2. (\A k \in 1..n : Block(more[k]) => k <= j)
          <=> (\A k \in 1..n : Block(units[k]) => k <= j)
      BY <1>10
    <3> QED
      BY <1>10, <3>1, <3>2
  <2> QED
    BY <1>9, <1>12, <2>1, <2>2, <2>3 DEF Layout
<1>14. ASSUME NEW o, NEW t, Found(units, o, t) PROVE Found(more, o, t)
  <2>1. PICK k \in 1..n : Position(SubSeq(units, 1, k - 1)) = o /\ units[k].type = t
    BY <1>3, <1>14 DEF Found, Starting
  <2> DEFINE p == SubSeq(units, 1, k - 1)
             q == SubSeq(more, 1, k - 1)
  <2>2. k \in 1..(n + 1) /\ k - 1 \in Nat /\ 1..(k - 1) \subseteq 1..n
    BY <1>3
  <2>3. Len(p) = k - 1 /\ \A j \in 1..(k - 1) : p[j] = units[j]
    BY <1>3, <2>2, Beginning
  <2>4. Len(q) = k - 1 /\ \A j \in 1..(k - 1) : q[j] = more[j]
    BY <1>9, <2>2, Beginning
  <2> HIDE DEF p, q
  <2>5. \A j \in 1..Len(p) : q[j].size = p[j].size
    BY <1>10, <2>2, <2>3, <2>4
  <2>6. Position(q) = Position(p)
    BY <2>2, <2>3, <2>4, <2>5, PositionSame
  <2>7. k \in Starting(more, o) /\ more[k].type = t
    BY <1>9, <1>10, <2>1, <2>6 DEF Starting, p, q
  <2> QED
    BY <2>7 DEF Found
<1>15. type = "streaminfo" => i = 2
  BY <1>1, <1>4 DEF Layout
<1>16. type # "streaminfo" => i # 2
  BY <1>1, <1>12 DEF Layout
<1>17. /\ type = "streaminfo" => more[2] = [units[2] EXCEPT ![field] = value]
       /\ type # "streaminfo" => more[2] = units[2]
  BY <1>9, <1>12, <1>15, <1>16 DEF u
<1>18. Rewritten(units, more, type, field, value)
  BY <1>9, <1>10, <1>11, <1>13, <1>14, <1>17 DEF Rewritten
<1> QED
  BY <1>18 DEF more

(* Two sequences, one after the other.                                     *)
Joint(S, a, b, k, m) ==
    /\ a \o b \in Seq(S) /\ Len(a \o b) = k + m
    /\ \A i \in 1..(k + m) : (a \o b)[i] = IF i <= k THEN a[i] ELSE b[i - k]

LEMMA ConcatJoint ==
    ASSUME NEW S, NEW a \in Seq(S), NEW b \in Seq(S)
    PROVE  Joint(S, a, b, Len(a), Len(b))
  BY ConcatProperties DEF Joint

(* The header that initialization sets out to write is one of a stream:     *)
(* STREAMINFO is second, and the last of its blocks is marked.             *)
LEMMA HeaderLayout ==
    ASSUME NEW e, EncoderType(e), LegalMetadata(e.metadata)
    PROVE  Layout(HeaderUnits(e))
<1> DEFINE list == e.metadata
           info == [type |-> "streaminfo", size |-> 1, last |-> FALSE,
                    total |-> 0, sizes |-> <<0, 0>>]
           comment == [type |-> "vorbis", size |-> 1, last |-> list = <<>>]
           magic == [type |-> "magic", size |-> 1]
           it(i) == LET last == i = Len(list)
                    IN  IF list[i].type = "seektable"
                        THEN [type |-> "seektable", size |-> 1, last |-> last,
                              points |-> tables[list[i].table]]
                        ELSE [type |-> list[i].type, size |-> 1, last |-> last]
           begin == <<magic, info>>
           middle == IF OfType(list, "vorbis") = {} THEN <<comment>> ELSE <<>>
           end == [i \in DOMAIN list |-> it(i)]
           U == {magic, info, comment} \cup {it(i) : i \in 1..Len(list)}
           front == begin \o middle
           units == front \o end
           n == Len(list)
           h == Len(middle)
           all == 2 + h + n
<1>1. list \in Seq(Blocks) /\ n \in Nat /\ DOMAIN list = 1..n
  BY DEF EncoderType
<1>2. ~Block(magic) /\ magic.type = "magic"
  BY DEF Block
<1>3. /\ Block(info) /\ info.type = "streaminfo" /\ info.last = FALSE
      /\ {"total", "sizes"} \subseteq DOMAIN info
  BY DEF Block
<1>4. Block(comment) /\ comment.type = "vorbis" /\ (comment.last <=> n = 0)
  <2>1. comment.last = (list = <<>>)
    OBVIOUS
  <2>2. list = <<>> <=> n = 0
    BY <1>1, EmptySeq
  <2> QED
    BY <2>1, <2>2 DEF Block
<1>5. ASSUME NEW i \in 1..n
      PROVE  /\ Block(it(i)) /\ it(i).type # "streaminfo"
             /\ it(i).last <=> i = n
  <2>1. list[i].type \in {"seektable", "padding", "application", "vorbis", "cuesheet",
                          "picture"}
    <3>1. list[i] \in Blocks
      BY <1>1
    <3>2. list[i].type # "streaminfo"
      BY <1>1 DEF LegalMetadata, OfType
    <3> QED
      BY <3>1, <3>2 DEF Blocks
  <2> HIDE DEF list
  <2>2. CASE list[i].type = "seektable"
    BY <2>2 DEF Block
  <2>3. CASE list[i].type # "seektable"
    BY <2>1, <2>3 DEF Block
  <2> QED
    BY <2>2, <2>3
<1>6. HeaderUnits(e) = units
  BY DEF HeaderUnits
<1>7. h \in {0, 1} /\ (h = 0 => n > 0) /\ (h = 1 => middle = <<comment>>)
  <2>1. CASE OfType(list, "vorbis") = {}
    <3>1. middle = <<comment>> /\ Len(<<comment>>) = 1
      BY <2>1
    <3> QED
      BY <3>1
  <2>2. CASE OfType(list, "vorbis") # {}
    <3>1. middle = <<>> /\ h = 0
      BY <2>2
    <3>2. n > 0
      BY <1>1, <2>2 DEF OfType
    <3> QED
      BY <3>1, <3>2
  <2> QED
    BY <2>1, <2>2
<1> HIDE DEF it, magic, info, comment, list
<1>8. begin \in Seq(U) /\ middle \in Seq(U) /\ Len(begin) = 2
      /\ begin[1] = magic /\ begin[2] = info
  <2>1. magic \in U /\ info \in U /\ comment \in U
    OBVIOUS
  <2> HIDE DEF U
  <2> QED
    BY <2>1
<1>9. end \in Seq(U) /\ Len(end) = n /\ \A i \in 1..n : end[i] = it(i)
  BY <1>1
<1> HIDE DEF begin, middle, end, U, front, units, n, h, all
<1>10. /\ front \in Seq(U) /\ Len(front) = 2 + h
       /\ front[1] = magic /\ front[2] = info
       /\ h = 1 => front[3] = comment
  <2>1. /\ front \in Seq(U) /\ Len(front) = 2 + h
        /\ \A i \in 1..(2 + h) : front[i] = IF i <= 2 THEN begin[i] ELSE middle[i - 2]
    <3>1. h \in Nat /\ Len(middle) = h /\ 2 \in Nat
      BY <1>7 DEF h
    <3>2. begin \in Seq(U) /\ middle \in Seq(U) /\ Len(begin) = 2
      BY <1>8
    <3>3. /\ begin \o middle \in Seq(U) /\ Len(begin \o middle) = 2 + h
          /\ \A i \in 1..(2 + h) :
                (begin \o middle)[i] = IF i <= 2 THEN begin[i] ELSE middle[i - 2]
      <4>1. Joint(U, begin, middle, Len(begin), Len(middle))
        BY <3>2, ConcatJoint, Zenon
      <4>2. Joint(U, begin, middle, 2, h)
        BY <3>1, <3>2, <4>1, Zenon
      <4> QED
        BY <4>2, Zenon DEF Joint
    <3> QED
      BY <3>3, Zenon DEF front
  <2>2. front[1] = magic /\ front[2] = info
    BY <1>7, <1>8, <2>1
  <2>3. h = 1 => front[3] = comment
    <3>1. h = 1 => 3 \in 1..(2 + h) /\ front[3] = middle[3 - 2] /\ middle[1] = comment
      BY <1>7, <2>1
    <3> QED
      BY <3>1
  <2> QED
    BY <2>1, <2>2, <2>3
<1>11. /\ units \in Seq(U) /\ Len(units) = all
       /\ \A i \in 1..all : units[i] = IF i <= 2 + h THEN front[i] ELSE it(i - (2 + h))
  <2>1. /\ units \in Seq(U) /\ Len(units) = (2 + h) + n
        /\ \A i \in 1..((2 + h) + n) :
              units[i] = IF i <= 2 + h THEN front[i] ELSE end[i - (2 + h)]
    <3>1. 2 + h \in Nat /\ n \in Nat
      BY <1>1, <1>7 DEF n
    <3>2. front \in Seq(U) /\ end \in Seq(U) /\ Len(front) = 2 + h /\ Len(end) = n
      BY <1>9, <1>10
    <3>3. /\ front \o end \in Seq(U) /\ Len(front \o end) = (2 + h) + n
          /\ \A i \in 1..((2 + h) + n) :
                (front \o end)[i] = IF i <= 2 + h THEN front[i] ELSE end[i - (2 + h)]
      <4>1. Joint(U, front, end, Len(front), Len(end))
        BY <3>2, ConcatJoint, Zenon
      <4>2. Joint(U, front, end, 2 + h, n)
        BY <3>2, <4>1, Zenon
      <4> QED
        BY <4>2, Zenon DEF Joint
    <3> QED
      BY <3>3, Zenon DEF units
  <2>2. \A i \in 1..((2 + h) + n) : ~(i <= 2 + h) => i - (2 + h) \in 1..n
    BY <1>1, <1>7
  <2> QED
    BY <1>9, <2>1, <2>2 DEF all
<1>12. all \in Nat /\ all >= 3
  BY <1>1, <1>7 DEF all
<1>13. units[1] = magic /\ units[2] = info
  BY <1>7, <1>10, <1>11, <1>12
<1>14. ASSUME NEW i \in 3..all
       PROVE  /\ Block(units[i]) /\ units[i].type # "streaminfo"
              /\ units[i].last <=> i = all
  <2>1. CASE i <= 2 + h
    <3>1. h = 1 /\ i = 3 /\ units[i] = comment
      BY <1>7, <1>10, <1>11, <1>12, <2>1
    <3>2. i = all <=> n = 0
      BY <1>1, <3>1 DEF all
    <3> QED
      BY <1>4, <3>1, <3>2
  <2>2. CASE ~(i <= 2 + h)
    <3> DEFINE k == i - (2 + h)
    <3>1. k \in 1..n /\ units[i] = it(k)
      BY <1>1, <1>7, <1>11, <1>12, <2>2 DEF all
    <3>2. i = all <=> k = n
      BY <1>1, <1>7 DEF all
    <3> HIDE DEF k
    <3> QED
      BY <1>5, <3>1, <3>2
  <2> QED
    BY <2>1, <2>2
<1>15. ASSUME NEW i \in 1..all
       PROVE  /\ i = 2 <=> units[i].type = "streaminfo"
              /\ i > 1 => Block(units[i]) \/ units[i].type = "frame"
              /\ Block(units[i]) => (units[i].last <=> i = all)
  <2>1. CASE i = 1
    BY <1>2, <1>13, <2>1
  <2>2. CASE i = 2
    BY <1>3, <1>12, <1>13, <2>2
  <2>3. CASE i \in 3..all
    BY <1>14, <2>3
  <2> QED
    BY <1>12, <2>1, <2>2, <2>3
<1>16. \A i \in 1..all : i = all <=> \A j \in 1..all : Block(units[j]) => j <= i
  <2>1. Block(units[all]) /\ all \in 1..all
    BY <1>12, <1>14
  <2> QED
    BY <1>12, <2>1
<1>17. Layout(units)
  <2>1. ASSUME NEW i \in 1..all
        PROVE  Block(units[i]) =>
                  (units[i].last <=> \A j \in 1..all : Block(units[j]) => j <= i)
    BY <1>15, <1>16
  <2>2. Len(units) >= 2
    BY <1>11, <1>12
  <2>3. units[1].type = "magic" /\ {"total", "sizes"} \subseteq DOMAIN units[2]
    BY <1>2, <1>3, <1>13
  <2> QED
    BY <1>11, <1>15, <2>1, <2>2, <2>3 DEF Layout
<1> QED
  BY <1>6, <1>17

LEMMA LengthsAppended ==
    ASSUME NEW units, UnitsType(units), NEW u, Frame(u)
    PROVE  FrameLengths(Append(units, u)) = FrameLengths(units) \cup {u.size}
<1> DEFINE F == {v \in Items(units) : v.type = "frame"} \cup {u}
           frames == FramesOf(units)
           more == FramesOf(Append(units, u))
           k == Len(frames)
<1>1. more = Append(frames, u)
  BY FrameAppended
<1>2. frames \in Seq(F) /\ u \in F
  <2> DEFINE G == {v \in Items(units) : v.type = "frame"}
  <2>1. frames \in Seq(G)
    BY AudioOfUnits
  <2>2. F = G \cup {u}
    OBVIOUS
  <2> HIDE DEF F, G, frames
  <2> QED
    BY <2>1, <2>2, SeqMonotonic
<1> HIDE DEF F, more, frames
<1>3. /\ Len(more) = k + 1 /\ k \in Nat /\ DOMAIN more = 1..(k + 1) /\ DOMAIN frames = 1..k
      /\ more[k + 1] = u /\ \A i \in 1..k : more[i] = frames[i]
  <2>1. DOMAIN frames = 1..k /\ k \in Nat
    BY <1>2
  <2>2. Append(frames, u) \in Seq(F)
    BY <1>2
  <2> QED
    BY <1>1, <1>2, <2>1, <2>2, AppendProperties
<1> HIDE DEF k
<1>4. {more[i].size : i \in DOMAIN more} = {frames[i].size : i \in DOMAIN frames} \cup {u.size}
  <2>1. 1..(k + 1) = 1..k \cup {k + 1}
    BY <1>3
  <2> QED
    BY <1>3, <2>1
<1> QED
  BY <1>4 DEF FrameLengths, more, frames

LEMMA MeasuredMoves ==
    ASSUME NEW units, UnitsType(units), NEW e, EncoderType(e), Measured(e, units),
           NEW u, Frame(u), u.size \in FrameSizes, NEW d,
           d.streaminfo = [total |-> e.streaminfo.total + Len(u.coded),
                           min |-> Smaller(u.size, e.streaminfo.min),
                           max |-> Larger(u.size, e.streaminfo.max)]
    PROVE  Measured(d, Append(units, u))
<1> DEFINE audio == AudioOf(FramesOf(units))
           more == AudioOf(FramesOf(Append(units, u)))
           lengths == FrameLengths(units)
           min == e.streaminfo.min
           max == e.streaminfo.max
<1>1. more = audio \o Decoded(u) /\ audio \in Seq(Int)
  BY FrameAppended, AudioOfUnits
<1>2. Decoded(u) \in Seq(Int) /\ Len(Decoded(u)) = Len(u.coded)
  BY DecodedType
<1>3. Len(more) = Len(audio) + Len(u.coded)
  <2> HIDE DEF audio, more
  <2>1. Len(audio \o Decoded(u)) = Len(audio) + Len(Decoded(u))
    BY <1>1, <1>2, Joined, Zenon
  <2> QED
    BY <1>1, <1>2, <2>1, Zenon
<1>4. d.streaminfo.total = Len(more)
  BY <1>3 DEF Measured
<1>5. FrameLengths(Append(units, u)) = lengths \cup {u.size}
  BY LengthsAppended
<1>6. /\ lengths \subseteq FrameSizes
      /\ IF lengths = {} THEN min = NoMinimum /\ max = 0
         ELSE /\ min \in lengths /\ \A s \in lengths : min <= s
              /\ max \in lengths /\ \A s \in lengths : s <= max
  BY DEF Measured, Extremes
<1>7. min \in Nat /\ max \in Nat
  BY DEF EncoderType
<1>8. NoMinimum \in Nat /\ FrameSizes \subseteq 1..NoMinimum
  BY EncoderAssumption
<1>9. d.streaminfo.min = Smaller(u.size, min) /\ d.streaminfo.max = Larger(u.size, max)
  OBVIOUS
<1> DEFINE size == u.size
<1>10. size \in FrameSizes
  OBVIOUS
<1> HIDE DEF audio, more, lengths, min, max, size
<1>11. Smaller(size, min) \in lengths \cup {size}
       /\ \A s \in lengths \cup {size} : Smaller(size, min) <= s
  <2>1. CASE lengths = {}
    BY <1>6, <1>8, <1>10, <2>1 DEF Smaller
  <2>2. CASE lengths # {}
    BY <1>6, <1>7, <1>8, <1>10, <2>2 DEF Smaller
  <2> QED
    BY <2>1, <2>2
<1>12. Larger(size, max) \in lengths \cup {size}
       /\ \A s \in lengths \cup {size} : s <= Larger(size, max)
  <2>1. CASE lengths = {}
    BY <1>6, <1>8, <1>10, <2>1 DEF Larger
  <2>2. CASE lengths # {}
    BY <1>6, <1>7, <1>8, <1>10, <2>2 DEF Larger
  <2> QED
    BY <2>1, <2>2
<1>13. Extremes(Append(units, u), d.streaminfo.min, d.streaminfo.max)
  BY <1>5, <1>6, <1>9, <1>10, <1>11, <1>12 DEF Extremes, size
<1> QED
  BY <1>4, <1>13 DEF Measured, more

-----------------------------------------------------------------------------
(* Steps of the header.  One that leaves alone what it is about.           *)
Stays ==
    /\ out' = out
    /\ enc'.state = "OK" =>
          /\ enc.state = "OK" /\ enc'.client = enc.client
          /\ enc'.streaminfo = enc.streaminfo
          /\ enc'.streaminfoOffset = enc.streaminfoOffset
          /\ enc'.seektableOffset = enc.seektableOffset
          /\ history'.client = history.client /\ (history'.failed => history.failed)
          /\ out \o Pending' = out \o Pending
          /\ call'.op = "init" => call.op = "init"
          /\ call'.op = "finish" /\ enc.client = "file" => Due(call'.todo, out)
    /\ finish' = "true" => finish = "true" /\ history' = history

LEMMA StaysKeeps == ASSUME HeaderInv, Stays PROVE HeaderInv'
<1>1. NotRuined'
  BY DEF HeaderInv, NotRuined, Stays
<1>2. HeaderBegun'
  <2>1. SUFFICES ASSUME enc'.state = "OK"
                 PROVE  /\ enc'.client = history'.client /\ ~history'.failed
                        /\ Layout(out' \o Pending')
                        /\ Streaming(enc', out')
                        /\ call'.op = "init" => FramesOf(out') = <<>>
                        /\ call'.op = "finish" /\ enc'.client = "file" =>
                              Due(call'.todo, out')
    BY DEF HeaderBegun, Frames
  <2>2. /\ enc.client = history.client /\ ~history.failed
        /\ Layout(out \o Pending) /\ Streaming(enc, out)
        /\ call.op = "init" => FramesOf(out) = <<>>
    BY <2>1 DEF HeaderInv, HeaderBegun, Stays, Frames
  <2>3. Streaming(enc', out)
    BY <2>1, <2>2 DEF Stays, Streaming, Measured
  <2> QED
    BY <2>1, <2>2, <2>3 DEF Stays
<1>3. HeaderDone'
  BY DEF HeaderInv, HeaderDone, Stays
<1> QED
  BY <1>1, <1>2, <1>3 DEF HeaderInv

(* What the first two units of a layout are, and that it is not ruined.    *)
LEMMA LayoutSays ==
    ASSUME NEW units, Layout(units)
    PROVE  /\ \A i \in 1..Len(units) : units[i].type # "ruined"
           /\ \A i \in 1..Len(units) : units[i].type = "streaminfo" <=> i = 2
<1>1. ASSUME NEW i \in 1..Len(units) PROVE units[i].type # "ruined"
  <2>1. CASE i > 1
    BY <2>1 DEF Layout, Block
  <2>2. CASE i <= 1
    <3>1. i = 1
      BY <2>2
    <3> QED
      BY <3>1 DEF Layout
  <2> QED
    BY <2>1, <2>2
<1> QED
  BY <1>1 DEF Layout

(* A frame more.                                                           *)
LEMMA FrameInLayout ==
    ASSUME NEW units, UnitsType(units), Layout(units),
           NEW e, EncoderType(e), Streaming(e, units),
           NEW wrong, NEW size \in FrameSizes, NEW r,
           ProcessedFrame(e, units, wrong, size, r), r.ok
    PROVE  Layout(r.out) /\ Streaming(r.enc, r.out)
<1>1. /\ r.enc.client = e.client
      /\ r.enc.streaminfoOffset = e.streaminfoOffset
      /\ r.enc.seektableOffset = e.seektableOffset
      /\ r.enc.streaminfo = [total |-> e.streaminfo.total + e.blocksize,
                             min |-> Smaller(size, e.streaminfo.min),
                             max |-> Larger(size, e.streaminfo.max)]
  BY DEF ProcessedFrame, SettingsKept
<1>2. PICK u : /\ Frame(u) /\ u.size = size /\ Len(u.coded) = e.blocksize
               /\ r.out = Append(units, u)
  BY DEF ProcessedFrame
<1>3. Layout(r.out)
  BY <1>2, LayoutAppended
<1>4. Len(units) >= 2 /\ Measured(e, units)
  BY DEF Layout, Streaming
<1>5. Measured(r.enc, r.out)
  <2>1. r.enc.streaminfo = [total |-> e.streaminfo.total + Len(u.coded),
                            min |-> Smaller(u.size, e.streaminfo.min),
                            max |-> Larger(u.size, e.streaminfo.max)]
    BY <1>1, <1>2
  <2>2. Measured(r.enc, Append(units, u))
    BY <1>2, <1>4, <2>1, MeasuredMoves
  <2> QED
    BY <1>2, <2>2
<1>6. \A offset, type : Found(units, offset, type) => Found(r.out, offset, type)
  BY <1>2, FoundAppended
<1>7. Streaming(r.enc, r.out)
  BY <1>1, <1>4, <1>5, <1>6 DEF Streaming
<1> QED
  BY <1>3, <1>7

LEMMA SettersHeader == ASSUME IInv, HeaderInv, Setters PROVE HeaderInv'
<1>1. UNCHANGED <<out, finish, history>> /\ enc'.state # "OK"
  <2>1. /\ UNCHANGED <<out, finish, history>> /\ enc.state = "UNINITIALIZED"
        /\ \E field \in {"verify", "blocksize", "metadata", "valid"} : \E value :
              enc' = [enc EXCEPT ![field] = value]
    BY DEF Setters, Set
  <2>2. Whole(enc)
    BY DEF IInv, Types, EncoderType
  <2>3. enc'.state = enc.state
    BY <2>1, <2>2 DEF Whole, EncoderFields
  <2> QED
    BY <2>1, <2>3
<1>2. Stays
  BY <1>1 DEF Stays
<1> QED
  BY <1>2, StaysKeeps

(* The header of a stream that begins is still to be written, all of it.    *)
LEMMA InitStreamHeader == ASSUME IInv, HeaderInv, InitStream PROVE HeaderInv'
<1>1. PICK client \in Clients, f \in {"none", "open", "memory", "decoder"} :
        /\ LET opened == IF client = "file" THEN [enc EXCEPT !.file = "open"] ELSE enc
               begun == [Checked(opened, client) EXCEPT
                            !.state = "OK", !.client = client,
                            !.signal = <<>>, !.fifo = <<>>, !.hint = "magic",
                            !.fifoSize = Blocksize(enc) + 1,
                            !.frameNumber = 0, !.samplesWritten = 0,
                            !.firstPoint = 1, !.streaminfoOffset = 0,
                            !.seektableOffset = 0, !.audioOffset = 0,
                            !.streaminfo = [total |-> 0, min |-> 0, max |-> 0]]
           IN  \/ /\ f = "open"
                  /\ enc' = [enc EXCEPT !.state = "IO_ERROR"]
                  /\ call' = NoCall
               \/ /\ f = "none" /\ ~Accepted(enc, client)
                  /\ enc' = Checked(opened, client)
                  /\ call' = NoCall
               \/ /\ f \in {"memory", "decoder"}
                  /\ enc' = [begun EXCEPT !.state =
                               IF f = "memory" THEN "MEMORY_ERROR"
                               ELSE "VERIFY_DECODER_ERROR"]
                  /\ call' = NoCall
               \/ /\ f = "none" /\ Accepted(enc, client)
                  /\ enc' = begun
                  /\ call' = [op |-> "init", todo |-> HeaderUnits(enc)]
        /\ out' = <<>> /\ finish' = "none"
        /\ history' = [history EXCEPT
                         !.streams = @ + 1, !.client = client,
                         !.faults = IF f # "none" THEN @ + 1 ELSE @,
                         !.miscoded = FALSE, !.unverified = FALSE,
                         !.failed = f # "none" \/ ~Accepted(enc, client),
                         !.mismatch = FALSE]
  BY DEF InitStream
<1> DEFINE opened == IF client = "file" THEN [enc EXCEPT !.file = "open"] ELSE enc
           d == Checked(opened, client)
           begun == [d EXCEPT
                        !.state = "OK", !.client = client,
                        !.signal = <<>>, !.fifo = <<>>, !.hint = "magic",
                        !.fifoSize = Blocksize(enc) + 1,
                        !.frameNumber = 0, !.samplesWritten = 0,
                        !.firstPoint = 1, !.streaminfoOffset = 0,
                        !.seektableOffset = 0, !.audioOffset = 0,
                        !.streaminfo = [total |-> 0, min |-> 0, max |-> 0]]
<1>2. EncoderType(enc) /\ enc.state = "UNINITIALIZED" /\ HistoryType
  BY DEF InitStream, IInv, Types
<1>3. EncoderType(opened) /\ opened.state = enc.state
  BY <1>2 DEF EncoderType, EncoderFields, Whole
<1>4. EncoderType(d) /\ d.state = "UNINITIALIZED"
  <2> HIDE DEF opened
  <2> QED
    BY <1>2, <1>3, CheckedKeeps
<1>5. \/ f = "open" /\ enc' = [enc EXCEPT !.state = "IO_ERROR"] /\ call' = NoCall
      \/ f = "none" /\ ~Accepted(enc, client) /\ enc' = d /\ call' = NoCall
      \/ /\ f \in {"memory", "decoder"} /\ call' = NoCall
         /\ enc' = [begun EXCEPT !.state = IF f = "memory" THEN "MEMORY_ERROR"
                                           ELSE "VERIFY_DECODER_ERROR"]
      \/ /\ f = "none" /\ Accepted(enc, client) /\ enc' = begun
         /\ call' = [op |-> "init", todo |-> HeaderUnits(enc)]
  BY <1>1
<1>6. /\ out' = <<>> /\ finish' = "none"
      /\ history' = [history EXCEPT
                       !.streams = @ + 1, !.client = client,
                       !.faults = IF f # "none" THEN @ + 1 ELSE @,
                       !.miscoded = FALSE, !.unverified = FALSE,
                       !.failed = f # "none" \/ ~Accepted(enc, client),
                       !.mismatch = FALSE]
  BY <1>1
<1> HIDE DEF opened, d
<1>7. /\ Whole(begun) /\ begun.client = client /\ begun.seektableOffset = 0
      /\ begun.state = "OK"
  BY <1>4 DEF EncoderType, EncoderFields, Whole
<1> HIDE DEF begun
<1>8. NotRuined' /\ HeaderDone'
  <2>1. Len(<<>>) = 0
    OBVIOUS
  <2>2. 1..Len(out') = {}
    BY <1>6, <2>1
  <2> QED
    BY <1>6, <2>2 DEF NotRuined, HeaderDone
<1>9. CASE enc'.state # "OK"
  BY <1>8, <1>9 DEF HeaderInv, HeaderBegun
<1>10. CASE enc'.state = "OK"
  <2>1. /\ f = "none" /\ Accepted(enc, client) /\ enc' = begun
        /\ call' = [op |-> "init", todo |-> HeaderUnits(enc)]
    <3>1. f # "open"
      BY <1>2, <1>5, <1>10 DEF EncoderType, EncoderFields, Whole
    <3>2. f # "none" => enc'.state \in {"MEMORY_ERROR", "VERIFY_DECODER_ERROR"}
      BY <1>5, <1>7, <3>1 DEF EncoderFields, Whole
    <3> QED
      BY <1>4, <1>5, <1>10, <3>1, <3>2
  <2>2. enc'.client = history'.client /\ ~history'.failed
    BY <1>2, <1>6, <1>7, <2>1 DEF HistoryType
  <2>3. Layout(HeaderUnits(enc))
    BY <1>2, <2>1, HeaderLayout DEF Accepted
  <2>4. call'.op = "init" /\ Pending' = HeaderUnits(enc)
    BY <2>1 DEF Pending
  <2>5. <<>> \o HeaderUnits(enc) = HeaderUnits(enc)
    <3>1. HeaderUnits(enc) \in Seq(Items(HeaderUnits(enc)))
      BY <1>2, HeaderUnitsType
    <3> QED
      BY <3>1, ConcatEmptySeq
  <2>6. Streaming(enc', out')
    <3>1. Len(<<>>) = 0
      OBVIOUS
    <3>2. ~(2 <= Len(out'))
      BY <1>6, <3>1
    <3> QED
      BY <1>7, <2>1, <3>2 DEF Streaming
  <2>7. FramesOf(out') = <<>>
    BY <1>6, FramesOfNone
  <2>8. HeaderBegun'
    BY <1>6, <2>2, <2>3, <2>4, <2>5, <2>6, <2>7 DEF HeaderBegun, Frames
  <2> QED
    BY <1>8, <2>8 DEF HeaderInv
<1> QED
  BY <1>9, <1>10

(* Units on their way from what is pending to what is out.                 *)
LEMMA NextUnit ==
    ASSUME NEW A, NEW units \in Seq(A), NEW todo \in Seq(A), todo # <<>>
    PROVE  LET k == Len(units) + 1
           IN  /\ Append(units, Head(todo)) \o Tail(todo) = units \o todo
               /\ k \in 1..Len(units \o todo) /\ (units \o todo)[k] = Head(todo)
<1> DEFINE h == Head(todo)
           t == Tail(todo)
           k == Len(units) + 1
<1>1. h \in A /\ t \in Seq(A) /\ Len(todo) \in Nat /\ Len(units) \in Nat /\ Len(todo) # 0
      /\ todo[1] = h
  BY HeadTailProperties, EmptySeq
<1>2. <<h>> \in Seq(A) /\ Len(<<h>>) = 1 /\ <<h>>[1] = h
  BY <1>1
<1>3. <<h>> \o t = todo
  <2>1. /\ <<h>> \o t \in Seq(A) /\ Len(<<h>> \o t) = Len(<<h>>) + Len(t)
        /\ \A i \in 1..(Len(<<h>>) + Len(t)) :
              (<<h>> \o t)[i] = IF i <= Len(<<h>>) THEN <<h>>[i] ELSE t[i - Len(<<h>>)]
    BY <1>1, <1>2, ConcatProperties
  <2>2. Len(t) = Len(todo) - 1 /\ \A i \in 1..Len(t) : t[i] = todo[i + 1]
    BY HeadTailProperties
  <2> DEFINE s == <<h>> \o t
  <2> HIDE DEF s, t, h
  <2>3. Len(s) = Len(todo)
    BY <1>1, <1>2, <2>1, <2>2 DEF s
  <2>4. ASSUME NEW i \in 1..Len(s) PROVE s[i] = todo[i]
    <3>1. CASE i = 1
      <4>1. s[1] = h
        BY <1>1, <1>2, <2>1, <2>2 DEF s
      <4> QED
        BY <1>1, <3>1, <4>1
    <3>2. CASE i # 1
      <4>1. i - 1 \in 1..Len(t) /\ (i - 1) + 1 = i
        BY <1>1, <2>2, <2>3, <3>2
      <4>2. s[i] = t[i - 1]
        BY <1>1, <1>2, <2>1, <2>2, <2>3, <3>2 DEF s
      <4>3. t[i - 1] = todo[(i - 1) + 1]
        BY <2>2, <4>1
      <4> QED
        BY <4>1, <4>2, <4>3
    <3> QED
      BY <3>1, <3>2
  <2> QED
    BY <2>1, <2>3, <2>4, SeqEqual DEF s
<1>4. Append(units, h) = units \o <<h>>
  BY <1>1, AppendIsConcat
<1>5. (units \o <<h>>) \o t = units \o (<<h>> \o t)
  BY <1>1, <1>2, ConcatAssociative
<1>6. Joint(A, units, todo, Len(units), Len(todo))
  BY ConcatJoint, Zenon
<1>7. k \in 1..Len(units \o todo) /\ (units \o todo)[k] = h
  <2>1. /\ Len(units \o todo) = Len(units) + Len(todo)
        /\ \A i \in 1..(Len(units) + Len(todo)) :
              (units \o todo)[i] = IF i <= Len(units) THEN units[i] ELSE todo[i - Len(units)]
    BY <1>6, Zenon DEF Joint
  <2>2. k \in 1..(Len(units) + Len(todo)) /\ ~(k <= Len(units)) /\ k - Len(units) = 1
    BY <1>1
  <2> HIDE DEF h, k
  <2> QED
    BY <1>1, <2>1, <2>2
<1> QED
  BY <1>3, <1>4, <1>5, <1>7

(* One unit of the header: STREAMINFO is where the encoder remembers it, and *)
(* the numbers that will be patched into it start anew.                    *)
LEMMA WriteHeaderUnitHeader == ASSUME IInv, HeaderInv, WriteHeaderUnit PROVE HeaderInv'
<1> DEFINE unit == Head(call.todo)
<1>1. PICK f \in Faults(UnitFaults) :
        LET r == WriteBitbuffer(enc, tables, out, unit, 0, f)
            e == IF unit.type # "streaminfo" THEN r.enc
                 ELSE [r.enc EXCEPT !.streaminfo =
                          [total |-> 0, min |-> NoMinimum, max |-> 0]]
        IN  /\ enc' = IF r.ok THEN [e EXCEPT !.hint = "metadata"] ELSE r.enc
            /\ tables' = r.tables /\ out' = r.out
            /\ call' = IF r.ok THEN [call EXCEPT !.todo = Tail(@)] ELSE NoCall
            /\ history' = Counted(f, FALSE, r)
  BY DEF WriteHeaderUnit
<1> DEFINE r == WriteBitbuffer(enc, tables, out, unit, 0, f)
           info == [total |-> 0, min |-> NoMinimum, max |-> 0]
           e == IF unit.type # "streaminfo" THEN r.enc
                ELSE [r.enc EXCEPT !.streaminfo = info]
<1>2. /\ call.op = "init" /\ call.todo # <<>> /\ UNCHANGED <<given, finish>>
      /\ call = [op |-> "init", todo |-> call.todo]
      /\ call.todo \in Seq(Items(call.todo))
      /\ \A u \in Items(call.todo) : HeaderUnit(u)
  BY CallByName DEF WriteHeaderUnit, IInv, Types
<1>3. EncoderType(enc) /\ enc.state = "OK" /\ UnitsType(out) /\ HistoryType
      /\ enc.verify \in BOOLEAN /\ finish # "true"
  BY <1>2 DEF IInv, Types, Control, EncoderType, NoCall
<1>4. unit \in Items(call.todo) /\ HeaderUnit(unit) /\ unit.type # "frame"
  <2>1. unit \in Items(call.todo)
    BY <1>2, HeadTailProperties
  <2> QED
    BY <1>2, <2>1 DEF HeaderUnit
<1>5. /\ Append(out, unit) \o Tail(call.todo) = out \o call.todo
      /\ Len(out) + 1 \in 1..Len(out \o call.todo)
      /\ (out \o call.todo)[Len(out) + 1] = unit
  <2> DEFINE A == Items(out) \cup Items(call.todo)
  <2>1. out \in Seq(A) /\ call.todo \in Seq(A)
    BY <1>2, <1>3, SeqMonotonic DEF UnitsType
  <2> HIDE DEF A
  <2> QED
    BY <1>2, <2>1, NextUnit
<1> HIDE DEF unit
<1>6. Wrote(enc, out, unit, r)
  BY <1>3, <1>4, WriteHeaderWrites
<1>7. /\ enc' = IF r.ok THEN [e EXCEPT !.hint = "metadata"] ELSE r.enc
      /\ out' = r.out /\ history' = Counted(f, FALSE, r)
      /\ call' = IF r.ok THEN [call EXCEPT !.todo = Tail(@)] ELSE NoCall
  BY <1>1
<1> HIDE DEF r
<1>8. Result(r) /\ Alright(enc, r.enc)
  BY <1>6 DEF Wrote
<1> HIDE DEF info
<1>9. CountedAs(history, FALSE, r, history')
  BY <1>3, <1>7, <1>8, HistoryCounted
<1>10. CASE ~r.ok
  <2>1. enc'.state # "OK" /\ out' = out
    BY <1>6, <1>7, <1>10, NotAlright DEF Wrote
  <2>2. Stays
    BY <1>2, <1>3, <2>1 DEF Stays
  <2> QED
    BY <2>2, StaysKeeps
<1>11. CASE r.ok
  <2>1. /\ out' = Append(out, unit) /\ Located(enc, out, unit, r.enc)
        /\ r.enc.state = "OK" /\ enc' = [e EXCEPT !.hint = "metadata"]
    BY <1>3, <1>6, <1>7, <1>11 DEF Wrote
  <2>2. /\ enc'.state = "OK" /\ enc'.client = enc.client
        /\ enc'.streaminfoOffset = r.enc.streaminfoOffset
        /\ enc'.seektableOffset = r.enc.seektableOffset
        /\ enc'.streaminfo = IF unit.type = "streaminfo" THEN info ELSE enc.streaminfo
    <3>1. Whole(r.enc) /\ r.enc.client = enc.client /\ r.enc.streaminfo = enc.streaminfo
      BY <1>8 DEF Alright, Kept, EncoderType
    <3>2. /\ Whole(e) /\ e.state = "OK" /\ e.client = enc.client
          /\ e.streaminfoOffset = r.enc.streaminfoOffset
          /\ e.seektableOffset = r.enc.seektableOffset
          /\ e.streaminfo = IF unit.type = "streaminfo" THEN info ELSE enc.streaminfo
      BY <2>1, <3>1 DEF EncoderFields, Whole
    <3> HIDE DEF e
    <3> QED
      BY <2>1, <3>2 DEF EncoderFields, Whole
  <2>3. call' = [op |-> "init", todo |-> Tail(call.todo)]
    <3>1. call' = [call EXCEPT !.todo = Tail(call.todo)]
      BY <1>7, <1>11
    <3> QED
      BY <1>2, <3>1
  <2>4. out' \o Pending' = out \o Pending
    BY <1>2, <1>5, <2>1, <2>3 DEF Pending
  <2>5. /\ enc.client = history.client /\ ~history.failed
        /\ Layout(out \o Pending) /\ Streaming(enc, out)
        /\ FramesOf(out) = <<>>
    BY <1>2, <1>3 DEF HeaderInv, HeaderBegun, Frames
  <2>6. /\ (Len(out) + 1 = 2 <=> unit.type = "streaminfo") /\ unit.type # "ruined"
    <3> DEFINE k == Len(out) + 1
    <3>1. k \in 1..Len(out \o Pending) /\ (out \o Pending)[k] = unit
      BY <1>2, <1>5 DEF Pending
    <3> HIDE DEF k
    <3>2. (k = 2 <=> unit.type = "streaminfo") /\ unit.type # "ruined"
      BY <2>5, <3>1, LayoutSays
    <3> QED
      BY <3>2 DEF k
  <2>7. UnitsType(out') /\ FramesOf(out') = <<>>
    BY <1>3, <1>4, <2>1, <2>5, UnitAppended
  <2>8. Len(out) \in Nat /\ Len(out') = Len(out) + 1 /\ out'[Len(out) + 1] = unit
        /\ \A i \in 1..Len(out) : out'[i] = out[i]
    <3> DEFINE A == Items(out) \cup {unit}
    <3>1. out \in Seq(A) /\ unit \in A
      BY <1>3, SeqMonotonic DEF UnitsType
    <3> HIDE DEF A
    <3> QED
      BY <2>1, <3>1, AppendProperties
  <2>9. NotRuined'
    <3>1. \A i \in 1..Len(out) : out[i].type # "ruined"
      BY DEF HeaderInv, NotRuined
    <3>2. ASSUME NEW i \in 1..Len(out') PROVE out'[i].type # "ruined"
      <4>1. i \in 1..Len(out) \/ i = Len(out) + 1
        BY <2>8
      <4> QED
        BY <2>6, <2>8, <3>1, <4>1
    <3> QED
      BY <3>2 DEF NotRuined
  <2>10. 2 <= Len(out') => Measured(enc', out')
    <3>1. CASE unit.type = "streaminfo"
      <4>1. enc'.streaminfo.total = 0 /\ enc'.streaminfo.min = NoMinimum
            /\ enc'.streaminfo.max = 0
        BY <2>2, <3>1 DEF info
      <4>2. AudioOf(FramesOf(out')) = <<>> /\ Len(<<>>) = 0
        BY <2>7, AudioOfNone
      <4>3. FrameLengths(out') = {}
        BY <2>7 DEF FrameLengths
      <4> QED
        BY <4>1, <4>2, <4>3 DEF Measured, Extremes
    <3>2. CASE unit.type # "streaminfo" /\ 2 <= Len(out')
      <4>1. 2 <= Len(out)
        BY <2>6, <2>8, <3>2
      <4>2. Measured(enc, out) /\ enc'.streaminfo = enc.streaminfo
            /\ FramesOf(out') = FramesOf(out)
        BY <2>2, <2>5, <2>7, <3>2, <4>1 DEF Streaming
      <4> QED
        BY <4>2 DEF Measured, Extremes, FrameLengths
    <3> QED
      BY <3>1, <3>2
  <2>11. /\ \A o, t : Found(out, o, t) => Found(out', o, t)
         /\ Found(out', Position(out), unit.type)
    BY <1>3, <1>4, <2>1, FoundAppended
  <2>12. ASSUME enc'.client = "file", 2 <= Len(out')
         PROVE  Found(out', enc'.streaminfoOffset, "streaminfo")
    <3>1. CASE unit.type = "streaminfo"
      <4>1. enc'.streaminfoOffset = Position(out)
        BY <2>1, <2>2, <2>12, <3>1 DEF Located, CanTell
      <4> QED
        BY <2>11, <3>1, <4>1
    <3>2. CASE unit.type # "streaminfo"
      <4>1. 2 <= Len(out) /\ enc'.streaminfoOffset = enc.streaminfoOffset
        BY <2>1, <2>2, <2>6, <2>8, <2>12, <3>2 DEF Located
      <4> QED
        BY <2>2, <2>5, <2>11, <2>12, <4>1 DEF Streaming
    <3> QED
      BY <3>1, <3>2
  <2>13. ASSUME enc'.client = "file", enc'.seektableOffset # 0
         PROVE  Found(out', enc'.seektableOffset, "seektable")
    <3>1. CASE unit.type = "seektable" /\ enc.seektableOffset = 0
      <4>1. enc'.seektableOffset = Position(out)
        BY <2>1, <2>2, <2>13, <3>1 DEF Located, CanTell
      <4> QED
        BY <2>11, <3>1, <4>1
    <3>2. CASE ~(unit.type = "seektable" /\ enc.seektableOffset = 0)
      <4>1. enc'.seektableOffset = enc.seektableOffset
        BY <2>1, <2>2, <3>2 DEF Located
      <4> QED
        BY <2>2, <2>5, <2>11, <2>13, <4>1 DEF Streaming
    <3> QED
      BY <3>1, <3>2
  <2>14. Streaming(enc', out')
    BY <2>10, <2>12, <2>13 DEF Streaming
  <2>15. history'.client = history.client /\ ~history'.failed
    BY <1>3, <1>9, <1>11, <2>5 DEF CountedAs, HistoryType
  <2>16. HeaderBegun'
    <3>1. call'.op = "init"
      BY <2>3
    <3> QED
      BY <2>2, <2>4, <2>5, <2>7, <2>14, <2>15, <3>1 DEF HeaderBegun, Frames
  <2>17. HeaderDone'
    BY <1>2, <1>3 DEF HeaderDone
  <2> QED
    BY <2>9, <2>16, <2>17 DEF HeaderInv
<1> QED
  BY <1>10, <1>11

LEMMA HeaderWrittenHeader == ASSUME IInv, HeaderInv, HeaderWritten PROVE HeaderInv'
<1> DEFINE position == IF CanTell(enc.client) THEN Position(out) ELSE 0
           d == [enc EXCEPT !.audioOffset = position, !.hint = "audio"]
<1>1. PICK f \in Faults({"none", "tell"}) :
        LET r == IF f = "tell" THEN Failed(enc, tables, out, "CLIENT_ERROR")
                 ELSE Done(d, tables, out)
        IN  enc' = r.enc /\ history' = Counted(f, FALSE, r)
  BY DEF HeaderWritten
<1> DEFINE r == IF f = "tell" THEN Failed(enc, tables, out, "CLIENT_ERROR")
                ELSE Done(d, tables, out)
<1>2. /\ call.op = "init" /\ call.todo = <<>> /\ UNCHANGED <<out, finish>>
      /\ enc' = r.enc /\ call' = NoCall /\ history' = Counted(f, FALSE, r)
  BY <1>1 DEF HeaderWritten
<1>3. /\ Whole(enc) /\ EncoderType(enc) /\ HistoryType /\ enc.verify \in BOOLEAN
      /\ finish # "true" /\ enc.state = "OK"
  BY <1>2 DEF IInv, Types, Control, EncoderType, NoCall
<1>4. d.client = enc.client /\ d.streaminfo = enc.streaminfo
      /\ d.streaminfoOffset = enc.streaminfoOffset
      /\ d.seektableOffset = enc.seektableOffset
  BY <1>3 DEF EncoderFields, Whole
<1> HIDE DEF d
<1>5. CASE f = "tell"
  <2>1. r = Failed(enc, tables, out, "CLIENT_ERROR")
    BY <1>5
  <2>2. enc'.state # "OK"
    BY <1>2, <1>3, <2>1, OneFieldFailed
  <2>3. Stays
    BY <1>2, <1>3, <2>2 DEF Stays
  <2> QED
    BY <2>3, StaysKeeps
<1>6. CASE f # "tell"
  <2>1. r = [enc |-> d, tables |-> tables, out |-> out, ok |-> TRUE]
    BY <1>6 DEF Done
  <2>2. enc' = r.enc
    BY <1>2
  <2> HIDE DEF r
  <2>3. Result(r) /\ r.ok /\ r.enc = d
    BY <2>1 DEF Result
  <2>4. CountedAs(history, FALSE, r, history')
    BY <1>2, <1>3, <2>3, HistoryCounted
  <2>5. history'.client = history.client /\ (history'.failed => history.failed)
    BY <1>3, <2>3, <2>4 DEF CountedAs, HistoryType
  <2>6. Pending' = Pending /\ call'.op = "none"
    BY <1>2 DEF Pending, NoCall
  <2>7. Stays
    BY <1>2, <1>3, <1>4, <2>2, <2>3, <2>5, <2>6 DEF Stays
  <2> QED
    BY <2>7, StaysKeeps
<1> QED
  BY <1>5, <1>6

LEMMA ProcessHeader == ASSUME IInv, HeaderInv, Process PROVE HeaderInv'
<1>1. /\ call = NoCall /\ UNCHANGED <<enc, out, finish, history>>
      /\ \E samples : call' = [op |-> "process", todo |-> samples]
  BY DEF Process
<1>2. call.op = "none" /\ call'.op = "process" /\ Pending' = Pending
  BY <1>1 DEF NoCall, Pending
<1>3. Stays
  BY <1>1, <1>2 DEF Stays
<1> QED
  BY <1>3, StaysKeeps

(* A step that processes a block, in the buffer e.                         *)
LEMMA FrameHeader ==
    ASSUME HeaderInv, UnitsType(out), HistoryType, enc.verify \in BOOLEAN,
           finish # "true", finish' = finish, enc.state = "OK", call.op = "none" \/ call.op = "process",
           NEW e, Ready(e), e.fifo = IF e.verify THEN e.signal ELSE <<>>,
           Streaming(e, out), e.client = enc.client,
           NEW wrong \in BOOLEAN, NEW size \in FrameSizes, NEW f, NEW r,
           r = ProcessFrame(e, tables, out, wrong, size, f),
           enc' = r.enc, out' = r.out, history' = Counted(f, wrong, r),
           call'.op # "init",
           call'.op = "finish" /\ r.enc.state = "OK" /\ r.enc.client = "file" =>
              Due(call'.todo, out')
    PROVE  HeaderInv'
<1>1. /\ enc.client = history.client /\ ~history.failed
      /\ Layout(out \o Pending) /\ NotRuined
  BY DEF HeaderInv, HeaderBegun
<1>2. Pending = <<>> /\ Pending' = <<>>
  BY DEF Pending
<1>3. Layout(out)
  <2>1. out \o <<>> = out
    BY ConcatEmptySeq DEF UnitsType
  <2> QED
    BY <1>1, <1>2, <2>1
<1>4. ProcessedFrame(e, out, wrong, size, r)
  <2>1. size \in Nat
    BY EncoderAssumption
  <2> QED
    BY <2>1, FrameProcessed DEF Ready
<1>5. HeaderDone'
  BY DEF HeaderDone
<1>6. CASE ~r.ok
  <2>1. out' = out /\ enc'.state # "OK"
    BY <1>4, <1>6 DEF ProcessedFrame, ErrorStates
  <2> QED
    BY <1>1, <1>5, <2>1 DEF HeaderInv, HeaderBegun, NotRuined
<1>7. CASE r.ok
  <2>1. Layout(out') /\ Streaming(enc', out')
    <3>1. EncoderType(e)
      BY DEF Ready
    <3> QED
      BY <1>3, <1>4, <1>7, <3>1, FrameInLayout
  <2>2. UnitsType(out')
    <3>1. PICK u : Frame(u) /\ out' = Append(out, u)
      BY <1>4, <1>7 DEF ProcessedFrame
    <3> QED
      BY <3>1, FrameAppended
  <2>3. out' \o Pending' = out'
    BY <1>2, <2>2, ConcatEmptySeq DEF UnitsType
  <2>4. Result(r) /\ enc'.client = enc.client
    BY <1>4 DEF ProcessedFrame, SettingsKept
  <2>5. history'.client = history.client /\ ~history'.failed
    <3>1. CountedAs(history, wrong, r, history')
      BY <2>4, HistoryCounted
    <3> QED
      BY <1>1, <1>7, <3>1 DEF CountedAs
  <2>6. NotRuined'
    BY <2>1, LayoutSays DEF NotRuined
  <2>7. HeaderBegun'
    BY <1>1, <2>1, <2>3, <2>4, <2>5 DEF HeaderBegun
  <2> QED
    BY <1>5, <2>6, <2>7 DEF HeaderInv
<1> QED
  BY <1>4, <1>6, <1>7 DEF ProcessedFrame, Result

LEMMA ProcessChunkHeader == ASSUME IInv, HeaderInv, ProcessChunk PROVE HeaderInv'
<1> DEFINE n == Smaller(enc.blocksize + 1 - Len(enc.signal), Len(call.todo))
           taken == SubSeq(call.todo, 1, n)
           left == SubSeq(call.todo, n + 1, Len(call.todo))
           filled == Filled(enc, taken)
           rest == IF left = <<>> THEN NoCall ELSE [call EXCEPT !.todo = left]
<1>1. /\ call.op = "process" /\ UNCHANGED <<given, finish>>
      /\ \/ /\ Len(filled.signal) <= enc.blocksize
            /\ enc' = filled /\ call' = rest
            /\ UNCHANGED <<tables, out, history>>
         \/ /\ Len(filled.signal) > enc.blocksize
            /\ \E f \in Faults(FrameFaults), size \in FrameSizes,
                 wrong \in {FALSE, Miscodes} :
                  LET r == ProcessFrame(filled, tables, out, wrong, size, f)
                  IN  /\ enc' = r.enc /\ tables' = r.tables /\ out' = r.out
                      /\ call' = IF r.ok THEN rest ELSE NoCall
                      /\ history' = Counted(f, wrong, r)
  BY DEF ProcessChunk, Filled
<1>2. call \in [op : {"process"}, todo : Seq(Int)] /\ call.todo \in Seq(Int)
  BY <1>1, CallByName DEF IInv, Types
<1>3. /\ EncoderType(enc) /\ UnitsType(out) /\ given \in Seq(Int) /\ HistoryType
      /\ enc.state = "OK" /\ enc.hint = "audio" /\ finish # "true"
      /\ enc.verify \in BOOLEAN
  BY <1>1 DEF IInv, Types, Control, EncoderType, NoCall
<1>4. /\ SamplesAt(history, given, out, enc, call.todo)
      /\ Len(enc.signal) <= enc.blocksize
      /\ enc.blocksize > 0 /\ enc.fifoSize = enc.blocksize + 1
  BY <1>1, <1>3 DEF IInv, Buffers, Todo
<1>5. enc.blocksize \in Nat /\ Len(enc.signal) \in Nat /\ Len(call.todo) \in Nat
  BY <1>2, <1>3 DEF EncoderType
<1>6. n \in 0..Len(call.todo) /\ Len(enc.signal) + n <= enc.blocksize + 1
  BY <1>4, <1>5 DEF Smaller
<1> HIDE DEF n
<1>7. /\ EncoderType(filled) /\ SettingsKept(enc, filled) /\ filled.state = "OK"
      /\ Len(filled.signal) = Len(enc.signal) + n
      /\ SamplesAt(history, given, out, filled, left)
  <2> DEFINE todo == call.todo
  <2>1. todo \in Seq(Int) /\ n \in 0..Len(todo) /\ SamplesAt(history, given, out, enc, todo)
    BY <1>2, <1>4, <1>6
  <2> HIDE DEF todo
  <2>2. LET t == SubSeq(todo, 1, n)
            l == SubSeq(todo, n + 1, Len(todo))
            d == Filled(enc, t)
        IN  /\ EncoderType(d) /\ SettingsKept(enc, d) /\ d.state = enc.state
            /\ Len(d.signal) = Len(enc.signal) + n
            /\ l \in Seq(Int)
            /\ SamplesAt(history, given, out, d, l)
    BY <1>3, <2>1, BufferFilled
  <2> QED
    BY <1>3, <2>2 DEF todo
<1> HIDE DEF left, taken
<1>8. /\ filled.client = enc.client /\ filled.streaminfo = enc.streaminfo
      /\ filled.streaminfoOffset = enc.streaminfoOffset
      /\ filled.seektableOffset = enc.seektableOffset
  <2>1. Whole(enc)
    BY <1>3 DEF EncoderType
  <2> QED
    BY <2>1 DEF Filled, EncoderFields, Whole
<1> HIDE DEF filled
<1>9. rest.op \in {"none", "process"}
  <2>1. CASE left = <<>>
    BY <2>1 DEF NoCall
  <2>2. CASE left # <<>>
    <3>1. rest = [op |-> "process", todo |-> left]
      BY <1>2, <2>2
    <3> QED
      BY <2>2, <3>1
  <2> QED
    BY <2>1, <2>2
<1> HIDE DEF rest
<1>10. CASE enc' = filled /\ call' = rest /\ UNCHANGED <<out, history>>
  <2>1. Pending' = Pending
    BY <1>1, <1>9, <1>10 DEF Pending
  <2>2. Stays
    BY <1>1, <1>3, <1>8, <1>9, <1>10, <2>1 DEF Stays
  <2> QED
    BY <2>2, StaysKeeps
<1>11. ASSUME Len(filled.signal) > enc.blocksize,
              NEW f, NEW size \in FrameSizes, NEW wrong \in {FALSE, Miscodes}, NEW r,
              r = ProcessFrame(filled, tables, out, wrong, size, f),
              enc' = r.enc, out' = r.out, call' = IF r.ok THEN rest ELSE NoCall,
              history' = Counted(f, wrong, r)
       PROVE  HeaderInv'
  <2>1. wrong \in BOOLEAN
    BY EncoderAssumption
  <2>2. filled.fifo = IF filled.verify THEN filled.signal ELSE <<>>
    BY <1>7 DEF SamplesAt
  <2>3. Ready(filled)
    <3>1. filled.blocksize = enc.blocksize /\ filled.verify = enc.verify
          /\ filled.fifoSize = enc.fifoSize /\ filled.hint = "audio"
      BY <1>3, <1>7 DEF SettingsKept
    <3>2. Len(filled.fifo) <= filled.fifoSize
      <4>1. Len(<<>>) = 0
        OBVIOUS
      <4> QED
        BY <1>4, <1>5, <1>6, <1>7, <2>2, <3>1, <4>1
    <3>3. filled.blocksize \in 1..Len(filled.signal)
      BY <1>4, <1>5, <1>6, <1>7, <1>11, <3>1
    <3> QED
      BY <1>7, <3>1, <3>2, <3>3 DEF Ready
  <2>4. Streaming(filled, out)
    <3>1. Streaming(enc, out)
      BY <1>3 DEF HeaderInv, HeaderBegun
    <3> QED
      BY <1>8, <3>1 DEF Streaming, Measured
  <2>5. call'.op \in {"none", "process"}
    BY <1>9, <1>11 DEF NoCall
  <2> QED
    BY <1>1, <1>3, <1>8, <1>11, <2>1, <2>2, <2>3, <2>4, <2>5, FrameHeader
<1> QED
  BY <1>1, <1>10, <1>11

(* At the end everything is to be updated, in this order.                  *)
LEMMA EndsDue ==
    ASSUME NEW r, r.enc.state = "OK", r.enc.client = "file", NEW units
    PROVE  Due(Ends(r).todo, units)
<1> DEFINE all == <<"md5", "total", "sizes", "points">>
           todo == IF r.enc.state = "OK" /\ r.enc.client \in {"pipe", "file"}
                   THEN all ELSE <<>>
<1>1. todo = all
  OBVIOUS
<1>2. Ends(r) = [op |-> "finish", error |-> ~r.ok, todo |-> todo]
  BY DEF Ends
<1> HIDE DEF todo
<1>3. Ends(r).todo = all
  BY <1>1, <1>2
<1> HIDE DEF all
<1> QED
  BY <1>3 DEF Due, all

LEMMA FinishHeader == ASSUME IInv, HeaderInv, Finish PROVE HeaderInv'
<1> DEFINE last == [enc EXCEPT !.blocksize = Len(enc.signal)]
<1>1. /\ call = NoCall /\ UNCHANGED <<given, finish>>
      /\ \/ /\ enc.state = "OK" /\ enc.signal # <<>>
            /\ \E f \in Faults(FrameFaults), size \in FrameSizes,
                 wrong \in {FALSE, Miscodes} :
                  LET r == ProcessFrame(last, tables, out, wrong, size, f)
                  IN  /\ enc' = r.enc /\ tables' = r.tables /\ out' = r.out
                      /\ call' = Ends(r)
                      /\ history' = Counted(f, wrong, r)
         \/ /\ enc.state # "OK" \/ enc.signal = <<>>
            /\ call' = Ends(Done(enc, tables, out))
            /\ UNCHANGED <<enc, tables, out, history>>
  BY DEF Finish, Ends
<1>2. /\ EncoderType(enc) /\ UnitsType(out) /\ HistoryType
      /\ finish # "true" \/ enc.state # "OK"
      /\ enc.verify \in BOOLEAN
  BY <1>1 DEF IInv, Types, Control, EncoderType
<1>3. call.op = "none" /\ Pending = <<>>
  BY <1>1 DEF NoCall, Pending
<1>4. CASE /\ call' = Ends(Done(enc, tables, out))
           /\ UNCHANGED <<enc, tables, out, history>>
  <2> DEFINE r == Done(enc, tables, out)
  <2>1. r.enc = enc
    BY DEF Done
  <2>2. call'.op = "finish" /\ call' = Ends(r)
    BY <1>4 DEF Ends
  <2> HIDE DEF r
  <2>3. enc.state = "OK" /\ enc.client = "file" => Due(call'.todo, out)
    BY <2>1, <2>2, EndsDue
  <2>4. Pending' = Pending
    BY <1>3, <2>2 DEF Pending
  <2>5. Stays
    BY <1>1, <1>4, <2>2, <2>3, <2>4 DEF Stays
  <2> QED
    BY <2>5, StaysKeeps
<1>5. ASSUME enc.state = "OK", enc.signal # <<>>,
             NEW f, NEW size \in FrameSizes, NEW wrong \in {FALSE, Miscodes}, NEW r,
             r = ProcessFrame(last, tables, out, wrong, size, f),
             enc' = r.enc, out' = r.out, call' = Ends(r), history' = Counted(f, wrong, r)
      PROVE  HeaderInv'
  <2>1. wrong \in BOOLEAN
    BY EncoderAssumption
  <2>2. /\ SamplesAt(history, given, out, enc, <<>>) /\ enc.hint = "audio"
        /\ Len(enc.fifo) <= enc.fifoSize
    BY <1>3, <1>5 DEF IInv, Buffers, Control, Results, Todo
  <2>3. enc.signal \in Seq(Int) /\ Len(enc.signal) \in Nat /\ Len(enc.signal) # 0
    <3>1. enc.signal \in Seq(Int)
      BY <1>2 DEF EncoderType
    <3> QED
      BY <1>5, <3>1, EmptySeq
  <2>4. /\ EncoderType(last) /\ last.state = "OK" /\ last.hint = "audio"
        /\ last.verify = enc.verify /\ last.signal = enc.signal
        /\ last.blocksize = Len(enc.signal) /\ last.fifo = enc.fifo
        /\ last.fifoSize = enc.fifoSize
    BY <1>2, <1>5, <2>2, <2>3 DEF EncoderType, EncoderFields, Whole
  <2>5. /\ last.client = enc.client /\ last.streaminfo = enc.streaminfo
        /\ last.streaminfoOffset = enc.streaminfoOffset
        /\ last.seektableOffset = enc.seektableOffset
    <3>1. Whole(enc)
      BY <1>2 DEF EncoderType
    <3> QED
      BY <3>1 DEF EncoderFields, Whole
  <2> HIDE DEF last
  <2>6. Ready(last)
    <3>1. last.blocksize \in 1..Len(last.signal)
      BY <2>3, <2>4
    <3> QED
      BY <2>2, <2>4, <3>1 DEF Ready
  <2>7. last.fifo = IF last.verify THEN last.signal ELSE <<>>
    BY <2>2, <2>4 DEF SamplesAt
  <2>8. Streaming(last, out)
    <3>1. Streaming(enc, out)
      BY <1>5 DEF HeaderInv, HeaderBegun
    <3> QED
      BY <2>5, <3>1 DEF Streaming, Measured
  <2>9. call'.op = "finish"
    BY <1>5 DEF Ends
  <2>10. r.enc.state = "OK" /\ r.enc.client = "file" => Due(call'.todo, out')
    BY <1>5, EndsDue
  <2>11. finish # "true" /\ finish' = finish
    BY <1>1, <1>2, <1>5
  <2> QED
    BY <1>2, <1>3, <1>5, <2>1, <2>5, <2>6, <2>7, <2>8, <2>9, <2>10, <2>11, FrameHeader
<1> QED
  BY <1>1, <1>4, <1>5

LEMMA FinishReturnsHeader == ASSUME IInv, HeaderInv, FinishReturns PROVE HeaderInv'
<1> DEFINE state == IF call.error THEN enc.state ELSE "UNINITIALIZED"
<1>1. /\ call.op = "finish" /\ call.todo = <<>>
      /\ enc' = WithDefaults([enc EXCEPT
                  !.state = IF call.error THEN @ ELSE "UNINITIALIZED",
                  !.signal = <<>>, !.fifo = <<>>, !.file = "closed"])
      /\ UNCHANGED <<out, history>>
  BY DEF FinishReturns
<1>2. /\ EncoderType(enc) /\ enc.state # "UNINITIALIZED"
      /\ call.error => enc.state # "OK"
      /\ enc.state \notin {"OK", "UNINITIALIZED"} => history.failed
      /\ UnitsType(out)
  BY <1>1 DEF IInv, Types, Control
<1>3. enc'.state # "OK"
  <2>1. enc' = WithDefaults([enc EXCEPT !.state = state, !.signal = <<>>, !.fifo = <<>>,
                                        !.file = "closed"])
    BY <1>1
  <2>2. state # "OK"
    BY <1>2
  <2> HIDE DEF state
  <2>3. enc'.state = state
    BY <1>2, <2>1, ResetType
  <2> QED
    BY <2>2, <2>3
<1>4. NotRuined' /\ HeaderBegun'
  BY <1>1, <1>3 DEF HeaderInv, NotRuined, HeaderBegun
<1>5. ~history.failed /\ history.client = "file" => Layout(out) /\ TotalTrue(out) /\ SizesTrue(out)
  <2>1. SUFFICES ASSUME ~history.failed, history.client = "file"
                 PROVE  Layout(out) /\ TotalTrue(out) /\ SizesTrue(out)
    OBVIOUS
  <2>2. enc.state = "OK"
    BY <1>2, <2>1
  <2>3. Layout(out \o Pending) /\ Due(<<>>, out)
    BY <1>1, <2>1, <2>2 DEF HeaderInv, HeaderBegun
  <2>4. Pending = <<>> /\ out \o <<>> = out
    BY <1>1, <1>2, ConcatEmptySeq DEF Pending, UnitsType
  <2>5. Len(<<>>) = 0 /\ Len(<<"md5", "total", "sizes", "points">>) = 4
        /\ Len(<<"total", "sizes", "points">>) = 3 /\ Len(<<"sizes", "points">>) = 2
    OBVIOUS
  <2>6. TotalTrue(out) /\ SizesTrue(out)
    BY <2>3, <2>5 DEF Due
  <2> QED
    BY <2>3, <2>4, <2>6
<1>6. HeaderDone'
  BY <1>1, <1>5 DEF HeaderDone
<1> QED
  BY <1>4, <1>6 DEF HeaderInv

LEMMA DeleteHeader == ASSUME IInv, HeaderInv, Delete PROVE HeaderInv'
<1>1. /\ finish' = "deleted" /\ UNCHANGED <<out, history>>
      /\ enc' = IF enc.state = "UNINITIALIZED" THEN enc
                ELSE WithDefaults([enc EXCEPT !.state = "UNINITIALIZED",
                                              !.signal = <<>>, !.fifo = <<>>,
                                              !.file = "closed"])
  BY DEF Delete
<1>2. EncoderType(enc)
  BY DEF IInv, Types
<1>3. enc'.state # "OK"
  BY <1>1, <1>2, ResetType
<1> QED
  BY <1>1, <1>3 DEF HeaderInv, NotRuined, HeaderBegun, HeaderDone

LEMMA StutteringHeader == ASSUME HeaderInv, UNCHANGED vars PROVE HeaderInv'
<1>1. UNCHANGED <<enc, out, call, finish, history>>
  BY DEF vars
<1>2. NotRuined' /\ HeaderDone'
  BY <1>1 DEF HeaderInv, NotRuined, HeaderDone
<1>3. HeaderBegun'
  BY <1>1 DEF HeaderInv, HeaderBegun, Pending, Frames
<1> QED
  BY <1>2, <1>3 DEF HeaderInv

LEMMA BeginsHeader == Init => HeaderInv
<1>1. SUFFICES ASSUME Init PROVE HeaderInv
  OBVIOUS
<1>2. enc.state = "UNINITIALIZED" /\ out = <<>> /\ finish = "none"
  BY <1>1 DEF Init, NewEncoder
<1>3. Len(<<>>) = 0
  OBVIOUS
<1>4. 1..Len(out) = {}
  BY <1>2, <1>3
<1> QED
  BY <1>2, <1>4 DEF HeaderInv, NotRuined, HeaderBegun, HeaderDone

(* What is to be updated, one field after the other.                       *)
LEMMA DueNext ==
    ASSUME NEW todo, NEW units, Due(todo, units), todo # <<>>
    PROVE  \/ /\ Head(todo) = "md5" /\ Tail(todo) = <<"total", "sizes", "points">>
           \/ /\ Head(todo) = "total" /\ Tail(todo) = <<"sizes", "points">>
           \/ /\ Head(todo) = "sizes" /\ Tail(todo) = <<"points">> /\ TotalTrue(units)
           \/ /\ Head(todo) = "points" /\ Tail(todo) = <<>>
              /\ TotalTrue(units) /\ SizesTrue(units)
<1>1. CASE todo = <<"md5", "total", "sizes", "points">>
  BY <1>1
<1>2. CASE todo = <<"total", "sizes", "points">>
  BY <1>2
<1>3. CASE todo = <<"sizes", "points">> /\ TotalTrue(units)
  BY <1>3
<1>4. CASE todo = <<"points">> /\ TotalTrue(units) /\ SizesTrue(units)
  BY <1>4
<1> QED
  BY <1>1, <1>2, <1>3, <1>4 DEF Due

(* The header after one of its fields is written.                          *)
LEMMA HeaderPatched ==
    ASSUME NEW e, NEW units, UnitsType(units), Layout(units), Streaming(e, units),
           e.client = "file", NEW todo, Due(todo, units), todo # <<>>,
           NEW points, Head(todo) = "points" => e.seektableOffset # 0,
           NEW more,
           more = CASE Head(todo) = "md5" -> units
                    [] Head(todo) = "total" ->
                           Patched(units, e.streaminfoOffset, "streaminfo",
                                   "total", e.streaminfo.total)
                    [] Head(todo) = "sizes" ->
                           Patched(units, e.streaminfoOffset, "streaminfo",
                                   "sizes", <<e.streaminfo.min, e.streaminfo.max>>)
                    [] Head(todo) = "points" ->
                           Patched(units, e.seektableOffset, "seektable",
                                   "points", points)
    PROVE  /\ UnitsType(more) /\ Layout(more) /\ Streaming(e, more)
           /\ Due(Tail(todo), more)
<1> DEFINE field == Head(todo)
           sizes == <<e.streaminfo.min, e.streaminfo.max>>
<1>1. \/ field = "md5" /\ Tail(todo) = <<"total", "sizes", "points">>
      \/ field = "total" /\ Tail(todo) = <<"sizes", "points">>
      \/ field = "sizes" /\ Tail(todo) = <<"points">> /\ TotalTrue(units)
      \/ /\ field = "points" /\ Tail(todo) = <<>> /\ TotalTrue(units) /\ SizesTrue(units)
  BY DueNext
<1>2. /\ Len(units) >= 2 /\ Measured(e, units)
      /\ {"total", "sizes"} \subseteq DOMAIN units[2]
  BY DEF Layout, Streaming
<1>3. Found(units, e.streaminfoOffset, "streaminfo")
  BY <1>2 DEF Streaming
<1>4. ASSUME NEW type, NEW name, NEW value, Rewritten(units, more, type, name, value)
      PROVE  /\ UnitsType(more) /\ Layout(more) /\ Streaming(e, more)
             /\ FramesOf(more) = FramesOf(units)
             /\ FrameLengths(more) = FrameLengths(units)
  <2>1. /\ UnitsType(more) /\ Layout(more) /\ FramesOf(more) = FramesOf(units)
        /\ Len(more) = Len(units)
        /\ \A o, t : Found(units, o, t) => Found(more, o, t)
    BY <1>4 DEF Rewritten
  <2>2. FrameLengths(more) = FrameLengths(units)
    BY <2>1 DEF FrameLengths
  <2>3. Measured(e, more)
    BY <1>2, <2>1, <2>2 DEF Measured, Extremes
  <2>4. Streaming(e, more)
    BY <2>1, <2>3 DEF Streaming
  <2> QED
    BY <2>1, <2>2, <2>4
<1> HIDE DEF field
<1>5. CASE field = "md5"
  <2>1. more = units
    BY <1>5 DEF field
  <2>2. Tail(todo) = <<"total", "sizes", "points">>
    BY <1>1, <1>5
  <2> QED
    BY <2>1, <2>2 DEF Due
<1>6. CASE field = "total"
  <2>1. more = Patched(units, e.streaminfoOffset, "streaminfo", "total", e.streaminfo.total)
    BY <1>6 DEF field
  <2>2. Rewritten(units, more, "streaminfo", "total", e.streaminfo.total)
    BY <1>3, <2>1, PatchedRewrites
  <2>3. more[2].total = e.streaminfo.total
    <3>1. more[2] = [units[2] EXCEPT !["total"] = e.streaminfo.total]
      BY <2>2 DEF Rewritten
    <3> QED
      BY <1>2, <3>1
  <2>4. TotalTrue(more)
    BY <1>2, <1>4, <2>2, <2>3 DEF TotalTrue, Measured
  <2>5. Tail(todo) = <<"sizes", "points">>
    BY <1>1, <1>6
  <2> QED
    BY <1>4, <2>2, <2>4, <2>5 DEF Due
<1>7. CASE field = "sizes"
  <2>1. more = Patched(units, e.streaminfoOffset, "streaminfo", "sizes", sizes)
    BY <1>7 DEF field
  <2> HIDE DEF sizes
  <2>2. Rewritten(units, more, "streaminfo", "sizes", sizes)
    BY <1>3, <2>1, PatchedRewrites
  <2>3. more[2].sizes = sizes /\ more[2].total = units[2].total
    <3>1. more[2] = [units[2] EXCEPT !["sizes"] = sizes]
      BY <2>2 DEF Rewritten
    <3> QED
      BY <1>2, <3>1
  <2>4. sizes[1] = e.streaminfo.min /\ sizes[2] = e.streaminfo.max
    BY DEF sizes
  <2>5. Tail(todo) = <<"points">> /\ TotalTrue(units)
    BY <1>1, <1>7
  <2>6. TotalTrue(more)
    BY <1>4, <2>2, <2>3, <2>5 DEF TotalTrue
  <2>7. SizesTrue(more)
    BY <1>2, <1>4, <2>2, <2>3, <2>4 DEF SizesTrue, Measured, Extremes
  <2> QED
    BY <1>4, <2>2, <2>5, <2>6, <2>7 DEF Due
<1>8. CASE field = "points"
  <2>1. more = Patched(units, e.seektableOffset, "seektable", "points", points)
    BY <1>8 DEF field
  <2>2. Found(units, e.seektableOffset, "seektable")
    BY <1>8 DEF Streaming, field
  <2>3. Rewritten(units, more, "seektable", "points", points)
    BY <2>1, <2>2, PatchedRewrites
  <2>4. more[2] = units[2]
    BY <2>3 DEF Rewritten
  <2>5. Tail(todo) = <<>> /\ TotalTrue(units) /\ SizesTrue(units)
    BY <1>1, <1>8
  <2>6. TotalTrue(more) /\ SizesTrue(more)
    BY <1>4, <2>3, <2>4, <2>5 DEF TotalTrue, SizesTrue, Extremes
  <2> QED
    BY <1>4, <2>3, <2>5, <2>6 DEF Due
<1> QED
  BY <1>1, <1>5, <1>6, <1>7, <1>8

LEMMA UpdateHeaderHeader == ASSUME IInv, HeaderInv, UpdateHeader PROVE HeaderInv'
<1> DEFINE field == Head(call.todo)
           skipped == field = "points" /\ (enc.seekTable = NoTable \/ enc.seektableOffset = 0)
           sorted == [tables EXCEPT ![enc.seekTable] = SortedPoints(@)]
           patched ==
               CASE field = "md5" -> out
                 [] field = "total" ->
                        Patched(out, enc.streaminfoOffset, "streaminfo",
                                "total", enc.streaminfo.total)
                 [] field = "sizes" ->
                        Patched(out, enc.streaminfoOffset, "streaminfo",
                                "sizes", <<enc.streaminfo.min, enc.streaminfo.max>>)
                 [] field = "points" ->
                        Patched(out, enc.seektableOffset, "seektable",
                                "points", sorted[enc.seekTable])
<1>1. /\ call.op = "finish" /\ call.todo # <<>> /\ UNCHANGED <<given, finish>>
      /\ \/ /\ skipped /\ call' = [call EXCEPT !.todo = <<>>]
            /\ UNCHANGED <<enc, out, history>>
         \/ /\ enc.client = "pipe" /\ call' = [call EXCEPT !.todo = <<>>]
            /\ UNCHANGED <<enc, out, history>>
         \/ /\ ~skipped /\ enc.client = "file"
            /\ \E f \in Faults({"none", "seek", "write"}) :
                  LET r == IF f = "none" THEN Done(enc, tables, patched)
                           ELSE Failed(enc, tables, out, "CLIENT_ERROR")
                  IN  /\ enc' = r.enc /\ out' = r.out
                      /\ call' = IF r.ok THEN [call EXCEPT !.todo = Tail(@)]
                                 ELSE [call EXCEPT !.todo = <<>>, !.error = TRUE]
                      /\ history' = Counted(f, FALSE, r)
  BY DEF UpdateHeader
<1>2. /\ EncoderType(enc) /\ UnitsType(out) /\ HistoryType /\ finish # "true"
      /\ enc.verify \in BOOLEAN /\ enc.state = "OK"
  BY <1>1 DEF IInv, Types, Control, EncoderType, NoCall
<1>3. /\ call \in [op : {"finish"}, error : BOOLEAN, todo : Seq(Updates)]
      /\ Pending = <<>> /\ out \o <<>> = out
  BY <1>1, <1>2, CallByName, ConcatEmptySeq DEF IInv, Types, Pending, UnitsType
<1>4. /\ enc.client = history.client /\ ~history.failed
      /\ Layout(out) /\ Streaming(enc, out)
      /\ enc.client = "file" => Due(call.todo, out)
  BY <1>1, <1>2, <1>3 DEF HeaderInv, HeaderBegun
<1>5. ASSUME call' = [call EXCEPT !.todo = <<>>], UNCHANGED <<enc, out, history>>,
             enc.client = "file" => TotalTrue(out) /\ SizesTrue(out)
      PROVE  HeaderInv'
  <2>1. call' = [op |-> "finish", error |-> call.error, todo |-> <<>>]
    BY <1>3, <1>5
  <2>2. call'.op = "finish" /\ call'.todo = <<>>
    BY <2>1
  <2>3. Pending' = Pending /\ (enc.client = "file" => Due(call'.todo, out))
    BY <1>3, <1>5, <2>2 DEF Pending, Due
  <2>4. Stays
    BY <1>1, <1>2, <1>5, <2>2, <2>3 DEF Stays
  <2> QED
    BY <2>4, StaysKeeps
<1>6. CASE /\ skipped /\ call' = [call EXCEPT !.todo = <<>>]
           /\ UNCHANGED <<enc, out, history>>
  <2>1. enc.client = "file" => TotalTrue(out) /\ SizesTrue(out)
    BY <1>1, <1>4, <1>6, DueNext
  <2> QED
    BY <1>5, <1>6, <2>1
<1>7. CASE /\ enc.client = "pipe" /\ call' = [call EXCEPT !.todo = <<>>]
           /\ UNCHANGED <<enc, out, history>>
  BY <1>5, <1>7
<1>8. ASSUME ~skipped, enc.client = "file", NEW f, NEW r,
             r = IF f = "none" THEN Done(enc, tables, patched)
                 ELSE Failed(enc, tables, out, "CLIENT_ERROR"),
             enc' = r.enc, out' = r.out,
             call' = IF r.ok THEN [call EXCEPT !.todo = Tail(@)]
                     ELSE [call EXCEPT !.todo = <<>>, !.error = TRUE],
             history' = Counted(f, FALSE, r)
      PROVE  HeaderInv'
  <2>1. /\ UnitsType(patched) /\ Layout(patched) /\ Streaming(enc, patched)
        /\ Due(Tail(call.todo), patched)
    <3> DEFINE todo == call.todo
               points == sorted[enc.seekTable]
               more == patched
    <3>1. /\ more = CASE Head(todo) = "md5" -> out
                      [] Head(todo) = "total" ->
                             Patched(out, enc.streaminfoOffset, "streaminfo",
                                     "total", enc.streaminfo.total)
                      [] Head(todo) = "sizes" ->
                             Patched(out, enc.streaminfoOffset, "streaminfo",
                                     "sizes", <<enc.streaminfo.min, enc.streaminfo.max>>)
                      [] Head(todo) = "points" ->
                             Patched(out, enc.seektableOffset, "seektable",
                                     "points", points)
          /\ Head(todo) = "points" => enc.seektableOffset # 0
      BY <1>8
    <3>2. Due(todo, out) /\ todo # <<>>
      BY <1>1, <1>4, <1>8
    <3> HIDE DEF more, points, todo
    <3>3. /\ UnitsType(more) /\ Layout(more) /\ Streaming(enc, more)
          /\ Due(Tail(todo), more)
      BY <1>2, <1>4, <1>8, <3>1, <3>2, HeaderPatched
    <3> QED
      BY <3>3 DEF more, todo
  <2> HIDE DEF patched
  <2>2. CASE f = "none"
    <3>1. r = [enc |-> enc, tables |-> tables, out |-> patched, ok |-> TRUE]
      BY <1>8, <2>2 DEF Done
    <3>2. Result(r) /\ r.ok /\ r.enc = enc /\ r.out = patched
      BY <3>1 DEF Result
    <3>3. CountedAs(history, FALSE, r, history')
      BY <1>2, <1>8, <3>2, HistoryCounted
    <3>4. history'.client = history.client /\ ~history'.failed
      BY <1>4, <3>2, <3>3 DEF CountedAs
    <3>5. call' = [op |-> "finish", error |-> call.error, todo |-> Tail(call.todo)]
      <4>1. call' = [call EXCEPT !.todo = Tail(call.todo)]
        BY <1>8, <3>2
      <4> QED
        BY <1>3, <4>1
    <3>6. call'.op = "finish" /\ call'.todo = Tail(call.todo)
      BY <3>5
    <3>7. enc' = enc /\ out' = patched
      BY <1>8, <3>2
    <3>8. Pending' = <<>> /\ out' \o <<>> = out'
      BY <2>1, <3>6, <3>7, ConcatEmptySeq DEF Pending, UnitsType
    <3>9. NotRuined'
      BY <2>1, <3>7, LayoutSays DEF NotRuined
    <3>10. HeaderBegun'
      BY <1>4, <2>1, <3>4, <3>6, <3>7, <3>8 DEF HeaderBegun
    <3>11. HeaderDone'
      BY <1>1, <1>2 DEF HeaderDone
    <3> QED
      BY <3>9, <3>10, <3>11 DEF HeaderInv
  <2>3. CASE f # "none"
    <3>1. r = Failed(enc, tables, out, "CLIENT_ERROR")
      BY <1>8, <2>3
    <3>2. enc'.state # "OK" /\ out' = out
      BY <1>2, <1>8, <3>1, OneFieldFailed
    <3>3. Stays
      BY <1>1, <1>2, <3>2 DEF Stays
    <3> QED
      BY <3>3, StaysKeeps
  <2> QED
    BY <2>2, <2>3
<1> HIDE DEF patched, skipped, sorted, field
<1> QED
  BY <1>1, <1>6, <1>7, <1>8

(* What initialization, processing and finishing do to the header, in any   *)
(* state of any encoder (write_frame_, update_metadata_).                   *)
THEOREM HeaderInvariant == Spec => []HeaderInv
<1>1. ASSUME IInv, HeaderInv, [Next]_vars PROVE HeaderInv'
  BY <1>1, SettersHeader, InitStreamHeader, WriteHeaderUnitHeader, HeaderWrittenHeader,
     ProcessHeader, ProcessChunkHeader, FinishHeader, UpdateHeaderHeader,
     FinishReturnsHeader, DeleteHeader, StutteringHeader
  DEF Next
<1> QED
  BY <1>1, BeginsHeader, InductiveInvariant, PTL DEF Spec

(* The header of a file that finish has updated describes its stream: the   *)
(* total of samples and the extreme frame sizes are those of the frames that *)
(* were written, the last block and no other is marked as the last, and no  *)
(* update was written to a place where no such field is (write_frame_,      *)
(* update_metadata_).                                                       *)
THEOREM HeaderTrueHolds == Spec => []HeaderTrue
<1>1. ASSUME IInv, HeaderInv PROVE HeaderTrue
  <2>1. DOMAIN out = 1..Len(out) /\ UnitsType(out)
    BY <1>1 DEF IInv, Types, UnitsType
  <2>2. \A i \in DOMAIN out : out[i].type # "ruined"
    BY <1>1, <2>1 DEF HeaderInv, NotRuined
  <2> DEFINE second == CHOOSE i \in DOMAIN out : out[i].type = "streaminfo"
             sizes == {Frames[i].size : i \in DOMAIN Frames}
             blocks == {i \in DOMAIN out : out[i].type \notin {"magic", "frame"}}
  <2>3. ASSUME WellFinished, given # <<>>
        PROVE  /\ out[second].total = Len(given)
               /\ out[second].sizes[1] \in sizes
               /\ \A s \in sizes : out[second].sizes[1] <= s
               /\ out[second].sizes[2] \in sizes
               /\ \A s \in sizes : out[second].sizes[2] >= s
               /\ \A i \in blocks : out[i].last <=> \A j \in blocks : j <= i
    <3>1. Layout(out) /\ TotalTrue(out) /\ SizesTrue(out)
      BY <1>1, <2>3 DEF HeaderInv, HeaderDone, WellFinished
    <3>2. Len(given) = Len(Audio) /\ given \in Seq(Int)
      BY <1>1, <2>3 DEF IInv, Types, Results, WellFinished
    <3>3. second = 2
      <4>1. 2 \in DOMAIN out /\ out[2].type = "streaminfo"
        BY <2>1, <3>1 DEF Layout
      <4>2. \A i \in DOMAIN out : out[i].type = "streaminfo" => i = 2
        BY <2>1, <3>1 DEF Layout
      <4> QED
        BY <4>1, <4>2
    <3> HIDE DEF second
    <3>4. out[second].total = Len(given)
      BY <3>1, <3>2, <3>3 DEF TotalTrue, Audio, Frames
    <3>5. sizes = FrameLengths(out)
      BY DEF FrameLengths, Frames
    <3>6. sizes # {}
      <4>1. Frames # <<>>
        <5>1. CASE Frames = <<>>
          <6>1. Len(given) = 0
            <7>1. Audio = <<>> /\ Len(<<>>) = 0
              BY <5>1, AudioOfNone DEF Audio
            <7> QED
              BY <3>2, <7>1
          <6> QED
            BY <2>3, <3>2, <6>1, EmptySeq
        <5> QED
          BY <5>1
      <4> DEFINE F == {v \in Items(out) : v.type = "frame"}
      <4>2. Frames \in Seq(F)
        BY <2>1, AudioOfUnits DEF Frames
      <4> HIDE DEF F
      <4>3. Len(Frames) \in Nat /\ Len(Frames) # 0 /\ DOMAIN Frames = 1..Len(Frames)
        BY <4>1, <4>2, EmptySeq
      <4>4. 1 \in DOMAIN Frames
        BY <4>3
      <4> QED
        BY <4>4
    <3> HIDE DEF sizes
    <3>7. /\ out[2].sizes[1] \in sizes /\ \A s \in sizes : out[2].sizes[1] <= s
          /\ out[2].sizes[2] \in sizes /\ \A s \in sizes : s <= out[2].sizes[2]
          /\ sizes \subseteq FrameSizes
      BY <3>1, <3>5, <3>6 DEF SizesTrue, Extremes
    <3>8. \A s \in sizes : out[2].sizes[2] >= s
      <4>1. sizes \subseteq Int
        BY <3>7, EncoderAssumption
      <4> QED
        BY <3>7, <4>1
    <3>9. \A i \in DOMAIN out : i \in blocks <=> Block(out[i])
      <4>1. ASSUME NEW i \in DOMAIN out PROVE i \in blocks <=> Block(out[i])
        <5>1. CASE i = 1
          BY <3>1, <5>1 DEF Layout, Block
        <5>2. CASE i # 1
          <6>1. i \in 1..Len(out) /\ i > 1
            BY <2>1, <5>2
          <6>2. Block(out[i]) \/ out[i].type = "frame"
            BY <3>1, <6>1 DEF Layout
          <6> QED
            BY <6>2 DEF Block
        <5> QED
          BY <5>1, <5>2
      <4> QED
        BY <4>1
    <3> HIDE DEF blocks
    <3>10. blocks \subseteq DOMAIN out
      BY DEF blocks
    <3>11. \A i \in blocks : out[i].last <=> \A j \in blocks : j <= i
      <4>1. ASSUME NEW i \in blocks PROVE out[i].last <=> \A j \in blocks : j <= i
        <5>1. i \in 1..Len(out) /\ Block(out[i])
          BY <2>1, <3>9, <3>10
        <5>2. out[i].last <=> \A j \in 1..Len(out) : Block(out[j]) => j <= i
          BY <3>1, <5>1 DEF Layout
        <5>3. (\A j \in 1..Len(out) : Block(out[j]) => j <= i) <=> \A j \in blocks : j <= i
          BY <2>1, <3>9, <3>10
        <5> QED
          BY <5>2, <5>3
      <4> QED
        BY <4>1
    <3> QED
      BY <3>3, <3>4, <3>7, <3>8, <3>11
  <2> HIDE DEF second, sizes, blocks
  <2> QED
    BY <2>2, <2>3 DEF HeaderTrue, second, sizes, blocks
<1> QED
  BY <1>1, InductiveInvariant, HeaderInvariant, PTL

-----------------------------------------------------------------------------
(* Seek points.  The place after some units is a sum.                      *)
LEMMA PositionUnfold ==
    ASSUME NEW A, NEW units \in Seq(A), \A u \in A : u.size \in Nat
    PROVE  \E after :
              /\ after[0] = 0
              /\ \A j \in 1..Len(units) : after[j] = after[j - 1] + units[j].size
              /\ \A j \in 0..Len(units) : after[j] \in Nat
              /\ Position(units) = after[Len(units)]
<1> DEFINE n == Len(units)
           step == [j \in 1..n |-> [x \in Nat |-> x + units[j].size]]
           Body(f) == [j \in 0..n |-> IF j = 0 THEN 0 ELSE f[j - 1] + units[j].size]
           after == CHOOSE f : f = Body(f)
<1>1. n \in Nat
  OBVIOUS
<1>2. \A j \in 1..n : units[j].size \in Nat
  OBVIOUS
<1>3. step \in Steps(n, Nat)
  BY <1>2 DEF Steps
<1>4. PICK h : Builds(h, n, Nat, 0, step)
  <2> HIDE DEF step, n
  <2> QED
    BY <1>1, <1>3, Recursion
<1>5. /\ h \in [0..n -> Nat] /\ h[0] = 0
      /\ \A j \in 1..n : h[j] = h[j - 1] + units[j].size
  <2>1. h \in [0..n -> Nat] /\ h[0] = 0
    BY <1>4 DEF Builds
  <2>2. ASSUME NEW j \in 1..n PROVE h[j] = h[j - 1] + units[j].size
    <3>1. h[j - 1] \in Nat
      BY <2>1
    <3>2. step[j][h[j - 1]] = h[j - 1] + units[j].size
      BY <3>1
    <3> HIDE DEF step
    <3> QED
      BY <1>4, <3>2 DEF Builds
  <2> QED
    BY <2>1, <2>2
<1>6. h = Body(h)
  <2>1. ASSUME NEW j \in 0..n PROVE h[j] = Body(h)[j]
    <3>1. j # 0 => j \in 1..n
      OBVIOUS
    <3> QED
      BY <1>5, <3>1
  <2>2. h = [j \in 0..n |-> h[j]]
    BY <1>5
  <2> QED
    BY <2>1, <2>2
<1>7. after = Body(after)
  <2> HIDE DEF Body
  <2> QED
    BY <1>6
<1>8. Position(units) = after[n]
  BY DEF Position
<1> HIDE DEF after
<1>9. after[0] = 0 /\ \A j \in 1..n : after[j] = after[j - 1] + units[j].size
  <2>1. \A j \in 0..n : after[j] = IF j = 0 THEN 0 ELSE after[j - 1] + units[j].size
    BY <1>7
  <2>2. ASSUME NEW j \in 1..n PROVE after[j] = after[j - 1] + units[j].size
    <3>1. j \in 0..n /\ j # 0
      OBVIOUS
    <3> QED
      BY <2>1, <3>1
  <2> QED
    BY <1>1, <2>1, <2>2
<1>10. \A j \in 0..n : after[j] = h[j]
  <2>1. Alike(n, after, h)
    BY <1>5, <1>9 DEF Alike
  <2> QED
    BY <1>1, <2>1, SameRecursion
<1>11. \A j \in 0..n : after[j] \in Nat
  BY <1>5, <1>10
<1> QED
  BY <1>8, <1>9, <1>11

LEMMA PositionType ==
    ASSUME NEW A, NEW units \in Seq(A), \A u \in A : u.size \in Nat
    PROVE  Position(units) \in Nat
<1>1. Len(units) \in 0..Len(units)
  OBVIOUS
<1> QED
  BY <1>1, PositionUnfold

LEMMA PositionAppend ==
    ASSUME NEW A, NEW units \in Seq(A), \A u \in A : u.size \in Nat, NEW u \in A
    PROVE  Position(Append(units, u)) = Position(units) + u.size
<1> DEFINE n == Len(units)
           more == Append(units, u)
<1>1. PICK h : /\ h[0] = 0
               /\ \A j \in 1..n : h[j] = h[j - 1] + units[j].size
               /\ Position(units) = h[n]
  BY PositionUnfold
<1>2. /\ more \in Seq(A) /\ Len(more) = n + 1 /\ n \in Nat
      /\ more[n + 1] = u /\ \A j \in 1..n : more[j] = units[j]
  OBVIOUS
<1> HIDE DEF more
<1>3. PICK g : /\ g[0] = 0
               /\ \A j \in 1..(n + 1) : g[j] = g[j - 1] + more[j].size
               /\ Position(more) = g[n + 1]
  <2>1. Len(more) = n + 1
    BY <1>2
  <2> HIDE DEF n
  <2> QED
    BY <1>2, <2>1, PositionUnfold
<1>4. h[n] = g[n]
  <2>1. Alike(n, h, g)
    <3>1. ASSUME NEW j \in 1..n, h[j - 1] = g[j - 1] PROVE h[j] = g[j]
      <4>1. h[j] = h[j - 1] + units[j].size /\ more[j] = units[j]
        BY <1>1, <1>2
      <4>2. g[j] = g[j - 1] + more[j].size
        <5>1. j \in 1..(n + 1)
          BY <1>2
        <5> QED
          BY <1>3, <5>1
      <4> QED
        BY <3>1, <4>1, <4>2
    <3> QED
      BY <1>1, <1>3, <3>1 DEF Alike
  <2>2. n \in Nat /\ n \in 0..n
    BY <1>2
  <2> HIDE DEF n
  <2> QED
    BY <2>1, <2>2, SameRecursion
<1>5. g[n + 1] = g[n] + more[n + 1].size
  <2>1. n + 1 \in 1..(n + 1) /\ (n + 1) - 1 = n
    BY <1>2
  <2> QED
    BY <1>3, <2>1
<1> QED
  BY <1>1, <1>2, <1>3, <1>4, <1>5 DEF more

LEMMA PositionOfNone == Position(<<>>) = 0
<1> DEFINE none == <<>>
           E == {}
<1>1. none \in Seq(E) /\ Len(none) = 0
  OBVIOUS
<1>2. \A u \in E : u.size \in Nat
  OBVIOUS
<1> HIDE DEF none, E
<1>3. PICK h : h[0] = 0 /\ Position(none) = h[Len(none)]
  BY <1>1, <1>2, PositionUnfold
<1> QED
  BY <1>1, <1>3 DEF none

(* Elements with different samples have different places in their order,    *)
(* and there is an element for every place.                                *)
Ordered(S) ==
    /\ IsFiniteSet(S) /\ \A p \in S : p.sample \in Nat
    /\ \A p, q \in S : p.sample = q.sample => p = q

Rank(S, p) == Cardinality(Before(S, p))

LEMMA RanksOrdered ==
    ASSUME NEW S, Ordered(S)
    PROVE  /\ Cardinality(S) \in Nat
           /\ \A p \in S : Rank(S, p) \in 0..(Cardinality(S) - 1)
           /\ \A p, q \in S : p.sample < q.sample => Rank(S, p) < Rank(S, q)
<1> DEFINE n == Cardinality(S)
<1>1. IsFiniteSet(S) /\ n \in Nat /\ \A p \in S : p.sample \in Nat
  BY FS_CardinalityType DEF Ordered
<1>2. ASSUME NEW p \in S PROVE Rank(S, p) \in 0..(n - 1)
  <2>1. Before(S, p) \in SUBSET S /\ p \notin Before(S, p)
    BY <1>1 DEF Before
  <2>2. /\ IsFiniteSet(Before(S, p)) /\ Rank(S, p) <= n
        /\ n = Rank(S, p) => S = Before(S, p)
    BY <1>1, <2>1, FS_Subset DEF Rank
  <2>3. Rank(S, p) \in Nat
    BY <2>2, FS_CardinalityType DEF Rank
  <2> HIDE DEF n
  <2> QED
    BY <1>1, <2>1, <2>2, <2>3
<1>3. ASSUME NEW p \in S, NEW q \in S, p.sample < q.sample
      PROVE  Rank(S, p) < Rank(S, q)
  <2>1. /\ Before(S, p) \in SUBSET Before(S, q)
        /\ p \in Before(S, q) /\ p \notin Before(S, p)
    BY <1>1, <1>3 DEF Before
  <2>2. Before(S, q) \in SUBSET S
    BY DEF Before
  <2>3. IsFiniteSet(Before(S, q))
    BY <1>1, <2>2, FS_Subset
  <2>4. /\ Rank(S, p) <= Rank(S, q)
        /\ Rank(S, q) = Rank(S, p) => Before(S, q) = Before(S, p)
    BY <2>1, <2>3, FS_Subset DEF Rank
  <2>5. Rank(S, p) \in Nat /\ Rank(S, q) \in Nat
    BY <1>2, <1>1
  <2> QED
    BY <2>1, <2>4, <2>5
<1> QED
  BY <1>1, <1>2, <1>3

LEMMA RanksReached ==
    ASSUME NEW S, Ordered(S), NEW i \in 1..Cardinality(S)
    PROVE  \E p \in S : Rank(S, p) = i - 1
<1> DEFINE n == Cardinality(S)
           places == 0..(n - 1)
           f == [p \in S |-> Rank(S, p)]
<1>1. /\ IsFiniteSet(S) /\ n \in Nat /\ \A p \in S : p.sample \in Nat
      /\ \A p, q \in S : p.sample = q.sample => p = q
      /\ \A p \in S : Rank(S, p) \in places
      /\ \A p, q \in S : p.sample < q.sample => Rank(S, p) < Rank(S, q)
  BY RanksOrdered DEF Ordered
<1>2. IsFiniteSet(places) /\ Cardinality(places) = n
  <2> HIDE DEF n
  <2>1. 0 \in Int /\ n - 1 \in Int
    BY <1>1
  <2>2. IsFiniteSet(places) /\ Cardinality(places) = IF 0 > n - 1 THEN 0 ELSE (n - 1) - 0 + 1
    BY <2>1, FS_Interval
  <2> QED
    BY <1>1, <2>2
<1>3. f \in Injection(S, places)
  <2>1. ASSUME NEW p \in S, NEW q \in S, p # q PROVE Rank(S, p) # Rank(S, q)
    <3>1. p.sample < q.sample \/ q.sample < p.sample
      BY <1>1, <2>1
    <3> HIDE DEF n
    <3> QED
      BY <1>1, <3>1
  <2>2. f \in [S -> places]
    BY <1>1
  <2>3. \A p, q \in S : f[p] = f[q] => p = q
    BY <2>1
  <2> HIDE DEF f, places
  <2> QED
    BY <2>2, <2>3 DEF Injection, IsInjective
<1> HIDE DEF f, places
<1>4. f \in Surjection(S, places)
  BY <1>1, <1>2, <1>3, FS_Injection
<1>5. i - 1 \in places
  BY <1>1 DEF places
<1>6. \E p \in S : f[p] = i - 1
  BY <1>4, <1>5 DEF Surjection
<1> QED
  BY <1>6 DEF f

(* A table of the client's: the points of a real sample, in any order, and  *)
(* placeholders.                                                           *)
TableType(points) ==
    /\ points \in Seq(Items(points))
    /\ \A p \in Items(points) : p.sample \in 0..Placeholder

Real(points) == {p \in Items(points) : p.sample # Placeholder}

(* Two points of one sample are the same point.                            *)
OneEach(points) ==
    \A i, j \in DOMAIN points :
        points[i].sample = points[j].sample /\ points[i].sample # Placeholder
            => points[i] = points[j]

LEMMA PointsSorted ==
    ASSUME NEW points, TableType(points), OneEach(points)
    PROVE  LET sorted == SortedPoints(points)
           IN  /\ TableType(sorted) /\ DOMAIN sorted = DOMAIN points
               /\ LegalPoints(sorted)
               /\ \A i \in DOMAIN sorted :
                     sorted[i] \in Items(points) \/ sorted[i].sample = Placeholder
<1> DEFINE sorted == SortedPoints(points)
           real == Real(points)
           c == Cardinality(real)
           n == Len(points)
           blank == [sample |-> Placeholder, offset |-> 0, frameSamples |-> 0]
           At(i) == CHOOSE p \in real : Cardinality(Before(real, p)) = i - 1
<1>1. n \in Nat /\ DOMAIN points = 1..n /\ Placeholder \in Nat
  BY EncoderAssumption DEF TableType
<1>2. sorted = [i \in 1..n |-> IF i > c THEN blank ELSE At(i)]
  <2> DEFINE some == {points[i] : i \in {j \in DOMAIN points :
                                           points[j].sample # Placeholder}}
             Form(S) == [i \in DOMAIN points |->
                            IF i > Cardinality(S) THEN blank
                            ELSE CHOOSE p \in S : Cardinality(Before(S, p)) = i - 1]
  <2>1. ASSUME NEW p \in some PROVE p \in real
    BY DEF Real, Items
  <2>2. ASSUME NEW p \in real PROVE p \in some
    <3>1. PICK i \in DOMAIN points : p = points[i]
      BY <2>2 DEF Real, Items
    <3>2. i \in {j \in DOMAIN points : points[j].sample # Placeholder}
      BY <2>2, <3>1 DEF Real
    <3> QED
      BY <3>1, <3>2
  <2>3. some = real
    <3> HIDE DEF some, real
    <3> QED
      BY <2>1, <2>2
  <2>4. sorted = Form(some)
    BY DEF SortedPoints
  <2>5. sorted = Form(real)
    <3> HIDE DEF some, real, Form, sorted
    <3> QED
      BY <2>3, <2>4
  <2> HIDE DEF real, blank, sorted
  <2> QED
    BY <1>1, <2>5
<1>3. Ordered(real)
  <2>1. IsFiniteSet(real)
    <3>1. IsFiniteSet(1..n)
      BY <1>1, FS_Interval
    <3> DEFINE f == [i \in 1..n |-> points[i]]
    <3>2. f \in Surjection(1..n, Items(points))
      <4>1. f \in [1..n -> Items(points)] /\ \A p \in Items(points) : \E i \in 1..n : f[i] = p
        BY <1>1 DEF Items
      <4> HIDE DEF f, n
      <4> QED
        BY <4>1 DEF Surjection
    <3> HIDE DEF f, n
    <3>3. IsFiniteSet(Items(points))
      BY <3>1, <3>2, FS_Surjection
    <3>4. real \in SUBSET Items(points)
      BY DEF Real
    <3> HIDE DEF real
    <3> QED
      BY <3>3, <3>4, FS_Subset
  <2>2. \A p \in real : p.sample \in Nat
    BY DEF TableType, Real
  <2>3. \A p, q \in real : p.sample = q.sample => p = q
    BY DEF OneEach, Real, Items
  <2> HIDE DEF real
  <2> QED
    BY <2>1, <2>2, <2>3 DEF Ordered
<1>4. \A p \in real : p \in Items(points) /\ p.sample \in Nat /\ p.sample < Placeholder
  BY <1>1 DEF TableType, Real
<1> HIDE DEF real
<1>5. c \in Nat /\ \A p, q \in real : p.sample < q.sample => Rank(real, p) < Rank(real, q)
  BY <1>3, RanksOrdered
<1>6. ASSUME NEW i \in 1..c PROVE At(i) \in real /\ Rank(real, At(i)) = i - 1
  <2>1. \E p \in real : Cardinality(Before(real, p)) = i - 1
    BY <1>3, RanksReached DEF Rank
  <2> QED
    BY <2>1 DEF Rank
<1> HIDE DEF At, c, n
<1>7. ASSUME NEW i \in 1..n
      PROVE  \/ i <= c /\ sorted[i] \in real /\ Rank(real, sorted[i]) = i - 1
             \/ i > c /\ sorted[i] = blank
  <2>1. i \in Nat /\ (i <= c \/ i > c)
    BY <1>1, <1>5
  <2>2. CASE i <= c
    <3>1. i \in 1..c /\ sorted[i] = At(i)
      BY <1>2, <1>5, <2>1, <2>2
    <3> QED
      BY <1>6, <2>2, <3>1
  <2>3. CASE i > c
    BY <1>2, <2>3
  <2> QED
    BY <2>1, <2>2, <2>3
<1>8. blank.sample = Placeholder
  OBVIOUS
<1>9. DOMAIN sorted = 1..n
  BY <1>2
<1>10. \A i \in 1..n : /\ sorted[i] \in Items(points) \/ sorted[i].sample = Placeholder
                       /\ sorted[i].sample \in 0..Placeholder
  BY <1>1, <1>4, <1>7, <1>8
<1>11. sorted \in Seq(Items(sorted))
  <2> DEFINE B == Items(points) \cup {blank}
  <2>1. \A i \in 1..n : (IF i > c THEN blank ELSE At(i)) \in B
    <3>1. ASSUME NEW i \in 1..n PROVE (IF i > c THEN blank ELSE At(i)) \in B
      <4>1. sorted[i] \in B
        BY <1>4, <1>7
      <4> QED
        BY <1>2, <4>1
    <3> QED
      BY <3>1
  <2> HIDE DEF B
  <2>2. sorted \in Seq(B)
    BY <1>1, <1>2, <2>1
  <2> HIDE DEF sorted
  <2> QED
    BY <2>2, OfItsItems
<1>12. TableType(sorted)
  <2>1. \A p \in Items(sorted) : p.sample \in 0..Placeholder
    BY <1>9, <1>10 DEF Items
  <2> HIDE DEF sorted
  <2> QED
    BY <1>11, <2>1 DEF TableType
<1>13. LegalPoints(sorted)
  <2>1. Len(sorted) = n
    BY <1>1, <1>9, <1>11
  <2> HIDE DEF sorted
  <2>2. ASSUME NEW i \in 2..n, sorted[i].sample # Placeholder
        PROVE  sorted[i - 1].sample < sorted[i].sample
    <3>1. i \in 1..n /\ i - 1 \in 1..n
      BY <1>1
    <3>2. i <= c /\ sorted[i] \in real /\ Rank(real, sorted[i]) = i - 1
      BY <1>7, <1>8, <2>2, <3>1
    <3>3. sorted[i - 1] \in real /\ Rank(real, sorted[i - 1]) = (i - 1) - 1
      <4>1. ~(i - 1 > c)
        BY <1>5, <3>1, <3>2
      <4> QED
        BY <1>7, <3>1, <4>1
    <3> DEFINE p == sorted[i - 1]
               q == sorted[i]
    <3>4. p \in real /\ q \in real /\ p.sample \in Nat /\ q.sample \in Nat
      BY <1>4, <3>2, <3>3
    <3>5. q.sample < p.sample => Rank(real, q) < Rank(real, p)
      BY <1>5, <3>4
    <3>6. q.sample = p.sample => q = p
      BY <1>3, <3>4 DEF Ordered
    <3> QED
      BY <3>1, <3>2, <3>3, <3>4, <3>5, <3>6
  <2> QED
    BY <2>1, <2>2 DEF LegalPoints
<1> QED
  BY <1>1, <1>9, <1>10, <1>12, <1>13

(* Points that are legal are in order, not only neighbours.                *)
InOrder(points) ==
    \A j, k \in DOMAIN points :
        j < k => \/ points[k].sample = Placeholder
                 \/ points[j].sample < points[k].sample

LEMMA LegalInOrder ==
    ASSUME NEW points, TableType(points), LegalPoints(points)
    PROVE  InOrder(points)
<1> DEFINE n == Len(points)
<1>1. /\ n \in Nat /\ DOMAIN points = 1..n /\ Placeholder \in Nat
      /\ \A i \in 1..n : points[i].sample \in 0..Placeholder
  BY EncoderAssumption DEF TableType, Items
<1>2. SUFFICES ASSUME NEW j \in 1..n
               PROVE  \A k \in 1..n : j < k => \/ points[k].sample = Placeholder
                                               \/ points[j].sample < points[k].sample
  BY <1>1 DEF InOrder
<1> DEFINE bad == {k \in 1..n : /\ j < k /\ points[k].sample # Placeholder
                                /\ ~(points[j].sample < points[k].sample)}
<1>3. SUFFICES ASSUME bad # {} PROVE FALSE
  BY <1>3
<1>4. PICK k \in bad : \A i \in bad : k <= i
  <2>1. bad \subseteq Nat
    BY <1>1
  <2> HIDE DEF bad
  <2> QED
    BY <1>3, <2>1, LeastNumber
<1>5. k \in 2..n /\ k - 1 \in 1..n /\ j <= k - 1
  BY <1>1, <1>4
<1>6. points[k - 1].sample < points[k].sample
  BY <1>4, <1>5 DEF LegalPoints
<1>7. k - 1 \notin bad
  BY <1>1, <1>4, <1>5
<1>8. CASE j = k - 1
  BY <1>4, <1>6, <1>8
<1>9. CASE j < k - 1
  <2>1. points[k - 1].sample = Placeholder \/ points[j].sample < points[k - 1].sample
    BY <1>5, <1>7, <1>9
  <2> DEFINE a == points[j].sample
             b == points[k - 1].sample
             c == points[k].sample
  <2>2. a \in 0..Placeholder /\ b \in 0..Placeholder /\ c \in 0..Placeholder
        /\ b < c /\ (b = Placeholder \/ a < b) /\ ~(a < c)
    BY <1>1, <1>4, <1>5, <1>6, <2>1
  <2> HIDE DEF a, b, c
  <2> QED
    BY <1>1, <2>2
<1> QED
  BY <1>1, <1>5, <1>8, <1>9

(* A point that leads to a frame leads to it when there is a frame more,    *)
(* and to that one the point of its first sample.                          *)
LEMMA StillLeads ==
    ASSUME NEW A, NEW frames \in Seq(A), NEW u \in A, NEW p, LeadsTo(p, frames)
    PROVE  LeadsTo(p, Append(frames, u))
<1> DEFINE more == Append(frames, u)
           n == Len(frames)
<1>1. /\ more \in Seq(A) /\ n \in Nat /\ Len(more) = n + 1 /\ DOMAIN more = 1..(n + 1)
      /\ DOMAIN frames = 1..n /\ \A j \in 1..n : more[j] = frames[j]
  BY AppendProperties
<1>2. PICK i \in 1..n :
        /\ p.sample = Len(AudioOf(SubSeq(frames, 1, i - 1)))
        /\ p.offset = Position(SubSeq(frames, 1, i - 1))
        /\ p.frameSamples = Len(frames[i].coded)
  BY <1>1 DEF LeadsTo
<1> HIDE DEF more
<1>3. SubSeq(more, 1, i - 1) = SubSeq(frames, 1, i - 1)
  BY <1>1, SameBeginning
<1>4. i \in DOMAIN more /\ more[i] = frames[i]
  BY <1>1
<1>5. LeadsTo(p, more)
  BY <1>2, <1>3, <1>4 DEF LeadsTo
<1> QED
  BY <1>5 DEF more

LEMMA LeadsToLast ==
    ASSUME NEW A, NEW frames \in Seq(A), NEW u \in A, NEW p,
           p.sample = Len(AudioOf(frames)), p.offset = Position(frames),
           p.frameSamples = Len(u.coded)
    PROVE  LeadsTo(p, Append(frames, u))
<1> DEFINE more == Append(frames, u)
           n == Len(frames)
<1>1. /\ more \in Seq(A) /\ n \in Nat /\ Len(more) = n + 1 /\ DOMAIN more = 1..(n + 1)
      /\ more[n + 1] = u /\ \A j \in 1..n : more[j] = frames[j]
  BY AppendProperties
<1> HIDE DEF more
<1> DEFINE i == n + 1
<1>2. i \in DOMAIN more /\ i - 1 = n
  BY <1>1
<1>3. SubSeq(more, 1, i - 1) = frames
  <2>1. i \in 1..(n + 1) /\ n <= Len(more)
    BY <1>1
  <2>2. SubSeq(more, 1, i - 1) = SubSeq(frames, 1, i - 1)
    <3> HIDE DEF i
    <3> QED
      BY <1>1, <2>1, SameBeginning
  <2>3. SubSeq(frames, 1, n) = frames
    BY SubSeqFull
  <2> QED
    BY <1>2, <2>2, <2>3
<1>4. more[i] = u
  BY <1>1
<1> HIDE DEF i
<1>5. LeadsTo(p, more)
  BY <1>2, <1>3, <1>4 DEF LeadsTo
<1> QED
  BY <1>5 DEF more

(* A table while a stream is written: the points before the next one lead   *)
(* to frames, the others are in order and not reached yet.                 *)
Pointed(points, next, written, frames) ==
    /\ next \in 1..(Len(points) + 1)
    /\ \A j \in 1..(next - 1) :
          points[j].sample < written /\ LeadsTo(points[j], frames)
    /\ \A j \in next..Len(points) : written <= points[j].sample
    /\ \A j, k \in next..Len(points) : j < k => points[j].sample <= points[k].sample
    /\ OneEach(points)

LEMMA FirstPointed ==
    ASSUME NEW points, TableType(points), LegalPoints(points), NEW frames
    PROVE  Pointed(points, 1, 0, frames)
<1> DEFINE n == Len(points)
<1>1. /\ n \in Nat /\ DOMAIN points = 1..n /\ Placeholder \in Nat
      /\ \A i \in 1..n : points[i].sample \in 0..Placeholder
  BY EncoderAssumption DEF TableType, Items
<1>2. \A j, k \in 1..n : j < k => \/ points[k].sample = Placeholder
                                  \/ points[j].sample < points[k].sample
  BY <1>1, LegalInOrder DEF InOrder
<1> HIDE DEF n
<1>3. ASSUME NEW j \in 1..n, NEW k \in 1..n, j < k
      PROVE  points[j].sample <= points[k].sample
  <2> DEFINE a == points[j].sample
             b == points[k].sample
  <2>1. a \in 0..Placeholder /\ b \in 0..Placeholder /\ (b = Placeholder \/ a < b)
    BY <1>1, <1>2, <1>3
  <2> HIDE DEF a, b
  <2>2. a <= b
    BY <1>1, <2>1
  <2> QED
    BY <2>2 DEF a, b
<1>4. ASSUME NEW i \in 1..n, NEW j \in 1..n, points[i].sample = points[j].sample,
             points[i].sample # Placeholder
      PROVE  points[i] = points[j]
  <2>1. i < j \/ i = j \/ j < i
    BY <1>1
  <2>2. points[i].sample \in Nat /\ points[j].sample \in Nat
    BY <1>1
  <2>3. ~(i < j) /\ ~(j < i)
    BY <1>2, <1>4, <2>2
  <2> QED
    BY <2>1, <2>3
<1>5. OneEach(points)
  BY <1>1, <1>4 DEF OneEach
<1>6. 1 \in 1..(n + 1) /\ 1..(1 - 1) = {}
  BY <1>1
<1>7. \A j \in 1..n : 0 <= points[j].sample
  BY <1>1
<1> QED
  BY <1>3, <1>5, <1>6, <1>7 DEF Pointed, n

(* The points a frame reaches are the next ones up to the first beyond it.  *)
LEMMA ReachedNext ==
    ASSUME NEW points, TableType(points), NEW e, NEW frames,
           Pointed(points, e.firstPoint, e.samplesWritten, frames),
           e.samplesWritten \in Nat, e.blocksize \in Nat
    PROVE  LET last == e.samplesWritten + e.blocksize - 1
           IN  \E m \in e.firstPoint..(Len(points) + 1) :
                  /\ Reached(e, points) = e.firstPoint..(m - 1)
                  /\ Cardinality(Reached(e, points)) = m - e.firstPoint
                  /\ \A i \in m..Len(points) : points[i].sample > last
<1> DEFINE last == e.samplesWritten + e.blocksize - 1
           next == e.firstPoint
           n == Len(points)
           beyond == {i \in next..(n + 1) : i = n + 1 \/ points[i].sample > last}
<1>1. /\ n \in Nat /\ DOMAIN points = 1..n /\ last \in Int
      /\ \A i \in 1..n : points[i].sample \in Nat
  BY EncoderAssumption DEF TableType, Items
<1>2. /\ next \in 1..(n + 1)
      /\ \A j, k \in next..n : j < k => points[j].sample <= points[k].sample
  BY DEF Pointed
<1>3. Reached(e, points) = {i \in next..n : \A j \in next..i : points[j].sample <= last}
  BY DEF Reached
<1> HIDE DEF last, next, n
<1>4. PICK m \in beyond : \A i \in beyond : m <= i
  <2>1. n + 1 \in beyond /\ beyond \subseteq Nat
    BY <1>1, <1>2
  <2> HIDE DEF beyond
  <2>2. beyond # {}
    BY <2>1
  <2> QED
    BY <2>1, <2>2, LeastNumber
<1>5. m \in next..(n + 1) /\ m \in Nat /\ next \in Nat
  BY <1>1, <1>2, <1>4
<1>6. ASSUME NEW i \in next..(m - 1) PROVE points[i].sample <= last
  <2>1. i \in 1..n /\ i \in next..(n + 1) /\ ~(m <= i) /\ i # n + 1
    BY <1>1, <1>2, <1>5
  <2>2. i \notin beyond
    BY <1>4, <2>1
  <2>3. ~(points[i].sample > last) /\ points[i].sample \in Nat
    BY <1>1, <2>1, <2>2
  <2> QED
    BY <1>1, <2>3
<1>7. ASSUME NEW i \in m..n PROVE points[i].sample > last
  <2>1. m \in 1..n /\ i \in 1..n /\ m \in next..n /\ i \in next..n
    BY <1>1, <1>2, <1>5
  <2>2. points[m].sample > last
    BY <1>1, <1>4, <2>1
  <2>3. i = m \/ points[m].sample <= points[i].sample
    BY <1>2, <2>1
  <2>4. points[m].sample \in Nat /\ points[i].sample \in Nat
    BY <1>1, <2>1
  <2> QED
    BY <1>1, <2>2, <2>3, <2>4
<1>8. Reached(e, points) = next..(m - 1)
  <2>1. ASSUME NEW i \in Reached(e, points) PROVE i \in next..(m - 1)
    <3>1. i \in next..n /\ \A j \in next..i : points[j].sample <= last
      BY <1>3, <2>1
    <3>2. CASE i < m
      BY <1>1, <1>5, <3>1, <3>2
    <3>3. CASE ~(i < m)
      <4>1. m \in next..i /\ m \in m..n /\ m \in 1..n
        BY <1>1, <1>2, <1>5, <3>1, <3>3
      <4>2. points[m].sample <= last /\ points[m].sample > last /\ points[m].sample \in Nat
        BY <1>1, <1>7, <3>1, <4>1
      <4> QED
        BY <1>1, <4>2
    <3> QED
      BY <3>2, <3>3
  <2>2. ASSUME NEW i \in next..(m - 1) PROVE i \in Reached(e, points)
    <3>1. i \in next..n /\ \A j \in next..i : j \in next..(m - 1)
      BY <1>1, <1>2, <1>5
    <3> QED
      BY <1>3, <1>6, <3>1
  <2> QED
    BY <2>1, <2>2
<1>9. Cardinality(Reached(e, points)) = m - next
  <2>1. Cardinality(next..(m - 1)) = IF next > m - 1 THEN 0 ELSE (m - 1) - next + 1
    <3>1. next \in Int /\ m - 1 \in Int
      BY <1>5
    <3> QED
      BY <3>1, FS_Interval
  <2> QED
    BY <1>5, <1>8, <2>1
<1> QED
  BY <1>5, <1>7, <1>8, <1>9 DEF last, next, n

LEMMA MarkedType ==
    ASSUME NEW points, TableType(points), NEW e, e.samplesWritten \in 0..Placeholder,
           NEW position
    PROVE  LET marked == Marked(e, points, position)
           IN  TableType(marked) /\ Len(marked) = Len(points)
<1> DEFINE marked == Marked(e, points, position)
           mark == [sample |-> e.samplesWritten, frameSamples |-> e.blocksize,
                    offset |-> position - e.audioOffset]
           n == Len(points)
           B == Items(points) \cup {mark}
           At(i) == IF i \in Reached(e, points) /\ points[i].sample >= e.samplesWritten
                    THEN mark ELSE points[i]
<1>1. /\ n \in Nat /\ DOMAIN points = 1..n
      /\ \A i \in 1..n : points[i] \in Items(points) /\ points[i].sample \in 0..Placeholder
  BY DEF TableType, Items
<1>2. marked = [i \in 1..n |-> At(i)]
  BY <1>1 DEF Marked
<1>3. \A i \in 1..n : At(i) \in B
  BY <1>1
<1>4. mark.sample \in 0..Placeholder
  OBVIOUS
<1>5. \A b \in B : b.sample \in 0..Placeholder
  BY <1>4 DEF TableType
<1> HIDE DEF At, B, n, marked
<1>6. marked \in Seq(B) /\ Len(marked) = n
  BY <1>1, <1>2, <1>3
<1>7. marked \in Seq(Items(marked)) /\ Items(marked) \subseteq B
  BY <1>6, OfItsItems
<1>8. TableType(marked)
  BY <1>5, <1>7 DEF TableType
<1> QED
  BY <1>6, <1>8 DEF marked, n

(* A frame marks the points it reaches, and those before lead where they    *)
(* did.                                                                    *)
LEMMA FrameMarksPoints ==
    ASSUME NEW points, TableType(points), NEW e, NEW A, NEW frames \in Seq(A), NEW u \in A,
           e.samplesWritten = Len(AudioOf(frames)), e.samplesWritten \in 0..Placeholder,
           Len(u.coded) = e.blocksize, e.blocksize \in Nat \ {0},
           Pointed(points, e.firstPoint, e.samplesWritten, frames),
           e.audioOffset \in Nat, Position(frames) \in Nat, NEW position,
           position = e.audioOffset + Position(frames)
    PROVE  Pointed(Marked(e, points, position),
                   e.firstPoint + Cardinality(Reached(e, points)),
                   e.samplesWritten + e.blocksize, Append(frames, u))
<1> DEFINE marked == Marked(e, points, position)
           more == Append(frames, u)
           n == Len(points)
           w == e.samplesWritten
           next == e.firstPoint
           end == w + e.blocksize
           mark == [sample |-> w, frameSamples |-> e.blocksize,
                    offset |-> position - e.audioOffset]
<1>1. /\ n \in Nat /\ DOMAIN points = 1..n /\ w \in Nat /\ Placeholder \in Nat
      /\ \A i \in 1..n : points[i].sample \in Nat
      /\ end \in Nat /\ w < end
  <2>1. Placeholder \in Nat
    BY EncoderAssumption
  <2>2. w \in Nat
    BY <2>1
  <2>3. e.blocksize \in Nat /\ e.blocksize > 0
    OBVIOUS
  <2>4. end \in Nat /\ w < end
    <3> HIDE DEF w
    <3> QED
      BY <2>2, <2>3
  <2> HIDE DEF w, end
  <2> QED
    BY <2>1, <2>2, <2>4 DEF TableType, Items
<1>2. PICK m \in next..(n + 1) :
        /\ Reached(e, points) = next..(m - 1)
        /\ Cardinality(Reached(e, points)) = m - next
        /\ \A i \in m..n : points[i].sample > end - 1
  <2>1. e.samplesWritten \in Nat /\ e.blocksize \in Nat
    BY <1>1
  <2>2. \E i \in e.firstPoint..(Len(points) + 1) :
           /\ Reached(e, points) = e.firstPoint..(i - 1)
           /\ Cardinality(Reached(e, points)) = i - e.firstPoint
           /\ \A j \in i..Len(points) :
                 points[j].sample > e.samplesWritten + e.blocksize - 1
    <3> HIDE DEF n, w, next, end
    <3> QED
      BY <2>1, ReachedNext
  <2> QED
    BY <2>2
<1>3. /\ next \in 1..(n + 1)
      /\ \A j \in 1..(next - 1) : points[j].sample < w /\ LeadsTo(points[j], frames)
      /\ \A j \in next..n : w <= points[j].sample
      /\ \A j, k \in next..n : j < k => points[j].sample <= points[k].sample
      /\ \A i, j \in 1..n : points[i].sample = points[j].sample
                            /\ points[i].sample # Placeholder => points[i] = points[j]
  BY <1>1 DEF Pointed, OneEach
<1>4. /\ DOMAIN marked = 1..n /\ Len(marked) = n
      /\ \A i \in 1..n : marked[i] = IF i \in Reached(e, points) /\ points[i].sample >= w
                                     THEN mark ELSE points[i]
  BY <1>1 DEF Marked
<1>5. LeadsTo(mark, more) /\ mark.sample = w
  <2>1. mark.offset = Position(frames)
    OBVIOUS
  <2>2. mark.sample = Len(AudioOf(frames)) /\ mark.frameSamples = Len(u.coded)
    OBVIOUS
  <2> HIDE DEF mark
  <2> QED
    BY <2>1, <2>2, LeadsToLast
<1> HIDE DEF marked, mark, n, w, next, end, more
<1>6. m \in Nat /\ next \in Nat /\ next <= m /\ m <= n + 1 /\ 1 <= next
      /\ next + (m - next) = m
  BY <1>1, <1>2, <1>3
<1>7. \A i \in 1..(next - 1) : i \in 1..n /\ marked[i] = points[i]
  BY <1>1, <1>2, <1>3, <1>4, <1>6
<1>8. \A i \in next..(m - 1) : i \in 1..n /\ marked[i] = mark
  <2>1. ASSUME NEW i \in next..(m - 1) PROVE i \in 1..n /\ marked[i] = mark
    <3>1. i \in 1..n /\ i \in next..n /\ i \in Reached(e, points)
      BY <1>1, <1>2, <1>6
    <3>2. points[i].sample >= w
      BY <1>1, <1>3, <3>1
    <3> QED
      BY <1>4, <3>1, <3>2
  <2> QED
    BY <2>1
<1>9. \A i \in m..n : i \in 1..n /\ i \in next..n /\ marked[i] = points[i]
                      /\ points[i].sample \in Nat /\ end <= points[i].sample
  <2>1. ASSUME NEW i \in m..n
        PROVE  /\ i \in 1..n /\ i \in next..n /\ marked[i] = points[i]
               /\ points[i].sample \in Nat /\ end <= points[i].sample
    <3>1. i \in 1..n /\ i \in next..n /\ i \notin next..(m - 1)
      BY <1>1, <1>6
    <3>2. points[i].sample > end - 1 /\ points[i].sample \in Nat
      BY <1>1, <1>2, <3>1
    <3> QED
      BY <1>1, <1>2, <1>4, <3>1, <3>2
  <2> QED
    BY <2>1
<1>10. \A i \in 1..n : i \in 1..(next - 1) \/ i \in next..(m - 1) \/ i \in m..n
  BY <1>1, <1>6
<1>11. ASSUME NEW j \in 1..(m - 1)
       PROVE  marked[j].sample < end /\ LeadsTo(marked[j], more)
  <2>1. CASE j \in 1..(next - 1)
    <3>1. marked[j] = points[j] /\ points[j].sample < w /\ LeadsTo(points[j], frames)
          /\ points[j].sample \in Nat
      BY <1>1, <1>3, <1>7, <2>1
    <3>2. LeadsTo(points[j], more)
      BY <3>1, StillLeads DEF more
    <3> QED
      BY <1>1, <3>1, <3>2
  <2>2. CASE j \in next..(m - 1)
    BY <1>1, <1>5, <1>8, <2>2
  <2> QED
    BY <1>6, <2>1, <2>2
<1>12. \A j \in m..n : end <= marked[j].sample
  BY <1>9
<1>13. \A j, k \in m..n : j < k => marked[j].sample <= marked[k].sample
  BY <1>3, <1>9
<1>14. ASSUME NEW i \in 1..n, NEW j \in 1..n, marked[i].sample = marked[j].sample,
              marked[i].sample # Placeholder
       PROVE  marked[i] = marked[j]
  <2>1. \A k \in 1..(next - 1) : points[k].sample < w /\ points[k].sample \in Nat
    BY <1>1, <1>3, <1>7
  <2>2. CASE i \in next..(m - 1) \/ j \in next..(m - 1)
    <3>1. marked[i].sample = w /\ marked[j].sample = w
      BY <1>5, <1>8, <1>14, <2>2
    <3>2. i \in next..(m - 1) /\ j \in next..(m - 1)
      BY <1>1, <1>7, <1>9, <1>10, <2>1, <3>1
    <3> QED
      BY <1>8, <3>2
  <2>3. CASE i \notin next..(m - 1) /\ j \notin next..(m - 1)
    <3>1. marked[i] = points[i] /\ marked[j] = points[j]
      BY <1>7, <1>9, <1>10, <2>3
    <3> QED
      BY <1>3, <1>14, <3>1
  <2> QED
    BY <2>2, <2>3
<1>15. OneEach(marked)
  BY <1>4, <1>14 DEF OneEach
<1>16. m \in 1..(n + 1)
  BY <1>1, <1>6
<1>17. Pointed(marked, m, end, more)
  BY <1>4, <1>11, <1>12, <1>13, <1>15, <1>16 DEF Pointed
<1> QED
  BY <1>2, <1>6, <1>17 DEF marked, more, w, next, end

-----------------------------------------------------------------------------
(* What writing a unit does to the seek table and to where the encoder is   *)
(* in it.                                                                  *)
Marks(e) == e.seekTable # NoTable /\ e.audioOffset > 0

Place(e, units) == IF CanTell(e.client) THEN Position(units) ELSE 0

MarkedTables(e, t, units) ==
    IF Marks(e)
    THEN [t EXCEPT ![e.seekTable] = Marked(e, t[e.seekTable], Place(e, units))] ELSE t

NextPoint(e, t) ==
    IF Marks(e) THEN e.firstPoint + Cardinality(Reached(e, t[e.seekTable]))
    ELSE e.firstPoint

(* The same place in the same table.                                       *)
SamePlace(e, d) ==
    /\ d.seekTable = e.seekTable /\ d.client = e.client /\ d.blocksize = e.blocksize
    /\ d.audioOffset = e.audioOffset /\ d.firstPoint = e.firstPoint
    /\ d.samplesWritten = e.samplesWritten

MovedOn(e, t, units, samples, r) ==
    /\ r.tables \in {t, MarkedTables(e, t, units)}
    /\ r.ok => /\ r.tables = MarkedTables(e, t, units)
               /\ r.enc.audioOffset = e.audioOffset
               /\ r.enc.samplesWritten = e.samplesWritten + samples
               /\ r.enc.firstPoint = NextPoint(e, t)

LEMMA SamePlaceMarks ==
    ASSUME NEW e, NEW d, SamePlace(e, d), NEW t, NEW units
    PROVE  MarkedTables(d, t, units) = MarkedTables(e, t, units)
           /\ NextPoint(d, t) = NextPoint(e, t)
<1>1. \A points : Reached(d, points) = Reached(e, points)
  BY DEF Reached, SamePlace
<1>2. \A points, position : Marked(d, points, position) = Marked(e, points, position)
  BY <1>1 DEF Marked, SamePlace
<1>3. Place(d, units) = Place(e, units) /\ (Marks(d) <=> Marks(e))
  BY DEF Place, Marks, SamePlace
<1> QED
  BY <1>1, <1>2, <1>3 DEF MarkedTables, NextPoint, SamePlace

LEMMA SameMoves ==
    ASSUME NEW e, NEW d, SamePlace(e, d), NEW t, NEW units, NEW samples, NEW r,
           MovedOn(d, t, units, samples, r)
    PROVE  MovedOn(e, t, units, samples, r)
  BY SamePlaceMarks DEF MovedOn, SamePlace

LEMMA FailedStays ==
    ASSUME NEW e, NEW t, NEW units, NEW samples, NEW d, NEW state
    PROVE  MovedOn(e, t, units, samples, Failed(d, t, units, state))
<1> DEFINE r == Failed(d, t, units, state)
<1>1. r.tables = t /\ r.ok = FALSE
  BY DEF Failed
<1> HIDE DEF r
<1>2. MovedOn(e, t, units, samples, r)
  BY <1>1 DEF MovedOn
<1> QED
  BY <1>2 DEF r

LEMMA WriteFrameMarks ==
    ASSUME NEW e, Whole(e), NEW t, NEW units, NEW unit, NEW samples \in Nat, NEW f
    PROVE  MovedOn(e, t, units, samples, WriteFrame(e, t, units, unit, samples, f))
<1> DEFINE position == IF CanTell(e.client) THEN Position(units) ELSE 0
           marks == e.seekTable # NoTable /\ e.audioOffset > 0
           located ==
               CASE samples = 0 /\ unit.type = "streaminfo" ->
                        [e EXCEPT !.streaminfoOffset = position]
                 [] samples = 0 /\ unit.type = "seektable" /\ e.seektableOffset = 0 ->
                        [e EXCEPT !.seektableOffset = position]
                 [] OTHER -> e
           marked == IF marks THEN [t EXCEPT ![e.seekTable] = Marked(e, @, position)]
                     ELSE t
           advanced == IF marks
                       THEN [located EXCEPT
                               !.firstPoint = @ + Cardinality(Reached(e, t[e.seekTable]))]
                       ELSE located
           r == WriteFrame(e, t, units, unit, samples, f)
<1>1. r = CASE f = "tell" -> Failed(e, t, units, "CLIENT_ERROR")
            [] f = "write" -> Failed(advanced, marked, units, "CLIENT_ERROR")
            [] OTHER -> Done([advanced EXCEPT !.samplesWritten = @ + samples],
                             marked, Append(units, unit))
  BY DEF WriteFrame
<1>2. marked = MarkedTables(e, t, units)
  BY DEF MarkedTables, Marks, Place
<1> HIDE DEF r, marked
<1>3. \/ located = e \/ located = [e EXCEPT !.streaminfoOffset = position]
      \/ located = [e EXCEPT !.seektableOffset = position]
  OBVIOUS
<1> HIDE DEF located, position
<1>4. Whole(located) /\ SamePlace(e, located)
  BY <1>3 DEF EncoderFields, Whole, SamePlace
<1> DEFINE k == NextPoint(e, t)
<1>5. advanced = [located EXCEPT !.firstPoint = k] \/ (advanced = located /\ k = e.firstPoint)
  BY <1>4 DEF NextPoint, Marks, SamePlace
<1> HIDE DEF advanced, k
<1>6. /\ Whole(advanced) /\ advanced.firstPoint = k
      /\ advanced.audioOffset = e.audioOffset /\ advanced.samplesWritten = e.samplesWritten
  BY <1>4, <1>5 DEF EncoderFields, Whole, SamePlace
<1>7. CASE f = "tell"
  BY <1>1, <1>7, FailedStays DEF r
<1>8. CASE f = "write"
  <2>1. r = Failed(advanced, marked, units, "CLIENT_ERROR")
    BY <1>1, <1>8
  <2>2. r.tables = marked /\ r.ok = FALSE
    BY <2>1 DEF Failed
  <2> QED
    BY <1>2, <2>2 DEF MovedOn, r
<1>9. CASE f # "tell" /\ f # "write"
  <2> DEFINE d == [advanced EXCEPT !.samplesWritten = @ + samples]
  <2>1. r = Done(d, marked, Append(units, unit))
    BY <1>1, <1>9
  <2>2. /\ d.firstPoint = k /\ d.audioOffset = e.audioOffset
        /\ d.samplesWritten = e.samplesWritten + samples
    BY <1>6 DEF EncoderFields, Whole
  <2> HIDE DEF d
  <2>3. r.enc = d /\ r.tables = marked
    BY <2>1 DEF Done
  <2> QED
    BY <1>2, <2>2, <2>3 DEF MovedOn, r, k
<1> QED
  BY <1>7, <1>8, <1>9

(* What a unit that is written leaves.                                     *)
LEMMA WriteFrameDone ==
    ASSUME NEW e, Whole(e), NEW t, NEW units, NEW unit, NEW samples \in Nat, NEW f
    PROVE  LET r == WriteFrame(e, t, units, unit, samples, f)
           IN  r.ok => Result(r) /\ Whole(r.enc)
<1> DEFINE r == WriteFrame(e, t, units, unit, samples, f)
<1>1. \/ \E d, more, state : r = Failed(d, more, units, state)
      \/ \E d, more : r = Done([d EXCEPT !.samplesWritten = @ + samples], more,
                               Append(units, unit)) /\ Whole(d)
  <2> DEFINE position == IF CanTell(e.client) THEN Position(units) ELSE 0
             marks == e.seekTable # NoTable /\ e.audioOffset > 0
             located ==
                 CASE samples = 0 /\ unit.type = "streaminfo" ->
                          [e EXCEPT !.streaminfoOffset = position]
                   [] samples = 0 /\ unit.type = "seektable" /\ e.seektableOffset = 0 ->
                          [e EXCEPT !.seektableOffset = position]
                   [] OTHER -> e
             marked == IF marks THEN [t EXCEPT ![e.seekTable] = Marked(e, @, position)]
                       ELSE t
             advanced == IF marks
                         THEN [located EXCEPT
                                 !.firstPoint = @ + Cardinality(Reached(e, t[e.seekTable]))]
                         ELSE located
  <2>1. r = CASE f = "tell" -> Failed(e, t, units, "CLIENT_ERROR")
              [] f = "write" -> Failed(advanced, marked, units, "CLIENT_ERROR")
              [] OTHER -> Done([advanced EXCEPT !.samplesWritten = @ + samples],
                               marked, Append(units, unit))
    BY DEF WriteFrame
  <2> HIDE DEF r, marked, position
  <2>2. \/ located = e \/ located = [e EXCEPT !.streaminfoOffset = position]
        \/ located = [e EXCEPT !.seektableOffset = position]
    OBVIOUS
  <2> HIDE DEF located
  <2>3. Whole(located)
    BY <2>2 DEF EncoderFields, Whole
  <2>4. Whole(advanced)
    BY <2>3 DEF EncoderFields, Whole
  <2> HIDE DEF advanced
  <2> QED
    BY <2>1, <2>4
<1> HIDE DEF r
<1>2. SUFFICES ASSUME r.ok
               PROVE  Result(r) /\ Whole(r.enc)
  BY DEF r
<1>3. PICK d, more : r = Done([d EXCEPT !.samplesWritten = @ + samples], more,
                              Append(units, unit)) /\ Whole(d)
  <2>1. ASSUME NEW d, NEW more, NEW state, r = Failed(d, more, units, state)
        PROVE  FALSE
    <3>1. r.ok = FALSE
      BY <2>1 DEF Failed
    <3> QED
      BY <1>2, <3>1
  <2> QED
    BY <1>1, <2>1
<1> DEFINE k == [d EXCEPT !.samplesWritten = @ + samples]
<1>4. Whole(k)
  BY <1>3 DEF EncoderFields, Whole
<1> HIDE DEF k
<1>5. r = [enc |-> k, tables |-> more, out |-> Append(units, unit), ok |-> TRUE]
  BY <1>3 DEF Done, k
<1> QED
  BY <1>4, <1>5 DEF Result

LEMMA WriteDone ==
    ASSUME NEW e, Whole(e), NEW t, NEW units, NEW unit, NEW samples \in Nat, NEW f
    PROVE  LET r == WriteBitbuffer(e, t, units, unit, samples, f)
           IN  r.ok => Result(r) /\ Whole(r.enc)
<1> DEFINE checks == e.verify /\ e.hint # "magic"
           checked == IF checks /\ unit.type = "frame" THEN Verified(e, unit) ELSE e
           written == WriteFrame(checked, t, units, unit, samples, f)
           info == written.enc.streaminfo
           patched == [written EXCEPT !.enc.streaminfo =
                         [info EXCEPT !.min = Smaller(unit.size, info.min),
                                      !.max = Larger(unit.size, info.max)]]
           r == WriteBitbuffer(e, t, units, unit, samples, f)
<1>1. r = IF f = "memory" THEN Failed(e, t, units, "MEMORY_ERROR")
          ELSE IF checks /\ f = "decoder"
          THEN Failed(e, t, units, "VERIFY_DECODER_ERROR")
          ELSE IF checked.state = "VERIFY_MISMATCH"
          THEN Failed(checked, t, units, "VERIFY_MISMATCH")
          ELSE IF written.ok /\ samples > 0 THEN patched ELSE written
  BY DEF WriteBitbuffer
<1>2. \/ checked = e \/ \E x : checked = [e EXCEPT !.fifo = x]
      \/ checked = [e EXCEPT !.state = "VERIFY_MISMATCH"]
  BY DEF Verified
<1> HIDE DEF checked
<1>3. Whole(checked)
  BY <1>2 DEF EncoderFields, Whole
<1>4. written.ok => Result(written) /\ Whole(written.enc)
  BY <1>3, WriteFrameDone
<1> HIDE DEF written
<1>5. ASSUME written.ok PROVE Result(patched) /\ Whole(patched.enc)
  <2> DEFINE d == [written.enc EXCEPT !.streaminfo =
                     [info EXCEPT !.min = Smaller(unit.size, info.min),
                                  !.max = Larger(unit.size, info.max)]]
  <2>1. patched = [enc |-> d, tables |-> written.tables, out |-> written.out,
                   ok |-> written.ok]
    <3>1. Result(written)
      BY <1>4, <1>5
    <3> QED
      BY <3>1 DEF Result
  <2>2. Whole(d)
    BY <1>4, <1>5 DEF EncoderFields, Whole
  <2> HIDE DEF d, patched
  <2> QED
    BY <1>4, <1>5, <2>1, <2>2 DEF Result
<1> HIDE DEF patched
<1>6. \/ \E d, state : r = Failed(d, t, units, state)
      \/ r = written
      \/ (r = patched /\ written.ok)
  <2> HIDE DEF r, checks
  <2>1. \/ r = Failed(e, t, units, "MEMORY_ERROR")
        \/ r = Failed(e, t, units, "VERIFY_DECODER_ERROR")
        \/ r = Failed(checked, t, units, "VERIFY_MISMATCH")
        \/ r = written
        \/ (r = patched /\ written.ok)
    <3> HIDE DEF info
    <3>1. CASE f = "memory"
      BY <1>1, <3>1
    <3>2. CASE f # "memory" /\ checks /\ f = "decoder"
      BY <1>1, <3>2
    <3>3. CASE /\ f # "memory" /\ ~(checks /\ f = "decoder")
               /\ checked.state = "VERIFY_MISMATCH"
      BY <1>1, <3>3
    <3>4. CASE /\ f # "memory" /\ ~(checks /\ f = "decoder")
               /\ checked.state # "VERIFY_MISMATCH"
      BY <1>1, <3>4
    <3> QED
      BY <3>1, <3>2, <3>3, <3>4
  <2> QED
    BY <2>1
<1> HIDE DEF r
<1>7. r.ok => Result(r) /\ Whole(r.enc)
  <2>1. ASSUME NEW d, NEW state, r = Failed(d, t, units, state) PROVE r.ok = FALSE
    BY <2>1 DEF Failed
  <2> QED
    BY <1>4, <1>5, <1>6, <2>1
<1> QED
  BY <1>7 DEF r

(* The same, through the verification, of a unit of the header or a frame.  *)
LEMMA WriteMarks ==
    ASSUME NEW e, Whole(e), NEW t, NEW units, NEW unit, NEW samples \in Nat, NEW f
    PROVE  MovedOn(e, t, units, samples, WriteBitbuffer(e, t, units, unit, samples, f))
<1> DEFINE checks == e.verify /\ e.hint # "magic"
           checked == IF checks /\ unit.type = "frame" THEN Verified(e, unit) ELSE e
           written == WriteFrame(checked, t, units, unit, samples, f)
           info == written.enc.streaminfo
           patched == [written EXCEPT !.enc.streaminfo =
                         [info EXCEPT !.min = Smaller(unit.size, info.min),
                                      !.max = Larger(unit.size, info.max)]]
           r == WriteBitbuffer(e, t, units, unit, samples, f)
<1>1. r = IF f = "memory" THEN Failed(e, t, units, "MEMORY_ERROR")
          ELSE IF checks /\ f = "decoder"
          THEN Failed(e, t, units, "VERIFY_DECODER_ERROR")
          ELSE IF checked.state = "VERIFY_MISMATCH"
          THEN Failed(checked, t, units, "VERIFY_MISMATCH")
          ELSE IF written.ok /\ samples > 0 THEN patched ELSE written
  BY DEF WriteBitbuffer
<1>2. \/ checked = e \/ \E x : checked = [e EXCEPT !.fifo = x]
      \/ checked = [e EXCEPT !.state = "VERIFY_MISMATCH"]
  BY DEF Verified
<1> HIDE DEF checked
<1>3. SamePlace(e, checked) /\ Whole(checked)
  BY <1>2 DEF EncoderFields, Whole, SamePlace
<1>4. MovedOn(e, t, units, samples, written)
  BY <1>3, WriteFrameMarks, SameMoves
<1> HIDE DEF written
<1>5. ASSUME written.ok PROVE MovedOn(e, t, units, samples, patched)
  <2> DEFINE d == [written.enc EXCEPT !.streaminfo =
                     [info EXCEPT !.min = Smaller(unit.size, info.min),
                                  !.max = Larger(unit.size, info.max)]]
  <2>1. Result(written) /\ Whole(written.enc)
    BY <1>3, <1>5, WriteFrameDone DEF written
  <2>2. patched = [enc |-> d, tables |-> written.tables, out |-> written.out,
                   ok |-> written.ok]
    BY <2>1 DEF Result
  <2>3. /\ d.audioOffset = written.enc.audioOffset
        /\ d.firstPoint = written.enc.firstPoint
        /\ d.samplesWritten = written.enc.samplesWritten
    BY <2>1 DEF EncoderFields, Whole
  <2> HIDE DEF d, patched
  <2>4. patched.enc = d /\ patched.tables = written.tables
    BY <2>2
  <2> QED
    BY <1>4, <1>5, <2>3, <2>4 DEF MovedOn
<1> HIDE DEF patched
<1>6. \/ \E d, state : r = Failed(d, t, units, state)
      \/ r = written
      \/ (r = patched /\ written.ok)
  <2> HIDE DEF r, checks
  <2>1. \/ r = Failed(e, t, units, "MEMORY_ERROR")
        \/ r = Failed(e, t, units, "VERIFY_DECODER_ERROR")
        \/ r = Failed(checked, t, units, "VERIFY_MISMATCH")
        \/ r = written
        \/ (r = patched /\ written.ok)
    <3> HIDE DEF info
    <3>1. CASE f = "memory"
      BY <1>1, <3>1
    <3>2. CASE f # "memory" /\ checks /\ f = "decoder"
      BY <1>1, <3>2
    <3>3. CASE /\ f # "memory" /\ ~(checks /\ f = "decoder")
               /\ checked.state = "VERIFY_MISMATCH"
      BY <1>1, <3>3
    <3>4. CASE /\ f # "memory" /\ ~(checks /\ f = "decoder")
               /\ checked.state # "VERIFY_MISMATCH"
      BY <1>1, <3>4
    <3> QED
      BY <3>1, <3>2, <3>3, <3>4
  <2> QED
    BY <2>1
<1> HIDE DEF r
<1>7. MovedOn(e, t, units, samples, r)
  BY <1>4, <1>5, <1>6, FailedStays
<1> QED
  BY <1>7 DEF r

(* And a block that becomes a frame.                                       *)
LEMMA ProcessMarks ==
    ASSUME NEW e, Whole(e), e.blocksize \in Nat,
           NEW t, NEW units, NEW wrong, NEW size, NEW f
    PROVE  MovedOn(e, t, units, e.blocksize, ProcessFrame(e, t, units, wrong, size, f))
<1> DEFINE n == e.blocksize
           wasted == Wasted(SubSeq(e.signal, 1, n))
           shifted == [e EXCEPT !.signal = Shifted(@, n, wasted)]
           coded == [i \in 1..n |-> IF wrong /\ i = 1 THEN shifted.signal[i] + 1
                                    ELSE shifted.signal[i]]
           frame == [type |-> "frame", number |-> e.frameNumber, wasted |-> wasted,
                     coded |-> coded, size |-> size]
           written == WriteBitbuffer(shifted, t, units, frame, n, f)
           ended == [written EXCEPT
                        !.enc.signal = SubSeq(@, n + 1, Len(@)),
                        !.enc.frameNumber = @ + 1,
                        !.enc.streaminfo.total = @ + n]
           r == ProcessFrame(e, t, units, wrong, size, f)
<1>1. r = CASE f = "framing" -> Failed(shifted, t, units, "FRAMING_ERROR")
            [] f # "framing" /\ written.ok -> ended
            [] OTHER -> written
  BY DEF ProcessFrame
<1> HIDE DEF wasted
<1>2. SamePlace(e, shifted) /\ Whole(shifted)
  BY DEF EncoderFields, Whole, SamePlace
<1> HIDE DEF shifted, frame
<1>3. MovedOn(e, t, units, n, written)
  BY <1>2, WriteMarks, SameMoves
<1>4. written.ok => Result(written) /\ Whole(written.enc)
  BY <1>2, WriteDone
<1> HIDE DEF r, written
<1>5. ASSUME written.ok PROVE MovedOn(e, t, units, n, ended)
  <2> DEFINE d == [written.enc EXCEPT !.signal = SubSeq(@, n + 1, Len(@)),
                                      !.frameNumber = @ + 1,
                                      !.streaminfo.total = @ + n]
             w == written.enc
             rest == SubSeq(w.signal, n + 1, Len(w.signal))
             k == w.frameNumber + 1
  <2>1. ended.enc = d /\ ended.tables = written.tables
    <3>1. Result(written) /\ Whole(written.enc)
      BY <1>4, <1>5
    <3>2. DOMAIN written = {"enc", "tables", "out", "ok"}
      <4> HIDE DEF ended
      <4> QED
        BY <3>1 DEF Result
    <3>3. DOMAIN written.enc = EncoderFields
      <4> HIDE DEF ended
      <4> QED
        BY <3>1 DEF Whole
    <3> HIDE DEF n
    <3> QED
      BY <3>2, <3>3 DEF EncoderFields
  <2>2. \A j \in EncoderFields \ {"signal", "frameNumber", "streaminfo"} : d[j] = w[j]
    <3>1. DOMAIN w = EncoderFields
      BY <1>4, <1>5 DEF Whole
    <3>2. d = [w EXCEPT !.signal = rest, !.frameNumber = k, !.streaminfo.total = @ + n]
      OBVIOUS
    <3> HIDE DEF w, d, n, k, rest
    <3> QED
      BY <3>1, <3>2 DEF EncoderFields
  <2>4. /\ d.audioOffset = written.enc.audioOffset
        /\ d.firstPoint = written.enc.firstPoint
        /\ d.samplesWritten = written.enc.samplesWritten
    <3> HIDE DEF d
    <3> QED
      BY <2>2 DEF EncoderFields
  <2> HIDE DEF d, ended
  <2> QED
    BY <1>3, <1>5, <2>1, <2>4 DEF MovedOn
<1> HIDE DEF ended
<1>6. CASE f = "framing"
  <2>1. r = Failed(shifted, t, units, "FRAMING_ERROR")
    BY <1>1, <1>6
  <2> QED
    BY <2>1, FailedStays DEF r
<1>7. CASE f # "framing" /\ written.ok
  <2>1. r = ended
    BY <1>1, <1>7
  <2> QED
    BY <1>5, <1>7, <2>1 DEF r
<1>8. CASE f # "framing" /\ ~written.ok
  <2>1. r = written
    BY <1>1, <1>8
  <2> QED
    BY <1>3, <2>1 DEF r
<1> QED
  BY <1>6, <1>7, <1>8

-----------------------------------------------------------------------------
(* The invariant.                                                          *)
TablesType(t) ==
    /\ t = [n \in DOMAIN Templates |-> t[n]]
    /\ \A n \in DOMAIN Templates : TableType(t[n])

Table(u) == u.type = "seektable"
HasTable(units) == \E k \in 1..Len(units) : Table(units[k])

OneTable(units) ==
    \A k \in 1..Len(units) : Table(units[k]) =>
        /\ "points" \in DOMAIN units[k]
        /\ \A j \in 1..Len(units) : Table(units[j]) => j = k

TrueTables(units) ==
    \A k \in 1..Len(units) : Table(units[k]) =>
        /\ LegalPoints(units[k].points)
        /\ \A j \in DOMAIN units[k].points :
              units[k].points[j].sample < Len(AudioOf(FramesOf(units)))
                  => LeadsTo(units[k].points[j], FramesOf(units))

(* While the header is written the encoder does not look at its seek table, *)
(* and every unit is one byte long.                                        *)
HeaderAt(e, t, units, todo) ==
    /\ e.audioOffset = 0 /\ e.firstPoint = 1 /\ e.samplesWritten = 0
    /\ \A k \in 1..Len(units) : units[k].size = 1
    /\ \A k \in 1..Len(todo) : todo[k].size = 1
    /\ Position(units) = Len(units)
    /\ OneTable(units \o todo)
    /\ e.client # "file" => e.seektableOffset = 0
    /\ e.client = "file" /\ HasTable(units) => e.seektableOffset # 0
    /\ HasTable(units \o todo) =>
          e.seekTable \in DOMAIN Templates /\ LegalPoints(t[e.seekTable])

(* Then the points that were reached lead to their frames.                 *)
SeekAt(e, t, units) ==
    /\ e.samplesWritten = Len(AudioOf(FramesOf(units)))
    /\ OneTable(units)
    /\ e.client # "file" => e.seektableOffset = 0
    /\ e.client = "file" /\ HasTable(units) =>
          /\ e.seektableOffset # 0 /\ e.seekTable \in DOMAIN Templates
          /\ Pointed(t[e.seekTable], e.firstPoint, e.samplesWritten, FramesOf(units))

(* Where the audio begins.                                                 *)
AudioAt(e, units) ==
    /\ \A u \in Items(units) : u.size \in Nat
    /\ e.client = "file" =>
          /\ e.audioOffset \in Nat \ {0}
          /\ Position(units) = e.audioOffset + Position(FramesOf(units))

SeekBegun ==
    enc.state = "OK" =>
        /\ call.op = "init" => HeaderAt(enc, tables, out, call.todo)
        /\ call.op \in {"none", "process"} => SeekAt(enc, tables, out) /\ AudioAt(enc, out)
        /\ call.op = "finish" =>
              IF call.todo = <<>> THEN enc.client = "file" => TrueTables(out)
              ELSE SeekAt(enc, tables, out)

SeekDone ==
    finish = "true" /\ ~history.failed /\ history.client = "file" => TrueTables(out)

SeekInv == TablesType(tables) /\ Len(given) <= Len(Signal) /\ SeekBegun /\ SeekDone

-----------------------------------------------------------------------------
(* The units of the header, one by one: their seek table is that of the     *)
(* metadata, if there is one.                                              *)
LEMMA HeaderUnitsAre ==
    ASSUME NEW e, EncoderType(e)
    PROVE  LET units == HeaderUnits(e)
               list == e.metadata
           IN  \E h \in {0, 1} :
                  /\ Len(units) = 2 + h + Len(list)
                  /\ \A k \in 1..(2 + h) : units[k].size = 1 /\ ~Table(units[k])
                  /\ \A i \in 1..Len(list) :
                        LET u == units[i + (2 + h)]
                        IN  /\ u.size = 1
                            /\ Table(u) => /\ list[i].type = "seektable"
                                           /\ "points" \in DOMAIN u
<1> DEFINE list == e.metadata
           info == [type |-> "streaminfo", size |-> 1, last |-> FALSE,
                    total |-> 0, sizes |-> <<0, 0>>]
           comment == [type |-> "vorbis", size |-> 1, last |-> list = <<>>]
           magic == [type |-> "magic", size |-> 1]
           it(i) == LET last == i = Len(list)
                    IN  IF list[i].type = "seektable"
                        THEN [type |-> "seektable", size |-> 1, last |-> last,
                              points |-> tables[list[i].table]]
                        ELSE [type |-> list[i].type, size |-> 1, last |-> last]
           begin == <<magic, info>>
           middle == IF OfType(list, "vorbis") = {} THEN <<comment>> ELSE <<>>
           end == [i \in DOMAIN list |-> it(i)]
           U == {magic, info, comment} \cup {it(i) : i \in 1..Len(list)}
           front == begin \o middle
           units == front \o end
           n == Len(list)
           h == Len(middle)
<1>1. n \in Nat /\ DOMAIN list = 1..n
  BY DEF EncoderType
<1>2. /\ magic.size = 1 /\ ~Table(magic)
      /\ info.size = 1 /\ ~Table(info)
      /\ comment.size = 1 /\ ~Table(comment)
  BY DEF Table
<1>3. ASSUME NEW i \in 1..n
      PROVE  /\ it(i).size = 1
             /\ Table(it(i)) => list[i].type = "seektable" /\ "points" \in DOMAIN it(i)
  <2> HIDE DEF list
  <2>1. CASE list[i].type = "seektable"
    BY <2>1
  <2>2. CASE list[i].type # "seektable"
    BY <2>2 DEF Table
  <2> QED
    BY <2>1, <2>2
<1>4. HeaderUnits(e) = units
  BY DEF HeaderUnits
<1>5. h \in {0, 1} /\ (h = 1 => middle = <<comment>>)
  <2>1. CASE OfType(list, "vorbis") = {}
    <3>1. middle = <<comment>> /\ Len(<<comment>>) = 1
      BY <2>1
    <3> QED
      BY <3>1
  <2>2. CASE OfType(list, "vorbis") # {}
    <3>1. middle = <<>> /\ h = 0
      BY <2>2
    <3> QED
      BY <3>1
  <2> QED
    BY <2>1, <2>2
<1> HIDE DEF it, magic, info, comment, list
<1>6. begin \in Seq(U) /\ middle \in Seq(U) /\ Len(begin) = 2
      /\ begin[1] = magic /\ begin[2] = info
  <2>1. magic \in U /\ info \in U /\ comment \in U
    OBVIOUS
  <2> HIDE DEF U
  <2> QED
    BY <2>1
<1>7. end \in Seq(U) /\ Len(end) = n /\ \A i \in 1..n : end[i] = it(i)
  BY <1>1
<1> HIDE DEF begin, middle, end, U, front, units, n, h
<1>8. /\ front \in Seq(U) /\ Len(front) = 2 + h
      /\ \A k \in 1..(2 + h) : front[k].size = 1 /\ ~Table(front[k])
  <2>1. h \in Nat /\ Len(middle) = h /\ 2 \in Nat
    BY <1>5 DEF h
  <2>2. Joint(U, begin, middle, 2, h)
    <3>1. Joint(U, begin, middle, Len(begin), Len(middle))
      BY <1>6, ConcatJoint, Zenon
    <3> QED
      BY <1>6, <2>1, <3>1, Zenon
  <2>3. /\ front \in Seq(U) /\ Len(front) = 2 + h
        /\ \A k \in 1..(2 + h) : front[k] = IF k <= 2 THEN begin[k] ELSE middle[k - 2]
    BY <2>2, Zenon DEF Joint, front
  <2>4. ASSUME NEW k \in 1..(2 + h) PROVE front[k].size = 1 /\ ~Table(front[k])
    <3>1. CASE k = 1
      <4>1. front[k] = begin[1]
        BY <2>3, <3>1
      <4> QED
        BY <1>2, <1>6, <4>1
    <3>2. CASE k = 2
      <4>1. front[k] = begin[2]
        BY <2>3, <3>2
      <4> QED
        BY <1>2, <1>6, <4>1
    <3>3. CASE k \notin {1, 2}
      <4>1. h = 1 /\ k = 3 /\ k - 2 = 1 /\ ~(k <= 2)
        BY <1>5, <3>3
      <4>2. front[k] = middle[1]
        BY <2>3, <4>1
      <4>3. middle[1] = comment
        BY <1>5, <4>1
      <4> QED
        BY <1>2, <4>2, <4>3
    <3> QED
      BY <3>1, <3>2, <3>3
  <2> QED
    BY <2>3, <2>4
<1>9. /\ Len(units) = (2 + h) + n
      /\ \A k \in 1..(2 + h) : units[k] = front[k]
      /\ \A i \in 1..n : units[i + (2 + h)] = it(i)
  <2>1. 2 + h \in Nat /\ n \in Nat
    BY <1>1, <1>5 DEF n
  <2>2. Joint(U, front, end, 2 + h, n)
    <3>1. front \in Seq(U) /\ end \in Seq(U) /\ Len(front) = 2 + h /\ Len(end) = n
      BY <1>7, <1>8
    <3>2. Joint(U, front, end, Len(front), Len(end))
      BY <3>1, ConcatJoint, Zenon
    <3> QED
      BY <3>1, <3>2, Zenon
  <2>3. /\ Len(units) = (2 + h) + n
        /\ \A k \in 1..((2 + h) + n) :
              units[k] = IF k <= 2 + h THEN front[k] ELSE end[k - (2 + h)]
    BY <2>2, Zenon DEF Joint, units
  <2>4. \A k \in 1..(2 + h) : k \in 1..((2 + h) + n) /\ k <= 2 + h
    BY <2>1
  <2>5. \A i \in 1..n : /\ i + (2 + h) \in 1..((2 + h) + n) /\ ~(i + (2 + h) <= 2 + h)
                        /\ (i + (2 + h)) - (2 + h) = i
    BY <2>1
  <2> QED
    BY <1>7, <2>3, <2>4, <2>5
<1>10. /\ Len(units) = 2 + h + Len(list)
       /\ \A k \in 1..(2 + h) : units[k].size = 1 /\ ~Table(units[k])
       /\ \A i \in 1..Len(list) :
             /\ units[i + (2 + h)].size = 1
             /\ Table(units[i + (2 + h)]) =>
                   list[i].type = "seektable" /\ "points" \in DOMAIN units[i + (2 + h)]
  BY <1>3, <1>8, <1>9 DEF n
<1>11. h \in {0, 1}
  BY <1>5
<1> QED
  BY <1>4, <1>10, <1>11 DEF list

LEMMA OneOfAtMostOne ==
    ASSUME NEW n \in Nat, NEW S \in SUBSET (1..n), Cardinality(S) <= 1,
           NEW i \in S, NEW j \in S
    PROVE  i = j
<1>1. IsFiniteSet(S)
  <2>1. IsFiniteSet(1..n)
    BY FS_Interval
  <2> QED
    BY <2>1, FS_Subset
<1>2. SUFFICES ASSUME i # j PROVE FALSE
  OBVIOUS
<1>3. IsFiniteSet({i}) /\ Cardinality({i}) = 1
  BY FS_Singleton
<1>4. Cardinality({i} \cup {j}) = 2
  <2>1. j \notin {i}
    BY <1>2
  <2> QED
    BY <1>3, <2>1, FS_AddElement
<1>5. Cardinality({i} \cup {j}) <= Cardinality(S)
  <2>1. {i} \cup {j} \subseteq S
    OBVIOUS
  <2> QED
    BY <1>1, <2>1, FS_Subset
<1>6. Cardinality(S) \in Nat
  BY <1>1, FS_CardinalityType
<1> QED
  BY <1>4, <1>5, <1>6

LEMMA HeaderTables ==
    ASSUME NEW e, EncoderType(e), LegalMetadata(e.metadata)
    PROVE  LET units == HeaderUnits(e)
           IN  /\ \A k \in 1..Len(units) : units[k].size = 1
               /\ OneTable(units)
               /\ HasTable(units) => OfType(e.metadata, "seektable") # {}
<1> DEFINE units == HeaderUnits(e)
           list == e.metadata
           n == Len(list)
           S == OfType(list, "seektable")
<1>1. PICK h \in {0, 1} :
        /\ Len(units) = 2 + h + Len(list)
        /\ \A k \in 1..(2 + h) : units[k].size = 1 /\ ~Table(units[k])
        /\ \A i \in 1..Len(list) :
              LET u == units[i + (2 + h)]
              IN  /\ u.size = 1
                  /\ Table(u) => list[i].type = "seektable" /\ "points" \in DOMAIN u
  BY HeaderUnitsAre, Zenon
<1>2. n \in Nat /\ DOMAIN list = 1..n
  BY DEF EncoderType
<1>3. S \in SUBSET (1..n) /\ Cardinality(S) <= 1
  BY <1>2 DEF OfType, LegalMetadata
<1>4. \A i \in 1..n : list[i].type = "seektable" => i \in S
  BY <1>2 DEF OfType
<1> HIDE DEF units, list, S
<1>5. ASSUME NEW k \in 1..Len(units)
      PROVE  /\ units[k].size = 1
             /\ Table(units[k]) => "points" \in DOMAIN units[k] /\ k - (2 + h) \in S
  <2>1. CASE k <= 2 + h
    <3>1. k \in 1..(2 + h)
      BY <2>1
    <3> QED
      BY <1>1, <3>1
  <2>2. CASE ~(k <= 2 + h)
    <3> DEFINE i == k - (2 + h)
    <3>1. i \in 1..Len(list) /\ i + (2 + h) = k
      BY <1>1, <1>2, <2>2 DEF n
    <3> HIDE DEF i
    <3>2. /\ units[k].size = 1
          /\ Table(units[k]) => list[i].type = "seektable" /\ "points" \in DOMAIN units[k]
      BY <1>1, <3>1
    <3>3. Table(units[k]) => i \in S
      BY <1>4, <3>1, <3>2 DEF n
    <3> QED
      BY <3>2, <3>3 DEF i
  <2> QED
    BY <2>1, <2>2
<1>6. \A i, j \in S : i = j
  <2> HIDE DEF n
  <2> QED
    BY <1>2, <1>3, OneOfAtMostOne
<1>7. OneTable(units)
  <2>1. ASSUME NEW k \in 1..Len(units), NEW j \in 1..Len(units),
               Table(units[k]), Table(units[j])
        PROVE  j = k
    <3>1. k - (2 + h) \in S /\ j - (2 + h) \in S
      BY <1>5, <2>1
    <3>2. k - (2 + h) = j - (2 + h)
      BY <1>6, <3>1
    <3> QED
      BY <1>2, <3>2
  <2> QED
    BY <1>5, <2>1 DEF OneTable
<1>8. HasTable(units) => S # {}
  BY <1>5 DEF HasTable
<1> QED
  BY <1>5, <1>7, <1>8 DEF units, list, S

LEMMA CheckedTable ==
    ASSUME TablesType(tables), NEW e, EncoderType(e), NEW client, Accepted(e, client),
           OfType(e.metadata, "seektable") # {}
    PROVE  LET d == Checked(e, client)
           IN  d.seekTable \in DOMAIN Templates /\ LegalPoints(tables[d.seekTable])
<1> DEFINE list == e.metadata
           S == OfType(list, "seektable")
           first == CHOOSE i \in S : \A j \in S : i <= j
           sized == [e EXCEPT !.blocksize = Blocksize(e)]
<1>1. Len(list) \in Nat /\ list \in Seq(Blocks) /\ DOMAIN list = 1..Len(list)
  BY DEF EncoderType
<1>2. S \in SUBSET (1..Len(list)) /\ Cardinality(S) <= 1 /\ S # {}
  BY <1>1 DEF OfType, Accepted, LegalMetadata
<1>3. \A i \in S : list[i].type = "seektable" /\ LegalPoints(tables[list[i].table])
  BY DEF OfType, Accepted, LegalMetadata
<1>4. \A i \in S : \A j \in S : i = j
  BY <1>1, <1>2, OneOfAtMostOne
<1>5. \E i \in S : \A j \in S : i <= j
  BY <1>2, <1>4
<1>6. first \in S
  BY <1>5
<1>7. Whole(sized) /\ sized.blocksize = Blocksize(e)
  BY DEF EncoderType, EncoderFields, Whole
<1>8. Checked(e, client) = [sized EXCEPT !.seekTable = list[first].table]
  BY <1>2, <1>7 DEF Checked, Accepted
<1> HIDE DEF sized, first, S
<1>9. Checked(e, client).seekTable = list[first].table
  BY <1>7, <1>8 DEF Whole, EncoderFields
<1>10. list[first].table \in DOMAIN Templates
  <2>1. list[first] \in Blocks /\ list[first].type = "seektable"
    BY <1>1, <1>2, <1>3, <1>6
  <2> QED
    BY <2>1 DEF Blocks
<1> QED
  BY <1>3, <1>6, <1>9, <1>10 DEF list

-----------------------------------------------------------------------------
(* Steps.                                                                  *)
LEMMA BeginsSeek == Init => SeekInv
<1> SUFFICES ASSUME Init PROVE SeekInv
  OBVIOUS
<1>1. tables = Templates /\ given = <<>> /\ finish = "none" /\ enc.state = "UNINITIALIZED"
  BY DEF Init, NewEncoder
<1>2. ASSUME NEW t \in DOMAIN Templates PROVE TableType(Templates[t])
  <2> DEFINE points == Templates[t]
  <2>1. points \in Seq(SeekPoints) /\ \A i \in DOMAIN points : points[i].sample <= Placeholder
    BY EncoderAssumption
  <2> HIDE DEF points
  <2>2. points \in Seq(Items(points))
    BY <2>1, OfItsItems
  <2>3. ASSUME NEW i \in DOMAIN points PROVE points[i].sample \in 0..Placeholder
    <3>1. points[i] \in SeekPoints
      BY <2>1
    <3>2. points[i].sample \in Nat /\ Placeholder \in Nat
      BY <3>1, EncoderAssumption DEF SeekPoints
    <3> QED
      BY <2>1, <3>2
  <2>4. TableType(points)
    BY <2>2, <2>3 DEF TableType, Items
  <2> QED
    BY <2>4 DEF points
<1>3. TablesType(tables)
  BY <1>1, <1>2, EncoderAssumption DEF TablesType
<1>4. Len(given) <= Len(Signal)
  <2>1. Signal \in Seq(Int) /\ Len(<<>>) = 0
    BY EncoderAssumption
  <2>2. Len(Signal) \in Nat
    BY <2>1
  <2> QED
    BY <1>1, <2>1, <2>2
<1> QED
  BY <1>1, <1>3, <1>4 DEF SeekInv, SeekBegun, SeekDone

LEMMA SettersSeek == ASSUME IInv, SeekInv, Setters PROVE SeekInv'
<1>1. /\ UNCHANGED <<tables, out, given, finish, history>> /\ enc.state = "UNINITIALIZED"
      /\ \E field \in {"verify", "blocksize", "metadata", "valid"} : \E value :
            enc' = [enc EXCEPT ![field] = value]
  BY DEF Setters, Set
<1>2. Whole(enc)
  BY DEF IInv, Types, EncoderType
<1>3. enc'.state # "OK"
  BY <1>1, <1>2 DEF Whole, EncoderFields
<1> QED
  BY <1>1, <1>3 DEF SeekInv, TablesType, SeekBegun, SeekDone

LEMMA InitStreamSeek == ASSUME IInv, SeekInv, InitStream PROVE SeekInv'
<1>1. PICK client \in Clients, f \in {"none", "open", "memory", "decoder"} :
        /\ LET opened == IF client = "file" THEN [enc EXCEPT !.file = "open"] ELSE enc
               begun == [Checked(opened, client) EXCEPT
                            !.state = "OK", !.client = client,
                            !.signal = <<>>, !.fifo = <<>>, !.hint = "magic",
                            !.fifoSize = Blocksize(enc) + 1,
                            !.frameNumber = 0, !.samplesWritten = 0,
                            !.firstPoint = 1, !.streaminfoOffset = 0,
                            !.seektableOffset = 0, !.audioOffset = 0,
                            !.streaminfo = [total |-> 0, min |-> 0, max |-> 0]]
           IN  \/ /\ f = "open"
                  /\ enc' = [enc EXCEPT !.state = "IO_ERROR"]
                  /\ call' = NoCall
               \/ /\ f = "none" /\ ~Accepted(enc, client)
                  /\ enc' = Checked(opened, client)
                  /\ call' = NoCall
               \/ /\ f \in {"memory", "decoder"}
                  /\ enc' = [begun EXCEPT !.state =
                               IF f = "memory" THEN "MEMORY_ERROR"
                               ELSE "VERIFY_DECODER_ERROR"]
                  /\ call' = NoCall
               \/ /\ f = "none" /\ Accepted(enc, client)
                  /\ enc' = begun
                  /\ call' = [op |-> "init", todo |-> HeaderUnits(enc)]
        /\ out' = <<>> /\ given' = <<>> /\ finish' = "none"
  BY DEF InitStream
<1> DEFINE opened == IF client = "file" THEN [enc EXCEPT !.file = "open"] ELSE enc
           d == Checked(opened, client)
           begun == [d EXCEPT
                        !.state = "OK", !.client = client,
                        !.signal = <<>>, !.fifo = <<>>, !.hint = "magic",
                        !.fifoSize = Blocksize(enc) + 1,
                        !.frameNumber = 0, !.samplesWritten = 0,
                        !.firstPoint = 1, !.streaminfoOffset = 0,
                        !.seektableOffset = 0, !.audioOffset = 0,
                        !.streaminfo = [total |-> 0, min |-> 0, max |-> 0]]
           units == HeaderUnits(enc)
<1>2. EncoderType(enc) /\ enc.state = "UNINITIALIZED" /\ tables' = tables
  BY DEF InitStream, IInv, Types
<1>3. /\ EncoderType(opened) /\ opened.state = enc.state
      /\ opened.valid = enc.valid /\ opened.blocksize = enc.blocksize
      /\ opened.metadata = enc.metadata
  BY <1>2 DEF EncoderType, EncoderFields, Whole
<1>4. \/ f = "open" /\ enc' = [enc EXCEPT !.state = "IO_ERROR"]
      \/ f = "none" /\ ~Accepted(enc, client) /\ enc' = d
      \/ /\ f \in {"memory", "decoder"}
         /\ enc' = [begun EXCEPT !.state = IF f = "memory" THEN "MEMORY_ERROR"
                                           ELSE "VERIFY_DECODER_ERROR"]
      \/ /\ f = "none" /\ Accepted(enc, client) /\ enc' = begun
         /\ call' = [op |-> "init", todo |-> units]
  BY <1>1
<1>5. out' = <<>> /\ given' = <<>> /\ finish' = "none"
  BY <1>1
<1> HIDE DEF opened
<1>6. EncoderType(d) /\ d.state = "UNINITIALIZED"
  BY <1>2, <1>3, CheckedKeeps
<1>7. Accepted(enc, client) /\ OfType(enc.metadata, "seektable") # {} =>
        d.seekTable \in DOMAIN Templates /\ LegalPoints(tables[d.seekTable])
  <2>1. Accepted(enc, client) => Accepted(opened, client)
    BY <1>3 DEF Accepted, Blocksize
  <2> QED
    BY <1>3, <2>1, CheckedTable DEF SeekInv
<1> HIDE DEF d
<1>8. /\ Whole(begun) /\ begun.client = client /\ begun.seekTable = d.seekTable
      /\ begun.seektableOffset = 0 /\ begun.audioOffset = 0 /\ begun.firstPoint = 1
      /\ begun.samplesWritten = 0
  BY <1>6 DEF EncoderType, EncoderFields, Whole
<1> HIDE DEF begun, units
<1>9. TablesType(tables') /\ Len(given') <= Len(Signal) /\ SeekDone'
  <2>1. Signal \in Seq(Int) /\ Len(<<>>) = 0
    BY EncoderAssumption
  <2>2. Len(Signal) \in Nat
    BY <2>1
  <2> QED
    BY <1>2, <1>5, <2>1, <2>2 DEF SeekInv, TablesType, SeekDone
<1>10. SeekBegun'
  <2>1. SUFFICES ASSUME enc'.state = "OK"
                 PROVE  call'.op = "init" /\ HeaderAt(enc', tables', out', call'.todo)
    BY DEF SeekBegun
  <2>2. /\ Accepted(enc, client) /\ enc' = begun
        /\ call' = [op |-> "init", todo |-> units]
    <3>1. f # "open"
      BY <1>2, <1>4, <2>1 DEF EncoderType, EncoderFields, Whole
    <3>2. f # "none" => enc'.state \in {"MEMORY_ERROR", "VERIFY_DECODER_ERROR"}
      BY <1>4, <1>8, <3>1 DEF EncoderFields, Whole
    <3> QED
      BY <1>4, <1>6, <2>1, <3>1, <3>2
  <2>3. call'.op = "init" /\ call'.todo = units
    BY <2>2
  <2>4. /\ \A k \in 1..Len(units) : units[k].size = 1
        /\ OneTable(units)
        /\ HasTable(units) => OfType(enc.metadata, "seektable") # {}
    BY <1>2, <2>2, HeaderTables DEF Accepted, units
  <2>5. <<>> \o units = units
    <3>1. units \in Seq(Items(units))
      BY <1>2, HeaderUnitsType DEF units
    <3> QED
      BY <3>1, ConcatEmptySeq
  <2>6. Len(<<>>) = 0 /\ 1..0 = {} /\ Position(<<>>) = 0
    BY PositionOfNone
  <2>7. HeaderAt(begun, tables, <<>>, units)
    BY <1>7, <1>8, <2>2, <2>4, <2>5, <2>6 DEF HeaderAt, HasTable
  <2> QED
    BY <1>2, <1>5, <2>2, <2>3, <2>7
<1> QED
  BY <1>9, <1>10 DEF SeekInv

(* A step that writes a unit of the header and leaves the tables alone.    *)
LEMMA UnitPlaced ==
    ASSUME NEW units, UnitsType(units), NEW todo, todo \in Seq(Items(todo)), todo # <<>>,
           Layout(units \o todo), NEW e, NEW t, HeaderAt(e, t, units, todo),
           NEW d, d.audioOffset = 0, d.firstPoint = 1, d.samplesWritten = 0,
           d.client = e.client, d.seekTable = e.seekTable,
           Located(e, units, Head(todo), d)
    PROVE  HeaderAt(d, t, Append(units, Head(todo)), Tail(todo))
<1> DEFINE u == Head(todo)
           rest == Tail(todo)
           more == Append(units, u)
           A == Items(units) \cup Items(todo)
<1>1. units \in Seq(A) /\ todo \in Seq(A) /\ Len(units) \in Nat /\ Len(todo) \in Nat
      /\ Len(todo) # 0
  BY SeqMonotonic, EmptySeq DEF UnitsType
<1> HIDE DEF A
<1>2. /\ u \in A /\ u = todo[1] /\ rest \in Seq(A)
      /\ Len(rest) = Len(todo) - 1 /\ \A k \in 1..Len(rest) : rest[k] = todo[k + 1]
  BY <1>1, HeadTailProperties
<1>3. /\ more \o rest = units \o todo
      /\ Len(units) + 1 \in 1..Len(units \o todo) /\ (units \o todo)[Len(units) + 1] = u
  BY <1>1, NextUnit
<1>4. more \in Seq(A) /\ Len(more) = Len(units) + 1 /\ more[Len(units) + 1] = u
      /\ \A k \in 1..Len(units) : more[k] = units[k]
  BY <1>1, <1>2, AppendProperties
<1>5. /\ \A k \in 1..Len(units) : units[k].size = 1
      /\ \A k \in 1..Len(todo) : todo[k].size = 1
      /\ Position(units) = Len(units)
  BY DEF HeaderAt
<1>6. u.size = 1
  <2>1. 1 \in 1..Len(todo)
    BY <1>1
  <2> QED
    BY <1>2, <1>5, <2>1
<1> HIDE DEF rest, more, u
<1>7. \A k \in 1..Len(more) : more[k].size = 1
  <2>1. \A k \in 1..Len(more) : k \in 1..Len(units) \/ k = Len(units) + 1
    BY <1>1, <1>4
  <2> QED
    BY <1>4, <1>5, <1>6, <2>1
<1>8. \A k \in 1..Len(rest) : rest[k].size = 1
  <2>1. \A k \in 1..Len(rest) : k + 1 \in 1..Len(todo)
    BY <1>1, <1>2
  <2> QED
    BY <1>2, <1>5, <2>1
<1>9. Position(more) = Len(more)
  <2> DEFINE B == Items(units) \cup {u}
  <2>1. units \in Seq(B) /\ u \in B
    BY SeqMonotonic DEF UnitsType
  <2>2. \A v \in B : v.size \in Nat
    <3>1. DOMAIN units = 1..Len(units)
      BY <1>1
    <3> QED
      BY <1>5, <1>6, <3>1 DEF Items
  <2> HIDE DEF B
  <2>3. Position(Append(units, u)) = Position(units) + u.size
    BY <2>1, <2>2, PositionAppend
  <2> QED
    BY <1>4, <1>5, <1>6, <2>3 DEF more
<1>10. d.client # "file" => d.seektableOffset = 0
  BY DEF Located, CanTell, HeaderAt
<1>11. ASSUME d.client = "file", HasTable(more) PROVE d.seektableOffset # 0
  <2>1. CASE Table(u) /\ e.seektableOffset = 0
    <3>1. d.seektableOffset = Len(units)
      BY <1>5, <1>11, <2>1 DEF Located, CanTell, Table, u
    <3>2. Len(units) + 1 # 1
      <4>1. (units \o todo)[1].type = "magic"
        BY DEF Layout
      <4> QED
        BY <1>3, <2>1, <4>1 DEF Table
    <3> QED
      BY <1>1, <3>1, <3>2
  <2>2. CASE ~Table(u) /\ e.seektableOffset = 0
    <3>1. HasTable(units)
      <4>1. PICK k \in 1..Len(more) : Table(more[k])
        BY <1>11 DEF HasTable
      <4>2. k \in 1..Len(units)
        BY <1>1, <1>4, <2>2, <4>1
      <4> QED
        BY <1>4, <4>1, <4>2 DEF HasTable
    <3> QED
      BY <1>11, <2>2, <3>1 DEF HeaderAt
  <2>3. CASE e.seektableOffset # 0
    BY <2>3 DEF Located
  <2> QED
    BY <2>1, <2>2, <2>3
<1>12. /\ OneTable(more \o rest)
       /\ HasTable(more \o rest) =>
             d.seekTable \in DOMAIN Templates /\ LegalPoints(t[d.seekTable])
  BY <1>3 DEF HeaderAt
<1>13. HeaderAt(d, t, more, rest)
  BY <1>7, <1>8, <1>9, <1>10, <1>11, <1>12 DEF HeaderAt
<1> QED
  BY <1>13 DEF more, rest, u

LEMMA WriteHeaderUnitSeek ==
    ASSUME IInv, HeaderInv, SeekInv, WriteHeaderUnit PROVE SeekInv'
<1> DEFINE unit == Head(call.todo)
<1>1. PICK f \in Faults(UnitFaults) :
        LET r == WriteBitbuffer(enc, tables, out, unit, 0, f)
            e == IF unit.type # "streaminfo" THEN r.enc
                 ELSE [r.enc EXCEPT !.streaminfo =
                          [total |-> 0, min |-> NoMinimum, max |-> 0]]
        IN  /\ enc' = IF r.ok THEN [e EXCEPT !.hint = "metadata"] ELSE r.enc
            /\ tables' = r.tables /\ out' = r.out
            /\ call' = IF r.ok THEN [call EXCEPT !.todo = Tail(@)] ELSE NoCall
  BY DEF WriteHeaderUnit
<1> DEFINE r == WriteBitbuffer(enc, tables, out, unit, 0, f)
           info == [total |-> 0, min |-> NoMinimum, max |-> 0]
           e == IF unit.type # "streaminfo" THEN r.enc
                ELSE [r.enc EXCEPT !.streaminfo = info]
<1>2. /\ call.op = "init" /\ call.todo # <<>> /\ UNCHANGED <<given, finish>>
      /\ call = [op |-> "init", todo |-> call.todo]
      /\ call.todo \in Seq(Items(call.todo))
      /\ \A u \in Items(call.todo) : HeaderUnit(u)
  BY CallByName DEF WriteHeaderUnit, IInv, Types
<1>3. EncoderType(enc) /\ enc.state = "OK" /\ UnitsType(out) /\ finish # "true"
      /\ Whole(enc)
  BY <1>2 DEF IInv, Types, Control, EncoderType, NoCall
<1>4. HeaderUnit(unit)
  <2>1. unit \in Items(call.todo)
    BY <1>2, HeadTailProperties
  <2> QED
    BY <1>2, <2>1
<1> HIDE DEF unit
<1>5. Wrote(enc, out, unit, r)
  BY <1>3, <1>4, WriteHeaderWrites
<1>6. MovedOn(enc, tables, out, 0, r)
  BY <1>3, WriteMarks
<1>7. HeaderAt(enc, tables, out, call.todo)
  BY <1>2, <1>3 DEF SeekInv, SeekBegun
<1>8. ~Marks(enc)
  BY <1>7 DEF HeaderAt, Marks
<1>9. tables' = tables
  BY <1>1, <1>6, <1>8 DEF MovedOn, MarkedTables
<1>10. TablesType(tables') /\ Len(given') <= Len(Signal) /\ SeekDone'
  BY <1>2, <1>3, <1>9 DEF SeekInv, TablesType, SeekDone
<1>11. /\ enc' = IF r.ok THEN [e EXCEPT !.hint = "metadata"] ELSE r.enc
       /\ out' = r.out
       /\ call' = IF r.ok THEN [call EXCEPT !.todo = Tail(@)] ELSE NoCall
  BY <1>1
<1>12. Layout(out \o call.todo)
  BY <1>2, <1>3 DEF HeaderInv, HeaderBegun, Pending
<1> HIDE DEF r, info
<1>13. CASE ~r.ok
  <2>1. enc'.state # "OK"
    BY <1>5, <1>11, <1>13, NotAlright DEF Wrote
  <2> QED
    BY <1>10, <2>1 DEF SeekInv, SeekBegun
<1>14. CASE r.ok
  <2>1. /\ out' = Append(out, unit) /\ Located(enc, out, unit, r.enc)
        /\ enc' = [e EXCEPT !.hint = "metadata"] /\ Alright(enc, r.enc)
    BY <1>5, <1>11, <1>14 DEF Wrote
  <2>2. /\ r.enc.audioOffset = 0 /\ r.enc.firstPoint = 1 /\ r.enc.samplesWritten = 0
    BY <1>6, <1>7, <1>8, <1>14 DEF MovedOn, NextPoint, HeaderAt
  <2>3. /\ enc'.client = enc.client /\ enc'.seekTable = enc.seekTable
        /\ enc'.audioOffset = 0 /\ enc'.firstPoint = 1 /\ enc'.samplesWritten = 0
        /\ enc'.streaminfoOffset = r.enc.streaminfoOffset
        /\ enc'.seektableOffset = r.enc.seektableOffset
    <3>1. Whole(r.enc) /\ r.enc.client = enc.client /\ r.enc.seekTable = enc.seekTable
      BY <2>1 DEF Alright, Kept, EncoderType
    <3>2. /\ Whole(e) /\ e.client = enc.client /\ e.seekTable = enc.seekTable
          /\ e.audioOffset = 0 /\ e.firstPoint = 1 /\ e.samplesWritten = 0
          /\ e.streaminfoOffset = r.enc.streaminfoOffset
          /\ e.seektableOffset = r.enc.seektableOffset
      BY <2>2, <3>1 DEF EncoderFields, Whole
    <3> HIDE DEF e
    <3> QED
      BY <2>1, <3>2 DEF EncoderFields, Whole
  <2>4. call' = [op |-> "init", todo |-> Tail(call.todo)]
    <3>1. call' = [call EXCEPT !.todo = Tail(call.todo)]
      BY <1>11, <1>14
    <3> QED
      BY <1>2, <3>1
  <2>5. call'.op = "init" /\ call'.todo = Tail(call.todo)
    BY <2>4
  <2>6. Located(enc, out, Head(call.todo), enc')
    BY <2>1, <2>3 DEF Located, unit
  <2>7. HeaderAt(enc', tables, Append(out, Head(call.todo)), Tail(call.todo))
    BY <1>2, <1>3, <1>7, <1>12, <2>3, <2>6, UnitPlaced
  <2>8. HeaderAt(enc', tables', out', call'.todo)
    BY <1>9, <2>1, <2>5, <2>7 DEF unit
  <2> QED
    BY <1>10, <2>5, <2>8 DEF SeekInv, SeekBegun
<1> QED
  BY <1>13, <1>14

(* The audio begins where the header ends.                                 *)
LEMMA HeaderWrittenSeek ==
    ASSUME IInv, HeaderInv, SeekInv, HeaderWritten PROVE SeekInv'
<1> DEFINE position == IF CanTell(enc.client) THEN Position(out) ELSE 0
           d == [enc EXCEPT !.audioOffset = position, !.hint = "audio"]
<1>1. PICK f \in Faults({"none", "tell"}) :
        LET r == IF f = "tell" THEN Failed(enc, tables, out, "CLIENT_ERROR")
                 ELSE Done(d, tables, out)
        IN  enc' = r.enc
  BY DEF HeaderWritten
<1>2. /\ call.op = "init" /\ call.todo = <<>> /\ UNCHANGED <<tables, out, given, finish>>
      /\ call' = NoCall
  BY DEF HeaderWritten
<1>3. /\ Whole(enc) /\ EncoderType(enc) /\ UnitsType(out) /\ finish # "true"
      /\ enc.state = "OK"
  BY <1>2 DEF IInv, Types, Control, EncoderType, NoCall
<1>4. TablesType(tables') /\ Len(given') <= Len(Signal) /\ SeekDone'
  BY <1>2, <1>3 DEF SeekInv, TablesType, SeekDone
<1>5. HeaderAt(enc, tables, out, <<>>)
  BY <1>2, <1>3 DEF SeekInv, SeekBegun
<1>6. out \o <<>> = out /\ Pending = <<>>
  BY <1>2, <1>3, ConcatEmptySeq DEF UnitsType, Pending
<1>7. FramesOf(out) = <<>> /\ Layout(out)
  BY <1>2, <1>3, <1>6 DEF HeaderInv, HeaderBegun, Frames
<1>8. /\ d.client = enc.client /\ d.seekTable = enc.seekTable
      /\ d.seektableOffset = enc.seektableOffset /\ d.audioOffset = position
      /\ d.firstPoint = enc.firstPoint /\ d.samplesWritten = enc.samplesWritten
  BY <1>3 DEF EncoderFields, Whole
<1> HIDE DEF d
<1>9. CASE f = "tell"
  <2>1. enc' = Failed(enc, tables, out, "CLIENT_ERROR").enc
    BY <1>1, <1>9
  <2>2. enc'.state # "OK"
    BY <1>3, <2>1, OneFieldFailed
  <2> QED
    BY <1>4, <2>2 DEF SeekInv, SeekBegun
<1>10. CASE f # "tell"
  <2>1. enc' = d
    BY <1>1, <1>10 DEF Done
  <2>2. Len(<<>>) = 0 /\ AudioOf(<<>>) = <<>> /\ Position(<<>>) = 0
    BY AudioOfNone, PositionOfNone
  <2>3. Len(out) \in Nat /\ Len(out) >= 2 /\ DOMAIN out = 1..Len(out)
    BY <1>3, <1>7 DEF UnitsType, Layout
  <2>4. SeekAt(d, tables, out)
    <3>1. ASSUME HasTable(out)
          PROVE  Pointed(tables[enc.seekTable], 1, 0, FramesOf(out))
      <4>1. enc.seekTable \in DOMAIN Templates /\ LegalPoints(tables[enc.seekTable])
        BY <1>5, <1>6, <3>1 DEF HeaderAt
      <4>2. TableType(tables[enc.seekTable])
        BY <4>1 DEF SeekInv, TablesType
      <4> QED
        BY <4>1, <4>2, FirstPointed
    <3> QED
      BY <1>5, <1>6, <1>7, <1>8, <2>2, <3>1 DEF SeekAt, HeaderAt
  <2>5. AudioAt(d, out)
    <3>1. \A u \in Items(out) : u.size \in Nat
      BY <1>5, <2>3 DEF HeaderAt, Items
    <3>2. d.client = "file" =>
            d.audioOffset = Position(out) /\ Position(out) = Len(out)
      BY <1>5, <1>8 DEF HeaderAt, CanTell
    <3> QED
      BY <1>7, <2>2, <2>3, <3>1, <3>2 DEF AudioAt
  <2>6. call'.op = "none"
    BY <1>2 DEF NoCall
  <2> QED
    BY <1>2, <1>4, <2>1, <2>4, <2>5, <2>6 DEF SeekInv, SeekBegun
<1> QED
  BY <1>9, <1>10

LEMMA ProcessSeek == ASSUME IInv, SeekInv, Process PROVE SeekInv'
<1>1. PICK n \in 0..(Len(Signal) - Len(given)) :
        LET samples == SubSeq(Signal, Len(given) + 1, Len(given) + n)
        IN  /\ call' = [op |-> "process", todo |-> samples]
            /\ given' = given \o samples
  BY DEF Process
<1> DEFINE samples == SubSeq(Signal, Len(given) + 1, Len(given) + n)
<1>2. /\ call' = [op |-> "process", todo |-> samples] /\ given' = given \o samples
      /\ call = NoCall /\ enc.state = "OK" /\ UNCHANGED <<enc, tables, out, finish, history>>
  BY <1>1 DEF Process
<1>3. /\ Signal \in Seq(Int) /\ given \in Seq(Int)
      /\ Len(given) \in Nat /\ Len(Signal) \in Nat /\ n \in Nat
      /\ Len(given) + n <= Len(Signal)
  <2>1. Signal \in Seq(Int) /\ given \in Seq(Int)
    BY EncoderAssumption DEF IInv, Types
  <2>2. Len(given) \in Nat /\ Len(Signal) \in Nat
    BY <2>1
  <2> QED
    BY <2>1, <2>2
<1>4. samples \in Seq(Int) /\ Len(samples) = n
  <2>1. \A i \in (Len(given) + 1)..(Len(given) + n) : Signal[i] \in Int
    BY <1>3
  <2>2. Len(given) + 1 \in Int /\ Len(given) + n \in Int
    BY <1>3
  <2>3. /\ samples \in Seq(Int)
        /\ Len(samples) = IF Len(given) + 1 <= Len(given) + n
                          THEN (Len(given) + n) - (Len(given) + 1) + 1 ELSE 0
    BY <2>1, <2>2, SubSeqProperties
  <2> HIDE DEF samples
  <2> QED
    BY <1>3, <2>3
<1> HIDE DEF samples
<1>5. Len(given') = Len(given) + n
  BY <1>2, <1>3, <1>4, Joined
<1>6. call.op = "none" /\ call'.op = "process"
  BY <1>2 DEF NoCall
<1> QED
  BY <1>2, <1>3, <1>5, <1>6 DEF SeekInv, TablesType, SeekBegun, SeekDone

(* The tables after a frame: each is still one.                            *)
LEMMA MarkedTablesType ==
    ASSUME NEW t, TablesType(t), NEW e, e.samplesWritten \in 0..Placeholder, NEW units
    PROVE  TablesType(MarkedTables(e, t, units))
<1> DEFINE n == e.seekTable
           marked == Marked(e, t[n], Place(e, units))
           s == MarkedTables(e, t, units)
<1>1. CASE s = t
  BY <1>1
<1>2. CASE s = [t EXCEPT ![n] = marked]
  <2>1. n \in DOMAIN Templates => TableType(marked)
    BY MarkedType DEF TablesType
  <2> HIDE DEF marked, n, s
  <2>2. TablesType(s)
    BY <1>2, <2>1 DEF TablesType
  <2> QED
    BY <2>2 DEF s
<1> QED
  BY <1>1, <1>2 DEF MarkedTables

(* A frame more, and the points that it reaches.                           *)
LEMMA FrameSeek ==
    ASSUME TablesType(tables), NEW units, UnitsType(units),
           NEW e, SeekAt(e, tables, units), AudioAt(e, units),
           e.samplesWritten \in 0..Placeholder, e.blocksize \in Nat \ {0},
           NEW u, Frame(u), u.size \in Nat, Len(u.coded) = e.blocksize,
           NEW d, d.client = e.client, d.seekTable = e.seekTable,
           d.seektableOffset = e.seektableOffset, d.audioOffset = e.audioOffset,
           d.samplesWritten = e.samplesWritten + e.blocksize,
           d.firstPoint = NextPoint(e, tables), NEW t, t = MarkedTables(e, tables, units)
    PROVE  SeekAt(d, t, Append(units, u)) /\ AudioAt(d, Append(units, u))
<1> DEFINE more == Append(units, u)
           frames == FramesOf(units)
           F == {v \in Items(units) : v.type = "frame"} \cup {u}
<1>1. /\ UnitsType(more) /\ Items(more) = Items(units) \cup {u}
      /\ FramesOf(more) = Append(frames, u)
      /\ AudioOf(FramesOf(more)) = AudioOf(frames) \o Decoded(u)
  BY UnitAppended, FrameAppended
<1>2. /\ frames \in Seq(F) /\ u \in F /\ F \subseteq Items(units) \cup {u}
      /\ AudioOf(frames) \in Seq(Int)
  <2> DEFINE G == {v \in Items(units) : v.type = "frame"}
  <2>1. frames \in Seq(G) /\ AudioOf(frames) \in Seq(Int)
    BY AudioOfUnits
  <2>2. F = G \cup {u} /\ G \subseteq Items(units)
    OBVIOUS
  <2> HIDE DEF F, G, frames
  <2> QED
    BY <2>1, <2>2, SeqMonotonic
<1>3. /\ Len(units) \in Nat /\ Len(more) = Len(units) + 1 /\ more[Len(units) + 1] = u
      /\ \A k \in 1..Len(units) : more[k] = units[k]
  <2> DEFINE A == Items(units) \cup {u}
  <2>1. units \in Seq(A) /\ u \in A
    BY SeqMonotonic DEF UnitsType
  <2> HIDE DEF A
  <2> QED
    BY <2>1, AppendProperties
<1>4. /\ \A v \in Items(units) \cup {u} : v.size \in Nat
      /\ \A v \in F : v.size \in Nat
  BY <1>2 DEF AudioAt
<1>5. /\ Position(more) = Position(units) + u.size
      /\ Position(units) \in Nat
  <2> DEFINE A == Items(units) \cup {u}
  <2>1. units \in Seq(A) /\ u \in A /\ \A v \in A : v.size \in Nat
    BY <1>4, SeqMonotonic DEF UnitsType
  <2> HIDE DEF A
  <2> QED
    BY <2>1, PositionAppend, PositionType
<1>6. /\ Position(Append(frames, u)) = Position(frames) + u.size
      /\ Position(frames) \in Nat
  <2> HIDE DEF F, frames
  <2> QED
    BY <1>2, <1>4, PositionAppend, PositionType
<1>7. Len(AudioOf(FramesOf(more))) = e.samplesWritten + e.blocksize
  <2>1. Decoded(u) \in Seq(Int) /\ Len(Decoded(u)) = Len(u.coded)
    BY DecodedType
  <2>2. e.samplesWritten = Len(AudioOf(frames))
    BY DEF SeekAt
  <2> DEFINE audio == AudioOf(frames)
  <2> HIDE DEF audio
  <2>3. Len(audio \o Decoded(u)) = Len(audio) + Len(Decoded(u))
    BY <1>2, <2>1, Joined DEF audio
  <2> QED
    BY <1>1, <2>1, <2>2, <2>3 DEF audio
<1> HIDE DEF more, frames, F
<1>8. ~Table(u)
  BY DEF Frame, Table
<1>9. /\ \A k \in 1..Len(more) : Table(more[k]) =>
            k \in 1..Len(units) /\ Table(units[k]) /\ more[k] = units[k]
      /\ HasTable(more) => HasTable(units)
  <2>1. \A k \in 1..Len(more) : k \in 1..Len(units) \/ k = Len(units) + 1
    BY <1>3
  <2>2. \A k \in 1..Len(more) : Table(more[k]) =>
            k \in 1..Len(units) /\ Table(units[k]) /\ more[k] = units[k]
    BY <1>3, <1>8, <2>1
  <2> QED
    BY <2>2 DEF HasTable
<1>10. OneTable(more)
  BY <1>9 DEF SeekAt, OneTable
<1>11. ASSUME e.client = "file", HasTable(units)
       PROVE  /\ e.seektableOffset # 0 /\ e.seekTable \in DOMAIN Templates
              /\ Pointed(t[e.seekTable], d.firstPoint, d.samplesWritten, FramesOf(more))
  <2> DEFINE points == tables[e.seekTable]
             position == Place(e, units)
  <2>1. /\ e.seektableOffset # 0 /\ e.seekTable \in DOMAIN Templates
        /\ Pointed(points, e.firstPoint, e.samplesWritten, frames)
    BY <1>11 DEF SeekAt, frames
  <2>2. /\ e.audioOffset \in Nat \ {0}
        /\ position = e.audioOffset + Position(frames)
    BY <1>11 DEF AudioAt, Place, CanTell, frames
  <2>3. Marks(e)
    <3>1. e.seekTable # NoTable
      BY <2>1, EncoderAssumption
    <3> QED
      BY <2>2, <3>1 DEF Marks
  <2>4. TableType(points) /\ e.seekTable \in DOMAIN tables
    BY <2>1 DEF TablesType
  <2>5. e.samplesWritten = Len(AudioOf(frames))
    BY DEF SeekAt, frames
  <2>6. /\ t[e.seekTable] = Marked(e, points, position)
        /\ d.firstPoint = e.firstPoint + Cardinality(Reached(e, points))
    <3> DEFINE new == Marked(e, points, position)
    <3>1. t = [tables EXCEPT ![e.seekTable] = new]
      BY <2>3 DEF MarkedTables
    <3> HIDE DEF new
    <3>2. t[e.seekTable] = new
      BY <2>4, <3>1
    <3> QED
      BY <2>3, <3>2 DEF NextPoint, new
  <2> HIDE DEF points, position
  <2>7. Pointed(Marked(e, points, position),
                e.firstPoint + Cardinality(Reached(e, points)),
                e.samplesWritten + e.blocksize, Append(frames, u))
    <3>1. e.audioOffset \in Nat
      BY <2>2
    <3> QED
      BY <1>2, <1>6, <2>1, <2>2, <2>4, <2>5, <3>1, FrameMarksPoints
  <2>8. FramesOf(more) = Append(frames, u)
    BY <1>1
  <2> QED
    BY <2>1, <2>6, <2>7, <2>8
<1>12. SeekAt(d, t, more)
  BY <1>7, <1>9, <1>10, <1>11 DEF SeekAt
<1>13. AudioAt(d, more)
  <2>1. \A v \in Items(more) : v.size \in Nat
    BY <1>1, <1>4
  <2>2. ASSUME d.client = "file"
        PROVE  /\ d.audioOffset \in Nat \ {0}
               /\ Position(more) = d.audioOffset + Position(FramesOf(more))
    <3>1. /\ d.audioOffset \in Nat \ {0}
          /\ Position(units) = d.audioOffset + Position(frames)
      BY <2>2 DEF AudioAt, frames
    <3>2. Position(FramesOf(more)) = Position(frames) + u.size /\ u.size \in Nat
      BY <1>1, <1>6
    <3> QED
      BY <1>5, <1>6, <3>1, <3>2
  <2> QED
    BY <2>1, <2>2 DEF AudioAt
<1> QED
  BY <1>12, <1>13 DEF more

(* A block of a stream is processed: what it does to the seek points.       *)
LEMMA BlockSeek ==
    ASSUME SeekInv, UnitsType(out), given \in Seq(Int), given' = given,
           NEW e, Ready(e), NEW left, left \in Seq(Int),
           SamplesAt(history, given, out, e, left),
           SeekAt(e, tables, out), AudioAt(e, out),
           NEW wrong \in BOOLEAN, NEW size \in FrameSizes, NEW f, NEW r,
           r = ProcessFrame(e, tables, out, wrong, size, f),
           enc' = r.enc, tables' = r.tables, out' = r.out
    PROVE  /\ TablesType(tables') /\ Len(given') <= Len(Signal)
           /\ enc'.state = "OK" => SeekAt(enc', tables', out') /\ AudioAt(enc', out')
<1>1. size \in Nat
  BY EncoderAssumption
<1>2. ProcessedFrame(e, out, wrong, size, r)
  <2>1. e.fifo = IF e.verify THEN e.signal ELSE <<>>
    BY DEF SamplesAt
  <2> QED
    BY <1>1, <2>1, FrameProcessed DEF Ready
<1>3. /\ Whole(e) /\ e.signal \in Seq(Int) /\ Len(e.signal) \in Nat
      /\ e.blocksize \in Nat \ {0} /\ e.blocksize \in Nat
  BY DEF Ready, EncoderType
<1>4. MovedOn(e, tables, out, e.blocksize, r)
  BY <1>3, ProcessMarks
<1>5. e.samplesWritten \in 0..Placeholder
  <2>1. AudioOf(FramesOf(out)) \in Seq(Int)
    BY AudioOfUnits
  <2>2. Len(AudioOf(FramesOf(out))) \in Nat /\ Len(left) \in Nat
    BY <2>1, LenProperties, Zenon
  <2>3. /\ e.samplesWritten = Len(AudioOf(FramesOf(out)))
        /\ Len(given) = Len(AudioOf(FramesOf(out))) + Len(e.signal) + Len(left)
    BY DEF SeekAt, SamplesAt
  <2>4. Len(given) <= Len(Signal) /\ Len(Signal) < Placeholder /\ Placeholder \in Nat
    BY EncoderAssumption DEF SeekInv
  <2>5. Signal \in Seq(Int)
    BY EncoderAssumption
  <2>6. Len(Signal) \in Nat
    BY <2>5
  <2> DEFINE a == Len(AudioOf(FramesOf(out)))
  <2> HIDE DEF a
  <2> QED
    BY <1>3, <2>2, <2>3, <2>4, <2>6 DEF a
<1>6. TablesType(tables')
  <2>1. tables' = tables \/ tables' = MarkedTables(e, tables, out)
    BY <1>4 DEF MovedOn
  <2>2. TablesType(tables) /\ TablesType(MarkedTables(e, tables, out))
    BY <1>5, MarkedTablesType DEF SeekInv
  <2> QED
    BY <2>1, <2>2
<1>7. ASSUME enc'.state = "OK" PROVE SeekAt(enc', tables', out') /\ AudioAt(enc', out')
  <2>1. r.ok
    BY <1>2, <1>7 DEF ProcessedFrame, ErrorStates
  <2>2. PICK u : Frame(u) /\ u.size = size /\ Len(u.coded) = e.blocksize
                 /\ r.out = Append(out, u)
    BY <1>2, <2>1 DEF ProcessedFrame
  <2>3. /\ enc'.client = e.client /\ enc'.seekTable = e.seekTable
        /\ enc'.seektableOffset = e.seektableOffset
    BY <1>2, <2>1 DEF ProcessedFrame, SettingsKept
  <2>4. /\ tables' = MarkedTables(e, tables, out) /\ enc'.audioOffset = e.audioOffset
        /\ enc'.samplesWritten = e.samplesWritten + e.blocksize
        /\ enc'.firstPoint = NextPoint(e, tables)
    BY <1>4, <2>1 DEF MovedOn
  <2>5. SeekAt(enc', tables', Append(out, u)) /\ AudioAt(enc', Append(out, u))
    BY <1>1, <1>3, <1>5, <2>2, <2>3, <2>4, FrameSeek DEF SeekInv
  <2> QED
    BY <2>2, <2>5
<1> QED
  BY <1>6, <1>7 DEF SeekInv

LEMMA ProcessChunkSeek == ASSUME IInv, SeekInv, ProcessChunk PROVE SeekInv'
<1> DEFINE n == Smaller(enc.blocksize + 1 - Len(enc.signal), Len(call.todo))
           taken == SubSeq(call.todo, 1, n)
           left == SubSeq(call.todo, n + 1, Len(call.todo))
           filled == Filled(enc, taken)
           rest == IF left = <<>> THEN NoCall ELSE [call EXCEPT !.todo = left]
<1>1. /\ call.op = "process" /\ UNCHANGED <<given, finish>>
      /\ \/ /\ Len(filled.signal) <= enc.blocksize
            /\ enc' = filled /\ call' = rest
            /\ UNCHANGED <<tables, out, history>>
         \/ /\ Len(filled.signal) > enc.blocksize
            /\ \E f \in Faults(FrameFaults), size \in FrameSizes,
                 wrong \in {FALSE, Miscodes} :
                  LET r == ProcessFrame(filled, tables, out, wrong, size, f)
                  IN  /\ enc' = r.enc /\ tables' = r.tables /\ out' = r.out
                      /\ call' = IF r.ok THEN rest ELSE NoCall
                      /\ history' = Counted(f, wrong, r)
  BY DEF ProcessChunk, Filled
<1>2. call \in [op : {"process"}, todo : Seq(Int)] /\ call.todo \in Seq(Int)
  BY <1>1, CallByName DEF IInv, Types
<1>3. /\ EncoderType(enc) /\ UnitsType(out) /\ given \in Seq(Int)
      /\ enc.state = "OK" /\ enc.hint = "audio" /\ finish # "true"
  BY <1>1 DEF IInv, Types, Control, NoCall
<1>4. /\ SamplesAt(history, given, out, enc, call.todo)
      /\ Len(enc.signal) <= enc.blocksize
      /\ enc.blocksize > 0 /\ enc.fifoSize = enc.blocksize + 1
  BY <1>1, <1>3 DEF IInv, Buffers, Todo
<1>5. enc.blocksize \in Nat /\ Len(enc.signal) \in Nat /\ Len(call.todo) \in Nat
  BY <1>2, <1>3 DEF EncoderType
<1>6. n \in 0..Len(call.todo) /\ Len(enc.signal) + n <= enc.blocksize + 1
  BY <1>4, <1>5 DEF Smaller
<1> HIDE DEF n
<1>7. /\ EncoderType(filled) /\ SettingsKept(enc, filled) /\ filled.state = "OK"
      /\ Len(filled.signal) = Len(enc.signal) + n
      /\ left \in Seq(Int)
      /\ SamplesAt(history, given, out, filled, left)
  <2> DEFINE todo == call.todo
  <2>1. todo \in Seq(Int) /\ n \in 0..Len(todo) /\ SamplesAt(history, given, out, enc, todo)
    BY <1>2, <1>4, <1>6
  <2> HIDE DEF todo
  <2>2. LET t == SubSeq(todo, 1, n)
            l == SubSeq(todo, n + 1, Len(todo))
            d == Filled(enc, t)
        IN  /\ EncoderType(d) /\ SettingsKept(enc, d) /\ d.state = enc.state
            /\ Len(d.signal) = Len(enc.signal) + n
            /\ l \in Seq(Int)
            /\ SamplesAt(history, given, out, d, l)
    BY <1>3, <2>1, BufferFilled
  <2> QED
    BY <1>3, <2>2 DEF todo
<1> HIDE DEF left, taken
<1>8. /\ filled.client = enc.client /\ filled.seekTable = enc.seekTable
      /\ filled.seektableOffset = enc.seektableOffset
      /\ filled.audioOffset = enc.audioOffset /\ filled.firstPoint = enc.firstPoint
      /\ filled.samplesWritten = enc.samplesWritten
  <2>1. Whole(enc)
    BY <1>3 DEF EncoderType
  <2> QED
    BY <2>1 DEF Filled, EncoderFields, Whole
<1> HIDE DEF filled
<1>9. rest.op \in {"none", "process"} /\ NoCall.op = "none"
  <2>1. CASE left = <<>>
    BY <2>1 DEF NoCall
  <2>2. CASE left # <<>>
    <3>1. rest = [op |-> "process", todo |-> left]
      BY <1>2, <2>2
    <3> QED
      BY <2>2, <3>1 DEF NoCall
  <2> QED
    BY <2>1, <2>2
<1> HIDE DEF rest
<1>10. SeekAt(filled, tables, out) /\ AudioAt(filled, out)
  <2>1. SeekAt(enc, tables, out) /\ AudioAt(enc, out)
    BY <1>1, <1>3 DEF SeekInv, SeekBegun
  <2> QED
    BY <1>8, <2>1 DEF SeekAt, AudioAt
<1>11. SeekDone'
  BY <1>1, <1>3 DEF SeekDone
<1>12. CASE enc' = filled /\ call' = rest /\ UNCHANGED <<tables, out>>
  <2>1. SeekBegun'
    BY <1>9, <1>10, <1>12 DEF SeekBegun
  <2>2. TablesType(tables') /\ Len(given') <= Len(Signal)
    BY <1>1, <1>12 DEF SeekInv, TablesType
  <2> QED
    BY <1>11, <2>1, <2>2 DEF SeekInv
<1>13. ASSUME Len(filled.signal) > enc.blocksize,
              NEW f, NEW size \in FrameSizes, NEW wrong \in {FALSE, Miscodes}, NEW r,
              r = ProcessFrame(filled, tables, out, wrong, size, f),
              enc' = r.enc, tables' = r.tables, out' = r.out,
              call' = IF r.ok THEN rest ELSE NoCall
       PROVE  SeekInv'
  <2>1. wrong \in BOOLEAN
    BY EncoderAssumption
  <2>2. filled.fifo = IF filled.verify THEN filled.signal ELSE <<>>
    BY <1>7 DEF SamplesAt
  <2>3. Ready(filled)
    <3>1. filled.blocksize = enc.blocksize /\ filled.verify = enc.verify
          /\ filled.fifoSize = enc.fifoSize /\ filled.hint = "audio"
      BY <1>3, <1>7 DEF SettingsKept
    <3>2. Len(filled.fifo) <= filled.fifoSize
      <4>1. Len(<<>>) = 0
        OBVIOUS
      <4> QED
        BY <1>4, <1>5, <1>6, <1>7, <2>2, <3>1, <4>1
    <3>3. filled.blocksize \in 1..Len(filled.signal)
      BY <1>4, <1>5, <1>6, <1>7, <1>13, <3>1
    <3> QED
      BY <1>7, <3>1, <3>2, <3>3 DEF Ready
  <2>4. /\ TablesType(tables') /\ Len(given') <= Len(Signal)
        /\ enc'.state = "OK" => SeekAt(enc', tables', out') /\ AudioAt(enc', out')
    BY <1>1, <1>3, <1>7, <1>10, <1>13, <2>1, <2>3, BlockSeek
  <2>5. call'.op \in {"none", "process"}
    BY <1>9, <1>13
  <2>6. SeekBegun'
    BY <2>4, <2>5 DEF SeekBegun
  <2> QED
    BY <1>11, <2>4, <2>6 DEF SeekInv
<1> QED
  BY <1>1, <1>12, <1>13

(* At the end there is something to update in a file.                      *)
LEMMA EndsSeek ==
    ASSUME NEW r, r.enc = enc', call' = Ends(r),
           enc'.state = "OK" => SeekAt(enc', tables', out')
    PROVE  SeekBegun'
<1> DEFINE all == <<"md5", "total", "sizes", "points">>
           todo == IF r.enc.state = "OK" /\ r.enc.client \in {"pipe", "file"}
                   THEN all ELSE <<>>
<1>1. all # <<>>
  OBVIOUS
<1> HIDE DEF all
<1>2. enc'.state = "OK" /\ enc'.client = "file" => todo # <<>>
  BY <1>1
<1>3. call' = [op |-> "finish", error |-> ~r.ok, todo |-> todo]
  BY DEF Ends, all
<1> HIDE DEF todo
<1>4. call'.op = "finish" /\ call'.todo = todo
  BY <1>3
<1> QED
  BY <1>2, <1>4 DEF SeekBegun

LEMMA FinishSeek == ASSUME IInv, SeekInv, Finish PROVE SeekInv'
<1> DEFINE last == [enc EXCEPT !.blocksize = Len(enc.signal)]
<1>1. /\ call = NoCall /\ UNCHANGED <<given, finish>>
      /\ \/ /\ enc.state = "OK" /\ enc.signal # <<>>
            /\ \E f \in Faults(FrameFaults), size \in FrameSizes,
                 wrong \in {FALSE, Miscodes} :
                  LET r == ProcessFrame(last, tables, out, wrong, size, f)
                  IN  /\ enc' = r.enc /\ tables' = r.tables /\ out' = r.out
                      /\ call' = Ends(r)
                      /\ history' = Counted(f, wrong, r)
         \/ /\ enc.state # "OK" \/ enc.signal = <<>>
            /\ call' = Ends(Done(enc, tables, out))
            /\ UNCHANGED <<enc, tables, out, history>>
  BY DEF Finish, Ends
<1>2. /\ EncoderType(enc) /\ UnitsType(out) /\ given \in Seq(Int)
      /\ finish # "true" \/ enc.state # "OK"
  BY <1>1 DEF IInv, Types, Control
<1>3. call.op = "none"
  BY <1>1 DEF NoCall
<1>4. enc.state = "OK" => SeekAt(enc, tables, out) /\ AudioAt(enc, out)
  BY <1>3 DEF SeekInv, SeekBegun
<1>5. CASE /\ call' = Ends(Done(enc, tables, out))
           /\ UNCHANGED <<enc, tables, out, history>>
  <2> DEFINE r == Done(enc, tables, out)
  <2>1. r.enc = enc
    BY DEF Done
  <2> HIDE DEF r
  <2>2. SeekBegun'
    BY <1>4, <1>5, <2>1, EndsSeek DEF r
  <2> QED
    BY <1>1, <1>5, <2>2 DEF SeekInv, TablesType, SeekDone
<1>6. ASSUME enc.state = "OK", enc.signal # <<>>,
             NEW f, NEW size \in FrameSizes, NEW wrong \in {FALSE, Miscodes}, NEW r,
             r = ProcessFrame(last, tables, out, wrong, size, f),
             enc' = r.enc, tables' = r.tables, out' = r.out, call' = Ends(r)
      PROVE  SeekInv'
  <2>1. wrong \in BOOLEAN /\ finish' # "true"
    BY <1>1, <1>2, <1>6, EncoderAssumption
  <2>2. /\ SamplesAt(history, given, out, enc, <<>>) /\ enc.hint = "audio"
        /\ Len(enc.fifo) <= enc.fifoSize
    BY <1>3, <1>6 DEF IInv, Buffers, Control, Results, Todo
  <2>3. enc.signal \in Seq(Int) /\ Len(enc.signal) \in Nat /\ Len(enc.signal) # 0
    <3>1. enc.signal \in Seq(Int)
      BY <1>2 DEF EncoderType
    <3> QED
      BY <1>6, <3>1, EmptySeq
  <2>4. /\ EncoderType(last) /\ last.state = "OK" /\ last.hint = "audio"
        /\ last.verify = enc.verify /\ last.signal = enc.signal
        /\ last.blocksize = Len(enc.signal) /\ last.fifo = enc.fifo
        /\ last.fifoSize = enc.fifoSize /\ last.frameNumber = enc.frameNumber
    BY <1>2, <1>6, <2>2, <2>3 DEF EncoderType, EncoderFields, Whole
  <2>5. /\ last.client = enc.client /\ last.seekTable = enc.seekTable
        /\ last.seektableOffset = enc.seektableOffset
        /\ last.audioOffset = enc.audioOffset /\ last.firstPoint = enc.firstPoint
        /\ last.samplesWritten = enc.samplesWritten
    <3>1. Whole(enc)
      BY <1>2 DEF EncoderType
    <3> QED
      BY <3>1 DEF EncoderFields, Whole
  <2> HIDE DEF last
  <2>6. Ready(last)
    <3>1. last.blocksize \in 1..Len(last.signal)
      BY <2>3, <2>4
    <3> QED
      BY <2>2, <2>4, <3>1 DEF Ready
  <2>7. SamplesAt(history, given, out, last, <<>>)
    BY <2>2, <2>4 DEF SamplesAt
  <2>8. SeekAt(last, tables, out) /\ AudioAt(last, out)
    BY <1>4, <1>6, <2>5 DEF SeekAt, AudioAt
  <2>9. <<>> \in Seq(Int) /\ given' = given
    BY <1>1
  <2>10. /\ TablesType(tables') /\ Len(given') <= Len(Signal)
         /\ enc'.state = "OK" => SeekAt(enc', tables', out') /\ AudioAt(enc', out')
    BY <1>2, <1>6, <2>1, <2>6, <2>7, <2>8, <2>9, BlockSeek
  <2>11. SeekBegun'
    BY <1>6, <2>10, EndsSeek
  <2> QED
    BY <2>1, <2>10, <2>11 DEF SeekInv, SeekDone
<1> QED
  BY <1>1, <1>5, <1>6

-----------------------------------------------------------------------------
(* The header is updated: the seek table, and no other, gets new points.    *)
With(u, field, value) == [u EXCEPT ![field] = value]

(* One unit of the output is written to.                                   *)
OnePatched(units, more, type, field, value) ==
    \E i \in 1..Len(units) :
        /\ units[i].type = type
        /\ \A j \in 1..Len(units) :
              more[j] = IF j = i THEN With(units[i], field, value) ELSE units[j]

LEMMA OneUnitPatched ==
    ASSUME NEW units, UnitsType(units), NEW offset, NEW type,
           Found(units, offset, type), NEW field, NEW value, NEW more,
           more = Patched(units, offset, type, field, value)
    PROVE  OnePatched(units, more, type, field, value)
<1> DEFINE n == Len(units)
           i == CHOOSE j \in Starting(units, offset) : units[j].type = type
           u == [units[i] EXCEPT ![field] = value]
<1>1. i \in Starting(units, offset) /\ units[i].type = type
  BY DEF Found
<1>2. more = [units EXCEPT ![i] = u]
  BY DEF Found, Patched
<1>3. units \in Seq(Items(units)) /\ n \in Nat /\ DOMAIN units = 1..n
  BY DEF UnitsType
<1>4. i \in 1..n
  BY <1>1, <1>3 DEF Starting
<1> HIDE DEF i, n
<1>5. \A j \in 1..n : more[j] = IF j = i THEN u ELSE units[j]
  BY <1>2, <1>3
<1> QED
  BY <1>1, <1>4, <1>5 DEF n, OnePatched, With

LEMMA InfoPatchedTables ==
    ASSUME NEW units, UnitsType(units), Layout(units), NEW offset,
           Found(units, offset, "streaminfo"),
           NEW field \in {"total", "sizes"}, NEW value, NEW more,
           more = Patched(units, offset, "streaminfo", field, value),
           OneTable(units)
    PROVE  OneTable(more) /\ (HasTable(more) => HasTable(units))
<1>1. Rewritten(units, more, "streaminfo", field, value)
  BY PatchedRewrites
<1>2. Len(more) = Len(units) /\ \A j \in 1..Len(units) : more[j].type = units[j].type
  BY <1>1 DEF Rewritten
<1>3. PICK i \in 1..Len(units) :
        /\ units[i].type = "streaminfo"
        /\ \A j \in 1..Len(units) :
              more[j] = IF j = i THEN With(units[i], field, value) ELSE units[j]
  BY OneUnitPatched DEF OnePatched
<1>4. \A j \in 1..Len(units) : Table(units[j]) => more[j] = units[j]
  BY <1>3 DEF Table
<1>5. \A j \in 1..Len(units) : Table(more[j]) <=> Table(units[j])
  BY <1>2 DEF Table
<1> QED
  BY <1>2, <1>4, <1>5 DEF OneTable, HasTable

LEMMA TablePatched ==
    ASSUME NEW units, UnitsType(units), Layout(units), NEW offset,
           Found(units, offset, "seektable"), NEW value, NEW more,
           more = Patched(units, offset, "seektable", "points", value),
           OneTable(units)
    PROVE  \A k \in 1..Len(more) : Table(more[k]) => more[k].points = value
<1>1. Rewritten(units, more, "seektable", "points", value)
  BY PatchedRewrites
<1>2. Len(more) = Len(units) /\ \A j \in 1..Len(units) : more[j].type = units[j].type
  BY <1>1 DEF Rewritten
<1>3. PICK i \in 1..Len(units) :
        /\ units[i].type = "seektable"
        /\ \A j \in 1..Len(units) :
              more[j] = IF j = i THEN With(units[i], "points", value) ELSE units[j]
  BY OneUnitPatched DEF OnePatched
<1>4. ASSUME NEW k \in 1..Len(more), Table(more[k]) PROVE more[k].points = value
  <2>1. k \in 1..Len(units) /\ Table(units[k]) /\ Table(units[i])
    BY <1>2, <1>3, <1>4 DEF Table
  <2>2. k = i /\ "points" \in DOMAIN units[i]
    BY <2>1 DEF OneTable
  <2>3. more[k] = [units[i] EXCEPT !["points"] = value]
    BY <1>3, <2>1, <2>2 DEF With
  <2> QED
    BY <2>2, <2>3
<1> QED
  BY <1>4

(* What finish writes into it: every point that was reached leads to its    *)
(* frame, the others are past the end of the stream.                        *)
LEMMA PointsDone ==
    ASSUME NEW points, NEW next, NEW written \in Nat, NEW frames,
           TableType(points), Pointed(points, next, written, frames),
           written < Placeholder
    PROVE  LET sorted == SortedPoints(points)
           IN  /\ TableType(sorted) /\ LegalPoints(sorted)
               /\ \A j \in DOMAIN sorted :
                     sorted[j].sample < written => LeadsTo(sorted[j], frames)
<1> DEFINE sorted == SortedPoints(points)
<1>1. OneEach(points)
  BY DEF Pointed
<1>2. /\ TableType(sorted) /\ LegalPoints(sorted)
      /\ \A j \in DOMAIN sorted :
            sorted[j] \in Items(points) \/ sorted[j].sample = Placeholder
  BY <1>1, PointsSorted
<1> HIDE DEF sorted
<1>3. DOMAIN points = 1..Len(points) /\ Len(points) \in Nat
  BY DEF TableType
<1>4. ASSUME NEW j \in DOMAIN sorted, sorted[j].sample < written
      PROVE  LeadsTo(sorted[j], frames)
  <2>1. sorted[j] \in Items(points)
    BY <1>2, <1>4, EncoderAssumption
  <2>2. PICK k \in 1..Len(points) : sorted[j] = points[k]
    BY <1>3, <2>1 DEF Items
  <2>3. points[k].sample \in Nat
    BY <1>3, EncoderAssumption DEF TableType, Items
  <2>4. next \in 1..(Len(points) + 1)
    BY DEF Pointed
  <2>5. CASE k < next
    <3>1. k \in 1..(next - 1)
      BY <1>3, <2>4, <2>5
    <3> QED
      BY <2>2, <3>1 DEF Pointed
  <2>6. CASE ~(k < next)
    <3>1. k \in next..Len(points)
      BY <1>3, <2>4, <2>6
    <3>2. written <= points[k].sample
      BY <3>1 DEF Pointed
    <3> QED
      BY <1>4, <2>2, <2>3, <3>2
  <2> QED
    BY <2>5, <2>6
<1> QED
  BY <1>2, <1>4 DEF sorted

LEMMA UpdateHeaderSeek ==
    ASSUME IInv, HeaderInv, SeekInv, UpdateHeader PROVE SeekInv'
<1> DEFINE field == Head(call.todo)
           skipped == field = "points" /\ (enc.seekTable = NoTable \/ enc.seektableOffset = 0)
           sorted == [tables EXCEPT ![enc.seekTable] = SortedPoints(@)]
           total == Patched(out, enc.streaminfoOffset, "streaminfo",
                            "total", enc.streaminfo.total)
           sizes == Patched(out, enc.streaminfoOffset, "streaminfo",
                            "sizes", <<enc.streaminfo.min, enc.streaminfo.max>>)
           placed == Patched(out, enc.seektableOffset, "seektable",
                             "points", sorted[enc.seekTable])
           patched == CASE field = "md5" -> out
                        [] field = "total" -> total
                        [] field = "sizes" -> sizes
                        [] field = "points" -> placed
<1>1. /\ call.op = "finish" /\ call.todo # <<>> /\ UNCHANGED <<given, finish>>
      /\ \/ /\ skipped /\ call' = [call EXCEPT !.todo = <<>>]
            /\ UNCHANGED <<enc, tables, out>>
         \/ /\ ~skipped /\ enc.client = "pipe" /\ call' = [call EXCEPT !.todo = <<>>]
            /\ tables' = IF field = "points" THEN sorted ELSE tables
            /\ UNCHANGED <<enc, out>>
         \/ /\ ~skipped /\ enc.client = "file"
            /\ \E f \in Faults({"none", "seek", "write"}) :
                  LET r == IF f = "none" THEN Done(enc, tables, patched)
                           ELSE Failed(enc, tables, out, "CLIENT_ERROR")
                  IN  /\ enc' = r.enc /\ out' = r.out
                      /\ call' = IF r.ok THEN [call EXCEPT !.todo = Tail(@)]
                                 ELSE [call EXCEPT !.todo = <<>>, !.error = TRUE]
            /\ tables' = IF field = "points" THEN sorted ELSE tables
  BY DEF UpdateHeader
<1>2. /\ EncoderType(enc) /\ UnitsType(out) /\ finish # "true" /\ enc.state = "OK"
      /\ given \in Seq(Int)
  BY <1>1 DEF IInv, Types, Control, EncoderType, NoCall
<1>3. /\ call \in [op : {"finish"}, error : BOOLEAN, todo : Seq(Updates)]
      /\ Pending = <<>> /\ out \o <<>> = out
  BY <1>1, <1>2, CallByName, ConcatEmptySeq DEF IInv, Types, Pending, UnitsType
<1>4. /\ Layout(out) /\ Streaming(enc, out)
      /\ enc.client = "file" => Due(call.todo, out)
  BY <1>1, <1>2, <1>3 DEF HeaderInv, HeaderBegun
<1>5. SeekAt(enc, tables, out) /\ TablesType(tables) /\ Len(given) <= Len(Signal)
  BY <1>1, <1>2 DEF SeekInv, SeekBegun
<1>6. Len(given') <= Len(Signal) /\ SeekDone'
  BY <1>1, <1>2, <1>5 DEF SeekDone
<1>7. ASSUME call' = [call EXCEPT !.todo = <<>>], out' = out, enc' = enc,
             enc.client = "file" => ~HasTable(out), tables' = tables
      PROVE  SeekInv'
  <2>1. call' = [op |-> "finish", error |-> call.error, todo |-> <<>>]
    BY <1>3, <1>7
  <2>2. call'.op = "finish" /\ call'.todo = <<>>
    BY <2>1
  <2>3. enc'.client = "file" => TrueTables(out')
    BY <1>7 DEF TrueTables, HasTable
  <2>4. TablesType(tables')
    BY <1>5, <1>7
  <2> QED
    BY <1>6, <2>2, <2>3, <2>4 DEF SeekInv, SeekBegun
<1>8. CASE /\ skipped /\ call' = [call EXCEPT !.todo = <<>>]
           /\ UNCHANGED <<enc, tables, out>>
  <2>1. enc.client = "file" => ~HasTable(out)
    BY <1>5, <1>8, EncoderAssumption DEF SeekAt
  <2> QED
    BY <1>7, <1>8, <2>1
<1>9. CASE /\ ~skipped /\ enc.client = "pipe" /\ call' = [call EXCEPT !.todo = <<>>]
           /\ tables' = IF field = "points" THEN sorted ELSE tables
           /\ UNCHANGED <<enc, out>>
  <2>1. field # "points"
    BY <1>5, <1>9 DEF SeekAt
  <2> QED
    BY <1>7, <1>9, <2>1
<1>10. ASSUME ~skipped, field = "points", enc.client = "file"
       PROVE  /\ sorted[enc.seekTable] = SortedPoints(tables[enc.seekTable])
              /\ TablesType(sorted)
              /\ LegalPoints(sorted[enc.seekTable])
              /\ \A j \in DOMAIN sorted[enc.seekTable] :
                    sorted[enc.seekTable][j].sample < Len(Audio)
                        => LeadsTo(sorted[enc.seekTable][j], Frames)
  <2> DEFINE name == enc.seekTable
  <2>1. HasTable(out)
    <3>1. Found(out, enc.seektableOffset, "seektable")
      BY <1>4, <1>10 DEF Streaming
    <3>2. DOMAIN out = 1..Len(out)
      BY <1>2 DEF UnitsType
    <3> QED
      BY <3>1, <3>2 DEF Found, Starting, HasTable, Table
  <2>2. /\ name \in DOMAIN Templates /\ enc.samplesWritten = Len(Audio)
        /\ Pointed(tables[name], enc.firstPoint, Len(Audio), Frames)
    BY <1>5, <1>10, <2>1 DEF SeekAt, Audio, Frames
  <2>3. TableType(tables[name]) /\ tables = [n \in DOMAIN Templates |-> tables[n]]
    BY <1>5, <2>2 DEF TablesType
  <2>4. Len(Audio) \in Nat /\ Len(Audio) < Placeholder
    <3>1. Len(given) = Len(Audio) + Len(enc.signal) + Len(Todo)
      BY <1>2 DEF IInv, Buffers, SamplesAt, Audio, Frames
    <3>2. enc.signal \in Seq(Int) /\ Todo = <<>> /\ Len(<<>>) = 0
      BY <1>1, <1>2 DEF EncoderType, Todo
    <3>3. Len(Audio) \in Nat
      <4>1. Audio \in Seq(Int)
        BY <1>2, AudioOfUnits DEF Audio, Frames
      <4> QED
        BY <4>1
    <3>4. Len(given) \in Nat /\ Len(Signal) \in Nat /\ Placeholder \in Nat
          /\ Len(Signal) < Placeholder /\ Len(enc.signal) \in Nat
      BY <1>2, <3>2, EncoderAssumption
    <3> QED
      BY <1>5, <3>1, <3>2, <3>3, <3>4
  <2>5. sorted[name] = SortedPoints(tables[name])
        /\ \A n \in DOMAIN Templates : n # name => sorted[n] = tables[n]
        /\ DOMAIN sorted = DOMAIN Templates
    BY <2>2, <2>3
  <2>6. sorted = [n \in DOMAIN Templates |-> sorted[n]]
    BY <2>3
  <2> HIDE DEF sorted, name
  <2>7. /\ TableType(sorted[name]) /\ LegalPoints(sorted[name])
        /\ \A j \in DOMAIN sorted[name] :
              sorted[name][j].sample < Len(Audio) => LeadsTo(sorted[name][j], Frames)
    BY <2>2, <2>3, <2>4, <2>5, PointsDone
  <2>8. TablesType(sorted)
    BY <1>5, <2>5, <2>6, <2>7 DEF TablesType
  <2> QED
    BY <2>5, <2>7, <2>8 DEF name
<1>11. ASSUME ~skipped, enc.client = "file", NEW f, NEW r,
              r = IF f = "none" THEN Done(enc, tables, patched)
                  ELSE Failed(enc, tables, out, "CLIENT_ERROR"),
              enc' = r.enc, out' = r.out,
              call' = IF r.ok THEN [call EXCEPT !.todo = Tail(@)]
                      ELSE [call EXCEPT !.todo = <<>>, !.error = TRUE],
              tables' = IF field = "points" THEN sorted ELSE tables
       PROVE  SeekInv'
  <2> HIDE DEF total, sizes, placed, sorted
  <2>1. TablesType(tables')
    <3>1. CASE field = "points"
      BY <1>10, <1>11, <3>1
    <3>2. CASE field # "points"
      BY <1>5, <1>11, <3>2
    <3> QED
      BY <3>1, <3>2
  <2>2. CASE f # "none"
    <3> HIDE DEF patched, field, skipped
    <3>1. r = Failed(enc, tables, out, "CLIENT_ERROR") /\ enc' = r.enc
      BY <1>11, <2>2
    <3>2. r.enc.state = "CLIENT_ERROR"
      BY <1>2, <3>1, OneFieldFailed
    <3>3. enc'.state # "OK"
      BY <3>1, <3>2
    <3> QED
      BY <1>6, <2>1, <3>3 DEF SeekInv, SeekBegun
  <2>3. CASE f = "none"
    <3>1. r = [enc |-> enc, tables |-> tables, out |-> patched, ok |-> TRUE]
      BY <1>11, <2>3 DEF Done
    <3> HIDE DEF patched
    <3>2. r.ok /\ enc' = enc /\ out' = patched
      BY <1>11, <3>1
    <3>3. call' = [op |-> "finish", error |-> call.error, todo |-> Tail(call.todo)]
      <4>1. call' = [call EXCEPT !.todo = Tail(call.todo)]
        BY <1>11, <3>2
      <4> QED
        BY <1>3, <4>1
    <3>4. call'.op = "finish" /\ call'.todo = Tail(call.todo)
      BY <3>3
    <3>5. \/ field = "md5" /\ Tail(call.todo) = <<"total", "sizes", "points">>
          \/ field = "total" /\ Tail(call.todo) = <<"sizes", "points">>
          \/ field = "sizes" /\ Tail(call.todo) = <<"points">>
          \/ field = "points" /\ Tail(call.todo) = <<>>
      BY <1>1, <1>4, <1>11, DueNext
    <3> HIDE DEF field
    <3>6. ASSUME field # "points", SeekAt(enc, tables, patched) PROVE SeekInv'
      <4>1. Tail(call.todo) # <<>>
        <5>1. /\ <<"total", "sizes", "points">> # <<>> /\ <<"sizes", "points">> # <<>>
              /\ <<"points">> # <<>>
          OBVIOUS
        <5> QED
          BY <3>5, <3>6, <5>1
      <4>2. tables' = tables
        BY <1>11, <3>6
      <4>3. SeekAt(enc', tables', out')
        BY <3>2, <3>6, <4>2
      <4> QED
        BY <1>6, <2>1, <3>4, <4>1, <4>3 DEF SeekInv, SeekBegun
    <3>7. Found(out, enc.streaminfoOffset, "streaminfo") /\ OneTable(out)
      BY <1>4, <1>5, <1>11 DEF Streaming, Layout, SeekAt
    <3>8. ASSUME NEW name \in {"total", "sizes"}, NEW value,
                 patched = Patched(out, enc.streaminfoOffset, "streaminfo", name, value)
          PROVE  SeekAt(enc, tables, patched)
      <4>1. OneTable(patched) /\ (HasTable(patched) => HasTable(out))
        BY <1>2, <1>4, <3>7, <3>8, InfoPatchedTables
      <4>2. FramesOf(patched) = FramesOf(out)
        <5>1. Rewritten(out, patched, "streaminfo", name, value)
          BY <1>2, <1>4, <3>7, <3>8, PatchedRewrites
        <5> QED
          BY <5>1 DEF Rewritten
      <4> QED
        BY <1>5, <4>1, <4>2 DEF SeekAt
    <3>9. CASE field = "md5"
      <4>1. patched = out
        BY <3>9 DEF patched
      <4> QED
        BY <1>5, <3>6, <3>9, <4>1
    <3>10. CASE field = "total"
      <4>1. patched = total
        BY <3>10 DEF patched
      <4> QED
        BY <3>6, <3>8, <3>10, <4>1 DEF total
    <3>11. CASE field = "sizes"
      <4>1. patched = sizes
        BY <3>11 DEF patched
      <4> QED
        BY <3>6, <3>8, <3>11, <4>1 DEF sizes
    <3>12. CASE field = "points"
      <4> DEFINE value == sorted[enc.seekTable]
      <4>1. patched = placed
        BY <3>12 DEF patched
      <4>2. Found(out, enc.seektableOffset, "seektable")
        BY <1>4, <1>11, <3>12 DEF Streaming, field
      <4>3. /\ LegalPoints(value)
            /\ \A j \in DOMAIN value :
                  value[j].sample < Len(Audio) => LeadsTo(value[j], Frames)
        BY <1>10, <1>11, <3>12
      <4> HIDE DEF value
      <4>4. patched = Patched(out, enc.seektableOffset, "seektable", "points", value)
        BY <4>1 DEF placed, value
      <4>5. \A k \in 1..Len(patched) : Table(patched[k]) => patched[k].points = value
        BY <1>2, <1>4, <3>7, <4>2, <4>4, TablePatched
      <4>6. FramesOf(patched) = FramesOf(out)
        BY <1>2, <1>4, <4>2, <4>4, PatchedRewrites DEF Rewritten
      <4>7. TrueTables(patched)
        BY <4>3, <4>5, <4>6 DEF TrueTables, Audio, Frames
      <4>8. call'.todo = <<>>
        BY <3>4, <3>5, <3>12
      <4> QED
        BY <1>6, <2>1, <3>2, <3>4, <4>7, <4>8 DEF SeekInv, SeekBegun
    <3> QED
      BY <3>5, <3>9, <3>10, <3>11, <3>12
  <2> QED
    BY <2>2, <2>3
<1> HIDE DEF patched, skipped, sorted, field
<1> QED
  BY <1>1, <1>8, <1>9, <1>11

LEMMA FinishReturnsSeek ==
    ASSUME IInv, HeaderInv, SeekInv, FinishReturns PROVE SeekInv'
<1> DEFINE state == IF call.error THEN enc.state ELSE "UNINITIALIZED"
<1>1. /\ call.op = "finish" /\ call.todo = <<>>
      /\ enc' = WithDefaults([enc EXCEPT
                  !.state = IF call.error THEN @ ELSE "UNINITIALIZED",
                  !.signal = <<>>, !.fifo = <<>>, !.file = "closed"])
      /\ UNCHANGED <<tables, out, given, history>>
  BY DEF FinishReturns
<1>2. /\ EncoderType(enc) /\ enc.state # "UNINITIALIZED"
      /\ call.error => enc.state # "OK"
      /\ enc.state \notin {"OK", "UNINITIALIZED"} => history.failed
  BY <1>1 DEF IInv, Types, Control
<1>3. enc'.state # "OK"
  <2>1. enc' = WithDefaults([enc EXCEPT !.state = state, !.signal = <<>>, !.fifo = <<>>,
                                        !.file = "closed"])
    BY <1>1
  <2>2. state # "OK"
    BY <1>2
  <2> HIDE DEF state
  <2>3. enc'.state = state
    BY <1>2, <2>1, ResetType
  <2> QED
    BY <2>2, <2>3
<1>4. ~history.failed /\ history.client = "file" => TrueTables(out)
  <2>1. SUFFICES ASSUME ~history.failed, history.client = "file" PROVE TrueTables(out)
    OBVIOUS
  <2>2. enc.state = "OK"
    BY <1>2, <2>1
  <2>3. enc.client = history.client
    BY <2>2 DEF HeaderInv, HeaderBegun
  <2> QED
    BY <1>1, <2>1, <2>2, <2>3 DEF SeekInv, SeekBegun
<1>5. TablesType(tables') /\ Len(given') <= Len(Signal)
  BY <1>1 DEF SeekInv
<1>6. SeekBegun' /\ SeekDone'
  BY <1>1, <1>3, <1>4 DEF SeekBegun, SeekDone
<1> QED
  BY <1>5, <1>6 DEF SeekInv

LEMMA DeleteSeek == ASSUME IInv, SeekInv, Delete PROVE SeekInv'
<1>1. /\ finish' = "deleted" /\ UNCHANGED <<tables, out, given>>
      /\ enc' = IF enc.state = "UNINITIALIZED" THEN enc
                ELSE WithDefaults([enc EXCEPT !.state = "UNINITIALIZED",
                                              !.signal = <<>>, !.fifo = <<>>,
                                              !.file = "closed"])
  BY DEF Delete
<1>2. EncoderType(enc)
  BY DEF IInv, Types
<1>3. enc'.state # "OK"
  BY <1>1, <1>2, ResetType
<1>4. TablesType(tables') /\ Len(given') <= Len(Signal)
  BY <1>1 DEF SeekInv
<1> QED
  BY <1>1, <1>3, <1>4 DEF SeekInv, SeekBegun, SeekDone

LEMMA StutteringSeek == ASSUME SeekInv, UNCHANGED vars PROVE SeekInv'
<1>1. UNCHANGED <<enc, tables, out, call, given, finish, history>>
  BY DEF vars
<1>2. TablesType(tables') /\ Len(given') <= Len(Signal)
  BY <1>1 DEF SeekInv
<1>3. SeekBegun' /\ SeekDone'
  BY <1>1 DEF SeekInv, SeekBegun, SeekDone
<1> QED
  BY <1>2, <1>3 DEF SeekInv

(* What marking does to the seek table, in any state of any encoder: the    *)
(* points before the next one lead to frames, the others are in order and   *)
(* not reached yet, and the audio begins where the header ends              *)
(* (init_stream_internal_, write_frame_, update_metadata_).                 *)
THEOREM SeekInvariant == Spec => []SeekInv
<1>1. ASSUME IInv, HeaderInv, SeekInv, [Next]_vars PROVE SeekInv'
  BY <1>1, SettersSeek, InitStreamSeek, WriteHeaderUnitSeek, HeaderWrittenSeek,
     ProcessSeek, ProcessChunkSeek, FinishSeek, UpdateHeaderSeek,
     FinishReturnsSeek, DeleteSeek, StutteringSeek
  DEF Next
<1> QED
  BY <1>1, BeginsSeek, InductiveInvariant, HeaderInvariant, PTL DEF Spec

(* Every seek point of a file that finish has updated names a frame, its    *)
(* first sample, its offset in the audio and its length, unless it asks for *)
(* a sample past the end; and the table is in order (write_frame_,          *)
(* update_metadata_, FLAC__format_seektable_sort).                          *)
THEOREM SeekPointsTrueHolds == Spec => []SeekPointsTrue
<1>1. ASSUME IInv, SeekInv PROVE SeekPointsTrue
  <2>1. ASSUME WellFinished, NEW k \in OfType(out, "seektable")
        PROVE  LET points == out[k].points
               IN  /\ LegalPoints(points)
                   /\ \A j \in DOMAIN points :
                        points[j].sample < Len(given) => LeadsTo(points[j], Frames)
    <3>1. TrueTables(out) /\ Len(given) = Len(Audio)
      BY <1>1, <2>1 DEF IInv, Results, SeekInv, SeekDone, WellFinished
    <3>2. k \in 1..Len(out) /\ Table(out[k])
      BY <1>1, <2>1 DEF IInv, Types, UnitsType, OfType, Table
    <3> QED
      BY <3>1, <3>2 DEF TrueTables, Audio, Frames
  <2> QED
    BY <2>1 DEF SeekPointsTrue
<1> QED
  BY <1>1, InductiveInvariant, SeekInvariant, PTL

-----------------------------------------------------------------------------
(* The two channels of a stereo frame come back from mean and difference:  *)
(* process halves the sum, read_frame_ takes the lost bit from the side.   *)
THEOREM MidSideInverts ==
    ASSUME NEW l \in Int, NEW r \in Int
    PROVE  /\ LeftOf(Mid(l, r), Side(l, r)) = l
           /\ RightOf(Mid(l, r), Side(l, r)) = r
<1> DEFINE m == (l + r) \div 2
           s == l - r
<1>1. 2 * m + (s % 2) = l + r
  <2>1. l + r = 2 * m + ((l + r) % 2)
    OBVIOUS
  <2>2. (l + r) % 2 = s % 2
    OBVIOUS
  <2> QED
    BY <2>1, <2>2
<1>2. ((l + r) + s) \div 2 = l /\ ((l + r) - s) \div 2 = r
  OBVIOUS
<1> QED
  BY <1>1, <1>2 DEF LeftOf, RightOf, WholeMid, Mid, Side

-----------------------------------------------------------------------------
(* The mean needs no more bits than the channels, the difference one more: *)
(* read_frame_ reads the side channel with a bit more per sample.          *)
THEOREM MidSideWidth ==
    ASSUME NEW B \in Nat, NEW l \in -B..(B - 1), NEW r \in -B..(B - 1)
    PROVE  /\ Mid(l, r) \in -B..(B - 1)
           /\ Side(l, r) \in (-2 * B)..(2 * B - 1)
<1>1. (l + r) \div 2 \in -B..(B - 1)
  <2>1. -2 * B <= l + r /\ l + r <= 2 * (B - 1)
    OBVIOUS
  <2> QED
    BY <2>1
<1>2. l - r \in (-2 * B)..(2 * B - 1)
  OBVIOUS
<1> QED
  BY <1>1, <1>2 DEF Mid, Side

(* What the fixed predictor of an order makes of the size of a signal.     *)
Gain(order) ==
    CASE order = 0 -> 1 [] order = 1 -> 2 [] order = 2 -> 4
      [] order = 3 -> 8 [] order = 4 -> 16

(* The residual of a fixed predictor needs at most as many bits more than  *)
(* the signal as its order (fixed.c computes it in 32 bits, for samples of *)
(* 24 bits and a side channel of 25).                                      *)
THEOREM FixedWidth ==
    ASSUME NEW order \in 0..4, NEW B \in Nat, NEW x \in Seq(-B..B),
           NEW u \in 1..(Len(x) - order)
    PROVE  Residual(Fixed(order), x)[u] \in (-(Gain(order) * B))..(Gain(order) * B)
<1> DEFINE k == order + u
<1>1. \A j \in 1..Len(x) : x[j] \in -B..B
  OBVIOUS
<1>2. Residual(Fixed(order), x)[u] = x[k] - FixedPrediction(order, x, k)
  BY DEF Residual, Prediction, Fixed
<1>3. k \in 1..Len(x) /\ x[k] \in -B..B
  BY <1>1
<1>4. CASE order = 0
  <2>1. FixedPrediction(order, x, k) = 0 /\ Gain(order) * B = B
    BY <1>4 DEF FixedPrediction, Gain
  <2> QED
    BY <1>2, <1>3, <2>1
<1>5. CASE order = 1
  <2>1. x[k - 1] \in -B..B
    BY <1>1, <1>5
  <2>2. PICK a \in -B..B : x[k - 1] = a
    BY <2>1
  <2>3. FixedPrediction(order, x, k) = a
    BY <1>5, <2>2 DEF FixedPrediction
  <2>4. Gain(order) * B = 2 * B
    BY <1>5 DEF Gain
  <2>5. PICK y \in -B..B : x[k] = y
    BY <1>3
  <2>6. y - a \in (-(2 * B))..(2 * B)
    OBVIOUS
  <2> QED
    BY <1>2, <2>3, <2>4, <2>5, <2>6
<1>6. CASE order = 2
  <2>1. x[k - 1] \in -B..B /\ x[k - 2] \in -B..B
    BY <1>1, <1>6
  <2>2. PICK a \in -B..B : x[k - 1] = a
    BY <2>1
  <2>3. PICK b \in -B..B : x[k - 2] = b
    BY <2>1
  <2>4. FixedPrediction(order, x, k) = 2 * a - b
    BY <1>6, <2>2, <2>3 DEF FixedPrediction
  <2>5. Gain(order) * B = 4 * B
    BY <1>6 DEF Gain
  <2>6. PICK y \in -B..B : x[k] = y
    BY <1>3
  <2>7. y - (2 * a - b) \in (-(4 * B))..(4 * B)
    OBVIOUS
  <2> QED
    BY <1>2, <2>4, <2>5, <2>6, <2>7
<1>7. CASE order = 3
  <2>1. x[k - 1] \in -B..B /\ x[k - 2] \in -B..B /\ x[k - 3] \in -B..B
    BY <1>1, <1>7
  <2>2. PICK a \in -B..B : x[k - 1] = a
    BY <2>1
  <2>3. PICK b \in -B..B : x[k - 2] = b
    BY <2>1
  <2>4. PICK c \in -B..B : x[k - 3] = c
    BY <2>1
  <2>5. FixedPrediction(order, x, k) = 3 * (a - b) + c
    BY <1>7, <2>2, <2>3, <2>4 DEF FixedPrediction
  <2>6. Gain(order) * B = 8 * B
    BY <1>7 DEF Gain
  <2>7. PICK y \in -B..B : x[k] = y
    BY <1>3
  <2>8. y - (3 * (a - b) + c) \in (-(8 * B))..(8 * B)
    OBVIOUS
  <2> QED
    BY <1>2, <2>5, <2>6, <2>7, <2>8
<1>8. CASE order = 4
  <2>1. /\ x[k - 1] \in -B..B /\ x[k - 2] \in -B..B
        /\ x[k - 3] \in -B..B /\ x[k - 4] \in -B..B
    <3>1. /\ k - 1 \in 1..Len(x) /\ k - 2 \in 1..Len(x)
          /\ k - 3 \in 1..Len(x) /\ k - 4 \in 1..Len(x)
      BY <1>8
    <3> HIDE DEF k
    <3> QED
      BY <1>1, <3>1
  <2>2. PICK a \in -B..B : x[k - 1] = a
    BY <2>1
  <2>3. PICK b \in -B..B : x[k - 2] = b
    BY <2>1
  <2>4. PICK c \in -B..B : x[k - 3] = c
    BY <2>1
  <2>5. PICK e \in -B..B : x[k - 4] = e
    BY <2>1
  <2>6. FixedPrediction(order, x, k) = 4 * (a + c) - 6 * b - e
    BY <1>8, <2>2, <2>3, <2>4, <2>5 DEF FixedPrediction
  <2>7. Gain(order) * B = 16 * B
    BY <1>8 DEF Gain
  <2>8. PICK y \in -B..B : x[k] = y
    BY <1>3
  <2>9. y - (4 * (a + c) - 6 * b - e) \in (-(16 * B))..(16 * B)
    OBVIOUS
  <2> QED
    BY <1>2, <2>6, <2>7, <2>8, <2>9
<1> QED
  BY <1>4, <1>5, <1>6, <1>7, <1>8

-----------------------------------------------------------------------------
(* The decoder's loop (restore_signal) undoes the encoder's                *)
(* (compute_residual) with every predictor that looks back only: the       *)
(* samples it has restored so far are those the encoder predicted from.    *)
LEMMA CausalLossless ==
    ASSUME NEW p, p.order \in Nat, NEW x \in Seq(Int), p.order <= Len(x),
           \A u \in (p.order + 1)..Len(x) : Prediction(p, x, u) \in Int,
           \A d : \A u \in (p.order + 1)..Len(x) :
               (\A j \in 1..(u - 1) : d[j] = x[j])
                   => Prediction(p, d, u) = Prediction(p, x, u)
    PROVE  Restored(p, Warmup(p, x), Residual(p, x)) = x
<1> DEFINE n == Len(x)
           w == Warmup(p, x)
           r == Residual(p, x)
           Body(d) == [u \in 1..(Len(w) + Len(r)) |->
                           IF u <= Len(w) THEN w[u]
                           ELSE r[u - Len(w)] + Prediction(p, d, u)]
           data == CHOOSE d : d = Body(d)
<1>1. /\ Len(w) = p.order
      /\ \A u \in 1..p.order : w[u] = x[u]
  BY DEF Warmup
<1>2. /\ Len(r) = n - p.order
      /\ \A u \in 1..(n - p.order) :
             r[u] = x[p.order + u] - Prediction(p, x, p.order + u)
  BY DEF Residual
<1>3. 1..(Len(w) + Len(r)) = 1..n
  BY <1>1, <1>2
<1>4. ASSUME NEW u \in (p.order + 1)..n
      PROVE  r[u - Len(w)] = x[u] - Prediction(p, x, u)
  <2> HIDE DEF w, r
  <2>1. u - Len(w) \in 1..(n - p.order) /\ p.order + (u - Len(w)) = u
    BY <1>1
  <2> QED
    BY <1>2, <2>1
<1>5. x = Body(x)
  <2>1. x = [u \in 1..n |-> x[u]]
    OBVIOUS
  <2>2. ASSUME NEW u \in 1..n
        PROVE  x[u] = IF u <= Len(w) THEN w[u]
                      ELSE r[u - Len(w)] + Prediction(p, x, u)
    BY <1>1, <1>4
  <2> HIDE DEF w, r
  <2>3. [u \in 1..n |-> x[u]] = Body(x)
    BY <1>3, <2>2
  <2> QED
    BY <2>1, <2>3
<1>6. data = Body(data)
  <2> HIDE DEF Body
  <2> QED
    BY <1>5
<1>7. Restored(p, w, r) = data
  BY DEF Restored
<1> HIDE DEF w, r, data
<1>8. ASSUME NEW u \in 1..n
      PROVE  data[u] = IF u <= p.order THEN x[u]
                       ELSE (x[u] - Prediction(p, x, u)) + Prediction(p, data, u)
  <2>1. data[u] = Body(data)[u]
    BY <1>6
  <2>2. Body(data)[u] = IF u <= Len(w) THEN w[u]
                        ELSE r[u - Len(w)] + Prediction(p, data, u)
    BY <1>3
  <2>3. CASE u <= p.order
    BY <1>1, <2>1, <2>2, <2>3
  <2>4. CASE u > p.order
    <3>1. u \in (p.order + 1)..n /\ ~ (u <= Len(w))
      BY <1>1, <2>4
    <3> QED
      BY <1>4, <2>1, <2>2, <2>4, <3>1
  <2> QED
    BY <2>3, <2>4
<1>9. \A u \in 1..n : data[u] = x[u]
  <2> DEFINE wrong == {u \in 1..n : data[u] # x[u]}
  <2>1. SUFFICES ASSUME wrong # {} PROVE FALSE
    OBVIOUS
  <2>2. PICK m \in wrong : \A u \in wrong : m <= u
    <3>1. wrong \subseteq Nat
      OBVIOUS
    <3> HIDE DEF wrong
    <3> QED
      BY <2>1, <3>1, LeastNumber
  <2>3. \A j \in 1..(m - 1) : data[j] = x[j]
    BY <2>2
  <2>4. CASE m <= p.order
    BY <2>4, <1>8
  <2>5. CASE m > p.order
    <3>1. m \in (p.order + 1)..n
      BY <2>5
    <3>2. Prediction(p, data, m) = Prediction(p, x, m)
      BY <2>3, <3>1
    <3> QED
      BY <1>8, <2>5, <3>1, <3>2
  <2> QED
    BY <2>4, <2>5
<1>10. data = x
  <2>1. data = [u \in 1..n |-> data[u]]
    BY <1>3, <1>6
  <2>2. x = [u \in 1..n |-> x[u]]
    OBVIOUS
  <2> QED
    BY <2>1, <2>2, <1>9
<1> QED
  BY <1>7, <1>10 DEF w, r

-----------------------------------------------------------------------------
(* What FLAC__fixed_compute_residual makes of any signal,                  *)
(* FLAC__fixed_restore_signal makes the signal again.                      *)
THEOREM FixedLossless ==
    ASSUME NEW order \in 0..4, NEW x \in Seq(Int), order <= Len(x)
    PROVE  LET p == Fixed(order)
           IN  Restored(p, Warmup(p, x), Residual(p, x)) = x
<1> DEFINE p == Fixed(order)
<1>1. p.order = order /\ p.type = "fixed"
  BY DEF Fixed
<1>2. ASSUME NEW u \in (order + 1)..Len(x) PROVE Prediction(p, x, u) \in Int
  <2>1. /\ order >= 1 => x[u - 1] \in Int
        /\ order >= 2 => x[u - 2] \in Int
        /\ order >= 3 => x[u - 3] \in Int
        /\ order >= 4 => x[u - 4] \in Int
    OBVIOUS
  <2>2. FixedPrediction(order, x, u) \in Int
    <3>1. order \in {0, 1, 2, 3, 4}
      OBVIOUS
    <3>2. CASE order = 0
      BY <3>2 DEF FixedPrediction
    <3>3. CASE order = 1
      BY <2>1, <3>3 DEF FixedPrediction
    <3>4. CASE order = 2
      BY <2>1, <3>4 DEF FixedPrediction
    <3>5. CASE order = 3
      BY <2>1, <3>5 DEF FixedPrediction
    <3>6. CASE order = 4
      <4>1. PICK a \in Int : x[u - 1] = a
        BY <2>1, <3>6
      <4>2. PICK b \in Int : x[u - 2] = b
        BY <2>1, <3>6
      <4>3. PICK c \in Int : x[u - 3] = c
        BY <2>1, <3>6
      <4>4. PICK e \in Int : x[u - 4] = e
        BY <2>1, <3>6
      <4>5. FixedPrediction(order, x, u) = 4 * (a + c) - 6 * b - e
        BY <3>6, <4>1, <4>2, <4>3, <4>4 DEF FixedPrediction
      <4> QED
        BY <4>5
    <3> QED
      BY <3>1, <3>2, <3>3, <3>4, <3>5, <3>6
  <2> QED
    BY <1>1, <2>2 DEF Prediction
<1>3. ASSUME NEW d, NEW u \in (order + 1)..Len(x),
             \A j \in 1..(u - 1) : d[j] = x[j]
      PROVE  Prediction(p, d, u) = Prediction(p, x, u)
  <2>1. \A j \in 1..order : d[u - j] = x[u - j]
    BY <1>3
  <2>2. FixedPrediction(order, d, u) = FixedPrediction(order, x, u)
    BY <2>1 DEF FixedPrediction
  <2> QED
    BY <1>1, <2>2 DEF Prediction
<1> HIDE DEF p
<1> QED
  BY <1>1, <1>2, <1>3, CausalLossless DEF p

-----------------------------------------------------------------------------
(* The sum of a linear predictor adds its products one after the other.    *)
LEMMA LpcSumUnfolds ==
    ASSUME NEW c \in Seq(Int), NEW x, NEW u \in Int,
           \A j \in 1..Len(c) : x[u - j] \in Int
    PROVE  \E s : /\ s[0] = 0
                  /\ \A j \in 1..Len(c) : s[j] = s[j - 1] + c[j] * x[u - j]
                  /\ \A j \in 0..Len(c) : s[j] \in Int
                  /\ LpcSum(c, x, u) = s[Len(c)]
<1> DEFINE n == Len(c)
           Body(m, f) == [j \in 0..m |->
                              IF j = 0 THEN 0 ELSE f[j - 1] + c[j] * x[u - j]]
           Adds(m, f) == f = Body(m, f)
           s == CHOOSE f : f = Body(n, f)
<1>1. ASSUME NEW j \in 1..n PROVE c[j] * x[u - j] \in Int
  <2>1. c[j] \in Int /\ x[u - j] \in Int
    OBVIOUS
  <2>2. \A a, b \in Int : a * b \in Int
    OBVIOUS
  <2> QED
    BY <2>1, <2>2
<1>2. ASSUME NEW m \in 0..n, NEW f, Adds(m, f)
      PROVE  \A j \in 0..m : f[j] \in Int
  <2> DEFINE wrong == {j \in 0..m : f[j] \notin Int}
  <2>1. SUFFICES ASSUME wrong # {} PROVE FALSE
    OBVIOUS
  <2>2. PICK j \in wrong : \A k \in wrong : j <= k
    <3>1. wrong \subseteq Nat
      OBVIOUS
    <3> HIDE DEF wrong
    <3> QED
      BY <2>1, <3>1, LeastNumber
  <2>3. f[j] = Body(m, f)[j]
    BY <1>2
  <2>4. f[j] = IF j = 0 THEN 0 ELSE f[j - 1] + c[j] * x[u - j]
    BY <2>3
  <2>5. CASE j = 0
    BY <2>4, <2>5
  <2>6. CASE j # 0
    <3>1. j \in 1..n /\ f[j - 1] \in Int
      BY <2>2, <2>6
    <3>2. c[j] * x[u - j] \in Int
      BY <1>1, <3>1
    <3> DEFINE product == c[j] * x[u - j]
    <3>3. f[j] = f[j - 1] + product
      BY <2>4, <2>6
    <3> HIDE DEF product
    <3>4. f[j] \in Int
      BY <3>1, <3>2, <3>3 DEF product
    <3> QED
      BY <3>4
  <2> QED
    BY <2>5, <2>6
<1>3. \E f : Adds(n, f)
  <2> DEFINE wrong == {m \in 0..n : ~ \E f : Adds(m, f)}
  <2>1. SUFFICES ASSUME wrong # {} PROVE FALSE
    OBVIOUS
  <2>2. PICK m \in wrong : \A k \in wrong : m <= k
    <3>1. wrong \subseteq Nat
      OBVIOUS
    <3> HIDE DEF wrong
    <3> QED
      BY <2>1, <3>1, LeastNumber
  <2>3. CASE m = 0
    <3>1. Adds(0, [j \in 0..0 |-> 0])
      OBVIOUS
    <3> QED
      BY <2>2, <2>3, <3>1
  <2>4. CASE m # 0
    <3>1. m \in 1..n /\ m - 1 \in 0..n
      BY <2>2, <2>4
    <3>2. PICK f : Adds(m - 1, f)
      <4>1. ~ (m <= m - 1)
        BY <3>1
      <4>2. m - 1 \notin wrong
        BY <2>2, <4>1
      <4> QED
        BY <3>1, <4>2
    <3> DEFINE g == [j \in 0..m |-> IF j < m THEN f[j] ELSE f[m - 1] + c[m] * x[u - m]]
    <3>3. ASSUME NEW j \in 0..m
          PROVE  g[j] = IF j = 0 THEN 0 ELSE g[j - 1] + c[j] * x[u - j]
      <4>1. CASE j < m
        <5>1. f[j] = Body(m - 1, f)[j]
          BY <3>2
        <5>2. j \in 0..(m - 1) /\ g[j] = f[j] /\ (j # 0 => g[j - 1] = f[j - 1])
          BY <4>1
        <5> QED
          BY <5>1, <5>2
      <4>2. CASE j = m
        <5>1. g[m - 1] = f[m - 1]
          BY <2>4
        <5> QED
          BY <2>4, <4>2, <5>1
      <4> QED
        BY <4>1, <4>2
    <3>4. Adds(m, g)
      <4>1. Body(m, g) = [j \in 0..m |-> g[j]]
        BY <3>3
      <4> QED
        BY <4>1
    <3> QED
      BY <2>2, <3>4
  <2> QED
    BY <2>3, <2>4
<1>4. Adds(n, s)
  <2> HIDE DEF Body
  <2> QED
    BY <1>3
<1>5. LpcSum(c, x, u) = s[n]
  BY DEF LpcSum
<1> HIDE DEF s
<1>6. \A j \in 0..n : s[j] = Body(n, s)[j]
  BY <1>4
<1>7. s[0] = 0 /\ \A j \in 1..n : s[j] = s[j - 1] + c[j] * x[u - j]
  BY <1>6
<1>8. \A j \in 0..n : s[j] \in Int
  <2>1. n \in 0..n
    OBVIOUS
  <2> HIDE DEF Adds
  <2> QED
    BY <1>2, <1>4, <2>1
<1> QED
  BY <1>5, <1>7, <1>8

LEMMA LpcSumLooksBack ==
    ASSUME NEW c \in Seq(Int), NEW x, NEW d, NEW u \in Int,
           \A j \in 1..Len(c) : x[u - j] \in Int /\ d[u - j] = x[u - j]
    PROVE  LpcSum(c, d, u) = LpcSum(c, x, u)
<1> DEFINE n == Len(c)
<1>1. PICK s : /\ s[0] = 0
               /\ \A j \in 1..n : s[j] = s[j - 1] + c[j] * x[u - j]
               /\ LpcSum(c, x, u) = s[n]
  BY LpcSumUnfolds
<1>2. PICK t : /\ t[0] = 0
               /\ \A j \in 1..n : t[j] = t[j - 1] + c[j] * d[u - j]
               /\ LpcSum(c, d, u) = t[n]
  <2>1. \A j \in 1..n : d[u - j] \in Int
    OBVIOUS
  <2> QED
    BY <2>1, LpcSumUnfolds
<1>3. ASSUME NEW j \in 1..n PROVE t[j] = t[j - 1] + c[j] * x[u - j]
  BY <1>2
<1>4. \A j \in 0..n : t[j] = s[j]
  <2> DEFINE wrong == {j \in 0..n : t[j] # s[j]}
  <2>1. SUFFICES ASSUME wrong # {} PROVE FALSE
    OBVIOUS
  <2>2. PICK j \in wrong : \A k \in wrong : j <= k
    <3>1. wrong \subseteq Nat
      OBVIOUS
    <3> HIDE DEF wrong
    <3> QED
      BY <2>1, <3>1, LeastNumber
  <2>3. CASE j = 0
    BY <1>1, <1>2, <2>2, <2>3
  <2>4. CASE j # 0
    <3>1. j \in 1..n /\ j - 1 \in 0..n /\ ~ (j <= j - 1)
      BY <2>4
    <3>2. t[j - 1] = s[j - 1]
      BY <2>2, <3>1
    <3>3. t[j] = s[j]
      BY <1>1, <1>3, <3>1, <3>2
    <3> QED
      BY <3>3
  <2> QED
    BY <2>3, <2>4
<1>5. n \in 0..n
  OBVIOUS
<1> QED
  BY <1>1, <1>2, <1>4, <1>5

(* The same of the quantized linear predictors (lpc.c) with coefficients   *)
(* of any size and any shift.  That 2^shift is a positive number is all    *)
(* there is to know about the shift; the provers have no powers.           *)
THEOREM LpcLossless ==
    ASSUME NEW c \in Seq(Int), NEW shift, 2^shift \in Nat \ {0},
           NEW x \in Seq(Int), Len(c) <= Len(x)
    PROVE  LET p == Lpc(c, shift)
           IN  Restored(p, Warmup(p, x), Residual(p, x)) = x
<1> DEFINE p == Lpc(c, shift)
           n == Len(c)
<1>1. p.order = n /\ p.type = "lpc" /\ p.coeffs = c /\ p.shift = shift
  BY DEF Lpc
<1>2. \A u \in (n + 1)..Len(x) : \A j \in 1..n : u - j \in 1..(u - 1) /\ x[u - j] \in Int
  OBVIOUS
<1>3. ASSUME NEW d, NEW u PROVE Prediction(p, d, u) = LpcSum(c, d, u) \div 2^shift
  BY <1>1 DEF Prediction
<1>4. ASSUME NEW u \in (n + 1)..Len(x) PROVE Prediction(p, x, u) \in Int
  <2>1. \A j \in 1..n : x[u - j] \in Int
    BY <1>2
  <2>2. LpcSum(c, x, u) \in Int
    <3>1. u \in Int /\ \A j \in 1..Len(c) : x[u - j] \in Int
      BY <2>1
    <3> HIDE DEF n, p
    <3>2. PICK s : /\ s[0] = 0
                   /\ \A j \in 1..Len(c) : s[j] = s[j - 1] + c[j] * x[u - j]
                   /\ \A j \in 0..Len(c) : s[j] \in Int
                   /\ LpcSum(c, x, u) = s[Len(c)]
      BY <3>1, LpcSumUnfolds
    <3>3. Len(c) \in 0..Len(c)
      OBVIOUS
    <3> QED
      BY <3>2, <3>3
  <2>3. \A a \in Int : \A b \in Nat \ {0} : a \div b \in Int
    OBVIOUS
  <2> QED
    BY <1>3, <2>2, <2>3
<1>5. ASSUME NEW d, NEW u \in (n + 1)..Len(x),
             \A j \in 1..(u - 1) : d[j] = x[j]
      PROVE  Prediction(p, d, u) = Prediction(p, x, u)
  <2>1. \A j \in 1..n : x[u - j] \in Int /\ d[u - j] = x[u - j]
    BY <1>2, <1>5
  <2>2. LpcSum(c, d, u) = LpcSum(c, x, u)
    <3>1. /\ u \in Int
          /\ \A j \in 1..Len(c) : x[u - j] \in Int /\ d[u - j] = x[u - j]
      BY <2>1
    <3> HIDE DEF n, p
    <3> QED
      BY <3>1, LpcSumLooksBack
  <2> QED
    BY <1>3, <2>2
<1> HIDE DEF p
<1> QED
  BY <1>1, <1>4, <1>5, CausalLossless DEF p
=============================================================================
