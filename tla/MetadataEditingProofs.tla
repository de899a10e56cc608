------------------------ MODULE MetadataEditingProofs -----------------------
(***************************************************************************)
(* Theorems about MetadataEditing, for files of any blocks and clients that *)
(* make any edits through either interface, with writes that break off.    *)
(* A list of blocks determines a file (FileOf) and can be read off it      *)
(* again (Blocks); the argument shows of every edit that the file it       *)
(* leaves is that of the list the edit was meant to make.                  *)
(***************************************************************************)
EXTENDS MetadataEditing, SequenceTheorems, WellFoundedInduction, TLAPS

-----------------------------------------------------------------------------
(* Definitions by recursion.                                               *)
LEMMA LeastNumber ==
    ASSUME NEW T, T \subseteq Nat, T # {}
    PROVE  \E m \in T : \A n \in T : m <= n
<1>1. PICK m \in T : \A n \in T : <<n, m>> \notin OpToRel(<, Nat)
  BY NatLessThanWellFounded, WFMin
<1>2. ASSUME NEW n \in T, n < m PROVE FALSE
  BY <1>1, <1>2 DEF OpToRel
<1>3. \A n \in T : m <= n
  BY <1>2
<1> QED
  BY <1>3

(* A function that a step builds from its value at the number before.      *)
Builds(h, n, X, base, step) ==
    /\ h \in [0..n -> X]
    /\ h[0] = base
    /\ \A j \in 1..n : h[j] = step[j][h[j - 1]]

Steps(n, X) == [1..n -> [X -> X]]

LEMMA Recursion ==
    ASSUME NEW n \in Nat, NEW X, NEW base \in X, NEW step \in Steps(n, X)
    PROVE  \E h : Builds(h, n, X, base, step)
<1> DEFINE missing == {m \in 0..n : ~ \E h : Builds(h, m, X, base, step)}
<1>1. SUFFICES ASSUME missing # {} PROVE FALSE
  BY <1>1
<1>2. PICK m \in missing : \A k \in missing : m <= k
  <2>1. missing \subseteq Nat
    OBVIOUS
  <2> HIDE DEF missing
  <2> QED
    BY <1>1, <2>1, LeastNumber
<1>3. CASE m = 0
  <2>1. Builds([j \in 0..0 |-> base], 0, X, base, step)
    BY DEF Builds
  <2> QED
    BY <1>2, <1>3, <2>1
<1>4. CASE m # 0
  <2>1. m \in 1..n /\ m - 1 \in 0..n /\ m - 1 \notin missing
    BY <1>2, <1>4
  <2>2. PICK h : Builds(h, m - 1, X, base, step)
    BY <2>1
  <2> DEFINE g == [j \in 0..m |-> IF j = m THEN step[m][h[m - 1]] ELSE h[j]]
  <2>3. h[m - 1] \in X /\ step[m] \in [X -> X]
    BY <2>1, <2>2 DEF Builds, Steps
  <2>4. g \in [0..m -> X] /\ g[0] = base
    BY <2>1, <2>2, <2>3 DEF Builds
  <2>5. ASSUME NEW j \in 1..m PROVE g[j] = step[j][g[j - 1]]
    <3>1. g[j - 1] = h[j - 1]
      BY <2>1
    <3>2. CASE j = m
      BY <3>1, <3>2
    <3>3. CASE j # m
      <4>1. j \in 1..(m - 1) /\ g[j] = h[j]
        BY <3>3
      <4> QED
        BY <2>2, <3>1, <4>1 DEF Builds
    <3> QED
      BY <3>2, <3>3
  <2>6. Builds(g, m, X, base, step)
    BY <2>4, <2>5 DEF Builds
  <2> QED
    BY <1>2, <2>6
<1> QED
  BY <1>3, <1>4

(* Two functions that begin alike and go on alike are alike.               *)
Alike(n, f, g) ==
    /\ f[0] = g[0]
    /\ \A j \in 1..n : f[j - 1] = g[j - 1] => f[j] = g[j]

LEMMA SameRecursion ==
    ASSUME NEW n \in Nat, NEW f, NEW g, Alike(n, f, g)
    PROVE  \A j \in 0..n : f[j] = g[j]
<1> DEFINE differ == {j \in 0..n : f[j] # g[j]}
<1>1. SUFFICES ASSUME differ # {} PROVE FALSE
  BY <1>1
<1>2. PICK j \in differ : \A k \in differ : j <= k
  <2>1. differ \subseteq Nat
    OBVIOUS
  <2> HIDE DEF differ
  <2> QED
    BY <1>1, <2>1, LeastNumber
<1>3. j \in 1..n /\ j - 1 \in 0..n /\ j - 1 \notin differ
  BY <1>2 DEF Alike
<1> QED
  BY <1>2, <1>3 DEF Alike

-----------------------------------------------------------------------------
(* Sequences.                                                              *)
LEMMA Joined ==
    ASSUME NEW S, NEW s \in Seq(S), NEW t \in Seq(S)
    PROVE  /\ s \o t \in Seq(S) /\ Len(s \o t) = Len(s) + Len(t)
           /\ Len(s) \in Nat /\ Len(t) \in Nat
           /\ \A i \in 1..Len(s) : (s \o t)[i] = s[i]
           /\ \A i \in 1..Len(t) : (s \o t)[Len(s) + i] = t[i]
<1>1. /\ s \o t \in Seq(S) /\ Len(s \o t) = Len(s) + Len(t)
      /\ \A i \in 1 .. Len(s) + Len(t) : (s \o t)[i] =
                     IF i <= Len(s) THEN s[i] ELSE t[i - Len(s)]
  BY ConcatProperties
<1>2. Len(s) \in Nat /\ Len(t) \in Nat
  OBVIOUS
<1>3. \A i \in 1..Len(s) : (s \o t)[i] = s[i]
  <2> DEFINE m == Len(s)
             n == Len(t)
             all == s \o t
  <2>1. \A i \in 1..(m + n) : all[i] = IF i <= m THEN s[i] ELSE t[i - m]
    BY <1>1
  <2>2. m \in Nat /\ n \in Nat
    BY <1>2
  <2> HIDE DEF m, n, all
  <2>3. \A i \in 1..m : all[i] = s[i]
    BY <2>1, <2>2
  <2> QED
    BY <2>3 DEF m, all
<1>4. \A i \in 1..Len(t) : (s \o t)[Len(s) + i] = t[i]
  <2> DEFINE m == Len(s)
             n == Len(t)
             all == s \o t
  <2>1. \A i \in 1..(m + n) : all[i] = IF i <= m THEN s[i] ELSE t[i - m]
    BY <1>1
  <2>2. m \in Nat /\ n \in Nat
    BY <1>2
  <2> HIDE DEF m, n, all
  <2>3. ASSUME NEW i \in 1..n PROVE all[m + i] = t[i]
    <3>1. m + i \in 1..(m + n) /\ ~(m + i <= m) /\ (m + i) - m = i
      BY <2>2
    <3> QED
      BY <2>1, <3>1
  <2> QED
    BY <2>3 DEF m, n, all
<1> QED
  BY <1>1, <1>2, <1>3, <1>4

Concatenates(r, s, t) ==
    /\ Len(r) = Len(s) + Len(t) /\ Len(s) \in Nat /\ Len(t) \in Nat
    /\ \A i \in 1..Len(s) : r[i] = s[i]
    /\ \A i \in 1..Len(t) : r[Len(s) + i] = t[i]

LEMMA Joining ==
    ASSUME NEW S, NEW s \in Seq(S), NEW t \in Seq(S)
    PROVE  s \o t \in Seq(S) /\ Concatenates(s \o t, s, t)
BY Joined DEF Concatenates

LEMMA IsJoined ==
    ASSUME NEW S, NEW r \in Seq(S), NEW s \in Seq(S), NEW t \in Seq(S),
           Len(r) = Len(s) + Len(t),
           \A i \in 1..Len(s) : r[i] = s[i],
           \A i \in 1..Len(t) : r[Len(s) + i] = t[i]
    PROVE  r = s \o t
<1>1. /\ s \o t \in Seq(S) /\ Len(s) \in Nat /\ Len(t) \in Nat
      /\ Len(s \o t) = Len(s) + Len(t)
      /\ \A i \in 1..Len(s) : (s \o t)[i] = s[i]
      /\ \A i \in 1..Len(t) : (s \o t)[Len(s) + i] = t[i]
  BY Joined
<1>2. ASSUME NEW i \in 1..Len(r) PROVE r[i] = (s \o t)[i]
  <2>1. CASE i <= Len(s)
    BY <1>1, <2>1
  <2>2. CASE ~(i <= Len(s))
    <3>1. i - Len(s) \in 1..Len(t) /\ Len(s) + (i - Len(s)) = i
      BY <1>1, <2>2
    <3> QED
      BY <1>1, <3>1
  <2> QED
    BY <2>1, <2>2
<1> QED
  BY <1>1, <1>2, SeqEqual

(* A sequence that is cut in two, and its parts.                           *)
LEMMA CutAt ==
    ASSUME NEW S, NEW s \in Seq(S), NEW n \in 0..Len(s)
    PROVE  /\ SubSeq(s, 1, n) \in Seq(S) /\ SubSeq(s, n + 1, Len(s)) \in Seq(S)
           /\ Len(SubSeq(s, 1, n)) = n /\ Len(SubSeq(s, n + 1, Len(s))) = Len(s) - n
           /\ \A i \in 1..n : SubSeq(s, 1, n)[i] = s[i]
           /\ \A i \in 1..(Len(s) - n) : SubSeq(s, n + 1, Len(s))[i] = s[n + i]
           /\ SubSeq(s, 1, n) \o SubSeq(s, n + 1, Len(s)) = s
<1> DEFINE m == Len(s)
           a == SubSeq(s, 1, n)
           b == SubSeq(s, n + 1, m)
<1>1. m \in Nat /\ n \in Nat /\ n <= m /\ \A i \in 1..m : s[i] \in S
  OBVIOUS
<1>2. /\ a \in Seq(S) /\ Len(a) = n /\ \A i \in 1..n : a[i] = s[i]
      /\ b \in Seq(S) /\ Len(b) = m - n /\ \A i \in 1..(m - n) : b[i] = s[n + i]
  BY <1>1, SubSeqProperties
<1>3. /\ Len(s) = Len(a) + Len(b)
      /\ \A i \in 1..Len(a) : s[i] = a[i]
      /\ \A i \in 1..Len(b) : s[Len(a) + i] = b[i]
  <2> HIDE DEF a, b
  <2> QED
    BY <1>1, <1>2
<1> HIDE DEF a, b
<1>4. s = a \o b
  BY <1>2, <1>3, IsJoined
<1> QED
  BY <1>2, <1>4 DEF a, b

(* The two parts of a sequence that was put together.                      *)
LEMMA PartsOf ==
    ASSUME NEW S, NEW s \in Seq(S), NEW t \in Seq(S)
    PROVE  /\ SubSeq(s \o t, 1, Len(s)) = s
           /\ SubSeq(s \o t, Len(s) + 1, Len(s) + Len(t)) = t
<1> DEFINE all == s \o t
           n == Len(s)
           k == Len(t)
           a == SubSeq(all, 1, n)
           b == SubSeq(all, n + 1, Len(all))
<1>1. /\ all \in Seq(S) /\ Len(all) = n + k /\ n \in Nat /\ k \in Nat
      /\ \A i \in 1..n : all[i] = s[i]
      /\ \A i \in 1..k : all[n + i] = t[i]
  BY Joined
<1> HIDE DEF all, n, k
<1>2. n \in 0..Len(all)
  BY <1>1
<1>3. /\ a \in Seq(S) /\ b \in Seq(S) /\ Len(a) = n /\ Len(b) = Len(all) - n
      /\ \A i \in 1..n : a[i] = all[i]
      /\ \A i \in 1..(Len(all) - n) : b[i] = all[n + i]
  BY <1>1, <1>2, CutAt
<1> HIDE DEF a, b
<1>4. a = s
  BY <1>1, <1>3, SeqEqual DEF n
<1>5. b = t
  <2>1. Len(b) = k
    BY <1>1, <1>3
  <2>2. \A i \in 1..k : b[i] = t[i]
    BY <1>1, <1>3
  <2> QED
    BY <1>3, <2>1, <2>2, SeqEqual DEF k
<1>6. SubSeq(all, n + 1, n + k) = t
  BY <1>1, <1>5 DEF b
<1> QED
  BY <1>4, <1>6 DEF a, all, n, k

LEMMA OneIs ==
    ASSUME NEW S, NEW x \in S
    PROVE  <<x>> \in Seq(S) /\ Len(<<x>>) = 1 /\ <<x>>[1] = x
OBVIOUS

(* A sequence taken apart at one of its members.                           *)
LEMMA TakenApart ==
    ASSUME NEW S, NEW s \in Seq(S), NEW i \in 1..Len(s)
    PROVE  /\ SubSeq(s, 1, i - 1) \in Seq(S) /\ SubSeq(s, i + 1, Len(s)) \in Seq(S)
           /\ Len(SubSeq(s, 1, i - 1)) = i - 1 /\ Len(SubSeq(s, i + 1, Len(s))) = Len(s) - i
           /\ \A j \in 1..(i - 1) : SubSeq(s, 1, i - 1)[j] = s[j]
           /\ \A j \in 1..(Len(s) - i) : SubSeq(s, i + 1, Len(s))[j] = s[i + j]
           /\ s[i] \in S
           /\ SubSeq(s, 1, i) = SubSeq(s, 1, i - 1) \o <<s[i]>>
           /\ SubSeq(s, i, Len(s)) = <<s[i]>> \o SubSeq(s, i + 1, Len(s))
           /\ s = SubSeq(s, 1, i) \o SubSeq(s, i + 1, Len(s))
           /\ s = SubSeq(s, 1, i - 1) \o SubSeq(s, i, Len(s))
<1>1. Len(s) \in Nat /\ i \in 0..Len(s) /\ i - 1 \in 0..Len(s) /\ (i - 1) + 1 = i /\ s[i] \in S
  OBVIOUS
<1>2. /\ SubSeq(s, 1, i) = SubSeq(s, 1, i - 1) \o <<s[i]>>
      /\ SubSeq(s, i, Len(s)) = <<s[i]>> \o SubSeq(s, i + 1, Len(s))
  <2>1. 1 \in 1..Len(s) /\ i \in 1..i /\ i \in 1..Len(s) /\ Len(s) \in i..Len(s)
    BY <1>1
  <2>2. SubSeq(s, 1, i) = SubSeq(s, 1, i - 1) \o <<s[i]>>
    BY <2>1, SubSeqRecursiveSecond
  <2>3. SubSeq(s, i, Len(s)) = <<s[i]>> \o SubSeq(s, i + 1, Len(s))
    BY <2>1, SubSeqRecursiveFirst
  <2> QED
    BY <2>2, <2>3
<1>3. /\ SubSeq(s, i + 1, Len(s)) \in Seq(S) /\ Len(SubSeq(s, i + 1, Len(s))) = Len(s) - i
      /\ \A j \in 1..(Len(s) - i) : SubSeq(s, i + 1, Len(s))[j] = s[i + j]
      /\ s = SubSeq(s, 1, i) \o SubSeq(s, i + 1, Len(s))
  BY <1>1, CutAt
<1>4. /\ SubSeq(s, 1, i - 1) \in Seq(S) /\ Len(SubSeq(s, 1, i - 1)) = i - 1
      /\ \A j \in 1..(i - 1) : SubSeq(s, 1, i - 1)[j] = s[j]
      /\ s = SubSeq(s, 1, i - 1) \o SubSeq(s, (i - 1) + 1, Len(s))
  BY <1>1, CutAt
<1> QED
  BY <1>1, <1>2, <1>3, <1>4

-----------------------------------------------------------------------------
(* What adds up over the blocks of a list.                                 *)
Entry == Block \cup {Broken}

Texts == Ids \cup {"zeros", "none"}

Cells == Range(Prefix) \cup Range(Audio) \cup Block
         \cup {[type |-> "rest of a header"]} \cup [type : {"body"}, id : Ids \cup {"zeros"}]

LEMMA SizesTyped == ASSUME NEW b \in Entry PROVE Size(b) \in Nat
BY DEF Entry, Block, Broken, Size, HeaderLength

LEMMA ContentTyped == ASSUME NEW b \in Entry PROVE Said(b) \in Seq(Texts)
<1>1. b.id \in Texts
  BY DEF Entry, Block, Broken, Texts
<1>2. <<b.id>> \in Seq(Texts) /\ <<>> \in Seq(Texts)
  BY <1>1
<1> QED
  BY <1>2 DEF Said

LEMMA ImageTyped ==
    ASSUME NEW b \in Block
    PROVE  /\ HeaderImage(b) \in Seq(Cells) /\ Len(HeaderImage(b)) = HeaderLength
           /\ BodyImage(b) \in Seq(Cells) /\ Len(BodyImage(b)) = b.length
           /\ BlockImage(b) \in Seq(Cells) /\ Len(BlockImage(b)) = Size(b)
           /\ BlockImage(b)[1] = [b EXCEPT !.length = @ % LengthLimit]
<1>1. b.length \in Nat /\ b.length % LengthLimit \in Nat /\ b.id \in Ids \cup {"zeros"}
  BY FileAssumption DEF Block
<1> DEFINE first == [b EXCEPT !.length = @ % LengthLimit]
           head == [i \in 1..4 |-> IF i = 1 THEN first ELSE [type |-> "rest of a header"]]
           body == [i \in 1..b.length |-> [type |-> "body", id |-> b.id]]
<1>2. first \in Cells
  <2>1. first \in Block
    BY <1>1 DEF Block
  <2> QED
    BY <2>1 DEF Cells
<1>3. [type |-> "rest of a header"] \in Cells /\ [type |-> "body", id |-> b.id] \in Cells
  BY <1>1 DEF Cells
<1>4. HeaderImage(b) = head /\ BodyImage(b) = body
  BY DEF HeaderImage, BodyImage, HeaderLength
<1>5. head \in Seq(Cells) /\ Len(head) = 4 /\ head[1] = first
  <2> HIDE DEF first
  <2>1. head \in [1..4 -> Cells]
    BY <1>2, <1>3
  <2>2. DOMAIN head = 1..4
    OBVIOUS
  <2>3. head[1] = first
    OBVIOUS
  <2> HIDE DEF head
  <2> QED
    BY <2>1, <2>2, <2>3
<1>6. body \in Seq(Cells) /\ Len(body) = b.length
  <2>1. body \in [1..b.length -> Cells]
    BY <1>3
  <2> HIDE DEF body
  <2> QED
    BY <1>1, <2>1
<1> HIDE DEF first, head, body
<1>7. /\ head \o body \in Seq(Cells) /\ Len(head \o body) = 4 + b.length
      /\ (head \o body)[1] = head[1]
  <2>1. /\ head \o body \in Seq(Cells) /\ Len(head \o body) = Len(head) + Len(body)
        /\ \A i \in 1..Len(head) : (head \o body)[i] = head[i]
    BY <1>5, <1>6, Joined
  <2>2. 1 \in 1..Len(head)
    BY <1>5
  <2> QED
    BY <1>5, <1>6, <2>1, <2>2
<1> QED
  BY <1>4, <1>5, <1>6, <1>7 DEF BlockImage, Size, HeaderLength, first

LEMMA ImagesTyped == ASSUME NEW b \in Block PROVE BlockImage(b) \in Seq(Cells)
BY ImageTyped

(* TotalSize, unfolded, and that it adds up.                               *)
SizesOf(h, bs) ==
    /\ h[0] = 0
    /\ \A j \in 1..Len(bs) : h[j] = h[j - 1] + Size(bs[j])
    /\ \A j \in 0..Len(bs) : h[j] \in Nat
    /\ TotalSize(bs) = h[Len(bs)]

LEMMA SizesUnfold ==
    ASSUME NEW bs \in Seq(Entry)
    PROVE  \E h : SizesOf(h, bs)
<1> DEFINE n == Len(bs)
           X == Nat
           step == [j \in 1..n |-> [x \in X |-> x + Size(bs[j])]]
           Body(f) == [j \in 0..n |-> IF j = 0 THEN 0 ELSE f[j - 1] + Size(bs[j])]
           f0 == CHOOSE f : f = Body(f)
<1>1. n \in Nat /\ 0 \in X
  OBVIOUS
<1>2. ASSUME NEW j \in 1..n PROVE Size(bs[j]) \in X
  <2>1. bs[j] \in Entry
    OBVIOUS
  <2> QED
    BY <2>1, SizesTyped
<1>3. step \in Steps(n, X)
  <2>1. ASSUME NEW j \in 1..n, NEW x \in X PROVE x + Size(bs[j]) \in X
    <3> DEFINE y == Size(bs[j])
    <3>1. y \in X
      BY <1>2
    <3> HIDE DEF y
    <3>2. x + y \in X
      BY <3>1
    <3> QED
      BY <3>2 DEF y
  <2> HIDE DEF X
  <2> QED
    BY <2>1 DEF Steps
<1>4. PICK h : Builds(h, n, X, 0, step)
  <2> HIDE DEF step, X, n
  <2> QED
    BY <1>1, <1>3, Recursion
<1>5. /\ h \in [0..n -> X] /\ h[0] = 0
      /\ \A j \in 1..n : h[j] = h[j - 1] + Size(bs[j])
  <2>1. h \in [0..n -> X] /\ h[0] = 0
    BY <1>4 DEF Builds
  <2>2. ASSUME NEW j \in 1..n PROVE h[j] = h[j - 1] + Size(bs[j])
    <3>1. h[j] = step[j][h[j - 1]]
      BY <1>4 DEF Builds
    <3>2. j - 1 \in 0..n
      BY <1>1
    <3>3. h[j - 1] \in X
      BY <2>1, <3>2
    <3>4. step[j] = [x \in X |-> x + Size(bs[j])]
      OBVIOUS
    <3> HIDE DEF X, step
    <3>5. step[j][h[j - 1]] = h[j - 1] + Size(bs[j])
      BY <3>3, <3>4
    <3> QED
      BY <3>1, <3>5
  <2> QED
    BY <2>1, <2>2
<1>6. h = Body(h)
  <2>1. ASSUME NEW j \in 0..n PROVE h[j] = Body(h)[j]
    <3>1. CASE j = 0
      BY <1>5, <3>1
    <3>2. CASE j # 0
      <4>1. j \in 1..n
        BY <3>2
      <4> QED
        BY <1>5, <3>2, <4>1
    <3> QED
      BY <3>1, <3>2
  <2>2. DOMAIN h = 0..n /\ h = [j \in 0..n |-> h[j]]
    BY <1>5
  <2> QED
    BY <2>1, <2>2
<1>7. f0 = Body(f0)
  <2> HIDE DEF Body
  <2> QED
    BY <1>6
<1>8. TotalSize(bs) = f0[n]
  BY DEF TotalSize
<1>12. n \in 0..n
  BY <1>1
<1> HIDE DEF f0
<1>9. /\ f0[0] = 0
      /\ \A j \in 1..n : f0[j] = f0[j - 1] + Size(bs[j])
  <2>1. \A j \in 0..n : f0[j] = Body(f0)[j]
    BY <1>7
  <2>2. 0 \in 0..n /\ \A j \in 1..n : j \in 0..n /\ j # 0
    BY <1>1
  <2>3. f0[0] = 0
    BY <2>1, <2>2
  <2>4. ASSUME NEW j \in 1..n PROVE f0[j] = f0[j - 1] + Size(bs[j])
    BY <2>1, <2>2
  <2> QED
    BY <2>3, <2>4
<1>10. \A j \in 0..n : f0[j] = h[j]
  <2>1. Alike(n, f0, h)
    BY <1>5, <1>9 DEF Alike
  <2>2. n \in Nat
    BY <1>1
  <2> HIDE DEF n
  <2> QED
    BY <2>1, <2>2, SameRecursion
<1>11. \A j \in 0..n : f0[j] \in X
  <2> HIDE DEF X
  <2> QED
    BY <1>5, <1>10
<1> QED
  BY <1>5, <1>8, <1>10, <1>11, <1>12 DEF SizesOf

LEMMA SizesNone == TotalSize(<<>>) = 0
<1> DEFINE none == <<>>
<1>1. none \in Seq(Entry) /\ Len(none) = 0
  OBVIOUS
<1> HIDE DEF none
<1>2. PICK h : SizesOf(h, none)
  BY <1>1, SizesUnfold
<1>3. TotalSize(none) = 0
  BY <1>1, <1>2 DEF SizesOf
<1> QED
  BY <1>3 DEF none

LEMMA SizesType ==
    ASSUME NEW bs \in Seq(Entry)
    PROVE  TotalSize(bs) \in Nat
<1>1. PICK h : SizesOf(h, bs)
  BY SizesUnfold
<1>2. Len(bs) \in 0..Len(bs)
  OBVIOUS
<1> QED
  BY <1>1, <1>2 DEF SizesOf

LEMMA SizesSame ==
    ASSUME NEW bs \in Seq(Entry), NEW cs \in Seq(Entry), Len(cs) = Len(bs),
           \A j \in 1..Len(bs) : Size(cs[j]) = Size(bs[j])
    PROVE  TotalSize(cs) = TotalSize(bs)
<1> DEFINE n == Len(bs)
<1>1. PICK h : SizesOf(h, bs)
  BY SizesUnfold
<1>2. PICK g : SizesOf(g, cs)
  BY SizesUnfold
<1>3. Alike(n, g, h)
  BY <1>1, <1>2 DEF Alike, SizesOf
<1>4. n \in Nat /\ n \in 0..n /\ Len(cs) = n
  OBVIOUS
<1> HIDE DEF n
<1>5. g[n] = h[n]
  BY <1>3, <1>4, SameRecursion
<1> QED
  BY <1>1, <1>2, <1>4, <1>5 DEF SizesOf, n

LEMMA SizesJoined ==
    ASSUME NEW bs \in Seq(Entry), NEW cs \in Seq(Entry)
    PROVE  TotalSize(bs \o cs) = TotalSize(bs) + TotalSize(cs)
<1> DEFINE n == Len(bs)
           k == Len(cs)
           all == bs \o cs
<1>1. /\ all \in Seq(Entry) /\ Len(all) = n + k /\ n \in Nat /\ k \in Nat
      /\ \A j \in 1..n : all[j] = bs[j]
      /\ \A j \in 1..k : all[n + j] = cs[j]
  BY Joined
<1>2. PICK h : SizesOf(h, bs)
  BY SizesUnfold
<1>3. PICK g : SizesOf(g, cs)
  BY SizesUnfold
<1>4. \A j \in 1..k : Size(cs[j]) \in Nat
  <2>1. \A j \in 1..k : cs[j] \in Entry
    OBVIOUS
  <2> QED
    BY <2>1, SizesTyped
<1>5. PICK a : SizesOf(a, all)
  <2> HIDE DEF all
  <2> QED
    BY <1>1, SizesUnfold
<1>6. /\ h[0] = 0
      /\ \A j \in 1..n : h[j] = h[j - 1] + Size(bs[j])
      /\ \A j \in 0..n : h[j] \in Nat
      /\ TotalSize(bs) = h[n]
  BY <1>2 DEF SizesOf
<1>7. /\ g[0] = 0
      /\ \A j \in 1..k : g[j] = g[j - 1] + Size(cs[j])
      /\ \A j \in 0..k : g[j] \in Nat
      /\ TotalSize(cs) = g[k]
  BY <1>3 DEF SizesOf
<1>8. /\ a[0] = 0
      /\ \A j \in 1..(n + k) : a[j] = a[j - 1] + Size(all[j])
      /\ TotalSize(all) = a[n + k]
  <2> HIDE DEF all, n, k
  <2> QED
    BY <1>1, <1>5 DEF SizesOf
<1> HIDE DEF all, n, k
<1>9. a[n] = h[n]
  <2>1. \A j \in 1..n : j \in 1..(n + k)
    BY <1>1
  <2>2. Alike(n, a, h)
    BY <1>1, <1>6, <1>8, <2>1 DEF Alike
  <2>3. n \in 0..n
    BY <1>1
  <2> QED
    BY <1>1, <2>2, <2>3, SameRecursion
<1>10. a[n + k] = h[n] + g[k]
  <2> DEFINE u == [j \in 0..k |-> a[n + j]]
             v == [j \in 0..k |-> h[n] + g[j]]
  <2>1. h[n] \in Nat /\ n + 0 = n /\ 0 \in 0..k
    <3>1. n \in 0..n
      BY <1>1
    <3>2. h[n] \in Nat
      BY <1>6, <3>1
    <3> QED
      BY <1>1, <3>2
  <2>2. u[0] = v[0]
    <3>1. u[0] = h[n]
      BY <1>9, <2>1
    <3>2. v[0] = h[n] + 0
      BY <1>7, <2>1
    <3>3. h[n] + 0 = h[n]
      BY <2>1
    <3> HIDE DEF u, v
    <3> QED
      BY <3>1, <3>2, <3>3
  <2>3. ASSUME NEW j \in 1..k, u[j - 1] = v[j - 1] PROVE u[j] = v[j]
    <3>1. /\ j - 1 \in 0..k /\ j \in 0..k /\ n + j \in 1..(n + k)
          /\ n + (j - 1) = (n + j) - 1
      BY <1>1
    <3>2. u[j] = a[(n + j) - 1] + Size(all[n + j])
      BY <1>8, <3>1
    <3>3. a[(n + j) - 1] = h[n] + g[j - 1]
      BY <2>3, <3>1
    <3>4. u[j] = (h[n] + g[j - 1]) + Size(cs[j])
      BY <1>1, <3>2, <3>3
    <3>5. v[j] = h[n] + (g[j - 1] + Size(cs[j]))
      BY <1>7, <3>1
    <3>6. g[j - 1] \in Nat /\ Size(cs[j]) \in Nat
      BY <1>7, <1>4, <3>1
    <3>7. (h[n] + g[j - 1]) + Size(cs[j]) = h[n] + (g[j - 1] + Size(cs[j]))
      <4> DEFINE x == h[n]
                 y == g[j - 1]
                 z == Size(cs[j])
      <4>1. x \in Nat /\ y \in Nat /\ z \in Nat
        BY <2>1, <3>6
      <4> HIDE DEF x, y, z
      <4>2. (x + y) + z = x + (y + z)
        BY <4>1
      <4> QED
        BY <4>2 DEF x, y, z
    <3> HIDE DEF u, v
    <3> QED
      BY <3>4, <3>5, <3>7
  <2>4. Alike(k, u, v)
    <3> HIDE DEF u, v
    <3> QED
      BY <2>2, <2>3 DEF Alike
  <2>5. k \in 0..k
    BY <1>1
  <2>6. u[k] = v[k]
    <3> HIDE DEF u, v
    <3> QED
      BY <1>1, <2>4, <2>5, SameRecursion
  <2> QED
    BY <2>5, <2>6
<1> QED
  BY <1>6, <1>7, <1>8, <1>9, <1>10 DEF all, n, k

LEMMA SizesOne ==
    ASSUME NEW b \in Entry
    PROVE  TotalSize(<<b>>) = Size(b)
<1> DEFINE one == <<b>>
<1>1. one \in Seq(Entry) /\ Len(one) = 1 /\ one[1] = b
  OBVIOUS
<1> HIDE DEF one
<1>2. PICK h : SizesOf(h, one)
  BY <1>1, SizesUnfold
<1>3. h[0] = 0 /\ TotalSize(one) = h[1] /\ h[1] = h[0] + Size(one[1])
  <2>1. 1 \in 1..1 /\ 1 - 1 = 0
    OBVIOUS
  <2> QED
    BY <1>1, <1>2, <2>1 DEF SizesOf
<1>4. Size(b) \in Nat
  BY SizesTyped
<1>5. 0 + Size(b) = Size(b)
  BY <1>4
<1>6. TotalSize(one) = Size(b)
  BY <1>1, <1>3, <1>5
<1> QED
  BY <1>6 DEF one

(* Content, unfolded, and that it adds up.                                 *)
ContentOf(h, bs) ==
    /\ h[0] = <<>>
    /\ \A j \in 1..Len(bs) : h[j] = h[j - 1] \o Said(bs[j])
    /\ \A j \in 0..Len(bs) : h[j] \in Seq(Texts)
    /\ Content(bs) = h[Len(bs)]

LEMMA ContentUnfold ==
    ASSUME NEW bs \in Seq(Entry)
    PROVE  \E h : ContentOf(h, bs)
<1> DEFINE n == Len(bs)
           X == Seq(Texts)
           step == [j \in 1..n |-> [x \in X |-> x \o Said(bs[j])]]
           Body(f) == [j \in 0..n |-> IF j = 0 THEN <<>> ELSE f[j - 1] \o Said(bs[j])]
           f0 == CHOOSE f : f = Body(f)
<1>1. n \in Nat /\ <<>> \in X
  OBVIOUS
<1>2. ASSUME NEW j \in 1..n PROVE Said(bs[j]) \in X
  <2>1. bs[j] \in Entry
    OBVIOUS
  <2> QED
    BY <2>1, ContentTyped
<1>3. step \in Steps(n, X)
  <2>1. ASSUME NEW j \in 1..n, NEW x \in X PROVE x \o Said(bs[j]) \in X
    <3> DEFINE y == Said(bs[j])
    <3>1. y \in X
      BY <1>2
    <3> HIDE DEF y
    <3>2. x \o y \in X
      BY <3>1
    <3> QED
      BY <3>2 DEF y
  <2> HIDE DEF X
  <2> QED
    BY <2>1 DEF Steps
<1>4. PICK h : Builds(h, n, X, <<>>, step)
  <2> HIDE DEF step, X, n
  <2> QED
    BY <1>1, <1>3, Recursion
<1>5. /\ h \in [0..n -> X] /\ h[0] = <<>>
      /\ \A j \in 1..n : h[j] = h[j - 1] \o Said(bs[j])
  <2>1. h \in [0..n -> X] /\ h[0] = <<>>
    BY <1>4 DEF Builds
  <2>2. ASSUME NEW j \in 1..n PROVE h[j] = h[j - 1] \o Said(bs[j])
    <3>1. h[j] = step[j][h[j - 1]]
      BY <1>4 DEF Builds
    <3>2. j - 1 \in 0..n
      BY <1>1
    <3>3. h[j - 1] \in X
      BY <2>1, <3>2
    <3>4. step[j] = [x \in X |-> x \o Said(bs[j])]
      OBVIOUS
    <3> HIDE DEF X, step
    <3>5. step[j][h[j - 1]] = h[j - 1] \o Said(bs[j])
      BY <3>3, <3>4
    <3> QED
      BY <3>1, <3>5
  <2> QED
    BY <2>1, <2>2
<1>6. h = Body(h)
  <2>1. ASSUME NEW j \in 0..n PROVE h[j] = Body(h)[j]
    <3>1. CASE j = 0
      BY <1>5, <3>1
    <3>2. CASE j # 0
      <4>1. j \in 1..n
        BY <3>2
      <4> QED
        BY <1>5, <3>2, <4>1
    <3> QED
      BY <3>1, <3>2
  <2>2. DOMAIN h = 0..n /\ h = [j \in 0..n |-> h[j]]
    BY <1>5
  <2> QED
    BY <2>1, <2>2
<1>7. f0 = Body(f0)
  <2> HIDE DEF Body
  <2> QED
    BY <1>6
<1>8. Content(bs) = f0[n]
  BY DEF Content
<1>12. n \in 0..n
  BY <1>1
<1> HIDE DEF f0
<1>9. /\ f0[0] = <<>>
      /\ \A j \in 1..n : f0[j] = f0[j - 1] \o Said(bs[j])
  <2>1. \A j \in 0..n : f0[j] = Body(f0)[j]
    BY <1>7
  <2>2. 0 \in 0..n /\ \A j \in 1..n : j \in 0..n /\ j # 0
    BY <1>1
  <2>3. f0[0] = <<>>
    BY <2>1, <2>2
  <2>4. ASSUME NEW j \in 1..n PROVE f0[j] = f0[j - 1] \o Said(bs[j])
    BY <2>1, <2>2
  <2> QED
    BY <2>3, <2>4
<1>10. \A j \in 0..n : f0[j] = h[j]
  <2>1. Alike(n, f0, h)
    BY <1>5, <1>9 DEF Alike
  <2> HIDE DEF n
  <2> QED
    BY <1>1, <2>1, SameRecursion
<1>11. \A j \in 0..n : f0[j] \in X
  <2> HIDE DEF X
  <2> QED
    BY <1>5, <1>10
<1> QED
  BY <1>5, <1>8, <1>10, <1>11, <1>12 DEF ContentOf

LEMMA ContentNone == Content(<<>>) = <<>>
<1> DEFINE none == <<>>
<1>1. none \in Seq(Entry) /\ Len(none) = 0
  OBVIOUS
<1> HIDE DEF none
<1>2. PICK h : ContentOf(h, none)
  BY <1>1, ContentUnfold
<1>3. Content(none) = <<>>
  BY <1>1, <1>2 DEF ContentOf
<1> QED
  BY <1>3 DEF none

LEMMA ContentType ==
    ASSUME NEW bs \in Seq(Entry)
    PROVE  Content(bs) \in Seq(Texts)
<1>1. PICK h : ContentOf(h, bs)
  BY ContentUnfold
<1>2. Len(bs) \in 0..Len(bs)
  OBVIOUS
<1> QED
  BY <1>1, <1>2 DEF ContentOf

LEMMA ContentSame ==
    ASSUME NEW bs \in Seq(Entry), NEW cs \in Seq(Entry), Len(cs) = Len(bs),
           \A j \in 1..Len(bs) : Said(cs[j]) = Said(bs[j])
    PROVE  Content(cs) = Content(bs)
<1> DEFINE n == Len(bs)
<1>1. PICK h : ContentOf(h, bs)
  BY ContentUnfold
<1>2. PICK g : ContentOf(g, cs)
  BY ContentUnfold
<1>3. Alike(n, g, h)
  BY <1>1, <1>2 DEF Alike, ContentOf
<1>4. n \in Nat /\ n \in 0..n /\ Len(cs) = n
  OBVIOUS
<1> HIDE DEF n
<1>5. g[n] = h[n]
  BY <1>3, <1>4, SameRecursion
<1> QED
  BY <1>1, <1>2, <1>4, <1>5 DEF ContentOf, n

LEMMA ContentJoined ==
    ASSUME NEW bs \in Seq(Entry), NEW cs \in Seq(Entry)
    PROVE  Content(bs \o cs) = Content(bs) \o Content(cs)
<1> DEFINE n == Len(bs)
           k == Len(cs)
           all == bs \o cs
<1>1. /\ all \in Seq(Entry) /\ Len(all) = n + k /\ n \in Nat /\ k \in Nat
      /\ \A j \in 1..n : all[j] = bs[j]
      /\ \A j \in 1..k : all[n + j] = cs[j]
  BY Joined
<1>2. PICK h : ContentOf(h, bs)
  BY ContentUnfold
<1>3. PICK g : ContentOf(g, cs)
  BY ContentUnfold
<1>4. \A j \in 1..k : Said(cs[j]) \in Seq(Texts)
  <2>1. \A j \in 1..k : cs[j] \in Entry
    OBVIOUS
  <2> QED
    BY <2>1, ContentTyped
<1>5. PICK a : ContentOf(a, all)
  <2> HIDE DEF all
  <2> QED
    BY <1>1, ContentUnfold
<1>6. /\ h[0] = <<>>
      /\ \A j \in 1..n : h[j] = h[j - 1] \o Said(bs[j])
      /\ \A j \in 0..n : h[j] \in Seq(Texts)
      /\ Content(bs) = h[n]
  BY <1>2 DEF ContentOf
<1>7. /\ g[0] = <<>>
      /\ \A j \in 1..k : g[j] = g[j - 1] \o Said(cs[j])
      /\ \A j \in 0..k : g[j] \in Seq(Texts)
      /\ Content(cs) = g[k]
  BY <1>3 DEF ContentOf
<1>8. /\ a[0] = <<>>
      /\ \A j \in 1..(n + k) : a[j] = a[j - 1] \o Said(all[j])
      /\ Content(all) = a[n + k]
  <2> HIDE DEF all, n, k
  <2> QED
    BY <1>1, <1>5 DEF ContentOf
<1> HIDE DEF all, n, k
<1>9. a[n] = h[n]
  <2>1. \A j \in 1..n : j \in 1..(n + k)
    BY <1>1
  <2>2. Alike(n, a, h)
    BY <1>1, <1>6, <1>8, <2>1 DEF Alike
  <2>3. n \in 0..n
    BY <1>1
  <2> QED
    BY <1>1, <2>2, <2>3, SameRecursion
<1>10. a[n + k] = h[n] \o g[k]
  <2> DEFINE u == [j \in 0..k |-> a[n + j]]
             v == [j \in 0..k |-> h[n] \o g[j]]
  <2>1. h[n] \in Seq(Texts) /\ n + 0 = n /\ 0 \in 0..k
    <3>1. n \in 0..n
      BY <1>1
    <3>2. h[n] \in Seq(Texts)
      BY <1>6, <3>1
    <3> QED
      BY <1>1, <3>2
  <2>2. u[0] = v[0]
    <3>1. u[0] = h[n]
      BY <1>9, <2>1
    <3>2. v[0] = h[n] \o <<>>
      BY <1>7, <2>1
    <3>3. h[n] \o <<>> = h[n]
      BY <2>1, ConcatEmptySeq
    <3> HIDE DEF u, v
    <3> QED
      BY <3>1, <3>2, <3>3
  <2>3. ASSUME NEW j \in 1..k, u[j - 1] = v[j - 1] PROVE u[j] = v[j]
    <3>1. /\ j - 1 \in 0..k /\ j \in 0..k /\ n + j \in 1..(n + k)
          /\ n + (j - 1) = (n + j) - 1
      BY <1>1
    <3>2. u[j] = a[(n + j) - 1] \o Said(all[n + j])
      BY <1>8, <3>1
    <3>3. a[(n + j) - 1] = h[n] \o g[j - 1]
      BY <2>3, <3>1
    <3>4. u[j] = (h[n] \o g[j - 1]) \o Said(cs[j])
      BY <1>1, <3>2, <3>3
    <3>5. v[j] = h[n] \o (g[j - 1] \o Said(cs[j]))
      BY <1>7, <3>1
    <3>6. g[j - 1] \in Seq(Texts) /\ Said(cs[j]) \in Seq(Texts)
      BY <1>7, <1>4, <3>1
    <3>7. (h[n] \o g[j - 1]) \o Said(cs[j]) = h[n] \o (g[j - 1] \o Said(cs[j]))
      <4> DEFINE x == h[n]
                 y == g[j - 1]
                 z == Said(cs[j])
      <4>1. x \in Seq(Texts) /\ y \in Seq(Texts) /\ z \in Seq(Texts)
        BY <2>1, <3>6
      <4> HIDE DEF x, y, z
      <4>2. (x \o y) \o z = x \o (y \o z)
        BY <4>1, ConcatAssociative
      <4> QED
        BY <4>2 DEF x, y, z
    <3> HIDE DEF u, v
    <3> QED
      BY <3>4, <3>5, <3>7
  <2>4. Alike(k, u, v)
    <3> HIDE DEF u, v
    <3> QED
      BY <2>2, <2>3 DEF Alike
  <2>5. k \in 0..k
    BY <1>1
  <2>6. u[k] = v[k]
    <3> HIDE DEF u, v
    <3> QED
      BY <1>1, <2>4, <2>5, SameRecursion
  <2> QED
    BY <2>5, <2>6
<1> QED
  BY <1>6, <1>7, <1>8, <1>9, <1>10 DEF all, n, k

LEMMA ContentOne ==
    ASSUME NEW b \in Entry
    PROVE  Content(<<b>>) = Said(b)
<1> DEFINE one == <<b>>
<1>1. one \in Seq(Entry) /\ Len(one) = 1 /\ one[1] = b
  OBVIOUS
<1> HIDE DEF one
<1>2. PICK h : ContentOf(h, one)
  BY <1>1, ContentUnfold
<1>3. h[0] = <<>> /\ Content(one) = h[1] /\ h[1] = h[0] \o Said(one[1])
  <2>1. 1 \in 1..1 /\ 1 - 1 = 0
    OBVIOUS
  <2> QED
    BY <1>1, <1>2, <2>1 DEF ContentOf
<1>4. Said(b) \in Seq(Texts)
  BY ContentTyped
<1>5. <<>> \o Said(b) = Said(b)
  BY <1>4, ConcatEmptySeq
<1>6. Content(one) = Said(b)
  BY <1>1, <1>3, <1>5
<1> QED
  BY <1>6 DEF one

(* Image, unfolded, and that it adds up.                                   *)
ImagesOf(h, bs) ==
    /\ h[0] = <<>>
    /\ \A j \in 1..Len(bs) : h[j] = h[j - 1] \o BlockImage(bs[j])
    /\ \A j \in 0..Len(bs) : h[j] \in Seq(Cells)
    /\ Image(bs) = h[Len(bs)]

LEMMA ImagesUnfold ==
    ASSUME NEW bs \in Seq(Block)
    PROVE  \E h : ImagesOf(h, bs)
<1> DEFINE n == Len(bs)
           X == Seq(Cells)
           step == [j \in 1..n |-> [x \in X |-> x \o BlockImage(bs[j])]]
           Body(f) == [j \in 0..n |-> IF j = 0 THEN <<>> ELSE f[j - 1] \o BlockImage(bs[j])]
           f0 == CHOOSE f : f = Body(f)
<1>1. n \in Nat /\ <<>> \in X
  OBVIOUS
<1>2. ASSUME NEW j \in 1..n PROVE BlockImage(bs[j]) \in X
  <2>1. bs[j] \in Block
    OBVIOUS
  <2> QED
    BY <2>1, ImagesTyped
<1>3. step \in Steps(n, X)
  <2>1. ASSUME NEW j \in 1..n, NEW x \in X PROVE x \o BlockImage(bs[j]) \in X
    <3> DEFINE y == BlockImage(bs[j])
    <3>1. y \in X
      BY <1>2
    <3> HIDE DEF y
    <3>2. x \o y \in X
      BY <3>1
    <3> QED
      BY <3>2 DEF y
  <2> HIDE DEF X
  <2> QED
    BY <2>1 DEF Steps
<1>4. PICK h : Builds(h, n, X, <<>>, step)
  <2> HIDE DEF step, X, n
  <2> QED
    BY <1>1, <1>3, Recursion
<1>5. /\ h \in [0..n -> X] /\ h[0] = <<>>
      /\ \A j \in 1..n : h[j] = h[j - 1] \o BlockImage(bs[j])
  <2>1. h \in [0..n -> X] /\ h[0] = <<>>
    BY <1>4 DEF Builds
  <2>2. ASSUME NEW j \in 1..n PROVE h[j] = h[j - 1] \o BlockImage(bs[j])
    <3>1. h[j] = step[j][h[j - 1]]
      BY <1>4 DEF Builds
    <3>2. j - 1 \in 0..n
      BY <1>1
    <3>3. h[j - 1] \in X
      BY <2>1, <3>2
    <3>4. step[j] = [x \in X |-> x \o BlockImage(bs[j])]
      OBVIOUS
    <3> HIDE DEF X, step
    <3>5. step[j][h[j - 1]] = h[j - 1] \o BlockImage(bs[j])
      BY <3>3, <3>4
    <3> QED
      BY <3>1, <3>5
  <2> QED
    BY <2>1, <2>2
<1>6. h = Body(h)
  <2>1. ASSUME NEW j \in 0..n PROVE h[j] = Body(h)[j]
    <3>1. CASE j = 0
      BY <1>5, <3>1
    <3>2. CASE j # 0
      <4>1. j \in 1..n
        BY <3>2
      <4> QED
        BY <1>5, <3>2, <4>1
    <3> QED
      BY <3>1, <3>2
  <2>2. DOMAIN h = 0..n /\ h = [j \in 0..n |-> h[j]]
    BY <1>5
  <2> QED
    BY <2>1, <2>2
<1>7. f0 = Body(f0)
  <2> HIDE DEF Body
  <2> QED
    BY <1>6
<1>8. Image(bs) = f0[n]
  BY DEF Image
<1>12. n \in 0..n
  BY <1>1
<1> HIDE DEF f0
<1>9. /\ f0[0] = <<>>
      /\ \A j \in 1..n : f0[j] = f0[j - 1] \o BlockImage(bs[j])
  <2>1. \A j \in 0..n : f0[j] = Body(f0)[j]
    BY <1>7
  <2>2. 0 \in 0..n /\ \A j \in 1..n : j \in 0..n /\ j # 0
    BY <1>1
  <2>3. f0[0] = <<>>
    BY <2>1, <2>2
  <2>4. ASSUME NEW j \in 1..n PROVE f0[j] = f0[j - 1] \o BlockImage(bs[j])
    BY <2>1, <2>2
  <2> QED
    BY <2>3, <2>4
<1>10. \A j \in 0..n : f0[j] = h[j]
  <2>1. Alike(n, f0, h)
    BY <1>5, <1>9 DEF Alike
  <2> HIDE DEF n
  <2> QED
    BY <1>1, <2>1, SameRecursion
<1>11. \A j \in 0..n : f0[j] \in X
  <2> HIDE DEF X
  <2> QED
    BY <1>5, <1>10
<1> QED
  BY <1>5, <1>8, <1>10, <1>11, <1>12 DEF ImagesOf

LEMMA ImagesJoined ==
    ASSUME NEW bs \in Seq(Block), NEW cs \in Seq(Block)
    PROVE  Image(bs \o cs) = Image(bs) \o Image(cs)
<1> DEFINE n == Len(bs)
           k == Len(cs)
           all == bs \o cs
<1>1. /\ all \in Seq(Block) /\ Len(all) = n + k /\ n \in Nat /\ k \in Nat
      /\ \A j \in 1..n : all[j] = bs[j]
      /\ \A j \in 1..k : all[n + j] = cs[j]
  BY Joined
<1>2. PICK h : ImagesOf(h, bs)
  BY ImagesUnfold
<1>3. PICK g : ImagesOf(g, cs)
  BY ImagesUnfold
<1>4. \A j \in 1..k : BlockImage(cs[j]) \in Seq(Cells)
  <2>1. \A j \in 1..k : cs[j] \in Block
    OBVIOUS
  <2> QED
    BY <2>1, ImagesTyped
<1>5. PICK a : ImagesOf(a, all)
  <2> HIDE DEF all
  <2> QED
    BY <1>1, ImagesUnfold
<1>6. /\ h[0] = <<>>
      /\ \A j \in 1..n : h[j] = h[j - 1] \o BlockImage(bs[j])
      /\ \A j \in 0..n : h[j] \in Seq(Cells)
      /\ Image(bs) = h[n]
  BY <1>2 DEF ImagesOf
<1>7. /\ g[0] = <<>>
      /\ \A j \in 1..k : g[j] = g[j - 1] \o BlockImage(cs[j])
      /\ \A j \in 0..k : g[j] \in Seq(Cells)
      /\ Image(cs) = g[k]
  BY <1>3 DEF ImagesOf
<1>8. /\ a[0] = <<>>
      /\ \A j \in 1..(n + k) : a[j] = a[j - 1] \o BlockImage(all[j])
      /\ Image(all) = a[n + k]
  <2> HIDE DEF all, n, k
  <2> QED
    BY <1>1, <1>5 DEF ImagesOf
<1> HIDE DEF all, n, k
<1>9. a[n] = h[n]
  <2>1. \A j \in 1..n : j \in 1..(n + k)
    BY <1>1
  <2>2. Alike(n, a, h)
    BY <1>1, <1>6, <1>8, <2>1 DEF Alike
  <2>3. n \in 0..n
    BY <1>1
  <2> QED
    BY <1>1, <2>2, <2>3, SameRecursion
<1>10. a[n + k] = h[n] \o g[k]
  <2> DEFINE u == [j \in 0..k |-> a[n + j]]
             v == [j \in 0..k |-> h[n] \o g[j]]
  <2>1. h[n] \in Seq(Cells) /\ n + 0 = n /\ 0 \in 0..k
    <3>1. n \in 0..n
      BY <1>1
    <3>2. h[n] \in Seq(Cells)
      BY <1>6, <3>1
    <3> QED
      BY <1>1, <3>2
  <2>2. u[0] = v[0]
    <3>1. u[0] = h[n]
      BY <1>9, <2>1
    <3>2. v[0] = h[n] \o <<>>
      BY <1>7, <2>1
    <3>3. h[n] \o <<>> = h[n]
      BY <2>1, ConcatEmptySeq
    <3> HIDE DEF u, v
    <3> QED
      BY <3>1, <3>2, <3>3
  <2>3. ASSUME NEW j \in 1..k, u[j - 1] = v[j - 1] PROVE u[j] = v[j]
    <3>1. /\ j - 1 \in 0..k /\ j \in 0..k /\ n + j \in 1..(n + k)
          /\ n + (j - 1) = (n + j) - 1
      BY <1>1
    <3>2. u[j] = a[(n + j) - 1] \o BlockImage(all[n + j])
      BY <1>8, <3>1
    <3>3. a[(n + j) - 1] = h[n] \o g[j - 1]
      BY <2>3, <3>1
    <3>4. u[j] = (h[n] \o g[j - 1]) \o BlockImage(cs[j])
      BY <1>1, <3>2, <3>3
    <3>5. v[j] = h[n] \o (g[j - 1] \o BlockImage(cs[j]))
      BY <1>7, <3>1
    <3>6. g[j - 1] \in Seq(Cells) /\ BlockImage(cs[j]) \in Seq(Cells)
      BY <1>7, <1>4, <3>1
    <3>7. (h[n] \o g[j - 1]) \o BlockImage(cs[j]) = h[n] \o (g[j - 1] \o BlockImage(cs[j]))
      <4> DEFINE x == h[n]
                 y == g[j - 1]
                 z == BlockImage(cs[j])
      <4>1. x \in Seq(Cells) /\ y \in Seq(Cells) /\ z \in Seq(Cells)
        BY <2>1, <3>6
      <4> HIDE DEF x, y, z
      <4>2. (x \o y) \o z = x \o (y \o z)
        BY <4>1, ConcatAssociative
      <4> QED
        BY <4>2 DEF x, y, z
    <3> HIDE DEF u, v
    <3> QED
      BY <3>4, <3>5, <3>7
  <2>4. Alike(k, u, v)
    <3> HIDE DEF u, v
    <3> QED
      BY <2>2, <2>3 DEF Alike
  <2>5. k \in 0..k
    BY <1>1
  <2>6. u[k] = v[k]
    <3> HIDE DEF u, v
    <3> QED
      BY <1>1, <2>4, <2>5, SameRecursion
  <2> QED
    BY <2>5, <2>6
<1> QED
  BY <1>6, <1>7, <1>8, <1>9, <1>10 DEF all, n, k

LEMMA ImagesOne ==
    ASSUME NEW b \in Block
    PROVE  Image(<<b>>) = BlockImage(b)
<1> DEFINE one == <<b>>
<1>1. one \in Seq(Block) /\ Len(one) = 1 /\ one[1] = b
  OBVIOUS
<1> HIDE DEF one
<1>2. PICK h : ImagesOf(h, one)
  BY <1>1, ImagesUnfold
<1>3. h[0] = <<>> /\ Image(one) = h[1] /\ h[1] = h[0] \o BlockImage(one[1])
  <2>1. 1 \in 1..1 /\ 1 - 1 = 0
    OBVIOUS
  <2> QED
    BY <1>1, <1>2, <2>1 DEF ImagesOf
<1>4. BlockImage(b) \in Seq(Cells)
  BY ImagesTyped
<1>5. <<>> \o BlockImage(b) = BlockImage(b)
  BY <1>4, ConcatEmptySeq
<1>6. Image(one) = BlockImage(b)
  BY <1>1, <1>3, <1>5
<1> QED
  BY <1>6 DEF one

-----------------------------------------------------------------------------
(* The file of a list of blocks.                                           *)
LEMMA BlocksAreEntries ==
    ASSUME NEW bs \in Seq(Block) PROVE bs \in Seq(Entry)
BY DEF Entry

LEMMA ImageLength ==
    ASSUME NEW bs \in Seq(Block)
    PROVE  Image(bs) \in Seq(Cells) /\ Len(Image(bs)) = TotalSize(bs) /\ TotalSize(bs) \in Nat
<1> DEFINE n == Len(bs)
<1>1. PICK g : ImagesOf(g, bs)
  BY ImagesUnfold
<1>2. PICK h : SizesOf(h, bs)
  BY BlocksAreEntries, SizesUnfold
<1> DEFINE k == [j \in 0..n |-> Len(g[j])]
<1>3. n \in Nat /\ 0 \in 0..n /\ n \in 0..n
  OBVIOUS
<1>4. Alike(n, k, h)
  <2>1. k[0] = h[0]
    BY <1>1, <1>2, <1>3 DEF ImagesOf, SizesOf
  <2>2. ASSUME NEW j \in 1..n, k[j - 1] = h[j - 1] PROVE k[j] = h[j]
    <3>1. j - 1 \in 0..n /\ j \in 0..n
      BY <1>3
    <3>2. bs[j] \in Block
      OBVIOUS
    <3>3. BlockImage(bs[j]) \in Seq(Cells) /\ Len(BlockImage(bs[j])) = Size(bs[j])
      BY <3>2, ImageTyped
    <3>4. g[j - 1] \in Seq(Cells) /\ g[j] = g[j - 1] \o BlockImage(bs[j])
      BY <1>1, <3>1 DEF ImagesOf
    <3>5. Len(g[j]) = Len(g[j - 1]) + Size(bs[j])
      <4> DEFINE x == g[j - 1]
                 y == BlockImage(bs[j])
      <4>1. x \in Seq(Cells) /\ y \in Seq(Cells) /\ Len(y) = Size(bs[j]) /\ g[j] = x \o y
        BY <3>3, <3>4
      <4> HIDE DEF x, y
      <4>2. Len(x \o y) = Len(x) + Len(y)
        BY <4>1, Joined
      <4>3. Len(g[j]) = Len(x) + Size(bs[j])
        BY <4>1, <4>2
      <4> QED
        BY <4>3 DEF x
    <3>6. h[j] = h[j - 1] + Size(bs[j])
      BY <1>2 DEF SizesOf
    <3> QED
      BY <2>2, <3>1, <3>5, <3>6
  <2> HIDE DEF k
  <2> QED
    BY <2>1, <2>2 DEF Alike
<1>5. k[n] = h[n]
  <2> HIDE DEF k, n
  <2> QED
    BY <1>3, <1>4, SameRecursion
<1>6. Image(bs) = g[n] /\ g[n] \in Seq(Cells)
  BY <1>1, <1>3 DEF ImagesOf
<1>7. TotalSize(bs) = h[n] /\ h[n] \in Nat
  BY <1>2, <1>3 DEF SizesOf
<1> QED
  BY <1>3, <1>5, <1>6, <1>7

(* What stands before the blocks that follow A, and what stands after      *)
(* those that C follows.                                                   *)
Before(A) == Prefix \o Image(A)
After(C) == Image(C) \o Audio

Ends(A) == FirstOffset + TotalSize(A)

LEMMA Around ==
    ASSUME NEW A \in Seq(Block)
    PROVE  /\ Before(A) \in Seq(Cells) /\ Len(Before(A)) = Ends(A) /\ Ends(A) \in Nat
           /\ After(A) \in Seq(Cells) /\ Len(After(A)) = TotalSize(A) + Len(Audio)
           /\ Prefix \in Seq(Cells) /\ Audio \in Seq(Cells)
           /\ FirstOffset \in Nat /\ Len(Audio) \in Nat /\ TotalSize(A) \in Nat
<1>1. Prefix \in Seq(Cells)
  <2>1. Range(Prefix) \subseteq Cells
    BY DEF Cells
  <2> QED
    BY <2>1, FileAssumption
<1>2. Audio \in Seq(Cells)
  <2>1. Range(Audio) \subseteq Cells
    BY DEF Cells
  <2> QED
    BY <2>1, FileAssumption
<1>3. Image(A) \in Seq(Cells) /\ Len(Image(A)) = TotalSize(A) /\ TotalSize(A) \in Nat
  BY ImageLength
<1>4. /\ Prefix \o Image(A) \in Seq(Cells) /\ Len(Prefix \o Image(A)) = Len(Prefix) + Len(Image(A))
      /\ Len(Prefix) \in Nat
  BY <1>1, <1>3, Joined
<1>5. /\ Image(A) \o Audio \in Seq(Cells) /\ Len(Image(A) \o Audio) = Len(Image(A)) + Len(Audio)
      /\ Len(Audio) \in Nat
  BY <1>2, <1>3, Joined
<1> QED
  BY <1>1, <1>2, <1>3, <1>4, <1>5 DEF Before, After, Ends, FirstOffset

LEMMA Associate ==
    ASSUME NEW x \in Seq(Cells), NEW y \in Seq(Cells), NEW z \in Seq(Cells)
    PROVE  (x \o y) \o z = x \o (y \o z)
BY ConcatAssociative

Associates(x, y, z) == (x \o y) \o z = x \o (y \o z)

LEMMA Associated ==
    ASSUME NEW x \in Seq(Cells), NEW y \in Seq(Cells), NEW z \in Seq(Cells)
    PROVE  Associates(x, y, z)
BY Associate DEF Associates

Regroups(p, a, m, c, e) ==
    /\ p \o (a \o m) = (p \o a) \o m
    /\ (m \o c) \o e = m \o (c \o e)
    /\ (p \o ((a \o m) \o c)) \o e = (p \o a) \o (m \o (c \o e))

LEMMA RegroupedFive ==
    ASSUME NEW p \in Seq(Cells), NEW a \in Seq(Cells), NEW m \in Seq(Cells),
           NEW c \in Seq(Cells), NEW e \in Seq(Cells)
    PROVE  Regroups(p, a, m, c, e)
<1> DEFINE am == a \o m
           pa == p \o a
           pam == p \o am
           ce == c \o e
<1>1. Associates(p, a, m) /\ Associates(m, c, e)
  BY Associated
<1>2. am \in Seq(Cells) /\ pa \in Seq(Cells) /\ ce \in Seq(Cells) /\ pam \in Seq(Cells)
  <2>1. am \in Seq(Cells) /\ pa \in Seq(Cells) /\ ce \in Seq(Cells)
    OBVIOUS
  <2> HIDE DEF am, pa, ce
  <2> QED
    BY <2>1
<1> HIDE DEF am, pa, pam, ce
<1>3. Associates(p, am, c) /\ Associates(pam, c, e) /\ Associates(pa, m, ce)
  BY <1>2, Associated
<1>4. pa \o m = pam /\ (m \o c) \o e = m \o ce
  BY <1>1, Zenon DEF Associates, am, pa, pam, ce
<1>5. p \o (am \o c) = pam \o c
  BY <1>3, Zenon DEF Associates, pam
<1>6. (pam \o c) \o e = pam \o ce
  BY <1>3, Zenon DEF Associates, ce
<1>7. (pa \o m) \o ce = pa \o (m \o ce)
  BY <1>3, Zenon DEF Associates
<1>8. (p \o (am \o c)) \o e = pa \o (m \o ce)
  BY <1>4, <1>5, <1>6, <1>7, Zenon
<1> QED
  BY <1>4, <1>8, Zenon DEF Regroups, am, pa, pam, ce

LEMMA FileParts ==
    ASSUME NEW A \in Seq(Block), NEW M \in Seq(Block), NEW C \in Seq(Block)
    PROVE  /\ FileOf((A \o M) \o C) = Before(A) \o (Image(M) \o After(C))
           /\ Before(A \o M) = Before(A) \o Image(M)
           /\ After(M \o C) = Image(M) \o After(C)
           /\ Ends(A \o M) = Ends(A) + TotalSize(M)
<1>1. /\ Image(A) \in Seq(Cells) /\ Image(M) \in Seq(Cells) /\ Image(C) \in Seq(Cells)
      /\ Prefix \in Seq(Cells) /\ Audio \in Seq(Cells) /\ After(C) \in Seq(Cells)
      /\ FirstOffset \in Nat /\ TotalSize(A) \in Nat /\ TotalSize(M) \in Nat
  BY ImageLength, Around
<1>2. A \o M \in Seq(Block) /\ M \o C \in Seq(Block) /\ (A \o M) \o C \in Seq(Block)
  OBVIOUS
<1>3. /\ Image(A \o M) = Image(A) \o Image(M) /\ Image(M \o C) = Image(M) \o Image(C)
      /\ Image((A \o M) \o C) = Image(A \o M) \o Image(C)
  BY <1>2, ImagesJoined
<1> DEFINE p == Prefix
           a == Image(A)
           m == Image(M)
           c == Image(C)
           e == Audio
<1>4. p \in Seq(Cells) /\ a \in Seq(Cells) /\ m \in Seq(Cells) /\ c \in Seq(Cells) /\ e \in Seq(Cells)
  BY <1>1
<1> HIDE DEF p, a, m, c, e
<1>5. /\ p \o (a \o m) = (p \o a) \o m
      /\ (m \o c) \o e = m \o (c \o e)
      /\ (p \o ((a \o m) \o c)) \o e = (p \o a) \o (m \o (c \o e))
  <2>1. Regroups(p, a, m, c, e)
    BY <1>4, RegroupedFive
  <2> QED
    BY <2>1 DEF Regroups
<1>6. TotalSize(A \o M) = TotalSize(A) + TotalSize(M)
  BY BlocksAreEntries, SizesJoined
<1> QED
  BY <1>1, <1>3, <1>5, <1>6 DEF FileOf, Before, After, Ends, p, a, m, c, e

(* A file that is cut, written over, or put together anew.                 *)
LEMMA Cuts ==
    ASSUME NEW s \in Seq(Cells), NEW t \in Seq(Cells), NEW u \in Seq(Cells)
    PROVE  /\ s \o (t \o u) \in Seq(Cells) /\ Len(s \o (t \o u)) = Len(s) + Len(t) + Len(u)
           /\ Copied(s \o (t \o u), 0, Len(s)) = s
           /\ Copied(s \o (t \o u), Len(s) + Len(t), Len(s \o (t \o u))) = u
<1> DEFINE f == s \o (t \o u)
           st == s \o t
<1>1. /\ t \o u \in Seq(Cells) /\ Len(t \o u) = Len(t) + Len(u) /\ Len(t) \in Nat /\ Len(u) \in Nat
  BY Joined
<1>2. /\ f \in Seq(Cells) /\ Len(f) = Len(s) + (Len(t) + Len(u)) /\ Len(s) \in Nat
  BY <1>1, Joined
<1>3. f = st \o u
  BY Associate
<1>4. st \in Seq(Cells) /\ Len(st) = Len(s) + Len(t)
  BY Joined
<1>5. SubSeq(f, 1, Len(s)) = s
  BY <1>1, PartsOf
<1>6. SubSeq(f, Len(st) + 1, Len(st) + Len(u)) = u
  <2> HIDE DEF st, f
  <2> QED
    BY <1>3, <1>4, PartsOf
<1>7. Len(f) = Len(st) + Len(u)
  BY <1>1, <1>2, <1>4
<1> HIDE DEF f, st
<1>8. Copied(f, 0, Len(s)) = s
  BY <1>5 DEF Copied
<1>9. Copied(f, Len(s) + Len(t), Len(f)) = u
  BY <1>4, <1>6, <1>7 DEF Copied
<1> QED
  BY <1>1, <1>2, <1>8, <1>9 DEF f

LEMMA NothingWritten ==
    ASSUME NEW f \in Seq(Cells), NEW n \in 0..Len(f)
    PROVE  Overwritten(f, n, <<>>) = f
<1>1. /\ SubSeq(f, 1, n) \in Seq(Cells) /\ SubSeq(f, n + 1, Len(f)) \in Seq(Cells)
      /\ SubSeq(f, 1, n) \o SubSeq(f, n + 1, Len(f)) = f
  BY CutAt
<1>2. SubSeq(f, 1, n) \o <<>> = SubSeq(f, 1, n)
  BY <1>1, ConcatEmptySeq
<1>3. 0 + 1 = 1 /\ Len(<<>>) = 0 /\ n + 0 = n
  OBVIOUS
<1>4. Copied(f, 0, n) = SubSeq(f, 1, n)
  BY <1>3 DEF Copied
<1>5. Copied(f, n + Len(<<>>), Len(f)) = SubSeq(f, n + 1, Len(f))
  BY <1>3 DEF Copied
<1> QED
  BY <1>1, <1>2, <1>4, <1>5 DEF Overwritten

(* A beginning of a file.                                                  *)
LEMMA BeginningTyped ==
    ASSUME NEW f \in Seq(Cells), NEW k \in 0..(Len(f) - 1)
    PROVE  SubSeq(f, 1, k) \in Seq(Cells) /\ Len(SubSeq(f, 1, k)) = k
<1>1. Len(f) \in Nat /\ k \in Nat /\ k <= Len(f)
  OBVIOUS
<1>2. \A i \in 1..k : f[i] \in Cells
  BY <1>1
<1> QED
  BY <1>1, <1>2, SubSeqProperties

(* What stands first and last in a file that is written over in between.   *)
LEMMA KeptAround ==
    ASSUME NEW f \in Seq(Cells), NEW v \in Seq(Cells), NEW o \in Nat, NEW p \in 0..o,
           NEW a \in Nat, o + Len(v) + a <= Len(f)
    PROVE  LET g == Overwritten(f, o, v)
           IN  /\ Copied(g, 0, p) = Copied(f, 0, p)
               /\ Copied(g, Len(g) - a, Len(g)) = Copied(f, Len(f) - a, Len(f))
<1> DEFINE x == SubSeq(f, 1, o)
           q == o + Len(v)
           z == SubSeq(f, q + 1, Len(f))
           g == (x \o v) \o z
           n == Len(f)
<1>1. n \in Nat /\ Len(v) \in Nat /\ o <= n /\ q \in 0..n
  OBVIOUS
<1>2. x \in Seq(Cells) /\ z \in Seq(Cells)
  BY <1>1, CutAt
<1>3. Len(x) = o /\ \A i \in 1..o : x[i] = f[i]
  BY <1>1
<1>4. Len(z) = n - q /\ \A i \in 1..(n - q) : z[i] = f[q + i]
  BY <1>1
<1> HIDE DEF x, z
<1>5. /\ x \o v \in Seq(Cells) /\ Len(x \o v) = q
      /\ \A i \in 1..o : (x \o v)[i] = x[i]
  BY <1>1, <1>2, <1>3
<1> DEFINE y == x \o v
<1> HIDE DEF y
<1>6. /\ g = y \o z /\ Len(y \o z) = n
      /\ \A i \in 1..q : (y \o z)[i] = y[i]
      /\ \A i \in (q + 1)..n : (y \o z)[i] = z[i - q]
  BY <1>1, <1>2, <1>4, <1>5 DEF y
<1> HIDE DEF g
<1>7. Len(g) = n
  BY <1>6
<1>8. \A i \in 1..p : g[i] = f[i]
  BY <1>1, <1>3, <1>5, <1>6 DEF y
<1>9. \A i \in (n - a + 1)..n : g[i] = f[i]
  BY <1>1, <1>4, <1>6
<1>10. SubSeq(g, 1, p) = SubSeq(f, 1, p)
  BY <1>1, <1>7, <1>8
<1>11. SubSeq(g, n - a + 1, n) = SubSeq(f, n - a + 1, n)
  BY <1>1, <1>7, <1>9
<1>12. g = Overwritten(f, o, v)
  <2>1. Copied(f, 0, o) = x
    BY DEF Copied, x
  <2>2. Copied(f, o + Len(v), Len(f)) = z
    BY DEF Copied, z
  <2> QED
    BY <2>1, <2>2 DEF Overwritten, g
<1> QED
  BY <1>7, <1>10, <1>11, <1>12 DEF Copied

-----------------------------------------------------------------------------
(* The headers that are read in a file.                                    *)
Short(bs) == \A j \in 1..Len(bs) : bs[j].length < LengthLimit

LEMMA WholeHeader ==
    ASSUME NEW b \in Block, b.length < LengthLimit
    PROVE  [b EXCEPT !.length = @ % LengthLimit] = b
<1>1. b.length \in Nat /\ LengthLimit \in Nat /\ b.length < LengthLimit
  BY FileAssumption DEF Block
<1>2. b.length % LengthLimit = b.length
  BY <1>1
<1> QED
  BY <1>2 DEF Block

LEMMA HeaderRead ==
    ASSUME NEW s \in Seq(Cells), NEW b \in Block, NEW u \in Seq(Cells),
           b.length < LengthLimit
    PROVE  HeaderAt(s \o (BlockImage(b) \o u), Len(s)) = b
<1> DEFINE m == BlockImage(b)
           f == s \o (m \o u)
<1>1. m \in Seq(Cells) /\ Len(m) = Size(b)
  BY ImageTyped
<1>2. m[1] = b
  BY ImageTyped, WholeHeader
<1>3. Len(m) >= 1
  BY <1>1 DEF Size, HeaderLength, Block
<1> HIDE DEF m
<1>4. /\ m \o u \in Seq(Cells) /\ Len(m \o u) = Len(m) + Len(u) /\ Len(m) \in Nat /\ Len(u) \in Nat
      /\ \A i \in 1..Len(m) : (m \o u)[i] = m[i]
  BY <1>1, Joined
<1>5. (m \o u)[1] = b
  BY <1>2, <1>3, <1>4
<1> DEFINE t == m \o u
<1>6. t \in Seq(Cells) /\ Len(t) >= 1 /\ t[1] = b /\ Len(t) \in Nat
  BY <1>3, <1>4, <1>5
<1> HIDE DEF t
<1>7. /\ s \o t \in Seq(Cells) /\ Len(s \o t) = Len(s) + Len(t) /\ Len(s) \in Nat
      /\ \A i \in 1..Len(t) : (s \o t)[Len(s) + i] = t[i]
  BY <1>6, Joined
<1>8. Len(s) < Len(s \o t) /\ (s \o t)[Len(s) + 1] = b
  BY <1>6, <1>7
<1>9. b.type \in Types
  BY DEF Block
<1>10. HeaderAt(s \o t, Len(s)) = b
  BY <1>8, <1>9 DEF HeaderAt
<1> QED
  BY <1>10 DEF t, m

LEMMA NoHeader ==
    ASSUME NEW s \in Seq(Cells)
    PROVE  HeaderAt(s \o Audio, Len(s)) = Broken
<1> DEFINE t == Audio
<1>1. t \in Seq(Range(Audio)) /\ \A x \in Range(Audio) : x.type \notin Types
  BY FileAssumption
<1>2. t \in Seq(Cells)
  <2>1. <<>> \in Seq(Block)
    OBVIOUS
  <2> QED
    BY <2>1, Around
<1> HIDE DEF t
<1>3. /\ s \o t \in Seq(Cells) /\ Len(s \o t) = Len(s) + Len(t) /\ Len(s) \in Nat /\ Len(t) \in Nat
      /\ \A i \in 1..Len(t) : (s \o t)[Len(s) + i] = t[i]
  BY <1>2, Joined
<1>4. CASE Len(s) < Len(s \o t)
  <2>1. 1 \in 1..Len(t)
    BY <1>3, <1>4
  <2>2. (s \o t)[Len(s) + 1] = t[1] /\ t[1] \in Range(Audio)
    BY <1>1, <1>3, <2>1
  <2>3. (s \o t)[Len(s) + 1].type \notin Types
    BY <1>1, <2>2
  <2>4. HeaderAt(s \o t, Len(s)) = Broken
    BY <2>3 DEF HeaderAt
  <2> QED
    BY <2>4 DEF t
<1>5. CASE ~(Len(s) < Len(s \o t))
  <2>1. HeaderAt(s \o t, Len(s)) = Broken
    BY <1>5 DEF HeaderAt
  <2> QED
    BY <2>1 DEF t
<1> QED
  BY <1>4, <1>5

LEMMA HeaderIsEntry ==
    ASSUME NEW f \in Seq(Cells), NEW o \in Nat
    PROVE  HeaderAt(f, o) \in Entry
<1>1. CASE o < Len(f) /\ f[o + 1].type \in Types
  <2>1. f[o + 1] \in Cells
    BY <1>1
  <2>2. f[o + 1] \in Block
    <3>1. \A x \in Range(Prefix) \cup Range(Audio) : x.type \notin Types
      BY FileAssumption
    <3>2. [type |-> "rest of a header"].type \notin Types
      BY DEF Types
    <3>3. \A x \in [type : {"body"}, id : Ids \cup {"zeros"}] : x.type \notin Types
      BY DEF Types
    <3> QED
      BY <1>1, <2>1, <3>1, <3>2, <3>3 DEF Cells
  <2>3. HeaderAt(f, o) = f[o + 1]
    BY <1>1 DEF HeaderAt
  <2> QED
    BY <2>2, <2>3 DEF Entry
<1>2. CASE ~(o < Len(f) /\ f[o + 1].type \in Types)
  BY <1>2 DEF HeaderAt, Entry
<1> QED
  BY <1>1, <1>2

(* Two sequences that differ in their first member go on alike.            *)
LEMMA FirstDiffers ==
    ASSUME NEW S, NEW x \in Seq(S), NEW y \in Seq(S), NEW z \in Seq(S),
           Len(y) = Len(x), Len(x) >= 1, \A i \in 2..Len(x) : y[i] = x[i]
    PROVE  /\ x \o z \in Seq(S) /\ y \o z \in Seq(S) /\ Len(y \o z) = Len(x \o z)
           /\ Len(x \o z) >= 1 /\ Len(x \o z) \in Nat
           /\ (x \o z)[1] = x[1] /\ (y \o z)[1] = y[1]
           /\ \A i \in 2..Len(x \o z) : (y \o z)[i] = (x \o z)[i]
<1>1. x \o z \in Seq(S) /\ Concatenates(x \o z, x, z)
  BY Joining
<1>2. y \o z \in Seq(S) /\ Concatenates(y \o z, y, z)
  BY Joining
<1> USE DEF Concatenates
<1>3. ASSUME NEW i \in 2..Len(x \o z) PROVE (y \o z)[i] = (x \o z)[i]
  <2>1. CASE i <= Len(x)
    BY <1>1, <1>2, <2>1
  <2>2. CASE i > Len(x)
    <3>1. i - Len(x) \in 1..Len(z) /\ Len(x) + (i - Len(x)) = i
      BY <1>1, <2>2
    <3> QED
      BY <1>1, <1>2, <3>1
  <2> QED
    BY <1>1, <2>1, <2>2
<1> QED
  BY <1>1, <1>2, <1>3

(* The flag of a block is mended in the file.                              *)
LEMMA FlagMended ==
    ASSUME NEW s \in Seq(Cells), NEW b \in Block, NEW u \in Seq(Cells), NEW flag \in BOOLEAN
    PROVE  /\ [b EXCEPT !.last = flag] \in Block
           /\ WithFlag(s \o (BlockImage(b) \o u), Len(s), flag)
                 = s \o (BlockImage([b EXCEPT !.last = flag]) \o u)
<1> DEFINE d == [b EXCEPT !.last = flag]
           m == BlockImage(b)
           r == BlockImage(d)
           k == Len(s)
<1>1. d \in Block /\ d.length = b.length /\ d.id = b.id
  BY DEF Block
<1>2. m \in Seq(Cells) /\ Len(m) = Size(b)
  BY ImageTyped
<1>3. r \in Seq(Cells) /\ Len(r) = Size(d)
  <2> HIDE DEF d
  <2> QED
    BY <1>1, ImageTyped
<1>4. Len(r) = Len(m) /\ Len(m) >= 1 /\ Len(m) \in Nat
  BY <1>1, <1>2, <1>3 DEF Size, HeaderLength, Block
<1>5. r[1] = [m[1] EXCEPT !.last = flag]
  <2>1. m[1] = [b EXCEPT !.length = @ % LengthLimit]
    BY ImageTyped
  <2>2. r[1] = [d EXCEPT !.length = @ % LengthLimit]
    <3> HIDE DEF d
    <3> QED
      BY <1>1, ImageTyped
  <2> HIDE DEF m, r
  <2> QED
    BY <2>1, <2>2 DEF Block
<1>6. \A i \in 2..Len(m) : r[i] = m[i]
  <2>1. HeaderImage(b) \in Seq(Cells) /\ BodyImage(b) \in Seq(Cells) /\ Len(HeaderImage(b)) = 4
    BY ImageTyped DEF HeaderLength
  <2>2. HeaderImage(d) \in Seq(Cells) /\ Len(HeaderImage(d)) = 4
    <3> HIDE DEF d
    <3> QED
      BY <1>1, ImageTyped DEF HeaderLength
  <2>3. BodyImage(d) = BodyImage(b)
    BY <1>1 DEF BodyImage
  <2>4. \A i \in 2..4 : HeaderImage(d)[i] = HeaderImage(b)[i]
    <3>1. ASSUME NEW c, NEW i \in 2..4 PROVE HeaderImage(c)[i] = [type |-> "rest of a header"]
      <4>1. i \in 1..4 /\ i # 1
        OBVIOUS
      <4> QED
        BY <4>1 DEF HeaderImage, HeaderLength
    <3> HIDE DEF d
    <3> QED
      BY <3>1
  <2> DEFINE x == HeaderImage(b)
             y == HeaderImage(d)
             z == BodyImage(b)
  <2>5. m = x \o z /\ r = y \o z
    BY <2>3 DEF BlockImage
  <2>6. /\ x \in Seq(Cells) /\ y \in Seq(Cells) /\ z \in Seq(Cells)
        /\ Len(y) = Len(x) /\ Len(x) >= 1
    BY <2>1, <2>2
  <2>7. \A i \in 2..Len(x) : y[i] = x[i]
    BY <2>1, <2>4
  <2> HIDE DEF x, y, z, m, r, d
  <2>8. \A i \in 2..Len(x \o z) : (y \o z)[i] = (x \o z)[i]
    BY <2>6, <2>7, FirstDiffers, SMTT(30)
  <2> QED
    BY <2>5, <2>8
<1> DEFINE v == m \o u
           w == r \o u
<1> HIDE DEF d, m, r
<1>7. /\ v \in Seq(Cells) /\ w \in Seq(Cells) /\ Len(w) = Len(v)
      /\ Len(v) >= 1 /\ Len(v) \in Nat
      /\ v[1] = m[1] /\ w[1] = r[1]
      /\ \A i \in 2..Len(v) : w[i] = v[i]
  BY <1>2, <1>3, <1>4, <1>6, FirstDiffers, SMTT(30)
<1> HIDE DEF v, w
<1>9. w[1] = [v[1] EXCEPT !.last = flag]
  BY <1>5, <1>7
<1>11. /\ s \o v \in Seq(Cells) /\ Concatenates(s \o v, s, v)
       /\ s \o w \in Seq(Cells) /\ Concatenates(s \o w, s, w)
  BY <1>7, Joining
<1>12. /\ Len(s \o v) = k + Len(v) /\ Len(s \o w) = k + Len(v) /\ k \in Nat
       /\ \A i \in 1..k : (s \o v)[i] = s[i] /\ (s \o w)[i] = s[i]
       /\ \A i \in 1..Len(v) : (s \o v)[k + i] = v[i] /\ (s \o w)[k + i] = w[i]
  BY <1>7, <1>11 DEF Concatenates
<1> DEFINE e == s \o v
           h == s \o w
           n == k + Len(v)
           mended == [e EXCEPT ![k + 1] = [e[k + 1] EXCEPT !.last = flag]]
<1>13. WithFlag(e, k, flag) = mended
  BY DEF WithFlag
<1>14. h[k + 1] = [e[k + 1] EXCEPT !.last = flag]
  <2>1. 1 \in 1..Len(v)
    BY <1>7
  <2>2. e[k + 1] = v[1] /\ h[k + 1] = w[1]
    BY <1>11, <1>12, <2>1
  <2> QED
    BY <1>9, <2>2
<1>15. ASSUME NEW i \in 1..n, i # k + 1 PROVE h[i] = e[i]
  <2>1. CASE i <= k
    BY <1>11, <1>12, <2>1
  <2>2. CASE i > k
    <3>1. i - k \in 2..Len(v) /\ i - k \in 1..Len(v) /\ k + (i - k) = i
      BY <1>7, <1>11, <1>15, <2>2
    <3> QED
      BY <1>7, <1>11, <1>12, <3>1
  <2> QED
    BY <1>7, <1>11, <2>1, <2>2
<1>16. e \in Seq(Cells) /\ h \in Seq(Cells) /\ Len(e) = n /\ Len(h) = n /\ n \in Nat /\ k + 1 \in 1..n
  BY <1>7, <1>11, <1>12
<1> HIDE DEF e, h, n
<1>17. h = mended
  <2> DEFINE x == [e[k + 1] EXCEPT !.last = flag]
  <2>1. h[k + 1] = x /\ mended = [e EXCEPT ![k + 1] = x]
    BY <1>14
  <2> HIDE DEF x
  <2>2. DOMAIN e = 1..n /\ DOMAIN h = 1..n /\ h = [i \in 1..n |-> h[i]]
    BY <1>16
  <2>3. [e EXCEPT ![k + 1] = x] = [i \in 1..n |-> IF i = k + 1 THEN x ELSE e[i]]
    BY <2>2
  <2>4. \A i \in 1..n : h[i] = IF i = k + 1 THEN x ELSE e[i]
    BY <1>15, <2>1
  <2> QED
    BY <2>1, <2>2, <2>3, <2>4
<1> QED
  BY <1>1, <1>13, <1>17 DEF d, e, h, v, w, m, r

-----------------------------------------------------------------------------
(* Functions of an offset that look at offsets further on.                 *)
Continues(h, o, stop, next, base, step) ==
    h[o] = IF o \in stop THEN base[o] ELSE step[o][h[next[o]]]

LEMMA Onwards ==
    ASSUME NEW n \in Nat, NEW X, NEW stop, NEW next, NEW base, NEW step,
           \A o \in 0..n : o \in stop => base[o] \in X,
           \A o \in 0..n : o \notin stop => next[o] \in (o + 1)..n,
           \A o \in 0..n : o \notin stop => step[o] \in [X -> X]
    PROVE  \E h : h \in [0..n -> X] /\ \A o \in 0..n : Continues(h, o, stop, next, base, step)
<1> DEFINE Good(k, h) ==
             /\ h \in [(n - k)..n -> X]
             /\ \A o \in (n - k)..n : Continues(h, o, stop, next, base, step)
           missing == {k \in 0..n : ~ \E h : Good(k, h)}
<1>1. ASSUME missing # {} PROVE FALSE
  <2>1. PICK k \in missing : \A j \in missing : k <= j
    <3>1. missing \subseteq Nat
      OBVIOUS
    <3> HIDE DEF missing
    <3> QED
      BY <1>1, <3>1, LeastNumber
  <2>2. k \in 0..n /\ ~ \E h : Good(k, h)
    OBVIOUS
  <2> DEFINE p == n - k
  <2>3. p \in 0..n /\ (k # 0 => k - 1 \in 0..n /\ n - (k - 1) = p + 1)
    BY <2>2
  <2>4. \E g : /\ g \in [(p + 1)..n -> X]
               /\ \A o \in (p + 1)..n : Continues(g, o, stop, next, base, step)
    <3>1. CASE k = 0
      <4>1. (p + 1)..n = {}
        BY <3>1
      <4>2. [o \in {} |-> o] \in [{} -> X]
        OBVIOUS
      <4> QED
        BY <4>1, <4>2
    <3>2. CASE k # 0
      <4>1. k - 1 \notin missing
        <5>1. k \in Nat /\ ~(k <= k - 1)
          BY <2>2
        <5> HIDE DEF missing
        <5> QED
          BY <2>1, <5>1
      <4>2. PICK g : Good(k - 1, g)
        BY <2>3, <3>2, <4>1
      <4>3. g \in [(n - (k - 1))..n -> X]
            /\ \A o \in (n - (k - 1))..n : Continues(g, o, stop, next, base, step)
        BY <4>2
      <4> HIDE DEF p
      <4> QED
        BY <2>3, <3>2, <4>3
    <3> QED
      BY <3>1, <3>2
  <2>5. PICK g : /\ g \in [(p + 1)..n -> X]
                 /\ \A o \in (p + 1)..n : Continues(g, o, stop, next, base, step)
    BY <2>4
  <2> DEFINE value == IF p \in stop THEN base[p] ELSE step[p][g[next[p]]]
             h == [o \in p..n |-> IF o = p THEN value ELSE g[o]]
  <2>6. value \in X
    <3>1. CASE p \in stop
      BY <2>3, <3>1
    <3>2. CASE p \notin stop
      <4>1. next[p] \in (p + 1)..n /\ step[p] \in [X -> X]
        BY <2>3, <3>2
      <4>2. g[next[p]] \in X
        BY <2>5, <4>1
      <4> QED
        BY <3>2, <4>1, <4>2
    <3> QED
      BY <3>1, <3>2
  <2>7. h \in [p..n -> X]
    <3>1. \A o \in p..n : o # p => o \in (p + 1)..n
      BY <2>3
    <3> HIDE DEF value, p
    <3> QED
      BY <2>5, <2>6, <3>1
  <2>8. ASSUME NEW o \in p..n PROVE Continues(h, o, stop, next, base, step)
    <3>1. CASE o \in stop
      <4>1. CASE o = p
        BY <3>1, <4>1 DEF Continues
      <4>2. CASE o # p
        <5>1. o \in (p + 1)..n
          BY <2>3, <4>2
        <5>2. h[o] = g[o]
          BY <4>2
        <5> HIDE DEF h
        <5> QED
          BY <2>5, <3>1, <5>1, <5>2 DEF Continues
      <4> QED
        BY <4>1, <4>2
    <3>2. CASE o \notin stop
      <4>1. o \in 0..n
        BY <2>3
      <4>2. next[o] \in (o + 1)..n
        BY <3>2, <4>1
      <4>3. next[o] \in p..n /\ next[o] # p
        BY <2>3, <4>2
      <4>4. h[next[o]] = g[next[o]]
        BY <4>3
      <4>5. CASE o = p
        <5>1. h[o] = value
          BY <4>5
        <5>2. value = step[o][g[next[o]]]
          BY <3>2, <4>5
        <5> HIDE DEF h, value
        <5> QED
          BY <3>2, <4>4, <5>1, <5>2 DEF Continues
      <4>6. CASE o # p
        <5>1. o \in (p + 1)..n
          BY <2>3, <4>6
        <5>2. h[o] = g[o]
          BY <4>6
        <5> HIDE DEF h
        <5> QED
          BY <2>5, <3>2, <4>4, <5>1, <5>2 DEF Continues
      <4> QED
        BY <4>5, <4>6
    <3> QED
      BY <3>1, <3>2
  <2>9. Good(k, h)
    <3> HIDE DEF h
    <3> QED
      BY <2>7, <2>8
  <2> QED
    BY <2>2, <2>9
<1>2. 0 \in 0..n /\ n \in 0..n /\ n - n = 0
  OBVIOUS
<1>3. PICK h : Good(n, h)
  BY <1>1, <1>2
<1>4. h \in [(n - n)..n -> X] /\ \A o \in (n - n)..n : Continues(h, o, stop, next, base, step)
  BY <1>3
<1> QED
  BY <1>2, <1>4

(* Blocks, unfolded.                                                       *)
BlocksFrom(g, f) ==
    /\ \A o \in 0..Len(f) :
          LET b == HeaderAt(f, o)
          IN  g[o] = IF b.last \/ o + Size(b) > Len(f) THEN <<b>>
                     ELSE <<b>> \o g[o + Size(b)]
    /\ Blocks(f) = g[FirstOffset]

LEMMA BlocksUnfold ==
    ASSUME NEW f \in Seq(Cells)
    PROVE  \E g : BlocksFrom(g, f)
<1> DEFINE n == Len(f)
           X == Seq(Entry)
           Whole(o) == HeaderAt(f, o).last \/ o + Size(HeaderAt(f, o)) > n
           stop == {o \in 0..n : Whole(o)}
           next == [o \in 0..n |-> o + Size(HeaderAt(f, o))]
           base == [o \in 0..n |-> <<HeaderAt(f, o)>>]
           step == [o \in 0..n |-> [x \in X |-> <<HeaderAt(f, o)>> \o x]]
           Body(g) == [o \in 0..n |->
                         LET b == HeaderAt(f, o)
                         IN  IF b.last \/ o + Size(b) > n THEN <<b>>
                             ELSE <<b>> \o g[o + Size(b)]]
           f0 == CHOOSE g : g = Body(g)
<1>1. n \in Nat
  OBVIOUS
<1>2. \A o \in 0..n : /\ HeaderAt(f, o) \in Entry
                      /\ Size(HeaderAt(f, o)) \in Nat /\ Size(HeaderAt(f, o)) >= 1
  <2>1. ASSUME NEW o \in 0..n PROVE HeaderAt(f, o) \in Entry
    BY HeaderIsEntry
  <2>2. ASSUME NEW b \in Entry PROVE Size(b) \in Nat /\ Size(b) >= 1
    BY DEF Entry, Block, Broken, Size, HeaderLength
  <2> QED
    BY <2>1, <2>2
<1>3. \E h : h \in [0..n -> X] /\ \A o \in 0..n : Continues(h, o, stop, next, base, step)
  <2>1. ASSUME NEW o \in 0..n PROVE base[o] \in X
    <3>1. HeaderAt(f, o) \in Entry
      BY <1>2
    <3>2. <<HeaderAt(f, o)>> \in X
      BY <3>1, OneIs
    <3> HIDE DEF X
    <3> QED
      BY <3>2
  <2>2. ASSUME NEW o \in 0..n, o \notin stop PROVE next[o] \in (o + 1)..n
    <3>1. ~(o + Size(HeaderAt(f, o)) > n)
      BY <2>2
    <3>2. Size(HeaderAt(f, o)) \in Nat /\ Size(HeaderAt(f, o)) >= 1
      BY <1>2
    <3>3. next[o] = o + Size(HeaderAt(f, o))
      OBVIOUS
    <3> HIDE DEF next, stop, n
    <3> QED
      BY <1>1, <3>1, <3>2, <3>3
  <2>3. ASSUME NEW o \in 0..n PROVE step[o] \in [X -> X]
    <3>1. HeaderAt(f, o) \in Entry
      BY <1>2
    <3>2. <<HeaderAt(f, o)>> \in X
      BY <3>1, OneIs
    <3>3. \A x \in X : <<HeaderAt(f, o)>> \o x \in X
      BY <3>2, ConcatProperties
    <3> HIDE DEF X
    <3> QED
      BY <3>3
  <2> HIDE DEF stop, next, base, step, n, X
  <2> QED
    BY <1>1, <2>1, <2>2, <2>3, Onwards
<1>4. PICK h : h \in [0..n -> X] /\ \A o \in 0..n : Continues(h, o, stop, next, base, step)
  BY <1>3
<1>5. ASSUME NEW o \in 0..n
      PROVE  h[o] = IF Whole(o) THEN <<HeaderAt(f, o)>>
                    ELSE <<HeaderAt(f, o)>> \o h[o + Size(HeaderAt(f, o))]
  <2>1. h[o] = IF o \in stop THEN base[o] ELSE step[o][h[next[o]]]
    BY <1>4 DEF Continues
  <2>2. base[o] = <<HeaderAt(f, o)>> /\ next[o] = o + Size(HeaderAt(f, o))
    OBVIOUS
  <2>3. o \in stop <=> Whole(o)
    OBVIOUS
  <2>4. ASSUME ~Whole(o)
        PROVE  step[o][h[next[o]]] = <<HeaderAt(f, o)>> \o h[o + Size(HeaderAt(f, o))]
    <3>1. o + Size(HeaderAt(f, o)) \in 0..n
      BY <1>1, <1>2, <2>4
    <3>2. h[next[o]] \in X
      BY <1>4, <2>2, <3>1
    <3>3. step[o] = [x \in X |-> <<HeaderAt(f, o)>> \o x]
      OBVIOUS
    <3> HIDE DEF X, step, next
    <3> QED
      BY <2>2, <3>2, <3>3
  <2> HIDE DEF Whole, stop, base, step, next
  <2> QED
    BY <2>1, <2>2, <2>3, <2>4
<1>6. h = Body(h)
  <2>1. ASSUME NEW o \in 0..n PROVE h[o] = Body(h)[o]
    BY <1>5
  <2>2. DOMAIN h = 0..n /\ h = [o \in 0..n |-> h[o]]
    BY <1>4
  <2>3. DOMAIN Body(h) = 0..n /\ Body(h) = [o \in 0..n |-> Body(h)[o]]
    OBVIOUS
  <2> HIDE DEF Body
  <2> QED
    BY <2>1, <2>2, <2>3
<1>7. f0 = Body(f0)
  <2> HIDE DEF Body
  <2> QED
    BY <1>6
<1>8. Blocks(f) = f0[FirstOffset]
  BY DEF Blocks
<1> HIDE DEF f0
<1>9. \A o \in 0..n : f0[o] = Body(f0)[o]
  BY <1>7
<1>10. BlocksFrom(f0, f)
  BY <1>8, <1>9 DEF BlocksFrom
<1> QED
  BY <1>10

(* PrevOffset, unfolded.                                                   *)
WalkTo(w, offset, f) ==
    /\ \A o \in 0..offset :
          w[o] = IF NextOffset(o, f) < offset THEN w[NextOffset(o, f)] ELSE o
    /\ PrevOffset(offset, f) = w[FirstOffset]

LEMMA WalkUnfold ==
    ASSUME NEW f \in Seq(Cells), NEW offset \in Nat
    PROVE  \E w : WalkTo(w, offset, f)
<1> DEFINE n == offset
           X == 0..n
           stop == {o \in 0..n : ~(NextOffset(o, f) < offset)}
           next == [o \in 0..n |-> NextOffset(o, f)]
           base == [o \in 0..n |-> o]
           step == [o \in 0..n |-> [x \in X |-> x]]
           Body(g) == [o \in 0..offset |->
                         IF NextOffset(o, f) < offset THEN g[NextOffset(o, f)] ELSE o]
           f0 == CHOOSE g : g = Body(g)
<1>1. \A o \in 0..n : NextOffset(o, f) \in Nat /\ NextOffset(o, f) > o
  <2>1. ASSUME NEW b \in Entry PROVE Size(b) \in Nat /\ Size(b) >= 1
    BY DEF Entry, Block, Broken, Size, HeaderLength
  <2>2. ASSUME NEW o \in 0..n PROVE NextOffset(o, f) \in Nat /\ NextOffset(o, f) > o
    <3>1. HeaderAt(f, o) \in Entry
      BY HeaderIsEntry
    <3>2. Size(HeaderAt(f, o)) \in Nat /\ Size(HeaderAt(f, o)) >= 1
      BY <2>1, <3>1
    <3> QED
      BY <3>2 DEF NextOffset
  <2> QED
    BY <2>2
<1>2. \E h : h \in [0..n -> X] /\ \A o \in 0..n : Continues(h, o, stop, next, base, step)
  <2>1. \A o \in 0..n : o \in stop => base[o] \in X
    OBVIOUS
  <2>2. \A o \in 0..n : o \notin stop => next[o] \in (o + 1)..n
    BY <1>1
  <2>3. \A o \in 0..n : o \notin stop => step[o] \in [X -> X]
    OBVIOUS
  <2> HIDE DEF stop, next, base, step, X
  <2> QED
    BY <2>1, <2>2, <2>3, Onwards
<1>3. PICK h : h \in [0..n -> X] /\ \A o \in 0..n : Continues(h, o, stop, next, base, step)
  BY <1>2
<1>4. ASSUME NEW o \in 0..n
      PROVE  h[o] = IF NextOffset(o, f) < offset THEN h[NextOffset(o, f)] ELSE o
  <2>1. h[o] = IF o \in stop THEN base[o] ELSE step[o][h[next[o]]]
    BY <1>3 DEF Continues
  <2>2. base[o] = o /\ next[o] = NextOffset(o, f) /\ (o \in stop <=> ~(NextOffset(o, f) < offset))
    OBVIOUS
  <2>3. ASSUME NextOffset(o, f) < offset PROVE step[o][h[next[o]]] = h[NextOffset(o, f)]
    <3>1. NextOffset(o, f) \in 0..n
      BY <1>1, <2>3
    <3>2. h[next[o]] \in X /\ h[next[o]] = h[NextOffset(o, f)]
      BY <1>3, <2>2, <3>1
    <3>3. step[o] = [x \in X |-> x]
      OBVIOUS
    <3> HIDE DEF X, step, next
    <3> QED
      BY <3>2, <3>3
  <2> HIDE DEF stop, base, step, next
  <2> QED
    BY <2>1, <2>2, <2>3
<1>5. h = Body(h)
  <2>1. ASSUME NEW o \in 0..n PROVE h[o] = Body(h)[o]
    BY <1>4
  <2>2. DOMAIN h = 0..n /\ h = [o \in 0..n |-> h[o]]
    BY <1>3
  <2>3. DOMAIN Body(h) = 0..n /\ Body(h) = [o \in 0..n |-> Body(h)[o]]
    OBVIOUS
  <2> HIDE DEF Body
  <2> QED
    BY <2>1, <2>2, <2>3
<1>6. f0 = Body(f0)
  <2> HIDE DEF Body
  <2> QED
    BY <1>5
<1>7. PrevOffset(offset, f) = f0[FirstOffset]
  BY DEF PrevOffset
<1> HIDE DEF f0
<1>8. \A o \in 0..n : f0[o] = Body(f0)[o]
  BY <1>6
<1>9. WalkTo(f0, offset, f)
  BY <1>7, <1>8 DEF WalkTo
<1> QED
  BY <1>9

-----------------------------------------------------------------------------
(* The list of blocks is read off its file again.                          *)
LEMMA AtBlock ==
    ASSUME NEW bs \in Seq(Block), NEW i \in 1..Len(bs), Short(bs)
    PROVE  LET f == FileOf(bs)
               o == Ends(SubSeq(bs, 1, i - 1))
           IN  /\ o \in Nat /\ FirstOffset <= o /\ o < Len(f)
               /\ HeaderAt(f, o) = bs[i] /\ Size(bs[i]) \in Nat /\ Size(bs[i]) >= 1
               /\ Ends(SubSeq(bs, 1, i)) = o + Size(bs[i])
               /\ o + Size(bs[i]) <= Len(f)
<1> DEFINE A == SubSeq(bs, 1, i - 1)
           b == bs[i]
           M == <<b>>
           C == SubSeq(bs, i + 1, Len(bs))
           f == FileOf(bs)
           o == Ends(A)
<1>1. /\ A \in Seq(Block) /\ C \in Seq(Block) /\ b \in Block /\ M \in Seq(Block)
      /\ SubSeq(bs, 1, i) = A \o M /\ bs = (A \o M) \o C
  BY TakenApart, OneIs
<1>2. b.length < LengthLimit
  BY DEF Short
<1>3. Size(b) \in Nat /\ Size(b) >= 1
  <2> HIDE DEF b
  <2>1. b \in Block
    BY <1>1
  <2> QED
    BY <2>1 DEF Size, HeaderLength, Block
<1>4. TotalSize(M) = Size(b) /\ Image(M) = BlockImage(b)
  <2> HIDE DEF b
  <2> QED
    BY <1>1, SizesOne, ImagesOne DEF Entry
<1> HIDE DEF A, b, M, C
<1>5. f = Before(A) \o (BlockImage(b) \o After(C)) /\ Ends(A \o M) = o + Size(b)
  <2>1. /\ FileOf((A \o M) \o C) = Before(A) \o (Image(M) \o After(C))
        /\ Ends(A \o M) = Ends(A) + TotalSize(M)
    BY <1>1, FileParts
  <2> QED
    BY <1>1, <1>4, <2>1
<1>6. /\ Before(A) \in Seq(Cells) /\ Len(Before(A)) = o /\ o \in Nat
      /\ After(C) \in Seq(Cells) /\ FirstOffset \in Nat /\ TotalSize(A) \in Nat
  BY <1>1, Around
<1>7. BlockImage(b) \in Seq(Cells) /\ Len(BlockImage(b)) = Size(b)
  BY <1>1, ImageTyped
<1>8. Len(f) = o + Size(b) + Len(After(C)) /\ Len(After(C)) \in Nat
  <2> DEFINE s == Before(A)
             t == BlockImage(b)
             u == After(C)
  <2>1. s \in Seq(Cells) /\ t \in Seq(Cells) /\ u \in Seq(Cells)
    BY <1>6, <1>7
  <2> HIDE DEF s, t, u
  <2>2. Len(s \o (t \o u)) = Len(s) + Len(t) + Len(u) /\ Len(u) \in Nat
    BY <2>1, Cuts
  <2> QED
    BY <1>5, <1>6, <1>7, <2>2 DEF s, t, u
<1>9. HeaderAt(f, o) = b
  <2>1. HeaderAt(Before(A) \o (BlockImage(b) \o After(C)), Len(Before(A))) = b
    BY <1>1, <1>2, <1>6, HeaderRead
  <2> QED
    BY <1>5, <1>6, <2>1
<1>10. FirstOffset <= o
  BY <1>6 DEF Ends
<1>11. Ends(SubSeq(bs, 1, i)) = o + Size(b)
  BY <1>1, <1>5
<1> HIDE DEF f, o
<1>12. o < Len(f) /\ o + Size(b) <= Len(f)
  BY <1>3, <1>6, <1>8
<1> QED
  BY <1>3, <1>6, <1>9, <1>10, <1>11, <1>12 DEF f, o, A, b

(* Counting down: what holds of n and, with i + 1, of i holds of them all. *)
LEMMA CountDown ==
    ASSUME NEW n \in Nat, NEW m \in 0..n, NEW T,
           n \in T, \A i \in m..(n - 1) : i + 1 \in T => i \in T
    PROVE  \A i \in m..n : i \in T
<1> DEFINE missing == {k \in 0..(n - m) : n - k \notin T}
<1>1. ASSUME missing # {} PROVE FALSE
  <2>1. PICK k \in missing : \A j \in missing : k <= j
    <3>1. missing \subseteq Nat
      OBVIOUS
    <3> HIDE DEF missing
    <3> QED
      BY <1>1, <3>1, LeastNumber
  <2>2. k \in 0..(n - m) /\ n - k \notin T
    BY <2>1
  <2>3. k # 0
    BY <2>2
  <2>4. k - 1 \in 0..(n - m) /\ ~(k <= k - 1) /\ n - (k - 1) = (n - k) + 1 /\ n - k \in m..(n - 1)
    BY <2>2, <2>3
  <2>5. n - (k - 1) \in T
    BY <2>1, <2>4
  <2> QED
    BY <2>2, <2>4, <2>5
<1>2. ASSUME NEW i \in m..n PROVE i \in T
  <2>1. n - i \in 0..(n - m) /\ n - (n - i) = i
    OBVIOUS
  <2>2. n - i \notin missing
    BY <1>1
  <2> QED
    BY <2>1, <2>2
<1> QED
  BY <1>2

(* Only the last block, if any, is flagged as the last.                    *)
LEMMA ReadBack ==
    ASSUME NEW bs \in Seq(Block), bs # <<>>, Short(bs),
           \A j \in 1..Len(bs) : bs[j].last <=> j = Len(bs)
    PROVE  Blocks(FileOf(bs)) = bs
<1> DEFINE f == FileOf(bs)
           n == Len(bs)
           O(i) == Ends(SubSeq(bs, 1, i - 1))
<1>1. n \in Nat /\ n \in 1..n /\ 1 \in 1..n
  OBVIOUS
<1>2. f \in Seq(Cells)
  <2>1. <<>> \in Seq(Block) /\ (<<>> \o bs) \o <<>> = bs
    BY ConcatEmptySeq
  <2>2. /\ Before(<<>>) \in Seq(Cells) /\ Image(bs) \in Seq(Cells) /\ After(<<>>) \in Seq(Cells)
    BY <2>1, Around, ImageLength
  <2>3. f = Before(<<>>) \o (Image(bs) \o After(<<>>))
    BY <2>1, FileParts
  <2> QED
    BY <2>2, <2>3, Cuts
<1>3. PICK g : BlocksFrom(g, f)
  <2> HIDE DEF f
  <2> QED
    BY <1>2, BlocksUnfold
<1>4. /\ \A o \in 0..Len(f) :
            LET b == HeaderAt(f, o)
            IN  g[o] = IF b.last \/ o + Size(b) > Len(f) THEN <<b>>
                       ELSE <<b>> \o g[o + Size(b)]
      /\ Blocks(f) = g[FirstOffset]
  BY <1>3 DEF BlocksFrom
<1>5. ASSUME NEW i \in 1..n
      PROVE  /\ O(i) \in 0..Len(f) /\ HeaderAt(f, O(i)) = bs[i]
             /\ Ends(SubSeq(bs, 1, i)) = O(i) + Size(bs[i])
             /\ ~(O(i) + Size(bs[i]) > Len(f))
  <2>1. /\ O(i) \in Nat /\ O(i) < Len(f) /\ HeaderAt(f, O(i)) = bs[i] /\ Size(bs[i]) \in Nat
        /\ Ends(SubSeq(bs, 1, i)) = O(i) + Size(bs[i])
        /\ O(i) + Size(bs[i]) <= Len(f)
    BY AtBlock
  <2>2. Len(f) \in Nat
    BY <1>2
  <2> HIDE DEF f, O
  <2> QED
    BY <2>1, <2>2
<1> DEFINE T == {i \in 1..n : g[O(i)] = SubSeq(bs, i, n)}
<1>6. ASSUME NEW i \in 1..n
      PROVE  SubSeq(bs, i, n) = <<bs[i]>> \o SubSeq(bs, i + 1, n)
  BY TakenApart
<1>7. n \in T
  <2>1. g[O(n)] = <<bs[n]>>
    <3> HIDE DEF f, O
    <3> QED
      BY <1>1, <1>4, <1>5
  <2>2. SubSeq(bs, n + 1, n) = <<>>
    OBVIOUS
  <2>3. bs[n] \in Block
    OBVIOUS
  <2>4. <<bs[n]>> \o <<>> = <<bs[n]>>
    OBVIOUS
  <2>5. SubSeq(bs, n, n) = <<bs[n]>>
    BY <1>1, <1>6, <2>2, <2>4
  <2> QED
    BY <1>1, <2>1, <2>5
<1>8. ASSUME NEW i \in 1..(n - 1), i + 1 \in T PROVE i \in T
  <2>1. i \in 1..n /\ ~bs[i].last /\ (i + 1) - 1 = i
    BY <1>1
  <2>2. g[O(i)] = <<bs[i]>> \o g[O(i) + Size(bs[i])]
    <3> HIDE DEF f, O
    <3> QED
      BY <1>4, <1>5, <2>1
  <2>3. O(i) + Size(bs[i]) = O(i + 1)
    <3>1. Ends(SubSeq(bs, 1, i)) = O(i) + Size(bs[i])
      BY <1>5, <2>1
    <3>2. O(i + 1) = Ends(SubSeq(bs, 1, i))
      BY <2>1
    <3> QED
      BY <3>1, <3>2
  <2>4. g[O(i + 1)] = SubSeq(bs, i + 1, n)
    BY <1>8
  <2>5. g[O(i)] = SubSeq(bs, i, n)
    <3> HIDE DEF O, n
    <3> QED
      BY <1>6, <2>1, <2>2, <2>3, <2>4
  <2> QED
    BY <2>1, <2>5
<1>9. 1 \in T
  <2> HIDE DEF T, n
  <2>1. 1 \in 0..n
    BY <1>1
  <2>2. \A i \in 1..n : i \in T
    BY <1>1, <1>7, <1>8, <2>1, CountDown
  <2> QED
    BY <1>1, <2>2
<1>10. g[O(1)] = SubSeq(bs, 1, n)
  BY <1>9
<1>11. SubSeq(bs, 1, n) = bs
  BY <1>1
<1>12. O(1) = FirstOffset
  <2>1. SubSeq(bs, 1, 1 - 1) = <<>>
    OBVIOUS
  <2>2. <<>> \in Seq(Block)
    OBVIOUS
  <2>3. TotalSize(<<>>) = 0
    BY SizesNone
  <2>4. FirstOffset \in Nat
    BY <2>2, Around
  <2>5. Ends(<<>>) = FirstOffset
    BY <2>3, <2>4 DEF Ends
  <2> QED
    BY <2>1, <2>5
<1> QED
  BY <1>4, <1>10, <1>11, <1>12

(* A list without a last block: what follows it is no block.               *)
LEMMA ReadOff ==
    ASSUME NEW bs \in Seq(Block), Short(bs), \A j \in 1..Len(bs) : ~bs[j].last
    PROVE  Blocks(FileOf(bs)) = bs \o <<Broken>>
<1> DEFINE f == FileOf(bs)
           n == Len(bs)
           O(i) == Ends(SubSeq(bs, 1, i - 1))
<1>1. n \in Nat /\ n + 1 \in 1..(n + 1) /\ 1 \in 1..(n + 1) /\ (n + 1) - 1 = n
  OBVIOUS
<1>2. f = Before(bs) \o Audio
  BY DEF FileOf, Before
<1>3. /\ Before(bs) \in Seq(Cells) /\ Audio \in Seq(Cells) /\ Len(Before(bs)) = Ends(bs)
      /\ Ends(bs) \in Nat
  BY Around
<1>4. f \in Seq(Cells) /\ Len(f) = Ends(bs) + Len(Audio) /\ Len(Audio) \in Nat
  <2> DEFINE s == Before(bs)
  <2> HIDE DEF s
  <2>1. s \in Seq(Cells) /\ Audio \in Seq(Cells) /\ f = s \o Audio /\ Len(s) = Ends(bs)
    BY <1>2, <1>3 DEF s
  <2> HIDE DEF f
  <2> QED
    BY <2>1, Joined
<1>5. HeaderAt(f, Ends(bs)) = Broken
  <2> HIDE DEF f
  <2> QED
    BY <1>2, <1>3, NoHeader
<1>6. PICK g : BlocksFrom(g, f)
  <2> HIDE DEF f
  <2> QED
    BY <1>4, BlocksUnfold
<1>7. /\ \A o \in 0..Len(f) :
            LET b == HeaderAt(f, o)
            IN  g[o] = IF b.last \/ o + Size(b) > Len(f) THEN <<b>>
                       ELSE <<b>> \o g[o + Size(b)]
      /\ Blocks(f) = g[FirstOffset]
  BY <1>6 DEF BlocksFrom
<1>8. ASSUME NEW i \in 1..n
      PROVE  /\ O(i) \in 0..Len(f) /\ HeaderAt(f, O(i)) = bs[i]
             /\ Ends(SubSeq(bs, 1, i)) = O(i) + Size(bs[i])
             /\ ~(O(i) + Size(bs[i]) > Len(f))
  <2>1. /\ O(i) \in Nat /\ O(i) < Len(f) /\ HeaderAt(f, O(i)) = bs[i] /\ Size(bs[i]) \in Nat
        /\ Ends(SubSeq(bs, 1, i)) = O(i) + Size(bs[i])
        /\ O(i) + Size(bs[i]) <= Len(f)
    BY AtBlock
  <2>2. Len(f) \in Nat
    BY <1>4
  <2> HIDE DEF f, O
  <2> QED
    BY <2>1, <2>2
<1> DEFINE T == {i \in 1..(n + 1) : g[O(i)] = SubSeq(bs, i, n) \o <<Broken>>}
<1>9. ASSUME NEW i \in 1..n
      PROVE  /\ SubSeq(bs, i, n) = <<bs[i]>> \o SubSeq(bs, i + 1, n)
             /\ SubSeq(bs, i + 1, n) \in Seq(Block) /\ bs[i] \in Block
  BY TakenApart
<1>10. SubSeq(bs, 1, n) = bs
  OBVIOUS
<1>11. n + 1 \in T
  <2>1. O(n + 1) = Ends(bs)
    <3>1. O(n + 1) = Ends(SubSeq(bs, 1, n))
      BY <1>1
    <3> QED
      BY <1>10, <3>1
  <2>2. Ends(bs) \in 0..Len(f)
    BY <1>3, <1>4
  <2>3. g[Ends(bs)] = <<Broken>>
    <3>1. Broken.last
      BY DEF Broken
    <3> HIDE DEF f
    <3> QED
      BY <1>5, <1>7, <2>2, <3>1
  <2>4. SubSeq(bs, n + 1, n) = <<>>
    OBVIOUS
  <2>5. <<>> \o <<Broken>> = <<Broken>>
    OBVIOUS
  <2>6. g[O(n + 1)] = SubSeq(bs, n + 1, n) \o <<Broken>>
    BY <2>1, <2>3, <2>4, <2>5
  <2> QED
    BY <1>1, <2>6
<1>12. ASSUME NEW i \in 1..n, i + 1 \in T PROVE i \in T
  <2>1. i \in 1..n /\ ~bs[i].last /\ (i + 1) - 1 = i /\ i \in 1..(n + 1)
    BY <1>1
  <2>2. g[O(i)] = <<bs[i]>> \o g[O(i) + Size(bs[i])]
    <3> HIDE DEF f, O
    <3> QED
      BY <1>7, <1>8, <2>1
  <2>3. O(i) + Size(bs[i]) = O(i + 1)
    <3>1. Ends(SubSeq(bs, 1, i)) = O(i) + Size(bs[i])
      BY <1>8, <2>1
    <3>2. O(i + 1) = Ends(SubSeq(bs, 1, i))
      BY <2>1
    <3> QED
      BY <3>1, <3>2
  <2>4. g[O(i + 1)] = SubSeq(bs, i + 1, n) \o <<Broken>>
    BY <1>12
  <2>5. (<<bs[i]>> \o SubSeq(bs, i + 1, n)) \o <<Broken>>
           = <<bs[i]>> \o (SubSeq(bs, i + 1, n) \o <<Broken>>)
    <3> DEFINE x == <<bs[i]>>
               y == SubSeq(bs, i + 1, n)
               z == <<Broken>>
    <3>1. bs[i] \in Entry /\ Broken \in Entry /\ y \in Seq(Entry)
      BY <1>9, <2>1, BlocksAreEntries DEF Entry
    <3>2. x \in Seq(Entry) /\ z \in Seq(Entry)
      BY <3>1, OneIs
    <3> HIDE DEF x, y, z
    <3>3. (x \o y) \o z = x \o (y \o z)
      BY <3>1, <3>2, ConcatAssociative
    <3> QED
      BY <3>3 DEF x, y, z
  <2>6. g[O(i)] = SubSeq(bs, i, n) \o <<Broken>>
    <3> HIDE DEF O, n
    <3> QED
      BY <1>9, <2>1, <2>2, <2>3, <2>4, <2>5
  <2> QED
    BY <2>1, <2>6
<1>13. 1 \in T
  <2> DEFINE k == n + 1
  <2>1. k \in Nat /\ 1 \in 0..k /\ k \in T /\ k - 1 = n
    BY <1>1, <1>11
  <2> HIDE DEF T, n, k
  <2>2. \A i \in 1..(k - 1) : i + 1 \in T => i \in T
    BY <1>12, <2>1
  <2>3. \A i \in 1..k : i \in T
    BY <2>1, <2>2, CountDown
  <2> QED
    BY <1>1, <2>3 DEF k
<1>14. g[O(1)] = bs \o <<Broken>>
  BY <1>10, <1>13
<1>15. O(1) = FirstOffset
  <2>1. SubSeq(bs, 1, 1 - 1) = <<>>
    OBVIOUS
  <2>2. <<>> \in Seq(Block)
    OBVIOUS
  <2>3. TotalSize(<<>>) = 0
    BY SizesNone
  <2>4. FirstOffset \in Nat
    BY <2>2, Around
  <2>5. Ends(<<>>) = FirstOffset
    BY <2>3, <2>4 DEF Ends
  <2> QED
    BY <2>1, <2>5
<1> QED
  BY <1>7, <1>14, <1>15

(* The block before is found by walking.                                   *)
LEMMA PrevAt ==
    ASSUME NEW bs \in Seq(Block), Short(bs), NEW i \in 2..Len(bs)
    PROVE  PrevOffset(Ends(SubSeq(bs, 1, i - 1)), FileOf(bs)) = Ends(SubSeq(bs, 1, (i - 1) - 1))
<1> DEFINE f == FileOf(bs)
           n == Len(bs)
           O(j) == Ends(SubSeq(bs, 1, j - 1))
           offset == O(i)
<1>1. n \in Nat /\ i \in 1..n /\ i - 1 \in 1..n /\ 1 \in 1..n /\ i - 1 \in 1..(i - 1) /\ 1 \in 1..(i - 1)
  OBVIOUS
<1>2. ASSUME NEW j \in 1..n
      PROVE  /\ O(j) \in Nat /\ HeaderAt(f, O(j)) = bs[j] /\ Size(bs[j]) \in Nat /\ Size(bs[j]) >= 1
             /\ Ends(SubSeq(bs, 1, j)) = O(j) + Size(bs[j])
  BY AtBlock
<1>3. ASSUME NEW j \in 1..(i - 1)
      PROVE  /\ O(j) \in Nat /\ O(j + 1) \in Nat /\ O(j) < O(j + 1)
             /\ NextOffset(O(j), f) = O(j + 1)
  <2>1. j \in 1..n /\ j + 1 \in 1..n /\ (j + 1) - 1 = j
    BY <1>1
  <2>2. O(j + 1) = Ends(SubSeq(bs, 1, j))
    BY <2>1
  <2> HIDE DEF O, f
  <2>3. O(j + 1) = O(j) + Size(bs[j])
    BY <1>2, <2>1, <2>2
  <2> QED
    BY <1>2, <2>1, <2>3 DEF NextOffset
<1>4. f \in Seq(Cells)
  <2>1. f = Before(bs) \o Audio
    BY DEF FileOf, Before
  <2>2. Before(bs) \in Seq(Cells) /\ Audio \in Seq(Cells)
    BY Around
  <2> HIDE DEF f
  <2> QED
    BY <2>1, <2>2, ConcatProperties
<1>5. offset \in Nat
  BY <1>1, <1>2
<1>6. PICK w : WalkTo(w, offset, f)
  <2> HIDE DEF f, offset
  <2> QED
    BY <1>4, <1>5, WalkUnfold
<1>7. /\ \A o \in 0..offset :
            w[o] = IF NextOffset(o, f) < offset THEN w[NextOffset(o, f)] ELSE o
      /\ PrevOffset(offset, f) = w[FirstOffset]
  BY <1>6 DEF WalkTo
<1> DEFINE m == i - 1
           L == {j \in 1..m : O(j) < offset}
           T == {j \in 1..m : w[O(j)] = O(m)}
<1> HIDE DEF f
<1>8. m \in Nat /\ m \in 1..m /\ 1 \in 0..m /\ 1 \in 1..m /\ m + 1 = i
  BY <1>1
<1>9. \A j \in 1..m : j \in L
  <2>1. m \in L
    <3>1. O(m + 1) = offset
      BY <1>8
    <3> HIDE DEF O, offset
    <3> QED
      BY <1>3, <1>8, <3>1
  <2>2. ASSUME NEW j \in 1..(m - 1), j + 1 \in L PROVE j \in L
    <3>1. j \in 1..m /\ O(j + 1) < offset
      BY <2>2
    <3>2. O(j) < O(j + 1) /\ O(j) \in Nat /\ O(j + 1) \in Nat
      BY <1>3, <3>1
    <3> HIDE DEF O, offset
    <3> QED
      BY <1>5, <3>1, <3>2
  <2> HIDE DEF L, m
  <2> QED
    BY <1>8, <2>1, <2>2, CountDown
<1>10. \A j \in 1..m : O(j) < offset
  BY <1>9
<1>11. ASSUME NEW j \in 1..m PROVE O(j) \in 0..offset
  <2>1. O(j) \in Nat /\ O(j) < offset
    BY <1>3, <1>10
  <2> HIDE DEF O, offset
  <2> QED
    BY <1>5, <2>1
<1>12. \A j \in 1..m : j \in T
  <2>1. m \in T
    <3>1. NextOffset(O(m), f) = offset
      <4>1. NextOffset(O(m), f) = O(m + 1)
        BY <1>3, <1>8
      <4>2. O(m + 1) = offset
        BY <1>8
      <4> QED
        BY <4>1, <4>2
    <3>2. O(m) \in 0..offset /\ ~(offset < offset)
      BY <1>5, <1>8, <1>11
    <3> HIDE DEF O, offset
    <3> QED
      BY <1>7, <1>8, <3>1, <3>2
  <2>2. ASSUME NEW j \in 1..(m - 1), j + 1 \in T PROVE j \in T
    <3>1. j \in 1..m /\ j + 1 \in 1..m /\ w[O(j + 1)] = O(m)
      BY <1>8, <2>2
    <3>2. NextOffset(O(j), f) = O(j + 1)
      BY <1>3, <3>1
    <3>3. O(j + 1) < offset /\ O(j) \in 0..offset
      BY <1>10, <1>11, <3>1
    <3> HIDE DEF O, offset
    <3> QED
      BY <1>7, <3>1, <3>2, <3>3
  <2> HIDE DEF T, m
  <2> QED
    BY <1>8, <2>1, <2>2, CountDown
<1>13. w[O(1)] = O(m)
  BY <1>8, <1>12
<1>14. O(1) = FirstOffset
  <2>1. SubSeq(bs, 1, 1 - 1) = <<>>
    OBVIOUS
  <2>2. <<>> \in Seq(Block)
    OBVIOUS
  <2>3. TotalSize(<<>>) = 0
    BY SizesNone
  <2>4. FirstOffset \in Nat
    BY <2>2, Around
  <2>5. Ends(<<>>) = FirstOffset
    BY <2>3, <2>4 DEF Ends
  <2> QED
    BY <2>1, <2>5
<1> QED
  BY <1>7, <1>13, <1>14 DEF f

-----------------------------------------------------------------------------
(* Lists of blocks that are put together of parts.                         *)
Known(bs) == bs \in Seq(Block) /\ WellFormed(bs) /\ TotalSize(bs) <= MaxRoom

IsInfo(b) == b.type = "streaminfo"

(* Whether a part of a list may stand there, at its front or at its end.   *)
Shaped(bs, front, end) ==
    \A j \in 1..Len(bs) : /\ IsInfo(bs[j]) <=> (front /\ j = 1)
                          /\ bs[j].last <=> (end /\ j = Len(bs))

LEMMA ShapedNone ==
    ASSUME NEW front, NEW end PROVE Shaped(<<>>, front, end)
BY DEF Shaped

LEMMA ShapedOne ==
    ASSUME NEW b \in Block, NEW front \in BOOLEAN, NEW end \in BOOLEAN
    PROVE  Shaped(<<b>>, front, end) <=> /\ IsInfo(b) <=> front
                                         /\ b.last <=> end
<1> DEFINE one == <<b>>
<1>1. Len(one) = 1 /\ one[1] = b
  OBVIOUS
<1> HIDE DEF one
<1>2. Shaped(one, front, end) <=> (IsInfo(b) <=> front) /\ (b.last <=> end)
  BY <1>1 DEF Shaped
<1> QED
  BY <1>2 DEF one

LEMMA EmptyLength ==
    ASSUME NEW S, NEW s \in Seq(S) PROVE s = <<>> <=> Len(s) = 0
OBVIOUS

LEMMA ShapedJoined ==
    ASSUME NEW X \in Seq(Block), NEW Y \in Seq(Block),
           NEW front \in BOOLEAN, NEW end \in BOOLEAN
    PROVE  Shaped(X \o Y, front, end)
           <=> /\ Shaped(X, front, end /\ Y = <<>>)
               /\ Shaped(Y, front /\ X = <<>>, end)
<1> DEFINE all == X \o Y
           n == Len(X)
           k == Len(Y)
<1>1. /\ Len(all) = n + k /\ n \in Nat /\ k \in Nat
      /\ \A j \in 1..n : all[j] = X[j]
      /\ \A j \in 1..k : all[n + j] = Y[j]
  BY Joined
<1>2. (X = <<>> <=> n = 0) /\ (Y = <<>> <=> k = 0)
  BY EmptyLength
<1> HIDE DEF all
<1>3. ASSUME Shaped(all, front, end) PROVE Shaped(X, front, end /\ Y = <<>>)
  <2>1. ASSUME NEW j \in 1..n
        PROVE  /\ IsInfo(X[j]) <=> (front /\ j = 1)
               /\ X[j].last <=> ((end /\ Y = <<>>) /\ j = n)
    <3>1. j \in 1..Len(all) /\ all[j] = X[j]
      BY <1>1
    <3>2. /\ IsInfo(all[j]) <=> (front /\ j = 1)
          /\ all[j].last <=> (end /\ j = Len(all))
      BY <1>3, <3>1 DEF Shaped
    <3>3. j = Len(all) <=> (k = 0 /\ j = n)
      BY <1>1
    <3> QED
      BY <1>2, <3>1, <3>2, <3>3
  <2> QED
    BY <2>1 DEF Shaped
<1>4. ASSUME Shaped(all, front, end) PROVE Shaped(Y, front /\ X = <<>>, end)
  <2>1. ASSUME NEW j \in 1..k
        PROVE  /\ IsInfo(Y[j]) <=> ((front /\ X = <<>>) /\ j = 1)
               /\ Y[j].last <=> (end /\ j = k)
    <3>1. n + j \in 1..Len(all) /\ all[n + j] = Y[j]
      BY <1>1
    <3>2. /\ IsInfo(all[n + j]) <=> (front /\ n + j = 1)
          /\ all[n + j].last <=> (end /\ n + j = Len(all))
      BY <1>4, <3>1 DEF Shaped
    <3>3. (n + j = Len(all) <=> j = k) /\ (n + j = 1 <=> (n = 0 /\ j = 1))
      <4>1. Len(all) = n + k /\ n \in Nat /\ k \in Nat /\ j \in 1..k
        BY <1>1
      <4> HIDE DEF n, k
      <4>2. n + j = Len(all) <=> j = k
        BY <4>1
      <4>3. n + j = 1 <=> (n = 0 /\ j = 1)
        BY <4>1
      <4> QED
        BY <4>2, <4>3
    <3> QED
      BY <1>2, <3>1, <3>2, <3>3
  <2> QED
    BY <2>1 DEF Shaped
<1>5. ASSUME Shaped(X, front, end /\ Y = <<>>), Shaped(Y, front /\ X = <<>>, end)
      PROVE  Shaped(all, front, end)
  <2>1. ASSUME NEW j \in 1..Len(all)
        PROVE  /\ IsInfo(all[j]) <=> (front /\ j = 1)
               /\ all[j].last <=> (end /\ j = Len(all))
    <3>1. CASE j <= n
      <4>1. j \in 1..n /\ all[j] = X[j]
        BY <1>1, <3>1
      <4>2. /\ IsInfo(X[j]) <=> (front /\ j = 1)
            /\ X[j].last <=> ((end /\ Y = <<>>) /\ j = n)
        BY <1>5, <4>1 DEF Shaped
      <4>3. j = Len(all) <=> (k = 0 /\ j = n)
        BY <1>1, <4>1
      <4> QED
        BY <1>2, <4>1, <4>2, <4>3
    <3>2. CASE j > n
      <4>1. j - n \in 1..k /\ n + (j - n) = j
        BY <1>1, <3>2
      <4>2. all[j] = Y[j - n]
        BY <1>1, <4>1
      <4>3. /\ IsInfo(Y[j - n]) <=> ((front /\ X = <<>>) /\ j - n = 1)
            /\ Y[j - n].last <=> (end /\ j - n = k)
        BY <1>5, <4>1 DEF Shaped
      <4>4. (j = Len(all) <=> j - n = k) /\ (j = 1 <=> (n = 0 /\ j - n = 1))
        BY <1>1, <4>1
      <4> QED
        BY <1>2, <4>2, <4>3, <4>4
    <3> QED
      BY <1>1, <3>1, <3>2
  <2> QED
    BY <2>1 DEF Shaped
<1>6. Shaped(all, front, end)
      <=> Shaped(X, front, end /\ Y = <<>>) /\ Shaped(Y, front /\ X = <<>>, end)
  BY <1>3, <1>4, <1>5
<1> QED
  BY <1>6 DEF all

LEMMA WellShaped ==
    ASSUME NEW bs \in Seq(Block)
    PROVE  WellFormed(bs) <=> bs # <<>> /\ Shaped(bs, TRUE, TRUE)
<1>1. DOMAIN bs = 1..Len(bs) /\ \A j \in 1..Len(bs) : bs[j] \in Block
  OBVIOUS
<1>2. \A b \in Block : b.type # "none"
  BY DEF Block, Types
<1>3. \A j \in 1..Len(bs) : bs[j].type # "none"
  BY <1>1, <1>2
<1> QED
  BY <1>1, <1>3 DEF WellFormed, Shaped, IsInfo

LEMMA Empties ==
    ASSUME NEW X \in Seq(Block), NEW Y \in Seq(Block), NEW b \in Block
    PROVE  /\ X \o Y = <<>> <=> (X = <<>> /\ Y = <<>>)
           /\ <<b>> # <<>> /\ X \o <<b>> # <<>> /\ <<b>> \o X # <<>>
           /\ X \o <<>> = X /\ <<>> \o X = X
           /\ <<b>> \in Seq(Block) /\ X \o Y \in Seq(Block) /\ <<>> \in Seq(Block)
<1>1. <<b>> \in Seq(Block) /\ Len(<<b>>) = 1 /\ <<>> \in Seq(Block)
  BY OneIs
<1>2. X \o <<>> = X /\ <<>> \o X = X
  BY ConcatEmptySeq
<1>3. ASSUME NEW s \in Seq(Block), NEW t \in Seq(Block)
      PROVE  s \o t \in Seq(Block) /\ (s \o t = <<>> <=> (s = <<>> /\ t = <<>>))
  <2>1. s \o t \in Seq(Block) /\ Len(s \o t) = Len(s) + Len(t) /\ Len(s) \in Nat /\ Len(t) \in Nat
    BY Joined
  <2> DEFINE r == s \o t
  <2>2. r \in Seq(Block) /\ Len(r) = Len(s) + Len(t)
    BY <2>1
  <2> HIDE DEF r
  <2>3. (r = <<>> <=> Len(r) = 0) /\ (s = <<>> <=> Len(s) = 0) /\ (t = <<>> <=> Len(t) = 0)
    BY <2>2, EmptyLength
  <2>4. r = <<>> <=> (s = <<>> /\ t = <<>>)
    BY <2>1, <2>2, <2>3
  <2> QED
    BY <2>1, <2>4 DEF r
<1>4. <<b>> # <<>>
  OBVIOUS
<1> DEFINE one == <<b>>
<1>5. one \in Seq(Block) /\ one # <<>>
  BY <1>1, <1>4
<1> HIDE DEF one
<1>6. X \o one # <<>> /\ one \o X # <<>>
  BY <1>3, <1>5
<1>7. X \o Y = <<>> <=> (X = <<>> /\ Y = <<>>)
  BY <1>3
<1>8. X \o Y \in Seq(Block)
  BY <1>3
<1> QED
  BY <1>1, <1>2, <1>4, <1>6, <1>7, <1>8 DEF one

(* A list of three parts.                                                  *)
LEMMA SizeOfThree ==
    ASSUME NEW A \in Seq(Block), NEW M \in Seq(Block), NEW C \in Seq(Block)
    PROVE  /\ TotalSize((A \o M) \o C) = TotalSize(A) + TotalSize(M) + TotalSize(C)
           /\ TotalSize(A) \in Nat /\ TotalSize(M) \in Nat /\ TotalSize(C) \in Nat
<1> DEFINE AM == A \o M
<1>1. /\ A \in Seq(Entry) /\ M \in Seq(Entry) /\ C \in Seq(Entry) /\ AM \in Seq(Entry)
  BY BlocksAreEntries, ConcatProperties
<1>2. TotalSize(A) \in Nat /\ TotalSize(M) \in Nat /\ TotalSize(C) \in Nat
  BY <1>1, SizesType
<1>3. TotalSize(AM) = TotalSize(A) + TotalSize(M)
  BY <1>1, SizesJoined
<1> HIDE DEF AM
<1>4. TotalSize(AM \o C) = TotalSize(AM) + TotalSize(C)
  BY <1>1, SizesJoined
<1> QED
  BY <1>2, <1>3, <1>4 DEF AM

LEMMA SplicedShape ==
    ASSUME NEW A \in Seq(Block), NEW M \in Seq(Block), NEW C \in Seq(Block)
    PROVE  /\ (A \o M) \o C \in Seq(Block) /\ A \o M \in Seq(Block) /\ M \o C \in Seq(Block)
           /\ WellFormed((A \o M) \o C)
              <=> /\ ~(A = <<>> /\ M = <<>> /\ C = <<>>)
                  /\ Shaped(A, TRUE, C = <<>> /\ M = <<>>)
                  /\ Shaped(M, A = <<>>, C = <<>>)
                  /\ Shaped(C, A = <<>> /\ M = <<>>, TRUE)
           /\ TotalSize((A \o M) \o C) = TotalSize(A) + TotalSize(M) + TotalSize(C)
           /\ TotalSize(A) \in Nat /\ TotalSize(M) \in Nat /\ TotalSize(C) \in Nat
           /\ Content((A \o M) \o C) = (Content(A) \o Content(M)) \o Content(C)
           /\ Content(A) \in Seq(Texts) /\ Content(M) \in Seq(Texts) /\ Content(C) \in Seq(Texts)
<1> DEFINE AM == A \o M
<1>1. AM \in Seq(Block) /\ AM \o C \in Seq(Block) /\ M \o C \in Seq(Block)
  OBVIOUS
<1>2. /\ A \in Seq(Entry) /\ M \in Seq(Entry) /\ C \in Seq(Entry) /\ AM \in Seq(Entry)
  BY <1>1, BlocksAreEntries
<1>3. TotalSize(A) \in Nat /\ TotalSize(M) \in Nat /\ TotalSize(C) \in Nat
  BY <1>2, SizesType
<1>4. Content(A) \in Seq(Texts) /\ Content(M) \in Seq(Texts) /\ Content(C) \in Seq(Texts)
  BY <1>2, ContentType
<1>5. TotalSize(AM) = TotalSize(A) + TotalSize(M) /\ Content(AM) = Content(A) \o Content(M)
  BY <1>2, SizesJoined, ContentJoined
<1>6. AM = <<>> <=> (A = <<>> /\ M = <<>>)
  <2>1. Len(AM) = Len(A) + Len(M) /\ Len(A) \in Nat /\ Len(M) \in Nat
    BY Joined
  <2> HIDE DEF AM
  <2>2. (AM = <<>> <=> Len(AM) = 0) /\ (A = <<>> <=> Len(A) = 0) /\ (M = <<>> <=> Len(M) = 0)
    BY <1>1, EmptyLength
  <2> QED
    BY <2>1, <2>2
<1>7. \A end \in BOOLEAN : Shaped(AM, TRUE, end)
         <=> Shaped(A, TRUE, end /\ M = <<>>) /\ Shaped(M, TRUE /\ A = <<>>, end)
  BY ShapedJoined
<1> HIDE DEF AM
<1>8. TotalSize(AM \o C) = TotalSize(AM) + TotalSize(C) /\ Content(AM \o C) = Content(AM) \o Content(C)
  BY <1>2, SizesJoined, ContentJoined
<1>9. WellFormed(AM \o C) <=> AM \o C # <<>> /\ Shaped(AM \o C, TRUE, TRUE)
  BY <1>1, WellShaped
<1>10. Shaped(AM \o C, TRUE, TRUE)
       <=> Shaped(AM, TRUE, TRUE /\ C = <<>>) /\ Shaped(C, TRUE /\ AM = <<>>, TRUE)
  BY <1>1, ShapedJoined
<1>11. AM \o C = <<>> <=> (AM = <<>> /\ C = <<>>)
  <2> DEFINE r == AM \o C
  <2>1. r \in Seq(Block) /\ Len(r) = Len(AM) + Len(C) /\ Len(AM) \in Nat /\ Len(C) \in Nat
    BY <1>1, Joined
  <2> HIDE DEF r
  <2>2. (AM = <<>> <=> Len(AM) = 0) /\ (r = <<>> <=> Len(r) = 0) /\ (C = <<>> <=> Len(C) = 0)
    BY <1>1, <2>1, EmptyLength
  <2>3. r = <<>> <=> (AM = <<>> /\ C = <<>>)
    BY <2>1, <2>2
  <2> QED
    BY <2>3 DEF r
<1>12. Shaped(AM, TRUE, C = <<>>)
       <=> Shaped(A, TRUE, C = <<>> /\ M = <<>>) /\ Shaped(M, A = <<>>, C = <<>>)
  <2>1. (C = <<>>) \in BOOLEAN /\ (TRUE /\ A = <<>>) = (A = <<>>)
    OBVIOUS
  <2> QED
    BY <1>7, <2>1
<1>13. (TRUE /\ C = <<>>) = (C = <<>>) /\ (TRUE /\ AM = <<>>) = (A = <<>> /\ M = <<>>)
  BY <1>6
<1>14. WellFormed(AM \o C)
       <=> /\ ~(A = <<>> /\ M = <<>> /\ C = <<>>)
           /\ Shaped(A, TRUE, C = <<>> /\ M = <<>>)
           /\ Shaped(M, A = <<>>, C = <<>>)
           /\ Shaped(C, A = <<>> /\ M = <<>>, TRUE)
  BY <1>6, <1>9, <1>10, <1>11, <1>12, <1>13
<1>15. TotalSize(AM \o C) = TotalSize(A) + TotalSize(M) + TotalSize(C)
  BY <1>3, <1>5, <1>8
<1>16. Content(AM \o C) = (Content(A) \o Content(M)) \o Content(C)
  BY <1>5, <1>8
<1> QED
  BY <1>1, <1>3, <1>4, <1>14, <1>15, <1>16 DEF AM

-----------------------------------------------------------------------------
(* Places in a list and in its file.                                       *)
LEMMA Located ==
    ASSUME NEW A \in Seq(Block), NEW b \in Block, NEW C \in Seq(Block)
    PROVE  LET bs == (A \o <<b>>) \o C
               i == Len(A) + 1
           IN  /\ bs \in Seq(Block) /\ i \in 1..Len(bs) /\ Len(bs) = Len(A) + 1 + Len(C)
               /\ Len(A) \in Nat /\ Len(C) \in Nat
               /\ bs[i] = b /\ SubSeq(bs, 1, i - 1) = A /\ SubSeq(bs, 1, i) = A \o <<b>>
               /\ SubSeq(bs, i + 1, Len(bs)) = C
<1> DEFINE M == <<b>>
           AM == A \o M
           bs == AM \o C
           i == Len(A) + 1
<1>1. M \in Seq(Block) /\ Len(M) = 1 /\ M[1] = b
  BY OneIs
<1> HIDE DEF M
<1>2. AM \in Seq(Block) /\ Concatenates(AM, A, M)
  BY <1>1, Joining
<1>3. bs \in Seq(Block) /\ Concatenates(bs, AM, C)
  BY <1>2, Joining
<1>4. /\ Len(AM) = i /\ Len(A) \in Nat /\ i \in 1..Len(AM) /\ AM[i] = b /\ Len(A) = i - 1
  <2>1. 1 \in 1..1
    OBVIOUS
  <2>2. Len(AM) = Len(A) + 1 /\ AM[Len(A) + 1] = M[1] /\ Len(A) \in Nat
    BY <1>1, <1>2, <2>1 DEF Concatenates
  <2> HIDE DEF AM
  <2> QED
    BY <1>1, <2>2
<1>5. SubSeq(bs, 1, i) = AM /\ SubSeq(bs, i + 1, i + Len(C)) = C
  <2>1. SubSeq(bs, 1, Len(AM)) = AM /\ SubSeq(bs, Len(AM) + 1, Len(AM) + Len(C)) = C
    BY <1>2, PartsOf
  <2> HIDE DEF AM, bs
  <2> QED
    BY <1>4, <2>1
<1>6. Len(bs) = i + Len(C) /\ Len(C) \in Nat /\ bs[i] = b
  <2> HIDE DEF AM, bs
  <2> QED
    BY <1>3, <1>4 DEF Concatenates
<1>7. SubSeq(bs, 1, Len(A)) = A
  <2>1. M \o C \in Seq(Block) /\ bs = A \o (M \o C)
    BY <1>1, ConcatAssociative
  <2> DEFINE t == M \o C
  <2> HIDE DEF t, bs
  <2>2. SubSeq(A \o t, 1, Len(A)) = A
    BY <2>1, PartsOf DEF t
  <2> QED
    BY <2>1, <2>2 DEF t
<1>8. i \in 1..Len(bs) /\ Len(bs) = Len(A) + 1 + Len(C)
  <2> HIDE DEF bs
  <2> QED
    BY <1>4, <1>6
<1>9. /\ SubSeq(bs, 1, i - 1) = A /\ SubSeq(bs, i + 1, Len(bs)) = C
  <2> HIDE DEF bs
  <2> QED
    BY <1>4, <1>5, <1>6, <1>7
<1> QED
  BY <1>3, <1>4, <1>5, <1>6, <1>8, <1>9 DEF M

Stands(bs, offset, b) ==
    /\ b \in Block
    /\ \E A \in Seq(Block), C \in Seq(Block) : bs = (A \o <<b>>) \o C /\ offset = Ends(A)

LEMMA IndexStands ==
    ASSUME NEW bs \in Seq(Block), NEW offset, NEW b, Stands(bs, offset, b)
    PROVE  \E i \in DOMAIN bs : offset = OffsetOf(bs, i) /\ b = bs[i]
<1>1. PICK A \in Seq(Block), C \in Seq(Block) :
         b \in Block /\ bs = (A \o <<b>>) \o C /\ offset = Ends(A)
  BY DEF Stands
<1> DEFINE i == Len(A) + 1
<1>2. i \in 1..Len(bs) /\ bs[i] = b /\ SubSeq(bs, 1, i - 1) = A
  BY <1>1, Located
<1> HIDE DEF i
<1>3. OffsetOf(bs, i) = offset
  BY <1>1, <1>2 DEF OffsetOf, Ends
<1>4. DOMAIN bs = 1..Len(bs)
  OBVIOUS
<1> QED
  BY <1>2, <1>3, <1>4

LEMMA KnownShort ==
    ASSUME NEW bs, Known(bs) PROVE Short(bs)
<1>1. bs \in Seq(Block) /\ TotalSize(bs) <= MaxRoom
  BY DEF Known
<1>2. ASSUME NEW i \in 1..Len(bs) PROVE bs[i].length < LengthLimit
  <2> DEFINE A == SubSeq(bs, 1, i - 1)
             b == bs[i]
             M == <<b>>
             C == SubSeq(bs, i + 1, Len(bs))
  <2>1. /\ A \in Seq(Block) /\ C \in Seq(Block) /\ b \in Block /\ M \in Seq(Block)
        /\ SubSeq(bs, 1, i) = A \o M /\ bs = SubSeq(bs, 1, i) \o C
    BY <1>1, TakenApart, OneIs
  <2>2. TotalSize(M) = Size(b)
    <3> HIDE DEF b
    <3> QED
      BY <2>1, SizesOne DEF Entry
  <2> HIDE DEF A, b, M, C
  <2>3. /\ TotalSize((A \o M) \o C) = TotalSize(A) + TotalSize(M) + TotalSize(C)
        /\ TotalSize(A) \in Nat /\ TotalSize(M) \in Nat /\ TotalSize(C) \in Nat
    BY <2>1, SizeOfThree
  <2>4. TotalSize(bs) = TotalSize(A) + Size(b) + TotalSize(C)
    BY <2>1, <2>2, <2>3
  <2>5. b.length \in Nat /\ Size(b) = 4 + b.length
    BY <2>1 DEF Block, Size, HeaderLength
  <2>6. MaxRoom \in Nat /\ LengthLimit \in Nat /\ MaxRoom < LengthLimit
    BY ClientAssumption, FileAssumption
  <2>7. b.length < LengthLimit
    BY <1>1, <2>3, <2>4, <2>5, <2>6
  <2> QED
    BY <2>7 DEF b
<1> QED
  BY <1>2 DEF Short

LEMMA KnownRead ==
    ASSUME NEW bs, Known(bs)
    PROVE  /\ Blocks(FileOf(bs)) = bs /\ bs \in Seq(Block) /\ Short(bs) /\ bs # <<>>
           /\ FileOf(bs) \in Seq(Cells)
           /\ Len(FileOf(bs)) = Ends(bs) + Len(Audio) /\ Len(Audio) \in Nat /\ Ends(bs) \in Nat
<1>1. bs \in Seq(Block) /\ WellFormed(bs)
  BY DEF Known
<1>2. Short(bs)
  BY KnownShort
<1>3. bs # <<>> /\ \A j \in 1..Len(bs) : bs[j].last <=> j = Len(bs)
  BY <1>1 DEF WellFormed
<1>4. Blocks(FileOf(bs)) = bs
  BY <1>1, <1>2, <1>3, ReadBack
<1>5. /\ FileOf(bs) \in Seq(Cells) /\ Len(FileOf(bs)) = Ends(bs) + Len(Audio)
      /\ Len(Audio) \in Nat /\ Ends(bs) \in Nat
  <2> DEFINE s == Before(bs)
  <2>1. /\ s \in Seq(Cells) /\ Audio \in Seq(Cells) /\ FileOf(bs) = s \o Audio
        /\ Len(s) = Ends(bs) /\ Ends(bs) \in Nat
    BY <1>1, Around DEF FileOf, Before
  <2> HIDE DEF s
  <2>2. /\ s \o Audio \in Seq(Cells) /\ Len(s \o Audio) = Len(s) + Len(Audio)
        /\ Len(Audio) \in Nat
    BY <2>1, Joined
  <2> QED
    BY <2>1, <2>2
<1> QED
  BY <1>1, <1>2, <1>3, <1>4, <1>5

LEMMA FileAround ==
    ASSUME NEW bs, Known(bs)
    PROVE  LET f == FileOf(bs)
           IN  /\ Copied(f, 0, FirstOffset) = Prefix
               /\ Copied(f, Len(f) - Len(Audio), Len(f)) = Audio
<1> DEFINE t == Image(bs)
           f == Prefix \o (t \o Audio)
<1>1. Prefix \in Seq(Cells) /\ Audio \in Seq(Cells) /\ t \in Seq(Cells)
  BY Around, ImageLength DEF Known
<1> HIDE DEF t
<1>2. (Prefix \o t) \o Audio = f
  BY <1>1, Associate
<1>3. /\ Len(f) = Len(Prefix) + Len(t) + Len(Audio)
      /\ Copied(f, 0, Len(Prefix)) = Prefix
      /\ Copied(f, Len(Prefix) + Len(t), Len(f)) = Audio
  BY <1>1, Cuts
<1>4. Len(Prefix) \in Nat /\ Len(t) \in Nat /\ Len(Audio) \in Nat
  BY <1>1
<1> HIDE DEF f
<1>5. Len(f) - Len(Audio) = Len(Prefix) + Len(t)
  BY <1>3, <1>4
<1>6. FileOf(bs) = f
  BY <1>2 DEF FileOf, t
<1> QED
  BY <1>3, <1>5, <1>6 DEF FirstOffset

LEMMA FileTyped ==
    ASSUME NEW A \in Seq(Block), NEW M \in Seq(Block), NEW C \in Seq(Block)
    PROVE  FileOf((A \o M) \o C) \in Seq(Cells)
<1> DEFINE s == Before(A)
           t == Image(M)
           u == After(C)
<1>1. s \in Seq(Cells) /\ t \in Seq(Cells) /\ u \in Seq(Cells)
  BY Around, ImageLength
<1>2. FileOf((A \o M) \o C) = s \o (t \o u)
  BY FileParts
<1> HIDE DEF s, t, u
<1>3. s \o (t \o u) \in Seq(Cells)
  BY <1>1, Cuts
<1> QED
  BY <1>2, <1>3

(* What is read where a block stands, and where the next one does.         *)
LEMMA Standing ==
    ASSUME NEW A \in Seq(Block), NEW b \in Block, NEW C \in Seq(Block),
           Short((A \o <<b>>) \o C)
    PROVE  LET f == FileOf((A \o <<b>>) \o C)
           IN  /\ HeaderAt(f, Ends(A)) = b
               /\ NextOffset(Ends(A), f) = Ends(A \o <<b>>)
               /\ Ends(A) \in 0..Len(f) /\ Ends(A \o <<b>>) \in 0..Len(f)
               /\ Ends(A \o <<b>>) = Ends(A) + Size(b)
               /\ FirstOffset <= Ends(A)
<1> DEFINE bs == (A \o <<b>>) \o C
           f == FileOf(bs)
           i == Len(A) + 1
<1>1. /\ bs \in Seq(Block) /\ i \in 1..Len(bs) /\ bs[i] = b /\ SubSeq(bs, 1, i - 1) = A
      /\ SubSeq(bs, 1, i) = A \o <<b>>
  BY Located
<1> HIDE DEF bs, i
<1>2. /\ Ends(SubSeq(bs, 1, i - 1)) \in Nat /\ Ends(SubSeq(bs, 1, i - 1)) < Len(f)
      /\ FirstOffset <= Ends(SubSeq(bs, 1, i - 1))
      /\ HeaderAt(f, Ends(SubSeq(bs, 1, i - 1))) = bs[i] /\ Size(bs[i]) \in Nat
      /\ Ends(SubSeq(bs, 1, i)) = Ends(SubSeq(bs, 1, i - 1)) + Size(bs[i])
      /\ Ends(SubSeq(bs, 1, i - 1)) + Size(bs[i]) <= Len(f)
  <2>1. Short(bs)
    BY DEF bs
  <2> QED
    BY <1>1, <2>1, AtBlock
<1>3. /\ Ends(A) \in Nat /\ Ends(A) < Len(f) /\ HeaderAt(f, Ends(A)) = b /\ Size(b) \in Nat
      /\ Ends(A \o <<b>>) = Ends(A) + Size(b) /\ Ends(A) + Size(b) <= Len(f)
      /\ FirstOffset <= Ends(A)
  BY <1>1, <1>2
<1>4. Len(f) \in Nat
  <2>1. f = Before(bs) \o Audio
    BY DEF FileOf, Before
  <2>2. Before(bs) \in Seq(Cells) /\ Audio \in Seq(Cells)
    BY <1>1, Around
  <2> HIDE DEF f
  <2>3. f \in Seq(Cells)
    BY <2>1, <2>2, ConcatProperties
  <2> QED
    BY <2>3
<1> HIDE DEF f
<1>5. /\ NextOffset(Ends(A), f) = Ends(A \o <<b>>)
      /\ Ends(A) \in 0..Len(f) /\ Ends(A \o <<b>>) \in 0..Len(f)
  BY <1>3, <1>4 DEF NextOffset
<1> QED
  BY <1>3, <1>5 DEF f, bs

LEMMA PrevStanding ==
    ASSUME NEW A \in Seq(Block), NEW p \in Block, NEW b \in Block, NEW C \in Seq(Block),
           Short(((A \o <<p>>) \o <<b>>) \o C)
    PROVE  PrevOffset(Ends(A \o <<p>>), FileOf(((A \o <<p>>) \o <<b>>) \o C)) = Ends(A)
<1> DEFINE P == A \o <<p>>
           bs == (P \o <<b>>) \o C
           i == Len(P) + 1
<1>1. P \in Seq(Block) /\ Len(P) = Len(A) + 1 /\ Len(A) \in Nat /\ SubSeq(P, 1, Len(A)) = A
  <2>1. <<p>> \in Seq(Block) /\ Len(<<p>>) = 1
    BY OneIs
  <2> DEFINE one == <<p>>
  <2> HIDE DEF one
  <2>2. P = A \o one
    BY DEF one
  <2> HIDE DEF P
  <2>3. A \o one \in Seq(Block) /\ Len(A \o one) = Len(A) + Len(one) /\ Len(A) \in Nat
    BY <2>1, Joined DEF one
  <2>4. SubSeq(A \o one, 1, Len(A)) = A
    BY <2>1, PartsOf DEF one
  <2> QED
    BY <2>1, <2>2, <2>3, <2>4 DEF one
<1> HIDE DEF P
<1>2. /\ bs \in Seq(Block) /\ i \in 1..Len(bs) /\ SubSeq(bs, 1, i - 1) = P
      /\ Len(bs) = Len(P) + 1 + Len(C) /\ Len(C) \in Nat
  <2>1. bs \in Seq(Block) /\ i \in 1..Len(bs) /\ SubSeq(bs, 1, i - 1) = P
    BY <1>1, Located
  <2>2. P \in Seq(Block)
    BY <1>1
  <2>3. Len(bs) = Len(P) + 1 + Len(C)
    BY <2>2, Located
  <2>4. Len(C) \in Nat
    OBVIOUS
  <2> QED
    BY <2>1, <2>3, <2>4
<1>3. i \in 2..Len(bs) /\ (i - 1) - 1 = Len(A)
  <2> HIDE DEF bs
  <2> QED
    BY <1>1, <1>2
<1>4. SubSeq(bs, 1, Len(A)) = A
  <2>1. bs = P \o (<<b>> \o C)
    <3>1. <<b>> \in Seq(Block)
      BY OneIs
    <3> DEFINE one == <<b>>
    <3> HIDE DEF one
    <3>2. (P \o one) \o C = P \o (one \o C)
      BY <1>1, <3>1, ConcatAssociative DEF one
    <3> QED
      BY <3>2 DEF one
  <2>2. P = A \o <<p>>
    BY DEF P
  <2> DEFINE one == <<p>>
             t == <<b>> \o C
  <2>3. one \in Seq(Block) /\ t \in Seq(Block)
    BY OneIs, Empties
  <2>4. bs = (A \o one) \o t
    BY <2>1, <2>2
  <2> HIDE DEF one, t, bs
  <2>5. (A \o one) \o t = A \o (one \o t) /\ one \o t \in Seq(Block)
    BY <2>3, ConcatAssociative
  <2> DEFINE u == one \o t
  <2>6. bs = A \o u /\ u \in Seq(Block)
    BY <2>4, <2>5
  <2> HIDE DEF u
  <2> QED
    BY <2>6, PartsOf
<1>5. Short(bs)
  BY DEF P
<1> HIDE DEF bs, i
<1>6. PrevOffset(Ends(SubSeq(bs, 1, i - 1)), FileOf(bs)) = Ends(SubSeq(bs, 1, (i - 1) - 1))
  BY <1>2, <1>3, <1>5, PrevAt
<1>7. PrevOffset(Ends(P), FileOf(bs)) = Ends(A)
  BY <1>2, <1>3, <1>4, <1>6
<1> QED
  BY <1>7 DEF bs, P

-----------------------------------------------------------------------------
(* What a write in place, a file written anew and a mended flag make.      *)
Among(A, M, C) == (A \o M) \o C

Laid(f, s, t, z) ==
    /\ s \in Seq(Cells) /\ t \in Seq(Cells) /\ z \in Seq(Cells)
    /\ f = s \o (t \o z)

LEMMA LaidOver ==
    ASSUME NEW f, NEW s, NEW t, NEW z, Laid(f, s, t, z), NEW v \in Seq(Cells), Len(v) = Len(t)
    PROVE  Laid(Overwritten(f, Len(s), v), s, v, z)
<1>1. s \in Seq(Cells) /\ t \in Seq(Cells) /\ z \in Seq(Cells) /\ f = s \o (t \o z)
  BY DEF Laid
<1>2. /\ Copied(f, 0, Len(s)) = s /\ Copied(f, Len(s) + Len(t), Len(f)) = z
  BY <1>1, Cuts
<1>3. (s \o v) \o z = s \o (v \o z)
  BY <1>1, Associate
<1>4. Overwritten(f, Len(s), v) = (s \o v) \o z
  BY <1>2 DEF Overwritten
<1> DEFINE g == Overwritten(f, Len(s), v)
<1>5. g = s \o (v \o z)
  BY <1>3, <1>4
<1> HIDE DEF g
<1>6. Laid(g, s, v, z)
  BY <1>1, <1>5 DEF Laid
<1> QED
  BY <1>6 DEF g

LEMMA LaidAnew ==
    ASSUME NEW f, NEW s, NEW t, NEW z, Laid(f, s, t, z), NEW v \in Seq(Cells)
    PROVE  Laid(Copied(f, 0, Len(s)) \o v \o Copied(f, Len(s) + Len(t), Len(f)), s, v, z)
<1>1. s \in Seq(Cells) /\ t \in Seq(Cells) /\ z \in Seq(Cells) /\ f = s \o (t \o z)
  BY DEF Laid
<1> DEFINE x == Copied(f, 0, Len(s))
           y == Copied(f, Len(s) + Len(t), Len(f))
           g == (x \o v) \o y
<1>2. x = s /\ y = z
  BY <1>1, Cuts
<1>3. (s \o v) \o z = s \o (v \o z)
  BY <1>1, Associate
<1> HIDE DEF x, y
<1>4. g = s \o (v \o z)
  BY <1>2, <1>3
<1> HIDE DEF g
<1>5. Laid(g, s, v, z)
  BY <1>1, <1>4 DEF Laid
<1> QED
  BY <1>5 DEF x, y, g

LEMMA LaidFlag ==
    ASSUME NEW f, NEW s, NEW b \in Block, NEW z, Laid(f, s, BlockImage(b), z), NEW flag \in BOOLEAN
    PROVE  Laid(WithFlag(f, Len(s), flag), s, BlockImage([b EXCEPT !.last = flag]), z)
<1> DEFINE d == [b EXCEPT !.last = flag]
           g == WithFlag(f, Len(s), flag)
<1>1. s \in Seq(Cells) /\ z \in Seq(Cells) /\ f = s \o (BlockImage(b) \o z)
  BY DEF Laid
<1>2. d \in Block
  BY DEF Block
<1>3. g = s \o (BlockImage(d) \o z)
  BY <1>1, FlagMended
<1> HIDE DEF d, g
<1>4. BlockImage(d) \in Seq(Cells)
  BY <1>2, ImagesTyped
<1>5. Laid(g, s, BlockImage(d), z)
  BY <1>1, <1>3, <1>4 DEF Laid
<1> QED
  BY <1>5 DEF d, g

LEMMA LaidSame ==
    ASSUME NEW f, NEW g, NEW s, NEW t, NEW z, Laid(f, s, t, z), Laid(g, s, t, z)
    PROVE  f = g
BY DEF Laid

LEMMA FileLaid ==
    ASSUME NEW A \in Seq(Block), NEW M \in Seq(Block), NEW C \in Seq(Block)
    PROVE  /\ Laid(FileOf(Among(A, M, C)), Before(A), Image(M), After(C))
           /\ Image(M) \in Seq(Cells) /\ Len(Image(M)) = TotalSize(M)
           /\ Len(Before(A)) = Ends(A)
           /\ Ends(A \o M) = Ends(A) + TotalSize(M)
<1>1. /\ FileOf((A \o M) \o C) = Before(A) \o (Image(M) \o After(C))
      /\ Ends(A \o M) = Ends(A) + TotalSize(M)
  BY FileParts
<1>2. /\ Before(A) \in Seq(Cells) /\ After(C) \in Seq(Cells) /\ Image(M) \in Seq(Cells)
      /\ Len(Before(A)) = Ends(A) /\ Len(Image(M)) = TotalSize(M)
  BY Around, ImageLength
<1> DEFINE f == FileOf((A \o M) \o C)
<1> HIDE DEF f
<1>3. Laid(f, Before(A), Image(M), After(C))
  BY <1>1, <1>2 DEF Laid, f
<1> QED
  BY <1>1, <1>2, <1>3 DEF f, Among

LEMMA WrittenInPlace ==
    ASSUME NEW A \in Seq(Block), NEW M \in Seq(Block), NEW N \in Seq(Block), NEW C \in Seq(Block),
           TotalSize(N) = TotalSize(M)
    PROVE  Overwritten(FileOf(Among(A, M, C)), Ends(A), Image(N)) = FileOf(Among(A, N, C))
<1>1. /\ Laid(FileOf(Among(A, M, C)), Before(A), Image(M), After(C))
      /\ Len(Image(M)) = TotalSize(M) /\ Len(Before(A)) = Ends(A)
  BY FileLaid
<1>2. /\ Laid(FileOf(Among(A, N, C)), Before(A), Image(N), After(C))
      /\ Image(N) \in Seq(Cells) /\ Len(Image(N)) = TotalSize(N)
  BY FileLaid
<1>3. Laid(Overwritten(FileOf(Among(A, M, C)), Ends(A), Image(N)), Before(A), Image(N), After(C))
  BY <1>1, <1>2, LaidOver
<1> QED
  BY <1>2, <1>3, LaidSame

LEMMA WrittenAnew ==
    ASSUME NEW A \in Seq(Block), NEW M \in Seq(Block), NEW N \in Seq(Block), NEW C \in Seq(Block)
    PROVE  LET f == FileOf(Among(A, M, C))
           IN  Copied(f, 0, Ends(A)) \o Image(N) \o Copied(f, Ends(A \o M), Len(f))
                  = FileOf(Among(A, N, C))
<1> DEFINE f == FileOf(Among(A, M, C))
<1>1. /\ Laid(f, Before(A), Image(M), After(C))
      /\ Len(Image(M)) = TotalSize(M) /\ Len(Before(A)) = Ends(A)
      /\ Ends(A \o M) = Ends(A) + TotalSize(M)
  BY FileLaid
<1>2. /\ Laid(FileOf(Among(A, N, C)), Before(A), Image(N), After(C))
      /\ Image(N) \in Seq(Cells)
  BY FileLaid
<1> HIDE DEF f
<1> DEFINE g == Copied(f, 0, Len(Before(A))) \o Image(N)
                \o Copied(f, Len(Before(A)) + Len(Image(M)), Len(f))
<1>3. Laid(g, Before(A), Image(N), After(C))
  BY <1>1, <1>2, LaidAnew
<1>4. g = Copied(f, 0, Ends(A)) \o Image(N) \o Copied(f, Ends(A \o M), Len(f))
  BY <1>1
<1> HIDE DEF g
<1>5. g = FileOf(Among(A, N, C))
  BY <1>2, <1>3, LaidSame
<1> QED
  BY <1>4, <1>5 DEF f

LEMMA MendedFlag ==
    ASSUME NEW A \in Seq(Block), NEW b \in Block, NEW C \in Seq(Block), NEW flag \in BOOLEAN
    PROVE  WithFlag(FileOf(Among(A, <<b>>, C)), Ends(A), flag)
              = FileOf(Among(A, <<[b EXCEPT !.last = flag]>>, C))
<1> DEFINE d == [b EXCEPT !.last = flag]
           one == <<b>>
           two == <<d>>
           f == FileOf(Among(A, one, C))
<1>1. one \in Seq(Block) /\ Image(one) = BlockImage(b)
  BY ImagesOne, OneIs
<1>2. d \in Block
  BY DEF Block
<1> HIDE DEF one
<1>3. Laid(f, Before(A), BlockImage(b), After(C)) /\ Len(Before(A)) = Ends(A)
  BY <1>1, FileLaid
<1> HIDE DEF f
<1>4. Laid(WithFlag(f, Ends(A), flag), Before(A), BlockImage(d), After(C))
  BY <1>3, LaidFlag
<1> HIDE DEF d
<1>5. two \in Seq(Block) /\ Image(two) = BlockImage(d)
  BY <1>2, ImagesOne, OneIs
<1> HIDE DEF two
<1>6. Laid(FileOf(Among(A, two, C)), Before(A), BlockImage(d), After(C))
  BY <1>5, FileLaid
<1>7. WithFlag(f, Ends(A), flag) = FileOf(Among(A, two, C))
  BY <1>4, <1>6, LaidSame
<1> QED
  BY <1>7 DEF f, d, one, two

-----------------------------------------------------------------------------
(* What is put among two lists.                                            *)
LEMMA AmongIs ==
    ASSUME NEW A \in Seq(Block), NEW M \in Seq(Block), NEW C \in Seq(Block)
    PROVE  /\ Among(A, M, C) \in Seq(Block)
           /\ WellFormed(Among(A, M, C))
              <=> /\ ~(A = <<>> /\ M = <<>> /\ C = <<>>)
                  /\ Shaped(A, TRUE, C = <<>> /\ M = <<>>)
                  /\ Shaped(M, A = <<>>, C = <<>>)
                  /\ Shaped(C, A = <<>> /\ M = <<>>, TRUE)
           /\ TotalSize(Among(A, M, C)) = TotalSize(A) + TotalSize(M) + TotalSize(C)
           /\ TotalSize(A) \in Nat /\ TotalSize(M) \in Nat /\ TotalSize(C) \in Nat
<1>1. /\ (A \o M) \o C \in Seq(Block)
      /\ WellFormed((A \o M) \o C)
              <=> /\ ~(A = <<>> /\ M = <<>> /\ C = <<>>)
                  /\ Shaped(A, TRUE, C = <<>> /\ M = <<>>)
                  /\ Shaped(M, A = <<>>, C = <<>>)
                  /\ Shaped(C, A = <<>> /\ M = <<>>, TRUE)
  BY SplicedShape
<1>2. /\ TotalSize((A \o M) \o C) = TotalSize(A) + TotalSize(M) + TotalSize(C)
      /\ TotalSize(A) \in Nat /\ TotalSize(M) \in Nat /\ TotalSize(C) \in Nat
  BY SizeOfThree
<1> DEFINE bs == (A \o M) \o C
<1> HIDE DEF bs
<1>3. bs = Among(A, M, C)
  BY DEF bs, Among
<1> QED
  BY <1>1, <1>2, <1>3 DEF bs

LEMMA AmongSize ==
    ASSUME NEW A \in Seq(Block), NEW M \in Seq(Block), NEW C \in Seq(Block)
    PROVE  /\ TotalSize(Among(A, M, C)) = TotalSize(A) + TotalSize(M) + TotalSize(C)
           /\ TotalSize(A) \in Nat /\ TotalSize(M) \in Nat /\ TotalSize(C) \in Nat
BY SizeOfThree DEF Among

LEMMA AmongSays ==
    ASSUME NEW A \in Seq(Block), NEW M \in Seq(Block), NEW C \in Seq(Block)
    PROVE  /\ Content(Among(A, M, C)) = Among(Content(A), Content(M), Content(C))
           /\ Content(A) \in Seq(Texts) /\ Content(M) \in Seq(Texts) /\ Content(C) \in Seq(Texts)
<1> DEFINE AM == A \o M
           a == Content(A)
           m == Content(M)
           c == Content(C)
<1>1. AM \in Seq(Block)
  OBVIOUS
<1>2. /\ A \in Seq(Entry) /\ M \in Seq(Entry) /\ C \in Seq(Entry) /\ AM \in Seq(Entry)
  BY <1>1, BlocksAreEntries
<1>3. a \in Seq(Texts) /\ m \in Seq(Texts) /\ c \in Seq(Texts)
  BY <1>2, ContentType
<1>4. Content(AM) = a \o m
  BY <1>2, ContentJoined
<1> HIDE DEF AM, a, m
<1>5. Content(AM \o C) = Content(AM) \o c
  BY <1>2, ContentJoined
<1> HIDE DEF c
<1> DEFINE am == a \o m
<1>6. Content(AM) = am
  BY <1>4
<1> HIDE DEF am
<1>7. Content(AM \o C) = am \o c
  BY <1>5, <1>6
<1>8. am \o c = Among(a, m, c)
  BY DEF am, Among
<1>9. Content(AM \o C) = Among(a, m, c)
  BY <1>7, <1>8
<1>10. AM \o C = Among(A, M, C)
  BY DEF AM, Among
<1> QED
  BY <1>3, <1>9, <1>10 DEF a, m, c

(* Some blocks take the place of others.                                   *)
LEMMA Exchanged ==
    ASSUME NEW A \in Seq(Block), NEW M \in Seq(Block), NEW N \in Seq(Block), NEW C \in Seq(Block),
           Known(Among(A, M, C)), M # <<>>, N # <<>>, Shaped(N, A = <<>>, C = <<>>),
           TotalSize(A) + TotalSize(N) + TotalSize(C) <= MaxRoom
    PROVE  Known(Among(A, N, C))
<1>1. WellFormed(Among(A, M, C))
  BY DEF Known
<1>2. Shaped(A, TRUE, C = <<>> /\ M = <<>>) /\ Shaped(C, A = <<>> /\ M = <<>>, TRUE)
  BY <1>1, AmongIs
<1>3. /\ (C = <<>> /\ M = <<>>) = (C = <<>> /\ N = <<>>)
      /\ (A = <<>> /\ M = <<>>) = (A = <<>> /\ N = <<>>)
  OBVIOUS
<1>4. Among(A, N, C) \in Seq(Block) /\ WellFormed(Among(A, N, C))
  BY <1>2, <1>3, AmongIs
<1>5. TotalSize(Among(A, N, C)) <= MaxRoom
  BY AmongSize
<1> QED
  BY <1>4, <1>5 DEF Known

(* Of one block and of two.                                                *)
LEMMA Single ==
    ASSUME NEW d \in Block
    PROVE  /\ <<d>> \in Seq(Block) /\ <<d>> # <<>>
           /\ TotalSize(<<d>>) = Size(d) /\ Content(<<d>>) = Said(d)
           /\ Size(d) = 4 + d.length /\ d.length \in Nat /\ Size(d) \in Nat
<1>1. TotalSize(<<d>>) = Size(d) /\ Content(<<d>>) = Said(d)
  BY SizesOne, ContentOne DEF Entry
<1>2. Size(d) = 4 + d.length /\ d.length \in Nat
  BY DEF Block, Size, HeaderLength
<1> QED
  BY <1>1, <1>2, Empties

LEMMA Pair ==
    ASSUME NEW d \in Block, NEW e \in Block
    PROVE  /\ <<d, e>> \in Seq(Block) /\ <<d, e>> # <<>>
           /\ <<d, e>> = <<d>> \o <<e>>
           /\ TotalSize(<<d, e>>) = Size(d) + Size(e)
           /\ Content(<<d, e>>) = Said(d) \o Said(e)
<1> DEFINE x == <<d>>
           y == <<e>>
           xy == x \o y
<1>1. /\ x \in Seq(Block) /\ TotalSize(x) = Size(d) /\ Content(x) = Said(d)
      /\ y \in Seq(Block) /\ TotalSize(y) = Size(e) /\ Content(y) = Said(e)
  BY Single
<1>2. xy = <<d, e>> /\ xy # <<>>
  <2>1. xy = <<d, e>>
    <3> DEFINE r == <<d, e>>
    <3>1. r \in Seq(Block) /\ Len(r) = 2 /\ r[1] = d /\ r[2] = e
      OBVIOUS
    <3>2. Len(x) = 1 /\ Len(y) = 1 /\ x[1] = d /\ y[1] = e
      OBVIOUS
    <3> HIDE DEF r, x, y
    <3>3. /\ Len(r) = Len(x) + Len(y)
          /\ \A i \in 1..Len(x) : r[i] = x[i]
          /\ \A i \in 1..Len(y) : r[Len(x) + i] = y[i]
      BY <3>1, <3>2
    <3>4. r = x \o y
      BY <1>1, <3>1, <3>3, IsJoined
    <3> QED
      BY <3>4 DEF r
  <2>2. xy # <<>>
    BY <1>1, Empties
  <2> QED
    BY <2>1, <2>2
<1> HIDE DEF x, y
<1>3. x \in Seq(Entry) /\ y \in Seq(Entry) /\ xy \in Seq(Block)
  BY <1>1, BlocksAreEntries
<1>4. TotalSize(xy) = TotalSize(x) + TotalSize(y)
  BY <1>3, SizesJoined
<1>5. Content(xy) = Content(x) \o Content(y)
  BY <1>3, ContentJoined
<1>6. Content(xy) = Said(d) \o Said(e)
  BY <1>1, <1>5
<1> HIDE DEF xy
<1>7. /\ <<d, e>> \in Seq(Block) /\ <<d, e>> # <<>>
      /\ TotalSize(<<d, e>>) = Size(d) + Size(e)
      /\ Content(<<d, e>>) = Said(d) \o Said(e)
  BY <1>1, <1>2, <1>3, <1>4, <1>6
<1> QED
  BY <1>2, <1>7 DEF xy, x, y

LEMMA ShapedPair ==
    ASSUME NEW d \in Block, NEW e \in Block, NEW front \in BOOLEAN, NEW end \in BOOLEAN,
           IsInfo(d) <=> front, ~IsInfo(e), ~d.last, e.last <=> end
    PROVE  Shaped(<<d, e>>, front, end)
<1>1. d.last \in BOOLEAN /\ e.last \in BOOLEAN
  BY DEF Block
<1>2. SUFFICES ASSUME NEW j \in 1..2
               PROVE  /\ IsInfo(<<d, e>>[j]) <=> (front /\ j = 1)
                      /\ <<d, e>>[j].last <=> (end /\ j = 2)
  BY DEF Shaped
<1>3. CASE j = 1
  <2>1. <<d, e>>[j] = d
    BY <1>3
  <2> QED
    BY <2>1, <1>3
<1>4. CASE j = 2
  <2>1. <<d, e>>[j] = e
    BY <1>4
  <2> QED
    BY <2>1, <1>4
<1> QED
  BY <1>2, <1>3, <1>4

LEMMA Regrouped ==
    ASSUME NEW x \in Seq(Block), NEW y \in Seq(Block), NEW z \in Seq(Block)
    PROVE  (x \o y) \o z = x \o (y \o z) /\ x \o y \in Seq(Block) /\ y \o z \in Seq(Block)
BY ConcatAssociative, ConcatProperties

(* Two blocks one after the other, as one part of a list or as two.        *)
LEMMA TwoOfThem ==
    ASSUME NEW A \in Seq(Block), NEW d \in Block, NEW e \in Block, NEW C \in Seq(Block)
    PROVE  /\ Among(A, <<d, e>>, C) = Among(A, <<d>>, <<e>> \o C)
           /\ Among(A, <<d, e>>, C) = Among(A \o <<d>>, <<e>>, C)
           /\ A \o <<d>> \in Seq(Block) /\ <<e>> \o C \in Seq(Block)
<1> DEFINE x == <<d>>
           y == <<e>>
           xy == <<d, e>>
           Ax == A \o x
           yC == y \o C
<1>1. x \in Seq(Block) /\ y \in Seq(Block) /\ xy = x \o y
  BY Single, Pair
<1> HIDE DEF x, y, xy
<1>2. Ax \in Seq(Block) /\ yC \in Seq(Block)
  BY <1>1, Regrouped
<1>3. A \o xy = Ax \o y
  BY <1>1, Regrouped
<1> HIDE DEF Ax
<1>4. Among(A, xy, C) = Among(Ax, y, C)
  BY <1>3 DEF Among
<1>5. (Ax \o y) \o C = Ax \o (y \o C)
  BY <1>1, <1>2, Regrouped
<1>6. Ax \o yC = Among(A, x, yC)
  BY DEF Among, Ax
<1>7. Among(Ax, y, C) = Ax \o yC
  BY <1>5 DEF Among
<1> HIDE DEF yC
<1>8. Among(A, xy, C) = Among(A, x, yC)
  BY <1>4, <1>6, <1>7
<1> QED
  BY <1>2, <1>4, <1>8 DEF x, y, xy, Ax, yC

LEMMA StandsAmong ==
    ASSUME NEW A \in Seq(Block), NEW d \in Block, NEW C \in Seq(Block)
    PROVE  Stands(Among(A, <<d>>, C), Ends(A), d)
BY DEF Stands, Among

LEMMA PairStands ==
    ASSUME NEW A \in Seq(Block), NEW d \in Block, NEW e \in Block, NEW C \in Seq(Block)
    PROVE  Stands(Among(A, <<d, e>>, C), Ends(A), d)
<1> DEFINE yC == <<e>> \o C
<1>1. yC \in Seq(Block) /\ Among(A, <<d, e>>, C) = Among(A, <<d>>, yC)
  BY TwoOfThem
<1> HIDE DEF yC
<1> QED
  BY <1>1, StandsAmong

(* The first of some blocks, and the last.                                 *)
LEMMA Headed ==
    ASSUME NEW C \in Seq(Block), C # <<>>
    PROVE  \E c \in Block, D \in Seq(Block) : C = <<c>> \o D
<1>1. 1 \in 1..Len(C) /\ Len(C) \in Nat
  OBVIOUS
<1>2. /\ C[1] \in Block /\ SubSeq(C, 1 + 1, Len(C)) \in Seq(Block)
      /\ SubSeq(C, 1, Len(C)) = <<C[1]>> \o SubSeq(C, 1 + 1, Len(C))
  BY <1>1, TakenApart
<1>3. SubSeq(C, 1, Len(C)) = C
  BY <1>1
<1> QED
  BY <1>2, <1>3

LEMMA Tailed ==
    ASSUME NEW C \in Seq(Block), C # <<>>
    PROVE  \E B \in Seq(Block), c \in Block : C = B \o <<c>>
<1> DEFINE n == Len(C)
<1>1. n \in 1..Len(C) /\ n \in Nat
  OBVIOUS
<1>2. /\ C[n] \in Block /\ SubSeq(C, 1, n - 1) \in Seq(Block)
      /\ SubSeq(C, 1, n) = SubSeq(C, 1, n - 1) \o <<C[n]>>
  BY <1>1, TakenApart
<1>3. SubSeq(C, 1, n) = C
  BY <1>1
<1> QED
  BY <1>2, <1>3

-----------------------------------------------------------------------------
(* The plans of level 1.  The iterator stands on b, after A and before C.  *)
On(A, b, C) ==
    /\ A \in Seq(Block) /\ b \in Block /\ C \in Seq(Block)
    /\ Known(Among(A, <<b>>, C)) /\ file = FileOf(Among(A, <<b>>, C))
    /\ it.offset = Ends(A) /\ it.block = b

LEMMA KnownParts ==
    ASSUME NEW A \in Seq(Block), NEW b \in Block, NEW C \in Seq(Block),
           Known(Among(A, <<b>>, C))
    PROVE  /\ IsInfo(b) <=> A = <<>>
           /\ b.last <=> C = <<>>
           /\ TotalSize(A) + Size(b) + TotalSize(C) <= MaxRoom
           /\ TotalSize(A) \in Nat /\ Size(b) \in Nat /\ TotalSize(C) \in Nat
           /\ Size(b) = 4 + b.length /\ b.length \in Nat
<1> DEFINE M == <<b>>
<1>1. /\ A \in Seq(Block) /\ b \in Block /\ C \in Seq(Block) /\ Known(Among(A, M, C))
  OBVIOUS
<1>2. /\ M \in Seq(Block) /\ M # <<>> /\ TotalSize(M) = Size(b)
      /\ Size(b) = 4 + b.length /\ b.length \in Nat /\ Size(b) \in Nat
  BY <1>1, Single
<1>3. Shaped(M, A = <<>>, C = <<>>) <=> (IsInfo(b) <=> A = <<>>) /\ (b.last <=> C = <<>>)
  <2>1. (A = <<>>) \in BOOLEAN /\ (C = <<>>) \in BOOLEAN
    OBVIOUS
  <2> QED
    BY <1>1, <2>1, ShapedOne
<1> HIDE DEF M
<1>4. WellFormed(Among(A, M, C)) /\ TotalSize(Among(A, M, C)) <= MaxRoom
  BY <1>1 DEF Known
<1>5. Shaped(M, A = <<>>, C = <<>>)
  BY <1>1, <1>2, <1>4, AmongIs
<1>6. /\ TotalSize(A) + Size(b) + TotalSize(C) <= MaxRoom
      /\ TotalSize(A) \in Nat /\ TotalSize(C) \in Nat
  <2>1. /\ TotalSize(Among(A, M, C)) = TotalSize(A) + TotalSize(M) + TotalSize(C)
        /\ TotalSize(A) \in Nat /\ TotalSize(C) \in Nat
    BY <1>2, AmongSize
  <2> QED
    BY <1>2, <1>4, <2>1
<1> QED
  BY <1>1, <1>2, <1>3, <1>5, <1>6

LEMMA OnParts ==
    ASSUME NEW A, NEW b, NEW C, On(A, b, C)
    PROVE  /\ A \in Seq(Block) /\ b \in Block /\ C \in Seq(Block)
           /\ IsInfo(b) <=> A = <<>>
           /\ b.last <=> C = <<>>
           /\ TotalSize(A) + Size(b) + TotalSize(C) <= MaxRoom
           /\ TotalSize(A) \in Nat /\ Size(b) \in Nat /\ TotalSize(C) \in Nat
           /\ Size(b) = 4 + b.length /\ b.length \in Nat
BY KnownParts DEF On

LEMMA OnPlaces ==
    ASSUME NEW A, NEW b, NEW C, On(A, b, C)
    PROVE  /\ it.offset = Ends(A) /\ it.block = b
           /\ NextOffset(it.offset, file) = Ends(A \o <<b>>)
           /\ A \o <<b>> \in Seq(Block)
           /\ Ends(A) \in 0..Len(file) /\ Ends(A \o <<b>>) \in 0..Len(file)
           /\ Blocks(file) = Among(A, <<b>>, C)
           /\ Short(Among(A, <<b>>, C))
<1> DEFINE bs == Among(A, <<b>>, C)
<1>1. /\ A \in Seq(Block) /\ b \in Block /\ C \in Seq(Block) /\ Known(bs) /\ file = FileOf(bs)
      /\ it.offset = Ends(A) /\ it.block = b
  BY DEF On
<1>2. bs = (A \o <<b>>) \o C
  BY DEF Among
<1>3. A \o <<b>> \in Seq(Block)
  BY <1>1, Empties
<1> HIDE DEF bs
<1>4. Short(bs) /\ Blocks(FileOf(bs)) = bs
  BY <1>1, KnownRead
<1>5. /\ NextOffset(Ends(A), FileOf(bs)) = Ends(A \o <<b>>)
      /\ Ends(A) \in 0..Len(FileOf(bs)) /\ Ends(A \o <<b>>) \in 0..Len(FileOf(bs))
  BY <1>1, <1>2, <1>4, Standing
<1> QED
  BY <1>1, <1>3, <1>4, <1>5 DEF bs

(* The block that follows the iterator's.                                  *)
LEMMA Following ==
    ASSUME NEW A, NEW b, NEW C, On(A, b, C)
    PROVE  \/ C = <<>> /\ FollowedBy = Broken
           \/ \E c \in Block, D \in Seq(Block) :
                 C = <<c>> \o D /\ FollowedBy = c /\ ~IsInfo(c) /\ (c.last <=> D = <<>>)
<1>1. A \in Seq(Block) /\ b \in Block /\ C \in Seq(Block) /\ (b.last <=> C = <<>>)
  BY OnParts
<1>2. /\ it.block = b /\ NextOffset(it.offset, file) = Ends(A \o <<b>>)
      /\ Short(Among(A, <<b>>, C))
  BY OnPlaces
<1>3. CASE C = <<>>
  BY <1>1, <1>2, <1>3 DEF FollowedBy
<1>4. CASE C # <<>>
  <2>1. PICK c \in Block, D \in Seq(Block) : C = <<c>> \o D
    BY <1>1, <1>4, Headed
  <2> DEFINE P == A \o <<b>>
             bs == Among(A, <<b>>, C)
  <2>2. P \in Seq(Block) /\ bs = Among(P, <<c>>, D)
    <3>1. /\ Among(A, <<b, c>>, D) = Among(A, <<b>>, <<c>> \o D)
          /\ Among(A, <<b, c>>, D) = Among(P, <<c>>, D) /\ P \in Seq(Block)
      BY <1>1, TwoOfThem
    <3> QED
      BY <2>1, <3>1
  <2>3. file = FileOf(bs)
    BY DEF On
  <2>4. Short(bs)
    BY <1>2
  <2>5. bs = (P \o <<c>>) \o D
    BY <2>2 DEF Among
  <2>8. ~IsInfo(c) /\ (c.last <=> D = <<>>)
    <3>1. Known(bs) /\ P # <<>>
      BY <1>1, Empties DEF On
    <3> HIDE DEF P, bs
    <3> QED
      BY <2>2, <3>1, KnownParts
  <2> HIDE DEF P, bs
  <2>6. HeaderAt(file, Ends(P)) = c
    <3>1. P \in Seq(Block) /\ Short((P \o <<c>>) \o D)
      BY <2>2, <2>4, <2>5
    <3>2. HeaderAt(FileOf((P \o <<c>>) \o D), Ends(P)) = c
      BY <3>1, Standing
    <3> QED
      BY <2>3, <2>5, <3>2
  <2>7. FollowedBy = c
    BY <1>1, <1>2, <1>4, <2>6 DEF FollowedBy, P
  <2> QED
    BY <2>1, <2>7, <2>8
<1> QED
  BY <1>3, <1>4

-----------------------------------------------------------------------------
(* Cells that fit between what stands before the metadata and the audio.   *)
Room(offset, cells) ==
    /\ offset \in Nat /\ FirstOffset <= offset
    /\ cells \in Seq(Cells) /\ offset + Len(cells) + Len(Audio) <= Len(file)

(* What a plan makes of the file: that of a list, and the iterator is to   *)
(* stand on one of its blocks.                                             *)
Makes(plan, bs, d) ==
    /\ Known(bs) /\ Stands(bs, plan.goal, d)
    /\ \/ /\ plan.way = "in place" /\ Room(plan.offset, Image(plan.blocks))
          /\ Overwritten(file, plan.offset, Image(plan.blocks)) = FileOf(bs)
       \/ /\ plan.way = "anew" /\ plan.file = FileOf(bs)
          /\ plan.unflushed \subseteq Seq(Cells)

(* A call is refused, or the list it makes says what it should, and the    *)
(* block that the iterator is to stand on is as expected.                  *)
Yields(plan, said, ids) ==
    \/ plan = Refused
    \/ \E bs, d : Makes(plan, bs, d) /\ Content(bs) = said /\ d.id \in ids

LEMMA MakesInPlace ==
    ASSUME NEW A \in Seq(Block), NEW M \in Seq(Block), NEW N \in Seq(Block), NEW C \in Seq(Block),
           Known(Among(A, M, C)), file = FileOf(Among(A, M, C)),
           M # <<>>, N # <<>>, Shaped(N, A = <<>>, C = <<>>), TotalSize(N) = TotalSize(M),
           NEW goal, NEW d, Stands(Among(A, N, C), goal, d)
    PROVE  Makes(InPlace(Ends(A), N, goal), Among(A, N, C), d)
<1> DEFINE p == InPlace(Ends(A), N, goal)
           bs == Among(A, M, C)
           cs == Among(A, N, C)
<1>1. p.way = "in place" /\ p.offset = Ends(A) /\ p.blocks = N /\ p.goal = goal
  BY DEF InPlace
<1>2. /\ TotalSize(bs) = TotalSize(A) + TotalSize(M) + TotalSize(C)
      /\ TotalSize(A) \in Nat /\ TotalSize(M) \in Nat /\ TotalSize(C) \in Nat
  BY AmongSize
<1> HIDE DEF bs
<1>3. TotalSize(bs) <= MaxRoom
  BY DEF Known, bs
<1>4. TotalSize(A) + TotalSize(N) + TotalSize(C) <= MaxRoom
  BY <1>2, <1>3
<1>5. Known(cs)
  BY <1>4, Exchanged
<1>6. Overwritten(file, Ends(A), Image(N)) = FileOf(cs)
  BY WrittenInPlace
<1>7. Room(Ends(A), Image(N))
  <2>1. Len(FileOf(bs)) = Ends(bs) + Len(Audio) /\ Len(Audio) \in Nat
    BY KnownRead DEF bs
  <2>2. FirstOffset \in Nat
    BY Around
  <2>3. file = FileOf(bs)
    BY DEF bs
  <2>4. Image(N) \in Seq(Cells) /\ Len(Image(N)) = TotalSize(M)
    BY ImageLength
  <2> QED
    BY <1>2, <2>1, <2>2, <2>3, <2>4 DEF Ends, Room
<1> HIDE DEF p, cs
<1>8. Makes(p, cs, d)
  <2>1. Stands(cs, p.goal, d)
    BY <1>1 DEF cs
  <2> QED
    BY <1>1, <1>5, <1>6, <1>7, <2>1 DEF Makes
<1> QED
  BY <1>8 DEF p, cs

(* One block takes the place of others, or one and padding.                *)
LEMMA MakesOne ==
    ASSUME NEW A \in Seq(Block), NEW M \in Seq(Block), NEW C \in Seq(Block), NEW e \in Block,
           Known(Among(A, M, C)), file = FileOf(Among(A, M, C)), M # <<>>,
           Size(e) = TotalSize(M), IsInfo(e) <=> A = <<>>, e.last <=> C = <<>>
    PROVE  /\ Makes(InPlace(Ends(A), <<e>>, Ends(A)), Among(A, <<e>>, C), e)
           /\ Content(Among(A, <<e>>, C)) = Among(Content(A), Said(e), Content(C))
<1> DEFINE N == <<e>>
<1>1. N \in Seq(Block) /\ N # <<>> /\ TotalSize(N) = Size(e) /\ Content(N) = Said(e)
  BY Single
<1>2. Shaped(N, A = <<>>, C = <<>>)
  <2>1. (A = <<>>) \in BOOLEAN /\ (C = <<>>) \in BOOLEAN
    OBVIOUS
  <2> QED
    BY <2>1, ShapedOne
<1>3. Stands(Among(A, N, C), Ends(A), e)
  BY StandsAmong
<1> HIDE DEF N
<1>4. Makes(InPlace(Ends(A), N, Ends(A)), Among(A, N, C), e)
  BY <1>1, <1>2, <1>3, MakesInPlace
<1>5. Content(Among(A, N, C)) = Among(Content(A), Content(N), Content(C))
  BY <1>1, AmongSays
<1> QED
  BY <1>1, <1>4, <1>5 DEF N

LEMMA MakesTwo ==
    ASSUME NEW A \in Seq(Block), NEW M \in Seq(Block), NEW C \in Seq(Block),
           NEW e \in Block, NEW p \in Block,
           Known(Among(A, M, C)), file = FileOf(Among(A, M, C)), M # <<>>,
           Size(e) + Size(p) = TotalSize(M), IsInfo(e) <=> A = <<>>,
           ~e.last, IsPadding(p), p.last <=> C = <<>>
    PROVE  /\ Makes(InPlace(Ends(A), <<e, p>>, Ends(A)), Among(A, <<e, p>>, C), e)
           /\ Content(Among(A, <<e, p>>, C)) = Among(Content(A), Said(e), Content(C))
<1> DEFINE N == <<e, p>>
<1>1. N \in Seq(Block) /\ N # <<>> /\ TotalSize(N) = Size(e) + Size(p)
  BY Pair
<1>2. Content(N) = Said(e)
  <2>1. Content(N) = Said(e) \o Said(p)
    BY Pair
  <2>2. Said(p) = <<>>
    BY DEF Said, IsPadding
  <2>3. Said(e) \in Seq(Texts)
    BY ContentTyped DEF Entry
  <2>4. Said(e) \o <<>> = Said(e)
    BY <2>3, ConcatEmptySeq
  <2> QED
    BY <2>1, <2>2, <2>4
<1>3. Shaped(N, A = <<>>, C = <<>>)
  <2>1. (A = <<>>) \in BOOLEAN /\ (C = <<>>) \in BOOLEAN
    OBVIOUS
  <2>2. ~IsInfo(p)
    BY DEF IsInfo, IsPadding
  <2> QED
    BY <2>1, <2>2, ShapedPair
<1>4. Stands(Among(A, N, C), Ends(A), e)
  BY PairStands
<1> HIDE DEF N
<1>5. Makes(InPlace(Ends(A), N, Ends(A)), Among(A, N, C), e)
  BY <1>1, <1>3, <1>4, MakesInPlace
<1>6. Content(Among(A, N, C)) = Among(Content(A), Content(N), Content(C))
  BY <1>1, AmongSays
<1> QED
  BY <1>2, <1>5, <1>6 DEF N

LEMMA MakesAnew ==
    ASSUME NEW bs, Known(bs), NEW goal, NEW d, Stands(bs, goal, d), NEW N, NEW append,
           Rewritten(N, append) = FileOf(bs), Unflushed(N, append) \subseteq Seq(Cells)
    PROVE  Makes(Anew(N, append, goal), bs, d)
<1> DEFINE p == Anew(N, append, goal)
<1>1. /\ p.way = "anew" /\ p.file = Rewritten(N, append) /\ p.goal = goal
      /\ p.unflushed = Unflushed(N, append)
  BY DEF Anew
<1> HIDE DEF p
<1>2. Makes(p, bs, d)
  BY <1>1 DEF Makes
<1> QED
  BY <1>2 DEF p

(* A new block with another flag, and padding.                             *)
LEMMA Marked ==
    ASSUME NEW b \in Block, NEW flag \in BOOLEAN
    PROVE  LET d == [b EXCEPT !.last = flag]
           IN  /\ d \in Block /\ d.last = flag /\ d.id = b.id /\ d.length = b.length
               /\ Size(d) = Size(b) /\ Said(d) = Said(b)
               /\ IsInfo(d) <=> IsInfo(b)
               /\ IsPadding(d) <=> IsPadding(b)
<1> DEFINE d == [b EXCEPT !.last = flag]
<1>1. d \in Block /\ d.last = flag /\ d.id = b.id /\ d.length = b.length /\ d.type = b.type
  BY DEF Block
<1> HIDE DEF d
<1>2. /\ Size(d) = Size(b) /\ Said(d) = Said(b) /\ (IsInfo(d) <=> IsInfo(b))
      /\ (IsPadding(d) <=> IsPadding(b))
  BY <1>1 DEF Size, Said, IsInfo, IsPadding
<1> QED
  BY <1>1, <1>2 DEF d

LEMMA PaddingIs ==
    ASSUME NEW n \in Nat, NEW flag \in BOOLEAN
    PROVE  LET p == Padding(n, flag)
           IN  /\ p \in Block /\ IsPadding(p) /\ ~IsInfo(p) /\ p.last = flag /\ p.length = n
               /\ Size(p) = 4 + n /\ Said(p) = <<>>
<1>1. Padding(n, flag) \in Block
  BY DEF Padding, Block, Types
<1> QED
  BY <1>1 DEF Padding, IsPadding, IsInfo, Size, HeaderLength, Said

-----------------------------------------------------------------------------
(* What rewriting the file makes of it.                                    *)
RewrittenSo(A, b, C, N) ==
    /\ N # <<>> \/ ~b.last => Rewritten(N, FALSE) = FileOf(Among(A, N, C))
    /\ ~b.last => Rewritten(N, TRUE) = FileOf(Among(A \o <<b>>, N, C))
    /\ b.last /\ N # <<>> =>
          Rewritten(N, TRUE) = WithFlag(FileOf(Among(A \o <<b>>, N, C)), Ends(A), FALSE)
    /\ b.last /\ N = <<>> =>
          Rewritten(N, FALSE)
             = WithFlag(FileOf(Among(A, N, C)), PrevOffset(it.offset, file), TRUE)

SplicedSo(A, b, C, N) ==
    /\ Spliced(N, FALSE) = FileOf(Among(A, N, C))
    /\ Spliced(N, TRUE) = FileOf(Among(A \o <<b>>, N, C))

LEMMA SplicedAs ==
    ASSUME NEW A, NEW b, NEW C, On(A, b, C), NEW N \in Seq(Block)
    PROVE  SplicedSo(A, b, C, N)
<1> DEFINE P == A \o <<b>>
           M == <<b>>
           bs == Among(A, M, C)
           here == FileOf(Among(A, N, C))
           next == FileOf(Among(P, N, C))
           copy(cut, end) == Copied(file, 0, cut) \o Image(N) \o Copied(file, end, Len(file))
<1>1. A \in Seq(Block) /\ b \in Block /\ C \in Seq(Block)
  BY OnParts
<1>2. /\ it.offset = Ends(A) /\ it.block = b /\ NextOffset(it.offset, file) = Ends(P)
      /\ P \in Seq(Block)
  <2>1. it.offset = Ends(A) /\ it.block = b
    BY DEF On
  <2>2. NextOffset(it.offset, file) = Ends(A \o <<b>>)
    BY OnPlaces
  <2>3. A \o <<b>> \in Seq(Block)
    BY OnPlaces
  <2> QED
    BY <2>1, <2>2, <2>3
<1>3. M \in Seq(Block) /\ P = A \o M
  BY <1>1, Single
<1>4. file = FileOf(bs)
  BY DEF On
<1>5. bs = Among(P, <<>>, C) /\ P \o <<>> = P /\ <<>> \in Seq(Block)
  <2>1. P \o <<>> = P /\ <<>> \in Seq(Block)
    BY <1>1, <1>2, Empties
  <2> QED
    BY <2>1 DEF Among
<1> HIDE DEF P, M, bs
<1>6. copy(Ends(A), Ends(P)) = here
  BY <1>1, <1>3, <1>4, WrittenAnew DEF bs
<1>7. copy(Ends(P), Ends(P)) = next
  <2>1. file = FileOf(Among(P, <<>>, C))
    BY <1>4, <1>5
  <2> DEFINE none == <<>>
  <2>2. none \in Seq(Block) /\ file = FileOf(Among(P, none, C))
    BY <1>5, <2>1
  <2>3. P \o none = P
    BY <1>5
  <2> HIDE DEF none
  <2> DEFINE g == FileOf(Among(P, none, C))
  <2>4. Copied(g, 0, Ends(P)) \o Image(N) \o Copied(g, Ends(P \o none), Len(g)) = next
    <3>1. P \in Seq(Block) /\ none \in Seq(Block) /\ C \in Seq(Block)
      BY <1>1, <1>2, <2>2
    <3> QED
      BY <3>1, WrittenAnew
  <2>5. g = file
    BY <2>2
  <2> HIDE DEF g
  <2> QED
    BY <2>3, <2>4, <2>5
<1>8. Spliced(N, FALSE) = copy(Ends(A), Ends(P)) /\ Spliced(N, TRUE) = copy(Ends(P), Ends(P))
  BY <1>2 DEF Spliced
<1> QED
  BY <1>6, <1>7, <1>8 DEF P, here, next, SplicedSo

LEMMA RewrittenAs ==
    ASSUME NEW A, NEW b, NEW C, On(A, b, C), NEW N \in Seq(Block)
    PROVE  RewrittenSo(A, b, C, N)
<1> DEFINE here == FileOf(Among(A, N, C))
           next == FileOf(Among(A \o <<b>>, N, C))
<1>1. it.offset = Ends(A) /\ it.block = b
  BY DEF On
<1>2. Spliced(N, FALSE) = here /\ Spliced(N, TRUE) = next
  <2>1. SplicedSo(A, b, C, N)
    BY SplicedAs
  <2> QED
    BY <2>1 DEF SplicedSo
<1> HIDE DEF here, next
<1>3. Rewritten(N, FALSE) = IF b.last /\ N = <<>>
                            THEN WithFlag(here, PrevOffset(it.offset, file), TRUE) ELSE here
  BY <1>1, <1>2 DEF Rewritten
<1>4. N # <<>> \/ ~b.last =>
         Rewritten(N, TRUE) = IF b.last THEN WithFlag(next, Ends(A), FALSE) ELSE next
  <2>1. CASE b.last /\ N # <<>>
    BY <1>1, <1>2, <2>1 DEF Rewritten
  <2>2. CASE ~b.last
    BY <1>1, <1>2, <2>2 DEF Rewritten
  <2> QED
    BY <2>1, <2>2
<1> QED
  BY <1>3, <1>4 DEF here, next, RewrittenSo

(* What is left of the new file when its last flush is lost.               *)
LEMMA UnflushedTyped ==
    ASSUME NEW A, NEW b, NEW C, On(A, b, C), NEW N \in Seq(Block), NEW append \in BOOLEAN
    PROVE  Unflushed(N, append) \subseteq Seq(Cells)
<1> DEFINE copy == Spliced(N, append)
<1>1. A \in Seq(Block) /\ C \in Seq(Block) /\ A \o <<b>> \in Seq(Block)
  BY OnParts, OnPlaces
<1>2. copy \in Seq(Cells)
  <2>1. FileOf(Among(A, N, C)) \in Seq(Cells)
    BY <1>1, FileTyped DEF Among
  <2>2. FileOf(Among(A \o <<b>>, N, C)) \in Seq(Cells)
    <3> DEFINE P == A \o <<b>>
    <3>1. P \in Seq(Block)
      BY <1>1
    <3> HIDE DEF P
    <3>2. FileOf((P \o N) \o C) \in Seq(Cells)
      BY <1>1, <3>1, FileTyped
    <3> QED
      BY <3>2 DEF P, Among
  <2>3. SplicedSo(A, b, C, N)
    BY SplicedAs
  <2>4. CASE append = TRUE
    BY <2>2, <2>3, <2>4 DEF SplicedSo
  <2>5. CASE append = FALSE
    BY <2>1, <2>3, <2>5 DEF SplicedSo
  <2> QED
    BY <2>4, <2>5
<1> HIDE DEF copy
<1>3. ASSUME NEW k \in 0..(Len(copy) - 1) PROVE SubSeq(copy, 1, k) \in Seq(Cells)
  BY <1>2, <1>3, BeginningTyped
<1>4. \/ Unflushed(N, append) = {copy}
      \/ Unflushed(N, append) = {SubSeq(copy, 1, k) : k \in 0..(Len(copy) - 1)}
  BY DEF Unflushed, copy
<1> QED
  BY <1>2, <1>3, <1>4

-----------------------------------------------------------------------------
LEMMA AfterPadding ==
    ASSUME NEW c \in Block, NEW D \in Seq(Block), IsPadding(c)
    PROVE  /\ Content(<<c>> \o D) = Content(D)
           /\ TotalSize(<<c>> \o D) = Size(c) + TotalSize(D)
<1> DEFINE x == <<c>>
<1>1. x \in Seq(Block) /\ TotalSize(x) = Size(c) /\ Content(x) = Said(c)
  BY Single
<1> HIDE DEF x
<1>2. x \in Seq(Entry) /\ D \in Seq(Entry)
  BY <1>1, BlocksAreEntries
<1>3. TotalSize(x \o D) = TotalSize(x) + TotalSize(D)
  BY <1>2, SizesJoined
<1>4. Content(x \o D) = Content(x) \o Content(D)
  BY <1>2, ContentJoined
<1>5. Content(x) = <<>>
  BY <1>1 DEF Said, IsPadding
<1>6. Content(D) \in Seq(Texts)
  BY <1>2, ContentType
<1>7. <<>> \o Content(D) = Content(D)
  BY <1>6, ConcatEmptySeq
<1>8. Content(x \o D) = Content(D)
  BY <1>4, <1>5, <1>7
<1> QED
  BY <1>1, <1>3, <1>8 DEF x

LEMMA MadeYields ==
    ASSUME NEW plan, NEW bs, NEW d, NEW said, NEW ids,
           Makes(plan, bs, d), Content(bs) = said, d.id \in ids
    PROVE  Yields(plan, said, ids)
BY DEF Yields

(* Setting: the plans, one for each case of SetPlan.                       *)
LEMMA SetOne ==
    ASSUME NEW A, NEW b, NEW C, On(A, b, C), NEW e \in Block,
           IsInfo(e) <=> IsInfo(b), e.last <=> b.last, Size(e) = Size(b)
    PROVE  Yields(InPlace(it.offset, <<e>>, it.offset),
                  Among(Content(A), Said(e), Content(C)), {e.id})
<1>1. /\ A \in Seq(Block) /\ b \in Block /\ C \in Seq(Block)
      /\ (IsInfo(b) <=> A = <<>>) /\ (b.last <=> C = <<>>)
  BY OnParts
<1>2. it.offset = Ends(A)
  BY OnPlaces
<1> DEFINE M == <<b>>
<1>3. M \in Seq(Block) /\ M # <<>> /\ TotalSize(M) = Size(b)
  BY <1>1, Single
<1>4. Known(Among(A, M, C)) /\ file = FileOf(Among(A, M, C))
  BY DEF On
<1> HIDE DEF M
<1>5. /\ Makes(InPlace(Ends(A), <<e>>, Ends(A)), Among(A, <<e>>, C), e)
      /\ Content(Among(A, <<e>>, C)) = Among(Content(A), Said(e), Content(C))
  BY <1>1, <1>3, <1>4, MakesOne
<1> QED
  BY <1>2, <1>5, MadeYields

LEMMA SetSplit ==
    ASSUME NEW A, NEW b, NEW C, On(A, b, C), NEW e \in Block, NEW p \in Block,
           IsInfo(e) <=> IsInfo(b), ~e.last, IsPadding(p), p.last <=> b.last,
           Size(e) + Size(p) = Size(b)
    PROVE  Yields(InPlace(it.offset, <<e, p>>, it.offset),
                  Among(Content(A), Said(e), Content(C)), {e.id})
<1>1. /\ A \in Seq(Block) /\ b \in Block /\ C \in Seq(Block)
      /\ (IsInfo(b) <=> A = <<>>) /\ (b.last <=> C = <<>>)
  BY OnParts
<1>2. it.offset = Ends(A)
  BY OnPlaces
<1> DEFINE M == <<b>>
<1>3. M \in Seq(Block) /\ M # <<>> /\ TotalSize(M) = Size(b)
  BY <1>1, Single
<1>4. Known(Among(A, M, C)) /\ file = FileOf(Among(A, M, C))
  BY DEF On
<1> HIDE DEF M
<1>5. /\ Makes(InPlace(Ends(A), <<e, p>>, Ends(A)), Among(A, <<e, p>>, C), e)
      /\ Content(Among(A, <<e, p>>, C)) = Among(Content(A), Said(e), Content(C))
  BY <1>1, <1>3, <1>4, MakesTwo
<1> QED
  BY <1>2, <1>5, MadeYields

(* The padding that follows is swallowed, or cut.                          *)
LEMMA SetOver ==
    ASSUME NEW A, NEW b, NEW C, On(A, b, C), NEW c \in Block, NEW D \in Seq(Block),
           C = <<c>> \o D, IsPadding(c), c.last <=> D = <<>>,
           NEW e \in Block, IsInfo(e) <=> IsInfo(b)
    PROVE  /\ (e.last <=> c.last) /\ Size(e) = Size(b) + Size(c) =>
                 Yields(InPlace(it.offset, <<e>>, it.offset),
                        Among(Content(A), Said(e), Content(C)), {e.id})
           /\ \A p \in Block :
                 /\ ~e.last /\ IsPadding(p) /\ (p.last <=> c.last)
                 /\ Size(e) + Size(p) = Size(b) + Size(c)
                 => Yields(InPlace(it.offset, <<e, p>>, it.offset),
                           Among(Content(A), Said(e), Content(C)), {e.id})
<1>1. /\ A \in Seq(Block) /\ b \in Block /\ C \in Seq(Block)
      /\ (IsInfo(b) <=> A = <<>>)
  BY OnParts
<1>2. it.offset = Ends(A)
  BY OnPlaces
<1> DEFINE M == <<b, c>>
<1>3. M \in Seq(Block) /\ M # <<>> /\ TotalSize(M) = Size(b) + Size(c)
  BY <1>1, Pair
<1>4. Among(A, M, D) = Among(A, <<b>>, C)
  BY <1>1, TwoOfThem
<1>5. Content(C) = Content(D)
  BY AfterPadding
<1>6. Known(Among(A, M, D)) /\ file = FileOf(Among(A, M, D))
  BY <1>4 DEF On
<1> HIDE DEF M
<1>7. ASSUME e.last <=> c.last, Size(e) = Size(b) + Size(c)
      PROVE  Yields(InPlace(it.offset, <<e>>, it.offset),
                    Among(Content(A), Said(e), Content(C)), {e.id})
  <2>1. /\ Makes(InPlace(Ends(A), <<e>>, Ends(A)), Among(A, <<e>>, D), e)
        /\ Content(Among(A, <<e>>, D)) = Among(Content(A), Said(e), Content(D))
    BY <1>1, <1>3, <1>6, <1>7, MakesOne
  <2> QED
    BY <1>2, <1>5, <2>1, MadeYields
<1>8. ASSUME NEW p \in Block, ~e.last, IsPadding(p), p.last <=> c.last,
             Size(e) + Size(p) = Size(b) + Size(c)
      PROVE  Yields(InPlace(it.offset, <<e, p>>, it.offset),
                    Among(Content(A), Said(e), Content(C)), {e.id})
  <2>1. /\ Makes(InPlace(Ends(A), <<e, p>>, Ends(A)), Among(A, <<e, p>>, D), e)
        /\ Content(Among(A, <<e, p>>, D)) = Among(Content(A), Said(e), Content(D))
    BY <1>1, <1>3, <1>6, <1>8, MakesTwo
  <2> QED
    BY <1>2, <1>5, <2>1, MadeYields
<1> QED
  BY <1>7, <1>8

LEMMA SetAnew ==
    ASSUME NEW A, NEW b, NEW C, On(A, b, C), NEW e \in Block,
           IsInfo(e) <=> IsInfo(b), e.last <=> b.last,
           TotalSize(A) + Size(e) + TotalSize(C) <= MaxRoom
    PROVE  Yields(Anew(<<e>>, FALSE, it.offset),
                  Among(Content(A), Said(e), Content(C)), {e.id})
<1>1. /\ A \in Seq(Block) /\ b \in Block /\ C \in Seq(Block)
      /\ (IsInfo(b) <=> A = <<>>) /\ (b.last <=> C = <<>>)
  BY OnParts
<1>2. it.offset = Ends(A)
  BY OnPlaces
<1> DEFINE M == <<b>>
           N == <<e>>
<1>3. M \in Seq(Block) /\ M # <<>>
  BY <1>1, Single
<1>4. N \in Seq(Block) /\ N # <<>> /\ TotalSize(N) = Size(e) /\ Content(N) = Said(e)
  BY Single
<1>5. Shaped(N, A = <<>>, C = <<>>)
  <2>1. (A = <<>>) \in BOOLEAN /\ (C = <<>>) \in BOOLEAN
    OBVIOUS
  <2> QED
    BY <1>1, <2>1, ShapedOne
<1>6. Stands(Among(A, N, C), Ends(A), e)
  BY <1>1, StandsAmong
<1>7. Known(Among(A, M, C))
  BY DEF On
<1> HIDE DEF M, N
<1>8. Known(Among(A, N, C))
  BY <1>1, <1>3, <1>4, <1>5, <1>7, Exchanged
<1>9. /\ Rewritten(N, FALSE) = FileOf(Among(A, N, C))
      /\ Unflushed(N, FALSE) \subseteq Seq(Cells)
  BY <1>4, RewrittenAs, UnflushedTyped DEF RewrittenSo
<1>10. Makes(Anew(N, FALSE, Ends(A)), Among(A, N, C), e)
  BY <1>6, <1>8, <1>9, MakesAnew
<1>11. Content(Among(A, N, C)) = Among(Content(A), Said(e), Content(C))
  BY <1>1, <1>4, AmongSays
<1>12. Yields(Anew(N, FALSE, it.offset),
              Among(Content(A), Said(e), Content(C)), {e.id})
  BY <1>2, <1>10, <1>11, MadeYields
<1> QED
  BY <1>12 DEF N

-----------------------------------------------------------------------------
(* Inserting: as one block more, over padding, or before what is left of it. *)
LEMMA TextsRegrouped ==
    ASSUME NEW x \in Seq(Texts), NEW y \in Seq(Texts), NEW z \in Seq(Texts), NEW w \in Seq(Texts)
    PROVE  Among(x \o y, z, w) = Among(x, y \o z, w)
<1>1. (x \o y) \o z = x \o (y \o z)
  BY ConcatAssociative
<1> QED
  BY <1>1 DEF Among

LEMMA ContentBefore ==
    ASSUME NEW A \in Seq(Block), NEW b \in Block, NEW C \in Seq(Block)
    PROVE  /\ Content(A \o <<b>>) = Content(A) \o Said(b)
           /\ Content(A) \in Seq(Texts) /\ Said(b) \in Seq(Texts)
           /\ Content(C) \in Seq(Texts)
<1> DEFINE M == <<b>>
<1>1. M \in Seq(Block) /\ Content(M) = Said(b)
  BY Single
<1> HIDE DEF M
<1>2. A \in Seq(Entry) /\ M \in Seq(Entry) /\ C \in Seq(Entry)
  BY <1>1, BlocksAreEntries
<1>3. Content(A \o M) = Content(A) \o Content(M)
  BY <1>2, ContentJoined
<1>4. Content(A) \in Seq(Texts) /\ Content(C) \in Seq(Texts) /\ Content(M) \in Seq(Texts)
  BY <1>2, ContentType
<1> QED
  BY <1>1, <1>3, <1>4 DEF M

LEMMA InsertOver ==
    ASSUME NEW A, NEW b, NEW C, On(A, b, C), NEW c \in Block, NEW D \in Seq(Block),
           C = <<c>> \o D, IsPadding(c), c.last <=> D = <<>>,
           NEW e \in Block, ~IsInfo(e), NEW next, next = NextOffset(it.offset, file)
    PROVE  /\ (e.last <=> c.last) /\ Size(e) = Size(c) =>
                 Yields(InPlace(next, <<e>>, next),
                        Among(Content(A), Said(b) \o Said(e), Content(C)), {e.id})
           /\ \A p \in Block :
                 /\ ~e.last /\ IsPadding(p) /\ (p.last <=> c.last)
                 /\ Size(e) + Size(p) = Size(c)
                 => Yields(InPlace(next, <<e, p>>, next),
                           Among(Content(A), Said(b) \o Said(e), Content(C)), {e.id})
<1> DEFINE P == A \o <<b>>
           M == <<c>>
<1>1. A \in Seq(Block) /\ b \in Block /\ C \in Seq(Block)
  BY OnParts
<1>2. next = Ends(P) /\ P \in Seq(Block)
  BY OnPlaces
<1>3. M \in Seq(Block) /\ M # <<>> /\ TotalSize(M) = Size(c)
  BY Single
<1>4. P # <<>>
  BY <1>1, Empties
<1>5. Known(Among(P, M, D)) /\ file = FileOf(Among(P, M, D))
  <2>1. /\ Among(A, <<b, c>>, D) = Among(A, <<b>>, <<c>> \o D)
        /\ Among(A, <<b, c>>, D) = Among(P, M, D)
    BY <1>1, TwoOfThem
  <2> QED
    BY <2>1 DEF On
<1>6. Content(C) = Content(D)
  BY AfterPadding
<1>7. Among(Content(P), Said(e), Content(D))
         = Among(Content(A), Said(b) \o Said(e), Content(C))
  <2>1. /\ Content(P) = Content(A) \o Said(b)
        /\ Content(A) \in Seq(Texts) /\ Said(b) \in Seq(Texts) /\ Content(D) \in Seq(Texts)
    BY <1>1, ContentBefore
  <2>2. Said(e) \in Seq(Texts)
    BY ContentTyped DEF Entry
  <2> DEFINE x == Content(A)
             y == Said(b)
             z == Said(e)
             w == Content(D)
  <2>3. x \in Seq(Texts) /\ y \in Seq(Texts) /\ z \in Seq(Texts) /\ w \in Seq(Texts)
    BY <2>1, <2>2
  <2> HIDE DEF x, y, z, w
  <2>4. Among(x \o y, z, w) = Among(x, y \o z, w)
    BY <2>3, TextsRegrouped
  <2> QED
    BY <1>6, <2>1, <2>4 DEF x, y, z, w
<1> HIDE DEF P, M
<1>8. ASSUME e.last <=> c.last, Size(e) = Size(c)
      PROVE  Yields(InPlace(next, <<e>>, next),
                    Among(Content(A), Said(b) \o Said(e), Content(C)), {e.id})
  <2>1. /\ Makes(InPlace(Ends(P), <<e>>, Ends(P)), Among(P, <<e>>, D), e)
        /\ Content(Among(P, <<e>>, D)) = Among(Content(P), Said(e), Content(D))
    BY <1>2, <1>3, <1>4, <1>5, <1>8, MakesOne
  <2> QED
    BY <1>2, <1>7, <2>1, MadeYields
<1>9. ASSUME NEW p \in Block, ~e.last, IsPadding(p), p.last <=> c.last,
             Size(e) + Size(p) = Size(c)
      PROVE  Yields(InPlace(next, <<e, p>>, next),
                    Among(Content(A), Said(b) \o Said(e), Content(C)), {e.id})
  <2>1. /\ Makes(InPlace(Ends(P), <<e, p>>, Ends(P)), Among(P, <<e, p>>, D), e)
        /\ Content(Among(P, <<e, p>>, D)) = Among(Content(P), Said(e), Content(D))
    BY <1>2, <1>3, <1>4, <1>5, <1>9, MakesTwo
  <2> QED
    BY <1>2, <1>7, <2>1, MadeYields
<1> QED
  BY <1>8, <1>9

LEMMA SameEnds ==
    ASSUME NEW A \in Seq(Block), NEW b \in Block, NEW d \in Block, Size(d) = Size(b)
    PROVE  Ends(A \o <<d>>) = Ends(A \o <<b>>)
<1> DEFINE x == <<b>>
           y == <<d>>
<1>1. x \in Seq(Block) /\ y \in Seq(Block) /\ TotalSize(x) = TotalSize(y)
  BY Single
<1> HIDE DEF x, y
<1>2. Ends(A \o x) = Ends(A) + TotalSize(x) /\ Ends(A \o y) = Ends(A) + TotalSize(y)
  BY <1>1, FileLaid
<1> QED
  BY <1>1, <1>2 DEF x, y

LEMMA SameWhenUnflagged ==
    ASSUME NEW b \in Block, NEW flag \in BOOLEAN, b.last = flag
    PROVE  [b EXCEPT !.last = flag] = b
BY DEF Block

LEMMA InsertAnew ==
    ASSUME NEW A, NEW b, NEW C, On(A, b, C), NEW e \in Block,
           ~IsInfo(e), e.last <=> b.last,
           TotalSize(A) + Size(b) + Size(e) + TotalSize(C) <= MaxRoom
    PROVE  Yields(Anew(<<e>>, TRUE, NextOffset(it.offset, file)),
                  Among(Content(A), Said(b) \o Said(e), Content(C)), {e.id})
<1> DEFINE d == [b EXCEPT !.last = FALSE]
           M == <<b>>
           N == <<e>>
           de == <<d, e>>
           P == A \o <<d>>
           yC == <<e>> \o C
           f == Rewritten(N, TRUE)
<1>1. /\ A \in Seq(Block) /\ b \in Block /\ C \in Seq(Block)
      /\ (IsInfo(b) <=> A = <<>>) /\ (b.last <=> C = <<>>)
      /\ TotalSize(A) \in Nat /\ Size(b) \in Nat /\ TotalSize(C) \in Nat
  BY OnParts
<1>2. /\ d \in Block /\ ~d.last /\ Size(d) = Size(b) /\ Said(d) = Said(b)
      /\ IsInfo(d) <=> IsInfo(b)
  BY <1>1, Marked
<1>3. NextOffset(it.offset, file) = Ends(P)
  <2>1. NextOffset(it.offset, file) = Ends(A \o <<b>>)
    BY OnPlaces
  <2>2. Ends(A \o <<d>>) = Ends(A \o <<b>>)
    <3> HIDE DEF d
    <3> QED
      BY <1>1, <1>2, SameEnds
  <2> QED
    BY <2>1, <2>2
<1>4. M \in Seq(Block) /\ M # <<>> /\ N \in Seq(Block) /\ N # <<>> /\ Size(e) \in Nat
  BY <1>1, Single
<1>5. ~b.last => d = b
  <2>1. b.last \in BOOLEAN
    BY <1>1 DEF Block
  <2> QED
    BY <1>1, <2>1, SameWhenUnflagged
<1>6. b.last => WithFlag(FileOf(Among(A, <<b>>, yC)), Ends(A), FALSE)
                   = FileOf(Among(A, <<d>>, yC))
  <2>1. yC \in Seq(Block)
    BY <1>1, <1>4, Regrouped
  <2> HIDE DEF yC
  <2> QED
    BY <1>1, <2>1, MendedFlag
<1>7. /\ Among(A, <<b, e>>, C) = Among(A, <<b>>, yC)
      /\ Among(A, <<b, e>>, C) = Among(A \o <<b>>, N, C)
  BY <1>1, TwoOfThem
<1> HIDE DEF d
<1>8. /\ Among(A, de, C) = Among(A, <<d>>, yC)
      /\ Among(A, de, C) = Among(P, N, C)
      /\ P \in Seq(Block)
  BY <1>1, <1>2, TwoOfThem
<1>9. de \in Seq(Block) /\ de # <<>> /\ TotalSize(de) = Size(d) + Size(e)
      /\ Content(de) = Said(d) \o Said(e)
  BY <1>2, Pair
<1>10. Shaped(de, A = <<>>, C = <<>>)
  <2>1. (A = <<>>) \in BOOLEAN /\ (C = <<>>) \in BOOLEAN
    OBVIOUS
  <2> QED
    BY <1>1, <1>2, <2>1, ShapedPair
<1>11. Stands(Among(P, N, C), Ends(P), e)
  BY <1>1, <1>8, StandsAmong
<1>12. Known(Among(A, M, C))
  BY DEF On
<1>13. f = FileOf(Among(A, de, C))
  <2>1. CASE b.last
    <3>1. f = WithFlag(FileOf(Among(A \o <<b>>, N, C)), Ends(A), FALSE)
      BY <1>4, <2>1, RewrittenAs DEF RewrittenSo
    <3> QED
      BY <1>6, <1>7, <1>8, <2>1, <3>1
  <2>2. CASE ~b.last
    <3> HIDE DEF N, f
    <3>1. Rewritten(N, TRUE) = FileOf(Among(A \o <<b>>, N, C))
      <4>1. N \in Seq(Block)
        BY <1>4
      <4>2. RewrittenSo(A, b, C, N)
        BY <4>1, RewrittenAs
      <4> QED
        BY <2>2, <4>2 DEF RewrittenSo
    <3>2. f = FileOf(Among(A \o <<b>>, N, C))
      BY <3>1 DEF f
    <3> QED
      BY <1>5, <1>7, <1>8, <2>2, <3>2
  <2> QED
    BY <2>1, <2>2
<1> HIDE DEF M, de, P, yC, f
<1>14. TotalSize(A) + TotalSize(de) + TotalSize(C) <= MaxRoom
  BY <1>1, <1>2, <1>4, <1>9
<1>15. Known(Among(A, de, C))
  BY <1>1, <1>4, <1>9, <1>10, <1>12, <1>14, Exchanged
<1>16. Stands(Among(A, de, C), Ends(P), e)
  BY <1>8, <1>11
<1>17. Makes(Anew(N, TRUE, Ends(P)), Among(A, de, C), e)
  <2>1. N \in Seq(Block)
    BY <1>4
  <2> HIDE DEF N
  <2>2. Unflushed(N, TRUE) \subseteq Seq(Cells)
    BY <2>1, UnflushedTyped
  <2>3. Rewritten(N, TRUE) = FileOf(Among(A, de, C))
    BY <1>13 DEF f
  <2> QED
    BY <1>15, <1>16, <2>2, <2>3, MakesAnew
<1>18. Content(Among(A, de, C)) = Among(Content(A), Content(de), Content(C))
  BY <1>1, <1>9, AmongSays
<1>19. Content(de) = Said(b) \o Said(e)
  BY <1>2, <1>9
<1>20. Yields(Anew(N, TRUE, Ends(P)), Among(Content(A), Content(de), Content(C)), {e.id})
  BY <1>17, <1>18, MadeYields
<1> QED
  BY <1>3, <1>19, <1>20

-----------------------------------------------------------------------------
(* Deleting: padding in the block's place, or a file without it.           *)
LEMMA DeletedInPlace ==
    ASSUME NEW A, NEW b, NEW C, On(A, b, C),
           NEW B \in Seq(Block), NEW p \in Block, A = B \o <<p>>
    PROVE  Yields(InPlace(it.offset, <<Padding(b.length, b.last)>>, Ends(B)),
                  Among(Content(A), <<>>, Content(C)), Ids \cup {"zeros"})
<1> DEFINE M == <<b>>
           e == Padding(b.length, b.last)
           N == <<e>>
           yC == <<e>> \o C
<1>1. /\ A \in Seq(Block) /\ b \in Block /\ C \in Seq(Block)
      /\ (IsInfo(b) <=> A = <<>>) /\ (b.last <=> C = <<>>)
      /\ Size(b) = 4 + b.length /\ b.length \in Nat /\ b.last \in BOOLEAN
  BY OnParts DEF Block
<1>2. it.offset = Ends(A)
  BY OnPlaces
<1>3. /\ e \in Block /\ IsPadding(e) /\ ~IsInfo(e) /\ e.last = b.last /\ Size(e) = Size(b)
      /\ Said(e) = <<>>
  BY <1>1, PaddingIs
<1>4. M \in Seq(Block) /\ M # <<>> /\ TotalSize(M) = Size(b)
  BY <1>1, Single
<1>5. Known(Among(A, M, C)) /\ file = FileOf(Among(A, M, C))
  BY DEF On
<1>6. A # <<>>
  BY Empties
<1> HIDE DEF e
<1>7. N \in Seq(Block) /\ N # <<>> /\ TotalSize(N) = Size(e) /\ Content(N) = Said(e)
  BY <1>3, Single
<1>8. Shaped(N, A = <<>>, C = <<>>)
  <2>1. (A = <<>>) \in BOOLEAN /\ (C = <<>>) \in BOOLEAN
    OBVIOUS
  <2> QED
    BY <1>1, <1>3, <1>6, <2>1, ShapedOne
<1>9. Stands(Among(A, N, C), Ends(B), p)
  <2>1. Among(B, <<p, e>>, C) = Among(A, N, C)
    BY <1>1, <1>3, TwoOfThem
  <2>2. Stands(Among(B, <<p, e>>, C), Ends(B), p)
    BY <1>1, <1>3, PairStands
  <2> QED
    BY <2>1, <2>2
<1> HIDE DEF M, N
<1>10. Makes(InPlace(Ends(A), N, Ends(B)), Among(A, N, C), p)
  <2>1. TotalSize(N) = TotalSize(M)
    BY <1>3, <1>4, <1>7
  <2> QED
    BY <1>1, <1>4, <1>5, <1>7, <1>8, <1>9, <2>1, MakesInPlace
<1>11. Content(Among(A, N, C)) = Among(Content(A), <<>>, Content(C))
  <2>1. Content(Among(A, N, C)) = Among(Content(A), Content(N), Content(C))
    BY <1>1, <1>7, AmongSays
  <2>2. Content(N) = <<>>
    BY <1>3, <1>7
  <2> QED
    BY <2>1, <2>2
<1>12. p.id \in Ids \cup {"zeros"}
  BY DEF Block
<1> QED
  BY <1>2, <1>10, <1>11, <1>12, MadeYields DEF N, e

LEMMA DeletedAnew ==
    ASSUME NEW A, NEW b, NEW C, On(A, b, C),
           NEW B \in Seq(Block), NEW p \in Block, A = B \o <<p>>,
           PrevOffset(it.offset, file) = Ends(B)
    PROVE  Yields(Anew(<<>>, FALSE, Ends(B)),
                  Among(Content(A), <<>>, Content(C)), Ids \cup {"zeros"})
<1> DEFINE q == [p EXCEPT !.last = b.last]
           none == <<>>
           M == <<p, b>>
           N == <<q>>
           f == Rewritten(none, FALSE)
<1>1. /\ A \in Seq(Block) /\ b \in Block /\ C \in Seq(Block)
      /\ (b.last <=> C = <<>>) /\ b.last \in BOOLEAN /\ Size(b) \in Nat
  BY OnParts DEF Block
<1>2. /\ q \in Block /\ q.last = b.last /\ Size(q) = Size(p) /\ Said(q) = Said(p)
      /\ IsInfo(q) <=> IsInfo(p)
  BY <1>1, Marked
<1>3. Among(A, <<b>>, C) = Among(B, M, C)
  BY <1>1, TwoOfThem
<1>4. M \in Seq(Block) /\ M # <<>> /\ TotalSize(M) = Size(p) + Size(b)
  BY <1>1, Pair
<1>5. Known(Among(B, M, C))
  BY <1>3 DEF On
<1>6. Among(A, <<b>>, C) = Among(B, <<p>>, <<b>> \o C) /\ <<b>> \o C \in Seq(Block)
  <2>1. Among(B, <<p, b>>, C) = Among(B, <<p>>, <<b>> \o C) /\ <<b>> \o C \in Seq(Block)
    BY <1>1, TwoOfThem
  <2> QED
    BY <1>3, <2>1
<1>7. (IsInfo(p) <=> B = <<>>) /\ ~p.last
  <2> DEFINE bC == <<b>> \o C
  <2>1. Known(Among(B, <<p>>, bC)) /\ bC \in Seq(Block) /\ bC # <<>>
    BY <1>1, <1>6, Empties DEF On
  <2> HIDE DEF bC
  <2> QED
    BY <2>1, KnownParts
<1>8. none \in Seq(Block) /\ Among(A, none, C) = Among(B, <<p>>, C)
  <2>1. none \in Seq(Block) /\ A \o none = A
    BY <1>1, Empties
  <2>2. Among(A, none, C) = A \o C
    BY <2>1 DEF Among
  <2> QED
    BY <2>1, <2>2 DEF Among
<1>9. ~b.last => q = p
  <2>1. ASSUME ~b.last PROVE q = p
    <3>1. p.last = FALSE /\ b.last = FALSE
      BY <1>1, <1>7, <2>1 DEF Block
    <3> QED
      BY <1>1, <3>1, SameWhenUnflagged
  <2> QED
    BY <2>1
<1>10. b.last => WithFlag(FileOf(Among(B, <<p>>, C)), Ends(B), TRUE) = FileOf(Among(B, N, C))
  <2>1. ASSUME b.last PROVE WithFlag(FileOf(Among(B, <<p>>, C)), Ends(B), TRUE) = FileOf(Among(B, N, C))
    <3>1. b.last = TRUE
      BY <1>1, <2>1
    <3> QED
      BY <1>1, <3>1, MendedFlag
  <2> QED
    BY <2>1
<1> HIDE DEF q, M
<1>11. /\ N \in Seq(Block) /\ N # <<>> /\ TotalSize(N) = Size(q) /\ Content(N) = Said(q)
       /\ Size(q) \in Nat
  BY <1>2, Single
<1>12. Shaped(N, B = <<>>, C = <<>>)
  <2>1. (B = <<>>) \in BOOLEAN /\ (C = <<>>) \in BOOLEAN
    OBVIOUS
  <2> QED
    BY <1>1, <1>2, <1>7, <2>1, ShapedOne
<1>13. Stands(Among(B, N, C), Ends(B), q)
  BY <1>1, <1>2, StandsAmong
<1>14. f = FileOf(Among(B, N, C))
  <2>1. CASE b.last
    <3>1. f = WithFlag(FileOf(Among(A, none, C)), PrevOffset(it.offset, file), TRUE)
      <4>1. none = <<>>
        OBVIOUS
      <4> HIDE DEF none, f
      <4>2. RewrittenSo(A, b, C, none)
        BY <1>8, RewrittenAs
      <4> QED
        BY <2>1, <4>1, <4>2 DEF RewrittenSo, f
    <3> QED
      BY <1>8, <1>10, <2>1, <3>1
  <2>2. CASE ~b.last
    <3>1. f = FileOf(Among(A, none, C))
      <4> HIDE DEF none, f
      <4>1. RewrittenSo(A, b, C, none)
        BY <1>8, RewrittenAs
      <4> QED
        BY <2>2, <4>1 DEF RewrittenSo, f
    <3> QED
      BY <1>8, <1>9, <2>2, <3>1
  <2> QED
    BY <2>1, <2>2
<1> HIDE DEF N, f
<1>15. TotalSize(B) + TotalSize(N) + TotalSize(C) <= MaxRoom
  <2>1. TotalSize(Among(B, M, C)) = TotalSize(B) + TotalSize(M) + TotalSize(C)
        /\ TotalSize(B) \in Nat /\ TotalSize(C) \in Nat
    BY <1>1, <1>4, AmongSize
  <2>2. TotalSize(Among(B, M, C)) <= MaxRoom
    BY <1>5 DEF Known
  <2> QED
    BY <1>1, <1>2, <1>4, <1>11, <2>1, <2>2, ClientAssumption
<1>16. Known(Among(B, N, C))
  BY <1>1, <1>4, <1>5, <1>11, <1>12, <1>15, Exchanged
<1>17. Makes(Anew(none, FALSE, Ends(B)), Among(B, N, C), q)
  <2>1. none \in Seq(Block)
    BY <1>8
  <2> HIDE DEF none
  <2>2. Unflushed(none, FALSE) \subseteq Seq(Cells)
    BY <2>1, UnflushedTyped
  <2>3. Rewritten(none, FALSE) = FileOf(Among(B, N, C))
    BY <1>14 DEF f
  <2> QED
    BY <1>13, <1>16, <2>2, <2>3, MakesAnew
<1>18. Content(Among(B, N, C)) = Among(Content(A), <<>>, Content(C))
  <2>1. Content(Among(B, N, C)) = Among(Content(B), Content(N), Content(C))
    BY <1>1, <1>11, AmongSays
  <2>2. Content(A) = Content(B) \o Said(p) /\ Content(A) \in Seq(Texts)
    BY <1>1, ContentBefore
  <2>3. Content(N) = Said(p)
    BY <1>2, <1>11
  <2>4. Content(A) \o <<>> = Content(A)
    BY <2>2, ConcatEmptySeq
  <2> DEFINE a == Content(A)
  <2>5. Among(Content(B), Said(p), Content(C)) = a \o Content(C)
    BY <2>2 DEF Among
  <2>6. Among(a, <<>>, Content(C)) = a \o Content(C)
    BY <2>4 DEF Among
  <2> QED
    BY <2>1, <2>3, <2>5, <2>6
<1>19. q.id \in Ids \cup {"zeros"}
  BY <1>2 DEF Block
<1>20. Yields(Anew(none, FALSE, Ends(B)), Among(Content(A), <<>>, Content(C)),
              Ids \cup {"zeros"})
  BY <1>17, <1>18, <1>19, MadeYields
<1> QED
  BY <1>20 DEF none

-----------------------------------------------------------------------------
(* The three plans.                                                        *)
Mark(b, flag) == [b EXCEPT !.last = flag]

LEMMA MarkIs ==
    ASSUME NEW b \in Block, NEW flag \in BOOLEAN
    PROVE  /\ Mark(b, flag) \in Block /\ Mark(b, flag).last = flag
           /\ Mark(b, flag).id = b.id
           /\ Size(Mark(b, flag)) = Size(b) /\ Said(Mark(b, flag)) = Said(b)
           /\ IsInfo(Mark(b, flag)) <=> IsInfo(b)
<1> DEFINE d == [b EXCEPT !.last = flag]
<1>1. /\ d \in Block /\ d.last = flag /\ d.id = b.id
      /\ Size(d) = Size(b) /\ Said(d) = Said(b) /\ (IsInfo(d) <=> IsInfo(b))
  BY Marked
<1>2. Mark(b, flag) = d
  BY DEF Mark
<1> HIDE DEF d
<1> QED
  BY <1>1, <1>2

LEMMA BrokenIs == ~IsPadding(Broken) /\ Broken.length = 0
BY DEF Broken, IsPadding

SetWhole(b) == Anew(<<Mark(b, it.block.last)>>, FALSE, it.offset)

LEMMA SetPlanIs ==
    ASSUME NEW b, NEW use_padding
    PROVE  SetPlan(b, use_padding) =
              LET old == it.block
                  shorter == old.length - b.length
                  c == FollowedBy
              IN  IF ~it.is_writable \/ (old.type = "streaminfo") # (b.type = "streaminfo")
                  THEN Refused
                  ELSE IF shorter = 0
                  THEN InPlace(it.offset, <<Mark(b, old.last)>>, it.offset)
                  ELSE IF shorter > 0
                  THEN IF use_padding /\ shorter >= HeaderLength
                       THEN InPlace(it.offset, <<Mark(b, FALSE), Padding(shorter - HeaderLength, old.last)>>,
                                    it.offset)
                       ELSE SetWhole(b)
                  ELSE IF ~use_padding \/ ~IsPadding(c) THEN SetWhole(b)
                  ELSE IF Size(c) = -shorter
                  THEN InPlace(it.offset, <<Mark(b, c.last)>>, it.offset)
                  ELSE IF c.length < -shorter THEN SetWhole(b)
                  ELSE InPlace(it.offset, <<Mark(b, FALSE), Padding(c.length + shorter, c.last)>>,
                               it.offset)
BY DEF SetPlan, SetWhole, Mark

LEMMA SetPlanYields ==
    ASSUME NEW A, NEW b, NEW C, On(A, b, C), NEW n \in Block, NEW use_padding \in BOOLEAN,
           TotalSize(A) + Size(b) + TotalSize(C) + Size(n) <= MaxRoom
    PROVE  Yields(SetPlan(n, use_padding), Among(Content(A), Said(n), Content(C)), {n.id})
<1> DEFINE said == Among(Content(A), Said(n), Content(C))
           bl == b.length
           nl == n.length
           shorter == bl - nl
           plan == SetPlan(n, use_padding)
           c == FollowedBy
<1>1. /\ A \in Seq(Block) /\ b \in Block /\ C \in Seq(Block)
      /\ TotalSize(A) \in Nat /\ Size(b) \in Nat /\ TotalSize(C) \in Nat
  BY OnParts
<1>9. Size(b) = 4 + bl /\ bl \in Nat
  BY OnParts
<1>2. it.block = b
  BY OnPlaces
<1>3. Size(n) \in Nat /\ b.last \in BOOLEAN
  BY <1>1, Single DEF Block
<1>10. Size(n) = 4 + nl /\ nl \in Nat
  BY Single
<1>8. MaxRoom \in Nat
  BY ClientAssumption
<1>4. /\ TRUE \in BOOLEAN /\ FALSE \in BOOLEAN
      /\ HeaderLength = 4
  BY DEF HeaderLength
<1> HIDE DEF said, plan, c, bl, nl
<1>5. CASE ~it.is_writable \/ (b.type = "streaminfo") # (n.type = "streaminfo")
  BY <1>2, <1>5, SetPlanIs DEF Yields, plan
<1>6. ASSUME IsInfo(n) <=> IsInfo(b),
             plan = IF shorter = 0
                    THEN InPlace(it.offset, <<Mark(n, b.last)>>, it.offset)
                    ELSE IF shorter > 0
                    THEN IF use_padding /\ shorter >= 4
                         THEN InPlace(it.offset, <<Mark(n, FALSE), Padding(shorter - 4, b.last)>>,
                                      it.offset)
                         ELSE SetWhole(n)
                    ELSE IF ~use_padding \/ ~IsPadding(c) THEN SetWhole(n)
                    ELSE IF Size(c) = -shorter
                    THEN InPlace(it.offset, <<Mark(n, c.last)>>, it.offset)
                    ELSE IF c.length < -shorter THEN SetWhole(n)
                    ELSE InPlace(it.offset, <<Mark(n, FALSE), Padding(c.length + shorter, c.last)>>,
                                 it.offset)
      PROVE  Yields(plan, said, {n.id})
  <2> DEFINE m == Mark(n, b.last)
             k == Mark(n, FALSE)
  <2>1. /\ m \in Block /\ m.last = b.last /\ m.id = n.id /\ Size(m) = Size(n) /\ Said(m) = Said(n)
        /\ IsInfo(m) <=> IsInfo(n)
    BY <1>3, MarkIs
  <2>2. /\ k \in Block /\ ~k.last /\ k.id = n.id /\ Size(k) = Size(n) /\ Said(k) = Said(n)
        /\ IsInfo(k) <=> IsInfo(n)
    BY <1>4, MarkIs
  <2> HIDE DEF m, k
  <2>3. CASE shorter = 0
    <3>1. Yields(InPlace(it.offset, <<m>>, it.offset),
                 Among(Content(A), Said(m), Content(C)), {m.id})
      <4>1. (IsInfo(m) <=> IsInfo(b)) /\ (m.last <=> b.last) /\ Size(m) = Size(b)
        <5>1. Size(n) = Size(b)
          BY <1>9, <1>10, <2>3
        <5> QED
          BY <1>6, <2>1, <5>1
      <4> QED
        BY <2>1, <4>1, SetOne
    <3>2. plan = InPlace(it.offset, <<m>>, it.offset)
      BY <1>6, <2>3 DEF m
    <3> QED
      BY <2>1, <3>1, <3>2 DEF said
  <2>4. CASE shorter > 0 /\ use_padding /\ shorter >= 4
    <3> DEFINE p == Padding(shorter - 4, b.last)
    <3>1. p \in Block /\ IsPadding(p) /\ p.last = b.last /\ Size(p) = shorter
      <4>1. shorter - 4 \in Nat
        BY <1>9, <1>10, <2>4
      <4>2. /\ p \in Block /\ IsPadding(p) /\ p.last = b.last /\ Size(p) = 4 + (shorter - 4)
        BY <1>3, <4>1, PaddingIs
      <4>3. 4 + (shorter - 4) = shorter
        BY <1>9, <1>10
      <4> QED
        BY <4>2, <4>3
    <3>2. plan = InPlace(it.offset, <<k, p>>, it.offset)
      BY <1>9, <1>10, <1>6, <2>4 DEF k
    <3> HIDE DEF p
    <3>3. (IsInfo(k) <=> IsInfo(b)) /\ (p.last <=> b.last) /\ Size(k) + Size(p) = Size(b)
      <4>1. Size(n) + shorter = Size(b)
        BY <1>9, <1>10
      <4> QED
        BY <1>6, <2>2, <3>1, <4>1
    <3>4. Yields(InPlace(it.offset, <<k, p>>, it.offset),
                 Among(Content(A), Said(k), Content(C)), {k.id})
      BY <2>2, <3>1, <3>3, SetSplit
    <3> QED
      BY <2>2, <3>2, <3>4 DEF said
  <2>5. CASE plan = SetWhole(n)
    <3>1. (IsInfo(m) <=> IsInfo(b)) /\ (m.last <=> b.last)
      BY <1>6, <2>1
    <3>2. TotalSize(A) + Size(m) + TotalSize(C) <= MaxRoom
      <4>1. TotalSize(A) + Size(n) + TotalSize(C) <= MaxRoom
        BY <1>1, <1>3, <1>8
      <4> QED
        BY <2>1, <4>1
    <3>3. Yields(Anew(<<m>>, FALSE, it.offset),
                 Among(Content(A), Said(m), Content(C)), {m.id})
      BY <2>1, <3>1, <3>2, SetAnew
    <3>4. plan = Anew(<<m>>, FALSE, it.offset)
      BY <1>2, <2>5 DEF SetWhole, m
    <3> QED
      BY <2>1, <3>3, <3>4 DEF said
  <2>6. CASE shorter < 0 /\ use_padding /\ IsPadding(c) /\ (Size(c) = -shorter \/ ~(c.length < -shorter))
    <3>0. PICK x \in Block, D \in Seq(Block) :
             C = <<x>> \o D /\ FollowedBy = x /\ (x.last <=> D = <<>>)
      <4>1. FollowedBy # Broken
        BY <2>6, BrokenIs DEF c
      <4> QED
        BY <4>1, Following
    <3>1. c \in Block /\ C = <<c>> \o D /\ (c.last <=> D = <<>>)
      BY <3>0 DEF c
    <3>7. IsPadding(c)
      BY <2>6
    <3> DEFINE cl == c.length
    <3>2. c.last \in BOOLEAN
      BY <3>1 DEF Block
    <3>9. Size(c) = 4 + cl /\ cl \in Nat
      BY <3>1, Single
    <3> DEFINE e == Mark(n, c.last)
    <3>3. /\ e \in Block /\ e.last = c.last /\ e.id = n.id /\ Size(e) = Size(n) /\ Said(e) = Said(n)
          /\ IsInfo(e) <=> IsInfo(n)
      BY <3>2, MarkIs
    <3>8. shorter < 0 /\ (Size(c) = -shorter \/ ~(cl < -shorter))
      BY <2>6
    <3> HIDE DEF e, cl
    <3>4. CASE Size(c) = -shorter
      <4>1. (IsInfo(e) <=> IsInfo(b)) /\ (e.last <=> c.last) /\ Size(e) = Size(b) + Size(c)
        <5>1. Size(n) = Size(b) + Size(c)
          BY <1>9, <1>10, <3>9, <3>4
        <5>2. IsInfo(n) <=> IsInfo(b)
          BY <1>6
        <5> QED
          BY <3>3, <5>1, <5>2
      <4>2. Yields(InPlace(it.offset, <<e>>, it.offset),
                   Among(Content(A), Said(e), Content(C)), {e.id})
        BY <3>7, <3>1, <3>3, <4>1, SetOver
      <4>3. plan = InPlace(it.offset, <<e>>, it.offset)
        BY <1>9, <1>10, <1>6, <2>6, <3>4 DEF e, cl
      <4> QED
        BY <3>3, <4>2, <4>3 DEF said
    <3>5. CASE Size(c) # -shorter
      <4> DEFINE p == Padding(cl + shorter, c.last)
      <4>1. p \in Block /\ IsPadding(p) /\ p.last = c.last /\ Size(p) = 4 + (cl + shorter)
        <5>1. cl + shorter \in Nat
          BY <1>9, <1>10, <3>8, <3>9, <3>5
        <5> QED
          BY <3>2, <5>1, PaddingIs
      <4>2. plan = InPlace(it.offset, <<k, p>>, it.offset)
        BY <1>9, <1>10, <1>6, <2>6, <3>9, <3>5 DEF k, cl
      <4> HIDE DEF p
      <4>3. (IsInfo(k) <=> IsInfo(b)) /\ (p.last <=> c.last) /\ Size(k) + Size(p) = Size(b) + Size(c)
        <5>1. Size(n) + (4 + (cl + shorter)) = Size(b) + Size(c)
          BY <1>9, <1>10, <3>9
        <5>2. IsInfo(n) <=> IsInfo(b)
          BY <1>6
        <5>3. Size(k) + Size(p) = Size(n) + (4 + (cl + shorter))
          BY <2>2, <4>1
        <5> QED
          BY <2>2, <4>1, <5>1, <5>2, <5>3
      <4>4. Yields(InPlace(it.offset, <<k, p>>, it.offset),
                   Among(Content(A), Said(k), Content(C)), {k.id})
        BY <2>2, <3>7, <3>1, <4>1, <4>3, SetOver
      <4> QED
        BY <2>2, <4>2, <4>4 DEF said
    <3> QED
      BY <3>4, <3>5
  <2> QED
    BY <1>9, <1>10, <1>6, <2>3, <2>4, <2>5, <2>6
<1>7. CASE ~(~it.is_writable \/ (b.type = "streaminfo") # (n.type = "streaminfo"))
  <2>1. IsInfo(n) <=> IsInfo(b)
    BY <1>7 DEF IsInfo
  <2> QED
    BY <1>2, <1>4, <1>6, <1>7, <2>1, SetPlanIs DEF plan, c, said, bl, nl
<1> QED
  BY <1>5, <1>7 DEF plan, said

LEMMA InsertPlanIs ==
    ASSUME NEW b, NEW use_padding
    PROVE  InsertPlan(b, use_padding) =
              LET c == FollowedBy
                  next == NextOffset(it.offset, file)
              IN  IF ~it.is_writable \/ b.type = "streaminfo" THEN Refused
                  ELSE IF \/ ~use_padding \/ ~IsPadding(c)
                          \/ c.length # b.length /\ c.length < Size(b)
                  THEN Anew(<<Mark(b, it.block.last)>>, TRUE, next)
                  ELSE IF c.length = b.length
                  THEN InPlace(next, <<Mark(b, c.last)>>, next)
                  ELSE InPlace(next, <<Mark(b, FALSE), Padding(c.length - Size(b), c.last)>>, next)
BY DEF InsertPlan, Mark

LEMMA InsertPlanYields ==
    ASSUME NEW A, NEW b, NEW C, On(A, b, C), NEW n \in Block, NEW use_padding \in BOOLEAN,
           TotalSize(A) + Size(b) + TotalSize(C) + Size(n) <= MaxRoom
    PROVE  Yields(InsertPlan(n, use_padding),
                  Among(Content(A), Said(b) \o Said(n), Content(C)), {n.id})
<1> DEFINE bn == Said(b) \o Said(n)
           said == Among(Content(A), bn, Content(C))
           nl == n.length
           plan == InsertPlan(n, use_padding)
           c == FollowedBy
           cl == c.length
           next == NextOffset(it.offset, file)
<1>1. /\ A \in Seq(Block) /\ b \in Block /\ C \in Seq(Block)
      /\ TotalSize(A) \in Nat /\ Size(b) \in Nat /\ TotalSize(C) \in Nat
  BY OnParts
<1>2. it.block = b
  BY OnPlaces
<1>3. Size(n) \in Nat /\ b.last \in BOOLEAN
  BY <1>1, Single DEF Block
<1>4. Size(n) = 4 + nl /\ nl \in Nat
  BY Single
<1>5. TRUE \in BOOLEAN /\ FALSE \in BOOLEAN
  OBVIOUS
<1>6. MaxRoom \in Nat
  BY ClientAssumption
<1> HIDE DEF bn, said, plan, c, next, nl, cl
<1>7. CASE ~it.is_writable \/ n.type = "streaminfo"
  BY <1>7, InsertPlanIs DEF Yields, plan
<1>8. ASSUME ~IsInfo(n),
             plan = IF \/ ~use_padding \/ ~IsPadding(c)
                       \/ cl # nl /\ cl < Size(n)
                    THEN Anew(<<Mark(n, b.last)>>, TRUE, next)
                    ELSE IF cl = nl
                    THEN InPlace(next, <<Mark(n, c.last)>>, next)
                    ELSE InPlace(next, <<Mark(n, FALSE), Padding(cl - Size(n), c.last)>>, next)
      PROVE  Yields(plan, said, {n.id})
  <2>1. CASE \/ ~use_padding \/ ~IsPadding(c)
             \/ cl # nl /\ cl < Size(n)
    <3> DEFINE m == Mark(n, b.last)
    <3>1. /\ m \in Block /\ m.last = b.last /\ m.id = n.id /\ Size(m) = Size(n) /\ Said(m) = Said(n)
          /\ IsInfo(m) <=> IsInfo(n)
      BY <1>3, MarkIs
    <3>2. plan = Anew(<<m>>, TRUE, next)
      BY <1>8, <2>1
    <3> HIDE DEF m
    <3>3. TotalSize(A) + Size(b) + Size(m) + TotalSize(C) <= MaxRoom
      <4>1. TotalSize(A) + Size(b) + Size(n) + TotalSize(C) <= MaxRoom
        BY <1>1, <1>3, <1>6
      <4> QED
        BY <3>1, <4>1
    <3>4. ~IsInfo(m) /\ (m.last <=> b.last)
      BY <1>8, <3>1
    <3>5. Yields(Anew(<<m>>, TRUE, NextOffset(it.offset, file)),
                 Among(Content(A), Said(b) \o Said(m), Content(C)), {m.id})
      BY <3>1, <3>3, <3>4, InsertAnew
    <3>6. Said(b) \o Said(m) = bn
      BY <3>1 DEF bn
    <3> QED
      BY <3>1, <3>2, <3>5, <3>6 DEF said, next
  <2>2. CASE use_padding /\ IsPadding(c) /\ ~(cl # nl /\ cl < Size(n))
    <3>1. PICK x \in Block, D \in Seq(Block) :
             C = <<x>> \o D /\ FollowedBy = x /\ (x.last <=> D = <<>>)
      <4>1. FollowedBy # Broken
        BY <2>2, BrokenIs DEF c
      <4> QED
        BY <4>1, Following
    <3>2. c \in Block /\ C = <<c>> \o D /\ (c.last <=> D = <<>>)
      BY <3>1 DEF c
    <3>3. IsPadding(c) /\ ~(cl # nl /\ cl < Size(n))
      BY <2>2
    <3>4. c.last \in BOOLEAN
      BY <3>2 DEF Block
    <3>5. Size(c) = 4 + cl /\ cl \in Nat
      BY <3>2, Single DEF cl
    <3>6. next = NextOffset(it.offset, file)
      BY DEF next
    <3> DEFINE e == Mark(n, c.last)
               k == Mark(n, FALSE)
               p == Padding(cl - Size(n), c.last)
    <3>7. /\ e \in Block /\ e.last = c.last /\ e.id = n.id /\ Size(e) = Size(n) /\ Said(e) = Said(n)
          /\ IsInfo(e) <=> IsInfo(n)
      BY <3>4, MarkIs
    <3>8. /\ k \in Block /\ ~k.last /\ k.id = n.id /\ Size(k) = Size(n) /\ Said(k) = Said(n)
          /\ IsInfo(k) <=> IsInfo(n)
      BY <1>5, MarkIs
    <3>9. plan = IF cl = nl THEN InPlace(next, <<e>>, next) ELSE InPlace(next, <<k, p>>, next)
      BY <1>8, <2>2
    <3> HIDE DEF e, k
    <3>10. CASE cl = nl
      <4>1. ~IsInfo(e) /\ (e.last <=> c.last) /\ Size(e) = Size(c)
        <5>1. Size(n) = Size(c)
          BY <1>4, <3>5, <3>10
        <5> QED
          BY <1>8, <3>7, <5>1
      <4>2. Yields(InPlace(next, <<e>>, next),
                   Among(Content(A), Said(b) \o Said(e), Content(C)), {e.id})
        BY <3>2, <3>3, <3>6, <3>7, <4>1, InsertOver
      <4>3. Said(b) \o Said(e) = bn
        BY <3>7 DEF bn
      <4> QED
        BY <3>7, <3>9, <3>10, <4>2, <4>3 DEF said
    <3>11. CASE cl # nl
      <4>1. p \in Block /\ IsPadding(p) /\ p.last = c.last /\ Size(p) = 4 + (cl - Size(n))
        <5>1. cl - Size(n) \in Nat
          BY <1>3, <3>3, <3>5, <3>11
        <5> QED
          BY <3>4, <5>1, PaddingIs
      <4> HIDE DEF p
      <4>2. ~IsInfo(k) /\ (p.last <=> c.last) /\ Size(k) + Size(p) = Size(c)
        <5>1. Size(n) + (4 + (cl - Size(n))) = Size(c)
          BY <1>3, <3>5
        <5> QED
          BY <1>8, <3>8, <4>1, <5>1
      <4>3. Yields(InPlace(next, <<k, p>>, next),
                   Among(Content(A), Said(b) \o Said(k), Content(C)), {k.id})
        BY <3>2, <3>3, <3>6, <3>8, <4>1, <4>2, InsertOver
      <4>4. Said(b) \o Said(k) = bn
        BY <3>8 DEF bn
      <4> QED
        BY <3>8, <3>9, <3>11, <4>3, <4>4 DEF said
    <3> QED
      BY <3>10, <3>11
  <2> QED
    BY <2>1, <2>2
<1>9. CASE ~(~it.is_writable \/ n.type = "streaminfo")
  <2>1. ~IsInfo(n)
    BY <1>9 DEF IsInfo
  <2>2. Yields(plan, said, {n.id})
    BY <1>2, <1>8, <1>9, <2>1, InsertPlanIs DEF plan, c, cl, nl, next
  <2> QED
    BY <2>2 DEF plan, said, bn
<1> QED
  BY <1>7, <1>9 DEF plan, said, bn

LEMMA DeletePlanYields ==
    ASSUME NEW A, NEW b, NEW C, On(A, b, C), NEW use_padding \in BOOLEAN
    PROVE  Yields(DeletePlan(use_padding), Among(Content(A), <<>>, Content(C)),
                  Ids \cup {"zeros"})
<1> DEFINE plan == DeletePlan(use_padding)
<1>1. /\ A \in Seq(Block) /\ b \in Block /\ C \in Seq(Block)
      /\ (IsInfo(b) <=> A = <<>>)
  BY OnParts
<1>2. it.block = b /\ it.offset = Ends(A) /\ Short(Among(A, <<b>>, C))
  BY OnPlaces
<1>3. CASE IsInfo(b) \/ (use_padding /\ ~it.is_writable)
  BY <1>2, <1>3 DEF DeletePlan, Yields, IsInfo
<1>4. CASE ~IsInfo(b) /\ ~(use_padding /\ ~it.is_writable)
  <2>1. PICK B \in Seq(Block), p \in Block : A = B \o <<p>>
    BY <1>1, <1>4, Tailed
  <2>2. PrevOffset(it.offset, file) = Ends(B)
    <3> DEFINE bs == ((B \o <<p>>) \o <<b>>) \o C
    <3>1. bs = Among(A, <<b>>, C)
      BY <2>1 DEF Among
    <3>2. file = FileOf(Among(A, <<b>>, C))
      BY DEF On
    <3>3. Short(bs) /\ file = FileOf(bs)
      BY <1>2, <3>1, <3>2
    <3> HIDE DEF bs
    <3>4. PrevOffset(Ends(B \o <<p>>), FileOf(bs)) = Ends(B)
      BY <1>1, <3>3, PrevStanding DEF bs
    <3> QED
      BY <1>2, <2>1, <3>3, <3>4
  <2>3. CASE use_padding
    <3>1. plan = InPlace(it.offset, <<Padding(b.length, b.last)>>, Ends(B))
      BY <1>2, <1>4, <2>2, <2>3 DEF DeletePlan, IsInfo
    <3> QED
      BY <2>1, <3>1, DeletedInPlace
  <2>4. CASE ~use_padding
    <3>1. plan = Anew(<<>>, FALSE, Ends(B))
      BY <1>2, <1>4, <2>2, <2>4 DEF DeletePlan, IsInfo
    <3> QED
      BY <2>1, <2>2, <3>1, DeletedAnew
  <2> QED
    BY <2>3, <2>4
<1> QED
  BY <1>3, <1>4

-----------------------------------------------------------------------------
(* What an edit asks for.                                                  *)
LEMMA CutBehind ==
    ASSUME NEW A \in Seq(Block), NEW b \in Block, NEW C \in Seq(Block)
    PROVE  /\ A \o <<b>> \in Seq(Block)
           /\ Copied(FileOf(Among(A, <<b>>, C)), 0, Ends(A \o <<b>>)) \o Audio = FileOf(A \o <<b>>)
<1> DEFINE P == A \o <<b>>
           none == <<>>
           f == FileOf(Among(A, <<b>>, C))
<1>1. P \in Seq(Block) /\ none \in Seq(Block)
  BY Empties
<1>2. Among(A, <<b>>, C) = Among(P, none, C)
  <2>1. P \o none = P
    BY <1>1, Empties
  <2> QED
    BY <2>1 DEF Among
<1> HIDE DEF P, none
<1>3. Laid(f, Before(P), Image(none), After(C)) /\ Len(Before(P)) = Ends(P)
  BY <1>1, <1>2, FileLaid
<1> HIDE DEF f
<1>4. Copied(f, 0, Ends(P)) = Before(P)
  <2> DEFINE s == Before(P)
             t == Image(none)
             z == After(C)
  <2>1. Laid(f, s, t, z) /\ Len(s) = Ends(P)
    BY <1>3
  <2> HIDE DEF s, t, z
  <2>2. Copied(f, 0, Len(s)) = s
    BY <2>1, Cuts DEF Laid
  <2> QED
    BY <2>1, <2>2 DEF s
<1>5. Before(P) \o Audio = FileOf(P)
  BY DEF Before, FileOf
<1> QED
  BY <1>1, <1>4, <1>5 DEF P, f

LEMMA ReadUpTo ==
    ASSUME NEW A \in Seq(Block), NEW b \in Block, NEW C \in Seq(Block), Known(Among(A, <<b>>, C))
    PROVE  Content(Blocks(FileOf(A \o <<b>>))) = Content(A \o <<b>>)
<1> DEFINE P == A \o <<b>>
           bs == P \o C
<1>1. P \in Seq(Block) /\ P # <<>>
  BY Empties
<1>2. Known(bs)
  BY DEF Among
<1>3. b.last <=> C = <<>>
  BY KnownParts
<1>4. CASE C = <<>>
  <2>1. bs = P
    BY <1>1, <1>4, Empties
  <2> HIDE DEF P, bs
  <2>2. Blocks(FileOf(P)) = P
    BY <1>2, <2>1, KnownRead
  <2> QED
    BY <2>2 DEF P
<1>5. CASE C # <<>>
  <2> HIDE DEF P
  <2>1. /\ Len(bs) = Len(P) + Len(C) /\ Len(P) \in Nat /\ Len(C) \in Nat
        /\ \A j \in 1..Len(P) : bs[j] = P[j]
    BY <1>1, Joined
  <2>2. Shaped(bs, TRUE, TRUE) /\ Short(bs)
    <3>1. bs \in Seq(Block)
      BY <1>1, Regrouped
    <3> HIDE DEF bs
    <3> QED
      BY <1>2, <3>1, WellShaped, KnownShort DEF Known
  <2>3. Shaped(P, TRUE, FALSE)
    <3>1. Shaped(P, TRUE, TRUE /\ C = <<>>)
      BY <1>1, <2>2, ShapedJoined
    <3>2. (TRUE /\ C = <<>>) = FALSE
      BY <1>5
    <3> QED
      BY <3>1, <3>2
  <2> HIDE DEF bs
  <2>4. Short(P)
    BY <2>1, <2>2 DEF Short
  <2>5. \A j \in 1..Len(P) : ~P[j].last
    BY <2>3 DEF Shaped
  <2>6. Blocks(FileOf(P)) = P \o <<Broken>>
    BY <1>1, <2>4, <2>5, ReadOff
  <2> DEFINE x == <<Broken>>
  <2>7. x \in Seq(Entry) /\ Content(x) = <<>>
    <3>1. Broken \in Entry /\ Said(Broken) = <<>>
      BY DEF Entry, Said, Broken
    <3> QED
      BY <3>1, ContentOne, OneIs
  <2> HIDE DEF x
  <2>8. P \in Seq(Entry) /\ Content(P) \in Seq(Texts)
    BY <1>1, BlocksAreEntries, ContentType
  <2>9. Content(P \o x) = Content(P) \o Content(x)
    BY <2>7, <2>8, ContentJoined
  <2>10. Content(P) \o <<>> = Content(P)
    BY <2>8, ConcatEmptySeq
  <2>11. Content(P \o x) = Content(P)
    BY <2>7, <2>9, <2>10
  <2> QED
    BY <2>6, <2>11 DEF P, x
<1> QED
  BY <1>4, <1>5

LEMMA PositionIs ==
    ASSUME NEW A, NEW b, NEW C, On(A, b, C)
    PROVE  Position = Len(Content(A) \o Said(b))
<1> DEFINE P == A \o <<b>>
<1>1. A \in Seq(Block) /\ b \in Block /\ C \in Seq(Block)
  BY OnParts
<1>2. NextOffset(it.offset, file) = Ends(P)
  BY OnPlaces
<1>3. Known(Among(A, <<b>>, C)) /\ file = FileOf(Among(A, <<b>>, C))
  BY DEF On
<1>4. Copied(file, 0, Ends(P)) \o Audio = FileOf(P)
  BY <1>1, <1>3, CutBehind
<1>5. Content(Blocks(FileOf(P))) = Content(P)
  BY <1>1, <1>3, ReadUpTo
<1>6. Content(P) = Content(A) \o Said(b)
  BY <1>1, ContentBefore
<1> HIDE DEF P
<1>7. Position = Len(Content(P))
  BY <1>2, <1>4, <1>5 DEF Position
<1> QED
  BY <1>6, <1>7

(* A list of texts in three parts, cut around the middle one.              *)
Both(xy, x, y) == xy = x \o y

LEMMA CutAround ==
    ASSUME NEW x \in Seq(Texts), NEW y \in Seq(Texts), NEW z \in Seq(Texts),
           NEW xy, Both(xy, x, y), NEW f, f = Among(x, y, z)
    PROVE  /\ SubSeq(f, 1, Len(x)) = x
           /\ SubSeq(f, 1, Len(xy)) = xy
           /\ SubSeq(f, Len(xy) + 1, Len(f)) = z
           /\ Len(xy) = Len(x) + Len(y) /\ Len(x) \in Nat /\ Len(y) \in Nat
           /\ xy \in Seq(Texts)
<1> DEFINE yz == y \o z
<1> USE DEF Both
<1>1. xy \in Seq(Texts) /\ Len(xy) = Len(x) + Len(y) /\ Len(x) \in Nat /\ Len(y) \in Nat
  BY Joined
<1>2. yz \in Seq(Texts)
  BY Joined
<1>3. f = xy \o z /\ f = x \o yz
  BY ConcatAssociative DEF Among
<1> HIDE DEF yz
<1>4. SubSeq(x \o yz, 1, Len(x)) = x
  BY <1>2, PartsOf
<1>5. SubSeq(xy \o z, 1, Len(xy)) = xy /\ SubSeq(xy \o z, Len(xy) + 1, Len(xy) + Len(z)) = z
  BY <1>1, PartsOf
<1>6. Len(xy \o z) = Len(xy) + Len(z)
  BY <1>1, Joined
<1> QED
  BY <1>1, <1>3, <1>4, <1>5, <1>6

(* What a call of level 1 should make the file say.                        *)
Meant(op, A, b, C, new) ==
    IF op = "insert" THEN Among(Content(A), Said(b) \o new, Content(C))
    ELSE Among(Content(A), new, Content(C))

LEMMA AskedIs ==
    ASSUME NEW A, NEW b, NEW C, On(A, b, C), NEW op, NEW n \in Entry
    PROVE  Asked(op, n) = Meant(op, A, b, C, IF op = "delete" THEN <<>> ELSE Said(n))
<1> DEFINE x == Content(A)
           y == Said(b)
           z == Content(C)
           new == IF op = "delete" THEN <<>> ELSE Said(n)
           old == Content(Blocks(file))
           kept == IF op = "insert" \/ IsPadding(it.block) THEN Position ELSE Position - 1
<1>1. A \in Seq(Block) /\ b \in Block /\ C \in Seq(Block)
  BY OnParts
<1>2. x \in Seq(Texts) /\ y \in Seq(Texts) /\ z \in Seq(Texts)
  BY <1>1, ContentBefore
<1>3. it.block = b /\ Blocks(file) = Among(A, <<b>>, C)
  <2>1. it.block = b
    BY OnPlaces
  <2>2. Blocks(file) = Among(A, <<b>>, C)
    <3> DEFINE bs == Among(A, <<b>>, C)
    <3>1. Known(bs) /\ file = FileOf(bs)
      BY DEF On
    <3> HIDE DEF bs
    <3>2. Blocks(file) = bs
      BY <3>1, KnownRead
    <3> QED
      BY <3>2 DEF bs
  <2> QED
    BY <2>1, <2>2
<1>4. old = Among(x, y, z)
  <2> DEFINE M == <<b>>
  <2>1. M \in Seq(Block) /\ Content(M) = y
    BY <1>1, Single
  <2> HIDE DEF M
  <2>2. Content(Among(A, M, C)) = Among(x, Content(M), z)
    BY <1>1, <2>1, AmongSays
  <2> QED
    BY <1>3, <2>1, <2>2 DEF M
<1>5. Position = Len(x \o y)
  BY PositionIs
<1>6. IF IsPadding(b) THEN y = <<>> ELSE Len(y) = 1
  <2>1. b.type # "none"
    BY <1>1 DEF Block, Types
  <2> QED
    BY <2>1 DEF IsPadding, Said
<1>7. new \in Seq(Texts)
  <2>1. Said(n) \in Seq(Texts)
    BY ContentTyped
  <2> QED
    BY <2>1
<1> HIDE DEF x, y, z, new, old
<1> DEFINE xy == x \o y
<1>8. /\ SubSeq(old, 1, Len(x)) = x /\ SubSeq(old, 1, Len(xy)) = xy
      /\ SubSeq(old, Position + 1, Len(old)) = z
      /\ Len(xy) = Len(x) + Len(y) /\ Len(x) \in Nat
      /\ xy \in Seq(Texts)
  <2>1. Both(xy, x, y)
    BY DEF Both
  <2> HIDE DEF xy
  <2>2. Position = Len(xy)
    BY <1>5 DEF xy
  <2>3. /\ SubSeq(old, 1, Len(x)) = x /\ SubSeq(old, 1, Len(xy)) = xy
        /\ SubSeq(old, Len(xy) + 1, Len(old)) = z
    BY <1>2, <1>4, <2>1, CutAround, SMTT(30)
  <2>4. Len(xy) = Len(x) + Len(y) /\ Len(x) \in Nat /\ xy \in Seq(Texts)
    BY <1>2, <1>4, <2>1, CutAround
  <2> QED
    BY <2>2, <2>3, <2>4
<1>9. IsPadding(b) => xy = x
  <2>1. x \o <<>> = x
    BY <1>2, ConcatEmptySeq
  <2> QED
    BY <1>6, <2>1
<1> HIDE DEF xy
<1>10. SubSeq(old, 1, kept) = IF op = "insert" THEN xy ELSE x
  <2>1. Position = Len(xy)
    BY <1>5 DEF xy
  <2>2. CASE op = "insert"
    BY <1>8, <2>1, <2>2
  <2>3. CASE op # "insert" /\ IsPadding(b)
    BY <1>3, <1>8, <1>9, <2>1, <2>3
  <2>4. CASE op # "insert" /\ ~IsPadding(b)
    <3>1. kept = Len(x)
      <4>1. Len(xy) = Len(x) + 1 /\ Len(x) \in Nat
        <5>1. Len(xy) = Len(x) + Len(y) /\ Len(x) \in Nat
          BY <1>8
        <5>2. Len(y) = 1
          BY <1>6, <2>4
        <5> QED
          BY <5>1, <5>2
      <4>2. Len(xy) - 1 = Len(x)
        BY <4>1
      <4>3. kept = Position - 1
        BY <1>3, <2>4
      <4> QED
        BY <2>1, <4>2, <4>3
    <3> HIDE DEF kept
    <3> QED
      BY <1>8, <2>4, <3>1
  <2> QED
    BY <2>2, <2>3, <2>4
<1>11. Asked(op, n) = (SubSeq(old, 1, kept) \o new) \o z
  BY <1>8 DEF Asked, new, old
<1> HIDE DEF kept
<1>12. CASE op = "insert"
  <2>1. Asked(op, n) = (xy \o new) \o z
    BY <1>10, <1>11, <1>12
  <2>2. (xy \o new) \o z = Among(xy, new, z)
    BY DEF Among
  <2>3. Among(x \o y, new, z) = Among(x, y \o new, z)
    BY <1>2, <1>7, TextsRegrouped
  <2>4. Asked(op, n) = Among(x, y \o new, z)
    BY <2>1, <2>2, <2>3 DEF xy
  <2>5. Meant(op, A, b, C, new) = Among(x, y \o new, z)
    BY <1>12 DEF Meant, x, y, z
  <2> QED
    BY <2>4, <2>5 DEF new
<1>13. CASE op # "insert"
  <2>1. Asked(op, n) = (x \o new) \o z
    BY <1>10, <1>11, <1>13
  <2>2. (x \o new) \o z = Among(x, new, z)
    BY DEF Among
  <2>3. Meant(op, A, b, C, new) = Among(x, new, z)
    BY <1>13 DEF Meant, x, z
  <2>4. Asked(op, n) = Meant(op, A, b, C, new)
    BY <2>1, <2>2, <2>3
  <2> QED
    BY <2>4 DEF new
<1> QED
  BY <1>12, <1>13

-----------------------------------------------------------------------------
(* The invariant.  A file that no write has torn is that of a list of      *)
(* blocks, an iterator of level 1 stands on one of them, and a chain knows *)
(* how much room they take.                                                *)
Iterators ==
    [open : BOOLEAN, usable : BOOLEAN, is_writable : BOOLEAN,
     stream : {"none", "open", "closed", "aborted"}, offset : Nat, block : Entry]

Torn == {"no", "in place", "cut"}

TornInv == torn = "in place" => SurroundingsKept

TypeOK ==
    /\ it \in Iterators
    /\ torn \in Torn
    /\ chain # NoChain =>
          chain \in [mode : {"file", "callbacks"}, nodes : Seq(Block),
                     initial_length : Nat, last_offset : Nat]
    /\ current \in 0..Len(chain.nodes)

FileInv ==
    torn = "no" => \E bs : /\ Known(bs) /\ file = FileOf(bs)
                           /\ it.usable => Stands(bs, it.offset, it.block)

OneAtATime ==
    /\ it.usable => it.open
    /\ it.open => chain = NoChain

ChainInv ==
    chain # NoChain =>
        /\ Known(chain.nodes)
        /\ torn = "no" => /\ chain.initial_length = TotalSize(Blocks(file))
                          /\ chain.last_offset = FirstOffset + chain.initial_length

IInv == TypeOK /\ FileInv /\ TornInv /\ OneAtATime /\ ChainInv

-----------------------------------------------------------------------------
(* Doing what a plan says.                                                 *)
LEMMA StandsRead ==
    ASSUME NEW bs, Known(bs), NEW offset, NEW b, Stands(bs, offset, b)
    PROVE  HeaderAt(FileOf(bs), offset) = b /\ b \in Entry /\ offset \in Nat
<1>1. PICK A \in Seq(Block), C \in Seq(Block) : bs = (A \o <<b>>) \o C /\ offset = Ends(A)
  BY DEF Stands
<1>2. Short(bs) /\ b \in Block
  BY KnownShort DEF Stands
<1>3. HeaderAt(FileOf((A \o <<b>>) \o C), Ends(A)) = b
  BY <1>1, <1>2, Standing
<1>4. Ends(A) \in Nat
  BY Around
<1> QED
  BY <1>1, <1>2, <1>3, <1>4 DEF Entry

LEMMA IsOn ==
    ASSUME FileInv, torn = "no", it.usable
    PROVE  \E A, b, C : On(A, b, C)
<1>1. PICK bs : Known(bs) /\ file = FileOf(bs) /\ Stands(bs, it.offset, it.block)
  BY DEF FileInv
<1>2. PICK A \in Seq(Block), C \in Seq(Block) :
         bs = (A \o <<it.block>>) \o C /\ it.offset = Ends(A) /\ it.block \in Block
  BY <1>1 DEF Stands
<1>3. bs = Among(A, <<it.block>>, C)
  BY <1>2 DEF Among
<1>4. On(A, it.block, C)
  BY <1>1, <1>2, <1>3 DEF On
<1> QED
  BY <1>4

(* What a call of level 1 leaves: a file that is known or torn, and an     *)
(* iterator that stands on one of its blocks or can only be deleted.       *)
StandsNow(bs) == it'.usable => Stands(bs, it'.offset, it'.block)

Left ==
    /\ it' \in Iterators
    /\ torn' \in Torn /\ (it'.usable => it'.open)
    /\ torn' = "no" => \E bs : Known(bs) /\ file' = FileOf(bs) /\ StandsNow(bs)
    /\ TornInv'

(* What the file says then.                                                *)
DoneAsMeant(said, ids) ==
    torn' = "no" => IF call'.ok THEN Content(Blocks(file')) = said /\ it'.block.id \in ids
                    ELSE Content(Blocks(file')) \in {said, Content(Blocks(file))}

LEMMA AtIs ==
    ASSUME NEW writable \in BOOLEAN, NEW bs, Known(bs), NEW offset, NEW b, Stands(bs, offset, b)
    PROVE  LET i == At(writable, FileOf(bs), offset)
           IN  /\ i \in Iterators
               /\ i.usable /\ i.open /\ i.offset = offset /\ i.block = b
<1>1. HeaderAt(FileOf(bs), offset) = b /\ b \in Entry /\ offset \in Nat
  BY StandsRead
<1> QED
  BY <1>1 DEF At, Iterators

LEMMA FailsIs ==
    ASSUME NEW stream \in {"none", "open", "closed"}, Fails(stream)
    PROVE  /\ it' \in Iterators
           /\ ~it'.usable /\ it'.open
<1>1. FirstOffset \in Nat
  BY FileAssumption DEF FirstOffset
<1>2. it' = [open |-> TRUE, usable |-> FALSE, is_writable |-> FALSE, stream |-> stream,
             offset |-> FirstOffset, block |-> Broken]
  BY DEF Fails, Closed
<1>3. Broken \in Entry
  BY DEF Entry
<1> QED
  BY <1>1, <1>2, <1>3 DEF Iterators

(* What a write in place that is broken off leaves.                        *)
LEMMA BrokenOffKeeps ==
    ASSUME NEW bs, Known(bs), file = FileOf(bs),
           NEW offset, NEW blocks, Room(offset, Image(blocks)), BrokenOff(offset, blocks)
    PROVE  torn' = "in place" /\ TornInv'
<1> DEFINE cells == Image(blocks)
<1>1. PICK k \in 0..(Len(cells) - 1) : file' = Overwritten(file, offset, SubSeq(cells, 1, k))
  BY DEF BrokenOff
<1>2. /\ offset \in Nat /\ FirstOffset <= offset
      /\ cells \in Seq(Cells) /\ offset + Len(cells) + Len(Audio) <= Len(file)
  BY DEF Room
<1> HIDE DEF cells
<1> DEFINE v == SubSeq(cells, 1, k)
<1>3. v \in Seq(Cells) /\ Len(v) = k
  BY <1>2, BeginningTyped
<1> HIDE DEF v
<1>4. file \in Seq(Cells) /\ FirstOffset \in 0..offset /\ Len(Audio) \in Nat
  <2>1. FirstOffset \in Nat /\ Len(Audio) \in Nat
    BY KnownRead, Around DEF FirstOffset, Known
  <2> QED
    BY <1>2, <2>1, KnownRead
<1>5. offset + Len(v) + Len(Audio) <= Len(file)
  BY <1>2, <1>3, <1>4
<1>6. /\ Copied(file', 0, FirstOffset) = Copied(file, 0, FirstOffset)
      /\ Copied(file', Len(file') - Len(Audio), Len(file'))
            = Copied(file, Len(file) - Len(Audio), Len(file))
  <2>1. file' = Overwritten(file, offset, v)
    BY <1>1 DEF v
  <2> QED
    BY <1>2, <1>3, <1>4, <1>5, <2>1, KeptAround
<1>7. SurroundingsKept'
  BY <1>6, FileAround DEF SurroundingsKept
<1> QED
  BY <1>7 DEF BrokenOff, TornInv

LEMMA PlanDone ==
    ASSUME TypeOK, NEW A, NEW b, NEW C, On(A, b, C), torn = "no", it.usable, it.open,
           NEW plan, NEW said, NEW ids, Yields(plan, said, ids),
           NEW op, NEW n, Doing(op, n, plan)
    PROVE  /\ Left /\ DoneAsMeant(said, ids)
           /\ call'.op = op /\ call'.block = n
<1> DEFINE old == Among(A, <<b>>, C)
<1>1. Known(old) /\ file = FileOf(old)
  BY DEF On
<1>2. Stands(old, it.offset, it.block)
  BY StandsAmong DEF On
<1> HIDE DEF old
<1>3. it \in Iterators
  BY DEF TypeOK
<1>4. call'.op = op /\ call'.block = n
  BY DEF Doing, Called
<1>5. Blocks(file) = old
  BY <1>1, KnownRead
<1>6. CASE Refusing(plan) /\ Called(op, n, FALSE)
  <2>1. file' = file /\ it' = it /\ torn' = torn /\ call'.ok = FALSE
    BY <1>6 DEF Refusing, Called, files
  <2>2. StandsNow(old)
    BY <1>2, <2>1 DEF StandsNow
  <2>3. it'.open /\ it' \in Iterators /\ torn' \in Torn
    BY <1>3, <2>1 DEF TypeOK
  <2>4. Left
    BY <1>1, <2>1, <2>2, <2>3 DEF Left, TornInv
  <2>5. DoneAsMeant(said, ids)
    BY <2>1 DEF DoneAsMeant
  <2> QED
    BY <1>4, <2>4, <2>5
<1>7. ASSUME NEW bs, NEW d, Known(bs), Stands(bs, plan.goal, d), Content(bs) = said, d.id \in ids,
             file' = FileOf(bs), it' = At(it.is_writable, file', plan.goal), torn' = torn,
             call'.ok = TRUE
      PROVE  Left /\ DoneAsMeant(said, ids)
  <2>1. it.is_writable \in BOOLEAN
    BY <1>3 DEF Iterators
  <2> DEFINE i == At(it.is_writable, FileOf(bs), plan.goal)
  <2>2. /\ i \in Iterators
        /\ i.usable /\ i.open /\ i.offset = plan.goal /\ i.block = d
    BY <1>7, <2>1, AtIs
  <2>3. it' = i
    BY <1>7
  <2> HIDE DEF i
  <2>4. Left
    <3>1. StandsNow(bs)
      BY <1>7, <2>2, <2>3 DEF StandsNow
    <3>2. it'.open /\ it' \in Iterators /\ torn' \in Torn
      BY <1>7, <2>2, <2>3 DEF TypeOK
    <3> QED
      BY <1>7, <3>1, <3>2 DEF Left, TornInv
  <2>5. Blocks(file') = bs
    BY <1>7, KnownRead
  <2>6. DoneAsMeant(said, ids)
    BY <1>7, <2>2, <2>3, <2>5 DEF DoneAsMeant
  <2> QED
    BY <2>4, <2>6
<1>8. ASSUME NEW bs, Known(bs), file' = FileOf(bs), Content(bs) \in {said, Content(Blocks(file))},
             NEW stream \in {"none", "open", "closed"}, Fails(stream), torn' = torn, call'.ok = FALSE
      PROVE  Left /\ DoneAsMeant(said, ids)
  <2>1. /\ it' \in Iterators
        /\ ~it'.usable /\ it'.open
    BY <1>8, FailsIs
  <2>2. Left
    <3>1. StandsNow(bs)
      BY <2>1 DEF StandsNow
    <3>2. torn' \in Torn
      BY <1>8 DEF TypeOK
    <3> QED
      BY <1>8, <2>1, <3>1, <3>2 DEF Left, TornInv
  <2>3. Blocks(file') = bs
    BY <1>8, KnownRead
  <2> QED
    BY <1>8, <2>2, <2>3 DEF DoneAsMeant
<1>9. Content(old) \in {said, Content(Blocks(file))}
  BY <1>5
<1>10. CASE ~(Refusing(plan) /\ Called(op, n, FALSE))
  <2>1. PICK bs, d : Makes(plan, bs, d) /\ Content(bs) = said /\ d.id \in ids
    <3>1. plan.way # "refused"
      BY <1>10 DEF Doing, Refusing, WritingInPlace, BreakingOff, Moving, MovingCut, NotMoving
    <3>2. plan # Refused
      BY <3>1 DEF Refused
    <3> QED
      BY <3>2 DEF Yields
  <2>2. Known(bs) /\ Stands(bs, plan.goal, d)
    BY <2>1 DEF Makes
  <2>3. CASE WritingInPlace(plan) /\ Called(op, n, TRUE)
    <3>1. file' = FileOf(bs)
      BY <2>1, <2>3 DEF WritingInPlace, Makes
    <3>2. it' = At(it.is_writable, file', plan.goal) /\ torn' = torn /\ call'.ok = TRUE
      BY <2>3 DEF WritingInPlace, Called
    <3> QED
      BY <1>4, <1>7, <2>1, <2>2, <3>1, <3>2
  <2>4. CASE Moving(plan) /\ Called(op, n, TRUE)
    <3>1. file' = FileOf(bs)
      BY <2>1, <2>4 DEF Moving, Makes
    <3>2. it' = At(it.is_writable, file', plan.goal) /\ torn' = torn /\ call'.ok = TRUE
      BY <2>4 DEF Moving, Called
    <3> QED
      BY <1>4, <1>7, <2>1, <2>2, <3>1, <3>2
  <2>5. CASE NotMoving(plan) /\ Called(op, n, FALSE)
    <3>1. torn' = torn /\ call'.ok = FALSE /\ plan.file = FileOf(bs)
      BY <2>1, <2>5 DEF NotMoving, Called, Makes
    <3>2. PICK stream \in {"none", "open", "closed"} :
             Fails(stream) /\ file' \in {file, plan.file}
      BY <2>5 DEF NotMoving
    <3>3. CASE file' = file
      BY <1>1, <1>4, <1>8, <1>9, <3>1, <3>2, <3>3
    <3>4. CASE file' = FileOf(bs)
      BY <1>4, <1>8, <2>1, <2>2, <3>1, <3>2, <3>4
    <3> QED
      BY <3>1, <3>2, <3>3, <3>4
  <2>6. CASE BreakingOff(plan) /\ Called(op, n, FALSE)
    <3>1. /\ Fails("open") /\ call'.ok = FALSE /\ plan.way = "in place"
          /\ FailedWrite(plan.offset, plan.blocks)
      BY <2>6 DEF BreakingOff, Called
    <3>2. CASE UNCHANGED files
      <4>1. file' = file /\ torn' = torn
        BY <3>2 DEF files
      <4> QED
        BY <1>1, <1>4, <1>8, <1>9, <3>1, <4>1
    <3>3. CASE BrokenOff(plan.offset, plan.blocks)
      <4>1. Room(plan.offset, Image(plan.blocks))
        BY <2>1, <3>1 DEF Makes
      <4>2. torn' = "in place" /\ TornInv'
        BY <1>1, <3>3, <4>1, BrokenOffKeeps
      <4>3. /\ it' \in Iterators
            /\ ~it'.usable /\ it'.open
        BY <3>1, FailsIs
      <4> QED
        BY <1>4, <4>2, <4>3 DEF Left, DoneAsMeant, Torn
    <3>4. CASE file' = Overwritten(file, plan.offset, Image(plan.blocks)) /\ UNCHANGED torn
      <4>1. file' = FileOf(bs) /\ torn' = torn
        BY <2>1, <3>1, <3>4 DEF Makes
      <4> QED
        BY <1>4, <1>8, <2>1, <2>2, <3>1, <4>1
    <3> QED
      BY <3>1, <3>2, <3>3, <3>4 DEF FailedWrite
  <2>7. CASE MovingCut(plan) /\ Called(op, n, it'.usable)
    <3>1. torn' = "cut" /\ file' \in Seq(Cells)
      BY <2>1, <2>7 DEF MovingCut, Makes
    <3>2. it' \in Iterators /\ (it'.usable => it'.open)
      <4>1. CASE it' = At(it.is_writable, file', plan.goal)
        <5>1. plan.goal \in Nat
          BY <2>2, StandsRead
        <5>2. HeaderAt(file', plan.goal) \in Entry
          BY <3>1, <5>1, HeaderIsEntry
        <5>3. it.is_writable \in BOOLEAN
          BY <1>3 DEF Iterators
        <5> QED
          BY <4>1, <5>1, <5>2, <5>3 DEF At, Iterators
      <4>2. CASE Fails("open")
        BY <4>2, FailsIs
      <4> QED
        BY <2>7, <4>1, <4>2 DEF MovingCut
    <3> QED
      BY <1>4, <3>1, <3>2 DEF Left, DoneAsMeant, TornInv, Torn
  <2> QED
    BY <1>10, <2>3, <2>4, <2>5, <2>6, <2>7 DEF Doing
<1> QED
  BY <1>6, <1>10

-----------------------------------------------------------------------------
(* The steps of level 1.                                                   *)
LEMMA LeftAtEnd ==
    ASSUME IInv, chain = NoChain, Left, UNCHANGED <<chain, current>>
    PROVE  IInv'
<1>1. TypeOK'
  <2>1. it' \in Iterators /\ torn' \in Torn
    BY DEF Left
  <2>2. chain' = NoChain /\ current' \in 0..Len(chain'.nodes)
    BY DEF IInv, TypeOK
  <2> QED
    BY <2>1, <2>2 DEF TypeOK, NoChain
<1>2. FileInv'
  <2>1. ASSUME torn' = "no" PROVE \E bs : /\ Known(bs) /\ file' = FileOf(bs)
                                          /\ it'.usable => Stands(bs, it'.offset, it'.block)
    <3>1. PICK bs : Known(bs) /\ file' = FileOf(bs) /\ StandsNow(bs)
      BY <2>1 DEF Left
    <3> QED
      BY <3>1 DEF StandsNow
  <2> QED
    BY <2>1 DEF FileInv
<1>3. OneAtATime'
  BY DEF OneAtATime, Left
<1>4. ChainInv'
  BY DEF ChainInv
<1>5. TornInv'
  BY DEF Left
<1> QED
  BY <1>1, <1>2, <1>3, <1>4, <1>5 DEF IInv

(* A call that moves leaves the file alone.                                *)
LEMMA StillTorn ==
    ASSUME TornInv, UNCHANGED files
    PROVE  TornInv'
<1>1. torn' = torn /\ file' = file
  BY DEF files
<1> QED
  BY <1>1 DEF TornInv, SurroundingsKept

LEMMA MovedTo ==
    ASSUME IInv, NEW bs, Known(bs), file = FileOf(bs), UNCHANGED files,
           NEW writable \in BOOLEAN, NEW offset, NEW b, Stands(bs, offset, b),
           it' = At(writable, file, offset)
    PROVE  Left
<1> DEFINE i == At(writable, FileOf(bs), offset)
<1>1. i \in Iterators /\ i.usable /\ i.open /\ i.offset = offset /\ i.block = b
  BY AtIs
<1>2. it' = i
  OBVIOUS
<1> HIDE DEF i
<1>3. StandsNow(bs)
  BY <1>1, <1>2 DEF StandsNow
<1>4. file' = FileOf(bs) /\ torn' \in Torn
  BY DEF files, IInv, TypeOK
<1>5. TornInv'
  BY StillTorn DEF IInv
<1> QED
  BY <1>1, <1>2, <1>3, <1>4, <1>5 DEF Left

LEMMA StayedThere ==
    ASSUME IInv, it' = it, UNCHANGED files
    PROVE  Left
<1>1. it' \in Iterators /\ torn' \in Torn /\ (it'.usable => it'.open)
  BY DEF files, IInv, TypeOK, OneAtATime
<1>2. ASSUME torn' = "no" PROVE \E bs : Known(bs) /\ file' = FileOf(bs) /\ StandsNow(bs)
  <2>1. PICK bs : /\ Known(bs) /\ file = FileOf(bs)
                  /\ it.usable => Stands(bs, it.offset, it.block)
    BY <1>2 DEF IInv, FileInv, files
  <2>2. StandsNow(bs)
    BY <2>1 DEF StandsNow
  <2> QED
    BY <2>1, <2>2 DEF files
<1>3. TornInv'
  BY StillTorn DEF IInv
<1> QED
  BY <1>1, <1>2, <1>3 DEF Left

LEMMA OpenKeeps ==
    ASSUME IInv, torn = "no", SimpleOpen
    PROVE  Left
<1>1. PICK bs : Known(bs) /\ file = FileOf(bs)
  BY DEF IInv, FileInv
<1>2. bs \in Seq(Block) /\ bs # <<>>
  BY <1>1, KnownRead
<1>3. PICK b \in Block, D \in Seq(Block) : bs = <<b>> \o D
  BY <1>2, Headed
<1> DEFINE none == <<>>
<1>4. none \in Seq(Block) /\ none \o <<b>> = <<b>>
  BY Empties
<1>5. Ends(none) = FirstOffset
  BY SizesNone, FileAssumption DEF Ends, FirstOffset
<1> HIDE DEF none
<1>6. bs = Among(none, <<b>>, D)
  BY <1>3, <1>4 DEF Among
<1>7. Stands(bs, FirstOffset, b)
  BY <1>4, <1>5, <1>6, StandsAmong
<1>8. PICK writable \in BOOLEAN : it' = At(writable, file, FirstOffset)
  BY DEF SimpleOpen
<1>9. UNCHANGED files
  BY DEF SimpleOpen
<1> QED
  BY <1>1, <1>7, <1>8, <1>9, MovedTo

LEMMA CloseKeeps ==
    ASSUME IInv, torn = "no", SimpleClose
    PROVE  Left
<1>1. it' \in {Closed, Aborted} /\ UNCHANGED files
  BY DEF SimpleClose
<1>2. FirstOffset \in Nat /\ Broken \in Entry
  BY FileAssumption DEF FirstOffset, Entry
<1>3. it' \in Iterators /\ ~it'.usable
  <2>1. Closed \in Iterators /\ ~Closed.usable
    BY <1>2 DEF Closed, Iterators
  <2>2. Aborted \in Iterators /\ ~Aborted.usable
    BY <2>1 DEF Aborted, Iterators
  <2> QED
    BY <1>1, <2>1, <2>2
<1>4. PICK bs : Known(bs) /\ file = FileOf(bs)
  BY DEF IInv, FileInv
<1>5. StandsNow(bs)
  BY <1>3 DEF StandsNow
<1>6. file' = FileOf(bs) /\ torn' \in Torn
  BY <1>1, <1>4 DEF files, IInv, TypeOK
<1>7. TornInv'
  BY <1>1, StillTorn DEF IInv
<1> QED
  BY <1>3, <1>4, <1>5, <1>6, <1>7 DEF Left

LEMMA NextKeeps ==
    ASSUME IInv, torn = "no", SimpleNext
    PROVE  Left
<1>1. it.usable /\ UNCHANGED files
  BY DEF SimpleNext
<1>2. PICK A, b, C : On(A, b, C)
  BY <1>1, IsOn DEF IInv
<1>3. CASE it.block.last
  BY <1>1, <1>3, StayedThere DEF SimpleNext
<1>4. CASE ~it.block.last
  <2>1. /\ A \in Seq(Block) /\ b \in Block /\ C \in Seq(Block)
        /\ b.last <=> C = <<>>
    BY <1>2, OnParts
  <2>2. it.block = b /\ NextOffset(it.offset, file) = Ends(A \o <<b>>) /\ A \o <<b>> \in Seq(Block)
    BY <1>2, OnPlaces
  <2>3. PICK c \in Block, D \in Seq(Block) : C = <<c>> \o D
    BY <1>4, <2>1, <2>2, Headed
  <2> DEFINE old == Among(A, <<b>>, C)
             front == A \o <<b>>
  <2>4. Known(old) /\ file = FileOf(old)
    BY <1>2 DEF On
  <2>5. old = front \o (<<c>> \o D) /\ front \in Seq(Block) /\ <<c>> \in Seq(Block)
    BY <2>2, <2>3, Single DEF Among
  <2>6. NextOffset(it.offset, file) = Ends(front)
    BY <2>2
  <2> HIDE DEF old, front
  <2>7. old = Among(front, <<c>>, D)
    BY <2>5, Regrouped DEF Among
  <2>8. Stands(old, Ends(front), c)
    BY <2>5, <2>7, StandsAmong
  <2>9. it.is_writable \in BOOLEAN
    BY DEF IInv, TypeOK, Iterators
  <2>10. it' = At(it.is_writable, file, Ends(front))
    BY <1>4, <2>6 DEF SimpleNext
  <2> QED
    BY <1>1, <2>4, <2>8, <2>9, <2>10, MovedTo
<1> QED
  BY <1>3, <1>4

LEMMA PrevKeeps ==
    ASSUME IInv, torn = "no", SimplePrev
    PROVE  Left
<1>1. it.usable /\ UNCHANGED files
  BY DEF SimplePrev
<1>2. PICK A, b, C : On(A, b, C)
  BY <1>1, IsOn DEF IInv
<1>3. CASE it.offset = FirstOffset
  BY <1>1, <1>3, StayedThere DEF SimplePrev
<1>4. CASE it.offset # FirstOffset
  <2>1. A \in Seq(Block) /\ b \in Block /\ C \in Seq(Block) /\ it.offset = Ends(A)
    BY <1>2, OnParts, OnPlaces
  <2>2. A # <<>>
    <3>1. Ends(<<>>) = FirstOffset
      BY SizesNone, FileAssumption DEF Ends, FirstOffset
    <3> QED
      BY <1>4, <2>1, <3>1
  <2>3. PICK B \in Seq(Block), p \in Block : A = B \o <<p>>
    BY <2>1, <2>2, Tailed
  <2> DEFINE old == Among(A, <<b>>, C)
             rest == <<b>> \o C
  <2>4. Known(old) /\ file = FileOf(old)
    BY <1>2 DEF On
  <2>5. <<b>> \in Seq(Block) /\ rest \in Seq(Block)
    BY <2>1, Single, Empties
  <2>6. old = ((B \o <<p>>) \o <<b>>) \o C
    BY <2>3 DEF Among
  <2>7. (A \o <<b>>) \o C = A \o (<<b>> \o C)
    BY <2>1, <2>5, Regrouped
  <2>8. old = Among(B, <<p>>, rest)
    BY <2>3, <2>7 DEF Among
  <2>9. it.offset = Ends(B \o <<p>>)
    BY <2>1, <2>3
  <2> HIDE DEF old, rest
  <2>10. Short(old)
    BY <2>4, KnownShort
  <2>11. PrevOffset(Ends(B \o <<p>>), FileOf(old)) = Ends(B)
    <3>1. Short(((B \o <<p>>) \o <<b>>) \o C)
      BY <2>6, <2>10
    <3>2. PrevOffset(Ends(B \o <<p>>), FileOf(((B \o <<p>>) \o <<b>>) \o C)) = Ends(B)
      BY <2>1, <2>3, <3>1, PrevStanding
    <3> QED
      BY <2>6, <3>2
  <2>12. Stands(old, Ends(B), p)
    BY <2>3, <2>5, <2>8, StandsAmong
  <2>13. it.is_writable \in BOOLEAN
    BY DEF IInv, TypeOK, Iterators
  <2>14. it' = At(it.is_writable, file, Ends(B))
    BY <1>4, <2>4, <2>9, <2>11 DEF SimplePrev
  <2> QED
    BY <1>1, <2>4, <2>12, <2>13, <2>14, MovedTo
<1> QED
  BY <1>3, <1>4

(* What EditsAsAsked says of a step.                                       *)
EditDone ==
    call'.op \in {"set", "insert", "delete"} /\ torn' = "no" =>
        LET now == Content(Blocks(file'))
            asked == Asked(call'.op, call'.block)
        IN  IF call'.ok
            THEN /\ now = asked
                 /\ call'.op # "delete" =>
                       it'.block.id = call'.block.id
            ELSE now \in {asked, Content(Blocks(file))}

LEMMA PlanKeeps ==
    ASSUME IInv, torn = "no", it.usable, NEW A, NEW b, NEW C, On(A, b, C),
           NEW op \in {"set", "insert", "delete"}, NEW n \in Entry, NEW plan, NEW ids,
           Yields(plan, Meant(op, A, b, C, IF op = "delete" THEN <<>> ELSE Said(n)), ids),
           op # "delete" => ids = {n.id},
           Doing(op, n, plan)
    PROVE  Left /\ EditDone
<1> DEFINE said == Meant(op, A, b, C, IF op = "delete" THEN <<>> ELSE Said(n))
<1>1. Asked(op, n) = said
  BY AskedIs
<1>2. Yields(plan, said, ids)
  OBVIOUS
<1> HIDE DEF said
<1>3. it.open /\ TypeOK
  BY DEF IInv, OneAtATime
<1>4. Left /\ DoneAsMeant(said, ids) /\ call'.op = op /\ call'.block = n
  BY <1>2, <1>3, PlanDone
<1>5. EditDone
  BY <1>1, <1>4 DEF EditDone, DoneAsMeant
<1> QED
  BY <1>4, <1>5

LEMMA RoomFor ==
    ASSUME NEW A, NEW b, NEW C, On(A, b, C), NEW n \in Fitting(Blocks(file))
    PROVE  /\ n \in Block /\ n \in Entry
           /\ TotalSize(A) + Size(b) + TotalSize(C) + Size(n) <= MaxRoom
<1>1. n \in Block /\ TotalSize(Blocks(file)) + Size(n) <= MaxRoom
  BY ClientAssumption DEF Fitting
<1>2. Blocks(file) = Among(A, <<b>>, C)
  BY OnPlaces
<1>3. A \in Seq(Block) /\ b \in Block /\ C \in Seq(Block)
  BY OnParts
<1>4. <<b>> \in Seq(Block) /\ TotalSize(<<b>>) = Size(b)
  BY <1>3, Single
<1>5. TotalSize(Among(A, <<b>>, C)) = TotalSize(A) + TotalSize(<<b>>) + TotalSize(C)
  BY <1>3, <1>4, AmongSize
<1>6. TotalSize(Blocks(file)) = TotalSize(A) + Size(b) + TotalSize(C)
  BY <1>2, <1>4, <1>5
<1>7. n \in Entry
  BY <1>1 DEF Entry
<1> QED
  BY <1>1, <1>6, <1>7

LEMMA SetKeeps ==
    ASSUME IInv, torn = "no", SimpleSet
    PROVE  Left /\ EditDone
<1>1. it.usable
  BY DEF SimpleSet
<1>2. PICK A, b, C : On(A, b, C)
  BY <1>1, IsOn DEF IInv
<1>3. PICK n \in Fitting(Blocks(file)), use_padding \in BOOLEAN :
         Doing("set", n, SetPlan(n, use_padding))
  BY DEF SimpleSet
<1>4. /\ n \in Block /\ n \in Entry
      /\ TotalSize(A) + Size(b) + TotalSize(C) + Size(n) <= MaxRoom
  BY <1>2, RoomFor
<1>5. Yields(SetPlan(n, use_padding), Among(Content(A), Said(n), Content(C)), {n.id})
  BY <1>2, <1>4, SetPlanYields
<1> DEFINE plan == SetPlan(n, use_padding)
<1>6. Yields(plan, Meant("set", A, b, C, IF "set" = "delete" THEN <<>> ELSE Said(n)), {n.id})
  BY <1>5 DEF Meant
<1>7. Doing("set", n, plan)
  BY <1>3
<1> HIDE DEF plan
<1> QED
  BY <1>1, <1>2, <1>4, <1>6, <1>7, PlanKeeps

LEMMA InsertKeeps ==
    ASSUME IInv, torn = "no", SimpleInsert
    PROVE  Left /\ EditDone
<1>1. it.usable
  BY DEF SimpleInsert
<1>2. PICK A, b, C : On(A, b, C)
  BY <1>1, IsOn DEF IInv
<1>3. PICK n \in Fitting(Blocks(file)), use_padding \in BOOLEAN :
         Doing("insert", n, InsertPlan(n, use_padding))
  BY DEF SimpleInsert
<1>4. /\ n \in Block /\ n \in Entry
      /\ TotalSize(A) + Size(b) + TotalSize(C) + Size(n) <= MaxRoom
  BY <1>2, RoomFor
<1>5. Yields(InsertPlan(n, use_padding),
             Among(Content(A), Said(b) \o Said(n), Content(C)), {n.id})
  BY <1>2, <1>4, InsertPlanYields
<1> DEFINE plan == InsertPlan(n, use_padding)
<1>6. Yields(plan, Meant("insert", A, b, C, IF "insert" = "delete" THEN <<>> ELSE Said(n)), {n.id})
  BY <1>5 DEF Meant
<1>7. Doing("insert", n, plan)
  BY <1>3
<1> HIDE DEF plan
<1> QED
  BY <1>1, <1>2, <1>4, <1>6, <1>7, PlanKeeps

LEMMA DeleteKeeps ==
    ASSUME IInv, torn = "no", SimpleDelete
    PROVE  Left /\ EditDone
<1>1. it.usable
  BY DEF SimpleDelete
<1>2. PICK A, b, C : On(A, b, C)
  BY <1>1, IsOn DEF IInv
<1>3. PICK use_padding \in BOOLEAN : Doing("delete", Broken, DeletePlan(use_padding))
  BY DEF SimpleDelete
<1>4. Broken \in Entry
  BY DEF Entry
<1>5. Yields(DeletePlan(use_padding), Among(Content(A), <<>>, Content(C)), Ids \cup {"zeros"})
  BY <1>2, DeletePlanYields
<1> DEFINE plan == DeletePlan(use_padding)
           ids == Ids \cup {"zeros"}
<1>6. Yields(plan, Meant("delete", A, b, C, IF "delete" = "delete" THEN <<>> ELSE Said(Broken)), ids)
  BY <1>5 DEF Meant
<1>7. Doing("delete", Broken, plan)
  BY <1>3
<1> HIDE DEF plan, ids
<1> QED
  BY <1>1, <1>2, <1>4, <1>6, <1>7, PlanKeeps

(* Every step of level 1 keeps the invariant and does what was asked for.  *)
LEMMA SimpleKeeps ==
    ASSUME IInv, torn = "no", Simple
    PROVE  IInv' /\ EditDone
<1>1. chain = NoChain /\ SimpleStep /\ UNCHANGED <<chain, current>>
  BY DEF Simple
<1>2. CASE SimpleOpen
  <2>1. EditDone
    BY <1>2 DEF SimpleOpen, Called, EditDone
  <2> QED
    BY <1>1, <1>2, <2>1, OpenKeeps, LeftAtEnd
<1>3. CASE SimpleClose
  <2>1. EditDone
    BY <1>3 DEF SimpleClose, Called, EditDone
  <2> QED
    BY <1>1, <1>3, <2>1, CloseKeeps, LeftAtEnd
<1>4. CASE SimpleNext
  <2>1. EditDone
    BY <1>4 DEF SimpleNext, Called, EditDone
  <2> QED
    BY <1>1, <1>4, <2>1, NextKeeps, LeftAtEnd
<1>5. CASE SimplePrev
  <2>1. EditDone
    BY <1>5 DEF SimplePrev, Called, EditDone
  <2> QED
    BY <1>1, <1>5, <2>1, PrevKeeps, LeftAtEnd
<1>6. CASE SimpleSet
  BY <1>1, <1>6, SetKeeps, LeftAtEnd
<1>7. CASE SimpleInsert
  BY <1>1, <1>7, InsertKeeps, LeftAtEnd
<1>8. CASE SimpleDelete
  BY <1>1, <1>8, DeleteKeeps, LeftAtEnd
<1> QED
  BY <1>1, <1>2, <1>3, <1>4, <1>5, <1>6, <1>7, <1>8 DEF SimpleStep

-----------------------------------------------------------------------------
(* The blocks of a chain, edited in memory.  A list taken apart at one of  *)
(* its blocks:                                                             *)
SplitAt(nodes, i, A, C) ==
    /\ A \in Seq(Block) /\ C \in Seq(Block) /\ nodes[i] \in Block
    /\ nodes = Among(A, <<nodes[i]>>, C)
    /\ SubSeq(nodes, 1, i - 1) = A /\ SubSeq(nodes, i + 1, Len(nodes)) = C
    /\ SubSeq(nodes, 1, i) = A \o <<nodes[i]>>
    /\ SubSeq(nodes, i, Len(nodes)) = <<nodes[i]>> \o C
    /\ Len(A) = i - 1 /\ Len(C) = Len(nodes) - i
    /\ A = <<>> <=> i = 1

LEMMA TakenOut ==
    ASSUME NEW nodes \in Seq(Block), NEW i \in 1..Len(nodes)
    PROVE  \E A, C : SplitAt(nodes, i, A, C)
<1> DEFINE A == SubSeq(nodes, 1, i - 1)
           C == SubSeq(nodes, i + 1, Len(nodes))
           b == nodes[i]
<1>1. /\ A \in Seq(Block) /\ C \in Seq(Block) /\ b \in Block
      /\ Len(A) = i - 1 /\ Len(C) = Len(nodes) - i
  BY TakenApart
<1>2. /\ SubSeq(nodes, 1, i) = A \o <<b>>
      /\ SubSeq(nodes, i, Len(nodes)) = <<b>> \o C
      /\ nodes = SubSeq(nodes, 1, i) \o C
  BY TakenApart
<1>3. SubSeq(nodes, 1, i - 1) = A /\ SubSeq(nodes, i + 1, Len(nodes)) = C /\ nodes[i] = b
  OBVIOUS
<1> HIDE DEF A, C, b
<1>4. nodes = Among(A, <<b>>, C)
  BY <1>2 DEF Among
<1>5. A = <<>> <=> i = 1
  <2>1. A = <<>> <=> Len(A) = 0
    BY <1>1, EmptyLength
  <2> QED
    BY <1>1, <2>1
<1> QED
  BY <1>1, <1>2, <1>3, <1>4, <1>5 DEF SplitAt

LEMMA SameSequence ==
    ASSUME NEW S, NEW s \in Seq(S), NEW t \in Seq(S), Len(s) = Len(t),
           \A j \in 1..Len(s) : s[j] = t[j]
    PROVE  s = t
OBVIOUS

LEMMA ReplacedOne ==
    ASSUME NEW nodes \in Seq(Block), NEW i \in 1..Len(nodes), NEW e \in Block,
           NEW A, NEW C, SplitAt(nodes, i, A, C)
    PROVE  [nodes EXCEPT ![i] = e] = Among(A, <<e>>, C)
<1> DEFINE r == [nodes EXCEPT ![i] = e]
<1>1. /\ r \in Seq(Block) /\ Len(r) = Len(nodes) /\ r[i] = e
      /\ \A j \in 1..Len(nodes) : j # i => r[j] = nodes[j]
  OBVIOUS
<1>2. A = SubSeq(nodes, 1, i - 1) /\ C = SubSeq(nodes, i + 1, Len(nodes))
  BY DEF SplitAt
<1> HIDE DEF r
<1> DEFINE B == SubSeq(r, 1, i - 1)
           D == SubSeq(r, i + 1, Len(r))
<1>3. i \in 1..Len(r)
  BY <1>1
<1>4. /\ B \in Seq(Block) /\ D \in Seq(Block) /\ Len(B) = i - 1 /\ Len(D) = Len(r) - i
      /\ \A j \in 1..(i - 1) : B[j] = r[j]
      /\ \A j \in 1..(Len(r) - i) : D[j] = r[i + j]
  BY <1>1, <1>3, TakenApart
<1>5. SubSeq(r, 1, i) = B \o <<e>> /\ r = SubSeq(r, 1, i) \o D
  <2>1. SubSeq(r, 1, i) = B \o <<r[i]>>
    BY <1>1, <1>3, TakenApart
  <2>2. r = SubSeq(r, 1, i) \o D
    BY <1>1, <1>3, TakenApart
  <2>3. r[i] = e
    BY <1>1
  <2> QED
    BY <2>1, <2>2, <2>3
<1>6. /\ A \in Seq(Block) /\ C \in Seq(Block) /\ Len(A) = i - 1 /\ Len(C) = Len(nodes) - i
      /\ \A j \in 1..(i - 1) : A[j] = nodes[j]
      /\ \A j \in 1..(Len(nodes) - i) : C[j] = nodes[i + j]
  BY <1>2, TakenApart
<1> HIDE DEF B, D
<1>7. B = A
  <2>1. ASSUME NEW j \in 1..Len(B) PROVE B[j] = A[j]
    <3>1. j \in 1..(i - 1) /\ j \in 1..Len(nodes) /\ j # i
      BY <1>4
    <3> QED
      BY <1>1, <1>4, <1>6, <3>1
  <2>2. Len(B) = Len(A)
    BY <1>4, <1>6
  <2> QED
    BY <1>4, <1>6, <2>1, <2>2, SameSequence
<1>8. D = C
  <2>1. ASSUME NEW j \in 1..Len(D) PROVE D[j] = C[j]
    <3>1. j \in 1..(Len(nodes) - i) /\ i + j \in 1..Len(nodes) /\ i + j # i
      BY <1>1, <1>4
    <3> QED
      BY <1>1, <1>4, <1>6, <3>1
  <2>2. Len(D) = Len(C)
    BY <1>1, <1>4, <1>6
  <2> QED
    BY <1>4, <1>6, <2>1, <2>2, SameSequence
<1>9. r = Among(A, <<e>>, C)
  BY <1>5, <1>7, <1>8 DEF Among
<1> QED
  BY <1>9 DEF r

(* A list with the flag of its last block set or cleared.                  *)
Reflagged(Y, X, flag) ==
    /\ Y \in Seq(Block) /\ Y # <<>> /\ Len(Y) = Len(X)
    /\ TotalSize(Y) = TotalSize(X) /\ Content(Y) = Content(X)
    /\ \A j \in 1..Len(X) : /\ Size(Y[j]) = Size(X[j])
                            /\ IsPadding(Y[j]) <=> IsPadding(X[j])
                            /\ IsInfo(Y[j]) <=> IsInfo(X[j])
                            /\ Y[j].last <=> IF j = Len(X) THEN flag ELSE X[j].last

LEMMA FlaggedIs ==
    ASSUME NEW X \in Seq(Block), X # <<>>, NEW flag \in BOOLEAN
    PROVE  Reflagged(Flagged(X, flag), X, flag)
<1> DEFINE n == Len(X)
           Y == Flagged(X, flag)
<1>1. n \in 1..Len(X)
  BY EmptyLength
<1>2. X[n] \in Block
  BY <1>1
<1>3. Y = [X EXCEPT ![n] = Mark(X[n], flag)]
  BY <1>1 DEF Flagged, Mark
<1>4. /\ Mark(X[n], flag) \in Block /\ Mark(X[n], flag).last = flag
      /\ Size(Mark(X[n], flag)) = Size(X[n]) /\ Said(Mark(X[n], flag)) = Said(X[n])
      /\ IsInfo(Mark(X[n], flag)) <=> IsInfo(X[n])
  BY <1>2, MarkIs
<1>5. IsPadding(Mark(X[n], flag)) <=> IsPadding(X[n])
  BY <1>2, Marked DEF Mark
<1> DEFINE d == Mark(X[n], flag)
<1>6. Y = [X EXCEPT ![n] = d] /\ d \in Block
  BY <1>3, <1>4
<1> HIDE DEF Y, d
<1>7. /\ Y \in Seq(Block) /\ Len(Y) = Len(X) /\ Y[n] = d
      /\ \A j \in 1..Len(X) : j # n => Y[j] = X[j]
  BY <1>1, <1>6
<1>8. Y # <<>>
  BY <1>1, <1>7
<1>9. \A j \in 1..Len(X) : Size(Y[j]) = Size(X[j]) /\ Said(Y[j]) = Said(X[j])
  BY <1>4, <1>7 DEF d
<1>10. \A j \in 1..Len(X) : /\ IsPadding(Y[j]) <=> IsPadding(X[j])
                            /\ IsInfo(Y[j]) <=> IsInfo(X[j])
                            /\ Y[j].last <=> IF j = Len(X) THEN flag ELSE X[j].last
  BY <1>4, <1>5, <1>7 DEF d
<1>11. X \in Seq(Entry) /\ Y \in Seq(Entry)
  BY <1>7, BlocksAreEntries
<1>12. TotalSize(Y) = TotalSize(X)
  BY <1>7, <1>9, <1>11, SizesSame
<1>13. Content(Y) = Content(X)
  BY <1>7, <1>9, <1>11, ContentSame
<1> QED
  BY <1>7, <1>8, <1>9, <1>10, <1>12, <1>13 DEF Reflagged, Y

LEMMA FlaggedShaped ==
    ASSUME NEW X \in Seq(Block), X # <<>>, NEW flag \in BOOLEAN, NEW front, NEW end,
           Shaped(X, front, end)
    PROVE  Shaped(Flagged(X, flag), front, flag)
<1> DEFINE Y == Flagged(X, flag)
<1>1. Reflagged(Y, X, flag)
  BY FlaggedIs
<1> HIDE DEF Y
<1>2. ASSUME NEW j \in 1..Len(Y)
      PROVE  (IsInfo(Y[j]) <=> (front /\ j = 1)) /\ (Y[j].last <=> (flag /\ j = Len(Y)))
  <2>1. j \in 1..Len(X) /\ Len(Y) = Len(X)
    BY <1>1 DEF Reflagged
  <2>2. IsInfo(X[j]) <=> (front /\ j = 1)
    BY <2>1 DEF Shaped
  <2>3. X[j].last <=> (end /\ j = Len(X))
    BY <2>1 DEF Shaped
  <2>4. IsInfo(Y[j]) <=> IsInfo(X[j])
    BY <1>1, <2>1 DEF Reflagged
  <2>5. Y[j].last <=> IF j = Len(X) THEN flag ELSE X[j].last
    BY <1>1, <2>1 DEF Reflagged
  <2> QED
    BY <2>1, <2>2, <2>3, <2>4, <2>5
<1>3. Shaped(Y, front, flag)
  BY <1>2 DEF Shaped
<1> QED
  BY <1>3 DEF Y

(* A list that is as it should be but for the flag of the last block.      *)
LEMMA KnownFlagged ==
    ASSUME NEW X \in Seq(Block), X # <<>>, NEW end, Shaped(X, TRUE, end), TotalSize(X) <= MaxRoom
    PROVE  Known(Flagged(X, TRUE))
<1> DEFINE Y == Flagged(X, TRUE)
<1>1. Reflagged(Y, X, TRUE)
  BY FlaggedIs
<1>2. Shaped(Y, TRUE, TRUE)
  BY FlaggedShaped
<1> HIDE DEF Y
<1>3. Y \in Seq(Block) /\ Y # <<>> /\ TotalSize(Y) <= MaxRoom
  BY <1>1 DEF Reflagged
<1>4. WellFormed(Y)
  BY <1>2, <1>3, WellShaped
<1>5. Known(Y)
  BY <1>3, <1>4 DEF Known
<1> QED
  BY <1>5 DEF Y

(* The parts of a list that is known, around a block that is not the first. *)
Divides(nodes, A, b, C) ==
    /\ A \in Seq(Block) /\ C \in Seq(Block) /\ b \in Block
    /\ Shaped(A, TRUE, FALSE) /\ Shaped(C, FALSE, TRUE)
    /\ IsInfo(b) <=> A = <<>>
    /\ b.last <=> C = <<>>
    /\ TotalSize(nodes) = TotalSize(A) + Size(b) + TotalSize(C)
    /\ TotalSize(nodes) <= MaxRoom
    /\ TotalSize(A) \in Nat /\ TotalSize(C) \in Nat /\ Size(b) \in Nat
    /\ Content(nodes) = Among(Content(A), Said(b), Content(C))

LEMMA KnownSplit ==
    ASSUME NEW nodes, Known(nodes), NEW i \in 1..Len(nodes), NEW A, NEW C, SplitAt(nodes, i, A, C)
    PROVE  Divides(nodes, A, nodes[i], C)
<1> DEFINE b == nodes[i]
           M == <<b>>
<1>1. A \in Seq(Block) /\ C \in Seq(Block) /\ b \in Block /\ nodes = Among(A, <<b>>, C)
  BY DEF SplitAt
<1> HIDE DEF b
<1>2. M \in Seq(Block) /\ M # <<>> /\ TotalSize(M) = Size(b) /\ Content(M) = Said(b) /\ Size(b) \in Nat
  BY <1>1, Single
<1>3. nodes = Among(A, M, C)
  BY <1>1
<1>4. IsInfo(b) <=> A = <<>>
  BY <1>1, KnownParts
<1>5. b.last <=> C = <<>>
  BY <1>1, KnownParts
<1> HIDE DEF M
<1>6. WellFormed(nodes) /\ TotalSize(nodes) <= MaxRoom
  BY DEF Known
<1>7. Shaped(A, TRUE, C = <<>> /\ M = <<>>) /\ Shaped(C, A = <<>> /\ M = <<>>, TRUE)
  <2>1. WellFormed(Among(A, M, C))
    BY <1>3, <1>6
  <2> QED
    BY <1>1, <1>2, <2>1, AmongIs
<1>8. (C = <<>> /\ M = <<>>) = FALSE /\ (A = <<>> /\ M = <<>>) = FALSE
  BY <1>2
<1>9. /\ TotalSize(nodes) = TotalSize(A) + TotalSize(M) + TotalSize(C)
      /\ TotalSize(A) \in Nat /\ TotalSize(C) \in Nat
  BY <1>1, <1>2, <1>3, AmongSize
<1>10. Content(nodes) = Among(Content(A), Content(M), Content(C))
  BY <1>1, <1>2, <1>3, AmongSays
<1> QED
  BY <1>1, <1>2, <1>4, <1>5, <1>6, <1>7, <1>8, <1>9, <1>10 DEF b, Divides

(* Joining what stands before a block and what follows it.                 *)
LEMMA JoinedShape ==
    ASSUME NEW A \in Seq(Block), NEW C \in Seq(Block), A # <<>>,
           Shaped(A, TRUE, FALSE), Shaped(C, FALSE, TRUE)
    PROVE  /\ A \o C \in Seq(Block) /\ A \o C # <<>>
           /\ Shaped(A \o C, TRUE, C # <<>>)
           /\ TotalSize(A \o C) = TotalSize(A) + TotalSize(C)
           /\ Content(A \o C) = Content(A) \o Content(C)
<1>1. A \o C \in Seq(Block) /\ A \o C # <<>>
  BY Empties
<1>2. A \in Seq(Entry) /\ C \in Seq(Entry)
  BY BlocksAreEntries
<1>3. TotalSize(A \o C) = TotalSize(A) + TotalSize(C)
  BY <1>2, SizesJoined
<1>4. Content(A \o C) = Content(A) \o Content(C)
  BY <1>2, ContentJoined
<1>5. Shaped(A, TRUE, (C # <<>>) /\ C = <<>>)
  <2>1. ((C # <<>>) /\ C = <<>>) = FALSE
    OBVIOUS
  <2> QED
    BY <2>1
<1>6. Shaped(C, TRUE /\ A = <<>>, C # <<>>)
  <2>1. (TRUE /\ A = <<>>) = FALSE
    OBVIOUS
  <2>2. CASE C = <<>>
    BY <2>2, ShapedNone
  <2>3. CASE C # <<>>
    <3>1. (C # <<>>) = TRUE
      BY <2>3
    <3> QED
      BY <2>1, <3>1
  <2> QED
    BY <2>2, <2>3
<1>7. Shaped(A \o C, TRUE, C # <<>>)
  <2> DEFINE end == C # <<>>
             front == TRUE
  <2>1. /\ end \in BOOLEAN /\ front \in BOOLEAN
        /\ Shaped(A, front, end /\ C = <<>>) /\ Shaped(C, front /\ A = <<>>, end)
    BY <1>5, <1>6
  <2> HIDE DEF end, front
  <2>2. Shaped(A \o C, front, end)
    BY <2>1, ShapedJoined
  <2> QED
    BY <2>2 DEF end, front
<1> QED
  BY <1>1, <1>3, <1>4, <1>7

LEMMA RemovedIs ==
    ASSUME NEW nodes, Known(nodes), NEW i \in 2..Len(nodes), NEW A, NEW C, SplitAt(nodes, i, A, C)
    PROVE  /\ Known(Removed(nodes, i))
           /\ Reflagged(Removed(nodes, i), A \o C, TRUE)
           /\ A \o C \in Seq(Block) /\ Len(A \o C) = Len(nodes) - 1
           /\ TotalSize(Removed(nodes, i)) = TotalSize(nodes) - Size(nodes[i])
           /\ Content(Removed(nodes, i)) = Content(A) \o Content(C)
<1> DEFINE X == A \o C
           Y == Removed(nodes, i)
<1>1. i \in 1..Len(nodes) /\ i # 1 /\ Len(nodes) \in Nat
  BY KnownRead
<1>0. Divides(nodes, A, nodes[i], C)
  BY <1>1, KnownSplit
<1>2. /\ A \in Seq(Block) /\ C \in Seq(Block)
      /\ Shaped(A, TRUE, FALSE) /\ Shaped(C, FALSE, TRUE)
      /\ TotalSize(nodes) = TotalSize(A) + Size(nodes[i]) + TotalSize(C)
      /\ TotalSize(nodes) <= MaxRoom
      /\ TotalSize(A) \in Nat /\ TotalSize(C) \in Nat /\ Size(nodes[i]) \in Nat
  BY <1>0 DEF Divides
<1>3. A # <<>> /\ Len(A) = i - 1 /\ Len(C) = Len(nodes) - i
  BY <1>1 DEF SplitAt
<1>4. /\ X \in Seq(Block) /\ X # <<>> /\ Shaped(X, TRUE, C # <<>>)
      /\ TotalSize(X) = TotalSize(A) + TotalSize(C)
      /\ Content(X) = Content(A) \o Content(C)
  BY <1>2, <1>3, JoinedShape
<1>5. Len(X) = Len(nodes) - 1
  <2>1. Len(X) = Len(A) + Len(C)
    BY <1>2, Joined
  <2> HIDE DEF X
  <2> QED
    BY <1>1, <1>3, <2>1
<1>6. Y = Flagged(X, TRUE)
  BY DEF Removed, RemoveAt, SplitAt
<1> HIDE DEF X, Y
<1>7. MaxRoom \in Nat
  BY ClientAssumption
<1>8. TotalSize(X) <= MaxRoom
  BY <1>2, <1>4, <1>7
<1>9. Known(Y)
  BY <1>4, <1>6, <1>8, KnownFlagged
<1>10. Reflagged(Y, X, TRUE)
  BY <1>4, <1>6, FlaggedIs
<1>11. TotalSize(Y) = TotalSize(nodes) - Size(nodes[i])
  BY <1>2, <1>4, <1>10 DEF Reflagged
<1>12. Content(Y) = Content(A) \o Content(C)
  BY <1>4, <1>10 DEF Reflagged
<1> QED
  BY <1>4, <1>5, <1>9, <1>10, <1>11, <1>12 DEF X, Y

(* A block at the end.                                                     *)
AppendedSo(Y, nodes, b) ==
    /\ Y \in Seq(Block) /\ Y # <<>> /\ Len(Y) = Len(nodes) + 1
    /\ Shaped(Y, TRUE, TRUE)
    /\ TotalSize(Y) = TotalSize(nodes) + Size(b)
    /\ Content(Y) = Content(nodes) \o Said(b)
    /\ \A j \in 1..Len(nodes) : IsPadding(Y[j]) <=> IsPadding(nodes[j])
    /\ IsPadding(Y[Len(nodes) + 1]) <=> IsPadding(b)

LEMMA AppendedIs ==
    ASSUME NEW nodes, Known(nodes), NEW b \in Block, ~IsInfo(b)
    PROVE  AppendedSo(Appended(nodes, b), nodes, b)
<1> DEFINE X == Flagged(nodes, FALSE)
           d == Mark(b, TRUE)
           M == <<d>>
           Y == X \o M
<1>1. nodes \in Seq(Block) /\ nodes # <<>> /\ WellFormed(nodes)
  BY KnownRead DEF Known
<1>2. Reflagged(X, nodes, FALSE)
  BY <1>1, FlaggedIs
<1>3. Shaped(X, TRUE, FALSE)
  <2>1. Shaped(nodes, TRUE, TRUE)
    BY <1>1, WellShaped
  <2> QED
    BY <1>1, <2>1, FlaggedShaped
<1>4. /\ d \in Block /\ d.last = TRUE /\ Size(d) = Size(b) /\ Said(d) = Said(b)
      /\ IsInfo(d) <=> IsInfo(b)
  BY MarkIs
<1>5. IsPadding(d) <=> IsPadding(b)
  BY Marked DEF Mark
<1> HIDE DEF X, d
<1>6. /\ M \in Seq(Block) /\ M # <<>> /\ TotalSize(M) = Size(d) /\ Content(M) = Said(d)
  BY <1>4, Single
<1>7. Len(M) = 1 /\ M[1] = d
  OBVIOUS
<1>8. X \in Seq(Block) /\ X # <<>> /\ Len(X) = Len(nodes) /\ Len(X) \in Nat
  BY <1>2 DEF Reflagged
<1>9. Appended(nodes, b) = Y
  <2>1. Appended(nodes, b) = Append(X, d)
    BY DEF Appended, X, d, Mark
  <2>2. Append(X, d) = X \o <<d>>
    BY <1>4, <1>8
  <2> QED
    BY <2>1, <2>2
<1> DEFINE none == <<>>
<1>10. Shaped(M, FALSE, TRUE)
  BY <1>4, ShapedOne
<1> HIDE DEF M
<1>11. Y \in Seq(Block) /\ Concatenates(Y, X, M)
  BY <1>6, <1>8, Joining
<1>12. Y # <<>>
  BY <1>8, <1>6, Empties
<1>13. Shaped(Y, TRUE, TRUE)
  <2> DEFINE true == TRUE
  <2>1. (true /\ M = <<>>) = FALSE /\ (true /\ X = <<>>) = FALSE /\ true \in BOOLEAN
    BY <1>6, <1>8
  <2>2. Shaped(X, true, true /\ M = <<>>) /\ Shaped(M, true /\ X = <<>>, true)
    BY <1>3, <1>10, <2>1
  <2> HIDE DEF true
  <2>3. Shaped(X \o M, true, true)
    BY <1>6, <1>8, <2>1, <2>2, ShapedJoined
  <2> QED
    BY <2>3 DEF true
<1>14. X \in Seq(Entry) /\ M \in Seq(Entry)
  BY <1>6, <1>8, BlocksAreEntries
<1>15. TotalSize(Y) = TotalSize(X) + TotalSize(M)
  BY <1>14, SizesJoined
<1>16. Content(Y) = Content(X) \o Content(M)
  BY <1>14, ContentJoined
<1> HIDE DEF Y
<1>17. TotalSize(Y) = TotalSize(nodes) + Size(b)
  BY <1>2, <1>4, <1>6, <1>15 DEF Reflagged
<1>18. Content(Y) = Content(nodes) \o Said(b)
  BY <1>2, <1>4, <1>6, <1>16 DEF Reflagged
<1>19. Len(Y) = Len(nodes) + 1
  BY <1>7, <1>8, <1>11 DEF Concatenates
<1>20. ASSUME NEW j \in 1..Len(nodes) PROVE IsPadding(Y[j]) <=> IsPadding(nodes[j])
  <2>1. Y[j] = X[j]
    BY <1>8, <1>11 DEF Concatenates
  <2>2. IsPadding(X[j]) <=> IsPadding(nodes[j])
    BY <1>2 DEF Reflagged
  <2> QED
    BY <2>1, <2>2
<1>21. IsPadding(Y[Len(nodes) + 1]) <=> IsPadding(b)
  <2>1. 1 \in 1..Len(M)
    BY <1>7
  <2>2. Y[Len(X) + 1] = M[1]
    BY <1>11, <2>1 DEF Concatenates
  <2> QED
    BY <1>5, <1>7, <1>8, <2>2
<1>22. AppendedSo(Y, nodes, b)
  BY <1>11, <1>12, <1>13, <1>17, <1>18, <1>19, <1>20, <1>21 DEF AppendedSo
<1> QED
  BY <1>9, <1>22

(* The last block made longer or shorter.                                  *)
StretchedSo(Y, X, n) ==
    /\ Y \in Seq(Block) /\ Y # <<>> /\ Len(Y) = Len(X)
    /\ TotalSize(Y) = TotalSize(X) + n /\ Content(Y) = Content(X)
    /\ \A j \in 1..Len(X) : /\ IsPadding(Y[j]) <=> IsPadding(X[j])
                            /\ IsInfo(Y[j]) <=> IsInfo(X[j])
                            /\ Y[j].last <=> X[j].last

Grown(b, n) == [b EXCEPT !.length = @ + n]

LEMMA GrownIs ==
    ASSUME NEW b \in Block, NEW n \in Int, b.length + n \in Nat
    PROVE  /\ Grown(b, n) \in Block /\ Size(Grown(b, n)) = Size(b) + n
           /\ Said(Grown(b, n)) = Said(b) /\ Grown(b, n).last = b.last
           /\ IsPadding(Grown(b, n)) <=> IsPadding(b)
           /\ IsInfo(Grown(b, n)) <=> IsInfo(b)
<1> DEFINE k == b.length + n
           g == Grown(b, n)
<1>1. b.type \in Types /\ b.id \in Ids \cup {"zeros"} /\ b.last \in BOOLEAN /\ b.length \in Nat /\ k \in Nat
  BY DEF Block
<1>2. g = [type |-> b.type, id |-> b.id, length |-> k, last |-> b.last]
  BY DEF Grown, Block
<1>3. Size(g) = HeaderLength + k
  BY <1>2 DEF Size
<1>4. Size(b) = HeaderLength + b.length
  BY DEF Size
<1>5. k = b.length + n
  OBVIOUS
<1> HIDE DEF k
<1>6. g \in Block
  BY <1>1, <1>2 DEF Block
<1>7. g.type = b.type /\ g.id = b.id /\ g.last = b.last
  BY <1>2
<1>8. Size(g) = Size(b) + n
  <2> DEFINE l == b.length
  <2>1. l \in Nat /\ k = l + n /\ Size(b) = HeaderLength + l
    BY <1>1, <1>4, <1>5
  <2> HIDE DEF l
  <2> QED
    BY <1>1, <1>3, <2>1 DEF HeaderLength
<1> QED
  BY <1>6, <1>7, <1>8 DEF Said, IsPadding, IsInfo

LEMMA StretchedIs ==
    ASSUME NEW X \in Seq(Block), X # <<>>, NEW n \in Int, Last(X).length + n \in Nat
    PROVE  StretchedSo(Stretched(X, n), X, n)
<1> DEFINE m == Len(X)
           b == X[m]
           g == Grown(b, n)
           Y == Stretched(X, n)
<1>1. m \in 1..Len(X)
  BY EmptyLength
<1>2. b \in Block /\ b.length + n \in Nat
  BY <1>1 DEF Last
<1>3. /\ g \in Block /\ Size(g) = Size(b) + n
      /\ Said(g) = Said(b) /\ g.last = b.last
      /\ IsPadding(g) <=> IsPadding(b)
      /\ IsInfo(g) <=> IsInfo(b)
  BY <1>2, GrownIs
<1>4. Y = [X EXCEPT ![m] = g]
  BY <1>1 DEF Stretched, Grown
<1> HIDE DEF g, Y
<1>5. /\ Y \in Seq(Block) /\ Len(Y) = Len(X) /\ Y[m] = g
      /\ \A j \in 1..Len(X) : j # m => Y[j] = X[j]
  BY <1>1, <1>3, <1>4
<1>6. Y # <<>>
  BY <1>1, <1>5
<1>7. PICK A, C : SplitAt(X, m, A, C)
  BY <1>1, TakenOut
<1>8. A \in Seq(Block) /\ C \in Seq(Block) /\ X = Among(A, <<b>>, C)
  BY <1>7 DEF SplitAt
<1>9. Y = Among(A, <<g>>, C)
  <2>1. [X EXCEPT ![m] = g] = Among(A, <<g>>, C)
    BY <1>1, <1>3, <1>7, ReplacedOne
  <2> QED
    BY <1>4, <2>1
<1> DEFINE M == <<b>>
           N == <<g>>
<1> HIDE DEF b
<1>10. M \in Seq(Block) /\ TotalSize(M) = Size(b) /\ Content(M) = Said(b) /\ Size(b) \in Nat
  BY <1>2, Single
<1>11. N \in Seq(Block) /\ TotalSize(N) = Size(g) /\ Content(N) = Said(g) /\ Size(g) \in Nat
  BY <1>3, Single
<1>12. X = Among(A, M, C) /\ Y = Among(A, N, C)
  BY <1>8, <1>9
<1> HIDE DEF M, N, m
<1>13. /\ TotalSize(X) = TotalSize(A) + TotalSize(M) + TotalSize(C)
       /\ TotalSize(A) \in Nat /\ TotalSize(C) \in Nat
  BY <1>8, <1>10, <1>12, AmongSize
<1>14. TotalSize(Y) = TotalSize(A) + TotalSize(N) + TotalSize(C)
  BY <1>8, <1>11, <1>12, AmongSize
<1>15. Content(X) = Among(Content(A), Content(M), Content(C))
  BY <1>8, <1>10, <1>12, AmongSays
<1>16. Content(Y) = Among(Content(A), Content(N), Content(C))
  BY <1>8, <1>11, <1>12, AmongSays
<1>17. TotalSize(Y) = TotalSize(X) + n
  BY <1>3, <1>10, <1>11, <1>13, <1>14
<1>18. Content(Y) = Content(X)
  BY <1>3, <1>10, <1>11, <1>15, <1>16
<1>19. \A j \in 1..Len(X) : /\ IsPadding(Y[j]) <=> IsPadding(X[j])
                            /\ IsInfo(Y[j]) <=> IsInfo(X[j])
                            /\ Y[j].last <=> X[j].last
  BY <1>3, <1>5 DEF b
<1> QED
  BY <1>5, <1>6, <1>17, <1>18, <1>19 DEF StretchedSo, Y

LEMMA StretchedShaped ==
    ASSUME NEW X, NEW Y, NEW n, StretchedSo(Y, X, n), NEW front, NEW end, Shaped(X, front, end)
    PROVE  Shaped(Y, front, end)
<1>1. ASSUME NEW j \in 1..Len(Y)
      PROVE  (IsInfo(Y[j]) <=> (front /\ j = 1)) /\ (Y[j].last <=> (end /\ j = Len(Y)))
  <2>1. j \in 1..Len(X) /\ Len(Y) = Len(X)
    BY DEF StretchedSo
  <2>2. IsInfo(X[j]) <=> (front /\ j = 1)
    BY <2>1 DEF Shaped
  <2>3. X[j].last <=> (end /\ j = Len(X))
    BY <2>1 DEF Shaped
  <2>4. (IsInfo(Y[j]) <=> IsInfo(X[j])) /\ (Y[j].last <=> X[j].last)
    BY <2>1 DEF StretchedSo
  <2> QED
    BY <2>1, <2>2, <2>3, <2>4
<1> QED
  BY <1>1 DEF Shaped

(* What the iterator of a chain does to its list.                          *)
LEMMA PaddedKnown ==
    ASSUME NEW nodes, Known(nodes), NEW i \in 2..Len(nodes)
    PROVE  Known([nodes EXCEPT ![i] = AsPadding(@)])
           /\ Len([nodes EXCEPT ![i] = AsPadding(@)]) = Len(nodes)
<1> DEFINE b == nodes[i]
           p == Padding(b.length, b.last)
           M == <<b>>
           N == <<p>>
<1>1. nodes \in Seq(Block) /\ i \in 1..Len(nodes) /\ i # 1
  BY KnownRead
<1>2. PICK A, C : SplitAt(nodes, i, A, C)
  BY <1>1, TakenOut
<1>3. Divides(nodes, A, b, C)
  BY <1>1, <1>2, KnownSplit
<1>4. A # <<>> /\ nodes = Among(A, <<b>>, C)
  BY <1>1, <1>2 DEF SplitAt
<1>5. /\ A \in Seq(Block) /\ C \in Seq(Block) /\ b \in Block
      /\ b.last <=> C = <<>>
      /\ TotalSize(nodes) = TotalSize(A) + Size(b) + TotalSize(C)
      /\ TotalSize(nodes) <= MaxRoom
      /\ TotalSize(A) \in Nat /\ TotalSize(C) \in Nat /\ Size(b) \in Nat
  BY <1>3 DEF Divides
<1>6. b.length \in Nat /\ b.last \in BOOLEAN
  BY <1>5 DEF Block
<1>7. p \in Block /\ ~IsInfo(p) /\ p.last = b.last /\ p.length = b.length
  BY <1>6, PaddingIs
<1>8. Size(p) = Size(b)
  BY <1>7 DEF Size
<1>9. [nodes EXCEPT ![i] = AsPadding(@)] = [nodes EXCEPT ![i] = p]
  BY DEF AsPadding
<1> HIDE DEF b, p
<1>10. [nodes EXCEPT ![i] = p] = Among(A, <<p>>, C)
  BY <1>1, <1>2, <1>7, ReplacedOne
<1>11. Len([nodes EXCEPT ![i] = p]) = Len(nodes)
  BY <1>1
<1>12. M \in Seq(Block) /\ M # <<>>
  BY <1>5, Single
<1>13. N \in Seq(Block) /\ N # <<>> /\ TotalSize(N) = Size(p)
  BY <1>7, Single
<1>14. Shaped(N, A = <<>>, C = <<>>)
  <2> DEFINE front == A = <<>>
             end == C = <<>>
  <2>1. (IsInfo(p) <=> front) /\ (p.last <=> end) /\ front \in BOOLEAN /\ end \in BOOLEAN
    BY <1>4, <1>5, <1>7
  <2> HIDE DEF front, end
  <2>2. Shaped(<<p>>, front, end)
    BY <1>7, <2>1, ShapedOne
  <2> QED
    BY <2>2 DEF front, end
<1>15. Known(Among(A, M, C))
  BY <1>4
<1> HIDE DEF M, N
<1>16. TotalSize(A) + TotalSize(N) + TotalSize(C) <= MaxRoom
  BY <1>5, <1>8, <1>13
<1>17. Known(Among(A, N, C))
  BY <1>5, <1>12, <1>13, <1>14, <1>15, <1>16, Exchanged
<1> QED
  BY <1>9, <1>10, <1>11, <1>17 DEF N

LEMMA InsertedBeforeKnown ==
    ASSUME NEW nodes, Known(nodes), NEW i \in 2..Len(nodes), NEW b \in Block, ~IsInfo(b),
           TotalSize(nodes) + Size(b) <= MaxRoom
    PROVE  Known(InsertedBefore(nodes, i, b)) /\ Len(InsertedBefore(nodes, i, b)) = Len(nodes) + 1
<1> DEFINE d == nodes[i]
           e == Mark(b, FALSE)
           M == <<d>>
           N == <<e, d>>
<1>1. nodes \in Seq(Block) /\ i \in 1..Len(nodes) /\ i # 1 /\ Len(nodes) \in Nat
  BY KnownRead
<1>2. PICK A, C : SplitAt(nodes, i, A, C)
  BY <1>1, TakenOut
<1>3. Divides(nodes, A, d, C)
  BY <1>1, <1>2, KnownSplit
<1>4. A # <<>> /\ nodes = Among(A, <<d>>, C)
  BY <1>1, <1>2 DEF SplitAt
<1>5. /\ A \in Seq(Block) /\ C \in Seq(Block) /\ d \in Block
      /\ d.last <=> C = <<>>
      /\ IsInfo(d) <=> A = <<>>
      /\ TotalSize(nodes) = TotalSize(A) + Size(d) + TotalSize(C)
      /\ TotalSize(A) \in Nat /\ TotalSize(C) \in Nat /\ Size(d) \in Nat
  BY <1>3 DEF Divides
<1>6. e \in Block /\ e.last = FALSE /\ Size(e) = Size(b) /\ ~IsInfo(e)
  BY MarkIs
<1>7. InsertedBefore(nodes, i, b) = Among(A, <<e>>, <<d>> \o C)
  BY <1>2 DEF InsertedBefore, InsertAt, SplitAt, Among, Mark
<1> HIDE DEF d, e
<1>8. Among(A, <<e, d>>, C) = Among(A, <<e>>, <<d>> \o C)
  BY <1>5, <1>6, TwoOfThem
<1>9. M \in Seq(Block) /\ M # <<>>
  BY <1>5, Single
<1>10. N \in Seq(Block) /\ N # <<>> /\ TotalSize(N) = Size(e) + Size(d)
  BY <1>5, <1>6, Pair
<1>11. Shaped(N, A = <<>>, C = <<>>)
  <2> DEFINE front == A = <<>>
             end == C = <<>>
  <2>1. /\ IsInfo(e) <=> front
        /\ ~IsInfo(d) /\ ~e.last
        /\ d.last <=> end
        /\ front \in BOOLEAN /\ end \in BOOLEAN
    BY <1>4, <1>5, <1>6
  <2> HIDE DEF front, end
  <2>2. Shaped(<<e, d>>, front, end)
    BY <1>5, <1>6, <2>1, ShapedPair
  <2> QED
    BY <2>2 DEF front, end
<1>12. Known(Among(A, M, C))
  BY <1>4
<1>13. Size(b) \in Nat /\ MaxRoom \in Nat
  BY ClientAssumption, Single
<1> HIDE DEF M, N
<1>14. TotalSize(A) + TotalSize(N) + TotalSize(C) <= MaxRoom
  BY <1>5, <1>6, <1>10, <1>13
<1>15. Known(Among(A, N, C))
  BY <1>5, <1>9, <1>10, <1>11, <1>12, <1>14, Exchanged
<1>16. Len(InsertedBefore(nodes, i, b)) = Len(nodes) + 1
  <2> DEFINE s == SubSeq(nodes, 1, i - 1)
             t == SubSeq(nodes, i, Len(nodes))
             m == <<e>>
  <2>1. InsertedBefore(nodes, i, b) = (s \o m) \o t
    BY DEF InsertedBefore, InsertAt, e, Mark
  <2>2. s \in Seq(Block) /\ t \in Seq(Block) /\ m \in Seq(Block) /\ Len(m) = 1
    BY <1>1, <1>6
  <2>3. Len(s) = i - 1 /\ Len(t) = Len(nodes) - i + 1
    BY <1>1
  <2> HIDE DEF s, t, m
  <2>4. s \o m \in Seq(Block) /\ Len(s \o m) = Len(s) + 1
    <3>1. s \o m \in Seq(Block)
      BY <2>2, Joined
    <3>2. Len(s \o m) = Len(s) + Len(m)
      BY <2>2, Joined
    <3> QED
      BY <2>2, <3>1, <3>2
  <2>5. Len((s \o m) \o t) = Len(s \o m) + Len(t)
    BY <2>2, <2>4, Joined
  <2> QED
    BY <1>1, <2>1, <2>3, <2>4, <2>5
<1> QED
  BY <1>7, <1>8, <1>15, <1>16 DEF N

LEMMA ShapedThree ==
    ASSUME NEW A \in Seq(Block), NEW N \in Seq(Block), NEW C \in Seq(Block), N # <<>>,
           Shaped(A, TRUE, FALSE), Shaped(N, A = <<>>, FALSE), Shaped(C, FALSE, TRUE)
    PROVE  Shaped(Among(A, N, C), TRUE, C # <<>>)
<1> DEFINE true == TRUE
           false == FALSE
           X == A \o N
<1>1. (false /\ N = <<>>) = FALSE /\ (true /\ A = <<>>) = (A = <<>>)
  OBVIOUS
<1>2. Shaped(A, true, false /\ N = <<>>) /\ Shaped(N, true /\ A = <<>>, false)
  BY <1>1
<1>3. true \in BOOLEAN /\ false \in BOOLEAN
  OBVIOUS
<1> HIDE DEF true, false
<1>4. Shaped(A \o N, true, false)
  BY <1>2, <1>3, ShapedJoined
<1>5. X \in Seq(Block) /\ X # <<>> /\ Shaped(X, TRUE, FALSE)
  <2>1. X \in Seq(Block)
    BY Empties
  <2>2. X # <<>>
    BY Empties
  <2>3. Shaped(X, TRUE, FALSE)
    BY <1>4 DEF true, false
  <2> QED
    BY <2>1, <2>2, <2>3
<1> HIDE DEF X
<1>6. Shaped(X \o C, TRUE, C # <<>>)
  BY <1>5, JoinedShape
<1> QED
  BY <1>6 DEF X, Among

LEMMA InsertedAfterKnown ==
    ASSUME NEW nodes, Known(nodes), NEW i \in 1..Len(nodes), NEW b \in Block, ~IsInfo(b), ~b.last,
           TotalSize(nodes) + Size(b) <= MaxRoom
    PROVE  Known(InsertedAfter(nodes, i, b)) /\ Len(InsertedAfter(nodes, i, b)) = Len(nodes) + 1
<1> DEFINE d == nodes[i]
           e == Mark(d, FALSE)
           m == [nodes EXCEPT ![i] = e]
           N == <<e, b>>
<1>1. nodes \in Seq(Block) /\ i \in 1..Len(nodes) /\ Len(nodes) \in Nat
  BY KnownRead
<1>2. PICK A, C : SplitAt(nodes, i, A, C)
  BY <1>1, TakenOut
<1>3. Divides(nodes, A, d, C)
  BY <1>1, <1>2, KnownSplit
<1>4. /\ A \in Seq(Block) /\ C \in Seq(Block) /\ d \in Block
      /\ IsInfo(d) <=> A = <<>>
      /\ Shaped(A, TRUE, FALSE) /\ Shaped(C, FALSE, TRUE)
      /\ TotalSize(nodes) = TotalSize(A) + Size(d) + TotalSize(C)
      /\ TotalSize(A) \in Nat /\ TotalSize(C) \in Nat /\ Size(d) \in Nat
  BY <1>3 DEF Divides
<1>5. e \in Block /\ e.last = FALSE /\ Size(e) = Size(d) /\ (IsInfo(e) <=> IsInfo(d))
  BY <1>4, MarkIs
<1>6. [nodes EXCEPT ![i].last = FALSE] = m
  BY DEF Mark
<1> HIDE DEF d, e
<1>7. m = Among(A, <<e>>, C) /\ Len(m) = Len(nodes) /\ m \in Seq(Block) /\ m[i] = e
  <2>1. m = Among(A, <<e>>, C)
    BY <1>1, <1>2, <1>5, ReplacedOne
  <2>2. Len(m) = Len(nodes) /\ m \in Seq(Block) /\ m[i] = e
    BY <1>1, <1>5
  <2> QED
    BY <2>1, <2>2
<1> HIDE DEF m
<1> DEFINE X == InsertAt(m, i + 1, b)
<1>8. InsertedAfter(nodes, i, b) = Flagged(X, TRUE)
  BY <1>6 DEF InsertedAfter
<1>9. /\ SubSeq(m, 1, i) = A \o <<e>>
      /\ SubSeq(m, i + 1, Len(m)) = C
  <2>1. Len(A) = i - 1 /\ Len(A) + 1 = i
    BY <1>1, <1>2 DEF SplitAt
  <2>2. m = (A \o <<e>>) \o C
    BY <1>7 DEF Among
  <2>3. /\ SubSeq(m, 1, Len(A) + 1) = A \o <<e>>
        /\ SubSeq(m, (Len(A) + 1) + 1, Len(m)) = C
    <3> DEFINE x == (A \o <<e>>) \o C
               k == Len(A) + 1
    <3>1. SubSeq(x, 1, k) = A \o <<e>>
      BY <1>4, <1>5, Located
    <3>2. SubSeq(x, k + 1, Len(x)) = C
      BY <1>4, <1>5, Located
    <3>3. m = x
      BY <2>2
    <3> HIDE DEF x, k
    <3>4. SubSeq(m, 1, k) = A \o <<e>> /\ SubSeq(m, k + 1, Len(m)) = C
      BY <3>1, <3>2, <3>3
    <3> QED
      BY <3>4 DEF k
  <2> QED
    BY <2>1, <2>3
<1>10. X = Among(A \o <<e>>, <<b>>, C)
  <2>1. (i + 1) - 1 = i
    BY <1>1
  <2>2. X = (SubSeq(m, 1, (i + 1) - 1) \o <<b>>) \o SubSeq(m, i + 1, Len(m))
    BY DEF InsertAt
  <2> QED
    BY <1>9, <2>1, <2>2 DEF Among
<1>11. Among(A, <<e, b>>, C) = Among(A \o <<e>>, <<b>>, C)
  BY <1>4, <1>5, TwoOfThem
<1>12. N \in Seq(Block) /\ N # <<>> /\ TotalSize(N) = Size(e) + Size(b)
  BY <1>5, Pair
<1>13. Shaped(N, A = <<>>, FALSE)
  <2> DEFINE front == A = <<>>
             end == FALSE
  <2>1. /\ IsInfo(e) <=> front
        /\ ~IsInfo(b) /\ ~e.last
        /\ b.last <=> end
        /\ front \in BOOLEAN /\ end \in BOOLEAN
    BY <1>4, <1>5
  <2> HIDE DEF front, end
  <2>2. Shaped(<<e, b>>, front, end)
    BY <1>5, <2>1, ShapedPair
  <2> QED
    BY <2>2 DEF front, end
<1>14. X = Among(A, N, C)
  BY <1>10, <1>11
<1>15. Size(b) \in Nat /\ MaxRoom \in Nat
  BY ClientAssumption, Single
<1> HIDE DEF N, X
<1>16. Shaped(X, TRUE, C # <<>>)
  BY <1>4, <1>12, <1>13, <1>14, ShapedThree
<1>17. X \in Seq(Block) /\ TotalSize(X) = TotalSize(A) + TotalSize(N) + TotalSize(C)
  <2>1. Among(A, N, C) \in Seq(Block)
    BY <1>4, <1>12, AmongIs
  <2>2. TotalSize(Among(A, N, C)) = TotalSize(A) + TotalSize(N) + TotalSize(C)
    BY <1>4, <1>12, AmongSize
  <2> QED
    BY <1>14, <2>1, <2>2
<1>18. TotalSize(X) <= MaxRoom
  BY <1>4, <1>5, <1>12, <1>15, <1>17
<1>19. Len(X) = Len(nodes) + 1
  <2> DEFINE s == SubSeq(m, 1, i)
             t == SubSeq(m, i + 1, Len(m))
             o == <<b>>
  <2>1. X = (s \o o) \o t
    BY <1>9, <1>10 DEF Among
  <2>2. s \in Seq(Block) /\ t \in Seq(Block) /\ o \in Seq(Block) /\ Len(o) = 1
    BY <1>1, <1>7
  <2>3. Len(s) = i /\ Len(t) = Len(nodes) - i
    BY <1>1, <1>7
  <2> HIDE DEF s, t, o
  <2>4. s \o o \in Seq(Block) /\ Len(s \o o) = Len(s) + Len(o)
    BY <2>2, Joined
  <2>5. Len((s \o o) \o t) = Len(s \o o) + Len(t)
    BY <2>2, <2>4, Joined
  <2> QED
    BY <1>1, <2>1, <2>2, <2>3, <2>4, <2>5
<1>20. X # <<>>
  BY <1>1, <1>17, <1>19, EmptyLength
<1>21. Known(Flagged(X, TRUE))
  BY <1>16, <1>17, <1>18, <1>20, KnownFlagged
<1>22. Reflagged(Flagged(X, TRUE), X, TRUE)
  BY <1>17, <1>20, FlaggedIs
<1>23. Len(Flagged(X, TRUE)) = Len(X)
  BY <1>22 DEF Reflagged
<1> QED
  BY <1>8, <1>19, <1>21, <1>23

-----------------------------------------------------------------------------
(* The preparation of a write.                                             *)
PreparedSo(p, c, needed) ==
    /\ p \in Seq(Block) /\ WellFormed(p)
    /\ Content(p) = Content(c.nodes)
    /\ TotalSize(p) \in {TotalSize(c.nodes), c.initial_length}
    /\ needed <=> TotalSize(p) # c.initial_length

LEMMA ContentAndNothing ==
    ASSUME NEW bs \in Seq(Block), NEW said, said = <<>>
    PROVE  Content(bs) \o said = Content(bs)
<1> DEFINE t == Content(bs)
<1>1. t \in Seq(Texts)
  BY BlocksAreEntries, ContentType
<1> HIDE DEF t
<1>2. t \o said = t
  BY <1>1
<1> QED
  BY <1>2 DEF t

LEMMA ShapedIsWell ==
    ASSUME NEW Y \in Seq(Block), Y # <<>>, Shaped(Y, TRUE, TRUE)
    PROVE  WellFormed(Y)
BY WellShaped

LEMMA PreparedIs ==
    ASSUME NEW c, Known(c.nodes), c.initial_length \in Nat, NEW use_padding \in BOOLEAN
    PROVE  PreparedSo(Prepared(c, use_padding), c, TempfileNeeded(c, use_padding))
<1> DEFINE nodes == c.nodes
           tail == Last(nodes)
           size == TotalSize(nodes)
           init == c.initial_length
           room == init - size
           long == tail.length
           whole == Size(tail)
           head == HeaderLength
           padded == IsPadding(tail)
           p == Prepared(c, use_padding)
           needed == TempfileNeeded(c, use_padding)
           n == Len(nodes)
<1> SUFFICES PreparedSo(p, c, needed)
  OBVIOUS
<1>1. p = IF ~use_padding THEN nodes
          ELSE IF room > 0 /\ padded THEN Stretched(nodes, room)
          ELSE IF room >= head THEN Appended(nodes, Padding(room - head, TRUE))
          ELSE IF room < 0 /\ padded /\ whole = -room THEN Removed(nodes, n)
          ELSE IF room < 0 /\ padded /\ long >= -room THEN Stretched(nodes, room)
          ELSE nodes
  BY DEF Prepared
<1>2. needed <=> /\ room # 0
                 /\ use_padding =>
                       /\ ~(room > 0 /\ padded)
                       /\ room < head
                       /\ ~(room < 0 /\ padded /\ (whole = -room \/ long >= -room))
  BY DEF TempfileNeeded
<1>3. /\ nodes \in Seq(Block) /\ nodes # <<>> /\ WellFormed(nodes) /\ Shaped(nodes, TRUE, TRUE)
      /\ n \in 1..Len(nodes)
  <2>1. nodes \in Seq(Block) /\ nodes # <<>> /\ WellFormed(nodes)
    BY KnownRead DEF Known
  <2> HIDE DEF nodes
  <2>2. Shaped(nodes, TRUE, TRUE)
    BY <2>1, WellShaped
  <2>3. n \in 1..Len(nodes)
    BY <2>1, EmptyLength
  <2> QED
    BY <2>1, <2>2, <2>3
<1>4. tail \in Block /\ tail = nodes[n]
  BY <1>3 DEF Last
<1>5. size \in Nat /\ init \in Nat
  BY <1>3, BlocksAreEntries, SizesType
<1>6. long \in Nat /\ whole = 4 + long /\ head = 4
  BY <1>4, Single DEF HeaderLength
<1>7. Known(nodes)
  OBVIOUS
<1>8. ASSUME p \in Seq(Block), WellFormed(p), Content(p) = Content(nodes),
             TotalSize(p) = init, ~needed
      PROVE  PreparedSo(p, c, needed)
  BY <1>8 DEF PreparedSo
<1>9. n \in Nat
  BY <1>3
<1>10. room \in Int /\ (room = 0 <=> size = init) /\ size + room = init
  <2> HIDE DEF size, init
  <2> QED
    BY <1>5
<1>11. ASSUME p = nodes, needed <=> room # 0
       PROVE  PreparedSo(p, c, needed)
  <2>1. TotalSize(p) = size /\ Content(p) = Content(nodes)
    BY <1>11
  <2>2. needed <=> TotalSize(p) # init
    BY <1>10, <1>11, <2>1
  <2>3. p \in Seq(Block) /\ WellFormed(p)
    BY <1>3, <1>11
  <2> HIDE DEF p, needed, nodes
  <2> QED
    BY <2>1, <2>2, <2>3 DEF PreparedSo, nodes
<1> HIDE DEF nodes, size, init, long, whole, head, padded, p, needed, tail, n, room
<1>12. ASSUME room + long \in Nat, p = Stretched(nodes, room), ~needed
       PROVE  PreparedSo(p, c, needed)
  <2>1. Last(nodes).length + room \in Nat
    <3>1. Last(nodes).length = long
      BY DEF long, tail
    <3>2. long + room \in Nat
      BY <1>6, <1>10, <1>12
    <3> QED
      BY <3>1, <3>2
  <2>2. StretchedSo(p, nodes, room)
    BY <1>3, <1>10, <1>12, <2>1, StretchedIs
  <2>3. Shaped(p, TRUE, TRUE)
    BY <1>3, <2>2, StretchedShaped
  <2>4. p \in Seq(Block) /\ p # <<>> /\ Content(p) = Content(nodes) /\ TotalSize(p) = size + room
    BY <2>2 DEF StretchedSo, size
  <2>5. TotalSize(p) = init
    BY <1>10, <2>4
  <2>6. WellFormed(p)
    BY <2>3, <2>4, ShapedIsWell
  <2> QED
    BY <1>8, <1>12, <2>4, <2>5, <2>6
<1>13. CASE ~use_padding
  BY <1>1, <1>2, <1>11, <1>13
<1>14. CASE use_padding /\ room > 0 /\ padded
  <2>1. room + long \in Nat
    BY <1>6, <1>10, <1>14
  <2>2. p = Stretched(nodes, room) /\ ~needed
    <3>1. p = Stretched(nodes, room)
      BY <1>1, <1>14
    <3>2. ~needed
      BY <1>2, <1>14
    <3> QED
      BY <3>1, <3>2
  <2> QED
    BY <1>12, <2>1, <2>2
<1>15. CASE use_padding /\ ~(room > 0 /\ padded) /\ room >= head
  <2> DEFINE k == room - head
             b == Padding(k, TRUE)
  <2>1. k \in Nat /\ 4 + k = room
    BY <1>6, <1>10, <1>15
  <2>2. p = Appended(nodes, b) /\ ~needed
    <3>1. p = Appended(nodes, b)
      BY <1>1, <1>15
    <3>2. ~needed
      BY <1>2, <1>6, <1>10, <1>15
    <3> QED
      BY <3>1, <3>2
  <2> HIDE DEF k
  <2>3. b \in Block /\ ~IsInfo(b) /\ Size(b) = 4 + k /\ Said(b) = <<>>
    BY <2>1, PaddingIs
  <2> HIDE DEF b
  <2>4. AppendedSo(p, nodes, b)
    BY <1>7, <2>2, <2>3, AppendedIs
  <2>5. p \in Seq(Block) /\ p # <<>> /\ Shaped(p, TRUE, TRUE) /\ TotalSize(p) = size + Size(b)
    BY <2>4 DEF AppendedSo, size
  <2>6. Content(p) = Content(nodes)
    <3>1. Content(p) = Content(nodes) \o Said(b)
      BY <2>4 DEF AppendedSo
    <3> QED
      BY <1>3, <2>3, <3>1, ContentAndNothing
  <2>7. TotalSize(p) = init
    BY <1>5, <1>10, <2>1, <2>3, <2>5
  <2>8. WellFormed(p)
    BY <2>5, ShapedIsWell
  <2> QED
    BY <1>8, <2>2, <2>5, <2>6, <2>7, <2>8
<1>16. CASE use_padding /\ room < 0 /\ padded /\ whole = -room
  <2>1. p = Removed(nodes, n) /\ ~needed
    <3>1. p = Removed(nodes, n)
      <4>1. ~(room > 0) /\ ~(room >= head)
        BY <1>6, <1>10, <1>16
      <4> QED
        BY <1>1, <1>16, <4>1
    <3>2. ~needed
      BY <1>2, <1>6, <1>10, <1>16
    <3> QED
      BY <3>1, <3>2
  <2>2. ~IsInfo(nodes[n])
    BY <1>4, <1>16 DEF padded, IsPadding, IsInfo
  <2>3. PICK A, C : SplitAt(nodes, n, A, C)
    BY <1>3, TakenOut
  <2>4. Divides(nodes, A, nodes[n], C)
    BY <1>3, <1>7, <2>3, KnownSplit
  <2>5. n \in 2..Len(nodes)
    <3>1. n # 1
      BY <2>2, <2>3, <2>4 DEF Divides, SplitAt
    <3> QED
      BY <1>3, <3>1
  <2>6. Known(Removed(nodes, n))
    BY <1>7, <2>3, <2>5, RemovedIs
  <2>7. TotalSize(Removed(nodes, n)) = TotalSize(nodes) - Size(nodes[n])
    BY <1>7, <2>3, <2>5, RemovedIs
  <2>8. Content(Removed(nodes, n)) = Content(A) \o Content(C)
    BY <1>7, <2>3, <2>5, RemovedIs
  <2>9. Content(nodes) = Among(Content(A), Said(nodes[n]), Content(C))
    BY <2>4 DEF Divides
  <2>10. Said(nodes[n]) = <<>>
    BY <1>4, <1>16 DEF padded, Said, IsPadding
  <2>11. A \in Seq(Block)
    BY <2>3 DEF SplitAt
  <2>12. Content(A) \o Said(nodes[n]) = Content(A)
    BY <2>10, <2>11, ContentAndNothing
  <2>13. Content(p) = Content(nodes)
    BY <2>1, <2>8, <2>9, <2>12 DEF Among
  <2>14. TotalSize(p) = init
    <3>1. TotalSize(p) = size - whole
      BY <1>4, <2>1, <2>7 DEF size, whole
    <3> QED
      BY <1>5, <1>6, <1>10, <1>16, <3>1
  <2>15. p \in Seq(Block) /\ WellFormed(p)
    BY <2>1, <2>6 DEF Known
  <2> QED
    BY <1>8, <2>1, <2>13, <2>14, <2>15
<1>17. CASE use_padding /\ room < 0 /\ padded /\ whole # -room /\ long >= -room
  <2>1. room + long \in Nat
    BY <1>6, <1>10, <1>17
  <2>2. p = Stretched(nodes, room) /\ ~needed
    <3>1. p = Stretched(nodes, room)
      <4>1. ~(room > 0) /\ ~(room >= head)
        BY <1>6, <1>10, <1>17
      <4> QED
        BY <1>1, <1>17, <4>1
    <3>2. ~needed
      BY <1>2, <1>6, <1>10, <1>17
    <3> QED
      BY <3>1, <3>2
  <2> QED
    BY <1>12, <2>1, <2>2
<1>18. CASE /\ use_padding /\ ~(room > 0 /\ padded) /\ ~(room >= head)
            /\ ~(room < 0 /\ padded /\ whole = -room)
            /\ ~(room < 0 /\ padded /\ whole # -room /\ long >= -room)
  <2>1. p = nodes
    BY <1>1, <1>18
  <2>2. needed <=> room # 0
    BY <1>2, <1>6, <1>10, <1>18
  <2> QED
    BY <1>11, <2>1, <2>2
<1> QED
  BY <1>13, <1>14, <1>15, <1>16, <1>17, <1>18

-----------------------------------------------------------------------------
(* The steps of level 2.                                                   *)
Chains == [mode : {"file", "callbacks"}, nodes : Seq(Block), initial_length : Nat, last_offset : Nat]

(* A chain of a file that is not torn.                                     *)
LEMMA ChainIs ==
    ASSUME IInv, chain # NoChain, torn = "no"
    PROVE  /\ chain \in Chains /\ Known(chain.nodes)
           /\ current \in 0..Len(chain.nodes) /\ Len(chain.nodes) \in Nat
           /\ \E bs : /\ Known(bs) /\ file = FileOf(bs)
                      /\ chain.initial_length = TotalSize(bs)
                      /\ chain.last_offset = FirstOffset + TotalSize(bs)
<1>1. chain \in Chains /\ current \in 0..Len(chain.nodes)
  BY DEF IInv, TypeOK, Chains
<1>2. Known(chain.nodes) /\ Len(chain.nodes) \in Nat
  <2>1. Known(chain.nodes)
    BY DEF IInv, ChainInv
  <2>2. chain.nodes \in Seq(Block)
    BY <2>1 DEF Known
  <2> QED
    BY <2>1, <2>2
<1>3. PICK bs : Known(bs) /\ file = FileOf(bs)
  BY DEF IInv, FileInv
<1>4. Blocks(file) = bs
  BY <1>3, KnownRead
<1>5. chain.initial_length = TotalSize(bs) /\ chain.last_offset = FirstOffset + TotalSize(bs)
  BY <1>4 DEF IInv, ChainInv
<1> QED
  BY <1>1, <1>2, <1>3, <1>5

(* What a step of a chain leaves: a file that is known or torn, and a      *)
(* chain that knows it.                                                    *)
Kept ==
    /\ torn' \in Torn
    /\ chain' # NoChain => chain' \in Chains /\ Known(chain'.nodes)
    /\ current' \in 0..Len(chain'.nodes)
    /\ torn' = "no" => \E bs : /\ Known(bs) /\ file' = FileOf(bs)
                               /\ chain' # NoChain =>
                                     /\ chain'.initial_length = TotalSize(bs)
                                     /\ chain'.last_offset = FirstOffset + TotalSize(bs)
    /\ TornInv'

LEMMA KeptAtEnd ==
    ASSUME IInv, ~it.open, it' = it, Kept
    PROVE  IInv'
<1>1. ~it'.usable /\ ~it'.open
  BY DEF IInv, OneAtATime
<1>2. TypeOK'
  <2>1. it' \in Iterators
    BY DEF IInv, TypeOK
  <2> QED
    BY <2>1 DEF TypeOK, Kept, Chains
<1>3. FileInv'
  <2>1. ASSUME torn' = "no" PROVE \E bs : Known(bs) /\ file' = FileOf(bs)
    BY <2>1 DEF Kept
  <2> QED
    BY <1>1, <2>1 DEF FileInv
<1>4. OneAtATime'
  BY <1>1 DEF OneAtATime
<1>5. ChainInv'
  <2>1. ASSUME chain' # NoChain PROVE Known(chain'.nodes)
    BY <2>1 DEF Kept
  <2>2. ASSUME chain' # NoChain, torn' = "no"
        PROVE  /\ chain'.initial_length = TotalSize(Blocks(file'))
               /\ chain'.last_offset = FirstOffset + chain'.initial_length
    <3>1. PICK bs : /\ Known(bs) /\ file' = FileOf(bs)
                    /\ chain'.initial_length = TotalSize(bs)
                    /\ chain'.last_offset = FirstOffset + TotalSize(bs)
      BY <2>2 DEF Kept
    <3>2. Blocks(file') = bs
      BY <3>1, KnownRead
    <3> QED
      BY <3>1, <3>2
  <2> QED
    BY <2>1, <2>2 DEF ChainInv
<1>6. TornInv'
  BY DEF Kept
<1> QED
  BY <1>2, <1>3, <1>4, <1>5, <1>6 DEF IInv

(* Edits in memory.                                                        *)
LEMMA EditKept ==
    ASSUME IInv, chain # NoChain, torn = "no", UNCHANGED files, NEW nodes, Known(nodes),
           chain' = [chain EXCEPT !.nodes = nodes], current' \in 0..Len(nodes)
    PROVE  Kept
<1>1. chain \in Chains
  BY ChainIs
<1>2. PICK bs : /\ Known(bs) /\ file = FileOf(bs)
                /\ chain.initial_length = TotalSize(bs)
                /\ chain.last_offset = FirstOffset + TotalSize(bs)
  BY ChainIs
<1>3. nodes \in Seq(Block)
  BY DEF Known
<1>4. /\ chain' \in Chains /\ chain'.nodes = nodes
      /\ chain'.initial_length = chain.initial_length /\ chain'.last_offset = chain.last_offset
  BY <1>1, <1>3 DEF Chains
<1>5. torn' = "no" /\ torn' \in Torn /\ file' = file
  BY DEF files, IInv, TypeOK
<1>6. ASSUME torn' = "no" PROVE \E cs : /\ Known(cs) /\ file' = FileOf(cs)
                                        /\ chain' # NoChain =>
                                              /\ chain'.initial_length = TotalSize(cs)
                                              /\ chain'.last_offset = FirstOffset + TotalSize(cs)
  BY <1>2, <1>4, <1>5
<1> QED
  BY <1>4, <1>5, <1>6 DEF Kept, TornInv

LEMMA SameKept ==
    ASSUME IInv, chain # NoChain, torn = "no", UNCHANGED <<chain, files>>, current' \in 0..Len(chain.nodes)
    PROVE  Kept
<1>1. chain \in Chains /\ Known(chain.nodes)
  BY ChainIs
<1>2. PICK bs : /\ Known(bs) /\ file = FileOf(bs)
                /\ chain.initial_length = TotalSize(bs)
                /\ chain.last_offset = FirstOffset + TotalSize(bs)
  BY ChainIs
<1>3. torn' = "no" /\ torn' \in Torn /\ file' = file /\ chain' = chain
  BY DEF files, IInv, TypeOK
<1> QED
  BY <1>1, <1>2, <1>3 DEF Kept, TornInv

LEMMA ReadKept ==
    ASSUME IInv, torn = "no", ChainRead
    PROVE  Kept
<1>1. PICK bs : Known(bs) /\ file = FileOf(bs)
  BY DEF IInv, FileInv
<1>2. Blocks(file) = bs /\ bs \in Seq(Block)
  BY <1>1, KnownRead
<1>3. PICK mode \in {"file", "callbacks"} :
         chain' = [mode |-> mode, nodes |-> bs, initial_length |-> TotalSize(bs),
                   last_offset |-> FirstOffset + TotalSize(bs)]
  BY <1>2 DEF ChainRead
<1>4. TotalSize(bs) \in Nat /\ FirstOffset \in Nat
  BY <1>2, BlocksAreEntries, SizesType, FileAssumption DEF FirstOffset
<1>5. /\ chain' \in Chains /\ chain'.nodes = bs
      /\ chain'.initial_length = TotalSize(bs)
      /\ chain'.last_offset = FirstOffset + TotalSize(bs)
  BY <1>2, <1>3, <1>4 DEF Chains
<1>6. torn' = "no" /\ torn' \in Torn /\ file' = file /\ current' = 0
  BY DEF files, IInv, TypeOK, ChainRead
<1>7. current' \in 0..Len(chain'.nodes)
  BY <1>2, <1>5, <1>6
<1>8. Known(chain'.nodes)
  BY <1>1, <1>5
<1>9. ASSUME torn' = "no" PROVE \E cs : /\ Known(cs) /\ file' = FileOf(cs)
                                        /\ chain' # NoChain =>
                                              /\ chain'.initial_length = TotalSize(cs)
                                              /\ chain'.last_offset = FirstOffset + TotalSize(cs)
  BY <1>1, <1>5, <1>6
<1> QED
  BY <1>5, <1>6, <1>7, <1>8, <1>9 DEF Kept, TornInv

LEMMA ChainDeleteKept ==
    ASSUME IInv, torn = "no", ChainDelete
    PROVE  Kept
<1>1. PICK bs : Known(bs) /\ file = FileOf(bs)
  BY DEF IInv, FileInv
<1>2. torn' = "no" /\ torn' \in Torn /\ file' = file /\ current' = 0 /\ chain' = NoChain
  BY DEF files, IInv, TypeOK, ChainDelete
<1>3. current' \in 0..Len(chain'.nodes)
  BY <1>2 DEF NoChain
<1> QED
  BY <1>1, <1>2, <1>3 DEF Kept, TornInv

LEMMA EditedKept ==
    ASSUME IInv, chain # NoChain, torn = "no", NEW op, NEW b, NEW nodes, NEW at,
           Edited(op, b, nodes, at), Known(nodes), at \in 0..Len(nodes)
    PROVE  Kept
<1>1. UNCHANGED files /\ chain' = [chain EXCEPT !.nodes = nodes] /\ current' \in 0..Len(nodes)
  BY DEF Edited
<1> QED
  BY <1>1, EditKept

LEMMA RefusedKept ==
    ASSUME IInv, chain # NoChain, torn = "no", NEW op, NEW b, RefusedEdit(op, b)
    PROVE  Kept
<1>1. UNCHANGED <<chain, files>> /\ current' = current
  BY DEF RefusedEdit
<1>2. current \in 0..Len(chain.nodes)
  BY ChainIs
<1> QED
  BY <1>1, <1>2, SameKept

LEMMA HasChain ==
    ASSUME IInv, torn = "no", current > 0
    PROVE  /\ chain # NoChain /\ Known(chain.nodes)
           /\ current \in 1..Len(chain.nodes) /\ Len(chain.nodes) \in Nat
<1>1. chain # NoChain
  <2>1. ASSUME chain = NoChain PROVE FALSE
    <3>1. current \in 0..Len(chain.nodes)
      BY DEF IInv, TypeOK
    <3>2. Len(chain.nodes) = 0
      BY <2>1 DEF NoChain
    <3> QED
      BY <3>1, <3>2
  <2> QED
    BY <2>1
<1>2. Known(chain.nodes) /\ current \in 0..Len(chain.nodes) /\ Len(chain.nodes) \in Nat
  BY <1>1, ChainIs
<1> QED
  BY <1>1, <1>2

LEMMA IteratorKept ==
    ASSUME IInv, torn = "no", IteratorInit \/ IteratorNext \/ IteratorPrev
    PROVE  Kept
<1>1. CASE IteratorInit
  <2>1. chain # NoChain /\ UNCHANGED <<chain, files>> /\ current' = 1
    BY <1>1 DEF IteratorInit
  <2>2. Known(chain.nodes) /\ Len(chain.nodes) \in Nat
    BY <2>1, ChainIs
  <2>3. chain.nodes \in Seq(Block) /\ chain.nodes # <<>>
    BY <2>2, KnownRead
  <2>4. current' \in 0..Len(chain.nodes)
    BY <2>1, <2>3
  <2> QED
    BY <2>1, <2>4, SameKept
<1>2. CASE IteratorNext
  <2>1. UNCHANGED <<chain, files>> /\ current' = current + 1 /\ current \in 1..(Len(chain.nodes) - 1)
    BY <1>2 DEF IteratorNext
  <2>2. current > 0
    BY <2>1
  <2>3. chain # NoChain /\ Len(chain.nodes) \in Nat
    BY <2>2, HasChain
  <2>4. current' \in 0..Len(chain.nodes)
    BY <2>1, <2>3
  <2> QED
    BY <2>1, <2>3, <2>4, SameKept
<1>3. CASE IteratorPrev
  <2>1. UNCHANGED <<chain, files>> /\ current' = current - 1 /\ current > 1
    BY <1>3 DEF IteratorPrev
  <2>2. current > 0
    <3>1. current \in Int
      BY DEF IInv, TypeOK
    <3> QED
      BY <2>1, <3>1
  <2>3. chain # NoChain /\ Len(chain.nodes) \in Nat /\ current \in 1..Len(chain.nodes)
    BY <2>2, HasChain
  <2>4. current' \in 0..Len(chain.nodes)
    BY <2>1, <2>3
  <2> QED
    BY <2>1, <2>3, <2>4, SameKept
<1> QED
  BY <1>1, <1>2, <1>3

LEMMA IteratorDeleteKept ==
    ASSUME IInv, torn = "no", IteratorDelete
    PROVE  Kept
<1>1. current > 0
  BY DEF IteratorDelete
<1>2. /\ chain # NoChain /\ Known(chain.nodes)
      /\ current \in 1..Len(chain.nodes) /\ Len(chain.nodes) \in Nat
  BY <1>1, HasChain
<1>3. CASE current = 1 /\ RefusedEdit("chain delete", Broken)
  BY <1>2, <1>3, RefusedKept
<1>4. CASE /\ current > 1
           /\ Edited("chain delete", Broken,
                     [chain.nodes EXCEPT ![current] = AsPadding(@)], current - 1)
  <2> DEFINE nodes == [chain.nodes EXCEPT ![current] = AsPadding(@)]
  <2>1. current \in 2..Len(chain.nodes)
    <3>1. current > 1
      BY <1>4
    <3> QED
      BY <1>2, <3>1
  <2>2. Known(nodes) /\ Len(nodes) = Len(chain.nodes)
    BY <1>2, <2>1, PaddedKnown
  <2>3. Edited("chain delete", Broken, nodes, current - 1)
    BY <1>4
  <2> HIDE DEF nodes
  <2>4. current - 1 \in 0..Len(nodes)
    BY <1>2, <2>1, <2>2
  <2> QED
    BY <1>2, <2>2, <2>3, <2>4, EditedKept
<1>5. CASE /\ current > 1
           /\ Edited("chain delete", Broken, Removed(chain.nodes, current), current - 1)
  <2> DEFINE nodes == Removed(chain.nodes, current)
  <2>1. current \in 2..Len(chain.nodes)
    <3>1. current > 1
      BY <1>5
    <3> QED
      BY <1>2, <3>1
  <2>2. PICK A, C : SplitAt(chain.nodes, current, A, C)
    <3>1. chain.nodes \in Seq(Block)
      BY <1>2, KnownRead
    <3> QED
      BY <1>2, <3>1, TakenOut
  <2>3. Known(nodes)
    BY <1>2, <2>1, <2>2, RemovedIs
  <2>4. Reflagged(nodes, A \o C, TRUE)
    BY <1>2, <2>1, <2>2, RemovedIs
  <2>5. Len(A \o C) = Len(chain.nodes) - 1
    BY <1>2, <2>1, <2>2, RemovedIs
  <2> HIDE DEF nodes
  <2>6. Len(nodes) = Len(chain.nodes) - 1
    BY <2>4, <2>5 DEF Reflagged
  <2>7. current - 1 \in 0..Len(nodes)
    BY <1>2, <2>1, <2>6
  <2> QED
    BY <1>2, <1>5, <2>3, <2>7, EditedKept DEF nodes
<1> QED
  BY <1>3, <1>4, <1>5 DEF IteratorDelete

(* The blocks a client writes, as those it has made itself, do not say     *)
(* that they are the last.                                                 *)
Unmarked == \A b \in NewBlocks : ~b.last

LEMMA RoomInChain ==
    ASSUME NEW nodes, NEW b \in Fitting(nodes)
    PROVE  b \in Block /\ TotalSize(nodes) + Size(b) <= MaxRoom /\ b \in NewBlocks
BY ClientAssumption DEF Fitting

LEMMA InsertBeforeKept ==
    ASSUME IInv, torn = "no", IteratorInsertBefore
    PROVE  Kept
<1>1. current > 0
  BY DEF IteratorInsertBefore
<1>2. /\ chain # NoChain /\ Known(chain.nodes)
      /\ current \in 1..Len(chain.nodes) /\ Len(chain.nodes) \in Nat
  BY <1>1, HasChain
<1>3. PICK b \in Fitting(chain.nodes) :
         IF b.type = "streaminfo" \/ current = 1
         THEN RefusedEdit("chain insert", b)
         ELSE Edited("chain insert", b, InsertedBefore(chain.nodes, current, b), current)
  BY DEF IteratorInsertBefore
<1>4. b \in Block /\ TotalSize(chain.nodes) + Size(b) <= MaxRoom
  BY RoomInChain
<1>5. CASE b.type = "streaminfo" \/ current = 1
  BY <1>2, <1>3, <1>5, RefusedKept
<1>6. CASE ~(b.type = "streaminfo" \/ current = 1)
  <2> DEFINE nodes == InsertedBefore(chain.nodes, current, b)
  <2>1. current \in 2..Len(chain.nodes) /\ ~IsInfo(b)
    BY <1>2, <1>6 DEF IsInfo
  <2>2. Known(nodes) /\ Len(nodes) = Len(chain.nodes) + 1
    BY <1>2, <1>4, <2>1, InsertedBeforeKnown
  <2>3. Edited("chain insert", b, nodes, current)
    BY <1>3, <1>6
  <2> HIDE DEF nodes
  <2>4. current \in 0..Len(nodes)
    BY <1>2, <2>2
  <2> QED
    BY <1>2, <2>2, <2>3, <2>4, EditedKept
<1> QED
  BY <1>5, <1>6

LEMMA InsertAfterKept ==
    ASSUME IInv, Unmarked, torn = "no", IteratorInsertAfter
    PROVE  Kept
<1>1. current > 0
  BY DEF IteratorInsertAfter
<1>2. /\ chain # NoChain /\ Known(chain.nodes)
      /\ current \in 1..Len(chain.nodes) /\ Len(chain.nodes) \in Nat
  BY <1>1, HasChain
<1>3. PICK b \in Fitting(chain.nodes) :
         IF b.type = "streaminfo" THEN RefusedEdit("chain insert", b)
         ELSE Edited("chain insert", b, InsertedAfter(chain.nodes, current, b), current + 1)
  BY DEF IteratorInsertAfter
<1>4. b \in Block /\ TotalSize(chain.nodes) + Size(b) <= MaxRoom /\ ~b.last
  BY RoomInChain DEF Unmarked
<1>5. CASE b.type = "streaminfo"
  BY <1>2, <1>3, <1>5, RefusedKept
<1>6. CASE b.type # "streaminfo"
  <2> DEFINE nodes == InsertedAfter(chain.nodes, current, b)
  <2>1. ~IsInfo(b)
    BY <1>6 DEF IsInfo
  <2>2. Known(nodes) /\ Len(nodes) = Len(chain.nodes) + 1
    BY <1>2, <1>4, <2>1, InsertedAfterKnown
  <2>3. Edited("chain insert", b, nodes, current + 1)
    BY <1>3, <1>6
  <2> HIDE DEF nodes
  <2>4. current + 1 \in 0..Len(nodes)
    BY <1>2, <2>2
  <2> QED
    BY <1>2, <2>2, <2>3, <2>4, EditedKept
<1> QED
  BY <1>5, <1>6

LEMMA IteratorSetKept ==
    ASSUME IInv, Unmarked, torn = "no", IteratorSet
    PROVE  Kept
<1>1. current > 0
  BY DEF IteratorSet
<1>2. /\ chain # NoChain /\ Known(chain.nodes)
      /\ current \in 1..Len(chain.nodes) /\ Len(chain.nodes) \in Nat
  BY <1>1, HasChain
<1> DEFINE rest == Removed(chain.nodes, current)
<1>3. PICK b \in Fitting(chain.nodes) :
         IF current = 1 THEN RefusedEdit("chain set", b)
         ELSE IF b.type = "streaminfo"
              THEN /\ chain' = [chain EXCEPT !.nodes = rest]
                   /\ current' = current - 1
                   /\ Called("chain set", b, FALSE)
                   /\ UNCHANGED files
              ELSE Edited("chain set", b, InsertedAfter(rest, current - 1, b), current)
  BY DEF IteratorSet
<1>4. b \in Block /\ TotalSize(chain.nodes) + Size(b) <= MaxRoom /\ ~b.last
  BY RoomInChain DEF Unmarked
<1>5. CASE current = 1
  BY <1>2, <1>3, <1>5, RefusedKept
<1>6. CASE current # 1
  <2>1. current \in 2..Len(chain.nodes)
    BY <1>2, <1>6
  <2>2. chain.nodes \in Seq(Block)
    BY <1>2, KnownRead
  <2>3. PICK A, C : SplitAt(chain.nodes, current, A, C)
    BY <1>2, <2>2, TakenOut
  <2>4. Known(rest)
    BY <1>2, <2>1, <2>3, RemovedIs
  <2>5. Reflagged(rest, A \o C, TRUE)
    BY <1>2, <2>1, <2>3, RemovedIs
  <2>6. Len(A \o C) = Len(chain.nodes) - 1
    BY <1>2, <2>1, <2>3, RemovedIs
  <2>7. TotalSize(rest) = TotalSize(chain.nodes) - Size(chain.nodes[current])
    BY <1>2, <2>1, <2>3, RemovedIs
  <2>8. CASE b.type = "streaminfo"
    <3>1. chain' = [chain EXCEPT !.nodes = rest] /\ current' = current - 1 /\ UNCHANGED files
      BY <1>3, <1>6, <2>8
    <3> HIDE DEF rest
    <3>2. current' \in 0..Len(rest)
      BY <1>2, <2>1, <2>5, <2>6, <3>1 DEF Reflagged
    <3> QED
      BY <1>2, <2>4, <3>1, <3>2, EditKept
  <2>9. CASE b.type # "streaminfo"
    <3> DEFINE nodes == InsertedAfter(rest, current - 1, b)
    <3>1. Edited("chain set", b, nodes, current)
      BY <1>3, <1>6, <2>9
    <3>2. ~IsInfo(b)
      BY <2>9 DEF IsInfo
    <3> HIDE DEF rest
    <3>3. Len(rest) = Len(chain.nodes) - 1
      BY <2>5, <2>6 DEF Reflagged
    <3>4. current - 1 \in 1..Len(rest)
      BY <1>2, <2>1, <3>3
    <3>5. TotalSize(rest) + Size(b) <= MaxRoom
      <4>1. chain.nodes[current] \in Block
        BY <1>2, <2>2
      <4>2. Size(chain.nodes[current]) \in Nat /\ Size(b) \in Nat
        BY <1>4, <4>1, Single
      <4>3. TotalSize(chain.nodes) \in Nat /\ MaxRoom \in Nat
        BY <2>2, BlocksAreEntries, SizesType, ClientAssumption
      <4> QED
        BY <1>4, <2>7, <4>2, <4>3
    <3>6. Known(nodes) /\ Len(nodes) = Len(rest) + 1
      BY <1>4, <2>4, <3>2, <3>4, <3>5, InsertedAfterKnown
    <3> HIDE DEF nodes
    <3>7. current \in 0..Len(nodes)
      BY <1>2, <3>3, <3>6
    <3> QED
      BY <1>2, <3>1, <3>6, <3>7, EditedKept
  <2> QED
    BY <2>8, <2>9
<1> QED
  BY <1>5, <1>6

(* Writes.                                                                 *)
WriteDone ==
    call'.op = "write" =>
        /\ torn' = "no" =>
              \/ /\ Blocks(file') = chain'.nodes
                 /\ Content(chain'.nodes) = Content(chain.nodes)
              \/ ~call'.ok /\ file' = file
        /\ torn' # "no" => ~call'.ok \/ chain.mode = "file"

LEMMA WriteInPlaceKept ==
    ASSUME IInv, chain # NoChain, torn = "no", current' = 0, NEW nodes, Known(nodes),
           TotalSize(nodes) = chain.initial_length, Content(nodes) = Content(chain.nodes),
           NEW c, c = [chain EXCEPT !.nodes = nodes], WriteInPlace(c)
    PROVE  Kept /\ WriteDone
<1>1. chain \in Chains
  BY ChainIs
<1>2. PICK bs : /\ Known(bs) /\ file = FileOf(bs)
                /\ chain.initial_length = TotalSize(bs)
                /\ chain.last_offset = FirstOffset + TotalSize(bs)
  BY ChainIs
<1>3. nodes \in Seq(Block) /\ bs \in Seq(Block)
  BY <1>2 DEF Known
<1>4. /\ c \in Chains /\ c.nodes = nodes
      /\ c.initial_length = chain.initial_length /\ c.last_offset = chain.last_offset
      /\ c.mode = chain.mode
  BY <1>1, <1>3 DEF Chains
<1>5. current' \in 0..Len(c.nodes)
  BY <1>3, <1>4
<1> DEFINE none == <<>>
<1>6. none \in Seq(Block) /\ none \o bs = bs /\ bs \o none = bs /\ none \o nodes = nodes /\ nodes \o none = nodes
  BY <1>3, Empties
<1>7. Ends(none) = FirstOffset
  BY SizesNone, FileAssumption DEF Ends, FirstOffset
<1> HIDE DEF none
<1>8. Among(none, bs, none) = bs /\ Among(none, nodes, none) = nodes
  BY <1>6 DEF Among
<1>9. Overwritten(file, FirstOffset, Image(nodes)) = FileOf(nodes)
  <2>1. TotalSize(nodes) = TotalSize(bs)
    BY <1>2
  <2>2. Overwritten(FileOf(Among(none, bs, none)), Ends(none), Image(nodes))
           = FileOf(Among(none, nodes, none))
    BY <1>3, <1>6, <2>1, WrittenInPlace
  <2> QED
    BY <1>2, <1>7, <1>8, <2>2
<1>10. ASSUME file' = FileOf(nodes), chain' = c, NEW ok \in BOOLEAN,
              Called("write", Broken, ok), UNCHANGED torn
       PROVE  Kept /\ WriteDone
  <2>1. torn' \in Torn
    BY <1>10 DEF IInv, TypeOK
  <2>2. chain'.initial_length = TotalSize(nodes) /\ chain'.last_offset = FirstOffset + TotalSize(nodes)
    BY <1>2, <1>4, <1>10
  <2>3. Kept
    BY <1>4, <1>5, <1>10, <2>1, <2>2 DEF Kept, TornInv
  <2>4. Blocks(file') = nodes
    BY <1>10, KnownRead
  <2>5. WriteDone
    BY <1>4, <1>10, <2>4 DEF WriteDone
  <2> QED
    BY <2>3, <2>5
<1>11. ASSUME BrokenOff(FirstOffset, c.nodes), chain' = c, NEW ok \in BOOLEAN,
              Called("write", Broken, ok), ~ok \/ c.mode = "file"
       PROVE  Kept /\ WriteDone
  <2>1. Room(FirstOffset, Image(nodes))
    <3>1. Image(nodes) \in Seq(Cells) /\ Len(Image(nodes)) = TotalSize(bs)
      BY <1>2, <1>3, ImageLength
    <3>2. Len(file) = Ends(bs) + Len(Audio) /\ Len(Audio) \in Nat
      BY <1>2, KnownRead
    <3>3. FirstOffset \in Nat /\ TotalSize(bs) \in Nat
      BY <1>3, Around
    <3> QED
      BY <3>1, <3>2, <3>3 DEF Room, Ends
  <2>2. torn' = "in place" /\ TornInv'
    BY <1>2, <1>4, <1>11, <2>1, BrokenOffKeeps
  <2>3. Kept
    BY <1>4, <1>5, <1>11, <2>2 DEF Kept, Torn
  <2>4. WriteDone
    BY <1>4, <1>11, <2>2 DEF WriteDone, Called
  <2> QED
    BY <2>3, <2>4
<1>12. CASE /\ file' = Overwritten(file, FirstOffset, Image(c.nodes))
            /\ Called("write", Broken, TRUE)
            /\ UNCHANGED torn
  BY <1>4, <1>9, <1>10, <1>12 DEF WriteInPlace
<1>13. CASE /\ c.mode = "file"
            /\ BrokenOff(FirstOffset, c.nodes)
            /\ Called("write", Broken, TRUE)
  BY <1>11, <1>13 DEF WriteInPlace
<1>14. CASE FailedWrite(FirstOffset, c.nodes) /\ Called("write", Broken, FALSE)
  <2>1. CASE UNCHANGED files
    <3>1. file' = file /\ torn' = "no" /\ torn' \in Torn
      BY <2>1 DEF files, IInv, TypeOK
    <3>2. chain' = c
      BY DEF WriteInPlace
    <3>3. Kept
      BY <1>2, <1>4, <1>5, <3>1, <3>2 DEF Kept, TornInv
    <3>4. WriteDone
      BY <1>14, <3>1 DEF WriteDone, Called
    <3> QED
      BY <3>3, <3>4
  <2>2. CASE BrokenOff(FirstOffset, c.nodes)
    BY <1>11, <1>14, <2>2 DEF WriteInPlace
  <2>3. CASE file' = Overwritten(file, FirstOffset, Image(c.nodes)) /\ UNCHANGED torn
    BY <1>4, <1>9, <1>10, <1>14, <2>3 DEF WriteInPlace
  <2> QED
    BY <1>14, <2>1, <2>2, <2>3 DEF FailedWrite
<1> QED
  BY <1>12, <1>13, <1>14 DEF WriteInPlace

LEMMA RewriteKept ==
    ASSUME IInv, chain # NoChain, torn = "no", current' = 0, NEW nodes, Known(nodes),
           Content(nodes) = Content(chain.nodes),
           NEW c, c = [chain EXCEPT !.nodes = nodes], Rewrite(c)
    PROVE  Kept /\ WriteDone
<1>1. chain \in Chains
  BY ChainIs
<1>2. PICK bs : /\ Known(bs) /\ file = FileOf(bs)
                /\ chain.initial_length = TotalSize(bs)
                /\ chain.last_offset = FirstOffset + TotalSize(bs)
  BY ChainIs
<1>3. nodes \in Seq(Block) /\ bs \in Seq(Block)
  BY <1>2 DEF Known
<1>4. /\ c \in Chains /\ c.nodes = nodes
      /\ c.initial_length = chain.initial_length /\ c.last_offset = chain.last_offset
      /\ c.mode = chain.mode
  BY <1>1, <1>3 DEF Chains
<1>5. current' \in 0..Len(c.nodes)
  BY <1>3, <1>4
<1> DEFINE none == <<>>
<1>6. none \in Seq(Block) /\ none \o bs = bs /\ bs \o none = bs /\ none \o nodes = nodes /\ nodes \o none = nodes
  BY <1>3, Empties
<1>7. Ends(none) = FirstOffset
  BY SizesNone, FileAssumption DEF Ends, FirstOffset
<1> HIDE DEF none
<1>8. Among(none, bs, none) = bs /\ Among(none, nodes, none) = nodes
  BY <1>6 DEF Among
<1>9. WithNodes(c) = FileOf(nodes)
  <2>1. c.last_offset = Ends(none \o bs)
    BY <1>2, <1>4, <1>6 DEF Ends
  <2> DEFINE f == FileOf(Among(none, bs, none))
  <2>2. Copied(f, 0, Ends(none)) \o Image(nodes) \o Copied(f, Ends(none \o bs), Len(f))
           = FileOf(Among(none, nodes, none))
    BY <1>3, <1>6, WrittenAnew
  <2>3. f = file
    BY <1>2, <1>8
  <2> HIDE DEF f
  <2> QED
    BY <1>4, <1>7, <1>8, <2>1, <2>2, <2>3 DEF WithNodes
<1> DEFINE l == Learnt(c)
<1>10. /\ l \in Chains /\ l.nodes = nodes /\ l.initial_length = TotalSize(nodes)
       /\ l.last_offset = FirstOffset + TotalSize(nodes)
  <2> DEFINE size == TotalSize(nodes)
             offset == FirstOffset + size
  <2>1. size \in Nat /\ offset \in Nat
    BY <1>3, BlocksAreEntries, SizesType, FileAssumption DEF FirstOffset
  <2>2. l = [c EXCEPT !.initial_length = size, !.last_offset = offset]
    BY <1>4 DEF Learnt
  <2> HIDE DEF size, offset, l
  <2>3. l \in Chains /\ l.nodes = nodes /\ l.initial_length = size /\ l.last_offset = offset
    BY <1>4, <2>1, <2>2 DEF Chains
  <2> QED
    BY <2>3 DEF size, offset
<1> HIDE DEF l
<1>11. current' \in 0..Len(l.nodes)
  BY <1>4, <1>5, <1>10
<1>12. CASE /\ file' = WithNodes(c)
            /\ chain' = l
            /\ Called("write", Broken, TRUE)
            /\ UNCHANGED torn
  <2>1. file' = FileOf(nodes)
    BY <1>9, <1>12
  <2>2. torn' \in Torn
    BY <1>12 DEF IInv, TypeOK
  <2>3. Kept
    BY <1>10, <1>11, <1>12, <2>1, <2>2 DEF Kept, TornInv
  <2>4. Blocks(file') = nodes
    BY <2>1, KnownRead
  <2>5. WriteDone
    BY <1>10, <1>12, <2>4 DEF WriteDone
  <2> QED
    BY <2>3, <2>5
<1>13. CASE c.mode = "file" /\ torn' = "cut" /\ chain' = l
  <2>1. Kept
    BY <1>10, <1>11, <1>13 DEF Kept, TornInv, Torn
  <2>2. WriteDone
    BY <1>4, <1>13 DEF WriteDone
  <2> QED
    BY <2>1, <2>2
<1>14. CASE /\ chain' = c
            /\ Called("write", Broken, FALSE)
            /\ UNCHANGED files
  <2>1. file' = file /\ torn' = "no" /\ torn' \in Torn
    BY <1>14 DEF files, IInv, TypeOK
  <2>2. Kept
    BY <1>2, <1>4, <1>5, <1>14, <2>1 DEF Kept, TornInv
  <2>3. WriteDone
    BY <1>14, <2>1 DEF WriteDone, Called
  <2> QED
    BY <2>2, <2>3
<1> QED
  BY <1>12, <1>13, <1>14 DEF Rewrite, l

LEMMA PreparedKnown ==
    ASSUME IInv, chain # NoChain, torn = "no", NEW use_padding \in BOOLEAN
    PROVE  /\ Known(Prepared(chain, use_padding))
           /\ Content(Prepared(chain, use_padding)) = Content(chain.nodes)
           /\ TempfileNeeded(chain, use_padding)
              <=> TotalSize(Prepared(chain, use_padding)) # chain.initial_length
<1> DEFINE p == Prepared(chain, use_padding)
           needed == TempfileNeeded(chain, use_padding)
<1>1. chain \in Chains /\ Known(chain.nodes)
  BY ChainIs
<1>2. chain.initial_length \in Nat
  BY <1>1 DEF Chains
<1>3. PreparedSo(p, chain, needed)
  BY <1>1, <1>2, PreparedIs
<1>4. chain.initial_length <= MaxRoom
  <2>1. PICK bs : Known(bs) /\ chain.initial_length = TotalSize(bs)
    BY ChainIs
  <2> QED
    BY <2>1 DEF Known
<1>5. TotalSize(chain.nodes) <= MaxRoom
  BY <1>1 DEF Known
<1> HIDE DEF p, needed
<1>6. /\ p \in Seq(Block) /\ WellFormed(p) /\ Content(p) = Content(chain.nodes)
      /\ TotalSize(p) \in {TotalSize(chain.nodes), chain.initial_length}
      /\ needed <=> TotalSize(p) # chain.initial_length
  BY <1>3 DEF PreparedSo
<1>7. TotalSize(p) <= MaxRoom
  BY <1>4, <1>5, <1>6
<1>8. Known(p)
  BY <1>6, <1>7 DEF Known
<1> QED
  BY <1>6, <1>8 DEF p, needed

LEMMA WrittenKept ==
    ASSUME IInv, chain # NoChain, torn = "no", current' = 0, NEW use_padding \in BOOLEAN,
           ChainWritten(use_padding)
    PROVE  Kept /\ WriteDone
<1> DEFINE p == Prepared(chain, use_padding)
           c == [chain EXCEPT !.nodes = p]
<1>1. Known(p) /\ Content(p) = Content(chain.nodes)
  BY PreparedKnown
<1>2. IF TotalSize(c.nodes) = c.initial_length THEN WriteInPlace(c) ELSE Rewrite(c)
  BY DEF ChainWritten
<1>3. chain \in Chains
  BY ChainIs
<1> HIDE DEF p
<1>4. c.nodes = p /\ c.initial_length = chain.initial_length
  BY <1>3 DEF Chains
<1>5. c = [chain EXCEPT !.nodes = p]
  OBVIOUS
<1> HIDE DEF c
<1>6. CASE TotalSize(c.nodes) = c.initial_length
  BY <1>1, <1>2, <1>4, <1>5, <1>6, WriteInPlaceKept
<1>7. CASE TotalSize(c.nodes) # c.initial_length
  BY <1>1, <1>2, <1>5, <1>7, RewriteKept
<1> QED
  BY <1>6, <1>7

LEMMA WriteKept ==
    ASSUME IInv, torn = "no", ChainWrite
    PROVE  Kept /\ WriteDone
<1>1. chain # NoChain
  BY DEF ChainWrite, NoChain
<1>2. current' = 0 /\ \E use_padding \in BOOLEAN : ChainWritten(use_padding)
  BY DEF ChainWrite
<1> QED
  BY <1>1, <1>2, WrittenKept

LEMMA WriteCallbacksKept ==
    ASSUME IInv, torn = "no", ChainWriteCallbacks
    PROVE  Kept /\ WriteDone
<1>1. chain # NoChain
  BY DEF ChainWriteCallbacks, NoChain
<1>2. current' = 0
  BY DEF ChainWriteCallbacks
<1>3. PICK use_padding \in BOOLEAN, temporary \in BOOLEAN :
         IF TempfileNeeded(chain, use_padding) # temporary
         THEN /\ Called("write", Broken, FALSE)
              /\ UNCHANGED <<chain, files>>
         ELSE IF temporary THEN Rewrite([chain EXCEPT !.nodes = Prepared(chain, use_padding)])
              ELSE WriteInPlace([chain EXCEPT !.nodes = Prepared(chain, use_padding)])
  BY DEF ChainWriteCallbacks
<1> DEFINE p == Prepared(chain, use_padding)
           needed == TempfileNeeded(chain, use_padding)
           c == [chain EXCEPT !.nodes = p]
<1>4. Known(p) /\ Content(p) = Content(chain.nodes)
  BY <1>1, PreparedKnown
<1>5. needed <=> TotalSize(p) # chain.initial_length
  BY <1>1, PreparedKnown
<1>6. needed \in BOOLEAN
  BY DEF TempfileNeeded
<1>7. CASE needed # temporary
  <2>1. UNCHANGED <<chain, files>> /\ Called("write", Broken, FALSE)
    BY <1>3, <1>7
  <2>2. current' \in 0..Len(chain.nodes)
    BY <1>1, <1>2, ChainIs
  <2>3. Kept
    BY <1>1, <2>1, <2>2, SameKept
  <2>4. WriteDone
    BY <2>1 DEF WriteDone, Called, files
  <2> QED
    BY <2>3, <2>4
<1>8. CASE needed = temporary
  <2>1. IF temporary THEN Rewrite(c) ELSE WriteInPlace(c)
    BY <1>3, <1>8
  <2>2. c = [chain EXCEPT !.nodes = p]
    OBVIOUS
  <2>3. temporary <=> TotalSize(p) # chain.initial_length
    BY <1>5, <1>8
  <2> HIDE DEF p, c, needed
  <2>4. CASE temporary
    BY <1>1, <1>2, <1>4, <2>1, <2>2, <2>4, RewriteKept
  <2>5. CASE ~temporary
    BY <1>1, <1>2, <1>4, <2>1, <2>2, <2>3, <2>5, WriteInPlaceKept
  <2> QED
    BY <2>4, <2>5
<1> QED
  BY <1>7, <1>8

-----------------------------------------------------------------------------
(* Merging: a list that grows by one block at a time.                      *)
GrownBy(done, b) ==
    IF done # <<>> /\ IsPadding(Last(done)) /\ IsPadding(b) THEN Stretched(done, Size(b))
    ELSE Append(done, b)

LEMMA GrownByTyped ==
    ASSUME NEW done \in Seq(Block), NEW b \in Block
    PROVE  GrownBy(done, b) \in Seq(Block)
<1>1. CASE done # <<>> /\ IsPadding(Last(done)) /\ IsPadding(b)
  <2> DEFINE n == Size(b)
  <2>1. n \in Nat
    BY Single
  <2>2. Last(done).length + n \in Nat
    <3>1. Last(done) \in Block
      BY <1>1, EmptyLength DEF Last
    <3> DEFINE d == Last(done)
               l == d.length
    <3>2. l \in Nat
      BY <3>1 DEF Block
    <3> HIDE DEF l, n
    <3>3. l + n \in Nat
      BY <2>1, <3>2
    <3> QED
      BY <3>3 DEF l
  <2>3. GrownBy(done, b) = Stretched(done, n)
    BY <1>1 DEF GrownBy
  <2> HIDE DEF n
  <2>4. StretchedSo(Stretched(done, n), done, n)
    BY <1>1, <2>1, <2>2, StretchedIs
  <2> QED
    BY <2>3, <2>4 DEF StretchedSo
<1>2. CASE ~(done # <<>> /\ IsPadding(Last(done)) /\ IsPadding(b))
  BY <1>2 DEF GrownBy
<1> QED
  BY <1>1, <1>2

MergesTo(h, nodes) ==
    /\ h[0] = <<>>
    /\ \A j \in 1..Len(nodes) : h[j] = GrownBy(h[j - 1], nodes[j])
    /\ \A j \in 0..Len(nodes) : h[j] \in Seq(Block)
    /\ Merged(nodes) = Flagged(h[Len(nodes)], TRUE)

LEMMA MergesUnfold ==
    ASSUME NEW nodes \in Seq(Block)
    PROVE  \E h : MergesTo(h, nodes)
<1> DEFINE n == Len(nodes)
           X == Seq(Block)
           step == [j \in 1..n |-> [x \in X |-> GrownBy(x, nodes[j])]]
           Body(f) == [j \in 0..n |-> IF j = 0 THEN <<>> ELSE GrownBy(f[j - 1], nodes[j])]
           f0 == CHOOSE f : f = Body(f)
<1>1. n \in Nat /\ <<>> \in X
  OBVIOUS
<1>2. ASSUME NEW j \in 1..n PROVE nodes[j] \in Block
  OBVIOUS
<1>3. step \in Steps(n, X)
  <2>1. ASSUME NEW j \in 1..n, NEW x \in X PROVE GrownBy(x, nodes[j]) \in X
    BY <1>2, GrownByTyped
  <2> HIDE DEF X
  <2> QED
    BY <2>1 DEF Steps
<1>4. PICK h : Builds(h, n, X, <<>>, step)
  <2> HIDE DEF step, X, n
  <2> QED
    BY <1>1, <1>3, Recursion
<1>5. /\ h \in [0..n -> X] /\ h[0] = <<>>
      /\ \A j \in 1..n : h[j] = GrownBy(h[j - 1], nodes[j])
  <2>1. h \in [0..n -> X] /\ h[0] = <<>>
    BY <1>4 DEF Builds
  <2>2. ASSUME NEW j \in 1..n PROVE h[j] = GrownBy(h[j - 1], nodes[j])
    <3>1. h[j] = step[j][h[j - 1]]
      BY <1>4 DEF Builds
    <3>2. j - 1 \in 0..n
      BY <1>1
    <3>3. h[j - 1] \in X
      BY <2>1, <3>2
    <3>4. step[j] = [x \in X |-> GrownBy(x, nodes[j])]
      OBVIOUS
    <3> HIDE DEF X, step
    <3>5. step[j][h[j - 1]] = GrownBy(h[j - 1], nodes[j])
      BY <3>3, <3>4
    <3> QED
      BY <3>1, <3>5
  <2> QED
    BY <2>1, <2>2
<1>6. h = Body(h)
  <2>1. ASSUME NEW j \in 0..n PROVE h[j] = Body(h)[j]
    <3>1. CASE j = 0
      BY <1>5, <3>1
    <3>2. CASE j # 0
      <4>1. j \in 1..n
        BY <3>2
      <4> QED
        BY <1>5, <3>2, <4>1
    <3> QED
      BY <3>1, <3>2
  <2>2. DOMAIN h = 0..n /\ h = [j \in 0..n |-> h[j]]
    BY <1>5
  <2> QED
    BY <2>1, <2>2
<1>7. f0 = Body(f0)
  <2> HIDE DEF Body
  <2> QED
    BY <1>6
<1>8. Merged(nodes) = Flagged(f0[n], TRUE)
  BY DEF Merged, GrownBy, Stretched
<1>12. n \in 0..n
  BY <1>1
<1> HIDE DEF f0
<1>9. /\ f0[0] = <<>>
      /\ \A j \in 1..n : f0[j] = GrownBy(f0[j - 1], nodes[j])
  <2>1. \A j \in 0..n : f0[j] = Body(f0)[j]
    BY <1>7
  <2>2. 0 \in 0..n /\ \A j \in 1..n : j \in 0..n /\ j # 0
    BY <1>1
  <2>3. f0[0] = <<>>
    BY <2>1, <2>2
  <2>4. ASSUME NEW j \in 1..n PROVE f0[j] = GrownBy(f0[j - 1], nodes[j])
    BY <2>1, <2>2
  <2> QED
    BY <2>3, <2>4
<1>10. \A j \in 0..n : f0[j] = h[j]
  <2>1. Alike(n, f0, h)
    BY <1>5, <1>9 DEF Alike
  <2> HIDE DEF n
  <2> QED
    BY <1>1, <2>1, SameRecursion
<1>11. \A j \in 0..n : f0[j] \in X
  <2> HIDE DEF X
  <2> QED
    BY <1>5, <1>10
<1> QED
  BY <1>5, <1>8, <1>10, <1>11, <1>12 DEF MergesTo

LEMMA CountUp ==
    ASSUME NEW n \in Nat, NEW T, 0 \in T, \A i \in 1..n : i - 1 \in T => i \in T
    PROVE  \A i \in 0..n : i \in T
<1> DEFINE missing == {k \in 0..n : k \notin T}
<1>1. ASSUME missing # {} PROVE FALSE
  <2>1. PICK k \in missing : \A j \in missing : k <= j
    <3>1. missing \subseteq Nat
      OBVIOUS
    <3> HIDE DEF missing
    <3> QED
      BY <1>1, <3>1, LeastNumber
  <2>2. k \in 0..n /\ k \notin T /\ k # 0
    BY <2>1
  <2>3. k \in 1..n /\ k - 1 \in 0..n /\ ~(k <= k - 1)
    BY <2>2
  <2>4. k - 1 \in T
    BY <2>1, <2>3
  <2> QED
    BY <2>2, <2>3, <2>4
<1> QED
  BY <1>1

(* No padding next to padding; padding that stands at the end, all of it.  *)
Spaced(m) == \A j \in 1..(Len(m) - 1) : ~(IsPadding(m[j]) /\ IsPadding(m[j + 1]))

PadsBehind(nodes) == \A j \in 1..(Len(nodes) - 1) : IsPadding(nodes[j]) => IsPadding(nodes[j + 1])

PadsOnlyLast(m) == \A j \in 1..Len(m) : IsPadding(m[j]) => j = Len(m)

(* What the blocks up to the i-th have been merged into.                   *)
MergedUpTo(m, nodes, i, sizes, texts) ==
    /\ m \in Seq(Block) /\ Len(m) \in Nat /\ (m = <<>> <=> i = 0)
    /\ TotalSize(m) = sizes[i] /\ Content(m) = texts[i]
    /\ \A j \in 1..Len(m) : /\ IsInfo(m[j]) <=> j = 1
                            /\ m[j].last => i = Len(nodes) /\ j = Len(m)
    /\ Spaced(m)
    /\ i # 0 => (IsPadding(m[Len(m)]) <=> IsPadding(nodes[i]))
    /\ PadsBehind(nodes) => PadsOnlyLast(m)

LEMMA AppendIs ==
    ASSUME NEW m \in Seq(Block), NEW b \in Block
    PROVE  /\ Append(m, b) \in Seq(Block) /\ Append(m, b) # <<>> /\ Len(Append(m, b)) = Len(m) + 1
           /\ TotalSize(Append(m, b)) = TotalSize(m) + Size(b)
           /\ Content(Append(m, b)) = Content(m) \o Said(b)
           /\ \A j \in 1..Len(m) : Append(m, b)[j] = m[j]
           /\ Append(m, b)[Len(m) + 1] = b
<1> DEFINE M == <<b>>
           Y == m \o M
<1>1. Append(m, b) = Y
  OBVIOUS
<1>2. M \in Seq(Block) /\ TotalSize(M) = Size(b) /\ Content(M) = Said(b)
  BY Single
<1>3. Len(M) = 1 /\ M[1] = b
  OBVIOUS
<1> HIDE DEF M
<1>4. m \in Seq(Entry) /\ M \in Seq(Entry)
  BY <1>2, BlocksAreEntries
<1>5. TotalSize(Y) = TotalSize(m) + TotalSize(M)
  BY <1>4, SizesJoined
<1>6. Content(Y) = Content(m) \o Content(M)
  BY <1>4, ContentJoined
<1>7. Y \in Seq(Block) /\ Concatenates(Y, m, M)
  BY <1>2, Joining
<1> HIDE DEF Y
<1>8. Len(Y) = Len(m) + 1 /\ \A j \in 1..Len(m) : Y[j] = m[j]
  BY <1>3, <1>7 DEF Concatenates
<1>9. Y[Len(m) + 1] = b
  <2>1. 1 \in 1..Len(M)
    BY <1>3
  <2> QED
    BY <1>3, <1>7, <2>1 DEF Concatenates
<1>10. Y # <<>>
  <2>1. Len(m) \in Nat
    OBVIOUS
  <2> QED
    BY <1>7, <1>8, <2>1, EmptyLength
<1>11. TotalSize(Y) = TotalSize(m) + Size(b)
  BY <1>2, <1>5
<1>12. Content(Y) = Content(m) \o Said(b)
  BY <1>2, <1>6
<1> QED
  BY <1>1, <1>7, <1>8, <1>9, <1>10, <1>11, <1>12

LEMMA MergeOne ==
    ASSUME NEW nodes \in Seq(Block), Shaped(nodes, TRUE, TRUE),
           NEW sizes, SizesOf(sizes, nodes), NEW texts, ContentOf(texts, nodes),
           NEW i \in 1..Len(nodes), NEW m, MergedUpTo(m, nodes, i - 1, sizes, texts)
    PROVE  MergedUpTo(GrownBy(m, nodes[i]), nodes, i, sizes, texts)
<1> DEFINE b == nodes[i]
           n == Len(m)
           r == GrownBy(m, b)
<1>1. /\ m \in Seq(Block) /\ n \in Nat /\ (m = <<>> <=> i - 1 = 0)
      /\ TotalSize(m) = sizes[i - 1] /\ Content(m) = texts[i - 1]
  BY DEF MergedUpTo
<1>2. \A j \in 1..n : /\ IsInfo(m[j]) <=> j = 1
                      /\ m[j].last => i - 1 = Len(nodes) /\ j = n
  BY DEF MergedUpTo
<1>3. /\ Spaced(m)
      /\ i - 1 # 0 => (IsPadding(m[n]) <=> IsPadding(nodes[i - 1]))
      /\ PadsBehind(nodes) => PadsOnlyLast(m)
  BY DEF MergedUpTo
<1>4. i \in 1..Len(nodes) /\ Len(nodes) \in Nat /\ i - 1 # Len(nodes) /\ i # 0
  OBVIOUS
<1>5. b \in Block /\ (IsInfo(b) <=> i = 1) /\ (b.last <=> i = Len(nodes))
  BY DEF Shaped
<1>6. sizes[i] = sizes[i - 1] + Size(b) /\ texts[i] = texts[i - 1] \o Said(b)
  BY DEF SizesOf, ContentOf
<1>7. texts[i - 1] \in Seq(Texts)
  BY DEF ContentOf
<1>8. m = <<>> <=> n = 0
  BY <1>1, EmptyLength
<1>9. \A j \in 1..n : ~m[j].last
  BY <1>2, <1>4
<1>10. Last(m) = m[n]
  BY DEF Last
<1> SUFFICES MergedUpTo(r, nodes, i, sizes, texts)
  OBVIOUS
<1> HIDE DEF b, n
<1>11. CASE m # <<>> /\ IsPadding(m[n]) /\ IsPadding(b)
  <2> DEFINE k == Size(b)
  <2>1. r = Stretched(m, k)
    BY <1>10, <1>11 DEF GrownBy
  <2>2. k \in Nat
    BY <1>5, Single
  <2>3. Last(m).length + k \in Nat
    <3>1. m[n] \in Block
      BY <1>1, <1>8, <1>11 DEF n
    <3> DEFINE l == Last(m).length
    <3>2. l \in Nat
      BY <1>10, <3>1 DEF Block
    <3> HIDE DEF l, k
    <3>3. l + k \in Nat
      BY <2>2, <3>2
    <3> QED
      BY <3>3 DEF l
  <2> HIDE DEF k, r
  <2>4. StretchedSo(r, m, k)
    BY <1>1, <1>11, <2>1, <2>2, <2>3, StretchedIs
  <2>5. /\ r \in Seq(Block) /\ r # <<>> /\ Len(r) = n
        /\ TotalSize(r) = TotalSize(m) + k /\ Content(r) = Content(m)
    BY <2>4 DEF StretchedSo, n
  <2>6. \A j \in 1..n : /\ IsPadding(r[j]) <=> IsPadding(m[j])
                        /\ IsInfo(r[j]) <=> IsInfo(m[j])
                        /\ r[j].last <=> m[j].last
    BY <2>4 DEF StretchedSo, n
  <2>7. TotalSize(r) = sizes[i]
    BY <1>1, <1>6, <2>5 DEF k
  <2>8. Content(r) = texts[i]
    <3>1. Said(b) = <<>>
      BY <1>11 DEF Said, IsPadding
    <3>2. texts[i - 1] \o Said(b) = texts[i - 1]
      BY <1>7, <3>1
    <3> QED
      BY <1>1, <1>6, <2>5, <3>2
  <2>9. \A j \in 1..Len(r) : /\ IsInfo(r[j]) <=> j = 1
                             /\ r[j].last => i = Len(nodes) /\ j = Len(r)
    BY <1>2, <1>9, <2>5, <2>6
  <2>10. Spaced(r)
    <3>1. ASSUME NEW j \in 1..(n - 1) PROVE ~(IsPadding(r[j]) /\ IsPadding(r[j + 1]))
      <4>1. j \in 1..n /\ j + 1 \in 1..n
        BY <1>1
      <4>2. ~(IsPadding(m[j]) /\ IsPadding(m[j + 1]))
        BY <1>3 DEF Spaced, n
      <4> QED
        BY <2>6, <4>1, <4>2
    <3> QED
      BY <2>5, <3>1 DEF Spaced
  <2>11. IsPadding(r[Len(r)]) <=> IsPadding(b)
    <3>1. n \in 1..n
      BY <1>1, <1>8, <1>11
    <3> QED
      BY <1>11, <2>5, <2>6, <3>1
  <2>12. ASSUME PadsBehind(nodes) PROVE PadsOnlyLast(r)
    <3>1. ASSUME NEW j \in 1..n, IsPadding(r[j]) PROVE j = n
      <4>1. IsPadding(m[j])
        BY <2>6, <3>1
      <4> QED
        BY <1>3, <2>12, <4>1 DEF PadsOnlyLast, n
    <3> QED
      BY <2>5, <3>1 DEF PadsOnlyLast
  <2> QED
    BY <1>1, <1>4, <2>5, <2>7, <2>8, <2>9, <2>10, <2>11, <2>12 DEF MergedUpTo, b
<1>12. CASE ~(m # <<>> /\ IsPadding(m[n]) /\ IsPadding(b))
  <2>1. r = Append(m, b)
    BY <1>10, <1>12 DEF GrownBy
  <2> HIDE DEF r
  <2>2. /\ r \in Seq(Block) /\ r # <<>> /\ Len(r) = n + 1
        /\ \A j \in 1..n : r[j] = m[j]
        /\ r[n + 1] = b
    BY <1>1, <1>5, <2>1, AppendIs DEF n
  <2>3. TotalSize(r) = TotalSize(m) + Size(b)
    BY <1>1, <1>5, <2>1, AppendIs
  <2>4. Content(r) = Content(m) \o Said(b)
    BY <1>1, <1>5, <2>1, AppendIs
  <2>5. TotalSize(r) = sizes[i] /\ Content(r) = texts[i]
    BY <1>1, <1>6, <2>3, <2>4
  <2>6. ASSUME NEW j \in 1..Len(r)
        PROVE  (IsInfo(r[j]) <=> j = 1) /\ (r[j].last => i = Len(nodes) /\ j = Len(r))
    <3>1. CASE j \in 1..n
      BY <1>2, <1>9, <2>2, <3>1
    <3>2. CASE j = n + 1
      <4>1. n = 0 <=> i = 1
        BY <1>1, <1>4, <1>8
      <4>2. r[j] = b /\ (j = 1 <=> i = 1) /\ j = Len(r)
        BY <1>1, <2>2, <3>2, <4>1
      <4> QED
        BY <1>5, <4>2
    <3> QED
      BY <1>1, <2>2, <3>1, <3>2
  <2>7. Spaced(r)
    <3>1. ASSUME NEW j \in 1..(Len(r) - 1) PROVE ~(IsPadding(r[j]) /\ IsPadding(r[j + 1]))
      <4>1. j \in 1..n
        BY <1>1, <2>2
      <4>2. CASE j = n
        <5>1. m # <<>> /\ r[j] = m[n] /\ r[j + 1] = b
          BY <1>1, <1>8, <2>2, <4>1, <4>2
        <5> QED
          BY <1>12, <5>1
      <4>3. CASE j # n
        <5>1. j \in 1..(n - 1) /\ j + 1 \in 1..n
          BY <1>1, <4>1, <4>3
        <5>2. ~(IsPadding(m[j]) /\ IsPadding(m[j + 1]))
          BY <1>3, <5>1 DEF Spaced, n
        <5> QED
          BY <2>2, <4>1, <5>1, <5>2
      <4> QED
        BY <4>2, <4>3
    <3> QED
      BY <3>1 DEF Spaced
  <2>8. IsPadding(r[Len(r)]) <=> IsPadding(b)
    BY <2>2
  <2>9. ASSUME PadsBehind(nodes) PROVE PadsOnlyLast(r)
    <3>1. ASSUME NEW j \in 1..Len(r), IsPadding(r[j]), j # Len(r) PROVE FALSE
      <4>1. j \in 1..n
        BY <1>1, <2>2, <3>1
      <4>2. IsPadding(m[j])
        BY <2>2, <3>1, <4>1
      <4>3. j = n
        BY <1>3, <2>9, <4>1, <4>2 DEF PadsOnlyLast, n
      <4>4. m # <<>> /\ IsPadding(m[n])
        BY <1>1, <1>8, <4>1, <4>2, <4>3
      <4>5. i - 1 # 0 /\ IsPadding(nodes[i - 1])
        BY <1>1, <1>3, <4>4
      <4>6. i - 1 \in 1..(Len(nodes) - 1) /\ (i - 1) + 1 = i
        BY <1>4, <4>5
      <4>7. IsPadding(b)
        BY <2>9, <4>5, <4>6 DEF PadsBehind, b
      <4> QED
        BY <1>12, <4>4, <4>7
    <3> QED
      BY <3>1 DEF PadsOnlyLast
  <2>10. Len(r) \in Nat
    BY <1>1, <2>2
  <2> QED
    BY <1>4, <2>2, <2>5, <2>6, <2>7, <2>8, <2>9, <2>10 DEF MergedUpTo, b
<1> QED
  BY <1>11, <1>12

MergedSo(now, nodes) ==
    /\ Known(now) /\ TotalSize(now) = TotalSize(nodes) /\ Content(now) = Content(nodes)
    /\ Spaced(now)
    /\ PadsBehind(nodes) => PadsOnlyLast(now)

LEMMA MergedIs ==
    ASSUME NEW nodes, Known(nodes)
    PROVE  MergedSo(Merged(nodes), nodes)
<1> DEFINE n == Len(nodes)
<1>1. nodes \in Seq(Block) /\ nodes # <<>> /\ n \in Nat /\ n # 0
  <2>1. nodes \in Seq(Block) /\ nodes # <<>>
    BY KnownRead
  <2> QED
    BY <2>1, EmptyLength
<1>2. Shaped(nodes, TRUE, TRUE)
  BY <1>1, WellShaped DEF Known
<1>3. nodes \in Seq(Entry)
  BY <1>1, BlocksAreEntries
<1>4. PICK sizes : SizesOf(sizes, nodes)
  BY <1>3, SizesUnfold
<1>5. PICK texts : ContentOf(texts, nodes)
  BY <1>3, ContentUnfold
<1>6. PICK h : MergesTo(h, nodes)
  BY <1>1, MergesUnfold
<1> DEFINE T == {i \in 0..n : MergedUpTo(h[i], nodes, i, sizes, texts)}
<1>7. 0 \in T
  <2>1. h[0] = <<>> /\ sizes[0] = 0 /\ texts[0] = <<>>
    BY <1>4, <1>5, <1>6 DEF MergesTo, SizesOf, ContentOf
  <2> DEFINE none == <<>>
  <2>2. none \in Seq(Block) /\ Len(none) = 0 /\ TotalSize(none) = 0 /\ Content(none) = <<>>
    BY SizesNone, ContentNone
  <2> HIDE DEF none
  <2>3. Spaced(none) /\ PadsOnlyLast(none)
    BY <2>2 DEF Spaced, PadsOnlyLast
  <2>4. h[0] = none /\ none = <<>>
    BY <2>1 DEF none
  <2>5. MergedUpTo(none, nodes, 0, sizes, texts)
    BY <2>1, <2>2, <2>3, <2>4 DEF MergedUpTo
  <2> QED
    BY <1>1, <2>4, <2>5
<1>8. ASSUME NEW i \in 1..n, i - 1 \in T PROVE i \in T
  <2>1. MergedUpTo(h[i - 1], nodes, i - 1, sizes, texts)
    BY <1>8
  <2>2. h[i] = GrownBy(h[i - 1], nodes[i])
    BY <1>6 DEF MergesTo
  <2>3. MergedUpTo(GrownBy(h[i - 1], nodes[i]), nodes, i, sizes, texts)
    BY <1>1, <1>2, <1>4, <1>5, <2>1, MergeOne
  <2>4. i \in 0..n
    OBVIOUS
  <2> QED
    BY <2>2, <2>3, <2>4
<1>9. MergedUpTo(h[n], nodes, n, sizes, texts)
  <2>1. \A i \in 0..n : i \in T
    <3> HIDE DEF T, n
    <3> QED
      BY <1>1, <1>7, <1>8, CountUp
  <2>2. n \in 0..n
    BY <1>1
  <2> QED
    BY <2>1, <2>2
<1> DEFINE m == h[n]
           now == Merged(nodes)
<1>10. now = Flagged(m, TRUE)
  BY <1>6 DEF MergesTo
<1>11. TotalSize(nodes) = sizes[n] /\ Content(nodes) = texts[n]
  BY <1>4, <1>5 DEF SizesOf, ContentOf
<1> HIDE DEF m, now, T
<1>12. /\ m \in Seq(Block) /\ m # <<>> /\ Len(m) \in Nat
       /\ TotalSize(m) = TotalSize(nodes) /\ Content(m) = Content(nodes)
       /\ Spaced(m)
       /\ PadsBehind(nodes) => PadsOnlyLast(m)
  BY <1>1, <1>9, <1>11 DEF MergedUpTo, m
<1>13. \A j \in 1..Len(m) : /\ IsInfo(m[j]) <=> j = 1
                            /\ m[j].last => j = Len(m)
  BY <1>9 DEF MergedUpTo, m
<1>14. Reflagged(now, m, TRUE)
  BY <1>10, <1>12, FlaggedIs
<1>15. now \in Seq(Block) /\ now # <<>> /\ Len(now) = Len(m)
       /\ TotalSize(now) = TotalSize(m) /\ Content(now) = Content(m)
  BY <1>14 DEF Reflagged
<1>16. \A j \in 1..Len(m) : /\ IsPadding(now[j]) <=> IsPadding(m[j])
                            /\ IsInfo(now[j]) <=> IsInfo(m[j])
                            /\ now[j].last <=> IF j = Len(m) THEN TRUE ELSE m[j].last
  BY <1>14 DEF Reflagged
<1>17. Shaped(now, TRUE, TRUE)
  <2>1. ASSUME NEW j \in 1..Len(now)
        PROVE  (IsInfo(now[j]) <=> (TRUE /\ j = 1)) /\ (now[j].last <=> (TRUE /\ j = Len(now)))
    BY <1>13, <1>15, <1>16
  <2> QED
    BY <2>1 DEF Shaped
<1>18. Known(now)
  <2>1. WellFormed(now)
    BY <1>15, <1>17, ShapedIsWell
  <2>2. TotalSize(now) <= MaxRoom
    BY <1>12, <1>15 DEF Known
  <2> QED
    BY <1>15, <2>1, <2>2 DEF Known
<1>19. Spaced(now)
  <2>1. ASSUME NEW j \in 1..(Len(now) - 1) PROVE ~(IsPadding(now[j]) /\ IsPadding(now[j + 1]))
    <3>1. j \in 1..(Len(m) - 1) /\ j \in 1..Len(m) /\ j + 1 \in 1..Len(m)
      BY <1>12, <1>15
    <3> QED
      BY <1>12, <1>16, <3>1 DEF Spaced
  <2> QED
    BY <2>1 DEF Spaced
<1>20. ASSUME PadsBehind(nodes) PROVE PadsOnlyLast(now)
  <2>1. ASSUME NEW j \in 1..Len(now), IsPadding(now[j]) PROVE j = Len(now)
    <3>1. j \in 1..Len(m) /\ IsPadding(m[j])
      BY <1>15, <1>16, <2>1
    <3> QED
      BY <1>12, <1>15, <1>20, <3>1 DEF PadsOnlyLast
  <2> QED
    BY <2>1 DEF PadsOnlyLast
<1>21. MergedSo(now, nodes)
  BY <1>12, <1>15, <1>18, <1>19, <1>20 DEF MergedSo
<1> QED
  BY <1>21 DEF now

-----------------------------------------------------------------------------
(* Sorting: one block of padding at a time goes to the end.                *)
MovedToEnd(Y, all, at) ==
    /\ Known(Y) /\ Len(Y) = Len(all)
    /\ TotalSize(Y) = TotalSize(all) /\ Content(Y) = Content(all)
    /\ \A j \in 1..(at - 1) : IsPadding(Y[j]) <=> IsPadding(all[j])
    /\ \A j \in at..(Len(all) - 1) : IsPadding(Y[j]) <=> IsPadding(all[j + 1])
    /\ IsPadding(Y[Len(all)])

LEMMA MovedToEndIs ==
    ASSUME NEW all, Known(all), NEW at \in 1..Len(all), IsPadding(all[at])
    PROVE  MovedToEnd(Appended(Removed(all, at), all[at]), all, at)
<1> DEFINE b == all[at]
           R == Removed(all, at)
           Y == Appended(R, b)
           n == Len(all)
<1>1. all \in Seq(Block) /\ n \in Nat
  BY KnownRead
<1>2. PICK A, C : SplitAt(all, at, A, C)
  BY <1>1, TakenOut
<1>3. Divides(all, A, b, C)
  BY <1>2, KnownSplit
<1>4. b \in Block /\ ~IsInfo(b) /\ Said(b) = <<>> /\ Size(b) \in Nat /\ IsPadding(b)
  <2>1. b \in Block /\ Size(b) \in Nat
    BY <1>3 DEF Divides
  <2>2. ~IsInfo(b) /\ Said(b) = <<>>
    BY DEF IsPadding, IsInfo, Said
  <2> QED
    BY <2>1, <2>2
<1>5. at \in 2..Len(all)
  <2>1. A # <<>>
    BY <1>3, <1>4 DEF Divides
  <2>2. at # 1
    BY <1>2, <2>1 DEF SplitAt
  <2> QED
    BY <2>2
<1>6. Known(R)
  BY <1>2, <1>5, RemovedIs
<1>7. Reflagged(R, A \o C, TRUE)
  BY <1>2, <1>5, RemovedIs
<1>8. Len(A \o C) = n - 1 /\ TotalSize(R) = TotalSize(all) - Size(b)
  BY <1>2, <1>5, RemovedIs
<1>9. Content(R) = Content(A) \o Content(C)
  BY <1>2, <1>5, RemovedIs
<1>10. AppendedSo(Y, R, b)
  BY <1>4, <1>6, AppendedIs
<1>11. A \in Seq(Block) /\ C \in Seq(Block) /\ Len(A) = at - 1 /\ Len(C) = n - at
  BY <1>2 DEF SplitAt
<1>12. A = SubSeq(all, 1, at - 1) /\ C = SubSeq(all, at + 1, Len(all))
  BY <1>2 DEF SplitAt
<1>13. /\ \A j \in 1..(at - 1) : A[j] = all[j]
       /\ \A j \in 1..(n - at) : C[j] = all[at + j]
  BY <1>1, <1>12, TakenApart
<1> SUFFICES MovedToEnd(Y, all, at)
  OBVIOUS
<1> DEFINE AC == A \o C
<1>14. Concatenates(AC, A, C)
  BY <1>11, Joining
<1>15. /\ Y \in Seq(Block) /\ Y # <<>> /\ Len(Y) = Len(R) + 1
       /\ Shaped(Y, TRUE, TRUE)
       /\ TotalSize(Y) = TotalSize(R) + Size(b)
       /\ Content(Y) = Content(R) \o Said(b)
       /\ \A j \in 1..Len(R) : IsPadding(Y[j]) <=> IsPadding(R[j])
       /\ IsPadding(Y[Len(R) + 1]) <=> IsPadding(b)
  BY <1>10 DEF AppendedSo
<1>16. Reflagged(R, AC, TRUE) /\ Len(AC) = n - 1
  BY <1>7, <1>8
<1> HIDE DEF R, Y, AC, b, n
<1>17. Len(R) = n - 1 /\ \A j \in 1..(n - 1) : IsPadding(R[j]) <=> IsPadding(AC[j])
  BY <1>16 DEF Reflagged
<1>18. TotalSize(Y) = TotalSize(all)
  <2>1. TotalSize(all) \in Nat
    BY <1>1, BlocksAreEntries, SizesType
  <2> QED
    BY <1>4, <1>8, <1>15, <2>1
<1>19. Content(Y) = Content(all)
  <2>1. Content(all) = Among(Content(A), Said(b), Content(C))
    BY <1>3 DEF Divides
  <2>2. Content(A) \o Said(b) = Content(A)
    BY <1>4, <1>11, ContentAndNothing
  <2>3. Content(R) \o Said(b) = Content(R)
    <3>1. R \in Seq(Block)
      BY <1>6 DEF Known
    <3> QED
      BY <1>4, <3>1, ContentAndNothing
  <2>4. Content(all) = Content(A) \o Content(C)
    BY <2>1, <2>2 DEF Among
  <2> QED
    BY <1>9, <1>15, <2>3, <2>4
<1>20. Known(Y)
  <2>1. WellFormed(Y)
    BY <1>15, ShapedIsWell
  <2>2. TotalSize(all) <= MaxRoom
    BY DEF Known
  <2> QED
    BY <1>15, <1>18, <2>1, <2>2 DEF Known
<1>21. ASSUME NEW j \in 1..(at - 1) PROVE IsPadding(Y[j]) <=> IsPadding(all[j])
  <2>1. j \in 1..Len(A) /\ j \in 1..(n - 1)
    BY <1>1, <1>5, <1>11 DEF n
  <2>2. AC[j] = A[j]
    BY <1>14, <2>1 DEF Concatenates
  <2>3. A[j] = all[j]
    BY <1>13
  <2> QED
    BY <1>15, <1>17, <2>1, <2>2, <2>3
<1>22. ASSUME NEW j \in at..(n - 1) PROVE IsPadding(Y[j]) <=> IsPadding(all[j + 1])
  <2> DEFINE k == j - (at - 1)
  <2>1. k \in 1..Len(C) /\ Len(A) + k = j /\ at + k = j + 1 /\ j \in 1..(n - 1) /\ k \in 1..(n - at)
    BY <1>1, <1>5, <1>11
  <2> HIDE DEF k
  <2>2. AC[Len(A) + k] = C[k]
    BY <1>14, <2>1 DEF Concatenates
  <2>3. C[k] = all[at + k]
    BY <1>13, <2>1
  <2>4. AC[j] = all[j + 1]
    BY <2>1, <2>2, <2>3
  <2> QED
    BY <1>15, <1>17, <2>1, <2>4
<1>23. Len(Y) = n /\ IsPadding(Y[n])
  <2>1. Len(R) + 1 = n
    BY <1>1, <1>17
  <2> QED
    BY <1>4, <1>15, <2>1
<1> QED
  BY <1>18, <1>19, <1>20, <1>21, <1>22, <1>23 DEF MovedToEnd, n

Walks == [all : Seq(Block), at : Nat]

SortStep(s) ==
    IF IsPadding(s.all[s.at])
    THEN [all |-> Appended(Removed(s.all, s.at), s.all[s.at]), at |-> s.at]
    ELSE [s EXCEPT !.at = @ + 1]

Sortable(s) == Known(s.all) /\ s.at \in 1..Len(s.all)

LEMMA SortStepIs ==
    ASSUME NEW s \in Walks, Sortable(s)
    PROVE  /\ SortStep(s) \in Walks
           /\ IsPadding(s.all[s.at]) =>
                 /\ MovedToEnd(SortStep(s).all, s.all, s.at)
                 /\ SortStep(s).at = s.at
           /\ ~IsPadding(s.all[s.at]) =>
                 SortStep(s).all = s.all /\ SortStep(s).at = s.at + 1
<1>1. CASE IsPadding(s.all[s.at])
  <2> DEFINE all == s.all
             at == s.at
             Y == Appended(Removed(all, at), all[at])
  <2>1. SortStep(s) = [all |-> Y, at |-> at]
    BY <1>1 DEF SortStep
  <2>2. Known(all) /\ at \in 1..Len(all) /\ IsPadding(all[at]) /\ at \in Nat
    BY <1>1 DEF Sortable, Walks
  <2> HIDE DEF all, at
  <2>3. MovedToEnd(Y, all, at)
    BY <2>2, MovedToEndIs
  <2> HIDE DEF Y
  <2>4. Y \in Seq(Block)
    BY <2>3 DEF MovedToEnd, Known
  <2>5. SortStep(s) \in Walks /\ SortStep(s).all = Y /\ SortStep(s).at = at
    BY <2>1, <2>2, <2>4 DEF Walks
  <2> QED
    BY <1>1, <2>3, <2>5 DEF all, at
<1>2. CASE ~IsPadding(s.all[s.at])
  <2>1. SortStep(s) = [s EXCEPT !.at = @ + 1]
    BY <1>2 DEF SortStep
  <2> QED
    BY <1>2, <2>1 DEF Walks
<1> QED
  BY <1>1, <1>2

(* After i steps: no padding before where the walk has got to, and behind  *)
(* the blocks it has still to look at nothing else.                        *)
SortedUpTo(s, nodes, i) ==
    /\ s \in Walks /\ Known(s.all) /\ Len(s.all) = Len(nodes)
    /\ TotalSize(s.all) = TotalSize(nodes) /\ Content(s.all) = Content(nodes)
    /\ s.at \in 1..(i + 1)
    /\ \A j \in 1..Len(nodes) : j < s.at => ~IsPadding(s.all[j])
    /\ \A j \in 1..Len(nodes) : j > Len(nodes) - (i + 1 - s.at) => IsPadding(s.all[j])

LEMMA SortOne ==
    ASSUME NEW nodes, Known(nodes), NEW i \in 1..Len(nodes), NEW s, SortedUpTo(s, nodes, i - 1)
    PROVE  Sortable(s) /\ SortedUpTo(SortStep(s), nodes, i)
<1> DEFINE n == Len(nodes)
           all == s.all
           at == s.at
           r == SortStep(s)
           Y == r.all
<1>1. n \in Nat /\ i \in 1..n
  BY KnownRead
<1>2. /\ s \in Walks /\ Known(all) /\ Len(all) = n
      /\ TotalSize(all) = TotalSize(nodes) /\ Content(all) = Content(nodes)
      /\ at \in 1..((i - 1) + 1)
      /\ \A j \in 1..n : j < at => ~IsPadding(all[j])
      /\ \A j \in 1..n : j > n - ((i - 1) + 1 - at) => IsPadding(all[j])
  BY DEF SortedUpTo
<1>3. Sortable(s)
  BY <1>1, <1>2 DEF Sortable
<1>4. r \in Walks
  BY <1>2, <1>3, SortStepIs
<1>5. IsPadding(all[at]) => MovedToEnd(Y, all, at) /\ r.at = at
  BY <1>2, <1>3, SortStepIs
<1>6. ~IsPadding(all[at]) => Y = all /\ r.at = at + 1
  BY <1>2, <1>3, SortStepIs
<1> SUFFICES SortedUpTo(r, nodes, i)
  BY <1>3
<1> HIDE DEF n, all, at, r
<1>7. CASE IsPadding(all[at])
  <2> HIDE DEF Y
  <2>1. MovedToEnd(Y, all, at) /\ r.at = at
    BY <1>5, <1>7
  <2>2. /\ Known(Y) /\ Len(Y) = n /\ TotalSize(Y) = TotalSize(all) /\ Content(Y) = Content(all)
        /\ \A j \in 1..(at - 1) : IsPadding(Y[j]) <=> IsPadding(all[j])
        /\ \A j \in at..(n - 1) : IsPadding(Y[j]) <=> IsPadding(all[j + 1])
        /\ IsPadding(Y[n])
    BY <1>2, <2>1 DEF MovedToEnd
  <2>3. ASSUME NEW j \in 1..n, j < at PROVE ~IsPadding(Y[j])
    <3>1. j \in 1..(at - 1)
      BY <1>2, <2>3
    <3> QED
      BY <1>2, <2>2, <2>3, <3>1
  <2>4. ASSUME NEW j \in 1..n, j > n - (i + 1 - at) PROVE IsPadding(Y[j])
    <3>1. CASE j = n
      BY <2>2, <3>1
    <3>2. CASE j # n
      <4>1. j \in at..(n - 1) /\ j + 1 \in 1..n /\ j + 1 > n - ((i - 1) + 1 - at)
        BY <1>1, <1>2, <2>4, <3>2
      <4>2. IsPadding(all[j + 1])
        BY <1>2, <4>1
      <4> QED
        BY <2>2, <4>1, <4>2
    <3> QED
      BY <3>1, <3>2
  <2>5. at \in 1..(i + 1)
    BY <1>1, <1>2
  <2> QED
    BY <1>2, <1>4, <2>1, <2>2, <2>3, <2>4, <2>5 DEF SortedUpTo, Y, n
<1>8. CASE ~IsPadding(all[at])
  <2> HIDE DEF Y
  <2>1. Y = all /\ r.at = at + 1
    BY <1>6, <1>8
  <2>2. ASSUME NEW j \in 1..n, j < at + 1 PROVE ~IsPadding(Y[j])
    <3>1. j < at \/ j = at
      BY <1>2, <2>2
    <3> QED
      BY <1>2, <1>8, <2>1, <3>1
  <2>3. ASSUME NEW j \in 1..n, j > n - (i + 1 - (at + 1)) PROVE IsPadding(Y[j])
    <3>1. j > n - ((i - 1) + 1 - at)
      BY <1>1, <1>2, <2>3
    <3> QED
      BY <1>2, <2>1, <3>1
  <2>4. at + 1 \in 1..(i + 1)
    BY <1>1, <1>2
  <2> QED
    BY <1>2, <1>4, <2>1, <2>2, <2>3, <2>4 DEF SortedUpTo, Y, n
<1> QED
  BY <1>7, <1>8

SortsTo(h, nodes) ==
    /\ \A j \in 0..Len(nodes) : SortedUpTo(h[j], nodes, j)
    /\ Sorted(nodes) = Merged(h[Len(nodes)].all)

LEMMA SortsUnfold ==
    ASSUME NEW nodes, Known(nodes)
    PROVE  \E h : SortsTo(h, nodes)
<1> DEFINE n == Len(nodes)
           X == Walks
           start == [all |-> nodes, at |-> 1]
           Move(x) == IF Sortable(x) THEN SortStep(x) ELSE x
           step == [j \in 1..n |-> [x \in X |-> Move(x)]]
           Body(f) == [j \in 0..n |-> IF j = 0 THEN start ELSE SortStep(f[j - 1])]
           f0 == CHOOSE f : f = Body(f)
<1>1. n \in Nat /\ nodes \in Seq(Block)
  BY KnownRead
<1>2. start \in X
  BY <1>1 DEF Walks
<1>3. step \in Steps(n, X)
  <2>1. ASSUME NEW j \in 1..n, NEW x \in X PROVE Move(x) \in X
    <3>1. CASE Sortable(x)
      <4>1. SortStep(x) \in Walks
        BY <3>1, SortStepIs
      <4> QED
        BY <3>1, <4>1
    <3>2. CASE ~Sortable(x)
      BY <3>2
    <3> QED
      BY <3>1, <3>2
  <2> HIDE DEF X, Move
  <2> QED
    BY <2>1 DEF Steps
<1>4. PICK h : Builds(h, n, X, start, step)
  <2> HIDE DEF step, X, n, start
  <2> QED
    BY <1>1, <1>2, <1>3, Recursion
<1>5. /\ h \in [0..n -> X] /\ h[0] = start
      /\ \A j \in 1..n : h[j] = Move(h[j - 1])
  <2>1. h \in [0..n -> X] /\ h[0] = start
    BY <1>4 DEF Builds
  <2>2. ASSUME NEW j \in 1..n PROVE h[j] = Move(h[j - 1])
    <3>1. h[j] = step[j][h[j - 1]]
      BY <1>4 DEF Builds
    <3>2. j - 1 \in 0..n
      BY <1>1
    <3>3. h[j - 1] \in X
      BY <2>1, <3>2
    <3>4. step[j] = [x \in X |-> Move(x)]
      OBVIOUS
    <3> HIDE DEF X, step, Move
    <3>5. step[j][h[j - 1]] = Move(h[j - 1])
      BY <3>3, <3>4
    <3> QED
      BY <3>1, <3>5
  <2> QED
    BY <2>1, <2>2
<1>13. \A j \in 0..n : SortedUpTo(h[j], nodes, j)
  <2> DEFINE T == {j \in 0..n : SortedUpTo(h[j], nodes, j)}
  <2>1. 0 \in T
    <3>1. start.all = nodes /\ start.at = 1
      OBVIOUS
    <3> HIDE DEF start
    <3>2. SortedUpTo(start, nodes, 0)
      <4>1. \A j \in 1..n : ~(j < 1) /\ ~(j > n - (0 + 1 - 1))
        BY <1>1
      <4> QED
        BY <1>1, <1>2, <3>1, <4>1 DEF SortedUpTo
    <3> QED
      BY <1>1, <1>5, <3>2
  <2>2. ASSUME NEW j \in 1..n, j - 1 \in T PROVE j \in T
    <3>1. SortedUpTo(h[j - 1], nodes, j - 1)
      BY <2>2
    <3>2. Sortable(h[j - 1]) /\ SortedUpTo(SortStep(h[j - 1]), nodes, j)
      BY <3>1, SortOne
    <3>3. h[j] = SortStep(h[j - 1])
      BY <1>5, <3>2
    <3>4. j \in 0..n
      BY <1>1
    <3> QED
      BY <3>2, <3>3, <3>4
  <2>3. \A j \in 0..n : j \in T
    <3> HIDE DEF T, n
    <3> QED
      BY <1>1, <2>1, <2>2, CountUp
  <2> QED
    BY <2>3
<1>14. \A j \in 1..n : h[j] = SortStep(h[j - 1])
  <2>1. ASSUME NEW j \in 1..n PROVE h[j] = SortStep(h[j - 1])
    <3>1. j - 1 \in 0..n /\ (j - 1) + 1 \in 1..n /\ ((j - 1) + 1) - 1 = j - 1
      BY <1>1
    <3>2. SortedUpTo(h[j - 1], nodes, j - 1)
      BY <1>13, <3>1
    <3>3. Sortable(h[j - 1])
      BY <3>2, SortOne
    <3> QED
      BY <1>5, <3>3
  <2> QED
    BY <2>1
<1>6. h = Body(h)
  <2> HIDE DEF start
  <2>1. ASSUME NEW j \in 0..n PROVE h[j] = Body(h)[j]
    <3>1. CASE j = 0
      BY <1>5, <3>1
    <3>2. CASE j # 0
      <4>1. j \in 1..n
        BY <3>2
      <4> QED
        BY <1>14, <3>2, <4>1
    <3> QED
      BY <3>1, <3>2
  <2>2. DOMAIN h = 0..n /\ h = [j \in 0..n |-> h[j]]
    BY <1>5
  <2> QED
    BY <2>1, <2>2
<1>7. f0 = Body(f0)
  <2> HIDE DEF Body
  <2> QED
    BY <1>6
<1>8. Sorted(nodes) = Merged(f0[n].all)
  BY DEF Sorted, SortStep
<1>12. n \in 0..n
  BY <1>1
<1> HIDE DEF f0, start
<1>9. /\ f0[0] = start
      /\ \A j \in 1..n : f0[j] = SortStep(f0[j - 1])
  <2>1. \A j \in 0..n : f0[j] = Body(f0)[j]
    BY <1>7
  <2>2. 0 \in 0..n /\ \A j \in 1..n : j \in 0..n /\ j # 0
    BY <1>1
  <2>3. f0[0] = start
    BY <2>1, <2>2
  <2>4. ASSUME NEW j \in 1..n PROVE f0[j] = SortStep(f0[j - 1])
    BY <2>1, <2>2
  <2> QED
    BY <2>3, <2>4
<1>10. \A j \in 0..n : f0[j] = h[j]
  <2>1. Alike(n, f0, h)
    BY <1>5, <1>9, <1>14 DEF Alike
  <2> HIDE DEF n
  <2> QED
    BY <1>1, <2>1, SameRecursion
<1>11. Sorted(nodes) = Merged(h[n].all)
  BY <1>8, <1>10, <1>12
<1>15. SortsTo(h, nodes)
  BY <1>11, <1>13 DEF SortsTo
<1> QED
  BY <1>15

LEMMA SortedIs ==
    ASSUME NEW nodes, Known(nodes)
    PROVE  /\ MergedSo(Sorted(nodes), nodes)
           /\ PadsOnlyLast(Sorted(nodes))
<1> DEFINE n == Len(nodes)
<1>1. PICK h : SortsTo(h, nodes)
  BY SortsUnfold
<1>2. n \in Nat /\ n \in 0..n
  BY KnownRead
<1>3. SortedUpTo(h[n], nodes, n) /\ Sorted(nodes) = Merged(h[n].all)
  BY <1>1, <1>2 DEF SortsTo
<1> DEFINE s == h[n]
           all == s.all
           at == s.at
<1> HIDE DEF s, n
<1>4. /\ Known(all) /\ Len(all) = n
      /\ TotalSize(all) = TotalSize(nodes) /\ Content(all) = Content(nodes)
      /\ at \in 1..(n + 1)
      /\ \A j \in 1..n : j < at => ~IsPadding(all[j])
      /\ \A j \in 1..n : j > n - (n + 1 - at) => IsPadding(all[j])
  BY <1>3 DEF SortedUpTo, s, n
<1> HIDE DEF all, at
<1>5. PadsBehind(all)
  <2>1. ASSUME NEW j \in 1..n PROVE IsPadding(all[j]) <=> j >= at
    BY <1>2, <1>4, <2>1
  <2> QED
    BY <1>2, <1>4, <2>1 DEF PadsBehind
<1> DEFINE now == Merged(all)
<1>6. MergedSo(now, all)
  BY <1>4, MergedIs
<1>7. now = Sorted(nodes)
  BY <1>3 DEF all, s
<1> HIDE DEF now
<1>8. MergedSo(now, nodes) /\ PadsOnlyLast(now)
  BY <1>4, <1>5, <1>6 DEF MergedSo
<1> QED
  BY <1>7, <1>8

-----------------------------------------------------------------------------
(* Merging and sorting a chain.                                            *)
PaddingDone ==
    call'.op \in {"merge", "sort"} =>
        LET now == chain'.nodes
            pads == {i \in DOMAIN now : IsPadding(now[i])}
        IN  /\ TotalSize(now) = TotalSize(chain.nodes)
            /\ Content(now) = Content(chain.nodes)
            /\ \A i \in pads : i + 1 \notin pads
            /\ call'.op = "sort" => pads \subseteq {Len(now)}

LEMMA PutInOrder ==
    ASSUME IInv, torn = "no", chain # NoChain, NEW op \in {"merge", "sort"}, NEW now,
           MergedSo(now, chain.nodes), op = "sort" => PadsOnlyLast(now),
           Edited(op, Broken, now, 0)
    PROVE  Kept /\ PaddingDone
<1>1. /\ Known(now) /\ TotalSize(now) = TotalSize(chain.nodes) /\ Content(now) = Content(chain.nodes)
      /\ Spaced(now)
  BY DEF MergedSo
<1>2. now \in Seq(Block)
  BY <1>1, KnownRead
<1>3. Len(now) \in Nat /\ DOMAIN now = 1..Len(now)
  BY <1>2
<1>4. Kept
  <2>1. 0 \in 0..Len(now)
    BY <1>3
  <2> QED
    BY <1>1, <2>1, EditedKept
<1>5. chain \in Chains /\ chain' = [chain EXCEPT !.nodes = now] /\ call'.op = op
  <2>1. chain \in Chains
    BY ChainIs
  <2> QED
    BY <2>1 DEF Edited, Called
<1>6. chain'.nodes = now
  BY <1>5 DEF Chains
<1> DEFINE pads == {i \in DOMAIN now : IsPadding(now[i])}
<1>7. ASSUME NEW i \in pads PROVE i + 1 \notin pads
  <2>1. SUFFICES ASSUME i + 1 \in pads PROVE FALSE
    OBVIOUS
  <2>2. i \in 1..Len(now) /\ i + 1 \in 1..Len(now) /\ IsPadding(now[i]) /\ IsPadding(now[i + 1])
    BY <1>3, <2>1
  <2>3. i \in 1..(Len(now) - 1)
    BY <1>3, <2>2
  <2> QED
    BY <1>1, <2>2, <2>3 DEF Spaced
<1>8. ASSUME op = "sort" PROVE pads \subseteq {Len(now)}
  BY <1>3, <1>8 DEF PadsOnlyLast
<1>9. PaddingDone
  BY <1>1, <1>5, <1>6, <1>7, <1>8 DEF PaddingDone
<1> QED
  BY <1>4, <1>9

LEMMA MergeKept ==
    ASSUME IInv, torn = "no", ChainMerge
    PROVE  Kept /\ PaddingDone
<1>1. chain # NoChain /\ Edited("merge", Broken, Merged(chain.nodes), 0)
  BY DEF ChainMerge
<1>2. Known(chain.nodes)
  BY <1>1, ChainIs
<1>3. MergedSo(Merged(chain.nodes), chain.nodes)
  BY <1>2, MergedIs
<1> QED
  BY <1>1, <1>3, PutInOrder

LEMMA SortKept ==
    ASSUME IInv, torn = "no", ChainSort
    PROVE  Kept /\ PaddingDone
<1>1. chain # NoChain /\ Edited("sort", Broken, Sorted(chain.nodes), 0)
  BY DEF ChainSort
<1>2. Known(chain.nodes)
  BY <1>1, ChainIs
<1>3. MergedSo(Sorted(chain.nodes), chain.nodes) /\ PadsOnlyLast(Sorted(chain.nodes))
  BY <1>2, SortedIs
<1> QED
  BY <1>1, <1>3, PutInOrder

-----------------------------------------------------------------------------
(* Which calls are what.                                                   *)
Edits == {"set", "insert", "delete"}

LEMMA SimpleCalls ==
    ASSUME Simple
    PROVE  call'.op \in {"open", "close", "next", "prev"} \cup Edits
<1>1. ASSUME NEW op, NEW b, NEW plan, Doing(op, b, plan) PROVE call'.op = op
  BY <1>1 DEF Doing, Called
<1>2. ASSUME NEW op, NEW b, NEW ok, Called(op, b, ok) PROVE call'.op = op
  BY <1>2 DEF Called
<1>3. SimpleStep
  BY DEF Simple
<1>4. CASE SimpleOpen \/ SimpleClose \/ SimpleNext \/ SimplePrev
  BY <1>2, <1>4 DEF SimpleOpen, SimpleClose, SimpleNext, SimplePrev
<1>5. CASE SimpleSet \/ SimpleInsert \/ SimpleDelete
  BY <1>1, <1>5 DEF SimpleSet, SimpleInsert, SimpleDelete, Edits
<1> QED
  BY <1>3, <1>4, <1>5 DEF SimpleStep

Others == {"read", "delete chain", "first", "next", "prev",
           "chain delete", "chain insert", "chain set"}

Remaining ==
    \/ ChainRead \/ ChainDelete
    \/ IteratorInit \/ IteratorNext \/ IteratorPrev
    \/ IteratorDelete \/ IteratorInsertBefore \/ IteratorInsertAfter \/ IteratorSet

LEMMA RemainingCalls ==
    ASSUME Remaining
    PROVE  call'.op \in Others
<1>1. ASSUME NEW op, NEW b, NEW nodes, NEW at, Edited(op, b, nodes, at) PROVE call'.op = op
  BY <1>1 DEF Edited, Called
<1>2. ASSUME NEW op, NEW b, RefusedEdit(op, b) PROVE call'.op = op
  BY <1>2 DEF RefusedEdit, Called
<1>3. ASSUME NEW op, NEW b, NEW ok, Called(op, b, ok) PROVE call'.op = op
  BY <1>3 DEF Called
<1>4. CASE ChainRead \/ ChainDelete \/ IteratorInit \/ IteratorNext \/ IteratorPrev
  BY <1>3, <1>4 DEF ChainRead, ChainDelete, IteratorInit, IteratorNext, IteratorPrev, Others
<1>5. CASE IteratorDelete
  BY <1>1, <1>2, <1>5 DEF IteratorDelete, Others
<1>6. CASE IteratorInsertBefore
  BY <1>1, <1>2, <1>6 DEF IteratorInsertBefore, Others
<1>7. CASE IteratorInsertAfter
  BY <1>1, <1>2, <1>7 DEF IteratorInsertAfter, Others
<1>8. CASE IteratorSet
  BY <1>1, <1>2, <1>3, <1>8 DEF IteratorSet, Others
<1> QED
  BY <1>4, <1>5, <1>6, <1>7, <1>8 DEF Remaining

LEMMA WriteCalls ==
    ASSUME ChainWrite \/ ChainWriteCallbacks
    PROVE  call'.op = "write"
<1>1. ASSUME NEW b, NEW ok, Called("write", b, ok) PROVE call'.op = "write"
  BY <1>1 DEF Called
<1>2. ASSUME NEW c, WriteInPlace(c) \/ Rewrite(c) PROVE call'.op = "write"
  BY <1>1, <1>2 DEF WriteInPlace, Rewrite
<1>3. CASE ChainWrite
  BY <1>2, <1>3 DEF ChainWrite, ChainWritten
<1>4. CASE ChainWriteCallbacks
  BY <1>1, <1>2, <1>4 DEF ChainWriteCallbacks
<1> QED
  BY <1>3, <1>4

LEMMA RemainingKept ==
    ASSUME IInv, Unmarked, torn = "no", Remaining
    PROVE  Kept
BY ReadKept, ChainDeleteKept, IteratorKept, IteratorDeleteKept, InsertBeforeKept,
   InsertAfterKept, IteratorSetKept DEF Remaining

LEMMA ChainKeeps ==
    ASSUME IInv, Unmarked, torn = "no", Chain
    PROVE  IInv' /\ EditDone /\ WriteDone /\ PaddingDone
<1>1. ~it.open /\ it' = it /\ ChainStep
  BY DEF Chain
<1>2. Kept => IInv'
  BY <1>1, KeptAtEnd
<1>3. CASE Remaining
  <2>1. Kept
    BY <1>3, RemainingKept
  <2>2. call'.op \in Others
    BY <1>3, RemainingCalls
  <2>3. EditDone /\ WriteDone /\ PaddingDone
    BY <2>2 DEF Others, EditDone, WriteDone, PaddingDone
  <2> QED
    BY <1>2, <2>1, <2>3
<1>4. CASE ChainMerge \/ ChainSort
  <2>1. Kept /\ PaddingDone
    BY <1>4, MergeKept, SortKept
  <2>2. call'.op \in {"merge", "sort"}
    BY <1>4 DEF ChainMerge, ChainSort, Edited, Called
  <2>3. EditDone /\ WriteDone
    BY <2>2 DEF EditDone, WriteDone
  <2> QED
    BY <1>2, <2>1, <2>3
<1>5. CASE ChainWrite \/ ChainWriteCallbacks
  <2>1. Kept /\ WriteDone
    BY <1>5, WriteKept, WriteCallbacksKept
  <2>2. call'.op = "write"
    BY <1>5, WriteCalls
  <2>3. EditDone /\ PaddingDone
    BY <2>2 DEF EditDone, PaddingDone
  <2> QED
    BY <1>2, <2>1, <2>3
<1> QED
  BY <1>1, <1>3, <1>4, <1>5 DEF ChainStep, Remaining

-----------------------------------------------------------------------------
(* All steps.                                                              *)
LEMMA InitKnown ==
    ASSUME Init
    PROVE  IInv
<1>1. PICK bs \in Starts : file = FileOf(bs)
  BY DEF Init
<1>2. Known(bs)
  BY StartsAssumption DEF Known
<1>3. it = Closed /\ torn = "no" /\ chain = NoChain /\ current = 0
  BY DEF Init, SimpleInit, ChainInit
<1>4. FirstOffset \in Nat
  BY FileAssumption DEF FirstOffset
<1>5. it \in Iterators /\ ~it.usable /\ ~it.open
  BY <1>3, <1>4 DEF Closed, Iterators, Entry
<1>6. chain.nodes = <<>>
  BY <1>3 DEF NoChain
<1>7. Len(chain.nodes) = 0
  BY <1>6
<1>8. TypeOK
  <2>1. current \in 0..Len(chain.nodes)
    BY <1>3, <1>7
  <2>2. torn \in Torn /\ ~(chain # NoChain)
    BY <1>3 DEF Torn
  <2> QED
    BY <1>5, <2>1, <2>2 DEF TypeOK
<1>9. FileInv
  BY <1>1, <1>2, <1>5 DEF FileInv
<1> QED
  BY <1>3, <1>5, <1>8, <1>9 DEF IInv, OneAtATime, ChainInv, TornInv

LEMMA StepKeeps ==
    ASSUME IInv, Unmarked, Next
    PROVE  IInv' /\ EditDone /\ WriteDone /\ PaddingDone
<1>1. torn = "no" /\ (Simple \/ Chain)
  BY DEF Next
<1>2. CASE Simple
  <2>1. IInv' /\ EditDone
    BY <1>1, <1>2, SimpleKeeps
  <2>2. call'.op \in {"open", "close", "next", "prev"} \cup Edits
    BY <1>2, SimpleCalls
  <2>3. WriteDone /\ PaddingDone
    BY <2>2 DEF Edits, WriteDone, PaddingDone
  <2> QED
    BY <2>1, <2>3
<1>3. CASE Chain
  BY <1>1, <1>3, ChainKeeps
<1> QED
  BY <1>1, <1>2, <1>3

LEMMA StutterKeeps ==
    ASSUME IInv, UNCHANGED vars
    PROVE  IInv'
<1>1. /\ file' = file /\ it' = it /\ torn' = torn /\ chain' = chain /\ current' = current
  BY DEF vars
<1>2. TypeOK'
  BY <1>1 DEF IInv, TypeOK
<1>3. FileInv'
  BY <1>1 DEF IInv, FileInv
<1>4. OneAtATime' /\ ChainInv'
  BY <1>1 DEF IInv, OneAtATime, ChainInv
<1>5. TornInv'
  BY <1>1, StillTorn DEF IInv, files
<1> QED
  BY <1>2, <1>3, <1>4, <1>5 DEF IInv

-----------------------------------------------------------------------------
(* The theorems.                                                           *)
(* Whatever edits a client makes, in whatever order, and whichever of the  *)
(* writes, flushes, copies and renamings of the model fail: as long as     *)
(* every write was finished, the file is that of a list of blocks, an      *)
(* iterator that may be used stands on one of them, and a chain knows how  *)
(* much room they take; when one in place was not, what stands around the  *)
(* metadata is as it was.                                                  *)
THEOREM InductiveInvariant ==
    ASSUME Unmarked
    PROVE  Spec => []IInv
<1>1. Init => IInv
  BY InitKnown
<1>2. IInv /\ [Next]_vars => IInv'
  BY StepKeeps, StutterKeeps
<1> QED
  BY <1>1, <1>2, PTL DEF Spec

(* No edit, done or failed, leaves a file that is not sound, unless a      *)
(* write was not finished; one in place has then spared what stands before *)
(* and after the metadata.                                                 *)
THEOREM StaysSoundHolds ==
    ASSUME Unmarked
    PROVE  Spec => []StaysSound
<1>1. IInv => StaysSound
  <2>1. SUFFICES ASSUME IInv, torn = "no" PROVE Sound(file)
    BY DEF StaysSound, IInv, TornInv
  <2>2. PICK bs : Known(bs) /\ file = FileOf(bs)
    BY <2>1 DEF IInv, FileInv
  <2>3. Blocks(file) = bs
    BY <2>2, KnownRead
  <2> QED
    BY <2>2, <2>3 DEF Sound, Known
<1> QED
  BY <1>1, InductiveInvariant, PTL

(* The iterator of level 1 stands on a block of the file, and what it has  *)
(* noted of it is what is there, whatever was written around it.           *)
THEOREM OnABlockHolds ==
    ASSUME Unmarked
    PROVE  Spec => []OnABlock
<1>1. IInv => OnABlock
  <2>1. SUFFICES ASSUME IInv, torn = "no", it.usable
                 PROVE  \E i \in DOMAIN Blocks(file) : /\ it.offset = OffsetOf(Blocks(file), i)
                                                       /\ it.block = Blocks(file)[i]
    BY DEF OnABlock
  <2>2. PICK bs : Known(bs) /\ file = FileOf(bs) /\ Stands(bs, it.offset, it.block)
    BY <2>1 DEF IInv, FileInv
  <2>3. Blocks(file) = bs /\ bs \in Seq(Block)
    BY <2>2, KnownRead
  <2> QED
    BY <2>2, <2>3, IndexStands
<1> QED
  BY <1>1, InductiveInvariant, PTL

(* A chain knows what room its file has, and where the audio begins, also  *)
(* after writes that failed, were not lost half way, and were tried again; *)
(* it marks its last block and no other, whatever was inserted, deleted,   *)
(* merged or sorted.                                                       *)
THEOREM ChainKnowsFileHolds ==
    ASSUME Unmarked
    PROVE  Spec => []ChainKnowsFile
<1>1. IInv => ChainKnowsFile
  <2>1. SUFFICES ASSUME IInv, torn = "no", chain # NoChain
                 PROVE  /\ chain.initial_length = TotalSize(Blocks(file))
                        /\ chain.last_offset = FirstOffset + chain.initial_length
                        /\ \A i \in DOMAIN chain.nodes :
                              chain.nodes[i].last <=> (i = Len(chain.nodes))
    BY DEF ChainKnowsFile
  <2>2. /\ Known(chain.nodes)
        /\ chain.initial_length = TotalSize(Blocks(file))
        /\ chain.last_offset = FirstOffset + chain.initial_length
    BY <2>1 DEF IInv, ChainInv
  <2> QED
    BY <2>2 DEF Known, WellFormed
<1> QED
  BY <1>1, InductiveInvariant, PTL

(* The check for a temporary file and the preparation of a write, whose    *)
(* comments ask to keep them in step, agree on every chain there can be.   *)
THEOREM CheckInStepHolds ==
    ASSUME Unmarked
    PROVE  Spec => []CheckInStep
<1>1. IInv => CheckInStep
  <2>1. SUFFICES ASSUME IInv, chain # NoChain, NEW use_padding \in BOOLEAN
                 PROVE  TempfileNeeded(chain, use_padding)
                        <=> TotalSize(Prepared(chain, use_padding)) # chain.initial_length
    BY DEF CheckInStep
  <2>2. Known(chain.nodes) /\ chain.initial_length \in Nat
    BY <2>1 DEF IInv, ChainInv, TypeOK
  <2>3. PreparedSo(Prepared(chain, use_padding), chain, TempfileNeeded(chain, use_padding))
    BY <2>2, PreparedIs
  <2> QED
    BY <2>3 DEF PreparedSo
<1> QED
  BY <1>1, InductiveInvariant, PTL

(* A call of level 1 that succeeds makes the file say what was asked for   *)
(* and stands on the new block; one that fails has done so or has left     *)
(* what the file said.  Excepted is a write that was not finished.         *)
THEOREM EditsAsAskedHolds ==
    ASSUME Unmarked
    PROVE  Spec => EditsAsAsked
<1>1. IInv /\ [Next]_vars => [EditDone]_vars
  BY StepKeeps
<1> QED
  BY <1>1, InductiveInvariant, PTL DEF Spec, EditsAsAsked, EditDone

(* Merging and sorting padding neither makes nor loses room or content,    *)
(* and leaves no padding next to padding; sorting leaves it all at the end. *)
THEOREM PaddingKeptHolds ==
    ASSUME Unmarked
    PROVE  Spec => PaddingKept
<1>1. IInv /\ [Next]_vars => [PaddingDone]_vars
  BY StepKeeps
<1> QED
  BY <1>1, InductiveInvariant, PTL DEF Spec, PaddingKept, PaddingDone

(* A chain that is written is what the file says afterwards, with the      *)
(* content it had in memory; a write that failed has left the old file or  *)
(* written the new one.  Excepted is a write that was not finished, which  *)
(* can be a success just for a chain that was given the file's name.       *)
THEOREM WritesTheChainHolds ==
    ASSUME Unmarked
    PROVE  Spec => WritesTheChain
<1>1. IInv /\ [Next]_vars => [WriteDone]_vars
  BY StepKeeps
<1> QED
  BY <1>1, InductiveInvariant, PTL DEF Spec, WritesTheChain, WriteDone

=============================================================================
