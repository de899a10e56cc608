----------------------------- MODULE FrameCoding -----------------------------
(***************************************************************************)
(* What is inside a frame of libFLAC: process_subframes_ evaluates ways to *)
(* code each channel, keeps the best of each in one of two workspaces,     *)
(* picks a channel assignment and writes the frame (stream_encoder.c,      *)
(* stream_encoder_framing.c); read_frame_ reads it back (stream_decoder.c).*)
(* A frame is a sequence of items, each of a kind and a width: the reader  *)
(* must ask for the very items that were written, or bits are misread.     *)
(* BitStream is about the bits themselves.                                 *)
(***************************************************************************)
EXTENDS Prediction, FrameHeader, FiniteSets, SequencesExt

CONSTANTS
    Channels,       \* 1 or 2
    BitsPerSample,
    WideSamples,    \* more bits than this allow the longer Rice parameters
    Blocksize,
    Blocks,         \* blocks of the signal: one sequence for each channel
    MaxFixedOrder,  \* FLAC__MAX_FIXED_ORDER, 4 in the code
    MaxRiceOrder,   \* FLAC__MAX_RICE_PARTITION_ORDER
    ShortLen,       \* bits of a Rice parameter, 4 in the code
    LongLen,        \* bits of a long one, 5 in the code
    Coefficients,   \* quantized coefficients the analysis may come up with
    Shifts,         \* and shifts
    LooseFrames,    \* frames after which loose mid-side looks again
    SampleRate,
    Headers,        \* headers to try, besides those of the frames
    Damages,        \* how a byte may be damaged: what is added to it
    Settings        \* what the client chose, see SettingsAssumption, and a
                    \* bound on the frames

ASSUME SettingsAssumption ==
    /\ Channels \in {1, 2}
    /\ \A s \in Settings :
        /\ s.midSide \in BOOLEAN /\ s.loose \in BOOLEAN
        /\ s.exhaustive \in BOOLEAN /\ s.lpcOrder \in Nat
        /\ s.frames \in Nat
        /\ s.minOrder \in Nat /\ s.maxOrder \in Nat
        /\ s.disabled \subseteq {"verbatim", "constant", "fixed"}
        /\ s.midSide => Channels = 2
        /\ s.loose => s.midSide
    /\ \A b \in Blocks : Len(b) = Channels

VARIABLES
    settings,   \* chosen once
    block,      \* the samples of the frame that is coded, by channel
    work,       \* by channel: the signal, two workspaces, which is the best
    todo,       \* the channels and candidates that are still to be evaluated
    loose,      \* the state of loose mid-side stereo
    frame,      \* the items of the frame
    reader,     \* the decoder's place in it, and the samples it has
    phase,      \* "idle", "evaluating", "reading"
    frames      \* counts frames

vars == <<settings, block, work, todo, loose, frame, reader, phase, frames>>

Independent == IF Channels = 1 THEN <<"left">> ELSE <<"left", "right">>
AllChannels == Independent \o (IF Channels = 2 THEN <<"mid", "side">> ELSE <<>>)
Lesser(a, b) == IF a < b THEN a ELSE b
Huge == 2^30     \* UINT_MAX in the code
Escape(len) == 2^len - 1

(* From how large a value on a Rice parameter is clipped.                  *)
ParameterLimit == IF BitsPerSample > WideSamples THEN Escape(LongLen)
                  ELSE Escape(ShortLen)

Magnitude(v) == IF v < 0 THEN -v ELSE v
Folded(v) == IF v < 0 THEN -2 * v - 1 ELSE 2 * v
SumOf(f, n) == FoldFunctionOnSet(+, 0, f, 1..n)

-----------------------------------------------------------------------------
(* Partitions of a residual.  The first lacks the warm-up samples.         *)
MaxOrderOf(n) == CHOOSE o \in 0..MaxRiceOrder :
    /\ n % 2^o = 0
    /\ o = MaxRiceOrder \/ n % 2^(o + 1) # 0

LimitedOrder(limit, n, predictor) ==
    LET fit == {o \in 1..limit : n \div 2^o > predictor}
    IN  IF fit = {} THEN 0 ELSE CHOOSE o \in fit : \A p \in fit : p <= o

(* Partition i, counted from 0, of a residual of a block of n samples.     *)
Partition(residual, n, predictor, order, i) ==
    LET size == n \div 2^order
    IN  SubSeq(residual, IF i = 0 THEN 1 ELSE i * size - predictor + 1,
               (i + 1) * size - predictor)

PartitionSum(residual, n, predictor, order, i) ==
    LET part == Partition(residual, n, predictor, order, i)
    IN  SumOf([j \in DOMAIN part |-> Magnitude(part[j])], Len(part))

(* count_rice_bits_in_partition_, an estimate from the sum of magnitudes.  *)
RiceBits(k, samples, sum) ==
    ShortLen + (1 + k) * samples
    + (IF k = 0 THEN 2 * sum ELSE sum \div 2^(k - 1)) - (samples \div 2)

(* The parameter for a mean magnitude, clipped.                            *)
MeanParameter(samples, sum) ==
    CHOOSE k \in 0..(ParameterLimit - 1) :
        /\ k = ParameterLimit - 1 \/ samples * 2^k >= sum
        /\ \A j \in 0..(k - 1) : samples * 2^j < sum

(* set_partitioned_rice_: the parameters and the estimate at one order.    *)
Partitioned(residual, n, predictor, order, guess) ==
    LET sizes == [i \in 1..2^order |->
                    Len(Partition(residual, n, predictor, order, i - 1))]
        sums == [i \in 1..2^order |->
                    PartitionSum(residual, n, predictor, order, i - 1)]
        parameters == [i \in 1..2^order |->
                         IF order = 0 THEN guess ELSE MeanParameter(sizes[i], sums[i])]
        bits == [i \in 1..2^order |-> RiceBits(parameters[i], sizes[i], sums[i])]
    IN  [order |-> order, parameters |-> parameters, bits |-> 6 + SumOf(bits, 2^order)]

(* find_best_partition_order_: from the highest order down; the better of  *)
(* two attempts stays in its place while the other place is used again.    *)
BestPartition(residual, n, predictor, min, max, guess) ==
    LET high == LimitedOrder(max, n, predictor)
        low == Lesser(min, high)
        attempts == [i \in 1..(high - low + 1) |->
                       Partitioned(residual, n, predictor, high - i + 1, guess)]
        tried(s, p) ==
            LET extra == [s.extra EXCEPT ![1 - s.index] = p.parameters]
            IN  IF s.bits = 0 \/ p.bits < s.bits
                THEN [bits |-> p.bits, index |-> 1 - s.index, order |-> p.order,
                      extra |-> extra]
                ELSE [s EXCEPT !.extra = extra]
        best == FoldLeft(tried,
                    [bits |-> 0, index |-> 0, order |-> 0,
                     extra |-> [i \in {0, 1} |-> <<>>]],
                    attempts)
        parameters == best.extra[best.index]
    IN  [order |-> best.order, parameters |-> parameters, bits |-> best.bits,
         long |-> \E i \in DOMAIN parameters : parameters[i] >= Escape(ShortLen)]

-----------------------------------------------------------------------------
(* Subframes: what they hold, and the estimate of their length.            *)
Verbatim(w) ==
    [type |-> "verbatim", wasted |-> w.wasted, samples |-> w.signal,
     estimate |-> 8 + w.wasted + Len(w.signal) * w.bps]

Constant(w) ==
    [type |-> "constant", wasted |-> w.wasted, value |-> w.signal[1],
     estimate |-> 8 + w.wasted + w.bps]

(* evaluate_fixed_subframe_ and evaluate_lpc_subframe_; coefficients have  *)
(* five bits here, their precision and shift nine together.                *)
Precision == 5
Predicted(w, p, min, max, guess) ==
    LET residual == Residual(p, w.signal)
        rice == BestPartition(residual, Len(w.signal), p.order, min, max, guess)
    IN  [type |-> p.type, wasted |-> w.wasted, predictor |-> p,
         warmup |-> Warmup(p, w.signal), residual |-> residual, rice |-> rice,
         estimate |-> 8 + w.wasted + p.order * w.bps + rice.bits
                      + (IF p.type = "lpc" THEN 9 + p.order * Precision ELSE 0)]

(* The items of a subframe.  A value is cut to the width of its item.      *)
Cut(v, width) == ((v + 2^(width - 1)) % 2^width) - 2^(width - 1)
Raw(width, v) == [kind |-> "raw", width |-> width, value |-> v]
Signed(width, v) == Raw(width, Cut(v, width))
AllSigned(width, s) == [i \in DOMAIN s |-> Signed(width, s[i])]

ResidualItems(sub, n) ==
    LET rice == sub.rice
        len == IF rice.long THEN LongLen ELSE ShortLen
        items(i) ==
            LET part == Partition(sub.residual, n, sub.predictor.order, rice.order, i - 1)
                k == rice.parameters[i]
            IN  <<Raw(len, k)>>
                \o [j \in DOMAIN part |-> [kind |-> "rice", width |-> k, value |-> part[j]]]
    IN  <<Raw(2, IF rice.long THEN 1 ELSE 0), Raw(4, rice.order)>>
        \o FlattenSeq([i \in 1..2^rice.order |-> items(i)])

SubframeItems(sub, bps, n) ==
    LET p == sub.predictor
        type == <<[kind |-> "type", width |-> 8,
                   value |-> [type |-> sub.type, wasted |-> sub.wasted > 0,
                              order |-> IF sub.type \in {"fixed", "lpc"} THEN p.order
                                        ELSE 0]]>>
        wasted == IF sub.wasted = 0 THEN <<>>
                  ELSE <<[kind |-> "unary", width |-> 0, value |-> sub.wasted - 1]>>
    IN  type \o wasted \o
        (CASE sub.type = "constant" -> <<Signed(bps, sub.value)>>
           [] sub.type = "verbatim" -> AllSigned(bps, sub.samples)
           [] sub.type = "fixed" -> AllSigned(bps, sub.warmup) \o ResidualItems(sub, n)
           [] sub.type = "lpc" ->
                AllSigned(bps, sub.warmup) \o <<Raw(4, Precision - 1), Raw(5, p.shift)>>
                \o AllSigned(Precision, p.coeffs) \o ResidualItems(sub, n))

ItemBits(item) ==
    CASE item.kind \in {"raw", "type"} -> item.width
      [] item.kind = "unary" -> item.value + 1
      [] item.kind = "rice" -> 1 + item.width + (Folded(item.value) \div 2^item.width)

Bits(items) == SumOf([i \in DOMAIN items |-> ItemBits(items[i])], Len(items))

-----------------------------------------------------------------------------
(* Encoding.                                                               *)
StreamInfo == [minBlocksize |-> Blocksize, maxBlocksize |-> Blocksize,
               rate |-> SampleRate, bps |-> BitsPerSample]

NoHeader == [blocksize |-> 0]

Unread(items) ==
    [header |-> NoHeader, items |-> items, inStep |-> TRUE, channels |-> <<>>]

NoWork == [signal |-> <<>>, wasted |-> 0, bps |-> 0,
           spaces |-> [i \in {0, 1} |-> <<>>], best |-> 0, bits |-> Huge]

Init ==
    /\ settings \in Settings
    /\ block = <<>>
    /\ work = [c \in Range(AllChannels) |-> NoWork]
    /\ todo = <<>>
    /\ loose = [count |-> 0, last |-> "independent"]
    /\ frame = <<>>
    /\ reader = Unread(<<>>)
    /\ phase = "idle"
    /\ frames = 0

(* Which assignments are tried at all.                                     *)
TriesIndependent ==
    ~settings.loose \/ loose.count = 0 \/ loose.last = "independent"
TriesMidSide ==
    settings.midSide /\
        (~settings.loose \/ loose.count = 0 \/ loose.last # "independent")

Tried == (IF TriesIndependent THEN Independent ELSE <<>>)
         \o (IF TriesMidSide THEN <<"mid", "side">> ELSE <<>>)

(* Faulty: the bits of the last sample instead of those of all of them.    *)
WastedBitsOfLast(x) ==
    IF x[Len(x)] = 0 THEN 0
    ELSE CHOOSE s \in 0..BitsPerSample :
            /\ x[Len(x)] % 2^s = 0
            /\ x[Len(x)] % 2^(s + 1) # 0

(* get_wasted_bits_ of a channel, which shifts the signal.                 *)
WastedBits(x) ==
    IF \A i \in DOMAIN x : x[i] = 0 THEN 0
    ELSE CHOOSE s \in 0..BitsPerSample :
            /\ \A i \in DOMAIN x : x[i] % 2^s = 0
            /\ \E i \in DOMAIN x : x[i] % 2^(s + 1) # 0

Signal(b, c) ==
    CASE c = "mid" -> [i \in DOMAIN b[1] |-> Mid(b[1][i], b[2][i])]
      [] c = "side" -> [i \in DOMAIN b[1] |-> Side(b[1][i], b[2][i])]
      [] c = "left" -> b[1]
      [] c = "right" -> b[2]

(* Faulty: the side channel is given no bit more.                          *)
NewWorkOfOneWidth(b, c, old) ==
    LET x == Signal(b, c)
        w == WastedBits(x)
    IN  [old EXCEPT !.signal = [i \in DOMAIN x |-> x[i] \div 2^w],
                    !.wasted = w, !.bps = BitsPerSample - w,
                    !.best = 0, !.bits = Huge]

NewWork(b, c, old) ==
    LET x == Signal(b, c)
        w == WastedBits(x)
    IN  [old EXCEPT !.signal = [i \in DOMAIN x |-> x[i] \div 2^w],
                    !.wasted = w,
                    !.bps = BitsPerSample - w + (IF c = "side" THEN 1 ELSE 0),
                    !.best = 0, !.bits = Huge]

Step(c, try) == [channel |-> c, try |-> try, order |-> 0]

(* process_subframes_, up to the channels.  What a channel that is not     *)
(* tried has in its workspaces is left there.                              *)
BeginFrame ==
    /\ phase = "idle" /\ frames < settings.frames
    /\ block # <<>> => Len(block[1]) = Blocksize
    /\ \E b \in Blocks :
        /\ block' = b
        /\ work' = [c \in DOMAIN work |->
                      IF c \in Range(Tried) THEN NewWork(b, c, work[c]) ELSE work[c]]
    /\ todo' = [i \in DOMAIN Tried |-> Step(Tried[i], "baseline")]
    /\ phase' = "evaluating"
    /\ UNCHANGED <<settings, loose, frame, reader, frames>>

BlockLen == Len(block[1])

MaxPartitionOrder ==
    IF BlockLen < Blocksize THEN 0
    ELSE Lesser(MaxOrderOf(BlockLen), settings.maxOrder)

(* FLAC__fixed_compute_best_predictor: the order of the least total error, *)
(* the highest of equals; the first samples do not count.                  *)
TotalError(x, order) ==
    LET e == [i \in 1..(Len(x) - MaxFixedOrder) |->
                Magnitude(x[i + MaxFixedOrder]
                          - FixedPrediction(order, x, i + MaxFixedOrder))]
    IN  SumOf(e, Len(x) - MaxFixedOrder)

GuessedOrder(x) ==
    CHOOSE o \in 0..MaxFixedOrder :
        /\ \A p \in 0..MaxFixedOrder : TotalError(x, o) <= TotalError(x, p)
        /\ \A p \in (o + 1)..MaxFixedOrder : TotalError(x, o) < TotalError(x, p)

Current == work[todo[1].channel]

(* The candidates of a channel after the verbatim baseline.                *)
Candidates(c, w) ==
    LET n == Len(w.signal)
        orders == IF settings.exhaustive THEN 0..MaxFixedOrder
                  ELSE {GuessedOrder(w.signal)}
        constant == /\ "constant" \notin settings.disabled
                    /\ \A i \in DOMAIN w.signal : w.signal[i] = w.signal[1]
        fixed == \/ "fixed" \notin settings.disabled
                 \/ settings.lpcOrder = 0 /\ w.bits = Huge
        try(type, order) == [channel |-> c, try |-> type, order |-> order]
        rising(type, S) ==
            LET sorted == SetToSortSeq({o \in S : o < n}, <)
            IN  [i \in DOMAIN sorted |-> try(type, sorted[i])]
    IN  CASE n < MaxFixedOrder -> <<>>
          [] n >= MaxFixedOrder /\ constant -> <<Step(c, "constant")>>
          [] n >= MaxFixedOrder /\ ~constant ->
                (IF fixed THEN rising("fixed", orders) ELSE <<>>)
                \o rising("lpc", 1..settings.lpcOrder)

(* process_subframe_: the baseline.                                        *)
EvaluateBaseline ==
    /\ phase = "evaluating" /\ todo # <<>> /\ todo[1].try = "baseline"
    /\ LET c == todo[1].channel
           none == "verbatim" \in settings.disabled /\ BlockLen >= MaxFixedOrder
           w == IF none THEN Current
                ELSE [Current EXCEPT !.spaces[0] = Verbatim(Current),
                                     !.bits = Verbatim(Current).estimate]
       IN  /\ work' = [work EXCEPT ![c] = w]
           /\ todo' = Candidates(c, w) \o <<Step(c, "end")>> \o Tail(todo)
    /\ UNCHANGED <<settings, block, loose, frame, reader, phase, frames>>

(* A candidate goes into the workspace that does not hold the best.        *)
Tries(w, sub) ==
    LET other == 1 - w.best
    IN  IF sub.estimate < w.bits
        THEN [w EXCEPT !.spaces[other] = sub, !.best = other, !.bits = sub.estimate]
        ELSE [w EXCEPT !.spaces[other] = sub]

(* The subframes a candidate may come to.  The Rice parameter that is      *)
(* suggested comes from an estimate in fixed or floating point of the bits *)
(* per sample of the residual, and so do, for LPC, the coefficients.       *)
Subframes(w, try, order) ==
    LET guesses == 1..(ParameterLimit - 1)
        coded(p, guess) ==
            Predicted(w, p, settings.minOrder, MaxPartitionOrder, guess)
    IN  CASE try = "constant" -> {Constant(w)}
          [] try = "fixed" -> {coded(Fixed(order), guess) : guess \in guesses}
          [] try = "lpc" -> {coded(Lpc(coeffs, shift), guess) :
                               coeffs \in [1..order -> Coefficients],
                               shift \in Shifts, guess \in guesses}
          [] OTHER -> {}

(* The same estimate may say that a predictor is not even worth a try.     *)
EvaluateCandidate ==
    /\ phase = "evaluating" /\ todo # <<>>
    /\ LET step == todo[1]
           c == step.channel
       IN  \/ \E sub \in Subframes(work[c], step.try, step.order) :
                 work' = [work EXCEPT ![c] = Tries(@, sub)]
           \/ step.try \in {"fixed", "lpc"} /\ UNCHANGED work
    /\ todo' = Tail(todo)
    /\ UNCHANGED <<settings, block, loose, frame, reader, phase, frames>>

(* Nothing was good enough: verbatim after all.                            *)
EndSubframe ==
    /\ phase = "evaluating" /\ todo # <<>> /\ todo[1].try = "end"
    /\ work' = IF Current.bits < Huge THEN work
               ELSE [work EXCEPT ![todo[1].channel] =
                        [@ EXCEPT !.spaces[@.best] = Verbatim(Current),
                                  !.bits = Verbatim(Current).estimate]]
    /\ todo' = Tail(todo)
    /\ UNCHANGED <<settings, block, loose, frame, reader, phase, frames>>

(* The channels of a frame, by its assignment.                             *)
Coded(assignment) ==
    CASE assignment = "independent" -> Independent
      [] assignment = "left" -> <<"left", "side">>
      [] assignment = "right" -> <<"side", "right">>
      [] assignment = "mid" -> <<"mid", "side">>

(* The assignment of the smallest sum, the first of equals; between the    *)
(* frames at which loose mid-side looks, as before: independent or mid.    *)
Assignment ==
    LET order == <<"independent", "left", "right", "mid">>
        bits(a) == work[Coded(a)[1]].bits + work[Coded(a)[2]].bits
    IN  CASE ~TriesMidSide /\ TriesIndependent -> "independent"
          [] TriesMidSide /\ ~TriesIndependent -> "mid"
          [] OTHER -> order[CHOOSE i \in 1..4 :
                              /\ \A j \in 1..4 : bits(order[i]) <= bits(order[j])
                              /\ \A j \in 1..(i - 1) : bits(order[i]) < bits(order[j])]

(* The frame: the header, then the subframes.                              *)
ComposeFrame ==
    /\ phase = "evaluating" /\ todo = <<>>
    /\ LET a == Assignment
           chosen == Coded(a)
           items(c) == SubframeItems(work[c].spaces[work[c].best], work[c].bps, BlockLen)
           header == [blocksize |-> BlockLen, rate |-> SampleRate,
                      channels |-> Channels, assignment |-> a,
                      bps |-> BitsPerSample, variable |-> FALSE, number |-> frames]
       IN  /\ frame' = [header |-> HeaderBytes(header),
                        items |-> FlattenSeq([i \in DOMAIN chosen |-> items(chosen[i])])]
           /\ loose' = [last |-> a,
                        count |-> IF settings.loose
                                  THEN (loose.count + 1) % LooseFrames ELSE 0]
    /\ reader' = Unread(frame'.items)
    /\ phase' = "reading"
    /\ UNCHANGED <<settings, block, work, todo, frames>>

-----------------------------------------------------------------------------
(* Decoding.  Every function takes and returns the reader with what it read.*)
Take(r, kind, width, n) ==
    LET run == SubSeq(r.items, 1, n)
        fits == /\ n \in 0..Len(r.items)
                /\ \A i \in DOMAIN run : run[i].kind = kind /\ run[i].width = width
    IN  IF r.ok /\ fits
        THEN [ok |-> TRUE, items |-> SubSeq(r.items, n + 1, Len(r.items)),
              got |-> [i \in 1..n |-> run[i].value]]
        ELSE [r EXCEPT !.ok = FALSE]

(* read_residual_partitioned_rice_                                         *)
ReadResidual(r, n, predictor, order, long) ==
    LET size == IF order > 0 THEN n \div 2^order ELSE n - predictor
        len == IF long THEN LongLen ELSE ShortLen
        sane == IF order = 0 THEN n >= predictor ELSE size >= predictor
        partition(s, i) ==
            LET k == Take(s, "raw", len, 1)
                samples == IF order = 0 \/ i > 0 THEN size ELSE size - predictor
                v == IF k.ok THEN Take(k, "rice", k.got[1], samples) ELSE k
            IN  IF v.ok THEN [v EXCEPT !.got = s.got \o @] ELSE v
        none == [r EXCEPT !.got = <<>>]
    IN  IF ~sane THEN [r EXCEPT !.ok = FALSE]
        ELSE FoldLeft(partition, none, [i \in 1..2^order |-> i - 1])

(* read_subframe_fixed_ and read_subframe_lpc_                             *)
ReadPredicted(r, type, order, bps, n) ==
    LET warmup == Take(r, "raw", bps, order)
        precision == Take(warmup, "raw", 4, 1)
        shift == Take(precision, "raw", 5, 1)
        coeffs == Take(shift, "raw", precision.got[1] + 1, order)
        predictor == IF type = "fixed" THEN Fixed(order) ELSE Lpc(coeffs.got, shift.got[1])
        method == Take(IF type = "fixed" THEN warmup ELSE coeffs, "raw", 2, 1)
        rice == Take(method, "raw", 4, 1)
        residual == ReadResidual(rice, n, order, rice.got[1], method.got[1] = 1)
    IN  IF warmup.ok /\ (type = "lpc" => coeffs.ok) /\ rice.ok /\ residual.ok
        THEN [residual EXCEPT !.got = Restored(predictor, warmup.got, @)]
        ELSE [r EXCEPT !.ok = FALSE]

(* read_subframe_                                                          *)
ReadSubframe(items, bps, n) ==
    LET head == Take([ok |-> TRUE, items |-> items, got |-> <<>>], "type", 8, 1)
        type == head.got[1]
        unary == Take(head, "unary", 0, 1)
        wasted == IF type.wasted THEN unary.got[1] + 1 ELSE 0
        r == IF type.wasted THEN unary ELSE head
        body == CASE type.type = "constant" ->
                        LET v == Take(r, "raw", bps - wasted, 1)
                        IN  IF v.ok THEN [v EXCEPT !.got = [i \in 1..n |-> @[1]]] ELSE v
                  [] type.type = "verbatim" -> Take(r, "raw", bps - wasted, n)
                  [] OTHER -> ReadPredicted(r, type.type, type.order, bps - wasted, n)
    IN  IF head.ok /\ r.ok /\ body.ok
        THEN [body EXCEPT !.got = [i \in DOMAIN @ |-> @[i] * 2^wasted]]
        ELSE [head EXCEPT !.ok = FALSE]

ReadFrameHeader ==
    /\ phase = "reading" /\ reader.header = NoHeader
    /\ LET h == ReadHeader(frame.header, StreamInfo)
       IN  reader' = IF h.result = "ok" THEN [reader EXCEPT !.header = h.header]
                     ELSE [reader EXCEPT !.inStep = FALSE]
    /\ UNCHANGED <<settings, block, work, todo, loose, frame, phase, frames>>

(* One channel of read_frame_; the side channel has a bit more.            *)
ReadChannel ==
    /\ phase = "reading" /\ reader.inStep /\ reader.header # NoHeader
    /\ Len(reader.channels) < reader.header.channels
    /\ LET channel == Len(reader.channels) + 1
           h == reader.header
           side == IF h.assignment = "right" THEN 1 ELSE 2
           more == IF h.assignment # "independent" /\ channel = side THEN 1 ELSE 0
           r == ReadSubframe(reader.items, h.bps + more, h.blocksize)
       IN  reader' = IF r.ok
                     THEN [reader EXCEPT !.items = r.items,
                                         !.channels = Append(@, r.got)]
                     ELSE [reader EXCEPT !.inStep = FALSE]
    /\ UNCHANGED <<settings, block, work, todo, loose, frame, phase, frames>>

(* The channel coding is undone, sample by sample.                         *)
Undone(assignment, x) ==
    LET both(f(_, _), g(_, _)) ==
            <<[i \in DOMAIN x[1] |-> f(x[1][i], x[2][i])],
              [i \in DOMAIN x[1] |-> g(x[1][i], x[2][i])]>>
    IN  CASE assignment = "independent" -> x
          [] assignment = "left" ->
                both(LAMBDA l, s : l, LAMBDA l, s : l - s)
          [] assignment = "right" ->
                both(LAMBDA s, r : s + r, LAMBDA s, r : r)
          [] assignment = "mid" -> both(LeftOf, RightOf)

Whole == /\ phase = "reading" /\ reader.header # NoHeader
         /\ Len(reader.channels) = reader.header.channels

EndFrame ==
    /\ Whole
    /\ phase' = "idle"
    /\ frames' = frames + 1
    /\ UNCHANGED <<settings, block, work, todo, loose, frame, reader>>

Next == BeginFrame \/ EvaluateBaseline \/ EvaluateCandidate \/ EndSubframe
        \/ ComposeFrame \/ ReadFrameHeader \/ ReadChannel \/ EndFrame

Spec == Init /\ [][Next]_vars

-----------------------------------------------------------------------------
(* The decoder gets the very samples back: whatever candidates were tried, *)
(* with whatever parameters, in whichever workspace the best one stayed,   *)
(* and whichever channels an earlier frame left behind.                    *)
Lossless ==
    Whole => /\ Undone(reader.header.assignment, reader.channels) = block
             /\ reader.header.number = frames

(* The decoder asks for exactly the items the encoder wrote, of the same   *)
(* widths, and leaves none: both derive the bits of a channel (side, wasted *)
(* bits), the sizes of the partitions and the length of the parameters on  *)
(* their own.                                                              *)
InStep ==
    /\ reader.inStep
    /\ Whole => reader.items = <<>>

(* The best candidate is what is in its workspace, and its real length is  *)
(* near the estimate it was chosen by: never more than half a bit a sample *)
(* and a bit a partition above it (count_rice_bits_in_partition_ guesses   *)
(* from sums).  So no frame is much larger than its verbatim form.         *)
EstimateHonest ==
    \A c \in {d \in DOMAIN work : work[d].bits < Huge} :
        LET w == work[c]
            sub == w.spaces[w.best]
            n == Len(w.signal)
            rice == sub.type \in {"fixed", "lpc"}
            parts == IF rice THEN 2^sub.rice.order ELSE 0
            real == Bits(SubframeItems(sub, w.bps, n))
        IN  IF rice THEN real <= w.bits + (n \div 2) + 2 * parts
            ELSE real = w.bits

(* A header is read as it was written, with whatever mixture of codes and  *)
(* hints, and one with a damaged byte behind the sync code is only accepted *)
(* if the damage changed how long it seems to be and the CRC found its     *)
(* match elsewhere (frame_add_header, read_frame_header_).                 *)
HeadersHold ==
    (phase = "idle" /\ frames = 0) =>
        \A h \in Headers :
            LET b == HeaderBytes(h)
                damaged(i, d) == [b EXCEPT ![i] = (@ + d) % 256]
            IN  /\ ReadHeader(b, StreamInfo)
                     = [result |-> "ok", taken |-> Len(b), header |-> h]
                /\ \A i \in 3..Len(b), d \in Damages :
                     LET read == ReadHeader(damaged(i, d), StreamInfo)
                     IN  read.result = "ok" => read.taken # Len(b)
=============================================================================
