----------------------------- MODULE Prediction -----------------------------
(***************************************************************************)
(* The arithmetic of libFLAC's frames: the coding of two channels as their *)
(* mean and difference (stream_encoder.c, stream_decoder.c), and the       *)
(* linear predictors (fixed.c, lpc.c) whose residual is what is stored.    *)
(* Integers are unbounded here; StreamEncoderProofs says how wide they     *)
(* become with the fixed predictors.                                       *)
(***************************************************************************)
EXTENDS Integers, Sequences

(* process: the shift of the sum rounds down. *)
Mid(l, r) == (l + r) \div 2
Side(l, r) == l - r

(* read_frame_: the bit of the sum that the shift lost is that of the side. *)
WholeMid(m, s) == 2 * m + (s % 2)
LeftOf(m, s) == (WholeMid(m, s) + s) \div 2
RightOf(m, s) == (WholeMid(m, s) - s) \div 2

-----------------------------------------------------------------------------
(* A predictor is "fixed" with its order, or "lpc" with its quantized      *)
(* coefficients and the shift of their sum.                                *)
Fixed(order) == [type |-> "fixed", order |-> order]

Lpc(coeffs, shift) ==
    [type |-> "lpc", order |-> Len(coeffs), coeffs |-> coeffs, shift |-> shift]

FixedPrediction(order, x, i) ==
    CASE order = 0 -> 0
      [] order = 1 -> x[i - 1]
      [] order = 2 -> 2 * x[i - 1] - x[i - 2]
      [] order = 3 -> 3 * (x[i - 1] - x[i - 2]) + x[i - 3]
      [] order = 4 -> 4 * (x[i - 1] + x[i - 3]) - 6 * x[i - 2] - x[i - 4]

LpcSum(coeffs, x, i) ==
    LET sum[j \in 0..Len(coeffs)] ==
            IF j = 0 THEN 0 ELSE sum[j - 1] + coeffs[j] * x[i - j]
    IN  sum[Len(coeffs)]

Prediction(p, x, i) ==
    IF p.type = "fixed" THEN FixedPrediction(p.order, x, i)
    ELSE LpcSum(p.coeffs, x, i) \div 2^p.shift

(* FLAC__fixed_compute_residual, FLAC__lpc_compute_residual_from_qlp_...   *)
Residual(p, x) ==
    [i \in 1..(Len(x) - p.order) |-> x[p.order + i] - Prediction(p, x, p.order + i)]

Warmup(p, x) == SubSeq(x, 1, p.order)

(* FLAC__fixed_restore_signal, FLAC__lpc_restore_signal.                   *)
Restored(p, warmup, residual) ==
    LET data[i \in 1..(Len(warmup) + Len(residual))] ==
            IF i <= Len(warmup) THEN warmup[i]
            ELSE residual[i - Len(warmup)] + Prediction(p, data, i)
    IN  data
=============================================================================
