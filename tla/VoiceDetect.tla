---------------------------- MODULE VoiceDetect -----------------------------
(***************************************************************************)
(* How a block of 16-bit little-endian PCM is looked at: the scan of       *)
(* VoiceRecorder.isHearingVoice, byte pair by byte pair, and the sample    *)
(* that the native encoder (jni/libflac.c) makes of the same two bytes.    *)
(* Java bytes are signed; a block is a sequence of them.                   *)
(***************************************************************************)
EXTENDS Integers, Sequences

CONSTANTS
    AMPLITUDE_THRESHOLD,
    Blocks   \* the blocks that read() may return

Byte == -128..127

ASSUME DetectAssumption ==
    /\ AMPLITUDE_THRESHOLD \in Nat
    /\ Blocks \subseteq Seq(Byte)

Abs(x) == IF x < 0 THEN -x ELSE x

(* Faulty: the high byte keeps its sign; the low byte is unsigned.         *)
LoudnessSigned(lo, hi) == hi * 256 + Abs(lo)

LoudnessUnsigned(lo, hi) == Abs(hi) * 256 + (IF lo < 0 THEN lo + 256 ELSE lo)

(* Lines 315-318: the magnitude the detector gives to the pair (lo, hi).   *)
Loudness(lo, hi) == Abs(hi) * 256 + Abs(lo)

(* The sample libflac.c:110 hands to libFLAC: the low byte is unsigned.    *)
Unsigned(b) == IF b < 0 THEN b + 256 ELSE b

Sample(lo, hi) == hi * 256 + Unsigned(lo)

(* How far the detector may be off the true magnitude of a sample.         *)
Error == 256

VARIABLES
    block,  \* buffer and size
    i,      \* loop variable
    heard   \* result: "?" while the loop runs

scanVars == <<block, i, heard>>

ScanInit ==
    /\ block \in Blocks
    /\ i = 0
    /\ heard = "?"

(* Faulty: the loop steps over a sample, or does not step at all.          *)
ScanSkips ==
    /\ heard = "?"
    /\ i < Len(block) - 1
    /\ IF Loudness(block[i + 1], block[i + 2]) > AMPLITUDE_THRESHOLD
       THEN heard' = "yes" /\ UNCHANGED i
       ELSE i' = i + 4 /\ UNCHANGED heard
    /\ UNCHANGED block

ScanStands ==
    /\ heard = "?"
    /\ i < Len(block) - 1
    /\ Loudness(block[i + 1], block[i + 2]) > AMPLITUDE_THRESHOLD
    /\ heard' = "yes"
    /\ UNCHANGED <<i, block>>

(* One pass of the loop of isHearingVoice.  Java counts from 0.            *)
ScanPair ==
    /\ heard = "?"
    /\ i < Len(block) - 1
    /\ IF Loudness(block[i + 1], block[i + 2]) > AMPLITUDE_THRESHOLD
       THEN heard' = "yes" /\ UNCHANGED i
       ELSE i' = i + 2 /\ UNCHANGED heard
    /\ UNCHANGED block

ScanEnds ==
    /\ heard = "?"
    /\ i >= Len(block) - 1
    /\ heard' = "no"
    /\ UNCHANGED <<block, i>>

Scanned == heard # "?" /\ UNCHANGED scanVars

ScanNext == ScanPair \/ ScanEnds \/ Scanned

ScanSpec == ScanInit /\ [][ScanNext]_scanVars

FairScanSpec == ScanSpec /\ WF_scanVars(ScanNext)

-----------------------------------------------------------------------------

(* The magnitudes of the whole samples of the block, as the encoder sees   *)
(* them; an odd last byte is no sample.                                    *)
Magnitudes == {Abs(Sample(block[2 * k - 1], block[2 * k])) : k \in 1..(Len(block) \div 2)}

ScanTypeOK ==
    /\ block \in Blocks
    /\ i \in 0..Len(block)
    /\ heard \in {"?", "yes", "no"}

(* The detector never takes a block for voice whose samples all lie        *)
(* clearly under the threshold ...                                         *)
HeardIsLoud ==
    heard = "yes" => \E m \in Magnitudes : m + Error > AMPLITUDE_THRESHOLD

(* ... nor a block for silence that has a sample clearly above it, though  *)
(* it adds the absolute low byte to the high one whatever their signs.     *)
SilentIsQuiet ==
    heard = "no" => \A m \in Magnitudes : m <= AMPLITUDE_THRESHOLD + Error

(* Every block gets a verdict.                                             *)
Decides == <>(heard # "?")
=============================================================================
