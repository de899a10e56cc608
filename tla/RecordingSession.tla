-------------------------- MODULE RecordingSession --------------------------
(***************************************************************************)
(* What one recording session promises to the listener that was given to   *)
(* VoiceRecorder.setRecorderCallback (VoiceRecorder.java:78-112), with no  *)
(* threads, locks, clocks or microphone in it.  A session is armed by      *)
(* start(), begins with the first voiced block (onRecordStart), hands      *)
(* encoded blocks to the listener (onRecording), and ends at most once     *)
(* with one of the RECORD_END_BY_* states (onRecordEnd).  Unless the end   *)
(* state reports an error, every block that was captured has been          *)
(* delivered when the end is announced, and nothing is delivered after it. *)
(***************************************************************************)
EXTENDS Naturals

EndStates == {"INTERRUPTED", "IDLE", "MAX", "USER"}

NotEnded == "none"

VARIABLES
    phase,      \* where the session is
    captured,   \* blocks of audio that entered the session
    delivered,  \* blocks the listener has received, oldest first
    endState    \* argument of onRecordEnd, NotEnded before it

vars == <<phase, captured, delivered, endState>>

Phases == {"idle", "armed", "recording", "ended", "failed", "dropped", "crashed"}

SessionTypeOK ==
    /\ phase \in Phases
    /\ captured \in Nat
    /\ delivered \in 0..captured
    /\ endState \in EndStates \cup {NotEnded}

Init ==
    /\ phase = "idle"
    /\ captured = 0
    /\ delivered = 0
    /\ endState = NotEnded

(* start(): either the microphone is open and the reader is scheduled, or  *)
(* the call throws.                                                        *)
Arm ==
    /\ phase = "idle"
    /\ phase' \in {"armed", "failed"}
    /\ UNCHANGED <<captured, delivered, endState>>

(* The first voiced block: onRecordStart.                                  *)
Begin ==
    /\ phase = "armed"
    /\ phase' = "recording"
    /\ UNCHANGED <<captured, delivered, endState>>

(* A block is captured; the encoder may keep some of it, or lose it.       *)
Record ==
    /\ phase = "recording"
    /\ captured' = captured + 1
    /\ delivered' \in delivered..captured'
    /\ UNCHANGED <<phase, endState>>

(* The encoder gives up the blocks it still holds.                         *)
Flush ==
    /\ phase = "recording"
    /\ delivered' \in delivered..captured
    /\ UNCHANGED <<phase, captured, endState>>

(* onRecordEnd(s).  A session that never heard a voice can only be ended   *)
(* by the user.                                                            *)
End(s) ==
    /\ phase \in {"armed", "recording"}
    /\ phase = "armed" => s = "USER"
    /\ s # "INTERRUPTED" => delivered = captured
    /\ phase' = "ended"
    /\ endState' = s
    /\ UNCHANGED <<captured, delivered>>

(* The session disappears without an onRecordEnd: it is stopped before its *)
(* reader ever ran, or the process dies of an unchecked exception.         *)
Drop ==
    /\ \/ phase = "armed" /\ phase' = "dropped"
       \/ phase = "recording" /\ phase' = "crashed"
    /\ UNCHANGED <<captured, delivered, endState>>

Next == Arm \/ Begin \/ Record \/ Flush \/ (\E s \in EndStates : End(s)) \/ Drop

Spec == Init /\ [][Next]_vars
=============================================================================
