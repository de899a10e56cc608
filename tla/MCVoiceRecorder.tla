-------------------------- MODULE MCVoiceRecorder ---------------------------
(* VoiceRecorder for TLC: the strengthened invariant of the proofs is      *)
(* checked here on the instances the proofs generalise.                    *)
EXTENDS VoiceRecorder
=============================================================================
