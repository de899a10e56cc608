----------------------- MODULE MCVoiceRecorderService -----------------------
(* VoiceRecorderService for TLC: sets of strategies and the file           *)
(* extensions of two or three sessions.                                    *)
EXTENDS VoiceRecorderService, TLC

CONSTANTS s1, s2, s3, m1, m2

Strategy(idle, max) == [IDLE |-> idle, MAX |-> max]

SomePolicies == {Strategy("SEND", "CHOICE"), Strategy("CANCELED", "SEND")}
EveryPolicy == {Strategy("CANCELED", "SEND"), Strategy("CHOICE", "CANCELED")}
IdleCancels == {Strategy("CANCELED", "SEND")}
SendAlways == {Strategy("SEND", "SEND")}

SendOrAsk == {Strategy("SEND", "CHOICE")}

Moments2 == Permutations({m1, m2})

OneEncoder == [r \in Sessions |-> "flac"]
TwoEncoders == [r \in Sessions |-> IF r = s1 THEN "wav" ELSE "flac"]
=============================================================================
