---------------------------- MODULE MCVoiceDetect ---------------------------
(* VoiceDetect for TLC: blocks of up to two samples whose bytes lie on     *)
(* both sides of the threshold and of every change of sign.                *)
EXTENDS VoiceDetect

EdgeBytes == {-128, -6, -5, -1, 0, 4, 5, 6, 127}
LowBytes == {-128, -36, -1, 0, 1, 127}

Pairs == {<<lo, hi>> : lo \in LowBytes, hi \in EdgeBytes}
EdgeBlocks ==
    {<<>>, <<6>>, <<127, 0, 127>>} \cup Pairs \cup {p \o q : p, q \in Pairs}
=============================================================================
