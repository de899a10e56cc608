--------------------------- MODULE MCStreamEncoder ---------------------------
(* Five samples in blocks of two or three: whole blocks, a last block that  *)
(* is short or full, calls that end inside a block.  Every other sample is  *)
(* even, so that some blocks waste bits and their overread sample does not. *)
EXTENDS StreamEncoder

MCSignal == <<2, 4, 3, 12, 5>>

Target(n) == [sample |-> n, offset |-> 0, frameSamples |-> 0]
MCTemplates ==
    "aims" :> <<Target(1), Target(3), Target(7), Target(99)>>
    @@ "bad" :> <<Target(3), Target(1)>>

MCMetadataLists ==
    {<<>>,
     <<[type |-> "seektable", table |-> "bad"]>>,
     <<[type |-> "vorbis"], [type |-> "seektable", table |-> "aims"]>>}
=============================================================================
