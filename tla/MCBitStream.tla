----------------------------- MODULE MCBitStream -----------------------------
(* Words of two bytes of two bits: every path of a word of 32 bits has its  *)
(* counterpart, and a few items cross several words.                        *)
EXTENDS BitStream

MCRawItems == {<<1>>, <<0, 1, 1>>, <<1, 0, 0, 1>>}
MCUnaryItems == {0, 5}
MCRiceBlocks == {<<-1>>, <<3, -2>>, <<0, 1, -4>>}
MCParameters == {0, 1, 2}
MCByteBlocks == {<<<<1, 0>>, <<0, 1>>, <<1, 1>>>>}
=============================================================================
