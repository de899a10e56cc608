------------------------------ MODULE FlacFile ------------------------------
(***************************************************************************)
(* A FLAC file as its metadata editors see it (metadata_iterators.c): a    *)
(* prefix that ends with the marker "fLaC", the metadata blocks, each a    *)
(* header of four bytes and a body, and the audio.  Of a header only the   *)
(* first byte is told apart from the others: it stands for all of it.      *)
(***************************************************************************)
EXTENDS Integers, Sequences, SequencesExt

CONSTANTS Prefix,       \* the cells before the first block: a tag, the marker
          Audio,        \* the cells of the frames
          Ids,          \* what a block may say
          LengthLimit   \* a length field holds the numbers below this one

VARIABLE file           \* the cells of the file on the disk

HeaderLength == 4

(* A block: its type, an id that stands for what it says, the length of    *)
(* its body, and whether it says that it is the last.                      *)
Types == {"streaminfo", "padding", "other"}

Block == [type : Types, id : Ids \cup {"zeros"}, length : Nat, last : BOOLEAN]

ASSUME FileAssumption ==
    /\ LengthLimit \in Nat \ {0}
    /\ Prefix \in Seq(Range(Prefix)) /\ Audio \in Seq(Range(Audio))
    /\ \A cell \in Range(Prefix) \cup Range(Audio) : cell.type \notin Types

IsPadding(b) == b.type = "padding"

Padding(n, last) == [type |-> "padding", id |-> "zeros", length |-> n, last |-> last]

Size(b) == HeaderLength + b.length

TotalSize(blocks) ==
    LET size[i \in 0..Len(blocks)] ==
            IF i = 0 THEN 0 ELSE size[i - 1] + Size(blocks[i])
    IN  size[Len(blocks)]

(* What write_metadata_block_header_cb_ and write_metadata_block_data_cb_  *)
(* write.                                                                  *)
HeaderImage(b) ==
    [i \in 1..HeaderLength |->
        IF i = 1 THEN [b EXCEPT !.length = @ % LengthLimit]
                 ELSE [type |-> "rest of a header"]]

BodyImage(b) == [i \in 1..b.length |-> [type |-> "body", id |-> b.id]]

BlockImage(b) == HeaderImage(b) \o BodyImage(b)

Image(blocks) ==
    LET image[i \in 0..Len(blocks)] ==
            IF i = 0 THEN <<>> ELSE image[i - 1] \o BlockImage(blocks[i])
    IN  image[Len(blocks)]

FileOf(blocks) == Prefix \o Image(blocks) \o Audio

(* Offsets count from 0, as those of fseeko do.                            *)
FirstOffset == Len(Prefix)

Copied(f, from, to) == SubSeq(f, from + 1, to)

Overwritten(f, offset, cells) ==
    Copied(f, 0, offset) \o cells \o Copied(f, offset + Len(cells), Len(f))

-----------------------------------------------------------------------------
(* read_metadata_block_header_cb_: the header that is read at an offset;   *)
(* where none begins, that of no block.                                    *)
Broken == [type |-> "none", id |-> "none", length |-> 0, last |-> TRUE]

HeaderAt(f, offset) ==
    IF offset < Len(f) /\ f[offset + 1].type \in Types THEN f[offset + 1] ELSE Broken

(* The blocks from the first one to the first that says it is the last.    *)
Blocks(f) ==
    LET from[offset \in 0..Len(f)] ==
            LET b == HeaderAt(f, offset)
            IN  IF b.last \/ offset + Size(b) > Len(f) THEN <<b>>
                ELSE <<b>> \o from[offset + Size(b)]
    IN  from[FirstOffset]

OffsetOf(blocks, i) == FirstOffset + TotalSize(SubSeq(blocks, 1, i - 1))

(* A sound file: its blocks are whole, only the first is a STREAMINFO,     *)
(* only the last says it is the last, and the audio follows it.            *)
WellFormed(blocks) ==
    /\ blocks # <<>>
    /\ \A i \in DOMAIN blocks : /\ blocks[i].type # "none"
                                /\ (blocks[i].type = "streaminfo") <=> (i = 1)
                                /\ blocks[i].last <=> (i = Len(blocks))

Sound(f) == f = FileOf(Blocks(f)) /\ WellFormed(Blocks(f))

(* What the blocks say, the padding left out.                              *)
Said(b) == IF b.type \in {"padding", "none"} THEN <<>> ELSE <<b.id>>

Content(blocks) ==
    LET said[i \in 0..Len(blocks)] ==
            IF i = 0 THEN <<>> ELSE said[i - 1] \o Said(blocks[i])
    IN  said[Len(blocks)]
=============================================================================
