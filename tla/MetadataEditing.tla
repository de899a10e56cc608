-------------------------- MODULE MetadataEditing ---------------------------
(***************************************************************************)
(* A file edited through the two interfaces of metadata_iterators.c, one   *)
(* at a time, as metadata.h asks for.                                      *)
(***************************************************************************)
EXTENDS MetadataChain

CONSTANT Starts         \* the metadata of the files there are to begin with

ASSUME StartsAssumption ==
    \A blocks \in Starts : /\ blocks \in Seq(Block) /\ WellFormed(blocks)
                           /\ TotalSize(blocks) <= MaxRoom

vars == <<file, it, call, torn, chain, current>>

Init ==
    /\ \E blocks \in Starts : file = FileOf(blocks)
    /\ SimpleInit
    /\ ChainInit

Simple ==
    /\ chain = NoChain
    /\ SimpleStep
    /\ UNCHANGED <<chain, current>>

Chain ==
    /\ ~it.open
    /\ ChainStep
    /\ UNCHANGED it

(* A file that a write has left unfinished is not edited any further here. *)
Next == torn = "no" /\ it.stream # "aborted" /\ (Simple \/ Chain)

Spec == Init /\ [][Next]_vars

-----------------------------------------------------------------------------
(* No edit, done or failed, leaves a file that is not sound, unless a      *)
(* write was not finished: every block is where the headers say, just the  *)
(* last is marked as the last and the audio is all there.  After a write   *)
(* in place that broke off, reported or lost in the last flush, what stands *)
(* before and after the metadata is still all there, in its place.  Nothing *)
(* is said of a new file whose last flush is lost: it is moved over the old *)
(* one all the same.                                                       *)
SurroundingsKept ==
    /\ Copied(file, 0, FirstOffset) = Prefix
    /\ Copied(file, Len(file) - Len(Audio), Len(file)) = Audio

StaysSound ==
    /\ torn = "no" => Sound(file)
    /\ torn = "in place" => SurroundingsKept

(* The iterator of level 1 stands on a block of the file, and what it has  *)
(* noted of it is what is there, whatever was written around it.           *)
OnABlock ==
    it.usable /\ torn = "no" =>
        \E i \in DOMAIN Blocks(file) : /\ it.offset = OffsetOf(Blocks(file), i)
                                       /\ it.block = Blocks(file)[i]

(* A chain knows what room its file has, and where the audio begins, also  *)
(* after writes that failed and were tried again.                          *)
ChainKnowsFile ==
    chain # NoChain /\ torn = "no" =>
        /\ chain.initial_length = TotalSize(Blocks(file))
        /\ chain.last_offset = FirstOffset + chain.initial_length
        /\ \A i \in DOMAIN chain.nodes :
              chain.nodes[i].last <=> (i = Len(chain.nodes))

(* The check for a temporary file and the preparation of a write, whose    *)
(* comments ask to keep them in step, agree.                               *)
CheckInStep ==
    chain # NoChain => \A use_padding \in BOOLEAN :
        TempfileNeeded(chain, use_padding)
        <=> TotalSize(Prepared(chain, use_padding)) # chain.initial_length

-----------------------------------------------------------------------------
(* What an edit of level 1 asks the file to say: of the blocks that are    *)
(* not padding, counting those up to the iterator's.                       *)
Position ==
    Len(Content(Blocks(Copied(file, 0, NextOffset(it.offset, file)) \o Audio)))

Asked(op, b) ==
    LET old == Content(Blocks(file))
        kept == IF op = "insert" \/ IsPadding(it.block) THEN Position ELSE Position - 1
        new == IF op = "delete" THEN <<>> ELSE Said(b)
    IN  SubSeq(old, 1, kept) \o new \o SubSeq(old, Position + 1, Len(old))

(* A call of level 1 that succeeds has made the file say what was asked    *)
(* for and stands on the new block; one that fails has done so or has left *)
(* what the file said.  Excepted is a write that was not finished: in      *)
(* place, which is reported, or in the last flush of a new file, which can *)
(* be a success.                                                           *)
EditsAsAsked ==
    [][call'.op \in {"set", "insert", "delete"} /\ torn' = "no" =>
          LET now == Content(Blocks(file'))
              asked == Asked(call'.op, call'.block)
          IN  IF call'.ok
              THEN /\ now = asked
                   /\ call'.op # "delete" =>
                         it'.block.id = call'.block.id
              ELSE now \in {asked, Content(Blocks(file))}]_vars

(* Merging and sorting padding neither makes nor loses room or content,    *)
(* and leaves no padding next to padding; sorting leaves it all at the end. *)
PaddingKept ==
    [][call'.op \in {"merge", "sort"} =>
          LET now == chain'.nodes
              pads == {i \in DOMAIN now : IsPadding(now[i])}
          IN  /\ TotalSize(now) = TotalSize(chain.nodes)
              /\ Content(now) = Content(chain.nodes)
              /\ \A i \in pads : i + 1 \notin pads
              /\ call'.op = "sort" => pads \subseteq {Len(now)}]_vars

(* A chain that is written is what the file says afterwards; a write that  *)
(* failed has left the old file or written the new one.  Excepted is a     *)
(* write that was not finished.  By callbacks that is always reported; by  *)
(* name it is a success when only the last flush is lost.                  *)
WritesTheChain ==
    [][call'.op = "write" =>
          /\ torn' = "no" =>
                \/ /\ Blocks(file') = chain'.nodes
                   /\ Content(chain'.nodes) = Content(chain.nodes)
                \/ ~call'.ok /\ file' = file
          /\ torn' # "no" => ~call'.ok \/ chain.mode = "file"]_vars

(* What metadata.h says of the result of FLAC__metadata_chain_write (968): *)
(* "true if the write succeeded".  It does not hold: see WritesTheChain.   *)
TrueIsWritten ==
    [][call'.op = "write" /\ call'.ok => Blocks(file') = chain'.nodes]_vars
=============================================================================
