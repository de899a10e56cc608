--------------------------- MODULE SimpleIterator ---------------------------
(***************************************************************************)
(* The level 1 interface of metadata_iterators.c: an iterator stands on    *)
(* one block of an open file, and each edit goes to the disk at once,      *)
(* either in place or by way of a temporary file that is moved over the    *)
(* old one.  A call first finds out which, then does it; every write, the  *)
(* last flush of a file that is closed, the copying, the renaming and the  *)
(* opening anew may fail.                                                  *)
(***************************************************************************)
EXTENDS FlacFile

CONSTANTS NewBlocks,    \* the blocks a client writes
          MaxRoom,      \* as long as they take no more room than this
          Faults        \* whether "io" fails

ASSUME ClientAssumption ==
    /\ NewBlocks \subseteq Block
    /\ MaxRoom \in Nat /\ MaxRoom < LengthLimit

VARIABLES it,           \* the iterator
          call,         \* the last call: what it was, its block, its result
          torn          \* a write that was not finished, "in place", or of a
                        \* new file that was "cut" and moved over the old one

files == <<file, torn>>

(* The stream of an iterator may be closed and not forgotten.              *)
Closed == [open |-> FALSE, usable |-> FALSE, is_writable |-> FALSE, stream |-> "none",
           offset |-> FirstOffset, block |-> Broken]

At(writable, f, offset) ==
    [open |-> TRUE, usable |-> TRUE, is_writable |-> writable, stream |-> "open",
     offset |-> offset, block |-> HeaderAt(f, offset)]

SimpleInit ==
    /\ it = Closed
    /\ call = [op |-> "none", block |-> Broken, ok |-> TRUE]
    /\ torn = "no"

Called(op, b, ok) == call' = [op |-> op, block |-> b, ok |-> ok]

(* FLAC__metadata_simple_iterator_init: what cannot be opened for writing  *)
(* is opened for reading.                                                  *)
SimpleOpen ==
    /\ ~it.open
    /\ \E writable \in BOOLEAN : it' = At(writable, file, FirstOffset)
    /\ Called("open", Broken, TRUE)
    /\ UNCHANGED files

(* FLAC__metadata_simple_iterator_delete closes the stream it has.  What a *)
(* second fclose of the same stream does is not defined: here it does      *)
(* nothing, or the process is aborted.                                     *)
Aborted == [Closed EXCEPT !.stream = "aborted"]

SimpleClose ==
    /\ it.open
    /\ \/ it' = Closed
       \/ it.stream = "closed" /\ it' = Aborted
    /\ Called("close", Broken, TRUE)
    /\ UNCHANGED files

-----------------------------------------------------------------------------
(* Moving.  The one before is found by walking from the first.             *)
NextOffset(offset, f) == offset + Size(HeaderAt(f, offset))

PrevOffset(offset, f) ==
    LET walk[o \in 0..offset] ==
            IF NextOffset(o, f) < offset THEN walk[NextOffset(o, f)] ELSE o
    IN  walk[FirstOffset]

SimpleNext ==
    /\ it.usable
    /\ it' = IF it.block.last THEN it
             ELSE At(it.is_writable, file, NextOffset(it.offset, file))
    /\ Called("next", Broken, ~it.block.last)
    /\ UNCHANGED files

SimplePrev ==
    /\ it.usable
    /\ it' = IF it.offset = FirstOffset THEN it
             ELSE At(it.is_writable, file, PrevOffset(it.offset, file))
    /\ Called("prev", Broken, it.offset # FirstOffset)
    /\ UNCHANGED files

-----------------------------------------------------------------------------
(* The block after the iterator's, if it is padding.                       *)
FollowedBy ==
    IF it.block.last THEN Broken ELSE HeaderAt(file, NextOffset(it.offset, file))

(* rewrite_whole_file_: the blocks take the place of the iterator's block, *)
(* or follow it; when the last block is appended to or deleted, the flag   *)
(* of the one before is mended in the temporary file.                      *)
WithFlag(f, offset, last) == [f EXCEPT ![offset + 1].last = last]

Spliced(blocks, append) ==
    LET end == NextOffset(it.offset, file)
        cut == IF append THEN end ELSE it.offset
    IN  Copied(file, 0, cut) \o Image(blocks) \o Copied(file, end, Len(file))

Rewritten(blocks, append) ==
    LET copy == Spliced(blocks, append)
    IN  CASE it.block.last /\ append -> WithFlag(copy, it.offset, FALSE)
          [] it.block.last /\ blocks = <<>> ->
                 WithFlag(copy, PrevOffset(it.offset, file), TRUE)
          [] OTHER -> copy

(* The temporary file when its last flush, that of fclose, is lost: any    *)
(* beginning of it, or, as seeking back for the flag has flushed what was  *)
(* copied, just the flag is not mended.                                    *)
Unflushed(blocks, append) ==
    LET copy == Spliced(blocks, append)
    IN  IF it.block.last /\ (append \/ blocks = <<>>) THEN {copy}
        ELSE {SubSeq(copy, 1, k) : k \in 0..(Len(copy) - 1)}

(* The ways to write: in place at an offset, the whole file anew, or not   *)
(* at all.  Either way the iterator then stands at "goal".                 *)
InPlace(offset, blocks, goal) ==
    [way |-> "in place", offset |-> offset, blocks |-> blocks, goal |-> goal]

Anew(blocks, append, goal) ==
    [way |-> "anew", file |-> Rewritten(blocks, append),
     unflushed |-> Unflushed(blocks, append), goal |-> goal]

Refused == [way |-> "refused"]

(* FLAC__metadata_simple_iterator_set_block                                *)
SetPlan(b, use_padding) ==
    LET old == it.block
        shorter == old.length - b.length
        after == FollowedBy
        marked == [b EXCEPT !.last = old.last]
        whole == Anew(<<marked>>, FALSE, it.offset)
        here(blocks) == InPlace(it.offset, blocks, it.offset)
        split(n, last) == here(<<[b EXCEPT !.last = FALSE], Padding(n, last)>>)
    IN  IF \/ ~it.is_writable
           \/ (old.type = "streaminfo") # (b.type = "streaminfo")
        THEN Refused
        ELSE IF shorter = 0 THEN here(<<marked>>)
        ELSE IF shorter > 0
        THEN IF use_padding /\ shorter >= HeaderLength
             THEN split(shorter - HeaderLength, old.last)
             ELSE whole
        ELSE IF ~use_padding \/ ~IsPadding(after) THEN whole
        ELSE IF Size(after) = -shorter
        THEN here(<<[b EXCEPT !.last = after.last]>>)
        ELSE IF after.length < -shorter THEN whole
        ELSE split(after.length + shorter, after.last)

(* Faulty: padding of the new block's whole size is taken to fit.          *)
InsertPlanOver(b, use_padding) ==
    LET after == FollowedBy
        next == NextOffset(it.offset, file)
        marked == [b EXCEPT !.last = it.block.last]
    IN  IF ~it.is_writable \/ b.type = "streaminfo" THEN Refused
        ELSE IF use_padding /\ after.length = b.length
        THEN InPlace(next, <<[b EXCEPT !.last = after.last]>>, next)
        ELSE Anew(<<marked>>, TRUE, next)

(* FLAC__metadata_simple_iterator_insert_block_after                       *)
InsertPlan(b, use_padding) ==
    LET after == FollowedBy
        next == NextOffset(it.offset, file)
        marked == [b EXCEPT !.last = it.block.last]
    IN  IF ~it.is_writable \/ b.type = "streaminfo" THEN Refused
        ELSE IF \/ ~use_padding \/ ~IsPadding(after)
                \/ after.length # b.length /\ after.length < Size(b)
        THEN Anew(<<marked>>, TRUE, next)
        ELSE IF after.length = b.length
        THEN InPlace(next, <<[b EXCEPT !.last = after.last]>>, next)
        ELSE InPlace(next, <<[b EXCEPT !.last = FALSE],
                             Padding(after.length - Size(b), after.last)>>, next)

(* FLAC__metadata_simple_iterator_delete_block: without padding it does    *)
(* not ask whether the file is writable.                                   *)
DeletePlan(use_padding) ==
    LET before == PrevOffset(it.offset, file)
    IN  IF \/ it.block.type = "streaminfo"
           \/ use_padding /\ ~it.is_writable
        THEN Refused
        ELSE IF use_padding
        THEN InPlace(it.offset, <<Padding(it.block.length, it.block.last)>>, before)
        ELSE Anew(<<>>, FALSE, before)

-----------------------------------------------------------------------------
(* Doing it.  A call that fails leaves the iterator to be deleted only,    *)
(* with its stream as it is then.                                          *)
Fails(stream) == it' = [Closed EXCEPT !.open = TRUE, !.stream = stream]

Refusing(plan) ==
    /\ plan.way = "refused"
    /\ UNCHANGED <<it, files>>

(* write_metadata_block_stationary_, and the one _with_padding_            *)
WritingInPlace(plan) ==
    /\ plan.way = "in place"
    /\ file' = Overwritten(file, plan.offset, Image(plan.blocks))
    /\ it' = At(it.is_writable, file', plan.goal)
    /\ UNCHANGED torn

(* A write in place of which only a beginning comes to the disk, and one   *)
(* that fails: before it began, underway, or when all of it is written.    *)
BrokenOff(offset, blocks) ==
    /\ \E k \in 0..(Len(Image(blocks)) - 1) :
          file' = Overwritten(file, offset, SubSeq(Image(blocks), 1, k))
    /\ torn' = "in place"

FailedWrite(offset, blocks) ==
    \/ UNCHANGED files
    \/ BrokenOff(offset, blocks)
    \/ file' = Overwritten(file, offset, Image(blocks)) /\ UNCHANGED torn

(* Seeking back flushes what was written and is looked at; then the block  *)
(* is read again.  So of a failure here the caller is told.                *)
BreakingOff(plan) ==
    /\ plan.way = "in place" /\ "io" \in Faults
    /\ FailedWrite(plan.offset, plan.blocks)
    /\ Fails("open")

(* simple_iterator_copy_file_postfix_: the file is renamed and opened anew. *)
Moving(plan) ==
    /\ plan.way = "anew"
    /\ file' = plan.file
    /\ it' = At(it.is_writable, file', plan.goal)
    /\ UNCHANGED torn

(* transport_tempfile_ does not ask whether the closing went well.  The    *)
(* call then succeeds if the block it is to stand on is there.             *)
MovingCut(plan) ==
    /\ plan.way = "anew" /\ "io" \in Faults
    /\ file' \in plan.unflushed
    /\ torn' = "cut"
    /\ IF plan.goal + HeaderLength <= Len(file')
       THEN it' = At(it.is_writable, file', plan.goal)
       ELSE Fails("open")

(* The copying fails, or the renaming, when the stream has been closed     *)
(* already, or the opening and reading of the new file.                    *)
NotMoving(plan) ==
    /\ plan.way = "anew" /\ "io" \in Faults
    /\ \/ UNCHANGED file /\ (Fails("open") \/ Fails("closed"))
       \/ file' = plan.file /\ (Fails("open") \/ Fails("none"))
    /\ UNCHANGED torn

Doing(op, b, plan) ==
    \/ Refusing(plan) /\ Called(op, b, FALSE)
    \/ WritingInPlace(plan) /\ Called(op, b, TRUE)
    \/ BreakingOff(plan) /\ Called(op, b, FALSE)
    \/ Moving(plan) /\ Called(op, b, TRUE)
    \/ MovingCut(plan) /\ Called(op, b, it'.usable)
    \/ NotMoving(plan) /\ Called(op, b, FALSE)

Fitting(blocks) == {b \in NewBlocks : TotalSize(blocks) + Size(b) <= MaxRoom}

SimpleSet ==
    /\ it.usable
    /\ \E b \in Fitting(Blocks(file)), use_padding \in BOOLEAN :
          Doing("set", b, SetPlan(b, use_padding))

SimpleInsert ==
    /\ it.usable
    /\ \E b \in Fitting(Blocks(file)), use_padding \in BOOLEAN :
          Doing("insert", b, InsertPlan(b, use_padding))

SimpleDelete ==
    /\ it.usable
    /\ \E use_padding \in BOOLEAN :
          Doing("delete", Broken, DeletePlan(use_padding))

SimpleStep ==
    \/ SimpleOpen \/ SimpleClose \/ SimpleNext \/ SimplePrev
    \/ SimpleSet \/ SimpleInsert \/ SimpleDelete
=============================================================================
