--------------------------- MODULE MetadataChain ----------------------------
(***************************************************************************)
(* The level 2 interface of metadata_iterators.c: a chain holds all the    *)
(* metadata blocks of a file that is closed meanwhile; they are edited in  *)
(* memory and written together, in place if they take as much room as the  *)
(* file's own, which padding is stretched or cut for, else by a new file.  *)
(***************************************************************************)
EXTENDS SimpleIterator

VARIABLES chain,        \* the blocks and what is known of the file
          current       \* where an iterator stands; 0 if there is none

NoChain == [mode |-> "none", nodes |-> <<>>, initial_length |-> 0, last_offset |-> 0]

ChainInit == chain = NoChain /\ current = 0

(* The flags that chain_append_node_, chain_remove_node_ and the insertion *)
(* of an iterator keep: the tail's is set; of the others, the one that was *)
(* the tail is cleared.                                                    *)
Flagged(nodes, last) ==
    IF nodes = <<>> THEN nodes ELSE [nodes EXCEPT ![Len(nodes)].last = last]

Appended(nodes, b) == Append(Flagged(nodes, FALSE), [b EXCEPT !.last = TRUE])

Removed(nodes, i) == Flagged(RemoveAt(nodes, i), TRUE)

InsertedBefore(nodes, i, b) == InsertAt(nodes, i, [b EXCEPT !.last = FALSE])

InsertedAfter(nodes, i, b) ==
    Flagged(InsertAt([nodes EXCEPT ![i].last = FALSE], i + 1, b), TRUE)

(* FLAC__metadata_chain_read, and _with_callbacks.                         *)
ChainRead ==
    /\ chain = NoChain
    /\ \E mode \in {"file", "callbacks"} :
          LET blocks == Blocks(file)
          IN  chain' = [mode |-> mode, nodes |-> blocks,
                        initial_length |-> TotalSize(blocks),
                        last_offset |-> FirstOffset + TotalSize(blocks)]
    /\ current' = 0
    /\ Called("read", Broken, TRUE)
    /\ UNCHANGED files

(* FLAC__metadata_chain_delete                                             *)
ChainDelete ==
    /\ chain # NoChain
    /\ chain' = NoChain /\ current' = 0
    /\ Called("delete chain", Broken, TRUE)
    /\ UNCHANGED files

-----------------------------------------------------------------------------
(* The iterator.                                                           *)
IteratorInit ==
    /\ chain # NoChain
    /\ current' = 1
    /\ Called("first", Broken, TRUE)
    /\ UNCHANGED <<chain, files>>

IteratorNext ==
    /\ current \in 1..(Len(chain.nodes) - 1)
    /\ current' = current + 1
    /\ Called("next", Broken, TRUE)
    /\ UNCHANGED <<chain, files>>

IteratorPrev ==
    /\ current > 1
    /\ current' = current - 1
    /\ Called("prev", Broken, TRUE)
    /\ UNCHANGED <<chain, files>>

Edited(op, b, nodes, at) ==
    /\ chain' = [chain EXCEPT !.nodes = nodes]
    /\ current' = at
    /\ Called(op, b, TRUE)
    /\ UNCHANGED files

RefusedEdit(op, b) ==
    /\ Called(op, b, FALSE)
    /\ UNCHANGED <<chain, current, files>>

(* FLAC__metadata_iterator_delete_block: the block before is the current   *)
(* one then, also if padding has taken the place of the deleted one.       *)
AsPadding(b) == Padding(b.length, b.last)

IteratorDelete ==
    /\ current > 0
    /\ \/ /\ current = 1
          /\ RefusedEdit("chain delete", Broken)
       \/ /\ current > 1
          /\ \/ Edited("chain delete", Broken,
                       [chain.nodes EXCEPT ![current] = AsPadding(@)], current - 1)
             \/ Edited("chain delete", Broken,
                       Removed(chain.nodes, current), current - 1)

(* FLAC__metadata_iterator_insert_block_before                             *)
IteratorInsertBefore ==
    /\ current > 0
    /\ \E b \in Fitting(chain.nodes) :
          IF b.type = "streaminfo" \/ current = 1
          THEN RefusedEdit("chain insert", b)
          ELSE Edited("chain insert", b,
                      InsertedBefore(chain.nodes, current, b), current)

(* FLAC__metadata_iterator_insert_block_after                              *)
IteratorInsertAfter ==
    /\ current > 0
    /\ \E b \in Fitting(chain.nodes) :
          IF b.type = "streaminfo" THEN RefusedEdit("chain insert", b)
          ELSE Edited("chain insert", b,
                      InsertedAfter(chain.nodes, current, b), current + 1)

(* FLAC__metadata_iterator_set_block: it deletes, then inserts, and what   *)
(* cannot be inserted has deleted the old block all the same.              *)
IteratorSet ==
    /\ current > 0
    /\ \E b \in Fitting(chain.nodes) :
          IF current = 1 THEN RefusedEdit("chain set", b)
          ELSE LET rest == Removed(chain.nodes, current)
               IN  IF b.type = "streaminfo"
                   THEN /\ chain' = [chain EXCEPT !.nodes = rest]
                        /\ current' = current - 1
                        /\ Called("chain set", b, FALSE)
                        /\ UNCHANGED files
                   ELSE Edited("chain set", b,
                               InsertedAfter(rest, current - 1, b), current)

-----------------------------------------------------------------------------
(* Faulty: the header of the second block is not gained.                   *)
MergedBodies(nodes) ==
    LET Into(done, b) ==
            IF done # <<>> /\ IsPadding(Last(done)) /\ IsPadding(b)
            THEN [done EXCEPT ![Len(done)].length = @ + b.length]
            ELSE Append(done, b)
        merged[i \in 0..Len(nodes)] ==
            IF i = 0 THEN <<>> ELSE Into(merged[i - 1], nodes[i])
    IN  Flagged(merged[Len(nodes)], TRUE)

(* FLAC__metadata_chain_merge_padding: a block of padding grows by the one *)
(* that follows it, and looks at the next.                                 *)
Merged(nodes) ==
    LET Into(done, b) ==
            IF done # <<>> /\ IsPadding(Last(done)) /\ IsPadding(b)
            THEN [done EXCEPT ![Len(done)].length = @ + Size(b)]
            ELSE Append(done, b)
        merged[i \in 0..Len(nodes)] ==
            IF i = 0 THEN <<>> ELSE Into(merged[i - 1], nodes[i])
    IN  Flagged(merged[Len(nodes)], TRUE)

(* FLAC__metadata_chain_sort_padding: node by node, each block of padding  *)
(* is removed and appended; then they are merged.                          *)
Sorted(nodes) ==
    LET n == Len(nodes)
        step[i \in 0..n] ==
            IF i = 0 THEN [all |-> nodes, at |-> 1]
            ELSE LET s == step[i - 1]
                 IN  IF IsPadding(s.all[s.at])
                     THEN [all |-> Appended(Removed(s.all, s.at), s.all[s.at]),
                           at |-> s.at]
                     ELSE [s EXCEPT !.at = @ + 1]
    IN  Merged(step[n].all)

ChainMerge ==
    /\ chain # NoChain
    /\ Edited("merge", Broken, Merged(chain.nodes), 0)

ChainSort ==
    /\ chain # NoChain
    /\ Edited("sort", Broken, Sorted(chain.nodes), 0)

-----------------------------------------------------------------------------
(* chain_prepare_for_write_: the padding at the end makes up for what the  *)
(* metadata has grown or shrunk by, if it can.                             *)
Stretched(nodes, n) == [nodes EXCEPT ![Len(nodes)].length = @ + n]

(* Faulty: whatever stands at the end, of the right size, makes room.      *)
PreparedByAny(c, use_padding) ==
    LET size == TotalSize(c.nodes)
        tail == Last(c.nodes)
        room == c.initial_length - size
    IN  IF ~use_padding THEN c.nodes
        ELSE IF room > 0 /\ IsPadding(tail) THEN Stretched(c.nodes, room)
        ELSE IF room >= HeaderLength
        THEN Appended(c.nodes, Padding(room - HeaderLength, TRUE))
        ELSE IF room < 0 /\ Size(tail) = -room
        THEN Removed(c.nodes, Len(c.nodes))
        ELSE IF room < 0 /\ IsPadding(tail) /\ tail.length >= -room
        THEN Stretched(c.nodes, room)
        ELSE c.nodes

Prepared(c, use_padding) ==
    LET size == TotalSize(c.nodes)
        tail == Last(c.nodes)
        room == c.initial_length - size
    IN  IF ~use_padding THEN c.nodes
        ELSE IF room > 0 /\ IsPadding(tail) THEN Stretched(c.nodes, room)
        ELSE IF room >= HeaderLength
        THEN Appended(c.nodes, Padding(room - HeaderLength, TRUE))
        ELSE IF room < 0 /\ IsPadding(tail) /\ Size(tail) = -room
        THEN Removed(c.nodes, Len(c.nodes))
        ELSE IF room < 0 /\ IsPadding(tail) /\ tail.length >= -room
        THEN Stretched(c.nodes, room)
        ELSE c.nodes

(* Faulty: padding that would have to go altogether is not thought of.     *)
TempfileNeededForFit(c, use_padding) ==
    LET tail == Last(c.nodes)
        room == c.initial_length - TotalSize(c.nodes)
    IN  /\ room # 0
        /\ use_padding =>
              /\ ~(room > 0 /\ IsPadding(tail))
              /\ room < HeaderLength
              /\ ~(room < 0 /\ IsPadding(tail) /\ tail.length >= -room)

(* FLAC__metadata_chain_check_if_tempfile_needed: the same, once more.     *)
TempfileNeeded(c, use_padding) ==
    LET size == TotalSize(c.nodes)
        tail == Last(c.nodes)
        room == c.initial_length - size
    IN  /\ room # 0
        /\ use_padding =>
              /\ ~(room > 0 /\ IsPadding(tail))
              /\ room < HeaderLength
              /\ ~(room < 0 /\ IsPadding(tail)
                   /\ (Size(tail) = -room \/ tail.length >= -room))

(* chain_rewrite_metadata_in_place_, and its _cb_.  The one that is given  *)
(* a name writes through a buffer and does not ask whether closing the     *)
(* file went well: a write that breaks off then is a success.              *)
WriteInPlace(c) ==
    /\ chain' = c
    /\ \/ /\ file' = Overwritten(file, FirstOffset, Image(c.nodes))
          /\ Called("write", Broken, TRUE)
          /\ UNCHANGED torn
       \/ /\ "io" \in Faults /\ c.mode = "file"
          /\ BrokenOff(FirstOffset, c.nodes)
          /\ Called("write", Broken, TRUE)
       \/ /\ "io" \in Faults
          /\ FailedWrite(FirstOffset, c.nodes)
          /\ Called("write", Broken, FALSE)

(* chain_rewrite_file_ and its _cb_: prefix, blocks and what follows them; *)
(* what is known of the file is learnt anew.  Again the one that is given  *)
(* a name does not see the last flush fail.                                *)
WithNodes(c) ==
    Copied(file, 0, FirstOffset) \o Image(c.nodes) \o Copied(file, c.last_offset, Len(file))

Learnt(c) ==
    [c EXCEPT !.initial_length = TotalSize(c.nodes),
              !.last_offset = FirstOffset + TotalSize(c.nodes)]

Rewrite(c) ==
    \/ /\ file' = WithNodes(c)
       /\ chain' = Learnt(c)
       /\ Called("write", Broken, TRUE)
       /\ UNCHANGED torn
    \/ /\ "io" \in Faults /\ c.mode = "file"
       /\ \E k \in 0..(Len(WithNodes(c)) - 1) : file' = SubSeq(WithNodes(c), 1, k)
       /\ torn' = "cut"
       /\ chain' = Learnt(c)
       /\ Called("write", Broken, TRUE)
    \/ /\ "io" \in Faults
       /\ chain' = c
       /\ Called("write", Broken, FALSE)
       /\ UNCHANGED files

ChainWritten(use_padding) ==
    LET c == [chain EXCEPT !.nodes = Prepared(chain, use_padding)]
    IN  IF TotalSize(c.nodes) = c.initial_length
        THEN WriteInPlace(c)
        ELSE Rewrite(c)

(* FLAC__metadata_chain_write                                              *)
ChainWrite ==
    /\ chain.mode = "file"
    /\ \E use_padding \in BOOLEAN : ChainWritten(use_padding)
    /\ current' = 0

(* FLAC__metadata_chain_write_with_callbacks, which refuses what needs a   *)
(* temporary file, and _and_tempfile, which refuses what does not; the     *)
(* caller then puts the temporary file in the place of the file.           *)
ChainWriteCallbacks ==
    /\ chain.mode = "callbacks"
    /\ \E use_padding \in BOOLEAN, temporary \in BOOLEAN :
          IF TempfileNeeded(chain, use_padding) # temporary
          THEN /\ Called("write", Broken, FALSE)
               /\ UNCHANGED <<chain, files>>
          ELSE LET c == [chain EXCEPT !.nodes = Prepared(chain, use_padding)]
               IN  IF temporary THEN Rewrite(c)
                   ELSE WriteInPlace(c)
    /\ current' = 0

ChainStep ==
    \/ ChainRead \/ ChainDelete
    \/ IteratorInit \/ IteratorNext \/ IteratorPrev
    \/ IteratorDelete \/ IteratorInsertBefore \/ IteratorInsertAfter \/ IteratorSet
    \/ ChainMerge \/ ChainSort
    \/ ChainWrite \/ ChainWriteCallbacks
=============================================================================
