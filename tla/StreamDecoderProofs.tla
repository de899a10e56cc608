------------------------- MODULE StreamDecoderProofs -------------------------
(***************************************************************************)
(* Four things the stream decoder promises its client, for every way the   *)
(* callbacks fail and every sequence of calls: that a seek lands where it  *)
(* was asked to, however damaged the file is (IInv), that finish vouches   *)
(* only for a signal that was told completely (Told), that what is written *)
(* carries its true sample number (Place), the last two for every file     *)
(* that is numbered as the format wants it, and that damage which is kept  *)
(* to itself costs no frame that is whole (Local).                         *)
(***************************************************************************)
EXTENDS StreamDecoder, SequenceTheorems, WellFoundedInduction, TLAPS

(* What is known of a decoder that the argument speaks of.                 *)
Fields(d) ==
    /\ {"state", "at", "fetched", "sync", "hasInfo", "info", "seeking", "target", "fixed",
        "checking", "md5", "sum", "samplesDecoded"} \subseteq DOMAIN d
    /\ d.seeking \in BOOLEAN /\ d.checking \in BOOLEAN
    /\ d.md5 \in BOOLEAN /\ d.hasInfo \in BOOLEAN

-----------------------------------------------------------------------------
(* A seek.  Nothing has been written yet, or the one piece that ends it.   *)
NothingYet == dec.seeking = TRUE /\ heard = <<>>
Hit == dec.seeking = FALSE /\ Len(heard) = 1 /\ heard[1].sample = call.target

(* Where a seek stands: the decoder's own target is that of the call from  *)
(* the moment the bounds are known, and only a look at a frame writes.     *)
SeekUnderWay ==
    /\ call.op = "seek"
    /\ {"op", "phase", "target", "got", "loop"} \subseteq DOMAIN call
    /\ \/ call.phase = "metadata" /\ call.loop \in {"metadata", "none"} /\ NothingYet
       \/ call.phase = "aim" /\ call.loop = "none" /\ NothingYet
          /\ dec.target = call.target
       \/ call.phase = "look" /\ call.loop = "single" /\ NothingYet
          /\ dec.target = call.target
       \/ call.phase = "look" /\ call.loop = "none" /\ (NothingYet \/ Hit)
          /\ dec.target = call.target

IInv ==
    /\ Fields(dec)
    /\ call = NoCall \/ call.op \in Loops \/ SeekUnderWay
    /\ SeekLands

(* What a step may do to the decoder without touching the seek.            *)
Keeps(d, e) == Fields(e) /\ e.seeking = d.seeking /\ e.target = d.target

-----------------------------------------------------------------------------
(* The sum.  As long as it is kept it is that of all the client was told,  *)
(* and in a pass that is checked and was not moved it is kept unless the   *)
(* file has none; a file that is read for a sum has not reached its audio  *)
(* without STREAMINFO.                                                     *)
Pass == history.pass

PassTyped ==
    /\ "pass" \in DOMAIN history
    /\ {"moved", "told", "faulty", "frames"} \subseteq DOMAIN Pass
    /\ Pass.moved \in BOOLEAN

Summed ==
    /\ dec.seeking => call.op = "seek"
    /\ call.op = "seek" => Pass.moved /\ ~dec.md5
    /\ dec.md5 => dec.sum = Pass.told
    /\ (WellFormed(file) /\ dec.checking /\ ~Pass.moved) =>
          IF dec.hasInfo THEN dec.info.md5 # "none" => dec.md5
          ELSE dec.state \in MetadataStates => dec.md5

Known == dec.hasInfo => \E x \in Infos(file) : dec.info = x.info

Over ==
    /\ result.op = "finish" => dec.state = "UNINITIALIZED"
    /\ dec.state = "UNINITIALIZED" => call = NoCall

Vouched == WellFormed(file) => Md5Vouches

Told == file \in Files /\ PassTyped /\ Summed /\ Known /\ Over /\ Vouched

(* What a step may do to the decoder without touching the sum.             *)
Calm(d, e) ==
    /\ Keeps(d, e)
    /\ e.md5 = d.md5 /\ e.sum = d.sum /\ e.checking = d.checking
    /\ e.hasInfo = d.hasInfo /\ e.info = d.info
    /\ e.state \in MetadataStates => d.state \in MetadataStates
    /\ e.state = "UNINITIALIZED" => d.state = "UNINITIALIZED"

-----------------------------------------------------------------------------
(* Sample numbers.  They come from what STREAMINFO says of the block size, *)
(* or from the first frame.  So a pass from the start that has neither is  *)
(* ahead of both; a pass that was moved can only guess until a reset.      *)
AheadOfInfo ==
    \E info, magic \in file.items :
        /\ InfoFirst(file, info, magic)
        /\ dec.state \in MetadataStates
        /\ dec.at <= IF dec.state = "READ_METADATA" THEN info.at ELSE magic.at

AheadOfFrame ==
    \E frame \in file.items :
        /\ FrameFirst(file, frame)
        /\ IF dec.state = "READ_FRAME" THEN dec.sync = {frame} ELSE dec.at <= frame.at

Active == MetadataStates \cup {"SEARCH_FOR_FRAME_SYNC", "READ_FRAME"}

Ahead ==
    (WellFormed(file) /\ ~Pass.moved /\ ~dec.hasInfo /\ dec.fixed = 0 /\ dec.state \in Active) =>
        SamplesCounted(file) \/ AheadOfInfo \/ AheadOfFrame

Fresh == dec.state \in MetadataStates => dec.fixed = 0 /\ heard = <<>>
Sizes ==
    (WellFormed(file) /\ (dec.hasInfo \/ ~Pass.moved)) =>
        dec.fixed = 0 \/ (dec.fixed = file.blocksize /\ ~Variable(file))
Placed == WellFormed(file) => InPlace
Marked == dec.sync \subseteq Syncs(file)
Aimed == dec.target \in Nat /\ (call.op = "seek" => call.target \in Nat)

Listed == \E S : heard \in Seq(S)

Place == Listed /\ Placed /\ Fresh /\ Sizes /\ Marked /\ Aimed /\ Ahead

-----------------------------------------------------------------------------
LEMMA LeastNumber ==
    ASSUME NEW T, T \subseteq Nat, T # {}
    PROVE  \E m \in T : \A n \in T : m <= n
<1>1. PICK m \in T : \A n \in T : <<n, m>> \notin OpToRel(<, Nat)
  BY NatLessThanWellFounded, WFMin
<1>2. ASSUME NEW n \in T, n < m PROVE FALSE
  BY <1>1, <1>2 DEF OpToRel
<1>3. \A n \in T : m <= n
  BY <1>2
<1> QED
  BY <1>3

-----------------------------------------------------------------------------
(* Reading bytes, with whatever outcome, only moves the reader and may end *)
(* the stream.                                                             *)
LEMMA ReachCalm ==
    ASSUME NEW d, Fields(d), NEW q, NEW r \in Reach(d, q)
    PROVE  /\ Calm(d, r.dec) /\ r.dec.fixed = d.fixed /\ r.dec.sync = d.sync
           /\ IF r.ok THEN r.dec.at = q /\ r.dec.state = d.state
              ELSE r.dec.state \in {"END_OF_STREAM", "ABORTED"}
<1> USE DEF MetadataStates
<1>1. CASE r \in Reached(d, q)
  <2> DEFINE fetched == IF q <= d.fetched THEN d.fetched ELSE Fetched(d, q)
             e == [d EXCEPT !.at = q, !.fetched = fetched]
  <2>1. r = [dec |-> e, ok |-> TRUE, fault |-> 0]
    BY <1>1 DEF Reached
  <2>2. r.dec = e /\ r.ok
    BY <2>1
  <2>3. Calm(d, e) /\ e.fixed = d.fixed /\ e.sync = d.sync /\ e.at = q /\ e.state = d.state
    <3> HIDE DEF fetched
    <3> QED
      BY DEF Calm, Keeps, Fields
  <2> QED
    BY <2>2, <2>3
<1>2. CASE r \in RunsOut(d)
  <2>1. r.dec = [d EXCEPT !.at = file.length, !.fetched = file.length,
                          !.state = "END_OF_STREAM"] /\ ~r.ok
    BY <1>2 DEF RunsOut
  <2> QED
    BY <2>1 DEF Calm, Keeps, Fields
<1>3. CASE \E fault \in {0, 1} : r \in Aborts(d, fault)
  <2>1. r.dec = [d EXCEPT !.at = d.fetched, !.state = "ABORTED"] /\ ~r.ok
    BY <1>3 DEF Aborts
  <2> QED
    BY <2>1 DEF Calm, Keeps, Fields
<1>4. \/ r \in Reached(d, q) \/ r \in RunsOut(d)
      \/ \E fault \in {0, 1} : r \in Aborts(d, fault)
  <2>1. r \in Reached(d, q) \cup RunsOut(d) \cup Aborts(d, 0) \cup Aborts(d, 1)
    BY DEF Reach
  <2> QED
    BY <2>1
<1> QED
  BY <1>1, <1>2, <1>3, <1>4

LEMMA KeepsTrans ==
    ASSUME NEW a, NEW b, NEW c, Keeps(a, b), Keeps(b, c)
    PROVE  Keeps(a, c)
BY DEF Keeps

LEMMA CalmTrans ==
    ASSUME NEW a, NEW b, NEW c, Calm(a, b), Calm(b, c)
    PROVE  Calm(a, c)
BY DEF Calm, Keeps

(* What the parts of a step leave alone.                                   *)
LEMMA PartsKeep ==
    ASSUME NEW d, Fields(d)
    PROVE  /\ Calm(d, d) /\ Calm(d, Resync(d)) /\ Keeps(d, Flushed(d))
           /\ \A position : Keeps(d, Given(d, position))
           /\ Keeps(d, ResetDone(d))
<1>1. Calm(d, d)
  BY DEF Calm, Keeps
<1>2. Calm(d, Resync(d))
  BY DEF Calm, Keeps, Fields, Resync, MetadataStates
<1>3. Keeps(d, Flushed(d))
  BY DEF Keeps, Fields, Flushed
<1>4. ASSUME NEW position PROVE Keeps(d, Given(d, position))
  BY DEF Keeps, Fields, Given
<1>5. Keeps(d, ResetDone(d))
  <2> DEFINE table == d.hasTable /\ d.points = <<>>
  <2>1. ResetDone(d) =
           [d EXCEPT !.state = "SEARCH_FOR_METADATA", !.hasInfo = FALSE,
                     !.hasTable = table, !.points = <<>>,
                     !.md5 = d.checking, !.sum = Nothing, !.fixed = 0,
                     !.nextFixed = 0, !.firstFrame = 0, !.unparseable = 0]
    BY DEF ResetDone
  <2> HIDE DEF table
  <2> QED
    BY <2>1 DEF Keeps, Fields
<1> QED
  BY <1>1, <1>2, <1>3, <1>4, <1>5

(* What they do change.                                                    *)
LEMMA PartsDo ==
    ASSUME NEW d, Fields(d)
    PROVE  /\ Resync(d).state = "SEARCH_FOR_FRAME_SYNC" /\ Resync(d).sync = {}
           /\ Resync(d).fixed = d.fixed
           /\ Flushed(d).state = "SEARCH_FOR_FRAME_SYNC" /\ Flushed(d).sync = {}
           /\ Flushed(d).fixed = d.fixed /\ Flushed(d).md5 = FALSE
           /\ Flushed(d).checking = d.checking /\ Flushed(d).hasInfo = d.hasInfo
           /\ Flushed(d).info = d.info /\ Flushed(d).at = d.fetched
BY DEF Fields, Resync, Flushed

LEMMA ResetDoes ==
    ASSUME NEW d, Fields(d)
    PROVE  LET e == ResetDone(d)
           IN  /\ e.state = "SEARCH_FOR_METADATA" /\ e.hasInfo = FALSE /\ e.fixed = 0
               /\ e.md5 = d.checking /\ e.checking = d.checking /\ e.sum = Nothing
               /\ e.sync = d.sync /\ e.at = d.at
<1> DEFINE table == d.hasTable /\ d.points = <<>>
<1>1. ResetDone(d) =
         [d EXCEPT !.state = "SEARCH_FOR_METADATA", !.hasInfo = FALSE,
                   !.hasTable = table, !.points = <<>>,
                   !.md5 = d.checking, !.sum = Nothing, !.fixed = 0,
                   !.nextFixed = 0, !.firstFrame = 0, !.unparseable = 0]
  BY DEF ResetDone
<1> HIDE DEF table
<1> QED
  BY <1>1 DEF Fields

(* The decoder of a pass that begins at a position of the file.            *)
LEMMA ResetAt ==
    ASSUME NEW d, Fields(d), NEW position
    PROVE  LET e == ResetDone(Flushed(Given(d, position)))
           IN  /\ Keeps(d, e)
               /\ e.state = "SEARCH_FOR_METADATA" /\ e.hasInfo = FALSE /\ e.fixed = 0
               /\ e.md5 = d.checking /\ e.checking = d.checking /\ e.sum = Nothing
               /\ e.sync = {} /\ e.at = position
<1> DEFINE g == Given(d, position)
           f == Flushed(g)
           e == ResetDone(f)
<1>1. Keeps(d, g) /\ g.checking = d.checking
  BY DEF Keeps, Given, Fields
<1>2. Fields(g)
  BY <1>1 DEF Keeps
<1>3. Keeps(g, f) /\ f.checking = g.checking /\ f.sync = {} /\ f.at = g.fetched
  BY <1>2, PartsKeep, PartsDo
<1>4. Fields(f)
  BY <1>3 DEF Keeps
<1>5. /\ Keeps(f, e) /\ e.state = "SEARCH_FOR_METADATA" /\ e.hasInfo = FALSE
      /\ e.fixed = 0 /\ e.md5 = f.checking /\ e.checking = f.checking
      /\ e.sum = Nothing /\ e.sync = f.sync /\ e.at = f.at
  BY <1>4, PartsKeep, ResetDoes
<1>6. g.fetched = position
  BY DEF Given, Fields
<1> HIDE DEF g, f, e
<1>7. Keeps(d, e)
  BY <1>1, <1>3, <1>5, KeepsTrans
<1> QED
  BY <1>1, <1>3, <1>5, <1>6, <1>7 DEF g, f, e

LEMMA GotCalm ==
    ASSUME NEW d, Fields(d), NEW item, NEW numbering
    PROVE  LET e == Got(d, item, numbering)
           IN  /\ Calm(d, e) /\ e.sync = {} /\ e.state = d.state
               /\ e.fixed = IF numbering.next # 0 THEN numbering.next ELSE d.fixed
<1> DEFINE fixed == IF numbering.next # 0 THEN numbering.next ELSE d.fixed
<1>1. Got(d, item, numbering) =
         [d EXCEPT !.nextFixed = numbering.next, !.sync = {}, !.fixed = fixed,
                   !.width = item.width,
                   !.samplesDecoded = numbering.sample + item.samples]
  BY DEF Got
<1> HIDE DEF fixed
<1>2. LET e == Got(d, item, numbering)
      IN  Calm(d, e) /\ e.sync = {} /\ e.state = d.state /\ e.fixed = fixed
  BY <1>1 DEF Calm, Keeps, Fields
<1> QED
  BY <1>2 DEF fixed

(* What reading a block of metadata does to the decoder.                   *)
BlockDone(d, e, block) ==
    /\ Keeps(d, e)
    /\ e.sum = d.sum /\ e.checking = d.checking /\ e.fixed = d.fixed /\ e.sync = d.sync
    /\ e.at = d.at
    /\ IF block.kind = "info"
       THEN /\ e.hasInfo = TRUE /\ e.info = block.info
            /\ e.md5 <=> (d.md5 /\ block.info.md5 # "none")
       ELSE e.hasInfo = d.hasInfo /\ e.info = d.info /\ e.md5 = d.md5

LEMMA BlockReadDone ==
    ASSUME NEW d, Fields(d), NEW block
    PROVE  BlockDone(d, BlockRead(d, block), block) /\ BlockRead(d, block).state = d.state
<1>1. CASE block.kind = "info"
  <2> DEFINE md5 == d.md5 /\ block.info.md5 # "none"
  <2>1. BlockRead(d, block) =
            [d EXCEPT !.hasInfo = TRUE, !.info = block.info, !.md5 = md5]
    BY <1>1 DEF BlockRead
  <2>2. md5 \in BOOLEAN
    OBVIOUS
  <2> HIDE DEF md5
  <2>3. LET e == BlockRead(d, block)
        IN  /\ Keeps(d, e) /\ e.sum = d.sum /\ e.checking = d.checking
            /\ e.fixed = d.fixed /\ e.sync = d.sync /\ e.at = d.at /\ e.state = d.state
            /\ e.hasInfo = TRUE /\ e.info = block.info /\ e.md5 = md5
    BY <2>1, <2>2 DEF Keeps, Fields
  <2> QED
    BY <1>1, <2>3 DEF BlockDone, md5
<1>2. CASE block.kind = "table"
  <2>1. BlockRead(d, block) = [d EXCEPT !.hasTable = TRUE, !.points = block.points]
    BY <1>2 DEF BlockRead
  <2> QED
    BY <1>2, <2>1 DEF BlockDone, Keeps, Fields
<1>3. CASE block.kind \notin {"info", "table"}
  <2>1. BlockRead(d, block) = d
    BY <1>3 DEF BlockRead
  <2> QED
    BY <1>3, <2>1 DEF BlockDone, Keeps
<1> QED
  BY <1>1, <1>2, <1>3

LEMMA LastBlockDone ==
    ASSUME NEW d, NEW e, NEW block, BlockDone(d, e, block), NEW told
    PROVE  /\ BlockDone(d, LastBlock(e, told), block)
           /\ LastBlock(e, told).state = "SEARCH_FOR_FRAME_SYNC"
<1> DEFINE first == IF told THEN e.at ELSE 0
           f == LastBlock(e, told)
<1>1. f = [e EXCEPT !.firstFrame = first, !.state = "SEARCH_FOR_FRAME_SYNC"]
  BY DEF LastBlock
<1>2. Fields(e)
  BY DEF BlockDone, Keeps
<1> HIDE DEF first
<1>3. /\ Fields(f) /\ f.state = "SEARCH_FOR_FRAME_SYNC"
      /\ f.seeking = e.seeking /\ f.target = e.target /\ f.sum = e.sum
      /\ f.checking = e.checking /\ f.fixed = e.fixed /\ f.sync = e.sync /\ f.at = e.at
      /\ f.hasInfo = e.hasInfo /\ f.info = e.info /\ f.md5 = e.md5
  BY <1>1, <1>2 DEF Fields
<1> HIDE DEF f
<1>4. BlockDone(d, f, block)
  BY <1>3 DEF BlockDone, Keeps
<1> QED
  BY <1>3, <1>4 DEF f

-----------------------------------------------------------------------------
(* The calls.  What a loop that is left or goes on does to the call.       *)
InLoop == call # NoCall /\ call.loop \in Loops

GoesOn == Continue \/ \E v : Leave(v)

LEMMA CallKept ==
    ASSUME IInv, InLoop, GoesOn
    PROVE  /\ call'.op = "seek" <=> call.op = "seek"
           /\ call.op = "seek" => call'.target = call.target /\ result' = result
           /\ result' = result \/ (call' = NoCall /\ result'.op \in Loops)
<1>1. CASE Continue
  BY <1>1 DEF Continue
<1>2. CASE \E v : Leave(v)
  <2>1. PICK v : Leave(v)
    BY <1>2
  <2>2. CASE call.op = "seek"
    <3>1. SeekUnderWay
      BY <2>2 DEF IInv, InLoop, Loops
    <3>2. call' = [call EXCEPT !.loop = "none", !.got = v] /\ result' = result
      BY <2>1, <2>2 DEF Leave
    <3> QED
      BY <2>2, <3>1, <3>2 DEF SeekUnderWay
  <2>3. CASE call.op # "seek"
    <3>1. call' = NoCall /\ result' = [op |-> call.op, ok |-> v]
      BY <2>1, <2>3 DEF Leave
    <3>2. call.op \in Loops
      BY <2>3 DEF IInv, InLoop, SeekUnderWay
    <3> QED
      BY <2>3, <3>1, <3>2 DEF NoCall
  <2> QED
    BY <2>2, <2>3
<1> QED
  BY <1>1, <1>2 DEF GoesOn

(* The pass after a step that counts failures, and after one that writes.  *)
SamePass == PassTyped' /\ Pass'.moved = Pass.moved /\ Pass'.told = Pass.told

LEMMA FaultedPass == ASSUME PassTyped, NEW n, Faulted(n) PROVE SamePass
<1> DEFINE faulty == history.pass.faulty \/ n > 0
           faults == history.faults + n
<1>1. history' = [history EXCEPT !.faults = faults,
                                 !.pass = [history.pass EXCEPT !.faulty = faulty]]
  BY DEF Faulted
<1> HIDE DEF faulty, faults
<1> QED
  BY <1>1 DEF PassTyped, Pass, SamePass

LEMMA StillPass == ASSUME PassTyped, UNCHANGED history PROVE SamePass
BY DEF PassTyped, Pass, SamePass

(* A step of the process functions that writes nothing.                    *)
Quiet == InLoop /\ GoesOn /\ UNCHANGED <<file, heard>> /\ Calm(dec, dec') /\ SamePass

-----------------------------------------------------------------------------
LEMMA KeepingStep ==
    ASSUME IInv, InLoop, GoesOn, Keeps(dec, dec'), heard' = heard
    PROVE  IInv'
<1>1. Fields(dec)'
  BY DEF Keeps, Fields
<1>2. dec'.seeking = dec.seeking /\ dec'.target = dec.target
  BY DEF Keeps
<1>3. CASE Continue
  BY <1>1, <1>2, <1>3 DEF Continue, IInv, SeekUnderWay, NothingYet, Hit, SeekLands
<1>4. CASE \E v : Leave(v)
  <2>1. PICK v : Leave(v)
    BY <1>4
  <2>2. CASE call.op = "seek"
    <3>1. SeekUnderWay /\ call.loop \in {"metadata", "single"}
      BY <2>2 DEF IInv, InLoop, NoCall, Loops, SeekUnderWay
    <3>2. call' = [call EXCEPT !.loop = "none", !.got = v] /\ result' = result
      BY <2>1, <2>2 DEF Leave
    <3>3. /\ call'.op = "seek" /\ call'.phase = call.phase
          /\ call'.target = call.target /\ call'.loop = "none"
          /\ DOMAIN call' = DOMAIN call
      BY <3>1, <3>2 DEF SeekUnderWay
    <3>4. NothingYet'
      BY <1>2, <3>1 DEF SeekUnderWay, NothingYet
    <3>5. SeekUnderWay'
      BY <1>2, <3>1, <3>3, <3>4 DEF SeekUnderWay
    <3>6. call' # NoCall
      BY <3>3 DEF NoCall
    <3> QED
      BY <1>1, <3>5, <3>6 DEF IInv, SeekLands
  <2>3. CASE call.op # "seek"
    <3>1. call' = NoCall /\ result' = [op |-> call.op, ok |-> v]
      BY <2>1, <2>3 DEF Leave
    <3> QED
      BY <1>1, <2>3, <3>1 DEF IInv, SeekLands
  <2> QED
    BY <2>2, <2>3
<1> QED
  BY <1>3, <1>4 DEF GoesOn

LEMMA QuietStep == ASSUME IInv, Quiet PROVE IInv'
BY KeepingStep DEF Quiet, Calm

LEMMA QuietTold == ASSUME IInv, Told, Quiet PROVE Told'
<1>1. /\ call'.op = "seek" <=> call.op = "seek"
      /\ result' = result \/ result'.op \in Loops
  BY CallKept DEF Quiet
<1>2. /\ dec'.seeking = dec.seeking /\ dec'.md5 = dec.md5 /\ dec'.sum = dec.sum
      /\ dec'.checking = dec.checking /\ dec'.hasInfo = dec.hasInfo
      /\ dec'.info = dec.info /\ dec'.state # "UNINITIALIZED"
      /\ dec'.state \in MetadataStates => dec.state \in MetadataStates
  BY DEF Quiet, Calm, Keeps, Told, Over, InLoop
<1>3. PassTyped' /\ Pass'.moved = Pass.moved /\ Pass'.told = Pass.told /\ file' = file
  BY DEF Quiet, SamePass
<1>4. Summed'
  BY <1>1, <1>2, <1>3 DEF Told, Summed
<1>5. Known' /\ (file \in Files)'
  BY <1>2 DEF Quiet, Told, Known
<1>6. result'.op # "finish"
  <2>1. result.op # "finish"
    BY DEF Told, Over, Quiet, InLoop
  <2> QED
    BY <1>1, <2>1 DEF Loops
<1> QED
  BY <1>2, <1>3, <1>4, <1>5, <1>6 DEF Told, Over, Vouched, Md5Vouches

LEMMA QuietPlace ==
    ASSUME IInv, Told, Place, Quiet, Marked', Ahead',
           \/ dec'.fixed = dec.fixed
           \/ Sizes' /\ dec'.state \notin MetadataStates
    PROVE  Place'
<1>1. /\ call'.op = "seek" <=> call.op = "seek"
      /\ call.op = "seek" => call'.target = call.target
  BY CallKept DEF Quiet
<1>2. /\ dec'.target = dec.target /\ dec'.hasInfo = dec.hasInfo
      /\ dec'.state \in MetadataStates => dec.state \in MetadataStates
      /\ heard' = heard /\ file' = file /\ Pass'.moved = Pass.moved
  BY DEF Quiet, Calm, Keeps, SamePass
<1>3. Listed' /\ Placed'
  BY <1>2 DEF Place, Listed, Placed, InPlace, Pass
<1>4. Fresh' /\ Sizes'
  BY <1>2 DEF Place, Fresh, Sizes
<1>5. Aimed'
  BY <1>1, <1>2 DEF Place, Aimed
<1> QED
  BY <1>3, <1>4, <1>5 DEF Place

-----------------------------------------------------------------------------
(* The pieces of a file: the nearest one is no further than any other.     *)
LEMMA NearestOnes ==
    ASSUME SideBySide(file), NEW kinds, NEW p,
           NEW x \in file.items, x.kind \in kinds, x.at >= p
    PROVE  /\ Nearest(kinds, p) # {}
           /\ \A n \in Nearest(kinds, p) :
                 n \in file.items /\ n.kind \in kinds /\ n.at >= p /\ n.at <= x.at
<1> DEFINE later == {y \in file.items : y.kind \in kinds /\ y.at >= p}
           places == {y.at : y \in later}
<1>1. x \in later /\ \A y \in later : y.at \in Nat
  BY DEF SideBySide
<1>2. places \subseteq Nat /\ places # {}
  BY <1>1
<1>3. PICK least \in places : \A n \in places : least <= n
  BY <1>2, LeastNumber
<1>4. PICK y \in later : y.at = least
  BY <1>3
<1>5. Nearest(kinds, p) = {n \in later : \A z \in later : n.at <= z.at}
  BY DEF Nearest
<1>6. y \in Nearest(kinds, p)
  BY <1>3, <1>4, <1>5
<1> QED
  BY <1>1, <1>5, <1>6

-----------------------------------------------------------------------------
(* The steps of the process functions that write nothing.  First what they *)
(* do, then that they keep a pass ahead of what it needs.                  *)
Marks == {"magic", "tag", "frame", "fake"}

FoundNext ==
    \/ dec'.state \in {"END_OF_STREAM", "ABORTED"} /\ dec'.sync = dec.sync
    \/ Nearest(Marks, dec.at) = {} /\ dec'.sync = dec.sync
    \/ \E m \in Nearest(Marks, dec.at) :
          \/ /\ m.kind = "magic" /\ dec'.sync = dec.sync
             /\ dec'.state = "READ_METADATA" /\ dec'.at = Ends(m)
          \/ /\ m.kind \in {"frame", "fake"}
             /\ dec'.state = "READ_FRAME" /\ dec'.sync = {m}
          \/ /\ m.kind = "tag" /\ dec'.sync = dec.sync
             /\ dec'.state = "SEARCH_FOR_METADATA"
             /\ \/ dec'.at = Ends(m)
                \/ /\ dec'.at = Ends(m) + 1
                   /\ \A x \in file.items : x.kind = "magic" => x.at # Ends(m)

LEMMA FindMetadataForm ==
    ASSUME IInv, PassTyped, FindMetadata
    PROVE  Quiet /\ dec'.fixed = dec.fixed /\ FoundNext
<1> USE DEF Marks
<1>1. /\ InLoop /\ UNCHANGED <<file, heard>> /\ Fields(dec)
      /\ dec.state = "SEARCH_FOR_METADATA"
  BY DEF FindMetadata, Running, InLoop, InState, IInv
<1> DEFINE marks == Nearest({"magic", "tag", "frame", "fake"}, dec.at)
           Goal == Quiet /\ dec'.fixed = dec.fixed /\ FoundNext
<1>2. ASSUME NEW e, Calm(dec, e), NEW n, Faulted(n), GoesOn, Calm(e, dec')
      PROVE  Quiet
  BY <1>1, <1>2, FaultedPass, CalmTrans DEF Quiet
<1>3. CASE marks = {}
  <2>1. PICK r \in Reach(dec, BeyondEnd) : dec' = r.dec /\ Faulted(r.fault) /\ Leave(FALSE)
    BY <1>3 DEF FindMetadata
  <2>2. Calm(dec, r.dec) /\ r.dec.fixed = dec.fixed /\ r.dec.sync = dec.sync
    BY <1>1, ReachCalm
  <2>3. Quiet
    BY <1>1, <2>1, <2>2, FaultedPass DEF Quiet, GoesOn
  <2> QED
    BY <1>3, <2>1, <2>2, <2>3 DEF FoundNext
<1>4. CASE marks # {}
  <2> DEFINE reach(m) == IF m.kind \in {"magic", "tag"} THEN Ends(m) ELSE m.at + 2
             Outcome(m, r) ==
                CASE ~r.ok -> dec' = r.dec /\ Faulted(r.fault) /\ Leave(FALSE)
                  [] r.ok /\ m.kind = "magic" ->
                         /\ dec' = [r.dec EXCEPT !.state = "READ_METADATA"]
                         /\ Faulted(r.fault) /\ Continue
                  [] r.ok /\ m.kind \in {"frame", "fake"} ->
                         /\ dec' = [r.dec EXCEPT !.state = "READ_FRAME", !.sync = {m}]
                         /\ Faulted(r.fault) /\ Continue
                  [] r.ok /\ m.kind = "tag" ->
                         IF \E x \in file.items : x.kind = "magic" /\ x.at = Ends(m)
                         THEN dec' = r.dec /\ Faulted(r.fault) /\ Continue
                         ELSE \E s \in Reach(r.dec, Ends(m) + 1) :
                                  /\ dec' = s.dec /\ Faulted(s.fault) /\ Leave(FALSE)
  <2>1. PICK m \in marks : \E r \in Reach(dec, reach(m)) : Outcome(m, r)
    BY <1>4 DEF FindMetadata
  <2>1a. PICK r \in Reach(dec, reach(m)) : Outcome(m, r)
    BY <2>1
  <2>2. m.kind \in {"magic", "tag", "frame", "fake"}
    BY <2>1 DEF Nearest
  <2>3. /\ Calm(dec, r.dec) /\ Fields(r.dec)
        /\ r.dec.fixed = dec.fixed /\ r.dec.sync = dec.sync
        /\ IF r.ok THEN r.dec.at = reach(m) /\ r.dec.state = dec.state
           ELSE r.dec.state \in {"END_OF_STREAM", "ABORTED"}
    BY <1>1, ReachCalm DEF Calm, Keeps
  <2>4. CASE ~r.ok
    <3>1. dec' = r.dec /\ Faulted(r.fault) /\ Leave(FALSE)
      BY <2>1a, <2>4
    <3>2. Quiet
      BY <1>1, <2>3, <3>1, FaultedPass DEF Quiet, GoesOn
    <3> QED
      BY <2>3, <2>4, <3>1, <3>2 DEF FoundNext
  <2>5. CASE r.ok /\ m.kind = "magic"
    <3>1. dec' = [r.dec EXCEPT !.state = "READ_METADATA"] /\ Faulted(r.fault) /\ Continue
      BY <2>1a, <2>5
    <3>2. /\ dec'.fixed = r.dec.fixed /\ dec'.sync = r.dec.sync
          /\ dec'.at = r.dec.at /\ dec'.state = "READ_METADATA"
      BY <2>3, <3>1 DEF Fields
    <3>3. Calm(r.dec, dec')
      BY <1>1, <2>3, <2>5, <3>1 DEF Calm, Keeps, Fields, MetadataStates
    <3>4. Quiet
      BY <1>2, <2>3, <3>1, <3>3 DEF GoesOn
    <3> QED
      BY <2>1, <2>3, <2>5, <3>2, <3>4 DEF FoundNext
  <2>6. CASE r.ok /\ m.kind \in {"frame", "fake"}
    <3>1. /\ dec' = [r.dec EXCEPT !.state = "READ_FRAME", !.sync = {m}]
          /\ Faulted(r.fault) /\ Continue
      BY <2>1a, <2>6
    <3>2. dec'.fixed = r.dec.fixed /\ dec'.sync = {m} /\ dec'.state = "READ_FRAME"
      BY <2>3, <3>1 DEF Fields
    <3>3. Calm(r.dec, dec')
      BY <2>3, <3>1 DEF Calm, Keeps, Fields, MetadataStates
    <3>4. Quiet
      BY <1>2, <2>3, <3>1, <3>3 DEF GoesOn
    <3> QED
      BY <2>1, <2>3, <2>6, <3>2, <3>4 DEF FoundNext
  <2>7. CASE r.ok /\ m.kind = "tag"
    <3>1. IF \E x \in file.items : x.kind = "magic" /\ x.at = Ends(m)
          THEN dec' = r.dec /\ Faulted(r.fault) /\ Continue
          ELSE \E s \in Reach(r.dec, Ends(m) + 1) :
                   /\ dec' = s.dec /\ Faulted(s.fault) /\ Leave(FALSE)
      BY <2>1a, <2>7
    <3>2. CASE dec' = r.dec /\ Faulted(r.fault) /\ Continue
      <4>1. Quiet
        BY <1>1, <2>3, <3>2, FaultedPass DEF Quiet, GoesOn
      <4>2. dec'.at = Ends(m)
        BY <2>3, <2>7, <3>2
      <4> QED
        BY <1>1, <2>1, <2>3, <2>7, <3>2, <4>1, <4>2 DEF FoundNext
    <3>3. CASE /\ ~ \E x \in file.items : x.kind = "magic" /\ x.at = Ends(m)
               /\ \E s \in Reach(r.dec, Ends(m) + 1) :
                     dec' = s.dec /\ Faulted(s.fault) /\ Leave(FALSE)
      <4>1. PICK s \in Reach(r.dec, Ends(m) + 1) :
                    dec' = s.dec /\ Faulted(s.fault) /\ Leave(FALSE)
        BY <3>3
      <4>2. /\ Calm(r.dec, s.dec) /\ s.dec.fixed = dec.fixed /\ s.dec.sync = dec.sync
            /\ IF s.ok THEN s.dec.at = Ends(m) + 1 /\ s.dec.state = dec.state
               ELSE s.dec.state \in {"END_OF_STREAM", "ABORTED"}
        BY <2>3, <2>7, ReachCalm
      <4>3. Quiet
        BY <1>2, <2>3, <4>1, <4>2 DEF GoesOn
      <4> QED
        BY <1>1, <2>1, <2>7, <3>3, <4>1, <4>2, <4>3 DEF FoundNext
    <3> QED
      BY <3>1, <3>2, <3>3
  <2> QED
    BY <2>2, <2>4, <2>5, <2>6, <2>7
<1> QED
  BY <1>3, <1>4

LEMMA FindMetadataAhead ==
    ASSUME Told, Place, Quiet, dec'.fixed = dec.fixed, FoundNext,
           dec.state = "SEARCH_FOR_METADATA"
    PROVE  Ahead' /\ Marked'
<1> USE DEF Marks, MetadataStates, Active
<1>1. file' = file
  BY DEF Quiet
<1>2. Marked'
  BY <1>1 DEF Place, Marked, FoundNext, Nearest, Syncs
<1>3. SUFFICES ASSUME WellFormed(file), ~Pass'.moved, ~dec'.hasInfo, dec'.fixed = 0,
                      dec'.state \in Active
               PROVE  SamplesCounted(file) \/ AheadOfInfo' \/ AheadOfFrame'
  BY <1>1, <1>2 DEF Ahead
<1>3a. SideBySide(file)
  BY <1>3 DEF WellFormed
<1>4. SamplesCounted(file) \/ AheadOfInfo \/ AheadOfFrame
  BY <1>3 DEF Place, Ahead, Quiet, SamePass, Calm
<1>5. CASE AheadOfInfo
  <2>1. PICK info \in file.items, magic \in file.items :
           InfoFirst(file, info, magic) /\ dec.at <= magic.at
    BY <1>5 DEF AheadOfInfo
  <2>2. /\ Nearest(Marks, dec.at) # {}
        /\ \A n \in Nearest(Marks, dec.at) :
              n \in file.items /\ n.at \in Nat /\ n.at <= magic.at /\ magic.at < info.at
              /\ info.at \in Nat /\ magic.at \in Nat
    <3>1. magic.kind \in Marks /\ magic.at >= dec.at /\ magic.at < info.at
      <4>1. magic.kind = "magic" /\ magic.at < info.at
        BY <2>1 DEF InfoFirst
      <4>2. magic.at >= dec.at
        BY <2>1
      <4> QED
        BY <4>1, <4>2
    <3> QED
      BY <1>3a, <3>1, NearestOnes DEF SideBySide
  <2>3. PICK m \in Nearest(Marks, dec.at) :
          \/ m.kind = "magic" /\ dec'.state = "READ_METADATA" /\ dec'.at = Ends(m)
          \/ m.kind \in {"frame", "fake"}
          \/ /\ m.kind = "tag" /\ dec'.state = "SEARCH_FOR_METADATA"
             /\ \/ dec'.at = Ends(m)
                \/ /\ dec'.at = Ends(m) + 1
                   /\ \A x \in file.items : x.kind = "magic" => x.at # Ends(m)
    BY <1>3, <2>2 DEF FoundNext
  <2>4. m \in file.items /\ m.at <= magic.at /\ m.at \in Nat /\ m.size \in Nat
    BY <1>3a, <2>2 DEF SideBySide
  <2>5. m.kind \notin {"frame", "fake"}
    BY <2>1, <2>2, <2>4 DEF InfoFirst, Syncs
  <2>6. CASE m.kind = "magic"
    <3>1. Ends(m) <= info.at
      BY <1>1, <1>3a, <2>1, <2>2, <2>4, <2>6 DEF SideBySide, InfoFirst
    <3>2. dec'.state = "READ_METADATA" /\ dec'.at = Ends(m)
      BY <2>3, <2>6
    <3> QED
      BY <1>1, <2>1, <3>1, <3>2 DEF AheadOfInfo
  <2>7. CASE m.kind = "tag"
    <3>1. Ends(m) <= magic.at /\ magic.at \in Nat /\ Ends(m) \in Nat /\ magic.kind = "magic"
      BY <1>1, <1>3a, <2>1, <2>2, <2>4, <2>7 DEF SideBySide, InfoFirst, Ends
    <3>2. dec'.at <= magic.at /\ dec'.state = "SEARCH_FOR_METADATA"
      BY <2>3, <2>7, <3>1
    <3> QED
      BY <1>1, <2>1, <3>2 DEF AheadOfInfo
  <2> QED
    BY <2>3, <2>5, <2>6, <2>7
<1>6. CASE AheadOfFrame
  <2>1. PICK frame \in file.items : FrameFirst(file, frame) /\ dec.at <= frame.at
    BY <1>6 DEF AheadOfFrame
  <2>2. frame.kind = "frame" /\ frame.at >= dec.at /\ frame.at \in Nat
    BY <1>1, <1>3a, <2>1 DEF FrameFirst, SideBySide
  <2>3. /\ Nearest(Marks, dec.at) # {}
        /\ \A n \in Nearest(Marks, dec.at) :
              n \in file.items /\ n.at \in Nat /\ n.at <= frame.at
    BY <1>1, <1>3a, <2>2, NearestOnes DEF SideBySide
  <2>4. PICK m \in Nearest(Marks, dec.at) :
          \/ m.kind = "magic" /\ dec'.state = "READ_METADATA" /\ dec'.at = Ends(m)
          \/ m.kind \in {"frame", "fake"} /\ dec'.state = "READ_FRAME" /\ dec'.sync = {m}
          \/ /\ m.kind = "tag" /\ dec'.state = "SEARCH_FOR_METADATA"
             /\ \/ dec'.at = Ends(m)
                \/ dec'.at = Ends(m) + 1
    BY <1>3, <2>3 DEF FoundNext
  <2>5. m \in file.items /\ m.at <= frame.at /\ m.at \in Nat /\ m.size \in Nat
    BY <1>1, <1>3a, <2>3 DEF SideBySide
  <2>6. CASE m.kind \in {"frame", "fake"}
    <3>1. m = frame
      BY <2>1, <2>2, <2>5, <2>6 DEF FrameFirst, Syncs
    <3> QED
      BY <1>1, <2>1, <2>4, <2>6, <3>1 DEF AheadOfFrame
  <2>7. CASE m.kind \in {"magic", "tag"}
    <3>1. Ends(m) <= frame.at /\ Ends(m) \in Nat
      BY <1>1, <1>3a, <2>2, <2>5, <2>7 DEF SideBySide, Ends
    <3>2. m.kind = "tag" => Ends(m) # frame.at
      BY <2>1, <2>5 DEF FrameFirst
    <3>3. dec'.at <= frame.at /\ dec'.state # "READ_FRAME"
      BY <2>2, <2>4, <2>7, <3>1, <3>2
    <3> QED
      BY <1>1, <2>1, <3>3 DEF AheadOfFrame
  <2> QED
    BY <2>4, <2>6, <2>7
<1> QED
  BY <1>4, <1>5, <1>6

(* The three invariants together.                                          *)
Inv == IInv /\ Told /\ Place

LEMMA FindMetadataStep == Inv /\ FindMetadata => Inv'
<1> SUFFICES ASSUME Inv, FindMetadata PROVE Inv'
  OBVIOUS
<1>1. IInv /\ Told /\ Place /\ PassTyped
  BY DEF Inv, Told
<1>2. Quiet /\ dec'.fixed = dec.fixed /\ FoundNext
  BY <1>1, FindMetadataForm
<1>3. Ahead' /\ Marked'
  BY <1>1, <1>2, FindMetadataAhead DEF FindMetadata, InState
<1> QED
  BY <1>1, <1>2, <1>3, QuietStep, QuietTold, QuietPlace DEF Inv

LEMMA FrameSyncForm ==
    ASSUME IInv, PassTyped, FrameSync
    PROVE  /\ Quiet /\ dec'.fixed = dec.fixed
           /\ \/ dec'.state \in {"END_OF_STREAM", "ABORTED"} /\ dec'.sync = dec.sync
              \/ dec'.state = "READ_FRAME" /\ dec'.sync = Nearest({"frame", "fake"}, dec.at)
<1>1. InLoop /\ UNCHANGED <<file, heard>> /\ Fields(dec)
  BY DEF FrameSync, Running, InLoop, IInv
<1>2. CASE AllDecoded(dec)
  <2>1. dec' = [dec EXCEPT !.state = "END_OF_STREAM"] /\ Continue /\ UNCHANGED history
    BY <1>2 DEF FrameSync
  <2>2. /\ Calm(dec, dec') /\ dec'.fixed = dec.fixed /\ dec'.sync = dec.sync
        /\ dec'.state = "END_OF_STREAM"
    BY <1>1, <2>1 DEF Calm, Keeps, Fields, MetadataStates
  <2>3. Quiet
    BY <1>1, <2>1, <2>2, StillPass DEF Quiet, GoesOn
  <2> QED
    BY <2>2, <2>3
<1>3. CASE ~AllDecoded(dec)
  <2> DEFINE syncs == Nearest({"frame", "fake"}, dec.at)
             reach == IF syncs = {} THEN BeyondEnd
                      ELSE (CHOOSE m \in syncs : TRUE).at + 2
  <2>1. PICK r \in Reach(dec, reach) :
           /\ Faulted(r.fault)
           /\ IF r.ok
              THEN /\ dec' = [r.dec EXCEPT !.state = "READ_FRAME", !.sync = syncs]
                   /\ Continue
              ELSE dec' = r.dec /\ Leave(TRUE)
    BY <1>3 DEF FrameSync
  <2> HIDE DEF syncs, reach
  <2>2. /\ Calm(dec, r.dec) /\ Fields(r.dec)
        /\ r.dec.fixed = dec.fixed /\ r.dec.sync = dec.sync
        /\ ~r.ok => r.dec.state \in {"END_OF_STREAM", "ABORTED"}
    BY <1>1, ReachCalm DEF Calm, Keeps
  <2>3. SamePass
    BY <2>1, FaultedPass
  <2>4. CASE r.ok
    <3>1. dec' = [r.dec EXCEPT !.state = "READ_FRAME", !.sync = syncs] /\ Continue
      BY <2>1, <2>4
    <3>2. /\ Calm(r.dec, dec') /\ dec'.fixed = r.dec.fixed /\ dec'.sync = syncs
          /\ dec'.state = "READ_FRAME"
      BY <2>2, <3>1 DEF Calm, Keeps, Fields, MetadataStates
    <3>3. Quiet
      BY <1>1, <2>2, <2>3, <3>1, <3>2, CalmTrans DEF Quiet, GoesOn
    <3> QED
      BY <2>2, <3>2, <3>3 DEF syncs
  <2>5. CASE ~r.ok
    <3>1. Quiet
      BY <1>1, <2>1, <2>2, <2>3, <2>5 DEF Quiet, GoesOn
    <3> QED
      BY <2>1, <2>2, <2>5, <3>1
  <2> QED
    BY <2>4, <2>5
<1> QED
  BY <1>2, <1>3

LEMMA FrameSyncStep == Inv /\ FrameSync => Inv'
<1> SUFFICES ASSUME Inv, FrameSync PROVE Inv'
  OBVIOUS
<1> USE DEF MetadataStates, Active
<1>1. IInv /\ Told /\ Place /\ PassTyped /\ dec.state = "SEARCH_FOR_FRAME_SYNC"
  BY DEF Inv, Told, FrameSync, InState
<1>2. /\ Quiet /\ dec'.fixed = dec.fixed
      /\ \/ dec'.state \in {"END_OF_STREAM", "ABORTED"} /\ dec'.sync = dec.sync
         \/ dec'.state = "READ_FRAME" /\ dec'.sync = Nearest({"frame", "fake"}, dec.at)
  BY <1>1, FrameSyncForm
<1>3. file' = file
  BY <1>2 DEF Quiet
<1>4. Marked'
  BY <1>1, <1>2, <1>3 DEF Place, Marked, Nearest, Syncs
<1>5. Ahead'
  <2>1. SUFFICES ASSUME WellFormed(file), ~Pass'.moved, ~dec'.hasInfo, dec'.fixed = 0,
                        dec'.state \in Active
                 PROVE  SamplesCounted(file) \/ AheadOfInfo' \/ AheadOfFrame'
    BY <1>3 DEF Ahead
  <2>1a. SideBySide(file)
    BY <2>1 DEF WellFormed
  <2>2. SamplesCounted(file) \/ AheadOfInfo \/ AheadOfFrame
    BY <1>1, <1>2, <2>1 DEF Place, Ahead, Quiet, SamePass, Calm
  <2>3. CASE AheadOfFrame
    <3>1. PICK frame \in file.items : FrameFirst(file, frame) /\ dec.at <= frame.at
      BY <1>1, <2>3 DEF AheadOfFrame
    <3>2. frame.kind = "frame" /\ frame.at >= dec.at /\ frame.at \in Nat
      BY <2>1a, <3>1 DEF FrameFirst, SideBySide
    <3>3. /\ Nearest({"frame", "fake"}, dec.at) # {}
          /\ \A n \in Nearest({"frame", "fake"}, dec.at) :
                n \in Syncs(file) /\ n.at \in Nat /\ n.at <= frame.at
      BY <2>1a, <3>2, NearestOnes DEF SideBySide, Syncs
    <3>4. \A n \in Nearest({"frame", "fake"}, dec.at) : n = frame
      BY <3>1, <3>2, <3>3 DEF FrameFirst
    <3>5. Nearest({"frame", "fake"}, dec.at) = {frame}
      BY <3>3, <3>4
    <3>6. dec'.state = "READ_FRAME" /\ dec'.sync = {frame}
      BY <1>2, <2>1, <3>5
    <3> QED
      BY <1>3, <3>1, <3>6 DEF AheadOfFrame
  <2> QED
    BY <1>1, <2>2, <2>3 DEF AheadOfInfo
<1> QED
  BY <1>1, <1>2, <1>4, <1>5, QuietStep, QuietTold, QuietPlace DEF Inv

(* A reader of frames that has a pass from the start ahead of what it      *)
(* needs is about to read the frame that tells.                            *)
LEMMA AtTheFrame ==
    ASSUME WellFormed(file), Place, dec.state = "READ_FRAME", ~Pass.moved, ~dec.hasInfo, dec.fixed = 0,
           ~SamplesCounted(file)
    PROVE  \E frame \in file.items : FrameFirst(file, frame) /\ dec.sync = {frame}
BY DEF Place, Ahead, Active, MetadataStates, AheadOfInfo, AheadOfFrame

LEMMA ReadFrameStaleStep == Inv /\ ReadFrameStale => Inv'
<1> SUFFICES ASSUME Inv, ReadFrameStale PROVE Inv'
  OBVIOUS
<1>1. /\ InLoop /\ UNCHANGED <<file, heard>> /\ Fields(dec) /\ PassTyped
      /\ IInv /\ Told /\ Place /\ dec.state = "READ_FRAME" /\ dec.sync = {}
  BY DEF ReadFrameStale, Running, InLoop, InState, Inv, IInv, Told
<1> DEFINE framed == \E x \in file.items : x.kind \in {"frame", "fake"} /\ x.at = dec.at
<1>2. PICK r \in Reach(dec, IF framed THEN dec.at + 1 ELSE dec.at + 4) :
          /\ Faulted(r.fault)
          /\ IF ~r.ok THEN dec' = r.dec /\ Leave(FALSE)
             ELSE /\ dec' = Resync(IF framed THEN [r.dec EXCEPT !.at = dec.at] ELSE r.dec)
                  /\ Continue
  BY DEF ReadFrameStale
<1> HIDE DEF framed
<1>3. Calm(dec, r.dec) /\ Fields(r.dec) /\ r.dec.fixed = dec.fixed /\ r.dec.sync = {}
  BY <1>1, ReachCalm DEF Calm, Keeps
<1>4. Calm(dec, dec') /\ dec'.fixed = dec.fixed /\ dec'.sync = {}
  <2> DEFINE back == [r.dec EXCEPT !.at = dec.at]
  <2>1. Calm(r.dec, back) /\ Fields(back) /\ back.fixed = r.dec.fixed
    BY <1>3 DEF Calm, Keeps, Fields
  <2>2. dec' \in {r.dec, Resync(back), Resync(r.dec)}
    BY <1>2
  <2> HIDE DEF back
  <2>3. /\ Calm(back, Resync(back)) /\ Resync(back).fixed = back.fixed
        /\ Resync(back).sync = {}
        /\ Calm(r.dec, Resync(r.dec)) /\ Resync(r.dec).fixed = r.dec.fixed
        /\ Resync(r.dec).sync = {}
    BY <1>3, <2>1, PartsKeep, PartsDo
  <2>4. Calm(dec, Resync(back)) /\ Calm(dec, Resync(r.dec))
    BY <1>3, <2>1, <2>3, CalmTrans
  <2> QED
    BY <1>3, <2>1, <2>2, <2>3, <2>4
<1>5. Quiet
  BY <1>1, <1>2, <1>4, FaultedPass DEF Quiet, GoesOn
<1>6. Marked'
  BY <1>4 DEF Marked
<1>7. Ahead'
  <2>1. SUFFICES ASSUME WellFormed(file), ~Pass.moved, ~dec.hasInfo, dec.fixed = 0
                 PROVE  SamplesCounted(file)
    BY <1>1, <1>4, <1>5 DEF Ahead, Quiet, SamePass, Calm
  <2>2. \A frame : {frame} # {}
    OBVIOUS
  <2> QED
    BY <1>1, <2>1, <2>2, AtTheFrame
<1> QED
  BY <1>1, <1>4, <1>5, <1>6, <1>7, QuietStep, QuietTold, QuietPlace DEF Inv

LEMMA LoopEndsStep == Inv /\ LoopEnds => Inv'
<1> SUFFICES ASSUME Inv, LoopEnds PROVE Inv'
  OBVIOUS
<1>1. /\ InLoop /\ UNCHANGED <<file, dec, heard, history>> /\ Fields(dec) /\ PassTyped
      /\ IInv /\ Told /\ Place
  BY DEF LoopEnds, Running, InLoop, Inv, IInv, Told
<1>2. \E v : Leave(v)
  BY DEF LoopEnds
<1>3. Quiet
  BY <1>1, <1>2, StillPass, PartsKeep DEF Quiet, GoesOn
<1>4. Marked' /\ Ahead'
  BY <1>1 DEF Place, Marked, Ahead, AheadOfInfo, AheadOfFrame, Pass
<1> QED
  BY <1>1, <1>3, <1>4, QuietStep, QuietTold, QuietPlace DEF Inv

-----------------------------------------------------------------------------
(* A block of metadata.                                                    *)
ReadBlock(block, d) ==
    /\ block \in file.items /\ block.kind \in Metadata /\ block.at = dec.at
    /\ Calm(dec, d) /\ d.fixed = dec.fixed /\ d.sync = dec.sync /\ d.at = Ends(block)
    /\ BlockDone(d, dec', block)
    /\ dec'.state = IF block.last THEN "SEARCH_FOR_FRAME_SYNC" ELSE "READ_METADATA"

LEMMA ReadMetadataForm ==
    ASSUME IInv, PassTyped, ReadMetadata
    PROVE  /\ InLoop /\ GoesOn /\ UNCHANGED <<file, heard>> /\ SamePass
           /\ \/ /\ Calm(dec, dec') /\ dec'.fixed = dec.fixed /\ dec'.sync = dec.sync
                 /\ dec'.state \in {"END_OF_STREAM", "ABORTED"}
              \/ \E block, d : ReadBlock(block, d)
<1>1. /\ InLoop /\ UNCHANGED <<file, heard>> /\ Fields(dec)
      /\ dec.state = "READ_METADATA"
  BY DEF ReadMetadata, Running, InLoop, InState, IInv
<1> DEFINE Outcome(block, r) ==
               IF ~r.ok THEN dec' = r.dec /\ Faulted(r.fault) /\ Leave(FALSE)
               ELSE /\ \E p \in Positions(r.dec) :
                           /\ block.last \/ p.fault = 0
                           /\ dec' = (IF block.last
                                      THEN LastBlock(BlockRead(r.dec, block), p.ok)
                                      ELSE BlockRead(r.dec, block))
                           /\ Faulted(p.fault)
                    /\ IF call.loop = "single" THEN Leave(TRUE) ELSE Continue
<1>2. PICK block \in file.items : /\ block.kind \in Metadata /\ block.at = dec.at
                                  /\ \E r \in Reach(dec, Ends(block)) : Outcome(block, r)
  BY DEF ReadMetadata
<1>3. PICK r \in Reach(dec, Ends(block)) : Outcome(block, r)
  BY <1>2
<1>4. /\ Calm(dec, r.dec) /\ Fields(r.dec)
      /\ r.dec.fixed = dec.fixed /\ r.dec.sync = dec.sync
      /\ IF r.ok THEN r.dec.at = Ends(block) /\ r.dec.state = dec.state
         ELSE r.dec.state \in {"END_OF_STREAM", "ABORTED"}
  BY <1>1, ReachCalm DEF Calm, Keeps
<1>5. GoesOn /\ SamePass
  BY <1>3, FaultedPass DEF GoesOn
<1>6. CASE ~r.ok
  BY <1>1, <1>3, <1>4, <1>5, <1>6
<1>7. CASE r.ok
  <2>1. PICK p : dec' = (IF block.last
                         THEN LastBlock(BlockRead(r.dec, block), p.ok)
                         ELSE BlockRead(r.dec, block))
    BY <1>3, <1>7
  <2>2. /\ BlockDone(r.dec, BlockRead(r.dec, block), block)
        /\ BlockRead(r.dec, block).state = "READ_METADATA"
    BY <1>1, <1>4, <1>7, BlockReadDone
  <2>3. CASE block.last
    <3>1. /\ BlockDone(r.dec, dec', block)
          /\ dec'.state = "SEARCH_FOR_FRAME_SYNC"
      BY <2>1, <2>2, <2>3, LastBlockDone
    <3>2. ReadBlock(block, r.dec)
      BY <1>2, <1>4, <1>7, <2>3, <3>1 DEF ReadBlock
    <3> QED
      BY <1>1, <1>5, <3>2
  <2>4. CASE ~block.last
    <3>1. BlockDone(r.dec, dec', block) /\ dec'.state = "READ_METADATA"
      BY <2>1, <2>2, <2>4
    <3>2. ReadBlock(block, r.dec)
      BY <1>2, <1>4, <1>7, <2>4, <3>1 DEF ReadBlock
    <3> QED
      BY <1>1, <1>5, <3>2
  <2> QED
    BY <2>3, <2>4
<1> QED
  BY <1>6, <1>7

LEMMA ReadMetadataStep == Inv /\ ReadMetadata => Inv'
<1> SUFFICES ASSUME Inv, ReadMetadata PROVE Inv'
  OBVIOUS
<1>1. IInv /\ Told /\ Place /\ PassTyped /\ dec.state = "READ_METADATA"
  BY DEF Inv, Told, ReadMetadata, InState
<1>2. /\ InLoop /\ GoesOn /\ UNCHANGED <<file, heard>> /\ SamePass
      /\ \/ /\ Calm(dec, dec') /\ dec'.fixed = dec.fixed /\ dec'.sync = dec.sync
            /\ dec'.state \in {"END_OF_STREAM", "ABORTED"}
         \/ \E block, d : ReadBlock(block, d)
  BY <1>1, ReadMetadataForm
<1>3. CASE /\ Calm(dec, dec') /\ dec'.fixed = dec.fixed /\ dec'.sync = dec.sync
           /\ dec'.state \in {"END_OF_STREAM", "ABORTED"}
  <2>1. Quiet
    BY <1>2, <1>3 DEF Quiet
  <2>2. Marked' /\ Ahead'
    BY <1>1, <1>2, <1>3 DEF Place, Marked, Ahead, Active, MetadataStates
  <2> QED
    BY <1>1, <1>3, <2>1, <2>2, QuietStep, QuietTold, QuietPlace DEF Inv
<1>4. CASE \E block, d : ReadBlock(block, d)
  <2>1. PICK block, d : ReadBlock(block, d)
    BY <1>4
  <2>2. /\ block \in file.items /\ block.kind \in Metadata /\ block.at = dec.at
        /\ Keeps(dec, dec') /\ dec'.sum = dec.sum /\ dec'.checking = dec.checking
        /\ dec'.fixed = dec.fixed /\ dec'.sync = dec.sync /\ dec'.at = Ends(block)
        /\ IF block.kind = "info"
           THEN /\ dec'.hasInfo = TRUE /\ dec'.info = block.info
                /\ dec'.md5 <=> (dec.md5 /\ block.info.md5 # "none")
           ELSE dec'.hasInfo = dec.hasInfo /\ dec'.info = dec.info /\ dec'.md5 = dec.md5
        /\ dec'.state = IF block.last THEN "SEARCH_FOR_FRAME_SYNC" ELSE "READ_METADATA"
    BY <2>1, KeepsTrans DEF ReadBlock, BlockDone, Calm
  <2>3. file' = file
    BY <1>2
  <2>4. /\ call'.op = "seek" <=> call.op = "seek"
        /\ call.op = "seek" => call'.target = call.target
        /\ result' = result \/ result'.op \in Loops
    BY <1>1, <1>2, CallKept
  <2>5. IInv'
    BY <1>1, <1>2, <2>2, KeepingStep
  <2>6. /\ dec'.seeking = dec.seeking /\ dec'.target = dec.target
        /\ Pass'.moved = Pass.moved /\ Pass'.told = Pass.told /\ PassTyped'
    BY <1>2, <2>2 DEF Keeps, SamePass
  <2>7. Summed'
    <3>1. /\ dec'.seeking => call'.op = "seek"
          /\ call'.op = "seek" => Pass'.moved /\ ~dec'.md5
          /\ dec'.md5 => dec'.sum = Pass'.told
      BY <1>1, <2>2, <2>4, <2>6 DEF Told, Summed
    <3>2. ASSUME WellFormed(file), dec'.checking, ~Pass'.moved
          PROVE  IF dec'.hasInfo THEN dec'.info.md5 # "none" => dec'.md5
                 ELSE dec'.state \in MetadataStates => dec'.md5
      <4>1. IF dec.hasInfo THEN dec.info.md5 # "none" => dec.md5 ELSE dec.md5
        BY <1>1, <2>2, <2>6, <3>2 DEF Told, Summed, MetadataStates
      <4>2. CASE block.kind = "info"
        <5>1. dec.hasInfo => dec.info = block.info
          BY <1>1, <2>2, <3>2, <4>2 DEF Told, Known, WellFormed, Infos
        <5> QED
          BY <2>2, <4>1, <4>2, <5>1
      <4>3. CASE block.kind # "info"
        BY <2>2, <4>1, <4>3
      <4> QED
        BY <4>2, <4>3
    <3> QED
      BY <2>3, <3>1, <3>2 DEF Summed
  <2>8. Known'
    BY <1>1, <2>2, <2>3 DEF Told, Known, Infos
  <2>9. Over' /\ Vouched'
    <3>1. result'.op # "finish"
      BY <1>1, <2>4 DEF Told, Over, Loops
    <3>2. dec'.state # "UNINITIALIZED"
      BY <2>2
    <3> QED
      BY <3>1, <3>2 DEF Over, Vouched, Md5Vouches
  <2>10. dec.fixed = 0 /\ heard = <<>>
    BY <1>1 DEF Place, Fresh, MetadataStates
  <2>11. Listed' /\ Placed' /\ Fresh' /\ Sizes' /\ Marked' /\ Aimed'
    BY <1>1, <1>2, <2>2, <2>3, <2>4, <2>6, <2>10
       DEF Listed, Placed, InPlace, Fresh, Sizes, Place, Marked, Aimed
  <2>12. Ahead'
    <3>1. SUFFICES ASSUME WellFormed(file), ~Pass'.moved, ~dec'.hasInfo, dec'.fixed = 0
                   PROVE  SamplesCounted(file) \/ AheadOfInfo' \/ AheadOfFrame'
      BY <2>3 DEF Ahead
    <3>2. block.kind # "info" /\ block.kind \in {"table", "block"}
      BY <2>2, <3>1 DEF Metadata
    <3>3. SamplesCounted(file) \/ AheadOfInfo \/ AheadOfFrame
      BY <1>1, <2>2, <2>6, <3>1, <3>2 DEF Place, Ahead, Active, MetadataStates
    <3>4. CASE AheadOfInfo
      <4>1. PICK info \in file.items, magic \in file.items :
               InfoFirst(file, info, magic) /\ dec.at <= info.at
        BY <1>1, <3>4 DEF AheadOfInfo
      <4>2. /\ Ends(block) <= info.at /\ block.at \in Nat /\ block.size \in Nat \ {0}
            /\ info.at \in Nat
        BY <2>2, <3>1, <3>2, <4>1 DEF WellFormed, SideBySide, InfoFirst
      <4>3. block.at < info.at
        BY <4>2 DEF Ends
      <4>4. ~block.last
        BY <2>2, <4>1, <4>3 DEF InfoFirst
      <4> QED
        BY <2>2, <2>3, <4>1, <4>2, <4>4 DEF AheadOfInfo, MetadataStates
    <3>5. CASE AheadOfFrame
      <4>1. PICK frame \in file.items : FrameFirst(file, frame) /\ dec.at <= frame.at
        BY <1>1, <3>5 DEF AheadOfFrame
      <4>2. Ends(block) <= frame.at
        BY <2>2, <3>1, <3>2, <4>1 DEF WellFormed, SideBySide, FrameFirst
      <4> QED
        BY <2>2, <2>3, <4>1, <4>2 DEF AheadOfFrame
    <3> QED
      BY <3>3, <3>4, <3>5
  <2> QED
    BY <2>3, <2>5, <2>6, <2>7, <2>8, <2>9, <2>11, <2>12, <1>1 DEF Inv, Told, Place
<1> QED
  BY <1>2, <1>3, <1>4

-----------------------------------------------------------------------------
(* A frame.  With STREAMINFO its number is taken for what it is, and a     *)
(* block size is fixed only when there is one.                             *)
LEMMA OneInfo ==
    ASSUME WellFormed(file), Told, dec.hasInfo
    PROVE  /\ Variable(file) <=> dec.info.minBlock # dec.info.maxBlock
           /\ dec.info.minBlock = dec.info.maxBlock => dec.info.maxBlock = file.blocksize
<1>1. PICK x \in Infos(file) : dec.info = x.info
  BY DEF Told, Known
<1>2. \A y \in Infos(file) : y = x
  BY <1>1 DEF WellFormed
<1> QED
  BY <1>1, <1>2 DEF Variable, WellFormed, Numbered

LEMMA NumberSays ==
    ASSUME WellFormed(file), Told, Place, NEW item \in Syncs(file), dec.hasInfo
    PROVE  Numbering(dec, item).sample = NumberOf(file, item)
<1> DEFINE numbering == Numbering(dec, item)
           size == file.blocksize
<1>1. /\ size \in Nat \ {0} /\ item.number \in Nat
      /\ item.counts \in {"samples", "frames"}
      /\ dec.fixed = 0 \/ (dec.fixed = size /\ ~Variable(file))
  BY DEF WellFormed, Numbered, Place, Sizes
<1>2. /\ Variable(file) <=> dec.info.minBlock # dec.info.maxBlock
      /\ dec.info.minBlock = dec.info.maxBlock => dec.info.maxBlock = size
  BY OneInfo
<1>3. CASE item.counts = "samples" \/ Variable(file)
  <2>1. numbering = [sample |-> item.number, next |-> 0]
    BY <1>2, <1>3 DEF Numbering
  <2>2. numbering.sample = item.number
    BY <2>1
  <2> QED
    BY <1>3, <2>2 DEF NumberOf
<1>4. CASE item.counts = "frames" /\ ~Variable(file) /\ dec.fixed # 0
  <2>1. numbering = [sample |-> dec.fixed * item.number, next |-> 0]
    BY <1>2, <1>4 DEF Numbering
  <2>2. numbering.sample = size * item.number
    BY <1>1, <1>4, <2>1
  <2> QED
    BY <1>4, <2>2 DEF NumberOf
<1>5. CASE item.counts = "frames" /\ ~Variable(file) /\ dec.fixed = 0
  <2>1. numbering = [sample |-> dec.info.minBlock * item.number, next |-> dec.info.maxBlock]
    BY <1>2, <1>5 DEF Numbering
  <2>2. numbering.sample = size * item.number
    BY <1>2, <1>5, <2>1
  <2> QED
    BY <1>5, <2>2 DEF NumberOf
<1> QED
  BY <1>1, <1>3, <1>4, <1>5

LEMMA NextSays ==
    ASSUME WellFormed(file), Told, NEW item, dec.hasInfo
    PROVE  \/ Numbering(dec, item).next = 0
           \/ Numbering(dec, item).next = file.blocksize /\ ~Variable(file)
<1>1. /\ Variable(file) <=> dec.info.minBlock # dec.info.maxBlock
      /\ dec.info.minBlock = dec.info.maxBlock => dec.info.maxBlock = file.blocksize
  BY OneInfo
<1> QED
  BY <1>1 DEF Numbering

(* What the number of a frame says of its first sample and of the block    *)
(* size, when there is STREAMINFO or the pass has come from the start.     *)
Whole(item) == item.damage \in {"none", "crc"}

TrueNumber(item, numbering) ==
    /\ item.damage = "none" => numbering.sample = item.start
    /\ numbering.next = 0 \/ (numbering.next = file.blocksize /\ ~Variable(file))
    /\ (~dec.hasInfo /\ dec.fixed = 0 /\ ~SamplesCounted(file)) =>
          Whole(item) /\ numbering.next # 0

LEMMA NumberTells ==
    ASSUME WellFormed(file), Told, Place, dec.state = "READ_FRAME", NEW item \in dec.sync,
           dec.hasInfo \/ ~Pass.moved
    PROVE  TrueNumber(item, Numbering(dec, item))
<1> DEFINE numbering == Numbering(dec, item)
           size == file.blocksize
<1>1. WellFormed(file) /\ item \in Syncs(file)
  BY DEF Place, Marked
<1>2. /\ size \in Nat \ {0} /\ item.counts \in {"samples", "frames"}
      /\ item.number \in Nat /\ item.start \in Nat /\ item.samples \in Nat
      /\ item.damage = "none" => item.start = NumberOf(file, item)
  BY <1>1 DEF WellFormed, Numbered
<1>3. dec.fixed = 0 \/ (dec.fixed = size /\ ~Variable(file))
  BY DEF Place, Sizes
<1>4. CASE ~dec.hasInfo /\ dec.fixed = 0 /\ ~SamplesCounted(file)
  <2>1. PICK frame \in file.items : FrameFirst(file, frame) /\ dec.sync = {frame}
    BY <1>4, AtTheFrame
  <2>2. /\ item.counts = "frames" /\ item.number = 0 /\ item.samples = size
        /\ item.damage \in {"none", "crc"} /\ ~Variable(file)
    BY <2>1 DEF FrameFirst, Variable
  <2>3. numbering = [sample |-> item.samples * 0, next |-> size]
    BY <1>4, <2>2 DEF Numbering
  <2>4. item.samples * 0 = 0 /\ size * 0 = 0
    BY <1>2
  <2>5. numbering.sample = 0 /\ numbering.next = size
    BY <2>3, <2>4
  <2>6. item.damage = "none" => item.start = 0
    BY <1>2, <2>2, <2>4 DEF NumberOf
  <2> QED
    BY <1>2, <2>2, <2>5, <2>6 DEF TrueNumber, Whole
<1>5. CASE ~(~dec.hasInfo /\ dec.fixed = 0 /\ ~SamplesCounted(file))
  <2>1. CASE item.counts = "samples"
    <3>1. numbering = [sample |-> item.number, next |-> 0]
      BY <2>1 DEF Numbering
    <3>2. numbering.sample = item.number /\ numbering.next = 0
      BY <3>1
    <3> QED
      BY <1>2, <1>5, <2>1, <3>2 DEF TrueNumber, NumberOf
  <2>2. CASE item.counts = "frames" /\ dec.hasInfo
    <3>1. Variable(file) <=> dec.info.minBlock # dec.info.maxBlock
      BY <1>1, <2>2, OneInfo
    <3>2. numbering.sample = NumberOf(file, item)
      BY <1>1, <2>2, NumberSays
    <3>3. numbering.next = 0 \/ (numbering.next = size /\ ~Variable(file))
      BY <1>1, <2>2, NextSays
    <3> QED
      BY <1>2, <1>5, <2>2, <3>2, <3>3 DEF TrueNumber
  <2>3. CASE item.counts = "frames" /\ ~dec.hasInfo
    <3>1. dec.fixed = size /\ ~Variable(file)
      BY <1>1, <1>3, <1>5, <2>3 DEF SamplesCounted
    <3>2. numbering = [sample |-> size * item.number, next |-> 0]
      BY <1>2, <2>3, <3>1 DEF Numbering
    <3>3. numbering.sample = size * item.number /\ numbering.next = 0
      BY <3>2
    <3> QED
      BY <1>2, <1>5, <2>3, <3>1, <3>3 DEF TrueNumber, NumberOf
  <2> QED
    BY <1>2, <2>1, <2>2, <2>3
<1> QED
  BY <1>4, <1>5

-----------------------------------------------------------------------------
(* A piece is written: what the write callback is given, and what of the   *)
(* decoder has changed since the step began.                               *)
Wrote(piece) ==
    /\ InLoop /\ call.loop # "metadata" /\ UNCHANGED file
    /\ heard' = Append(heard, piece)
    /\ (call.loop = "stream" /\ Continue) \/ \E v : Leave(v)
    /\ PassTyped' /\ Pass'.moved = Pass.moved /\ Pass'.told = With(Pass.told, piece)
    /\ Fields(dec') /\ dec'.target = dec.target /\ dec'.seeking = FALSE
    /\ dec'.checking = dec.checking /\ dec'.hasInfo = dec.hasInfo /\ dec'.info = dec.info
    /\ dec'.sync = {} /\ dec'.state \in {"SEARCH_FOR_FRAME_SYNC", "READ_FRAME"}
    /\ dec'.md5 => dec.md5 /\ dec'.sum = With(dec.sum, piece)
    /\ dec.md5 /\ dec.hasInfo /\ ~dec.seeking => dec'.md5
    /\ call.op = "seek" => piece.sample = call.target

LEMMA WroteStep == ASSUME IInv, NEW piece, Wrote(piece) PROVE IInv'
<1>1. heard' = Append(heard, piece) /\ Fields(dec)'
  BY DEF Wrote, Fields
<1>2. dec'.seeking = FALSE /\ dec'.target = dec.target
  BY DEF Wrote
<1>3. CASE call.op = "seek"
  <2>1. SeekUnderWay /\ call.loop = "single" /\ call.phase = "look" /\ heard = <<>>
        /\ dec.target = call.target
    BY <1>3 DEF IInv, SeekUnderWay, NothingYet, Loops, NoCall, Wrote, InLoop
  <2>2. PICK v : Leave(v)
    BY <2>1 DEF Wrote
  <2>3. call' = [call EXCEPT !.loop = "none", !.got = v] /\ result' = result
    BY <1>3, <2>2 DEF Leave
  <2>4. /\ call'.op = "seek" /\ call'.phase = "look" /\ call'.target = call.target
        /\ call'.loop = "none" /\ DOMAIN call' = DOMAIN call
    BY <1>3, <2>1, <2>3 DEF SeekUnderWay
  <2>5. heard' = <<piece>>
    BY <1>1, <2>1
  <2>6. Hit'
    BY <1>2, <1>3, <2>4, <2>5 DEF Hit, Wrote
  <2>7. dec'.target = call'.target
    BY <1>2, <2>1, <2>4
  <2>8. SeekUnderWay'
    BY <2>1, <2>4, <2>6, <2>7 DEF SeekUnderWay
  <2>9. call' # NoCall
    BY <2>4 DEF NoCall
  <2> QED
    BY <1>1, <2>8, <2>9 DEF IInv, SeekLands
<1>4. CASE call.op # "seek"
  <2>1. call.op \in Loops /\ call # NoCall
    BY <1>4 DEF IInv, SeekUnderWay, Wrote, InLoop
  <2>2. CASE Continue
    BY <1>1, <2>1, <2>2 DEF Continue, IInv, SeekLands
  <2>3. CASE \E v : Leave(v)
    <3>1. PICK v : Leave(v)
      BY <2>3
    <3>2. call' = NoCall /\ result' = [op |-> call.op, ok |-> v]
      BY <1>4, <3>1 DEF Leave
    <3> QED
      BY <1>1, <1>4, <3>2 DEF IInv, SeekLands
  <2> QED
    BY <2>2, <2>3 DEF Wrote
<1> QED
  BY <1>3, <1>4

LEMMA WroteTold == ASSUME IInv, Told, NEW piece, Wrote(piece) PROVE Told'
<1>1. /\ call'.op = "seek" <=> call.op = "seek"
      /\ result' = result \/ result'.op \in Loops
  BY CallKept DEF Wrote, GoesOn
<1>2. Summed'
  <2>1. call.op = "seek" => Pass'.moved /\ ~dec'.md5
    BY DEF Wrote, Told, Summed
  <2>2. dec'.md5 => dec'.sum = Pass'.told
    BY DEF Wrote, Told, Summed
  <2>3. ASSUME WellFormed(file), dec'.checking, ~Pass'.moved, dec'.hasInfo, dec'.info.md5 # "none"
        PROVE  dec'.md5
    <3>1. ~dec.seeking /\ dec.hasInfo /\ dec.md5
      BY <2>3 DEF Wrote, Told, Summed
    <3> QED
      BY <3>1 DEF Wrote
  <2>4. dec'.state \notin MetadataStates /\ dec'.seeking = FALSE /\ file' = file
    BY DEF Wrote, MetadataStates
  <2> QED
    BY <1>1, <2>1, <2>2, <2>3, <2>4 DEF Summed
<1>3. Known' /\ (file \in Files)' /\ PassTyped'
  BY DEF Wrote, Told, Known
<1>4. Over' /\ Vouched'
  <2>1. result'.op # "finish" /\ dec'.state # "UNINITIALIZED"
    BY <1>1 DEF Told, Over, Wrote, InLoop, Loops
  <2> QED
    BY <2>1 DEF Over, Vouched, Md5Vouches
<1> QED
  BY <1>2, <1>3, <1>4 DEF Told

LEMMA WrotePlace ==
    ASSUME IInv, Told, Place, NEW piece, Wrote(piece),
           (WellFormed(file) /\ (dec.hasInfo \/ ~Pass.moved) /\ piece.good) =>
               piece.sample = piece.true,
           Sizes', Ahead'
    PROVE  Place'
<1>1. /\ call'.op = "seek" <=> call.op = "seek"
      /\ call.op = "seek" => call'.target = call.target
  BY CallKept DEF Wrote, GoesOn
<1>2. Placed'
  <2>1. /\ heard' = Append(heard, piece) /\ dec'.hasInfo = dec.hasInfo
        /\ Pass'.moved = Pass.moved /\ file' = file
    BY DEF Wrote
  <2>2. SUFFICES ASSUME WellFormed(file), dec.hasInfo \/ ~Pass.moved,
                        NEW i \in DOMAIN heard', heard'[i].good
                 PROVE  heard'[i].sample = heard'[i].true
    BY <2>1 DEF Placed, InPlace, Pass
  <2>3. PICK S : heard \in Seq(S)
    BY DEF Place, Listed
  <2>4. /\ Len(heard') = Len(heard) + 1 /\ Len(heard) \in Nat
        /\ DOMAIN heard = 1..Len(heard) /\ DOMAIN heard' = 1..Len(heard')
        /\ \A j \in 1..Len(heard) : heard'[j] = heard[j]
        /\ heard'[Len(heard) + 1] = piece
    <3>1. heard \in Seq(S \cup {piece}) /\ piece \in S \cup {piece}
      BY <2>3
    <3>2. heard' \in Seq(S \cup {piece})
      BY <2>1, <3>1, AppendProperties
    <3>3. DOMAIN heard = 1..Len(heard) /\ DOMAIN heard' = 1..Len(heard')
      BY <3>1, <3>2, LenProperties
    <3> QED
      BY <2>1, <3>1, <3>3, AppendProperties, LenProperties
  <2>5. \/ i \in DOMAIN heard /\ heard'[i] = heard[i]
        \/ heard'[i] = piece
    BY <2>2, <2>4
  <2> QED
    BY <2>2, <2>5 DEF Place, Placed, InPlace, Pass
<1>3. Fresh' /\ Marked'
  BY DEF Fresh, Marked, Wrote, MetadataStates
<1>4. Aimed'
  BY <1>1 DEF Place, Aimed, Wrote
<1>5. Listed'
  <2>1. PICK S : heard \in Seq(S)
    BY DEF Place, Listed
  <2>2. heard \in Seq(S \cup {piece}) /\ piece \in S \cup {piece}
    BY <2>1
  <2>3. heard' \in Seq(S \cup {piece})
    BY <2>2, AppendProperties DEF Wrote
  <2> QED
    BY <2>3 DEF Listed
<1> QED
  BY <1>2, <1>3, <1>4, <1>5 DEF Place

(* The pass after a piece is written.                                      *)
LEMMA WrittenPass ==
    ASSUME PassTyped, NEW piece, NEW fault, NEW frames,
           history' = [history EXCEPT !.faults = @ + fault,
                                      !.pass.faulty = @ \/ fault > 0,
                                      !.pass.told = With(@, piece),
                                      !.pass.frames = @ \cup frames]
    PROVE  /\ PassTyped' /\ Pass'.moved = Pass.moved
           /\ Pass'.told = With(Pass.told, piece)
<1> DEFINE faulty == history.pass.faulty \/ fault > 0
           faults == history.faults + fault
           told == With(history.pass.told, piece)
           got == history.pass.frames \cup frames
           pass == [history.pass EXCEPT !.faulty = faulty, !.told = told, !.frames = got]
<1>1. history' = [history EXCEPT !.faults = faults, !.pass = pass]
  BY DEF PassTyped, Pass
<1> HIDE DEF faulty, faults, got, told
<1>2. /\ {"moved", "told", "faulty", "frames"} \subseteq DOMAIN pass /\ pass.moved = Pass.moved
      /\ pass.told = told
  BY DEF PassTyped, Pass
<1> HIDE DEF pass
<1>3. history'.pass = pass /\ "pass" \in DOMAIN history'
  BY <1>1 DEF PassTyped, Pass
<1> QED
  BY <1>2, <1>3 DEF PassTyped, Pass, told

LEMMA WrittenForm ==
    ASSUME PassTyped, InLoop, call.loop # "metadata", UNCHANGED file,
           NEW d, Fields(d), d.target = dec.target, d.seeking = FALSE,
           d.checking = dec.checking, d.hasInfo = dec.hasInfo, d.info = dec.info,
           d.sync = {}, d.state = "READ_FRAME",
           NEW piece, Written(d, piece),
           d.md5 => dec.md5 /\ d.sum = With(dec.sum, piece),
           dec.md5 /\ dec.hasInfo /\ ~dec.seeking => d.md5,
           call.op = "seek" => piece.sample = call.target
    PROVE  Wrote(piece) /\ dec'.fixed = d.fixed
<1> DEFINE After(fault) ==
               /\ history' = [history EXCEPT !.faults = @ + fault,
                                             !.pass.faulty = @ \/ fault > 0,
                                             !.pass.told = With(@, piece),
                                             !.pass.frames = @ \cup dec.sync]
               /\ IF fault = 0
                  THEN /\ dec' = Resync(d)
                       /\ IF call.loop = "stream" THEN Continue ELSE Leave(TRUE)
                  ELSE dec' = d /\ Leave(FALSE)
<1>0. \E fault \in {0} \cup (IF MayFail THEN {1} ELSE {}) : After(fault)
  BY DEF Written
<1>1. PICK fault \in {0, 1} : After(fault)
  <2> HIDE DEF After
  <2> QED
    BY <1>0
<1>2. /\ PassTyped' /\ Pass'.moved = Pass.moved
      /\ Pass'.told = With(Pass.told, piece)
  BY <1>1, WrittenPass
<1>3. /\ Calm(d, Resync(d)) /\ Resync(d).fixed = d.fixed /\ Resync(d).sync = {}
      /\ Resync(d).state = "SEARCH_FOR_FRAME_SYNC"
  BY PartsKeep, PartsDo
<1>4. /\ Calm(d, dec') /\ dec'.fixed = d.fixed /\ dec'.sync = {}
      /\ dec'.state \in {"SEARCH_FOR_FRAME_SYNC", "READ_FRAME"}
  BY <1>1, <1>3, PartsKeep
<1>5. /\ heard' = Append(heard, piece)
      /\ (call.loop = "stream" /\ Continue) \/ \E v : Leave(v)
  BY <1>1 DEF Written
<1> QED
  BY <1>2, <1>4, <1>5 DEF Wrote, Calm, Keeps

(* write_audio_frame_to_client_: while a seek is under way only the frame  *)
(* with the target is written, from the target on.                         *)
LEMMA WriteAudioFrameForm ==
    ASSUME IInv, Told, InLoop, call.loop # "metadata", UNCHANGED file,
           NEW d, Calm(dec, d), d.sync = {}, d.state = "READ_FRAME",
           NEW item, NEW number, WriteAudioFrame(d, item, number)
    PROVE  /\ dec'.fixed = d.fixed
           /\ \/ Quiet /\ dec'.sync = {} /\ dec'.state = "SEARCH_FOR_FRAME_SYNC"
              \/ LET piece == Piece(item, number, IF dec.seeking THEN dec.target ELSE number)
                 IN  Wrote(piece)
<1> DEFINE sought == [d EXCEPT !.last = [sample |-> number, samples |-> item.samples]]
           piece == Piece(item, number, IF d.seeking THEN d.target ELSE number)
           summing == d.md5 /\ d.hasInfo
           landed == [sought EXCEPT !.seeking = FALSE,
                         !.last = [sample |-> piece.sample, samples |-> piece.samples]]
           sum == IF summing THEN With(d.sum, piece) ELSE d.sum
           told == [d EXCEPT !.md5 = summing, !.sum = sum]
<1>1. /\ Fields(d) /\ d.target = dec.target /\ d.seeking = dec.seeking
      /\ d.md5 = dec.md5 /\ d.sum = dec.sum /\ d.checking = dec.checking
      /\ d.hasInfo = dec.hasInfo /\ d.info = dec.info
  BY DEF Calm, Keeps
<1>2. call.op = "seek" => /\ call.phase = "look" /\ d.seeking = TRUE
                          /\ d.target = call.target
  BY <1>1 DEF IInv, SeekUnderWay, NothingYet, Loops, NoCall, InLoop
<1>3. piece.sample = IF d.seeking THEN d.target ELSE number
  BY DEF Piece
<1>4. /\ Calm(d, sought) /\ sought.fixed = d.fixed /\ sought.sync = d.sync
      /\ sought.state = d.state
  BY <1>1 DEF Calm, Keeps, Fields
<1>4a. piece = Piece(item, number, IF dec.seeking THEN dec.target ELSE number)
  BY <1>1
<1>4b. summing \in BOOLEAN
  OBVIOUS
<1>4c. d.seeking => call.op = "seek" /\ ~d.md5
  BY <1>1 DEF Told, Summed
<1> HIDE DEF sought, piece, sum
<1>5. CASE d.seeking /\ Targeted(d, number, item)
  <2>1. Written(landed, piece)
    BY <1>5 DEF WriteAudioFrame, sought, piece
  <2>2. /\ Fields(landed) /\ landed.seeking = FALSE /\ landed.target = dec.target
        /\ landed.checking = dec.checking /\ landed.hasInfo = dec.hasInfo
        /\ landed.info = dec.info /\ landed.sync = {} /\ landed.state = "READ_FRAME"
        /\ landed.md5 = dec.md5 /\ landed.fixed = d.fixed
    BY <1>1, <1>4 DEF Calm, Keeps, Fields
  <2>3. call.op = "seek" => piece.sample = call.target
    BY <1>2, <1>3
  <2> HIDE DEF landed
  <2>4. Wrote(piece) /\ dec'.fixed = d.fixed
    BY <1>1, <1>4c, <1>5, <2>1, <2>2, <2>3, WrittenForm DEF Told
  <2> QED
    BY <1>4a, <2>4
<1>6. CASE d.seeking /\ ~Targeted(d, number, item)
  <2>1. dec' = Resync(sought) /\ Leave(TRUE) /\ UNCHANGED <<heard, history>>
    BY <1>6 DEF WriteAudioFrame, sought
  <2>2. /\ Calm(sought, dec') /\ dec'.fixed = d.fixed /\ dec'.sync = {}
        /\ dec'.state = "SEARCH_FOR_FRAME_SYNC"
    <3>1. Fields(sought)
      BY <1>4 DEF Calm, Keeps
    <3> QED
      BY <1>4, <2>1, <3>1, PartsKeep, PartsDo
  <2>3. Calm(dec, dec')
    <3>1. Calm(dec, sought)
      BY <1>4, CalmTrans
    <3> QED
      BY <2>2, <3>1, CalmTrans
  <2>4. Quiet
    BY <2>1, <2>3, StillPass DEF Quiet, GoesOn, Told
  <2> QED
    BY <2>2, <2>4
<1>7. CASE ~d.seeking
  <2>1. Written(told, piece)
    BY <1>7 DEF WriteAudioFrame, piece, sum
  <2> HIDE DEF summing
  <2>2. /\ Fields(told) /\ told.seeking = FALSE /\ told.target = dec.target
        /\ told.checking = dec.checking /\ told.hasInfo = dec.hasInfo
        /\ told.info = dec.info /\ told.sync = {} /\ told.state = "READ_FRAME"
        /\ told.md5 = summing /\ told.sum = sum /\ told.fixed = d.fixed
    BY <1>1, <1>4b, <1>7 DEF Fields
  <2>3. call.op # "seek"
    BY <1>2, <1>7
  <2> HIDE DEF told
  <2>4. /\ told.md5 => dec.md5 /\ told.sum = With(dec.sum, piece)
        /\ dec.md5 /\ dec.hasInfo /\ ~dec.seeking => told.md5
    BY <1>1, <2>2 DEF summing, sum
  <2>5. Wrote(piece) /\ dec'.fixed = d.fixed
    BY <2>1, <2>2, <2>3, <2>4, WrittenForm DEF Told
  <2> QED
    BY <1>4a, <2>5
<1> QED
  BY <1>5, <1>6, <1>7

LEMMA ReadDamagedForm ==
    ASSUME PassTyped, InLoop, UNCHANGED file,
           NEW d, Calm(dec, d), NEW item, NEW numbering,
           ReadDamaged(d, item, numbering)
    PROVE  /\ Quiet /\ dec'.fixed = d.fixed /\ dec'.sync = {}
           /\ dec'.state = "SEARCH_FOR_FRAME_SYNC"
<1> DEFINE unparseable == IF d.seeking THEN d.unparseable + 1 ELSE d.unparseable
           refused == [d EXCEPT !.nextFixed = numbering.next, !.unparseable = unparseable]
           lost == [d EXCEPT !.nextFixed = numbering.next]
<1>1. Fields(d) /\ UNCHANGED heard /\ Faulted(0)
  BY DEF Calm, Keeps, ReadDamaged
<1>2. \/ dec' = Resync(d) /\ Continue
      \/ dec' = Resync(refused) /\ Continue
      \/ dec' = Resync(lost) /\ Continue
      \/ dec' = Resync(lost) /\ Leave(FALSE)
  BY DEF ReadDamaged
<1> HIDE DEF unparseable
<1>3. Calm(d, refused) /\ Calm(d, lost) /\ refused.fixed = d.fixed /\ lost.fixed = d.fixed
  BY <1>1 DEF Calm, Keeps, Fields
<1> HIDE DEF refused, lost
<1>4. PICK e \in {d, refused, lost} : dec' = Resync(e)
  BY <1>2
<1>5. Calm(d, e) /\ Fields(e) /\ e.fixed = d.fixed
  BY <1>1, <1>3, <1>4, PartsKeep DEF Calm, Keeps
<1>6. /\ Calm(e, dec') /\ dec'.fixed = e.fixed /\ dec'.sync = {}
      /\ dec'.state = "SEARCH_FOR_FRAME_SYNC"
  BY <1>4, <1>5, PartsKeep, PartsDo
<1>7. Calm(dec, dec')
  BY <1>5, <1>6, CalmTrans
<1>8. Quiet
  BY <1>1, <1>2, <1>7, FaultedPass DEF Quiet, GoesOn
<1> QED
  BY <1>5, <1>6, <1>8

FixedBy(numbering) == IF numbering.next # 0 THEN numbering.next ELSE dec.fixed

PieceOf(item, number) ==
    Piece(item, number, IF dec.seeking THEN dec.target ELSE number)

(* The ways to leave a frame: it is not read to its end, it is damaged, or *)
(* it is skipped or written.                                               *)
FrameLeft(item, numbering) ==
    \/ Quiet /\ dec'.fixed = dec.fixed /\ dec'.sync = dec.sync /\ dec'.state \notin Active
    \/ Quiet /\ dec'.fixed = dec.fixed /\ dec'.sync = {} /\ ~Whole(item)
       /\ dec'.state = "SEARCH_FOR_FRAME_SYNC"
    \/ /\ Whole(item) /\ dec'.fixed = FixedBy(numbering)
       /\ \/ Quiet /\ dec'.sync = {} /\ dec'.state = "SEARCH_FOR_FRAME_SYNC"
          \/ Wrote(PieceOf(item, numbering.sample))

LEMMA ReadFrameForm ==
    ASSUME IInv, Told, ReadFrame
    PROVE  \E item \in dec.sync : FrameLeft(item, Numbering(dec, item))
<1> USE DEF Active, MetadataStates
<1>1. /\ InLoop /\ call.loop # "metadata" /\ Fields(dec) /\ PassTyped /\ UNCHANGED file
      /\ dec.state = "READ_FRAME"
  BY DEF ReadFrame, Running, InState, InLoop, IInv, Told
<1> DEFINE Read(item, numbering, r) ==
              IF ~r.ok
              THEN dec' = r.dec /\ Faulted(r.fault) /\ Leave(FALSE) /\ UNCHANGED heard
              ELSE IF item.damage \notin {"none", "crc"}
              THEN ReadDamaged(r.dec, item, numbering)
              ELSE IF call.loop = "skip"
              THEN /\ dec' = Resync(Got(r.dec, item, numbering))
                   /\ Leave(TRUE) /\ UNCHANGED heard
                   /\ history' = [history EXCEPT !.pass.frames = @ \cup {item}]
              ELSE WriteAudioFrame(Got(r.dec, item, numbering), item, numbering.sample)
<1>2. PICK item \in dec.sync :
        \/ \E r \in Reach(dec, item.at + item.reads) : Read(item, Numbering(dec, item), r)
        \/ dec' = OutOfMemory /\ Faulted(1) /\ Leave(FALSE) /\ UNCHANGED heard
  BY DEF ReadFrame
<1> DEFINE numbering == Numbering(dec, item)
<1>3. CASE dec' = OutOfMemory /\ Faulted(1) /\ Leave(FALSE) /\ UNCHANGED heard
  <2>1. /\ Calm(dec, dec') /\ dec'.fixed = dec.fixed /\ dec'.sync = dec.sync
        /\ dec'.state = "MEMORY_ALLOCATION_ERROR"
    BY <1>1, <1>3 DEF OutOfMemory, Calm, Keeps, Fields
  <2>2. Quiet
    BY <1>1, <1>3, <2>1, FaultedPass DEF Quiet, GoesOn
  <2> QED
    BY <2>1, <2>2 DEF FrameLeft
<1>4. CASE \E r \in Reach(dec, item.at + item.reads) : Read(item, numbering, r)
  <2> HIDE DEF numbering
  <2>1. PICK r \in Reach(dec, item.at + item.reads) : Read(item, numbering, r)
    BY <1>4
  <2> DEFINE got == Got(r.dec, item, numbering)
  <2>2. /\ Calm(dec, r.dec) /\ Fields(r.dec)
        /\ r.dec.fixed = dec.fixed /\ r.dec.sync = dec.sync
        /\ IF r.ok THEN r.dec.state = dec.state
           ELSE r.dec.state \in {"END_OF_STREAM", "ABORTED"}
    BY <1>1, ReachCalm DEF Calm, Keeps
  <2>3. /\ Calm(dec, got) /\ Fields(got) /\ got.sync = {} /\ got.state = r.dec.state
        /\ got.fixed = FixedBy(numbering)
    <3>1. /\ Calm(r.dec, got) /\ got.sync = {} /\ got.state = r.dec.state
          /\ got.fixed = IF numbering.next # 0 THEN numbering.next ELSE r.dec.fixed
      BY <2>2, GotCalm
    <3> QED
      BY <2>2, <3>1, CalmTrans DEF Calm, Keeps, FixedBy
  <2>4. /\ Calm(dec, Resync(got)) /\ Resync(got).fixed = got.fixed
        /\ Resync(got).sync = {} /\ Resync(got).state = "SEARCH_FOR_FRAME_SYNC"
    BY <2>3, PartsKeep, PartsDo, CalmTrans
  <2> HIDE DEF got
  <2>5. CASE ~r.ok
    <3>1. dec' = r.dec /\ Faulted(r.fault) /\ Leave(FALSE) /\ UNCHANGED heard
      BY <2>1, <2>5
    <3>2. Quiet
      BY <1>1, <2>2, <3>1, FaultedPass DEF Quiet, GoesOn
    <3>3. FrameLeft(item, numbering)
      BY <2>2, <2>5, <3>1, <3>2 DEF FrameLeft
    <3> QED
      BY <3>3 DEF numbering
  <2>6. CASE r.ok /\ ~Whole(item)
    <3>1. ReadDamaged(r.dec, item, numbering)
      BY <2>1, <2>6 DEF Whole
    <3>2. /\ Quiet /\ dec'.fixed = r.dec.fixed /\ dec'.sync = {}
          /\ dec'.state = "SEARCH_FOR_FRAME_SYNC"
      BY <1>1, <2>2, <3>1, ReadDamagedForm
    <3>3. FrameLeft(item, numbering)
      BY <2>2, <2>6, <3>2 DEF FrameLeft
    <3> QED
      BY <3>3 DEF numbering
  <2>7. CASE r.ok /\ Whole(item) /\ call.loop = "skip"
    <3>1. /\ dec' = Resync(got) /\ Leave(TRUE) /\ UNCHANGED heard
          /\ history' = [history EXCEPT !.pass.frames = @ \cup {item}]
      BY <2>1, <2>7 DEF Whole, got
    <3>2. SamePass
      <4> DEFINE frames == history.pass.frames \cup {item}
      <4>1. history' = [history EXCEPT !.pass = [history.pass EXCEPT !.frames = frames]]
        BY <3>1
      <4> HIDE DEF frames
      <4> QED
        BY <1>1, <4>1 DEF PassTyped, Pass, SamePass
    <3>3. Quiet
      BY <1>1, <2>4, <3>1, <3>2 DEF Quiet, GoesOn
    <3>4. FrameLeft(item, numbering)
      BY <2>3, <2>4, <2>7, <3>1, <3>3 DEF FrameLeft
    <3> QED
      BY <3>4 DEF numbering
  <2>8. CASE r.ok /\ Whole(item) /\ call.loop # "skip"
    <3>1. WriteAudioFrame(got, item, numbering.sample)
      BY <2>1, <2>8 DEF Whole, got
    <3>2. got.state = "READ_FRAME"
      BY <1>1, <2>2, <2>3, <2>8
    <3>3. /\ dec'.fixed = got.fixed
          /\ \/ Quiet /\ dec'.sync = {} /\ dec'.state = "SEARCH_FOR_FRAME_SYNC"
             \/ Wrote(PieceOf(item, numbering.sample))
      BY <1>1, <2>3, <3>1, <3>2, WriteAudioFrameForm DEF PieceOf
    <3>4. FrameLeft(item, numbering)
      BY <2>3, <2>8, <3>3 DEF FrameLeft
    <3> QED
      BY <3>4 DEF numbering
  <2> QED
    BY <2>5, <2>6, <2>7, <2>8
<1> QED
  BY <1>2, <1>3, <1>4

LEMMA ReadFrameStep == Inv /\ ReadFrame => Inv'
<1> SUFFICES ASSUME Inv, ReadFrame PROVE Inv'
  OBVIOUS
<1> USE DEF Active, MetadataStates
<1>1. IInv /\ Told /\ Place /\ dec.state = "READ_FRAME" /\ UNCHANGED file
  BY DEF Inv, ReadFrame, InState
<1>2. PICK item \in dec.sync : FrameLeft(item, Numbering(dec, item))
  BY <1>1, ReadFrameForm
<1> DEFINE numbering == Numbering(dec, item)
<1>3. WellFormed(file) /\ (dec.hasInfo \/ ~Pass.moved) => TrueNumber(item, numbering)
  BY <1>1, NumberTells
<1> HIDE DEF numbering
<1>4. CASE /\ Quiet /\ dec'.fixed = dec.fixed /\ dec'.sync = dec.sync
           /\ dec'.state \notin Active
  <2>1. Marked' /\ Ahead'
    BY <1>1, <1>4 DEF Place, Marked, Ahead
  <2> QED
    BY <1>1, <1>4, <2>1, QuietStep, QuietTold, QuietPlace DEF Inv
<1>5. CASE /\ Quiet /\ dec'.fixed = dec.fixed /\ dec'.sync = {}
           /\ ~Whole(item)
  <2>1. Ahead'
    BY <1>1, <1>3, <1>5 DEF Ahead, TrueNumber, Quiet, SamePass, Calm
  <2>2. Marked'
    BY <1>5 DEF Marked
  <2> QED
    BY <1>1, <1>5, <2>1, <2>2, QuietStep, QuietTold, QuietPlace DEF Inv
<1>6. CASE /\ Whole(item) /\ dec'.fixed = FixedBy(numbering)
           /\ \/ Quiet /\ dec'.sync = {} /\ dec'.state = "SEARCH_FOR_FRAME_SYNC"
              \/ Wrote(PieceOf(item, numbering.sample))
  <2>2. ASSUME dec'.hasInfo = dec.hasInfo, Pass'.moved = Pass.moved
        PROVE  Sizes' /\ Ahead'
    <3>1. Sizes'
      <4>1. SUFFICES ASSUME WellFormed(file), dec.hasInfo \/ ~Pass.moved
                     PROVE  dec'.fixed = 0
                            \/ (dec'.fixed = file.blocksize /\ ~Variable(file))
        BY <1>1, <2>2 DEF Sizes
      <4>2. /\ numbering.next = 0 \/ (numbering.next = file.blocksize /\ ~Variable(file))
            /\ dec.fixed = 0 \/ (dec.fixed = file.blocksize /\ ~Variable(file))
        BY <1>1, <1>3, <4>1 DEF TrueNumber, Place, Sizes
      <4> QED
        BY <1>6, <4>2 DEF FixedBy
    <3>2. Ahead'
      <4>1. SUFFICES ASSUME WellFormed(file), ~Pass.moved, ~dec.hasInfo, dec'.fixed = 0,
                            ~SamplesCounted(file)
                     PROVE  FALSE
        BY <1>1, <2>2 DEF Ahead
      <4>2. dec.fixed = 0 /\ numbering.next = 0
        BY <1>6, <4>1 DEF FixedBy
      <4> QED
        BY <1>3, <4>1, <4>2 DEF TrueNumber
    <3> QED
      BY <3>1, <3>2
  <2>3. CASE Quiet /\ dec'.sync = {} /\ dec'.state = "SEARCH_FOR_FRAME_SYNC"
    <3>1. Sizes' /\ Ahead'
      BY <2>2, <2>3 DEF Quiet, SamePass, Calm
    <3>2. Marked' /\ dec'.state \notin MetadataStates
      BY <2>3 DEF Marked
    <3> QED
      BY <1>1, <2>3, <3>1, <3>2, QuietStep, QuietTold, QuietPlace DEF Inv
  <2>4. CASE Wrote(PieceOf(item, numbering.sample))
    <3> DEFINE piece == PieceOf(item, numbering.sample)
    <3>1. Sizes' /\ Ahead'
      BY <2>2, <2>4 DEF Wrote
    <3>2. ASSUME WellFormed(file), dec.hasInfo \/ ~Pass.moved, piece.good
          PROVE  piece.sample = piece.true
      <4>1. item.damage = "none"
        BY <3>2 DEF PieceOf, Piece
      <4>2. numbering.sample = item.start
        BY <1>3, <3>2, <4>1 DEF TrueNumber
      <4>3. item.start \in Nat /\ dec.target \in Nat
        BY <1>1, <3>2 DEF Place, Marked, Aimed, WellFormed, Numbered
      <4> DEFINE from == IF dec.seeking THEN dec.target ELSE numbering.sample
      <4>4. piece.sample = from /\ piece.true = item.start + from - numbering.sample
        BY DEF PieceOf, Piece
      <4>5. from \in Nat
        BY <4>2, <4>3
      <4> HIDE DEF from
      <4> QED
        BY <4>2, <4>3, <4>4, <4>5
    <3> HIDE DEF piece
    <3> QED
      BY <1>1, <2>4, <3>1, <3>2, WroteStep, WroteTold, WrotePlace DEF Inv, piece
  <2> QED
    BY <1>6, <2>3, <2>4
<1> QED
  BY <1>2, <1>4, <1>5, <1>6 DEF FrameLeft, numbering

-----------------------------------------------------------------------------
(* The client's calls, made when no other one is under way.                *)
LEMMA CallReturns ==
    ASSUME call = NoCall, call' = call, Fields(dec'),
           result'.op # "seek" \/ result'.ok = FALSE
    PROVE  IInv'
BY DEF IInv, SeekLands

(* A call that empties what was heard, from a decoder that is still open   *)
(* and moves within the pass at most.                                      *)
LEMMA CalledPass ==
    ASSUME PassTyped, NEW pass, Called(pass), {"moved", "told", "faulty", "frames"} \subseteq DOMAIN pass,
           pass.moved \in BOOLEAN
    PROVE  PassTyped' /\ Pass' = pass /\ heard' = <<>>
<1> DEFINE calls == history.calls + 1
<1>1. history' = [history EXCEPT !.calls = calls, !.pass = pass] /\ heard' = <<>>
  BY DEF Called
<1> HIDE DEF calls
<1>2. history'.pass = pass /\ "pass" \in DOMAIN history'
  BY <1>1 DEF PassTyped
<1> QED
  BY <1>1, <1>2 DEF PassTyped, Pass

LEMMA PassesTyped ==
    ASSUME PassTyped
    PROVE  /\ {"moved", "told", "faulty", "frames"} \subseteq DOMAIN Moved /\ Moved.moved = TRUE
           /\ Moved.told = Pass.told
           /\ {"moved", "told", "faulty", "frames"} \subseteq DOMAIN NewPass /\ NewPass.moved = FALSE
           /\ NewPass.told = Nothing
           /\ LET strange == [NewPass EXCEPT !.moved = TRUE]
              IN  /\ {"moved", "told", "faulty", "frames"} \subseteq DOMAIN strange /\ strange.moved = TRUE
                  /\ strange.told = Nothing
BY DEF PassTyped, Pass, Moved, NewPass

LEMMA EmptyHeard ==
    ASSUME heard' = <<>>
    PROVE  Listed' /\ Placed'
<1>1. heard' \in Seq({})
  BY EmptySeq
<1>2. DOMAIN heard' = {}
  BY <1>1
<1> QED
  BY <1>1, <1>2 DEF Listed, Placed, InPlace

(* A pass that begins: the decoder as reset leaves it, at the start of the *)
(* file or, moved, wherever the client is.                                 *)
LEMMA PassBegins ==
    ASSUME Fields(dec'), dec'.state = "SEARCH_FOR_METADATA", dec'.hasInfo = FALSE,
           dec'.fixed = 0, dec'.md5 = dec'.checking, dec'.sum = Nothing, dec'.sync = {},
           dec'.seeking = FALSE, dec'.target \in Nat,
           call' = NoCall, heard' = <<>>, PassTyped', Pass'.told = Nothing,
           dec'.at = 0 \/ Pass'.moved, file' \in Files, result'.op \in {"init", "reset"}
    PROVE  Inv'
<1> USE DEF MetadataStates
<1>1. IInv'
  BY DEF IInv, SeekLands, Fields
<1>2. Summed' /\ Known' /\ Over' /\ Vouched'
  BY DEF Summed, Known, Over, Vouched, Md5Vouches, NoCall
<1>3. Fresh' /\ Sizes' /\ Marked' /\ Aimed'
  BY DEF Fresh, Sizes, Marked, Aimed, NoCall
<1>5. Ahead'
  <2>1. SUFFICES ASSUME WellFormed(file'), dec'.at = 0, ~SamplesCounted(file')
                 PROVE  AheadOfInfo' \/ AheadOfFrame'
    BY DEF Ahead
  <2>2. \A x \in file'.items : 0 <= x.at
    BY <2>1 DEF WellFormed, SideBySide
  <2>3. CASE \E info, magic \in file'.items : InfoFirst(file', info, magic)
    BY <2>1, <2>2, <2>3 DEF AheadOfInfo
  <2>4. CASE \E frame \in file'.items : FrameFirst(file', frame)
    BY <2>1, <2>2, <2>4 DEF AheadOfFrame
  <2> QED
    BY <2>1, <2>3, <2>4 DEF WellFormed
<1> QED
  BY <1>1, <1>2, <1>3, <1>5, EmptyHeard DEF Inv, Told, Place

(* The client flushes: it keeps what it knows of the file, but not the sum. *)
LEMMA FlushReturns ==
    ASSUME Inv, call = NoCall, call' = call, UNCHANGED file, dec.state # "UNINITIALIZED",
           dec' = Flushed(dec), heard' = <<>>, PassTyped', Pass' = Moved,
           result'.op \in {"flush", "reset"}
    PROVE  Inv'
<1> USE DEF MetadataStates
<1>1. IInv /\ Told /\ Place /\ Fields(dec) /\ PassTyped
  BY DEF Inv, IInv, Told
<1>2. /\ Keeps(dec, dec') /\ dec'.state = "SEARCH_FOR_FRAME_SYNC" /\ dec'.sync = {}
      /\ dec'.fixed = dec.fixed /\ dec'.md5 = FALSE /\ dec'.hasInfo = dec.hasInfo
      /\ dec'.info = dec.info
  BY <1>1, PartsKeep, PartsDo
<1>3. Pass'.moved = TRUE
  BY <1>1, PassesTyped
<1>4. IInv'
  BY <1>2, CallReturns DEF Keeps
<1>5. Summed' /\ Known' /\ Over' /\ Vouched'
  BY <1>1, <1>2, <1>3 DEF Told, Summed, Known, Over, Vouched, Md5Vouches, Keeps, NoCall
<1>6. Fresh' /\ Sizes' /\ Marked' /\ Aimed' /\ Ahead'
  BY <1>1, <1>2, <1>3 DEF Place, Fresh, Sizes, Marked, Aimed, Ahead, Keeps, NoCall
<1> QED
  BY <1>1, <1>4, <1>5, <1>6, EmptyHeard DEF Inv, Told, Place

LEMMA FlushStep == Inv /\ Flush => Inv'
<1> SUFFICES ASSUME Inv, Flush PROVE Inv'
  OBVIOUS
<1>1. PassTyped' /\ Pass' = Moved /\ heard' = <<>>
  BY PassesTyped, CalledPass DEF Inv, Told, Flush
<1>2. /\ call = NoCall /\ call' = call /\ UNCHANGED file /\ dec.state # "UNINITIALIZED"
      /\ dec' = Flushed(dec) /\ result'.op = "flush"
  BY DEF Flush, MayCall, Returned, InState
<1> QED
  BY <1>1, <1>2, FlushReturns

LEMMA ResetStep == Inv /\ Reset => Inv'
<1> SUFFICES ASSUME Inv, Reset PROVE Inv'
  OBVIOUS
<1>1. /\ IInv /\ Told /\ Place /\ Fields(dec) /\ PassTyped /\ call = NoCall /\ call' = call
      /\ UNCHANGED file /\ result'.op = "reset" /\ dec.state # "UNINITIALIZED"
  BY DEF Inv, IInv, Told, Reset, MayCall, Returned, InState
<1>2. dec.seeking = FALSE /\ dec.target \in Nat
  BY <1>1 DEF Told, Summed, NoCall, Place, Aimed, Fields
<1>3. CASE dec' = ResetDone(Flushed(Given(dec, 0))) /\ Called(NewPass)
  <2>1. /\ Keeps(dec, dec') /\ dec'.state = "SEARCH_FOR_METADATA" /\ dec'.hasInfo = FALSE
        /\ dec'.fixed = 0 /\ dec'.md5 = dec'.checking /\ dec'.sum = Nothing
        /\ dec'.sync = {} /\ dec'.at = 0
    <3>1. \A position :
             LET e == ResetDone(Flushed(Given(dec, position)))
             IN  /\ Keeps(dec, e)
                 /\ e.state = "SEARCH_FOR_METADATA" /\ e.hasInfo = FALSE /\ e.fixed = 0
                 /\ e.md5 = dec.checking /\ e.checking = dec.checking /\ e.sum = Nothing
                 /\ e.sync = {} /\ e.at = position
      BY <1>1, ResetAt
    <3> QED
      BY <1>3, <3>1
  <2>2. PassTyped' /\ Pass' = NewPass /\ heard' = <<>>
    BY <1>1, <1>3, PassesTyped, CalledPass
  <2>3. Pass'.told = Nothing
    BY <1>1, <2>2, PassesTyped
  <2>4. call' = NoCall /\ file' \in Files /\ result'.op \in {"init", "reset"}
    BY <1>1 DEF Told
  <2> QED
    BY <1>2, <2>1, <2>2, <2>3, <2>4, PassBegins DEF Keeps
<1>4. CASE /\ dec' = ResetDone(Flushed(dec))
           /\ Called([NewPass EXCEPT !.moved = TRUE])
  <2> DEFINE f == Flushed(dec)
  <2>1. Keeps(dec, f) /\ f.sync = {} /\ Fields(f)
    BY <1>1, PartsKeep, PartsDo DEF Keeps
  <2>2. /\ Keeps(f, dec') /\ dec'.state = "SEARCH_FOR_METADATA" /\ dec'.hasInfo = FALSE
        /\ dec'.fixed = 0 /\ dec'.md5 = dec'.checking /\ dec'.sum = Nothing
        /\ dec'.sync = {}
    <3> HIDE DEF f
    <3> QED
      BY <1>4, <2>1, PartsKeep, ResetDoes DEF f
  <2> HIDE DEF f
  <2>3. /\ PassTyped' /\ Pass' = [NewPass EXCEPT !.moved = TRUE] /\ heard' = <<>>
    BY <1>1, <1>4, PassesTyped, CalledPass
  <2>4. Pass'.told = Nothing /\ Pass'.moved
    BY <1>1, <2>3, PassesTyped
  <2>5. call' = NoCall /\ file' \in Files /\ result'.op \in {"init", "reset"}
    BY <1>1 DEF Told
  <2> QED
    BY <1>2, <2>1, <2>2, <2>3, <2>4, <2>5, PassBegins DEF Keeps
<1>5. CASE ~ (dec' = ResetDone(Flushed(Given(dec, 0))) /\ Called(NewPass))
           /\ ~ (dec' = ResetDone(Flushed(dec)) /\ Called([NewPass EXCEPT !.moved = TRUE]))
  <2>1. dec' = Flushed(dec) /\ heard' = <<>> /\ result' = [op |-> "reset", ok |-> FALSE]
    BY <1>5 DEF Reset, Returned
  <2>2. PassTyped' /\ Pass' = Moved
    <3> DEFINE faults == IF file.client = "pipe" THEN history.faults ELSE history.faults + 1
               calls == history.calls + 1
    <3>1. history' = [history EXCEPT !.calls = calls, !.pass = Moved, !.faults = faults]
      BY <1>5 DEF Reset
    <3> HIDE DEF faults, calls
    <3>2. history'.pass = Moved /\ "pass" \in DOMAIN history'
      BY <1>1, <3>1 DEF PassTyped
    <3> QED
      BY <1>1, <3>2, PassesTyped DEF PassTyped, Pass
  <2> QED
    BY <1>1, <2>1, <2>2, FlushReturns
<1> QED
  BY <1>3, <1>4, <1>5

LEMMA InitDecoderStep == Inv /\ InitDecoder => Inv'
<1> SUFFICES ASSUME Inv, InitDecoder PROVE Inv'
  OBVIOUS
<1>1. /\ IInv /\ Told /\ Place /\ Fields(dec) /\ PassTyped /\ call = NoCall /\ call' = call
      /\ result'.op = "init"
  BY DEF Inv, IInv, Told, InitDecoder, MayCall, Returned
<1>2. PICK f \in Files, checking \in Checks :
         /\ file' = f
         /\ dec' = ResetDone(Flushed(Given(
                      [dec EXCEPT !.checking = checking, !.seeking = FALSE], 0)))
  BY DEF InitDecoder
<1> DEFINE open == [dec EXCEPT !.checking = checking, !.seeking = FALSE]
<1>3. checking \in BOOLEAN
  BY DecoderAssumption
<1>4. Fields(open) /\ open.seeking = FALSE /\ open.target = dec.target
  BY <1>1, <1>3 DEF Fields
<1>5. dec' = ResetDone(Flushed(Given(open, 0)))
  BY <1>2
<1> HIDE DEF open
<1>6. /\ Keeps(open, dec') /\ dec'.state = "SEARCH_FOR_METADATA" /\ dec'.hasInfo = FALSE
      /\ dec'.fixed = 0 /\ dec'.md5 = dec'.checking /\ dec'.sum = Nothing
      /\ dec'.sync = {} /\ dec'.at = 0
  <2>1. \A position :
           LET e == ResetDone(Flushed(Given(open, position)))
           IN  /\ Keeps(open, e)
               /\ e.state = "SEARCH_FOR_METADATA" /\ e.hasInfo = FALSE /\ e.fixed = 0
               /\ e.md5 = open.checking /\ e.checking = open.checking /\ e.sum = Nothing
               /\ e.sync = {} /\ e.at = position
    BY <1>4, ResetAt
  <2> QED
    BY <1>5, <2>1
<1>7. PassTyped' /\ Pass' = NewPass /\ heard' = <<>>
  BY <1>1, PassesTyped, CalledPass DEF InitDecoder
<1>8. Pass'.told = Nothing
  BY <1>1, <1>7, PassesTyped
<1>9. call' = NoCall /\ file' \in Files /\ dec.target \in Nat
  BY <1>1, <1>2 DEF Place, Aimed
<1> QED
  BY <1>1, <1>4, <1>6, <1>7, <1>8, <1>9, PassBegins DEF Keeps

LEMMA FinishStep == Inv /\ Finish => Inv'
<1> SUFFICES ASSUME Inv, Finish PROVE Inv'
  OBVIOUS
<1>1. /\ IInv /\ Told /\ Place /\ Fields(dec) /\ PassTyped /\ call = NoCall
      /\ heard' = <<>> /\ UNCHANGED <<file, call, history>>
      /\ result' = [op |-> "finish", ok |-> Verdict(dec), checking |-> dec.checking]
  BY DEF Inv, IInv, Told, Finish
<1> DEFINE table == dec.hasTable /\ dec.points = <<>>
<1>2. dec' = [dec EXCEPT !.state = "UNINITIALIZED", !.seeking = FALSE,
                         !.checking = FALSE, !.sync = {},
                         !.hasTable = table, !.points = <<>>]
  BY DEF Finish
<1> HIDE DEF table
<1>3. /\ Fields(dec') /\ dec'.state = "UNINITIALIZED" /\ dec'.seeking = FALSE
      /\ dec'.checking = FALSE /\ dec'.sync = {} /\ dec'.md5 = dec.md5
      /\ dec'.sum = dec.sum /\ dec'.hasInfo = dec.hasInfo /\ dec'.info = dec.info
      /\ dec'.target = dec.target /\ dec'.fixed = dec.fixed
  BY <1>1, <1>2 DEF Fields
<1>4. result'.op = "finish"
  BY <1>1
<1>5. IInv'
  BY <1>1, <1>3, <1>4, CallReturns
<1>6. SamePass
  BY <1>1, StillPass
<1>7. Summed' /\ Known' /\ Over'
  BY <1>1, <1>3, <1>6 DEF Told, Summed, Known, Over, SamePass, NoCall
<1>8. Vouched'
  <2>1. SUFFICES ASSUME WellFormed(file'), result'.ok, result'.checking, ~Pass'.moved, dec'.hasInfo,
                        dec'.info.md5 # "none"
                 PROVE  Pass'.told = [samples |-> file'.signal, intact |-> TRUE]
    BY DEF Vouched, Md5Vouches, Pass
  <2>2. dec.md5 /\ Verdict(dec)
    BY <1>1, <1>3, <1>6, <2>1 DEF Told, Summed, SamePass
  <2>3. dec.sum = [samples |-> file.signal, intact |-> TRUE]
    BY <2>2 DEF Verdict
  <2> QED
    BY <1>1, <1>6, <2>2, <2>3 DEF Told, Summed, SamePass
<1>9. Fresh' /\ Sizes' /\ Marked' /\ Aimed' /\ Ahead'
  BY <1>1, <1>3, <1>6 DEF Place, Fresh, Sizes, Marked, Aimed, Ahead, Active,
                          MetadataStates, SamePass
<1> QED
  BY <1>1, <1>5, <1>6, <1>7, <1>8, <1>9, EmptyHeard DEF Inv, Told, Place, SamePass

LEMMA ProcessStep == Inv /\ (\E op \in Loops : Process(op)) => Inv'
<1> SUFFICES ASSUME Inv, NEW op \in Loops, Process(op) PROVE Inv'
  OBVIOUS
<1>1. /\ IInv /\ Told /\ Place /\ PassTyped /\ call = NoCall /\ UNCHANGED <<file, dec, result>>
      /\ call' = [op |-> op, loop |-> op] /\ dec.state # "UNINITIALIZED"
  BY DEF Inv, Told, Process, MayCall
<1>2. {"moved", "told", "faulty", "frames"} \subseteq DOMAIN history.pass /\ history.pass.moved \in BOOLEAN
  BY <1>1 DEF PassTyped, Pass
<1>3. PassTyped' /\ Pass' = Pass /\ heard' = <<>>
  BY <1>1, <1>2, CalledPass DEF Process, Pass
<1>4. call'.op \in Loops /\ call' # NoCall /\ call'.op # "seek"
  BY <1>1 DEF NoCall, Loops
<1>5. IInv'
  BY <1>1, <1>4 DEF IInv, SeekLands, Fields
<1>6. Summed' /\ Known' /\ Over' /\ Vouched'
  BY <1>1, <1>3, <1>4 DEF Told, Summed, Known, Over, Vouched, Md5Vouches, NoCall
<1>7. Fresh' /\ Sizes' /\ Marked' /\ Aimed' /\ Ahead'
  BY <1>1, <1>3, <1>4 DEF Place, Fresh, Sizes, Marked, Aimed, Ahead, AheadOfInfo,
                          AheadOfFrame
<1> QED
  BY <1>1, <1>3, <1>5, <1>6, <1>7, EmptyHeard DEF Inv, Told, Place

LEMMA SeekStep == Inv /\ (\E target \in Targets : Seek(target)) => Inv'
<1> SUFFICES ASSUME Inv, NEW target \in Targets, Seek(target) PROVE Inv'
  OBVIOUS
<1>1. /\ IInv /\ Told /\ Place /\ PassTyped /\ Fields(dec)
      /\ call = NoCall /\ heard' = <<>> /\ UNCHANGED file
      /\ dec.state # "UNINITIALIZED" /\ target \in Nat
  BY DecoderAssumption DEF Inv, IInv, Told, Seek, MayCall, MetadataStates
<1>2. PICK fault \in {0, 1} :
         /\ history' = [history EXCEPT !.calls = @ + 1, !.faults = @ + fault,
                           !.pass = [Moved EXCEPT !.faulty = @ \/ fault > 0]]
         /\ dec' = [dec EXCEPT !.seeking = fault = 0, !.md5 = FALSE]
         /\ IF fault = 0
            THEN /\ call' = [op |-> "seek", phase |-> "metadata", target |-> target, got |-> TRUE,
                             loop |-> IF dec.state \in MetadataStates THEN "metadata" ELSE "none"]
                 /\ UNCHANGED result
            ELSE /\ result' = [op |-> "seek", ok |-> FALSE, target |-> target]
                 /\ UNCHANGED call
  BY DEF Seek
<1>3. PassTyped' /\ Pass'.moved = TRUE
  <2> DEFINE faulty == Moved.faulty \/ fault > 0
             calls == history.calls + 1
             faults == history.faults + fault
             pass == [Moved EXCEPT !.faulty = faulty]
  <2>1. history' = [history EXCEPT !.calls = calls, !.faults = faults, !.pass = pass]
    BY <1>2
  <2> HIDE DEF faulty, calls, faults
  <2>2. {"moved", "told", "faulty", "frames"} \subseteq DOMAIN pass /\ pass.moved = TRUE
    BY <1>1, PassesTyped
  <2> HIDE DEF pass
  <2>3. history'.pass = pass /\ "pass" \in DOMAIN history'
    BY <1>1, <2>1 DEF PassTyped
  <2> QED
    BY <2>2, <2>3 DEF PassTyped, Pass
<1> DEFINE begun == fault = 0
<1>4. begun \in BOOLEAN /\ dec' = [dec EXCEPT !.seeking = begun, !.md5 = FALSE]
  BY <1>2
<1> HIDE DEF begun
<1>5. /\ Fields(dec') /\ dec'.seeking = begun /\ dec'.md5 = FALSE /\ dec'.target = dec.target
      /\ dec'.state = dec.state /\ dec'.hasInfo = dec.hasInfo /\ dec'.info = dec.info
      /\ dec'.fixed = dec.fixed /\ dec'.sync = dec.sync
  BY <1>1, <1>4 DEF Fields
<1>6. CASE fault = 0
  <2>1. dec'.seeking = TRUE
    BY <1>5, <1>6 DEF begun
  <2>2. SeekUnderWay' /\ call' # NoCall /\ call'.op = "seek" /\ call'.target = target
    BY <1>1, <1>2, <1>6, <2>1 DEF SeekUnderWay, NothingYet, NoCall
  <2>3. IInv'
    BY <1>5, <2>2 DEF IInv, SeekLands, Fields
  <2>4. Summed' /\ Known' /\ Over' /\ Vouched'
    BY <1>1, <1>2, <1>3, <1>5, <1>6, <2>2
       DEF Told, Summed, Known, Over, Vouched, Md5Vouches
  <2>5. Fresh' /\ Sizes' /\ Marked' /\ Aimed' /\ Ahead'
    BY <1>1, <1>3, <1>5, <2>2 DEF Place, Fresh, Sizes, Marked, Aimed, Ahead
  <2> QED
    BY <1>1, <1>3, <2>3, <2>4, <2>5, EmptyHeard DEF Inv, Told, Place
<1>7. CASE fault = 1
  <2>0. begun = FALSE
    <3>1. (fault = 0) = FALSE
      BY <1>7
    <3> QED
      BY <3>1 DEF begun
  <2>1. dec'.seeking = FALSE
    BY <1>5, <2>0
  <2>2. result'.op = "seek" /\ result'.ok = FALSE /\ call' = call
    BY <1>2, <1>7
  <2>3. IInv'
    BY <1>1, <1>5, <2>2, CallReturns
  <2>4. Summed' /\ Known' /\ Over' /\ Vouched'
    BY <1>1, <1>3, <1>5, <2>1, <2>2
       DEF Told, Summed, Known, Over, Vouched, Md5Vouches, NoCall
  <2>5. Fresh' /\ Sizes' /\ Marked' /\ Aimed' /\ Ahead'
    BY <1>1, <1>3, <1>5, <2>2 DEF Place, Fresh, Sizes, Marked, Aimed, Ahead
  <2> QED
    BY <1>1, <1>3, <2>3, <2>4, <2>5, EmptyHeard DEF Inv, Told, Place
<1> QED
  BY <1>6, <1>7

LEMMA SeekRefusedStep == Inv /\ (\E target \in Targets : SeekRefused(target)) => Inv'
<1> SUFFICES ASSUME Inv, NEW target \in Targets, SeekRefused(target) PROVE Inv'
  OBVIOUS
<1>1. /\ IInv /\ Told /\ Place /\ PassTyped /\ Fields(dec)
      /\ call = NoCall /\ UNCHANGED <<file, dec, call>> /\ dec.state # "UNINITIALIZED"
      /\ result' = [op |-> "seek", ok |-> FALSE, target |-> target]
  BY DEF Inv, IInv, Told, SeekRefused, MayCall, InState
<1>2. {"moved", "told", "faulty", "frames"} \subseteq DOMAIN history.pass /\ history.pass.moved \in BOOLEAN
  BY <1>1 DEF PassTyped, Pass
<1>3. PassTyped' /\ Pass' = Pass /\ heard' = <<>>
  BY <1>1, <1>2, CalledPass DEF SeekRefused, Pass
<1>4. IInv'
  BY <1>1, CallReturns
<1>5. Summed' /\ Known' /\ Over' /\ Vouched'
  BY <1>1, <1>3 DEF Told, Summed, Known, Over, Vouched, Md5Vouches, NoCall
<1>6. Fresh' /\ Sizes' /\ Marked' /\ Aimed' /\ Ahead'
  BY <1>1, <1>3 DEF Place, Fresh, Sizes, Marked, Aimed, Ahead, AheadOfInfo,
                    AheadOfFrame, NoCall
<1> QED
  BY <1>1, <1>3, <1>4, <1>5, <1>6, EmptyHeard DEF Inv, Told, Place

LEMMA ClientCallStep == Inv /\ ClientCall => Inv'
<1> SUFFICES ASSUME Inv, ClientCall PROVE Inv'
  OBVIOUS
<1>1. \/ InitDecoder \/ Flush \/ Reset \/ Finish
      \/ \E op \in Loops : Process(op)
      \/ \E target \in Targets : Seek(target)
      \/ \E target \in Targets : SeekRefused(target)
  BY DEF ClientCall
<1> QED
  BY <1>1, InitDecoderStep, FlushStep, ResetStep, FinishStep, ProcessStep, SeekStep,
     SeekRefusedStep

-----------------------------------------------------------------------------
(* The steps of a seek.  The pass was moved when it began.                 *)
Sought(d, e) ==
    /\ Fields(e) /\ e.target \in Nat /\ e.md5 = d.md5 /\ e.sum = d.sum
    /\ e.checking = d.checking /\ e.hasInfo = d.hasInfo /\ e.info = d.info
    /\ e.fixed = d.fixed /\ e.sync \subseteq d.sync
    /\ e.state \in MetadataStates => d.state \in MetadataStates
    /\ e.state # "UNINITIALIZED"

LEMMA SoughtStep ==
    ASSUME Told, Place, call.op = "seek", Sought(dec, dec'), UNCHANGED <<file, heard>>,
           SamePass, result' = result \/ result'.op = "seek",
           \/ call'.op = "seek" /\ call'.target = call.target
           \/ call' = NoCall /\ dec'.seeking = FALSE
    PROVE  Told' /\ Place'
<1>1. Pass'.moved = TRUE /\ Pass.moved = TRUE /\ dec.md5 = FALSE
  BY DEF Told, Summed, SamePass, Fields, PassTyped
<1>2. Summed' /\ Known' /\ Over' /\ Vouched'
  <2>1. result.op # "finish"
    BY DEF Told, Over, NoCall
  <2> QED
    BY <1>1, <2>1 DEF Told, Summed, Known, Over, Vouched, Md5Vouches, NoCall, Sought, SamePass
<1>3. Listed' /\ Placed' /\ Fresh' /\ Sizes' /\ Marked' /\ Aimed' /\ Ahead'
  BY <1>1 DEF Place, Listed, Placed, InPlace, Fresh, Sizes, Marked, Aimed, Ahead, Sought, NoCall,
              Pass
<1> QED
  BY <1>2, <1>3 DEF Told, Place, SamePass

LEMMA SeekReturnsStep ==
    ASSUME Inv, call.op = "seek", UNCHANGED <<file, heard>>,
           NEW d, Sought(dec, d), NEW v, NEW fault, v = FALSE \/ Hit,
           SeekReturns(d, v, fault)
    PROVE  Inv'
<1>1. /\ dec' = [d EXCEPT !.seeking = FALSE] /\ call' = NoCall
      /\ result' = [op |-> "seek", ok |-> v, target |-> call.target] /\ Faulted(fault)
  BY DEF SeekReturns
<1>2. Sought(dec, dec') /\ dec'.seeking = FALSE
  BY <1>1 DEF Sought, Fields
<1>3. SeekLands'
  BY <1>1 DEF SeekLands, Hit
<1>4. IInv'
  BY <1>1, <1>2, <1>3 DEF IInv, Sought, Fields
<1>5. SamePass
  BY <1>1, FaultedPass DEF Inv, Told
<1>6. Told' /\ Place'
  BY <1>1, <1>2, <1>5, SoughtStep DEF Inv
<1> QED
  BY <1>4, <1>6 DEF Inv

LEMMA StillSought ==
    ASSUME Inv, call # NoCall
    PROVE  Sought(dec, dec) /\ Sought(dec, [dec EXCEPT !.state = "SEEK_ERROR"])
BY DEF Inv, IInv, Told, Over, Place, Aimed, Sought, Fields, MetadataStates

LEMMA SeekFailsStep ==
    ASSUME Inv, call.op = "seek", UNCHANGED <<file, heard>>, NEW fault, SeekFails(fault)
    PROVE  Inv'
<1> DEFINE failed == [dec EXCEPT !.state = "SEEK_ERROR"]
<1>1. Sought(dec, failed)
  BY StillSought DEF NoCall
<1>2. SeekReturns(failed, FALSE, fault)
  BY DEF SeekFails
<1> HIDE DEF failed
<1> QED
  BY <1>1, <1>2, SeekReturnsStep

(* A seek goes on: another phase, the same target.                         *)
LEMMA SeekGoesOn ==
    ASSUME Inv, call.op = "seek", Sought(dec, dec'), UNCHANGED <<file, heard, history, result>>,
           dec'.target = call.target, call'.target = call.target,
           heard = <<>>, dec'.seeking = TRUE,
           call'.op = "seek", {"op", "phase", "target", "got", "loop"} \subseteq DOMAIN call',
           \/ call'.phase = "aim" /\ call'.loop = "none"
           \/ call'.phase = "look" /\ call'.loop = "single"
    PROVE  Inv'
<1>1. Fields(dec)'
  BY DEF Sought, Fields
<1>2. SeekUnderWay' /\ call' # NoCall
  BY DEF SeekUnderWay, NothingYet, NoCall
<1>3. IInv'
  BY <1>1, <1>2 DEF IInv, SeekLands
<1>4. Told' /\ Place'
  BY StillPass, SoughtStep DEF Inv, Told
<1> QED
  BY <1>3, <1>4 DEF Inv

LEMMA SeekBoundsStep == Inv /\ SeekBounds => Inv'
<1> SUFFICES ASSUME Inv, SeekBounds PROVE Inv'
  OBVIOUS
<1>1. /\ call.op = "seek" /\ SeekUnderWay /\ NothingYet /\ UNCHANGED <<file, heard>>
      /\ call # NoCall /\ call.target \in Nat
  BY DEF SeekBounds, Seeking, Inv, IInv, SeekUnderWay, NoCall, Loops, Place, Aimed
<1>2. Sought(dec, dec)
  BY <1>1, StillSought
<1>3. CASE SeekReturns(dec, FALSE, 0)
  BY <1>1, <1>2, <1>3, SeekReturnsStep
<1>4. CASE ~SeekReturns(dec, FALSE, 0)
  <2>1. /\ dec' = [dec EXCEPT !.target = call.target] /\ UNCHANGED <<result, history>>
        /\ LET b == FirstBounds(call.target)
           IN  call' = [op |-> "seek", phase |-> "aim", loop |-> "none", got |-> TRUE,
                        target |-> call.target, pos |-> 0, guess |-> FrameGuess,
                        first |-> TRUE, low |-> b.low, lowSample |-> b.lowSample,
                        high |-> b.high, highSample |-> b.highSample]
    BY <1>4 DEF SeekBounds
  <2>2. /\ call'.op = "seek" /\ call'.phase = "aim" /\ call'.loop = "none"
        /\ call'.target = call.target
        /\ {"op", "phase", "target", "got", "loop"} \subseteq DOMAIN call'
    BY <2>1
  <2>3. Sought(dec, dec') /\ dec'.target = call.target /\ dec'.seeking = TRUE
    BY <1>1, <1>2, <2>1 DEF Sought, Fields, NothingYet
  <2> QED
    BY <1>1, <2>1, <2>2, <2>3, SeekGoesOn DEF NothingYet
<1> QED
  BY <1>3, <1>4

LEMMA SeekAimStep == Inv /\ SeekAim => Inv'
<1> SUFFICES ASSUME Inv, SeekAim PROVE Inv'
  OBVIOUS
<1>1. /\ call.op = "seek" /\ SeekUnderWay /\ NothingYet /\ UNCHANGED <<file, heard>>
      /\ dec.target = call.target /\ call # NoCall
  BY DEF SeekAim, Seeking, Inv, IInv, SeekUnderWay, NoCall, Loops
<1>2. Sought(dec, dec) /\ ~dec.md5
  BY <1>1, StillSought DEF Inv, Told, Summed
<1>3. CASE \E fault : SeekFails(fault)
  BY <1>1, <1>3, SeekFailsStep
<1>4. CASE ~ \E fault : SeekFails(fault)
  <2>1. /\ dec' = [Flushed(Given(dec, Aim)) EXCEPT !.unparseable = 0]
        /\ call' = [call EXCEPT !.phase = "look", !.loop = "single", !.pos = Aim]
        /\ UNCHANGED <<result, history>>
    BY <1>4 DEF SeekAim
  <2> DEFINE position == Aim
             given == Given(dec, position)
             moved == Flushed(given)
  <2>2. Sought(dec, given) /\ given.seeking = dec.seeking /\ given.target = dec.target
    <3> HIDE DEF position
    <3> QED
      BY <1>2 DEF Sought, Given, Fields
  <2> HIDE DEF given
  <2>3. /\ Fields(moved) /\ moved.seeking = dec.seeking /\ moved.target = dec.target
        /\ moved.md5 = FALSE /\ moved.sum = dec.sum /\ moved.checking = dec.checking
        /\ moved.hasInfo = dec.hasInfo /\ moved.info = dec.info
        /\ moved.fixed = dec.fixed /\ moved.sync = {}
        /\ moved.state = "SEARCH_FOR_FRAME_SYNC"
    BY <2>2 DEF Sought, Flushed, Fields
  <2>4. dec' = [moved EXCEPT !.unparseable = 0]
    BY <2>1 DEF given
  <2> HIDE DEF moved
  <2>5. Sought(dec, dec') /\ dec'.target = dec.target /\ dec'.seeking = TRUE
    BY <1>1, <1>2, <2>3, <2>4 DEF Sought, Fields, NothingYet, MetadataStates
  <2>6. /\ call'.op = "seek" /\ call'.phase = "look" /\ call'.loop = "single"
        /\ call'.target = call.target /\ DOMAIN call' = DOMAIN call
    BY <1>1, <2>1 DEF SeekUnderWay
  <2> QED
    BY <1>1, <2>1, <2>5, <2>6, SeekGoesOn DEF NothingYet, SeekUnderWay
<1> QED
  BY <1>3, <1>4

LEMMA SeekLookStep == Inv /\ SeekLook => Inv'
<1> SUFFICES ASSUME Inv, SeekLook PROVE Inv'
  OBVIOUS
<1>1. /\ call.op = "seek" /\ call.loop = "none" /\ SeekUnderWay /\ (NothingYet \/ Hit)
      /\ UNCHANGED <<file, heard>> /\ dec.target = call.target /\ call # NoCall
      /\ dec.seeking \in BOOLEAN
  BY DEF SeekLook, Seeking, Inv, IInv, SeekUnderWay, NoCall, Loops, Fields
<1>2. Sought(dec, dec)
  BY <1>1, StillSought
<1>3. CASE \E fault : SeekFails(fault)
  BY <1>1, <1>3, SeekFailsStep
<1>4. CASE call.got /\ ~dec.seeking
  <2>1. SeekReturns(dec, TRUE, 0) /\ Hit
    BY <1>1, <1>4 DEF SeekLook, NothingYet
  <2> QED
    BY <1>1, <1>2, <2>1, SeekReturnsStep
<1>5. CASE ~(call.got /\ ~dec.seeking) /\ ~ \E fault : SeekFails(fault)
  <2>1. dec.seeking /\ (call' = StepBack \/ call' = Narrowed) /\ UNCHANGED <<dec, result, history>>
    BY <1>5 DEF SeekLook
  <2>2. /\ call'.op = "seek" /\ call'.phase = "aim" /\ call'.loop = "none"
        /\ call'.target = call.target /\ DOMAIN call' = DOMAIN call
    <3>1. CASE call' = StepBack
      <4> DEFINE guess == IF call.guess = 0 THEN 16 ELSE 2 * call.guess
      <4>1. call' = [call EXCEPT !.phase = "aim", !.guess = guess]
        BY <3>1 DEF StepBack
      <4> HIDE DEF guess
      <4> QED
        BY <1>1, <4>1 DEF SeekUnderWay
    <3>2. CASE call' = Narrowed
      <4> DEFINE guess(bound) == (2 * (bound - call.pos)) \div 3 + 16
                 g == guess(dec.at)
      <4>1. \/ call' = [call EXCEPT !.phase = "aim", !.first = FALSE, !.highSample = LastEnd,
                                    !.high = dec.at, !.guess = g]
            \/ call' = [call EXCEPT !.phase = "aim", !.first = FALSE, !.lowSample = LastEnd,
                                    !.low = dec.at, !.guess = g]
        BY <3>2 DEF Narrowed
      <4> HIDE DEF g
      <4> QED
        BY <1>1, <4>1 DEF SeekUnderWay
    <3> QED
      BY <2>1, <3>1, <3>2
  <2>3. NothingYet
    BY <1>1, <2>1 DEF Hit
  <2> QED
    BY <1>1, <1>2, <2>1, <2>2, <2>3, SeekGoesOn DEF NothingYet, SeekUnderWay
<1> QED
  BY <1>3, <1>4, <1>5

-----------------------------------------------------------------------------
(* A decoder that was created and not yet begun.                           *)
LEMMA BeginsSound == Init => Inv
<1> SUFFICES ASSUME Init PROVE Inv
  OBVIOUS
<1>1. /\ file \in Files /\ call = NoCall /\ heard = <<>>
      /\ result.op = "none" /\ history.pass = NewPass /\ "pass" \in DOMAIN history
  BY DEF Init
<1>2. /\ Fields(dec) /\ dec.state = "UNINITIALIZED" /\ dec.hasInfo = FALSE
      /\ dec.seeking = FALSE /\ dec.target = 0 /\ dec.fixed = 0 /\ dec.sync = {}
      /\ dec.checking = FALSE /\ dec.md5 = FALSE
  BY DEF Init, NewDecoder, Fields
<1>3. PassTyped /\ Pass.moved = FALSE
  BY <1>1 DEF PassTyped, Pass, NewPass
<1>4. IInv
  BY <1>1, <1>2 DEF IInv, SeekLands
<1>5. Told
  BY <1>1, <1>2, <1>3 DEF Told, Summed, Known, Over, Vouched, Md5Vouches, NoCall
<1>6. Listed /\ Placed
  <2>1. heard \in Seq({})
    BY <1>1
  <2>2. DOMAIN heard = {}
    BY <1>1
  <2> QED
    BY <2>1, <2>2 DEF Listed, Placed, InPlace
<1>7. Fresh /\ Sizes /\ Marked /\ Aimed /\ Ahead
  BY <1>1, <1>2 DEF Fresh, Sizes, Marked, Aimed, Ahead, Active, MetadataStates, NoCall
<1> QED
  BY <1>4, <1>5, <1>6, <1>7 DEF Inv, Place

LEMMA StandsStill == Inv /\ UNCHANGED vars => Inv'
BY DEF Inv, vars, IInv, Fields, SeekUnderWay, NothingYet, Hit, SeekLands, Told,
       PassTyped, Pass, Summed, Known, Over, Vouched, Md5Vouches, Place, Listed, Placed, InPlace, Fresh,
       Sizes, Marked, Aimed, Ahead, AheadOfInfo, AheadOfFrame

(* Where a seek stands, what the sum is of and where the sample numbers    *)
(* come from: the three invariants hold together in every reachable state. *)
THEOREM InductiveInvariant == Spec => []Inv
<1>1. Init => Inv
  BY BeginsSound
<1>2. Inv /\ [Next]_vars => Inv'
  <2> SUFFICES ASSUME Inv, [Next]_vars PROVE Inv'
    OBVIOUS
  <2>1. CASE ClientCall
    BY <2>1, ClientCallStep
  <2>2. CASE FindMetadata
    BY <2>2, FindMetadataStep
  <2>3. CASE ReadMetadata
    BY <2>3, ReadMetadataStep
  <2>4. CASE FrameSync
    BY <2>4, FrameSyncStep
  <2>5. CASE ReadFrame
    BY <2>5, ReadFrameStep
  <2>6. CASE ReadFrameStale
    BY <2>6, ReadFrameStaleStep
  <2>7. CASE LoopEnds
    BY <2>7, LoopEndsStep
  <2>8. CASE SeekBounds \/ SeekAim \/ SeekLook
    BY <2>8, SeekBoundsStep, SeekAimStep, SeekLookStep
  <2>9. CASE UNCHANGED vars
    BY <2>9, StandsStill
  <2> QED
    BY <2>1, <2>2, <2>3, <2>4, <2>5, <2>6, <2>7, <2>8, <2>9 DEF Next, Step
<1> QED
  BY <1>1, <1>2, PTL DEF Spec

(* A seek that returns true has written one piece, and it begins at the    *)
(* sample that was asked for.                                              *)
THEOREM SeekReturnsTarget == Spec => []SeekLands
<1>1. Inv => SeekLands
  BY DEF Inv, IInv
<1> QED
  BY <1>1, InductiveInvariant, PTL

(* finish never vouches for a checked pass in which the client was told    *)
(* anything but the whole signal, in order.                                *)
THEOREM SumIsOfTheSignal == Spec => []Md5Vouches
<1>1. Inv => Md5Vouches
  BY FilesAssumption DEF Inv, Told, Vouched
<1> QED
  BY <1>1, InductiveInvariant, PTL

(* What is written as good samples carries its true sample number, after   *)
(* every sequence of seeks, flushes, resets, damage and failures.          *)
THEOREM SamplesInPlace == Spec => []InPlace
<1>1. Inv => InPlace
  BY FilesAssumption DEF Inv, Told, Place, Placed
<1> QED
  BY <1>1, InductiveInvariant, PTL

-----------------------------------------------------------------------------
(* What becomes of the whole frames in a pass from the start that neither  *)
(* moved nor failed: each was got, or is still to come.  Where the decoder *)
(* searches, it stands in no frame that is read to its end, so that        *)
(* nothing that looks like a frame inside of one is ever found.            *)
Searching == MetadataStates \cup {"SEARCH_FOR_FRAME_SYNC"}

AtEdge(p, frames) ==
    /\ p \in Nat /\ ~Inside(file, p)
    /\ \A x \in Entire(file) : x \in frames \/ p <= x.at

AtFrame(m, frames) ==
    /\ m \in Syncs(file) /\ ~Inside(file, m.at)
    /\ \A x \in Entire(file) : x \in frames \/ x = m \/ m.at < x.at

SignalLeft(d, frames) == \A x \in Entire(file) : x \in frames \/ ~AllDecoded(d)

Within(d) == d.fetched \in Int /\ d.fetched <= file.length

Gathered(d, frames) ==
    /\ Within(d)
    /\ d.state \in Searching => AtEdge(d.at, frames)
    /\ d.state = "READ_FRAME" => d.sync # {} /\ \A m \in d.sync : AtFrame(m, frames)
    /\ d.state = "END_OF_STREAM" => Entire(file) \subseteq frames
    /\ d.state \in MetadataStates => d.samplesDecoded = 0
    /\ SignalLeft(d, frames)

Local ==
    (Undisturbed(file) /\ ~Pass.moved /\ ~Pass.faulty) => Gathered(dec, Pass.frames)

Sane == SideBySide(file) /\ Numbered(file) /\ Undisturbed(file)

(* What stands where.                                                      *)
LEMMA EntireOnes ==
    ASSUME Sane, NEW x \in Entire(file)
    PROVE  /\ x \in file.items /\ x.kind = "frame" /\ x.damage = "none" /\ Readable(x)
           /\ x \in Syncs(file) /\ x.at \in Nat /\ x.size \in Nat /\ 2 <= x.size
           /\ Ends(x) = x.at + x.size /\ Ends(x) <= file.length /\ x.reads = x.size
<1>1. x \in file.items /\ x.kind = "frame" /\ x.damage = "none" /\ Ends(x) <= file.length
  BY DEF Entire
<1>2. Readable(x) /\ x \in Syncs(file)
  BY <1>1 DEF Readable, Syncs
<1>3. x.at \in Nat /\ x.size \in Nat
  BY <1>1 DEF Sane, SideBySide
<1>4. x.size >= 2 /\ x.reads = x.size
  BY <1>1, <1>2 DEF Sane, Undisturbed
<1> QED
  BY <1>1, <1>2, <1>3, <1>4 DEF Ends

LEMMA ReadableOnes ==
    ASSUME Sane, NEW z \in file.items, Readable(z)
    PROVE  /\ z.kind = "frame" /\ z.at \in Nat /\ z.size \in Nat /\ z.reads = z.size
           /\ Ends(z) = z.at + z.size /\ Ends(z) \in Nat
<1>1. z.kind = "frame" /\ z.at \in Nat /\ z.size \in Nat
  BY DEF Sane, SideBySide, Readable
<1>2. z.reads = z.size
  BY DEF Sane, Undisturbed
<1> QED
  BY <1>1, <1>2 DEF Ends

(* Nothing whole is left when the file ends before what is looked for.     *)
LEMMA NothingLeft ==
    ASSUME Sane, NEW frames, NEW q \in Nat, ~(q <= file.length),
           \A x \in Entire(file) : x \in frames \/ q <= Ends(x)
    PROVE  Entire(file) \subseteq frames
<1>1. file.length \in Nat
  BY DEF Sane, Undisturbed
<1>2. ASSUME NEW x \in Entire(file), q <= Ends(x) PROVE FALSE
  <2>1. Ends(x) <= file.length /\ Ends(x) \in Nat
    BY EntireOnes
  <2> QED
    BY <1>1, <1>2, <2>1
<1> QED
  BY <1>2

(* The next thing that looks like a frame.                                 *)
LEMMA FoundFrame ==
    ASSUME Sane, NEW frames, NEW p, AtEdge(p, frames), NEW kinds, {"frame", "fake"} \subseteq kinds,
           NEW m \in Nearest(kinds, p), m.kind \in {"frame", "fake"}
    PROVE  AtFrame(m, frames) /\ m.at \in Nat
<1>1. m \in file.items /\ m.at \in Nat /\ p \in Nat /\ p <= m.at /\ m \in Syncs(file)
  BY DEF Nearest, Sane, SideBySide, AtEdge, Syncs
<1>2. ASSUME NEW z \in file.items, z.kind = "frame", z.at \in Nat, p <= z.at PROVE m.at <= z.at
  BY <1>2, <1>1 DEF Nearest
<1>3. ASSUME NEW z \in file.items, Readable(z), z.at < m.at, m.at < Ends(z) PROVE FALSE
  <2>1. z.kind = "frame" /\ z.at \in Nat /\ Ends(z) \in Nat
    BY <1>3, ReadableOnes
  <2>2. CASE p <= z.at
    BY <1>1, <1>2, <1>3, <2>1, <2>2
  <2>3. CASE ~(p <= z.at)
    <3>1. z.at < p /\ p < Ends(z)
      BY <1>1, <1>3, <2>1, <2>3
    <3> QED
      BY <1>3, <3>1 DEF AtEdge, Inside
  <2> QED
    BY <2>2, <2>3
<1>4. ~Inside(file, m.at)
  BY <1>3 DEF Inside
<1>5. ASSUME NEW x \in Entire(file), x \notin frames, x # m PROVE m.at < x.at
  <2>1. x \in file.items /\ x.kind = "frame" /\ Readable(x) /\ x.at \in Nat
    BY EntireOnes
  <2>2. m.at <= x.at
    BY <1>2, <1>5, <2>1 DEF AtEdge
  <2>3. Kept(file, m)
    BY <1>1, <1>4 DEF Sane, Undisturbed
  <2> QED
    BY <1>5, <2>1, <2>2, <2>3 DEF Kept
<1> QED
  BY <1>1, <1>4, <1>5 DEF AtFrame

(* Behind a piece that is no frame, and behind a tag without an audio file. *)
LEMMA BehindPiece ==
    ASSUME Sane, NEW frames, NEW m \in file.items, m.kind \notin {"frame", "fake"},
           \A x \in Entire(file) : x \in frames \/ m.at <= x.at
    PROVE  AtEdge(Ends(m), frames)
<1>1. m.at \in Nat /\ m.size \in Nat /\ Ends(m) = m.at + m.size /\ Ends(m) \in Nat
  BY DEF Sane, SideBySide, Ends
<1>2. ASSUME NEW x \in file.items, x.kind = "frame", m.at <= x.at PROVE Ends(m) <= x.at
  BY <1>2 DEF Sane, SideBySide
<1>3. ASSUME NEW x \in file.items, x.kind = "frame", x.at <= m.at PROVE Ends(x) <= m.at
  BY <1>3 DEF Sane, SideBySide
<1>4. ASSUME NEW z \in file.items, Readable(z), z.at < Ends(m), Ends(m) < Ends(z) PROVE FALSE
  <2>1. z.kind = "frame" /\ z.at \in Nat /\ Ends(z) \in Nat
    BY <1>4, ReadableOnes
  <2>2. z.at <= m.at \/ m.at <= z.at
    BY <1>1, <2>1
  <2>3. Ends(m) <= z.at \/ Ends(z) <= m.at
    BY <1>2, <1>3, <1>4, <2>1, <2>2
  <2> QED
    BY <1>1, <1>4, <2>1, <2>3
<1>5. ~Inside(file, Ends(m))
  BY <1>4 DEF Inside
<1>6. \A x \in Entire(file) : x \in frames \/ Ends(m) <= x.at
  BY <1>2, EntireOnes
<1> QED
  BY <1>1, <1>5, <1>6 DEF AtEdge

LEMMA BehindTag ==
    ASSUME Sane, NEW frames, NEW m \in file.items, m.kind = "tag", AtEdge(Ends(m), frames)
    PROVE  AtEdge(Ends(m) + 1, frames)
<1> DEFINE e == Ends(m)
<1>1. e \in Nat
  BY DEF AtEdge
<1>2. \A z \in file.items : Readable(z) => e # z.at
  BY DEF Sane, Undisturbed
<1>3. ~Inside(file, e) /\ \A x \in Entire(file) : x \in frames \/ e <= x.at
  BY DEF AtEdge
<1> HIDE DEF e
<1>4. ASSUME NEW z \in file.items, Readable(z), z.at < e + 1, e + 1 < Ends(z) PROVE FALSE
  <2>1. z.at \in Nat /\ Ends(z) \in Nat /\ e # z.at
    BY <1>2, <1>4, ReadableOnes
  <2>2. z.at < e /\ e < Ends(z)
    BY <1>1, <1>4, <2>1
  <2> QED
    BY <1>3, <1>4, <2>2 DEF Inside
<1>5. ASSUME NEW x \in Entire(file), x \notin frames PROVE e + 1 <= x.at
  <2>1. x.at \in Nat /\ e # x.at /\ e <= x.at
    BY <1>2, <1>3, <1>5, EntireOnes
  <2> QED
    BY <1>1, <2>1
<1>6. AtEdge(e + 1, frames)
  BY <1>1, <1>4, <1>5 DEF AtEdge, Inside
<1> QED
  BY <1>6 DEF e

(* Behind what was read for a frame.                                       *)
LEMMA BehindFrame ==
    ASSUME Sane, NEW frames, NEW m, AtFrame(m, frames),
           NEW got, frames \subseteq got, m \in Entire(file) => m \in got
    PROVE  /\ AtEdge(m.at + m.reads, got) /\ m.at + m.reads \in Nat
           /\ Kept(file, m)
<1>1. m \in Syncs(file) /\ m \in file.items /\ m.at \in Nat /\ ~Inside(file, m.at)
  BY DEF AtFrame, Syncs, Sane, SideBySide
<1>2. Kept(file, m) /\ m.reads \in Nat
  BY <1>1 DEF Sane, Undisturbed, Kept
<1> DEFINE q == m.at + m.reads
<1>3. q \in Nat
  BY <1>1, <1>2
<1>4. ASSUME NEW z \in file.items, Readable(z), z.at < q, q < Ends(z) PROVE FALSE
  <2>1. z.at \in Nat /\ Ends(z) \in Nat /\ Ends(z) = z.at + z.size /\ z.reads = z.size
    BY <1>4, ReadableOnes
  <2>2. CASE z = m
    BY <1>4, <2>1, <2>2
  <2>3. CASE z # m /\ m.at <= z.at
    <3>1. q <= z.at
      BY <1>2, <1>4, <2>3 DEF Kept
    <3> QED
      BY <1>3, <1>4, <2>1, <3>1
  <2>4. CASE ~(m.at <= z.at)
    <3>1. ~(m.at < Ends(z))
      BY <1>1, <1>4, <2>1, <2>4 DEF Inside
    <3> QED
      BY <1>1, <1>2, <1>4, <2>1, <3>1
  <2> QED
    BY <2>2, <2>3, <2>4
<1>5. ASSUME NEW x \in Entire(file), x \notin got PROVE q <= x.at
  <2>1. x \in file.items /\ Readable(x) /\ x # m /\ x.at \in Nat
    BY <1>5, EntireOnes
  <2>2. m.at <= x.at
    BY <1>1, <1>5, <2>1 DEF AtFrame
  <2> QED
    BY <1>2, <2>1, <2>2 DEF Kept
<1>6. AtEdge(q, got)
  BY <1>3, <1>4, <1>5 DEF AtEdge, Inside
<1> QED
  BY <1>2, <1>3, <1>6

-----------------------------------------------------------------------------
(* What the steps do to it.                                                *)
SameSignal(d, e) ==
    /\ Fields(e) /\ e.samplesDecoded = d.samplesDecoded /\ e.hasInfo = d.hasInfo
    /\ e.info = d.info /\ e.sync = d.sync /\ e.fixed = d.fixed /\ e.seeking = d.seeking

Arrives(d, q, r) ==
    IF r.ok THEN r.dec.at = q /\ r.dec.state = d.state /\ (q <= d.fetched \/ q <= file.length)
    ELSE r.dec.state = "END_OF_STREAM" /\ ~(q <= file.length)

LEMMA FetchedWithin ==
    ASSUME file.length \in Nat, NEW d, Within(d), NEW q \in Int
    PROVE  Fetched(d, q) \in Int /\ Fetched(d, q) <= file.length
<1> DEFINE blocks == (q - d.fetched + Chunk - 1) \div Chunk
           more == d.fetched + Chunk * blocks
<1>1. Chunk \in Nat \ {0} /\ d.fetched \in Int
  BY DecoderAssumption DEF Within
<1>2. blocks \in Int
  BY <1>1
<1> HIDE DEF blocks
<1>3. more \in Int
  BY <1>1, <1>2
<1>4. Fetched(d, q) = Smaller(file.length, more)
  BY DEF Fetched, blocks
<1> HIDE DEF more
<1> QED
  BY <1>3, <1>4 DEF Smaller

LEMMA ReachSound ==
    ASSUME NEW d, Fields(d), NEW q, NEW r \in Reach(d, q)
    PROVE  /\ SameSignal(d, r.dec) /\ r.fault \in {0, 1}
           /\ r.ok \/ (d.seeking = FALSE /\ r.fault = 0) => Arrives(d, q, r)
<1>1. ASSUME r \in Reached(d, q), q <= d.fetched \/ q <= file.length
      PROVE  SameSignal(d, r.dec) /\ r.fault \in {0, 1} /\ Arrives(d, q, r)
  <2> DEFINE fetched == IF q <= d.fetched THEN d.fetched ELSE Fetched(d, q)
             e == [d EXCEPT !.at = q, !.fetched = fetched]
  <2>1. r = [dec |-> e, ok |-> TRUE, fault |-> 0]
    BY <1>1 DEF Reached
  <2>2. r.dec = e /\ r.ok /\ r.fault = 0
    BY <2>1
  <2>3. SameSignal(d, e) /\ e.at = q /\ e.state = d.state
    <3> HIDE DEF fetched
    <3> QED
      BY DEF SameSignal, Fields
  <2> HIDE DEF e
  <2> QED
    BY <1>1, <2>2, <2>3 DEF Arrives
<1>2. ASSUME r \in RunsOut(d), ~(q <= file.length)
      PROVE  SameSignal(d, r.dec) /\ r.fault \in {0, 1} /\ Arrives(d, q, r)
  <2>1. r.dec = [d EXCEPT !.at = file.length, !.fetched = file.length,
                          !.state = "END_OF_STREAM"] /\ ~r.ok /\ r.fault = 0
    BY <1>2 DEF RunsOut
  <2>2. SameSignal(d, r.dec) /\ r.dec.state = "END_OF_STREAM"
    BY <2>1 DEF SameSignal, Fields
  <2> QED
    BY <1>2, <2>1, <2>2 DEF Arrives
<1>3. ASSUME NEW fault \in {0, 1}, r \in Aborts(d, fault), fault = 0 => d.seeking # FALSE
      PROVE  /\ SameSignal(d, r.dec) /\ r.fault \in {0, 1} /\ ~r.ok
             /\ ~(d.seeking = FALSE /\ r.fault = 0)
  <2>1. /\ r.dec = [d EXCEPT !.at = d.fetched, !.state = "ABORTED"] /\ ~r.ok
        /\ r.fault = fault
    BY <1>3 DEF Aborts
  <2>2. SameSignal(d, r.dec)
    BY <2>1 DEF SameSignal, Fields
  <2> QED
    BY <1>3, <2>1, <2>2
<1>4. \/ r \in Reached(d, q) /\ (q <= d.fetched \/ q <= file.length)
      \/ (r \in RunsOut(d) /\ ~(q <= file.length))
      \/ (d.seeking # FALSE /\ r \in Aborts(d, 0))
      \/ r \in Aborts(d, 1)
  BY DEF Reach
<1>5. CASE r \in Reached(d, q) /\ (q <= d.fetched \/ q <= file.length)
  BY <1>1, <1>5
<1>6. CASE r \in RunsOut(d) /\ ~(q <= file.length)
  BY <1>2, <1>6
<1>7. CASE d.seeking # FALSE /\ r \in Aborts(d, 0)
  BY <1>3, <1>7
<1>8. CASE r \in Aborts(d, 1)
  <2>1. 1 \in {0, 1} /\ (1 = 0 => d.seeking # FALSE)
    OBVIOUS
  <2> QED
    BY <1>3, <1>8, <2>1
<1> QED
  BY <1>4, <1>5, <1>6, <1>7, <1>8

LEMMA ReachWithin ==
    ASSUME NEW d, Fields(d), Within(d), file.length \in Nat, NEW q \in Int, NEW r \in Reach(d, q)
    PROVE  Within(r.dec)
<1>1. Fetched(d, q) \in Int /\ Fetched(d, q) <= file.length /\ d.fetched \in Int
      /\ d.fetched <= file.length
  BY FetchedWithin DEF Within
<1>2. CASE r \in Reached(d, q)
  <2> DEFINE fetched == IF q <= d.fetched THEN d.fetched ELSE Fetched(d, q)
             e == [d EXCEPT !.at = q, !.fetched = fetched]
  <2>1. r.dec = e
    BY <1>2 DEF Reached
  <2>2. fetched \in Int /\ fetched <= file.length
    BY <1>1
  <2> HIDE DEF fetched
  <2>3. e.fetched = fetched
    BY DEF Fields
  <2> HIDE DEF e
  <2> QED
    BY <2>1, <2>2, <2>3 DEF Within
<1>3. CASE r \in RunsOut(d)
  <2>1. r.dec = [d EXCEPT !.at = file.length, !.fetched = file.length,
                          !.state = "END_OF_STREAM"]
    BY <1>3 DEF RunsOut
  <2>2. r.dec.fetched = file.length
    BY <2>1 DEF Fields
  <2> QED
    BY <2>2 DEF Within
<1>4. CASE r \in Aborts(d, 0) \/ r \in Aborts(d, 1)
  <2>1. r.dec = [d EXCEPT !.at = d.fetched, !.state = "ABORTED"]
    BY <1>4 DEF Aborts
  <2>2. r.dec.fetched = d.fetched
    BY <2>1 DEF Fields
  <2> QED
    BY <1>1, <2>2 DEF Within
<1>5. r \in Reached(d, q) \/ r \in RunsOut(d) \/ r \in Aborts(d, 0) \/ r \in Aborts(d, 1)
  BY DEF Reach
<1> QED
  BY <1>2, <1>3, <1>4, <1>5

LEMMA FaultedLive ==
    ASSUME PassTyped, NEW n \in {0, 1}, Faulted(n)
    PROVE  /\ Pass'.moved = Pass.moved /\ Pass'.frames = Pass.frames
           /\ ~Pass'.faulty => ~Pass.faulty /\ n = 0
<1> DEFINE faulty == history.pass.faulty \/ n > 0
           faults == history.faults + n
<1>1. history' = [history EXCEPT !.faults = faults,
                                 !.pass = [history.pass EXCEPT !.faulty = faulty]]
  BY DEF Faulted
<1>2. ~faulty => ~Pass.faulty /\ n = 0
  BY DEF Pass
<1> HIDE DEF faulty, faults
<1>3. Pass'.moved = Pass.moved /\ Pass'.frames = Pass.frames /\ Pass'.faulty = faulty
  BY <1>1 DEF PassTyped, Pass
<1> QED
  BY <1>2, <1>3

(* A pass that is still as it was begun, and a step that leaves it so.     *)
Standing ==
    /\ Sane /\ Gathered(dec, Pass.frames) /\ dec.seeking = FALSE /\ Fields(dec)
    /\ file.length \in Nat

Unharmed == Undisturbed(file) /\ ~Pass'.moved /\ ~Pass'.faulty

LEMMA StandsSo ==
    ASSUME Inv, Local, Undisturbed(file), ~Pass.moved, ~Pass.faulty
    PROVE  Standing
<1>1. WellFormed(file)
  BY FilesAssumption DEF Inv, Told
<1>2. Sane /\ file.length \in Nat
  BY <1>1 DEF Sane, WellFormed, Undisturbed
<1>3. dec.seeking = FALSE /\ Fields(dec)
  BY DEF Inv, IInv, Fields, Told, Summed
<1> QED
  BY <1>2, <1>3 DEF Local, Standing

LEMMA Stands ==
    ASSUME Inv, Local, Unharmed, NEW n \in {0, 1}, Faulted(n)
    PROVE  Standing /\ n = 0 /\ Pass'.frames = Pass.frames
<1>1. Pass'.frames = Pass.frames /\ ~Pass.moved /\ ~Pass.faulty /\ n = 0
  BY FaultedLive DEF Inv, Told, Unharmed
<1> QED
  BY <1>1, StandsSo DEF Unharmed

(* What the reader does in such a pass.                                    *)
LEMMA ReachLive ==
    ASSUME Standing, NEW q \in Int, NEW r \in Reach(dec, q), r.ok \/ r.fault = 0
    PROVE  SameSignal(dec, r.dec) /\ Within(r.dec) /\ Arrives(dec, q, r)
<1>1. Fields(dec) /\ Within(dec) /\ dec.seeking = FALSE /\ file.length \in Nat
  BY DEF Standing, Gathered
<1> QED
  BY <1>1, ReachSound, ReachWithin

LEMMA StillLocal ==
    ASSUME file' = file, Unharmed => Gathered(dec', Pass'.frames)
    PROVE  Local'
BY DEF Local, Gathered, Within, AtEdge, AtFrame, SignalLeft, AllDecoded, Total, Pass, Unharmed

(* The end of the stream is where nothing whole is left; anywhere else the *)
(* decoder stands right.                                                   *)
LEMMA AtTheEnd ==
    ASSUME NEW d, d.state = "END_OF_STREAM", Within(d), NEW frames, Entire(file) \subseteq frames
    PROVE  Gathered(d, frames)
BY DEF Gathered, Searching, MetadataStates, SignalLeft

LEMMA GoesTo ==
    ASSUME NEW d, NEW frames, Gathered(d, frames), NEW e, Within(e),
           e.samplesDecoded = d.samplesDecoded, e.hasInfo = d.hasInfo, e.info = d.info,
           e.state \in MetadataStates => d.state \in MetadataStates,
           e.state # "END_OF_STREAM",
           e.state \in Searching => AtEdge(e.at, frames),
           e.state = "READ_FRAME" => e.sync # {} /\ \A m \in e.sync : AtFrame(m, frames)
    PROVE  Gathered(e, frames)
BY DEF Gathered, SignalLeft, AllDecoded, Total

(* What begins first behind the edge.                                      *)
LEMMA NearestFirst ==
    ASSUME Sane, NEW frames, NEW p, AtEdge(p, frames), NEW kinds, "frame" \in kinds,
           NEW m \in Nearest(kinds, p)
    PROVE  /\ m \in file.items /\ m.kind \in kinds /\ m.at \in Nat /\ m.size \in Nat
           /\ Ends(m) = m.at + m.size
           /\ \A x \in Entire(file) : x \in frames \/ m.at <= x.at
<1>1. m \in file.items /\ m.kind \in kinds /\ m.at \in Nat /\ m.size \in Nat
  BY DEF Nearest, Sane, SideBySide
<1>2. ASSUME NEW x \in Entire(file), x \notin frames PROVE m.at <= x.at
  <2>1. x \in file.items /\ x.kind = "frame" /\ x.at \in Nat
    BY EntireOnes
  <2>2. x.at >= p
    BY <1>2, <2>1 DEF AtEdge
  <2> QED
    BY <2>1, <2>2 DEF Nearest
<1> QED
  BY <1>1, <1>2 DEF Ends

(* When the file ends within the next piece, nothing whole is left.        *)
LEMMA FrameCut ==
    ASSUME Sane, NEW frames, NEW p, AtEdge(p, frames), NEW kinds, "frame" \in kinds,
           NEW m \in Nearest(kinds, p), ~(m.at + 2 <= file.length)
    PROVE  Entire(file) \subseteq frames
<1>1. m.at + 2 \in Nat
  BY NearestFirst
<1>2. ASSUME NEW x \in Entire(file), x \notin frames PROVE m.at + 2 <= Ends(x)
  <2>1. m.at <= x.at /\ m.at \in Nat
    BY <1>2, NearestFirst
  <2>2. x.at \in Nat /\ x.size \in Nat /\ 2 <= x.size /\ Ends(x) = x.at + x.size
    BY EntireOnes
  <2> QED
    BY <2>1, <2>2
<1> QED
  BY <1>1, <1>2, NothingLeft

LEMMA EdgeCut ==
    ASSUME Sane, NEW frames, NEW p, AtEdge(p, frames), ~(p <= file.length)
    PROVE  Entire(file) \subseteq frames
<1>1. p \in Nat
  BY DEF AtEdge
<1>2. ASSUME NEW x \in Entire(file), x \notin frames PROVE p <= Ends(x)
  <2>1. p <= x.at
    BY <1>2 DEF AtEdge
  <2>2. x.at \in Nat /\ x.size \in Nat /\ Ends(x) = x.at + x.size
    BY EntireOnes
  <2> QED
    BY <1>1, <2>1, <2>2
<1> QED
  BY <1>1, <1>2, NothingLeft

LEMMA NoneFound ==
    ASSUME Sane, NEW frames, NEW p, AtEdge(p, frames), NEW kinds, "frame" \in kinds,
           Nearest(kinds, p) = {}
    PROVE  Entire(file) \subseteq frames
<1>1. ASSUME NEW x \in Entire(file), x \notin frames PROVE FALSE
  <2>1. x \in file.items /\ x.kind = "frame" /\ x.at \in Nat /\ SideBySide(file)
    BY EntireOnes DEF Sane
  <2>2. x.at >= p
    BY <1>1, <2>1 DEF AtEdge
  <2> QED
    BY <2>1, <2>2, NearestOnes
<1> QED
  BY <1>1

(* The search for the metadata.                                            *)
LEMMA FindMetadataLocal ==
    ASSUME Inv, Local, FindMetadata, Unharmed
    PROVE  Gathered(dec', Pass'.frames)
<1> DEFINE marks == Nearest(Marks, dec.at)
           frames == Pass.frames
           Steady == Standing /\ Pass'.frames = frames /\ AtEdge(dec.at, frames)
<1>1. dec.state = "SEARCH_FOR_METADATA"
  BY DEF FindMetadata, InState
<1>2. ASSUME NEW n \in {0, 1}, Faulted(n) PROVE Steady /\ n = 0
  <2>1. Standing /\ n = 0 /\ Pass'.frames = frames
    BY <1>2, Stands
  <2> QED
    BY <1>1, <2>1 DEF Standing, Gathered, Searching, MetadataStates
<1>3. ASSUME Steady, Within(dec'), dec'.state = "END_OF_STREAM", Entire(file) \subseteq frames
      PROVE  Gathered(dec', Pass'.frames)
  BY <1>3, AtTheEnd
<1>4. ASSUME Steady, NEW e, SameSignal(dec, e), Within(e), dec' = e, e.state = "SEARCH_FOR_METADATA",
             AtEdge(e.at, frames)
      PROVE  Gathered(dec', Pass'.frames)
  <2>1. Gathered(dec, frames)
    BY <1>4 DEF Standing
  <2>2. Gathered(e, frames)
    BY <1>1, <1>4, <2>1, GoesTo DEF SameSignal
  <2> QED
    BY <1>4, <2>2
<1>4a. Steady => Gathered(dec, frames)
  BY DEF Standing
<1> HIDE DEF frames
<1>5. CASE marks = {}
  <2>1. PICK r \in Reach(dec, BeyondEnd) : dec' = r.dec /\ Faulted(r.fault)
    BY <1>5 DEF FindMetadata, Marks
  <2>2. r.fault \in {0, 1}
    BY ReachSound DEF Inv, IInv
  <2>3. Steady /\ r.fault = 0
    BY <1>2, <2>1, <2>2
  <2>4. file.length \in Nat /\ BeyondEnd \in Int /\ ~(BeyondEnd <= file.length)
    BY <2>3 DEF Standing, BeyondEnd
  <2>5. SameSignal(dec, r.dec) /\ Within(r.dec) /\ Arrives(dec, BeyondEnd, r)
    BY <2>3, <2>4, ReachLive
  <2>6. ~r.ok /\ r.dec.state = "END_OF_STREAM"
    <3>1. dec.fetched \in Int /\ dec.fetched <= file.length
      BY <2>3 DEF Standing, Gathered, Within
    <3>2. ~(BeyondEnd <= dec.fetched)
      BY <2>4, <3>1
    <3> QED
      BY <2>4, <2>5, <3>2 DEF Arrives
  <2>7. Entire(file) \subseteq frames
    BY <1>5, <2>3, NoneFound DEF Standing, Marks
  <2> QED
    BY <1>3, <2>1, <2>3, <2>5, <2>6, <2>7
<1>6. CASE marks # {}
  <2> DEFINE reach(m) == IF m.kind \in {"magic", "tag"} THEN Ends(m) ELSE m.at + 2
             Found(m, r) ==
                 \/ ~r.ok /\ dec' = r.dec /\ Faulted(r.fault)
                 \/ r.ok /\ m.kind = "magic" /\ Faulted(r.fault)
                    /\ dec' = [r.dec EXCEPT !.state = "READ_METADATA"]
                 \/ r.ok /\ m.kind \in {"frame", "fake"} /\ Faulted(r.fault)
                    /\ dec' = [r.dec EXCEPT !.state = "READ_FRAME", !.sync = {m}]
                 \/ r.ok /\ m.kind = "tag" /\ Faulted(r.fault) /\ dec' = r.dec
                 \/ /\ r.ok /\ m.kind = "tag"
                    /\ \E s \in Reach(r.dec, Ends(m) + 1) : dec' = s.dec /\ Faulted(s.fault)
  <2>1. PICK m \in marks : \E r \in Reach(dec, reach(m)) : Found(m, r)
    <3>1. PICK m \in marks : \E r \in Reach(dec, reach(m)) :
             CASE ~r.ok -> dec' = r.dec /\ Faulted(r.fault) /\ Leave(FALSE)
               [] r.ok /\ m.kind = "magic" ->
                      /\ dec' = [r.dec EXCEPT !.state = "READ_METADATA"]
                      /\ Faulted(r.fault) /\ Continue
               [] r.ok /\ m.kind \in {"frame", "fake"} ->
                      /\ dec' = [r.dec EXCEPT !.state = "READ_FRAME", !.sync = {m}]
                      /\ Faulted(r.fault) /\ Continue
               [] r.ok /\ m.kind = "tag" ->
                      IF \E x \in file.items : x.kind = "magic" /\ x.at = Ends(m)
                      THEN dec' = r.dec /\ Faulted(r.fault) /\ Continue
                      ELSE \E s \in Reach(r.dec, Ends(m) + 1) :
                               dec' = s.dec /\ Faulted(s.fault) /\ Leave(FALSE)
      BY <1>6 DEF FindMetadata, Marks
    <3>2. m.kind \in Marks
      BY DEF Nearest
    <3> QED
      BY <3>1, <3>2 DEF Marks
  <2>2. PICK r \in Reach(dec, reach(m)) : Found(m, r)
    BY <2>1
  <2>3. Fields(dec) /\ SameSignal(dec, r.dec) /\ r.fault \in {0, 1}
    BY ReachSound DEF Inv, IInv
  <2>4. Steady /\ (r.ok \/ r.fault = 0)
    <3>1. \E n \in {0, 1} : Faulted(n)
      <4>1. CASE \E s \in Reach(r.dec, Ends(m) + 1) : Faulted(s.fault)
        <5>1. PICK s \in Reach(r.dec, Ends(m) + 1) : Faulted(s.fault)
          BY <4>1
        <5>2. Fields(r.dec)
          BY <2>3 DEF SameSignal
        <5>3. s.fault \in {0, 1}
          BY <5>2, ReachSound
        <5> QED
          BY <5>1, <5>3
      <4>2. CASE Faulted(r.fault)
        BY <2>3, <4>2
      <4>3. Faulted(r.fault) \/ \E s \in Reach(r.dec, Ends(m) + 1) : Faulted(s.fault)
        BY <2>2 DEF Found
      <4> QED
        BY <4>1, <4>2, <4>3
    <3>2. Steady
      BY <1>2, <3>1
    <3>3. Faulted(r.fault) => r.fault = 0
      BY <1>2, <2>3
    <3> QED
      BY <2>2, <3>2, <3>3
  <2>5. /\ m \in file.items /\ m.kind \in Marks /\ m.at \in Nat /\ m.size \in Nat
        /\ Ends(m) = m.at + m.size
        /\ \A x \in Entire(file) : x \in frames \/ m.at <= x.at
    BY <2>4, NearestFirst DEF Standing, Marks
  <2>6. reach(m) \in Int /\ Ends(m) + 1 \in Int
    BY <2>5
  <2>7. Within(r.dec) /\ Arrives(dec, reach(m), r)
    BY <2>4, <2>6, ReachLive
  <2>8. m.kind \in {"magic", "tag"} => AtEdge(Ends(m), frames)
    BY <2>4, <2>5, BehindPiece DEF Standing
  <2>9. CASE ~r.ok
    <3>1. dec' = r.dec /\ r.dec.state = "END_OF_STREAM" /\ ~(reach(m) <= file.length)
      BY <2>2, <2>7, <2>9 DEF Arrives
    <3>2. CASE m.kind \in {"magic", "tag"}
      BY <1>3, <2>4, <2>7, <2>8, <3>1, <3>2, EdgeCut DEF Standing
    <3>3. CASE m.kind \notin {"magic", "tag"}
      <4>1. Entire(file) \subseteq frames
        BY <2>1, <2>4, <3>1, <3>3, FrameCut DEF Standing, Marks
      <4> QED
        BY <1>3, <2>4, <2>7, <3>1, <4>1
    <3> QED
      BY <3>2, <3>3
  <2>10. CASE r.ok /\ dec' = [r.dec EXCEPT !.state = "READ_METADATA"] /\ m.kind = "magic"
    <3>1. r.dec.at = Ends(m) /\ AtEdge(Ends(m), frames)
      BY <2>7, <2>8, <2>10 DEF Arrives
    <3>2. /\ dec'.state = "READ_METADATA" /\ dec'.at = Ends(m) /\ Within(dec')
          /\ dec'.samplesDecoded = dec.samplesDecoded /\ dec'.hasInfo = dec.hasInfo
          /\ dec'.info = dec.info
      BY <2>3, <2>7, <2>10, <3>1 DEF SameSignal, Fields, Within
    <3> QED
      BY <1>1, <1>4a, <2>4, <3>1, <3>2, GoesTo DEF MetadataStates
  <2>11. CASE r.ok /\ m.kind \in {"frame", "fake"}
              /\ dec' = [r.dec EXCEPT !.state = "READ_FRAME", !.sync = {m}]
    <3>1. AtFrame(m, frames)
      BY <2>1, <2>4, <2>11, FoundFrame DEF Standing, Marks
    <3>2. /\ dec'.state = "READ_FRAME" /\ dec'.sync = {m} /\ Within(dec')
          /\ dec'.samplesDecoded = dec.samplesDecoded /\ dec'.hasInfo = dec.hasInfo
          /\ dec'.info = dec.info
      BY <2>3, <2>7, <2>11 DEF SameSignal, Fields, Within
    <3> QED
      BY <1>4a, <2>4, <3>1, <3>2, GoesTo DEF Searching, MetadataStates
  <2>12. CASE r.ok /\ m.kind = "tag"
    <3>1. r.dec.at = Ends(m) /\ r.dec.state = "SEARCH_FOR_METADATA" /\ AtEdge(Ends(m), frames)
      BY <1>1, <2>7, <2>8, <2>12 DEF Arrives
    <3>2. CASE dec' = r.dec
      BY <1>4, <2>3, <2>4, <2>7, <3>1, <3>2
    <3>3. CASE \E s \in Reach(r.dec, Ends(m) + 1) : dec' = s.dec /\ Faulted(s.fault)
      <4>1. PICK s \in Reach(r.dec, Ends(m) + 1) : dec' = s.dec /\ Faulted(s.fault)
        BY <3>3
      <4>2. Fields(r.dec) /\ r.dec.seeking = FALSE /\ file.length \in Nat
        BY <2>3, <2>4 DEF SameSignal, Standing
      <4>3. SameSignal(r.dec, s.dec) /\ s.fault \in {0, 1}
        BY <4>2, ReachSound
      <4>4. s.fault = 0
        BY <1>2, <4>1, <4>3
      <4>5. Arrives(r.dec, Ends(m) + 1, s)
        BY <4>2, <4>4, ReachSound
      <4>6. Within(s.dec)
        BY <2>6, <2>7, <4>2, ReachWithin
      <4>7. AtEdge(Ends(m) + 1, frames)
        BY <2>4, <2>5, <2>12, <3>1, BehindTag DEF Standing
      <4>8. SameSignal(dec, s.dec)
        BY <2>3, <4>3 DEF SameSignal
      <4>9. CASE s.ok
        <5>1. s.dec.at = Ends(m) + 1 /\ s.dec.state = "SEARCH_FOR_METADATA"
          BY <3>1, <4>5, <4>9 DEF Arrives
        <5> QED
          BY <1>4, <2>4, <4>1, <4>6, <4>7, <4>8, <5>1
      <4>10. CASE ~s.ok
        <5>1. s.dec.state = "END_OF_STREAM" /\ ~(Ends(m) + 1 <= file.length)
          BY <4>5, <4>10 DEF Arrives
        <5>2. Entire(file) \subseteq frames
          BY <2>4, <4>7, <5>1, EdgeCut DEF Standing
        <5> QED
          BY <1>3, <2>4, <4>1, <4>6, <5>1, <5>2
      <4> QED
        BY <4>9, <4>10
    <3> QED
      BY <2>2, <2>12, <3>2, <3>3
  <2> QED
    BY <2>2, <2>9, <2>10, <2>11, <2>12
<1> QED
  BY <1>5, <1>6

(* A block of metadata.                                                    *)
LEMMA BlockLocal ==
    ASSUME NEW d, Fields(d), NEW block, NEW told
    PROVE  LET read == BlockRead(d, block)
           IN  \A e \in {read, LastBlock(read, told)} :
                  /\ e.fetched = d.fetched /\ e.samplesDecoded = d.samplesDecoded
                  /\ e.at = d.at
<1> DEFINE read == BlockRead(d, block)
           first == IF told THEN read.at ELSE 0
           last == LastBlock(read, told)
<1>1. /\ Fields(read) /\ read.fetched = d.fetched /\ read.at = d.at
      /\ read.samplesDecoded = d.samplesDecoded
  <2>1. CASE block.kind = "info"
    <3> DEFINE md5 == d.md5 /\ block.info.md5 # "none"
    <3>1. read = [d EXCEPT !.hasInfo = TRUE, !.info = block.info, !.md5 = md5]
      BY <2>1 DEF BlockRead
    <3>2. md5 \in BOOLEAN
      OBVIOUS
    <3> HIDE DEF md5, read
    <3> QED
      BY <2>1, <3>1, <3>2 DEF Fields
  <2>2. CASE block.kind = "table"
    <3>1. read = [d EXCEPT !.hasTable = TRUE, !.points = block.points]
      BY <2>2 DEF BlockRead
    <3> HIDE DEF read
    <3> QED
      BY <3>1 DEF Fields
  <2>3. CASE block.kind \notin {"info", "table"}
    BY <2>3 DEF BlockRead
  <2> QED
    BY <2>1, <2>2, <2>3
<1>2. last = [read EXCEPT !.firstFrame = first, !.state = "SEARCH_FOR_FRAME_SYNC"]
  BY DEF LastBlock
<1> HIDE DEF read, first, last
<1>3. /\ last.fetched = read.fetched /\ last.at = read.at
      /\ last.samplesDecoded = read.samplesDecoded
  BY <1>1, <1>2 DEF Fields
<1>4. \A e \in {read, last} :
         /\ e.fetched = d.fetched /\ e.samplesDecoded = d.samplesDecoded /\ e.at = d.at
  BY <1>1, <1>3
<1> QED
  BY <1>4 DEF read, last

LEMMA ReadMetadataLocal ==
    ASSUME Inv, Local, ReadMetadata, Unharmed
    PROVE  Gathered(dec', Pass'.frames)
<1> DEFINE frames == Pass.frames
           Steady == /\ Standing /\ Pass'.frames = frames /\ AtEdge(dec.at, frames)
                     /\ dec.samplesDecoded = 0
<1>1. dec.state = "READ_METADATA" /\ Fields(dec)
  BY DEF ReadMetadata, InState, Inv, IInv
<1>2. ASSUME NEW n \in {0, 1}, Faulted(n) PROVE Steady /\ n = 0
  <2>1. Standing /\ n = 0 /\ Pass'.frames = frames
    BY <1>2, Stands
  <2> QED
    BY <1>1, <2>1 DEF Standing, Gathered, Searching, MetadataStates
<1>3. ASSUME Steady, Within(dec'), dec'.state = "END_OF_STREAM", Entire(file) \subseteq frames
      PROVE  Gathered(dec', Pass'.frames)
  BY <1>3, AtTheEnd
<1> HIDE DEF frames
<1> DEFINE Outcome(block, r) ==
               IF ~r.ok THEN dec' = r.dec /\ Faulted(r.fault)
               ELSE \E p \in Positions(r.dec) :
                        /\ dec' = (IF block.last
                                   THEN LastBlock(BlockRead(r.dec, block), p.ok)
                                   ELSE BlockRead(r.dec, block))
                        /\ Faulted(p.fault)
<1>4a. PICK block \in file.items :
          /\ block.kind \in Metadata /\ block.at = dec.at
          /\ \E r \in Reach(dec, Ends(block)) : Outcome(block, r)
  BY DEF ReadMetadata
<1>4. PICK r \in Reach(dec, Ends(block)) :
         block.kind \in Metadata /\ block.at = dec.at /\ Outcome(block, r)
  BY <1>4a
<1>5. SameSignal(dec, r.dec) /\ r.fault \in {0, 1} /\ \A p \in Positions(r.dec) : p.fault \in {0, 1}
  <2>1. ASSUME NEW p \in Positions(r.dec) PROVE p.fault \in {0, 1}
    <3>1. p \in {[ok |-> FALSE, fault |-> 0], [ok |-> TRUE, fault |-> 0], [ok |-> FALSE, fault |-> 1]}
      BY <2>1 DEF Positions
    <3> QED
      BY <3>1
  <2> QED
    BY <1>1, <2>1, ReachSound
<1>6. Steady /\ (r.ok \/ r.fault = 0)
  BY <1>2, <1>4, <1>5
<1>7. /\ block.at \in Nat /\ block.size \in Nat /\ Ends(block) \in Int
      /\ block.kind \notin {"frame", "fake"}
  BY <1>4, <1>6 DEF Standing, Sane, SideBySide, Ends, Metadata
<1>8. Within(r.dec) /\ Arrives(dec, Ends(block), r)
  BY <1>6, <1>7, ReachLive
<1>9. \A x \in Entire(file) : x \in frames \/ block.at <= x.at
  BY <1>4, <1>6 DEF AtEdge
<1>10. AtEdge(Ends(block), frames)
  BY <1>4, <1>6, <1>7, <1>9, BehindPiece DEF Standing
<1>11. CASE ~r.ok
  <2>1. dec' = r.dec /\ r.dec.state = "END_OF_STREAM" /\ ~(Ends(block) <= file.length)
    BY <1>4, <1>8, <1>11 DEF Arrives
  <2>2. Entire(file) \subseteq frames
    BY <1>6, <1>10, <2>1, EdgeCut DEF Standing
  <2> QED
    BY <1>3, <1>6, <1>8, <2>1, <2>2
<1>12. CASE r.ok
  <2>1. PICK p : dec' = (IF block.last THEN LastBlock(BlockRead(r.dec, block), p.ok)
                         ELSE BlockRead(r.dec, block))
    BY <1>4, <1>12
  <2>2. Fields(r.dec) /\ r.dec.at = Ends(block) /\ r.dec.state = "READ_METADATA"
    BY <1>1, <1>5, <1>8, <1>12 DEF SameSignal, Arrives
  <2>3. /\ dec'.fetched = r.dec.fetched /\ dec'.samplesDecoded = 0 /\ dec'.at = Ends(block)
    BY <1>5, <1>6, <2>1, <2>2, BlockLocal DEF SameSignal
  <2>4. dec'.state \in {"READ_METADATA", "SEARCH_FOR_FRAME_SYNC"}
    BY <2>1, <2>2, BlockReadDone, LastBlockDone
  <2>5. Within(dec')
    BY <1>8, <2>3 DEF Within
  <2>6. SignalLeft(dec', frames)
    <3>1. dec'.hasInfo => \E x \in Infos(file) : dec'.info = x.info
      BY ReadMetadataStep DEF Inv, Told, Known, ReadMetadata
    <3>2. \A x \in Infos(file) : x.info.total \in Nat
      BY <1>6 DEF Standing, Sane, Undisturbed
    <3>3. ~AllDecoded(dec')
      BY <2>3, <3>1, <3>2 DEF AllDecoded, Total
    <3> QED
      BY <3>3 DEF SignalLeft
  <2>7. Gathered(dec', frames)
    BY <1>10, <2>3, <2>4, <2>5, <2>6 DEF Gathered
  <2> QED
    BY <1>6, <2>7
<1> QED
  BY <1>11, <1>12

(* The search for the next frame.                                          *)
LEMMA FrameSyncLocal ==
    ASSUME Inv, Local, FrameSync, Unharmed
    PROVE  Gathered(dec', Pass'.frames)
<1> DEFINE frames == Pass.frames
           Steady == Standing /\ Pass'.frames = frames /\ AtEdge(dec.at, frames)
<1>1. dec.state = "SEARCH_FOR_FRAME_SYNC" /\ Fields(dec)
  BY DEF FrameSync, InState, Inv, IInv
<1>2. ASSUME NEW n \in {0, 1}, Faulted(n) PROVE Steady /\ n = 0
  <2>1. Standing /\ n = 0 /\ Pass'.frames = frames
    BY <1>2, Stands
  <2> QED
    BY <1>1, <2>1 DEF Standing, Gathered, Searching
<1>3. ASSUME Steady, Within(dec'), dec'.state = "END_OF_STREAM", Entire(file) \subseteq frames
      PROVE  Gathered(dec', Pass'.frames)
  BY <1>3, AtTheEnd
<1>4. CASE AllDecoded(dec)
  <2>1. dec' = [dec EXCEPT !.state = "END_OF_STREAM"] /\ history' = history
    BY <1>4 DEF FrameSync
  <2>2. Pass' = Pass /\ Undisturbed(file) /\ ~Pass.moved /\ ~Pass.faulty
    BY <2>1 DEF Pass, Unharmed
  <2>3. Standing
    BY <2>2, StandsSo
  <2>5. SignalLeft(dec, frames)
    BY <2>3 DEF Standing, Gathered
  <2>6. Entire(file) \subseteq frames
    BY <1>4, <2>5 DEF SignalLeft
  <2>7. dec'.state = "END_OF_STREAM" /\ dec'.fetched = dec.fetched
    BY <1>1, <2>1 DEF Fields
  <2>8. Within(dec')
    BY <2>3, <2>7 DEF Standing, Gathered, Within
  <2> QED
    BY <2>2, <2>6, <2>7, <2>8, AtTheEnd
<1>4a. Steady => Gathered(dec, frames)
  BY DEF Standing
<1>5. CASE ~AllDecoded(dec)
  <2> DEFINE kinds == {"frame", "fake"}
             syncs == Nearest(kinds, dec.at)
             reach == IF syncs = {} THEN BeyondEnd ELSE (CHOOSE m \in syncs : TRUE).at + 2
  <2> HIDE DEF frames
  <2>1. PICK r \in Reach(dec, reach) :
           /\ Faulted(r.fault)
           /\ IF r.ok THEN dec' = [r.dec EXCEPT !.state = "READ_FRAME", !.sync = syncs]
              ELSE dec' = r.dec
    BY <1>5 DEF FrameSync
  <2> HIDE DEF reach, syncs
  <2>2. SameSignal(dec, r.dec) /\ r.fault \in {0, 1}
    BY <1>1, ReachSound
  <2>3. Steady /\ r.fault = 0
    BY <1>2, <2>1, <2>2
  <2>4. CASE syncs = {}
    <3>1. Entire(file) \subseteq frames
      BY <2>3, <2>4, NoneFound DEF Standing, syncs
    <3>2. reach \in Int /\ ~(reach <= file.length) /\ file.length \in Nat
      BY <2>3, <2>4 DEF Standing, reach, BeyondEnd
    <3>3. Within(r.dec) /\ Arrives(dec, reach, r)
      BY <2>3, <3>2, ReachLive
    <3>4. dec.fetched \in Int /\ dec.fetched <= file.length
      BY <2>3 DEF Standing, Gathered, Within
    <3>5. ~(reach <= dec.fetched)
      BY <3>2, <3>4
    <3>6. ~r.ok /\ r.dec.state = "END_OF_STREAM"
      BY <3>2, <3>3, <3>5 DEF Arrives
    <3> QED
      BY <1>3, <2>1, <2>3, <3>1, <3>3, <3>6
  <2>5. CASE syncs # {}
    <3>1. PICK m \in syncs : reach = m.at + 2
      BY <2>5 DEF reach
    <3>2. \A n \in syncs : AtFrame(n, frames) /\ n.at \in Nat
      <4>1. \A n \in syncs : n.kind \in kinds
        BY DEF syncs, Nearest
      <4> QED
        BY <2>3, <4>1, FoundFrame DEF Standing, syncs
    <3>3. reach \in Int
      BY <3>1, <3>2
    <3>4. Within(r.dec) /\ Arrives(dec, reach, r)
      BY <2>3, <3>3, ReachLive
    <3>5. CASE ~r.ok
      <4>1. dec' = r.dec /\ r.dec.state = "END_OF_STREAM" /\ ~(m.at + 2 <= file.length)
        BY <2>1, <3>1, <3>4, <3>5 DEF Arrives
      <4>2. Entire(file) \subseteq frames
        BY <2>3, <3>1, <4>1, FrameCut DEF Standing, syncs
      <4> QED
        BY <1>3, <2>3, <3>4, <4>1, <4>2
    <3>6. CASE r.ok
      <4>1. dec' = [r.dec EXCEPT !.state = "READ_FRAME", !.sync = syncs]
        BY <2>1, <3>6
      <4>2. /\ dec'.state = "READ_FRAME" /\ dec'.sync = syncs /\ Within(dec')
            /\ dec'.samplesDecoded = dec.samplesDecoded /\ dec'.hasInfo = dec.hasInfo
            /\ dec'.info = dec.info
        BY <2>2, <3>4, <4>1 DEF SameSignal, Fields, Within
      <4> QED
        BY <1>4a, <2>3, <2>5, <3>2, <4>2, GoesTo DEF Searching, MetadataStates
    <3> QED
      BY <3>5, <3>6
  <2> QED
    BY <2>4, <2>5
<1> QED
  BY <1>4, <1>5

(* What becomes of a frame.                                                *)
(* The decoder behind a frame that it got, and the signal that is left.    *)
Gone(d, item) == d.samplesDecoded = Numbering(dec, item).sample + item.samples

LEMMA LeftBehind ==
    ASSUME Inv, Sane, NEW item \in dec.sync, NEW frames, AtFrame(item, frames),
           NEW got, frames \subseteq got, item \in got,
           item.damage \in {"none", "crc"},
           NEW d, Gone(d, item), d.hasInfo = dec.hasInfo, d.info = dec.info
    PROVE  SignalLeft(d, got)
<1>1. CASE ~dec.hasInfo
  BY <1>1 DEF SignalLeft, AllDecoded, Total
<1>2. CASE dec.hasInfo
  <2>1. item \in Syncs(file) /\ ~Inside(file, item.at) /\ Kept(file, item)
    BY DEF AtFrame, Sane, Undisturbed
  <2>2. d.samplesDecoded = NumberOf(file, item) + item.samples
    BY <1>2, <2>1, FilesAssumption, NumberSays DEF Gone, Inv, Told
  <2>3. PICK x \in Infos(file) : dec.info = x.info
    BY <1>2 DEF Inv, Told, Known
  <2>4. NumberOf(file, item) \in Nat /\ item.samples \in Nat /\ x.info.total \in Nat
    BY <2>1 DEF Sane, Numbered, Undisturbed, NumberOf
  <2>5. ASSUME NEW z \in Entire(file), z \notin got PROVE ~AllDecoded(d)
    <3>1. item.at < z.at
      BY <2>5 DEF AtFrame
    <3>2. x.info.total > 0 => NumberOf(file, item) + item.samples < x.info.total
      BY <2>1, <3>1 DEF Kept
    <3>3. d.info.total = x.info.total
      BY <2>3
    <3> QED
      BY <1>2, <2>2, <2>4, <3>2, <3>3 DEF AllDecoded, Total
  <2> QED
    BY <2>5 DEF SignalLeft
<1> QED
  BY <1>1, <1>2

LEMMA GotGone ==
    ASSUME NEW d, Fields(d), NEW item, NEW numbering
    PROVE  LET e == Got(d, item, numbering)
           IN  /\ Fields(e) /\ e.samplesDecoded = numbering.sample + item.samples
               /\ e.hasInfo = d.hasInfo /\ e.info = d.info /\ e.at = d.at
               /\ e.fetched = d.fetched /\ e.seeking = d.seeking
<1> DEFINE fixed == IF numbering.next # 0 THEN numbering.next ELSE d.fixed
           sum == numbering.sample + item.samples
           e == Got(d, item, numbering)
<1>1. e = [d EXCEPT !.nextFixed = numbering.next, !.sync = {}, !.fixed = fixed,
                    !.width = item.width, !.samplesDecoded = sum]
  BY DEF Got
<1> HIDE DEF fixed, sum, e
<1>2. /\ Fields(e) /\ e.samplesDecoded = sum /\ e.hasInfo = d.hasInfo /\ e.info = d.info
      /\ e.at = d.at /\ e.fetched = d.fetched /\ e.seeking = d.seeking
  BY <1>1 DEF Fields
<1> QED
  BY <1>2 DEF sum, e

LEMMA ResyncLeaves ==
    ASSUME NEW d, Fields(d)
    PROVE  LET e == Resync(d)
           IN  /\ e.samplesDecoded = d.samplesDecoded /\ e.hasInfo = d.hasInfo
               /\ e.info = d.info /\ e.at = d.at /\ e.fetched = d.fetched
               /\ e.state = "SEARCH_FOR_FRAME_SYNC"
BY DEF Resync, Fields

(* A frame that was got or written.                                        *)
LEMMA BehindGot ==
    ASSUME Inv, Standing, dec.state = "READ_FRAME", NEW item \in dec.sync,
           item.damage \in {"none", "crc"},
           NEW d, Gone(d, item), d.hasInfo = dec.hasInfo, d.info = dec.info,
           d.at = item.at + item.reads, Within(d), d.state = "SEARCH_FOR_FRAME_SYNC",
           NEW got, Pass.frames \subseteq got, item \in got
    PROVE  Gathered(d, got)
<1>1. Sane /\ AtFrame(item, Pass.frames)
  BY DEF Standing, Gathered
<1>2. AtEdge(d.at, got)
  BY <1>1, BehindFrame
<1>3. SignalLeft(d, got)
  BY <1>1, LeftBehind
<1> QED
  BY <1>2, <1>3 DEF Gathered, MetadataStates

(* A frame that is given up.                                               *)
LEMMA BehindDamaged ==
    ASSUME Inv, Standing, dec.state = "READ_FRAME", NEW item \in dec.sync,
           item.damage \notin {"none", "crc"},
           NEW d, d.samplesDecoded = dec.samplesDecoded, d.hasInfo = dec.hasInfo,
           d.info = dec.info, d.at = item.at + item.reads, Within(d),
           d.state = "SEARCH_FOR_FRAME_SYNC"
    PROVE  Gathered(d, Pass.frames)
<1>1. Sane /\ AtFrame(item, Pass.frames)
  BY DEF Standing, Gathered
<1>2. item \notin Entire(file)
  <2>1. SUFFICES ASSUME item \in Entire(file) PROVE FALSE
    OBVIOUS
  <2>2. item.damage = "none"
    BY <1>1, <2>1, EntireOnes
  <2> QED
    BY <2>2
<1>3. AtEdge(d.at, Pass.frames)
  BY <1>1, <1>2, BehindFrame
<1> QED
  BY <1>3, GoesTo DEF Standing, MetadataStates

(* A frame that the file ends in.                                          *)
LEMMA CutInFrame ==
    ASSUME Sane, NEW frames, NEW m, AtFrame(m, frames), ~(m.at + m.reads <= file.length)
    PROVE  Entire(file) \subseteq frames
<1>1. m \in file.items /\ m.at \in Nat /\ Kept(file, m)
  BY DEF AtFrame, Syncs, Sane, SideBySide, Undisturbed
<1>2. m \notin Entire(file)
  <2>1. SUFFICES ASSUME m \in Entire(file) PROVE FALSE
    OBVIOUS
  <2>2. m.at + m.reads <= file.length
    BY <2>1, EntireOnes
  <2> QED
    BY <2>2
<1>3. AtEdge(m.at + m.reads, frames)
  BY <1>2, BehindFrame
<1> QED
  BY <1>3, EdgeCut

(* What of a pass changes when a frame is skipped, and when it is written. *)
LEMMA SkippedLive ==
    ASSUME PassTyped, NEW S, history' = [history EXCEPT !.pass.frames = @ \cup S]
    PROVE  /\ Pass'.moved = Pass.moved /\ Pass'.faulty = Pass.faulty
           /\ Pass'.frames = Pass.frames \cup S
<1> DEFINE frames == history.pass.frames \cup S
<1>1. history' = [history EXCEPT !.pass = [history.pass EXCEPT !.frames = frames]]
  OBVIOUS
<1>2. frames = Pass.frames \cup S
  BY DEF Pass
<1> HIDE DEF frames
<1>3. Pass'.moved = Pass.moved /\ Pass'.faulty = Pass.faulty /\ Pass'.frames = frames
  BY <1>1 DEF PassTyped, Pass
<1> QED
  BY <1>2, <1>3

LEMMA WrittenLive ==
    ASSUME PassTyped, NEW d, NEW piece, Written(d, piece)
    PROVE  /\ Pass'.moved = Pass.moved /\ Pass'.frames = Pass.frames \cup dec.sync
           /\ ~Pass'.faulty => ~Pass.faulty /\ dec' = Resync(d)
<1>1. PICK fault \in {0, 1} :
          /\ history' = [history EXCEPT !.faults = @ + fault,
                                        !.pass.faulty = @ \/ fault > 0,
                                        !.pass.told = With(@, piece),
                                        !.pass.frames = @ \cup dec.sync]
          /\ fault = 0 => dec' = Resync(d)
  BY DEF Written
<1> DEFINE faulty == history.pass.faulty \/ fault > 0
           faults == history.faults + fault
           told == With(history.pass.told, piece)
           got == history.pass.frames \cup dec.sync
           pass == [history.pass EXCEPT !.faulty = faulty, !.told = told, !.frames = got]
<1>2. history' = [history EXCEPT !.faults = faults, !.pass = pass]
  BY <1>1
<1>3. got = Pass.frames \cup dec.sync /\ (~faulty => ~Pass.faulty /\ fault = 0)
  BY DEF Pass
<1> HIDE DEF faulty, faults, got, told
<1>4. pass.moved = Pass.moved /\ pass.frames = got /\ pass.faulty = faulty
  BY DEF PassTyped, Pass
<1> HIDE DEF pass
<1>5. Pass' = pass
  BY <1>2 DEF PassTyped, Pass
<1> QED
  BY <1>1, <1>3, <1>4, <1>5

(* What is written of a frame outside of a seek.                           *)
LEMMA WriteLeaves ==
    ASSUME PassTyped, NEW d, Fields(d), NEW item, NEW number, WriteAudioFrame(d, item, number)
    PROVE  /\ Pass'.moved = Pass.moved /\ (~Pass'.faulty => ~Pass.faulty)
           /\ ~d.seeking /\ ~Pass'.faulty =>
                 /\ Pass'.frames = Pass.frames \cup dec.sync
                 /\ dec'.samplesDecoded = d.samplesDecoded /\ dec'.hasInfo = d.hasInfo
                 /\ dec'.info = d.info /\ dec'.at = d.at /\ dec'.fetched = d.fetched
                 /\ dec'.state = "SEARCH_FOR_FRAME_SYNC"
<1> DEFINE sought == [d EXCEPT !.last = [sample |-> number, samples |-> item.samples]]
           piece == Piece(item, number, IF d.seeking THEN d.target ELSE number)
           landed == [sought EXCEPT !.seeking = FALSE,
                         !.last = [sample |-> piece.sample, samples |-> piece.samples]]
           summing == d.md5 /\ d.hasInfo
           sum == IF summing THEN With(d.sum, piece) ELSE d.sum
           told == [d EXCEPT !.md5 = summing, !.sum = sum]
<1>1. CASE d.seeking /\ Targeted(d, number, item)
  <2>1. Written(landed, piece)
    BY <1>1 DEF WriteAudioFrame
  <2> HIDE DEF landed, piece
  <2> QED
    BY <1>1, <2>1, WrittenLive
<1>2. CASE d.seeking /\ ~Targeted(d, number, item)
  <2>1. history' = history
    BY <1>2 DEF WriteAudioFrame
  <2> QED
    BY <1>2, <2>1 DEF Pass
<1>3. CASE ~d.seeking
  <2>1. Written(told, piece)
    BY <1>3 DEF WriteAudioFrame
  <2>2. summing \in BOOLEAN
    OBVIOUS
  <2> HIDE DEF summing, sum, piece
  <2>3. /\ Fields(told) /\ told.samplesDecoded = d.samplesDecoded /\ told.hasInfo = d.hasInfo
        /\ told.info = d.info /\ told.at = d.at /\ told.fetched = d.fetched
    BY <2>2 DEF Fields
  <2> HIDE DEF told
  <2>4. /\ Pass'.moved = Pass.moved /\ Pass'.frames = Pass.frames \cup dec.sync
        /\ ~Pass'.faulty => ~Pass.faulty /\ dec' = Resync(told)
    BY <2>1, WrittenLive
  <2> QED
    BY <2>3, <2>4, ResyncLeaves
<1> QED
  BY <1>1, <1>2, <1>3

LEMMA DamagedLeaves ==
    ASSUME NEW d, Fields(d), NEW item, NEW numbering, ReadDamaged(d, item, numbering)
    PROVE  /\ dec'.samplesDecoded = d.samplesDecoded /\ dec'.hasInfo = d.hasInfo
           /\ dec'.info = d.info /\ dec'.at = d.at /\ dec'.fetched = d.fetched
           /\ dec'.state = "SEARCH_FOR_FRAME_SYNC" /\ Faulted(0)
<1> DEFINE unparseable == IF d.seeking THEN d.unparseable + 1 ELSE d.unparseable
           refused == [d EXCEPT !.nextFixed = numbering.next, !.unparseable = unparseable]
           lost == [d EXCEPT !.nextFixed = numbering.next]
<1>1. Faulted(0) /\ (dec' = Resync(d) \/ dec' = Resync(refused) \/ dec' = Resync(lost))
  BY DEF ReadDamaged
<1> HIDE DEF unparseable
<1>2. \A e \in {d, refused, lost} :
         /\ Fields(e) /\ e.samplesDecoded = d.samplesDecoded /\ e.hasInfo = d.hasInfo
         /\ e.info = d.info /\ e.at = d.at /\ e.fetched = d.fetched
  BY DEF Fields
<1> HIDE DEF refused, lost
<1>3. PICK e \in {d, refused, lost} : dec' = Resync(e)
  BY <1>1
<1> QED
  BY <1>1, <1>2, <1>3, ResyncLeaves

LEMMA ReadFrameLocal ==
    ASSUME Inv, Local, ReadFrame, Unharmed
    PROVE  Gathered(dec', Pass'.frames)
<1>1. dec.state = "READ_FRAME" /\ Fields(dec) /\ PassTyped
  BY DEF ReadFrame, InState, Inv, IInv, Told
<1> DEFINE Judged(item) == item.damage \in {"none", "crc"}
           got(item, r) == Got(r.dec, item, Numbering(dec, item))
           Cut(item, r) == ~r.ok /\ dec' = r.dec /\ Faulted(r.fault)
           Lost(item, r) == r.ok /\ ~Judged(item) /\ ReadDamaged(r.dec, item, Numbering(dec, item))
           Skipped(item, r) ==
               /\ r.ok /\ Judged(item) /\ dec' = Resync(got(item, r))
               /\ history' = [history EXCEPT !.pass.frames = @ \cup {item}]
           Heard(item, r) ==
               /\ r.ok /\ Judged(item)
               /\ WriteAudioFrame(got(item, r), item, Numbering(dec, item).sample)
<1>2. PICK item \in dec.sync :
         \/ Faulted(1)
         \/ \E r \in Reach(dec, item.at + item.reads) :
               Cut(item, r) \/ Lost(item, r) \/ Skipped(item, r) \/ Heard(item, r)
  BY DEF ReadFrame
<1>3. CASE Faulted(1)
  <2>1. 1 \in {0, 1} /\ 1 # 0
    OBVIOUS
  <2> QED
    BY <1>3, <2>1, Stands
<1>4. CASE \E r \in Reach(dec, item.at + item.reads) :
              Cut(item, r) \/ Lost(item, r) \/ Skipped(item, r) \/ Heard(item, r)
  <2> HIDE DEF Cut, Lost, Skipped, Heard
  <2>1. PICK r \in Reach(dec, item.at + item.reads) :
               Cut(item, r) \/ Lost(item, r) \/ Skipped(item, r) \/ Heard(item, r)
    BY <1>4
  <2>2. SameSignal(dec, r.dec) /\ Fields(r.dec) /\ r.fault \in {0, 1}
    BY <1>1, ReachSound DEF SameSignal
  <2>3. ASSUME Standing, r.ok \/ r.fault = 0
        PROVE  /\ Within(r.dec) /\ Arrives(dec, item.at + item.reads, r)
               /\ AtFrame(item, Pass.frames) /\ Sane
    <3>1. AtFrame(item, Pass.frames) /\ Sane
      BY <1>1, <2>3 DEF Standing, Gathered
    <3>2. item.at + item.reads \in Int
      BY <3>1 DEF AtFrame, Syncs, Sane, SideBySide, Undisturbed, Kept
    <3> QED
      BY <2>3, <3>1, <3>2, ReachLive
  <2>4. /\ Fields(got(item, r)) /\ Gone(got(item, r), item)
        /\ got(item, r).hasInfo = dec.hasInfo /\ got(item, r).info = dec.info
        /\ got(item, r).at = r.dec.at /\ got(item, r).fetched = r.dec.fetched
        /\ got(item, r).seeking = dec.seeking
    BY <2>2, GotGone DEF SameSignal, Gone
  <2> HIDE DEF got
  <2>5. CASE Cut(item, r)
    <3>1. ~r.ok /\ dec' = r.dec /\ Faulted(r.fault)
      BY <2>5 DEF Cut
    <3>2. Standing /\ r.fault = 0 /\ Pass'.frames = Pass.frames
      BY <2>2, <3>1, Stands
    <3>3. r.dec.state = "END_OF_STREAM" /\ ~(item.at + item.reads <= file.length)
      BY <2>3, <3>1, <3>2 DEF Arrives
    <3>4. Entire(file) \subseteq Pass.frames
      BY <2>3, <3>2, <3>3, CutInFrame
    <3> QED
      BY <2>3, <3>1, <3>2, <3>3, <3>4, AtTheEnd
  <2>6. CASE Lost(item, r)
    <3>1. r.ok /\ ~Judged(item) /\ ReadDamaged(r.dec, item, Numbering(dec, item))
      BY <2>6 DEF Lost
    <3>2. /\ dec'.samplesDecoded = r.dec.samplesDecoded /\ dec'.hasInfo = r.dec.hasInfo
          /\ dec'.info = r.dec.info /\ dec'.at = r.dec.at /\ dec'.fetched = r.dec.fetched
          /\ dec'.state = "SEARCH_FOR_FRAME_SYNC" /\ Faulted(0)
      BY <2>2, <3>1, DamagedLeaves
    <3>3. Standing /\ Pass'.frames = Pass.frames
      BY <3>2, Stands
    <3>4. r.dec.at = item.at + item.reads /\ Within(dec')
      BY <2>3, <3>1, <3>2, <3>3 DEF Arrives, Within
    <3>5. item.damage \notin {"none", "crc"}
      BY <3>1
    <3> QED
      BY <1>1, <2>2, <3>2, <3>3, <3>4, <3>5, BehindDamaged DEF SameSignal
  <2> HIDE DEF Judged
  <2>7. CASE Skipped(item, r)
    <3>1. /\ r.ok /\ Judged(item) /\ dec' = Resync(got(item, r))
          /\ history' = [history EXCEPT !.pass.frames = @ \cup {item}]
      BY <2>7 DEF Skipped
    <3>2. /\ Pass'.moved = Pass.moved /\ Pass'.faulty = Pass.faulty
          /\ Pass'.frames = Pass.frames \cup {item}
      BY <1>1, <3>1, SkippedLive
    <3>3. Standing
      BY <3>2, StandsSo DEF Unharmed
    <3>4. /\ Gone(dec', item) /\ dec'.hasInfo = dec.hasInfo /\ dec'.info = dec.info
          /\ dec'.at = r.dec.at /\ dec'.fetched = r.dec.fetched
          /\ dec'.state = "SEARCH_FOR_FRAME_SYNC"
      BY <2>4, <3>1, ResyncLeaves DEF Gone
    <3>5. dec'.at = item.at + item.reads /\ Within(dec')
      BY <2>3, <3>1, <3>3, <3>4 DEF Arrives, Within
    <3>6. item.damage \in {"none", "crc"}
      BY <3>1 DEF Judged
    <3>7. Pass.frames \subseteq Pass'.frames /\ item \in Pass'.frames
      BY <3>2
    <3> QED
      BY <1>1, <3>3, <3>4, <3>5, <3>6, <3>7, BehindGot
  <2>8. CASE Heard(item, r)
    <3>1. /\ r.ok /\ Judged(item)
          /\ WriteAudioFrame(got(item, r), item, Numbering(dec, item).sample)
      BY <2>8 DEF Heard
    <3>2. Pass'.moved = Pass.moved /\ (~Pass'.faulty => ~Pass.faulty)
      BY <1>1, <2>4, <3>1, WriteLeaves
    <3>3. Standing
      BY <3>2, StandsSo DEF Unharmed
    <3>4. ~got(item, r).seeking /\ ~Pass'.faulty
      BY <2>4, <3>3 DEF Standing, Unharmed
    <3>5. /\ Pass'.frames = Pass.frames \cup dec.sync
          /\ dec'.samplesDecoded = got(item, r).samplesDecoded
          /\ dec'.hasInfo = got(item, r).hasInfo /\ dec'.info = got(item, r).info
          /\ dec'.at = got(item, r).at /\ dec'.fetched = got(item, r).fetched
          /\ dec'.state = "SEARCH_FOR_FRAME_SYNC"
      BY <1>1, <2>4, <3>1, <3>4, WriteLeaves
    <3>6. Gone(dec', item) /\ dec'.hasInfo = dec.hasInfo /\ dec'.info = dec.info
      BY <2>4, <3>5 DEF Gone
    <3>7. dec'.at = item.at + item.reads /\ Within(dec')
      BY <2>3, <2>4, <3>1, <3>3, <3>5 DEF Arrives, Within
    <3>8. item.damage \in {"none", "crc"}
      BY <3>1 DEF Judged
    <3>9. Pass.frames \subseteq Pass'.frames /\ item \in Pass'.frames
      BY <3>5
    <3> QED
      BY <1>1, <3>3, <3>5, <3>6, <3>7, <3>8, <3>9, BehindGot
  <2> QED
    BY <2>1, <2>5, <2>6, <2>7, <2>8
<1> QED
  BY <1>2, <1>3, <1>4

(* After an abort nothing is promised; a loop that ends leaves everything. *)
LEMMA ReadFrameStaleLocal ==
    ASSUME Inv, Local, ReadFrameStale, Unharmed
    PROVE  Gathered(dec', Pass'.frames)
<1>1. dec.state = "READ_FRAME" /\ dec.sync = {} /\ Fields(dec)
  BY DEF ReadFrameStale, InState, Inv, IInv
<1>2. PICK q : \E r \in Reach(dec, q) : Faulted(r.fault)
  BY DEF ReadFrameStale
<1>3. PICK r \in Reach(dec, q) : Faulted(r.fault)
  BY <1>2
<1>4. r.fault \in {0, 1}
  BY <1>1, ReachSound
<1>5. Standing
  BY <1>3, <1>4, Stands
<1> QED
  BY <1>1, <1>5 DEF Standing, Gathered

LEMMA StaysLocal ==
    ASSUME Local, UNCHANGED <<file, dec>>, Pass' = Pass
    PROVE  Local'
BY DEF Local, Gathered, Within, AtEdge, AtFrame, SignalLeft, AllDecoded, Total, Pass

(* A pass that was moved promises nothing; one that begins is at the start. *)
LEMMA MovedLocal == ASSUME Pass'.moved = TRUE PROVE Local'
BY DEF Local, Pass

LEMMA BegunLocal ==
    ASSUME file' \in Files, dec'.state = "SEARCH_FOR_METADATA", dec'.at = 0, dec'.fetched = 0,
           dec'.samplesDecoded = 0, dec'.hasInfo = FALSE
    PROVE  Local'
<1> SUFFICES ASSUME Undisturbed(file') PROVE Gathered(dec, Pass.frames)'
  BY DEF Local
<1>1. file'.length \in Nat /\ SideBySide(file')
  BY FilesAssumption DEF Undisturbed, WellFormed
<1>2. Within(dec)'
  BY <1>1 DEF Within
<1>3. \A z \in file'.items : z.at \in Nat /\ 0 <= z.at /\ ~(z.at < 0)
  BY <1>1 DEF SideBySide
<1>4. AtEdge(dec.at, Pass.frames)'
  BY <1>3 DEF AtEdge, Inside, Entire
<1>5. SignalLeft(dec, Pass.frames)'
  BY DEF SignalLeft, AllDecoded, Total
<1> QED
  BY <1>2, <1>4, <1>5 DEF Gathered, Searching, MetadataStates

(* The decoder that init and reset leave at the start of the file.         *)
LEMMA ResetStarts ==
    ASSUME NEW d, Fields(d)
    PROVE  LET e == ResetDone(Flushed(Given(d, 0)))
           IN  /\ e.state = "SEARCH_FOR_METADATA" /\ e.at = 0 /\ e.fetched = 0
               /\ e.samplesDecoded = 0 /\ e.hasInfo = FALSE
<1> DEFINE g == Given(d, 0)
           f == Flushed(g)
           e == ResetDone(f)
           table == f.hasTable /\ f.points = <<>>
<1>1. Fields(g) /\ g.fetched = 0
  BY DEF Given, Fields
<1> HIDE DEF g
<1>2. Fields(f) /\ f.fetched = 0 /\ f.at = 0 /\ f.samplesDecoded = 0
  BY <1>1 DEF Flushed, Fields
<1> HIDE DEF f
<1>3. e = [f EXCEPT !.state = "SEARCH_FOR_METADATA", !.hasInfo = FALSE,
                    !.hasTable = table, !.points = <<>>,
                    !.md5 = f.checking, !.sum = Nothing, !.fixed = 0,
                    !.nextFixed = 0, !.firstFrame = 0, !.unparseable = 0]
  BY DEF ResetDone
<1> HIDE DEF table, e
<1>4. /\ e.state = "SEARCH_FOR_METADATA" /\ e.at = 0 /\ e.fetched = 0
      /\ e.samplesDecoded = 0 /\ e.hasInfo = FALSE
  BY <1>2, <1>3 DEF Fields
<1> QED
  BY <1>4 DEF e, f, g

LEMMA ClientCallLocal ==
    ASSUME Inv, Local, ClientCall
    PROVE  Local'
<1>1. /\ Fields(dec) /\ PassTyped /\ file \in Files
      /\ {"moved", "told", "faulty", "frames"} \subseteq DOMAIN history.pass
      /\ history.pass.moved \in BOOLEAN
  BY DEF Inv, IInv, Told, PassTyped, Pass
<1>2. CASE InitDecoder
  <2>1. PICK f \in Files, checking \in Checks :
           /\ file' = f
           /\ dec' = ResetDone(Flushed(Given(
                        [dec EXCEPT !.checking = checking, !.seeking = FALSE], 0)))
    BY <1>2 DEF InitDecoder
  <2> DEFINE open == [dec EXCEPT !.checking = checking, !.seeking = FALSE]
  <2>2. checking \in BOOLEAN
    BY DecoderAssumption
  <2>3. Fields(open) /\ dec' = ResetDone(Flushed(Given(open, 0)))
    BY <1>1, <2>1, <2>2 DEF Fields
  <2> HIDE DEF open
  <2> QED
    BY <2>1, <2>3, ResetStarts, BegunLocal
<1>3. CASE Flush
  <2>1. Pass' = Moved
    BY <1>1, <1>3, PassesTyped, CalledPass DEF Flush
  <2> QED
    BY <1>1, <2>1, PassesTyped, MovedLocal
<1>4. CASE Reset
  <2>1. CASE dec' = ResetDone(Flushed(Given(dec, 0))) /\ file' = file
    BY <1>1, <2>1, ResetStarts, BegunLocal
  <2>2. CASE Called([NewPass EXCEPT !.moved = TRUE])
    BY <1>1, <2>2, PassesTyped, CalledPass, MovedLocal
  <2>3. CASE \E calls, faults :
                history' = [history EXCEPT !.calls = calls, !.pass = Moved, !.faults = faults]
    <3>1. history'.pass = Moved
      BY <1>1, <2>3 DEF PassTyped
    <3> QED
      BY <1>1, <3>1, PassesTyped, MovedLocal DEF Pass
  <2>4. \/ dec' = ResetDone(Flushed(Given(dec, 0))) /\ file' = file
        \/ Called([NewPass EXCEPT !.moved = TRUE])
        \/ \E calls, faults :
              history' = [history EXCEPT !.calls = calls, !.pass = Moved, !.faults = faults]
    BY <1>4 DEF Reset
  <2> QED
    BY <2>1, <2>2, <2>3, <2>4
<1>5. CASE Finish
  <2> DEFINE table == dec.hasTable /\ dec.points = <<>>
  <2>1. /\ file' = file /\ Pass' = Pass
        /\ dec' = [dec EXCEPT !.state = "UNINITIALIZED", !.seeking = FALSE,
                              !.checking = FALSE, !.sync = {},
                              !.hasTable = table, !.points = <<>>]
    BY <1>5 DEF Finish, Pass
  <2> HIDE DEF table
  <2>2. /\ dec'.state = "UNINITIALIZED" /\ dec'.fetched = dec.fetched
        /\ dec'.samplesDecoded = dec.samplesDecoded /\ dec'.hasInfo = dec.hasInfo
        /\ dec'.info = dec.info
    BY <1>1, <2>1 DEF Fields
  <2>3. ASSUME Unharmed PROVE Gathered(dec', Pass'.frames)
    <3>1. Gathered(dec, Pass.frames)
      BY <2>1, <2>3 DEF Local, Unharmed
    <3>2. Within(dec')
      BY <2>2, <3>1 DEF Gathered, Within
    <3>3. Gathered(dec', Pass.frames)
      BY <2>2, <3>1, <3>2, GoesTo DEF Searching, MetadataStates
    <3> QED
      BY <2>1, <3>3
  <2> QED
    BY <2>1, <2>3, StillLocal
<1>6. CASE \E op \in Loops : Process(op)
  <2>1. UNCHANGED <<file, dec>> /\ Called(Pass)
    BY <1>6 DEF Process, Pass
  <2> QED
    BY <1>1, <2>1, CalledPass, StaysLocal DEF Pass
<1>7. CASE \E target \in Targets : Seek(target)
  <2>1. PICK fault : history' = [history EXCEPT !.calls = @ + 1, !.faults = @ + fault,
                                    !.pass = [Moved EXCEPT !.faulty = @ \/ fault > 0]]
    BY <1>7 DEF Seek
  <2> DEFINE faulty == Moved.faulty \/ fault > 0
             calls == history.calls + 1
             faults == history.faults + fault
  <2>2. history' = [history EXCEPT !.calls = calls, !.faults = faults,
                                   !.pass = [Moved EXCEPT !.faulty = faulty]]
    BY <2>1
  <2> HIDE DEF faulty, calls, faults
  <2>3. Moved.moved = TRUE /\ "moved" \in DOMAIN Moved
    BY <1>1, PassesTyped
  <2>4. Pass'.moved = TRUE
    BY <1>1, <2>2, <2>3 DEF PassTyped, Pass
  <2> QED
    BY <2>4, MovedLocal
<1>8. CASE \E target \in Targets : SeekRefused(target)
  <2>1. UNCHANGED <<file, dec>> /\ Called(Pass)
    BY <1>8 DEF SeekRefused, Pass
  <2> QED
    BY <1>1, <2>1, CalledPass, StaysLocal DEF Pass
<1> QED
  BY <1>2, <1>3, <1>4, <1>5, <1>6, <1>7, <1>8 DEF ClientCall

(* While a seek is under way the pass has been moved.                      *)
LEMMA SeekLocal ==
    ASSUME Inv, SeekBounds \/ SeekAim \/ SeekLook
    PROVE  Local'
<1>1. PassTyped /\ Pass.moved = TRUE
  BY DEF Inv, Told, Summed, PassTyped, SeekBounds, SeekAim, SeekLook, Seeking
<1>2. (\E n : Faulted(n)) \/ history' = history
  BY DEF SeekBounds, SeekAim, SeekLook, SeekFails, SeekReturns
<1>3. SamePass
  BY <1>1, <1>2, FaultedPass, StillPass
<1> QED
  BY <1>1, <1>3, MovedLocal DEF SamePass

(* Every frame that is whole is got by the end of a pass that was neither  *)
(* moved nor failed, whatever is damaged before and after it.              *)
THEOREM DamageStaysLocal == Spec => []DamageIsLocal
<1>1. Init => Local
  <2> SUFFICES ASSUME Init PROVE Local
    OBVIOUS
  <2>1. /\ dec.state = "UNINITIALIZED" /\ dec.fetched = 0 /\ dec.samplesDecoded = 0
        /\ dec.hasInfo = FALSE
    BY DEF Init, NewDecoder
  <2>2. Undisturbed(file) => Within(dec)
    BY <2>1 DEF Undisturbed, Within
  <2>3. SignalLeft(dec, Pass.frames)
    BY <2>1 DEF SignalLeft, AllDecoded, Total
  <2> QED
    BY <2>1, <2>2, <2>3 DEF Local, Gathered, Searching, MetadataStates
<1>2. Inv /\ Local /\ [Next]_vars => Local'
  <2> SUFFICES ASSUME Inv, Local, [Next]_vars PROVE Local'
    OBVIOUS
  <2>1. CASE ClientCall
    BY <2>1, ClientCallLocal
  <2>2. CASE FindMetadata
    BY <2>2, FindMetadataLocal, StillLocal DEF FindMetadata
  <2>3. CASE ReadMetadata
    BY <2>3, ReadMetadataLocal, StillLocal DEF ReadMetadata
  <2>4. CASE FrameSync
    BY <2>4, FrameSyncLocal, StillLocal DEF FrameSync
  <2>5. CASE ReadFrame
    BY <2>5, ReadFrameLocal, StillLocal DEF ReadFrame
  <2>6. CASE ReadFrameStale
    BY <2>6, ReadFrameStaleLocal, StillLocal DEF ReadFrameStale
  <2>7. CASE LoopEnds
    BY <2>7, StaysLocal DEF LoopEnds, Pass
  <2>8. CASE SeekBounds \/ SeekAim \/ SeekLook
    BY <2>8, SeekLocal
  <2>9. CASE UNCHANGED vars
    BY <2>9, StaysLocal DEF vars, Pass
  <2> QED
    BY <2>1, <2>2, <2>3, <2>4, <2>5, <2>6, <2>7, <2>8, <2>9 DEF Next, Step
<1>3. Local => DamageIsLocal
  BY DEF Local, Gathered, DamageIsLocal, InState, Pass
<1> QED
  BY <1>1, <1>2, <1>3, InductiveInvariant, PTL DEF Spec
=============================================================================
