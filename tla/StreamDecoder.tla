---------------------------- MODULE StreamDecoder ----------------------------
(***************************************************************************)
(* The stream decoder of libFLAC (stream_decoder.c): it searches the       *)
(* metadata, then for every frame the sync code, and reads the frame; it   *)
(* recovers from damage by searching the next sync code; it seeks by       *)
(* guessing a position, decoding the frame it finds there and narrowing    *)
(* the bounds.  A file is given by what stands where: an item is a piece   *)
(* of it with its first byte and its size.  A "fake" item is a sync code   *)
(* that occurs by chance inside a frame.  What is inside a frame is the    *)
(* subject of FrameCoding; reading bits is that of BitReader.              *)
(***************************************************************************)
EXTENDS Integers, Sequences, FiniteSets, TLC

CONSTANTS
    Files,          \* the files to decode
    Targets,        \* samples the client seeks to
    Operations,     \* the calls the client makes
    Checks,         \* the values of set_md5_checking the client uses
    Chunk,          \* how many bytes the client's read callback gives at a time
    Patience,       \* unparseable frames a seek bears: 20 in the code
    Placeholder,    \* the sample number of a placeholder seek point
    MaxCalls,       \* bound: calls of the client, finish not counted
    MaxFaults       \* bound: callbacks and allocations that fail

(* What the format promises of a file, however damaged its frames are: the *)
(* pieces lie side by side, STREAMINFO comes once, and the numbers that    *)
(* frames have are those of their first samples, or count blocks of one    *)
(* size that STREAMINFO tells or, without it, the frame that comes first.  *)
(* When STREAMINFO tells of blocks of several sizes the numbers are those  *)
(* of samples, whatever the frames say of them.                            *)
Metadata == {"info", "table", "block"}
Ends(item) == item.at + item.size
Infos(f) == {x \in f.items : x.kind = "info"}
Syncs(f) == {x \in f.items : x.kind \in {"frame", "fake"}}

Variable(f) == \E x \in Infos(f) : x.info.minBlock # x.info.maxBlock

NumberOf(f, x) ==
    IF x.counts = "samples" \/ Variable(f) THEN x.number ELSE f.blocksize * x.number

SideBySide(f) ==
    /\ \A x \in f.items : x.at \in Nat /\ x.size \in Nat \ {0}
    /\ \A x, y \in f.items :
          (x.kind # "fake" /\ y.kind # "fake" /\ x # y /\ x.at <= y.at)
              => Ends(x) <= y.at

Numbered(f) ==
    /\ f.blocksize \in Nat \ {0}
    /\ \A x \in Syncs(f) :
          /\ x.counts \in {"samples", "frames"}
          /\ x.number \in Nat /\ x.start \in Nat /\ x.samples \in Nat
          /\ x.damage = "none" => x.start = NumberOf(f, x)
    /\ \A x \in Infos(f) :
          x.info.minBlock = x.info.maxBlock => x.info.maxBlock = f.blocksize

InfoFirst(f, info, magic) ==
    /\ info.kind = "info" /\ magic.kind = "magic" /\ magic.at < info.at
    /\ \A x \in Syncs(f) : info.at < x.at
    /\ \A x \in f.items : x.kind \in Metadata /\ x.at < info.at => ~x.last

FrameFirst(f, frame) ==
    /\ Infos(f) = {}
    /\ frame.kind = "frame" /\ frame.damage \in {"none", "crc"}
    /\ frame.counts = "frames" /\ frame.number = 0 /\ frame.samples = f.blocksize
    /\ \A x \in Syncs(f) \ {frame} : frame.at < x.at
    /\ \A x \in f.items : x.kind = "tag" => Ends(x) # frame.at

SamplesCounted(f) == \A x \in Syncs(f) : x.counts = "samples"

WellFormed(f) ==
    /\ SideBySide(f)
    /\ \A x, y \in Infos(f) : x = y
    /\ Numbered(f)
    /\ \/ SamplesCounted(f)
       \/ \E info, magic \in f.items : InfoFirst(f, info, magic)
       \/ \E frame \in f.items : FrameFirst(f, frame)

ASSUME FilesAssumption == \A f \in Files : WellFormed(f)

ASSUME DecoderAssumption ==
    /\ Chunk \in Nat \ {0} /\ Patience \in Nat /\ Placeholder \in Nat
    /\ Targets \subseteq Nat /\ Checks \subseteq BOOLEAN
    /\ MaxCalls \in Nat /\ MaxFaults \in Nat

VARIABLES
    file,       \* the file that is decoded
    dec,        \* the decoder: the fields of protected_ and private_
    call,       \* the call that is under way
    result,     \* what the last call returned
    heard,      \* what the write callback got during the call, or the last one
    history     \* counts against the bounds, and what became of this pass

vars == <<file, dec, call, result, heard, history>>

NoCall == [op |-> "none"]
Smaller(a, b) == IF a < b THEN a ELSE b

-----------------------------------------------------------------------------
(* Samples that follow each other from the first one, until some are not   *)
(* those of the signal: what the MD5 sum of them tells apart.              *)
Nothing == [samples |-> 0, intact |-> TRUE]

With(sum, piece) ==
    [samples |-> sum.samples + piece.samples,
     intact |-> sum.intact /\ piece.good /\ piece.true = sum.samples]

(* The decoder when it is created, and what init and reset leave of it.    *)
NewDecoder ==
    [state |-> "UNINITIALIZED", at |-> 0, fetched |-> 0, sync |-> {},
     hasInfo |-> FALSE,
     info |-> [total |-> 0, minBlock |-> 0, maxBlock |-> 0, minFrame |-> 0,
               maxFrame |-> 0, width |-> 0, md5 |-> "none"],
     hasTable |-> FALSE, points |-> <<>>, firstFrame |-> 0,
     samplesDecoded |-> 0, fixed |-> 0, nextFixed |-> 0, width |-> 0,
     seeking |-> FALSE, target |-> 0, last |-> [sample |-> 0, samples |-> 0],
     unparseable |-> 0, checking |-> FALSE, md5 |-> FALSE, sum |-> Nothing]

(* What became of the file since it was begun: "moved" is that the client  *)
(* flushed or sought, "frames" which frames it got, "told" the samples.    *)
NewPass == [moved |-> FALSE, faulty |-> FALSE, frames |-> {}, told |-> Nothing]

Init ==
    /\ file \in Files
    /\ dec = NewDecoder
    /\ call = NoCall
    /\ result = [op |-> "none", ok |-> TRUE]
    /\ heard = <<>>
    /\ history = [calls |-> 0, faults |-> 0, pass |-> NewPass]

(* flush forgets what was read ahead: the next byte is the one the client  *)
(* is about to give.                                                       *)
Flushed(d) ==
    [d EXCEPT !.samplesDecoded = 0, !.md5 = FALSE, !.at = d.fetched,
              !.sync = {}, !.state = "SEARCH_FOR_FRAME_SYNC"]

(* The seek callback: the next byte the client gives is at the position.   *)
Given(d, position) == [d EXCEPT !.fetched = position]

(* Faulty: the sum goes on from where it was.                              *)
ResetWithoutSum(d) ==
    [d EXCEPT !.state = "SEARCH_FOR_METADATA", !.hasInfo = FALSE,
              !.hasTable = @ /\ d.points = <<>>, !.points = <<>>,
              !.md5 = d.checking, !.fixed = 0, !.nextFixed = 0,
              !.firstFrame = 0, !.unparseable = 0]

(* reset after its rewind; a table without points is kept.                 *)
ResetDone(d) ==
    [d EXCEPT !.state = "SEARCH_FOR_METADATA", !.hasInfo = FALSE,
              !.hasTable = @ /\ d.points = <<>>, !.points = <<>>,
              !.md5 = d.checking, !.sum = Nothing, !.fixed = 0, !.nextFixed = 0,
              !.firstFrame = 0, !.unparseable = 0]

-----------------------------------------------------------------------------
(* Reading.  To reach byte q the reader asks the client for more when it   *)
(* has not been given that far.  Every way this can end is an outcome.     *)
Fetched(d, q) ==
    Smaller(file.length, d.fetched + Chunk * ((q - d.fetched + Chunk - 1) \div Chunk))

MayFail == history.faults < MaxFaults

Reached(d, q) ==
    {[dec |-> [d EXCEPT !.at = q, !.fetched = IF q <= @ THEN @ ELSE Fetched(d, q)],
      ok |-> TRUE, fault |-> 0]}

RunsOut(d) ==
    {[dec |-> [d EXCEPT !.at = file.length, !.fetched = file.length,
                        !.state = "END_OF_STREAM"],
      ok |-> FALSE, fault |-> 0]}

Aborts(d, fault) ==
    {[dec |-> [d EXCEPT !.at = d.fetched, !.state = "ABORTED"],
      ok |-> FALSE, fault |-> fault]}

(* read_callback_: end of file first, then the patience of a seek.         *)
Reach(d, q) ==
    IF q <= d.fetched THEN Reached(d, q)
    ELSE IF d.fetched = file.length THEN RunsOut(d)
    ELSE IF d.seeking /\ d.unparseable > Patience THEN Aborts(d, 0)
    ELSE (IF q <= file.length THEN Reached(d, q) ELSE RunsOut(d))
         \cup (IF MayFail THEN Aborts(d, 1) ELSE {})

(* Faulty: the search starts a byte late.                                  *)
NearestBehind(kinds, p) ==
    LET later == {x \in file.items : x.kind \in kinds /\ x.at > p}
    IN  {x \in later : \A y \in later : x.at <= y.at}

(* The items of the kinds that begin at p or later, first the nearest.     *)
Nearest(kinds, p) ==
    LET later == {x \in file.items : x.kind \in kinds /\ x.at >= p}
    IN  {x \in later : \A y \in later : x.at <= y.at}

BeyondEnd == file.length + 1

-----------------------------------------------------------------------------
(* The process functions are loops over the state: "single" returns after  *)
(* a metadata block or a frame, "metadata" when the metadata is read,      *)
(* "stream" at the end, "skip" after a frame it does not decode.  A loop   *)
(* is left with a value, or goes on.  In a seek it is the seek that goes   *)
(* on.                                                                     *)
Running(loops) == call # NoCall /\ call.loop \in loops
InState(state) == dec.state = state
Loops == {"single", "metadata", "stream", "skip"}

Faulted(n) ==
    history' = [history EXCEPT !.faults = @ + n,
                               !.pass.faulty = @ \/ n > 0]

Leave(value) ==
    IF call.op = "seek"
    THEN /\ call' = [call EXCEPT !.loop = "none", !.got = value]
         /\ UNCHANGED result
    ELSE /\ call' = NoCall
         /\ result' = [op |-> call.op, ok |-> value]

Continue == UNCHANGED <<call, result>>

(* find_metadata_.  After an ID3 tag that was skipped only the magic word  *)
(* will do: any other byte fails the call and leaves the state as it was.  *)
FindMetadata ==
    /\ Running(Loops \ {"skip"}) /\ InState("SEARCH_FOR_METADATA")
    /\ LET marks == Nearest({"magic", "tag", "frame", "fake"}, dec.at)
       IN  IF marks = {}
           THEN \E r \in Reach(dec, BeyondEnd) :
                    /\ dec' = r.dec /\ Faulted(r.fault) /\ Leave(FALSE)
           ELSE \E m \in marks :
                    \E r \in Reach(dec, IF m.kind \in {"magic", "tag"} THEN Ends(m) ELSE m.at + 2) :
                        CASE ~r.ok ->
                                 /\ dec' = r.dec /\ Faulted(r.fault) /\ Leave(FALSE)
                          [] r.ok /\ m.kind = "magic" ->
                                 /\ dec' = [r.dec EXCEPT !.state = "READ_METADATA"]
                                 /\ Faulted(r.fault) /\ Continue
                          [] r.ok /\ m.kind \in {"frame", "fake"} ->
                                 /\ dec' = [r.dec EXCEPT !.state = "READ_FRAME", !.sync = {m}]
                                 /\ Faulted(r.fault) /\ Continue
                          [] r.ok /\ m.kind = "tag" ->
                                 IF \E x \in file.items : x.kind = "magic" /\ x.at = Ends(m)
                                 THEN dec' = r.dec /\ Faulted(r.fault) /\ Continue
                                 ELSE \E s \in Reach(r.dec, Ends(m) + 1) :
                                          /\ dec' = s.dec /\ Faulted(s.fault) /\ Leave(FALSE)
    /\ UNCHANGED <<file, heard>>

(* read_metadata_ with a block that begins where the reader is.            *)
BlockRead(d, block) ==
    CASE block.kind = "info" ->
             [d EXCEPT !.hasInfo = TRUE, !.info = block.info,
                       !.md5 = @ /\ block.info.md5 # "none"]
      [] block.kind = "table" ->
             [d EXCEPT !.hasTable = TRUE, !.points = block.points]
      [] OTHER -> d

(* get_decode_position needs a tell callback that works.                   *)
Tells == file.client = "file"
Positions(d) ==
    IF ~Tells THEN {[ok |-> FALSE, fault |-> 0]}
    ELSE {[ok |-> TRUE, fault |-> 0]}
         \cup (IF MayFail THEN {[ok |-> FALSE, fault |-> 1]} ELSE {})

LastBlock(d, told) ==
    [d EXCEPT !.firstFrame = IF told THEN d.at ELSE 0,
              !.state = "SEARCH_FOR_FRAME_SYNC"]

ReadMetadata ==
    /\ Running(Loops \ {"skip"}) /\ InState("READ_METADATA")
    /\ \E block \in {x \in file.items : x.kind \in Metadata /\ x.at = dec.at} :
           \E r \in Reach(dec, Ends(block)) :
               IF ~r.ok
               THEN /\ dec' = r.dec /\ Faulted(r.fault) /\ Leave(FALSE)
               ELSE /\ \E p \in Positions(r.dec) :
                           /\ block.last \/ p.fault = 0
                           /\ dec' = (IF block.last
                                      THEN LastBlock(BlockRead(r.dec, block), p.ok)
                                      ELSE BlockRead(r.dec, block))
                           /\ Faulted(p.fault)
                    /\ IF call.loop = "single" THEN Leave(TRUE) ELSE Continue
    /\ UNCHANGED <<file, heard>>

-----------------------------------------------------------------------------
(* frame_sync_: enough samples end the stream; otherwise the next sync     *)
(* code, wherever it comes from.  What goes wrong here is a true result.   *)
Total(d) == IF d.hasInfo THEN d.info.total ELSE 0
AllDecoded(d) == Total(d) > 0 /\ d.samplesDecoded >= Total(d)

FrameSync ==
    /\ Running(Loops \ {"metadata"}) /\ InState("SEARCH_FOR_FRAME_SYNC")
    /\ IF AllDecoded(dec)
       THEN /\ dec' = [dec EXCEPT !.state = "END_OF_STREAM"]
            /\ Continue /\ UNCHANGED history
       ELSE LET syncs == Nearest({"frame", "fake"}, dec.at)
                reach == IF syncs = {} THEN BeyondEnd
                         ELSE (CHOOSE m \in syncs : TRUE).at + 2
            IN  \E r \in Reach(dec, reach) :
                    /\ Faulted(r.fault)
                    /\ IF r.ok
                       THEN /\ dec' = [r.dec EXCEPT !.state = "READ_FRAME", !.sync = syncs]
                            /\ Continue
                       ELSE dec' = r.dec /\ Leave(TRUE)
    /\ UNCHANGED <<file, heard>>

(* What a frame's number is taken for: a sample number when the frame says *)
(* so or STREAMINFO tells of several block sizes; otherwise the number of  *)
(* a frame, and "next" is the block size that is fixed once it is got.     *)
Numbering(d, item) ==
    CASE item.counts = "samples" \/ (d.hasInfo /\ d.info.minBlock # d.info.maxBlock) ->
             [sample |-> item.number, next |-> 0]
      [] OTHER ->
             IF d.fixed # 0 THEN [sample |-> d.fixed * item.number, next |-> 0]
             ELSE IF d.hasInfo THEN [sample |-> d.info.minBlock * item.number,
                                     next |-> d.info.maxBlock]
             ELSE [sample |-> item.samples * item.number,
                   next |-> IF item.number = 0 THEN item.samples ELSE 0]

Resync(d) == [d EXCEPT !.state = "SEARCH_FOR_FRAME_SYNC", !.sync = {}]

(* Faulty: in a seek all of the frame that has the target is written.      *)
PieceUncut(item, number, from) ==
    [sample |-> number, samples |-> item.samples,
     true |-> item.start, good |-> item.damage = "none"]

(* A frame that was read to its end, as the write callback is to get it:   *)
(* the samples from "from" on; zeroes when its CRC is wrong.               *)
Piece(item, number, from) ==
    [sample |-> from, samples |-> number + item.samples - from,
     true |-> item.start + from - number, good |-> item.damage = "none"]

(* Faulty: a block size that was remembered is forgotten by the next frame. *)
GotAndForgotten(d, item, numbering) ==
    [d EXCEPT !.nextFixed = numbering.next, !.sync = {},
              !.fixed = numbering.next,
              !.width = item.width,
              !.samplesDecoded = numbering.sample + item.samples]

Got(d, item, numbering) ==
    [d EXCEPT !.nextFixed = numbering.next, !.sync = {},
              !.fixed = IF numbering.next # 0 THEN numbering.next ELSE @,
              !.width = item.width,
              !.samplesDecoded = numbering.sample + item.samples]

Targeted(d, number, item) == number <= d.target /\ d.target < number + item.samples

(* write_audio_frame_to_client_: in a seek only the frame with the target  *)
(* is written, from the target on, and ends the seeking.  After an abort   *)
(* of the write callback the decoder is left in READ_FRAME.                *)
Written(d, piece) ==
    /\ heard' = Append(heard, piece)
    /\ \E fault \in {0} \cup (IF MayFail THEN {1} ELSE {}) :
           /\ history' = [history EXCEPT !.faults = @ + fault,
                                         !.pass.faulty = @ \/ fault > 0,
                                         !.pass.told = With(@, piece),
                                         !.pass.frames = @ \cup dec.sync]
           /\ IF fault = 0
              THEN /\ dec' = Resync(d)
                   /\ IF call.loop = "stream" THEN Continue ELSE Leave(TRUE)
              ELSE dec' = d /\ Leave(FALSE)

WriteAudioFrame(d, item, number) ==
    LET sought == [d EXCEPT !.last = [sample |-> number, samples |-> item.samples]]
        hit == Targeted(d, number, item)
        piece == Piece(item, number, IF d.seeking THEN d.target ELSE number)
        summing == d.md5 /\ d.hasInfo
    IN  CASE d.seeking /\ hit ->
                 Written([sought EXCEPT !.seeking = FALSE,
                              !.last = [sample |-> piece.sample, samples |-> piece.samples]],
                         piece)
          [] d.seeking /\ ~hit ->
                 /\ dec' = Resync(sought) /\ Leave(TRUE)
                 /\ UNCHANGED <<heard, history>>
          [] OTHER ->
                 Written([d EXCEPT !.md5 = summing,
                                   !.sum = IF summing THEN With(@, piece) ELSE @],
                         piece)

(* read_frame_ up to the judgement.  Damage to the residual, the last      *)
(* alternative, makes it fail although it is ready to search the next sync *)
(* code.                                                                   *)
ReadDamaged(d, item, numbering) ==
    /\ UNCHANGED heard
    /\ Faulted(0)
    /\ CASE item.damage = "header" -> dec' = Resync(d) /\ Continue
         [] item.damage = "future" ->
                /\ dec' = Resync([d EXCEPT !.nextFixed = numbering.next,
                                           !.unparseable = IF d.seeking THEN @ + 1 ELSE @])
                /\ Continue
         [] item.damage = "lost" ->
                dec' = Resync([d EXCEPT !.nextFixed = numbering.next]) /\ Continue
         [] OTHER ->
                dec' = Resync([d EXCEPT !.nextFixed = numbering.next]) /\ Leave(FALSE)

OutOfMemory == [dec EXCEPT !.state = "MEMORY_ALLOCATION_ERROR"]

ReadFrame ==
    /\ Running(Loops \ {"metadata"}) /\ InState("READ_FRAME")
    /\ \E item \in dec.sync :
           \/ \E r \in Reach(dec, item.at + item.reads) :
                 LET numbering == Numbering(dec, item)
                 IN  IF ~r.ok
                     THEN dec' = r.dec /\ Faulted(r.fault) /\ Leave(FALSE) /\ UNCHANGED heard
                     ELSE IF item.damage \notin {"none", "crc"}
                     THEN ReadDamaged(r.dec, item, numbering)
                     ELSE IF call.loop = "skip"
                     THEN /\ dec' = Resync(Got(r.dec, item, numbering))
                          /\ Leave(TRUE) /\ UNCHANGED heard
                          /\ history' = [history EXCEPT !.pass.frames = @ \cup {item}]
                     ELSE WriteAudioFrame(Got(r.dec, item, numbering), item, numbering.sample)
           \/ /\ MayFail /\ item.damage # "header"
              /\ dec' = OutOfMemory /\ Faulted(1) /\ Leave(FALSE)
              /\ UNCHANGED heard
    /\ UNCHANGED file

(* READ_FRAME without a sync code: the write callback aborted, and the     *)
(* client calls again.  What comes next is taken for the rest of a header. *)
ReadFrameStale ==
    /\ Running(Loops \ {"metadata"}) /\ InState("READ_FRAME") /\ dec.sync = {}
    /\ LET framed == \E x \in file.items : x.kind \in {"frame", "fake"} /\ x.at = dec.at
       IN  \E r \in Reach(dec, IF framed THEN dec.at + 1 ELSE dec.at + 4) :
               /\ Faulted(r.fault)
               /\ IF ~r.ok THEN dec' = r.dec /\ Leave(FALSE)
                  ELSE /\ dec' = Resync(IF framed THEN [r.dec EXCEPT !.at = dec.at] ELSE r.dec)
                       /\ Continue
    /\ UNCHANGED <<file, heard>>

(* In the other states a loop is over at once.                             *)
LoopEnds ==
    /\ Running(Loops)
    /\ \/ InState("END_OF_STREAM") /\ Leave(TRUE)
       \/ InState("ABORTED") /\ Leave(TRUE)
       \/ /\ call.loop = "metadata"
          /\ dec.state \in {"SEARCH_FOR_FRAME_SYNC", "READ_FRAME"} /\ Leave(TRUE)
       \/ /\ call.loop = "skip"
          /\ dec.state \in {"SEARCH_FOR_METADATA", "READ_METADATA"} /\ Leave(FALSE)
    /\ UNCHANGED <<file, dec, heard, history>>

-----------------------------------------------------------------------------
(* The client's calls.  init takes the file from its start; so does reset  *)
(* when it can; flush and reset of a client that cannot seek go on from    *)
(* wherever the client has got to.                                         *)
MayCall ==
    /\ call = NoCall /\ history.calls < MaxCalls

Called(pass) ==
    /\ history' = [history EXCEPT !.calls = @ + 1, !.pass = pass]
    /\ heard' = <<>>

Moved == [history.pass EXCEPT !.moved = TRUE]

Returned(op, value) == result' = [op |-> op, ok |-> value] /\ UNCHANGED call

InitDecoder ==
    /\ MayCall /\ InState("UNINITIALIZED")
    /\ \E f \in Files, checking \in Checks :
           /\ file' = f
           /\ dec' = ResetDone(Flushed(Given(
                        [dec EXCEPT !.checking = checking, !.seeking = FALSE], 0)))
    /\ Called(NewPass) /\ Returned("init", TRUE)

Flush ==
    /\ MayCall /\ "flush" \in Operations /\ ~InState("UNINITIALIZED")
    /\ dec' = Flushed(dec)
    /\ Called(Moved) /\ Returned("flush", TRUE)
    /\ UNCHANGED file

Reset ==
    /\ MayCall /\ "reset" \in Operations /\ ~InState("UNINITIALIZED")
    /\ \/ /\ file.client = "file"
          /\ dec' = ResetDone(Flushed(Given(dec, 0)))
          /\ Called(NewPass) /\ Returned("reset", TRUE)
       \/ /\ file.client = "stream"
          /\ dec' = ResetDone(Flushed(dec))
          /\ Called([NewPass EXCEPT !.moved = TRUE]) /\ Returned("reset", TRUE)
       \/ /\ file.client = "pipe" \/ (file.client = "file" /\ MayFail)
          /\ dec' = Flushed(dec)
          /\ heard' = <<>>
          /\ history' = [history EXCEPT !.calls = @ + 1, !.pass = Moved,
                                        !.faults = IF file.client = "pipe" THEN @ ELSE @ + 1]
          /\ Returned("reset", FALSE)
    /\ UNCHANGED file

(* finish compares the sum whenever checking is still on.                  *)
Verdict(d) ==
    d.md5 => /\ d.info.md5 = "right"
             /\ d.sum = [samples |-> file.signal, intact |-> TRUE]

Finish ==
    /\ call = NoCall /\ "finish" \in Operations /\ ~InState("UNINITIALIZED")
    /\ dec' = [dec EXCEPT !.state = "UNINITIALIZED", !.seeking = FALSE,
                          !.checking = FALSE, !.sync = {},
                          !.hasTable = @ /\ dec.points = <<>>, !.points = <<>>]
    /\ heard' = <<>> /\ UNCHANGED <<file, call, history>>
    /\ result' = [op |-> "finish", ok |-> Verdict(dec), checking |-> dec.checking]

Process(op) ==
    /\ MayCall /\ op \in Operations
    /\ dec.state \notin {"UNINITIALIZED", "SEEK_ERROR", "MEMORY_ALLOCATION_ERROR"}
    /\ call' = [op |-> op, loop |-> op]
    /\ Called(history.pass)
    /\ UNCHANGED <<file, dec, result>>

-----------------------------------------------------------------------------
(* seek_absolute.  First the metadata, if it is not yet read.              *)
BeyondTotal(d, target) == Total(d) > 0 /\ target >= Total(d)

SeekRefused(target) ==
    /\ MayCall /\ "seek" \in Operations /\ ~InState("UNINITIALIZED")
    /\ \/ dec.state \in {"ABORTED", "SEEK_ERROR", "MEMORY_ALLOCATION_ERROR"}
       \/ file.client # "file"
       \/ BeyondTotal(dec, target)
    /\ Called(history.pass)
    /\ result' = [op |-> "seek", ok |-> FALSE, target |-> target]
    /\ UNCHANGED <<file, dec, call>>

MetadataStates == {"SEARCH_FOR_METADATA", "READ_METADATA"}

Seek(target) ==
    /\ MayCall /\ "seek" \in Operations
    /\ dec.state \in MetadataStates
                     \cup {"SEARCH_FOR_FRAME_SYNC", "READ_FRAME", "END_OF_STREAM"}
    /\ file.client = "file" /\ ~BeyondTotal(dec, target)
    /\ heard' = <<>>
    /\ \E fault \in {0} \cup (IF MayFail THEN {1} ELSE {}) :
           /\ history' = [history EXCEPT !.calls = @ + 1, !.faults = @ + fault,
                             !.pass = [Moved EXCEPT !.faulty = @ \/ fault > 0]]
           /\ dec' = [dec EXCEPT !.seeking = fault = 0, !.md5 = FALSE]
           /\ IF fault = 0
              THEN /\ call' = [op |-> "seek", phase |-> "metadata", target |-> target, got |-> TRUE,
                               loop |-> IF dec.state \in MetadataStates THEN "metadata" ELSE "none"]
                   /\ UNCHANGED result
              ELSE /\ result' = [op |-> "seek", ok |-> FALSE, target |-> target]
                   /\ UNCHANGED call
    /\ UNCHANGED file

Seeking(phase) == call.op = "seek" /\ call.loop = "none" /\ call.phase = phase

(* The end of a seek: the decoder it leaves, and what it returns.          *)
SeekReturns(d, value, fault) ==
    /\ dec' = [d EXCEPT !.seeking = FALSE]
    /\ call' = NoCall
    /\ result' = [op |-> "seek", ok |-> value, target |-> call.target]
    /\ Faulted(fault)

SeekFails(fault) == SeekReturns([dec EXCEPT !.state = "SEEK_ERROR"], FALSE, fault)

(* The points of the seek table that a seek trusts.                        *)
Usable(point) ==
    /\ point.sample # Placeholder
    /\ point.frameSamples > 0
    /\ Total(dec) > 0 => point.sample < Total(dec)

(* The first bounds: all of the audio, or the nearest points of the table, *)
(* the last one at or below the target and the first one above it.         *)
FirstBounds(target) ==
    LET whole == [low |-> dec.firstFrame, lowSample |-> 0, high |-> file.length,
                  highSample |-> IF Total(dec) > 0 THEN Total(dec) ELSE target]
        points == dec.points
        below == {i \in DOMAIN points : Usable(points[i]) /\ points[i].sample <= target}
        above == {i \in DOMAIN points : Usable(points[i]) /\ points[i].sample > target}
        lowered(i) == [whole EXCEPT !.low = dec.firstFrame + points[i].offset,
                                    !.lowSample = points[i].sample]
        raised(b, i) == [b EXCEPT !.high = dec.firstFrame + points[i].offset,
                                  !.highSample = points[i].sample]
        low == IF below = {} THEN whole
               ELSE lowered(CHOOSE i \in below : \A j \in below : j <= i)
        both == IF above = {} THEN low
                ELSE raised(low, CHOOSE i \in above : \A j \in above : i <= j)
        chosen == IF dec.hasTable /\ both.high >= both.low THEN both ELSE whole
    IN  IF chosen.highSample = chosen.lowSample
        THEN [chosen EXCEPT !.highSample = @ + 1] ELSE chosen

(* How many bytes a frame takes, roughly.                                  *)
FrameGuess ==
    LET info == dec.info
        width == IF dec.width = 0 THEN info.width ELSE dec.width
    IN  CASE info.maxFrame > 0 -> (info.maxFrame + info.minFrame) \div 2 + 1
          [] info.maxFrame = 0 /\ info.minBlock = info.maxBlock /\ info.minBlock > 0 ->
                 (info.minBlock * width) \div 8 + 64
          [] OTHER -> (4096 * width) \div 8 + 64

SeekBounds ==
    /\ Seeking("metadata")
    /\ IF ~call.got \/ BeyondTotal(dec, call.target)
       THEN SeekReturns(dec, FALSE, 0)
       ELSE /\ dec' = [dec EXCEPT !.target = call.target]
            /\ LET b == FirstBounds(call.target)
               IN  call' = [op |-> "seek", phase |-> "aim", loop |-> "none", got |-> TRUE,
                            target |-> call.target, pos |-> 0, guess |-> FrameGuess,
                            first |-> TRUE, low |-> b.low, lowSample |-> b.lowSample,
                            high |-> b.high, highSample |-> b.highSample]
            /\ UNCHANGED <<result, history>>
    /\ UNCHANGED <<file, heard>>

(* The position: in proportion to the samples, a frame earlier, and within *)
(* the bounds.                                                             *)
Aim ==
    LET ahead == ((call.target - call.lowSample) * (call.high - call.low))
                 \div (call.highSample - call.lowSample)
        guessed == call.low + ahead - call.guess
        below == IF guessed >= call.high THEN call.high - 1 ELSE guessed
    IN  IF below < call.low THEN call.low ELSE below

SeekAim ==
    /\ Seeking("aim")
    /\ \/ /\ call.lowSample >= call.highSample \/ call.low > call.high
          /\ SeekFails(0)
       \/ /\ call.lowSample < call.highSample /\ call.low <= call.high
          /\ dec' = [Flushed(Given(dec, Aim)) EXCEPT !.unparseable = 0]
          /\ call' = [call EXCEPT !.phase = "look", !.loop = "single", !.pos = Aim]
          /\ UNCHANGED <<result, history>>
       \/ /\ call.lowSample < call.highSample /\ call.low <= call.high
          /\ MayFail /\ SeekFails(1)
    /\ UNCHANGED <<file, heard>>

(* What to make of the frame that was found.  Too far, or none at all: a   *)
(* bigger step back; the first time too far is borne.                      *)
LastEnd == dec.last.sample + dec.last.samples
TooFar == dec.samplesDecoded = 0 \/ (LastEnd >= call.highSample /\ ~call.first)

(* Faulty: a bound goes to where the search began, not to the frame's end. *)
NarrowedToStart ==
    LET guess(bound) == (2 * (bound - call.pos)) \div 3 + 16
    IN  IF call.target < dec.last.sample
        THEN [call EXCEPT !.phase = "aim", !.first = FALSE, !.highSample = LastEnd,
                          !.high = dec.at, !.guess = guess(dec.at)]
        ELSE [call EXCEPT !.phase = "aim", !.first = FALSE, !.lowSample = LastEnd,
                          !.low = call.pos, !.guess = guess(dec.at)]

Narrowed ==
    LET guess(bound) == (2 * (bound - call.pos)) \div 3 + 16
    IN  IF call.target < dec.last.sample
        THEN [call EXCEPT !.phase = "aim", !.first = FALSE, !.highSample = LastEnd,
                          !.high = dec.at, !.guess = guess(dec.at)]
        ELSE [call EXCEPT !.phase = "aim", !.first = FALSE, !.lowSample = LastEnd,
                          !.low = dec.at, !.guess = guess(dec.at)]

(* Faulty: the step back is not doubled.                                   *)
StepBackAgain == [call EXCEPT !.phase = "aim", !.guess = IF @ = 0 THEN 16 ELSE @]

StepBack == [call EXCEPT !.phase = "aim", !.guess = IF @ = 0 THEN 16 ELSE 2 * @]

SeekLook ==
    /\ Seeking("look")
    /\ CASE ~call.got -> SeekFails(0)
         [] call.got /\ ~dec.seeking -> SeekReturns(dec, TRUE, 0)
         [] call.got /\ dec.seeking /\ TooFar ->
                IF call.pos = call.low THEN SeekFails(0)
                ELSE call' = StepBack /\ UNCHANGED <<dec, result, history>>
         [] OTHER ->
                \/ dec.last.sample < call.lowSample /\ SeekFails(0)
                \/ /\ dec.last.sample >= call.lowSample
                   /\ call' = Narrowed /\ UNCHANGED <<dec, result, history>>
                \/ dec.last.sample >= call.lowSample /\ MayFail /\ SeekFails(1)
    /\ UNCHANGED <<file, heard>>

-----------------------------------------------------------------------------
ClientCall ==
    \/ InitDecoder \/ Flush \/ Reset \/ Finish
    \/ \E op \in Loops : Process(op)
    \/ \E target \in Targets : Seek(target) \/ SeekRefused(target)

Step ==
    \/ FindMetadata \/ ReadMetadata \/ FrameSync \/ ReadFrame \/ ReadFrameStale \/ LoopEnds
    \/ SeekBounds \/ SeekAim \/ SeekLook

Next == ClientCall \/ Step

(* A call runs on the client's thread until it returns.                    *)
Spec == Init /\ [][Next]_vars /\ WF_vars(Step)

-----------------------------------------------------------------------------
(* What was written as good samples carries their true sample number,      *)
(* whatever was sought, flushed or damaged before: the numbers come from   *)
(* frame numbers, a remembered block size and the trimming of a seek.  (A  *)
(* decoder that was moved before it had the metadata can only guess.)      *)
InPlace ==
    (dec.hasInfo \/ ~history.pass.moved) =>
    \A i \in DOMAIN heard : heard[i].good => heard[i].sample = heard[i].true

(* A seek that returns true has written one piece, and it begins at the    *)
(* target: nothing of the frames it tried on its way, and no callback more *)
(* than the one that ended it.                                             *)
SeekLands ==
    (result.op = "seek" /\ result.ok /\ call = NoCall) =>
        /\ Len(heard) = 1
        /\ heard[1].sample = result.target

(* In a file without damage that tells how many samples it has a seek to   *)
(* any of them succeeds, whatever the sizes of the frames, the position or *)
(* the earlier calls, as long as no callback fails.  Its seek table may    *)
(* have placeholders and points beyond the end, and too few points, but    *)
(* those that a seek trusts must be true: a point that lies can make the   *)
(* search end in an error.                                                 *)
TrueTable(f) ==
    \A t \in f.items : t.kind = "table" => \A i \in DOMAIN t.points :
        Usable(t.points[i]) => \E x \in f.items :
            /\ x.kind = "frame" /\ x.start = t.points[i].sample
            /\ x.at = dec.firstFrame + t.points[i].offset

Sound(f) ==
    /\ f.client = "file"
    /\ \A x \in f.items : x.kind \in {"frame", "fake"} => x.damage \in {"none", "header"}
    /\ \A x \in f.items : Ends(x) <= f.length

SoughtInVain ==
    /\ result.op = "seek" /\ ~result.ok /\ result.target < file.signal
    /\ dec.hasInfo /\ Sound(file) /\ TrueTable(file) /\ ~history.pass.faulty

SeekFinds == SoughtInVain => Total(dec) # file.signal

(* The same of a file that does not tell how many samples it has, as a     *)
(* comment of the search promises ("allow one seek over upper bound, so we *)
(* can get a correct upper_bound_sample for streams with unknown           *)
(* total_samples", stream_decoder.c:3161).  It does not hold: the bound is *)
(* corrected only when that seek lands behind the target.                  *)
SeekFindsUnsized == SoughtInVain => Total(dec) # 0

(* A file whose damage is kept to itself: what stands for a frame outside  *)
(* of those that are read to their end reaches into no later one, its      *)
(* number does not tell that the signal is over, and nothing is lost       *)
(* behind a tag.                                                           *)
Readable(x) == x.kind = "frame" /\ x.damage \in {"none", "crc"}
Entire(f) == {x \in f.items : x.kind = "frame" /\ x.damage = "none" /\ Ends(x) <= f.length}
Inside(f, p) == \E z \in f.items : Readable(z) /\ z.at < p /\ p < Ends(z)

Kept(f, x) ==
    /\ x.reads \in Nat
    /\ \A z \in f.items : Readable(z) /\ z # x /\ x.at <= z.at =>
          x.at < z.at /\ x.at + x.reads <= z.at
    /\ \A z \in Entire(f), i \in Infos(f) :
          (x.damage \in {"none", "crc"} /\ x.at < z.at /\ i.info.total > 0)
              => NumberOf(f, x) + x.samples < i.info.total

Undisturbed(f) ==
    /\ f.length \in Nat
    /\ \A z \in f.items : Readable(z) => z.size >= 2 /\ z.reads = z.size
    /\ \A x \in Syncs(f) : Inside(f, x.at) \/ Kept(f, x)
    /\ \A t, z \in f.items : t.kind = "tag" /\ Readable(z) => Ends(t) # z.at
    /\ \A i \in Infos(f) : i.info.total \in Nat

(* A pass over such a file from its start without flush, seek or failure   *)
(* gets every frame that is whole, before and after the damaged ones.      *)
DamageIsLocal ==
    (/\ InState("END_OF_STREAM") /\ ~history.pass.moved /\ ~history.pass.faulty
     /\ Undisturbed(file)) => Entire(file) \subseteq history.pass.frames

(* finish returns true of a checked pass only when the client was told the *)
(* whole signal, every sample of it and in order; a seek or flush and a    *)
(* file without a sum make it true of nothing.                             *)
Md5Vouches ==
    (/\ result.op = "finish" /\ result.ok /\ result.checking
     /\ ~history.pass.moved /\ dec.hasInfo /\ dec.info.md5 # "none")
        => history.pass.told = [samples |-> file.signal, intact |-> TRUE]

(* Every call returns: no file, however damaged, and no failure keeps the  *)
(* decoder searching, stepping back or narrowing for ever.                 *)
CallsEnd == call # NoCall ~> call = NoCall
=============================================================================
