---------------------------- MODULE StreamEncoder ----------------------------
(***************************************************************************)
(* The stream encoder of libFLAC (stream_encoder.c): a client configures   *)
(* it, initializes it, hands it samples in calls of any size, and finishes *)
(* the stream.  The encoder cuts the samples into blocks, looks one sample *)
(* ahead, verifies every frame against the samples it kept, writes it with *)
(* the client's callbacks, and at the end goes back to the header.  Every  *)
(* callback may fail.  What is inside a frame is the subject of FrameCoding *)
(***************************************************************************)
EXTENDS Integers, Sequences, FiniteSets, SequencesExt

CONSTANTS
    Signal,         \* the samples the client has for each stream
    Blocksizes,     \* block sizes it may set, 0 for the default
    DefaultBlocksize,
    MinBlocksize,   \* FLAC__MIN_BLOCK_SIZE
    MaxBlocksize,   \* FLAC__MAX_BLOCK_SIZE
    FrameSizes,     \* how many bytes a frame may take
    NoMinimum,      \* the "absurdly high" minimal frame size to start from
    Templates,      \* seek tables of the client: function from their names
    MetadataLists,  \* the metadata lists it may set
    Clients,        \* the kinds of output, a subset of Kinds
    Verifies,       \* the values of set_verify the client uses
    Miscodes,       \* the coder may produce a frame that decodes to other samples
    Placeholder,    \* the sample number of a placeholder seek point
    MaxStreams,     \* bound: initializations
    MaxFaults       \* bound: failures of a callback or an allocation

(* "stream" has a write callback only; "pipe" has all of them but cannot   *)
(* seek; "file" is init_file; "seekonly" forgot the tell callback.         *)
Kinds == {"stream", "pipe", "file", "seekonly"}

(* What a client passes to set_metadata: blocks of FLAC__MetadataType, the  *)
(* points of a seek table in a table of their own.                          *)
SeekPoints == [sample : Nat, offset : Nat, frameSamples : Nat]
Blocks ==
    [type : {"streaminfo", "padding", "application", "vorbis", "cuesheet", "picture"}]
        \cup [type : {"seektable"}, table : DOMAIN Templates]

NoTable == "no table"

(* A sample number has 64 bits, the largest of them marks a placeholder.    *)
ASSUME EncoderAssumption ==
    /\ Signal \in Seq(Int)
    /\ Blocksizes \subseteq Nat
    /\ DefaultBlocksize \in Nat /\ MinBlocksize \in Nat \ {0}
    /\ MaxBlocksize \in Nat
    /\ DefaultBlocksize \in MinBlocksize..MaxBlocksize
    /\ NoMinimum \in Nat /\ FrameSizes \subseteq 1..NoMinimum
    /\ Templates \in [DOMAIN Templates -> Seq(SeekPoints)]
    /\ NoTable \notin DOMAIN Templates
    /\ \A list \in MetadataLists : list \in Seq(Blocks)
    /\ Clients \subseteq Kinds
    /\ Verifies \subseteq BOOLEAN
    /\ Miscodes \in BOOLEAN
    /\ Placeholder \in Nat /\ Len(Signal) < Placeholder
    /\ \A t \in DOMAIN Templates : \A i \in DOMAIN Templates[t] :
          Templates[t][i].sample <= Placeholder
    /\ MaxStreams \in Nat /\ MaxFaults \in Nat

VARIABLES
    enc,     \* the encoder: the fields of protected_ and private_
    tables,  \* the seek tables, which the encoder edits in the client's memory
    out,     \* what the client wrote: a sequence of units with their sizes
    call,    \* the call that is under way
    given,   \* the samples handed over since the last initialization
    finish,  \* "none", what finish returned: "true" or "false", or "deleted"
    history  \* counts against the bounds, and what happened to this stream

vars == <<enc, tables, out, call, given, finish, history>>

NoCall == [op |-> "none"]
(* Faulty: the maximum starts from the wrong side.                         *)
LargerOfNone(a, b) == IF a > b /\ b # 0 THEN b ELSE a

Smaller(a, b) == IF a < b THEN a ELSE b
Larger(a, b) == IF a > b THEN a ELSE b

-----------------------------------------------------------------------------
(* Settings.  set_defaults_; the numeric parameters other than the block   *)
(* size are valid together or not.                                         *)
NewEncoder ==
    [verify |-> FALSE, blocksize |-> 0, valid |-> TRUE, metadata |-> <<>>,
     seekTable |-> NoTable, client |-> "none",
     state |-> "UNINITIALIZED", signal |-> <<>>, fifo |-> <<>>, fifoSize |-> 0,
     frameNumber |-> 0, samplesWritten |-> 0, firstPoint |-> 1,
     hint |-> "magic", file |-> "closed",
     streaminfo |-> [total |-> 0, min |-> 0, max |-> 0],
     streaminfoOffset |-> 0, seektableOffset |-> 0, audioOffset |-> 0]

WithDefaults(e) ==
    [e EXCEPT !.verify = FALSE, !.blocksize = 0, !.valid = TRUE, !.metadata = <<>>,
              !.seekTable = NoTable, !.client = "none"]

Init ==
    /\ enc = NewEncoder
    /\ tables = Templates
    /\ out = <<>>
    /\ call = NoCall
    /\ given = <<>>
    /\ finish = "none"
    /\ history = [streams |-> 0, faults |-> 0, client |-> "none",
                  miscoded |-> FALSE, unverified |-> FALSE, failed |-> FALSE,
                  mismatch |-> FALSE]

(* The setters refuse to change an encoder that is initialized.            *)
Set(field, value) ==
    /\ call = NoCall /\ finish # "deleted" /\ enc.state = "UNINITIALIZED"
    /\ history.streams < MaxStreams
    /\ enc[field] # value
    /\ enc' = [enc EXCEPT ![field] = value]
    /\ UNCHANGED <<tables, out, call, given, finish, history>>

Setters ==
    \/ \E v \in Verifies : Set("verify", v)
    \/ \E b \in Blocksizes : Set("blocksize", b)
    \/ \E m \in MetadataLists : Set("metadata", m)
    \/ Set("valid", FALSE)

-----------------------------------------------------------------------------
(* The client's output: units with their sizes; a frame takes its size, a  *)
(* header unit one byte.                                                   *)
Position(units) ==
    LET after[n \in 0..Len(units)] ==
            IF n = 0 THEN 0 ELSE after[n - 1] + units[n].size
    IN  after[Len(units)]

Starting(units, offset) ==
    {i \in DOMAIN units : Position(SubSeq(units, 1, i - 1)) = offset}

(* Writing a field at an offset: of the unit that starts there, or of none. *)
Patched(units, offset, type, field, value) ==
    IF \E i \in Starting(units, offset) : units[i].type = type
    THEN LET i == CHOOSE j \in Starting(units, offset) : units[j].type = type
         IN  [units EXCEPT ![i] = [@ EXCEPT ![field] = value]]
    ELSE Append(units, [type |-> "ruined", size |-> 0])

CanTell(client) == client = "file"

(* Faulty: offsets from the beginning of the file, not of the audio.       *)
MarkedFromStart(e, points, position) ==
    [i \in DOMAIN points |->
        IF /\ i >= e.firstPoint
           /\ e.samplesWritten <= points[i].sample
           /\ points[i].sample <= e.samplesWritten + e.blocksize - 1
        THEN [sample |-> e.samplesWritten, frameSamples |-> e.blocksize,
              offset |-> position]
        ELSE points[i]]

(* Seek points that fall into the frame that is written become points of   *)
(* its first sample.                                                       *)
Reached(e, points) ==
    {i \in e.firstPoint..Len(points) :
        \A j \in e.firstPoint..i :
            points[j].sample <= e.samplesWritten + e.blocksize - 1}

Marked(e, points, position) ==
    [i \in DOMAIN points |->
        IF i \in Reached(e, points) /\ points[i].sample >= e.samplesWritten
        THEN [sample |-> e.samplesWritten, frameSamples |-> e.blocksize,
              offset |-> position - e.audioOffset]
        ELSE points[i]]

(* The result of a function that changes the encoder and what it writes.   *)
Done(e, t, units) == [enc |-> e, tables |-> t, out |-> units, ok |-> TRUE]
Failed(e, t, units, state) ==
    [enc |-> [e EXCEPT !.state = state], tables |-> t, out |-> units, ok |-> FALSE]

(* write_frame_: the offsets of the header units and the seek points, then *)
(* the write callback.                                                     *)
WriteFrame(e, t, units, unit, samples, fails) ==
    LET position == IF CanTell(e.client) THEN Position(units) ELSE 0
        marks == /\ e.seekTable # NoTable
                 /\ e.audioOffset > 0
        located ==
            CASE samples = 0 /\ unit.type = "streaminfo" ->
                     [e EXCEPT !.streaminfoOffset = position]
              [] samples = 0 /\ unit.type = "seektable" /\ e.seektableOffset = 0 ->
                     [e EXCEPT !.seektableOffset = position]
              [] OTHER -> e
        marked == IF marks THEN [t EXCEPT ![e.seekTable] = Marked(e, @, position)]
                  ELSE t
        advanced == IF marks
                    THEN [located EXCEPT
                            !.firstPoint = @ + Cardinality(Reached(e, t[e.seekTable]))]
                    ELSE located
    IN  CASE fails = "tell" -> Failed(e, t, units, "CLIENT_ERROR")
          [] fails = "write" -> Failed(advanced, marked, units, "CLIENT_ERROR")
          [] OTHER -> Done([advanced EXCEPT !.samplesWritten = @ + samples],
                           marked, Append(units, unit))

Decoded(unit) == [i \in DOMAIN unit.coded |-> unit.coded[i] * 2^unit.wasted]

(* Faulty: what was compared stays in the fifo.                            *)
VerifiedAndKept(e, unit) ==
    IF Decoded(unit) = SubSeq(e.fifo, 1, Len(unit.coded)) THEN e
    ELSE [e EXCEPT !.state = "VERIFY_MISMATCH"]

(* verify_write_callback_: the decoded frame against the oldest samples of *)
(* the fifo, which then leave it.                                          *)
Verified(e, unit) ==
    LET n == Len(unit.coded)
    IN  IF Decoded(unit) = SubSeq(e.fifo, 1, n)
        THEN [e EXCEPT !.fifo = SubSeq(@, n + 1, Len(@))]
        ELSE [e EXCEPT !.state = "VERIFY_MISMATCH"]

(* write_bitbuffer_: the unit goes through the verifying decoder before it *)
(* goes to the client.                                                     *)
WriteBitbuffer(e, t, units, unit, samples, fails) ==
    LET checks == e.verify /\ e.hint # "magic"
        checked == IF checks /\ unit.type = "frame" THEN Verified(e, unit) ELSE e
        written == WriteFrame(checked, t, units, unit, samples, fails)
        info == written.enc.streaminfo
    IN  IF fails = "memory" THEN Failed(e, t, units, "MEMORY_ERROR")
        ELSE IF checks /\ fails = "decoder"
        THEN Failed(e, t, units, "VERIFY_DECODER_ERROR")
        ELSE IF checked.state = "VERIFY_MISMATCH"
        THEN Failed(checked, t, units, "VERIFY_MISMATCH")
        ELSE IF written.ok /\ samples > 0
        THEN [written EXCEPT !.enc.streaminfo =
                 [info EXCEPT !.min = Smaller(unit.size, info.min),
                              !.max = Larger(unit.size, info.max)]]
        ELSE written

-----------------------------------------------------------------------------
(* get_wasted_bits_: the zero bits that end every sample of the block.     *)
WastedIn(block) == {s \in 0..30 : \A i \in DOMAIN block : block[i] % 2^s = 0}

Wasted(block) ==
    IF \A i \in DOMAIN block : block[i] = 0 THEN 0
    ELSE CHOOSE s \in WastedIn(block) : \A t \in WastedIn(block) : t <= s

(* Faulty: the sample that was looked ahead at is shifted with the block.  *)
ShiftedThrough(signal, n, s) == [i \in DOMAIN signal |-> signal[i] \div 2^s]

(* The block is shifted in place; the sample beyond it is not.             *)
Shifted(signal, n, s) ==
    [i \in DOMAIN signal |-> IF i <= n THEN signal[i] \div 2^s ELSE signal[i]]

(* process_frame_: one block is coded, verified and written.  A coder that *)
(* goes wrong codes another first sample.                                  *)
ProcessFrame(e, t, units, wrong, size, fails) ==
    LET n == e.blocksize
        wasted == Wasted(SubSeq(e.signal, 1, n))
        shifted == [e EXCEPT !.signal = Shifted(@, n, wasted)]
        coded == [i \in 1..n |-> IF wrong /\ i = 1 THEN shifted.signal[i] + 1
                                 ELSE shifted.signal[i]]
        frame == [type |-> "frame", number |-> e.frameNumber, wasted |-> wasted,
                  coded |-> coded, size |-> size]
        written == WriteBitbuffer(shifted, t, units, frame, n, fails)
    IN  CASE fails = "framing" -> Failed(shifted, t, units, "FRAMING_ERROR")
          [] fails # "framing" /\ written.ok ->
                 [written EXCEPT
                    !.enc.signal = SubSeq(@, n + 1, Len(@)),
                    !.enc.frameNumber = @ + 1,
                    !.enc.streaminfo.total = @ + n]
          [] OTHER -> written

FrameFaults == {"none", "memory", "framing", "decoder", "tell", "write"}
UnitFaults == {"none", "memory", "decoder", "tell", "write"}

(* A failure counts against the bound, and is one that can happen here.    *)
Faults(kinds) ==
    {f \in kinds : /\ f # "none" => history.faults < MaxFaults
                   /\ f = "tell" => CanTell(enc.client)
                   /\ f = "decoder" => enc.verify /\ enc.hint # "magic"}

Counted(f, wrong, result) ==
    [history EXCEPT
        !.faults = IF f # "none" THEN @ + 1 ELSE @,
        !.miscoded = @ \/ wrong,
        !.unverified = @ \/ (wrong /\ ~enc.verify),
        !.failed = @ \/ ~result.ok,
        !.mismatch = @ \/ result.enc.state = "VERIFY_MISMATCH"]

-----------------------------------------------------------------------------
(* Initialization.                                                         *)
Blocksize(e) == IF e.blocksize = 0 THEN DefaultBlocksize ELSE e.blocksize

(* FLAC__format_seektable_is_legal                                         *)
LegalPoints(points) ==
    \A i \in 2..Len(points) :
        points[i].sample = Placeholder \/ points[i - 1].sample < points[i].sample

OfType(list, type) == {i \in DOMAIN list : list[i].type = type}

LegalMetadata(list) ==
    /\ OfType(list, "streaminfo") = {}
    /\ Cardinality(OfType(list, "seektable")) <= 1
    /\ Cardinality(OfType(list, "vorbis")) <= 1
    /\ \A i \in OfType(list, "seektable") : LegalPoints(tables[list[i].table])

(* The checks of init_stream_internal_ before it changes the state, with   *)
(* what they leave behind: the block size, the first seek table.           *)
Accepted(e, client) ==
    /\ client # "seekonly"
    /\ e.valid
    /\ Blocksize(e) \in MinBlocksize..MaxBlocksize
    /\ LegalMetadata(e.metadata)

Checked(e, client) ==
    LET seekTables == OfType(e.metadata, "seektable")
        first == CHOOSE i \in seekTables : \A j \in seekTables : i <= j
        sized == IF client = "seekonly" THEN e
                 ELSE [e EXCEPT !.blocksize = Blocksize(e)]
    IN  IF /\ client # "seekonly" /\ e.valid
           /\ sized.blocksize \in MinBlocksize..MaxBlocksize
           /\ seekTables # {}
        THEN [sized EXCEPT !.seekTable = e.metadata[first].table]
        ELSE sized

HeaderUnits(e) ==
    LET list == e.metadata
        info == [type |-> "streaminfo", size |-> 1, last |-> FALSE,
                 total |-> 0, sizes |-> <<0, 0>>]
        comment == [type |-> "vorbis", size |-> 1, last |-> list = <<>>]
    IN  <<[type |-> "magic", size |-> 1], info>>
        \o (IF OfType(list, "vorbis") = {} THEN <<comment>> ELSE <<>>)
        \o [i \in DOMAIN list |->
                LET last == i = Len(list)
                IN  IF list[i].type = "seektable"
                    THEN [type |-> "seektable", size |-> 1, last |-> last,
                          points |-> tables[list[i].table]]
                    ELSE [type |-> list[i].type, size |-> 1, last |-> last]]

(* init_file, init_FILE and init_stream up to the first unit of the header. *)
InitStream ==
    /\ call = NoCall /\ finish # "deleted" /\ enc.state = "UNINITIALIZED"
    /\ history.streams < MaxStreams
    /\ \E client \in Clients, f \in {"none", "open", "memory", "decoder"} :
        /\ f # "none" => history.faults < MaxFaults
        /\ f = "open" => client = "file"
        /\ f = "decoder" => enc.verify
        /\ f \in {"memory", "decoder"} => Accepted(enc, client)
        /\ LET opened == IF client = "file" THEN [enc EXCEPT !.file = "open"] ELSE enc
               begun == [Checked(opened, client) EXCEPT
                            !.state = "OK", !.client = client,
                            !.signal = <<>>, !.fifo = <<>>, !.hint = "magic",
                            !.fifoSize = Blocksize(enc) + 1,
                            !.frameNumber = 0, !.samplesWritten = 0,
                            !.firstPoint = 1, !.streaminfoOffset = 0,
                            !.seektableOffset = 0, !.audioOffset = 0,
                            !.streaminfo = [total |-> 0, min |-> 0, max |-> 0]]
           IN  \/ /\ f = "open"
                  /\ enc' = [enc EXCEPT !.state = "IO_ERROR"]
                  /\ call' = NoCall
               \/ /\ f = "none" /\ ~Accepted(enc, client)
                  /\ enc' = Checked(opened, client)
                  /\ call' = NoCall
               \/ /\ f \in {"memory", "decoder"}
                  /\ enc' = [begun EXCEPT !.state =
                               IF f = "memory" THEN "MEMORY_ERROR"
                               ELSE "VERIFY_DECODER_ERROR"]
                  /\ call' = NoCall
               \/ /\ f = "none" /\ Accepted(enc, client)
                  /\ enc' = begun
                  /\ call' = [op |-> "init", todo |-> HeaderUnits(enc)]
        /\ out' = <<>> /\ given' = <<>> /\ finish' = "none"
        /\ history' = [history EXCEPT
                         !.streams = @ + 1, !.client = client,
                         !.faults = IF f # "none" THEN @ + 1 ELSE @,
                         !.miscoded = FALSE, !.unverified = FALSE,
                         !.failed = f # "none" \/ ~Accepted(enc, client),
                         !.mismatch = FALSE]
        /\ UNCHANGED tables

(* One unit of the header.  Once STREAMINFO is out, its numbers start anew. *)
WriteHeaderUnit ==
    /\ call.op = "init" /\ call.todo # <<>>
    /\ \E f \in Faults(UnitFaults) :
        LET unit == Head(call.todo)
            r == WriteBitbuffer(enc, tables, out, unit, 0, f)
            e == IF unit.type # "streaminfo" THEN r.enc
                 ELSE [r.enc EXCEPT !.streaminfo =
                          [total |-> 0, min |-> NoMinimum, max |-> 0]]
        IN  /\ enc' = IF r.ok THEN [e EXCEPT !.hint = "metadata"] ELSE r.enc
            /\ tables' = r.tables /\ out' = r.out
            /\ call' = IF r.ok THEN [call EXCEPT !.todo = Tail(@)] ELSE NoCall
            /\ history' = Counted(f, FALSE, r)
    /\ UNCHANGED <<given, finish>>

(* The header is written: the audio begins here.                           *)
HeaderWritten ==
    /\ call.op = "init" /\ call.todo = <<>>
    /\ \E f \in Faults({"none", "tell"}) :
        LET position == IF CanTell(enc.client) THEN Position(out) ELSE 0
            r == IF f = "tell" THEN Failed(enc, tables, out, "CLIENT_ERROR")
                 ELSE Done([enc EXCEPT !.audioOffset = position, !.hint = "audio"],
                           tables, out)
        IN  /\ enc' = r.enc
            /\ call' = NoCall
            /\ history' = Counted(f, FALSE, r)
    /\ UNCHANGED <<tables, out, given, finish>>

-----------------------------------------------------------------------------
(* Processing: the client hands over its next samples.                     *)
Process ==
    /\ call = NoCall /\ finish # "deleted" /\ enc.state = "OK"
    /\ \E n \in 0..(Len(Signal) - Len(given)) :
        LET samples == SubSeq(Signal, Len(given) + 1, Len(given) + n)
        IN  /\ call' = [op |-> "process", todo |-> samples]
            /\ given' = given \o samples
    /\ UNCHANGED <<enc, tables, out, finish, history>>

(* One pass of the loop of process and process_interleaved: as many samples *)
(* as still fit are buffered, for the verification too, and a block that    *)
(* is full and has its extra sample is processed.                           *)
ProcessChunk ==
    /\ call.op = "process"
    /\ LET n == Smaller(enc.blocksize + 1 - Len(enc.signal), Len(call.todo))
           taken == SubSeq(call.todo, 1, n)
           left == SubSeq(call.todo, n + 1, Len(call.todo))
           filled == [enc EXCEPT !.signal = @ \o taken,
                                 !.fifo = IF enc.verify THEN @ \o taken ELSE @]
           rest == IF left = <<>> THEN NoCall ELSE [call EXCEPT !.todo = left]
       IN  \/ /\ Len(filled.signal) <= enc.blocksize
              /\ enc' = filled /\ call' = rest
              /\ UNCHANGED <<tables, out, history>>
           \/ /\ Len(filled.signal) > enc.blocksize
              /\ \E f \in Faults(FrameFaults), size \in FrameSizes,
                   wrong \in {FALSE, Miscodes} :
                    LET r == ProcessFrame(filled, tables, out, wrong, size, f)
                    IN  /\ enc' = r.enc /\ tables' = r.tables /\ out' = r.out
                        /\ call' = IF r.ok THEN rest ELSE NoCall
                        /\ history' = Counted(f, wrong, r)
    /\ UNCHANGED <<given, finish>>

-----------------------------------------------------------------------------
(* Finishing.  What is left in the buffer is the last block; then the       *)
(* header is updated; then everything is freed and reset.                   *)
Finish ==
    /\ call = NoCall /\ finish # "deleted" /\ enc.state # "UNINITIALIZED"
    /\ LET ends(r) ==
              [op |-> "finish", error |-> ~r.ok,
               todo |-> IF r.enc.state = "OK" /\ r.enc.client \in {"pipe", "file"}
                        THEN <<"md5", "total", "sizes", "points">> ELSE <<>>]
       IN  \/ /\ enc.state = "OK" /\ enc.signal # <<>>
              /\ \E f \in Faults(FrameFaults), size \in FrameSizes,
                   wrong \in {FALSE, Miscodes} :
                    LET r == ProcessFrame([enc EXCEPT !.blocksize = Len(enc.signal)],
                                          tables, out, wrong, size, f)
                    IN  /\ enc' = r.enc /\ tables' = r.tables /\ out' = r.out
                        /\ call' = ends(r)
                        /\ history' = Counted(f, wrong, r)
           \/ /\ enc.state # "OK" \/ enc.signal = <<>>
              /\ call' = ends(Done(enc, tables, out))
              /\ UNCHANGED <<enc, tables, out, history>>
    /\ UNCHANGED <<given, finish>>

(* FLAC__format_seektable_sort: in order, each sample once, placeholders    *)
(* at the end; what else a placeholder says is of no meaning.  (Two points  *)
(* of one sample are equal here: they were moved to the same frame.)        *)
Before(points, p) == {q \in points : q.sample < p.sample}

SortedPoints(points) ==
    LET real == {points[i] : i \in {j \in DOMAIN points :
                                       points[j].sample # Placeholder}}
        blank == [sample |-> Placeholder, offset |-> 0, frameSamples |-> 0]
    IN  [i \in DOMAIN points |->
            IF i > Cardinality(real) THEN blank
            ELSE CHOOSE p \in real : Cardinality(Before(real, p)) = i - 1]

(* update_metadata_, one field of the header: seek, then write.  A client   *)
(* that does not support seeking ends it quietly, a failure with an error.  *)
UpdateHeader ==
    /\ call.op = "finish" /\ call.todo # <<>>
    /\ LET info == enc.streaminfo
           field == Head(call.todo)
           skipped == field = "points"
                      /\ (enc.seekTable = NoTable \/ enc.seektableOffset = 0)
           sorted == [tables EXCEPT ![enc.seekTable] = SortedPoints(@)]
           patched ==
               CASE field = "md5" -> out
                 [] field = "total" ->
                        Patched(out, enc.streaminfoOffset, "streaminfo",
                                "total", info.total)
                 [] field = "sizes" ->
                        Patched(out, enc.streaminfoOffset, "streaminfo",
                                "sizes", <<info.min, info.max>>)
                 [] field = "points" ->
                        Patched(out, enc.seektableOffset, "seektable",
                                "points", sorted[enc.seekTable])
       IN  \/ /\ skipped
              /\ call' = [call EXCEPT !.todo = <<>>]
              /\ UNCHANGED <<enc, tables, out, history>>
           \/ /\ ~skipped /\ enc.client = "pipe"
              /\ call' = [call EXCEPT !.todo = <<>>]
              /\ tables' = IF field = "points" THEN sorted ELSE tables
              /\ UNCHANGED <<enc, out, history>>
           \/ /\ ~skipped /\ enc.client = "file"
              /\ \E f \in Faults({"none", "seek", "write"}) :
                    LET r == IF f = "none" THEN Done(enc, tables, patched)
                             ELSE Failed(enc, tables, out, "CLIENT_ERROR")
                    IN  /\ enc' = r.enc /\ out' = r.out
                        /\ call' = IF r.ok THEN [call EXCEPT !.todo = Tail(@)]
                                   ELSE [call EXCEPT !.todo = <<>>, !.error = TRUE]
                        /\ history' = Counted(f, FALSE, r)
              /\ tables' = IF field = "points" THEN sorted ELSE tables
    /\ UNCHANGED <<given, finish>>

(* The end of finish: the file is closed, everything is freed, the settings *)
(* are the defaults again, and the state with them unless there was an      *)
(* error in this very call.  The verifying decoder does not check the MD5   *)
(* sum, so its finish never fails.                                          *)
FinishReturns ==
    /\ call.op = "finish" /\ call.todo = <<>>
    /\ enc' = WithDefaults([enc EXCEPT
                !.state = IF call.error THEN @ ELSE "UNINITIALIZED",
                !.signal = <<>>, !.fifo = <<>>, !.file = "closed"])
    /\ call' = NoCall
    /\ finish' = IF call.error THEN "false" ELSE "true"
    /\ UNCHANGED <<tables, out, given, history>>

(* delete: finish without a last block, an update of the header or a word   *)
(* to the client; it does nothing when the encoder is not initialized.      *)
Delete ==
    /\ call = NoCall /\ finish # "deleted"
    /\ enc' = IF enc.state = "UNINITIALIZED" THEN enc
              ELSE WithDefaults([enc EXCEPT !.state = "UNINITIALIZED",
                                            !.signal = <<>>, !.fifo = <<>>,
                                            !.file = "closed"])
    /\ finish' = "deleted"
    /\ UNCHANGED <<tables, out, call, given, history>>

Next ==
    \/ Setters \/ InitStream \/ WriteHeaderUnit \/ HeaderWritten
    \/ Process \/ ProcessChunk
    \/ Finish \/ UpdateHeader \/ FinishReturns \/ Delete

Spec == Init /\ [][Next]_vars

-----------------------------------------------------------------------------
(* Properties.                                                             *)
FramesOf(units) ==
    LET kept[n \in 0..Len(units)] ==
            IF n = 0 THEN <<>>
            ELSE IF units[n].type = "frame" THEN Append(kept[n - 1], units[n])
            ELSE kept[n - 1]
    IN  kept[Len(units)]

AudioOf(frames) ==
    LET heard[n \in 0..Len(frames)] ==
            IF n = 0 THEN <<>> ELSE heard[n - 1] \o Decoded(frames[n])
    IN  heard[Len(frames)]

Frames == FramesOf(out)
Audio == AudioOf(Frames)

(* The stream is the signal: what the frames that were written decode to is *)
(* the beginning of what the client handed over, numbered without a gap,    *)
(* however the calls cut it; and all of it once finish reports success and  *)
(* no call failed before.  Only a coder that goes wrong while nobody        *)
(* verifies can break this (process, process_frame_, get_wasted_bits_,      *)
(* verify_write_callback_).                                                 *)
Lossless ==
    /\ ~history.unverified => IsPrefix(Audio, given)
    /\ \A i \in DOMAIN Frames : Frames[i].number = i - 1
    /\ (finish = "true" /\ ~history.failed /\ ~history.unverified)
        => Audio = given

(* The verification blames nobody wrongly: a stream is given up for a       *)
(* mismatch only if a frame was really miscoded.  The fifo must hold, at    *)
(* every frame, exactly the samples that were buffered and not yet written, *)
(* and never more than it has room for (append_to_verify_fifo_).            *)
NoFalseAlarm ==
    /\ history.mismatch => history.miscoded
    /\ Len(enc.fifo) <= enc.fifoSize
    /\ (enc.state = "OK" /\ enc.verify /\ ~history.miscoded) =>
         (enc.fifo = SubSeq(given, Len(Audio) + 1,
                            Len(given) - (IF call.op = "process" THEN Len(call.todo)
                                          ELSE 0)))

WellFinished == finish = "true" /\ ~history.failed /\ history.client = "file"

(* The header that is patched at the end describes the stream: the total of *)
(* samples, the smallest and the largest frame, one block marked as the     *)
(* last.  (Of a stream without frames the code leaves the absurdly high     *)
(* minimum in the header.)  update_metadata_, write_frame_.                 *)
HeaderTrue ==
    /\ \A i \in DOMAIN out : out[i].type # "ruined"
    /\ (WellFinished /\ given # <<>>) =>
        LET info == out[CHOOSE i \in DOMAIN out : out[i].type = "streaminfo"]
            sizes == {Frames[i].size : i \in DOMAIN Frames}
            blocks == {i \in DOMAIN out : out[i].type \notin {"magic", "frame"}}
        IN  /\ info.total = Len(given)
            /\ info.sizes[1] \in sizes /\ \A s \in sizes : info.sizes[1] <= s
            /\ info.sizes[2] \in sizes /\ \A s \in sizes : info.sizes[2] >= s
            /\ \A i \in blocks : out[i].last <=> \A j \in blocks : j <= i

(* A seek point leads to a frame: it names its first sample, the bytes      *)
(* before it, and how many samples it has.                                  *)
LeadsTo(p, frames) ==
    \E i \in DOMAIN frames :
        LET before == SubSeq(frames, 1, i - 1)
        IN  /\ p.sample = Len(AudioOf(before))
            /\ p.offset = Position(before)
            /\ p.frameSamples = Len(frames[i].coded)

(* Every seek point of a finished file for a sample that exists leads to    *)
(* the frame that begins with it, and the table is in order (the marking in *)
(* write_frame_, the sort in update_metadata_).  A point for a sample past  *)
(* the end stays as the client made it.                                     *)
SeekPointsTrue ==
    WellFinished =>
        \A k \in OfType(out, "seektable") :
            LET points == out[k].points
            IN  /\ LegalPoints(points)
                /\ \A j \in DOMAIN points :
                     points[j].sample < Len(given) => LeadsTo(points[j], Frames)

(* The documentation of finish: it returns false if "verify mode is set"    *)
(* and "there was a verify mismatch".                                       *)
FinishTellsMismatch ==
    history.mismatch => finish # "true"

(* The comment in init_FILE_internal_: the FILE is assigned before any      *)
(* further error can occur "to make sure that our file does not go unclosed *)
(* after an error".                                                         *)
FileClosed == finish = "deleted" => enc.file = "closed"

(* The documentation of set_metadata: the blocks must survive until finish  *)
(* returns; the seek table an encoder edits is one of its stream's.         *)
OwnSeekTable ==
    (enc.state = "OK" /\ enc.seekTable # NoTable) =>
        \E i \in OfType(enc.metadata, "seektable") :
            enc.metadata[i].table = enc.seekTable
=============================================================================
