--------------------------- MODULE VoiceRecorder ----------------------------
(***************************************************************************)
(* One VoiceRecorder (voice/android/VoiceRecorder.java): the thread that   *)
(* calls start() and stop(), the reader thread "read-audio-buffer" that    *)
(* runs TransferFromAudioRecorder.run, the microphone, and the encoder the *)
(* reader feeds.                                                           *)
(*                                                                         *)
(* run() holds `lock` for a whole iteration of its loop and stop() takes   *)
(* the same lock, so a stop() of another thread happens only where the     *)
(* reader is outside the synchronized block (LockFree).  Java monitors are *)
(* reentrant: a stop() made inside a callback of the reader, or inside     *)
(* read() as the repository's own MockAudioRecord does, runs in the middle *)
(* of an iteration (CallbackMayStop).                                      *)
(*                                                                         *)
(* Times are in units of the instances' choosing.  A block of audio is     *)
(* one successful AudioRecord.read.                                        *)
(***************************************************************************)
EXTENDS Integers

CONSTANTS
    MaxRecordDuration, \* RecordStrategy.getMaxRecordDuration()
    SpeechTimeout,     \* RecordStrategy.getSpeechTimeout(); 0 switches it off
    Gaps,              \* wall-clock time between two successful reads
    MaxGap,            \* the longest of them
    LeadIn,            \* bound: wall-clock time that may pass before the first voice
    Latency,           \* blocks an encoder may hold back: 0 for WAV, > 0 for FLAC
    EncoderFaults,     \* how encode() may throw: "checked", "unchecked"
    Reentrant,         \* callbacks (or read) may call stop()
    MicMayDie          \* read() may return <= 0 from some point on

ASSUME TimesAssumption ==
    /\ MaxRecordDuration \in Nat
    /\ SpeechTimeout \in Nat
    /\ MaxGap \in Nat
    /\ LeadIn \in Nat
    /\ Gaps \subseteq 1..MaxGap

ASSUME EncoderAssumption ==
    /\ Latency \in Nat
    /\ EncoderFaults \subseteq {"checked", "unchecked"}

ASSUME SwitchAssumption == Reentrant \in BOOLEAN /\ MicMayDie \in BOOLEAN

NotHeard == -1   \* stands for Long.MAX_VALUE in voiceHeardMillis

NotEnded == "none"

VARIABLES
    pc,          \* where the session's thread is
    stop,        \* field stop
    thread,      \* field thread # null
    audioRecord, \* field audioRecord # null: the microphone is held
    voiceHeardMillis,
    voiceStartStartedMillis,
    now,         \* System.currentTimeMillis() at the last successful read
    hearing,     \* the branch of isHearingVoice the iteration is in
    micAlive,    \* read() still returns audio
    encoderOpen, \* the encoder is initialized and not released
    held,        \* blocks inside the encoder
    captured,    \* blocks passed to Encoder.encode
    delivered,   \* blocks passed to EventListener.onRecording
    endState     \* argument of endRecording

lockVars == <<stop, thread, audioRecord>>
timeVars == <<voiceHeardMillis, voiceStartStartedMillis, now, hearing>>
audioVars == <<encoderOpen, held, captured, delivered>>
vars == <<pc, lockVars, timeVars, micAlive, audioVars, endState>>

-----------------------------------------------------------------------------

Init ==
    /\ pc = "new"
    /\ stop = FALSE
    /\ thread = FALSE
    /\ audioRecord = FALSE
    /\ voiceHeardMillis = NotHeard
    /\ voiceStartStartedMillis = 0
    /\ now = 0
    /\ hearing = FALSE
    /\ micAlive = TRUE
    /\ encoderOpen = FALSE
    /\ held = 0
    /\ captured = 0
    /\ delivered = 0
    /\ endState = NotEnded

(* Faulty: stop() that does not raise the flag, or keeps the microphone.   *)
StopForgetsFlag == UNCHANGED stop /\ thread' = FALSE /\ audioRecord' = FALSE

StopKeepsMicrophone ==
    /\ IF thread THEN stop' = TRUE ELSE UNCHANGED stop
    /\ thread' = FALSE
    /\ UNCHANGED audioRecord

(* The body of stop(), under the lock.                                     *)
StopBody ==
    /\ IF thread THEN stop' = TRUE ELSE UNCHANGED stop
    /\ thread' = FALSE
    /\ audioRecord' = FALSE

(* A callback returns; it may have called stop() on the reader's thread.   *)
CallbackMayStop ==
    \/ UNCHANGED lockVars
    \/ Reentrant /\ StopBody

(* Where the lock is free for a thread other than the reader.  In "new",   *)
(* "failed" and "queued" the reader does not run yet, in "top" it is       *)
(* between two iterations, in "done" it has left run().                    *)
LockFree == pc \in {"new", "failed", "queued", "discarded", "top", "done"}

-----------------------------------------------------------------------------
(* The encoder: WavEncoder hands every block on, FlacEncoder keeps what    *)
(* libFLAC has not made a frame of yet, and gives it out when finished.    *)

EncoderInitialize == encoderOpen' = TRUE

(* Faulty: the encoder gives out one block too few.                        *)
EncoderDropsBlock ==
    /\ held' \in 0..Latency
    /\ held' <= held + 1
    /\ delivered' = delivered + held - held'

EncoderEncode ==
    /\ held' \in 0..Latency
    /\ held' <= held + 1
    /\ delivered' = delivered + held + 1 - held'

(* Faulty: the encoder is not released.                                    *)
EncoderNotReleased == UNCHANGED <<encoderOpen, held, delivered>>

EncoderRelease ==
    /\ encoderOpen' = FALSE
    /\ delivered' = delivered + held
    /\ held' = 0

-----------------------------------------------------------------------------
(* The thread that owns the recorder                                       *)

(* createAudioRecord: either some sample rate of SAMPLE_RATE_CANDIDATES    *)
(* gives an initialized AudioRecord, or none does.                         *)
CreateAudioRecord == BOOLEAN

(* start(): throws without a microphone; otherwise the reader is posted to *)
(* its new HandlerThread.                                                  *)
Start ==
    /\ pc = "new"
    /\ \E opened \in CreateAudioRecord :
          /\ audioRecord' = opened
          /\ thread' = opened
          /\ pc' = IF opened THEN "queued" ELSE "failed"
    /\ UNCHANGED <<stop, timeVars, micAlive, audioVars, endState>>

(* stop() of a thread that waited for the lock.  thread.quit() throws away *)
(* the Runnable if the looper has not taken it from its queue yet.         *)
Stop ==
    /\ LockFree
    /\ pc # "new"
    /\ StopBody
    /\ pc' = IF pc = "queued" THEN "discarded" ELSE pc
    /\ UNCHANGED <<timeVars, micAlive, audioVars, endState>>

-----------------------------------------------------------------------------
(* The reader thread                                                       *)

(* The looper of the HandlerThread dispatches the Runnable.                *)
Run ==
    /\ pc = "queued"
    /\ pc' = "top"
    /\ UNCHANGED <<lockVars, timeVars, micAlive, audioVars, endState>>

(* Line 254: the flag is seen at the top of an iteration.                  *)
SeeStop ==
    /\ pc = "top"
    /\ stop
    /\ pc' = "ending"
    /\ endState' = "USER"
    /\ UNCHANGED <<lockVars, timeVars, micAlive, audioVars>>

(* read() delivered audio, but stop() was called inside it: line 259       *)
(* drops the block.                                                        *)
ReadWhileStopped ==
    /\ pc = "top"
    /\ ~stop
    /\ Reentrant
    /\ StopBody
    /\ UNCHANGED <<pc, timeVars, micAlive, audioVars, endState>>

(* A silent block before any voice: nothing is recorded, time passes.      *)
ReadLeadIn(d) ==
    /\ pc = "top"
    /\ ~stop
    /\ micAlive
    /\ voiceHeardMillis = NotHeard
    /\ now + d <= LeadIn
    /\ now' = now + d
    /\ UNCHANGED <<pc, lockVars, voiceHeardMillis, voiceStartStartedMillis,
                   hearing, micAlive, audioVars, endState>>

(* The first voiced block: onRecordStart and Encoder.initialize, whose     *)
(* header goes to onRecording; both callbacks may stop the recorder.       *)
HearFirstVoice ==
    /\ pc = "top"
    /\ ~stop
    /\ micAlive
    /\ voiceHeardMillis = NotHeard
    /\ hearing' = TRUE
    /\ voiceStartStartedMillis' = now
    /\ EncoderInitialize
    /\ CallbackMayStop
    /\ pc' = "encoding"
    /\ UNCHANGED <<voiceHeardMillis, now, micAlive, held, captured, delivered,
                   endState>>

(* Faulty: the flag is not looked at once a voice was heard.               *)
ReadBlockDespiteStop(d, h) ==
    /\ pc = "top"
    /\ audioRecord \/ stop
    /\ micAlive
    /\ voiceHeardMillis # NotHeard
    /\ now' = now + d
    /\ hearing' = h
    /\ pc' = "encoding"
    /\ UNCHANGED <<lockVars, voiceHeardMillis, voiceStartStartedMillis,
                   micAlive, audioVars, endState>>

(* Any block after the first voiced one, voiced (h) or silent.             *)
ReadBlock(d, h) ==
    /\ pc = "top"
    /\ ~stop
    /\ micAlive
    /\ voiceHeardMillis # NotHeard
    /\ now' = now + d
    /\ hearing' = h
    /\ pc' = "encoding"
    /\ UNCHANGED <<lockVars, voiceHeardMillis, voiceStartStartedMillis,
                   micAlive, audioVars, endState>>

(* Encoder.encode succeeds; what it gives out goes to onRecording.         *)
Encode ==
    /\ pc = "encoding"
    /\ captured' = captured + 1
    /\ EncoderEncode
    /\ CallbackMayStop
    /\ pc' = "encoded"
    /\ UNCHANGED <<timeVars, micAlive, encoderOpen, endState>>

(* encode() throws EncodingException: onRecordError, end() and             *)
(* endRecording(INTERRUPTED).  The block is lost.                          *)
EncodeFails ==
    /\ pc = "encoding"
    /\ "checked" \in EncoderFaults
    /\ captured' = captured + 1
    /\ StopBody
    /\ pc' = "ending"
    /\ endState' = "INTERRUPTED"
    /\ UNCHANGED <<timeVars, micAlive, encoderOpen, held, delivered>>

(* LibFlac.encode throws IllegalArgumentException when libFLAC refuses the *)
(* block: nothing catches it and the process dies.                         *)
EncodeCrashes ==
    /\ pc = "encoding"
    /\ "unchecked" \in EncoderFaults
    /\ pc' = "crashed"
    /\ UNCHANGED <<lockVars, timeVars, micAlive, audioVars, endState>>

(* Faulty: the maximum is counted from the last voice.                     *)
TooLongSinceVoice == now - voiceHeardMillis > MaxRecordDuration

TooLong == now - voiceStartStartedMillis > MaxRecordDuration

TooQuiet == SpeechTimeout > 0 /\ now - voiceHeardMillis > SpeechTimeout

(* Faulty: the recording ends without end().                               *)
EndWithoutStop(s) ==
    /\ UNCHANGED lockVars
    /\ endState' = s
    /\ pc' = "ending"

(* end() and the call of endRecording(s).                                  *)
EndBy(s) ==
    /\ StopBody
    /\ endState' = s
    /\ pc' = "ending"

NextIteration ==
    /\ pc' = "top"
    /\ UNCHANGED <<lockVars, endState>>

(* After a voiced block: lines 273-278.                                    *)
CheckMax ==
    /\ pc = "encoded"
    /\ hearing
    /\ voiceHeardMillis' = now
    /\ IF TooLong THEN EndBy("MAX") ELSE NextIteration
    /\ UNCHANGED <<voiceStartStartedMillis, now, hearing, micAlive, audioVars>>

(* After a silent block: lines 286-291.  The maximum is not looked at.     *)
CheckIdle ==
    /\ pc = "encoded"
    /\ ~hearing
    /\ IF TooQuiet THEN EndBy("IDLE") ELSE NextIteration
    /\ UNCHANGED <<timeVars, micAlive, audioVars>>

(* The first half of endRecording: if a voiced block was encoded the       *)
(* encoder is released, which hands what it holds to onRecording.          *)
ReleaseEncoder ==
    /\ pc = "ending"
    /\ pc' = "notifying"
    /\ IF voiceHeardMillis # NotHeard
       THEN /\ voiceHeardMillis' = NotHeard
            /\ EncoderRelease
            /\ CallbackMayStop
       ELSE UNCHANGED <<voiceHeardMillis, encoderOpen, delivered, held, lockVars>>
    /\ UNCHANGED <<voiceStartStartedMillis, now, hearing, micAlive, captured,
                   endState>>

(* Faulty: the return after endRecording is missing.                       *)
NotifyWithoutReturn ==
    /\ pc = "notifying"
    /\ CallbackMayStop
    /\ pc' = "top"
    /\ UNCHANGED <<timeVars, micAlive, audioVars, endState>>

(* The second half of endRecording: onRecordEnd; run() returns.            *)
NotifyEnd ==
    /\ pc = "notifying"
    /\ CallbackMayStop
    /\ pc' = "done"
    /\ UNCHANGED <<timeVars, micAlive, audioVars, endState>>

-----------------------------------------------------------------------------
(* The environment, and the whole                                          *)

(* From now on AudioRecord.read returns 0 or an error code: the loop spins *)
(* without changing anything.                                              *)
MicDies ==
    /\ MicMayDie
    /\ micAlive
    /\ micAlive' = FALSE
    /\ UNCHANGED <<pc, lockVars, timeVars, audioVars, endState>>

Terminated ==
    /\ pc \in {"failed", "discarded", "crashed", "done"}
    /\ UNCHANGED vars

Reader ==
    \/ Run
    \/ SeeStop
    \/ ReadWhileStopped
    \/ \E d \in Gaps : ReadLeadIn(d)
    \/ HearFirstVoice
    \/ \E d \in Gaps, h \in BOOLEAN : ReadBlock(d, h)
    \/ Encode
    \/ EncodeFails
    \/ EncodeCrashes
    \/ CheckMax
    \/ CheckIdle
    \/ ReleaseEncoder
    \/ NotifyEnd

Next == Start \/ Stop \/ Reader \/ MicDies \/ Terminated

Spec == Init /\ [][Next]_vars

(* The looper thread is scheduled; nobody has to start, speak or stop.     *)
FairSpec == Spec /\ WF_vars(Reader)

-----------------------------------------------------------------------------
(* Properties                                                              *)

Pcs == {"new", "failed", "queued", "discarded", "top", "encoding", "encoded",
        "ending", "notifying", "done", "crashed"}

(* Every field has its type.                                               *)
TypeOK ==
    /\ pc \in Pcs
    /\ stop \in BOOLEAN
    /\ thread \in BOOLEAN
    /\ audioRecord \in BOOLEAN
    /\ voiceHeardMillis \in Nat \cup {NotHeard}
    /\ voiceStartStartedMillis \in Nat
    /\ now \in Nat
    /\ hearing \in BOOLEAN
    /\ micAlive \in BOOLEAN
    /\ encoderOpen \in BOOLEAN
    /\ held \in Nat
    /\ captured \in Nat
    /\ delivered \in Nat
    /\ endState \in {NotEnded, "INTERRUPTED", "IDLE", "MAX", "USER"}

Ended == pc \in {"notifying", "done"}

(* The reader only calls audioRecord.read while the AudioRecord is there:  *)
(* stop() nulls it and raises the flag under one lock, so line 258 never   *)
(* meets a released microphone whatever the interleaving.                  *)
MicThereToRead == pc = "top" /\ ~stop => audioRecord /\ thread

(* When the end is announced the microphone and the looper thread are let  *)
(* go, on every path that leads there; so they are when start() fails or   *)
(* the Runnable is thrown away.                                            *)
MicReleased ==
    pc \in {"ending", "notifying", "done", "discarded", "failed"}
        => ~audioRecord /\ ~thread

(* Audio is neither lost nor doubled between Encoder.encode and            *)
(* onRecording: when onRecordEnd is called with a state that is not an     *)
(* error, every captured block has been handed to the listener, the ones   *)
(* the encoder was holding back included.                                  *)
AudioComplete == Ended /\ endState # "INTERRUPTED" => delivered = captured

(* The file is closed by onRecordEnd: by then the encoder has been         *)
(* released (Encoder.java:53-58), unless encoding failed.                  *)
EncoderClosed == Ended /\ endState # "INTERRUPTED" => ~encoderOpen

(* With a speech timeout a recording is never longer than the maximum, one *)
(* timeout and the block that shows it: the maximum is looked at only      *)
(* after a voiced block, the timeout only after a silent one.              *)
BoundedRecording ==
    SpeechTimeout > 0 /\ captured > 0 =>
        now - voiceStartStartedMillis <= MaxRecordDuration + SpeechTimeout + MaxGap

(* A stop() that found the reader between two iterations is final: no      *)
(* block is captured after it, only what the encoder holds comes out.      *)
Stopping == stop /\ pc \in {"top", "ending", "notifying", "done"}

StopIsFinal == [][Stopping => Stopping' /\ captured' = captured]_vars

(* A session with the view of its listener implements RecordingSession.    *)
Phase ==
    CASE pc = "new" -> "idle"
      [] pc = "queued" -> "armed"
      [] pc = "discarded" -> "dropped"
      [] pc = "done" -> "ended"
      [] pc \in {"failed", "crashed"} -> pc
      [] OTHER -> IF captured > 0 \/ pc = "encoding" THEN "recording" ELSE "armed"

Session == INSTANCE RecordingSession WITH
    phase <- Phase,
    endState <- IF pc = "done" THEN endState ELSE NotEnded

SessionSpec == Session!Spec

(* While the microphone delivers audio, a recording that has begun comes   *)
(* to its end: silence and speech both run into a limit.  Once read()      *)
(* fails nothing but a stop() ends it: line 259 skips both limits.         *)
RecordingEnds == captured > 0 ~> pc \in {"done", "crashed"} \/ ~micAlive

(* A stop() is always answered: the reader announces the end, unless the   *)
(* Runnable was thrown away before it ran (see EveryStopAnnounced).        *)
StopEnds == stop ~> pc \in {"done", "crashed", "discarded"}

-----------------------------------------------------------------------------
(* The inductive invariant behind the safety properties, in three parts    *)

ReaderPcs == {"top", "encoding", "encoded"}
EndingPcs == {"ending", "notifying", "done"}

(* What the lock protects: the looper thread and the microphone come and   *)
(* go together, and once they were there, the flag tells that they left.   *)
LockInv ==
    /\ audioRecord <=> thread
    /\ pc \in {"new", "failed", "discarded"} \cup EndingPcs => ~thread
    /\ pc \in ReaderPcs \cup EndingPcs => (stop <=> ~thread)
    /\ pc \in {"new", "queued"} => ~stop
    /\ pc = "queued" => thread

(* Where the blocks are.                                                   *)
AudioInv ==
    /\ delivered + held <= captured
    /\ pc \in {"new", "failed", "queued", "discarded"} => voiceHeardMillis = NotHeard
    /\ pc \in {"new", "failed", "queued", "discarded", "top"} /\ voiceHeardMillis = NotHeard
          => captured = 0 /\ ~encoderOpen
    /\ pc \in ReaderPcs \cup {"ending"} /\ endState # "INTERRUPTED"
          => delivered + held = captured
    /\ pc \in {"encoding", "encoded"} /\ voiceHeardMillis = NotHeard => hearing
    /\ pc = "encoding" => (voiceHeardMillis = NotHeard <=> captured = 0)
    /\ pc = "encoded" => captured > 0
    /\ voiceHeardMillis # NotHeard => captured > 0
    /\ pc = "ending" /\ voiceHeardMillis = NotHeard /\ endState # "INTERRUPTED"
          => captured = 0 /\ ~encoderOpen
    /\ pc \in {"notifying", "done"} => voiceHeardMillis = NotHeard
    /\ pc \in {"notifying", "done"} /\ endState # "INTERRUPTED"
          => delivered = captured /\ held = 0 /\ ~encoderOpen
    /\ pc \in EndingPcs /\ captured = 0 => endState = "USER"
    /\ pc \in EndingPcs <=> endState # NotEnded

(* How far the clock is from the last voice, and that from the first.      *)
TimeInv ==
    /\ pc \in {"encoding", "encoded"} /\ voiceHeardMillis = NotHeard
          => now = voiceStartStartedMillis
    /\ pc \in ReaderPcs /\ voiceHeardMillis # NotHeard
          => /\ voiceHeardMillis - voiceStartStartedMillis <= MaxRecordDuration
             /\ SpeechTimeout > 0 =>
                    now - voiceHeardMillis <=
                        SpeechTimeout + (IF pc = "top" THEN 0 ELSE MaxGap)

IInv == TypeOK /\ LockInv /\ AudioInv /\ TimeInv /\ BoundedRecording

-----------------------------------------------------------------------------
(* What the documentation says and the code does not do                    *)

(* README: the maximum is the total duration from the first voice until    *)
(* the end.  The code compares it only after a voiced block.               *)
DurationWithinMax ==
    pc = "top" /\ captured > 0 =>
        now - voiceStartStartedMillis <= MaxRecordDuration

(* README: onRecordEnd is called when the user stops the recording.        *)
EveryStopAnnounced == stop ~> pc = "done"
=============================================================================
