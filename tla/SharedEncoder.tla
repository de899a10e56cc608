---------------------------- MODULE SharedEncoder -----------------------------
(***************************************************************************)
(* One FlacEncoder (voice/encoder/FlacEncoder.java) with its LibFlac       *)
(* object and the native handle of jni/libflac.c, used by every session    *)
(* that is started with the RecordStrategy it belongs to.  The samples of  *)
(* the repository keep one strategy for all their sessions.                *)
(*                                                                         *)
(* A new VoiceRecorder is started when stop() of the last one has          *)
(* returned, but its reader may not have seen the flag yet: it releases    *)
(* the encoder later, on a thread and under a lock of its own.  Nothing    *)
(* orders the two readers' accesses to the fields of FlacEncoder.          *)
(*                                                                         *)
(* A LibFlac object and a native handle are named by the session whose     *)
(* initialize() created them.  The stream of handle h is the header, block *)
(* 0, and then the blocks that were encoded with it, in order.             *)
(***************************************************************************)
EXTENDS Integers

CONSTANTS
    Sessions,
    Nobody,     \* null
    MaxBlocks,  \* bound: blocks a session captures
    Latency     \* blocks libFLAC may hold back

ASSUME SharedAssumption ==
    /\ Nobody \notin Sessions
    /\ MaxBlocks \in Nat
    /\ Latency \in Nat

VARIABLES
    at,            \* where the reader of each session is
    stopped,       \* stop() of another thread has reached the session
    captured,      \* blocks the session passed to encode()
    outfile,       \* the listener's stream: "null", "open", "closed"
    file,          \* the blocks the listener has written to it
    encodingReady, \* field of Encoder: where output goes
    libFlac,       \* field of FlacEncoder
    cPointer,      \* field of each LibFlac object
    native,        \* state of each handle
    given,         \* how many blocks of its stream a handle has put out
    fault,         \* what killed the process, "none" while it lives
    overlapped     \* history: a session was started before the last was over

sessionVars == <<captured, outfile, file>>
nativeVars == <<native, given>>
encoderVars == <<encodingReady, libFlac, cPointer>>
vars == <<at, stopped, sessionVars, encoderVars, nativeVars, fault, overlapped>>

Init ==
    /\ at = [r \in Sessions |-> "new"]
    /\ stopped = [r \in Sessions |-> FALSE]
    /\ captured = [r \in Sessions |-> 0]
    /\ outfile = [r \in Sessions |-> "null"]
    /\ file = [r \in Sessions |-> {}]
    /\ encodingReady = Nobody
    /\ libFlac = Nobody
    /\ cPointer = [r \in Sessions |-> Nobody]
    /\ native = [r \in Sessions |-> "none"]
    /\ given = [r \in Sessions |-> 0]
    /\ fault = "none"
    /\ overlapped = FALSE

Alive == fault = "none"

Move(r, from, to) ==
    /\ Alive
    /\ at[r] = from
    /\ at' = [at EXCEPT ![r] = to]

(* The process dies in session r's thread: of an exception that run() does *)
(* not catch ("null", "uninitialized"), or because a handle is used as it  *)
(* must not be ("undefined": the native code's behaviour is, or libFLAC    *)
(* refuses).                                                               *)
Dies(r, from, f) ==
    /\ Alive
    /\ at[r] = from
    /\ fault' = f
    /\ UNCHANGED <<at, stopped, sessionVars, encoderVars, nativeVars, overlapped>>

Blocks(h, n, m) == {h} \X (n..(m - 1))

(* onEncoded, for blocks n, ..., m - 1 of stream h: the listener of the    *)
(* session that encodingReady refers to writes them, loses them if its     *)
(* file is closed, and throws if it has none yet.                          *)
Receives(h, n, m) ==
    \/ /\ n = m \/ outfile[encodingReady] = "closed"
       /\ UNCHANGED <<file, fault>>
    \/ /\ n < m /\ outfile[encodingReady] = "null"
       /\ fault' = "null"
       /\ UNCHANGED file
    \/ /\ n < m /\ outfile[encodingReady] = "open"
       /\ file' = [file EXCEPT ![encodingReady] = @ \cup Blocks(h, n, m)]
       /\ UNCHANGED fault

(* Faulty: the count is one ahead.                                         *)
WritesOneMore(h, m) ==
    /\ given' = [given EXCEPT ![h] = m + 1]
    /\ Receives(h, given[h], m)

(* libFLAC calls writeCallback for the blocks of h before m.               *)
Writes(h, m) ==
    /\ given' = [given EXCEPT ![h] = m]
    /\ Receives(h, given[h], m)

(* The handle that the field libFlac leads to.                             *)
Handle == IF libFlac = Nobody THEN Nobody ELSE cPointer[libFlac]

HandleState == IF Handle = Nobody THEN "null" ELSE native[Handle]

(* The handle has something to put out, on a thread it was not made for.   *)
Foreign(r) ==
    /\ Handle # r
    /\ HandleState = "ready"
    /\ given[Handle] <= captured[Handle]

-----------------------------------------------------------------------------
(* The client's thread                                                     *)

Over == {"new", "over"}

(* startRecordVoice stops the last recorder first.  A session that ends by *)
(* itself holds its lock until it is over, so that stop() waits for it.    *)
(* (A session the service lost track of, StopStops of                      *)
(* VoiceRecorderService, is left out: it takes an overlap to lose one.)    *)
ClientReady(r) ==
    \A q \in Sessions \ {r} : at[q] \in Over \/ stopped[q]

(* The client waited for the onRecordEnd of every session it started.      *)
Overlaps(r) ==
    overlapped' = (overlapped \/ \E q \in Sessions \ {r} : at[q] \notin Over)

(* Faulty: the encoder keeps its first recorder.                           *)
StartKeepsReady(r) ==
    /\ Move(r, "new", "top")
    /\ ClientReady(r)
    /\ Overlaps(r)
    /\ encodingReady' = IF encodingReady = Nobody THEN r ELSE encodingReady
    /\ UNCHANGED <<stopped, sessionVars, libFlac, cPointer, nativeVars, fault>>

(* VoiceRecorder.start; the encoder's output is redirected at once.        *)
Start(r) ==
    /\ Move(r, "new", "top")
    /\ ClientReady(r)
    /\ Overlaps(r)
    /\ encodingReady' = r
    /\ UNCHANGED <<stopped, sessionVars, libFlac, cPointer, nativeVars, fault>>

(* VoiceRecorder.stop gets the lock between two iterations: what a stopped *)
(* session still does with the encoder is to release it.                   *)
Stop(r) ==
    /\ Alive
    /\ at[r] = "top"
    /\ stopped' = [stopped EXCEPT ![r] = TRUE]
    /\ UNCHANGED <<at, sessionVars, encoderVars, nativeVars, fault, overlapped>>

-----------------------------------------------------------------------------
(* The reader of session r                                                 *)

Listening(r) == ~stopped[r] /\ captured[r] < MaxBlocks

(* The first voiced block: onRecordStart opens the file.                   *)
HearFirst(r) ==
    /\ Move(r, "top", "initializing")
    /\ Listening(r)
    /\ captured[r] = 0
    /\ outfile' = [outfile EXCEPT ![r] = "open"]
    /\ UNCHANGED <<stopped, captured, file, encoderVars, nativeVars, fault, overlapped>>

HearMore(r) ==
    /\ Move(r, "top", "encoding")
    /\ Listening(r)
    /\ captured[r] > 0
    /\ UNCHANGED <<stopped, sessionVars, encoderVars, nativeVars, fault, overlapped>>

(* FlacEncoder.initialize: a LibFlac object unless there is one, ...       *)
MakeLibFlac(r) ==
    /\ Move(r, "initializing", "opening")
    /\ libFlac' = IF libFlac = Nobody THEN r ELSE libFlac
    /\ UNCHANGED <<stopped, sessionVars, encodingReady, cPointer, nativeVars, fault, overlapped>>

(* ... whose initialize overwrites its handle with a new one ...           *)
OpenHandle(r) ==
    \/ /\ libFlac = Nobody
       /\ Dies(r, "opening", "null")
    \/ /\ libFlac # Nobody
       /\ Move(r, "opening", "configuring")
       /\ cPointer' = [cPointer EXCEPT ![libFlac] = r]
       /\ native' = [native EXCEPT ![r] = "new"]
       /\ UNCHANGED <<stopped, sessionVars, encodingReady, libFlac, given, fault, overlapped>>

(* ... and sets it up, unless another thread has freed it: init_stream     *)
(* puts out the header of the stream.                                      *)
Configure(r) ==
    \/ /\ native[r] # "new"
       /\ Dies(r, "configuring", "undefined")
    \/ /\ native[r] = "new"
       /\ Move(r, "configuring", "encoding")
       /\ native' = [native EXCEPT ![r] = "ready"]
       /\ Writes(r, 1)
       /\ UNCHANGED <<stopped, captured, outfile, encoderVars, overlapped>>

(* FlacEncoder.encode looks whether it was initialized ...                 *)
CheckInitialized(r) ==
    \/ /\ libFlac = Nobody
       /\ Dies(r, "encoding", "uninitialized")
    \/ /\ libFlac # Nobody
       /\ Move(r, "encoding", "feeding")
       /\ UNCHANGED <<stopped, sessionVars, encoderVars, nativeVars, fault, overlapped>>

(* ... and gives the block to libFLAC, which may hold back some.  A handle *)
(* of another session was made for another thread's JNIEnv.  A block that  *)
(* libFLAC refuses is EncodeCrashes of VoiceRecorder.                      *)
Feed(r) ==
    \/ /\ libFlac = Nobody
       /\ Dies(r, "feeding", "null")
    \/ /\ libFlac # Nobody
       /\ Handle # r \/ native[r] # "ready"
       /\ Dies(r, "feeding", "undefined")
    \/ /\ Handle = r
       /\ native[r] = "ready"
       /\ Move(r, "feeding", "encoded")
       /\ captured' = [captured EXCEPT ![r] = @ + 1]
       /\ \E m \in given[r]..(captured[r] + 2) :
             m >= captured[r] + 2 - Latency /\ Writes(r, m)
       /\ UNCHANGED <<stopped, outfile, encoderVars, native, overlapped>>

(* The rest of the iteration: another one, or an end by a limit.           *)
GoOn(r) ==
    /\ \/ Move(r, "encoded", "top")
       \/ Move(r, "encoded", "ending")
    /\ UNCHANGED <<stopped, sessionVars, encoderVars, nativeVars, fault, overlapped>>

SeeStop(r) ==
    /\ Move(r, "top", "ending")
    /\ stopped[r]
    /\ UNCHANGED <<stopped, sessionVars, encoderVars, nativeVars, fault, overlapped>>

(* endRecording: FlacEncoder.release, if a voice was recorded and there is *)
(* something to release, ...                                               *)
CheckRelease(r) ==
    /\ Move(r, "ending", IF captured[r] > 0 /\ libFlac # Nobody
                         THEN "finishing" ELSE "notifying")
    /\ UNCHANGED <<stopped, sessionVars, encoderVars, nativeVars, fault, overlapped>>

(* Faulty: finish also frees the handle.                                   *)
FinishFrees(r) ==
    /\ Handle = r /\ native[r] = "ready"
    /\ Move(r, "finishing", "freeing")
    /\ native' = [native EXCEPT ![r] = "freed"]
    /\ Writes(r, captured[r] + 1)
    /\ UNCHANGED <<stopped, captured, outfile, encoderVars, overlapped>>

(* ... puts out what libFLAC holds, on the thread the handle was made for. *)
(* A handle that was not set up, or is finished, is left as it is ...      *)
Finish(r) ==
    \/ /\ libFlac = Nobody
       /\ Dies(r, "finishing", "null")
    \/ /\ libFlac # Nobody
       /\ HandleState \in {"null", "freed"} \/ Foreign(r)
       /\ Dies(r, "finishing", "undefined")
    \/ /\ HandleState \in {"new", "finished"}
       /\ Move(r, "finishing", "freeing")
       /\ UNCHANGED <<stopped, sessionVars, encoderVars, nativeVars, fault, overlapped>>
    \/ /\ HandleState = "ready"
       /\ ~Foreign(r)
       /\ Move(r, "finishing", "freeing")
       /\ native' = [native EXCEPT ![Handle] = "finished"]
       /\ Writes(Handle, captured[Handle] + 1)
       /\ UNCHANGED <<stopped, captured, outfile, encoderVars, overlapped>>

(* Faulty: the handle is not freed.                                        *)
FreeNothing(r) ==
    /\ Move(r, "freeing", "forgetting")
    /\ UNCHANGED <<stopped, sessionVars, encoderVars, nativeVars, fault, overlapped>>

(* ... frees it; a LibFlac that was never initialized has nothing to free  *)
Free(r) ==
    \/ /\ libFlac = Nobody
       /\ Dies(r, "freeing", "null")
    \/ /\ HandleState = "freed"
       /\ Dies(r, "freeing", "undefined")
    \/ /\ libFlac # Nobody
       /\ HandleState = "null"
       /\ Move(r, "freeing", "forgetting")
       /\ UNCHANGED <<stopped, sessionVars, encoderVars, nativeVars, fault, overlapped>>
    \/ /\ HandleState \notin {"null", "freed"}
       /\ Move(r, "freeing", "forgetting")
       /\ native' = [native EXCEPT ![Handle] = "freed"]
       /\ UNCHANGED <<stopped, sessionVars, encoderVars, given, fault, overlapped>>

(* ... and forgets the LibFlac object.                                     *)
Forget(r) ==
    /\ Move(r, "forgetting", "notifying")
    /\ libFlac' = Nobody
    /\ UNCHANGED <<stopped, sessionVars, encodingReady, cPointer, nativeVars, fault, overlapped>>

(* onRecordEnd closes the file; run() returns.                             *)
NotifyEnd(r) ==
    /\ Move(r, "notifying", "over")
    /\ outfile' = [outfile EXCEPT ![r] = IF @ = "open" THEN "closed" ELSE @]
    /\ UNCHANGED <<stopped, captured, file, encoderVars, nativeVars, fault, overlapped>>

-----------------------------------------------------------------------------

Reader(r) ==
    \/ HearFirst(r) \/ HearMore(r)
    \/ MakeLibFlac(r) \/ OpenHandle(r) \/ Configure(r)
    \/ CheckInitialized(r) \/ Feed(r)
    \/ GoOn(r) \/ SeeStop(r)
    \/ CheckRelease(r) \/ Finish(r) \/ Free(r) \/ Forget(r)
    \/ NotifyEnd(r)

Next == \E r \in Sessions : Start(r) \/ Stop(r) \/ Reader(r)

Spec == Init /\ [][Next]_vars

-----------------------------------------------------------------------------
(* Properties                                                              *)

Places == {"new", "top", "initializing", "opening", "configuring", "encoding",
           "feeding", "encoded", "ending", "finishing", "freeing", "forgetting",
           "notifying", "over"}

(* Every variable has its type, and no handle puts out more than it got.   *)
TypeOK ==
    /\ at \in [Sessions -> Places]
    /\ stopped \in [Sessions -> BOOLEAN]
    /\ captured \in [Sessions -> Nat]
    /\ outfile \in [Sessions -> {"null", "open", "closed"}]
    /\ file \in [Sessions -> SUBSET (Sessions \X Nat)]
    /\ encodingReady \in Sessions \cup {Nobody}
    /\ libFlac \in Sessions \cup {Nobody}
    /\ cPointer \in [Sessions -> Sessions \cup {Nobody}]
    /\ native \in [Sessions -> {"none", "new", "ready", "finished", "freed"}]
    /\ given \in [Sessions -> Nat]
    /\ \A h \in Sessions : given[h] <= captured[h] + 1
    /\ fault \in {"none", "null", "uninitialized", "undefined"}
    /\ overlapped \in BOOLEAN

(* If the client waits for onRecordEnd before it starts another session    *)
(* no use of the encoder fails: no field is null that was checked before,  *)
(* no handle is used or freed after it was freed, or used by a thread it   *)
(* was not made for (FlacEncoder.java:50-86, libflac.c:95-138).            *)
NeverFails == ~overlapped => fault = "none"

(* Then the stream of a session, header first, is what its own listener    *)
(* gets, all of it by the time its onRecordEnd is called, although every   *)
(* session redirects the encoder (Encoder.setEncodingReady) to itself.     *)
OwnStream ==
    ~overlapped => \A r \in Sessions :
        /\ file[r] \subseteq Blocks(r, 0, captured[r] + 1)
        /\ at[r] = "over" /\ captured[r] > 0 => file[r] = Blocks(r, 0, captured[r] + 1)

(* And when no session is going on, every native handle that was made has  *)
(* been freed (FlacEncoder.java:80-86).                                    *)
NothingLeaks ==
    ~overlapped /\ (\A r \in Sessions : at[r] \in Over) =>
        \A h \in Sessions : native[h] \in {"none", "freed"}

-----------------------------------------------------------------------------
(* The inductive invariant, which tells of every place of a reader what    *)
(* its session has of the encoder                                          *)

Active(r) == at[r] \notin Over

Recorded(r) == at[r] \in {"top", "ending"} /\ captured[r] > 0

HasReady(r) ==
    at[r] \in {"encoding", "feeding", "encoded", "finishing"} \/ Recorded(r)

HasLibFlac(r) ==
    at[r] \in {"opening", "configuring", "freeing", "forgetting"} \/ HasReady(r)

HasNothing(r) ==
    \/ at[r] \in {"new", "initializing", "opening"}
    \/ at[r] \in {"top", "ending", "notifying", "over"} /\ captured[r] = 0

HasFreed(r) ==
    \/ at[r] = "forgetting"
    \/ at[r] \in {"notifying", "over"} /\ captured[r] > 0

SessionInv(r) ==
    /\ Active(r) => encodingReady = r
    /\ HasLibFlac(r) <=> libFlac = r
    /\ HasLibFlac(r) /\ at[r] # "opening" => cPointer[r] = r
    /\ HasLibFlac(r) \/ at[r] = "initializing" => outfile[r] = "open"
    /\ at[r] \in {"new", "initializing", "opening", "configuring"} => captured[r] = 0
    /\ at[r] \in {"encoded", "finishing", "freeing", "forgetting"} => captured[r] > 0
    /\ HasNothing(r) => native[r] = "none" /\ given[r] = 0
    /\ at[r] = "configuring" => native[r] = "new" /\ given[r] = 0
    /\ HasReady(r) => native[r] = "ready"
    /\ at[r] = "freeing" => native[r] = "finished" /\ given[r] = captured[r] + 1
    /\ HasFreed(r) => native[r] = "freed" /\ given[r] = captured[r] + 1
    /\ file[r] = Blocks(r, 0, given[r])

OneAtATime == \A r, q \in Sessions : Active(r) /\ Active(q) => r = q

Clean == fault = "none" /\ OneAtATime /\ \A r \in Sessions : SessionInv(r)

IInv == TypeOK /\ (~overlapped => Clean)

-----------------------------------------------------------------------------
(* FlacEncoder.java:71: encode() throws "initialize has not been called"   *)
(* only if it has not been called.  A session always calls it first.       *)
ComplainsRightly == fault # "uninitialized"
=============================================================================
