------------------------ MODULE VoiceRecorderService ------------------------
(***************************************************************************)
(* VoiceRecorderService (voice/android/VoiceRecorderService.java): the     *)
(* client's thread that calls startRecordVoice, stopRecordVoice and        *)
(* onUserChoice, the reader thread of every session, and the BackgroundTask*)
(* threads that send the recorded audio.                                   *)
(*                                                                         *)
(* The fields voiceRecorder, currentStrategy and stopPolicy and the cache  *)
(* file "aimmatic-audio.<ext>" are shared by all of them with no lock: an  *)
(* action makes at most one access to what another thread may change.  The *)
(* lock of a recorder is held by its reader from the first callback of an  *)
(* iteration to the end of the iteration; VoiceRecorder.tla looks inside   *)
(* it, here it only decides when a caller of VoiceRecorder.stop has to     *)
(* wait.  A recorder is named by its session; so is the RecordStrategy it  *)
(* was started with, and the file (inode) its reader created.              *)
(***************************************************************************)
EXTENDS Integers, Sequences, FiniteSets

CONSTANTS
    Sessions,     \* the calls of startRecordVoice
    Nobody,       \* null, or no file
    Strategies,   \* policies a RecordStrategy may have: records [IDLE, MAX]
    Extension,    \* file extension of the encoder of each session's strategy
    MaxBlocks,    \* bound: blocks of audio a session records
    Patience,     \* what the client waits for before it starts another session
    StopPolicies, \* policies the client passes to stopRecordVoice; {}: never stops
    NaturalEnds,  \* end states other than USER that occur
    DiskFaults,   \* what the disk may refuse: to open, write or close a file
    Moments       \* the milliseconds that tasks take their files in

Policies == {"CANCELED", "SEND", "CHOICE"}

ASSUME ServiceAssumption ==
    /\ Nobody \notin Sessions
    /\ Strategies \subseteq [{"IDLE", "MAX"} -> Policies]
    /\ MaxBlocks \in Nat \ {0}
    /\ Patience \in {"none", "notified", "quiet"}
    /\ StopPolicies \subseteq {"CANCELED", "SEND"}
    /\ NaturalEnds \subseteq {"INTERRUPTED", "IDLE", "MAX"}
    /\ DiskFaults \subseteq {"open", "write", "close"}
    /\ Moments # {} /\ Nobody \notin Moments

Extensions == {Extension[r] : r \in Sessions}

VARIABLES
    main,          \* the client's thread: where it is, and its locals
    voiceRecorder, \* the fields of the service
    currentStrategy,
    stopPolicy,
    rec,           \* the sessions, see Session0
    cache,         \* the file each cache file name leads to
    sendFiles,     \* and each name a file is sent by, the time in milliseconds
    content,       \* the blocks in each file
    tasks,         \* the BackgroundTasks, in the order they were made
    crashed,       \* an unchecked exception has killed the process
    uploads,       \* history: what was sent to the cloud
    stopReturned   \* history: the last call of the client was a stop

fields == <<voiceRecorder, currentStrategy, stopPolicy>>
files == <<cache, sendFiles, content>>
history == <<uploads, stopReturned>>
vars == <<main, fields, rec, files, tasks, crashed, history>>

Idle == [at |-> "idle", session |-> Nobody, target |-> Nobody, policy |-> "none"]

(* A session before startRecordVoice.  `at` is where its reader is, `stop` *)
(* and `mic` are fields of its VoiceRecorder (mic: thread and audioRecord  *)
(* are set), `outfile` and `end` belong to its listener; the last four     *)
(* are history: the blocks that could not be written, its policies, the    *)
(* policy of the stop that reached it, and what the user chose.            *)
Session0 ==
    [at |-> "none", stop |-> FALSE, mic |-> FALSE, outfile |-> Nobody, blocks |-> 0,
     end |-> "none", missed |-> {}, strategy |-> [IDLE |-> "CHOICE", MAX |-> "CHOICE"],
     stoppedWith |-> "none", chosen |-> "none"]

Init ==
    /\ main = Idle
    /\ voiceRecorder = Nobody
    /\ currentStrategy = Nobody
    /\ stopPolicy = "none"
    /\ rec = [r \in Sessions |-> Session0]
    /\ cache = [e \in Extensions |-> Nobody]
    /\ sendFiles = [m \in Moments |-> Nobody]
    /\ content = [r \in Sessions |-> {}]
    /\ tasks = <<>>
    /\ crashed = FALSE
    /\ uploads = {}
    /\ stopReturned = FALSE

Alive == ~crashed

(* A NullPointerException nobody catches.                                  *)
Crash ==
    /\ crashed' = TRUE
    /\ UNCHANGED <<main, fields, rec, files, tasks, history>>

LockFree(r) == rec[r].at \in {"none", "failed", "queued", "discarded", "top", "done"}

(* Faulty: the microphone is not released.                                 *)
StopKeepsMicrophone(r) ==
    [rec[r] EXCEPT !.stop = @ \/ rec[r].mic,
                   !.at = IF @ = "queued" THEN "discarded" ELSE @]

(* What VoiceRecorder.stop makes of session r.                             *)
Stopped(r) ==
    [rec[r] EXCEPT !.stop = @ \/ rec[r].mic,
                   !.mic = FALSE,
                   !.at = IF @ = "queued" THEN "discarded" ELSE @]

(* new BackgroundTask(..., strategy of r, ...), start, sendVoice.          *)
Spawn(r) ==
    tasks' = Append(tasks, [at |-> "queued", by |-> r, file |-> Nobody, answer |-> "none"])

(* Faulty: another file than the one recorded is deleted.                  *)
DeleteNothing(r) == UNCHANGED files

(* file.delete() of "aimmatic-audio.<ext>" in the cache directory.         *)
DeleteCacheFile(r) ==
    /\ cache' = [cache EXCEPT ![Extension[r]] = Nobody]
    /\ UNCHANGED <<sendFiles, content>>

-----------------------------------------------------------------------------
(* startRecordVoice                                                        *)

Over == {"none", "failed", "discarded", "done"}

(* The session ended in a way that leaves its audio to the user.           *)
AsksUser(r) ==
    /\ rec[r].at \in {"deciding", "clearing", "done"}
    /\ rec[r].end \in {"IDLE", "MAX"}
    /\ rec[r].strategy[rec[r].end] = "CHOICE"

(* What the client waits for: nothing; the onRecordEnd of every session;   *)
(* or that nothing is going on and every question to the user is answered. *)
ClientReady ==
    CASE Patience = "none" -> TRUE
      [] Patience = "notified" ->
            \A q \in Sessions : rec[q].at \in Over \cup {"deciding", "clearing"}
      [] Patience = "quiet" ->
            /\ \A q \in Sessions :
                  rec[q].at \in Over /\ (AsksUser(q) => rec[q].chosen # "none")
            /\ \A t \in DOMAIN tasks : tasks[t].at = "done"

(* Lines 180-181.                                                          *)
StartCall(r, s) ==
    /\ Alive
    /\ main.at = "idle"
    /\ rec[r].at = "none"
    /\ ClientReady
    /\ rec' = [rec EXCEPT ![r].strategy = s]
    /\ currentStrategy' = r
    /\ stopReturned' = FALSE
    /\ main' = [main EXCEPT !.session = r,
                            !.at = IF voiceRecorder = Nobody THEN "assign" ELSE "restart"]
    /\ UNCHANGED <<voiceRecorder, stopPolicy, files, tasks, crashed, uploads>>

(* Line 182 reads the field again ...                                      *)
StartReads ==
    /\ Alive
    /\ main.at = "restart"
    /\ IF voiceRecorder = Nobody
       THEN Crash
       ELSE /\ main' = [main EXCEPT !.at = "startLock", !.target = voiceRecorder]
            /\ UNCHANGED <<fields, rec, files, tasks, crashed, history>>

(* ... and stops the recorder it found; the policy is the last one given.  *)
StartStops ==
    /\ Alive
    /\ main.at = "startLock"
    /\ LockFree(main.target)
    /\ rec' = [rec EXCEPT ![main.target] = Stopped(main.target)]
    /\ main' = [main EXCEPT !.at = "assign"]
    /\ UNCHANGED <<fields, files, tasks, crashed, history>>

(* Line 184.                                                               *)
StartAssigns ==
    /\ Alive
    /\ main.at = "assign"
    /\ voiceRecorder' = main.session
    /\ main' = [main EXCEPT !.at = "launch"]
    /\ UNCHANGED <<currentStrategy, stopPolicy, rec, files, tasks, crashed, history>>

(* Lines 254-256: VoiceRecorder.start, which throws if there is no         *)
(* microphone to be had.                                                   *)
StartLaunches ==
    /\ Alive
    /\ main.at = "launch"
    /\ IF voiceRecorder = Nobody
       THEN Crash
       ELSE /\ main' = Idle
            /\ \/ rec' = [rec EXCEPT ![main.session].at = "failed"]
               \/ rec' = [rec EXCEPT ![main.session].at = "queued",
                                     ![main.session].mic = TRUE]
            /\ UNCHANGED <<fields, files, tasks, crashed, history>>

-----------------------------------------------------------------------------
(* stopRecordVoice and onUserChoice                                        *)

(* Line 280.                                                               *)
StopCall(p) ==
    /\ Alive
    /\ main.at = "idle"
    /\ currentStrategy # Nobody
    /\ IF voiceRecorder = Nobody
       THEN stopReturned' = TRUE /\ UNCHANGED main
       ELSE /\ main' = [main EXCEPT !.at = "setPolicy", !.policy = p]
            /\ UNCHANGED stopReturned
    /\ UNCHANGED <<fields, rec, files, tasks, crashed, uploads>>

(* Faulty: the policy of the client is lost.                               *)
StopLosesPolicy ==
    /\ Alive
    /\ main.at = "setPolicy"
    /\ main' = [main EXCEPT !.at = "stopRead"]
    /\ UNCHANGED <<fields, rec, files, tasks, crashed, history>>

(* Line 281.                                                               *)
StopSetsPolicy ==
    /\ Alive
    /\ main.at = "setPolicy"
    /\ stopPolicy' = main.policy
    /\ main' = [main EXCEPT !.at = "stopRead"]
    /\ UNCHANGED <<voiceRecorder, currentStrategy, rec, files, tasks, crashed, history>>

(* Line 282 reads the field again ...                                      *)
StopReads ==
    /\ Alive
    /\ main.at = "stopRead"
    /\ IF voiceRecorder = Nobody
       THEN Crash
       ELSE /\ main' = [main EXCEPT !.at = "stopLock", !.target = voiceRecorder]
            /\ UNCHANGED <<fields, rec, files, tasks, crashed, history>>

(* ... and stops the recorder it found.                                    *)
StopStopsRecorder ==
    /\ Alive
    /\ main.at = "stopLock"
    /\ LockFree(main.target)
    /\ LET r == main.target IN
       rec' = [rec EXCEPT ![r] = [Stopped(r) EXCEPT
                  !.stoppedWith = IF rec[r].mic THEN main.policy ELSE @]]
    /\ main' = [main EXCEPT !.at = "forget"]
    /\ UNCHANGED <<fields, files, tasks, crashed, history>>

(* Line 283.                                                               *)
StopForgets ==
    /\ Alive
    /\ main.at = "forget"
    /\ voiceRecorder' = Nobody
    /\ main' = Idle
    /\ stopReturned' = TRUE
    /\ UNCHANGED <<currentStrategy, stopPolicy, rec, files, tasks, crashed, uploads>>

(* onUserChoice(p): the client's answer about session q, once.  The code   *)
(* goes by the strategy of the last session that was started.              *)
UserChoice(p, q) ==
    /\ Alive
    /\ main.at = "idle"
    /\ AsksUser(q)
    /\ rec[q].chosen = "none"
    /\ rec' = [rec EXCEPT ![q].chosen = p]
    /\ \/ p = "SEND" /\ Spawn(currentStrategy) /\ UNCHANGED files
       \/ p = "CANCELED" /\ DeleteCacheFile(currentStrategy) /\ UNCHANGED tasks
    /\ UNCHANGED <<main, fields, crashed, history>>

-----------------------------------------------------------------------------
(* The reader of session r, and the listener the service gave it           *)

(* The reader goes from one place of run() to another.                     *)
Move(r, from, to) ==
    /\ Alive
    /\ rec[r].at = from
    /\ rec' = [rec EXCEPT ![r].at = to]

besidesReader == <<main, fields, files, tasks, crashed, history>>

Run(r) == Move(r, "queued", "top") /\ UNCHANGED besidesReader

Listening(r) == Alive /\ rec[r].at = "top" /\ ~rec[r].stop

(* The first voiced block: onRecordStart asks the recorder in the field,   *)
(* which need not be its own, for the sample rate (line 195).              *)
HearFirstVoice(r) ==
    /\ Listening(r)
    /\ rec[r].blocks = 0
    /\ IF voiceRecorder = Nobody
       THEN Crash
       ELSE Move(r, "top", "opening") /\ UNCHANGED besidesReader

(* Lines 200-201: new FileOutputStream creates the file or empties it.     *)
OpenFile(r) ==
    /\ Alive
    /\ rec[r].at = "opening"
    /\ LET e == Extension[currentStrategy]
           f == IF cache[e] = Nobody THEN r ELSE cache[e]
       IN  /\ cache' = [cache EXCEPT ![e] = f]
           /\ content' = [content EXCEPT ![f] = {}]
           /\ rec' = [rec EXCEPT ![r].at = "writing", ![r].outfile = f]
    /\ UNCHANGED <<main, fields, sendFiles, tasks, crashed, history>>

(* Lines 202-204: the FileNotFoundException is swallowed.                  *)
OpenFails(r) ==
    /\ "open" \in DiskFaults
    /\ Move(r, "opening", "writing")
    /\ UNCHANGED besidesReader

(* A further block, of the at most MaxBlocks.                              *)
HearMore(r) ==
    /\ Listening(r)
    /\ rec[r].blocks \in 1..(MaxBlocks - 1)
    /\ Move(r, "top", "writing")
    /\ UNCHANGED besidesReader

(* onRecording writes the encoded block (line 216) to the file, if there   *)
(* is one.                                                                 *)
WriteBlock(r) ==
    /\ Alive
    /\ rec[r].at = "writing"
    /\ IF rec[r].outfile = Nobody
       THEN Crash
       ELSE /\ rec' = [rec EXCEPT ![r].at = "checking", ![r].blocks = @ + 1]
            /\ content' = [content EXCEPT ![rec[r].outfile] =
                              @ \cup {<<r, rec[r].blocks + 1>>}]
            /\ UNCHANGED <<main, fields, cache, sendFiles, tasks, crashed, history>>

(* Lines 217-219: an IOException is swallowed, the session goes on.        *)
WriteFails(r) ==
    /\ Alive
    /\ "write" \in DiskFaults
    /\ rec[r].at = "writing"
    /\ rec[r].outfile # Nobody
    /\ rec' = [rec EXCEPT ![r].at = "checking", ![r].blocks = @ + 1,
                          ![r].missed = @ \cup {rec[r].blocks + 1}]
    /\ UNCHANGED besidesReader

(* The rest of the iteration: go on, or end for a reason of its own.       *)
GoOn(r) == Move(r, "checking", "top") /\ UNCHANGED besidesReader

(* end() and endRecording(s).                                              *)
EndNaturally(r, s) ==
    /\ Alive
    /\ rec[r].at = "checking"
    /\ rec' = [rec EXCEPT ![r] = [Stopped(r) EXCEPT !.at = "ending", !.end = s]]
    /\ UNCHANGED besidesReader

(* Faulty: the wrong RECORD_END_BY_ constant.                              *)
SeeStopAsIdle(r) ==
    /\ Alive
    /\ rec[r].at = "top" /\ rec[r].stop
    /\ rec' = [rec EXCEPT ![r].at = "ending", ![r].end = "IDLE"]
    /\ UNCHANGED besidesReader

(* Line 254 of VoiceRecorder.java.                                         *)
SeeStop(r) ==
    /\ Alive
    /\ rec[r].at = "top" /\ rec[r].stop
    /\ rec' = [rec EXCEPT ![r].at = "ending", ![r].end = "USER"]
    /\ UNCHANGED besidesReader

(* onRecordEnd: the client's listeners hear of the end, the file is closed *)
(* (lines 227-238).                                                        *)
NotifyAndClose(r) ==
    /\ Alive
    /\ rec[r].at = "ending"
    /\ rec' = [rec EXCEPT ![r].at = "deciding", ![r].outfile = Nobody]
    /\ UNCHANGED besidesReader

(* close() throws: the listener forgets the recorder and gives up.         *)
NotifyAndFail(r) ==
    /\ Alive
    /\ "close" \in DiskFaults
    /\ rec[r].at = "ending"
    /\ rec[r].outfile # Nobody
    /\ rec' = [rec EXCEPT ![r].at = "done", ![r].outfile = Nobody]
    /\ voiceRecorder' = Nobody
    /\ UNCHANGED <<main, currentStrategy, stopPolicy, files, tasks, crashed, history>>

(* The policy the code looks at for the end of r.                          *)
EndPolicy(r) ==
    CASE rec[r].end = "USER" -> stopPolicy
      [] rec[r].end = "INTERRUPTED" -> "none"
      [] OTHER -> rec[r].strategy[rec[r].end]

(* Lines 239-250: only a stop by the user deletes the file.                *)
Decide(r) ==
    /\ Move(r, "deciding", "clearing")
    /\ LET cancel == rec[r].end = "USER" /\ EndPolicy(r) = "CANCELED"
           send == EndPolicy(r) = "SEND"
       IN  \/ cancel /\ DeleteCacheFile(r) /\ UNCHANGED tasks
           \/ send /\ Spawn(r) /\ UNCHANGED files
           \/ ~cancel /\ ~send /\ UNCHANGED <<files, tasks>>
    /\ UNCHANGED <<main, fields, crashed, history>>

(* Line 251: whichever recorder the field holds by now is forgotten.       *)
ForgetRecorder(r) ==
    /\ Move(r, "clearing", "done")
    /\ voiceRecorder' = Nobody
    /\ UNCHANGED <<main, currentStrategy, stopPolicy, files, tasks, crashed, history>>

-----------------------------------------------------------------------------
(* BackgroundTask t                                                        *)

(* The file of name f, if there is one, goes by the time from now on, in   *)
(* the place of one that a task has named in the same millisecond.         *)
Take(t, f) ==
    \/ /\ f = Nobody
       /\ tasks' = [tasks EXCEPT ![t].at = "done"]
       /\ UNCHANGED sendFiles
    \/ /\ f # Nobody
       /\ \E m \in Moments :
             /\ sendFiles' = [sendFiles EXCEPT ![m] = f]
             /\ tasks' = [tasks EXCEPT ![t].at = "sending", ![t].file = m]

(* Faulty: the cache file is copied, not renamed.                          *)
CopyFile(t) ==
    /\ Alive
    /\ tasks[t].at = "queued"
    /\ Take(t, cache[Extension[tasks[t].by]])
    /\ UNCHANGED <<main, fields, rec, cache, content, crashed, history>>

(* Lines 362-365: renameTo.                                                *)
TakeFile(t) ==
    /\ Alive
    /\ tasks[t].at = "queued"
    /\ LET e == Extension[tasks[t].by] IN
       /\ Take(t, cache[e])
       /\ cache' = [cache EXCEPT ![e] = Nobody]
    /\ UNCHANGED <<main, fields, rec, content, crashed, history>>

(* sentVoice reads the file and posts it (lines 408-430).  It is accepted, *)
(* refused or answered with what is not JSON; or it does not arrive, as    *)
(* when the file is not there any more.                                    *)
PostFile(t) ==
    /\ Alive
    /\ tasks[t].at = "sending"
    /\ LET m == tasks[t].file
           f == sendFiles[m]
       IN  \/ /\ f # Nobody
              /\ uploads' = uploads \cup {[task |-> t, by |-> tasks[t].by, name |-> m,
                                          file |-> f, audio |-> content[f]]}
              /\ \E a \in {"ok", "error", "malformed"} :
                    tasks' = [tasks EXCEPT ![t].at = "answered", ![t].answer = a]
           \/ /\ tasks' = [tasks EXCEPT ![t].at = "answered", ![t].answer = "error"]
              /\ UNCHANGED uploads
    /\ UNCHANGED <<main, fields, rec, files, crashed, stopReturned>>

(* Lines 431-441: the listeners are told, by onVoiceSent, and the file is  *)
(* deleted, sent or not.  What is not JSON has thrown an exception that    *)
(* nobody catches.                                                         *)
EndTask(t) ==
    /\ Alive
    /\ tasks[t].at = "answered"
    /\ tasks' = [tasks EXCEPT ![t].at = "done"]
    /\ sendFiles' = [sendFiles EXCEPT ![tasks[t].file] = Nobody]
    /\ crashed' = (tasks[t].answer = "malformed")
    /\ UNCHANGED <<main, fields, rec, cache, content, history>>

-----------------------------------------------------------------------------

Client ==
    \/ \E r \in Sessions, s \in Strategies : StartCall(r, s)
    \/ \E p \in StopPolicies : StopCall(p)
    \/ \E p \in {"SEND", "CANCELED"}, q \in Sessions : UserChoice(p, q)

(* What a call of the client does once it is made.                         *)
Service ==
    \/ StartReads \/ StartStops \/ StartAssigns \/ StartLaunches
    \/ StopSetsPolicy \/ StopReads \/ StopStopsRecorder \/ StopForgets

Reader(r) ==
    \/ Run(r)
    \/ HearFirstVoice(r)
    \/ OpenFile(r) \/ OpenFails(r)
    \/ HearMore(r)
    \/ WriteBlock(r) \/ WriteFails(r)
    \/ GoOn(r)
    \/ \E s \in NaturalEnds : EndNaturally(r, s)
    \/ SeeStop(r)
    \/ NotifyAndClose(r)
    \/ NotifyAndFail(r)
    \/ Decide(r)
    \/ ForgetRecorder(r)

Sender == \E t \in DOMAIN tasks : TakeFile(t) \/ PostFile(t) \/ EndTask(t)

Next == Client \/ Service \/ Sender \/ \E r \in Sessions : Reader(r)

Spec == Init /\ [][Next]_vars

(* Every thread of the process is scheduled; the client need not call, and *)
(* nobody need speak.                                                      *)
FairSpec ==
    /\ Spec
    /\ WF_vars(Service)
    /\ WF_vars(Sender)
    /\ \A r \in Sessions :
          WF_vars(rec[r].at # "top" /\ Reader(r)) /\ WF_vars(SeeStop(r))

-----------------------------------------------------------------------------
(* Properties                                                              *)

Readers == {"none", "failed", "queued", "discarded", "top", "opening", "writing",
            "checking", "ending", "deciding", "clearing", "done"}

SessionType ==
    [at : Readers, stop : BOOLEAN, mic : BOOLEAN, outfile : Sessions \cup {Nobody},
     blocks : 0..MaxBlocks, missed : SUBSET (1..MaxBlocks), end : {"none", "INTERRUPTED", "IDLE", "MAX", "USER"},
     strategy : [{"IDLE", "MAX"} -> Policies], stoppedWith : {"none"} \cup Policies,
     chosen : {"none"} \cup Policies]

TaskType == [at : {"queued", "sending", "answered", "done"}, by : Sessions,
             file : Moments \cup {Nobody}, answer : {"none", "ok", "error", "malformed"}]

(* Every variable has its type.                                            *)
TypeOK ==
    /\ main.at \in {"idle", "restart", "startLock", "assign", "launch", "setPolicy",
                    "stopRead", "stopLock", "forget"}
    /\ {main.session, main.target, voiceRecorder, currentStrategy}
          \subseteq Sessions \cup {Nobody}
    /\ {main.policy, stopPolicy} \subseteq {"none", "CANCELED", "SEND"}
    /\ rec \in [Sessions -> SessionType]
    /\ cache \in [Extensions -> Sessions \cup {Nobody}]
    /\ sendFiles \in [Moments -> Sessions \cup {Nobody}]
    /\ content \in [Sessions -> SUBSET (Sessions \X (1..MaxBlocks))]
    /\ \A t \in DOMAIN tasks : tasks[t] \in TaskType
    /\ crashed \in BOOLEAN
    /\ stopReturned \in BOOLEAN

Audio(r) == {r} \X (1..rec[r].blocks)

(* The blocks that came to the file.                                       *)
Written(r) == {r} \X ((1..rec[r].blocks) \ rec[r].missed)

(* What the client asked to be done with the audio of r.                   *)
Wish(r) ==
    CASE rec[r].end = "USER" -> rec[r].stoppedWith
      [] rec[r].end \in {"IDLE", "MAX"} ->
            IF AsksUser(r) THEN rec[r].chosen ELSE rec[r].strategy[rec[r].end]
      [] OTHER -> "none"

(* The session ended in a way that leaves its audio in the cache file.     *)
LeftBehind(r) ==
    \/ rec[r].end = "INTERRUPTED"
    \/ rec[r].end \in {"IDLE", "MAX"} /\ rec[r].strategy[rec[r].end] = "CANCELED"

(* Audio that was cancelled is not sent, in this or any later upload, be   *)
(* it cancelled by a stop, by the user's choice or by the policy of a      *)
(* limit.  Excepted is what a limit cancelled and left behind, for then    *)
(* onRecordEnd deletes nothing (VoiceRecorderService.java:239-243): a      *)
(* later session that has recorded nothing sends it.                       *)
CancelledNeverSent ==
    \A u \in uploads, r \in Sessions :
        Wish(r) = "CANCELED" /\ u.audio \cap Audio(r) # {} =>
            LeftBehind(r) /\ rec[u.by].blocks = 0

(* RecordStrategy.java:25-30 knows no such exception.  Violated.           *)
CanceledIsNotSent ==
    \A u \in uploads, r \in Sessions : Wish(r) = "CANCELED" => u.audio \cap Audio(r) = {}

(* What is sent for a session that has recorded is what it has written,    *)
(* all of it and nothing else, though the cache file is shared by name and *)
(* renamed only later (VoiceRecorderService.java:200, 362-365); for one    *)
(* that has recorded nothing it is what one session left behind.           *)
SendsOwnAudio ==
    \A u \in uploads :
        IF rec[u.by].blocks > 0
        THEN u.audio = Written(u.by)
        ELSE \E q \in Sessions : LeftBehind(q) /\ u.audio = Written(q)

(* A file is posted by the one task that has taken it, whatever sessions   *)
(* and tasks do at a time; unless another has taken one in the same        *)
(* millisecond, which gives them one name (VoiceRecorderService.java:364). *)
SentOnce ==
    \A u, v \in uploads : u.file = v.file /\ u.task # v.task => u.name = v.name

(* When stopRecordVoice returns no recorder is listening (lines 276-286).  *)
StopStops == stopReturned /\ main.at = "idle" => \A r \in Sessions : ~rec[r].mic

(* The microphone is never held by two recorders: startRecordVoice stops   *)
(* the old one first (lines 181-184).                                      *)
OneMicrophone == \A r, q \in Sessions : rec[r].mic /\ rec[q].mic => r = q

(* No call and no callback fails with a NullPointerException (lines 182,   *)
(* 195, 254-256, 282).                                                     *)
NoCrash == ~crashed

(* Each session keeps the promise of RecordingSession to its listener,     *)
(* whatever the client and the other sessions do.                          *)
SessionPhase(r) ==
    CASE rec[r].at = "none" -> "idle"
      [] rec[r].at = "discarded" -> "dropped"
      [] rec[r].at = "failed" -> "failed"
      [] rec[r].at \in {"deciding", "clearing", "done"} -> "ended"
      [] OTHER -> IF rec[r].blocks > 0 \/ rec[r].at \in {"opening", "writing"}
                  THEN "recording" ELSE "armed"

Session(r) == INSTANCE RecordingSession WITH
    phase <- SessionPhase(r),
    captured <- rec[r].blocks,
    delivered <- rec[r].blocks,
    endState <- IF SessionPhase(r) = "ended" THEN rec[r].end ELSE "none"

SessionsSpec ==
    /\ \A r \in Sessions : Session(r)!Init
    /\ [][\A r \in Sessions : [Session(r)!Next]_(Session(r)!vars)]_vars

(* The audio of a session that is to be sent is posted in the end, or the  *)
(* listeners are told that it was not (lines 244-249, 293-297, 360-441);   *)
(* either way the file is deleted.  An answer that is not JSON, a file     *)
(* that cannot be opened and a stop beside a natural end kill the process. *)
NotSent(r) ==
    \E t \in DOMAIN tasks : tasks[t].by = r /\ tasks[t].at = "done"
                            /\ tasks[t].answer = "error"

WishedAudioSent ==
    \A r \in Sessions :
        (rec[r].at = "done" /\ rec[r].blocks > 0 /\ Wish(r) = "SEND")
            ~> \/ \E u \in uploads : u.by = r /\ Written(r) \subseteq u.audio
               \/ NotSent(r)
               \/ crashed
=============================================================================
