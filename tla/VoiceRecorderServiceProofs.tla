--------------------- MODULE VoiceRecorderServiceProofs ---------------------
(***************************************************************************)
(* Theorems about VoiceRecorderService for any number of sessions, any     *)
(* strategies, file extensions and policies, and whatever the disk and the *)
(* connection refuse: types, that a file is posted by one name, and that   *)
(* every session implements RecordingSession, whatever the client and the  *)
(* other sessions do.                                                      *)
(***************************************************************************)
EXTENDS VoiceRecorderService, SequenceTheorems, TLAPS

Starting == {"restart", "startLock", "assign", "launch"}

MainType ==
    [at : {"idle", "setPolicy", "stopRead", "stopLock", "forget"} \cup Starting,
     session : Sessions \cup {Nobody}, target : Sessions \cup {Nobody},
     policy : {"none", "CANCELED", "SEND"}]

(* TypeOK, with the records whole and the tasks a sequence.                *)
Types ==
    /\ main \in MainType
    /\ voiceRecorder \in Sessions \cup {Nobody}
    /\ currentStrategy \in Sessions \cup {Nobody}
    /\ stopPolicy \in {"none", "CANCELED", "SEND"}
    /\ rec \in [Sessions -> SessionType]
    /\ cache \in [Extensions -> Sessions \cup {Nobody}]
    /\ sendFiles \in [Moments -> Sessions \cup {Nobody}]
    /\ content \in [Sessions -> SUBSET (Sessions \X (1..MaxBlocks))]
    /\ tasks \in Seq(TaskType)
    /\ crashed \in BOOLEAN
    /\ stopReturned \in BOOLEAN

(* What the client's thread has in hand, and that the service knows a      *)
(* strategy as soon as there is a session.                                 *)
MainInv ==
    /\ main.at \in Starting =>
          main.session \in Sessions /\ rec[main.session].at = "none"
    /\ main.at \in {"startLock", "stopLock"} => main.target \in Sessions
    /\ (main.at \in Starting \/ \E q \in Sessions : rec[q].at # "none") =>
          currentStrategy \in Sessions

Ended == {"ending", "deciding", "clearing", "done"}

(* Where a reader is and how many blocks its session has.                  *)
Progress(s) ==
    /\ s.at \in {"none", "failed", "queued", "discarded", "opening"} => s.blocks = 0
    /\ s.at = "writing" => s.blocks < MaxBlocks
    /\ s.at = "checking" => s.blocks > 0
    /\ s.at \in Ended =>
          /\ s.end \in {"INTERRUPTED", "IDLE", "MAX", "USER"}
          /\ s.blocks = 0 => s.end = "USER"

SessionInv == \A r \in Sessions : Progress(rec[r])

(* The session has not created its file.                                   *)
Before(s) == s.blocks = 0 /\ s.at # "writing"

(* A task has a name for its file while it sends it.                       *)
TasksInv ==
    \A t \in DOMAIN tasks : tasks[t].at \in {"sending", "answered"} => tasks[t].file \in Moments

(* A file has one name, in the cache or to be sent by; what a session has  *)
(* not created has none.                                                   *)
NamesInv ==
    /\ \A d, e \in Extensions : cache[d] = cache[e] /\ cache[d] # Nobody => d = e
    /\ \A m, n \in Moments : sendFiles[m] = sendFiles[n] /\ sendFiles[m] # Nobody => m = n
    /\ \A e \in Extensions, m \in Moments : cache[e] = sendFiles[m] => cache[e] = Nobody
    /\ \A r \in Sessions : Before(rec[r]) =>
          (\A e \in Extensions : cache[e] # r) /\ (\A m \in Moments : sendFiles[m] # r)

(* What has been posted has no name but the one it was posted by.          *)
PostedInv ==
    /\ \A u \in uploads :
          /\ u.file \in Sessions /\ ~Before(rec[u.file])
          /\ \A e \in Extensions : cache[e] # u.file
          /\ \A m \in Moments : sendFiles[m] = u.file => m = u.name
    /\ \A u, v \in uploads : u.file = v.file => u.name = v.name

FileInv == TasksInv /\ NamesInv /\ PostedInv

IInv == Types /\ MainInv /\ SessionInv /\ FileInv

-----------------------------------------------------------------------------

LEMMA SessionFields ==
    ASSUME NEW s \in SessionType
    PROVE  /\ s.at \in Readers /\ s.stop \in BOOLEAN /\ s.mic \in BOOLEAN
           /\ s.outfile \in Sessions \cup {Nobody} /\ s.blocks \in 0..MaxBlocks
BY DEF SessionType

LEMMA InitHolds == Init => IInv
<1> SUFFICES ASSUME Init PROVE IInv
  OBVIOUS
<1> USE ServiceAssumption DEF Init
<1>1. Session0 \in SessionType
  BY DEF Session0, SessionType, Readers, Policies
<1>2. tasks = <<>> /\ DOMAIN tasks = {}
  OBVIOUS
<1>3. Types
  <2>1. rec \in [Sessions -> SessionType]
    BY <1>1
  <2>2. main \in MainType
    BY DEF MainType, Idle
  <2>3. tasks \in Seq(TaskType)
    OBVIOUS
  <2>4. QED
    BY <2>1, <2>2, <2>3 DEF Types
<1>4. MainInv
  BY DEF MainInv, Idle, Starting, Session0
<1>5. SessionInv
  BY DEF SessionInv, Progress, Session0, Ended
<1>6. FileInv
  BY <1>2 DEF FileInv, TasksInv, NamesInv, PostedInv
<1>7. QED
  BY <1>3, <1>4, <1>5, <1>6 DEF IInv

(* What the actions make of a session keeps its type.                      *)
LEMMA Placed ==
    ASSUME NEW s \in SessionType, NEW a \in Readers
    PROVE  [s EXCEPT !.at = a] \in SessionType
BY DEF SessionType

LEMMA Left ==
    ASSUME NEW s \in SessionType
    PROVE  [s EXCEPT !.stop = s.stop \/ s.mic, !.mic = FALSE,
                     !.at = IF s.at = "queued" THEN "discarded" ELSE s.at] \in SessionType
BY DEF SessionType, Readers

LEMMA StrategySet ==
    ASSUME NEW s \in SessionType, NEW g \in [{"IDLE", "MAX"} -> Policies]
    PROVE  [s EXCEPT !.strategy = g] \in SessionType
BY DEF SessionType

LEMMA Launched ==
    ASSUME NEW s \in SessionType
    PROVE  [s EXCEPT !.at = "queued", !.mic = TRUE] \in SessionType
BY DEF SessionType, Readers

LEMMA ChosenSet ==
    ASSUME NEW s \in SessionType, NEW p \in Policies
    PROVE  [s EXCEPT !.chosen = p] \in SessionType
BY DEF SessionType

LEMMA StoppedWithSet ==
    ASSUME NEW s \in SessionType, NEW w \in {"none"} \cup Policies
    PROVE  [s EXCEPT !.stoppedWith = w] \in SessionType
BY DEF SessionType

LEMMA OutfileSet ==
    ASSUME NEW s \in SessionType, NEW a \in Readers, NEW f \in Sessions \cup {Nobody}
    PROVE  [s EXCEPT !.at = a, !.outfile = f] \in SessionType
BY DEF SessionType

LEMMA BlockAdded ==
    ASSUME NEW s \in SessionType, NEW n \in 0..MaxBlocks
    PROVE  [s EXCEPT !.at = "checking", !.blocks = n] \in SessionType
BY DEF SessionType, Readers

LEMMA BlockMissed ==
    ASSUME NEW s \in SessionType, NEW n \in 1..MaxBlocks
    PROVE  [s EXCEPT !.at = "checking", !.blocks = n, !.missed = s.missed \cup {n}]
              \in SessionType
<1>1. s.missed \cup {n} \in SUBSET (1..MaxBlocks) /\ n \in 0..MaxBlocks
  BY ServiceAssumption DEF SessionType
<1>2. QED
  BY <1>1 DEF SessionType, Readers

LEMMA EndSet ==
    ASSUME NEW s \in SessionType,
           NEW e \in {"none", "INTERRUPTED", "IDLE", "MAX", "USER"}
    PROVE  [s EXCEPT !.at = "ending", !.end = e] \in SessionType
BY DEF SessionType, Readers

LEMMA RecStep == IInv /\ [Next]_vars => rec' \in [Sessions -> SessionType]
<1> SUFFICES ASSUME IInv, [Next]_vars PROVE rec' \in [Sessions -> SessionType]
  OBVIOUS
<1> USE ServiceAssumption DEF IInv, Types, fields, files, history, besidesReader
<1>t. \A q \in Sessions : rec[q] \in SessionType
  OBVIOUS
<1>1. ASSUME NEW r \in Sessions, NEW s \in Strategies, StartCall(r, s) PROVE
      rec' \in [Sessions -> SessionType]
  <2>1. s \in [{"IDLE", "MAX"} -> Policies]
    OBVIOUS
  <2>2. QED
    BY <1>1, <1>t, <2>1, StrategySet DEF StartCall
<1>2. CASE StartReads
  BY <1>2 DEF StartReads, Crash
<1>3. CASE StartStops
  <2>1. main.target \in Sessions
    BY <1>3 DEF StartStops, MainInv
  <2>2. QED
    BY <1>3, <1>t, <2>1, Left DEF StartStops, Stopped
<1>4. CASE StartAssigns
  BY <1>4 DEF StartAssigns
<1>5. CASE StartLaunches
  <2>1. main.session \in Sessions
    BY <1>5 DEF StartLaunches, MainInv, Starting
  <2>2. "failed" \in Readers /\ "queued" \in Readers
    BY DEF Readers
  <2>3. CASE voiceRecorder = Nobody
    BY <1>5, <2>3 DEF StartLaunches, Crash
  <2>4. CASE rec' = [rec EXCEPT ![main.session].at = "failed"]
    BY <1>t, <2>1, <2>2, <2>4, Placed
  <2>5. CASE rec' = [rec EXCEPT ![main.session].at = "queued", ![main.session].mic = TRUE]
    BY <1>t, <2>1, <2>5, Launched
  <2>6. QED
    BY <1>5, <2>3, <2>4, <2>5 DEF StartLaunches
<1>6. ASSUME NEW p \in StopPolicies, StopCall(p) PROVE rec' \in [Sessions ->
      SessionType]
  BY <1>6 DEF StopCall
<1>7. CASE StopSetsPolicy
  BY <1>7 DEF StopSetsPolicy
<1>8. CASE StopReads
  BY <1>8 DEF StopReads, Crash
<1>9. CASE StopStopsRecorder
  <2>1. main.target \in Sessions
    BY <1>9 DEF StopStopsRecorder, MainInv
  <2>2. main.policy \in {"none"} \cup Policies
    BY DEF MainType, Policies
  <2>3. Stopped(main.target) \in SessionType
    BY <1>t, <2>1, Left DEF Stopped
  <2>4. [Stopped(main.target) EXCEPT !.stoppedWith =
             IF rec[main.target].mic THEN main.policy
             ELSE Stopped(main.target).stoppedWith] \in SessionType
    BY <2>2, <2>3, StoppedWithSet DEF SessionType
  <2>5. QED
    BY <1>9, <2>1, <2>4 DEF StopStopsRecorder
<1>10. CASE StopForgets
  BY <1>10 DEF StopForgets, Idle
<1>11. ASSUME NEW p \in {"SEND", "CANCELED"}, NEW r \in Sessions,
      UserChoice(p, r) PROVE rec' \in [Sessions -> SessionType]
  <2>1. p \in Policies
    BY DEF Policies
  <2>2. QED
    BY <1>11, <1>t, <2>1, ChosenSet DEF UserChoice
<1>12. ASSUME NEW r \in Sessions, Run(r) PROVE rec' \in [Sessions ->
      SessionType]
  <2>1. "top" \in Readers
    BY DEF Readers
  <2>2. QED
    BY <1>12, <1>t, <2>1, Placed DEF Run, Move
<1>13. ASSUME NEW r \in Sessions, HearFirstVoice(r) PROVE rec' \in [Sessions
      -> SessionType]
  <2>1. "opening" \in Readers
    BY DEF Readers
  <2>2. QED
    BY <1>13, <1>t, <2>1, Placed DEF HearFirstVoice, Move, Crash
<1>14. ASSUME NEW r \in Sessions, OpenFile(r) PROVE rec' \in [Sessions ->
      SessionType]
  <2>1. currentStrategy \in Sessions
    BY <1>14 DEF OpenFile, MainInv
  <2>2. Extension[currentStrategy] \in Extensions
    BY <2>1 DEF Extensions
  <2>3. "writing" \in Readers
    BY DEF Readers
  <2>4. QED
    BY <1>14, <1>t, <2>2, <2>3, OutfileSet DEF OpenFile
<1>15. ASSUME NEW r \in Sessions, OpenFails(r) PROVE rec' \in [Sessions -> SessionType]
  <2>1. "writing" \in Readers
    BY DEF Readers
  <2>2. QED
    BY <1>15, <1>t, <2>1, Placed DEF OpenFails, Move
<1>16. ASSUME NEW r \in Sessions, HearMore(r) PROVE rec' \in [Sessions ->
      SessionType]
  <2>1. "writing" \in Readers
    BY DEF Readers
  <2>2. QED
    BY <1>16, <1>t, <2>1, Placed DEF HearMore, Move
<1>17. ASSUME NEW r \in Sessions, WriteBlock(r) PROVE rec' \in [Sessions ->
      SessionType]
  <2>1. "checking" \in Readers
    BY DEF Readers
  <2>2. rec[r].blocks + 1 \in 0..MaxBlocks
    BY <1>17, <1>t DEF WriteBlock, SessionInv, Progress, SessionType
  <2>3. CASE rec' = [rec EXCEPT ![r].at = "checking", ![r].blocks = @ + 1]
    BY <1>t, <2>2, <2>3, BlockAdded
  <2>4. QED
    BY <1>17, <2>3 DEF WriteBlock, Crash
<1>18. ASSUME NEW r \in Sessions, WriteFails(r) PROVE rec' \in [Sessions -> SessionType]
  <2>1. rec[r].blocks + 1 \in 1..MaxBlocks
    BY <1>18, <1>t DEF WriteFails, SessionInv, Progress, SessionType
  <2>2. QED
    BY <1>18, <1>t, <2>1, BlockMissed DEF WriteFails
<1>19. ASSUME NEW r \in Sessions, GoOn(r) PROVE rec' \in [Sessions ->
      SessionType]
  <2>1. "top" \in Readers
    BY DEF Readers
  <2>2. QED
    BY <1>19, <1>t, <2>1, Placed DEF GoOn, Move
<1>20. ASSUME NEW r \in Sessions, NEW s \in NaturalEnds, EndNaturally(r, s)
      PROVE rec' \in [Sessions -> SessionType]
  <2>1. "ending" \in Readers
    BY DEF Readers
  <2>2. s \in {"none", "INTERRUPTED", "IDLE", "MAX", "USER"}
    OBVIOUS
  <2>3. Stopped(r) \in SessionType
    BY <1>t, Left DEF Stopped
  <2>4. QED
    BY <1>20, <2>1, <2>2, <2>3, EndSet DEF EndNaturally
<1>21. ASSUME NEW r \in Sessions, SeeStop(r) PROVE rec' \in [Sessions ->
      SessionType]
  <2>1. "ending" \in Readers
    BY DEF Readers
  <2>2. QED
    BY <1>21, <1>t, <2>1, EndSet DEF SeeStop
<1>22. ASSUME NEW r \in Sessions, NotifyAndClose(r) PROVE rec' \in [Sessions
      -> SessionType]
  <2>1. "deciding" \in Readers
    BY DEF Readers
  <2>2. QED
    BY <1>22, <1>t, <2>1, OutfileSet DEF NotifyAndClose
<1>23. ASSUME NEW r \in Sessions, NotifyAndFail(r) PROVE rec' \in [Sessions ->
      SessionType]
  <2>1. "done" \in Readers
    BY DEF Readers
  <2>2. QED
    BY <1>23, <1>t, <2>1, OutfileSet DEF NotifyAndFail
<1>24. ASSUME NEW r \in Sessions, Decide(r) PROVE rec' \in [Sessions ->
      SessionType]
  <2>1. "clearing" \in Readers
    BY DEF Readers
  <2>2. QED
    BY <1>24, <1>t, <2>1, Placed DEF Decide, Move
<1>25. ASSUME NEW r \in Sessions, ForgetRecorder(r) PROVE rec' \in [Sessions
      -> SessionType]
  <2>1. "done" \in Readers
    BY DEF Readers
  <2>2. QED
    BY <1>25, <1>t, <2>1, Placed DEF ForgetRecorder, Move
<1>26. ASSUME NEW t \in DOMAIN tasks, TakeFile(t) PROVE rec' \in [Sessions ->
      SessionType]
  BY <1>26 DEF TakeFile
<1>27. ASSUME NEW t \in DOMAIN tasks, PostFile(t) PROVE rec' \in [Sessions ->
      SessionType]
  BY <1>27 DEF PostFile
<1>28. ASSUME NEW t \in DOMAIN tasks, EndTask(t) PROVE rec' \in [Sessions -> SessionType]
  BY <1>28 DEF EndTask
<1>29. CASE UNCHANGED vars
  BY <1>29 DEF vars, fields, files, history
<1>30. QED BY <1>1, <1>2, <1>3, <1>4, <1>5, <1>6, <1>7, <1>8, <1>9, <1>10,
     <1>11, <1>12, <1>13, <1>14, <1>15, <1>16, <1>17, <1>18, <1>19, <1>20,
     <1>21, <1>22, <1>23, <1>24, <1>25, <1>26, <1>27, <1>28, <1>29 DEF Next,
     Client, Service, Reader, Sender

-----------------------------------------------------------------------------
(* Which actions touch the files and the tasks, and which the client's     *)
(* thread and what it goes by.                                             *)
FileActions ==
    \/ \E p \in {"SEND", "CANCELED"}, r \in Sessions : UserChoice(p, r)
    \/ \E r \in Sessions : OpenFile(r) \/ WriteBlock(r) \/ Decide(r)
    \/ Sender

LEMMA FileParts == [Next]_vars => FileActions \/ UNCHANGED <<files, tasks, uploads>>
<1> SUFFICES ASSUME [Next]_vars PROVE FileActions \/ UNCHANGED <<files, tasks, uploads>>
  OBVIOUS
<1> USE DEF FileActions, files, history, fields, besidesReader
<1>1. CASE Client
  BY <1>1 DEF Client, StartCall, StopCall
<1>2. CASE Service
  BY <1>2 DEF Service, Crash, StartReads, StartStops, StartAssigns, StartLaunches,
     StopSetsPolicy, StopReads, StopStopsRecorder, StopForgets
<1>3. ASSUME NEW r \in Sessions, Reader(r)
      PROVE  FileActions \/ UNCHANGED <<files, tasks, uploads>>
  BY <1>3 DEF Reader, Move, Crash, Run, HearFirstVoice, OpenFile, OpenFails, HearMore,
     WriteBlock, WriteFails, GoOn, EndNaturally, SeeStop, NotifyAndClose, NotifyAndFail, Decide,
     ForgetRecorder
<1>4. QED
  BY <1>1, <1>2, <1>3 DEF Next, vars

MainActions ==
    \/ \E r \in Sessions, s \in Strategies : StartCall(r, s)
    \/ \E p \in StopPolicies : StopCall(p)
    \/ Service
    \/ \E r \in Sessions : NotifyAndFail(r) \/ ForgetRecorder(r)

Mains == <<main, fields, stopReturned>>

LEMMA MainParts == [Next]_vars => MainActions \/ UNCHANGED Mains
<1> SUFFICES ASSUME [Next]_vars PROVE MainActions \/ UNCHANGED Mains
  OBVIOUS
<1> USE DEF MainActions, Mains, files, history, fields, besidesReader
<1>1. CASE Client
  BY <1>1 DEF Client, UserChoice
<1>2. CASE Sender
  BY <1>2 DEF Sender, TakeFile, PostFile, EndTask
<1>3. ASSUME NEW r \in Sessions, Reader(r) PROVE MainActions \/ UNCHANGED Mains
  BY <1>3 DEF Reader, Move, Crash, Run, HearFirstVoice, OpenFile, OpenFails, HearMore,
     WriteBlock, WriteFails, GoOn, EndNaturally, SeeStop, NotifyAndClose, NotifyAndFail, Decide,
     ForgetRecorder
<1>4. QED
  BY <1>1, <1>2, <1>3 DEF Next, vars

-----------------------------------------------------------------------------
(* The other variables.                                                    *)
LEMMA ScalarStep ==
    IInv /\ [Next]_vars =>
        /\ main' \in MainType
        /\ voiceRecorder' \in Sessions \cup {Nobody}
        /\ currentStrategy' \in Sessions \cup {Nobody}
        /\ stopPolicy' \in {"none", "CANCELED", "SEND"}
        /\ crashed' \in BOOLEAN
        /\ stopReturned' \in BOOLEAN
<1> DEFINE Scalars == /\ main \in MainType
                      /\ voiceRecorder \in Sessions \cup {Nobody}
                      /\ currentStrategy \in Sessions \cup {Nobody}
                      /\ stopPolicy \in {"none", "CANCELED", "SEND"}
                      /\ crashed \in BOOLEAN
                      /\ stopReturned \in BOOLEAN
<1> SUFFICES ASSUME IInv, [Next]_vars PROVE Scalars'
  OBVIOUS
<1>s. Scalars
  BY DEF IInv, Types
<1> USE ServiceAssumption, <1>s DEF fields, files, history, besidesReader
<1>1. ASSUME NEW r \in Sessions, NEW s \in Strategies, StartCall(r, s) PROVE
      Scalars'
  BY <1>1 DEF StartCall, MainType, Starting
<1>2. CASE StartReads
  BY <1>2 DEF StartReads, Crash, MainType, Starting
<1>3. CASE StartStops
  BY <1>3 DEF StartStops, MainType, Starting
<1>4. CASE StartAssigns
  BY <1>4 DEF StartAssigns, MainType, Starting
<1>5. CASE StartLaunches
  <2>1. CASE voiceRecorder = Nobody
    BY <1>5, <2>1 DEF StartLaunches, Crash
  <2>2. CASE main' = Idle /\ UNCHANGED <<fields, crashed, history>>
    BY <2>2 DEF Idle, MainType
  <2>3. QED
    BY <1>5, <2>1, <2>2 DEF StartLaunches
<1>6. ASSUME NEW p \in StopPolicies, StopCall(p) PROVE Scalars'
  BY <1>6 DEF StopCall, MainType
<1>7. CASE StopSetsPolicy
  BY <1>7 DEF StopSetsPolicy, MainType
<1>8. CASE StopReads
  BY <1>8 DEF StopReads, Crash, MainType
<1>9. CASE StopStopsRecorder
  BY <1>9 DEF StopStopsRecorder, MainType
<1>10. CASE StopForgets
  BY <1>10 DEF StopForgets, Idle, MainType
<1>11. ASSUME NEW p \in {"SEND", "CANCELED"}, NEW r \in Sessions,
      UserChoice(p, r) PROVE Scalars'
  BY <1>11 DEF UserChoice, AsksUser, Spawn, DeleteCacheFile
<1>12. ASSUME NEW r \in Sessions, Run(r) PROVE Scalars'
  BY <1>12 DEF Run, Move
<1>13. ASSUME NEW r \in Sessions, HearFirstVoice(r) PROVE Scalars'
  BY <1>13 DEF HearFirstVoice, Listening, Move, Crash
<1>14. ASSUME NEW r \in Sessions, OpenFile(r) PROVE Scalars'
  BY <1>14 DEF OpenFile
<1>15. ASSUME NEW r \in Sessions, OpenFails(r) PROVE Scalars'
  BY <1>15 DEF OpenFails, Move
<1>16. ASSUME NEW r \in Sessions, HearMore(r) PROVE Scalars'
  BY <1>16 DEF HearMore, Listening, Move
<1>17. ASSUME NEW r \in Sessions, WriteBlock(r) PROVE Scalars'
  BY <1>17 DEF WriteBlock, Crash
<1>18. ASSUME NEW r \in Sessions, WriteFails(r) PROVE Scalars'
  BY <1>18 DEF WriteFails
<1>19. ASSUME NEW r \in Sessions, GoOn(r) PROVE Scalars'
  BY <1>19 DEF GoOn, Move
<1>20. ASSUME NEW r \in Sessions, NEW s \in NaturalEnds, EndNaturally(r, s)
      PROVE Scalars'
  BY <1>20 DEF EndNaturally, Stopped
<1>21. ASSUME NEW r \in Sessions, SeeStop(r) PROVE Scalars'
  BY <1>21 DEF SeeStop
<1>22. ASSUME NEW r \in Sessions, NotifyAndClose(r) PROVE Scalars'
  BY <1>22 DEF NotifyAndClose
<1>23. ASSUME NEW r \in Sessions, NotifyAndFail(r) PROVE Scalars'
  BY <1>23 DEF NotifyAndFail
<1>24. ASSUME NEW r \in Sessions, Decide(r) PROVE Scalars'
  BY <1>24 DEF Decide, Move, Spawn, DeleteCacheFile
<1>25. ASSUME NEW r \in Sessions, ForgetRecorder(r) PROVE Scalars'
  BY <1>25 DEF ForgetRecorder, Move
<1>26. ASSUME NEW t \in DOMAIN tasks, TakeFile(t) PROVE Scalars'
  BY <1>26 DEF TakeFile
<1>27. ASSUME NEW t \in DOMAIN tasks, PostFile(t) PROVE Scalars'
  BY <1>27 DEF PostFile
<1>28. ASSUME NEW t \in DOMAIN tasks, EndTask(t) PROVE Scalars'
  BY <1>28 DEF EndTask
<1>29. CASE UNCHANGED vars
  BY <1>29 DEF vars, fields, files, history
<1>30. QED BY <1>1, <1>2, <1>3, <1>4, <1>5, <1>6, <1>7, <1>8, <1>9, <1>10,
     <1>11, <1>12, <1>13, <1>14, <1>15, <1>16, <1>17, <1>18, <1>19, <1>20,
     <1>21, <1>22, <1>23, <1>24, <1>25, <1>26, <1>27, <1>28, <1>29 DEF Next,
     Client, Service, Reader, Sender

-----------------------------------------------------------------------------
(* What a step does to a session, as far as its promise is concerned.      *)
Same(s, t) == t.blocks = s.blocks /\ t.end = s.end

Moves(s, t) ==
    \/ t.at = s.at /\ Same(s, t)
    \/ s.at = "queued" /\ t.at \in {"top", "discarded"} /\ Same(s, t)
    \/ s.at = "top" /\ t.at = "opening" /\ s.blocks = 0 /\ Same(s, t)
    \/ s.at = "opening" /\ t.at = "writing" /\ Same(s, t)
    \/ s.at = "top" /\ t.at = "writing" /\ s.blocks \in 1..(MaxBlocks - 1) /\ Same(s, t)
    \/ s.at = "writing" /\ t.at = "checking" /\ t.blocks = s.blocks + 1 /\ t.end = s.end
    \/ s.at = "checking" /\ t.at = "top" /\ Same(s, t)
    \/ s.at = "checking" /\ t.at = "ending" /\ t.blocks = s.blocks
       /\ t.end \in NaturalEnds
    \/ s.at = "top" /\ t.at = "ending" /\ t.blocks = s.blocks /\ t.end = "USER"
    \/ s.at = "ending" /\ t.at \in {"deciding", "done"} /\ Same(s, t)
    \/ s.at = "deciding" /\ t.at = "clearing" /\ Same(s, t)
    \/ s.at = "clearing" /\ t.at = "done" /\ Same(s, t)

Arms(s, t) == s.at = "none" /\ t.at \in {"queued", "failed"} /\ Same(s, t)

LEMMA SessionMoves ==
    IInv /\ [Next]_vars =>
        \A q \in Sessions :
            \/ Moves(rec[q], rec'[q])
            \/ Arms(rec[q], rec'[q]) /\ main.at = "launch" /\ q = main.session
               /\ main' = Idle
<1> DEFINE Goal(q) == \/ Moves(rec[q], rec'[q])
                      \/ Arms(rec[q], rec'[q]) /\ main.at = "launch"
                         /\ q = main.session /\ main' = Idle
<1> SUFFICES ASSUME IInv, [Next]_vars, NEW q \in Sessions PROVE Goal(q)
  OBVIOUS
<1>t. /\ rec \in [Sessions -> SessionType]
      /\ main.at \in {"startLock", "stopLock"} => main.target \in Sessions
      /\ main.at = "launch" => main.session \in Sessions /\ rec[main.session].at = "none"
  BY DEF IInv, Types, MainInv, Starting
<1> USE <1>t DEF fields, files, history, besidesReader, Moves, Arms, Same, SessionType
<1>1. ASSUME NEW r \in Sessions, NEW s \in Strategies, StartCall(r, s) PROVE
      Goal(q)
  BY <1>1 DEF StartCall
<1>2. CASE StartReads
  BY <1>2 DEF StartReads, Crash
<1>3. CASE StartStops
  BY <1>3 DEF StartStops, Stopped, LockFree
<1>4. CASE StartAssigns
  BY <1>4 DEF StartAssigns
<1>5. CASE StartLaunches
  BY <1>5 DEF StartLaunches, Crash, Idle
<1>6. ASSUME NEW p \in StopPolicies, StopCall(p) PROVE Goal(q)
  BY <1>6 DEF StopCall
<1>7. CASE StopSetsPolicy
  BY <1>7 DEF StopSetsPolicy
<1>8. CASE StopReads
  BY <1>8 DEF StopReads, Crash
<1>9. CASE StopStopsRecorder
  BY <1>9 DEF StopStopsRecorder, Stopped, LockFree
<1>10. CASE StopForgets
  BY <1>10 DEF StopForgets, Idle
<1>11. ASSUME NEW p \in {"SEND", "CANCELED"}, NEW r \in Sessions,
      UserChoice(p, r) PROVE Goal(q)
  BY <1>11 DEF UserChoice, AsksUser, Spawn, DeleteCacheFile
<1>12. ASSUME NEW r \in Sessions, Run(r) PROVE Goal(q)
  BY <1>12 DEF Run, Move
<1>13. ASSUME NEW r \in Sessions, HearFirstVoice(r) PROVE Goal(q)
  BY <1>13 DEF HearFirstVoice, Listening, Move, Crash
<1>14. ASSUME NEW r \in Sessions, OpenFile(r) PROVE Goal(q)
  BY <1>14 DEF OpenFile
<1>15. ASSUME NEW r \in Sessions, OpenFails(r) PROVE Goal(q)
  BY <1>15 DEF OpenFails, Move
<1>16. ASSUME NEW r \in Sessions, HearMore(r) PROVE Goal(q)
  BY <1>16 DEF HearMore, Listening, Move
<1>17. ASSUME NEW r \in Sessions, WriteBlock(r) PROVE Goal(q)
  BY <1>17 DEF WriteBlock, Crash
<1>18. ASSUME NEW r \in Sessions, WriteFails(r) PROVE Goal(q)
  BY <1>18 DEF WriteFails
<1>19. ASSUME NEW r \in Sessions, GoOn(r) PROVE Goal(q)
  BY <1>19 DEF GoOn, Move
<1>20. ASSUME NEW r \in Sessions, NEW s \in NaturalEnds, EndNaturally(r, s)
      PROVE Goal(q)
  BY <1>20 DEF EndNaturally, Stopped
<1>21. ASSUME NEW r \in Sessions, SeeStop(r) PROVE Goal(q)
  BY <1>21 DEF SeeStop
<1>22. ASSUME NEW r \in Sessions, NotifyAndClose(r) PROVE Goal(q)
  BY <1>22 DEF NotifyAndClose
<1>23. ASSUME NEW r \in Sessions, NotifyAndFail(r) PROVE Goal(q)
  BY <1>23 DEF NotifyAndFail
<1>24. ASSUME NEW r \in Sessions, Decide(r) PROVE Goal(q)
  BY <1>24 DEF Decide, Move, Spawn, DeleteCacheFile
<1>25. ASSUME NEW r \in Sessions, ForgetRecorder(r) PROVE Goal(q)
  BY <1>25 DEF ForgetRecorder, Move
<1>26. ASSUME NEW t \in DOMAIN tasks, TakeFile(t) PROVE Goal(q)
  BY <1>26 DEF TakeFile
<1>27. ASSUME NEW t \in DOMAIN tasks, PostFile(t) PROVE Goal(q)
  BY <1>27 DEF PostFile
<1>28. ASSUME NEW t \in DOMAIN tasks, EndTask(t) PROVE Goal(q)
  BY <1>28 DEF EndTask
<1>29. CASE UNCHANGED vars
  BY <1>29 DEF vars, fields, files, history
<1>30. QED BY <1>1, <1>2, <1>3, <1>4, <1>5, <1>6, <1>7, <1>8, <1>9, <1>10,
     <1>11, <1>12, <1>13, <1>14, <1>15, <1>16, <1>17, <1>18, <1>19, <1>20,
     <1>21, <1>22, <1>23, <1>24, <1>25, <1>26, <1>27, <1>28, <1>29 DEF Next,
     Client, Service, Reader, Sender

LEMMA SessionInvStep == IInv /\ [Next]_vars => SessionInv'
<1> SUFFICES ASSUME IInv, [Next]_vars, NEW q \in Sessions PROVE Progress(rec'[q])
  BY DEF SessionInv
<1>1. Progress(rec[q]) /\ rec[q].blocks \in 0..MaxBlocks
  BY DEF IInv, SessionInv, Types, SessionType
<1>2. Moves(rec[q], rec'[q]) \/ Arms(rec[q], rec'[q])
  BY SessionMoves
<1>3. NaturalEnds \subseteq {"INTERRUPTED", "IDLE", "MAX"} /\ MaxBlocks \in Nat \ {0}
  BY ServiceAssumption
<1>4. CASE Arms(rec[q], rec'[q])
  BY <1>1, <1>4 DEF Arms, Same, Progress, Ended
<1>5. CASE rec'[q].at = rec[q].at /\ Same(rec[q], rec'[q])
  BY <1>1, <1>5 DEF Same, Progress
<1>6. CASE rec'[q].at = "ending"
  <2>1. CASE rec[q].at = "ending"
    BY <1>2, <1>5, <1>6, <2>1 DEF Moves, Arms
  <2>2. CASE rec[q].at = "top"
    <3>1. rec'[q].end = "USER"
      BY <1>2, <1>6, <2>2 DEF Moves, Arms
    <3>2. QED
      BY <1>6, <3>1 DEF Progress
  <2>3. CASE rec[q].at = "checking"
    <3>1. rec'[q].blocks = rec[q].blocks /\ rec'[q].end \in NaturalEnds
      BY <1>2, <1>6, <2>3 DEF Moves, Arms
    <3>2. rec[q].blocks > 0
      BY <1>1, <2>3 DEF Progress
    <3>3. rec'[q].blocks # 0
      BY <1>1, <3>1, <3>2
    <3>4. rec'[q].end \in {"INTERRUPTED", "IDLE", "MAX", "USER"}
      BY <1>3, <3>1
    <3>5. QED
      BY <1>6, <3>3, <3>4 DEF Progress
  <2>4. rec[q].at \in {"ending", "top", "checking"}
    BY <1>2, <1>6 DEF Moves, Arms
  <2>5. QED
    BY <2>1, <2>2, <2>3, <2>4
<1>7. CASE rec'[q].at \in {"deciding", "clearing", "done"}
  <2>1. rec[q].at \in Ended /\ Same(rec[q], rec'[q])
    BY <1>2, <1>7 DEF Moves, Arms, Ended
  <2>2. QED
    BY <1>1, <1>7, <2>1 DEF Progress, Same
<1>8. CASE rec'[q].at = "top"
  BY <1>8 DEF Progress, Ended
<1>9. CASE rec'[q].at = "discarded" /\ rec[q].at = "queued"
  BY <1>1, <1>2, <1>9 DEF Moves, Arms, Same, Progress, Ended
<1>10. CASE rec'[q].at = "opening" /\ rec[q].at = "top"
  BY <1>1, <1>2, <1>10 DEF Moves, Arms, Same, Progress, Ended
<1>11. CASE rec'[q].at = "writing" /\ rec[q].at = "opening"
  <2>1. rec'[q].blocks = 0
    BY <1>1, <1>2, <1>11 DEF Moves, Arms, Same, Progress
  <2>2. QED
    BY <1>3, <1>11, <2>1 DEF Progress, Ended
<1>12. CASE rec'[q].at = "writing" /\ rec[q].at = "top"
  <2>1. rec'[q].blocks \in 1..(MaxBlocks - 1)
    BY <1>2, <1>12 DEF Moves, Arms, Same
  <2>2. QED
    BY <1>3, <1>12, <2>1 DEF Progress, Ended
<1>13. CASE rec'[q].at = "checking" /\ rec[q].at = "writing"
  <2>1. rec'[q].blocks = rec[q].blocks + 1
    BY <1>2, <1>13 DEF Moves, Arms
  <2>2. QED
    BY <1>1, <1>13, <2>1 DEF Progress, Ended
<1>14. QED
  BY <1>2, <1>4, <1>5, <1>6, <1>7, <1>8, <1>9, <1>10, <1>11, <1>12, <1>13 DEF Moves

LEMMA BeforeStep ==
    IInv /\ [Next]_vars =>
        \A q \in Sessions : Before(rec'[q]) => Before(rec[q])
<1> SUFFICES ASSUME IInv, [Next]_vars, NEW q \in Sessions, Before(rec'[q])
             PROVE Before(rec[q])
  OBVIOUS
<1>1. Progress(rec[q]) /\ rec[q].blocks \in 0..MaxBlocks
  BY DEF IInv, SessionInv, Types, SessionType
<1>2. Moves(rec[q], rec'[q]) \/ Arms(rec[q], rec'[q])
  BY SessionMoves
<1>3. MaxBlocks \in Nat
  BY ServiceAssumption
<1>4. QED
  BY <1>1, <1>2, <1>3 DEF Moves, Arms, Same, Progress, Before

LEMMA MainInvStep == IInv /\ [Next]_vars => MainInv'
<1> SUFFICES ASSUME IInv, [Next]_vars PROVE MainInv'
  OBVIOUS
<1>t. /\ main \in MainType /\ MainInv
      /\ voiceRecorder \in Sessions \cup {Nobody}
      /\ Nobody \notin Sessions
  BY ServiceAssumption DEF IInv, Types
<1>m. \A q \in Sessions :
        \/ Moves(rec[q], rec'[q])
        \/ Arms(rec[q], rec'[q]) /\ main.at = "launch" /\ q = main.session /\ main' = Idle
  BY SessionMoves
<1>n. \A q \in Sessions : rec'[q].at # "none" =>
        rec[q].at # "none" \/ (main.at = "launch" /\ main' = Idle)
  BY <1>m DEF Moves
<1>o. main' # Idle => \A q \in Sessions : rec[q].at = "none" => rec'[q].at = "none"
  BY <1>m DEF Moves
<1>u. UNCHANGED <<main, currentStrategy>> => MainInv'
  BY <1>t, <1>n, <1>o DEF MainInv, Starting, Idle
<1> USE <1>t, <1>n, <1>o DEF MainInv, Starting, Idle, MainType, fields, files, history,
    besidesReader
<1>1. ASSUME NEW r \in Sessions, NEW s \in Strategies, StartCall(r, s) PROVE
      MainInv'
  BY <1>1 DEF StartCall
<1>2. CASE StartReads
  BY <1>2 DEF StartReads, Crash
<1>3. CASE StartStops
  BY <1>3 DEF StartStops, Stopped, LockFree
<1>4. CASE StartAssigns
  BY <1>4 DEF StartAssigns
<1>5. CASE StartLaunches
  BY <1>5 DEF StartLaunches, Crash, Idle
<1>6. ASSUME NEW p \in StopPolicies, StopCall(p) PROVE MainInv'
  BY <1>6 DEF StopCall
<1>7. CASE StopSetsPolicy
  BY <1>7 DEF StopSetsPolicy
<1>8. CASE StopReads
  BY <1>8 DEF StopReads, Crash
<1>9. CASE StopStopsRecorder
  BY <1>9 DEF StopStopsRecorder, Stopped, LockFree
<1>10. CASE StopForgets
  BY <1>10 DEF StopForgets, Idle
<1>11. ASSUME NEW r \in Sessions, NotifyAndFail(r) PROVE MainInv'
  <2>1. UNCHANGED <<main, currentStrategy>>
    BY <1>11 DEF NotifyAndFail
  <2>2. QED
    BY <2>1, <1>u
<1>12. ASSUME NEW r \in Sessions, ForgetRecorder(r) PROVE MainInv'
  <2>1. UNCHANGED <<main, currentStrategy>>
    BY <1>12 DEF ForgetRecorder, Move
  <2>2. QED
    BY <2>1, <1>u
<1>13. CASE UNCHANGED Mains
  BY <1>13, <1>u DEF Mains
<1>14. QED BY <1>1, <1>2, <1>3, <1>4, <1>5, <1>6, <1>7, <1>8, <1>9, <1>10,
     <1>11, <1>12, <1>13, MainParts DEF MainActions, Service

-----------------------------------------------------------------------------
(* The files and the tasks.                                                *)
TasksType == tasks \in Seq(TaskType)
CacheType == /\ cache \in [Extensions -> Sessions \cup {Nobody}]
             /\ sendFiles \in [Moments -> Sessions \cup {Nobody}]
ContentType == content \in [Sessions -> SUBSET (Sessions \X (1..MaxBlocks))]

LEMMA TaskReplaced ==
    ASSUME tasks \in Seq(TaskType), NEW t \in DOMAIN tasks, NEW v \in TaskType
    PROVE  [tasks EXCEPT ![t] = v] \in Seq(TaskType)
BY ExceptSeq

(* What the actions make of a task keeps its type.                         *)
LEMMA TaskFields ==
    ASSUME NEW k \in TaskType
    PROVE  /\ k.by \in Sessions /\ k.file \in Moments \cup {Nobody}
           /\ [k EXCEPT !.at = "done"] \in TaskType
           /\ \A m \in Moments : [k EXCEPT !.at = "sending", !.file = m] \in TaskType
           /\ \A a \in {"ok", "error", "malformed"} :
                 [k EXCEPT !.at = "answered", !.answer = a] \in TaskType
BY DEF TaskType

LEMMA FileTypes == IInv /\ [Next]_vars => TasksType' /\ CacheType' /\ ContentType'
<1> DEFINE Goal == TasksType /\ CacheType /\ ContentType
<1> SUFFICES ASSUME IInv, [Next]_vars PROVE Goal'
  OBVIOUS
<1>t. /\ Goal /\ rec \in [Sessions -> SessionType]
      /\ \A q \in Sessions : rec[q].at # "none" => currentStrategy \in Sessions
      /\ \A t \in DOMAIN tasks : tasks[t] \in TaskType
  BY DEF IInv, Types, MainInv, TasksType, CacheType, ContentType
<1>e. \A q \in Sessions : Extension[q] \in Extensions
  BY DEF Extensions
<1>s. ASSUME NEW q \in Sessions, Spawn(q) PROVE TasksType'
  <2>1. [at |-> "queued", by |-> q, file |-> Nobody, answer |-> "none"] \in TaskType
    BY DEF TaskType
  <2>2. QED
    BY <1>t, <1>s, <2>1 DEF Spawn, TasksType
<1>u. UNCHANGED <<files, tasks>> => Goal'
  BY <1>t DEF files, TasksType, CacheType, ContentType
<1>d. ASSUME NEW q \in Sessions, DeleteCacheFile(q) PROVE CacheType' /\ ContentType'
  BY <1>t, <1>e, <1>d DEF DeleteCacheFile, CacheType, ContentType
<1> USE DEF fields, files, history, besidesReader
<1>1. ASSUME NEW p \in {"SEND", "CANCELED"}, NEW r \in Sessions, UserChoice(p, r)
      PROVE  Goal'
  <2>1. currentStrategy \in Sessions
    BY <1>1, <1>t DEF UserChoice, AsksUser
  <2>2. CASE Spawn(currentStrategy) /\ UNCHANGED files
    BY <1>t, <1>s, <2>1, <2>2 DEF CacheType, ContentType
  <2>3. CASE DeleteCacheFile(currentStrategy) /\ UNCHANGED tasks
    BY <1>t, <1>d, <2>1, <2>3 DEF TasksType
  <2>4. QED
    BY <1>1, <2>2, <2>3 DEF UserChoice
<1>2. ASSUME NEW r \in Sessions, OpenFile(r) PROVE Goal'
  <2>1. Extension[currentStrategy] \in Extensions
    BY <1>2, <1>t, <1>e DEF OpenFile
  <2> DEFINE e == Extension[currentStrategy]
  <2> DEFINE f == IF cache[e] = Nobody THEN r ELSE cache[e]
  <2>4. f \in Sessions
    BY <1>t, <2>1 DEF CacheType
  <2>5. /\ cache' = [cache EXCEPT ![e] = f] /\ content' = [content EXCEPT ![f] = {}]
        /\ UNCHANGED sendFiles
    BY <1>2 DEF OpenFile
  <2>6. CacheType' /\ ContentType'
    BY <1>t, <2>1, <2>4, <2>5 DEF CacheType, ContentType
  <2>7. QED
    BY <1>2, <1>t, <2>6 DEF OpenFile, TasksType
<1>3. ASSUME NEW r \in Sessions, WriteBlock(r) PROVE Goal'
  <2>1. CASE rec[r].outfile = Nobody
    BY <1>3, <1>u, <2>1 DEF WriteBlock, Crash
  <2>2. CASE rec[r].outfile # Nobody
    <3>1. rec[r].blocks \in 0..MaxBlocks /\ rec[r].blocks < MaxBlocks
      BY <1>3, <1>t DEF WriteBlock, IInv, SessionInv, Progress, SessionType
    <3>2. content' = [content EXCEPT ![rec[r].outfile] =
                          content[rec[r].outfile] \cup {<<r, rec[r].blocks + 1>>}]
      BY <1>3, <2>2 DEF WriteBlock
    <3>3. <<r, rec[r].blocks + 1>> \in Sessions \X (1..MaxBlocks)
      BY <3>1, ServiceAssumption
    <3>4. ContentType'
      BY <1>t, <3>2, <3>3 DEF ContentType
    <3>5. QED
      BY <1>3, <1>t, <2>2, <3>4 DEF WriteBlock, TasksType, CacheType
  <2>3. QED
    BY <2>1, <2>2
<1>4. ASSUME NEW r \in Sessions, Decide(r) PROVE Goal'
  <2>1. CASE Spawn(r) /\ UNCHANGED files
    BY <1>t, <1>s, <2>1 DEF CacheType, ContentType
  <2>2. CASE DeleteCacheFile(r) /\ UNCHANGED tasks
    BY <1>t, <1>d, <2>2 DEF TasksType
  <2>3. CASE UNCHANGED <<files, tasks>>
    BY <1>u, <2>3
  <2>4. QED
    BY <1>4, <2>1, <2>2, <2>3 DEF Decide
<1>5. ASSUME NEW t \in DOMAIN tasks, TakeFile(t) PROVE Goal'
  <2> DEFINE e == Extension[tasks[t].by]
  <2>1. tasks[t] \in TaskType /\ e \in Extensions
    BY <1>t, <1>e, TaskFields
  <2>2. cache[e] \in Sessions \cup {Nobody} /\ cache' = [cache EXCEPT ![e] = Nobody]
    BY <1>5, <1>t, <2>1 DEF TakeFile, CacheType
  <2>3. CASE cache[e] = Nobody
    <3>1. tasks' = [tasks EXCEPT ![t].at = "done"] /\ UNCHANGED sendFiles
      BY <1>5, <2>3 DEF TakeFile, Take
    <3>2. TasksType'
      BY <1>t, <2>1, <3>1, TaskFields, TaskReplaced DEF TasksType
    <3>3. QED
      BY <1>5, <1>t, <2>1, <2>2, <3>1, <3>2 DEF TakeFile, CacheType, ContentType
  <2>4. ASSUME NEW m \in Moments, cache[e] # Nobody,
               sendFiles' = [sendFiles EXCEPT ![m] = cache[e]],
               tasks' = [tasks EXCEPT ![t].at = "sending", ![t].file = m]
        PROVE  Goal'
    <3>1. TasksType'
      BY <1>t, <2>1, <2>4, TaskFields, TaskReplaced DEF TasksType
    <3>2. QED
      BY <1>5, <1>t, <2>1, <2>2, <2>4, <3>1 DEF TakeFile, CacheType, ContentType
  <2>5. QED
    BY <1>5, <2>3, <2>4 DEF TakeFile, Take
<1>6. ASSUME NEW t \in DOMAIN tasks, PostFile(t) PROVE Goal'
  <2>1. PICK a \in {"ok", "error", "malformed"} :
            tasks' = [tasks EXCEPT ![t].at = "answered", ![t].answer = a]
    BY <1>6 DEF PostFile
  <2> DEFINE v == [tasks[t] EXCEPT !.at = "answered", !.answer = a]
  <2>v. v \in TaskType
    BY <1>t, TaskFields
  <2>w. tasks' = [tasks EXCEPT ![t] = v]
    BY <2>1
  <2>2. TasksType'
    BY <1>t, <2>v, <2>w, TaskReplaced DEF TasksType
  <2>3. UNCHANGED files
    BY <1>6 DEF PostFile
  <2>4. QED
    BY <1>t, <2>2, <2>3 DEF CacheType, ContentType
<1>7. ASSUME NEW t \in DOMAIN tasks, EndTask(t) PROVE Goal'
  <2>1. tasks' = [tasks EXCEPT ![t].at = "done"]
    BY <1>7 DEF EndTask
  <2>2. TasksType'
    BY <1>t, <2>1, TaskFields, TaskReplaced DEF TasksType
  <2>3. sendFiles' = [sendFiles EXCEPT ![tasks[t].file] = Nobody] /\ UNCHANGED <<cache, content>>
    BY <1>7 DEF EndTask
  <2>4. QED
    BY <1>t, <2>2, <2>3 DEF CacheType, ContentType
<1>8. CASE UNCHANGED <<files, tasks, uploads>>
  BY <1>8, <1>u
<1>9. QED BY <1>1, <1>2, <1>3, <1>4, <1>5, <1>6, <1>7, <1>8, FileParts DEF
     FileActions, Sender

(* What an action makes of the tasks.                                      *)
LEMMA Spawned ==
    ASSUME TasksType, NEW q \in Sessions, Spawn(q)
    PROVE  LET n == Len(tasks) + 1 IN
           /\ DOMAIN tasks' = DOMAIN tasks \cup {n} /\ n \notin DOMAIN tasks
           /\ \A t \in DOMAIN tasks : tasks'[t] = tasks[t]
           /\ tasks'[n].at = "queued" /\ tasks'[n].by = q
BY DEF Spawn, TasksType

LEMMA TaskChanged ==
    ASSUME TasksType, NEW t \in DOMAIN tasks, TakeFile(t) \/ PostFile(t) \/ EndTask(t)
    PROVE  /\ DOMAIN tasks' = DOMAIN tasks
           /\ \A o \in DOMAIN tasks \ {t} : tasks'[o] = tasks[o]
           /\ tasks[t] \in TaskType /\ tasks[t].at # "done" /\ tasks'[t].by = tasks[t].by
           /\ tasks'[t].at = "queued" => tasks[t].at = "queued"
<1>1. tasks[t] \in TaskType
  BY DEF TasksType
<1>2. CASE TakeFile(t)
  BY <1>1, <1>2 DEF TakeFile, Take, TasksType, TaskType
<1>3. CASE PostFile(t)
  BY <1>1, <1>3 DEF PostFile, TasksType, TaskType
<1>4. CASE EndTask(t)
  BY <1>1, <1>4 DEF EndTask, TasksType, TaskType
<1>5. QED
  BY <1>2, <1>3, <1>4

(* A task takes no file, or takes it from the cache to a name.             *)
LEMMA Taken ==
    ASSUME IInv, NEW t \in DOMAIN tasks, TakeFile(t)
    PROVE  LET e == Extension[tasks[t].by] IN
           /\ e \in Extensions /\ tasks[t].at = "queued"
           /\ cache'[e] = Nobody /\ \A d \in Extensions \ {e} : cache'[d] = cache[d]
           /\ UNCHANGED <<rec, content, uploads>>
           /\ \/ /\ cache[e] = Nobody /\ tasks'[t].at = "done"
                 /\ UNCHANGED sendFiles
              \/ \E m \in Moments :
                    /\ cache[e] \in Sessions /\ tasks'[t].at = "sending" /\ tasks'[t].file = m
                    /\ sendFiles'[m] = cache[e]
                    /\ \A n \in Moments \ {m} : sendFiles'[n] = sendFiles[n]
<1> DEFINE e == Extension[tasks[t].by]
<1>1. TasksType /\ CacheType /\ tasks[t] \in TaskType
  BY DEF IInv, Types, TasksType, CacheType
<1>2. e \in Extensions
  BY <1>1 DEF Extensions, TaskType
<1>3. /\ cache'[e] = Nobody /\ \A d \in Extensions \ {e} : cache'[d] = cache[d]
      /\ UNCHANGED <<rec, content, uploads>> /\ tasks[t].at = "queued"
  BY <1>1, <1>2 DEF TakeFile, CacheType, history
<1>4. CASE cache[e] = Nobody
  <2>1. tasks' = [tasks EXCEPT ![t].at = "done"] /\ UNCHANGED sendFiles
    BY <1>4 DEF TakeFile, Take
  <2>2. tasks'[t].at = "done"
    BY <1>1, <2>1 DEF TasksType, TaskType
  <2>3. QED
    BY <1>2, <1>3, <1>4, <2>1, <2>2
<1>5. ASSUME NEW m \in Moments, cache[e] # Nobody,
             sendFiles' = [sendFiles EXCEPT ![m] = cache[e]],
             tasks' = [tasks EXCEPT ![t].at = "sending", ![t].file = m]
      PROVE  /\ cache[e] \in Sessions /\ tasks'[t].at = "sending" /\ tasks'[t].file = m
             /\ sendFiles'[m] = cache[e]
             /\ \A n \in Moments \ {m} : sendFiles'[n] = sendFiles[n]
  <2>1. cache[e] \in Sessions
    BY <1>1, <1>2, <1>5 DEF CacheType
  <2>2. tasks'[t].at = "sending" /\ tasks'[t].file = m
    BY <1>1, <1>5 DEF TasksType, TaskType
  <2>3. QED
    BY <1>1, <1>5, <2>1, <2>2 DEF CacheType
<1>6. QED
  BY <1>2, <1>3, <1>4, <1>5 DEF TakeFile, Take

(* A task posts the file of its name, if it is there, or does not.         *)
LEMMA Posted ==
    ASSUME IInv, NEW t \in DOMAIN tasks, PostFile(t)
    PROVE  LET m == tasks[t].file IN
           /\ m \in Moments /\ tasks[t].at = "sending" /\ tasks'[t].at = "answered"
           /\ tasks'[t].file = m /\ UNCHANGED <<rec, cache, sendFiles, content>>
           /\ \/ UNCHANGED uploads
              \/ /\ sendFiles[m] \in Sessions
                 /\ uploads' = uploads \cup {[task |-> t, by |-> tasks[t].by, name |-> m,
                                  file |-> sendFiles[m], audio |-> content[sendFiles[m]]]}
<1> DEFINE m == tasks[t].file
<1>1. TasksType /\ CacheType /\ tasks[t] \in TaskType
  BY DEF IInv, Types, TasksType, CacheType
<1>2. m \in Moments /\ tasks[t].at = "sending" /\ UNCHANGED <<rec, cache, sendFiles, content>>
  BY DEF PostFile, IInv, FileInv, TasksInv, files
<1>3. sendFiles[m] \in Sessions \cup {Nobody}
  BY <1>1, <1>2 DEF CacheType
<1>4. ASSUME NEW a \in {"ok", "error", "malformed"},
             tasks' = [tasks EXCEPT ![t].at = "answered", ![t].answer = a]
      PROVE  tasks'[t].at = "answered" /\ tasks'[t].file = m
  BY <1>1, <1>4 DEF TasksType, TaskType
<1>5. tasks'[t].at = "answered" /\ tasks'[t].file = m
  BY <1>4 DEF PostFile
<1>6. QED
  BY <1>2, <1>3, <1>5 DEF PostFile

(* And its name leads to no file in the end.                               *)
LEMMA TaskEnded ==
    ASSUME IInv, NEW t \in DOMAIN tasks, EndTask(t)
    PROVE  LET m == tasks[t].file IN
           /\ m \in Moments /\ tasks[t].at = "answered" /\ tasks'[t].at = "done"
           /\ UNCHANGED <<rec, cache, content, uploads>>
           /\ sendFiles'[m] = Nobody /\ \A n \in Moments \ {m} : sendFiles'[n] = sendFiles[n]
<1>1. TasksType /\ CacheType /\ tasks[t] \in TaskType
  BY DEF IInv, Types, TasksType, CacheType
<1>2. tasks[t].file \in Moments /\ tasks[t].at = "answered"
  BY DEF EndTask, IInv, FileInv, TasksInv
<1>3. tasks'[t].at = "done"
  BY <1>1 DEF EndTask, TasksType, TaskType
<1>4. QED
  BY <1>1, <1>2, <1>3 DEF EndTask, CacheType, history

LEMMA TasksInvStep == IInv /\ [Next]_vars => TasksInv'
<1> SUFFICES ASSUME IInv, [Next]_vars PROVE TasksInv'
  OBVIOUS
<1>t. TasksType /\ TasksInv
      /\ \A q \in Sessions : rec[q].at # "none" => currentStrategy \in Sessions
  BY DEF IInv, Types, TasksType, FileInv, MainInv
<1>s. ASSUME NEW q \in Sessions, Spawn(q) PROVE TasksInv'
  BY <1>t, <1>s, Spawned DEF TasksInv
<1>u. UNCHANGED tasks => TasksInv'
  BY <1>t DEF TasksInv
<1>1. ASSUME NEW p \in {"SEND", "CANCELED"}, NEW r \in Sessions, UserChoice(p, r)
      PROVE  TasksInv'
  BY <1>1, <1>s, <1>t, <1>u DEF UserChoice, AsksUser
<1>2. ASSUME NEW r \in Sessions, OpenFile(r) \/ WriteBlock(r) PROVE TasksInv'
  BY <1>2, <1>u DEF OpenFile, WriteBlock, Crash
<1>3. ASSUME NEW r \in Sessions, Decide(r) PROVE TasksInv'
  BY <1>3, <1>s, <1>u DEF Decide
<1>4. ASSUME NEW t \in DOMAIN tasks, TakeFile(t) PROVE TasksInv'
  BY <1>4, <1>t, TaskChanged, Taken DEF TasksInv
<1>5. ASSUME NEW t \in DOMAIN tasks, PostFile(t) PROVE TasksInv'
  BY <1>5, <1>t, TaskChanged, Posted DEF TasksInv
<1>6. ASSUME NEW t \in DOMAIN tasks, EndTask(t) PROVE TasksInv'
  BY <1>6, <1>t, TaskChanged, TaskEnded DEF TasksInv
<1>7. CASE UNCHANGED <<files, tasks, uploads>>
  BY <1>7, <1>u
<1>8. QED BY <1>1, <1>2, <1>3, <1>4, <1>5, <1>6, <1>7, FileParts DEF FileActions, Sender

LEMMA NamesStep == IInv /\ [Next]_vars => NamesInv' /\ PostedInv'
<1> DEFINE Goal == NamesInv /\ PostedInv
<1> SUFFICES ASSUME IInv, [Next]_vars PROVE Goal'
  OBVIOUS
<1>t. /\ TasksType /\ CacheType /\ Goal /\ rec \in [Sessions -> SessionType]
      /\ \A q \in Sessions : rec[q].at # "none" => currentStrategy \in Sessions
      /\ Nobody \notin Sessions
  BY ServiceAssumption DEF IInv, Types, MainInv, TasksType, CacheType, FileInv
<1>b. \A q \in Sessions : Before(rec'[q]) => Before(rec[q])
  BY BeforeStep
<1>e. \A q \in Sessions : Extension[q] \in Extensions
  BY DEF Extensions
<1>k. Extensions' = Extensions
  BY DEF Extensions
(* Files that disappear disturb nothing.                                   *)
<1>u. ASSUME UNCHANGED uploads,
             \A e \in Extensions : cache'[e] \in {cache[e], Nobody},
             \A m \in Moments : sendFiles'[m] \in {sendFiles[m], Nobody}
      PROVE  Goal'
  <2>1. NamesInv'
    BY <1>t, <1>b, <1>k, <1>u DEF NamesInv
  <2>2. PostedInv'
    BY <1>t, <1>b, <1>k, <1>u DEF PostedInv
  <2>3. QED
    BY <2>1, <2>2
<1>d. ASSUME NEW q \in Sessions, DeleteCacheFile(q), UNCHANGED uploads PROVE Goal'
  <2>1. /\ \A d \in Extensions : cache'[d] \in {cache[d], Nobody}
        /\ UNCHANGED sendFiles
    BY <1>t, <1>d, <1>e DEF DeleteCacheFile, CacheType
  <2>2. QED
    BY <1>d, <1>u, <2>1
<1>1. ASSUME NEW p \in {"SEND", "CANCELED"}, NEW r \in Sessions, UserChoice(p, r)
      PROVE  Goal'
  <2>1. currentStrategy \in Sessions /\ UNCHANGED uploads
    BY <1>1, <1>t DEF UserChoice, AsksUser, history
  <2>2. UNCHANGED files \/ DeleteCacheFile(currentStrategy)
    BY <1>1 DEF UserChoice
  <2>3. QED
    BY <1>d, <1>u, <2>1, <2>2 DEF files
<1>2. ASSUME NEW r \in Sessions, OpenFile(r) PROVE Goal'
  <2> DEFINE e == Extension[currentStrategy]
  <2>1. e \in Extensions /\ UNCHANGED <<sendFiles, uploads>>
    BY <1>2, <1>t, <1>e DEF OpenFile, history
  <2>2. CASE cache[e] # Nobody
    <3>1. UNCHANGED cache
      BY <1>2, <1>t, <2>1, <2>2 DEF OpenFile, CacheType
    <3>2. QED
      BY <1>u, <2>1, <3>1
  <2>3. CASE cache[e] = Nobody
    <3>1. cache'[e] = r /\ \A d \in Extensions \ {e} : cache'[d] = cache[d]
      BY <1>2, <1>t, <2>1, <2>3 DEF OpenFile, CacheType
    <3>2. Before(rec[r]) /\ ~Before(rec'[r])
      BY <1>2, <1>t DEF OpenFile, Before, IInv, SessionInv, Progress, SessionType
    <3>3. /\ \A d \in Extensions : cache[d] # r
          /\ \A m \in Moments : sendFiles[m] # r
      BY <1>t, <3>2 DEF NamesInv
    <3>4. \A u \in uploads : u.file # r
      BY <1>t, <3>2 DEF PostedInv
    <3>5. NamesInv'
      BY <1>t, <1>b, <1>k, <2>1, <2>3, <3>1, <3>2, <3>3 DEF NamesInv
    <3>6. PostedInv'
      BY <1>t, <1>b, <1>k, <2>1, <3>1, <3>4 DEF PostedInv
    <3>7. QED
      BY <3>5, <3>6
  <2>4. QED
    BY <2>2, <2>3
<1>3. ASSUME NEW r \in Sessions, WriteBlock(r) PROVE Goal'
  <2>1. UNCHANGED <<cache, sendFiles, uploads>>
    BY <1>3 DEF WriteBlock, Crash, files, history
  <2>2. QED
    BY <1>u, <2>1
<1>4. ASSUME NEW r \in Sessions, Decide(r) PROVE Goal'
  <2>1. UNCHANGED uploads /\ (UNCHANGED files \/ DeleteCacheFile(r))
    BY <1>4 DEF Decide, history
  <2>2. QED
    BY <1>d, <1>u, <2>1 DEF files
<1>5. ASSUME NEW t \in DOMAIN tasks, TakeFile(t) PROVE Goal'
  <2> DEFINE e == Extension[tasks[t].by]
  <2>1. CASE UNCHANGED sendFiles
    BY <1>5, <1>u, <2>1, Taken
  <2>2. ASSUME NEW m \in Moments, cache[e] \in Sessions, sendFiles'[m] = cache[e],
               \A n \in Moments \ {m} : sendFiles'[n] = sendFiles[n]
        PROVE  Goal'
    <3>1. /\ e \in Extensions /\ UNCHANGED <<rec, uploads>> /\ cache'[e] = Nobody
          /\ \A d \in Extensions \ {e} : cache'[d] = cache[d]
      BY <1>5, Taken
    <3>2. /\ \A d \in Extensions \ {e} : cache[d] # cache[e]
          /\ \A n \in Moments : sendFiles[n] # cache[e]
          /\ ~Before(rec[cache[e]])
      BY <1>t, <2>2, <3>1 DEF NamesInv
    <3>3. \A u \in uploads : u.file # cache[e]
      BY <1>t, <3>1 DEF PostedInv
    <3>4. NamesInv'
      BY <1>t, <1>k, <2>2, <3>1, <3>2 DEF NamesInv
    <3>5. PostedInv'
      BY <1>t, <1>k, <2>2, <3>1, <3>3 DEF PostedInv
    <3>6. QED
      BY <3>4, <3>5
  <2>3. QED
    BY <1>5, <2>1, <2>2, Taken
<1>6. ASSUME NEW t \in DOMAIN tasks, PostFile(t) PROVE Goal'
  <2> DEFINE m == tasks[t].file
  <2> DEFINE f == sendFiles[m]
  <2> DEFINE w == [task |-> t, by |-> tasks[t].by, name |-> m, file |-> f,
                   audio |-> content[f]]
  <2>1. m \in Moments /\ UNCHANGED <<rec, cache, sendFiles>>
    BY <1>6, Posted
  <2>2. CASE UNCHANGED uploads
    BY <1>u, <2>1, <2>2
  <2>3. CASE f \in Sessions /\ uploads' = uploads \cup {w}
    <3>1. /\ ~Before(rec[f]) /\ \A e \in Extensions : cache[e] # f
          /\ \A n \in Moments : sendFiles[n] = f => n = m
      BY <1>t, <2>1, <2>3 DEF NamesInv
    <3>2. \A u \in uploads : u.file = f => u.name = m
      BY <1>t, <2>1 DEF PostedInv
    <3>3. w.file = f /\ w.name = m
      OBVIOUS
    <3> HIDE DEF w, f, m
    <3>4. NamesInv'
      BY <1>t, <1>k, <2>1 DEF NamesInv
    <3>5. PostedInv'
      BY <1>t, <1>k, <2>1, <2>3, <3>1, <3>2, <3>3 DEF PostedInv
    <3>6. QED
      BY <3>4, <3>5
  <2>4. QED
    BY <1>6, <2>2, <2>3, Posted
<1>7. ASSUME NEW t \in DOMAIN tasks, EndTask(t) PROVE Goal'
  <2>1. /\ UNCHANGED <<cache, uploads>>
        /\ \A m \in Moments : sendFiles'[m] \in {sendFiles[m], Nobody}
    BY <1>7, TaskEnded
  <2>2. QED
    BY <1>u, <2>1
<1>8. CASE UNCHANGED <<files, tasks, uploads>>
  BY <1>8, <1>u DEF files
<1>9. QED BY <1>1, <1>2, <1>3, <1>4, <1>5, <1>6, <1>7, <1>8, FileParts DEF
     FileActions, Sender

LEMMA InvStep == IInv /\ [Next]_vars => IInv'
<1> SUFFICES ASSUME IInv, [Next]_vars PROVE IInv'
  OBVIOUS
<1>1. Types'
  BY RecStep, ScalarStep, FileTypes DEF Types, TasksType, CacheType, ContentType
<1>2. QED
  BY <1>1, MainInvStep, SessionInvStep, TasksInvStep, NamesStep DEF IInv, FileInv

(* The inductive invariant holds, whatever the client, the readers and the *)
(* senders do.                                                             *)
THEOREM InductiveInvariant == Spec => []IInv
BY InitHolds, InvStep, PTL DEF Spec

-----------------------------------------------------------------------------
(* Every variable has its type, whatever the client, the readers and the   *)
(* senders of VoiceRecorderService do.                                     *)
THEOREM TypeCorrect == Spec => []TypeOK
<1>1. IInv => TypeOK
  <2> SUFFICES ASSUME IInv PROVE TypeOK
    OBVIOUS
  <2>1. /\ main.at \in {"idle", "setPolicy", "stopRead", "stopLock", "forget"} \cup Starting
        /\ main.session \in Sessions \cup {Nobody}
        /\ main.target \in Sessions \cup {Nobody}
        /\ main.policy \in {"none", "CANCELED", "SEND"}
    BY DEF IInv, Types, MainType
  <2>2. \A t \in DOMAIN tasks : tasks[t] \in TaskType
    BY DEF IInv, Types
  <2>3. QED
    BY <2>1, <2>2 DEF IInv, Types, TypeOK, Starting
<1>2. QED
  BY <1>1, InductiveInvariant, PTL

(* No file is posted by two tasks unless one name, of one millisecond, has *)
(* led both to it, although names are shared and nothing is locked         *)
(* (VoiceRecorderService.java:200, 241, 297, 364-365, 440).                *)
THEOREM SentOnceHolds == Spec => []SentOnce
<1>1. IInv => SentOnce
  BY DEF IInv, FileInv, PostedInv, SentOnce
<1>2. QED
  BY <1>1, InductiveInvariant, PTL

-----------------------------------------------------------------------------
(* Every session refines RecordingSession.                                 *)
LEMMA SessionsStart == Init => \A r \in Sessions : Session(r)!Init
BY DEF Init, Session0, SessionPhase, Session!Init, Session!NotEnded

LEMMA SessionRefines ==
    IInv /\ [Next]_vars =>
        \A q \in Sessions : [Session(q)!Next]_(Session(q)!vars)
<1> SUFFICES ASSUME IInv, [Next]_vars, NEW q \in Sessions
             PROVE  [Session(q)!Next]_(Session(q)!vars)
  OBVIOUS
<1>1. Progress(rec[q]) /\ rec[q].blocks \in 0..MaxBlocks
  BY DEF IInv, SessionInv, Types, SessionType
<1>2. Moves(rec[q], rec'[q]) \/ Arms(rec[q], rec'[q])
  BY SessionMoves
<1>3. NaturalEnds \subseteq {"INTERRUPTED", "IDLE", "MAX"} /\ MaxBlocks \in Nat \ {0}
  BY ServiceAssumption
<1> USE DEF SessionPhase, Session!vars, Same
<1> DEFINE s == rec[q]
<1> DEFINE t == rec'[q]
<1>4. CASE t.at = s.at /\ Same(s, t)
  BY <1>4
<1>5. CASE Arms(s, t)
  BY <1>1, <1>5 DEF Arms, Progress, Session!Next, Session!Arm
<1>6. CASE s.at = "queued" /\ t.at = "top" /\ Same(s, t)
  BY <1>1, <1>6 DEF Progress
<1>7. CASE s.at = "queued" /\ t.at = "discarded" /\ Same(s, t)
  BY <1>1, <1>7 DEF Progress, Session!Next, Session!Drop
<1>8. CASE s.at = "top" /\ t.at = "opening" /\ s.blocks = 0 /\ Same(s, t)
  BY <1>8 DEF Session!Next, Session!Begin
<1>9. CASE s.at = "opening" /\ t.at = "writing" /\ Same(s, t)
  BY <1>9
<1>10. CASE /\ s.at = "top" /\ t.at = "writing"
            /\ s.blocks \in 1..(MaxBlocks - 1) /\ Same(s, t)
  BY <1>3, <1>10
<1>11. CASE /\ s.at = "writing" /\ t.at = "checking"
            /\ t.blocks = s.blocks + 1 /\ t.end = s.end
  <2>1. t.blocks > 0 /\ t.blocks \in s.blocks..t.blocks
    BY <1>1, <1>11
  <2>2. QED
    BY <1>11, <2>1 DEF Session!Next, Session!Record
<1>12. CASE s.at = "checking" /\ t.at = "top" /\ Same(s, t)
  BY <1>1, <1>12 DEF Progress
<1>13. CASE /\ s.at = "checking" /\ t.at = "ending"
            /\ t.blocks = s.blocks /\ t.end \in NaturalEnds
  BY <1>1, <1>13 DEF Progress
<1>14. CASE s.at = "top" /\ t.at = "ending" /\ t.blocks = s.blocks /\ t.end = "USER"
  BY <1>14
<1>15. CASE s.at = "ending" /\ t.at \in {"deciding", "done"} /\ Same(s, t)
  BY <1>1, <1>15 DEF Progress, Ended, Session!Next, Session!End, Session!EndStates
<1>16. CASE \/ s.at = "deciding" /\ t.at = "clearing" /\ Same(s, t)
            \/ s.at = "clearing" /\ t.at = "done" /\ Same(s, t)
  BY <1>16
<1>17. QED
  BY <1>2, <1>4, <1>5, <1>6, <1>7, <1>8, <1>9, <1>10, <1>11, <1>12, <1>13,
     <1>14, <1>15, <1>16 DEF Moves

(* Each session keeps the promise of RecordingSession to its listener,     *)
(* however many sessions and tasks there are and however impatient the     *)
(* client is.                                                              *)
THEOREM SessionsImplement == Spec => SessionsSpec
<1>1. Init => \A r \in Sessions : Session(r)!Init
  BY SessionsStart
<1>2. IInv /\ [Next]_vars =>
        [\A r \in Sessions : [Session(r)!Next]_(Session(r)!vars)]_vars
  BY SessionRefines
<1>3. QED
  BY <1>1, <1>2, InductiveInvariant, PTL DEF Spec, SessionsSpec

-----------------------------------------------------------------------------
(***************************************************************************)
(* The patient client: it waits until nothing is going on before it starts *)
(* another session (Patience is "quiet").  For any number of sessions: a   *)
(* stop stops, the microphone has one owner, and, when sessions end by the *)
(* user's stop alone, what is cancelled is never sent and what is sent is  *)
(* the audio of its session.  Without the patience TLC finds               *)
(* counterexamples to all of these but the one about the microphone.       *)
(***************************************************************************)
(* What a step does to the microphone of a session: it goes on, or it is   *)
(* stopped, or it is launched.                                             *)
Live == {"queued", "top", "opening", "writing", "checking"}

GoesOn(s, t) ==
    /\ t.mic = s.mic /\ t.stop = s.stop /\ t.stoppedWith = s.stoppedWith
    /\ s.at \in Live => t.at \in Live \/ s.stop

IsStopped(s, t) == ~t.mic /\ t.stop = (s.stop \/ s.mic)

(* Nobody but the client's stop stops a session that is going on.          *)
ByClient(q) ==
    /\ rec'[q].at \in {rec[q].at, "discarded"}
    /\ main.at = "stopLock" =>
          q = main.target /\ UNCHANGED fields /\ main'.at = "forget"
    /\ rec'[q].stoppedWith = IF main.at = "stopLock" /\ rec[q].mic THEN main.policy
                             ELSE rec[q].stoppedWith
    /\ main.at \in {"startLock", "stopLock"}

IsLaunched(s, t) == s.at = "none" /\ t.at \in Live /\ t.stop = s.stop

LEMMA MicMoves ==
    IInv /\ [Next]_vars =>
        \A q \in Sessions :
            \/ GoesOn(rec[q], rec'[q])
            \/ IsStopped(rec[q], rec'[q]) /\ (ByClient(q) \/ NaturalEnds # {})
            \/ IsLaunched(rec[q], rec'[q]) /\ main.at = "launch"
               /\ q = main.session /\ main' = Idle
<1> DEFINE Goal(q) ==
        \/ GoesOn(rec[q], rec'[q])
        \/ IsStopped(rec[q], rec'[q]) /\ (ByClient(q) \/ NaturalEnds # {})
        \/ IsLaunched(rec[q], rec'[q]) /\ main.at = "launch"
           /\ q = main.session /\ main' = Idle
<1> SUFFICES ASSUME IInv, [Next]_vars, NEW q \in Sessions PROVE Goal(q)
  OBVIOUS
<1>t. /\ rec \in [Sessions -> SessionType]
      /\ main.at \in {"startLock", "stopLock"} => main.target \in Sessions
      /\ main.at = "launch" => main.session \in Sessions /\ rec[main.session].at = "none"
  BY DEF IInv, Types, MainInv, Starting
<1>m. main \in MainType
  BY DEF IInv, Types
<1> USE <1>t DEF fields, files, history, besidesReader, GoesOn, IsStopped,
    IsLaunched, Live, SessionType
<1>1. ASSUME NEW r \in Sessions, NEW s \in Strategies, StartCall(r, s) PROVE
      Goal(q)
  BY <1>1 DEF StartCall
<1>2. CASE StartReads
  BY <1>2 DEF StartReads, Crash
<1>3. CASE StartStops
  <2>1. main.target \in Sessions /\ main.at = "startLock"
    BY <1>3 DEF StartStops
  <2>2. q # main.target => rec'[q] = rec[q]
    BY <1>3, <2>1 DEF StartStops
  <2>3. rec'[main.target] = Stopped(main.target)
    BY <1>3, <2>1 DEF StartStops
  <2>4. /\ IsStopped(rec[main.target], rec'[main.target])
           /\ rec'[main.target].at \in {rec[main.target].at, "discarded"}
           /\ rec'[main.target].stoppedWith = rec[main.target].stoppedWith
    BY <2>1, <2>3 DEF Stopped
  <2>5. QED
    BY <2>1, <2>2, <2>4 DEF ByClient
<1>4. CASE StartAssigns
  BY <1>4 DEF StartAssigns
<1>5. CASE StartLaunches
  BY <1>5 DEF StartLaunches, Crash, Idle
<1>6. ASSUME NEW p \in StopPolicies, StopCall(p) PROVE Goal(q)
  BY <1>6 DEF StopCall
<1>7. CASE StopSetsPolicy
  BY <1>7 DEF StopSetsPolicy
<1>8. CASE StopReads
  BY <1>8 DEF StopReads, Crash
<1>9. CASE StopStopsRecorder
  <2>1. main.target \in Sessions
    BY <1>9 DEF StopStopsRecorder
  <2>2. q # main.target => rec'[q] = rec[q]
    BY <1>9, <2>1 DEF StopStopsRecorder
  <2>3. rec'[main.target] = [Stopped(main.target) EXCEPT !.stoppedWith =
             IF rec[main.target].mic THEN main.policy
             ELSE Stopped(main.target).stoppedWith]
    BY <1>9, <2>1 DEF StopStopsRecorder
  <2>4. IsStopped(rec[main.target], rec'[main.target])
    BY <2>1, <2>3 DEF Stopped
  <2>5. /\ rec'[main.target].at \in {rec[main.target].at, "discarded"}
           /\ rec'[main.target].stoppedWith =
                 IF rec[main.target].mic THEN main.policy
                 ELSE rec[main.target].stoppedWith
    BY <2>1, <2>3 DEF Stopped
  <2>6. main'.at = "forget" /\ main.at = "stopLock" /\ UNCHANGED fields
    BY <1>9, <1>m DEF StopStopsRecorder, MainType
  <2>7. QED
    BY <2>2, <2>4, <2>5, <2>6 DEF ByClient
<1>10. CASE StopForgets
  BY <1>10 DEF StopForgets, Idle
<1>11. ASSUME NEW p \in {"SEND", "CANCELED"}, NEW r \in Sessions,
      UserChoice(p, r) PROVE Goal(q)
  BY <1>11 DEF UserChoice, AsksUser, Spawn, DeleteCacheFile
<1>12. ASSUME NEW r \in Sessions, Run(r) PROVE Goal(q)
  BY <1>12 DEF Run, Move
<1>13. ASSUME NEW r \in Sessions, HearFirstVoice(r) PROVE Goal(q)
  BY <1>13 DEF HearFirstVoice, Listening, Move, Crash
<1>14. ASSUME NEW r \in Sessions, OpenFile(r) PROVE Goal(q)
  BY <1>14 DEF OpenFile
<1>15. ASSUME NEW r \in Sessions, OpenFails(r) PROVE Goal(q)
  BY <1>15 DEF OpenFails, Move
<1>16. ASSUME NEW r \in Sessions, HearMore(r) PROVE Goal(q)
  BY <1>16 DEF HearMore, Listening, Move
<1>17. ASSUME NEW r \in Sessions, WriteBlock(r) PROVE Goal(q)
  BY <1>17 DEF WriteBlock, Crash
<1>18. ASSUME NEW r \in Sessions, WriteFails(r) PROVE Goal(q)
  BY <1>18 DEF WriteFails
<1>19. ASSUME NEW r \in Sessions, GoOn(r) PROVE Goal(q)
  BY <1>19 DEF GoOn, Move
<1>20. ASSUME NEW r \in Sessions, NEW s \in NaturalEnds, EndNaturally(r, s)
      PROVE Goal(q)
  <2>1. NaturalEnds # {}
    OBVIOUS
  <2>2. CASE q # r
    BY <1>20, <2>2 DEF EndNaturally
  <2>3. CASE q = r
    <3>1. rec'[q] = [Stopped(q) EXCEPT !.at = "ending", !.end = s]
      BY <1>20, <2>3 DEF EndNaturally
    <3>2. IsStopped(rec[q], rec'[q])
      BY <3>1 DEF Stopped
    <3>3. QED
      BY <2>1, <3>2
  <2>4. QED
    BY <2>2, <2>3
<1>21. ASSUME NEW r \in Sessions, SeeStop(r) PROVE Goal(q)
  BY <1>21 DEF SeeStop
<1>22. ASSUME NEW r \in Sessions, NotifyAndClose(r) PROVE Goal(q)
  BY <1>22 DEF NotifyAndClose
<1>23. ASSUME NEW r \in Sessions, NotifyAndFail(r) PROVE Goal(q)
  BY <1>23 DEF NotifyAndFail
<1>24. ASSUME NEW r \in Sessions, Decide(r) PROVE Goal(q)
  BY <1>24 DEF Decide, Move, Spawn, DeleteCacheFile
<1>25. ASSUME NEW r \in Sessions, ForgetRecorder(r) PROVE Goal(q)
  BY <1>25 DEF ForgetRecorder, Move
<1>26. ASSUME NEW t \in DOMAIN tasks, TakeFile(t) PROVE Goal(q)
  BY <1>26 DEF TakeFile
<1>27. ASSUME NEW t \in DOMAIN tasks, PostFile(t) PROVE Goal(q)
  BY <1>27 DEF PostFile
<1>28. ASSUME NEW t \in DOMAIN tasks, EndTask(t) PROVE Goal(q)
  BY <1>28 DEF EndTask
<1>29. CASE UNCHANGED vars
  BY <1>29 DEF vars, fields, files, history
<1>30. QED BY <1>1, <1>2, <1>3, <1>4, <1>5, <1>6, <1>7, <1>8, <1>9, <1>10,
     <1>11, <1>12, <1>13, <1>14, <1>15, <1>16, <1>17, <1>18, <1>19, <1>20,
     <1>21, <1>22, <1>23, <1>24, <1>25, <1>26, <1>27, <1>28, <1>29 DEF Next,
     Client, Service, Reader, Sender

(* The client waits for quiet: one session at a time, which is the one in  *)
(* the field as long as it has the microphone.                             *)
MicInv ==
    \A q \in Sessions :
        /\ rec[q].at = "none" => ~rec[q].mic /\ ~rec[q].stop
        /\ rec[q].mic => rec[q].at \in Live /\ ~rec[q].stop

Quiet ==
    /\ main.at \in Starting => ~stopReturned /\ \A q \in Sessions : rec[q].at \in Over
    /\ \A p, q \in Sessions : rec[p].at \notin Over /\ rec[q].at \notin Over => p = q
    /\ main.at = "launch" => voiceRecorder = main.session
    /\ \A q \in Sessions : rec[q].mic =>
          /\ voiceRecorder = q
          /\ main.at # "forget"
          /\ main.at = "stopLock" => main.target = q
          /\ ~(stopReturned /\ main.at = "idle")

QInv == IInv /\ MicInv /\ Quiet

LEMMA QInit == Init => QInv
<1> SUFFICES ASSUME Init PROVE QInv
  OBVIOUS
<1>1. IInv
  BY InitHolds
<1>2. \A q \in Sessions : rec[q].at = "none" /\ ~rec[q].mic /\ ~rec[q].stop
  BY DEF Init, Session0
<1>3. main.at = "idle"
  BY DEF Init, Idle
<1>4. QED
  BY <1>1, <1>2, <1>3 DEF QInv, MicInv, Quiet, Starting, Over

LEMMA MicInvStep == QInv /\ [Next]_vars => MicInv'
<1> SUFFICES ASSUME QInv, [Next]_vars, NEW q \in Sessions
             PROVE  /\ rec'[q].at = "none" => ~rec'[q].mic /\ ~rec'[q].stop
                    /\ rec'[q].mic => rec'[q].at \in Live /\ ~rec'[q].stop
  BY DEF MicInv
<1> DEFINE s == rec[q]
<1> DEFINE t == rec'[q]
<1>1. /\ s.at = "none" => ~s.mic /\ ~s.stop
      /\ s.mic => s.at \in Live /\ ~s.stop
  BY DEF QInv, MicInv
<1>2. GoesOn(s, t) \/ IsStopped(s, t) \/ IsLaunched(s, t)
  BY MicMoves DEF QInv
<1>3. t.at = "none" => s.at = "none"
  BY SessionMoves DEF QInv, Moves, Arms
<1>4. CASE GoesOn(s, t)
  BY <1>1, <1>3, <1>4 DEF GoesOn, Live
<1>5. CASE IsStopped(s, t)
  BY <1>1, <1>3, <1>5 DEF IsStopped, Live
<1>6. CASE IsLaunched(s, t)
  BY <1>1, <1>6 DEF IsLaunched, Live
<1>7. QED
  BY <1>2, <1>4, <1>5, <1>6

LEMMA QuietStep ==
    ASSUME Patience = "quiet", QInv, [Next]_vars
    PROVE  Quiet'
<1>t. /\ main \in MainType /\ Quiet /\ MicInv /\ MainInv
      /\ Nobody \notin Sessions
  BY ServiceAssumption DEF QInv, IInv, Types
<1>m. \A q \in Sessions : rec'[q].mic =>
        rec[q].mic \/ (main.at = "launch" /\ q = main.session /\ main' = Idle)
  BY MicMoves DEF QInv, GoesOn, IsStopped
<1>o. \A q \in Sessions : rec'[q].at \notin Over =>
        rec[q].at \notin Over \/ (main.at = "launch" /\ q = main.session /\ main' = Idle)
  BY SessionMoves DEF QInv, Moves, Arms, Over
<1>l. \A q \in Sessions : rec[q].mic => rec[q].at \notin Over
  BY <1>t DEF MicInv, Live, Over
<1>p. \A p, q \in Sessions : rec'[p].at \notin Over /\ rec'[q].at \notin Over => p = q
  BY <1>t, <1>o DEF Quiet, Starting
<1>u. UNCHANGED <<main, voiceRecorder, stopReturned>> => Quiet'
  BY <1>t, <1>m, <1>o, <1>p DEF Quiet, Starting, Idle
<1> USE <1>t, <1>m, <1>o, <1>l, <1>p DEF fields, files, history, besidesReader
<1>1. ASSUME NEW r \in Sessions, NEW s \in Strategies, StartCall(r, s) PROVE
      Quiet'
  <2>1. \A q \in Sessions : rec[q].at \in Over
    BY <1>1 DEF StartCall, ClientReady
  <2>2. main'.at \in {"assign", "restart"} /\ ~stopReturned' /\ main.at = "idle"
    BY <1>1 DEF StartCall, MainType
  <2>3. QED
    BY <2>1, <2>2 DEF Quiet, Starting
<1>2. CASE StartReads
  <2>1. CASE voiceRecorder = Nobody
    BY <1>2, <1>u, <2>1 DEF StartReads, Crash
  <2>2. CASE /\ main' = [main EXCEPT !.at = "startLock", !.target = voiceRecorder]
             /\ UNCHANGED <<fields, history>> /\ main.at = "restart"
    BY <2>2 DEF Quiet, Starting, MainType
  <2>3. QED
    BY <1>2, <2>1, <2>2 DEF StartReads
<1>3. CASE StartStops
  BY <1>3 DEF StartStops, Quiet, Starting, MainType
<1>4. CASE StartAssigns
  BY <1>4 DEF StartAssigns, Quiet, Starting, MainType
<1>5. CASE StartLaunches
  <2>1. CASE voiceRecorder = Nobody
    BY <1>5, <1>u, <2>1 DEF StartLaunches, Crash
  <2>2. CASE main' = Idle /\ UNCHANGED <<fields, history>> /\ main.at = "launch"
    BY <2>2 DEF Idle, Quiet, Starting, MainType
  <2>3. QED
    BY <1>5, <2>1, <2>2 DEF StartLaunches
<1>6. ASSUME NEW p \in StopPolicies, StopCall(p) PROVE Quiet'
  <2>1. CASE voiceRecorder = Nobody
    BY <1>6, <2>1 DEF StopCall, Quiet, Starting, MainType
  <2>2. CASE /\ main' = [main EXCEPT !.at = "setPolicy", !.policy = p]
             /\ UNCHANGED voiceRecorder /\ main.at = "idle"
    <3>1. main'.at = "setPolicy"
      BY <2>2 DEF MainType
    <3>2. QED
      BY <2>2, <3>1 DEF Quiet, Starting
  <2>3. QED
    BY <1>6, <2>1, <2>2 DEF StopCall
<1>7. CASE StopSetsPolicy
  BY <1>7 DEF StopSetsPolicy, Quiet, Starting, MainType
<1>8. CASE StopReads
  <2>1. CASE voiceRecorder = Nobody
    BY <1>8, <1>u, <2>1 DEF StopReads, Crash
  <2>2. CASE /\ main' = [main EXCEPT !.at = "stopLock", !.target = voiceRecorder]
             /\ UNCHANGED voiceRecorder /\ main.at = "stopRead"
    <3>1. main'.at = "stopLock" /\ main'.target = voiceRecorder
      BY <2>2 DEF MainType
    <3>2. QED
      BY <2>2, <3>1 DEF Quiet, Starting
  <2>3. QED
    BY <1>8, <2>1, <2>2 DEF StopReads
<1>9. CASE StopStopsRecorder
  <2>1. main.target \in Sessions
    BY <1>9 DEF StopStopsRecorder, MainInv
  <2>2. ~rec'[main.target].mic
    BY <1>9, <2>1 DEF QInv, IInv, Types, SessionType, StopStopsRecorder, Stopped
  <2>3. /\ main' = [main EXCEPT !.at = "forget"]
        /\ UNCHANGED <<fields, history>> /\ main.at = "stopLock"
    BY <1>9 DEF StopStopsRecorder
  <2>4. \A q \in Sessions : ~rec'[q].mic
    BY <2>1, <2>2, <2>3 DEF Quiet
  <2>5. QED
    BY <2>3, <2>4 DEF Quiet, Starting, MainType
<1>10. CASE StopForgets
  BY <1>10 DEF StopForgets, Idle, Quiet, Starting, MainType
<1>11. ASSUME NEW r \in Sessions, NotifyAndFail(r) PROVE Quiet'
  <2>1. rec[r].at \in {"ending", "clearing"} /\ UNCHANGED <<main, stopReturned>>
    BY <1>11 DEF NotifyAndFail
  <2>2. \A q \in Sessions : ~rec[q].mic
    BY <2>1 DEF Quiet, MicInv, Live, Over
  <2>3. voiceRecorder' = Nobody
    BY <1>11 DEF NotifyAndFail
  <2>4. main.at \notin Starting
    BY <2>1 DEF Quiet, Over
  <2>5. QED
    BY <2>1, <2>2, <2>3, <2>4 DEF Quiet, Starting
<1>12. ASSUME NEW r \in Sessions, ForgetRecorder(r) PROVE Quiet'
  <2>1. rec[r].at \in {"ending", "clearing"} /\ UNCHANGED <<main, stopReturned>>
    BY <1>12 DEF ForgetRecorder, Move
  <2>2. \A q \in Sessions : ~rec[q].mic
    BY <2>1 DEF Quiet, MicInv, Live, Over
  <2>3. voiceRecorder' = Nobody
    BY <1>12 DEF ForgetRecorder, Move
  <2>4. main.at \notin Starting
    BY <2>1 DEF Quiet, Over
  <2>5. QED
    BY <2>1, <2>2, <2>3, <2>4 DEF Quiet, Starting
<1>13. CASE UNCHANGED Mains
  BY <1>13, <1>u DEF Mains
<1>14. QED BY <1>1, <1>2, <1>3, <1>4, <1>5, <1>6, <1>7, <1>8, <1>9, <1>10,
     <1>11, <1>12, <1>13, MainParts DEF MainActions, Service

LEMMA QuietInvariant == Patience = "quiet" /\ Spec => []QInv
<1> SUFFICES ASSUME Patience = "quiet" PROVE Spec => []QInv
  OBVIOUS
<1>1. QInv /\ [Next]_vars => QInv'
  BY InvStep, MicInvStep, QuietStep DEF QInv
<1>2. QED
  BY QInit, <1>1, PTL DEF Spec

(* A client that waits for quiet before it starts a session finds every    *)
(* recorder stopped when stopRecordVoice returns                           *)
(* (VoiceRecorderService.java:276-286).                                    *)
THEOREM PatientStops == Patience = "quiet" /\ Spec => []StopStops
<1>1. QInv => StopStops
  BY DEF QInv, Quiet, StopStops
<1>2. QED
  BY QuietInvariant, <1>1, PTL

(* For such a client two recorders never hold the microphone               *)
(* (VoiceRecorderService.java:181-184).                                    *)
THEOREM PatientMicrophone == Patience = "quiet" /\ Spec => []OneMicrophone
<1>1. QInv => OneMicrophone
  BY DEF QInv, MicInv, Quiet, OneMicrophone
<1>2. QED
  BY QuietInvariant, <1>1, PTL

-----------------------------------------------------------------------------
(* Sessions that end by the user's stop alone, on a disk that may refuse   *)
(* to open and to write a file, but not to close one.                      *)
Patient == Patience = "quiet" /\ NaturalEnds = {} /\ "close" \notin DiskFaults

Stopping == {"setPolicy", "stopRead", "stopLock"}

(* The policy a session was stopped with is that of the service until the  *)
(* session is over.                                                        *)
PolicyKept(s) ==
    /\ s.stoppedWith = stopPolicy /\ stopPolicy \in {"CANCELED", "SEND"}
    /\ main.at \notin Stopping
    /\ main.at = "forget" \/ voiceRecorder = Nobody

StopInv ==
    /\ \A q \in Sessions : rec[q].end \in {"none", "USER"}
    /\ \A q \in Sessions : rec[q].at \notin Over => currentStrategy = q
    /\ main.at \in Starting => currentStrategy = main.session
    /\ \A q \in Sessions : rec[q].at \in {"ending", "deciding", "clearing"} => rec[q].stop
    /\ \A q \in Sessions : rec[q].at \notin Over /\ rec[q].stop => PolicyKept(rec[q])
    /\ main.at \in Stopping => main.policy \in {"CANCELED", "SEND"}
    /\ main.at \in {"stopRead", "stopLock"} => main.policy = stopPolicy

LEMMA StopInit == Init => StopInv
<1> SUFFICES ASSUME Init PROVE StopInv
  OBVIOUS
<1>1. \A q \in Sessions : rec[q].at = "none" /\ rec[q].end = "none" /\ ~rec[q].stop
  BY DEF Init, Session0
<1>2. main.at = "idle"
  BY DEF Init, Idle
<1>3. QED
  BY <1>1, <1>2 DEF StopInv, Starting, Stopping, Over

(* What any step does to the sessions.                                     *)
LEMMA PatientMoves ==
    ASSUME Patient, QInv, StopInv, [Next]_vars
    PROVE  /\ \A q \in Sessions : rec'[q].end \in {"none", "USER"}
           /\ \A q \in Sessions : rec'[q].at \notin Over =>
                 \/ rec[q].at \notin Over
                 \/ IsLaunched(rec[q], rec'[q]) /\ main.at = "launch"
                    /\ q = main.session /\ main' = Idle
           /\ \A q \in Sessions : rec'[q].at \in {"ending", "deciding", "clearing"} =>
                 rec'[q].stop
           /\ \A q \in Sessions : rec'[q].at \notin Over /\ rec'[q].stop =>
                 /\ rec[q].at \notin Over
                 /\ \/ rec[q].stop /\ rec'[q].stoppedWith = rec[q].stoppedWith
                    \/ /\ main.at = "stopLock" /\ main'.at = "forget"
                       /\ UNCHANGED fields /\ rec'[q].stoppedWith = main.policy
<1> SUFFICES ASSUME NEW q \in Sessions
             PROVE  /\ rec'[q].end \in {"none", "USER"}
                    /\ rec'[q].at \notin Over =>
                          \/ rec[q].at \notin Over
                          \/ IsLaunched(rec[q], rec'[q]) /\ main.at = "launch"
                             /\ q = main.session /\ main' = Idle
                    /\ rec'[q].at \in {"ending", "deciding", "clearing"} => rec'[q].stop
                    /\ rec'[q].at \notin Over /\ rec'[q].stop =>
                          /\ rec[q].at \notin Over
                          /\ \/ rec[q].stop /\ rec'[q].stoppedWith = rec[q].stoppedWith
                             \/ /\ main.at = "stopLock" /\ main'.at = "forget"
                                /\ UNCHANGED fields /\ rec'[q].stoppedWith = main.policy
  OBVIOUS
<1> DEFINE s == rec[q]
<1> DEFINE t == rec'[q]
<1> DEFINE launched == IsLaunched(s, t) /\ main.at = "launch" /\ q = main.session
                       /\ main' = Idle
<1>1. /\ s.end \in {"none", "USER"}
      /\ s.at \in {"ending", "deciding", "clearing"} => s.stop
      /\ s.at = "none" => ~s.mic /\ ~s.stop
      /\ s.mic => s.at \in Live /\ ~s.stop
      /\ s.at \notin Over /\ s.stop => main.at # "stopLock"
      /\ main.at = "startLock" => s.at \in Over
  BY DEF StopInv, QInv, MicInv, Quiet, PolicyKept, Stopping, Starting
<1>2. GoesOn(s, t) \/ (IsStopped(s, t) /\ ByClient(q)) \/ launched
  BY MicMoves DEF QInv, Patient
<1>3. Moves(s, t) \/ Arms(s, t)
  BY SessionMoves DEF QInv
<1>4. t.end \in {"none", "USER"}
  BY <1>1, <1>3 DEF Moves, Arms, Same, Patient
<1>5. t.at \notin Over => s.at \notin Over \/ launched
  <2>1. t.at \notin Over => s.at \notin Over \/ (s.at = "none" /\ t.at = "queued")
    <3>1. CASE Moves(s, t)
      BY <3>1 DEF Moves, Over
    <3>2. CASE Arms(s, t)
      BY <3>2 DEF Arms, Over
    <3>3. QED
      BY <1>3, <3>1, <3>2
  <2>2. s.at = "none" /\ t.at = "queued" => launched
    <3> SUFFICES ASSUME s.at = "none", t.at = "queued" PROVE launched
      OBVIOUS
    <3>1. ~Moves(s, t)
      BY DEF Moves
    <3>2. main.at = "launch" /\ q = main.session /\ main' = Idle
      BY <3>1, SessionMoves DEF QInv
    <3>3. t.stop = s.stop
      BY <1>2 DEF GoesOn, ByClient, IsLaunched
    <3>4. QED
      BY <3>2, <3>3 DEF IsLaunched, Live
  <2>3. QED
    BY <2>1, <2>2
<1>6. t.at \in {"ending", "deciding", "clearing"} => t.stop
  <2>1. t.at \in {"ending", "deciding", "clearing"} =>
            s.at \in {"ending", "deciding", "clearing", "top", "checking"}
    BY <1>3 DEF Moves, Arms
  <2>2. QED
    BY <1>1, <1>2, <2>1 DEF GoesOn, IsStopped, ByClient, IsLaunched, Live
<1>7. t.at \notin Over /\ t.stop =>
        /\ s.at \notin Over
        /\ \/ s.stop /\ t.stoppedWith = s.stoppedWith
           \/ /\ main.at = "stopLock" /\ main'.at = "forget"
              /\ UNCHANGED fields /\ t.stoppedWith = main.policy
  <2>1. CASE GoesOn(s, t)
    BY <1>1, <1>3, <2>1 DEF GoesOn, Moves, Arms, Over
  <2>2. CASE IsStopped(s, t) /\ ByClient(q)
    BY <1>1, <2>2 DEF IsStopped, ByClient, Over, Live
  <2>3. CASE launched
    BY <1>1, <2>3 DEF IsLaunched
  <2>4. QED
    BY <1>2, <2>1, <2>2, <2>3
<1>8. QED
  BY <1>4, <1>5, <1>6, <1>7

LEMMA StopStep ==
    ASSUME Patient, QInv, StopInv, [Next]_vars
    PROVE  StopInv'
<1>t. /\ main \in MainType /\ Quiet /\ MicInv /\ MainInv /\ StopInv
      /\ voiceRecorder \in Sessions \cup {Nobody}
      /\ Nobody \notin Sessions
      /\ StopPolicies \subseteq {"CANCELED", "SEND"}
  BY ServiceAssumption DEF QInv, IInv, Types
<1> DEFINE Lasting == /\ \A q \in Sessions : rec[q].at \notin Over => currentStrategy = q
                      /\ main.at \in Starting => currentStrategy = main.session
<1> DEFINE Obeyed == \A q \in Sessions :
                       rec[q].at \notin Over /\ rec[q].stop => PolicyKept(rec[q])
<1> DEFINE Given == /\ main.at \in Stopping => main.policy \in {"CANCELED", "SEND"}
                    /\ main.at \in {"stopRead", "stopLock"} => main.policy = stopPolicy
<1>m. /\ \A q \in Sessions : rec'[q].at \notin Over =>
            \/ rec[q].at \notin Over
            \/ main.at = "launch" /\ q = main.session /\ main' = Idle
      /\ \A q \in Sessions : rec'[q].at \notin Over /\ rec'[q].stop =>
            /\ rec[q].at \notin Over
            /\ \/ rec[q].stop /\ rec'[q].stoppedWith = rec[q].stoppedWith
               \/ /\ main.at = "stopLock" /\ main'.at = "forget"
                  /\ UNCHANGED fields /\ rec'[q].stoppedWith = main.policy
  BY PatientMoves
<1>g. Lasting' /\ Obeyed' /\ Given' => StopInv'
  BY PatientMoves DEF StopInv
<1>l. Lasting /\ Obeyed /\ Given
  BY DEF StopInv
(* An action that leaves the client's thread alone, or ends its call.      *)
<1>u. ASSUME UNCHANGED <<main, currentStrategy, stopPolicy>>,
             voiceRecorder' \in {voiceRecorder, Nobody}
      PROVE  StopInv'
  <2>1. Lasting'
    BY <1>m, <1>l, <1>u DEF Idle, Starting
  <2>2. Obeyed'
    BY <1>m, <1>l, <1>u DEF PolicyKept
  <2>3. Given'
    BY <1>l, <1>u DEF Stopping
  <2>4. QED
    BY <1>g, <2>1, <2>2, <2>3
(* An action of a call of startRecordVoice before the launch.              *)
<1>v. ASSUME main.at \in Starting, main'.at \in Starting, UNCHANGED currentStrategy,
             main'.session = main.session
      PROVE  StopInv'
  <2>1. \A q \in Sessions : rec'[q].at \in Over
    BY <1>t, <1>m, <1>v DEF Quiet, Idle, Starting
  <2>2. QED
    BY <1>g, <1>l, <1>v, <2>1 DEF Stopping, Starting
<1> USE DEF fields, files, history, besidesReader
<1>1. ASSUME NEW r \in Sessions, NEW s \in Strategies, StartCall(r, s) PROVE
      StopInv'
  <2>1. \A q \in Sessions : rec[q].at \in Over
    BY <1>1 DEF StartCall, ClientReady, Patient
  <2>2. main.at = "idle" /\ main'.at \in {"assign", "restart"}
           /\ main'.session = r /\ currentStrategy' = r
    BY <1>1, <1>t DEF StartCall, MainType
  <2>3. \A q \in Sessions : rec'[q].at \in Over
    BY <1>m, <2>1, <2>2
  <2>4. QED
    BY <1>g, <2>2, <2>3 DEF Stopping, Starting
<1>2. CASE StartReads
  <2>1. CASE voiceRecorder = Nobody
    BY <1>2, <1>u, <2>1 DEF StartReads, Crash
  <2>2. CASE voiceRecorder # Nobody
    <3>1. main.at = "restart" /\ main'.at = "startLock" /\ main'.session = main.session
      BY <1>2, <1>t, <2>2 DEF StartReads, MainType
    <3>2. QED
      BY <1>2, <1>v, <2>2, <3>1 DEF StartReads, Starting
  <2>3. QED
    BY <2>1, <2>2
<1>3. CASE StartStops
  <2>1. main.at = "startLock" /\ main'.at = "assign" /\ main'.session = main.session
    BY <1>3, <1>t DEF StartStops, MainType
  <2>2. QED
    BY <1>3, <1>v, <2>1 DEF StartStops, Starting
<1>4. CASE StartAssigns
  <2>1. main.at = "assign" /\ main'.at = "launch" /\ main'.session = main.session
    BY <1>4, <1>t DEF StartAssigns, MainType
  <2>2. QED
    BY <1>4, <1>v, <2>1 DEF StartAssigns, Starting
<1>5. CASE StartLaunches
  <2>1. CASE voiceRecorder = Nobody
    BY <1>5, <1>u, <2>1 DEF StartLaunches, Crash
  <2>2. CASE main.at = "launch" /\ main' = Idle /\ UNCHANGED fields
    <3>1. main'.at = "idle" /\ \A q \in Sessions : rec[q].at \in Over
      BY <1>t, <2>2 DEF Idle, Quiet, Starting
    <3>2. Lasting'
      BY <1>l, <1>m, <2>2, <3>1 DEF Starting
    <3>3. QED
      BY <1>g, <1>m, <3>1, <3>2 DEF Stopping
  <2>3. QED
    BY <1>5, <2>1, <2>2 DEF StartLaunches
<1>6. ASSUME NEW p \in StopPolicies, StopCall(p) PROVE StopInv'
  <2>1. CASE voiceRecorder = Nobody
    BY <1>6, <1>u, <2>1 DEF StopCall
  <2>2. CASE voiceRecorder # Nobody
    <3>1. /\ main.at = "idle" /\ main'.at = "setPolicy" /\ main'.policy = p
          /\ UNCHANGED fields
      BY <1>6, <1>t, <2>2 DEF StopCall, MainType
    <3>2. \A q \in Sessions : ~(rec'[q].at \notin Over /\ rec'[q].stop)
      BY <1>l, <1>m, <2>2, <3>1 DEF PolicyKept
    <3>3. Lasting'
      BY <1>l, <1>m, <3>1 DEF Starting
    <3>4. QED
      BY <1>g, <1>t, <3>1, <3>2, <3>3 DEF Stopping
  <2>3. QED
    BY <2>1, <2>2
<1>7. CASE StopSetsPolicy
  <2>1. /\ main.at = "setPolicy" /\ main'.at = "stopRead" /\ main'.policy = main.policy
           /\ stopPolicy' = main.policy /\ UNCHANGED currentStrategy
    BY <1>7, <1>t DEF StopSetsPolicy, MainType
  <2>2. \A q \in Sessions : ~(rec'[q].at \notin Over /\ rec'[q].stop)
    BY <1>l, <1>m, <2>1 DEF PolicyKept, Stopping
  <2>3. Lasting'
    BY <1>l, <1>m, <2>1 DEF Starting
  <2>4. QED
    BY <1>g, <1>l, <2>1, <2>2, <2>3 DEF Stopping
<1>8. CASE StopReads
  <2>1. CASE voiceRecorder = Nobody
    BY <1>8, <1>u, <2>1 DEF StopReads, Crash
  <2>2. CASE voiceRecorder # Nobody
    <3>1. /\ main.at = "stopRead" /\ main'.at = "stopLock" /\ main'.policy = main.policy
          /\ UNCHANGED fields
      BY <1>8, <1>t, <2>2 DEF StopReads, MainType
    <3>2. \A q \in Sessions : ~(rec'[q].at \notin Over /\ rec'[q].stop)
      BY <1>l, <1>m, <3>1 DEF PolicyKept, Stopping
    <3>3. Lasting'
      BY <1>l, <1>m, <3>1 DEF Starting
    <3>4. QED
      BY <1>g, <1>l, <3>1, <3>2, <3>3 DEF Stopping
  <2>3. QED
    BY <2>1, <2>2
<1>9. CASE StopStopsRecorder
  <2>1. /\ main.at = "stopLock" /\ main'.at = "forget" /\ UNCHANGED fields
    BY <1>9, <1>t DEF StopStopsRecorder, MainType
  <2>2. Lasting'
    BY <1>l, <1>m, <2>1 DEF Starting
  <2>3. Obeyed'
    BY <1>l, <1>m, <2>1 DEF PolicyKept, Stopping
  <2>4. QED
    BY <1>g, <2>1, <2>2, <2>3 DEF Stopping
<1>10. CASE StopForgets
  <2>1. /\ main.at = "forget" /\ main'.at = "idle" /\ voiceRecorder' = Nobody
           /\ UNCHANGED <<currentStrategy, stopPolicy>>
    BY <1>10 DEF StopForgets, Idle
  <2>2. Lasting'
    BY <1>l, <1>m, <2>1 DEF Starting
  <2>3. Obeyed'
    BY <1>l, <1>m, <2>1 DEF PolicyKept, Stopping
  <2>4. QED
    BY <1>g, <2>1, <2>2, <2>3 DEF Stopping
<1>11. ASSUME NEW r \in Sessions, NotifyAndFail(r) PROVE StopInv'
  BY <1>11, <1>u DEF NotifyAndFail
<1>12. ASSUME NEW r \in Sessions, ForgetRecorder(r) PROVE StopInv'
  BY <1>12, <1>u DEF ForgetRecorder
<1>13. CASE UNCHANGED Mains
  BY <1>13, <1>u DEF Mains
<1>14. QED BY <1>1, <1>2, <1>3, <1>4, <1>5, <1>6, <1>7, <1>8, <1>9, <1>10,
     <1>11, <1>12, <1>13, MainParts DEF MainActions, Service

-----------------------------------------------------------------------------
(* What becomes of the audio.  A session is busy as long as it is not over *)
(* or one of its tasks is not done.                                        *)
Pending(q) == \E t \in DOMAIN tasks : tasks[t].by = q /\ tasks[t].at # "done"
Busy(q) == rec[q].at \notin Over \/ Pending(q)
Holding == {"top", "writing", "checking", "ending", "deciding"}

(* The user wanted the audio of the session to be sent.                    *)
Sent(s) == s.at \in {"clearing", "done"} /\ s.end = "USER" /\ s.stoppedWith = "SEND"

Writes(s) == s.at \in {"writing", "checking"} \/ (s.at = "top" /\ s.blocks > 0)

(* The listener has the file of its session, or none to write to.          *)
HasFile(q) ==
    \/ rec[q].outfile = q
    \/ rec[q].outfile = Nobody /\ rec[q].at = "writing"

(* The cache file is that of a session that goes on or has a task to send. *)
Owned(e) ==
    /\ e = Extension[cache[e]]
    /\ rec[cache[e]].at \in Holding \/ Pending(cache[e])

(* At most one session is busy, and none when the client starts another;   *)
(* the files in the cache and the tasks belong to sessions whose audio is  *)
(* not yet dealt with.                                                     *)
BusyInv ==
    /\ \A p, q \in Sessions : Busy(p) /\ Busy(q) => p = q
    /\ main.at \in Starting => \A q \in Sessions : ~Busy(q)
    /\ \A t \in DOMAIN tasks : Sent(rec[tasks[t].by])
    /\ \A t, o \in DOMAIN tasks : tasks[t].at # "done" /\ tasks[o].at # "done" => t = o
    /\ \A e \in Extensions : cache[e] # Nobody => Owned(e)

(* The file of a session, a task and an upload hold the audio of theirs.   *)
AudioInv ==
    /\ \A q \in Sessions : content[q] = Written(q) /\ rec[q].missed \subseteq 1..rec[q].blocks
    /\ \A q \in Sessions : Writes(rec[q]) => HasFile(q)
    /\ \A q \in Sessions : Before(rec[q]) => rec[q].outfile = Nobody
    /\ \A t \in DOMAIN tasks :
          tasks[t].at \in {"sending", "answered"} => sendFiles[tasks[t].file] = tasks[t].by
    /\ \A u \in uploads :
          /\ u.by \in Sessions /\ Sent(rec[u.by]) /\ rec[u.by].blocks > 0
          /\ u.audio = Written(u.by)

PInv == QInv /\ StopInv /\ BusyInv /\ AudioInv

(* A session whose files and blocks nobody touches.                        *)
Kept(s, t) ==
    /\ t.blocks = s.blocks /\ t.missed = s.missed
    /\ t.outfile = s.outfile \/ (t.outfile = Nobody /\ t.at \in {"deciding", "done"})
    /\ s.at = "opening" => t.at # "writing"
    /\ s.at = "deciding" => t.at # "clearing"
    /\ s.at = "ending" /\ t.at = "done" => "close" \in DiskFaults

Touches(q) ==
    OpenFile(q) \/ OpenFails(q) \/ WriteBlock(q) \/ WriteFails(q) \/ Decide(q)

LEMMA FileMoves ==
    IInv /\ [Next]_vars =>
        \A q \in Sessions :
            Touches(q) \/ Kept(rec[q], rec'[q])
<1> DEFINE Goal(q) == Touches(q) \/ Kept(rec[q], rec'[q])
<1> SUFFICES ASSUME IInv, [Next]_vars, NEW q \in Sessions PROVE Goal(q)
  OBVIOUS
<1>t. /\ rec \in [Sessions -> SessionType]
      /\ main.at \in {"startLock", "stopLock"} => main.target \in Sessions
      /\ main.at = "launch" => main.session \in Sessions
  BY DEF IInv, Types, MainInv, Starting
<1> USE <1>t DEF fields, files, history, besidesReader, Kept, SessionType
<1>1. ASSUME NEW r \in Sessions, NEW s \in Strategies, StartCall(r, s) PROVE
      Goal(q)
  BY <1>1 DEF StartCall
<1>2. CASE StartReads
  BY <1>2 DEF StartReads, Crash
<1>3. CASE StartStops
  BY <1>3 DEF StartStops, Stopped, LockFree
<1>4. CASE StartAssigns
  BY <1>4 DEF StartAssigns
<1>5. CASE StartLaunches
  BY <1>5 DEF StartLaunches, Crash, Idle
<1>6. ASSUME NEW p \in StopPolicies, StopCall(p) PROVE Goal(q)
  BY <1>6 DEF StopCall
<1>7. CASE StopSetsPolicy
  BY <1>7 DEF StopSetsPolicy
<1>8. CASE StopReads
  BY <1>8 DEF StopReads, Crash
<1>9. CASE StopStopsRecorder
  BY <1>9 DEF StopStopsRecorder, Stopped, LockFree
<1>10. CASE StopForgets
  BY <1>10 DEF StopForgets, Idle
<1>11. ASSUME NEW p \in {"SEND", "CANCELED"}, NEW r \in Sessions,
      UserChoice(p, r) PROVE Goal(q)
  BY <1>11 DEF UserChoice, AsksUser, Spawn, DeleteCacheFile
<1>12. ASSUME NEW r \in Sessions, Run(r) PROVE Goal(q)
  BY <1>12 DEF Run, Move
<1>13. ASSUME NEW r \in Sessions, HearFirstVoice(r) PROVE Goal(q)
  BY <1>13 DEF HearFirstVoice, Listening, Move, Crash
<1>14. ASSUME NEW r \in Sessions, OpenFile(r) PROVE Goal(q)
  <2>1. CASE q = r
    BY <1>14, <2>1 DEF Touches
  <2>2. CASE q # r
    <3>1. rec'[q] = rec[q]
      BY <1>14, <2>2 DEF OpenFile
    <3>2. QED
      BY <3>1
  <2>3. QED
    BY <2>1, <2>2
<1>15. ASSUME NEW r \in Sessions, OpenFails(r) PROVE Goal(q)
  <2>1. CASE q = r
    BY <1>15, <2>1 DEF Touches
  <2>2. CASE q # r
    <3>1. rec'[q] = rec[q]
      BY <1>15, <2>2 DEF OpenFails, Move
    <3>2. QED
      BY <3>1
  <2>3. QED
    BY <2>1, <2>2
<1>16. ASSUME NEW r \in Sessions, HearMore(r) PROVE Goal(q)
  BY <1>16 DEF HearMore, Listening, Move
<1>17. ASSUME NEW r \in Sessions, WriteBlock(r) PROVE Goal(q)
  <2>1. CASE q = r
    BY <1>17, <2>1 DEF Touches
  <2>2. CASE q # r
    <3>1. rec'[q] = rec[q]
      BY <1>17, <2>2 DEF WriteBlock, Crash
    <3>2. QED
      BY <3>1
  <2>3. QED
    BY <2>1, <2>2
<1>18. ASSUME NEW r \in Sessions, WriteFails(r) PROVE Goal(q)
  <2>1. CASE q = r
    BY <1>18, <2>1 DEF Touches
  <2>2. CASE q # r
    <3>1. rec'[q] = rec[q]
      BY <1>18, <2>2 DEF WriteFails
    <3>2. QED
      BY <3>1
  <2>3. QED
    BY <2>1, <2>2
<1>19. ASSUME NEW r \in Sessions, GoOn(r) PROVE Goal(q)
  BY <1>19 DEF GoOn, Move
<1>20. ASSUME NEW r \in Sessions, NEW s \in NaturalEnds, EndNaturally(r, s)
      PROVE Goal(q)
  BY <1>20 DEF EndNaturally, Stopped
<1>21. ASSUME NEW r \in Sessions, SeeStop(r) PROVE Goal(q)
  BY <1>21 DEF SeeStop
<1>22. ASSUME NEW r \in Sessions, NotifyAndClose(r) PROVE Goal(q)
  BY <1>22 DEF NotifyAndClose
<1>23. ASSUME NEW r \in Sessions, NotifyAndFail(r) PROVE Goal(q)
  BY <1>23 DEF NotifyAndFail
<1>24. ASSUME NEW r \in Sessions, Decide(r) PROVE Goal(q)
  <2>1. CASE q = r
    BY <1>24, <2>1 DEF Touches
  <2>2. CASE q # r
    <3>1. rec'[q] = rec[q]
      BY <1>24, <2>2 DEF Decide, Move
    <3>2. QED
      BY <3>1
  <2>3. QED
    BY <2>1, <2>2
<1>25. ASSUME NEW r \in Sessions, ForgetRecorder(r) PROVE Goal(q)
  BY <1>25 DEF ForgetRecorder, Move
<1>26. ASSUME NEW t \in DOMAIN tasks, TakeFile(t) PROVE Goal(q)
  BY <1>26 DEF TakeFile
<1>27. ASSUME NEW t \in DOMAIN tasks, PostFile(t) PROVE Goal(q)
  BY <1>27 DEF PostFile
<1>28. ASSUME NEW t \in DOMAIN tasks, EndTask(t) PROVE Goal(q)
  BY <1>28 DEF EndTask
<1>29. CASE UNCHANGED vars
  BY <1>29 DEF vars, fields, files, history
<1>30. QED BY <1>1, <1>2, <1>3, <1>4, <1>5, <1>6, <1>7, <1>8, <1>9, <1>10,
     <1>11, <1>12, <1>13, <1>14, <1>15, <1>16, <1>17, <1>18, <1>19, <1>20,
     <1>21, <1>22, <1>23, <1>24, <1>25, <1>26, <1>27, <1>28, <1>29 DEF Next,
     Client, Service, Reader, Sender

LEMMA PatientInit == Init => PInv
<1> SUFFICES ASSUME Init PROVE PInv
  OBVIOUS
<1>1. tasks = <<>> /\ DOMAIN tasks = {} /\ uploads = {} /\ main.at = "idle"
  BY DEF Init, Idle
<1>2. \A q \in Sessions : /\ rec[q].at = "none" /\ rec[q].blocks = 0 /\ rec[q].missed = {}
                          /\ rec[q].outfile = Nobody /\ content[q] = {}
  BY DEF Init, Session0
<1>3. \A e \in Extensions : cache[e] = Nobody
  BY DEF Init
<1>4. BusyInv
  BY <1>1, <1>2, <1>3 DEF BusyInv, Busy, Pending, Over, Starting
<1>5. \A q \in Sessions : content[q] = Written(q)
  BY <1>2 DEF Written
<1>6. AudioInv
  BY <1>1, <1>2, <1>5 DEF AudioInv, Writes
<1>7. QED
  BY <1>4, <1>6, QInit, StopInit DEF PInv

(* The facts about the state before a step that the cases below go by.     *)
LEMMA PatientFacts ==
    ASSUME Patient, PInv
    PROVE  /\ rec \in [Sessions -> SessionType] /\ TasksType /\ CacheType /\ ContentType
           /\ Nobody \notin Sessions
           /\ \A q \in Sessions : Extension[q] \in Extensions
           /\ \A q \in Sessions : Progress(rec[q]) /\ rec[q].blocks \in 0..MaxBlocks
           /\ IInv
           /\ \A t \in DOMAIN tasks : tasks[t] \in TaskType /\ tasks[t].by \in Sessions
           /\ \A e \in Extensions : cache[e] # Nobody =>
                 cache[e] \in Sessions /\ Busy(cache[e])
           /\ \A p \in {"SEND", "CANCELED"}, q \in Sessions : ~UserChoice(p, q)
<1>1. /\ rec \in [Sessions -> SessionType] /\ TasksType /\ CacheType /\ ContentType
      /\ Nobody \notin Sessions
  BY ServiceAssumption DEF PInv, QInv, IInv, Types, TasksType, CacheType, ContentType
<1>2. \A q \in Sessions : Extension[q] \in Extensions
  BY DEF Extensions
<1>3. \A q \in Sessions : Progress(rec[q]) /\ rec[q].blocks \in 0..MaxBlocks
  BY <1>1 DEF PInv, QInv, IInv, SessionInv, SessionType
<1>4. \A t \in DOMAIN tasks : tasks[t] \in TaskType /\ tasks[t].by \in Sessions
  <2>1. \A t \in DOMAIN tasks : tasks[t] \in TaskType
    BY <1>1 DEF TasksType
  <2>2. QED
    BY <2>1 DEF TaskType
<1>5. ASSUME NEW e \in Extensions, cache[e] # Nobody
      PROVE  cache[e] \in Sessions /\ Busy(cache[e])
  <2>1. cache[e] \in Sessions
    BY <1>1, <1>5 DEF CacheType
  <2>2. rec[cache[e]].at \in Holding \/ Pending(cache[e])
    BY <1>5 DEF PInv, BusyInv, Owned
  <2>3. QED
    BY <2>1, <2>2 DEF Busy, Holding, Over
<1>6. ASSUME NEW p \in {"SEND", "CANCELED"}, NEW q \in Sessions PROVE ~UserChoice(p, q)
  <2>1. rec[q].end \in {"none", "USER"}
    BY DEF PInv, StopInv
  <2>2. QED
    BY <2>1 DEF UserChoice, AsksUser
<1>7. QED
  BY <1>1, <1>2, <1>3, <1>4, <1>5, <1>6 DEF PInv, QInv

(* The ways a step may touch the files.                                    *)
FilesAlone == UNCHANGED <<cache, sendFiles, content, tasks, uploads>>

LEMMA FileCases ==
    ASSUME Patient, PInv, [Next]_vars
    PROVE  \/ \E r \in Sessions : Touches(r)
           \/ \E t \in DOMAIN tasks : TakeFile(t) \/ PostFile(t) \/ EndTask(t)
           \/ FilesAlone /\ \A q \in Sessions : Kept(rec[q], rec'[q])
<1>1. \A p \in {"SEND", "CANCELED"}, q \in Sessions : ~UserChoice(p, q)
  BY PatientFacts
<1>2. \A q \in Sessions : Touches(q) \/ Kept(rec[q], rec'[q])
  BY FileMoves DEF PInv, QInv
<1>3. QED
  BY <1>1, <1>2, FileParts DEF FileActions, Sender, Touches, FilesAlone, files

(* An open or a write that fails, and a write without a file.              *)
LEMMA Fails ==
    ASSUME Patient, PInv, NEW r \in Sessions,
           OpenFails(r) \/ WriteFails(r) \/ (WriteBlock(r) /\ rec[r].outfile = Nobody)
    PROVE  /\ FilesAlone /\ \A q \in Sessions \ {r} : rec'[q] = rec[q]
           /\ rec[r].at \in {"opening", "writing"} /\ rec'[r].outfile = rec[r].outfile
           /\ rec'[r].at \in {"writing", "checking"}
           /\ \/ /\ rec'[r].blocks = rec[r].blocks /\ rec'[r].missed = rec[r].missed
                 /\ rec'[r].at = "writing"
                 /\ rec[r].at = "opening" \/ rec'[r] = rec[r]
              \/ /\ rec[r].at = "writing" /\ rec[r].outfile # Nobody
                 /\ rec'[r].blocks = rec[r].blocks + 1
                 /\ rec'[r].missed = rec[r].missed \cup {rec[r].blocks + 1}
<1>t. rec \in [Sessions -> SessionType] /\ rec[r] \in SessionType
  BY PatientFacts
<1> USE DEF besidesReader, files, history, FilesAlone
<1>1. CASE OpenFails(r)
  <2>1. rec' = [rec EXCEPT ![r] = [rec[r] EXCEPT !.at = "writing"]]
        /\ rec[r].at = "opening" /\ FilesAlone
    BY <1>1 DEF OpenFails, Move
  <2>2. rec'[r] = [rec[r] EXCEPT !.at = "writing"]
    BY <1>t, <2>1
  <2>3. /\ rec'[r].at = "writing" /\ rec'[r].outfile = rec[r].outfile
        /\ rec'[r].blocks = rec[r].blocks /\ rec'[r].missed = rec[r].missed
    BY <1>t, <2>2 DEF SessionType
  <2>4. QED
    BY <1>t, <2>1, <2>3
<1>2. CASE WriteFails(r)
  <2>1. /\ rec' = [rec EXCEPT ![r] = [rec[r] EXCEPT !.at = "checking",
                      !.blocks = rec[r].blocks + 1,
                      !.missed = rec[r].missed \cup {rec[r].blocks + 1}]]
        /\ rec[r].at = "writing" /\ rec[r].outfile # Nobody /\ FilesAlone
    BY <1>2 DEF WriteFails
  <2>2. rec'[r] = [rec[r] EXCEPT !.at = "checking", !.blocks = rec[r].blocks + 1,
                                 !.missed = rec[r].missed \cup {rec[r].blocks + 1}]
    BY <1>t, <2>1
  <2>3. /\ rec'[r].at = "checking" /\ rec'[r].outfile = rec[r].outfile
        /\ rec'[r].blocks = rec[r].blocks + 1
        /\ rec'[r].missed = rec[r].missed \cup {rec[r].blocks + 1}
    BY <1>t, <2>2 DEF SessionType
  <2>4. QED
    BY <1>t, <2>1, <2>3
<1>3. CASE WriteBlock(r) /\ rec[r].outfile = Nobody
  BY <1>3 DEF WriteBlock, Crash
<1>4. QED
  BY <1>1, <1>2, <1>3

(* A block that comes to the file of its session.                          *)
LEMMA Writing ==
    ASSUME Patient, PInv, NEW r \in Sessions, WriteBlock(r), rec[r].outfile # Nobody
    PROVE  /\ UNCHANGED <<cache, sendFiles, tasks, uploads>>
           /\ \A q \in Sessions \ {r} : rec'[q] = rec[q]
           /\ rec[r].at = "writing" /\ rec'[r].at = "checking"
           /\ rec[r].outfile = r /\ rec'[r].outfile = r
           /\ rec'[r].blocks = rec[r].blocks + 1 /\ rec'[r].missed = rec[r].missed
           /\ content' = [content EXCEPT ![r] = content[r] \cup {<<r, rec[r].blocks + 1>>}]
<1>t. rec \in [Sessions -> SessionType] /\ rec[r] \in SessionType
  BY PatientFacts
<1>1. rec[r].at = "writing" /\ rec[r].outfile = r
  BY DEF WriteBlock, PInv, AudioInv, Writes, HasFile
<1>2. /\ rec' = [rec EXCEPT ![r] = [rec[r] EXCEPT !.at = "checking",
                                              !.blocks = rec[r].blocks + 1]]
      /\ content' = [content EXCEPT ![r] = content[r] \cup {<<r, rec[r].blocks + 1>>}]
      /\ UNCHANGED <<cache, sendFiles, tasks, uploads>>
  BY <1>1 DEF WriteBlock, history
<1>3. rec'[r] = [rec[r] EXCEPT !.at = "checking", !.blocks = rec[r].blocks + 1]
  BY <1>t, <1>2
<1>4. /\ rec'[r].at = "checking" /\ rec'[r].outfile = rec[r].outfile
      /\ rec'[r].blocks = rec[r].blocks + 1 /\ rec'[r].missed = rec[r].missed
  BY <1>t, <1>3 DEF SessionType
<1>5. QED
  BY <1>t, <1>1, <1>2, <1>4

(* What a decision comes to: the file is deleted, or a task is made that   *)
(* will send it.                                                           *)
LEMMA Decisions ==
    ASSUME Patient, PInv, NEW r \in Sessions, Decide(r)
    PROVE  /\ rec' = [rec EXCEPT ![r].at = "clearing"]
           /\ UNCHANGED <<main, fields, sendFiles, content, uploads>>
           /\ rec[r].at = "deciding"
           /\ \/ DeleteCacheFile(r) /\ UNCHANGED tasks
              \/ Spawn(r) /\ UNCHANGED cache /\ Sent(rec'[r])
<1>1. /\ rec[r].at = "deciding" /\ rec' = [rec EXCEPT ![r].at = "clearing"]
      /\ UNCHANGED <<main, fields, uploads>>
  BY DEF Decide, Move, history
<1>2. rec[r].end = "USER" /\ rec[r].stop
  BY <1>1 DEF PInv, StopInv, QInv, IInv, SessionInv, Progress, Ended
<1>3. rec[r].stoppedWith = stopPolicy /\ stopPolicy \in {"CANCELED", "SEND"}
  BY <1>1, <1>2 DEF PInv, StopInv, PolicyKept, Over
<1>4. EndPolicy(r) = stopPolicy
  BY <1>2 DEF EndPolicy
<1>5. CASE stopPolicy = "CANCELED"
  BY <1>1, <1>2, <1>4, <1>5 DEF Decide, files, DeleteCacheFile
<1>6. CASE stopPolicy = "SEND"
  <2>1. rec'[r].at = "clearing" /\ rec'[r].end = rec[r].end
        /\ rec'[r].stoppedWith = rec[r].stoppedWith
    BY <1>1, PatientFacts DEF SessionType
  <2>2. Sent(rec'[r])
    BY <1>2, <1>3, <1>6, <2>1 DEF Sent
  <2>3. Spawn(r) /\ UNCHANGED files
    BY <1>2, <1>4, <1>6 DEF Decide
  <2>4. QED
    BY <1>1, <2>2, <2>3 DEF files
<1>7. QED
  BY <1>3, <1>5, <1>6

LEMMA TaskMoves ==
    ASSUME Patient, PInv, [Next]_vars, NEW t \in DOMAIN tasks'
    PROVE  \/ /\ t \in DOMAIN tasks /\ tasks'[t].by = tasks[t].by
              /\ tasks'[t].at # "done" => tasks[t].at # "done"
           \/ \E r \in Sessions : Decide(r) /\ tasks'[t].by = r
                                  /\ tasks'[t].at = "queued" /\ Sent(rec'[r])
<1>t. TasksType /\ \A o \in DOMAIN tasks : tasks[o] \in TaskType
  BY PatientFacts
<1>1. CASE UNCHANGED tasks
  BY <1>1
<1>2. ASSUME NEW r \in Sessions, Decide(r), tasks' # tasks
      PROVE  \/ /\ t \in DOMAIN tasks /\ tasks'[t].by = tasks[t].by
                /\ tasks'[t].at # "done" => tasks[t].at # "done"
             \/ Decide(r) /\ tasks'[t].by = r
                /\ tasks'[t].at = "queued" /\ Sent(rec'[r])
  <2>1. Spawn(r) /\ Sent(rec'[r])
    BY <1>2, Decisions
  <2>2. QED
    BY <1>t, <1>2, <2>1, Spawned
<1>3. ASSUME NEW o \in DOMAIN tasks, TakeFile(o) \/ PostFile(o) \/ EndTask(o)
      PROVE  /\ t \in DOMAIN tasks /\ tasks'[t].by = tasks[t].by
             /\ tasks'[t].at # "done" => tasks[t].at # "done"
  BY <1>3, <1>t, TaskChanged
<1>4. \A r \in Sessions : Touches(r) => Decide(r) \/ UNCHANGED tasks
  BY DEF Touches, OpenFile, OpenFails, WriteBlock, WriteFails, Crash, besidesReader
<1>5. QED
  BY <1>1, <1>2, <1>3, <1>4, FileCases DEF FilesAlone

-----------------------------------------------------------------------------
(* One session is busy at a time.                                          *)
LEMMA BusyMoves ==
    ASSUME Patient, PInv, [Next]_vars, NEW q \in Sessions, Busy(q)'
    PROVE  Busy(q) \/ (main.at = "launch" /\ q = main.session /\ main' = Idle)
<1>1. CASE rec'[q].at \notin Over
  BY <1>1, PatientMoves DEF PInv, Busy
<1>2. ASSUME NEW t \in DOMAIN tasks', tasks'[t].by = q, tasks'[t].at # "done"
      PROVE  Busy(q)
  <2>1. CASE t \in DOMAIN tasks /\ tasks[t].by = q /\ tasks[t].at # "done"
    BY <2>1 DEF Busy, Pending
  <2>2. ASSUME NEW r \in Sessions, Decide(r), tasks'[t].by = r PROVE Busy(q)
    BY <1>2, <2>2 DEF Decide, Move, Busy, Over
  <2>3. QED
    BY <1>2, <2>1, <2>2, TaskMoves
<1>3. QED
  BY <1>1, <1>2 DEF Busy, Pending

LEMMA StartsQuiet ==
    ASSUME Patient, PInv, [Next]_vars, main'.at \in Starting, NEW q \in Sessions
    PROVE  ~Busy(q)
<1>1. CASE main.at \in Starting
  BY <1>1 DEF PInv, BusyInv
<1>2. CASE main.at \notin Starting
  <2>t. main \in MainType
    BY DEF PInv, QInv, IInv, Types
  <2>1. ASSUME NEW r \in Sessions, NEW s \in Strategies, StartCall(r, s) PROVE ~Busy(q)
    <3>1. rec[q].at \in Over /\ \A t \in DOMAIN tasks : tasks[t].at = "done"
      BY <2>1 DEF StartCall, ClientReady, Patient
    <3>2. QED
      BY <3>1 DEF Busy, Pending
  <2>2. \A p \in StopPolicies : ~StopCall(p)
    BY <1>2, <2>t DEF StopCall, MainType, Starting
  <2>3. ~Service
    <3> USE <1>2, <2>t DEF MainType, Starting
    <3>1. ~StartReads /\ ~StartStops /\ ~StartAssigns /\ ~StartLaunches
      BY DEF StartReads, StartStops, StartAssigns, StartLaunches
    <3>2. ~StopSetsPolicy
      BY DEF StopSetsPolicy
    <3>3. ~StopReads
      BY DEF StopReads, Crash
    <3>4. ~StopStopsRecorder
      BY DEF StopStopsRecorder
    <3>5. ~StopForgets
      BY DEF StopForgets, Idle
    <3>6. QED
      BY <3>1, <3>2, <3>3, <3>4, <3>5 DEF Service
  <2>4. \A r \in Sessions : ~(NotifyAndFail(r) \/ ForgetRecorder(r))
    BY <1>2 DEF NotifyAndFail, ForgetRecorder
  <2>5. ~UNCHANGED Mains
    BY <1>2 DEF Mains
  <2>6. QED
    BY <2>1, <2>2, <2>3, <2>4, <2>5, MainParts DEF MainActions
<1>3. QED
  BY <1>1, <1>2

(* What the user wanted of a session that is over stays.                   *)
LEMMA SentStays ==
    ASSUME Patient, PInv, [Next]_vars, NEW q \in Sessions, Sent(rec[q])
    PROVE  Sent(rec'[q]) /\ Written(q)' = Written(q) /\ rec'[q].blocks = rec[q].blocks
<1>1. rec[q].at \in {"clearing", "done"} /\ ~rec[q].mic
  BY DEF Sent, PInv, QInv, MicInv, Live
<1>2. Moves(rec[q], rec'[q])
  BY <1>1, SessionMoves DEF PInv, QInv, Arms
<1>3. rec'[q].at \in {"clearing", "done"} /\ Same(rec[q], rec'[q])
  BY <1>1, <1>2 DEF Moves
<1>4. rec'[q].stoppedWith = rec[q].stoppedWith
  BY <1>1, MicMoves DEF PInv, QInv, GoesOn, ByClient, IsLaunched, Patient
<1>5. ~Touches(q)
  BY <1>1 DEF Touches, OpenFile, OpenFails, WriteBlock, WriteFails, Decide, Move
<1>6. rec'[q].missed = rec[q].missed
  BY <1>5, FileMoves DEF PInv, QInv, Kept
<1>7. QED
  BY <1>3, <1>4, <1>6 DEF Sent, Same, Written

LEMMA TasksSent ==
    ASSUME Patient, PInv, [Next]_vars, NEW t \in DOMAIN tasks'
    PROVE  tasks'[t].by \in Sessions /\ Sent(rec'[tasks'[t].by])
<1>1. CASE t \in DOMAIN tasks /\ tasks'[t].by = tasks[t].by
  <2>1. tasks[t].by \in Sessions /\ Sent(rec[tasks[t].by])
    BY <1>1, PatientFacts DEF PInv, BusyInv
  <2>2. QED
    BY <1>1, <2>1, SentStays
<1>2. QED
  BY <1>1, TaskMoves

(* While a session is busy the cache holds its file or none.               *)
LEMMA CacheOfBusy ==
    ASSUME Patient, PInv, NEW q \in Sessions, Busy(q), NEW e \in Extensions,
           cache[e] # Nobody
    PROVE  cache[e] = q /\ e = Extension[q]
<1>1. cache[e] \in Sessions /\ Busy(cache[e])
  BY PatientFacts
<1>2. cache[e] = q
  BY <1>1 DEF PInv, BusyInv
<1>3. QED
  BY <1>2 DEF PInv, BusyInv, Owned

(* Each way of touching the files, and what it leaves in the cache.        *)
LEMMA AfterOpen ==
    ASSUME Patient, PInv, NEW r \in Sessions, OpenFile(r)
    PROVE  /\ cache' = [cache EXCEPT ![Extension[r]] = r]
           /\ \A e \in Extensions : cache[e] = Nobody
           /\ content' = [content EXCEPT ![r] = {}]
           /\ rec'[r].at = "writing" /\ rec'[r].outfile = r
           /\ rec'[r].blocks = rec[r].blocks /\ rec'[r].missed = rec[r].missed
           /\ \A q \in Sessions \ {r} : rec'[q] = rec[q]
           /\ UNCHANGED <<tasks, uploads>>
<1>1. rec[r].at = "opening" /\ rec[r].blocks = 0
  BY PatientFacts DEF OpenFile, Progress
<1>2. currentStrategy = r
  BY <1>1 DEF PInv, StopInv, Over
<1>3. Busy(r) /\ Before(rec[r])
  BY <1>1 DEF Busy, Over, Before
<1>4. \A e \in Extensions : cache[e] # r
  BY <1>3 DEF PInv, QInv, IInv, FileInv, NamesInv
<1>5. \A e \in Extensions : cache[e] = Nobody
  BY <1>3, <1>4, CacheOfBusy
<1>6. cache[Extension[r]] = Nobody
  BY <1>5, PatientFacts
<1>7. rec' = [rec EXCEPT ![r] = [rec[r] EXCEPT !.at = "writing", !.outfile = r]]
  BY <1>2, <1>6 DEF OpenFile
<1>8. rec'[r] = [rec[r] EXCEPT !.at = "writing", !.outfile = r]
      /\ rec[r] \in SessionType
  BY <1>7, PatientFacts
<1>9. /\ rec'[r].at = "writing" /\ rec'[r].outfile = r
      /\ rec'[r].blocks = rec[r].blocks /\ rec'[r].missed = rec[r].missed
  BY <1>8 DEF SessionType
<1>10. \A q \in Sessions \ {r} : rec'[q] = rec[q]
  BY <1>7, PatientFacts
<1>11. QED
  BY <1>2, <1>5, <1>6, <1>9, <1>10 DEF OpenFile, history

LEMMA AfterDecision ==
    ASSUME Patient, PInv, NEW r \in Sessions, Decide(r), NEW e \in Extensions,
           cache'[e] # Nobody
    PROVE  cache'[e] = r /\ e = Extension[r] /\ Pending(r)'
<1>t. TasksType /\ CacheType
  BY PatientFacts
<1>1. Busy(r)
  BY Decisions DEF Busy, Over
<1>2. CASE DeleteCacheFile(r)
  <2>1. cache[e] # Nobody /\ e # Extension[r]
    BY <1>2, <1>t DEF DeleteCacheFile, CacheType
  <2>2. QED
    BY <1>1, <2>1, CacheOfBusy
<1>3. CASE Spawn(r) /\ UNCHANGED cache
  <2>1. Pending(r)'
    BY <1>t, <1>3, Spawned DEF Pending
  <2>2. QED
    BY <1>1, <1>3, <2>1, CacheOfBusy
<1>4. QED
  BY <1>2, <1>3, Decisions

LEMMA AfterTask ==
    ASSUME Patient, PInv, NEW t \in DOMAIN tasks, TakeFile(t) \/ PostFile(t) \/ EndTask(t)
    PROVE  /\ \A e \in Extensions : cache'[e] = Nobody
           /\ UNCHANGED <<rec, content>>
<1> DEFINE b == tasks[t].by
<1>t. IInv /\ b \in Sessions /\ NamesInv
  BY PatientFacts DEF IInv, FileInv
<1>1. tasks[t].at # "done"
  BY PatientFacts, TaskChanged
<1>2. Busy(b)
  BY <1>1 DEF Busy, Pending
<1>3. CASE TakeFile(t)
  <2>1. /\ cache'[Extension[b]] = Nobody /\ UNCHANGED <<rec, content>>
        /\ \A d \in Extensions \ {Extension[b]} : cache'[d] = cache[d]
    BY <1>t, <1>3, Taken
  <2>2. QED
    BY <1>t, <1>2, <2>1, CacheOfBusy
<1>4. CASE PostFile(t) \/ EndTask(t)
  <2>1. /\ UNCHANGED <<rec, cache, content>> /\ tasks[t].file \in Moments
        /\ tasks[t].at \in {"sending", "answered"}
    BY <1>t, <1>4, Posted, TaskEnded
  <2>2. sendFiles[tasks[t].file] = b
    BY <2>1 DEF PInv, AudioInv
  <2>3. \A e \in Extensions : cache[e] # b
    BY <1>t, <2>1, <2>2, PatientFacts DEF NamesInv
  <2>4. QED
    BY <1>t, <1>2, <2>1, <2>3, CacheOfBusy
<1>5. QED
  BY <1>3, <1>4

(* A file in the cache whose session writes or goes on.                    *)
LEMMA StillHeld ==
    ASSUME Patient, PInv, [Next]_vars, NEW q \in Sessions, rec[q].at \in Holding,
           ~Before(rec[q]), ~Decide(q)
    PROVE  rec'[q].at \in Holding
<1>1. Moves(rec[q], rec'[q])
  BY SessionMoves DEF PInv, QInv, Arms, Holding
<1>2. rec[q].at = "top" => rec[q].blocks # 0
  BY DEF Before
<1>3. CASE Kept(rec[q], rec'[q])
  BY <1>1, <1>2, <1>3 DEF Moves, Kept, Holding, Patient
<1>4. CASE Touches(q)
  <2>1. rec[q].at = "writing"
    BY <1>4 DEF Touches, OpenFile, OpenFails, WriteBlock, WriteFails, Move, Holding
  <2>2. QED
    BY <1>1, <2>1 DEF Moves, Holding
<1>5. QED
  BY <1>3, <1>4, FileMoves DEF PInv, QInv

LEMMA CacheStep ==
    ASSUME Patient, PInv, [Next]_vars, NEW e \in Extensions, cache'[e] # Nobody
    PROVE  Owned(e)'
<1>t. CacheType /\ NamesInv
  BY PatientFacts DEF IInv, FileInv
<1>o. ASSUME cache' = cache, tasks' = tasks, \A q \in Sessions : ~Decide(q)
      PROVE  Owned(e)'
  <2> DEFINE c == cache[e]
  <2>1. c \in Sessions /\ ~Before(rec[c])
    BY <1>t, <1>o DEF CacheType, NamesInv
  <2>2. e = Extension[c] /\ (rec[c].at \in Holding \/ Pending(c))
    BY <1>o DEF PInv, BusyInv, Owned
  <2>3. Pending(c) => \E t \in DOMAIN tasks' : tasks'[t].by = c /\ tasks'[t].at # "done"
    BY <1>o DEF Pending
  <2>4. CASE rec[c].at \in Holding
    <3>1. rec'[c].at \in Holding
      BY <1>o, <2>1, <2>4, StillHeld
    <3>2. QED
      BY <1>o, <2>2, <3>1 DEF Owned
  <2>5. CASE Pending(c)
    BY <1>o, <2>2, <2>3, <2>5 DEF Owned, Pending
  <2>6. QED
    BY <2>2, <2>4, <2>5
<1>1. ASSUME NEW r \in Sessions, OpenFile(r) PROVE Owned(e)'
  <2>1. cache'[e] = r /\ e = Extension[r]
    BY <1>1, <1>t, AfterOpen DEF CacheType
  <2>2. rec'[r].at = "writing"
    BY <1>1, AfterOpen
  <2>3. QED
    BY <2>1, <2>2 DEF Owned, Holding
<1>2. ASSUME NEW r \in Sessions, Decide(r) PROVE Owned(e)'
  BY <1>2, AfterDecision DEF Owned, Pending
<1>3. ASSUME NEW t \in DOMAIN tasks, TakeFile(t) \/ PostFile(t) \/ EndTask(t)
      PROVE  Owned(e)'
  BY <1>3, AfterTask
<1>4. CASE \A q \in Sessions : ~OpenFile(q) /\ ~Decide(q)
  <2>1. CASE cache' = cache /\ tasks' = tasks
    BY <1>4, <1>o, <2>1
  <2>2. ASSUME NEW r \in Sessions, Touches(r) PROVE cache' = cache /\ tasks' = tasks
    BY <1>4, <2>2 DEF Touches, OpenFails, WriteBlock, WriteFails, Crash, besidesReader,
       files
  <2>3. QED
    BY <1>3, <2>1, <2>2, FileCases DEF FilesAlone
<1>5. QED
  BY <1>1, <1>2, <1>4

(* A task is made when no other is under way.                              *)
LEMMA OneTaskStep ==
    ASSUME Patient, PInv, [Next]_vars, NEW t \in DOMAIN tasks', NEW o \in DOMAIN tasks',
           tasks'[t].at # "done", tasks'[o].at # "done"
    PROVE  t = o
<1>t. TasksType /\ \A i \in DOMAIN tasks : tasks[i].by \in Sessions
  BY PatientFacts
<1>1. ASSUME NEW r \in Sessions, Decide(r), Spawn(r), NEW i \in DOMAIN tasks,
             tasks[i].at # "done"
      PROVE  FALSE
  <2>1. rec[r].at = "deciding" /\ Sent(rec[tasks[i].by])
    BY <1>1 DEF Decide, Move, PInv, BusyInv
  <2>2. Busy(r) /\ Busy(tasks[i].by)
    BY <1>1, <2>1 DEF Busy, Over, Pending
  <2>3. tasks[i].by = r
    BY <1>t, <2>2 DEF PInv, BusyInv
  <2>4. QED
    BY <2>1, <2>3 DEF Sent
<1>2. ASSUME NEW r \in Sessions, Decide(r), Spawn(r) PROVE t = o
  BY <1>1, <1>2, <1>t, Spawned
<1>3. CASE \A r \in Sessions : ~(Decide(r) /\ Spawn(r))
  <2>1. \A i \in DOMAIN tasks' :
          i \in DOMAIN tasks /\ (tasks'[i].at # "done" => tasks[i].at # "done")
    <3> SUFFICES ASSUME NEW i \in DOMAIN tasks'
                 PROVE  i \in DOMAIN tasks /\ (tasks'[i].at # "done" => tasks[i].at # "done")
      OBVIOUS
    <3>1. ASSUME NEW r \in Sessions, Decide(r) PROVE tasks' = tasks
      BY <1>3, <3>1, Decisions
    <3>2. CASE tasks' = tasks
      BY <3>2
    <3>3. QED
      BY <3>1, <3>2, TaskMoves
  <2>2. QED
    BY <2>1 DEF PInv, BusyInv
<1>4. QED
  BY <1>2, <1>3

LEMMA BusyStep ==
    ASSUME Patient, PInv, [Next]_vars
    PROVE  BusyInv'
<1>1. ASSUME NEW p \in Sessions, NEW q \in Sessions, Busy(p)', Busy(q)' PROVE p = q
  <2>1. CASE main.at = "launch"
    <3>1. ~Busy(p) /\ ~Busy(q)
      BY <2>1 DEF PInv, BusyInv, Starting
    <3>2. QED
      BY <1>1, <3>1, BusyMoves
  <2>2. CASE main.at # "launch"
    <3>1. Busy(p) /\ Busy(q)
      BY <1>1, <2>2, BusyMoves
    <3>2. QED
      BY <3>1 DEF PInv, BusyInv
  <2>3. QED
    BY <2>1, <2>2
<1>2. ASSUME main'.at \in Starting, NEW q \in Sessions, Busy(q)' PROVE FALSE
  <2>1. ~Busy(q) /\ main' # Idle
    BY <1>2, StartsQuiet DEF Idle, Starting
  <2>2. QED
    BY <1>2, <2>1, BusyMoves
<1>3. \A t \in DOMAIN tasks' : Sent(rec'[tasks'[t].by])
  BY TasksSent
<1>4. QED
  BY <1>1, <1>2, <1>3, CacheStep, OneTaskStep DEF BusyInv

-----------------------------------------------------------------------------
(* Every file holds the audio its session has written.                     *)
LEMMA OneMore ==
    ASSUME NEW q, NEW n \in Nat, NEW M \in SUBSET (1..n)
    PROVE  /\ ({q} \X (1..n \ M)) \cup {<<q, n + 1>>} = {q} \X (1..(n + 1) \ M)
           /\ {q} \X (1..n \ M) = {q} \X (1..(n + 1) \ (M \cup {n + 1}))
           /\ M \cup {n + 1} \subseteq 1..(n + 1) /\ M \subseteq 1..(n + 1)
<1>1. 1..(n + 1) = 1..n \cup {n + 1} /\ n + 1 \notin 1..n
  OBVIOUS
<1>2. 1..(n + 1) \ M = (1..n \ M) \cup {n + 1}
  BY <1>1
<1>3. 1..(n + 1) \ (M \cup {n + 1}) = 1..n \ M
  BY <1>1
<1>4. QED
  BY <1>1, <1>2, <1>3

Filled(q) == content[q] = Written(q) /\ rec[q].missed \subseteq 1..rec[q].blocks

LEMMA ContentStep ==
    ASSUME Patient, PInv, [Next]_vars, NEW q \in Sessions
    PROVE  Filled(q)'
<1>t. /\ rec \in [Sessions -> SessionType] /\ ContentType
      /\ \A r \in Sessions : rec[r].blocks \in Nat
  <2>1. \A r \in Sessions : rec[r].blocks \in 0..MaxBlocks
    BY PatientFacts
  <2>2. QED
    BY <2>1, PatientFacts, ServiceAssumption
<1>0. Filled(q)
  BY DEF PInv, AudioInv, Filled
<1>u. ASSUME content'[q] = content[q], rec'[q].blocks = rec[q].blocks,
             rec'[q].missed = rec[q].missed
      PROVE  Filled(q)'
  BY <1>0, <1>u DEF Filled, Written
<1>1. ASSUME NEW r \in Sessions, OpenFile(r) PROVE Filled(q)'
  <2>1. rec[r].blocks = 0
    BY <1>1, PatientFacts DEF OpenFile, Progress
  <2>2. rec'[q].blocks = rec[q].blocks /\ rec'[q].missed = rec[q].missed
    BY <1>1, AfterOpen
  <2>3. content' = [content EXCEPT ![r] = {}]
    BY <1>1, AfterOpen
  <2>4. CASE q = r
    <3>1. content'[q] = {} /\ rec'[q].blocks = 0
      BY <1>t, <2>1, <2>2, <2>3, <2>4 DEF ContentType
    <3>2. rec'[q].missed \subseteq 1..rec'[q].blocks
      BY <1>0, <2>2 DEF Filled
    <3>3. QED
      BY <3>1, <3>2 DEF Filled, Written
  <2>5. CASE q # r
    <3>1. content'[q] = content[q]
      BY <1>t, <2>3, <2>5 DEF ContentType
    <3>2. QED
      BY <1>u, <2>2, <3>1
  <2>6. QED
    BY <2>4, <2>5
<1>2. ASSUME NEW r \in Sessions, WriteBlock(r), rec[r].outfile # Nobody
      PROVE  Filled(q)'
  <2>1. CASE q = r
    <3>1. /\ rec'[q].blocks = rec[q].blocks + 1 /\ rec'[q].missed = rec[q].missed
          /\ content'[q] = Written(q) \cup {<<q, rec[q].blocks + 1>>}
      BY <1>0, <1>2, <1>t, <2>1, Writing DEF ContentType, Filled
    <3>2. QED
      BY <1>0, <1>t, <3>1, OneMore DEF Filled, Written
  <2>2. CASE q # r
    <3>1. content'[q] = content[q] /\ rec'[q] = rec[q]
      BY <1>2, <1>t, <2>2, Writing DEF ContentType
    <3>2. QED
      BY <1>u, <3>1
  <2>3. QED
    BY <2>1, <2>2
<1>3. ASSUME NEW r \in Sessions,
             OpenFails(r) \/ WriteFails(r) \/ (WriteBlock(r) /\ rec[r].outfile = Nobody)
      PROVE  Filled(q)'
  <2>1. content' = content /\ \A p \in Sessions \ {r} : rec'[p] = rec[p]
    BY <1>3, Fails DEF FilesAlone
  <2>2. CASE rec'[q].blocks = rec[q].blocks /\ rec'[q].missed = rec[q].missed
    BY <1>u, <2>1, <2>2
  <2>3. CASE /\ rec'[q].blocks = rec[q].blocks + 1
             /\ rec'[q].missed = rec[q].missed \cup {rec[q].blocks + 1}
    BY <1>0, <1>t, <2>1, <2>3, OneMore DEF Filled, Written
  <2>4. QED
    BY <1>3, <2>1, <2>2, <2>3, Fails
<1>4. ASSUME NEW r \in Sessions, Decide(r) PROVE Filled(q)'
  <2>1. content' = content /\ rec' = [rec EXCEPT ![r].at = "clearing"]
    BY <1>4, Decisions
  <2>2. rec'[q].blocks = rec[q].blocks /\ rec'[q].missed = rec[q].missed
    BY <1>t, <2>1 DEF SessionType
  <2>3. QED
    BY <1>u, <2>1, <2>2
<1>5. ASSUME NEW t \in DOMAIN tasks, TakeFile(t) \/ PostFile(t) \/ EndTask(t)
      PROVE  Filled(q)'
  <2>1. rec' = rec /\ content' = content
    BY <1>5, AfterTask
  <2>2. QED
    BY <1>u, <2>1
<1>6. CASE FilesAlone /\ \A p \in Sessions : Kept(rec[p], rec'[p])
  BY <1>6, <1>u DEF Kept, FilesAlone
<1>7. QED
  BY <1>1, <1>2, <1>3, <1>4, <1>5, <1>6, FileCases DEF Touches

LEMMA OutfileStep ==
    ASSUME Patient, PInv, [Next]_vars, NEW q \in Sessions, Writes(rec'[q])
    PROVE  HasFile(q)'
<1>t. rec \in [Sessions -> SessionType] /\ Progress(rec[q])
      /\ rec[q].blocks \in 0..MaxBlocks /\ MaxBlocks \in Nat
  BY PatientFacts, ServiceAssumption
<1>0. Writes(rec[q]) => HasFile(q)
  BY DEF PInv, AudioInv
<1>1. CASE OpenFile(q)
  BY <1>1, AfterOpen DEF HasFile
<1>2. CASE WriteBlock(q) /\ rec[q].outfile # Nobody
  BY <1>2, Writing DEF HasFile
<1>3. CASE OpenFails(q)
  <2>1. rec[q].outfile = Nobody /\ rec'[q].outfile = Nobody /\ rec'[q].at = "writing"
    BY <1>3, <1>t, Fails DEF OpenFails, Move, Progress, Before, PInv, AudioInv
  <2>2. QED
    BY <2>1 DEF HasFile
<1>4. CASE WriteFails(q) \/ (WriteBlock(q) /\ rec[q].outfile = Nobody)
  <2>1. rec[q].at = "writing" /\ rec'[q].outfile = rec[q].outfile
    BY <1>4, Fails DEF WriteFails, WriteBlock
  <2>2. HasFile(q)
    BY <1>0, <2>1 DEF Writes
  <2>3. rec[q].outfile = Nobody => rec'[q].at = "writing"
    BY <1>4, Fails DEF WriteFails
  <2>4. QED
    BY <2>1, <2>2, <2>3 DEF HasFile
<1>5. CASE Decide(q)
  <2>1. rec'[q].at = "clearing"
    BY <1>5, <1>t, Decisions DEF SessionType
  <2>2. QED
    BY <2>1 DEF Writes
<1>6. CASE Kept(rec[q], rec'[q])
  <2>1. Moves(rec[q], rec'[q]) \/ Arms(rec[q], rec'[q])
    BY SessionMoves DEF PInv, QInv
  <2>2. rec'[q].outfile = rec[q].outfile
    BY <1>6 DEF Kept, Writes
  <2>3. rec'[q].blocks = rec[q].blocks /\ ~(rec[q].at = "opening" /\ rec'[q].at = "writing")
    BY <1>6 DEF Kept
  <2>4. Writes(rec[q])
    BY <1>t, <2>1, <2>3 DEF Moves, Arms, Same, Writes, Progress
  <2>5. rec[q].at = "writing" => rec'[q].at = "writing"
    BY <1>t, <2>1, <2>3 DEF Moves, Arms, Same
  <2>6. QED
    BY <1>0, <2>2, <2>4, <2>5 DEF HasFile
<1>7. QED
  BY <1>1, <1>2, <1>3, <1>4, <1>5, <1>6, FileMoves DEF PInv, QInv, Touches

LEMMA NoFileStep ==
    ASSUME Patient, PInv, [Next]_vars, NEW q \in Sessions, Before(rec'[q])
    PROVE  rec'[q].outfile = Nobody
<1>t. rec \in [Sessions -> SessionType] /\ rec[q].blocks \in Nat
  <2>1. rec[q].blocks \in 0..MaxBlocks
    BY PatientFacts
  <2>2. QED
    BY <2>1, PatientFacts, ServiceAssumption
<1>1. Before(rec[q]) /\ rec[q].outfile = Nobody
  BY BeforeStep DEF PInv, QInv, AudioInv
<1>2. CASE OpenFile(q)
  BY <1>2, AfterOpen DEF Before
<1>3. CASE OpenFails(q) \/ WriteBlock(q) \/ WriteFails(q)
  BY <1>1, <1>3, Fails
<1>4. CASE Decide(q)
  BY <1>1, <1>4, <1>t, Decisions DEF SessionType
<1>5. CASE Kept(rec[q], rec'[q])
  BY <1>1, <1>5 DEF Kept
<1>6. QED
  BY <1>2, <1>3, <1>4, <1>5, FileMoves DEF PInv, QInv, Touches

LEMMA TaskFileStep ==
    ASSUME Patient, PInv, [Next]_vars, NEW t \in DOMAIN tasks',
           tasks'[t].at \in {"sending", "answered"}
    PROVE  sendFiles'[tasks'[t].file] = tasks'[t].by
<1>t. /\ TasksType /\ IInv
      /\ \A o \in DOMAIN tasks :
            tasks[o].at \in {"sending", "answered"} => sendFiles[tasks[o].file] = tasks[o].by
  BY PatientFacts DEF PInv, AudioInv
<1>u. ASSUME UNCHANGED sendFiles, t \in DOMAIN tasks, tasks'[t] = tasks[t]
      PROVE  sendFiles'[tasks'[t].file] = tasks'[t].by
  BY <1>t, <1>u
<1>1. CASE UNCHANGED <<sendFiles, tasks>>
  BY <1>1, <1>u
<1>2. ASSUME NEW r \in Sessions, Decide(r) PROVE sendFiles'[tasks'[t].file] = tasks'[t].by
  <2>1. UNCHANGED sendFiles /\ (UNCHANGED tasks \/ Spawn(r))
    BY <1>2, Decisions
  <2>2. QED
    BY <1>t, <1>1, <1>u, <2>1, Spawned
<1>3. ASSUME NEW o \in DOMAIN tasks, TakeFile(o) \/ PostFile(o) \/ EndTask(o)
      PROVE  sendFiles'[tasks'[t].file] = tasks'[t].by
  <2> DEFINE e == Extension[tasks[o].by]
  <2>1. /\ t \in DOMAIN tasks
        /\ t # o => tasks'[t] = tasks[t]
        /\ tasks'[o].by = tasks[o].by /\ tasks[o].at # "done"
    BY <1>3, <1>t, TaskChanged
  <2>2. t = o
    BY <2>1 DEF PInv, BusyInv
  <2>3. CASE TakeFile(o)
    <3>1. /\ e \in Extensions /\ cache[e] \in Sessions
          /\ sendFiles'[tasks'[t].file] = cache[e]
      BY <1>t, <2>2, <2>3, Taken
    <3>2. tasks[o].by \in Sessions /\ Busy(tasks[o].by)
      BY <2>1, PatientFacts DEF Busy, Pending
    <3>3. cache[e] # Nobody
      BY <3>1, PatientFacts
    <3>4. cache[e] = tasks[o].by
      BY <3>1, <3>2, <3>3, CacheOfBusy
    <3>5. QED
      BY <2>1, <2>2, <3>1, <3>4
  <2>4. CASE PostFile(o)
    <3>1. tasks[o].at = "sending" /\ tasks'[o].file = tasks[o].file /\ UNCHANGED sendFiles
      BY <1>t, <2>4, Posted
    <3>2. QED
      BY <1>t, <2>1, <2>2, <3>1
  <2>5. CASE EndTask(o)
    BY <1>t, <2>2, <2>5, TaskEnded
  <2>6. QED
    BY <1>3, <2>3, <2>4, <2>5
<1>4. ASSUME NEW r \in Sessions, Touches(r) PROVE Decide(r) \/ UNCHANGED <<sendFiles, tasks>>
  BY <1>4 DEF Touches, OpenFile, OpenFails, WriteBlock, WriteFails, Crash, besidesReader,
     files
<1>5. QED
  BY <1>1, <1>2, <1>3, <1>4, FileCases DEF FilesAlone

LEMMA UploadStep ==
    ASSUME Patient, PInv, [Next]_vars, NEW u \in uploads'
    PROVE  /\ u.by \in Sessions /\ Sent(rec'[u.by]) /\ rec'[u.by].blocks > 0
           /\ u.audio = Written(u.by)'
<1> DEFINE Good == /\ u.by \in Sessions /\ Sent(rec[u.by]) /\ rec[u.by].blocks > 0
                   /\ u.audio = Written(u.by)
<1>1. Good => /\ u.by \in Sessions /\ Sent(rec'[u.by]) /\ rec'[u.by].blocks > 0
              /\ u.audio = Written(u.by)'
  BY SentStays
<1>2. u \in uploads => Good
  BY DEF PInv, AudioInv
<1>3. ASSUME NEW t \in DOMAIN tasks, PostFile(t) PROVE u \in uploads \/ Good
  <2> DEFINE m == tasks[t].file
  <2> DEFINE b == tasks[t].by
  <2>1. /\ m \in Moments /\ tasks[t].at = "sending"
        /\ \/ UNCHANGED uploads
           \/ uploads' = uploads \cup {[task |-> t, by |-> b, name |-> m,
                             file |-> sendFiles[m], audio |-> content[sendFiles[m]]]}
    BY <1>3, PatientFacts, Posted
  <2>2. sendFiles[m] = b /\ Sent(rec[b]) /\ b \in Sessions
    BY <2>1, PatientFacts DEF PInv, AudioInv, BusyInv
  <2>3. content[b] = Written(b)
    BY <2>2 DEF PInv, AudioInv
  <2>4. ~Before(rec[b]) /\ rec[b].blocks \in 0..MaxBlocks
    BY <2>1, <2>2, PatientFacts DEF IInv, FileInv, NamesInv
  <2>5. rec[b].blocks > 0
    BY <2>2, <2>4, ServiceAssumption DEF Before, Sent
  <2>6. QED
    BY <2>1, <2>2, <2>3, <2>5
<1>4. (\E t \in DOMAIN tasks : PostFile(t)) \/ uploads' = uploads
  BY FileCases DEF Touches, OpenFile, OpenFails, WriteBlock, WriteFails, Decide, Crash,
     TakeFile, EndTask, history, besidesReader, FilesAlone
<1>5. QED
  BY <1>1, <1>2, <1>3, <1>4

LEMMA AudioStep ==
    ASSUME Patient, PInv, [Next]_vars
    PROVE  AudioInv'
BY ContentStep, OutfileStep, NoFileStep, TaskFileStep, UploadStep DEF AudioInv, Filled

LEMMA AudioHolds == PInv => CancelledNeverSent /\ SendsOwnAudio
<1> SUFFICES ASSUME PInv, NEW u \in uploads
             PROVE  /\ \A r \in Sessions : Wish(r) = "CANCELED" => u.audio \cap Audio(r) = {}
                    /\ rec[u.by].blocks > 0 /\ u.audio = Written(u.by)
  BY DEF CancelledNeverSent, SendsOwnAudio
<1>1. /\ u.by \in Sessions /\ Sent(rec[u.by]) /\ rec[u.by].blocks > 0
      /\ u.audio = Written(u.by)
  BY DEF PInv, AudioInv
<1>2. ASSUME NEW r \in Sessions, Wish(r) = "CANCELED" PROVE u.audio \cap Audio(r) = {}
  <2>1. Wish(u.by) = "SEND"
    BY <1>1 DEF Sent, Wish
  <2>2. r # u.by
    BY <1>2, <2>1
  <2>3. QED
    BY <1>1, <2>2 DEF Audio, Written
<1>3. QED
  BY <1>1, <1>2

LEMMA PatientInvariant == Patient /\ Spec => []PInv
<1> SUFFICES ASSUME Patient PROVE Spec => []PInv
  OBVIOUS
<1>1. PInv /\ [Next]_vars => PInv'
  <2>1. QInv /\ StopInv /\ [Next]_vars => QInv' /\ StopInv'
    BY InvStep, MicInvStep, QuietStep, StopStep DEF QInv, Patient
  <2>2. QED
    BY <2>1, BusyStep, AudioStep DEF PInv
<1>2. QED
  BY PatientInit, <1>1, PTL DEF Spec

(* When sessions end by the user's stop alone and the client waits for     *)
(* quiet, no upload, early or late, has a block of a session that was      *)
(* cancelled (VoiceRecorderService.java:239-250; RecordStrategy.java:25-30),*)
(* though files may fail to be opened and written and posts may fail.      *)
THEOREM PatientCancels == Patient /\ Spec => []CancelledNeverSent
BY PatientInvariant, AudioHolds, PTL

(* For such a client what is uploaded for a session is all that it could   *)
(* write and nothing else, although all sessions share the name of the     *)
(* cache file (VoiceRecorderService.java:200-204, 215-219, 362-365).       *)
THEOREM PatientSends == Patient /\ Spec => []SendsOwnAudio
BY PatientInvariant, AudioHolds, PTL
=============================================================================
