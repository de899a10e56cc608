------------------------ MODULE VoiceRecorderProofs -------------------------
(* Machine-checked proofs about VoiceRecorder, for every maximum duration, *)
(* speech timeout, block length, encoder latency and failure mode that the *)
(* assumptions of that module admit, and about the detector of voice: for  *)
(* blocks of any length and any threshold its verdict is within Error of   *)
(* what the encoder will encode.                                           *)
EXTENDS VoiceRecorder, VoiceDetect, TLAPS

(* What stop() and a callback leave behind has the type of the fields.      *)
LEMMA StopTypes ==
    ASSUME TypeOK, CallbackMayStop \/ StopBody
    PROVE  stop' \in BOOLEAN /\ thread' \in BOOLEAN /\ audioRecord' \in BOOLEAN
BY DEF TypeOK, CallbackMayStop, StopBody, lockVars

(* What an encoder gives out is what it had, less what it keeps.           *)
LEMMA KeepAndGive ==
    ASSUME NEW had \in Nat, NEW gave \in Nat, NEW keeps \in Nat, keeps <= had + 1
    PROVE  /\ gave + had + 1 - keeps \in Nat
           /\ gave + had + 1 - keeps + keeps = gave + had + 1
OBVIOUS

(* One call of encode counts one block in, and loses none.                 *)
LEMMA EncodeCounts ==
    ASSUME TypeOK, Encode
    PROVE  /\ held' \in Nat
           /\ captured' \in Nat
           /\ delivered' \in Nat
           /\ captured' = captured + 1
           /\ delivered' + held' = delivered + held + 1
<1>1. held \in Nat /\ captured \in Nat /\ delivered \in Nat
  BY DEF TypeOK
<1>2. held' \in Nat /\ held' <= held + 1
  BY EncoderAssumption DEF Encode, EncoderEncode
<1>3. captured' = captured + 1 /\ captured' \in Nat
  BY <1>1 DEF Encode
<1>4. delivered' = delivered + held + 1 - held'
  BY DEF Encode, EncoderEncode
<1>5. QED
  BY <1>1, <1>2, <1>3, <1>4, KeepAndGive, Zenon

(* Every step keeps the types.                                             *)
LEMMA TypeStep ==
    ASSUME TypeOK, [Next]_vars
    PROVE  TypeOK'
<1> USE TimesAssumption, EncoderAssumption DEF lockVars, timeVars, audioVars,
            TypeOK, Pcs, NotHeard, NotEnded
<1>1. CASE Start
  BY <1>1 DEF Start, CreateAudioRecord
<1>2. CASE Stop
  BY <1>2 DEF Stop, StopBody, LockFree
<1>3. CASE Run
  BY <1>3 DEF Run
<1>4. CASE SeeStop
  BY <1>4 DEF SeeStop
<1>5. CASE ReadWhileStopped
  BY <1>5 DEF ReadWhileStopped, StopBody
<1>6. ASSUME NEW d \in Gaps, ReadLeadIn(d) PROVE TypeOK'
  BY <1>6 DEF ReadLeadIn
<1>7. CASE HearFirstVoice
  BY <1>7 DEF HearFirstVoice, EncoderInitialize, CallbackMayStop, StopBody
<1>8. ASSUME NEW d \in Gaps, NEW h \in BOOLEAN, ReadBlock(d, h) PROVE TypeOK'
  BY <1>8 DEF ReadBlock
<1>9. CASE Encode
  <2>1. stop' \in BOOLEAN /\ thread' \in BOOLEAN /\ audioRecord' \in BOOLEAN
    BY <1>9, StopTypes DEF Encode
  <2>2. held' \in Nat /\ captured' \in Nat /\ delivered' \in Nat
    BY <1>9, EncodeCounts
  <2>3. QED
    BY <1>9, <2>1, <2>2 DEF Encode
<1>10. CASE EncodeFails
  <2>1. stop' \in BOOLEAN /\ thread' \in BOOLEAN /\ audioRecord' \in BOOLEAN
    BY <1>10, StopTypes DEF EncodeFails
  <2>2. captured' \in Nat
    BY <1>10 DEF EncodeFails
  <2>3. QED
    BY <1>10, <2>1, <2>2 DEF EncodeFails
<1>11. CASE EncodeCrashes
  BY <1>11 DEF EncodeCrashes
<1>12. CASE CheckMax
  BY <1>12 DEF CheckMax, EndBy, NextIteration, TooLong, StopBody
<1>13. CASE CheckIdle
  BY <1>13 DEF CheckIdle, EndBy, NextIteration, TooQuiet, StopBody
<1>14. CASE ReleaseEncoder
  <2>1. stop' \in BOOLEAN /\ thread' \in BOOLEAN /\ audioRecord' \in BOOLEAN
    BY <1>14, StopTypes DEF ReleaseEncoder
  <2>2. held' \in Nat /\ delivered' \in Nat
    BY <1>14 DEF ReleaseEncoder, EncoderRelease
  <2>3. encoderOpen' \in BOOLEAN
    BY <1>14 DEF ReleaseEncoder, EncoderRelease
  <2>4. QED
    BY <1>14, <2>1, <2>2, <2>3 DEF ReleaseEncoder, EncoderRelease
<1>15. CASE NotifyEnd
  BY <1>15 DEF NotifyEnd, CallbackMayStop, StopBody
<1>16. CASE MicDies
  BY <1>16 DEF MicDies
<1>17. CASE Terminated
  BY <1>17 DEF Terminated, vars
<1>18. CASE UNCHANGED vars
  BY <1>18 DEF vars
<1>19. QED
  BY <1>1, <1>2, <1>3, <1>4, <1>5, <1>6, <1>7, <1>8, <1>9, <1>10, <1>11,
     <1>12, <1>13, <1>14, <1>15, <1>16, <1>17, <1>18
  DEF Next, Reader

(* Every step keeps what the lock protects.                                *)
LEMMA LockStep ==
    ASSUME TypeOK, LockInv, [Next]_vars
    PROVE  LockInv'
<1> USE DEF lockVars, timeVars, audioVars,
            TypeOK, LockInv, ReaderPcs, EndingPcs
<1>1. CASE Start
  BY <1>1 DEF Start, CreateAudioRecord
<1>2. CASE Stop
  BY <1>2 DEF Stop, StopBody, LockFree
<1>3. CASE Run
  BY <1>3 DEF Run
<1>4. CASE SeeStop
  BY <1>4 DEF SeeStop
<1>5. CASE ReadWhileStopped
  BY <1>5 DEF ReadWhileStopped, StopBody
<1>6. ASSUME NEW d \in Gaps, ReadLeadIn(d) PROVE LockInv'
  BY <1>6 DEF ReadLeadIn
<1>7. CASE HearFirstVoice
  BY <1>7 DEF HearFirstVoice, EncoderInitialize, CallbackMayStop, StopBody
<1>8. ASSUME NEW d \in Gaps, NEW h \in BOOLEAN, ReadBlock(d, h) PROVE LockInv'
  BY <1>8 DEF ReadBlock
<1>9. CASE Encode
  BY <1>9 DEF Encode, EncoderEncode, CallbackMayStop, StopBody
<1>10. CASE EncodeFails
  BY <1>10 DEF EncodeFails, StopBody
<1>11. CASE EncodeCrashes
  BY <1>11 DEF EncodeCrashes
<1>12. CASE CheckMax
  BY <1>12 DEF CheckMax, EndBy, NextIteration, TooLong, StopBody
<1>13. CASE CheckIdle
  BY <1>13 DEF CheckIdle, EndBy, NextIteration, TooQuiet, StopBody
<1>14. CASE ReleaseEncoder
  BY <1>14 DEF ReleaseEncoder, EncoderRelease, CallbackMayStop, StopBody
<1>15. CASE NotifyEnd
  BY <1>15 DEF NotifyEnd, CallbackMayStop, StopBody
<1>16. CASE MicDies
  BY <1>16 DEF MicDies
<1>17. CASE Terminated
  BY <1>17 DEF Terminated, vars
<1>18. CASE UNCHANGED vars
  BY <1>18 DEF vars
<1>19. QED
  BY <1>1, <1>2, <1>3, <1>4, <1>5, <1>6, <1>7, <1>8, <1>9, <1>10, <1>11,
     <1>12, <1>13, <1>14, <1>15, <1>16, <1>17, <1>18
  DEF Next, Reader

(* Every step keeps the account of the blocks.                             *)
LEMMA AudioStep ==
    ASSUME TypeOK, AudioInv, [Next]_vars
    PROVE  AudioInv'
<1> USE TimesAssumption, EncoderAssumption DEF lockVars, timeVars, audioVars,
            TypeOK, AudioInv, ReaderPcs, EndingPcs, NotHeard, NotEnded
<1>1. CASE Start
  BY <1>1 DEF Start, CreateAudioRecord
<1>2. CASE Stop
  BY <1>2 DEF Stop, StopBody, LockFree
<1>3. CASE Run
  BY <1>3 DEF Run
<1>4. CASE SeeStop
  BY <1>4 DEF SeeStop
<1>5. CASE ReadWhileStopped
  BY <1>5 DEF ReadWhileStopped, StopBody
<1>6. ASSUME NEW d \in Gaps, ReadLeadIn(d) PROVE AudioInv'
  BY <1>6 DEF ReadLeadIn
<1>7. CASE HearFirstVoice
  BY <1>7 DEF HearFirstVoice, EncoderInitialize, CallbackMayStop, StopBody
<1>8. ASSUME NEW d \in Gaps, NEW h \in BOOLEAN, ReadBlock(d, h) PROVE AudioInv'
  BY <1>8 DEF ReadBlock
<1>9. CASE Encode
  <2>1. /\ captured' = captured + 1
        /\ delivered' + held' = delivered + held + 1
        /\ captured' > 0
    BY <1>9, EncodeCounts
  <2>2. /\ pc = "encoding"
        /\ pc' = "encoded"
        /\ UNCHANGED <<timeVars, encoderOpen, endState>>
    BY <1>9 DEF Encode
  <2>3. QED
    BY <2>1, <2>2
<1>10. CASE EncodeFails
  BY <1>10 DEF EncodeFails, StopBody
<1>11. CASE EncodeCrashes
  BY <1>11 DEF EncodeCrashes
<1>12. CASE CheckMax
  BY <1>12 DEF CheckMax, EndBy, NextIteration, TooLong, StopBody
<1>13. CASE CheckIdle
  BY <1>13 DEF CheckIdle, EndBy, NextIteration, TooQuiet, StopBody
<1>14. CASE ReleaseEncoder
  BY <1>14 DEF ReleaseEncoder, EncoderRelease, CallbackMayStop, StopBody
<1>15. CASE NotifyEnd
  BY <1>15 DEF NotifyEnd, CallbackMayStop, StopBody
<1>16. CASE MicDies
  BY <1>16 DEF MicDies
<1>17. CASE Terminated
  BY <1>17 DEF Terminated, vars
<1>18. CASE UNCHANGED vars
  BY <1>18 DEF vars
<1>19. QED
  BY <1>1, <1>2, <1>3, <1>4, <1>5, <1>6, <1>7, <1>8, <1>9, <1>10, <1>11,
     <1>12, <1>13, <1>14, <1>15, <1>16, <1>17, <1>18
  DEF Next, Reader

(* Every step keeps the distances between the times.                       *)
LEMMA TimeStep ==
    ASSUME TypeOK, AudioInv, TimeInv, [Next]_vars
    PROVE  TimeInv'
<1> USE TimesAssumption DEF lockVars, timeVars, audioVars,
            TypeOK, AudioInv, TimeInv, ReaderPcs, EndingPcs, NotHeard
<1>1. CASE Start
  BY <1>1 DEF Start, CreateAudioRecord
<1>2. CASE Stop
  BY <1>2 DEF Stop, StopBody, LockFree
<1>3. CASE Run
  BY <1>3 DEF Run
<1>4. CASE SeeStop
  BY <1>4 DEF SeeStop
<1>5. CASE ReadWhileStopped
  BY <1>5 DEF ReadWhileStopped, StopBody
<1>6. ASSUME NEW d \in Gaps, ReadLeadIn(d) PROVE TimeInv'
  BY <1>6 DEF ReadLeadIn
<1>7. CASE HearFirstVoice
  BY <1>7 DEF HearFirstVoice, EncoderInitialize, CallbackMayStop, StopBody
<1>8. ASSUME NEW d \in Gaps, NEW h \in BOOLEAN, ReadBlock(d, h) PROVE TimeInv'
  BY <1>8 DEF ReadBlock
<1>9. CASE Encode
  BY <1>9 DEF Encode, EncoderEncode, CallbackMayStop, StopBody
<1>10. CASE EncodeFails
  BY <1>10 DEF EncodeFails, StopBody
<1>11. CASE EncodeCrashes
  BY <1>11 DEF EncodeCrashes
<1>12. CASE CheckMax
  BY <1>12 DEF CheckMax, EndBy, NextIteration, TooLong, StopBody
<1>13. CASE CheckIdle
  BY <1>13 DEF CheckIdle, EndBy, NextIteration, TooQuiet, StopBody
<1>14. CASE ReleaseEncoder
  BY <1>14 DEF ReleaseEncoder, EncoderRelease, CallbackMayStop, StopBody
<1>15. CASE NotifyEnd
  BY <1>15 DEF NotifyEnd, CallbackMayStop, StopBody
<1>16. CASE MicDies
  BY <1>16 DEF MicDies
<1>17. CASE Terminated
  BY <1>17 DEF Terminated, vars
<1>18. CASE UNCHANGED vars
  BY <1>18 DEF vars
<1>19. QED
  BY <1>1, <1>2, <1>3, <1>4, <1>5, <1>6, <1>7, <1>8, <1>9, <1>10, <1>11,
     <1>12, <1>13, <1>14, <1>15, <1>16, <1>17, <1>18
  DEF Next, Reader

(* Every step keeps the recording within its bound.                        *)
LEMMA BoundStep ==
    ASSUME TypeOK, AudioInv, TimeInv, BoundedRecording, [Next]_vars
    PROVE  BoundedRecording'
<1> USE TimesAssumption DEF lockVars, timeVars, audioVars,
            TypeOK, AudioInv, TimeInv, BoundedRecording, ReaderPcs, NotHeard
<1>1. CASE Start
  BY <1>1 DEF Start, CreateAudioRecord
<1>2. CASE Stop
  BY <1>2 DEF Stop, StopBody, LockFree
<1>3. CASE Run
  BY <1>3 DEF Run
<1>4. CASE SeeStop
  BY <1>4 DEF SeeStop
<1>5. CASE ReadWhileStopped
  BY <1>5 DEF ReadWhileStopped, StopBody
<1>6. ASSUME NEW d \in Gaps, ReadLeadIn(d) PROVE BoundedRecording'
  BY <1>6 DEF ReadLeadIn
<1>7. CASE HearFirstVoice
  BY <1>7 DEF HearFirstVoice, EncoderInitialize, CallbackMayStop, StopBody
<1>8. ASSUME NEW d \in Gaps, NEW h \in BOOLEAN, ReadBlock(d, h)
      PROVE BoundedRecording'
  BY <1>8 DEF ReadBlock
<1>9. CASE Encode
  BY <1>9 DEF Encode, EncoderEncode, CallbackMayStop, StopBody
<1>10. CASE EncodeFails
  BY <1>10 DEF EncodeFails, StopBody
<1>11. CASE EncodeCrashes
  BY <1>11 DEF EncodeCrashes
<1>12. CASE CheckMax
  BY <1>12 DEF CheckMax, EndBy, NextIteration, TooLong, StopBody
<1>13. CASE CheckIdle
  BY <1>13 DEF CheckIdle, EndBy, NextIteration, TooQuiet, StopBody
<1>14. CASE ReleaseEncoder
  BY <1>14 DEF ReleaseEncoder, EncoderRelease, CallbackMayStop, StopBody
<1>15. CASE NotifyEnd
  BY <1>15 DEF NotifyEnd, CallbackMayStop, StopBody
<1>16. CASE MicDies
  BY <1>16 DEF MicDies
<1>17. CASE Terminated
  BY <1>17 DEF Terminated, vars
<1>18. CASE UNCHANGED vars
  BY <1>18 DEF vars
<1>19. QED
  BY <1>1, <1>2, <1>3, <1>4, <1>5, <1>6, <1>7, <1>8, <1>9, <1>10, <1>11,
     <1>12, <1>13, <1>14, <1>15, <1>16, <1>17, <1>18
  DEF Next, Reader

(* The three parts together, and the bound, are inductive.                 *)
THEOREM InductiveInvariant == Spec => []IInv
<1>1. Init => IInv
  <2> USE DEF Init, NotHeard, NotEnded, ReaderPcs, EndingPcs
  <2>1. Init => TypeOK
    <3> SUFFICES ASSUME Init
                 PROVE  TypeOK
      OBVIOUS
    <3>1. /\ pc \in Pcs
          /\ voiceHeardMillis \in Nat \cup {NotHeard}
          /\ endState \in {NotEnded, "INTERRUPTED", "IDLE", "MAX", "USER"}
      BY DEF Pcs
    <3>2. now \in Nat /\ voiceStartStartedMillis \in Nat
      OBVIOUS
    <3>3. held \in Nat /\ captured \in Nat /\ delivered \in Nat
      OBVIOUS
    <3>4. QED
      BY <3>1, <3>2, <3>3 DEF TypeOK
  <2>2. Init => LockInv
    BY DEF LockInv
  <2>3. Init => AudioInv
    BY DEF AudioInv
  <2>4. Init => TimeInv /\ BoundedRecording
    BY TimesAssumption DEF TimeInv, BoundedRecording
  <2>5. QED
    BY <2>1, <2>2, <2>3, <2>4 DEF IInv
<1>2. IInv /\ [Next]_vars => IInv'
  <2> SUFFICES ASSUME IInv, [Next]_vars
               PROVE  IInv'
    OBVIOUS
  <2>1. TypeOK /\ LockInv /\ AudioInv /\ TimeInv /\ BoundedRecording
    BY DEF IInv
  <2>2. TypeOK'
    BY <2>1, TypeStep
  <2>3. LockInv'
    BY <2>1, LockStep
  <2>4. AudioInv'
    BY <2>1, AudioStep
  <2>5. TimeInv'
    BY <2>1, TimeStep
  <2>6. BoundedRecording'
    BY <2>1, BoundStep
  <2>7. QED
    BY <2>2, <2>3, <2>4, <2>5, <2>6 DEF IInv
<1>3. QED
  BY <1>1, <1>2, PTL DEF Spec

(* Every field of the recorder keeps its type.                             *)
THEOREM TypeCorrect == Spec => []TypeOK
<1>1. IInv => TypeOK
  BY DEF IInv
<1>2. QED
  BY <1>1, InductiveInvariant, PTL

(* Line 258 never reads from an AudioRecord that stop() has released, for  *)
(* any interleaving of the stopping threads and any callback that stops.   *)
THEOREM ReadsLiveMicrophone == Spec => []MicThereToRead
<1>1. IInv => MicThereToRead
  BY DEF IInv, LockInv, MicThereToRead, ReaderPcs
<1>2. QED
  BY <1>1, InductiveInvariant, PTL

(* Whichever way a session ends, microphone and looper thread are let go   *)
(* before the end is announced.                                            *)
THEOREM ReleasesMicrophone == Spec => []MicReleased
<1>1. IInv => MicReleased
  BY DEF IInv, LockInv, MicReleased, EndingPcs
<1>2. QED
  BY <1>1, InductiveInvariant, PTL

(* Whatever the encoder holds back, an end that is not an error comes      *)
(* after all the captured audio.                                           *)
THEOREM NothingLost == Spec => []AudioComplete
<1>1. IInv => AudioComplete
  BY DEF IInv, AudioInv, AudioComplete, Ended
<1>2. QED
  BY <1>1, InductiveInvariant, PTL

(* ... and after the release of the encoder.                               *)
THEOREM ClosesEncoder == Spec => []EncoderClosed
<1>1. IInv => EncoderClosed
  BY DEF IInv, AudioInv, EncoderClosed, Ended
<1>2. QED
  BY <1>1, InductiveInvariant, PTL

(* With a speech timeout no recording outgrows maximum + timeout + block.  *)
THEOREM RecordingBounded == Spec => []BoundedRecording
<1>1. IInv => BoundedRecording
  BY DEF IInv
<1>2. QED
  BY <1>1, InductiveInvariant, PTL

(* After a stop() between two iterations no step captures audio.           *)
THEOREM StopFinal == Spec => StopIsFinal
<1>1. IInv /\ [Next]_vars => [Stopping => Stopping' /\ captured' = captured]_vars
  <2> SUFFICES ASSUME IInv, Next, Stopping
               PROVE  Stopping' /\ captured' = captured
    BY DEF vars
  <2> USE DEF Stopping, lockVars, timeVars, audioVars,
            IInv, LockInv, ReaderPcs, EndingPcs
  <2>1. CASE Start
    BY <2>1 DEF Start, CreateAudioRecord
  <2>2. CASE Stop
    BY <2>2 DEF Stop, StopBody, LockFree
  <2>3. CASE Run
    BY <2>3 DEF Run
  <2>4. CASE SeeStop
    BY <2>4 DEF SeeStop
  <2>5. CASE ReadWhileStopped
    BY <2>5 DEF ReadWhileStopped, StopBody
  <2>6. ASSUME NEW d \in Gaps, ReadLeadIn(d)
        PROVE (Stopping' /\ captured' = captured)
    BY <2>6 DEF ReadLeadIn
  <2>7. CASE HearFirstVoice
    BY <2>7 DEF HearFirstVoice, EncoderInitialize, CallbackMayStop, StopBody
  <2>8. ASSUME NEW d \in Gaps, NEW h \in BOOLEAN, ReadBlock(d, h)
        PROVE (Stopping' /\ captured' = captured)
    BY <2>8 DEF ReadBlock
  <2>9. CASE Encode
    BY <2>9 DEF Encode, EncoderEncode, CallbackMayStop, StopBody
  <2>10. CASE EncodeFails
    BY <2>10 DEF EncodeFails, StopBody
  <2>11. CASE EncodeCrashes
    BY <2>11 DEF EncodeCrashes
  <2>12. CASE CheckMax
    BY <2>12 DEF CheckMax, EndBy, NextIteration, TooLong, StopBody
  <2>13. CASE CheckIdle
    BY <2>13 DEF CheckIdle, EndBy, NextIteration, TooQuiet, StopBody
  <2>14. CASE ReleaseEncoder
    BY <2>14 DEF ReleaseEncoder, EncoderRelease, CallbackMayStop, StopBody
  <2>15. CASE NotifyEnd
    BY <2>15 DEF NotifyEnd, CallbackMayStop, StopBody
  <2>16. CASE MicDies
    BY <2>16 DEF MicDies
  <2>17. CASE Terminated
    BY <2>17 DEF Terminated, vars
  <2>18. QED
    BY <2>1, <2>2, <2>3, <2>4, <2>5, <2>6, <2>7, <2>8, <2>9, <2>10, <2>11,
       <2>12, <2>13, <2>14, <2>15, <2>16, <2>17
    DEF Next, Reader
<1>2. QED
  BY <1>1, InductiveInvariant, PTL DEF Spec, StopIsFinal

(* A session is an implementation of RecordingSession: one step of the     *)
(* recorder is one step of the session or none.                            *)
THEOREM ImplementsSession == Spec => SessionSpec
<1>1. Init => Session!Init
  BY DEF Init, Session!Init, Phase, NotEnded, Session!NotEnded
<1>2. IInv /\ [Next]_vars => [Session!Next]_(Session!vars)
  <2> SUFFICES ASSUME IInv, [Next]_vars
               PROVE  [Session!Next]_(Session!vars)
    OBVIOUS
  <2> USE TimesAssumption, EncoderAssumption DEF IInv, TypeOK, AudioInv,
          ReaderPcs, EndingPcs, NotEnded, NotHeard, Pcs, Phase, lockVars, timeVars,
          audioVars, Session!vars, Session!Next, Session!NotEnded
  <2>1. CASE Start
    BY <2>1 DEF Start, CreateAudioRecord, Session!Arm
  <2>2. CASE Stop
    BY <2>2 DEF Stop, StopBody, LockFree, Session!Drop
  <2>3. CASE Run
    BY <2>3 DEF Run
  <2>4. CASE SeeStop
    BY <2>4 DEF SeeStop
  <2>5. CASE ReadWhileStopped
    BY <2>5 DEF ReadWhileStopped, StopBody
  <2>6. ASSUME NEW d \in Gaps, ReadLeadIn(d) PROVE [Session!Next]_(Session!vars)
    BY <2>6 DEF ReadLeadIn
  <2>7. CASE HearFirstVoice
    BY <2>7 DEF HearFirstVoice, EncoderInitialize, CallbackMayStop, StopBody, Session!Begin
  <2>8. ASSUME NEW d \in Gaps, NEW h \in BOOLEAN, ReadBlock(d, h)
        PROVE [Session!Next]_(Session!vars)
    BY <2>8 DEF ReadBlock
  <2>9. CASE Encode
    BY <2>9 DEF Encode, EncoderEncode, CallbackMayStop, StopBody, Session!Record
  <2>10. CASE EncodeFails
    BY <2>10 DEF EncodeFails, StopBody, Session!Record
  <2>11. CASE EncodeCrashes
    BY <2>11 DEF EncodeCrashes, Session!Drop
  <2>12. CASE CheckMax
    BY <2>12 DEF CheckMax, EndBy, NextIteration, TooLong, StopBody
  <2>13. CASE CheckIdle
    BY <2>13 DEF CheckIdle, EndBy, NextIteration, TooQuiet, StopBody
  <2>14. CASE ReleaseEncoder
    BY <2>14 DEF ReleaseEncoder, EncoderRelease, CallbackMayStop, StopBody, Session!Flush
  <2>15. CASE NotifyEnd
    BY <2>15 DEF NotifyEnd, CallbackMayStop, StopBody, Session!End, Session!EndStates
  <2>16. CASE MicDies
    BY <2>16 DEF MicDies
  <2>17. CASE Terminated
    BY <2>17 DEF Terminated, vars
  <2>18. CASE UNCHANGED vars
    BY <2>18 DEF vars
  <2>19. QED
    BY <2>1, <2>2, <2>3, <2>4, <2>5, <2>6, <2>7, <2>8, <2>9, <2>10, <2>11,
       <2>12, <2>13, <2>14, <2>15, <2>16, <2>17, <2>18
    DEF Next, Reader
<1>3. QED
  BY <1>1, <1>2, InductiveInvariant, PTL DEF Spec, SessionSpec, Session!Spec

-----------------------------------------------------------------------------
(* The detector, whose verdict on a block the reader acts upon: its loop   *)
(* over the bytes of a block (VoiceDetect).                                *)

(* The detector adds magnitudes of bytes, the encoder adds bytes: for      *)
(* every pair of bytes the two differ by at most Error.                    *)
LEMMA LoudnessError ==
    ASSUME NEW lo \in Byte, NEW hi \in Byte
    PROVE  /\ Loudness(lo, hi) \in Nat
           /\ Abs(Sample(lo, hi)) \in Nat
           /\ Abs(Sample(lo, hi)) <= Loudness(lo, hi) + Error
           /\ Loudness(lo, hi) <= Abs(Sample(lo, hi)) + Error
BY DEF Byte, Loudness, Sample, Unsigned, Abs, Error

Pair(k) == Loudness(block[2 * k - 1], block[2 * k])

(* The loop has seen whole samples only, and none of them was loud.        *)
ScanInv ==
    /\ ScanTypeOK
    /\ \E k \in Nat : i = 2 * k
    /\ \A k \in 1..(Len(block) \div 2) : 2 * k <= i => Pair(k) <= AMPLITUDE_THRESHOLD
    /\ heard = "yes" =>
          /\ i < Len(block) - 1
          /\ Loudness(block[i + 1], block[i + 2]) > AMPLITUDE_THRESHOLD
    /\ heard = "no" => i >= Len(block) - 1

(* Every sample of the block is made of two of its bytes.                  *)
LEMMA PairBytes ==
    ASSUME ScanTypeOK, NEW k \in 1..(Len(block) \div 2)
    PROVE  block[2 * k - 1] \in Byte /\ block[2 * k] \in Byte
<1>1. block \in Seq(Byte)
  BY DetectAssumption DEF ScanTypeOK
<1>2. Len(block) \in Nat
  BY <1>1
<1>3. 2 * k \in 1..Len(block) /\ 2 * k - 1 \in 1..Len(block)
  BY <1>2
<1>4. QED
  BY <1>1, <1>3

(* The invariant of the loop.                                              *)
THEOREM ScanInvariant == ScanSpec => []ScanInv
<1>1. ScanInit => ScanInv
  <2> SUFFICES ASSUME ScanInit
               PROVE  ScanInv
    OBVIOUS
  <2>1. block \in Seq(Byte) /\ Len(block) \in Nat
    BY DetectAssumption DEF ScanInit
  <2>2. i = 2 * 0 /\ heard = "?"
    BY DEF ScanInit
  <2>3. ScanTypeOK
    BY <2>1, <2>2 DEF ScanInit, ScanTypeOK
  <2>4. ASSUME NEW k \in 1..(Len(block) \div 2) PROVE ~(2 * k <= i)
    BY <2>1, <2>2
  <2>5. QED
    BY <2>2, <2>3, <2>4 DEF ScanInv
<1>2. ScanInv /\ [ScanNext]_scanVars => ScanInv'
  <2> SUFFICES ASSUME ScanInv, [ScanNext]_scanVars
               PROVE  ScanInv'
    OBVIOUS
  <2>1. block \in Seq(Byte) /\ Len(block) \in Nat /\ ScanTypeOK
    BY DetectAssumption DEF ScanInv, ScanTypeOK
  <2>2. CASE ScanPair
    <3>1. PICK k \in Nat : i = 2 * k
      BY DEF ScanInv
    <3>2. k + 1 \in 1..(Len(block) \div 2) /\ 2 * (k + 1) - 1 = i + 1 /\ 2 * (k + 1) = i + 2
      BY <2>1, <2>2, <3>1 DEF ScanPair
    <3>3. CASE Loudness(block[i + 1], block[i + 2]) > AMPLITUDE_THRESHOLD
      BY <2>2, <3>3 DEF ScanPair, ScanInv, ScanTypeOK, Pair
    <3>4. CASE ~(Loudness(block[i + 1], block[i + 2]) > AMPLITUDE_THRESHOLD)
      <4>1. i' = 2 * (k + 1) /\ heard' = "?" /\ block' = block
        BY <2>2, <3>1, <3>4 DEF ScanPair
      <4>2. ScanTypeOK'
        BY <2>1, <2>2, <3>1, <4>1 DEF ScanPair, ScanTypeOK
      <4>3. Loudness(block[i + 1], block[i + 2]) \in Nat
        BY <2>1, <3>2, PairBytes, LoudnessError
      <4>4. Pair(k + 1) <= AMPLITUDE_THRESHOLD
        BY <3>2, <3>4, <4>3, DetectAssumption DEF Pair
      <4>5. ASSUME NEW j \in 1..(Len(block) \div 2), 2 * j <= i'
            PROVE  Pair(j) <= AMPLITUDE_THRESHOLD
        <5>1. CASE j = k + 1
          BY <4>4, <5>1
        <5>2. CASE j # k + 1
          <6>1. 2 * j <= i
            BY <2>1, <3>1, <4>1, <4>5, <5>2
          <6>2. QED
            BY <6>1 DEF ScanInv
        <5>3. QED
          BY <5>1, <5>2
      <4>6. QED
        BY <4>1, <4>2, <4>5 DEF ScanInv, Pair
    <3>5. QED
      BY <3>3, <3>4
  <2>3. CASE ScanEnds
    BY <2>3 DEF ScanEnds, ScanInv, ScanTypeOK, Pair
  <2>4. CASE UNCHANGED scanVars
    BY <2>4 DEF scanVars, ScanInv, ScanTypeOK, Pair
  <2>5. QED
    BY <2>2, <2>3, <2>4 DEF ScanNext, Scanned
<1>3. QED
  BY <1>1, <1>2, PTL DEF ScanSpec

(* Voice is never heard in a block that is clearly under the threshold.    *)
THEOREM NeverInventsVoice == ScanSpec => []HeardIsLoud
<1>1. ScanInv => HeardIsLoud
  <2> SUFFICES ASSUME ScanInv, heard = "yes"
               PROVE  \E m \in Magnitudes : m + Error > AMPLITUDE_THRESHOLD
    BY DEF HeardIsLoud
  <2>1. block \in Seq(Byte) /\ Len(block) \in Nat /\ ScanTypeOK
    BY DetectAssumption DEF ScanInv, ScanTypeOK
  <2>2. PICK k \in Nat : i = 2 * k
    BY DEF ScanInv
  <2>3. i < Len(block) - 1 /\ Loudness(block[i + 1], block[i + 2]) > AMPLITUDE_THRESHOLD
    BY DEF ScanInv
  <2>4. k + 1 \in 1..(Len(block) \div 2) /\ 2 * (k + 1) - 1 = i + 1 /\ 2 * (k + 1) = i + 2
    BY <2>1, <2>2, <2>3
  <2> DEFINE lo == block[2 * (k + 1) - 1]
             hi == block[2 * (k + 1)]
  <2>5. lo \in Byte /\ hi \in Byte
    BY <2>1, <2>4, PairBytes
  <2>6. Loudness(lo, hi) > AMPLITUDE_THRESHOLD
    BY <2>3, <2>4
  <2>7. Abs(Sample(lo, hi)) \in Magnitudes
    BY <2>4 DEF Magnitudes
  <2> HIDE DEF lo, hi
  <2>8. Abs(Sample(lo, hi)) + Error > AMPLITUDE_THRESHOLD
    <3>1. /\ Loudness(lo, hi) \in Nat
          /\ Abs(Sample(lo, hi)) \in Nat
          /\ Loudness(lo, hi) <= Abs(Sample(lo, hi)) + Error
      BY <2>5, LoudnessError
    <3>2. QED
      BY <2>6, <3>1, DetectAssumption DEF Error
  <2>9. QED
    BY <2>7, <2>8
<1>2. QED
  BY <1>1, ScanInvariant, PTL

(* A block with a sample clearly above the threshold is never silence.     *)
THEOREM NeverMissesVoice == ScanSpec => []SilentIsQuiet
<1>1. ScanInv => SilentIsQuiet
  <2> SUFFICES ASSUME ScanInv, heard = "no", NEW m \in Magnitudes
               PROVE  m <= AMPLITUDE_THRESHOLD + Error
    BY DEF SilentIsQuiet
  <2>1. block \in Seq(Byte) /\ Len(block) \in Nat /\ ScanTypeOK
    BY DetectAssumption DEF ScanInv, ScanTypeOK
  <2>2. PICK k \in 1..(Len(block) \div 2) : m = Abs(Sample(block[2 * k - 1], block[2 * k]))
    BY DEF Magnitudes
  <2>3. 2 * k <= i
    BY <2>1, <2>2 DEF ScanInv
  <2>4. Pair(k) <= AMPLITUDE_THRESHOLD
    BY <2>3 DEF ScanInv
  <2>5. block[2 * k - 1] \in Byte /\ block[2 * k] \in Byte
    BY <2>1, PairBytes
  <2>6. Pair(k) \in Nat /\ m \in Nat /\ m <= Pair(k) + Error
    BY <2>2, <2>5, LoudnessError DEF Pair
  <2>7. QED
    BY <2>4, <2>6, DetectAssumption DEF Error
<1>2. QED
  BY <1>1, ScanInvariant, PTL
=============================================================================
