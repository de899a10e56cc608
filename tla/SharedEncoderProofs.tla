-------------------------- MODULE SharedEncoderProofs --------------------------
(***************************************************************************)
(* For any number of sessions, blocks and any latency: as long as each     *)
(* session is started after the onRecordEnd of the one before, one encoder *)
(* serves them all.  IInv says what a session has of the encoder at every  *)
(* place of its reader; only the one that is going on has anything.        *)
(***************************************************************************)
EXTENDS SharedEncoder, TLAPS

-----------------------------------------------------------------------------
(* Streams                                                                 *)

(* What a handle put out before and what it puts out now are a prefix of   *)
(* its stream again (Writes).                                              *)
LEMMA BlocksJoin ==
    ASSUME NEW h, NEW n \in Nat, NEW m \in Nat, n <= m
    PROVE  Blocks(h, 0, n) \cup Blocks(h, n, m) = Blocks(h, 0, m)
<1>1. 0..(n - 1) \cup n..(m - 1) = 0..(m - 1)
  OBVIOUS
<1> QED BY <1>1 DEF Blocks

(* Output of session r's handle reaches the file of r.                     *)
LEMMA WritesOwn ==
    ASSUME TypeOK, NEW r \in Sessions, NEW m \in Nat, given[r] <= m,
           encodingReady = r, outfile[r] = "open",
           file[r] = Blocks(r, 0, given[r]),
           Writes(r, m)
    PROVE  /\ fault' = fault
           /\ given' = [given EXCEPT ![r] = m]
           /\ file' = [file EXCEPT ![r] = Blocks(r, 0, m)]
<1>1. given' = [given EXCEPT ![r] = m]
  BY DEF Writes
<1>2. given[r] \in Nat
  BY DEF TypeOK
<1>3. CASE given[r] = m
  <2>1. file' = file /\ fault' = fault
    BY <1>3 DEF Writes, Receives
  <2>2. file = [file EXCEPT ![r] = Blocks(r, 0, m)]
    BY <1>3 DEF TypeOK
  <2> QED BY <1>1, <2>1, <2>2
<1>4. CASE given[r] < m
  <2>1. file' = [file EXCEPT ![r] = @ \cup Blocks(r, given[r], m)] /\ fault' = fault
    BY <1>2, <1>4 DEF Writes, Receives
  <2>2. file[r] \cup Blocks(r, given[r], m) = Blocks(r, 0, m)
    BY <1>2, BlocksJoin
  <2> QED BY <1>1, <2>1, <2>2
<1> QED BY <1>2, <1>3, <1>4

(* Whatever becomes of output, it has the types of output.                 *)
LEMMA WritesTypes ==
    ASSUME TypeOK, NEW h \in Sessions, NEW m \in Nat, Writes(h, m)
    PROVE  /\ fault' \in {"none", "null", "uninitialized", "undefined"}
           /\ given' = [given EXCEPT ![h] = m]
           /\ file' \in [Sessions -> SUBSET (Sessions \X Nat)]
<1>1. given[h] \in Nat
  BY DEF TypeOK
<1>2. Blocks(h, given[h], m) \subseteq Sessions \X Nat
  <2>1. given[h]..(m - 1) \subseteq Nat
    BY <1>1
  <2> QED BY <2>1 DEF Blocks
<1> QED BY <1>1, <1>2 DEF TypeOK, Writes, Receives

-----------------------------------------------------------------------------
(* Types                                                                   *)

(* Output needs a listener: a session that was started set encodingReady.  *)
LEMMA HandleTypes ==
    ASSUME TypeOK
    PROVE  /\ Handle \in Sessions \cup {Nobody}
           /\ HandleState \in {"new", "ready", "finished"} => Handle \in Sessions
BY DEF TypeOK, Handle, HandleState

LEMMA TypeStep == TypeOK /\ [Next]_vars => TypeOK'
<1> SUFFICES ASSUME TypeOK, [Next]_vars
             PROVE  TypeOK'
  OBVIOUS
<1> USE SharedAssumption
<1>1. ASSUME NEW r \in Sessions, Start(r) \/ Stop(r) \/ Reader(r)
      PROVE  TypeOK'
  <2> USE DEF TypeOK, Places, sessionVars, encoderVars, nativeVars
  <2>1. CASE Start(r)
    BY <2>1 DEF Start, Move, Overlaps
  <2>2. CASE Stop(r)
    BY <2>2 DEF Stop
  <2>3. CASE HearFirst(r)
    BY <2>3 DEF HearFirst, Move
  <2>4. CASE HearMore(r)
    BY <2>4 DEF HearMore, Move
  <2>5. CASE MakeLibFlac(r)
    BY <2>5 DEF MakeLibFlac, Move
  <2>6. CASE OpenHandle(r)
    BY <2>6 DEF OpenHandle, Move, Dies
  <2>7. CASE CheckInitialized(r)
    BY <2>7 DEF CheckInitialized, Move, Dies
  <2>8. CASE GoOn(r)
    BY <2>8 DEF GoOn, Move
  <2>9. CASE SeeStop(r)
    BY <2>9 DEF SeeStop, Move
  <2>10. CASE CheckRelease(r)
    BY <2>10 DEF CheckRelease, Move
  <2>11. CASE Free(r)
    BY <2>11 DEF Free, Move, Dies, Handle, HandleState
  <2>12. CASE Forget(r)
    BY <2>12 DEF Forget, Move
  <2>13. CASE NotifyEnd(r)
    BY <2>13 DEF NotifyEnd, Move
  <2>14. CASE Configure(r)
    <3>1. CASE Dies(r, "configuring", "undefined")
      BY <3>1 DEF Dies
    <3>2. CASE native[r] = "new" /\ ~Dies(r, "configuring", "undefined")
      <4>1. Writes(r, 1)
        BY <2>14, <3>2 DEF Configure
      <4>2. /\ fault' \in {"none", "null", "uninitialized", "undefined"}
            /\ given' = [given EXCEPT ![r] = 1]
            /\ file' \in [Sessions -> SUBSET (Sessions \X Nat)]
        BY <4>1, WritesTypes
      <4> QED BY <2>14, <3>2, <4>2 DEF Configure, Move
    <3> QED BY <2>14, <3>1, <3>2 DEF Configure
  <2>15. CASE Feed(r)
    <3>1. CASE Dies(r, "feeding", "null") \/ Dies(r, "feeding", "undefined")
      BY <3>1 DEF Dies
    <3>2. CASE ~(Dies(r, "feeding", "null") \/ Dies(r, "feeding", "undefined"))
      <4>1. PICK m \in given[r]..(captured[r] + 2) : Writes(r, m)
        BY <2>15, <3>2 DEF Feed
      <4>2. m \in Nat /\ m <= captured[r] + 2
        OBVIOUS
      <4>3. /\ fault' \in {"none", "null", "uninitialized", "undefined"}
            /\ given' = [given EXCEPT ![r] = m]
            /\ file' \in [Sessions -> SUBSET (Sessions \X Nat)]
        BY <4>1, <4>2, WritesTypes
      <4>4. captured' = [captured EXCEPT ![r] = @ + 1]
        BY <2>15, <3>2 DEF Feed
      <4>5. \A h \in Sessions : given'[h] <= captured'[h] + 1
        BY <4>2, <4>3, <4>4
      <4> QED BY <2>15, <3>2, <4>3, <4>4, <4>5 DEF Feed, Move
    <3> QED BY <3>1, <3>2
  <2>16. CASE Finish(r)
    <3>1. CASE Dies(r, "finishing", "null") \/ Dies(r, "finishing", "undefined")
      BY <3>1 DEF Dies
    <3>2. CASE HandleState \in {"new", "finished"} /\ UNCHANGED nativeVars /\ UNCHANGED fault
      BY <2>16, <3>2 DEF Finish, Move, Dies
    <3>3. CASE HandleState = "ready" /\ Writes(Handle, captured[Handle] + 1)
      <4>1. Handle \in Sessions
        BY <3>3, HandleTypes
      <4>2. captured[Handle] + 1 \in Nat
        BY <4>1
      <4>3. /\ fault' \in {"none", "null", "uninitialized", "undefined"}
            /\ given' = [given EXCEPT ![Handle] = captured[Handle] + 1]
            /\ file' \in [Sessions -> SUBSET (Sessions \X Nat)]
        BY <3>3, <4>1, <4>2, WritesTypes
      <4>4. CASE Dies(r, "finishing", "null") \/ Dies(r, "finishing", "undefined")
        BY <3>1, <4>4
      <4>5. CASE ~(Dies(r, "finishing", "null") \/ Dies(r, "finishing", "undefined"))
        <5>1. /\ native' = [native EXCEPT ![Handle] = "finished"]
              /\ at' = [at EXCEPT ![r] = "freeing"]
              /\ UNCHANGED <<stopped, captured, outfile, encoderVars, overlapped>>
          BY <2>16, <3>3, <4>5 DEF Finish, Move
        <5> QED BY <4>1, <4>3, <5>1
      <4> QED BY <4>4, <4>5
    <3> QED BY <2>16, <3>1, <3>2, <3>3 DEF Finish
  <2> QED BY <1>1, <2>1, <2>2, <2>3, <2>4, <2>5, <2>6, <2>7, <2>8, <2>9, <2>10, <2>11, <2>12, <2>13, <2>14, <2>15, <2>16 DEF Reader
<1>2. CASE UNCHANGED vars
  BY <1>2 DEF TypeOK, vars, sessionVars, encoderVars, nativeVars
<1> QED BY <1>1, <1>2 DEF Next

-----------------------------------------------------------------------------
(* One session at a time                                                   *)

(* A step of session r changes nothing of another one's.                   *)
Touches(r) ==
    /\ \A q \in Sessions \ {r} :
          /\ at'[q] = at[q] /\ captured'[q] = captured[q]
          /\ outfile'[q] = outfile[q] /\ file'[q] = file[q]
          /\ native'[q] = native[q] /\ given'[q] = given[q]
    /\ libFlac' \in {libFlac, r, Nobody}
    /\ fault' = "none"

Alone(r) == \A q \in Sessions \ {r} : at[q] \in Over

(* What is left to show of a step: that r keeps its own invariant.         *)
LEMMA OthersKeep ==
    ASSUME Clean, NEW r \in Sessions, Alone(r), Touches(r), SessionInv(r)'
    PROVE  Clean'
<1> USE SharedAssumption
<1>1. ASSUME NEW q \in Sessions \ {r}
      PROVE  SessionInv(q)'
  <2>1. at[q] \in Over /\ SessionInv(q) /\ q # Nobody
    BY DEF Alone, Clean
  <2>2. ~Active(q) /\ ~HasLibFlac(q) /\ ~HasReady(q) /\ ~Recorded(q)
    BY <2>1 DEF Active, Over, HasLibFlac, HasReady, Recorded
  <2>3. libFlac' # q
    BY <2>1, <2>2 DEF SessionInv, Touches
  <2>4. at'[q] = at[q] /\ captured'[q] = captured[q]
    BY DEF Touches
  <2>5. ~Active(q)' /\ ~HasLibFlac(q)' /\ ~HasReady(q)' /\ HasNothing(q)' = HasNothing(q) /\ HasFreed(q)' = HasFreed(q)
    BY <2>1, <2>4 DEF Active, Over, HasLibFlac, HasReady, Recorded, HasNothing, HasFreed
  <2> QED BY <2>1, <2>3, <2>4, <2>5 DEF SessionInv, Touches, Over, Blocks
<1>2. OneAtATime'
  BY DEF OneAtATime, Alone, Touches, Active
<1> QED BY <1>1, <1>2 DEF Clean, Touches

(* Every step of the only session there is, but for those that put out.    *)
LEMMA OwnStep ==
    ASSUME TypeOK, Clean, NEW r \in Sessions, Alone(r),
           \/ Start(r) \/ Stop(r) \/ HearFirst(r) \/ HearMore(r)
           \/ MakeLibFlac(r) \/ OpenHandle(r) \/ CheckInitialized(r)
           \/ GoOn(r) \/ SeeStop(r) \/ CheckRelease(r) \/ Free(r)
           \/ Forget(r) \/ NotifyEnd(r)
    PROVE  Touches(r) /\ SessionInv(r)'
<1> USE SharedAssumption
<1> SessionInv(r) /\ fault = "none"
  BY DEF Clean
<1> libFlac = Nobody \/ libFlac = r
  BY DEF Alone, Clean, SessionInv, HasLibFlac, HasReady, Recorded, Over, TypeOK
<1> USE DEF SessionInv, Active, Over, HasLibFlac, HasReady, HasNothing, HasFreed, Recorded, Touches, TypeOK, Clean, Alive, sessionVars, encoderVars, nativeVars, Blocks
<1>1. CASE Start(r)
  BY <1>1 DEF Start, Move, Overlaps
<1>2. CASE Stop(r)
  BY <1>2 DEF Stop
<1>3. CASE HearFirst(r)
  BY <1>3 DEF HearFirst, Move
<1>4. CASE HearMore(r)
  BY <1>4 DEF HearMore, Move
<1>5. CASE MakeLibFlac(r)
  BY <1>5 DEF MakeLibFlac, Move
<1>6. CASE OpenHandle(r)
  BY <1>6 DEF OpenHandle, Move, Dies
<1>7. CASE CheckInitialized(r)
  BY <1>7 DEF CheckInitialized, Move, Dies
<1>8. CASE GoOn(r)
  BY <1>8 DEF GoOn, Move
<1>9. CASE SeeStop(r)
  BY <1>9 DEF SeeStop, Move
<1>10. CASE CheckRelease(r)
  BY <1>10 DEF CheckRelease, Move
<1>11. CASE Free(r)
  BY <1>11 DEF Free, Move, Dies, Handle, HandleState
<1>12. CASE Forget(r)
  BY <1>12 DEF Forget, Move
<1>13. CASE NotifyEnd(r)
  BY <1>13 DEF NotifyEnd, Move
<1> QED BY <1>1, <1>2, <1>3, <1>4, <1>5, <1>6, <1>7, <1>8, <1>9, <1>10, <1>11, <1>12, <1>13

(* And those that put out: the output is r's and goes to the file of r.    *)
LEMMA OwnWriteStep ==
    ASSUME TypeOK, Clean, NEW r \in Sessions, Alone(r),
           Configure(r) \/ Feed(r) \/ Finish(r)
    PROVE  Touches(r) /\ SessionInv(r)'
<1> USE SharedAssumption
<1>1. SessionInv(r) /\ fault = "none"
  BY DEF Clean
<1>2. /\ captured[r] \in Nat /\ given[r] \in Nat
      /\ given[r] <= captured[r] + 1
  BY DEF TypeOK
<1>3. at[r] \in {"configuring", "feeding", "finishing"}
  BY DEF Configure, Feed, Finish, Move, Dies
<1>4. /\ encodingReady = r /\ libFlac = r /\ cPointer[r] = r
      /\ outfile[r] = "open" /\ file[r] = Blocks(r, 0, given[r])
  BY <1>1, <1>3 DEF SessionInv, Active, Over, HasLibFlac, HasReady
<1>5. r # Nobody /\ Handle = r
  BY <1>4 DEF Handle
<1>6. ASSUME NEW m \in Nat, given[r] <= m, Writes(r, m)
      PROVE  /\ fault' = fault
             /\ given' = [given EXCEPT ![r] = m]
             /\ file' = [file EXCEPT ![r] = Blocks(r, 0, m)]
  BY <1>4, <1>6, WritesOwn
<1> USE DEF SessionInv, Active, Over, HasLibFlac, HasReady, HasNothing, HasFreed, Recorded, Touches, TypeOK, Alive, sessionVars, encoderVars, nativeVars
<1>7. CASE Configure(r)
  <2>1. at[r] = "configuring"
    BY <1>7 DEF Configure, Move, Dies
  <2>2. native[r] = "new" /\ given[r] = 0 /\ captured[r] = 0
    BY <1>1, <2>1
  <2>3. /\ at' = [at EXCEPT ![r] = "encoding"]
        /\ native' = [native EXCEPT ![r] = "ready"]
        /\ Writes(r, 1)
        /\ UNCHANGED <<stopped, captured, outfile, encoderVars, overlapped>>
    BY <1>4, <1>7, <2>2 DEF Configure, Move, Dies
  <2>4. /\ fault' = fault
        /\ given' = [given EXCEPT ![r] = 1]
        /\ file' = [file EXCEPT ![r] = Blocks(r, 0, 1)]
    BY <1>6, <2>2, <2>3
  <2>5. file'[r] = Blocks(r, 0, 1) /\ given'[r] = 1
    BY <2>4
  <2>6. file'[r] = Blocks(r, 0, given[r])'
    BY <2>5 DEF Blocks
  <2> QED BY <1>1, <1>4, <1>5, <2>1, <2>2, <2>3, <2>4, <2>6
<1>8. CASE Feed(r)
  <2>1. at[r] = "feeding"
    BY <1>8 DEF Feed, Move, Dies
  <2>2. native[r] = "ready"
    BY <1>1, <2>1
  <2>3. /\ at' = [at EXCEPT ![r] = "encoded"]
        /\ captured' = [captured EXCEPT ![r] = @ + 1]
        /\ UNCHANGED <<stopped, outfile, encoderVars, native, overlapped>>
        /\ \E m \in given[r]..(captured[r] + 2) : Writes(r, m)
    BY <1>4, <1>5, <1>8, <2>2 DEF Feed, Move, Dies
  <2>4. PICK m \in given[r]..(captured[r] + 2) : Writes(r, m)
    BY <2>3
  <2>5. m \in Nat /\ given[r] <= m
    BY <1>2
  <2>6. /\ fault' = fault
        /\ given' = [given EXCEPT ![r] = m]
        /\ file' = [file EXCEPT ![r] = Blocks(r, 0, m)]
    BY <1>6, <2>4, <2>5
  <2>7. file'[r] = Blocks(r, 0, m) /\ given'[r] = m
    BY <2>6
  <2>8. file'[r] = Blocks(r, 0, given[r])'
    BY <2>7 DEF Blocks
  <2>9. captured'[r] > 0
    BY <1>2, <2>3
  <2> QED BY <1>1, <1>2, <1>4, <1>5, <2>1, <2>2, <2>3, <2>6, <2>8, <2>9
<1>9. CASE Finish(r)
  <2>1. at[r] = "finishing"
    BY <1>9 DEF Finish, Move, Dies
  <2>2. native[r] = "ready" /\ captured[r] > 0
    BY <1>1, <2>1
  <2>3. HandleState = "ready" /\ ~Foreign(r)
    BY <1>5, <2>2 DEF HandleState, Foreign
  <2>4. /\ at' = [at EXCEPT ![r] = "freeing"]
        /\ native' = [native EXCEPT ![r] = "finished"]
        /\ Writes(r, captured[r] + 1)
        /\ UNCHANGED <<stopped, captured, outfile, encoderVars, overlapped>>
    BY <1>4, <1>5, <1>9, <2>3 DEF Finish, Move, Dies
  <2>5. /\ fault' = fault
        /\ given' = [given EXCEPT ![r] = captured[r] + 1]
        /\ file' = [file EXCEPT ![r] = Blocks(r, 0, captured[r] + 1)]
    BY <1>2, <1>6, <2>4
  <2>6. file'[r] = Blocks(r, 0, captured[r] + 1) /\ given'[r] = captured[r] + 1
    BY <2>5
  <2>7. file'[r] = Blocks(r, 0, given[r])'
    BY <2>6 DEF Blocks
  <2> QED BY <1>1, <1>2, <1>4, <1>5, <2>1, <2>2, <2>4, <2>5, <2>6, <2>7
<1> QED BY <1>7, <1>8, <1>9

(* A session that starts starts alone, unless that is on record; and every *)
(* other step is made by the session that is going on.                     *)
LEMMA StepsAlone ==
    ASSUME TypeOK, Clean, NEW r \in Sessions, ~overlapped',
           Start(r) \/ Stop(r) \/ Reader(r)
    PROVE  Alone(r)
<1>1. CASE Start(r)
  BY <1>1 DEF Start, Overlaps, Alone
<1>2. CASE ~Start(r)
  <2>1. at[r] \notin Over
    BY <1>2 DEF Stop, Reader, HearFirst, HearMore, MakeLibFlac, OpenHandle, Configure,
       CheckInitialized, Feed, GoOn, SeeStop, CheckRelease, Finish, Free, Forget,
       NotifyEnd, Move, Dies, Over
  <2> QED BY <2>1 DEF Clean, OneAtATime, Active, Alone
<1> QED BY <1>1, <1>2

(* Once sessions have overlapped it stays on record.                       *)
LEMMA OverlapStays == TypeOK /\ overlapped /\ [Next]_vars => overlapped'
BY DEF TypeOK, Next, vars, Start, Overlaps, Stop, Reader, HearFirst, HearMore, MakeLibFlac,
   OpenHandle, Configure, CheckInitialized, Feed, GoOn, SeeStop, CheckRelease, Finish,
   Free, Forget, NotifyEnd, Dies

LEMMA CleanStep == TypeOK /\ Clean /\ ~overlapped' /\ [Next]_vars => Clean'
<1> SUFFICES ASSUME TypeOK, Clean, ~overlapped', [Next]_vars
             PROVE  Clean'
  OBVIOUS
<1>1. ASSUME NEW r \in Sessions, Start(r) \/ Stop(r) \/ Reader(r)
      PROVE  Clean'
  <2>1. Alone(r)
    BY <1>1, StepsAlone
  <2>2. Touches(r) /\ SessionInv(r)'
    BY <1>1, <2>1, OwnStep, OwnWriteStep DEF Reader
  <2> QED BY <2>1, <2>2, OthersKeep
<1>2. CASE UNCHANGED vars
  BY <1>2 DEF Clean, OneAtATime, SessionInv, Active, HasLibFlac, HasReady, HasNothing,
     HasFreed, Recorded, vars, sessionVars, encoderVars, nativeVars
<1> QED BY <1>1, <1>2 DEF Next

(* IInv is inductive: one session at a time has the encoder, and what it   *)
(* has of it is told by the place of its reader.                           *)
THEOREM InductiveInvariant == Spec => []IInv
<1>1. Init => IInv
  <2> SUFFICES ASSUME Init
               PROVE  IInv
    OBVIOUS
  <2>1. TypeOK
    <3>1. \A h \in Sessions : given[h] <= captured[h] + 1
      BY DEF Init
    <3>2. file \in [Sessions -> SUBSET (Sessions \X Nat)]
      BY DEF Init
    <3> QED BY <3>1, <3>2 DEF Init, TypeOK, Places
  <2>2. OneAtATime
    BY DEF Init, OneAtATime, Active, Over
  <2>3. ASSUME NEW r \in Sessions
        PROVE  SessionInv(r)
    <3>1. Blocks(r, 0, 0) = {}
      BY DEF Blocks
    <3> QED BY <3>1, SharedAssumption DEF Init, SessionInv, Active, Over, HasLibFlac, HasReady,
               HasNothing, HasFreed, Recorded
  <2> QED BY <2>1, <2>2, <2>3 DEF IInv, Clean, Init
<1>2. IInv /\ [Next]_vars => IInv'
  BY TypeStep, CleanStep, OverlapStays DEF IInv
<1> QED BY <1>1, <1>2, PTL DEF Spec

-----------------------------------------------------------------------------
(* The theorems                                                            *)

(* Every variable keeps its type, whatever the sessions do to each other.  *)
THEOREM TypeCorrect == Spec => []TypeOK
<1>1. IInv => TypeOK
  BY DEF IInv
<1> QED BY <1>1, InductiveInvariant, PTL

(* For a client that waits for onRecordEnd no use of the shared encoder    *)
(* fails: FlacEncoder's fields are never null after their check, and no    *)
(* handle is used after LibFlac_release freed it.                          *)
THEOREM EncoderNeverFails == Spec => []NeverFails
<1>1. IInv => NeverFails
  BY DEF IInv, NeverFails, Clean
<1> QED BY <1>1, InductiveInvariant, PTL

(* And each session's listener gets its own stream, whole at onRecordEnd.  *)
THEOREM EncoderOwnStream == Spec => []OwnStream
<1>1. IInv => OwnStream
  <2> SUFFICES ASSUME IInv, ~overlapped, NEW r \in Sessions
               PROVE  /\ file[r] \subseteq Blocks(r, 0, captured[r] + 1)
                      /\ at[r] = "over" /\ captured[r] > 0 =>
                            file[r] = Blocks(r, 0, captured[r] + 1)
    BY DEF OwnStream
  <2>1. file[r] = Blocks(r, 0, given[r]) /\ SessionInv(r)
    BY DEF IInv, Clean, SessionInv
  <2>2. given[r] \in Nat /\ captured[r] \in Nat /\ given[r] <= captured[r] + 1
    BY DEF IInv, TypeOK
  <2>3. PICK g \in Nat, k \in Nat : g = given[r] /\ k = captured[r] + 1
    BY <2>2
  <2>4. file[r] \subseteq Blocks(r, 0, captured[r] + 1)
    <3>1. Blocks(r, 0, g) \cup Blocks(r, g, k) = Blocks(r, 0, k)
      BY <2>2, <2>3, BlocksJoin
    <3> QED BY <2>1, <2>3, <3>1
  <2>5. at[r] = "over" /\ captured[r] > 0 => given[r] = captured[r] + 1
    BY <2>1 DEF SessionInv, HasFreed
  <2> QED BY <2>1, <2>4, <2>5
<1> QED BY <1>1, InductiveInvariant, PTL

(* And no native handle outlives the sessions: FlacEncoder.release freed   *)
(* each one that FlacEncoder.initialize made.                              *)
THEOREM EncoderNothingLeaks == Spec => []NothingLeaks
<1>1. IInv => NothingLeaks
  <2> SUFFICES ASSUME IInv, ~overlapped, NEW h \in Sessions, at[h] \in Over
               PROVE  native[h] \in {"none", "freed"}
    BY DEF NothingLeaks
  <2>1. SessionInv(h) /\ captured[h] \in Nat
    BY DEF IInv, Clean, TypeOK
  <2> QED BY <2>1 DEF SessionInv, Over, HasNothing, HasFreed
<1> QED BY <1>1, InductiveInvariant, PTL
=============================================================================
