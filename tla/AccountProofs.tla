----------------------------- MODULE AccountProofs ----------------------------
(***************************************************************************)
(* For any number of requests and logins, and both kinds of servers: what  *)
(* the preferences hold is of use (KeepsSession) and belongs to the last   *)
(* login (AccountSticks).                                                  *)
(***************************************************************************)
EXTENDS Account, TLAPS

(* Types, and that tokens are stored in pairs.                             *)
LEMMA TypeStep == TypeOK /\ [Next]_vars => TypeOK'
<1> SUFFICES ASSUME TypeOK, [Next]_vars
             PROVE  TypeOK'
  OBVIOUS
<1> USE AccountAssumption DEF serverVars, history, Pairs, TypeOK, Places, Preferences
<1>1. ASSUME Die
      PROVE  TypeOK'
  BY <1>1 DEF Die
<1>2. ASSUME NEW r \in Requests, Request(r)
      PROVE  TypeOK'
  <2>1. CASE ReadToken(r)
    BY <2>1 DEF ReadToken, Move
  <2>2. CASE ReadRefresh(r)
    BY <2>2 DEF ReadRefresh, Move
  <2>3. CASE Answered(r)
    BY <2>3 DEF Answered, Move
  <2>4. CASE Unauthorized(r)
    BY <2>4 DEF Unauthorized, Move
  <2>5. CASE RenewGranted(r)
    BY <2>5 DEF RenewGranted, Move, Issues, Used
  <2>6. CASE RenewLost(r)
    BY <2>6 DEF RenewLost, Move, Used
  <2>7. CASE RenewFails(r)
    BY <2>7 DEF RenewFails, Move
  <2>8. CASE Save(r)
    BY <2>8 DEF Save, Move, SaveAccessToken
  <2>9. CASE Resent(r)
    BY <2>9 DEF Resent, Move
  <2> QED BY <1>1, <1>2, <2>1, <2>2, <2>3, <2>4, <2>5, <2>6, <2>7, <2>8, <2>9 DEF Request, Login
<1>3. ASSUME NEW l \in Logins, Submit(l) \/ Leave(l) \/ Login(l)
      PROVE  TypeOK'
  <2>1. CASE Submit(l)
    BY <2>1 DEF Submit, Move
  <2>2. CASE Leave(l)
    BY <2>2 DEF Leave
  <2>3. CASE Exchanged(l)
    BY <2>3 DEF Exchanged, Move, Issues
  <2>4. CASE ExchangeFails(l) /\ ~Die
    BY <2>4 DEF ExchangeFails, Move
  <2>5. CASE SaveLogin(l)
    BY <2>5 DEF SaveLogin, Move, SaveAccessToken, Overtakes
  <2>6. CASE ProfileCame(l) /\ ~Die
    BY <2>6 DEF ProfileCame, Move
  <2>7. CASE ProfileMissing(l) /\ ~Die
    BY <2>7 DEF ProfileMissing, Move
  <2> QED BY <1>1, <1>3, <2>1, <2>2, <2>3, <2>4, <2>5, <2>6, <2>7 DEF Request, Login
<1>4. ASSUME NEW p \in Pairs, Expire(p)
      PROVE  TypeOK'
  BY <1>4 DEF Expire
<1>5. CASE Flush
  BY <1>5 DEF Flush
<1>6. CASE UNCHANGED vars
  BY <1>6 DEF vars
<1> QED BY <1>1, <1>2, <1>3, <1>4, <1>5, <1>6 DEF Next

(* A pair is used by nobody before it is stored, and works until then.     *)
LEMMA PairsStep == TypeOK /\ PairsInv /\ [Next]_vars => PairsInv'
<1> SUFFICES ASSUME TypeOK, PairsInv, [Next]_vars
             PROVE  PairsInv'
  OBVIOUS
<1> USE AccountAssumption DEF serverVars, history, Pairs, TypeOK,
       Preferences, PairsInv, Unknown
<1>1. ASSUME Die
      PROVE  PairsInv'
  BY <1>1 DEF Die
<1>2. ASSUME NEW r \in Requests, Request(r)
      PROVE  PairsInv'
  <2>1. CASE ReadToken(r)
    BY <2>1 DEF ReadToken, Move
  <2>2. CASE ReadRefresh(r)
    BY <2>2 DEF ReadRefresh, Move
  <2>3. CASE Answered(r)
    BY <2>3 DEF Answered, Move
  <2>4. CASE Unauthorized(r)
    BY <2>4 DEF Unauthorized, Move
  <2>5. CASE RenewGranted(r)
    BY <2>5 DEF RenewGranted, Move, Issues, Used
  <2>6. CASE RenewLost(r)
    BY <2>6 DEF RenewLost, Move, Used
  <2>7. CASE RenewFails(r)
    BY <2>7 DEF RenewFails, Move
  <2>8. CASE Save(r)
    BY <2>8 DEF Save, Move, SaveAccessToken
  <2>9. CASE Resent(r)
    BY <2>9 DEF Resent, Move
  <2> QED BY <1>1, <1>2, <2>1, <2>2, <2>3, <2>4, <2>5, <2>6, <2>7, <2>8, <2>9 DEF Request, Login
<1>3. ASSUME NEW l \in Logins, Submit(l) \/ Leave(l) \/ Login(l)
      PROVE  PairsInv'
  <2>1. CASE Submit(l)
    BY <2>1 DEF Submit, Move
  <2>2. CASE Leave(l)
    BY <2>2 DEF Leave
  <2>3. CASE Exchanged(l)
    BY <2>3 DEF Exchanged, Move, Issues
  <2>4. CASE ExchangeFails(l) /\ ~Die
    BY <2>4 DEF ExchangeFails, Move
  <2>5. CASE SaveLogin(l)
    BY <2>5 DEF SaveLogin, Move, SaveAccessToken, Overtakes
  <2>6. CASE ProfileCame(l) /\ ~Die
    BY <2>6 DEF ProfileCame, Move
  <2>7. CASE ProfileMissing(l) /\ ~Die
    BY <2>7 DEF ProfileMissing, Move
  <2> QED BY <1>1, <1>3, <2>1, <2>2, <2>3, <2>4, <2>5, <2>6, <2>7 DEF Request, Login
<1>4. ASSUME NEW p \in Pairs, Expire(p)
      PROVE  PairsInv'
  BY <1>4 DEF Expire
<1>5. CASE Flush
  BY <1>5 DEF Flush
<1>6. CASE UNCHANGED vars
  BY <1>6 DEF vars
<1> QED BY <1>1, <1>2, <1>3, <1>4, <1>5, <1>6 DEF Next

(* Whose the tokens are.                                                   *)
LEMMA OwnerStep == TypeOK /\ PairsInv /\ OwnerInv /\ AccountSticks /\ [Next]_vars => (OwnerInv /\ AccountSticks)'
<1> SUFFICES ASSUME TypeOK, PairsInv, OwnerInv, AccountSticks, [Next]_vars
             PROVE  (OwnerInv /\ AccountSticks)'
  OBVIOUS
<1> USE AccountAssumption DEF serverVars, history, Pairs, TypeOK,
       Preferences, PairsInv, Unknown, OwnerInv, AccountSticks, Renewing
<1>1. ASSUME Die
      PROVE  (OwnerInv /\ AccountSticks)'
  BY <1>1 DEF Die
<1>2. ASSUME NEW r \in Requests, Request(r)
      PROVE  (OwnerInv /\ AccountSticks)'
  <2>1. CASE ReadToken(r)
    BY <2>1 DEF ReadToken, Move
  <2>2. CASE ReadRefresh(r)
    BY <2>2 DEF ReadRefresh, Move
  <2>3. CASE Answered(r)
    BY <2>3 DEF Answered, Move
  <2>4. CASE Unauthorized(r)
    BY <2>4 DEF Unauthorized, Move
  <2>5. CASE RenewGranted(r)
    BY <2>5 DEF RenewGranted, Move, Issues, Used
  <2>6. CASE RenewLost(r)
    BY <2>6 DEF RenewLost, Move, Used
  <2>7. CASE RenewFails(r)
    BY <2>7 DEF RenewFails, Move
  <2>8. CASE Save(r)
    BY <2>8 DEF Save, Move, SaveAccessToken
  <2>9. CASE Resent(r)
    BY <2>9 DEF Resent, Move
  <2> QED BY <1>1, <1>2, <2>1, <2>2, <2>3, <2>4, <2>5, <2>6, <2>7, <2>8, <2>9 DEF Request, Login
<1>3. ASSUME NEW l \in Logins, Submit(l) \/ Leave(l) \/ Login(l)
      PROVE  (OwnerInv /\ AccountSticks)'
  <2>1. CASE Submit(l)
    BY <2>1 DEF Submit, Move
  <2>2. CASE Leave(l)
    BY <2>2 DEF Leave
  <2>3. CASE Exchanged(l)
    BY <2>3 DEF Exchanged, Move, Issues
  <2>4. CASE ExchangeFails(l) /\ ~Die
    BY <2>4 DEF ExchangeFails, Move
  <2>5. CASE SaveLogin(l)
    BY <2>5 DEF SaveLogin, Move, SaveAccessToken, Overtakes
  <2>6. CASE ProfileCame(l) /\ ~Die
    BY <2>6 DEF ProfileCame, Move
  <2>7. CASE ProfileMissing(l) /\ ~Die
    BY <2>7 DEF ProfileMissing, Move
  <2> QED BY <1>1, <1>3, <2>1, <2>2, <2>3, <2>4, <2>5, <2>6, <2>7 DEF Request, Login
<1>4. ASSUME NEW p \in Pairs, Expire(p)
      PROVE  (OwnerInv /\ AccountSticks)'
  BY <1>4 DEF Expire
<1>5. CASE Flush
  BY <1>5 DEF Flush
<1>6. CASE UNCHANGED vars
  BY <1>6 DEF vars
<1> QED BY <1>1, <1>2, <1>3, <1>4, <1>5, <1>6 DEF Next

(* A refresh token that is used up has a successor on its way.             *)
LEMMA SessionStep == TypeOK /\ PairsInv /\ KeepsSession /\ [Next]_vars => KeepsSession'
<1> SUFFICES ASSUME TypeOK, PairsInv, KeepsSession, [Next]_vars
             PROVE  KeepsSession'
  OBVIOUS
<1> USE AccountAssumption DEF serverVars, history, Pairs, TypeOK,
       Preferences, PairsInv, Unknown, KeepsSession
<1>1. ASSUME Die
      PROVE  KeepsSession'
  BY <1>1 DEF Die
<1>2. ASSUME NEW r \in Requests, Request(r)
      PROVE  KeepsSession'
  <2>1. CASE ReadToken(r)
    BY <2>1 DEF ReadToken, Move
  <2>2. CASE ReadRefresh(r)
    BY <2>2 DEF ReadRefresh, Move
  <2>3. CASE Answered(r)
    BY <2>3 DEF Answered, Move
  <2>4. CASE Unauthorized(r)
    BY <2>4 DEF Unauthorized, Move
  <2>5. CASE RenewGranted(r)
    BY <2>5 DEF RenewGranted, Move, Issues, Used
  <2>6. CASE RenewLost(r)
    BY <2>6 DEF RenewLost, Move, Used
  <2>7. CASE RenewFails(r)
    BY <2>7 DEF RenewFails, Move
  <2>8. CASE Save(r)
    BY <2>8 DEF Save, Move, SaveAccessToken
  <2>9. CASE Resent(r)
    BY <2>9 DEF Resent, Move
  <2> QED BY <1>1, <1>2, <2>1, <2>2, <2>3, <2>4, <2>5, <2>6, <2>7, <2>8, <2>9 DEF Request, Login
<1>3. ASSUME NEW l \in Logins, Submit(l) \/ Leave(l) \/ Login(l)
      PROVE  KeepsSession'
  <2>1. CASE Submit(l)
    BY <2>1 DEF Submit, Move
  <2>2. CASE Leave(l)
    BY <2>2 DEF Leave
  <2>3. CASE Exchanged(l)
    BY <2>3 DEF Exchanged, Move, Issues
  <2>4. CASE ExchangeFails(l) /\ ~Die
    BY <2>4 DEF ExchangeFails, Move
  <2>5. CASE SaveLogin(l)
    BY <2>5 DEF SaveLogin, Move, SaveAccessToken, Overtakes
  <2>6. CASE ProfileCame(l) /\ ~Die
    BY <2>6 DEF ProfileCame, Move
  <2>7. CASE ProfileMissing(l) /\ ~Die
    BY <2>7 DEF ProfileMissing, Move
  <2> QED BY <1>1, <1>3, <2>1, <2>2, <2>3, <2>4, <2>5, <2>6, <2>7 DEF Request, Login
<1>4. ASSUME NEW p \in Pairs, Expire(p)
      PROVE  KeepsSession'
  BY <1>4 DEF Expire
<1>5. CASE Flush
  BY <1>5 DEF Flush
<1>6. CASE UNCHANGED vars
  BY <1>6 DEF vars
<1> QED BY <1>1, <1>2, <1>3, <1>4, <1>5, <1>6 DEF Next

(* What the theorems rest on.                                              *)
THEOREM InductiveInvariant == Spec => []IInv
<1>1. Init => IInv
  <2> SUFFICES ASSUME Init
               PROVE  IInv
    OBVIOUS
  <2> USE AccountAssumption DEF Init, Empty, Pairs
  <2>1. prefs \in Preferences /\ prefs.token = prefs.refresh /\ disk = prefs
    BY DEF Preferences
  <2>2. TypeOK
    BY <2>1 DEF TypeOK, Places
  <2>3. PairsInv
    BY DEF PairsInv, Unknown
  <2>4. OwnerInv
    BY DEF OwnerInv, Renewing
  <2>5. KeepsSession /\ AccountSticks
    BY DEF KeepsSession, AccountSticks
  <2> QED BY <2>2, <2>3, <2>4, <2>5 DEF IInv
<1>2. IInv /\ [Next]_vars => IInv'
  BY TypeStep, PairsStep, OwnerStep, SessionStep DEF IInv
<1> QED BY <1>1, <1>2, PTL DEF Spec

(* Every variable keeps its type; a token is stored with its refresh token *)
(* (AndroidAppContext.saveAccessToken).                                    *)
THEOREM TypeCorrect == Spec => []TypeOK
<1>1. IInv => TypeOK
  BY DEF IInv
<1> QED BY <1>1, InductiveInvariant, PTL

(* Concurrent renewals leave a refresh token that works (Interceptor).     *)
THEOREM SessionKept == Spec => []KeepsSession
<1>1. IInv => KeepsSession
  BY DEF IInv
<1> QED BY <1>1, InductiveInvariant, PTL

(* The tokens stay those of the last login (AimMaticLoginFragment), unless *)
(* a renewal was under way when it came.                                   *)
THEOREM AccountKept == Spec => []AccountSticks
<1>1. IInv => AccountSticks
  BY DEF IInv
<1> QED BY <1>1, InductiveInvariant, PTL
=============================================================================
