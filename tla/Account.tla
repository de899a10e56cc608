-------------------------------- MODULE Account -------------------------------
(***************************************************************************)
(* The tokens of the user: requests that renew them on 401                 *)
(* (core/rest/Interceptor.java), the login screen that stores them         *)
(* (ui/AimMaticLoginFragment.java, oauth/AimMatic.java) and the shared     *)
(* preferences they are kept in (core/rest/AndroidAppContext.java), whose  *)
(* apply() writes memory at once and the disk later.                       *)
(*                                                                         *)
(* The account server is external.  An access token and its refresh token  *)
(* are a pair, named by the request or the login that it was issued for.   *)
(* Whether a refresh token can be used twice is the server's choice        *)
(* (Rotating).                                                             *)
(***************************************************************************)

CONSTANTS
    Requests,  \* requests through the OkHttpClient of AndroidAppContext
    Logins,    \* times the login screen gets a code
    Accounts,
    LoginAs,   \* the account that each login enters
    Nobody,    \* null
    Rotating   \* a refresh token is good for one renewal

ASSUME AccountAssumption ==
    /\ Requests \cap Logins = {}
    /\ Nobody \notin Requests \cup Logins
    /\ LoginAs \in [Logins -> Accounts]
    /\ Rotating \in BOOLEAN

Pairs == Requests \cup Logins

VARIABLES
    at,        \* where each request and each login is
    token,     \* the AccessToken object of each request: token ...
    refresh,   \* ... and refresh token
    prefs,     \* shared preferences in memory
    disk,      \* and on disk
    gone,      \* logins whose fragment has been left
    accepted,  \* server: access tokens that have not expired
    live,      \* server: refresh tokens that can be used
    owner,     \* server: account of each pair
    lost,      \* history: a pair was issued and never stored, or not on disk
    overtaken  \* history: a login came while a request was renewing another
               \* account's token

serverVars == <<accepted, live, owner>>
history == <<lost, overtaken>>
vars == <<at, token, refresh, prefs, disk, gone, serverVars, history>>

Empty == [token |-> Nobody, refresh |-> Nobody, profile |-> Nobody, login |-> Nobody]

Init ==
    /\ at = [u \in Pairs |-> "new"]
    /\ token = [r \in Requests |-> Nobody]
    /\ refresh = [r \in Requests |-> Nobody]
    /\ prefs = Empty
    /\ disk = Empty
    /\ gone = {}
    /\ accepted = {}
    /\ live = {}
    /\ owner = [p \in Pairs |-> Nobody]
    /\ lost = FALSE
    /\ overtaken = FALSE

Move(u, from, to) ==
    /\ at[u] = from
    /\ at' = [at EXCEPT ![u] = to]

(* Faulty: the refresh token stays.                                        *)
SaveAccessTokenOnly(p) == [prefs EXCEPT !.token = p]

(* saveAccessToken: both tokens in one edit.                               *)
SaveAccessToken(p) == [prefs EXCEPT !.token = p, !.refresh = p]

(* The server issues pair p for an account.                                *)
Issues(p, account, used) ==
    /\ accepted' = accepted \cup {p}
    /\ live' = (live \ used) \cup {p}
    /\ owner' = [owner EXCEPT ![p] = account]

Used(r) == IF Rotating THEN {refresh[r]} ELSE {}

-----------------------------------------------------------------------------
(* A request (Interceptor.intercept)                                       *)

(* getAccessToken reads the two tokens one after the other; without a      *)
(* token it returns null, and the request goes out with the API key.       *)
ReadToken(r) ==
    /\ Move(r, "new", "reading")
    /\ token' = [token EXCEPT ![r] = prefs.token]
    /\ UNCHANGED <<refresh, prefs, disk, gone, serverVars, history>>

(* Faulty: what is on disk may be of an earlier login.                     *)
ReadStaleRefresh(r) ==
    /\ Move(r, "reading", "sending")
    /\ refresh' = [refresh EXCEPT ![r] = IF token[r] = Nobody THEN Nobody ELSE disk.refresh]
    /\ UNCHANGED <<token, prefs, disk, gone, serverVars, history>>

ReadRefresh(r) ==
    /\ Move(r, "reading", "sending")
    /\ refresh' = [refresh EXCEPT ![r] = IF token[r] = Nobody THEN Nobody ELSE prefs.refresh]
    /\ UNCHANGED <<token, prefs, disk, gone, serverVars, history>>

(* An answer, of whatever status, or an IOException.                       *)
Answered(r) ==
    /\ Move(r, "sending", "over")
    /\ UNCHANGED <<token, refresh, prefs, disk, gone, serverVars, history>>

(* Status 401 to a request with a token.                                   *)
Unauthorized(r) ==
    /\ Move(r, "sending", "renewing")
    /\ token[r] # Nobody /\ token[r] \notin accepted
    /\ UNCHANGED <<token, refresh, prefs, disk, gone, serverVars, history>>

(* renewToken: the server grants it, ...                                   *)
RenewGranted(r) ==
    /\ Move(r, "renewing", "saving")
    /\ refresh[r] \in live
    /\ Issues(r, owner[refresh[r]], Used(r))
    /\ UNCHANGED <<token, refresh, prefs, disk, gone, history>>

(* ... grants it to nobody, because the answer gets lost, ...              *)
RenewLost(r) ==
    /\ Move(r, "renewing", "over")
    /\ refresh[r] \in live
    /\ live' = live \ Used(r)
    /\ lost' = (lost \/ Rotating)
    /\ UNCHANGED <<token, refresh, prefs, disk, gone, accepted, owner, overtaken>>

(* Faulty: the request is tried again instead.                             *)
RetryForever(r) ==
    /\ Move(r, "renewing", "sending")
    /\ UNCHANGED <<token, refresh, prefs, disk, gone, serverVars, history>>

(* ... or refuses: the first response is what the caller gets, or an       *)
(* exception of renewToken.                                                *)
RenewFails(r) ==
    /\ Move(r, "renewing", "over")
    /\ UNCHANGED <<token, refresh, prefs, disk, gone, serverVars, history>>

(* Faulty: the request is sent again, the new tokens are not stored.       *)
SaveForgotten(r) ==
    /\ Move(r, "saving", "resending")
    /\ UNCHANGED <<token, refresh, prefs, disk, gone, serverVars, history>>

Save(r) ==
    /\ Move(r, "saving", "resending")
    /\ prefs' = SaveAccessToken(r)
    /\ UNCHANGED <<token, refresh, disk, gone, serverVars, history>>

(* The second answer is the caller's, 401 or not.  (The second request     *)
(* carries both Authorization headers, the stale one first.)               *)
Resent(r) ==
    /\ Move(r, "resending", "over")
    /\ UNCHANGED <<token, refresh, prefs, disk, gone, serverVars, history>>

-----------------------------------------------------------------------------
(* The process dies, and comes back with what is on disk                   *)

Die ==
    /\ at' = [u \in Pairs |-> IF at[u] = "new" THEN "new" ELSE "over"]
    /\ prefs' = disk
    /\ lost' = (lost \/ prefs.refresh # disk.refresh \/ \E r \in Requests : at[r] = "saving")
    /\ UNCHANGED <<token, refresh, disk, gone, serverVars, overtaken>>

Flush ==
    /\ disk' = prefs
    /\ UNCHANGED <<at, token, refresh, prefs, gone, serverVars, history>>

-----------------------------------------------------------------------------
(* A login                                                                 *)

(* WebInterface.code asks for the tokens; one screen at a time.            *)
Submit(l) ==
    /\ Move(l, "new", "exchanging")
    /\ \A m \in Logins : at[m] \in {"new", "over"}
    /\ UNCHANGED <<token, refresh, prefs, disk, gone, serverVars, history>>

(* The user leaves the screen; its requests go on.                         *)
Leave(l) ==
    /\ at[l] \notin {"new", "over"}
    /\ gone' = gone \cup {l}
    /\ UNCHANGED <<at, token, refresh, prefs, disk, serverVars, history>>

Exchanged(l) ==
    /\ Move(l, "exchanging", "received")
    /\ Issues(l, LoginAs[l], {})
    /\ UNCHANGED <<token, refresh, prefs, disk, gone, history>>

(* onError, of a request that failed, of an answer that is not JSON, or    *)
(* after onSuccess(null) has thrown.  Without its view it throws itself,   *)
(* on a thread of OkHttp that does not catch it.                           *)
ExchangeFails(l) ==
    /\ at[l] = "exchanging"
    /\ \/ /\ l \in gone
          /\ Die
       \/ /\ l \notin gone
          /\ Move(l, "exchanging", "over")
          /\ UNCHANGED <<token, refresh, prefs, disk, gone, serverVars, history>>

(* Some request is going to store a token of another account than a.       *)
Renewing(r) == at[r] \in {"sending", "renewing", "saving"} /\ refresh[r] # Nobody

Overtakes(a) == \E r \in Requests : Renewing(r) /\ owner[refresh[r]] # a

(* onSuccess of fetchToken stores the tokens and asks for the profile.     *)
(* The field login is not in the preferences; it remembers whose they are. *)
SaveLogin(l) ==
    /\ Move(l, "received", "profiling")
    /\ prefs' = [SaveAccessToken(l) EXCEPT !.login = l]
    /\ overtaken' = (overtaken \/ Overtakes(LoginAs[l]))
    /\ UNCHANGED <<token, refresh, disk, gone, serverVars, lost>>

(* onSuccess of fetchUserProfile needs its activity before it stores the   *)
(* profile; onError, called next, needs it again.                          *)
ProfileCame(l) ==
    /\ at[l] = "profiling"
    /\ \/ /\ l \in gone
          /\ Die
       \/ /\ l \notin gone
          /\ Move(l, "profiling", "over")
          /\ prefs' = [prefs EXCEPT !.profile = LoginAs[l]]
          /\ UNCHANGED <<token, refresh, disk, gone, serverVars, history>>

(* Faulty: the screen stays.                                               *)
ScreenStays(l) ==
    /\ Move(l, "profiling", "waiting")
    /\ UNCHANGED <<token, refresh, prefs, disk, gone, serverVars, history>>

(* onError, or a null profile: the login has succeeded without it, and the *)
(* profile in the preferences stays what it was.                           *)
ProfileMissing(l) ==
    /\ at[l] = "profiling"
    /\ \/ /\ l \in gone
          /\ Die
       \/ /\ l \notin gone
          /\ Move(l, "profiling", "over")
          /\ UNCHANGED <<token, refresh, prefs, disk, gone, serverVars, history>>

-----------------------------------------------------------------------------

Expire(p) ==
    /\ p \in accepted
    /\ accepted' = accepted \ {p}
    /\ UNCHANGED <<at, token, refresh, prefs, disk, gone, live, owner, history>>

Request(r) ==
    \/ ReadToken(r) \/ ReadRefresh(r)
    \/ Answered(r) \/ Unauthorized(r)
    \/ RenewGranted(r) \/ RenewLost(r) \/ RenewFails(r)
    \/ Save(r) \/ Resent(r)

Login(l) ==
    \/ Exchanged(l) \/ ExchangeFails(l) \/ SaveLogin(l)
    \/ ProfileCame(l) \/ ProfileMissing(l)

Next ==
    \/ \E r \in Requests : Request(r)
    \/ \E l \in Logins : Submit(l) \/ Leave(l) \/ Login(l)
    \/ \E p \in Pairs : Expire(p)
    \/ Flush
    \/ Die

Spec == Init /\ [][Next]_vars

(* Every call has a timeout (OkHttp's 10 seconds, or the 20 of             *)
(* AndroidAppContext), so that each one is answered or fails.              *)
FairSpec ==
    /\ Spec
    /\ \A r \in Requests : WF_vars(Request(r) /\ at[r] # "new")
    /\ \A l \in Logins : WF_vars(Login(l))

-----------------------------------------------------------------------------
(* Properties                                                              *)

Places == {"new", "reading", "sending", "renewing", "saving", "resending", "over",
           "exchanging", "received", "profiling"}

Preferences == [token : Pairs \cup {Nobody}, refresh : Pairs \cup {Nobody},
                profile : Accounts \cup {Nobody}, login : Logins \cup {Nobody}]

(* Every variable has its type, and tokens are stored in pairs.            *)
TypeOK ==
    /\ at \in [Pairs -> Places]
    /\ token \in [Requests -> Pairs \cup {Nobody}]
    /\ refresh \in [Requests -> Pairs \cup {Nobody}]
    /\ prefs \in Preferences /\ prefs.token = prefs.refresh
    /\ disk \in Preferences /\ disk.token = disk.refresh
    /\ gone \subseteq Logins
    /\ accepted \subseteq Pairs
    /\ live \subseteq Pairs
    /\ owner \in [Pairs -> Accounts \cup {Nobody}]
    /\ lost \in BOOLEAN /\ overtaken \in BOOLEAN

(* Whatever requests renew at the same time, the refresh token that stays  *)
(* in the preferences can be used, even if the server accepts each one     *)
(* only once: the user stays logged in (Interceptor.java:57-64), unless    *)
(* a pair was lost on its way to the disk.                                 *)
KeepsSession ==
    ~lost /\ prefs.refresh # Nobody /\ (\A r \in Requests : at[r] # "saving") =>
        prefs.refresh \in live

(* The tokens are those of the account that logged in last, although late  *)
(* requests store tokens too, as long as none was renewing the token of    *)
(* another account while the login came (AimMaticLoginFragment.java:99).   *)
AccountSticks ==
    ~overtaken /\ prefs.token # Nobody =>
        /\ prefs.login # Nobody
        /\ owner[prefs.token] = LoginAs[prefs.login]

(* A request gets an answer, after one renewal at most (Interceptor).      *)
RequestEnds == \A r \in Requests : at[r] = "sending" ~> at[r] = "over"

(* The login screen closes or tells of its failure, whatever the servers   *)
(* answer (AimMaticLoginFragment.java:90-119).                             *)
LoginEnds == \A l \in Logins : at[l] = "exchanging" ~> at[l] = "over"

-----------------------------------------------------------------------------
(* The inductive invariant                                                 *)

(* A pair is unknown to everybody until it is stored.                      *)
Unknown(p) ==
    /\ prefs.refresh # p /\ disk.refresh # p
    /\ \A r \in Requests : refresh[r] # p

PairsInv ==
    /\ \A r \in Requests : at[r] \in {"new", "reading", "sending", "renewing", "saving"} => Unknown(r)
    /\ \A l \in Logins : at[l] \in {"new", "exchanging", "received"} => Unknown(l)
    /\ \A r \in Requests : at[r] = "saving" => r \in live
    /\ \A l \in Logins : at[l] = "received" => l \in live

OwnerInv ==
    /\ \A r \in Requests : at[r] = "saving" =>
          refresh[r] # Nobody /\ owner[r] = owner[refresh[r]]
    /\ \A l \in Logins : at[l] = "received" => owner[l] = LoginAs[l]
    /\ ~overtaken => \A r \in Requests : Renewing(r) =>
          prefs.login # Nobody /\ owner[refresh[r]] = LoginAs[prefs.login]
    /\ ~overtaken /\ disk.token # Nobody =>
          disk.login # Nobody /\ owner[disk.token] = LoginAs[disk.login]

IInv == TypeOK /\ PairsInv /\ OwnerInv /\ KeepsSession /\ AccountSticks
=============================================================================
