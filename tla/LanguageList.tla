---------------------------- MODULE LanguageList ----------------------------
(***************************************************************************)
(* The list of languages (Language.java): a static field filled at the     *)
(* first call, from a file if there is one, else with the list built into  *)
(* the code, and then the file is fetched for the next start of the app.   *)
(* The download goes on beside the callers and ends with the process; the  *)
(* file stays.  Callers are threads of the app.                            *)
(***************************************************************************)
EXTENDS Integers, Sequences, SequencesExt

CONSTANTS
    Threads,        \* the threads that ask for languages
    Wanted,         \* codes that are asked for
    MaxDownloads    \* bound: downloads at a time

VARIABLES
    up,             \* whether the process runs
    supportLang,    \* the static field
    caller,         \* per thread: where it is, what it wants, what it has got
    file,           \* aimmatic-speech-lang.json
    downloads       \* of this process, each with its progress

vars == <<up, supportLang, caller, file, downloads>>

(* Two lines of the built-in list: a plain one, and one of the four whose   *)
(* name has a comma and stands in quotes.  A field is a sequence of the     *)
(* pieces between its commas.                                              *)
BuiltIn ==
    << << <<"English">>, <<"English (India)">>, <<"en-IN">>, <<"en">> >>,
       << <<"Putonghua">>, <<"Chinese", "Mandarin">>, <<"cmn-Hans-HK">>, <<"zh">> >> >>

(* The code splits a line at every comma and takes the columns 0 to 3.      *)
NewLanguage(column) ==
    [displayLanguage |-> column[1], langEn |-> column[2],
     bcp47Code |-> column[3], langCode |-> column[4]]

Defaults == [i \in DOMAIN BuiltIn |-> NewLanguage(FlattenSeq(BuiltIn[i]))]

(* The server sends the same languages.                                    *)
Served ==
    <<NewLanguage(<<"English", "English (India)", "en-IN", "en">>),
      NewLanguage(<<"Putonghua", "Chinese, Mandarin", "cmn-Hans-HK", "zh">>)>>

Listing(is) == [is |-> is, rows |-> CASE is = "default" -> Defaults
                                      [] is = "served" -> Served
                                      [] OTHER -> <<>>]
Null == Listing("null")
Blank == Listing("blank")       \* the array before it is filled
Complete == {Listing("default"), Listing("served")}

(* The first row with the code, as BCP-47 or as short code.                *)
Find(list, code) ==
    LET i == SelectInSeq(list.rows,
                         LAMBDA row : row.bcp47Code = code \/ row.langCode = code)
    IN  IF i = 0 THEN <<>> ELSE <<list.rows[i]>>

Quiet == [at |-> "idle", wants |-> "none", list |-> Listing("default"), found |-> <<>>]

Init ==
    /\ up = TRUE
    /\ supportLang = Null
    /\ caller = [t \in Threads |-> Quiet]
    /\ file \in {"absent", "empty", "null", "list", "cut"}
    /\ downloads = <<>>

-----------------------------------------------------------------------------
(* Callers.  Every use of the field reads it anew.                         *)
At(t, place) == up /\ caller[t].at = place

Goes(t, place) == caller' = [caller EXCEPT ![t].at = place]

Returns(t, list) ==
    caller' = [caller EXCEPT ![t] =
        [at |-> "idle", wants |-> @.wants, list |-> list, found |-> Find(list, @.wants)]]

(* getLanguage(context, code) and, deprecated, getLanguage(code).          *)
Ask(t) ==
    /\ At(t, "idle")
    /\ \E code \in Wanted, place \in {"look", "look only"} :
           caller' = [caller EXCEPT ![t].at = place, ![t].wants = code]
    /\ UNCHANGED <<up, supportLang, file, downloads>>

Look(t) ==
    /\ At(t, "look")
    /\ Goes(t, IF supportLang # Null THEN "return"
               ELSE IF file = "absent" THEN "load" ELSE "read")
    /\ UNCHANGED <<up, supportLang, file, downloads>>

LookOnly(t) ==
    /\ At(t, "look only")
    /\ Goes(t, IF supportLang # Null THEN "return" ELSE "default")
    /\ UNCHANGED <<up, supportLang, file, downloads>>

(* Gson makes null of an empty text and of "null"; what is cut off in the  *)
(* middle raises an exception, which is ignored.                           *)
Parsed == IF file = "list" THEN Listing("served") ELSE Null

ReadFile(t) ==
    /\ At(t, "read")
    /\ IF file = "cut"
       THEN Goes(t, "default") /\ UNCHANGED supportLang
       ELSE supportLang' = Parsed /\ Goes(t, "check")
    /\ UNCHANGED <<up, file, downloads>>

CheckRead(t) ==
    /\ At(t, "check")
    /\ Goes(t, IF supportLang # Null THEN "return" ELSE "load")
    /\ UNCHANGED <<up, supportLang, file, downloads>>

(* loadLanguage: the request is queued.                                    *)
Load(t) ==
    /\ At(t, "load") /\ Len(downloads) < MaxDownloads
    /\ downloads' = Append(downloads, "asked")
    /\ Goes(t, "default")
    /\ UNCHANGED <<up, supportLang, file>>

(* initialDefaultLanguages: the array is stored, then filled.              *)
MakeDefault(t) ==
    /\ At(t, "default")
    /\ supportLang' = Blank
    /\ Goes(t, "fill")
    /\ UNCHANGED <<up, file, downloads>>

FillDefault(t) ==
    /\ At(t, "fill")
    /\ supportLang' = Listing("default")
    /\ Goes(t, "return")
    /\ UNCHANGED <<up, file, downloads>>

Return(t) ==
    /\ At(t, "return")
    /\ Returns(t, supportLang)
    /\ UNCHANGED <<up, supportLang, file, downloads>>

-----------------------------------------------------------------------------
(* Downloads, on threads of the HTTP client.                               *)
Died ==
    /\ up' = FALSE
    /\ supportLang' = Null
    /\ caller' = [t \in Threads |-> Quiet]
    /\ downloads' = <<>>

Progress(i, place) ==
    /\ downloads' = [downloads EXCEPT ![i] = place]
    /\ UNCHANGED <<up, supportLang, caller>>

Running(i, place) == up /\ downloads[i] = place

(* No answer, or one with another code.                                    *)
RequestFails(i) ==
    /\ Running(i, "asked")
    /\ Progress(i, "over")
    /\ UNCHANGED file

(* The file is opened, which empties it; then the list is taken out of the *)
(* answer, and an answer that has none is stored as "null".                *)
OpenFile(i) ==
    /\ Running(i, "asked")
    /\ \E body \in {"list", "null"} : Progress(i, body)
    /\ file' = "empty"

(* An answer that is not JSON ends the process by an exception before the   *)
(* file is opened, an empty one after it.                                  *)
BadAnswer(i) ==
    /\ Running(i, "asked")
    /\ file' \in {file, "empty"}
    /\ Died

WriteFile(i) ==
    /\ \E body \in {"list", "null"} : Running(i, body) /\ file' = body
    /\ Progress(i, "over")

(* The storage is full: the HTTP client logs the exception.                *)
WriteFails(i) ==
    /\ Running(i, "list") \/ Running(i, "null")
    /\ file' \in {"empty", "cut"}
    /\ Progress(i, "over")

(* Android, the user or a crash ends the process, also in a write.         *)
Kill ==
    /\ up
    /\ \/ UNCHANGED file
       \/ /\ \E i \in DOMAIN downloads : Running(i, "list") \/ Running(i, "null")
          /\ file' = "cut"
    /\ Died

Start ==
    /\ ~up
    /\ up' = TRUE
    /\ UNCHANGED <<supportLang, caller, file, downloads>>

Call(t) ==
    \/ Look(t) \/ LookOnly(t) \/ ReadFile(t) \/ CheckRead(t)
    \/ Load(t) \/ MakeDefault(t) \/ FillDefault(t) \/ Return(t)

Next ==
    \/ \E t \in Threads : Ask(t) \/ Call(t)
    \/ \E i \in DOMAIN downloads :
           \/ RequestFails(i) \/ OpenFile(i) \/ BadAnswer(i)
           \/ WriteFile(i) \/ WriteFails(i)
    \/ Kill \/ Start

Spec == Init /\ [][Next]_vars

-----------------------------------------------------------------------------
(* What a client may assume of the world: the app is started again and     *)
(* again; some of its processes begin with a call that has a context, some *)
(* of those get through, some downloads are answered and some answers      *)
(* stored before the process ends.  Each may fail any number of times.     *)
BeginsWithContext == \E t \in Threads : Ask(t) /\ supportLang = Null /\ caller'[t].at = "look"
Answered == \E i \in DOMAIN downloads : OpenFile(i) /\ downloads'[i] = "list"
Stored == \E i \in DOMAIN downloads : Running(i, "list") /\ WriteFile(i)

FairSpec ==
    /\ Spec
    /\ WF_vars(Start) /\ SF_vars(Kill) /\ SF_vars(BeginsWithContext)
    /\ \A t \in Threads :
           /\ SF_vars(supportLang = Null /\ Look(t)) /\ SF_vars(ReadFile(t))
           /\ SF_vars(CheckRead(t)) /\ SF_vars(Load(t))
    /\ SF_vars(Answered) /\ SF_vars(Stored)

-----------------------------------------------------------------------------
(* Whatever the file holds and wherever an earlier process ended, a call   *)
(* returns a complete list, never null and never one that is being filled  *)
(* (getAllSupportedLanguage; getLanguage goes through the list unchecked). *)
ListUsable == \A t \in Threads : caller[t].at = "idle" => caller[t].list \in Complete

(* A list that was stored is not put at risk any more: no later start, and *)
(* no second download, opens the file for writing (loadLanguage).          *)
StoredStays == [][file = "list" => file' = "list"]_vars

(* A file that was left empty, or holds null, is fetched anew until there  *)
(* is a list; but for a file that was cut off in the middle, which         *)
(* getAllSupportedLanguage meets with an exception and leaves as it is.    *)
StoredInTheEnd == <>[](file \in {"list", "cut"})

(* The same without the exception: it is what one would like to have.      *)
CutIsRepaired == <>[](file = "list")

(* "@return BCP-47 code to use in voice api": a language that was found by *)
(* its BCP-47 code carries that code (getLanguage, getBcp47Code).          *)
CarriesItsCode ==
    \A t \in Threads : LET c == caller[t] IN
        (c.found # <<>> /\ \E i \in DOMAIN Served : Served[i].bcp47Code = c.wants)
            => c.found[1].bcp47Code = c.wants
=============================================================================
