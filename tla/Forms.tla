-------------------------------- MODULE Forms --------------------------------
(***************************************************************************)
(* The forms and dialogs of the web pages: what they send, what an answer  *)
(* does to them, and what the dashboard then shows of the user.  Each form *)
(* is a row of the tables below; what is typed is a version, counted up.   *)
(***************************************************************************)
EXTENDS NoValue, FaultBudget, FiniteSets

CONSTANTS Targets,   \* the packages, or the fields of a profile, a form is opened for
          MaxVersions    \* bound: what is typed

VARIABLES form,     \* the form followed
          openFor,     \* what it is open for, None when closed
          draft,    \* the version typed, None for an empty form
          stage,    \* "idle", "pending" or "success": the button is disabled unless idle
          version,  \* versions typed
          requests, \* requests without an answer yet
          held,   \* what the API holds of each target
          store,    \* what auth.store.ts holds of it
          accepted, \* history: versions accepted, with how often
          excused   \* history: an answer was lost, or two answers for one field came in the other order

dialogVars == <<openFor, draft, stage, version>>
formVars == <<form, dialogVars, requests, held, store, accepted, excused, faults>>

-----------------------------------------------------------------------------
(* The forms                                                               *)

\* Windows, the editor of a word in its row and those of the profile.
Dialog == {"package modal", "package deletion", "avatar", "word row", "delete all words", "profile"}

\* Forms that stay on their page.
OnPage == {"row deletion", "words", "import", "feedback", "login", "register", "forgot password", "reset password"}

Kinds == Dialog \cup OnPage

\* What the dashboard shows of the user changes with these.
Profile == {"profile", "avatar"}

-----------------------------------------------------------------------------

FormInit ==
    /\ form \in Kinds
    /\ openFor \in IF form \in Dialog THEN {None} ELSE Targets
    /\ draft = None
    /\ stage = "idle"
    /\ version = 0
    /\ requests = {}
    /\ held = [t \in Targets |-> 0]
    /\ store = held
    /\ accepted = [v \in 1..MaxVersions |-> 0]
    /\ excused = FALSE
    /\ faults = 0

Elsewhere == <<form, requests, held, store, accepted, excused, faults>>

\* A dialog opens with what its target holds.
OpenDialog ==
    /\ form \in Dialog /\ openFor = None
    /\ openFor' \in Targets
    /\ draft' = None
    /\ UNCHANGED <<stage, version, Elsewhere>>

\* Cancel, Escape or a click outside, while a request is pending too.
CloseDialog ==
    /\ form \in Dialog /\ openFor # None
    /\ openFor' = None /\ draft' = None
    /\ UNCHANGED <<stage, version, Elsewhere>>

\* Nothing locks the fields while a request is pending.  Choosing what to delete
\* counts as typing.
Type ==
    /\ openFor # None
    /\ version < MaxVersions
    /\ version' = version + 1 /\ draft' = version'
    /\ UNCHANGED <<openFor, stage, Elsewhere>>

\* An empty form is refused before it is sent.
Submittable == draft # None /\ stage = "idle"

Submit ==
    /\ openFor # None /\ Submittable
    /\ requests' = requests \cup
           {[target |-> openFor, version |-> draft, at |-> "sent", seen |-> store]}
    /\ IF form = "profile" THEN openFor' = None /\ draft' = None /\ UNCHANGED stage
       ELSE stage' = "pending" /\ UNCHANGED <<openFor, draft>>
    /\ UNCHANGED <<form, version, held, store, accepted, excused, faults>>

-----------------------------------------------------------------------------
(* The API                                                                 *)

Moved(r, at) == requests' = (requests \ {r}) \cup {[r EXCEPT !.at = at]}

\* A name is registered once.
Refuses(r) == form = "register" /\ \E v \in DOMAIN accepted : accepted[v] > 0

Accept(r) ==
    /\ r.at = "sent" /\ ~Refuses(r)
    /\ Moved(r, "accepted")
    /\ held' = [held EXCEPT ![r.target] = r.version]
    /\ accepted' = [accepted EXCEPT ![r.version] = @ + 1]
    /\ UNCHANGED <<form, dialogVars, store, excused, faults>>

Refuse(r) ==
    /\ r.at = "sent"
    /\ Moved(r, "refused")
    /\ UNCHANGED <<form, dialogVars, held, store, accepted, excused, faults>>

-----------------------------------------------------------------------------
(* The answers                                                             *)

\* Variant: the user as it was when the save was sent.
UpdateUserSeen(r) == [r.seen EXCEPT ![r.target] = r.version]

\* updateUser(): read when the save completes.
UpdateUser(r) == [store EXCEPT ![r.target] = r.version]

\* An answer that comes before the one of an earlier save of the same field.
OutOfOrder(r) == \E q \in requests \ {r} : /\ q.target = r.target /\ q.at = "accepted"
                                          /\ held[q.target] # q.version

Closes == openFor' = None /\ draft' = None /\ stage' = "idle"
Clears == draft' = None /\ stage' = "idle" /\ UNCHANGED openFor
Stays == stage' = "idle" /\ UNCHANGED <<openFor, draft>>

\* The answer closes the window, whatever it is open for by now.
PackageSaved == form = "package modal" /\ Closes
PackageDeleted == form = "package deletion" /\ Closes
AvatarSaved == form = "avatar" /\ Closes
WordSaved == form = "word row" /\ Closes
WordsDeleted == form = "delete all words" /\ stage' = "success" /\ UNCHANGED <<openFor, draft>>

\* What was typed is cleared, with what was typed since it was sent.
WordsAdded == form = "words" /\ Clears
FileImported == form = "import" /\ Clears
FeedbackSent == form = "feedback" /\ Clears

\* Another page, or the confirmation, takes the place of the form.
RowDeleted == form = "row deletion" /\ Closes
LoggedIn == form = "login" /\ Closes
LinkRequested == form = "forgot password" /\ Closes
PasswordReset == form = "reset password" /\ Closes

\* The page keeps what was typed; the field was closed when it was sent.
Registered == form = "register" /\ Stays
FieldSaved == form = "profile" /\ Stays

Done == PackageSaved \/ PackageDeleted \/ AvatarSaved \/ WordSaved \/ WordsDeleted \/ WordsAdded
        \/ FileImported \/ FeedbackSent \/ RowDeleted \/ LoggedIn \/ LinkRequested \/ PasswordReset
        \/ Registered \/ FieldSaved

Succeeds(r) ==
    /\ r.at = "accepted"
    /\ requests' = requests \ {r}
    /\ Done
    /\ store' = IF form \in Profile THEN UpdateUser(r) ELSE store
    /\ excused' = (excused \/ OutOfOrder(r))
    /\ UNCHANGED <<form, version, held, accepted, faults>>

\* The words are deleted: 1.5 s later the window closes.
DeleteAllDone ==
    /\ stage = "success"
    /\ openFor' = None /\ draft' = None /\ stage' = "idle"
    /\ UNCHANGED <<version, Elsewhere>>

\* A refusal is told; the form stays as it is.
Fails(r) ==
    /\ r.at = "refused"
    /\ requests' = requests \ {r}
    /\ stage' = "idle"
    /\ UNCHANGED <<form, openFor, draft, version, held, store, accepted, excused, faults>>

\* No answer: the form takes it for a refusal.
FormAnswerLost(r) ==
    /\ requests' = requests \ {r}
    /\ stage' = "idle"
    /\ excused' = TRUE
    /\ Fault
    /\ UNCHANGED <<form, openFor, draft, version, held, store, accepted>>

FormNext ==
    \/ OpenDialog \/ CloseDialog \/ Type \/ Submit \/ DeleteAllDone
    \/ \E r \in requests : Accept(r) \/ Refuse(r) \/ Succeeds(r) \/ Fails(r) \/ FormAnswerLost(r)

FormSpec == FormInit /\ [][FormNext]_formVars

-----------------------------------------------------------------------------
(* Properties                                                              *)

\* Two quick saves of a profile do not undo each other: once all are answered,
\* the page shows what the API holds (use-profile-actions.ts:9).
QuickSavesKeep ==
    form \in Profile /\ requests = {} /\ ~excused => store = held
-----------------------------------------------------------------------------
(* The invariant it rests on.                                              *)

FormTypeOK ==
    /\ openFor \in Targets \cup {None}
    /\ version \in Nat /\ draft \in Nat \cup {None}
    /\ requests \subseteq [target : Targets, version : Nat, at : {"sent", "accepted", "refused"},
                           seen : [Targets -> Nat]]
    /\ held \in [Targets -> Nat] /\ store \in [Targets -> Nat]
    /\ excused \in BOOLEAN

AcceptedFor(t) == {r \in requests : r.at = "accepted" /\ r.target = t}

\* What the API holds of a field is on the page, and no older save of it is unanswered,
\* or it is in an answer on its way.
HeldOrOnItsWay(t) ==
    \/ store[t] = held[t] /\ \A r \in AcceptedFor(t) : r.version = held[t]
    \/ \E r \in AcceptedFor(t) : r.version = held[t]

FormInv ==
    /\ FormTypeOK
    /\ form \in Profile /\ ~excused => \A t \in Targets : HeldOrOnItsWay(t)
=============================================================================
