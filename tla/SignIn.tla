------------------------------- MODULE SignIn --------------------------------
(***************************************************************************)
(* Who is signed in on a page: the store of web stores/auth.store.ts, what *)
(* fills it (the restore of a page load, the login form, Google, a refresh *)
(* after a 401), and the cookies that outlive the page.  A session is      *)
(* <<member, n>>, the n-th one opened; an access token is named by its     *)
(* session.  Rotation, and the answers it may lose, are BrowserSession's.  *)
(***************************************************************************)
EXTENDS FaultBudget, NoValue

CONSTANTS Members,   \* the users of this browser
          MaxLogins  \* cap on the sessions that are opened

VARIABLES cookie,    \* the session of the refresh cookie
          hint,      \* the cookie sealvo_signed_in
          saved,     \* the page kept in sessionStorage while at Google
          alive,     \* sessions the API accepts
          expired,   \* sessions of which the last access token has expired
          opened,    \* sessions opened so far
          moved,     \* the change of address has been verified
          path,      \* where the browser is
          redirect,  \* ?redirect= of the login page
          failed,    \* ?error= of the login page
          store,     \* useAuthStore
          refresh,   \* refreshPromise: the session it presents, or None twice
          call,      \* the other requests of the page
          restoring, \* restore() of the page load
          signing,   \* the login form
          verifying, \* useVerifyEmail
          cached,    \* whose data the query client holds
          crossed,   \* history: a login met an answer under way, or failed half way
          wanted     \* history: the page the visitor was sent to /login from

jarVars == <<cookie, hint, saved>>
apiVars == <<alive, expired, opened, moved>>
placeVars == <<path, redirect, failed, wanted>>
documentVars == <<store, refresh, call, restoring, signing, verifying, cached>>
signVars == <<jarVars, apiVars, placeVars, documentVars, crossed, faults>>

Sessions == Members \X (0..MaxLogins)

ASSUME SignAssumption == MaxLogins \in Nat /\ None \notin Members /\ None \notin Sessions

Owner(s) == s[1]
WebCalls == {"restore", "login", "query", "logout", "show"}
Guarded == {"dashboard", "asked"}

Nobody == [user |-> None, new |-> FALSE, session |-> None,
           isAuthenticated |-> FALSE, isReady |-> FALSE]
NoCall == [at |-> "idle", as |-> None, stale |-> FALSE, new |-> FALSE]
NoRefresh == [under |-> FALSE, presents |-> None]

\* A document that has just loaded restores its session.
Loaded(presented) ==
    /\ store' = Nobody
    /\ call' = [c \in WebCalls |-> NoCall]
    /\ refresh' = [under |-> TRUE, presents |-> presented]
    /\ restoring' = "refresh"
    /\ signing' = [at |-> "idle", user |-> None]
    /\ verifying' = IF path' = "verify" THEN "posting" ELSE "none"
    /\ cached' = None

\* The member who is signed in, or was, opens the site: a guarded page, or the
\* link of the email that confirms a change of address.
SignInit ==
    \E u \in Members :
      /\ cookie = <<u, 0>>
      /\ hint = TRUE
      /\ saved = None
      /\ alive \in {{}, {<<u, 0>>}}
      /\ expired = {}
      /\ opened = 0
      /\ moved = FALSE
      /\ path \in {"asked", "verify"}
      /\ redirect = None /\ failed = FALSE /\ wanted = None
      /\ store = Nobody
      /\ refresh = [under |-> TRUE, presents |-> cookie]
      /\ call = [c \in WebCalls |-> NoCall]
      /\ restoring = "refresh"
      /\ signing = [at |-> "idle", user |-> None]
      /\ verifying = IF path = "verify" THEN "posting" ELSE "none"
      /\ cached = None
      /\ crossed = FALSE
      /\ faults = 0

-----------------------------------------------------------------------------
(* The store, and what watches it.                                         *)

\* Another user, or none: every cached answer goes, the ones on their way too.
Shown(s) ==
    /\ store' = s
    /\ cached' = IF s.user = store.user THEN cached ELSE None

LogIn(u, new, s) ==
    /\ hint' = TRUE
    /\ Shown([user |-> u, new |-> new, session |-> s, isAuthenticated |-> TRUE, isReady |-> TRUE])

LogOut(ready) ==
    /\ hint' = FALSE
    /\ Shown([Nobody EXCEPT !.isReady = ready])

Sending(as) == [at |-> "sent", as |-> as, stale |-> as = None \/ as \in expired, new |-> FALSE]

\* renewSession: one refresh for all who wait.
Renewed == IF refresh.under THEN refresh ELSE [under |-> TRUE, presents |-> cookie]

Forgotten(s) == [call EXCEPT !["query"] = IF s.user = store.user THEN @ ELSE NoCall]

-----------------------------------------------------------------------------
(* Requests, and the interceptor of their answers.                         *)

\* The API handles a request with a valid token; what it reads is of now.
Serve(c) ==
    /\ call[c].at \in {"sent", "resent"}
    /\ ~call[c].stale
    /\ call' = [call EXCEPT ![c].at = "answered", ![c].new = moved]
    /\ NoFault
    /\ UNCHANGED <<jarVars, apiVars, placeVars, store, refresh, restoring, signing,
                   verifying, cached, crossed>>

\* 401 on a first attempt.
Unauthorized(c) ==
    /\ call[c].at = "sent"
    /\ call[c].stale
    /\ call' = [call EXCEPT ![c].at = "renewing"]
    /\ refresh' = Renewed
    /\ NoFault
    /\ UNCHANGED <<jarVars, apiVars, placeVars, store, restoring, signing, verifying,
                   cached, crossed>>

\* The callers that wait for the refresh repeat their requests with its token.
Retried(s) ==
    [c \in WebCalls |-> IF call[c].at = "renewing"
                     THEN [at |-> "resent", as |-> s, stale |-> FALSE, new |-> FALSE]
                     ELSE call[c]]

\* ... or fail with their 401: the verified page asks once more, with the token of
\* the store.
GivenUp(session) ==
    [c \in WebCalls |->
        IF call[c].at # "renewing" THEN call[c]
        ELSE IF c = "show" /\ verifying = "showing" THEN Sending(session) ELSE NoCall]

ShowGivenUp ==
    IF call["show"].at # "renewing" THEN verifying
    ELSE IF verifying = "showing" THEN "again" ELSE "gaveUp"

RefreshSucceeds ==
    /\ refresh.under
    /\ refresh.presents \in alive
    /\ LET s == refresh.presents IN
        /\ cookie' = s
        /\ expired' = expired \ {s}
        /\ store' = [store EXCEPT !.session = s]
        /\ call' = IF restoring = "refresh"
                   THEN [Retried(s) EXCEPT !["restore"] = [NoCall EXCEPT !.at = "sent", !.as = s]]
                   ELSE Retried(s)
    /\ refresh' = NoRefresh
    /\ restoring' = IF restoring = "refresh" THEN "me" ELSE restoring
    /\ NoFault
    /\ UNCHANGED <<hint, saved, alive, opened, moved, placeVars, signing, verifying,
                   cached, crossed>>

\* The API refuses the cookie and clears it: logged out, whoever waits.
RefreshRejected ==
    /\ refresh.under
    /\ refresh.presents \notin alive
    /\ cookie' = None
    /\ LogOut(store.isReady \/ restoring = "refresh")
    /\ refresh' = NoRefresh
    /\ restoring' = IF restoring = "refresh" THEN "done" ELSE restoring
    /\ call' = [GivenUp(None) EXCEPT !["query"] = NoCall]
    /\ verifying' = ShowGivenUp
    /\ NoFault
    /\ UNCHANGED <<saved, apiVars, placeVars, signing, crossed>>

\* Mutant of NextTry: an API that cannot answer ends the restore.
NextTryNone == "done"

\* restore() tries again after RETRY_DELAYS_MS.
NextTry == "waiting"

\* After an outage: nothing to restore where the visitor logged in meanwhile.
OutageSeen(waits) ==
    /\ restoring' = CASE ~waits -> restoring
                      [] waits /\ store.isAuthenticated -> "done"
                      [] OTHER -> NextTry
    /\ store' = [store EXCEPT !.isReady = @ \/ (waits /\ store.isAuthenticated)]

\* An outage, a timeout or a 429 logs nobody out.
RefreshUnanswered ==
    /\ refresh.under
    /\ Fault
    /\ OutageSeen(restoring = "refresh")
    /\ refresh' = NoRefresh
    /\ call' = GivenUp(store.session)
    /\ verifying' = ShowGivenUp
    /\ UNCHANGED <<jarVars, apiVars, placeVars, signing, cached, crossed>>

-----------------------------------------------------------------------------
(* AuthInitializer.                                                        *)

\* Mutant of NothingToRestore: the answer of the restore is taken in any case.
NothingToRestoreNever == FALSE

\* Logged in from the login page meanwhile.
NothingToRestore == store.isAuthenticated

Restored ==
    /\ restoring = "me"
    /\ call["restore"].at = "answered"
    /\ IF NothingToRestore
       THEN /\ store' = [store EXCEPT !.isReady = TRUE]
            /\ UNCHANGED <<hint, cached>>
       ELSE LogIn(Owner(call["restore"].as), call["restore"].new, call["restore"].as)
    /\ restoring' = "done"
    /\ call' = [Forgotten(store') EXCEPT !["restore"] = NoCall]
    /\ NoFault
    /\ UNCHANGED <<cookie, saved, apiVars, placeVars, refresh, signing, verifying, crossed>>

RestoreUnanswered ==
    /\ restoring = "me"
    /\ call["restore"].at # "idle"
    /\ Fault
    /\ OutageSeen(TRUE)
    /\ call' = [call EXCEPT !["restore"] = NoCall]
    /\ UNCHANGED <<jarVars, apiVars, placeVars, refresh, signing, verifying, cached, crossed>>

RestoreAgain ==
    /\ restoring = "waiting"
    /\ restoring' = "refresh"
    /\ refresh' = Renewed
    /\ NoFault
    /\ UNCHANGED <<jarVars, apiVars, placeVars, store, call, signing, verifying, cached, crossed>>

-----------------------------------------------------------------------------
(* useLogin, useLogout and Google.                                         *)

Recalled == failed /\ redirect = None /\ saved # None

SubmitLogin ==
    /\ path = "login"
    /\ ~store.isAuthenticated
    /\ signing.at = "idle"
    /\ opened < MaxLogins
    /\ \E u \in Members : signing' = [at |-> "posting", user |-> u]
    /\ NoFault
    /\ UNCHANGED <<jarVars, apiVars, placeVars, store, refresh, call, restoring,
                   verifying, cached, crossed>>

LoginRefused ==
    /\ signing.at = "posting"
    /\ signing' = [at |-> "idle", user |-> None]
    /\ NoFault
    /\ UNCHANGED <<jarVars, apiVars, placeVars, store, refresh, call, restoring,
                   verifying, cached, crossed>>

\* A session of u, in the cookie.
OpenSession(u) ==
    LET s == <<u, opened + 1>> IN
    /\ opened' = opened + 1
    /\ alive' = alive \cup {s}
    /\ cookie' = s

\* The answer brings the cookie; /auth/me is asked with its token.
LoginAccepted ==
    /\ signing.at = "posting"
    /\ opened < MaxLogins
    /\ OpenSession(signing.user)
    /\ signing' = [signing EXCEPT !.at = "me"]
    /\ call' = [call EXCEPT !["login"] = [NoCall EXCEPT !.at = "sent", !.as = cookie']]
    /\ crossed' = (crossed \/ refresh.under \/ call["show"] # NoCall)
    /\ NoFault
    /\ UNCHANGED <<hint, saved, expired, moved, placeVars, store, refresh, restoring,
                   verifying, cached>>

LoggedIn ==
    /\ signing.at = "me"
    /\ call["login"].at = "answered"
    /\ LogIn(signing.user, call["login"].new, call["login"].as)
    /\ signing' = [at |-> "idle", user |-> None]
    /\ call' = [Forgotten(store') EXCEPT !["login"] = NoCall]
    /\ NoFault
    /\ UNCHANGED <<cookie, saved, apiVars, placeVars, refresh, restoring, verifying, crossed>>

\* The cookie stays, of a session the page does not show.
LoginFails ==
    /\ signing.at = "me"
    /\ Fault
    /\ signing' = [at |-> "idle", user |-> None]
    /\ call' = [call EXCEPT !["login"] = NoCall]
    /\ crossed' = (crossed \/ store.isAuthenticated \/ restoring = "me")
    /\ UNCHANGED <<jarVars, apiVars, placeVars, store, refresh, restoring, verifying, cached>>

ClickLogout ==
    /\ store.isReady /\ store.isAuthenticated /\ store.user # None
    /\ call["logout"] = NoCall
    /\ call' = [call EXCEPT !["logout"] = Sending(store.session)]
    /\ NoFault
    /\ UNCHANGED <<jarVars, apiVars, placeVars, store, refresh, restoring, signing,
                   verifying, cached, crossed>>

\* The API revokes the session of the cookie, if it is of the same user, and clears
\* the cookie; the hint goes, and the page loads again.
LoggedOut ==
    /\ call["logout"].at = "answered"
    /\ alive' = IF cookie # None /\ Owner(cookie) = Owner(call["logout"].as)
                THEN alive \ {cookie} ELSE alive
    /\ cookie' = None
    /\ hint' = FALSE
    /\ path' = "home"
    /\ redirect' = None /\ failed' = FALSE /\ wanted' = None
    /\ Loaded(None)
    /\ crossed' = FALSE
    /\ NoFault
    /\ UNCHANGED <<saved, expired, opened, moved>>

\* rememberLoginRedirect, then the document is left; effects run before a click.
ClickGoogle ==
    /\ path = "login"
    /\ ~Recalled
    /\ opened < MaxLogins
    /\ saved' = redirect
    /\ path' = "google"
    /\ store' = Nobody
    /\ refresh' = NoRefresh
    /\ call' = [c \in WebCalls |-> NoCall]
    /\ restoring' = "done"
    /\ signing' = [at |-> "idle", user |-> None]
    /\ verifying' = "none"
    /\ cached' = None
    /\ crossed' = FALSE
    /\ NoFault
    /\ UNCHANGED <<cookie, hint, apiVars, redirect, failed, wanted>>

GoogleSucceeds ==
    /\ path = "google"
    /\ \E u \in Members : OpenSession(u)
    /\ path' = "dashboard"
    /\ redirect' = None /\ failed' = FALSE /\ wanted' = None
    /\ Loaded(cookie')
    /\ NoFault
    /\ UNCHANGED <<hint, saved, expired, moved, crossed>>

\* No code, another state, or an error of Google: /login?error=
GoogleFails ==
    /\ path = "google"
    /\ path' = "login"
    /\ redirect' = None /\ failed' = TRUE
    /\ Loaded(cookie)
    /\ NoFault
    /\ UNCHANGED <<jarVars, apiVars, wanted, crossed>>

-----------------------------------------------------------------------------
(* AuthGuard, the effects of the login page, and the reader's own moves.   *)

Visits(to) ==
    /\ path' = to
    /\ NoFault
    /\ UNCHANGED <<cookie, hint, apiVars, documentVars, crossed>>

RedirectToLogin ==
    /\ path \in Guarded
    /\ store.isReady /\ ~store.isAuthenticated
    /\ Visits("login")
    /\ redirect' = path /\ wanted' = path
    /\ failed' = FALSE
    /\ UNCHANGED saved

\* The page that was asked for is in the query again.
RecallRedirect ==
    /\ path = "login"
    /\ Recalled
    /\ Visits("login")
    /\ redirect' = saved
    /\ saved' = None
    /\ UNCHANGED <<failed, wanted>>

LeaveLogin ==
    /\ path = "login"
    /\ store.isReady /\ store.isAuthenticated
    /\ Visits(IF redirect = None THEN "dashboard" ELSE redirect)
    /\ redirect' = None /\ failed' = FALSE /\ wanted' = None
    /\ UNCHANGED saved

\* A link of the header or of a page.
Follow(to) ==
    /\ path \notin {"google", to}
    /\ Visits(to)
    /\ redirect' = None /\ failed' = FALSE /\ wanted' = None
    /\ UNCHANGED saved

\* The page is loaded again; what was on its way is dropped.
Reload ==
    /\ path # "google"
    /\ Fault
    /\ UNCHANGED <<jarVars, apiVars, placeVars>>
    /\ Loaded(cookie)
    /\ crossed' = FALSE

-----------------------------------------------------------------------------
(* A page with data, and the link that confirms a change of address.       *)

SendQuery ==
    /\ path \in Guarded
    /\ store.isReady /\ store.isAuthenticated
    /\ cached = None
    /\ call["query"] = NoCall
    /\ call' = [call EXCEPT !["query"] = Sending(store.session)]
    /\ NoFault
    /\ UNCHANGED <<jarVars, apiVars, placeVars, store, refresh, restoring, signing,
                   verifying, cached, crossed>>

QueryAnswered ==
    /\ call["query"].at = "answered"
    /\ cached' = Owner(call["query"].as)
    /\ call' = [call EXCEPT !["query"] = NoCall]
    /\ NoFault
    /\ UNCHANGED <<jarVars, apiVars, placeVars, store, refresh, restoring, signing,
                   verifying, crossed>>

Verified(to) ==
    /\ verifying = "posting"
    /\ verifying' = to
    /\ moved' = (moved \/ to = "verified")
    /\ NoFault
    /\ UNCHANGED <<jarVars, alive, expired, opened, placeVars, store, refresh, call,
                   restoring, signing, cached, crossed>>

\* Waits for AuthInitializer, whose own /auth/me may have run before.
MeMayBeAsked == store.isReady /\ store.isAuthenticated

AskUser ==
    /\ path = "verify"
    /\ verifying = "verified"
    /\ MeMayBeAsked
    /\ verifying' = "showing"
    /\ call' = [call EXCEPT !["show"] = Sending(store.session)]
    /\ NoFault
    /\ UNCHANGED <<jarVars, apiVars, placeVars, store, refresh, restoring, signing,
                   cached, crossed>>

SetUser ==
    /\ call["show"].at = "answered"
    /\ Shown([store EXCEPT !.user = Owner(call["show"].as), !.new = call["show"].new])
    /\ verifying' = "shown"
    /\ call' = [Forgotten(store') EXCEPT !["show"] = NoCall]
    /\ NoFault
    /\ UNCHANGED <<jarVars, apiVars, placeVars, refresh, restoring, signing, crossed>>

AskUserFails ==
    /\ call["show"].at # "idle"
    /\ call["show"].at # "renewing"
    /\ Fault
    /\ verifying' = IF verifying = "showing" THEN "again" ELSE "gaveUp"
    /\ call' = [call EXCEPT !["show"] = IF verifying = "showing"
                                       THEN Sending(store.session) ELSE NoCall]
    /\ UNCHANGED <<jarVars, apiVars, placeVars, store, refresh, restoring, signing,
                   cached, crossed>>

-----------------------------------------------------------------------------
(* The API: another device ends a session, an access token expires.        *)

SessionEnds(s) ==
    /\ s \in alive
    /\ Fault
    /\ alive' = alive \ {s}
    /\ UNCHANGED <<jarVars, expired, opened, moved, placeVars, documentVars, crossed>>

TokenExpires ==
    /\ store.session # None
    /\ store.session \notin expired
    /\ Fault
    /\ expired' = expired \cup {store.session}
    /\ UNCHANGED <<jarVars, alive, opened, moved, placeVars, documentVars, crossed>>

Refreshed == RefreshSucceeds \/ RefreshRejected
Answered == Restored \/ LoginRefused \/ LoginAccepted \/ LoggedIn \/ LoggedOut \/ QueryAnswered \/ SetUser

SignNext ==
    \/ Refreshed \/ RefreshUnanswered
    \/ RestoreAgain \/ RestoreUnanswered
    \/ \E c \in WebCalls : Serve(c) \/ Unauthorized(c)
    \/ Answered
    \/ SubmitLogin \/ LoginFails
    \/ ClickLogout
    \/ ClickGoogle \/ GoogleSucceeds \/ GoogleFails
    \/ RedirectToLogin \/ RecallRedirect \/ LeaveLogin
    \/ \E to \in {"asked", "login"} : Follow(to)
    \/ Reload
    \/ SendQuery
    \/ \E to \in {"verified", "refused"} : Verified(to)
    \/ AskUser \/ AskUserFails
    \/ \E s \in Sessions : SessionEnds(s)
    \/ TokenExpires

SignSpec == SignInit /\ [][SignNext]_signVars

-----------------------------------------------------------------------------
\* The user the page shows, its access token and the refresh cookie are of one
\* session, and the hint of the header tells whether there is one, unless a login met
\* a refresh or another user's /auth/me under way, or failed half way: what
\* RefreshSucceeds stores is the token of the cookie it presented (auth-initializer.tsx:26, auth.store.ts:28).  Once the user was
\* asked for again after a verification, what is shown is not what a restore or a login
\* read before it (use-auth.ts:90).
OneSession ==
    /\ store.isReady => hint = store.isAuthenticated
    /\ (store.isAuthenticated /\ signing.at = "idle" /\ ~crossed) =>
         /\ Owner(store.session) = store.user
         /\ cookie \in {store.session, None}
    /\ (verifying = "shown" /\ store.isAuthenticated) => store.new

\* A page that loads ends up ready, whatever the API answers: it is not left on the
\* spinner (auth-initializer.tsx:29-33).
PageSettles == []<>(store.isReady \/ path = "google")
-----------------------------------------------------------------------------
(* The invariant OneSession rests on.                                      *)

MaybeSession == Sessions \cup {None}
MaybeMember == Members \cup {None}
Asked == {"showing", "again", "shown", "gaveUp"}

Stores == [user : MaybeMember, new : BOOLEAN, session : MaybeSession,
           isAuthenticated : BOOLEAN, isReady : BOOLEAN]
Refreshes == [under : BOOLEAN, presents : MaybeSession]
Calls == [at : {"idle", "sent", "renewing", "resent", "answered"}, as : MaybeSession,
          stale : BOOLEAN, new : BOOLEAN]
Logins == [at : {"idle", "posting", "me"}, user : MaybeMember]

SignTypeOK ==
    /\ cookie \in MaybeSession /\ hint \in BOOLEAN /\ saved \in Guarded \cup {None}
    /\ alive \in SUBSET Sessions /\ opened \in 0..MaxLogins /\ moved \in BOOLEAN
    /\ path \in Guarded \cup {"verify", "login", "google", "home"}
    /\ redirect \in Guarded \cup {None}
    /\ store \in Stores
    /\ refresh \in Refreshes
    /\ call \in [WebCalls -> Calls]
    /\ restoring \in {"refresh", "me", "waiting", "done"}
    /\ signing \in Logins
    /\ verifying \in {"none", "posting", "verified", "refused"} \cup Asked
    /\ crossed \in BOOLEAN

\* An answer was read with a token, of the session the request was sent as.
Tokened ==
    \A c \in WebCalls : call[c].at = "answered" => ~call[c].stale
Sent ==
    \A c \in WebCalls : call[c].at # "idle" => call[c].stale \/ call[c].as # None

\* Who is signed in is ready and has the hint; nobody is signed in without a user.
InStore ==
    /\ store.isAuthenticated => store.isReady /\ store.session # None
    /\ store.isReady => hint = store.isAuthenticated

\* A login waits for /auth/me with the session it was given, whose token is new; the address at Google, and
\* the link of an email, are left before one is sent.
OneLogin ==
    /\ signing.at # "idle" => signing.user # None
    /\ ~call["login"].stale /\ call["login"].at # "renewing"
    /\ signing.at # "me" => call["login"].at = "idle"
    /\ signing.at = "me" => call["login"].as # None /\ Owner(call["login"].as) = signing.user
    /\ path \in {"verify", "google"} => signing.at = "idle"
    /\ path = "google" => opened < MaxLogins

\* Unless something crossed, whatever is under way and will be stored is of the cookie.
OfTheCookie ==
    ~crossed =>
      /\ refresh.under => refresh.presents = cookie
      /\ signing.at = "me" => cookie \in {call["login"].as, None}
      /\ (store.isAuthenticated /\ signing.at # "me") =>
           Owner(store.session) = store.user /\ cookie \in {store.session, None}
      /\ (restoring = "me" /\ ~store.isAuthenticated /\ signing.at # "me" /\ call["restore"].at # "idle") =>
           cookie \in {call["restore"].as, None}

\* The user is asked for again once the restore is over and the address has moved.
AskedLast ==
    /\ (path = "verify" /\ store.isAuthenticated) => restoring = "done"
    /\ verifying \in Asked \cup {"verified"} => moved
    /\ call["show"].at # "idle" => verifying \in Asked
    /\ verifying \in Asked =>
         restoring = "done" /\ (call["login"].at = "answered" => call["login"].new)
    /\ call["show"].at = "answered" => call["show"].new
    /\ (call["show"].at # "idle" /\ ~crossed) =>
         /\ signing.at # "me"
         /\ (store.isAuthenticated /\ call["show"].as # None) => Owner(call["show"].as) = store.user
    /\ (verifying = "shown" /\ store.isAuthenticated) => store.new

SignInv == SignTypeOK /\ Tokened /\ Sent /\ InStore /\ OneLogin /\ OfTheCookie /\ AskedLast

=============================================================================
