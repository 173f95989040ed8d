--------------------------- MODULE BrowserSession ---------------------------
(***************************************************************************)
(* A browser whose tabs share the refresh cookie of one session            *)
(* (web lib/api.ts): each tab has at most one refresh in progress, and     *)
(* tabs refresh one at a time where the browser has Web Locks.             *)
(***************************************************************************)
EXTENDS RefreshSession, NoValue

CONSTANTS Tabs,       \* tabs of the browser
          WebLocks    \* 'locks' in navigator

ASSUME BrowserAssumption ==
    /\ WebLocks \in BOOLEAN
    /\ None \notin Tabs \cup Requests

VARIABLES jar,     \* the token of the refresh cookie
          tab,     \* step of each tab
          awaits,  \* the request whose answer it awaits
          lock     \* the tab that holds the lock 'sealvo-refresh'

browserVars == <<jar, tab, awaits, lock>>
vars == <<sessionVars, requestVars, historyVars, browserVars, faults>>

TabSteps == {"idle", "waiting", "refreshing", "leaving", "left", "out"}

Init ==
    /\ SessionInit
    /\ jar = 1
    /\ tab = [t \in Tabs |-> "idle"]
    /\ awaits = [t \in Tabs |-> None]
    /\ lock = None
    /\ faults = 0

TypeOK ==
    /\ SessionTypeOK
    /\ jar \in Tokens \cup {NoToken}
    /\ tab \in [Tabs -> TabSteps]
    /\ awaits \in [Tabs -> Requests \cup {None}]
    /\ \A t \in Tabs : tab[t] = "refreshing" => awaits[t] \in Requests
    /\ lock \in Tabs \cup {None}
    /\ faults \in 0..MaxFaults

-----------------------------------------------------------------------------
Awaited(r) == \E t \in Tabs : awaits[t] = r

TabGoes(t, from, to) ==
    /\ tab[t] = from
    /\ tab' = [tab EXCEPT ![t] = to]

\* A 401 or a page load: renewSession, shared by the callers of the tab.  The
\* guard keeps the refreshes within the tokens of the model.
WantRefresh(t) ==
    /\ TabGoes(t, "idle", "waiting")
    /\ current + Cardinality(Outstanding) + Cardinality({u \in Tabs : tab[u] = "waiting"})
         < MaxTokens
    /\ NoFault
    /\ UNCHANGED <<sessionVars, requestVars, historyVars, jar, awaits, lock>>

\* Variant: the lock is not waited for.
LockIgnored(t) == TRUE

\* navigator.locks.request, where there is one.
LockFree(t) == WebLocks => lock = None

SendRefresh(t) ==
    /\ TabGoes(t, "waiting", "refreshing")
    /\ LockFree(t)
    /\ lock' = IF WebLocks THEN t ELSE None
    /\ \E r \in Requests :
        /\ Arrive(r, jar)
        /\ awaits' = [awaits EXCEPT ![t] = r]
    /\ NoFault
    /\ UNCHANGED <<sessionVars, historyVars, jar>>

\* The refresh of the tab is over, the lock goes to the next one.
EndRefresh(t, to) ==
    /\ TabGoes(t, "refreshing", to)
    /\ awaits' = [awaits EXCEPT ![t] = None]
    /\ lock' = IF lock = t THEN None ELSE lock

\* The cookie is replaced by a new token, kept on an outage, cleared by a 401,
\* which logs the tab out.
ReceiveAnswer(t) ==
    /\ tab[t] = "refreshing"
    /\ LET r == awaits[t]
       IN  /\ phase[r] \in Answers
           /\ EndRefresh(t, IF phase[r] = "rejected" THEN "out" ELSE "idle")
           /\ jar' = CASE phase[r] = "granted" -> presented[r]
                       [] phase[r] = "rejected" -> NoToken
                       [] OTHER -> jar
           /\ Forget(r)
    /\ NoFault
    /\ UNCHANGED <<sessionVars, historyVars>>

\* Variant: the request has no timeout.
NeverGivesUp(t) == FALSE

\* REFRESH_TIMEOUT_MS, on a request that gets no answer.
GivesUp(t) ==
    /\ tab[t] = "refreshing"
    /\ phase[awaits[t]] = "hung"

TimeOut(t) ==
    /\ GivesUp(t)
    /\ EndRefresh(t, "idle")
    /\ Forget(awaits[t])
    /\ NoFault
    /\ UNCHANGED <<sessionVars, historyVars, jar>>

\* The answer comes too late, or its connection breaks: the API goes on.
LoseAnswer(t) ==
    /\ EndRefresh(t, "idle")
    /\ phase[awaits[t]] # "hung"
    /\ missed' = TRUE
    /\ Fault
    /\ UNCHANGED <<sessionVars, requestVars, reused, jar>>

\* An answer nobody awaits is dropped, its cookie with it.
DropAnswer(r) ==
    /\ phase[r] \in Answers
    /\ ~Awaited(r)
    /\ Forget(r)
    /\ NoFault
    /\ UNCHANGED <<sessionVars, historyVars, browserVars>>

-----------------------------------------------------------------------------
\* POST /auth/logout deletes the session of the cookie, whatever its secret.
Logout(t) ==
    /\ TabGoes(t, "idle", "leaving")
    /\ IF jar # NoToken THEN EndSession ELSE UNCHANGED sessionVars
    /\ NoFault
    /\ UNCHANGED <<requestVars, historyVars, jar, awaits, lock>>

\* Its answer clears the cookie.
LogoutAnswered(t) ==
    /\ TabGoes(t, "leaving", "left")
    /\ jar' = NoToken
    /\ NoFault
    /\ UNCHANGED <<sessionVars, requestVars, historyVars, awaits, lock>>

\* A password reset, or the expiry of the session.
EndElsewhere ==
    /\ live
    /\ EndSession
    /\ NoFault
    /\ UNCHANGED <<requestVars, historyVars, browserVars>>

ServerStep(r) == HandleRefresh(r) /\ UNCHANGED browserVars
ServerFault(r) == (QueryFails(r) \/ Hang(r)) /\ UNCHANGED browserVars
TabStep(t) == SendRefresh(t) \/ ReceiveAnswer(t) \/ TimeOut(t)

Next ==
    \/ \E r \in Requests : ServerStep(r) \/ ServerFault(r) \/ DropAnswer(r)
    \/ \E t \in Tabs :
        WantRefresh(t) \/ TabStep(t) \/ LoseAnswer(t) \/ Logout(t) \/ LogoutAnswered(t)
    \/ LeewayPasses /\ UNCHANGED browserVars
    \/ EndElsewhere

Spec == Init /\ [][Next]_vars

\* The API handles what arrives, a browser grants its locks and times out; a
\* user need not refresh nor log out.
Fairness ==
    /\ \A r \in Requests : WF_vars(ServerStep(r)) /\ WF_vars(DropAnswer(r))
    /\ \A t \in Tabs : WF_vars(TabStep(t))

FairSpec == Spec /\ Fairness

-----------------------------------------------------------------------------
(* Properties                                                              *)

\* Tabs that refresh one at a time never lose their session to the reuse
\* detection, whatever fails or hangs, until an answer is lost on its way
\* (web lib/api.ts:79, session.service.ts:63).
KeptByLockedTabs == WebLocks /\ ~missed => ~reused

\* Between their refreshes the cookie is the token the API expects.
CookieIsCurrent ==
    WebLocks /\ ~missed /\ live /\ Outstanding = {} => jar = current

\* A rotation demotes the token that was current: no concurrent refresh is
\* answered a token that the row forgot at once (session.service.ts:73).
CurrentIsDemoted == [][current' # current => previous' = current]_vars

\* No refresh in progress brings back a session that a logout, a reset or the
\* reuse detection ended, nor is granted a token of it.
EndIsFinal ==
    [][~live => ~live' /\ \A r \in Requests : phase'[r] = "granted" => phase[r] = "granted"]_vars

\* An API that never answers does not block every tab (web lib/api.ts:87).
EveryTabRefreshes == \A t \in Tabs : (tab[t] = "waiting") ~> (tab[t] # "waiting")

\* "concurrent ones from a browser without Web Locks, present the token just
\* rotated" (session.service.ts:7), which the leeway is there to accept: with
\* no fault but their concurrency, such tabs keep their session.
KeptByConcurrentTabs == faults = 0 => ~reused

-----------------------------------------------------------------------------
(* The inductive invariant behind KeptByLockedTabs                         *)

\* The tab that refreshes is the one that holds the lock, and it awaits its
\* request; every request is awaited while no answer was lost.
LockInv ==
    /\ \A t \in Tabs : awaits[t] # None <=> tab[t] = "refreshing"
    /\ WebLocks => \A t \in Tabs : tab[t] = "refreshing" <=> lock = t
    /\ WebLocks /\ ~missed => \A r \in Outstanding : lock # None /\ awaits[lock] = r

\* Cookie, request and row hold the same token.
InStep ==
    WebLocks /\ ~missed /\ live =>
        /\ jar # NoToken
        /\ \A t \in Tabs : tab[t] # "leaving"
        /\ \A r \in Requests :
            /\ phase[r] \in {"arrived", "rotating", "granted"} => presented[r] = current
            /\ phase[r] = "rotating" => seen[r] = current
            /\ phase[r] \notin {"revoking", "rejected"}
        /\ (\A r \in Requests : phase[r] # "granted") => jar = current

IInv == LockInv /\ InStep /\ KeptByLockedTabs
=============================================================================
