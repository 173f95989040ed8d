------------------------------ MODULE MCBrowser ------------------------------
(***************************************************************************)
(* The two sides of a browser's session, checked in one run: the refreshes *)
(* its tabs share, and the sign-in of a page.  They share no variable but  *)
(* the budget of faults, so a behaviour moves one of them, its part, and   *)
(* leaves the other as it starts.                                          *)
(***************************************************************************)
EXTENDS BrowserSession, SignIn

VARIABLE part  \* what moves

sessionOwn == <<sessionVars, requestVars, historyVars, browserVars>>
signOwn == <<jarVars, apiVars, placeVars, documentVars, crossed>>
partVars == <<part, vars, signVars>>

BrowserInit ==
    /\ part \in {"tabs", "page"}
    /\ Init
    /\ SignInit
    /\ part = "tabs" => /\ cookie = <<CHOOSE u \in Members : TRUE, 0>>
                        /\ alive = {} /\ path = "asked"

\* Only p moves; the page has a budget of faults of its own.
Only(p) ==
    /\ part = p
    /\ UNCHANGED part
    /\ IF p = "tabs" THEN UNCHANGED signOwn ELSE UNCHANGED sessionOwn

BrowserNext ==
    \/ Only("tabs") /\ Next
    \/ Only("page") /\ SignNext /\ faults' <= 1

\* The fairness of each part, for the behaviours that move it: a page that loads is
\* answered, and retries.
BrowserFairness ==
    /\ \A r \in Requests : WF_vars(Only("tabs") /\ ServerStep(r)) /\ WF_vars(Only("tabs") /\ DropAnswer(r))
    /\ \A t \in Tabs : WF_vars(Only("tabs") /\ TabStep(t))
    /\ WF_signVars(Only("page") /\ Refreshed)
    /\ WF_signVars(Only("page") /\ RestoreAgain)
    /\ WF_signVars(Only("page") /\ Restored)
    /\ WF_signVars(Only("page") /\ Serve("restore"))

BrowserSpec == BrowserInit /\ [][BrowserNext]_partVars /\ BrowserFairness

-----------------------------------------------------------------------------
\* Where a page is what loads, it ends up ready, whatever the API answers: it is not
\* left on the spinner (auth-initializer.tsx:29-33).
LoadsSettle == part = "page" => PageSettles
=============================================================================
