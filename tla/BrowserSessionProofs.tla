------------------------ MODULE BrowserSessionProofs ------------------------
(***************************************************************************)
(* Proofs about the refresh session of a browser, for any number of tabs,  *)
(* of requests, of rotations and of faults, and about who is signed in on  *)
(* one of its pages, for any members and logins.                           *)
(***************************************************************************)
EXTENDS BrowserSession, SignIn, TLAPS

USE MaxFaultsAssumption, SessionAssumption, BrowserAssumption

-----------------------------------------------------------------------------
(* Type correctness                                                        *)

\* Every step keeps the types.
LEMMA StepType == TypeOK /\ [Next]_vars => TypeOK'
<1> SUFFICES ASSUME TypeOK, [Next]_vars
             PROVE  TypeOK'
  OBVIOUS
<1> USE DEF TypeOK, SessionTypeOK, Tokens, NoToken, Phases, TabSteps, sessionVars, requestVars,
            historyVars, browserVars, Goes, TabGoes, Fault, NoFault
<1>1. ASSUME NEW r \in Requests, ReadNothing(r), UNCHANGED browserVars PROVE TypeOK'
  BY <1>1 DEF ReadNothing
<1>2. ASSUME NEW r \in Requests, ReadAccepted(r), UNCHANGED browserVars PROVE TypeOK'
  BY <1>2 DEF ReadAccepted, Accepts
<1>3. ASSUME NEW r \in Requests, ReadReplayed(r), UNCHANGED browserVars PROVE TypeOK'
  BY <1>3 DEF ReadReplayed, Accepts
<1>4. ASSUME NEW r \in Requests, Rotate(r), UNCHANGED browserVars PROVE TypeOK'
  BY <1>4 DEF Rotate, StoreNext, Swappable
<1>5. ASSUME NEW r \in Requests, LoseRace(r), UNCHANGED browserVars PROVE TypeOK'
  BY <1>5 DEF LoseRace, Swappable
<1>6. ASSUME NEW r \in Requests, DeleteReplayed(r), UNCHANGED browserVars PROVE TypeOK'
  BY <1>6 DEF DeleteReplayed
<1>7. ASSUME NEW r \in Requests, QueryFails(r), UNCHANGED browserVars PROVE TypeOK'
  <2>1. live' \in BOOLEAN /\ reused' \in BOOLEAN /\ missed' \in BOOLEAN /\ fresh' \in BOOLEAN
    BY <1>7 DEF QueryFails, StoreNext, Swappable
  <2>2. current' \in Tokens /\ previous' \in Tokens \cup {NoToken}
    BY <1>7 DEF QueryFails, StoreNext, Swappable
  <2>3. QED
    BY <1>7, <2>1, <2>2 DEF QueryFails
<1>8. ASSUME NEW r \in Requests, Hang(r), UNCHANGED browserVars PROVE TypeOK'
  BY <1>8 DEF Hang
<1>9. ASSUME NEW r \in Requests, DropAnswer(r) PROVE TypeOK'
  BY <1>9 DEF DropAnswer, Forget, Awaited, Answers
<1>10. ASSUME NEW t \in Tabs, WantRefresh(t) PROVE TypeOK'
  BY <1>10 DEF WantRefresh
<1>11. ASSUME NEW t \in Tabs, SendRefresh(t) PROVE TypeOK'
  BY <1>11 DEF SendRefresh, Arrive, LockFree
<1>12. ASSUME NEW t \in Tabs, ReceiveAnswer(t) PROVE TypeOK'
  <2> DEFINE r == awaits[t]
  <2>1. r \in Requests
    BY <1>12 DEF ReceiveAnswer
  <2>2. jar' \in {jar, NoToken, presented[r]}
    BY <1>12, <2>1 DEF ReceiveAnswer, Answers
  <2>3. QED
    BY <1>12, <2>1, <2>2 DEF ReceiveAnswer, EndRefresh, Forget
<1>13. ASSUME NEW t \in Tabs, TimeOut(t) PROVE TypeOK'
  BY <1>13 DEF TimeOut, GivesUp, EndRefresh, Forget
<1>14. ASSUME NEW t \in Tabs, LoseAnswer(t) PROVE TypeOK'
  BY <1>14 DEF LoseAnswer, EndRefresh
<1>15. ASSUME NEW t \in Tabs, Logout(t) PROVE TypeOK'
  BY <1>15 DEF Logout, EndSession
<1>16. ASSUME NEW t \in Tabs, LogoutAnswered(t) PROVE TypeOK'
  BY <1>16 DEF LogoutAnswered
<1>17. ASSUME LeewayPasses, UNCHANGED browserVars PROVE TypeOK'
  <2>1. fresh' = FALSE /\ (Fault \/ NoFault)
    BY <1>17 DEF LeewayPasses
  <2>2. faults' \in 0..MaxFaults
    BY <2>1
  <2>3. UNCHANGED <<live, current, previous, requestVars, historyVars, browserVars>>
    BY <1>17 DEF LeewayPasses
  <2>4. QED
    BY <2>1, <2>2, <2>3
<1>18. ASSUME EndElsewhere PROVE TypeOK'
  BY <1>18 DEF EndElsewhere, EndSession
<1>19. CASE UNCHANGED vars
  BY <1>19 DEF vars
<1>20. QED
  BY <1>1, <1>2, <1>3, <1>4, <1>5, <1>6, <1>7, <1>8, <1>9, <1>10,
     <1>11, <1>12, <1>13, <1>14, <1>15, <1>16, <1>17, <1>18, <1>19
  DEF Next, ServerStep, ServerFault, HandleRefresh, TabStep

\* Every variable keeps its type: in particular no rotation goes beyond the
\* tokens of the model, and no step outspends the faults.
THEOREM TypeCorrect == Spec => []TypeOK
<1>1. Init => TypeOK
  <2> SUFFICES ASSUME Init
               PROVE  TypeOK
    OBVIOUS
  <2> USE DEF Init, SessionInit, Tokens, NoToken, Phases, TabSteps
  <2>1. /\ live \in BOOLEAN /\ fresh \in BOOLEAN /\ reused \in BOOLEAN /\ missed \in BOOLEAN
    OBVIOUS
  <2>2. /\ current \in Tokens /\ previous \in Tokens \cup {NoToken} /\ jar \in Tokens
        /\ faults \in 0..MaxFaults
    OBVIOUS
  <2>3. /\ phase \in [Requests -> Phases] /\ presented \in [Requests -> Tokens \cup {NoToken}]
        /\ seen \in [Requests -> Tokens \cup {NoToken}] /\ attempts \in [Requests -> Nat]
    OBVIOUS
  <2>4. /\ tab \in [Tabs -> TabSteps] /\ awaits \in [Tabs -> Requests \cup {None}]
        /\ lock \in Tabs \cup {None}
    OBVIOUS
  <2>5. QED
    BY <2>1, <2>2, <2>3, <2>4 DEF TypeOK, SessionTypeOK
<1>2. QED
  BY <1>1, StepType, PTL DEF Spec

-----------------------------------------------------------------------------
(* The session is kept                                                     *)

\* The invariant is inductive, given the types.
LEMMA StepKeeps == TypeOK /\ IInv /\ [Next]_vars => IInv'
<1> SUFFICES ASSUME TypeOK, IInv, [Next]_vars
             PROVE  IInv'
  OBVIOUS
<1> USE DEF IInv, LockInv, InStep, KeptByLockedTabs, Outstanding, TypeOK, SessionTypeOK,
            Tokens, NoToken, sessionVars, requestVars, historyVars, browserVars, Goes, TabGoes
<1>1. ASSUME NEW r \in Requests, ReadNothing(r), UNCHANGED browserVars PROVE IInv'
  BY <1>1 DEF ReadNothing
<1>2. ASSUME NEW r \in Requests, ReadAccepted(r), UNCHANGED browserVars PROVE IInv'
  BY <1>2 DEF ReadAccepted, Accepts
<1>3. ASSUME NEW r \in Requests, ReadReplayed(r), UNCHANGED browserVars PROVE IInv'
  BY <1>3 DEF ReadReplayed, Accepts
<1>4. ASSUME NEW r \in Requests, Rotate(r), UNCHANGED browserVars PROVE IInv'
  BY <1>4 DEF Rotate, StoreNext, Swappable
<1>5. ASSUME NEW r \in Requests, LoseRace(r), UNCHANGED browserVars PROVE IInv'
  BY <1>5 DEF LoseRace, Swappable
<1>6. ASSUME NEW r \in Requests, DeleteReplayed(r), UNCHANGED browserVars PROVE IInv'
  BY <1>6 DEF DeleteReplayed
<1>7. ASSUME NEW r \in Requests, QueryFails(r), UNCHANGED browserVars PROVE IInv'
  BY <1>7 DEF QueryFails, StoreNext, Swappable
<1>8. ASSUME NEW r \in Requests, Hang(r), UNCHANGED browserVars PROVE IInv'
  BY <1>8 DEF Hang
<1>9. ASSUME NEW r \in Requests, DropAnswer(r) PROVE IInv'
  BY <1>9 DEF DropAnswer, Forget, Awaited, Answers
<1>10. ASSUME NEW t \in Tabs, WantRefresh(t) PROVE IInv'
  BY <1>10 DEF WantRefresh
<1>11. ASSUME NEW t \in Tabs, SendRefresh(t) PROVE IInv'
  BY <1>11 DEF SendRefresh, Arrive, LockFree
<1>12. ASSUME NEW t \in Tabs, ReceiveAnswer(t) PROVE IInv'
  BY <1>12 DEF ReceiveAnswer, EndRefresh, Forget, Answers
<1>13. ASSUME NEW t \in Tabs, TimeOut(t) PROVE IInv'
  BY <1>13 DEF TimeOut, GivesUp, EndRefresh, Forget
<1>14. ASSUME NEW t \in Tabs, LoseAnswer(t) PROVE IInv'
  BY <1>14 DEF LoseAnswer, EndRefresh
<1>15. ASSUME NEW t \in Tabs, Logout(t) PROVE IInv'
  BY <1>15 DEF Logout, EndSession
<1>16. ASSUME NEW t \in Tabs, LogoutAnswered(t) PROVE IInv'
  BY <1>16 DEF LogoutAnswered
<1>17. ASSUME LeewayPasses, UNCHANGED browserVars PROVE IInv'
  BY <1>17 DEF LeewayPasses
<1>18. ASSUME EndElsewhere PROVE IInv'
  BY <1>18 DEF EndElsewhere, EndSession
<1>19. CASE UNCHANGED vars
  BY <1>19 DEF vars
<1>20. QED
  BY <1>1, <1>2, <1>3, <1>4, <1>5, <1>6, <1>7, <1>8, <1>9, <1>10,
     <1>11, <1>12, <1>13, <1>14, <1>15, <1>16, <1>17, <1>18, <1>19
  DEF Next, ServerStep, ServerFault, HandleRefresh, TabStep

\* Cookie, request and row stay in step, however many tabs take turns.
THEOREM Invariance == Spec => []IInv
<1>1. Init => IInv
  BY DEF Init, SessionInit, IInv, LockInv, InStep, KeptByLockedTabs, Outstanding, NoToken
<1>2. QED
  BY <1>1, StepKeeps, TypeCorrect, PTL DEF Spec

\* With Web Locks, and until an answer is lost, no number of tabs makes the
\* reuse detection end their session (session.service.ts:63, web lib/api.ts:79).
THEOREM SessionKept == Spec => []KeptByLockedTabs
<1>1. IInv => KeptByLockedTabs
  BY DEF IInv
<1>2. QED
  BY <1>1, Invariance, PTL

\* Between refreshes the cookie of those tabs is the token the API expects.
THEOREM CookieInStep == Spec => []CookieIsCurrent
<1>1. IInv => CookieIsCurrent
  BY DEF IInv, InStep, CookieIsCurrent, Outstanding
<1>2. QED
  BY <1>1, Invariance, PTL

\* A rotation replaces the token that was current (session.service.ts:73).
THEOREM RotationsChain == Spec => CurrentIsDemoted
<1>1. [Next]_vars => (current' # current => previous' = current)
  <2> SUFFICES ASSUME [Next]_vars, current' # current
               PROVE  previous' = current
    OBVIOUS
  <2>1. \E r \in Requests : StoreNext(r) /\ Swappable(r)
    BY DEF Next, ServerStep, ServerFault, HandleRefresh, ReadNothing, ReadAccepted, ReadReplayed,
       Rotate, LoseRace, DeleteReplayed, QueryFails, Hang, DropAnswer, WantRefresh, TabStep,
       SendRefresh, ReceiveAnswer, TimeOut, LoseAnswer, Logout, LogoutAnswered, LeewayPasses,
       EndElsewhere, EndSession, sessionVars, vars
  <2>2. QED
    BY <2>1 DEF StoreNext, Swappable
<1>2. QED
  BY <1>1, PTL DEF Spec, CurrentIsDemoted

\* A session that a logout, a reset or the reuse detection ended stays ended: no
\* refresh in progress brings it back, nor is granted a token of it.
THEOREM EndedStaysEnded == Spec => EndIsFinal
<1> DEFINE A == ~live => ~live' /\ \A r \in Requests : phase'[r] = "granted" => phase[r] = "granted"
<1>1. TypeOK /\ [Next]_vars => A
  <2> SUFFICES ASSUME TypeOK, [Next]_vars, ~live PROVE A
    OBVIOUS
  <2> USE DEF TypeOK, SessionTypeOK, sessionVars, requestVars, browserVars, Goes
  <2>1. ASSUME NEW r \in Requests, HandleRefresh(r) PROVE A
    BY <2>1 DEF HandleRefresh, ReadNothing, ReadAccepted, ReadReplayed, Rotate, Swappable, LoseRace,
                DeleteReplayed
  <2>2. ASSUME NEW r \in Requests, QueryFails(r) \/ Hang(r) PROVE A
    BY <2>2 DEF QueryFails, Hang, StoreNext
  <2>3. ASSUME NEW r \in Requests, DropAnswer(r) PROVE A
    BY <2>3 DEF DropAnswer, Forget
  <2>4. ASSUME NEW t \in Tabs, SendRefresh(t) PROVE A
    BY <2>4 DEF SendRefresh, Arrive
  <2>5. ASSUME NEW t \in Tabs, ReceiveAnswer(t) \/ TimeOut(t) PROVE A
    BY <2>5 DEF ReceiveAnswer, TimeOut, Forget
  <2>6. ASSUME NEW t \in Tabs, WantRefresh(t) \/ LoseAnswer(t) \/ Logout(t) \/ LogoutAnswered(t) PROVE A
    BY <2>6 DEF WantRefresh, LoseAnswer, Logout, LogoutAnswered, EndSession
  <2>7. CASE LeewayPasses
    BY <2>7 DEF LeewayPasses
  <2>8. CASE EndElsewhere
    BY <2>8 DEF EndElsewhere, EndSession
  <2>9. CASE UNCHANGED vars
    BY <2>9 DEF vars
  <2> QED BY <2>1, <2>2, <2>3, <2>4, <2>5, <2>6, <2>7, <2>8, <2>9
          DEF Next, ServerStep, ServerFault, TabStep
<1>2. QED
  BY <1>1, TypeCorrect, PTL DEF Spec, EndIsFinal

-----------------------------------------------------------------------------
(* Who is signed in on a page                                              *)

USE SignAssumption

\* A session that is opened is a new pair of its user and the next number.
LEMMA SessionIsNew ==
  ASSUME SignTypeOK, NEW u \in Members, opened < MaxLogins
  PROVE  /\ <<u, opened + 1>> \in Sessions
         /\ <<u, opened + 1>> # None
         /\ Owner(<<u, opened + 1>>) = u
         /\ opened + 1 \in 0..MaxLogins
<1>1. opened + 1 \in 0..MaxLogins
  BY DEF SignTypeOK
<1>2. <<u, opened + 1>> \in Sessions
  BY <1>1 DEF Sessions
<1> QED
  BY <1>1, <1>2 DEF Owner

\* Where requests are repeated, given up or forgotten, they remain requests.
LEMMA CallsRemainCalls ==
  ASSUME SignTypeOK
  PROVE  /\ \A s \in Sessions : Retried(s) \in [WebCalls -> Calls]
         /\ \A s \in MaybeSession : Sending(s) \in Calls /\ GivenUp(s) \in [WebCalls -> Calls]
         /\ \A s \in Stores : Forgotten(s) \in [WebCalls -> Calls]
<1> USE DEF SignTypeOK, Calls, MaybeSession
<1>1. NoCall \in Calls
  BY DEF NoCall
<1>2. ASSUME NEW s \in Sessions PROVE Retried(s) \in [WebCalls -> Calls]
  BY DEF Retried
<1>3. ASSUME NEW s \in MaybeSession PROVE Sending(s) \in Calls
  BY DEF Sending
<1>4. ASSUME NEW s \in MaybeSession PROVE GivenUp(s) \in [WebCalls -> Calls]
  <2>1. Sending(s) \in Calls
    BY <1>3
  <2> HIDE DEF Calls
  <2> QED
    BY <1>1, <2>1 DEF GivenUp
<1>5. ASSUME NEW s \in Stores PROVE Forgotten(s) \in [WebCalls -> Calls]
  BY <1>1 DEF Forgotten
<1> QED
  BY <1>2, <1>3, <1>4, <1>5

\* What is sent, and what is not.
LEMMA SentCalls ==
  /\ NoCall.at = "idle"
  /\ \A s : Sending(s).at = "sent" /\ Sending(s).as = s /\ (s = None => Sending(s).stale)
<1>1. \A s : Sending(s) = [at |-> "sent", as |-> s, stale |-> s = None \/ s \in expired, new |-> FALSE]
  BY DEF Sending
<1>2. \A s : Sending(s).stale = (s = None \/ s \in expired)
  BY <1>1
<1> QED
  BY <1>1, <1>2 DEF NoCall

\* A refresh that fails gives up the requests that wait for it; the verified page asks
\* once more, and no other request is new.
LEMMA GivenUpCalls ==
  ASSUME SignTypeOK, NEW s \in MaybeSession
  PROVE  /\ \A c \in WebCalls : \/ call[c].at # "renewing" /\ GivenUp(s)[c] = call[c]
                                \/ GivenUp(s)[c] = NoCall
                                \/ GivenUp(s)[c] = Sending(s) /\ c = "show"
         /\ call["show"].at = "renewing" =>
              \/ verifying = "showing" /\ ShowGivenUp = "again" /\ GivenUp(s)["show"] = Sending(s)
              \/ verifying # "showing" /\ ShowGivenUp = "gaveUp" /\ GivenUp(s)["show"] = NoCall
         /\ call["show"].at # "renewing" =>
              ShowGivenUp = verifying /\ GivenUp(s)["show"] = call["show"]
<1>1. \A c \in WebCalls : GivenUp(s)[c] =
         (IF call[c].at # "renewing" THEN call[c]
          ELSE IF c = "show" /\ verifying = "showing" THEN Sending(s) ELSE NoCall)
  BY DEF GivenUp
<1>2. "show" \in WebCalls
  BY DEF WebCalls
<1>3. \A c \in WebCalls : \/ call[c].at # "renewing" /\ GivenUp(s)[c] = call[c]
                          \/ GivenUp(s)[c] = NoCall
                          \/ GivenUp(s)[c] = Sending(s) /\ c = "show"
  BY <1>1
<1>4. ASSUME call["show"].at = "renewing"
      PROVE  \/ verifying = "showing" /\ ShowGivenUp = "again" /\ GivenUp(s)["show"] = Sending(s)
             \/ verifying # "showing" /\ ShowGivenUp = "gaveUp" /\ GivenUp(s)["show"] = NoCall
  BY <1>1, <1>2, <1>4 DEF ShowGivenUp
<1>5. ASSUME call["show"].at # "renewing"
      PROVE  ShowGivenUp = verifying /\ GivenUp(s)["show"] = call["show"]
  BY <1>1, <1>2, <1>5 DEF ShowGivenUp
<1> QED
  BY <1>3, <1>4, <1>5

\* Every step keeps the types.
LEMMA SignStepType ==
  SignTypeOK /\ Tokened /\ Sent /\ OneLogin /\ [SignNext]_signVars => SignTypeOK'
<1> SUFFICES ASSUME SignTypeOK, Tokened, Sent, OneLogin, [SignNext]_signVars
             PROVE  SignTypeOK'
  OBVIOUS
<1> USE DEF jarVars, apiVars, placeVars, documentVars, NoFault, Fault, SignTypeOK, MaybeSession,
            MaybeMember, NoCall, NoRefresh, Nobody, Stores, Refreshes, Calls, Logins, Guarded,
            Asked, WebCalls
<1>0. ASSUME NEW c \in WebCalls, call[c].at = "answered"
      PROVE  call[c].as \in Sessions /\ Owner(call[c].as) \in Members
  BY <1>0 DEF Tokened, Sent, Sessions, Owner
<1>1. CASE RefreshSucceeds
  <2>1. Retried(refresh.presents) \in [WebCalls -> Calls] /\ refresh.presents \in Sessions
    BY <1>1, CallsRemainCalls DEF RefreshSucceeds
  <2>2. [NoCall EXCEPT !.at = "sent", !.as = refresh.presents] \in Calls
    BY <2>1
  <2>3. call' \in [WebCalls -> Calls]
    <3> HIDE DEF Calls, NoCall
    <3> QED
      BY <1>1, <2>1, <2>2 DEF RefreshSucceeds
  <2>4. store' \in Stores /\ refresh' \in Refreshes
    BY <1>1, <2>1 DEF RefreshSucceeds
  <2> QED
    BY <1>1, <2>1, <2>3, <2>4 DEF RefreshSucceeds
<1>2. CASE RefreshRejected
  <2>1. call' \in [WebCalls -> Calls]
    <3>1. GivenUp(None) \in [WebCalls -> Calls] /\ NoCall \in Calls
      BY CallsRemainCalls
    <3> HIDE DEF Calls, NoCall
    <3> QED
      BY <1>2, <3>1 DEF RefreshRejected
  <2>2. store' \in Stores /\ refresh' \in Refreshes /\ hint' \in BOOLEAN
    BY <1>2 DEF RefreshRejected, LogOut, Shown
  <2>3. verifying' \in {"none", "posting", "verified", "refused"} \cup Asked
    BY <1>2 DEF RefreshRejected, ShowGivenUp
  <2> QED
    BY <1>2, <2>1, <2>2, <2>3 DEF RefreshRejected
<1>3. CASE Restored
  <2>1. store' \in Stores /\ hint' \in BOOLEAN
    <3>1. CASE NothingToRestore
      <4>1. store' = [store EXCEPT !.isReady = TRUE] /\ hint' = hint
        BY <1>3, <3>1 DEF Restored
      <4> HIDE DEF NothingToRestore
      <4> QED
        BY <4>1
    <3>2. CASE ~NothingToRestore
      <4>1. call["restore"].as \in Sessions /\ Owner(call["restore"].as) \in Members
            /\ call["restore"].new \in BOOLEAN
        BY <1>3, <1>0 DEF Restored
      <4> DEFINE as == call["restore"].as
                 u == Owner(as)
                 new == call["restore"].new
      <4>2. /\ store' = [user |-> u, new |-> new, session |-> as, isAuthenticated |-> TRUE, isReady |-> TRUE]
            /\ hint' = TRUE
        BY <1>3, <3>2 DEF Restored, LogIn, Shown
      <4> HIDE DEF as, u, new
      <4> QED
        BY <4>1, <4>2 DEF as, u, new
    <3> QED
      BY <3>1, <3>2
  <2>2. call' \in [WebCalls -> Calls]
    <3>1. Forgotten(store') \in [WebCalls -> Calls] /\ NoCall \in Calls
      BY <2>1, CallsRemainCalls
    <3> HIDE DEF Calls, NoCall, Stores
    <3> QED
      BY <1>3, <3>1 DEF Restored
  <2> QED
    BY <1>3, <2>1, <2>2 DEF Restored
<1>4. CASE LoginAccepted
  <2>1. signing.user \in Members
    BY <1>4 DEF LoginAccepted, OneLogin
  <2>2. cookie' \in Sessions /\ opened' \in 0..MaxLogins /\ alive' \in SUBSET Sessions
    BY <1>4, <2>1, SessionIsNew DEF LoginAccepted, OpenSession
  <2>3. call' \in [WebCalls -> Calls] /\ signing' \in Logins
    BY <1>4, <2>1, <2>2 DEF LoginAccepted
  <2> QED
    BY <1>4, <2>1, <2>2, <2>3 DEF LoginAccepted
<1>5. CASE LoggedIn
  <2>1. store' \in Stores
    BY <1>5, <1>0 DEF LoggedIn, LogIn, Shown
  <2>2. call' \in [WebCalls -> Calls]
    <3>1. Forgotten(store') \in [WebCalls -> Calls] /\ NoCall \in Calls
      BY <2>1, CallsRemainCalls
    <3> HIDE DEF Calls, NoCall, Stores
    <3> QED
      BY <1>5, <3>1 DEF LoggedIn
  <2> QED
    BY <1>5, <2>1, <2>2 DEF LoggedIn, LogIn
<1>6. CASE SetUser
  <2>1. store' \in Stores
    BY <1>6, <1>0 DEF SetUser, Shown
  <2>2. call' \in [WebCalls -> Calls]
    <3>1. Forgotten(store') \in [WebCalls -> Calls] /\ NoCall \in Calls
      BY <2>1, CallsRemainCalls
    <3> HIDE DEF Calls, NoCall, Stores
    <3> QED
      BY <1>6, <3>1 DEF SetUser
  <2> QED
    BY <1>6, <2>1, <2>2 DEF SetUser
<1>7. CASE LoginRefused
  BY <1>7 DEF LoginRefused
<1>8. CASE LoginFails
  BY <1>8 DEF LoginFails
<1>9. CASE SubmitLogin
  BY <1>9 DEF SubmitLogin
<1>10. CASE QueryAnswered
  BY <1>10 DEF QueryAnswered
<1>11. CASE RestoreAgain
  BY <1>11 DEF RestoreAgain, Renewed
<1>12. CASE RestoreUnanswered
  BY <1>12 DEF RestoreUnanswered, OutageSeen, NextTry
<1>13. CASE ClickLogout
  BY <1>13 DEF ClickLogout, Sending
<1>14. CASE SendQuery
  BY <1>14 DEF SendQuery, Sending
<1>15. CASE AskUser
  BY <1>15 DEF AskUser, Sending
<1>16. CASE AskUserFails
  BY <1>16 DEF AskUserFails, Sending
<1>17. CASE ClickGoogle
  BY <1>17 DEF ClickGoogle
<1>18. CASE GoogleFails
  BY <1>18 DEF GoogleFails, Loaded
<1>19. CASE LoggedOut
  BY <1>19 DEF LoggedOut, Loaded
<1>20. CASE Reload
  BY <1>20 DEF Reload, Loaded
<1>21. CASE RedirectToLogin \/ RecallRedirect \/ LeaveLogin
            \/ (\E to \in {"asked", "login"} : Follow(to))
  BY <1>21 DEF RedirectToLogin, RecallRedirect, LeaveLogin, Follow, Visits
<1>22. CASE \E to \in {"verified", "refused"} : Verified(to)
  BY <1>22 DEF Verified
<1>23. CASE (\E s \in Sessions : SessionEnds(s)) \/ TokenExpires
  BY <1>23 DEF SessionEnds, TokenExpires
<1>24. ASSUME NEW c \in WebCalls, Serve(c) PROVE SignTypeOK'
  BY <1>24 DEF Serve
<1>25. ASSUME NEW c \in WebCalls, Unauthorized(c) PROVE SignTypeOK'
  BY <1>25 DEF Unauthorized, Renewed
<1>26. CASE GoogleSucceeds
  <2>1. cookie' \in Sessions /\ opened' \in 0..MaxLogins /\ alive' \in SUBSET Sessions
    BY <1>26, SessionIsNew DEF GoogleSucceeds, OpenSession, OneLogin
  <2> QED
    BY <1>26, <2>1 DEF GoogleSucceeds, Loaded
<1>27. CASE RefreshUnanswered
  BY <1>27, CallsRemainCalls DEF RefreshUnanswered, OutageSeen, NextTry, ShowGivenUp
<1>28. CASE UNCHANGED signVars
  BY <1>28 DEF signVars
<1> QED
  BY <1>1, <1>2, <1>3, <1>4, <1>5, <1>6, <1>7, <1>8, <1>9, <1>10, <1>11, <1>12, <1>13,
     <1>14, <1>15, <1>16, <1>17, <1>18, <1>19, <1>20, <1>21, <1>22, <1>23, <1>24, <1>25,
     <1>26, <1>27, <1>28
  DEF SignNext, Refreshed, Answered

\* Only a request whose token is valid is answered.
LEMMA SignStepTokened == SignTypeOK /\ Tokened /\ [SignNext]_signVars => Tokened'
<1> SUFFICES ASSUME SignTypeOK, Tokened, [SignNext]_signVars
             PROVE  Tokened'
  OBVIOUS
<1> USE DEF jarVars, apiVars, placeVars, documentVars, NoFault, Fault, SignTypeOK, Calls,
            WebCalls, NoCall, Tokened
<1>1. CASE RestoreAgain \/ LoginRefused \/ SubmitLogin \/ RedirectToLogin \/ RecallRedirect
           \/ LeaveLogin \/ (\E to \in {"asked", "login"} : Follow(to))
           \/ (\E to \in {"verified", "refused"} : Verified(to))
           \/ (\E s \in Sessions : SessionEnds(s)) \/ TokenExpires
  BY <1>1 DEF RestoreAgain, Renewed, LoginRefused, SubmitLogin, RedirectToLogin, Visits,
     RecallRedirect, LeaveLogin, Follow, Verified, SessionEnds, TokenExpires
<1>2. CASE LoggedOut \/ GoogleFails \/ Reload \/ GoogleSucceeds \/ ClickGoogle
  BY <1>2 DEF LoggedOut, Loaded, GoogleFails, Reload, GoogleSucceeds, OpenSession, ClickGoogle
<1>3. CASE RestoreUnanswered \/ LoginFails \/ QueryAnswered
  BY <1>3 DEF RestoreUnanswered, OutageSeen, NextTry, LoginFails, QueryAnswered
<1>4. CASE Restored \/ LoggedIn \/ SetUser
  BY <1>4 DEF Restored, NothingToRestore, LogIn, Shown, Forgotten, LoggedIn, SetUser
<1>5. CASE RefreshSucceeds
  BY <1>5 DEF RefreshSucceeds, Retried
<1>6. CASE RefreshRejected
  BY <1>6 DEF RefreshRejected, LogOut, Shown, GivenUp, ShowGivenUp, Sending
<1>7. CASE RefreshUnanswered
  BY <1>7 DEF RefreshUnanswered, OutageSeen, NextTry, GivenUp, ShowGivenUp, Sending
<1>8. CASE \E c \in WebCalls : Serve(c)
  BY <1>8 DEF Serve
<1>9. CASE \E c \in WebCalls : Unauthorized(c)
  BY <1>9 DEF Unauthorized, Renewed
<1>10. CASE LoginAccepted
  BY <1>10 DEF LoginAccepted, OpenSession
<1>11. CASE ClickLogout
  BY <1>11 DEF ClickLogout, Sending
<1>12. CASE SendQuery
  BY <1>12 DEF SendQuery, Sending
<1>13. CASE AskUser
  BY <1>13 DEF AskUser, Sending, MeMayBeAsked
<1>14. CASE AskUserFails
  BY <1>14 DEF AskUserFails, Sending
<1>15. CASE UNCHANGED signVars
  BY <1>15 DEF signVars
<1> QED
  BY <1>1, <1>2, <1>3, <1>4, <1>5, <1>6, <1>7, <1>8, <1>9, <1>10, <1>11, <1>12, <1>13,
     <1>14, <1>15
  DEF SignNext, Refreshed, Answered

\* What is sent without a session is stale.
LEMMA SignStepSent == SignTypeOK /\ Tokened /\ Sent /\ OneLogin /\ [SignNext]_signVars => Sent'
<1> SUFFICES ASSUME SignTypeOK, Tokened, Sent, OneLogin, [SignNext]_signVars
             PROVE  Sent'
  OBVIOUS
<1> USE DEF jarVars, apiVars, placeVars, documentVars, NoFault, Fault, SignTypeOK, Calls,
            WebCalls, NoCall, Tokened, Sent
<1>1. CASE RestoreAgain \/ LoginRefused \/ SubmitLogin \/ RedirectToLogin \/ RecallRedirect
           \/ LeaveLogin \/ (\E to \in {"asked", "login"} : Follow(to))
           \/ (\E to \in {"verified", "refused"} : Verified(to))
           \/ (\E s \in Sessions : SessionEnds(s)) \/ TokenExpires
  BY <1>1 DEF RestoreAgain, Renewed, LoginRefused, SubmitLogin, RedirectToLogin, Visits,
     RecallRedirect, LeaveLogin, Follow, Verified, SessionEnds, TokenExpires
<1>2. CASE LoggedOut \/ GoogleFails \/ Reload \/ GoogleSucceeds \/ ClickGoogle
  BY <1>2 DEF LoggedOut, Loaded, GoogleFails, Reload, GoogleSucceeds, OpenSession, ClickGoogle
<1>3. CASE RestoreUnanswered \/ LoginFails \/ QueryAnswered
  BY <1>3 DEF RestoreUnanswered, OutageSeen, NextTry, LoginFails, QueryAnswered
<1>4. CASE Restored \/ LoggedIn \/ SetUser
  BY <1>4 DEF Restored, NothingToRestore, LogIn, Shown, Forgotten, LoggedIn, SetUser
<1>5. CASE RefreshSucceeds
  BY <1>5 DEF RefreshSucceeds, Retried
<1>6. CASE RefreshRejected
  <2>1. \A c \in WebCalls : call'[c] \in {GivenUp(None)[c], NoCall}
    BY <1>6, CallsRemainCalls DEF RefreshRejected, MaybeSession
  <2> SUFFICES ASSUME NEW c \in WebCalls, call'[c].at # "idle"
               PROVE  call'[c].stale \/ call'[c].as # None
    OBVIOUS
  <2>2. \/ call[c].at # "renewing" /\ call'[c] = call[c]
        \/ call'[c] = NoCall \/ call'[c] = Sending(None)
    BY <2>1, GivenUpCalls DEF MaybeSession
  <2> HIDE DEF WebCalls, NoCall
  <2> QED
    BY <2>2, SentCalls
<1>7. CASE RefreshUnanswered
  <2>1. call' = GivenUp(store.session) /\ store.session \in MaybeSession
    BY <1>7 DEF RefreshUnanswered, Stores
  <2> SUFFICES ASSUME NEW c \in WebCalls, call'[c].at # "idle"
               PROVE  call'[c].stale \/ call'[c].as # None
    OBVIOUS
  <2>2. \/ call[c].at # "renewing" /\ call'[c] = call[c]
        \/ call'[c] = NoCall \/ call'[c] = Sending(store.session)
    BY <2>1, GivenUpCalls
  <2> HIDE DEF WebCalls, NoCall
  <2> QED
    BY <2>2, SentCalls
<1>8. CASE \E c \in WebCalls : Serve(c)
  BY <1>8 DEF Serve
<1>9. CASE \E c \in WebCalls : Unauthorized(c)
  BY <1>9 DEF Unauthorized, Renewed
<1>10. CASE LoginAccepted
  <2>1. cookie' # None
    BY <1>10, SessionIsNew DEF LoginAccepted, OpenSession, OneLogin, Logins, MaybeMember
  <2> QED
    BY <1>10, <2>1 DEF LoginAccepted
<1>11. CASE ClickLogout
  BY <1>11 DEF ClickLogout, Sending
<1>12. CASE SendQuery
  BY <1>12 DEF SendQuery, Sending
<1>13. CASE AskUser
  BY <1>13 DEF AskUser, Sending, MeMayBeAsked
<1>14. CASE AskUserFails
  BY <1>14 DEF AskUserFails, Sending
<1>15. CASE UNCHANGED signVars
  BY <1>15 DEF signVars
<1> QED
  BY <1>1, <1>2, <1>3, <1>4, <1>5, <1>6, <1>7, <1>8, <1>9, <1>10, <1>11, <1>12, <1>13,
     <1>14, <1>15
  DEF SignNext, Refreshed, Answered

\* Whoever is signed in has a session, and the hint is of the store.
LEMMA SignStepInStore ==
  SignTypeOK /\ Tokened /\ Sent /\ InStore /\ OneLogin /\ [SignNext]_signVars => InStore'
<1> SUFFICES ASSUME SignTypeOK, Tokened, Sent, InStore, OneLogin, [SignNext]_signVars
             PROVE  InStore'
  OBVIOUS
<1> USE DEF jarVars, apiVars, placeVars, documentVars, NoFault, Fault, SignTypeOK, Stores,
            Nobody, InStore
<1>1. CASE RestoreAgain \/ LoginRefused \/ SubmitLogin \/ (\E s \in Sessions : SessionEnds(s))
           \/ TokenExpires \/ (\E to \in {"verified", "refused"} : Verified(to))
  BY <1>1 DEF RestoreAgain, Renewed, LoginRefused, SubmitLogin, SessionEnds, TokenExpires,
     Verified
<1>2. CASE RedirectToLogin \/ RecallRedirect \/ LeaveLogin
           \/ (\E to \in {"asked", "login"} : Follow(to))
  BY <1>2 DEF RedirectToLogin, Visits, RecallRedirect, LeaveLogin, Follow
<1>3. CASE LoggedOut \/ GoogleFails \/ Reload \/ GoogleSucceeds
  BY <1>3 DEF LoggedOut, Loaded, GoogleFails, Reload, GoogleSucceeds, OpenSession
<1>4. CASE (\E c \in WebCalls : Serve(c)) \/ (\E c \in WebCalls : Unauthorized(c))
           \/ LoginAccepted \/ LoginFails \/ QueryAnswered
  BY <1>4 DEF Serve, Unauthorized, Renewed, LoginAccepted, OpenSession, LoginFails,
     QueryAnswered
<1>5. CASE ClickLogout \/ SendQuery \/ AskUser \/ AskUserFails
  BY <1>5 DEF ClickLogout, Sending, SendQuery, AskUser, MeMayBeAsked, AskUserFails
<1>6. CASE RefreshSucceeds
  BY <1>6 DEF RefreshSucceeds, Retried
<1>7. CASE RefreshRejected
  BY <1>7 DEF RefreshRejected, LogOut, Shown, GivenUp, ShowGivenUp, Sending
<1>8. CASE RefreshUnanswered
  BY <1>8 DEF RefreshUnanswered, OutageSeen, NextTry, GivenUp, ShowGivenUp, Sending
<1>9. CASE RestoreUnanswered
  BY <1>9 DEF RestoreUnanswered, OutageSeen, NextTry
<1>10. CASE Restored
  <2>1. CASE NothingToRestore
    BY <1>10, <2>1 DEF Restored, NothingToRestore
  <2>2. CASE ~NothingToRestore
    <3>1. call["restore"].as # None
      BY <1>10 DEF Restored, Tokened, Sent, WebCalls
    <3>2. store' = [user |-> Owner(call["restore"].as), new |-> call["restore"].new,
                    session |-> call["restore"].as, isAuthenticated |-> TRUE, isReady |-> TRUE]
      BY <1>10, <2>2 DEF Restored, LogIn, Shown
    <3>3. hint' = TRUE
      BY <1>10, <2>2 DEF Restored, LogIn
    <3> QED
      BY <3>1, <3>2, <3>3
  <2> QED
    BY <2>1, <2>2
<1>11. CASE LoggedIn
  <2>1. call["login"].as # None
    BY <1>11 DEF LoggedIn, Tokened, Sent, WebCalls
  <2> QED
    BY <1>11, <2>1 DEF LoggedIn, LogIn, Shown
<1>12. CASE SetUser
  BY <1>12 DEF SetUser, Shown, Forgotten
<1>13. CASE ClickGoogle
  BY <1>13 DEF ClickGoogle
<1>14. CASE UNCHANGED signVars
  BY <1>14 DEF signVars
<1> QED
  BY <1>1, <1>2, <1>3, <1>4, <1>5, <1>6, <1>7, <1>8, <1>9, <1>10, <1>11, <1>12, <1>13, <1>14
  DEF SignNext, Refreshed, Answered

\* One login at a time, which keeps the session it was given.
LEMMA SignStepOneLogin ==
  SignTypeOK /\ Tokened /\ Sent /\ OneLogin /\ [SignNext]_signVars => OneLogin'
<1> SUFFICES ASSUME SignTypeOK, Tokened, Sent, OneLogin, [SignNext]_signVars
             PROVE  OneLogin'
  OBVIOUS
<1> USE DEF jarVars, apiVars, placeVars, documentVars, NoFault, Fault, SignTypeOK, Calls,
            WebCalls, NoCall, Logins, MaybeMember, Guarded, OneLogin
<1>1. CASE RestoreAgain \/ LoginRefused \/ (\E s \in Sessions : SessionEnds(s)) \/ TokenExpires
           \/ (\E to \in {"verified", "refused"} : Verified(to))
  BY <1>1 DEF RestoreAgain, Renewed, LoginRefused, SessionEnds, TokenExpires, Verified
<1>2. CASE RedirectToLogin \/ RecallRedirect \/ LeaveLogin
           \/ (\E to \in {"asked", "login"} : Follow(to))
  BY <1>2 DEF RedirectToLogin, Visits, RecallRedirect, LeaveLogin, Follow
<1>3. CASE LoggedOut \/ GoogleFails \/ Reload \/ GoogleSucceeds
  BY <1>3 DEF LoggedOut, Loaded, GoogleFails, Reload, GoogleSucceeds, OpenSession
<1>4. CASE RestoreUnanswered \/ LoginFails \/ QueryAnswered
  BY <1>4 DEF RestoreUnanswered, OutageSeen, NextTry, LoginFails, QueryAnswered
<1>5. CASE Restored \/ LoggedIn \/ SetUser
  BY <1>5 DEF Restored, NothingToRestore, LogIn, Shown, Forgotten, LoggedIn, SetUser
<1>6. CASE RefreshSucceeds
  BY <1>6 DEF RefreshSucceeds, Retried
<1>7. CASE RefreshRejected
  BY <1>7 DEF RefreshRejected, LogOut, Shown, GivenUp, ShowGivenUp, Sending
<1>8. CASE RefreshUnanswered
  BY <1>8 DEF RefreshUnanswered, OutageSeen, NextTry, GivenUp, ShowGivenUp, Sending
<1>9. CASE \E c \in WebCalls : Serve(c)
  BY <1>9 DEF Serve
<1>10. CASE \E c \in WebCalls : Unauthorized(c)
  BY <1>10 DEF Unauthorized, Renewed
<1>11. CASE LoginAccepted
  <2>1. cookie' # None /\ Owner(cookie') = signing.user /\ path \notin {"verify", "google"}
    BY <1>11, SessionIsNew DEF LoginAccepted, OpenSession
  <2> QED
    BY <1>11, <2>1 DEF LoginAccepted
<1>12. CASE SubmitLogin
  BY <1>12 DEF SubmitLogin
<1>13. CASE ClickLogout
  BY <1>13 DEF ClickLogout, Sending
<1>14. CASE ClickGoogle
  BY <1>14 DEF ClickGoogle
<1>15. CASE SendQuery
  BY <1>15 DEF SendQuery, Sending
<1>16. CASE AskUser
  BY <1>16 DEF AskUser, Sending, MeMayBeAsked
<1>17. CASE AskUserFails
  BY <1>17 DEF AskUserFails, Sending
<1>18. CASE UNCHANGED signVars
  BY <1>18 DEF signVars
<1> QED
  BY <1>1, <1>2, <1>3, <1>4, <1>5, <1>6, <1>7, <1>8, <1>9, <1>10, <1>11, <1>12, <1>13,
     <1>14, <1>15, <1>16, <1>17, <1>18
  DEF SignNext, Refreshed, Answered

\* Whatever is under way and will be stored is of the cookie, unless something crossed.
LEMMA SignStepOfTheCookie == SignInv /\ [SignNext]_signVars => OfTheCookie'
<1> SUFFICES ASSUME SignInv, [SignNext]_signVars
             PROVE  OfTheCookie'
  OBVIOUS
<1> USE DEF jarVars, apiVars, placeVars, documentVars, NoFault, Fault, SignInv, SignTypeOK,
            Calls, WebCalls, NoCall, Tokened, Sent, InStore, OneLogin, Stores, Nobody, Refreshes,
            Logins, MaybeSession, NoRefresh, OfTheCookie, AskedLast, Asked
<1>1. CASE RedirectToLogin \/ RecallRedirect \/ LeaveLogin
           \/ (\E to \in {"asked", "login"} : Follow(to))
           \/ (\E to \in {"verified", "refused"} : Verified(to)) \/ LoginRefused \/ SubmitLogin
           \/ (\E s \in Sessions : SessionEnds(s)) \/ TokenExpires \/ RestoreAgain
  BY <1>1 DEF RedirectToLogin, Visits, RecallRedirect, LeaveLogin, Follow, Verified,
     LoginRefused, SubmitLogin, SessionEnds, TokenExpires, RestoreAgain, Renewed
<1>2. CASE RefreshSucceeds
  BY <1>2 DEF RefreshSucceeds, Retried
<1>3. CASE RefreshRejected
  BY <1>3 DEF RefreshRejected, LogOut, Shown, GivenUp, ShowGivenUp, Sending
<1>4. CASE RefreshUnanswered
  BY <1>4 DEF RefreshUnanswered, OutageSeen, NextTry, GivenUp, ShowGivenUp, Sending
<1>5. CASE RestoreUnanswered
  BY <1>5 DEF RestoreUnanswered, OutageSeen, NextTry
<1>6. CASE \E c \in WebCalls : Serve(c)
  BY <1>6 DEF Serve
<1>7. CASE \E c \in WebCalls : Unauthorized(c)
  BY <1>7 DEF Unauthorized, Renewed
<1>8. CASE Restored
  BY <1>8 DEF Restored, NothingToRestore, LogIn, Shown, Forgotten
<1>9. CASE LoginAccepted
  BY <1>9 DEF LoginAccepted, OpenSession
<1>10. CASE LoggedIn
  BY <1>10 DEF LoggedIn, LogIn, Shown, Forgotten
<1>11. CASE LoggedOut
  BY <1>11 DEF LoggedOut, Loaded
<1>12. CASE QueryAnswered
  BY <1>12 DEF QueryAnswered
<1>13. CASE SetUser
  BY <1>13 DEF SetUser, Shown, Forgotten
<1>14. CASE LoginFails
  BY <1>14 DEF LoginFails
<1>15. CASE ClickLogout
  BY <1>15 DEF ClickLogout, Sending
<1>16. CASE ClickGoogle
  BY <1>16 DEF ClickGoogle
<1>17. CASE GoogleSucceeds
  BY <1>17 DEF GoogleSucceeds, OpenSession, Loaded
<1>18. CASE GoogleFails
  BY <1>18 DEF GoogleFails, Loaded
<1>19. CASE Reload
  BY <1>19 DEF Reload, Loaded
<1>20. CASE SendQuery
  BY <1>20 DEF SendQuery, Sending
<1>21. CASE AskUser
  BY <1>21 DEF AskUser, Sending, MeMayBeAsked
<1>22. CASE AskUserFails
  BY <1>22 DEF AskUserFails, Sending
<1>23. CASE UNCHANGED signVars
  BY <1>23 DEF signVars
<1> QED
  BY <1>1, <1>2, <1>3, <1>4, <1>5, <1>6, <1>7, <1>8, <1>9, <1>10, <1>11, <1>12, <1>13,
     <1>14, <1>15, <1>16, <1>17, <1>18, <1>19, <1>20, <1>21, <1>22, <1>23
  DEF SignNext, Refreshed, Answered

\* The user who is shown after a verification was asked for after it.
LEMMA SignStepAskedLast == SignInv /\ [SignNext]_signVars => AskedLast'
<1> SUFFICES ASSUME SignInv, [SignNext]_signVars
             PROVE  AskedLast'
  OBVIOUS
<1> USE DEF jarVars, apiVars, placeVars, documentVars, NoFault, Fault, SignInv, SignTypeOK,
            Calls, WebCalls, NoCall, Tokened, Sent, InStore, OneLogin, Stores, Nobody, Refreshes,
            Logins, MaybeSession, Guarded, Asked, OfTheCookie, AskedLast
<1>1. CASE RedirectToLogin \/ RecallRedirect \/ LeaveLogin
           \/ (\E to \in {"asked", "login"} : Follow(to)) \/ LoginRefused \/ SubmitLogin
           \/ (\E s \in Sessions : SessionEnds(s)) \/ TokenExpires
  BY <1>1 DEF RedirectToLogin, Visits, RecallRedirect, LeaveLogin, Follow, LoginRefused,
     SubmitLogin, SessionEnds, TokenExpires
<1>2. CASE RefreshSucceeds
  BY <1>2 DEF RefreshSucceeds, Retried
<1>3. CASE RefreshRejected
  <2>1. call'["show"] = GivenUp(None)["show"] /\ call'["login"] = GivenUp(None)["login"]
    BY <1>3, CallsRemainCalls DEF RefreshRejected
  <2>2. /\ verifying' = ShowGivenUp /\ UNCHANGED <<path, moved, signing, crossed>>
        /\ ~store'.isAuthenticated /\ restoring' = (IF restoring = "refresh" THEN "done" ELSE restoring)
    BY <1>3 DEF RefreshRejected, LogOut, Shown
  <2>3. \/ call["login"].at # "renewing" /\ call'["login"] = call["login"]
        \/ call'["login"] = NoCall
    BY <2>1, GivenUpCalls
  <2> HIDE DEF NoCall
  <2>4. CASE call["show"].at = "renewing"
    BY <2>1, <2>2, <2>3, <2>4, GivenUpCalls, SentCalls
  <2>5. CASE call["show"].at # "renewing"
    BY <2>1, <2>2, <2>3, <2>5, GivenUpCalls, SentCalls
  <2> QED
    BY <2>4, <2>5
<1>4. CASE RefreshUnanswered
  <2> DEFINE s == store.session
  <2>1. call' = GivenUp(s) /\ s \in MaybeSession
    BY <1>4 DEF RefreshUnanswered
  <2>2. /\ verifying' = ShowGivenUp /\ UNCHANGED <<path, moved, signing, crossed>>
        /\ store'.isAuthenticated = store.isAuthenticated
        /\ store'.user = store.user /\ store'.new = store.new
        /\ restoring # "refresh" => restoring' = restoring
        /\ (restoring = "refresh" /\ store.isAuthenticated) => restoring' = "done"
    BY <1>4 DEF RefreshUnanswered, OutageSeen
  <2>3. \/ call["login"].at # "renewing" /\ call'["login"] = call["login"]
        \/ call'["login"] = NoCall
    BY <2>1, GivenUpCalls
  <2> HIDE DEF NoCall
  <2>4. CASE call["show"].at = "renewing"
    BY <2>1, <2>2, <2>3, <2>4, GivenUpCalls, SentCalls
  <2>5. CASE call["show"].at # "renewing"
    BY <2>1, <2>2, <2>3, <2>5, GivenUpCalls, SentCalls
  <2> QED
    BY <2>4, <2>5
<1>5. CASE RestoreAgain
  BY <1>5 DEF RestoreAgain, Renewed
<1>6. CASE RestoreUnanswered
  BY <1>6 DEF RestoreUnanswered, OutageSeen, NextTry
<1>7. CASE \E c \in WebCalls : Serve(c)
  BY <1>7 DEF Serve
<1>8. CASE \E c \in WebCalls : Unauthorized(c)
  BY <1>8 DEF Unauthorized, Renewed
<1>9. CASE Restored
  BY <1>9 DEF Restored, NothingToRestore, LogIn, Shown, Forgotten
<1>10. CASE LoginAccepted
  BY <1>10 DEF LoginAccepted, OpenSession
<1>11. CASE LoggedIn
  BY <1>11 DEF LoggedIn, LogIn, Shown, Forgotten
<1>12. CASE LoggedOut
  BY <1>12 DEF LoggedOut, Loaded
<1>13. CASE QueryAnswered
  BY <1>13 DEF QueryAnswered
<1>14. CASE SetUser
  BY <1>14 DEF SetUser, Shown, Forgotten
<1>15. CASE LoginFails
  BY <1>15 DEF LoginFails
<1>16. CASE ClickLogout
  BY <1>16 DEF ClickLogout, Sending
<1>17. CASE ClickGoogle
  BY <1>17 DEF ClickGoogle
<1>18. CASE GoogleSucceeds
  BY <1>18 DEF GoogleSucceeds, OpenSession, Loaded
<1>19. CASE GoogleFails
  BY <1>19 DEF GoogleFails, Loaded
<1>20. CASE Reload
  BY <1>20 DEF Reload, Loaded
<1>21. CASE SendQuery
  BY <1>21 DEF SendQuery, Sending
<1>22. CASE \E to \in {"verified", "refused"} : Verified(to)
  BY <1>22 DEF Verified
<1>23. CASE AskUser
  BY <1>23 DEF AskUser, Sending, MeMayBeAsked
<1>24. CASE AskUserFails
  BY <1>24 DEF AskUserFails, Sending
<1>25. CASE UNCHANGED signVars
  BY <1>25 DEF signVars
<1> QED
  BY <1>1, <1>2, <1>3, <1>4, <1>5, <1>6, <1>7, <1>8, <1>9, <1>10, <1>11, <1>12, <1>13,
     <1>14, <1>15, <1>16, <1>17, <1>18, <1>19, <1>20, <1>21, <1>22, <1>23, <1>24, <1>25
  DEF SignNext, Refreshed, Answered

\* The invariant of the page is inductive.
THEOREM SignInvariance == SignSpec => []SignInv
<1>1. SignInit => SignInv
  <2> SUFFICES ASSUME SignInit PROVE SignInv
    OBVIOUS
  <2>1. PICK u \in Members :
          /\ cookie = <<u, 0>> /\ hint = TRUE /\ saved = None /\ alive \in {{}, {<<u, 0>>}}
          /\ opened = 0 /\ moved = FALSE /\ path \in {"asked", "verify"} /\ redirect = None
          /\ store = Nobody /\ refresh = [under |-> TRUE, presents |-> cookie]
          /\ call = [c \in WebCalls |-> NoCall] /\ restoring = "refresh"
          /\ signing = [at |-> "idle", user |-> None]
          /\ verifying = (IF path = "verify" THEN "posting" ELSE "none") /\ crossed = FALSE
    BY DEF SignInit
  <2>2. <<u, 0>> \in Sessions
    BY SignAssumption DEF Sessions
  <2>3. NoCall \in Calls /\ Nobody \in Stores /\ refresh \in Refreshes /\ signing \in Logins
    BY <2>1, <2>2 DEF NoCall, Nobody, Calls, Stores, Refreshes, Logins, MaybeSession, MaybeMember
  <2>4. call \in [WebCalls -> Calls] /\ alive \in SUBSET Sessions
    BY <2>1, <2>2, <2>3
  <2>5. SignTypeOK
    <3>1. cookie \in MaybeSession /\ opened \in 0..MaxLogins
      BY <2>1, <2>2 DEF MaybeSession
    <3>2. verifying \in {"none", "posting", "verified", "refused"} \cup Asked
      BY <2>1
    <3>3. store \in Stores
      BY <2>1, <2>3
    <3>4. /\ path \in Guarded \cup {"verify", "login", "google", "home"}
          /\ saved \in Guarded \cup {None} /\ redirect \in Guarded \cup {None}
      BY <2>1 DEF Guarded
    <3> QED
      BY <2>1, <2>3, <2>4, <3>1, <3>2, <3>3, <3>4 DEF SignTypeOK
  <2>6. Tokened /\ Sent /\ InStore /\ OneLogin
    BY <2>1 DEF Tokened, Sent, InStore, OneLogin, Nobody, NoCall, WebCalls
  <2>7. OfTheCookie /\ AskedLast
    BY <2>1 DEF OfTheCookie, AskedLast, Asked, Nobody, NoCall, WebCalls
  <2> QED
    BY <2>5, <2>6, <2>7 DEF SignInv
<1>2. SignInv /\ [SignNext]_signVars => SignInv'
  BY SignStepType, SignStepTokened, SignStepSent, SignStepInStore, SignStepOneLogin,
     SignStepOfTheCookie, SignStepAskedLast DEF SignInv
<1> QED
  BY <1>1, <1>2, PTL DEF SignSpec

\* Unless a login crossed an answer on its way, the user a page shows, its token and its
\* cookie are of one session (auth-initializer.tsx:26, auth.store.ts:28).
THEOREM SignedInAsOne == SignSpec => []OneSession
<1>1. SignInv => OneSession
  BY DEF SignInv, InStore, OfTheCookie, AskedLast, OneSession
<1> QED
  BY <1>1, SignInvariance, PTL
=============================================================================
