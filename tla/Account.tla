------------------------------ MODULE Account ------------------------------
(***************************************************************************)
(* The accounts of apps/api/src/auth: registration, login, Google login,   *)
(* reset of the password, verification and change of the address.  Each    *)
(* request awaits the database between its steps, so that the steps of     *)
(* several requests about one account interleave; a transaction is one     *)
(* step, for MySQL locks what it reads and writes.                         *)
(*                                                                         *)
(* A password is the number of its version: a login succeeds with the      *)
(* version it reads.  A link is a row of email_verification, a reset a row *)
(* of password_reset_tokens; what was emailed may be opened at any time.   *)
(***************************************************************************)
EXTENDS ApiRequests, Naturals, Sequences, FiniteSets

CONSTANTS Users,       \* ids of accounts, each given once
          Emails,      \* normalized addresses
          MaxLinks,    \* modelling bound: rows of email_verification
          MaxResets,   \* modelling bound: rows of password_reset_tokens
          MaxSecrets,  \* modelling bound: passwords of an account
          MaxSessions, \* modelling bound: rows of refresh_sessions
          MaxChanges   \* EMAIL_CHANGE_MAX_PER_WINDOW

ASSUME AccountAssumption ==
    /\ None \notin Users \cup Emails
    /\ MaxLinks \in Nat /\ MaxResets \in Nat

VARIABLES user,      \* the row of each account
          sessions,  \* the rows of refresh_sessions
          links,     \* the rows of email_verification, in order
          resets,    \* the rows of password_reset_tokens, in order
          request,   \* what each request is doing
          proven,    \* history: <<u, e>>, the owner of e opened a link about u
          uses       \* history: successful uses of each link and each reset

accountVars == <<user, sessions, links, resets, request, proven, uses>>

NoAccount == [email |-> None, verified |-> FALSE, secret |-> 0]
Asking(step, u, e) ==
    [step |-> step, user |-> u, email |-> e, new |-> FALSE, id |-> 0, under |-> 0, raced |-> FALSE]
NoRequest == Asking("idle", None, None)

AccountInit ==
    /\ user = [u \in Users |-> NoAccount]
    /\ sessions = {}
    /\ links = <<>>
    /\ resets = <<>>
    /\ request = [r \in Requests |-> NoRequest]
    /\ proven = {}
    /\ uses = [link |-> [l \in 1..MaxLinks |-> 0], reset |-> [t \in 1..MaxResets |-> 0]]

-----------------------------------------------------------------------------
Exists(u) == u \in Users /\ user[u].email # None
Owners(e) == {u \in Users : user[u].email = e}

\* An id that was never given, nor is about to be.
Fresh(u) == user[u].secret = 0 /\ \A q \in Requests : request[q].user # u

\* What a request remembers from one await to the next.
Begin(r, asked) ==
    /\ request[r].step = "idle"
    /\ request' = [request EXCEPT ![r] = asked]
At(r, step) == request[r].step = step
Continue(r, step) == request' = [request EXCEPT ![r].step = step]
End(r) == request' = [request EXCEPT ![r] = NoRequest]
Issuing(u, secret) == [Asking("issuing", u, None) EXCEPT !.under = secret]

\* Requests about u that go on with what they read before its password changed.
Overtaken(r, next) ==
    request' = [q \in Requests |->
        IF q = r THEN next
        ELSE IF request[q].user = request[r].user /\ request[q].under # 0
             THEN [request[q] EXCEPT !.raced = TRUE] ELSE request[q]]

\* A row nobody can use any more keeps what the limit of changes counts.
Closed(link, status) == [link EXCEPT !.status = status, !.to = None, !.under = 0, !.raced = FALSE]

IsPending(link) == link.status = "pending"

\* updateMany: the links of u are revoked.
Revoked(u) ==
    [l \in DOMAIN links |->
        IF links[l].user = u /\ links[l].status # "gone"
        THEN Closed(links[l], "closed") ELSE links[l]]

Use(kind, i) == uses' = [uses EXCEPT ![kind][i] = @ + 1]

-----------------------------------------------------------------------------
(* Registration, and the links that verify an address                      *)

\* The address is free: anything else ends the request before it writes.
Register(r, u, e) ==
    /\ Fresh(u)
    /\ Owners(e) = {}
    /\ Begin(r, Asking("creating", u, e))
    /\ UNCHANGED <<user, sessions, links, resets, proven, uses>>

\* The unique index decides between registrations of one address.
CreateUser(r) ==
    /\ At(r, "creating")
    /\ IF Owners(request[r].email) = {}
       THEN /\ user' = [user EXCEPT ![request[r].user] =
                 [email |-> request[r].email, verified |-> FALSE, secret |-> 1]]
            /\ Continue(r, "sending")
       ELSE End(r) /\ UNCHANGED user
    /\ UNCHANGED <<sessions, links, resets, proven, uses>>

\* Variant: a new link does not revoke the ones before.
SendAnotherLink(r) ==
    /\ At(r, "sending")
    /\ Len(links) < MaxLinks
    /\ Exists(request[r].user)
    /\ links' = Append(links,
         [user |-> request[r].user, to |-> request[r].email, new |-> request[r].new,
          status |-> "pending", under |-> request[r].under, raced |-> request[r].raced])
    /\ End(r)
    /\ UNCHANGED <<user, sessions, resets, proven, uses>>

\* sendVerificationEmail: the new row replaces every other one of the account.
SendLink(r) ==
    /\ At(r, "sending")
    /\ Len(links) < MaxLinks
    /\ IF Exists(request[r].user)
       THEN links' = Append(Revoked(request[r].user),
              [user |-> request[r].user, to |-> request[r].email, new |-> request[r].new,
               status |-> "pending", under |-> request[r].under, raced |-> request[r].raced])
       ELSE UNCHANGED links
    /\ End(r)
    /\ UNCHANGED <<user, sessions, resets, proven, uses>>

\* Only an account that is not verified yet.
ResendLink(r, u) ==
    /\ Exists(u)
    /\ ~user[u].verified
    /\ Begin(r, Asking("sending", u, user[u].email))
    /\ UNCHANGED <<user, sessions, links, resets, proven, uses>>

\* An expired link is not found, which is the same as not opening it.
FindLink(r, l) ==
    /\ IsPending(links[l])
    /\ LET step == IF links[l].new THEN "checking" ELSE "confirming"
       IN  Begin(r, [Asking(step, links[l].user, links[l].to) EXCEPT
                       !.new = links[l].new, !.id = l])
    /\ UNCHANGED <<user, sessions, links, resets, proven, uses>>

\* The new address belongs to another account meanwhile: 409.
Taken(r) == Owners(request[r].email) \ {request[r].user} # {}

CheckOwner(r) ==
    /\ At(r, "checking")
    /\ IF Taken(r) THEN End(r) ELSE Continue(r, "confirming")
    /\ UNCHANGED <<user, sessions, links, resets, proven, uses>>

\* Variant: the row is updated by its id alone.
ConfirmableAgain(l) == links[l].status # "gone"

\* updateMany where status is pending: only one request consumes the link.
Confirmable(l) == IsPending(links[l])

ConfirmLink(r) ==
    /\ At(r, "confirming")
    /\ LET l == request[r].id
           u == request[r].user
       IN  IF Confirmable(l) /\ ~(request[r].new /\ Taken(r))
           THEN /\ links' = [links EXCEPT ![l] = Closed(@, "closed")]
                /\ user' = [user EXCEPT ![u].verified = TRUE,
                              ![u].email = IF request[r].new THEN request[r].email ELSE @]
                /\ proven' = proven \cup {<<u, links[l].to>>}
                /\ Use("link", l)
           ELSE UNCHANGED <<links, user, proven, uses>>
    /\ End(r)
    /\ UNCHANGED <<sessions, resets>>

-----------------------------------------------------------------------------
(* Sessions                                                                *)

\* The password was compared with the row that was read.
Login(r, u) ==
    /\ Exists(u)
    /\ user[u].verified
    /\ Begin(r, Issuing(u, user[u].secret))
    /\ UNCHANGED <<user, sessions, links, resets, proven, uses>>

IssueTokens(r) ==
    /\ At(r, "issuing")
    /\ Cardinality(sessions) < MaxSessions
    /\ sessions' = IF Exists(request[r].user)
                   THEN sessions \cup {[user |-> request[r].user, under |-> request[r].under,
                                        raced |-> request[r].raced]}
                   ELSE sessions
    /\ End(r)
    /\ UNCHANGED <<user, links, resets, proven, uses>>

\* Logout, reuse or expiry of a session.
EndSession(s) ==
    /\ s \in sessions
    /\ sessions' = sessions \ {s}
    /\ UNCHANGED <<user, links, resets, request, proven, uses>>

SessionsWithout(u) == {s \in sessions : s.user # u}

-----------------------------------------------------------------------------
(* Google                                                                  *)

\* The account of a verified Google address, which may have to be created, or
\* taken over from whoever registered it without verifying it.
GoogleLogin(r, e) ==
    /\ \/ /\ Owners(e) = {}
          /\ \E u \in Users : Fresh(u) /\ Begin(r, Asking("opening", u, e))
       \/ \E u \in Owners(e) :
            IF user[u].verified
            THEN Begin(r, Issuing(u, user[u].secret))
            ELSE Begin(r, Asking("claiming", u, e))
    /\ UNCHANGED <<user, sessions, links, resets, proven, uses>>

CreateGoogleUser(r) ==
    /\ At(r, "opening")
    /\ IF Owners(request[r].email) = {}
       THEN /\ user' = [user EXCEPT ![request[r].user] =
                 [email |-> request[r].email, verified |-> TRUE, secret |-> 1]]
            /\ proven' = proven \cup {<<request[r].user, request[r].email>>}
            /\ request' = [request EXCEPT ![r] = Issuing(request[r].user, 1)]
       ELSE End(r) /\ UNCHANGED <<user, proven>>
    /\ UNCHANGED <<sessions, links, resets, uses>>

\* One transaction: a password nobody knows, no session, no pending link.
ClaimAccount(r) ==
    /\ At(r, "claiming")
    /\ LET u == request[r].user
           secret == user[u].secret + 1
       IN  IF Exists(u)
           THEN /\ secret <= MaxSecrets
                /\ user' = [user EXCEPT ![u].verified = TRUE, ![u].secret = secret]
                /\ sessions' = SessionsWithout(u)
                /\ links' = Revoked(u)
                /\ proven' = proven \cup {<<u, request[r].email>>}
                /\ Overtaken(r, Issuing(u, secret))
           ELSE End(r) /\ UNCHANGED <<user, sessions, links, proven>>
    /\ UNCHANGED <<resets, uses>>

-----------------------------------------------------------------------------
(* The reset of a password                                                 *)

ForgotPassword(r, u) ==
    /\ Exists(u)
    /\ Begin(r, Asking("resetting", u, user[u].email))
    /\ UNCHANGED <<user, sessions, links, resets, proven, uses>>

\* A new request replaces the previous token.
WithoutResets(u) ==
    [t \in DOMAIN resets |->
        IF resets[t].user = u THEN [resets[t] EXCEPT !.status = "gone"] ELSE resets[t]]

SendResetLink(r) ==
    /\ At(r, "resetting")
    /\ Len(resets) < MaxResets
    /\ IF Exists(request[r].user)
       THEN resets' = Append(WithoutResets(request[r].user),
              [user |-> request[r].user, to |-> request[r].email,
               status |-> "stored"])
       ELSE UNCHANGED resets
    /\ End(r)
    /\ UNCHANGED <<user, sessions, links, proven, uses>>

FindReset(r, t) ==
    /\ resets[t].status = "stored"
    /\ Begin(r, [Asking("changing", resets[t].user, resets[t].to) EXCEPT !.id = t])
    /\ UNCHANGED <<user, sessions, links, resets, proven, uses>>

\* Variant: a reset leaves the sessions alone.
SessionsKept(u) == sessions

\* Every device is logged out.
SessionsAfterReset(u) == SessionsWithout(u)

\* One transaction; the request that deletes the token changes the password.
ResetPassword(r) ==
    /\ At(r, "changing")
    /\ LET t == request[r].id
           u == request[r].user
       IN  IF resets[t].status # "gone"
           THEN /\ user[u].secret < MaxSecrets
                /\ resets' = WithoutResets(u)
                /\ user' = [user EXCEPT ![u].verified = TRUE, ![u].secret = @ + 1]
                /\ sessions' = SessionsAfterReset(u)
                /\ links' = Revoked(u)
                /\ proven' = proven \cup {<<u, resets[t].to>>}
                /\ Use("reset", t)
                /\ Overtaken(r, NoRequest)
           ELSE End(r) /\ UNCHANGED <<resets, user, sessions, links, proven, uses>>

-----------------------------------------------------------------------------
(* The change of an address                                                *)

RequestEmailChange(r, u, e) ==
    /\ Exists(u)
    /\ user[u].verified
    /\ e # user[u].email
    /\ Begin(r, [Asking("counting", u, e) EXCEPT !.new = TRUE, !.under = user[u].secret])
    /\ UNCHANGED <<user, sessions, links, resets, proven, uses>>

\* The requests of u for a change.
ChangesOf(u) == {l \in DOMAIN links : links[l].user = u /\ links[l].new /\ links[l].status # "gone"}

TooManyChanges(recent) == Cardinality(recent) >= MaxChanges

\* Those of the last EMAIL_CHANGE_WINDOW_MS: any of them may be older.
CountChanges(r) ==
    /\ At(r, "counting")
    /\ \E recent \in SUBSET ChangesOf(request[r].user) :
         IF TooManyChanges(recent) THEN End(r) ELSE Continue(r, "choosing")
    /\ UNCHANGED <<user, sessions, links, resets, proven, uses>>

CheckAddress(r) ==
    /\ At(r, "choosing")
    /\ IF Taken(r) THEN End(r) ELSE Continue(r, "sending")
    /\ UNCHANGED <<user, sessions, links, resets, proven, uses>>

-----------------------------------------------------------------------------
(* Maintenance and failures                                                *)

\* cleanupExpired: accounts never verified, with all that refers to them.  The
\* links and resets it deletes expired long before, and no request uses them.
CleanupUser(u) ==
    /\ Exists(u)
    /\ ~user[u].verified
    /\ user' = [user EXCEPT ![u].email = None]
    /\ sessions' = SessionsWithout(u)
    /\ links' = [l \in DOMAIN links |->
                    IF links[l].user = u THEN Closed(links[l], "gone") ELSE links[l]]
    /\ resets' = WithoutResets(u)
    /\ UNCHANGED <<request, proven, uses>>

\* A query fails, or the process stops, between two awaits.
StopRequest(r) ==
    /\ request[r].step # "idle"
    /\ End(r)
    /\ UNCHANGED <<user, sessions, links, resets, proven, uses>>

-----------------------------------------------------------------------------
HandleAccount(r) ==
    \/ \E u \in Users, e \in Emails : Register(r, u, e) \/ RequestEmailChange(r, u, e)
    \/ \E u \in Users : ResendLink(r, u) \/ Login(r, u) \/ ForgotPassword(r, u)
    \/ \E l \in DOMAIN links : FindLink(r, l)
    \/ \E t \in DOMAIN resets : FindReset(r, t)
    \/ \E e \in Emails : GoogleLogin(r, e)
    \/ CreateUser(r) \/ SendLink(r) \/ CheckOwner(r) \/ ConfirmLink(r)
    \/ IssueTokens(r) \/ CreateGoogleUser(r) \/ ClaimAccount(r)
    \/ SendResetLink(r) \/ ResetPassword(r)
    \/ CountChanges(r) \/ CheckAddress(r)
    \/ StopRequest(r)

AccountNext ==
    \/ \E r \in Requests : HandleAccount(r)
    \/ \E s \in sessions : EndSession(s)
    \/ \E u \in Users : CleanupUser(u)

AccountSpec == AccountInit /\ [][AccountNext]_accountVars

-----------------------------------------------------------------------------
(* Properties                                                              *)

\* Whatever was obtained with a password ends when it is replaced: a session, or
\* a pending change of the address, that outlives it comes from a request that
\* was already past its check (password-reset.service.ts:88).
NothingOutlivesReset ==
    /\ \A s \in sessions : s.under = user[s.user].secret \/ s.raced
    /\ \A l \in DOMAIN links :
        links[l].new /\ IsPending(links[l]) =>
            links[l].under = user[links[l].user].secret \/ links[l].raced

\* An account is verified with the address it has: whoever owns that address
\* opened a link sent there, whatever links, changes and resets overlap
\* (email-verification.service.ts:76).
VerifiedIsProven ==
    \A u \in Users : Exists(u) /\ user[u].verified => <<u, user[u].email>> \in proven

\* A link or a reset works once, however many requests present it, and one link
\* of an account at a time (email-verification.service.ts:69).
LinksWorkOnce ==
    /\ \A l \in DOMAIN links : uses.link[l] <= 1
    /\ \A t \in DOMAIN resets : uses.reset[t] <= 1
    /\ \A l, m \in DOMAIN links :
        links[l].user = links[m].user /\ IsPending(links[l]) /\ IsPending(links[m]) => l = m

-----------------------------------------------------------------------------
(* The inductive invariant behind the three                                *)

Steps == {"idle", "creating", "sending", "checking", "confirming", "issuing", "opening",
          "claiming", "resetting", "changing", "counting", "choosing"}
Addresses == Emails \cup {None}
RequestRecords == [step : Steps, user : Users \cup {None}, email : Addresses, new : BOOLEAN,
                   id : Nat, under : Nat, raced : BOOLEAN]
Links == [user : Users, to : Addresses, new : BOOLEAN,
          status : {"pending", "closed", "gone"}, under : Nat, raced : BOOLEAN]
Resets == [user : Users, to : Addresses, status : {"stored", "gone"}]

AccountTypeOK ==
    /\ user \in [Users -> [email : Addresses, verified : BOOLEAN, secret : Nat]]
    /\ sessions \in SUBSET [user : Users, under : Nat, raced : BOOLEAN]
    /\ links \in Seq(Links) /\ Len(links) <= MaxLinks
    /\ resets \in Seq(Resets) /\ Len(resets) <= MaxResets
    /\ request \in [Requests -> RequestRecords]
    /\ proven \in SUBSET (Users \X Addresses)
    /\ uses \in [link : [1..MaxLinks -> Nat], reset : [1..MaxResets -> Nat]]

\* The id was given; before, one request at most is about to give it.
Given(u) == u \in Users /\ user[u].secret > 0
Creating(x) == x.step \in {"creating", "opening"}
Unverified(u) == Exists(u) /\ ~user[u].verified

\* x.under, where there is one, is the password of its owner unless it was raced.
Current(x) == x.under = user[x.user].secret \/ x.raced

\* What a request remembers still says of the rows what it will be used for.
GoodRequest(x) ==
    /\ x.step = "idle" => x = NoRequest
    /\ Creating(x) => x.user \in Users /\ user[x.user].secret = 0 /\ x.under = 0 /\ ~x.new
    /\ x.step # "idle" /\ ~Creating(x) => Given(x.user)
    /\ x.under # 0 => Current(x)
    /\ x.step \in {"counting", "choosing"} => x.new
    /\ \/ x.step = "issuing"
       \/ x.new /\ x.step \in {"counting", "choosing", "sending"}
       => x.under # 0
    /\ x.step \in {"checking", "confirming"} =>
         /\ x.id \in DOMAIN links /\ links[x.id].user = x.user
         /\ IsPending(links[x.id]) => links[x.id].to = x.email /\ links[x.id].new = x.new
    /\ x.step = "changing" => x.id \in DOMAIN resets /\ resets[x.id].user = x.user
    /\ \/ x.step \in {"claiming", "resetting"}
       \/ x.step = "sending" /\ ~x.new
       => (Unverified(x.user) => user[x.user].email = x.email)

GoodLink(l) ==
    /\ Given(links[l].user)
    /\ IsPending(links[l]) =>
         /\ uses.link[l] = 0
         /\ links[l].new => Current(links[l])
         /\ ~links[l].new /\ Unverified(links[l].user) => links[l].to = user[links[l].user].email

GoodReset(t) ==
    /\ Given(resets[t].user)
    /\ resets[t].status = "stored" =>
         /\ uses.reset[t] = 0
         /\ Unverified(resets[t].user) => resets[t].to = user[resets[t].user].email

\* Ids and rows are used at most once, and those to come are new.
UsedOnce ==
    /\ \A l \in 1..MaxLinks : uses.link[l] <= 1 /\ (l > Len(links) => uses.link[l] = 0)
    /\ \A t \in 1..MaxResets : uses.reset[t] <= 1 /\ (t > Len(resets) => uses.reset[t] = 0)
    /\ \A l, m \in DOMAIN links :
        links[l].user = links[m].user /\ IsPending(links[l]) /\ IsPending(links[m]) => l = m

AccountInv ==
    /\ AccountTypeOK
    /\ \A u \in Users : Exists(u) => Given(u)
    /\ \A s \in sessions : Given(s.user) /\ Current(s)
    /\ \A l \in DOMAIN links : GoodLink(l)
    /\ \A t \in DOMAIN resets : GoodReset(t)
    /\ \A r \in Requests : GoodRequest(request[r])
    /\ \A r, q \in Requests :
         Creating(request[r]) /\ request[q].user = request[r].user => q = r
    /\ UsedOnce
    /\ VerifiedIsProven
=============================================================================
