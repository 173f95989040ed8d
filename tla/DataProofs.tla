----------------------------- MODULE DataProofs -----------------------------
(***************************************************************************)
(* Proofs about the data of the users, for any number of accounts,         *)
(* requests, links, resets, sessions, backups, restores and days: the      *)
(* accounts of Account.tla, the dumps of Backup.tla, the streak of         *)
(* DailyStreak.tla and the pages of Journal.tla.                           *)
(***************************************************************************)
EXTENDS Account, Backup, DailyStreak, Journal, FiniteSetTheorems, SequenceTheorems, TLAPS

USE AccountAssumption

\* A function on 1..n is a sequence of length n.
LEMMA SeqOfFunction ==
    ASSUME NEW S, NEW n \in Nat, NEW f \in [1..n -> S]
    PROVE  f \in Seq(S) /\ Len(f) = n /\ DOMAIN f = 1..n
  OBVIOUS

\* One use more is counted, of one link or reset.
LEMMA OneUseMore ==
    ASSUME NEW n, NEW f \in [1..n -> Nat], NEW l \in 1..n, NEW g, g = [f EXCEPT ![l] = @ + 1]
    PROVE  /\ g \in [1..n -> Nat] /\ g[l] = f[l] + 1
           /\ \A m \in 1..n : m # l => g[m] = f[m]
  OBVIOUS

\* The fields of what a request asks.
LEMMA AskingFields ==
    ASSUME NEW step \in Steps, NEW u, u \in Users \/ u = None, NEW e \in Addresses
    PROVE  /\ Asking(step, u, e) \in RequestRecords
           /\ Asking(step, u, e).step = step /\ Asking(step, u, e).user = u
           /\ Asking(step, u, e).email = e /\ ~Asking(step, u, e).new
           /\ Asking(step, u, e).id = 0 /\ Asking(step, u, e).under = 0
  BY DEF Asking, RequestRecords

\* A request that ends remembers nothing.
LEMMA NothingAsked ==
    /\ NoRequest \in RequestRecords /\ NoRequest.step = "idle" /\ ~Creating(NoRequest)
    /\ NoRequest.user = None /\ NoRequest.under = 0 /\ GoodRequest(NoRequest)
  <1>1. /\ NoRequest.step = "idle" /\ NoRequest.user = None /\ NoRequest.under = 0
    BY DEF NoRequest, Asking
  <1>2. NoRequest \in RequestRecords
    BY DEF NoRequest, Asking, RequestRecords, Steps, Addresses
  <1> QED BY <1>1, <1>2 DEF GoodRequest, Creating

-----------------------------------------------------------------------------
(* What the writes do to the rows they leave                               *)

\* A revoked link keeps its owner; one still pending was not touched, and is not of u.
LEMMA RevokedFacts ==
    ASSUME AccountTypeOK, NEW u
    PROVE  /\ Revoked(u) \in Seq(Links) /\ Len(Revoked(u)) = Len(links)
           /\ \A l \in DOMAIN links :
                /\ Revoked(u)[l].user = links[l].user
                /\ IsPending(Revoked(u)[l]) => Revoked(u)[l] = links[l] /\ links[l].user # u
  <1> DEFINE n == Len(links)
             row(l) == IF links[l].user = u /\ links[l].status # "gone"
                       THEN Closed(links[l], "closed") ELSE links[l]
  <1>1. n \in Nat /\ DOMAIN links = 1..n /\ \A l \in 1..n : links[l] \in Links
    BY DEF AccountTypeOK
  <1>2. \A l \in 1..n : /\ row(l) \in Links /\ row(l).user = links[l].user
                        /\ IsPending(row(l)) => row(l) = links[l] /\ links[l].user # u
    BY <1>1 DEF Links, Closed, Addresses, IsPending
  <1> HIDE DEF row
  <1>3. Revoked(u) = [l \in 1..n |-> row(l)]
    BY <1>1 DEF Revoked, row
  <1>4. Revoked(u) \in [1..n -> Links]
    BY <1>2, <1>3
  <1>5. Revoked(u) \in Seq(Links) /\ Len(Revoked(u)) = n
    BY <1>1, <1>4, SeqOfFunction
  <1>6. \A l \in 1..n : Revoked(u)[l] = row(l)
    BY <1>3
  <1> QED BY <1>1, <1>2, <1>5, <1>6

\* A deleted reset keeps its owner; one still stored was not touched, and is not of u.
LEMMA WithoutFacts ==
    ASSUME AccountTypeOK, NEW u
    PROVE  /\ WithoutResets(u) \in Seq(Resets) /\ Len(WithoutResets(u)) = Len(resets)
           /\ \A t \in DOMAIN resets :
                /\ WithoutResets(u)[t].user = resets[t].user
                /\ WithoutResets(u)[t].status = "stored" =>
                     WithoutResets(u)[t] = resets[t] /\ resets[t].user # u
  <1> DEFINE n == Len(resets)
             row(t) == IF resets[t].user = u THEN [resets[t] EXCEPT !.status = "gone"] ELSE resets[t]
  <1>1. n \in Nat /\ DOMAIN resets = 1..n /\ \A t \in 1..n : resets[t] \in Resets
    BY DEF AccountTypeOK
  <1>2. \A t \in 1..n : /\ row(t) \in Resets /\ row(t).user = resets[t].user
                        /\ row(t).status = "stored" => row(t) = resets[t] /\ resets[t].user # u
    BY <1>1 DEF Resets
  <1> HIDE DEF row
  <1>3. WithoutResets(u) = [t \in 1..n |-> row(t)]
    BY <1>1 DEF WithoutResets, row
  <1>4. WithoutResets(u) \in [1..n -> Resets]
    BY <1>2, <1>3
  <1>5. WithoutResets(u) \in Seq(Resets) /\ Len(WithoutResets(u)) = n
    BY <1>1, <1>4, SeqOfFunction
  <1>6. \A t \in 1..n : WithoutResets(u)[t] = row(t)
    BY <1>3
  <1> QED BY <1>1, <1>2, <1>5, <1>6

\* Rows keep their owner; one that can still be used is as it was, and so is the
\* password of its owner.  An account stays, and one that stays unverified keeps
\* its address.
RowsGoOn ==
    /\ \A u \in Users : Given(u) =>
         /\ Given(u)'
         /\ Unverified(u)' => Unverified(u) /\ user'[u].email = user[u].email
    /\ \A l \in DOMAIN links :
         /\ l \in DOMAIN links' /\ links'[l].user = links[l].user
         /\ IsPending(links'[l]) =>
              /\ links'[l] = links[l] /\ uses'.link[l] = uses.link[l]
              /\ user'[links[l].user].secret = user[links[l].user].secret
    /\ \A t \in DOMAIN resets :
         /\ t \in DOMAIN resets' /\ resets'[t].user = resets[t].user
         /\ resets'[t].status = "stored" => resets'[t] = resets[t] /\ uses'.reset[t] = uses.reset[t]

\* Rows that go on as they were stay right.
LEMMA RowsStayGood ==
    ASSUME AccountInv, RowsGoOn
    PROVE  /\ \A l \in DOMAIN links : GoodLink(l)'
           /\ \A t \in DOMAIN resets : GoodReset(t)'
  <1>1. ASSUME NEW l \in DOMAIN links PROVE GoodLink(l)'
    <2>1. /\ GoodLink(l) /\ Given(links[l].user) /\ links[l].user \in Users
      BY DEF AccountInv, GoodLink, Given
    <2>2. /\ Given(links[l].user)'
          /\ (Unverified(links[l].user))' => Unverified(links[l].user)
                                             /\ user'[links[l].user].email = user[links[l].user].email
          /\ links'[l].user = links[l].user
          /\ IsPending(links'[l]) =>
              /\ links'[l] = links[l] /\ uses'.link[l] = uses.link[l]
              /\ user'[links[l].user].secret = user[links[l].user].secret
      BY <2>1 DEF RowsGoOn, Given, Unverified, Exists
    <2> QED BY <2>1, <2>2 DEF GoodLink, Given, Unverified, Exists, Current, IsPending
  <1>2. ASSUME NEW t \in DOMAIN resets PROVE GoodReset(t)'
    <2>1. /\ GoodReset(t) /\ Given(resets[t].user) /\ resets[t].user \in Users
      BY DEF AccountInv, GoodReset, Given
    <2>2. /\ Given(resets[t].user)'
          /\ (Unverified(resets[t].user))' => Unverified(resets[t].user)
                                             /\ user'[resets[t].user].email = user[resets[t].user].email
          /\ resets'[t].user = resets[t].user
          /\ resets'[t].status = "stored" => resets'[t] = resets[t] /\ uses'.reset[t] = uses.reset[t]
      BY <2>1 DEF RowsGoOn, Given, Unverified, Exists
    <2> QED BY <2>1, <2>2 DEF GoodReset, Given, Unverified, Exists
  <1> QED BY <1>1, <1>2

\* A request that is not the one that moves goes on with what it remembers.
LEMMA RequestGoesOn ==
    ASSUME AccountInv, RowsGoOn, NEW q \in Requests,
           \/ request'[q] = request[q]
           \/ request[q].under # 0 /\ request'[q] = [request[q] EXCEPT !.raced = TRUE],
           request[q].user \in Users /\ user'[request[q].user].secret # user[request[q].user].secret =>
             /\ ~Creating(request[q])
             /\ request[q].under # 0 => request'[q].raced
    PROVE  GoodRequest(request[q])'
  <1> DEFINE x == request[q]
             y == request'[q]
             u == request[q].user
  <1>1. x \in RequestRecords /\ GoodRequest(x)
    BY DEF AccountInv, AccountTypeOK
  <1>2. /\ y.step = x.step /\ y.user = x.user /\ y.email = x.email /\ y.new = x.new
        /\ y.id = x.id /\ y.under = x.under /\ (x.raced => y.raced)
    BY <1>1 DEF RequestRecords
  <1>3. x.step = "idle" => y = NoRequest
    BY <1>1, <1>2, NothingAsked DEF GoodRequest
  <1>4. Creating(x) => u \in Users /\ user'[u].secret = 0 /\ x.under = 0 /\ ~x.new
    BY <1>1 DEF GoodRequest
  <1>5. x.step # "idle" /\ ~Creating(x) =>
          /\ u \in Users /\ user'[u].secret > 0
          /\ Unverified(u)' => Unverified(u) /\ user'[u].email = user[u].email
    BY <1>1, <1>2 DEF GoodRequest, RowsGoOn, Given, Unverified, Exists
  <1>6. x.under # 0 => x.under = user'[u].secret \/ y.raced
    <2>1. x.under # 0 => u \in Users
      BY <1>1, <1>4, <1>5, NothingAsked DEF GoodRequest
    <2>2. x.under # 0 => x.under = user[u].secret \/ x.raced
      BY <1>1 DEF GoodRequest, Current
    <2> QED BY <1>2, <2>1, <2>2
  <1>7. x.step \in {"checking", "confirming"} =>
         /\ x.id \in DOMAIN links' /\ links'[x.id].user = u
         /\ links'[x.id].status = "pending" => links'[x.id].to = x.email /\ links'[x.id].new = x.new
    BY <1>1 DEF GoodRequest, RowsGoOn, IsPending
  <1>8. x.step = "changing" => x.id \in DOMAIN resets' /\ resets'[x.id].user = u
    BY <1>1 DEF GoodRequest, RowsGoOn
  <1>9. \/ x.step \in {"claiming", "resetting"}
        \/ x.step = "sending" /\ ~x.new
        => (Unverified(u)' => user'[u].email = x.email)
    BY <1>1, <1>5 DEF GoodRequest, Creating
  <1>10. \/ x.step = "issuing"
         \/ x.new /\ x.step \in {"counting", "choosing", "sending"}
         => x.under # 0
    BY <1>1 DEF GoodRequest
  <1>11. x.step \in {"counting", "choosing"} => x.new
    BY <1>1 DEF GoodRequest
  <1> QED
    BY <1>2, <1>3, <1>4, <1>5, <1>6, <1>7, <1>8, <1>9, <1>10, <1>11
    DEF GoodRequest, Creating, Given, Current, IsPending, Unverified, Exists

-----------------------------------------------------------------------------
(* The steps that only read                                                *)

\* Only the request moves, and what it remembers now is right.
LEMMA ReadStep ==
    ASSUME AccountInv, NEW r \in Requests, NEW x \in RequestRecords,
           request' = [request EXCEPT ![r] = x],
           UNCHANGED <<user, sessions, links, resets, proven, uses>>,
           GoodRequest(x),
           Creating(x) => \A q \in Requests \ {r} : request[q].user # x.user
    PROVE  AccountInv'
  <1>1. AccountTypeOK'
    BY DEF AccountInv, AccountTypeOK
  <1>2. RowsGoOn
    BY DEF AccountInv, RowsGoOn, Given, Unverified, Exists
  <1>3. ASSUME NEW q \in Requests PROVE GoodRequest(request[q])'
    <2>1. CASE q = r
      <3>1. request'[q] = x
        BY <2>1 DEF AccountInv, AccountTypeOK
      <3> QED BY <3>1 DEF GoodRequest, Creating, Given, Current, Unverified, Exists
    <2>2. CASE q # r
      <3>1. request'[q] = request[q]
        BY <2>2 DEF AccountInv, AccountTypeOK
      <3> QED BY <1>2, <3>1, RequestGoesOn
    <2> QED BY <2>1, <2>2
  <1>4. ASSUME NEW a \in Requests, NEW b \in Requests, Creating(request'[a]),
               request'[b].user = request'[a].user
        PROVE  b = a
    <2>1. request \in [Requests -> RequestRecords]
      BY DEF AccountInv, AccountTypeOK
    <2>2. CASE a = r
      BY <1>4, <2>1, <2>2
    <2>3. CASE a # r /\ b = r
      <3>1. request'[a] = request[a] /\ request'[b] = x
        BY <2>1, <2>3
      <3>2. Creating(request[a]) /\ request[a].user \in Users /\ user[request[a].user].secret = 0
        BY <1>4, <3>1 DEF AccountInv, GoodRequest
      <3>3. ~Creating(x) => Given(x.user) \/ x = NoRequest
        BY DEF GoodRequest
      <3>4. Creating(x)
        BY <1>4, <3>1, <3>2, <3>3, NothingAsked DEF Given
      <3> QED BY <1>4, <2>3, <3>1, <3>4
    <2>4. CASE a # r /\ b # r
      BY <1>4, <2>1, <2>4 DEF AccountInv
    <2> QED BY <2>2, <2>3, <2>4
  <1>5. /\ \A l \in DOMAIN links' : GoodLink(l)'
        /\ \A t \in DOMAIN resets' : GoodReset(t)'
    BY <1>2, RowsStayGood
  <1>6. /\ (\A u \in Users : Exists(u) => Given(u))'
        /\ (\A s \in sessions : Given(s.user) /\ Current(s))'
    BY DEF AccountInv, Exists, Given, Current
  <1>7. UsedOnce' /\ VerifiedIsProven'
    BY DEF AccountInv, UsedOnce, VerifiedIsProven, Exists, IsPending
  <1> QED BY <1>1, <1>3, <1>4, <1>5, <1>6, <1>7 DEF AccountInv, Creating

\* A request that asks about an account remembers what its row says.
LEMMA Asked ==
    ASSUME NEW step \in Steps, NEW u \in Users, NEW e \in Addresses,
           \/ step \in {"creating", "opening"} /\ user[u].secret = 0
           \/ /\ step \in {"sending", "claiming", "resetting"}
              /\ Given(u) /\ (Unverified(u) => e = user[u].email)
    PROVE  Asking(step, u, e) \in RequestRecords /\ GoodRequest(Asking(step, u, e))
  <1> DEFINE x == Asking(step, u, e)
  <1>1. /\ x \in RequestRecords /\ x.step = step /\ x.user = u /\ x.email = e
        /\ ~x.new /\ x.id = 0 /\ x.under = 0
    BY AskingFields
  <1> HIDE DEF x
  <1>2. GoodRequest(x)
    BY <1>1 DEF GoodRequest, Creating, Given
  <1> QED BY <1>1, <1>2 DEF x

\* A session is issued under the password that is read.
LEMMA Issued ==
    ASSUME NEW u \in Users, NEW n \in Nat
    PROVE  /\ Issuing(u, n) \in RequestRecords /\ Issuing(u, n).step = "issuing"
           /\ Issuing(u, n).user = u /\ Issuing(u, n).under = n
  <1> DEFINE x == Issuing(u, n)
             y == Asking("issuing", u, None)
  <1>1. y \in RequestRecords /\ y.step = "issuing" /\ y.user = u
    BY AskingFields DEF Steps, Addresses
  <1> HIDE DEF y
  <1>2. x = [y EXCEPT !.under = n]
    BY DEF Issuing, y
  <1> HIDE DEF x
  <1>3. x \in RequestRecords /\ x.step = "issuing" /\ x.user = u /\ x.under = n
    BY <1>1, <1>2 DEF RequestRecords
  <1> QED BY <1>3 DEF x

\* A request about to issue a session remembers the password its account has.
LEMMA IssuingFields ==
    ASSUME NEW u \in Users, Given(u), user[u].secret \in Nat
    PROVE  /\ Issuing(u, user[u].secret) \in RequestRecords /\ Issuing(u, user[u].secret).user = u
           /\ GoodRequest(Issuing(u, user[u].secret)) /\ ~Creating(Issuing(u, user[u].secret))
  <1> DEFINE x == Issuing(u, user[u].secret)
  <1>1. x \in RequestRecords /\ x.step = "issuing" /\ x.user = u /\ x.under = user[u].secret
    BY Issued
  <1>2. user[u].secret # 0
    BY DEF Given
  <1> HIDE DEF x
  <1>3. GoodRequest(x) /\ ~Creating(x)
    BY <1>1, <1>2 DEF GoodRequest, Creating, Current
  <1> QED BY <1>1, <1>3 DEF x

\* Requests that read, and remember, keep the invariant.
LEMMA ReadsKeep ==
    ASSUME AccountInv, NEW r \in Requests,
           \/ \E u \in Users, e \in Emails : Register(r, u, e) \/ RequestEmailChange(r, u, e)
           \/ \E u \in Users : ResendLink(r, u) \/ Login(r, u) \/ ForgotPassword(r, u)
           \/ \E l \in DOMAIN links : FindLink(r, l)
           \/ \E t \in DOMAIN resets : FindReset(r, t)
           \/ \E e \in Emails : GoogleLogin(r, e)
           \/ CheckOwner(r) \/ CountChanges(r) \/ CheckAddress(r) \/ StopRequest(r)
    PROVE  AccountInv'
  <1> USE NothingAsked
  <1>0. /\ user \in [Users -> [email : Addresses, verified : BOOLEAN, secret : Nat]]
        /\ request \in [Requests -> RequestRecords] /\ GoodRequest(request[r])
        /\ \A u \in Users : Exists(u) => Given(u) /\ user[u].email \in Addresses
    BY DEF AccountInv, AccountTypeOK
  \* The request stops, or goes on with what it has.
  <1>1. ASSUME request' = [request EXCEPT ![r] = NoRequest],
               UNCHANGED <<user, sessions, links, resets, proven, uses>>
        PROVE  AccountInv'
    BY <1>1, ReadStep
  <1>2. ASSUME NEW u \in Users, NEW e \in Emails, Register(r, u, e) PROVE AccountInv'
    <2>1. Asking("creating", u, e) \in RequestRecords /\ GoodRequest(Asking("creating", u, e))
      BY <1>2, Asked DEF Register, Fresh, Steps, Addresses
    <2>2. Asking("creating", u, e).user = u
      BY DEF Asking
    <2> QED BY <1>2, <2>1, <2>2, ReadStep DEF Register, Fresh, Begin
  <1>3. ASSUME NEW u \in Users, NEW e \in Emails, RequestEmailChange(r, u, e) PROVE AccountInv'
    <2> DEFINE x == [Asking("counting", u, e) EXCEPT !.new = TRUE, !.under = user[u].secret]
    <2>1. Given(u) /\ user[u].secret \in Nat /\ user[u].secret # 0
      <3>1. Exists(u)
        BY <1>3 DEF RequestEmailChange
      <3>2. Given(u) /\ user[u].secret \in Nat
        BY <1>0, <3>1
      <3> QED BY <3>2 DEF Given
    <2> DEFINE y == Asking("counting", u, e)
    <2>a. y \in RequestRecords /\ y.step = "counting" /\ y.user = u
      BY AskingFields DEF Steps, Addresses
    <2>2. /\ x \in RequestRecords /\ x.step = "counting" /\ x.user = u
          /\ x.new = TRUE /\ x.under = user[u].secret
      <3> HIDE DEF y
      <3>1. x = [y EXCEPT !.new = TRUE, !.under = user[u].secret]
        BY DEF y
      <3> HIDE DEF x
      <3> QED BY <2>1, <2>a, <3>1 DEF RequestRecords
    <2>3. GoodRequest(x) /\ ~Creating(x)
      <3> HIDE DEF x
      <3> QED BY <2>1, <2>2 DEF GoodRequest, Creating, Current
    <2> QED BY <1>3, <2>2, <2>3, ReadStep DEF RequestEmailChange, Begin
  <1>4. ASSUME NEW u \in Users, ResendLink(r, u) \/ ForgotPassword(r, u) PROVE AccountInv'
    <2>1. PICK step \in {"sending", "resetting"} :
            /\ Begin(r, Asking(step, u, user[u].email)) /\ Exists(u)
            /\ UNCHANGED <<user, sessions, links, resets, proven, uses>>
      BY <1>4 DEF ResendLink, ForgotPassword
    <2> DEFINE x == Asking(step, u, user[u].email)
    <2>2. x \in RequestRecords /\ GoodRequest(x)
      BY <1>0, <2>1, Asked DEF Steps
    <2>3. ~Creating(x)
      BY DEF Asking, Creating
    <2> QED BY <2>1, <2>2, <2>3, ReadStep DEF Begin
  <1>5. ASSUME NEW u \in Users, Exists(u), Begin(r, Issuing(u, user[u].secret)),
               UNCHANGED <<user, sessions, links, resets, proven, uses>>
        PROVE  AccountInv'
    <2> DEFINE x == Issuing(u, user[u].secret)
    <2>1. Given(u) /\ user[u].secret \in Nat
      BY <1>0, <1>5
    <2>2. x \in RequestRecords /\ GoodRequest(x) /\ ~Creating(x)
      BY <2>1, IssuingFields
    <2> QED BY <1>5, <2>2, ReadStep DEF Begin
  <1>6. ASSUME NEW l \in DOMAIN links, FindLink(r, l) PROVE AccountInv'
    <2> DEFINE step == IF links[l].new THEN "checking" ELSE "confirming"
               x == [Asking(step, links[l].user, links[l].to) EXCEPT !.new = links[l].new, !.id = l]
    <2>1. links[l] \in Links /\ Given(links[l].user) /\ l \in Nat
      BY DEF AccountInv, AccountTypeOK, GoodLink
    <2>2. /\ links[l].user \in Users /\ links[l].to \in Addresses
          /\ links[l].new \in BOOLEAN
      BY <2>1 DEF Links
    <2>3. /\ x \in RequestRecords /\ x.step \in {"checking", "confirming"} /\ x.user = links[l].user
          /\ x.email = links[l].to /\ x.new = links[l].new /\ x.id = l /\ x.under = 0
      <3> DEFINE y == Asking(step, links[l].user, links[l].to)
      <3>1. /\ y \in RequestRecords /\ y.step \in {"checking", "confirming"} /\ y.user = links[l].user
            /\ y.email = links[l].to /\ y.under = 0
        BY <2>2, AskingFields DEF Steps
      <3> HIDE DEF y
      <3>2. x = [y EXCEPT !.new = links[l].new, !.id = l]
        BY DEF y
      <3> HIDE DEF x
      <3> QED BY <2>1, <2>2, <3>1, <3>2 DEF RequestRecords
    <2>4. GoodRequest(x) /\ ~Creating(x)
      <3> HIDE DEF x
      <3> QED BY <2>1, <2>3 DEF GoodRequest, Creating
    <2> QED BY <1>6, <2>3, <2>4, ReadStep DEF FindLink, Begin
  <1>7. ASSUME NEW t \in DOMAIN resets, FindReset(r, t) PROVE AccountInv'
    <2> DEFINE x == [Asking("changing", resets[t].user, resets[t].to) EXCEPT !.id = t]
    <2>1. /\ resets[t].user \in Users /\ resets[t].to \in Addresses
          /\ Given(resets[t].user) /\ t \in Nat
      <3>1. resets[t] \in Resets /\ t \in Nat
        BY DEF AccountInv, AccountTypeOK
      <3>2. Given(resets[t].user)
        BY DEF AccountInv, GoodReset
      <3> QED BY <3>1, <3>2 DEF Resets
    <2>3. /\ x \in RequestRecords /\ x.step = "changing" /\ x.user = resets[t].user
          /\ x.id = t /\ x.under = 0
      <3> DEFINE y == Asking("changing", resets[t].user, resets[t].to)
      <3>1. /\ y \in RequestRecords /\ y.step = "changing" /\ y.user = resets[t].user /\ y.under = 0
        BY <2>1, AskingFields DEF Steps
      <3> HIDE DEF y
      <3>2. x = [y EXCEPT !.id = t]
        BY DEF y
      <3> HIDE DEF x
      <3> QED BY <2>1, <3>1, <3>2 DEF RequestRecords
    <2>4. GoodRequest(x) /\ ~Creating(x)
      <3> HIDE DEF x
      <3> QED BY <2>1, <2>3 DEF GoodRequest, Creating
    <2> QED BY <1>7, <2>3, <2>4, ReadStep DEF FindReset, Begin
  <1>8. ASSUME NEW e \in Emails, GoogleLogin(r, e) PROVE AccountInv'
    <2>1. CASE \E u \in Users : Fresh(u) /\ Begin(r, Asking("opening", u, e))
      <3>1. PICK u \in Users : Fresh(u) /\ Begin(r, Asking("opening", u, e))
        BY <2>1
      <3>2. Asking("opening", u, e) \in RequestRecords /\ GoodRequest(Asking("opening", u, e))
        BY <3>1, Asked DEF Fresh, Steps, Addresses
      <3>3. Asking("opening", u, e).user = u
        BY DEF Asking
      <3> QED BY <1>8, <3>1, <3>2, <3>3, ReadStep DEF GoogleLogin, Fresh, Begin
    <2>2. ASSUME NEW u \in Owners(e), Begin(r, Issuing(u, user[u].secret)) PROVE AccountInv'
      <3>1. u \in Users /\ Exists(u)
        BY <2>2 DEF Owners, Exists
      <3> QED BY <1>5, <1>8, <2>2, <3>1 DEF GoogleLogin
    <2>3. ASSUME NEW u \in Owners(e), Begin(r, Asking("claiming", u, e)) PROVE AccountInv'
      <3>1. u \in Users /\ Given(u) /\ e = user[u].email
        BY <1>0, <2>3 DEF Owners, Exists
      <3>2. Asking("claiming", u, e) \in RequestRecords /\ GoodRequest(Asking("claiming", u, e))
        BY <3>1, Asked DEF Steps, Addresses
      <3>3. ~Creating(Asking("claiming", u, e))
        BY DEF Asking, Creating
      <3> QED BY <1>8, <2>3, <3>2, <3>3, ReadStep DEF GoogleLogin, Begin
    <2> QED BY <1>8, <2>1, <2>2, <2>3 DEF GoogleLogin
  <1>9. ASSUME CheckOwner(r) \/ CountChanges(r) \/ CheckAddress(r) PROVE AccountInv'
    <2>1. UNCHANGED <<user, sessions, links, resets, proven, uses>>
      BY <1>9 DEF CheckOwner, CountChanges, CheckAddress
    <2>2. CASE End(r)
      BY <1>1, <2>1, <2>2 DEF End
    <2>3. ASSUME NEW step \in Steps, Continue(r, step),
                 \/ request[r].step = "checking" /\ step = "confirming"
                 \/ request[r].step = "counting" /\ step = "choosing"
                 \/ request[r].step = "choosing" /\ step = "sending"
          PROVE  AccountInv'
      <3> DEFINE x == [request[r] EXCEPT !.step = step]
      <3>1. request[r] \in RequestRecords
        BY <1>0
      <3>2. x \in RequestRecords /\ x.step = step
        BY <3>1 DEF RequestRecords
      <3>3. /\ x.user = request[r].user /\ x.email = request[r].email /\ x.new = request[r].new
            /\ x.id = request[r].id /\ x.under = request[r].under /\ x.raced = request[r].raced
        BY <3>1 DEF RequestRecords
      <3>4. x.step = "sending" => x.new
        BY <1>0, <2>3, <3>2, <3>3 DEF GoodRequest
      <3>5. GoodRequest(x) /\ ~Creating(x)
        BY <1>0, <2>3, <3>2, <3>3, <3>4 DEF GoodRequest, Creating, Current
      <3> QED BY <2>1, <2>3, <3>2, <3>5, ReadStep DEF Continue
    <2> QED BY <1>9, <2>2, <2>3 DEF CheckOwner, CountChanges, CheckAddress, At, Steps
  <1>10. CASE StopRequest(r)
    BY <1>1, <1>10 DEF StopRequest, End
  <1>11. ASSUME NEW u \in Users, Login(r, u) PROVE AccountInv'
    BY <1>5, <1>11 DEF Login
  <1> QED BY <1>2, <1>3, <1>4, <1>6, <1>7, <1>8, <1>9, <1>10, <1>11

-----------------------------------------------------------------------------
(* The steps that write                                                    *)

\* The requests in M move, the others go on; the rows go on, and the new ones
\* are right.
LEMMA WriteStep ==
    ASSUME AccountInv, AccountTypeOK', RowsGoOn, NEW M \in SUBSET Requests,
           \A q \in Requests \ M :
             /\ \/ request'[q] = request[q]
                \/ request[q].under # 0 /\ request'[q] = [request[q] EXCEPT !.raced = TRUE]
             /\ request[q].user \in Users /\ user'[request[q].user].secret # user[request[q].user].secret =>
                  /\ ~Creating(request[q])
                  /\ request[q].under # 0 => request'[q].raced,
           \A r \in M : /\ GoodRequest(request[r])' /\ ~Creating(request'[r])
                        /\ request'[r].user \in {None, request[r].user},
           \A l \in DOMAIN links' \ DOMAIN links : GoodLink(l)',
           \A t \in DOMAIN resets' \ DOMAIN resets : GoodReset(t)',
           (\A s \in sessions : Given(s.user) /\ Current(s))',
           (\A u \in Users : Exists(u) => Given(u))', UsedOnce', VerifiedIsProven'
    PROVE  AccountInv'
  <1>1. ASSUME NEW q \in Requests PROVE GoodRequest(request[q])'
    <2>1. CASE q \in M
      BY <2>1
    <2>2. CASE q \notin M
      BY <2>2, RequestGoesOn
    <2> QED BY <2>1, <2>2
  <1>2. ASSUME NEW a \in Requests, NEW b \in Requests, Creating(request'[a]),
               request'[b].user = request'[a].user
        PROVE  b = a
    <2>1. a \notin M
      BY <1>2
    <2>2. /\ request[a] \in RequestRecords /\ request[b] \in RequestRecords
      BY DEF AccountInv, AccountTypeOK
    <2>3. request'[a].step = request[a].step /\ request'[a].user = request[a].user
      BY <2>1, <2>2 DEF RequestRecords
    <2>4. Creating(request[a]) /\ request[a].user \in Users
      BY <1>2, <2>3 DEF AccountInv, GoodRequest, Creating
    <2>5. request'[b].user \in {None, request[b].user}
      BY <2>2 DEF RequestRecords
    <2> QED BY <1>2, <2>3, <2>4, <2>5 DEF AccountInv
  <1>3. (\A l \in DOMAIN links : GoodLink(l))' /\ (\A t \in DOMAIN resets : GoodReset(t))'
    BY RowsStayGood
  <1> QED BY <1>1, <1>2, <1>3 DEF AccountInv, Creating

\* The same, of one request that moves.
LEMMA MoverStep ==
    ASSUME AccountInv, AccountTypeOK', RowsGoOn, NEW r \in Requests,
           \A q \in Requests \ {r} :
             /\ \/ request'[q] = request[q]
                \/ request[q].under # 0 /\ request'[q] = [request[q] EXCEPT !.raced = TRUE]
             /\ request[q].user \in Users /\ user'[request[q].user].secret # user[request[q].user].secret =>
                  /\ ~Creating(request[q])
                  /\ request[q].under # 0 => request'[q].raced,
           GoodRequest(request[r])', ~Creating(request'[r]), request'[r].user \in {None, request[r].user},
           \A l \in DOMAIN links' \ DOMAIN links : GoodLink(l)',
           \A t \in DOMAIN resets' \ DOMAIN resets : GoodReset(t)',
           (\A s \in sessions : Given(s.user) /\ Current(s))',
           (\A u \in Users : Exists(u) => Given(u))', UsedOnce', VerifiedIsProven'
    PROVE  AccountInv'
  <1> DEFINE M == {r}
  <1>1. M \in SUBSET Requests
    OBVIOUS
  <1>2. \A q \in M : q = r
    OBVIOUS
  <1>3. \A q \in M : GoodRequest(request[q])' /\ ~Creating(request'[q])
                     /\ request'[q].user \in {None, request[q].user}
    BY <1>2
  <1>4. Requests \ M = Requests \ {r}
    OBVIOUS
  <1> HIDE DEF M
  <1> QED BY <1>1, <1>3, <1>4, WriteStep

\* What the invariant says of the rows, in the form the steps need.
LEMMA RowFacts ==
    ASSUME AccountInv
    PROVE  /\ user \in [Users -> [email : Addresses, verified : BOOLEAN, secret : Nat]]
           /\ request \in [Requests -> RequestRecords]
           /\ sessions \in SUBSET [user : Users, under : Nat, raced : BOOLEAN]
           /\ links \in Seq(Links) /\ resets \in Seq(Resets)
           /\ DOMAIN links = 1..Len(links) /\ Len(links) \in Nat /\ Len(links) <= MaxLinks
           /\ DOMAIN resets = 1..Len(resets) /\ Len(resets) \in Nat /\ Len(resets) <= MaxResets
           /\ proven \in SUBSET (Users \X Addresses)
           /\ uses \in [link : [1..MaxLinks -> Nat], reset : [1..MaxResets -> Nat]]
           /\ \A l \in DOMAIN links : links[l] \in Links /\ Given(links[l].user) /\ GoodLink(l)
           /\ \A t \in DOMAIN resets : resets[t] \in Resets /\ Given(resets[t].user) /\ GoodReset(t)
           /\ \A r \in Requests : GoodRequest(request[r])
  BY DEF AccountInv, AccountTypeOK, GoodLink, GoodReset

\* Nothing refers to a session.
LEMMA EndSessionKeeps ==
    ASSUME AccountInv, NEW s \in sessions, EndSession(s)
    PROVE  AccountInv'
  <1>1. sessions' \subseteq sessions /\ UNCHANGED <<user, links, resets, request, proven, uses>>
    BY DEF EndSession
  <1>2. AccountTypeOK' /\ VerifiedIsProven'
    BY <1>1 DEF AccountInv, AccountTypeOK, VerifiedIsProven, Exists
  <1>3. (\A x \in sessions : Given(x.user) /\ Current(x))'
    BY <1>1 DEF AccountInv, Given, Current
  <1>4. UsedOnce' /\ (\A v \in Users : Exists(v) => Given(v))'
    BY <1>1 DEF AccountInv, UsedOnce, IsPending, Exists, Given
  <1>5. (\A l \in DOMAIN links : GoodLink(l))' /\ (\A t \in DOMAIN resets : GoodReset(t))'
    BY <1>1 DEF AccountInv, GoodLink, GoodReset, Given, Current, IsPending, Unverified, Exists
  <1>6. /\ (\A r \in Requests : GoodRequest(request[r]))'
        /\ (\A r, q \in Requests :
              Creating(request[r]) /\ request[q].user = request[r].user => q = r)'
    BY <1>1 DEF AccountInv, GoodRequest, Creating, Given, Current, IsPending, Unverified, Exists
  <1> QED BY <1>2, <1>3, <1>4, <1>5, <1>6 DEF AccountInv

\* A session is under the password its request checked, or is marked as raced.
LEMMA IssueTokensKeeps ==
    ASSUME AccountInv, NEW r \in Requests, IssueTokens(r)
    PROVE  AccountInv'
  <1> USE RowFacts
  <1> DEFINE x == request[r]
             s == [user |-> x.user, under |-> x.under, raced |-> x.raced]
  <1>1. x \in RequestRecords /\ Given(x.user) /\ Current(x)
    BY DEF IssueTokens, At, GoodRequest, Creating
  <1>2. /\ request' = [request EXCEPT ![r] = NoRequest]
        /\ UNCHANGED <<user, links, resets, proven, uses>>
        /\ sessions' \subseteq sessions \cup {s}
    BY DEF IssueTokens, End
  <1>3. s \in [user : Users, under : Nat, raced : BOOLEAN] /\ Given(s.user) /\ Current(s)
    BY <1>1 DEF RequestRecords, Given, Current
  <1>4. AccountTypeOK'
    BY <1>2, <1>3, NothingAsked DEF AccountInv, AccountTypeOK
  <1>5. RowsGoOn
    BY <1>2 DEF RowsGoOn, Given, Unverified, Exists
  <1>6. (\A t \in sessions : Given(t.user) /\ Current(t))'
    <2> HIDE DEF s
    <2> SUFFICES ASSUME NEW t \in sessions' PROVE Given(t.user)' /\ Current(t)'
      OBVIOUS
    <2>1. Given(t.user) /\ Current(t)
      BY <1>2, <1>3 DEF AccountInv
    <2> QED BY <1>2, <2>1 DEF Given, Current
  <1>7. GoodRequest(request[r])' /\ ~Creating(request'[r]) /\ request'[r].user = None
    BY <1>2, NothingAsked DEF GoodRequest, Creating
  <1>8. (\A u \in Users : Exists(u) => Given(u))' /\ UsedOnce' /\ VerifiedIsProven'
    BY <1>2 DEF AccountInv, Exists, Given, UsedOnce, VerifiedIsProven, IsPending
  <1>9. \A q \in Requests \ {r} : request'[q] = request[q] /\ user' = user
    BY <1>2
  <1> QED BY <1>2, <1>4, <1>5, <1>6, <1>7, <1>8, <1>9, MoverStep

\* The new link is the only pending one of its account, and says what the request did.
LEMMA SendLinkKeeps ==
    ASSUME AccountInv, NEW r \in Requests, SendLink(r)
    PROVE  AccountInv'
  <1> USE RowFacts
  <1> DEFINE x == request[r]
             u == x.user
             n == Len(links) + 1
             old == Revoked(u)
             row == [user |-> u, to |-> x.email, new |-> x.new, status |-> "pending",
                     under |-> x.under, raced |-> x.raced]
  <1>1. x \in RequestRecords /\ x.step = "sending" /\ GoodRequest(x)
    BY DEF SendLink, At
  <1>2. /\ request' = [request EXCEPT ![r] = NoRequest]
        /\ UNCHANGED <<user, sessions, resets, proven, uses>>
        /\ n <= MaxLinks
        /\ (Exists(u) /\ links' = Append(old, row)) \/ links' = links
    BY DEF SendLink, End
  <1>3. /\ old \in Seq(Links) /\ Len(old) = Len(links)
        /\ \A l \in DOMAIN links :
             /\ old[l].user = links[l].user
             /\ old[l].status = "pending" => old[l] = links[l] /\ links[l].user # u
    BY RevokedFacts DEF AccountInv, IsPending
  <1>4. Exists(u) => row \in Links /\ Given(u)
    BY <1>1 DEF Links, RequestRecords, AccountInv, Exists
  <1>5. GoodRequest(request[r])' /\ ~Creating(request'[r]) /\ request'[r].user = None
    BY <1>2, NothingAsked DEF GoodRequest, Creating
  <1>6. \A q \in Requests \ {r} : request'[q] = request[q] /\ user' = user
    BY <1>2
  <1>7. \A s \in sessions' : Given(s.user)' /\ Current(s)'
    BY <1>2 DEF AccountInv, Given, Current
  <1>8. (\A v \in Users : Exists(v) => Given(v))' /\ VerifiedIsProven'
    BY <1>2 DEF AccountInv, Exists, Given, VerifiedIsProven
  <1>9. CASE links' = links
    <2>1. AccountTypeOK'
      BY <1>2, <1>9, NothingAsked DEF AccountInv, AccountTypeOK
    <2>2. RowsGoOn
      BY <1>2, <1>9 DEF RowsGoOn, Given, Unverified, Exists
    <2>3. UsedOnce'
      BY <1>2, <1>9 DEF AccountInv, UsedOnce, IsPending
    <2> QED BY <1>2, <1>5, <1>6, <1>7, <1>8, <1>9, <2>1, <2>2, <2>3, MoverStep
  <1>10. CASE Exists(u) /\ links' = Append(old, row)
    <2> HIDE DEF row, old
    <2>0. DOMAIN links = 1..Len(links) /\ Len(links) \in Nat
      OBVIOUS
    <2>1. /\ links' \in Seq(Links) /\ Len(links') = n /\ DOMAIN links' = 1..n
          /\ links'[n] = row /\ \A l \in 1..Len(links) : links'[l] = old[l]
      BY <1>3, <1>4, <1>10
    <2>2. AccountTypeOK'
      BY <1>2, <2>1, NothingAsked DEF AccountInv, AccountTypeOK
    <2>3. RowsGoOn
      <3>1. \A v \in Users : Given(v) =>
              /\ Given(v)'
              /\ Unverified(v)' => Unverified(v) /\ user'[v].email = user[v].email
        BY <1>2 DEF Given, Unverified, Exists
      <3>2. \A l \in DOMAIN links : l \in DOMAIN links' /\ links'[l] = old[l]
        BY <2>0, <2>1
      <3> QED BY <1>2, <1>3, <3>1, <3>2 DEF RowsGoOn, IsPending
    <2>4. ASSUME NEW l, l = n PROVE GoodLink(l)'
      <3>1. uses.link[n] = 0
        BY <1>2 DEF AccountInv, UsedOnce
      <3>2. x.new => Current(x)
        BY <1>1 DEF GoodRequest
      <3>3. ~x.new => (Unverified(u) => user[u].email = x.email)
        BY <1>1 DEF GoodRequest
      <3>4. /\ row.user = u /\ row.to = x.email /\ row.new = x.new /\ row.under = x.under
            /\ row.raced = x.raced
        BY DEF row
      <3> QED BY <1>2, <1>4, <2>1, <2>4, <3>1, <3>2, <3>3, <3>4
              DEF GoodLink, Given, Current, Unverified, Exists, IsPending
    <2>5. UsedOnce'
      <3>1. \A l, m \in 1..n :
              links'[l].user = links'[m].user /\ links'[l].status = "pending" /\ links'[m].status = "pending"
              => l = m
        <4> SUFFICES ASSUME NEW l \in 1..n, NEW m \in 1..n, links'[l].user = links'[m].user,
                            links'[l].status = "pending", links'[m].status = "pending"
                     PROVE  l = m
          OBVIOUS
        <4>1. row.user = u
          BY DEF row
        <4>a. \A k \in 1..n : k # n => k \in DOMAIN links /\ links'[k] = old[k]
          BY <2>0, <2>1
        <4>b. \A k \in 1..n : k # n /\ links'[k].status = "pending" =>
                k \in DOMAIN links /\ links'[k] = links[k] /\ links[k].user # u
          BY <1>3, <4>a
        <4>2. CASE l = n \/ m = n
          BY <2>1, <4>1, <4>2, <4>b
        <4>3. CASE l # n /\ m # n
          BY <4>3, <4>b DEF AccountInv, UsedOnce, IsPending
        <4> QED BY <4>2, <4>3
      <3>2. \A l \in 1..MaxLinks : uses.link[l] <= 1 /\ (l > n => uses.link[l] = 0)
        BY DEF AccountInv, UsedOnce
      <3> QED BY <1>2, <2>1, <3>1, <3>2 DEF AccountInv, UsedOnce, IsPending
    <2>6. \A l \in DOMAIN links' \ DOMAIN links : GoodLink(l)'
      BY <2>0, <2>1, <2>4
    <2> QED BY <1>2, <1>5, <1>6, <1>7, <1>8, <2>2, <2>3, <2>5, <2>6, MoverStep
  <1> QED BY <1>2, <1>9, <1>10

\* The new token is sent to the address the account has, unless it is verified.
LEMMA SendResetLinkKeeps ==
    ASSUME AccountInv, NEW r \in Requests, SendResetLink(r)
    PROVE  AccountInv'
  <1> USE RowFacts
  <1> DEFINE x == request[r]
             u == x.user
             n == Len(resets) + 1
             old == WithoutResets(u)
             row == [user |-> u, to |-> x.email, status |-> "stored"]
  <1>1. x \in RequestRecords /\ x.step = "resetting" /\ GoodRequest(x)
    BY DEF SendResetLink, At
  <1>2. /\ request' = [request EXCEPT ![r] = NoRequest]
        /\ UNCHANGED <<user, sessions, links, proven, uses>>
        /\ n <= MaxResets
        /\ (Exists(u) /\ resets' = Append(old, row)) \/ resets' = resets
    BY DEF SendResetLink, End
  <1>3. /\ old \in Seq(Resets) /\ Len(old) = Len(resets)
        /\ \A t \in DOMAIN resets :
             /\ old[t].user = resets[t].user
             /\ old[t].status = "stored" => old[t] = resets[t] /\ resets[t].user # u
    BY WithoutFacts DEF AccountInv
  <1>4. Exists(u) => row \in Resets /\ Given(u)
    BY <1>1 DEF Resets, RequestRecords, AccountInv, Exists
  <1>5. GoodRequest(request[r])' /\ ~Creating(request'[r]) /\ request'[r].user = None
    BY <1>2, NothingAsked DEF GoodRequest, Creating
  <1>6. \A q \in Requests \ {r} : request'[q] = request[q] /\ user' = user
    BY <1>2
  <1>7. \A s \in sessions' : Given(s.user)' /\ Current(s)'
    BY <1>2 DEF AccountInv, Given, Current
  <1>8. (\A v \in Users : Exists(v) => Given(v))' /\ VerifiedIsProven'
    BY <1>2 DEF AccountInv, Exists, Given, VerifiedIsProven
  <1>9. CASE resets' = resets
    <2>1. AccountTypeOK'
      BY <1>2, <1>9, NothingAsked DEF AccountInv, AccountTypeOK
    <2>2. RowsGoOn
      BY <1>2, <1>9 DEF RowsGoOn, Given, Unverified, Exists
    <2>3. UsedOnce'
      BY <1>2, <1>9 DEF AccountInv, UsedOnce, IsPending
    <2> QED BY <1>2, <1>5, <1>6, <1>7, <1>8, <1>9, <2>1, <2>2, <2>3, MoverStep
  <1>10. CASE Exists(u) /\ resets' = Append(old, row)
    <2> HIDE DEF row, old
    <2>0. DOMAIN resets = 1..Len(resets) /\ Len(resets) \in Nat
      OBVIOUS
    <2>1. /\ resets' \in Seq(Resets) /\ Len(resets') = n /\ DOMAIN resets' = 1..n
          /\ resets'[n] = row /\ \A t \in 1..Len(resets) : resets'[t] = old[t]
      BY <1>3, <1>4, <1>10
    <2>2. AccountTypeOK'
      BY <1>2, <2>1, NothingAsked DEF AccountInv, AccountTypeOK
    <2>3. RowsGoOn
      <3>1. \A v \in Users : Given(v) =>
              /\ Given(v)'
              /\ Unverified(v)' => Unverified(v) /\ user'[v].email = user[v].email
        BY <1>2 DEF Given, Unverified, Exists
      <3>2. \A t \in DOMAIN resets : t \in DOMAIN resets' /\ resets'[t] = old[t]
        BY <2>0, <2>1
      <3> QED BY <1>2, <1>3, <3>1, <3>2 DEF RowsGoOn, IsPending
    <2>4. ASSUME NEW t, t = n PROVE GoodReset(t)'
      <3>1. uses.reset[n] = 0
        BY <1>2 DEF AccountInv, UsedOnce
      <3>2. Unverified(u) => user[u].email = x.email
        BY <1>1 DEF GoodRequest
      <3>3. row.user = u /\ row.to = x.email
        BY DEF row
      <3> QED BY <1>2, <1>4, <2>1, <2>4, <3>1, <3>2, <3>3 DEF GoodReset, Given, Unverified, Exists
    <2>5. UsedOnce'
      <3>1. \A t \in 1..MaxResets : uses.reset[t] <= 1 /\ (t > n => uses.reset[t] = 0)
        BY DEF AccountInv, UsedOnce
      <3> QED BY <1>2, <2>1, <3>1 DEF AccountInv, UsedOnce, IsPending
    <2>6. \A t \in DOMAIN resets' \ DOMAIN resets : GoodReset(t)'
      BY <2>0, <2>1, <2>4
    <2> QED BY <1>2, <1>5, <1>6, <1>7, <1>8, <2>2, <2>3, <2>5, <2>6, MoverStep
  <1> QED BY <1>2, <1>9, <1>10

\* A request that ends without writing.
LEMMA EndKeeps ==
    ASSUME AccountInv, NEW r \in Requests, End(r),
           UNCHANGED <<user, sessions, links, resets, proven, uses>>
    PROVE  AccountInv'
  BY NothingAsked, ReadStep DEF End

\* Ids given: nothing but the request that gives it refers to an id before.
LEMMA CreatesKeep ==
    ASSUME AccountInv, NEW r \in Requests, CreateUser(r) \/ CreateGoogleUser(r)
    PROVE  AccountInv'
  <1> USE RowFacts
  <1> DEFINE x == request[r]
             u == x.user
  <1>1. /\ x \in RequestRecords /\ GoodRequest(x) /\ Creating(x)
        /\ u \in Users /\ user[u].secret = 0 /\ x.under = 0 /\ ~x.new /\ x.email \in Addresses
    BY DEF CreateUser, CreateGoogleUser, At, GoodRequest, Creating, RequestRecords
  <1>2. UNCHANGED <<sessions, links, resets, uses>>
    BY DEF CreateUser, CreateGoogleUser
  <1>3. CASE End(r) /\ UNCHANGED <<user, proven>>
    BY <1>2, <1>3, EndKeeps
  <1>4. ASSUME NEW b \in BOOLEAN,
               user' = [user EXCEPT ![u] = [email |-> x.email, verified |-> b, secret |-> 1]],
               \/ /\ ~b /\ proven' = proven
                  /\ request' = [request EXCEPT ![r].step = "sending"]
               \/ /\ b /\ proven' = proven \cup {<<u, x.email>>}
                  /\ request' = [request EXCEPT ![r] = Issuing(u, 1)]
        PROVE  AccountInv'
    <2>1. /\ user' \in [Users -> [email : Addresses, verified : BOOLEAN, secret : Nat]]
          /\ user'[u].email = x.email /\ user'[u].secret = 1
          /\ \A v \in Users : v # u => user'[v] = user[v]
      BY <1>1, <1>4
    <2>2. user'[u].verified <=> b
      BY <1>1, <1>4
    <2>3. ~Given(u) /\ ~Exists(u)
      BY <1>1 DEF Given, AccountInv
    <2>4. /\ request'[r] \in RequestRecords /\ request'[r].user = u
          /\ \/ ~b /\ request'[r].step = "sending" /\ request'[r].email = x.email /\ ~request'[r].new
                /\ request'[r].under = 0
             \/ request'[r].step = "issuing" /\ request'[r].under = 1
      <3>1. CASE ~b /\ request' = [request EXCEPT ![r].step = "sending"]
        BY <1>1, <3>1 DEF RequestRecords, Steps
      <3>2. CASE b /\ request' = [request EXCEPT ![r] = Issuing(u, 1)]
        <4>1. request'[r] = Issuing(u, 1)
          BY <3>2
        <4> QED BY <1>1, <4>1, Issued
      <3> QED BY <1>4, <3>1, <3>2
    <2>5. \A q \in Requests \ {r} : request'[q] = request[q] /\ request[q].user # u
      <3>1. \A q \in Requests \ {r} : request'[q] = request[q]
        BY <1>4
      <3> QED BY <1>1, <3>1 DEF AccountInv
    <2>6. AccountTypeOK'
      <3>1. request' \in [Requests -> RequestRecords]
        BY <1>4, <2>4, <2>5
      <3>2. proven' \in SUBSET (Users \X Addresses)
        BY <1>1, <1>4
      <3> QED BY <1>2, <2>1, <3>1, <3>2 DEF AccountInv, AccountTypeOK
    <2>7. \A v \in Users : Given(v) => user'[v] = user[v]
      BY <2>1, <2>3
    <2>8. RowsGoOn
      BY <1>2, <2>7 DEF RowsGoOn, Given, Unverified, Exists
    <2>9. (\A s \in sessions : Given(s.user) /\ Current(s))'
      <3> SUFFICES ASSUME NEW s \in sessions' PROVE Given(s.user)' /\ Current(s)'
        OBVIOUS
      <3>1. Given(s.user) /\ Current(s)
        BY <1>2 DEF AccountInv
      <3> QED BY <2>7, <3>1 DEF Given, Current
    <2>10. GoodRequest(request[r])' /\ ~Creating(request'[r])
      <3>1. ~Creating(request'[r])
        BY <2>4 DEF Creating
      <3> QED BY <1>1, <2>1, <2>4, <3>1 DEF GoodRequest, Creating, Given, Current, Unverified, Exists
    <2>11. (\A v \in Users : Exists(v) => Given(v))'
      <3> SUFFICES ASSUME NEW v \in Users, Exists(v)' PROVE Given(v)'
        OBVIOUS
      <3>1. CASE v = u
        BY <2>1, <3>1 DEF Given
      <3>2. CASE v # u
        BY <2>1, <3>2 DEF AccountInv, Exists, Given
      <3> QED BY <3>1, <3>2
    <2>12. UsedOnce'
      BY <1>2 DEF AccountInv, UsedOnce, IsPending
    <2>13. VerifiedIsProven'
      <3> SUFFICES ASSUME NEW v \in Users, Exists(v)', user'[v].verified
                   PROVE  <<v, user'[v].email>> \in proven'
        BY DEF VerifiedIsProven
      <3>1. CASE v = u
        BY <1>4, <2>1, <2>2, <3>1
      <3>2. CASE v # u
        <4>1. user'[v] = user[v] /\ Exists(v)
          BY <2>1, <3>2 DEF Exists
        <4> QED BY <1>4, <4>1 DEF AccountInv, VerifiedIsProven
      <3> QED BY <3>1, <3>2
    <2> QED BY <1>2, <2>1, <2>4, <2>5, <2>6, <2>8, <2>9, <2>10, <2>11, <2>12, <2>13, MoverStep
  <1>5. CASE CreateUser(r)
    <2>1. \/ End(r) /\ UNCHANGED <<user, proven>>
          \/ /\ user' = [user EXCEPT ![u] = [email |-> x.email, verified |-> FALSE, secret |-> 1]]
             /\ proven' = proven
             /\ request' = [request EXCEPT ![r].step = "sending"]
      BY <1>5 DEF CreateUser, Continue
    <2> QED BY <1>3, <1>4, <2>1
  <1>6. CASE CreateGoogleUser(r)
    <2>1. \/ End(r) /\ UNCHANGED <<user, proven>>
          \/ /\ user' = [user EXCEPT ![u] = [email |-> x.email, verified |-> TRUE, secret |-> 1]]
             /\ proven' = proven \cup {<<u, x.email>>}
             /\ request' = [request EXCEPT ![r] = Issuing(u, 1)]
      BY <1>6 DEF CreateGoogleUser
    <2> QED BY <1>3, <1>4, <2>1
  <1> QED BY <1>5, <1>6

\* A confirmed link proves the address it was sent to, which is the address the
\* account has from then on unless it has proved another one meanwhile.
LEMMA ConfirmLinkKeeps ==
    ASSUME AccountInv, NEW r \in Requests, ConfirmLink(r)
    PROVE  AccountInv'
  <1> USE RowFacts
  <1> DEFINE x == request[r]
             u == x.user
             l == x.id
             e == IF x.new THEN x.email ELSE user[u].email
  <1>1. /\ x \in RequestRecords /\ GoodRequest(x) /\ x.step = "confirming"
    BY DEF ConfirmLink, At
  <1>2. /\ l \in DOMAIN links /\ links[l].user = u /\ Given(u) /\ u \in Users
        /\ IsPending(links[l]) => links[l].to = x.email /\ links[l].new = x.new
        /\ links[l] \in Links /\ l \in 1..MaxLinks
    BY <1>1 DEF GoodRequest, Creating, Given
  <1>3. UNCHANGED <<sessions, resets>> /\ request' = [request EXCEPT ![r] = NoRequest]
    BY DEF ConfirmLink, End
  <1>4. CASE UNCHANGED <<links, user, proven, uses>>
    BY <1>3, <1>4, EndKeeps DEF End
  <1>5. CASE /\ IsPending(links[l])
             /\ links' = [links EXCEPT ![l] = Closed(@, "closed")]
             /\ user' = [user EXCEPT ![u].verified = TRUE,
                           ![u].email = IF x.new THEN x.email ELSE @]
             /\ proven' = proven \cup {<<u, links[l].to>>}
             /\ uses' = [uses EXCEPT !["link"][l] = @ + 1]
    <2>1. /\ user' \in [Users -> [email : Addresses, verified : BOOLEAN, secret : Nat]]
          /\ user'[u].secret = user[u].secret /\ user'[u].email = e
          /\ \A v \in Users : v # u => user'[v] = user[v]
      <3> DEFINE row == user[u]
                 new == [row EXCEPT !.verified = TRUE, !.email = IF x.new THEN x.email ELSE @]
      <3>1. x.email \in Addresses /\ row \in [email : Addresses, verified : BOOLEAN, secret : Nat]
        BY <1>1, <1>2 DEF RequestRecords
      <3>2. user' = [user EXCEPT ![u] = new]
        BY <1>2, <1>5
      <3>3. e = IF x.new THEN x.email ELSE row.email
        OBVIOUS
      <3> HIDE DEF row, e
      <3>4. /\ new \in [email : Addresses, verified : BOOLEAN, secret : Nat]
            /\ new.secret = row.secret /\ new.email = e
        BY <3>1, <3>3
      <3> HIDE DEF new
      <3>5. /\ user' \in [Users -> [email : Addresses, verified : BOOLEAN, secret : Nat]]
            /\ user'[u] = new /\ \A v \in Users : v # u => user'[v] = user[v]
        BY <1>2, <3>2, <3>4
      <3> QED BY <3>4, <3>5 DEF row
    <2>2. user'[u].verified
      BY <1>2, <1>5
    <2>3. /\ links' \in Seq(Links) /\ DOMAIN links' = DOMAIN links /\ Len(links') = Len(links)
          /\ links'[l].user = u /\ links'[l].status = "closed"
          /\ \A m \in DOMAIN links : m # l => links'[m] = links[m]
      <3> DEFINE row == Closed(links[l], "closed")
      <3>1. row \in Links /\ row.user = u /\ row.status = "closed"
        BY <1>2 DEF Closed, Links, Addresses
      <3> HIDE DEF row
      <3>2. links' = [links EXCEPT ![l] = row]
        BY <1>5 DEF row
      <3> QED BY <1>2, <3>1, <3>2
    <2>4. /\ uses' \in [link : [1..MaxLinks -> Nat], reset : [1..MaxResets -> Nat]]
          /\ uses'.reset = uses.reset /\ uses'.link[l] = uses.link[l] + 1
          /\ \A m \in 1..MaxLinks : m # l => uses'.link[m] = uses.link[m]
      <3> DEFINE count == [uses.link EXCEPT ![l] = @ + 1]
      <3>1. uses.link \in [1..MaxLinks -> Nat]
        OBVIOUS
      <3>2. /\ count \in [1..MaxLinks -> Nat] /\ count[l] = uses.link[l] + 1
            /\ \A m \in 1..MaxLinks : m # l => count[m] = uses.link[m]
        <4>1. l \in 1..MaxLinks
          BY <1>2
        <4> QED BY <3>1, <4>1, OneUseMore
      <3>3. uses' = [uses EXCEPT !.link = count]
        BY <1>5
      <3> HIDE DEF count
      <3> QED BY <3>2, <3>3
    <2>5. uses.link[l] = 0
      BY <1>2, <1>5 DEF GoodLink
    <2>6. AccountTypeOK'
      <3>1. proven' \in SUBSET (Users \X Addresses)
        <4>1. <<u, links[l].to>> \in Users \X Addresses
          BY <1>2 DEF Links
        <4> QED BY <1>5, <4>1
      <3> QED BY <1>3, <2>1, <2>3, <2>4, <3>1, NothingAsked DEF AccountInv, AccountTypeOK
    <2>7. RowsGoOn
      <3>1. \A v \in Users : Given(v) =>
              Given(v)' /\ (Unverified(v)' => Unverified(v) /\ user'[v].email = user[v].email)
        BY <2>1, <2>2 DEF Given, Unverified, Exists
      <3>2. \A m \in DOMAIN links :
              /\ m \in DOMAIN links' /\ links'[m].user = links[m].user
              /\ IsPending(links'[m]) =>
                   /\ links'[m] = links[m] /\ uses'.link[m] = uses.link[m]
                   /\ user'[links[m].user].secret = user[links[m].user].secret
        <4> SUFFICES ASSUME NEW m \in DOMAIN links
                     PROVE  /\ m \in DOMAIN links' /\ links'[m].user = links[m].user
                            /\ IsPending(links'[m]) =>
                                 /\ links'[m] = links[m] /\ uses'.link[m] = uses.link[m]
                                 /\ user'[links[m].user].secret = user[links[m].user].secret
          OBVIOUS
        <4>1. links[m].user \in Users /\ m \in 1..MaxLinks
          BY DEF Given
        <4>2. CASE m = l
          BY <1>2, <2>3, <4>2 DEF IsPending
        <4>3. CASE m # l
          BY <2>1, <2>3, <2>4, <4>1, <4>3
        <4> QED BY <4>2, <4>3
      <3> QED BY <1>3, <2>4, <3>1, <3>2 DEF RowsGoOn
    <2>8. (\A s \in sessions : Given(s.user) /\ Current(s))'
      <3> SUFFICES ASSUME NEW s \in sessions' PROVE Given(s.user)' /\ Current(s)'
        OBVIOUS
      <3>1. Given(s.user) /\ Current(s)
        BY <1>3 DEF AccountInv
      <3>2. user'[s.user].secret = user[s.user].secret
        BY <2>1, <3>1 DEF Given
      <3> QED BY <3>1, <3>2 DEF Given, Current
    <2>9. GoodRequest(request[r])' /\ ~Creating(request'[r]) /\ request'[r].user = None
      BY <1>3, NothingAsked DEF GoodRequest, Creating
    <2>10. (\A v \in Users : Exists(v) => Given(v))'
      <3> SUFFICES ASSUME NEW v \in Users, Exists(v)' PROVE Given(v)'
        OBVIOUS
      <3>1. CASE v = u
        BY <1>2, <2>1, <3>1 DEF Given
      <3>2. CASE v # u
        BY <2>1, <3>2 DEF AccountInv, Exists, Given
      <3> QED BY <3>1, <3>2
    <2>11. UsedOnce'
      <3>1. ASSUME NEW m \in 1..MaxLinks
            PROVE  uses'.link[m] <= 1 /\ (m > Len(links) => uses'.link[m] = 0)
        <4>1. uses.link[m] <= 1 /\ (m > Len(links) => uses.link[m] = 0)
          BY DEF AccountInv, UsedOnce
        <4>2. CASE m = l
          <5>1. uses'.link[m] = 1
            BY <2>4, <2>5, <4>2
          <5>2. ~(m > Len(links))
            BY <1>2, <4>2
          <5> QED BY <5>1, <5>2
        <4>3. CASE m # l
          BY <2>4, <4>1, <4>3
        <4> QED BY <4>2, <4>3
      <3>2. \A m, k \in DOMAIN links' : links'[m].user = links'[k].user /\ IsPending(links'[m])
              /\ IsPending(links'[k]) => m = k
        BY <2>3 DEF AccountInv, UsedOnce, IsPending
      <3> QED BY <1>3, <2>3, <2>4, <3>1, <3>2 DEF AccountInv, UsedOnce
    <2>12. VerifiedIsProven'
      <3> SUFFICES ASSUME NEW v \in Users, Exists(v)', user'[v].verified
                   PROVE  <<v, user'[v].email>> \in proven'
        BY DEF VerifiedIsProven
      <3>1. CASE v = u
        <4>1. CASE x.new
          BY <1>2, <1>5, <2>1, <3>1, <4>1
        <4>2. CASE ~x.new /\ user[u].verified
          <5>1. user'[u].email = user[u].email /\ user[u].email # None
            BY <2>1, <3>1, <4>2 DEF Exists
          <5>2. <<u, user[u].email>> \in proven
            BY <1>2, <4>2, <5>1 DEF AccountInv, VerifiedIsProven, Exists
          <5>3. proven \subseteq proven'
            BY <1>5
          <5> QED BY <3>1, <5>1, <5>2, <5>3
        <4>3. CASE ~x.new /\ ~user[u].verified
          <5>1. Unverified(u)
            BY <1>2, <2>1, <3>1, <4>3 DEF Unverified, Exists
          <5>2. links[l].to = user[u].email
            BY <1>2, <1>5, <4>3, <5>1 DEF GoodLink
          <5> QED BY <1>5, <2>1, <3>1, <4>3, <5>2
        <4> QED BY <4>1, <4>2, <4>3
      <3>2. CASE v # u
        <4>1. user'[v] = user[v] /\ Exists(v)
          BY <2>1, <3>2 DEF Exists
        <4> QED BY <1>5, <4>1 DEF AccountInv, VerifiedIsProven
      <3> QED BY <3>1, <3>2
    <2>13. \A q \in Requests \ {r} : request'[q] = request[q]
      BY <1>3
    <2>14. \A q \in Requests \ {r} : request[q].user \in Users =>
             user'[request[q].user].secret = user[request[q].user].secret
      BY <2>1
    <2> QED BY <1>3, <2>3, <2>6, <2>7, <2>8, <2>9, <2>10, <2>11, <2>12, <2>13, <2>14, MoverStep
  <1>6. \/ UNCHANGED <<links, user, proven, uses>>
        \/ /\ IsPending(links[l])
           /\ links' = [links EXCEPT ![l] = Closed(@, "closed")]
           /\ user' = [user EXCEPT ![u].verified = TRUE,
                         ![u].email = IF x.new THEN x.email ELSE @]
           /\ proven' = proven \cup {<<u, links[l].to>>}
           /\ uses' = [uses EXCEPT !["link"][l] = @ + 1]
    BY DEF ConfirmLink, Confirmable, Use
  <1> QED BY <1>4, <1>5, <1>6

\* One of two steps gives an account u a new password: its sessions end, its
\* links are revoked, and the requests under the old one are marked.
LEMMA PasswordStep ==
    ASSUME AccountInv, NEW r \in Requests, NEW next, NEW e \in Addresses,
           Given(request[r].user),
           Unverified(request[r].user) => e = user[request[r].user].email,
           user' = [user EXCEPT ![request[r].user].verified = TRUE,
                                ![request[r].user].secret = user[request[r].user].secret + 1],
           sessions' = SessionsWithout(request[r].user),
           links' = Revoked(request[r].user),
           proven' = proven \cup {<<request[r].user, e>>},
           Overtaken(r, next),
           next = NoRequest \/ next = Issuing(request[r].user, user[request[r].user].secret + 1),
           resets' \in Seq(Resets), Len(resets') = Len(resets),
           \A t \in DOMAIN resets :
             /\ resets'[t].user = resets[t].user
             /\ resets'[t].status = "stored" => resets'[t] = resets[t] /\ uses'.reset[t] = uses.reset[t],
           uses' \in [link : [1..MaxLinks -> Nat], reset : [1..MaxResets -> Nat]],
           uses'.link = uses.link,
           \A t \in 1..MaxResets : uses'.reset[t] <= 1 /\ (t > Len(resets) => uses'.reset[t] = 0)
    PROVE  AccountInv'
  <1> USE RowFacts
  <1> DEFINE u == request[r].user
             s == user[u].secret + 1
  <1>1. u \in Users /\ s \in Nat \ {0} /\ user[u].secret \in Nat \ {0}
    BY DEF Given
  <1>2. /\ user' \in [Users -> [email : Addresses, verified : BOOLEAN, secret : Nat]]
        /\ user'[u].secret = s /\ user'[u].email = user[u].email
        /\ \A v \in Users : v # u => user'[v] = user[v]
    <2> DEFINE row == user[u]
               new == [row EXCEPT !.verified = TRUE, !.secret = s]
    <2>1. user' = [user EXCEPT ![u] = new]
      BY <1>1
    <2>2. row \in [email : Addresses, verified : BOOLEAN, secret : Nat]
      BY <1>1
    <2> HIDE DEF row, s
    <2>3. /\ new \in [email : Addresses, verified : BOOLEAN, secret : Nat]
          /\ new.secret = s /\ new.email = row.email
      BY <1>1, <2>2
    <2> HIDE DEF new
    <2> QED BY <1>1, <2>1, <2>3 DEF row
  <1>3. user'[u].verified
    BY <1>1
  <1> HIDE DEF s
  <1>4. /\ links' \in Seq(Links) /\ Len(links') = Len(links) /\ DOMAIN links' = DOMAIN links
        /\ \A l \in DOMAIN links :
             /\ links'[l].user = links[l].user
             /\ links'[l].status = "pending" => links'[l] = links[l] /\ links[l].user # u
    BY RevokedFacts DEF AccountInv, IsPending
  <1>5. /\ request'[r] = next
        /\ \A q \in Requests \ {r} :
             \/ request[q].user = u /\ request[q].under # 0
                /\ request'[q] = [request[q] EXCEPT !.raced = TRUE]
             \/ ~(request[q].user = u /\ request[q].under # 0) /\ request'[q] = request[q]
    BY DEF Overtaken
  <1>6. /\ next \in RequestRecords /\ next.user \in {None, u} /\ ~Creating(next)
        /\ \/ next = NoRequest
           \/ next.step = "issuing" /\ next.user = u /\ next.under = s
    <2>1. CASE next = NoRequest
      BY <2>1, NothingAsked
    <2>2. CASE next = Issuing(u, s)
      BY <1>1, <2>2, Issued DEF Creating
    <2> QED BY <2>1, <2>2 DEF s
  <1>7. GoodRequest(request[r])' /\ ~Creating(request'[r]) /\ request'[r].user \in {None, u}
    <2>1. CASE next = NoRequest
      BY <1>5, <1>6, <2>1, NothingAsked DEF GoodRequest, Creating
    <2>2. CASE next.step = "issuing" /\ next.user = u /\ next.under = s
      <3>1. Given(u)' /\ s = user'[u].secret
        BY <1>1, <1>2 DEF Given
      <3>2. request'[r].step = "issuing" /\ request'[r].user = u /\ request'[r].under = s
        BY <1>5, <2>2
      <3> QED BY <1>1, <3>1, <3>2 DEF GoodRequest, Creating, Current
    <2> QED BY <1>5, <1>6, <2>1, <2>2
  <1>8. AccountTypeOK'
    <2>1. \A q \in Requests : request'[q] \in RequestRecords
      <3> SUFFICES ASSUME NEW q \in Requests PROVE request'[q] \in RequestRecords
        OBVIOUS
      <3> DEFINE y == request[q]
      <3>1. y \in RequestRecords
        OBVIOUS
      <3> HIDE DEF y
      <3>2. [y EXCEPT !.raced = TRUE] \in RequestRecords
        BY <3>1 DEF RequestRecords
      <3> QED BY <1>5, <1>6, <3>1, <3>2 DEF y
    <2>2. request' \in [Requests -> RequestRecords]
      BY <2>1 DEF Overtaken
    <2>3. proven' \in SUBSET (Users \X Addresses)
      BY <1>1
    <2>4. sessions' \in SUBSET [user : Users, under : Nat, raced : BOOLEAN]
      BY DEF SessionsWithout
    <2> QED BY <1>2, <1>4, <2>2, <2>3, <2>4 DEF AccountTypeOK
  <1>9. RowsGoOn
    <2>1. \A v \in Users : Given(v) =>
            Given(v)' /\ (Unverified(v)' => Unverified(v) /\ user'[v].email = user[v].email)
      <3> SUFFICES ASSUME NEW v \in Users, Given(v)
                   PROVE  Given(v)' /\ (Unverified(v)' => Unverified(v) /\ user'[v].email = user[v].email)
        OBVIOUS
      <3>1. CASE v = u
        BY <1>1, <1>2, <1>3, <3>1 DEF Given, Unverified, Exists
      <3>2. CASE v # u
        BY <1>1, <1>2, <1>3, <3>2 DEF Given, Unverified, Exists
      <3> QED BY <3>1, <3>2
    <2>2. \A l \in DOMAIN links :
            /\ l \in DOMAIN links' /\ links'[l].user = links[l].user
            /\ IsPending(links'[l]) =>
                 /\ links'[l] = links[l] /\ uses'.link[l] = uses.link[l]
                 /\ user'[links[l].user].secret = user[links[l].user].secret
      BY <1>2, <1>4 DEF Given, IsPending
    <2>3. DOMAIN resets' = DOMAIN resets
      OBVIOUS
    <2> QED BY <2>1, <2>2, <2>3 DEF RowsGoOn
  <1>10. (\A x \in sessions : Given(x.user) /\ Current(x))'
    <2> SUFFICES ASSUME NEW x \in sessions' PROVE Given(x.user)' /\ Current(x)'
      OBVIOUS
    <2>1. x \in sessions /\ x.user # u
      BY DEF SessionsWithout
    <2>2. Given(x.user) /\ Current(x)
      BY <2>1 DEF AccountInv
    <2> QED BY <1>2, <2>1, <2>2 DEF Given, Current
  <1>11. (\A v \in Users : Exists(v) => Given(v))'
    <2> SUFFICES ASSUME NEW v \in Users, Exists(v)' PROVE Given(v)'
      OBVIOUS
    <2>1. CASE v = u
      BY <1>1, <1>2, <2>1 DEF Given
    <2>2. CASE v # u
      BY <1>2, <2>2 DEF AccountInv, Exists, Given
    <2> QED BY <2>1, <2>2
  <1>12. UsedOnce'
    <2>1. \A m, k \in DOMAIN links' : links'[m].user = links'[k].user /\ IsPending(links'[m])
            /\ IsPending(links'[k]) => m = k
      BY <1>4 DEF AccountInv, UsedOnce, IsPending
    <2> QED BY <1>4, <2>1 DEF AccountInv, UsedOnce
  <1>13. VerifiedIsProven'
    <2> SUFFICES ASSUME NEW v \in Users, Exists(v)', user'[v].verified
                 PROVE  <<v, user'[v].email>> \in proven'
      BY DEF VerifiedIsProven
    <2>1. CASE v = u
      <3>1. Exists(u)
        BY <1>1, <1>2, <2>1 DEF Exists
      <3>2. CASE user[u].verified
        <4>1. <<u, user[u].email>> \in proven
          BY <1>1, <3>1, <3>2 DEF AccountInv, VerifiedIsProven
        <4>2. user'[v].email = user[u].email
          BY <1>2, <2>1
        <4>3. \A y \in proven : y \in proven'
          OBVIOUS
        <4> QED BY <2>1, <4>1, <4>2, <4>3
      <3>3. CASE ~user[u].verified
        BY <1>2, <2>1, <3>1, <3>3 DEF Unverified
      <3> QED BY <3>2, <3>3
    <2>2. CASE v # u
      BY <1>2, <2>2 DEF AccountInv, VerifiedIsProven, Exists
    <2> QED BY <2>1, <2>2
  <1>14. \A q \in Requests \ {r} :
           /\ \/ request'[q] = request[q]
              \/ request[q].under # 0 /\ request'[q] = [request[q] EXCEPT !.raced = TRUE]
           /\ request[q].user \in Users /\ user'[request[q].user].secret # user[request[q].user].secret =>
                ~Creating(request[q]) /\ (request[q].under # 0 => request'[q].raced)
    <2> SUFFICES ASSUME NEW q \in Requests \ {r}
                 PROVE
           /\ \/ request'[q] = request[q]
              \/ request[q].under # 0 /\ request'[q] = [request[q] EXCEPT !.raced = TRUE]
           /\ request[q].user \in Users /\ user'[request[q].user].secret # user[request[q].user].secret =>
                ~Creating(request[q]) /\ (request[q].under # 0 => request'[q].raced)
      OBVIOUS
    <2>1. Creating(request[q]) => request[q].user # u
      BY <1>1 DEF GoodRequest
    <2>2. [request[q] EXCEPT !.raced = TRUE].raced
      BY DEF RequestRecords
    <2>3. request[q].user \in Users /\ user'[request[q].user].secret # user[request[q].user].secret =>
            request[q].user = u
      BY <1>2
    <2> QED BY <1>5, <2>1, <2>2, <2>3
  <1>15. /\ DOMAIN links' \ DOMAIN links = {} /\ DOMAIN resets' \ DOMAIN resets = {}
    BY <1>4
  <1> QED BY <1>7, <1>8, <1>9, <1>10, <1>11, <1>12, <1>13, <1>14, <1>15, MoverStep

\* An account taken over was verified by Google, at the address it has.
LEMMA ClaimAccountKeeps ==
    ASSUME AccountInv, NEW r \in Requests, ClaimAccount(r)
    PROVE  AccountInv'
  <1> USE RowFacts
  <1> DEFINE x == request[r]
             u == x.user
  <1>1. /\ x \in RequestRecords /\ GoodRequest(x) /\ x.step = "claiming" /\ UNCHANGED <<resets, uses>>
    BY DEF ClaimAccount, At
  <1>2. CASE ~Exists(u)
    BY <1>1, <1>2, EndKeeps DEF ClaimAccount
  <1>3. CASE Exists(u)
    <2>1. /\ Given(u) /\ x.email \in Addresses
          /\ Unverified(u) => x.email = user[u].email
      BY <1>1 DEF GoodRequest, Creating, RequestRecords
    <2>2. /\ user' = [user EXCEPT ![u].verified = TRUE, ![u].secret = user[u].secret + 1]
          /\ sessions' = SessionsWithout(u) /\ links' = Revoked(u)
          /\ proven' = proven \cup {<<u, x.email>>}
          /\ Overtaken(r, Issuing(u, user[u].secret + 1))
      BY <1>3 DEF ClaimAccount
    <2>3. \A t \in 1..MaxResets : uses'.reset[t] <= 1 /\ (t > Len(resets) => uses'.reset[t] = 0)
      BY <1>1 DEF AccountInv, UsedOnce
    <2> QED BY <1>1, <2>1, <2>2, <2>3, PasswordStep
  <1> QED BY <1>2, <1>3

\* A token that is used is gone, and its owner verified at the address it has.
LEMMA ResetPasswordKeeps ==
    ASSUME AccountInv, NEW r \in Requests, ResetPassword(r)
    PROVE  AccountInv'
  <1> USE RowFacts
  <1> DEFINE x == request[r]
             u == x.user
             t == x.id
  <1>1. /\ x \in RequestRecords /\ GoodRequest(x) /\ x.step = "changing"
    BY DEF ResetPassword, At
  <1>2. t \in DOMAIN resets /\ t \in 1..MaxResets /\ resets[t].user = u /\ Given(u)
    BY <1>1 DEF GoodRequest, Creating
  <1>3. CASE resets[t].status = "gone"
    BY <1>3, EndKeeps DEF ResetPassword
  <1>4. CASE resets[t].status = "stored"
    <2>1. /\ resets[t].to \in Addresses /\ uses.reset[t] = 0
          /\ Unverified(u) => resets[t].to = user[u].email
      BY <1>2, <1>4 DEF Resets, GoodReset
    <2>2. /\ user' = [user EXCEPT ![u].verified = TRUE, ![u].secret = @ + 1]
          /\ resets' = WithoutResets(u)
          /\ sessions' = SessionsWithout(u) /\ links' = Revoked(u)
          /\ proven' = proven \cup {<<u, resets[t].to>>}
          /\ uses' = [uses EXCEPT !["reset"][t] = @ + 1]
          /\ Overtaken(r, NoRequest)
      BY <1>4 DEF ResetPassword, SessionsAfterReset, Use
    <2>3. user' = [user EXCEPT ![u].verified = TRUE, ![u].secret = user[u].secret + 1]
      BY <1>2, <2>2 DEF Given
    <2>4. /\ uses' \in [link : [1..MaxLinks -> Nat], reset : [1..MaxResets -> Nat]]
          /\ uses'.link = uses.link /\ uses'.reset[t] = uses.reset[t] + 1
          /\ \A k \in 1..MaxResets : k # t => uses'.reset[k] = uses.reset[k]
      <3> DEFINE count == [uses.reset EXCEPT ![t] = @ + 1]
      <3>1. uses.reset \in [1..MaxResets -> Nat]
        OBVIOUS
      <3>2. /\ count \in [1..MaxResets -> Nat] /\ count[t] = uses.reset[t] + 1
            /\ \A k \in 1..MaxResets : k # t => count[k] = uses.reset[k]
        BY <1>2, <3>1, OneUseMore
      <3>3. uses' = [uses EXCEPT !.reset = count]
        BY <2>2
      <3> HIDE DEF count
      <3> QED BY <3>2, <3>3
    <2>5. ASSUME NEW k \in 1..MaxResets
          PROVE  uses'.reset[k] <= 1 /\ (k > Len(resets) => uses'.reset[k] = 0)
      <3>1. uses.reset[k] <= 1 /\ (k > Len(resets) => uses.reset[k] = 0)
        BY DEF AccountInv, UsedOnce
      <3>2. CASE k = t
        BY <1>2, <2>1, <2>4, <3>2
      <3>3. CASE k # t
        BY <2>4, <3>1, <3>3
      <3> QED BY <3>2, <3>3
    <2>6. /\ resets' \in Seq(Resets) /\ Len(resets') = Len(resets)
          /\ \A k \in DOMAIN resets :
               /\ resets'[k].user = resets[k].user
               /\ resets'[k].status = "stored" => resets'[k] = resets[k] /\ resets[k].user # u
      BY <2>2, WithoutFacts DEF AccountInv
    <2>7. \A k \in DOMAIN resets :
            /\ resets'[k].user = resets[k].user
            /\ resets'[k].status = "stored" => resets'[k] = resets[k] /\ uses'.reset[k] = uses.reset[k]
      <3> SUFFICES ASSUME NEW k \in DOMAIN resets
                   PROVE  /\ resets'[k].user = resets[k].user
                          /\ resets'[k].status = "stored" =>
                               resets'[k] = resets[k] /\ uses'.reset[k] = uses.reset[k]
        OBVIOUS
      <3>1. k \in 1..MaxResets
        OBVIOUS
      <3>2. resets'[k].status = "stored" => k # t
        BY <1>2, <2>6
      <3> QED BY <2>4, <2>6, <3>1, <3>2
    <2> QED BY <1>2, <2>1, <2>2, <2>3, <2>4, <2>5, <2>6, <2>7, PasswordStep
  <1> QED BY <1>2, <1>3, <1>4 DEF Resets

\* What refers to an account that is removed is gone with it.
LEMMA CleanupUserKeeps ==
    ASSUME AccountInv, NEW u \in Users, CleanupUser(u)
    PROVE  AccountInv'
  <1> USE RowFacts
  <1>1. /\ Given(u) /\ UNCHANGED <<request, proven, uses>> /\ ~user[u].verified
        /\ user' = [user EXCEPT ![u].email = None] /\ sessions' = SessionsWithout(u)
        /\ resets' = WithoutResets(u)
    BY DEF CleanupUser, AccountInv
  <1>2. /\ user' \in [Users -> [email : Addresses, verified : BOOLEAN, secret : Nat]]
        /\ user'[u].secret = user[u].secret /\ user'[u].email = None
        /\ \A v \in Users : v # u => user'[v] = user[v]
    <2> DEFINE row == user[u]
               new == [row EXCEPT !.email = None]
    <2>1. user' = [user EXCEPT ![u] = new] /\ None \in Addresses
      BY <1>1 DEF Addresses
    <2>2. row \in [email : Addresses, verified : BOOLEAN, secret : Nat]
      OBVIOUS
    <2> HIDE DEF row
    <2>3. /\ new \in [email : Addresses, verified : BOOLEAN, secret : Nat]
          /\ new.secret = row.secret /\ new.email = None
      BY <2>1, <2>2
    <2> HIDE DEF new
    <2> QED BY <2>1, <2>3 DEF row
  <1>3. /\ links' \in Seq(Links) /\ Len(links') = Len(links) /\ DOMAIN links' = DOMAIN links
        /\ \A l \in DOMAIN links :
             /\ links'[l].user = links[l].user
             /\ links'[l].status = "pending" => links'[l] = links[l] /\ links[l].user # u
    <2> DEFINE n == Len(links)
               row(l) == IF links[l].user = u THEN Closed(links[l], "gone") ELSE links[l]
    <2>1. \A l \in 1..n : /\ row(l) \in Links /\ row(l).user = links[l].user
                          /\ row(l).status = "pending" => row(l) = links[l] /\ links[l].user # u
      <3>1. \A l \in 1..n : links[l] \in Links
        OBVIOUS
      <3> HIDE RowFacts
      <3> QED BY <3>1 DEF Links, Closed, Addresses
    <2>2. links' = [l \in 1..n |-> row(l)]
      BY DEF CleanupUser
    <2> HIDE DEF row
    <2>3. links' \in [1..n -> Links] /\ \A l \in 1..n : links'[l] = row(l)
      BY <2>1, <2>2
    <2>4. links' \in Seq(Links) /\ Len(links') = n /\ DOMAIN links' = 1..n
      BY <2>3, SeqOfFunction
    <2> QED BY <2>1, <2>3, <2>4
  <1>4. /\ resets' \in Seq(Resets) /\ Len(resets') = Len(resets) /\ DOMAIN resets' = DOMAIN resets
        /\ \A t \in DOMAIN resets :
             /\ resets'[t].user = resets[t].user
             /\ resets'[t].status = "stored" => resets'[t] = resets[t]
    BY <1>1, WithoutFacts DEF AccountInv
  <1>5. AccountTypeOK'
    <2>1. sessions' \in SUBSET [user : Users, under : Nat, raced : BOOLEAN]
      BY <1>1 DEF SessionsWithout
    <2> QED BY <1>1, <1>2, <1>3, <1>4, <2>1 DEF AccountTypeOK
  <1>6. RowsGoOn
    <2>1. \A v \in Users : Given(v) =>
            Given(v)' /\ (Unverified(v)' => Unverified(v) /\ user'[v].email = user[v].email)
      BY <1>1, <1>2 DEF Given, Unverified, Exists
    <2>2. \A l \in DOMAIN links :
            /\ l \in DOMAIN links' /\ links'[l].user = links[l].user
            /\ IsPending(links'[l]) =>
                 /\ links'[l] = links[l] /\ uses'.link[l] = uses.link[l]
                 /\ user'[links[l].user].secret = user[links[l].user].secret
      BY <1>1, <1>2, <1>3 DEF Given, IsPending
    <2> QED BY <1>1, <1>4, <2>1, <2>2 DEF RowsGoOn
  <1>7. (\A x \in sessions : Given(x.user) /\ Current(x))'
    <2> SUFFICES ASSUME NEW x \in sessions' PROVE Given(x.user)' /\ Current(x)'
      OBVIOUS
    <2>1. x \in sessions /\ x.user # u
      BY <1>1 DEF SessionsWithout
    <2>2. Given(x.user) /\ Current(x)
      BY <2>1 DEF AccountInv
    <2> QED BY <1>2, <2>1, <2>2 DEF Given, Current
  <1>8. (\A v \in Users : Exists(v) => Given(v))'
    <2> SUFFICES ASSUME NEW v \in Users, Exists(v)' PROVE Given(v)'
      OBVIOUS
    <2>1. v # u
      BY <1>2 DEF Exists
    <2> QED BY <1>2, <2>1 DEF AccountInv, Exists, Given
  <1>9. UsedOnce'
    <2>1. \A m, k \in DOMAIN links' : links'[m].user = links'[k].user /\ IsPending(links'[m])
            /\ IsPending(links'[k]) => m = k
      BY <1>3 DEF AccountInv, UsedOnce, IsPending
    <2> QED BY <1>1, <1>3, <1>4, <2>1 DEF AccountInv, UsedOnce
  <1>10. VerifiedIsProven'
    <2> SUFFICES ASSUME NEW v \in Users, Exists(v)', user'[v].verified
                 PROVE  <<v, user'[v].email>> \in proven'
      BY DEF VerifiedIsProven
    <2>1. v # u
      BY <1>2 DEF Exists
    <2> QED BY <1>1, <1>2, <2>1 DEF AccountInv, VerifiedIsProven, Exists
  <1>11. \A q \in Requests :
           /\ request'[q] = request[q]
           /\ (request[q].user \in Users =>
                 user'[request[q].user].secret = user[request[q].user].secret)
    BY <1>1, <1>2
  <1> DEFINE M == {}
  <1>12. M \in SUBSET Requests /\ \A q : q \notin M
    OBVIOUS
  <1> HIDE DEF M
  <1>13. DOMAIN links' \ DOMAIN links = {} /\ DOMAIN resets' \ DOMAIN resets = {}
    BY <1>3, <1>4
  <1> HIDE RowFacts
  <1>14. \A q \in Requests \ M :
            /\ \/ request'[q] = request[q]
               \/ request[q].under # 0 /\ request'[q] = [request[q] EXCEPT !.raced = TRUE]
            /\ request[q].user \in Users /\ user'[request[q].user].secret # user[request[q].user].secret =>
                 /\ ~Creating(request[q])
                 /\ request[q].under # 0 => request'[q].raced
    BY <1>11
  <1>15. \A q \in M : /\ GoodRequest(request[q])' /\ ~Creating(request'[q])
                       /\ request'[q].user \in {None, request[q].user}
    BY <1>12
  <1> QED BY <1>12, <1>13, <1>14, <1>15, <1>5, <1>6, <1>7, <1>8, <1>9, <1>10, WriteStep

-----------------------------------------------------------------------------
(* The invariant, and what it says                                         *)

\* Nothing exists yet.
LEMMA AccountInvInit == AccountInit => AccountInv
  <1> SUFFICES ASSUME AccountInit PROVE AccountInv
    OBVIOUS
  <1> USE NothingAsked
  <1>1. /\ user = [u \in Users |-> NoAccount] /\ sessions = {} /\ links = <<>> /\ resets = <<>>
        /\ request = [r \in Requests |-> NoRequest] /\ proven = {}
        /\ uses = [link |-> [l \in 1..MaxLinks |-> 0], reset |-> [t \in 1..MaxResets |-> 0]]
    BY DEF AccountInit
  <1>2. AccountTypeOK
    <2>1. user \in [Users -> [email : Addresses, verified : BOOLEAN, secret : Nat]]
      BY <1>1 DEF NoAccount, Addresses
    <2>2. /\ links \in Seq(Links) /\ Len(links) <= MaxLinks
          /\ resets \in Seq(Resets) /\ Len(resets) <= MaxResets
      BY <1>1
    <2> QED BY <1>1, <2>1, <2>2 DEF AccountTypeOK
  <1>3. \A u \in Users : ~Exists(u)
    BY <1>1 DEF Exists, NoAccount
  <1>4. UsedOnce
    BY <1>1 DEF UsedOnce
  <1>5. \A r \in Requests : GoodRequest(request[r]) /\ ~Creating(request[r])
    BY <1>1
  <1> QED BY <1>1, <1>2, <1>3, <1>4, <1>5 DEF AccountInv, VerifiedIsProven

\* Every step of the accounts keeps the invariant.
LEMMA AccountInvStep == AccountInv /\ [AccountNext]_accountVars => AccountInv'
  <1> SUFFICES ASSUME AccountInv, [AccountNext]_accountVars PROVE AccountInv'
    OBVIOUS
  <1>1. ASSUME NEW r \in Requests, HandleAccount(r) PROVE AccountInv'
    <2>1. CASE CreateUser(r) \/ CreateGoogleUser(r)
      BY <2>1, CreatesKeep
    <2>2. CASE SendLink(r)
      BY <2>2, SendLinkKeeps
    <2>3. CASE ConfirmLink(r)
      BY <2>3, ConfirmLinkKeeps
    <2>4. CASE IssueTokens(r)
      BY <2>4, IssueTokensKeeps
    <2>5. CASE ClaimAccount(r)
      BY <2>5, ClaimAccountKeeps
    <2>6. CASE SendResetLink(r)
      BY <2>6, SendResetLinkKeeps
    <2>7. CASE ResetPassword(r)
      BY <2>7, ResetPasswordKeeps
    <2> QED BY <1>1, <2>1, <2>2, <2>3, <2>4, <2>5, <2>6, <2>7, ReadsKeep DEF HandleAccount
  <1>2. ASSUME NEW s \in sessions, EndSession(s) PROVE AccountInv'
    BY <1>2, EndSessionKeeps
  <1>3. ASSUME NEW u \in Users, CleanupUser(u) PROVE AccountInv'
    BY <1>3, CleanupUserKeeps
  <1>4. CASE UNCHANGED accountVars
    BY <1>4 DEF accountVars, AccountInv, AccountTypeOK, Exists, Given, Current, GoodLink, GoodReset,
                GoodRequest, Creating, Unverified, UsedOnce, VerifiedIsProven, IsPending
  <1> QED BY <1>1, <1>2, <1>3, <1>4 DEF AccountNext

\* Whatever requests, links, resets and sessions overlap, what a request, a link
\* or a session remembers of an account still holds when it is used.
THEOREM AccountInvariance == AccountSpec => []AccountInv
  BY AccountInvInit, AccountInvStep, PTL DEF AccountSpec

\* No session and no pending change of an address outlives the password it was
\* obtained with, unless its request was past the check when it was replaced
\* (password-reset.service.ts:88).
THEOREM PasswordEndsSessions == AccountSpec => []NothingOutlivesReset
  <1>1. AccountInv => NothingOutlivesReset
    <2> SUFFICES ASSUME AccountInv PROVE NothingOutlivesReset
      OBVIOUS
    <2> QED BY RowFacts DEF AccountInv, NothingOutlivesReset, Current, GoodLink
  <1> QED BY <1>1, AccountInvariance, PTL

\* A link and a reset are used once at most, and one link of an account can be
\* used at a time, whichever requests present them (email-verification.service.ts:69).
THEOREM UsedAtMostOnce == AccountSpec => []LinksWorkOnce
  <1>1. AccountInv => LinksWorkOnce
    <2> SUFFICES ASSUME AccountInv PROVE LinksWorkOnce
      OBVIOUS
    <2>1. /\ \A l \in DOMAIN links : l \in 1..MaxLinks
          /\ \A t \in DOMAIN resets : t \in 1..MaxResets
      BY RowFacts, AccountAssumption
    <2> QED BY <2>1 DEF AccountInv, LinksWorkOnce, UsedOnce
  <1> QED BY <1>1, AccountInvariance, PTL

\* The owner of the address a verified account has opened a link about that
\* account, whatever changes, resets and logins overlap (email-verification.service.ts:76).
THEOREM AddressIsProven == AccountSpec => []VerifiedIsProven
  BY AccountInvariance, PTL DEF AccountInv

-----------------------------------------------------------------------------
(* Backups                                                                 *)

\* A newest dump is never outdated.
LEMMA NewestStays ==
    ASSUME NEW dumps, NEW d \in Outdated(dumps), \A e \in dumps : e \in Nat
    PROVE  d \in dumps /\ \E e \in dumps : e > d
  <1>1. d \in dumps /\ Cardinality({e \in dumps : e > d}) >= Retention
    BY DEF Outdated
  <1>2. {e \in dumps : e > d} # {}
    <2>1. SUFFICES ASSUME {e \in dumps : e > d} = {} PROVE FALSE
      OBVIOUS
    <2>2. 0 >= Retention
      BY <1>1, <2>1, FS_EmptySet
    <2> QED BY <2>2, BackupAssumption
  <1> QED BY <1>1, <1>2

\* The invariant gives the property: Max picks the newest.
LEMMA NewestIsMax ==
    ASSUME NEW dumps, dumps \subseteq Nat, dumps # {}, NEW place, NewestIsIn(dumps, place)
    PROVE  Max(dumps) \in place
  <1>1. PICK d \in dumps : d \in place /\ \A e \in dumps : e <= d
    BY DEF NewestIsIn
  <1> DEFINE m == Max(dumps)
  <1>2. m \in dumps /\ m >= d
    <2>1. d \in Nat /\ \A e \in dumps : e \in Nat /\ d >= e
      BY <1>1
    <2> QED BY <2>1 DEF Max
  <1> HIDE DEF m
  <1>3. m = d
    <2>1. m \in Nat /\ d \in Nat /\ m <= d
      BY <1>1, <1>2
    <2> QED BY <1>2, <2>1
  <1> QED BY <1>1, <1>3 DEF m

\* What stays in the place keeps the newest there.
LEMMA NewestGoesOn ==
    ASSUME NEW dumps, NEW place, NEW after, NewestIsIn(dumps, place), place \cap dumps \subseteq after
    PROVE  NewestIsIn(dumps, after)
  BY DEF NewestIsIn

\* Nothing was dumped yet, and nothing is restored.
LEMMA BackupInvInit == BackupInit => BackupInv
  <1> SUFFICES ASSUME BackupInit PROVE BackupInv
    OBVIOUS
  <1> USE BackupAssumption DEF BackupInit
  <1>1. BackupTypeOK
    <2>1. db \in [Databases -> SUBSET Tables]
      OBVIOUS
    <2>2. restore \in [at : {"none", "planned", "applying", "ok", "done"}, dump : 0..MaxRuns,
                       into : Databases, info : SUBSET Tables, applied : SUBSET Tables]
      BY DEF NoRestore, Databases
    <2> QED BY <2>1, <2>2 DEF BackupTypeOK
  <1>2. NewestIsIn(verified, files) /\ NewestIsIn(uploaded, bucket)
    BY DEF NewestIsIn
  <1>3. RunSoFar /\ RestoreSoFar
    BY DEF RunSoFar, RestoreSoFar, NoRestore
  <1> QED BY <1>1, <1>2, <1>3 DEF BackupInv

\* A run dumps, verifies, removes what is outdated and uploads, in this order.
LEMMA RunStep ==
    ASSUME BackupInv, UNCHANGED restoreVars,
           \/ Start \/ Connects \/ (\E t \in Tables : WriteTable(t)) \/ Dumped \/ Verify
           \/ RemoveFile \/ RetentionDone \/ Upload \/ SkipUpload \/ RemoveObject \/ Done
           \/ DumpFails \/ VerifyFails \/ Ends
    PROVE  BackupInv'
  <1> USE BackupAssumption
  <1>1. /\ run \in 0..MaxRuns /\ files \subseteq 1..run /\ bucket \subseteq 1..run
        /\ verified \subseteq 1..run /\ uploaded \subseteq 1..run
        /\ listed \in [1..MaxRuns -> SUBSET Tables] /\ held \in [1..MaxRuns -> SUBSET Tables]
        /\ db \in [Databases -> SUBSET Tables] /\ db["main"] \in SUBSET Tables
    BY DEF BackupInv, BackupTypeOK, Dumps, Databases
  <1>2. /\ run \in Nat /\ (run > 0 => run \in 1..run /\ run \in 1..MaxRuns)
        /\ \A d \in verified \cup uploaded \cup files \cup bucket : d <= run /\ d \in Nat
    BY <1>1
  \* Where neither the dumps nor what they hold change, what is left to show.
  <1>3. ASSUME run' = run, UNCHANGED dumpVars, UNCHANGED restoreVars,
               files' \subseteq files, bucket' \subseteq bucket,
               UNCHANGED <<verified, uploaded>>, stage' \in {"over", "keeping", "uploading", "cleaning", "verifying"},
               NewestIsIn(verified, files'), NewestIsIn(uploaded, bucket'), RunSoFar'
        PROVE  BackupInv'
    BY <1>3 DEF BackupInv, BackupTypeOK, Dumps, RestoreSoFar, dumpVars, restoreVars
  <1>4. CASE Start
    BY <1>1, <1>2, <1>4
    DEF Start, BackupInv, BackupTypeOK, Dumps, RunSoFar, RestoreSoFar, restoreVars, dumpVars, NewestIsIn
  <1>5. CASE Connects
    <2>1. /\ stage = "waiting" /\ stage' = "dumping" /\ run > 0 /\ run \notin verified
          /\ UNCHANGED <<run, held, bucket, verified, uploaded, restoreVars>>
          /\ files' = files \cup {run} /\ listed' = [listed EXCEPT ![run] = db["main"]]
      BY <1>5 DEF Connects, BackupInv, RunSoFar
    <2>2. /\ listed' \in [1..MaxRuns -> SUBSET Tables]
          /\ \A d \in verified : listed'[d] = listed[d]
      BY <1>1, <2>1
    <2>3. NewestIsIn(verified, files')
      BY <2>1, NewestGoesOn DEF BackupInv
    <2> QED BY <1>1, <1>2, <2>1, <2>2, <2>3 DEF BackupInv, BackupTypeOK, Dumps, RunSoFar, RestoreSoFar, restoreVars, NewestIsIn
  <1>6. ASSUME NEW t \in Tables, WriteTable(t) PROVE BackupInv'
    <2>1. /\ stage = "dumping" /\ stage' = "dumping" /\ run > 0 /\ run \notin verified
          /\ UNCHANGED <<run, files, listed, bucket, verified, uploaded, restoreVars>>
          /\ held' = [held EXCEPT ![run] = held[run] \cup {t}]
      BY <1>6 DEF WriteTable, BackupInv, RunSoFar
    <2>2. /\ held' \in [1..MaxRuns -> SUBSET Tables]
          /\ \A d \in verified : held'[d] = held[d]
          /\ \A d \in 1..MaxRuns : held[d] \subseteq held'[d]
      BY <1>1, <1>2, <2>1
    <2>3. RestoreSoFar'
      BY <2>1, <2>2 DEF BackupInv, BackupTypeOK, RestoreSoFar, restoreVars
    <2> QED BY <2>1, <2>2, <2>3 DEF BackupInv, BackupTypeOK, Dumps, RunSoFar, restoreVars, NewestIsIn
  <1>7. CASE Dumped
    BY <1>3, <1>7 DEF Dumped, Step, Following, DumpIsComplete, BackupInv, RunSoFar, dumpVars
  <1>8. CASE Verify
    <2>1. /\ stage = "verifying" /\ stage' = "keeping" /\ run > 0 /\ run \in files
          /\ UNCHANGED <<run, files, dumpVars, bucket, uploaded, restoreVars>>
          /\ verified' = verified \cup {run} /\ held[run] = listed[run]
      BY <1>8 DEF Verify, Step, Following, BackupInv, RunSoFar
    <2>2. NewestIsIn(verified', files)
      BY <1>2, <2>1 DEF NewestIsIn
    <2> QED BY <1>1, <1>2, <2>1, <2>2
            DEF BackupInv, BackupTypeOK, Dumps, RunSoFar, RestoreSoFar, restoreVars, dumpVars, NewestIsIn
  <1>9. CASE RemoveFile
    <2>1. PICK d \in Outdated(files) : files' = files \ {d}
      BY <1>9 DEF RemoveFile
    <2>2. stage = "keeping" /\ UNCHANGED <<run, stage, dumpVars, bucket, verified, uploaded, restoreVars>>
      BY <1>9 DEF RemoveFile
    <2>3. d # run
      BY <1>2, <2>1, NewestStays
    <2>4. run \in files' /\ run \in verified
      BY <2>1, <2>2, <2>3 DEF BackupInv, RunSoFar
    <2>5. NewestIsIn(verified, files')
      BY <1>2, <2>4 DEF NewestIsIn
    <2>6. RunSoFar'
      BY <2>2, <2>4 DEF BackupInv, RunSoFar
    <2> QED BY <1>3, <2>1, <2>2, <2>5, <2>6 DEF BackupInv
  <1>10. CASE RetentionDone
    BY <1>3, <1>10 DEF RetentionDone, Step, Following, BackupInv, RunSoFar, dumpVars
  <1>11. CASE Upload
    <2>1. /\ stage = "uploading" /\ stage' = "cleaning" /\ run > 0 /\ run \in verified /\ run \in files
          /\ UNCHANGED <<run, files, dumpVars, verified, restoreVars>>
          /\ bucket' = bucket \cup {run} /\ uploaded' = uploaded \cup {run}
      BY <1>11 DEF Upload, Step, Following, BackupInv, RunSoFar
    <2>2. NewestIsIn(uploaded', bucket')
      <3>1. run \in uploaded' \cap bucket' /\ \A d \in uploaded' : d <= run
        BY <1>2, <2>1
      <3> QED BY <3>1 DEF NewestIsIn
    <2> QED BY <1>1, <1>2, <2>1, <2>2
            DEF BackupInv, BackupTypeOK, Dumps, RunSoFar, RestoreSoFar, restoreVars, dumpVars, NewestIsIn
  <1>12. CASE SkipUpload \/ Done \/ VerifyFails \/ Ends
    <2>1. stage' = "over" /\ UNCHANGED <<run, files, dumpVars, bucket, verified, uploaded, restoreVars>>
      BY <1>12 DEF SkipUpload, Done, VerifyFails, Ends
    <2>2. RunSoFar'
      BY <2>1 DEF RunSoFar
    <2> QED BY <1>3, <2>1, <2>2 DEF BackupInv
  <1>13. CASE RemoveObject
    <2>1. PICK d \in Outdated(bucket) : bucket' = bucket \ {d}
      BY <1>13 DEF RemoveObject
    <2>2. stage = "cleaning" /\ UNCHANGED <<run, stage, files, dumpVars, verified, uploaded, restoreVars>>
      BY <1>13 DEF RemoveObject
    <2>3. d # run
      BY <1>2, <2>1, NewestStays
    <2>4. run \in bucket' /\ run \in uploaded
      BY <2>1, <2>2, <2>3 DEF BackupInv, RunSoFar
    <2>5. NewestIsIn(uploaded, bucket')
      BY <1>2, <2>4 DEF NewestIsIn
    <2>6. RunSoFar'
      BY <2>2, <2>4 DEF BackupInv, RunSoFar
    <2> QED BY <1>3, <2>1, <2>2, <2>5, <2>6 DEF BackupInv
  <1>14. CASE DumpFails
    <2>1. /\ stage = "dumping" /\ stage' = "over" /\ files' = files \ {run} /\ run \notin verified
          /\ UNCHANGED <<run, dumpVars, bucket, verified, uploaded, restoreVars>>
      BY <1>14 DEF DumpFails, BackupInv, RunSoFar
    <2>2. NewestIsIn(verified, files')
      BY <2>1, NewestGoesOn DEF BackupInv
    <2>3. RunSoFar'
      BY <2>1 DEF RunSoFar
    <2> QED BY <1>3, <2>1, <2>2, <2>3 DEF BackupInv
  <1> QED BY <1>4, <1>5, <1>6, <1>7, <1>8, <1>9, <1>10, <1>11, <1>12, <1>13, <1>14

\* A restore reads one dump and writes one database; what it reports was applied.
LEMMA RestoreStep ==
    ASSUME BackupInv, Restoring
    PROVE  BackupInv'
  <1> DEFINE Restores == [at : {"none", "planned", "applying", "ok", "done"}, dump : 0..MaxRuns,
                          into : Databases, info : SUBSET Tables, applied : SUBSET Tables]
  <1>1. /\ restore \in Restores /\ db \in [Databases -> SUBSET Tables] /\ run \in 0..MaxRuns
        /\ held \in [1..MaxRuns -> SUBSET Tables] /\ files \subseteq 1..run
    BY DEF BackupInv, BackupTypeOK, Dumps
  <1>2. UNCHANGED <<run, stage, files, dumpVars, bucket, verified, uploaded>>
    BY DEF Restoring, PlanRestore, DropsTable, CreatesTable, OpensForRestore, RestoreDone, RestoreEnds,
           RestoreFails, RestoreGoes
  <1>3. SUFFICES restore' \in Restores /\ db' \in [Databases -> SUBSET Tables] /\ RestoreSoFar'
    <2>1. RunSoFar'
      BY <1>2 DEF BackupInv, RunSoFar, dumpVars
    <2> QED BY <1>2, <1>3, <2>1 DEF BackupInv, BackupTypeOK, Dumps, dumpVars, NewestIsIn
  <1>4. CASE restore' = NoRestore /\ UNCHANGED db
    BY <1>1, <1>4, BackupAssumption DEF RestoreSoFar, NoRestore, Databases
  <1>5. ASSUME NEW d \in files, NEW b \in Databases, PlanRestore(d, b)
        PROVE  restore' \in Restores /\ db' \in [Databases -> SUBSET Tables] /\ RestoreSoFar'
    BY <1>1, <1>2, <1>5, BackupAssumption DEF PlanRestore, RestoreGoes, RestoreSoFar, dumpVars
  <1>6. ASSUME NEW at \in {"applying", "done"}, restore' = [restore EXCEPT !.at = at], UNCHANGED db,
               restore.at # "none"
        PROVE  restore' \in Restores /\ db' \in [Databases -> SUBSET Tables] /\ RestoreSoFar'
    BY <1>1, <1>2, <1>6 DEF BackupInv, RestoreSoFar, dumpVars
  <1>7. ASSUME NEW t \in Tables, DropsTable(t)
        PROVE  restore' \in Restores /\ db' \in [Databases -> SUBSET Tables] /\ RestoreSoFar'
    <2>1. restore.at = "applying" /\ restore' = [restore EXCEPT !.applied = restore.applied \cup {t}]
      BY <1>7 DEF DropsTable, RestoreGoes
    <2>2. db' \in [Databases -> SUBSET Tables]
      BY <1>1, <1>7 DEF DropsTable
    <2> QED BY <1>1, <1>2, <2>1, <2>2 DEF BackupInv, RestoreSoFar, dumpVars
  <1>8. ASSUME NEW t \in Tables, CreatesTable(t)
        PROVE  restore' \in Restores /\ db' \in [Databases -> SUBSET Tables] /\ RestoreSoFar'
    <2>1. restore.at = "applying" /\ restore' = restore
      BY <1>8 DEF CreatesTable, RestoreGoes
    <2>2. db' \in [Databases -> SUBSET Tables]
      BY <1>1, <1>8 DEF CreatesTable
    <2> QED BY <1>1, <1>2, <2>1, <2>2 DEF BackupInv, RestoreSoFar, dumpVars
  <1>9. CASE RestoreDone
    <2>1. /\ restore.at = "applying" /\ UNCHANGED db
          /\ restore.applied = held[restore.dump] /\ restore.applied \subseteq db[restore.into]
          /\ \/ restore' = [restore EXCEPT !.at = "ok"]
             \/ restore' = [restore EXCEPT !.at = "done"]
      BY <1>9 DEF RestoreDone, RestoreGoes
    <2>2. restore.info \subseteq held[restore.dump] /\ restore.info \subseteq db[restore.into]
      BY <2>1 DEF BackupInv, RestoreSoFar
    <2> QED BY <1>1, <1>2, <2>1, <2>2 DEF BackupInv, RestoreSoFar, dumpVars
  <1>10. CASE OpensForRestore
    BY <1>6, <1>10 DEF OpensForRestore, RestoreGoes
  <1>11. CASE RestoreEnds \/ RestoreFails
    BY <1>4, <1>11 DEF RestoreEnds, RestoreFails, RestoreGoes
  <1> QED BY <1>5, <1>7, <1>8, <1>9, <1>10, <1>11 DEF Restoring

\* Every step of the runs and of the restores keeps the invariant.
LEMMA BackupInvStep == BackupInv /\ [BackupNext]_backupVars => BackupInv'
  <1> SUFFICES ASSUME BackupInv, [BackupNext]_backupVars PROVE BackupInv'
    OBVIOUS
  <1>1. CASE Restoring
    BY <1>1, RestoreStep
  <1>2. CASE UNCHANGED backupVars
    BY <1>2 DEF backupVars, dumpVars, restoreVars, BackupInv, BackupTypeOK, Dumps, NewestIsIn, RunSoFar,
                RestoreSoFar
  <1>3. CASE ~Restoring /\ BackupNext
    <2>1. UNCHANGED restoreVars
      BY <1>3 DEF BackupNext, Start, Connects, WriteTable, Dumped, Verify, RemoveFile, RetentionDone, Upload,
                  SkipUpload, RemoveObject, Done, DumpFails, VerifyFails, Ends, Step
    <2> QED BY <1>3, <2>1, RunStep DEF BackupNext
  <1> QED BY <1>1, <1>2, <1>3

\* However many runs fail after it, at whatever step, the last verified dump is
\* in the directory and the last uploaded one in the bucket; what is verified
\* holds every table, and a restore that reports OK has restored it
\* (backup-db.mjs:304-318, restore-db.mjs:149).
THEOREM NewestBackupIsKept == BackupSpec => []LastBackupIsKept
  <1>1. BackupSpec => []BackupInv
    BY BackupInvInit, BackupInvStep, PTL DEF BackupSpec
  <1>2. BackupInv => LastBackupIsKept
    <2> SUFFICES ASSUME BackupInv PROVE LastBackupIsKept
      OBVIOUS
    <2>1. verified \subseteq Nat /\ uploaded \subseteq Nat
      BY DEF BackupInv, BackupTypeOK, Dumps
    <2>2. /\ verified # {} => Max(verified) \in files
          /\ uploaded # {} => Max(uploaded) \in bucket
      BY <2>1, NewestIsMax DEF BackupInv
    <2> QED BY <2>2 DEF LastBackupIsKept, BackupInv, RestoreSoFar
  <1> QED BY <1>1, <1>2, PTL
-----------------------------------------------------------------------------
(* The streak of a user                                                    *)

USE StreakAssumption

\* What was earned stays earned: days stay active.
LEMMA EarnedStays ==
    ASSUME NEW n \in Int, NEW d \in Int, Earned(n, d), active \subseteq active'
    PROVE  Earned(n, d)'
  BY DEF Earned

\* The streak a request computes is earned with the day of the request.
LEMMA NewStreakIsEarned ==
    ASSUME NEW row \in Rows, today \in Days, row.last < today, Earned(row.streak, row.last + 1)
    PROVE  NewStreak(row) \in Nat /\ Earned(NewStreak(row) - 1, today)
  <1>1. row.streak \in Nat /\ row.last \in Int /\ today \in Int
    BY DEF Rows, Days, Never
  <1>2. CASE row.last # Never /\ row.last >= today - 1
    <2>1. row.last + 1 = today
      BY <1>1, <1>2
    <2>2. NewStreak(row) = row.streak + 1
      BY <1>2 DEF NewStreak
    <2> QED BY <1>1, <2>1, <2>2
  <1>3. CASE ~(row.last # Never /\ row.last >= today - 1)
    <2>1. NewStreak(row) = 1
      BY <1>3 DEF NewStreak
    <2> QED BY <2>1 DEF Earned
  <1> QED BY <1>2, <1>3

\* Every step keeps the types.
LEMMA StreakStepType == StreakTypeOK /\ [StreakNext]_streakVars => StreakTypeOK'
  <1> SUFFICES ASSUME StreakTypeOK, [StreakNext]_streakVars PROVE StreakTypeOK'
    OBVIOUS
  <1> USE DEF StreakTypeOK, Row, NoRow, Rows, Days, Never, rowVars, turnVars, StepsTo
  <1>1. ASSUME NEW r \in Requests, ReadRow(r) PROVE StreakTypeOK'
    BY <1>1 DEF ReadRow
  <1>2. ASSUME NEW r \in Requests, FindRecorded(r) PROVE StreakTypeOK'
    BY <1>2 DEF FindRecorded
  <1>3. ASSUME NEW r \in Requests, Compute(r) PROVE StreakTypeOK'
    <2>1. NewStreak(seen[r]) \in Nat
      BY DEF NewStreak
    <2> QED BY <1>3, <2>1 DEF Compute
  <1>4. ASSUME NEW r \in Requests, WriteStreak(r) PROVE StreakTypeOK'
    <2>1. day[r] \in Days
      BY <1>4 DEF WriteStreak, Writable
    <2> QED BY <1>4, <2>1 DEF WriteStreak
  <1>5. ASSUME NEW r \in Requests, SkipWrite(r) PROVE StreakTypeOK'
    BY <1>5 DEF SkipWrite
  <1>6. ASSUME NEW r \in Requests, EndUpdate(r) PROVE StreakTypeOK'
    BY <1>6 DEF EndUpdate
  <1>7. CASE Midnight
    BY <1>7 DEF Midnight
  <1>8. CASE UNCHANGED streakVars
    BY <1>8 DEF streakVars
  <1> QED BY <1>1, <1>2, <1>3, <1>4, <1>5, <1>6, <1>7, <1>8 DEF StreakNext, Update

\* Every step keeps, or adds to, the active days.
LEMMA DaysStayActive == StreakTypeOK /\ [StreakNext]_streakVars => active \subseteq active'
  BY DEF StreakNext, Update, ReadRow, FindRecorded, Compute, WriteStreak, SkipWrite, EndUpdate,
         Midnight, streakVars

-----------------------------------------------------------------------------
\* The inductive invariant: what the row, the reads and the computed streaks
\* stand for was earned.
THEOREM StreakInvariance == StreakSpec => []StreakIInv
  <1>1. StreakInit => StreakIInv
    <2> SUFFICES ASSUME StreakInit PROVE StreakIInv
      OBVIOUS
    <2>1. StreakTypeOK
      BY DEF StreakInit, StreakTypeOK, Row, NoRow, Rows, Days, Never
    <2>2. StreakIsEarned /\ SeenIsEarned /\ PendingIsEarned
      BY DEF StreakInit, StreakIsEarned, SeenIsEarned, PendingIsEarned, Earned, NoRow
    <2> QED BY <2>1, <2>2 DEF StreakIInv
  <1>2. StreakIInv /\ [StreakNext]_streakVars => StreakIInv'
    <2> SUFFICES ASSUME StreakIInv, [StreakNext]_streakVars PROVE StreakIInv'
      OBVIOUS
    <2>1. StreakTypeOK'
      BY StreakStepType DEF StreakIInv
    <2>2. active \subseteq active'
      BY DaysStayActive DEF StreakIInv
    <2>3. /\ streak \in Int /\ last + 1 \in Int
          /\ \A r \in Requests : /\ seen[r] \in Rows
                                 /\ seen[r].streak \in Int /\ seen[r].last + 1 \in Int
                                 /\ pending[r] - 1 \in Int /\ day[r] \in Int
      BY DEF StreakIInv, StreakTypeOK, Row, Rows, Days, Never
    <2>4. ASSUME NEW r \in Requests, Update(r) PROVE StreakIInv'
      <3>1. CASE ReadRow(r)
        <4>1. StreakIsEarned' /\ UNCHANGED active
          BY <3>1 DEF ReadRow, rowVars, StreakIInv, StreakIsEarned, Earned
        <4>2. SeenIsEarned'
          BY <3>1, <4>1 DEF ReadRow, rowVars, Row, StreakIInv, StreakTypeOK, StreakIsEarned, SeenIsEarned, Earned
        <4>3. PendingIsEarned'
          BY <3>1 DEF ReadRow, StepsTo, StreakIInv, StreakTypeOK, PendingIsEarned, Earned
        <4> QED BY <2>1, <4>1, <4>2, <4>3 DEF StreakIInv
      <3>2. CASE Compute(r)
        <4>1. StreakIsEarned' /\ SeenIsEarned'
          BY <3>2 DEF Compute, rowVars, StreakIInv, StreakIsEarned, SeenIsEarned, Earned
        <4>2. today \in Days /\ Earned(seen[r].streak, seen[r].last + 1)
          BY DEF StreakIInv, StreakTypeOK, SeenIsEarned
        <4>3. Earned(NewStreak(seen[r]) - 1, today)
          BY <3>2, <4>2, <2>3, NewStreakIsEarned DEF Compute
        <4>4. PendingIsEarned'
          BY <3>2, <4>2, <4>3 DEF Compute, StepsTo, StreakIInv, StreakTypeOK, PendingIsEarned, Earned
        <4> QED BY <2>1, <4>1, <4>4 DEF StreakIInv
      <3>3. CASE WriteStreak(r)
        <4>1. /\ day[r] \in Days /\ Earned(pending[r] - 1, day[r])
              /\ streak' = pending[r] /\ last' = day[r] /\ active' = active \cup {day[r]}
          BY <3>3 DEF WriteStreak, StepsTo, StreakIInv, PendingIsEarned
        <4>2. StreakIsEarned'
          <5>1. pending[r] \in Int /\ day[r] \in Int
            BY DEF StreakIInv, StreakTypeOK, Days, Never
          <5>2. ASSUME NEW k \in 1..pending[r] PROVE (day[r] + 1) - k \in active'
            <6>1. CASE k = 1
              <7>1. (day[r] + 1) - k = day[r]
                BY <5>1, <6>1
              <7> QED BY <4>1, <7>1
            <6>2. CASE k # 1
              <7>1. k - 1 \in 1..(pending[r] - 1) /\ day[r] - (k - 1) = (day[r] + 1) - k
                BY <5>1, <6>2
              <7> QED BY <4>1, <7>1 DEF Earned
            <6> QED BY <6>1, <6>2
          <5> QED BY <4>1, <5>2 DEF StreakIsEarned, Earned
        <4>3. SeenIsEarned' /\ PendingIsEarned'
          BY <3>3, <4>1, <2>2, <2>3 DEF WriteStreak, StepsTo, StreakIInv, StreakTypeOK, SeenIsEarned, PendingIsEarned, Earned
        <4> QED BY <2>1, <4>2, <4>3 DEF StreakIInv
      <3>4. CASE FindRecorded(r) \/ SkipWrite(r)
        BY <2>1, <3>4 DEF FindRecorded, SkipWrite, StepsTo, rowVars, StreakIInv, StreakTypeOK, StreakIsEarned,
                          SeenIsEarned, PendingIsEarned, Earned
      <3>5. CASE EndUpdate(r)
        <4>1. StreakIsEarned' /\ PendingIsEarned'
          BY <3>5 DEF EndUpdate, rowVars, StreakIInv, StreakTypeOK, StreakIsEarned, PendingIsEarned, Earned
        <4>2. SeenIsEarned'
          BY <3>5 DEF EndUpdate, NoRow, StreakIInv, StreakTypeOK, SeenIsEarned, Earned
        <4> QED BY <2>1, <4>1, <4>2 DEF StreakIInv
      <3> QED BY <2>4, <3>1, <3>2, <3>3, <3>4, <3>5 DEF Update
    <2>5. CASE Midnight \/ UNCHANGED streakVars
      BY <2>1, <2>5 DEF Midnight, streakVars, rowVars, turnVars, StreakIInv, StreakIsEarned,
                        SeenIsEarned, PendingIsEarned, Earned
    <2> QED BY <2>4, <2>5 DEF StreakNext
  <1> QED BY <1>1, <1>2, PTL DEF StreakSpec

\* The streak never says more than the activities recorded, whatever requests
\* race and wherever midnight falls (learning.service.ts:148).
THEOREM StreakEarned == StreakSpec => []StreakIsEarned
  BY StreakInvariance, PTL DEF StreakIInv

\* The day of the row never goes back (learning.service.ts:156).
THEOREM RowAdvances == StreakSpec => LastAdvances
  <1>1. StreakIInv /\ [StreakNext]_streakVars => [last' >= last]_last
    BY DEF StreakIInv, StreakTypeOK, Row, Rows, Days, Never, StreakNext, Update, ReadRow, FindRecorded, Compute,
           WriteStreak, Writable, SkipWrite, EndUpdate, Midnight, rowVars, streakVars
  <1> QED BY <1>1, StreakInvariance, PTL DEF StreakSpec, LastAdvances

-----------------------------------------------------------------------------
(* The activity journal: Journal.tla                                       *)

\* Of two rows of one list, one is newer.
LEMMA NewerOrder ==
  ASSUME NEW a, a.id \in Nat, a.at \in Nat, NEW b, b.id \in Nat, b.at \in Nat,
         NEW c, c.id \in Nat, c.at \in Nat
  PROVE  /\ ~(Newer(a, b) /\ Newer(b, a)) /\ ~Newer(a, a)
         /\ a.id # b.id => Newer(a, b) \/ Newer(b, a)
         /\ Newer(a, b) /\ Newer(b, c) => Newer(a, c)
BY DEF Newer

\* What the rows of a page look like, whatever else a row holds.
Dated(S) == /\ \A a \in S : a.id \in Nat /\ a.at \in Nat
            /\ \A a, b \in S : a.id = b.id => a = b

\* NewestFirst lists every row once, each before those that are older.
LEMMA NewestFirstLists ==
  ASSUME NEW S, IsFiniteSet(S), Dated(S)
  PROVE  LET s == NewestFirst(S)
         IN  /\ s \in Seq(S) /\ Len(s) \in Nat /\ DOMAIN s = 1..Len(s)
             /\ \A i \in DOMAIN s : s[i] \in S
             /\ \A i, j \in DOMAIN s : i < j => Newer(s[i], s[j])
             /\ \A a \in S : \E i \in DOMAIN s : s[i] = a
<1> DEFINE n == Cardinality(S)
           Before(a) == {b \in S : Newer(b, a)}
           r == [a \in S |-> Cardinality(Before(a)) + 1]
           s == [i \in 1..n |-> CHOOSE a \in S : Cardinality({b \in S : Newer(b, a)}) + 1 = i]
<1>1. n \in Nat
  BY FS_CardinalityType
<1>2. \A a \in S : IsFiniteSet(Before(a)) /\ Cardinality(Before(a)) + 1 \in 1..n
  <2> SUFFICES ASSUME NEW a \in S
               PROVE  IsFiniteSet(Before(a)) /\ Cardinality(Before(a)) + 1 \in 1..n
    OBVIOUS
  <2> DEFINE T == Before(a)
  <2>1. T \in SUBSET S /\ a \notin T
    BY NewerOrder DEF Dated
  <2> HIDE DEF T
  <2>2. IsFiniteSet(T) /\ Cardinality(T) <= Cardinality(S) /\ (Cardinality(S) = Cardinality(T) => S = T)
    BY <2>1, FS_Subset
  <2>3. Cardinality(T) \in Nat /\ Cardinality(T) # Cardinality(S)
    BY <2>1, <2>2, FS_CardinalityType
  <2>4. Cardinality(T) + 1 \in 1..n
    BY <1>1, <2>2, <2>3
  <2> QED
    BY <2>2, <2>4 DEF T
<1>3. \A a, b \in S : Newer(a, b) => r[a] < r[b]
  <2> SUFFICES ASSUME NEW a \in S, NEW b \in S, Newer(a, b)
               PROVE  Cardinality(Before(a)) + 1 < Cardinality(Before(b)) + 1
    OBVIOUS
  <2> DEFINE T == Before(a)
             U == Before(b)
  <2>1. T \in SUBSET U /\ a \in U /\ a \notin T
    <3>1. \A c \in S : Newer(c, a) => Newer(c, b)
      BY NewerOrder DEF Dated
    <3>2. ~Newer(a, a)
      BY NewerOrder DEF Dated
    <3> QED
      BY <3>1, <3>2
  <2>2. IsFiniteSet(U)
    BY <1>2
  <2> HIDE DEF T, U
  <2>3. IsFiniteSet(T) /\ Cardinality(T) <= Cardinality(U) /\ Cardinality(U) # Cardinality(T)
    BY <2>1, <2>2, FS_Subset
  <2>4. Cardinality(T) \in Nat /\ Cardinality(U) \in Nat
    BY <2>2, <2>3, FS_CardinalityType
  <2>5. Cardinality(T) + 1 < Cardinality(U) + 1
    BY <2>3, <2>4
  <2> QED
    BY <2>5 DEF T, U
<1>4. r \in [S -> 1..n]
  BY <1>2
<1>5. \A a, b \in S : r[a] = r[b] => a = b
  <2> SUFFICES ASSUME NEW a \in S, NEW b \in S, a # b
               PROVE  r[a] # r[b]
    OBVIOUS
  <2> HIDE DEF r
  <2>1. Newer(a, b) \/ Newer(b, a)
    BY NewerOrder DEF Dated
  <2>2. r[a] \in Nat /\ r[b] \in Nat
    BY <1>4
  <2> QED
    BY <1>3, <2>1, <2>2
<1>6. \A i \in 1..n : \E a \in S : r[a] = i
  <2> HIDE DEF r
  <2>1. r \in Injection(S, 1..n)
    BY <1>4, <1>5 DEF Injection, IsInjective
  <2>2. IsFiniteSet(1..n) /\ Cardinality(1..n) = n
    BY <1>1, FS_Interval
  <2>3. Cardinality(S) = Cardinality(1..n) <=> r \in Surjection(S, 1..n)
    BY <2>1, <2>2, FS_Injection
  <2> QED
    BY <2>2, <2>3 DEF Surjection
<1>7. \A i \in 1..n : s[i] \in S /\ r[s[i]] = i
  <2> SUFFICES ASSUME NEW i \in 1..n
               PROVE  s[i] \in S /\ r[s[i]] = i
    OBVIOUS
  <2>1. \E a \in S : Cardinality({b \in S : Newer(b, a)}) + 1 = i
    BY <1>6
  <2>2. s[i] \in S /\ Cardinality({b \in S : Newer(b, s[i])}) + 1 = i
    BY <2>1
  <2> QED
    BY <2>2
<1>8. s \in [1..n -> S] /\ DOMAIN s = 1..n
  BY <1>7
<1>9. s \in Seq(S) /\ Len(s) = n
  <2> HIDE DEF s, n
  <2>1. s \in Seq(S)
    BY <1>1, <1>8, IsASeq
  <2> QED
    BY <1>1, <1>8, <2>1, LenProperties
<1>10. \A i, j \in 1..n : i < j => Newer(s[i], s[j])
  <2> SUFFICES ASSUME NEW i \in 1..n, NEW j \in 1..n, i < j
               PROVE  Newer(s[i], s[j])
    OBVIOUS
  <2> HIDE DEF s, r
  <2>1. s[i] \in S /\ s[j] \in S /\ r[s[i]] = i /\ r[s[j]] = j
    BY <1>7
  <2>2. i \in Nat /\ j \in Nat
    BY <1>1
  <2>3. s[i] # s[j] /\ ~Newer(s[j], s[i])
    BY <1>3, <2>1, <2>2
  <2> QED
    BY <2>1, <2>3, NewerOrder DEF Dated
<1>11. \A a \in S : \E i \in 1..n : s[i] = a
  <2> HIDE DEF s, r, n
  <2> QED
    BY <1>4, <1>5, <1>7
<1>12. NewestFirst(S) = s
  BY DEF NewestFirst
<1> HIDE DEF s, n
<1> QED
  BY <1>1, <1>7, <1>8, <1>9, <1>10, <1>11, <1>12

\* The rows have each an identifier of their own, and are finitely many.
LEMMA RowsAreDated ==
  ASSUME RowsTyped, NEW S \in SUBSET recorded
  PROVE  IsFiniteSet(S) /\ Dated(S) /\ S \subseteq JournalRows
<1>1. S \subseteq JournalRows /\ \A a, b \in S : a.id = b.id => a = b
  BY DEF RowsTyped
<1>2. \A a \in S : a.id \in Ids /\ a.at \in Nat
  BY <1>1 DEF JournalRows
<1>3. Dated(S)
  BY <1>1, <1>2, JournalAssumption DEF Dated, Ids
<1> DEFINE f == [a \in S |-> a.id]
<1>4. f \in [S -> Ids] /\ \A a, b \in S : f[a] = f[b] => a = b
  BY <1>1, <1>2
<1>5. f \in Injection(S, Ids)
  <2> HIDE DEF f
  <2> QED
    BY <1>4 DEF Injection, IsInjective
<1>6. IsFiniteSet(Ids)
  BY JournalAssumption, FS_Interval DEF Ids
<1>7. IsFiniteSet(S)
  <2> HIDE DEF f
  <2> QED
    BY <1>5, <1>6, FS_Injection
<1> QED
  BY <1>1, <1>3, <1>7

\* A share of a whole is a number.
LEMMA RoundedType ==
  ASSUME NEW n \in Nat, NEW d \in Nat, d > 0
  PROVE  Rounded(n, d) \in Nat
<1>1. 2 * n + d \in Nat /\ 2 * d \in Nat /\ 2 * d > 0
  OBVIOUS
<1>2. \A p, q \in Nat : q > 0 => p \div q \in Nat
  OBVIOUS
<1> QED
  BY <1>1, <1>2 DEF Rounded

\* What the page shows of a row.
LEMMA ItemType ==
  ASSUME NEW a \in JournalRows
  PROVE  /\ Item(a) \in Items /\ Item(a).id = a.id /\ Item(a).at = a.at
         /\ Cursor(a) \in Cursors /\ Cursor(a).id = a.id /\ Cursor(a).at = a.at
         /\ Cursor(Item(a)) = Cursor(a) /\ Cursor(a) # None
<1>1. a.id \in Nat /\ a.at \in Nat /\ a.current \in Nat
  BY JournalAssumption DEF JournalRows, Ids
<1>2. Percent(a) \in Nat \cup {None}
  <2>1. Total \in Nat /\ Total > 0 /\ 50 * (Total + a.current) \in Nat /\ 50 * a.current \in Nat
    BY <1>1, JournalAssumption
  <2>2. Rounded(50 * (Total + a.current), Total) \in Nat /\ Rounded(50 * a.current, Total) \in Nat
    BY <2>1, RoundedType
  <2> QED
    BY <2>2 DEF Percent
<1>3. Cursor(a) \in Cursors
  BY <1>1 DEF Cursor, Cursors
<1> QED
  BY <1>1, <1>2, <1>3, JournalAssumption DEF Item, Items, Cursor

\* A page of the API: sorted, ended by its cursor, and whole as far as that.
LEMMA PageIsWhole ==
  ASSUME RowsTyped, NEW c \in Cursors \cup {None}
  PROVE  LET p == PageAfter(c)
         IN  /\ p \in Pages
             /\ \A i, j \in DOMAIN p.items : i < j => Newer(p.items[i], p.items[j])
             /\ p.next # None =>
                    \A i \in DOMAIN p.items :
                        Newer(p.items[i], p.next) \/ Cursor(p.items[i]) = p.next
             /\ c # None => /\ \A i \in DOMAIN p.items : Newer(c, p.items[i])
                            /\ p.next # None => Newer(c, p.next)
             /\ \A a \in recorded :
                    c = None \/ Newer(c, a) =>
                        \/ p.next # None /\ Newer(p.next, a)
                        \/ \E i \in DOMAIN p.items : p.items[i].id = a.id
<1> DEFINE S == {a \in recorded : c = None \/ AfterCursor(a, c)}
           s == NewestFirst(S)
           h == IF Len(s) > PageSize THEN PageSize ELSE Len(s)
           items == [n \in 1..h |-> Item(s[n])]
           next == IF Len(s) > PageSize THEN Cursor(s[PageSize]) ELSE None
           p == PageAfter(c)
<1>1. p = [items |-> items, next |-> next]
  BY DEF PageAfter
<1>2. S \in SUBSET recorded /\ \A a \in S : c # None => Newer(c, a)
  BY DEF AfterCursor
<1>3. \A a \in recorded : c = None \/ Newer(c, a) => a \in S
  BY DEF AfterCursor
<1> HIDE DEF S
<1>4. IsFiniteSet(S) /\ Dated(S) /\ S \subseteq JournalRows
  BY <1>2, RowsAreDated
<1>5. /\ s \in Seq(S) /\ Len(s) \in Nat /\ DOMAIN s = 1..Len(s)
      /\ \A i \in DOMAIN s : s[i] \in S
      /\ \A i, j \in DOMAIN s : i < j => Newer(s[i], s[j])
      /\ \A a \in S : \E i \in DOMAIN s : s[i] = a
  BY <1>4, NewestFirstLists
<1> HIDE DEF s
<1>a. h = IF Len(s) > PageSize THEN PageSize ELSE Len(s)
  OBVIOUS
<1> HIDE DEF h
<1>6. /\ PageSize \in Nat /\ PageSize > 0 /\ h \in Nat /\ h <= Len(s)
      /\ Len(s) > PageSize => h = PageSize /\ PageSize \in 1..h /\ PageSize \in 1..Len(s)
      /\ ~(Len(s) > PageSize) => h = Len(s)
  <2>1. PageSize \in Nat /\ PageSize > 0 /\ Len(s) \in Nat
    BY <1>5, JournalAssumption
  <2> HIDE DEF s
  <2> QED
    BY <2>1, <1>a
<1>7. \A i \in 1..h : i \in DOMAIN s
  <2>1. Len(s) \in Nat /\ h \in Nat /\ h <= Len(s)
    BY <1>5, <1>6
  <2>2. \A i \in 1..h : i \in 1..Len(s)
    BY <2>1
  <2> QED
    BY <1>5, <2>2
<1>8. \A i \in 1..h : /\ s[i] \in JournalRows /\ items[i] = Item(s[i]) /\ items[i] \in Items
                      /\ items[i].id = s[i].id /\ items[i].at = s[i].at
                      /\ Cursor(items[i]) = Cursor(s[i])
  BY <1>4, <1>5, <1>7, ItemType
<1>9. DOMAIN items = 1..h /\ items \in [1..h -> Items]
  BY <1>8
<1> HIDE DEF items
<1>10. items \in Seq(Items)
  BY <1>6, <1>9, IsASeq
<1>11. next # None => /\ Len(s) > PageSize /\ PageSize \in 1..h /\ h = PageSize
                      /\ next = Cursor(s[h]) /\ next \in Cursors
                      /\ next.id = s[h].id /\ next.at = s[h].at
  BY <1>6, <1>8, ItemType
<1>12. next = None => h = Len(s)
  BY <1>6, <1>8, ItemType
<1>13. next \in Cursors \cup {None}
  BY <1>11
<1> HIDE DEF next
<1>14. p.items = items /\ p.next = next /\ p \in Pages
  BY <1>1, <1>10, <1>13 DEF Pages
<1>15. \A i, j \in 1..h : i < j => Newer(items[i], items[j])
  BY <1>5, <1>7, <1>8 DEF Newer
<1>16. ASSUME next # None, NEW i \in 1..h
       PROVE  Newer(items[i], next) \/ Cursor(items[i]) = next
  <2>1. CASE i = h
    BY <1>8, <1>11, <1>16, <2>1
  <2>2. CASE i # h
    <3>1. i < h /\ h \in 1..h
      BY <1>6, <1>11, <1>16, <2>2
    <3>2. Newer(s[i], s[h])
      BY <1>5, <1>7, <3>1
    <3> QED
      BY <1>8, <1>11, <1>16, <3>2 DEF Newer
  <2> QED
    BY <2>1, <2>2
<1>17. ASSUME c # None
       PROVE  /\ \A i \in 1..h : Newer(c, items[i])
              /\ next # None => Newer(c, next)
  <2>1. \A i \in 1..h : Newer(c, s[i])
    BY <1>2, <1>5, <1>7, <1>17
  <2> QED
    BY <1>8, <1>11, <2>1 DEF Newer
<1>18. ASSUME NEW a \in recorded, c = None \/ Newer(c, a)
       PROVE  \/ next # None /\ Newer(next, a)
              \/ \E i \in 1..h : items[i].id = a.id
  <2>1. PICK i \in DOMAIN s : s[i] = a
    BY <1>3, <1>5, <1>18
  <2>2. CASE i \in 1..h
    BY <1>8, <2>1, <2>2
  <2>3. CASE i \notin 1..h
    <3>1. i \in 1..Len(s) /\ Len(s) \in Nat /\ h \in Nat /\ h <= Len(s)
      BY <1>5, <1>6, <2>1
    <3>4. h < i
      BY <3>1, <2>3
    <3>5. h # Len(s)
      BY <3>1, <3>4
    <3>6. next # None
      BY <3>5, <1>12
    <3>7. h \in DOMAIN s
      BY <1>7, <1>11, <3>6
    <3>2. Newer(s[h], a)
      BY <1>5, <2>1, <3>4, <3>7
    <3> QED
      BY <1>11, <3>6, <3>2 DEF Newer
  <2> QED
    BY <2>2, <2>3
<1> HIDE DEF p
<1>19. /\ p \in Pages
       /\ \A i, j \in DOMAIN p.items : i < j => Newer(p.items[i], p.items[j])
       /\ p.next # None =>
              \A i \in DOMAIN p.items : Newer(p.items[i], p.next) \/ Cursor(p.items[i]) = p.next
       /\ c # None => /\ \A i \in DOMAIN p.items : Newer(c, p.items[i])
                      /\ p.next # None => Newer(c, p.next)
       /\ \A a \in recorded :
              c = None \/ Newer(c, a) =>
                  \/ p.next # None /\ Newer(p.next, a)
                  \/ \E i \in DOMAIN p.items : p.items[i].id = a.id
  BY <1>9, <1>14, <1>15, <1>16, <1>17, <1>18
<1> QED
  BY <1>19 DEF p

\* What is listed, by page and place.
LEMMA ItemsListed ==
  ASSUME NEW ps
  PROVE  /\ \A p : p \in Places(ps) <=>
                       \E m \in DOMAIN ps : \E i \in DOMAIN ps[m].items : p = <<m, i>>
         /\ \A x : x \in ItemsOf(ps) <=>
                       \E m \in DOMAIN ps : \E i \in DOMAIN ps[m].items : x = ps[m].items[i]
<1>1. \A p : p \in Places(ps) <=> \E m \in DOMAIN ps : \E i \in DOMAIN ps[m].items : p = <<m, i>>
  BY DEF Places
<1>2. ASSUME NEW x
      PROVE  x \in ItemsOf(ps) <=>
                 \E m \in DOMAIN ps : \E i \in DOMAIN ps[m].items : x = ps[m].items[i]
  <2>1. ASSUME x \in ItemsOf(ps)
        PROVE  \E m \in DOMAIN ps : \E i \in DOMAIN ps[m].items : x = ps[m].items[i]
    <3>1. PICK p \in Places(ps) : x = ItemAt(ps, p)
      BY <2>1 DEF ItemsOf
    <3>4. PICK m \in DOMAIN ps : \E i \in DOMAIN ps[m].items : p = <<m, i>>
      BY <1>1, <3>1
    <3>2. PICK i \in DOMAIN ps[m].items : p = <<m, i>>
      BY <3>4
    <3>3. x = ps[m].items[i]
      BY <3>1, <3>2 DEF ItemAt
    <3> QED
      BY <3>3
  <2>2. ASSUME NEW m \in DOMAIN ps, NEW i \in DOMAIN ps[m].items, x = ps[m].items[i]
        PROVE  x \in ItemsOf(ps)
    <3>1. <<m, i>> \in Places(ps) /\ ItemAt(ps, <<m, i>>) = x
      BY <1>1, <2>2 DEF ItemAt
    <3> QED
      BY <3>1 DEF ItemsOf
  <2> QED
    BY <2>1, <2>2
<1> QED
  BY <1>1, <1>2

\* The types of what pages hold.
LEMMA PagesTyped ==
  ASSUME NEW ps \in Seq(Pages), NEW m \in DOMAIN ps
  PROVE  /\ ps[m] \in Pages /\ m \in 1..Len(ps) /\ Len(ps) \in Nat
         /\ ps[m].next # None =>
                ps[m].next \in Cursors /\ ps[m].next.id \in Nat /\ ps[m].next.at \in Nat
         /\ \A i \in DOMAIN ps[m].items :
                /\ ps[m].items[i] \in Items /\ i \in Nat
                /\ ps[m].items[i].id \in Nat /\ ps[m].items[i].at \in Nat
<1>1. Len(ps) \in Nat /\ DOMAIN ps = 1..Len(ps) /\ ps \in [1..Len(ps) -> Pages]
  BY LenProperties
<1>2. ps[m] \in Pages
  BY <1>1
<1>3. ps[m].items \in Seq(Items) /\ ps[m].next \in Cursors \cup {None}
  BY <1>2 DEF Pages
<1>4. ps[m].next # None =>
          ps[m].next \in Cursors /\ ps[m].next.id \in Nat /\ ps[m].next.at \in Nat
  BY <1>3 DEF Cursors
<1> DEFINE s == ps[m].items
<1>5. s \in Seq(Items)
  BY <1>3
<1> HIDE DEF s
<1>6. s \in [1..Len(s) -> Items] /\ Len(s) \in Nat /\ DOMAIN s = 1..Len(s)
  BY <1>5, LenProperties
<1>7. \A i \in DOMAIN s : s[i] \in Items /\ i \in Nat
  BY <1>6
<1>8. \A i \in DOMAIN s : s[i].id \in Nat /\ s[i].at \in Nat
  BY <1>7 DEF Items
<1> QED
  BY <1>1, <1>2, <1>4, <1>7, <1>8 DEF s

\* One page more, read from where the last one ended.
LEMMA PageAppended ==
  ASSUME RowsTyped, NEW ps, GoodPages(ps), NEW c,
         c = IF ps = <<>> THEN None ELSE Last(ps).next, ps = <<>> \/ c # None
  PROVE  LET qs == Append(ps, PageAfter(c))
         IN  /\ GoodPages(qs)
             /\ \A since : WholePages(recorded, ps, since) => WholePages(recorded, qs, since)
<1> DEFINE page == PageAfter(c)
           qs == Append(ps, page)
           k == Len(ps)
<1>1. ps \in Seq(Pages) /\ k \in Nat /\ DOMAIN ps = 1..k
  <2>1. ps \in Seq(Pages)
    BY DEF GoodPages
  <2> QED
    BY <2>1, LenProperties
<1>2. ps # <<>> => k \in DOMAIN ps /\ Last(ps) = ps[k] /\ k > 0
  BY <1>1, EmptySeq DEF Last
<1>3. c \in Cursors \cup {None} /\ (c # None => c \in Cursors /\ c.id \in Nat /\ c.at \in Nat)
  BY <1>1, <1>2, PagesTyped
<1>4. /\ page \in Pages
      /\ \A i, j \in DOMAIN page.items : i < j => Newer(page.items[i], page.items[j])
      /\ page.next # None =>
             \A i \in DOMAIN page.items :
                 Newer(page.items[i], page.next) \/ Cursor(page.items[i]) = page.next
      /\ c # None => /\ \A i \in DOMAIN page.items : Newer(c, page.items[i])
                     /\ page.next # None => Newer(c, page.next)
      /\ \A a \in recorded :
             c = None \/ Newer(c, a) =>
                 \/ page.next # None /\ Newer(page.next, a)
                 \/ \E i \in DOMAIN page.items : page.items[i].id = a.id
  BY <1>3, PageIsWhole
<1> HIDE DEF page
<1>5. /\ qs \in Seq(Pages) /\ Len(qs) = k + 1 /\ DOMAIN qs = 1..(k + 1)
      /\ \A m \in 1..k : qs[m] = ps[m] /\ m \in DOMAIN ps
      /\ qs[k + 1] = page
  <2>1. /\ qs \in Seq(Pages) /\ Len(qs) = Len(ps) + 1
        /\ \A i \in 1..Len(ps) : qs[i] = ps[i]
        /\ qs[Len(ps) + 1] = page
    BY <1>1, <1>4, AppendProperties
  <2>2. DOMAIN qs = 1..Len(qs)
    BY <2>1, LenProperties
  <2> QED
    BY <1>1, <2>1, <2>2
<1> HIDE DEF qs
<1>6. \A m \in DOMAIN qs : m \in Nat /\ (m \in 1..k \/ m = k + 1)
  BY <1>1, <1>5
<1>7. page.next # None => page.next.id \in Nat /\ page.next.at \in Nat
  BY <1>5, PagesTyped
<1>8. \A i \in DOMAIN page.items : page.items[i].id \in Nat /\ page.items[i].at \in Nat
  BY <1>5, PagesTyped
<1>9. \A m \in 1..k : /\ ps[m].next # None
                      /\ ps[m].next.id \in Nat /\ ps[m].next.at \in Nat
                      /\ ps[m].next = c \/ Newer(ps[m].next, c)
  <2> SUFFICES ASSUME NEW m \in 1..k
               PROVE  /\ ps[m].next # None
                      /\ ps[m].next.id \in Nat /\ ps[m].next.at \in Nat
                      /\ ps[m].next = c \/ Newer(ps[m].next, c)
    OBVIOUS
  <2>1. ps # <<>> /\ k \in DOMAIN ps /\ c = ps[k].next /\ c # None /\ m \in DOMAIN ps
    BY <1>1, <1>2, EmptySeq
  <2>2. CASE m = k
    BY <1>1, <2>1, <2>2, PagesTyped
  <2>3. CASE m # k
    <3>1. m < k
      <4>1. k \in Nat
        BY <1>1
      <4> HIDE DEF k
      <4> QED
        BY <2>3, <4>1
    <3>2. ps[m].next # None /\ Newer(ps[m].next, ps[k].next)
      BY <2>1, <3>1 DEF GoodPages
    <3> QED
      BY <1>1, <2>1, <3>2, PagesTyped
  <2> QED
    BY <2>2, <2>3
<1>10. \A m \in 1..k : /\ \A i \in DOMAIN page.items : Newer(ps[m].next, page.items[i])
                       /\ page.next # None => Newer(ps[m].next, page.next)
  <2> SUFFICES ASSUME NEW m \in 1..k
               PROVE  /\ \A i \in DOMAIN page.items : Newer(ps[m].next, page.items[i])
                      /\ page.next # None => Newer(ps[m].next, page.next)
    OBVIOUS
  <2>1. c # None /\ c.id \in Nat /\ c.at \in Nat
    BY <1>1, <1>3, EmptySeq
  <2>2. ASSUME NEW i \in DOMAIN page.items
        PROVE  Newer(ps[m].next, page.items[i])
    <3>1. Newer(c, page.items[i])
      BY <1>4, <2>1
    <3> QED
      BY <1>8, <1>9, <2>1, <3>1, NewerOrder
  <2>3. ASSUME page.next # None
        PROVE  Newer(ps[m].next, page.next)
    <3>1. Newer(c, page.next)
      BY <1>4, <2>1, <2>3
    <3> QED
      BY <1>7, <1>9, <2>1, <2>3, <3>1, NewerOrder
  <2> QED
    BY <2>2, <2>3
<1>11. GoodPages(qs)
  <2>1. \A m \in DOMAIN qs :
          \A i, j \in DOMAIN qs[m].items : i < j => Newer(qs[m].items[i], qs[m].items[j])
    BY <1>4, <1>5, <1>6 DEF GoodPages
  <2>2. \A m \in DOMAIN qs : m < Len(qs) => qs[m].next # None
    BY <1>1, <1>5, <1>6, <1>9
  <2>3. \A m \in DOMAIN qs : qs[m].next # None =>
            \A i \in DOMAIN qs[m].items :
                Newer(qs[m].items[i], qs[m].next) \/ Cursor(qs[m].items[i]) = qs[m].next
    BY <1>4, <1>5, <1>6 DEF GoodPages
  <2>4. ASSUME NEW m \in DOMAIN qs, NEW n \in DOMAIN qs, m < n
        PROVE  /\ \A i \in DOMAIN qs[n].items : Newer(qs[m].next, qs[n].items[i])
               /\ qs[n].next # None => Newer(qs[m].next, qs[n].next)
    <3>1. m \in 1..k /\ qs[m] = ps[m] /\ m \in DOMAIN ps
      BY <1>1, <1>5, <1>6, <2>4
    <3>2. CASE n \in 1..k
      <4>1. qs[n] = ps[n] /\ n \in DOMAIN ps
        BY <1>5, <3>2
      <4> QED
        BY <2>4, <3>1, <4>1 DEF GoodPages
    <3>3. CASE n = k + 1
      BY <1>5, <1>10, <3>1, <3>3
    <3> QED
      BY <1>6, <3>2, <3>3
  <2> QED
    BY <1>5, <2>1, <2>2, <2>3, <2>4 DEF GoodPages
<1>12. ASSUME NEW since, WholePages(recorded, ps, since)
       PROVE  WholePages(recorded, qs, since)
  <2>1. qs # <<>> /\ Last(qs) = page
    BY <1>1, <1>5, EmptySeq DEF Last
  <2>2. ASSUME NEW m \in 1..k, NEW i \in DOMAIN ps[m].items
        PROVE  ps[m].items[i] \in ItemsOf(qs)
    BY <1>1, <1>5, <2>2, ItemsListed
  <2>3. \A i \in DOMAIN page.items : page.items[i] \in ItemsOf(qs)
    <3>1. k + 1 \in DOMAIN qs /\ qs[k + 1] = page
      BY <1>1, <1>5
    <3> QED
      BY <3>1, ItemsListed
  <2>4. \A x \in ItemsOf(ps) : x \in ItemsOf(qs)
    BY <1>1, <2>2, ItemsListed
  <2>5. ASSUME NEW a \in recorded
        PROVE  \/ a.id \in since
               \/ page.next # None /\ Newer(page.next, a)
               \/ \E item \in ItemsOf(qs) : item.id = a.id
    <3>1. ASSUME c = None \/ Newer(c, a)
          PROVE  \/ page.next # None /\ Newer(page.next, a)
                 \/ \E item \in ItemsOf(qs) : item.id = a.id
      BY <1>4, <2>3, <3>1
    <3>2. ASSUME c # None, ~Newer(c, a)
          PROVE  a.id \in since \/ \E item \in ItemsOf(qs) : item.id = a.id
      <4>1. ps # <<>> /\ Last(ps).next = c
        BY <3>2
      <4>2. a.id \in since \/ \E item \in ItemsOf(ps) : item.id = a.id
        BY <1>12, <3>2, <4>1 DEF WholePages
      <4> QED
        BY <2>4, <4>2
    <3> QED
      BY <3>1, <3>2
  <2> QED
    BY <2>1, <2>5 DEF WholePages
<1> QED
  BY <1>11, <1>12 DEF qs, page

\* Pages stay whole while rows keep their identifier and their date, and new ones are late.
LEMMA RowsChange ==
  ASSUME NEW R, NEW Q, NEW ps, NEW since, NEW then, WholePages(R, ps, since),
         since \subseteq then,
         \A b \in Q : b.id \in then \/ \E a \in R : a.id = b.id /\ a.at = b.at
  PROVE  WholePages(Q, ps, then)
<1> SUFFICES ASSUME ps # <<>>, NEW b \in Q, b.id \notin then
             PROVE  \/ Last(ps).next # None /\ Newer(Last(ps).next, b)
                    \/ \E item \in ItemsOf(ps) : item.id = b.id
  BY DEF WholePages
<1>1. PICK a \in R : a.id = b.id /\ a.at = b.at
  OBVIOUS
<1>2. \/ Last(ps).next # None /\ Newer(Last(ps).next, a)
      \/ \E item \in ItemsOf(ps) : item.id = a.id
  BY <1>1 DEF WholePages
<1> QED
  BY <1>1, <1>2 DEF Newer

\* The reading under way, whichever it is: what it has read is whole but for the rows since.
Since == IF loading.kind = "all" THEN loading.late ELSE late

\* A report and the end of a job keep the row's identifier and its date.
LEMMA RowRewritten ==
  ASSUME RowsTyped, NEW a \in recorded, Advance(a) \/ FinishJob(a)
  PROVE  \E b \in JournalRows : b.id = a.id /\ b.at = a.at /\ Rewrite(a, b)
<1>1. a \in JournalRows /\ Total \in Nat
  BY JournalAssumption DEF RowsTyped
<1>2. a = [id |-> a.id, at |-> a.at, status |-> a.status, phase |-> a.phase,
           current |-> a.current]
  BY <1>1 DEF JournalRows
<1>3. a.id \in Ids /\ a.at \in Nat /\ a.status \in {"ended", "running"}
  BY <1>1 DEF JournalRows
<1>4. CASE Advance(a)
  <2>1. PICK r \in Reports : Rewrite(a, [a EXCEPT !.phase = r.phase, !.current = r.current])
    BY <1>4 DEF Advance
  <2>2. r.phase \in {"parsing", "gemini", "saving"} /\ r.current \in Nat
    BY <1>1 DEF Reports
  <2>3. PICK b : b = [a EXCEPT !.phase = r.phase, !.current = r.current]
    OBVIOUS
  <2>4. b = [id |-> a.id, at |-> a.at, status |-> a.status, phase |-> r.phase,
             current |-> r.current]
    BY <1>2, <2>3
  <2>5. b \in JournalRows /\ b.id = a.id /\ b.at = a.at
    BY <1>3, <2>2, <2>4 DEF JournalRows
  <2> QED
    BY <2>1, <2>3, <2>5
<1>5. CASE FinishJob(a)
  <2>1. PICK b : b = [a EXCEPT !.status = "ended", !.phase = "done", !.current = Total]
    OBVIOUS
  <2>2. b = [id |-> a.id, at |-> a.at, status |-> "ended", phase |-> "done",
             current |-> Total]
    BY <1>2, <2>1
  <2>3. b \in JournalRows /\ b.id = a.id /\ b.at = a.at
    BY <1>1, <1>3, <2>2 DEF JournalRows
  <2> QED
    BY <1>5, <2>1, <2>3 DEF FinishJob
<1> QED
  BY <1>4, <1>5

\* A row that is dated anew, stored or rewritten is the only one of its identifier.
LEMMA RowsStep ==
  ASSUME RowsTyped, JournalNext
  PROVE  RowsTyped'
<1> USE DEF RowsTyped
<1>1. CASE SecondPasses
  BY <1>1 DEF SecondPasses
<1>2. ASSUME NEW status \in {"ended", "running"}, NEW phase \in {None, "parsing"},
             DatedNow(status, phase), UNCHANGED <<second, recorded>>
      PROVE  RowsTyped'
  <2>1. PICK i \in Ids \ {a.id : a \in recorded \cup dated} :
            dated' = dated \cup {[id |-> i, at |-> second, status |-> status,
                                  phase |-> phase, current |-> 0]}
    BY <1>2 DEF DatedNow
  <2>2. PICK b : b = [id |-> i, at |-> second, status |-> status, phase |-> phase, current |-> 0]
    OBVIOUS
  <2>3. b \in JournalRows /\ b.id = i
    BY <1>2, <2>2 DEF JournalRows
  <2>4. dated' = dated \cup {b} /\ \A a \in recorded \cup dated : a.id # b.id
    BY <2>1, <2>2, <2>3
  <2> QED
    BY <1>2, <2>3, <2>4
<1>3. CASE Record
  <2>1. CASE Succeeded
    BY <1>2, <1>3, <2>1 DEF Succeeded, Record
  <2>2. CASE Started
    BY <1>2, <1>3, <2>2 DEF Started, Record
  <2> QED
    BY <1>3, <2>1, <2>2 DEF Record
<1>4. ASSUME NEW a \in dated, Store(a)
      PROVE  RowsTyped'
  <2>1. dated' = dated \ {a} /\ recorded' = recorded \cup {a} /\ second' = second
    BY <1>4 DEF Store
  <2> QED
    BY <2>1
<1>5. ASSUME NEW a \in recorded, NEW b \in JournalRows, b.id = a.id, Rewrite(a, b)
      PROVE  RowsTyped'
  <2>1. recorded' = (recorded \ {a}) \cup {b} /\ dated' = dated /\ second' = second
    BY <1>5 DEF Rewrite
  <2>2. \A c \in (recorded \ {a}) \cup dated : c.id # b.id
    BY <1>5
  <2> QED
    BY <1>5, <2>1, <2>2
<1>6. ASSUME NEW a \in recorded, Advance(a) \/ FinishJob(a)
      PROVE  \E b \in JournalRows : b.id = a.id /\ b.at = a.at /\ Rewrite(a, b)
  BY <1>6, RowRewritten
<1>7. CASE Reread \/ LoadMore \/ ReadPage \/ ShowPages \/ LoadFails
  BY <1>7 DEF Reread, LoadMore, ReadPage, ShowPages, LoadFails, activityVars
<1> QED
  BY <1>1, <1>3, <1>4, <1>5, <1>6, <1>7 DEF JournalNext

\* What is shown and what is being read stay whole as far as they go.
LEMMA ListStep ==
  ASSUME JournalInv, JournalNext
  PROVE  JournalInv'
<1> DEFINE Shown == GoodPages(journal) /\ WholePages(recorded, journal, late)
           Reading == loading # None =>
               /\ GoodPages(loading.pages)
               /\ WholePages(recorded, loading.pages, Since)
               /\ loading.wanted \in Nat \ {0}
               /\ loading = [kind |-> loading.kind, pages |-> loading.pages,
                             wanted |-> loading.wanted, late |-> loading.late]
<1>1. RowsTyped /\ Shown /\ Reading
  BY DEF JournalInv, Since
<1>2. RowsTyped'
  BY <1>1, RowsStep
<1>3. Shown' /\ Reading' => JournalInv'
  BY <1>2 DEF JournalInv, Since
<1> SUFFICES Shown' /\ Reading'
  BY <1>3
<1>4. ASSUME UNCHANGED <<listVars, late>>,
             \A b \in recorded' : \E a \in recorded : a.id = b.id /\ a.at = b.at
      PROVE  Shown' /\ Reading'
  <2>1. journal' = journal /\ loading' = loading /\ late' = late
    BY <1>4 DEF listVars
  <2>2. Shown'
    BY <1>1, <1>4, <2>1, RowsChange
  <2>3. ASSUME loading # None
        PROVE  WholePages(recorded', loading.pages, Since)
    BY <1>1, <1>4, <2>3, RowsChange
  <2>4. Reading'
    BY <1>1, <2>1, <2>3 DEF Since
  <2> QED
    BY <2>2, <2>4
<1>5. CASE SecondPasses \/ Record
  BY <1>4, <1>5 DEF SecondPasses, Record
<1>6. ASSUME NEW a \in recorded, Advance(a) \/ FinishJob(a)
      PROVE  Shown' /\ Reading'
  <2>1. PICK b \in JournalRows : b.id = a.id /\ b.at = a.at /\ Rewrite(a, b)
    BY <1>1, <1>6, RowRewritten
  <2>2. recorded' = (recorded \ {a}) \cup {b} /\ UNCHANGED <<listVars, late>>
    BY <2>1 DEF Rewrite
  <2> QED
    BY <1>4, <2>1, <2>2
<1>7. ASSUME NEW a \in dated, Store(a)
      PROVE  Shown' /\ Reading'
  <2>1. /\ recorded' = recorded \cup {a} /\ late' = late \cup {a.id} /\ journal' = journal
        /\ loading' = IF loading = None THEN None ELSE [loading EXCEPT !.late = @ \cup {a.id}]
    BY <1>7 DEF Store
  <2>2. Shown'
    BY <1>1, <2>1, RowsChange
  <2>3. CASE loading = None
    BY <2>1, <2>2, <2>3
  <2>4. CASE loading # None
    <3>1. loading' = [kind |-> loading.kind, pages |-> loading.pages,
                      wanted |-> loading.wanted, late |-> loading.late \cup {a.id}]
      BY <1>1, <2>1, <2>4
    <3>2. /\ loading'.kind = loading.kind /\ loading'.pages = loading.pages
          /\ loading'.wanted = loading.wanted /\ loading'.late = loading.late \cup {a.id}
      BY <3>1
    <3>3. Since' = Since \cup {a.id}
      BY <2>1, <3>2 DEF Since
    <3>4. WholePages(recorded', loading.pages, Since')
      BY <1>1, <2>1, <2>4, <3>3, RowsChange
    <3> QED
      BY <1>1, <2>2, <2>4, <3>1, <3>2, <3>4
  <2> QED
    BY <2>3, <2>4
<1>8. CASE Reread
  <2>1. /\ UNCHANGED <<recorded, journal, late>>
        /\ loading' = [kind |-> "all", pages |-> <<>>,
                       wanted |-> IF journal = <<>> THEN 1 ELSE Len(journal), late |-> {}]
    BY <1>8 DEF Reread, activityVars
  <2>2. PICK w : w = IF journal = <<>> THEN 1 ELSE Len(journal)
    OBVIOUS
  <2>3. w \in Nat \ {0}
    <3>1. journal \in Seq(Pages)
      BY <1>1 DEF GoodPages
    <3>2. Len(journal) \in Nat /\ (journal # <<>> => Len(journal) # 0)
      BY <3>1, EmptySeq, LenProperties
    <3> QED
      BY <2>2, <3>2
  <2>4. GoodPages(<<>>) /\ \A since : WholePages(recorded, <<>>, since)
    BY DEF GoodPages, WholePages
  <2>5. loading' = [kind |-> "all", pages |-> <<>>, wanted |-> w, late |-> {}]
    BY <2>1, <2>2
  <2>6. /\ loading'.kind = "all" /\ loading'.pages = <<>> /\ loading'.wanted = w
        /\ loading'.late = {}
    BY <2>5
  <2> QED
    BY <1>1, <2>1, <2>3, <2>4, <2>5, <2>6
<1>9. CASE LoadMore
  <2>1. /\ UNCHANGED <<recorded, journal, late>>
        /\ loading' = [kind |-> "more", pages |-> journal, wanted |-> Len(journal) + 1,
                       late |-> {}]
    BY <1>9 DEF LoadMore, activityVars
  <2>2. Len(journal) + 1 \in Nat \ {0}
    <3>1. journal \in Seq(Pages)
      BY <1>1 DEF GoodPages
    <3>2. Len(journal) \in Nat
      BY <3>1, LenProperties
    <3> QED
      BY <3>2
  <2>3. /\ loading'.kind = "more" /\ loading'.pages = journal
        /\ loading'.wanted = Len(journal) + 1 /\ loading'.late = {}
    BY <2>1
  <2>4. Since' = late
    BY <2>1, <2>3 DEF Since
  <2> QED
    BY <1>1, <2>1, <2>2, <2>3, <2>4
<1>10. CASE ReadPage
  <2>1. /\ UNCHANGED <<recorded, journal, late>> /\ loading # None /\ ~AllRead
        /\ loading' = [loading EXCEPT !.pages = Append(@, PageAfter(NextCursor))]
    BY <1>10 DEF ReadPage, activityVars
  <2>2. PICK more : more = Append(loading.pages, PageAfter(NextCursor))
    OBVIOUS
  <2>3. loading' = [loading EXCEPT !.pages = more]
    BY <2>1, <2>2
  <2>4. loading' = [kind |-> loading.kind, pages |-> more,
                    wanted |-> loading.wanted, late |-> loading.late]
    BY <1>1, <2>1, <2>3
  <2>5. /\ loading'.kind = loading.kind /\ loading'.pages = more
        /\ loading'.wanted = loading.wanted /\ loading'.late = loading.late
    BY <2>4
  <2>6. loading.pages = <<>> \/ NextCursor # None
    BY <2>1 DEF AllRead
  <2>7. GoodPages(more) /\ WholePages(recorded, more, Since)
    BY <1>1, <2>1, <2>2, <2>6, PageAppended DEF NextCursor
  <2>8. Since' = Since
    BY <2>1, <2>5 DEF Since
  <2> QED
    BY <1>1, <2>1, <2>4, <2>5, <2>7, <2>8
<1>11. CASE ShowPages
  <2>1. /\ loading # None /\ recorded' = recorded /\ journal' = loading.pages
        /\ loading' = None /\ late' = Since \ {a.id : a \in ItemsOf(loading.pages)}
    BY <1>11 DEF ShowPages, activityVars, Since
  <2>2. WholePages(recorded, loading.pages, Since \ {a.id : a \in ItemsOf(loading.pages)})
    BY <1>1, <2>1 DEF WholePages
  <2> QED
    BY <1>1, <2>1, <2>2
<1>12. CASE LoadFails
  BY <1>1, <1>12 DEF LoadFails, activityVars
<1> QED
  BY <1>5, <1>6, <1>7, <1>8, <1>9, <1>10, <1>11, <1>12 DEF JournalNext

\* The journal's rows, its pages and the reading under way stay as JournalInv says
\* (activity-query.service.ts:16, use-activities.ts).
THEOREM JournalInvariance == JournalSpec => []JournalInv
<1>1. JournalInit => JournalInv
  BY DEF JournalInit, JournalInv, RowsTyped, GoodPages, WholePages
<1>2. JournalInv /\ [JournalNext]_journalVars => JournalInv'
  <2>1. JournalInv /\ JournalNext => JournalInv'
    BY ListStep
  <2>2. ASSUME JournalInv, UNCHANGED journalVars
        PROVE  JournalInv'
    <3>1. UNCHANGED <<second, recorded, dated, journal, loading, late>>
      BY <2>2 DEF journalVars, activityVars, listVars
    <3> QED
      BY <2>2, <3>1 DEF JournalInv, RowsTyped
  <2> QED
    BY <2>1, <2>2
<1> QED
  BY <1>1, <1>2, PTL DEF JournalSpec

\* The pages put end to end list each row once, newest first, and leave none out that was
\* there when they were read (activity-query.service.ts:16).
THEOREM JournalStaysWhole == JournalSpec => []JournalIsWhole
<1>1. JournalInv => JournalIsWhole
  <2> SUFFICES ASSUME JournalInv
               PROVE  JournalIsWhole
    OBVIOUS
  <2>1. GoodPages(journal) /\ WholePages(recorded, journal, late)
    BY DEF JournalInv
  <2>2. journal \in Seq(Pages)
    BY <2>1 DEF GoodPages
  <2>3. ASSUME NEW p \in Places(journal), NEW q \in Places(journal), Above(p, q)
        PROVE  Newer(ItemAt(journal, p), ItemAt(journal, q))
    <3>1. PICK m \in DOMAIN journal : \E i \in DOMAIN journal[m].items : p = <<m, i>>
      BY ItemsListed
    <3>2. PICK i \in DOMAIN journal[m].items : p = <<m, i>>
      BY <3>1
    <3>3. PICK n \in DOMAIN journal : \E j \in DOMAIN journal[n].items : q = <<n, j>>
      BY ItemsListed
    <3>4. PICK j \in DOMAIN journal[n].items : q = <<n, j>>
      BY <3>3
    <3>5. PICK x, y : x = journal[m].items[i] /\ y = journal[n].items[j]
      OBVIOUS
    <3>6. ItemAt(journal, p) = x /\ ItemAt(journal, q) = y
      BY <3>2, <3>4, <3>5 DEF ItemAt
    <3>7. CASE m = n /\ i < j
      BY <2>1, <3>5, <3>6, <3>7 DEF GoodPages
    <3>8. CASE m < n
      <4>1. m < Len(journal)
        <5>1. n \in 1..Len(journal) /\ m \in 1..Len(journal) /\ Len(journal) \in Nat
          BY <2>2, PagesTyped
        <5> QED
          BY <3>8, <5>1
      <4>2. PICK c : c = journal[m].next
        OBVIOUS
      <4>3. c # None /\ Newer(c, y) /\ (Newer(x, c) \/ Cursor(x) = c)
        BY <2>1, <3>5, <3>8, <4>1, <4>2 DEF GoodPages
      <4>4. /\ c.id \in Nat /\ c.at \in Nat /\ x.id \in Nat /\ x.at \in Nat
            /\ y.id \in Nat /\ y.at \in Nat
        BY <2>2, <3>5, <4>2, <4>3, PagesTyped
      <4>5. CASE Newer(x, c)
        BY <3>6, <4>3, <4>4, <4>5, NewerOrder
      <4>6. CASE Cursor(x) = c
        BY <3>6, <4>3, <4>6 DEF Cursor, Newer
      <4> QED
        BY <4>3, <4>5, <4>6
    <3> QED
      BY <2>3, <3>2, <3>4, <3>7, <3>8 DEF Above
  <2>4. journal # <<>> =>
           \A a \in recorded :
               a.id \in late \/ (Last(journal).next # None /\ Newer(Last(journal).next, a))
                   \/ \E item \in ItemsOf(journal) : item.id = a.id
    BY <2>1 DEF WholePages
  <2> QED
    BY <2>3, <2>4 DEF JournalIsWhole
<1> QED
  BY <1>1, JournalInvariance, PTL

=============================================================================
