--------------------------- MODULE RefreshSession ---------------------------
(***************************************************************************)
(* One refresh session of auth/session.service.ts, from the login that     *)
(* creates it, and the refresh requests the API handles for it.  A token   *)
(* is the number of its rotation: the n-th secret stored for the session.  *)
(*                                                                         *)
(* rotate() reads the row, then updates it only if its token is still the  *)
(* one it read; a request that lost that race reads again.  A token that   *)
(* is neither the current one nor the one just rotated ends the session.   *)
(***************************************************************************)
EXTENDS FaultBudget, FiniteSets

CONSTANTS Requests,     \* refresh requests the API may handle at a time
          MaxTokens,    \* modelling bound: tokens of the session
          MaxAttempts   \* MAX_ROTATION_ATTEMPTS

ASSUME SessionAssumption ==
    /\ MaxTokens \in Nat \ {0}
    /\ MaxAttempts \in Nat \ {0}

VARIABLES live,       \* the row exists and has not expired
          current,    \* the token of token_hash
          previous,   \* the token of previous_hash, NoToken before the first rotation
          fresh,      \* rotated_at is less than ROTATION_LEEWAY_MS ago
          phase,      \* step of each request
          presented,  \* the token it carries, then the token it is answered
          seen,       \* the current token it read
          attempts,   \* its lost races
          reused,     \* history: a live session was ended as replayed
          missed      \* history: an answer, or the token it stored, was lost

sessionVars == <<live, current, previous, fresh>>
requestVars == <<phase, presented, seen, attempts>>
historyVars == <<reused, missed>>

Tokens == 1..MaxTokens
NoToken == 0

\* "granted", "rejected" (401) and "failed" (500) are answers on their way;
\* a "hung" request gets none.
Phases == {"free", "arrived", "rotating", "revoking", "granted", "rejected", "failed", "hung"}
Answers == {"granted", "rejected", "failed"}

\* SessionService.create at login.
SessionInit ==
    /\ live = TRUE
    /\ current = 1
    /\ previous = NoToken
    /\ fresh = FALSE
    /\ phase = [r \in Requests |-> "free"]
    /\ presented = [r \in Requests |-> NoToken]
    /\ seen = [r \in Requests |-> NoToken]
    /\ attempts = [r \in Requests |-> 0]
    /\ reused = FALSE
    /\ missed = FALSE

SessionTypeOK ==
    /\ live \in BOOLEAN
    /\ current \in Tokens
    /\ previous \in Tokens \cup {NoToken}
    /\ fresh \in BOOLEAN
    /\ phase \in [Requests -> Phases]
    /\ presented \in [Requests -> Tokens \cup {NoToken}]
    /\ seen \in [Requests -> Tokens \cup {NoToken}]
    /\ attempts \in [Requests -> Nat]
    /\ reused \in BOOLEAN
    /\ missed \in BOOLEAN

-----------------------------------------------------------------------------
Outstanding == {r \in Requests : phase[r] # "free"}

Goes(r, from, to) ==
    /\ phase[r] = from
    /\ phase' = [phase EXCEPT ![r] = to]

\* The request arrives with the token of the cookie.
Arrive(r, token) ==
    /\ Goes(r, "free", "arrived")
    /\ presented' = [presented EXCEPT ![r] = token]
    /\ seen' = [seen EXCEPT ![r] = NoToken]
    /\ attempts' = [attempts EXCEPT ![r] = 0]

\* The slot of an answered request is free again.
Forget(r) ==
    /\ phase' = [phase EXCEPT ![r] = "free"]
    /\ presented' = [presented EXCEPT ![r] = NoToken]
    /\ seen' = [seen EXCEPT ![r] = NoToken]
    /\ attempts' = [attempts EXCEPT ![r] = 0]

-----------------------------------------------------------------------------
(* rotate()                                                                *)

Accepts(token) == token = current \/ (fresh /\ token = previous)

\* No token, or no session: rejected.
ReadNothing(r) ==
    /\ Goes(r, "arrived", "rejected")
    /\ presented[r] = NoToken \/ ~live
    /\ NoFault
    /\ UNCHANGED <<sessionVars, presented, seen, attempts, historyVars>>

ReadAccepted(r) ==
    /\ Goes(r, "arrived", "rotating")
    /\ live
    /\ presented[r] # NoToken
    /\ Accepts(presented[r])
    /\ seen' = [seen EXCEPT ![r] = current]
    /\ NoFault
    /\ UNCHANGED <<sessionVars, presented, attempts, historyVars>>

ReadReplayed(r) ==
    /\ Goes(r, "arrived", "revoking")
    /\ live
    /\ presented[r] # NoToken
    /\ ~Accepts(presented[r])
    /\ NoFault
    /\ UNCHANGED <<sessionVars, presented, seen, attempts, historyVars>>

\* Variants: updated by its id alone; stored whether or not the row is there.
SwapById(r) == live
SwapUpserts(r) == current = seen[r]

\* updateMany where id and token_hash: matches the row as it was read.
Swappable(r) == live /\ current = seen[r]

\* The row takes the next token, the one replaced stays valid for the leeway.
StoreNext(r) ==
    /\ current < MaxTokens
    /\ previous' = seen[r]
    /\ current' = current + 1
    /\ fresh' = TRUE
    /\ UNCHANGED live

Rotate(r) ==
    /\ Swappable(r)
    /\ Goes(r, "rotating", "granted")
    /\ StoreNext(r)
    /\ presented' = [presented EXCEPT ![r] = current']
    /\ NoFault
    /\ UNCHANGED <<seen, attempts, historyVars>>

\* Another rotation came first: read again, MAX_ROTATION_ATTEMPTS times.
LoseRace(r) ==
    /\ ~Swappable(r)
    /\ Goes(r, "rotating", IF attempts[r] + 1 < MaxAttempts THEN "arrived" ELSE "rejected")
    /\ attempts' = [attempts EXCEPT ![r] = @ + 1]
    /\ NoFault
    /\ UNCHANGED <<sessionVars, presented, seen, historyVars>>

DeleteReplayed(r) ==
    /\ Goes(r, "revoking", "rejected")
    /\ live' = FALSE
    /\ reused' = (reused \/ live)
    /\ NoFault
    /\ UNCHANGED <<current, previous, fresh, presented, seen, attempts, missed>>

\* A query throws: a 500.  The update may have been committed all the same.
QueryFails(r) ==
    /\ \/ Goes(r, "arrived", "failed") /\ UNCHANGED <<sessionVars, historyVars>>
       \/ /\ Goes(r, "rotating", "failed")
          /\ \/ UNCHANGED <<sessionVars, missed>>
             \/ Swappable(r) /\ StoreNext(r) /\ missed' = TRUE
          /\ UNCHANGED reused
       \/ /\ Goes(r, "revoking", "failed")
          /\ UNCHANGED <<current, previous, fresh, missed>>
          /\ \/ UNCHANGED <<live, reused>>
             \/ live' = FALSE /\ reused' = (reused \/ live)
    /\ Fault
    /\ UNCHANGED <<presented, seen, attempts>>

\* The API, or the way to it, never answers.
Hang(r) ==
    /\ phase[r] \in {"arrived", "rotating"}
    /\ phase' = [phase EXCEPT ![r] = "hung"]
    /\ Fault
    /\ UNCHANGED <<sessionVars, presented, seen, attempts, historyVars>>

HandleRefresh(r) ==
    \/ ReadNothing(r)
    \/ ReadAccepted(r)
    \/ ReadReplayed(r)
    \/ Rotate(r)
    \/ LoseRace(r)
    \/ DeleteReplayed(r)

-----------------------------------------------------------------------------
(* What else happens to the row                                            *)

\* deleteMany: a logout, a password reset, the maintenance of expired rows.
EndSession == live' = FALSE /\ UNCHANGED <<current, previous, fresh>>

\* ROTATION_LEEWAY_MS after the last rotation.  A request that carries the
\* rotated token, or brings back the new one, takes that long only when it stalls.
LeewayPasses ==
    /\ fresh
    /\ fresh' = FALSE
    /\ IF \E r \in Requests :
            \/ phase[r] \in {"arrived", "rotating"} /\ presented[r] # current
            \/ phase[r] = "granted"
       THEN Fault ELSE NoFault
    /\ UNCHANGED <<live, current, previous, requestVars, historyVars>>
=============================================================================
