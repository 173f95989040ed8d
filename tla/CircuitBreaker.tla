--------------------------- MODULE CircuitBreaker ---------------------------
(***************************************************************************)
(* One breaker of packages/shared/src/resilience/index.ts and the calls of *)
(* an external service it guards, as tts.service.ts composes them: breaker *)
(* around retry around timeout.  Each await of a call is a step, so calls  *)
(* admitted in one state of the breaker settle in another one.             *)
(***************************************************************************)
EXTENDS FaultBudget

CONSTANTS Calls,      \* calls that may run at a time
          Threshold,  \* failures before opening
          Retries     \* retries of a call

ASSUME BreakerAssumption ==
    /\ Threshold \in Nat \ {0}
    /\ Retries \in Nat

VARIABLES state,         \* CLOSED, OPEN or HALF_OPEN
          failureCount,  \* counts up to Threshold, the comparison is all it is for
          cooling,       \* lastFailureTime is less than resetTimeout ago
          probing,       \* a probe is running: the other calls are rejected
          attempt,       \* the attempt a call is in, 0 when it is not running
          probe,         \* the calls admitted as a probe
          up             \* the service answers

breakerVars == <<state, failureCount, cooling, probing>>
callVars == <<attempt, probe>>
circuitVars == <<breakerVars, callVars, up, faults>>

States == {"CLOSED", "OPEN", "HALF_OPEN"}

Running == {c \in Calls : attempt[c] > 0}

BreakerInit ==
    /\ state = "CLOSED"
    /\ failureCount = 0
    /\ cooling = FALSE
    /\ probing = FALSE
    /\ attempt = [c \in Calls |-> 0]
    /\ probe = {}
    /\ up = TRUE
    /\ faults = 0

BreakerTypeOK ==
    /\ state \in States
    /\ failureCount \in 0..Threshold
    /\ cooling \in BOOLEAN
    /\ probing \in BOOLEAN
    /\ attempt \in [Calls -> 0..(Retries + 1)]
    /\ probe \in SUBSET Calls
    /\ up \in BOOLEAN
    /\ faults \in 0..MaxFaults

-----------------------------------------------------------------------------
(* execute(), up to its first await                                        *)

\* What a call finds: an open breaker tries again after the reset timeout.
Found == IF state = "OPEN" /\ ~cooling THEN "HALF_OPEN" ELSE state

\* Variant: a half-open breaker lets every call through.
AdmitsAll == Found # "OPEN"

Admits == Found = "CLOSED" \/ (Found = "HALF_OPEN" /\ ~probing)

Admit(c) ==
    /\ attempt[c] = 0
    /\ Admits
    /\ state' = Found
    /\ attempt' = [attempt EXCEPT ![c] = 1]
    /\ IF Found = "HALF_OPEN"
       THEN probing' = TRUE /\ probe' = probe \cup {c}
       ELSE UNCHANGED <<probing, probe>>
    /\ NoFault
    /\ UNCHANGED <<failureCount, cooling, up>>

\* CircuitOpenError.  It half-opens the breaker even so.
Reject(c) ==
    /\ attempt[c] = 0
    /\ ~Admits
    /\ state' = Found
    /\ NoFault
    /\ UNCHANGED <<failureCount, cooling, probing, callVars, up>>

-----------------------------------------------------------------------------
(* execute(), after the call                                               *)

OnSuccess ==
    /\ failureCount' = 0
    /\ state' = IF state = "HALF_OPEN" THEN "CLOSED" ELSE state
    /\ UNCHANGED cooling

OnFailure ==
    /\ failureCount' = IF failureCount < Threshold THEN failureCount + 1 ELSE failureCount
    /\ cooling' = TRUE
    /\ state' = IF state = "HALF_OPEN" \/ failureCount' >= Threshold THEN "OPEN" ELSE state

\* Variant: the slot of the probe is freed by a success only.
FreedBySuccess(c) ==
    /\ attempt' = [attempt EXCEPT ![c] = 0]
    /\ probe' = probe \ {c}
    /\ probing' = IF c \in probe /\ up THEN FALSE ELSE probing

\* The call is over: finally.
Settle(c) ==
    /\ attempt' = [attempt EXCEPT ![c] = 0]
    /\ probe' = probe \ {c}
    /\ probing' = IF c \in probe THEN FALSE ELSE probing

Succeed(c) ==
    /\ attempt[c] > 0
    /\ up
    /\ OnSuccess
    /\ Settle(c)
    /\ NoFault
    /\ UNCHANGED up

\* An error the service answers with is neither retried nor a failure.
AnswerError(c) ==
    /\ attempt[c] > 0
    /\ up
    /\ OnSuccess
    /\ Settle(c)
    /\ NoFault
    /\ UNCHANGED up

\* isTransientError(): the service does not answer, in time, or says that it cannot.
Transient == ~up

\* Tried again.
RetryAttempt(c) ==
    /\ attempt[c] \in 1..Retries
    /\ Transient
    /\ attempt' = [attempt EXCEPT ![c] = @ + 1]
    /\ NoFault
    /\ UNCHANGED <<breakerVars, probe, up>>

\* The last attempt failed.
FailCall(c) ==
    /\ attempt[c] > Retries
    /\ Transient
    /\ OnFailure
    /\ Settle(c)
    /\ NoFault
    /\ UNCHANGED up

-----------------------------------------------------------------------------
\* resetTimeout after the last failure.
ResetTimeout ==
    /\ cooling
    /\ cooling' = FALSE
    /\ NoFault
    /\ UNCHANGED <<state, failureCount, probing, callVars, up>>

ServiceGoesDown ==
    /\ up
    /\ up' = FALSE
    /\ Fault
    /\ UNCHANGED <<breakerVars, callVars>>

ServiceComesBack ==
    /\ ~up
    /\ up' = TRUE
    /\ NoFault
    /\ UNCHANGED <<breakerVars, callVars>>

Request(c) == Admit(c) \/ Reject(c)
Run(c) == Succeed(c) \/ AnswerError(c) \/ RetryAttempt(c) \/ FailCall(c)

BreakerNext ==
    \/ \E c \in Calls : Request(c) \/ Run(c)
    \/ ResetTimeout
    \/ ServiceGoesDown
    \/ ServiceComesBack

BreakerSpec == BreakerInit /\ [][BreakerNext]_circuitVars

\* Each attempt ends, at the latest with its timeout; users go on calling.
BreakerFairness ==
    /\ \A c \in Calls : WF_circuitVars(Run(c)) /\ WF_circuitVars(Admit(c))
    /\ WF_circuitVars(ResetTimeout)

BreakerFairSpec == BreakerSpec /\ BreakerFairness

-----------------------------------------------------------------------------
(* Properties                                                              *)

\* The slot of the probe is taken exactly while one call holds it, whatever
\* the breaker goes through meanwhile (index.ts:180, index.ts:226).
OneProbe ==
    /\ probing <=> probe # {}
    /\ \A c, d \in probe : c = d

\* A breaker that is not closed has its reason to be: enough failures, and a
\* closed one has fewer than opens it (index.ts:240).
ClosedBelowThreshold == state = "CLOSED" => failureCount < Threshold

\* A breaker opens only while its service is down: the errors the service
\* answers with never cut it off for every user (tts.service.ts:35).
OpensOnAnOutage == [][state # "OPEN" /\ state' = "OPEN" => ~up]_circuitVars

\* Once the service stays up, the breaker ends up closed: no probe slot and no
\* late failure keeps it open (index.ts:203, index.ts:226).
Recovers == <>[]up => <>[](state = "CLOSED")

\* "A HALF_OPEN probe is running: the other calls are rejected until it
\* settles" (index.ts:180).
ProbeRunsAlone == [][\A c \in Calls : probe # {} => ~(attempt[c] = 0 /\ attempt'[c] = 1)]_circuitVars

-----------------------------------------------------------------------------
\* The inductive invariant behind OneProbe and ClosedBelowThreshold.
BreakerIInv == BreakerTypeOK /\ OneProbe /\ ClosedBelowThreshold /\ probe \subseteq Running
=============================================================================
