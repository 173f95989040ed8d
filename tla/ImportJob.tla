------------------------------ MODULE ImportJob ------------------------------
(***************************************************************************)
(* What the import pipeline promises for the jobs it accepts: the words of *)
(* an accepted job are saved, at most once, or its message is parked in    *)
(* the failed queue, where an operator finds it.  Nothing is saved for a   *)
(* job that was not accepted, and nothing accepted is forgotten.           *)
(***************************************************************************)
EXTENDS Naturals

CONSTANT Jobs

VARIABLES accepted,   \* jobs stored by a committed request
          savedTimes, \* times the words of each job were saved
          inFailed    \* jobs with a message in the failed queue

jobVars == <<accepted, savedTimes, inFailed>>

JobInit ==
    /\ accepted = {}
    /\ savedTimes = [j \in Jobs |-> 0]
    /\ inFailed = {}

Accept(j) ==
    /\ j \notin accepted
    /\ accepted' = accepted \cup {j}
    /\ UNCHANGED <<savedTimes, inFailed>>

Save(j) ==
    /\ j \in accepted
    /\ savedTimes[j] = 0
    /\ savedTimes' = [savedTimes EXCEPT ![j] = 1]
    /\ UNCHANGED <<accepted, inFailed>>

ParkJob(j) ==
    /\ j \in accepted \ inFailed
    /\ inFailed' = inFailed \cup {j}
    /\ UNCHANGED <<accepted, savedTimes>>

JobNext == \E j \in Jobs : Accept(j) \/ Save(j) \/ ParkJob(j)

Settle(j) == Save(j) \/ ParkJob(j)
SettledJob(j) == savedTimes[j] = 1 \/ j \in inFailed

\* A job that is neither saved nor parked does not stay so.
JobSpec ==
    /\ JobInit
    /\ [][JobNext]_jobVars
    /\ \A j \in Jobs : WF_jobVars(~SettledJob(j) /\ Settle(j))
=============================================================================
