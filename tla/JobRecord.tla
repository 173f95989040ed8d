------------------------------ MODULE JobRecord ------------------------------
(***************************************************************************)
(* The two records a user sees of a queued job: the Redis job that the     *)
(* progress stream follows (import/job-tracker.service.ts) and the row of  *)
(* the activity journal in MySQL (activity/activity-log.service.ts).  Both *)
(* are side records: a write that fails is dropped and the job goes on.    *)
(***************************************************************************)
EXTENDS RetryQueue

VARIABLES tracker,   \* status of the Redis job, "none" when Redis has no such key
          journal,   \* status of the journal row, "none" before it is inserted
          unnoted    \* history: jobs of which a journal write was dropped

recordVars == <<tracker, journal, unnoted>>

TrackerStatus ==
    {"none", "pending", "processing", "retrying", "completed", "failed"}
JournalStatus == {"none", "running", "succeeded", "failed"}

Finished == {"completed", "failed"}

RecordInit ==
    /\ tracker = [j \in Jobs |-> "none"]
    /\ journal = [j \in Jobs |-> "none"]
    /\ unnoted = {}

RecordTypeOK ==
    /\ tracker \in [Jobs -> TrackerStatus]
    /\ journal \in [Jobs -> JournalStatus]
    /\ unnoted \in SUBSET Jobs

-----------------------------------------------------------------------------
\* JobTrackerService.create: null while Redis is down, the caller then makes up
\* an id that Redis does not know.
CreateTracked(j) ==
    \E s \in {"pending", "none"} : tracker' = [tracker EXCEPT ![j] = s]

\* JobTrackerService.update: false, and nothing written, when Redis is down or
\* has lost the key.
Track(j, status) ==
    \/ UNCHANGED tracker
    \/ /\ tracker[j] # "none"
       /\ tracker' = [tracker EXCEPT ![j] = status]

\* JobTrackerService.remove: dropped as well while Redis is down.
Untrack(j) ==
    \/ UNCHANGED tracker
    \/ tracker' = [tracker EXCEPT ![j] = "none"]

\* The key expires (JOB_TTL_SECONDS), or Redis restarts without it.
TrackerExpires(j) ==
    /\ tracker[j] # "none"
    /\ tracker' = [tracker EXCEPT ![j] = "none"]
    /\ UNCHANGED <<journal, unnoted, faults>>

\* ActivityLogService.start, inside the transaction that stores the job.
StartJournal(j) == journal' = [journal EXCEPT ![j] = "running"]

\* ActivityLogService.finishJob under note(): it rewrites the row whatever its
\* status, and a failed write is only logged.
FinishJournal(j, status) ==
    \/ /\ journal' = [journal EXCEPT ![j] = IF @ = "none" THEN @ ELSE status]
       /\ NoFault
       /\ UNCHANGED unnoted
    \/ /\ Fault
       /\ unnoted' = unnoted \cup {j}
       /\ UNCHANGED journal
=============================================================================
