--------------------------- MODULE ImportPipeline ---------------------------
(***************************************************************************)
(* The import pipeline as a whole: API requests and worker relays that     *)
(* publish, the broker, the consumers of the same workers, the nightly     *)
(* cleanup, and the crashes that cut any of them.  One worker process runs *)
(* a relay and a consumer: its crash stops both.                           *)
(***************************************************************************)
EXTENDS ImportProducer, ImportConsumer

vars == <<producerVars, consumerVars, queueVars, recordVars, faults>>

Init ==
    /\ QueueInit
    /\ RecordInit
    /\ ProducerInit
    /\ ConsumerInit
    /\ faults = 0

TypeOK ==
    /\ QueueTypeOK
    /\ RecordTypeOK
    /\ ProducerTypeOK
    /\ ConsumerTypeOK
    /\ faults \in 0..MaxFaults

-----------------------------------------------------------------------------
\* Nothing of the job can reach a consumer any more.
Drained(j) ==
    /\ api[j] \notin ApiBusy
    /\ j \notin outbox
    /\ \A w \in Workers : relayJob[w] # j
    /\ \A c \in Copies : JobOf(c) = j => ~InFlight(c)

\* MaintenanceService: markers older than APPLIED_JOB_RETENTION_DAYS go.  The
\* guard is the assumption its comment states: a week is far longer than the
\* job can be redelivered.
CleanupMarker(j) ==
    /\ j \in marker
    /\ Drained(j)
    /\ marker' = marker \ {j}
    /\ UNCHANGED <<step, handling, saved, runs, producerVars, queueVars, recordVars, faults>>

\* The process of w stops, or loses its connection and exits: the broker
\* requeues what it held, and its relay forgets the row it was on.
WorkerCrash(w) ==
    /\ step[w] # "idle" \/ relay[w] # "idle"
    /\ Fault
    /\ RequeuedIn({handling[w]} \cap Copies)
    /\ step' = [step EXCEPT ![w] = "idle"]
    /\ handling' = [handling EXCEPT ![w] = None]
    /\ relay' = [relay EXCEPT ![w] = "idle"]
    /\ relayJob' = [relayJob EXCEPT ![w] = None]
    /\ relayCopy' = [relayCopy EXCEPT ![w] = None]
    /\ UNCHANGED <<marker, saved, runs, recordVars, api, apiCopy, rowVars, sent>>

BrokerTakes(c) ==
    /\ BrokerAccepts(c) \/ RetryElapsed(c)
    /\ UNCHANGED <<producerVars, consumerVars, recordVars, faults>>

BrokerLoses(c) ==
    /\ WireLoses(c)
    /\ Fault
    /\ UNCHANGED <<producerVars, consumerVars, recordVars>>

\* A committed request goes on.
RequestStep(j) ==
    \/ ApiPublish(j)
    \/ ApiSkipsPublish(j)
    \/ ApiConfirmed(j)
    \/ ApiUnconfirmed(j)
    \/ ApiRemovesRow(j)

RelayStep(w) ==
    \/ \E j \in Jobs : RelayClaims(w, j)
    \/ RelayPublishes(w)
    \/ RelayConfirmed(w)
    \/ RelayUnconfirmed(w)
    \/ RelayRemovesRow(w)
    \/ RelayReleases(w)

RequestNext(j) == OpenJob(j) \/ CommitJob(j) \/ CommitFails(j) \/ RequestStep(j)
ClockStep(j) == RowAges(j) \/ ClaimExpires(j)
ProducerNext ==
    \/ \E j \in Jobs : RequestNext(j) \/ ClockStep(j)
    \/ ApiCrash
    \/ \E w \in Workers : RelayStep(w) \/ RelaySkipsPublish(w)

ReceiveAny(w) == \E c \in Copies : Receive(w, c)
ConsumerNext ==
    \E w \in Workers :
        ReceiveAny(w) \/ HandlerStep(w) \/ HandlerThrows(w) \/ RunFails(w) \/ ParkUnconfirmed(w)

EnvironmentNext ==
    \/ \E c \in Copies : BrokerTakes(c) \/ BrokerLoses(c)
    \/ \E w \in Workers : WorkerCrash(w)
    \/ \E j \in Jobs : CleanupMarker(j)
    \/ \E j \in Jobs : TrackerExpires(j) /\ UNCHANGED <<producerVars, consumerVars, queueVars>>

Next ==
    \/ ProducerNext /\ UNCHANGED consumerVars
    \/ ConsumerNext /\ UNCHANGED producerVars
    \/ EnvironmentNext

Spec == Init /\ [][Next]_vars

\* A committed request is a running promise, the relay runs on a timer, the
\* consumers are restarted by the platform, a TTL elapses, a broker that is
\* reachable enqueues.  Nothing forces a fault or a submission.
Fairness ==
    /\ \A j \in Jobs :
        /\ WF_vars(RequestStep(j) /\ UNCHANGED consumerVars)
        /\ WF_vars(ClockStep(j) /\ NoFault /\ UNCHANGED consumerVars)
    /\ \A c \in Copies : WF_vars(BrokerTakes(c))
    /\ \A w \in Workers :
        /\ WF_vars(RelayStep(w) /\ UNCHANGED consumerVars)
        /\ WF_vars((ReceiveAny(w) \/ HandlerStep(w)) /\ UNCHANGED producerVars)

FairSpec == Spec /\ Fairness

-----------------------------------------------------------------------------
(* Properties                                                              *)

\* Jobs the pipeline owes an outcome: their journal and outbox rows committed.
Stored(j) == journal[j] # "none"

ParkedJobs == {JobOf(c) : c \in parked}

\* A worker job is applied at most once, whatever is published twice, delivered
\* twice or interrupted after the commit (BUSINESS_RULES.md:173).
AppliedAtMostOnce == \A j \in Jobs : saved[j] <= 1

\* A stored job is never lost: until its words are saved or its message is
\* parked, an outbox row or a copy the broker holds still stands for it.
NoJobLost ==
    \A j \in Jobs :
        Stored(j) =>
            \/ saved[j] > 0
            \/ j \in ParkedJobs
            \/ j \in outbox
            \/ \E c \in Copies : JobOf(c) = j /\ place[c] \in {"work", "held", "retry"}

\* No false success: neither the journal nor the progress stream reports a job
\* as done before its words are saved.
SuccessIsTrue ==
    \A j \in Jobs :
        journal[j] = "succeeded" \/ tracker[j] = "completed" => saved[j] > 0

\* A job is reported as failed only after its retries: a copy of it was
\* rejected maxRetries times before (BUSINESS_RULES.md:174).
FailureIsLast ==
    \A j \in Jobs :
        journal[j] = "failed" \/ tracker[j] = "failed" =>
            \E c \in Copies : JobOf(c) = j /\ Exhausted(c)

\* A job that crashes its worker is attempted a bounded number of times: every
\* attempt but the last one was counted as a rejection (import-queue.service.ts:93).
EveryRunIsCounted == \A c \in Copies : runs[c] <= deaths[c] + 1

\* release() drops only the claim this worker took (import-outbox.service.ts:138):
\* a live claim goes with its row, or is given up by the relay that holds it.
KeepsLiveClaim(j) ==
    claim[j] # None /\ j \notin stale /\ claim'[j] # claim[j] =>
        \/ j \notin outbox'
        \/ relayJob[claim[j]] = j /\ relayJob'[claim[j]] # j

LiveClaimIsKept == [][\A j \in Jobs : KeepsLiveClaim(j)]_vars

\* A journal row does not stay "running", unless one of its writes was dropped.
JournalSettles ==
    \A j \in Jobs :
        Stored(j) ~> (journal[j] \in {"succeeded", "failed"} \/ j \in unnoted)

\* The pipeline implements the promise of ImportJob: a stored job is saved at
\* most once, and in the end saved or parked (import-outbox.service.ts,
\* import-queue.service.ts, BUSINESS_RULES.md:135-140).
Promise == INSTANCE ImportJob
             WITH accepted <- {j \in Jobs : Stored(j)},
                  savedTimes <- saved,
                  inFailed <- ParkedJobs
PromiseKept == Promise!JobSpec

-----------------------------------------------------------------------------
(* What the repository says of the pipeline, and its code does not do      *)

\* "a redelivered job ... saves nothing again and reports the words of the first
\* delivery" (BUSINESS_RULES.md:173): the journal does not turn a success into
\* a failure.
ReportedSuccessStays ==
    [][\A j \in Jobs : journal[j] = "succeeded" => journal'[j] = "succeeded"]_vars

-----------------------------------------------------------------------------
(* The inductive invariant behind the safety properties                    *)

NotSubmitted(j) == api[j] \in {"idle", "opened"}

\* Nothing of a job exists before its request committed.
SubmittedFirst ==
    /\ \A j \in outbox : ~NotSubmitted(j)
    /\ \A w \in Workers : relayJob[w] # None => ~NotSubmitted(relayJob[w])
    /\ \A c \in Copies : place[c] # "unsent" => ~NotSubmitted(JobOf(c))

\* A publisher waits for a copy of its own job, and one that saw a confirm
\* knows that the broker has it.
JobAccepted(j) == \E c \in Copies : JobOf(c) = j /\ Accepted(c)
PublisherInv ==
    /\ \A j \in Jobs :
        /\ api[j] = "publishing" => apiCopy[j] \in Copies /\ JobOf(apiCopy[j]) = j
        /\ api[j] = "confirmed" => JobAccepted(j)
    /\ \A w \in Workers :
        /\ relay[w] # "idle" => relayJob[w] \in Jobs
        /\ relay[w] = "publishing" =>
                relayCopy[w] \in Copies /\ JobOf(relayCopy[w]) = relayJob[w]
        /\ relay[w] = "confirmed" => JobAccepted(relayJob[w])

\* A held copy has exactly one holder.
HolderInv ==
    /\ \A w \in Workers :
        /\ step[w] = "idle" <=> handling[w] = None
        /\ handling[w] # None => place[handling[w]] = "held"
    /\ \A w1, w2 \in Workers :
        handling[w1] # None /\ handling[w1] = handling[w2] => w1 = w2

\* A row leaves the outbox, and a copy the broker, only once what follows them
\* stands for the job.
Settled(j) == saved[j] > 0 \/ j \in ParkedJobs
HandOver ==
    /\ \A j \in Jobs : Stored(j) /\ j \notin outbox => JobAccepted(j)
    /\ \A c \in Copies : place[c] = "done" => Settled(JobOf(c))
    /\ \A w \in Workers : step[w] = "acking" => Settled(JobAt(w))

\* The steps that report a success follow the transaction.
SavedSteps ==
    \A w \in Workers : step[w] \in {"saved", "tracked"} => saved[JobAt(w)] > 0

\* The marker stands for the saved words until nothing of the job is left.
MarkerInv ==
    \A j \in Jobs :
        /\ j \in marker => saved[j] = 1
        /\ saved[j] > 0 => saved[j] = 1 /\ ~NotSubmitted(j)
        /\ saved[j] > 0 /\ j \notin marker => Drained(j)

\* The steps that report a failure, and a copy whose retries are spent.
FailedSteps ==
    \A w \in Workers : step[w] \in {"noting", "parking"} => Exhausted(handling[w])

\* A copy about to be run has as many rejections as runs behind it.
RunsPaid ==
    \A c \in Copies :
        /\ runs[c] <= deaths[c] + 1
        /\ c \notin redelivered /\ place[c] \in {"unsent", "wire", "work", "retry"} =>
                runs[c] <= deaths[c]
        /\ \A w \in Workers :
            handling[w] = c /\ step[w] = "received" /\ c \notin redelivered =>
                runs[c] <= deaths[c]

IInv ==
    /\ SubmittedFirst
    /\ PublisherInv
    /\ HolderInv
    /\ HandOver
    /\ SavedSteps
    /\ MarkerInv
    /\ FailedSteps
    /\ RunsPaid
    /\ SuccessIsTrue
    /\ FailureIsLast
=============================================================================
