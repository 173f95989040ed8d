--------------------------- MODULE ImportProducer ---------------------------
(***************************************************************************)
(* The publishing half of the import pipeline.                             *)
(*                                                                         *)
(* BulkWordsService.enqueue (the API request of job j): opens a Redis job, *)
(* commits the journal row and the outbox row in one transaction, then     *)
(* publishes and, once the broker confirmed, deletes the outbox row.       *)
(*                                                                         *)
(* ImportOutboxService (the relay that runs in every worker): claims the   *)
(* rows that outlived RELAY_GRACE_MS, publishes each, and deletes the row  *)
(* or releases the claim.                                                  *)
(***************************************************************************)
EXTENDS RetryQueue, JobRecord

VARIABLES api,        \* step of the request that submits each job
          apiCopy,    \* the copy that request is publishing
          outbox,     \* jobs with a row in import_outbox
          aged,       \* rows older than RELAY_GRACE_MS
          claim,      \* the worker whose claimed_at a row holds
          stale,      \* rows whose claimed_at is older than CLAIM_SECONDS
          relay,      \* step of the relay of each worker
          relayJob,   \* the row it is handling
          relayCopy,  \* the copy it is publishing
          sent        \* publications of each job so far

producerVars ==
    <<api, apiCopy, outbox, aged, claim, stale, relay, relayJob, relayCopy, sent>>

\* "accepted" and "deferred" requests were answered with a job id, the first
\* after a broker confirm; "refused" ones with an error; a "dead" one was cut.
ApiSteps == {"idle", "opened", "committed", "publishing", "confirmed",
             "accepted", "deferred", "refused", "dead"}
ApiBusy == {"opened", "committed", "publishing", "confirmed"}
RelaySteps == {"idle", "claimed", "publishing", "confirmed", "unconfirmed"}

ProducerInit ==
    /\ api = [j \in Jobs |-> "idle"]
    /\ apiCopy = [j \in Jobs |-> None]
    /\ outbox = {}
    /\ aged = {}
    /\ claim = [j \in Jobs |-> None]
    /\ stale = {}
    /\ relay = [w \in Workers |-> "idle"]
    /\ relayJob = [w \in Workers |-> None]
    /\ relayCopy = [w \in Workers |-> None]
    /\ sent = [j \in Jobs |-> 0]

ProducerTypeOK ==
    /\ api \in [Jobs -> ApiSteps]
    /\ apiCopy \in [Jobs -> Copies \cup {None}]
    /\ outbox \in SUBSET Jobs
    /\ aged \in SUBSET Jobs
    /\ claim \in [Jobs -> Workers \cup {None}]
    /\ stale \in SUBSET Jobs
    /\ relay \in [Workers -> RelaySteps]
    /\ relayJob \in [Workers -> Jobs \cup {None}]
    /\ relayCopy \in [Workers -> Copies \cup {None}]
    /\ sent \in [Jobs -> 0..MaxCopies]

-----------------------------------------------------------------------------
\* The outbox row and what is stored in it.
rowVars == <<outbox, aged, claim, stale>>
relayVars == <<relay, relayJob, relayCopy>>

RemoveRow(j) ==
    /\ outbox' = outbox \ {j}
    /\ aged' = aged \ {j}
    /\ claim' = [claim EXCEPT ![j] = None]
    /\ stale' = stale \ {j}

ApiGoes(j, from, to) ==
    /\ api[j] = from
    /\ api' = [api EXCEPT ![j] = to]

\* ch.publish: the next copy of the job is on the wire.
Publish(j, c) ==
    /\ sent[j] < MaxCopies
    /\ c = <<j, sent[j] + 1>>
    /\ sent' = [sent EXCEPT ![j] = @ + 1]
    /\ Send(c)

-----------------------------------------------------------------------------
(* The request: BulkWordsService.enqueue                                   *)

OpenJob(j) ==
    /\ ApiGoes(j, "idle", "opened")
    /\ CreateTracked(j)
    /\ NoFault
    /\ UNCHANGED <<apiCopy, rowVars, relayVars, sent, queueVars, journal, unnoted>>

\* One transaction: activities.start and outbox.add.
StoreJob(j) ==
    /\ StartJournal(j)
    /\ outbox' = outbox \cup {j}

CommitJob(j) ==
    /\ ApiGoes(j, "opened", "committed")
    /\ StoreJob(j)
    /\ NoFault
    /\ UNCHANGED <<apiCopy, aged, claim, stale, relayVars, sent, queueVars, tracker, unnoted>>

\* The transaction throws: rolled back, or committed with its answer lost.  The
\* Redis job is removed and the request fails.
CommitFails(j) ==
    /\ ApiGoes(j, "opened", "refused")
    /\ Fault
    /\ Untrack(j)
    /\ StoreJob(j) \/ UNCHANGED <<journal, outbox>>
    /\ UNCHANGED <<apiCopy, aged, claim, stale, relayVars, sent, queueVars, unnoted>>

ApiPublish(j) ==
    /\ ApiGoes(j, "committed", "publishing")
    /\ \E c \in Copies :
        /\ Publish(j, c)
        /\ apiCopy' = [apiCopy EXCEPT ![j] = c]
    /\ NoFault
    /\ UNCHANGED <<rowVars, relayVars, recordVars>>

\* tryPublish without a channel.
ApiSkipsPublish(j) ==
    /\ ApiGoes(j, "committed", "deferred")
    /\ NoFault
    /\ UNCHANGED <<apiCopy, rowVars, relayVars, sent, queueVars, recordVars>>

\* Variant: a write to the socket is taken for a confirm.
ApiAssumesConfirm(j) ==
    /\ ApiGoes(j, "publishing", "confirmed")
    /\ apiCopy' = [apiCopy EXCEPT ![j] = None]
    /\ NoFault
    /\ UNCHANGED <<rowVars, relayVars, sent, queueVars, recordVars>>

ApiConfirmed(j) ==
    /\ ApiGoes(j, "publishing", "confirmed")
    /\ Accepted(apiCopy[j])
    /\ apiCopy' = [apiCopy EXCEPT ![j] = None]
    /\ NoFault
    /\ UNCHANGED <<rowVars, relayVars, sent, queueVars, recordVars>>

\* publish() answers false: the copy was lost, or the confirm timed out while
\* the copy goes on its way.
ApiUnconfirmed(j) ==
    /\ ApiGoes(j, "publishing", "deferred")
    /\ IF place[apiCopy[j]] = "lost" THEN NoFault ELSE Fault
    /\ apiCopy' = [apiCopy EXCEPT ![j] = None]
    /\ UNCHANGED <<rowVars, relayVars, sent, queueVars, recordVars>>

\* A row that cannot be deleted is left to the relay.
ApiRemovesRow(j) ==
    /\ ApiGoes(j, "confirmed", "accepted")
    /\ \/ RemoveRow(j) /\ NoFault
       \/ Fault /\ UNCHANGED rowVars
    /\ UNCHANGED <<apiCopy, relayVars, sent, queueVars, recordVars>>

\* The single API instance stops: every request in progress is cut.
ApiCrash ==
    /\ \E j \in Jobs : api[j] \in ApiBusy
    /\ api' = [j \in Jobs |-> IF api[j] \in ApiBusy THEN "dead" ELSE api[j]]
    /\ apiCopy' = [j \in Jobs |-> None]
    /\ Fault
    /\ UNCHANGED <<rowVars, relayVars, sent, queueVars, recordVars>>

-----------------------------------------------------------------------------
(* The clock, as far as the outbox reads it                                *)

\* A row outlives the grace period; under a request that still publishes only
\* when that request stalls, the confirm timeout being a third of the grace.
RowAges(j) ==
    /\ j \in outbox \ aged
    /\ aged' = aged \cup {j}
    /\ IF api[j] \in ApiBusy THEN Fault ELSE NoFault
    /\ UNCHANGED <<api, apiCopy, outbox, claim, stale, relayVars, sent, queueVars, recordVars>>

\* A claim outlives CLAIM_SECONDS; under a relay still on the row only when
\* that relay stalls.
ClaimExpires(j) ==
    /\ claim[j] # None
    /\ j \notin stale
    /\ stale' = stale \cup {j}
    /\ IF relayJob[claim[j]] = j THEN Fault ELSE NoFault
    /\ UNCHANGED <<api, apiCopy, outbox, aged, claim, relayVars, sent, queueVars, recordVars>>

-----------------------------------------------------------------------------
(* The relay of worker w: ImportOutboxService.flush, one row at a time     *)

RelayGoes(w, from, to) ==
    /\ relay[w] = from
    /\ relay' = [relay EXCEPT ![w] = to]

RelayLeaves(w, from) ==
    /\ RelayGoes(w, from, "idle")
    /\ relayJob' = [relayJob EXCEPT ![w] = None]

RelayAnswered(w, from, to) ==
    /\ RelayGoes(w, from, to)
    /\ relayCopy' = [relayCopy EXCEPT ![w] = None]

\* claim(): the row is there, and unclaimed or claimed too long ago.
Claimable(j) == j \in outbox /\ (claim[j] = None \/ j \in stale)

RelayClaims(w, j) ==
    /\ RelayGoes(w, "idle", "claimed")
    /\ j \in aged
    /\ Claimable(j)
    /\ claim' = [claim EXCEPT ![j] = w]
    /\ stale' = stale \ {j}
    /\ relayJob' = [relayJob EXCEPT ![w] = j]
    /\ NoFault
    /\ UNCHANGED <<api, apiCopy, outbox, aged, relayCopy, sent, queueVars, recordVars>>

RelayPublishes(w) ==
    /\ RelayGoes(w, "claimed", "publishing")
    /\ \E c \in Copies :
        /\ Publish(relayJob[w], c)
        /\ relayCopy' = [relayCopy EXCEPT ![w] = c]
    /\ NoFault
    /\ UNCHANGED <<api, apiCopy, rowVars, relayJob, recordVars>>

RelaySkipsPublish(w) ==
    /\ RelayGoes(w, "claimed", "unconfirmed")
    /\ Fault
    /\ UNCHANGED <<api, apiCopy, rowVars, relayJob, relayCopy, sent, queueVars, recordVars>>

\* Variant: the relay does not wait for the confirm.
RelayAssumesConfirm(w) ==
    /\ RelayAnswered(w, "publishing", "confirmed")
    /\ NoFault
    /\ UNCHANGED <<api, apiCopy, rowVars, relayJob, sent, queueVars, recordVars>>

RelayConfirmed(w) ==
    /\ RelayAnswered(w, "publishing", "confirmed")
    /\ Accepted(relayCopy[w])
    /\ NoFault
    /\ UNCHANGED <<api, apiCopy, rowVars, relayJob, sent, queueVars, recordVars>>

RelayUnconfirmed(w) ==
    /\ RelayAnswered(w, "publishing", "unconfirmed")
    /\ IF place[relayCopy[w]] = "lost" THEN NoFault ELSE Fault
    /\ UNCHANGED <<api, apiCopy, rowVars, relayJob, sent, queueVars, recordVars>>

\* A delete that throws ends the flush: the row keeps its claim.
RelayRemovesRow(w) ==
    /\ RelayLeaves(w, "confirmed")
    /\ \/ RemoveRow(relayJob[w]) /\ NoFault
       \/ Fault /\ UNCHANGED rowVars
    /\ UNCHANGED <<api, apiCopy, relayCopy, sent, queueVars, recordVars>>

\* release(): only the claim this worker stored.
ReleaseClaim(w, j) ==
    IF claim[j] = w
    THEN claim' = [claim EXCEPT ![j] = None] /\ stale' = stale \ {j}
    ELSE UNCHANGED <<claim, stale>>

RelayReleases(w) ==
    /\ RelayLeaves(w, "unconfirmed")
    /\ \/ ReleaseClaim(w, relayJob[w]) /\ NoFault
       \/ Fault /\ UNCHANGED <<claim, stale>>
    /\ UNCHANGED <<api, apiCopy, outbox, aged, relayCopy, sent, queueVars, recordVars>>
=============================================================================
