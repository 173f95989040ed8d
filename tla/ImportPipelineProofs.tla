------------------------ MODULE ImportPipelineProofs ------------------------
(***************************************************************************)
(* Proofs about the import pipeline, for any sets of jobs and workers, any *)
(* number of retries, and any bounds on faults and publications; and about *)
(* the words an import brings, those of WordIntake.tla, for any sheets,    *)
(* batches and retries.                                                    *)
(***************************************************************************)
EXTENDS ImportPipeline, WordIntake, FiniteSetTheorems, SequenceTheorems, TLAPS

USE MaxFaultsAssumption, RetryQueueAssumption, NoneAssumption

\* A copy belongs to a job.
LEMMA CopyJob == \A c \in Copies : JobOf(c) \in Jobs
BY DEF Copies, JobOf

\* ch.publish of rabbitmq.service.ts: what is published is a copy of the job.
LEMMA PublishedJob ==
    ASSUME NEW j, NEW c \in Copies, Publish(j, c)
    PROVE  JobOf(c) = j /\ j \in Jobs /\ place[c] = "unsent"
BY CopyJob DEF Publish, Send, MoveCopy, JobOf

-----------------------------------------------------------------------------
(* Type correctness                                                        *)

\* The steps of requests and relays keep the types.
LEMMA ProducerType == TypeOK /\ ProducerNext /\ UNCHANGED consumerVars => TypeOK'
<1> SUFFICES ASSUME TypeOK, ProducerNext, UNCHANGED consumerVars
             PROVE  TypeOK'
  OBVIOUS
<1> USE DEF TypeOK, QueueTypeOK, RecordTypeOK, ProducerTypeOK, ConsumerTypeOK,
            queueVars, recordVars, consumerVars, rowVars, relayVars,
            Places, TrackerStatus, JournalStatus, ApiSteps, ApiBusy, RelaySteps,
            Fault, NoFault, ApiGoes, RelayGoes, RelayLeaves, RelayAnswered, RemoveRow,
            Send, Publish, MoveCopy
<1>1. ASSUME NEW j \in Jobs, OpenJob(j) PROVE TypeOK'
  BY <1>1 DEF OpenJob, CreateTracked
<1>2. ASSUME NEW j \in Jobs, CommitJob(j) PROVE TypeOK'
  BY <1>2 DEF CommitJob, StoreJob, StartJournal
<1>3. ASSUME NEW j \in Jobs, CommitFails(j) PROVE TypeOK'
  BY <1>3 DEF CommitFails, StoreJob, StartJournal, Untrack
<1>4. ASSUME NEW j \in Jobs, ApiPublish(j) PROVE TypeOK'
  BY <1>4 DEF ApiPublish
<1>5. ASSUME NEW j \in Jobs, ApiSkipsPublish(j) PROVE TypeOK'
  BY <1>5 DEF ApiSkipsPublish
<1>6. ASSUME NEW j \in Jobs, ApiConfirmed(j) PROVE TypeOK'
  BY <1>6 DEF ApiConfirmed
<1>7. ASSUME NEW j \in Jobs, ApiUnconfirmed(j) PROVE TypeOK'
  BY <1>7 DEF ApiUnconfirmed
<1>8. ASSUME NEW j \in Jobs, ApiRemovesRow(j) PROVE TypeOK'
  BY <1>8 DEF ApiRemovesRow
<1>9. ASSUME NEW j \in Jobs, RowAges(j) PROVE TypeOK'
  BY <1>9 DEF RowAges
<1>10. ASSUME NEW j \in Jobs, ClaimExpires(j) PROVE TypeOK'
  BY <1>10 DEF ClaimExpires
<1>11. ASSUME ApiCrash PROVE TypeOK'
  BY <1>11 DEF ApiCrash
<1>12. ASSUME NEW w \in Workers, NEW j \in Jobs, RelayClaims(w, j) PROVE TypeOK'
  BY <1>12 DEF RelayClaims
<1>13. ASSUME NEW w \in Workers, RelayPublishes(w) PROVE TypeOK'
  <2>1. PICK c \in Copies : Publish(relayJob[w], c) /\ relayCopy' = [relayCopy EXCEPT ![w] = c]
    BY <1>13 DEF RelayPublishes
  <2>2. relayJob[w] \in Jobs
    BY <2>1, PublishedJob
  <2>3. QED
    BY <1>13, <2>1, <2>2 DEF RelayPublishes
<1>14. ASSUME NEW w \in Workers, RelaySkipsPublish(w) PROVE TypeOK'
  BY <1>14 DEF RelaySkipsPublish
<1>15. ASSUME NEW w \in Workers, RelayConfirmed(w) PROVE TypeOK'
  BY <1>15 DEF RelayConfirmed
<1>16. ASSUME NEW w \in Workers, RelayUnconfirmed(w) PROVE TypeOK'
  BY <1>16 DEF RelayUnconfirmed
<1>17. ASSUME NEW w \in Workers, RelayRemovesRow(w) PROVE TypeOK'
  BY <1>17 DEF RelayRemovesRow
<1>18. ASSUME NEW w \in Workers, RelayReleases(w) PROVE TypeOK'
  BY <1>18 DEF RelayReleases, ReleaseClaim
<1>19. QED
  BY <1>1, <1>2, <1>3, <1>4, <1>5, <1>6, <1>7, <1>8, <1>9, <1>10, <1>11, <1>12,
     <1>13, <1>14, <1>15, <1>16, <1>17, <1>18
  DEF ProducerNext, RequestNext, RequestStep, ClockStep, RelayStep

\* A busy handler works for a job.
LEMMA BusyJob ==
    ASSUME TypeOK, NEW w \in Workers, step[w] # "idle"
    PROVE  handling[w] \in Copies /\ JobAt(w) \in Jobs
BY CopyJob DEF TypeOK, ConsumerTypeOK, JobAt

\* The steps of a worker keep the types.
LEMMA ConsumerType == TypeOK /\ ConsumerNext /\ UNCHANGED producerVars => TypeOK'
<1> SUFFICES ASSUME TypeOK, ConsumerNext, UNCHANGED producerVars
             PROVE  TypeOK'
  OBVIOUS
<1> USE DEF TypeOK, QueueTypeOK, RecordTypeOK, ProducerTypeOK, ConsumerTypeOK,
            queueVars, recordVars, producerVars, Places, TrackerStatus, JournalStatus,
            Steps, Fault, NoFault, WorkerGoes, WorkerLeaves, MoveCopy, Nack, Track,
            FinishJournal
<1>1. ASSUME NEW w \in Workers, NEW c \in Copies, Receive(w, c) PROVE TypeOK'
  BY <1>1 DEF Receive, Deliver
<1>2. ASSUME NEW w \in Workers, InterruptedApplied(w) PROVE TypeOK'
  BY <1>2, BusyJob DEF InterruptedApplied
<1>3. ASSUME NEW w \in Workers, InterruptedNotApplied(w) PROVE TypeOK'
  BY <1>3, BusyJob DEF InterruptedNotApplied
<1>4. ASSUME NEW w \in Workers, HandlerThrows(w) PROVE TypeOK'
  BY <1>4, BusyJob DEF HandlerThrows
<1>5. ASSUME NEW w \in Workers, BeginRun(w) PROVE TypeOK'
  BY <1>5, BusyJob DEF BeginRun
<1>6. ASSUME NEW w \in Workers, CheckApplied(w) PROVE TypeOK'
  BY <1>6, BusyJob DEF CheckApplied
<1>7. ASSUME NEW w \in Workers, SaveWords(w) PROVE TypeOK'
  BY <1>7, BusyJob DEF SaveWords, ApplyOnce
<1>8. ASSUME NEW w \in Workers, RunFails(w) PROVE TypeOK'
  BY <1>8, BusyJob DEF RunFails, ApplyOnce
<1>9. ASSUME NEW w \in Workers, TrackCompleted(w) PROVE TypeOK'
  BY <1>9, BusyJob DEF TrackCompleted
<1>10. ASSUME NEW w \in Workers, NoteSucceeded(w) PROVE TypeOK'
  BY <1>10, BusyJob DEF NoteSucceeded
<1>11. ASSUME NEW w \in Workers, AckCopy(w) PROVE TypeOK'
  BY <1>11, BusyJob DEF AckCopy, Ack
<1>12. ASSUME NEW w \in Workers, TrackFailure(w) PROVE TypeOK'
  BY <1>12, BusyJob DEF TrackFailure
<1>13. ASSUME NEW w \in Workers, NoteFailed(w) PROVE TypeOK'
  BY <1>13, BusyJob DEF NoteFailed
<1>14. ASSUME NEW w \in Workers, RejectCopy(w) PROVE TypeOK'
  BY <1>14, BusyJob DEF RejectCopy
<1>15. ASSUME NEW w \in Workers, ParkConfirmed(w) PROVE TypeOK'
  BY <1>15, BusyJob DEF ParkConfirmed, Park
<1>16. ASSUME NEW w \in Workers, ParkUnconfirmed(w) PROVE TypeOK'
  BY <1>16, BusyJob DEF ParkUnconfirmed, Park
<1>17. QED
  BY <1>1, <1>2, <1>3, <1>4, <1>5, <1>6, <1>7, <1>8, <1>9, <1>10, <1>11, <1>12,
     <1>13, <1>14, <1>15, <1>16
  DEF ConsumerNext, ReceiveAny, HandlerStep

\* Broker, clock, crashes and cleanup keep the types.
LEMMA EnvironmentType == TypeOK /\ EnvironmentNext => TypeOK'
<1> SUFFICES ASSUME TypeOK, EnvironmentNext
             PROVE  TypeOK'
  OBVIOUS
<1> USE DEF TypeOK, QueueTypeOK, RecordTypeOK, ProducerTypeOK, ConsumerTypeOK,
            queueVars, recordVars, producerVars, consumerVars, rowVars, Places,
            TrackerStatus, Fault, NoFault, MoveCopy
<1>1. ASSUME NEW c \in Copies, BrokerTakes(c) PROVE TypeOK'
  BY <1>1 DEF BrokerTakes, BrokerAccepts, RetryElapsed
<1>2. ASSUME NEW c \in Copies, BrokerLoses(c) PROVE TypeOK'
  BY <1>2 DEF BrokerLoses, WireLoses
<1>3. ASSUME NEW w \in Workers, WorkerCrash(w) PROVE TypeOK'
  BY <1>3 DEF WorkerCrash, RequeuedIn, Steps, RelaySteps
<1>4. ASSUME NEW j \in Jobs, CleanupMarker(j) PROVE TypeOK'
  BY <1>4 DEF CleanupMarker
<1>5. ASSUME NEW j \in Jobs, TrackerExpires(j), UNCHANGED <<producerVars, consumerVars, queueVars>>
      PROVE  TypeOK'
  BY <1>5 DEF TrackerExpires
<1>6. QED
  BY <1>1, <1>2, <1>3, <1>4, <1>5 DEF EnvironmentNext

\* Every variable keeps its type: in particular no step publishes beyond the
\* copies the model has, and no counter of the broker leaves the naturals.
THEOREM TypeCorrect == Spec => []TypeOK
<1>1. Init => TypeOK
  BY DEF Init, QueueInit, RecordInit, ProducerInit, ConsumerInit,
         TypeOK, QueueTypeOK, RecordTypeOK, ProducerTypeOK, ConsumerTypeOK,
         Places, TrackerStatus, JournalStatus, ApiSteps, RelaySteps, Steps
<1>2. TypeOK /\ [Next]_vars => TypeOK'
  <2>1. TypeOK /\ UNCHANGED vars => TypeOK'
    BY DEF vars, TypeOK, QueueTypeOK, RecordTypeOK, ProducerTypeOK, ConsumerTypeOK,
           producerVars, consumerVars, queueVars, recordVars
  <2>2. QED
    BY <2>1, ProducerType, ConsumerType, EnvironmentType DEF Next
<1>3. QED
  BY <1>1, <1>2, PTL DEF Spec

-----------------------------------------------------------------------------
(* What the steps of the publishers do to the rest of the pipeline         *)

ProducerEffect ==
    /\ UNCHANGED <<deaths, redelivered, parked>>
    /\ \A c \in Copies :
        place'[c] # place[c] =>
            /\ place[c] = "unsent" /\ place'[c] = "wire"
            /\ \/ api[JobOf(c)] = "committed"
               \/ \E w \in Workers : relayJob[w] = JobOf(c)
    /\ \A j \in Jobs :
        /\ api'[j] \in {"idle", "opened"} => NotSubmitted(j)
        /\ api'[j] \in ApiBusy => api[j] \in ApiBusy \cup {"idle"}
        /\ j \in outbox' /\ j \notin outbox =>
                /\ api[j] = "opened" /\ api'[j] \notin {"idle", "opened"}
                /\ journal'[j] = "running"
        /\ api'[j] \in ApiBusy \ {"opened"} =>
                api[j] \in ApiBusy \ {"opened"} \/ j \in outbox'
        /\ journal'[j] # journal[j] => journal'[j] = "running" /\ j \in outbox'
        /\ tracker'[j] # tracker[j] => tracker'[j] \notin Finished
        /\ j \in outbox /\ j \notin outbox' => JobAccepted(j)
    /\ UNCHANGED journal \/ \E j \in Jobs : StartJournal(j)
    /\ \A w \in Workers : relayJob'[w] \in {relayJob[w], None} \cup outbox

\* What a step of a request or a relay may change of the rows and of the copies.
LEMMA ProducerEffects ==
    ASSUME TypeOK, PublisherInv, ProducerNext, UNCHANGED consumerVars
    PROVE  ProducerEffect
<1> USE DEF TypeOK, QueueTypeOK, RecordTypeOK, ProducerTypeOK, queueVars, recordVars,
            rowVars, relayVars, PublisherInv, NotSubmitted, ApiBusy, Finished, ProducerEffect,
            ApiGoes, RelayGoes, RelayLeaves, RelayAnswered, RemoveRow, Send, Publish, MoveCopy
<1>1. ASSUME NEW j \in Jobs, OpenJob(j) PROVE ProducerEffect
  BY <1>1 DEF OpenJob, CreateTracked
<1>2. ASSUME NEW j \in Jobs, CommitJob(j) PROVE ProducerEffect
  BY <1>2 DEF CommitJob, StoreJob, StartJournal
<1>3. ASSUME NEW j \in Jobs, CommitFails(j) PROVE ProducerEffect
  BY <1>3 DEF CommitFails, StoreJob, StartJournal, Untrack
<1>4. ASSUME NEW j \in Jobs, ApiPublish(j) PROVE ProducerEffect
  <2>1. PICK c \in Copies : Publish(j, c)
    BY <1>4 DEF ApiPublish
  <2>2. JobOf(c) = j
    BY <2>1, PublishedJob
  <2>3. QED
    BY <1>4, <2>1, <2>2 DEF ApiPublish
<1>5. ASSUME NEW j \in Jobs, ApiSkipsPublish(j) PROVE ProducerEffect
  BY <1>5 DEF ApiSkipsPublish
<1>6. ASSUME NEW j \in Jobs, ApiConfirmed(j) PROVE ProducerEffect
  BY <1>6 DEF ApiConfirmed
<1>7. ASSUME NEW j \in Jobs, ApiUnconfirmed(j) PROVE ProducerEffect
  BY <1>7 DEF ApiUnconfirmed
<1>8. ASSUME NEW j \in Jobs, ApiRemovesRow(j) PROVE ProducerEffect
  BY <1>8 DEF ApiRemovesRow
<1>9. ASSUME NEW j \in Jobs, RowAges(j) PROVE ProducerEffect
  BY <1>9 DEF RowAges
<1>10. ASSUME NEW j \in Jobs, ClaimExpires(j) PROVE ProducerEffect
  BY <1>10 DEF ClaimExpires
<1>11. ASSUME ApiCrash PROVE ProducerEffect
  BY <1>11 DEF ApiCrash
<1>12. ASSUME NEW w \in Workers, NEW j \in Jobs, RelayClaims(w, j) PROVE ProducerEffect
  BY <1>12 DEF RelayClaims, Claimable
<1>13. ASSUME NEW w \in Workers, RelayPublishes(w) PROVE ProducerEffect
  <2>1. PICK c \in Copies : Publish(relayJob[w], c)
    BY <1>13 DEF RelayPublishes
  <2>2. JobOf(c) = relayJob[w]
    BY <2>1, PublishedJob
  <2>3. QED
    BY <1>13, <2>1, <2>2 DEF RelayPublishes
<1>14. ASSUME NEW w \in Workers, RelaySkipsPublish(w) PROVE ProducerEffect
  BY <1>14 DEF RelaySkipsPublish
<1>15. ASSUME NEW w \in Workers, RelayConfirmed(w) PROVE ProducerEffect
  BY <1>15 DEF RelayConfirmed
<1>16. ASSUME NEW w \in Workers, RelayUnconfirmed(w) PROVE ProducerEffect
  BY <1>16 DEF RelayUnconfirmed
<1>17. ASSUME NEW w \in Workers, RelayRemovesRow(w) PROVE ProducerEffect
  BY <1>17 DEF RelayRemovesRow
<1>18. ASSUME NEW w \in Workers, RelayReleases(w) PROVE ProducerEffect
  BY <1>18 DEF RelayReleases
<1>19. QED
  BY <1>1, <1>2, <1>3, <1>4, <1>5, <1>6, <1>7, <1>8, <1>9, <1>10, <1>11, <1>12,
     <1>13, <1>14, <1>15, <1>16, <1>17, <1>18
  DEF ProducerNext, RequestNext, RequestStep, ClockStep, RelayStep

\* A publisher goes on waiting for a copy of its own job.
LEMMA ProducerPublishers ==
    ASSUME TypeOK, PublisherInv, ProducerNext, UNCHANGED consumerVars,
           \A j \in Jobs : JobAccepted(j) => JobAccepted(j)'
    PROVE  PublisherInv'
<1> USE DEF TypeOK, QueueTypeOK, ProducerTypeOK, queueVars, rowVars, relayVars, PublisherInv,
            ApiSteps, ApiBusy, RelaySteps, ApiGoes, RelayGoes, RelayLeaves, RelayAnswered
<1>0. \A c \in Copies : Accepted(c) => JobAccepted(JobOf(c))
  BY DEF JobAccepted
<1>1. ASSUME NEW j \in Jobs, OpenJob(j) PROVE PublisherInv'
  BY <1>1 DEF OpenJob
<1>2. ASSUME NEW j \in Jobs, CommitJob(j) PROVE PublisherInv'
  BY <1>2 DEF CommitJob
<1>3. ASSUME NEW j \in Jobs, CommitFails(j) PROVE PublisherInv'
  BY <1>3 DEF CommitFails
<1>4. ASSUME NEW j \in Jobs, ApiPublish(j) PROVE PublisherInv'
  <2>1. PICK c \in Copies : Publish(j, c) /\ apiCopy' = [apiCopy EXCEPT ![j] = c]
    BY <1>4 DEF ApiPublish
  <2>2. JobOf(c) = j
    BY <2>1, PublishedJob
  <2>3. QED
    BY <1>4, <2>1, <2>2 DEF ApiPublish
<1>5. ASSUME NEW j \in Jobs, ApiSkipsPublish(j) PROVE PublisherInv'
  BY <1>5 DEF ApiSkipsPublish
<1>6. ASSUME NEW j \in Jobs, ApiConfirmed(j) PROVE PublisherInv'
  BY <1>0, <1>6 DEF ApiConfirmed
<1>7. ASSUME NEW j \in Jobs, ApiUnconfirmed(j) PROVE PublisherInv'
  BY <1>7 DEF ApiUnconfirmed
<1>8. ASSUME NEW j \in Jobs, ApiRemovesRow(j) PROVE PublisherInv'
  BY <1>8 DEF ApiRemovesRow
<1>9. ASSUME NEW j \in Jobs, RowAges(j) PROVE PublisherInv'
  BY <1>9 DEF RowAges
<1>10. ASSUME NEW j \in Jobs, ClaimExpires(j) PROVE PublisherInv'
  BY <1>10 DEF ClaimExpires
<1>11. ASSUME ApiCrash PROVE PublisherInv'
  BY <1>11 DEF ApiCrash
<1>12. ASSUME NEW w \in Workers, NEW j \in Jobs, RelayClaims(w, j) PROVE PublisherInv'
  BY <1>12 DEF RelayClaims, Claimable
<1>13. ASSUME NEW w \in Workers, RelayPublishes(w) PROVE PublisherInv'
  <2>1. PICK c \in Copies : Publish(relayJob[w], c) /\ relayCopy' = [relayCopy EXCEPT ![w] = c]
    BY <1>13 DEF RelayPublishes
  <2>2. JobOf(c) = relayJob[w]
    BY <2>1, PublishedJob
  <2>3. QED
    BY <1>13, <2>1, <2>2 DEF RelayPublishes
<1>14. ASSUME NEW w \in Workers, RelaySkipsPublish(w) PROVE PublisherInv'
  BY <1>14 DEF RelaySkipsPublish
<1>15. ASSUME NEW w \in Workers, RelayConfirmed(w) PROVE PublisherInv'
  BY <1>0, <1>15 DEF RelayConfirmed
<1>16. ASSUME NEW w \in Workers, RelayUnconfirmed(w) PROVE PublisherInv'
  BY <1>16 DEF RelayUnconfirmed
<1>17. ASSUME NEW w \in Workers, RelayRemovesRow(w) PROVE PublisherInv'
  BY <1>17 DEF RelayRemovesRow
<1>18. ASSUME NEW w \in Workers, RelayReleases(w) PROVE PublisherInv'
  BY <1>18 DEF RelayReleases
<1>19. QED
  BY <1>1, <1>2, <1>3, <1>4, <1>5, <1>6, <1>7, <1>8, <1>9,
     <1>10, <1>11, <1>12, <1>13, <1>14, <1>15, <1>16, <1>17, <1>18
  DEF ProducerNext, RequestNext, RequestStep, ClockStep, RelayStep

\* A step of a request or a relay keeps the invariant.
LEMMA ProducerStep ==
    ASSUME TypeOK, IInv, ProducerNext, UNCHANGED consumerVars
    PROVE  IInv'
<1> USE DEF IInv
<1>1. ProducerEffect
  BY ProducerEffects
<1>2. \A c \in Copies : Accepted(c) => Accepted(c)'
  BY <1>1 DEF ProducerEffect, Accepted
<1>3. \A j \in Jobs : JobAccepted(j) => JobAccepted(j)'
  BY <1>2 DEF JobAccepted
<1>4. \A j \in Jobs : Settled(j) <=> Settled(j)'
  BY <1>1 DEF ProducerEffect, Settled, ParkedJobs, consumerVars
<1>5. \A c \in Copies : place[c] = "held" => place'[c] = "held"
  BY <1>1 DEF ProducerEffect
<1>6. \A c \in Copies : JobOf(c) \in Jobs
  BY CopyJob
<1>7. SubmittedFirst'
  <2> USE DEF ProducerEffect, SubmittedFirst, NotSubmitted, TypeOK, ProducerTypeOK
  <2>1. TypeOK'
    BY ProducerType
  <2>2. \A j \in Jobs : ~NotSubmitted(j) => ~NotSubmitted(j)'
    BY <1>1
  <2>3. \A j \in outbox' : ~NotSubmitted(j)'
    BY <1>1, <2>1, <2>2
  <2>4. \A w \in Workers : (relayJob[w] # None => ~NotSubmitted(relayJob[w]))'
    BY <1>1, <2>1, <2>2
  <2>5. \A c \in Copies : (place[c] # "unsent" => ~NotSubmitted(JobOf(c)))'
    BY <1>1, <1>6, <2>2
  <2>6. QED
    BY <2>3, <2>4, <2>5
<1>8. PublisherInv'
  BY <1>3, ProducerPublishers
<1>9. HolderInv'
  BY <1>5 DEF HolderInv, consumerVars, TypeOK, ConsumerTypeOK
<1>10. HandOver'
  BY <1>1, <1>3, <1>4, <1>6, BusyJob DEF ProducerEffect, HandOver, Stored, consumerVars, JobAt,
     TypeOK, ConsumerTypeOK
<1>11. MarkerInv'
  BY <1>1, <1>6 DEF ProducerEffect, MarkerInv, NotSubmitted, Drained, InFlight, consumerVars,
     TypeOK, ProducerTypeOK, ApiBusy
<1>12. SavedSteps' /\ FailedSteps' /\ RunsPaid'
  BY <1>1 DEF ProducerEffect, SavedSteps, FailedSteps, RunsPaid, Exhausted, JobAt, consumerVars
<1>13. SuccessIsTrue' /\ FailureIsLast'
  BY <1>1 DEF ProducerEffect, SuccessIsTrue, FailureIsLast, Exhausted, Finished, consumerVars
<1>14. QED
  BY <1>7, <1>8, <1>9, <1>10, <1>11, <1>12, <1>13
-----------------------------------------------------------------------------
(* What a consumer does to the rest of the pipeline                        *)

ConsumerEffect ==
    /\ \A c \in Copies :
        /\ place'[c] # place[c] =>
                \/ place[c] = "work" /\ place'[c] = "held"
                \/ place[c] = "held" /\ place'[c] \in {"retry", "done"}
        /\ deaths[c] <= deaths'[c]
    /\ parked \subseteq parked'
    /\ \A j \in Jobs : saved[j] <= saved'[j] /\ (Stored(j) <=> Stored(j)')

\* What remains to prove of a consumer's step once its effect is known.
ConsumerInv ==
    /\ HolderInv
    /\ HandOver
    /\ SavedSteps
    /\ MarkerInv
    /\ FailedSteps
    /\ RunsPaid
    /\ SuccessIsTrue
    /\ FailureIsLast

\* What a step of a worker may change of the copies and of the markers.
LEMMA ConsumerEffects ==
    ASSUME TypeOK, ConsumerNext, UNCHANGED producerVars
    PROVE  ConsumerEffect
<1> USE DEF TypeOK, QueueTypeOK, RecordTypeOK, ConsumerTypeOK, queueVars, recordVars,
            ConsumerEffect, Stored, WorkerGoes, WorkerLeaves, MoveCopy, Nack, Track,
            FinishJournal
<1>1. ASSUME NEW w \in Workers, NEW c \in Copies, Receive(w, c) PROVE ConsumerEffect
  BY <1>1 DEF Receive, Deliver
<1>2. ASSUME NEW w \in Workers, InterruptedApplied(w) PROVE ConsumerEffect
  BY <1>2, BusyJob DEF InterruptedApplied
<1>3. ASSUME NEW w \in Workers, InterruptedNotApplied(w) PROVE ConsumerEffect
  BY <1>3, BusyJob DEF InterruptedNotApplied
<1>4. ASSUME NEW w \in Workers, HandlerThrows(w) PROVE ConsumerEffect
  BY <1>4, BusyJob DEF HandlerThrows
<1>5. ASSUME NEW w \in Workers, BeginRun(w) PROVE ConsumerEffect
  BY <1>5, BusyJob DEF BeginRun
<1>6. ASSUME NEW w \in Workers, CheckApplied(w) PROVE ConsumerEffect
  BY <1>6, BusyJob DEF CheckApplied
<1>7. ASSUME NEW w \in Workers, SaveWords(w) PROVE ConsumerEffect
  BY <1>7, BusyJob DEF SaveWords, ApplyOnce
<1>8. ASSUME NEW w \in Workers, RunFails(w) PROVE ConsumerEffect
  BY <1>8, BusyJob DEF RunFails, ApplyOnce
<1>9. ASSUME NEW w \in Workers, TrackCompleted(w) PROVE ConsumerEffect
  BY <1>9, BusyJob DEF TrackCompleted
<1>10. ASSUME NEW w \in Workers, NoteSucceeded(w) PROVE ConsumerEffect
  BY <1>10, BusyJob DEF NoteSucceeded
<1>11. ASSUME NEW w \in Workers, AckCopy(w) PROVE ConsumerEffect
  BY <1>11, BusyJob DEF AckCopy, Ack
<1>12. ASSUME NEW w \in Workers, TrackFailure(w) PROVE ConsumerEffect
  BY <1>12, BusyJob DEF TrackFailure
<1>13. ASSUME NEW w \in Workers, NoteFailed(w) PROVE ConsumerEffect
  BY <1>13, BusyJob DEF NoteFailed
<1>14. ASSUME NEW w \in Workers, RejectCopy(w) PROVE ConsumerEffect
  BY <1>14, BusyJob DEF RejectCopy
<1>15. ASSUME NEW w \in Workers, ParkConfirmed(w) PROVE ConsumerEffect
  BY <1>15, BusyJob DEF ParkConfirmed, Park
<1>16. ASSUME NEW w \in Workers, ParkUnconfirmed(w) PROVE ConsumerEffect
  BY <1>16, BusyJob DEF ParkUnconfirmed, Park
<1>17. QED
  BY <1>1, <1>2, <1>3, <1>4, <1>5, <1>6, <1>7, <1>8,
     <1>9, <1>10, <1>11, <1>12, <1>13, <1>14, <1>15, <1>16
  DEF ConsumerNext, ReceiveAny, HandlerStep

\* addWords of words.service.ts: a job that a worker is running has its marker,
\* or its words are not saved yet.
LEMMA FreshJob ==
    ASSUME TypeOK, HolderInv, MarkerInv, NEW w \in Workers, step[w] # "idle"
    PROVE  JobAt(w) \in Jobs /\ (JobAt(w) \in marker \/ saved[JobAt(w)] = 0)
<1>1. handling[w] \in Copies /\ JobAt(w) \in Jobs
  BY BusyJob
<1>2. place[handling[w]] = "held"
  BY <1>1 DEF HolderInv
<1>3. ~Drained(JobAt(w))
  BY <1>1, <1>2 DEF Drained, InFlight, JobAt
<1>4. QED
  BY <1>1, <1>3 DEF MarkerInv, TypeOK, ConsumerTypeOK

\* The transaction of addWords, whose answer may be lost ("failing").
LEMMA CommitKeeps ==
    ASSUME TypeOK, SubmittedFirst, ConsumerInv, NEW w \in Workers, NEW to \in {"saved", "failing"},
           WorkerGoes(w, "enriched", to), ApplyOnce(JobAt(w)),
           UNCHANGED <<runs, queueVars, recordVars, producerVars>>
    PROVE  ConsumerInv'
<1> DEFINE j == JobAt(w)
<1> USE DEF ConsumerInv, TypeOK, ConsumerTypeOK, WorkerGoes, queueVars, recordVars, producerVars
<1>1. handling[w] \in Copies /\ j \in Jobs /\ (j \in marker \/ saved[j] = 0)
  BY BusyJob, FreshJob
<1>2. j \in marker' /\ marker' = marker \cup {j}
  BY <1>1 DEF ApplyOnce
<1>3. saved'[j] = 1 /\ saved' \in [Jobs -> Nat]
  BY <1>1 DEF ApplyOnce, MarkerInv
<1>4. \A k \in Jobs : k # j => saved'[k] = saved[k]
  BY <1>1 DEF ApplyOnce
<1>5. HolderInv'
  BY DEF HolderInv
<1>6. \A k \in Jobs : Settled(k) => Settled(k)'
  BY <1>3, <1>4 DEF Settled, ParkedJobs
<1>7. HandOver'
  BY <1>6, CopyJob, BusyJob DEF HandOver, Stored, JobAccepted, Accepted, JobAt
<1>8. SavedSteps'
  BY <1>1, <1>3, <1>4, BusyJob DEF SavedSteps, JobAt
<1>9. MarkerInv'
  <2>1. ~NotSubmitted(j)
    BY <1>1 DEF SubmittedFirst, HolderInv, JobAt
  <2>2. QED
    BY <1>2, <1>3, <1>4, <2>1 DEF MarkerInv, NotSubmitted, Drained, InFlight
<1>10. FailedSteps' /\ RunsPaid'
  BY DEF FailedSteps, RunsPaid, Exhausted
<1>11. SuccessIsTrue' /\ FailureIsLast'
  BY <1>3, <1>4 DEF SuccessIsTrue, FailureIsLast, Exhausted
<1>12. QED
  BY <1>5, <1>7, <1>8, <1>9, <1>10, <1>11

\* A step of a worker keeps what the invariant says of the copies and markers of workers.
LEMMA ConsumerKeeps ==
    ASSUME TypeOK, SubmittedFirst, ConsumerInv, ConsumerNext, UNCHANGED producerVars
    PROVE  ConsumerInv'
<1> USE DEF TypeOK, QueueTypeOK, RecordTypeOK, ConsumerTypeOK, queueVars, recordVars,
            ConsumerInv, HolderInv, HandOver, SavedSteps, MarkerInv, FailedSteps, RunsPaid,
            SuccessIsTrue, FailureIsLast, Stored, Settled, ParkedJobs, JobAccepted, Accepted,
            Drained, InFlight, Exhausted, JobAt, NotSubmitted, producerVars,
            WorkerGoes, WorkerLeaves, MoveCopy, Nack, Track, FinishJournal
<1>1. ASSUME NEW w \in Workers, NEW c \in Copies, Receive(w, c) PROVE ConsumerInv'
  BY <1>1, CopyJob DEF Receive, Deliver
<1>2. ASSUME NEW w \in Workers, InterruptedApplied(w) PROVE ConsumerInv'
  BY <1>2, BusyJob, CopyJob DEF InterruptedApplied
<1>3. ASSUME NEW w \in Workers, InterruptedNotApplied(w) PROVE ConsumerInv'
  BY <1>3, BusyJob, CopyJob DEF InterruptedNotApplied
<1>4. ASSUME NEW w \in Workers, HandlerThrows(w) PROVE ConsumerInv'
  BY <1>4, BusyJob, CopyJob DEF HandlerThrows
<1>5. ASSUME NEW w \in Workers, BeginRun(w) PROVE ConsumerInv'
  BY <1>5, BusyJob, CopyJob DEF BeginRun
<1>6. ASSUME NEW w \in Workers, CheckApplied(w) PROVE ConsumerInv'
  BY <1>6, BusyJob, CopyJob DEF CheckApplied
<1>7. ASSUME NEW w \in Workers, SaveWords(w) PROVE ConsumerInv'
  BY <1>7, CommitKeeps DEF SaveWords
<1>8. ASSUME NEW w \in Workers, RunFails(w) PROVE ConsumerInv'
  <2>1. CASE UNCHANGED <<marker, saved>>
    BY <1>8, <2>1, BusyJob, CopyJob DEF RunFails
  <2>2. CASE WorkerGoes(w, "enriched", "failing") /\ ApplyOnce(JobAt(w))
    BY <1>8, <2>2, CommitKeeps DEF RunFails
  <2>3. QED
    BY <1>8, <2>1, <2>2 DEF RunFails
<1>9. ASSUME NEW w \in Workers, TrackCompleted(w) PROVE ConsumerInv'
  BY <1>9, BusyJob, CopyJob DEF TrackCompleted
<1>10. ASSUME NEW w \in Workers, NoteSucceeded(w) PROVE ConsumerInv'
  BY <1>10, BusyJob, CopyJob DEF NoteSucceeded
<1>11. ASSUME NEW w \in Workers, AckCopy(w) PROVE ConsumerInv'
  BY <1>11, BusyJob, CopyJob DEF AckCopy, Ack
<1>12. ASSUME NEW w \in Workers, TrackFailure(w) PROVE ConsumerInv'
  BY <1>12, BusyJob, CopyJob DEF TrackFailure
<1>13. ASSUME NEW w \in Workers, NoteFailed(w) PROVE ConsumerInv'
  BY <1>13, BusyJob, CopyJob DEF NoteFailed
<1>14. ASSUME NEW w \in Workers, RejectCopy(w) PROVE ConsumerInv'
  BY <1>14, BusyJob, CopyJob DEF RejectCopy
<1>15. ASSUME NEW w \in Workers, ParkConfirmed(w) PROVE ConsumerInv'
  BY <1>15, BusyJob, CopyJob DEF ParkConfirmed, Park
<1>16. ASSUME NEW w \in Workers, ParkUnconfirmed(w) PROVE ConsumerInv'
  BY <1>16, BusyJob, CopyJob DEF ParkUnconfirmed, Park
<1>17. QED
  BY <1>1, <1>2, <1>3, <1>4, <1>5, <1>6, <1>7, <1>8,
     <1>9, <1>10, <1>11, <1>12, <1>13, <1>14, <1>15, <1>16
  DEF ConsumerNext, ReceiveAny, HandlerStep

\* A step of a worker keeps the invariant.
LEMMA ConsumerStep ==
    ASSUME TypeOK, IInv, ConsumerNext, UNCHANGED producerVars
    PROVE  IInv'
<1>1. ConsumerEffect
  BY ConsumerEffects
<1>2. \A j \in Jobs : JobAccepted(j) => JobAccepted(j)'
  BY <1>1 DEF ConsumerEffect, JobAccepted, Accepted
<1>3. SubmittedFirst'
  BY <1>1 DEF IInv, ConsumerEffect, SubmittedFirst, NotSubmitted, producerVars
<1>4. PublisherInv'
  BY <1>2 DEF IInv, PublisherInv, producerVars, TypeOK, ProducerTypeOK
<1>5. ConsumerInv'
  BY ConsumerKeeps DEF IInv, ConsumerInv
<1>6. QED
  BY <1>3, <1>4, <1>5 DEF IInv, ConsumerInv

-----------------------------------------------------------------------------
(* The broker, the crashes and the clock                                   *)

\* A step of the broker keeps the invariant.
LEMMA BrokerStep ==
    ASSUME TypeOK, IInv, NEW c \in Copies, BrokerTakes(c) \/ BrokerLoses(c)
    PROVE  IInv'
<1> USE DEF IInv, BrokerTakes, BrokerLoses, BrokerAccepts, RetryElapsed, WireLoses, MoveCopy
<1>1. /\ place' \in [Copies -> Places]
      /\ \A d \in Copies : place'[d] # place[d] =>
            \/ place[d] \in {"wire", "retry"} /\ place'[d] = "work"
            \/ place[d] = "wire" /\ place'[d] = "lost"
  BY DEF TypeOK, QueueTypeOK, Places
<1>2. UNCHANGED <<deaths, redelivered, parked, producerVars, consumerVars, recordVars>>
  OBVIOUS
<1>3. \A j \in Jobs : JobAccepted(j) => JobAccepted(j)'
  BY <1>1 DEF JobAccepted, Accepted
<1>4. SubmittedFirst'
  BY <1>1, <1>2 DEF SubmittedFirst, NotSubmitted, producerVars
<1>5. PublisherInv'
  BY <1>2, <1>3 DEF PublisherInv, producerVars, TypeOK, ProducerTypeOK
<1>6. HolderInv'
  BY <1>1, <1>2 DEF HolderInv, consumerVars, TypeOK, ConsumerTypeOK
<1>7. HandOver'
  BY <1>1, <1>2, <1>3 DEF HandOver, Settled, ParkedJobs, Stored, JobAt,
     producerVars, consumerVars, recordVars
<1>8. MarkerInv'
  BY <1>1, <1>2, CopyJob DEF MarkerInv, NotSubmitted, Drained, InFlight, producerVars, consumerVars
<1>9. SavedSteps' /\ FailedSteps' /\ RunsPaid'
  BY <1>1, <1>2 DEF SavedSteps, FailedSteps, RunsPaid, Exhausted, JobAt, consumerVars
<1>10. SuccessIsTrue' /\ FailureIsLast'
  BY <1>2 DEF SuccessIsTrue, FailureIsLast, Exhausted, consumerVars, recordVars
<1>11. QED
  BY <1>4, <1>5, <1>6, <1>7, <1>8, <1>9, <1>10

\* The end of a process keeps the invariant.
LEMMA CrashStep ==
    ASSUME TypeOK, IInv, NEW w \in Workers, WorkerCrash(w)
    PROVE  IInv'
<1> DEFINE H == {handling[w]} \cap Copies
<1> USE DEF IInv, WorkerCrash, RequeuedIn, rowVars, recordVars
<1>1. \A c \in H : place[c] = "held" /\ c = handling[w]
  BY DEF HolderInv
<1>2. \A c \in Copies : place'[c] = IF c \in H THEN "work" ELSE place[c]
  OBVIOUS
<1>3. /\ step' = [step EXCEPT ![w] = "idle"] /\ handling' = [handling EXCEPT ![w] = None]
      /\ step \in [Workers -> Steps] /\ handling \in [Workers -> Copies \cup {None}]
  BY DEF TypeOK, ConsumerTypeOK
<1>4. \A j \in Jobs : JobAccepted(j) => JobAccepted(j)'
  BY <1>2 DEF JobAccepted, Accepted
<1>5. SubmittedFirst'
  BY <1>1, <1>2 DEF SubmittedFirst, NotSubmitted, TypeOK, ProducerTypeOK
<1>6. PublisherInv'
  BY <1>4 DEF PublisherInv, TypeOK, ProducerTypeOK
<1>7. HolderInv'
  BY <1>1, <1>2, <1>3 DEF HolderInv
<1>8. HandOver'
  BY <1>2, <1>3, <1>4 DEF HandOver, Settled, ParkedJobs, Stored, JobAt
<1>9. MarkerInv'
  BY <1>1, <1>2, CopyJob DEF MarkerInv, NotSubmitted, Drained, InFlight, TypeOK, ProducerTypeOK
<1>10. SavedSteps' /\ FailedSteps'
  BY <1>3 DEF SavedSteps, FailedSteps, Exhausted, JobAt
<1>11. RunsPaid'
  BY <1>1, <1>2, <1>3 DEF RunsPaid
<1>12. SuccessIsTrue' /\ FailureIsLast'
  BY DEF SuccessIsTrue, FailureIsLast, Exhausted
<1>13. QED
  BY <1>5, <1>6, <1>7, <1>8, <1>9, <1>10, <1>11, <1>12

\* The nightly cleanup keeps the invariant: it takes no marker that a copy may need.
LEMMA CleanupStep ==
    ASSUME TypeOK, IInv, NEW j \in Jobs, CleanupMarker(j)
    PROVE  IInv'
<1> USE DEF IInv, CleanupMarker, producerVars, queueVars, recordVars
<1>1. SubmittedFirst' /\ PublisherInv' /\ HolderInv'
  BY DEF SubmittedFirst, NotSubmitted, PublisherInv, JobAccepted, Accepted, HolderInv,
     TypeOK, ProducerTypeOK
<1>2. HandOver' /\ SavedSteps'
  BY DEF HandOver, Stored, JobAccepted, Accepted, Settled, ParkedJobs, SavedSteps, JobAt
<1>3. MarkerInv'
  BY DEF MarkerInv, NotSubmitted, Drained, InFlight
<1>4. FailedSteps' /\ RunsPaid'
  BY DEF FailedSteps, RunsPaid, Exhausted
<1>5. SuccessIsTrue' /\ FailureIsLast'
  BY DEF SuccessIsTrue, FailureIsLast, Exhausted
<1>6. QED
  BY <1>1, <1>2, <1>3, <1>4, <1>5

\* A step that leaves all but the tracker alone, and no key of the tracker but
\* an expired one.
LEMMA IdleStep ==
    ASSUME TypeOK, IInv, UNCHANGED <<producerVars, consumerVars, queueVars, journal>>,
           \A j \in Jobs : tracker'[j] \in {tracker[j], "none"}
    PROVE  IInv'
<1> USE DEF IInv, producerVars, consumerVars, queueVars
<1>1. SubmittedFirst' /\ PublisherInv' /\ HolderInv'
  BY DEF SubmittedFirst, NotSubmitted, PublisherInv, JobAccepted, Accepted, HolderInv,
     TypeOK, ProducerTypeOK
<1>2. HandOver' /\ SavedSteps'
  BY DEF HandOver, Stored, JobAccepted, Accepted, Settled, ParkedJobs, SavedSteps, JobAt
<1>3. MarkerInv'
  BY DEF MarkerInv, NotSubmitted, Drained, InFlight
<1>4. FailedSteps' /\ RunsPaid'
  BY DEF FailedSteps, RunsPaid, Exhausted
<1>5. SuccessIsTrue' /\ FailureIsLast'
  BY DEF SuccessIsTrue, FailureIsLast, Exhausted
<1>6. QED
  BY <1>1, <1>2, <1>3, <1>4, <1>5

-----------------------------------------------------------------------------
(* The invariant and what follows from it                                  *)

\* The strengthened invariant holds in every behaviour: nothing of a job exists
\* before it is submitted, a held copy has one holder, a job is handed over from
\* request to outbox to broker to outcome without a gap, the marker stands for
\* the saved words, and every run of a copy but the last was counted.
THEOREM Invariance == Spec => []IInv
<1>1. Init => IInv
  BY CopyJob DEF Init, QueueInit, RecordInit, ProducerInit, ConsumerInit, IInv, SubmittedFirst,
     NotSubmitted, PublisherInv, HolderInv, HandOver, Stored, SavedSteps, MarkerInv,
     FailedSteps, RunsPaid, SuccessIsTrue, FailureIsLast
<1>2. TypeOK /\ IInv /\ [Next]_vars => IInv'
  <2> SUFFICES ASSUME TypeOK, IInv, [Next]_vars
               PROVE  IInv'
    OBVIOUS
  <2>1. CASE ProducerNext /\ UNCHANGED consumerVars
    BY <2>1, ProducerStep
  <2>2. CASE ConsumerNext /\ UNCHANGED producerVars
    BY <2>2, ConsumerStep
  <2>3. CASE EnvironmentNext
    <3>1. ASSUME NEW j \in Jobs, TrackerExpires(j),
                 UNCHANGED <<producerVars, consumerVars, queueVars>>
          PROVE  IInv'
      BY <3>1, IdleStep DEF TrackerExpires, TypeOK, RecordTypeOK
    <3>2. QED
      BY <2>3, <3>1, BrokerStep, CrashStep, CleanupStep DEF EnvironmentNext
  <2>4. CASE UNCHANGED vars
    BY <2>4, IdleStep DEF vars, recordVars
  <2>5. QED
    BY <2>1, <2>2, <2>3, <2>4 DEF Next
<1>3. QED
  BY <1>1, <1>2, TypeCorrect, PTL DEF Spec

\* A job is saved at most once, however often it is published, delivered or
\* interrupted (the marker of words.service.ts).
THEOREM AppliedOnce == Spec => []AppliedAtMostOnce
<1>1. TypeOK /\ IInv => AppliedAtMostOnce
  <2> SUFFICES ASSUME TypeOK, IInv, NEW j \in Jobs
               PROVE  saved[j] <= 1
    BY DEF AppliedAtMostOnce
  <2>1. saved[j] \in Nat
    BY DEF TypeOK, ConsumerTypeOK
  <2>2. saved[j] > 0 => saved[j] = 1
    BY DEF IInv, MarkerInv
  <2>3. QED
    BY <2>1, <2>2
<1>2. QED
  BY <1>1, TypeCorrect, Invariance, PTL

\* No stored job is lost between the request, the outbox, the broker and the
\* worker (import-outbox.service.ts, bulk-words.service.ts, retry-queue.ts).
THEOREM NothingLost == Spec => []NoJobLost
<1>1. TypeOK /\ IInv => NoJobLost
  BY CopyJob DEF TypeOK, ConsumerTypeOK, IInv, HandOver, JobAccepted, Accepted, Settled,
     NoJobLost
<1>2. QED
  BY <1>1, TypeCorrect, Invariance, PTL

\* No success is reported before the words are saved, and no failure before the
\* retries are spent (complete and fail of import-queue.service.ts).
THEOREM ReportsAreTrue == Spec => [](SuccessIsTrue /\ FailureIsLast)
<1>1. IInv => SuccessIsTrue /\ FailureIsLast
  BY DEF IInv
<1>2. QED
  BY <1>1, Invariance, PTL

\* Every attempt at a copy but the last was counted as a rejection: a job that
\* kills its worker is not retried for ever (import-queue.service.ts:93).
THEOREM RunsAreCounted == Spec => []EveryRunIsCounted
<1>1. IInv => EveryRunIsCounted
  BY DEF IInv, RunsPaid, EveryRunIsCounted
<1>2. QED
  BY <1>1, Invariance, PTL

\* A relay that is slower than its claim leaves the claim of another one alone, for any
\* number of relays (claim and release of import-outbox.service.ts).
THEOREM ClaimsAreKept == Spec => LiveClaimIsKept
<1>1. TypeOK /\ [Next]_vars => \A j \in Jobs : KeepsLiveClaim(j)
  <2> SUFFICES ASSUME TypeOK, [Next]_vars, NEW j \in Jobs,
                      claim[j] # None, j \notin stale, claim'[j] # claim[j], j \in outbox'
               PROVE  relayJob[claim[j]] = j /\ relayJob'[claim[j]] # j
    BY DEF KeepsLiveClaim
  <2> USE DEF TypeOK, ProducerTypeOK, producerVars, rowVars, relayVars
  <2>1. ASSUME NEW k \in Jobs, RequestNext(k) \/ ClockStep(k) PROVE FALSE
    BY <2>1 DEF RequestNext, ClockStep, RequestStep, OpenJob, CommitJob, CommitFails,
       ApiPublish, ApiSkipsPublish, ApiConfirmed, ApiUnconfirmed, ApiRemovesRow, RemoveRow,
       RowAges, ClaimExpires, StoreJob
  <2>2. ASSUME NEW w \in Workers, NEW k \in Jobs, RelayClaims(w, k) PROVE FALSE
    BY <2>2 DEF RelayClaims, Claimable
  <2>3. ASSUME NEW w \in Workers, RelayRemovesRow(w) PROVE FALSE
    BY <2>3 DEF RelayRemovesRow, RemoveRow
  <2>4. ASSUME NEW w \in Workers, RelayReleases(w)
        PROVE  relayJob[claim[j]] = j /\ relayJob'[claim[j]] # j
    BY <2>4, NoneAssumption DEF RelayReleases, ReleaseClaim, RelayLeaves
  <2>5. CASE ProducerNext /\ UNCHANGED consumerVars
    BY <2>1, <2>2, <2>3, <2>4, <2>5
    DEF ProducerNext, ApiCrash, RelayStep, RelayPublishes, RelaySkipsPublish, RelayConfirmed,
        RelayUnconfirmed
  <2>6. CASE EnvironmentNext
    BY <2>6 DEF EnvironmentNext, BrokerTakes, BrokerLoses, WorkerCrash, CleanupMarker
  <2>7. QED
    BY <2>5, <2>6 DEF Next, vars
<1>2. QED
  BY <1>1, TypeCorrect, PTL DEF Spec, LiveClaimIsKept

-----------------------------------------------------------------------------
(* The pipeline implements the steps of ImportJob                          *)

\* Whatever publishes a job, or delivers it, was stored with its journal row.
StoredFirst ==
    /\ \A j \in Jobs : api[j] \in ApiBusy \ {"opened"} => Stored(j)
    /\ \A j \in outbox : Stored(j)
    /\ \A w \in Workers : relayJob[w] # None => Stored(relayJob[w])
    /\ \A c \in Copies : place[c] # "unsent" => Stored(JobOf(c))

\* A request or a relay publishes no job that is not stored.
LEMMA ProducerStored ==
    ASSUME TypeOK, IInv, StoredFirst, ProducerNext, UNCHANGED consumerVars
    PROVE  StoredFirst'
<1> USE DEF ProducerEffect, StoredFirst, Stored
<1>1. ProducerEffect
  BY ProducerEffects DEF IInv
<1>2. TypeOK'
  BY ProducerType
<1>3. \A j \in Jobs : Stored(j) => Stored(j)'
  BY <1>1
<1>4. \A j \in outbox' : Stored(j)'
  BY <1>1, <1>2, <1>3 DEF TypeOK, ProducerTypeOK
<1>5. \A j \in Jobs : (api[j] \in ApiBusy \ {"opened"} => Stored(j))'
  BY <1>1, <1>3, <1>4
<1>6. \A w \in Workers : (relayJob[w] # None => Stored(relayJob[w]))'
  BY <1>1, <1>2, <1>3 DEF TypeOK, ProducerTypeOK
<1>7. \A c \in Copies : (place[c] # "unsent" => Stored(JobOf(c)))'
  <2> SUFFICES ASSUME NEW c \in Copies, place'[c] # "unsent"
               PROVE  Stored(JobOf(c))'
    OBVIOUS
  <2>1. JobOf(c) \in Jobs
    BY CopyJob
  <2>2. Stored(JobOf(c))
    BY <1>1, <2>1, NoneAssumption DEF ApiBusy
  <2>3. QED
    BY <1>3, <2>1, <2>2
<1>8. QED
  BY <1>4, <1>5, <1>6, <1>7

\* Nothing of a job exists before it is stored, whatever step is taken.
LEMMA StoredStep == TypeOK /\ IInv /\ StoredFirst /\ [Next]_vars => StoredFirst'
<1> SUFFICES ASSUME TypeOK, IInv, StoredFirst, [Next]_vars
             PROVE  StoredFirst'
  OBVIOUS
<1>1. CASE ProducerNext /\ UNCHANGED consumerVars
  BY <1>1, ProducerStored
<1>2. CASE ConsumerNext /\ UNCHANGED producerVars
  BY <1>2, ConsumerEffects, CopyJob
  DEF ConsumerEffect, StoredFirst, producerVars, TypeOK, ProducerTypeOK
<1>3. CASE EnvironmentNext
  <2>1. ASSUME NEW c \in Copies, BrokerTakes(c) \/ BrokerLoses(c) PROVE StoredFirst'
    BY <2>1 DEF StoredFirst, Stored, BrokerTakes, BrokerLoses, BrokerAccepts, RetryElapsed,
       WireLoses, MoveCopy, producerVars, recordVars, TypeOK, QueueTypeOK
  <2>2. ASSUME NEW w \in Workers, WorkerCrash(w) PROVE StoredFirst'
    BY <2>2 DEF StoredFirst, Stored, WorkerCrash, RequeuedIn, rowVars, recordVars,
       TypeOK, ProducerTypeOK, IInv, HolderInv
  <2>3. ASSUME NEW j \in Jobs, CleanupMarker(j) PROVE StoredFirst'
    BY <2>3 DEF StoredFirst, Stored, CleanupMarker, producerVars, queueVars, recordVars
  <2>4. ASSUME NEW j \in Jobs, TrackerExpires(j),
               UNCHANGED <<producerVars, consumerVars, queueVars>>
        PROVE  StoredFirst'
    BY <2>4 DEF StoredFirst, Stored, TrackerExpires, producerVars, queueVars
  <2>5. QED
    BY <1>3, <2>1, <2>2, <2>3, <2>4 DEF EnvironmentNext
<1>4. CASE UNCHANGED vars
  BY <1>4 DEF StoredFirst, Stored, vars, producerVars, queueVars, recordVars
<1>5. QED
  BY <1>1, <1>2, <1>3, <1>4 DEF Next

\* What a request stores becomes an accepted job; publishing changes nothing more.
LEMMA ProducerSimulates ==
    ASSUME TypeOK, IInv, ProducerNext, UNCHANGED consumerVars
    PROVE  [Promise!JobNext]_Promise!jobVars
<1>1. ProducerEffect
  BY ProducerEffects DEF IInv
<1>2. UNCHANGED <<saved, ParkedJobs>>
  BY <1>1 DEF ProducerEffect, ParkedJobs, consumerVars
<1>3. CASE UNCHANGED journal
  BY <1>2, <1>3 DEF Promise!jobVars, Stored
<1>4. ASSUME NEW j \in Jobs, StartJournal(j)
      PROVE  [Promise!JobNext]_Promise!jobVars
  <2>1. {k \in Jobs : Stored(k)}' = {k \in Jobs : Stored(k)} \cup {j}
    BY <1>4 DEF StartJournal, Stored, TypeOK, RecordTypeOK
  <2>2. CASE Stored(j)
    BY <1>2, <2>1, <2>2 DEF Promise!jobVars
  <2>3. CASE ~Stored(j)
    BY <1>2, <2>1, <2>3 DEF Promise!JobNext, Promise!Accept
  <2>4. QED
    BY <2>2, <2>3
<1>5. QED
  BY <1>1, <1>3, <1>4 DEF ProducerEffect

\* The transaction of a worker is the one step that saves the job it runs.
LEMMA SaveSimulates ==
    ASSUME TypeOK, IInv, StoredFirst, NEW w \in Workers, step[w] # "idle",
           ApplyOnce(JobAt(w)), UNCHANGED <<journal, parked>>
    PROVE  [Promise!JobNext]_Promise!jobVars
<1> DEFINE j == JobAt(w)
<1>1. j \in Jobs /\ (j \in marker \/ saved[j] = 0)
  BY FreshJob DEF IInv
<1>2. handling[w] \in Copies /\ place[handling[w]] = "held"
  BY BusyJob DEF IInv, HolderInv
<1>3. Stored(j)
  BY <1>2 DEF StoredFirst, JobAt
<1>4. UNCHANGED <<{k \in Jobs : Stored(k)}, ParkedJobs>>
  BY DEF Stored, ParkedJobs
<1>5. CASE j \in marker
  BY <1>4, <1>5 DEF ApplyOnce, Promise!jobVars
<1>6. CASE j \notin marker
  <2>1. saved' = [saved EXCEPT ![j] = 1] /\ saved[j] = 0
    BY <1>1, <1>6 DEF ApplyOnce, TypeOK, ConsumerTypeOK
  <2>2. QED
    BY <1>1, <1>3, <1>4, <2>1 DEF Promise!JobNext, Promise!Save
<1>7. QED
  BY <1>5, <1>6

\* A parked message of a job that was stored.
LEMMA ParkSimulates ==
    ASSUME TypeOK, IInv, StoredFirst, NEW w \in Workers, step[w] # "idle",
           Park(handling[w]) \/ UNCHANGED parked, UNCHANGED <<journal, saved>>
    PROVE  [Promise!JobNext]_Promise!jobVars
<1> DEFINE j == JobAt(w)
<1>1. j \in Jobs /\ handling[w] \in Copies /\ place[handling[w]] = "held"
  BY BusyJob DEF IInv, HolderInv
<1>2. Stored(j)
  BY <1>1 DEF StoredFirst, JobAt
<1>3. ParkedJobs' \in {ParkedJobs, ParkedJobs \cup {j}}
  BY DEF Park, ParkedJobs, JobAt
<1>4. UNCHANGED <<{k \in Jobs : Stored(k)}, saved>>
  BY DEF Stored
<1>5. CASE UNCHANGED ParkedJobs
  BY <1>4, <1>5 DEF Promise!jobVars
<1>6. CASE ~UNCHANGED ParkedJobs
  BY <1>1, <1>2, <1>3, <1>4, <1>6 DEF Promise!JobNext, Promise!ParkJob
<1>7. QED
  BY <1>5, <1>6

\* A step of a worker is a step of ImportJob, or none.
LEMMA ConsumerSimulates ==
    ASSUME TypeOK, IInv, StoredFirst, ConsumerNext, UNCHANGED producerVars
    PROVE  [Promise!JobNext]_Promise!jobVars
<1> USE DEF WorkerGoes, WorkerLeaves, queueVars, recordVars
<1>0. ASSUME UNCHANGED <<saved, parked>> PROVE [Promise!JobNext]_Promise!jobVars
  BY <1>0, ConsumerEffects DEF ConsumerEffect, ParkedJobs, Promise!jobVars
<1>1. ASSUME NEW w \in Workers, SaveWords(w) PROVE [Promise!JobNext]_Promise!jobVars
  BY <1>1, SaveSimulates DEF SaveWords
<1>2. ASSUME NEW w \in Workers, RunFails(w) PROVE [Promise!JobNext]_Promise!jobVars
  BY <1>0, <1>2, SaveSimulates DEF RunFails
<1>3. ASSUME NEW w \in Workers, ParkConfirmed(w) PROVE [Promise!JobNext]_Promise!jobVars
  BY <1>3, ParkSimulates DEF ParkConfirmed
<1>4. ASSUME NEW w \in Workers, ParkUnconfirmed(w) PROVE [Promise!JobNext]_Promise!jobVars
  BY <1>4, ParkSimulates DEF ParkUnconfirmed
<1>5. ASSUME NEW w \in Workers, NEW c \in Copies, Receive(w, c)
      PROVE  UNCHANGED <<saved, parked>>
  BY <1>5 DEF Receive, Deliver
<1>6. ASSUME NEW w \in Workers,
             \/ InterruptedApplied(w) \/ InterruptedNotApplied(w) \/ HandlerThrows(w)
             \/ BeginRun(w) \/ CheckApplied(w) \/ TrackCompleted(w) \/ NoteSucceeded(w)
             \/ AckCopy(w) \/ TrackFailure(w) \/ NoteFailed(w) \/ RejectCopy(w)
      PROVE  UNCHANGED <<saved, parked>>
  BY <1>6 DEF InterruptedApplied, InterruptedNotApplied, HandlerThrows, BeginRun, CheckApplied,
     TrackCompleted, NoteSucceeded, AckCopy, Ack, TrackFailure, NoteFailed, RejectCopy
<1>7. QED
  BY <1>0, <1>1, <1>2, <1>3, <1>4, <1>5, <1>6 DEF ConsumerNext, ReceiveAny, HandlerStep

\* The pipeline takes no step that ImportJob does not take: a job is accepted once,
\* saved once and only after it was accepted, and parked jobs stay parked, whatever
\* publishers, broker, workers and crashes do (bulk-words.service.ts,
\* import-outbox.service.ts, import-queue.service.ts).  With the liveness that
\* TLC checks this is PromiseKept.
THEOREM PromiseSteps == Spec => Promise!JobInit /\ [][Promise!JobNext]_Promise!jobVars
<1>1. Init => Promise!JobInit
  BY DEF Init, QueueInit, RecordInit, ConsumerInit, Promise!JobInit, Stored, ParkedJobs
<1>2. Init => StoredFirst
  BY DEF Init, QueueInit, RecordInit, ProducerInit, StoredFirst, ApiBusy
<1>3. TypeOK /\ IInv /\ StoredFirst /\ [Next]_vars => [Promise!JobNext]_Promise!jobVars
  <2> SUFFICES ASSUME TypeOK, IInv, StoredFirst, [Next]_vars
               PROVE  [Promise!JobNext]_Promise!jobVars
    OBVIOUS
  <2>1. CASE ProducerNext /\ UNCHANGED consumerVars
    BY <2>1, ProducerSimulates
  <2>2. CASE ConsumerNext /\ UNCHANGED producerVars
    BY <2>2, ConsumerSimulates
  <2>3. CASE EnvironmentNext
    <3>1. UNCHANGED <<journal, saved, parked>>
      BY <2>3 DEF EnvironmentNext, BrokerTakes, BrokerLoses, BrokerAccepts, RetryElapsed,
         WireLoses, WorkerCrash, RequeuedIn, CleanupMarker, TrackerExpires,
         consumerVars, queueVars, recordVars
    <3>2. QED
      BY <3>1 DEF Promise!jobVars, Stored, ParkedJobs
  <2>4. CASE UNCHANGED vars
    BY <2>4 DEF vars, consumerVars, queueVars, recordVars, Promise!jobVars, Stored, ParkedJobs
  <2>5. QED
    BY <2>1, <2>2, <2>3, <2>4 DEF Next
<1>4. QED
  BY <1>1, <1>2, <1>3, StoredStep, TypeCorrect, Invariance, PTL DEF Spec

-----------------------------------------------------------------------------
(* The words of an import                                                  *)

\* InOrder lists every member of a finite set of numbers, each once.
LEMMA InOrderLists ==
  ASSUME NEW S \in SUBSET Nat, IsFiniteSet(S)
  PROVE  /\ InOrder(S) \in Seq(S) /\ DOMAIN InOrder(S) = 1..Cardinality(S)
         /\ \A i, j \in DOMAIN InOrder(S) : InOrder(S)[i] = InOrder(S)[j] => i = j
         /\ \A k \in S : \E i \in DOMAIN InOrder(S) : InOrder(S)[i] = k
         /\ S = {} => InOrder(S) = <<>>
<1> DEFINE n == Cardinality(S)
           Upto(k) == {m \in S : m <= k}
           r == [k \in S |-> Cardinality(Upto(k))]
<1>1. n \in Nat
  BY FS_CardinalityType
<1>2. \A k \in S : IsFiniteSet(Upto(k)) /\ Cardinality(Upto(k)) \in 1..n
  <2> SUFFICES ASSUME NEW k \in S
               PROVE  IsFiniteSet(Upto(k)) /\ Cardinality(Upto(k)) \in 1..n
    OBVIOUS
  <2> DEFINE T == Upto(k)
  <2>1. T \in SUBSET S /\ k \in T
    OBVIOUS
  <2> HIDE DEF T
  <2>2. IsFiniteSet(T) /\ Cardinality(T) <= Cardinality(S)
    BY <2>1, FS_Subset
  <2>3. Cardinality(T) \in Nat /\ Cardinality(T) # 0
    BY <2>1, <2>2, FS_CardinalityType, FS_EmptySet
  <2>4. Cardinality(T) \in 1..n
    BY <1>1, <2>2, <2>3
  <2> QED
    BY <2>2, <2>4 DEF T
<1>3. \A k, l \in S : k < l => r[k] # r[l]
  <2> SUFFICES ASSUME NEW k \in S, NEW l \in S, k < l
               PROVE  Cardinality(Upto(k)) # Cardinality(Upto(l))
    OBVIOUS
  <2> DEFINE T == Upto(k)
             U == Upto(l)
  <2>1. T \in SUBSET U /\ l \in U /\ l \notin T
    <3>1. k \in Nat /\ l \in Nat
      OBVIOUS
    <3>2. \A m \in S : m \in Nat /\ (m <= k => m <= l)
      BY <3>1
    <3>3. T \subseteq U
      BY <3>2
    <3>4. l \in U /\ l \notin T
      BY <3>1
    <3> QED
      BY <3>3, <3>4
  <2>2. IsFiniteSet(U)
    BY <1>2
  <2> HIDE DEF T, U
  <2>3. Cardinality(U) # Cardinality(T)
    BY <2>1, <2>2, FS_Subset
  <2> QED
    BY <2>3 DEF T, U
<1>4. r \in Injection(S, 1..n)
  <2>1. r \in [S -> 1..n]
    BY <1>2
  <2>2. \A k, l \in S : r[k] = r[l] => k = l
    <3> SUFFICES ASSUME NEW k \in S, NEW l \in S, k # l
                 PROVE  r[k] # r[l]
      OBVIOUS
    <3>1. k < l \/ l < k
      OBVIOUS
    <3> QED
      BY <1>3, <3>1
  <2> HIDE DEF r
  <2>3. IsInjective(r)
    BY <2>1, <2>2 DEF IsInjective
  <2> QED
    BY <2>1, <2>3 DEF Injection
<1>5. r \in Surjection(S, 1..n)
  <2>1. IsFiniteSet(1..n) /\ Cardinality(1..n) = n
    BY <1>1, FS_Interval
  <2> HIDE DEF r
  <2>2. Cardinality(S) = Cardinality(1..n) <=> r \in Surjection(S, 1..n)
    BY <1>4, <2>1, FS_Injection
  <2> QED
    BY <2>1, <2>2
<1>6. \A i \in 1..n : \E k \in S : r[k] = i
  <2> HIDE DEF r
  <2> QED
    BY <1>5 DEF Surjection
<1>7. \A k, l \in S : r[k] = r[l] => k = l
  <2> HIDE DEF r
  <2> QED
    BY <1>4 DEF Injection, IsInjective
<1> DEFINE s == [i \in 1..n |-> CHOOSE k \in S : Cardinality({m \in S : m <= k}) = i]
<1>8. InOrder(S) = s
  BY DEF InOrder
<1>9. \A i \in 1..n : s[i] \in S /\ r[s[i]] = i
  <2> SUFFICES ASSUME NEW i \in 1..n
               PROVE  s[i] \in S /\ r[s[i]] = i
    OBVIOUS
  <2>1. \E k \in S : Cardinality({m \in S : m <= k}) = i
    BY <1>6
  <2>2. s[i] \in S /\ Cardinality({m \in S : m <= s[i]}) = i
    BY <2>1
  <2> QED
    BY <2>2
<1>10. \A k \in S : r[k] \in 1..n
  <2> HIDE DEF r
  <2> QED
    BY <1>5 DEF Surjection
<1>11. s \in [1..n -> S]
  BY <1>9
<1>12. DOMAIN s = 1..n
  OBVIOUS
<1>13. s \in Seq(S)
  <2> HIDE DEF s, n
  <2> QED
    BY <1>1, <1>11, IsASeq
<1>14. \A i, j \in DOMAIN s : s[i] = s[j] => i = j
  <2> HIDE DEF s, r, n
  <2> QED
    BY <1>9, <1>12
<1>15. \A k \in S : \E i \in DOMAIN s : s[i] = k
  <2> HIDE DEF s, r, n
  <2> QED
    BY <1>7, <1>9, <1>10, <1>12
<1>16. S = {} => s = <<>>
  <2>1. ASSUME S = {}
        PROVE  n = 0
    BY <2>1, FS_EmptySet
  <2> HIDE DEF s, n
  <2>2. Len(s) = n
    BY <1>1, <1>11, <1>12, <1>13, LenProperties
  <2> QED
    BY <1>13, <2>1, <2>2, EmptySeq
<1> HIDE DEF s
<1> QED
  BY <1>8, <1>12, <1>13, <1>14, <1>15, <1>16

\* The rows of a sheet that hold a word, one after another.
LEMMA WordRowsAre ==
  ASSUME NEW f \in Submissions
  PROVE  /\ WordRows(f.rows) \in Seq(Titled(f.rows)) /\ Len(WordRows(f.rows)) \in Nat
         /\ DOMAIN WordRows(f.rows) = 1..Len(WordRows(f.rows))
         /\ Titled(f.rows) \subseteq DOMAIN f.rows /\ DOMAIN f.rows \subseteq Nat
         /\ \A i \in DOMAIN WordRows(f.rows) : WordRows(f.rows)[i] \in Titled(f.rows)
         /\ \A i, j \in DOMAIN WordRows(f.rows) : WordRows(f.rows)[i] = WordRows(f.rows)[j] => i = j
         /\ \A k \in Titled(f.rows) : \E i \in DOMAIN WordRows(f.rows) : WordRows(f.rows)[i] = k
         /\ \A k \in DOMAIN f.rows : f.rows[k] \in RowKinds
<1>1. f.rows \in Sheets
  BY DEF Submissions
<1>2. PICK n \in 0..MaxSheet : f.rows \in [1..n -> RowKinds]
  BY <1>1 DEF Sheets
<1>3. DOMAIN f.rows = 1..n /\ \A k \in 1..n : f.rows[k] \in RowKinds
  BY <1>2
<1>4. n \in Nat /\ IsFiniteSet(1..n)
  BY <1>2, FS_Interval
<1> DEFINE S == Titled(f.rows)
<1>5. S \subseteq 1..n
  BY <1>3 DEF Titled, Filled
<1> HIDE DEF S
<1>6. S \in SUBSET Nat /\ IsFiniteSet(S)
  <2>1. S \in SUBSET (1..n) /\ 1..n \subseteq Nat
    BY <1>4, <1>5
  <2> QED
    BY <1>4, <2>1, FS_Subset
<1> DEFINE s == InOrder(S)
<1>7. /\ s \in Seq(S)
      /\ \A i, j \in DOMAIN s : s[i] = s[j] => i = j
      /\ \A k \in S : \E i \in DOMAIN s : s[i] = k
  BY <1>6, InOrderLists
<1> HIDE DEF s
<1>8. Len(s) \in Nat /\ DOMAIN s = 1..Len(s) /\ \A i \in DOMAIN s : s[i] \in S
  BY <1>7, LenProperties, ElementOfSeq
<1>9. s = WordRows(f.rows)
  BY DEF s, S, WordRows
<1>10. S = Titled(f.rows)
  BY DEF S
<1>11. /\ s \in Seq(S) /\ Len(s) \in Nat /\ DOMAIN s = 1..Len(s) /\ S \subseteq DOMAIN f.rows
       /\ DOMAIN f.rows \subseteq Nat /\ \A k \in DOMAIN f.rows : f.rows[k] \in RowKinds
  BY <1>3, <1>4, <1>5, <1>7, <1>8
<1> QED
  BY <1>7, <1>8, <1>9, <1>10, <1>11

\* What a run starts from are the words of its submission.
LEMMA ParsedWords ==
  ASSUME NEW f \in Submissions
  PROVE  WordsOf(Parsed(f), f)
<1> DEFINE rows == f.rows
           s == WordRows(f.rows)
           n == Len(s)
           ws == Parsed(f)
<1>1. /\ n \in Nat /\ DOMAIN s = 1..n /\ \A i \in 1..n : s[i] \in Nat
  BY WordRowsAre
<1>2. ws = [i \in 1..n |-> [row |-> s[i], example |-> IF rows[s[i]] = "given" THEN Example("own", s[i]) ELSE None]]
  BY <1>1 DEF Parsed
<1>3. \A i \in 1..n : Example("own", s[i]) \in Examples /\ Example("own", s[i]).row = s[i]
  BY <1>1 DEF Example, Examples
<1>4. \A i \in 1..n : /\ ws[i] \in EnrichedWords /\ ws[i].row = s[i]
                      /\ ws[i].example = IF rows[s[i]] = "given" THEN Example("own", s[i]) ELSE None
  <2> HIDE DEF s, n, rows
  <2>1. \A i \in 1..n : ws[i] = [row |-> s[i], example |-> IF rows[s[i]] = "given" THEN Example("own", s[i]) ELSE None]
    BY <1>2
  <2>2. \A i \in 1..n : (IF rows[s[i]] = "given" THEN Example("own", s[i]) ELSE None) \in Examples \cup {None}
    BY <1>3
  <2> HIDE DEF ws
  <2> QED
    <3> SUFFICES ASSUME NEW i \in 1..n
                 PROVE  /\ ws[i] \in EnrichedWords /\ ws[i].row = s[i]
                        /\ ws[i].example = IF rows[s[i]] = "given" THEN Example("own", s[i]) ELSE None
      OBVIOUS
    <3> DEFINE e == IF rows[s[i]] = "given" THEN Example("own", s[i]) ELSE None
    <3>1. ws[i] = [row |-> s[i], example |-> e] /\ e \in Examples \cup {None} /\ s[i] \in Nat
      BY <1>1, <2>1, <2>2
    <3> HIDE DEF e
    <3>2. ws[i] \in EnrichedWords /\ ws[i].row = s[i] /\ ws[i].example = e
      BY <3>1 DEF EnrichedWords
    <3> QED
      BY <3>2 DEF e
<1>5. DOMAIN ws = 1..n /\ ws \in [1..n -> EnrichedWords]
  <2> HIDE DEF s, n, rows
  <2>1. ws = [i \in 1..n |-> ws[i]]
    BY <1>2
  <2> HIDE DEF ws
  <2> QED
    BY <1>4, <2>1
<1>6. ws \in Seq(EnrichedWords)
  <2> HIDE DEF ws, n
  <2> QED
    BY <1>1, <1>5, IsASeq
<1>7. \A i \in 1..n : /\ ws[i].example # None => ws[i].example.row = ws[i].row \/ ws[i].example.origin = "stray"
                      /\ rows[ws[i].row] = "given" => ws[i].example # None
  <2> HIDE DEF ws, s, n, rows
  <2> QED
    BY <1>3, <1>4, IntakeAssumption
<1> QED
  BY <1>1, <1>4, <1>5, <1>6, <1>7 DEF WordsOf

\* Whatever Gemini sends, the example of a word is its own or a stray one.
LEMMA CompletedWords ==
  ASSUME NEW f, WordsOf(batch, f), NEW ids, NEW origin \in {"made", "fixed"}, Completed(ids, origin)
  PROVE  WordsOf(batch', f)
<1>1. PICK answered \in SUBSET {ids[j] : j \in DOMAIN ids}, strays \in SUBSET DOMAIN batch :
        batch' = [i \in DOMAIN batch |->
            IF i \in strays THEN [batch[i] EXCEPT !.example = Example("stray", 0)]
            ELSE IF i \in answered
                 THEN [batch[i] EXCEPT !.example = Example(origin, batch[i].row)]
            ELSE batch[i]]
  BY DEF Completed
<1>2. /\ batch \in Seq(EnrichedWords) /\ Len(batch) \in Nat /\ DOMAIN batch = 1..Len(batch)
      /\ \A i \in DOMAIN batch : batch[i] \in EnrichedWords
  BY LenProperties, ElementOfSeq DEF WordsOf
<1>3. \A i \in DOMAIN batch :
        /\ batch'[i] \in EnrichedWords /\ batch'[i].row = batch[i].row
        /\ \/ batch'[i] = batch[i]
           \/ batch'[i].example = Example(origin, batch[i].row)
           \/ batch'[i].example = Example("stray", 0)
  <2> SUFFICES ASSUME NEW i \in DOMAIN batch
               PROVE  /\ batch'[i] \in EnrichedWords /\ batch'[i].row = batch[i].row
                      /\ \/ batch'[i] = batch[i]
                         \/ batch'[i].example = Example(origin, batch[i].row)
                         \/ batch'[i].example = Example("stray", 0)
    OBVIOUS
  <2>1. ASSUME NEW e \in Examples, batch'[i] = [batch[i] EXCEPT !.example = e]
        PROVE  batch'[i] \in EnrichedWords /\ batch'[i].row = batch[i].row /\ batch'[i].example = e
    <3>1. batch[i] \in EnrichedWords
      BY <1>2
    <3> QED
      BY <2>1, <3>1 DEF EnrichedWords
  <2>2. Example(origin, batch[i].row) \in Examples /\ Example("stray", 0) \in Examples
    BY <1>2 DEF EnrichedWords, Example, Examples
  <2>3. \/ batch'[i] = [batch[i] EXCEPT !.example = Example("stray", 0)]
        \/ batch'[i] = [batch[i] EXCEPT !.example = Example(origin, batch[i].row)]
        \/ batch'[i] = batch[i]
    BY <1>1
  <2> QED
    BY <1>2, <2>1, <2>2, <2>3
<1>4. DOMAIN batch' = DOMAIN batch /\ batch' \in Seq(EnrichedWords)
  <2>1. DOMAIN batch' = 1..Len(batch)
    BY <1>1, <1>2
  <2>2. batch' = [i \in 1..Len(batch) |-> batch'[i]]
    BY <1>1, <1>2
  <2>3. batch' \in [1..Len(batch) -> EnrichedWords]
    BY <1>2, <1>3, <2>2
  <2> QED
    BY <1>2, <2>1, <2>3, IsASeq
<1>5. \A i \in DOMAIN batch' :
        /\ batch'[i].row = WordRows(f.rows)[i]
        /\ batch'[i].example # None =>
              batch'[i].example.row = batch'[i].row \/ batch'[i].example.origin = "stray"
        /\ f.rows[batch'[i].row] = "given" => batch'[i].example # None
  <2> SUFFICES ASSUME NEW i \in DOMAIN batch
               PROVE  /\ batch'[i].row = WordRows(f.rows)[i]
                      /\ batch'[i].example # None =>
                            batch'[i].example.row = batch'[i].row \/ batch'[i].example.origin = "stray"
                      /\ f.rows[batch'[i].row] = "given" => batch'[i].example # None
    BY <1>4
  <2>1. /\ batch[i].row = WordRows(f.rows)[i]
        /\ batch[i].example # None =>
              batch[i].example.row = batch[i].row \/ batch[i].example.origin = "stray"
        /\ f.rows[batch[i].row] = "given" => batch[i].example # None
    BY DEF WordsOf
  <2>2. CASE batch'[i] = batch[i]
    BY <2>1, <2>2
  <2>3. CASE batch'[i].example = Example(origin, batch[i].row)
    <3>1. Example(origin, batch[i].row) \in Examples /\ Example(origin, batch[i].row).row = batch[i].row
      BY <1>2 DEF EnrichedWords, Example, Examples
    <3> QED
      BY <1>3, <2>1, <2>3, <3>1, IntakeAssumption
  <2>4. CASE batch'[i].example = Example("stray", 0)
    <3>1. Example("stray", 0) \in Examples /\ Example("stray", 0).origin = "stray"
      BY DEF Example, Examples
    <3> QED
      BY <1>3, <2>1, <2>4, <3>1, IntakeAssumption
  <2> QED
    BY <1>3, <2>2, <2>3, <2>4
<1> QED
  BY <1>4, <1>5 DEF WordsOf

\* A submission that has saved nothing yet, or never will.
LEMMA NothingSaved ==
  ASSUME IntakeTypeOK', staged' = <<>>, package' = <<>>,
         intake' \notin {"enriching", "saving", "reporting"}, told' # "saved"
  PROVE  IntakeInv'
<1>1. RunIsFiled'
  BY EmptySeq DEF RunIsFiled
<1>2. PackageIsFiled'
  BY DEF PackageIsFiled
<1> QED
  BY <1>1, <1>2 DEF IntakeInv

\* What the page and the API do before a run and after it.
LEMMA SubmissionSteps ==
  ASSUME IntakeInv,
         Pick \/ Edits \/ Submits \/ LosesTrack \/ Rejects \/ Admits \/ AdmitFails \/ AdmitsUnanswered
  PROVE  IntakeInv'
<1> USE DEF IntakeInv, IntakeSteps
<1>1. /\ IntakeTypeOK /\ (intake # "saving" => staged = <<>>)
      /\ (intake = "posted" => package = <<>>)
  BY DEF RunIsFiled, PackageIsFiled
<1>2. \A o \in Outcomes : o # None
  BY IntakeAssumption
<1>3. CASE Pick
  <2>1. typed' \in Submissions
    <3>1. CardLists \subseteq Sheets
      BY DEF CardLists, Sheets, RowKinds
    <3> QED
      BY <1>3, <3>1 DEF Pick, Submissions
  <2>2. UNCHANGED <<filed, told, intake, batch, staged, added, package, unanswered>>
    BY <1>3 DEF Pick, runVars, keptVars
  <2>3. IntakeTypeOK'
    BY <1>1, <1>2, <1>3, <2>1, <2>2 DEF IntakeTypeOK, Pick, Outcomes
  <2>4. RunIsFiled' /\ PackageIsFiled'
    BY <2>2 DEF RunIsFiled, PackageIsFiled
  <2> QED
    BY <2>3, <2>4
<1>4. CASE Edits
  <2>1. /\ intake' = "idle" /\ intake = "idle" /\ staged' = staged /\ package' = <<>> /\ unanswered' = FALSE
        /\ typed' = None /\ filed' = None /\ told' = None
    BY <1>4 DEF Edits, Afresh, runVars
  <2>2. IntakeTypeOK'
    BY <1>2, <2>1 DEF IntakeTypeOK, Outcomes
  <2> QED
    BY <1>1, <1>2, <2>1, <2>2, NothingSaved DEF Outcomes
<1>5. CASE Submits
  <2>1. /\ intake' = "posted" /\ intake = "idle" /\ staged' = staged /\ package' = <<>> /\ unanswered' = FALSE
        /\ typed' = typed /\ filed' = typed /\ told' = None /\ typed # None
    BY <1>5 DEF Submits, Afresh, runVars
  <2>2. IntakeTypeOK'
    BY <1>1, <1>2, <2>1 DEF IntakeTypeOK, Outcomes
  <2> QED
    BY <1>1, <1>2, <2>1, <2>2, NothingSaved DEF Outcomes
<1>6. CASE LosesTrack
  <2>1. /\ told' = "unsure" /\ typed' = typed /\ filed' = filed /\ intake' = intake /\ intake # "idle"
        /\ UNCHANGED <<batch, staged, added, package, unanswered>>
    BY <1>6 DEF LosesTrack, Tells, runVars, keptVars
  <2>2. IntakeTypeOK'
    BY <1>1, <2>1 DEF IntakeTypeOK, Outcomes
  <2>3. RunIsFiled'
    BY <2>1 DEF RunIsFiled, WordsOf
  <2>4. PackageIsFiled'
    BY <2>1 DEF PackageIsFiled, WordsOf
  <2> QED
    BY <2>2, <2>3, <2>4
<1>7. ASSUME intake = "posted" PROVE told \in {None, "unsure"} \/ (told = "failed" /\ unanswered)
  BY <1>1, <1>7 DEF IntakeTypeOK
<1>8. CASE Rejects \/ AdmitFails
  <2>1. /\ intake' = "idle" /\ staged' = <<>> /\ filed' = filed /\ package' = <<>> /\ unanswered' = unanswered
        /\ typed' = typed /\ told' \in {"unsure", "refused", "failed"}
    BY <1>1, <1>7, <1>8 DEF Rejects, AdmitFails, Failing, NoRun, Replies, Tells, submitVars, keptVars
  <2>2. IntakeTypeOK'
    BY <1>1, <2>1 DEF IntakeTypeOK, Outcomes
  <2> QED
    BY <2>1, <2>2, NothingSaved
<1>9. CASE Admits \/ AdmitsUnanswered
  <2>1. /\ intake = "posted" /\ intake' = "due" /\ staged' = <<>> /\ filed' = filed /\ package' = <<>>
        /\ typed' = typed /\ ~Invalid(filed)
        /\ \/ told' = told /\ unanswered' = unanswered
           \/ told' \in {told, "failed"} /\ unanswered' = TRUE
    BY <1>1, <1>9 DEF Admits, AdmitsUnanswered, Replies, Tells, submitVars, runVars, keptVars
  <2>2. /\ told' \in {None, "unsure"} \/ (told' = "failed" /\ unanswered')
        /\ unanswered' \in BOOLEAN
    <3>1. /\ unanswered \in BOOLEAN
          /\ told \in {None, "unsure"} \/ (told = "failed" /\ unanswered)
      BY <1>1, <1>7, <2>1 DEF IntakeTypeOK
    <3>2. CASE told' = told /\ unanswered' = unanswered
      BY <3>1, <3>2
    <3>3. CASE told' \in {told, "failed"} /\ unanswered' = TRUE
      <4>1. unanswered'
        BY <3>3
      <4>2. told' \in {None, "unsure", "failed"}
        BY <3>1, <3>3
      <4>3. unanswered' \in BOOLEAN
        BY <3>3
      <4> QED
        BY <4>1, <4>2, <4>3
    <3> QED
      BY <2>1, <3>2, <3>3
  <2>3. told' # "saved"
    BY <1>2, <2>2 DEF Outcomes
  <2>4. IntakeTypeOK'
    BY <1>1, <2>1, <2>2, <2>3 DEF IntakeTypeOK, Outcomes
  <2> QED
    BY <2>1, <2>3, <2>4, NothingSaved
<1> QED
  BY <1>3, <1>4, <1>5, <1>6, <1>8, <1>9

\* A run that failed leaves the words of its job, if its transaction had committed unanswered.
LEMMA FailedRun ==
  ASSUME IntakeInv, intake \in {"due", "enriching", "saving"}, Retries,
         unanswered' \in BOOLEAN, unanswered => unanswered',
         package' # <<>> => unanswered' /\ WordsOf(package', filed)
  PROVE  IntakeInv'
<1> USE DEF IntakeInv, IntakeSteps
<1>1. /\ IntakeTypeOK /\ filed \in Submissions \cup {None} /\ filed # None /\ ~Invalid(filed)
      /\ told \in {None, "unsure"} \/ (told = "failed" /\ unanswered)
  BY DEF IntakeTypeOK
<1>2. \A o \in Outcomes : o # None
  BY IntakeAssumption
<1>3. staged' = <<>> /\ filed' = filed
  BY DEF Retries, Failing, NoRun, Replies, Tells, submitVars
<1>4. \/ intake' = "due" /\ told' = told /\ typed' = typed
      \/ intake' = "idle" /\ told' \in {"unsure", "failed"} /\ typed' = typed
  BY <1>1 DEF Retries, Failing, NoRun, Replies, Tells, submitVars
<1>5. told' \notin {"saved", "refused"}
  BY <1>1, <1>2, <1>4 DEF Outcomes
<1>6. IntakeTypeOK'
  BY <1>1, <1>3, <1>4, <1>5 DEF IntakeTypeOK, Outcomes
<1>7. RunIsFiled'
  BY <1>3, <1>4, EmptySeq DEF RunIsFiled
<1>8. PackageIsFiled'
  BY <1>1, <1>3, <1>4, <1>5 DEF PackageIsFiled, WordsOf
<1> QED
  BY <1>6, <1>7, <1>8

\* A run: its words, its examples, its transaction and its report.
LEMMA RunSteps ==
  ASSUME IntakeInv,
         FindsApplied \/ BeginsRun \/ MakesExamples \/ FixesExamples \/ OpensTransaction \/ SavesWord
           \/ Deadlocks \/ Commits \/ RunIsRejected \/ CommitsUnanswered \/ ReportsSaved
  PROVE  IntakeInv'
<1> USE DEF IntakeInv, IntakeSteps
<1>1. /\ IntakeTypeOK /\ (intake # "saving" => staged = <<>>) /\ staged \in Seq(EnrichedWords)
      /\ (intake \in {"enriching", "saving"} => WordsOf(batch, filed) /\ package = <<>>)
      /\ (package # <<>> => WordsOf(package, filed))
      /\ (intake = "due" => package = <<>> \/ unanswered)
  BY DEF RunIsFiled, PackageIsFiled
<1>2. /\ intake \in {"due", "enriching", "saving", "reporting"}
      /\ filed \in Submissions /\ ~Invalid(filed)
      /\ told \in {None, "unsure"} \/ (told = "failed" /\ unanswered)
  <2>1. intake \in {"due", "enriching", "saving", "reporting"}
    BY DEF FindsApplied, BeginsRun, MakesExamples, FixesExamples, OpensTransaction, SavesWord, Deadlocks,
       RunIsRejected, Commits, CommitsUnanswered, ReportsSaved
  <2> QED
    BY <1>1, <2>1 DEF IntakeTypeOK
<1>3. told \notin {"saved", "refused"}
  BY <1>2, IntakeAssumption DEF Outcomes
<1>4. ASSUME intake' \in {"enriching", "saving"}, UNCHANGED <<submitVars, keptVars>>,
             package = <<>>, RunIsFiled'
      PROVE  IntakeInv'
  <2>1. IntakeTypeOK'
    BY <1>1, <1>2, <1>4 DEF IntakeTypeOK, submitVars, keptVars
  <2>2. PackageIsFiled'
    BY <1>3, <1>4 DEF PackageIsFiled, submitVars, keptVars
  <2> QED
    BY <1>4, <2>1, <2>2
<1>5. CASE BeginsRun
  <2>1. /\ intake = "due" /\ intake' = "enriching" /\ batch' = Parsed(filed) /\ staged' = staged
        /\ package = <<>> /\ UNCHANGED <<submitVars, keptVars>>
    BY <1>5 DEF BeginsRun, AlreadyApplied
  <2>2. WordsOf(batch', filed')
    BY <1>2, <2>1, ParsedWords DEF submitVars
  <2>3. RunIsFiled'
    BY <1>1, <2>1, <2>2 DEF RunIsFiled
  <2> QED
    BY <1>4, <2>1, <2>3
<1>6. CASE MakesExamples \/ FixesExamples
  <2>1. /\ intake = "enriching" /\ intake' = "enriching" /\ staged' = staged
        /\ UNCHANGED <<submitVars, keptVars>>
        /\ \E ids, origin : origin \in {"made", "fixed"} /\ Completed(ids, origin)
    BY <1>6 DEF MakesExamples, FixesExamples
  <2>2. WordsOf(batch', filed')
    BY <1>1, <2>1, CompletedWords DEF submitVars
  <2>3. RunIsFiled'
    BY <1>1, <2>1, <2>2 DEF RunIsFiled
  <2> QED
    BY <1>1, <1>4, <2>1, <2>3
<1>7. CASE OpensTransaction
  <2>1. /\ intake = "enriching" /\ intake' = "saving" /\ batch' = batch /\ staged' = staged /\ added' = 0
        /\ UNCHANGED <<submitVars, keptVars>>
    BY <1>7 DEF OpensTransaction
  <2>2. Len(batch) \in Nat /\ staged = <<>> /\ Len(staged) = 0 /\ DOMAIN staged = {}
    BY <1>1, <2>1, LenProperties, EmptySeq DEF WordsOf
  <2>3. RunIsFiled'
    BY <1>1, <2>1, <2>2 DEF RunIsFiled, submitVars
  <2> QED
    BY <1>1, <1>4, <2>1, <2>3
<1>8. ASSUME intake = "saving"
      PROVE  /\ batch \in Seq(EnrichedWords) /\ Len(batch) \in Nat /\ Len(staged) \in Nat
             /\ DOMAIN batch = 1..Len(batch) /\ DOMAIN staged = 1..Len(staged)
             /\ Len(staged) <= Len(batch) /\ added = Len(staged)
             /\ \A i \in DOMAIN staged : staged[i] = batch[i]
             /\ \A i \in DOMAIN batch : batch[i] \in EnrichedWords
  BY <1>1, <1>8, LenProperties, ElementOfSeq DEF WordsOf, RunIsFiled
<1>9. CASE SavesWord
  <2> DEFINE w == batch[Len(staged) + 1]
  <2>1. /\ intake = "saving" /\ intake' = "saving" /\ batch' = batch /\ Len(staged) < Len(batch)
        /\ staged' = Append(staged, w) /\ added' = added + 1 /\ UNCHANGED <<submitVars, keptVars>>
    BY <1>9 DEF SavesWord
  <2>2. w \in EnrichedWords
    BY <1>8, <2>1
  <2> HIDE DEF w
  <2>3. /\ staged' \in Seq(EnrichedWords) /\ Len(staged') = Len(staged) + 1
        /\ \A i \in 1..Len(staged) : staged'[i] = staged[i]
        /\ staged'[Len(staged) + 1] = w
    BY <1>1, <2>1, <2>2, AppendProperties
  <2>4. DOMAIN staged' = 1..(Len(staged) + 1)
    BY <2>3, LenProperties
  <2>5. \A i \in DOMAIN staged' : staged'[i] = batch'[i]
    <3>1. \A i \in 1..Len(staged) : staged'[i] = batch[i]
      BY <1>8, <2>1, <2>3
    <3>2. \A i \in 1..(Len(staged) + 1) : i \in 1..Len(staged) \/ i = Len(staged) + 1
      BY <1>8, <2>1
    <3> QED
      BY <2>1, <2>3, <2>4, <3>1, <3>2 DEF w
  <2>6. Len(staged') <= Len(batch') /\ added' = Len(staged')
    BY <1>8, <2>1, <2>3
  <2>7. RunIsFiled'
    BY <1>1, <2>1, <2>3, <2>5, <2>6 DEF RunIsFiled, submitVars
  <2> QED
    BY <1>1, <1>4, <2>1, <2>7
<1>10. CASE Deadlocks
  <2>1. /\ intake = "saving" /\ intake' = "saving" /\ batch' = batch /\ staged' = <<>> /\ added' = 0
        /\ UNCHANGED <<submitVars, keptVars>>
    BY <1>10 DEF Deadlocks, CountAgain
  <2>2. staged' \in Seq(EnrichedWords) /\ Len(staged') = 0 /\ DOMAIN staged' = {}
    BY <2>1, EmptySeq
  <2>3. Len(batch) \in Nat
    BY <1>8, <2>1
  <2>4. RunIsFiled'
    BY <1>1, <2>1, <2>2, <2>3 DEF RunIsFiled, submitVars
  <2> QED
    BY <1>1, <1>4, <2>1, <2>4
<1>11. CASE RunIsRejected
  <2>1. /\ intake \in {"due", "enriching", "saving"} /\ Retries /\ package' = package
        /\ unanswered' = unanswered
    BY <1>11 DEF RunIsRejected, keptVars
  <2>2. unanswered \in BOOLEAN
    BY <1>1 DEF IntakeTypeOK
  <2> QED
    BY <1>1, <2>1, <2>2, FailedRun
<1>12. ASSUME intake = "saving", Len(staged) = Len(batch), package' = package \o staged
       PROVE  package' = staged /\ WordsOf(package', filed) /\ added = Len(package')
  <2>1. package' = staged
    <3>1. package = <<>>
      BY <1>1, <1>12
    <3> QED
      BY <1>1, <1>12, <3>1, ConcatEmptySeq
  <2>2. WordsOf(staged, filed)
    <3>1. WordsOf(batch, filed)
      BY <1>1, <1>12
    <3>2. DOMAIN staged = DOMAIN batch /\ \A i \in DOMAIN staged : staged[i] = batch[i]
      BY <1>8, <1>12
    <3> QED
      BY <1>1, <3>1, <3>2 DEF WordsOf
  <2> QED
    BY <1>8, <1>12, <2>1, <2>2
<1>13. CASE CommitsUnanswered
  <2>1. /\ intake = "saving" /\ Retries /\ unanswered' = TRUE /\ WordsOf(package', filed)
    BY <1>12, <1>13 DEF CommitsUnanswered
  <2> QED
    BY <2>1, FailedRun
<1>14. ASSUME intake' = "reporting", staged' = <<>>, UNCHANGED <<submitVars, unanswered>>,
              WordsOf(package', filed), added' = Len(package')
       PROVE  IntakeInv'
  <2>1. IntakeTypeOK'
    BY <1>1, <1>2, <1>14 DEF IntakeTypeOK, submitVars
  <2>2. RunIsFiled'
    BY <1>14, EmptySeq DEF RunIsFiled
  <2>3. filed # None
    BY <1>1, <1>2 DEF IntakeTypeOK
  <2>4. PackageIsFiled'
    BY <1>2, <1>3, <1>14, <2>3 DEF PackageIsFiled, submitVars
  <2> QED
    BY <2>1, <2>2, <2>4
<1>15. CASE Commits
  <2>1. /\ intake' = "reporting" /\ staged' = <<>> /\ UNCHANGED <<submitVars, unanswered>>
        /\ WordsOf(package', filed) /\ added' = Len(package')
    BY <1>12, <1>15 DEF Commits, NoRun
  <2> QED
    BY <1>14, <2>1
<1>16. CASE FindsApplied
  <2>1. /\ intake' = "reporting" /\ staged' = <<>> /\ UNCHANGED <<submitVars, unanswered>>
        /\ package' = package /\ package # <<>> /\ added' = Len(WordRows(filed.rows))
    BY <1>16 DEF FindsApplied, AlreadyApplied, NoRun, keptVars
  <2>2. WordsOf(package, filed)
    BY <1>1, <2>1
  <2>3. /\ package \in Seq(EnrichedWords) /\ Len(package) \in Nat /\ DOMAIN package = 1..Len(package)
        /\ DOMAIN package = DOMAIN WordRows(filed.rows)
    BY <2>2, LenProperties DEF WordsOf
  <2>4. /\ Len(WordRows(filed.rows)) \in Nat
        /\ DOMAIN WordRows(filed.rows) = 1..Len(WordRows(filed.rows))
    BY <1>2, WordRowsAre
  <2>5. Len(package) = Len(WordRows(filed.rows))
    <3> DEFINE m == Len(package)
               n == Len(WordRows(filed.rows))
    <3>1. m \in Nat /\ n \in Nat /\ 1..m = 1..n
      BY <2>3, <2>4
    <3> HIDE DEF m, n
    <3>2. m = n
      BY <3>1
    <3> QED
      BY <3>2 DEF m, n
  <2> QED
    BY <1>14, <2>1, <2>2, <2>5
<1>17. CASE ReportsSaved
  <2>1. /\ intake = "reporting" /\ intake' = "idle" /\ Replies("saved")
        /\ UNCHANGED <<batch, staged, added, package, unanswered>>
    BY <1>17 DEF ReportsSaved, AnswerWithoutLine, runVars, keptVars
  <2>2. /\ filed' = filed /\ told' \in {"unsure", "saved", "failed"} /\ typed' \in {typed, None}
        /\ (told' = "saved" => typed' = None) /\ (told' = "failed" => unanswered)
    BY <1>2, <2>1, IntakeAssumption DEF Replies, Tells, submitVars, Outcomes
  <2>3. IntakeTypeOK'
    BY <1>1, <2>1, <2>2 DEF IntakeTypeOK, Outcomes
  <2>4. RunIsFiled'
    BY <1>1, <2>1 DEF RunIsFiled
  <2>5. filed # None /\ ~Invalid(filed) /\ WordsOf(package, filed) /\ added = Len(package)
    BY <2>1 DEF PackageIsFiled
  <2>6. PackageIsFiled'
    BY <2>1, <2>2, <2>5, IntakeAssumption DEF PackageIsFiled, Outcomes
  <2> QED
    BY <2>3, <2>4, <2>6
<1> QED
  BY <1>5, <1>6, <1>7, <1>9, <1>10, <1>11, <1>13, <1>15, <1>16, <1>17

\* A run has the words of its submission, and the package has them once they are committed,
\* though no answer told it: inductive (bulk-words.service.ts:90, words.service.ts:156).
THEOREM IntakeInvariance == IntakeSpec => []IntakeInv
<1>1. IntakeInit => IntakeInv
  <2> SUFFICES ASSUME IntakeInit
               PROVE  IntakeInv
    OBVIOUS
  <2>1. IntakeTypeOK /\ told \notin {"saved", "refused"}
    BY IntakeAssumption DEF IntakeInit, IntakeTypeOK, IntakeSteps, Outcomes
  <2>2. RunIsFiled /\ PackageIsFiled
    BY <2>1, EmptySeq DEF IntakeInit, RunIsFiled, PackageIsFiled
  <2> QED
    BY <2>1, <2>2 DEF IntakeInv
<1>2. IntakeInv /\ [IntakeNext]_intakeVars => IntakeInv'
  <2> SUFFICES ASSUME IntakeInv, [IntakeNext]_intakeVars
               PROVE  IntakeInv'
    OBVIOUS
  <2>1. CASE Pick \/ Edits \/ Submits \/ LosesTrack \/ Rejects \/ Admits \/ AdmitFails \/ AdmitsUnanswered
    BY <2>1, SubmissionSteps
  <2>2. CASE FindsApplied \/ BeginsRun \/ MakesExamples \/ FixesExamples \/ OpensTransaction \/ SavesWord
             \/ Deadlocks \/ Commits \/ RunIsRejected \/ CommitsUnanswered \/ ReportsSaved
    BY <2>2, RunSteps
  <2>3. CASE UNCHANGED intakeVars
    <3>1. UNCHANGED <<typed, filed, told, intake, batch, staged, added, package, unanswered>>
      BY <2>3 DEF intakeVars, submitVars, runVars, keptVars
    <3>2. IntakeTypeOK'
      BY <3>1 DEF IntakeInv, IntakeTypeOK
    <3>3. RunIsFiled' /\ PackageIsFiled'
      BY <3>1 DEF IntakeInv, RunIsFiled, PackageIsFiled
    <3> QED
      BY <3>2, <3>3 DEF IntakeInv
  <2> QED
    BY <2>1, <2>2, <2>3 DEF IntakeNext
<1> QED
  BY <1>1, <1>2, PTL DEF IntakeSpec

\* A submission adds all its words once or none, whatever fails.  A user who is told that they are
\* saved has them, as many as the count says; one who is told that they are not has none, unless
\* the answer to a commit was lost.  A word has what was written for it, or a stray example.
THEOREM RowsKept == IntakeSpec => []RowsAreKept
<1>1. IntakeInv => RowsAreKept
  <2> SUFFICES ASSUME IntakeInv
               PROVE  RowsAreKept
    OBVIOUS
  <2>1. ASSUME filed # None, ~Invalid(filed), WordsOf(package, filed)
        PROVE  AllRows
    <3> DEFINE s == WordRows(filed.rows)
    <3>1. filed \in Submissions /\ ~Invalid(filed) /\ WordsOf(package, filed)
      BY <2>1 DEF IntakeInv, IntakeTypeOK
    <3>2. DOMAIN package = DOMAIN s /\ \A i \in DOMAIN package : package[i].row = s[i]
      BY <3>1 DEF WordsOf
    <3>3. /\ \A i \in DOMAIN s : s[i] \in Titled(filed.rows)
          /\ \A i, j \in DOMAIN s : s[i] = s[j] => i = j
          /\ \A k \in Titled(filed.rows) : \E i \in DOMAIN s : s[i] = k
          /\ \A k \in DOMAIN filed.rows : filed.rows[k] \in RowKinds
          /\ Titled(filed.rows) \subseteq DOMAIN filed.rows
      BY <3>1, WordRowsAre
    <3>4. \A i \in DOMAIN s : filed.rows[s[i]] \notin {"faulty", "header"}
      BY <3>1 DEF Invalid
    <3>5. \A k \in DOMAIN filed.rows : filed.rows[k] \in {"plain", "given"} <=> k \in Titled(filed.rows)
      <4> SUFFICES ASSUME NEW k \in DOMAIN filed.rows
                   PROVE  filed.rows[k] \in {"plain", "given"} <=> k \in Titled(filed.rows)
        OBVIOUS
      <4>1. k \in Titled(filed.rows) => filed.rows[k] \notin {"faulty", "header", "blank", "untitled"}
        BY <3>3, <3>4 DEF Titled, Filled
      <4>2. filed.rows[k] \in {"plain", "given"} => k \in Titled(filed.rows)
        BY DEF Titled, Filled, Heading
      <4> QED
        BY <3>3, <4>1, <4>2 DEF RowKinds
    <3> HIDE DEF s
    <3> QED
      BY <3>2, <3>3, <3>5 DEF AllRows
  <2>2. \A i \in DOMAIN package :
          LET w == package[i] IN
          /\ w.example # None => w.example.row = w.row \/ w.example.origin = "stray"
          /\ filed.rows[w.row] = "given" => w.example # None
    <3>1. CASE package = <<>>
      BY <3>1, EmptySeq
    <3>2. CASE package # <<>>
      BY <3>2 DEF IntakeInv, PackageIsFiled, WordsOf
    <3> QED
      BY <3>1, <3>2
  <2>3. package = <<>> \/ AllRows
    BY <2>1 DEF IntakeInv, PackageIsFiled
  <2>4. told = "saved" => AllRows /\ added = Len(package)
    BY <2>1 DEF IntakeInv, PackageIsFiled
  <2>5. (told = "refused" => package = <<>>) /\ (told = "failed" => package = <<>> \/ unanswered)
    BY IntakeAssumption DEF IntakeInv, PackageIsFiled, IntakeTypeOK, Outcomes
  <2> QED
    BY <2>2, <2>3, <2>4, <2>5 DEF RowsAreKept
<1> QED
  BY <1>1, IntakeInvariance, PTL
=============================================================================
