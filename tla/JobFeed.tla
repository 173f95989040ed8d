------------------------------ MODULE JobFeed ------------------------------
(***************************************************************************)
(* How a page follows one import: the worker updates the Redis job and     *)
(* publishes it (import/job-tracker.service.ts), the API streams it        *)
(* (import/job.controller.ts), and the page watches the stream, after a    *)
(* reload too (web: lib/job-stream.ts, lib/job-watcher.ts).                *)
(***************************************************************************)
EXTENDS FaultBudget, Sequences, FiniteSets

CONSTANTS Streams,     \* connections of the user
          MaxStreams,  \* MAX_STREAMS_PER_USER
          MaxRetries,  \* MAX_RETRIES of the page
          MaxReports,  \* modelling bound: progress reports of a run
          MaxRuns,     \* modelling bound: runs of the job
          MaxReloads   \* modelling bound: reloads of the page

ASSUME FeedAssumption == IsFiniteSet(Streams) /\ "none" \notin Streams /\ MaxReports \in Nat

VARIABLES job,     \* the Redis job, "none" without a key
          outbox, \* the outbox row of the job exists
          run,     \* the run of the worker
          reports, \* the updates of its chain still to make
          write,   \* update() at work, for the chain and for the end of the run
          streamsOpen,    \* openStreams of the user
          serving,  \* what the API does for each connection
          answer,  \* what it sent that the page acts on, "none" before
          page,    \* the watcher of the page
          dropped  \* history: a publication was lost, or the read after the subscription

workerVars == <<job, outbox, run, reports, write, dropped>>
streamVars == <<streamsOpen, serving, answer>>
feedVars == <<workerVars, streamVars, page, faults>>

\* pending, processing and retrying are one status here: nobody acts on which.
Finished == {"completed", "failed"}
NoWrite == [step |-> "none", status |-> "none"]

\* form: the words submitted; stored: in localStorage; asked: GET /jobs.
NewPage(stored, reloads) ==
    [form |-> "none", watched |-> FALSE, settled |-> FALSE, stored |-> stored,
     stream |-> "none", retries |-> 0, asked |-> "asking", reloads |-> reloads]
FormWaits == page.form = "awaiting"

FeedInit ==
    /\ job = "none"
    /\ outbox = FALSE
    /\ run = [step |-> "none", number |-> 1, left |-> MaxReports, final |-> "none",
              again |-> FALSE]
    /\ reports = <<>>
    /\ write = [by \in {"chain", "end"} |-> NoWrite]
    /\ streamsOpen = 0
    /\ serving = [s \in Streams |-> "none"]
    /\ answer = [s \in Streams |-> "none"]
    /\ page = NewPage(FALSE, 0)
    /\ dropped = FALSE
    /\ faults = 0

-----------------------------------------------------------------------------
(* The job and its worker                                                  *)

\* The request that queues the job; without Redis only the outbox has it.
Queue ==
    /\ run.step = "none"
    /\ run' = [run EXCEPT !.step = "waiting"]
    /\ page' = [page EXCEPT !.form = "sent"]
    /\ outbox' = TRUE
    /\ \/ job' = "active" /\ NoFault
       \/ UNCHANGED job /\ Fault
    /\ UNCHANGED <<reports, write, dropped, streamVars>>

BeginRun ==
    /\ run.step = "waiting"
    /\ outbox' = FALSE
    /\ run' = [run EXCEPT !.step = "running"]
    /\ reports' = <<"active">>
    /\ NoFault
    /\ UNCHANGED <<job, write, dropped, streamVars, page>>

\* A report without a status: the job keeps the one it has.
ReportProgress ==
    /\ run.step = "running"
    /\ run.left > 0
    /\ run' = [run EXCEPT !.left = @ - 1]
    /\ reports' = Append(reports, "same")
    /\ NoFault
    /\ UNCHANGED <<job, outbox, write, dropped, streamVars, page>>

\* Variant: the end of the run does not wait for the chain.
ChainIsLeft == TRUE

\* await progress
ChainIsDone == reports = <<>> /\ write["chain"] = NoWrite

EndRun(status) ==
    /\ run.step = "running"
    /\ ChainIsDone
    /\ status = "active" => run.number < MaxRuns
    /\ run' = [run EXCEPT !.step = "ending", !.final = status,
                        !.again = status = "active", !.left = MaxReports]
    /\ NoFault
    /\ UNCHANGED <<job, outbox, reports, write, dropped, streamVars, page>>

\* The message is acknowledged, or comes back through the retry queue.
LeaveRun ==
    /\ run.step = "ending"
    /\ write["end"] = NoWrite
    /\ run' = IF run.again
              THEN [run EXCEPT !.step = "waiting", !.number = @ + 1, !.again = FALSE]
              ELSE [run EXCEPT !.step = "over"]
    /\ NoFault
    /\ UNCHANGED <<job, outbox, reports, write, dropped, streamVars, page>>

\* update(): GET, then SET, then PUBLISH.  Without the key, or without Redis,
\* nothing is written.
ReadJob(by, status) ==
    /\ write[by] = NoWrite
    /\ \/ /\ job # "none"
          /\ write' = [write EXCEPT ![by] =
                [step |-> "set", status |-> IF status = "same" THEN job ELSE status]]
          /\ NoFault
       \/ /\ UNCHANGED write
          /\ IF job = "none" THEN NoFault ELSE Fault
    /\ UNCHANGED <<job, outbox, dropped, streamVars, page>>

UpdateProgress ==
    /\ reports # <<>>
    /\ ReadJob("chain", Head(reports))
    /\ reports' = Tail(reports)
    /\ UNCHANGED run

UpdateFinal ==
    /\ run.step = "ending"
    /\ run.final # "none"
    /\ ReadJob("end", run.final)
    /\ run' = [run EXCEPT !.final = "none"]
    /\ UNCHANGED reports

WriteJob(by) ==
    /\ write[by].step = "set"
    /\ job' = write[by].status
    /\ write' = [write EXCEPT ![by].step = "publish"]
    /\ NoFault
    /\ UNCHANGED <<outbox, run, reports, dropped, streamVars, page>>

\* The key expires, or Redis restarts without it.
JobExpires ==
    /\ job # "none"
    /\ job' = "none"
    /\ Fault
    /\ UNCHANGED <<outbox, reports, write, run, dropped, streamVars, page>>

-----------------------------------------------------------------------------
(* GET /jobs/:id/stream                                                    *)

Holding == {"subscribing", "checking", "live"}

Answers(s, message) == answer' = [answer EXCEPT ![s] = message]

\* end(): the stream is over, with the message that ends it for the page.
Ends(s, message) ==
    /\ serving' = [serving EXCEPT ![s] = "over"]
    /\ Answers(s, message)

\* get(): nothing while Redis is away.
Gets(read) ==
    \/ read = job /\ NoFault
    \/ read = "none" /\ job # "none" /\ Fault

\* visibleJob: the Redis job, else the outbox row.
Visible(read) == IF read # "none" THEN read ELSE IF outbox THEN "active" ELSE "none"
Left(s) == page.stream # s

\* The client may have left while the job was read.
HasLeft(s) == Left(s)

AcceptStream(s) ==
    /\ serving[s] = "reading"
    /\ \E read \in {job, "none"} :
         LET found == Visible(read)
         IN  /\ Gets(read)
             /\ IF found = "none" \/ streamsOpen >= MaxStreams \/ HasLeft(s) \/ found \in Finished
                THEN /\ Ends(s, IF found = "none" THEN "gone"
                                ELSE IF streamsOpen >= MaxStreams THEN "error"
                                ELSE IF found \in Finished THEN found ELSE "closed")
                     /\ UNCHANGED streamsOpen
                ELSE /\ serving' = [serving EXCEPT ![s] = "subscribing"]
                     /\ streamsOpen' = streamsOpen + 1
                     /\ UNCHANGED answer
    /\ UNCHANGED <<workerVars, page>>

Subscribe(s) ==
    /\ serving[s] = "subscribing"
    /\ serving' = [serving EXCEPT ![s] = "checking"]
    /\ NoFault
    /\ UNCHANGED <<workerVars, streamsOpen, answer, page>>

SubscribeFails(s) ==
    /\ serving[s] = "subscribing"
    /\ Ends(s, "unavailable")
    /\ streamsOpen' = streamsOpen - 1
    /\ Fault
    /\ UNCHANGED <<workerVars, page>>

\* Variant: the job is not read again.
MissedBefore(read) == FALSE

\* The job may have finished between the first read and the subscription.
FinishedBefore(read) == read \in Finished

CheckAgain(s) ==
    /\ serving[s] = "checking"
    /\ \E read \in {job, "none"} :
         /\ Gets(read)
         /\ dropped' = (dropped \/ read # job)
         /\ IF FinishedBefore(read)
            THEN Ends(s, read) /\ streamsOpen' = streamsOpen - 1
            ELSE serving' = [serving EXCEPT ![s] = "live"] /\ UNCHANGED <<streamsOpen, answer>>
    /\ UNCHANGED <<job, outbox, run, reports, write, page>>

\* Every listener gets the update; a final one ends its stream.
Publish(by) ==
    /\ write[by].step = "publish"
    /\ write' = [write EXCEPT ![by] = NoWrite]
    /\ LET listening == {s \in Streams : serving[s] \in {"checking", "live"}}
           ended == IF write[by].status \in Finished THEN listening ELSE {}
       IN  \/ /\ serving' = [s \in Streams |-> IF s \in ended THEN "over" ELSE serving[s]]
              /\ answer' = [s \in Streams |-> IF s \in ended THEN write[by].status ELSE answer[s]]
              /\ streamsOpen' = streamsOpen - Cardinality(ended)
              /\ NoFault
              /\ UNCHANGED dropped
           \/ /\ dropped' = TRUE
              /\ Fault
              /\ UNCHANGED streamVars
    /\ UNCHANGED <<job, outbox, run, reports, page>>

\* The close event of a client that left, or the end of JOB_TTL_SECONDS.
EndStream(s) ==
    /\ serving[s] \in Holding
    /\ Ends(s, "closed")
    /\ streamsOpen' = streamsOpen - 1
    /\ NoFault
    /\ UNCHANGED <<workerVars, page>>

-----------------------------------------------------------------------------
(* The watcher of the page                                                 *)

\* The answer to the request that queued the job: addJob.
AddJob ==
    /\ page.form = "sent"
    /\ page' = [page EXCEPT !.form = "awaiting", !.watched = TRUE, !.stored = TRUE]
    /\ NoFault
    /\ UNCHANGED <<workerVars, streamVars>>

\* getActiveByUser, whose answer arrives later; on an error the page takes what
\* it stored.
ListJobs ==
    /\ page.asked = "asking"
    /\ \/ page' = [page EXCEPT !.asked = IF job \in {"none"} \cup Finished THEN "unlisted" ELSE "listed"]
          /\ NoFault
       \/ page' = [page EXCEPT !.asked = IF page.stored THEN "listed" ELSE "unlisted"]
          /\ Fault
    /\ UNCHANGED <<workerVars, streamVars>>

\* setWatchedJobs: jobs the page has settled are left out, those it awaits kept.
Keeps(listed) == (listed /\ ~page.settled) \/ FormWaits

ResumeJobs ==
    /\ page.asked \in {"listed", "unlisted"}
    /\ LET keeps == Keeps(page.asked = "listed")
       IN  page' = [page EXCEPT !.asked = "done", !.watched = keeps, !.stored = keeps,
                                !.stream = IF keeps THEN @ ELSE "none"]
    /\ NoFault
    /\ UNCHANGED <<workerVars, streamVars>>

\* A watched job opens its stream; so does each retry.
OpenStream(s) ==
    /\ page.watched
    /\ page.stream = "none"
    /\ serving[s] = "none"
    /\ page' = [page EXCEPT !.stream = s]
    /\ serving' = [serving EXCEPT ![s] = "reading"]
    /\ NoFault
    /\ UNCHANGED <<workerVars, streamsOpen, answer>>

\* finishJob, and the form that awaits the job goes on.
SettleForm(outcome, keepStored) ==
    page' = [page EXCEPT !.watched = FALSE, !.stream = "none", !.retries = 0,
                         !.settled = ~keepStored, !.stored = @ /\ keepStored,
                         !.form = IF ~FormWaits THEN @
                                  ELSE CASE outcome = "completed" -> "reset"
                                         [] outcome = "failed" -> "kept"
                                         [] OTHER -> "asking"]

Retry ==
    IF page.retries < MaxRetries
    THEN page' = [page EXCEPT !.retries = @ + 1, !.stream = "none"]
    ELSE SettleForm("lost", TRUE)

Receive(s) ==
    /\ page.stream = s
    /\ answer[s] # "none"
    /\ Answers(s, "none")
    /\ CASE answer[s] = "closed" -> SettleForm("lost", TRUE)
         [] answer[s] = "error" -> Retry
         [] OTHER -> SettleForm(answer[s], FALSE)
    /\ NoFault
    /\ UNCHANGED <<workerVars, streamsOpen, serving>>

\* The connection breaks: the page tries again, a few times.
LoseStream(s) ==
    /\ page.stream = s
    /\ Retry
    /\ Fault
    /\ UNCHANGED <<workerVars, streamVars>>

\* jobCompleted: the words may be saved although the stream was lost.
AskJob ==
    /\ page.form = "asking"
    /\ \/ page' = [page EXCEPT !.form = IF job = "completed" THEN "reset" ELSE "kept"]
          /\ NoFault
       \/ page' = [page EXCEPT !.form = "kept"] /\ Fault
    /\ UNCHANGED <<workerVars, streamVars>>

\* A connection is used again once both its ends are closed.
CloseStream(s) ==
    /\ serving[s] = "over"
    /\ Left(s)
    /\ serving' = [serving EXCEPT ![s] = "none"]
    /\ Answers(s, "none")
    /\ NoFault
    /\ UNCHANGED <<workerVars, streamsOpen, page>>

Reload ==
    /\ page.reloads < MaxReloads
    /\ page' = NewPage(page.stored, page.reloads + 1)
    /\ NoFault
    /\ UNCHANGED <<workerVars, streamVars>>

-----------------------------------------------------------------------------
WorkerStep ==
    \/ Queue \/ BeginRun \/ ReportProgress \/ UpdateProgress \/ UpdateFinal \/ LeaveRun
    \/ \E status \in Finished \cup {"active"} : EndRun(status)
    \/ \E by \in {"chain", "end"} : WriteJob(by) \/ Publish(by)
Serve(s) ==
    AcceptStream(s) \/ Subscribe(s) \/ SubscribeFails(s) \/ CheckAgain(s) \/ EndStream(s)
Watch(s) == OpenStream(s) \/ Receive(s) \/ LoseStream(s) \/ CloseStream(s)
Follow == AddJob \/ ListJobs \/ ResumeJobs \/ AskJob

FeedNext ==
    \/ WorkerStep
    \/ JobExpires
    \/ \E s \in Streams : Serve(s) \/ Watch(s)
    \/ Follow
    \/ Reload

FeedSpec == FeedInit /\ [][FeedNext]_feedVars

-----------------------------------------------------------------------------
(* Properties                                                              *)

\* The page watches every job a form awaits, and none it has settled, whenever
\* the list of the server arrives.
WatchListIsRight ==
    /\ FormWaits => page.watched
    /\ page.settled /\ ~FormWaits => ~page.watched

\* A stream outlives the end of its job only if the publication, or the read that
\* follows the subscription, was lost, and
\* the slots of the user are those of its streams.
StreamsFollowJobs ==
    /\ \A s \in Streams :
         serving[s] = "live" /\ job \in Finished =>
            dropped \/ \E by \in DOMAIN write : write[by].step = "publish"
    /\ streamsOpen = Cardinality({s \in Streams : serving[s] \in Holding})

\* The page hears of every job it has to hear of: it watches the right ones
\* (job-watcher.ts:33, job-watcher.ts:44), and their streams end with them
\* (job.controller.ts:138).
PageFollowsJob == WatchListIsRight /\ StreamsFollowJobs

\* The final status of a job is not taken back by a report that was on its way
\* (import-queue.service.ts:107).
FinalStatusStays == [][(job \in Finished) => (job' = job \/ job' = "none")]_feedVars

-----------------------------------------------------------------------------
(* The inductive invariant behind the two                                  *)

Statuses == {"none", "active"} \cup Finished
JobWrites == [step : {"none", "set", "publish"}, status : Statuses]

Runs ==
    [step : {"none", "waiting", "running", "ending", "over"}, number : Nat, left : Nat,
     final : Statuses, again : BOOLEAN]
Pages ==
    [form : {"none", "sent", "awaiting", "asking", "reset", "kept"}, watched : BOOLEAN,
     settled : BOOLEAN, stored : BOOLEAN, stream : Streams \cup {"none"}, retries : Nat,
     asked : {"asking", "listed", "unlisted", "done"}, reloads : Nat]

WorkerTypeOK ==
    /\ job \in Statuses
    /\ run \in Runs
    /\ reports \in Seq({"active", "same"})
    /\ write \in [{"chain", "end"} -> JobWrites]
    /\ outbox \in BOOLEAN /\ dropped \in BOOLEAN
StreamTypeOK ==
    /\ serving \in [Streams -> {"none", "reading", "over"} \cup Holding]
    /\ answer \in [Streams -> {"none", "gone", "error", "closed", "unavailable"} \cup Finished]
FeedTypeOK == WorkerTypeOK /\ StreamTypeOK /\ page \in Pages

\* The run that ends the job has nothing left to report but its end.
Ended == run.step \in {"ending", "over"} /\ ~run.again

WritesInOrder ==
    /\ \A by \in {"chain", "end"} : write[by].step # "none" => write[by].status # "none"
    /\ write["chain"].status \notin Finished
    /\ run.step \in {"ending", "over"} => reports = <<>> /\ write["chain"] = NoWrite
    /\ run.again => run.final \notin Finished
    /\ write["end"] # NoWrite => run.step = "ending" /\ run.final = "none"
    /\ Ended /\ write["end"] # NoWrite => write["end"].status \in Finished
    /\ ~Ended => job \notin Finished /\ write["end"].status \notin Finished
    /\ job \in Finished => write["end"].step # "set" /\ (run.step = "ending" => run.final = "none")
    /\ run.step = "ending" /\ ~run.again => run.final \in Finished \cup {"none"}

FeedInv ==
    /\ FeedTypeOK
    /\ WritesInOrder
    /\ run.step = "none" => page.form = "none"
    /\ PageFollowsJob
=============================================================================
