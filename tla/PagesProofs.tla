---------------------------- MODULE PagesProofs -----------------------------
(***************************************************************************)
(* Proofs about what the pages follow, show and send, for any number of    *)
(* connections, reports, replicas, games, words, changes, clicks and       *)
(* saves: the feed of an import of JobFeed.tla, the commit reported by     *)
(* Heartbeat.tla, the promotion of LevelProgress.tla, the entries of       *)
(* QueryCache.tla, the sounds of Pronunciation.tla, the recordings of      *)
(* SpeechRecording.tla, the saves of Forms.tla, the rounds and scores of   *)
(* Games.tla and the deck of Flashcards.tla.                               *)
(***************************************************************************)
EXTENDS JobFeed, Heartbeat, LevelProgress, QueryCache, Pronunciation, SpeechRecording, Forms,
        Games, Flashcards, FiniteSetTheorems, SequenceTheorems, TLAPS

-----------------------------------------------------------------------------
(* How a page follows an import                                            *)

\* What the worker does keeps the types of what the worker writes.
LEMMA WorkerTypes ==
    ASSUME WorkerTypeOK, WorkerStep \/ JobExpires
    PROVE  WorkerTypeOK'
  <1> DEFINE RunStep == run' \in Runs
             ReportStep == reports' \in Seq({"active", "same"})
             WriteStep == write' \in [{"chain", "end"} -> JobWrites]
  <1>0. /\ job \in Statuses /\ run \in Runs
        /\ reports \in Seq({"active", "same"}) /\ write \in [{"chain", "end"} -> JobWrites]
        /\ outbox \in BOOLEAN /\ dropped \in BOOLEAN
    BY DEF WorkerTypeOK
  <1>1. CASE Queue
    <2>1. RunStep
      BY <1>0, <1>1 DEF Queue, Runs
    <2> QED BY <1>0, <1>1, <2>1 DEF Queue, WorkerTypeOK, Statuses
  <1>2. CASE BeginRun
    <2>1. RunStep
      BY <1>0, <1>2 DEF BeginRun, Runs
    <2>2. ReportStep
      BY <1>2 DEF BeginRun
    <2> QED BY <1>0, <1>2, <2>1, <2>2 DEF BeginRun, WorkerTypeOK
  <1>3. CASE ReportProgress
    <2>1. RunStep
      BY <1>0, <1>3 DEF ReportProgress, Runs
    <2>2. ReportStep
      BY <1>0, <1>3 DEF ReportProgress
    <2> QED BY <1>0, <1>3, <2>1, <2>2 DEF ReportProgress, WorkerTypeOK
  <1>4. ASSUME NEW by \in {"chain", "end"}, NEW status \in Statuses \cup {"same"}, ReadJob(by, status)
        PROVE  WriteStep /\ UNCHANGED <<job, outbox, dropped>>
    BY <1>0, <1>4 DEF ReadJob, JobWrites, Statuses, streamVars
  <1>5. CASE UpdateProgress
    <2>1. Head(reports) \in Statuses \cup {"same"} /\ ReportStep
      BY <1>0, <1>5 DEF UpdateProgress, Statuses
    <2>2. run' = run /\ WriteStep /\ UNCHANGED <<job, outbox, dropped>>
      BY <1>4, <1>5, <2>1 DEF UpdateProgress
    <2> QED BY <1>0, <2>1, <2>2 DEF WorkerTypeOK
  <1>6. CASE UpdateFinal
    <2>1. RunStep
      BY <1>0, <1>6 DEF UpdateFinal, Runs, Statuses
    <2>2. run.final \in Statuses
      BY <1>0 DEF Runs
    <2>3. reports' = reports /\ WriteStep /\ UNCHANGED <<job, outbox, dropped>>
      BY <1>4, <1>6, <2>2 DEF UpdateFinal
    <2> QED BY <1>0, <2>1, <2>3 DEF WorkerTypeOK
  <1>7. CASE LeaveRun
    <2>1. CASE run.again
      <3> DEFINE next == run.number + 1
      <3>1. run' = [run EXCEPT !.step = "waiting", !.number = next, !.again = FALSE]
        BY <1>7, <2>1 DEF LeaveRun
      <3>3. next \in Nat
        BY <1>0 DEF Runs
      <3> HIDE DEF next
      <3>2. RunStep
        BY <1>0, <3>1, <3>3 DEF Runs
      <3> QED BY <1>0, <1>7, <3>2 DEF LeaveRun, WorkerTypeOK
    <2>2. CASE ~run.again
      <3>1. run' = [run EXCEPT !.step = "over"]
        BY <1>7, <2>2 DEF LeaveRun
      <3>2. RunStep
        BY <1>0, <3>1 DEF Runs
      <3> QED BY <1>0, <1>7, <3>2 DEF LeaveRun, WorkerTypeOK
    <2> QED BY <2>1, <2>2
  <1>8. ASSUME NEW status \in Finished \cup {"active"}, EndRun(status) PROVE WorkerTypeOK'
    <2>1. RunStep
      BY <1>0, <1>8, FeedAssumption DEF EndRun, Runs, Statuses, Finished
    <2> QED BY <1>0, <1>8, <2>1 DEF EndRun, WorkerTypeOK
  <1>9. ASSUME NEW by \in {"chain", "end"}, WriteJob(by) PROVE WorkerTypeOK'
    <2>1. WriteStep
      BY <1>0, <1>9 DEF WriteJob, JobWrites
    <2>2. job' \in Statuses
      BY <1>0, <1>9 DEF WriteJob, JobWrites
    <2> QED BY <1>0, <1>9, <2>1, <2>2 DEF WriteJob, WorkerTypeOK
  <1>10. ASSUME NEW by \in {"chain", "end"}, Publish(by) PROVE WorkerTypeOK'
    <2>1. WriteStep
      BY <1>0, <1>10 DEF Publish, JobWrites, NoWrite, Statuses
    <2>2. UNCHANGED <<job, outbox, run, reports>> /\ dropped' \in BOOLEAN
      BY <1>0, <1>10 DEF Publish
    <2> QED BY <1>0, <2>1, <2>2 DEF WorkerTypeOK
  <1>11. CASE JobExpires
    BY <1>0, <1>11 DEF JobExpires, WorkerTypeOK, Statuses
  <1> QED BY <1>1, <1>2, <1>3, <1>5, <1>6, <1>7, <1>8, <1>9, <1>10, <1>11 DEF WorkerStep

\* The watcher settles the form, or tries its stream again.
LEMMA RetryTypes ==
    ASSUME page \in Pages
    PROVE  /\ \A outcome : SettleForm(outcome, TRUE) => page' \in Pages
           /\ \A outcome : SettleForm(outcome, FALSE) => page' \in Pages
           /\ Retry => page' \in Pages
  <1>1. ASSUME NEW outcome, NEW keepStored \in BOOLEAN, SettleForm(outcome, keepStored)
        PROVE  page' \in Pages
    <2> DEFINE after == IF ~FormWaits THEN page.form
                       ELSE CASE outcome = "completed" -> "reset"
                              [] outcome = "failed" -> "kept"
                              [] OTHER -> "asking"
               kept == page.stored /\ keepStored
    <2>1. page' = [page EXCEPT !.watched = FALSE, !.stream = "none", !.retries = 0,
                               !.settled = ~keepStored, !.stored = kept, !.form = after]
      BY <1>1 DEF SettleForm
    <2>2. after \in {"none", "sent", "awaiting", "asking", "reset", "kept"}
      BY DEF Pages
    <2>3. kept \in BOOLEAN
      OBVIOUS
    <2> HIDE DEF after, kept
    <2>4. PICK p : p = [page EXCEPT !.watched = FALSE, !.stream = "none", !.retries = 0,
                                    !.settled = ~keepStored]
      OBVIOUS
    <2>5. p \in Pages
      BY <1>1, <2>4 DEF Pages
    <2>6. page' = [p EXCEPT !.stored = kept, !.form = after]
      BY <2>1, <2>4 DEF Pages
    <2> QED BY <2>2, <2>3, <2>5, <2>6 DEF Pages
  <1>2. ASSUME Retry PROVE page' \in Pages
    <2>1. CASE page.retries < MaxRetries
      <3> DEFINE next == page.retries + 1
      <3>1. page' = [page EXCEPT !.retries = next, !.stream = "none"]
        BY <1>2, <2>1 DEF Retry
      <3>2. next \in Nat
        BY DEF Pages
      <3> HIDE DEF next
      <3> QED BY <3>1, <3>2 DEF Pages
    <2>2. CASE ~(page.retries < MaxRetries)
      BY <1>1, <1>2, <2>2 DEF Retry
    <2> QED BY <2>1, <2>2
  <1>3. ASSUME NEW outcome
        PROVE  /\ SettleForm(outcome, TRUE) => page' \in Pages
               /\ SettleForm(outcome, FALSE) => page' \in Pages
    BY <1>1
  <1> QED BY <1>2, <1>3

\* What the API does for a connection, and what the page does with it, keeps the
\* types of both.
LEMMA StreamTypes ==
    ASSUME FeedTypeOK, NEW s \in Streams, Serve(s) \/ Watch(s)
    PROVE  FeedTypeOK'
  <1>0. /\ WorkerTypeOK /\ StreamTypeOK /\ page \in Pages
        /\ job \in Statuses /\ dropped \in BOOLEAN
    BY DEF FeedTypeOK, WorkerTypeOK
  <1>a. ASSUME workerVars' = workerVars, StreamTypeOK', page' \in Pages PROVE FeedTypeOK'
    BY <1>0, <1>a DEF FeedTypeOK, WorkerTypeOK, workerVars
  <1>b. ASSUME NEW read \in {job, "none"}, read \in Finished PROVE read \in {"completed", "failed"}
    BY <1>b DEF Finished
  <1> USE DEF Holding, Finished
  <1>1. CASE AcceptStream(s)
    <2>1. PICK read \in {job, "none"} :
             \/ \E message \in {"gone", "error", "closed"} \cup Finished : Ends(s, message)
             \/ serving' = [serving EXCEPT ![s] = "subscribing"] /\ UNCHANGED answer
      BY <1>1 DEF AcceptStream
    <2>2. StreamTypeOK'
      BY <1>0, <2>1 DEF StreamTypeOK, Ends, Answers
    <2> QED BY <1>0, <1>a, <1>1, <2>2 DEF AcceptStream
  <1>2. CASE Subscribe(s)
    BY <1>0, <1>a, <1>2 DEF Subscribe, StreamTypeOK
  <1>3. CASE SubscribeFails(s)
    BY <1>0, <1>a, <1>3 DEF SubscribeFails, Ends, Answers, StreamTypeOK
  <1>4. CASE CheckAgain(s)
    <2>1. StreamTypeOK'
      BY <1>0, <1>4 DEF CheckAgain, Ends, Answers, StreamTypeOK, FinishedBefore
    <2>2. UNCHANGED <<job, outbox, run, reports, write, page>> /\ dropped' \in BOOLEAN
      BY <1>0, <1>4 DEF CheckAgain
    <2> QED BY <1>0, <2>1, <2>2 DEF FeedTypeOK, WorkerTypeOK
  <1>5. CASE EndStream(s)
    BY <1>0, <1>a, <1>5 DEF EndStream, Ends, Answers, StreamTypeOK
  <1>6. CASE OpenStream(s)
    <2>1. page' \in Pages
      BY <1>0, <1>6 DEF OpenStream, Pages
    <2>2. StreamTypeOK'
      BY <1>0, <1>6 DEF OpenStream, StreamTypeOK
    <2> QED BY <1>a, <1>6, <2>1, <2>2 DEF OpenStream
  <1>7. CASE Receive(s)
    <2>1. \/ SettleForm("lost", TRUE)
          \/ Retry
          \/ SettleForm(answer[s], FALSE)
      BY <1>7 DEF Receive
    <2>3. page' \in Pages
      <3>1. CASE SettleForm("lost", TRUE)
        BY ONLY <1>0, <3>1, RetryTypes
      <3>2. CASE Retry
        BY ONLY <1>0, <3>2, RetryTypes
      <3>3. CASE SettleForm(answer[s], FALSE)
        BY ONLY <1>0, <3>3, RetryTypes
      <3> QED BY <2>1, <3>1, <3>2, <3>3
    <2>2. StreamTypeOK'
      BY <1>0, <1>7 DEF Receive, StreamTypeOK, Answers
    <2> QED BY <1>a, <1>7, <2>3, <2>2 DEF Receive
  <1>8. CASE LoseStream(s)
    <2>1. page' \in Pages
      BY <1>0, <1>8, RetryTypes DEF LoseStream
    <2>2. StreamTypeOK'
      BY <1>0, <1>8 DEF LoseStream, StreamTypeOK, streamVars
    <2> QED BY <1>a, <1>8, <2>1, <2>2 DEF LoseStream
  <1>9. CASE CloseStream(s)
    BY <1>0, <1>a, <1>9 DEF CloseStream, Answers, StreamTypeOK
  <1> QED BY <1>1, <1>2, <1>3, <1>4, <1>5, <1>6, <1>7, <1>8, <1>9 DEF Serve, Watch

\* What the page does by itself keeps its types.
LEMMA PageTypes ==
    ASSUME FeedTypeOK, Follow \/ Reload
    PROVE  FeedTypeOK'
  <1>0. WorkerTypeOK /\ StreamTypeOK /\ page \in Pages
    BY DEF FeedTypeOK
  <1>a. ASSUME workerVars' = workerVars, streamVars' = streamVars, page' \in Pages PROVE FeedTypeOK'
    BY <1>0, <1>a DEF FeedTypeOK, WorkerTypeOK, workerVars, streamVars, StreamTypeOK
  <1>1. CASE AddJob
    BY <1>0, <1>a, <1>1 DEF AddJob, Pages
  <1>2. CASE ListJobs
    BY <1>0, <1>a, <1>2 DEF ListJobs, Pages
  <1>3. CASE ResumeJobs
    <2> DEFINE keeps == Keeps(page.asked = "listed")
               stream == IF keeps THEN page.stream ELSE "none"
    <2>1. page' = [page EXCEPT !.asked = "done", !.watched = keeps, !.stored = keeps, !.stream = stream]
      BY <1>3 DEF ResumeJobs
    <2>2. keeps \in BOOLEAN
      BY DEF Keeps, FormWaits
    <2>3. stream \in Streams \cup {"none"}
      BY <1>0 DEF Pages
    <2> HIDE DEF keeps, stream
    <2>4. page' \in Pages
      BY <1>0, <2>1, <2>2, <2>3 DEF Pages
    <2> QED BY <1>a, <1>3, <2>4 DEF ResumeJobs
  <1>4. CASE AskJob
    BY <1>0, <1>a, <1>4 DEF AskJob, Pages
  <1>5. CASE Reload
    <2>1. page.stored \in BOOLEAN /\ page.reloads + 1 \in Nat
      BY <1>0 DEF Pages
    <2>2. page' \in Pages
      BY <1>5, <2>1 DEF Reload, NewPage, Pages
    <2> QED BY <1>a, <1>5, <2>2 DEF Reload
  <1> QED BY <1>1, <1>2, <1>3, <1>4, <1>5 DEF Follow

\* The worker writes the reports of its chain before the end of the run, and the
\* end last: a status read by one write is never that of a job the other ended.
LEMMA WritesStayInOrder ==
    ASSUME WorkerTypeOK, WritesInOrder, FeedNext
    PROVE  WritesInOrder'
  <1> USE DEF WritesInOrder, WorkerTypeOK, Runs, JobWrites, Statuses, Finished, NoWrite, Ended
  <1>1. CASE Queue
    BY <1>1 DEF Queue
  <1>2. CASE BeginRun
    BY <1>2 DEF BeginRun
  <1>3. CASE ReportProgress
    BY <1>3 DEF ReportProgress
  <1>4. CASE UpdateProgress
    <2>1. Head(reports) \in {"active", "same"}
      BY <1>4 DEF UpdateProgress
    <2>2. run.step \notin {"ending", "over"} /\ ~Ended /\ run' = run /\ job' = job
      BY <1>4 DEF UpdateProgress, ReadJob
    <2>3. CASE write' = write
      BY <2>2, <2>3
    <2>4. CASE write' # write
      <3> DEFINE status == IF Head(reports) = "same" THEN job ELSE Head(reports)
      <3>1. job # "none" /\ write' = [write EXCEPT !["chain"] = [step |-> "set", status |-> status]]
        BY <1>4, <2>4 DEF UpdateProgress, ReadJob
      <3>2. status \notin Finished /\ status # "none"
        BY <2>1, <2>2, <3>1
      <3> HIDE DEF status
      <3>3. /\ write'["chain"].step = "set" /\ write'["chain"].status = status
            /\ write'["end"] = write["end"]
        BY <3>1
      <3> QED BY <2>2, <3>2, <3>3
    <2> QED BY <2>3, <2>4
  <1>5. CASE UpdateFinal
    BY <1>5 DEF UpdateFinal, ReadJob
  <1>6. CASE LeaveRun
    BY <1>6 DEF LeaveRun
  <1>7. ASSUME NEW status \in Finished \cup {"active"}, EndRun(status) PROVE WritesInOrder'
    BY <1>7 DEF EndRun, ChainIsDone
  <1>8. ASSUME NEW by \in {"chain", "end"}, WriteJob(by) PROVE WritesInOrder'
    BY <1>8 DEF WriteJob
  <1>9. ASSUME NEW by \in {"chain", "end"}, Publish(by) PROVE WritesInOrder'
    BY <1>9 DEF Publish
  <1>10. CASE JobExpires
    BY <1>10 DEF JobExpires
  <1>11. ASSUME UNCHANGED <<job, run, reports, write>> PROVE WritesInOrder'
    BY <1>11
  <1>12. ASSUME NEW s \in Streams, Serve(s) \/ Watch(s) PROVE WritesInOrder'
    BY <1>11, <1>12 DEF Serve, Watch, AcceptStream, Subscribe, SubscribeFails, CheckAgain, EndStream,
                        OpenStream, Receive, LoseStream, CloseStream, workerVars
  <1>13. CASE Follow \/ Reload
    BY <1>11, <1>13 DEF Follow, Reload, AddJob, ListJobs, ResumeJobs, AskJob, workerVars
  <1> QED BY <1>1, <1>2, <1>3, <1>4, <1>5, <1>6, <1>7, <1>8, <1>9, <1>10, <1>12, <1>13
          DEF FeedNext, WorkerStep

\* The form is idle before the words are sent, and the page watches what it awaits, and
\* not what it settled.
LEMMA WatchListStaysRight ==
    ASSUME FeedTypeOK, run.step = "none" => page.form = "none", WatchListIsRight, FeedNext
    PROVE  (run.step = "none" => page.form = "none")' /\ WatchListIsRight'
  <1> DEFINE Goal == (run.step = "none" => page.form = "none")' /\ WatchListIsRight'
  <1>a. page \in Pages /\ run \in Runs
    BY DEF FeedTypeOK, WorkerTypeOK
  <1> USE <1>a DEF WatchListIsRight, FormWaits, Pages
  <1>1. CASE Queue
    BY <1>1 DEF Queue
  <1>2. ASSUME page' = page, run'.step = "none" => run.step = "none" PROVE Goal
    BY <1>2
  <1>3. CASE BeginRun \/ ReportProgress \/ UpdateProgress \/ UpdateFinal \/ LeaveRun \/ JobExpires
    BY <1>2, <1>3 DEF BeginRun, ReportProgress, UpdateProgress, UpdateFinal, ReadJob, LeaveRun,
                            JobExpires, Runs
  <1>4. ASSUME NEW status \in Finished \cup {"active"}, EndRun(status) PROVE Goal
    BY <1>2, <1>4 DEF EndRun, Runs
  <1>5. ASSUME NEW by \in {"chain", "end"}, WriteJob(by) \/ Publish(by) PROVE Goal
    BY <1>2, <1>5 DEF WriteJob, Publish
  <1>6. ASSUME NEW s \in Streams, Serve(s) \/ CloseStream(s) PROVE Goal
    BY <1>2, <1>6 DEF Serve, AcceptStream, Subscribe, SubscribeFails, CheckAgain, EndStream, CloseStream,
                      workerVars
  <1>7. ASSUME NEW s \in Streams, OpenStream(s) PROVE Goal
    BY <1>7 DEF OpenStream, workerVars
  <1>8. ASSUME NEW s \in Streams, Receive(s) \/ LoseStream(s) PROVE Goal
    BY <1>8 DEF Receive, LoseStream, Retry, SettleForm, workerVars
  <1>9. CASE AddJob
    BY <1>9 DEF AddJob, workerVars
  <1>10. CASE ListJobs \/ AskJob
    BY <1>10 DEF ListJobs, AskJob, workerVars
  <1>11. CASE ResumeJobs
    BY <1>11 DEF ResumeJobs, Keeps, workerVars
  <1>12. CASE Reload
    BY <1>12 DEF Reload, NewPage, workerVars
  <1> QED BY <1>1, <1>3, <1>4, <1>5, <1>6, <1>7, <1>8, <1>9, <1>10, <1>11, <1>12
          DEF FeedNext, WorkerStep, Watch, Follow

\* A connection that listens while its job has ended waits for a publication, or
\* one was lost.
LEMMA LiveStreamsEnd ==
    ASSUME WorkerTypeOK, StreamTypeOK, WritesInOrder, FeedNext,
           \A s \in Streams : serving[s] = "live" /\ job \in Finished =>
               dropped \/ \E by \in DOMAIN write : write[by].step = "publish"
    PROVE  (\A s \in Streams : serving[s] = "live" /\ job \in Finished =>
               dropped \/ \E by \in DOMAIN write : write[by].step = "publish")'
  <1> DEFINE Pending == \E by \in {"chain", "end"} : write[by].step = "publish"
  <1>0. /\ job \in Statuses /\ dropped \in BOOLEAN
        /\ write \in [{"chain", "end"} -> JobWrites]
        /\ serving \in [Streams -> {"none", "reading", "over"} \cup Holding]
        /\ DOMAIN write = {"chain", "end"}
    BY DEF WorkerTypeOK, StreamTypeOK
  <1>d. DOMAIN write' = {"chain", "end"}
    <2>1. WorkerTypeOK' \/ write' = write
      <3>1. CASE WorkerStep \/ JobExpires
        BY <3>1, WorkerTypes
      <3>2. CASE ~(WorkerStep \/ JobExpires)
        BY <3>2 DEF FeedNext, Serve, Watch, Follow, AcceptStream, Subscribe, SubscribeFails,
                    CheckAgain, EndStream, OpenStream, Receive, LoseStream, CloseStream, Reload,
                    AddJob, ListJobs, ResumeJobs, AskJob, workerVars
      <3> QED BY <3>1, <3>2
    <2> QED BY <1>0, <2>1 DEF WorkerTypeOK
  <1>e. \A s \in Streams : serving[s] = "live" /\ job \in Finished => dropped \/ Pending
    BY <1>0
  <1> SUFFICES ASSUME NEW t \in Streams, serving'[t] = "live", job' \in Finished, ~dropped'
               PROVE  \E by \in {"chain", "end"} : write'[by].step = "publish"
    BY <1>d
  <1> DEFINE Goal == \E by \in {"chain", "end"} : write'[by].step = "publish"
  <1>1. ASSUME serving' = serving, job' = job, dropped' = dropped, Pending => Goal PROVE Goal
    BY <1>0, <1>e, <1>1
  <1>2. CASE BeginRun \/ ReportProgress \/ LeaveRun \/ \E status \in Finished \cup {"active"} : EndRun(status)
    BY <1>1, <1>2 DEF BeginRun, ReportProgress, LeaveRun, EndRun, streamVars
  <1>3. CASE Queue
    BY <1>1, <1>3 DEF Queue, streamVars, Finished
  <1>4. ASSUME NEW w \in {"chain", "end"}, NEW status, ReadJob(w, status) PROVE Goal
    <2>1. Pending => Goal
      BY <1>0, <1>4 DEF ReadJob, NoWrite
    <2> QED BY <1>1, <1>4, <2>1 DEF ReadJob, streamVars
  <1>5. CASE UpdateProgress \/ UpdateFinal
    BY <1>4, <1>5 DEF UpdateProgress, UpdateFinal
  <1>6. ASSUME NEW w \in {"chain", "end"}, WriteJob(w) PROVE Goal
    BY <1>0, <1>6 DEF WriteJob
  <1>7. ASSUME NEW w \in {"chain", "end"}, Publish(w) PROVE Goal
    <2>1. serving[t] = "live" /\ job' = job /\ dropped' = dropped
          /\ (write[w].status \notin Finished \/ serving'[t] # "live")
      BY <1>0, <1>7 DEF Publish
    <2>2. job \in Finished => write[w].status \in Finished
      BY <1>0, <1>7 DEF Publish, WritesInOrder, NoWrite, Ended, Finished
    <2> QED BY <2>1, <2>2
  <1>8. CASE JobExpires
    BY <1>8 DEF JobExpires, Finished
  <1>9. ASSUME NEW s \in Streams, CheckAgain(s) PROVE Goal
    <2>1. job' = job /\ write' = write
      BY <1>9 DEF CheckAgain
    <2>2. PICK read \in {job, "none"} :
             /\ dropped' = (dropped \/ read # job)
             /\ IF FinishedBefore(read)
                THEN Ends(s, read)
                ELSE serving' = [serving EXCEPT ![s] = "live"]
      BY <1>9 DEF CheckAgain
    <2>3. read = job /\ ~dropped
      BY <2>2
    <2>4. serving' = [serving EXCEPT ![s] = "over"]
      BY <2>1, <2>2, <2>3 DEF FinishedBefore, Ends
    <2>5. serving[t] = "live"
      BY <1>0, <2>4
    <2> QED BY <1>e, <2>1, <2>3, <2>5
  <1>10. ASSUME NEW s \in Streams, Serve(s) \/ Watch(s), ~CheckAgain(s) PROVE Goal
    <2>1. serving[t] = "live"
      BY <1>0, <1>10 DEF Serve, Watch, AcceptStream, Subscribe, SubscribeFails, EndStream, OpenStream,
             Receive, LoseStream, CloseStream, Ends, streamVars
    <2>2. job' = job /\ write' = write /\ dropped' = dropped
      BY <1>10 DEF Serve, Watch, AcceptStream, Subscribe, SubscribeFails, EndStream, OpenStream,
             Receive, LoseStream, CloseStream, workerVars
    <2> QED BY <1>e, <2>1, <2>2
  <1>11. CASE Follow \/ Reload
    BY <1>1, <1>11 DEF Follow, Reload, AddJob, ListJobs, ResumeJobs, AskJob, workerVars, streamVars
  <1> QED BY <1>2, <1>3, <1>5, <1>6, <1>7, <1>8, <1>9, <1>10, <1>11 DEF FeedNext, WorkerStep

\* A connection that takes a slot, one that gives it back, and one that does neither.
LEMMA SlotOfStream ==
    ASSUME StreamTypeOK, NEW s \in Streams, NEW does,
           serving' = [serving EXCEPT ![s] = does]
    PROVE  LET holders == {t \in Streams : serving[t] \in Holding}
               holding == {t \in Streams : serving'[t] \in Holding}
           IN  /\ Cardinality(holders) \in Nat
               /\ (serving[s] \notin Holding /\ does \in Holding =>
                      Cardinality(holding) = Cardinality(holders) + 1)
               /\ (serving[s] \in Holding /\ does \notin Holding =>
                      Cardinality(holding) = Cardinality(holders) - 1)
               /\ ((serving[s] \in Holding <=> does \in Holding) =>
                      Cardinality(holding) = Cardinality(holders))
  <1> DEFINE holders == {t \in Streams : serving[t] \in Holding}
             holding == {t \in Streams : serving'[t] \in Holding}
  <1>1. IsFiniteSet(holders)
    BY FeedAssumption, FS_Subset
  <1>2. ASSUME serving[s] \notin Holding, does \in Holding
        PROVE  holding = holders \cup {s} /\ s \notin holders
    BY <1>2 DEF StreamTypeOK
  <1>3. ASSUME serving[s] \in Holding, does \notin Holding
        PROVE  holding = holders \ {s} /\ s \in holders
    BY <1>3 DEF StreamTypeOK
  <1>4. ASSUME serving[s] \in Holding <=> does \in Holding
        PROVE  holding = holders
    BY <1>4 DEF StreamTypeOK
  <1> HIDE DEF holders, holding
  <1>5. Cardinality(holders) \in Nat
    BY <1>1, FS_CardinalityType
  <1>6. \A x : x \notin holders => Cardinality(holders \cup {x}) = Cardinality(holders) + 1
    BY <1>1, FS_AddElement
  <1>7. \A x : x \in holders => Cardinality(holders \ {x}) = Cardinality(holders) - 1
    BY <1>1, FS_RemoveElement
  <1>8. /\ Cardinality(holders) \in Nat
        /\ (serving[s] \notin Holding /\ does \in Holding =>
               Cardinality(holding) = Cardinality(holders) + 1)
        /\ (serving[s] \in Holding /\ does \notin Holding =>
               Cardinality(holding) = Cardinality(holders) - 1)
        /\ ((serving[s] \in Holding <=> does \in Holding) =>
               Cardinality(holding) = Cardinality(holders))
    BY <1>2, <1>3, <1>4, <1>5, <1>6, <1>7
  <1> QED BY <1>8 DEF holders, holding

\* The slots taken are those of the connections that hold one.
LEMMA SlotsAreCounted ==
    ASSUME WorkerTypeOK, StreamTypeOK, FeedNext,
           streamsOpen = Cardinality({s \in Streams : serving[s] \in Holding})
    PROVE  (streamsOpen = Cardinality({s \in Streams : serving[s] \in Holding}))'
  <1> DEFINE holders == {t \in Streams : serving[t] \in Holding}
             holding == {t \in Streams : serving'[t] \in Holding}
             Goal == streamsOpen' = Cardinality(holding)
  <1>1. ASSUME serving' = serving, streamsOpen' = streamsOpen PROVE Goal
    BY <1>1
  <1>2. ASSUME NEW s \in Streams, NEW does, serving' = [serving EXCEPT ![s] = does],
               \/ serving[s] \notin Holding /\ does \in Holding /\ streamsOpen' = streamsOpen + 1
               \/ serving[s] \in Holding /\ does \notin Holding /\ streamsOpen' = streamsOpen - 1
               \/ (serving[s] \in Holding <=> does \in Holding) /\ streamsOpen' = streamsOpen
        PROVE  Goal
    <2>1. /\ Cardinality(holders) \in Nat
          /\ (serving[s] \notin Holding /\ does \in Holding =>
                 Cardinality(holding) = Cardinality(holders) + 1)
          /\ (serving[s] \in Holding /\ does \notin Holding =>
                 Cardinality(holding) = Cardinality(holders) - 1)
          /\ ((serving[s] \in Holding <=> does \in Holding) =>
                 Cardinality(holding) = Cardinality(holders))
      BY <1>2, SlotOfStream
    <2>2. streamsOpen = Cardinality(holders)
      OBVIOUS
    <2> HIDE DEF holders, holding
    <2> QED BY <1>2, <2>1, <2>2
  <1>3. CASE JobExpires \/ Follow \/ Reload
    BY <1>1, <1>3 DEF JobExpires, Follow, Reload, AddJob, ListJobs, ResumeJobs, AskJob, streamVars
  <1>4. ASSUME WorkerStep, \A w \in {"chain", "end"} : ~Publish(w) PROVE Goal
    BY <1>1, <1>4 DEF WorkerStep, Queue, BeginRun, ReportProgress, UpdateProgress, UpdateFinal, ReadJob,
                      LeaveRun, EndRun, WriteJob, streamVars
  <1>5. ASSUME NEW w \in {"chain", "end"}, Publish(w) PROVE Goal
    <2> DEFINE listeners == {s \in Streams : serving[s] \in {"checking", "live"}}
               ended == IF write[w].status \in Finished THEN listeners ELSE {}
    <2>1. CASE UNCHANGED streamVars
      BY <1>1, <2>1 DEF streamVars
    <2>2. CASE /\ serving' = [s \in Streams |-> IF s \in ended THEN "over" ELSE serving[s]]
               /\ streamsOpen' = streamsOpen - Cardinality(ended)
      <3>1. IsFiniteSet(holders)
        BY FeedAssumption, FS_Subset
      <3>2. ended \subseteq holders
        BY DEF Holding
      <3>3. holding = holders \ ended
        BY <2>2 DEF Holding, StreamTypeOK
      <3>4. streamsOpen = Cardinality(holders)
        OBVIOUS
      <3> HIDE DEF holders, holding, listeners, ended
      <3>5. holders \cap ended = ended /\ IsFiniteSet(ended)
        BY <3>1, <3>2, FS_Subset
      <3>6. Cardinality(holders \ ended) = Cardinality(holders) - Cardinality(holders \cap ended)
        BY <3>1, FS_Difference
      <3> QED BY <2>2, <3>3, <3>4, <3>5, <3>6
    <2> QED BY <1>5, <2>1, <2>2 DEF Publish
  <1>6. ASSUME NEW s \in Streams, Serve(s) \/ Watch(s) PROVE Goal
    <2>1. CASE AcceptStream(s)
      <3>1. serving[s] = "reading"
        BY <2>1 DEF AcceptStream
      <3>2. \/ serving' = [serving EXCEPT ![s] = "over"] /\ streamsOpen' = streamsOpen
            \/ serving' = [serving EXCEPT ![s] = "subscribing"] /\ streamsOpen' = streamsOpen + 1
        BY <2>1 DEF AcceptStream, Ends
      <3> HIDE DEF Goal
      <3> QED BY <1>2, <3>1, <3>2 DEF Holding
    <2>2. CASE Subscribe(s)
      <3> HIDE DEF Goal
      <3> QED BY <1>2, <2>2 DEF Subscribe, Holding
    <2>3. CASE SubscribeFails(s) \/ EndStream(s)
      <3> HIDE DEF Goal
      <3> QED BY <1>2, <2>3 DEF SubscribeFails, EndStream, Ends, Holding
    <2>4. CASE CheckAgain(s)
      <3>1. serving[s] = "checking"
        BY <2>4 DEF CheckAgain
      <3>2. \/ serving' = [serving EXCEPT ![s] = "over"] /\ streamsOpen' = streamsOpen - 1
            \/ serving' = [serving EXCEPT ![s] = "live"] /\ streamsOpen' = streamsOpen
        BY <2>4 DEF CheckAgain, Ends
      <3> HIDE DEF Goal
      <3> QED BY <1>2, <3>1, <3>2 DEF Holding
    <2>5. CASE OpenStream(s) \/ CloseStream(s)
      <3> HIDE DEF Goal
      <3> QED BY <1>2, <2>5 DEF OpenStream, CloseStream, Holding
    <2>6. CASE Receive(s) \/ LoseStream(s)
      BY <1>1, <2>6 DEF Receive, LoseStream, streamVars
    <2> QED BY <1>6, <2>1, <2>2, <2>3, <2>4, <2>5, <2>6 DEF Serve, Watch
  <1> QED BY <1>3, <1>4, <1>5, <1>6 DEF FeedNext, WorkerStep

\* The invariant holds of an idle feed.
LEMMA FeedInvInit == FeedInit => FeedInv
  <1> SUFFICES ASSUME FeedInit PROVE FeedInv
    OBVIOUS
  <1> USE FeedAssumption DEF FeedInit, NoWrite
  <1>1. WorkerTypeOK
    <2>1. run \in Runs
      BY DEF Runs, Statuses
    <2>2. write \in [{"chain", "end"} -> JobWrites]
      BY DEF JobWrites, Statuses
    <2>3. reports \in Seq({"active", "same"})
      OBVIOUS
    <2> QED BY <2>1, <2>2, <2>3 DEF WorkerTypeOK, Statuses
  <1>2. StreamTypeOK
    BY DEF StreamTypeOK
  <1>3. page \in Pages
    BY DEF Pages, NewPage
  <1>4. WritesInOrder
    BY DEF WritesInOrder, Ended, Finished
  <1>5. page.form = "none" /\ WatchListIsRight
    BY DEF WatchListIsRight, FormWaits, NewPage
  <1>6. {s \in Streams : serving[s] \in Holding} = {}
    BY DEF Holding
  <1>7. StreamsFollowJobs
    BY <1>6, FS_EmptySet DEF StreamsFollowJobs, Finished
  <1> QED BY <1>1, <1>2, <1>3, <1>4, <1>5, <1>7 DEF FeedInv, FeedTypeOK, PageFollowsJob

\* Every step keeps the invariant.
LEMMA FeedInvStep == FeedInv /\ [FeedNext]_feedVars => FeedInv'
  <1> SUFFICES ASSUME FeedInv, [FeedNext]_feedVars PROVE FeedInv'
    OBVIOUS
  <1>1. CASE FeedNext
    <2>0. /\ FeedTypeOK /\ WorkerTypeOK /\ StreamTypeOK /\ WritesInOrder
          /\ (run.step = "none" => page.form = "none")
          /\ WatchListIsRight /\ StreamsFollowJobs
      BY DEF FeedInv, FeedTypeOK, PageFollowsJob
    <2>1. FeedTypeOK'
      <3>1. CASE WorkerStep \/ JobExpires
        <4>1. WorkerTypeOK'
          BY <2>0, <3>1, WorkerTypes
        <4>2. CASE Queue
          <5>1. page' \in Pages
            BY <2>0, <4>2 DEF FeedTypeOK, Queue, Pages
          <5> QED BY <2>0, <4>1, <4>2, <5>1 DEF Queue, FeedTypeOK, StreamTypeOK, streamVars
        <4>3. ASSUME NEW w \in {"chain", "end"}, Publish(w) PROVE FeedTypeOK'
          <5>1. write[w].status \in Statuses
            BY <2>0 DEF WorkerTypeOK, JobWrites
          <5>2. StreamTypeOK'
            BY <2>0, <4>3, <5>1 DEF Publish, StreamTypeOK, streamVars, Statuses, Holding
          <5> QED BY <2>0, <4>1, <4>3, <5>2 DEF Publish, FeedTypeOK
        <4>4. ASSUME ~Queue, \A w \in {"chain", "end"} : ~Publish(w) PROVE FeedTypeOK'
          <5>1. UNCHANGED <<serving, answer, page>>
            BY <3>1, <4>4 DEF WorkerStep, BeginRun, ReportProgress, UpdateProgress, UpdateFinal, ReadJob,
                 LeaveRun, EndRun, WriteJob, JobExpires, streamVars
          <5> QED BY <2>0, <4>1, <5>1 DEF FeedTypeOK, StreamTypeOK
        <4> QED BY <4>2, <4>3, <4>4
      <3> QED BY <1>1, <2>0, <3>1, StreamTypes, PageTypes DEF FeedNext
    <2>2. WritesInOrder'
      BY <1>1, <2>0, WritesStayInOrder
    <2>3. (run.step = "none" => page.form = "none")' /\ WatchListIsRight'
      BY <1>1, <2>0, WatchListStaysRight
    <2>4. StreamsFollowJobs'
      BY <1>1, <2>0, LiveStreamsEnd, SlotsAreCounted DEF StreamsFollowJobs
    <2> QED BY <2>1, <2>2, <2>3, <2>4 DEF FeedInv, PageFollowsJob
  <1>2. CASE UNCHANGED feedVars
    BY <1>2 DEF feedVars, workerVars, streamVars, FeedInv, FeedTypeOK, WorkerTypeOK, StreamTypeOK, WritesInOrder,
                PageFollowsJob, WatchListIsRight, StreamsFollowJobs, FormWaits, Ended
  <1> QED BY <1>1, <1>2

\* The page watches the jobs it has to hear of, whatever list the server sends, and
\* the streams it watches end with their jobs and give back their slots
\* (job-watcher.ts:33, job.controller.ts:138), for every number of connections,
\* reports and runs.
THEOREM PageFollows == FeedSpec => []PageFollowsJob
  <1>1. FeedSpec => []FeedInv
    BY FeedInvInit, FeedInvStep, PTL DEF FeedSpec
  <1>2. FeedInv => PageFollowsJob
    BY DEF FeedInv
  <1> QED BY <1>1, <1>2, PTL

\* A job that has ended keeps its status: no report of its own chain, and no run
\* that comes back, writes over it (import-queue.service.ts:107).
THEOREM FinalStays == FeedSpec => FinalStatusStays
  <1>1. FeedSpec => []FeedInv
    BY FeedInvInit, FeedInvStep, PTL DEF FeedSpec
  <1>2. FeedInv /\ [FeedNext]_feedVars => [(job \in Finished) => (job' = job \/ job' = "none")]_feedVars
    <2> SUFFICES ASSUME FeedInv, FeedNext, job \in Finished PROVE job' = job \/ job' = "none"
      BY DEF feedVars
    <2>1. WorkerTypeOK /\ WritesInOrder /\ job # "none"
      BY DEF FeedInv, FeedTypeOK, Finished
    <2>2. CASE Queue
      <3>1. run.step # "none"
        BY <2>1 DEF WritesInOrder, Ended
      <3> QED BY <2>2, <3>1 DEF Queue
    <2>3. ASSUME NEW w \in {"chain", "end"}, WriteJob(w) PROVE FALSE
      BY <2>1, <2>3 DEF WriteJob, WritesInOrder, Ended, NoWrite, Finished
    <2>4. ASSUME ~Queue, \A w \in {"chain", "end"} : ~WriteJob(w) PROVE job' = job \/ job' = "none"
      BY <2>4 DEF FeedNext, WorkerStep, Serve, Watch, Follow, AcceptStream, Subscribe, SubscribeFails,
           CheckAgain, EndStream, OpenStream, Receive, LoseStream, CloseStream, Reload, AddJob, ListJobs,
           ResumeJobs, AskJob, workerVars, BeginRun, ReportProgress, UpdateProgress, UpdateFinal, ReadJob,
           LeaveRun, EndRun, Publish, JobExpires
    <2> QED BY <2>2, <2>3, <2>4
  <1> QED BY <1>1, <1>2, PTL DEF FeedSpec, FinalStatusStays

-----------------------------------------------------------------------------
(* The commit reported                                                     *)

\* One commit is agreed on where there is no other.
LEMMA AgreedIsAll ==
    ASSUME NEW vs, IsFiniteSet(vs), Agreed(vs) # None, NEW v \in vs
    PROVE  v = Agreed(vs)
  <1>1. Cardinality(vs) = 1
    BY DEF Agreed
  <1>2. PICK c : vs = {c}
    BY <1>1, FS_Singleton
  <1>3. Agreed(vs) = CHOOSE x \in vs : TRUE
    BY <1>1 DEF Agreed
  <1> QED BY <1>2, <1>3

\* No copy started, and nobody read.
LEMMA HealthInvInit == HealthInit => HealthInv
  <1> SUFFICES ASSUME HealthInit PROVE HealthInv
    OBVIOUS
  <1>1. HealthTypeOK
    <2>1. reader = Idle /\ IsFiniteSet(Idle.heard)
      BY FS_EmptySet DEF HealthInit, Idle
    <2> QED BY <2>1 DEF HealthInit, HealthTypeOK, Idle
  <1>2. present = {}
    BY DEF HealthInit
  <1> QED BY <1>1, <1>2 DEF HealthInv, CommitIsEverywhere

\* What copies do while the reader waits.
LEMMA CopyStep ==
    ASSUME HealthInv, UNCHANGED reader,
           HealthTypeOK', present' \subseteq present,
           \A r \in present' : /\ running'[r] = running[r]
                               /\ beats'[r] = beats[r] \/ beats'[r] = running[r]
    PROVE  HealthInv'
  BY DEF HealthInv, StaysLive, CommitIsEverywhere

\* Every step of a copy, of a key that expires and of the reader.
LEMMA HealthInvStep == HealthInv /\ [HealthNext]_healthVars => HealthInv'
  <1> SUFFICES ASSUME HealthInv, [HealthNext]_healthVars PROVE HealthInv'
    OBVIOUS
  <1>0. /\ running \in [Replicas -> Shas \cup {None}] /\ beats \in [Replicas -> Shas \cup {None}]
        /\ replicas \subseteq Replicas /\ joining \subseteq Replicas /\ legacy \in Shas \cup {None}
        /\ reader \in [at : {"idle", "reading", "late", "reported"}, left : SUBSET Replicas,
                       forgets : Replicas \cup {None}, heard : SUBSET Shas, commit : Shas \cup {None}]
        /\ IsFiniteSet(reader.heard)
        /\ \A r \in present : StaysLive(r) /\ r \in Replicas
    BY DEF HealthInv, HealthTypeOK, StaysLive
  <1>1. ASSUME NEW r \in Replicas, NEW v \in Shas, CopyStarts(r, v) PROVE HealthInv'
    <2>1. /\ running' = [running EXCEPT ![r] = v] /\ running[r] = None
          /\ UNCHANGED <<joining, replicas, beats, legacy, reader, present>>
      BY <1>1 DEF CopyStarts
    <2>2. HealthTypeOK'
      BY <1>0, <2>1 DEF HealthTypeOK
    <2>3. \A q \in present : q # r
      BY <1>0, <2>1 DEF StaysLive
    <2> QED BY <1>0, <2>1, <2>2, <2>3, CopyStep
  <1>2. ASSUME NEW r \in Replicas, CopyStops(r) PROVE HealthInv'
    <2>1. HealthTypeOK'
      BY <1>0, <1>2 DEF CopyStops, HealthTypeOK
    <2> QED BY <1>0, <1>2, <2>1, CopyStep DEF CopyStops
  <1>3. ASSUME NEW r \in Replicas, BeginsBeat(r) PROVE HealthInv'
    <2>1. HealthTypeOK'
      BY <1>0, <1>3 DEF BeginsBeat, HealthTypeOK
    <2> QED BY <1>0, <1>3, <2>1, CopyStep DEF BeginsBeat
  <1>4. ASSUME NEW r \in Replicas, EndsBeat(r) PROVE HealthInv'
    <2>1. HealthTypeOK'
      BY <1>0, <1>4 DEF EndsBeat, HealthTypeOK
    <2>2. \A q \in present : beats'[q] = beats[q] \/ beats'[q] = running[q]
      BY <1>0, <1>4 DEF EndsBeat
    <2> QED BY <1>0, <1>4, <2>1, <2>2, CopyStep DEF EndsBeat
  <1>5. ASSUME NEW r \in Replicas, BeatExpires(r) PROVE HealthInv'
    <2>1. HealthTypeOK'
      BY <1>0, <1>5 DEF BeatExpires, HealthTypeOK, copyVars
    <2> QED BY <1>0, <1>5, <2>1, CopyStep DEF BeatExpires, copyVars
  <1>6. CASE LegacyExpires
    <2>1. HealthTypeOK'
      BY <1>0, <1>6 DEF LegacyExpires, HealthTypeOK, copyVars
    <2> QED BY <1>0, <1>6, <2>1, CopyStep DEF LegacyExpires, copyVars
  <1>7. CASE ReadCopies
    <2>1. /\ reader' = [Idle EXCEPT !.at = "reading", !.left = replicas]
          /\ present' = {r \in replicas : beats[r] # None /\ beats[r] = running[r]}
          /\ UNCHANGED <<running, joining, replicas, beats, legacy>>
      BY <1>7 DEF ReadCopies, copyVars
    <2>2. reader' = [at |-> "reading", left |-> replicas, forgets |-> None, heard |-> {}, commit |-> None]
      BY <2>1 DEF Idle
    <2>3. /\ reader'.at = "reading" /\ reader'.left = replicas /\ reader'.forgets = None
          /\ reader'.heard = {} /\ reader'.commit = None
      BY <2>2
    <2>4. IsFiniteSet(reader'.heard)
      BY <2>3, FS_EmptySet
    <2>5. reader' \in [at : {"idle", "reading", "late", "reported"}, left : SUBSET Replicas,
                      forgets : Replicas \cup {None}, heard : SUBSET Shas, commit : Shas \cup {None}]
      BY <1>0, <2>2
    <2>6. HealthTypeOK'
      BY <1>0, <2>1, <2>4, <2>5 DEF HealthTypeOK
    <2>7. \A r \in present' : StaysLive(r)'
      BY <1>0, <2>1, <2>3 DEF StaysLive
    <2> QED BY <2>3, <2>6, <2>7 DEF HealthInv, CommitIsEverywhere
  <1>8. ASSUME NEW r \in Replicas, ReadBeat(r) PROVE HealthInv'
    <2>1. /\ reader.at \in {"reading", "late"} /\ r \in reader.left
          /\ UNCHANGED <<running, joining, replicas, beats, legacy, present>>
      BY <1>8 DEF ReadBeat, copyVars
    <2>2. CASE beats[r] = None
      <3>1. reader' = [reader EXCEPT !.forgets = r]
        BY <1>8, <2>2 DEF ReadBeat
      <3>2. HealthTypeOK'
        BY <1>0, <2>1, <3>1 DEF HealthTypeOK
      <3>3. \A q \in present : q # r
        BY <1>0, <2>2 DEF StaysLive
      <3> QED BY <1>0, <2>1, <3>1, <3>2, <3>3 DEF HealthInv, StaysLive, CommitIsEverywhere
    <2>3. CASE beats[r] # None
      <3>1. reader' = [reader EXCEPT !.left = reader.left \ {r}, !.heard = reader.heard \cup {beats[r]}]
        BY <1>8, <2>3 DEF ReadBeat
      <3>2. /\ reader'.at = reader.at /\ reader'.forgets = reader.forgets
            /\ reader'.left = reader.left \ {r} /\ reader'.heard = reader.heard \cup {beats[r]}
        BY <1>0, <3>1
      <3>5. IsFiniteSet(reader'.heard)
        BY <1>0, <3>2, FS_AddElement
      <3>3. HealthTypeOK'
        BY <1>0, <2>1, <2>3, <3>1, <3>5 DEF HealthTypeOK
      <3>4. \A q \in present : StaysLive(q)'
        BY <1>0, <2>1, <3>2 DEF StaysLive
      <3> QED BY <2>1, <3>2, <3>3, <3>4 DEF HealthInv, CommitIsEverywhere
    <2> QED BY <2>2, <2>3
  <1>9. CASE Forget
    <2>1. /\ reader.forgets # None
          /\ reader' = [reader EXCEPT !.forgets = None, !.left = reader.left \ {reader.forgets}]
          /\ replicas' = replicas \ {reader.forgets}
          /\ UNCHANGED <<running, joining, beats, legacy, present>>
      BY <1>9 DEF Forget, copyVars
    <2>2. HealthTypeOK'
      BY <1>0, <2>1 DEF HealthTypeOK
    <2>3. /\ reader'.at = reader.at /\ reader'.forgets = None /\ reader'.commit = reader.commit
          /\ reader'.left = reader.left \ {reader.forgets} /\ reader'.heard = reader.heard
      BY <1>0, <2>1
    <2>4. \A q \in present : StaysLive(q)'
      BY <1>0, <2>1, <2>3 DEF StaysLive
    <2> QED BY <2>1, <2>2, <2>3, <2>4 DEF HealthInv, CommitIsEverywhere
  <1>10. CASE Report
    <2> DEFINE vs == reader.heard \cup (IF legacy = None THEN {} ELSE {legacy})
    <2>1. /\ reader.left = {} /\ reader' = [reader EXCEPT !.at = "reported", !.commit = Agreed(vs)]
          /\ UNCHANGED <<running, joining, replicas, beats, legacy, present>>
      BY <1>10 DEF Report, copyVars
    <2>2. IsFiniteSet(vs) /\ vs \subseteq Shas
      <3>1. CASE legacy = None
        BY <1>0, <3>1
      <3>2. CASE legacy # None
        <4>1. IsFiniteSet(reader.heard \cup {legacy})
          BY <1>0, FS_AddElement
        <4> QED BY <1>0, <3>2, <4>1
      <3> QED BY <3>1, <3>2
    <2> HIDE DEF vs
    <2>3. Agreed(vs) \in Shas \cup {None}
      <3>1. CASE Agreed(vs) = None
        BY <3>1
      <3>2. CASE Cardinality(vs) = 1
        <4>1. PICK c : vs = {c}
          BY <2>2, <3>2, FS_Singleton
        <4> QED BY <2>2, <3>2, <4>1 DEF Agreed
      <3> QED BY <3>1, <3>2 DEF Agreed
    <2>4. HealthTypeOK'
      BY <1>0, <2>1, <2>3 DEF HealthTypeOK
    <2>5. /\ reader'.forgets = reader.forgets /\ reader'.commit = Agreed(vs)
          /\ reader'.left = {} /\ reader'.heard = reader.heard
      BY <1>0, <2>1
    <2>6. \A q \in present : StaysLive(q)' /\ running[q] \in vs
      BY <1>0, <2>1, <2>5 DEF StaysLive, vs
    <2>7. CommitIsEverywhere'
      BY <2>1, <2>2, <2>5, <2>6, AgreedIsAll DEF CommitIsEverywhere
    <2> QED BY <2>1, <2>4, <2>6, <2>7 DEF HealthInv
  <1>11. CASE ReadIsLate
    <2>1. /\ reader' = [reader EXCEPT !.at = "late"]
          /\ UNCHANGED <<running, joining, replicas, beats, legacy, present>>
      BY <1>11 DEF ReadIsLate, copyVars
    <2>2. HealthTypeOK'
      BY <1>0, <2>1 DEF HealthTypeOK
    <2> QED BY <1>0, <2>1, <2>2 DEF HealthInv, StaysLive, CommitIsEverywhere
  <1>12. CASE UNCHANGED healthVars
    BY <1>12 DEF healthVars, copyVars, HealthInv, HealthTypeOK, StaysLive, CommitIsEverywhere
  <1> QED BY <1>1, <1>2, <1>3, <1>4, <1>5, <1>6, <1>7, <1>8, <1>9, <1>10, <1>11, <1>12 DEF HealthNext

\* However copies start, stop, beat and expire while GET /health reads them, the
\* commit it reports is the one of every copy live throughout (health/heartbeat.ts).
THEOREM ReportIsAgreed == HealthSpec => []CommitIsEverywhere
  <1>1. HealthSpec => []HealthInv
    BY HealthInvInit, HealthInvStep, PTL DEF HealthSpec
  <1> QED BY <1>1, PTL DEF HealthInv

-----------------------------------------------------------------------------
(* The promotion of a user                                                 *)

USE MaxFaultsAssumption, LevelAssumption

\* What a request does to the types, kind of step by kind of step.
LEMMA LevelStepType == LevelTypeOK /\ [LevelNext]_levelVars => LevelTypeOK'
  <1> SUFFICES ASSUME LevelTypeOK, [LevelNext]_levelVars PROVE LevelTypeOK'
    OBVIOUS
  <1> USE DEF LevelTypeOK, Places, Phases, Goes, Fault, NoFault, requestVars, historyVars
  <1>1. ASSUME NEW r \in Completions, NEW g \in Games, StoreGame(r, g) \/ StoreFails(r, g)
        PROVE  LevelTypeOK'
    <2>1. hash' \in SUBSET Games
      BY <1>1 DEF StoreGame, StoreFails
    <2>2. faults' \in 0..MaxFaults
      <3>1. (faults < MaxFaults /\ faults' = faults + 1) \/ faults' = faults
        BY <1>1 DEF StoreGame, StoreFails
      <3> HIDE <1>1
      <3> QED BY <3>1
    <2>3. /\ phase' \in [Completions -> Phases]
          /\ game' \in [Completions -> Games \cup {None}]
          /\ \A q \in Completions : phase'[q] = "reading" => game'[q] \in Games
          /\ due' \in [Completions -> SUBSET Words]
      BY <1>1 DEF StoreGame, StoreFails, Record
    <2>4. /\ stored' \in [Completions -> BOOLEAN]
          /\ played' \in SUBSET Games
          /\ UNCHANGED <<word, unsure>> /\ noneDue' = FALSE
      BY <1>1 DEF StoreGame, StoreFails, Record
    <2> QED BY <2>1, <2>2, <2>3, <2>4
  <1>2. ASSUME NEW r \in Completions, ReadHash(r) \/ ReadFails(r) PROVE LevelTypeOK'
    <2>1. CASE ReadHash(r)
      BY <2>1 DEF ReadHash
    <2>2. CASE ReadFails(r)
      <3>1. \E to \in {"checking", "idle"} : phase' = [phase EXCEPT ![r] = to]
        BY <2>2 DEF ReadFails
      <3>2. faults' \in 0..MaxFaults
        BY <2>2 DEF ReadFails
      <3> QED BY <2>2, <3>1, <3>2 DEF ReadFails
    <2> QED BY <1>2, <2>1, <2>2
  <1>3. ASSUME NEW r \in Completions, FindDue(r) \/ FindNothingDue(r) PROVE LevelTypeOK'
    <2>1. CASE FindDue(r)
      <3>1. DueWords \in SUBSET Words
        BY DEF DueWords
      <3> QED BY <2>1, <3>1 DEF FindDue
    <2>2. CASE FindNothingDue(r)
      BY <2>2 DEF FindNothingDue
    <2> QED BY <1>3, <2>1, <2>2
  <1>4. ASSUME NEW r \in Completions, Claim(r) \/ ClaimLate(r) \/ ClaimFails(r) PROVE LevelTypeOK'
    <2>1. hash' \in SUBSET Games /\ played' \in SUBSET Games /\ unsure' \in BOOLEAN
      BY <1>4 DEF Claim, ClaimLate, ClaimFails
    <2>2. faults' \in 0..MaxFaults
      BY <1>4 DEF Claim, ClaimLate, ClaimFails
    <2>3. \E to \in {"promoting", "idle"} : phase' = [phase EXCEPT ![r] = to]
      BY <1>4 DEF Claim, ClaimLate, ClaimFails
    <2>4. UNCHANGED <<word, game, stored, due, noneDue>>
      BY <1>4 DEF Claim, ClaimLate, ClaimFails
    <2> QED BY <2>1, <2>2, <2>3, <2>4
  <1>5. ASSUME NEW r \in Completions, Promote(r) \/ Stop(r) PROVE LevelTypeOK'
    BY <1>5 DEF Promote, Stop, Moves
  <1>6. CASE ClearLevel
    BY <1>6 DEF ClearLevel
  <1>7. ASSUME NEW w \in Words, EditWord(w) PROVE LevelTypeOK'
    BY <1>7 DEF EditWord
  <1>8. CASE UNCHANGED levelVars
    BY <1>8 DEF levelVars
  <1> QED BY <1>1, <1>2, <1>3, <1>4, <1>5, <1>6, <1>7, <1>8 DEF LevelNext, Track

-----------------------------------------------------------------------------
\* The inductive invariant: a game of the hash was played since the level was
\* last cleared.
THEOREM LevelInvariance == LevelSpec => []LevelIInv
  <1>1. LevelInit => LevelIInv
    <2> SUFFICES ASSUME LevelInit PROVE LevelIInv
      OBVIOUS
    <2>1. faults \in 0..MaxFaults
      BY DEF LevelInit
    <2> QED BY <2>1 DEF LevelInit, LevelIInv, LevelTypeOK, Places, Phases
  <1>2. LevelIInv /\ [LevelNext]_levelVars => LevelIInv'
    <2> SUFFICES ASSUME LevelIInv, [LevelNext]_levelVars PROVE hash' \subseteq played'
      BY LevelStepType DEF LevelIInv
    <2> USE DEF LevelIInv
    <2>1. ASSUME NEW r \in Completions, NEW g \in Games, StoreGame(r, g) \/ StoreFails(r, g)
          PROVE  hash' \subseteq played'
      BY <2>1 DEF StoreGame, StoreFails, Record
    <2>2. ASSUME NEW r \in Completions, Claim(r) \/ ClaimLate(r) \/ ClaimFails(r)
          PROVE  hash' \subseteq played'
      BY <2>2 DEF Claim, ClaimLate, ClaimFails, historyVars
    <2>3. ASSUME NEW r \in Completions,
                 \/ ReadHash(r) \/ ReadFails(r) \/ FindDue(r) \/ FindNothingDue(r)
                 \/ Promote(r) \/ Stop(r)
          PROVE  hash' \subseteq played'
      BY <2>3 DEF ReadHash, ReadFails, FindDue, FindNothingDue, Promote, Stop, historyVars
    <2>4. CASE ClearLevel \/ (\E w \in Words : EditWord(w)) \/ UNCHANGED levelVars
      BY <2>4 DEF ClearLevel, EditWord, historyVars, levelVars
    <2> QED BY <2>1, <2>2, <2>3, <2>4 DEF LevelNext, Track
  <1> QED BY <1>1, <1>2, PTL DEF LevelSpec

-----------------------------------------------------------------------------
\* Games played once promote once: a request that promotes by its claim takes
\* every game of the level, played since the last claim (learning.service.ts:79).
THEOREM PromotionPaid == LevelSpec => PromotionIsPaid
  <1>1. LevelIInv /\ [LevelNext]_levelVars =>
          [\A r \in Completions :
             phase[r] = "claiming" /\ phase'[r] = "promoting" => played = Games \/ unsure']_levelVars
    <2> SUFFICES ASSUME LevelIInv, LevelNext, NEW r \in Completions,
                        phase[r] = "claiming", phase'[r] = "promoting"
                 PROVE  played = Games \/ unsure'
      OBVIOUS
    <2>1. ASSUME NEW q \in Completions, Claim(q) \/ ClaimLate(q) \/ ClaimFails(q)
          PROVE  played = Games \/ unsure'
      BY <2>1 DEF LevelIInv, LevelTypeOK, Claim, ClaimLate, ClaimFails, Goes, TakesAll
    <2>2. ASSUME NEW q \in Completions,
                 \/ \E g \in Games : StoreGame(q, g) \/ StoreFails(q, g)
                 \/ ReadHash(q) \/ ReadFails(q) \/ FindDue(q) \/ FindNothingDue(q)
                 \/ Promote(q) \/ Stop(q)
          PROVE  FALSE
      <3>2. \E to \in Phases \ {"promoting"} : phase' = [phase EXCEPT ![q] = to]
        BY <2>2 DEF StoreGame, StoreFails, Record, ReadHash, ReadFails, FindDue, FindNothingDue,
                    Promote, Stop, Goes, Phases
      <3> QED BY <3>2 DEF LevelIInv, LevelTypeOK
    <2>3. CASE ClearLevel \/ (\E w \in Words : EditWord(w))
      BY <2>3 DEF ClearLevel, EditWord, requestVars
    <2> QED BY <2>1, <2>2, <2>3 DEF LevelNext, Track
  <1> QED BY <1>1, LevelInvariance, PTL DEF LevelSpec, PromotionIsPaid

\* A word the user moved meanwhile is not promoted, and no other step moves
\* words to the next level (learning.service.ts:199).
THEOREM EditsKept == LevelSpec => EditsAreKept
  <1>1. LevelIInv /\ [LevelNext]_levelVars => [\A w \in Words : word[w] = "other" => word'[w] # "next"]_levelVars
    <2> SUFFICES ASSUME LevelIInv, LevelNext, NEW w \in Words, word[w] = "other", word'[w] = "next"
                 PROVE  FALSE
      OBVIOUS
    <2>1. ASSUME NEW r \in Completions, Track(r) PROVE FALSE
      <3>1. CASE Promote(r)
        BY <3>1 DEF Promote, Moves
      <3>2. CASE ~Promote(r)
        <4>1. UNCHANGED word
          BY <2>1, <3>2 DEF Track, StoreGame, StoreFails, Record, ReadHash, ReadFails, FindDue,
                            FindNothingDue, Claim, ClaimLate, ClaimFails, Stop
        <4> QED BY <4>1
      <3> QED BY <3>1, <3>2
    <2>2. CASE ClearLevel
      BY <2>2 DEF ClearLevel
    <2>3. ASSUME NEW v \in Words, EditWord(v) PROVE FALSE
      BY <2>3 DEF EditWord, LevelIInv, LevelTypeOK
    <2> QED BY <2>1, <2>2, <2>3 DEF LevelNext
  <1> QED BY <1>1, LevelInvariance, PTL DEF LevelSpec, EditsAreKept

\* A full level is never left alone: of two last games completed together one
\* request sees it complete, and only a promotion, a clearing or a request that
\* finds nothing due ends its work (learning.service.ts:47, learning.service.ts:54).
THEOREM FullLevelSeen == LevelSpec => []FullLevelIsSeen
  <1>1. LevelInit => FullLevelIsSeen
    BY DEF LevelInit, FullLevelIsSeen
  <1>2. LevelTypeOK /\ FullLevelIsSeen /\ [LevelNext]_levelVars => FullLevelIsSeen'
    <2> SUFFICES ASSUME LevelTypeOK, FullLevelIsSeen, [LevelNext]_levelVars PROVE FullLevelIsSeen'
      OBVIOUS
    <2> DEFINE AtWork(p) == \E q \in Completions : p[q] \in {"reading", "checking", "claiming"}
    <2>0. /\ phase \in [Completions -> Phases] /\ faults \in Nat
          /\ faults = 0 /\ hash = Games => noneDue \/ AtWork(phase)
      BY DEF LevelTypeOK, FullLevelIsSeen
    \* Steps that keep what the level and the requests at work are.
    <2>1. ASSUME hash' = hash, faults' = faults, noneDue' = noneDue, AtWork(phase) => AtWork(phase')
          PROVE  FullLevelIsSeen'
      BY <2>0, <2>1 DEF FullLevelIsSeen
    <2>2. ASSUME hash' = {} \/ faults' # 0 PROVE FullLevelIsSeen'
      BY <2>2 DEF FullLevelIsSeen
    <2>3. ASSUME NEW r \in Completions, NEW to \in {"reading", "checking", "claiming"},
                 phase' = [phase EXCEPT ![r] = to]
          PROVE  FullLevelIsSeen'
      BY <2>0, <2>3 DEF FullLevelIsSeen
    <2>4. ASSUME NEW r \in Completions, NEW g \in Games, StoreGame(r, g) \/ StoreFails(r, g)
          PROVE  FullLevelIsSeen'
      BY <2>3, <2>4 DEF StoreGame, StoreFails, Record, Goes
    <2>5. ASSUME NEW r \in Completions, ReadHash(r) PROVE FullLevelIsSeen'
      <3>1. CASE SeesAll(r)
        BY <2>3, <2>5, <3>1 DEF ReadHash, Goes
      <3>2. CASE ~SeesAll(r)
        <4>1. hash # Games
          BY <2>5, <3>2 DEF SeesAll, LevelTypeOK, ReadHash, Goes
        <4> QED BY <2>5, <4>1 DEF ReadHash, FullLevelIsSeen
      <3> QED BY <3>1, <3>2
    <2>6. ASSUME NEW r \in Completions, FindDue(r) PROVE FullLevelIsSeen'
      BY <2>3, <2>6 DEF FindDue, Goes
    <2>7. ASSUME NEW r \in Completions, FindNothingDue(r) PROVE FullLevelIsSeen'
      BY <2>7 DEF FindNothingDue, FullLevelIsSeen
    <2>8. ASSUME NEW r \in Completions, Claim(r) \/ ClaimLate(r) PROVE FullLevelIsSeen'
      BY <2>2, <2>8 DEF Claim, ClaimLate
    <2>9. ASSUME NEW r \in Completions, Promote(r) PROVE FullLevelIsSeen'
      <3>1. phase[r] = "promoting" /\ phase' = [phase EXCEPT ![r] = "idle"]
        BY <2>9 DEF Promote, Goes
      <3>2. AtWork(phase) => AtWork(phase')
        BY <2>0, <3>1
      <3> QED BY <2>1, <2>9, <3>2 DEF Promote, NoFault, historyVars
    <2>10. ASSUME NEW r \in Completions, ReadFails(r) \/ ClaimFails(r) \/ Stop(r) PROVE FullLevelIsSeen'
      <3>1. faults' = faults + 1
        BY <2>10 DEF ReadFails, ClaimFails, Stop, Fault
      <3> QED BY <2>0, <2>2, <3>1
    <2>11. CASE ClearLevel
      BY <2>2, <2>11 DEF ClearLevel
    <2>12. ASSUME NEW w \in Words, EditWord(w) PROVE FullLevelIsSeen'
      BY <2>12 DEF EditWord, NoFault, requestVars, historyVars, FullLevelIsSeen
    <2>13. CASE UNCHANGED levelVars
      BY <2>13 DEF levelVars, requestVars, historyVars, FullLevelIsSeen
    <2> QED BY <2>4, <2>5, <2>6, <2>7, <2>8, <2>9, <2>10, <2>11, <2>12, <2>13 DEF LevelNext, Track
  <1>3. LevelSpec => []LevelTypeOK
    BY LevelInvariance, PTL DEF LevelIInv
  <1> QED BY <1>1, <1>2, <1>3, PTL DEF LevelSpec

-----------------------------------------------------------------------------
(* The cache of queries                                                    *)

\* The hook of an operation invalidates every query the operation touches; the list of
\* words is dealt with apart after a package or words are deleted (query-keys.ts:25).
LEMMA HooksReachQueries ==
  ASSUME query \in Queries, NEW op \in Operations, Touches(op)
  PROVE  \/ query \in Invalidates(op)
         \/ query = "words" /\ op \in {"deletePackage", "deleteAllWords", "deleteWord"}
<1> USE DEF Touches, Writes, Reads
<1>1. CASE op \in {"addWords", "updateWord", "deleteWord", "deleteAllWords"}
  BY <1>1 DEF Queries, Invalidates, AfterWords
<1>2. CASE op \in {"trackGame", "saveScore", "streak"}
  BY <1>2 DEF Queries, Invalidates, AfterGames, AfterStreak
<1>3. CASE op \in {"import", "job"}
  BY <1>3 DEF Queries, Invalidates, AfterImport, AfterJob
<1>4. CASE op \in {"createPackage", "updatePackage", "deletePackage", "togglePackage", "copyPackage"}
  BY <1>4 DEF Queries, Invalidates, AfterPackages
<1> QED
  BY <1>1, <1>2, <1>3, <1>4 DEF Operations

\* A score is no part of the dashboard.
LEMMA ScoresAreApart == ~TouchesDashboard("saveScore")
BY DEF TouchesDashboard, Writes, Reads

\* The records of the cache.
LEMMA CacheRecords ==
  /\ \A e \in Entries, b \in BOOLEAN :
        [e EXCEPT !.marked = b] \in Entries /\ [e EXCEPT !.outdated = b] \in Entries
        /\ [e EXCEPT !.excused = b] \in Entries
  /\ \A e \in StatsRead, b \in BOOLEAN :
        [e EXCEPT !.stored = b] \in StatsRead /\ [e EXCEPT !.outdated = b] \in StatsRead
        /\ [e EXCEPT !.excused = b] \in StatsRead
        /\ [e EXCEPT !.outdated = TRUE, !.excused = TRUE] \in StatsRead
BY DEF Entries, StatsRead

\* What the API answers.
LEMMA AnswerOfApi ==
  ASSUME api \in StatsRead \cup {None}
  PROVE  FromApi \in StatsRead
<1>1. Dropping \in BOOLEAN
  BY DEF Dropping
<1> HIDE DEF Dropping
<1>2. CASE api # None
  <2>1. api \in StatsRead /\ api.excused \in BOOLEAN
    BY <1>2 DEF StatsRead
  <2>2. (api.excused \/ Dropping) \in BOOLEAN
    BY <1>1, <2>1
  <2> QED
    BY <1>2, <2>1, <2>2, CacheRecords DEF FromApi
<1>3. CASE api = None
  BY <1>1, <1>3 DEF FromApi, Present, StatsRead
<1> QED
  BY <1>2, <1>3

\* Only SubmitChange names what is changed; a change that goes on is the same.
LEMMA GoToType ==
  ASSUME CacheTypeOK, NEW c \in Changes, NEW s \in ChangeSteps, GoTo(c, s), change[c].at # "idle"
  PROVE  /\ change' \in [Changes -> [op : Operations \cup {None}, at : ChangeSteps]]
         /\ \A d \in Changes : change'[d].at # "idle" => change'[d].op \in Operations
         /\ change'[c].at = s /\ (s # "idle" => change'[c].op = change[c].op)
         /\ \A d \in Changes \ {c} : change'[d] = change[d]
<1> DEFINE new == [op |-> IF s = "idle" THEN None ELSE change[c].op, at |-> s]
<1>1. change' = [change EXCEPT ![c] = new]
  BY DEF GoTo
<1>2. new \in [op : Operations \cup {None}, at : ChangeSteps] /\ new.at = s
      /\ (s # "idle" => new.op = change[c].op /\ new.op \in Operations)
  BY DEF CacheTypeOK
<1> HIDE DEF new
<1> QED
  BY <1>1, <1>2 DEF CacheTypeOK

\* What a step of the page or of a change makes of an entry is an entry.
LEMMA InvalidationType ==
  ASSUME CacheTypeOK, InvalidateQuery \/ RemoveQuery \/ (MarkStale /\ UNCHANGED fetch)
  PROVE  cached' \in Entries \cup {None} /\ fetch' \in StatsRead \cup {None, Sent}
BY CacheRecords DEF CacheTypeOK, InvalidateQuery, RemoveQuery, MarkStale

\* Every step keeps the types of the cache.
LEMMA CacheStepType == CacheTypeOK /\ [CacheNext]_cacheVars => CacheTypeOK'
<1> SUFFICES ASSUME CacheTypeOK, [CacheNext]_cacheVars
             PROVE  CacheTypeOK'
  OBVIOUS
<1> USE DEF queryVars, dashboardVars
<1>1. CASE Mount \/ Unmount \/ Clear \/ FetchFails
  BY <1>1 DEF Mount, Unmount, Clear, FetchFails, CacheTypeOK
<1>2. CASE GoStale
  BY <1>2, CacheRecords DEF GoStale, CacheTypeOK
<1>3. CASE FetchAnswers
  <2>1. fetch \in StatsRead
    BY <1>3 DEF FetchAnswers, Read, CacheTypeOK
  <2>2. cached' \in Entries /\ fetch' = None
    BY <1>3, <2>1 DEF FetchAnswers, Entries, StatsRead
  <2> QED
    BY <1>3, <2>2 DEF FetchAnswers, CacheTypeOK
<1>4. CASE RowFaded \/ LevelsFaded
  <2>1. UNCHANGED <<query, shown, dashboardVars, change>>
        /\ (InvalidateQuery \/ UNCHANGED <<cached, fetch>>)
    BY <1>4 DEF RowFaded, LevelsFaded
  <2> QED
    BY <2>1, InvalidationType DEF CacheTypeOK
<1>5. CASE ServerReads
  BY <1>5, AnswerOfApi DEF ServerReads, CacheTypeOK, Present, StatsRead
<1>6. CASE StoreStats
  <2>1. fetch \in StatsRead
    BY <1>6 DEF StoreStats, Read, CacheTypeOK
  <2> QED
    BY <1>6, <2>1, CacheRecords DEF StoreStats, CacheTypeOK
<1>7. CASE OtherReads \/ OtherStores \/ ApiExpires
  BY <1>7, AnswerOfApi, CacheRecords DEF OtherReads, OtherStores, ApiExpires, CacheTypeOK
<1>8. ASSUME NEW c \in Changes, SubmitChange(c)
      PROVE  CacheTypeOK'
  <2>1. PICK op \in Operations : change' = [change EXCEPT ![c] = [op |-> op, at |-> "sent"]]
    BY <1>8 DEF SubmitChange
  <2>2. [op |-> op, at |-> "sent"] \in [op : Operations \cup {None}, at : ChangeSteps]
    BY DEF ChangeSteps
  <2>3. change' \in [Changes -> [op : Operations \cup {None}, at : ChangeSteps]]
    BY <2>1, <2>2 DEF CacheTypeOK
  <2>4. \A d \in Changes : change'[d].at # "idle" => change'[d].op \in Operations
    BY <2>1 DEF CacheTypeOK
  <2> QED
    BY <1>8, <2>3, <2>4 DEF SubmitChange, CacheTypeOK
<1>9. ASSUME NEW c \in Changes, Write(c)
      PROVE  CacheTypeOK'
  <2>1. GoTo(c, "written") /\ change[c].at # "idle" /\ "written" \in ChangeSteps
    BY <1>9 DEF Write, ChangeSteps
  <2>2. /\ cached' \in {cached, Outdate(cached)} /\ (cached = None => cached' = None)
        /\ fetch' \in {fetch, Overtake(fetch)} /\ (~Read => fetch' = fetch)
        /\ api' \in {api, Outdate(api)} /\ (api = None => api' = None)
        /\ other' \in {other, Overtake(other)} /\ (other = None => other' = None)
        /\ UNCHANGED <<query, shown>>
    BY <1>9 DEF Write
  <2>3. cached' \in Entries \cup {None} /\ api' \in StatsRead \cup {None}
    BY <2>2, CacheRecords DEF CacheTypeOK, Outdate
  <2>4. \A e \in StatsRead : Overtake(e) \in StatsRead
    BY CacheRecords DEF Overtake
  <2>5. fetch' \in StatsRead \cup {None, Sent}
    BY <2>2, <2>4 DEF CacheTypeOK, Read
  <2>6. other' \in StatsRead \cup {None}
    BY <2>2, <2>4 DEF CacheTypeOK
  <2> QED
    BY <2>1, <2>2, <2>3, <2>5, <2>6, GoToType DEF CacheTypeOK
<1>10. ASSUME NEW c \in Changes, Drop(c) \/ DropFails(c)
       PROVE  CacheTypeOK'
  <2>1. PICK s \in {"idle", "dropped"} : GoTo(c, s)
    BY <1>10 DEF Drop, DropFails
  <2>2. s \in ChangeSteps /\ change[c].at # "idle"
    BY <1>10 DEF Drop, DropFails, ChangeSteps
  <2>3. api' \in StatsRead \cup {None} /\ UNCHANGED <<query, cached, fetch, shown, other>>
    BY <1>10, CacheRecords DEF Drop, DropFails, DropDashboard, CacheTypeOK
  <2> QED
    BY <2>1, <2>2, <2>3, GoToType DEF CacheTypeOK
<1>11. ASSUME NEW c \in Changes, Told(c) \/ FetchLost(c)
       PROVE  CacheTypeOK'
  <2>1. PICK s \in {"idle", "told"} : GoTo(c, s)
    BY <1>11 DEF Told, FetchLost
  <2>2. s \in ChangeSteps /\ change[c].at # "idle"
    BY <1>11 DEF Told, FetchLost, ChangeSteps
  <2>3. UNCHANGED <<query, shown, api, other>>
    BY <1>11 DEF Told, FetchLost
  <2>4. cached' \in Entries \cup {None} /\ fetch' \in StatsRead \cup {None, Sent}
    <3>1. CASE Told(c)
      <4>1. InvalidateQuery \/ RemoveQuery \/ (MarkStale /\ UNCHANGED fetch)
            \/ UNCHANGED <<cached, fetch>>
        BY <3>1 DEF Told
      <4> QED
        BY <4>1, InvalidationType DEF CacheTypeOK
    <3>2. CASE FetchLost(c)
      BY <3>2, CacheRecords DEF FetchLost, CacheTypeOK, Read
    <3> QED
      BY <1>11, <3>1, <3>2
  <2> QED
    BY <2>1, <2>2, <2>3, <2>4, GoToType DEF CacheTypeOK
<1>12. CASE UNCHANGED cacheVars
  BY <1>12 DEF cacheVars, CacheTypeOK
<1> QED
  BY <1>1, <1>2, <1>3, <1>4, <1>5, <1>6, <1>7, <1>8, <1>9, <1>10, <1>11, <1>12
  DEF CacheNext, Page, Api, Changing

\* What was read and is not stored yet is outdated only if a write overtook it.
LEMMA CacheStepReads ==
  CacheInv /\ [CacheNext]_cacheVars =>
    /\ (Read /\ fetch.outdated => fetch.excused)'
    /\ (other # None /\ other.outdated => other.excused)'
<1> DEFINE ReadsOK == /\ Read /\ fetch.outdated => fetch.excused
                      /\ other # None /\ other.outdated => other.excused
<1> SUFFICES ASSUME CacheInv, [CacheNext]_cacheVars
             PROVE  ReadsOK'
  OBVIOUS
<1> USE DEF queryVars, dashboardVars
<1>1. ReadsOK
  BY DEF CacheInv
<1>2. FromApi.outdated => FromApi.excused
  <2>1. CASE api # None
    <3>1. api \in StatsRead /\ api.excused \in BOOLEAN
      BY <2>1 DEF CacheInv, CacheTypeOK, StatsRead
    <3>2. FromApi.outdated = api.outdated /\ FromApi.excused = (api.excused \/ Dropping)
      BY <2>1, <3>1 DEF FromApi, StatsRead
    <3> QED
      BY <2>1, <3>2 DEF CacheInv
  <2>2. CASE api = None
    BY <2>2 DEF FromApi, Present
  <2> QED
    BY <2>1, <2>2
<1>3. CASE UNCHANGED <<fetch, other>>
  BY <1>1, <1>3 DEF Read
<1>4. CASE UNCHANGED other /\ fetch' \in {None, Sent}
  BY <1>1, <1>4 DEF Read
<1>5. CASE Page
  <2>1. CASE Mount \/ Unmount \/ GoStale \/ Clear \/ FetchFails
    BY <1>3, <1>4, <2>1 DEF Mount, Unmount, GoStale, Clear, FetchFails
  <2>2. CASE FetchAnswers
    BY <1>4, <2>2 DEF FetchAnswers
  <2>3. CASE RowFaded \/ LevelsFaded
    BY <1>3, <1>4, <2>3 DEF RowFaded, LevelsFaded, InvalidateQuery
  <2> QED
    BY <1>5, <2>1, <2>2, <2>3 DEF Page
<1>6. CASE ServerReads
  BY <1>1, <1>2, <1>6 DEF ServerReads, Present, Read
<1>7. CASE StoreStats
  <2>1. fetch \in StatsRead
    BY <1>7 DEF StoreStats, Read, CacheInv, CacheTypeOK
  <2>2. fetch' = [fetch EXCEPT !.stored = TRUE] /\ other' = other
    BY <1>7 DEF StoreStats
  <2>3. fetch'.outdated = fetch.outdated /\ fetch'.excused = fetch.excused
    BY <2>1, <2>2 DEF StatsRead
  <2> QED
    BY <1>1, <1>7, <2>2, <2>3 DEF StoreStats
<1>8. CASE OtherReads
  <2>1. UNCHANGED fetch /\ other' = FromApi
    BY <1>8 DEF OtherReads
  <2> QED
    BY <1>1, <1>2, <2>1 DEF Read
<1>9. CASE OtherStores \/ ApiExpires
  BY <1>1, <1>9 DEF OtherStores, ApiExpires, Read
<1>10. ASSUME NEW c \in Changes, SubmitChange(c) \/ Drop(c) \/ DropFails(c)
       PROVE  ReadsOK'
  BY <1>3, <1>10 DEF SubmitChange, Drop, DropFails
<1>11. ASSUME NEW c \in Changes, Write(c)
       PROVE  ReadsOK'
  <2>1. Read => fetch \in StatsRead
    BY DEF Read, CacheInv, CacheTypeOK
  <2>2. other # None => other \in StatsRead
    BY DEF CacheInv, CacheTypeOK
  <2>3. fetch' = fetch \/ (Read /\ fetch' = Overtake(fetch))
    BY <1>11 DEF Write
  <2>4. other' = other \/ (other # None /\ other' = Overtake(other))
    BY <1>11 DEF Write
  <2>5. \A e \in StatsRead : Overtake(e).excused
    BY DEF Overtake, StatsRead
  <2> QED
    BY <1>1, <2>1, <2>2, <2>3, <2>4, <2>5 DEF Read
<1>12. ASSUME NEW c \in Changes, Told(c)
       PROVE  ReadsOK'
  BY <1>3, <1>4, <1>12 DEF Told, InvalidateQuery, RemoveQuery
<1>13. ASSUME NEW c \in Changes, FetchLost(c)
       PROVE  ReadsOK'
  <2>1. Read => fetch \in StatsRead
    BY DEF Read, CacheInv, CacheTypeOK
  <2>2. other' = other /\ (fetch' = fetch \/ (Read /\ fetch' = [fetch EXCEPT !.excused = TRUE]))
    BY <1>13 DEF FetchLost
  <2> QED
    BY <1>1, <2>1, <2>2 DEF Read, StatsRead
<1>14. CASE UNCHANGED cacheVars
  BY <1>3, <1>14 DEF cacheVars
<1> HIDE DEF ReadsOK
<1> QED
  BY <1>5, <1>6, <1>7, <1>8, <1>9, <1>10, <1>11, <1>12, <1>13, <1>14
  DEF CacheNext, Api, Changing

\* The cached dashboard is outdated only while a change drops it.
LEMMA CacheStepApi ==
  CacheInv /\ [CacheNext]_cacheVars =>
    (api # None /\ api.outdated => api.excused \/ Dropping)'
<1> DEFINE ApiOK == api # None /\ api.outdated => api.excused \/ Dropping
<1> SUFFICES ASSUME CacheInv, [CacheNext]_cacheVars
             PROVE  ApiOK'
  OBVIOUS
<1> USE DEF queryVars, dashboardVars
<1>1. ApiOK /\ CacheTypeOK
  BY DEF CacheInv
<1>2. CASE UNCHANGED <<api, change>>
  BY <1>1, <1>2 DEF Dropping, TouchesDashboard
<1>3. CASE Page
  BY <1>2, <1>3 DEF Page, Mount, Unmount, GoStale, Clear, FetchAnswers, FetchFails, RowFaded, LevelsFaded
<1>4. CASE ServerReads \/ OtherReads \/ ApiExpires
  BY <1>2, <1>4 DEF ServerReads, OtherReads, ApiExpires
<1>5. CASE StoreStats
  <2>1. fetch \in StatsRead /\ (fetch.outdated => fetch.excused)
    BY <1>5 DEF StoreStats, Read, CacheInv, CacheTypeOK
  <2>2. api' = [fetch EXCEPT !.stored = TRUE]
    BY <1>5 DEF StoreStats
  <2> QED
    BY <2>1, <2>2 DEF StatsRead
<1>6. CASE OtherStores
  <2>1. other \in StatsRead /\ (other.outdated => other.excused)
    BY <1>6 DEF OtherStores, CacheInv, CacheTypeOK
  <2>2. api' = [other EXCEPT !.stored = TRUE]
    BY <1>6 DEF OtherStores
  <2> QED
    BY <2>1, <2>2 DEF StatsRead
<1>7. ASSUME NEW c \in Changes, Changing(c)
      PROVE  ApiOK'
  <2>1. \A d \in Changes \ {c} : change'[d] = change[d]
    BY <1>1, <1>7 DEF Changing, SubmitChange, Write, Drop, DropFails, Told, FetchLost, GoTo, CacheTypeOK
  <2>2. ASSUME NEW d \in Changes, change'[d] = change[d],
               change[d].at \in {"written", "told"}, TouchesDashboard(change[d].op)
        PROVE  Dropping'
    BY <2>2 DEF Dropping, TouchesDashboard
  <2>3. CASE SubmitChange(c)
    <3>1. api' = api /\ change[c].at = "idle"
      BY <2>3 DEF SubmitChange
    <3> QED
      BY <1>1, <2>1, <2>2, <3>1 DEF Dropping
  <2>4. CASE Write(c)
    <3>1. change[c].at = "sent" /\ change'[c].at = "written" /\ change'[c].op = change[c].op
      BY <1>1, <2>4, GoToType DEF Write, ChangeSteps
    <3>2. CASE TouchesDashboard(change[c].op)
      BY <3>1, <3>2 DEF Dropping, TouchesDashboard
    <3>3. CASE ~TouchesDashboard(change[c].op)
      <4>1. api' = api
        BY <2>4, <3>3 DEF Write
      <4> QED
        BY <1>1, <2>1, <2>2, <3>1, <4>1 DEF Dropping
    <3> QED
      BY <3>2, <3>3
  <2>5. CASE Drop(c)
    <3>1. CASE change[c].op = "saveScore"
      <4>1. api' = api /\ ~TouchesDashboard(change[c].op)
        BY <2>5, <3>1, ScoresAreApart DEF Drop
      <4> QED
        BY <1>1, <2>1, <2>2, <4>1 DEF Dropping
    <3>2. CASE change[c].op # "saveScore"
      BY <2>5, <3>2 DEF Drop, DropDashboard
    <3> QED
      BY <3>1, <3>2
  <2>6. CASE DropFails(c)
    <3>1. api = None \/ api \in StatsRead
      BY <1>1 DEF CacheTypeOK
    <3>2. api' = IF api = None THEN None ELSE [api EXCEPT !.excused = TRUE]
      BY <2>6 DEF DropFails
    <3> QED
      BY <3>1, <3>2 DEF StatsRead
  <2>7. CASE Told(c) \/ FetchLost(c)
    <3>1. api' = api
      BY <2>7 DEF Told, FetchLost
    <3>2. CASE change[c].op = "job"
      <4>1. change'[c].at = "told" /\ change'[c].op = change[c].op
        BY <1>1, <2>7, <3>2, GoToType DEF Told, FetchLost, ChangeSteps
      <4>2. change[c].at = "written" /\ (TouchesDashboard(change[c].op) => Dropping')
        BY <2>7, <3>2, <4>1 DEF Told, FetchLost, Dropping, TouchesDashboard
      <4> QED
        BY <1>1, <2>1, <2>2, <3>1, <4>2 DEF Dropping
    <3>3. CASE change[c].op # "job"
      <4>1. change[c].at = "dropped"
        BY <2>7, <3>3 DEF Told, FetchLost
      <4> QED
        BY <1>1, <2>1, <2>2, <3>1, <4>1 DEF Dropping
    <3> QED
      BY <3>2, <3>3
  <2> QED
    BY <1>7, <2>3, <2>4, <2>5, <2>6, <2>7 DEF Changing
<1>8. CASE UNCHANGED cacheVars
  BY <1>2, <1>8 DEF cacheVars
<1> HIDE DEF ApiOK
<1> QED
  BY <1>3, <1>4, <1>5, <1>6, <1>7, <1>8 DEF CacheNext, Api

\* An outdated entry of the page is marked, excused, or the page will hear of the change.
LEMMA CacheStepPage ==
  CacheInv /\ [CacheNext]_cacheVars =>
    (cached # None /\ cached.outdated /\ ~cached.marked =>
       \/ cached.excused
       \/ query = "words" /\ "deleteWord" \in fading
       \/ \E c \in Changes : Awaited(c))'
<1> DEFINE Hears == \/ query = "words" /\ "deleteWord" \in fading
                    \/ \E c \in Changes : Awaited(c)
           PageOK == cached # None /\ cached.outdated /\ ~cached.marked => cached.excused \/ Hears
<1> SUFFICES ASSUME CacheInv, [CacheNext]_cacheVars
             PROVE  PageOK'
  OBVIOUS
<1> USE DEF queryVars, dashboardVars
<1>1. PageOK /\ CacheTypeOK
  BY DEF CacheInv
<1>2. ASSUME NEW d \in Changes, change'[d] = change[d], query' = query
      PROVE  Awaited(d)' = Awaited(d)
  BY <1>2 DEF Awaited, Touches, Writes, Reads
<1>3. ASSUME UNCHANGED <<query, change>>, "deleteWord" \in fading => "deleteWord" \in fading'
      PROVE  Hears => Hears'
  BY <1>2, <1>3
<1>4. CASE cached' = cached /\ (Hears => Hears')
  BY <1>1, <1>4
<1>5. ASSUME MarkStale
      PROVE  PageOK'
  <2>1. cached' = None \/ cached'.marked
    BY <1>1, <1>5 DEF MarkStale, CacheTypeOK, Entries
  <2> QED
    BY <2>1
<1>6. ASSUME cached' = None
      PROVE  PageOK'
  BY <1>6
<1>7. CASE Page
  <2>1. CASE Mount \/ Unmount \/ FetchFails
    <3>1. /\ UNCHANGED <<query, cached, change>>
          /\ "deleteWord" \in fading => "deleteWord" \in fading'
      BY <2>1 DEF Mount, Unmount, FetchFails
    <3> QED
      BY <1>3, <1>4, <3>1
  <2>2. CASE GoStale
    <3>1. cached' = [cached EXCEPT !.marked = TRUE] /\ cached # None
      BY <2>2 DEF GoStale
    <3> QED
      BY <1>1, <3>1 DEF CacheTypeOK, Entries
  <2>3. CASE Clear
    BY <1>6, <2>3 DEF Clear
  <2>4. CASE FetchAnswers
    <3>1. fetch.outdated => fetch.excused
      BY <2>4 DEF FetchAnswers, CacheInv
    <3>2. cached'.outdated = fetch.outdated /\ cached'.excused = fetch.excused
      BY <2>4 DEF FetchAnswers
    <3> QED
      BY <3>1, <3>2
  <2>5. CASE RowFaded
    <3>1. CASE query = "words"
      BY <1>5, <2>5, <3>1 DEF RowFaded, InvalidateQuery
    <3>2. CASE query # "words"
      <4>1. UNCHANGED <<query, cached, change>>
        BY <2>5, <3>2 DEF RowFaded
      <4>2. \A d \in Changes : Awaited(d)' = Awaited(d)
        BY <1>2, <4>1
      <4> QED
        BY <1>1, <3>2, <4>1, <4>2
    <3> QED
      BY <3>1, <3>2
  <2>6. CASE LevelsFaded
    <3>1. CASE query = "words"
      BY <1>5, <2>6, <3>1 DEF LevelsFaded, InvalidateQuery
    <3>2. CASE query # "words"
      <4>1. UNCHANGED <<query, cached, change>>
        BY <2>6, <3>2 DEF LevelsFaded
      <4>2. "deleteWord" \in fading => "deleteWord" \in fading'
        BY <2>6 DEF LevelsFaded
      <4> QED
        BY <1>3, <1>4, <4>1, <4>2
    <3> QED
      BY <3>1, <3>2
  <2> QED
    BY <1>7, <2>1, <2>2, <2>3, <2>4, <2>5, <2>6 DEF Page
<1>8. CASE Api
  <2>1. UNCHANGED <<query, cached, change, fading>>
    BY <1>8 DEF Api, ServerReads, StoreStats, OtherReads, OtherStores, ApiExpires
  <2> QED
    BY <1>3, <1>4, <2>1
<1>9. ASSUME NEW c \in Changes, Changing(c)
      PROVE  PageOK'
  <2>1. query' = query
    BY <1>9 DEF Changing, SubmitChange, Write, Drop, DropFails, Told, FetchLost
  <2>2. \A d \in Changes \ {c} : Awaited(d)' = Awaited(d)
    <3>1. \A d \in Changes \ {c} : change'[d] = change[d]
      BY <1>1, <1>9 DEF Changing, SubmitChange, Write, Drop, DropFails, Told, FetchLost, GoTo, CacheTypeOK
    <3> QED
      BY <1>2, <2>1, <3>1
  <2>3. CASE SubmitChange(c) \/ Drop(c) \/ DropFails(c)
    <3>1. UNCHANGED <<cached, fading>>
      BY <2>3 DEF SubmitChange, Drop, DropFails
    <3>2. CASE SubmitChange(c)
      <4>1. ~Awaited(c)
        BY <3>2 DEF SubmitChange, Awaited
      <4> QED
        BY <1>4, <2>1, <2>2, <3>1, <4>1
    <3>3. CASE Drop(c) \/ DropFails(c)
      <4>1. CASE change[c].op = "job"
        <5>1. ~Awaited(c)
          BY <3>3, <4>1 DEF Drop, DropFails, Awaited
        <5> QED
          BY <1>4, <2>1, <2>2, <3>1, <5>1
      <4>2. CASE change[c].op # "job"
        <5>1. change'[c].at = "dropped" /\ change'[c].op = change[c].op
          BY <1>1, <3>3, <4>2, GoToType DEF Drop, DropFails, ChangeSteps
        <5>2. Awaited(c) => Awaited(c)'
          BY <2>1, <4>2, <5>1 DEF Awaited, Touches, Writes, Reads
        <5> QED
          BY <1>4, <2>1, <2>2, <3>1, <5>2
      <4> QED
        BY <4>1, <4>2
    <3> QED
      BY <2>3, <3>2, <3>3
  <2>4. CASE Write(c)
    <3>1. change[c].at = "sent" /\ change'[c].at = "written" /\ change'[c].op = change[c].op
      BY <1>1, <2>4, GoToType DEF Write, ChangeSteps
    <3>2. fading' = fading
      BY <2>4 DEF Write
    <3>3. CASE Touches(change[c].op)
      <4>1. Awaited(c)'
        BY <2>1, <3>1, <3>3 DEF Awaited, Touches, Writes, Reads
      <4> QED
        BY <4>1
    <3>4. CASE ~Touches(change[c].op)
      <4>1. cached' = cached /\ ~Awaited(c)
        BY <2>4, <3>4 DEF Write, Awaited
      <4> QED
        BY <1>4, <2>1, <2>2, <3>2, <4>1
    <3> QED
      BY <3>3, <3>4
  <2>5. CASE Told(c)
    <3>1. change[c].op \in Operations
      BY <1>1, <2>5 DEF Told, CacheTypeOK
    <3>2. "deleteWord" \in fading => "deleteWord" \in fading'
      BY <2>5 DEF Told
    <3>3. CASE query = "words" /\ change[c].op = "deletePackage"
      BY <1>6, <2>5, <3>3 DEF Told, RemoveQuery
    <3>4. CASE query = "words" /\ change[c].op = "deleteAllWords"
      BY <1>5, <2>5, <3>4 DEF Told
    <3>5. CASE query \in Invalidates(change[c].op)
               /\ ~(query = "words" /\ change[c].op \in {"deletePackage", "deleteAllWords"})
      BY <1>5, <2>5, <3>5 DEF Told, InvalidateQuery
    <3>6. CASE query \notin Invalidates(change[c].op)
               /\ ~(query = "words" /\ change[c].op \in {"deletePackage", "deleteAllWords"})
      <4>1. cached' = cached
        BY <2>5, <3>6 DEF Told
      <4>2. CASE query = "words" /\ change[c].op = "deleteWord"
        BY <2>1, <2>5, <4>2 DEF Told
      <4>3. CASE ~(query = "words" /\ change[c].op = "deleteWord")
        <5>1. ~Touches(change[c].op)
          BY <1>1, <3>1, <3>6, <4>3, HooksReachQueries DEF CacheTypeOK
        <5>2. ~Awaited(c)
          BY <5>1 DEF Awaited
        <5> QED
          BY <1>4, <2>1, <2>2, <3>2, <4>1, <5>2
      <4> QED
        BY <4>2, <4>3
    <3> QED
      BY <3>3, <3>4, <3>5, <3>6
  <2>6. CASE FetchLost(c)
    <3>1. fading' = fading
      BY <2>6 DEF FetchLost
    <3>2. CASE Touches(change[c].op) /\ cached # None
      <4>1. cached' = [cached EXCEPT !.excused = TRUE] /\ cached \in Entries
        BY <1>1, <2>6, <3>2 DEF FetchLost, CacheTypeOK
      <4> QED
        BY <4>1 DEF Entries
    <3>3. CASE ~(Touches(change[c].op) /\ cached # None)
      <4>1. cached' = cached
        BY <2>6, <3>3 DEF FetchLost
      <4>2. CASE cached = None
        BY <1>6, <4>1, <4>2
      <4>3. CASE cached # None
        <5>1. ~Awaited(c)
          BY <3>3, <4>3 DEF Awaited
        <5> QED
          BY <1>4, <2>1, <2>2, <3>1, <4>1, <5>1
      <4> QED
        BY <4>2, <4>3
    <3> QED
      BY <3>2, <3>3
  <2> QED
    BY <1>9, <2>3, <2>4, <2>5, <2>6 DEF Changing
<1>10. CASE UNCHANGED cacheVars
  BY <1>3, <1>4, <1>10 DEF cacheVars
<1> HIDE DEF PageOK
<1> QED
  BY <1>7, <1>8, <1>9, <1>10 DEF CacheNext

\* The invariant of the cache is inductive.
THEOREM CacheInvariance == CacheSpec => []CacheInv
<1>1. CacheInit => CacheInv
  <2> SUFFICES ASSUME CacheInit
               PROVE  CacheInv
    OBVIOUS
  <2>1. change \in [Changes -> [op : Operations \cup {None}, at : ChangeSteps]]
        /\ \A c \in Changes : change[c].at = "idle"
    BY DEF CacheInit, ChangeSteps
  <2> QED
    BY <2>1 DEF CacheInit, CacheInv, CacheTypeOK, Read
<1>2. CacheInv /\ [CacheNext]_cacheVars => CacheInv'
  BY CacheStepType, CacheStepReads, CacheStepApi, CacheStepPage DEF CacheInv
<1> QED
  BY <1>1, <1>2, PTL DEF CacheSpec

\* A page does not take an outdated entry for fresh, for any number of changes and any
\* order of reads, writes, drops and answers (query-keys.ts:25,
\* invalidate-dashboard.interceptor.ts:20).
THEOREM StaleHasReason == CacheSpec => []StaleIsExcused
<1>1. CacheInv => StaleIsExcused
  <2>1. ASSUME NEW c \in Changes, Awaited(c)
        PROVE  change[c].at # "idle"
    BY <2>1 DEF Awaited
  <2> QED
    BY <2>1 DEF CacheInv, StaleIsExcused, FetchAwaited
<1> QED
  BY <1>1, CacheInvariance, PTL

-----------------------------------------------------------------------------
(* The sound of a word                                                     *)

\* Two members of a set that holds at most one.
LEMMA AtMostOne ==
  ASSUME NEW S, \A x, y \in S : x = y
  PROVE  Cardinality(S) < 2
<1>1. CASE S = {}
  <2>1. Cardinality(S) = 0
    BY <1>1, FS_EmptySet
  <2> QED
    BY <2>1
<1>2. CASE S # {}
  <2>1. PICK x \in S : TRUE
    BY <1>2
  <2>2. S = {x}
    BY <2>1
  <2>3. Cardinality({x}) = 1
    BY FS_Singleton
  <2> QED
    BY <2>2, <2>3
<1> QED
  BY <1>1, <1>2

\* A playback is its fields.
LEMMA PlaybackFields ==
  ASSUME NEW p \in Playbacks
  PROVE  /\ p = [id |-> p.id, button |-> p.button, version |-> p.version, want |-> p.want, at |-> p.at,
                 status |-> p.status, heard |-> p.heard, stopped |-> p.stopped]
         /\ p.id \in Nat /\ p.button \in {"word", "example"} /\ p.version \in Nat
         /\ p.want \in SpokenTexts /\ p.at \in SoundSteps /\ p.status \in {None, 422, 503}
         /\ p.heard \in SpokenTexts \cup {None} /\ p.stopped \in BOOLEAN
BY DEF Playbacks

\* Its fields, whichever they are, are those of a playback.
LEMMA PlaybackOf ==
  ASSUME NEW p \in Playbacks, NEW s \in SoundSteps, NEW code \in {None, 422, 503},
         NEW h \in SpokenTexts \cup {None}, NEW b \in BOOLEAN
  PROVE  [id |-> p.id, button |-> p.button, version |-> p.version, want |-> p.want, at |-> s,
          status |-> code, heard |-> h, stopped |-> b] \in Playbacks
BY PlaybackFields DEF Playbacks

\* A step of the service or of the sound writes where the playback is.
LEMMA MovesTo ==
  ASSUME NEW p \in Playbacks, NEW s \in SoundSteps
  PROVE  [p EXCEPT !.at = s] \in Playbacks
<1>1. p.status \in {None, 422, 503} /\ p.heard \in SpokenTexts \cup {None} /\ p.stopped \in BOOLEAN
  BY PlaybackFields
<1> DEFINE q == [id |-> p.id, button |-> p.button, version |-> p.version, want |-> p.want, at |-> s,
                 status |-> p.status, heard |-> p.heard, stopped |-> p.stopped]
<1>2. [p EXCEPT !.at = s] = q
  BY DEF Playbacks
<1>3. q \in Playbacks
  BY <1>1, PlaybackOf
<1> QED
  BY <1>2, <1>3

\* It is refused, with what its answer is.
LEMMA MovesRefused ==
  ASSUME NEW p \in Playbacks, NEW code, code = 422 \/ code = 503
  PROVE  [p EXCEPT !.at = "refused", !.status = code] \in Playbacks
<1>1. /\ "refused" \in SoundSteps /\ code \in {None, 422, 503}
      /\ p.heard \in SpokenTexts \cup {None} /\ p.stopped \in BOOLEAN
  BY PlaybackFields DEF SoundSteps
<1> DEFINE q == [id |-> p.id, button |-> p.button, version |-> p.version, want |-> p.want,
                 at |-> "refused", status |-> code, heard |-> p.heard, stopped |-> p.stopped]
<1>2. [p EXCEPT !.at = "refused", !.status = code] = q
  <2> DEFINE r == [p EXCEPT !.at = "refused"]
  <2>1. r = [id |-> p.id, button |-> p.button, version |-> p.version, want |-> p.want,
             at |-> "refused", status |-> p.status, heard |-> p.heard, stopped |-> p.stopped]
    BY DEF Playbacks
  <2> HIDE DEF r
  <2>2. [r EXCEPT !.status = code] = q
    BY <2>1
  <2> QED
    BY <2>2, Zenon DEF r
<1>3. q \in Playbacks
  BY <1>1, PlaybackOf
<1> QED
  BY <1>2, <1>3

\* It writes what is heard.
LEMMA MovesHeard ==
  ASSUME NEW p \in Playbacks, NEW h \in SpokenTexts
  PROVE  [p EXCEPT !.heard = h] \in Playbacks
<1>1. p.at \in SoundSteps /\ p.status \in {None, 422, 503} /\ h \in SpokenTexts \cup {None} /\ p.stopped \in BOOLEAN
  BY PlaybackFields
<1> DEFINE q == [id |-> p.id, button |-> p.button, version |-> p.version, want |-> p.want, at |-> p.at,
                 status |-> p.status, heard |-> h, stopped |-> p.stopped]
<1>2. [p EXCEPT !.heard = h] = q
  BY DEF Playbacks
<1>3. q \in Playbacks
  BY <1>1, PlaybackOf
<1> QED
  BY <1>2, <1>3

\* It is stopped.
LEMMA MovesStopped ==
  ASSUME NEW p \in Playbacks
  PROVE  [p EXCEPT !.stopped = TRUE] \in Playbacks
<1>1. ASSUME NEW b \in BOOLEAN PROVE [p EXCEPT !.stopped = b] \in Playbacks
  BY DEF Playbacks
<1> QED
  BY <1>1, Zenon

\* A playback that does nothing is as good as before, as long as the page shows the same.
LEMMA GoodStays ==
  ASSUME NEW p \in Playbacks, GoodPlayback(p), UNCHANGED <<displayed, redraws, client>>,
         faults \in Nat, Fault \/ NoFault
  PROVE  GoodPlayback(p)'
BY DEF GoodPlayback, Sounding, Text, Fault, NoFault

\* A playback goes on: it becomes another, stopped as it was.
LEMMA GoingOn ==
  ASSUME SoundInv, NEW p \in playbacks, NEW q \in Playbacks, Becomes(p, q),
         q.stopped = p.stopped, GoodPlayback(q)', UNCHANGED <<view, displayed, redraws, client>>,
         Fault \/ NoFault
  PROVE  /\ playbacks' \subseteq Playbacks
         /\ \A r \in playbacks' : GoodPlayback(r)'
         /\ view' = "game" => \A r, s \in playbacks' : ~r.stopped /\ ~s.stopped => r = s
<1>1. playbacks \subseteq Playbacks /\ faults \in Nat /\ playbacks' = (playbacks \ {p}) \cup {q}
  BY DEF SoundInv, SoundTypeOK, Becomes
<1>2. \A r \in playbacks : GoodPlayback(r)'
  BY <1>1, GoodStays DEF SoundInv
<1>3. view' = "game" => \A r, s \in playbacks : ~r.stopped /\ ~s.stopped => r = s
  BY DEF SoundInv
<1> QED
  BY <1>1, <1>2, <1>3

\* A playback ends, and those left are as they were.
LEMMA GoingOff ==
  ASSUME SoundInv, playbacks' \subseteq playbacks, UNCHANGED <<view, displayed, redraws, client>>,
         Fault \/ NoFault
  PROVE  /\ playbacks' \subseteq Playbacks
         /\ \A r \in playbacks' : GoodPlayback(r)'
         /\ view' = "game" => \A r, s \in playbacks' : ~r.stopped /\ ~s.stopped => r = s
<1>1. playbacks \subseteq Playbacks /\ faults \in Nat
  BY DEF SoundInv, SoundTypeOK
<1>2. \A r \in playbacks : GoodPlayback(r)'
  BY <1>1, GoodStays DEF SoundInv
<1> QED
  BY <1>1, <1>2 DEF SoundInv

\* What is silenced is stopped and makes no sound.
LEMMA SilencedAreStopped ==
  ASSUME SoundInv, NEW r \in Silenced(playbacks)
  PROVE  /\ r \in Playbacks /\ r.stopped /\ ~Sounding(r)
         /\ r.at \in {"answered", "caching"} => r.heard = r.want
         /\ r.at = "speech" => r.want.language \in Voiced
         /\ r.at = "refused" =>
              IF r.status = 422 THEN r.want.language \notin Voiced ELSE ~client \/ faults > 0
<1>1. PICK q \in playbacks : ~Sounding(q) /\ r = [q EXCEPT !.stopped = TRUE]
  BY DEF Silenced
<1>2. q \in Playbacks /\ GoodPlayback(q)
  BY DEF SoundInv, SoundTypeOK
<1>3. [q EXCEPT !.stopped = TRUE] \in Playbacks
  BY <1>2, MovesStopped
<1>4. r \in Playbacks
  BY <1>1, <1>3
<1>5. /\ r.stopped /\ r.at = q.at /\ r.heard = q.heard /\ r.want = q.want /\ r.status = q.status
  BY <1>1, <1>2 DEF Playbacks
<1> QED
  BY <1>1, <1>2, <1>4, <1>5 DEF GoodPlayback, Sounding

\* Every step keeps the invariant of the sounds.
LEMMA SoundStep == SoundInv /\ [SoundNext]_soundVars => SoundInv'
<1> SUFFICES ASSUME SoundInv, [SoundNext]_soundVars
             PROVE  SoundInv'
  OBVIOUS
<1> USE DEF buttonVars, ttsVars
<1> DEFINE PlaybacksOK == /\ playbacks \subseteq Playbacks
                          /\ \A r \in playbacks : GoodPlayback(r)
                          /\ view = "game" =>
                               \A r, s \in playbacks : ~r.stopped /\ ~s.stopped => r = s
           Stored == /\ audio \subseteq [key : SpokenTexts, sound : SpokenTexts]
                     /\ \A a \in audio : a.sound = a.key
                     /\ voices \subseteq Voiced
<1>1. PlaybacksOK /\ Stored
  BY DEF SoundInv, SoundTypeOK
<1>2. faults \in Nat /\ (Fault \/ NoFault => faults' \in Nat)
  BY DEF SoundInv, SoundTypeOK, Fault, NoFault
<1>3. ASSUME PlaybacksOK', Stored', faults' \in Nat, UNCHANGED <<view, client>>,
             displayed' \in ShownCards, redraws' \in Nat, clicks' \in Nat
      PROVE  SoundInv'
  BY <1>3 DEF SoundInv, SoundTypeOK
<1>4. view \in {"cards", "game"} /\ displayed \in ShownCards /\ redraws \in Nat /\ clicks \in Nat
  BY DEF SoundInv, SoundTypeOK
<1>5. \A p \in playbacks : p \in Playbacks /\ GoodPlayback(p)
  BY <1>1
<1> HIDE DEF PlaybacksOK, Stored
<1>6. ASSUME NEW p \in playbacks, Quiet(p) \/ UNCHANGED playbacks, Fault \/ NoFault,
             UNCHANGED <<view, displayed, redraws, client>>
      PROVE  PlaybacksOK'
  BY <1>6, GoingOff DEF Quiet, PlaybacksOK
<1>7. ASSUME NEW p \in playbacks, NEW q \in Playbacks, Becomes(p, q), q.stopped = p.stopped,
             GoodPlayback(q)', UNCHANGED <<view, displayed, redraws, client>>, Fault \/ NoFault
      PROVE  PlaybacksOK'
  BY <1>7, GoingOn DEF PlaybacksOK
<1>8. ASSUME UNCHANGED <<audio, voices>>
      PROVE  Stored'
  BY <1>1, <1>8 DEF Stored
<1>9. \A b \in {"word", "example"} : Text(displayed, b) \in SpokenTexts
  BY <1>4 DEF ShownCards, Text, SpokenTexts
<1>10. ASSUME NEW b \in Buttons, Speak(b)
       PROVE  SoundInv'
  <2>1. /\ b \in {"word", "example"} /\ faults' = faults /\ clicks' = clicks + 1
        /\ UNCHANGED <<view, displayed, redraws, client, audio, voices>>
    BY <1>10 DEF Buttons, Speak, NoFault
  <2>7. PICK new : new = Asking(b)
    OBVIOUS
  <2>2. new \in Playbacks
    <3>1. b \in {"word", "example"} /\ clicks + 1 \in Nat /\ redraws \in Nat /\ "asked" \in SoundSteps
          /\ Text(displayed, b) \in SpokenTexts
      BY <1>4, <1>9, <2>1 DEF SoundSteps
    <3> QED
      BY <2>7, <3>1 DEF Asking, Playbacks
  <2>3. ~new.stopped /\ GoodPlayback(new)'
    BY <2>1, <2>7 DEF Asking, GoodPlayback, Sounding, Text
  <2>4. CASE view = "cards"
    <3>1. playbacks' = playbacks \cup {new}
      BY <1>10, <2>4, <2>7 DEF Speak
    <3>2. \A r \in playbacks : GoodPlayback(r)'
      BY <1>2, <1>5, <2>1, GoodStays DEF NoFault
    <3>3. PlaybacksOK'
      BY <1>5, <2>1, <2>2, <2>3, <2>4, <3>1, <3>2 DEF PlaybacksOK
    <3> QED
      BY <1>2, <1>3, <1>4, <1>8, <2>1, <3>3
  <2>5. CASE view = "game"
    <3>1. playbacks' = Silenced(playbacks) \cup {new}
      BY <1>10, <2>5, <2>7 DEF Speak
    <3>2. \A r \in Silenced(playbacks) : r \in Playbacks /\ r.stopped
      BY SilencedAreStopped
    <3>3. \A r \in Silenced(playbacks) : GoodPlayback(r)'
      BY <2>1, SilencedAreStopped DEF GoodPlayback, Sounding
    <3>4. PlaybacksOK'
      BY <2>2, <2>3, <3>1, <3>2, <3>3 DEF PlaybacksOK
    <3> QED
      BY <1>2, <1>3, <1>4, <1>8, <2>1, <3>4
  <2> QED
    BY <1>4, <2>4, <2>5
<1>11. CASE Shows
  <2>1. /\ playbacks' = Silenced(playbacks) /\ faults' = faults /\ redraws' = redraws + 1
        /\ displayed' \in ShownCards /\ UNCHANGED <<view, clicks, client, audio, voices>>
    BY <1>11 DEF Shows, NoFault
  <2>2. \A r \in Silenced(playbacks) : r \in Playbacks /\ r.stopped
    BY SilencedAreStopped
  <2>3. \A r \in Silenced(playbacks) : GoodPlayback(r)'
    BY <2>1, SilencedAreStopped DEF GoodPlayback, Sounding
  <2>4. PlaybacksOK'
    BY <2>1, <2>2, <2>3 DEF PlaybacksOK
  <2> QED
    BY <1>2, <1>3, <1>4, <1>8, <2>1, <2>4
<1>12. ASSUME NEW p \in playbacks, AsksInVain(p) \/ Finishes(p)
       PROVE  SoundInv'
  <2>1. Quiet(p) /\ (Fault \/ NoFault) /\ UNCHANGED <<view, displayed, redraws, clicks, ttsVars>>
    BY <1>12 DEF AsksInVain, Finishes
  <2> QED
    BY <1>2, <1>3, <1>4, <1>6, <1>8, <2>1
<1>13. ASSUME NEW p \in playbacks, Arrives(p) \/ Plays(p)
       PROVE  SoundInv'
  <2>1. (Fault \/ NoFault) /\ UNCHANGED <<view, displayed, redraws, clicks, ttsVars>>
    BY <1>13 DEF Arrives, Plays
  <2>2. CASE Quiet(p)
    BY <1>2, <1>3, <1>4, <1>6, <1>8, <2>1, <2>2
  <2>3. ASSUME NEW s \in {"starting", "playing"}, Becomes(p, [p EXCEPT !.at = s]),
               p.heard = p.want, ~p.stopped
        PROVE  SoundInv'
    <3> DEFINE q == [p EXCEPT !.at = s]
    <3>1. q \in Playbacks
      <4>1. p \in Playbacks /\ s \in SoundSteps
        BY <1>5 DEF SoundSteps
      <4>2. [p EXCEPT !.at = s] \in Playbacks
        BY <4>1, MovesTo
      <4> QED
        BY <4>2
    <3>2. /\ q.at = s /\ q.stopped = p.stopped /\ q.heard = p.heard /\ q.want = p.want
          /\ q.version = p.version /\ q.button = p.button
      BY <1>5 DEF Playbacks
    <3>3. Becomes(p, q)
      BY <2>3
    <3> HIDE DEF q
    <3>4. GoodPlayback(q)'
      BY <1>5, <2>1, <2>3, <3>2 DEF GoodPlayback, Sounding, Text
    <3> QED
      BY <1>2, <1>3, <1>4, <1>7, <1>8, <2>1, <3>1, <3>2, <3>3, <3>4
  <2> QED
    BY <1>5, <1>13, <2>2, <2>3 DEF Arrives, Plays, CancelledMeanwhile, GoodPlayback, Sounding
<1>14. ASSUME NEW p \in playbacks, NEW q \in Playbacks, Becomes(p, q),
              q.stopped = p.stopped, q.want = p.want, q.version = p.version, q.button = p.button,
              ~Sounding(q), q.at \in {"answered", "caching"} => q.heard = q.want,
              q.at = "speech" => q.want.language \in Voiced,
              (q.at = "refused" => IF q.status = 422 THEN q.want.language \notin Voiced
                                   ELSE ~client \/ faults > 0)',
              Fault \/ NoFault, UNCHANGED <<view, displayed, redraws, client>>
       PROVE  PlaybacksOK'
  <2>1. GoodPlayback(q)'
    BY <1>5, <1>14 DEF GoodPlayback, Sounding, Text
  <2> QED
    BY <1>7, <1>14, <2>1
<1>15. ASSUME NEW p \in playbacks, NEW code \in {422, 503}, Refused(p, code), Fault \/ NoFault,
              IF code = 422 THEN p.want.language \notin Voiced ELSE ~client \/ faults' > 0,
              UNCHANGED <<view, displayed, redraws, client>>
       PROVE  PlaybacksOK'
  <2> DEFINE q == [p EXCEPT !.at = "refused", !.status = code]
  <2>1. q \in Playbacks
    <3>1. p \in Playbacks /\ (code = 422 \/ code = 503)
      BY <1>5
    <3> QED
      BY <3>1, MovesRefused
  <2>2. /\ q.at = "refused" /\ q.status = code /\ q.stopped = p.stopped /\ q.want = p.want
        /\ q.version = p.version /\ q.button = p.button
    BY <1>5 DEF Playbacks
  <2>3. Becomes(p, q)
    BY <1>15 DEF Refused
  <2> HIDE DEF q
  <2> QED
    BY <1>14, <1>15, <2>1, <2>2, <2>3 DEF Sounding
<1>16. ASSUME NEW p \in playbacks, NEW s \in {"voices", "speech"}, Becomes(p, [p EXCEPT !.at = s]),
              s = "speech" => p.want.language \in Voiced,
              Fault \/ NoFault, UNCHANGED <<view, displayed, redraws, client>>
       PROVE  PlaybacksOK'
  <2> DEFINE q == [p EXCEPT !.at = s]
  <2>1. q \in Playbacks
    <3>1. p \in Playbacks /\ s \in SoundSteps
      BY <1>5 DEF SoundSteps
    <3> QED
      BY <3>1, MovesTo
  <2>2. /\ q.at = s /\ q.stopped = p.stopped /\ q.want = p.want
        /\ q.version = p.version /\ q.button = p.button
    BY <1>5 DEF Playbacks
  <2>3. Becomes(p, q)
    BY <1>16
  <2> HIDE DEF q
  <2> QED
    BY <1>14, <1>16, <2>1, <2>2, <2>3 DEF Sounding
<1>17. ASSUME NEW p \in playbacks, NEW s \in {"answered", "caching"}, NEW q, Becomes(p, q),
              \/ q = [p EXCEPT !.at = s, !.heard = p.want]
              \/ q = [p EXCEPT !.at = s] /\ p.heard = p.want,
              Fault \/ NoFault, UNCHANGED <<view, displayed, redraws, client>>
       PROVE  PlaybacksOK'
  <2>1. p \in Playbacks /\ p.want \in SpokenTexts /\ s \in SoundSteps
    BY <1>5 DEF Playbacks, SoundSteps
  <2>2. CASE q = [p EXCEPT !.at = s] /\ p.heard = p.want
    <3>1. q \in Playbacks
      <4>1. [p EXCEPT !.at = s] \in Playbacks
        BY <2>1, MovesTo
      <4> QED
        BY <2>2, <4>1
    <3>2. /\ q.at = s /\ q.stopped = p.stopped /\ q.want = p.want /\ q.heard = p.want
          /\ q.version = p.version /\ q.button = p.button
      BY <2>1, <2>2 DEF Playbacks
    <3> QED
      BY <1>14, <1>17, <3>1, <3>2 DEF Sounding
  <2>3. CASE q = [p EXCEPT !.at = s, !.heard = p.want]
    <3>1. q \in Playbacks
      <4> DEFINE moved == [p EXCEPT !.at = s]
      <4>1. moved \in Playbacks
        BY <2>1, MovesTo
      <4> HIDE DEF moved
      <4>2. [moved EXCEPT !.heard = p.want] \in Playbacks
        BY <2>1, <4>1, MovesHeard
      <4> QED
        BY <2>3, <4>2 DEF moved
    <3>2. /\ q.at = s /\ q.stopped = p.stopped /\ q.want = p.want /\ q.heard = p.want
          /\ q.version = p.version /\ q.button = p.button
      BY <2>1, <2>3 DEF Playbacks
    <3> QED
      BY <1>14, <1>17, <3>1, <3>2 DEF Sounding
  <2> QED
    BY <1>17, <2>2, <2>3
<1>18. ASSUME NEW p \in playbacks, FindsAudio(p)
       PROVE  SoundInv'
  <2>1. (Fault \/ NoFault) /\ UNCHANGED <<buttonVars, ttsVars>>
    BY <1>18 DEF FindsAudio
  <2>2. CASE ~client
    <3>1. Refused(p, 503) /\ ~client
      BY <1>18, <2>2 DEF FindsAudio
    <3>2. PlaybacksOK'
      BY <1>15, <2>1, <3>1
    <3> QED
      BY <1>2, <1>3, <1>4, <1>8, <2>1, <3>2
  <2>3. ASSUME NEW a \in audio, a.key = AudioKey(p.want),
               Becomes(p, [p EXCEPT !.at = "answered", !.heard = a.sound])
        PROVE  SoundInv'
    <3>1. a.sound = p.want
      BY <1>1, <2>3 DEF Stored, AudioKey
    <3>2. PlaybacksOK'
      BY <1>17, <2>1, <2>3, <3>1
    <3> QED
      BY <1>2, <1>3, <1>4, <1>8, <2>1, <3>2
  <2>4. CASE Becomes(p, [p EXCEPT !.at = "voices"])
    <3>1. PlaybacksOK'
      BY <1>16, <2>1, <2>4
    <3> QED
      BY <1>2, <1>3, <1>4, <1>8, <2>1, <3>1
  <2> QED
    BY <1>18, <2>2, <2>3, <2>4 DEF FindsAudio
<1>19. ASSUME NEW p \in playbacks, ListsVoices(p)
       PROVE  SoundInv'
  <2>1. (Fault \/ NoFault) /\ UNCHANGED <<buttonVars, client, audio>>
    BY <1>19 DEF ListsVoices
  <2>2. Stored'
    <3>1. voices' \subseteq voices \cup (Voiced \cap {p.want.language})
      BY <1>19 DEF ListsVoices, VoicesToCache
    <3> QED
      BY <1>1, <2>1, <3>1 DEF Stored
  <2>3. ASSUME Becomes(p, [p EXCEPT !.at = "speech"]), p.want.language \in voices \cup Voiced
        PROVE  PlaybacksOK'
    <3>1. p.want.language \in Voiced
      BY <1>1, <2>3 DEF Stored
    <3> QED
      BY <1>16, <2>1, <2>3, <3>1
  <2>4. ASSUME Refused(p, 422), p.want.language \notin Voiced
        PROVE  PlaybacksOK'
    BY <1>15, <2>1, <2>4
  <2>5. ASSUME Refused(p, 503), Fault
        PROVE  PlaybacksOK'
    <3>1. faults' > 0
      BY <1>2, <2>5 DEF Fault
    <3> QED
      BY <1>15, <2>1, <2>5, <3>1
  <2>6. PlaybacksOK'
    BY <1>19, <2>3, <2>4, <2>5 DEF ListsVoices
  <2> QED
    BY <1>2, <1>3, <1>4, <2>1, <2>2, <2>6
<1>20. ASSUME NEW p \in playbacks, Synthesizes(p)
       PROVE  SoundInv'
  <2>1. (Fault \/ NoFault) /\ UNCHANGED <<buttonVars, ttsVars>>
    BY <1>20 DEF Synthesizes
  <2>2. p.want.language \in Voiced
    BY <1>5, <1>20 DEF Synthesizes, GoodPlayback
  <2>3. CASE Becomes(p, [p EXCEPT !.at = "caching", !.heard = p.want])
    <3>1. PlaybacksOK'
      BY <1>17, <2>1, <2>3
    <3> QED
      BY <1>2, <1>3, <1>4, <1>8, <2>1, <3>1
  <2>4. CASE Refused(p, 503) /\ Fault
    <3>1. faults' > 0
      BY <1>2, <2>4 DEF Fault
    <3>2. PlaybacksOK'
      BY <1>15, <2>1, <2>4, <3>1
    <3> QED
      BY <1>2, <1>3, <1>4, <1>8, <2>1, <3>2
  <2> QED
    BY <1>20, <2>2, <2>3, <2>4 DEF Synthesizes
<1>21. ASSUME NEW p \in playbacks, CachesAudio(p)
       PROVE  SoundInv'
  <2>1. (Fault \/ NoFault) /\ UNCHANGED <<buttonVars, client, voices>>
    BY <1>21 DEF CachesAudio
  <2>2. p.heard = p.want /\ p.want \in SpokenTexts
    BY <1>5, <1>21 DEF CachesAudio, GoodPlayback, Playbacks
  <2>3. Becomes(p, [p EXCEPT !.at = "answered"])
    BY <1>21 DEF CachesAudio
  <2>4. PlaybacksOK'
    BY <1>17, <2>1, <2>2, <2>3
  <2>5. audio' = audio \/ audio' = audio \cup {[key |-> p.want, sound |-> p.want]}
    BY <1>21, <2>2 DEF CachesAudio, AudioKey
  <2>6. Stored'
    BY <1>1, <2>1, <2>2, <2>5 DEF Stored
  <2> QED
    BY <1>2, <1>3, <1>4, <2>1, <2>4, <2>6
<1>22. CASE Expires
  <2>1. /\ NoFault /\ UNCHANGED <<buttonVars, playbacks, client>>
        /\ audio' \subseteq audio /\ voices' \subseteq voices
    BY <1>22 DEF Expires
  <2>2. PlaybacksOK'
    BY <2>1, GoingOff DEF PlaybacksOK
  <2>3. Stored'
    BY <1>1, <2>1 DEF Stored
  <2> QED
    BY <1>2, <1>3, <1>4, <2>1, <2>2, <2>3
<1>23. CASE UNCHANGED soundVars
  BY <1>23 DEF soundVars, SoundInv, SoundTypeOK, GoodPlayback, Sounding
<1> QED
  BY <1>10, <1>11, <1>12, <1>13, <1>18, <1>19, <1>20, <1>21, <1>22, <1>23 DEF SoundNext

\* A sound that is loaded or heard is of the card shown: inductive.
THEOREM SoundInvariance == SoundSpec => []SoundInv
<1>1. SoundInit => SoundInv
  BY DEF SoundInit, SoundInv, SoundTypeOK
<1> QED
  BY <1>1, SoundStep, PTL DEF SoundSpec

\* What is heard is what is shown, in its language, one word at a time in the game, for
\* any cards, clicks, cached sounds and faults (games/test-pronun/page.tsx:102,
\* tts.service.ts:62).
THEOREM HeardAsShown == SoundSpec => []HeardIsShown
<1>1. SoundInv => HeardIsShown
  <2> SUFFICES ASSUME SoundInv
               PROVE  HeardIsShown
    OBVIOUS
  <2>1. \A p \in playbacks : Sounding(p) => ~p.stopped
    BY DEF SoundInv, GoodPlayback
  <2>2. ASSUME view = "game"
        PROVE  Cardinality({p \in playbacks : Sounding(p)}) < 2
    <3> DEFINE S == {p \in playbacks : Sounding(p)}
    <3>1. \A x, y \in S : x = y
      BY <2>1, <2>2 DEF SoundInv
    <3> HIDE DEF S
    <3>2. Cardinality(S) < 2
      BY <3>1, AtMostOne
    <3> QED
      BY <3>2 DEF S
  <2>3. ASSUME NEW p \in playbacks
        PROVE  /\ Sounding(p) => p.version = redraws /\ p.heard = Text(displayed, p.button)
               /\ p.at = "refused" =>
                    IF p.status = 422 THEN p.want.language \notin Voiced ELSE ~client \/ faults > 0
    BY <2>1 DEF SoundInv, GoodPlayback
  <2> QED
    BY <2>2, <2>3 DEF HeardIsShown
<1> QED
  BY <1>1, SoundInvariance, PTL

-----------------------------------------------------------------------------
(* The record button                                                       *)

\* The invariant of the record button is inductive.
THEOREM SpeechInvariance == SpeechSpec => []SpeechInv
<1>1. SpeechInit => SpeechInv
  BY DEF SpeechInit, SpeechInv, Off, RecogniserStates, ScoredWordWasRecorded
<1>2. SpeechInv /\ [SpeechNext]_speechVars => SpeechInv'
  <2> SUFFICES ASSUME SpeechInv, [SpeechNext]_speechVars
               PROVE  SpeechInv'
    OBVIOUS
  <2> USE DEF SpeechInv, ScoredWordWasRecorded, RecogniserStates, wordVars, hookVars
  <2>1. CASE Toggle
    BY <2>1 DEF Toggle, StopOrStart, StopListening, Stopped, Start
  <2>2. ASSUME NEW d \in expected, CallbackFires(d)
        PROVE  SpeechInv'
    <3>1. CASE Permitted(d) \/ Asked(d)
      BY <3>1 DEF Permitted, Asked
    <3>2. CASE Clicked(d)
      BY <3>2 DEF Clicked, StopOrStart, StopListening, Stopped, Start
    <3>3. CASE RetryListening(d)
      BY <3>3 DEF RetryListening, StopListening, Stopped, Start
    <3>4. CASE BeginRecording(d)
      <4> DEFINE new == [at |-> "starting", turn |-> session, begun |-> FALSE]
      <4>1. UNCHANGED <<session, score>> /\ (rec' = rec \/ rec' = new)
        BY <3>4 DEF BeginRecording
      <4>2. new \in [at : RecogniserStates, turn : Nat \cup {None}, begun : BOOLEAN]
            /\ new.turn = session
        OBVIOUS
      <4> HIDE DEF new
      <4>3. rec' \in [at : RecogniserStates, turn : Nat \cup {None}, begun : BOOLEAN]
            /\ (rec'.at \in {"starting", "on", "stopping"} => rec'.turn = session)
        BY <4>1, <4>2
      <4> QED
        BY <4>1, <4>3
    <3> QED
      BY <2>2, <3>1, <3>2, <3>3, <3>4 DEF CallbackFires
  <2>3. CASE LimitReached
    BY <2>3 DEF LimitReached, Stopped
  <2>4. CASE ShowWord
    BY <2>4 DEF ShowWord, CancelListen, Aborted
  <2>5. CASE HandleStart
    BY <2>5 DEF HandleStart
  <2>6. CASE HandleResult
    BY <2>6 DEF HandleResult
  <2>7. CASE HandleError
    <3>1. UNCHANGED <<session, score>> /\ rec' = [rec EXCEPT !.at = "failed"]
      BY <2>7 DEF HandleError
    <3> QED
      BY <3>1
  <2>9. CASE HandleEnd
    <3>1. UNCHANGED <<session, score>> /\ rec' = Off
      BY <2>9 DEF HandleEnd
    <3> QED
      BY <3>1 DEF Off
  <2>8. CASE UNCHANGED speechVars
    BY <2>8 DEF speechVars
  <2> QED
    BY <2>1, <2>2, <2>3, <2>4, <2>5, <2>6, <2>7, <2>8, <2>9 DEF SpeechNext, Recogniser
<1> QED
  BY <1>1, <1>2, PTL DEF SpeechSpec

\* A score is of a recording begun while its word was shown, for any words, turns and
\* retries (use-speech-recognition.ts:44).
THEOREM ScoreIsOfItsWord == SpeechSpec => []ScoredWordWasRecorded
<1>1. SpeechInv => ScoredWordWasRecorded
  BY DEF SpeechInv
<1> QED
  BY <1>1, SpeechInvariance, PTL

-----------------------------------------------------------------------------
(* The forms                                                               *)

\* Every step keeps the types of the forms.
LEMMA FormStepType == FormTypeOK /\ [FormNext]_formVars => FormTypeOK'
<1> SUFFICES ASSUME FormTypeOK, [FormNext]_formVars
             PROVE  FormTypeOK'
  OBVIOUS
<1> USE DEF FormTypeOK, dialogVars, Elsewhere
<1>1. CASE OpenDialog \/ CloseDialog \/ Type \/ DeleteAllDone
  BY <1>1 DEF OpenDialog, CloseDialog, Type, DeleteAllDone
<1>2. CASE Submit
  BY <1>2 DEF Submit, Submittable
<1>3. ASSUME NEW r \in requests, Accept(r) \/ Refuse(r)
      PROVE  FormTypeOK'
  BY <1>3 DEF Accept, Refuse, Moved
<1>4. ASSUME NEW r \in requests, Succeeds(r)
      PROVE  FormTypeOK'
  <2>1. (openFor' = openFor \/ openFor' = None) /\ (draft' = draft \/ draft' = None)
    BY <1>4 DEF Succeeds, Done, Closes, Clears, Stays, PackageSaved, PackageDeleted, AvatarSaved,
       WordSaved, WordsDeleted, WordsAdded, FileImported, FeedbackSent, RowDeleted, LoggedIn,
       LinkRequested, PasswordReset, Registered, FieldSaved
  <2> QED
    BY <1>4, <2>1 DEF Succeeds, UpdateUser, OutOfOrder
<1>5. ASSUME NEW r \in requests, Fails(r) \/ FormAnswerLost(r)
      PROVE  FormTypeOK'
  BY <1>5 DEF Fails, FormAnswerLost
<1>6. CASE UNCHANGED formVars
  BY <1>6 DEF formVars
<1> QED
  BY <1>1, <1>2, <1>3, <1>4, <1>5, <1>6 DEF FormNext

\* Requests that are not accepted yet, or no longer, change nothing for a field.
LEMMA OnItsWayStays ==
  ASSUME UNCHANGED <<held, store>>, \A t \in Targets : AcceptedFor(t)' = AcceptedFor(t)
  PROVE  (\A t \in Targets : HeldOrOnItsWay(t)) => (\A t \in Targets : HeldOrOnItsWay(t)')
BY DEF HeldOrOnItsWay

\* A field is saved or its save is on its way.
LEMMA FormStepHeld == FormInv /\ [FormNext]_formVars => FormInv'
<1> SUFFICES ASSUME FormInv, [FormNext]_formVars
             PROVE  FormInv'
  OBVIOUS
<1>0. FormTypeOK /\ FormTypeOK'
  BY FormStepType DEF FormInv
<1> SUFFICES ASSUME form' \in Profile, ~excused', NEW t \in Targets
             PROVE  HeldOrOnItsWay(t)'
  BY <1>0 DEF FormInv
<1> USE DEF FormTypeOK, dialogVars, Elsewhere, AcceptedFor, HeldOrOnItsWay
<1>1. form' = form /\ (excused => excused')
  <2>1. CASE OpenDialog \/ CloseDialog \/ Type \/ DeleteAllDone \/ Submit
    BY <2>1 DEF OpenDialog, CloseDialog, Type, DeleteAllDone, Submit
  <2>2. ASSUME NEW r \in requests, Accept(r) \/ Refuse(r)
        PROVE  form' = form /\ (excused => excused')
    BY <2>2 DEF Accept, Refuse
  <2>3. ASSUME NEW r \in requests, Succeeds(r)
        PROVE  form' = form /\ (excused => excused')
    <3>1. excused' = (excused \/ OutOfOrder(r)) /\ form' = form
      BY <2>3 DEF Succeeds
    <3> QED
      BY <3>1
  <2>4. ASSUME NEW r \in requests, Fails(r) \/ FormAnswerLost(r)
        PROVE  form' = form /\ (excused => excused')
    BY <2>4 DEF Fails, FormAnswerLost
  <2>5. CASE UNCHANGED formVars
    BY <2>5 DEF formVars
  <2> QED
    BY <2>1, <2>2, <2>3, <2>4, <2>5 DEF FormNext
<1>2. HeldOrOnItsWay(t)
  BY <1>0, <1>1 DEF FormInv
<1>3. CASE OpenDialog \/ CloseDialog \/ Type \/ DeleteAllDone \/ UNCHANGED formVars
  BY <1>2, <1>3 DEF OpenDialog, CloseDialog, Type, DeleteAllDone, formVars
<1>4. CASE Submit
  <2>1. AcceptedFor(t)' = AcceptedFor(t) /\ UNCHANGED <<held, store>>
    BY <1>4 DEF Submit
  <2> QED
    BY <1>2, <2>1
<1>5. ASSUME NEW r \in requests, Accept(r)
      PROVE  HeldOrOnItsWay(t)'
  <2> DEFINE q == [r EXCEPT !.at = "accepted"]
  <2>1. /\ requests' = (requests \ {r}) \cup {q} /\ UNCHANGED store
        /\ held' = [held EXCEPT ![r.target] = r.version] /\ r.at = "sent"
    BY <1>5 DEF Accept, Moved
  <2>2. q.at = "accepted" /\ q.target = r.target /\ q.version = r.version
    BY <1>0
  <2> HIDE DEF q
  <2>3. CASE r.target = t
    BY <1>0, <2>1, <2>2, <2>3
  <2>4. CASE r.target # t
    <3>1. AcceptedFor(t)' = AcceptedFor(t) /\ held'[t] = held[t]
      BY <1>0, <2>1, <2>2, <2>4
    <3> QED
      BY <1>2, <2>1, <3>1
  <2> QED
    BY <2>3, <2>4
<1>6. ASSUME NEW r \in requests, Refuse(r)
      PROVE  HeldOrOnItsWay(t)'
  <2> DEFINE q == [r EXCEPT !.at = "refused"]
  <2>1. requests' = (requests \ {r}) \cup {q} /\ r.at = "sent" /\ UNCHANGED <<held, store>>
    BY <1>6 DEF Refuse, Moved
  <2>2. q.at = "refused"
    BY <1>0
  <2> HIDE DEF q
  <2>3. AcceptedFor(t)' = AcceptedFor(t)
    BY <2>1, <2>2
  <2> QED
    BY <1>2, <2>1, <2>3
<1>7. ASSUME NEW r \in requests, Succeeds(r)
      PROVE  HeldOrOnItsWay(t)'
  <2>1. /\ requests' = requests \ {r} /\ UNCHANGED held /\ r.at = "accepted"
        /\ store' = [store EXCEPT ![r.target] = r.version]
    BY <1>1, <1>7 DEF Succeeds, UpdateUser
  <2>2. \A q \in requests \ {r} :
          q.target = r.target /\ q.at = "accepted" => held[q.target] = q.version
    BY <1>7 DEF Succeeds, OutOfOrder
  <2>3. CASE r.target = t
    <3>1. CASE r.version = held[t]
      BY <1>0, <2>1, <2>2, <2>3, <3>1
    <3>2. CASE r.version # held[t]
      BY <1>0, <1>2, <2>1, <2>2, <2>3, <3>2
    <3> QED
      BY <3>1, <3>2
  <2>4. CASE r.target # t
    <3>1. AcceptedFor(t)' = AcceptedFor(t) /\ store'[t] = store[t]
      BY <1>0, <2>1, <2>4
    <3> QED
      BY <1>2, <2>1, <3>1
  <2> QED
    BY <2>3, <2>4
<1>8. ASSUME NEW r \in requests, Fails(r)
      PROVE  HeldOrOnItsWay(t)'
  <2>1. AcceptedFor(t)' = AcceptedFor(t) /\ UNCHANGED <<held, store>>
    BY <1>8 DEF Fails
  <2> QED
    BY <1>2, <2>1
<1>9. ASSUME NEW r \in requests, FormAnswerLost(r)
      PROVE  HeldOrOnItsWay(t)'
  BY <1>9 DEF FormAnswerLost
<1> QED
  BY <1>3, <1>4, <1>5, <1>6, <1>7, <1>8, <1>9 DEF FormNext

\* Each field is held as the page shows it, or its answer is on its way: inductive.
THEOREM FormInvariance == FormSpec => []FormInv
<1>1. FormInit => FormInv
  <2> SUFFICES ASSUME FormInit
               PROVE  FormInv
    OBVIOUS
  <2>1. openFor \in Targets \cup {None}
    BY DEF FormInit
  <2>2. held \in [Targets -> Nat] /\ store = held
    BY DEF FormInit
  <2>3. requests = {} /\ version \in Nat /\ draft = None /\ excused = FALSE
    BY DEF FormInit
  <2> QED
    BY <2>1, <2>2, <2>3 DEF FormInv, FormTypeOK, HeldOrOnItsWay, AcceptedFor
<1> QED
  BY <1>1, FormStepHeld, PTL DEF FormSpec

\* Once all saves of a profile are answered, the page shows what the API holds, unless
\* answers were lost or came in the other order (use-profile-actions.ts:9).
THEOREM SavesAreKept == FormSpec => []QuickSavesKeep
<1>1. FormInv => QuickSavesKeep
  BY DEF FormInv, FormTypeOK, QuickSavesKeep, HeldOrOnItsWay, AcceptedFor
<1> QED
  BY <1>1, FormInvariance, PTL

-----------------------------------------------------------------------------
(* Games and their scores                                                  *)

\* The larger and the smaller of two numbers.
LEMMA OfTwo ==
  ASSUME NEW a \in Nat, NEW b \in Nat
  PROVE  /\ Max({a, b}) \in {a, b} /\ Max({a, b}) >= a /\ Max({a, b}) >= b
         /\ Min({a, b}) \in {a, b} /\ Min({a, b}) <= a /\ Min({a, b}) <= b
<1>1. \E x \in {a, b} : \A y \in {a, b} : x >= y
  <2>1. CASE a >= b
    BY <2>1
  <2>2. CASE b >= a
    BY <2>2
  <2> QED
    BY <2>1, <2>2
<1>2. \E x \in {a, b} : \A y \in {a, b} : x <= y
  <2>1. CASE a >= b
    BY <2>1
  <2>2. CASE b >= a
    BY <2>2
  <2> QED
    BY <2>1, <2>2
<1>3. Max({a, b}) \in {a, b} /\ \A y \in {a, b} : Max({a, b}) >= y
  BY <1>1, Zenon DEF Max
<1>4. Min({a, b}) \in {a, b} /\ \A y \in {a, b} : Min({a, b}) <= y
  BY <1>2, Zenon DEF Min
<1> QED
  BY <1>3, <1>4

\* A share of what was played is a number.
LEMMA Quotients ==
  ASSUME NEW n \in Nat, NEW d \in Nat, d > 0
  PROVE  n \div d \in Nat
OBVIOUS

\* The accuracy of what was heard is a number.
LEMMA AccuracyType == \A heard \in Hearings : Accuracy(heard) \in Nat
<1> SUFFICES ASSUME NEW heard \in Hearings
             PROVE  Accuracy(heard) \in Nat
  OBVIOUS
<1>1. CASE heard \in Heard("same", 100)
  <2>1. heard.as = "same" /\ heard.sure = 1
    BY <1>1 DEF Heard
  <2> QED
    BY <2>1 DEF Accuracy
<1>2. CASE heard \in Heard("variant", 80)
  <2>1. heard.as = "variant" /\ heard.near = 80 /\ heard.sure = 1
    BY <1>2 DEF Heard
  <2> QED
    BY <2>1 DEF Accuracy
<1>3. CASE heard \in Heard("other", 40)
  <2>1. heard.as = "other" /\ heard.near = 40
    BY <1>3 DEF Heard
  <2>2. Accuracy(heard) = Max({10, (30 * 40 + 50) \div 100})
    BY <2>1 DEF Accuracy
  <2>3. (30 * 40 + 50) \div 100 \in Nat /\ 10 \in Nat
    OBVIOUS
  <2>4. Max({10, (30 * 40 + 50) \div 100}) \in {10, (30 * 40 + 50) \div 100}
    BY <2>3, OfTwo
  <2> QED
    BY <2>2, <2>3, <2>4
<1> QED
  BY <1>1, <1>2, <1>3 DEF Hearings

\* What endGame() saves is a score and a verdict.
LEMMA VerdictType ==
  ASSUME GameTypeOK
  PROVE  FinalScore \in Nat /\ Passed \in BOOLEAN
<1>1. /\ board.score \in Nat /\ board.right \in Nat /\ board.tried \in Nat /\ board.total \in Nat
  BY DEF GameTypeOK, Boards
<1>2. AverageAccuracy \in Nat
  <2>1. CASE board.tried = 0
    BY <2>1 DEF AverageAccuracy
  <2>2. CASE board.tried # 0
    <3>1. 2 * board.right + board.tried \in Nat /\ 2 * board.tried \in Nat /\ 2 * board.tried > 0
      BY <1>1, <2>2
    <3>2. (2 * board.right + board.tried) \div (2 * board.tried) \in Nat
      BY <3>1, Quotients
    <3> QED
      BY <2>2, <3>2 DEF AverageAccuracy
  <2> QED
    BY <2>1, <2>2
<1>3. FinalScore \in Nat
  BY <1>1, <1>2 DEF FinalScore
<1>4. Passed \in BOOLEAN
  <2> DEFINE attempts == board.tried + (IF board.hand = "answered" THEN 1 ELSE 0)
             min == MinAccuracy[kind]
  <2>1. CASE kind = "speed_vocab"
    <3>1. Passed = (Percentage(board.right, board.tried) >= min)
      BY <2>1 DEF Passed
    <3> QED
      BY <3>1
  <2>2. CASE kind = "phrase_completion"
    <3>1. Passed = (Percentage(board.right, board.total) >= min)
      BY <2>2 DEF Passed
    <3> QED
      BY <3>1
  <2>3. CASE kind = "word_scramble"
    <3>1. Passed = (Min({100, Percentage(board.right, attempts)}) >= min)
      BY <2>3 DEF Passed
    <3> QED
      BY <3>1
  <2>4. CASE kind = "test_pronun"
    <3>1. Passed = (AverageAccuracy >= min /\ board.tried >= MinPronounced)
      BY <2>4 DEF Passed
    <3> QED
      BY <3>1
  <2>5. CASE kind \notin {"speed_vocab", "phrase_completion", "word_scramble", "test_pronun"}
    <3>1. Passed = ReachesShare(board.right, board.total, min)
      BY <2>5 DEF Passed
    <3> QED
      BY <3>1 DEF ReachesShare
  <2> QED
    BY <2>1, <2>2, <2>3, <2>4, <2>5
<1> QED
  BY <1>3, <1>4

\* Each move on a board leaves a board.
LEMMA BoardMoves ==
  ASSUME NEW b \in Boards
  PROVE  /\ Right(b) \in Boards /\ Missed(b) \in Boards /\ Tried(b) \in Boards
         /\ \A h \in {"open", "wrong", "answered", "checking", "all found"} : Hand(b, h) \in Boards
         /\ \A n \in Nat : [b EXCEPT !.right = n] \in Boards /\ [b EXCEPT !.total = n] \in Boards
                           /\ [b EXCEPT !.score = n] \in Boards /\ [b EXCEPT !.tried = n] \in Boards
<1>1. \A n \in Nat : [b EXCEPT !.right = n] \in Boards /\ [b EXCEPT !.total = n] \in Boards
                     /\ [b EXCEPT !.score = n] \in Boards /\ [b EXCEPT !.tried = n] \in Boards
  BY DEF Boards
<1>2. /\ b.score \in Nat /\ b.right \in Nat /\ b.tried \in Nat
      /\ b.score + 1 \in Nat /\ b.right + 1 \in Nat /\ b.tried + 1 \in Nat
  <2>1. b.score \in Nat /\ b.right \in Nat /\ b.tried \in Nat
    BY DEF Boards
  <2> QED
    BY <2>1
<1>3. Right(b) \in Boards
  <2> DEFINE c == [b EXCEPT !.score = b.score + 1]
  <2>1. c \in Boards
    BY <1>1, <1>2
  <2>2. c.right = b.right
    BY DEF Boards
  <2> HIDE DEF c
  <2>3. [c EXCEPT !.right = b.right + 1] \in Boards
    BY <2>1, <1>2 DEF Boards
  <2>4. Right(b) = [c EXCEPT !.right = b.right + 1]
    BY DEF Right, c, Boards
  <2> QED
    BY <2>3, <2>4
<1>4. Missed(b) \in Boards /\ Tried(b) \in Boards
  <2>1. Minus(b.score, 1) \in Nat
    BY <1>2 DEF Minus
  <2>2. Missed(b) = [b EXCEPT !.score = Minus(b.score, 1)]
    BY DEF Missed, Boards
  <2>3. Tried(b) = [b EXCEPT !.tried = b.tried + 1]
    BY DEF Tried, Boards
  <2> QED
    BY <2>1, <2>2, <2>3, <1>1, <1>2
<1>5. \A h \in {"open", "wrong", "answered", "checking", "all found"} : Hand(b, h) \in Boards
  BY DEF Hand, Boards
<1> QED
  BY <1>1, <1>2, <1>3, <1>4, <1>5

\* Nothing of what is saved changes.
LEMMA SavesStay ==
  ASSUME GameInv, UNCHANGED serverVars
  PROVE  RowIsScores' /\ saves' \in Seq(Saves) /\ row' \in ScoreRows \cup {None}
BY DEF GameInv, GameTypeOK, RowIsScores, serverVars, Counted

\* The page goes on with the round it plays.
LEMMA RoundGoesOn ==
  ASSUME GameInv, UNCHANGED <<kind, screen, offered, playing, finished, round, serverVars>>,
         board' \in Boards
  PROVE  GameInv'
<1>1. RowIsScores' /\ saves' \in Seq(Saves) /\ row' \in ScoreRows \cup {None}
  BY SavesStay
<1>2. RoundsOnce'
  BY DEF GameInv, RoundsOnce, serverVars
<1> QED
  BY <1>1, <1>2 DEF GameInv, GameTypeOK

\* A score that is sent is not counted yet.
LEMMA SavedOneMore ==
  ASSUME GameInv, NEW s \in Saves, saves' = Append(saves, s), s.at = "sent", UNCHANGED row
  PROVE  /\ saves' \in Seq(Saves) /\ RowIsScores'
         /\ DOMAIN saves' = DOMAIN saves \cup {Len(saves) + 1} /\ Len(saves) + 1 \notin DOMAIN saves
         /\ saves'[Len(saves) + 1] = s /\ \A i \in DOMAIN saves : saves'[i] = saves[i]
<1>1. saves \in Seq(Saves) /\ Len(saves) \in Nat /\ DOMAIN saves = 1..Len(saves)
  BY LenProperties DEF GameInv, GameTypeOK
<1>2. /\ saves' \in Seq(Saves) /\ Len(saves') = Len(saves) + 1
      /\ \A i \in 1..Len(saves) : saves'[i] = saves[i]
      /\ saves'[Len(saves) + 1] = s
  BY <1>1, AppendProperties
<1>3. DOMAIN saves' = 1..(Len(saves) + 1)
  BY <1>1, <1>2, LenProperties
<1>4. DOMAIN saves' = DOMAIN saves \cup {Len(saves) + 1} /\ Len(saves) + 1 \notin DOMAIN saves
  BY <1>1, <1>3
<1>5. Counted' = Counted
  BY <1>1, <1>2, <1>4 DEF Counted
<1>6. \A i \in Counted : saves'[i] = saves[i]
  BY <1>1, <1>2 DEF Counted
<1>7. RowIsScores'
  <2>1. CASE row = None
    BY <1>1, <1>2, <1>4, <2>1 DEF GameInv, RowIsScores
  <2>2. CASE row # None
    BY <1>5, <1>6, <2>2 DEF GameInv, RowIsScores
  <2> QED
    BY <2>1, <2>2
<1> QED
  BY <1>1, <1>2, <1>4, <1>7

\* A round that is ended is saved, unless it was before.
LEMMA EndedOnce ==
  ASSUME GameInv, screen = "active", NEW points \in Nat, NEW success \in BOOLEAN,
         Finish(points, success), UNCHANGED <<kind, screen, offered, round, row>>, board' \in Boards
  PROVE  GameInv'
<1>1. CASE finished
  BY <1>1, RoundGoesOn DEF Finish, serverVars
<1>2. CASE ~finished
  <2> DEFINE s == [round |-> round, score |-> points, passed |-> success, at |-> "sent"]
  <2>1. s \in Saves /\ s.at = "sent" /\ s.round = round
    BY DEF GameInv, GameTypeOK, Saves
  <2>2. saves' = Append(saves, s) /\ finished' = TRUE /\ playing' = FALSE
    BY <1>2 DEF Finish
  <2> HIDE DEF s
  <2>3. /\ saves' \in Seq(Saves) /\ RowIsScores'
        /\ DOMAIN saves' = DOMAIN saves \cup {Len(saves) + 1} /\ Len(saves) + 1 \notin DOMAIN saves
        /\ saves'[Len(saves) + 1] = s /\ \A i \in DOMAIN saves : saves'[i] = saves[i]
    BY <2>1, <2>2, SavedOneMore
  <2>4. /\ \A i \in DOMAIN saves : saves[i].round <= round /\ saves[i].round # round
        /\ round > 0 /\ round \in Nat
    BY <1>2 DEF GameInv, RoundsOnce, GameTypeOK
  <2>5. \A i \in DOMAIN saves' : saves'[i].round <= round'
    BY <2>1, <2>3, <2>4
  <2>6. \A i, j \in DOMAIN saves' :
           saves'[i].round = saves'[j].round /\ i # j => saves'[i].round = 0
    <3>1. \A i, j \in DOMAIN saves :
             saves[i].round = saves[j].round /\ i # j => saves[i].round = 0
      BY DEF GameInv, RoundsOnce
    <3> QED
      BY <2>1, <2>3, <2>4, <3>1
  <2>7. RoundsOnce'
    BY <2>2, <2>4, <2>5, <2>6 DEF RoundsOnce
  <2> QED
    BY <2>2, <2>3, <2>7 DEF GameInv, GameTypeOK
<1> QED
  BY <1>1, <1>2

\* What a round does before it is ended, and how it is ended.
LEMMA ShellSteps ==
  ASSUME GameInv, Shell
  PROVE  GameInv'
<1> USE DEF GameInv, GameTypeOK
<1>1. CASE Open
  <2>1. offered' \in Nat
    <3>1. PICK atLevel \in 0..MaxWords : \E dueWords \in 0..atLevel :
             offered' \in GameWords(kind, atLevel, dueWords)
      BY <1>1 DEF Open
    <3>2. PICK dueWords \in 0..atLevel : offered' \in GameWords(kind, atLevel, dueWords)
      BY <3>1
    <3> QED
      BY <3>1, <3>2, GamesAssumption DEF GameWords
  <2>2. RowIsScores' /\ saves' \in Seq(Saves) /\ row' \in ScoreRows \cup {None}
    BY <1>1, SavesStay DEF Open, serverVars
  <2>3. RoundsOnce'
    BY <1>1 DEF Open, RoundsOnce, serverVars
  <2> QED
    BY <1>1, <2>1, <2>2, <2>3 DEF Open
<1>2. CASE LeavePage
  <2>1. Empty \in Boards
    BY DEF Empty, Boards
  <2>2. RowIsScores' /\ saves' \in Seq(Saves) /\ row' \in ScoreRows \cup {None}
    BY <1>2, SavesStay DEF LeavePage, serverVars
  <2>3. RoundsOnce'
    BY <1>2 DEF LeavePage, RoundsOnce, serverVars
  <2> QED
    BY <1>2, <2>1, <2>2, <2>3 DEF LeavePage
<1>3. CASE StartGame
  <2>1. PICK length \in Nat : StartRound(length)
    <3>1. offered \in Nat /\ LongRound(offered) \in Nat /\ WordsPerGame \in Nat /\ Placed \subseteq Nat
      BY GamesAssumption DEF LongRound, Placed
    <3> QED
      BY <1>3, <3>1 DEF StartGame, StartSpeedVocab, StartScramble, StartQuiz, StartMatch, StartPronun,
         StartPhrases, StartSearch
  <2>2. [Empty EXCEPT !.total = length] \in Boards
    BY DEF Empty, Boards
  <2>3. RowIsScores' /\ saves' \in Seq(Saves) /\ row' \in ScoreRows \cup {None}
    BY <2>1, SavesStay DEF StartRound, serverVars
  <2>4. /\ round \in Nat /\ round' = round + 1 /\ round' \in Nat /\ round' > 0
        /\ \A i \in DOMAIN saves : saves[i].round \in Nat
    <3>1. \A i \in DOMAIN saves : saves[i] \in Saves
      BY ElementOfSeq, LenProperties
    <3>2. round' = round + 1
      BY <2>1 DEF StartRound
    <3>3. \A i \in DOMAIN saves : saves[i].round \in Nat
      BY <3>1 DEF Saves
    <3> QED
      BY <3>2, <3>3
  <2>5. UNCHANGED <<saves, row>> /\ playing' /\ screen' = "active" /\ finished' = FALSE
    BY <2>1 DEF StartRound, serverVars
  <2>6. RoundsOnce'
    <3>1. \A i \in DOMAIN saves : saves[i].round <= round
      BY DEF RoundsOnce
    <3>2. \A i \in DOMAIN saves : saves[i].round <= round + 1 /\ saves[i].round # round + 1
      BY <2>4, <3>1
    <3> QED
      BY <2>4, <2>5, <3>2 DEF RoundsOnce
  <2> QED
    BY <2>1, <2>2, <2>3, <2>4, <2>6 DEF StartRound
<1>4. CASE NothingToPlay
  <2>1. RowIsScores' /\ saves' \in Seq(Saves) /\ row' \in ScoreRows \cup {None}
    BY <1>4, SavesStay DEF NothingToPlay, serverVars
  <2>2. RoundsOnce'
    BY <1>4 DEF NothingToPlay, RoundsOnce, serverVars
  <2> QED
    BY <1>4, <2>1, <2>2 DEF NothingToPlay
<1>5. CASE TimeRunsOut
  BY <1>5, RoundGoesOn DEF TimeRunsOut
<1>6. CASE TimeUp
  <2>1. screen = "active"
    BY <1>6 DEF TimeUp, RoundsOnce
  <2> QED
    BY <1>6, <2>1, VerdictType, EndedOnce DEF TimeUp, EndGame
<1>7. CASE Reveal
  <2>1. RowIsScores' /\ saves' \in Seq(Saves) /\ row' \in ScoreRows \cup {None}
    BY <1>7, SavesStay DEF Reveal, serverVars
  <2>2. RoundsOnce'
    BY <1>7 DEF Reveal, RoundsOnce, serverVars
  <2> QED
    BY <1>7, <2>1, <2>2 DEF Reveal
<1> QED
  BY <1>1, <1>2, <1>3, <1>4, <1>5, <1>6, <1>7 DEF Shell

\* What is played on a board: it goes on, or its round is ended.
LEMMA BoardSteps ==
  ASSUME GameInv, Board
  PROVE  GameInv'
<1>1. board \in Boards
  BY DEF GameInv, GameTypeOK
<1>2. /\ Right(board) \in Boards /\ Missed(board) \in Boards /\ Tried(board) \in Boards
      /\ \A h \in {"open", "wrong", "answered", "checking", "all found"} : Hand(board, h) \in Boards
  BY <1>1, BoardMoves
<1>3. \A h \in {"open", "wrong", "answered", "checking", "all found"} :
        /\ Hand(Right(board), h) \in Boards /\ Hand(Missed(board), h) \in Boards
        /\ Hand(Tried(board), h) \in Boards
  BY <1>2, BoardMoves
<1>4. \A b \in Boards : Onto(b) => GameInv'
  BY RoundGoesOn DEF Onto
<1>5. \A b \in Boards : EndGame /\ board' = b /\ screen = "active" => GameInv'
  <2>1. GameTypeOK
    BY DEF GameInv
  <2> QED
    BY <2>1, VerdictType, EndedOnce DEF EndGame
<1>6. CASE TypeWord
  <2>1. Tried(Right(board)) \in Boards /\ Tried(Missed(board)) \in Boards
    BY <1>2, BoardMoves
  <2>2. Hand(Tried(Missed(board)), "wrong") \in Boards
    BY <2>1, BoardMoves
  <2> QED
    BY <1>4, <1>6, <2>1, <2>2 DEF TypeWord
<1>7. CASE WrongWordOver
  BY <1>2, <1>4, <1>7 DEF WrongWordOver
<1>8. CASE CheckPhrase
  BY <1>2, <1>3, <1>4, <1>8 DEF CheckPhrase
<1>9. CASE NextPhrase
  BY <1>1, <1>3, <1>4, <1>5, <1>9 DEF NextPhrase, Playing
<1>10. CASE CheckScramble
  BY <1>2, <1>3, <1>4, <1>10 DEF CheckScramble
<1>11. CASE NextScramble
  BY <1>3, <1>4, <1>11 DEF NextScramble
<1>12. CASE AnswerQuiz
  BY <1>3, <1>4, <1>12 DEF AnswerQuiz
<1>13. CASE NextQuestion
  BY <1>1, <1>3, <1>4, <1>5, <1>13 DEF NextQuestion, Playing
<1>14. CASE FlipPair
  BY <1>2, <1>4, <1>14 DEF FlipPair
<1>15. CASE ComparePair
  <2>1. CASE Onto(Hand(board, "open"))
    BY <1>2, <1>4, <2>1
  <2> DEFINE matched == board.right + 1
             b == [board EXCEPT !.right = matched]
  <2>2. CASE /\ board' = [board EXCEPT !.right = matched, !.hand = "open"]
             /\ IF matched = board.total
                THEN Finish(matched, ReachesShare(matched, board.total, MinAccuracy["flash_match"]))
                ELSE UNCHANGED <<finished, playing, saves>>
             /\ UNCHANGED <<kind, screen, offered, timer, round, selected, row, faults>>
    <3>1. matched \in Nat
      <4>1. board.right \in Nat
        BY <1>1 DEF Boards
      <4> QED
        BY <4>1
    <3>2. b \in Boards
      BY <1>1, <3>1, BoardMoves
    <3>3. Hand(b, "open") \in Boards
      BY <3>2, BoardMoves
    <3>4. board' = Hand(b, "open")
      BY <1>1, <2>2 DEF Hand, Boards
    <3>5. screen = "active"
      BY <1>15 DEF ComparePair, Playing
    <3>6. ReachesShare(matched, board.total, MinAccuracy["flash_match"]) \in BOOLEAN
      BY DEF ReachesShare
    <3>7. CASE matched = board.total
      <4> HIDE DEF matched, b
      <4> QED
        BY <2>2, <3>1, <3>3, <3>4, <3>5, <3>6, <3>7, EndedOnce
    <3>8. CASE matched # board.total
      <4> HIDE DEF matched, b
      <4> QED
        BY <2>2, <3>3, <3>4, <3>8, RoundGoesOn DEF serverVars
    <3> QED
      BY <3>7, <3>8
  <2> QED
    BY <1>15, <2>1, <2>2 DEF ComparePair
<1>16. CASE Hint
  <2>1. Minus(board.score, HintCost) \in Nat
    <3>1. board.score \in Nat
      BY <1>1 DEF Boards
    <3> QED
      BY <3>1, GamesAssumption DEF Minus
  <2>2. [board EXCEPT !.score = Minus(@, HintCost)] \in Boards
    BY <1>1, <2>1 DEF Boards
  <2> QED
    BY <1>4, <1>16, <2>2 DEF Hint
<1>17. CASE AllFound
  BY <1>2, <1>5, <1>17 DEF AllFound, Playing
<1>18. CASE Pronounce
  <2>1. PICK heard \in Hearings :
           Onto([board EXCEPT !.right = @ + Accuracy(heard), !.tried = @ + 1, !.hand = "answered"])
    BY <1>18 DEF Pronounce
  <2> DEFINE sum == board.right + Accuracy(heard)
             b == [board EXCEPT !.right = sum]
             c == [b EXCEPT !.tried = board.tried + 1]
  <2>2. sum \in Nat /\ board.tried + 1 \in Nat
    <3>1. board.right \in Nat /\ board.tried \in Nat
      BY <1>1 DEF Boards
    <3> QED
      BY <3>1, AccuracyType
  <2>3. b \in Boards
    BY <1>1, <2>2, BoardMoves
  <2>4. c \in Boards
    <3> HIDE DEF b
    <3> QED
      BY <2>2, <2>3, BoardMoves
  <2>5. Hand(c, "answered") \in Boards
    BY <2>4, BoardMoves
  <2>6. [board EXCEPT !.right = @ + Accuracy(heard), !.tried = @ + 1, !.hand = "answered"]
        = Hand(c, "answered")
    BY <1>1 DEF Hand, Boards
  <2> QED
    BY <1>4, <2>1, <2>5, <2>6
<1>19. CASE MoveOn
  BY <1>1, <1>2, <1>4, <1>5, <1>19 DEF MoveOn, Playing
<1>20. CASE EndSelection
  <2>1. Found \in Boards
    BY <1>2, <1>3 DEF Found
  <2>2. board' \in Boards
    BY <1>2, <1>20, <2>1 DEF EndSelection
  <2> QED
    BY <1>20, <2>2, RoundGoesOn DEF EndSelection, OnGrid
<1>21. CASE \E cell \in Cells : StartSelection(cell) \/ ExtendSelection(cell)
  BY <1>1, <1>21, RoundGoesOn DEF StartSelection, ExtendSelection, OnGrid
<1> QED
  BY <1>6, <1>7, <1>8, <1>9, <1>10, <1>11, <1>12, <1>13, <1>14, <1>15, <1>16, <1>17, <1>18,
     <1>19, <1>20, <1>21 DEF Board

\* A score from elsewhere is of no round of this page.
LEMMA SentElsewhere ==
  ASSUME GameInv, SaveElsewhere
  PROVE  GameInv'
<1> DEFINE s == [round |-> 0, score |-> 1, passed |-> FALSE, at |-> "sent"]
<1>1. s \in Saves /\ s.at = "sent" /\ s.round = 0
  BY DEF Saves
<1>2. saves' = Append(saves, s) /\ UNCHANGED <<pageVars, row>>
  BY DEF SaveElsewhere
<1> HIDE DEF s
<1>3. /\ saves' \in Seq(Saves) /\ RowIsScores'
      /\ DOMAIN saves' = DOMAIN saves \cup {Len(saves) + 1} /\ Len(saves) + 1 \notin DOMAIN saves
      /\ saves'[Len(saves) + 1] = s /\ \A i \in DOMAIN saves : saves'[i] = saves[i]
  BY <1>1, <1>2, SavedOneMore
<1>4. \A i \in DOMAIN saves' : saves'[i] = s \/ (i \in DOMAIN saves /\ saves'[i] = saves[i])
  BY <1>3
<1>5. round \in Nat
  BY DEF GameInv, GameTypeOK
<1>6. (\A i \in DOMAIN saves : saves[i].round <= round)'
  <2>1. \A i \in DOMAIN saves : saves[i].round <= round
    BY DEF GameInv, RoundsOnce
  <2> QED
    BY <1>1, <1>2, <1>4, <1>5, <2>1 DEF pageVars
<1>7. (screen = "active" /\ ~finished => \A i \in DOMAIN saves : saves[i].round # round)'
  BY <1>1, <1>2, <1>4, <1>5 DEF GameInv, RoundsOnce, pageVars
<1>8. (\A i, j \in DOMAIN saves : saves[i].round = saves[j].round /\ i # j => saves[i].round = 0)'
  <2>1. \A i, j \in DOMAIN saves : saves[i].round = saves[j].round /\ i # j => saves[i].round = 0
    BY DEF GameInv, RoundsOnce
  <2> QED
    BY <1>1, <1>4, <2>1
<1>9. RoundsOnce'
  BY <1>2, <1>6, <1>7, <1>8 DEF GameInv, RoundsOnce, pageVars
<1> QED
  BY <1>2, <1>3, <1>9 DEF GameInv, GameTypeOK, pageVars

\* A score settles in one way; its round and its points stay.
LEMMA SettledTypes ==
  ASSUME GameInv, NEW i \in DOMAIN saves, NEW outcome \in {"exists", "counted", "lost"},
         Settled(i, outcome)
  PROVE  /\ saves' \in Seq(Saves) /\ DOMAIN saves' = DOMAIN saves
         /\ saves'[i].at = outcome
         /\ \A j \in DOMAIN saves : /\ saves'[j].round = saves[j].round /\ saves'[j].score = saves[j].score
                                    /\ j # i => saves'[j] = saves[j]
<1>1. saves \in Seq(Saves) /\ saves[i] \in Saves /\ Len(saves) \in Nat /\ DOMAIN saves = 1..Len(saves)
  BY LenProperties, ElementOfSeq DEF GameInv, GameTypeOK
<1> DEFINE s == [saves[i] EXCEPT !.at = outcome]
<1>2. s \in Saves /\ s.at = outcome /\ s.round = saves[i].round /\ s.score = saves[i].score
  BY <1>1 DEF Saves
<1>3. saves' = [saves EXCEPT ![i] = s]
  BY DEF Settled
<1> HIDE DEF s
<1>4. /\ saves' \in Seq(Saves) /\ Len(saves') = Len(saves)
      /\ \A j \in 1..Len(saves) : saves'[j] = IF j = i THEN s ELSE saves[j]
  BY <1>1, <1>2, <1>3, ExceptSeq
<1>5. DOMAIN saves' = DOMAIN saves
  BY <1>1, <1>4, LenProperties
<1> QED
  BY <1>1, <1>2, <1>4, <1>5

\* The rounds of what is saved do not change when it settles.
LEMMA RoundsStay ==
  ASSUME GameInv, NEW i \in DOMAIN saves, NEW outcome \in {"exists", "counted", "lost"},
         Settled(i, outcome), UNCHANGED pageVars
  PROVE  RoundsOnce'
<1>1. /\ DOMAIN saves' = DOMAIN saves
      /\ \A j \in DOMAIN saves : saves'[j].round = saves[j].round
  BY SettledTypes
<1> QED
  BY <1>1 DEF GameInv, RoundsOnce, pageVars

\* The scores that count are finitely many.
LEMMA CountedFinite ==
  ASSUME GameInv
  PROVE  IsFiniteSet(Counted)
<1>1. Len(saves) \in Nat /\ DOMAIN saves = 1..Len(saves)
  BY LenProperties DEF GameInv, GameTypeOK
<1>2. IsFiniteSet(1..Len(saves))
  BY <1>1, FS_Interval
<1>3. Counted \subseteq 1..Len(saves)
  BY <1>1 DEF Counted
<1> QED
  BY <1>2, <1>3, FS_Subset

\* A score settles; one that counts is one more, and the row has heard of it.
LEMMA SavingSteps ==
  ASSUME GameInv, NEW i \in DOMAIN saves, Saving(i)
  PROVE  GameInv'
<1>1. /\ saves \in Seq(Saves) /\ saves[i] \in Saves /\ row \in ScoreRows \cup {None}
      /\ \A j \in DOMAIN saves : saves[j].score \in Nat
  <2>1. saves \in Seq(Saves) /\ row \in ScoreRows \cup {None}
    BY DEF GameInv, GameTypeOK
  <2>2. \A j \in DOMAIN saves : saves[j] \in Saves
    BY <2>1, ElementOfSeq, LenProperties
  <2> QED
    BY <2>1, <2>2 DEF Saves
<1>2. UNCHANGED pageVars
  BY DEF Saving, CreateScore, RaiseScore, SaveLost
<1>3. ASSUME saves' \in Seq(Saves), row' \in ScoreRows \cup {None}, RoundsOnce', RowIsScores'
      PROVE  GameInv'
  BY <1>2, <1>3 DEF GameInv, GameTypeOK, pageVars
<1>4. ASSUME Settled(i, "counted"), saves[i].at # "counted"
      PROVE  /\ Counted' = Counted \cup {i} /\ i \notin Counted
             /\ Cardinality(Counted') = Cardinality(Counted) + 1
             /\ Cardinality(Counted) \in Nat
             /\ \A j \in Counted' : saves'[j].score = saves[j].score
             /\ \E j \in DOMAIN saves' : saves'[j].at = "counted"
  <2>1. /\ DOMAIN saves' = DOMAIN saves /\ saves'[i].at = "counted"
        /\ \A j \in DOMAIN saves : saves'[j].score = saves[j].score /\ (j # i => saves'[j] = saves[j])
    BY <1>4, SettledTypes
  <2>2. Counted' = Counted \cup {i} /\ i \notin Counted
    BY <1>4, <2>1 DEF Counted
  <2>3. IsFiniteSet(Counted)
    BY CountedFinite
  <2>4. Cardinality(Counted') = Cardinality(Counted) + 1 /\ Cardinality(Counted) \in Nat
    <3> DEFINE C == Counted
               D == Counted'
    <3>1. IsFiniteSet(C) /\ D = C \cup {i} /\ i \notin C
      BY <2>2, <2>3
    <3> HIDE DEF C, D
    <3>2. Cardinality(D) = Cardinality(C) + 1 /\ Cardinality(C) \in Nat
      BY <3>1, FS_AddElement, FS_CardinalityType
    <3> QED
      BY <3>2 DEF C, D
  <2>5. \A j \in Counted' : saves'[j].score = saves[j].score
    BY <2>1 DEF Counted
  <2> QED
    BY <2>1, <2>2, <2>4, <2>5
<1>5. ASSUME saves[i].at # "counted", NEW outcome \in {"exists", "lost"}, Settled(i, outcome),
             UNCHANGED row, row = None => outcome = "lost"
      PROVE  RowIsScores'
  <2>1. /\ DOMAIN saves' = DOMAIN saves /\ saves'[i].at = outcome
        /\ \A j \in DOMAIN saves : saves'[j].score = saves[j].score /\ (j # i => saves'[j] = saves[j])
    BY <1>5, SettledTypes
  <2>2. Counted' = Counted
    BY <1>5, <2>1 DEF Counted
  <2>3. \A j \in Counted : saves'[j].score = saves[j].score
    BY <2>1 DEF Counted
  <2>4. CASE row = None
    BY <1>5, <2>1, <2>4 DEF GameInv, RowIsScores
  <2>5. CASE row # None
    BY <1>5, <2>2, <2>3, <2>5 DEF GameInv, RowIsScores
  <2> QED
    BY <2>4, <2>5
<1>6. CASE CreateScore(i) /\ row = None
  <2>1. Settled(i, "counted") /\ saves[i].at = "sent" /\ row' = [best |-> saves[i].score, plays |-> 1]
    BY <1>6 DEF CreateScore
  <2>2. row' \in ScoreRows /\ row' # None
    BY <1>1, <2>1, GamesAssumption DEF ScoreRows
  <2>3. Counted = {}
    BY <1>6 DEF GameInv, RowIsScores, Counted
  <2>4. Counted' = {i} /\ Cardinality(Counted') = 1
    <3>1. Counted' = Counted \cup {i} /\ Cardinality(Counted') = Cardinality(Counted) + 1
      BY <1>4, <2>1
    <3>2. Cardinality({}) = 0
      BY FS_EmptySet
    <3> QED
      BY <2>3, <3>1, <3>2
  <2>5. \A j \in Counted' : saves'[j].score = saves[j].score
    BY <1>4, <2>1
  <2>6. RowIsScores'
    BY <1>1, <2>1, <2>2, <2>4, <2>5 DEF RowIsScores
  <2> QED
    BY <1>2, <1>3, <2>1, <2>2, <2>6, SettledTypes, RoundsStay
<1>7. CASE CreateScore(i) /\ row # None
  BY <1>1, <1>2, <1>3, <1>5, <1>7, SettledTypes, RoundsStay DEF CreateScore
<1>8. CASE RaiseScore(i)
  <2>1. /\ Settled(i, "counted") /\ saves[i].at = "exists"
        /\ row' = [best |-> Max({row.best, saves[i].score}), plays |-> row.plays + 1]
    BY <1>8 DEF RaiseScore
  <2>2. row # None
    BY <2>1 DEF GameInv, RowIsScores
  <2>3. row.best \in Nat /\ row.plays \in Nat
    BY <1>1, <2>2 DEF ScoreRows
  <2> DEFINE best == Max({row.best, saves[i].score})
  <2>4. best \in {row.best, saves[i].score} /\ best >= row.best /\ best >= saves[i].score
    BY <1>1, <2>3, OfTwo
  <2> HIDE DEF best
  <2>5. best \in Nat
    BY <1>1, <2>3, <2>4
  <2>6. row'.best = best /\ row'.plays = row.plays + 1
    BY <2>1 DEF best
  <2>7. row' \in ScoreRows /\ row' # None
    BY <2>1, <2>3, <2>5, GamesAssumption DEF ScoreRows, best
  <2>8. /\ Counted' = Counted \cup {i} /\ Cardinality(Counted') = Cardinality(Counted) + 1
        /\ \A j \in Counted' : saves'[j].score = saves[j].score
    BY <1>4, <2>1
  <2>9. /\ row.plays = Cardinality(Counted)
        /\ \E j \in Counted : row.best = saves[j].score
        /\ \A j \in Counted : saves[j].score <= row.best
    BY <2>2 DEF GameInv, RowIsScores
  <2>10. \A j \in Counted : saves[j].score \in Nat
    BY <1>1 DEF Counted
  <2>11. \A j \in Counted' : saves'[j].score <= row'.best
    <3>1. \A j \in Counted : saves[j].score <= best
      BY <2>3, <2>4, <2>5, <2>9, <2>10
    <3>2. \A j \in Counted' : saves[j].score <= best
      BY <2>4, <2>8, <3>1
    <3> QED
      BY <2>6, <2>8, <3>2
  <2>12. \E j \in Counted' : row'.best = saves'[j].score
    BY <2>4, <2>6, <2>8, <2>9
  <2>13. RowIsScores'
    BY <2>6, <2>7, <2>8, <2>9, <2>11, <2>12 DEF RowIsScores
  <2> QED
    BY <1>2, <1>3, <2>1, <2>7, <2>13, SettledTypes, RoundsStay
<1>9. CASE SaveLost(i)
  BY <1>1, <1>2, <1>3, <1>5, <1>9, SettledTypes, RoundsStay DEF SaveLost
<1> QED
  BY <1>6, <1>7, <1>8, <1>9 DEF Saving

\* A game page saves each round once, and the row stands for what arrived
\* (use-game-shell.ts:58, games.service.ts:97).
THEOREM GameInvariance == GameSpec => []GameInv
<1>1. GameInit => GameInv
  <2> SUFFICES ASSUME GameInit
               PROVE  GameInv
    OBVIOUS
  <2>1. Empty \in Boards
    BY DEF Empty, Boards
  <2>2. saves = <<>> /\ DOMAIN saves = {} /\ saves \in Seq(Saves)
    BY EmptySeq DEF GameInit
  <2>3. GameTypeOK
    BY <2>1, <2>2 DEF GameInit, GameTypeOK
  <2>4. RoundsOnce /\ RowIsScores
    BY <2>2 DEF GameInit, RoundsOnce, RowIsScores
  <2> QED
    BY <2>3, <2>4 DEF GameInv
<1>2. GameInv /\ [GameNext]_gameVars => GameInv'
  <2> SUFFICES ASSUME GameInv, [GameNext]_gameVars
               PROVE  GameInv'
    OBVIOUS
  <2>1. CASE Shell
    BY <2>1, ShellSteps
  <2>2. CASE Board
    BY <2>2, BoardSteps
  <2>3. CASE SaveElsewhere
    BY <2>3, SentElsewhere
  <2>4. CASE \E i \in DOMAIN saves : Saving(i)
    BY <2>4, SavingSteps
  <2>5. CASE UNCHANGED gameVars
    <3>1. board' \in Boards
      BY <2>5 DEF GameInv, GameTypeOK, gameVars, pageVars
    <3> QED
      BY <2>5, <3>1, RoundGoesOn DEF gameVars, pageVars
  <2> QED
    BY <2>1, <2>2, <2>3, <2>4, <2>5 DEF GameNext
<1> QED
  BY <1>1, <1>2, PTL DEF GameSpec

\* A round is saved once, although the time, the last word and a second click may all end it,
\* and the row counts each score that arrived and holds the best of them.
THEOREM RoundsCount == GameSpec => []EveryRoundCounts
<1>1. GameInv => EveryRoundCounts
  <2> SUFFICES ASSUME GameInv
               PROVE  EveryRoundCounts
    OBVIOUS
  <2>1. \A i, j \in DOMAIN saves : saves[i].round = saves[j].round /\ i # j => saves[i].round = 0
    BY DEF GameInv, RoundsOnce
  <2>2. ASSUME row # None
        PROVE  row.plays = Cardinality(Counted) /\ row.best = Max({saves[i].score : i \in Counted})
    <3> DEFINE scores == {saves[i].score : i \in Counted}
    <3>1. /\ row.plays = Cardinality(Counted)
          /\ row.best \in scores /\ \A s \in scores : s <= row.best
      BY <2>2 DEF GameInv, RowIsScores
    <3>2. scores \subseteq Nat
      <4>1. saves \in Seq(Saves)
        BY DEF GameInv, GameTypeOK
      <4>2. \A j \in DOMAIN saves : saves[j] \in Saves
        BY <4>1, ElementOfSeq, LenProperties
      <4> QED
        BY <4>2 DEF Counted, Saves
    <3> HIDE DEF scores
    <3>3. Max(scores) \in scores /\ \A s \in scores : Max(scores) >= s
      <4>1. \E x \in scores : \A y \in scores : x >= y
        BY <3>1, <3>2
      <4> QED
        BY <4>1, Zenon DEF Max
    <3>4. row.best = Max(scores)
      <4>1. row.best <= Max(scores) /\ Max(scores) <= row.best
        BY <3>1, <3>2, <3>3
      <4>2. row.best \in Nat /\ Max(scores) \in Nat
        BY <3>1, <3>2, <3>3
      <4> QED
        BY <4>1, <4>2
    <3> QED
      BY <3>1, <3>4 DEF scores
  <2> QED
    BY <2>1, <2>2 DEF EveryRoundCounts
<1> QED
  BY <1>1, GameInvariance, PTL

-----------------------------------------------------------------------------
(* The flashcards of a session                                             *)

\* A deck holds words of the session, each of them once.
LEMMA DeckOf ==
  ASSUME NEW S \in SUBSET Cards, NEW d \in SetToSeqs(S)
  PROVE  d \in Seq(Cards) /\ \A i, j \in DOMAIN d : d[i] = d[j] => i = j
<1>1. Cardinality(S) \in Nat
  BY CardsAssumption, FS_Subset, FS_CardinalityType
<1> DEFINE n == Cardinality(S)
<1>2. d \in [1..n -> S] /\ \A i, j \in 1..n : i # j => d[i] # d[j]
  BY DEF SetToSeqs
<1> HIDE DEF n
<1>3. n \in Nat
  BY <1>1 DEF n
<1>4. d \in [1..n -> Cards]
  BY <1>2
<1>5. d \in Seq(Cards)
  BY <1>3, <1>4, IsASeq
<1>6. DOMAIN d = 1..n
  BY <1>2
<1> QED
  BY <1>2, <1>5, <1>6

\* What is in a deck is a word of the session.
LEMMA InDeckIsCard ==
  ASSUME NEW d \in Seq(Cards), NEW i \in DOMAIN d
  PROVE  d[i] \in Cards
BY ElementOfSeq, LenProperties

\* A deck without marks.
LEMMA FreshIsUnmarked ==
  ASSUME NEW d
  PROVE  /\ FreshProgress(d) \in [DOMAIN d -> Marks \cup {Unmarked}]
         /\ \A i \in DOMAIN d : FreshProgress(d)[i] = Unmarked
         /\ NoMarks \in [Cards -> Marks \cup {Unmarked}] /\ \A w \in Cards : NoMarks[w] = Unmarked
BY DEF FreshProgress, NoMarks

\* A fresh start of a deck.
LEMMA FreshDeck ==
  ASSUME NEW d \in Seq(Cards), \A i, j \in DOMAIN d : d[i] = d[j] => i = j,
         SetDeck(d, FreshProgress(d)), given' = NoMarks
  PROVE  /\ deck' = d /\ deck' \in Seq(Cards) /\ progress' \in [DOMAIN deck' -> Marks \cup {Unmarked}]
         /\ given' \in [Cards -> Marks \cup {Unmarked}]
         /\ DeckMarked'
<1>1. /\ deck' = d /\ progress' = FreshProgress(d)
      /\ saved' = [words |-> d, progress |-> FreshProgress(d)]
  BY DEF SetDeck
<1>2. \A i \in DOMAIN d : FreshProgress(d)[i] = NoMarks[d[i]]
  BY FreshIsUnmarked, InDeckIsCard
<1> QED
  BY <1>1, <1>2, FreshIsUnmarked DEF DeckMarked

\* The deck and its marks stay.
LEMMA DeckStays ==
  ASSUME FlashInv, UNCHANGED <<deck, progress, saved, given>>
  PROVE  /\ deck' \in Seq(Cards) /\ progress' \in [DOMAIN deck' -> Marks \cup {Unmarked}]
         /\ given' \in [Cards -> Marks \cup {Unmarked}]
         /\ DeckMarked'
BY DEF FlashInv, FlashTypeOK, DeckMarked

\* The card stays, and what is scheduled or runs is no redraw.
LEMMA CardStays ==
  ASSUME FlashInv, UNCHANGED <<inSession, deck, index, cardVars>>,
         \A p \in callbacks' : p \in callbacks \/ p.what \notin {"draw", "settle"},
         Shuffling => Shuffling'
  PROVE  RedrawsWord'
<1>1. CASE Shuffling'
  BY <1>1 DEF RedrawsWord
<1>2. CASE ~Shuffling'
  BY <1>2 DEF FlashInv, RedrawsWord, Due, cardVars
<1> QED
  BY <1>1, <1>2

\* After a redraw the latest of them carries the word at the index.
LEMMA Redrawn ==
  ASSUME FlashInv, NEW d \in Seq(Cards), NEW i \in Nat, d # <<>> => i \in DOMAIN d,
         NEW rest \in SUBSET callbacks, Redraw(d, i, rest), deck' = d, index' = i, inSession'
  PROVE  /\ callbacks' \subseteq Callbacks /\ settling' \in BOOLEAN /\ drawn' \in Nat
         /\ RedrawsWord'
         /\ \A p \in callbacks' : p \in rest \/ p.what = "draw"
         /\ \A p \in callbacks' : p.what \in {"draw", "settle"} => p.id <= drawn'
<1>1. /\ callbacks \subseteq Callbacks /\ settling \in BOOLEAN /\ drawn \in Nat
      /\ \A p \in callbacks : p.what \in {"draw", "settle"} => p.id <= drawn
  BY DEF FlashInv, FlashTypeOK, Numbered
<1>2. CASE d = <<>>
  BY <1>1, <1>2 DEF Redraw, RedrawsWord
<1>3. CASE d # <<>>
  <2> DEFINE new == [what |-> "draw", id |-> drawn + 1, word |-> d[i]]
  <2>1. /\ drawn' = drawn + 1 /\ settling' = TRUE /\ callbacks' = rest \cup {new}
    BY <1>3 DEF Redraw
  <2>2. d[i] \in Cards
    BY <1>3, InDeckIsCard
  <2>3. /\ new \in Callbacks /\ new.what = "draw" /\ new.id = drawn + 1 /\ new.word = d[i]
    BY <1>1, <2>2 DEF Callbacks, CallbackKinds
  <2> HIDE DEF new
  <2>4. \A p \in callbacks : p.what \in {"draw", "settle"} => p.id <= drawn + 1 /\ p.id # drawn + 1
    <3>1. \A p \in callbacks : p.id \in Nat
      BY <1>1 DEF Callbacks
    <3> QED
      BY <1>1, <3>1
  <2>5. RedrawsWord'
    <3>1. \A p \in callbacks' : Due(p, "draw")' /\ p.id = drawn' => p.word = deck'[index']
      BY <2>1, <2>3, <2>4 DEF Due
    <3>2. \A p \in callbacks' : ~(Due(p, "settle")' /\ p.id = drawn')
      BY <2>1, <2>3, <2>4 DEF Due
    <3> QED
      BY <2>1, <3>1, <3>2 DEF RedrawsWord
  <2>6. \A p \in callbacks' : p.what \in {"draw", "settle"} => p.id <= drawn'
    BY <1>1, <2>1, <2>3, <2>4
  <2> QED
    BY <1>1, <2>1, <2>3, <2>5, <2>6
<1> QED
  BY <1>2, <1>3

\* A move is numbered, and what it leaves for later is of its number.
LEMMA MoveBegun ==
  ASSUME FlashInv, BeginMove
  PROVE  /\ move' \in Nat
         /\ \A p \in callbacks : p.what \in {"prev", "next", "marked"} => p.id <= move' /\ p.id # move'
         /\ \A what \in CallbackKinds : /\ Soon(what) \in Callbacks
                                        /\ Soon(what).what = what /\ Soon(what).id = move'
<1>1. move \in Nat /\ move' = move + 1 /\ callbacks \subseteq Callbacks
  BY DEF FlashInv, FlashTypeOK, BeginMove
<1>2. \A p \in callbacks : p.id \in Nat
  BY <1>1 DEF Callbacks
<1>3. \A p \in callbacks : p.what \in {"prev", "next", "marked"} => p.id <= move
  BY DEF FlashInv, Numbered
<1>4. \A what \in CallbackKinds : Soon(what) \in Callbacks
  BY <1>1 DEF Soon, Callbacks
<1> QED
  BY <1>1, <1>2, <1>3, <1>4 DEF Soon

\* A move schedules what it will do: nothing else changes yet.
LEMMA LaterStep ==
  ASSUME FlashInv, inSession, BeginMove, NEW what \in CallbackKinds \ {"draw", "settle"},
         what \in {"prev", "next", "marked"} => deck' # <<>>,
         callbacks' = callbacks \cup {Soon(what)}, UNCHANGED <<inSession, cardVars>>
  PROVE  /\ move' \in Nat /\ callbacks' \subseteq Callbacks /\ Numbered'
         /\ UNCHANGED <<deck, index>> => RedrawsWord'
<1>1. /\ move' \in Nat
      /\ \A p \in callbacks : p.what \in {"prev", "next", "marked"} => p.id <= move' /\ p.id # move'
      /\ Soon(what) \in Callbacks /\ Soon(what).what = what /\ Soon(what).id = move'
  BY MoveBegun
<1> DEFINE new == Soon(what)
<1>2. PICK n : n = Soon(what)
  OBVIOUS
<1>3. /\ n \in Callbacks /\ n.what = what /\ n.id = move' /\ callbacks' = callbacks \cup {n}
  BY <1>1, <1>2
<1>4. callbacks' \subseteq Callbacks
  BY <1>3 DEF FlashInv, FlashTypeOK
<1>5. Numbered'
  <2>1. \A p \in callbacks : p.what \in {"draw", "settle"} => p.id <= drawn
    BY DEF FlashInv, Numbered
  <2> QED
    BY <1>1, <1>3, <2>1 DEF Numbered, Latest, cardVars
<1>6. Shuffling => Shuffling'
  BY <1>3 DEF Shuffling
<1>7. UNCHANGED <<deck, index>> => RedrawsWord'
  BY <1>3, <1>6, CardStays
<1> QED
  BY <1>1, <1>4, <1>5, <1>7

\* A session begins with the words of the day: their marks come back if they are the saved ones.
LEMMA Entered ==
  ASSUME FlashInv, Enter
  PROVE  FlashInv'
<1>1. PICK d \in BuildDeck(pool') :
        LET restored == Matches(d)
            start == IF restored THEN Loaded(d) ELSE [words |-> d, progress |-> FreshProgress(d)]
        IN /\ SetDeck(start.words, start.progress)
           /\ given' = IF restored THEN given ELSE NoMarks
           /\ card' = IF start.words = <<>> THEN None ELSE Head(start.words)
  BY DEF Enter
<1>2. d \in Seq(Cards) /\ \A i, j \in DOMAIN d : d[i] = d[j] => i = j
  BY DeckOf DEF Enter, BuildDeck
<1>3. /\ inSession' /\ callbacks' = {} /\ index' = 1 /\ settling' = FALSE /\ drawn' = 0 /\ move' = 0
      /\ counted' = FALSE /\ streaks' = 0
  BY DEF Enter, FlashInv, FlashTypeOK
<1>4. /\ deck' \in Seq(Cards) /\ progress' \in [DOMAIN deck' -> Marks \cup {Unmarked}]
      /\ given' \in [Cards -> Marks \cup {Unmarked}]
      /\ DeckMarked' /\ card' = IF deck' = <<>> THEN None ELSE Head(deck')
  <2>1. CASE Matches(d)
    <3>1. saved = [words |-> deck, progress |-> progress]
      BY <2>1 DEF Matches, FlashInv, DeckMarked
    <3>2. /\ deck' = deck /\ progress' = progress /\ given' = given /\ saved' = saved
          /\ card' = IF deck = <<>> THEN None ELSE Head(deck)
      BY <1>1, <2>1, <3>1 DEF SetDeck, Loaded
    <3> QED
      BY <3>2, DeckStays
  <2>2. CASE ~Matches(d)
    <3>1. /\ SetDeck(d, FreshProgress(d)) /\ given' = NoMarks
          /\ card' = IF d = <<>> THEN None ELSE Head(d)
      BY <1>1, <2>2
    <3> QED
      BY <1>2, <3>1, FreshDeck
  <2> QED
    BY <2>1, <2>2
<1>5. deck' # <<>> => 1 \in DOMAIN deck' /\ card' = deck'[1]
  BY <1>4, LenProperties, EmptySeq
<1>6. FlashTypeOK'
  BY <1>3, <1>4, <1>5 DEF FlashTypeOK
<1>7. RedrawsWord' /\ Numbered' /\ CountedOnce'
  BY <1>3, <1>5 DEF RedrawsWord, Numbered, CountedOnce
<1> QED
  BY <1>4, <1>6, <1>7 DEF FlashInv

\* The page is left: nothing is pending, and what was saved stays.
LEMMA SessionLeft ==
  ASSUME FlashInv, LeaveSession
  PROVE  FlashInv'
<1>1. /\ inSession' = FALSE /\ callbacks' = {}
      /\ UNCHANGED <<deckVars, cardVars, move, counted, streaks>>
  BY DEF LeaveSession
<1>2. FlashTypeOK'
  BY <1>1 DEF FlashInv, FlashTypeOK, deckVars, cardVars
<1>3. DeckMarked' /\ RedrawsWord' /\ Numbered' /\ CountedOnce'
  BY <1>1, DeckStays DEF FlashInv, RedrawsWord, Numbered, CountedOnce, deckVars
<1> QED
  BY <1>2, <1>3 DEF FlashInv

\* What the user does.
LEMMA UserSteps ==
  ASSUME FlashInv, User
  PROVE  FlashInv'
<1>1. /\ inSession /\ inSession' = inSession /\ BeginMove
  BY DEF User, StartDeck, ChangeMode, GoPrev, GoNext, JumpTo, MarkCard, Shuffle, Reset, Acts
<1>2. /\ deck \in Seq(Cards) /\ index \in Nat /\ drawn \in Nat /\ settling \in BOOLEAN
      /\ counted \in BOOLEAN /\ (deck # <<>> => index \in DOMAIN deck) /\ callbacks \subseteq Callbacks
  BY <1>1 DEF FlashInv, FlashTypeOK
<1>3. ASSUME UNCHANGED <<deckVars, cardVars, counted, streaks>>, move' \in Nat,
             callbacks' \subseteq Callbacks, Numbered', RedrawsWord'
      PROVE  FlashInv'
  <2>1. DeckMarked' /\ CountedOnce'
    BY <1>3, DeckStays DEF FlashInv, CountedOnce, deckVars
  <2>2. FlashTypeOK'
    BY <1>1, <1>3 DEF FlashInv, FlashTypeOK, deckVars, cardVars
  <2> QED
    BY <1>3, <2>1, <2>2 DEF FlashInv
<1>4. CASE StartDeck
  <2>1. PICK d \in BuildDeck(pool') : SetDeck(d, FreshProgress(d)) /\ Redraw(d, 1, callbacks)
    BY <1>4 DEF StartDeck
  <2>2. d \in Seq(Cards) /\ \A i, j \in DOMAIN d : d[i] = d[j] => i = j
    BY <1>4, DeckOf DEF StartDeck, BuildDeck
  <2>3. given' = NoMarks /\ index' = 1 /\ counted' = FALSE /\ streaks' = 0
    BY <1>4 DEF StartDeck
  <2>4. /\ deck' = d /\ progress' \in [DOMAIN deck' -> Marks \cup {Unmarked}]
        /\ given' \in [Cards -> Marks \cup {Unmarked}] /\ DeckMarked'
    BY <2>1, <2>2, <2>3, FreshDeck
  <2>5. d # <<>> => 1 \in DOMAIN d
    BY <2>2, LenProperties, EmptySeq
  <2>6. /\ callbacks' \subseteq Callbacks /\ settling' \in BOOLEAN /\ drawn' \in Nat
        /\ RedrawsWord'
        /\ \A p \in callbacks' : p \in callbacks \/ p.what = "draw"
        /\ \A p \in callbacks' : p.what \in {"draw", "settle"} => p.id <= drawn'
    BY <1>1, <2>1, <2>2, <2>3, <2>4, <2>5, Redrawn
  <2>7. /\ move' \in Nat /\ Numbered'
    BY <1>1, <2>6, MoveBegun DEF Numbered, Latest
  <2>8. FlashTypeOK'
    BY <1>1, <2>2, <2>3, <2>4, <2>5, <2>6, <2>7 DEF FlashTypeOK
  <2> QED
    BY <2>3, <2>4, <2>6, <2>7, <2>8 DEF FlashInv, CountedOnce
<1>5. CASE ChangeMode
  BY <1>1, <1>3, <1>5, LaterStep DEF ChangeMode, CallbackKinds, deckVars
<1>6. CASE GoPrev
  <2>1. deck # <<>>
    BY <1>1, <1>6 DEF GoPrev, FlashInv, FlashTypeOK
  <2> QED
    BY <1>1, <1>3, <1>6, <2>1, LaterStep DEF GoPrev, CallbackKinds, deckVars
<1>7. CASE GoNext
  <2>1. deck # <<>>
    BY <1>7, EmptySeq DEF GoNext, InDeck
  <2> QED
    BY <1>1, <1>3, <1>7, <2>1, LaterStep DEF GoNext, CallbackKinds, deckVars
<1>8. CASE JumpTo
  <2>1. /\ index' \in DOMAIN deck /\ Redraw(deck, index', callbacks)
        /\ UNCHANGED <<deck, progress, saved, given, counted, streaks>>
    BY <1>8 DEF JumpTo
  <2>2. index' \in Nat /\ deck' = deck
    BY <1>2, <2>1, LenProperties
  <2>3. /\ callbacks' \subseteq Callbacks /\ settling' \in BOOLEAN /\ drawn' \in Nat
        /\ RedrawsWord'
        /\ \A p \in callbacks' : p \in callbacks \/ p.what = "draw"
        /\ \A p \in callbacks' : p.what \in {"draw", "settle"} => p.id <= drawn'
    BY <1>1, <1>2, <2>1, <2>2, Redrawn
  <2>4. move' \in Nat /\ Numbered'
    BY <1>1, <2>3, MoveBegun DEF Numbered, Latest
  <2>5. DeckMarked' /\ CountedOnce'
    BY <2>1, DeckStays DEF FlashInv, CountedOnce
  <2>6. FlashTypeOK'
    BY <1>1, <2>1, <2>2, <2>3, <2>4, DeckStays DEF FlashInv, FlashTypeOK
  <2> QED
    BY <2>3, <2>4, <2>5, <2>6 DEF FlashInv
<1>9. CASE \E l \in Marks : MarkCard(l)
  <2>1. PICK l \in Marks : MarkCard(l)
    BY <1>9
  <2> DEFINE next == [progress EXCEPT ![index] = l]
             done == ~counted /\ \A i \in DOMAIN next : next[i] = 2
  <2>2. /\ SetDeck(deck, next) /\ counted' = (counted \/ done)
        /\ streaks' = IF done THEN streaks + 1 ELSE streaks
        /\ given' = [given EXCEPT ![deck[index]] = l]
        /\ callbacks' = callbacks \cup {Soon("marked")}
        /\ deck # <<>> /\ UNCHANGED <<inSession, index, cardVars>>
    BY <2>1 DEF MarkCard, Markable
  <2>3. index \in DOMAIN deck /\ deck[index] \in Cards
    BY <1>2, <2>2, InDeckIsCard
  <2>4. /\ progress \in [DOMAIN deck -> Marks \cup {Unmarked}]
        /\ given \in [Cards -> Marks \cup {Unmarked}]
        /\ \A i, j \in DOMAIN deck : deck[i] = deck[j] => i = j
        /\ \A i \in DOMAIN deck : progress[i] = given[deck[i]] /\ deck[i] \in Cards
    BY <1>2, InDeckIsCard DEF FlashInv, FlashTypeOK, DeckMarked
  <2>5. /\ next \in [DOMAIN deck -> Marks \cup {Unmarked}]
        /\ given' \in [Cards -> Marks \cup {Unmarked}]
        /\ \A i \in DOMAIN deck : next[i] = given'[deck[i]]
    BY <2>2, <2>3, <2>4
  <2>6. /\ deck' = deck /\ progress' = next /\ saved' = [words |-> deck, progress |-> next]
    BY <2>2 DEF SetDeck
  <2>7. DeckMarked'
    <3> HIDE DEF next
    <3> QED
      BY <2>4, <2>5, <2>6 DEF DeckMarked
  <2>8. CountedOnce' /\ counted' \in BOOLEAN
    <3>1. /\ done => ~counted /\ counted' = TRUE /\ streaks' = streaks + 1
          /\ ~done => counted' = counted /\ streaks' = streaks
      BY <1>2, <2>2
    <3> HIDE DEF done
    <3>2. CASE done
      BY <3>1, <3>2 DEF FlashInv, CountedOnce
    <3>3. CASE ~done
      BY <1>2, <3>1, <3>3 DEF FlashInv, CountedOnce
    <3> QED
      BY <3>2, <3>3
  <2>9. move' \in Nat /\ callbacks' \subseteq Callbacks /\ Numbered' /\ RedrawsWord'
    BY <1>1, <2>2, <2>6, LaterStep DEF CallbackKinds
  <2>10. FlashTypeOK'
    <3> HIDE DEF next, done
    <3> QED
      BY <1>1, <1>2, <2>2, <2>5, <2>6, <2>8, <2>9 DEF FlashTypeOK, cardVars
  <2> QED
    BY <2>7, <2>8, <2>9, <2>10 DEF FlashInv
<1>10. CASE Shuffle
  <2>1. PICK d \in SetToSeqs(ToSet(deck)) : SetDeck(d, FreshProgress(d))
    BY <1>10 DEF Shuffle
  <2>2. ToSet(deck) \in SUBSET Cards
    BY <1>2, InDeckIsCard DEF ToSet
  <2>3. d \in Seq(Cards) /\ \A i, j \in DOMAIN d : d[i] = d[j] => i = j
    BY <2>2, DeckOf
  <2>4. /\ given' = NoMarks /\ index' = 1 /\ counted' = FALSE /\ streaks' = 0
        /\ callbacks' = callbacks \cup {Soon("shuffled")} /\ UNCHANGED cardVars
    BY <1>10 DEF Shuffle
  <2>5. /\ deck' = d /\ progress' \in [DOMAIN deck' -> Marks \cup {Unmarked}]
        /\ given' \in [Cards -> Marks \cup {Unmarked}] /\ DeckMarked'
    BY <2>1, <2>3, <2>4, FreshDeck
  <2>6. d # <<>> => 1 \in DOMAIN d
    BY <2>3, LenProperties, EmptySeq
  <2>7. move' \in Nat /\ callbacks' \subseteq Callbacks
    BY <1>1, <1>2, <2>4, MoveBegun DEF CallbackKinds
  <2>8. Numbered'
    <3>1. Soon("shuffled").what = "shuffled"
      BY DEF Soon
    <3>2. PICK n : n = Soon("shuffled")
      OBVIOUS
    <3>3. \A p \in callbacks : p.what \in {"draw", "settle"} => p.id <= drawn
      BY DEF FlashInv, Numbered
    <3> QED
      BY <1>1, <2>4, <3>1, <3>2, <3>3, MoveBegun DEF Numbered, Latest, cardVars
  <2>9. RedrawsWord'
    <3>1. PICK n : n = Soon("shuffled")
      OBVIOUS
    <3>2. n.what = "shuffled" /\ n \in callbacks'
      BY <2>4, <3>1 DEF Soon
    <3>3. Shuffling'
      BY <3>2 DEF Shuffling
    <3> QED
      BY <3>3 DEF RedrawsWord
  <2>10. FlashTypeOK'
    BY <1>1, <1>2, <2>3, <2>4, <2>5, <2>6, <2>7 DEF FlashTypeOK, cardVars
  <2> QED
    BY <2>4, <2>5, <2>8, <2>9, <2>10 DEF FlashInv, CountedOnce
<1>11. CASE Reset
  <2>1. /\ counted' = FALSE /\ streaks' = 0 /\ callbacks' = callbacks \cup {Soon("reset")}
        /\ UNCHANGED <<inSession, deck, progress, index, saved, given, cardVars>>
    BY <1>11 DEF Reset, deckVars
  <2>2. move' \in Nat /\ callbacks' \subseteq Callbacks /\ Numbered' /\ RedrawsWord'
    BY <1>1, <2>1, LaterStep DEF CallbackKinds
  <2>3. DeckMarked' /\ CountedOnce'
    BY <2>1, DeckStays DEF CountedOnce
  <2>4. FlashTypeOK'
    <3>1. counted' \in BOOLEAN /\ UNCHANGED <<deck, progress, index, given, drawn>>
      BY <2>1 DEF cardVars
    <3>2. settling' \in BOOLEAN
      BY <1>2, <2>1 DEF cardVars
    <3> QED
      BY <1>1, <2>2, <3>1, <3>2 DEF FlashInv, FlashTypeOK
  <2> QED
    BY <2>2, <2>3, <2>4 DEF FlashInv
<1> QED
  BY <1>4, <1>5, <1>6, <1>7, <1>8, <1>9, <1>10, <1>11 DEF User

\* A callback that is over schedules nothing but moves, and nothing moved yet.
LEMMA Dropped ==
  ASSUME FlashInv, inSession, NEW p \in callbacks, p.what \notin {"shuffled"},
         UNCHANGED <<inSession, deckVars, cardVars, move, counted, streaks>>,
         callbacks' = callbacks \ {p}
  PROVE  FlashInv'
<1>1. FlashTypeOK' /\ Numbered' /\ CountedOnce'
  BY DEF FlashInv, FlashTypeOK, Numbered, Latest, CountedOnce, deckVars, cardVars
<1>2. Shuffling => Shuffling'
  BY DEF Shuffling
<1>3. RedrawsWord'
  BY <1>2, CardStays DEF deckVars
<1>4. DeckMarked'
  BY DeckStays DEF deckVars
<1> QED
  BY <1>1, <1>3, <1>4 DEF FlashInv

\* A redraw that a callback makes, of the deck as it is.
LEMMA RedrawnLater ==
  ASSUME FlashInv, inSession, UNCHANGED <<inSession, deck, move>>, NEW p \in callbacks,
         index' \in Nat, deck # <<>> => index' \in DOMAIN deck, deck = <<>> => index' = 1,
         Redraw(deck, index', callbacks \ {p}),
         progress' \in [DOMAIN deck -> Marks \cup {Unmarked}],
         given' \in [Cards -> Marks \cup {Unmarked}], DeckMarked', UNCHANGED <<counted, streaks>>
  PROVE  FlashInv'
<1>1. deck \in Seq(Cards)
  BY DEF FlashInv, FlashTypeOK
<1>2. /\ callbacks' \subseteq Callbacks /\ settling' \in BOOLEAN /\ drawn' \in Nat
      /\ RedrawsWord'
      /\ \A q \in callbacks' : q \in callbacks \ {p} \/ q.what = "draw"
      /\ \A q \in callbacks' : q.what \in {"draw", "settle"} => q.id <= drawn'
  BY <1>1, Redrawn
<1>3. FlashTypeOK'
  BY <1>1, <1>2 DEF FlashInv, FlashTypeOK
<1>4. Numbered' /\ CountedOnce'
  BY <1>2 DEF FlashInv, Numbered, Latest, CountedOnce
<1> QED
  BY <1>2, <1>3, <1>4 DEF FlashInv

\* What the delayed callbacks do.
LEMMA CallbackSteps ==
  ASSUME FlashInv, NEW p \in callbacks, Elapses(p)
  PROVE  FlashInv'
<1>1. /\ inSession /\ inSession' = inSession
  <2>1. inSession
    BY DEF FlashInv, FlashTypeOK
  <2> QED
    BY <2>1 DEF Elapses, Draw, SettleCard, ReplacedDeck, Back, Advance, MovedTo, MarkShown, RedrawLater, ResetDone
<1>2. /\ deck \in Seq(Cards) /\ Len(deck) \in Nat /\ DOMAIN deck = 1..Len(deck) /\ index \in Nat
      /\ (deck = <<>> => index = 1) /\ (deck # <<>> => index \in DOMAIN deck /\ Len(deck) > 0)
      /\ progress \in [DOMAIN deck -> Marks \cup {Unmarked}]
      /\ given \in [Cards -> Marks \cup {Unmarked}]
      /\ callbacks \subseteq Callbacks /\ p \in Callbacks
  <2>1. deck \in Seq(Cards)
    BY DEF FlashInv, FlashTypeOK
  <2>2. Len(deck) \in Nat /\ DOMAIN deck = 1..Len(deck)
    BY <2>1, LenProperties
  <2>3. deck # <<>> => Len(deck) > 0
    BY <2>1, <2>2, EmptySeq
  <2> QED
    BY <1>1, <2>1, <2>2, <2>3 DEF FlashInv, FlashTypeOK
<1>3. CASE Draw(p)
  <2>1. CASE p.id # drawn
    <3>1. /\ callbacks' = callbacks \ {p} /\ p.what \notin {"shuffled"}
          /\ UNCHANGED <<inSession, deckVars, cardVars, move, counted, streaks>>
      BY <1>3, <2>1 DEF Draw, Due, cardVars
    <3> QED
      BY <1>1, <3>1, Dropped
  <2>2. CASE p.id = drawn
    <3>1. PICK n : n = [p EXCEPT !.what = "settle", !.word = None]
      OBVIOUS
    <3>2. n \in Callbacks /\ n.what = "settle" /\ n.id = drawn
      BY <1>2, <2>2, <3>1 DEF Callbacks, CallbackKinds
    <3>3. /\ card' = p.word /\ callbacks' = (callbacks \ {p}) \cup {n} /\ Due(p, "draw")
          /\ UNCHANGED <<inSession, pool, deckVars, settling, drawn, move, counted, streaks>>
      BY <1>3, <2>2, <3>1 DEF Draw
    <3>4. FlashTypeOK'
      BY <1>1, <1>2, <3>2, <3>3 DEF FlashInv, FlashTypeOK, deckVars
    <3>5. Numbered'
      <4>1. drawn \in Nat
        BY DEF FlashInv, FlashTypeOK
      <4> QED
        BY <3>2, <3>3, <4>1 DEF FlashInv, Numbered, Latest, deckVars
    <3>6. RedrawsWord'
      <4>1. CASE Shuffling
        <5>1. Shuffling'
          BY <3>3, <4>1 DEF Shuffling, Due
        <5> QED
          BY <5>1 DEF RedrawsWord
      <4>2. CASE ~Shuffling /\ deck # <<>>
        <5>1. /\ \A q \in callbacks : Due(q, "draw") /\ q.id = drawn => q.word = deck[index]
          BY <1>1, <4>2 DEF FlashInv, RedrawsWord
        <5>2. card' = deck[index] /\ deck' = deck /\ index' = index /\ drawn' = drawn
          BY <2>2, <3>3, <5>1 DEF deckVars
        <5>3. \A q \in callbacks' : Due(q, "draw")' /\ q.id = drawn' => q.word = deck'[index']
          BY <3>2, <3>3, <5>1, <5>2 DEF Due
        <5> QED
          BY <5>2, <5>3 DEF RedrawsWord
      <4>3. CASE deck = <<>>
        BY <3>3, <4>3 DEF RedrawsWord, deckVars
      <4> QED
        BY <4>1, <4>2, <4>3
    <3>7. DeckMarked' /\ CountedOnce'
      BY <3>3, DeckStays DEF FlashInv, CountedOnce, deckVars
    <3> QED
      BY <3>4, <3>5, <3>6, <3>7 DEF FlashInv
  <2> QED
    BY <2>1, <2>2
<1>4. CASE SettleCard(p)
  <2>1. /\ Due(p, "settle") /\ callbacks' = callbacks \ {p}
        /\ settling' = (settling /\ p.id # drawn)
        /\ UNCHANGED <<inSession, deckVars, card, drawn, move, counted, streaks>>
    BY <1>4 DEF SettleCard
  <2>2. settling' \in BOOLEAN /\ (~settling' => ~settling \/ p.id = drawn)
    BY <2>1
  <2>3. FlashTypeOK' /\ Numbered' /\ CountedOnce'
    BY <1>1, <1>2, <2>1, <2>2 DEF FlashInv, FlashTypeOK, Numbered, Latest, CountedOnce, deckVars
  <2>4. RedrawsWord'
    <3>1. Shuffling => Shuffling'
      BY <2>1 DEF Shuffling, Due
    <3>2. CASE Shuffling \/ deck = <<>>
      BY <2>1, <3>1, <3>2 DEF RedrawsWord, deckVars
    <3>3. CASE ~Shuffling /\ deck # <<>>
      <4>1. /\ ~settling => card = deck[index]
            /\ \A q \in callbacks : /\ Due(q, "draw") /\ q.id = drawn => q.word = deck[index]
                                    /\ Due(q, "settle") /\ q.id = drawn => card = deck[index]
        BY <1>1, <3>3 DEF FlashInv, RedrawsWord
      <4>2. ~settling' => card = deck[index]
        BY <2>1, <2>2, <4>1
      <4> QED
        BY <2>1, <4>1, <4>2 DEF RedrawsWord, Due, deckVars
    <3> QED
      BY <3>2, <3>3
  <2>5. DeckMarked'
    BY <2>1, DeckStays DEF deckVars
  <2> QED
    BY <2>3, <2>4, <2>5 DEF FlashInv
<1>5. CASE ReplacedDeck(p)
  BY <1>1, <1>5, Dropped DEF ReplacedDeck
<1>6. CASE Back(p)
  <2>1. /\ index' = (IF index > 1 THEN index - 1 ELSE 1)
        /\ Redraw(deck, index', callbacks \ {p})
        /\ UNCHANGED <<inSession, deck, progress, saved, given, move, counted, streaks>>
        /\ Due(p, "prev") /\ Latest(p)
    BY <1>6 DEF Back, MovedTo
  <2>2. deck # <<>>
    BY <2>1 DEF FlashInv, Numbered, Due
  <2>3. index' \in DOMAIN deck /\ index' \in Nat
    BY <1>2, <2>1, <2>2
  <2> QED
    BY <1>1, <1>2, <2>1, <2>2, <2>3, DeckStays, RedrawnLater
<1>7. CASE Advance(p)
  <2>1. /\ index' = (IF InDeck(index + 1) THEN index + 1 ELSE Len(deck))
        /\ Redraw(deck, index', callbacks \ {p})
        /\ UNCHANGED <<inSession, deck, progress, saved, given, move, counted, streaks>>
        /\ Due(p, "next") /\ Latest(p)
    BY <1>7 DEF Advance, MovedTo
  <2>2. deck # <<>>
    BY <2>1 DEF FlashInv, Numbered, Due
  <2>3. index' \in DOMAIN deck /\ index' \in Nat
    BY <1>2, <2>1, <2>2 DEF InDeck
  <2> QED
    BY <1>1, <1>2, <2>1, <2>2, <2>3, DeckStays, RedrawnLater
<1>8. CASE MarkShown(p)
  <2>1. /\ Due(p, "marked") /\ Latest(p)
        /\ UNCHANGED <<inSession, deckVars, cardVars, move, counted, streaks>>
    BY <1>8 DEF MarkShown
  <2>2. CASE ~InDeck(index + 1)
    <3>1. callbacks' = callbacks \ {p}
      BY <1>8, <2>2 DEF MarkShown
    <3> QED
      BY <1>1, <2>1, <3>1, Dropped DEF Due
  <2>3. CASE InDeck(index + 1)
    <3>1. PICK n : n = [p EXCEPT !.what = "next"]
      OBVIOUS
    <3>2. n \in Callbacks /\ n.what = "next" /\ n.id = p.id
      BY <1>2, <3>1 DEF Callbacks, CallbackKinds
    <3>3. callbacks' = (callbacks \ {p}) \cup {n}
      BY <1>8, <2>3, <3>1 DEF MarkShown
    <3>4. p.id <= move /\ deck # <<>>
      BY <2>1 DEF FlashInv, Numbered, Due
    <3>5. FlashTypeOK' /\ CountedOnce'
      BY <1>1, <1>2, <2>1, <3>2, <3>3 DEF FlashInv, FlashTypeOK, CountedOnce, deckVars, cardVars
    <3>6. Numbered'
      BY <2>1, <3>2, <3>3, <3>4 DEF FlashInv, Numbered, Latest, deckVars, cardVars
    <3>7. RedrawsWord'
      <4>1. Shuffling => Shuffling'
        BY <2>1, <3>3 DEF Shuffling, Due
      <4> QED
        BY <2>1, <3>2, <3>3, <4>1, CardStays DEF deckVars
    <3>8. DeckMarked'
      BY <2>1, DeckStays DEF deckVars
    <3> QED
      BY <3>5, <3>6, <3>7, <3>8 DEF FlashInv
  <2> QED
    BY <2>2, <2>3
<1>9. CASE RedrawLater(p)
  <2>1. /\ Redraw(deck, index, callbacks \ {p})
        /\ UNCHANGED <<inSession, deck, progress, index, saved, given, move, counted, streaks>>
    BY <1>9 DEF RedrawLater, deckVars
  <2> QED
    BY <1>1, <1>2, <2>1, DeckStays, RedrawnLater
<1>10. CASE ResetDone(p)
  <2>1. /\ SetDeck(deck, FreshProgress(deck)) /\ index' = 1 /\ given' = NoMarks
        /\ Redraw(deck, 1, callbacks \ {p})
        /\ UNCHANGED <<inSession, move, counted, streaks>>
    BY <1>10 DEF ResetDone
  <2>2. \A i, j \in DOMAIN deck : deck[i] = deck[j] => i = j
    BY DEF FlashInv, DeckMarked
  <2>3. /\ deck' = deck /\ progress' \in [DOMAIN deck -> Marks \cup {Unmarked}]
        /\ given' \in [Cards -> Marks \cup {Unmarked}] /\ DeckMarked'
    BY <1>2, <2>1, <2>2, FreshDeck
  <2>4. deck # <<>> => 1 \in DOMAIN deck
    BY <1>2
  <2>5. Redraw(deck, index', callbacks \ {p}) /\ index' \in Nat
    BY <2>1
  <2> QED
    BY <1>1, <2>1, <2>3, <2>4, <2>5, RedrawnLater
<1> QED
  BY <1>3, <1>4, <1>5, <1>6, <1>7, <1>8, <1>9, <1>10 DEF Elapses

\* A word is in the deck once and under its mark, the card is the one at the index once it has
\* settled, and a pass is counted once: inductive (use-flashcard-session.ts:66, :209).
THEOREM FlashInvariance == FlashSpec => []FlashInv
<1>1. FlashInit => FlashInv
  <2> SUFFICES ASSUME FlashInit
               PROVE  FlashInv
    OBVIOUS
  <2>1. /\ deck = <<>> /\ progress = <<>> /\ deck \in Seq(Cards) /\ DOMAIN deck = {}
        /\ progress \in [DOMAIN deck -> Marks \cup {Unmarked}]
    BY EmptySeq DEF FlashInit
  <2>2. FlashTypeOK
    BY <2>1, FreshIsUnmarked DEF FlashInit, FlashTypeOK
  <2>3. DeckMarked /\ RedrawsWord /\ Numbered /\ CountedOnce
    BY <2>1 DEF FlashInit, DeckMarked, RedrawsWord, Numbered, CountedOnce
  <2> QED
    BY <2>2, <2>3 DEF FlashInv
<1>2. FlashInv /\ [FlashNext]_flashVars => FlashInv'
  <2> SUFFICES ASSUME FlashInv, [FlashNext]_flashVars
               PROVE  FlashInv'
    OBVIOUS
  <2>1. CASE Enter
    BY <2>1, Entered
  <2>2. CASE LeaveSession
    BY <2>2, SessionLeft
  <2>3. CASE User
    BY <2>3, UserSteps
  <2>4. CASE \E p \in callbacks : Elapses(p)
    BY <2>4, CallbackSteps
  <2>5. CASE UNCHANGED flashVars
    <3>1. UNCHANGED <<inSession, deckVars, cardVars, move, counted, callbacks, streaks>>
      BY <2>5 DEF flashVars
    <3>2. FlashTypeOK' /\ Numbered' /\ CountedOnce'
      BY <3>1 DEF FlashInv, FlashTypeOK, Numbered, Latest, CountedOnce, deckVars, cardVars
    <3>3. Shuffling => Shuffling'
      BY <3>1 DEF Shuffling
    <3> QED
      BY <3>1, <3>2, <3>3, CardStays, DeckStays DEF FlashInv, deckVars
  <2> QED
    BY <2>1, <2>2, <2>3, <2>4, <2>5 DEF FlashNext
<1> QED
  BY <1>1, <1>2, PTL DEF FlashSpec

\* A mark goes to the word the card shows, stays on it through filters, shuffles and visits, and
\* a pass counts once for the streak.
THEOREM MarksStay == FlashSpec => []MarksStayOnWords
<1>1. FlashInv => MarksStayOnWords
  BY DEF FlashInv, DeckMarked, RedrawsWord, CountedOnce, MarksStayOnWords, Markable
<1> QED
  BY <1>1, FlashInvariance, PTL
=============================================================================
