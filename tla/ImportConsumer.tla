--------------------------- MODULE ImportConsumer ---------------------------
(***************************************************************************)
(* The consuming half of the import pipeline: ImportQueueService.handle of *)
(* each worker (prefetch 1: one copy at a time), WordsService.addWords     *)
(* with its applied_jobs marker, and RetryQueue.reject.                    *)
(*                                                                         *)
(* A first delivery runs the job; a redelivered copy never does: its job   *)
(* is completed when the marker shows that it was applied, and rejected as *)
(* a failed attempt when it was not.                                       *)
(***************************************************************************)
EXTENDS RetryQueue, JobRecord

VARIABLES step,      \* step of the handler of each worker
          handling,  \* the copy it holds
          marker,    \* jobs with a row in applied_jobs
          saved,     \* times the words of each job were inserted
          runs       \* history: times addWords was started for each copy

consumerVars == <<step, handling, marker, saved, runs>>

Steps == {"idle", "received", "running", "enriched", "saved", "tracked", "acking",
          "failing", "noting", "rejecting", "parking"}

ConsumerInit ==
    /\ step = [w \in Workers |-> "idle"]
    /\ handling = [w \in Workers |-> None]
    /\ marker = {}
    /\ saved = [j \in Jobs |-> 0]
    /\ runs = [c \in Copies |-> 0]

ConsumerTypeOK ==
    /\ step \in [Workers -> Steps]
    /\ handling \in [Workers -> Copies \cup {None}]
    /\ \A w \in Workers : step[w] # "idle" => handling[w] \in Copies
    /\ marker \in SUBSET Jobs
    /\ saved \in [Jobs -> Nat]
    /\ runs \in [Copies -> Nat]

-----------------------------------------------------------------------------
\* The job whose copy w holds.
JobAt(w) == JobOf(handling[w])

WorkerGoes(w, from, to) ==
    /\ step[w] = from
    /\ step' = [step EXCEPT ![w] = to]
    /\ UNCHANGED handling

\* The handler returns: the consumer may take the next copy.
WorkerLeaves(w, from) ==
    /\ step[w] = from
    /\ step' = [step EXCEPT ![w] = "idle"]
    /\ handling' = [handling EXCEPT ![w] = None]

Receive(w, c) ==
    /\ step[w] = "idle"
    /\ step' = [step EXCEPT ![w] = "received"]
    /\ handling' = [handling EXCEPT ![w] = c]
    /\ Deliver(c)
    /\ NoFault
    /\ UNCHANGED <<marker, saved, runs, recordVars>>

-----------------------------------------------------------------------------
(* A redelivered copy: the attempt before never finished                   *)

\* Variant: every redelivered copy is taken for applied.
InterruptedTrusted(w) ==
    /\ WorkerGoes(w, "received", "saved")
    /\ handling[w] \in redelivered
    /\ NoFault
    /\ UNCHANGED <<marker, saved, runs, queueVars, recordVars>>

InterruptedApplied(w) ==
    /\ WorkerGoes(w, "received", "saved")
    /\ handling[w] \in redelivered
    /\ JobAt(w) \in marker
    /\ NoFault
    /\ UNCHANGED <<marker, saved, runs, queueVars, recordVars>>

\* Variant: a redelivered copy that was not applied is acknowledged.
InterruptedDropped(w) ==
    /\ WorkerGoes(w, "received", "acking")
    /\ handling[w] \in redelivered
    /\ JobAt(w) \notin marker
    /\ NoFault
    /\ UNCHANGED <<marker, saved, runs, queueVars, recordVars>>

InterruptedNotApplied(w) ==
    /\ WorkerGoes(w, "received", "failing")
    /\ handling[w] \in redelivered
    /\ JobAt(w) \notin marker
    /\ NoFault
    /\ UNCHANGED <<marker, saved, runs, queueVars, recordVars>>

\* isJobApplied throws outside the try block: consume() dead-letters the copy,
\* even one whose retries are spent.
HandlerThrows(w) ==
    /\ WorkerLeaves(w, "received")
    /\ handling[w] \in redelivered
    /\ Fault
    /\ Nack(handling[w])
    /\ UNCHANGED <<parked, marker, saved, runs, recordVars>>

-----------------------------------------------------------------------------
(* A first delivery: report, addWords                                      *)

BeginRun(w) ==
    /\ WorkerGoes(w, "received", "running")
    /\ handling[w] \notin redelivered
    /\ Track(JobAt(w), "processing")
    /\ runs' = [runs EXCEPT ![handling[w]] = @ + 1]
    /\ NoFault
    /\ UNCHANGED <<marker, saved, queueVars, journal, unnoted>>

\* isJobApplied at the top of addWords, then the Gemini enrichment.
CheckApplied(w) ==
    /\ WorkerGoes(w, "running", IF JobAt(w) \in marker THEN "saved" ELSE "enriched")
    /\ NoFault
    /\ UNCHANGED <<marker, saved, runs, queueVars, recordVars>>

\* Variant: the result of claimJob is ignored.
ApplyAlways(j) ==
    /\ marker' = marker \cup {j}
    /\ saved' = [saved EXCEPT ![j] = @ + 1]

\* The transaction: claimJob inserts the marker, or finds it and nothing is saved.
ApplyOnce(j) ==
    IF j \in marker
    THEN UNCHANGED <<marker, saved>>
    ELSE /\ marker' = marker \cup {j}
         /\ saved' = [saved EXCEPT ![j] = @ + 1]

SaveWords(w) ==
    /\ WorkerGoes(w, "enriched", "saved")
    /\ ApplyOnce(JobAt(w))
    /\ NoFault
    /\ UNCHANGED <<runs, queueVars, recordVars>>

\* addWords throws: before its transaction, by rolling it back, or because the
\* answer to its commit was lost.
RunFails(w) ==
    /\ \/ WorkerGoes(w, "running", "failing") /\ UNCHANGED <<marker, saved>>
       \/ /\ WorkerGoes(w, "enriched", "failing")
          /\ ApplyOnce(JobAt(w)) \/ UNCHANGED <<marker, saved>>
    /\ Fault
    /\ UNCHANGED <<runs, queueVars, recordVars>>

-----------------------------------------------------------------------------
(* complete(), then ack                                                    *)

\* Variant: the journal is forgotten.
CompletedUnnoted(w) ==
    /\ WorkerGoes(w, "saved", "acking")
    /\ Track(JobAt(w), "completed")
    /\ NoFault
    /\ UNCHANGED <<marker, saved, runs, queueVars, journal, unnoted>>

TrackCompleted(w) ==
    /\ WorkerGoes(w, "saved", "tracked")
    /\ Track(JobAt(w), "completed")
    /\ NoFault
    /\ UNCHANGED <<marker, saved, runs, queueVars, journal, unnoted>>

NoteSucceeded(w) ==
    /\ WorkerGoes(w, "tracked", "acking")
    /\ FinishJournal(JobAt(w), "succeeded")
    /\ UNCHANGED <<marker, saved, runs, queueVars, tracker>>

AckCopy(w) ==
    /\ WorkerLeaves(w, "acking")
    /\ Ack(handling[w])
    /\ NoFault
    /\ UNCHANGED <<marker, saved, runs, recordVars>>

-----------------------------------------------------------------------------
(* fail(), then reject()                                                   *)

TrackFailure(w) ==
    /\ LET spent == Exhausted(handling[w])
       IN  /\ WorkerGoes(w, "failing", IF spent THEN "noting" ELSE "rejecting")
           /\ Track(JobAt(w), IF spent THEN "failed" ELSE "retrying")
    /\ NoFault
    /\ UNCHANGED <<marker, saved, runs, queueVars, journal, unnoted>>

NoteFailed(w) ==
    /\ WorkerGoes(w, "noting", "parking")
    /\ FinishJournal(JobAt(w), "failed")
    /\ UNCHANGED <<marker, saved, runs, queueVars, tracker>>

RejectCopy(w) ==
    /\ WorkerLeaves(w, "rejecting")
    /\ Nack(handling[w])
    /\ NoFault
    /\ UNCHANGED <<parked, marker, saved, runs, recordVars>>

ParkConfirmed(w) ==
    /\ WorkerGoes(w, "parking", "acking")
    /\ Park(handling[w])
    /\ NoFault
    /\ UNCHANGED <<place, deaths, redelivered, marker, saved, runs, recordVars>>

\* The broker does not confirm the parked copy, which it may have stored or not:
\* the original goes round the retry queue again.
ParkUnconfirmed(w) ==
    /\ WorkerLeaves(w, "parking")
    /\ Nack(handling[w])
    /\ Park(handling[w]) \/ UNCHANGED parked
    /\ Fault
    /\ UNCHANGED <<marker, saved, runs, recordVars>>

-----------------------------------------------------------------------------
\* Every step of the handler of w but the receipt and the faults.
HandlerStep(w) ==
    \/ InterruptedApplied(w)
    \/ InterruptedNotApplied(w)
    \/ BeginRun(w)
    \/ CheckApplied(w)
    \/ SaveWords(w)
    \/ TrackCompleted(w)
    \/ NoteSucceeded(w)
    \/ AckCopy(w)
    \/ TrackFailure(w)
    \/ NoteFailed(w)
    \/ RejectCopy(w)
    \/ ParkConfirmed(w)
=============================================================================
