----------------------------- MODULE WordIntake ------------------------------
(***************************************************************************)
(* Words on their way into a package: a spreadsheet or the cards of the    *)
(* page /words/add, read and checked by the API, given examples by Gemini  *)
(* and saved by the worker, or in the request when they are few.           *)
(*                                                                         *)
(* A row is what tells one spreadsheet row from another, a word is the     *)
(* position of its row with its example.  The delivery of a job, its       *)
(* duplicates and its crashes are ImportPipeline's.  What fails may fail   *)
(* as often as it is tried.                                                *)
(***************************************************************************)
EXTENDS NoValue, Naturals, Sequences, FiniteSets

CONSTANTS MaxSheet,        \* cap on the rows of a sheet
          MaxImportRows,   \* MAX_IMPORT_ROWS
          GeminiBatch,     \* GEMINI_BATCH_SIZE
          QueueThreshold,  \* QUEUE_THRESHOLD.addWords
          DeadlockRetries, \* DEADLOCK_RETRIES
          JobRetries       \* retries of a message of the import queue

VARIABLES typed,      \* what a form of the page holds
          filed,      \* the submission under way, or the last one
          intake,     \* its step
          batch,      \* the words of the run
          toMake,     \* positions in batch that wait for an example
          toFix,      \* positions in batch whose example waits for its correction
          staged,     \* words written by the open transaction
          added,      \* successCount
          deadlocks,  \* reruns of the transaction
          rejected,   \* runs of the job that failed
          package,    \* words it added to the package
          unanswered, \* whether the answer to one of its commits was lost
          line,       \* status of its line of the journal
          told        \* what the page was told

submitVars == <<typed, filed, told>>
runVars == <<batch, toMake, toFix, staged, added, deadlocks, rejected>>
keptVars == <<package, unanswered>>
intakeVars == <<submitVars, intake, runVars, keptVars, line>>

\* "untitled" has no cell in its first column, "given" comes with an example, "faulty"
\* breaks a rule of validateWords.
RowKinds == {"header", "blank", "untitled", "plain", "given", "faulty"}
Sheets == UNION {[1..n -> RowKinds] : n \in 0..MaxSheet}
CardLists == UNION {[1..n -> {"plain", "given", "faulty"}] : n \in 1..MaxSheet}

Submissions == [by : {"file", "cards"}, rows : Sheets]
Outcomes == {"saved", "refused", "failed", "unsure"}

\* A "stray" example is one that was written for another word, or is empty.
Examples == [origin : {"own", "made", "fixed", "stray"}, row : Nat]

ASSUME IntakeAssumption == None \notin Submissions \cup Outcomes \cup Examples

IntakeInit ==
    /\ typed = None /\ filed = None /\ told = None
    /\ intake = "idle"
    /\ batch = <<>> /\ toMake = <<>> /\ toFix = <<>> /\ staged = <<>>
    /\ added = 0 /\ deadlocks = 0 /\ rejected = 0
    /\ package = <<>> /\ unanswered = FALSE
    /\ line = "none"

-----------------------------------------------------------------------------
(* What the API reads of a submission.                                     *)

\* The members of a set of positions, one after another.
InOrder(S) == [n \in 1..Cardinality(S) |-> CHOOSE k \in S : Cardinality({m \in S : m <= k}) = n]

Filled(rows) == {k \in DOMAIN rows : rows[k] # "blank"}

\* The first of them, if it is a heading.
Heading(rows) == {k \in Filled(rows) : rows[k] = "header" /\ \A m \in Filled(rows) : k <= m}

Titled(rows) == {k \in Filled(rows) \ Heading(rows) : rows[k] # "untitled"}

WordRows(rows) == InOrder(Titled(rows))

\* A heading that is not in the first row is read as a word, of no known language.
Invalid(f) ==
    \/ f.by = "file" /\ WordRows(f.rows) = <<>>
    \/ Len(WordRows(f.rows)) > MaxImportRows
    \/ \E i \in DOMAIN WordRows(f.rows) : f.rows[WordRows(f.rows)[i]] \in {"faulty", "header"}

Queued(f) == f.by = "file" \/ Len(WordRows(f.rows)) >= QueueThreshold

Example(origin, row) == [origin |-> origin, row |-> row]

Parsed(f) ==
    [i \in DOMAIN WordRows(f.rows) |->
        LET k == WordRows(f.rows)[i]
        IN  [row |-> k, example |-> IF f.rows[k] = "given" THEN Example("own", k) ELSE None]]

-----------------------------------------------------------------------------
(* The forms of the page.                                                  *)

\* A file that is too large, or is not of Excel, is dropped with a message.
Pick ==
    /\ intake = "idle" /\ typed = None /\ told = None
    /\ typed' \in {[by |-> "file", rows |-> s] : s \in Sheets}
                  \cup {[by |-> "cards", rows |-> s] : s \in CardLists}
    /\ UNCHANGED <<filed, told, intake, runVars, keptVars, line>>

\* The next submission has saved nothing yet, whatever the last one did.
Afresh == package' = <<>> /\ unanswered' = FALSE /\ line' = "none"

\* What was not taken is changed before it is sent again.
Edits ==
    /\ intake = "idle" /\ typed # None
    /\ told \in {None, "refused", "failed"}
    /\ typed' = None /\ filed' = None /\ told' = None
    /\ Afresh
    /\ UNCHANGED <<intake, runVars>>

Submits ==
    /\ intake = "idle"
    /\ typed # None /\ told # "unsure"
    /\ filed' = typed
    /\ told' = None
    /\ Afresh
    /\ intake' = "posted"
    /\ UNCHANGED <<typed, runVars>>

\* The form is emptied only when its words are saved.
Tells(reply) ==
    /\ told' = reply
    /\ typed' = IF reply = "saved" THEN None ELSE typed
    /\ UNCHANGED filed

NoRun == batch' = <<>> /\ toMake' = <<>> /\ toFix' = <<>> /\ staged' = <<>>
         /\ deadlocks' = 0 /\ rejected' = 0

Failing == intake' = "idle" /\ NoRun /\ added' = 0

\* The stream of the job, or the answer of the request, is lost: the page says so, and
\* keeps what it sent.
LosesTrack ==
    /\ intake # "idle"
    /\ told = None
    /\ Tells("unsure")
    /\ UNCHANGED <<intake, runVars, keptVars, line>>

Replies(reply) == IF told = None THEN Tells(reply) ELSE UNCHANGED submitVars

-----------------------------------------------------------------------------
(* The request.                                                            *)

\* recordImportFailed(): a line that never ran.
RecordsImportFailed == line' = "failed"

\* noteRejectedImport(): for a file, unless the journal is not to be had.
NotesRejection ==
    IF filed.by = "file"
    THEN RecordsImportFailed \/ UNCHANGED line
    ELSE UNCHANGED line

\* 400 with the rows at fault.
Rejects ==
    /\ intake = "posted"
    /\ Invalid(filed)
    /\ NotesRejection
    /\ Replies("refused")
    /\ Failing
    /\ UNCHANGED keptVars

\* Handed to the worker, with a line of the journal, or saved in the request.
Admits ==
    /\ intake = "posted"
    /\ ~Invalid(filed)
    /\ intake' = "due"
    /\ line' = IF Queued(filed) THEN "running" ELSE line
    /\ UNCHANGED <<submitVars, runVars, keptVars>>

\* The package, or the transaction of the job, is not to be had: 500.
AdmitFails ==
    /\ intake = "posted"
    /\ ~Invalid(filed)
    /\ Replies("failed")
    /\ Failing
    /\ UNCHANGED <<keptVars, line>>

\* The transaction of the job committed, but its answer was lost: 500, and the job runs.
AdmitsUnanswered ==
    /\ intake = "posted"
    /\ ~Invalid(filed) /\ Queued(filed)
    /\ Replies("failed")
    /\ intake' = "due"
    /\ line' = "running"
    /\ unanswered' = TRUE
    /\ UNCHANGED <<runVars, package>>

-----------------------------------------------------------------------------
(* A run of addWords.                                                      *)

\* isJobApplied(): an earlier run committed.
AlreadyApplied == package # <<>>

\* Such a run reports every word of the job.
FindsApplied ==
    /\ intake = "due"
    /\ AlreadyApplied
    /\ intake' = "reporting"
    /\ added' = Len(WordRows(filed.rows))
    /\ NoRun
    /\ UNCHANGED <<submitVars, keptVars, line>>

\* Every run starts from the words as they were sent.
BeginsRun ==
    /\ intake = "due"
    /\ ~AlreadyApplied
    /\ intake' = "enriching"
    /\ batch' = Parsed(filed)
    /\ toMake' = InOrder({i \in DOMAIN batch' : batch'[i].example = None})
    /\ toFix' = InOrder({i \in DOMAIN batch' : batch'[i].example # None})
    /\ UNCHANGED <<submitVars, staged, added, deadlocks, rejected, keptVars, line>>

Chunk(s) == SubSeq(s, 1, IF Len(s) > GeminiBatch THEN GeminiBatch ELSE Len(s))
After(s) == SubSeq(s, Len(Chunk(s)) + 1, Len(s))

\* Gemini answers for some of the words it was asked for, or fails, which is to answer
\* for none.  It may also send what is not the example of the word whose id it names, be
\* it one it was asked for or another one (Number(null) is 0); replaceExample takes it.
Completed(sent, origin) ==
    \E answered \in SUBSET {sent[j] : j \in DOMAIN sent}, strays \in SUBSET DOMAIN batch :
        batch' = [i \in DOMAIN batch |->
            IF i \in strays THEN [batch[i] EXCEPT !.example = Example("stray", 0)]
            ELSE IF i \in answered
                 THEN [batch[i] EXCEPT !.example = Example(origin, batch[i].row)]
            ELSE batch[i]]

MakesExamples ==
    /\ intake = "enriching"
    /\ toMake # <<>>
    /\ Completed(Chunk(toMake), "made")
    /\ toMake' = After(toMake)
    /\ UNCHANGED <<submitVars, intake, toFix, staged, added, deadlocks, rejected, keptVars, line>>

FixesExamples ==
    /\ intake = "enriching"
    /\ toMake = <<>> /\ toFix # <<>>
    /\ Completed(Chunk(toFix), "fixed")
    /\ toFix' = After(toFix)
    /\ UNCHANGED <<submitVars, intake, toMake, staged, added, deadlocks, rejected, keptVars, line>>

OpensTransaction ==
    /\ intake = "enriching"
    /\ toMake = <<>> /\ toFix = <<>>
    /\ intake' = "saving"
    /\ added' = 0
    /\ UNCHANGED <<submitVars, batch, toMake, toFix, staged, deadlocks, rejected, keptVars, line>>

SavesWord ==
    /\ intake = "saving"
    /\ Len(staged) < Len(batch)
    /\ staged' = Append(staged, batch[Len(staged) + 1])
    /\ added' = added + 1
    /\ UNCHANGED <<submitVars, intake, batch, toMake, toFix, deadlocks, rejected, keptVars, line>>

\* The transaction that is run again counts its words again.
CountAgain == 0

Deadlocks ==
    /\ intake = "saving"
    /\ deadlocks < DeadlockRetries
    /\ deadlocks' = deadlocks + 1
    /\ staged' = <<>>
    /\ added' = CountAgain
    /\ UNCHANGED <<submitVars, intake, batch, toMake, toFix, rejected, keptVars, line>>

\* A job is tried again, then reported as failed and parked; a request answers 500 and
\* leaves no line.
Retries ==
    IF Queued(filed) /\ rejected < JobRetries
    THEN /\ intake' = "due"
         /\ rejected' = rejected + 1
         /\ batch' = <<>> /\ toMake' = <<>> /\ toFix' = <<>> /\ staged' = <<>>
         /\ added' = 0 /\ deadlocks' = 0
         /\ UNCHANGED <<submitVars, line>>
    ELSE /\ Failing
         /\ line' = IF Queued(filed) THEN "failed" ELSE line
         /\ Replies("failed")

\* A query of the run fails, or its transaction, or an answer of Gemini that is no list of
\* examples.
RunIsRejected ==
    /\ intake \in {"due", "enriching", "saving"}
    /\ Retries
    /\ UNCHANGED keptVars

\* The transaction committed, but its answer was lost.
CommitsUnanswered ==
    /\ intake = "saving"
    /\ Len(staged) = Len(batch)
    /\ package' = package \o staged
    /\ unanswered' = TRUE
    /\ Retries

Commits ==
    /\ intake = "saving"
    /\ Len(staged) = Len(batch)
    /\ package' = package \o staged
    /\ intake' = "reporting"
    /\ NoRun
    /\ UNCHANGED <<submitVars, added, unanswered, line>>

\* Mutant of AnswerWithoutLine: the line that was not written fails the request.
AnswerWithoutLineFailed == "failed"

\* The words are committed: a journal that fails must not make the client send them again.
AnswerWithoutLine == "saved"

ReportsSaved ==
    /\ intake = "reporting"
    /\ \/ line' = "succeeded" /\ Replies("saved")
       \/ UNCHANGED line /\ Replies(AnswerWithoutLine)
    /\ intake' = "idle"
    /\ UNCHANGED <<runVars, keptVars>>

IntakeNext ==
    \/ Pick \/ Edits \/ Submits \/ LosesTrack
    \/ Rejects \/ Admits \/ AdmitFails \/ AdmitsUnanswered
    \/ FindsApplied \/ BeginsRun \/ MakesExamples \/ FixesExamples
    \/ OpensTransaction \/ SavesWord \/ Deadlocks \/ Commits
    \/ RunIsRejected \/ CommitsUnanswered \/ ReportsSaved

IntakeSpec == IntakeInit /\ [][IntakeNext]_intakeVars

-----------------------------------------------------------------------------
(* Properties                                                              *)

\* One word for each row that has one.
AllRows ==
    /\ \A k \in DOMAIN filed.rows :
         filed.rows[k] \in {"plain", "given"} <=> \E i \in DOMAIN package : package[i].row = k
    /\ \A i, j \in DOMAIN package : package[i].row = package[j].row => i = j

\* Whatever fails, a submission adds all its words once or none.  A user who is told that
\* they are saved has them, and the count told is theirs; one who is told that they are not
\* has none, unless it was the answer to a commit that was lost, and may send them again
\* (bulk-words.service.ts:90, import.service.ts:113).  The example of a word was written for
\* it, and a word that came with one still has one (words-enrichment.service.ts:20), unless
\* Gemini sent a stray one.
RowsAreKept ==
    /\ package = <<>> \/ AllRows
    /\ told = "saved" => AllRows /\ added = Len(package)
    /\ told = "refused" => package = <<>>
    /\ told = "failed" => package = <<>> \/ unanswered
    /\ \A i \in DOMAIN package :
         LET w == package[i] IN
         /\ w.example # None => w.example.row = w.row \/ w.example.origin = "stray"
         /\ filed.rows[w.row] = "given" => w.example # None
-----------------------------------------------------------------------------
(* The invariant it rests on.                                              *)

EnrichedWords == [row : Nat, example : Examples \cup {None}]
IntakeSteps == {"idle", "posted", "due", "enriching", "saving", "reporting"}

\* The words of a submission, each with what was written for it.
WordsOf(words, f) ==
    /\ words \in Seq(EnrichedWords) /\ DOMAIN words = DOMAIN WordRows(f.rows)
    /\ \A i \in DOMAIN words :
           LET w == words[i] IN
           /\ w.row = WordRows(f.rows)[i]
           /\ w.example # None => w.example.row = w.row \/ w.example.origin = "stray"
           /\ f.rows[w.row] = "given" => w.example # None

IntakeTypeOK ==
    /\ typed \in Submissions \cup {None} /\ filed \in Submissions \cup {None}
    /\ told \in Outcomes \cup {None} /\ intake \in IntakeSteps /\ unanswered \in BOOLEAN
    /\ intake # "idle" =>
         filed # None /\ (told \in {None, "unsure"} \/ (told = "failed" /\ unanswered))
    /\ intake \in IntakeSteps \ {"idle", "posted"} => ~Invalid(filed)
    /\ told = "saved" => typed = None

\* The words of a run are those of the submission, and the transaction goes through them.
RunIsFiled ==
    /\ intake \in {"enriching", "saving"} => WordsOf(batch, filed)
    /\ staged \in Seq(EnrichedWords)
    /\ IF intake = "saving"
       THEN /\ Len(staged) <= Len(batch) /\ added = Len(staged)
            /\ \A i \in DOMAIN staged : staged[i] = batch[i]
       ELSE staged = <<>>

\* The package has the words of the submission, or none of them before they are committed.
PackageIsFiled ==
    /\ package # <<>> => filed # None /\ ~Invalid(filed) /\ WordsOf(package, filed)
    /\ intake = "reporting" \/ told = "saved" =>
           filed # None /\ ~Invalid(filed) /\ WordsOf(package, filed) /\ added = Len(package)
    /\ intake \in {"posted", "enriching", "saving"} \/ told = "refused" => package = <<>>
    /\ intake = "due" \/ (intake = "idle" /\ told \in {None, "failed"}) =>
           package = <<>> \/ unanswered

IntakeInv == IntakeTypeOK /\ RunIsFiled /\ PackageIsFiled
=============================================================================
