# Sealvo: TLA+ models, model checking and proofs

Sealvo is a vocabulary learning application: a NestJS API (`apps/api`), a worker
process built from the same code (`apps/api/src/worker.ts`), a Next.js front end
(`apps/web`), MySQL through Prisma, Redis, RabbitMQ, and the services Gemini
(enrichment), Google text to speech and AWS SES (emails). What is hard in it is
not one algorithm but the protocols between requests, workers, tabs, timers and
outages. This directory models them, checks the models with TLC and proves
their safety with TLAPS. Paths below are relative to
`apps/api/src/` unless they start with `apps/`, `packages/` or `web:`
(`apps/web/src/`).

Contents: [inventory](#1-inventory), [plan](#2-plan), [modules](#3-modules-and-code),
[runs](#4-runs-bounds-and-fairness), [proofs](#5-proofs),
[where code and texts disagree](#6-where-the-code-and-its-texts-disagree),
[limits](#7-limits-of-the-models).

## 1. Inventory

Server side:

| component | state | operations | hard behaviour | what makes it correct | model |
|---|---|---|---|---|---|
| Import producer: `import/bulk-words.service.ts`, `import/import-outbox.service.ts` | table `import_outbox` (row, `claimed_at`), the confirm of the broker | request: open a job, store it in one transaction, publish, delete the row; relay: claim, publish, delete or release | a lost confirm, a crash between commit and confirm, two relays on one row, a transaction whose answer is lost | a stored job is published at least once; a relay drops only its own claim | `ImportProducer` |
| Import consumer: `import/import-queue.service.ts`, `words/words.service.ts` (`addWords`), `rabbitmq/retry-queue.ts` | table `applied_jobs`, `x-death` count and `redelivered` flag of a message | handle, apply, acknowledge, reject, park; a redelivered message is never run again | double delivery, crash after the commit, poison messages, unconfirmed parking | words saved at most once; no job lost; no false success or early failure | `ImportConsumer`, `RetryQueue` |
| Job records: `import/job-tracker.service.ts`, `activity/activity-log.service.ts` | Redis job, journal row | create, update, remove; start, finish | dropped writes, reports of a run that overlap, duplicates that report after the fact | what is reported happened; a journal row settles | `JobRecord`, `JobFeed` |
| Import parsing and enrichment: `import/import.service.ts`, `gemini/`, `words/words-enrichment.service.ts` | the rows of a sheet, the batches sent to Gemini | heading, validation, refusal, examples and their corrections, transaction | batches that fail or answer for other words, a transaction replayed after a deadlock, a commit whose answer is lost | all the words or none, one per row, its own example, and a true count | `WordIntake` |
| Job stream: `import/job.controller.ts`, `web:lib/job-stream.ts`, `web:lib/job-watcher.ts` | SSE subscriptions, slots per user, watched jobs | subscribe, read, retry, settle | a job that ends between read and subscription, a late list | streams end with their job; each job is settled once | `JobFeed` |
| Sessions: `auth/session.service.ts`, `auth/auth.controller.ts` | row of `refresh_sessions`: current and previous hash, `rotated_at` | create, rotate, revoke | concurrent rotations, replay against lateness, revocation during a rotation | an honest browser stays; a revoked session stays revoked | `RefreshSession` |
| Accounts: `auth/*.service.ts` | users, links, resets, pending addresses | register, login, reset, verify, change of address, Google | a login that races a reset, concurrent resends, links followed twice | nothing outlives a reset; a link works once; a verified address was proven | `Account` |
| Words and packages: `words/words.service.ts`, `packages/packages.service.ts` | packages, entries, details that old packages share | add, copy on write, delete orphans, empty, copy | concurrent edits of shared details, deadlock retries | an operation changes its own package only, and undoes no other edit (an edit whose word left its package meanwhile does neither, see section 6) | `WordStore` |
| Email queue: `email/` | queue, dedup key in Redis | publish or send directly; receive, skip, send, mark, reject, park | send timeouts that still deliver, late copies, death between send and mark | a taken email is not lost; an extra send needs a fault | `EmailQueue` |
| Scheduler and reminders: `scheduler/`, `reminder/` | last run, claim of the hour | trigger, time out, catch up; claim, send | runs longer than their timeout, stops in the middle | one reminder per user and hour; reminders go on | `Reminders` |
| Circuit breaker: `packages/shared/src/resilience/index.ts` | state, failures, last failure, probe flag | execute around retry around timeout | calls admitted in one state and settled in another | one probe, its slot returned; recovery | `CircuitBreaker` |
| Connections: `rabbitmq/rabbitmq.service.ts`, `redis/redis.service.ts` | connection, channel, client, timers | connect, lose, reconnect, replace, close | events of old connections, losses while connecting, stuck clients | the connection comes back | `RabbitConnection`, `RedisConnection` |
| Level and streak: `learning/learning.service.ts` | games per level in Redis, level of each word; `users.streak` | record a game, detect and claim a full level, promote; update the streak | last games that end together, edits meanwhile, midnight | one promotion per set of games; a streak of n is n days | `LevelProgress`, `DailyStreak` |
| Dashboard: `dashboard/`, `common/interceptors/invalidate-dashboard.interceptor.ts` | cached statistics | read through, invalidate | a fill that began before a change | an outdated entry is excused | `QueryCache` |
| Speech synthesis: `tts/` | audio and voice caches | voices, synthesize | a cache that answers for another text | what is heard is shown | `Pronunciation` |
| Activity journal: `activity/activity-query.service.ts`, `activity/activity-log.service.ts`, `web:hooks/use-activities.ts` | rows of `user_activities`, the list of the dashboard | record, advance, finish; page by cursor, read again, read more | rows of one second at the edge of a page, rows stored between two pages | each row is listed once, newest first | `Journal` |
| Heartbeat: `health/` | set of copies, key per copy | beat, stop, read | readers crossing beats | the commit told is the one of every copy of the set | `Heartbeat` |
| Backup: `apps/api/scripts/backup-db.mjs`, `restore-db.mjs` | dumps, bucket, tables | dump, verify, rotate, upload; restore | runs that fail or are killed half-way | the last good dump is kept | `Backup` |
| Maintenance: `maintenance/maintenance.service.ts` | - | nightly deletion of old rows | a marker deleted while its job may be delivered | the retention outlives every redelivery | `CleanupMarker` |

In the browser (`apps/web/src`):

| component | state | operations | hard behaviour | what makes it correct | model |
|---|---|---|---|---|---|
| Refresh: `lib/api.ts` | cookie shared by tabs, Web Lock | one refresh at a time, timeout | no Web Locks, lost answers | the session is kept; every tab gets its turn | `BrowserSession` |
| Sign-in: `stores/auth.store.ts`, `providers/auth-initializer.tsx`, `hooks/use-auth.ts`, `components/auth/` | store, hint, access token | restore, login, Google, logout, guard | a restore that crosses a login | user, token and cookie are of one session | `SignIn` |
| Query cache: `lib/query-keys.ts` and the hooks | entries, fetches | fetch, invalidate | a fetch that crosses a change | see dashboard | `QueryCache` |
| Forms: `components/packages/`, `components/words/`, `components/dashboard/` | draft, pending request | open, type, send, close | answers that arrive for another form, or out of order | two quick saves keep | `Forms` |
| Games: `components/games/`, `app/(protected)/games/` | round, timer, board, selection | start, answer, end, save | time, last word and click together | a round counts once | `Games` |
| Speech recognition: `components/games/test-pronun/` | recogniser, turn | record, retry, skip | late events of the recogniser | a score is of the word shown | `SpeechRecording` |
| Flashcards: `components/learn/` | deck, marks, callbacks, saved session | mark, undo, shuffle, filter, resume | timers of animations | a mark lands on its card | `Flashcards` |

`PROJECT.json` lists these components and the rest (rate limiting, account and
feedback, configuration, infrastructure) with the reason where one is not modelled.

**How the parts interact.** Requests and workers never call each other: they meet
in MySQL (outbox, markers, sessions, journal, words), in Redis (jobs, dedup keys,
games of a level, caches, heartbeats) and in RabbitMQ. Every queue is a
`RetryQueue`: a work queue, a retry queue whose TTL dead-letters back, and a failed
queue. The worker consumes the import and email queues with a prefetch of one and
runs the relay and the nightly jobs on timers. The front end sees the session
cookie, the answers and the job stream. Redis and RabbitMQ are optional at every
step: each operation on them may fail, and the code goes on.

**Hazards.** `PROJECT.json` lists forty places where this code could go wrong in a
way a unit test hardly reaches, each at its line, with the properties that would
catch it.

## 2. Plan

The order was: the import pipeline and its abstract specification; sessions; email
queue; breaker; level and streak; then accounts, words, scheduler, job stream, caches,
connections, pages, backups; and beside each its proof. All of these are on disk. Left:

1. The safety that the other liveness properties rest on, as `AlwaysOnItsWay` states it for
   the connections: that the lock of a tab, the load of a page and a taken email always
   have a step to come.
2. Shorter proofs for the pages, whose modules could share more lemmas.

Abstract specifications: `ImportJob` says what an accepted job promises whatever
broker, relays and workers do; `ImportPipeline` implements it (`PromiseKept`). The
other components promise properties rather than behaviours.

## 3. Modules and code

| module | models | extends |
|---|---|---|
| `FaultBudget`, `NoValue`, `ApiRequests` | the faults of a behaviour; `None`; requests | |
| `RetryQueue` | `rabbitmq/retry-queue.ts` and the broker behind it, with its jobs and workers | `NoValue`, `FaultBudget` |
| `JobRecord` | tracker and journal as the pipeline sees them | `RetryQueue` |
| `ImportProducer` | enqueue and relay | `RetryQueue`, `JobRecord` |
| `ImportConsumer` | handle, addWords, reject | `RetryQueue`, `JobRecord` |
| `ImportPipeline` | composition, crashes, cleanup, properties, invariant | both |
| `ImportJob` | abstract promise, `INSTANCE`d by `ImportPipeline` | |
| `WordIntake` | from a sheet or the cards of a form to the words saved and what the page is told | `NoValue` |
| `JobFeed` | the reports of a run, the streams of the API, the watcher of the page | `FaultBudget` |
| `RefreshSession` | `session.service.ts` | `FaultBudget` |
| `BrowserSession` | tabs, lock, cookie | `RefreshSession` |
| `SignIn` | who is signed in on a page | `FaultBudget` |
| `Account` | the accounts and their links, resets and sessions | `ApiRequests` |
| `WordStore` | packages, entries and details | `ApiRequests` |
| `EmailQueue` | emails on the queue | `RetryQueue` |
| `Reminders` | scheduler and reminder runs | `FaultBudget` |
| `CircuitBreaker` | the breaker and its calls | `FaultBudget` |
| `RabbitConnection`, `RedisConnection` | the two connections of a process | `FaultBudget` |
| `DailyStreak`, `LevelProgress` | the two halves of `learning.service.ts` | |
| `QueryCache` | browser cache over the cached dashboard | `FaultBudget` |
| `Forms`, `Games`, `SpeechRecording`, `Flashcards`, `Pronunciation` | the pages | `FaultBudget` |
| `Heartbeat`, `Backup` | copies of the worker; dumps and restorations | `FaultBudget` |
| `Journal` | the rows of the activity journal, their pages, the list of the dashboard | `FaultBudget` |
| `MCBrowser`, `MCData`, `MCPages`, `MCRecovery` | sums of the modules a run checks together | these |
| `MCImportPipeline` | symmetry set for TLC | `ImportPipeline` |
| `...Proofs` | theorems and proofs | each model |

**One action per await.** In Node.js and in a page code runs undisturbed from one
await to the next: an action is what a handler does from the answer of one query,
timer or event to the next, and its process keeps its place in a variable (`api`,
`relay`, `step`, `phase`, `at`). A write to a database and the answer to it are one
step where nothing can tell them apart; where the answer may be lost, the failing
action includes the outcome in which the write was done (`CommitFails`, `RunFails`,
`QueryFails`, `ClaimFails`, `ParkUnconfirmed`), or an action of its own has it
(`AdmitsUnanswered`, `CommitsUnanswered`). A transaction is the snapshot of its
first query and one step of writing, for InnoDB locks what it writes.

**Messages.** A message is a *copy* `<<j, n>>`, the n-th publication of job j. Its
`place` is the wire, the work queue, a consumer, the retry queue, done or lost;
`deaths` is the `x-death` count that `retryCount()` reads; `redelivered` is the
flag RabbitMQ sets on what a closed channel gave back, and that a dead-lettered
message loses. The queues are sets, for several consumers reorder messages anyway.
A copy on the wire may be accepted long after its publisher gave up.

**Data.** A value is what the code tells apart of it. A password is the number of its
version. The text of a word is the set of the edits it holds. A cached answer is whether it is
outdated. A row of a sheet is whether it is blank, a heading, or a word with what it
misses. A form's draft is a version. The cells of the word grid are coordinates, and
whether those selected spell a word is open.

**Time** is a set of steps that the code can tell apart: `RowAges` for the grace of
the relay, `ClaimExpires` for the claim, `LeewayPasses` for the 10 s of a rotated
token, `ResetTimeout` for the breaker, `Midnight` for the streak, hours for the
reminders. A timer of a page fires at any time after it was set, and not after it
was cleared. The code orders some durations (a confirm timeout of a third of the
grace period); a step that breaks such an order is a stall and spends a fault.

**Faults.** `MaxFaults` bounds how many things go wrong in one behaviour; the proofs
hold for every value of it. Accounts and words need none: concurrency is enough,
and a process that stops is an action without a budget there (`StopWork`). Nor does the
intake of words, which has no liveness: there what fails may fail as often as it is tried.

**History variables** are marked `history` where they are declared, and no guard reads
them. In the modules declared before that convention they are `runs`, `unnoted`,
`reused`, `missed`, `presumed`, `played`, `noneDue`, `unsure`, `active`.

**Variants.** A definition whose comment begins with `Variant:` is not part of any
specification: it is a plausible mistake in the code, which a property is shown to
detect. It stands before the definition it varies.

`ImportPipeline` in short: a request opens a Redis job (`OpenJob`), commits journal and
outbox rows together (`CommitJob`), publishes (`ApiPublish`) and waits for the confirm.
Confirmed, it deletes the row (`ApiRemovesRow`); otherwise it answers all the same
and leaves the row to the relay. A relay claims a row (`RelayClaims`), publishes,
deletes it or releases the claim. A worker receives a copy: a first delivery is run
(`BeginRun`, `CheckApplied`, `SaveWords` with the marker in one transaction), a redelivered one
only compared with the marker (`InterruptedApplied`, `InterruptedNotApplied`). Success
is written to tracker and journal, then acknowledged; failure goes to the retry
queue until `Exhausted`, then to the failed queue, and the original is acknowledged
only after the broker confirmed that parked copy. `WorkerCrash` stops consumer and
relay of a worker together, `ApiCrash` every request.

## 4. Runs, bounds and fairness

| run | question | distinct states |
|---|---|---|
| `import_duplicates` | Two workers, three publications of one job, two faults: is anything saved twice, or lost? | 1.9 million |
| `import_promise` | One worker, three publications, two faults, with fairness: are reports true, does the journal settle, does the pipeline implement `ImportJob`? | 233 thousand |
| `session_locked` | Two tabs with Web Locks, three requests, two faults: is the session kept, do rotations that overlap chain, does an ended session stay ended, does a waiting tab get the lock? Beside them, a page of two members that restores, logs in, out and through Google with one fault: is what it shows of one session, and does it end up ready? | 452 thousand |
| `data` | Two requests on accounts, on packages that share rows, on the streak; backups and a restoration; the activity journal read page by page: what can requests that overlap, and runs that fail half-way, leave behind? | 1.13 million |
| `pages` | Job stream, caches, speech, flashcards, forms, games and the level they report to, intake of words, sound, heartbeat: what can late answers, timers, closed pages and one lost request (any number in the intake) do to what the user sees? | 2.8 million |
| `recovery` | Emails, breaker, reminders and the two connections, with fairness: what may a bounded number of faults cost, and does each come back to work? | 124 thousand |
| `import_doc_reported`, `session_doc_tabs`, `email_doc_late`, `breaker_doc_probe`, `flashcards_doc_marks`, `words_doc_own` | Six statements of the repository that the code does not keep, see section 6. | |

**Sums.** `MCBrowser`, `MCData`, `MCPages` and `MCRecovery` check several components in one
run. These share no variable but the budget of faults, so interleaving them shows nothing
and multiplies their states: a variable `part` names the component that moves, and
`Only(p)` leaves the others as they start. Where a component may start in several ways
it takes one of them while it rests. Each component is explored as completely as in a
run of its own, and each property that speaks of one part holds of the others trivially.

**What is checked.**

- Words: `OthersKeepTheirWords` (a request changes the words of its own package only,
  although packages share rows), `EditsAddUp` (an edit keeps the edits made while it
  awaited the enrichment, and is found in its package); both except an edit that is
  `Astray`, whose word left its package meanwhile. `RowsAreKept` (all words or none, one per
  row, each with an example of its own, and what the user is told is true unless the answer to
  a commit was lost).
- Jobs: `AppliedAtMostOnce`, `NoJobLost`, `SuccessIsTrue`, `JournalSettles`,
  `PromiseKept`; `PageFollowsJob`, `FinalStatusStays`.
- Accounts and sessions: `NothingOutlivesReset`, `LinksWorkOnce`, `VerifiedIsProven`,
  `KeptByLockedTabs`, `CurrentIsDemoted`, `EndIsFinal`, `EveryTabRefreshes`, `OneSession`,
  `LoadsSettle`.
- Recovery: `NoEmailLost`, `ExtraSendsAreFaults`, `TakenSettles`, `OneProbe`, `Recovers`,
  `OnePerHour`, `Reminding`, `ConnectionsComeBack`.
- Learning and pages: `StreakIsEarned`, `FullLevelIsSeen`, `PromotionIsPaid`, `EditsAreKept`,
  `EveryRoundCounts`, `ScoredWordWasRecorded`, `MarksStayOnWords`, `QuickSavesKeep`,
  `StaleIsExcused`, `HeardIsShown`.
- Operations: `CommitIsEverywhere`, `LastBackupIsKept`, `JournalIsWhole`.

**Bounds.** One job is enough for the import pipeline: its actions for different jobs
share nothing but the workers, and a worker that is busy with another job is one that
takes no step. Three publications are the request, its relay and a second relay; two
workers give two deliveries at once; `MaxRetries = 1` makes a job reach both the retry
queue and the failed queue. `MaxTokens` caps the rotations in `WantRefresh`, which
counts refreshes under way so that no rotation is cut in the middle; a token that is
two rotations old, the case that ends a session, needs three. `Threshold = 2` and three
calls let late calls settle in every state of the breaker. Two tabs with Web Locks still overlap in the API: a tab that gave up on a hung or slow
request lets the next one present the same token, and a third request reads while they write. That
rotations chain without Web Locks is proved (`RotationsChain` holds for both), and `session_doc_tabs`
runs without them. Two requests, two accounts and two
addresses give every pair of operations on accounts; three details and three packages
a row shared by two packages, its copy and a third one. Words are added to packages that have
none (`MaxEntries = 1`), by two requests at once too. Four days
allow a streak, a gap and a streak again. Three links and three clients are the
current connection, its predecessor and one that is still dialing. Two words, two
callbacks pending, four moves and four redraws of a flashcard session let each timer fire
after each other move. Two words, two answers beyond the end and two rounds let a game end in
each way and start again; a grid of two by two, with drags that start in its first
cell, has drags along a row, a column, a diagonal, around a corner and back on themselves. A sheet of
four rows and batches of two give a second batch, and rows beyond the limit of three. Three
copies of the worker are one replaced while another beats. Three runs with a retention of two
rotate a dump away. Three rows in
two seconds and pages of one row make rows of one second meet at the edge of a page. Counters saturate where the code only compares them
(`failureCount`).

**Deadlock.** `CHECK_DEADLOCK FALSE` stands where the system may stop: every job
settled, every tab logged out, the copies, tokens, rounds or moves of the model used up.

**Symmetry** is used in runs without liveness only: workers (`import_duplicates`),
and in `data` accounts and packages, addresses and details, and requests, whose pairs are
interchangeable in each part; the detail shared at first is a value of its own.

**Fairness** is weak and never on a fault or a submission; on users only where `Recovers` needs calls:

- a committed request goes on, the relay runs on a timer, consumers are reopened by the
  platform's restart, the retry TTL elapses, a reachable broker enqueues
  (`ImportPipeline!Fairness`);
- the API answers what arrives and the browser grants locks and times out; a page that
  loads is answered, with a success or an error, and retries (`MCBrowser!BrowserFairness`);
- a request that sends directly and the workers go on; each attempt of a call ends, at the latest by
  its timeout, users go on calling and the reset timeout passes; clock, scheduler and
  its runs advance and Redis comes back; a dialed connection answers or fails, a timer
  that is set fires, the stopped process is started again, the client library goes on retrying and the watchdog
  ticks (`MCRecovery!RecoveryFairness`). A breaker nobody calls stays open, in the code too.

Faults are finitely many, so that liveness says: once things stop going wrong, the
system settles. `JournalSettles` excepts the jobs whose journal write was dropped,
since `note()` only logs it.

**Mutants.** Each property of each passing run is paired in `PROJECT.json` with one
variant that breaks it, so none holds by the shape of the model.

## 5. Proofs

Every safety invariant and every action property that a run checks is also a theorem: TLC
shows it on a small instance, TLAPS for all jobs, workers, tabs, requests, rows, bounds and
retries, from the named assumptions on the constants only.

| module | theorems | argument |
|---|---|---|
| `ImportPipelineProofs` | `TypeCorrect`, `Invariance`, `AppliedOnce`, `NothingLost`, `ReportsAreTrue`, `RunsAreCounted`, `ClaimsAreKept` | `IInv`: see below |
| | `PromiseSteps` | each step maps to a step of `ImportJob` or to none, under `StoredFirst` and `IInv` |
| | `IntakeInvariance`, `RowsKept` | `IntakeInv`: the words of a run are those of its submission, what was written for each is its own, and the package has them once a transaction is through, whether the run was told so or not |
| `BrowserSessionProofs` | `TypeCorrect`, `Invariance`, `SessionKept`, `CookieInStep`, `RotationsChain`, `EndedStaysEnded` | `LockInv` (the tab that refreshes holds the lock and awaits its own request) and `InStep` (cookie, request and row hold one token) |
| | `SignInvariance`, `SignedInAsOne` | `SignInv`: an answer under way is of the cookie or of a login asked for last, and one login is under way at a time |
| `EmailQueueProofs` | `TypeCorrect`, `Invariance`, `EmailKept`, `MarksAreTrue` | `AcksAreKept`: whatever acknowledges, marks or answers follows a send or a parked copy |
| | `SendAccounting`, `NoFreeResend` | `SendInv`: the sends accepted and those that may come without a new fault (`SendsDue`) are one more than the faults at most |
| `RecoveryProofs` | `BreakerInvariance`, `ProbeSlot`, `ClosedIsBelow`, `OpensOnlyDown` | probe flag, probe call and running calls stay in step |
| | `ReminderInvariance`, `RemindedOnce` | `SoleClaim` and `ClaimedFirst`: one run holds the hour of a user, and claims it before it sends |
| | `RabbitInvariance`, `AlwaysOnItsWay`, `RedisInvariance`, `OldClientsAreIgnored` | `RabbitInv`, `RedisInv`: a loss leaves a timer, an attempt or an event; the current client is never one that was replaced |
| `DataProofs` | `AccountInvariance`, `PasswordEndsSessions`, `UsedAtMostOnce`, `AddressIsProven` | `AccountInv`: a session is of the current password, a pending link is the only one of its user, and what a request has read still holds when it writes, or the write finds it changed (`GoodRequest`) |
| | `NewestBackupIsKept` | `BackupInv`: the newest verified dump is among the files and the newest uploaded one in the bucket, a verified dump holds what it lists, and run and restore have done what their step says |
| | `StreakInvariance`, `StreakEarned`, `RowAdvances` | what a request read, and what it is about to write, was earned, and days stay active |
| | `JournalInvariance`, `JournalStaysWhole` | `JournalInv`: the pages shown and those being read are sorted, start after the cursor of the one before (`GoodPages`), and cover all rows but the late ones (`WholePages`) |
| `WordStoreProofs` | `WordInvariance`, `WordsAreOwn`, `NoEditIsUndone` | `WordInv`: an edit under way knows the row it will write while packages share it, and whether they do, unless it was overtaken (`GoodEdit`); what a clearing did not list, its package has alone (`GoodClearing`). One lemma per kind of step says which packages it can change (`InsertIsLocal`, `EditIsLocal`, `DeletionIsLocal`, `ClearingIsLocal`) |
| `PagesProofs` | `PageFollows`, `FinalStays`, `ReportIsAgreed` | what a stream still has to tell follows what it told; a copy counted as present lives, and its commit was heard (`StaysLive`) |
| | `LevelInvariance`, `PromotionPaid`, `EditsKept`, `FullLevelSeen` | what is recorded was played since the last promotion, and a full level has a request at work |
| | `CacheInvariance`, `StaleHasReason` | `CacheInv`: an outdated entry is marked, excused, or about to be (`Awaited`, `Dropping`) |
| | `SoundInvariance`, `HeardAsShown`; `SpeechInvariance`, `ScoreIsOfItsWord` | a playback or a recogniser that can still answer is of the card shown |
| | `FormInvariance`, `SavesAreKept` | a field is held as the page shows it, or the answer that says so is on its way (`HeldOrOnItsWay`) |
| | `GameInvariance`, `RoundsCount`; `FlashInvariance`, `MarksStay` | the round that is played is not saved yet and the row stands for the scores that arrived; the latest redraw carries the word at the index, and the deck its marks |

**Assumptions.** Bounds are natural numbers, positive where the code has a positive constant;
`None` is none of the other values; the tables, streams, games and cards of an instance
are finite (`WordAssumption`, `FeedAssumption`, `LevelAssumption`, `CardsAssumption`), since
the code counts them; a name that one module uses as a mark is no element of the set beside
it (`FeedAssumption`, `IntakeAssumption`, `SignAssumption`, `JournalAssumption`); old
packages are packages (`WordAssumption`), languages with a voice languages
(`VoicedAssumption`). `EmailAssumption` says that an email is published once, which is what
the code does. TLC evaluates every one of them in the runs.

**Orders.** The order of the rows of a sheet, of a deck, of the pages of the journal is given by
ranks rather than by recursion (`InOrder`, `Before`, `NewestFirst`: the element that
has n - 1 others before it), for what a recursive definition computes can only be proved by
an induction over data. That the ranks are a numbering of a finite set is a lemma on injections
(`NewestFirstLists` and its siblings).

**Why invariants need strengthening.** None of the properties is inductive alone: each speaks
of what is visible, and the mistake it excludes happens in a request, a timer or an event
that is still to come. The invariants therefore say of everything under way what it will
be allowed to do: `GoodEdit` of an edit that awaits the enrichment, `Awaited` of a fetch,
`HeldOrOnItsWay` of an answer, `WholePages` of the pages read so far.

The invariant of the import pipeline. `NoJobLost` and `AppliedAtMostOnce` are not
inductive. A row leaves the outbox on the word of a confirm, so the invariant has to say
that a publisher which saw one knows of a copy that the broker has (`PublisherInv`) and that
the copy is of its own job; a copy leaves the broker by an acknowledgement, so that a
worker about to acknowledge holds the only reference to its copy (`HolderInv`) and
follows a save or a parked copy (`HandOver`). At most one save needs the marker to stand
for the saved words until nothing can deliver the job again (`MarkerInv`), which in turn
needs that nothing of a job exists before its request committed (`SubmittedFirst`).
Reports follow from the steps they are made in (`SavedSteps`, `FailedSteps`), and
bounded attempts from `RunsPaid`: a copy about to be run has as many rejections as runs
behind it, unless it is redelivered, in which case it is not run.

Of the forty properties the passing runs check, thirty-two are theorems: the twenty-five
invariants and the seven action properties. `RunsAreCounted`, `CookieInStep`,
`ClaimsAreKept`, `MarksAreTrue`, `ClosedIsBelow`, `OpensOnlyDown`, `RowAdvances`, `AlwaysOnItsWay` and
`OldClientsAreIgnored` are proved without a run of their own.

Only model-checked: the eight properties of liveness (`JournalSettles`, `PromiseKept`,
`EveryTabRefreshes`, `LoadsSettle`, `TakenSettles`, `Recovers`, `Reminding`,
`ConnectionsComeBack`), whose proofs need fairness and ENABLED, out of the
prover's reach. The steps of `PromiseKept` are proved (`PromiseSteps`: `ImportPipeline` implements
`ImportJob` but for its fairness), and so is what `ConnectionsComeBack` rests on
(`AlwaysOnItsWay`, `OldClientsAreIgnored`).

## 6. Where the code and its texts disagree

Checked by a run each, with the quoted line in `PROJECT.json` under `findings`:

- `import_doc_reported`: a duplicate of a saved job that fails for the last time before it
  sees the marker turns the succeeded journal row into a failed one.
- `session_doc_tabs`: the row remembers one previous token. Concurrent tabs without Web
  Locks can present one that is two rotations old, and lose the session.
- `email_doc_late`: a late copy that a worker receives while the request is still sending
  is not skipped: the key is written after the send.
- `breaker_doc_probe`: a call admitted before the breaker opened can close it while the
  probe runs; calls are then admitted beside the probe.
- `flashcards_doc_marks`: for the 600 ms of a shuffle a mark lands on the first word of
  the new deck while the card still shows a word of the old one.
- `words_doc_own`: an edit of a shared word that awaits the enrichment while another edit of
  the same package takes a copy, or a deletion removes the word, counts one reference left,
  that of another package, and writes the row of that package. Its own package does not
  have the edit, and the user is told that it was made. A level sent with the edit makes its
  transaction fail instead, for the entry it names is gone.

Noticed while modelling, without a run of their own:

- Queues: `reject()` nacks an exhausted message again whenever its parked copy is not
  confirmed (`rabbitmq/retry-queue.ts:88`), and `consume()` nacks without a count check
  (`rabbitmq/rabbitmq.service.ts:198`): `maxRetries` bounds the attempts only while the
  broker confirms. `BUSINESS_RULES.md:169-172` says that an unconfirmed import is saved in
  the request; the code leaves it to the relay (`import/bulk-words.service.ts:166-174`).
  A second publication of a completed job takes its tracker back to `processing`
  (`import/import-queue.service.ts:131`).
- Streak and level: a request that read the streak before the last write of a day and
  computes after midnight restarts a streak that goes on
  (`learning/learning.service.ts:130-157`); the HDEL of a completion that lost the race also
  removes games recorded since the winner's (`learning/learning.service.ts:81-89`).
- Import parsing: a row without a word but with other cells is skipped without a line in
  the report, for the error of the validator on `word` cannot be reached from `parseWords`; the numbers of
  the error lines count parsed words, not rows of the sheet; a heading that is not in
  the first row is read as a word. The synchronous branch of an import is unreachable,
  `QUEUE_THRESHOLD.import` being 1. `replaceExample`
  compares the ids of a reply with all words: a null one counts for word 0, one of another batch
  replaces the example of that word, and an empty example is taken
  (`words/words-enrichment.service.ts:20-26`). "Never throws" (line 34) holds for what Gemini
  cannot answer, not for a list that holds a null, on which `r.id` throws and fails the run.
- Commits whose answer is lost: one or two cards are answered with an error, and so is a request whose job was
  stored and will run, or a job whose last run committed is reported as failed; the form keeps its cards, and a
  user who sends them again has the words twice (`import/bulk-words.service.ts:89`, `:161`,
  `import/import-queue.service.ts:183`).
- Job stream: a stream opened while Redis is away is answered 404, and the page stops
  watching the job. The outcome 'unavailable' keeps the form without a word.
- Forms: `ImportForm` lets another file be picked while it is busy and drops it when the
  answer comes; cards of `MultiWordForm` edited while they are saved are cleared;
  the answer for one package closes whatever form is open (`use-package-actions.ts:55`);
  `toggleActivation` can activate a public package again that its edit deactivated
  (`packages/packages.service.ts:138`).
- Sign-in: the refresh of a page load that presents the old cookie and crosses a login
  can store the old user's token, or log the new one out; cached data of the previous user
  may be shown (`web:providers/query-provider.tsx:21`); a success at Google always leads
  to /dashboard, the saved page being used on errors only. `OneSession` excepts the
  crossings (`crossed`).
- Heartbeat: a reader's `sRem` between a new copy's `sAdd` and its key
  (`health/heartbeat.ts:80`) takes the copy out of the set until its next beat: for 15 s
  GET /health may report one commit although a live copy runs another, against the comment at
  `health/heartbeat.ts:72`.
- Pronunciation: the end of the game does not stop the sound being played; the end of a
  playback clears the feedback of a score given meanwhile; words of another script are
  reduced to nothing, as is what was heard, and count as equal
  (`web:components/games/test-pronun/pronunciation.ts:64`).
- Word search: `canExtend` allows selections around a corner, which the comment of
  `use-cell-selection.ts:36` excludes; a selection under way when the time runs out is still there in the
  next round, and counts as its first attempt.
- Backup: a truncated dump left by a killed run can be restored and reported OK; a
  restoration cut between DROP and CREATE leaves the database without the table, and a
  later dump of it is "verified".

## 7. Limits of the models

- In `ImportPipeline` the words of a job are its marker; `WordIntake` has the words, for one
  submission until its run ends, without duplicates or crashes: its `package` is what that submission
  added, and one that is sent again after a lost answer is a new one. In `JobRecord` an update of the tracker is
  one step; `JobFeed` has its GET and SET, for one job.
- `CleanupMarker` assumes what the comment of the retention says: a week outlives every
  redelivery. The dedup key of an email (24 h) does not expire in the model, for the
  same reason: an email circulates for minutes.
- `EmailQueue` publishes an email once; the branch for a message that is not valid JSON
  cannot be reached from the publishers of this repository and is left out.
- `BrowserSession` has one browser and one session, `SignIn` one page; the limits on the number of
  requests of an account, and the content of tokens and emails, are left out of `Account`.
- `CircuitBreaker` uses the predicate of `tts/tts.service.ts`; with the default predicate every
  error counts, and `OpensOnAnOutage` would be about errors instead.
- When a word is due is an abstract fact in `LevelProgress`.
- `QueryCache` follows one query at a time, `Forms` one form, `Games` one page.
- `CommitIsEverywhere` speaks of the copies in the set (see section 6), `StaleIsExcused`
  of entries that no change crossed: the code bounds their age by the TTL and no more.
- `ConnectionsComeBack` assumes finitely many faults, and fairness of the client library, which is external.

Not modelled:

- Rate limiting (`common/throttler/`): one atomic Lua script with an in-memory
  fallback; nothing interleaves beyond Redis itself.
- Account and feedback: single statements.
- Rendering, layout, wording and styles of the pages; validation rules of DTOs and
  forms; configuration, guards, filters, templates.
- Infrastructure: build, deployment, migrations, tests.
- Security of tokens and hashing.

To check a model: `tlc -config ImportPromise.cfg MCImportPipeline`. To check its proofs:
`tlapm ImportPipelineProofs.tla`.
