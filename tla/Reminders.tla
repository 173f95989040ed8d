------------------------------ MODULE Reminders ------------------------------
(***************************************************************************)
(* The reminder task: scheduler.service.ts triggers it on cron and catches *)
(* up at boot, over HTTP; reminder.controller.ts claims the hour, queues   *)
(* one mail per user and cleans up.  The clock counts hours.  Users are    *)
(* those who have words due.  A trigger is given up long before an hour is *)
(* over, but the run it started goes on in the API.                        *)
(***************************************************************************)
EXTENDS NoValue, FaultBudget, FiniteSetsExt

CONSTANTS Runs,   \* executions of the task in the API
          Users,
          Day,    \* hours of a day
          Hours   \* hours of the task

VARIABLES hour,     \* of the day
          age,      \* hours since the recorded last run, None without a record
          redis,    \* Redis answers
          claimed,  \* the key reminderRun(hour) is set
          process,  \* the scheduler: down, booting or up
          waiting,  \* the run its trigger waits for
          runStep,     \* what each run does
          todo,     \* users a run still has to mail
          current,  \* runs that claimed the present hour
          mails,    \* reminders queued to a user by the runs of the present hour
          blind     \* a run of the present hour went without the claim

clockVars == <<hour, age>>
runVars == <<runStep, todo, current>>
sentVars == <<mails, blind, claimed>>
reminderVars == <<clockVars, redis, process, waiting, runVars, sentVars, faults>>

HourAfter(h) == (h + 1) % Day

\* maxGapMs(): the longest wait between two runs of the task.
Wait(h) == Min({d \in 1..Day : (h + d) % Day \in Hours})
MaxGap == Max({Wait(h) : h \in Hours})

ReminderInit ==
    /\ hour \in 0..(Day - 1)
    /\ age \in {None} \cup 0..(MaxGap + 1)
    /\ redis = TRUE
    /\ claimed = FALSE
    /\ process = "down"
    /\ waiting = None
    /\ runStep = [r \in Runs |-> "idle"]
    /\ todo = [r \in Runs |-> {}]
    /\ current = {}
    /\ mails = [u \in Users |-> 0]
    /\ blind = FALSE
    /\ faults = 0

Idle == {r \in Runs : runStep[r] = "idle"}

\* trigger(): POST to the API.
Trigger(r) ==
    /\ r \in Idle
    /\ waiting = None
    /\ runStep' = [runStep EXCEPT ![r] = "claiming"]
    /\ waiting' = r

-----------------------------------------------------------------------------
(* The scheduler process                                                   *)

Boot ==
    /\ process = "down"
    /\ process' = "booting"
    /\ NoFault
    /\ UNCHANGED <<clockVars, redis, waiting, runVars, sentVars>>

\* The last run is older than the longest gap: certainly when the hours say so,
\* perhaps when they are equal.
Recorded == redis /\ age # None
NearNextRun == HourAfter(hour) \in Hours

CatchUp ==
    /\ process = "booting"
    /\ Recorded
    /\ age >= MaxGap
    /\ ~NearNextRun
    /\ \E r \in Runs : Trigger(r)
    /\ process' = "catching"
    /\ NoFault
    /\ UNCHANGED <<clockVars, redis, todo, current, sentVars>>

NothingMissed ==
    /\ process = "booting"
    /\ Recorded => age <= MaxGap \/ NearNextRun
    /\ process' = "up"
    /\ NoFault
    /\ UNCHANGED <<clockVars, redis, waiting, runVars, sentVars>>

\* start() follows the catch-up, however its trigger ended.
CaughtUp == process' = IF process = "catching" THEN "up" ELSE process

\* A deploy or a crash: a trigger under way is lost, its run is not.
SchedulerStops ==
    /\ process # "down"
    /\ process' = "down"
    /\ waiting' = None
    /\ Fault
    /\ UNCHANGED <<clockVars, redis, runVars, sentVars>>

\* REQUEST_TIMEOUT_MS
GiveUp ==
    /\ waiting # None
    /\ waiting' = None
    /\ CaughtUp
    /\ Fault
    /\ UNCHANGED <<clockVars, redis, runVars, sentVars>>

\* Variant: only the catch-up triggers the task.
NeverOnCron ==
    /\ UNCHANGED <<runStep, waiting>>

\* cron fires at minute 0 of an hour of the task.
OnCron ==
    IF process = "up" /\ HourAfter(hour) \in Hours
    THEN \E r \in Runs : Trigger(r)
    ELSE UNCHANGED <<runStep, waiting>>

\* An hour of the task is never reached while a trigger waits: the catch-up
\* keeps an hour away from it, and a trigger lasts two minutes.
Tick ==
    /\ NearNextRun => waiting = None /\ Idle # {}
    /\ OnCron
    /\ hour' = HourAfter(hour)
    /\ age' = IF age = None \/ age > MaxGap THEN age ELSE age + 1
    /\ claimed' = FALSE
    /\ current' = {}
    /\ mails' = [u \in Users |-> 0]
    /\ blind' = FALSE
    /\ NoFault
    /\ UNCHANGED <<redis, process, todo>>

-----------------------------------------------------------------------------
(* A run in the API                                                        *)

RunGoesTo(r, s) == runStep' = [runStep EXCEPT ![r] = s]

\* Variant: the claim overwrites the key.
NeverClaimed == FALSE

\* setNX found the key of the hour.
AlreadyClaimed == redis /\ claimed

\* sendReminders(): the first run of the hour sends; without Redis, every run.
Claim(r) ==
    /\ runStep[r] = "claiming"
    /\ IF AlreadyClaimed
       THEN RunGoesTo(r, "cleaning") /\ UNCHANGED <<todo, current, claimed, blind>>
       ELSE /\ RunGoesTo(r, "sending")
            /\ todo' = [todo EXCEPT ![r] = Users]
            /\ current' = current \cup {r}
            /\ claimed' = (claimed \/ redis)
            /\ blind' = (blind \/ ~redis)
    /\ NoFault
    /\ UNCHANGED <<clockVars, redis, process, waiting, mails>>

\* enqueueReminder() of the next user.
Remind(r, u) ==
    /\ runStep[r] = "sending"
    /\ u \in todo[r]
    /\ todo' = [todo EXCEPT ![r] = @ \ {u}]
    /\ mails' = IF r \in current /\ mails[u] < 2 THEN [mails EXCEPT ![u] = @ + 1] ELSE mails
    /\ NoFault
    /\ UNCHANGED <<clockVars, redis, process, waiting, runStep, current, claimed, blind>>

\* The mail is not queued: counted as failed, the loop goes on.
RemindFails(r, u) ==
    /\ runStep[r] = "sending"
    /\ u \in todo[r]
    /\ todo' = [todo EXCEPT ![r] = @ \ {u}]
    /\ Fault
    /\ UNCHANGED <<clockVars, redis, process, waiting, runStep, current, sentVars>>

RemindedAll(r) ==
    /\ runStep[r] = "sending"
    /\ todo[r] = {}
    /\ RunGoesTo(r, "cleaning")
    /\ NoFault
    /\ UNCHANGED <<clockVars, redis, process, waiting, todo, current, sentVars>>

\* A query fails: finally cleans up all the same, the answer is an error.
QueryFails(r) ==
    /\ runStep[r] = "sending"
    /\ RunGoesTo(r, "failing")
    /\ todo' = [todo EXCEPT ![r] = {}]
    /\ Fault
    /\ UNCHANGED <<clockVars, redis, process, waiting, current, sentVars>>

\* setLastRun(): of a success, a skipped run included.
SetLastRun(r) == age' = IF runStep[r] = "cleaning" /\ redis THEN 0 ELSE age

\* cleanupExpired(), then the answer, which the scheduler may have given up.
Answer(r) ==
    /\ runStep[r] \in {"cleaning", "failing"}
    /\ RunGoesTo(r, "idle")
    /\ current' = current \ {r}
    /\ IF waiting = r
       THEN /\ waiting' = None
            /\ CaughtUp
            /\ SetLastRun(r)
       ELSE UNCHANGED <<waiting, process, age>>
    /\ NoFault
    /\ UNCHANGED <<hour, redis, todo, sentVars>>

\* The API stops: its runs are lost, the trigger gets an error.
ApiStops ==
    /\ Idle # Runs
    /\ runStep' = [r \in Runs |-> "idle"]
    /\ todo' = [r \in Runs |-> {}]
    /\ current' = {}
    /\ waiting' = None
    /\ CaughtUp
    /\ Fault
    /\ UNCHANGED <<clockVars, redis, sentVars>>

RedisGoesAway ==
    /\ redis
    /\ redis' = FALSE
    /\ Fault
    /\ UNCHANGED <<clockVars, process, waiting, runVars, sentVars>>

RedisComesBack ==
    /\ ~redis
    /\ redis' = TRUE
    /\ NoFault
    /\ UNCHANGED <<clockVars, process, waiting, runVars, sentVars>>

Scheduler == Boot \/ CatchUp \/ NothingMissed
RunStep(r) == Claim(r) \/ (\E u \in Users : Remind(r, u)) \/ RemindedAll(r) \/ Answer(r)

ReminderNext ==
    \/ Scheduler \/ SchedulerStops \/ GiveUp \/ Tick
    \/ \E r \in Runs : RunStep(r) \/ QueryFails(r) \/ \E u \in Users : RemindFails(r, u)
    \/ ApiStops \/ RedisGoesAway \/ RedisComesBack

ReminderSpec == ReminderInit /\ [][ReminderNext]_reminderVars

\* Both processes are restarted and run, time passes, Redis comes back.
ReminderFairness ==
    /\ WF_reminderVars(Scheduler)
    /\ WF_reminderVars(Tick)
    /\ \A r \in Runs : WF_reminderVars(RunStep(r))
    /\ WF_reminderVars(RedisComesBack)

ReminderFairSpec == ReminderSpec /\ ReminderFairness

-----------------------------------------------------------------------------
(* Properties                                                              *)

\* A scheduled run, its catch-up after a crash or a timeout, and whatever they
\* race with send one reminder per user and hour, unless Redis was away
\* (reminder.service.ts:43).
OnePerHour == \A u \in Users : mails[u] > 1 => blind

\* Users go on being reminded after any number of missed, failed, given up or
\* skipped runs (scheduler.service.ts:96, reminder.service.ts:49).
RemindedAgain == \A u \in Users : []<><<\E r \in Runs : Remind(r, u)>>_reminderVars
=============================================================================
