--------------------------- MODULE RecoveryProofs ---------------------------
(***************************************************************************)
(* Proofs of the safety of CircuitBreaker.tla, for any number of calls,    *)
(* any threshold, any retries and any number of outages, of Reminders.tla, *)
(* for any users, runs and hours, and of RabbitConnection.tla and          *)
(* RedisConnection.tla, for any connections, clients and faults.           *)
(***************************************************************************)
EXTENDS CircuitBreaker, Reminders, RabbitConnection, RedisConnection, TLAPS

(* The circuit breaker                                                     *)

\* A call that settles leaves the slot of the probe as OneProbe wants it.
LEMMA SettleKeepsSlot ==
    ASSUME BreakerIInv, NEW c \in Calls, attempt[c] > 0, Settle(c)
    PROVE  /\ attempt' \in [Calls -> 0..(Retries + 1)]
           /\ probing' \in BOOLEAN
           /\ probe' \in SUBSET Calls
           /\ OneProbe'
           /\ probe' \subseteq Running'
  <1>1. attempt' \in [Calls -> 0..(Retries + 1)]
    BY BreakerAssumption DEF BreakerIInv, BreakerTypeOK, Settle
  <1>2. probing' \in BOOLEAN /\ probe' \in SUBSET Calls
    BY DEF BreakerIInv, BreakerTypeOK, Settle
  <1>3. OneProbe'
    <2>1. CASE c \in probe
      BY <2>1 DEF BreakerIInv, OneProbe, Settle
    <2>2. CASE c \notin probe
      BY <2>2 DEF BreakerIInv, BreakerTypeOK, OneProbe, Settle
    <2> QED BY <2>1, <2>2
  <1>4. probe' \subseteq Running'
    BY DEF BreakerIInv, BreakerTypeOK, Running, Settle
  <1> QED BY <1>1, <1>2, <1>3, <1>4

\* What the end of a call does to state and count.
LEMMA SuccessCloses ==
    ASSUME BreakerIInv, OnSuccess
    PROVE  /\ state' \in States /\ failureCount' \in 0..Threshold /\ cooling' \in BOOLEAN
           /\ ClosedBelowThreshold'
           /\ state' = "OPEN" => state = "OPEN"
  BY BreakerAssumption DEF BreakerIInv, BreakerTypeOK, States, OnSuccess, ClosedBelowThreshold

\* A failure that settles keeps the breaker in step, opening it or not.
LEMMA FailureOpens ==
    ASSUME BreakerIInv, OnFailure
    PROVE  /\ state' \in States /\ failureCount' \in 0..Threshold /\ cooling' \in BOOLEAN
           /\ ClosedBelowThreshold'
  BY BreakerAssumption DEF BreakerIInv, BreakerTypeOK, States, OnFailure, ClosedBelowThreshold

-----------------------------------------------------------------------------
\* The inductive invariant of the breaker: the slot of the probe is held by one
\* running call, and a closed breaker is below its threshold.
THEOREM BreakerInvariance == BreakerSpec => []BreakerIInv
  <1>1. BreakerInit => BreakerIInv
    <2> SUFFICES ASSUME BreakerInit PROVE BreakerIInv
      OBVIOUS
    <2>1. BreakerTypeOK
      <3>1. failureCount \in 0..Threshold /\ attempt \in [Calls -> 0..(Retries + 1)]
        BY BreakerAssumption DEF BreakerInit
      <3>2. faults \in 0..MaxFaults
        BY MaxFaultsAssumption DEF BreakerInit
      <3> QED BY <3>1, <3>2 DEF BreakerInit, BreakerTypeOK, States
    <2>2. OneProbe /\ ClosedBelowThreshold /\ probe \subseteq Running
      BY BreakerAssumption DEF BreakerInit, OneProbe, ClosedBelowThreshold
    <2> QED BY <2>1, <2>2 DEF BreakerIInv
  <1>2. BreakerIInv /\ [BreakerNext]_circuitVars => BreakerIInv'
    <2> SUFFICES ASSUME BreakerIInv, [BreakerNext]_circuitVars PROVE BreakerIInv'
      OBVIOUS
    <2> USE BreakerAssumption, MaxFaultsAssumption
    <2>1. ASSUME NEW c \in Calls, Admit(c) PROVE BreakerIInv'
      <3>1. BreakerTypeOK'
        <4>1. attempt' \in [Calls -> 0..(Retries + 1)]
          BY <2>1 DEF Admit, BreakerIInv, BreakerTypeOK
        <4>2. state' \in States
          BY <2>1 DEF Admit, Found, BreakerIInv, BreakerTypeOK, States
        <4>3. probing' \in BOOLEAN /\ probe' \in SUBSET Calls
          BY <2>1 DEF Admit, BreakerIInv, BreakerTypeOK
        <4> QED BY <2>1, <4>1, <4>2, <4>3 DEF Admit, BreakerIInv, BreakerTypeOK, NoFault
      <3>2. OneProbe'
        BY <2>1 DEF Admit, Admits, Found, BreakerIInv, BreakerTypeOK, OneProbe
      <3>3. ClosedBelowThreshold'
        BY <2>1 DEF Admit, Found, BreakerIInv, BreakerTypeOK, ClosedBelowThreshold
      <3>4. probe' \subseteq Running'
        BY <2>1 DEF Admit, BreakerIInv, BreakerTypeOK, Running
      <3> QED BY <3>1, <3>2, <3>3, <3>4 DEF BreakerIInv
    <2>2. ASSUME NEW c \in Calls, Reject(c) PROVE BreakerIInv'
      BY <2>2 DEF Reject, Admits, Found, BreakerIInv, BreakerTypeOK, States, OneProbe,
                  ClosedBelowThreshold, Running, callVars, NoFault
    <2>3. ASSUME NEW c \in Calls, Succeed(c) \/ AnswerError(c) PROVE BreakerIInv'
      <3>1. attempt[c] > 0 /\ OnSuccess /\ Settle(c) /\ UNCHANGED <<up, faults>>
        BY <2>3 DEF Succeed, AnswerError, NoFault
      <3> QED BY <3>1, SettleKeepsSlot, SuccessCloses DEF BreakerIInv, BreakerTypeOK
    <2>4. ASSUME NEW c \in Calls, FailCall(c) PROVE BreakerIInv'
      <3>1. attempt[c] > 0 /\ OnFailure /\ Settle(c) /\ UNCHANGED <<up, faults>>
        BY <2>4 DEF FailCall, NoFault, BreakerIInv, BreakerTypeOK
      <3> QED BY <3>1, SettleKeepsSlot, FailureOpens DEF BreakerIInv, BreakerTypeOK
    <2>5. ASSUME NEW c \in Calls, RetryAttempt(c) PROVE BreakerIInv'
      BY <2>5 DEF RetryAttempt, breakerVars, BreakerIInv, BreakerTypeOK, OneProbe,
                  ClosedBelowThreshold, Running, NoFault
    <2>6. CASE ResetTimeout \/ ServiceGoesDown \/ ServiceComesBack
      <3>1. UNCHANGED <<state, failureCount, probing, attempt, probe>>
        BY <2>6 DEF ResetTimeout, ServiceGoesDown, ServiceComesBack, breakerVars, callVars
      <3>2. cooling' \in BOOLEAN /\ up' \in BOOLEAN
        BY <2>6 DEF ResetTimeout, ServiceGoesDown, ServiceComesBack, breakerVars, BreakerIInv, BreakerTypeOK
      <3>3. faults' \in 0..MaxFaults
        BY <2>6 DEF ResetTimeout, ServiceGoesDown, ServiceComesBack, BreakerIInv, BreakerTypeOK, Fault, NoFault
      <3> QED BY <3>1, <3>2, <3>3 DEF BreakerIInv, BreakerTypeOK, OneProbe, ClosedBelowThreshold, Running
    <2>7. CASE UNCHANGED circuitVars
      BY <2>7 DEF circuitVars, breakerVars, callVars, BreakerIInv, BreakerTypeOK, OneProbe,
                  ClosedBelowThreshold, Running
    <2> QED BY <2>1, <2>2, <2>3, <2>4, <2>5, <2>6, <2>7 DEF BreakerNext, Request, Run
  <1> QED BY <1>1, <1>2, PTL DEF BreakerSpec

\* One probe at a time, and its slot is freed with it, for any interleaving of
\* the calls (index.ts:226).
THEOREM ProbeSlot == BreakerSpec => []OneProbe
  BY BreakerInvariance, PTL DEF BreakerIInv

\* A closed breaker has counted fewer failures than open it (index.ts:240).
THEOREM ClosedIsBelow == BreakerSpec => []ClosedBelowThreshold
  BY BreakerInvariance, PTL DEF BreakerIInv

\* Errors the service answers with never open the breaker (tts.service.ts:35).
THEOREM OpensOnlyDown == BreakerSpec => OpensOnAnOutage
  <1>1. BreakerIInv /\ [BreakerNext]_circuitVars => [state # "OPEN" /\ state' = "OPEN" => ~up]_circuitVars
    <2> SUFFICES ASSUME BreakerIInv, BreakerNext, state # "OPEN", state' = "OPEN" PROVE ~up
      OBVIOUS
    <2>1. ASSUME NEW c \in Calls, Request(c) PROVE FALSE
      BY <2>1 DEF Request, Admit, Reject, Found
    <2>2. ASSUME NEW c \in Calls, Run(c) PROVE ~up
      BY <2>2, SuccessCloses DEF Run, Succeed, AnswerError, RetryAttempt, FailCall, Transient, breakerVars
    <2>3. CASE ResetTimeout \/ ServiceGoesDown \/ ServiceComesBack
      BY <2>3 DEF ResetTimeout, ServiceGoesDown, ServiceComesBack, breakerVars
    <2> QED BY <2>1, <2>2, <2>3 DEF BreakerNext
  <1> QED BY <1>1, BreakerInvariance, PTL DEF BreakerSpec, OpensOnAnOutage

-----------------------------------------------------------------------------
(* The reminders                                                           *)

RunSteps == {"idle", "claiming", "sending", "cleaning", "failing"}

ReminderTypeOK ==
    /\ redis \in BOOLEAN /\ claimed \in BOOLEAN /\ blind \in BOOLEAN
    /\ runStep \in [Runs -> RunSteps]
    /\ todo \in [Runs -> SUBSET Users]
    /\ current \in SUBSET Runs
    /\ mails \in [Users -> Nat]

\* The runs that claimed the present hour are past their claim.
ClaimedFirst == \A r \in current : runStep[r] \in {"sending", "cleaning", "failing"}

\* While every claim of the hour reached Redis, one run holds the hour, and whom it
\* still has to remind was not reminded.
SoleClaim ==
    /\ \A r, s \in current : r = s
    /\ ~claimed => current = {} /\ \A u \in Users : mails[u] = 0
    /\ \A u \in Users : mails[u] <= 1
    /\ \A r \in current : \A u \in todo[r] : mails[u] = 0

ReminderInv == ReminderTypeOK /\ ClaimedFirst /\ (~blind => SoleClaim)

\* The scheduler, its clock and its triggers touch no run that claimed the hour.
LEMMA TriggerKeeps ==
    ASSUME ReminderInv, NEW r \in Runs, Trigger(r),
           UNCHANGED <<todo, current, mails, blind, claimed, redis>>
    PROVE  ReminderInv'
BY DEF ReminderInv, ReminderTypeOK, ClaimedFirst, SoleClaim, Trigger, Idle, RunSteps

\* What the scheduler does, and Redis going and coming back, keeps the reminders in step.
LEMMA SchedulerKeeps ==
    ASSUME ReminderInv,
           Scheduler \/ SchedulerStops \/ GiveUp \/ RedisGoesAway \/ RedisComesBack
    PROVE  ReminderInv'
<1>1. CASE CatchUp
  BY <1>1, TriggerKeeps DEF CatchUp, sentVars
<1>2. ASSUME UNCHANGED <<runVars, sentVars>>, redis' \in BOOLEAN
      PROVE  ReminderInv'
  BY <1>2 DEF ReminderInv, ReminderTypeOK, ClaimedFirst, SoleClaim, runVars, sentVars
<1>3. CASE Boot \/ NothingMissed \/ SchedulerStops \/ GiveUp \/ RedisGoesAway \/ RedisComesBack
  BY <1>2, <1>3 DEF Boot, NothingMissed, SchedulerStops, GiveUp, RedisGoesAway, RedisComesBack,
     ReminderInv, ReminderTypeOK
<1>4. QED
  BY <1>1, <1>3 DEF Scheduler

\* A new hour: nobody claimed it.
LEMMA TickKeeps ==
    ASSUME ReminderInv, Tick
    PROVE  ReminderInv'
<1>1. /\ current' = {} /\ claimed' = FALSE /\ blind' = FALSE
      /\ mails' = [u \in Users |-> 0]
      /\ UNCHANGED <<redis, todo>>
  BY DEF Tick
<1>2. runStep' \in [Runs -> RunSteps]
  BY DEF Tick, OnCron, Trigger, ReminderInv, ReminderTypeOK, RunSteps
<1>3. redis' \in BOOLEAN /\ claimed' \in BOOLEAN /\ blind' \in BOOLEAN
  BY <1>1 DEF ReminderInv, ReminderTypeOK
<1>4. ReminderTypeOK'
  BY <1>1, <1>2, <1>3 DEF ReminderInv, ReminderTypeOK
<1>5. ClaimedFirst' /\ SoleClaim'
  BY <1>1 DEF ClaimedFirst, SoleClaim
<1>6. QED
  BY <1>4, <1>5 DEF ReminderInv

\* setNX of reminder.controller.ts: a run that enters the hour beside another one
\* did so without Redis.
LEMMA ClaimKeeps ==
    ASSUME ReminderInv, NEW r \in Runs, Claim(r)
    PROVE  ReminderInv'
<1> USE DEF ReminderInv, ReminderTypeOK, ClaimedFirst, Claim, RunGoesTo, RunSteps
<1>1. CASE AlreadyClaimed
  BY <1>1 DEF SoleClaim
<1>2. CASE ~AlreadyClaimed
  <2>1. ReminderTypeOK'
    BY <1>2
  <2>2. ClaimedFirst'
    BY <1>2
  <2>3. ASSUME ~blind' PROVE SoleClaim'
    <3>1. SoleClaim /\ current = {} /\ \A u \in Users : mails[u] = 0
      BY <1>2, <2>3 DEF AlreadyClaimed, SoleClaim
    <3>2. blind = FALSE /\ \A u \in Users : mails'[u] = 0
      BY <1>2, <2>3, <3>1
    <3>3. \A p, q \in current' : p = q
      BY <1>2, <3>1
    <3>4. /\ ~claimed' => current' = {} /\ \A u \in Users : mails'[u] = 0
          /\ \A u \in Users : mails'[u] <= 1
          /\ \A q \in current' : \A u \in todo'[q] : mails'[u] = 0
      <4>1. claimed' \/ current' = {}
        BY <1>2, <2>3
      <4>2. todo' \in [Runs -> SUBSET Users] /\ current' \subseteq Runs
        BY <2>1
      <4>3. QED
        BY <3>2, <4>1, <4>2
    <3>5. QED
      BY <3>3, <3>4 DEF SoleClaim
  <2>4. QED
    BY <2>1, <2>2, <2>3
<1>3. QED
  BY <1>1, <1>2

\* A reminder that is claimed or sent keeps them in step.
LEMMA RemindKeeps ==
    ASSUME ReminderInv, NEW r \in Runs, NEW u \in Users, Remind(r, u) \/ RemindFails(r, u)
    PROVE  ReminderInv'
<1> USE DEF ReminderInv, ReminderTypeOK, ClaimedFirst, SoleClaim
<1>1. CASE Remind(r, u)
  BY <1>1 DEF Remind
<1>2. CASE RemindFails(r, u)
  BY <1>2 DEF RemindFails, sentVars
<1>3. QED
  BY <1>1, <1>2

\* The end of a run, or of the API, keeps them in step.
LEMMA RunEndKeeps ==
    ASSUME ReminderInv,
           ApiStops \/ \E r \in Runs : RemindedAll(r) \/ QueryFails(r) \/ Answer(r)
    PROVE  ReminderInv'
<1> USE DEF ReminderInv, ReminderTypeOK, ClaimedFirst, SoleClaim, RunGoesTo, RunSteps, sentVars
<1>1. CASE ApiStops
  BY <1>1 DEF ApiStops
<1>2. ASSUME NEW r \in Runs, RemindedAll(r) PROVE ReminderInv'
  BY <1>2 DEF RemindedAll
<1>3. ASSUME NEW r \in Runs, QueryFails(r) PROVE ReminderInv'
  BY <1>3 DEF QueryFails
<1>4. ASSUME NEW r \in Runs, Answer(r) PROVE ReminderInv'
  BY <1>4 DEF Answer
<1>5. QED
  BY <1>1, <1>2, <1>3, <1>4

\* The hour is held by one run as long as Redis answers the claims.
THEOREM ReminderInvariance == ReminderSpec => []ReminderInv
<1>1. ReminderInit => ReminderInv
  <2> SUFFICES ASSUME ReminderInit PROVE ReminderInv
    OBVIOUS
  <2>1. redis \in BOOLEAN /\ claimed \in BOOLEAN /\ blind \in BOOLEAN
    BY DEF ReminderInit
  <2>2. runStep \in [Runs -> RunSteps] /\ todo \in [Runs -> SUBSET Users] /\ mails \in [Users -> Nat]
    BY DEF ReminderInit, RunSteps
  <2>3. current = {} /\ \A u \in Users : mails[u] = 0
    BY DEF ReminderInit
  <2>4. ClaimedFirst /\ SoleClaim
    BY <2>3 DEF ClaimedFirst, SoleClaim
  <2>5. QED
    BY <2>1, <2>2, <2>3, <2>4 DEF ReminderInv, ReminderTypeOK
<1>2. ReminderInv /\ [ReminderNext]_reminderVars => ReminderInv'
  <2> SUFFICES ASSUME ReminderInv, [ReminderNext]_reminderVars
               PROVE  ReminderInv'
    OBVIOUS
  <2>1. CASE UNCHANGED reminderVars
    BY <2>1 DEF ReminderInv, ReminderTypeOK, ClaimedFirst, SoleClaim, reminderVars, runVars, sentVars
  <2>2. CASE ReminderNext
    BY <2>2, SchedulerKeeps, TickKeeps, ClaimKeeps, RemindKeeps, RunEndKeeps
    DEF ReminderNext, RunStep
  <2>3. QED
    BY <2>1, <2>2
<1>3. QED
  BY <1>1, <1>2, PTL DEF ReminderSpec

\* Nobody is reminded twice within an hour, whatever catch-ups, timeouts, crashes and
\* late runs do, unless a run of that hour could not claim it (reminder.controller.ts).
THEOREM RemindedOnce == ReminderSpec => []OnePerHour
<1>1. ReminderInv => OnePerHour
  BY DEF ReminderInv, ReminderTypeOK, SoleClaim, OnePerHour
<1>2. QED
  BY <1>1, ReminderInvariance, PTL

-----------------------------------------------------------------------------
(* The connection to RabbitMQ                                              *)

USE LinksAssumption, ClientsAssumption

\* A process that starts is connecting, and has not subscribed.
LEMMA ExitKeeps ==
    ASSUME Exit
    PROVE  RabbitInv'
  <1>1. PICK f \in Links : link' = [l \in Links |-> IF l = f THEN "dialing" ELSE "closed"]
    BY DEF Exit, FreshLinks
  <1>2. /\ link' \in [Links -> {"closed", "dialing", "opening", "broken", "open", "closing"}]
        /\ link'[f] = "dialing"
    BY <1>1
  <1>3. boot' \in {"api", "starting"} /\ channel' = None /\ closing' = FALSE /\ unwatched' = FALSE
    BY DEF Exit
  <1> QED BY <1>2, <1>3 DEF RabbitInv, NeverStranded, KeepsConsuming, Queues

\* What connects, and what the events of a connection do, however old it is.
LEMMA ConnectingKeeps ==
    ASSUME RabbitInv, NEW l \in Links, Connecting(l)
    PROVE  RabbitInv'
  <1> USE DEF RabbitInv, KeepsConsuming
  <1>1. CASE TimerFires(l)
    <2>1. link'[l] = "dialing"
      BY <1>1 DEF TimerFires
    <2> QED BY <1>1, <2>1 DEF TimerFires, NeverStranded, worker
  <1>2. CASE Dialed(l)
    <2>1. link'[l] = "opening"
      BY <1>2 DEF Dialed
    <2> QED BY <1>2, <2>1 DEF Dialed, NeverStranded, worker
  <1>3. CASE ConnectFails(l)
    <2>1. reconnectTimer' \/ closing'
      BY <1>3 DEF ConnectFails, Schedule
    <2> QED BY <1>3, <2>1 DEF ConnectFails, NeverStranded, worker
  <1>4. CASE Opened(l)
    <2>1. Publishes'
      BY <1>4 DEF Opened, Publishes
    <2> QED BY <1>4, <2>1 DEF Opened, NeverStranded, worker
  <1>5. CASE CloseHandled(l)
    <2>1. CASE Exit
      BY <2>1, ExitKeeps
    <2>2. CASE ~Exit
      <3>1. reconnectTimer' \/ closing'
        BY <1>5, <2>2 DEF CloseHandled, Schedule
      <3> QED BY <1>5, <2>2, <3>1 DEF CloseHandled, NeverStranded, worker
    <2> QED BY <2>1, <2>2
  <1> QED BY <1>1, <1>2, <1>3, <1>4, <1>5 DEF Connecting

\* A loss leaves an event to come.
LEMMA BreaksToClosing ==
    ASSUME RabbitInv, NEW ls \in SUBSET Links, Broken(ls), UNCHANGED <<amqpVars, worker>>
    PROVE  RabbitInv'
  <1>1. /\ link' \in [Links -> {"closed", "dialing", "opening", "broken", "open", "closing"}]
        /\ \A l \in Links : link[l] \in {"dialing", "broken", "closing"} => link'[l] = link[l]
        /\ \A l \in Links : link[l] = "opening" => link'[l] \in {"opening", "broken"}
        /\ \A l \in Links : link[l] = "open" => link'[l] \in {"open", "closing"}
    BY DEF RabbitInv, Broken
  <1>2. NeverStranded'
    <2>1. CASE Publishes
      BY <1>1, <2>1 DEF RabbitInv, NeverStranded, Publishes, amqpVars
    <2>2. CASE ~Publishes
      <3>1. CASE reconnectTimer \/ closing
        BY <3>1 DEF NeverStranded, amqpVars
      <3>2. CASE \E l \in Links : link[l] \in {"dialing", "opening", "broken", "closing"}
        <4>1. PICK l \in Links : link[l] \in {"dialing", "opening", "broken", "closing"}
          BY <3>2
        <4>2. link'[l] \in {"dialing", "opening", "broken", "closing"}
          BY <1>1, <4>1
        <4> QED BY <4>2 DEF NeverStranded
      <3> QED BY <2>2, <3>1, <3>2 DEF RabbitInv, NeverStranded
    <2> QED BY <2>1, <2>2
  <1> QED BY <1>1, <1>2 DEF RabbitInv, KeepsConsuming, amqpVars, worker

\* The process and its consumers.
LEMMA WorkerKeeps ==
    ASSUME RabbitInv, Subscribing \/ (\E q \in Queues : ConsumerLost(q)) \/ Terminate \/ Disconnects
    PROVE  RabbitInv'
  <1> USE DEF RabbitInv
  <1>1. CASE Exit
    BY <1>1, ExitKeeps
  <1>2. CASE ~Exit /\ Starts
    BY <1>2 DEF Starts, NeverStranded, Publishes, KeepsConsuming, amqpVars
  <1>3. ASSUME NEW q \in Queues, ~Exit, StartConsumer(q)
        PROVE  RabbitInv'
    <2>1. /\ boot = q /\ consumers' = consumers \cup {q} /\ boot' = Following(q)
          /\ UNCHANGED <<link, amqpVars, unwatched>>
      BY <1>3 DEF StartConsumer
    <2>2. KeepsConsuming'
      BY <2>1 DEF KeepsConsuming, Following, Queues
    <2>3. boot' \in {"import", "watching"} /\ ~closing /\ closing' = closing
      BY <2>1 DEF Following, Queues, amqpVars
    <2>4. NeverStranded'
      BY <2>1 DEF NeverStranded, Publishes, amqpVars
    <2> QED BY <2>1, <2>2, <2>3, <2>4 DEF Queues, amqpVars
  <1>4. ASSUME NEW q \in Queues, ~Exit, ConsumerLost(q)
        PROVE  RabbitInv'
    <2>1. /\ ~(boot = "watching" /\ ~closing) /\ consumers' = consumers \ {q}
          /\ unwatched' = (unwatched \/ ~closing)
          /\ UNCHANGED <<link, amqpVars, boot>>
      BY <1>4 DEF ConsumerLost
    <2>2. KeepsConsuming'
      BY <2>1 DEF KeepsConsuming, amqpVars
    <2> QED BY <2>1, <2>2 DEF NeverStranded, Publishes, amqpVars
  <1>5. CASE ~Exit /\ Terminate
    BY <1>5 DEF Terminate, NeverStranded, KeepsConsuming, worker
  <1>6. CASE Disconnects
    BY <1>1, <1>6 DEF Disconnects
  <1> QED BY <1>1, <1>2, <1>3, <1>4, <1>5, <1>6 DEF Subscribing

\* Every step of a process and of the broker keeps the process connected or on its way.
THEOREM RabbitInvariance == RabbitSpec => []RabbitInv
  <1>1. RabbitInit => RabbitInv
    <2> SUFFICES ASSUME RabbitInit
                 PROVE  RabbitInv
      OBVIOUS
    <2>1. PICK f \in Links : link = [l \in Links |-> IF l = f THEN "dialing" ELSE "closed"]
      BY DEF RabbitInit, FreshLinks
    <2>2. /\ link \in [Links -> {"closed", "dialing", "opening", "broken", "open", "closing"}]
          /\ link[f] = "dialing"
      BY <2>1
    <2> QED BY <2>2 DEF RabbitInit, RabbitInv, NeverStranded, KeepsConsuming, Queues
  <1>2. RabbitInv /\ [RabbitNext]_rabbitVars => RabbitInv'
    <2> SUFFICES ASSUME RabbitInv, [RabbitNext]_rabbitVars
                 PROVE  RabbitInv'
      OBVIOUS
    <2>1. ASSUME NEW l \in Links, Connecting(l)
          PROVE  RabbitInv'
      BY <2>1, ConnectingKeeps
    <2>2. ASSUME NEW l \in Links, LinkBreaks(l)
          PROVE  RabbitInv'
      BY <2>2, BreaksToClosing DEF LinkBreaks
    <2>3. ASSUME NEW l \in Links, ChannelCloses(l)
          PROVE  RabbitInv'
      <3>1. CASE closing
        BY <2>3, <3>1 DEF ChannelCloses, RabbitInv, NeverStranded, KeepsConsuming, worker
      <3>2. CASE ~closing
        <4>1. link'[l] = "closing"
          BY <2>3, <3>2 DEF ChannelCloses, RabbitInv
        <4> QED
          BY <2>3, <3>2, <4>1 DEF ChannelCloses, RabbitInv, NeverStranded, KeepsConsuming, worker
      <3> QED BY <3>1, <3>2
    <2>4. CASE Subscribing \/ (\E q \in Queues : ConsumerLost(q)) \/ Terminate \/ Disconnects
      BY <2>4, WorkerKeeps
    <2>5. CASE BrokerStops
      BY <2>5, BreaksToClosing DEF BrokerStops
    <2>6. CASE BrokerStarts \/ UNCHANGED rabbitVars
      BY <2>6 DEF BrokerStarts, rabbitVars, RabbitInv, NeverStranded, Publishes, KeepsConsuming,
                  amqpVars, worker
    <2> QED BY <2>1, <2>2, <2>3, <2>4, <2>5, <2>6 DEF RabbitNext
  <1> QED BY <1>1, <1>2, PTL DEF RabbitSpec

\* The safety of the recovery of rabbitmq.service.ts: whatever events of older connections
\* come, the process publishes, is on its way to, or ends.
THEOREM AlwaysOnItsWay == RabbitSpec => [](NeverStranded /\ KeepsConsuming)
  <1>1. RabbitInv => NeverStranded /\ KeepsConsuming
    BY DEF RabbitInv
  <1> QED BY <1>1, RabbitInvariance, PTL

-----------------------------------------------------------------------------
(* The client of Redis                                                     *)

\* What every step leaves of the current client and of the one the watchdog waits for.
THEOREM RedisInvariance == RedisSpec => []RedisInv
  <1>1. RedisInit => RedisInv
    BY DEF RedisInit, RedisInv, CurrentIsKept
  <1>2. RedisInv /\ [RedisNext]_redisVars => RedisInv'
    <2> SUFFICES ASSUME RedisInv, [RedisNext]_redisVars
                 PROVE  RedisInv'
      OBVIOUS
    <2> USE DEF RedisInv, CurrentIsKept
    <2>1. ASSUME NEW c \in Clients, Ready(c)
          PROVE  RedisInv'
      BY <2>1 DEF Ready, FirstAttempt, IsCurrent
    <2>2. ASSUME NEW c \in Clients, Ended(c)
          PROVE  RedisInv'
      BY <2>2 DEF Ended, IsCurrent
    <2>3. ASSUME NEW c \in Clients, AttemptFails(c)
          PROVE  RedisInv'
      BY <2>3 DEF AttemptFails, FirstAttempt, IsCurrent
    <2>4. ASSUME NEW c \in Clients, Breaks(c)
          PROVE  RedisInv'
      BY <2>4 DEF Breaks, Disconnected, IsCurrent
    <2>5. ASSUME NEW c \in Clients, Stalls(c)
          PROVE  RedisInv'
      BY <2>5 DEF Stalls, clientVars
    <2>6. CASE CheckAlive \/ PingEnds
      BY <2>6 DEF CheckAlive, PingEnds
    <2>7. ASSUME NEW c \in Clients, PingTimesOut(c)
          PROVE  RedisInv'
      BY <2>7 DEF PingTimesOut
    <2>8. CASE ServerStops
      BY <2>8 DEF ServerStops, Disconnected
    <2>9. CASE ServerStarts \/ UNCHANGED redisVars
      BY <2>9 DEF ServerStarts, clientVars, redisVars
    <2>10. CASE Disconnect
      BY <2>10 DEF Disconnect
    <2> QED BY <2>1, <2>2, <2>3, <2>4, <2>5, <2>6, <2>7, <2>8, <2>9, <2>10
         DEF RedisNext, Library, Watchdog
  <1> QED BY <1>1, <1>2, PTL DEF RedisSpec

\* The events of a client that was replaced leave the current one alone, and a client that
\* stalls is one the watchdog pings (redis.service.ts:69-86, 106-123).
THEOREM OldClientsAreIgnored == RedisSpec => []CurrentIsKept
  <1>1. RedisInv => CurrentIsKept
    BY DEF RedisInv
  <1> QED BY <1>1, RedisInvariance, PTL
=============================================================================
