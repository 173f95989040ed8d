----------------------------- MODULE MCRecovery -----------------------------
(***************************************************************************)
(* The components that have to recover from faults, checked in one run:    *)
(* the email queue, the circuit breaker, the reminders and the connections *)
(* to RabbitMQ and Redis.  They share no variable but the budget of        *)
(* faults: interleaving them would only multiply their states, so a        *)
(* behaviour moves one of them, its part, and leaves the others as they    *)
(* start.                                                                  *)
(***************************************************************************)
EXTENDS EmailQueue, CircuitBreaker, Reminders, RabbitConnection, RedisConnection

VARIABLE part  \* the component that moves

Parts == {"email", "breaker", "reminders", "rabbit", "redis"}

emailOwn == <<requestVars, workerVars, mailVars, queueVars>>
rabbitOwn == <<broker, link, amqpVars, worker>>
redisOwn == <<redisUp, socket, clientVars>>
partVars == <<part, vars, circuitVars, reminderVars, rabbitOwn, redisOwn>>

\* Where a component may start in several ways, it takes one while it rests.
Rests(p, start) == part = p \/ start

RecoveryInit ==
    /\ part \in Parts
    /\ Init
    /\ BreakerInit
    /\ ReminderInit /\ Rests("reminders", hour = 0 /\ age = None)
    /\ RabbitInit /\ Rests("rabbit", boot = "api" /\ link = CHOOSE l \in FreshLinks : TRUE)
    /\ RedisInit /\ Rests("redis", client = CHOOSE c \in Clients : TRUE)

\* Only p moves, with a budget of faults of its own.
Only(p) ==
    /\ part = p
    /\ UNCHANGED part
    /\ IF p = "email" THEN TRUE ELSE UNCHANGED emailOwn
    /\ IF p = "breaker" THEN TRUE ELSE UNCHANGED <<breakerVars, callVars, up>>
    /\ IF p = "reminders" THEN TRUE
       ELSE UNCHANGED <<clockVars, redis, process, waiting, runVars, sentVars>>
    /\ IF p = "rabbit" THEN TRUE ELSE UNCHANGED rabbitOwn
    /\ IF p = "redis" THEN TRUE ELSE UNCHANGED redisOwn
Within(n) == faults' <= n

RecoveryNext ==
    \/ Only("email") /\ Next /\ Within(5)
    \/ Only("breaker") /\ BreakerNext /\ Within(2)
    \/ Only("reminders") /\ ReminderNext /\ Within(2)
    \/ Only("rabbit") /\ RabbitNext /\ Within(3)
    \/ Only("redis") /\ RedisNext /\ Within(3)

\* The fairness of each component, for the behaviours that move it.
RecoveryFairness ==
    /\ \A j \in Jobs : /\ WF_vars(Only("email") /\ SendDirectly(j))
                       /\ WF_vars(Only("email") /\ MarkDirect(j))
    /\ \A w \in Workers : WF_vars(Only("email") /\ WorkerStep(w))
    /\ \A c \in Copies : WF_vars(Only("email") /\ BrokerTakes(c))
    /\ \A c \in Calls : /\ WF_circuitVars(Only("breaker") /\ Run(c))
                        /\ WF_circuitVars(Only("breaker") /\ Admit(c))
    /\ WF_circuitVars(Only("breaker") /\ ResetTimeout)
    /\ WF_reminderVars(Only("reminders") /\ Scheduler)
    /\ WF_reminderVars(Only("reminders") /\ Tick)
    /\ \A r \in Runs : WF_reminderVars(Only("reminders") /\ RunStep(r))
    /\ WF_reminderVars(Only("reminders") /\ RedisComesBack)
    /\ \A l \in Links :
         WF_rabbitVars(Only("rabbit") /\ (Dialed(l) \/ ConnectFails(l) \/ Opened(l) \/ CloseHandled(l)))
    /\ WF_rabbitVars(Only("rabbit") /\ \E l \in Links : TimerFires(l))
    /\ WF_rabbitVars(Only("rabbit") /\ Subscribing)
    /\ WF_rabbitVars(Only("rabbit") /\ Disconnects)
    /\ WF_rabbitVars(Only("rabbit") /\ BrokerStarts)
    /\ \A c \in Clients : WF_redisVars(Only("redis") /\ Library(c))
    /\ WF_redisVars(Only("redis") /\ PingEnds)
    /\ WF_redisVars(Only("redis") /\ \E c \in Clients : PingTimesOut(c))
    /\ WF_redisVars(Only("redis") /\ CheckAlive)
    /\ WF_redisVars(Only("redis") /\ ServerStarts)

RecoverySpec == RecoveryInit /\ [][RecoveryNext]_partVars /\ RecoveryFairness

-----------------------------------------------------------------------------
\* Where the reminders are what moves, users go on being reminded
\* (scheduler.service.ts:96).
Reminding == part = "reminders" => RemindedAgain

\* Where a connection is what moves, it comes back and stays
\* (rabbitmq.service.ts:88-107, redis.service.ts:69-86).
ConnectionsComeBack == <>[](/\ part = "rabbit" => RabbitWorks
                            /\ part = "redis" => RedisWorks)
=============================================================================
