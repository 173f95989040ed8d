--------------------------- MODULE RabbitConnection ---------------------------
(***************************************************************************)
(* rabbitmq.service.ts in the API or in the worker: one current connection *)
(* and channel, replaced after a loss by a reconnectTimer, while the       *)
(* events of the connections before it are still to come.  worker.ts       *)
(* subscribes two consumers and exits when it is told that the connection  *)
(* is lost; the platform starts it again, as it does after it stopped a    *)
(* process in order.                                                       *)
(***************************************************************************)
EXTENDS NoValue, FaultBudget

CONSTANT Links  \* connections a process may hold at once

ASSUME LinksAssumption == None \notin Links

VARIABLES broker,      \* RabbitMQ answers
          link,        \* what each connection does
          connection,  \* this.connection
          channel,     \* the connection this.channel belongs to
          ready,
          reconnectTimer,  \* is set
          closing,
          boot,        \* of worker.ts, or "api"
          consumers,   \* queues the worker still consumes
          unwatched    \* a consumer was lost before worker.ts:40

amqpVars == <<connection, channel, ready, reconnectTimer, closing>>
worker == <<boot, consumers, unwatched>>
rabbitVars == <<broker, link, amqpVars, worker, faults>>

Queues == {"email", "import"}

\* onApplicationBootstrap() of a fresh process starts to connect.
FreshLinks == {[l \in Links |-> IF l = f THEN "dialing" ELSE "closed"] : f \in Links}

RabbitInit ==
    /\ broker = TRUE
    /\ link \in FreshLinks
    /\ connection = None
    /\ channel = None
    /\ ready = FALSE
    /\ reconnectTimer = FALSE
    /\ closing = FALSE
    /\ boot \in {"api", "starting"}
    /\ consumers = {}
    /\ unwatched = FALSE
    /\ faults = 0

\* The process exits, and a new one starts.
Exit ==
    /\ link' \in FreshLinks
    /\ connection' = None
    /\ channel' = None
    /\ ready' = FALSE
    /\ reconnectTimer' = FALSE
    /\ closing' = FALSE
    /\ boot' = IF boot = "api" THEN "api" ELSE "starting"
    /\ consumers' = {}
    /\ unwatched' = FALSE

\* Mutant of Schedule: only after the loss of a connection.
ScheduleIfLost == reconnectTimer' = (reconnectTimer \/ connection # None)

\* scheduleReconnect(), not once the process is closing.
Schedule == reconnectTimer' = (reconnectTimer \/ ~closing)

\* connect() after 5 s.
TimerFires(l) ==
    /\ reconnectTimer
    /\ link[l] = "closed"
    /\ reconnectTimer' = FALSE
    /\ link' = [link EXCEPT ![l] = "dialing"]
    /\ NoFault
    /\ UNCHANGED <<broker, connection, channel, ready, closing, worker>>

\* amqp.connect() resolves; its channel is being opened.
Dialed(l) ==
    /\ link[l] = "dialing"
    /\ broker
    /\ link' = [link EXCEPT ![l] = "opening"]
    /\ connection' = l
    /\ NoFault
    /\ UNCHANGED <<broker, channel, ready, reconnectTimer, closing, worker>>

\* The catch of connect(): a connection that was made is closed.
ConnectFails(l) ==
    /\ \/ /\ link[l] = "dialing" /\ ~broker
          /\ link' = [link EXCEPT ![l] = "closed"]
       \/ /\ link[l] = "broken"
          /\ link' = [link EXCEPT ![l] = "closing"]
    /\ ready' = FALSE
    /\ Schedule
    /\ NoFault
    /\ UNCHANGED <<broker, connection, channel, closing, worker>>

\* openChannel() resolves, its topologies asserted.
Opened(l) ==
    /\ link[l] = "opening"
    /\ link' = [link EXCEPT ![l] = "open"]
    /\ channel' = l
    /\ ready' = TRUE
    /\ NoFault
    /\ UNCHANGED <<broker, connection, reconnectTimer, closing, worker>>

\* The 'close' event of a connection, however old.
CloseHandled(l) ==
    /\ link[l] = "closing"
    /\ NoFault
    /\ UNCHANGED broker
    /\ IF boot = "watching" /\ ~closing
       THEN Exit
       ELSE /\ link' = [link EXCEPT ![l] = "closed"]
            /\ connection' = None
            /\ channel' = None
            /\ ready' = FALSE
            /\ Schedule
            /\ UNCHANGED <<closing, worker>>

Broken(ls) ==
    link' = [l \in Links |->
                IF l \notin ls THEN link[l]
                ELSE CASE link[l] = "opening" -> "broken"
                       [] link[l] = "open" -> "closing"
                       [] OTHER -> link[l]]

BrokerStops ==
    /\ broker
    /\ Fault
    /\ broker' = FALSE
    /\ Broken(Links)
    /\ UNCHANGED <<amqpVars, worker>>

BrokerStarts ==
    /\ ~broker
    /\ broker' = TRUE
    /\ NoFault
    /\ UNCHANGED <<link, amqpVars, worker>>

LinkBreaks(l) ==
    /\ link[l] \in {"opening", "open"}
    /\ Fault
    /\ Broken({l})
    /\ UNCHANGED <<broker, amqpVars, worker>>

\* The 'close' event of the main channel: the connection is closed too, unless it is about
\* to be.
ChannelCloses(l) ==
    /\ channel = l
    /\ link[l] = "open"
    /\ Fault
    /\ channel' = None
    /\ ready' = FALSE
    /\ link' = IF closing THEN link ELSE [link EXCEPT ![l] = "closing"]
    /\ UNCHANGED <<broker, connection, reconnectTimer, closing, worker>>

\* bootstrap() of the worker, once the first attempt has settled.
Starts ==
    /\ boot = "starting"
    /\ \A l \in Links : link[l] \notin {"dialing", "opening", "broken"}
    /\ NoFault
    /\ UNCHANGED broker
    /\ \/ ~ready /\ Exit
       \/ /\ ready
          /\ boot' = "email"
          /\ UNCHANGED <<link, amqpVars, consumers, unwatched>>

Following(q) == IF q = "email" THEN "import" ELSE "watching"

\* startConsumer() of each queue in turn; it throws without a connection.
StartConsumer(q) ==
    /\ boot = q
    /\ NoFault
    /\ UNCHANGED broker
    /\ IF connection # None /\ link[connection] = "open"
       THEN /\ consumers' = consumers \cup {q}
            /\ boot' = Following(q)
            /\ UNCHANGED <<link, amqpVars, unwatched>>
       ELSE Exit

\* lost(): the channel of one consumer closes, or the broker cancels it.
ConsumerLost(q) ==
    /\ q \in consumers
    /\ Fault
    /\ UNCHANGED broker
    /\ IF boot = "watching" /\ ~closing
       THEN Exit
       ELSE /\ consumers' = consumers \ {q}
            /\ unwatched' = (unwatched \/ ~closing)
            /\ UNCHANGED <<link, amqpVars, boot>>

\* SIGTERM: worker.ts stops its consumers and waits for what they handle; while it starts,
\* nothing handles the signal.
Terminate ==
    /\ ~closing
    /\ Fault
    /\ UNCHANGED broker
    /\ IF boot \in {"api", "watching"}
       THEN /\ closing' = TRUE
            /\ UNCHANGED <<link, connection, channel, ready, reconnectTimer, worker>>
       ELSE Exit

\* disconnect(), at the latest when DRAIN_TIMEOUT_MS are over.
Disconnects ==
    /\ closing
    /\ NoFault
    /\ UNCHANGED broker
    /\ Exit

Connecting(l) == TimerFires(l) \/ Dialed(l) \/ ConnectFails(l) \/ Opened(l) \/ CloseHandled(l)

Subscribing == Starts \/ \E q \in Queues : StartConsumer(q)

RabbitNext ==
    \/ \E l \in Links : Connecting(l) \/ LinkBreaks(l) \/ ChannelCloses(l)
    \/ Subscribing
    \/ \E q \in Queues : ConsumerLost(q)
    \/ Terminate \/ Disconnects
    \/ BrokerStops \/ BrokerStarts

RabbitSpec == RabbitInit /\ [][RabbitNext]_rabbitVars

\* Timers fire, attempts end, events are delivered, what stops has stopped and the broker
\* comes back.
RabbitFairness ==
    /\ \A l \in Links : WF_rabbitVars(Dialed(l) \/ ConnectFails(l) \/ Opened(l) \/ CloseHandled(l))
    /\ WF_rabbitVars(\E l \in Links : TimerFires(l))
    /\ WF_rabbitVars(Subscribing)
    /\ WF_rabbitVars(Disconnects)
    /\ WF_rabbitVars(BrokerStarts)

RabbitFairSpec == RabbitSpec /\ RabbitFairness

-----------------------------------------------------------------------------
(* Properties                                                              *)

Publishes == ready /\ channel # None /\ link[channel] = "open"

Consumes == boot = "watching" /\ (consumers = Queues \/ unwatched)

\* After its last fault a process publishes again, and a worker consumes both
\* queues again, whatever late events of older connections it meets
\* (rabbitmq.service.ts:88-107), unless it lost a consumer while it started.
RabbitWorks == Publishes /\ (boot # "api" => Consumes)
RabbitRecovers == <>[]RabbitWorks

-----------------------------------------------------------------------------
(* What it rests on                                                        *)

\* A process that does not publish is not stranded: an attempt is under way, the event of a
\* loss is to come, a timer will try again, or the process ends (rabbitmq.service.ts:72-107).
NeverStranded ==
    \/ Publishes
    \/ \E l \in Links : link[l] \in {"dialing", "opening", "broken", "closing"}
    \/ reconnectTimer
    \/ closing

\* A worker that watches its consumers has both of them, unless it lost one while it
\* started (worker.ts:40) or it ends.
KeepsConsuming ==
    /\ boot = "import" => "email" \in consumers \/ unwatched
    /\ boot = "watching" => Queues \subseteq consumers \/ unwatched \/ closing

RabbitInv ==
    /\ link \in [Links -> {"closed", "dialing", "opening", "broken", "open", "closing"}]
    /\ channel \in Links \cup {None}
    /\ closing \in BOOLEAN /\ unwatched \in BOOLEAN
    /\ closing => boot \in {"api", "watching"}
    /\ NeverStranded /\ KeepsConsuming
=============================================================================
