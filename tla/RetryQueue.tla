----------------------------- MODULE RetryQueue -----------------------------
(***************************************************************************)
(* One work queue of rabbitmq/retry-queue.ts, with its retry queue and its *)
(* failed queue, as the publishers and the consumers of the application    *)
(* see it.  A message is a copy <<j, n>>: the n-th publication of job j.   *)
(* A copy that is dead-lettered keeps its identity, as its x-death header  *)
(* keeps its count; a job that is published again is another copy.         *)
(*                                                                         *)
(* Queues are sets: a prefetch of one and several consumers already make   *)
(* the handling order arbitrary.  The operators below change broker state  *)
(* only; the modules that EXTEND this one conjoin them to the steps of     *)
(* their processes.                                                        *)
(***************************************************************************)
EXTENDS NoValue, FaultBudget

CONSTANTS Jobs,       \* jobs (imports, bulk adds, emails) published to the queue
          Workers,    \* worker processes: each consumes the queue
          MaxCopies,  \* modelling bound: publications of one job
          MaxRetries  \* RetryQueueConfig.maxRetries

ASSUME RetryQueueAssumption ==
    /\ MaxCopies \in Nat \ {0}
    /\ MaxRetries \in Nat

Copies == Jobs \X (1..MaxCopies)
JobOf(c) == c[1]

ASSUME NoneAssumption == None \notin Jobs \cup Workers \cup Copies

VARIABLES place,        \* where each copy is
          deaths,       \* x-death count of the rejections from the work queue
          redelivered,  \* copies whose redelivered flag is set
          parked        \* copies of which the failed queue holds a duplicate

queueVars == <<place, deaths, redelivered, parked>>

\* "wire": written to the socket, not yet seen by the broker; "held": with a
\* consumer, unacknowledged; "done": acknowledged.
Places == {"unsent", "wire", "lost", "work", "held", "retry", "done"}

QueueInit ==
    /\ place = [c \in Copies |-> "unsent"]
    /\ deaths = [c \in Copies |-> 0]
    /\ redelivered = {}
    /\ parked = {}

QueueTypeOK ==
    /\ place \in [Copies -> Places]
    /\ deaths \in [Copies -> Nat]
    /\ redelivered \in SUBSET Copies
    /\ parked \in SUBSET Copies

-----------------------------------------------------------------------------
\* The broker stored the copy (persistent, durable queues): it survives until
\* a consumer acknowledges it.
Accepted(c) == place[c] \in {"work", "held", "retry", "done"}

\* The copy may still reach a consumer.
InFlight(c) == place[c] \in {"wire", "work", "held", "retry"}

\* exhausted(): no retry left, reject() parks the message.
Exhausted(c) == deaths[c] >= MaxRetries

MoveCopy(c, from, to) ==
    /\ place[c] = from
    /\ place' = [place EXCEPT ![c] = to]

Send(c) == MoveCopy(c, "unsent", "wire") /\ UNCHANGED <<deaths, redelivered, parked>>

\* The broker enqueues the copy, possibly long after its publisher gave up.
BrokerAccepts(c) ==
    MoveCopy(c, "wire", "work") /\ UNCHANGED <<deaths, redelivered, parked>>

\* The connection dies, or the broker refuses the copy.
WireLoses(c) ==
    MoveCopy(c, "wire", "lost") /\ UNCHANGED <<deaths, redelivered, parked>>

Deliver(c) == MoveCopy(c, "work", "held") /\ UNCHANGED <<deaths, redelivered, parked>>

\* The copy leaves the broker.
Ack(c) ==
    /\ MoveCopy(c, "held", "done")
    /\ redelivered' = redelivered \ {c}
    /\ UNCHANGED <<deaths, parked>>

\* nack(msg, false, false): dead-lettered to the retry queue.  The copy is
\* published anew there, so its redelivered flag is gone.
Nack(c) ==
    /\ MoveCopy(c, "held", "retry")
    /\ deaths' = [deaths EXCEPT ![c] = @ + 1]
    /\ redelivered' = redelivered \ {c}

\* The retry TTL is over: back to the work queue.
RetryElapsed(c) ==
    MoveCopy(c, "retry", "work") /\ UNCHANGED <<deaths, redelivered, parked>>

\* The channel of the consumer closed before the ack.
RequeuedIn(S) ==
    /\ place' = [c \in Copies |-> IF c \in S THEN "work" ELSE place[c]]
    /\ redelivered' = redelivered \cup S
    /\ UNCHANGED <<deaths, parked>>

\* sendToQueue(failedQueue): the failed queue stores a copy of the message.
Park(c) == parked' = parked \cup {c}
=============================================================================
