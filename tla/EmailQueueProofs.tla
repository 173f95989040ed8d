-------------------------- MODULE EmailQueueProofs --------------------------
(***************************************************************************)
(* Proofs about the emails of EmailQueue.tla, for any number of emails,    *)
(* workers, retries and faults.                                            *)
(***************************************************************************)
EXTENDS EmailQueue, TLAPS

USE MaxFaultsAssumption, RetryQueueAssumption, NoneAssumption, EmailAssumption

\* An email has one copy, which it is the email of.
LEMMA CopyFacts ==
    /\ \A j \in Jobs : CopyOf(j) \in Copies /\ JobOf(CopyOf(j)) = j
    /\ \A c \in Copies : JobOf(c) \in Jobs /\ c = CopyOf(JobOf(c))
  BY DEF CopyOf, Copies, JobOf

-----------------------------------------------------------------------------
(* Type correctness                                                        *)

\* A step is a fault or not.
LEMMA FaultType ==
    ASSUME TypeOK, Fault \/ NoFault
    PROVE  faults' \in 0..MaxFaults
  <1>1. faults \in 0..MaxFaults
    BY DEF TypeOK
  <1>2. (faults < MaxFaults /\ faults' = faults + 1) \/ faults' = faults
    BY DEF Fault, NoFault
  <1> QED BY <1>1, <1>2

\* What an attempt of SES does to the counts.
LEMMA SesType ==
    ASSUME TypeOK, NEW j \in Jobs, SendsEmail(j) \/ SesErrors(j)
    PROVE  /\ accepted' \in [Jobs -> Nat]
           /\ presumed' \in SUBSET Jobs
           /\ Fault \/ NoFault
           /\ \A i \in Jobs : Sent(i) => Sent(i)'
           /\ SendsEmail(j) => Sent(j)'
  <1>1. accepted \in [Jobs -> Nat] /\ presumed \in SUBSET Jobs
    BY DEF TypeOK
  <1>2. accepted' = [accepted EXCEPT ![j] = @ + 1] \/ accepted' = accepted
    BY DEF SendsEmail, SesAccepts, SesTimesOut, SesErrors
  <1>3. presumed' = presumed \cup {j} \/ presumed' = presumed
    BY DEF SendsEmail, SesAccepts, SesTimesOut, SesErrors
  <1>4. Fault \/ NoFault
    BY DEF SendsEmail, SesAccepts, SesTimesOut, SesErrors
  <1>5. \A i \in Jobs : Sent(i) => Sent(i)'
    BY <1>1, <1>2, <1>3 DEF Sent
  <1>6. SendsEmail(j) => Sent(j)'
    BY <1>1 DEF SendsEmail, SesAccepts, SesTimesOut, Sent
  <1> QED BY <1>1, <1>2, <1>3, <1>4, <1>5, <1>6

\* Moving a copy keeps the types of the queues (retry-queue.ts).
LEMMA QueueType ==
    ASSUME QueueTypeOK, NEW c \in Copies,
           \/ Send(c) \/ BrokerAccepts(c) \/ WireLoses(c) \/ Deliver(c) \/ Ack(c) \/ RetryElapsed(c)
           \/ Nack(c) /\ parked' \in SUBSET Copies
           \/ Park(c) /\ UNCHANGED <<place, deaths, redelivered>>
    PROVE  QueueTypeOK'
  BY DEF QueueTypeOK, Send, BrokerAccepts, WireLoses, Deliver, Ack, RetryElapsed, Nack, Park,
         MoveCopy, Places

\* Every step keeps the types.
LEMMA StepType == TypeOK /\ [Next]_vars => TypeOK'
  <1> SUFFICES ASSUME TypeOK, [Next]_vars PROVE TypeOK'
    OBVIOUS
  <1> USE CopyFacts, FaultType DEF TypeOK, RequestSteps, WorkerSteps, requestVars, workerVars, mailVars
  <1>1. ASSUME NEW j \in Jobs, Publish(j) PROVE TypeOK'
    <2>1. QueueTypeOK'
      BY <1>1, QueueType DEF Publish
    <2> QED BY <1>1, <2>1 DEF Publish, RequestGoes
  <1>2. ASSUME NEW j \in Jobs, SkipPublish(j) \/ Confirmed(j) \/ Unconfirmed(j) \/ RequestDies(j)
        PROVE  TypeOK'
    <2>1. \E to \in RequestSteps : request' = [request EXCEPT ![j] = to]
      BY <1>2 DEF SkipPublish, Confirmed, Unconfirmed, RequestDies, RequestGoes
    <2>2. (Fault \/ NoFault) /\ UNCHANGED <<tries, workerVars, mailVars, queueVars>>
      BY <1>2 DEF SkipPublish, Confirmed, Unconfirmed, RequestDies
    <2> QED BY <2>1, <2>2 DEF queueVars, QueueTypeOK
  <1>3. ASSUME NEW j \in Jobs, SendDirectly(j) PROVE TypeOK'
    <2>1. SendsEmail(j)
      BY <1>3 DEF SendDirectly
    <2> QED BY <1>3, <2>1, SesType DEF SendDirectly, RequestGoes, queueVars, QueueTypeOK
  <1>4. ASSUME NEW j \in Jobs, DirectSendFails(j) PROVE TypeOK'
    <2>1. SesErrors(j) /\ UNCHANGED <<workerVars, dedup, queueVars>>
      BY <1>4 DEF DirectSendFails
    <2>2. tries' \in [Jobs -> 0..DirectRetries]
      BY <1>4 DEF DirectSendFails
    <2>3. request' \in [Jobs -> RequestSteps]
      BY <1>4 DEF DirectSendFails, RequestGoes
    <2> QED BY <2>1, <2>2, <2>3, SesType DEF queueVars, QueueTypeOK
  <1>5. ASSUME NEW j \in Jobs, MarkDirect(j) PROVE TypeOK'
    <2>1. dedup' \in SUBSET Jobs /\ (Fault \/ NoFault)
      BY <1>5 DEF MarkDirect, Mark
    <2> QED BY <1>5, <2>1 DEF MarkDirect, RequestGoes, queueVars, QueueTypeOK
  <1>6. ASSUME NEW w \in Workers, NEW c \in Copies, Receive(w, c) PROVE TypeOK'
    <2>1. QueueTypeOK'
      BY <1>6, QueueType DEF Receive
    <2> QED BY <1>6, <2>1 DEF Receive
  <1>7. ASSUME NEW w \in Workers, SkipDuplicate(w) \/ StartSending(w) PROVE TypeOK'
    <2>1. \E to \in WorkerSteps \ {"idle"} : step' = [step EXCEPT ![w] = to]
      BY <1>7 DEF SkipDuplicate, StartSending, WorkerGoes
    <2>2. step[w] # "idle" /\ (Fault \/ NoFault)
          /\ UNCHANGED <<handling, requestVars, mailVars, queueVars>>
      BY <1>7 DEF SkipDuplicate, StartSending, WorkerGoes
    <2> QED BY <2>1, <2>2 DEF queueVars, QueueTypeOK
  <1>8. ASSUME NEW w \in Workers, SendQueued(w) \/ QueuedSendFails(w) PROVE TypeOK'
    <2>1. \E to \in WorkerSteps \ {"idle"} : step' = [step EXCEPT ![w] = to]
      BY <1>8 DEF SendQueued, QueuedSendFails, WorkerGoes
    <2>2. step[w] # "idle" /\ UNCHANGED <<handling, requestVars, dedup, queueVars>>
      BY <1>8 DEF SendQueued, QueuedSendFails, WorkerGoes
    <2>3. EmailAt(w) \in Jobs /\ (SendsEmail(EmailAt(w)) \/ SesErrors(EmailAt(w)))
      BY <1>8, <2>2 DEF SendQueued, QueuedSendFails, EmailAt
    <2> QED BY <2>1, <2>2, <2>3, SesType DEF queueVars, QueueTypeOK
  <1>9. ASSUME NEW w \in Workers, MarkQueued(w) PROVE TypeOK'
    <2>1. EmailAt(w) \in Jobs
      BY <1>9 DEF MarkQueued, WorkerGoes, EmailAt
    <2>2. dedup' \in SUBSET Jobs /\ (Fault \/ NoFault)
      BY <1>9, <2>1 DEF MarkQueued, Mark
    <2> QED BY <1>9, <2>2 DEF MarkQueued, WorkerGoes, queueVars, QueueTypeOK
  <1>10. ASSUME NEW w \in Workers, AckCopy(w) \/ RejectCopy(w) \/ ParkUnconfirmed(w) PROVE TypeOK'
    <2>1. /\ handling[w] \in Copies
          /\ step' = [step EXCEPT ![w] = "idle"] /\ handling' = [handling EXCEPT ![w] = None]
          /\ (Fault \/ NoFault) /\ UNCHANGED <<requestVars, mailVars>>
      BY <1>10 DEF AckCopy, RejectCopy, ParkUnconfirmed, WorkerLeaves
    <2>2. Ack(handling[w]) \/ (Nack(handling[w]) /\ parked' \in SUBSET Copies)
      BY <1>10, <2>1 DEF AckCopy, RejectCopy, ParkUnconfirmed, Park, QueueTypeOK
    <2>3. QueueTypeOK'
      BY <2>1, <2>2, QueueType
    <2> QED BY <2>1, <2>3
  <1>11. ASSUME NEW w \in Workers, ParkConfirmed(w) PROVE TypeOK'
    <2>1. handling[w] \in Copies
      BY <1>11 DEF ParkConfirmed, WorkerGoes
    <2>2. QueueTypeOK'
      BY <1>11, <2>1, QueueType DEF ParkConfirmed
    <2> QED BY <1>11, <2>1, <2>2 DEF ParkConfirmed, WorkerGoes
  <1>12. ASSUME NEW w \in Workers, WorkerDies(w) PROVE TypeOK'
    <2>1. QueueTypeOK'
      BY <1>12 DEF WorkerDies, RequeuedIn, QueueTypeOK, Places
    <2> QED BY <1>12, <2>1 DEF WorkerDies
  <1>13. ASSUME NEW c \in Copies, BrokerTakes(c) \/ BrokerLoses(c) PROVE TypeOK'
    <2>1. QueueTypeOK'
      BY <1>13, QueueType DEF BrokerTakes, BrokerLoses
    <2> QED BY <1>13, <2>1 DEF BrokerTakes, BrokerLoses
  <1>14. CASE UNCHANGED vars
    BY <1>14 DEF vars, queueVars, QueueTypeOK
  <1> QED
    BY <1>1, <1>2, <1>3, <1>4, <1>5, <1>6, <1>7, <1>8, <1>9, <1>10, <1>11, <1>12, <1>13, <1>14
    DEF Next, RequestStep, RequestFault, WorkerStep, WorkerFault

\* Every variable keeps its type.
THEOREM TypeCorrect == Spec => []TypeOK
  <1>1. Init => TypeOK
    <2> SUFFICES ASSUME Init PROVE TypeOK
      OBVIOUS
    <2>1. tries \in [Jobs -> 0..DirectRetries] /\ faults \in 0..MaxFaults
      BY DEF Init
    <2> QED BY <2>1 DEF Init, QueueInit, TypeOK, QueueTypeOK, RequestSteps, WorkerSteps, Places
  <1> QED BY <1>1, StepType, PTL DEF Spec

-----------------------------------------------------------------------------
(* Nothing sent or parked is undone                                        *)

\* What was sent stays sent, and a copy that is kept stays so.
LEMMA KeptStays ==
    ASSUME TypeOK, [Next]_vars
    PROVE  /\ \A i \in Jobs : Sent(i) => Sent(i)'
           /\ parked \subseteq parked'
           /\ \A c \in Copies : Kept(c) => Kept(c)'
  <1> USE CopyFacts
  <1>1. \A i \in Jobs : Sent(i) => Sent(i)'
    <2>1. ASSUME NEW j \in Jobs, SendsEmail(j) \/ SesErrors(j) PROVE \A i \in Jobs : Sent(i) => Sent(i)'
      BY <2>1, SesType
    <2>2. ASSUME NEW j \in Jobs, SendDirectly(j) \/ DirectSendFails(j)
          PROVE  \A i \in Jobs : Sent(i) => Sent(i)'
      BY <2>1, <2>2 DEF SendDirectly, DirectSendFails
    <2>3. ASSUME NEW w \in Workers, SendQueued(w) \/ QueuedSendFails(w)
          PROVE  \A i \in Jobs : Sent(i) => Sent(i)'
      <3>1. EmailAt(w) \in Jobs /\ (SendsEmail(EmailAt(w)) \/ SesErrors(EmailAt(w)))
        BY <2>3 DEF SendQueued, QueuedSendFails, EmailAt, WorkerGoes, TypeOK
      <3> QED BY <2>1, <3>1
    <2>4. CASE UNCHANGED <<accepted, presumed>>
      BY <2>4 DEF Sent
    <2> QED
      BY <2>2, <2>3, <2>4
      DEF Next, RequestStep, RequestFault, WorkerStep, WorkerFault, Publish, SkipPublish, Confirmed,
          Unconfirmed, MarkDirect, RequestDies, Receive, SkipDuplicate, StartSending, MarkQueued,
          AckCopy, RejectCopy, ParkConfirmed, ParkUnconfirmed, WorkerDies, BrokerTakes, BrokerLoses,
          mailVars, vars
  <1>2. parked \subseteq parked'
    BY DEF Next, RequestStep, RequestFault, WorkerStep, WorkerFault, Publish, SkipPublish, Confirmed,
           Unconfirmed, SendDirectly, DirectSendFails, MarkDirect, RequestDies, Receive, SkipDuplicate,
           StartSending, SendQueued, QueuedSendFails, MarkQueued, AckCopy, RejectCopy, ParkConfirmed,
           ParkUnconfirmed, WorkerDies, BrokerTakes, BrokerLoses, Send, Deliver, Ack, Park, RequeuedIn,
           BrokerAccepts, RetryElapsed, WireLoses, queueVars, vars
  <1>3. \A c \in Copies : Kept(c) => Kept(c)'
    BY <1>1, <1>2 DEF Kept
  <1> QED BY <1>1, <1>2, <1>3

-----------------------------------------------------------------------------
\* A copy acknowledged is one whose worker was acknowledging.
LEMMA DoneStep ==
    ASSUME TypeOK, [Next]_vars, NEW c \in Copies, place'[c] = "done", place[c] # "done"
    PROVE  \E w \in Workers : step[w] = "acking" /\ handling[w] = c
  <1> USE CopyFacts DEF TypeOK, QueueTypeOK
  <1>1. ASSUME NEW w \in Workers, AckCopy(w)
        PROVE  \E u \in Workers : step[u] = "acking" /\ handling[u] = c
    <2>1. step[w] = "acking" /\ handling[w] \in Copies
      BY <1>1 DEF AckCopy, WorkerLeaves
    <2>2. place' = [place EXCEPT ![handling[w]] = "done"]
      BY <1>1 DEF AckCopy, Ack, MoveCopy
    <2> QED BY <2>1, <2>2
  <1>2. ASSUME NEW w \in Workers, RejectCopy(w) \/ ParkUnconfirmed(w) PROVE FALSE
    BY <1>2 DEF RejectCopy, ParkUnconfirmed, Nack, MoveCopy
  <1>3. ASSUME NEW w \in Workers, WorkerDies(w) PROVE FALSE
    BY <1>3 DEF WorkerDies, RequeuedIn
  <1>4. ASSUME NEW w \in Workers, NEW d \in Copies, Receive(w, d) PROVE FALSE
    BY <1>4 DEF Receive, Deliver, MoveCopy
  <1>5. ASSUME NEW d \in Copies, BrokerTakes(d) \/ BrokerLoses(d) PROVE FALSE
    BY <1>5 DEF BrokerTakes, BrokerLoses, BrokerAccepts, RetryElapsed, WireLoses, MoveCopy
  <1>6. ASSUME NEW j \in Jobs, Publish(j) PROVE FALSE
    BY <1>6 DEF Publish, Send, MoveCopy
  <1>7. CASE UNCHANGED place
    BY <1>7
  <1> QED
    BY <1>1, <1>2, <1>3, <1>4, <1>5, <1>6, <1>7
    DEF Next, RequestStep, RequestFault, WorkerStep, WorkerFault, SkipPublish, Confirmed, Unconfirmed,
        SendDirectly, DirectSendFails, MarkDirect, RequestDies, SkipDuplicate, StartSending, SendQueued,
        QueuedSendFails, MarkQueued, ParkConfirmed, queueVars, vars

\* Who turns to marking has sent; who turns to acknowledging has sent or parked.
LEMMA MarkingStep ==
    ASSUME IInv, [Next]_vars, NEW w \in Workers
    PROVE  /\ step'[w] = "marking" => Sent(EmailAt(w))'
           /\ step'[w] \in {"marking", "acking"} => Kept(handling[w])'
  <1> USE CopyFacts DEF IInv
  <1>0. TypeOK' /\ (\A i \in Jobs : Sent(i) => Sent(i)') /\ \A c \in Copies : Kept(c) => Kept(c)'
    BY StepType, KeptStays
  <1>1. CASE step'[w] = step[w] /\ handling'[w] = handling[w]
    <2>1. step[w] # "idle" => handling[w] \in Copies /\ EmailAt(w) \in Jobs
      BY DEF TypeOK, EmailAt
    <2>2. step[w] \in {"marking", "acking"} => Kept(handling[w])'
      <3> SUFFICES ASSUME step[w] \in {"marking", "acking"} PROVE Kept(handling[w])'
        OBVIOUS
      <3>1. handling[w] \in Copies /\ Kept(handling[w])
        BY <2>1 DEF AcksAreKept
      <3>2. handling'[w] = handling[w]
        BY <1>1
      <3>3. JobOf(handling[w]) \in Jobs
        BY <3>1
      <3>4. (Sent(JobOf(handling[w])))' \/ handling'[w] \in parked'
        BY <3>1, <3>2, <3>3, <1>0, KeptStays DEF Kept, JobOf, Sent
      <3> QED BY <3>4 DEF Kept
    <2>3. step[w] = "marking" => Sent(EmailAt(w))'
      BY <1>0, <1>1, <2>1 DEF AcksAreKept, EmailAt, JobOf, Sent
    <2> QED BY <1>1, <2>2, <2>3
  <1>2. CASE SendQueued(w)
    <2>1. /\ step[w] = "sending" /\ handling[w] \in Copies /\ EmailAt(w) \in Jobs
          /\ UNCHANGED handling
          /\ SendsEmail(EmailAt(w))
      BY <1>2 DEF SendQueued, WorkerGoes, EmailAt, TypeOK
    <2>2. Sent(EmailAt(w))'
      BY <2>1, SesType DEF EmailAt, JobOf, Sent
    <2> QED BY <2>2 DEF Kept, EmailAt
  <1>3. CASE SkipDuplicate(w) \/ MarkQueued(w)
    <2>1. handling[w] \in Copies /\ EmailAt(w) \in Jobs /\ UNCHANGED handling /\ step'[w] = "acking"
      BY <1>3 DEF SkipDuplicate, MarkQueued, WorkerGoes, EmailAt, TypeOK
    <2>2. Sent(EmailAt(w))
      BY <1>3, <2>1 DEF SkipDuplicate, MarkQueued, WorkerGoes, MarkedIsSent, AcksAreKept
    <2>3. Sent(EmailAt(w))'
      BY <1>0, <2>1, <2>2 DEF EmailAt, JobOf, Sent
    <2> QED BY <2>1, <2>3 DEF Kept, EmailAt
  <1>4. CASE ParkConfirmed(w)
    <2>1. handling[w] \in Copies /\ UNCHANGED handling /\ step'[w] = "acking" /\ handling[w] \in parked'
      BY <1>4 DEF ParkConfirmed, WorkerGoes, Park, TypeOK
    <2> QED BY <2>1 DEF Kept
  <1>5. CASE step'[w] \notin {"marking", "acking"}
    BY <1>5
  <1>6. \/ step'[w] = step[w] /\ handling'[w] = handling[w]
        \/ SendQueued(w) \/ SkipDuplicate(w) \/ MarkQueued(w) \/ ParkConfirmed(w)
        \/ step'[w] \notin {"marking", "acking"}
    <2>1. ASSUME NEW u \in Workers, WorkerStep(u) \/ WorkerFault(u)
          PROVE  \/ step'[w] = step[w] /\ handling'[w] = handling[w]
                 \/ SendQueued(w) \/ SkipDuplicate(w) \/ MarkQueued(w) \/ ParkConfirmed(w)
                 \/ step'[w] \notin {"marking", "acking"}
      <3>1. CASE u = w
        BY <2>1, <3>1 DEF WorkerStep, WorkerFault, Receive, StartSending, QueuedSendFails, AckCopy,
               RejectCopy, ParkUnconfirmed, WorkerDies, WorkerGoes, WorkerLeaves, TypeOK
      <3>2. CASE u # w
        BY <2>1, <3>2 DEF WorkerStep, WorkerFault, Receive, SkipDuplicate, StartSending, SendQueued,
               QueuedSendFails, MarkQueued, AckCopy, RejectCopy, ParkConfirmed, ParkUnconfirmed,
               WorkerDies, WorkerGoes, WorkerLeaves, TypeOK
      <3> QED BY <3>1, <3>2
    <2>2. CASE UNCHANGED workerVars
      BY <2>2 DEF workerVars
    <2> QED
      BY <2>1, <2>2 DEF Next, RequestStep, RequestFault, Publish, SkipPublish, Confirmed, Unconfirmed,
         SendDirectly, DirectSendFails, MarkDirect, RequestDies, BrokerTakes, BrokerLoses, workerVars, vars
  <1> QED BY <1>1, <1>2, <1>3, <1>4, <1>5, <1>6

-----------------------------------------------------------------------------
(* The invariant                                                           *)

\* A copy the broker has stays with it, or is acknowledged.
LEMMA PlaceStep ==
    ASSUME TypeOK, [Next]_vars, NEW c \in Copies, Accepted(c)
    PROVE  Accepted(c)'
  <1> USE DEF TypeOK, QueueTypeOK, Accepted
  <1>1. ASSUME NEW w \in Workers, AckCopy(w) \/ RejectCopy(w) \/ ParkUnconfirmed(w)
        PROVE  Accepted(c)'
    BY <1>1 DEF AckCopy, RejectCopy, ParkUnconfirmed, Ack, Nack, MoveCopy
  <1>2. ASSUME NEW w \in Workers, WorkerDies(w) PROVE Accepted(c)'
    BY <1>2 DEF WorkerDies, RequeuedIn
  <1>3. ASSUME NEW w \in Workers, NEW d \in Copies, Receive(w, d) PROVE Accepted(c)'
    BY <1>3 DEF Receive, Deliver, MoveCopy
  <1>4. ASSUME NEW d \in Copies, BrokerTakes(d) \/ BrokerLoses(d) PROVE Accepted(c)'
    BY <1>4 DEF BrokerTakes, BrokerLoses, BrokerAccepts, RetryElapsed, WireLoses, MoveCopy
  <1>5. ASSUME NEW j \in Jobs, Publish(j) PROVE Accepted(c)'
    BY <1>5 DEF Publish, Send, MoveCopy
  <1>6. CASE UNCHANGED place
    BY <1>6
  <1> QED
    BY <1>1, <1>2, <1>3, <1>4, <1>5, <1>6
    DEF Next, RequestStep, RequestFault, WorkerStep, WorkerFault, SkipPublish, Confirmed, Unconfirmed,
        SendDirectly, DirectSendFails, MarkDirect, RequestDies, SkipDuplicate, StartSending, SendQueued,
        QueuedSendFails, MarkQueued, ParkConfirmed, queueVars, vars

\* How a request comes to "marking" and to "taken".
LEMMA RequestMoves ==
    ASSUME TypeOK, [Next]_vars, NEW j \in Jobs
    PROVE  /\ request'[j] = "marking" => request[j] = "marking" \/ SendDirectly(j)
           /\ request'[j] = "taken" => request[j] = "taken" \/ Confirmed(j) \/ MarkDirect(j)
  <1>1. ASSUME NEW i \in Jobs, RequestStep(i) \/ RequestFault(i)
        PROVE  /\ request'[j] = "marking" => request[j] = "marking" \/ SendDirectly(j)
               /\ request'[j] = "taken" => request[j] = "taken" \/ Confirmed(j) \/ MarkDirect(j)
    <2>1. CASE i = j
      BY <1>1, <2>1 DEF RequestStep, RequestFault, Publish, SkipPublish, Unconfirmed, DirectSendFails,
             RequestDies, SendDirectly, Confirmed, MarkDirect, RequestGoes, TypeOK
    <2>2. CASE i # j
      <3>1. \E to \in RequestSteps : request' = [request EXCEPT ![i] = to]
        BY <1>1 DEF RequestStep, RequestFault, Publish, SkipPublish, Confirmed, Unconfirmed,
               SendDirectly, DirectSendFails, MarkDirect, RequestDies, RequestGoes, RequestSteps
      <3> QED BY <2>2, <3>1 DEF TypeOK
    <2> QED BY <2>1, <2>2
  <1>2. CASE UNCHANGED request
    BY <1>2
  <1> QED
    BY <1>1, <1>2
    DEF Next, WorkerStep, WorkerFault, Receive, SkipDuplicate, StartSending, SendQueued, QueuedSendFails,
        MarkQueued, AckCopy, RejectCopy, ParkConfirmed, ParkUnconfirmed, WorkerDies, BrokerTakes,
        BrokerLoses, requestVars, vars

\* The key of an email is written by a request or a worker that sent it.
LEMMA DedupMoves ==
    ASSUME TypeOK, [Next]_vars, NEW j \in dedup', j \notin dedup
    PROVE  /\ j \in Jobs
           /\ \/ request[j] = "marking"
              \/ \E w \in Workers : step[w] = "marking" /\ EmailAt(w) = j
  <1>1. j \in Jobs
    BY StepType DEF TypeOK
  <1>2. ASSUME NEW i \in Jobs, MarkDirect(i) PROVE request[j] = "marking"
    BY <1>2 DEF MarkDirect, Mark, RequestGoes
  <1>3. ASSUME NEW w \in Workers, MarkQueued(w) PROVE step[w] = "marking" /\ EmailAt(w) = j
    BY <1>3 DEF MarkQueued, Mark, WorkerGoes
  <1>4. CASE UNCHANGED dedup
    BY <1>4
  <1>5. \/ \E i \in Jobs : MarkDirect(i)
        \/ \E w \in Workers : MarkQueued(w)
        \/ UNCHANGED dedup
    BY DEF Next, RequestStep, RequestFault, WorkerStep, WorkerFault, Publish, SkipPublish, Confirmed,
           Unconfirmed, SendDirectly, DirectSendFails, RequestDies, Receive, SkipDuplicate, StartSending,
           SendQueued, QueuedSendFails, AckCopy, RejectCopy, ParkConfirmed, ParkUnconfirmed, WorkerDies,
           BrokerTakes, BrokerLoses, mailVars, vars
  <1> QED BY <1>1, <1>2, <1>3, <1>4, <1>5

\* Every step of a request, a worker or the broker keeps the invariant.
LEMMA InvStep == IInv /\ [Next]_vars => IInv'
  <1> SUFFICES ASSUME IInv, [Next]_vars PROVE IInv'
    OBVIOUS
  <1> USE CopyFacts
  <1>0. /\ TypeOK /\ TypeOK'
        /\ \A i \in Jobs : Sent(i) => Sent(i)'
        /\ \A c \in Copies : Kept(c) => Kept(c)'
        /\ parked \subseteq parked'
    BY StepType, KeptStays DEF IInv
  <1>1. \A c \in Copies : place'[c] = "done" => Kept(c)'
    <2> SUFFICES ASSUME NEW c \in Copies, place'[c] = "done" PROVE Kept(c)'
      OBVIOUS
    <2>1. CASE place[c] = "done"
      BY <1>0, <2>1 DEF IInv, AcksAreKept
    <2>2. CASE place[c] # "done"
      <3>1. PICK w \in Workers : step[w] = "acking" /\ handling[w] = c
        BY <1>0, <2>2, DoneStep
      <3> QED BY <1>0, <3>1 DEF IInv, AcksAreKept
    <2> QED BY <2>1, <2>2
  <1>2. \A w \in Workers :
          /\ step'[w] \in {"marking", "acking"} => Kept(handling[w])'
          /\ step'[w] = "marking" => Sent(EmailAt(w))'
    BY MarkingStep
  <1>3. \A j \in Jobs : request'[j] = "marking" => Sent(j)'
    <2> SUFFICES ASSUME NEW j \in Jobs, request'[j] = "marking" PROVE Sent(j)'
      OBVIOUS
    <2>1. request[j] = "marking" \/ SendDirectly(j)
      BY <1>0, RequestMoves
    <2>2. CASE request[j] = "marking"
      BY <1>0, <2>2 DEF IInv, AcksAreKept
    <2>3. CASE SendDirectly(j)
      BY <1>0, <2>3, SesType DEF SendDirectly
    <2> QED BY <2>1, <2>2, <2>3
  <1>4. MarkedIsSent'
    <2> SUFFICES ASSUME NEW j \in dedup' PROVE Sent(j)'
      BY DEF MarkedIsSent
    <2>1. CASE j \in dedup
      BY <1>0, <2>1 DEF IInv, MarkedIsSent, TypeOK
    <2>2. CASE j \notin dedup
      BY <1>0, <2>2, DedupMoves DEF IInv, AcksAreKept
    <2> QED BY <2>1, <2>2
  <1>5. NoEmailLost'
    <2> SUFFICES ASSUME NEW j \in Jobs, request'[j] = "taken"
                 PROVE  \/ Sent(j)'
                        \/ CopyOf(j) \in parked'
                        \/ place'[CopyOf(j)] \in {"work", "held", "retry"}
      BY DEF NoEmailLost, CopyOf
    <2>1. CopyOf(j) \in Copies
      OBVIOUS
    <2>2. CASE Accepted(CopyOf(j))
      <3>1. place'[CopyOf(j)] \in {"work", "held", "retry", "done"}
        BY <1>0, <2>1, <2>2, PlaceStep DEF Accepted, CopyOf
      <3>2. place'[CopyOf(j)] = "done" => Sent(j)' \/ CopyOf(j) \in parked'
        BY <1>1, <2>1 DEF Kept, CopyOf, JobOf, Sent
      <3> QED BY <3>1, <3>2
    <2>3. CASE Sent(j)
      BY <1>0, <2>3
    <2>4. CASE CopyOf(j) \in parked
      BY <1>0, <2>4
    <2>5. request[j] = "taken" \/ Confirmed(j) \/ MarkDirect(j)
      BY <1>0, RequestMoves
    <2>6. Confirmed(j) => Accepted(CopyOf(j))
      BY DEF Confirmed
    <2>7. MarkDirect(j) => Sent(j)
      BY DEF MarkDirect, RequestGoes, IInv, AcksAreKept
    <2>8. request[j] = "taken" => Sent(j) \/ CopyOf(j) \in parked \/ Accepted(CopyOf(j))
      BY DEF IInv, NoEmailLost, Accepted
    <2> QED BY <2>2, <2>3, <2>4, <2>5, <2>6, <2>7, <2>8
  <1>6. AcksAreKept'
    BY <1>1, <1>2, <1>3 DEF AcksAreKept
  <1> QED BY <1>0, <1>4, <1>5, <1>6 DEF IInv

\* An acknowledgement, a mark and an answer "queued" each follow a send or a
\* parked copy, whatever the order of the workers and of the request.
THEOREM Invariance == Spec => []IInv
  <1>1. Init => IInv
    <2> SUFFICES ASSUME Init PROVE IInv
      OBVIOUS
    <2>1. tries \in [Jobs -> 0..DirectRetries] /\ faults \in 0..MaxFaults
      BY DEF Init
    <2>2. TypeOK
      BY <2>1 DEF Init, QueueInit, TypeOK, QueueTypeOK, RequestSteps, WorkerSteps, Places
    <2> QED BY <2>2 DEF Init, QueueInit, IInv, AcksAreKept, MarkedIsSent, NoEmailLost
  <1> QED BY <1>1, InvStep, PTL DEF Spec

\* No email enqueue() answered true for is ever lost.
THEOREM EmailKept == Spec => []NoEmailLost
  <1>1. IInv => NoEmailLost
    BY DEF IInv
  <1> QED BY <1>1, Invariance, PTL

\* An email marked as sent was given to SES.
THEOREM MarksAreTrue == Spec => []MarkedIsSent
  <1>1. IInv => MarkedIsSent
    BY DEF IInv
  <1> QED BY <1>1, Invariance, PTL

-----------------------------------------------------------------------------
(* Every send beyond the first is paid for by a fault                      *)

\* A copy is with the one worker that handles it.
LEMMA HolderStep ==
    ASSUME TypeOK, OneHolder, [Next]_vars
    PROVE  OneHolder'
  <1> USE CopyFacts DEF TypeOK, QueueTypeOK, OneHolder
  <1>1. ASSUME NEW j \in Jobs, Publish(j) PROVE OneHolder'
    BY <1>1 DEF Publish, RequestGoes, Send, MoveCopy, workerVars, CopyOf
  <1>2. ASSUME NEW j \in Jobs, \/ SkipPublish(j) \/ Confirmed(j) \/ Unconfirmed(j) \/ RequestDies(j)
                               \/ SendDirectly(j) \/ DirectSendFails(j) \/ MarkDirect(j)
        PROVE  OneHolder'
    <2>1. \E to \in RequestSteps \ {"new"} : request' = [request EXCEPT ![j] = to]
      BY <1>2 DEF SkipPublish, Confirmed, Unconfirmed, RequestDies, SendDirectly, DirectSendFails,
             MarkDirect, RequestGoes, RequestSteps
    <2>2. UNCHANGED <<step, handling, place>>
      BY <1>2 DEF SkipPublish, Confirmed, Unconfirmed, RequestDies, SendDirectly, DirectSendFails,
             MarkDirect, workerVars, queueVars
    <2> QED BY <2>1, <2>2 DEF CopyOf
  <1>3. ASSUME NEW w \in Workers, NEW c \in Copies, Receive(w, c) PROVE OneHolder'
    <2>1. /\ place[c] = "work" /\ place' = [place EXCEPT ![c] = "held"]
          /\ step[w] = "idle" /\ step' = [step EXCEPT ![w] = "received"]
          /\ handling' = [handling EXCEPT ![w] = c] /\ request' = request
      BY <1>3 DEF Receive, Deliver, MoveCopy, requestVars
    <2> QED BY <2>1 DEF CopyOf
  <1>4. ASSUME NEW w \in Workers,
               \/ SkipDuplicate(w) \/ StartSending(w) \/ SendQueued(w) \/ QueuedSendFails(w)
               \/ MarkQueued(w) \/ ParkConfirmed(w)
        PROVE  OneHolder'
    <2>1. /\ step[w] # "idle"
          /\ \E to \in WorkerSteps : step' = [step EXCEPT ![w] = to]
          /\ UNCHANGED <<handling, request, place>>
      BY <1>4 DEF SkipDuplicate, StartSending, SendQueued, QueuedSendFails, MarkQueued, ParkConfirmed,
             WorkerGoes, WorkerSteps, requestVars, queueVars
    <2> QED BY <2>1 DEF CopyOf
  <1>5. ASSUME NEW w \in Workers, \/ AckCopy(w) \/ RejectCopy(w) \/ ParkUnconfirmed(w) \/ WorkerDies(w)
        PROVE  OneHolder'
    <2>1. /\ step[w] # "idle" /\ step' = [step EXCEPT ![w] = "idle"]
          /\ handling' = [handling EXCEPT ![w] = None] /\ request' = request
      BY <1>5 DEF AckCopy, RejectCopy, ParkUnconfirmed, WorkerDies, WorkerLeaves, requestVars
    <2>2. handling[w] \in Copies /\ place[handling[w]] = "held"
      BY <2>1
    <2>3. \A c \in Copies : c # handling[w] => place'[c] = place[c]
      BY <1>5, <2>2 DEF AckCopy, RejectCopy, ParkUnconfirmed, WorkerDies, Ack, Nack, MoveCopy, RequeuedIn
    <2>4. \A u \in Workers : step'[u] # "idle" => place'[handling'[u]] = "held"
      BY <2>1, <2>2, <2>3
    <2>5. \A j \in Jobs : request'[j] = "new" => place'[CopyOf(j)] = "unsent"
      BY <2>1, <2>2, <2>3
    <2> QED BY <2>1, <2>4, <2>5 DEF CopyOf
  <1>6. ASSUME NEW c \in Copies, BrokerTakes(c) \/ BrokerLoses(c) PROVE OneHolder'
    <2>1. /\ place[c] \in {"wire", "retry"}
          /\ \E to \in Places : place' = [place EXCEPT ![c] = to]
          /\ UNCHANGED <<step, handling, request>>
      BY <1>6 DEF BrokerTakes, BrokerLoses, BrokerAccepts, RetryElapsed, WireLoses, MoveCopy, Places,
             requestVars, workerVars
    <2> QED BY <2>1 DEF CopyOf
  <1>7. CASE UNCHANGED vars
    BY <1>7 DEF vars, requestVars, workerVars, queueVars, CopyOf
  <1> QED
    BY <1>1, <1>2, <1>3, <1>4, <1>5, <1>6, <1>7
    DEF Next, RequestStep, RequestFault, WorkerStep, WorkerFault

\* Without a fault no copy gains a send, and a worker that sent the email
\* leaves none behind.
LEMMA QueueCalms ==
    ASSUME TypeOK, OneHolder, [Next]_vars, NoFault, NEW j \in Jobs
    PROVE  /\ QueueWillSend(j)' => QueueWillSend(j)
           /\ \A w \in Workers : SendQueued(w) /\ EmailAt(w) = j =>
                 QueueWillSend(j) /\ ~QueueWillSend(j)'
  <1> DEFINE c == CopyOf(j)
             Has(w) == EmailAt(w) = j
             Goal == QueueWillSend(j)' => QueueWillSend(j)
  <1> USE CopyFacts DEF TypeOK, QueueTypeOK
  <1>0. /\ c \in Copies /\ JobOf(c) = j
        /\ \A w \in Workers : step[w] # "idle" =>
              handling[w] \in Copies /\ place[handling[w]] = "held" /\ (EmailAt(w) = j <=> handling[w] = c)
    BY DEF OneHolder, EmailAt
  <1>1. \A w \in Workers : step[w] # "idle" /\ EmailAt(w) = j => place[c] = "held"
    BY <1>0
  <1>2. ~Fault
    BY DEF Fault, NoFault
  <1>3. QueueWillSend(j)' <=>
          \/ request'[j] = "new"
          \/ place'[c] \in {"wire", "work", "retry"} /\ j \notin dedup'
          \/ \E w \in Workers :
                /\ step'[w] \in {"received", "sending", "rejecting"} /\ JobOf(handling'[w]) = j
                /\ step'[w] = "sending" \/ j \notin dedup'
    BY DEF QueueWillSend, EmailAt, CopyOf, JobOf
  <1>4. ASSUME NEW i \in Jobs, RequestStep(i) \/ RequestFault(i) PROVE Goal
    <2>1. /\ UNCHANGED <<step, handling>>
          /\ dedup \subseteq dedup'
          /\ request'[j] = "new" => request[j] = "new"
      BY <1>4 DEF RequestStep, RequestFault, Publish, SkipPublish, Confirmed, Unconfirmed, RequestDies,
             SendDirectly, DirectSendFails, MarkDirect, RequestGoes, workerVars, mailVars, Mark
    <2>2. place'[c] # place[c] => request[j] = "new"
      <3>1. CASE Publish(i)
        BY <1>0, <3>1 DEF Publish, RequestGoes, Send, MoveCopy
      <3>2. CASE UNCHANGED place
        BY <3>2
      <3> QED
        BY <1>4, <3>1, <3>2 DEF RequestStep, RequestFault, SkipPublish, Confirmed, Unconfirmed,
           RequestDies, SendDirectly, DirectSendFails, MarkDirect, queueVars
    <2> QED BY <1>3, <2>1, <2>2 DEF QueueWillSend, EmailAt
  <1>5. ASSUME NEW w \in Workers, NEW d \in Copies, Receive(w, d) PROVE Goal
    <2>1. /\ place[d] = "work" /\ place' = [place EXCEPT ![d] = "held"]
          /\ step[w] = "idle" /\ step' = [step EXCEPT ![w] = "received"]
          /\ handling' = [handling EXCEPT ![w] = d] /\ request' = request /\ dedup' = dedup
      BY <1>5 DEF Receive, Deliver, MoveCopy, requestVars, mailVars
    <2>2. JobOf(d) = j => d = c
      OBVIOUS
    <2> QED BY <1>0, <1>3, <2>1, <2>2 DEF QueueWillSend, EmailAt
  <1>6. ASSUME NEW w \in Workers, \/ SkipDuplicate(w) \/ StartSending(w) \/ SendQueued(w) \/ MarkQueued(w)
                                 \/ ParkConfirmed(w)
        PROVE  Goal
    <2>1. /\ UNCHANGED <<request, handling, place>> /\ dedup \subseteq dedup'
      BY <1>6 DEF SkipDuplicate, StartSending, SendQueued, MarkQueued, ParkConfirmed, WorkerGoes,
             requestVars, mailVars, queueVars, Mark
    <2>2. \A u \in Workers : u # w => step'[u] = step[u]
      BY <1>6 DEF SkipDuplicate, StartSending, SendQueued, MarkQueued, ParkConfirmed, WorkerGoes
    <2>3. step'[w] = "sending" => step[w] = "received" /\ EmailAt(w) \notin dedup
      BY <1>2, <1>6 DEF SkipDuplicate, StartSending, SendQueued, MarkQueued, ParkConfirmed, WorkerGoes
    <2>4. step'[w] \notin {"received", "rejecting"}
      BY <1>6 DEF SkipDuplicate, StartSending, SendQueued, MarkQueued, ParkConfirmed, WorkerGoes
    <2> QED BY <1>3, <2>1, <2>2, <2>3, <2>4 DEF QueueWillSend, EmailAt
  <1>7. ASSUME NEW w \in Workers, AckCopy(w) \/ RejectCopy(w) PROVE Goal
    <2>1. /\ step[w] \in {"acking", "rejecting"} /\ step' = [step EXCEPT ![w] = "idle"]
          /\ handling' = [handling EXCEPT ![w] = None] /\ request' = request /\ dedup' = dedup
      BY <1>7 DEF AckCopy, RejectCopy, WorkerLeaves, requestVars, mailVars
    <2>2. \A d \in Copies : d # handling[w] => place'[d] = place[d]
      BY <1>7 DEF AckCopy, RejectCopy, Ack, Nack, MoveCopy
    <2>3. place'[handling[w]] = "done" \/ step[w] = "rejecting"
      BY <1>0, <1>7, <2>1 DEF AckCopy, RejectCopy, Ack, Nack, MoveCopy, WorkerLeaves
    <2> QED BY <1>0, <1>3, <2>1, <2>2, <2>3 DEF QueueWillSend, EmailAt
  <1>8. ASSUME NEW w \in Workers, WorkerFault(w) PROVE FALSE
    BY <1>2, <1>8 DEF WorkerFault, QueuedSendFails, SesErrors, ParkUnconfirmed, WorkerDies
  <1>9. ASSUME NEW d \in Copies, BrokerTakes(d) \/ BrokerLoses(d) PROVE Goal
    <2>1. /\ place[d] \in {"wire", "retry"} /\ place' = [place EXCEPT ![d] = "work"]
          /\ UNCHANGED <<step, handling, request, dedup>>
      BY <1>2, <1>9 DEF BrokerTakes, BrokerLoses, BrokerAccepts, RetryElapsed, MoveCopy,
             requestVars, workerVars, mailVars
    <2> QED BY <1>0, <1>3, <2>1 DEF QueueWillSend, EmailAt
  <1>10. ASSUME UNCHANGED vars PROVE Goal
    <2>1. request' = request /\ step' = step /\ handling' = handling /\ place' = place /\ dedup' = dedup
      BY <1>10 DEF vars, requestVars, workerVars, queueVars, mailVars
    <2> QED BY <1>3, <2>1 DEF QueueWillSend, EmailAt
  <1>11. Goal
    BY <1>4, <1>5, <1>6, <1>7, <1>8, <1>9, <1>10 DEF Next, WorkerStep
  <1>12. ASSUME NEW w \in Workers, SendQueued(w), EmailAt(w) = j
         PROVE  QueueWillSend(j) /\ ~QueueWillSend(j)'
    <2>1. /\ step[w] = "sending" /\ step' = [step EXCEPT ![w] = "marking"]
          /\ UNCHANGED <<request, handling, place, dedup>>
      BY <1>12 DEF SendQueued, WorkerGoes, requestVars, queueVars
    <2>2. QueueWillSend(j)
      BY <1>12, <2>1 DEF QueueWillSend
    <2>3. request[j] # "new" /\ place[c] = "held"
      BY <1>1, <1>12, <2>1 DEF OneHolder
    <2>4. \A u \in Workers : u # w => step[u] = "idle" \/ EmailAt(u) # j
      BY <1>0, <1>12, <2>1 DEF OneHolder
    <2> QED BY <1>3, <2>1, <2>2, <2>3, <2>4 DEF EmailAt
  <1> QED BY <1>11, <1>12

\* What an attempt of SES costs.
LEMMA SesCosts ==
    ASSUME TypeOK, NEW j \in Jobs, SendsEmail(j) \/ SesErrors(j)
    PROVE  /\ \A i \in Jobs : i # j => accepted'[i] = accepted[i]
           /\ accepted'[j] = accepted[j] \/ accepted'[j] = accepted[j] + 1
           /\ SesErrors(j) => faults' = faults + 1
           /\ faults' = faults \/ faults' = faults + 1
  <1>1. accepted \in [Jobs -> Nat]
    BY DEF TypeOK
  <1>2. accepted' = [accepted EXCEPT ![j] = @ + 1] \/ accepted' = accepted
    BY DEF SendsEmail, SesAccepts, SesTimesOut, SesErrors
  <1>3. (faults' = faults \/ faults' = faults + 1) /\ (SesErrors(j) => faults' = faults + 1)
    BY DEF SendsEmail, SesAccepts, SesTimesOut, SesErrors, Fault, NoFault
  <1> QED BY <1>1, <1>2, <1>3

\* A step without a fault sends an email only where a send was due; a fault
\* sends it once more at most, or makes one more send due.
LEMMA SendStep ==
    ASSUME TypeOK, OneHolder, [Next]_vars, NEW j \in Jobs
    PROVE  accepted'[j] + SendsDue(j)' <= accepted[j] + SendsDue(j) + (faults' - faults)
  <1> DEFINE Goal == accepted'[j] + SendsDue(j)' <= accepted[j] + SendsDue(j) + (faults' - faults)
  <1> USE CopyFacts
  <1>0. /\ accepted[j] \in Nat /\ faults \in Nat /\ request \in [Jobs -> RequestSteps]
    BY DEF TypeOK
  <1>1. SendsDue(j)' = (IF QueueWillSend(j)' THEN 1 ELSE 0) + (IF request'[j] = "direct" THEN 1 ELSE 0)
    BY DEF SendsDue
  <1>2. faults' = faults => (QueueWillSend(j)' => QueueWillSend(j))
    BY QueueCalms DEF NoFault
  \* Neither the email nor its request moves.
  <1>3. CASE /\ accepted'[j] = accepted[j]
             /\ request'[j] = "direct" => request[j] = "direct"
             /\ faults' = faults \/ faults' = faults + 1
    <2>1. faults' = faults \/ faults' = faults + 1
      BY <1>3
    <2>2. faults' = faults => SendsDue(j)' <= SendsDue(j)
      BY <1>1, <1>2, <1>3 DEF SendsDue
    <2>3. SendsDue(j)' <= SendsDue(j) + 1 /\ SendsDue(j) \in Nat /\ SendsDue(j)' \in Nat
      BY <1>1, <1>3 DEF SendsDue
    <2> QED BY <1>0, <1>3, <2>1, <2>2, <2>3
  <1>4. ASSUME NEW i \in Jobs, RequestStep(i) \/ RequestFault(i) PROVE Goal
    <2>1. CASE Publish(i) \/ Confirmed(i) \/ MarkDirect(i) \/ RequestDies(i)
      <3>1. accepted' = accepted /\ (faults' = faults \/ faults' = faults + 1)
        BY <2>1 DEF Publish, Confirmed, MarkDirect, RequestDies, Mark, mailVars, Fault, NoFault
      <3>2. request'[j] = "direct" => request[j] = "direct"
        BY <1>0, <2>1 DEF Publish, Confirmed, MarkDirect, RequestDies, RequestGoes
      <3> QED BY <1>3, <3>1, <3>2
    <2>2. CASE SkipPublish(i) \/ Unconfirmed(i)
      <3>1. /\ accepted' = accepted /\ faults' = faults + 1
            /\ UNCHANGED <<place, dedup, step, handling>>
        BY <2>2 DEF SkipPublish, Unconfirmed, Fault, mailVars, queueVars, workerVars
      <3>2. /\ request[i] \in {"new", "publishing"}
            /\ request' = [request EXCEPT ![i] = "direct"]
        BY <2>2 DEF SkipPublish, Unconfirmed, RequestGoes
      <3>3. request'[j] = "new" => request[j] = "new"
        BY <1>0, <3>2
      <3>4. QueueWillSend(j)' => QueueWillSend(j)
        BY <3>1, <3>3 DEF QueueWillSend, EmailAt, CopyOf, JobOf
      <3> QED BY <1>0, <1>1, <3>1, <3>4 DEF SendsDue
    <2>3. CASE SendDirectly(i)
      <3>1. SendsEmail(i) /\ request[i] = "direct" /\ request' = [request EXCEPT ![i] = "marking"]
        BY <2>3 DEF SendDirectly, RequestGoes
      <3>2. /\ i # j => accepted'[j] = accepted[j] /\ request'[j] = request[j]
            /\ i = j => request[j] = "direct" /\ request'[j] = "marking"
            /\ accepted'[j] = accepted[j] \/ accepted'[j] = accepted[j] + 1
            /\ faults' = faults \/ faults' = faults + 1
        BY <1>0, <3>1, SesCosts
      <3> QED BY <1>0, <1>1, <1>2, <3>2 DEF SendsDue
    <2>4. CASE DirectSendFails(i)
      <3>1. /\ SesErrors(i)
            /\ UNCHANGED <<place, dedup, step, handling>>
        BY <2>4 DEF DirectSendFails, queueVars, workerVars
      <3>2. /\ request[i] = "direct"
            /\ \E to \in {"direct", "refused"} : request' = [request EXCEPT ![i] = to]
        BY <2>4 DEF DirectSendFails, RequestGoes
      <3>3. /\ request'[j] = "new" => request[j] = "new"
            /\ request'[j] = "direct" => request[j] = "direct"
        BY <1>0, <3>2
      <3>4. QueueWillSend(j)' => QueueWillSend(j)
        BY <3>1, <3>3 DEF QueueWillSend, EmailAt, CopyOf, JobOf
      <3>5. /\ accepted'[j] = accepted[j] \/ accepted'[j] = accepted[j] + 1
            /\ faults' = faults + 1
        BY <3>1, SesCosts
      <3> QED BY <1>0, <1>1, <3>3, <3>4, <3>5 DEF SendsDue
    <2> QED BY <1>4, <2>1, <2>2, <2>3, <2>4 DEF RequestStep, RequestFault
  <1>5. ASSUME NEW w \in Workers, SendQueued(w) \/ QueuedSendFails(w) PROVE Goal
    <2>1. /\ EmailAt(w) \in Jobs /\ step[w] = "sending" /\ request' = request
          /\ SendsEmail(EmailAt(w)) \/ SesErrors(EmailAt(w))
          /\ QueuedSendFails(w) => SesErrors(EmailAt(w))
      BY <1>5 DEF SendQueued, QueuedSendFails, WorkerGoes, EmailAt, TypeOK, requestVars
    <2>2. /\ EmailAt(w) # j => accepted'[j] = accepted[j]
          /\ accepted'[j] = accepted[j] \/ accepted'[j] = accepted[j] + 1
          /\ faults' = faults \/ faults' = faults + 1
          /\ QueuedSendFails(w) => faults' = faults + 1
      BY <2>1, SesCosts
    <2>3. CASE EmailAt(w) # j
      BY <1>3, <2>1, <2>2, <2>3
    <2>4. CASE EmailAt(w) = j
      <3>1. QueueWillSend(j)
        BY <2>1, <2>4 DEF QueueWillSend
      <3>2. faults' = faults => ~QueueWillSend(j)'
        BY <1>0, <1>5, <2>2, <2>4, QueueCalms DEF NoFault
      <3> QED BY <1>0, <1>1, <2>1, <2>2, <3>1, <3>2 DEF SendsDue
    <2> QED BY <2>3, <2>4
  <1>6. CASE UNCHANGED <<request, accepted>> /\ (Fault \/ NoFault)
    <2>1. faults' = faults \/ faults' = faults + 1
      BY <1>6 DEF Fault, NoFault
    <2> QED BY <1>3, <1>6, <2>1
  <1>7. ASSUME NEW w \in Workers, WorkerStep(w) \/ WorkerFault(w), ~SendQueued(w), ~QueuedSendFails(w)
        PROVE  UNCHANGED <<request, accepted>> /\ (Fault \/ NoFault)
    BY <1>7 DEF WorkerStep, WorkerFault, Receive, SkipDuplicate, StartSending, MarkQueued, Mark, AckCopy,
           RejectCopy, ParkConfirmed, ParkUnconfirmed, WorkerDies, requestVars, mailVars
  <1>8. ASSUME NEW d \in Copies, BrokerTakes(d) \/ BrokerLoses(d)
        PROVE  UNCHANGED <<request, accepted>> /\ (Fault \/ NoFault)
    BY <1>8 DEF BrokerTakes, BrokerLoses, requestVars, mailVars
  <1>9. CASE UNCHANGED vars
    <2>1. UNCHANGED <<request, accepted>> /\ NoFault
      BY <1>9 DEF vars, requestVars, mailVars, NoFault
    <2> QED BY <1>6, <2>1
  <1> QED BY <1>4, <1>5, <1>6, <1>7, <1>8, <1>9 DEF Next

\* Every step keeps the account of the sends.
LEMMA SendInvStep == SendInv /\ [Next]_vars => SendInv'
  <1> SUFFICES ASSUME SendInv, [Next]_vars PROVE SendInv'
    OBVIOUS
  <1>1. TypeOK' /\ OneHolder'
    BY StepType, HolderStep DEF SendInv
  <1>2. ASSUME NEW j \in Jobs PROVE accepted'[j] + SendsDue(j)' <= 1 + faults'
    <2>1. /\ accepted[j] \in Nat /\ faults \in Nat /\ accepted'[j] \in Nat /\ faults' \in Nat
      BY <1>1 DEF SendInv, TypeOK
    <2>2. SendsDue(j) \in Nat /\ SendsDue(j)' \in Nat
      BY DEF SendsDue
    <2>3. accepted[j] + SendsDue(j) <= 1 + faults
      BY DEF SendInv, SendsAreAccounted
    <2>4. accepted'[j] + SendsDue(j)' <= accepted[j] + SendsDue(j) + (faults' - faults)
      BY SendStep DEF SendInv
    <2> QED BY <2>1, <2>2, <2>3, <2>4
  <1> QED BY <1>1, <1>2 DEF SendInv, SendsAreAccounted

\* Publisher, fallback, redelivery and retry together: what may still be sent
\* without a further fault is one send, plus one for each fault before.
THEOREM SendAccounting == Spec => []SendInv
  <1>1. Init => SendInv
    <2> SUFFICES ASSUME Init PROVE SendInv
      OBVIOUS
    <2>1. TypeOK
      <3>1. tries \in [Jobs -> 0..DirectRetries] /\ faults \in 0..MaxFaults
        BY DEF Init
      <3> QED BY <3>1 DEF Init, QueueInit, TypeOK, QueueTypeOK, RequestSteps, WorkerSteps, Places
    <2>2. OneHolder
      BY CopyFacts DEF Init, QueueInit, OneHolder
    <2>3. ASSUME NEW j \in Jobs PROVE accepted[j] + SendsDue(j) <= 1 + faults
      BY DEF Init, SendsDue
    <2> QED BY <2>1, <2>2, <2>3 DEF SendInv, SendsAreAccounted
  <1> QED BY <1>1, SendInvStep, PTL DEF Spec

\* No retry, redelivery or fallback sends an email again by itself.
THEOREM NoFreeResend == Spec => []ExtraSendsAreFaults
  <1>1. SendInv => ExtraSendsAreFaults
    <2> SUFFICES ASSUME SendInv, NEW j \in Jobs PROVE accepted[j] <= 1 + faults
      BY DEF ExtraSendsAreFaults
    <2>1. accepted[j] \in Nat /\ faults \in Nat /\ SendsDue(j) \in Nat
      BY DEF SendInv, TypeOK, SendsDue
    <2> QED BY <2>1 DEF SendInv, SendsAreAccounted
  <1> QED BY <1>1, SendAccounting, PTL
=============================================================================
