----------------------------- MODULE EmailQueue -----------------------------
(***************************************************************************)
(* The emails of email-queue.service.ts: a request publishes each one to   *)
(* the queue, or sends it itself when the broker did not confirm; workers  *)
(* send what the queue delivers, and a key in Redis (emailDedup) tells     *)
(* them what is sent already.  A job is an email; it is published once.    *)
(*                                                                         *)
(* The key outlives every redelivery (EMAIL_DEDUP, 24 h): it does not      *)
(* expire here.  SES is external: it accepts an email, answers an error,   *)
(* or does not answer in time.                                             *)
(***************************************************************************)
EXTENDS RetryQueue

CONSTANT DirectRetries  \* DIRECT_SEND_RETRIES

ASSUME EmailAssumption == MaxCopies = 1 /\ DirectRetries \in Nat

VARIABLES request,   \* step of the request of each email
          tries,     \* direct sends of the email that failed
          step,      \* step of the handler of each worker
          handling,  \* the copy it holds
          dedup,     \* the emails marked as sent
          accepted,  \* times SES accepted the email
          presumed   \* history: emails counted as sent after a timeout

requestVars == <<request, tries>>
workerVars == <<step, handling>>
mailVars == <<dedup, accepted, presumed>>
vars == <<requestVars, workerVars, mailVars, queueVars, faults>>

CopyOf(j) == <<j, 1>>

\* "taken" and "refused" are what enqueue() answers; a request may die before.
RequestSteps == {"new", "publishing", "direct", "marking", "taken", "refused", "dead"}
WorkerSteps == {"idle", "received", "sending", "marking", "acking", "rejecting", "parking"}

Init ==
    /\ QueueInit
    /\ request = [j \in Jobs |-> "new"]
    /\ tries = [j \in Jobs |-> 0]
    /\ step = [w \in Workers |-> "idle"]
    /\ handling = [w \in Workers |-> None]
    /\ dedup = {}
    /\ accepted = [j \in Jobs |-> 0]
    /\ presumed = {}
    /\ faults = 0

TypeOK ==
    /\ QueueTypeOK
    /\ request \in [Jobs -> RequestSteps]
    /\ tries \in [Jobs -> 0..DirectRetries]
    /\ step \in [Workers -> WorkerSteps]
    /\ handling \in [Workers -> Copies \cup {None}]
    /\ \A w \in Workers : step[w] # "idle" => handling[w] \in Copies
    /\ dedup \in SUBSET Jobs
    /\ accepted \in [Jobs -> Nat]
    /\ presumed \in SUBSET Jobs
    /\ faults \in 0..MaxFaults

-----------------------------------------------------------------------------
(* sendEmail: what SES does with one attempt                               *)

SesAccepts(j) ==
    /\ accepted' = [accepted EXCEPT ![j] = @ + 1]
    /\ NoFault
    /\ UNCHANGED presumed

\* The timeout does not cancel the send, which may still be delivered: the
\* email is never sent again.
SesTimesOut(j) ==
    /\ accepted' = [accepted EXCEPT ![j] = @ + 1] \/ UNCHANGED accepted
    /\ presumed' = presumed \cup {j}
    /\ Fault

SendsEmail(j) == SesAccepts(j) \/ SesTimesOut(j)

\* An error, the answer to an accepted email lost with its connection included.
SesErrors(j) ==
    /\ accepted' = [accepted EXCEPT ![j] = @ + 1] \/ UNCHANGED accepted
    /\ Fault
    /\ UNCHANGED presumed

\* The key of a sent email; it is not written while Redis is away.
Mark(j) ==
    \/ dedup' = dedup \cup {j} /\ NoFault
    \/ UNCHANGED dedup /\ Fault

-----------------------------------------------------------------------------
(* enqueue()                                                               *)

RequestGoes(j, from, to) ==
    /\ request[j] = from
    /\ request' = [request EXCEPT ![j] = to]

Publish(j) ==
    /\ RequestGoes(j, "new", "publishing")
    /\ Send(CopyOf(j))
    /\ NoFault
    /\ UNCHANGED <<tries, workerVars, mailVars>>

\* No channel: nothing is published.
SkipPublish(j) ==
    /\ RequestGoes(j, "new", "direct")
    /\ Fault
    /\ UNCHANGED <<tries, workerVars, mailVars, queueVars>>

\* Variant: a confirmed email is sent by the request as well.
ConfirmedSendsToo(j) ==
    /\ RequestGoes(j, "publishing", "direct")
    /\ Accepted(CopyOf(j))
    /\ NoFault
    /\ UNCHANGED <<tries, workerVars, mailVars, queueVars>>

Confirmed(j) ==
    /\ RequestGoes(j, "publishing", "taken")
    /\ Accepted(CopyOf(j))
    /\ NoFault
    /\ UNCHANGED <<tries, workerVars, mailVars, queueVars>>

\* The broker refused the email, lost it, or did not confirm it in time.
Unconfirmed(j) ==
    /\ RequestGoes(j, "publishing", "direct")
    /\ Fault
    /\ UNCHANGED <<tries, workerVars, mailVars, queueVars>>

SendDirectly(j) ==
    /\ RequestGoes(j, "direct", "marking")
    /\ SendsEmail(j)
    /\ UNCHANGED <<tries, workerVars, dedup, queueVars>>

\* A transient error is tried again while retries are left, another is final.
DirectSendFails(j) ==
    /\ \/ /\ tries[j] < DirectRetries
          /\ RequestGoes(j, "direct", "direct")
          /\ tries' = [tries EXCEPT ![j] = @ + 1]
       \/ RequestGoes(j, "direct", "refused") /\ UNCHANGED tries
    /\ SesErrors(j)
    /\ UNCHANGED <<workerVars, dedup, queueVars>>

MarkDirect(j) ==
    /\ RequestGoes(j, "marking", "taken")
    /\ Mark(j)
    /\ UNCHANGED <<tries, workerVars, accepted, presumed, queueVars>>

RequestDies(j) ==
    /\ request[j] \in {"publishing", "direct", "marking"}
    /\ request' = [request EXCEPT ![j] = "dead"]
    /\ Fault
    /\ UNCHANGED <<tries, workerVars, mailVars, queueVars>>

-----------------------------------------------------------------------------
(* handle()                                                                *)

EmailAt(w) == JobOf(handling[w])

WorkerGoes(w, from, to) ==
    /\ step[w] = from
    /\ step' = [step EXCEPT ![w] = to]
    /\ UNCHANGED handling

WorkerLeaves(w, from) ==
    /\ step[w] = from
    /\ step' = [step EXCEPT ![w] = "idle"]
    /\ handling' = [handling EXCEPT ![w] = None]

Receive(w, c) ==
    /\ step[w] = "idle"
    /\ step' = [step EXCEPT ![w] = "received"]
    /\ handling' = [handling EXCEPT ![w] = c]
    /\ Deliver(c)
    /\ NoFault
    /\ UNCHANGED <<requestVars, mailVars>>

\* Sent already: acknowledged.
SkipDuplicate(w) ==
    /\ WorkerGoes(w, "received", "acking")
    /\ EmailAt(w) \in dedup
    /\ NoFault
    /\ UNCHANGED <<requestVars, mailVars, queueVars>>

\* Not marked, or Redis cannot tell.
StartSending(w) ==
    /\ WorkerGoes(w, "received", "sending")
    /\ IF EmailAt(w) \in dedup THEN Fault ELSE NoFault
    /\ UNCHANGED <<requestVars, mailVars, queueVars>>

SendQueued(w) ==
    /\ WorkerGoes(w, "sending", "marking")
    /\ SendsEmail(EmailAt(w))
    /\ UNCHANGED <<requestVars, dedup, queueVars>>

\* Variant: the failed copy is neither acknowledged nor rejected.
FailureForgotten(w) ==
    /\ WorkerLeaves(w, "sending")
    /\ SesErrors(EmailAt(w))
    /\ UNCHANGED <<requestVars, dedup, queueVars>>

QueuedSendFails(w) ==
    /\ WorkerGoes(w, "sending", IF Exhausted(handling[w]) THEN "parking" ELSE "rejecting")
    /\ SesErrors(EmailAt(w))
    /\ UNCHANGED <<requestVars, dedup, queueVars>>

MarkQueued(w) ==
    /\ WorkerGoes(w, "marking", "acking")
    /\ Mark(EmailAt(w))
    /\ UNCHANGED <<requestVars, accepted, presumed, queueVars>>

AckCopy(w) ==
    /\ WorkerLeaves(w, "acking")
    /\ Ack(handling[w])
    /\ NoFault
    /\ UNCHANGED <<requestVars, mailVars>>

RejectCopy(w) ==
    /\ WorkerLeaves(w, "rejecting")
    /\ Nack(handling[w])
    /\ NoFault
    /\ UNCHANGED <<parked, requestVars, mailVars>>

ParkConfirmed(w) ==
    /\ WorkerGoes(w, "parking", "acking")
    /\ Park(handling[w])
    /\ NoFault
    /\ UNCHANGED <<place, deaths, redelivered, requestVars, mailVars>>

\* Variant: the original is acknowledged before its parked copy is confirmed.
ParkAssumed(w) ==
    /\ WorkerGoes(w, "parking", "acking")
    /\ Park(handling[w]) \/ UNCHANGED parked
    /\ Fault
    /\ UNCHANGED <<place, deaths, redelivered, requestVars, mailVars>>

ParkUnconfirmed(w) ==
    /\ WorkerLeaves(w, "parking")
    /\ Nack(handling[w])
    /\ Park(handling[w]) \/ UNCHANGED parked
    /\ Fault
    /\ UNCHANGED <<requestVars, mailVars>>

\* The worker stops, or loses its channel: its copy is requeued.
WorkerDies(w) ==
    /\ step[w] # "idle"
    /\ step' = [step EXCEPT ![w] = "idle"]
    /\ handling' = [handling EXCEPT ![w] = None]
    /\ RequeuedIn({handling[w]})
    /\ Fault
    /\ UNCHANGED <<requestVars, mailVars>>

-----------------------------------------------------------------------------
BrokerTakes(c) ==
    /\ BrokerAccepts(c) \/ RetryElapsed(c)
    /\ NoFault
    /\ UNCHANGED <<requestVars, workerVars, mailVars>>

BrokerLoses(c) ==
    /\ WireLoses(c)
    /\ Fault
    /\ UNCHANGED <<requestVars, workerVars, mailVars>>

RequestStep(j) == Publish(j) \/ Confirmed(j) \/ SendDirectly(j) \/ MarkDirect(j)
RequestFault(j) == SkipPublish(j) \/ Unconfirmed(j) \/ DirectSendFails(j) \/ RequestDies(j)

WorkerStep(w) ==
    \/ \E c \in Copies : Receive(w, c)
    \/ SkipDuplicate(w) \/ StartSending(w) \/ SendQueued(w) \/ MarkQueued(w)
    \/ AckCopy(w) \/ RejectCopy(w) \/ ParkConfirmed(w)
WorkerFault(w) == QueuedSendFails(w) \/ ParkUnconfirmed(w) \/ WorkerDies(w)

Next ==
    \/ \E j \in Jobs : RequestStep(j) \/ RequestFault(j)
    \/ \E w \in Workers : WorkerStep(w) \/ WorkerFault(w)
    \/ \E c \in Copies : BrokerTakes(c) \/ BrokerLoses(c)

Spec == Init /\ [][Next]_vars

\* Handlers and requests run on, the broker delivers; nothing forces a fault.
Fairness ==
    /\ \A j \in Jobs : WF_vars(SendDirectly(j)) /\ WF_vars(MarkDirect(j))
    /\ \A w \in Workers : WF_vars(WorkerStep(w))
    /\ \A c \in Copies : WF_vars(BrokerTakes(c))

FairSpec == Spec /\ Fairness

-----------------------------------------------------------------------------
(* Properties                                                              *)

Sent(j) == accepted[j] > 0 \/ j \in presumed

\* An email enqueue() answered true for is sent, counted as sent after a
\* timeout, parked, or with the broker (email-queue.service.ts:57).
NoEmailLost ==
    \A j \in Jobs : request[j] = "taken" =>
        \/ Sent(j)
        \/ CopyOf(j) \in parked
        \/ place[CopyOf(j)] \in {"work", "held", "retry"}

\* A mark stands for a send: no redelivery skips an email that was not sent
\* (email-queue.service.ts:81).
MarkedIsSent == \A j \in dedup : Sent(j)

\* Each send beyond the first is the price of a fault of its own: no retry,
\* redelivery or fallback sends an email again by itself.
ExtraSendsAreFaults == \A j \in Jobs : accepted[j] <= 1 + faults

\* An email the queue took is sent or parked in the end, never given back and
\* forth for ever (email-queue.service.ts:118).
TakenSettles ==
    \A j \in Jobs : (request[j] = "taken") ~> (Sent(j) \/ CopyOf(j) \in parked)

\* "An unconfirmed publish may still reach the queue later (broker alarm): the
\* worker skips it" (email-queue.service.ts:65): a publication that is late, and
\* nothing else going wrong, does not send the email twice.
LateCopyIsSkipped == \A j \in Jobs : faults = 1 => accepted[j] <= 1

-----------------------------------------------------------------------------
(* The inductive invariant behind NoEmailLost and MarkedIsSent             *)

Kept(c) == Sent(JobOf(c)) \/ c \in parked

\* Whatever acknowledges a copy, or tells a request it is done, follows a send
\* or a parked copy.
AcksAreKept ==
    /\ \A c \in Copies : place[c] = "done" => Kept(c)
    /\ \A w \in Workers : step[w] \in {"marking", "acking"} => Kept(handling[w])
    /\ \A w \in Workers : step[w] = "marking" => Sent(EmailAt(w))
    /\ \A j \in Jobs : request[j] = "marking" => Sent(j)

IInv == TypeOK /\ AcksAreKept /\ MarkedIsSent /\ NoEmailLost
-----------------------------------------------------------------------------
(* The inductive invariant behind ExtraSendsAreFaults                      *)

\* A request in hand or a delivery is one copy, with one worker.
OneHolder ==
    /\ \A w \in Workers : step[w] # "idle" => place[handling[w]] = "held"
    /\ \A w, u \in Workers :
          step[w] # "idle" /\ step[u] # "idle" /\ handling[w] = handling[u] => w = u
    /\ \A j \in Jobs : request[j] = "new" => place[CopyOf(j)] = "unsent"

\* The queue sends the email unless something goes wrong.
QueueWillSend(j) ==
    \/ request[j] = "new"
    \/ place[CopyOf(j)] \in {"wire", "work", "retry"} /\ j \notin dedup
    \/ \E w \in Workers :
          /\ step[w] \in {"received", "sending", "rejecting"} /\ EmailAt(w) = j
          /\ step[w] = "sending" \/ j \notin dedup

\* The sends that may still come without another fault.
SendsDue(j) ==
    (IF QueueWillSend(j) THEN 1 ELSE 0) + (IF request[j] = "direct" THEN 1 ELSE 0)

SendsAreAccounted == \A j \in Jobs : accepted[j] + SendsDue(j) <= 1 + faults

SendInv == TypeOK /\ OneHolder /\ SendsAreAccounted
=============================================================================
