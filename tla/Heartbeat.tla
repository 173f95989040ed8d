------------------------------ MODULE Heartbeat ------------------------------
(***************************************************************************)
(* The commit each copy of the worker runs, as the copies write it to      *)
(* Redis and GET /health reads it: a set of copies, and a key for each     *)
(* that expires unless its copy beats again (health/heartbeat.ts).  The    *)
(* deploy waits until the commit reported is the one it started.           *)
(***************************************************************************)
EXTENDS FaultBudget, NoValue, FiniteSets

CONSTANTS Replicas, Shas,
          MaxCopies, \* bound: copies started
          MaxReads   \* bound: GET /health

VARIABLES running,  \* the commit of a copy, None when it is down
          joining,  \* copies that are in the set and have not written their key
          replicas, \* REDIS_KEYS.heartbeatReplicas
          beats,    \* REDIS_KEYS.heartbeatReplica of each copy
          legacy,   \* REDIS_KEYS.heartbeat('worker')
          copies,   \* copies started so far
          reads,    \* requests so far
          reader,   \* the one that reads
          present   \* copies in the set that were live when it began, and still are

copyVars == <<running, joining, copies>>
healthVars == <<copyVars, replicas, beats, legacy, reads, reader, present, faults>>

Idle == [at |-> "idle", left |-> {}, forgets |-> None, heard |-> {}, commit |-> None]

HealthInit ==
    /\ running = [r \in Replicas |-> None]
    /\ joining = {}
    /\ replicas = {}
    /\ beats = [r \in Replicas |-> None]
    /\ legacy \in Shas \cup {None}
    /\ copies = 0 /\ reads = 0
    /\ reader = Idle
    /\ present = {}
    /\ faults = 0

-----------------------------------------------------------------------------
(* A copy of the worker.                                                   *)

CopyStarts(r, v) ==
    /\ running[r] = None
    /\ copies < MaxCopies
    /\ running' = [running EXCEPT ![r] = v]
    /\ copies' = copies + 1
    /\ NoFault
    /\ UNCHANGED <<joining, replicas, beats, legacy, reads, reader, present>>

CopyStops(r) ==
    /\ running[r] # None
    /\ running' = [running EXCEPT ![r] = None]
    /\ joining' = joining \ {r}
    /\ present' = present \ {r}
    /\ NoFault
    /\ UNCHANGED <<copies, replicas, beats, legacy, reads, reader>>

\* A beat: the set, then the key.
BeginsBeat(r) ==
    /\ running[r] # None
    /\ r \notin joining
    /\ replicas' = replicas \cup {r}
    /\ joining' = joining \cup {r}
    /\ NoFault
    /\ UNCHANGED <<running, copies, beats, legacy, reads, reader, present>>

EndsBeat(r) ==
    /\ r \in joining
    /\ joining' = joining \ {r}
    /\ \/ beats' = [beats EXCEPT ![r] = running[r]] /\ NoFault
       \/ UNCHANGED beats /\ Fault
    /\ UNCHANGED <<running, copies, replicas, legacy, reads, reader, present>>

\* Nobody beat for TTL_SECONDS: the copy is down, or its beats failed.
BeatExpires(r) ==
    /\ beats[r] # None
    /\ IF running[r] = None THEN NoFault ELSE Fault
    /\ beats' = [beats EXCEPT ![r] = None]
    /\ present' = present \ {r}
    /\ UNCHANGED <<copyVars, replicas, legacy, reads, reader>>

\* A copy of the release before the per-copy keys.
LegacyExpires ==
    /\ legacy # None
    /\ legacy' = None
    /\ NoFault
    /\ UNCHANGED <<copyVars, replicas, beats, reads, reader, present>>

-----------------------------------------------------------------------------
(* GET /health.                                                            *)

\* sMembers.
ReadCopies ==
    /\ reader.at \in {"idle", "reported", "late"}
    /\ reads < MaxReads
    /\ reads' = reads + 1
    /\ reader' = [Idle EXCEPT !.at = "reading", !.left = replicas]
    /\ present' = {r \in replicas : beats[r] # None /\ beats[r] = running[r]}
    /\ NoFault
    /\ UNCHANGED <<copyVars, replicas, beats, legacy>>

ReadBeat(r) ==
    /\ reader.at \in {"reading", "late"}
    /\ reader.forgets = None
    /\ r \in reader.left
    /\ reader' = IF beats[r] = None
                 THEN [reader EXCEPT !.forgets = r]
                 ELSE [reader EXCEPT !.left = @ \ {r}, !.heard = @ \cup {beats[r]}]
    /\ NoFault
    /\ UNCHANGED <<copyVars, replicas, beats, legacy, reads, present>>

\* sRem: the copy may have beaten since its key was missing.
Forget ==
    /\ reader.forgets # None
    /\ replicas' = replicas \ {reader.forgets}
    /\ reader' = [reader EXCEPT !.forgets = None, !.left = @ \ {reader.forgets}]
    /\ NoFault
    /\ UNCHANGED <<copyVars, beats, legacy, reads, present>>

\* Mutant of Agreed: any of them.
AnyCommit(vs) == IF vs = {} THEN None ELSE CHOOSE v \in vs : TRUE

Agreed(vs) == IF Cardinality(vs) = 1 THEN CHOOSE v \in vs : TRUE ELSE None

Report ==
    /\ reader.at = "reading"
    /\ reader.left = {}
    /\ reader' = [reader EXCEPT
                    !.at = "reported",
                    !.commit = Agreed(reader.heard \cup (IF legacy = None THEN {} ELSE {legacy}))]
    /\ NoFault
    /\ UNCHANGED <<copyVars, replicas, beats, legacy, reads, present>>

\* Redis is down, or slower than READ_TIMEOUT_MS: no commit is reported, and the read goes
\* on (followed until the next request).
ReadIsLate ==
    /\ reader.at = "reading"
    /\ Fault
    /\ reader' = [reader EXCEPT !.at = "late"]
    /\ UNCHANGED <<copyVars, replicas, beats, legacy, reads, present>>

HealthNext ==
    \/ \E r \in Replicas :
         \/ \E v \in Shas : CopyStarts(r, v)
         \/ CopyStops(r) \/ BeginsBeat(r) \/ EndsBeat(r) \/ BeatExpires(r) \/ ReadBeat(r)
    \/ LegacyExpires
    \/ ReadCopies \/ Forget \/ Report \/ ReadIsLate

HealthSpec == HealthInit /\ [][HealthNext]_healthVars

-----------------------------------------------------------------------------
\* The commit reported is the one of every live copy in the set: an old copy does not hide
\* behind a new one, and a deploy is not believed done before it is
\* (redis/cache-keys.constants.ts:24).  A copy that a reader forgot while it joined is not
\* in the set before its next beat.
CommitIsEverywhere ==
    reader.at = "reported" /\ reader.commit # None =>
        \A r \in present : running[r] = reader.commit

-----------------------------------------------------------------------------
(* The inductive invariant behind it                                       *)

HealthTypeOK ==
    /\ running \in [Replicas -> Shas \cup {None}]
    /\ beats \in [Replicas -> Shas \cup {None}]
    /\ replicas \subseteq Replicas /\ joining \subseteq Replicas
    /\ legacy \in Shas \cup {None}
    /\ reader \in [at : {"idle", "reading", "late", "reported"}, left : SUBSET Replicas,
                   forgets : Replicas \cup {None}, heard : SUBSET Shas, commit : Shas \cup {None}]
    /\ IsFiniteSet(reader.heard)

\* A copy that stays live has the key the reader found, or is still to find; the
\* reader forgets copies without a key only.
StaysLive(r) ==
    /\ r \in Replicas
    /\ beats[r] = running[r] /\ running[r] # None
    /\ reader.forgets # None => r # reader.forgets
    /\ r \in reader.left \/ running[r] \in reader.heard

HealthInv ==
    /\ HealthTypeOK
    /\ \A r \in present : StaysLive(r)
    /\ CommitIsEverywhere
=============================================================================
