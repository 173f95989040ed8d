--------------------------- MODULE LevelProgress ---------------------------
(***************************************************************************)
(* The promotion of one level of one package: trackGameCompletion of       *)
(* learning.service.ts.  Each completed game is recorded in a Redis hash;  *)
(* a request that finds every game of the level recorded claims them with  *)
(* an HDEL and moves the due words to the next level in the database.      *)
(*                                                                         *)
(* Each await is a step of the request.  Redis may be away at any of them, *)
(* and its answer may be lost after it did what it was asked.              *)
(***************************************************************************)
EXTENDS NoValue, FaultBudget, FiniteSets

CONSTANTS Completions,  \* requests that report a game, at a time
          Games,     \* LEVEL_GAMES of the level
          Words      \* words of the package

ASSUME LevelAssumption == IsFiniteSet(Games) /\ Games # {} /\ None \notin Games

VARIABLES hash,     \* the games of the level recorded in Redis
          word,     \* where each word of the package is
          phase,    \* step of each request
          game,     \* the game it reports
          stored,   \* its HSET was acknowledged
          due,      \* the due words it found
          played,   \* history: games completed since the level was last cleared
          noneDue,  \* history: since the last game, a request found no due word
          unsure    \* history: a request went on without the answer of Redis

requestVars == <<phase, game, stored, due>>
historyVars == <<played, noneDue, unsure>>
levelVars == <<hash, word, requestVars, historyVars, faults>>

\* "next": moved to the next level; "other": at a level of the user's choice,
\* or not in the package.
Places == {"due", "resting", "next", "other"}
Phases == {"idle", "reading", "checking", "claiming", "promoting"}

LevelInit ==
    /\ hash = {}
    /\ word = [w \in Words |-> "due"]
    /\ phase = [r \in Completions |-> "idle"]
    /\ game = [r \in Completions |-> None]
    /\ stored = [r \in Completions |-> FALSE]
    /\ due = [r \in Completions |-> {}]
    /\ played = {}
    /\ noneDue = FALSE
    /\ unsure = FALSE
    /\ faults = 0

LevelTypeOK ==
    /\ hash \in SUBSET Games
    /\ word \in [Words -> Places]
    /\ phase \in [Completions -> Phases]
    /\ game \in [Completions -> Games \cup {None}]
    /\ \A r \in Completions : phase[r] = "reading" => game[r] \in Games
    /\ stored \in [Completions -> BOOLEAN]
    /\ due \in [Completions -> SUBSET Words]
    /\ played \in SUBSET Games
    /\ noneDue \in BOOLEAN
    /\ unsure \in BOOLEAN
    /\ faults \in 0..MaxFaults

-----------------------------------------------------------------------------
Goes(r, from, to) ==
    /\ phase[r] = from
    /\ phase' = [phase EXCEPT ![r] = to]

\* HSET of the completed game g.
Record(r, g, ack) ==
    /\ Goes(r, "idle", "reading")
    /\ game' = [game EXCEPT ![r] = g]
    /\ stored' = [stored EXCEPT ![r] = ack]
    /\ due' = [due EXCEPT ![r] = {}]
    /\ played' = played \cup {g}
    /\ noneDue' = FALSE
    /\ UNCHANGED <<word, unsure>>

StoreGame(r, g) ==
    /\ Record(r, g, TRUE)
    /\ hash' = hash \cup {g}
    /\ NoFault

StoreFails(r, g) ==
    /\ Record(r, g, FALSE)
    /\ hash' \in {hash, hash \cup {g}}
    /\ Fault

\* Variant: the game of the request is not in what it read.
OwnGameMissed(r) == hash \ {game[r]} = Games

\* The fields read, and the game of the request once it is stored.
SeesAll(r) == hash \cup (IF stored[r] THEN {game[r]} ELSE {}) = Games

ReadHash(r) ==
    /\ Goes(r, "reading", IF SeesAll(r) THEN "checking" ELSE "idle")
    /\ NoFault
    /\ UNCHANGED <<hash, word, game, stored, due, historyVars>>

\* Without Redis the game of the request counts alone.
ReadFails(r) ==
    /\ Goes(r, "reading", IF Games = {game[r]} THEN "checking" ELSE "idle")
    /\ unsure' = TRUE
    /\ Fault
    /\ UNCHANGED <<hash, word, game, stored, due, played, noneDue>>

DueWords == {w \in Words : word[w] = "due"}

\* Nothing is due: the played games stay.
FindNothingDue(r) ==
    /\ Goes(r, "checking", "idle")
    /\ DueWords = {}
    /\ noneDue' = TRUE
    /\ NoFault
    /\ UNCHANGED <<hash, word, game, stored, due, played, unsure>>

FindDue(r) ==
    /\ Goes(r, "checking", "claiming")
    /\ DueWords # {}
    /\ due' = [due EXCEPT ![r] = DueWords]
    /\ NoFault
    /\ UNCHANGED <<hash, word, game, stored, historyVars>>

\* Variant: removing one game is enough.
TakesSome == hash # {}

\* The HDEL removes every game of the level.
TakesAll == hash = Games

\* The request that removes every game is the one that promotes.
Claim(r) ==
    /\ TakesAll
    /\ Goes(r, "claiming", "promoting")
    /\ hash' = {}
    /\ played' = {}
    /\ NoFault
    /\ UNCHANGED <<word, game, stored, due, noneDue, unsure>>

\* Another request claimed first: no promotion, what the HDEL removed is gone.
ClaimLate(r) ==
    /\ ~TakesAll
    /\ Goes(r, "claiming", "idle")
    /\ hash' = {}
    /\ NoFault
    /\ UNCHANGED <<word, game, stored, due, historyVars>>

\* No answer: the request promotes all the same.
ClaimFails(r) ==
    /\ Goes(r, "claiming", "promoting")
    /\ hash' \in {hash, {}}
    /\ unsure' = TRUE
    /\ Fault
    /\ UNCHANGED <<word, game, stored, due, played, noneDue>>

\* Variant: the words found due, wherever they are now.
MovesFound(r) == due[r]

\* updateMany: of the words found due, those still at the level.
Moves(r) == {w \in due[r] : word[w] \in {"due", "resting"}}

Promote(r) ==
    /\ Goes(r, "promoting", "idle")
    /\ word' = [w \in Words |-> IF w \in Moves(r) THEN "next" ELSE word[w]]
    /\ NoFault
    /\ UNCHANGED <<hash, game, stored, due, historyVars>>

\* A failed query, or the end of the process.
Stop(r) ==
    /\ phase[r] # "idle"
    /\ phase' = [phase EXCEPT ![r] = "idle"]
    /\ Fault
    /\ UNCHANGED <<hash, word, game, stored, due, historyVars>>

-----------------------------------------------------------------------------
\* resetLevelProgress, the end of the TTL, a restart of Redis.
ClearLevel ==
    /\ hash # {}
    /\ hash' = {}
    /\ played' = {}
    /\ NoFault
    /\ UNCHANGED <<word, requestVars, noneDue, unsure>>

\* The user adds, edits or deletes a word, or another day makes it due.
EditWord(w) ==
    /\ \E place \in Places \ {"next"} : word' = [word EXCEPT ![w] = place]
    /\ NoFault
    /\ UNCHANGED <<hash, requestVars, historyVars>>

Track(r) ==
    \/ \E g \in Games : StoreGame(r, g) \/ StoreFails(r, g)
    \/ ReadHash(r) \/ ReadFails(r)
    \/ FindDue(r) \/ FindNothingDue(r)
    \/ Claim(r) \/ ClaimLate(r) \/ ClaimFails(r)
    \/ Promote(r)
    \/ Stop(r)

LevelNext ==
    \/ \E r \in Completions : Track(r)
    \/ ClearLevel
    \/ \E w \in Words : EditWord(w)

LevelSpec == LevelInit /\ [][LevelNext]_levelVars

-----------------------------------------------------------------------------
(* Properties                                                              *)

\* A promotion takes every game of the level, played since the last one: games
\* played once promote once, however completions race (learning.service.ts:79).
PromotionIsPaid ==
    [][\A r \in Completions :
         phase[r] = "claiming" /\ phase'[r] = "promoting" => played = Games \/ unsure']_levelVars

\* Of two last games completed together, one sees the level complete: a full
\* level has a request at work on it, unless one found nothing to promote
\* (learning.service.ts:47, learning.service.ts:54).
FullLevelIsSeen ==
    faults = 0 /\ hash = Games =>
        noneDue \/ \E r \in Completions : phase[r] \in {"reading", "checking", "claiming"}

\* A promotion never moves a word the user moved while it was on its way
\* (learning.service.ts:199).
EditsAreKept == [][\A w \in Words : word[w] = "other" => word'[w] # "next"]_levelVars

-----------------------------------------------------------------------------
\* The inductive invariant behind PromotionIsPaid: what is recorded was played.
LevelIInv == LevelTypeOK /\ hash \subseteq played
=============================================================================
