------------------------------ MODULE MCPages --------------------------------
(***************************************************************************)
(* The pages and what they report to, checked in one run.  They share no   *)
(* variable but the budget of faults: interleaving them would only         *)
(* multiply their states, so a behaviour moves one of them, its part, and  *)
(* leaves the others as they start.                                        *)
(***************************************************************************)
EXTENDS JobFeed, QueryCache, SpeechRecording, Flashcards, Forms, Games, LevelProgress,
        WordIntake, Pronunciation, Heartbeat

VARIABLE part  \* the component that moves

Parts == {"feed", "cache", "speech", "cards", "forms", "games", "level", "intake", "sound", "health"}

siteVars == <<part, feedVars, cacheVars, speechVars, flashVars, formVars, gameVars, levelVars,
              intakeVars, soundVars, healthVars>>

\* Where a component may start in several ways, it takes one while it rests.
Rests(p, start) == part = p \/ start

SiteInit ==
    /\ part \in Parts
    /\ FeedInit
    /\ CacheInit /\ Rests("cache", query = CHOOSE q \in Queries : TRUE)
    /\ SpeechInit /\ Rests("speech", ios /\ asked = CHOOSE w \in Spoken : TRUE)
    /\ FlashInit /\ Rests("cards", pool = {})
    /\ FormInit /\ Rests("forms", form = CHOOSE f \in Dialog : TRUE)
    /\ GameInit /\ Rests("games", kind = CHOOSE g \in GameTypes : TRUE)
    /\ LevelInit
    /\ IntakeInit
    /\ SoundInit /\ Rests("sound", client /\ view = "game" /\ displayed = CHOOSE c \in ShownCards : TRUE)
    /\ HealthInit /\ Rests("health", legacy = None)

\* Only p moves.
Only(p) ==
    /\ part = p
    /\ UNCHANGED part
    /\ IF p = "feed" THEN TRUE ELSE UNCHANGED <<workerVars, streamVars, page>>
    /\ IF p = "cache" THEN TRUE ELSE UNCHANGED <<queryVars, dashboardVars, change>>
    /\ IF p = "speech" THEN UNCHANGED faults ELSE UNCHANGED speechVars
    /\ IF p = "cards" THEN UNCHANGED faults ELSE UNCHANGED flashVars
    /\ IF p = "forms" THEN TRUE
       ELSE UNCHANGED <<form, dialogVars, requests, held, store, accepted, excused>>
    /\ IF p = "games" THEN TRUE ELSE UNCHANGED <<pageVars, serverVars>>
    /\ IF p = "level" THEN TRUE ELSE UNCHANGED <<hash, word, phase, game, stored, due, historyVars>>
    /\ IF p = "intake" THEN UNCHANGED faults ELSE UNCHANGED intakeVars
    /\ IF p = "sound" THEN TRUE ELSE UNCHANGED <<buttonVars, playbacks, ttsVars>>
    /\ IF p = "health" THEN TRUE
       ELSE UNCHANGED <<copyVars, replicas, beats, legacy, reads, reader, present>>

SiteNext ==
    \/ Only("feed") /\ FeedNext
    \/ Only("cache") /\ CacheNext
    \/ Only("speech") /\ SpeechNext
    \/ Only("cards") /\ FlashNext
    \/ Only("forms") /\ FormNext
    \/ Only("games") /\ GameNext
    \/ Only("level") /\ LevelNext
    \/ Only("intake") /\ IntakeNext
    \/ Only("sound") /\ SoundNext
    \/ Only("health") /\ HealthNext

SiteSpec == SiteInit /\ [][SiteNext]_siteVars
=============================================================================
