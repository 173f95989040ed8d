--------------------------- MODULE SpeechRecording ---------------------------
(***************************************************************************)
(* The record button of the pronunciation game (use-speech-recognition.ts) *)
(* and the words it records (games/test-pronun/page.tsx).  A word shown is *)
(* a turn, counted by sessionRef; a pending callback keeps the turn it was *)
(* scheduled in and the word its closure saw.                              *)
(***************************************************************************)
EXTENDS NoValue, Naturals

CONSTANTS Spoken,   \* words of the game
          MaxTurns,  \* bound: words shown
          MaxListens \* browserOptimizations()

VARIABLES ios,       \* the browser asks for the microphone and needs a click
          granted,   \* micGrantedRef
          asked,     \* currentWord
          session,   \* sessionRef
          active,    \* activeSessionRef, None for -1
          listening, \* listeningRef
          limit,     \* the timeout of a recording is armed
          retries,   \* retryCountRef
          expected,  \* callbacks pending: what they do, their turn, their word
          rec,       \* the recogniser of the browser: where it is, in which turn it was started
          recorded,  \* recordedWordRef
          score      \* the score of the word shown: None, or the turn of its recording

wordVars == <<asked, recorded, score>>
hookVars == <<session, active, listening, limit, retries, expected>>
speechVars == <<ios, granted, wordVars, hookVars, rec>>

-----------------------------------------------------------------------------
(* The recogniser of the browser                                           *)

Off == [at |-> "off", turn |-> None, begun |-> FALSE]

\* recognition.start() throws unless the recogniser is off.
CanStart == rec.at = "off"
\* After abort() there is no result, only an error and the end.
Aborted == IF rec.at = "off" THEN rec ELSE [rec EXCEPT !.at = "aborting"]
Stopped == IF rec.at \in {"starting", "on"} THEN [rec EXCEPT !.at = "stopping"] ELSE rec

-----------------------------------------------------------------------------
(* The hook                                                                *)

SpeechInit ==
    /\ ios \in BOOLEAN
    /\ granted = FALSE
    /\ asked \in Spoken
    /\ session = 1
    /\ active = None
    /\ listening = FALSE
    /\ limit = FALSE
    /\ retries = 0
    /\ expected = {}
    /\ rec = Off
    /\ recorded = None
    /\ score = None

CurrentTurn(d) == d.turn = session
Later(what, w) == [what |-> what, turn |-> session, word |-> w]

\* start(): on iOS it asks first; then the recording is begun after a delay.
Start(w, pending) ==
    IF ios /\ ~granted
    THEN /\ expected' = pending \cup {Later("ask", w)}
         /\ UNCHANGED recorded
    ELSE \/ /\ recorded' = w
            /\ expected' = pending \cup {Later("begin", w)}
         \/ /\ ios  \* the page has no focus
            /\ expected' = pending
            /\ UNCHANGED recorded

StopListening == rec' = Stopped /\ limit' = FALSE

\* toggle() once it may listen.
StopOrStart(w, pending) ==
    IF listening
    THEN StopListening /\ expected' = pending /\ UNCHANGED <<recorded, listening>>
    ELSE Start(w, pending) /\ UNCHANGED <<rec, limit, listening>>

\* The record button.
Toggle ==
    /\ retries' = 0
    /\ IF ios /\ ~granted
       THEN /\ expected' = expected \cup {Later("permit", asked)}
            /\ UNCHANGED <<recorded, rec, limit, listening>>
       ELSE StopOrStart(asked, expected)
    /\ UNCHANGED <<ios, granted, asked, session, active, score>>

\* toggle() after the permission: the turn is read after the wait.
Permitted(d) ==
    /\ d.what = "permit"
    /\ \/ /\ granted' = TRUE
          /\ expected' = (expected \ {d}) \cup {Later("click", d.word)}
       \/ /\ granted' = FALSE
          /\ expected' = expected \ {d}
    /\ UNCHANGED <<ios, wordVars, session, active, listening, limit, retries, rec>>

Clicked(d) ==
    /\ d.what = "click"
    /\ IF CurrentTurn(d) THEN StopOrStart(d.word, expected \ {d})
       ELSE expected' = expected \ {d} /\ UNCHANGED <<recorded, rec, limit, listening>>
    /\ UNCHANGED <<ios, granted, asked, session, active, retries, score>>

\* start() after the permission: the turn was read before the wait.
Asked(d) ==
    /\ d.what = "ask"
    /\ \/ /\ granted' = TRUE
          /\ expected' = IF CurrentTurn(d) THEN (expected \ {d}) \cup {[d EXCEPT !.what = "retry"]} ELSE expected \ {d}
       \/ /\ granted' = FALSE
          /\ expected' = expected \ {d}
    /\ UNCHANGED <<ios, wordVars, session, active, listening, limit, retries, rec>>

\* A retry, a second after the error.
RetryListening(d) ==
    /\ d.what = "retry"
    /\ IF CurrentTurn(d) THEN IF listening THEN StopListening /\ expected' = expected \ {d} /\ UNCHANGED recorded
                          ELSE Start(d.word, expected \ {d}) /\ UNCHANGED <<rec, limit>>
       ELSE expected' = expected \ {d} /\ UNCHANGED <<recorded, rec, limit>>
    /\ UNCHANGED <<ios, granted, asked, session, active, listening, retries, score>>

\* The delayed end of start(); failToStart() if the recogniser is not off.
BeginRecording(d) ==
    /\ d.what = "begin"
    /\ expected' = expected \ {d}
    /\ IF ~CurrentTurn(d) THEN UNCHANGED <<active, rec, listening>>
       ELSE /\ active' = session
            /\ rec' = IF CanStart THEN [at |-> "starting", turn |-> session, begun |-> FALSE] ELSE rec
            /\ listening' = (CanStart /\ listening)
    /\ UNCHANGED <<ios, granted, wordVars, session, limit, retries>>

\* The timeout of a recording.
LimitReached ==
    /\ limit
    /\ limit' = FALSE
    /\ rec' = IF listening THEN Stopped ELSE rec
    /\ UNCHANGED <<ios, granted, wordVars, session, active, listening, retries, expected>>

-----------------------------------------------------------------------------
(* What the recogniser says                                                *)

HandleStart ==
    /\ rec.at \in {"starting", "stopping", "aborting"} /\ ~rec.begun
    /\ LET begun == [rec EXCEPT !.begun = TRUE, !.at = IF @ = "starting" THEN "on" ELSE @] IN
       IF session = active THEN rec' = begun /\ listening' = TRUE /\ limit' = TRUE
       ELSE rec' = [begun EXCEPT !.at = "aborting"] /\ UNCHANGED <<listening, limit>>
    /\ UNCHANGED <<ios, granted, wordVars, session, active, retries, expected>>

\* processResult(): one score for the word shown, if it is the one recorded.
Scores == recorded = asked /\ score = None

HandleResult ==
    /\ rec.at \in {"on", "stopping"}
    /\ rec' = [rec EXCEPT !.at = "ending"]
    /\ limit' = FALSE
    /\ \/ score' = IF session = active /\ Scores THEN rec.turn ELSE score
       \/ UNCHANGED score  \* nothing was recognised
    /\ UNCHANGED <<ios, granted, asked, recorded, session, active, listening, retries, expected>>

\* Some errors are retried, at most MaxRetries times in a row.
HandleError ==
    /\ rec.at \in {"starting", "on", "stopping", "aborting"}
    /\ rec' = [rec EXCEPT !.at = "failed"]
    /\ limit' = FALSE /\ listening' = FALSE
    /\ \E retried \in BOOLEAN :
           LET again == retried /\ retries < MaxListens IN
           IF session # active THEN UNCHANGED <<retries, expected>>
           ELSE /\ retries' = IF again THEN retries + 1 ELSE 0
                /\ expected' = IF again THEN expected \cup {Later("retry", asked)} ELSE expected
    /\ UNCHANGED <<ios, granted, wordVars, session, active>>

HandleEnd ==
    /\ rec.at \in {"on", "stopping", "ending", "failed", "aborting"}
    /\ rec' = Off
    /\ limit' = FALSE /\ listening' = FALSE
    /\ UNCHANGED <<ios, granted, wordVars, session, active, retries, expected>>

-----------------------------------------------------------------------------
(* The page                                                                *)

\* Variant: the recogniser goes on with the word just left.
CancelUnaborted ==
    /\ session' = session + 1
    /\ active' = None
    /\ retries' = 0 /\ limit' = FALSE /\ listening' = FALSE
    /\ rec' = rec

CancelListen ==
    /\ session' = session + 1
    /\ active' = None
    /\ retries' = 0 /\ limit' = FALSE /\ listening' = FALSE
    /\ rec' = Aborted

\* Skip, or the next word 2 s after a score.
ShowWord ==
    /\ session < MaxTurns
    /\ CancelListen
    /\ asked' \in Spoken
    /\ recorded' = None /\ score' = None
    /\ UNCHANGED <<ios, granted, expected>>

CallbackFires(d) == Permitted(d) \/ Clicked(d) \/ Asked(d) \/ RetryListening(d) \/ BeginRecording(d)
Recogniser == HandleStart \/ HandleResult \/ HandleError \/ HandleEnd

SpeechNext == Toggle \/ LimitReached \/ ShowWord \/ Recogniser \/ \E d \in expected : CallbackFires(d)

SpeechSpec == SpeechInit /\ [][SpeechNext]_speechVars

-----------------------------------------------------------------------------
(* Properties                                                              *)

\* A word is only scored by a recording begun while it is shown: a result of the
\* word just left never counts for the next one, even when the same word is
\* drawn again or its recording is still ending (use-speech-recognition.ts:44).
ScoredWordWasRecorded == score # None => score = session
-----------------------------------------------------------------------------
(* The invariant it rests on.                                              *)

RecogniserStates == {"off", "starting", "on", "stopping", "ending", "failed", "aborting"}

\* A recogniser that may still give a result was started for the word shown: the others
\* were aborted.
SpeechInv ==
    /\ session \in Nat
    /\ rec \in [at : RecogniserStates, turn : Nat \cup {None}, begun : BOOLEAN]
    /\ rec.at \in {"starting", "on", "stopping"} => rec.turn = session
    /\ score \in Nat \cup {None}
    /\ ScoredWordWasRecorded
=============================================================================
