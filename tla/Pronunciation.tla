---------------------------- MODULE Pronunciation ----------------------------
(***************************************************************************)
(* The sound of a word: the buttons of a flashcard and of the              *)
(* pronunciation game, the request they send, and the service that         *)
(* answers it from its cache or from Google.                               *)
(*                                                                         *)
(* A playback is one click, from its request to the end of its sound.  The *)
(* breaker, the retries and the timeout around Google are those of         *)
(* CircuitBreaker: here a call answers or fails.                           *)
(***************************************************************************)
EXTENDS FaultBudget, NoValue, FiniteSets

CONSTANTS Spellings,  \* texts of the cards
          Languages,
          Voiced,     \* the languages Google has a voice for
          MaxShown,   \* bound: cards shown
          MaxClicks   \* bound: clicks

ASSUME VoicedAssumption == Voiced \subseteq Languages

VARIABLES view,      \* which of the two pages is open
          displayed, \* the card, or the word of the game
          redraws,   \* card.version: how many were shown
          loading,   \* buttons that wait for their sound
          clicks,    \* playbacks so far
          playbacks, \* those under way
          client,    \* the credentials of Google are configured
          audio,     \* cached sounds, by text and language
          voices     \* languages whose voices are cached

buttonVars == <<view, displayed, redraws, loading, clicks>>
ttsVars == <<client, audio, voices>>
soundVars == <<buttonVars, playbacks, ttsVars, faults>>

ShownCards == [text : Spellings, language : Languages]

\* The word and its example; the game has one button.
Buttons == IF view = "cards" THEN {"word", "example"} ELSE {"word"}

Text(c, button) == [of |-> button, text |-> c.text, language |-> c.language]

SoundInit ==
    /\ view \in {"cards", "game"}
    /\ displayed \in ShownCards
    /\ redraws = 1
    /\ loading = {}
    /\ clicks = 0
    /\ playbacks = {}
    /\ client \in BOOLEAN
    /\ audio = {} /\ voices = {}
    /\ faults = 0

-----------------------------------------------------------------------------
(* The page.                                                               *)

Sounding(p) == p.at \in {"starting", "playing"}

\* An aborted request goes on in the API; a sound that is heard stops.
Silenced(ps) == {[p EXCEPT !.stopped = TRUE] : p \in {q \in ps : ~Sounding(q)}}

Asking(button) ==
    [id |-> clicks + 1, button |-> button, version |-> redraws,
     want |-> Text(displayed, button), at |-> "asked", status |-> None,
     heard |-> None, stopped |-> FALSE]

\* The button of a card is disabled while it loads; the one of the game stops the word
\* it plays already.
Speak(button) ==
    /\ clicks < MaxClicks
    /\ button \notin loading
    /\ clicks' = clicks + 1
    /\ IF view = "cards"
       THEN /\ loading' = loading \cup {button}
            /\ playbacks' = playbacks \cup {Asking(button)}
       ELSE /\ UNCHANGED loading
            /\ playbacks' = Silenced(playbacks) \cup {Asking(button)}
    /\ NoFault
    /\ UNCHANGED <<view, displayed, redraws, ttsVars>>

\* Another card is drawn, with buttons of its own, or another word of the game: both
\* abort what the last one plays.
Shows ==
    /\ redraws < MaxShown
    /\ redraws' = redraws + 1
    /\ displayed' \in ShownCards
    /\ loading' = {}
    /\ playbacks' = Silenced(playbacks)
    /\ NoFault
    /\ UNCHANGED <<view, clicks, ttsVars>>

Becomes(p, q) == playbacks' = (playbacks \ {p}) \cup {q}

\* Nothing is set on a button that is gone.
Quiet(p) ==
    /\ playbacks' = playbacks \ {p}
    /\ loading' = IF p.stopped \/ view = "game" THEN loading ELSE loading \ {p.button}

\* The request is refused, cancelled or lost.
AsksInVain(p) ==
    /\ \/ p.at = "refused" /\ NoFault
       \/ p.at = "answered" /\ Fault
    /\ Quiet(p)
    /\ UNCHANGED <<view, displayed, redraws, clicks, ttsVars>>

\* Mutant of CancelledMeanwhile: the signal is not read again after the answer.
NotCancelled(p) == FALSE

CancelledMeanwhile(p) == p.stopped

Arrives(p) ==
    /\ p.at = "answered"
    /\ IF CancelledMeanwhile(p) THEN Quiet(p)
       ELSE Becomes(p, [p EXCEPT !.at = "starting"]) /\ UNCHANGED loading
    /\ NoFault
    /\ UNCHANGED <<view, displayed, redraws, clicks, ttsVars>>

Plays(p) ==
    /\ p.at = "starting"
    /\ \/ NoFault /\ Becomes(p, [p EXCEPT !.at = "playing"]) /\ UNCHANGED loading
       \/ Fault /\ Quiet(p)
    /\ UNCHANGED <<view, displayed, redraws, clicks, ttsVars>>

\* It ends, or breaks off.
Finishes(p) ==
    /\ p.at = "playing"
    /\ Quiet(p)
    /\ NoFault
    /\ UNCHANGED <<view, displayed, redraws, clicks, ttsVars>>

-----------------------------------------------------------------------------
(* TtsService.                                                             *)

AudioKey(want) == want

Refused(p, status) == Becomes(p, [p EXCEPT !.at = "refused", !.status = status])

\* An unreachable Redis is a cache without the audio.
FindsAudio(p) ==
    /\ p.at = "asked"
    /\ IF ~client THEN Refused(p, 503) /\ NoFault
       ELSE \/ /\ \E a \in audio :
                    /\ a.key = AudioKey(p.want)
                    /\ Becomes(p, [p EXCEPT !.at = "answered", !.heard = a.sound])
               /\ NoFault
            \/ /\ IF \E a \in audio : a.key = AudioKey(p.want) THEN Fault ELSE NoFault
               /\ Becomes(p, [p EXCEPT !.at = "voices"])
    /\ UNCHANGED <<buttonVars, ttsVars>>

VoicesToCache(language) == IF language \in Voiced THEN {language} ELSE {}

ListsVoices(p) ==
    /\ p.at = "voices"
    /\ \/ /\ IF p.want.language \in voices THEN UNCHANGED voices
             ELSE voices' = voices \cup VoicesToCache(p.want.language)
          /\ IF p.want.language \in voices \cup Voiced
             THEN Becomes(p, [p EXCEPT !.at = "speech"])
             ELSE Refused(p, 422)
          /\ NoFault
       \/ /\ p.want.language \notin voices
          /\ Fault  \* Google fails, or Redis keeps no voices
          /\ UNCHANGED voices
          /\ Refused(p, 503) \/ (p.want.language \in Voiced /\ Becomes(p, [p EXCEPT !.at = "speech"]))
    /\ UNCHANGED <<buttonVars, client, audio>>

\* selectVoice() needs a voice.
Synthesizes(p) ==
    /\ p.at = "speech"
    /\ \/ /\ NoFault
          /\ IF p.want.language \in Voiced
             THEN Becomes(p, [p EXCEPT !.at = "caching", !.heard = p.want])
             ELSE Refused(p, 503)
       \/ Fault /\ Refused(p, 503)
    /\ UNCHANGED <<buttonVars, ttsVars>>

CachesAudio(p) ==
    /\ p.at = "caching"
    /\ \/ audio' = audio \cup {[key |-> AudioKey(p.want), sound |-> p.heard]} /\ NoFault
       \/ UNCHANGED audio /\ Fault
    /\ Becomes(p, [p EXCEPT !.at = "answered"])
    /\ UNCHANGED <<buttonVars, client, voices>>

\* TTS_VOICES and TTS_AUDIO.
Expires ==
    /\ \/ \E a \in audio : audio' = audio \ {a} /\ UNCHANGED voices
       \/ \E l \in voices : voices' = voices \ {l} /\ UNCHANGED audio
    /\ NoFault
    /\ UNCHANGED <<buttonVars, playbacks, client>>

SoundNext ==
    \/ \E b \in Buttons : Speak(b)
    \/ Shows
    \/ \E p \in playbacks :
         \/ AsksInVain(p) \/ Arrives(p) \/ Plays(p) \/ Finishes(p)
         \/ FindsAudio(p) \/ ListsVoices(p) \/ Synthesizes(p) \/ CachesAudio(p)
    \/ Expires

SoundSpec == SoundInit /\ [][SoundNext]_soundVars

-----------------------------------------------------------------------------
\* What is heard is a text of the card shown, in its language, and the game plays one
\* word at a time (games/test-pronun/page.tsx:102, tts.service.ts:62).  Where nothing is
\* heard, Google has no voice for the language, and says so every time it is asked, or
\* something failed (tts.service.ts:87).
HeardIsShown ==
    /\ view = "game" => Cardinality({p \in playbacks : Sounding(p)}) < 2
    /\ \A p \in playbacks :
         /\ Sounding(p) => p.version = redraws /\ p.heard = Text(displayed, p.button)
         /\ p.at = "refused" =>
              IF p.status = 422 THEN p.want.language \notin Voiced ELSE ~client \/ faults > 0
-----------------------------------------------------------------------------
(* The invariant it rests on.                                              *)

SpokenTexts == [of : {"word", "example"}, text : Spellings, language : Languages]
SoundSteps == {"asked", "voices", "speech", "caching", "answered", "refused", "starting", "playing"}
Playbacks == [id : Nat, button : {"word", "example"}, version : Nat, want : SpokenTexts,
              at : SoundSteps, status : {None, 422, 503}, heard : SpokenTexts \cup {None},
              stopped : BOOLEAN]

SoundTypeOK ==
    /\ view \in {"cards", "game"} /\ displayed \in ShownCards
    /\ redraws \in Nat /\ clicks \in Nat /\ client \in BOOLEAN /\ faults \in Nat
    /\ playbacks \subseteq Playbacks
    /\ audio \subseteq [key : SpokenTexts, sound : SpokenTexts] /\ voices \subseteq Voiced

\* A playback that was not stopped is of the card shown; the service goes on with the
\* others, which are never heard.  Google is asked in a language it has a voice for.
GoodPlayback(p) ==
    /\ ~p.stopped => p.version = redraws /\ p.want = Text(displayed, p.button)
    /\ Sounding(p) => ~p.stopped
    /\ Sounding(p) \/ p.at \in {"answered", "caching"} => p.heard = p.want
    /\ p.at = "speech" => p.want.language \in Voiced
    /\ p.at = "refused" =>
         IF p.status = 422 THEN p.want.language \notin Voiced ELSE ~client \/ faults > 0

SoundInv ==
    /\ SoundTypeOK
    /\ \A a \in audio : a.sound = a.key
    /\ \A p \in playbacks : GoodPlayback(p)
    /\ view = "game" => \A p, q \in playbacks : ~p.stopped /\ ~q.stopped => p = q
=============================================================================
