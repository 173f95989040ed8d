-------------------------------- MODULE Games --------------------------------
(***************************************************************************)
(* A game page, from its rules to its summary (use-game-shell.ts and the   *)
(* seven pages under games/), and the scores it saves (games.service.ts).  *)
(* A right answer is worth one point and a miss costs one; `hand' is what  *)
(* the board waits for.  The words themselves are left out.                *)
(***************************************************************************)
EXTENDS NoValue, FaultBudget, Sequences, FiniteSetsExt

CONSTANTS MaxWords,   \* bound: words a game is played with
          MaxTries,   \* bound: answers in a game without an end
          MaxRounds,  \* bound: rounds played on this page
          WordsPerGame, MinPronounced,  \* of the pronunciation game: 10 and 5
          HintCost,   \* in points
          GridSize,  \* of the word grid: 15
          MaxStart,  \* bound: rows and columns a drag starts on
          MinWords, MinChoices  \* words a game needs; more for pairs and for choices

ScoreRows == [best : Nat, plays : Nat]

ASSUME GamesAssumption ==
    /\ MaxWords \in Nat /\ WordsPerGame \in Nat /\ HintCost \in Nat
    /\ None \notin ScoreRows

VARIABLES kind,    \* the page open
          screen,  \* "away", "pre", "active" or "post"
          offered, \* words the API offers to play with, 0 when it refuses
          playing, \* from start() to finish()
          finished, \* finishedRef
          timer,   \* "off", "running" or "up"
          board,   \* score, right answers, answers, length, what it waits for
          round,   \* rounds started
          selected, \* cells of the word grid, in the order of the drag
          saves,   \* the scores sent to the API
          row      \* user_best_scores of this game

pageVars == <<kind, screen, offered, playing, finished, timer, board, round, selected>>
serverVars == <<saves, row>>
gameVars == <<pageVars, serverVars, faults>>

GameTypes == {"speed_vocab", "phrase_completion", "word_scramble", "vocab_quiz",
              "flash_match", "word_search", "test_pronun"}
Timed == {"speed_vocab", "phrase_completion", "word_scramble", "word_search"}

-----------------------------------------------------------------------------
(* Scoring                                                                 *)

MinAccuracy == [g \in GameTypes |-> IF g \in {"vocab_quiz", "test_pronun", "speed_vocab", "word_search"}
                                    THEN 70 ELSE 80]

\* Rounded; 0 of nothing.
Percentage(part, total) == IF total = 0 THEN 0 ELSE (200 * part + total) \div (2 * total)
ReachesShare(count, total, min) == count * 100 >= total * min

Minus(score, n) == IF score > n THEN score - n ELSE 0

AverageAccuracy == IF board.tried = 0 THEN 0
                   ELSE (2 * board.right + board.tried) \div (2 * board.tried)

\* Each word once and half as many again.
LongRound(words) == words + words \div 2

\* The score and the verdict of endGame().
FinalScore ==
    CASE kind = "word_search" -> board.score + (IF board.right = board.total THEN 1 ELSE 0)
      [] kind = "test_pronun" -> AverageAccuracy
      [] kind = "flash_match" -> board.right
      [] OTHER -> board.score

\* In word-scramble a checked word counts before Next closes it.
Passed ==
    LET attempts == board.tried + (IF board.hand = "answered" THEN 1 ELSE 0)
        min == MinAccuracy[kind]
    IN CASE kind = "speed_vocab" -> Percentage(board.right, board.tried) >= min
         [] kind = "phrase_completion" -> Percentage(board.right, board.total) >= min
         [] kind = "word_scramble" -> Min({100, Percentage(board.right, attempts)}) >= min
         [] kind = "test_pronun" -> AverageAccuracy >= min /\ board.tried >= MinPronounced
         [] OTHER -> ReachesShare(board.right, board.total, min)

-----------------------------------------------------------------------------
(* The page                                                                *)

Empty == [score |-> 0, right |-> 0, tried |-> 0, total |-> 0, hand |-> "open"]

GameInit ==
    /\ kind \in GameTypes
    /\ screen = "away"
    /\ offered = 0
    /\ playing = FALSE /\ finished = FALSE
    /\ timer = "off"
    /\ board = Empty
    /\ round = 0
    /\ selected = <<>>
    /\ saves = <<>>
    /\ row = None
    /\ faults = 0

MinRequired(g) == IF g \in {"flash_match", "vocab_quiz"} THEN MinChoices ELSE MinWords

\* getWordsForGame(): enough words at the level of the game, enough of them due;
\* the word grid takes the short ones among those.
GameWords(g, atLevel, dueWords) ==
    IF atLevel < MinRequired(g) \/ dueWords < MinRequired(g) THEN {0}
    ELSE IF g = "word_search" THEN 0..dueWords ELSE {dueWords}

Open ==
    /\ screen = "away"
    /\ screen' = "pre"
    /\ \E atLevel \in 0..MaxWords : \E dueWords \in 0..atLevel : offered' \in GameWords(kind, atLevel, dueWords)
    /\ UNCHANGED <<kind, playing, finished, timer, board, round, selected, serverVars, faults>>

\* Leaving cancels the timers of the page, not the requests it sent.
LeavePage ==
    /\ screen # "away"
    /\ screen' = "away"
    /\ playing' = FALSE /\ finished' = FALSE /\ timer' = "off" /\ board' = Empty /\ selected' = <<>>
    /\ UNCHANGED <<kind, offered, round, serverVars, faults>>

\* start(), from the rules or to play again: a selection under way when the time was up is
\* still there.
StartRound(length) ==
    /\ screen \in {"pre", "post"} /\ offered > 0
    /\ round < MaxRounds
    /\ round' = round + 1
    /\ screen' = "active" /\ playing' = TRUE /\ finished' = FALSE
    /\ timer' = IF kind \in Timed THEN "running" ELSE "off"
    /\ board' = [Empty EXCEPT !.total = length]
    /\ UNCHANGED <<kind, offered, selected, serverVars, faults>>

\* startGame() of each page.
StartSpeedVocab == kind = "speed_vocab" /\ StartRound(offered)
StartScramble == kind = "word_scramble" /\ StartRound(offered)
StartQuiz == kind = "vocab_quiz" /\ StartRound(LongRound(offered))
StartMatch == kind = "flash_match" /\ StartRound(offered)
StartPronun == kind = "test_pronun" /\ StartRound(WordsPerGame)

\* The words with a blank in their example are asked, as often as all of them would be.
StartPhrases == kind = "phrase_completion" /\ StartRound(LongRound(offered))

\* generateGrid(): a word may find no place; a text listed twice is placed twice and
\* found once.
Placed == 0..offered
StartSearch == kind = "word_search" /\ \E placed \in Placed \ {0} : StartRound(placed)

StartGame == StartSpeedVocab \/ StartPhrases \/ StartScramble \/ StartQuiz \/ StartMatch
             \/ StartPronun \/ StartSearch

\* startGame() without words, without a blank to fill, or without a word that fits.
NothingToPlay ==
    /\ screen \in {"pre", "post"}
    /\ offered = 0 \/ kind \in {"phrase_completion", "word_search"}
    /\ screen' = "pre"
    /\ UNCHANGED <<kind, offered, playing, finished, timer, board, round, selected, serverVars, faults>>

\* Variant: nothing tells that the game was finished before.
FinishAgain(score, success) ==
    /\ finished' = TRUE /\ playing' = FALSE
    /\ saves' = Append(saves, [round |-> round, score |-> score, passed |-> success, at |-> "sent"])

\* finish(): once per game it saves the score and reports to the level.
Finish(score, success) ==
    IF finished THEN UNCHANGED <<finished, playing, saves>>
    ELSE /\ finished' = TRUE /\ playing' = FALSE
         /\ saves' = Append(saves, [round |-> round, score |-> score, passed |-> success, at |-> "sent"])

EndGame ==
    /\ Finish(FinalScore, Passed)
    /\ UNCHANGED <<kind, screen, offered, timer, round, selected, row, faults>>

\* The countdown, while playing.
TimeRunsOut ==
    /\ playing /\ timer = "running"
    /\ timer' = "up"
    /\ UNCHANGED <<kind, screen, offered, playing, finished, board, round, selected, serverVars, faults>>

TimeUp ==
    /\ playing /\ timer = "up"
    /\ EndGame
    /\ UNCHANGED board

\* A second after finish().
Reveal ==
    /\ screen = "active" /\ finished
    /\ screen' = "post"
    /\ UNCHANGED <<kind, offered, playing, finished, timer, board, round, selected, serverVars, faults>>

-----------------------------------------------------------------------------
(* The boards                                                              *)

Playing(g) == kind = g /\ screen = "active"
Waits(h) == board.hand = h
Onto(b) ==
    /\ board' = b
    /\ UNCHANGED <<kind, screen, offered, playing, finished, timer, round, selected, serverVars, faults>>
Right(b) == [b EXCEPT !.score = @ + 1, !.right = @ + 1]
Missed(b) == [b EXCEPT !.score = Minus(@, 1)]
Tried(b) == [b EXCEPT !.tried = @ + 1]
Hand(b, h) == [b EXCEPT !.hand = h]
Unlimited == board.tried < MaxTries /\ board.right < MaxTries  \* bound

\* Speed Vocab reads the input until the time is over.
InputRead == timer = "running"

\* A wrong word locks the input for half a second.
TypeWord ==
    /\ Playing("speed_vocab") /\ InputRead /\ Waits("open") /\ Unlimited
    /\ \/ Onto(Tried(Right(board)))
       \/ Onto(Hand(Tried(Missed(board)), "wrong"))

WrongWordOver ==
    /\ Playing("speed_vocab") /\ Waits("wrong")
    /\ Onto(Hand(board, "open"))

\* Phrase Completion: one answer a phrase, Next once it is answered.
CheckPhrase ==
    /\ Playing("phrase_completion") /\ playing /\ Waits("open")
    /\ \/ Onto(Hand(Right(board), "answered"))
       \/ Onto(Hand(board, "answered"))

NextPhrase ==
    /\ Playing("phrase_completion") /\ playing /\ Waits("answered")
    /\ IF board.tried + 1 >= board.total THEN EndGame /\ UNCHANGED board
       ELSE Onto(Hand(Tried(board), "open"))

\* Word Scramble: a word can be checked again, Next closes the attempt.
CheckScramble ==
    /\ Playing("word_scramble") /\ playing /\ Unlimited
    /\ \/ Onto(Hand(Right(board), "answered"))
       \/ Onto(Hand(board, "answered"))

NextScramble ==
    /\ Playing("word_scramble") /\ playing /\ Waits("answered") /\ Unlimited
    /\ Onto(Hand(Tried(board), "open"))

\* Vocab Quiz: an answer holds as many options as are right.
AnswerQuiz ==
    /\ Playing("vocab_quiz") /\ Waits("open")
    /\ \/ Onto(Hand(Right(board), "answered"))
       \/ Onto(Hand(Missed(board), "answered"))

NextQuestion ==
    /\ Playing("vocab_quiz") /\ Waits("answered")
    /\ IF board.tried + 1 < board.total THEN Onto(Hand(Tried(board), "open"))
       ELSE EndGame /\ UNCHANGED board

\* Flash Match: two cards turned, compared a second later.
FlipPair ==
    /\ Playing("flash_match") /\ playing /\ Waits("open")
    /\ Onto(Hand(board, "checking"))

ComparePair ==
    /\ Playing("flash_match") /\ Waits("checking")
    /\ \/ Onto(Hand(board, "open"))
       \/ LET matched == board.right + 1 IN
          /\ board' = [board EXCEPT !.right = matched, !.hand = "open"]
          /\ IF matched = board.total
             THEN Finish(matched, ReachesShare(matched, board.total, MinAccuracy["flash_match"]))
             ELSE UNCHANGED <<finished, playing, saves>>
          /\ UNCHANGED <<kind, screen, offered, timer, round, selected, row, faults>>

Sign(n) == IF n > 0 THEN 1 ELSE IF n < 0 THEN -1 ELSE 0
Cells == (1..GridSize) \X (1..GridSize)
Diagonal(a, b) == LET d(i) == a[i] - b[i] IN d(1) = d(2) \/ d(1) = -d(2)

\* canExtend(): aligned with the last cell, and with the first in the direction taken.
CanExtend(cells, cell) ==
    LET first == Head(cells)
        last == cells[Len(cells)]
        Went(i) == Sign(last[i] - first[i])
        Goes(i) == Sign(cell[i] - first[i])
    IN /\ cell[1] = last[1] \/ cell[2] = last[2] \/ Diagonal(cell, last)
       /\ Len(cells) > 1 =>
              /\ \A i \in {1, 2} : Went(i) # 0 => Goes(i) = Went(i)
              /\ (\E i \in {1, 2} : Went(i) = 0 /\ Goes(i) = 0) \/ Diagonal(cell, first)

\* Word Search: a selection is read until endGame() clears gameActiveRef.
Selecting(cells) ==
    /\ Playing("word_search") /\ ~finished
    /\ selected' = cells

OnGrid == UNCHANGED <<kind, screen, offered, playing, finished, timer, round, serverVars, faults>>

StartSelection(cell) ==
    /\ cell[1] <= MaxStart /\ cell[2] <= MaxStart  \* bound
    /\ Selecting(<<cell>>)
    /\ OnGrid /\ UNCHANGED board

\* Back on a cell of the selection, what follows it is dropped.
ExtendSelection(cell) ==
    /\ selected # <<>>
    /\ IF \E i \in DOMAIN selected : selected[i] = cell
       THEN Selecting(SubSeq(selected, 1, CHOOSE i \in DOMAIN selected : selected[i] = cell))
       ELSE CanExtend(selected, cell) /\ Selecting(Append(selected, cell))
    /\ OnGrid /\ UNCHANGED board

\* matchSelectedWord(): the letters, read either way, may be those of a word not found yet;
\* a word has two at least.
Spells(cells) == IF Len(cells) > 1 /\ board.right < board.total THEN BOOLEAN ELSE {FALSE}

Found == LET b == Right(board) IN IF b.right >= b.total THEN Hand(b, "all found") ELSE b

EndSelection ==
    /\ selected # <<>> /\ Selecting(<<>>) /\ Unlimited
    /\ \E match \in Spells(selected) : board' = IF match THEN Found ELSE Tried(board)
    /\ OnGrid

Hint ==
    /\ Playing("word_search") /\ ~finished
    /\ board.right < board.total /\ board.score >= HintCost
    /\ Onto([board EXCEPT !.score = Minus(@, HintCost)])

\* The effect of the last word: it may run with the one of the countdown.
AllFound ==
    /\ Playing("word_search") /\ Waits("all found")
    /\ EndGame
    /\ board' = Hand(board, "open")

\* calculatePronunciationAccuracy(): what was heard is the word, a part of it, spelt as it
\* sounds, or something `near' it, in percent; `ends' tells that they begin or end alike,
\* `lopsided' that one is much longer, and `sure' is the confidence of the recogniser.
Accuracy(heard) ==
    LET alike == 70 * heard.near + (IF heard.ends THEN 500 ELSE 0)
        weighed == IF heard.lopsided THEN (alike * 7) \div 10 ELSE alike
    IN CASE heard.as = "same" -> 95 + 5 * heard.sure
         [] heard.as = "part" -> Min({75 + 15 * heard.sure, 85})
         [] heard.as \in {"variant", "other"} /\ heard.near < 60 ->
                Max({10, (30 * heard.near + 50) \div 100})
         [] heard.as = "variant" /\ heard.near >= 70 -> 80 + 10 * heard.sure
         [] OTHER -> Max({15, Min({75, (weighed + 1000 * heard.sure + 50) \div 100})})

\* Bound: what may be heard.
Heard(as, near) == [as : {as}, near : {near}, ends : {TRUE}, lopsided : {FALSE}, sure : {1}]
Hearings == Heard("same", 100) \cup Heard("variant", 80) \cup Heard("other", 40)

\* Test Pronun: a word is scored once, the next one follows 2 s later or on Skip.
Pronounce ==
    /\ Playing("test_pronun") /\ Waits("open")
    /\ \E heard \in Hearings :
           Onto([board EXCEPT !.right = @ + Accuracy(heard), !.tried = @ + 1, !.hand = "answered"])

MoveOn ==
    /\ Playing("test_pronun") /\ Waits("answered")
    /\ IF board.tried >= WordsPerGame THEN EndGame /\ UNCHANGED board
       ELSE Onto(Hand(board, "open"))

-----------------------------------------------------------------------------
(* saveScore() of the API                                                  *)

Settled(i, outcome) == saves' = [saves EXCEPT ![i].at = outcome]

\* Another device ends a round of the same game.
SaveElsewhere ==
    /\ \A i \in DOMAIN saves : saves[i].round # 0  \* bound: once, and for one point
    /\ saves' = Append(saves, [round |-> 0, score |-> 1, passed |-> FALSE, at |-> "sent"])
    /\ UNCHANGED <<pageVars, row, faults>>

\* createMany() with skipDuplicates: the first score makes the row.
CreateScore(i) ==
    /\ saves[i].at = "sent"
    /\ IF row = None THEN /\ row' = [best |-> saves[i].score, plays |-> 1]
                          /\ Settled(i, "counted")
       ELSE /\ Settled(i, "exists")
            /\ UNCHANGED row
    /\ UNCHANGED <<pageVars, faults>>

\* The transaction: one play more, a best score that is never lowered.
RaiseScore(i) ==
    /\ saves[i].at = "exists"
    /\ row' = [best |-> Max({row.best, saves[i].score}), plays |-> row.plays + 1]
    /\ Settled(i, "counted")
    /\ UNCHANGED <<pageVars, faults>>

\* Neither the page nor the API tries again.
SaveLost(i) ==
    /\ saves[i].at \in {"sent", "exists"}
    /\ Settled(i, "lost")
    /\ Fault
    /\ UNCHANGED <<pageVars, row>>

Shell == Open \/ LeavePage \/ StartGame \/ NothingToPlay \/ TimeRunsOut \/ TimeUp \/ Reveal
Board == TypeWord \/ WrongWordOver \/ CheckPhrase \/ NextPhrase \/ CheckScramble \/ NextScramble
         \/ AnswerQuiz \/ NextQuestion \/ FlipPair \/ ComparePair \/ Hint \/ AllFound
         \/ Pronounce \/ MoveOn \/ EndSelection
         \/ \E cell \in Cells : StartSelection(cell) \/ ExtendSelection(cell)
Saving(i) == CreateScore(i) \/ RaiseScore(i) \/ SaveLost(i)

GameNext == Shell \/ Board \/ SaveElsewhere \/ \E i \in DOMAIN saves : Saving(i)

GameSpec == GameInit /\ [][GameNext]_gameVars

-----------------------------------------------------------------------------
(* Properties                                                              *)

Counted == {i \in DOMAIN saves : saves[i].at = "counted"}

\* A round is saved once, although the time, the last word and a second click
\* may all end it (use-game-shell.ts:58), and the row counts each score that
\* arrived and holds the best of them, whatever device sent it (games.service.ts:97).
EveryRoundCounts ==
    /\ \A i, j \in DOMAIN saves : saves[i].round = saves[j].round /\ i # j => saves[i].round = 0
    /\ row # None => /\ row.plays = Cardinality(Counted)
                     /\ row.best = Max({saves[i].score : i \in Counted})
-----------------------------------------------------------------------------
(* The invariant it rests on.                                              *)

Boards == [score : Nat, right : Nat, tried : Nat, total : Nat,
           hand : {"open", "wrong", "answered", "checking", "all found"}]
Saves == [round : Nat, score : Nat, passed : BOOLEAN, at : {"sent", "exists", "counted", "lost"}]

GameTypeOK ==
    /\ kind \in GameTypes /\ screen \in {"away", "pre", "active", "post"}
    /\ offered \in Nat /\ round \in Nat
    /\ playing \in BOOLEAN /\ finished \in BOOLEAN
    /\ board \in Boards
    /\ saves \in Seq(Saves)
    /\ row \in ScoreRows \cup {None}

\* A round is saved once: the one that is played, or waits to be ended, is not saved yet.
RoundsOnce ==
    /\ playing => screen = "active" /\ ~finished
    /\ screen = "active" => round > 0
    /\ \A i \in DOMAIN saves : saves[i].round <= round
    /\ screen = "active" /\ ~finished => \A i \in DOMAIN saves : saves[i].round # round
    /\ \A i, j \in DOMAIN saves : saves[i].round = saves[j].round /\ i # j => saves[i].round = 0

\* The row stands for the scores that arrived, and is there once one found it.
RowIsScores ==
    /\ row = None => \A i \in DOMAIN saves : saves[i].at \in {"sent", "lost"}
    /\ row # None => /\ row.plays = Cardinality(Counted)
                     /\ \E i \in Counted : row.best = saves[i].score
                     /\ \A i \in Counted : saves[i].score <= row.best

GameInv == GameTypeOK /\ RoundsOnce /\ RowIsScores
=============================================================================
