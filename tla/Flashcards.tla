------------------------------ MODULE Flashcards ------------------------------
(***************************************************************************)
(* A flashcard session (use-flashcard-session.ts): a deck, the marks of    *)
(* its cards, the card shown, which lags behind them while it is redrawn,  *)
(* the delayed callbacks of the animations, and the session kept in the    *)
(* browser (progress-storage.ts).  Delays differ and timers are late, so a *)
(* pending callback runs at any time.                                      *)
(***************************************************************************)
EXTENDS NoValue, Naturals, SequencesExt

CONSTANTS Cards,
          MaxPending, MaxMoves, MaxDraws  \* bounds: callbacks pending, moves and redraws of a visit

ASSUME CardsAssumption == IsFiniteSet(Cards)

VARIABLES inSession, \* the page is open
          pool,     \* the words the filters let through
          deck, progress, index,
          card,     \* the word shown
          settling, \* settlingRef
          drawn,    \* redrawGeneration
          move,     \* moveRef
          counted,  \* streakRecordedRef
          callbacks,  \* callbacks scheduled
          saved,    \* localStorage: [words, progress]
          given,    \* history: the mark given to each word since the last fresh start
          streaks   \* history: onComplete() since the last fresh start

deckVars == <<deck, progress, index, saved, given>>
cardVars == <<card, settling, drawn>>
flashVars == <<inSession, pool, deckVars, cardVars, move, counted, callbacks, streaks>>

Unmarked == 9  \* -1 in the code
Marks == {0, 2}

-----------------------------------------------------------------------------
(* Deck and storage                                                        *)

\* The words of S in the order of the package: there is one such deck.
AllWords == SetToSeq(Cards)
Before(v, w) == \E i, j \in DOMAIN AllWords : i < j /\ AllWords[i] = v /\ AllWords[j] = w
BuildDeck(S) == {d \in SetToSeqs(S) : \A i, j \in DOMAIN d : i < j => Before(d[i], d[j])}
FreshProgress(d) == [i \in DOMAIN d |-> Unmarked]
NoMarks == [w \in Cards |-> Unmarked]

\* Variant: the marks come back, the order of the deck does not.
LoadedInOrder(d) == [words |-> d, progress |-> saved.progress]

\* The saved order comes back with its marks.
Loaded(d) == saved

\* loadProgress(): only for exactly the same words.
Matches(d) == saved # None /\ ToSet(saved.words) = ToSet(d) /\ Len(saved.words) = Len(d)

\* The effect that saves each deck with its marks.
SetDeck(d, p) ==
    /\ deck' = d /\ progress' = p
    /\ saved' = [words |-> d, progress |-> p]

FlashInit ==
    /\ inSession = FALSE
    /\ pool \in SUBSET Cards
    /\ deck = <<>> /\ progress = <<>> /\ index = 1
    /\ card = None /\ settling = FALSE /\ drawn = 0
    /\ move = 0 /\ counted = FALSE
    /\ callbacks = {}
    /\ saved = None
    /\ given = NoMarks
    /\ streaks = 0

\* LearnSession mounts: the words are those of today, or others than last time.
Enter ==
    /\ ~inSession
    /\ inSession' = TRUE
    /\ pool' \in SUBSET Cards
    /\ \E d \in BuildDeck(pool') :
       LET restored == Matches(d)
           start == IF restored THEN Loaded(d) ELSE [words |-> d, progress |-> FreshProgress(d)]
       IN /\ SetDeck(start.words, start.progress)
          /\ given' = IF restored THEN given ELSE NoMarks
          /\ card' = IF start.words = <<>> THEN None ELSE Head(start.words)
    /\ index' = 1 /\ settling' = FALSE /\ drawn' = 0 /\ move' = 0 /\ counted' = FALSE /\ streaks' = 0
    /\ UNCHANGED callbacks

\* The page is left, or its words change: the pending callbacks are cancelled.
LeaveSession ==
    /\ inSession
    /\ inSession' = FALSE
    /\ callbacks' = {}
    /\ UNCHANGED <<pool, deckVars, cardVars, move, counted, streaks>>

-----------------------------------------------------------------------------
(* Redrawing                                                               *)

\* redrawCard() of a deck: an empty one shows at once that it is empty.
Redraw(d, i, rest) ==
    IF d = <<>>
    THEN /\ card' = None
         /\ callbacks' = rest
         /\ UNCHANGED <<settling, drawn>>
    ELSE /\ drawn' = drawn + 1
         /\ settling' = TRUE
         /\ callbacks' = rest \cup {[what |-> "draw", id |-> drawn + 1, word |-> d[i]]}
         /\ UNCHANGED card

Due(p, what) == p \in callbacks /\ p.what = what
Soon(what) == [what |-> what, id |-> move', word |-> None]

\* 150 ms later the content is swapped, 50 ms later it has settled.
Draw(p) ==
    /\ Due(p, "draw")
    /\ IF p.id = drawn
       THEN /\ card' = p.word
            /\ callbacks' = (callbacks \ {p}) \cup {[p EXCEPT !.what = "settle", !.word = None]}
       ELSE callbacks' = callbacks \ {p} /\ UNCHANGED card
    /\ UNCHANGED <<inSession, pool, deckVars, settling, drawn, move, counted, streaks>>

SettleCard(p) ==
    /\ Due(p, "settle")
    /\ callbacks' = callbacks \ {p}
    /\ settling' = (settling /\ p.id # drawn)
    /\ UNCHANGED <<inSession, pool, deckVars, card, drawn, move, counted, streaks>>

-----------------------------------------------------------------------------
(* What the user does                                                      *)

Acts ==
    /\ inSession
    /\ Cardinality(callbacks) < MaxPending /\ move < MaxMoves /\ drawn < MaxDraws  \* bounds

BeginMove == move' = move + 1
InDeck(i) == i \in DOMAIN deck

\* Another level or another mode of vocabulary.
StartDeck ==
    /\ Acts /\ BeginMove
    /\ pool' \in SUBSET Cards
    /\ \E d \in BuildDeck(pool') : SetDeck(d, FreshProgress(d)) /\ Redraw(d, 1, callbacks)
    /\ index' = 1 /\ given' = NoMarks /\ counted' = FALSE /\ streaks' = 0
    /\ UNCHANGED inSession

\* The side of the card that is shown first; it is redrawn 400 ms later.
ChangeMode ==
    /\ Acts /\ BeginMove
    /\ callbacks' = callbacks \cup {Soon("redraw")}
    /\ UNCHANGED <<inSession, pool, deckVars, cardVars, counted, streaks>>

GoPrev ==
    /\ Acts /\ index > 1 /\ BeginMove
    /\ callbacks' = callbacks \cup {Soon("prev")}
    /\ UNCHANGED <<inSession, pool, deckVars, cardVars, counted, streaks>>

GoNext ==
    /\ Acts /\ InDeck(index + 1) /\ BeginMove
    /\ callbacks' = callbacks \cup {Soon("next")}
    /\ UNCHANGED <<inSession, pool, deckVars, cardVars, counted, streaks>>

JumpTo ==
    /\ Acts /\ BeginMove
    /\ index' \in DOMAIN deck
    /\ Redraw(deck, index', callbacks)
    /\ UNCHANGED <<inSession, pool, deck, progress, saved, given, counted, streaks>>

\* A mark in the window of a redraw would hit the next word.
Markable == ~settling /\ deck # <<>>

MarkCard(level) ==
    /\ Acts /\ Markable /\ BeginMove
    /\ LET next == [progress EXCEPT ![index] = level]
           done == ~counted /\ \A i \in DOMAIN next : next[i] = 2
       IN /\ SetDeck(deck, next)
          /\ counted' = (counted \/ done)
          /\ streaks' = IF done THEN streaks + 1 ELSE streaks
    /\ given' = [given EXCEPT ![deck[index]] = level]
    /\ callbacks' = callbacks \cup {Soon("marked")}
    /\ UNCHANGED <<inSession, pool, index, cardVars>>

\* The deck is shuffled at once, the card redrawn 600 ms later.
Shuffle ==
    /\ Acts /\ BeginMove
    /\ \E d \in SetToSeqs(ToSet(deck)) : SetDeck(d, FreshProgress(d))
    /\ index' = 1 /\ given' = NoMarks /\ counted' = FALSE /\ streaks' = 0
    /\ callbacks' = callbacks \cup {Soon("shuffled")}
    /\ UNCHANGED <<inSession, pool, cardVars>>

\* Confirmed in the dialog: the streak may be recorded again.
Reset ==
    /\ Acts /\ BeginMove
    /\ counted' = FALSE /\ streaks' = 0
    /\ callbacks' = callbacks \cup {Soon("reset")}
    /\ UNCHANGED <<inSession, pool, deckVars, cardVars>>

-----------------------------------------------------------------------------
(* The delayed callbacks                                                   *)

Latest(p) == p.id = move

\* A later move replaces this one.
ReplacedDeck(p) ==
    /\ p \in callbacks /\ p.what \in {"prev", "next", "marked", "reset"} /\ ~Latest(p)
    /\ callbacks' = callbacks \ {p}
    /\ UNCHANGED <<inSession, pool, deckVars, cardVars, move, counted, streaks>>

MovedTo(p, i) ==
    /\ index' = i
    /\ Redraw(deck, i, callbacks \ {p})
    /\ UNCHANGED <<inSession, pool, deck, progress, saved, given, move, counted, streaks>>

Back(p) == Due(p, "prev") /\ Latest(p) /\ MovedTo(p, IF index > 1 THEN index - 1 ELSE 1)

Advance(p) == Due(p, "next") /\ Latest(p) /\ MovedTo(p, IF InDeck(index + 1) THEN index + 1 ELSE Len(deck))

\* The mark was shown: the next card slides in.
MarkShown(p) ==
    /\ Due(p, "marked") /\ Latest(p)
    /\ callbacks' = (callbacks \ {p}) \cup
                  (IF InDeck(index + 1) THEN {[p EXCEPT !.what = "next"]} ELSE {})
    /\ UNCHANGED <<inSession, pool, deckVars, cardVars, move, counted, streaks>>

RedrawLater(p) ==
    /\ p \in callbacks /\ p.what \in {"redraw", "shuffled"}
    /\ Redraw(deck, index, callbacks \ {p})
    /\ UNCHANGED <<inSession, pool, deckVars, move, counted, streaks>>

ResetDone(p) ==
    /\ Due(p, "reset") /\ Latest(p)
    /\ SetDeck(deck, FreshProgress(deck))
    /\ index' = 1 /\ given' = NoMarks
    /\ Redraw(deck, 1, callbacks \ {p})
    /\ UNCHANGED <<inSession, pool, move, counted, streaks>>

User == StartDeck \/ ChangeMode \/ GoPrev \/ GoNext \/ JumpTo \/ (\E l \in Marks : MarkCard(l))
        \/ Shuffle \/ Reset
Elapses(p) == Draw(p) \/ SettleCard(p) \/ ReplacedDeck(p) \/ Back(p) \/ Advance(p) \/ MarkShown(p)
            \/ RedrawLater(p) \/ ResetDone(p)

FlashNext == Enter \/ LeaveSession \/ User \/ \E p \in callbacks : Elapses(p)

FlashSpec == FlashInit /\ [][FlashNext]_flashVars

-----------------------------------------------------------------------------
(* Properties                                                              *)

Shuffling == \E p \in callbacks : p.what = "shuffled"

\* A mark hits the word the card shows, as the comment on settlingRef has it
\* (use-flashcard-session.ts:66).
MarksAlwaysHitTheCard == inSession /\ Markable => card = deck[index]

\* A mark goes to the word the card shows: the index never moves ahead of the card unless
\* the card is settling, or for the 600 ms of a shuffle (see MarksAlwaysHitTheCard).  It
\* stays on its word through filters, shuffles and a new visit that
\* restores the session, and a pass through the deck counts for the streak once
\* (progress-storage.ts:31, use-flashcard-session.ts:209).
MarksStayOnWords ==
    /\ inSession /\ Markable /\ ~Shuffling => card = deck[index]
    /\ inSession => \A i \in DOMAIN deck : progress[i] = given[deck[i]]
    /\ streaks <= 1
-----------------------------------------------------------------------------
(* The invariant it rests on.                                              *)

CallbackKinds == {"draw", "settle", "redraw", "prev", "next", "marked", "shuffled", "reset"}
Callbacks == [what : CallbackKinds, id : Nat, word : Cards \cup {None}]

FlashTypeOK ==
    /\ inSession \in BOOLEAN /\ settling \in BOOLEAN /\ counted \in BOOLEAN
    /\ deck \in Seq(Cards) /\ progress \in [DOMAIN deck -> Marks \cup {Unmarked}]
    /\ index \in Nat /\ drawn \in Nat /\ move \in Nat
    /\ callbacks \subseteq Callbacks
    /\ given \in [Cards -> Marks \cup {Unmarked}]
    /\ inSession => IF deck = <<>> THEN index = 1 ELSE index \in DOMAIN deck
    /\ ~inSession => callbacks = {}

\* A word is in the deck once, under the mark it was given; what is saved is this deck.
DeckMarked ==
    /\ \A i, j \in DOMAIN deck : deck[i] = deck[j] => i = j
    /\ \A i \in DOMAIN deck : progress[i] = given[deck[i]]
    /\ saved # None => saved = [words |-> deck, progress |-> progress]

\* The latest redraw carries the word at the index, and has shown it once it settles.
RedrawsWord ==
    inSession /\ deck # <<>> /\ ~Shuffling =>
        /\ ~settling => card = deck[index]
        /\ \A p \in callbacks : /\ Due(p, "draw") /\ p.id = drawn => p.word = deck[index]
                                /\ Due(p, "settle") /\ p.id = drawn => card = deck[index]

\* Redraws and moves are numbered; a move that is still the latest has a deck to move in.
Numbered ==
    \A p \in callbacks : /\ p.what \in {"draw", "settle"} => p.id <= drawn
                         /\ p.what \in {"prev", "next", "marked"} => p.id <= move
                         /\ p.what \in {"prev", "next", "marked"} /\ Latest(p) => deck # <<>>

CountedOnce == streaks \in {0, 1} /\ (~counted => streaks = 0)

FlashInv == FlashTypeOK /\ DeckMarked /\ RedrawsWord /\ Numbered /\ CountedOnce
=============================================================================
