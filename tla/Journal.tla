------------------------------- MODULE Journal -------------------------------
(***************************************************************************)
(* The activity journal of a user: the rows that requests and the worker   *)
(* of a job write (api: activity/activity-log.service.ts), the pages the   *)
(* API cuts them into (activity/activity-query.service.ts), and the list   *)
(* the dashboard grows and reads again (web: hooks/use-activities.ts).     *)
(***************************************************************************)
EXTENDS NoValue, FaultBudget, Sequences, SequencesExt, FiniteSets

CONSTANTS PageSize,   \* items of a page
          Total,      \* words of the job
          MaxActivities, \* modelling bound: rows
          MaxSeconds     \* modelling bound: the clock

VARIABLES second,     \* occurred_at has a precision of one second
          recorded,   \* user_activities
          dated,      \* rows whose date is taken and that are not in the table yet
          journal,    \* the pages of the query, with the cursor of the next one
          loading,    \* the fetch under way, None without one
          late        \* history: rows stored since the reading of what is listed began, not listed

activityVars == <<second, recorded, dated>>
listVars == <<journal, loading>>
journalVars == <<activityVars, listVars, late, faults>>

\* Identifiers are random: their order says nothing of the order of the rows.
Ids == 1..MaxActivities

Cursors == [id : Nat, at : Nat]

ASSUME JournalAssumption ==
    /\ PageSize \in Nat \ {0} /\ Total \in Nat \ {0} /\ MaxActivities \in Nat
    /\ None \notin Cursors

JournalInit ==
    /\ second = 1
    /\ recorded = {} /\ dated = {}
    /\ journal = <<>>
    /\ loading = None
    /\ late = {}
    /\ faults = 0

-----------------------------------------------------------------------------
(* The rows                                                                *)

SecondPasses ==
    /\ second < MaxSeconds
    /\ second' = second + 1
    /\ NoFault
    /\ UNCHANGED <<recorded, dated, listVars, late>>

DatedNow(status, phase) ==
    \E i \in Ids \ {a.id : a \in recorded \cup dated} :
        dated' = dated \cup {[id |-> i, at |-> second, status |-> status,
                              phase |-> phase, current |-> 0]}

\* An event that ends within its request.
Succeeded == DatedNow("ended", None)

\* A job: one is enough to see its row change.
Started ==
    /\ \A a \in recorded \cup dated : a.phase = None
    /\ DatedNow("running", "parsing")

Record ==
    /\ Succeeded \/ Started
    /\ NoFault
    /\ UNCHANGED <<second, recorded, listVars, late>>

\* The row is there for the others once its transaction commits.
Store(a) ==
    /\ dated' = dated \ {a}
    /\ recorded' = recorded \cup {a}
    /\ late' = late \cup {a.id}
    /\ loading' = IF loading = None THEN None ELSE [loading EXCEPT !.late = @ \cup {a.id}]
    /\ NoFault
    /\ UNCHANGED <<second, journal>>

Rewrite(a, b) ==
    /\ recorded' = (recorded \ {a}) \cup {b}
    /\ NoFault
    /\ UNCHANGED <<second, dated, listVars, late>>

\* What a run reports: one progress stands for those of its phase.
Reports == {[phase |-> "parsing", current |-> 0], [phase |-> "gemini", current |-> Total],
            [phase |-> "saving", current |-> Total]}

\* The progress of a first run or of a second one; an ended row keeps what it says.
Advance(a) ==
    /\ a.status = "running"
    /\ \E r \in Reports : Rewrite(a, [a EXCEPT !.phase = r.phase, !.current = r.current])

\* The end of the job, whatever the row says: the list tells a success from a failure
\* by words only.
FinishJob(a) ==
    /\ a.phase # None
    /\ Rewrite(a, [a EXCEPT !.status = "ended", !.phase = "done", !.current = Total])

-----------------------------------------------------------------------------
(* The pages of the API                                                    *)

\* Newest first; rows of one second by their identifiers.
Newer(a, b) == a.at > b.at \/ (a.at = b.at /\ a.id > b.id)

Rounded(n, d) == (2 * n + d) \div (2 * d)

\* One bar: the enrichment is its first half, saving the second.
Percent(a) ==
    IF a.status # "running" THEN None
    ELSE CASE a.phase = "done" -> 100
           [] a.phase = "saving" -> Rounded(50 * (Total + a.current), Total)
           [] a.phase = "gemini" -> Rounded(50 * a.current, Total)
           [] OTHER -> 0

\* The bar stands for the status: there is one while the job runs.
Item(a) == [id |-> a.id, at |-> a.at, percent |-> Percent(a)]

\* Variant: the cursor is a date.
AfterDate(a, cursor) == a.at < cursor.at

\* The rows after the one a page ended with.
AfterCursor(a, cursor) == Newer(cursor, a)

\* What a page ends with, handed to the client and back.
Cursor(a) == [id |-> a.id, at |-> a.at]

\* ORDER BY: each row stands after those that are newer.
NewestFirst(S) ==
    [n \in 1..Cardinality(S) |-> CHOOSE a \in S : Cardinality({b \in S : Newer(b, a)}) + 1 = n]

\* One row more is read than the page holds: there is a next page if it exists.
PageAfter(cursor) ==
    LET rows == NewestFirst({a \in recorded : cursor = None \/ AfterCursor(a, cursor)})
    IN  [items |-> [n \in 1..(IF Len(rows) > PageSize THEN PageSize ELSE Len(rows)) |-> Item(rows[n])],
         next |-> IF Len(rows) > PageSize THEN Cursor(rows[PageSize]) ELSE None]

-----------------------------------------------------------------------------
(* The list of the dashboard                                               *)

\* Page by page: the n-th item of page m stands at <<m, n>>.
Places(pages) == UNION {{m} \X DOMAIN pages[m].items : m \in DOMAIN pages}
ItemAt(pages, p) == pages[p[1]].items[p[2]]
ItemsOf(pages) == {ItemAt(pages, p) : p \in Places(pages)}
Above(p, q) == p[1] < q[1] \/ (p[1] = q[1] /\ p[2] < q[2])

\* Read from the first page on, as many pages as there are: when the dashboard opens
\* or gets the focus, when a job reports, every 3 s while one runs.
Reread ==
    /\ loading = None
    /\ loading' = [kind |-> "all", pages |-> <<>>,
                   wanted |-> IF journal = <<>> THEN 1 ELSE Len(journal), late |-> {}]
    /\ NoFault
    /\ UNCHANGED <<activityVars, journal, late>>

\* "Voir plus": a reading of all the pages is given up for it.
LoadMore ==
    /\ journal # <<>> /\ Last(journal).next # None
    /\ ~(loading # None /\ loading.kind = "more")
    /\ loading' = [kind |-> "more", pages |-> journal, wanted |-> Len(journal) + 1, late |-> {}]
    /\ NoFault
    /\ UNCHANGED <<activityVars, journal, late>>

NextCursor == IF loading.pages = <<>> THEN None ELSE Last(loading.pages).next
AllRead == \/ Len(loading.pages) = loading.wanted
           \/ loading.pages # <<>> /\ NextCursor = None

ReadPage ==
    /\ loading # None /\ ~AllRead
    /\ loading' = [loading EXCEPT !.pages = Append(@, PageAfter(NextCursor))]
    /\ NoFault
    /\ UNCHANGED <<activityVars, journal, late>>

ShowPages ==
    /\ loading # None /\ AllRead
    /\ journal' = loading.pages
    /\ late' = (IF loading.kind = "all" THEN loading.late ELSE late)
                    \ {a.id : a \in ItemsOf(loading.pages)}
    /\ loading' = None
    /\ NoFault
    /\ UNCHANGED activityVars

\* The pages stay as they were.
LoadFails ==
    /\ loading # None
    /\ loading' = None
    /\ Fault
    /\ UNCHANGED <<activityVars, journal, late>>

JournalNext ==
    \/ SecondPasses \/ Record
    \/ \E a \in dated : Store(a)
    \/ \E a \in recorded : Advance(a) \/ FinishJob(a)
    \/ Reread \/ LoadMore \/ ReadPage \/ ShowPages \/ LoadFails

JournalSpec == JournalInit /\ [][JournalNext]_journalVars

-----------------------------------------------------------------------------
(* Properties                                                              *)

\* The pages put end to end list each row once, newest first, and leave none out
\* that was there when they were read, rows of one second included
\* (activity-query.service.ts:16).
JournalIsWhole ==
    /\ \A p, q \in Places(journal) : Above(p, q) => Newer(ItemAt(journal, p), ItemAt(journal, q))
    /\ journal # <<>> =>
           \A a \in recorded :
               a.id \in late \/ (Last(journal).next # None /\ Newer(Last(journal).next, a))
                   \/ \E item \in ItemsOf(journal) : item.id = a.id

-----------------------------------------------------------------------------
(* The invariant it rests on.                                              *)

JournalRows == [id : Ids, at : Nat, status : {"ended", "running"},
         phase : {None, "parsing", "gemini", "saving", "done"}, current : Nat]
Items == [id : Nat, at : Nat, percent : Nat \cup {None}]
Pages == [items : Seq(Items), next : Cursors \cup {None}]

RowsTyped ==
    /\ second \in Nat
    /\ recorded \subseteq JournalRows /\ dated \subseteq JournalRows
    /\ \A a, b \in recorded \cup dated : a.id = b.id => a = b
    /\ recorded \cap dated = {}

\* A page is sorted and ends with its cursor; the next ones hold what is older.
GoodPages(pages) ==
    /\ pages \in Seq(Pages)
    /\ \A m \in DOMAIN pages :
        /\ \A i, j \in DOMAIN pages[m].items : i < j => Newer(pages[m].items[i], pages[m].items[j])
        /\ m < Len(pages) => pages[m].next # None
        /\ pages[m].next # None =>
               \A i \in DOMAIN pages[m].items :
                   LET item == pages[m].items[i]
                   IN Newer(item, pages[m].next) \/ Cursor(item) = pages[m].next
        /\ \A n \in DOMAIN pages : m < n =>
               /\ \A i \in DOMAIN pages[n].items : Newer(pages[m].next, pages[n].items[i])
               /\ pages[n].next # None => Newer(pages[m].next, pages[n].next)

\* Every row is on a page, older than the last one, or was stored since.
WholePages(rows, pages, since) ==
    pages # <<>> =>
        \A a \in rows :
            a.id \in since \/ (Last(pages).next # None /\ Newer(Last(pages).next, a))
                \/ \E item \in ItemsOf(pages) : item.id = a.id

JournalInv ==
    /\ RowsTyped
    /\ GoodPages(journal) /\ WholePages(recorded, journal, late)
    /\ loading # None =>
        /\ GoodPages(loading.pages)
        /\ WholePages(recorded, loading.pages, IF loading.kind = "all" THEN loading.late ELSE late)
        /\ loading.wanted \in Nat \ {0}
        /\ loading = [kind |-> loading.kind, pages |-> loading.pages,
                      wanted |-> loading.wanted, late |-> loading.late]
=============================================================================
