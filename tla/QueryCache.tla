------------------------------ MODULE QueryCache ------------------------------
(***************************************************************************)
(* What a page shows of the server: the React Query cache of the browser   *)
(* (query-keys.ts and the hooks that invalidate it) in front of the cached *)
(* dashboard of the API (dashboard.service.ts, InvalidateDashboard).       *)
(* Queries do not influence one another, so one of them is followed.       *)
(* Instead of values, an entry says whether it is outdated; `excused' says *)
(* that it was read while a change was under way, or that an answer or an  *)
(* invalidation was lost.                                                  *)
(***************************************************************************)
EXTENDS NoValue, FaultBudget

CONSTANTS Changes,  \* requests that change data
          Sent      \* a fetch the server has not read for yet

VARIABLES query,   \* the query followed
          cached,  \* its entry in the browser
          fetch,   \* its fetch: None, Sent, or what the server read
          shown,   \* a mounted page uses it
          api,     \* the dashboard cached in Redis
          other,   \* what another device read of the dashboard, not stored yet
          change,  \* what each change does and how far it is
          fading   \* deletions whose rows fade out before the list is invalidated

queryVars == <<query, cached, fetch, shown, fading>>
dashboardVars == <<api, other>>
cacheVars == <<queryVars, dashboardVars, change, faults>>

-----------------------------------------------------------------------------
(* The tables of the hooks                                                 *)

Queries == {"words", "games", "scores", "packages", "dashboard"}

Operations == {"addWords", "updateWord", "deleteWord", "deleteAllWords", "import", "job",
               "trackGame", "saveScore", "streak", "createPackage", "updatePackage",
               "deletePackage", "togglePackage", "copyPackage"}

\* What an operation writes, and what a query reads.
Writes(op) ==
    CASE op = "saveScore" -> {"scores"}
      [] op = "streak" -> {"streak"}
      [] op \in {"createPackage", "updatePackage", "togglePackage"} -> {"packages"}
      [] op = "copyPackage" -> {"packages", "counts"}
      [] op = "deletePackage" -> {"packages", "words", "counts"}
      [] OTHER -> {"words", "counts"}

Reads(q) ==
    CASE q \in {"words", "games"} -> {"words"}
      [] q = "dashboard" -> {"counts", "packages", "streak"}
      [] OTHER -> {q}

Touches(op) == Writes(op) \cap Reads(query) # {}
TouchesDashboard(op) == Writes(op) \cap Reads("dashboard") # {}

\* The keys the hook of an operation invalidates on success.
AfterWords(op) ==
    IF op = "deleteWord" THEN {"games", "dashboard"} ELSE {"words", "games", "dashboard"}
AfterPackages(op) ==
    {"packages", "dashboard"} \cup (IF op \in {"updatePackage", "deletePackage"} THEN {"games"} ELSE {})
AfterGames(op) ==
    IF op = "saveScore" THEN {"scores"} ELSE {"words", "games", "dashboard"}
AfterImport == {"words", "games", "dashboard"}
AfterJob == {"words", "games", "dashboard", "packages"}
AfterStreak == {"dashboard"}

Invalidates(op) ==
    CASE op \in {"addWords", "updateWord", "deleteWord", "deleteAllWords"} -> AfterWords(op)
      [] op \in {"trackGame", "saveScore"} -> AfterGames(op)
      [] op = "import" -> AfterImport
      [] op = "job" -> AfterJob
      [] op = "streak" -> AfterStreak
      [] OTHER -> AfterPackages(op)

-----------------------------------------------------------------------------
(* The query in the browser                                                *)

Fetching == fetch # None
Read == fetch \notin {None, Sent}
Marked == cached # None /\ cached.marked

CacheInit ==
    /\ query \in Queries
    /\ cached = None
    /\ fetch = None
    /\ shown = FALSE
    /\ fading = {}
    /\ api = None
    /\ other = None
    /\ change = [c \in Changes |-> [op |-> None, at |-> "idle"]]
    /\ faults = 0

\* A page that uses the query opens: it is fetched if missing or stale.
Mount ==
    /\ ~shown
    /\ shown' = TRUE
    /\ fetch' = IF ~Fetching /\ (cached = None \/ Marked) THEN Sent ELSE fetch
    /\ NoFault
    /\ UNCHANGED <<query, cached, fading, dashboardVars, change>>

\* The page is left; its fetch goes on, the timers of the delete-all flow do not.
Unmount ==
    /\ shown
    /\ shown' = FALSE
    /\ fading' = fading \ {"deleteAllWords"}
    /\ NoFault
    /\ UNCHANGED <<query, cached, fetch, dashboardVars, change>>

\* staleTime is over.
GoStale ==
    /\ cached # None
    /\ cached' = [cached EXCEPT !.marked = TRUE]
    /\ NoFault
    /\ UNCHANGED <<query, fetch, shown, fading, dashboardVars, change>>

\* queryClient.clear(): another user, or the entry is collected unused.
Clear ==
    /\ ~shown
    /\ cached' = None
    /\ fetch' = None
    /\ NoFault
    /\ UNCHANGED <<query, shown, fading, dashboardVars, change>>

MarkStale == cached' = IF cached = None THEN None ELSE [cached EXCEPT !.marked = TRUE]

\* invalidateQueries(): marked, and fetched anew when a page shows it; a fetch
\* under way is only restarted if there is data already.
InvalidateQuery ==
    /\ MarkStale
    /\ fetch' = IF shown /\ (cached # None \/ ~Fetching) THEN Sent ELSE fetch

RemoveQuery ==
    /\ cached' = None
    /\ fetch' = None

\* The answer of a fetch: fresh until staleTime.
FetchAnswers ==
    /\ Read /\ fetch.stored
    /\ cached' = [outdated |-> fetch.outdated, excused |-> fetch.excused, marked |-> FALSE]
    /\ fetch' = None
    /\ NoFault
    /\ UNCHANGED <<query, shown, fading, dashboardVars, change>>

FetchFails ==
    /\ Fetching
    /\ fetch' = None
    /\ Fault
    /\ UNCHANGED <<query, cached, shown, fading, dashboardVars, change>>

-----------------------------------------------------------------------------
(* The API                                                                 *)

\* A change that writes what the dashboard shows is written, not dropped yet.
Dropping == \E c \in Changes : change[c].at \in {"written", "told"} /\ TouchesDashboard(change[c].op)

Present == [outdated |-> FALSE, excused |-> FALSE, stored |-> TRUE]

\* getStats(): the cached dashboard, or else the database.
FromApi == IF api # None THEN [api EXCEPT !.excused = @ \/ Dropping]
           ELSE [Present EXCEPT !.excused = Dropping, !.stored = FALSE]

ServerReads ==
    /\ fetch = Sent
    /\ fetch' = IF query = "dashboard" THEN FromApi ELSE Present
    /\ NoFault
    /\ UNCHANGED <<query, cached, shown, fading, dashboardVars, change>>

\* A dashboard read of the database is cached before it is answered.
StoreStats ==
    /\ Read /\ ~fetch.stored
    /\ api' = [fetch EXCEPT !.stored = TRUE]
    /\ fetch' = api'
    /\ NoFault
    /\ UNCHANGED <<query, cached, shown, fading, other, change>>

OtherReads ==
    /\ api = None
    /\ other = None
    /\ other' = FromApi
    /\ NoFault
    /\ UNCHANGED <<queryVars, api, change>>

OtherStores ==
    /\ other # None
    /\ api' = [other EXCEPT !.stored = TRUE]
    /\ other' = None
    /\ NoFault
    /\ UNCHANGED <<queryVars, change>>

\* CACHE_TTL.DASHBOARD
ApiExpires ==
    /\ api # None
    /\ api' = None
    /\ NoFault
    /\ UNCHANGED <<queryVars, other, change>>

-----------------------------------------------------------------------------
(* A change                                                                *)

GoTo(c, s) == change' = [change EXCEPT ![c] = [op |-> IF s = "idle" THEN None ELSE @.op, at |-> s]]

SubmitChange(c) ==
    /\ change[c].at = "idle"
    /\ \E op \in Operations : change' = [change EXCEPT ![c] = [op |-> op, at |-> "sent"]]
    /\ NoFault
    /\ UNCHANGED <<queryVars, dashboardVars>>

Outdate(e) == [e EXCEPT !.outdated = TRUE]
\* A read that a write overtakes is outdated before it is stored.
Overtake(e) == [e EXCEPT !.outdated = TRUE, !.excused = TRUE]

\* The handler commits.
Write(c) ==
    /\ change[c].at = "sent"
    /\ GoTo(c, "written")
    /\ LET op == change[c].op IN
       /\ cached' = IF Touches(op) /\ cached # None THEN Outdate(cached) ELSE cached
       /\ fetch' = IF Touches(op) /\ Read THEN Overtake(fetch) ELSE fetch
       /\ api' = IF TouchesDashboard(op) /\ api # None THEN Outdate(api) ELSE api
       /\ other' = IF TouchesDashboard(op) /\ other # None THEN Overtake(other) ELSE other
    /\ NoFault
    /\ UNCHANGED <<query, shown, fading>>

\* Variant: nothing drops the cached dashboard.
NeverDropped == api' = api

\* The interceptor on the routes that change words, packages or the streak, and
\* complete() in the worker.
DropDashboard == api' = None

Drop(c) ==
    /\ change[c].at = IF change[c].op = "job" THEN "told" ELSE "written"
    /\ GoTo(c, IF change[c].op = "job" THEN "idle" ELSE "dropped")
    /\ IF change[c].op = "saveScore" THEN UNCHANGED api ELSE DropDashboard
    /\ NoFault
    /\ UNCHANGED <<queryVars, other>>

\* Redis does not answer: the cached dashboard stays.
DropFails(c) ==
    /\ change[c].at = IF change[c].op = "job" THEN "told" ELSE "written"
    /\ GoTo(c, IF change[c].op = "job" THEN "idle" ELSE "dropped")
    /\ api' = IF api = None THEN None ELSE [api EXCEPT !.excused = TRUE]
    /\ Fault
    /\ UNCHANGED <<queryVars, other>>

\* onSuccess of the hook; the worker tells of a job before it drops.
Told(c) ==
    /\ change[c].at = IF change[c].op = "job" THEN "written" ELSE "dropped"
    /\ GoTo(c, IF change[c].op = "job" THEN "told" ELSE "idle")
    /\ IF query = "words" /\ change[c].op = "deletePackage" THEN RemoveQuery
       ELSE IF query = "words" /\ change[c].op = "deleteAllWords" THEN MarkStale /\ UNCHANGED fetch
       ELSE IF query \in Invalidates(change[c].op) THEN InvalidateQuery
       ELSE UNCHANGED <<cached, fetch>>
    /\ fading' = fading \cup ({change[c].op} \cap
          (IF shown THEN {"deleteWord", "deleteAllWords"} ELSE {"deleteWord"}))
    /\ NoFault
    /\ UNCHANGED <<query, shown, dashboardVars>>

\* The answer, or the event of a job, is lost: the page does not know.
FetchLost(c) ==
    /\ change[c].at = IF change[c].op = "job" THEN "written" ELSE "dropped"
    /\ GoTo(c, IF change[c].op = "job" THEN "told" ELSE "idle")
    /\ cached' = IF Touches(change[c].op) /\ cached # None THEN [cached EXCEPT !.excused = TRUE] ELSE cached
    /\ fetch' = IF Touches(change[c].op) /\ Read THEN [fetch EXCEPT !.excused = TRUE] ELSE fetch
    /\ Fault
    /\ UNCHANGED <<query, shown, fading, dashboardVars>>

\* removeWord(): the list loses its row, then is invalidated.
RowFaded ==
    /\ "deleteWord" \in fading
    /\ fading' = fading \ {"deleteWord"}
    /\ IF query = "words" THEN InvalidateQuery ELSE UNCHANGED <<cached, fetch>>
    /\ NoFault
    /\ UNCHANGED <<query, shown, dashboardVars, change>>

\* The delete-all flow: the cached lists are emptied, then invalidated.
LevelsFaded ==
    /\ "deleteAllWords" \in fading
    /\ fading' = fading \ {"deleteAllWords"}
    /\ IF query = "words" THEN InvalidateQuery ELSE UNCHANGED <<cached, fetch>>
    /\ NoFault
    /\ UNCHANGED <<query, shown, dashboardVars, change>>

Page == Mount \/ Unmount \/ GoStale \/ Clear \/ FetchAnswers \/ FetchFails
        \/ RowFaded \/ LevelsFaded
Api == ServerReads \/ StoreStats \/ OtherReads \/ OtherStores \/ ApiExpires
Changing(c) == SubmitChange(c) \/ Write(c) \/ Drop(c) \/ DropFails(c) \/ Told(c) \/ FetchLost(c)

CacheNext == Page \/ Api \/ \E c \in Changes : Changing(c)

CacheSpec == CacheInit /\ [][CacheNext]_cacheVars

-----------------------------------------------------------------------------
(* Properties                                                              *)

\* A change the page still waits to hear of.
FetchAwaited == "deleteWord" \in fading \/ \E c \in Changes : change[c].at # "idle"

\* An outdated entry is not taken for fresh, except when it was read while a
\* change was under way or when something was lost: each hook invalidates all
\* that its operation changes, and the API drops the dashboard after it wrote
\* and before it answers (query-keys.ts:25, invalidate-dashboard.interceptor.ts:20).
StaleIsExcused ==
    cached # None /\ cached.outdated /\ ~cached.marked => FetchAwaited \/ cached.excused
-----------------------------------------------------------------------------
(* The invariant it rests on.                                              *)

Entries == [outdated : BOOLEAN, excused : BOOLEAN, marked : BOOLEAN]
StatsRead == [outdated : BOOLEAN, excused : BOOLEAN, stored : BOOLEAN]
ChangeSteps == {"idle", "sent", "written", "told", "dropped"}

CacheTypeOK ==
    /\ query \in Queries
    /\ cached \in Entries \cup {None}
    /\ fetch \in StatsRead \cup {None, Sent}
    /\ shown \in BOOLEAN
    /\ api \in StatsRead \cup {None} /\ other \in StatsRead \cup {None}
    /\ change \in [Changes -> [op : Operations \cup {None}, at : ChangeSteps]]
    /\ \A c \in Changes : change[c].at # "idle" => change[c].op \in Operations

\* The page will hear of c, and c changed what it shows.
Awaited(c) ==
    /\ change[c].at \in IF change[c].op = "job" THEN {"written"} ELSE {"written", "dropped"}
    /\ Touches(change[c].op)

\* What was read and is not stored yet is outdated only if a write overtook it; the
\* dashboard in Redis, while the write drops it; the entry of the page, until the page
\* hears of it.
CacheInv ==
    /\ CacheTypeOK
    /\ Read /\ fetch.outdated => fetch.excused
    /\ other # None /\ other.outdated => other.excused
    /\ api # None /\ api.outdated => api.excused \/ Dropping
    /\ cached # None /\ cached.outdated /\ ~cached.marked =>
         \/ cached.excused
         \/ query = "words" /\ "deleteWord" \in fading
         \/ \E c \in Changes : Awaited(c)
=============================================================================
