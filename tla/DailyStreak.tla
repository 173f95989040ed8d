---------------------------- MODULE DailyStreak ----------------------------
(***************************************************************************)
(* The streak of one user: checkAndUpdateStreak of learning.service.ts,    *)
(* run by concurrent requests around midnight.  A request reads the row,   *)
(* then takes the time and computes the new streak, then writes it under a *)
(* condition on the row.  A date is the number of its calendar day.        *)
(***************************************************************************)
EXTENDS ApiRequests, Integers

CONSTANT MaxDay  \* modelling bound: days

ASSUME StreakAssumption == MaxDay \in Nat \ {0}

VARIABLES today,    \* the calendar day of the server
          streak,   \* users.streak
          last,     \* the day of users.streak_updated_at, Never when it is null
          turn,    \* step of each request
          seen,     \* the row it read
          day,      \* the day it took as its own
          pending,  \* the streak it computed
          active    \* history: the days an activity was recorded on

rowVars == <<streak, last>>
turnVars == <<turn, seen, day, pending>>
streakVars == <<today, rowVars, turnVars, active>>

Days == 1..MaxDay
Never == 0

Row == [streak |-> streak, last |-> last]
NoRow == [streak |-> 0, last |-> Never]
Rows == [streak : Nat, last : Days \cup {Never}]

StreakInit ==
    /\ today = 1
    /\ streak = 0
    /\ last = Never
    /\ turn = [r \in Requests |-> "idle"]
    /\ seen = [r \in Requests |-> NoRow]
    /\ day = [r \in Requests |-> Never]
    /\ pending = [r \in Requests |-> 0]
    /\ active = {}

StreakTypeOK ==
    /\ today \in Days
    /\ Row \in Rows
    /\ turn \in [Requests -> {"idle", "read", "computed", "done"}]
    /\ seen \in [Requests -> Rows]
    /\ day \in [Requests -> Days \cup {Never}]
    /\ pending \in [Requests -> Nat]
    /\ active \in SUBSET Days

-----------------------------------------------------------------------------
StepsTo(r, from, to) ==
    /\ turn[r] = from
    /\ turn' = [turn EXCEPT ![r] = to]

ReadRow(r) ==
    /\ StepsTo(r, "idle", "read")
    /\ seen' = [seen EXCEPT ![r] = Row]
    /\ UNCHANGED <<today, rowVars, day, pending, active>>

\* Recorded today already.
FindRecorded(r) ==
    /\ StepsTo(r, "read", "done")
    /\ seen[r].last >= today
    /\ UNCHANGED <<today, rowVars, seen, day, pending, active>>

\* Variant: a gap does not break the streak.
NeverBroken(row) == row.streak + 1

\* Consecutive day: one more.  The first activity, or a gap: one.
NewStreak(row) ==
    IF row.last # Never /\ row.last >= today - 1 THEN row.streak + 1 ELSE 1

Compute(r) ==
    /\ StepsTo(r, "read", "computed")
    /\ seen[r].last < today
    /\ day' = [day EXCEPT ![r] = today]
    /\ pending' = [pending EXCEPT ![r] = NewStreak(seen[r])]
    /\ UNCHANGED <<today, rowVars, seen, active>>

\* updateMany where streak_updated_at is null or before the day of the request.
Writable(r) == last < day[r]

WriteStreak(r) ==
    /\ StepsTo(r, "computed", "done")
    /\ Writable(r)
    /\ streak' = pending[r]
    /\ last' = day[r]
    /\ active' = active \cup {day[r]}
    /\ UNCHANGED <<today, seen, day, pending>>

\* Another request of the day, or of a later one, wrote first.
SkipWrite(r) ==
    /\ StepsTo(r, "computed", "done")
    /\ ~Writable(r)
    /\ UNCHANGED <<today, rowVars, seen, day, pending, active>>

\* The answer, or a query that failed; the user may finish another session.
EndUpdate(r) ==
    /\ turn[r] # "idle"
    /\ turn' = [turn EXCEPT ![r] = "idle"]
    /\ seen' = [seen EXCEPT ![r] = NoRow]
    /\ day' = [day EXCEPT ![r] = Never]
    /\ pending' = [pending EXCEPT ![r] = 0]
    /\ UNCHANGED <<today, rowVars, active>>

Midnight ==
    /\ today < MaxDay
    /\ today' = today + 1
    /\ UNCHANGED <<rowVars, turnVars, active>>

Update(r) ==
    \/ ReadRow(r)
    \/ FindRecorded(r)
    \/ Compute(r)
    \/ WriteStreak(r)
    \/ SkipWrite(r)
    \/ EndUpdate(r)

StreakNext == (\E r \in Requests : Update(r)) \/ Midnight

StreakSpec == StreakInit /\ [][StreakNext]_streakVars

-----------------------------------------------------------------------------
(* Properties                                                              *)

\* Days before d, n of them, that all had an activity recorded.
Earned(n, d) == \A k \in 1..n : d - k \in active

\* A streak stands for an activity recorded on each of that many days, up to
\* the last one: no race of requests, at midnight or not, counts a day twice
\* or a day without activity (learning.service.ts:148).
StreakIsEarned == Earned(streak, last + 1)

\* A request that is late never takes the row back to an earlier day, so that
\* the next one of the day would count again (learning.service.ts:156).
LastAdvances == [][last' >= last]_last

-----------------------------------------------------------------------------
(* The inductive invariant behind StreakIsEarned                           *)

\* What a request read was earned, and so is what it is about to write: days
\* stay active.
SeenIsEarned == \A r \in Requests : Earned(seen[r].streak, seen[r].last + 1)

PendingIsEarned ==
    \A r \in Requests : turn[r] = "computed" =>
        /\ day[r] \in Days
        /\ Earned(pending[r] - 1, day[r])

StreakIInv == StreakTypeOK /\ StreakIsEarned /\ SeenIsEarned /\ PendingIsEarned
=============================================================================
