------------------------------- MODULE MCData -------------------------------
(***************************************************************************)
(* The components that keep the data of the users, checked in one run.     *)
(* They share no variable: interleaving them would only multiply their     *)
(* states, so a behaviour moves one of them, its part, and leaves the      *)
(* others as they start.                                                   *)
(***************************************************************************)
EXTENDS Account, WordStore, DailyStreak, Backup, Journal, TLC

VARIABLE part  \* the component that moves

Parts == {"account", "words", "streak", "backup", "journal"}

dataVars == <<part, accountVars, storeVars, streakVars, backupVars, journalVars>>

\* Where a component may start in several ways, it takes one while it rests; the
\* detail shared at first is not one of those that are interchangeable below.
Rests(p, start) == part = p \/ start

DataInit ==
    /\ part \in Parts
    /\ AccountInit
    /\ WordInit
    /\ StreakInit
    /\ BackupInit /\ Rests("backup", db["main"] = {})
    /\ JournalInit
    /\ \A e \in entries : e[1] \notin Emails

\* Only p moves, with the faults of its own.
Only(p) ==
    /\ part = p
    /\ UNCHANGED part
    /\ IF p = "account" THEN TRUE ELSE UNCHANGED accountVars
    /\ IF p = "words" THEN TRUE ELSE UNCHANGED storeVars
    /\ IF p = "streak" THEN TRUE ELSE UNCHANGED streakVars
    /\ IF p = "backup" THEN TRUE
       ELSE UNCHANGED <<run, stage, files, dumpVars, bucket, verified, uploaded, restoreVars>>
    /\ IF p = "journal" THEN TRUE ELSE UNCHANGED <<activityVars, listVars, late>>
    /\ IF p \in {"backup", "journal"} THEN TRUE ELSE UNCHANGED faults

DataNext ==
    \/ Only("account") /\ AccountNext
    \/ Only("words") /\ WordNext
    \/ Only("streak") /\ StreakNext
    \/ Only("backup") /\ BackupNext
    \/ Only("journal") /\ JournalNext

DataSpec == DataInit /\ [][DataNext]_dataVars

-----------------------------------------------------------------------------
\* Accounts and packages, addresses and details, and the requests come in pairs
\* that are interchangeable in every part that has them.
Symmetry ==
    {f @@ g @@ h : f \in Permutations(Users), g \in Permutations(Emails),
                   h \in Permutations(Requests)}
=============================================================================
