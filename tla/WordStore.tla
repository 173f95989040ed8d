----------------------------- MODULE WordStore -----------------------------
(***************************************************************************)
(* Packages and their words: words.service.ts and packages.service.ts.  A  *)
(* package has entries (rows of learning), each naming a row of            *)
(* word_details.  Packages copied by the old application share such rows,  *)
(* the present one never shares a row again.                               *)
(*                                                                         *)
(* What a row holds is the set of requests that edited it, each a field of *)
(* its own.  A transaction is the snapshot its first query reads and, for  *)
(* InnoDB locks what it writes, one step of writing; it may be rolled back *)
(* as a deadlock victim and rerun.  Mode and activation of a package say   *)
(* who may ask, and change nothing here.                                   *)
(***************************************************************************)
EXTENDS ApiRequests, Naturals, FiniteSets

CONSTANTS Packages,  \* ids of packages, each given once
          Details,   \* ids of word_details, each given once
          Legacy,    \* the packages of the old application
          MaxEntries \* bound: words of a package to which one is added

ASSUME WordAssumption == IsFiniteSet(Packages) /\ IsFiniteSet(Details) /\ Legacy \subseteq Packages

VARIABLES package,  \* the row of each package: "never", "kept" or "gone"
          detail,   \* the row of each detail
          entries,  \* the rows of learning: <<detail, package>>
          work      \* what each request is doing

storeVars == <<package, detail, entries, work>>

NoDetail == [row |-> "never", edits |-> {}]
NoWork == [step |-> "idle", package |-> None, detail |-> None, seen |-> {},
           shared |-> FALSE, overtaken |-> FALSE]

HasPackage(p) == package[p] = "kept"
NewPackage(p) == package[p] = "never"
NewDetail(d) == detail[d].row = "never"
EntriesOf(p) == {e \in entries : e[2] = p}
DetailsOf(p) == {e[1] : e \in EntriesOf(p)}
References(d) == {e \in entries : e[1] = d}


\* The packages of the old application share a detail.
WordInit ==
    \E d \in Details :
        /\ package = [p \in Packages |-> IF p \in Legacy THEN "kept" ELSE "never"]
        /\ detail = [c \in Details |-> IF c = d THEN [NoDetail EXCEPT !.row = "kept"] ELSE NoDetail]
        /\ entries = {<<d, p>> : p \in Legacy}
        /\ work = [r \in Requests |-> NoWork]

-----------------------------------------------------------------------------
\* A request awaits the database with what it remembers.
BeginWork(r, step, p) ==
    /\ work[r].step = "idle"
    /\ HasPackage(p)
    /\ work' = [work EXCEPT ![r] = [NoWork EXCEPT !.step = step, !.package = p]]
Doing(r, step) == work[r].step = step
LeaveWork(r) == work' = [work EXCEPT ![r] = NoWork]
OnlyWork == UNCHANGED <<package, detail, entries>>

\* The transaction of r ends; those that counted the references to d are late.
Commit(r, touched) ==
    work' = [q \in Requests |->
        IF q = r THEN NoWork
        ELSE IF work[q].step = "writing" /\ work[q].detail \in touched
             THEN [work[q] EXCEPT !.overtaken = TRUE] ELSE work[q]]

\* deleteOrphanDetails, once the entries are `left`; a detail takes its entries
\* along (onDelete: Cascade).
Orphans(ds, left) == {d \in ds : \A e \in left : e[1] # d}

\* Variant: the details of a deleted entry go, whoever uses them.
AllDetails(ds, left) == ds

Removed(ds, left) == Orphans(ds, left)

RemoveDetails(ds, left) ==
    LET removed == Removed(ds, left)
    IN  /\ detail' = [d \in Details |-> IF d \in removed THEN [NoDetail EXCEPT !.row = "gone"]
                                        ELSE detail[d]]
        /\ entries' = {e \in left : e[1] \notin removed}

-----------------------------------------------------------------------------
(* Words                                                                   *)

\* addWords: the enrichment is awaited between the guard and the transaction.
AddWord(r, p) ==
    /\ Cardinality(EntriesOf(p)) < MaxEntries
    /\ BeginWork(r, "adding", p)
    /\ OnlyWork

\* The foreign key refuses the entry of a package deleted meanwhile.
InsertWord(r) ==
    /\ Doing(r, "adding")
    /\ IF HasPackage(work[r].package)
       THEN \E d \in Details :
              /\ NewDetail(d)
              /\ detail' = [detail EXCEPT ![d].row = "kept"]
              /\ entries' = entries \cup {<<d, work[r].package>>}
       ELSE UNCHANGED <<detail, entries>>
    /\ LeaveWork(r)
    /\ UNCHANGED package

\* updateWord reads the entry, then awaits the enrichment of the example.
ReadWord(r, p, d) ==
    /\ <<d, p>> \in entries
    /\ work[r].step = "idle"
    /\ work' = [work EXCEPT ![r] =
          [NoWork EXCEPT !.step = "counting", !.package = p, !.detail = d,
                         !.seen = detail[d].edits]]
    /\ OnlyWork

Shared(d) == Cardinality(References(d)) > 1

CountReferences(r) ==
    /\ Doing(r, "counting")
    /\ work' = [work EXCEPT ![r].step = "writing", ![r].overtaken = FALSE,
                            ![r].shared = Shared(work[r].detail)]
    /\ OnlyWork

\* Variant: the row is written as it was read.
RowAsRead(r, d) == work[r].seen \cup {r}

\* Only the fields of the edit are written.
EditedRow(r, d) == detail[d].edits \cup {r}

\* A row that several entries named goes on as it is for the others: the edit goes to
\* a copy of what was read, which replaces it in this package if its entry is still
\* there.  An entry that was gone when they were counted makes it throw instead (StopWork),
\* one that left since then may.  Otherwise the row is updated, whoever names it by then,
\* unless it is gone or the level is edited too and the entry is.
WriteWord(r) ==
    /\ Doing(r, "writing")
    /\ LET d == work[r].detail
           p == work[r].package
       IN  \/ /\ work[r].shared
              /\ <<d, p>> \in entries \/ work[r].overtaken
              /\ \E c \in Details :
                    /\ NewDetail(c)
                    /\ detail' = [detail EXCEPT ![c] =
                          [row |-> "kept", edits |-> work[r].seen \cup {r}]]
                    /\ entries' = {IF e = <<d, p>> THEN <<c, p>> ELSE e : e \in entries}
           \/ /\ ~work[r].shared
              /\ detail[d].row = "kept"
              /\ detail' = [detail EXCEPT ![d].edits = EditedRow(r, d)]
              /\ UNCHANGED entries
    /\ Commit(r, {work[r].detail})
    /\ UNCHANGED package

\* retryOnDeadlock: nothing of the transaction stays; all of it runs again, unless
\* it did too often (StopWork).
Deadlock(r) ==
    /\ Doing(r, "writing")
    /\ work' = [work EXCEPT ![r].step = "counting", ![r].shared = FALSE, ![r].overtaken = FALSE]
    /\ OnlyWork

DeleteWord(r, p, d) ==
    /\ work[r].step = "idle"
    /\ <<d, p>> \in entries
    /\ RemoveDetails({d}, entries \ {<<d, p>>})
    /\ Commit(r, {d})
    /\ UNCHANGED package

\* deleteAllWords lists the details before its transaction.
ListWords(r, p) ==
    /\ EntriesOf(p) # {}
    /\ work[r].step = "idle"
    /\ work' = [work EXCEPT ![r] = [NoWork EXCEPT !.step = "clearing", !.package = p,
                                                  !.seen = DetailsOf(p)]]
    /\ OnlyWork

DeleteWords(r) ==
    /\ Doing(r, "clearing")
    /\ RemoveDetails(work[r].seen, entries \ EntriesOf(work[r].package))
    /\ Commit(r, work[r].seen)
    /\ UNCHANGED package

-----------------------------------------------------------------------------
(* Packages                                                                *)

CreatePackage(p) ==
    /\ NewPackage(p)
    /\ package' = [package EXCEPT ![p] = "kept"]
    /\ UNCHANGED <<detail, entries, work>>

DeletePackage(r, p) ==
    /\ HasPackage(p)
    /\ work[r].step = "idle"
    /\ package' = [package EXCEPT ![p] = "gone"]
    /\ RemoveDetails(DetailsOf(p), entries \ EntriesOf(p))
    /\ Commit(r, DetailsOf(p))

\* Copying reads the package, then its entries: none if it is gone by then.
CopyPackage(r, p) ==
    /\ HasPackage(p)
    /\ work[r].step = "idle"
    /\ \E read \in {DetailsOf(p), {}} :
         work' = [work EXCEPT ![r] = [NoWork EXCEPT !.step = "cloning",
                                      !.seen = {detail[d].edits : d \in read}]]
    /\ OnlyWork

\* Each row is cloned.
Clones(r, copies) ==
    /\ \A d \in copies : NewDetail(d)
    /\ Cardinality(copies) = Cardinality(work[r].seen)

ClonePackage(r) ==
    /\ Doing(r, "cloning")
    /\ \E p \in Packages, copies \in SUBSET Details :
         /\ NewPackage(p)
         /\ Clones(r, copies)
         /\ package' = [package EXCEPT ![p] = "kept"]
         /\ \E text \in [copies -> work[r].seen] :
              /\ {text[d] : d \in copies} = work[r].seen
              /\ detail' = [d \in Details |->
                    IF d \in copies THEN [row |-> "kept", edits |-> text[d]] ELSE detail[d]]
         /\ entries' = entries \cup {<<d, p>> : d \in copies}
    /\ LeaveWork(r)

\* A query fails, or the process stops: the transaction is rolled back.
StopWork(r) ==
    /\ work[r].step # "idle"
    /\ LeaveWork(r)
    /\ OnlyWork

-----------------------------------------------------------------------------
HandleWord(r) ==
    \/ \E p \in Packages : AddWord(r, p) \/ ListWords(r, p)
    \/ \E p \in Packages, d \in Details :
         DeleteWord(r, p, d) \/ ReadWord(r, p, d)
    \/ InsertWord(r) \/ CountReferences(r) \/ WriteWord(r) \/ Deadlock(r) \/ DeleteWords(r)

HandlePackage(r) ==
    \/ \E p \in Packages : DeletePackage(r, p) \/ CopyPackage(r, p)
    \/ ClonePackage(r)

WordNext ==
    \/ \E r \in Requests : HandleWord(r) \/ HandlePackage(r) \/ StopWork(r)
    \/ \E p \in Packages : CreatePackage(p)

WordSpec == WordInit /\ [][WordNext]_storeVars

-----------------------------------------------------------------------------
(* Properties                                                              *)

\* The words of p, as its readers see them.
WordsOf(p) == {<<d, detail[d].edits>> : d \in DetailsOf(p)}

Changed(p) == WordsOf(p)' # WordsOf(p)

\* A request writes what it was about to write, or fails.
Concludes(r) == work[r].step \in {"adding", "writing", "clearing"} /\ work'[r].step = "idle"

\* The word of an edit left its package while the edit awaited the enrichment: an edit
\* beside it took a copy, or it was deleted.
Astray(r) == Doing(r, "writing") /\ <<work[r].detail, work[r].package>> \notin entries

\* What is done to a package, its words or their copy changes the words of no other
\* one, even where both use the same rows (words.service.ts:271), unless it is an edit
\* that went astray; such an edit changes one package at most.
OthersKeepTheirWords ==
    [][\A p \in Packages : Changed(p) =>
         /\ \A q \in Packages : Changed(q) => q = p
         /\ \A r \in Requests : Concludes(r) => work[r].package = p \/ Astray(r)]_storeVars

\* What the comment on the copy says: an edit changes its own package, so that "other
\* packages keep their version" (words.service.ts:268-269).
EditsStayInPackage ==
    [][\A r \in Requests, p \in Packages :
         Doing(r, "writing") /\ Concludes(r) /\ Changed(p) => work[r].package = p]_storeVars

\* An edit adds to the ones made while its request awaited the enrichment, unless
\* another transaction overtook its own (words.service.ts:234), and is found in its
\* package, unless it went astray.
EditsAddUp ==
    [][\A r \in Requests :
         Doing(r, "writing") /\ ~work[r].overtaken /\ work'[r].step = "idle" =>
            /\ \A e \in EntriesOf(work[r].package) :
                  \E f \in entries' : /\ f[2] = e[2]
                                     /\ detail[e[1]].edits \subseteq detail'[f[1]].edits
            /\ ~Astray(r) /\ detail' # detail =>
                  \E f \in entries' : /\ f[2] = work[r].package /\ r \in detail'[f[1]].edits
                                     /\ detail[work[r].detail].edits \subseteq detail'[f[1]].edits]_storeVars

-----------------------------------------------------------------------------
(* The inductive invariant behind the two                                  *)

RowStates == {"never", "kept", "gone"}
Works ==
    [step : {"idle", "adding", "counting", "writing", "clearing", "cloning"},
     package : Packages \cup {None}, detail : Details \cup {None},
     seen : SUBSET (Requests \cup Details \cup SUBSET Requests),
     shared : BOOLEAN, overtaken : BOOLEAN]

WordTypeOK ==
    /\ package \in [Packages -> RowStates]
    /\ detail \in [Details -> [row : RowStates, edits : SUBSET Requests]]
    /\ entries \subseteq Details \X Packages
    /\ work \in [Requests -> Works]

\* An edit under way knows the row as it is while packages share it, and whether
\* they do, unless it is late; what its package lists beside it, it has alone.
GoodEdit(w) ==
    w.step \in {"counting", "writing"} =>
        /\ w.package \in Packages /\ w.detail \in Details /\ w.seen \subseteq Requests
        /\ ~NewDetail(w.detail)
        /\ Shared(w.detail) => detail[w.detail].edits \subseteq w.seen
        /\ w.step = "writing" => (Shared(w.detail) => w.shared)
        /\ w.step = "writing" => (w.shared => Shared(w.detail) \/ w.overtaken)

\* The rows a package got after they were listed are its own.
GoodClearing(w) ==
    w.step = "clearing" =>
        /\ w.package \in Packages /\ w.seen \subseteq Details
        /\ \A e \in EntriesOf(w.package) : e[1] \in w.seen \/ ~Shared(e[1])

WordInv ==
    /\ WordTypeOK
    /\ \A e \in entries : detail[e[1]].row = "kept"
    /\ \A r \in Requests :
         /\ GoodEdit(work[r]) /\ GoodClearing(work[r])
         /\ work[r].step = "adding" => work[r].package \in Packages
         /\ work[r].step = "cloning" => work[r].seen \subseteq SUBSET Requests
=============================================================================
