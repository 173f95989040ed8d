-------------------------- MODULE WordStoreProofs ---------------------------
(***************************************************************************)
(* Proofs about the packages and words of WordStore.tla, for any packages, *)
(* rows and requests.                                                      *)
(***************************************************************************)
EXTENDS WordStore, FiniteSetTheorems, TLAPS

\* A row is shared if and only if two entries name it.
LEMMA SharedByTwo ==
    ASSUME NEW S \in SUBSET (Details \X Packages), NEW d
    PROVE  Cardinality({e \in S : e[1] = d}) > 1
           <=> \E e, f \in S : e # f /\ e[1] = d /\ f[1] = d
  <1> DEFINE refs == {e \in S : e[1] = d}
  <1>1. IsFiniteSet(Details \X Packages)
    BY WordAssumption, FS_Product
  <1>2. IsFiniteSet(refs) /\ Cardinality(refs) \in Nat
    <2>1. refs \in SUBSET (Details \X Packages)
      OBVIOUS
    <2> HIDE DEF refs
    <2> QED BY <1>1, <2>1, FS_Subset, FS_CardinalityType
  <1>3. ASSUME Cardinality(refs) > 1 PROVE \E e, f \in S : e # f /\ e[1] = d /\ f[1] = d
    <2>1. refs # {}
      BY <1>3, FS_EmptySet
    <2>2. PICK e : e \in refs
      BY <2>1
    <2>3. refs # {e}
      <3> HIDE DEF refs
      <3> QED BY <1>3, FS_Singleton
    <2>4. PICK f \in refs : f # e
      BY <2>2, <2>3
    <2> QED BY <2>2, <2>4
  <1>4. ASSUME NEW e \in S, NEW f \in S, e # f, e[1] = d, f[1] = d
        PROVE  Cardinality(refs) > 1
    <2>1. refs # {}
      BY <1>4
    <2>2. \A x : refs # {x}
      <3> SUFFICES ASSUME NEW x, refs = {x} PROVE FALSE
        OBVIOUS
      <3>1. e \in refs /\ f \in refs
        BY <1>4
      <3> QED BY <1>4, <3>1
    <2> HIDE DEF refs
    <2>3. Cardinality(refs) # 0
      BY <1>2, <2>1, FS_EmptySet
    <2>4. Cardinality(refs) # 1
      BY <1>2, <2>2, FS_Singleton
    <2> QED BY <1>2, <2>3, <2>4
  <1> QED BY <1>3, <1>4

\* What a step does to the entries and the rows is done to one package, p: it adds
\* entries of new rows to p, removes entries of p, and changes no row that another
\* package uses.
OnlyIn(p) ==
    /\ \A e \in entries' : e \in entries \/ (NewDetail(e[1]) /\ e[2] = p)
    /\ \A e \in entries : e[2] # p => e \in entries'
    /\ \A d \in Details : detail'[d] # detail[d] =>
           NewDetail(d) \/ \A e \in entries : e[1] = d => e[2] = p

\* Rows are kept while an entry names them, and are not new again.
RowsFollow ==
    /\ \A e \in entries' : detail'[e[1]].row = "kept"
    /\ \A d \in Details : detail[d].row # "never" => detail'[d].row # "never"

\* Nothing is added to a row that packages share.
SharedIsLeft ==
    \A d \in Details : ~NewDetail(d) /\ Shared(d) => detail'[d].edits \subseteq detail[d].edits

StoreTypeOK ==
    /\ package \in [Packages -> RowStates]
    /\ detail \in [Details -> [row : RowStates, edits : SUBSET Requests]]
    /\ entries \subseteq Details \X Packages

\* What every step does to the entries and the rows.
StoreStep ==
    /\ StoreTypeOK'
    /\ \E p : OnlyIn(p)
    /\ RowsFollow
    /\ SharedIsLeft

\* The rows of the details that entries of `left` still name stay.
LEMMA RemovalIsLocal ==
    ASSUME WordInv, NEW p \in Packages, NEW ds \in SUBSET Details, NEW left \in SUBSET entries,
           \A e \in entries \ left : e[2] = p,
           RemoveDetails(ds, left)
    PROVE  /\ entries' = left /\ OnlyIn(p) /\ RowsFollow /\ SharedIsLeft
           /\ detail' \in [Details -> [row : RowStates, edits : SUBSET Requests]]
  <1>0. /\ detail \in [Details -> [row : RowStates, edits : SUBSET Requests]]
        /\ entries \subseteq Details \X Packages
        /\ \A e \in entries : detail[e[1]].row = "kept"
    BY DEF WordInv, WordTypeOK
  <1>1. entries' = left
    BY DEF RemoveDetails, Removed, Orphans
  <1>2. \A d \in Details :
           detail'[d] = IF d \in Removed(ds, left) THEN [row |-> "gone", edits |-> {}] ELSE detail[d]
    <2>1. [NoDetail EXCEPT !.row = "gone"] = [row |-> "gone", edits |-> {}]
      BY DEF NoDetail
    <2> QED BY <2>1 DEF RemoveDetails
  <1>3. \A d \in Removed(ds, left) : \A e \in left : e[1] # d
    BY DEF Removed, Orphans
  <1>4. detail' \in [Details -> [row : RowStates, edits : SUBSET Requests]]
    <2>1. [row |-> "gone", edits |-> {}] \in [row : RowStates, edits : SUBSET Requests]
      BY DEF RowStates
    <2>2. [NoDetail EXCEPT !.row = "gone"] = [row |-> "gone", edits |-> {}]
      BY DEF NoDetail
    <2> QED BY <1>0, <2>1, <2>2 DEF RemoveDetails
  <1>5. OnlyIn(p)
    BY <1>0, <1>1, <1>2, <1>3 DEF OnlyIn
  <1>6. RowsFollow
    <2>1. \A e \in left : e[1] \in Details /\ detail'[e[1]] = detail[e[1]]
      BY <1>0, <1>2, <1>3
    <2>2. \A d \in Details : detail'[d] = detail[d] \/ detail'[d].row = "gone"
      BY <1>2
    <2> QED BY <1>0, <1>1, <2>1, <2>2 DEF RowsFollow
  <1>7. SharedIsLeft
    <2>1. \A d \in Details : detail'[d] = detail[d] \/ detail'[d].edits = {}
      BY <1>2
    <2> QED BY <2>1 DEF SharedIsLeft
  <1> QED BY <1>1, <1>4, <1>5, <1>6, <1>7

\* New rows get their text, and each one entry or none.
LEMMA AdditionIsLocal ==
    ASSUME WordInv, NEW p \in Packages, NEW cs \in SUBSET Details,
           \A c \in cs : NewDetail(c), NEW named \in SUBSET cs,
           NEW kept \in SUBSET entries, \A e \in entries \ kept : e[2] = p,
           entries' = kept \cup {<<c, p>> : c \in named},
           detail' \in [Details -> [row : RowStates, edits : SUBSET Requests]],
           \A c \in cs : detail'[c].row = "kept",
           \A d \in Details \ cs : detail'[d] = detail[d]
    PROVE  entries' \subseteq Details \X Packages /\ OnlyIn(p) /\ RowsFollow /\ SharedIsLeft
  <1>0. /\ detail \in [Details -> [row : RowStates, edits : SUBSET Requests]]
        /\ entries \subseteq Details \X Packages
        /\ \A e \in entries : detail[e[1]].row = "kept"
    BY DEF WordInv, WordTypeOK
  <1>1. entries' \subseteq Details \X Packages
    BY <1>0
  <1>2. OnlyIn(p)
    BY <1>0 DEF OnlyIn
  <1>3. RowsFollow
    <2>1. \A e \in kept : e[1] \in Details \ cs
      BY <1>0 DEF NewDetail
    <2>2. \A e \in kept : detail'[e[1]].row = "kept"
      BY <1>0, <2>1
    <2>3. \A e \in {<<c, p>> : c \in named} : detail'[e[1]].row = "kept"
      OBVIOUS
    <2>4. \A e \in entries' : detail'[e[1]].row = "kept"
      BY <2>2, <2>3
    <2>5. \A d \in Details : detail[d].row # "never" => detail'[d].row # "never"
      BY DEF NewDetail
    <2> QED BY <2>4, <2>5 DEF RowsFollow
  <1>4. SharedIsLeft
    BY DEF SharedIsLeft
  <1> QED BY <1>1, <1>2, <1>3, <1>4

\* A step that leaves the tables of words alone.
LEMMA NothingIsLocal ==
    ASSUME WordInv, UNCHANGED <<detail, entries>>, package' \in [Packages -> RowStates]
    PROVE  StoreStep
  BY DEF StoreStep, StoreTypeOK, OnlyIn, RowsFollow, SharedIsLeft, WordInv, WordTypeOK

\* All of StoreStep, in the package p.
StepIn(p) == StoreTypeOK' /\ OnlyIn(p) /\ RowsFollow /\ SharedIsLeft

\* The word that was enriched goes to its package.
LEMMA InsertIsLocal ==
    ASSUME WordInv, NEW r \in Requests, InsertWord(r)
    PROVE  StepIn(work[r].package)
  <1>0. /\ package \in [Packages -> RowStates]
        /\ detail \in [Details -> [row : RowStates, edits : SUBSET Requests]]
        /\ entries \subseteq Details \X Packages
        /\ \A e \in entries : detail[e[1]].row = "kept"
        /\ work \in [Requests -> Works]
    BY DEF WordInv, WordTypeOK
  <1> DEFINE p == work[r].package
  <1>1. CASE ~HasPackage(p)
    BY <1>0, <1>1 DEF InsertWord, StepIn, StoreTypeOK, OnlyIn, RowsFollow, SharedIsLeft
  <1>2. CASE HasPackage(p)
    <2>1. PICK c \in Details : /\ NewDetail(c)
                               /\ detail' = [detail EXCEPT ![c].row = "kept"]
                               /\ entries' = entries \cup {<<c, p>>}
      BY <1>2 DEF InsertWord
    <2>2. p \in Packages
      BY DEF InsertWord, Doing, WordInv
    <2>3. detail' \in [Details -> [row : RowStates, edits : SUBSET Requests]]
      BY <1>0, <2>1 DEF RowStates
    <2>4. /\ detail'[c].row = "kept"
          /\ \A d \in Details \ {c} : detail'[d] = detail[d]
      BY <1>0, <2>1
    <2>5. {<<c, p>>} = {<<d, p>> : d \in {c}}
      OBVIOUS
    <2> DEFINE cs == {c}
    <2>6. /\ cs \in SUBSET Details /\ cs \in SUBSET cs
          /\ \A x \in cs : NewDetail(x) /\ detail'[x].row = "kept"
          /\ \A x \in Details \ cs : detail'[x] = detail[x]
          /\ entries' = entries \cup {<<x, p>> : x \in cs}
          /\ entries \in SUBSET entries /\ \A e \in entries \ entries : e[2] = p
      BY <2>1, <2>4, <2>5
    <2> HIDE DEF p, cs
    <2>7. entries' \subseteq Details \X Packages /\ OnlyIn(p) /\ RowsFollow /\ SharedIsLeft
      BY <2>2, <2>3, <2>6, AdditionIsLocal
    <2>8. package' = package
      BY DEF InsertWord
    <2> QED BY <1>0, <2>3, <2>7, <2>8 DEF StepIn, StoreTypeOK, p
  <1> QED BY <1>1, <1>2

\* An edit that copies the row changes its own package; one that updates the row
\* changes the one package that names it, its own unless the edit went astray.
LEMMA EditIsLocal ==
    ASSUME WordInv, NEW r \in Requests, WriteWord(r)
    PROVE  \E p : StepIn(p) /\ (p = work[r].package \/ Astray(r))
  <1>0. /\ package \in [Packages -> RowStates]
        /\ detail \in [Details -> [row : RowStates, edits : SUBSET Requests]]
        /\ entries \subseteq Details \X Packages
        /\ \A e \in entries : detail[e[1]].row = "kept"
        /\ work \in [Requests -> Works]
    BY DEF WordInv, WordTypeOK
  <1> DEFINE d == work[r].detail
             p == work[r].package
  <1>1. /\ p \in Packages /\ d \in Details /\ work[r].seen \subseteq Requests
        /\ ~NewDetail(d) /\ (Shared(d) => work[r].shared)
        /\ package' = package
    BY DEF WriteWord, Doing, WordInv, GoodEdit
  <1>2. CASE work[r].shared
    <2>1. PICK c \in Details :
            /\ NewDetail(c)
            /\ detail' = [detail EXCEPT ![c] = [row |-> "kept", edits |-> work[r].seen \cup {r}]]
            /\ entries' = {IF e = <<d, p>> THEN <<c, p>> ELSE e : e \in entries}
      BY <1>2 DEF WriteWord
    <2>2. detail' \in [Details -> [row : RowStates, edits : SUBSET Requests]]
      BY <1>0, <1>1, <2>1 DEF RowStates
    <2>3. /\ detail'[c].row = "kept"
          /\ \A x \in Details \ {c} : detail'[x] = detail[x]
      BY <1>0, <2>1
    <2> DEFINE kept == entries \ {<<d, p>>}
               cs == {c}
               named == IF <<d, p>> \in entries THEN cs ELSE {}
    <2>4. entries' = kept \cup {<<x, p>> : x \in named}
      <3>1. CASE <<d, p>> \in entries
        <4>1. {<<x, p>> : x \in named} = {<<c, p>>}
          BY <3>1
        <4>2. entries' = kept \cup {<<c, p>>}
          <5> HIDE DEF d, p
          <5> QED BY <2>1, <3>1
        <4> QED BY <4>1, <4>2
      <3>2. CASE <<d, p>> \notin entries
        <4>1. {<<x, p>> : x \in named} = {}
          BY <3>2
        <4>2. entries' = kept
          <5> HIDE DEF d, p
          <5> QED BY <2>1, <3>2
        <4> QED BY <4>1, <4>2
      <3> QED BY <3>1, <3>2
    <2>5. /\ cs \in SUBSET Details /\ named \in SUBSET cs
          /\ \A x \in cs : NewDetail(x) /\ detail'[x].row = "kept"
          /\ \A x \in Details \ cs : detail'[x] = detail[x]
          /\ kept \in SUBSET entries /\ \A e \in entries \ kept : e[2] = p
      BY <2>1, <2>3
    <2> HIDE DEF p, d, kept, cs, named
    <2>6. entries' \subseteq Details \X Packages /\ OnlyIn(p) /\ RowsFollow /\ SharedIsLeft
      BY <1>1, <2>2, <2>4, <2>5, AdditionIsLocal
    <2> QED BY <1>0, <1>1, <2>2, <2>6 DEF StepIn, StoreTypeOK, p
  <1>3. CASE ~work[r].shared
    <2>1. detail' = [detail EXCEPT ![d].edits = EditedRow(r, d)] /\ entries' = entries
      BY <1>3 DEF WriteWord
    <2>2. ~Shared(d)
      BY <1>1, <1>3
    <2>3. Doing(r, "writing")
      BY DEF WriteWord
    <2> HIDE DEF p, d
    <2>4. \A e, f \in entries : e[1] = d /\ f[1] = d => e = f
      <3>1. entries \in SUBSET (Details \X Packages)
        BY <1>0
      <3>2. ~(Cardinality({e \in entries : e[1] = d}) > 1)
        BY <2>2 DEF Shared, References
      <3>3. Cardinality({e \in entries : e[1] = d}) > 1
              <=> \E e, f \in entries : e # f /\ e[1] = d /\ f[1] = d
        BY <3>1, SharedByTwo
      <3> QED BY <3>2, <3>3
    <2>5. detail' \in [Details -> [row : RowStates, edits : SUBSET Requests]]
      BY <1>0, <1>1, <2>1 DEF EditedRow
    <2>6. /\ \A x \in Details \ {d} : detail'[x] = detail[x]
          /\ detail'[d].row = detail[d].row
      BY <1>0, <1>1, <2>1
    <2>7. RowsFollow
      BY <1>0, <1>1, <2>1, <2>6 DEF RowsFollow
    <2>8. SharedIsLeft
      BY <2>2, <2>6 DEF SharedIsLeft
    <2>9. StoreTypeOK'
      BY <1>0, <1>1, <2>1, <2>5 DEF StoreTypeOK
    <2>10. ASSUME NEW q, \A e \in entries : e[1] = d => e[2] = q PROVE StepIn(q)
      <3>1. OnlyIn(q)
        BY <1>0, <2>1, <2>6, <2>10 DEF OnlyIn
      <3> QED BY <2>7, <2>8, <2>9, <3>1 DEF StepIn
    <2>11. CASE <<d, p>> \in entries
      <3>1. \A e \in entries : e[1] = d => e[2] = p
        BY <2>4, <2>11
      <3> QED BY <2>10, <3>1 DEF p
    <2>12. CASE <<d, p>> \notin entries
      <3>1. \E q : \A e \in entries : e[1] = d => e[2] = q
        BY <2>4
      <3> QED BY <2>3, <2>10, <2>12, <3>1 DEF Astray, p, d
    <2> QED BY <2>11, <2>12
  <1> QED BY <1>2, <1>3

\* The entries of one package go, with the rows of which they were the last.
LEMMA DeletionIsLocal ==
    ASSUME WordInv, NEW p \in Packages, NEW ds \in SUBSET Details, NEW left \in SUBSET entries,
           \A e \in entries \ left : e[2] = p, RemoveDetails(ds, left),
           package' \in [Packages -> RowStates]
    PROVE  StepIn(p)
  <1>1. /\ entries' = left /\ OnlyIn(p) /\ RowsFollow /\ SharedIsLeft
        /\ detail' \in [Details -> [row : RowStates, edits : SUBSET Requests]]
    BY RemovalIsLocal
  <1>2. entries' \subseteq Details \X Packages
    BY <1>1 DEF WordInv, WordTypeOK
  <1> QED BY <1>1, <1>2 DEF StepIn, StoreTypeOK

\* The words that were listed go, and what the package got since.
LEMMA ClearingIsLocal ==
    ASSUME WordInv, NEW r \in Requests, DeleteWords(r)
    PROVE  StepIn(work[r].package)
  <1> DEFINE p == work[r].package
             ds == work[r].seen
             left == entries \ EntriesOf(p)
  <1>1. p \in Packages /\ ds \in SUBSET Details
    BY DEF DeleteWords, Doing, WordInv, GoodClearing
  <1>2. left \in SUBSET entries /\ (\A e \in entries \ left : e[2] = p)
    BY DEF EntriesOf
  <1>3. RemoveDetails(ds, left) /\ package' \in [Packages -> RowStates]
    BY DEF DeleteWords, WordInv, WordTypeOK
  <1> HIDE DEF p, ds, left
  <1>4. StepIn(p)
    BY <1>1, <1>2, <1>3, DeletionIsLocal
  <1> QED BY <1>4 DEF p

\* Every step touches the words of one package at most.
LEMMA StepIsLocal ==
    ASSUME WordInv, WordNext
    PROVE  StoreStep
  <1>0. /\ package \in [Packages -> RowStates]
        /\ detail \in [Details -> [row : RowStates, edits : SUBSET Requests]]
        /\ entries \subseteq Details \X Packages
        /\ \A e \in entries : detail[e[1]].row = "kept"
        /\ work \in [Requests -> Works]
    BY DEF WordInv, WordTypeOK
  <1>1. ASSUME NEW p \in Packages, CreatePackage(p) PROVE StoreStep
    BY <1>0, <1>1, NothingIsLocal DEF CreatePackage, RowStates
  <1>2. ASSUME NEW r \in Requests, OnlyWork PROVE StoreStep
    BY <1>0, <1>2, NothingIsLocal DEF OnlyWork
  <1>3. ASSUME NEW p, StepIn(p) PROVE StoreStep
    BY <1>3 DEF StepIn, StoreStep
  <1>4. ASSUME NEW r \in Requests, InsertWord(r) \/ WriteWord(r) \/ DeleteWords(r) PROVE StoreStep
    BY <1>3, <1>4, InsertIsLocal, EditIsLocal, ClearingIsLocal
  <1>5. ASSUME NEW r \in Requests, NEW p \in Packages, NEW d \in Details, DeleteWord(r, p, d)
        PROVE  StoreStep
    <2> DEFINE left == entries \ {<<d, p>>}
    <2>1. left \in SUBSET entries /\ (\A e \in entries \ left : e[2] = p) /\ {d} \in SUBSET Details
      OBVIOUS
    <2>2. RemoveDetails({d}, left) /\ package' \in [Packages -> RowStates]
      BY <1>0, <1>5 DEF DeleteWord
    <2> HIDE DEF left
    <2> QED BY <1>3, <2>1, <2>2, DeletionIsLocal
  <1>6. ASSUME NEW r \in Requests, NEW p \in Packages, DeletePackage(r, p) PROVE StoreStep
    <2> DEFINE ds == DetailsOf(p)
               left == entries \ EntriesOf(p)
    <2>1. ds \in SUBSET Details
      BY <1>0 DEF DetailsOf, EntriesOf
    <2>2. left \in SUBSET entries /\ (\A e \in entries \ left : e[2] = p)
      BY DEF EntriesOf
    <2>3. RemoveDetails(ds, left) /\ package' \in [Packages -> RowStates]
      BY <1>0, <1>6 DEF DeletePackage, RowStates
    <2> HIDE DEF ds, left
    <2> QED BY <1>3, <2>1, <2>2, <2>3, DeletionIsLocal
  <1>7. ASSUME NEW r \in Requests, ClonePackage(r) PROVE StoreStep
    <2>1. PICK p \in Packages, copies \in SUBSET Details :
            /\ Clones(r, copies)
            /\ package' = [package EXCEPT ![p] = "kept"]
            /\ entries' = entries \cup {<<d, p>> : d \in copies}
            /\ \E text \in [copies -> work[r].seen] :
                 detail' = [d \in Details |->
                    IF d \in copies THEN [row |-> "kept", edits |-> text[d]] ELSE detail[d]]
      BY <1>7 DEF ClonePackage
    <2>2. PICK text \in [copies -> work[r].seen] :
                 detail' = [d \in Details |->
                    IF d \in copies THEN [row |-> "kept", edits |-> text[d]] ELSE detail[d]]
      BY <2>1
    <2>3. work[r].seen \subseteq SUBSET Requests
      BY <1>7 DEF ClonePackage, Doing, WordInv
    <2>4. detail' \in [Details -> [row : RowStates, edits : SUBSET Requests]]
      BY <1>0, <2>2, <2>3 DEF RowStates
    <2>5. /\ copies \in SUBSET copies /\ \A c \in copies : NewDetail(c)
          /\ \A c \in copies : detail'[c].row = "kept"
          /\ \A d \in Details \ copies : detail'[d] = detail[d]
      BY <2>1, <2>2 DEF Clones
    <2>6. entries' \subseteq Details \X Packages /\ OnlyIn(p) /\ RowsFollow /\ SharedIsLeft
      BY <2>1, <2>4, <2>5, AdditionIsLocal
    <2>7. package' \in [Packages -> RowStates]
      BY <1>0, <2>1 DEF RowStates
    <2> QED BY <2>4, <2>6, <2>7 DEF StoreStep, StoreTypeOK
  <1>8. ASSUME NEW r \in Requests, HandleWord(r) \/ HandlePackage(r) \/ StopWork(r) PROVE StoreStep
    BY <1>2, <1>4, <1>5, <1>6, <1>7, <1>8
       DEF HandleWord, HandlePackage, AddWord, ListWords, ReadWord, CountReferences, Deadlock,
           CopyPackage, StopWork
  <1> QED BY <1>1, <1>8 DEF WordNext

-----------------------------------------------------------------------------
(* What requests remember                                                  *)

\* No step makes packages share a row that they do not share.
LEMMA SharedShrinks ==
    ASSUME WordInv, StoreStep, NEW d \in Details, Shared(d)'
    PROVE  Shared(d)
  <1>0. /\ entries \in SUBSET (Details \X Packages) /\ entries' \in SUBSET (Details \X Packages)
        /\ \A e \in entries : detail[e[1]].row = "kept"
    BY DEF WordInv, WordTypeOK, StoreStep, StoreTypeOK
  <1>1. PICK e \in entries', f \in entries' : e # f /\ e[1] = d /\ f[1] = d
    <2>1. Cardinality({g \in entries' : g[1] = d}) > 1
      BY DEF Shared, References
    <2> QED BY <1>0, <2>1, SharedByTwo
  <1>2. PICK p : OnlyIn(p)
    BY DEF StoreStep
  <1>3. e \in entries /\ f \in entries
    <2>1. /\ e \in entries \/ (NewDetail(d) /\ e[2] = p)
          /\ f \in entries \/ (NewDetail(d) /\ f[2] = p)
      BY <1>1, <1>2 DEF OnlyIn
    <2>2. NewDetail(d) => e \notin entries /\ f \notin entries
      BY <1>0, <1>1 DEF NewDetail
    <2>3. e[2] # f[2]
      BY <1>0, <1>1
    <2> QED BY <2>1, <2>2, <2>3
  <1>4. \E g, h \in entries : g # h /\ g[1] = d /\ h[1] = d
    BY <1>1, <1>3
  <1>5. Cardinality({g \in entries : g[1] = d}) > 1
    BY <1>0, <1>4, SharedByTwo
  <1> QED BY <1>5 DEF Shared, References

\* The entries of a shared row are removed by steps that tell the edits under way.
LEMMA RemovalsAreTold ==
    ASSUME WordInv, WordNext
    PROVE  \E touched :
             /\ \A e \in entries \ entries' : e[1] \in touched \/ ~Shared(e[1])
             /\ entries \subseteq entries' \/ \E q \in Requests : Commit(q, touched)
  <1> DEFINE Told(touched) ==
               /\ \A e \in entries \ entries' : e[1] \in touched \/ ~Shared(e[1])
               /\ entries \subseteq entries' \/ \E q \in Requests : Commit(q, touched)
  <1>1. ASSUME entries \subseteq entries' PROVE Told({})
    BY <1>1
  <1>2. ASSUME NEW r \in Requests, WriteWord(r) PROVE Told({work[r].detail})
    <2> DEFINE d == work[r].detail
               p == work[r].package
    <2>1. CASE work[r].shared
      <3>1. PICK c : entries' = {IF e = <<d, p>> THEN <<c, p>> ELSE e : e \in entries}
        BY <1>2, <2>1 DEF WriteWord
      <3> DEFINE own == <<d, p>>
      <3>2. own[1] = d
        OBVIOUS
      <3>3. \A e \in entries : e # own => e \in entries'
        <4> HIDE DEF d, p
        <4> QED BY <3>1
      <3>4. Commit(r, {d})
        BY <1>2 DEF WriteWord
      <3> HIDE DEF own, d, Commit
      <3>5. Told({d})
        BY <3>2, <3>3, <3>4
      <3> QED BY <3>5 DEF d
    <2>2. CASE ~work[r].shared
      BY <1>1, <1>2, <2>2 DEF WriteWord
    <2> QED BY <2>1, <2>2
  <1>3. ASSUME NEW ds, NEW left, RemoveDetails(ds, left) PROVE entries' = left
    BY <1>3 DEF RemoveDetails, Removed, Orphans
  <1>4. ASSUME NEW r \in Requests, NEW p \in Packages, NEW d \in Details, DeleteWord(r, p, d)
        PROVE  Told({d})
    <2>1. entries' = entries \ {<<d, p>>} /\ Commit(r, {d})
      BY <1>3, <1>4 DEF DeleteWord
    <2> HIDE DEF Commit
    <2> QED BY <2>1
  <1>5. ASSUME NEW r \in Requests, DeleteWords(r) PROVE Told(work[r].seen)
    <2>1. entries' = entries \ EntriesOf(work[r].package) /\ Commit(r, work[r].seen)
      BY <1>3, <1>5 DEF DeleteWords
    <2>2. \A e \in EntriesOf(work[r].package) : e[1] \in work[r].seen \/ ~Shared(e[1])
      BY <1>5 DEF DeleteWords, Doing, WordInv, GoodClearing
    <2> QED BY <2>1, <2>2
  <1>6. ASSUME NEW r \in Requests, NEW p \in Packages, DeletePackage(r, p) PROVE Told(DetailsOf(p))
    <2>1. entries' = entries \ EntriesOf(p) /\ Commit(r, DetailsOf(p))
      BY <1>3, <1>6 DEF DeletePackage
    <2>2. \A e \in EntriesOf(p) : e[1] \in DetailsOf(p)
      BY DEF DetailsOf
    <2> QED BY <2>1, <2>2
  <1>7. ASSUME NEW r \in Requests, InsertWord(r) \/ ClonePackage(r) PROVE Told({})
    BY <1>1, <1>7 DEF InsertWord, ClonePackage
  <1>8. ASSUME OnlyWork PROVE Told({})
    BY <1>1, <1>8 DEF OnlyWork
  <1>9. ASSUME NEW p \in Packages, CreatePackage(p) PROVE Told({})
    BY <1>1, <1>9 DEF CreatePackage
  <1> HIDE DEF Told
  <1>10. \E touched : Told(touched)
    <2>1. ASSUME NEW r \in Requests, HandleWord(r) \/ HandlePackage(r) \/ StopWork(r)
          PROVE  \E touched : Told(touched)
      <3>1. CASE HandleWord(r)
        BY <1>2, <1>4, <1>5, <1>7, <1>8, <3>1
           DEF HandleWord, AddWord, ListWords, ReadWord, CountReferences, Deadlock
      <3>2. CASE HandlePackage(r)
        BY <1>6, <1>7, <1>8, <3>2 DEF HandlePackage, CopyPackage
      <3>3. CASE StopWork(r)
        BY <1>8, <3>3 DEF StopWork
      <3> QED BY <2>1, <3>1, <3>2, <3>3
    <2> QED BY <1>9, <2>1 DEF WordNext
  <1> QED BY <1>10 DEF Told

\* A request begins something, or goes on, without touching the words.
Acting(r) ==
    \/ \E p \in Packages : AddWord(r, p) \/ ListWords(r, p) \/ CopyPackage(r, p)
    \/ \E p \in Packages, d \in Details : ReadWord(r, p, d)
    \/ CountReferences(r) \/ Deadlock(r)

\* What a step of any request does to the memory of one.
LEMMA WorkStep ==
    ASSUME WordTypeOK, WordNext, NEW r \in Requests
    PROVE  \/ work'[r] = work[r] \/ work'[r] = NoWork
           \/ work[r].step = "writing" /\ work'[r] = [work[r] EXCEPT !.overtaken = TRUE]
           \/ OnlyWork /\ Acting(r)
  <1>0. work \in [Requests -> Works] /\ DOMAIN work = Requests
    BY DEF WordTypeOK
  <1> DEFINE Waits == work'[r] = work[r]
             Late == work[r].step = "writing" /\ work'[r] = [work[r] EXCEPT !.overtaken = TRUE]
  <1>1. ASSUME NEW q \in Requests, NEW touched, Commit(q, touched)
        PROVE  Waits \/ work'[r] = NoWork \/ Late
    BY <1>1 DEF Commit
  <1>2. ASSUME NEW q \in Requests, LeaveWork(q) PROVE Waits \/ work'[r] = NoWork
    BY <1>0, <1>2 DEF LeaveWork
  <1>3. ASSUME NEW q \in Requests, NEW w, work' = [work EXCEPT ![q] = w] PROVE q # r => Waits
    BY <1>0, <1>3
  <1>4. CASE \E p \in Packages : CreatePackage(p)
    BY <1>4 DEF CreatePackage
  <1>5. ASSUME NEW q \in Requests, WriteWord(q) \/ DeleteWords(q)
               \/ (\E p \in Packages, d \in Details : DeleteWord(q, p, d))
               \/ (\E p \in Packages : DeletePackage(q, p))
        PROVE  Waits \/ work'[r] = NoWork \/ Late
    <2>1. \E touched : Commit(q, touched)
      BY <1>5 DEF WriteWord, DeleteWords, DeleteWord, DeletePackage
    <2> HIDE DEF Waits, Late
    <2> QED BY <1>1, <2>1
  <1>6. ASSUME NEW q \in Requests, InsertWord(q) \/ ClonePackage(q) \/ StopWork(q)
        PROVE  Waits \/ work'[r] = NoWork
    BY <1>2, <1>6 DEF InsertWord, ClonePackage, StopWork
  <1>7. ASSUME NEW q \in Requests, Acting(q)
        PROVE  (q # r => Waits) /\ OnlyWork
    <2>1. OnlyWork
      BY <1>7 DEF Acting, AddWord, ListWords, CopyPackage, ReadWord, CountReferences, Deadlock
    <2>2. \E w : work' = [work EXCEPT ![q] = w]
      BY <1>7 DEF Acting, AddWord, BeginWork, ListWords, CopyPackage, ReadWord, CountReferences, Deadlock
    <2> QED BY <1>3, <2>1, <2>2
  <1>9. ASSUME NEW q \in Requests, HandleWord(q) \/ HandlePackage(q) \/ StopWork(q)
        PROVE  \/ WriteWord(q) \/ DeleteWords(q)
               \/ (\E p \in Packages, d \in Details : DeleteWord(q, p, d))
               \/ (\E p \in Packages : DeletePackage(q, p))
               \/ InsertWord(q) \/ ClonePackage(q) \/ StopWork(q) \/ Acting(q)
    BY <1>9 DEF HandleWord, HandlePackage, Acting
  <1> HIDE DEF Waits, Late
  <1>10. Waits \/ work'[r] = NoWork \/ Late \/ (OnlyWork /\ Acting(r))
    <2>1. CASE \E p \in Packages : CreatePackage(p)
      BY <1>4, <2>1 DEF Waits, CreatePackage
    <2>2. ASSUME NEW q \in Requests, HandleWord(q) \/ HandlePackage(q) \/ StopWork(q)
          PROVE Waits \/ work'[r] = NoWork \/ Late \/ (OnlyWork /\ Acting(r))
      BY <1>5, <1>6, <1>7, <1>9, <2>2
    <2> QED BY <2>1, <2>2 DEF WordNext
  <1> QED BY <1>10 DEF Waits, Late

\* The memory of a request is of its type.
LEMMA WorkTypes ==
    ASSUME WordInv, WordNext, NEW r \in Requests
    PROVE  /\ work'[r] \in Works
           /\ work'[r].step = "adding" => work'[r].package \in Packages
           /\ work'[r].step = "cloning" => work'[r].seen \subseteq SUBSET Requests
  <1> DEFINE Typed == /\ work'[r] \in Works
                      /\ work'[r].step = "adding" => work'[r].package \in Packages
                      /\ work'[r].step = "cloning" => work'[r].seen \subseteq SUBSET Requests
  <1>0. /\ WordTypeOK /\ work \in [Requests -> Works] /\ work[r] \in Works
        /\ detail \in [Details -> [row : RowStates, edits : SUBSET Requests]]
        /\ entries \subseteq Details \X Packages
        /\ work[r].step = "adding" => work[r].package \in Packages
        /\ work[r].step = "cloning" => work[r].seen \subseteq SUBSET Requests
    BY DEF WordInv, WordTypeOK
  <1>1. CASE work'[r] = work[r]
    BY <1>0, <1>1
  <1>2. CASE work'[r] = NoWork
    BY <1>2 DEF NoWork, Works
  <1>3. CASE work[r].step = "writing" /\ work'[r] = [work[r] EXCEPT !.overtaken = TRUE]
    BY <1>0, <1>3 DEF Works
  <1>4. ASSUME NEW step \in {"adding", "counting", "clearing", "cloning"}, NEW p \in Packages \cup {None},
               NEW d \in Details \cup {None}, NEW seen \in SUBSET (Requests \cup Details \cup SUBSET Requests),
               work'[r] = [step |-> step, package |-> p, detail |-> d, seen |-> seen,
                           shared |-> FALSE, overtaken |-> FALSE],
               step = "adding" => p \in Packages,
               step = "cloning" => seen \subseteq SUBSET Requests
        PROVE  Typed
    BY <1>4 DEF Works
  <1>12. /\ work[r] = [step |-> work[r].step, package |-> work[r].package, detail |-> work[r].detail,
                       seen |-> work[r].seen, shared |-> work[r].shared,
                       overtaken |-> work[r].overtaken]
         /\ work[r].package \in Packages \cup {None} /\ work[r].detail \in Details \cup {None}
         /\ work[r].seen \in SUBSET (Requests \cup Details \cup SUBSET Requests)
    BY <1>0 DEF Works
  <1> HIDE DEF Typed
  <1>5. ASSUME NEW p \in Packages, AddWord(r, p) PROVE Typed
    <2>1. work'[r] = [step |-> "adding", package |-> p, detail |-> None, seen |-> {},
                      shared |-> FALSE, overtaken |-> FALSE]
      BY <1>0, <1>5 DEF AddWord, BeginWork, NoWork
    <2> QED BY <1>4, <2>1
  <1>6. ASSUME NEW p \in Packages, NEW d \in Details, ReadWord(r, p, d) PROVE Typed
    <2>1. work'[r] = [step |-> "counting", package |-> p, detail |-> d, seen |-> detail[d].edits,
                      shared |-> FALSE, overtaken |-> FALSE]
      BY <1>0, <1>6 DEF ReadWord, NoWork
    <2>2. detail[d].edits \in SUBSET (Requests \cup Details \cup SUBSET Requests)
      BY <1>0
    <2> QED BY <1>4, <2>1, <2>2
  <1>7. ASSUME NEW p \in Packages, ListWords(r, p) PROVE Typed
    <2>1. work'[r] = [step |-> "clearing", package |-> p, detail |-> None, seen |-> DetailsOf(p),
                      shared |-> FALSE, overtaken |-> FALSE]
      BY <1>0, <1>7 DEF ListWords, NoWork
    <2>2. DetailsOf(p) \in SUBSET (Requests \cup Details \cup SUBSET Requests)
      BY <1>0 DEF DetailsOf, EntriesOf
    <2> QED BY <1>4, <2>1, <2>2
  <1>8. ASSUME NEW p \in Packages, CopyPackage(r, p) PROVE Typed
    <2>1. PICK read \in {DetailsOf(p), {}} :
             work'[r] = [step |-> "cloning", package |-> None, detail |-> None,
                         seen |-> {detail[d].edits : d \in read},
                         shared |-> FALSE, overtaken |-> FALSE]
      BY <1>0, <1>8 DEF CopyPackage, NoWork
    <2>2. read \subseteq Details
      BY <1>0 DEF DetailsOf, EntriesOf
    <2>3. {detail[d].edits : d \in read} \subseteq SUBSET Requests
      BY <1>0, <2>2
    <2>4. {detail[d].edits : d \in read} \in SUBSET (Requests \cup Details \cup SUBSET Requests)
      BY <2>3
    <2> QED BY <1>4, <2>1, <2>3, <2>4
  <1>9. ASSUME CountReferences(r) PROVE Typed
    <2> DEFINE shared == Shared(work[r].detail)
    <2>1. shared \in BOOLEAN
      BY DEF Shared
    <2>2. work'[r] = [work[r] EXCEPT !.step = "writing", !.overtaken = FALSE, !.shared = shared]
      BY <1>0, <1>9 DEF CountReferences
    <2> HIDE DEF shared
    <2>3. work'[r] = [step |-> "writing", package |-> work[r].package, detail |-> work[r].detail,
                      seen |-> work[r].seen, shared |-> shared, overtaken |-> FALSE]
      BY <1>12, <2>2
    <2>4. work'[r] \in Works
      BY <1>12, <2>1, <2>3 DEF Works
    <2> QED BY <2>3, <2>4 DEF Typed
  <1>10. ASSUME Deadlock(r) PROVE Typed
    <2>1. work'[r] = [work[r] EXCEPT !.step = "counting", !.shared = FALSE, !.overtaken = FALSE]
      BY <1>0, <1>10 DEF Deadlock
    <2>2. work'[r] = [step |-> "counting", package |-> work[r].package, detail |-> work[r].detail,
                      seen |-> work[r].seen, shared |-> FALSE, overtaken |-> FALSE]
      BY <1>12, <2>1
    <2>3. work'[r] \in Works
      BY <1>12, <2>2 DEF Works
    <2> QED BY <2>2, <2>3 DEF Typed
  <1>11. ASSUME Acting(r) PROVE Typed
    <2>1. CASE \E p \in Packages : AddWord(r, p) \/ ListWords(r, p) \/ CopyPackage(r, p)
      BY <1>5, <1>7, <1>8, <2>1
    <2>2. CASE \E p \in Packages, d \in Details : ReadWord(r, p, d)
      BY <1>6, <2>2
    <2> QED BY <1>9, <1>10, <1>11, <2>1, <2>2 DEF Acting
  <1> QED BY <1>0, <1>1, <1>2, <1>3, <1>11, WorkStep DEF Typed

\* An edit under way goes on knowing its row.
LEMMA EditsStayGood ==
    ASSUME WordInv, WordNext, StoreStep, NEW r \in Requests
    PROVE  GoodEdit(work[r])'
  <1>0. /\ WordTypeOK /\ work[r] \in Works /\ work' = work' /\ GoodEdit(work[r])
        /\ work \in [Requests -> Works]
        /\ detail \in [Details -> [row : RowStates, edits : SUBSET Requests]]
        /\ entries \subseteq Details \X Packages
    BY DEF WordInv, WordTypeOK
  <1> DEFINE w == work[r]
             d == work[r].detail
  <1>1. ASSUME work'[r] = work[r] \/ (w.step = "writing" /\ work'[r] = [work[r] EXCEPT !.overtaken = TRUE]),
               w.step \in {"counting", "writing"}, NEW c, c = work[r].detail
        PROVE  GoodEdit(work[r])'
    <2>1. /\ w.package \in Packages /\ c \in Details /\ w.seen \subseteq Requests /\ ~NewDetail(c)
          /\ Shared(c) => detail[c].edits \subseteq w.seen
          /\ w.step = "writing" => (Shared(c) => w.shared)
          /\ w.step = "writing" => (w.shared => Shared(c) \/ w.overtaken)
      BY <1>0, <1>1 DEF GoodEdit
    <2>2. /\ work'[r].step = w.step /\ work'[r].package = w.package /\ work'[r].detail = c
          /\ work'[r].seen = w.seen /\ work'[r].shared = w.shared
          /\ w.overtaken => work'[r].overtaken
      BY <1>0, <1>1 DEF Works
    <2>3. Shared(c)' => Shared(c)
      BY <2>1, SharedShrinks
    <2>4. ~NewDetail(c)'
      BY <2>1 DEF StoreStep, RowsFollow, NewDetail
    <2>5. Shared(c) => detail'[c].edits \subseteq detail[c].edits
      BY <2>1 DEF StoreStep, SharedIsLeft
    <2>6. ASSUME w.step = "writing", Shared(c) PROVE Shared(c)' \/ work'[r].overtaken
      <3>1. PICK touched :
              /\ \A e \in entries \ entries' : e[1] \in touched \/ ~Shared(e[1])
              /\ entries \subseteq entries' \/ \E q \in Requests : Commit(q, touched)
        BY RemovalsAreTold
      <3>2. ASSUME NEW q \in Requests, Commit(q, touched), c \in touched PROVE work'[r].overtaken
        <4>1. work'[r] # NoWork
          BY <2>2, <2>6 DEF NoWork
        <4>2. work'[r] = [work[r] EXCEPT !.overtaken = TRUE]
          BY <1>1, <2>6, <3>2, <4>1 DEF Commit
        <4> QED BY <1>0, <4>2 DEF Works
      <3>3. ASSUME \A e \in entries : e[1] = c => e \in entries' PROVE Shared(c)'
        <4>0. entries \in SUBSET (Details \X Packages) /\ entries' \in SUBSET (Details \X Packages)
          BY <1>0 DEF StoreStep, StoreTypeOK
        <4>1. \E e, f \in entries : e # f /\ e[1] = c /\ f[1] = c
          <5>1. Cardinality({e \in entries : e[1] = c}) > 1
            BY <2>6 DEF Shared, References
          <5> QED BY <4>0, <5>1, SharedByTwo
        <4>2. \E e, f \in entries' : e # f /\ e[1] = c /\ f[1] = c
          BY <3>3, <4>1
        <4>3. Cardinality({e \in entries' : e[1] = c}) > 1
          BY <4>0, <4>2, SharedByTwo
        <4>4. Shared(c)' <=> Cardinality({e \in entries' : e[1] = c}) > 1
          BY DEF Shared, References
        <4> QED BY <4>3, <4>4
      <3> QED BY <2>6, <3>1, <3>2, <3>3
    <2> QED BY <2>1, <2>2, <2>3, <2>4, <2>5, <2>6 DEF GoodEdit
  <1>2. ASSUME work'[r].step \notin {"counting", "writing"} PROVE GoodEdit(work[r])'
    BY <1>2 DEF GoodEdit
  <1>3. ASSUME OnlyWork, NEW c \in Details, work'[r].detail = c, work'[r].package \in Packages,
               work'[r].seen \subseteq Requests, ~NewDetail(c),
               Shared(c) => detail[c].edits \subseteq work'[r].seen,
               work'[r].step = "writing" => (Shared(c) => work'[r].shared),
               work'[r].step = "writing" => (work'[r].shared => Shared(c))
        PROVE  GoodEdit(work[r])'
    <2>1. detail' = detail /\ entries' = entries
      BY <1>3 DEF OnlyWork
    <2> QED BY <1>3, <2>1 DEF GoodEdit, NewDetail, Shared, References
  <1>4. CASE OnlyWork /\ Acting(r)
    <2>1. ASSUME NEW p \in Packages, AddWord(r, p) \/ ListWords(r, p) \/ CopyPackage(r, p)
          PROVE  work'[r].step \notin {"counting", "writing"}
      BY <1>0, <2>1 DEF AddWord, BeginWork, ListWords, CopyPackage, NoWork
    <2>2. ASSUME NEW p \in Packages, NEW c \in Details, ReadWord(r, p, c) PROVE GoodEdit(work[r])'
      <3>1. work'[r] = [step |-> "counting", package |-> p, detail |-> c, seen |-> detail[c].edits,
                        shared |-> FALSE, overtaken |-> FALSE]
        BY <1>0, <2>2 DEF ReadWord, NoWork
      <3>2. ~NewDetail(c)
        <4>1. <<c, p>> \in entries /\ <<c, p>>[1] = c
          BY <2>2 DEF ReadWord
        <4>2. detail[c].row = "kept"
          BY <4>1 DEF WordInv
        <4> QED BY <4>2 DEF NewDetail
      <3>3. detail[c].edits \subseteq Requests
        BY <1>0
      <3>4. /\ work'[r].step = "counting" /\ work'[r].package = p /\ work'[r].detail = c
            /\ work'[r].seen = detail[c].edits
        BY <3>1
      <3>5. /\ work'[r].package \in Packages /\ work'[r].seen \subseteq Requests
            /\ detail[c].edits \subseteq work'[r].seen /\ work'[r].step # "writing"
        BY <3>3, <3>4
      <3> QED BY <1>3, <1>4, <3>2, <3>4, <3>5
    <2>3. CASE CountReferences(r)
      <3>0. /\ w.package \in Packages /\ d \in Details /\ w.seen \subseteq Requests /\ ~NewDetail(d)
            /\ Shared(d) => detail[d].edits \subseteq w.seen
        BY <1>0, <2>3 DEF GoodEdit, CountReferences, Doing
      <3>1. /\ work'[r].step = "writing" /\ work'[r].package = w.package /\ work'[r].detail = d
            /\ work'[r].seen = w.seen
            /\ (Shared(d) => work'[r].shared) /\ (work'[r].shared => Shared(d))
        BY <1>0, <2>3 DEF CountReferences, Works
      <3> HIDE DEF w, d
      <3> QED BY <1>3, <1>4, <3>0, <3>1
    <2>4. CASE Deadlock(r)
      <3>0. /\ w.package \in Packages /\ d \in Details /\ w.seen \subseteq Requests /\ ~NewDetail(d)
            /\ Shared(d) => detail[d].edits \subseteq w.seen
        BY <1>0, <2>4 DEF GoodEdit, Deadlock, Doing
      <3>1. /\ work'[r].step = "counting" /\ work'[r].package = w.package /\ work'[r].detail = d
            /\ work'[r].seen = w.seen
        BY <1>0, <2>4 DEF Deadlock, Works
      <3> HIDE DEF w, d
      <3> QED BY <1>3, <1>4, <3>0, <3>1
    <2> QED BY <1>2, <1>4, <2>1, <2>2, <2>3, <2>4 DEF Acting
  <1>5. CASE work'[r] = NoWork
    BY <1>2, <1>5 DEF NoWork
  <1> HIDE DEF w
  <1>6. CASE work'[r] = work[r] \/ (work[r].step = "writing" /\ work'[r] = [work[r] EXCEPT !.overtaken = TRUE])
    <2>1. work'[r].step = work[r].step
      BY <1>0, <1>6 DEF Works
    <2> QED BY <1>1, <1>2, <1>6, <2>1 DEF w
  <1> QED BY <1>0, <1>4, <1>5, <1>6, WorkStep

\* What a package got after its rows were listed stays its own.
LEMMA ClearingsStayGood ==
    ASSUME WordInv, WordNext, StoreStep, NEW r \in Requests
    PROVE  GoodClearing(work[r])'
  <1>0. /\ WordTypeOK /\ work[r] \in Works /\ GoodClearing(work[r])
        /\ work \in [Requests -> Works]
        /\ entries \subseteq Details \X Packages /\ entries' \subseteq Details \X Packages
        /\ \A e \in entries : detail[e[1]].row = "kept"
    BY DEF WordInv, WordTypeOK, StoreStep, StoreTypeOK
  <1>1. ASSUME work'[r].step # "clearing" PROVE GoodClearing(work[r])'
    BY <1>1 DEF GoodClearing
  <1>2. ASSUME work'[r] = work[r], work[r].step = "clearing" PROVE GoodClearing(work[r])'
    <2>1. /\ work[r].package \in Packages /\ work[r].seen \subseteq Details
          /\ \A e \in EntriesOf(work[r].package) : e[1] \in work[r].seen \/ ~Shared(e[1])
      BY <1>0, <1>2 DEF GoodClearing
    <2>2. ASSUME NEW e \in entries', e[2] = work[r].package PROVE e[1] \in work[r].seen \/ ~Shared(e[1])'
      <3>1. e[1] \in Details
        BY <1>0
      <3>2. CASE e \in entries
        <4>1. e \in EntriesOf(work[r].package)
          BY <2>2, <3>2 DEF EntriesOf
        <4>2. Shared(e[1])' => Shared(e[1])
          BY <3>1, SharedShrinks
        <4> QED BY <2>1, <4>1, <4>2
      <3>3. CASE e \notin entries
        <4>1. NewDetail(e[1])
          <5>1. PICK p : OnlyIn(p)
            BY DEF StoreStep
          <5> QED BY <3>3, <5>1 DEF OnlyIn
        <4>2. ~Shared(e[1])
          <5>1. ~\E f, g \in entries : f # g /\ f[1] = e[1] /\ g[1] = e[1]
            BY <1>0, <4>1 DEF NewDetail
          <5>2. entries \in SUBSET (Details \X Packages)
            BY <1>0
          <5>3. ~(Cardinality({f \in entries : f[1] = e[1]}) > 1)
            BY <5>1, <5>2, SharedByTwo
          <5> QED BY <5>3 DEF Shared, References
        <4>3. Shared(e[1])' => Shared(e[1])
          BY <3>1, SharedShrinks
        <4> QED BY <4>2, <4>3
      <3> QED BY <3>2, <3>3
    <2>3. work'[r].step = "clearing" /\ work'[r].package = work[r].package /\ work'[r].seen = work[r].seen
      BY <1>2
    <2> QED BY <2>1, <2>2, <2>3 DEF GoodClearing, EntriesOf
  <1>3. CASE OnlyWork /\ Acting(r)
    <2>1. ASSUME NEW p \in Packages, AddWord(r, p) \/ CopyPackage(r, p) PROVE work'[r].step # "clearing"
      BY <1>0, <2>1 DEF AddWord, BeginWork, CopyPackage, NoWork
    <2>2. ASSUME NEW p \in Packages, NEW c \in Details, ReadWord(r, p, c) PROVE work'[r].step # "clearing"
      BY <1>0, <2>2 DEF ReadWord, NoWork
    <2>3. ASSUME CountReferences(r) \/ Deadlock(r) PROVE work'[r].step # "clearing"
      BY <1>0, <2>3 DEF CountReferences, Deadlock, Works
    <2>4. ASSUME NEW p \in Packages, ListWords(r, p) PROVE GoodClearing(work[r])'
      <3>1. work'[r].package = p /\ work'[r].seen = DetailsOf(p)
        BY <1>0, <2>4 DEF ListWords, NoWork
      <3>2. entries' = entries
        BY <2>4 DEF ListWords, OnlyWork
      <3>3. \A e \in entries : e[2] = p => e[1] \in DetailsOf(p)
        BY DEF DetailsOf, EntriesOf
      <3>4. DetailsOf(p) \subseteq Details
        BY <1>0 DEF DetailsOf, EntriesOf
      <3> QED BY <3>1, <3>2, <3>3, <3>4 DEF GoodClearing, EntriesOf
    <2> QED BY <1>1, <1>3, <2>1, <2>2, <2>3, <2>4 DEF Acting
  <1>4. CASE work'[r] = NoWork
    BY <1>1, <1>4 DEF NoWork
  <1>5. CASE work[r].step = "writing" /\ work'[r] = [work[r] EXCEPT !.overtaken = TRUE]
    <2>1. work'[r].step = "writing"
      BY <1>0, <1>5 DEF Works
    <2> QED BY <1>1, <2>1
  <1> QED BY <1>0, <1>1, <1>2, <1>3, <1>4, <1>5, WorkStep

-----------------------------------------------------------------------------
(* The theorems                                                            *)

\* The invariant holds of the packages of the old application.
LEMMA WordInvInit == WordInit => WordInv
  <1> SUFFICES ASSUME WordInit PROVE WordInv
    OBVIOUS
  <1>1. PICK d \in Details :
          /\ package = [p \in Packages |-> IF p \in Legacy THEN "kept" ELSE "never"]
          /\ detail = [c \in Details |-> IF c = d THEN [NoDetail EXCEPT !.row = "kept"] ELSE NoDetail]
          /\ entries = {<<d, p>> : p \in Legacy}
          /\ work = [r \in Requests |-> NoWork]
    BY DEF WordInit
  <1>2. package \in [Packages -> RowStates]
    BY <1>1 DEF RowStates
  <1>3. /\ [NoDetail EXCEPT !.row = "kept"] = [row |-> "kept", edits |-> {}]
        /\ NoDetail = [row |-> "never", edits |-> {}]
    BY DEF NoDetail
  <1>4. detail \in [Details -> [row : RowStates, edits : SUBSET Requests]]
    BY <1>1, <1>3 DEF RowStates
  <1>5. entries \subseteq Details \X Packages
    BY <1>1, WordAssumption
  <1>6. work \in [Requests -> Works]
    BY <1>1 DEF NoWork, Works
  <1>7. \A e \in entries : detail[e[1]].row = "kept"
    BY <1>1, <1>3
  <1>8. \A r \in Requests : work[r].step = "idle"
    BY <1>1 DEF NoWork
  <1>9. \A r \in Requests : GoodEdit(work[r]) /\ GoodClearing(work[r])
    BY <1>8 DEF GoodEdit, GoodClearing
  <1> QED BY <1>2, <1>4, <1>5, <1>6, <1>7, <1>8, <1>9 DEF WordInv, WordTypeOK

\* Every step keeps the invariant.
LEMMA WordInvStep == WordInv /\ [WordNext]_storeVars => WordInv'
  <1> SUFFICES ASSUME WordInv, [WordNext]_storeVars PROVE WordInv'
    OBVIOUS
  <1>1. CASE WordNext
    <2>1. StoreStep
      BY <1>1, StepIsLocal
    <2>2. \A r \in Requests : /\ work'[r] \in Works
                              /\ work'[r].step = "adding" => work'[r].package \in Packages
                              /\ work'[r].step = "cloning" => work'[r].seen \subseteq SUBSET Requests
      BY <1>1, WorkTypes
    <2>3. work' \in [Requests -> Works]
      <3>1. work \in [Requests -> Works]
        BY DEF WordInv, WordTypeOK
      <3>2. \E f : work' = [q \in Requests |-> f[q]]
        <4>1. ASSUME NEW q \in Requests, HandleWord(q) \/ HandlePackage(q) \/ StopWork(q)
              PROVE  \/ \E w : work' = [work EXCEPT ![q] = w]
                     \/ \E touched : Commit(q, touched)
          BY <4>1 DEF HandleWord, HandlePackage, StopWork, AddWord, BeginWork,
               ListWords, DeleteWord, ReadWord, InsertWord, LeaveWork, CountReferences, WriteWord, Deadlock,
               DeleteWords, DeletePackage, CopyPackage, ClonePackage
        <4>5. (\E p \in Packages : CreatePackage(p)) => work' = work
          BY DEF CreatePackage
        <4>2. ASSUME NEW q \in Requests, NEW w, work' = [work EXCEPT ![q] = w]
              PROVE  work' = [x \in Requests |-> work'[x]]
          BY <3>1, <4>2
        <4>3. ASSUME NEW q \in Requests, NEW touched, Commit(q, touched)
              PROVE  work' = [x \in Requests |-> work'[x]]
          BY <4>3 DEF Commit
        <4>4. work' = work => work' = [x \in Requests |-> work'[x]]
          BY <3>1
        <4> QED BY <1>1, <4>1, <4>2, <4>3, <4>4, <4>5 DEF WordNext
      <3> QED BY <2>2, <3>2
    <2>4. \A r \in Requests : GoodEdit(work[r])' /\ GoodClearing(work[r])'
      BY <1>1, <2>1, EditsStayGood, ClearingsStayGood
    <2> QED BY <2>1, <2>2, <2>3, <2>4 DEF WordInv, WordTypeOK, StoreStep, StoreTypeOK, RowsFollow
  <1>2. CASE UNCHANGED storeVars
    <2>1. UNCHANGED <<package, detail, entries, work>>
      BY <1>2 DEF storeVars
    <2>2. WordTypeOK'
      BY <2>1 DEF WordInv, WordTypeOK
    <2>3. \A r \in Requests : GoodEdit(work[r])' /\ GoodClearing(work[r])'
      <3> SUFFICES ASSUME NEW r \in Requests PROVE GoodEdit(work[r])' /\ GoodClearing(work[r])'
        OBVIOUS
      <3>1. GoodEdit(work[r]) /\ GoodClearing(work[r])
        BY DEF WordInv
      <3>2. GoodEdit(work[r])'
        BY <2>1, <3>1 DEF GoodEdit, NewDetail, Shared, References
      <3>3. GoodClearing(work[r])'
        BY <2>1, <3>1 DEF GoodClearing, Shared, References, EntriesOf
      <3> QED BY <3>2, <3>3
    <2> QED BY <2>1, <2>2, <2>3 DEF WordInv
  <1> QED BY <1>1, <1>2

\* The words of a package are those of its entries, which only a step on that
\* package changes.
LEMMA OthersStay ==
    ASSUME WordInv, NEW p, OnlyIn(p), NEW q \in Packages, q # p
    PROVE  WordsOf(q)' = WordsOf(q)
  <1>0. /\ entries \subseteq Details \X Packages
        /\ \A e \in entries : detail[e[1]].row = "kept"
    BY DEF WordInv, WordTypeOK
  <1>1. EntriesOf(q)' = EntriesOf(q)
    BY DEF OnlyIn, EntriesOf
  <1>2. \A e \in EntriesOf(q) : detail'[e[1]] = detail[e[1]]
    <2> SUFFICES ASSUME NEW e \in EntriesOf(q), detail'[e[1]] # detail[e[1]] PROVE FALSE
      OBVIOUS
    <2>1. e \in entries /\ e[2] = q /\ e[1] \in Details
      BY <1>0 DEF EntriesOf
    <2>2. ~NewDetail(e[1])
      BY <1>0, <2>1 DEF NewDetail
    <2> QED BY <2>1, <2>2 DEF OnlyIn
  <1>3. DetailsOf(q)' = DetailsOf(q)
    BY <1>1 DEF DetailsOf
  <1>4. \A d \in DetailsOf(q) : detail'[d] = detail[d]
    BY <1>2 DEF DetailsOf
  <1>5. WordsOf(q)' = {<<d, detail'[d].edits>> : d \in DetailsOf(q)}
    BY <1>3 DEF WordsOf
  <1> QED BY <1>4, <1>5 DEF WordsOf

\* The strengthened invariant: what packages share, and what the edits and the
\* clearings under way know of it.
THEOREM WordInvariance == WordSpec => []WordInv
  BY WordInvInit, WordInvStep, PTL DEF WordSpec

\* A request that was about to write writes, or fails.
LEMMA Concluding ==
    ASSUME WordInv, WordNext, NEW r \in Requests, Concludes(r)
    PROVE  InsertWord(r) \/ WriteWord(r) \/ DeleteWords(r) \/ StopWork(r)
  <1>0. work \in [Requests -> Works] /\ work[r] \in Works
        /\ work[r].step \in {"adding", "writing", "clearing"} /\ work'[r].step = "idle"
    BY DEF Concludes, WordInv, WordTypeOK
  <1>1. ASSUME NEW q \in Requests, q # r, HandleWord(q) \/ HandlePackage(q) \/ StopWork(q)
        PROVE  work'[r].step = work[r].step
    <2>1. \/ \E w : work' = [work EXCEPT ![q] = w]
          \/ \E touched : Commit(q, touched)
      BY <1>1 DEF HandleWord, HandlePackage, StopWork, AddWord, BeginWork,
           ListWords, DeleteWord, ReadWord, InsertWord, LeaveWork, CountReferences, WriteWord, Deadlock,
           DeleteWords, DeletePackage, CopyPackage, ClonePackage
    <2>2. ASSUME NEW w, work' = [work EXCEPT ![q] = w] PROVE work'[r].step = work[r].step
      BY <1>0, <1>1, <2>2
    <2>3. ASSUME NEW touched, Commit(q, touched) PROVE work'[r].step = work[r].step
      <3>1. work'[r] = work[r] \/ work'[r] = [work[r] EXCEPT !.overtaken = TRUE]
        BY <1>1, <2>3 DEF Commit
      <3> QED BY <1>0, <3>1 DEF Works
    <2> QED BY <2>1, <2>2, <2>3
  <1>2. ASSUME NEW q \in Packages, CreatePackage(q) PROVE work'[r].step = work[r].step
    BY <1>2 DEF CreatePackage
  <1>3. ~Deadlock(r)
    <2> SUFFICES ASSUME Deadlock(r) PROVE FALSE
      OBVIOUS
    <2>1. work'[r] = [work[r] EXCEPT !.step = "counting", !.shared = FALSE, !.overtaken = FALSE]
      BY <1>0 DEF Deadlock
    <2> QED BY <1>0, <2>1 DEF Works
  <1>4. ASSUME HandleWord(r) \/ HandlePackage(r)
        PROVE  InsertWord(r) \/ WriteWord(r) \/ DeleteWords(r)
    BY <1>0, <1>3, <1>4 DEF HandleWord, HandlePackage, AddWord, BeginWork, ListWords, DeleteWord,
       ReadWord, CountReferences, DeletePackage, CopyPackage, ClonePackage, Doing
  <1> QED BY <1>0, <1>1, <1>2, <1>4 DEF WordNext

\* What is done to a package changes the words of no other one, for any packages of the
\* old application that share rows; only an edit whose word left its package while it
\* awaited the enrichment changes another one, and one at most (words.service.ts:270).
THEOREM WordsAreOwn == WordSpec => OthersKeepTheirWords
  <1> DEFINE Own(p) == Changed(p) =>
                /\ \A q \in Packages : Changed(q) => q = p
                /\ \A r \in Requests : Concludes(r) => work[r].package = p \/ Astray(r)
  <1>1. ASSUME WordInv, WordNext, NEW p \in Packages PROVE Own(p)
    <2> SUFFICES ASSUME Changed(p)
                 PROVE  /\ \A q \in Packages : Changed(q) => q = p
                        /\ \A r \in Requests : Concludes(r) => work[r].package = p \/ Astray(r)
      OBVIOUS
    <2>1. ASSUME NEW s, OnlyIn(s), NEW q \in Packages, Changed(q) PROVE q = s
      BY <1>1, <2>1, OthersStay DEF Changed
    <2>2. PICK s : OnlyIn(s)
      BY <1>1, StepIsLocal DEF StoreStep
    <2>3. \A q \in Packages : Changed(q) => q = p
      BY <2>1, <2>2
    <2>4. ASSUME NEW r \in Requests, Concludes(r) PROVE work[r].package = p \/ Astray(r)
      <3>1. InsertWord(r) \/ WriteWord(r) \/ DeleteWords(r) \/ StopWork(r)
        BY <1>1, <2>4, Concluding
      <3>2. CASE InsertWord(r) \/ DeleteWords(r)
        BY <1>1, <2>1, <3>2, InsertIsLocal, ClearingIsLocal DEF StepIn
      <3>3. CASE WriteWord(r)
        <4>1. PICK q : StepIn(q) /\ (q = work[r].package \/ Astray(r))
          BY <1>1, <3>3, EditIsLocal
        <4> QED BY <2>1, <4>1 DEF StepIn
      <3>4. CASE StopWork(r)
        <4>1. detail' = detail /\ entries' = entries
          BY <3>4 DEF StopWork, OnlyWork
        <4>2. ~Changed(p)
          BY <4>1 DEF Changed, WordsOf, DetailsOf, EntriesOf
        <4> QED BY <4>2
      <3> QED BY <3>1, <3>2, <3>3, <3>4
    <2> QED BY <2>3, <2>4
  <1>2. WordInv /\ [WordNext]_storeVars => [\A p \in Packages : Own(p)]_storeVars
    BY <1>1
  <1> QED BY <1>2, WordInvariance, PTL DEF WordSpec, OthersKeepTheirWords

\* An edit keeps what others wrote while it awaited the enrichment, in a row that is
\* its own as in one it takes a copy of (words.service.ts:234), and its package has it,
\* unless its word left the package meanwhile.
THEOREM NoEditIsUndone == WordSpec => EditsAddUp
  <1> DEFINE Adds(r) ==
        Doing(r, "writing") /\ ~work[r].overtaken /\ work'[r].step = "idle" =>
            /\ \A e \in EntriesOf(work[r].package) :
                  \E f \in entries' : /\ f[2] = e[2]
                                     /\ detail[e[1]].edits \subseteq detail'[f[1]].edits
            /\ ~Astray(r) /\ detail' # detail =>
                  \E f \in entries' : /\ f[2] = work[r].package /\ r \in detail'[f[1]].edits
                                     /\ detail[work[r].detail].edits \subseteq detail'[f[1]].edits
  <1>1. ASSUME WordInv, WordNext, NEW r \in Requests PROVE Adds(r)
    <2> DEFINE d == work[r].detail
               p == work[r].package
               Kept == \A e \in EntriesOf(p) :
                          \E f \in entries' : /\ f[2] = e[2]
                                             /\ detail[e[1]].edits \subseteq detail'[f[1]].edits
               Found == \E f \in entries' : /\ f[2] = p /\ r \in detail'[f[1]].edits
                                           /\ detail[d].edits \subseteq detail'[f[1]].edits
    <2> SUFFICES ASSUME work[r].step = "writing", ~work[r].overtaken, work'[r].step = "idle"
                 PROVE  Kept /\ (~Astray(r) /\ detail' # detail => Found)
      BY DEF Doing
    <2>0. /\ work \in [Requests -> Works] /\ work[r] \in Works
          /\ detail \in [Details -> [row : RowStates, edits : SUBSET Requests]]
          /\ entries \subseteq Details \X Packages
          /\ p \in Packages /\ d \in Details
          /\ (Shared(d) => detail[d].edits \subseteq work[r].seen)
          /\ (work[r].shared => Shared(d))
          /\ ~Astray(r) => <<d, p>> \in entries
      BY <1>1 DEF WordInv, WordTypeOK, GoodEdit, Astray, Doing
    <2>1. \/ WriteWord(r) \/ StopWork(r)
      BY <1>1, Concluding DEF Concludes, InsertWord, DeleteWords, Doing
    <2>2. CASE StopWork(r)
      <3>1. detail' = detail /\ entries' = entries
        BY <2>2 DEF StopWork, OnlyWork
      <3> QED BY <3>1 DEF EntriesOf
    <2>3. CASE WriteWord(r) /\ work[r].shared
      <3>1. PICK c \in Details :
              /\ NewDetail(c)
              /\ detail' = [detail EXCEPT ![c] = [row |-> "kept", edits |-> work[r].seen \cup {r}]]
              /\ entries' = {IF e = <<d, p>> THEN <<c, p>> ELSE e : e \in entries}
        BY <2>3 DEF WriteWord
      <3>2. detail[d].edits \subseteq detail'[c].edits /\ r \in detail'[c].edits
        BY <2>0, <2>3, <3>1
      <3> DEFINE old == <<d, p>>
                 new == <<c, p>>
      <3>3. old[1] = d /\ old[2] = p /\ new[1] = c /\ new[2] = p
        OBVIOUS
      <3>4. /\ \A e \in entries : e # old => e \in entries'
            /\ old \in entries => new \in entries'
        <4> HIDE DEF d, p
        <4> QED BY <3>1
      <3>5. \A e \in entries : e # old => detail'[e[1]] = detail[e[1]]
        <4>1. \A e \in entries : e[1] \in Details /\ e[1] # c
          BY <1>1, <2>0, <3>1 DEF WordInv, NewDetail
        <4> QED BY <2>0, <3>1, <4>1
      <3>6. Found \/ Astray(r)
        <4> HIDE DEF old, new, d, p
        <4> QED BY <2>0, <3>2, <3>3, <3>4 DEF old
      <3>7. Kept
        <4> SUFFICES ASSUME NEW e \in EntriesOf(p)
                     PROVE  \E f \in entries' : /\ f[2] = e[2]
                                                /\ detail[e[1]].edits \subseteq detail'[f[1]].edits
          OBVIOUS
        <4>1. e \in entries /\ e[2] = p
          BY DEF EntriesOf
        <4> HIDE DEF old, new, d, p
        <4>2. CASE e = old
          BY <3>2, <3>3, <3>4, <4>1, <4>2
        <4>3. CASE e # old
          BY <3>4, <3>5, <4>1, <4>3
        <4> QED BY <4>2, <4>3
      <3> QED BY <3>6, <3>7
    <2>4. CASE WriteWord(r) /\ ~work[r].shared
      <3>1. detail' = [detail EXCEPT ![d].edits = detail[d].edits \cup {r}] /\ entries' = entries
        BY <2>4 DEF WriteWord, EditedRow
      <3>2. /\ \A x \in Details : detail[x].edits \subseteq detail'[x].edits
            /\ r \in detail'[d].edits
        BY <2>0, <3>1
      <3>3. Kept
        <4>1. \A e \in EntriesOf(p) : e \in entries /\ e[1] \in Details
          BY <2>0 DEF EntriesOf
        <4> QED BY <3>1, <3>2, <4>1
      <3>4. ~Astray(r) => Found
        <4> DEFINE old == <<d, p>>
        <4>1. old[1] = d /\ old[2] = p /\ (~Astray(r) => old \in entries')
          BY <2>0, <3>1
        <4> HIDE DEF old, d, p
        <4> QED BY <2>0, <3>2, <4>1
      <3> QED BY <3>3, <3>4
    <2> QED BY <2>1, <2>2, <2>3, <2>4
  <1>2. WordInv /\ [WordNext]_storeVars => [\A r \in Requests : Adds(r)]_storeVars
    BY <1>1
  <1> QED BY <1>2, WordInvariance, PTL DEF WordSpec, EditsAddUp
=============================================================================
