------------------------ MODULE ProductCatalogProofs ------------------------
(***************************************************************************)
(* Completed runs are stored, reruns add no row and an erasure that no run *)
(* overlaps is lasting, for any runs, items, SKUs, titles, listings and    *)
(* batch size.                                                             *)
(***************************************************************************)
EXTENDS ProductCatalog, ListProofs

Unread == {"idle", "detecting", "extracting", "failed"}

Reading == {"normalizing", "ingesting"}

AllRead == {"finishing", "completing", "completed"}

\* A run that has read nothing holds nothing.
NothingRead == \A r \in Runs : phase[r] \in Unread => raw[r] = <<>>

Has(key) == \E row \in rows : row.key = key

\* What a run has ingested so far is there until an erasure.
Ingested(r, i) ==
  \/ phase[r] \in Reading /\ i < next[r]
  \/ phase[r] \in AllRead

StoredSoFar ==
  \A r \in Runs \ wiped : \A i \in DOMAIN raw[r] :
    Ingested(r, i) /\ IsValid(raw[r][i], platform[r]) => Has(KeyIn(r, i))

\* What each step of an erasure that no run overlaps has deleted.
ErasedSoFar ==
  quiet =>
    /\ \A r \in Runs : phase[r] \in Idle
    /\ erasing # "no" => \A row \in rows : row.key.shop # "canonical"
    /\ erasing \in {"scanning", "done"} => ~profile
    /\ erasing = "scanning" => \A r \in Runs : hash[r] = "named" => r \in left
    /\ erasing = "done" =>
         (\A r \in dlq : given[r] = "respelt") /\ \A r \in Runs : hash[r] # "named"

-----------------------------------------------------------------------------
LEMMA NormalizedInBounds ==
  ASSUME TypeOK, NEW r \in Runs
  PROVE  /\ BatchEnd(r) \in Nat /\ BatchEnd(r) <= Len(raw[r])
         /\ \A i \in Normalized(r) : i \in DOMAIN raw[r] /\ raw[r][i] \in Sightings
         /\ \A i \in DOMAIN raw[r] : raw[r][i] \in Sightings
<1>1. raw[r] \in Seq(Sightings) /\ next[r] \in 1 .. Len(raw[r]) + 1
  <2>1. <<>> \in Seq(Sightings) /\ Listings \subseteq Seq(Sightings)
    BY CatalogAssumption
  <2>2. raw[r] \in Listings \union {<<>>} /\ next[r] \in 1 .. Len(raw[r]) + 1
    BY DEF TypeOK
  <2> QED
    BY <2>1, <2>2
<1>2. DOMAIN raw[r] = 1 .. Len(raw[r]) /\ Len(raw[r]) \in Nat
  BY <1>1
<1>3. \A i \in DOMAIN raw[r] : raw[r][i] \in Sightings
  BY <1>1, <1>2
<1>4. BatchEnd(r) \in Nat /\ BatchEnd(r) <= Len(raw[r])
  BY <1>1, <1>2, CatalogAssumption DEF BatchEnd
<1>5. \A i \in Normalized(r) : i \in DOMAIN raw[r]
  BY <1>1, <1>2, <1>4 DEF Normalized
<1> QED
  BY <1>3, <1>4, <1>5

LEMMA TypedStep ==
  ASSUME TypeOK, NothingRead, [Next]_vars
  PROVE  TypeOK'
<1> USE CatalogAssumption DEF TypeOK, Kinds, Idle, Busy, Erasing
<1>1. ASSUME NEW r \in Runs, Start(r)
      PROVE  TypeOK'
  <2>1. phase' \in [Runs -> Idle \union Busy]
    BY <1>1 DEF Start, Goes
  <2>2. kind' \in [Runs -> Kinds] /\ given' \in [Runs -> Spellings]
    BY <1>1 DEF Start
  <2>3. hash' \in [Runs -> {"none", "named", "nameless"}]
    BY <1>1 DEF Start
  <2> QED
    BY <1>1, <2>1, <2>2, <2>3 DEF Start, database
<1>2. ASSUME NEW r \in Runs, Detect(r)
      PROVE  TypeOK'
  <2>1. phase' \in [Runs -> Idle \union Busy] /\ hash' \in [Runs -> {"none", "named", "nameless"}]
    BY <1>2 DEF Detect, Goes, Touched
  <2>2. platform' \in [Runs -> Detectable \union {"generic"}] /\ draft' \in [Runs -> BOOLEAN]
    BY <1>2 DEF Detect
  <2>3. profile' \in BOOLEAN
    BY <1>2 DEF Detect
  <2> QED
    BY <1>2, <2>1, <2>2, <2>3 DEF Detect, erasure
<1>3. ASSUME NEW r \in Runs, Extract(r)
      PROVE  TypeOK'
  <2>1. PICK listing \in Listings : raw' = [raw EXCEPT ![r] = listing]
    BY <1>3 DEF Extract
  <2>2. raw' \in [Runs -> Listings \union {<<>>}]
    BY <2>1
  <2>3. next' = next /\ DOMAIN next' = Runs
    BY <1>3 DEF Extract
  <2>4. \A s \in Runs : next'[s] \in 1 .. Len(raw'[s]) + 1
    <3>1. raw[r] = <<>> /\ listing \in Seq(Sightings) /\ Len(listing) \in Nat
      BY <1>3 DEF Extract, NothingRead, Unread
    <3>2. next'[r] = 1 /\ 1 \in 1 .. Len(raw'[r]) + 1
      BY <1>3, <2>1, <2>3, <3>1 DEF Extract
    <3> QED
      BY <2>1, <2>3, <3>2
  <2>5. phase' \in [Runs -> Idle \union Busy] /\ hash' \in [Runs -> {"none", "named", "nameless"}]
    BY <1>3 DEF Extract, Goes, Touched
  <2> QED
    BY <1>3, <2>2, <2>3, <2>4, <2>5 DEF Extract, erasure, database
<1>4. ASSUME NEW r \in Runs, Normalize(r)
      PROVE  TypeOK'
  BY <1>4 DEF Normalize, Goes, Touched, erasure, database
<1>5. ASSUME NEW r \in Runs, IngestBatch(r)
      PROVE  TypeOK'
  <2>1. \A row \in Staged(r) : row.of \in Sightings /\ row.by \in Runs
    BY NormalizedInBounds DEF Staged, Row
  <2>2. \A row \in rows' : row.of \in Sightings /\ row.by \in Runs
    BY <1>5, <2>1 DEF IngestBatch, Upserted
  <2>3. DOMAIN next' = Runs /\ \A s \in Runs : next'[s] \in 1 .. Len(raw'[s]) + 1
    BY <1>5, NormalizedInBounds DEF IngestBatch
  <2> QED
    BY <1>5, <2>2, <2>3 DEF IngestBatch, Goes, redis, erasure
<1>6. ASSUME NEW r \in Runs, Backfill(r)
      PROVE  TypeOK'
  <2>1. draft' \in [Runs -> BOOLEAN] /\ profile' \in BOOLEAN
    BY <1>6 DEF Backfill
  <2> QED
    BY <1>6, <2>1 DEF Backfill, Goes, Touched, erasure
<1>7. ASSUME NEW r \in Runs, Complete(r)
      PROVE  TypeOK'
  <2>1. DOMAIN next' = Runs /\ \A s \in Runs : next'[s] \in 1 .. Len(raw'[s]) + 1
    BY <1>7 DEF Complete
  <2> QED
    BY <1>7, <2>1 DEF Complete, Goes, Touched, erasure, database
<1>8. ASSUME NEW r \in Runs, Fail(r)
      PROVE  TypeOK'
  <2>1. DOMAIN next' = Runs /\ \A s \in Runs : next'[s] \in 1 .. Len(raw'[s]) + 1
    BY <1>8 DEF Fail
  <2> QED
    BY <1>8, <2>1 DEF Fail, Goes, Touched, erasure, database
<1>9. ASSUME NEW r \in Runs, EraseHash(r) \/ EraseNewHash(r)
      PROVE  TypeOK'
  <2>1. hash' \in [Runs -> {"none", "named", "nameless"}]
    BY <1>9 DEF EraseHash, EraseNewHash
  <2>2. left' \subseteq Runs
    BY <1>9 DEF EraseHash, EraseNewHash, erasure
  <2> QED
    BY <1>9, <2>1, <2>2 DEF EraseHash, EraseNewHash, run, database, erasure
<1>10. CASE EraseProducts
  BY <1>10 DEF EraseProducts, run, redis
<1>11. CASE EraseProfile \/ EraseDlq \/ ErasureFails
  BY <1>11 DEF EraseProfile, EraseDlq, ErasureFails, run, redis, database
<1>12. CASE Cleanup
  BY <1>12 DEF Cleanup, run, redis, erasure
<1>13. CASE UNCHANGED vars
  BY <1>13 DEF vars, run, database, redis, erasure
<1> QED
  BY <1>1, <1>2, <1>3, <1>4, <1>5, <1>6, <1>7, <1>8, <1>9, <1>10, <1>11, <1>12, <1>13 DEF Next

LEMMA NothingReadStep ==
  ASSUME TypeOK, NothingRead, [Next]_vars
  PROVE  NothingRead'
<1> USE DEF TypeOK, NothingRead, Unread, Goes
<1>1. ASSUME NEW r \in Runs, Start(r) \/ Detect(r) \/ Extract(r) \/ Normalize(r)
      PROVE  NothingRead'
  BY <1>1 DEF Start, Detect, Extract, Normalize
<1>2. ASSUME NEW r \in Runs, IngestBatch(r) \/ Backfill(r) \/ Complete(r)
      PROVE  NothingRead'
  BY <1>2 DEF IngestBatch, Backfill, Complete
<1>3. ASSUME NEW r \in Runs, Fail(r)
      PROVE  NothingRead'
  BY <1>3 DEF Fail
<1>4. ASSUME UNCHANGED <<phase, raw>>
      PROVE  NothingRead'
  BY <1>4
<1>5. ASSUME NEW r \in Runs, EraseHash(r) \/ EraseNewHash(r)
      PROVE  UNCHANGED <<phase, raw>>
  BY <1>5 DEF EraseHash, EraseNewHash, run
<1>6. CASE EraseProducts \/ EraseProfile \/ EraseDlq \/ ErasureFails \/ Cleanup \/ UNCHANGED vars
  BY <1>4, <1>6 DEF EraseProducts, EraseProfile, EraseDlq, ErasureFails, Cleanup, vars, run
<1> QED
  BY <1>1, <1>2, <1>3, <1>4, <1>5, <1>6 DEF Next

LEMMA InitTyped == Init => TypeOK /\ NothingRead
<1> SUFFICES ASSUME Init
             PROVE  TypeOK /\ NothingRead
  OBVIOUS
<1>1. NothingRead
  BY DEF Init, NothingRead
<1>2. \A r \in Runs : raw[r] = <<>> /\ next[r] = 1 /\ Len(raw[r]) = 0
  BY DEF Init
<1>3. \A r \in Runs : next[r] \in 1 .. Len(raw[r]) + 1
  BY <1>2
<1> QED
  BY <1>1, <1>3 DEF Init, TypeOK, Kinds, Spellings, Idle, Busy, Erasing

\* Every variable keeps its type; no run reads past its products.
THEOREM TypeCorrectness == Spec => []TypeOK
<1> QED
  BY InitTyped, TypedStep, NothingReadStep, PTL DEF Spec

-----------------------------------------------------------------------------
(***************************************************************************)
(* No row is such that the cleanup takes it, and what has a key is only    *)
(* ever replaced by what has the same.                                     *)
(***************************************************************************)
RowsValid == \A row \in rows : ~IsInvalidRow(row)

\* Of the sightings of a batch that share a key the last one is staged.
LEMMA LastIsStaged ==
  ASSUME TypeOK, NEW r \in Runs, NEW i \in Normalized(r)
  PROVE  \E new \in Staged(r) : new.key = KeyIn(r, i)
<1> DEFINE same == {j \in Normalized(r) : KeyIn(r, j) = KeyIn(r, i)}
<1>1. Normalized(r) \in SUBSET Nat /\ BatchEnd(r) \in Nat /\ \A j \in Normalized(r) : j <= BatchEnd(r)
  <2>1. next[r] \in Nat
    BY DEF TypeOK
  <2> QED
    BY <2>1, NormalizedInBounds DEF Normalized
<1>2. same \in SUBSET Nat /\ i \in same /\ \A j \in same : j <= BatchEnd(r)
  BY <1>1
<1>3. PICK k \in same : \A j \in same : j <= k
  <2> HIDE DEF same
  <2> QED
    BY <1>1, <1>2, GreatestOf
<1>4. k \in Normalized(r) /\ KeyIn(r, k) = KeyIn(r, i)
  OBVIOUS
<1>5. \A j \in Normalized(r) : KeyIn(r, j) = KeyIn(r, k) => j <= k
  BY <1>3, <1>4
<1>6. Row(r, k) \in Staged(r)
  BY <1>4, <1>5 DEF Staged
<1>7. Row(r, k).key = KeyIn(r, k)
  BY DEF Row
<1> QED
  BY <1>4, <1>6, <1>7

\* Whatever is staged is of a product that was let through.
LEMMA StagedAreValid ==
  ASSUME NEW r \in Runs, NEW new \in Staged(r)
  PROVE  ~IsInvalidRow(new)
<1>1. PICK i \in Normalized(r) : new = Row(r, i)
  BY DEF Staged
<1>2. new.of = raw[r][i] /\ new.key.sku = Sku(raw[r][i]) /\ new.key.external = External(raw[r][i], platform[r])
  BY <1>1 DEF Row, KeyIn, Key
<1>3. IsValid(raw[r][i], platform[r])
  BY DEF Normalized
<1> QED
  BY <1>2, <1>3 DEF IsValid, IsInvalidRow

LEMMA OthersLeaveRows ==
  ASSUME NEW r \in Runs,
         Start(r) \/ Detect(r) \/ Extract(r) \/ Normalize(r) \/ Backfill(r)
           \/ Complete(r) \/ Fail(r) \/ EraseHash(r) \/ EraseNewHash(r)
  PROVE  rows' = rows
  BY DEF Start, Detect, Extract, Normalize, Backfill, Complete, Fail, EraseHash, EraseNewHash,
         database

LEMMA RowsValidStep ==
  ASSUME RowsValid, [Next]_vars
  PROVE  RowsValid'
<1>1. ASSUME NEW row \in rows' PROVE row \in rows \/ \E r \in Runs : row \in Staged(r)
  <2>1. ASSUME NEW r \in Runs, IngestBatch(r) PROVE row \in rows \/ row \in Staged(r)
    BY <1>1, <2>1 DEF IngestBatch, Upserted
  <2>2. CASE EraseProducts \/ Cleanup
    BY <1>1, <2>2 DEF EraseProducts, Cleanup
  <2>3. CASE EraseProfile \/ EraseDlq \/ ErasureFails \/ UNCHANGED vars
    BY <1>1, <2>3 DEF EraseProfile, EraseDlq, ErasureFails, vars, database
  <2> QED
    BY <1>1, <2>1, <2>2, <2>3, OthersLeaveRows DEF Next
<1>2. \A row : IsInvalidRow(row)' = IsInvalidRow(row)
  BY DEF IsInvalidRow
<1> QED
  BY <1>1, <1>2, StagedAreValid DEF RowsValid

LEMMA KeySurvives ==
  ASSUME TypeOK, RowsValid, [Next]_vars, ~EraseProducts, NEW row \in rows
  PROVE  \E new \in rows' : new.key = row.key
<1>1. ASSUME NEW r \in Runs, IngestBatch(r)
      PROVE  \E new \in rows' : new.key = row.key
  <2>1. rows' = Staged(r) \union {old \in rows : \A new \in Staged(r) : new.key # old.key}
    BY <1>1 DEF IngestBatch, Upserted
  <2>2. CASE \A new \in Staged(r) : new.key # row.key
    BY <2>1, <2>2
  <2>3. CASE \E new \in Staged(r) : new.key = row.key
    BY <2>1, <2>3
  <2> QED
    BY <2>2, <2>3
<1>2. CASE Cleanup
  BY <1>2 DEF Cleanup, RowsValid
<1>3. CASE EraseProfile \/ EraseDlq \/ ErasureFails \/ UNCHANGED vars
  BY <1>3 DEF EraseProfile, EraseDlq, ErasureFails, vars, database
<1> QED
  BY <1>1, <1>2, <1>3, OthersLeaveRows DEF Next

(***************************************************************************)
(* What a run has ingested only grows by its own IngestBatch.              *)
(***************************************************************************)
Keeps(r) ==
  /\ raw'[r] = raw[r] /\ kind'[r] = kind[r] /\ given'[r] = given[r] /\ platform'[r] = platform[r]
  /\ \A i \in DOMAIN raw[r] : Ingested(r, i)' => Ingested(r, i)

LEMMA OthersKeep ==
  ASSUME TypeOK, [Next]_vars, NEW r \in Runs, phase'[r] \in Reading \union AllRead,
         ~Extract(r), ~IngestBatch(r)
  PROVE  Keeps(r)
<1> USE DEF TypeOK, Ingested, Reading, AllRead, Goes, Keeps
<1>1. ASSUME NEW q \in Runs, Start(q) \/ Detect(q)
      PROVE  Keeps(r)
  BY <1>1 DEF Start, Detect
<1>2. ASSUME NEW q \in Runs, q # r, Extract(q) \/ IngestBatch(q)
      PROVE  Keeps(r)
  BY <1>2 DEF Extract, IngestBatch
<1>3. ASSUME NEW q \in Runs, Normalize(q) \/ Backfill(q)
      PROVE  Keeps(r)
  BY <1>3 DEF Normalize, Backfill
<1>4. ASSUME NEW q \in Runs, Complete(q)
      PROVE  Keeps(r)
  BY <1>4 DEF Complete
<1>5. ASSUME NEW q \in Runs, Fail(q)
      PROVE  Keeps(r)
  BY <1>5 DEF Fail
<1>6. ASSUME NEW q \in Runs, EraseHash(q) \/ EraseNewHash(q)
      PROVE  Keeps(r)
  BY <1>6 DEF EraseHash, EraseNewHash, run
<1>7. CASE EraseProducts \/ EraseProfile \/ EraseDlq \/ ErasureFails \/ Cleanup \/ UNCHANGED vars
  BY <1>7 DEF EraseProducts, EraseProfile, EraseDlq, ErasureFails, Cleanup, vars, run
<1> QED
  BY <1>1, <1>2, <1>3, <1>4, <1>5, <1>6, <1>7 DEF Next

LEMMA StoredStep ==
  ASSUME TypeOK, NothingRead, RowsValid, StoredSoFar, [Next]_vars
  PROVE  StoredSoFar'
<1> SUFFICES ASSUME NEW r \in Runs, r \notin wiped', NEW i \in DOMAIN raw'[r],
                    Ingested(r, i)', IsValid(raw'[r][i], platform'[r])
             PROVE  \E new \in rows' : new.key = KeyIn(r, i)'
  BY DEF StoredSoFar, Has
<1>1. phase'[r] \in Reading \union AllRead
  BY DEF Ingested
<1>2. ~EraseProducts
  BY <1>1 DEF EraseProducts, run, Reading, AllRead
<1>3. wiped' = wiped
  <2>1. ASSUME NEW q \in Runs,
               \/ Start(q) \/ Detect(q) \/ Extract(q) \/ Normalize(q) \/ IngestBatch(q)
               \/ Backfill(q) \/ Complete(q) \/ Fail(q) \/ EraseHash(q) \/ EraseNewHash(q)
        PROVE  wiped' = wiped
    BY <2>1 DEF Start, Detect, Extract, Normalize, IngestBatch, Backfill, Complete, Fail,
                EraseHash, EraseNewHash, erasure
  <2>2. CASE EraseProfile \/ EraseDlq \/ ErasureFails \/ Cleanup \/ UNCHANGED vars
    BY <2>2 DEF EraseProfile, EraseDlq, ErasureFails, Cleanup, vars, erasure
  <2> QED
    BY <1>2, <2>1, <2>2 DEF Next
<1>4. ASSUME raw'[r] = raw[r], kind'[r] = kind[r], given'[r] = given[r], platform'[r] = platform[r]
      PROVE  KeyIn(r, i)' = KeyIn(r, i)
  BY <1>4 DEF KeyIn, Key, External, Sku, ShopId
<1>5. ASSUME Keeps(r) \/ (IngestBatch(r) /\ i < next[r])
      PROVE  \E new \in rows' : new.key = KeyIn(r, i)'
  <2>1. raw'[r] = raw[r] /\ kind'[r] = kind[r] /\ given'[r] = given[r] /\ platform'[r] = platform[r]
    BY <1>5 DEF Keeps, IngestBatch
  <2>2. Ingested(r, i)
    BY <1>5, <2>1 DEF Keeps, IngestBatch, Ingested, Reading
  <2>3. PICK row \in rows : row.key = KeyIn(r, i)
    BY <1>3, <2>1, <2>2 DEF StoredSoFar, Has
  <2> QED
    BY <1>2, <1>4, <2>1, <2>3, KeySurvives
<1>6. CASE Extract(r)
  <2>1. phase'[r] = "normalizing" /\ next'[r] = next[r] /\ raw[r] = <<>>
    BY <1>6 DEF Extract, Goes, NothingRead, Unread, TypeOK
  <2>2. next[r] = 1
    BY <2>1 DEF TypeOK
  <2>3. i < 1
    BY <2>1, <2>2 DEF Ingested, AllRead
  <2>4. raw'[r] \in Seq(Sightings)
    BY <1>6, CatalogAssumption DEF Extract, TypeOK
  <2> QED
    BY <2>3, <2>4
<1>7. CASE IngestBatch(r)
  <2>1. raw' = raw /\ kind' = kind /\ given' = given /\ platform' = platform
    BY <1>7 DEF IngestBatch
  <2>2. raw[r] \in Seq(Sightings) /\ i \in 1 .. Len(raw[r]) /\ next[r] \in 1 .. Len(raw[r]) + 1
    <3>1. <<>> \in Seq(Sightings) /\ Listings \subseteq Seq(Sightings)
      BY CatalogAssumption
    <3>2. raw[r] \in Seq(Sightings) /\ next[r] \in 1 .. Len(raw[r]) + 1
      BY <3>1 DEF TypeOK
    <3> QED
      BY <2>1, <3>2
  <2>3. i <= BatchEnd(r)
    <3>1. BatchEnd(r) \in Nat /\ BatchEnd(r) <= Len(raw[r])
      BY NormalizedInBounds
    <3>2. CASE BatchEnd(r) < Len(raw[r])
      <4>1. phase'[r] = "normalizing" /\ next'[r] = BatchEnd(r) + 1
        BY <1>7, <3>2 DEF IngestBatch, Goes, TypeOK
      <4> QED
        BY <2>2, <3>1, <4>1 DEF Ingested, AllRead
    <3> QED
      BY <2>2, <3>1, <3>2
  <2>4. CASE i < next[r]
    BY <1>7, <1>5, <2>4
  <2>5. CASE next[r] <= i
    <3>1. i \in Normalized(r)
      BY <2>1, <2>2, <2>3, <2>5, NormalizedInBounds DEF Normalized
    <3>2. PICK new \in Staged(r) : new.key = KeyIn(r, i)
      BY <3>1, LastIsStaged
    <3>3. new \in rows'
      BY <1>7 DEF IngestBatch, Upserted
    <3> QED
      BY <1>4, <2>1, <3>2, <3>3
  <2> QED
    BY <2>2, <2>4, <2>5
<1>8. CASE ~Extract(r) /\ ~IngestBatch(r)
  <2>1. Keeps(r)
    BY <1>1, <1>8, OthersKeep
  <2>2. \E new \in rows' : new.key = KeyIn(r, i)'
    BY <1>5, <2>1, Zenon
  <2> QED
    BY <2>2
<1> QED
  BY <1>6, <1>7, <1>8

\* A completed run has a row under the key of every product that passed the normalizer,
\* whatever other runs and cleanups did meanwhile, unless the shop was erased.
THEOREM CompletedRunIsStored == Spec => []CompletedIsStored
<1>1. Init => TypeOK /\ NothingRead /\ RowsValid /\ StoredSoFar
  <2> SUFFICES ASSUME Init
               PROVE  RowsValid /\ StoredSoFar
    BY InitTyped
  <2>1. \A r \in Runs : ~(phase[r] \in Reading \union AllRead)
    BY DEF Init, Reading, AllRead
  <2> QED
    BY <2>1 DEF StoredSoFar, Ingested, Init, RowsValid
<1>2. ASSUME TypeOK, StoredSoFar
      PROVE  CompletedIsStored
  BY <1>2 DEF CompletedIsStored, StoredSoFar, Ingested, AllRead, Has
<1> QED
  BY <1>1, <1>2, TypedStep, NothingReadStep, RowsValidStep, StoredStep, PTL DEF Spec

-----------------------------------------------------------------------------
LEMMA ErasedStep ==
  ASSUME TypeOK, ErasedSoFar, [Next]_vars
  PROVE  ErasedSoFar'
<1> SUFFICES ASSUME quiet'
             PROVE  ErasedSoFar'
  BY DEF ErasedSoFar
<1> USE DEF ErasedSoFar
<1>1. CASE EraseProducts
  BY <1>1 DEF EraseProducts, run, redis
<1>2. CASE EraseProfile
  BY <1>2 DEF EraseProfile, run, redis
<1>3. CASE EraseDlq
  BY <1>3 DEF EraseDlq, run, database
<1>4. CASE ErasureFails
  BY <1>4 DEF ErasureFails, run, database, redis
<1>5. CASE Cleanup
  BY <1>5 DEF Cleanup, run, redis, erasure
<1>6. ASSUME NEW r \in Runs, EraseHash(r)
      PROVE  ErasedSoFar'
  BY <1>6 DEF EraseHash, run, database, TypeOK
<1>7. ASSUME NEW r \in Runs, EraseNewHash(r)
      PROVE  ErasedSoFar'
  BY <1>7 DEF EraseNewHash, run, database, erasure, TypeOK
<1>8. ASSUME NEW r \in Runs,
             \/ Start(r) \/ Detect(r) \/ Extract(r) \/ Normalize(r) \/ IngestBatch(r)
             \/ Backfill(r) \/ Complete(r) \/ Fail(r)
      PROVE  FALSE
  <2>1. quiet => phase[r] \in Idle
    OBVIOUS
  <2> QED
    BY <1>8, <2>1 DEF Start, Detect, Extract, Normalize, IngestBatch, Backfill, Complete,
                      Fail, erasure, Idle, Busy
<1>9. CASE UNCHANGED vars
  BY <1>9 DEF vars, run, database, redis, erasure
<1> QED
  BY <1>1, <1>2, <1>3, <1>4, <1>5, <1>6, <1>7, <1>8, <1>9 DEF Next

\* What an erasure that no run overlapped was to delete is deleted when it is done, and
\* stays so until a run starts.
THEOREM ErasureLasts == Spec => []ErasedIsGone
<1>1. Init => TypeOK /\ NothingRead /\ ErasedSoFar
  BY InitTyped DEF Init, ErasedSoFar
<1>2. ErasedSoFar => ErasedIsGone
  BY DEF ErasedSoFar, ErasedIsGone
<1> QED
  BY <1>1, <1>2, TypedStep, NothingReadStep, ErasedStep, PTL DEF Spec

-----------------------------------------------------------------------------
(***************************************************************************)
(* RerunAddsNoRow.  A row says by its key what it is of and who wrote it,  *)
(* and no two rows share a key.                                            *)
(***************************************************************************)
RowsTold ==
  \A row \in rows :
    /\ phase[row.by] \notin {"idle", "detecting"}
    /\ row.key = Key(row.of, platform[row.by], ShopId(row.by))

OneRowPerKey == \A a, b \in rows : a.key = b.key => a = b

Settled(r) ==
  /\ phase'[r] \notin {"idle", "detecting"}
  /\ kind'[r] = kind[r] /\ given'[r] = given[r] /\ platform'[r] = platform[r]

\* What a run is of does not change once it has looked at the shop.
LEMMA SettledStays ==
  ASSUME TypeOK, [Next]_vars, NEW r \in Runs, phase[r] \notin {"idle", "detecting"}
  PROVE  Settled(r)
<1> USE DEF TypeOK, Goes, Settled
<1>1. ASSUME NEW q \in Runs, Start(q) \/ Detect(q) \/ Extract(q) \/ Normalize(q)
      PROVE  Settled(r)
  BY <1>1 DEF Start, Detect, Extract, Normalize
<1>2. ASSUME NEW q \in Runs, IngestBatch(q) \/ Backfill(q) \/ Complete(q) \/ Fail(q)
      PROVE  Settled(r)
  BY <1>2 DEF IngestBatch, Backfill, Complete, Fail
<1>3. ASSUME NEW q \in Runs, EraseHash(q) \/ EraseNewHash(q)
      PROVE  Settled(r)
  BY <1>3 DEF EraseHash, EraseNewHash, run
<1>4. CASE EraseProducts \/ EraseProfile \/ EraseDlq \/ ErasureFails \/ Cleanup \/ UNCHANGED vars
  BY <1>4 DEF EraseProducts, EraseProfile, EraseDlq, ErasureFails, Cleanup, vars, run
<1> QED
  BY <1>1, <1>2, <1>3, <1>4 DEF Next

\* Only an upsert brings rows in.
LEMMA OthersBringNoRow ==
  ASSUME [Next]_vars, \A r \in Runs : ~IngestBatch(r)
  PROVE  rows' \subseteq rows
<1>1. CASE EraseProducts \/ EraseProfile \/ EraseDlq \/ ErasureFails \/ Cleanup \/ UNCHANGED vars
  BY <1>1 DEF EraseProducts, EraseProfile, EraseDlq, ErasureFails, Cleanup, vars, database
<1> QED
  BY <1>1, OthersLeaveRows DEF Next

LEMMA KeysStep ==
  ASSUME TypeOK, RowsTold, OneRowPerKey, [Next]_vars
  PROVE  RowsTold' /\ OneRowPerKey'
<1>1. \A row \in rows : row.of \in Sightings /\ row.by \in Runs
  BY DEF TypeOK
<1>2. ASSUME NEW s, NEW r \in Runs, Settled(r)
      PROVE  Key(s, platform[r], ShopId(r))' = Key(s, platform[r], ShopId(r))
  BY <1>2 DEF Settled, Key, External, Sku, ShopId
<1>3. ASSUME NEW row \in rows
      PROVE  /\ phase'[row.by] \notin {"idle", "detecting"}
             /\ row.key = Key(row.of, platform[row.by], ShopId(row.by))'
  <2>1. Settled(row.by)
    BY <1>1, <1>3, SettledStays DEF RowsTold
  <2>2. Key(row.of, platform[row.by], ShopId(row.by))' = Key(row.of, platform[row.by], ShopId(row.by))
    BY <1>1, <1>2, <2>1
  <2> QED
    BY <1>3, <2>1, <2>2 DEF RowsTold, Settled
<1>4. CASE \A r \in Runs : ~IngestBatch(r)
  BY <1>3, <1>4, OthersBringNoRow DEF RowsTold, OneRowPerKey
<1>5. ASSUME NEW r \in Runs, IngestBatch(r) PROVE RowsTold' /\ OneRowPerKey'
  <2>1. /\ rows' = Staged(r) \union {old \in rows : \A new \in Staged(r) : new.key # old.key}
        /\ phase[r] = "ingesting"
    BY <1>5 DEF IngestBatch, Upserted
  <2>2. Settled(r)
    BY <2>1, SettledStays
  <2>3. \A new \in Staged(r) :
          new.by = r /\ new.key = Key(new.of, platform[r], ShopId(r))
    BY DEF Staged, Row, KeyIn
  <2>4. ASSUME NEW new \in Staged(r)
        PROVE  phase'[new.by] \notin {"idle", "detecting"} /\ new.key = Key(new.of, platform[new.by], ShopId(new.by))'
    <3>1. Key(new.of, platform[r], ShopId(r))' = Key(new.of, platform[r], ShopId(r))
      BY <1>2, <2>2
    <3> QED
      BY <2>2, <2>3, <3>1 DEF Settled
  <2>5. RowsTold'
    BY <1>3, <2>1, <2>4 DEF RowsTold
  <2>6. ASSUME NEW a \in Staged(r), NEW b \in Staged(r), a.key = b.key PROVE a = b
    <3>1. PICK i \in Normalized(r) :
            a = Row(r, i) /\ \A j \in Normalized(r) : KeyIn(r, j) = KeyIn(r, i) => j <= i
      BY DEF Staged
    <3>2. PICK k \in Normalized(r) :
            b = Row(r, k) /\ \A j \in Normalized(r) : KeyIn(r, j) = KeyIn(r, k) => j <= k
      BY DEF Staged
    <3>3. KeyIn(r, i) = KeyIn(r, k)
      BY <2>6, <3>1, <3>2 DEF Row
    <3>4. i \in Nat /\ k \in Nat
      <4>1. next[r] \in Nat
        BY DEF TypeOK
      <4> QED
        BY <4>1, NormalizedInBounds DEF Normalized
    <3> QED
      BY <3>1, <3>2, <3>3, <3>4
  <2>7. OneRowPerKey'
    BY <2>1, <2>6 DEF OneRowPerKey
  <2> QED
    BY <2>5, <2>7
<1> QED
  BY <1>4, <1>5

\* However often a shop is onboarded, at once or again: two rows of an item were read in
\* different ways, in runs that took the shop for different platforms, or for different
\* spellings of its URL.
THEOREM RerunsAddNoRow == Spec => []RerunAddsNoRow
<1>1. Init => RowsTold /\ OneRowPerKey
  BY DEF Init, RowsTold, OneRowPerKey
<1>2. TypeOK /\ RowsTold /\ OneRowPerKey => RerunAddsNoRow
  <2> SUFFICES ASSUME TypeOK, RowsTold, OneRowPerKey, NEW a \in rows, NEW b \in rows,
                      a.of.item = b.of.item, a.of.read = b.of.read,
                      platform[a.by] = platform[b.by], ShopId(a.by) = ShopId(b.by)
               PROVE  a = b
    BY DEF RerunAddsNoRow
  <2>1. a.of \in Sightings /\ b.of \in Sightings
    BY DEF TypeOK
  <2>2. a.of = b.of
    BY <2>1 DEF Sightings
  <2>3. a.key = b.key
    BY <2>2 DEF RowsTold
  <2> QED
    BY <2>3 DEF OneRowPerKey
<1> QED
  BY <1>1, <1>2, InitTyped, TypedStep, NothingReadStep, KeysStep, PTL DEF Spec
==============================================================================
