--------------------- MODULE OnboardingJobContractProofs ---------------------
(***************************************************************************)
(* Proofs that what OnboardingJob shows as completed is stored, that it    *)
(* implements JobDelivery, and that, while no process is lost, a job of    *)
(* the API runs in one place and is not put back to work.                  *)
(***************************************************************************)
EXTENDS OnboardingJobProofs

-----------------------------------------------------------------------------
(***************************************************************************)
(* Completed means stored.  A worker at batch b of the loop has stored all *)
(* batches before b, so one that leaves the loop has stored them all.  The *)
(* direct pipeline may run without a database, so nothing is claimed of    *)
(* its jobs; they are never handed to the broker later.                    *)
(***************************************************************************)
LoopStores ==
  \A w \in Workers :
    pc[w] \in {"normalizing", "ingesting"} =>
      \A b \in Batches : b < batch[w] => b \in products[job[w]]

EndStored ==
  \A w \in Workers : pc[w] \in {"stamping", "completed"} => products[job[w]] = Batches

FreshIsEmpty ==
  \A j \in Jobs :
    api[j] \in {"absent", "created"} => hash[j].status # "completed" /\ products[j] = {}

StoredInv == LoopStores /\ EndStored /\ FreshIsEmpty /\ CompletedMeansStored

\* What writing does to the status of a hash.
LEMMA StatusWrites ==
  ASSUME NEW h \in Hashes, NEW s
  PROVE  /\ Update(h, s).status = s
         /\ UpdateWithError(h, s).status = s
         /\ SetStartedAt(h).status = h.status
         /\ SetCompletedAt(h).status = h.status
         /\ MarkStale(h).status = "failed"
  BY DEF Hashes, Update, UpdateWithError, SetStartedAt, SetCompletedAt, MarkStale

LEMMA InitStoredInv == Init => StoredInv
  BY DEF Init, StoredInv, LoopStores, EndStored, FreshIsEmpty, CompletedMeansStored, NoHash,
         Runners

\* A step that stores nothing, publishes no status "completed" and leaves every worker where
\* it is, or takes it out of the loop, keeps the invariant.
LEMMA StoredInvStays ==
  ASSUME TypeInv, Ownership, StoredInv, UNCHANGED products,
         \A j \in Jobs : hash'[j].status = "completed" => hash[j].status = "completed",
         \A j \in Jobs : api'[j] \in {"absent", "created"} => api[j] = api'[j] \/ api[j] = "absent",
         \A j \in Jobs : api'[j] = "celery" => api[j] \in {"absent", "created", "celery"},
         \A w \in Workers :
           \/ job'[w] = job[w] /\ pc'[w] = pc[w] /\ batch'[w] = batch[w]
           \/ pc'[w] \notin {"normalizing", "ingesting", "stamping", "completed"}
  PROVE  StoredInv'
<1>1. LoopStores' /\ EndStored'
  BY DEF StoredInv, LoopStores, EndStored
<1>2. FreshIsEmpty'
  BY DEF StoredInv, FreshIsEmpty
<1>3. CompletedMeansStored'
  BY DEF StoredInv, FreshIsEmpty, CompletedMeansStored
<1> QED
  BY <1>1, <1>2, <1>3 DEF StoredInv

\* The pipeline, step by step.
LEMMA PipelineStoredInv ==
  ASSUME TypeInv, Ownership, StoredInv, NEW r \in Runners, RunPipeline(r)
  PROVE  StoredInv'
<1>t. /\ pc \in [Runners -> Steps] /\ batch \in [Runners -> 1 .. NBatches + 1]
      /\ hash \in [Jobs -> Hashes] /\ products \in [Jobs -> SUBSET Batches]
      /\ Workers \subseteq Runners
      /\ pc[r] # "idle" /\ job[r] \in Jobs /\ hash[job[r]] \in Hashes
      /\ \A w \in Workers : pc[w] # "idle" => job[w] \in Jobs
      /\ pc[r] = "ingesting" => batch[r] \in Batches
  BY PipelineShape, OnboardingAssumption
  DEF TypeInv, TypeOK, BusyHasJob, BatchInRange, Runners, Inner, Started, Batches
<1>o. /\ \A w \in Workers : pc[w] # "idle" => api[job[w]] = "celery"
      /\ r \in Workers \/ api[job[r]] = "direct"
      /\ api[job[r]] \in {"celery", "direct"}
  BY <1>t DEF Ownership, WorkersOwn, DirectOwn, Runners
<1>w. UNCHANGED <<api, job>>
  BY PipelineShape
\* Steps that publish a status other than "completed" and stay out of the loop.
<1>r. ASSUME NEW from, NEW to \in Steps \ {"normalizing", "ingesting", "stamping", "completed"},
             NEW s \in JobStatuses \ {"completed"},
             Reports(r, from, to, s) \/ ReportsError(r, from, to, s)
      PROVE  StoredInv'
  <2>1. \A j \in Jobs : hash'[j].status = "completed" => hash[j].status = "completed"
    BY <1>r, <1>t, StatusWrites DEF Reports, ReportsError, Writes
  <2>2. UNCHANGED <<products, batch>> /\ pc' = [pc EXCEPT ![r] = to]
    BY <1>r DEF Reports, ReportsError, Writes, Goto
  <2> QED
    BY <1>r, <1>t, <1>w, <2>1, <2>2, StoredInvStays
<1> USE DEF Steps, Inner, Started, Ended, JobStatuses, ActiveStatuses
<1>1. CASE Begin(r)
  BY <1>1, <1>r DEF Begin
<1>2. CASE RecordStart(r)
  <2>1. \A j \in Jobs : hash'[j].status = "completed" => hash[j].status = "completed"
    BY <1>2, <1>t, StatusWrites DEF RecordStart, Writes
  <2>2. UNCHANGED <<products, batch>>
    BY <1>2 DEF RecordStart, Writes
  <2>3. pc' = [pc EXCEPT ![r] = "feed"] \/ pc' = [pc EXCEPT ![r] = "detecting"]
    BY <1>2 DEF RecordStart, Writes, Goto
  <2> QED
    BY <1>t, <1>w, <2>1, <2>2, <2>3, StoredInvStays
<1>3. CASE PlatformDetected(r) \/ NoUrls(r) \/ UrlsDiscovered(r)
  BY <1>3, <1>r DEF PlatformDetected, NoUrls, UrlsDiscovered
<1>4. CASE ExtractionInvalid(r) \/ ProductsExtracted(r) \/ FeedRejected(r) \/ RecordFailure(r)
  BY <1>4, <1>r DEF ExtractionInvalid, ProductsExtracted, FeedRejected, RecordFailure
<1>5. CASE PipelineFails(r) \/ TimesOut(r) \/ FailureNotRecorded(r)
  <2>1. UNCHANGED <<hash, products, batch>>
    BY <1>5 DEF PipelineFails, TimesOut, FailureNotRecorded, Moves, redisVars
  <2>2. \E to \in {"raised", "handling", "timedout"} : pc' = [pc EXCEPT ![r] = to]
    BY <1>5 DEF PipelineFails, TimesOut, FailureNotRecorded, Moves, Goto
  <2> QED
    BY <1>t, <1>w, <2>1, <2>2, StoredInvStays
<1>6. CASE Verified(r) \/ FeedParsed(r) \/ NormalizeBatch(r)
  <2>1. \A j \in Jobs : hash'[j].status = "completed" => hash[j].status = "completed"
    BY <1>6, <1>t, StatusWrites
    DEF Verified, FeedParsed, NormalizeBatch, Reports, Writes
  <2>2. UNCHANGED products
    BY <1>6 DEF Verified, FeedParsed, NormalizeBatch, Reports, Writes
  <2>3. \/ pc' = [pc EXCEPT ![r] = "normalizing"] /\ batch' = [batch EXCEPT ![r] = 1]
        \/ /\ pc' = [pc EXCEPT ![r] = "ingesting"] /\ batch' = batch
           /\ pc[r] = "normalizing"
    BY <1>6 DEF Verified, FeedParsed, NormalizeBatch, Reports, Writes, Goto, FirstBatch
  <2>4. LoopStores' /\ EndStored'
    BY <1>t, <1>w, <2>2, <2>3 DEF StoredInv, LoopStores, EndStored, Batches
  <2>5. FreshIsEmpty' /\ CompletedMeansStored'
    BY <1>w, <2>1, <2>2 DEF StoredInv, FreshIsEmpty, CompletedMeansStored
  <2> QED
    BY <2>4, <2>5 DEF StoredInv
<1>7. CASE IngestBatch(r)
  <2>1. /\ products' = [products EXCEPT ![job[r]] = @ \union {batch[r]}]
        /\ batch' = [batch EXCEPT ![r] = @ + 1]
        /\ pc' = [pc EXCEPT ![r] = "normalizing"]
        /\ pc[r] = "ingesting"
        /\ hash' = hash
    BY <1>7 DEF IngestBatch, Goto, redisVars
  <2>2. \A j \in Jobs : products[j] \subseteq products'[j] /\ products'[j] \subseteq Batches
    BY <2>1, <1>t
  <2>3. LoopStores'
    <3> SUFFICES ASSUME NEW w \in Workers, pc'[w] \in {"normalizing", "ingesting"},
                        NEW b \in Batches, b < batch'[w]
                 PROVE  b \in products'[job'[w]]
      BY DEF LoopStores
    <3>1. CASE w = r
      <4>1. b < batch[r] \/ b = batch[r]
        BY <2>1, <1>t, <3>1, OnboardingAssumption DEF Batches
      <4>2. b < batch[r] => b \in products[job[r]]
        BY <2>1, <3>1 DEF StoredInv, LoopStores
      <4> QED
        BY <2>1, <1>t, <1>w, <3>1, <4>1, <4>2
    <3>2. CASE w # r
      <4>1. pc[w] \in {"normalizing", "ingesting"} /\ batch'[w] = batch[w]
        BY <2>1, <1>t, <3>2
      <4>2. b \in products[job[w]] /\ job[w] \in Jobs
        BY <4>1, <1>t DEF StoredInv, LoopStores
      <4> QED
        BY <4>2, <2>2, <1>w
    <3> QED
      BY <3>1, <3>2
  <2>4. EndStored'
    <3> SUFFICES ASSUME NEW w \in Workers, pc'[w] \in {"stamping", "completed"}
                 PROVE  products'[job'[w]] = Batches
      BY DEF EndStored
    <3>1. pc[w] \in {"stamping", "completed"} /\ job[w] \in Jobs
      BY <2>1, <1>t
    <3> QED
      BY <3>1, <2>2, <1>w DEF StoredInv, EndStored
  <2>5. FreshIsEmpty'
    BY <2>1, <1>t, <1>o, <1>w DEF StoredInv, FreshIsEmpty
  <2>6. CompletedMeansStored'
    BY <2>1, <2>2, <1>w DEF StoredInv, CompletedMeansStored
  <2> QED
    BY <2>3, <2>4, <2>5, <2>6 DEF StoredInv
<1>8. CASE Complete(r) \/ RecordCompletion(r)
  <2>1. /\ UNCHANGED <<products, batch>>
        /\ \/ pc' = [pc EXCEPT ![r] = "stamping"] /\ pc[r] = "normalizing" /\ batch[r] > NBatches
           \/ pc' = [pc EXCEPT ![r] = "completed"] /\ pc[r] = "stamping"
    BY <1>8 DEF Complete, RecordCompletion, Reports, Writes, Goto, AllIngested
  <2>2. r \in Workers => products[job[r]] = Batches
    <3>1. CASE pc[r] = "stamping"
      BY <3>1 DEF StoredInv, EndStored
    <3>2. CASE pc[r] = "normalizing" /\ batch[r] > NBatches
      <4>1. \A b \in Batches : b < batch[r]
        BY <3>2, <1>t, OnboardingAssumption DEF Batches
      <4>2. r \in Workers => Batches \subseteq products[job[r]]
        BY <3>2, <4>1 DEF StoredInv, LoopStores
      <4> QED
        BY <4>2, <1>t
    <3> QED
      BY <2>1, <3>1, <3>2
  <2>3. \A j \in Jobs : j # job[r] => hash'[j] = hash[j]
    BY <1>8, <1>t DEF Complete, RecordCompletion, Reports, Writes
  <2>4. LoopStores' /\ EndStored'
    BY <2>1, <2>2, <1>t, <1>w DEF StoredInv, LoopStores, EndStored
  <2>5. FreshIsEmpty' /\ CompletedMeansStored'
    BY <2>1, <2>2, <2>3, <1>o, <1>w DEF StoredInv, FreshIsEmpty, CompletedMeansStored
  <2> QED
    BY <2>4, <2>5 DEF StoredInv
<1> QED
  BY <1>1, <1>2, <1>3, <1>4, <1>5, <1>6, <1>7, <1>8 DEF RunPipeline

LEMMA NextStoredInv == TypeInv /\ Ownership /\ StoredInv /\ [Next]_vars => StoredInv'
<1> SUFFICES ASSUME TypeInv, Ownership, StoredInv, [Next]_vars PROVE StoredInv'
  OBVIOUS
<1>t. /\ pc \in [Runners -> Steps] /\ job \in [Runners -> Jobs \union {None}]
      /\ batch \in [Runners -> 1 .. NBatches + 1]
      /\ hash \in [Jobs -> Hashes] /\ products \in [Jobs -> SUBSET Batches]
      /\ api \in [Jobs -> {"absent", "created", "celery", "direct", "abandoned"}]
      /\ replay \in [Replayers -> EntryIds \union {None}]
      /\ \A e \in EntryIds : api[e] \in {"absent", "celery"}
      /\ \A w \in Workers : pc[w] # "idle" => job[w] \in Jobs
  BY DEF TypeInv, TypeOK, BusyHasJob, Ownership, EntriesOwned, Runners
<1>s. /\ Workers \subseteq Runners /\ DirectRunners \subseteq Runners
      /\ Workers \intersect DirectRunners = {}
      /\ ApiJobs \subseteq Jobs /\ EntryIds \subseteq Jobs
  BY OnboardingAssumption DEF Runners, Jobs
<1>1. ASSUME NEW j \in ApiJobs, Post(j) PROVE StoredInv'
  <2>1. ASSUME NEW kind \in {"shop", "feed"}, CreateJob(j, kind) PROVE StoredInv'
    <3>1. \A i \in Jobs : hash'[i].status = "completed" => hash[i].status = "completed"
      BY <2>1, <1>t, <1>s, StatusWrites DEF CreateJob
    <3> QED
      BY <2>1, <3>1, <1>t, <1>s, StoredInvStays DEF CreateJob, runVars
  <2>2. CASE DispatchToCelery(j)
    BY <2>2, <1>t, <1>s, StoredInvStays DEF DispatchToCelery, redisVars, runVars
  <2>3. ASSUME NEW d \in DirectRunners, RunDirectly(j, d) PROVE StoredInv'
    BY <2>3, <1>t, <1>s, StoredInvStays DEF RunDirectly, redisVars
  <2>4. CASE CreationFails(j)
    BY <2>4, <1>t, <1>s, StoredInvStays DEF CreationFails, redisVars, runVars
  <2> QED
    BY <1>1, <2>1, <2>2, <2>3, <2>4 DEF Post
<1>2. ASSUME NEW j \in Jobs, SweepFinds(j) \/ SweepMarks(j) \/ Ages(j) PROVE StoredInv'
  <2>1. \A i \in Jobs : hash'[i].status = "completed" => hash[i].status = "completed"
    BY <1>2, <1>t, StatusWrites DEF SweepFinds, SweepMarks, Ages
  <2> QED
    BY <1>2, <2>1, <1>t, StoredInvStays
    DEF SweepFinds, SweepMarks, Ages, apiVars, runVars
<1>3. ASSUME NEW w \in Workers, Receive(w) PROVE StoredInv'
  BY <1>3, <1>t, <1>s, StoredInvStays DEF Receive, Goto, redisVars, apiVars
<1>4. ASSUME NEW r \in Runners, RunPipeline(r) PROVE StoredInv'
  BY <1>4, PipelineStoredInv
<1>5. ASSUME NEW w \in Workers,
             Connect(w) \/ ConnectFails(w) \/ CleanupFails(w) \/ ParkFails(w)
      PROVE  StoredInv'
  BY <1>5, <1>t, <1>s, StoredInvStays
  DEF Connect, ConnectFails, CleanupFails, ParkFails, Moves, Goto, redisVars, apiVars
<1>6. ASSUME NEW w \in Workers, NEW e \in EntryIds, Park(w, e) PROVE StoredInv'
  BY <1>6, <1>t, <1>s, StoredInvStays DEF Park, Goto, redisVars
<1>7. ASSUME NEW w \in Workers, Retry(w) PROVE StoredInv'
  BY <1>7, <1>t, <1>s, StoredInvStays DEF Retry, Goto, redisVars, apiVars
<1>8. ASSUME NEW w \in Workers, Acknowledge(w) \/ WorkerLost(w) PROVE StoredInv'
  BY <1>8, <1>t, <1>s, StoredInvStays
  DEF Acknowledge, WorkerLost, Release, Goto, redisVars, apiVars
<1>9. ASSUME NEW d \in DirectRunners, SkipIngest(d) \/ DirectEnds(d) PROVE StoredInv'
  BY <1>9, <1>t, <1>s, StoredInvStays
  DEF SkipIngest, DirectEnds, Release, Goto, redisVars, apiVars
<1>10. ASSUME NEW p \in Replayers, Replay(p) PROVE StoredInv'
  BY <1>10, <1>t, <1>s, StoredInvStays
  DEF Replay, ReplayRead, ReplayDispatch, ReplayDropped, redisVars, apiVars, runVars
<1>11. CASE ApiLost
  BY <1>11, <1>t, <1>s, StoredInvStays DEF ApiLost, redisVars
<1>12. CASE UNCHANGED vars
  BY <1>12, StoredInvStays DEF vars, redisVars, apiVars, runVars
<1> QED
  BY <1>1, <1>2, <1>3, <1>4, <1>5, <1>6, <1>7, <1>8, <1>9, <1>10, <1>11, <1>12, <1>s
  DEF Next, RunTask, RunDirect

\* All of it together, which the theorems below start from.
LEMMA StoredInvariant == Spec => [](TypeInv /\ Ownership /\ StoredInv)
<1>1. Init => TypeInv /\ Ownership /\ StoredInv
  BY InitTypeInv, InitOwnership, InitStoredInv
<1>2. TypeInv /\ Ownership /\ StoredInv /\ [Next]_vars
        => TypeInv' /\ Ownership' /\ StoredInv'
  BY NextTypeInv, NextOwnership, NextStoredInv
<1> QED
  BY <1>1, <1>2, PTL DEF Spec

\* A job of the queue is shown as COMPLETED only with every batch in the products table.
THEOREM CompletedIsStored == Spec => []CompletedMeansStored
  BY StoredInvariant, PTL DEF StoredInv

-----------------------------------------------------------------------------
(***************************************************************************)
(* The refinement of JobDelivery.                                          *)
(***************************************************************************)

\* Steps the contract does not see.
LEMMA ContractStutters ==
  ASSUME \A j \in Jobs : api'[j] = "celery" <=> api[j] = "celery",
         \A j \in Jobs : api[j] = "celery" => products'[j] = products[j],
         UNCHANGED outcome
  PROVE  UNCHANGED Contract!vars
<1>1. Taken' = Taken
  BY DEF Taken
<1>2. Delivered' = Delivered
  BY <1>1 DEF Delivered, Taken
<1> QED
  BY <1>1, <1>2 DEF Contract!vars

\* The dispatch of a job, be it new or a DLQ entry.
LEMMA ContractTakes ==
  ASSUME TypeInv, StoredInv, NEW j \in Jobs, api[j] \in {"absent", "created", "celery"},
         api' = [api EXCEPT ![j] = "celery"], UNCHANGED <<products, outcome>>
  PROVE  Contract!Take(j)
<1>t. api \in [Jobs -> {"absent", "created", "celery", "direct", "abandoned"}]
  BY DEF TypeInv, TypeOK
<1>1. Taken' = Taken \union {j}
  BY <1>t DEF Taken
<1>2. Delivered' = Delivered
  BY <1>1, <1>t DEF Delivered, Taken, StoredInv, FreshIsEmpty
<1> QED
  BY <1>1, <1>2 DEF Contract!Take

LEMMA ContractStep ==
  TypeInv /\ Ownership /\ StoredInv /\ [Next]_vars => [Contract!Next]_(Contract!vars)
<1> SUFFICES ASSUME TypeInv, Ownership, StoredInv, [Next]_vars
             PROVE  [Contract!Next]_(Contract!vars)
  OBVIOUS
<1>t. /\ api \in [Jobs -> {"absent", "created", "celery", "direct", "abandoned"}]
      /\ products \in [Jobs -> SUBSET Batches]
      /\ outcome \in [Jobs -> SUBSET {"completed", "reviewed", "exhausted"}]
      /\ replay \in [Replayers -> EntryIds \union {None}]
      /\ \A e \in EntryIds : api[e] \in {"absent", "celery"}
      /\ \A r \in Runners : pc[r] # "idle" => job[r] \in Jobs
      /\ \A r \in Runners : pc[r] = "ingesting" => batch[r] \in Batches
      /\ \A w \in Workers : pc[w] # "idle" => api[job[w]] = "celery"
      /\ \A d \in DirectRunners : pc[d] # "idle" => api[job[d]] = "direct"
  BY OnboardingAssumption
  DEF TypeInv, TypeOK, BusyHasJob, BatchInRange, Ownership, EntriesOwned, WorkersOwn, DirectOwn,
      Batches
<1>s. /\ Runners = Workers \union DirectRunners
      /\ ApiJobs \subseteq Jobs /\ EntryIds \subseteq Jobs
  BY DEF Runners, Jobs
<1>1. ASSUME NEW j \in ApiJobs, Post(j) PROVE [Contract!Next]_(Contract!vars)
  <2>1. CASE DispatchToCelery(j)
    BY <2>1, <1>s, ContractTakes DEF DispatchToCelery, Contract!Next
  <2>2. CASE (\E kind \in {"shop", "feed"} : CreateJob(j, kind))
             \/ CreationFails(j) \/ (\E d \in DirectRunners : RunDirectly(j, d))
    BY <2>2, <1>t, <1>s, ContractStutters DEF CreateJob, CreationFails, RunDirectly
  <2> QED
    BY <1>1, <2>1, <2>2 DEF Post
<1>2. ASSUME NEW r \in Runners, RunPipeline(r) PROVE [Contract!Next]_(Contract!vars)
  <2>0. UNCHANGED <<api, outcome>>
    BY <1>2, PipelineShape
  <2>1. CASE IngestBatch(r)
    <3>1. /\ products' = [products EXCEPT ![job[r]] = @ \union {batch[r]}]
          /\ job[r] \in Jobs /\ batch[r] \in Batches
      BY <2>1, <1>t DEF IngestBatch
    <3>2. CASE r \in Workers
      <4>1. api[job[r]] = "celery"
        BY <2>1, <3>2, <1>t DEF IngestBatch
      <4>2. Taken' = Taken /\ job[r] \in Taken
        BY <2>0, <3>1, <4>1 DEF Taken
      <4>3. Delivered' = [Delivered EXCEPT ![job[r]] = @ \union {batch[r]}]
        <5>1. Delivered' = [j \in Jobs |-> IF j \in Taken THEN products'[j] ELSE {}]
          BY <4>2 DEF Delivered
        <5>2. Delivered[job[r]] = products[job[r]]
          BY <3>1, <4>2 DEF Delivered
        <5>3. products' = [j \in Jobs |-> IF j = job[r] THEN products[j] \union {batch[r]}
                                         ELSE products[j]]
          BY <3>1, <1>t
        <5>4. Delivered' = [j \in Jobs |-> IF j = job[r] THEN Delivered[j] \union {batch[r]}
                                          ELSE Delivered[j]]
          BY <3>1, <4>2, <5>1, <5>2, <5>3 DEF Delivered
        <5> QED
          BY <3>1, <5>4 DEF Delivered
      <4>4. Contract!Store(job[r], batch[r])
        BY <2>0, <4>2, <4>3 DEF Contract!Store
      <4> QED
        BY <3>1, <4>4 DEF Contract!Next
    <3>3. CASE r \in DirectRunners
      <4>1. api[job[r]] = "direct"
        BY <2>1, <3>3, <1>t DEF IngestBatch
      <4> QED
        BY <2>0, <3>1, <4>1, <1>t, ContractStutters
    <3> QED
      BY <3>2, <3>3, <1>s
  <2>2. CASE ~IngestBatch(r)
    <3>1. UNCHANGED products
      BY <1>2, <2>2
      DEF RunPipeline, Begin, RecordStart, PlatformDetected, NoUrls, UrlsDiscovered,
          ExtractionInvalid, ProductsExtracted, Verified, FeedRejected, FeedParsed,
          NormalizeBatch, Complete, RecordCompletion, PipelineFails, TimesOut,
          RecordFailure, FailureNotRecorded, Reports, ReportsError, Writes, Moves
    <3> QED
      BY <2>0, <3>1, ContractStutters
  <2> QED
    BY <2>1, <2>2
<1>3. ASSUME NEW w \in Workers, Acknowledge(w) PROVE [Contract!Next]_(Contract!vars)
  <2>1. UNCHANGED <<api, products>> /\ pc[w] \in Ended /\ job[w] \in Jobs
        /\ api[job[w]] = "celery"
    BY <1>3, <1>t, <1>s DEF Acknowledge, apiVars, Ended
  <2>2. Taken' = Taken /\ job[w] \in Taken /\ Delivered' = Delivered
    BY <2>1 DEF Taken, Delivered
  <2>3. CASE pc[w] = "retried"
    BY <1>3, <2>1, <2>3, ContractStutters DEF Acknowledge
  <2>4. CASE pc[w] # "retried"
    <3>1. outcome' = [outcome EXCEPT ![job[w]] = @ \union {pc[w]}]
      BY <1>3, <2>4 DEF Acknowledge
    <3>2. pc[w] = "completed" => Delivered[job[w]] = Batches
      BY <2>1, <2>2 DEF Delivered, StoredInv, EndStored
    <3>3. Contract!Settle(job[w], pc[w])
      BY <2>2, <3>1, <3>2 DEF Contract!Settle
    <3>4. pc[w] \in Contract!Verdicts
      BY <2>1, <2>4 DEF Ended, Contract!Verdicts
    <3> QED
      BY <2>1, <3>3, <3>4 DEF Contract!Next
  <2> QED
    BY <2>3, <2>4
<1>4. ASSUME NEW p \in Replayers, ReplayDispatch(p) PROVE [Contract!Next]_(Contract!vars)
  <2>1. replay[p] \in Jobs /\ api[replay[p]] \in {"absent", "celery"}
    BY <1>4, <1>t, <1>s DEF ReplayDispatch
  <2> QED
    BY <1>4, <2>1, ContractTakes DEF ReplayDispatch, Contract!Next
<1>5. CASE ApiLost
  BY <1>5, <1>t, ContractStutters DEF ApiLost
<1>6. ASSUME UNCHANGED <<api, products, outcome>> PROVE [Contract!Next]_(Contract!vars)
  BY <1>6, ContractStutters
<1>7. ASSUME NEW w \in Workers,
             \/ Receive(w) \/ WorkerLost(w) \/ Connect(w) \/ ConnectFails(w) \/ CleanupFails(w)
             \/ Retry(w) \/ ParkFails(w) \/ \E e \in EntryIds : Park(w, e)
      PROVE  [Contract!Next]_(Contract!vars)
  BY <1>7, <1>6
  DEF Receive, WorkerLost, Connect, ConnectFails, CleanupFails, Moves, Retry, ParkFails, Park, apiVars
<1>8. ASSUME NEW j \in Jobs, SweepFinds(j) \/ SweepMarks(j) \/ Ages(j)
      PROVE  [Contract!Next]_(Contract!vars)
  BY <1>8, <1>6 DEF SweepFinds, SweepMarks, Ages, apiVars
<1>9. ASSUME NEW d \in DirectRunners, SkipIngest(d) \/ DirectEnds(d)
      PROVE  [Contract!Next]_(Contract!vars)
  BY <1>9, <1>6 DEF SkipIngest, DirectEnds, apiVars
<1>10. ASSUME NEW p \in Replayers, ReplayDropped(p) \/ \E e \in EntryIds : ReplayRead(p, e)
       PROVE  [Contract!Next]_(Contract!vars)
  BY <1>10, <1>6 DEF ReplayDropped, ReplayRead, apiVars
<1>11. CASE UNCHANGED vars
  BY <1>11, <1>6 DEF vars, apiVars
<1> QED
  BY <1>1, <1>2, <1>3, <1>4, <1>5, <1>7, <1>8, <1>9, <1>10, <1>11, <1>s
  DEF Next, RunTask, RunDirect, Replay

\* The queue keeps the contract of JobDelivery: verdicts only for jobs it took over, a
\* completed verdict only for a stored job, and nothing stored or settled is taken back.
THEOREM KeepsContract == Spec => DeliveryContract
<1>1. Init => Contract!Init
  BY DEF Init, Contract!Init, Taken, Delivered
<1>2. TypeInv /\ Ownership /\ StoredInv /\ [Next]_vars => [Contract!Next]_(Contract!vars)
  BY ContractStep
<1> QED
  BY <1>1, <1>2, StoredInvariant, PTL DEF Spec, DeliveryContract, Contract!Safety

-----------------------------------------------------------------------------
(***************************************************************************)
(* There is one token per job: a ready message, or a runner that has the   *)
(* job and has not published its next try.  Acknowledging the job for good *)
(* consumes it.                                                            *)
(***************************************************************************)
InBroker(j) == \E m \in Messages : m.job = j /\ queue[m] > 0

Holds(r, j) == job[r] = j /\ pc[r] # "retried"

Holder(j) == \E r \in Runners : Holds(r, j)

OneMessage(j) ==
  \A m, n \in Messages :
    m.job = j /\ n.job = j /\ queue[m] > 0 /\ queue[n] > 0 => m = n /\ queue[m] = 1

OneHolder(j) == \A r, s \in Runners : Holds(r, j) /\ Holds(s, j) => r = s

OneToken(j) ==
  /\ OneMessage(j)
  /\ OneHolder(j)
  /\ ~(Holder(j) /\ InBroker(j))
  /\ outcome[j] # {} => ~Holder(j) /\ ~InBroker(j)

TokenInv == crashes = 0 => \A j \in ApiJobs : OneToken(j)

LEMMA InitTokenInv == Init => TokenInv
<1> SUFFICES ASSUME Init, NEW j \in ApiJobs PROVE OneToken(j)
  BY DEF TokenInv
<1>1. j \in Jobs /\ None # j
  BY OnboardingAssumption DEF Jobs
<1>2. ~InBroker(j)
  BY DEF Init, InBroker
<1>3. ~Holder(j) /\ outcome[j] = {}
  BY <1>1 DEF Init, Holder, Holds
<1> QED
  BY <1>2, <1>3 DEF OneToken, OneMessage, OneHolder, InBroker, Holder

\* A job that no step touches keeps its token.
LEMMA TokenStays ==
  ASSUME NEW j \in Jobs, OneToken(j),
         \A m \in Messages : m.job = j => queue'[m] = queue[m],
         \A r \in Runners : Holds(r, j)' => Holds(r, j),
         outcome'[j] = outcome[j]
  PROVE  OneToken(j)'
  BY DEF OneToken, OneMessage, OneHolder, InBroker, Holder

LEMMA NextTokenInv == TypeInv /\ Ownership /\ TokenInv /\ [Next]_vars => TokenInv'
<1> SUFFICES ASSUME TypeInv, Ownership, TokenInv, [Next]_vars, crashes' = 0,
                    NEW j \in ApiJobs
             PROVE  OneToken(j)'
  BY DEF TokenInv
<1>t. /\ pc \in [Runners -> Steps] /\ job \in [Runners -> Jobs \union {None}]
      /\ queue \in [Messages -> Nat] /\ tries \in [Runners -> 0 .. MaxRetries]
      /\ outcome \in [Jobs -> SUBSET {"completed", "reviewed", "exhausted"}]
      /\ api \in [Jobs -> {"absent", "created", "celery", "direct", "abandoned"}]
      /\ crashes \in Nat
      /\ \A r \in Runners : pc[r] # "idle" => job[r] \in Jobs
      /\ \A r \in Runners : pc[r] = "idle" => job[r] = None
  BY OnboardingAssumption DEF TypeInv, TypeOK, BusyHasJob, Ownership, IdleHasNone
<1>s. /\ Workers \subseteq Runners /\ DirectRunners \subseteq Runners
      /\ Runners = Workers \union DirectRunners
      /\ ApiJobs \subseteq Jobs /\ EntryIds \subseteq Jobs
      /\ ApiJobs \intersect EntryIds = {} /\ None \notin Jobs /\ j \in Jobs
      /\ 0 \in 0 .. MaxRetries
  BY OnboardingAssumption DEF Runners, Jobs
\* Nothing of a job that was not dispatched is anywhere.
<1>f. api[j] \in {"absent", "created"} =>
        ~InBroker(j) /\ outcome[j] = {} /\ \A r \in Runners : job[r] # j
  BY <1>s, <1>t
  DEF Ownership, WorkersOwn, DirectOwn, QueueOwns, OutcomeOwned, InBroker
<1>c. CASE crashes # 0
  <2>1. ASSUME NEW i \in ApiJobs, Post(i) PROVE crashes' = crashes
    BY <2>1 DEF Post, CreateJob, CreationFails, DispatchToCelery, RunDirectly
  <2>2. ASSUME NEW i \in Jobs, SweepFinds(i) \/ SweepMarks(i) \/ Ages(i)
        PROVE  crashes' = crashes
    BY <2>2 DEF SweepFinds, SweepMarks, Ages
  <2>3. ASSUME NEW r \in Runners, RunPipeline(r) PROVE crashes' = crashes
    BY <2>3
    DEF RunPipeline, Begin, RecordStart, PlatformDetected, NoUrls, UrlsDiscovered,
        ExtractionInvalid, ProductsExtracted, Verified, FeedRejected, FeedParsed,
        NormalizeBatch, IngestBatch, Complete, RecordCompletion, PipelineFails, TimesOut,
        RecordFailure, FailureNotRecorded, Reports, ReportsError, Writes, Moves
  <2>4. ASSUME NEW w \in Workers, Receive(w) \/ RunTask(w) PROVE crashes' = crashes
    BY <2>3, <2>4, <1>s
    DEF Receive, RunTask, Connect, ConnectFails, CleanupFails, Moves, Retry, Park, ParkFails,
        Acknowledge
  <2>5. ASSUME NEW d \in DirectRunners, RunDirect(d) PROVE crashes' = crashes
    BY <2>3, <2>5, <1>s DEF RunDirect, SkipIngest, DirectEnds
  <2>6. ASSUME NEW p \in Replayers, Replay(p) PROVE crashes' = crashes
    BY <2>6 DEF Replay, ReplayRead, ReplayDispatch, ReplayDropped
  <2>7. ASSUME ApiLost \/ \E w \in Workers : WorkerLost(w) PROVE crashes' = crashes + 1
    BY <2>7 DEF ApiLost, WorkerLost
  <2>8. crashes' = crashes \/ crashes' = crashes + 1
    BY <2>1, <2>2, <2>4, <2>5, <2>6, <2>7 DEF Next, vars
  <2> QED
    BY <1>c, <1>t, <2>8
<1>k. CASE crashes = 0
  <2>k. OneToken(j)
    BY <1>k DEF TokenInv
  <2>1. ASSUME NEW i \in ApiJobs, Post(i) PROVE OneToken(j)'
    <3>1. CASE CreationFails(i) \/ \E kind \in {"shop", "feed"} : CreateJob(i, kind)
      BY <3>1, <2>k, <1>s, TokenStays DEF CreationFails, CreateJob, runVars, Holds
    <3>2. CASE DispatchToCelery(i)
      <4>0. UNCHANGED <<pc, job, outcome>>
        BY <3>2 DEF DispatchToCelery, runVars
      <4>1. /\ Message(i, 0) \in Messages /\ Message(i, 0).job = i
            /\ queue'[Message(i, 0)] = queue[Message(i, 0)] + 1
            /\ \A m \in Messages : m # Message(i, 0) => queue'[m] = queue[m]
        BY <3>2, <1>s, EnqueuedReady DEF DispatchToCelery, Published, TypeInv
      <4>2. CASE i = j
        <5>1. ~InBroker(j) /\ outcome[j] = {} /\ \A r \in Runners : job[r] # j
          BY <3>2, <4>2, <1>f DEF DispatchToCelery
        <5>2. OneMessage(j)'
          BY <4>1, <4>2, <5>1, <1>t DEF OneMessage, InBroker
        <5> QED
          BY <4>0, <5>1, <5>2 DEF OneToken, OneHolder, Holder, Holds
      <4>3. CASE i # j
        BY <4>0, <4>1, <4>3, <2>k, <1>s, TokenStays DEF Holds
      <4> QED
        BY <4>2, <4>3
    <3>3. ASSUME NEW d \in DirectRunners, RunDirectly(i, d) PROVE OneToken(j)'
      <4>0. UNCHANGED <<queue, outcome>> /\ pc[d] = "idle"
            /\ pc' = [pc EXCEPT ![d] = "begin"] /\ job' = [job EXCEPT ![d] = i]
        BY <3>3 DEF RunDirectly
      <4>1. CASE i = j
        <5>1. ~InBroker(j) /\ outcome[j] = {} /\ \A r \in Runners : job[r] # j
          BY <3>3, <4>1, <1>f DEF RunDirectly
        <5>2. OneMessage(j)' /\ ~InBroker(j)'
          BY <4>0, <5>1, <2>k DEF OneMessage, InBroker, OneToken
        <5>3. OneHolder(j)'
          BY <4>0, <5>1, <1>t, <1>s DEF OneHolder, Holds
        <5> QED
          BY <4>0, <5>1, <5>2, <5>3 DEF OneToken
      <4>2. CASE i # j
        BY <4>0, <4>2, <2>k, <1>s, <1>t, TokenStays DEF Holds
      <4> QED
        BY <4>1, <4>2
    <3> QED
      BY <2>1, <3>1, <3>2, <3>3 DEF Post
  <2>2. ASSUME NEW i \in Jobs, SweepFinds(i) \/ SweepMarks(i) \/ Ages(i) PROVE OneToken(j)'
    BY <2>2, <2>k, <1>s, TokenStays DEF SweepFinds, SweepMarks, Ages, runVars, Holds
  <2>3. ASSUME NEW w \in Workers, Receive(w) PROVE OneToken(j)'
    <3> PICK m \in Messages :
          /\ queue[m] > 0
          /\ queue' = [queue EXCEPT ![m] = @ - 1]
          /\ job' = [job EXCEPT ![w] = m.job]
      BY <2>3 DEF Receive
    <3>1. /\ UNCHANGED outcome /\ pc[w] = "idle" /\ pc' = [pc EXCEPT ![w] = "received"]
          /\ w \in Runners
      BY <2>3, <1>s DEF Receive, Goto
    <3>2. queue'[m] = queue[m] - 1 /\ \A n \in Messages : n # m => queue'[n] = queue[n]
      BY <1>t
    <3>3. CASE m.job = j
      <4>1. InBroker(j) /\ ~Holder(j) /\ outcome[j] = {}
        BY <3>3, <2>k DEF InBroker, OneToken
      <4>2. \A n \in Messages : n.job = j /\ queue[n] > 0 => n = m /\ queue[m] = 1
        BY <3>3, <2>k DEF OneToken, OneMessage
      <4>3. ~InBroker(j)' /\ OneMessage(j)'
        BY <3>2, <4>2, <1>t DEF InBroker, OneMessage
      <4>4. OneHolder(j)'
        BY <3>1, <4>1, <1>t DEF OneHolder, Holder, Holds
      <4> QED
        BY <3>1, <4>1, <4>3, <4>4 DEF OneToken
    <3>4. CASE m.job # j
      BY <3>1, <3>2, <3>4, <1>t, <2>k, <1>s, TokenStays DEF Holds
    <3> QED
      BY <3>3, <3>4
  \* A holder that goes on, or comes to an end, still holds its job.
  <2>4. ASSUME NEW r \in Runners, pc[r] # "retried", NEW to, pc' = [pc EXCEPT ![r] = to],
               UNCHANGED <<queue, job, outcome>>
        PROVE  OneToken(j)'
    BY <2>4, <2>k, <1>t, <1>s, TokenStays DEF Holds
  <2>5. ASSUME NEW r \in Runners, RunPipeline(r) PROVE OneToken(j)'
    BY <2>5, <2>4, PipelineShape DEF Inner, Started
  <2>6. ASSUME NEW w \in Workers,
               \/ Connect(w) \/ ConnectFails(w) \/ CleanupFails(w) \/ ParkFails(w)
               \/ \E e \in EntryIds : Park(w, e)
        PROVE  OneToken(j)'
    <3>1. pc[w] # "retried" /\ w \in Runners /\ UNCHANGED <<queue, job, outcome>>
      BY <2>6, <1>s DEF Connect, ConnectFails, CleanupFails, Moves, ParkFails, Park
    <3>2. \E to \in Steps : pc' = [pc EXCEPT ![w] = to]
      BY <2>6
      DEF Connect, ConnectFails, CleanupFails, Moves, ParkFails, Park, Goto, Steps, Inner, Ended
    <3> QED
      BY <3>1, <3>2, <2>4
  <2>7. ASSUME NEW w \in Workers, Retry(w) PROVE OneToken(j)'
    <3>1. /\ pc[w] = "raised" /\ w \in Runners /\ job[w] \in Jobs
          /\ tries[w] + 1 \in 0 .. MaxRetries
          /\ pc' = [pc EXCEPT ![w] = "retried"] /\ UNCHANGED <<job, outcome>>
      BY <2>7, <1>t, <1>s, OnboardingAssumption DEF Retry, Goto
    <3> DEFINE n == Message(job[w], tries[w] + 1)
    <3>2. /\ n \in Messages /\ n.job = job[w] /\ queue'[n] = queue[n] + 1
          /\ \A m \in Messages : m # n => queue'[m] = queue[m]
      BY <2>7, <3>1, EnqueuedReady DEF Retry, Republished, TypeInv
    <3> HIDE DEF n
    <3>3. CASE job[w] = j
      <4>1. ~InBroker(j) /\ outcome[j] = {} /\ \A s \in Runners : Holds(s, j) => s = w
        BY <3>1, <3>3, <2>k DEF OneToken, Holder, OneHolder, Holds
      <4>2. OneMessage(j)'
        BY <3>2, <3>3, <4>1, <1>t DEF OneMessage, InBroker
      <4>3. ~Holder(j)'
        BY <3>1, <4>1, <1>t DEF Holder, Holds
      <4> QED
        BY <3>1, <4>1, <4>2, <4>3 DEF OneToken, OneHolder, Holder
    <3>4. CASE job[w] # j
      BY <3>1, <3>2, <3>4, <2>k, <1>t, <1>s, TokenStays DEF Holds
    <3> QED
      BY <3>3, <3>4
  <2>8. ASSUME NEW r \in Runners, UNCHANGED queue, pc' = [pc EXCEPT ![r] = "idle"],
               job' = [job EXCEPT ![r] = None],
               outcome'[j] = outcome[j] \/ Holds(r, j)
        PROVE  OneToken(j)'
    <3>1. \A q \in Runners : Holds(q, j)' => Holds(q, j) /\ q # r
      BY <2>8, <1>t, <1>s DEF Holds
    <3>2. CASE outcome'[j] = outcome[j]
      BY <2>8, <3>1, <3>2, <2>k, <1>s, TokenStays
    <3>3. CASE Holds(r, j)
      <4>1. ~InBroker(j) /\ \A q \in Runners : Holds(q, j) => q = r
        BY <3>3, <2>k DEF OneToken, OneHolder, Holder
      <4>2. ~Holder(j)' /\ ~InBroker(j)'
        BY <2>8, <3>1, <4>1 DEF Holder, InBroker
      <4> QED
        BY <4>2 DEF OneToken, OneMessage, OneHolder, InBroker, Holder
    <3> QED
      BY <2>8, <3>2, <3>3
  <2>9. ASSUME NEW w \in Workers, Acknowledge(w) PROVE OneToken(j)'
    <3>1. /\ UNCHANGED queue /\ w \in Runners /\ pc[w] \in Ended /\ job[w] \in Jobs
          /\ pc' = [pc EXCEPT ![w] = "idle"] /\ job' = [job EXCEPT ![w] = None]
      BY <2>9, <1>t, <1>s DEF Acknowledge, Release, Goto, Ended
    <3>2. outcome'[j] = outcome[j] \/ Holds(w, j)
      BY <2>9, <3>1, <1>t, <1>s DEF Acknowledge, Holds
    <3> QED
      BY <3>1, <3>2, <2>8
  <2>10. ASSUME NEW d \in DirectRunners, RunDirect(d) PROVE OneToken(j)'
    <3>1. CASE SkipIngest(d)
      BY <3>1, <2>4, <1>s DEF SkipIngest, Goto
    <3>2. CASE DirectEnds(d)
      BY <3>2, <2>8, <1>s DEF DirectEnds, Release, Goto
    <3> QED
      BY <2>10, <3>1, <3>2, <2>5, <1>s DEF RunDirect
  <2>11. ASSUME NEW p \in Replayers, Replay(p) PROVE OneToken(j)'
    <3>1. UNCHANGED <<pc, job, outcome>>
      BY <2>11 DEF Replay, ReplayRead, ReplayDispatch, ReplayDropped, runVars
    <3>2. \A m \in Messages : m.job = j => queue'[m] = queue[m]
      <4>1. CASE ReplayDispatch(p)
        <5>1. replay[p] \in EntryIds
          BY <4>1 DEF ReplayDispatch, TypeInv, TypeOK
        <5> QED
          BY <4>1, <5>1, <1>s, EnqueuedReady DEF ReplayDispatch, Published, TypeInv
      <4>2. CASE ReplayDropped(p) \/ \E e \in EntryIds : ReplayRead(p, e)
        BY <4>2 DEF ReplayDropped, ReplayRead
      <4> QED
        BY <2>11, <4>1, <4>2 DEF Replay
    <3> QED
      BY <3>1, <3>2, <2>k, <1>s, TokenStays DEF Holds
  <2>12. CASE ApiLost \/ \E w \in Workers : WorkerLost(w)
    BY <2>12, <1>k DEF ApiLost, WorkerLost
  <2>13. CASE UNCHANGED vars
    BY <2>13, <2>k, <1>s, TokenStays DEF vars, runVars, Holds
  <2> QED
    BY <2>1, <2>2, <2>3, <2>5, <2>6, <2>7, <2>9, <2>10, <2>11, <2>12, <2>13, <1>s
    DEF Next, RunTask
<1> QED
  BY <1>c, <1>k

LEMMA TokenInvariant == Spec => [](TypeInv /\ Ownership /\ TokenInv)
<1>1. Init => TypeInv /\ Ownership /\ TokenInv
  BY InitTypeInv, InitOwnership, InitTokenInv
<1>2. TypeInv /\ Ownership /\ TokenInv /\ [Next]_vars => TypeInv' /\ Ownership' /\ TokenInv'
  BY NextTypeInv, NextOwnership, NextTokenInv
<1> QED
  BY <1>1, <1>2, PTL DEF Spec

\* While no process is lost, a job of the API runs in one place, and is not queued as well.
THEOREM DeliveredOnce == Spec => []SingleDelivery
<1>1. TypeInv /\ TokenInv => SingleDelivery
  <2> SUFFICES ASSUME TypeInv, TokenInv, crashes = 0, NEW j \in ApiJobs,
                      NEW r \in Runners, Running(r, j)
               PROVE  ~Queued(j) /\ \A s \in Runners : Running(s, j) => s = r
    BY DEF SingleDelivery
  <2>1. OneToken(j)
    BY DEF TokenInv
  <2>2. ASSUME Queued(j) PROVE InBroker(j)
    BY <2>2 DEF Queued, InBroker, Message, Messages, Jobs
  <2> QED
    BY <2>1, <2>2 DEF OneToken, OneHolder, Holder, Holds, Running, Ended
<1> QED
  BY <1>1, TokenInvariant, PTL

\* A job of the API that was acknowledged for good is not put back to work, while no process
\* is lost.
THEOREM NotRestarted == Spec => SettledIsNotRestarted
<1> DEFINE A == \A j \in ApiJobs :
                  /\ outcome[j] # {}
                  /\ hash'[j].status \in ActiveStatuses
                  /\ hash'[j] # hash[j]
                  => crashes > 0
<1>1. TypeInv /\ Ownership /\ TokenInv /\ [Next]_vars => [A]_vars
  <2> SUFFICES ASSUME TypeInv, Ownership, TokenInv, Next, NEW j \in ApiJobs,
                      outcome[j] # {}, hash'[j].status \in ActiveStatuses,
                      hash'[j] # hash[j], crashes = 0
               PROVE  FALSE
    BY DEF TypeInv, TypeOK
  <2>1. /\ j \in Jobs /\ ~Holder(j) /\ api[j] = "celery"
        /\ hash \in [Jobs -> Hashes]
        /\ Workers \subseteq Runners /\ DirectRunners \subseteq Runners /\ ApiJobs \subseteq Jobs
    BY DEF Jobs, Runners, Ownership, OutcomeOwned, TokenInv, OneToken, TypeInv, TypeOK
  <2>2. ASSUME NEW i \in ApiJobs, Post(i) PROVE FALSE
    BY <2>1, <2>2 DEF Post, CreateJob, CreationFails, DispatchToCelery, RunDirectly, redisVars
  <2>3. ASSUME NEW i \in Jobs, SweepFinds(i) \/ SweepMarks(i) \/ Ages(i) PROVE FALSE
    <3>1. i = j /\ hash'[j] = MarkStale(hash[j])
      BY <2>1, <2>3 DEF SweepFinds, SweepMarks, Ages
    <3>2. MarkStale(hash[j]).status = "failed"
      BY <2>1 DEF MarkStale, Hashes
    <3> QED
      BY <3>1, <3>2 DEF ActiveStatuses
  <2>4. ASSUME NEW r \in Runners, RunPipeline(r) PROVE FALSE
    <3>1. job[r] # j
      BY <2>1, <2>4, PipelineShape DEF Holder, Holds, Inner, Started
    <3>2. hash'[j] = hash[j]
      BY <2>1, <2>4, <3>1
      DEF RunPipeline, Begin, RecordStart, PlatformDetected, NoUrls, UrlsDiscovered,
          ExtractionInvalid, ProductsExtracted, Verified, FeedRejected, FeedParsed,
          NormalizeBatch, IngestBatch, Complete, RecordCompletion, PipelineFails, TimesOut,
          RecordFailure, FailureNotRecorded, Reports, ReportsError, Writes, Moves, redisVars
    <3> QED
      BY <3>2
  <2>5. ASSUME UNCHANGED hash PROVE FALSE
    BY <2>5
  <2> QED
    BY <2>1, <2>2, <2>3, <2>4, <2>5
    DEF Next, Receive, RunTask, Connect, ConnectFails, CleanupFails, Moves, Retry, Park,
        ParkFails, Acknowledge, WorkerLost, RunDirect, SkipIngest, DirectEnds, Replay, ReplayRead,
        ReplayDispatch, ReplayDropped, ApiLost, redisVars
<1> QED
  BY <1>1, TokenInvariant, PTL DEF Spec, SettledIsNotRestarted
=============================================================================
