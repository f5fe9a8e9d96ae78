------------------------- MODULE OnboardingJobProofs -------------------------
(***************************************************************************)
(* Proofs about OnboardingJob, for any number of jobs, workers, direct     *)
(* pipelines, retry requests, retries, batches and lost processes.         *)
(***************************************************************************)
EXTENDS OnboardingJob, TLAPS

-----------------------------------------------------------------------------
(***************************************************************************)
(* Type correctness.  The batch counter stays in range because a runner    *)
(* that is about to ingest has looked at it.                               *)
(***************************************************************************)
BatchInRange == \A r \in Runners : pc[r] = "ingesting" => batch[r] <= NBatches

BusyHasJob == \A r \in Runners : pc[r] # "idle" => job[r] \in Jobs

TypeInv == TypeOK /\ BatchInRange /\ BusyHasJob

(***************************************************************************)
(* The hash.                                                               *)
(***************************************************************************)

\* Every write of the tracker gives a well-formed hash.
LEMMA HashWrites ==
  ASSUME NEW h \in Hashes, NEW s \in JobStatuses
  PROVE  /\ Update(h, s) \in Hashes
         /\ UpdateWithError(h, s) \in Hashes
         /\ SetStartedAt(h) \in Hashes
         /\ SetCompletedAt(h) \in Hashes
         /\ MarkStale(h) \in Hashes
         /\ NoHash \in Hashes
  BY DEF Hashes, JobStatuses, ActiveStatuses, Update, UpdateWithError, SetStartedAt,
         SetCompletedAt, MarkStale, NoHash

\* Before the first request nothing is queued, held or stored.
THEOREM InitTypeInv == Init => TypeInv
<1> SUFFICES ASSUME Init PROVE TypeInv
  OBVIOUS
<1>1. hash \in [Jobs -> Hashes]
  BY HashWrites DEF Init, Hashes, JobStatuses, ActiveStatuses, NoHash
<1>2. TypeOK
  BY <1>1, OnboardingAssumption DEF Init, TypeOK, Steps, Inner, Started, Ended, Batches
<1>3. BatchInRange /\ BusyHasJob
  BY DEF Init, BatchInRange, BusyHasJob
<1> QED
  BY <1>2, <1>3 DEF TypeInv

(***************************************************************************)
(* The shapes that most actions of a runner have.                          *)
(***************************************************************************)

\* A busy runner that only moves keeps the types.
LEMMA MovesTypeInv ==
  ASSUME TypeInv, NEW r \in Runners, NEW from, "idle" \notin from,
         NEW to \in Steps \ {"ingesting"}, Moves(r, from, to)
  PROVE  TypeInv'
  BY DEF TypeInv, TypeOK, BatchInRange, BusyHasJob, Moves, Goto, redisVars, apiVars, dlqVars

\* A busy runner that writes a well-formed hash keeps the types, if it minds the batch.
LEMMA WritesTypeInv ==
  ASSUME TypeInv, NEW r \in Runners, NEW from, "idle" \notin from, NEW to \in Steps,
         NEW h \in Hashes, Writes(r, from, to, h),
         aged' \subseteq Jobs,
         batch' = batch \/ batch' = [batch EXCEPT ![r] = 1],
         to = "ingesting" => batch'[r] <= NBatches
  PROVE  TypeInv'
<1>1. job[r] \in Jobs
  BY DEF TypeInv, BusyHasJob, Writes
<1>2. hash' \in [Jobs -> Hashes]
  BY <1>1 DEF TypeInv, TypeOK, Writes
<1>3. pc' \in [Runners -> Steps] /\ batch' \in [Runners -> 1 .. NBatches + 1]
  BY OnboardingAssumption DEF TypeInv, TypeOK, Writes, Goto
<1>4. TypeOK'
  BY <1>2, <1>3 DEF TypeInv, TypeOK, Writes, apiVars, dlqVars
<1>5. BatchInRange'
  BY OnboardingAssumption DEF TypeInv, TypeOK, BatchInRange, Writes, Goto
<1>6. BusyHasJob'
  BY DEF TypeInv, TypeOK, BusyHasJob, Writes, Goto
<1> QED
  BY <1>4, <1>5, <1>6 DEF TypeInv

\* Letting go of a message resets the runner.
LEMMA ReleaseType ==
  ASSUME TypeInv, NEW r \in Runners, Release(r)
  PROVE  /\ pc' \in [Runners -> Steps]
         /\ job' \in [Runners -> Jobs \union {None}]
         /\ tries' \in [Runners -> 0 .. MaxRetries]
         /\ batch' \in [Runners -> 1 .. NBatches + 1]
         /\ BatchInRange'
         /\ BusyHasJob'
  BY OnboardingAssumption
  DEF TypeInv, TypeOK, Release, Goto, Steps, BatchInRange, BusyHasJob

\* One more message of a job keeps the type of the queue.
LEMMA EnqueuedType ==
  ASSUME TypeOK, NEW j \in Jobs, NEW k \in 0 .. MaxRetries
  PROVE  Enqueued(Message(j, k)) \in [Messages -> Nat]
<1>1. Message(j, k) \in Messages
  BY DEF Messages, Message
<1> QED
  BY <1>1 DEF TypeOK, Enqueued

\* Of the messages, only the new one becomes ready.
LEMMA EnqueuedReady ==
  ASSUME TypeOK, NEW j \in Jobs, NEW k \in 0 .. MaxRetries, queue' = Enqueued(Message(j, k))
  PROVE  /\ Message(j, k) \in Messages /\ Message(j, k).job = j
         /\ queue'[Message(j, k)] = queue[Message(j, k)] + 1
         /\ \A m \in Messages : m # Message(j, k) => queue'[m] = queue[m]
<1>1. Message(j, k) \in Messages /\ Message(j, k).job = j
  BY DEF Messages, Message
<1> QED
  BY <1>1 DEF TypeOK, Enqueued

LEMMA PublishedType ==
  ASSUME TypeOK, NEW j \in Jobs
  PROVE  Published(j) \in [Messages -> Nat]
<1>1. 0 \in 0 .. MaxRetries
  BY OnboardingAssumption
<1> QED
  BY <1>1, EnqueuedType DEF Published

-----------------------------------------------------------------------------
(***************************************************************************)
(* The steps, component by component.                                      *)
(***************************************************************************)

LEMMA PostTypeInv ==
  ASSUME TypeInv, NEW j \in ApiJobs, Post(j)
  PROVE  TypeInv'
<1>1. ASSUME NEW kind \in {"shop", "feed"}, CreateJob(j, kind) PROVE TypeInv'
  <2>1. Update(hash[j], "queued") \in Hashes
    BY HashWrites DEF TypeInv, TypeOK, Jobs, JobStatuses, ActiveStatuses
  <2>2. hash' \in [Jobs -> Hashes]
    BY <1>1, <2>1 DEF TypeInv, TypeOK, CreateJob
  <2> QED
    BY <1>1, <2>2 DEF TypeInv, TypeOK, BatchInRange, BusyHasJob, CreateJob, runVars, dlqVars
<1>2. CASE DispatchToCelery(j)
  <2>1. queue' \in [Messages -> Nat]
    BY <1>2, PublishedType DEF TypeInv, DispatchToCelery, Jobs
  <2> QED
    BY <1>2, <2>1
    DEF TypeInv, TypeOK, BatchInRange, BusyHasJob, DispatchToCelery, redisVars, runVars, dlqVars
<1>3. ASSUME NEW d \in DirectRunners, RunDirectly(j, d) PROVE TypeInv'
  BY <1>3
  DEF TypeInv, TypeOK, BatchInRange, BusyHasJob, RunDirectly, redisVars, dlqVars,
      Jobs, Runners, Steps, Inner
<1>4. CASE CreationFails(j)
  BY <1>4
  DEF TypeInv, TypeOK, BatchInRange, BusyHasJob, CreationFails, redisVars, runVars, dlqVars
<1> QED
  BY <1>1, <1>2, <1>3, <1>4 DEF Post

LEMMA PipelineTypeInv ==
  ASSUME TypeInv, NEW r \in Runners, RunPipeline(r)
  PROVE  TypeInv'
<1> USE DEF Steps, Inner, Started, Ended, JobStatuses, ActiveStatuses
<1>j. pc[r] # "idle" => hash[job[r]] \in Hashes
  BY DEF TypeInv, TypeOK, BusyHasJob
<1>r. ASSUME NEW from, "idle" \notin from, NEW to \in Steps, NEW s \in JobStatuses,
             Reports(r, from, to, s) \/ ReportsError(r, from, to, s),
             to = "ingesting" => batch[r] <= NBatches
      PROVE  TypeInv'
  <2>1. pc[r] # "idle"
    BY <1>r DEF Reports, ReportsError, Writes
  <2>2. aged \subseteq Jobs
    BY DEF TypeInv, TypeOK
  <2>3. CASE Reports(r, from, to, s)
    BY <1>r, <1>j, <2>1, <2>2, <2>3, HashWrites, WritesTypeInv DEF Reports
  <2>4. CASE ReportsError(r, from, to, s)
    BY <1>r, <1>j, <2>1, <2>2, <2>4, HashWrites, WritesTypeInv DEF ReportsError
  <2> QED
    BY <1>r, <2>3, <2>4
<1>1. CASE Begin(r)
  BY <1>1, <1>r DEF Begin
<1>2. CASE RecordStart(r)
  BY <1>2, <1>j, HashWrites, WritesTypeInv DEF RecordStart, Writes, TypeInv, TypeOK
<1>3. CASE PlatformDetected(r) \/ NoUrls(r) \/ UrlsDiscovered(r)
  BY <1>3, <1>r DEF PlatformDetected, NoUrls, UrlsDiscovered
<1>4. CASE ExtractionInvalid(r) \/ ProductsExtracted(r) \/ FeedRejected(r)
  BY <1>4, <1>r DEF ExtractionInvalid, ProductsExtracted, FeedRejected
<1>5. CASE Verified(r) \/ FeedParsed(r)
  <2>1. pc[r] # "idle" /\ aged' \subseteq Jobs
    BY <1>5 DEF Verified, FeedParsed, Writes, TypeInv, TypeOK
  <2>2. Update(hash[job[r]], "normalizing") \in Hashes
    BY <2>1, <1>j, HashWrites
  <2>3. batch' = [batch EXCEPT ![r] = 1]
    BY <1>5 DEF Verified, FeedParsed, FirstBatch
  <2>4. ASSUME NEW from, "idle" \notin from,
               Writes(r, from, "normalizing", Update(hash[job[r]], "normalizing"))
        PROVE  TypeInv'
    <3>1. "normalizing" \in Steps /\ "normalizing" # "ingesting"
      OBVIOUS
    <3> HIDE DEF Steps
    <3> QED
      BY <2>1, <2>2, <2>3, <2>4, <3>1, WritesTypeInv
  <2> QED
    BY <1>5, <2>4 DEF Verified, FeedParsed
<1>6. CASE NormalizeBatch(r)
  BY <1>6, <1>r DEF NormalizeBatch
<1>7. CASE IngestBatch(r)
  <2>1. job[r] \in Jobs /\ batch[r] \in Batches
    BY <1>7, OnboardingAssumption
    DEF IngestBatch, TypeInv, TypeOK, BusyHasJob, BatchInRange, Batches
  <2>2. products' \in [Jobs -> SUBSET Batches]
    BY <1>7, <2>1 DEF IngestBatch, TypeInv, TypeOK
  <2>3. batch' \in [Runners -> 1 .. NBatches + 1]
    BY <1>7, <2>1, OnboardingAssumption DEF IngestBatch, TypeInv, TypeOK, Batches
  <2>4. pc' \in [Runners -> Steps]
    BY <1>7 DEF IngestBatch, Goto, TypeInv, TypeOK
  <2>5. TypeOK'
    BY <1>7, <2>2, <2>3, <2>4
    DEF IngestBatch, TypeInv, TypeOK, redisVars, apiVars, dlqVars
  <2> QED
    BY <1>7, <2>5
    DEF IngestBatch, Goto, TypeInv, TypeOK, BatchInRange, BusyHasJob
<1>8. CASE Complete(r) \/ RecordFailure(r)
  BY <1>8, <1>r DEF Complete, RecordFailure
<1>9. CASE RecordCompletion(r)
  <2>1. pc[r] # "idle" /\ aged \subseteq Jobs
    BY <1>9 DEF RecordCompletion, Writes, TypeInv, TypeOK
  <2>2. SetCompletedAt(hash[job[r]]) \in Hashes
    BY <2>1, <1>j DEF SetCompletedAt, Hashes
  <2>3. aged' = aged /\ batch' = batch /\ "completed" \in Steps
    BY <1>9 DEF RecordCompletion
  <2>4. Writes(r, {"stamping"}, "completed", SetCompletedAt(hash[job[r]]))
    BY <1>9 DEF RecordCompletion
  <2> HIDE DEF Steps
  <2> QED
    BY <2>1, <2>2, <2>3, <2>4, WritesTypeInv
<1>10. CASE PipelineFails(r) \/ TimesOut(r) \/ FailureNotRecorded(r)
  BY <1>10, MovesTypeInv DEF PipelineFails, TimesOut, FailureNotRecorded
<1> QED
  BY <1>1, <1>2, <1>3, <1>4, <1>5, <1>6, <1>7, <1>8, <1>9, <1>10 DEF RunPipeline

LEMMA TaskTypeInv ==
  ASSUME TypeInv, NEW w \in Workers, RunTask(w)
  PROVE  TypeInv'
<1> w \in Runners
  BY DEF Runners
<1> USE DEF Steps, Inner, Started, Ended
<1>1. CASE Connect(w) \/ ConnectFails(w) \/ CleanupFails(w)
  BY <1>1, MovesTypeInv DEF Connect, ConnectFails, CleanupFails
<1>2. CASE RunPipeline(w)
  BY <1>2, PipelineTypeInv
<1>3. CASE Retry(w)
  <2>1. job[w] \in Jobs /\ tries[w] + 1 \in 0 .. MaxRetries
    BY <1>3, OnboardingAssumption DEF Retry, TypeInv, TypeOK, BusyHasJob
  <2>2. queue' \in [Messages -> Nat]
    BY <1>3, <2>1, EnqueuedType DEF Retry, Republished, TypeInv
  <2> QED
    BY <1>3, <2>2
    DEF Retry, Goto, TypeInv, TypeOK, BatchInRange, BusyHasJob, redisVars, apiVars, dlqVars
<1>4. ASSUME NEW e \in EntryIds, Park(w, e) PROVE TypeInv'
  <2>1. job[w] \in Jobs
    BY <1>4 DEF Park, TypeInv, BusyHasJob
  <2> QED
    BY <1>4, <2>1
    DEF Park, Goto, TypeInv, TypeOK, BatchInRange, BusyHasJob, redisVars
<1>5. CASE ParkFails(w)
  <2>1. job[w] \in Jobs
    BY <1>5 DEF ParkFails, TypeInv, BusyHasJob
  <2> QED
    BY <1>5, <2>1
    DEF ParkFails, Goto, TypeInv, TypeOK, BatchInRange, BusyHasJob, redisVars, apiVars
<1>6. CASE Acknowledge(w)
  <2>1. job[w] \in Jobs
    BY <1>6 DEF Acknowledge, TypeInv, BusyHasJob
  <2>2. outcome' \in [Jobs -> SUBSET {"completed", "reviewed", "exhausted"}]
    <3>1. CASE pc[w] = "retried"
      BY <1>6, <3>1 DEF Acknowledge, TypeInv, TypeOK
    <3>2. CASE pc[w] # "retried"
      BY <1>6, <2>1, <3>2 DEF Acknowledge, TypeInv, TypeOK
    <3> QED
      BY <3>1, <3>2
  <2> QED
    BY <1>6, <2>2, ReleaseType
    DEF Acknowledge, TypeInv, TypeOK, redisVars, apiVars, dlqVars
<1> QED
  BY <1>1, <1>2, <1>3, <1>4, <1>5, <1>6 DEF RunTask

LEMMA DirectTypeInv ==
  ASSUME TypeInv, NEW d \in DirectRunners, RunDirect(d)
  PROVE  TypeInv'
<1> d \in Runners
  BY DEF Runners
<1>1. CASE RunPipeline(d)
  BY <1>1, PipelineTypeInv
<1>2. CASE SkipIngest(d)
  <2>1. batch' \in [Runners -> 1 .. NBatches + 1]
    BY <1>2, OnboardingAssumption DEF SkipIngest, TypeInv, TypeOK, BatchInRange
  <2>2. pc' \in [Runners -> Steps]
    BY <1>2 DEF SkipIngest, Goto, TypeInv, TypeOK, Steps, Inner, Started
  <2> QED
    BY <1>2, <2>1, <2>2
    DEF SkipIngest, Goto, TypeInv, TypeOK, BatchInRange, BusyHasJob, redisVars, apiVars, dlqVars
<1>3. CASE DirectEnds(d)
  BY <1>3, ReleaseType DEF DirectEnds, TypeInv, TypeOK, redisVars, apiVars, dlqVars
<1> QED
  BY <1>1, <1>2, <1>3 DEF RunDirect

\* Receiving, losing a process, replaying, sweeping and the passing of time.
LEMMA ReceiveTypeInv ==
  ASSUME TypeInv, NEW w \in Workers, Receive(w)
  PROVE  TypeInv'
<1> PICK m \in Messages :
      /\ queue[m] > 0
      /\ queue' = [queue EXCEPT ![m] = @ - 1]
      /\ job' = [job EXCEPT ![w] = m.job]
      /\ tries' = [tries EXCEPT ![w] = m.tries]
  BY DEF Receive
<1>1. m.job \in Jobs /\ m.tries \in 0 .. MaxRetries
  BY DEF Messages
<1>2. queue' \in [Messages -> Nat]
  BY DEF TypeInv, TypeOK
<1> QED
  BY <1>1, <1>2
  DEF Receive, Goto, TypeInv, TypeOK, BatchInRange, BusyHasJob, Runners, Steps,
      redisVars, apiVars, dlqVars

LEMMA LossTypeInv ==
  ASSUME TypeInv, ApiLost \/ \E w \in Workers : WorkerLost(w)
  PROVE  TypeInv'
<1>1. ASSUME NEW w \in Workers, WorkerLost(w) PROVE TypeInv'
  <2>1. job[w] \in Jobs /\ tries[w] \in 0 .. MaxRetries
    BY <1>1 DEF WorkerLost, TypeInv, TypeOK, BusyHasJob, Runners
  <2>2. queue' \in [Messages -> Nat]
    BY <1>1, <2>1, EnqueuedType DEF WorkerLost, Redelivered, TypeInv
  <2>3. crashes' \in 0 .. MaxCrashes
    BY <1>1, OnboardingAssumption DEF WorkerLost, TypeInv, TypeOK
  <2> QED
    BY <1>1, <2>2, <2>3, ReleaseType
    DEF WorkerLost, TypeInv, TypeOK, Runners, redisVars, apiVars, dlqVars
<1>2. CASE ApiLost
  <2>1. crashes' \in 0 .. MaxCrashes /\ batch' \in [Runners -> 1 .. NBatches + 1]
    BY <1>2, OnboardingAssumption DEF ApiLost, TypeInv, TypeOK
  <2>2. pc' \in [Runners -> Steps] /\ job' \in [Runners -> Jobs \union {None}]
    BY <1>2 DEF ApiLost, TypeInv, TypeOK, Steps
  <2> QED
    BY <1>2, <2>1, <2>2
    DEF ApiLost, TypeInv, TypeOK, BatchInRange, BusyHasJob, redisVars
<1> QED
  BY <1>1, <1>2

LEMMA ReplayTypeInv ==
  ASSUME TypeInv, NEW p \in Replayers, Replay(p)
  PROVE  TypeInv'
<1>1. ASSUME NEW e \in EntryIds, ReplayRead(p, e) PROVE TypeInv'
  BY <1>1
  DEF ReplayRead, TypeInv, TypeOK, BatchInRange, BusyHasJob, redisVars, apiVars, runVars
<1>2. CASE ReplayDispatch(p)
  <2>1. replay[p] \in EntryIds /\ replay[p] \in Jobs
    BY <1>2 DEF ReplayDispatch, TypeInv, TypeOK, Jobs
  <2>2. queue' \in [Messages -> Nat]
    BY <1>2, <2>1, PublishedType DEF ReplayDispatch, TypeInv
  <2> QED
    BY <1>2, <2>1, <2>2
    DEF ReplayDispatch, TypeInv, TypeOK, BatchInRange, BusyHasJob, redisVars, runVars
<1>3. CASE ReplayDropped(p)
  BY <1>3
  DEF ReplayDropped, TypeInv, TypeOK, BatchInRange, BusyHasJob, redisVars, apiVars, runVars
<1> QED
  BY <1>1, <1>2, <1>3 DEF Replay

LEMMA SweepTypeInv ==
  ASSUME TypeInv, NEW j \in Jobs, SweepFinds(j) \/ SweepMarks(j) \/ Ages(j)
  PROVE  TypeInv'
<1>1. CASE SweepMarks(j)
  <2>1. hash' \in [Jobs -> Hashes]
    BY <1>1, HashWrites DEF SweepMarks, TypeInv, TypeOK, JobStatuses, ActiveStatuses
  <2> QED
    BY <1>1, <2>1
    DEF SweepMarks, TypeInv, TypeOK, BatchInRange, BusyHasJob, apiVars, runVars, dlqVars
<1>2. CASE SweepFinds(j) \/ Ages(j)
  BY <1>2
  DEF SweepFinds, Ages, TypeInv, TypeOK, BatchInRange, BusyHasJob, apiVars, runVars, dlqVars
<1> QED
  BY <1>1, <1>2

LEMMA NextTypeInv == TypeInv /\ [Next]_vars => TypeInv'
<1> SUFFICES ASSUME TypeInv, [Next]_vars PROVE TypeInv'
  OBVIOUS
<1>1. CASE Next
  BY <1>1, PostTypeInv, SweepTypeInv, ReceiveTypeInv, TaskTypeInv, LossTypeInv,
     DirectTypeInv, ReplayTypeInv DEF Next
<1>2. CASE UNCHANGED vars
  BY <1>2
  DEF vars, redisVars, apiVars, runVars, dlqVars, TypeInv, TypeOK, BatchInRange, BusyHasJob
<1> QED
  BY <1>1, <1>2

\* The variables keep their types, and a runner with work has a job.
THEOREM TypeCorrectness == Spec => []TypeInv
  BY InitTypeInv, NextTypeInv, PTL DEF Spec

\* The same, for the part of it that the runs check.
THEOREM Typed == Spec => []TypeOK
  BY TypeCorrectness, PTL DEF TypeInv

-----------------------------------------------------------------------------
(***************************************************************************)
(* Ownership: who may run a job follows from what the API did with it.     *)
(***************************************************************************)
WorkersOwn == \A w \in Workers : pc[w] # "idle" => api[job[w]] = "celery"

DirectOwn ==
  \A d \in DirectRunners : pc[d] # "idle" => job[d] \in ApiJobs /\ api[job[d]] = "direct"

QueueOwns == \A m \in Messages : queue[m] > 0 => api[m.job] = "celery"

EntriesOwned == \A e \in EntryIds : api[e] \in {"absent", "celery"}

OutcomeOwned == \A j \in Jobs : outcome[j] # {} => api[j] = "celery"

IdleHasNone == \A r \in Runners : pc[r] = "idle" => job[r] = None

Ownership ==
  /\ WorkersOwn
  /\ DirectOwn
  /\ QueueOwns
  /\ EntriesOwned
  /\ OutcomeOwned
  /\ IdleHasNone

\* What a step of the pipeline does to everything but hashes, batches and products.
LEMMA PipelineShape ==
  ASSUME NEW r \in Runners, RunPipeline(r)
  PROVE  /\ pc[r] \in Inner \union {"timedout"}
         /\ \E to \in Inner \union {"completed", "reviewed", "timedout", "raised"} :
              pc' = [pc EXCEPT ![r] = to]
         /\ UNCHANGED <<api, request, origin, queue, job, tries, dlq, replay, lost,
                        unparked, condemned, outcome, crashes>>
  BY DEF RunPipeline, Begin, RecordStart, PlatformDetected, NoUrls, UrlsDiscovered,
         ExtractionInvalid, ProductsExtracted, Verified, FeedRejected, FeedParsed,
         NormalizeBatch, IngestBatch, Complete, RecordCompletion, PipelineFails, TimesOut,
         RecordFailure, FailureNotRecorded, Reports, ReportsError, Writes, Moves, Goto,
         Inner, Started, apiVars, dlqVars, redisVars

LEMMA InitOwnership == Init => Ownership
  BY DEF Init, Ownership, WorkersOwn, DirectOwn, QueueOwns, EntriesOwned, OutcomeOwned,
         IdleHasNone, Runners, Jobs

LEMMA NextOwnership == TypeInv /\ Ownership /\ [Next]_vars => Ownership'
<1> SUFFICES ASSUME TypeInv, Ownership, [Next]_vars PROVE Ownership'
  OBVIOUS
<1> USE DEF Ownership, WorkersOwn, DirectOwn, QueueOwns, EntriesOwned, OutcomeOwned, IdleHasNone
<1>t. /\ api \in [Jobs -> {"absent", "created", "celery", "direct", "abandoned"}]
      /\ pc \in [Runners -> Steps]
      /\ job \in [Runners -> Jobs \union {None}]
      /\ queue \in [Messages -> Nat]
      /\ \A r \in Runners : pc[r] # "idle" => job[r] \in Jobs
  BY DEF TypeInv, TypeOK, BusyHasJob
<1>s. /\ Workers \subseteq Runners /\ DirectRunners \subseteq Runners
      /\ Workers \intersect DirectRunners = {}
      /\ ApiJobs \subseteq Jobs /\ EntryIds \subseteq Jobs
      /\ ApiJobs \intersect EntryIds = {}
  BY OnboardingAssumption DEF Runners, Jobs
<1>1. ASSUME NEW j \in ApiJobs, Post(j) PROVE Ownership'
  <2>1. ASSUME NEW kind \in {"shop", "feed"}, CreateJob(j, kind) PROVE Ownership'
    BY <2>1, <1>t, <1>s DEF CreateJob, runVars, Messages
  <2>2. CASE DispatchToCelery(j)
    <3>1. \A m \in Messages : queue'[m] > 0 => m.job = j \/ queue[m] > 0
      BY <2>2, <1>t, <1>s, EnqueuedReady, OnboardingAssumption
      DEF DispatchToCelery, Published, TypeInv
    <3> QED
      BY <2>2, <3>1, <1>t, <1>s DEF DispatchToCelery, runVars, Messages
  <2>3. ASSUME NEW d \in DirectRunners, RunDirectly(j, d) PROVE Ownership'
    BY <2>3, <1>t, <1>s DEF RunDirectly, Messages
  <2>4. CASE CreationFails(j)
    BY <2>4, <1>t, <1>s DEF CreationFails, runVars, Messages
  <2> QED
    BY <1>1, <2>1, <2>2, <2>3, <2>4 DEF Post
<1>2. ASSUME NEW j \in Jobs, SweepFinds(j) \/ SweepMarks(j) \/ Ages(j) PROVE Ownership'
  BY <1>2 DEF SweepFinds, SweepMarks, Ages, apiVars, runVars
<1>3. ASSUME NEW w \in Workers, Receive(w) PROVE Ownership'
  <2> PICK m \in Messages :
        /\ queue[m] > 0
        /\ queue' = [queue EXCEPT ![m] = @ - 1]
        /\ job' = [job EXCEPT ![w] = m.job]
    BY <1>3 DEF Receive
  <2>1. \A n \in Messages : queue'[n] > 0 => queue[n] > 0
    BY <1>t
  <2>2. m.job \in Jobs
    BY DEF Messages
  <2> QED
    BY <1>3, <2>1, <2>2, <1>t, <1>s DEF Receive, Goto, apiVars
<1>4. ASSUME NEW r \in Runners, RunPipeline(r) PROVE Ownership'
  BY <1>4, <1>t, <1>s, PipelineShape DEF Inner, Started
<1>5. ASSUME NEW w \in Workers,
             Connect(w) \/ ConnectFails(w) \/ CleanupFails(w) \/ ParkFails(w)
      PROVE  Ownership'
  BY <1>5, <1>t, <1>s DEF Connect, ConnectFails, CleanupFails, ParkFails, Moves, Goto, apiVars
<1>6. ASSUME NEW w \in Workers, NEW e \in EntryIds, Park(w, e) PROVE Ownership'
  BY <1>6, <1>t, <1>s DEF Park, Goto
<1>7. ASSUME NEW w \in Workers, Retry(w) PROVE Ownership'
  <2>1. job[w] \in Jobs /\ tries[w] + 1 \in 0 .. MaxRetries /\ api[job[w]] = "celery"
    BY <1>7, <1>s, OnboardingAssumption DEF Retry, TypeInv, TypeOK, BusyHasJob
  <2>2. \A m \in Messages : queue'[m] > 0 => m.job = job[w] \/ queue[m] > 0
    BY <1>7, <2>1, <1>t, EnqueuedReady DEF Retry, Republished, TypeInv
  <2> QED
    BY <1>7, <2>1, <2>2, <1>t, <1>s DEF Retry, Goto, apiVars
<1>8. ASSUME NEW w \in Workers, Acknowledge(w) PROVE Ownership'
  <2>1. job[w] \in Jobs /\ api[job[w]] = "celery"
    BY <1>8, <1>s DEF Acknowledge, Ended, TypeInv, BusyHasJob
  <2>2. \A j \in Jobs : outcome'[j] # {} => outcome[j] # {} \/ j = job[w]
    BY <1>8, <2>1 DEF Acknowledge, TypeInv, TypeOK
  <2> QED
    BY <1>8, <2>1, <2>2, <1>t, <1>s DEF Acknowledge, Release, Goto, apiVars
<1>9. ASSUME NEW w \in Workers, WorkerLost(w) PROVE Ownership'
  <2>1. job[w] \in Jobs /\ tries[w] \in 0 .. MaxRetries /\ api[job[w]] = "celery"
    BY <1>9, <1>s DEF WorkerLost, TypeInv, TypeOK, BusyHasJob
  <2>2. \A m \in Messages : queue'[m] > 0 => m.job = job[w] \/ queue[m] > 0
    BY <1>9, <2>1, <1>t, EnqueuedReady DEF WorkerLost, Redelivered, TypeInv
  <2> QED
    BY <1>9, <2>2, <2>1, <1>t, <1>s DEF WorkerLost, Release, Goto, apiVars
<1>10. ASSUME NEW d \in DirectRunners, SkipIngest(d) \/ DirectEnds(d) PROVE Ownership'
  BY <1>10, <1>t, <1>s DEF SkipIngest, DirectEnds, Release, Goto, apiVars, Ended
<1>11. ASSUME NEW p \in Replayers, Replay(p) PROVE Ownership'
  <2>1. CASE ReplayDispatch(p)
    <3>1. replay[p] \in EntryIds
      BY <2>1 DEF ReplayDispatch, TypeInv, TypeOK
    <3>2. \A m \in Messages : queue'[m] > 0 => m.job = replay[p] \/ queue[m] > 0
      BY <2>1, <3>1, <1>t, <1>s, EnqueuedReady, OnboardingAssumption
      DEF ReplayDispatch, Published, TypeInv
    <3> QED
      BY <2>1, <3>1, <3>2, <1>t, <1>s DEF ReplayDispatch, runVars, Messages
  <2>2. CASE ReplayDropped(p) \/ \E e \in EntryIds : ReplayRead(p, e)
    BY <2>2 DEF ReplayDropped, ReplayRead, apiVars, runVars
  <2> QED
    BY <1>11, <2>1, <2>2 DEF Replay
<1>12. CASE ApiLost
  BY <1>12, <1>t, <1>s DEF ApiLost, Messages
<1>13. CASE UNCHANGED vars
  BY <1>13 DEF vars, apiVars, runVars
<1> QED
  BY <1>1, <1>2, <1>3, <1>4, <1>5, <1>6, <1>7, <1>8, <1>9, <1>10, <1>11, <1>12, <1>13, <1>s
  DEF Next, RunTask, RunDirect

-----------------------------------------------------------------------------
(***************************************************************************)
(* No job is forgotten.  A worker that has published the next try holds    *)
(* nothing any more that would be missed, so the invariant does not count  *)
(* it; and a worker that has given up has seen to the DLQ entry before its *)
(* message is acknowledged.                                                *)
(***************************************************************************)
Waiting(j) == \E m \in Messages : m.job = j /\ queue[m] > 0

InHand(j) == \E w \in Workers : job[w] = j /\ pc[w] # "retried"

Kept(j) == Waiting(j) \/ InHand(j) \/ outcome[j] # {}

AllKept == \A j \in Jobs : api[j] = "celery" => Kept(j)

GivenUpIsParked ==
  /\ \A w \in Workers : pc[w] = "exhausted" => Parked(job[w])
  /\ \A j \in Jobs : "exhausted" \in outcome[j] => Parked(j)

EntriesKept ==
  \A e \in EntryIds : origin[e] # None => e \in dlq \/ api[e] = "celery" \/ e \in lost

ForgottenInv == AllKept /\ GivenUpIsParked /\ EntriesKept

LEMMA InitForgottenInv == Init => ForgottenInv
  BY DEF Init, ForgottenInv, AllKept, GivenUpIsParked, EntriesKept, Jobs, Runners

LEMMA NextForgottenInv ==
  TypeInv /\ Ownership /\ ForgottenInv /\ [Next]_vars => ForgottenInv'
<1> SUFFICES ASSUME TypeInv, Ownership, ForgottenInv, [Next]_vars PROVE ForgottenInv'
  OBVIOUS
<1>t. /\ pc \in [Runners -> Steps]
      /\ job \in [Runners -> Jobs \union {None}]
      /\ queue \in [Messages -> Nat]
      /\ tries \in [Runners -> 0 .. MaxRetries]
      /\ origin \in [EntryIds -> Jobs \union {None}]
      /\ api \in [Jobs -> {"absent", "created", "celery", "direct", "abandoned"}]
      /\ \A w \in Workers : pc[w] # "idle" => job[w] \in Jobs
      /\ \A w \in Workers : pc[w] = "idle" => job[w] = None
  BY DEF TypeInv, TypeOK, BusyHasJob, Ownership, IdleHasNone, Runners
<1>s. /\ Workers \subseteq Runners /\ DirectRunners \subseteq Runners
      /\ Workers \intersect DirectRunners = {}
      /\ ApiJobs \subseteq Jobs /\ EntryIds \subseteq Jobs
      /\ None \notin Jobs
  BY OnboardingAssumption DEF Runners, Jobs
<1>z. 0 \in 0 .. MaxRetries
  BY OnboardingAssumption
<1> USE DEF ForgottenInv, AllKept, GivenUpIsParked, EntriesKept
\* Steps that leave the queue, the outcomes and every worker's job alone, in which a worker
\* neither publishes a try nor gives up.
<1>q. ASSUME UNCHANGED <<api, origin, queue, dlq, lost, unparked, outcome>>,
             \A w \in Workers : /\ job'[w] = job[w]
                                /\ pc'[w] = "retried" => pc[w] = "retried"
                                /\ pc'[w] = "exhausted" => pc[w] = "exhausted"
      PROVE  ForgottenInv'
  BY <1>q DEF Kept, Waiting, InHand, Parked
<1>1. ASSUME NEW j \in ApiJobs, Post(j) PROVE ForgottenInv'
  <2>1. ASSUME NEW kind \in {"shop", "feed"}, CreateJob(j, kind) PROVE ForgottenInv'
    BY <2>1, <1>t, <1>s
    DEF CreateJob, runVars, dlqVars, Kept, Waiting, InHand, Parked
  <2>2. CASE DispatchToCelery(j)
    <3>1. /\ Message(j, 0) \in Messages /\ Message(j, 0).job = j /\ queue'[Message(j, 0)] > 0
          /\ \A m \in Messages : queue[m] > 0 => queue'[m] > 0
      BY <2>2, <1>t, <1>s, <1>z, EnqueuedReady DEF DispatchToCelery, Published, TypeInv
    <3> QED
      BY <2>2, <3>1, <1>t, <1>s
      DEF DispatchToCelery, runVars, dlqVars, Kept, Waiting, InHand, Parked
  <2>3. ASSUME NEW d \in DirectRunners, RunDirectly(j, d) PROVE ForgottenInv'
    BY <2>3, <1>t, <1>s DEF RunDirectly, dlqVars, Kept, Waiting, InHand, Parked
  <2>4. CASE CreationFails(j)
    BY <2>4, <1>t, <1>s DEF CreationFails, runVars, dlqVars, Kept, Waiting, InHand, Parked
  <2> QED
    BY <1>1, <2>1, <2>2, <2>3, <2>4 DEF Post
<1>2. ASSUME NEW j \in Jobs, SweepFinds(j) \/ SweepMarks(j) \/ Ages(j) PROVE ForgottenInv'
  BY <1>2, <1>q DEF SweepFinds, SweepMarks, Ages, apiVars, runVars, dlqVars
<1>3. ASSUME NEW w \in Workers, Receive(w) PROVE ForgottenInv'
  <2> PICK m \in Messages :
        /\ queue[m] > 0
        /\ queue' = [queue EXCEPT ![m] = @ - 1]
        /\ job' = [job EXCEPT ![w] = m.job]
    BY <1>3 DEF Receive
  <2>1. m.job \in Jobs /\ pc' = [pc EXCEPT ![w] = "received"] /\ pc[w] = "idle"
    BY <1>3 DEF Messages, Receive, Goto
  <2>2. \A n \in Messages : n # m => queue'[n] = queue[n]
    BY <1>t
  <2>3. ASSUME NEW j \in Jobs, Kept(j) PROVE Kept(j)'
    BY <1>3, <2>1, <2>2, <2>3, <1>t, <1>s DEF Receive, Kept, Waiting, InHand
  <2> QED
    BY <1>3, <2>1, <2>3, <1>t, <1>s DEF Receive, apiVars, dlqVars, Parked
<1>4. ASSUME NEW r \in Runners, RunPipeline(r) PROVE ForgottenInv'
  BY <1>4, <1>q, <1>t, <1>s, PipelineShape DEF Inner, Started
<1>5. ASSUME NEW w \in Workers, Connect(w) \/ ConnectFails(w) \/ CleanupFails(w)
      PROVE  ForgottenInv'
  BY <1>5, <1>q, <1>t, <1>s
  DEF Connect, ConnectFails, CleanupFails, Moves, Goto, apiVars, dlqVars
<1>6. ASSUME NEW w \in Workers, ParkFails(w) \/ \E e \in EntryIds : Park(w, e)
      PROVE  ForgottenInv'
  <2>1. job[w] \in Jobs /\ pc' = [pc EXCEPT ![w] = "exhausted"]
    BY <1>6, <1>t DEF ParkFails, Park, Goto
  <2>2. Parked(job[w])' /\ \A j \in Jobs : Parked(j) => Parked(j)'
    BY <1>6, <2>1, <1>t, <1>s DEF ParkFails, Park, Parked, apiVars
  <2>3. EntriesKept'
    BY <1>6, <1>t DEF ParkFails, Park, apiVars
  <2> QED
    BY <1>6, <2>1, <2>2, <2>3, <1>t, <1>s
    DEF ParkFails, Park, apiVars, Kept, Waiting, InHand
<1>7. ASSUME NEW w \in Workers, Retry(w) PROVE ForgottenInv'
  <2>1. job[w] \in Jobs /\ tries[w] + 1 \in 0 .. MaxRetries
    BY <1>7, <1>t, <1>s, OnboardingAssumption DEF Retry
  <2> DEFINE n == Message(job[w], tries[w] + 1)
  <2>2. /\ n \in Messages /\ n.job = job[w] /\ queue'[n] > 0
        /\ \A m \in Messages : queue[m] > 0 => queue'[m] > 0
    BY <1>7, <2>1, <1>t, EnqueuedReady DEF Retry, Republished, TypeInv
  <2> HIDE DEF n
  <2>3. ASSUME NEW j \in Jobs, Kept(j) PROVE Kept(j)'
    BY <1>7, <2>2, <2>3, <1>t, <1>s DEF Retry, Goto, Kept, Waiting, InHand
  <2> QED
    BY <1>7, <2>3, <1>t, <1>s DEF Retry, Goto, apiVars, dlqVars, Parked
<1>8. ASSUME NEW w \in Workers, Acknowledge(w) PROVE ForgottenInv'
  <2>1. job[w] \in Jobs /\ pc[w] \in Ended
    BY <1>8, <1>t DEF Acknowledge, Ended
  <2>2. \A j \in Jobs : outcome[j] \subseteq outcome'[j]
    BY <1>8, <2>1 DEF Acknowledge, TypeInv, TypeOK
  <2>3. pc[w] # "retried" => outcome'[job[w]] = outcome[job[w]] \union {pc[w]}
    BY <1>8, <2>1 DEF Acknowledge, TypeInv, TypeOK
  <2>4. \A j \in Jobs : j # job[w] => outcome'[j] = outcome[j]
    BY <1>8, <2>1 DEF Acknowledge, TypeInv, TypeOK
  <2>5. ASSUME NEW j \in Jobs, Kept(j) PROVE Kept(j)'
    BY <1>8, <2>1, <2>2, <2>3, <2>5, <1>t, <1>s
    DEF Acknowledge, Release, Goto, Kept, Waiting, InHand
  <2>6. AllKept'
    BY <1>8, <2>5 DEF Acknowledge, apiVars
  <2>7. \A j \in Jobs : Parked(j)' <=> Parked(j)
    BY <1>8 DEF Acknowledge, Parked, apiVars, dlqVars
  <2>8. GivenUpIsParked'
    <3>1. ASSUME NEW j \in Jobs, "exhausted" \in outcome'[j] PROVE Parked(j)'
      <4>1. "exhausted" \in outcome[j] \/ (j = job[w] /\ pc[w] = "exhausted")
        BY <1>8, <2>1, <2>3, <2>4, <3>1 DEF Acknowledge
      <4> QED
        BY <4>1, <2>7, <2>1
    <3>2. ASSUME NEW v \in Workers, pc'[v] = "exhausted" PROVE Parked(job[v])'
      <4>1. job'[v] = job[v] /\ pc[v] = "exhausted"
        BY <1>8, <3>2, <1>t, <1>s DEF Acknowledge, Release, Goto
      <4> QED
        BY <1>8, <4>1 DEF Acknowledge, Parked, apiVars, dlqVars
    <3> QED
      BY <3>1, <3>2
  <2>9. EntriesKept'
    BY <1>8 DEF Acknowledge, apiVars, dlqVars
  <2> QED
    BY <2>6, <2>8, <2>9
<1>9. ASSUME NEW w \in Workers, WorkerLost(w) PROVE ForgottenInv'
  <2>1. job[w] \in Jobs /\ tries[w] \in 0 .. MaxRetries
    BY <1>9, <1>t, <1>s DEF WorkerLost
  <2> DEFINE n == Message(job[w], tries[w])
  <2>2. /\ n \in Messages /\ n.job = job[w] /\ queue'[n] > 0
        /\ \A m \in Messages : queue[m] > 0 => queue'[m] > 0
    BY <1>9, <2>1, <1>t, EnqueuedReady DEF WorkerLost, Redelivered, TypeInv
  <2> HIDE DEF n
  <2>3. ASSUME NEW j \in Jobs, Kept(j) PROVE Kept(j)'
    BY <1>9, <2>2, <2>3, <1>t, <1>s DEF WorkerLost, Release, Goto, Kept, Waiting, InHand
  <2> QED
    BY <1>9, <2>3, <1>t, <1>s DEF WorkerLost, Release, Goto, apiVars, dlqVars, Parked
<1>10. ASSUME NEW d \in DirectRunners, SkipIngest(d) \/ DirectEnds(d) PROVE ForgottenInv'
  BY <1>10, <1>q, <1>t, <1>s DEF SkipIngest, DirectEnds, Release, Goto, apiVars, dlqVars
<1>11. ASSUME NEW p \in Replayers, Replay(p) PROVE ForgottenInv'
  <2>1. CASE ReplayDispatch(p)
    <3>1. replay[p] \in EntryIds
      BY <2>1 DEF ReplayDispatch, TypeInv, TypeOK
    <3> DEFINE n == Message(replay[p], 0)
    <3>2. /\ n \in Messages /\ n.job = replay[p] /\ queue'[n] > 0
          /\ \A m \in Messages : queue[m] > 0 => queue'[m] > 0
      BY <2>1, <3>1, <1>t, <1>s, <1>z, EnqueuedReady DEF ReplayDispatch, Published, TypeInv
    <3> HIDE DEF n
    <3>3. ASSUME NEW j \in Jobs, Kept(j) \/ j = replay[p] PROVE Kept(j)'
      <4>1. CASE j = replay[p]
        BY <3>2, <4>1 DEF Kept, Waiting
      <4>2. CASE Kept(j)
        BY <2>1, <3>2, <4>2 DEF ReplayDispatch, runVars, Kept, Waiting, InHand
      <4> QED
        BY <3>3, <4>1, <4>2
    <3>4. AllKept'
      <4>1. \A j \in Jobs : api'[j] = "celery" => api[j] = "celery" \/ j = replay[p]
        BY <2>1, <3>1, <1>t, <1>s DEF ReplayDispatch
      <4> QED
        BY <3>3, <4>1
    <3>5. GivenUpIsParked'
      BY <2>1 DEF ReplayDispatch, runVars, Parked
    <3>6. EntriesKept'
      BY <2>1, <3>1, <1>t, <1>s DEF ReplayDispatch
    <3> QED
      BY <3>4, <3>5, <3>6
  <2>2. CASE ReplayDropped(p) \/ \E e \in EntryIds : ReplayRead(p, e)
    BY <2>2 DEF ReplayDropped, ReplayRead, apiVars, runVars, Kept, Waiting, InHand, Parked
  <2> QED
    BY <1>11, <2>1, <2>2 DEF Replay
<1>12. CASE ApiLost
  BY <1>12, <1>t, <1>s DEF ApiLost, Kept, Waiting, InHand, Parked
<1>13. CASE UNCHANGED vars
  BY <1>13, <1>q DEF vars, apiVars, runVars, dlqVars
<1> QED
  BY <1>1, <1>2, <1>3, <1>4, <1>5, <1>6, <1>7, <1>8, <1>9, <1>10, <1>11, <1>12, <1>13, <1>s
  DEF Next, RunTask, RunDirect

LEMMA ForgottenInvImplies == TypeInv /\ ForgottenInv => NoJobForgotten
<1> SUFFICES ASSUME TypeInv, ForgottenInv PROVE NoJobForgotten
  OBVIOUS
<1>1. ASSUME NEW j \in Jobs, Waiting(j) PROVE Queued(j)
  BY <1>1 DEF Waiting, Queued, Messages, Message
<1> QED
  BY <1>1
  DEF ForgottenInv, AllKept, GivenUpIsParked, EntriesKept, NoJobForgotten, Kept, InHand, Held

\* No job the broker took over is forgotten, whatever processes are lost and when.
THEOREM Remembered == Spec => []NoJobForgotten
<1>1. Init => TypeInv /\ Ownership /\ ForgottenInv
  BY InitTypeInv, InitOwnership, InitForgottenInv
<1>2. TypeInv /\ Ownership /\ ForgottenInv /\ [Next]_vars
        => TypeInv' /\ Ownership' /\ ForgottenInv'
  BY NextTypeInv, NextOwnership, NextForgottenInv
<1> QED
  BY <1>1, <1>2, ForgottenInvImplies, PTL DEF Spec
=============================================================================
