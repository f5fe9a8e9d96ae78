---------------------------- MODULE OnboardingJob ----------------------------
(***************************************************************************)
(* The life of an onboarding job, from the POST that accepts it to the     *)
(* last delivery of its Celery message:                                    *)
(*                                                                         *)
(*   - the API process writes QUEUED and dispatches to Celery, or runs the *)
(*     pipeline itself when the broker refuses (app/api/v1/onboarding.py); *)
(*   - the broker keeps a message until the worker acknowledges it, which  *)
(*     with task_acks_late is after the task has ended;                    *)
(*   - a worker runs the pipeline (app/services/pipeline.py), retries the  *)
(*     task when it raises and parks it in the dead letter queue when the  *)
(*     retries are spent (app/workers/tasks.py);                           *)
(*   - GET /jobs sweeps the progress hashes and fails the stale ones       *)
(*     (app/infra/progress_tracker.py);                                    *)
(*   - POST /dlq/{id}/retry takes an entry out and dispatches it again     *)
(*     (app/api/v1/dlq.py).                                                *)
(*                                                                         *)
(* A step of the model ends at an await that talks to Redis, Postgres, the *)
(* broker or the shop, so everything those can interleave is interleaved.  *)
(***************************************************************************)
EXTENDS Naturals, ProgressTracker

CONSTANTS
  ApiJobs,         \* ids of the jobs the API makes (job_<hex>)
  EntryIds,        \* ids made for DLQ entries (uuid4), job ids once retried
  Workers,         \* Celery worker processes, one task each
  DirectRunners,   \* pipelines the API process can run as background tasks
  Replayers,       \* concurrent requests to retry a DLQ entry
  None,            \* no job
  MaxRetries,      \* task_max_retries
  NBatches,        \* batches of _NORMALIZE_BATCH_SIZE products in a shop
  MaxCrashes       \* bound on lost processes

ASSUME OnboardingAssumption ==
  /\ ApiJobs \intersect EntryIds = {}
  /\ None \notin ApiJobs \union EntryIds
  /\ Workers \intersect DirectRunners = {}
  /\ MaxRetries \in Nat
  /\ NBatches \in Nat
  /\ MaxCrashes \in Nat

VARIABLES
  hash,       \* progress hash of each job
  aged,       \* jobs whose started_at is more than 30 minutes ago
  api,        \* what the API has done with each job id
  request,    \* the kind of work a message of the job asks for
  queue,      \* ready copies of each message in the broker
  pc,         \* where each worker and each direct pipeline stands
  job,        \* the job it runs
  tries,      \* request.retries of the message it holds
  batch,      \* the batch it normalizes next
  products,   \* batches of each job that are in the products table
  dlq,        \* ids of the entries in the hash dlq:jobs
  origin,     \* for an id that was made for a DLQ entry, the job that failed
  replay,     \* the entry each retry request has read
  lost,       \* ids whose retry request dispatched nothing
  unparked,   \* jobs whose DLQ entry could not be written
  condemned,  \* jobs a sweep has found stale and not marked yet
  outcome,    \* how the acknowledged deliveries of each job ended
  crashes     \* processes lost so far

redisVars == <<hash, aged, condemned>>
apiVars   == <<api, request, origin>>
dlqVars   == <<dlq, replay, lost, unparked>>
runVars   == <<pc, job, tries, batch>>
vars == <<redisVars, apiVars, queue, runVars, products, dlqVars, outcome, crashes>>

Jobs == ApiJobs \union EntryIds

Runners == Workers \union DirectRunners

Batches == 1 .. NBatches

\* A Celery message: the job, and how often it was retried.
Messages == [job : Jobs, tries : 0 .. MaxRetries]

Message(j, k) == [job |-> j, tries |-> k]

\* Inside the coroutine that run() wraps in asyncio.wait_for, its started_at written.
Started ==
  {"detecting", "discovering", "extracting", "verifying", "feed",
   "normalizing", "ingesting", "stamping", "handling"}

Inner == Started \union {"begin", "begun"}

\* The task has ended and its message is not acknowledged yet.
Ended == {"completed", "reviewed", "retried", "exhausted"}

Steps == Inner \union Ended \union {"idle", "received", "timedout", "raised"}

TypeOK ==
  /\ hash \in [Jobs -> Hashes]
  /\ aged \subseteq Jobs
  /\ api \in [Jobs -> {"absent", "created", "celery", "direct", "abandoned"}]
  /\ request \in [Jobs -> {"none", "shop", "feed"}]
  /\ queue \in [Messages -> Nat]
  /\ pc \in [Runners -> Steps]
  /\ job \in [Runners -> Jobs \union {None}]
  /\ tries \in [Runners -> 0 .. MaxRetries]
  /\ batch \in [Runners -> 1 .. NBatches + 1]
  /\ products \in [Jobs -> SUBSET Batches]
  /\ dlq \subseteq EntryIds
  /\ origin \in [EntryIds -> Jobs \union {None}]
  /\ replay \in [Replayers -> EntryIds \union {None}]
  /\ lost \subseteq EntryIds
  /\ unparked \subseteq Jobs
  /\ condemned \subseteq Jobs
  /\ outcome \in [Jobs -> SUBSET {"completed", "reviewed", "exhausted"}]
  /\ crashes \in 0 .. MaxCrashes

Init ==
  /\ hash = [j \in Jobs |-> NoHash]
  /\ aged = {}
  /\ api = [j \in Jobs |-> "absent"]
  /\ request = [j \in Jobs |-> "none"]
  /\ queue = [m \in Messages |-> 0]
  /\ pc = [r \in Runners |-> "idle"]
  /\ job = [r \in Runners |-> None]
  /\ tries = [r \in Runners |-> 0]
  /\ batch = [r \in Runners |-> 1]
  /\ products = [j \in Jobs |-> {}]
  /\ dlq = {}
  /\ origin = [e \in EntryIds |-> None]
  /\ replay = [p \in Replayers |-> None]
  /\ lost = {}
  /\ unparked = {}
  /\ condemned = {}
  /\ outcome = [j \in Jobs |-> {}]
  /\ crashes = 0

-----------------------------------------------------------------------------
(***************************************************************************)
(* The API: POST /onboard.  The job is visible to a sweep between the      *)
(* write of QUEUED and the dispatch, and has no started_at until a         *)
(* pipeline begins.                                                        *)
(***************************************************************************)
CreateJob(j, kind) ==
  /\ api[j] = "absent"
  /\ hash' = [hash EXCEPT ![j] = Update(@, "queued")]
  /\ api' = [api EXCEPT ![j] = "created"]
  /\ request' = [request EXCEPT ![j] = kind]
  /\ UNCHANGED <<aged, condemned, origin, queue, runVars, products, dlqVars,
                 outcome, crashes>>

Enqueued(m) == [queue EXCEPT ![m] = @ + 1]

\* A message as delay() publishes it.
Published(j) == Enqueued(Message(j, 0))

DispatchToCelery_Bug(j) ==
  /\ api[j] = "created"
  /\ queue' = Published(j)
  /\ UNCHANGED <<redisVars, apiVars, runVars, products, dlqVars, outcome, crashes>>

DispatchToCelery(j) ==
  /\ api[j] = "created"
  /\ api' = [api EXCEPT ![j] = "celery"]
  /\ queue' = Published(j)
  /\ UNCHANGED <<redisVars, request, origin, runVars, products, dlqVars,
                 outcome, crashes>>

\* The second write of the request (set_metadata) fails: the client gets an error, the job
\* stays in the list.
CreationFails(j) ==
  /\ api[j] = "created"
  /\ api' = [api EXCEPT ![j] = "abandoned"]
  /\ UNCHANGED <<redisVars, request, origin, queue, runVars, products, dlqVars,
                 outcome, crashes>>

\* The broker refuses: the pipeline runs as a task of the API's event loop.
RunDirectly(j, d) ==
  /\ api[j] = "created"
  /\ pc[d] = "idle"
  /\ api' = [api EXCEPT ![j] = "direct"]
  /\ pc' = [pc EXCEPT ![d] = "begin"]
  /\ job' = [job EXCEPT ![d] = j]
  /\ UNCHANGED <<redisVars, request, origin, queue, tries, batch, products,
                 dlqVars, outcome, crashes>>

-----------------------------------------------------------------------------
(***************************************************************************)
(* The worker takes a message, validates the URL and connects before it    *)
(* writes any progress: what fails here leaves the status as it was.       *)
(***************************************************************************)
Goto(r, step) == pc' = [pc EXCEPT ![r] = step]

Receive(w) ==
  /\ pc[w] = "idle"
  /\ \E m \in Messages :
       /\ queue[m] > 0
       /\ queue' = [queue EXCEPT ![m] = @ - 1]
       /\ job' = [job EXCEPT ![w] = m.job]
       /\ tries' = [tries EXCEPT ![w] = m.tries]
  /\ Goto(w, "received")
  /\ UNCHANGED <<redisVars, apiVars, batch, products, dlqVars, outcome, crashes>>

\* Steps of a runner that touch nothing but its own program counter.
Moves(r, from, to) ==
  /\ pc[r] \in from
  /\ Goto(r, to)
  /\ UNCHANGED <<redisVars, apiVars, queue, job, tries, batch, products, dlqVars,
                 outcome, crashes>>

Connect(w) == Moves(w, {"received"}, "begin")

ConnectFails(w) == Moves(w, {"received"}, "raised")

-----------------------------------------------------------------------------
(***************************************************************************)
(* The pipeline.  Each action is one phase's work followed by the write of *)
(* the next phase's status.                                                *)
(***************************************************************************)
Writes(r, from, to, newHash) ==
  /\ pc[r] \in from
  /\ Goto(r, to)
  /\ hash' = [hash EXCEPT ![job[r]] = newHash]
  /\ UNCHANGED <<condemned, apiVars, queue, job, tries, products, dlqVars,
                 outcome, crashes>>

Reports(r, from, to, status) ==
  /\ Writes(r, from, to, Update(hash[job[r]], status))
  /\ UNCHANGED <<aged, batch>>

ReportsError(r, from, to, status) ==
  /\ Writes(r, from, to, UpdateWithError(hash[job[r]], status))
  /\ UNCHANGED <<aged, batch>>

IsFeed(r) == request[job[r]] = "feed"

Begin(r) ==
  Reports(r, {"begin"}, "begun", IF IsFeed(r) THEN "extracting" ELSE "detecting")

\* set_metadata(started_at = now): the age of the job starts over.
RecordStart(r) ==
  /\ Writes(r, {"begun"}, IF IsFeed(r) THEN "feed" ELSE "detecting",
            SetStartedAt(hash[job[r]]))
  /\ aged' = aged \ {job[r]}
  /\ UNCHANGED batch

PlatformDetected(r) == Reports(r, {"detecting"}, "discovering", "discovering")

NoUrls(r) == Reports(r, {"discovering"}, "reviewed", "needs_review")

UrlsDiscovered(r) == Reports(r, {"discovering"}, "extracting", "extracting")

ExtractionInvalid(r) == Reports(r, {"extracting"}, "reviewed", "needs_review")

ProductsExtracted(r) == Reports(r, {"extracting"}, "verifying", "verifying")

\* The batch loop starts at the first batch, whatever an earlier attempt stored.
FirstBatch(r) == batch' = [batch EXCEPT ![r] = 1]

Verified(r) ==
  /\ Writes(r, {"verifying"}, "normalizing", Update(hash[job[r]], "normalizing"))
  /\ FirstBatch(r)
  /\ UNCHANGED aged

FeedRejected(r) == ReportsError(r, {"feed"}, "reviewed", "needs_review")

FeedParsed(r) ==
  /\ Writes(r, {"feed"}, "normalizing", Update(hash[job[r]], "normalizing"))
  /\ FirstBatch(r)
  /\ UNCHANGED aged

NormalizeBatch_Bug(r) ==
  /\ batch[r] <= NBatches + 1
  /\ Reports(r, {"normalizing"}, "ingesting", "normalizing")

NormalizeBatch(r) ==
  /\ batch[r] <= NBatches
  /\ Reports(r, {"normalizing"}, "ingesting", "normalizing")

\* One batch is one transaction; ingesting it again changes nothing.
IngestBatch(r) ==
  /\ pc[r] = "ingesting"
  /\ products' = [products EXCEPT ![job[r]] = @ \union {batch[r]}]
  /\ batch' = [batch EXCEPT ![r] = @ + 1]
  /\ Goto(r, "normalizing")
  /\ UNCHANGED <<redisVars, apiVars, queue, job, tries, dlqVars, outcome, crashes>>

\* An API process that started without a database has no ingestor.
SkipIngest(d) ==
  /\ pc[d] = "ingesting"
  /\ batch' = [batch EXCEPT ![d] = @ + 1]
  /\ Goto(d, "normalizing")
  /\ UNCHANGED <<redisVars, apiVars, queue, job, tries, products, dlqVars,
                 outcome, crashes>>

AllIngested_Bug(r) == batch[r] >= NBatches

AllIngested(r) == batch[r] > NBatches

Complete(r) ==
  /\ AllIngested(r)
  /\ Reports(r, {"normalizing"}, "stamping", "completed")

RecordCompletion(r) ==
  /\ Writes(r, {"stamping"}, "completed", SetCompletedAt(hash[job[r]]))
  /\ UNCHANGED <<aged, batch>>

-----------------------------------------------------------------------------
(***************************************************************************)
(* Failures.  The shop pipeline records FAILED before the exception leaves *)
(* it, the feed import has no handler.  wait_for cancels the coroutine at  *)
(* any await, which no handler of the pipeline catches, and run() records  *)
(* FAILED afterwards.  A write to Redis may fail as well.                  *)
(***************************************************************************)
PipelineFails(r) ==
  Moves(r, Inner \ {"handling"}, IF IsFeed(r) THEN "raised" ELSE "handling")

TimesOut(r) == Moves(r, Inner, "timedout")

RecordFailure(r) == ReportsError(r, {"handling", "timedout"}, "raised", "failed")

FailureNotRecorded(r) == Moves(r, {"handling", "timedout"}, "raised")

(***************************************************************************)
(* The task's except clause.  The next try is published before the message *)
(* of this one is acknowledged.                                            *)
(***************************************************************************)
Republished_Bug(w) == Enqueued(Message(job[w], tries[w]))

Republished(w) == Enqueued(Message(job[w], tries[w] + 1))

Retry(w) ==
  /\ pc[w] = "raised"
  /\ tries[w] < MaxRetries
  /\ queue' = Republished(w)
  /\ Goto(w, "retried")
  /\ UNCHANGED <<redisVars, apiVars, job, tries, batch, products, dlqVars,
                 outcome, crashes>>

\* _write_to_dlq: a new id for the entry, and of the message only the shop URL.
Park(w, key) ==
  /\ pc[w] = "raised"
  /\ tries[w] = MaxRetries
  /\ origin[key] = None
  /\ dlq' = dlq \union {key}
  /\ origin' = [origin EXCEPT ![key] = job[w]]
  /\ Goto(w, "exhausted")
  /\ UNCHANGED <<redisVars, api, request, queue, job, tries, batch, products,
                 replay, lost, unparked, outcome, crashes>>

ParkFails(w) ==
  /\ pc[w] = "raised"
  /\ tries[w] = MaxRetries
  /\ unparked' = unparked \union {job[w]}
  /\ Goto(w, "exhausted")
  /\ UNCHANGED <<redisVars, apiVars, queue, job, tries, batch, products, dlq,
                 replay, lost, outcome, crashes>>

\* Closing the database or Redis raises: the task fails although the pipeline returned.
CleanupFails(w) == Moves(w, {"completed", "reviewed"}, "raised")

\* The delivery is over: the broker forgets the message.
Release(r) ==
  /\ Goto(r, "idle")
  /\ job' = [job EXCEPT ![r] = None]
  /\ tries' = [tries EXCEPT ![r] = 0]
  /\ batch' = [batch EXCEPT ![r] = 1]

Acknowledge(w) ==
  /\ pc[w] \in Ended
  /\ outcome' = IF pc[w] = "retried" THEN outcome
                ELSE [outcome EXCEPT ![job[w]] = @ \union {pc[w]}]
  /\ Release(w)
  /\ UNCHANGED <<redisVars, apiVars, queue, products, dlqVars, crashes>>

\* _run_pipeline_direct logs the exception and returns: no retry, no DLQ.
DirectEnds(d) ==
  /\ pc[d] \in Ended \union {"raised"}
  /\ Release(d)
  /\ UNCHANGED <<redisVars, apiVars, queue, products, dlqVars, outcome, crashes>>

-----------------------------------------------------------------------------
(***************************************************************************)
(* Lost processes.  task_acks_late and task_reject_on_worker_lost make the *)
(* broker deliver the worker's message again; nothing remembers what the   *)
(* API process was doing.                                                  *)
(***************************************************************************)
Redelivered_Bug(w) == queue

Redelivered(w) == Enqueued(Message(job[w], tries[w]))

WorkerLost(w) ==
  /\ pc[w] # "idle"
  /\ crashes < MaxCrashes
  /\ crashes' = crashes + 1
  /\ queue' = Redelivered(w)
  /\ Release(w)
  /\ UNCHANGED <<redisVars, apiVars, products, dlqVars, outcome>>

ApiLost ==
  /\ crashes < MaxCrashes
  /\ crashes' = crashes + 1
  /\ api' = [j \in Jobs |-> IF api[j] = "created" THEN "abandoned" ELSE api[j]]
  /\ pc' = [r \in Runners |-> IF r \in DirectRunners THEN "idle" ELSE pc[r]]
  /\ job' = [r \in Runners |-> IF r \in DirectRunners THEN None ELSE job[r]]
  /\ batch' = [r \in Runners |-> IF r \in DirectRunners THEN 1 ELSE batch[r]]
  /\ replay' = [p \in Replayers |-> None]
  /\ UNCHANGED <<redisVars, request, origin, queue, tries, products, dlq,
                 lost, unparked, outcome>>

-----------------------------------------------------------------------------
(***************************************************************************)
(* POST /dlq/{id}/retry: HGET, then HDEL and delay().  The id of the entry *)
(* becomes the job id, and the message carries the shop URL and nothing    *)
(* else of the request that failed.  An exception of delay() is swallowed. *)
(***************************************************************************)
ReplayRead(p, key) ==
  /\ replay[p] = None
  /\ key \in dlq
  /\ replay' = [replay EXCEPT ![p] = key]
  /\ UNCHANGED <<redisVars, apiVars, queue, runVars, products, dlq, lost,
                 unparked, outcome, crashes>>

ReplayDispatch(p) ==
  /\ replay[p] # None
  /\ dlq' = dlq \ {replay[p]}
  /\ replay' = [replay EXCEPT ![p] = None]
  /\ queue' = Published(replay[p])
  /\ api' = [api EXCEPT ![replay[p]] = "celery"]
  /\ request' = [request EXCEPT ![replay[p]] = "shop"]
  /\ UNCHANGED <<redisVars, origin, runVars, products, lost, unparked, outcome,
                 crashes>>

ReplayDropped(p) ==
  /\ replay[p] # None
  /\ dlq' = dlq \ {replay[p]}
  /\ replay' = [replay EXCEPT ![p] = None]
  /\ lost' = lost \union {replay[p]}
  /\ UNCHANGED <<redisVars, apiVars, queue, runVars, products, unparked, outcome,
                 crashes>>

-----------------------------------------------------------------------------
(***************************************************************************)
(* GET /jobs and the analytics routes.  The verdict on a job is taken from *)
(* the hash as it was read; the mark is written later, over whatever the   *)
(* hash holds by then, and maybe again by another sweep that had read the  *)
(* same.                                                                   *)
(***************************************************************************)
SweepFinds(j) ==
  /\ j \notin condemned
  /\ Stale(hash[j], j \in aged)
  /\ condemned' = condemned \union {j}
  /\ UNCHANGED <<hash, aged, apiVars, queue, runVars, products, dlqVars, outcome,
                 crashes>>

SweepMarks(j) ==
  /\ j \in condemned
  /\ condemned' \in {condemned, condemned \ {j}}
  /\ hash' = [hash EXCEPT ![j] = MarkStale(@)]
  /\ UNCHANGED <<aged, apiVars, queue, runVars, products, dlqVars, outcome, crashes>>

(***************************************************************************)
(* Thirty minutes pass since started_at.  wait_for starts its own thirty   *)
(* minutes before started_at is written, so no attempt that wrote it is    *)
(* still inside the pipeline.                                              *)
(***************************************************************************)
Ages(j) ==
  /\ hash[j].started
  /\ j \notin aged
  /\ \A r \in Runners : job[r] = j => pc[r] \notin Started
  /\ aged' = aged \union {j}
  /\ UNCHANGED <<hash, condemned, apiVars, queue, runVars, products, dlqVars,
                 outcome, crashes>>

-----------------------------------------------------------------------------
RunPipeline(r) ==
  \/ Begin(r) \/ RecordStart(r)
  \/ PlatformDetected(r) \/ NoUrls(r) \/ UrlsDiscovered(r)
  \/ ExtractionInvalid(r) \/ ProductsExtracted(r) \/ Verified(r)
  \/ FeedRejected(r) \/ FeedParsed(r)
  \/ NormalizeBatch(r) \/ IngestBatch(r)
  \/ Complete(r) \/ RecordCompletion(r)
  \/ PipelineFails(r) \/ TimesOut(r)
  \/ RecordFailure(r) \/ FailureNotRecorded(r)

RunTask(w) ==
  \/ Connect(w) \/ ConnectFails(w)
  \/ RunPipeline(w)
  \/ Retry(w) \/ ParkFails(w)
  \/ \E e \in EntryIds : Park(w, e)
  \/ CleanupFails(w)
  \/ Acknowledge(w)

RunDirect(d) == RunPipeline(d) \/ SkipIngest(d) \/ DirectEnds(d)

Post(j) ==
  \/ \E kind \in {"shop", "feed"} : CreateJob(j, kind)
  \/ CreationFails(j)
  \/ DispatchToCelery(j)
  \/ \E d \in DirectRunners : RunDirectly(j, d)

Replay(p) ==
  \/ \E e \in EntryIds : ReplayRead(p, e)
  \/ ReplayDispatch(p)
  \/ ReplayDropped(p)

Next ==
  \/ \E j \in ApiJobs : Post(j)
  \/ \E j \in Jobs : SweepFinds(j) \/ SweepMarks(j) \/ Ages(j)
  \/ \E w \in Workers : Receive(w) \/ RunTask(w) \/ WorkerLost(w)
  \/ \E d \in DirectRunners : RunDirect(d)
  \/ \E p \in Replayers : Replay(p)
  \/ ApiLost

Spec == Init /\ [][Next]_vars

(***************************************************************************)
(* Fairness.  A worker that is not lost goes on: wait_for bounds the       *)
(* pipeline, and what is outside it is bounded by the timeouts of its      *)
(* clients.  An idle worker takes a message when there is one.  Time       *)
(* passes.  The dashboard lists the jobs every ten seconds, which sweeps.  *)
(***************************************************************************)
WorkerFairness ==
  \A w \in Workers : WF_vars(RunTask(w)) /\ WF_vars(Receive(w))

SweepFairness ==
  /\ \A j \in Jobs : WF_vars(SweepFinds(j)) /\ WF_vars(SweepMarks(j)) /\ WF_vars(Ages(j))
  /\ \A d \in DirectRunners : WF_vars(RunDirect(d))

FairSpec == Spec /\ WorkerFairness /\ SweepFairness

-----------------------------------------------------------------------------
(***************************************************************************)
(* Properties.                                                             *)
(***************************************************************************)

\* No job the broker took over is forgotten: it is queued, or a worker holds it, or a
\* delivery of it was acknowledged.  One whose retries are spent has a DLQ entry, unless
\* the write failed, and the entry is listed, dispatched again, or was dropped by a retry
\* request.  Early acknowledgement, or a retry published after it, would break this when a
\* worker is lost.
Queued(j) == \E k \in 0 .. MaxRetries : queue[Message(j, k)] > 0

Held(j) == \E w \in Workers : job[w] = j

Parked(j) == j \in unparked \/ \E e \in EntryIds : origin[e] = j

NoJobForgotten ==
  \A j \in Jobs :
    /\ api[j] = "celery" => Queued(j) \/ Held(j) \/ outcome[j] # {}
    /\ "exhausted" \in outcome[j] => Parked(j)
    /\ j \in EntryIds /\ origin[j] # None => j \in dlq \/ api[j] = "celery" \/ j \in lost

\* COMPLETED is shown only for a job with every batch in the products table, whatever
\* attempts failed, timed out or were cut off in the middle of ingesting before.
CompletedMeansStored ==
  \A j \in Jobs :
    hash[j].status = "completed" /\ api[j] = "celery" => products[j] = Batches

\* While no process is lost, a job the API created runs in one place at a time, and is not
\* waiting in the broker as well: the retry, the fallback to direct execution and the
\* acknowledgement never leave two copies of it to run.
Running(r, j) == job[r] = j /\ pc[r] \notin Ended

SingleDelivery ==
  crashes = 0 =>
    \A j \in ApiJobs :
      \A r \in Runners : Running(r, j) =>
        /\ ~Queued(j)
        /\ \A s \in Runners : Running(s, j) => s = r

\* A job of the API that was acknowledged for good is not put back to work: only a lost
\* process leaves a second delivery of it behind.  (The replay of a DLQ entry is exempt:
\* two requests that have both read the entry dispatch it twice.)
SettledIsNotRestarted ==
  [][\A j \in ApiJobs :
       /\ outcome[j] # {}
       /\ hash'[j].status \in ActiveStatuses
       /\ hash'[j] # hash[j]
       => crashes > 0]_vars

\* The queue keeps the contract of JobDelivery for the jobs it took over.
Taken == {j \in Jobs : api[j] = "celery"}

Delivered == [j \in Jobs |-> IF j \in Taken THEN products[j] ELSE {}]

Contract ==
  INSTANCE JobDelivery WITH
    accepted <- Taken,
    verdict <- outcome,
    stored <- Delivered

DeliveryContract == Contract!Safety

\* Retries, timeouts and lost workers notwithstanding, every job the broker took over is
\* acknowledged for good.
JobsSettle == Contract!EventuallySettled

\* No job is shown at work for ever: what no pipeline ends, the sweep ends.
NoJobStuckActive == <>[](\A j \in Jobs : hash[j].status \notin ActiveStatuses)

-----------------------------------------------------------------------------
(***************************************************************************)
(* What the repository says of the program and the program does not do.    *)
(***************************************************************************)

\* list_all_jobs marks "stale jobs (stuck in non-terminal states for longer than 30
\* minutes)".  It finds a job that was posted a moment ago as well.
SweepOnlyOverdue == [][condemned' \ condemned \subseteq aged]_vars
=============================================================================
