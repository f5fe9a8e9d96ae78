--------------------------- MODULE ProgressTracker ---------------------------
(***************************************************************************)
(* The Redis hash progress:<job_id> that app/infra/progress_tracker.py     *)
(* keeps for a job, as a record, and the writes the tracker makes to it.   *)
(*                                                                         *)
(* Every write is an HSET of some fields: it merges into the hash that is  *)
(* there and creates the key when there is none.  Nothing but delete()     *)
(* ever removes a field.  The record keeps the fields that decide          *)
(* something: the status, and whether error, started_at and completed_at   *)
(* are present.  The counters and the current_step text are left out.      *)
(***************************************************************************)

\* The statuses the pipeline writes while it works on a job.
ActiveStatuses ==
  {"queued", "detecting", "discovering", "extracting", "verifying", "normalizing"}

\* JobStatus, without the legacy INGESTING that nothing writes any more.
JobStatuses == ActiveStatuses \union {"completed", "needs_review", "failed"}

\* What list_all_jobs takes for finished: needs_review is not among them.
TerminalStates == {"completed", "failed"}

\* "none" is the status of a key that does not exist.
Hashes ==
  [status : JobStatuses \union {"none"}, error : BOOLEAN,
   started : BOOLEAN, completed : BOOLEAN]

NoHash == [status |-> "none", error |-> FALSE, started |-> FALSE, completed |-> FALSE]

(***************************************************************************)
(* The writes.  update() sets the error field only when it is given one,   *)
(* so an error once recorded stays in the hash.                            *)
(***************************************************************************)
Update(h, status) == [h EXCEPT !.status = status]

UpdateWithError(h, status) == [h EXCEPT !.status = status, !.error = TRUE]

SetStartedAt(h) == [h EXCEPT !.started = TRUE]

SetCompletedAt(h) == [h EXCEPT !.completed = TRUE]

MarkStale(h) == [h EXCEPT !.status = "failed", !.error = TRUE, !.completed = TRUE]

(***************************************************************************)
(* The verdict of list_all_jobs on one hash it read; old says that more    *)
(* than _STALE_TIMEOUT_SECONDS have passed since its started_at.           *)
(***************************************************************************)
Stale_Bug(h, old) ==
  /\ h # NoHash
  /\ h.status \notin TerminalStates
  /\ h.started /\ old

Stale(h, old) ==
  /\ h # NoHash
  /\ h.status \notin TerminalStates
  /\ ~h.started \/ old
=============================================================================
