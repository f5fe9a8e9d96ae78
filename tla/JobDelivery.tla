----------------------------- MODULE JobDelivery -----------------------------
(***************************************************************************)
(* What the job queue promises to whoever posted a job, with no worker,    *)
(* message, retry or crash in sight.  An accepted job gets a verdict: it   *)
(* completed, it wants a manual review, or its retries were exhausted.  A  *)
(* verdict is never taken back, though a second delivery of the job can    *)
(* add another one.  A completed job has all its batches in the products   *)
(* table, and a batch that was stored stays stored.                        *)
(***************************************************************************)
CONSTANTS Jobs, Batches

VARIABLES
  accepted,   \* jobs the queue has taken over
  verdict,    \* the verdicts each job was given
  stored      \* batches of each job in the products table

vars == <<accepted, verdict, stored>>

Verdicts == {"completed", "reviewed", "exhausted"}

Init ==
  /\ accepted = {}
  /\ verdict = [j \in Jobs |-> {}]
  /\ stored = [j \in Jobs |-> {}]

Take(j) ==
  /\ accepted' = accepted \union {j}
  /\ UNCHANGED <<verdict, stored>>

Store(j, b) ==
  /\ stored' = [stored EXCEPT ![j] = @ \union {b}]
  /\ UNCHANGED <<accepted, verdict>>

Settle(j, v) ==
  /\ j \in accepted
  /\ v = "completed" => stored[j] = Batches
  /\ verdict' = [verdict EXCEPT ![j] = @ \union {v}]
  /\ UNCHANGED <<accepted, stored>>

Next ==
  \E j \in Jobs :
    \/ Take(j)
    \/ \E b \in Batches : Store(j, b)
    \/ \E v \in Verdicts : Settle(j, v)

Safety == Init /\ [][Next]_vars

\* Every accepted job is settled in the end.
EventuallySettled == \A j \in Jobs : (j \in accepted) ~> (verdict[j] # {})
=============================================================================
