-------------------------- MODULE ProductExtraction --------------------------
(***************************************************************************)
(* The EXTRACTING phase of one job (app/services/pipeline.py): the tiers   *)
(* that are tried in order, the calls they make through the job's circuit  *)
(* breaker, and the record of every URL in the ExtractionTracker.          *)
(*                                                                         *)
(* The platform's admin API and its public API are asked for the whole     *)
(* shop first.  Then each crawling tier is probed with the first URL; the  *)
(* first one that returns acceptable products is committed to, and run     *)
(* over all URLs in batches.  A URL is its position in the list, also when *)
(* the list holds the URL of the shop.                                     *)
(*                                                                         *)
(* All of it is one coroutine.  The four crawling extractors override      *)
(* extract_batch() and make results of their exceptions, so the way of     *)
(* _extract_per_url_tracked() is never taken, no crawl is booked as a      *)
(* failure, and only an API can fail a call of the circuit.                *)
(***************************************************************************)
EXTENDS Naturals, Sequences, FiniteSets

CONSTANTS
  NUrls,          \* discovered URLs
  ShopUrl,        \* the URL of the shop, under which the APIs are recorded
  BatchSize,      \* _EXTRACTION_CONCURRENCY
  Threshold       \* failures that open the circuit

Urls == 1 .. NUrls

ASSUME ExtractionAssumption ==
  /\ NUrls \in Nat \ {0}
  /\ ShopUrl \notin Urls
  /\ BatchSize \in Nat \ {0}
  /\ Threshold \in Nat \ {0}

VARIABLES
  state, failures, cooled, inside,   \* the circuit
  plan,      \* the tiers still to be tried, the present one first
  stage,     \* where the phase stands
  first,     \* the first URL of the present batch
  records,   \* what the tracker recorded for each URL, in order
  answer     \* history: what the crawl of each URL came to

circuit == <<state, failures, cooled, inside>>
crawl == <<first, answer>>
vars == <<circuit, plan, stage, first, records, answer>>

Breaker == INSTANCE CircuitBreaker WITH Callers <- {ShopUrl}

Outcomes == {"success", "empty", "not_product", "error"}

Apis == {"admin", "public"}

\* An OAuth connection brings the admin API in, the platform its public one, and a
\* configured LLM the tiers 4 and 5.
Plans ==
  {apis \o <<"unified">> \o models \o <<"css">> :
     apis \in {<<>>, <<"admin">>, <<"public">>, <<"admin", "public">>},
     models \in {<<>>, <<"smart_css", "llm">>}}

Init ==
  /\ Breaker!Init
  /\ plan \in Plans
  /\ stage = "asking"
  /\ first = 1
  /\ records = [u \in Urls \union {ShopUrl} |-> <<>>]
  /\ answer = [u \in Urls |-> "none"]

Tier == Head(plan)

Recorded(u, outcome) == [records EXCEPT ![u] = Append(@, outcome)]

-----------------------------------------------------------------------------
(***************************************************************************)
(* Asking an API, or probing a crawling tier with the first URL: one call  *)
(* at a time, through the breaker.                                         *)
(***************************************************************************)
Asks ==
  /\ stage = "asking"
  /\ Tier # "css"
  /\ inside[ShopUrl] = "no"

Ask ==
  /\ Asks
  /\ Breaker!Call(ShopUrl)
  /\ UNCHANGED <<plan, stage, records, crawl>>

NothingFrom_Bug ==
  /\ plan' = IF Tier \in Apis THEN Tail(plan) ELSE plan
  /\ records' = IF Tier \in Apis THEN Recorded(ShopUrl, "empty") ELSE records
  /\ UNCHANGED <<stage, crawl>>

\* Nothing, or not enough: an API is recorded as an empty URL, a probe is not recorded.
NothingFrom ==
  /\ plan' = Tail(plan)
  /\ records' = IF Tier \in Apis THEN Recorded(ShopUrl, "empty") ELSE records
  /\ UNCHANGED <<stage, crawl>>

\* An open circuit turns the call away, which is taken for an empty answer.
AskRefused ==
  /\ Asks
  /\ Breaker!Rejects
  /\ UNCHANGED circuit
  /\ NothingFrom

Answered ==
  /\ stage = "asking"
  /\ Breaker!Succeed(ShopUrl)

FoundNothing == Answered /\ NothingFrom

\* Products of an API are recorded, and then shown in the progress of the job.
ApiAnswers ==
  /\ Answered
  /\ Tier \in Apis
  /\ stage' = "showing"
  /\ records' = Recorded(ShopUrl, "success")
  /\ UNCHANGED <<plan, crawl>>

ApiReturns ==
  /\ stage = "showing"
  /\ stage' = "returned"
  /\ UNCHANGED <<circuit, plan, records, crawl>>

\* The batches go to one tier, the others are not looked at again; or the tier cannot be
\* written to the progress of the job.
Commit ==
  /\ stage' \in {"next", "aborted"}
  /\ plan' = <<>>

\* _probe_acceptable: the tier is committed to.
ProbeAccepted ==
  /\ Answered
  /\ Tier \notin Apis
  /\ Commit
  /\ UNCHANGED <<records, crawl>>

\* The hardcoded CSS schema is not probed.
FallBackToCss ==
  /\ stage = "asking"
  /\ Tier = "css"
  /\ Commit
  /\ UNCHANGED <<circuit, records, crawl>>

\* An exception about the admin API falls back to the next tier, any other ends the phase,
\* and so does one about the admin API whose reason cannot be written.
FallsBack ==
  /\ Tier = "admin"
  /\ plan' = Tail(plan)
  /\ stage' = "asking"

Aborts ==
  /\ stage' = "aborted"
  /\ UNCHANGED plan

\* An API raises: nothing is recorded.
ApiRaises ==
  /\ stage = "asking"
  /\ Tier \in Apis
  /\ Breaker!Fail(ShopUrl)
  /\ FallsBack \/ Aborts
  /\ UNCHANGED <<records, crawl>>

\* The progress cannot be written before a tier is asked, or after an API has answered: an
\* admin API is given up then in spite of its record.
AskUnwritten ==
  /\ stage \in {"asking", "showing"}
  /\ inside[ShopUrl] = "no"
  /\ FallsBack \/ Aborts
  /\ UNCHANGED <<circuit, records, crawl>>

-----------------------------------------------------------------------------
(***************************************************************************)
(* Batches: one extract_batch() call for the whole batch.  A URL is a      *)
(* success when some product of the batch names it as its product_url.     *)
(***************************************************************************)
Batch_Bug == {u \in Urls : first <= u /\ u + 1 < first + BatchSize}

Batch == {u \in Urls : first <= u /\ u < first + BatchSize}

\* The pipeline drops the error a result may carry, so to the breaker and to the tracker
\* a failed extraction is one that found nothing.
Found == {"products", "nothing", "failed"}

StartsBatch ==
  /\ stage = "next"
  /\ Batch # {}

CrawlBatch ==
  /\ StartsBatch
  /\ Breaker!Call(ShopUrl)
  /\ stage' = "crawling"
  /\ UNCHANGED <<plan, records, crawl>>

\* CircuitOpenError breaks the loop.
BatchRefused ==
  /\ StartsBatch
  /\ Breaker!Rejects
  /\ stage' = "audit"
  /\ UNCHANGED <<circuit, plan, records, crawl>>

BatchRecorded_Bug(Named) ==
  [u \in DOMAIN records |->
     IF u \in Batch /\ u \in Named THEN Append(records[u], "success") ELSE records[u]]

BatchRecorded(Named) ==
  [u \in DOMAIN records |->
     IF u \in Batch
     THEN Append(records[u], IF u \in Named THEN "success" ELSE "empty")
     ELSE records[u]]

\* A product whose URL is no string cannot be put among the URLs seen: the exception is
\* caught outside the circuit, and the whole batch is recorded as failed.
BatchUnread ==
  [u \in DOMAIN records |->
     IF u \in Batch THEN Append(records[u], "error") ELSE records[u]]

BatchCrawled ==
  /\ stage = "crawling"
  /\ Breaker!Succeed(ShopUrl)
  /\ \E found \in [Batch -> Found] :
       LET sold == \E u \in Batch : found[u] = "products"
       IN  /\ \/ \E Named \in SUBSET Batch :
                   /\ Named # {} => sold
                   /\ records' = BatchRecorded(Named)
              \/ sold /\ records' = BatchUnread
           /\ answer' = [u \in Urls |-> IF u \in Batch THEN found[u] ELSE answer[u]]
  /\ stage' = "report"
  /\ UNCHANGED <<plan, first>>

-----------------------------------------------------------------------------
(***************************************************************************)
(* After a batch the progress is written, after the last one the tracker   *)
(* is audited.                                                             *)
(***************************************************************************)
Report ==
  /\ stage = "report"
  /\ stage' = "next"
  /\ first' = first + BatchSize
  /\ UNCHANGED <<circuit, plan, records, answer>>

ReportFails ==
  /\ stage = "report"
  /\ Aborts
  /\ UNCHANGED <<circuit, records, crawl>>

Entries == UNION {{<<u, i>> : i \in DOMAIN records[u]} : u \in DOMAIN records}

CountOf(outcomes) == Cardinality({e \in Entries : records[e[1]][e[2]] \in outcomes})

Catastrophic_Bug ==
  LET attempted == CountOf(Outcomes)
  IN  attempted > 3 /\ 10 * CountOf({"error"}) > 8 * attempted

\* More than 70% of more than 3 attempts.
Catastrophic ==
  LET attempted == CountOf(Outcomes)
  IN  attempted > 3 /\ 10 * CountOf({"error"}) > 7 * attempted

Audit ==
  /\ stage = "audit" \/ (stage = "next" /\ Batch = {})
  /\ stage' = IF Catastrophic THEN "aborted" ELSE "returned"
  /\ UNCHANGED <<circuit, plan, records, crawl>>

Cool ==
  /\ stage \notin {"returned", "aborted"}
  /\ Breaker!Cool
  /\ UNCHANGED <<plan, stage, records, crawl>>

-----------------------------------------------------------------------------
AskTier ==
  \/ Ask \/ AskRefused \/ ApiRaises \/ AskUnwritten
  \/ FoundNothing \/ ApiAnswers \/ ApiReturns
  \/ ProbeAccepted \/ FallBackToCss

RunBatch == CrawlBatch \/ BatchRefused \/ BatchCrawled

Step == AskTier \/ RunBatch \/ Report \/ ReportFails \/ Audit

Next == Step \/ Cool

Spec == Init /\ [][Next]_vars

\* Every await of the phase comes back: the crawler, the APIs and Redis have timeouts.
FairSpec == Spec /\ WF_vars(Step)

-----------------------------------------------------------------------------
(***************************************************************************)
(* Properties.                                                             *)
(***************************************************************************)

\* Between two batches exactly the URLs counted as processed have a record, and one each:
\* neither a batch whose products name only some of its URLs nor one that cannot be read
\* records a URL twice or skips one.
EachUrlOnce ==
  /\ \A u \in Urls : Len(records[u]) <= 1
  /\ stage = "next" => \A u \in Urls : u < first <=> records[u] # <<>>

\* A crawl that comes back has looked at every URL, unless the circuit broke it off: which
\* takes a circuit that opens at the first failure, the admin API's.  What the APIs, the
\* probes and the batches do between them never counts up to two failures.
CrawlIsWhole ==
  stage = "returned" /\ plan = <<>> /\ (\E u \in Urls : records[u] = <<>>) =>
    Threshold = 1 /\ state = "open"

\* A crawl of which no batch could be read does not return as if the shop were empty, even
\* when the APIs have put their records beside the errors.  (From five URLs on: with fewer,
\* two records of the APIs keep the error rate under its threshold.)
UnreadAborts ==
  NUrls > 4 /\ stage = "returned" => \E u \in Urls : records[u] # <<"error">>

\* The phase ends.
ExtractionEnds == <>(stage \in {"returned", "aborted"})

-----------------------------------------------------------------------------
(***************************************************************************)
(* What the repository says of the phase and the phase does not do.        *)
(***************************************************************************)

\* ExtractorResult "distinguishes zero products found from extraction failed": a URL whose
\* extraction failed is not one that was found empty.
FailureIsNotEmpty ==
  \A u \in Urls : records[u] = <<"empty">> => answer[u] # "failed"
=============================================================================
