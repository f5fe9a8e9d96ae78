----------------------- MODULE ProductExtractionProofs -----------------------
(***************************************************************************)
(* Theorems about ProductExtraction, for any number of URLs, batch size    *)
(* and threshold of the circuit.                                           *)
(***************************************************************************)
EXTENDS ProductExtraction, FiniteSetTheorems, TLAPS

(***************************************************************************)
(* EachUrlOnce.  Between two batches the URLs before the present batch     *)
(* have a record; after a batch its URLs have one as well.                 *)
(***************************************************************************)
Asking == stage \in {"asking", "showing"}

Recording ==
  /\ first \in Nat \ {0}
  /\ records \in [Urls \union {ShopUrl} -> Seq(Outcomes)]
  /\ \A u \in Urls : Len(records[u]) <= 1

\* Which URLs have a record.
RecordedSoFar ==
  /\ Asking \/ stage \in {"next", "crawling"} =>
       \A u \in Urls : u < first <=> records[u] # <<>>
  /\ Asking => first = 1
  /\ stage = "report" => \A u \in Urls : u < first + BatchSize <=> records[u] # <<>>
  /\ stage = "audit" => \E u \in Urls : records[u] = <<>>

RecordInv == Recording /\ RecordedSoFar

LEMMA RecordAtFirst == Init => RecordInv
<1> SUFFICES ASSUME Init PROVE RecordInv
  OBVIOUS
<1>1. /\ first = 1 /\ stage = "asking"
      /\ records = [u \in Urls \union {ShopUrl} |-> <<>>]
  BY DEF Init
<1>2. \A u \in Urls : records[u] = <<>> /\ Len(records[u]) = 0 /\ ~(u < 1)
  BY <1>1 DEF Urls
<1>3. records \in [Urls \union {ShopUrl} -> Seq(Outcomes)]
  BY <1>1
<1>4. Recording
  BY <1>1, <1>2, <1>3 DEF Recording
<1>5. RecordedSoFar
  BY <1>1, <1>2 DEF RecordedSoFar, Asking
<1> QED
  BY <1>4, <1>5 DEF RecordInv

\* A record that is the first of its URL.
LEMMA FirstRecord ==
  ASSUME NEW outcome \in Outcomes
  PROVE  /\ Append(<<>>, outcome) \in Seq(Outcomes)
         /\ Append(<<>>, outcome) # <<>> /\ Len(Append(<<>>, outcome)) <= 1
  OBVIOUS

\* What asking a tier does to the stage and the records.
LEMMA AskSteps ==
  ASSUME AskTier
  PROVE  /\ UNCHANGED <<first, answer>> /\ Asking
         /\ stage' \in {"asking", "showing", "next", "returned", "aborted"}
         /\ records' \in {records, Recorded(ShopUrl, "empty"), Recorded(ShopUrl, "success")}
<1>1. CASE Ask \/ AskRefused
  BY <1>1 DEF Ask, Asks, AskRefused, NothingFrom, crawl, Asking
<1>2. CASE ApiRaises \/ AskUnwritten
  BY <1>2 DEF ApiRaises, AskUnwritten, FallsBack, Aborts, crawl, Asking
<1>3. CASE FoundNothing \/ ApiAnswers \/ ApiReturns
  BY <1>3 DEF FoundNothing, NothingFrom, Answered, ApiAnswers, ApiReturns, crawl, Asking
<1>4. CASE ProbeAccepted \/ FallBackToCss
  BY <1>4 DEF ProbeAccepted, Answered, FallBackToCss, Commit, crawl, Asking
<1> QED
  BY <1>1, <1>2, <1>3, <1>4 DEF AskTier

\* A record of the shop's own URL is one more, and touches no other.
LEMMA ShopRecorded ==
  ASSUME Recording, NEW o \in Outcomes, records' = Recorded(ShopUrl, o)
  PROVE  /\ records' \in [Urls \union {ShopUrl} -> Seq(Outcomes)]
         /\ \A u \in Urls : records'[u] = records[u]
         /\ records'[ShopUrl] = Append(records[ShopUrl], o)
  BY ExtractionAssumption DEF Recorded, Recording

LEMMA AskKeeps == RecordInv /\ AskTier => RecordInv'
<1> SUFFICES ASSUME RecordInv, AskTier PROVE RecordInv'
  OBVIOUS
<1>1. /\ UNCHANGED first /\ Asking
      /\ stage' \in {"asking", "showing", "next", "returned", "aborted"}
  BY AskSteps
<1>2. /\ records' \in [Urls \union {ShopUrl} -> Seq(Outcomes)]
      /\ \A u \in Urls : records'[u] = records[u]
  <2>1. \A o \in Outcomes : records' = Recorded(ShopUrl, o) => <1>2!1 /\ <1>2!2
    BY ShopRecorded DEF RecordInv
  <2> QED
    BY <2>1, AskSteps DEF Outcomes, RecordInv, Recording
<1>3. Recording'
  BY <1>1, <1>2 DEF RecordInv, Recording
<1>4. RecordedSoFar'
  BY <1>1, <1>2 DEF RecordInv, RecordedSoFar, Asking
<1> QED
  BY <1>3, <1>4 DEF RecordInv

\* A whole batch is recorded at once.
LEMMA BatchKeeps ==
  ASSUME RecordInv, stage = "crawling", stage' = "report", UNCHANGED first,
         NEW outcome \in [Batch -> Outcomes],
         records' = [u \in DOMAIN records |->
                       IF u \in Batch THEN Append(records[u], outcome[u]) ELSE records[u]]
  PROVE  RecordInv' /\ UNCHANGED records[ShopUrl]
<1> USE DEF RecordInv
<1>1. \A u \in Batch : u \in Urls /\ records[u] = <<>>
  BY DEF RecordedSoFar, Recording, Batch, Urls
<1>2. \A u \in Batch : /\ records'[u] \in Seq(Outcomes) /\ records'[u] # <<>>
                       /\ Len(records'[u]) <= 1
  BY <1>1, FirstRecord DEF Recording
<1>3. \A u \in (Urls \union {ShopUrl}) \ Batch : records'[u] = records[u]
  BY DEF Recording
<1>4. records' \in [Urls \union {ShopUrl} -> Seq(Outcomes)]
  BY <1>2, <1>3 DEF Recording
<1>5. Recording'
  <2>1. \A u \in Urls : Len(records'[u]) <= 1
    <3> SUFFICES ASSUME NEW u \in Urls PROVE Len(records'[u]) <= 1
      OBVIOUS
    <3>1. CASE u \in Batch
      BY <1>2, <3>1, Zenon
    <3>2. CASE u \notin Batch
      BY <1>3, <3>2 DEF Recording
    <3> QED
      BY <3>1, <3>2
  <2> QED
    BY <1>4, <2>1 DEF Recording
<1>6. \A u \in Urls : u < first + BatchSize <=> u < first \/ u \in Batch
  BY ExtractionAssumption DEF Recording, Batch, Urls
<1>7. RecordedSoFar'
  BY <1>2, <1>3, <1>6 DEF RecordedSoFar, Asking
<1>8. UNCHANGED records[ShopUrl]
  BY <1>1, <1>3, ExtractionAssumption
<1> QED
  BY <1>5, <1>7, <1>8

\* A crawled batch is recorded, read or not.
LEMMA CrawledKeeps ==
  ASSUME RecordInv, BatchCrawled
  PROVE  RecordInv' /\ UNCHANGED records[ShopUrl]
<1>1. stage = "crawling" /\ stage' = "report" /\ UNCHANGED first
  BY DEF BatchCrawled
<1>2. (\E Named \in SUBSET Batch : records' = BatchRecorded(Named)) \/ records' = BatchUnread
  BY DEF BatchCrawled
<1>3. ASSUME NEW Named \in SUBSET Batch, records' = BatchRecorded(Named)
      PROVE  RecordInv' /\ UNCHANGED records[ShopUrl]
  <2> DEFINE outcome == [u \in Batch |-> IF u \in Named THEN "success" ELSE "empty"]
  <2>1. outcome \in [Batch -> Outcomes]
    BY DEF Outcomes
  <2>2. records' = [u \in DOMAIN records |->
                      IF u \in Batch THEN Append(records[u], outcome[u]) ELSE records[u]]
    BY <1>3 DEF BatchRecorded
  <2> HIDE DEF outcome
  <2> QED
    BY <1>1, <2>1, <2>2, BatchKeeps
<1>4. CASE records' = BatchUnread
  <2> DEFINE outcome == [u \in Batch |-> "error"]
  <2>1. outcome \in [Batch -> Outcomes]
    BY DEF Outcomes
  <2>2. records' = [u \in DOMAIN records |->
                      IF u \in Batch THEN Append(records[u], outcome[u]) ELSE records[u]]
    BY <1>4 DEF BatchUnread
  <2> HIDE DEF outcome
  <2> QED
    BY <1>1, <2>1, <2>2, BatchKeeps
<1> QED
  BY <1>2, <1>3, <1>4

LEMMA RecordStep == RecordInv /\ [Next]_vars => RecordInv'
<1> SUFFICES ASSUME RecordInv, [Next]_vars PROVE RecordInv'
  OBVIOUS
<1> USE DEF crawl
<1>1. CASE CrawlBatch \/ ReportFails \/ Audit
  <2>1. /\ stage \in {"next", "report", "audit"} /\ stage' \in {"crawling", "aborted", "returned"}
        /\ stage' = "crawling" => stage = "next"
        /\ UNCHANGED <<first, records>>
    BY <1>1 DEF CrawlBatch, StartsBatch, ReportFails, Aborts, Audit
  <2>2. Recording'
    BY <2>1 DEF RecordInv, Recording
  <2>3. RecordedSoFar'
    BY <2>1 DEF RecordInv, RecordedSoFar, Asking
  <2> QED
    BY <2>2, <2>3 DEF RecordInv
<1>2. CASE BatchRefused
  <2>1. stage = "next" /\ stage' = "audit" /\ UNCHANGED <<first, records>> /\ Batch # {}
    BY <1>2 DEF BatchRefused, StartsBatch
  <2>2. \E u \in Urls : ~(u < first)
    BY <2>1 DEF Batch, Urls, RecordInv, Recording
  <2>3. \E u \in Urls : records[u] = <<>>
    BY <2>1, <2>2 DEF RecordInv, RecordedSoFar
  <2>4. Recording'
    BY <2>1 DEF RecordInv, Recording
  <2>5. RecordedSoFar'
    BY <2>1, <2>3 DEF RecordedSoFar, Asking
  <2> QED
    BY <2>4, <2>5 DEF RecordInv
<1>3. CASE Report
  <2>1. /\ stage = "report" /\ stage' = "next" /\ UNCHANGED records
        /\ first' = first + BatchSize
    BY <1>3 DEF Report
  <2>2. first' \in Nat \ {0}
    BY <2>1, ExtractionAssumption DEF RecordInv, Recording
  <2>3. Recording'
    BY <2>1, <2>2 DEF RecordInv, Recording
  <2>4. RecordedSoFar'
    BY <2>1 DEF RecordInv, RecordedSoFar, Asking
  <2> QED
    BY <2>3, <2>4 DEF RecordInv
<1>4. CASE Cool \/ UNCHANGED vars
  <2>1. UNCHANGED <<stage, first, records>>
    BY <1>4 DEF Cool, vars
  <2> QED
    BY <2>1 DEF RecordInv, Recording, RecordedSoFar, Asking
<1> QED
  BY <1>1, <1>2, <1>3, <1>4, AskKeeps, CrawledKeeps DEF Next, Step, RunBatch

\* Whatever the batches come to, no URL is recorded twice, and between two batches none is
\* left out.
THEOREM UrlsRecordedOnce == Spec => []EachUrlOnce
<1>1. RecordInv => EachUrlOnce
  BY DEF RecordInv, Recording, RecordedSoFar, EachUrlOnce
<1> QED
  BY <1>1, RecordAtFirst, RecordStep, PTL DEF Spec

-----------------------------------------------------------------------------
(***************************************************************************)
(* The error rate of a crawl in which nothing but the records of the APIs  *)
(* stands beside the errors.                                               *)
(***************************************************************************)
\* There are k numbers up to k.
LEMMA CountUpTo ==
  ASSUME NEW k \in Nat
  PROVE  IsFiniteSet(1 .. k) /\ Cardinality(1 .. k) = k
<1>1. IsFiniteSet(1 .. k) /\ Cardinality(1 .. k) = IF 1 > k THEN 0 ELSE k - 1 + 1
  BY FS_Interval
<1> QED
  BY <1>1

\* Three times the errors outweigh seven times the other records: that is the 70% rate.
LEMMA ErrorsOutweigh ==
  ASSUME records \in [Urls \union {ShopUrl} -> Seq(Outcomes)],
         \A u \in Urls : records[u] \in {<<>>, <<"error">>},
         \A i \in DOMAIN records[ShopUrl] : records[ShopUrl][i] # "error",
         NEW k \in 1 .. NUrls, \A u \in 1 .. k : records[u] = <<"error">>,
         k > 3, 3 * k > 7 * Len(records[ShopUrl])
  PROVE  Catastrophic
<1> DEFINE n == Len(records[ShopUrl])
           Errors == {e \in Entries : records[e[1]][e[2]] \in {"error"}}
           All == {e \in Entries : records[e[1]][e[2]] \in Outcomes}
           Others == {<<ShopUrl, i>> : i \in 1 .. n}
           Firsts == {<<u, 1>> : u \in Urls}
<1>1. n \in Nat /\ DOMAIN records = Urls \union {ShopUrl} /\ DOMAIN records[ShopUrl] = 1 .. n
  BY DEF Outcomes
<1>2. \A u \in Urls : /\ DOMAIN records[u] \subseteq {1}
                      /\ \A i \in DOMAIN records[u] : records[u][i] = "error"
  OBVIOUS
<1>3. \A e \in Entries : \/ e \in Others /\ records[e[1]][e[2]] # "error"
                         \/ e \in Firsts /\ records[e[1]][e[2]] = "error"
  <2> SUFFICES ASSUME NEW u \in Urls \union {ShopUrl}, NEW i \in DOMAIN records[u]
               PROVE  \/ <<u, i>> \in Others /\ records[u][i] # "error"
                      \/ <<u, i>> \in Firsts /\ records[u][i] = "error"
    BY <1>1 DEF Entries
  <2>1. CASE u \in Urls
    BY <1>2, <2>1
  <2>2. CASE u = ShopUrl
    BY <1>1, <2>2
  <2> QED
    BY <2>1, <2>2
<1>4. Errors \subseteq Firsts /\ Errors \subseteq All /\ All \subseteq Errors \union Others
  BY <1>3 DEF Outcomes
<1>5. IsFiniteSet(Firsts)
  <2> DEFINE f == [u \in Urls |-> <<u, 1>>]
  <2>1. f \in Surjection(Urls, Firsts)
    BY DEF Surjection
  <2>2. IsFiniteSet(Urls)
    BY FS_Interval, ExtractionAssumption DEF Urls
  <2> HIDE DEF f, Firsts
  <2> QED
    BY <2>1, <2>2, FS_Surjection
<1>6. IsFiniteSet(Others) /\ Cardinality(Others) <= n
  <2> DEFINE f == [i \in 1 .. n |-> <<ShopUrl, i>>]
  <2>1. f \in Surjection(1 .. n, Others)
    BY DEF Surjection
  <2>2. IsFiniteSet(1 .. n) /\ Cardinality(1 .. n) = n
    BY <1>1, CountUpTo
  <2> HIDE DEF f, Others, n
  <2>3. IsFiniteSet(Others) /\ Cardinality(Others) <= Cardinality(1 .. n)
    BY <2>1, <2>2, FS_Surjection
  <2> QED
    BY <2>2, <2>3
<1>7. IsFiniteSet(Errors)
  BY <1>4, <1>5, FS_Subset
<1>8. Cardinality(Errors) >= k
  <2> DEFINE f == [u \in 1 .. k |-> <<u, 1>>]
  <2>1. \A u \in 1 .. k : <<u, 1>> \in Errors
    <3> SUFFICES ASSUME NEW u \in 1 .. k PROVE <<u, 1>> \in Errors
      OBVIOUS
    <3>1. u \in DOMAIN records /\ records[u] = <<"error">> /\ 1 \in DOMAIN records[u]
      BY <1>1, ExtractionAssumption DEF Urls
    <3>2. <<u, 1>> \in Entries
      BY <3>1 DEF Entries
    <3> QED
      BY <3>1, <3>2
  <2>2. IsFiniteSet(1 .. k) /\ Cardinality(1 .. k) = k
    BY CountUpTo, ExtractionAssumption
  <2> HIDE DEF Errors
  <2>3. f \in Injection(1 .. k, Errors)
    BY <2>1 DEF Injection, IsInjective
  <2> HIDE DEF f
  <2>4. Cardinality(1 .. k) <= Cardinality(Errors)
    BY <2>3, <1>7, FS_Injection
  <2> QED
    BY <2>2, <2>4, <1>7, FS_CardinalityType, ExtractionAssumption
<1>9. /\ IsFiniteSet(All) /\ Cardinality(Errors) <= Cardinality(All)
      /\ Cardinality(All) <= Cardinality(Errors) + n
  <2> DEFINE Both == Errors \union Others
  <2> HIDE DEF Errors, Others, All, n, Both
  <2>1. /\ IsFiniteSet(Both)
        /\ Cardinality(Both) = Cardinality(Errors) + Cardinality(Others) - Cardinality(Errors \cap Others)
    BY <1>6, <1>7, FS_Union DEF Both
  <2>2. IsFiniteSet(Errors \cap Others)
    BY <1>7, FS_Subset
  <2>3. All \in SUBSET Both
    BY <1>4 DEF Both
  <2>4. IsFiniteSet(All) /\ Cardinality(All) <= Cardinality(Both)
    BY <2>1, <2>3, FS_Subset
  <2>5. Cardinality(Errors) <= Cardinality(All)
    BY <1>4, <2>4, FS_Subset
  <2>6. /\ Cardinality(Errors) \in Nat /\ Cardinality(Others) \in Nat /\ Cardinality(All) \in Nat
        /\ Cardinality(Errors \cap Others) \in Nat
    BY <1>6, <1>7, <2>2, <2>4, FS_CardinalityType
  <2> QED
    BY <1>1, <1>6, <2>1, <2>4, <2>5, <2>6
<1>10. CountOf({"error"}) = Cardinality(Errors) /\ CountOf(Outcomes) = Cardinality(All)
  BY DEF CountOf
<1>11. Cardinality(Errors) \in Nat /\ Cardinality(All) \in Nat
  BY <1>7, <1>9, FS_CardinalityType
<1> HIDE DEF Errors, All, n
<1>12. 10 * Cardinality(Errors) > 7 * Cardinality(All)
  <2>1. 3 * Cardinality(Errors) > 7 * n
    BY <1>1, <1>8, <1>11 DEF n
  <2> QED
    BY <1>1, <1>9, <1>11, <2>1
<1>13. Cardinality(All) > 3
  BY <1>8, <1>9, <1>11
<1> QED
  BY <1>10, <1>12, <1>13 DEF Catastrophic

-----------------------------------------------------------------------------
(***************************************************************************)
(* CrawlIsWhole and UnreadAborts.  What the APIs left behind before the    *)
(* batches is bounded by the APIs that were in the plan: a record each,    *)
(* none of them an error, and one failure, the admin API's, for which      *)
(* there is no second chance.  So a circuit that refuses a batch opens at  *)
(* the first failure; and two records do not hide the errors of five URLs. *)
(***************************************************************************)
Under == stage \notin {"returned", "aborted"}

\* The circuit, as far as the batches go by it.
Counting ==
  /\ state \in {"closed", "open", "half_open"}
  /\ inside \in [{ShopUrl} -> {"no", "closed", "half_open"}]
  /\ failures \in Nat
  /\ state # "closed" => failures >= Threshold
  /\ Under => failures <= 1
  /\ stage = "audit" => state = "open"

Tiers == {"admin", "public", "unified", "smart_css", "llm", "css"}

\* A plan ends with the tier that is not probed, and only begins with the APIs.
Planned(p, apis) ==
  /\ p \in Seq(Tiers) /\ p # <<>> /\ p[Len(p)] = "css"
  /\ \A i \in DOMAIN p : p[i] \in Apis => i <= apis
  /\ \A i \in DOMAIN p : p[i] = "admin" => i = 1

\* What is left of the APIs, and behind them.
ApisBehind ==
  /\ Under =>
       /\ Len(records[ShopUrl]) <= 2
       /\ \A i \in DOMAIN records[ShopUrl] : records[ShopUrl][i] # "error"
  /\ Asking =>
       /\ Tier = "admin" => failures = 0
       /\ \E apis \in 0 .. 2 :
            /\ Planned(plan, apis)
            /\ Len(records[ShopUrl]) + apis <= IF stage = "showing" THEN 3 ELSE 2
  /\ stage = "asking" /\ Tier = "css" => inside[ShopUrl] = "no"
  /\ stage = "showing" => Tier \in Apis

PhaseInv == RecordInv /\ Counting /\ ApisBehind /\ CrawlIsWhole /\ UnreadAborts

\* Two parts of a plan: the one that may have APIs comes first.
LEMMA CrawlersAfter ==
  ASSUME NEW s \in Seq(Tiers), \A i \in DOMAIN s : s[i] \in Apis => i <= 2,
         \A i \in DOMAIN s : s[i] = "admin" => i = 1,
         NEW t \in Seq(Tiers), \A i \in DOMAIN t : t[i] \notin Apis
  PROVE  /\ s \o t \in Seq(Tiers)
         /\ \A i \in DOMAIN (s \o t) : (s \o t)[i] \in Apis => i <= 2
         /\ \A i \in DOMAIN (s \o t) : (s \o t)[i] = "admin" => i = 1
         /\ t # <<>> => s \o t # <<>> /\ (s \o t)[Len(s \o t)] = t[Len(t)]
<1>1. /\ s \o t \in Seq(Tiers) /\ Len(s \o t) = Len(s) + Len(t)
      /\ \A i \in 1 .. Len(s) + Len(t) : (s \o t)[i] = IF i <= Len(s) THEN s[i] ELSE t[i - Len(s)]
  OBVIOUS
<1>2. \A i \in 1 .. Len(s) + Len(t) : i > Len(s) => i - Len(s) \in DOMAIN t
  OBVIOUS
<1>3. \A i \in DOMAIN (s \o t) : (s \o t)[i] \in Apis => i <= 2
  BY <1>1, <1>2
<1>4. \A i \in DOMAIN (s \o t) : (s \o t)[i] = "admin" => i = 1
  <2>1. "admin" \in Apis
    BY DEF Apis
  <2> QED
    BY <1>1, <1>2, <2>1
<1>5. t # <<>> => s \o t # <<>> /\ (s \o t)[Len(s \o t)] = t[Len(t)]
  BY <1>1
<1> QED
  BY <1>1, <1>3, <1>4, <1>5

\* At most two APIs stand before the crawling tiers, the admin API before the public one.
LEMMA PlansPlanned == \A p \in Plans : Planned(p, 2)
<1> SUFFICES ASSUME NEW p \in Plans PROVE Planned(p, 2)
  OBVIOUS
<1>1. PICK apis \in {<<>>, <<"admin">>, <<"public">>, <<"admin", "public">>},
           models \in {<<>>, <<"smart_css", "llm">>} :
             p = apis \o <<"unified">> \o models \o <<"css">>
  BY DEF Plans
<1>2. /\ apis \in Seq(Tiers)
      /\ \A i \in DOMAIN apis : i <= 2 /\ (apis[i] = "admin" => i = 1)
  <2>1. /\ <<>> \in Seq(Tiers) /\ <<"admin">> \in Seq(Tiers) /\ <<"public">> \in Seq(Tiers)
        /\ <<"admin", "public">> \in Seq(Tiers)
    BY DEF Tiers
  <2>2. CASE apis = <<>>
    BY <2>1, <2>2
  <2>3. CASE apis = <<"admin">>
    BY <2>1, <2>3
  <2>4. CASE apis = <<"public">>
    BY <2>1, <2>4
  <2>5. CASE apis = <<"admin", "public">>
    BY <2>1, <2>5
  <2> QED
    BY <1>1, <2>2, <2>3, <2>4, <2>5
<1>3. models \in Seq(Tiers) /\ \A i \in DOMAIN models : models[i] \notin Apis
  <2>1. <<>> \in Seq(Tiers) /\ <<"smart_css", "llm">> \in Seq(Tiers)
    BY DEF Tiers
  <2>2. CASE models = <<>>
    BY <2>1, <2>2
  <2>3. CASE models = <<"smart_css", "llm">>
    BY <2>1, <2>3 DEF Apis
  <2> QED
    BY <1>1, <2>2, <2>3
<1> DEFINE known == apis \o <<"unified">>
           tried == known \o models
<1>4. <<"unified">> \in Seq(Tiers) /\ <<"css">> \in Seq(Tiers)
  BY DEF Tiers
<1>5. /\ \A i \in DOMAIN <<"unified">> : <<"unified">>[i] \notin Apis
      /\ \A i \in DOMAIN <<"css">> : <<"css">>[i] \notin Apis
      /\ <<"css">> # <<>> /\ <<"css">>[Len(<<"css">>)] = "css"
  BY DEF Apis
<1>6. /\ known \in Seq(Tiers) /\ \A i \in DOMAIN known : known[i] \in Apis => i <= 2
      /\ \A i \in DOMAIN known : known[i] = "admin" => i = 1
  BY <1>2, <1>4, <1>5, CrawlersAfter
<1> HIDE DEF known
<1>7. /\ tried \in Seq(Tiers) /\ \A i \in DOMAIN tried : tried[i] \in Apis => i <= 2
      /\ \A i \in DOMAIN tried : tried[i] = "admin" => i = 1
  BY <1>3, <1>6, CrawlersAfter
<1>8. p = tried \o <<"css">>
  BY <1>1 DEF known
<1> HIDE DEF tried
<1>9. /\ p \in Seq(Tiers) /\ \A i \in DOMAIN p : p[i] \in Apis => i <= 2
      /\ \A i \in DOMAIN p : p[i] = "admin" => i = 1
      /\ p # <<>> /\ p[Len(p)] = "css"
  BY <1>4, <1>5, <1>7, <1>8, CrawlersAfter
<1> QED
  BY <1>9 DEF Planned

LEMMA PhaseAtFirst == Init => PhaseInv
<1> SUFFICES ASSUME Init PROVE PhaseInv
  OBVIOUS
<1>1. RecordInv
  BY RecordAtFirst
<1>2. /\ state = "closed" /\ failures = 0 /\ inside = [c \in {ShopUrl} |-> "no"]
      /\ plan \in Plans /\ stage = "asking"
      /\ records = [u \in Urls \union {ShopUrl} |-> <<>>]
  BY DEF Init, Breaker!Init
<1>3. Counting
  BY <1>2 DEF Counting
<1>4. Len(records[ShopUrl]) = 0 /\ DOMAIN records[ShopUrl] = {}
  BY <1>2
<1>5. Planned(plan, 2)
  BY <1>2, PlansPlanned
<1>6. ApisBehind
  BY <1>2, <1>4, <1>5 DEF ApisBehind, Asking
<1>7. CrawlIsWhole /\ UnreadAborts
  BY <1>2 DEF CrawlIsWhole, UnreadAborts
<1> QED
  BY <1>1, <1>3, <1>6, <1>7 DEF PhaseInv

\* What one call does to the circuit.
CircuitTypes ==
  /\ state \in {"closed", "open", "half_open"}
  /\ inside \in [{ShopUrl} -> {"no", "closed", "half_open"}]
  /\ failures \in Nat
  /\ state # "closed" => failures >= Threshold

LEMMA CircuitSteps ==
  ASSUME CircuitTypes
  PROVE  /\ Breaker!Call(ShopUrl) => CircuitTypes' /\ failures' = failures
         /\ Breaker!Succeed(ShopUrl) =>
              CircuitTypes' /\ failures' <= failures /\ inside[ShopUrl] # "no" /\ inside'[ShopUrl] = "no"
         /\ Breaker!Fail(ShopUrl) =>
              CircuitTypes' /\ failures' <= failures + 1 /\ inside[ShopUrl] # "no" /\ inside'[ShopUrl] = "no"
<1> USE ExtractionAssumption DEF CircuitTypes
<1>1. ASSUME Breaker!Call(ShopUrl) PROVE CircuitTypes' /\ failures' = failures
  BY <1>1 DEF Breaker!Call, Breaker!Admit, Breaker!Probe, Breaker!Enters
<1>2. ASSUME Breaker!Succeed(ShopUrl)
      PROVE  CircuitTypes' /\ failures' <= failures /\ inside[ShopUrl] # "no" /\ inside'[ShopUrl] = "no"
  BY <1>2 DEF Breaker!Succeed, Breaker!OnSuccess, Breaker!Leaves
<1>3. ASSUME Breaker!Fail(ShopUrl)
      PROVE  CircuitTypes' /\ failures' <= failures + 1 /\ inside[ShopUrl] # "no" /\ inside'[ShopUrl] = "no"
  BY <1>3 DEF Breaker!Fail, Breaker!OnFailure, Breaker!Leaves
<1> QED
  BY <1>1, <1>2, <1>3

\* A tier is given up: what is left of the plan has one API less before it, and no longer
\* the admin API.
LEMMA TierGivenUp ==
  ASSUME NEW p, NEW apis \in 0 .. 2, Planned(p, apis), Head(p) # "css"
  PROVE  /\ apis >= 1 => Planned(Tail(p), apis - 1)
         /\ Planned(Tail(p), apis)
         /\ Head(p) \in Apis => apis >= 1
         /\ Head(Tail(p)) # "admin"
<1> USE DEF Planned
<1>1. /\ Tail(p) \in Seq(Tiers) /\ Len(Tail(p)) = Len(p) - 1 /\ Head(p) = p[1] /\ Len(p) >= 1
      /\ \A i \in 1 .. Len(p) - 1 : Tail(p)[i] = p[i + 1]
  OBVIOUS
<1>2. Len(p) >= 2
  BY <1>1
<1>3. \A i \in 1 .. Len(p) - 1 : i + 1 \in DOMAIN p /\ (p[i + 1] \in Apis => i <= apis - 1)
                                /\ p[i + 1] # "admin"
  OBVIOUS
<1>4. Tail(p) # <<>> /\ Tail(p)[Len(Tail(p))] = "css" /\ Head(Tail(p)) = Tail(p)[1]
  BY <1>1, <1>2
<1> QED
  BY <1>1, <1>2, <1>3, <1>4

\* A tier that is asked leaves one trace at most: a record or the failure of the admin API.
LEMMA PhaseAsk ==
  ASSUME PhaseInv, AskTier
  PROVE  Counting' /\ ApisBehind' /\ CrawlIsWhole' /\ UnreadAborts'
<1> DEFINE shop == records[ShopUrl]
<1>1. RecordInv /\ Counting /\ ApisBehind /\ Recording /\ CircuitTypes
  BY DEF PhaseInv, RecordInv, Counting, CircuitTypes
<1>2. Asking /\ Under /\ stage \in {"asking", "showing"}
  BY AskSteps DEF Asking, Under
<1>3. PICK apis \in 0 .. 2 :
        Planned(plan, apis) /\ Len(shop) + apis <= IF stage = "showing" THEN 3 ELSE 2
  BY <1>1, <1>2 DEF ApisBehind
<1>4. /\ shop \in Seq(Outcomes) /\ Len(shop) \in Nat /\ Len(shop) <= 2
      /\ \A i \in DOMAIN shop : shop[i] # "error"
      /\ Tier = "admin" => failures = 0
      /\ failures \in Nat /\ failures <= 1
  BY <1>1, <1>2 DEF ApisBehind, Recording, Counting
<1>5. \A u \in Urls : records[u] = <<>>
  BY <1>1, <1>2 DEF RecordInv, RecordedSoFar, Urls
<1>6. NUrls > 4 => 1 \in Urls
  BY ExtractionAssumption DEF Urls
<1>7. /\ Breaker!Call(ShopUrl) => CircuitTypes' /\ failures' = failures
      /\ Breaker!Succeed(ShopUrl) =>
           CircuitTypes' /\ failures' <= failures /\ inside[ShopUrl] # "no" /\ inside'[ShopUrl] = "no"
      /\ Breaker!Fail(ShopUrl) =>
           CircuitTypes' /\ failures' <= failures + 1 /\ inside[ShopUrl] # "no" /\ inside'[ShopUrl] = "no"
  BY <1>1, CircuitSteps
<1> HIDE DEF shop
<1>8. ASSUME Tier # "css"
      PROVE  /\ apis >= 1 => Planned(Tail(plan), apis - 1)
             /\ Planned(Tail(plan), apis)
             /\ Tier \in Apis => apis >= 1
             /\ Head(Tail(plan)) # "admin"
  BY <1>3, <1>8, TierGivenUp DEF Tier
\* Giving up a tier without a record.
<1>9. ASSUME stage' = "asking", plan' = Tail(plan), UNCHANGED records, Tier # "css",
             stage = "showing" => Tier \in Apis,
             CircuitTypes', failures' <= 1, inside'[ShopUrl] = "no"
      PROVE  Counting' /\ ApisBehind'
  <2>1. PICK left \in 0 .. 2 : Planned(plan', left) /\ Len(shop) + left <= 2
    <3>1. CASE stage = "asking"
      BY <1>3, <1>8, <1>9, <3>1
    <3>2. CASE stage = "showing"
      <4>1. apis >= 1 /\ Planned(plan', apis - 1) /\ apis - 1 \in 0 .. 2
        BY <1>8, <1>9, <3>2
      <4>2. Len(shop) + (apis - 1) <= 2
        BY <1>3, <1>4, <3>2, <4>1
      <4> QED
        BY <4>1, <4>2
    <3> QED
      BY <1>2, <3>1, <3>2
  <2>2. Tier' # "admin"
    BY <1>8, <1>9 DEF Tier
  <2>3. Counting'
    BY <1>9 DEF Counting, CircuitTypes
  <2>4. ApisBehind'
    BY <1>4, <1>9, <2>1, <2>2 DEF ApisBehind, shop
  <2> QED
    BY <2>3, <2>4
<1>10. CASE Ask
  <2>1. /\ CircuitTypes' /\ failures' = failures /\ stage = "asking" /\ Tier # "css"
        /\ UNCHANGED <<plan, stage, records>>
    BY <1>7, <1>10 DEF Ask, Asks
  <2>2. Tier' = Tier
    BY <2>1 DEF Tier
  <2>3. Counting'
    BY <1>4, <2>1 DEF Counting, CircuitTypes
  <2>4. ApisBehind'
    BY <1>1, <2>1, <2>2 DEF ApisBehind, Under, Asking
  <2>5. CrawlIsWhole' /\ UnreadAborts'
    BY <2>1 DEF CrawlIsWhole, UnreadAborts
  <2> QED
    BY <2>3, <2>4, <2>5
<1>11. ASSUME stage = "asking", stage' = "asking", Tier # "css", NothingFrom,
              CircuitTypes', failures' <= 1, inside'[ShopUrl] = "no"
       PROVE  Counting' /\ ApisBehind'
  <2>1. CASE Tier \notin Apis
    BY <1>9, <1>11, <2>1 DEF NothingFrom
  <2>2. CASE Tier \in Apis
    <3>1. plan' = Tail(plan) /\ records' = Recorded(ShopUrl, "empty") /\ "empty" \in Outcomes
      BY <1>11, <2>2 DEF NothingFrom, Outcomes
    <3>2. records'[ShopUrl] = Append(shop, "empty")
      BY <1>1, <3>1, ShopRecorded DEF shop
    <3>3. /\ Len(records'[ShopUrl]) = Len(shop) + 1
          /\ \A i \in DOMAIN records'[ShopUrl] : records'[ShopUrl][i] # "error"
      BY <1>4, <3>2
    <3>4. apis >= 1 /\ Planned(plan', apis - 1) /\ apis - 1 \in 0 .. 2 /\ Tier' # "admin"
      <4>1. apis >= 1 /\ Planned(Tail(plan), apis - 1) /\ Head(Tail(plan)) # "admin"
        BY <1>8, <1>11, <2>2
      <4>2. Tier' # "admin"
        BY <3>1, <4>1 DEF Tier
      <4>3. apis - 1 \in 0 .. 2
        BY <4>1
      <4> QED
        BY <3>1, <4>1, <4>2, <4>3
    <3>5. Len(records'[ShopUrl]) + (apis - 1) <= 2 /\ Len(records'[ShopUrl]) <= 2
      BY <1>3, <1>4, <1>11, <3>3, <3>4
    <3>6. Counting'
      BY <1>11 DEF Counting, CircuitTypes
    <3>7. ApisBehind'
      BY <1>11, <3>3, <3>4, <3>5 DEF ApisBehind
    <3> QED
      BY <3>6, <3>7
  <2> QED
    BY <2>1, <2>2
<1>12. CASE AskRefused
  <2>1. /\ UNCHANGED <<state, failures, inside, stage>> /\ stage = "asking" /\ Tier # "css" /\ NothingFrom
        /\ inside[ShopUrl] = "no"
    BY <1>12 DEF AskRefused, Asks, circuit, NothingFrom
  <2>2. CircuitTypes'
    BY <1>1, <2>1 DEF CircuitTypes
  <2>3. Counting' /\ ApisBehind'
    BY <1>4, <1>11, <2>1, <2>2
  <2> QED
    BY <2>1, <2>3 DEF CrawlIsWhole, UnreadAborts
<1>13. CASE FoundNothing
  <2>1. /\ CircuitTypes' /\ failures' <= failures /\ inside[ShopUrl] # "no" /\ inside'[ShopUrl] = "no"
        /\ stage = "asking" /\ UNCHANGED stage /\ NothingFrom
    BY <1>7, <1>13 DEF FoundNothing, Answered, NothingFrom
  <2>2. Tier # "css" /\ failures' <= 1
    BY <1>1, <1>4, <2>1 DEF ApisBehind, CircuitTypes
  <2>3. Counting' /\ ApisBehind'
    BY <1>11, <2>1, <2>2
  <2> QED
    BY <2>1, <2>3 DEF CrawlIsWhole, UnreadAborts
<1>14. CASE ApiAnswers
  <2>1. /\ CircuitTypes' /\ failures' <= failures /\ Tier \in Apis /\ stage = "asking"
        /\ stage' = "showing" /\ UNCHANGED plan
        /\ records' = Recorded(ShopUrl, "success") /\ "success" \in Outcomes
    BY <1>7, <1>14 DEF ApiAnswers, Answered, Outcomes
  <2>2. records'[ShopUrl] = Append(shop, "success")
    BY <1>1, <2>1, ShopRecorded DEF shop
  <2>3. /\ Len(records'[ShopUrl]) = Len(shop) + 1
        /\ \A i \in DOMAIN records'[ShopUrl] : records'[ShopUrl][i] # "error"
    BY <1>4, <2>2
  <2>4. Tier' = Tier /\ Tier # "css" /\ failures' \in Nat
    BY <2>1 DEF Tier, Apis, CircuitTypes
  <2>5. apis >= 1
    BY <1>8, <2>1, <2>4
  <2>6. Len(records'[ShopUrl]) + apis <= 3 /\ Len(records'[ShopUrl]) <= 2
    BY <1>3, <1>4, <2>1, <2>3, <2>5
  <2>7. failures' <= 1 /\ (Tier' = "admin" => failures' = 0)
    BY <1>4, <2>1, <2>4
  <2>8. Counting'
    BY <2>1, <2>7 DEF Counting, CircuitTypes
  <2>9. ApisBehind'
    BY <1>3, <2>1, <2>3, <2>4, <2>6, <2>7 DEF ApisBehind
  <2> QED
    BY <2>1, <2>8, <2>9 DEF CrawlIsWhole, UnreadAborts
<1>15. CASE ApiReturns
  <2>1. /\ stage = "showing" /\ stage' = "returned"
        /\ UNCHANGED <<state, failures, inside, plan, records>>
    BY <1>15 DEF ApiReturns, circuit
  <2>2. plan' # <<>>
    BY <1>3, <2>1 DEF Planned
  <2>3. Counting' /\ ApisBehind'
    BY <1>1, <2>1 DEF Counting, ApisBehind, Under, Asking
  <2>4. CrawlIsWhole' /\ UnreadAborts'
    BY <1>5, <1>6, <2>1, <2>2 DEF CrawlIsWhole, UnreadAborts
  <2> QED
    BY <2>3, <2>4
<1>16. CASE ProbeAccepted \/ FallBackToCss
  <2>1. /\ CircuitTypes' /\ failures' <= failures /\ UNCHANGED records /\ stage' \in {"next", "aborted"}
    <3>1. CASE ProbeAccepted
      BY <1>7, <3>1 DEF ProbeAccepted, Answered, Commit
    <3>2. CASE FallBackToCss
      BY <1>1, <1>4, <3>2 DEF FallBackToCss, Commit, CircuitTypes, circuit
    <3> QED
      BY <1>16, <3>1, <3>2
  <2>2. failures' <= 1
    BY <1>4, <2>1 DEF CircuitTypes
  <2>3. Counting'
    BY <2>1, <2>2 DEF Counting, CircuitTypes
  <2>4. ApisBehind'
    BY <1>4, <2>1 DEF ApisBehind, Under, Asking, shop
  <2> QED
    BY <2>1, <2>3, <2>4 DEF CrawlIsWhole, UnreadAborts
\* Only the admin API falls back, and nothing had failed before it.
<1>17. CASE ApiRaises \/ AskUnwritten
  <2>1. /\ UNCHANGED records /\ CircuitTypes' /\ inside'[ShopUrl] = "no" /\ failures' <= failures + 1
        /\ FallsBack \/ Aborts
    <3>1. CASE ApiRaises
      BY <1>7, <3>1 DEF ApiRaises
    <3>2. CASE AskUnwritten
      BY <1>1, <1>4, <3>2 DEF AskUnwritten, CircuitTypes, circuit
    <3> QED
      BY <1>17, <3>1, <3>2
  <2>2. CASE FallsBack
    <3>1. Tier = "admin" /\ plan' = Tail(plan) /\ stage' = "asking" /\ Tier # "css" /\ Tier \in Apis
      BY <2>2 DEF FallsBack, Apis
    <3>2. failures' <= 1
      BY <1>4, <2>1, <3>1 DEF CircuitTypes
    <3>3. Counting' /\ ApisBehind'
      BY <1>9, <2>1, <3>1, <3>2
    <3> QED
      BY <3>1, <3>3 DEF CrawlIsWhole, UnreadAborts
  <2>3. CASE Aborts
    <3>1. stage' = "aborted"
      BY <2>3 DEF Aborts
    <3>2. Counting' /\ ApisBehind'
      BY <2>1, <3>1 DEF Counting, CircuitTypes, ApisBehind, Under, Asking
    <3> QED
      BY <3>1, <3>2 DEF CrawlIsWhole, UnreadAborts
  <2> QED
    BY <2>1, <2>2, <2>3
<1> QED
  BY <1>10, <1>12, <1>13, <1>14, <1>15, <1>16, <1>17 DEF AskTier

\* A batch counts no failure.
LEMMA PhaseBatch ==
  ASSUME PhaseInv, RunBatch
  PROVE  Counting' /\ ApisBehind' /\ CrawlIsWhole' /\ UnreadAborts'
<1>1. RecordInv /\ Counting /\ ApisBehind /\ CircuitTypes
  BY DEF PhaseInv, Counting, CircuitTypes
<1>2. /\ Breaker!Call(ShopUrl) => CircuitTypes' /\ failures' = failures
      /\ Breaker!Succeed(ShopUrl) => CircuitTypes' /\ failures' <= failures
  BY <1>1, CircuitSteps
<1>3. /\ CircuitTypes' /\ failures' <= failures
      /\ stage \in {"next", "crawling"} /\ stage' \in {"crawling", "audit", "report"}
      /\ stage' = "audit" => state' = "open"
      /\ UNCHANGED records[ShopUrl]
  <2>1. CASE CrawlBatch
    BY <1>1, <1>2, <2>1 DEF CrawlBatch, StartsBatch, CircuitTypes
  <2>2. CASE BatchRefused
    BY <1>1, <2>2 DEF BatchRefused, StartsBatch, Breaker!Rejects, CircuitTypes, circuit
  <2>3. CASE BatchCrawled
    BY <1>1, <1>2, <2>3, CrawledKeeps DEF BatchCrawled
  <2> QED
    BY <2>1, <2>2, <2>3 DEF RunBatch
<1>4. failures \in Nat /\ failures <= 1 /\ failures' <= 1
  BY <1>1, <1>3 DEF Counting, CircuitTypes, Under
<1>5. Counting'
  BY <1>3, <1>4 DEF Counting, CircuitTypes
<1>6. ApisBehind'
  BY <1>1, <1>3 DEF ApisBehind, Under, Asking
<1> QED
  BY <1>3, <1>5, <1>6 DEF CrawlIsWhole, UnreadAborts

\* The audit: after the last batch, or after the circuit has refused one.
LEMMA PhaseAudit ==
  ASSUME PhaseInv, Audit
  PROVE  CrawlIsWhole' /\ UnreadAborts'
<1>1. /\ RecordInv /\ Counting /\ ApisBehind
      /\ UNCHANGED <<state, records>> /\ stage' = IF Catastrophic THEN "aborted" ELSE "returned"
      /\ stage = "audit" \/ (stage = "next" /\ Batch = {})
  BY DEF PhaseInv, Audit, circuit
<1>2. CASE stage = "audit"
  <2>1. state = "open" /\ failures >= Threshold /\ failures <= 1 /\ failures \in Nat
    BY <1>1, <1>2 DEF Counting, Under
  <2>2. Threshold = 1
    BY <2>1, ExtractionAssumption
  <2>3. \E u \in Urls : records[u] # <<"error">>
    <3>1. PICK u \in Urls : records[u] = <<>>
      BY <1>1, <1>2 DEF RecordInv, RecordedSoFar
    <3> QED
      BY <3>1
  <2> QED
    BY <1>1, <2>1, <2>2, <2>3 DEF CrawlIsWhole, UnreadAborts
<1>3. CASE stage = "next" /\ Batch = {}
  <2>1. NUrls \in Nat \ {0} /\ first \in Nat \ {0} /\ BatchSize \in Nat \ {0}
    BY <1>1, ExtractionAssumption DEF RecordInv, Recording
  <2>2. first > NUrls
    <3>1. first \notin Urls
      BY <1>3, <2>1 DEF Batch
    <3> QED
      BY <2>1, <3>1 DEF Urls
  <2>3. \A u \in Urls : records[u] # <<>>
    BY <1>1, <1>3, <2>1, <2>2 DEF RecordInv, RecordedSoFar, Urls
  <2>4. ASSUME NUrls > 4, \A u \in Urls : records[u] = <<"error">>
        PROVE  Catastrophic
    <3>1. /\ Len(records[ShopUrl]) <= 2 /\ Len(records[ShopUrl]) \in Nat
          /\ \A i \in DOMAIN records[ShopUrl] : records[ShopUrl][i] # "error"
      BY <1>1, <1>3 DEF ApisBehind, Under, RecordInv, Recording
    <3>2. records \in [Urls \union {ShopUrl} -> Seq(Outcomes)]
      BY <1>1 DEF RecordInv, Recording
    <3>3. NUrls \in 1 .. NUrls /\ NUrls > 3 /\ 3 * NUrls > 7 * Len(records[ShopUrl])
      BY <2>1, <2>4, <3>1
    <3> QED
      BY <2>4, <3>1, <3>2, <3>3, ErrorsOutweigh DEF Urls
  <2> QED
    BY <1>1, <2>3, <2>4 DEF CrawlIsWhole, UnreadAborts
<1> QED
  BY <1>1, <1>2, <1>3

LEMMA PhaseStep == PhaseInv /\ [Next]_vars => PhaseInv'
<1> SUFFICES ASSUME PhaseInv, [Next]_vars PROVE PhaseInv'
  OBVIOUS
<1>1. RecordInv'
  BY RecordStep DEF PhaseInv
<1>2. CASE AskTier \/ RunBatch
  BY <1>1, <1>2, PhaseAsk, PhaseBatch DEF PhaseInv
<1>3. CASE Report \/ ReportFails \/ Audit
  <2>1. /\ UNCHANGED <<state, failures, inside, records>>
        /\ stage \in {"report", "audit", "next"} /\ stage' \in {"next", "aborted", "returned"}
    BY <1>3 DEF Report, ReportFails, Aborts, Audit, circuit
  <2>2. Counting' /\ ApisBehind'
    BY <2>1 DEF PhaseInv, Counting, ApisBehind, Under, Asking
  <2>3. CASE Audit
    BY <1>1, <2>2, <2>3, PhaseAudit DEF PhaseInv
  <2>4. CASE Report \/ ReportFails
    <3>1. stage' # "returned"
      BY <2>4 DEF Report, ReportFails, Aborts
    <3> QED
      BY <1>1, <2>2, <3>1 DEF PhaseInv, CrawlIsWhole, UnreadAborts
  <2> QED
    BY <1>3, <2>3, <2>4
<1>4. CASE Cool \/ UNCHANGED vars
  <2>1. UNCHANGED <<state, failures, inside, plan, stage, records>>
    BY <1>4 DEF Cool, Breaker!Cool, vars, circuit
  <2>2. Counting' /\ ApisBehind'
    BY <2>1 DEF PhaseInv, Counting, ApisBehind, Under, Asking, Tier
  <2>3. CrawlIsWhole' /\ UnreadAborts'
    BY <2>1 DEF PhaseInv, CrawlIsWhole, UnreadAborts
  <2> QED
    BY <1>1, <2>2, <2>3 DEF PhaseInv
<1> QED
  BY <1>2, <1>3, <1>4 DEF Next, Step

\* A crawl that comes back with URLs it has not looked at was broken off by a circuit that a
\* single failure opens: with a threshold of two or more no crawl is.
THEOREM CrawlsAreWhole == Spec => []CrawlIsWhole
<1>1. PhaseInv => CrawlIsWhole
  BY DEF PhaseInv
<1> QED
  BY <1>1, PhaseAtFirst, PhaseStep, PTL DEF Spec

\* A crawl of five URLs or more of which no batch could be read does not return, whatever
\* the APIs have put in the records before it.
THEOREM UnreadCrawlAborts == Spec => []UnreadAborts
<1>1. PhaseInv => UnreadAborts
  BY DEF PhaseInv
<1> QED
  BY <1>1, PhaseAtFirst, PhaseStep, PTL DEF Spec
==============================================================================
