--------------------------- MODULE ProductCatalog ---------------------------
(***************************************************************************)
(* What is stored of one shop: the rows of the products table, the row of  *)
(* merchant_profiles, and in Redis the progress hashes and the DLQ entries *)
(* of its jobs.  Pipeline runs write them in batches, an administrator     *)
(* cleans up and erases, all of it interleaved.                            *)
(*                                                                         *)
(* app/services/pipeline.py, app/services/product_normalizer.py,           *)
(* app/models/product.py, app/db/bulk_ingestor.py, app/db/queries.py,      *)
(* app/db/merchant_profile_ingestor.py, app/api/v1/merchants.py.           *)
(***************************************************************************)
EXTENDS Naturals, Sequences, FiniteSets

CONSTANTS
  Runs,         \* runs of the pipeline for this shop
  Items,        \* what the shop sells, or what the crawl takes for it
  SkuOf,        \* the SKU of each item, or None; items may share one
  TitleOf,      \* the title of each item; items may share one
  Blank,        \* items without a price and without an image
  Detectable,   \* what the shop may be taken for
  Urls,         \* the ways jobs are given the URL of the shop
  Listings,     \* what an extraction may return: sightings in order, items repeated
  BatchSize,    \* _NORMALIZE_BATCH_SIZE, and BATCH_SIZE of the ingestor
  None

\* A sighting is an item as it was read: through an API, from the markup of a page (JSON-LD),
\* from its meta tags (OpenGraph), or from a feed.
Reads == {"api", "markup", "tags", "feed"}

Sightings == [item : Items, read : Reads]

FromFeed(listing) == \A i \in DOMAIN listing : listing[i].read = "feed"

FromShop(listing) == \A i \in DOMAIN listing : listing[i].read # "feed"

\* The normalised URL, one that begins with it, or one that does not contain it (a host in
\* capitals, a default port before the path).
Spellings == {"canonical", "extended", "respelt"}

ASSUME CatalogAssumption ==
  /\ Blank \subseteq Items /\ Urls \subseteq Spellings
  /\ Listings \subseteq Seq(Sightings) \ {<<>>}
  /\ BatchSize \in Nat \ {0}

VARIABLES
  phase,     \* what each run is doing
  kind,      \* whether each run imports a feed
  given,     \* how each run was given the URL of the shop
  platform,  \* what each run took the shop for
  raw,       \* the products each run extracted
  next,      \* the first product of its present batch
  draft,     \* whether each run holds a MerchantProfile that lacks the currency
  rows,      \* the products table
  profile,   \* whether there is a merchant_profiles row
  hash,      \* the progress hash of each run, and whether it says which shop it is about
  dlq,       \* runs with a DLQ entry
  erasing,   \* the step the erasure has come to
  left,      \* hashes that the scan of the erasure has yet to look at
  quiet,     \* history: no run has been active since the erasure began
  wiped      \* history: runs whose shop had its products deleted since they began

run == <<phase, kind, given, platform, raw, next, draft>>
database == <<rows, profile>>
redis == <<hash, dlq>>
erasure == <<erasing, left, quiet, wiped>>
vars == <<run, database, redis, erasure>>

Kinds == {"shop", "feed"}

Idle == {"idle", "completed", "failed"}

Busy == {"detecting", "extracting", "normalizing", "ingesting", "finishing",
         "completing"}

Erasing == {"profile", "scanning"}

-----------------------------------------------------------------------------
(***************************************************************************)
(* From a raw product to its row.  What identifies a product depends on how *)
(* it was read and on what the shop was taken for in this run, since that  *)
(* chooses the mapping that is tried first.                                *)
(***************************************************************************)
\* Some mappings take the SKU for the id of an API's product; that of WooCommerce finds no id
\* in the markup of a page.
External(s, p) ==
  LET id  == <<"id", s.item>>
      sku == SkuOf[s.item]
  IN CASE s.read = "feed"   -> <<"feed_id", s.item>>
       [] s.read = "api"    -> IF p \in {"shopify", "woocommerce", "shopware"} \/ sku = None
                               THEN id ELSE sku
       [] s.read = "markup" -> IF p = "woocommerce" THEN None ELSE sku
       [] s.read = "tags"   -> None

\* The feed has no SKU of its own: its id is used for both.  Meta tags have none.
Sku(s) ==
  CASE s.read = "feed" -> <<"feed_id", s.item>>
    [] s.read = "tags" -> None
    [] OTHER           -> SkuOf[s.item]

ShopId(r) == IF kind[r] = "feed" THEN given[r] ELSE "canonical"

\* compute_idempotency_key(): the title only counts when there is nothing else.
Key(s, p, shop) ==
  [external |-> External(s, p), platform |-> p, shop |-> shop, sku |-> Sku(s),
   title |-> IF External(s, p) = None /\ Sku(s) = None THEN TitleOf[s.item] ELSE None]

KeyIn(r, i) == Key(raw[r][i], platform[r], ShopId(r))

Row(r, i) == [key |-> KeyIn(r, i), of |-> raw[r][i], by |-> r]

\* _is_valid_product(): a price, an image or an identifier.
IsValid(s, p) == s.item \notin Blank \/ External(s, p) # None \/ Sku(s) # None

\* DELETE_INVALID_PRODUCTS
IsInvalidRow_Bug(row) == row.of.item \in Blank /\ row.key.external = None

IsInvalidRow(row) == row.of.item \in Blank /\ row.key.sku = None /\ row.key.external = None

TypeOK ==
  /\ phase \in [Runs -> Idle \union Busy]
  /\ kind \in [Runs -> Kinds]
  /\ given \in [Runs -> Spellings]
  /\ platform \in [Runs -> Detectable \union {"generic"}]
  /\ raw \in [Runs -> Listings \union {<<>>}]
  /\ \A r \in Runs : next[r] \in 1 .. Len(raw[r]) + 1
  /\ DOMAIN next = Runs
  /\ draft \in [Runs -> BOOLEAN]
  /\ \A row \in rows : row.of \in Sightings /\ row.by \in Runs
  /\ profile \in BOOLEAN
  /\ hash \in [Runs -> {"none", "named", "nameless"}]
  /\ dlq \subseteq Runs
  /\ erasing \in Erasing \union {"no", "done"}
  /\ left \subseteq Runs
  /\ quiet \in BOOLEAN
  /\ wiped \subseteq Runs

Init ==
  /\ phase = [r \in Runs |-> "idle"]
  /\ kind = [r \in Runs |-> "shop"]
  /\ given = [r \in Runs |-> "canonical"]
  /\ platform = [r \in Runs |-> "generic"]
  /\ raw = [r \in Runs |-> <<>>]
  /\ next = [r \in Runs |-> 1]
  /\ draft = [r \in Runs |-> FALSE]
  /\ rows = {}
  /\ profile = FALSE
  /\ hash = [r \in Runs |-> "none"]
  /\ dlq = {}
  /\ erasing = "no"
  /\ left = {}
  /\ quiet = FALSE
  /\ wiped = {}

-----------------------------------------------------------------------------
(***************************************************************************)
(* Runs.  Every report to the progress tracker is an HSET: it makes a hash *)
(* that is gone anew, without the shop_url that only the start writes.     *)
(***************************************************************************)
Touched(r) == [hash EXCEPT ![r] = IF @ = "none" THEN "nameless" ELSE @]

Goes(r, to) == phase' = [phase EXCEPT ![r] = to]

\* A feed import takes the URL as it was given, and the shop for generic; the pipeline
\* normalises the URL first.
Start(r) ==
  /\ phase[r] = "idle"
  /\ \E k \in Kinds, url \in Urls :
       /\ kind' = [kind EXCEPT ![r] = k]
       /\ given' = [given EXCEPT ![r] = url]
       /\ Goes(r, IF k = "feed" THEN "extracting" ELSE "detecting")
  /\ hash' = [hash EXCEPT ![r] = "named"]
  /\ quiet' = FALSE
  /\ UNCHANGED <<platform, raw, next, draft, database, dlq, erasing, left, wiped>>

\* The probes of the same shop may fail or be cut off in one run and not in another.  Neither
\* the extraction of the profile nor its upsert stops the run when it fails; a profile
\* without a currency is kept for the end, stored or not.
Detect(r) ==
  /\ phase[r] = "detecting"
  /\ Goes(r, "extracting")
  /\ \E p \in Detectable : platform' = [platform EXCEPT ![r] = p]
  /\ \E lacking \in BOOLEAN : draft' = [draft EXCEPT ![r] = lacking]
  /\ profile' \in {profile, TRUE}
  /\ hash' = Touched(r)
  /\ UNCHANGED <<kind, given, raw, next, rows, dlq, erasure>>

\* (A run without products ends in review, see Fail.)
Extract(r) ==
  /\ phase[r] = "extracting"
  /\ Goes(r, "normalizing")
  /\ \E listing \in Listings :
       /\ IF kind[r] = "feed" THEN FromFeed(listing) ELSE FromShop(listing)
       /\ raw' = [raw EXCEPT ![r] = listing]
  /\ hash' = Touched(r)
  /\ UNCHANGED <<kind, given, platform, next, draft, database, dlq, erasure>>

BatchEnd(r) == IF next[r] + BatchSize - 1 < Len(raw[r])
               THEN next[r] + BatchSize - 1 ELSE Len(raw[r])

\* The products of the present batch that the normalizer lets through.
Normalized(r) == {i \in next[r] .. BatchEnd(r) : IsValid(raw[r][i], platform[r])}

Normalize(r) ==
  /\ phase[r] = "normalizing"
  /\ next[r] <= Len(raw[r])
  /\ Goes(r, "ingesting")
  /\ hash' = Touched(r)
  /\ UNCHANGED <<kind, given, platform, raw, next, draft, database, dlq, erasure>>

\* _deduplicate_by_key(): the last of those with the same key.
Staged(r) ==
  LET last == {i \in Normalized(r) : \A j \in Normalized(r) : KeyIn(r, j) = KeyIn(r, i) => j <= i}
  IN {Row(r, i) : i \in last}

\* UPSERT_FROM_STAGING, in one transaction.
Upserted_Bug(staged) == rows \union staged

Upserted(staged) == staged \union {row \in rows : \A new \in staged : new.key # row.key}

IngestBatch(r) ==
  /\ phase[r] = "ingesting"
  /\ rows' = Upserted(Staged(r))
  /\ next' = [next EXCEPT ![r] = BatchEnd(r) + 1]
  /\ Goes(r, IF BatchEnd(r) < Len(raw[r]) THEN "normalizing" ELSE "finishing")
  /\ UNCHANGED <<kind, given, platform, raw, draft, profile, redis, erasure>>

\* The upsert of a currency that the products gave may fail and stops nothing.
Backfill(r) ==
  /\ phase[r] = "finishing"
  /\ Goes(r, "completing")
  /\ IF draft[r] /\ \E i \in DOMAIN raw[r] : IsValid(raw[r][i], platform[r])
     THEN draft' = [draft EXCEPT ![r] = FALSE] /\ profile' \in {profile, TRUE}
     ELSE UNCHANGED <<draft, profile>>
  /\ hash' = Touched(r)
  /\ UNCHANGED <<kind, given, platform, raw, next, rows, dlq, erasure>>

Complete(r) ==
  /\ phase[r] = "completing"
  /\ Goes(r, "completed")
  /\ draft' = [draft EXCEPT ![r] = FALSE]
  /\ next' = [next EXCEPT ![r] = 1]
  /\ hash' = Touched(r)
  /\ UNCHANGED <<kind, given, platform, raw, database, dlq, erasure>>

\* Any exception, a timeout, or a run that ends in review.  It is reported unless the
\* report fails as well, and put into the DLQ when it was the last try.  What it held in
\* memory is gone.
Fail(r) ==
  /\ phase[r] \in Busy
  /\ Goes(r, "failed")
  /\ raw' = [raw EXCEPT ![r] = <<>>]
  /\ next' = [next EXCEPT ![r] = 1]
  /\ draft' = [draft EXCEPT ![r] = FALSE]
  /\ hash' \in {hash, Touched(r)}
  /\ dlq' \in {dlq, dlq \union {r}}
  /\ UNCHANGED <<kind, given, platform, database, erasure>>

-----------------------------------------------------------------------------
(***************************************************************************)
(* The administrator.  DELETE /merchants erases table by table and then    *)
(* hash by hash; POST /products/cleanup deletes what no run would store.   *)
(***************************************************************************)
EraseProducts ==
  /\ erasing \in {"no", "done"}
  /\ rows' = {row \in rows : row.key.shop # "canonical"}
  /\ erasing' = "profile"
  /\ quiet' = \A r \in Runs : phase[r] \in Idle
  /\ wiped' = wiped \union {r \in Runs : phase[r] # "idle"}
  /\ UNCHANGED <<run, profile, redis, left>>

EraseProfile_Bug ==
  /\ erasing = "profile"
  /\ left' = {r \in Runs : hash[r] # "none"}
  /\ erasing' = "scanning"
  /\ UNCHANGED <<run, database, redis, quiet, wiped>>

EraseProfile ==
  /\ erasing = "profile"
  /\ profile' = FALSE
  /\ left' = {r \in Runs : hash[r] # "none"}
  /\ erasing' = "scanning"
  /\ UNCHANGED <<run, rows, redis, quiet, wiped>>

\* SCAN returns every hash that was there when it began.  Whose shop a hash is about only
\* its shop_url tells.
EraseHash(r) ==
  /\ erasing = "scanning"
  /\ r \in left
  /\ left' = left \ {r}
  /\ hash' = [hash EXCEPT ![r] = IF @ = "named" THEN "none" ELSE @]
  /\ UNCHANGED <<run, database, dlq, erasing, quiet, wiped>>

\* It may return one that was made since.
EraseNewHash(r) ==
  /\ erasing = "scanning"
  /\ r \notin left
  /\ hash[r] = "named"
  /\ hash' = [hash EXCEPT ![r] = "none"]
  /\ UNCHANGED <<run, database, dlq, erasure>>

\* An entry is found if the URL in it, as the job was given it, contains the normalised one.
EraseDlq ==
  /\ erasing = "scanning"
  /\ left = {}
  /\ dlq' = {r \in dlq : given[r] = "respelt"}
  /\ erasing' = "done"
  /\ UNCHANGED <<run, database, hash, left, quiet, wiped>>

\* The request fails; what it has erased stays erased.
ErasureFails ==
  /\ erasing \in Erasing
  /\ erasing' = "no"
  /\ left' = {}
  /\ UNCHANGED <<run, database, redis, quiet, wiped>>

Cleanup ==
  /\ rows' = {row \in rows : ~IsInvalidRow(row)}
  /\ UNCHANGED <<run, profile, redis, erasure>>

Next ==
  \/ \E r \in Runs :
       \/ Start(r) \/ Detect(r) \/ Extract(r) \/ Normalize(r) \/ IngestBatch(r)
       \/ Backfill(r) \/ Complete(r) \/ Fail(r)
       \/ EraseHash(r) \/ EraseNewHash(r)
  \/ EraseProducts \/ EraseProfile \/ EraseDlq \/ ErasureFails
  \/ Cleanup

Spec == Init /\ [][Next]_vars

-----------------------------------------------------------------------------
(***************************************************************************)
(* Properties.                                                             *)
(***************************************************************************)

\* A completed run has, for every product that passed the normalizer, a row under the key it
\* has in this run, whatever other runs upserted and the cleanup deleted in between; only an
\* erasure takes them away.  (Products that share a key share the row.)
CompletedIsStored ==
  \A r \in Runs \ wiped : phase[r] = "completed" =>
    \A i \in DOMAIN raw[r] : IsValid(raw[r][i], platform[r]) => \E row \in rows : row.key = KeyIn(r, i)

\* Running the onboarding again stores no item twice unless something differs between the
\* runs: the item was read another way, the shop was taken for another platform, or a feed
\* was imported under another spelling of the URL.
RerunAddsNoRow ==
  \A a, b \in rows : a.of.item = b.of.item /\ a # b =>
    \/ a.of.read # b.of.read
    \/ platform[a.by] # platform[b.by]
    \/ ShopId(a.by) # ShopId(b.by)

\* What an erasure that no run overlapped was to delete stays deleted until a run starts:
\* no step of a run, of the cleanup or of the erasure itself brings any of it back.  What it
\* does not find are the rows and DLQ entries of jobs that were given another spelling.
ErasedIsGone ==
  erasing = "done" /\ quiet =>
    /\ \A row \in rows : row.key.shop # "canonical"
    /\ ~profile
    /\ \A r \in Runs : hash[r] # "named"
    /\ \A r \in dlq : given[r] = "respelt"

\* delete_merchant_data() promises to "Delete all data for a merchant".  Rows that a feed
\* import wrote under the URL as it was given are not found.
ErasureIsComplete == erasing = "done" /\ quiet => rows = {}
=============================================================================
