# Verification of the merchant onboarding service

TLA+ models of the service in this repository, checked with TLC, and theorems about them,
checked with TLAPS.  `PROJECT.json` maps every definition to the lines it models; paths below
are relative to the repository.

1. [The system](#1-the-system) 2. [Modules](#2-modules) 3. [Runs](#3-runs-and-bounds)
4. [Fairness](#4-fairness) 5. [Proofs](#5-proofs) 6. [Not modelled, and assumed](#6-not-modelled-and-assumed)
7. [Disagreements and observations](#7-disagreements-and-observations) 8. [Plan](#8-plan)

## 1. The system

A merchant posts the URL of a shop, or of a Google product feed.  A job finds out what platform
the shop runs on and whether the merchant has connected it, discovers its product pages,
extracts the products by the best source there is, completes and normalises them and stores
them in Postgres.  The dashboard follows the job in Redis.

### Inventory

| Part | Code | State it keeps | Operations | Talks to | What makes it correct |
|---|---|---|---|---|---|
| Job intake | `app/api/v1/onboarding.py` | background tasks of the event loop | POST `/onboard`, status, SSE stream | tracker, broker, pipeline (when the broker refuses) | a job is taken over by the broker or run by the API, never both |
| Celery task | `app/workers/tasks.py`, `celery_app.py` | the unacknowledged message, `request.retries` | run, retry, write to the DLQ, clean up, acknowledge | broker, pipeline, Redis | no accepted job is forgotten, whatever process is lost |
| Pipeline | `app/services/pipeline.py` | phase, batch, products in memory | detect, discover, extract, verify, normalise, ingest | everything below | COMPLETED only when stored; every job ends |
| Progress tracker | `app/infra/progress_tracker.py` | hash `progress:<job>` | update, set metadata, list and sweep, delete | Redis | nothing is shown at work for ever; only overdue jobs are swept |
| Dead letter queue | `app/api/v1/dlq.py` | hash `dlq:jobs` | list, retry | broker | an exhausted job is listed, dispatched again or dropped knowingly |
| OAuth routing | `app/services/oauth_extraction_coordinator.py`, `app/db/oauth_store.py` | connections | admit, override the platform, resolve, ask the admin API | database, extractors | an API is asked with the credentials it needs; the tier reported is the source |
| Extraction phase | `pipeline.py` 704-1433, `extraction_tracker.py` | record of each URL | API, probe, batch, audit | breaker, limiter, extractors | each URL recorded once; a crawl that returns has looked at every URL; one that could not be read is not an empty shop |
| API extractors | eight files `app/extractors/*_api.py`, `*_admin_extractor.py` | page, cursor, token | read the catalogue page by page | the shop's API | pages add up; a complete result is the whole catalogue |
| Circuit breaker | `app/infra/circuit_breaker.py` | state, failures, time of the last one | call | extractors | state and count agree; an open circuit becomes ready to be tried again |
| Rate limiter | `app/infra/rate_limiter.py` | slots of a domain | acquire, release | extraction | slots come back on every way out |
| Product catalogue | `product_normalizer.py`, `bulk_ingestor.py`, `queries.py`, `merchants.py` | tables `products`, `merchant_profiles` | normalise, upsert, clean up, erase | Postgres, Redis | what is completed is stored; running again on the same terms adds no row; what was erased stays erased |
| Completion | `pipeline.py` 1072-1690, `completeness_checker.py`, `gtin_supplementer.py`, `shopify_price_supplementer.py` | products in memory | merge the fields of probes, correct prices, add GTINs, look again at pages | crawler, the shop's API | fills, replaces nothing; what a product is given is its own, as long as what it is told by is; the browser only where it is needed |
| Crawling extractors | `unified_crawl_extractor.py`, `schema_org_`, `opengraph_`, `css_`, `markdown_price_extractor.py`, `browser_config.py` | the browser session | static fetch, levels of stealth, layers of a page, load more, batch | the shop | layers in order; an empty answer means all was tried; nothing found is lost |
| SmartCSS, schema cache | `smart_css_extractor.py`, `schema_cache.py` | the schema of a domain in Redis | look up, generate, validate, store, crawl, invalidate | LLM, Redis, the shop | what is known to be useless is not served; what works stays |
| LLM extractor, budget | `llm_extractor.py`, `llm_budget.py` | tokens used (by nobody) | read a page in chunks, merge them | LLM | merging loses no value and leaves nothing similar apart |
| Platform detection | `platform_detector.py` | signals | header, API and page probes under a timeout, vote | the shop | what was answered counts |
| URL discovery | `url_discovery.py`, `url_filters.py` | none | API, product sitemaps, generic sitemap, browser; filter, cap | the shop | nothing is left untried; no product page is filtered out |
| OAuth connection routes | `app/api/v1/*_auth.py`, `auth.py`, `nonce_store.py` | nonces in memory, the row of a connection | connect, callback, exchange, verify, store, disconnect | the shop, database | a connect is answered once; a row is of one handshake |
| Accounts, routes, exporters, frontend | see `components` in `PROJECT.json` | sessions, views | reads and formatting | database | out of scope |

### How the parts interact

The API process writes the first hash of a job and publishes one message.  A Celery worker
receives it and keeps it unacknowledged (`task_acks_late`) while its pipeline runs; a retry is a
*second* message, published before the first is acknowledged.  The pipeline writes the same hash
that the API reads, and that every `GET /jobs` may mark failed.  The calls of one pipeline
go through one circuit breaker; the second look at pages makes several at once.  Pipelines of the
same shop share the rows of the shop, and the erasure and the cleanup run beside them.  Merchants
connect and disconnect shops at any time.  Everything below is interleaved at the awaits of the code.

### What is hard

Lost workers and redelivery; the retry beside its predecessor; a verdict on a hash that was read
earlier; a timeout in the middle of a batch loop; calls that overlap in a circuit; connections that
change between two lookups; a catalogue that changes between two pages; an erasure of many steps
beside a running pipeline; extractions that share a schema while the shop is redesigned; passes that
fill the same products one after the other; probes that a timeout cuts off; callbacks that come
twice.  `hazards` in `PROJECT.json` lists them at their lines, with the properties that cover them
or the reason why none does.

## 2. Modules

| Module | What it is | Extends, instantiates |
|---|---|---|
| `ProgressTracker` | the hash of a job and the writes to it, as operators | |
| `JobDelivery` | **abstract**: an accepted job gets a verdict; completed means stored | |
| `OnboardingJob` | intake, broker, workers, pipeline phases, DLQ, sweep | extends `ProgressTracker`; refines `JobDelivery` |
| `CircuitBreaker` | the circuit of one domain and its overlapping callers | |
| `ProductExtraction` | the extraction phase: tiers, batches, tracker, audit | its calls are actions of an instance of `CircuitBreaker` |
| `OAuthRouting` | from detection and connections to the source of the products | |
| `PagedExtraction` | the eight paginating extractors beside a changing shop | |
| `ProductCatalog` | rows, profile, hashes and DLQ entries of one shop under runs, cleanup and erasure | |
| `ConnectionHandshake` | how a connection comes about: nonces, callbacks, credentials, the row | |
| `ShopDiscovery` | platform detection and URL discovery of one shop | |
| `PageReading` | the crawling tiers on one page, a list, or a batch | |
| `SchemaReading` | the schema that extractions of one shop share | |
| `ProductCompletion` | what is added to extracted products | |
| `Lists` | filtering a list and finding its first, for the modules that are proved about | |
| `MC*` | the modules for TLC: symmetry, the listings, the views of a page | |
| `MCShopIntake` | **composition** of `OAuthRouting`, `ShopDiscovery`, `ConnectionHandshake` | extends the three |
| `MCExtraction` | **composition** of `PagedExtraction`, `PageReading`, `SchemaReading`, `ProductCompletion` | extends the four |
| `*Proofs` | the theorems | |

In the two compositions the components share results and no state, and none waits for another.  A
variable `part` says which of them a behaviour is of, and the others rest in one of their initial
states: interleaving components that share nothing reaches no state of any of them that it does
not reach alone.  The weak fairness of the two runs is that of the part that has one.

### OnboardingJob

`pc[r]` is where a worker or a direct pipeline stands in `run_onboarding_pipeline`, `_run_pipeline`
and `Pipeline._run_inner`; a step ends where the code awaits Redis, Postgres, the broker or the
shop.  `queue` counts the ready copies of each message `[job, tries]`; what a worker holds is in
`job` and `tries` and goes back to `queue` in `WorkerLost`.

- `CreateJob`, `DispatchToCelery`, `RunDirectly`, `CreationFails`: `create_onboarding_job`.
- `Receive`, `Connect`, `ConnectFails`, `Retry`, `Park`, `ParkFails`, `CleanupFails`, `Release`,
  `Acknowledge`: the task.  `Retry` publishes the next try; only `Acknowledge` removes the message.
- `Begin` ... `RecordCompletion`: one action per status write of the pipeline; `TimesOut` and
  `PipelineFails` are enabled at every one of them.
- `ReplayRead`, `ReplayDispatch`, `ReplayDropped`: HGET, then HDEL and dispatch.
- `SweepFinds`, `SweepMarks`: the read and the later write of `list_all_jobs`; `Ages` is time.
- `outcome` is a history variable: how the acknowledged deliveries of a job ended.

Left out: the counters and texts of the hash, metadata other than the two timestamps, Redis TTLs,
retry countdowns.  A direct pipeline may run without a database (`SkipIngest`), so
`CompletedMeansStored` speaks of the jobs of the broker.

### CircuitBreaker and ProductExtraction

`inside[c]` is what a call in flight was told when it came in; what comes back is booked on the
state the circuit has *then*.  `failures` saturates at `Threshold`, since the code only compares
with `>=`.  `ProductExtraction` has the circuit of one job (the code makes a breaker per pipeline)
and the plan of tiers.  A probe that is accepted commits the tier.  A batch is one call of
`extract_batch` through the circuit.  The four crawling extractors override it and make results of
their exceptions: a shop that is down is a success to the circuit and empty to the tracker
(`FailureIsNotEmpty` is violated), and only an API can fail a call.  What can go wrong in a batch
is that a product cannot be read (`BatchUnread`) or that the job's hash cannot be written
(`AskUnwritten`, `ReportFails`).  `answer` is a history variable: what really came back.  Calls
are cancelled only together, with the job, which is `OnboardingJob`'s timeout.

### OAuthRouting

Three scans with a lookup per step: the admission check (`Admit`), the override of the platform
(`Override`) and the resolution (`Resolve`).  `StoreConnection` and `RevokeConnection` may come
between any two.  `tier` is what the hash announces, `source` where the products came from.

### PagedExtraction

The eight extractors have one loop in common and differ in conventions, which are a record:
what tells the last page, which total is believed, after which answers a request is repeated,
which answers return nothing at all, whether a 404 ends the catalogue, what is caught, what
the page limit means.  `Convention` gives each extractor its record; the actions read it.  An
answer is an action: `Again`, `Denied`, `Absent`, `Refused`, `TimesOut`, `Malformed`,
`Shapeless`, or a page (`EmptyPage`, `LastPage`, `UntoldPage`, `CapReached`, `NextPage`).  A page
without the total that the extractor goes by is an `UntoldPage`: the code takes one page, or no
product, for the total, stops there and calls the result complete.  Products are
integers in the order of the API; `Sell` adds one at either end or removes one.

### ConnectionHandshake

A request is a record of what it is doing, with which set of credentials, and how it came by them;
an action ends where the handler awaits the shop or the database.  Every column of the row holds
the number of the set it is of.  Magento's callback brings no nonce, so its connects are known by
the domain, which is the same each time.  `Restart` loses the nonces and may bring another key;
without a key `Upsert` stores NULL (`oauth_store.py`), and the row is active all the same.

### ShopDiscovery

What a shop shows is a set of places and platforms; a probe that is answered adds what is shown to
it to `signals`.  The four API probes end in any order, and `DetectionTimesOut` may come between
any two.  `ReadSitemap`, `Seed` and `Browse` are the strategies, `AfterSitemap` the fallbacks,
which differ by platform; `DiscoveryCut` is the timeout or an exception at any of them.
`IsNonProduct` is `is_non_product_url`: it holds for the base URL, whose path is empty, and for the
`.json` pages of Shopify's API too; both are handed on all the same when they are a last resort.

### PageReading

A view is what one fetch of the page shows in each layer; every fetch may show another one.  A
price or an image is told by its layer, and the two zeros of the code are two values, since one
reading (`_get_price`) compares strings and the other (`_has_nonzero_price`) numbers.  `Structured`
is the static reading, `Rendered` that of the browser, with `Deduplicated` in between.  `Merged` is
the merging of the chunks of an LLM; titles are sequences, whose prefixes are similar, and `Alike`
is what `SequenceMatcher` adds to that.

### SchemaReading

`doing[r]` is where an extraction stands, `held[r]` the schema it works with, `samples[r]` the
pages it has seen and the design they then had.  A schema is a number, the design it was made for,
and the pages it fits.  `Redesign` is the shop, `Expire` is Redis; every operation of Redis may
fail silently, as the code lets it.  `useless` is a history variable.

### ProductCompletion

A value is told by where it comes from.  One action per pass, except that the browser looks at one
page at a time.  URLs are in the order of `sorted()`, since two caps cut that order off; `NoUrl` is
the URL of a product without one, which sorts first.  Presence is `_is_value_present`, for which
zero is a value; `LacksPrice` and `Unpriced` are the two other readings of a missing price.

`MergeTierFields` fills every key a product lacks from the probes, the ones it is told by (`Marks`:
URL, title, SKU, GTIN) included; `borrowed` is a history variable of what was filled.  Python
hands the *same* offers object to every product that had none (`Lent`), so that a price corrected
in one of them is corrected in all (`Sharing`); offers that only lack a price get copies.

### ProductCatalog

An item is what the shop sells; `Key` is the idempotency key `compute_idempotency_key` makes of
it.  It depends on how the item was read (an API, the markup or the tags of a page, a feed) and on
what the shop was taken for in *this* run (`Detect`), which is part of the key and chooses the
mapping.  Listings are what an extraction may return.  Batches are upserted in one transaction each
(`IngestBatch`).  `Touched` models that any report re-creates a hash that was erased, without the
`shop_url` only the start writes.  The erasure is as many actions as it has commands and may fail
between any two; it finds DLQ entries by a substring (`EraseDlq`).

### Operators named `_Bug`

An operator `X_Bug` beside `X` is `X` with a plausible mistake (a dropped guard, an off-by-one, a
swapped order).  No specification uses it.  It is a test of the properties: with `X_Bug` in place
of `X` a named property must fail (`mutants` in `PROJECT.json`).

## 3. Runs and bounds

| Run | Instance | States | What it shows |
|---|---|---|---|
| `delivery` | 1 job, 2 workers, 1 direct pipeline, 2 retries, 2 batches, 1 lost process | 594 k | nothing forgotten, completed means stored, one copy at a time, no restart of what is settled |
| `replay` | 1 job without retries, 1 DLQ entry, 2 retry requests | 695 k | the dead letter queue keeps the job; the whole implements `JobDelivery` |
| `settle` | 1 job, 1 worker, 1 direct pipeline, 1 retry, 1 lost process | 31 k | liveness: jobs settle, none is shown active for ever |
| `breaker_calls` | 4 overlapping calls, threshold 3 | 595 | count and state agree, the half open circuit has its probe, one that stays open gets ready |
| `extraction_crawl` | 5 URLs, batches of 4, threshold 1 | 135 k | each URL recorded once, a crawl that returns is whole, one that could not be read aborts, the phase ends |
| `routing_connections` | all sets of connections and detections; 6 shops, 6 sitemaps, 3 URLs; 2 requests, 2 connects, 3 sets of credentials | 269 k | credentials, tiers, precedence of connections, termination; detection and discovery under every failure; handshakes that overlap |
| `catalogue` | 2 runs, 2 items, 3 sightings, 2 platforms, batches of 2 | 1.6 M | stored, no second row, erased stays erased |
| `reading` | 8 API extractors, up to 5 products, pages of 2, 3 pages, 2 changes; 120 views, chunks of up to three, batches of three; 2 extractions of 2 pages, 2 designs, 2 schemas; 2 products on 4 URLs, 11 probes | 393 k | prefix, completeness, cursors, termination; layers, stealth, merging; schemas; completion |
| `sweep_fresh` | as `replay`, one worker | | violated, see section 7 |
| `extraction_error_dropped` | 2 URLs | | violated, see section 7 |
| `routing_preferred` | as `routing_connections` | | violated, see section 7 |
| `erasure` | as `catalogue`, with items read through an API | | violated, see section 7 |

Why the bounds are enough.  Jobs do not interact but through the workers and the sweep, whose steps
are per job, so one job is enough where two workers, a direct pipeline and a redelivery can meet on
it; two retries are the first number at which a retry has a predecessor *and* a successor; one lost
process is the first at which delivery is duplicated, and a second one only repeats it.  Two batches
distinguish "some stored" from "all stored".  Three failures with four callers let calls of all
three states of the circuit overlap.  Five URLs in batches of four have a full batch, a short one
and, with two API records beside them, both sides of the error threshold; a threshold of one is the
only one at which a circuit can break a crawl off (section 6).  `MaxCrashes`, `MaxChanges`,
`DirectRunners` and `EntryIds` are bounds of the models, not of the code (a run may want more direct
pipelines than there are); the theorems hold for all of them.  Five products in pages of two give
full, short and empty last pages and a catalogue that fits the page limit exactly or exceeds it
after an addition.  Two runs of a shop are the first number that can rerun and race; the items are
two variants that share SKU and title, one of them without price and image, and one sighting has
nothing but the title to be told by.

Four sets of tags, fifteen of objects and two of texts make the views of `reading`: no JSON-LD, one
object in all four states of its price, a repeated one with and without an image and a description,
and two products. Three chunks are the first number at which similarity that is not transitive
matters. Two extractions are the first number that share a schema, two designs the first that make
one useless; two pages, one of which it may not fit. Two products can share a page, a path or a
title, or nothing; caps of two cut off the four URLs. A sitemap of five entries is the first to have
less than three product pages in ten without having none; three URLs make the cap bite. Two requests
can overlap, with a third set of credentials that comes after both.

Deadlock is checked in `catalogue` and `erasure`.  Elsewhere the system really stops: every id is
used and every message acknowledged, nobody calls the circuit, the phase or the extraction has
returned.

The liveness runs (`settle`, `breaker_calls`, `extraction_crawl`, `routing_connections`, `reading`)
use no symmetry.

## 4. Fairness

- `OnboardingJob!FairSpec`: a worker that is not lost goes on, since `asyncio.wait_for` bounds the
  pipeline and client timeouts what is outside it; an idle worker takes a waiting message; time
  passes; the dashboard polls `GET /jobs` every ten seconds, which sweeps (`SweepFinds`,
  `SweepMarks`, `Ages`).  Nothing makes a crash or a request happen.
- `CircuitBreaker!FairSpec`: the reset timeout passes unless a failure renews it, which is time.
  Nobody has to call (the pipeline gives a crawl up when the circuit is open) and no call has to
  come back.
- `ProductExtraction`, `OAuthRouting`, `PagedExtraction` (the latter two in `IntakeSpec` and
  `ExtractionSpec`): the one coroutine of the phase goes on
  (`WF_vars` of its step); every request is answered or times out.  The merchant's actions are
  not fair.
- `PageReading`, `SchemaReading`, `ProductCompletion`, `ShopDiscovery`, `ConnectionHandshake`: none,
  since nothing is claimed to happen there in the end.

## 5. Proofs

All are checked by `tlapm` to the last leaf, for every value of the constants under the named
assumptions of the modules (`OnboardingAssumption`, `RoutingAssumption`, `CatalogAssumption`, ...).

| Theorem | Module | Statement | Inductive argument |
|---|---|---|---|
| `Typed` | `OnboardingJobProofs` | `Spec => []TypeOK` | with `BatchInRange` and `BusyHasJob`: a batch number is only as good as the loop bound, and a busy runner has a job |
| `Remembered` | " | `[]NoJobForgotten` | `Ownership` (who may run a job follows from what the API did with it) and `ForgottenInv`: a worker that has published the next try no longer counts as holding the job, and one that has given up has seen to the DLQ entry |
| `CompletedIsStored` | `OnboardingJobContractProofs` | `[]CompletedMeansStored` | `LoopStores`: a worker at batch b has stored all before b; `EndStored`: one that left the loop has stored all |
| `KeepsContract` | " | `Spec => DeliveryContract` | step simulation of `JobDelivery!Safety`: a step stutters, takes a job, stores a batch or settles one |
| `DeliveredOnce`, `NotRestarted` | " | `[]SingleDelivery`, `SettledIsNotRestarted` | one token per job while no process is lost: a ready message or a holder that has not published its next try; acknowledging consumes it |
| `CountKept`, `ProbeInFlight` | `CircuitBreakerProofs` | `[]CountMatchesState`, `[]HalfOpenIsProbed` | the booking on the present state keeps both; a half open circuit is left by whoever returns first |
| `TypeCorrectness`, `CredentialsHeld`, `TierKept`, `ShopwareUsed` | `ShopIntakeProofs` | `[]TypeOK`, `[]AskedWithCredentials`, `[]TierReported`, `[]ShopwareConnectionUsed` | `Resolved` (the admin phase has a platform and a connection); `Announced` (what the hash says in each phase); `Rails` (a shop with a Shopware connection only cannot leave the way to it) |
| `UrlsRecordedOnce` | `ProductExtractionProofs` | `[]EachUrlOnce` | `RecordInv`: what is before `first` has one record, what is behind it none, and a batch in flight is not recorded yet |
| `CrawlsAreWhole`, `UnreadCrawlAborts` | " | `[]CrawlIsWhole`, `[]UnreadAborts` | `PhaseInv`: while tiers are asked, the APIs have left at most a record each, none of them an error, and one failure, the admin API's, for which there is no second chance; so a circuit that refuses a batch opened at its first failure, and two records do not hide the errors of five URLs (`ErrorsOutweigh`: three times the errors against seven times the other records) |
| `TypeCorrectness`, `CompletedRunIsStored`, `ErasureLasts`, `RerunsAddNoRow` | `ProductCatalogProofs` | `[]TypeOK`, `[]CompletedIsStored`, `[]ErasedIsGone`, `[]RerunAddsNoRow` | `NothingRead`; `StoredSoFar`: all valid products before `next` have a row, which upserts of others replace only by rows of the same key, and the cleanup spares (a valid product is no invalid row); `ErasedSoFar`: what each step of a quiet erasure has left behind; a row's key is the key of its sighting on the platform of the run that wrote it, and a run that writes does not change its platform |
| `ConnectsAnsweredOnce`, `RowsNotMixed` | `ShopIntakeProofs` | `[]ConnectSpentOnce`, `[]RowIsOneHandshake` | a nonce in memory is of a connect that no callback was let through for; `RowTyped`: a request that stores has a set of its own way of connecting |
| `VerdictRestsOnAnswers` | " | `[]AnsweredProbesCount` | `DetectionInv`: the signals are what was shown to the probes that were answered |
| `EveryWayTried`, `PagesKept` | " | `[]NothingLeftUntried`, `[]ProductPagesKept` | `StrategiesInOrder`: what has been tried at each stage, since a fallback is reached only through the failures before it; `PagesInv`: what was found is what the filters left of a source, the pages of an API or of the browser, or the base URL; and the shop is browsed only when the filters have left nothing |
| `UselessSchemaLeaves`, `WorkingSchemaKept` | `ExtractionProofs` | `[]UselessIsNotServed`, `WorkingSchemaStays` | `SchemaInv`: a schema that is not stored yet is its maker's alone and nothing is known against it, a number is of one schema, and whoever is about to throw one out after a crawl that did not fail has seen that it does not work |
| `EveryLevelTried`, `FoundIsKept` | " | `[]StealthExhausted`, `[]NothingLost` | `StealthInv`: the levels tried are those from the configured one to the present one; `LostInv`: each click has lengthened the list, and the answer of a batch is of the pages handled |
| `ValuesStay`, `BrowserSpared` | " | `NothingReplaced`, `[]RenderedOnlyIfNeeded` | `CompletionInv`: products keep their fields and are looked at by the browser only after the plain look; what a pass may do to one field is a lemma for each pass |
| `GivenOnlyItsOwn` | " | `[]FilledFromItsOwn` | the values a product is given are those of its page, path, name or handle at the time; URL and title are filled by the merge only (`MergedOnce`), so what is compared by is the product's own unless `borrowed` says that it was lent, and lent offers are told from its own by `SharedValues` |
| `ChunksMerged` | " | `[]MergeKeepsValues` | `MergeInv` with `LeadsAre`: which chunks lead a group, as the recursive function computes it, is that no chunk before them is a similar leader; proved by looking at the first index for which it would not be so |
| `LayersKept` | " | `[]LayersInOrder` | no more than itself and the levels tried; what is hard is in the lemmas about one view: each of the two readings keeps the order of layers object by object, and `Deduplicated` keeps one fullest object of each key |
| `PagesAdded`, `CompleteWhole` | " | `[]PagesAddUp`, `[]CompleteIsWhole` | `KeepingInv`: in a shop that has not changed page number, cursor, offset and believed total agree with the length of what was read, for each of the eight conventions; a total that is not told ends the pagination at once, with as many full pages as were asked for |
| `NothingMissed` | " | `[]CursorMissesNothing` | `CursorInv`: with `ReadBehind`: catalogue and products ascend, the cursor is the last product read, and of what stood there all the time everything up to the cursor has been read |

The assumptions on constants are the least the arguments need: counts are numbers, `None`,
`NoSchema` and `ShopUrl` are not among the values they stand beside, a sample is at most three pages
(the code takes no more), a shop shows finitely much, a listing has finitely many entries
(`Listable`), products and probes have the keys that `ProductCompletion` looks at, with values of an
extraction or of a probe (`Extracted`, `Probed`), and the views and readings of a page are of the
shape the parsers give them (`ReadingAssumption`).

`ListProofs` has what the other modules need of `Lists`: a list of the elements of a sequence that
pass a filter has these and no others, in their order, and ascends when the sequence does.  The
model filters and searches by the elements in order (`Only`, `Earliest`) and counts records as a
set of pairs (`Entries`, `CountOf`), which are the same as the folds they stand for and can be
reasoned about.  Where an induction over a sequence is needed there is none in the prover, since
the theorems of induction take an operator as their parameter; what stands in for it is the least
element of the set of counterexamples (`LeastOf`).

One property was found to be wrong when it was proved.  `LayersInOrder` said that a
product with an image never loses it: `_deduplicate_products` (`unified_crawl_extractor.py:624`)
keeps, of the repetitions of an object, the one with the most fields, which may be one without an
image when it has a description instead.  The objects of a page carry a description since, so that
TLC finds that case too, and the property allows for the image of a repetition.

The inductive invariants were given to TLC before they were proved.  Every invariant and every
action property of the passing runs is proved.  Only model-checked: liveness (`JobsSettle`,
`NoJobStuckActive`, `OpenGetsReady`, `ExtractionEnds`, `RoutingEnds`, `PagingEnds`), as fairness and
ENABLED are beyond the prover.

## 6. Not modelled, and assumed

- A broker that refuses a message has not taken it.  (`delay()` whose reply is lost would run a
  job twice; see hazards.)  The publication of a retry succeeds.
- Redis keys live for seven days and are not modelled to expire; retry countdowns only delay.
- A batch counts as stored when its normalised products are.
- A Celery retry of a run is another run in `ProductCatalog`.  A failed run's memory is gone.  The
  DLQ entries of a shop are read and deleted in one step there.  The database is configured.
- An OAuth store is configured; `last_used_at` is left out.
- Ids are of one item; SKUs and titles may be shared, and products that share a key share a row in
  the code and in the model.  `catalogue` reads pages and feeds; items read through an API are in
  `erasure` and in the theorems.  What the mappings of the platforms do with ids and SKUs is
  brought down to `External` and `Sku`; further keys they try are left out.
- The way of `_extract_per_url_tracked` (`pipeline.py:1348`) is for extractors that do not override
  `extract_batch`; all four do, so neither it nor the rate limiter it would share is modelled.  The
  limiter's slot that a batch takes is always free.
- `CrawlIsWhole` excepts a circuit that opens at the first failure.  The configured threshold is
  five (`circuit_breaker.py`), and an API is the only call of the phase that can fail.
- `UnreadAborts` speaks of more than four URLs: below that the error rate includes the empty
  records of the two APIs and the threshold is missed by design.
- Shops are at the root of their host, so that their base URL has an empty path.
- A total that is told is true.  (One that is not told is `UntoldPage`.)
- Offers of a product are a dict or absent; lists of offers are left out of `ProductCompletion`.
  A page that is looked at a second time gives each product of it the same values.
- `CompleteIsWhole` allows for a page limit that did cut the catalogue, a missing total that did, and
  answers by which the shop itself says that it has no more (a 404 in the middle, JSON without
  products): the extractors take these for the end.
- The separate requests for variations, children and brands, the field mappings of the
  platforms, `pages_completed` and `pages_expected`.
- What a page, a tag, a header or an XML document looks like: parsing is data.  A view of a page,
  what a shop shows and what a sitemap lists are constants, and every fetch may get any of them.
- The pages of a batch are independent: one page's browser session does not affect the next.
- The LLM may make any schema, except that it is for the design of the page it was shown; a schema
  that is brittle by its selectors is one that is not made (`NoUsableSchema`).
- The LLM budget: the tracker is built and stored, and never asked (section 7).
- MPNs, currencies beyond right and wrong, and fields other than URL, title, SKU, GTIN, price,
  offers and image.
- Signatures (HMAC), sessions and the validation of inputs of the connection routes;
  `redis_nonce_store.py`, which nothing in the application uses.
- Accounts, sessions, API keys and input validation: out of scope of this project.
- The feed and the merchant profile: one download and one parse each; `OnboardingJob` and
  `ProductCatalog` take their results, and their failures, as given.
- Pure functions, parsing and formatting (validators, exporters, reports), configuration, the
  frontend, evaluations and scripts: no state whose interleaving matters.

## 7. Disagreements and observations

Four runs state what the repository says and TLC shows what the code does (`findings`):

- `sweep_fresh`: a job that was just posted has no `started_at` and is marked failed by the next
  `GET /jobs`, though only jobs stuck for 30 minutes are to be.
- `extraction_error_dropped`: the pipeline drops `ExtractorResult.error`; a failed URL is recorded
  as empty, and the circuit takes it for a success.
- `routing_preferred`: a WooCommerce or Shopify shop connected under its own domain is taken for
  Shopware, its credentials do not fit, and it is crawled without asking either API.
- `erasure`: rows of a feed import under a URL that was not normalised survive the erasure.

Seen while modelling, modelled where possible, and not claimed by a run of their own:

- The half open circuit lets in every call that arrives beside its test call
  (`circuit_breaker.py:80`), and the success of a late call closes it.
- `needs_review` is no terminal state of the sweep; such a job is failed after 30 minutes.
- Two retry requests of one DLQ entry both dispatch it (`dlq.py:87`); a dispatch that fails loses
  the entry; a retried feed import becomes a crawl, as the entry forgets the feed (`tasks.py:71`).
- The error of a failed try stays in the hash of a job whose retry completed.
- The idempotency key depends on how a product was read and on the platform detected in the run
  (`pipeline.py:580`, `product.py:83`).  A shop that moves from pages to an API, is read by another
  tier, or whose detection is cut off once and not the next time, gets a second set of rows;
  `RerunAddsNoRow` says that nothing else does.  A stale run overwrites newer rows, and the upsert
  does not renew `retention_expires_at` of a row that is there (`queries.py`).
- A sweep that has read a hash before the job completed marks it failed afterwards, for good.
- A cleanup that raises after a completed run has the job run again (`tasks.py:167`).
- DLQ entries of a shop are found by a substring (`merchants.py:205`): entries of another shop
  whose URL begins alike are erased as well, and those of a URL given in another spelling stay.
- A product whose URL is a list or a dict makes its whole batch unread: ten pages are recorded as
  errors (`pipeline.py:1318`).  The record of an admin API that answered stays when its progress
  cannot be written and the next tier is asked (`pipeline.py:731`).
- A hash erased under a running job is created again without its shop and is never found by the
  next erasure (`ErasedIsGone` therefore requires that no run overlaps).
- A BigCommerce connection is stored under its store hash, so a shop on its own domain is never
  found by it; a detected Magento shop with a Shopify connection asks Magento with its token.
- The admission check for a shop without URLs comes before the override of the platform; the
  overridden platform is not the one products are normalised under (`pipeline.py:765`).
- A URL whose product names another URL is recorded empty.
- Seven of the eight extractors page by number and miss or repeat products when the merchant
  edits the catalogue meanwhile; only Shopify's cursor does not (`CursorMissesNothing`).
- A missing total counts as one page (`woocommerce_admin_extractor.py:183`,
  `bigcommerce_admin_extractor.py:106`) or as no product (`magento_api.py:112`,
  `magento_admin_extractor.py:374`, `shopware_admin_extractor.py:263`): the extraction stops there
  and is called complete.
- At the page limit the admin extractors call a cut catalogue complete, and their page counter
  has run one past the limit, so `is_partial` is false when exactly one page is left.

Extraction from pages:

- `smart_css_extractor.py:424` says "invalidate and retry once", and nothing is tried again.  A
  batch whose crawl raised, or one that finished after another extraction stored a better schema,
  deletes the schema that is there (`WorkingSchemaStays` leaves both out).  Two extractions that
  miss the cache together both pay for a schema.
- The LLM budget (`llm_budget.py`) is built for each job (`tasks.py:147`) and stored
  (`pipeline.py:118`); nothing calls `check_budget()` or `record_usage()`.
- The static reading returns a product made of OpenGraph tags alone, without the signal that the
  browser's reading asks for, and is not deduplicated.  The browser's reading replaces the static
  one even when it has less.
- "0.00" is a price for `_get_price` and keeps the text of the page from filling it; for
  `_has_nonzero_price` it is none.
- Of the chunks of an LLM a short title takes in every longer one that begins with it, and chunks
  without a title are dropped.
- A batch of the CSS extractors passes over pages that failed and is called complete.
- `_extract_with_load_more` and `CSSExtractor._crawl_single` have no caller.

Completion:

- `_merge_tier_fields` (`pipeline.py:1115`) gives the fields of the page a tier was probed with to
  every product that lacks them: a price, but also the URL, the name, the SKU or the GTIN of one
  product goes to others.  The later passes match by these, so that such a product is then given
  the GTIN or the price of the other one too (`FilledFromItsOwn` is of products whose URL and title
  no probe has lent them).
- It hands the same offers dict to all of them.  The Shopify API then corrects it in place, for
  the first product that is found, and all others have that product's price.
- Products of the APIs carry the shop's URL as their source, so their second look is at the home
  page, and what it gives is filled into all of them.  Products without a URL take one of the
  places of the cap, since the empty URL sorts first.
- A price of zero is asked for again and never replaced, since zero counts as present; of pages
  that share a path only one keeps its GTIN.

Discovery:

- The shop's own page and the `.json` pages of Shopify's API are no product pages to
  `is_non_product_url`, and are handed on when there is nothing else (`ProductPagesKept`).
- A Shopify shop is never browsed, though `url_discovery.py:64` names the browser as the last
  step; a product sitemap that lists only other pages keeps the generic one from being read.
- The timeout of 300 s throws away whatever was found, and the fallback to the shop's page too.
- The cap comes before the validation of URLs, and browsed URLs come from a set, so which of them
  the cap keeps is arbitrary.
- Of platforms with equally many signals the first in the dictionary wins.

Connections:

- A nonce is spent although the exchange or the database then fails, and nonces are lost when
  the API restarts or another worker gets the callback.
- Without an encryption key a connection is stored with NULL for its tokens, over one that worked,
  and the answer is "connected".
- Disconnecting a BigCommerce shop by its domain, which `auth.py:156` allows, revokes nothing.
- A callback that is in flight undoes a disconnect.
- The admission check of a shop without URLs (`pipeline.py:432`) leaves out Magento.

Jobs:

- The SSE stream (`onboarding.py:213`) ends on FAILED although a retry may follow, and does not end
  on NEEDS_REVIEW.

## 8. Plan

Done: the life of a job, connections and routing, detection and discovery, extraction by API and
from pages, completion, and the catalogue, with the theorems above.  Left, in this order:

1. The requests for variations, children and brands of the admin extractors.
2. The SSE reader of `onboarding.py:195-227` as a process of `OnboardingJob`, and a lost reply of
   `delay()` as a second way of `DispatchToCelery`.
3. The merchant profile (its pages, its merging) beside `ProductCatalog`.
4. Theorems: what `MCShopIntake` and `MCExtraction` compose implements its parts; the type
   invariants of the reading modules, as far as the arguments above do not contain them.
