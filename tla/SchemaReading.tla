---------------------------- MODULE SchemaReading ----------------------------
(***************************************************************************)
(* SmartCSS: extractions of one shop that share a schema of CSS selectors, *)
(* which the LLM makes and Redis keeps, while the shop may be redesigned.  *)
(*                                                                         *)
(* app/extractors/smart_css_extractor.py, app/extractors/schema_cache.py.  *)
(***************************************************************************)
EXTENDS Naturals, FiniteSets

CONSTANTS
  Readers,     \* extractions that may overlap: of jobs, of workers
  NPages,      \* the URLs of a batch; the first three of them are samples
  MaxLayouts,  \* designs the shop has one after the other
  MaxSchemas,  \* schemas that are made
  NoSchema

ASSUME SchemaAssumption ==
  /\ NPages \in 1 .. 3 /\ MaxLayouts \in Nat \ {0} /\ MaxSchemas \in Nat
  /\ NoSchema \notin [id : Nat, layout : Nat, fits : SUBSET Nat]

VARIABLES
  layout,   \* today's design of the shop
  cache,    \* the schema Redis has for the domain
  made,     \* how many schemas were made
  doing,    \* what each extraction is doing
  batch,    \* it has a batch of URLs
  held,     \* the schema it has
  samples,  \* the pages it looked at, with the design they had
  raised,   \* its crawl raised an exception
  useless   \* history: schemas that found nothing on pages that were all crawled, while
            \* Redis has not refused to say so or to delete

reader == <<doing, batch, held, samples, raised>>
schemaVars == <<layout, cache, made, reader, useless>>

Steps == {"idle", "fetching", "generating", "sampling", "storing", "crawling",
          "checking", "dropping"}

SchemaInit ==
  /\ layout = 1
  /\ cache = NoSchema
  /\ made = 0
  /\ doing = [r \in Readers |-> "idle"]
  /\ batch = [r \in Readers |-> FALSE]
  /\ held = [r \in Readers |-> NoSchema]
  /\ samples = [r \in Readers |-> {}]
  /\ raised = [r \in Readers |-> FALSE]
  /\ useless = {}

-----------------------------------------------------------------------------
Does(r, step) == doing' = [doing EXCEPT ![r] = step]

\* The extraction returns; nothing of it is left.
Leaves(r) ==
  /\ Does(r, "idle")
  /\ batch' = [batch EXCEPT ![r] = FALSE]
  /\ held' = [held EXCEPT ![r] = NoSchema]
  /\ samples' = [samples EXCEPT ![r] = {}]
  /\ raised' = [raised EXCEPT ![r] = FALSE]

\* The schema that Redis has, or none when it has none or cannot be asked.
LookUp(r) ==
  /\ doing[r] = "idle"
  /\ \E b \in BOOLEAN, found \in {cache, NoSchema} :
       /\ batch' = [batch EXCEPT ![r] = b]
       /\ held' = [held EXCEPT ![r] = found]
       /\ Does(r, IF found = NoSchema THEN "fetching" ELSE "crawling")
  /\ UNCHANGED <<layout, cache, made, samples, raised, useless>>

FetchPrimary(r) ==
  /\ doing[r] = "fetching"
  /\ Does(r, "generating")
  /\ samples' = [samples EXCEPT ![r] = {<<1, layout>>}]
  /\ UNCHANGED <<layout, cache, made, batch, held, raised, useless>>

\* The LLM makes a schema of the page it was shown.  What else it fits is not known.
Generate(r, fits) ==
  /\ doing[r] = "generating"
  /\ made < MaxSchemas
  /\ made' = made + 1
  /\ \E seen \in samples[r] :
       held' = [held EXCEPT ![r] = [id |-> made + 1, layout |-> seen[2], fits |-> fits]]
  /\ Does(r, IF batch[r] /\ NPages > 1 THEN "sampling" ELSE "storing")
  /\ UNCHANGED <<layout, cache, batch, samples, raised, useless>>

\* The samples are asked for in order; one that cannot be fetched is done without.
FetchSample(r, p) ==
  /\ doing[r] = "sampling"
  /\ p \in 2 .. NPages
  /\ \A seen \in samples[r] : seen[1] < p
  /\ samples' = [samples EXCEPT ![r] = @ \union {<<p, layout>>}]
  /\ UNCHANGED <<layout, cache, made, doing, batch, held, raised, useless>>

\* A schema finds products on the pages it fits, in the design it was made for;
\* _validate_schema(): it must find something on every sample.
Fits(schema, seen) == schema.layout = seen[2] /\ seen[1] \in schema.fits

IsValid(r) == Cardinality(samples[r]) > 1 => \A seen \in samples[r] : Fits(held[r], seen)

Validated(r) ==
  /\ doing[r] = "sampling"
  /\ IsValid(r)
  /\ Does(r, "storing")
  /\ UNCHANGED <<layout, cache, made, batch, held, samples, raised, useless>>

\* No page, no schema, a brittle one, or one that does not fit: nothing is stored.
NoUsableSchema(r) ==
  /\ \/ doing[r] \in {"fetching", "generating"}
     \/ doing[r] = "sampling" /\ ~IsValid(r)
  /\ Leaves(r)
  /\ UNCHANGED <<layout, cache, made, useless>>

\* SchemaCache.set() says nothing of a failure.
Store(r) ==
  /\ doing[r] = "storing"
  /\ cache' \in {cache, held[r]}
  /\ Does(r, "crawling")
  /\ UNCHANGED <<layout, made, batch, held, samples, raised, useless>>

-----------------------------------------------------------------------------
Asked(r) == IF batch[r] THEN 1 .. NPages ELSE {1}

Finds(r, crawled) == {p \in crawled : Fits(held[r], <<p, layout>>)}

\* The pages that could be crawled gave products.
CrawlFinds(r, crawled) ==
  /\ doing[r] = "crawling"
  /\ crawled \subseteq Asked(r)
  /\ Finds(r, crawled) # {}
  /\ Leaves(r)
  /\ UNCHANGED <<layout, cache, made, useless>>

Suspects_Bug(r) == Does(r, IF batch[r] THEN "idle" ELSE "checking")

Suspects(r) == Does(r, "checking")

\* A batch without products looks at the cache, whatever kept it from products.  A single
\* page that could not be crawled does not.
CrawlFindsNothing(r, crawled) ==
  /\ doing[r] = "crawling"
  /\ crawled \subseteq Asked(r)
  /\ Finds(r, crawled) = {}
  /\ batch[r] \/ crawled = {1}
  /\ Suspects(r)
  /\ useless' = IF crawled = Asked(r) THEN useless \union {held[r].id} ELSE useless
  /\ raised' = [raised EXCEPT ![r] = crawled # Asked(r)]
  /\ UNCHANGED <<layout, cache, made, batch, held, samples>>

PageFails_Bug(r) ==
  /\ doing[r] = "crawling"
  /\ ~batch[r]
  /\ Does(r, "checking")
  /\ UNCHANGED <<layout, cache, made, batch, held, samples, raised, useless>>

PageFails(r) ==
  /\ doing[r] = "crawling"
  /\ ~batch[r]
  /\ Leaves(r)
  /\ UNCHANGED <<layout, cache, made, useless>>

\* Redis is asked whether there is a schema at all: not which.
Check(r) ==
  /\ doing[r] = "checking"
  /\ cache # NoSchema
  /\ Does(r, "dropping")
  /\ UNCHANGED <<layout, cache, made, batch, held, samples, raised, useless>>

Forgives(r) == useless' = useless \ {held[r].id}

NothingToDrop(r) ==
  /\ doing[r] = "checking"
  /\ IF cache = NoSchema THEN UNCHANGED useless ELSE Forgives(r)
  /\ Leaves(r)
  /\ UNCHANGED <<layout, cache, made>>

\* invalidate(), which says nothing of a failure.
Drop(r) ==
  /\ doing[r] = "dropping"
  /\ \/ cache' = NoSchema /\ UNCHANGED useless
     \/ UNCHANGED cache /\ Forgives(r)
  /\ Leaves(r)
  /\ UNCHANGED <<layout, made>>

\* The key expires (schema_cache_ttl).
Expire ==
  /\ cache # NoSchema
  /\ cache' = NoSchema
  /\ UNCHANGED <<layout, made, reader, useless>>

Redesign ==
  /\ layout < MaxLayouts
  /\ layout' = layout + 1
  /\ UNCHANGED <<cache, made, reader, useless>>

SchemaStep ==
  \/ \E r \in Readers :
       \/ LookUp(r) \/ FetchPrimary(r) \/ Validated(r) \/ NoUsableSchema(r) \/ Store(r)
       \/ \E s \in SUBSET (1 .. NPages) :
            Generate(r, s) \/ CrawlFinds(r, s) \/ CrawlFindsNothing(r, s)
       \/ \E p \in 1 .. NPages : FetchSample(r, p)
       \/ PageFails(r) \/ Check(r) \/ NothingToDrop(r) \/ Drop(r)
  \/ Expire \/ Redesign

SchemaSpec == SchemaInit /\ [][SchemaStep]_schemaVars

-----------------------------------------------------------------------------
(***************************************************************************)
(* Properties.                                                             *)
(***************************************************************************)
\* A schema that found nothing on pages that were all crawled is not served again, whoever
\* made it, holds it or stores another one meanwhile, unless Redis failed: it is in the cache
\* only while an extraction is about to throw it out.
UselessIsNotServed ==
  cache # NoSchema /\ cache.id \in useless =>
    \E r \in Readers : doing[r] \in {"checking", "dropping"} /\ held[r] = cache

Works(schema) == schema # NoSchema /\ schema.layout = layout /\ schema.fits = 1 .. NPages

\* A schema that works stays until it expires, as long as those who are at work have it from
\* the cache and none of their crawls failed.
WorkingSchemaStays ==
  [][/\ Works(cache)
     /\ \A r \in Readers : doing[r] # "idle" => held[r] = cache /\ ~raised[r]
     => cache' = cache \/ Expire]_schemaVars
==============================================================================
