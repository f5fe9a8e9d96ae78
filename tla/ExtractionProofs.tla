-------------------------- MODULE ExtractionProofs --------------------------
(***************************************************************************)
(* Theorems about the schemas that extractions share (SchemaReading), the  *)
(* reading of pages (PageReading), what is added to products               *)
(* (ProductCompletion) and the reading of a catalogue page by page         *)
(* (PagedExtraction), for any number of extractions, schemas, designs,     *)
(* clicks, pages, products and changes of a shop.                          *)
(***************************************************************************)
EXTENDS SchemaReading, PageReading, ProductCompletion, PagedExtraction, ListProofs

(***************************************************************************)
(* SchemaReading.  A schema is told by its number: the numbers given out   *)
(* are 1 to made, and no schema is of a design that is yet to come.        *)
(***************************************************************************)
Made == [id : 1 .. made, layout : 1 .. layout, fits : SUBSET (1 .. NPages)]

SchemasTyped ==
  /\ layout \in Nat \ {0} /\ made \in Nat
  /\ cache \in Made \union {NoSchema}
  /\ doing \in [Readers -> Steps]
  /\ batch \in [Readers -> BOOLEAN]
  /\ held \in [Readers -> Made \union {NoSchema}]
  /\ samples \in [Readers -> SUBSET ((1 .. NPages) \X (1 .. layout))]
  /\ raised \in [Readers -> BOOLEAN]
  /\ useless \subseteq 1 .. made

Empties == {"idle", "fetching", "generating"}

\* Whoever is past the making of a schema has one.
Holding == \A r \in Readers : doing[r] \notin Empties => held[r] # NoSchema

\* A schema that is not stored yet is its maker's alone, and nothing is known against it.
Unshared ==
  \A r \in Readers : doing[r] \in {"sampling", "storing"} =>
    /\ held[r].id \notin useless
    /\ cache # NoSchema => cache.id # held[r].id
    /\ \A s \in Readers \ {r} : held[s] # NoSchema => held[s].id # held[r].id

\* Two schemas of one number are one.
Numbered ==
  \A r \in Readers : cache # NoSchema /\ held[r] # NoSchema /\ held[r].id = cache.id => held[r] = cache

\* Whoever is about to throw out a schema after a crawl that did not fail has seen that it
\* does not work.
FoundWanting ==
  \A r \in Readers : doing[r] \in {"checking", "dropping"} /\ ~raised[r] => ~Works(held[r])

SchemaInv == SchemasTyped /\ Holding /\ Unshared /\ Numbered /\ FoundWanting /\ UselessIsNotServed

LEMMA NoSchemaIsNone ==
  ASSUME NEW m \in Nat, NEW l \in Nat
  PROVE  NoSchema \notin [id : 1 .. m, layout : 1 .. l, fits : SUBSET (1 .. NPages)]
<1>1. [id : 1 .. m, layout : 1 .. l, fits : SUBSET (1 .. NPages)] \subseteq [id : Nat, layout : Nat, fits : SUBSET Nat]
  BY SchemaAssumption
<1> QED
  BY <1>1, SchemaAssumption

LEMMA SchemaAtFirst == SchemaInit => SchemaInv
  BY DEF SchemaInit, SchemaInv, SchemasTyped, Steps, Holding, Empties, Unshared, Numbered,
         FoundWanting, UselessIsNotServed

\* A reader that goes on with what it has, to a step that asks nothing new of it.
LEMMA GoesOn ==
  ASSUME SchemaInv, NEW r \in Readers, NEW step \in Steps,
         Does(r, step), UNCHANGED <<layout, cache, made, batch, held, raised, useless>>,
         samples' \in [Readers -> SUBSET ((1 .. NPages) \X (1 .. layout))],
         step \notin Empties => doing[r] \notin Empties,
         step \in {"sampling", "storing"} => doing[r] \in {"sampling", "storing"},
         step \in {"checking", "dropping"} <=> doing[r] \in {"checking", "dropping"}
  PROVE  SchemaInv'
<1> USE DEF SchemaInv, Does
<1>1. /\ doing' \in [Readers -> Steps] /\ doing'[r] = step
      /\ \A s \in Readers \ {r} : doing'[s] = doing[s]
  BY DEF SchemasTyped
<1>2. SchemasTyped'
  BY <1>1 DEF SchemasTyped, Made
<1>3. Holding' /\ Numbered'
  BY <1>1 DEF Holding, Numbered
<1>4. Unshared'
  BY <1>1 DEF Unshared
<1>5. FoundWanting'
  BY <1>1 DEF FoundWanting, Works
<1>6. UselessIsNotServed'
  BY <1>1 DEF UselessIsNotServed
<1> QED
  BY <1>2, <1>3, <1>4, <1>5, <1>6

\* A reader that returns, when nothing is known against its schema or that is taken back.
LEMMA LeavingKeeps ==
  ASSUME SchemaInv, NEW r \in Readers, Leaves(r), UNCHANGED <<layout, made>>,
         cache' \in {cache, NoSchema},
         \/ useless' = useless \ {held[r].id}
         \/ useless' = useless /\ (doing[r] \in {"checking", "dropping"} => cache' = NoSchema)
  PROVE  SchemaInv'
<1> USE DEF SchemaInv, Leaves, Does
<1>1. /\ doing' \in [Readers -> Steps] /\ doing'[r] = "idle"
      /\ \A s \in Readers \ {r} : doing'[s] = doing[s]
  BY DEF SchemasTyped, Steps
<1>2. /\ held' \in [Readers -> Made \union {NoSchema}] /\ held'[r] = NoSchema
      /\ \A s \in Readers \ {r} : held'[s] = held[s]
  BY DEF SchemasTyped
<1>3. /\ samples' \in [Readers -> SUBSET ((1 .. NPages) \X (1 .. layout))]
      /\ raised' \in [Readers -> BOOLEAN] /\ batch' \in [Readers -> BOOLEAN]
      /\ \A s \in Readers \ {r} : raised'[s] = raised[s]
  BY DEF SchemasTyped
<1>4. useless' \subseteq useless
  OBVIOUS
<1>5. SchemasTyped'
  BY <1>1, <1>2, <1>3, <1>4 DEF SchemasTyped, Made
<1>6. Holding' /\ Numbered'
  BY <1>1, <1>2 DEF Holding, Numbered, Empties
<1>7. Unshared'
  BY <1>1, <1>2, <1>4 DEF Unshared
<1>8. FoundWanting'
  BY <1>1, <1>2, <1>3 DEF FoundWanting, Works
<1>9. UselessIsNotServed'
  BY <1>1, <1>2, <1>4 DEF UselessIsNotServed
<1> QED
  BY <1>5, <1>6, <1>7, <1>8, <1>9

LEMMA LookUpKeeps ==
  ASSUME SchemaInv, NEW r \in Readers, LookUp(r)
  PROVE  SchemaInv'
<1> USE DEF SchemaInv
<1>1. PICK b \in BOOLEAN, found \in {cache, NoSchema} :
        /\ batch' = [batch EXCEPT ![r] = b]
        /\ held' = [held EXCEPT ![r] = found]
        /\ doing' = [doing EXCEPT ![r] = IF found = NoSchema THEN "fetching" ELSE "crawling"]
  BY DEF LookUp, Does
<1>2. doing[r] = "idle" /\ UNCHANGED <<layout, cache, made, samples, raised, useless>>
  BY DEF LookUp
<1>3. /\ doing' \in [Readers -> Steps]
      /\ doing'[r] = IF found = NoSchema THEN "fetching" ELSE "crawling"
      /\ \A s \in Readers \ {r} : doing'[s] = doing[s]
  BY <1>1 DEF SchemasTyped, Steps
<1>4. /\ held' \in [Readers -> Made \union {NoSchema}] /\ held'[r] = found
      /\ \A s \in Readers \ {r} : held'[s] = held[s]
  BY <1>1 DEF SchemasTyped
<1>5. SchemasTyped'
  BY <1>1, <1>2, <1>3, <1>4 DEF SchemasTyped, Made
<1>6. Holding'
  BY <1>3, <1>4 DEF Holding, Empties
<1>7. Numbered'
  BY <1>2, <1>4 DEF Numbered
<1>8. Unshared'
  BY <1>2, <1>3, <1>4 DEF Unshared
<1>9. FoundWanting'
  BY <1>2, <1>3, <1>4 DEF FoundWanting, Works
<1>10. UselessIsNotServed'
  BY <1>2, <1>3, <1>4 DEF UselessIsNotServed
<1> QED
  BY <1>5, <1>6, <1>7, <1>8, <1>9, <1>10

LEMMA GenerateKeeps ==
  ASSUME SchemaInv, NEW r \in Readers, NEW fits \in SUBSET (1 .. NPages), Generate(r, fits)
  PROVE  SchemaInv'
<1> USE DEF SchemaInv
<1> DEFINE next == IF batch[r] /\ NPages > 1 THEN "sampling" ELSE "storing"
<1>1. PICK sample \in samples[r] :
        held' = [held EXCEPT ![r] = [id |-> made + 1, layout |-> sample[2], fits |-> fits]]
  BY DEF Generate
<1>2. /\ doing[r] = "generating" /\ made' = made + 1
      /\ UNCHANGED <<layout, cache, batch, samples, raised, useless>>
  BY DEF Generate
<1>3. next \in {"sampling", "storing"}
  OBVIOUS
<1>4. doing' = [doing EXCEPT ![r] = next]
  BY DEF Generate, Does
<1> DEFINE new == [id |-> made + 1, layout |-> sample[2], fits |-> fits]
<1>5. sample[2] \in 1 .. layout /\ made \in Nat
  BY DEF SchemasTyped
<1> HIDE DEF next
<1>6. /\ doing' \in [Readers -> Steps] /\ doing'[r] \in {"sampling", "storing"}
      /\ \A s \in Readers \ {r} : doing'[s] = doing[s]
  BY <1>3, <1>4 DEF SchemasTyped, Steps
<1>7. new \in Made' /\ new.id = made + 1 /\ Made \subseteq Made'
  BY <1>2, <1>5 DEF Made
<1>8. held'[r] = new /\ \A s \in Readers \ {r} : held'[s] = held[s]
  BY <1>1 DEF SchemasTyped
<1>9. new # NoSchema
  <2>1. made' \in Nat /\ layout' \in Nat
    BY <1>2, <1>5 DEF SchemasTyped
  <2> QED
    BY <2>1, <1>7, NoSchemaIsNone DEF Made
<1> HIDE DEF new
<1>10. held' \in [Readers -> Made' \union {NoSchema}]
  BY <1>1, <1>7 DEF SchemasTyped, new
<1>11. useless' \subseteq 1 .. made'
  BY <1>2, <1>5 DEF SchemasTyped
<1>12. SchemasTyped'
  BY <1>2, <1>5, <1>6, <1>7, <1>10, <1>11 DEF SchemasTyped
<1>13. \A old \in Made : old.id # made + 1
  BY <1>5 DEF Made
<1>14. made + 1 \notin useless
  BY <1>5 DEF SchemasTyped
<1>15. Holding'
  BY <1>6, <1>8, <1>9 DEF Holding, Empties
<1>16. Numbered'
  BY <1>2, <1>7, <1>8, <1>13 DEF Numbered, SchemasTyped
<1>17. Unshared'
  <2> SUFFICES ASSUME NEW q \in Readers, doing'[q] \in {"sampling", "storing"}
               PROVE  /\ held'[q].id \notin useless'
                      /\ cache' # NoSchema => cache'.id # held'[q].id
                      /\ \A s \in Readers \ {q} : held'[s] # NoSchema => held'[s].id # held'[q].id
    BY DEF Unshared
  <2>1. CASE q = r
    BY <2>1, <1>2, <1>7, <1>8, <1>13, <1>14 DEF SchemasTyped
  <2>2. CASE q # r
    <3>1. held'[q] = held[q] /\ doing[q] \in {"sampling", "storing"}
      BY <2>2, <1>6, <1>8
    <3>2. held[q] # NoSchema /\ held[q] \in Made
      BY <3>1 DEF Holding, Empties, SchemasTyped
    <3> QED
      BY <2>2, <3>1, <3>2, <1>2, <1>7, <1>8, <1>13 DEF Unshared
  <2> QED
    BY <2>1, <2>2
<1>18. FoundWanting'
  BY <1>2, <1>6, <1>8 DEF FoundWanting, Works
<1>19. UselessIsNotServed'
  BY <1>2, <1>6, <1>8 DEF UselessIsNotServed
<1> QED
  BY <1>12, <1>15, <1>16, <1>17, <1>18, <1>19

LEMMA StoreKeeps ==
  ASSUME SchemaInv, NEW r \in Readers, Store(r)
  PROVE  SchemaInv'
<1> USE DEF SchemaInv
<1>1. /\ doing[r] = "storing" /\ cache' \in {cache, held[r]}
      /\ UNCHANGED <<layout, made, batch, held, samples, raised, useless>>
  BY DEF Store
<1>2. /\ doing' \in [Readers -> Steps] /\ doing'[r] = "crawling"
      /\ \A s \in Readers \ {r} : doing'[s] = doing[s]
  BY DEF Store, Does, SchemasTyped, Steps
<1>3. /\ held[r] # NoSchema /\ held[r].id \notin useless
      /\ cache # NoSchema => cache.id # held[r].id
      /\ \A s \in Readers \ {r} : held[s] # NoSchema => held[s].id # held[r].id
  BY <1>1 DEF Holding, Unshared, Empties
<1>4. SchemasTyped'
  BY <1>1, <1>2 DEF SchemasTyped, Made
<1>5. Holding' /\ Numbered'
  BY <1>1, <1>2, <1>3 DEF Holding, Numbered, Empties
<1>6. Unshared'
  BY <1>1, <1>2, <1>3 DEF Unshared
<1>7. FoundWanting'
  BY <1>1, <1>2 DEF FoundWanting, Works
<1>8. UselessIsNotServed'
  BY <1>1, <1>2, <1>3 DEF UselessIsNotServed
<1> QED
  BY <1>4, <1>5, <1>6, <1>7, <1>8

\* A crawl of all pages that finds nothing, today, shows that the schema does not work.
LEMMA NothingFoundMeansBroken ==
  ASSUME SchemaInv, NEW r \in Readers, doing[r] = "crawling", Finds(r, Asked(r)) = {}
  PROVE  ~Works(held[r])
<1>1. 1 \in Asked(r) /\ 1 \in 1 .. NPages
  BY SchemaAssumption DEF Asked
<1>2. ~Fits(held[r], <<1, layout>>)
  BY <1>1 DEF Finds
<1> QED
  BY <1>1, <1>2 DEF Fits, Works

LEMMA CrawlFindsNothingKeeps ==
  ASSUME SchemaInv, NEW r \in Readers, NEW crawled, CrawlFindsNothing(r, crawled)
  PROVE  SchemaInv'
<1> USE DEF SchemaInv
<1>1. /\ doing[r] = "crawling"
      /\ useless' = IF crawled = Asked(r) THEN useless \union {held[r].id} ELSE useless
      /\ UNCHANGED <<layout, cache, made, batch, held, samples>>
  BY DEF CrawlFindsNothing
<1>2. /\ doing' \in [Readers -> Steps] /\ doing'[r] = "checking"
      /\ \A s \in Readers \ {r} : doing'[s] = doing[s]
  BY DEF CrawlFindsNothing, Suspects, Does, SchemasTyped, Steps
<1>3. /\ raised' \in [Readers -> BOOLEAN] /\ (raised'[r] <=> crawled # Asked(r))
      /\ \A s \in Readers \ {r} : raised'[s] = raised[s]
  BY DEF CrawlFindsNothing, SchemasTyped
<1>4. held[r] # NoSchema /\ held[r] \in Made
  BY <1>1 DEF Holding, Empties, SchemasTyped
<1>5. held[r].id \in 1 .. made
  BY <1>4 DEF Made
<1>6. SchemasTyped'
  BY <1>1, <1>2, <1>3, <1>5 DEF SchemasTyped, Made
<1>7. Holding' /\ Numbered'
  BY <1>1, <1>2, <1>4 DEF Holding, Numbered, Empties
<1>8. Unshared'
  BY <1>1, <1>2, <1>4 DEF Unshared
<1>9. FoundWanting'
  <2>1. crawled = Asked(r) => ~Works(held[r])
    BY <1>1, NothingFoundMeansBroken DEF CrawlFindsNothing
  <2> QED
    BY <1>1, <1>2, <1>3, <2>1 DEF FoundWanting, Works
<1>10. UselessIsNotServed'
  <2>1. cache # NoSchema /\ cache.id = held[r].id => held[r] = cache
    BY <1>4 DEF Numbered
  <2> QED
    BY <1>1, <1>2, <2>1 DEF UselessIsNotServed
<1> QED
  BY <1>6, <1>7, <1>8, <1>9, <1>10

LEMMA ShopChangesKeep == SchemaInv /\ (Expire \/ Redesign) => SchemaInv'
<1> SUFFICES ASSUME SchemaInv, Expire \/ Redesign PROVE SchemaInv'
  OBVIOUS
<1> USE DEF SchemaInv, reader
<1>1. UNCHANGED <<made, doing, batch, held, samples, raised, useless>> /\ cache' \in {cache, NoSchema}
  BY DEF Expire, Redesign
<1>2. layout' \in {layout, layout + 1}
  BY DEF Expire, Redesign
<1>3. layout' \in Nat \ {0} /\ 1 .. layout \subseteq 1 .. layout'
  BY <1>2 DEF SchemasTyped
<1>4. Made \subseteq Made'
  BY <1>1, <1>3 DEF Made
<1>5. samples' \in [Readers -> SUBSET ((1 .. NPages) \X (1 .. layout'))]
  BY <1>1, <1>3 DEF SchemasTyped
<1>6. SchemasTyped'
  BY <1>1, <1>3, <1>4, <1>5 DEF SchemasTyped
<1>7. Holding' /\ Numbered' /\ Unshared' /\ UselessIsNotServed'
  BY <1>1 DEF Holding, Numbered, Unshared, UselessIsNotServed
<1>8. \A r \in Readers : held[r] # NoSchema /\ held[r].layout = layout' => layout' = layout
  <2> SUFFICES ASSUME NEW r \in Readers, held[r] # NoSchema, held[r].layout = layout'
               PROVE  layout' = layout
    OBVIOUS
  <2>1. held[r].layout \in 1 .. layout
    BY DEF SchemasTyped, Made
  <2> QED
    BY <1>2, <2>1 DEF SchemasTyped
<1>9. FoundWanting'
  BY <1>1, <1>8 DEF FoundWanting, Works
<1> QED
  BY <1>6, <1>7, <1>9

LEMMA SchemaStepKeeps == SchemaInv /\ [SchemaStep]_schemaVars => SchemaInv'
<1> SUFFICES ASSUME SchemaInv, [SchemaStep]_schemaVars PROVE SchemaInv'
  OBVIOUS
<1>1. ASSUME NEW r \in Readers, FetchPrimary(r) PROVE SchemaInv'
  <2>1. <<1, layout>> \in (1 .. NPages) \X (1 .. layout)
    BY SchemaAssumption DEF SchemaInv, SchemasTyped
  <2>2. samples' \in [Readers -> SUBSET ((1 .. NPages) \X (1 .. layout))]
    BY <1>1, <2>1 DEF FetchPrimary, SchemaInv, SchemasTyped
  <2> QED
    BY <1>1, <2>2, GoesOn DEF FetchPrimary, Steps, Empties
<1>2. ASSUME NEW r \in Readers, NEW p \in 1 .. NPages, FetchSample(r, p) PROVE SchemaInv'
  <2>1. <<p, layout>> \in (1 .. NPages) \X (1 .. layout)
    BY DEF SchemaInv, SchemasTyped
  <2>2. samples' \in [Readers -> SUBSET ((1 .. NPages) \X (1 .. layout))]
    BY <1>2, <2>1 DEF FetchSample, SchemaInv, SchemasTyped
  <2>3. doing' = [doing EXCEPT ![r] = "sampling"]
    BY <1>2 DEF FetchSample, SchemaInv, SchemasTyped
  <2> QED
    BY <1>2, <2>2, <2>3, GoesOn DEF FetchSample, Does, Steps, Empties
<1>3. ASSUME NEW r \in Readers, Validated(r) PROVE SchemaInv'
  BY <1>3, GoesOn DEF Validated, Steps, Empties, SchemaInv, SchemasTyped
<1>4. ASSUME NEW r \in Readers, Check(r) PROVE SchemaInv'
  BY <1>4, GoesOn DEF Check, Steps, Empties, SchemaInv, SchemasTyped
<1>5. ASSUME NEW r \in Readers, NoUsableSchema(r) \/ PageFails(r) PROVE SchemaInv'
  BY <1>5, LeavingKeeps DEF NoUsableSchema, PageFails
<1>6. ASSUME NEW r \in Readers, NEW s \in SUBSET (1 .. NPages), CrawlFinds(r, s) PROVE SchemaInv'
  BY <1>6, LeavingKeeps DEF CrawlFinds
<1>7. ASSUME NEW r \in Readers, NothingToDrop(r) \/ Drop(r) PROVE SchemaInv'
  BY <1>7, LeavingKeeps DEF NothingToDrop, Drop, Forgives
<1>8. CASE UNCHANGED schemaVars
  BY <1>8 DEF schemaVars, reader, SchemaInv, SchemasTyped, Made, Holding, Unshared, Numbered,
              FoundWanting, Works, UselessIsNotServed
<1> QED
  BY <1>1, <1>2, <1>3, <1>4, <1>5, <1>6, <1>7, <1>8, LookUpKeeps, GenerateKeeps, StoreKeeps,
     CrawlFindsNothingKeeps, ShopChangesKeep DEF SchemaStep

(* However many extractions make, hold, store and throw out schemas of one *)
(* shop at once, one that found nothing on pages that were all crawled is  *)
(* in the cache only while an extraction is about to throw it out.         *)
THEOREM UselessSchemaLeaves == SchemaSpec => []UselessIsNotServed
<1>1. SchemaInv => UselessIsNotServed
  BY DEF SchemaInv
<1> QED
  BY <1>1, SchemaAtFirst, SchemaStepKeeps, PTL DEF SchemaSpec

(* A schema that works on every page of the shop as it is now is neither   *)
(* replaced nor thrown out while those at work have it from the cache and  *)
(* none of their crawls failed.                                            *)
THEOREM WorkingSchemaKept == SchemaSpec => WorkingSchemaStays
<1>1. SchemaInv /\ [SchemaStep]_schemaVars =>
        [/\ Works(cache)
         /\ \A r \in Readers : doing[r] # "idle" => held[r] = cache /\ ~raised[r]
         => cache' = cache \/ Expire]_schemaVars
  <2> SUFFICES ASSUME SchemaInv, SchemaStep, Works(cache),
                      \A r \in Readers : doing[r] # "idle" => held[r] = cache /\ ~raised[r]
               PROVE  cache' = cache \/ Expire
    OBVIOUS
  <2>1. ASSUME NEW r \in Readers, Store(r) PROVE cache' = cache
    BY <2>1 DEF Store
  <2>2. ASSUME NEW r \in Readers PROVE ~Drop(r)
    BY <2>2 DEF Drop, SchemaInv, FoundWanting
  <2> QED
    BY <2>1, <2>2
    DEF SchemaStep, LookUp, FetchPrimary, Validated, NoUsableSchema, Generate, CrawlFinds,
        CrawlFindsNothing, FetchSample, PageFails, Check, NothingToDrop, Redesign, reader
<1> QED
  BY <1>1, SchemaAtFirst, SchemaStepKeeps, PTL DEF SchemaSpec, WorkingSchemaStays

-----------------------------------------------------------------------------
(***************************************************************************)
(* StealthExhausted.  Where a reading is tells how it came there, and in   *)
(* the browser the levels tried are those below the next one.              *)
(***************************************************************************)
Routed ==
  /\ way \in Ways
  /\ at \in {"static", "llm", "load_more", "clicking", "batch"} =>
       way = CASE at = "static" -> "unified" [] at = "clicking" -> "load_more" [] OTHER -> at
  /\ at \in {"static", "browser"} => way \in {"unified", "css"}

LevelsInOrder ==
  /\ lowest \in Levels
  /\ at = "static" => level = lowest /\ tried = {}
  /\ at = "browser" => level \in lowest .. 4 /\ tried = lowest .. level - 1

StealthInv == Routed /\ LevelsInOrder /\ StealthExhausted

LEMMA StealthAtFirst == PageInit => StealthInv
<1> SUFFICES ASSUME PageInit PROVE StealthInv
  OBVIOUS
<1>1. lowest \in 1 .. 3 /\ level = lowest /\ tried = {} /\ at # "answered"
  BY DEF PageInit, Levels, Ways
<1>2. lowest .. level - 1 = {}
  BY <1>1
<1>3. Routed
  BY DEF PageInit, Routed, Ways
<1> QED
  BY <1>1, <1>2, <1>3 DEF StealthInv, LevelsInOrder, StealthExhausted, Levels

\* Steps of the other ways of reading.
Elsewhere ==
  \/ \E ps \in Readings : LLMAnswers(ps)
  \/ LLMFails
  \/ \E n \in 0 .. MaxListed : Loads(n) \/ ClickShowsMore(n)
  \/ LoadFails \/ ClickingEnds
  \/ \E outcome \in Outcomes : PageOfBatch(outcome)
  \/ BatchEnds \/ BatchRaises

LEMMA ElsewhereApart ==
  ASSUME Elsewhere, Routed
  PROVE  /\ way \notin {"unified", "css"} /\ UNCHANGED <<way, lowest, static>>
         /\ at' \notin {"static", "browser"} /\ Routed'
<1> USE DEF Routed, Answer, Ways
<1>1. CASE \E ps \in Readings : LLMAnswers(ps)
  BY <1>1 DEF LLMAnswers
<1>2. CASE LLMFails \/ LoadFails \/ ClickingEnds \/ BatchEnds \/ BatchRaises
  BY <1>2 DEF LLMFails, LoadFails, ClickingEnds, BatchEnds, BatchRaises
<1>3. CASE \E n \in 0 .. MaxListed : Loads(n) \/ ClickShowsMore(n)
  BY <1>3 DEF Loads, ClickShowsMore
<1>4. CASE \E outcome \in Outcomes : PageOfBatch(outcome)
  BY <1>4 DEF PageOfBatch
<1> QED
  BY <1>1, <1>2, <1>3, <1>4 DEF Elsewhere

LEMMA ToBrowserKeeps ==
  ASSUME StealthInv, NEW found, at = "static", ToBrowser(found)
  PROVE  StealthInv'
<1>1. at' = "browser" /\ UNCHANGED <<way, lowest, level, tried>>
  BY DEF ToBrowser
<1>2. level = lowest /\ tried = {} /\ lowest \in 1 .. 3
  BY DEF StealthInv, LevelsInOrder, Levels
<1>3. level \in lowest .. 4 /\ tried = lowest .. level - 1
  BY <1>2
<1> QED
  BY <1>1, <1>3 DEF StealthInv, Routed, LevelsInOrder, StealthExhausted

LEMMA StealthStepKeeps == StealthInv /\ [PageStep]_pageVars => StealthInv'
<1> SUFFICES ASSUME StealthInv, [PageStep]_pageVars PROVE StealthInv'
  OBVIOUS
<1> USE DEF StealthInv
<1>1. ASSUME NEW v \in Views, StaticAnswers(v) PROVE StealthInv'
  <2>1. CASE Answer(Structured(v), TRUE, v) /\ UNCHANGED <<level, tried>>
    BY <1>1, <2>1 DEF StaticAnswers, Answer, Routed, LevelsInOrder, StealthExhausted
  <2>2. CASE ToBrowser(Structured(v))
    BY <1>1, <2>2, ToBrowserKeeps DEF StaticAnswers
  <2> QED
    BY <1>1, <2>1, <2>2 DEF StaticAnswers
<1>2. CASE StaticFails
  BY <1>2, ToBrowserKeeps DEF StaticFails
<1>3. CASE LevelFails
  <2>1. /\ at = "browser" /\ level \in Levels /\ tried' = tried \union {level} /\ level' = level + 1
        /\ UNCHANGED <<way, lowest, at, answer>>
    BY <1>3 DEF LevelFails, Browsing, Tries, Escalates
  <2>2. lowest \in 1 .. 3 /\ level \in 1 .. 3 /\ lowest <= level /\ tried = lowest .. level - 1
    BY <2>1 DEF LevelsInOrder, Levels
  <2>3. level' \in lowest .. 4
    BY <2>1, <2>2
  <2>4. tried' = lowest .. level' - 1
    BY <2>1, <2>2
  <2> QED
    BY <2>1, <2>2, <2>3, <2>4 DEF Levels, Routed, LevelsInOrder, StealthExhausted
<1>4. ASSUME NEW v \in Views, BrowserFindsNothing(v) PROVE LevelFails
  BY <1>4 DEF BrowserFindsNothing
<1>5. ASSUME NEW v \in Views, BrowserAnswers(v) PROVE StealthInv'
  <2>1. at' = "answered" /\ UNCHANGED <<way, lowest>> /\ answer'.products # <<>>
    BY <1>5 DEF BrowserAnswers, Answer, Result
  <2> QED
    BY <2>1 DEF Routed, LevelsInOrder, StealthExhausted
<1>6. CASE GivesUp
  <2>0. at = "browser" /\ (level \notin Levels \/ tried = {})
    BY <1>6 DEF GivesUp
  <2>1. at' = "answered" /\ UNCHANGED <<way, lowest, tried>>
    BY <1>6 DEF GivesUp, Answer
  <2>2. level \in lowest .. 4 /\ lowest \in 1 .. 3 /\ tried = lowest .. level - 1
    BY <2>0 DEF LevelsInOrder, Levels
  <2>3. level \notin 1 .. 3 => level = 4
    BY <2>2
  <2>4. tried = {} \/ tried = lowest .. 3
    BY <2>0, <2>2, <2>3 DEF Levels
  <2> QED
    BY <2>1, <2>4 DEF Routed, LevelsInOrder, StealthExhausted
<1>7. CASE Elsewhere
  BY <1>7, ElsewhereApart DEF Routed, LevelsInOrder, StealthExhausted
<1>8. CASE UNCHANGED pageVars
  BY <1>8 DEF pageVars, Routed, LevelsInOrder, StealthExhausted
<1> QED
  BY <1>1, <1>2, <1>3, <1>4, <1>5, <1>6, <1>7, <1>8 DEF PageStep, Elsewhere

(* Whatever the pages show and whichever attempts fail, a page is given up *)
(* without a product only after every level of stealth from the configured *)
(* one up was tried, if the browser started.                               *)
THEOREM EveryLevelTried == PageSpec => []StealthExhausted
<1>1. StealthInv => StealthExhausted
  BY DEF StealthInv
<1> QED
  BY <1>1, StealthAtFirst, StealthStepKeeps, PTL DEF PageSpec

-----------------------------------------------------------------------------
(***************************************************************************)
(* NothingLost, for each way of reading.                                   *)
(***************************************************************************)
StaticKept ==
  /\ at \notin {"browser", "answered"} => static = <<>>
  /\ at = "answered" /\ static # <<>> => answer.products # <<>>

ClicksCounted ==
  way = "load_more" =>
    /\ clicks \in Nat /\ (at = "load_more" => clicks = 0)
    /\ answer.products \in Seq(Nat) /\ Len(answer.products) >= clicks

BatchAnswered ==
  way = "batch" =>
    /\ handled \in Seq(Outcomes) /\ answer.products \in Seq(Nat)
    /\ Answers = {i \in DOMAIN handled : handled[i] = "products"}
    /\ at = "answered" /\ answer.complete => Len(handled) = BatchUrls

LostInv == Routed /\ StaticKept /\ ClicksCounted /\ BatchAnswered

LEMMA NothingLostAtFirst == PageInit => LostInv
<1> SUFFICES ASSUME PageInit PROVE LostInv
  OBVIOUS
<1>1. StealthInv
  BY StealthAtFirst
<1>2. answer.products = <<>> /\ handled = <<>> /\ static = <<>> /\ clicks = 0 /\ at # "answered"
  BY DEF PageInit, Result, Ways
<1>3. Answers = {} /\ {i \in DOMAIN handled : handled[i] = "products"} = {}
  BY <1>2 DEF Answers
<1>4. Len(answer.products) = 0
  BY <1>2
<1> QED
  BY <1>1, <1>2, <1>3, <1>4 DEF StealthInv, LostInv, StaticKept, ClicksCounted, BatchAnswered

\* Where the way is that of one page, the rest of the invariant says nothing.
LEMMA OnePageLosesNothing ==
  ASSUME Routed', StaticKept', way' \notin {"load_more", "batch"}
  PROVE  LostInv'
  BY DEF LostInv, ClicksCounted, BatchAnswered

LEMMA ListedIsSequence ==
  ASSUME NEW n \in Nat
  PROVE  Listed(n) \in Seq(Nat) /\ Len(Listed(n)) = n
  BY DEF Listed

\* A page more of a batch.
Elements(q) == {q[i] : i \in DOMAIN q}

LEMMA AppendedElements ==
  ASSUME NEW S, NEW q \in Seq(S), NEW x \in S
  PROVE  Elements(Append(q, x)) = Elements(q) \union {x}
<1> DEFINE longer == Append(q, x)
<1>1. Len(q) \in Nat /\ DOMAIN q = 1 .. Len(q)
  OBVIOUS
<1>2. DOMAIN longer = 1 .. Len(q) + 1 /\ longer[Len(q) + 1] = x
  OBVIOUS
<1>3. \A i \in 1 .. Len(q) : longer[i] = q[i]
  OBVIOUS
<1> HIDE DEF longer
<1>4. 1 .. Len(q) + 1 = (1 .. Len(q)) \union {Len(q) + 1}
  BY <1>1
<1>5. {longer[i] : i \in DOMAIN longer} = {q[i] : i \in DOMAIN q} \union {x}
  BY <1>1, <1>2, <1>3, <1>4
<1> QED
  BY <1>5 DEF longer, Elements

LEMMA BatchGrows ==
  ASSUME LostInv, NEW outcome \in Outcomes, PageOfBatch(outcome)
  PROVE  LostInv'
<1> USE DEF LostInv
<1>1. /\ at = "batch" /\ way = "batch" /\ handled' = Append(handled, outcome)
      /\ UNCHANGED <<way, at, static, clicks>>
  BY DEF PageOfBatch, Routed
<1>2. handled \in Seq(Outcomes) /\ answer.products \in Seq(Nat)
  BY <1>1 DEF BatchAnswered
<1>3. handled' \in Seq(Outcomes) /\ Len(handled) \in Nat
  BY <1>1, <1>2
<1>4. \A i : i \in DOMAIN handled' /\ handled'[i] = "products" <=>
        \/ i \in DOMAIN handled /\ handled[i] = "products"
        \/ i = Len(handled) + 1 /\ outcome = "products"
  BY <1>1, <1>2
<1>5. CASE outcome = "products"
  <2>1. answer'.products = Append(answer.products, Len(handled) + 1)
    BY <1>5 DEF PageOfBatch, Result
  <2>2. Answers' = Answers \union {Len(handled) + 1}
    <3>1. Answers = Elements(answer.products) /\ Answers' = Elements(answer'.products)
      BY DEF Answers, Elements
    <3>2. Len(handled) + 1 \in Nat
      BY <1>3
    <3> QED
      BY <1>2, <2>1, <3>1, <3>2, AppendedElements
  <2>3. answer'.products \in Seq(Nat)
    BY <1>2, <1>3, <2>1
  <2>4. Answers' = {i \in DOMAIN handled' : handled'[i] = "products"}
    BY <1>1, <1>4, <1>5, <2>2 DEF BatchAnswered
  <2> QED
    BY <1>1, <1>3, <2>3, <2>4 DEF Routed, StaticKept, ClicksCounted, BatchAnswered
<1>6. CASE outcome # "products"
  <2>1. answer' = answer
    BY <1>6 DEF PageOfBatch
  <2>2. Answers' = {i \in DOMAIN handled' : handled'[i] = "products"}
    BY <1>1, <1>4, <1>6, <2>1 DEF BatchAnswered, Answers
  <2> QED
    BY <1>1, <1>2, <1>3, <2>1, <2>2 DEF Routed, StaticKept, ClicksCounted, BatchAnswered
<1> QED
  BY <1>5, <1>6

LEMMA ClicksKeep ==
  ASSUME LostInv, NEW n \in 0 .. MaxListed, Loads(n) \/ ClickShowsMore(n)
  PROVE  LostInv'
<1> USE DEF LostInv
<1>1. /\ way = "load_more" /\ at' = "clicking" /\ UNCHANGED <<way, static>>
      /\ static = <<>> /\ clicks \in Nat /\ Len(answer.products) >= clicks
      /\ answer.products \in Seq(Nat)
  BY DEF Loads, ClickShowsMore, Routed, StaticKept, ClicksCounted
<1>2. n \in Nat /\ answer'.products = Listed(n)
  BY ReadingAssumption DEF Loads, ClickShowsMore, Result
<1>3. \/ clicks = 0 /\ clicks' = 0
      \/ n > Len(answer.products) /\ clicks' = clicks + 1
  BY DEF Loads, ClickShowsMore, Routed, ClicksCounted
<1>4. Len(answer.products) \in Nat
  BY <1>1
<1>5. clicks' \in Nat /\ n >= clicks'
  BY <1>1, <1>2, <1>3, <1>4
<1>6. answer'.products \in Seq(Nat) /\ Len(answer'.products) >= clicks'
  BY <1>2, <1>5, ListedIsSequence
<1> QED
  BY <1>1, <1>5, <1>6 DEF Routed, StaticKept, ClicksCounted, BatchAnswered, Ways

LEMMA LostStepKeeps == LostInv /\ [PageStep]_pageVars => LostInv'
<1> SUFFICES ASSUME LostInv, [PageStep]_pageVars PROVE LostInv'
  OBVIOUS
<1> USE DEF LostInv
<1>1. ASSUME NEW found, at = "static", ToBrowser(found) PROVE LostInv'
  BY <1>1, OnePageLosesNothing DEF ToBrowser, Routed, StaticKept
<1>2. ASSUME NEW v \in Views, StaticAnswers(v) PROVE LostInv'
  <2>1. CASE Answer(Structured(v), TRUE, v)
    BY <1>2, <2>1, OnePageLosesNothing DEF StaticAnswers, Answer, Routed, StaticKept
  <2> QED
    BY <1>1, <1>2, <2>1 DEF StaticAnswers
<1>3. CASE StaticFails
  BY <1>1, <1>3 DEF StaticFails
<1>4. CASE LevelFails
  BY <1>4, OnePageLosesNothing DEF LevelFails, Browsing, Routed, StaticKept
<1>5. ASSUME NEW v \in Views, BrowserFindsNothing(v) PROVE LostInv'
  BY <1>4, <1>5 DEF BrowserFindsNothing
<1>6. ASSUME NEW v \in Views, BrowserAnswers(v) PROVE LostInv'
  <2>1. /\ way \in {"unified", "css"} /\ at' = "answered" /\ UNCHANGED <<way, static>>
        /\ answer'.products # <<>>
    BY <1>6 DEF BrowserAnswers, Answer, Result, Browsing, Routed
  <2> QED
    BY <2>1, OnePageLosesNothing DEF Routed, StaticKept
<1>7. CASE GivesUp
  BY <1>7, OnePageLosesNothing DEF GivesUp, Answer, Result, Routed, StaticKept
<1>8. ASSUME NEW ps \in Readings, LLMAnswers(ps) PROVE LostInv'
  BY <1>8, OnePageLosesNothing DEF LLMAnswers, Answer, Routed, StaticKept
<1>9. CASE LLMFails
  BY <1>9, OnePageLosesNothing DEF LLMFails, Answer, Routed, StaticKept
<1>10. CASE LoadFails \/ ClickingEnds
  <2>1. /\ way = "load_more" /\ at' = "answered" /\ UNCHANGED <<way, static, clicks>>
        /\ static = <<>> /\ clicks \in Nat
    BY <1>10 DEF LoadFails, ClickingEnds, Answer, Routed, StaticKept, ClicksCounted
  <2>2. answer'.products \in Seq(Nat) /\ Len(answer'.products) >= clicks
    <3>1. CASE LoadFails
      BY <3>1, <2>1 DEF LoadFails, Answer, Result, ClicksCounted
    <3>2. CASE ClickingEnds
      BY <3>2, <2>1 DEF ClickingEnds, Answer, Result, ClicksCounted
    <3> QED
      BY <1>10, <3>1, <3>2
  <2> QED
    BY <2>1, <2>2 DEF Routed, StaticKept, ClicksCounted, BatchAnswered, Ways
<1>11. CASE BatchEnds \/ BatchRaises
  <2>1. /\ way = "batch" /\ at' = "answered" /\ UNCHANGED <<way, static, handled>>
        /\ static = <<>> /\ answer'.products = answer.products
        /\ answer'.complete => Len(handled) = BatchUrls
    BY <1>11 DEF BatchEnds, BatchRaises, Answer, Result, Routed, StaticKept
  <2>2. Answers' = Answers
    BY <2>1 DEF Answers
  <2> QED
    BY <2>1, <2>2 DEF Routed, StaticKept, ClicksCounted, BatchAnswered, Ways
<1>12. CASE UNCHANGED pageVars
  BY <1>12 DEF pageVars, Routed, StaticKept, ClicksCounted, BatchAnswered, Answers
<1> QED
  BY <1>2, <1>3, <1>4, <1>5, <1>6, <1>7, <1>8, <1>9, <1>10, <1>11, <1>12, BatchGrows, ClicksKeep
  DEF PageStep

(* What was found once survives every later failure: the products of the   *)
(* static page, the list before a click, and every page of a batch that    *)
(* gave products; and a batch called complete has looked at every page.    *)
THEOREM FoundIsKept == PageSpec => []NothingLost
<1>1. LostInv => NothingLost
  BY DEF LostInv, StaticKept, ClicksCounted, BatchAnswered, NothingLost
<1> QED
  BY <1>1, NothingLostAtFirst, LostStepKeeps, PTL DEF PageSpec

-----------------------------------------------------------------------------
(***************************************************************************)
(* MergeKeepsValues.  Who leads is told by those who lead before him; the  *)
(* recursion ends because the positions are numbers.                       *)
(***************************************************************************)
Follows(ps, leads, i) ==
  ~Blank(ps[i]) /\ \A j \in 1 .. i - 1 : leads[j] => ~Similar(ps[j], ps[i])

Led(ps, leads, m) == leads = [i \in 1 .. m |-> Follows(ps, leads, i)]

LEMMA OneMoreLed ==
  ASSUME NEW ps, NEW m \in Nat, NEW f, Led(ps, f, m)
  PROVE  \E g : Led(ps, g, m + 1)
<1> DEFINE g == [i \in 1 .. m + 1 |-> IF i <= m THEN f[i] ELSE Follows(ps, f, i)]
<1>1. \A i \in 1 .. m : g[i] = f[i] /\ f[i] = Follows(ps, f, i)
  BY DEF Led
<1>2. g = [i \in 1 .. m + 1 |-> g[i]]
  OBVIOUS
<1>3. g[m + 1] = Follows(ps, f, m + 1)
  OBVIOUS
<1> HIDE DEF g
<1>4. \A i \in 1 .. m + 1 : Follows(ps, g, i) = Follows(ps, f, i)
  <2> SUFFICES ASSUME NEW i \in 1 .. m + 1 PROVE Follows(ps, g, i) = Follows(ps, f, i)
    OBVIOUS
  <2>1. \A j \in 1 .. i - 1 : g[j] = f[j]
    BY <1>1
  <2> QED
    BY <2>1 DEF Follows
<1>5. \A i \in 1 .. m + 1 : g[i] = Follows(ps, g, i)
  <2>1. \A i \in 1 .. m + 1 : i \in 1 .. m \/ i = m + 1
    OBVIOUS
  <2> QED
    BY <1>1, <1>3, <1>4, <2>1
<1>6. Led(ps, g, m + 1)
  BY <1>2, <1>5 DEF Led
<1> QED
  BY <1>6

LEMMA LeadsAre ==
  ASSUME NEW ps, NEW n \in Nat, DOMAIN ps = 1 .. n
  PROVE  /\ Leads(ps) \subseteq 1 .. n
         /\ \A i \in 1 .. n : i \in Leads(ps) <=>
              ~Blank(ps[i]) /\ \A j \in 1 .. i - 1 : j \in Leads(ps) => ~Similar(ps[j], ps[i])
<1>1. \A m \in Nat : \E f : Led(ps, f, m)
  <2> DEFINE T == {m \in Nat : ~\E f : Led(ps, f, m)}
  <2> SUFFICES ASSUME T # {} PROVE FALSE
    OBVIOUS
  <2>1. PICK m \in T : \A k \in T : m <= k
    BY LeastOf
  <2>2. Led(ps, <<>>, 0)
    <3>1. <<>> = [i \in 1 .. 0 |-> Follows(ps, <<>>, i)]
      OBVIOUS
    <3> QED
      BY <3>1 DEF Led
  <2>3. m # 0
    BY <2>2
  <2>4. m - 1 \in Nat /\ m - 1 \notin T
    BY <2>1, <2>3
  <2>5. \E f : Led(ps, f, m - 1 + 1)
    BY <2>4, OneMoreLed
  <2> QED
    BY <2>5
<1> DEFINE leads == CHOOSE f : f = [i \in DOMAIN ps |-> Follows(ps, f, i)]
<1>2. leads = [i \in 1 .. n |-> Follows(ps, leads, i)]
  <2>1. \E f : f = [i \in DOMAIN ps |-> Follows(ps, f, i)]
    BY <1>1 DEF Led
  <2> QED
    BY <2>1
<1>3. Leads(ps) = {i \in DOMAIN ps : leads[i]}
  BY DEF Leads, Follows
<1> HIDE DEF leads
<1>4. \A i \in 1 .. n : leads[i] = Follows(ps, leads, i) /\ (i \in Leads(ps) <=> leads[i])
  BY <1>2, <1>3
<1>5. ASSUME NEW i \in 1 .. n
      PROVE  i \in Leads(ps) <=>
               ~Blank(ps[i]) /\ \A j \in 1 .. i - 1 : j \in Leads(ps) => ~Similar(ps[j], ps[i])
  <2>1. \A j \in 1 .. i - 1 : j \in 1 .. n
    OBVIOUS
  <2> QED
    BY <1>4, <2>1 DEF Follows
<1> QED
  BY <1>3, <1>5

LEMMA SimilarToEachOther ==
  ASSUME NEW p, NEW q, Similar(p, q)
  PROVE  Similar(q, p)
<1>1. {p.title, q.title} = {q.title, p.title}
  OBVIOUS
<1> QED
  BY <1>1 DEF Similar

\* Whoever has a title is taken by one who leads, and a leader takes himself first.
LEMMA TakenByOne ==
  ASSUME NEW ps, NEW n \in Nat, DOMAIN ps = 1 .. n
  PROVE  /\ \A i \in Leads(ps) : Takes(ps, i, i)
         /\ \A i \in 1 .. n : ~Blank(ps[i]) =>
              \E l \in Leads(ps) : Takes(ps, l, i) /\ (l = i \/ Similar(ps[l], ps[i]))
<1>1. Leads(ps) \subseteq 1 .. n /\ Leads(ps) \in SUBSET Nat
  BY LeadsAre
<1>2. \A i \in 1 .. n : i \in Leads(ps) <=>
        ~Blank(ps[i]) /\ \A j \in 1 .. i - 1 : j \in Leads(ps) => ~Similar(ps[j], ps[i])
  BY LeadsAre
<1>3. \A i \in Leads(ps) : Takes(ps, i, i)
  BY <1>1, <1>2 DEF Takes
<1>4. ASSUME NEW i \in 1 .. n, ~Blank(ps[i]), i \notin Leads(ps)
      PROVE  \E l \in Leads(ps) : Takes(ps, l, i) /\ Similar(ps[l], ps[i])
  <2> DEFINE like == {j \in Leads(ps) : j < i /\ Similar(ps[j], ps[i])}
  <2>1. like \in SUBSET Nat /\ like # {}
    BY <1>1, <1>2, <1>4
  <2>2. PICK l \in like : \A j \in like : l <= j
    BY <2>1, LeastOf
  <2>3. \A k \in Leads(ps) : k < l => ~Similar(ps[k], ps[i])
    BY <1>1, <2>2
  <2> QED
    BY <1>4, <2>2, <2>3 DEF Takes
<1> QED
  BY <1>3, <1>4

\* What a merged product has.
LEMMA CombinedHas ==
  ASSUME NEW ps, NEW n \in Nat, DOMAIN ps = 1 .. n, NEW l \in Leads(ps), NEW f \in {"price", "image"}
  PROVE  /\ Combined(ps, l)[f] = FirstValue(ps, l, f)
         /\ ps[l][f] \in {FirstValue(ps, l, f), "none"}
         /\ \A i \in 1 .. n : Takes(ps, l, i) /\ ps[i][f] # "none" => FirstValue(ps, l, f) # "none"
<1> DEFINE with == {j \in DOMAIN ps : Takes(ps, l, j) /\ ps[j][f] # "none"}
<1>1. Combined(ps, l)[f] = FirstValue(ps, l, f)
  BY DEF Combined
<1>2. FirstValue(ps, l, f) = IF with = {} THEN "none" ELSE ps[Earliest(with)][f]
  BY DEF FirstValue
<1>3. with \in SUBSET Nat /\ with \subseteq 1 .. n
  OBVIOUS
<1>4. with # {} => Earliest(with) \in with /\ \A j \in with : Earliest(with) <= j
  <2> HIDE DEF with
  <2> QED
    BY <1>3, EarliestIs
<1>5. l \in 1 .. n /\ Takes(ps, l, l)
  BY LeadsAre, TakenByOne
<1>6. ASSUME ps[l][f] # "none" PROVE ps[l][f] = FirstValue(ps, l, f)
  <2>1. l \in with
    BY <1>5, <1>6
  <2>2. \A j \in with : l <= j
    <3>1. \A j \in with : Takes(ps, l, j) /\ j \in Nat
      BY <1>3
    <3> HIDE DEF with
    <3> QED
      BY <1>5, <3>1 DEF Takes
  <2>3. Earliest(with) \in with /\ Earliest(with) <= l /\ l <= Earliest(with)
    BY <1>4, <2>1, <2>2
  <2>4. Earliest(with) = l
    <3>1. Earliest(with) \in Nat /\ l \in Nat
      BY <1>3, <1>5, <2>3
    <3> HIDE DEF with
    <3> QED
      BY <2>3, <3>1
  <2> HIDE DEF with
  <2> QED
    BY <1>2, <2>1, <2>4
<1>7. ASSUME NEW i \in 1 .. n, Takes(ps, l, i), ps[i][f] # "none"
      PROVE  FirstValue(ps, l, f) # "none"
  <2>1. i \in with
    BY <1>7
  <2>2. Earliest(with) \in with
    BY <1>4, <2>1
  <2>3. ps[Earliest(with)][f] # "none"
    BY <2>2
  <2> HIDE DEF with
  <2> QED
    BY <1>2, <2>1, <2>3
<1> QED
  BY <1>1, <1>6, <1>7

\* A merged answer.
KeepsAll(ps, qs) ==
  /\ \A i \in DOMAIN ps : ~Blank(ps[i]) =>
       \E n \in DOMAIN qs : /\ Similar(qs[n], ps[i])
                            /\ \A f \in {"price", "image"} : ps[i][f] # "none" => qs[n][f] # "none"
  /\ \A n \in DOMAIN qs : \E i \in DOMAIN ps :
       /\ ps[i].title = qs[n].title
       /\ \A f \in {"price", "image"} : ps[i][f] \in {qs[n][f], "none"}
  /\ \A i, j \in DOMAIN qs : i # j => ~Similar(qs[i], qs[j])

LEMMA SimilarByTitle ==
  ASSUME NEW p, NEW q, NEW r, p.title = r.title
  PROVE  Similar(p, q) <=> Similar(r, q)
  BY DEF Similar

LEMMA MergedKeeps ==
  ASSUME NEW T, NEW ps \in Seq(T), Len(ps) > 1, \A p \in T : p.title \in Seq(STRING)
  PROVE  KeepsAll(ps, Merged(ps))
<1> DEFINE n == Len(ps)  S == Leads(ps)  m == Cardinality(S)  lead == InOrder(S)  qs == Merged(ps)
<1>1. n \in Nat /\ DOMAIN ps = 1 .. n /\ \A i \in 1 .. n : ps[i] \in T
  OBVIOUS
<1>2. S \subseteq 1 .. n /\ S \in SUBSET Nat /\ IsFiniteSet(S)
  <2>1. S \subseteq 1 .. n
    BY <1>1, LeadsAre
  <2>2. IsFiniteSet(1 .. n)
    BY <1>1, FS_Interval
  <2> HIDE DEF S, n
  <2>3. IsFiniteSet(S)
    BY <2>1, <2>2, FS_Subset
  <2> QED
    BY <1>1, <2>1, <2>3
<1>3. /\ lead \in [1 .. m -> S]
      /\ \A a, b \in 1 .. m : a < b => lead[a] < lead[b]
      /\ \A l \in S : \E a \in 1 .. m : lead[a] = l
      /\ m \in Nat
  <2> HIDE DEF S
  <2> QED
    BY <1>2, InOrderListsAll, FS_CardinalityType
<1>4. DOMAIN qs = 1 .. m /\ \A a \in 1 .. m : qs[a] = Combined(ps, lead[a])
  <2>1. DOMAIN lead = 1 .. m
    BY <1>3
  <2>2. qs = [a \in DOMAIN lead |-> Combined(ps, lead[a])]
    BY <1>1 DEF Merged
  <2> HIDE DEF qs, lead, m
  <2> QED
    BY <2>1, <2>2
<1> HIDE DEF n, m, lead, qs
<1>5. \A l \in S : Combined(ps, l).title = ps[l].title
  BY DEF Combined
<1>6. ASSUME NEW i \in 1 .. n, ~Blank(ps[i])
      PROVE  \E a \in 1 .. m : /\ Similar(qs[a], ps[i])
                               /\ \A f \in {"price", "image"} : ps[i][f] # "none" => qs[a][f] # "none"
  <2>1. PICK l \in S : Takes(ps, l, i) /\ (l = i \/ Similar(ps[l], ps[i]))
    BY <1>1, <1>6, TakenByOne
  <2>2. PICK a \in 1 .. m : lead[a] = l
    BY <1>3, <2>1
  <2>3. qs[a] = Combined(ps, l) /\ qs[a].title = ps[l].title
    BY <1>4, <1>5, <2>2
  <2>4. Similar(ps[l], ps[i])
    <3>1. CASE l = i
      <4>1. ps[i].title \in Seq(STRING)
        BY <1>1
      <4>2. IsPrefixOf(ps[i].title, ps[i].title)
        BY <4>1 DEF IsPrefixOf
      <4> QED
        BY <3>1, <4>2 DEF Similar
    <3> QED
      BY <2>1, <3>1
  <2>5. Similar(qs[a], ps[i])
    BY <2>3, <2>4, SimilarByTitle
  <2>6. ASSUME NEW f \in {"price", "image"}, ps[i][f] # "none" PROVE qs[a][f] # "none"
    BY <1>1, <2>1, <2>3, <2>6, CombinedHas
  <2> QED
    BY <2>5, <2>6
<1>7. ASSUME NEW a \in 1 .. m
      PROVE  \E i \in 1 .. n : /\ ps[i].title = qs[a].title
                               /\ \A f \in {"price", "image"} : ps[i][f] \in {qs[a][f], "none"}
  <2>1. lead[a] \in S /\ lead[a] \in 1 .. n /\ qs[a] = Combined(ps, lead[a])
    BY <1>2, <1>3, <1>4
  <2>2. \A f \in {"price", "image"} : ps[lead[a]][f] \in {qs[a][f], "none"}
    BY <1>1, <2>1, CombinedHas
  <2> QED
    BY <1>5, <2>1, <2>2
<1>8. ASSUME NEW a \in 1 .. m, NEW b \in 1 .. m, a < b
      PROVE  ~Similar(qs[a], qs[b]) /\ ~Similar(qs[b], qs[a])
  <2>1. lead[a] \in S /\ lead[b] \in S /\ lead[a] < lead[b]
    BY <1>3, <1>8
  <2>2. lead[a] \in 1 .. lead[b] - 1 /\ lead[b] \in 1 .. n
    BY <1>1, <1>2, <2>1
  <2>3. ~Similar(ps[lead[a]], ps[lead[b]])
    BY <1>1, <2>1, <2>2, LeadsAre
  <2>4. qs[a].title = ps[lead[a]].title /\ qs[b].title = ps[lead[b]].title
    BY <1>4, <1>5, <2>1
  <2>5. ~Similar(qs[a], qs[b])
    BY <2>3, <2>4 DEF Similar
  <2> QED
    BY <2>5, SimilarToEachOther
<1>9. ASSUME NEW a \in 1 .. m, NEW b \in 1 .. m, a # b PROVE ~Similar(qs[a], qs[b])
  <2>1. a < b \/ b < a
    BY <1>9
  <2> QED
    BY <1>8, <2>1
<1> QED
  BY <1>1, <1>4, <1>6, <1>7, <1>9 DEF KeepsAll, qs, m

(***************************************************************************)
(* What several chunks of a page say of a product is merged, whatever the  *)
(* LLM reports: no value is lost, none replaced, and no product is there   *)
(* twice (MergeKeepsValues).                                               *)
(***************************************************************************)
MergeInv ==
  /\ Routed
  /\ at = "answered" /\ way = "llm" /\ Len(seen) > 1 => KeepsAll(seen, answer.products)

\* However many chunks an LLM read, and however alike their titles: every titled one has its
\* product, no value that was read is lost to an empty one, and none is read twice.
THEOREM ChunksMerged == PageSpec => []MergeKeepsValues
<1>1. PageInit => MergeInv
  BY StealthAtFirst DEF StealthInv, PageInit, MergeInv, Ways
<1>2. MergeInv /\ [PageStep]_pageVars => MergeInv'
  <2> SUFFICES ASSUME MergeInv, [PageStep]_pageVars PROVE MergeInv'
    OBVIOUS
  <2>1. Routed /\ Routed'
    <3>1. CASE Elsewhere
      BY <3>1, ElsewhereApart DEF MergeInv
    <3>2. CASE UNCHANGED pageVars
      BY <3>2 DEF MergeInv, Routed, pageVars
    <3>3. CASE \E v \in Views : StaticAnswers(v) \/ BrowserAnswers(v) \/ BrowserFindsNothing(v)
      BY <3>3 DEF MergeInv, Routed, StaticAnswers, BrowserAnswers, BrowserFindsNothing, LevelFails,
                  Browsing, Answer, ToBrowser
    <3>4. CASE StaticFails \/ LevelFails \/ GivesUp
      BY <3>4 DEF MergeInv, Routed, StaticFails, LevelFails, GivesUp, Browsing, Answer, ToBrowser
    <3> QED
      BY <3>1, <3>2, <3>3, <3>4 DEF PageStep, Elsewhere, MergeInv
  <2>2. ASSUME NEW ps \in Readings, LLMAnswers(ps) PROVE MergeInv'
    <3>1. seen' = ps /\ answer'.products = Merged(ps)
      BY <2>2 DEF LLMAnswers, Answer, Result
    <3> DEFINE T == [title : Seq(STRING), price : STRING, image : STRING]
    <3>2. ps \in Seq(T) /\ \A p \in T : p.title \in Seq(STRING)
      BY ReadingAssumption
    <3> HIDE DEF T
    <3>3. Len(ps) > 1 => KeepsAll(ps, Merged(ps))
      BY <3>2, MergedKeeps
    <3> QED
      BY <2>1, <3>1, <3>3 DEF MergeInv
  <2>3. CASE LLMFails
    <3>1. seen' = <<>>
      BY <2>3 DEF LLMFails, Answer
    <3>2. ~(Len(seen') > 1)
      BY <3>1
    <3> QED
      BY <2>1, <3>2 DEF MergeInv
  <2>4. CASE at' # "answered" \/ way' # "llm"
    BY <2>1, <2>4 DEF MergeInv
  <2>5. CASE UNCHANGED pageVars
    BY <2>1, <2>5 DEF MergeInv, pageVars
  <2>6. ASSUME at' = "answered", way' = "llm", ~UNCHANGED pageVars
        PROVE  LLMFails \/ \E ps \in Readings : LLMAnswers(ps)
    <3>1. way = "llm" /\ at = "llm"
      BY <2>1, <2>6 DEF Routed, PageStep, StaticAnswers, BrowserAnswers, BrowserFindsNothing,
           StaticFails, LevelFails, GivesUp, LLMAnswers, LLMFails, Loads, LoadFails, ClickShowsMore,
           ClickingEnds, PageOfBatch, BatchEnds, BatchRaises, Browsing, Answer, ToBrowser
    <3> QED
      BY <3>1, <2>6 DEF PageStep, StaticAnswers, BrowserAnswers, BrowserFindsNothing,
           StaticFails, LevelFails, GivesUp, Loads, LoadFails, ClickShowsMore,
           ClickingEnds, PageOfBatch, BatchEnds, BatchRaises, Browsing
  <2> QED
    BY <2>2, <2>3, <2>4, <2>5, <2>6
<1>3. MergeInv => MergeKeepsValues
  BY DEF MergeInv, KeepsAll, MergeKeepsValues, Answers
<1> QED
  BY <1>1, <1>2, <1>3, PTL DEF PageSpec

(***************************************************************************)
(* LayersInOrder.  Filling a gap from the next layer is to take the first  *)
(* layer that has a value.                                                 *)
(***************************************************************************)
First(a, b) == IF Missing(a) THEN (IF Missing(b) THEN "none" ELSE b) ELSE a

LEMMA FirstOfThree ==
  ASSUME NEW values, NEW n \in Nat, DOMAIN values = 1 .. n
  PROVE  /\ n = 1 => FirstLayer(values) = First(values[1], "none")
         /\ n = 2 => FirstLayer(values) = First(values[1], values[2])
         /\ n = 3 => FirstLayer(values) = First(values[1], First(values[2], values[3]))
<1> DEFINE there == {i \in DOMAIN values : ~Missing(values[i])}
<1>1. FirstLayer(values) = IF there = {} THEN "none" ELSE values[Earliest(there)]
  BY DEF FirstLayer
<1>2. \A i : i \in there <=> i \in 1 .. n /\ ~Missing(values[i])
  OBVIOUS
<1>3. there # {} => Earliest(there) \in there /\ \A j \in there : Earliest(there) <= j
  <2>1. there \in SUBSET Nat
    BY <1>2
  <2> HIDE DEF there
  <2> QED
    BY <2>1, EarliestIs
<1> HIDE DEF there
<1>4. Missing("none")
  BY DEF Missing
<1>5. CASE there = {}
  <2>1. \A i \in 1 .. n : Missing(values[i])
    BY <1>2, <1>5
  <2> QED
    BY <1>1, <1>4, <1>5, <2>1 DEF First
<1>6. CASE there # {}
  <2> DEFINE e == Earliest(there)
  <2>1. e \in 1 .. n /\ ~Missing(values[e]) /\ FirstLayer(values) = values[e]
    BY <1>1, <1>2, <1>3, <1>6
  <2>2. \A i \in 1 .. n : i < e => Missing(values[i])
    <3>1. \A j \in there : e <= j
      BY <1>3, <1>6
    <3> HIDE DEF e
    <3> SUFFICES ASSUME NEW i \in 1 .. n, i < e, i \in there PROVE FALSE
      BY <1>2
    <3>2. e <= i /\ e \in Nat /\ i \in Nat
      BY <2>1, <3>1
    <3> QED
      BY <3>2
  <2> HIDE DEF e
  <2>3. CASE n = 1
    <3>1. e = 1
      BY <2>1, <2>3
    <3> QED
      BY <2>1, <2>3, <3>1 DEF First
  <2>4. CASE n = 2
    <3>1. e = 1 \/ (e = 2 /\ Missing(values[1]))
      BY <2>1, <2>2, <2>4
    <3> QED
      BY <2>1, <2>4, <3>1 DEF First
  <2>5. CASE n = 3
    <3>1. \/ e = 1
          \/ e = 2 /\ Missing(values[1])
          \/ e = 3 /\ Missing(values[1]) /\ Missing(values[2])
      BY <2>1, <2>2, <2>5
    <3> QED
      BY <2>1, <2>5, <3>1, <1>4 DEF First
  <2> QED
    BY <2>3, <2>4, <2>5
<1> QED
  BY <1>5, <1>6

LEMMA FirstOfOne == ASSUME NEW a PROVE FirstLayer(<<a>>) = First(a, "none")
<1>1. DOMAIN <<a>> = 1 .. 1 /\ <<a>>[1] = a
  OBVIOUS
<1> QED
  BY <1>1, FirstOfThree

\* A value that is filled from two or three layers.
LEMMA PriceOfTwo ==
  ASSUME NEW a, NEW b
  PROVE  First(OrElse(a, b), "none") = First(a, b)
  BY DEF First, OrElse, Missing

LEMMA PriceOfThree ==
  ASSUME NEW a, NEW b, NEW c
  PROVE  First(OrElse(OrElse(a, b), c), "none") = First(a, First(b, c))
  BY DEF First, OrElse, Missing

LEMMA ImageOfTwo ==
  ASSUME NEW a, NEW b, a # "0", b # "0"
  PROVE  OrElse(OrElse(a, b), b) = First(a, b)
  BY DEF First, OrElse, Missing

LEMMA ImageOfThree ==
  ASSUME NEW a, NEW b, NEW c, a # "0", b # "0", c # "0"
  PROVE  OrElse(OrElse(OrElse(a, b), b), c) = First(a, First(b, c))
  BY DEF First, OrElse, Missing

\* What an object of the page is to have.
LEMMA LayersAre ==
  ASSUME NEW v, NEW p
  PROVE  /\ PriceIn(v, {}, p) = First(p.price, v.og.price)
         /\ ImageIn(v, {}, p) = First(p.image, v.og.image)
         /\ \A levels : levels # {} =>
              /\ PriceIn(v, levels, p) = First(p.price, First(v.og.price, v.markdown))
              /\ ImageIn(v, levels, p) = First(p.image, First(v.og.image, v.media))
<1>1. ASSUME NEW a, NEW b
      PROVE  FirstLayer(<<a, b>> \o <<>>) = First(a, b)
  <2> DEFINE values == <<a, b>> \o <<>>
  <2>1. DOMAIN values = 1 .. 2 /\ values[1] = a /\ values[2] = b
    OBVIOUS
  <2> HIDE DEF values
  <2>2. FirstLayer(values) = First(a, b)
    BY <2>1, FirstOfThree
  <2> QED
    BY <2>2 DEF values
<1>2. ASSUME NEW a, NEW b, NEW c
      PROVE  FirstLayer(<<a, b>> \o <<c>>) = First(a, First(b, c))
  <2> DEFINE values == <<a, b>> \o <<c>>
  <2>1. DOMAIN values = 1 .. 3 /\ values[1] = a /\ values[2] = b /\ values[3] = c
    OBVIOUS
  <2> HIDE DEF values
  <2>2. FirstLayer(values) = First(a, First(b, c))
    BY <2>1, FirstOfThree
  <2> QED
    BY <2>2 DEF values
<1> QED
  BY <1>1, <1>2 DEF PriceIn, ImageIn, Text

\* A page as it may be, and its objects with the price of a variant.
Seen(v) ==
  /\ v.ld \in Seq(LdObjects) /\ v.og \in OgTags /\ v.media \in Addresses

LEMMA ObjectsEnriched ==
  ASSUME NEW v, Seen(v), NEW i \in DOMAIN v.ld
  PROVE  /\ Enriched(v.ld[i]).image # "0" /\ v.og.image # "0" /\ v.media # "0"
         /\ JsonLd(v)[i] = [name |-> Enriched(v.ld[i]).name, price |-> Enriched(v.ld[i]).price,
                            image |-> OrElse(Enriched(v.ld[i]).image, v.og.image),
                            description |-> Enriched(v.ld[i]).description]
<1>1. v.ld[i] \in LdObjects
  BY DEF Seen
<1>2. Enriched(v.ld[i]).image = v.ld[i].image /\ v.ld[i].image # "0"
  <2> DEFINE p == v.ld[i]
  <2>1. p \in LdObjects
    BY <1>1
  <2> HIDE DEF p
  <2>2. p.image # "0" /\ [p EXCEPT !.price = p.variant].image = p.image
    BY <2>1 DEF LdObjects, Addresses
  <2>3. Enriched(p).image = p.image
    BY <2>2 DEF Enriched
  <2> QED
    BY <2>2, <2>3 DEF p
<1>3. v.og.image # "0" /\ v.media # "0"
  BY DEF Seen, OgTags, Addresses
<1> QED
  BY <1>2, <1>3 DEF JsonLd

LEMMA ObjectKeys ==
  ASSUME NEW v, Seen(v), NEW i \in DOMAIN v.ld
  PROVE  /\ JsonLd(v)[i].name = Enriched(v.ld[i]).name
         /\ JsonLd(v)[i].price = Enriched(v.ld[i]).price
         /\ KeyOf(JsonLd(v)[i]) = KeyOf(Enriched(v.ld[i]))
<1> DEFINE o == JsonLd(v)[i]  p == Enriched(v.ld[i])
<1>1. o = [name |-> p.name, price |-> p.price, image |-> OrElse(p.image, v.og.image),
           description |-> p.description]
  BY ObjectsEnriched
<1> HIDE DEF o, p
<1>2. o.name = p.name /\ o.price = p.price
  BY <1>1
<1>3. KeyOf(o) = KeyOf(p)
  BY <1>2 DEF KeyOf
<1> QED
  BY <1>2, <1>3 DEF o, p

\* The answer of the static page, product by product.
LEMMA StaticLayers ==
  ASSUME NEW v, Seen(v), v.ld # <<>>, NEW i \in DOMAIN v.ld
  PROVE  /\ DOMAIN Structured(v) = DOMAIN v.ld
         /\ Is(Structured(v)[i], v, {}, Enriched(v.ld[i]))
         /\ Structured(v)[i].image = ImageIn(v, {}, Enriched(v.ld[i]))
<1> DEFINE p == Enriched(v.ld[i])  q == Structured(v)[i]
<1>1. DOMAIN Structured(v) = DOMAIN v.ld /\ q = FromOg(JsonLd(v)[i], v.og)
  BY DEF Structured
<1>2. /\ p.image # "0" /\ v.og.image # "0"
      /\ JsonLd(v)[i] = [name |-> p.name, price |-> p.price, image |-> OrElse(p.image, v.og.image),
                         description |-> p.description]
  BY ObjectsEnriched
<1> HIDE DEF p, q
<1>3. /\ q.name = p.name /\ q.price = OrElse(p.price, v.og.price)
      /\ q.image = OrElse(OrElse(p.image, v.og.image), v.og.image)
  BY <1>1, <1>2 DEF FromOg
<1>4. FirstLayer(<<q.price>>) = First(p.price, v.og.price) /\ q.image = First(p.image, v.og.image)
  <2>1. FirstLayer(<<q.price>>) = First(q.price, "none")
    BY FirstOfOne
  <2>2. First(OrElse(p.price, v.og.price), "none") = First(p.price, v.og.price)
    BY PriceOfTwo
  <2>3. OrElse(OrElse(p.image, v.og.image), v.og.image) = First(p.image, v.og.image)
    BY <1>2, ImageOfTwo
  <2> QED
    BY <1>3, <2>1, <2>2, <2>3
<1>5. Is(q, v, {}, p) /\ q.image = ImageIn(v, {}, p)
  BY <1>3, <1>4, LayersAre DEF Is
<1> QED
  BY <1>1, <1>5 DEF p, q

\* Of the repetitions of a product one is the fullest.
LEMMA FullestIs ==
  ASSUME NEW ps, NEW n \in Nat, DOMAIN ps = 1 .. n, NEW i \in 1 .. n
  PROVE  Fullest(ps, i) \in 1 .. n /\ KeyOf(ps[i]) = KeyOf(ps[Fullest(ps, i)])
<1> DEFINE same == {k \in 1 .. n : KeyOf(ps[i]) = KeyOf(ps[k])}
           all == {"price", "image", "description"}
           room(k) == Cardinality(all) - Filled(ps[k])
<1>1. IsFiniteSet(all)
  <2>1. all = ({"price"} \union {"image"}) \union {"description"}
    OBVIOUS
  <2> HIDE DEF all
  <2>2. IsFiniteSet({"price"}) /\ IsFiniteSet({"image"}) /\ IsFiniteSet({"description"})
    BY FS_Singleton
  <2>3. IsFiniteSet({"price"} \union {"image"})
    BY <2>2, FS_Union
  <2> QED
    BY <2>1, <2>2, <2>3, FS_Union
<1>2. \A k \in same : room(k) \in Nat /\ Filled(ps[k]) \in Nat /\ Cardinality(all) \in Nat
  <2> TAKE k \in same
  <2> DEFINE some == {f \in all : ps[k][f] # "none"}
  <2>1. some \in SUBSET all /\ Filled(ps[k]) = Cardinality(some)
    BY DEF Filled
  <2> HIDE DEF some, all
  <2>2. Cardinality(some) \in Nat /\ Cardinality(all) \in Nat /\ Cardinality(some) <= Cardinality(all)
    BY <1>1, <2>1, FS_Subset, FS_CardinalityType
  <2> QED
    BY <2>1, <2>2
<1>3. i \in same /\ same \in SUBSET Nat
  OBVIOUS
<1> DEFINE rooms == {room(k) : k \in same}
<1>4. PICK least \in rooms : \A r \in rooms : least <= r
  <2>1. rooms \in SUBSET Nat /\ rooms # {}
    BY <1>2, <1>3
  <2> HIDE DEF rooms
  <2> QED
    BY <2>1, LeastOf
<1> DEFINE best == {k \in same : room(k) = least}
<1>5. PICK j \in best : \A k \in best : j <= k
  <2>1. best \in SUBSET Nat /\ best # {}
    BY <1>3, <1>4
  <2> HIDE DEF best
  <2> QED
    BY <2>1, LeastOf
<1>6. ASSUME NEW k \in same
      PROVE  Filled(ps[k]) < Filled(ps[j]) \/ (Filled(ps[k]) = Filled(ps[j]) /\ j <= k)
  <2>1. least <= room(k) /\ room(j) = least /\ j \in same
    BY <1>4, <1>5, <1>6
  <2>2. room(k) = least => j <= k
    BY <1>5, <1>6
  <2>3. room(k) \in Nat /\ Filled(ps[k]) \in Nat /\ room(j) \in Nat /\ Filled(ps[j]) \in Nat
        /\ Cardinality(all) \in Nat
    BY <1>2, <1>6, <2>1
  <2> HIDE DEF same, all, best, rooms
  <2> QED
    BY <2>1, <2>2, <2>3
<1>7. j \in 1 .. n /\ KeyOf(ps[i]) = KeyOf(ps[j])
  BY <1>5
<1> HIDE DEF best, rooms, all
<1>8. \E f \in DOMAIN ps :
        /\ KeyOf(ps[i]) = KeyOf(ps[f])
        /\ \A k \in DOMAIN ps : KeyOf(ps[i]) = KeyOf(ps[k]) =>
             \/ Filled(ps[k]) < Filled(ps[f])
             \/ Filled(ps[k]) = Filled(ps[f]) /\ f <= k
  BY <1>6, <1>7
<1> QED
  BY <1>8 DEF Fullest

\* Every product has a first occurrence.
LEMMA FirstsAre ==
  ASSUME NEW ps, NEW n \in Nat, DOMAIN ps = 1 .. n
  PROVE  /\ Firsts(ps) \subseteq 1 .. n /\ IsFiniteSet(Firsts(ps))
         /\ \A i \in 1 .. n : \E f \in Firsts(ps) : KeyOf(ps[f]) = KeyOf(ps[i])
         /\ \A f, g \in Firsts(ps) : KeyOf(ps[f]) = KeyOf(ps[g]) => f = g
<1>1. Firsts(ps) \subseteq 1 .. n
  BY DEF Firsts
<1>2. IsFiniteSet(Firsts(ps))
  <2>1. IsFiniteSet(1 .. n)
    BY FS_Interval
  <2> QED
    BY <1>1, <2>1, FS_Subset
<1>3. ASSUME NEW i \in 1 .. n PROVE \E f \in Firsts(ps) : KeyOf(ps[f]) = KeyOf(ps[i])
  <2> DEFINE same == {k \in 1 .. n : KeyOf(ps[k]) = KeyOf(ps[i])}
  <2>1. same \in SUBSET Nat /\ same # {}
    OBVIOUS
  <2>2. PICK f \in same : \A k \in same : f <= k
    <3> HIDE DEF same
    <3> QED
      BY <2>1, LeastOf
  <2>3. \A j \in 1 .. f - 1 : KeyOf(ps[f]) # KeyOf(ps[j])
    BY <2>2
  <2> QED
    BY <2>2, <2>3 DEF Firsts
<1>4. ASSUME NEW f \in Firsts(ps), NEW g \in Firsts(ps), KeyOf(ps[f]) = KeyOf(ps[g]) PROVE f = g
  <2>1. f \in 1 .. n /\ g \in 1 .. n
    BY <1>1
  <2>2. ~(f < g) /\ ~(g < f)
    BY <1>4, <2>1 DEF Firsts
  <2> QED
    BY <2>1, <2>2
<1> QED
  BY <1>1, <1>2, <1>3, <1>4

LEMMA DeduplicatedAre ==
  ASSUME NEW ps, NEW n \in Nat, DOMAIN ps = 1 .. n
  PROVE  /\ DOMAIN Deduplicated(ps) = 1 .. Cardinality(Firsts(ps))
         /\ Cardinality(Firsts(ps)) \in Nat
         /\ \A a \in DOMAIN Deduplicated(ps) : \E j \in 1 .. n : Deduplicated(ps)[a] = ps[j]
         /\ \A i \in 1 .. n : \E a \in DOMAIN Deduplicated(ps), j \in 1 .. n :
              Deduplicated(ps)[a] = ps[j] /\ KeyOf(ps[j]) = KeyOf(ps[i])
<1> DEFINE S == Firsts(ps)  m == Cardinality(S)  first == InOrder(S)  qs == Deduplicated(ps)
<1>1. /\ S \subseteq 1 .. n /\ S \in SUBSET Nat /\ IsFiniteSet(S)
      /\ \A i \in 1 .. n : \E f \in S : KeyOf(ps[f]) = KeyOf(ps[i])
  BY FirstsAre
<1>2. /\ first \in [1 .. m -> S] /\ \A f \in S : \E a \in 1 .. m : first[a] = f
      /\ m \in Nat
  <2> HIDE DEF S
  <2> QED
    BY <1>1, InOrderListsAll, FS_CardinalityType
<1>3. DOMAIN qs = 1 .. m /\ \A a \in 1 .. m : qs[a] = ps[Fullest(ps, first[a])]
  <2>1. DOMAIN first = 1 .. m
    BY <1>2
  <2>2. qs = [a \in DOMAIN first |-> ps[Fullest(ps, first[a])]]
    BY DEF Deduplicated
  <2> HIDE DEF qs, first, m
  <2> QED
    BY <2>1, <2>2
<1> HIDE DEF qs, first, m
<1>4. ASSUME NEW a \in 1 .. m
      PROVE  /\ Fullest(ps, first[a]) \in 1 .. n
             /\ KeyOf(ps[first[a]]) = KeyOf(ps[Fullest(ps, first[a])])
  <2>1. first[a] \in 1 .. n
    BY <1>1, <1>2
  <2> QED
    BY <2>1, FullestIs
<1>5. ASSUME NEW i \in 1 .. n
      PROVE  \E a \in 1 .. m, j \in 1 .. n : qs[a] = ps[j] /\ KeyOf(ps[j]) = KeyOf(ps[i])
  <2>1. PICK f \in S : KeyOf(ps[f]) = KeyOf(ps[i])
    BY <1>1
  <2>2. PICK a \in 1 .. m : first[a] = f
    BY <1>2
  <2> QED
    BY <1>3, <1>4, <2>1, <2>2
<1> QED
  BY <1>2, <1>3, <1>4, <1>5 DEF m, qs

\* As many as there are keys.
LEMMA OnePerKey ==
  ASSUME NEW ps, NEW n \in Nat, DOMAIN ps = 1 .. n
  PROVE  Cardinality({KeyOf(ps[i]) : i \in 1 .. n}) = Cardinality(Firsts(ps))
<1> DEFINE keys == {KeyOf(ps[i]) : i \in 1 .. n}  S == Firsts(ps)
           key == [f \in S |-> KeyOf(ps[f])]
<1>1. /\ S \subseteq 1 .. n /\ IsFiniteSet(S)
      /\ \A i \in 1 .. n : \E f \in S : KeyOf(ps[f]) = KeyOf(ps[i])
      /\ \A f, g \in S : KeyOf(ps[f]) = KeyOf(ps[g]) => f = g
  BY FirstsAre
<1>2. key \in Bijection(S, keys)
  <2>1. key \in [S -> keys]
    BY <1>1
  <2>2. \A k \in keys : \E f \in S : key[f] = k
    BY <1>1
  <2>3. \A f, g \in S : key[f] = key[g] => f = g
    BY <1>1
  <2> HIDE DEF key, keys, S
  <2> QED
    BY <2>1, <2>2, <2>3 DEF Bijection, Injection, Surjection, IsInjective
<1>3. ExistsBijection(S, keys)
  BY <1>2 DEF ExistsBijection
<1> HIDE DEF S, keys
<1>4. Cardinality(S) = Cardinality(keys)
  BY <1>1, <1>3, FS_Bijection
<1> QED
  BY <1>4 DEF S, keys

\* What the browser makes of an object of the page.
LEMMA RenderedLayers ==
  ASSUME NEW v, Seen(v), NEW i \in DOMAIN v.ld, NEW levels, levels # {}
  PROVE  LET q == FromText(FromOg(JsonLd(v)[i], v.og), v)
         IN /\ Is(q, v, levels, Enriched(v.ld[i]))
            /\ q.image = ImageIn(v, levels, Enriched(v.ld[i]))
<1> DEFINE p == Enriched(v.ld[i])  o == FromOg(JsonLd(v)[i], v.og)  q == FromText(o, v)
<1>1. /\ p.image # "0" /\ v.og.image # "0" /\ v.media # "0"
      /\ JsonLd(v)[i] = [name |-> p.name, price |-> p.price, image |-> OrElse(p.image, v.og.image),
                         description |-> p.description]
  BY ObjectsEnriched
<1> DEFINE b == JsonLd(v)[i]
<1>1a. /\ b = [name |-> p.name, price |-> p.price, image |-> OrElse(p.image, v.og.image),
                description |-> p.description]
       /\ o = FromOg(b, v.og)
  BY <1>1
<1> HIDE DEF p, b, o
<1>2. o = [name |-> p.name, price |-> OrElse(p.price, v.og.price),
           image |-> OrElse(OrElse(p.image, v.og.image), v.og.image), description |-> p.description]
  BY <1>1a DEF FromOg
<1>3. /\ q.name = p.name /\ q.price = OrElse(OrElse(p.price, v.og.price), v.markdown)
      /\ q.image = OrElse(OrElse(OrElse(p.image, v.og.image), v.og.image), v.media)
  BY <1>2 DEF FromText
<1> HIDE DEF q
<1>4. FirstLayer(<<q.price>>) = First(p.price, First(v.og.price, v.markdown))
  <2>1. FirstLayer(<<q.price>>) = First(q.price, "none")
    BY FirstOfOne
  <2>2. First(OrElse(OrElse(p.price, v.og.price), v.markdown), "none") =
          First(p.price, First(v.og.price, v.markdown))
    BY PriceOfThree
  <2> QED
    BY <1>3, <2>1, <2>2
<1>5. q.image = First(p.image, First(v.og.image, v.media))
  <2>1. OrElse(OrElse(OrElse(p.image, v.og.image), v.og.image), v.media) =
          First(p.image, First(v.og.image, v.media))
    BY <1>1, ImageOfThree
  <2> QED
    BY <1>3, <2>1
<1>6. Is(q, v, levels, p) /\ q.image = ImageIn(v, levels, p)
  BY <1>3, <1>4, <1>5, LayersAre DEF Is
<1> QED
  BY <1>6 DEF p, o, q

\* Repetitions are to have the same price.
LEMMA RepetitionsAlike ==
  ASSUME NEW v, Seen(v), NEW i \in DOMAIN v.ld, NEW j \in DOMAIN v.ld,
         KeyOf(JsonLd(v)[i]) = KeyOf(JsonLd(v)[j]), NEW levels, levels # {}
  PROVE  /\ KeyOf(Enriched(v.ld[i])) = KeyOf(Enriched(v.ld[j]))
         /\ \A q : Is(q, v, levels, Enriched(v.ld[j])) => Is(q, v, levels, Enriched(v.ld[i]))
<1> DEFINE p == Enriched(v.ld[i])  r == Enriched(v.ld[j])
<1>1. KeyOf(JsonLd(v)[i]) = KeyOf(p) /\ KeyOf(JsonLd(v)[j]) = KeyOf(r)
  BY ObjectKeys
<1> HIDE DEF p, r
<1>2. KeyOf(p) = KeyOf(r)
  BY <1>1
<1>3. p.name = r.name /\ (p.price = r.price \/ (Missing(p.price) /\ Missing(r.price)))
  BY <1>2 DEF KeyOf, Missing
<1>4. PriceIn(v, levels, p) = PriceIn(v, levels, r)
  <2>1. /\ PriceIn(v, levels, p) = First(p.price, First(v.og.price, v.markdown))
        /\ PriceIn(v, levels, r) = First(r.price, First(v.og.price, v.markdown))
    BY LayersAre
  <2> QED
    BY <1>3, <2>1 DEF First
<1>5. \A q : Is(q, v, levels, r) => Is(q, v, levels, p)
  BY <1>3, <1>4 DEF Is
<1> QED
  BY <1>2, <1>5 DEF p, r

\* An answer that is made of a page in the order of its layers.
Layered(v, levels, qs) ==
  /\ \A p \in OwnOf(v) : \E a \in DOMAIN qs :
       Is(qs[a], v, levels, p) /\ (Repeated(v, levels, p) \/ qs[a].image = ImageIn(v, levels, p))
  /\ \A a \in DOMAIN qs : \E p \in OwnOf(v) :
       Is(qs[a], v, levels, p) /\ qs[a].image = ImageIn(v, levels, p)
  /\ levels # {} => Len(qs) = Cardinality({KeyOf(p) : p \in OwnOf(v)})

LEMMA StaticLayered ==
  ASSUME NEW v, Seen(v), v.ld # <<>>
  PROVE  Layered(v, {}, Structured(v))
<1>1. DOMAIN Structured(v) = DOMAIN v.ld
  BY DEF Structured
<1>2. \A i \in DOMAIN v.ld : /\ Is(Structured(v)[i], v, {}, Enriched(v.ld[i]))
                             /\ Structured(v)[i].image = ImageIn(v, {}, Enriched(v.ld[i]))
  BY StaticLayers
<1> QED
  BY <1>1, <1>2 DEF Layered, OwnOf

LEMMA RenderedLayered ==
  ASSUME NEW v, Seen(v), v.ld # <<>>, NEW levels, levels # {}
  PROVE  Layered(v, levels, Rendered(v))
<1> DEFINE n == Len(v.ld)  ld == JsonLd(v)  ps == Deduplicated(ld)  qs == Rendered(v)
           m == Cardinality(Firsts(ld))  p(i) == Enriched(v.ld[i])
<1>1. n \in Nat /\ DOMAIN v.ld = 1 .. n /\ DOMAIN ld = 1 .. n
  BY DEF Seen, JsonLd
<1>2. DOMAIN qs = DOMAIN ps /\ \A a \in DOMAIN qs : qs[a] = FromText(FromOg(ps[a], v.og), v)
  BY DEF Rendered
<1>3. /\ DOMAIN ps = 1 .. m /\ m \in Nat
      /\ \A a \in DOMAIN ps : \E j \in 1 .. n : ps[a] = ld[j]
      /\ \A i \in 1 .. n : \E a \in DOMAIN ps, j \in 1 .. n : ps[a] = ld[j] /\ KeyOf(ld[j]) = KeyOf(ld[i])
  BY <1>1, DeduplicatedAre
<1>4. \A i \in 1 .. n : LET q == FromText(FromOg(ld[i], v.og), v)
                        IN Is(q, v, levels, p(i)) /\ q.image = ImageIn(v, levels, p(i))
  BY <1>1, RenderedLayers
<1>5. \A i, j \in 1 .. n : KeyOf(ld[i]) = KeyOf(ld[j]) =>
        /\ KeyOf(p(i)) = KeyOf(p(j))
        /\ \A q : Is(q, v, levels, p(j)) => Is(q, v, levels, p(i))
  BY <1>1, RepetitionsAlike
<1>6. \A i \in 1 .. n : KeyOf(ld[i]) = KeyOf(p(i))
  BY <1>1, ObjectKeys
<1>7. OwnOf(v) = {p(i) : i \in 1 .. n}
  BY <1>1 DEF OwnOf
<1>8. Len(qs) = m
  <2>1. qs = [a \in DOMAIN ps |-> FromText(FromOg(ps[a], v.og), v)]
    BY DEF Rendered
  <2> HIDE DEF qs, ps, m
  <2> QED
    BY <1>3, <2>1
<1>9. Cardinality({KeyOf(q) : q \in OwnOf(v)}) = m
  <2>1. {KeyOf(q) : q \in OwnOf(v)} = {KeyOf(ld[i]) : i \in 1 .. n}
    <3> HIDE DEF p, ld, n
    <3> QED
      BY <1>6, <1>7
  <2> HIDE DEF ld, n
  <2> QED
    BY <1>1, <2>1, OnePerKey DEF m
<1> HIDE DEF n, ld, ps, qs, m, p
<1>10. ASSUME NEW i \in 1 .. n
       PROVE  \E a \in DOMAIN qs :
                Is(qs[a], v, levels, p(i)) /\ (Repeated(v, levels, p(i)) \/ qs[a].image = ImageIn(v, levels, p(i)))
  <2>1. PICK a \in DOMAIN ps, j \in 1 .. n : ps[a] = ld[j] /\ KeyOf(ld[j]) = KeyOf(ld[i])
    BY <1>3
  <2>2. /\ qs[a] = FromText(FromOg(ld[j], v.og), v) /\ a \in DOMAIN qs
        /\ Is(qs[a], v, levels, p(j)) /\ qs[a].image = ImageIn(v, levels, p(j))
    BY <1>2, <1>4, <2>1
  <2>3. Is(qs[a], v, levels, p(i)) /\ KeyOf(p(j)) = KeyOf(p(i))
    BY <1>5, <2>1, <2>2
  <2>4. p(j) # p(i) => Repeated(v, levels, p(i))
    BY <1>7, <2>3 DEF Repeated
  <2> QED
    BY <2>2, <2>3, <2>4
<1>11. ASSUME NEW a \in DOMAIN qs
       PROVE  \E i \in 1 .. n : Is(qs[a], v, levels, p(i)) /\ qs[a].image = ImageIn(v, levels, p(i))
  <2>1. PICK j \in 1 .. n : ps[a] = ld[j]
    BY <1>2, <1>3
  <2>2. qs[a] = FromText(FromOg(ld[j], v.og), v)
    BY <1>2, <2>1
  <2> QED
    BY <1>4, <2>2
<1>12. Layered(v, levels, qs)
  BY <1>7, <1>8, <1>9, <1>10, <1>11 DEF Layered
<1> QED
  BY <1>12 DEF qs

LEMMA ViewsSeen == ASSUME NEW v \in Views PROVE Seen(v)
  BY ReadingAssumption DEF Seen

LayersInv == StealthInv /\ LayersInOrder

LEMMA LayeredAnswer ==
  ASSUME StealthInv', at' = "answered", NEW v, seen' = v, Layered(v, tried', answer'.products)
  PROVE  LayersInv'
<1>1. Layered(seen, tried, answer.products)'
  OBVIOUS
<1> QED
  BY <1>1 DEF LayersInv, LayersInOrder, Layered, Answers

(***************************************************************************)
(* Whatever a page carries in however many objects, an answer has every    *)
(* one of its products with the first price and image of the layers of the *)
(* page, and the browser's has it once (LayersInOrder).                    *)
(***************************************************************************)
THEOREM LayersKept == PageSpec => []LayersInOrder
<1>1. PageInit => LayersInv
  BY StealthAtFirst DEF LayersInv, PageInit, LayersInOrder, Ways
<1>2. LayersInv /\ [PageStep]_pageVars => LayersInv'
  <2> SUFFICES ASSUME LayersInv, [PageStep]_pageVars PROVE LayersInv'
    OBVIOUS
  <2>1. StealthInv /\ StealthInv'
    BY StealthStepKeeps DEF LayersInv
  <2>2. CASE at' # "answered" \/ way' # "unified" \/ seen' = <<>>
    BY <2>1, <2>2 DEF LayersInv, LayersInOrder
  <2>3. CASE UNCHANGED pageVars
    BY <2>1, <2>3 DEF LayersInv, LayersInOrder, pageVars, Answers
  <2>4. ASSUME NEW v \in Views, StaticAnswers(v), at' = "answered" PROVE LayersInv'
    <3>1. at = "static" /\ answer'.products = Structured(v) /\ seen' = v /\ tried' = tried
      BY <2>4 DEF StaticAnswers, Answer, ToBrowser, Result
    <3>2. tried' = {}
      BY <2>1, <3>1 DEF StealthInv, LevelsInOrder
    <3>3. CASE v.ld # <<>>
      <4>1. Layered(v, tried', answer'.products)
        BY <3>1, <3>2, <3>3, StaticLayered, ViewsSeen
      <4> QED
        BY <2>1, <2>4, <3>1, <4>1, LayeredAnswer
    <3>4. CASE v.ld = <<>>
      BY <2>1, <3>1, <3>4 DEF LayersInv, LayersInOrder
    <3> QED
      BY <3>3, <3>4
  <2>5. ASSUME NEW v \in Views, BrowserAnswers(v), way' = "unified" PROVE LayersInv'
    <3>1. /\ at' = "answered" /\ answer'.products = Rendered(v) /\ seen' = v
          /\ tried' = tried \union {level}
      BY <2>5 DEF BrowserAnswers, Answer, Tries, Result
    <3>2. tried' # {}
      BY <3>1
    <3>3. CASE v.ld # <<>>
      <4>1. Layered(v, tried', answer'.products)
        BY <3>1, <3>2, <3>3, RenderedLayered, ViewsSeen
      <4> QED
        BY <2>1, <3>1, <4>1, LayeredAnswer
    <3>4. CASE v.ld = <<>>
      BY <2>1, <3>1, <3>4 DEF LayersInv, LayersInOrder
    <3> QED
      BY <3>3, <3>4
  <2>6. CASE Elsewhere
    <3>1. way' # "unified"
      BY <2>1, <2>6, ElsewhereApart DEF StealthInv
    <3> QED
      BY <2>2, <3>1
  <2>7. CASE GivesUp \/ StaticFails \/ LevelFails \/ \E v \in Views : BrowserFindsNothing(v)
    <3>1. at' # "answered" \/ seen' = <<>>
      BY <2>7 DEF GivesUp, StaticFails, LevelFails, BrowserFindsNothing, Answer, ToBrowser, Browsing
    <3> QED
      BY <2>2, <3>1
  <2> QED
    BY <2>2, <2>3, <2>4, <2>5, <2>6, <2>7 DEF PageStep, Elsewhere
<1>3. LayersInv => LayersInOrder
  BY DEF LayersInv
<1> QED
  BY <1>1, <1>2, <1>3, PTL DEF PageSpec

-----------------------------------------------------------------------------
(***************************************************************************)
(* ProductCompletion.  A pass gives the products new values and keeps      *)
(* their number; but for the first, that lends what a probe has found, it  *)
(* keeps what they are told by.                                            *)
(***************************************************************************)
Passes == {"merging", "correcting", "identifying", "checking", "refetching"}

ItemsDescribed == \A i \in DOMAIN items : DOMAIN items[i] = Described

AdminItems == \A i \in DOMAIN items : items[i].admin => origin = "admin"

\* The products of an admin API are first seen by the completeness check; until the pages have
\* been fetched again none is asked of anybody.
PassesInOrder ==
  /\ stage \in {"merging", "correcting", "identifying"} => origin # "admin"
  /\ stage \in Passes => toRender = {} /\ asked = {}

CompletionInv == ItemsDescribed /\ AdminItems /\ PassesInOrder

LEMMA CompletionAtFirst == CompletionInit => CompletionInv /\ RenderedOnlyIfNeeded
  BY CompletionAssumption
  DEF CompletionInit, CompletionInv, ItemsDescribed, AdminItems, PassesInOrder, RenderedOnlyIfNeeded

\* What becomes of the fields of one product in a pass that fills fields.
LEMMA FillingFills ==
  ASSUME NEW p, DOMAIN p = Described, NEW fields, NEW from
  PROVE  LET q == FilledFields(p, fields, from) IN
         /\ DOMAIN q = Described
         /\ \A f \in Described : q[f] = IF f \in fields /\ p[f] # Nothing(f) THEN p[f]
                                     ELSE IF f \in fields THEN from[f] ELSE p[f]
  BY DEF FilledFields, IsPresent

LEMMA OpenFields ==
  ASSUME NEW p
  PROVE  Open(p) \subseteq Fields /\ (p.admin => Open(p) = {"image"})
  BY DEF Open, Fields

\* The ways to make new products of the old ones.
LEMMA MergeEffect ==
  ASSUME CompletionInv, NEW probe \in Probes, MergeTierFields(probe), NEW i \in DOMAIN items
  PROVE  /\ DOMAIN items' = DOMAIN items
         /\ DOMAIN items'[i] = Described
         /\ \A f \in Described : items'[i][f] # items[i][f] =>
              /\ f \in Fields \union Marks
              /\ items[i][f] = Nothing(f) \/ (f = "offers" /\ items[i].offers = Bare)
              /\ f \in borrowed'[i]
         /\ \A f \in Fields \union {"gtin"} :
              items'[i][f] \in {items[i][f], NoValue} \union Probed \union Shared
<1> DEFINE p == items[i]
           filled == FilledFields(p, DOMAIN probe \ {"offers"}, probe)
           q == [filled EXCEPT !.offers = OffersWith(p, probe)]
<1>1. /\ DOMAIN items' = DOMAIN items /\ items'[i] = q
      /\ borrowed'[i] = {key \in DOMAIN probe : items'[i][key] # p[key]}
  BY DEF MergeTierFields, MergedWith
<1>2. DOMAIN p = Described
  BY DEF CompletionInv, ItemsDescribed
<1>3. DOMAIN probe = Fields \union Marks
  BY CompletionAssumption
<1>4. \A f \in Fields \union {"gtin"} : probe[f] \in Probed \union {NoValue}
  BY CompletionAssumption
<1>5. /\ DOMAIN filled = Described
      /\ \A f \in Described : filled[f] = IF f \in DOMAIN probe \ {"offers"} /\ p[f] # Nothing(f) THEN p[f]
                                      ELSE IF f \in DOMAIN probe \ {"offers"} THEN probe[f] ELSE p[f]
  BY <1>2, FillingFills
<1> HIDE DEF filled
<1>6. /\ DOMAIN q = Described /\ q.offers = OffersWith(p, probe)
      /\ \A f \in Described \ {"offers"} : q[f] = filled[f]
  BY <1>5 DEF Described, Fields
<1>7. /\ OffersWith(p, probe) # p.offers => p.offers = NoValue \/ p.offers = Bare
      /\ OffersWith(p, probe) \in {p.offers} \union Probed \union Shared
  <2>1. probe.offers \in Probed \union {NoValue}
    BY <1>4 DEF Fields
  <2>2. probe.offers \in Probed => Lent(probe.offers) \in Shared
    BY DEF Shared
  <2>3. Nothing("offers") = NoValue
    BY DEF Nothing
  <2> QED
    BY <2>1, <2>2, <2>3 DEF OffersWith, IsPresent
<1>8. ASSUME NEW f \in Described, q[f] # p[f]
      PROVE  /\ f \in Fields \union Marks
             /\ p[f] = Nothing(f) \/ (f = "offers" /\ p.offers = Bare)
             /\ f \in DOMAIN probe
  <2>1. CASE f = "offers"
    BY <1>3, <1>6, <1>7, <1>8, <2>1 DEF Fields, Nothing
  <2>2. CASE f # "offers"
    BY <1>3, <1>5, <1>6, <1>8, <2>2
  <2> QED
    BY <2>1, <2>2
<1>9. ASSUME NEW f \in Fields \union {"gtin"}
      PROVE  q[f] \in {p[f], NoValue} \union Probed \union Shared
  <2>1. f \in Described
    BY DEF Described, Marks
  <2>2. CASE f = "offers"
    BY <1>6, <1>7, <2>2
  <2>3. CASE f # "offers"
    BY <1>4, <1>5, <1>6, <2>1, <2>3
  <2> QED
    BY <2>2, <2>3
<1> HIDE DEF p, q
<1> QED
  BY <1>1, <1>6, <1>8, <1>9 DEF p

LEMMA RefetchEffect ==
  ASSUME NEW given, NEW i \in DOMAIN items
  PROVE  /\ DOMAIN Refilled(given) = DOMAIN items
         /\ \/ Refilled(given)[i] = items[i]
            \/ Refilled(given)[i] = FilledFields(items[i], Open(items[i]), given[items[i].source])
  BY DEF Refilled, FilledFrom

LEMMA CorrectEffect ==
  ASSUME CompletionInv, NEW listed, CorrectPrices(listed), NEW i \in DOMAIN items
  PROVE  /\ DOMAIN items' = DOMAIN items
         /\ DOMAIN items'[i] = Described
         /\ \A f \in Described : items'[i][f] # items[i][f] => f = "offers" /\ items[i].offers \in Doubtful
<1>1. DOMAIN items' = DOMAIN items /\ items'[i] = Corrected(i, listed)
  BY DEF CorrectPrices
<1>2. \/ items'[i] = items[i]
      \/ items[i].offers \in Doubtful /\ \E v : items'[i] = [items[i] EXCEPT !.offers = v]
  BY <1>1 DEF Corrected
<1>3. DOMAIN items[i] = Described
  BY DEF CompletionInv, ItemsDescribed
<1> QED
  BY <1>1, <1>2, <1>3

LEMMA IdentifyEffect ==
  ASSUME CompletionInv, NEW found, SupplementGtins(found), NEW i \in DOMAIN items
  PROVE  /\ DOMAIN items' = DOMAIN items
         /\ DOMAIN items'[i] = Described
         /\ \A f \in Described : items'[i][f] # items[i][f] => f = "gtin" /\ items[i].gtin = NoValue
<1>1. DOMAIN items' = DOMAIN items /\ items'[i] = Identified(items[i], found)
  BY DEF SupplementGtins
<1>2. \/ items'[i] = items[i]
      \/ items[i].gtin = NoValue /\ \E v : items'[i] = [items[i] EXCEPT !.gtin = v]
  BY <1>1 DEF Identified, HasGtin, IsPresent, Nothing
<1>3. DOMAIN items[i] = Described
  BY DEF CompletionInv, ItemsDescribed
<1> QED
  BY <1>1, <1>2, <1>3

LEMMA RenderEffect ==
  ASSUME CompletionInv, NEW u, NEW given, Render(u, given)
  PROVE  /\ DOMAIN items' = DOMAIN items
         /\ \A i \in DOMAIN items :
              items'[i] = IF IsOf(i, u) THEN FilledFields(items[i], Open(items[i]), given) ELSE items[i]
  BY DEF Render, FilledFrom

\* What one step may do to one product.
May(p, q) ==
  /\ DOMAIN q = Described
  /\ \A f \in Described : q[f] # p[f] =>
       /\ f \in Fields \union Marks
       /\ \/ p[f] = Nothing(f)
          \/ f = "offers" /\ stage = "correcting" /\ p[f] \in Doubtful
          \/ f = "offers" /\ stage = "merging" /\ p[f] = Bare
       /\ p.admin => f = "image"

LEMMA FilledMay ==
  ASSUME NEW p, DOMAIN p = Described, NEW fields \in SUBSET Fields, NEW from,
         p.admin => fields \subseteq {"image"}
  PROVE  May(p, FilledFields(p, fields, from))
  BY FillingFills DEF May, Fields, Described

LEMMA SameMay ==
  ASSUME NEW p, DOMAIN p = Described
  PROVE  May(p, p)
  BY DEF May

LEMMA StepMay ==
  ASSUME CompletionInv, [CompletionStep]_completionVars
  PROVE  DOMAIN items' = DOMAIN items /\ \A i \in DOMAIN items : May(items[i], items'[i])
<1>0. \A i \in DOMAIN items : DOMAIN items[i] = Described
  BY DEF CompletionInv, ItemsDescribed
<1>1. ASSUME NEW probe \in Probes, MergeTierFields(probe)
      PROVE  DOMAIN items' = DOMAIN items /\ \A i \in DOMAIN items : May(items[i], items'[i])
  <2>1. stage = "merging" /\ DOMAIN items' = DOMAIN items /\ \A i \in DOMAIN items : ~items[i].admin
    BY <1>1 DEF MergeTierFields, CompletionInv, AdminItems, PassesInOrder
  <2> QED
    BY <1>1, <2>1, MergeEffect DEF May
<1>2. ASSUME NEW listed, CorrectPrices(listed)
      PROVE  DOMAIN items' = DOMAIN items /\ \A i \in DOMAIN items : May(items[i], items'[i])
  <2>1. /\ stage = "correcting" /\ DOMAIN items' = DOMAIN items
        /\ \A i \in DOMAIN items : ~items[i].admin
    BY <1>2 DEF CorrectPrices, CompletionInv, AdminItems, PassesInOrder
  <2> QED
    BY <1>2, <2>1, CorrectEffect DEF May, Fields
<1>3. ASSUME NEW found, SupplementGtins(found)
      PROVE  DOMAIN items' = DOMAIN items /\ \A i \in DOMAIN items : May(items[i], items'[i])
  <2>1. DOMAIN items' = DOMAIN items /\ \A i \in DOMAIN items : ~items[i].admin
    BY <1>3 DEF SupplementGtins, CompletionInv, AdminItems, PassesInOrder
  <2>2. Nothing("gtin") = NoValue
    BY DEF Nothing
  <2> QED
    BY <1>3, <2>1, <2>2, IdentifyEffect DEF May, Marks
<1>4. ASSUME NEW given, Refetch(given)
      PROVE  DOMAIN items' = DOMAIN items /\ \A i \in DOMAIN items : May(items[i], items'[i])
  <2>1. items' = Refilled(given)
    BY <1>4 DEF Refetch
  <2>2. DOMAIN items' = DOMAIN items
    BY <2>1 DEF Refilled
  <2> SUFFICES ASSUME NEW i \in DOMAIN items PROVE May(items[i], items'[i])
    BY <2>2
  <2> QED
    BY <1>0, <2>1, RefetchEffect, OpenFields, FilledMay, SameMay
<1>5. ASSUME NEW u, NEW given, Render(u, given)
      PROVE  DOMAIN items' = DOMAIN items /\ \A i \in DOMAIN items : May(items[i], items'[i])
  <2>1. DOMAIN items' = DOMAIN items
    BY <1>5, RenderEffect
  <2> SUFFICES ASSUME NEW i \in DOMAIN items PROVE May(items[i], items'[i])
    BY <2>1
  <2>2. \/ items'[i] = items[i]
        \/ items'[i] = FilledFields(items[i], Open(items[i]), given)
    BY <1>5, RenderEffect
  <2> QED
    BY <1>0, <2>2, OpenFields, FilledMay, SameMay
<1>6. ASSUME UNCHANGED items
      PROVE  DOMAIN items' = DOMAIN items /\ \A i \in DOMAIN items : May(items[i], items'[i])
  BY <1>0, <1>6, SameMay
<1> QED
  BY <1>1, <1>2, <1>3, <1>4, <1>5, <1>6
  DEF CompletionStep, SkipGtins, CheckCompleteness, completionVars

LEMMA CompletionStepKeeps == CompletionInv /\ [CompletionStep]_completionVars => CompletionInv'
<1> SUFFICES ASSUME CompletionInv, [CompletionStep]_completionVars PROVE CompletionInv'
  OBVIOUS
<1>1. ItemsDescribed'
  BY StepMay DEF ItemsDescribed, May
<1>1a. AdminItems'
  <2>1. \A i \in DOMAIN items : items'[i].admin = items[i].admin
    BY StepMay DEF May, Described, Fields, Marks
  <2>2. origin' = origin
    BY DEF CompletionStep, MergeTierFields, CorrectPrices, SupplementGtins, SkipGtins,
           CheckCompleteness, Refetch, Render, completionVars
  <2> QED
    BY <2>1, <2>2, StepMay DEF AdminItems, CompletionInv
<1>2. PassesInOrder'
  <2> USE DEF CompletionInv, PassesInOrder, Passes
  <2>1. CASE \E probe \in Probes : MergeTierFields(probe)
    BY <2>1 DEF MergeTierFields, AfterMerging
  <2>2. CASE \E listed \in Listings : CorrectPrices(listed)
    BY <2>2 DEF CorrectPrices
  <2>3. CASE SkipGtins \/ \E found \in SUBSET Urls : SupplementGtins(found)
    BY <2>3 DEF SkipGtins, SupplementGtins
  <2>4. CASE CheckCompleteness
    BY <2>4 DEF CheckCompleteness
  <2>5. ASSUME NEW given, Refetch(given) PROVE PassesInOrder'
    BY <2>5 DEF Refetch
  <2>6. ASSUME NEW u, NEW given, Render(u, given) PROVE PassesInOrder'
    BY <2>6 DEF Render
  <2>7. CASE UNCHANGED completionVars
    BY <2>7 DEF completionVars
  <2> QED
    BY <2>1, <2>2, <2>3, <2>4, <2>5, <2>6, <2>7 DEF CompletionStep
<1> QED
  BY <1>1, <1>1a, <1>2 DEF CompletionInv

(* Whatever the probes, the API, the pages and the browser give, no pass   *)
(* replaces a value that is there, what a product is told by included, but *)
(* the correction of doubtful offers and the completion of bare ones; and  *)
(* the products of an admin API are given an image at most.                *)
THEOREM ValuesStay == CompletionSpec => NothingReplaced
<1>1. CompletionInv /\ [CompletionStep]_completionVars =>
        [\A i \in DOMAIN items, f \in Described :
           LET before == items[i][f] IN
           items'[i][f] # before =>
             /\ f \in Fields \union Marks
             /\ \/ before = Nothing(f)
                \/ f = "offers" /\ stage = "correcting" /\ before \in Doubtful
                \/ f = "offers" /\ stage = "merging" /\ before = Bare
             /\ items[i].admin => f = "image"]_completionVars
  BY StepMay DEF May
<1>2. CompletionInit => CompletionInv
  BY CompletionAtFirst
<1> QED
  BY <1>1, <1>2, CompletionStepKeeps, PTL DEF CompletionSpec, NothingReplaced

-----------------------------------------------------------------------------
(***************************************************************************)
(* RenderedOnlyIfNeeded.  The browser is asked for the pages that Refetch  *)
(* found without a price, and what it fills is told by its page.           *)
(***************************************************************************)
LEMMA SourceStays ==
  ASSUME NEW p, NEW q, May(p, q)
  PROVE  q.source = p.source
  BY DEF May, Fields, Marks, Described

LEMMA RefetchRendersTheNeedy ==
  ASSUME CompletionInv, NEW given, Refetch(given), DOMAIN items' = DOMAIN items,
         \A i \in DOMAIN items : items'[i].source = items[i].source
  PROVE  RenderedOnlyIfNeeded'
<1>1. /\ items' = Refilled(given)
      /\ toRender' = {u \in plan.price : StillMissingPrice(u, Refilled(given))}
      /\ asked' = {<<"page", u>> : u \in plan.price \union plan.image}
  BY DEF Refetch, CompletionInv, PassesInOrder, Passes
<1>2. SUFFICES ASSUME NEW u \in Urls, <<"browser", u>> \in asked' \/ u \in toRender'
               PROVE  /\ <<"page", u>> \in asked'
                      /\ u # NoUrl
                      /\ \A i \in DOMAIN items' : IsOf(i, u)' =>
                           \A f \in {"price", "offers"} : items'[i][f] \in Unpriced \union {FromBrowser(u)}
  BY DEF RenderedOnlyIfNeeded
<1>3. u \in plan.price /\ StillMissingPrice(u, Refilled(given))
  BY <1>1, <1>2
<1>4. u # NoUrl
  BY <1>3 DEF StillMissingPrice, IsOf
<1>5. ASSUME NEW i \in DOMAIN items', IsOf(i, u)', NEW f \in {"price", "offers"}
      PROVE  items'[i][f] \in Unpriced \union {FromBrowser(u)}
  <2>1. IsOf(i, u)
    BY <1>5 DEF IsOf
  <2> QED
    BY <1>1, <1>3, <1>5, <2>1 DEF StillMissingPrice, Priceless
<1> QED
  BY <1>1, <1>3, <1>4, <1>5

LEMMA RenderKeepsToThePage ==
  ASSUME CompletionInv, RenderedOnlyIfNeeded, NEW u \in toRender,
         NEW given \in Looks(FromBrowser(u)), Render(u, given),
         \A i \in DOMAIN items : items'[i].source = items[i].source
  PROVE  RenderedOnlyIfNeeded'
<1>1. toRender' \subseteq toRender /\ asked' = asked \union {<<"browser", u>>}
  BY DEF Render
<1>2. SUFFICES ASSUME NEW w \in Urls, <<"browser", w>> \in asked' \/ w \in toRender'
               PROVE  /\ <<"page", w>> \in asked'
                      /\ w # NoUrl
                      /\ \A i \in DOMAIN items' : IsOf(i, w)' =>
                           \A f \in {"price", "offers"} : items'[i][f] \in Unpriced \union {FromBrowser(w)}
  BY DEF RenderedOnlyIfNeeded
<1>3. <<"browser", w>> \in asked \/ w \in toRender
  BY <1>1, <1>2
<1>4. /\ <<"page", w>> \in asked
      /\ w # NoUrl
      /\ \A i \in DOMAIN items : IsOf(i, w) =>
           \A f \in {"price", "offers"} : items[i][f] \in Unpriced \union {FromBrowser(w)}
  BY <1>3 DEF RenderedOnlyIfNeeded
<1>5. ASSUME NEW i \in DOMAIN items', IsOf(i, w)', NEW f \in {"price", "offers"}
      PROVE  items'[i][f] \in Unpriced \union {FromBrowser(w)}
  <2>1. i \in DOMAIN items /\ DOMAIN items[i] = Described
    BY RenderEffect DEF CompletionInv, ItemsDescribed
  <2>2. IsOf(i, w)
    BY <1>5, <2>1 DEF IsOf
  <2>3. items[i][f] \in Unpriced \union {FromBrowser(w)}
    BY <1>4, <2>1, <2>2
  <2>4. CASE IsOf(i, u)
    <3>1. u = w
      BY <2>2, <2>4 DEF IsOf
    <3>2. items'[i] = FilledFields(items[i], Open(items[i]), given)
      BY <2>1, <2>4, RenderEffect
    <3>3. f \in Described /\ given[f] \in Unpriced \union {FromBrowser(w)}
      BY <3>1 DEF Described, Fields, Looks, Unpriced
    <3>4. items'[i][f] \in {given[f], items[i][f]}
      BY <2>1, <3>2, <3>3, FillingFills
    <3> QED
      BY <2>3, <3>3, <3>4
  <2>5. CASE ~IsOf(i, u)
    BY <2>1, <2>3, <2>5, RenderEffect
  <2> QED
    BY <2>4, <2>5
<1> QED
  BY <1>1, <1>4, <1>5

(* The browser, the slowest of all means, is asked for a page only when    *)
(* the plain look at it left every product of the page without a price,    *)
(* and for no page that has no product.                                    *)
THEOREM BrowserSpared == CompletionSpec => []RenderedOnlyIfNeeded
<1>1. CompletionInv /\ RenderedOnlyIfNeeded /\ [CompletionStep]_completionVars => RenderedOnlyIfNeeded'
  <2> SUFFICES ASSUME CompletionInv, RenderedOnlyIfNeeded, [CompletionStep]_completionVars
               PROVE  RenderedOnlyIfNeeded'
    OBVIOUS
  <2>1. DOMAIN items' = DOMAIN items /\ \A i \in DOMAIN items : items'[i].source = items[i].source
    BY StepMay, SourceStays
  <2>2. ASSUME NEW given, Refetch(given) PROVE RenderedOnlyIfNeeded'
    BY <2>1, <2>2, RefetchRendersTheNeedy
  <2>3. ASSUME NEW u \in toRender, NEW given \in Looks(FromBrowser(u)), Render(u, given)
        PROVE  RenderedOnlyIfNeeded'
    BY <2>1, <2>3, RenderKeepsToThePage
  <2>4. ASSUME UNCHANGED <<asked, toRender>>, stage \in Passes PROVE RenderedOnlyIfNeeded'
    BY <2>4 DEF CompletionInv, PassesInOrder, RenderedOnlyIfNeeded
  <2>5. CASE UNCHANGED completionVars
    BY <2>5 DEF completionVars, RenderedOnlyIfNeeded, IsOf
  <2> QED
    BY <2>2, <2>3, <2>4, <2>5
    DEF CompletionStep, MergeTierFields, CorrectPrices, SupplementGtins, SkipGtins,
        CheckCompleteness, Passes
<1>2. CompletionInit => CompletionInv /\ RenderedOnlyIfNeeded
  BY CompletionAtFirst
<1> QED
  BY <1>1, <1>2, CompletionStepKeeps, PTL DEF CompletionSpec

-----------------------------------------------------------------------------
(***************************************************************************)
(* FilledFromItsOwn.  What the probes lend is none of the values that the  *)
(* passes after them give; and these give a product only what is its own,  *)
(* and leave what it is told by as it is.                                  *)
(***************************************************************************)
\* The values that do not tell where they are from.
Plain == {NoValue} \union Extracted \union Probed \union Shared

\* What a product may be given for a field.
IsItsOwn(p, lent, f, v) ==
  \/ v \in Plain
  \/ f \in Fields /\ v \in {FromPage(p.source), FromBrowser(p.source)}
  \/ f = "gtin" /\ \E u : v = Gtin(u) /\ IsTold(p, Path[u] = Path[p.url], PageTitle[u] = p.title)
  \/ /\ f = "offers"
     /\ \E a : /\ v = FromCatalogue(a)
               /\ "offers" \in lent \/ IsTold(p, a.handle = p.url, a.title = p.title)

\* Values from different places differ, and of one place they differ by what they are told by.
LEMMA PlainValues ==
  ASSUME NEW v \in Plain, NEW u, NEW a
  PROVE  v \notin {FromPage(u), FromBrowser(u), Gtin(u), FromCatalogue(a)}
<1>1. Len(FromPage(u)) = 2 /\ Len(FromBrowser(u)) = 2 /\ Len(Gtin(u)) = 2 /\ Len(FromCatalogue(a)) = 3
  BY DEF FromPage, FromBrowser, Gtin, FromCatalogue
<1>2. CASE v \in {NoValue} \union Extracted \union Probed
  <2>1. Len(v) = 1
    BY <1>2 DEF NoValue, FromProbe, Extracted, Probed, Bare, Zero, Own, Foreign
  <2> QED
    BY <1>1, <2>1
<1>3. CASE v \in Shared
  <2>1. PICK w \in Probed : v = <<"lent", w>>
    BY <1>3 DEF Shared, Lent
  <2>2. v[1] = "lent" /\ Len(v) = 2
    BY <2>1
  <2>3. FromPage(u)[1] = "page" /\ FromBrowser(u)[1] = "browser" /\ Gtin(u)[1] = "gtin"
    BY DEF FromPage, FromBrowser, Gtin
  <2> QED
    BY <1>1, <2>2, <2>3
<1> QED
  BY <1>2, <1>3 DEF Plain

LEMMA SharedValues ==
  ASSUME NEW v \in Shared, NEW u, NEW a
  PROVE  v \notin Extracted \union {FromPage(u), FromBrowser(u), FromCatalogue(a)}
<1>1. v \in Plain
  BY DEF Plain
<1>2. PICK w \in Probed : v = <<"lent", w>>
  BY DEF Shared, Lent
<1>3. Len(v) = 2
  BY <1>2
<1>4. v \notin Extracted
  BY <1>3 DEF Extracted, NoValue, Bare, Zero, Own, Foreign
<1> QED
  BY <1>1, <1>4, PlainValues

LEMMA ToldValues ==
  ASSUME NEW u, NEW w, NEW a, NEW b
  PROVE  /\ FromPage(u) = FromPage(w) => u = w
         /\ FromBrowser(u) = FromBrowser(w) => u = w
         /\ Gtin(u) = Gtin(w) => u = w
         /\ FromCatalogue(a) = FromCatalogue(b) => a.handle = b.handle /\ a.title = b.title
         /\ FromPage(u) # FromBrowser(w) /\ FromPage(u) # Gtin(w) /\ FromBrowser(u) # Gtin(w)
         /\ FromCatalogue(a) \notin {FromPage(u), FromBrowser(u), Gtin(u)}
<1>1. Len(FromPage(u)) = 2 /\ Len(FromBrowser(u)) = 2 /\ Len(Gtin(u)) = 2 /\ Len(FromCatalogue(a)) = 3
  BY DEF FromPage, FromBrowser, Gtin, FromCatalogue
<1>2. /\ FromPage(u) = FromPage(w) => u = w
      /\ FromBrowser(u) = FromBrowser(w) => u = w
      /\ Gtin(u) = Gtin(w) => u = w
  BY DEF FromPage, FromBrowser, Gtin
<1>3. FromCatalogue(a) = FromCatalogue(b) => a.handle = b.handle /\ a.title = b.title
  BY DEF FromCatalogue
<1>4. FromPage(u) # FromBrowser(w) /\ FromPage(u) # Gtin(w) /\ FromBrowser(u) # Gtin(w)
  BY DEF FromPage, FromBrowser, Gtin
<1> QED
  BY <1>1, <1>2, <1>3, <1>4

LEMMA PlainIsItsOwn ==
  ASSUME NEW p, NEW lent, \A f \in Fields \union {"gtin"} : p[f] \in Plain
  PROVE  HasItsOwn(p, lent)
<1>1. p.gtin \in Plain /\ p.offers \in Plain
  BY DEF Fields
<1> QED
  BY <1>1, PlainValues DEF HasItsOwn

\* What one step gives to one product is its own.
Gives(p, lent, q) ==
  /\ q.source = p.source /\ q.url = p.url /\ q.title = p.title
  /\ \A f \in Fields \union {"gtin"} : q[f] = p[f] \/ IsItsOwn(p, lent, f, q[f])

LEMMA GivenItsOwn ==
  ASSUME NEW p, NEW q, NEW lent, HasItsOwn(p, lent), Gives(p, lent, q)
  PROVE  HasItsOwn(q, lent)
<1>1. ASSUME NEW f \in Fields, NEW u \in Urls, q[f] \in {FromPage(u), FromBrowser(u)}
      PROVE  q.source = u
  <2>1. CASE q[f] = p[f]
    BY <1>1, <2>1 DEF HasItsOwn, Gives
  <2>2. CASE IsItsOwn(p, lent, f, q[f])
    BY <1>1, <2>2, PlainValues, ToldValues DEF IsItsOwn, Gives
  <2> QED
    BY <2>1, <2>2 DEF Gives
<1>2. ASSUME lent \intersect {"url", "title"} = {}, NEW u \in Urls, q.gtin = Gtin(u)
      PROVE  IsTold(q, Path[u] = Path[q.url], PageTitle[u] = q.title)
  <2>1. CASE q.gtin = p.gtin
    BY <1>2, <2>1 DEF HasItsOwn, Gives, IsTold
  <2>2. CASE IsItsOwn(p, lent, "gtin", q.gtin)
    BY <1>2, <2>2, PlainValues, ToldValues DEF IsItsOwn, Fields, Gives, IsTold
  <2> QED
    BY <2>1, <2>2 DEF Gives
<1>3. ASSUME lent \intersect {"url", "title", "offers"} = {},
             NEW listed \in Listings, NEW n \in DOMAIN listed, q.offers = FromCatalogue(listed[n])
      PROVE  IsTold(q, listed[n].handle = q.url, listed[n].title = q.title)
  <2>1. CASE q.offers = p.offers
    BY <1>3, <2>1 DEF HasItsOwn, Gives, IsTold
  <2>2. CASE IsItsOwn(p, lent, "offers", q.offers)
    <3>1. PICK a : /\ q.offers = FromCatalogue(a)
                   /\ "offers" \in lent \/ IsTold(p, a.handle = p.url, a.title = p.title)
      BY <1>3, <2>2, PlainValues, ToldValues DEF IsItsOwn
    <3>2. a.handle = listed[n].handle /\ a.title = listed[n].title
      BY <1>3, <3>1, ToldValues
    <3>3. "offers" \notin lent
      BY <1>3
    <3> QED
      BY <3>1, <3>2, <3>3 DEF Gives, IsTold
  <2> QED
    BY <2>1, <2>2 DEF Gives, Fields
<1> QED
  BY <1>1, <1>2, <1>3 DEF HasItsOwn

\* The GTIN comes from a page of the path or of the name of the product.
LEMMA GtinIsItsOwn ==
  ASSUME NEW p, NEW lent, NEW found, GtinOf(p, found) # {}
  PROVE  IsItsOwn(p, lent, "gtin", Gtin(CHOOSE u \in GtinOf(p, found) : TRUE))
<1> DEFINE v == CHOOSE u \in GtinOf(p, found) : TRUE
<1>1. v \in GtinOf(p, found)
  OBVIOUS
<1> HIDE DEF v
<1>2. IsTold(p, Path[v] = Path[p.url], PageTitle[v] = p.title)
  BY <1>1 DEF GtinOf, IsTold
<1> QED
  BY <1>2 DEF IsItsOwn, v

\* The corrected price is that of a product with the handle or the title.
LEMMA MatchesItsOwn ==
  ASSUME NEW p, NEW listed, NEW a \in Matches(p, listed)
  PROVE  IsTold(p, a.handle = p.url, a.title = p.title)
<1>1. \A key, wanted : \A b \in LastOf(listed, key, wanted) : b[key] = wanted
  BY DEF LastOf
<1>2. \/ p.url # NoUrl /\ a \in LastOf(listed, "handle", p.url)
      \/ p.title # NoTitle /\ a \in LastOf(listed, "title", p.title)
  BY DEF Matches
<1> QED
  BY <1>1, <1>2 DEF IsTold

LEMMA PriceIsItsOwn ==
  ASSUME NEW i \in DOMAIN items, DOMAIN items[i] = Described, NEW lent, NEW listed,
         items[i].offers \in Shared => "offers" \in lent
  PROVE  /\ Gives(items[i], lent, Corrected(i, listed))
         /\ \/ Corrected(i, listed).offers = items[i].offers
            \/ \E a : Corrected(i, listed).offers = FromCatalogue(a)
<1> DEFINE found == {j \in Sharing(i) : Priced(j, listed) # {}}
           first == CHOOSE j \in found : \A k \in found : j <= k
           a == CHOOSE b \in Priced(first, listed) : TRUE
<1>1. CASE Corrected(i, listed) = items[i]
  BY <1>1 DEF Gives
<1>2. CASE Corrected(i, listed) # items[i]
  <2>1. found # {} /\ Corrected(i, listed) = [items[i] EXCEPT !.offers = FromCatalogue(a)]
    BY <1>2 DEF Corrected
  <2>2. "offers" \in lent \/ IsTold(items[i], a.handle = items[i].url, a.title = items[i].title)
    <3>1. CASE items[i].offers \in Shared
      BY <3>1
    <3>2. CASE items[i].offers \notin Shared
      <4>1. Sharing(i) = {i}
        BY <3>2 DEF Sharing
      <4>2. found = {i} /\ Priced(i, listed) # {}
        BY <2>1, <4>1
      <4>3. first = i
        <5>1. \A j : j \in found <=> j = i
          BY <4>2
        <5>2. (\E j \in found : \A k \in found : j <= k) => first \in found
          OBVIOUS
        <5> QED
          BY <2>1, <4>1
      <4>4. a \in Priced(i, listed)
        BY <4>2, <4>3
      <4> HIDE DEF a, first, found
      <4>5. a \in Matches(items[i], listed)
        BY <4>4 DEF Priced
      <4> QED
        BY <4>5, MatchesItsOwn
    <3> QED
      BY <3>1, <3>2
  <2> HIDE DEF a, first, found
  <2>3. IsItsOwn(items[i], lent, "offers", FromCatalogue(a))
    BY <2>2 DEF IsItsOwn
  <2>4. /\ "offers" \in Described /\ "source" \in Described /\ "url" \in Described /\ "title" \in Described
        /\ Fields \union {"gtin"} \subseteq Described
    BY DEF Described, Fields, Marks
  <2> QED
    BY <2>1, <2>3, <2>4 DEF Gives
<1> QED
  BY <1>1, <1>2

LEMMA FillingGives ==
  ASSUME NEW p, DOMAIN p = Described, NEW fields \in SUBSET Fields, NEW from, NEW lent,
         \A f \in fields : IsItsOwn(p, lent, f, from[f])
  PROVE  Gives(p, lent, FilledFields(p, fields, from))
  BY FillingFills DEF Gives, Fields, Marks, Described

\* A look at a page gives what is the page's, or says nothing of it.
LEMMA LooksAreOwn ==
  ASSUME NEW p, NEW lent, NEW given, NEW f \in Fields,
         given[f] \in {NoValue, Zero, FromPage(p.source), FromBrowser(p.source)}
  PROVE  IsItsOwn(p, lent, f, given[f])
  BY DEF IsItsOwn, Plain, Extracted

\* Until the merging of the probes the products are as they were extracted, and offers are
\* shared only among those that they were lent to.
AsExtracted ==
  stage = "merging" => \A i \in DOMAIN items, f \in Fields \union {"gtin"} : items[i][f] \in Extracted

SharedIsLent == \A i \in DOMAIN items : items[i].offers \in Shared => "offers" \in borrowed[i]

OwnInv == CompletionInv /\ AsExtracted /\ SharedIsLent /\ FilledFromItsOwn

\* What the passes after the merging do.
KeepsOwn(i) ==
  /\ Gives(items[i], borrowed[i], items'[i])
  /\ items'[i].offers \in Shared => items[i].offers \in Shared

LEMMA LentIsPlain ==
  ASSUME OwnInv, NEW probe \in Probes, MergeTierFields(probe), NEW i \in DOMAIN items
  PROVE  /\ HasItsOwn(items'[i], borrowed'[i])
         /\ items'[i].offers \in Shared => "offers" \in borrowed'[i]
<1>1. \A f \in Fields \union {"gtin"} : items[i][f] \in Extracted
  BY DEF OwnInv, AsExtracted, MergeTierFields
<1>2. \A f \in Fields \union {"gtin"} : items'[i][f] \in Plain
  BY <1>1, MergeEffect DEF Plain, OwnInv
<1>3. items[i].offers \notin Shared
  BY <1>1, SharedValues DEF Fields
<1>4. "offers" \in Described
  BY DEF Described, Fields
<1>5. items'[i].offers \in Shared => "offers" \in borrowed'[i]
  BY <1>3, <1>4, MergeEffect DEF OwnInv
<1> QED
  BY <1>2, <1>5, PlainIsItsOwn

LEMMA StepKeepsOwn ==
  ASSUME OwnInv, [CompletionStep]_completionVars, ~\E probe \in Probes : MergeTierFields(probe)
  PROVE  UNCHANGED borrowed /\ \A i \in DOMAIN items : KeepsOwn(i)
<1>0. /\ \A i \in DOMAIN items : DOMAIN items[i] = Described
      /\ \A i \in DOMAIN items : items[i].offers \in Shared => "offers" \in borrowed[i]
  BY DEF OwnInv, CompletionInv, ItemsDescribed, SharedIsLent
<1>1. UNCHANGED borrowed
  BY DEF CompletionStep, CorrectPrices, SupplementGtins, SkipGtins, CheckCompleteness, Refetch,
         Render, completionVars
<1>2. ASSUME NEW listed, CorrectPrices(listed), NEW i \in DOMAIN items
      PROVE  KeepsOwn(i)
  <2>1. items'[i] = Corrected(i, listed)
    BY <1>2 DEF CorrectPrices
  <2>2. /\ Gives(items[i], borrowed[i], items'[i])
        /\ items'[i].offers = items[i].offers \/ \E a : items'[i].offers = FromCatalogue(a)
    BY <1>0, <2>1, PriceIsItsOwn
  <2> QED
    BY <2>2, SharedValues DEF KeepsOwn
<1>3. ASSUME NEW found, SupplementGtins(found), NEW i \in DOMAIN items
      PROVE  KeepsOwn(i)
  <2>1. items'[i] = Identified(items[i], found)
    BY <1>3 DEF SupplementGtins
  <2>2. CASE items'[i] = items[i]
    BY <2>2 DEF Gives, KeepsOwn
  <2>3. CASE /\ GtinOf(items[i], found) # {}
             /\ items'[i] = [items[i] EXCEPT !.gtin = Gtin(CHOOSE u \in GtinOf(items[i], found) : TRUE)]
    <3>1. IsItsOwn(items[i], borrowed[i], "gtin", items'[i].gtin)
      BY <1>0, <2>3, GtinIsItsOwn DEF Described, Marks
    <3>2. \A f \in Fields \union {"source", "url", "title"} : items'[i][f] = items[i][f]
      BY <1>0, <2>3 DEF Described, Fields, Marks
    <3>3. items'[i].offers = items[i].offers
      BY <3>2 DEF Fields
    <3> QED
      BY <3>1, <3>2, <3>3 DEF Gives, KeepsOwn
  <2> QED
    BY <2>1, <2>2, <2>3 DEF Identified
<1>4. ASSUME NEW from, NEW i \in DOMAIN items, items'[i] = FilledFields(items[i], Open(items[i]), from),
             \A f \in Fields : from[f] \in {NoValue, Zero, FromPage(items[i].source), FromBrowser(items[i].source)}
      PROVE  KeepsOwn(i)
  <2>1. \A f \in Open(items[i]) : IsItsOwn(items[i], borrowed[i], f, from[f])
    BY <1>4, OpenFields, LooksAreOwn
  <2>2. Gives(items[i], borrowed[i], items'[i])
    BY <1>0, <1>4, <2>1, OpenFields, FillingGives
  <2>3. items'[i].offers \in {items[i].offers, from.offers}
    BY <1>0, <1>4, FillingFills DEF Described, Fields
  <2>4. from.offers \notin Shared
    <3>1. from.offers \in {NoValue, Zero, FromPage(items[i].source), FromBrowser(items[i].source)}
      BY <1>4 DEF Fields
    <3> QED
      BY <3>1, SharedValues DEF Extracted
  <2> QED
    BY <2>2, <2>3, <2>4 DEF KeepsOwn
<1>5. ASSUME stage = "refetching",
             NEW looks \in [plan.price \union plan.image -> Looks(Own)],
             Refetch([u \in DOMAIN looks |-> LookAt(u, looks[u])]),
             NEW i \in DOMAIN items
      PROVE  KeepsOwn(i)
  <2> DEFINE given == [u \in DOMAIN looks |-> LookAt(u, looks[u])]
             s == items[i].source
  <2>1. items' = Refilled(given)
    BY <1>5 DEF Refetch
  <2>2. CASE s # NoUrl /\ s \in plan.price \union plan.image
    <3>1. items'[i] = FilledFields(items[i], Open(items[i]), given[s])
      BY <2>1, <2>2 DEF Refilled, FilledFrom
    <3>2. looks[s] \in Looks(Own) /\ given[s] = LookAt(s, looks[s])
      BY <2>2
    <3>3. \A f \in Fields : given[s][f] \in {NoValue, Zero, FromPage(s)}
      BY <3>2 DEF LookAt, Looks, Fields
    <3> HIDE DEF given
    <3> QED
      BY <1>4, <3>1, <3>3
  <2>3. CASE ~(s # NoUrl /\ s \in plan.price \union plan.image)
    <3>1. items'[i] = items[i]
      BY <2>1, <2>3 DEF Refilled
    <3> QED
      BY <3>1 DEF Gives, KeepsOwn
  <2> QED
    BY <2>2, <2>3
<1>6. ASSUME NEW u \in toRender, NEW given \in Looks(FromBrowser(u)), Render(u, given), NEW i \in DOMAIN items
      PROVE  KeepsOwn(i)
  <2>0. CompletionInv
    BY DEF OwnInv
  <2>1. CASE ~IsOf(i, u)
    BY <1>6, <2>0, <2>1, RenderEffect DEF Gives, KeepsOwn
  <2>2. CASE IsOf(i, u)
    <3>1. items'[i] = FilledFields(items[i], Open(items[i]), given) /\ items[i].source = u
      BY <1>6, <2>0, <2>2, RenderEffect DEF IsOf
    <3>2. \A f \in Fields : given[f] \in {NoValue, Zero, FromBrowser(u)}
      BY DEF Looks, Fields
    <3> QED
      BY <1>4, <3>1, <3>2
  <2> QED
    BY <2>1, <2>2
<1>7. ASSUME UNCHANGED items, NEW i \in DOMAIN items
      PROVE  KeepsOwn(i)
  BY <1>7 DEF Gives, KeepsOwn
<1> QED
  BY <1>1, <1>2, <1>3, <1>5, <1>6, <1>7
  DEF CompletionStep, SkipGtins, CheckCompleteness, completionVars

LEMMA MergedOnce == [CompletionStep]_completionVars /\ stage' = "merging" => UNCHANGED <<stage, items>>
  BY DEF CompletionStep, MergeTierFields, AfterMerging, CorrectPrices, SupplementGtins, SkipGtins,
         CheckCompleteness, Refetch, Render, completionVars

(* However many products share a page, a path, a title or a handle: a      *)
(* value from a second look is from the page of the product; and if it is  *)
(* told by its own URL and title, its GTIN is from a page of its path or   *)
(* name, and its corrected price, unless a probe lent it its offers, from  *)
(* a product of the API with its handle or title.                          *)
THEOREM GivenOnlyItsOwn == CompletionSpec => []FilledFromItsOwn
<1>1. CompletionInit => OwnInv
  <2> SUFFICES ASSUME CompletionInit PROVE OwnInv
    OBVIOUS
  <2>1. \A i \in DOMAIN items, f \in Fields \union {"gtin"} : items[i][f] \in Extracted
    BY CompletionAssumption DEF CompletionInit
  <2>2. \A i \in DOMAIN items : items[i].offers \in Extracted
    BY <2>1 DEF Fields
  <2>3. \A i \in DOMAIN items : HasItsOwn(items[i], borrowed[i])
    BY <2>1, PlainIsItsOwn DEF Plain
  <2>4. SharedIsLent
    BY <2>2, SharedValues DEF SharedIsLent
  <2> QED
    BY <2>1, <2>3, <2>4, CompletionAtFirst DEF OwnInv, AsExtracted, FilledFromItsOwn
<1>2. OwnInv /\ [CompletionStep]_completionVars => OwnInv'
  <2> SUFFICES ASSUME OwnInv, [CompletionStep]_completionVars PROVE OwnInv'
    OBVIOUS
  <2>1. CompletionInv /\ CompletionInv' /\ DOMAIN items' = DOMAIN items
    BY StepMay, CompletionStepKeeps DEF OwnInv
  <2>2. AsExtracted'
    BY MergedOnce DEF OwnInv, AsExtracted
  <2>3. CASE \E probe \in Probes : MergeTierFields(probe)
    BY <2>1, <2>2, <2>3, LentIsPlain DEF OwnInv, SharedIsLent, FilledFromItsOwn
  <2>4. CASE ~\E probe \in Probes : MergeTierFields(probe)
    <3>1. UNCHANGED borrowed /\ \A i \in DOMAIN items : KeepsOwn(i)
      BY <2>4, StepKeepsOwn
    <3>2. ASSUME NEW i \in DOMAIN items PROVE HasItsOwn(items'[i], borrowed[i])
      <4>1. HasItsOwn(items[i], borrowed[i]) /\ Gives(items[i], borrowed[i], items'[i])
        BY <3>1 DEF KeepsOwn, OwnInv, FilledFromItsOwn
      <4> QED
        BY <4>1, GivenItsOwn
    <3>3. \A i \in DOMAIN items : items'[i].offers \in Shared => "offers" \in borrowed[i]
      BY <3>1 DEF KeepsOwn, OwnInv, SharedIsLent
    <3> QED
      BY <2>1, <2>2, <3>1, <3>2, <3>3 DEF OwnInv, SharedIsLent, FilledFromItsOwn
  <2> QED
    BY <2>3, <2>4
<1>3. OwnInv => FilledFromItsOwn
  BY DEF OwnInv
<1> QED
  BY <1>1, <1>2, <1>3, PTL DEF CompletionSpec

-----------------------------------------------------------------------------
(***************************************************************************)
(* PagedExtraction.  What the eight extractors have in common: a page that *)
(* is told to be the last reaches the end of the catalogue, and one that   *)
(* is not is full.                                                         *)
(***************************************************************************)
PhasesOfPaging == {"starting", "asking", "returned", "raised"}

PagingTyped ==
  /\ extractor \in DOMAIN Convention
  /\ shop \in Seq(Int) /\ products \in Seq(Int)
  /\ steady \subseteq {shop[i] : i \in DOMAIN shop}
  /\ changes \in Nat
  /\ phase \in PhasesOfPaging
  /\ page \in Nat \ {0}
  /\ cursor \in Int \union {None}
  /\ complete \in BOOLEAN
  /\ phase # "returned" => ending = None
  /\ phase = "starting" => products = <<>>

LEMMA Conventions ==
  ASSUME extractor \in DOMAIN Convention
  PROVE  /\ The.last \in {"short", "count", "pages", "link"}
         /\ The.last \in {"count", "pages"} => The.total \in {"first", "latest"}
<1>1. extractor \in {"shopify_api", "woocommerce_api", "magento_api", "shopify_admin",
                     "woocommerce_admin", "bigcommerce_admin", "magento_admin", "shopware_admin"}
  BY DEF Convention
<1>2. CASE extractor \in {"shopify_api", "woocommerce_api"}
  BY <1>2 DEF The, Convention, ShopifyApi, WooCommerceApi, Public
<1>3. CASE extractor = "magento_api"
  BY <1>3 DEF The, Convention, MagentoApi, Public
<1>4. CASE extractor = "shopify_admin"
  BY <1>4 DEF The, Convention, ShopifyAdmin, Admin
<1>5. CASE extractor = "woocommerce_admin"
  BY <1>5 DEF The, Convention, WooCommerceAdmin, Admin
<1>6. CASE extractor = "bigcommerce_admin"
  BY <1>6 DEF The, Convention, BigCommerceAdmin, Admin
<1>7. CASE extractor = "magento_admin"
  BY <1>7 DEF The, Convention, MagentoAdmin, Admin
<1>8. CASE extractor = "shopware_admin"
  BY <1>8 DEF The, Convention, ShopwareAdmin, Admin
<1> QED
  BY <1>1, <1>2, <1>3, <1>4, <1>5, <1>6, <1>7, <1>8

\* What is behind the cursor.
LEMMA BehindIs ==
  ASSUME PagingTyped
  PROVE  /\ Behind \in Seq(Int)
         /\ \A n \in DOMAIN Behind : cursor # None => Behind[n] > cursor
         /\ \A n \in DOMAIN Behind : \E i \in DOMAIN shop : Behind[n] = shop[i]
         /\ \A i \in DOMAIN shop : cursor = None \/ shop[i] > cursor =>
              \E n \in DOMAIN Behind : Behind[n] = shop[i]
<1>1. CASE cursor = None
  BY <1>1 DEF Behind, PagingTyped
<1>2. CASE cursor # None
  <2> DEFINE beyond == {i \in DOMAIN shop : shop[i] > cursor}
  <2>1. Behind = Only(shop, beyond) /\ beyond \in SUBSET DOMAIN shop /\ shop \in Seq(Int)
    BY <1>2 DEF Behind, PagingTyped
  <2>2. \A i \in DOMAIN shop : i \in beyond <=> shop[i] > cursor
    OBVIOUS
  <2> HIDE DEF beyond
  <2>3. /\ Only(shop, beyond) \in Seq(Int)
        /\ \A n \in DOMAIN Only(shop, beyond) : \E i \in beyond : Only(shop, beyond)[n] = shop[i]
        /\ \A i \in beyond : \E n \in DOMAIN Only(shop, beyond) : Only(shop, beyond)[n] = shop[i]
    BY <2>1, OnlyThese
  <2> QED
    BY <1>2, <2>1, <2>2, <2>3
<1> QED
  BY <1>1, <1>2

\* A page is the first part of a longer list of what is there.
LEMMA PageIs ==
  ASSUME PagingTyped
  PROVE  /\ Page \in Seq(Int)
         /\ The.last = "link" =>
              /\ Len(Page) = Least(PageSize, Len(Behind)) /\ Len(Page) <= Len(Behind)
              /\ \A n \in DOMAIN Page : n \in DOMAIN Behind /\ Page[n] = Behind[n]
<1>1. CASE The.last = "link"
  <2> DEFINE m == Least(PageSize, Len(Behind))
  <2>1. Behind \in Seq(Int) /\ Page = SubSeq(Behind, 1, m)
    BY <1>1, BehindIs DEF Page
  <2>2. m \in Nat /\ m <= Len(Behind)
    BY <2>1, PagingAssumption DEF Least
  <2> HIDE DEF m
  <2> QED
    BY <2>1, <2>2 DEF m
<1>2. CASE The.last # "link"
  <2> DEFINE m == Least(Offset + PageSize, Len(shop))
  <2>1. shop \in Seq(Int) /\ Page = SubSeq(shop, Offset + 1, m)
    BY <1>2 DEF Page, PagingTyped
  <2>2. Offset \in Nat
    <3>1. page - 1 \in Nat /\ PageSize \in Nat
      BY PagingAssumption DEF PagingTyped
    <3> QED
      BY <3>1 DEF Offset
  <2>3. m \in Nat /\ m <= Len(shop)
    BY <2>1, <2>2, PagingAssumption DEF Least
  <2> HIDE DEF m
  <2> QED
    BY <1>2, <2>1, <2>2, <2>3
<1> QED
  BY <1>1, <1>2

Ascends(list) == \A i, j \in DOMAIN list : i < j => list[i] < list[j]

\* The merchant keeps the order.
LEMMA CataloguesAre ==
  ASSUME shop \in Seq(Int), NEW other \in Catalogues
  PROVE  /\ other \in Seq(Int)
         /\ Ascends(shop) => Ascends(other)
<1>1. CASE \E i \in DOMAIN shop : other = Only(shop, DOMAIN shop \ {i})
  <2>1. PICK i \in DOMAIN shop : other = Only(shop, DOMAIN shop \ {i})
    BY <1>1
  <2>2. DOMAIN shop \ {i} \in SUBSET DOMAIN shop
    OBVIOUS
  <2>3. other \in Seq(Int)
    BY <2>1, <2>2, OnlyThese
  <2>4. ASSUME Ascends(shop) PROVE Ascends(other)
    BY <2>1, <2>2, <2>4, OnlyAscends DEF Ascends
  <2> QED
    BY <2>3, <2>4
<1>2. CASE shop = <<>> /\ other = <<0>>
  BY <1>2 DEF Ascends
<1>3. CASE shop # <<>> /\ other = <<shop[1] - 1>> \o shop
  <2>1. Len(shop) \in Nat \ {0} /\ shop[1] \in Int
    BY <1>3
  <2>2. /\ other \in Seq(Int) /\ Len(other) = Len(shop) + 1 /\ other[1] = shop[1] - 1
        /\ \A i \in 2 .. Len(shop) + 1 : other[i] = shop[i - 1]
    BY <1>3, <2>1
  <2>3. ASSUME Ascends(shop), NEW i \in DOMAIN other, NEW j \in DOMAIN other, i < j
        PROVE  other[i] < other[j]
    <3>1. i \in 1 .. Len(shop) + 1 /\ j \in 2 .. Len(shop) + 1
      BY <2>2, <2>3
    <3>2. other[j] = shop[j - 1] /\ j - 1 \in DOMAIN shop /\ shop[j - 1] \in Int
      <4>1. j - 1 \in 1 .. Len(shop) /\ DOMAIN shop = 1 .. Len(shop)
        BY <2>1, <3>1
      <4> QED
        BY <2>2, <3>1, <4>1
    <3>3. shop[1] <= shop[j - 1]
      BY <2>1, <2>3, <3>1, <3>2 DEF Ascends
    <3>4. CASE i = 1
      BY <2>1, <2>2, <3>2, <3>3, <3>4
    <3>5. CASE i # 1
      <4>1. i \in 2 .. Len(shop) + 1
        BY <3>1, <3>5
      <4>2. i - 1 \in DOMAIN shop /\ i - 1 < j - 1
        BY <2>1, <2>3, <3>1, <4>1
      <4> QED
        BY <2>2, <2>3, <3>2, <4>1, <4>2 DEF Ascends
    <3> QED
      BY <3>4, <3>5
  <2> QED
    BY <2>2, <2>3 DEF Ascends
<1>4. CASE shop # <<>> /\ other = Append(shop, shop[Len(shop)] + 1)
  <2>1. Len(shop) \in Nat \ {0} /\ shop[Len(shop)] \in Int
    BY <1>4
  <2>2. /\ other \in Seq(Int) /\ Len(other) = Len(shop) + 1 /\ other[Len(shop) + 1] = shop[Len(shop)] + 1
        /\ \A i \in 1 .. Len(shop) : other[i] = shop[i]
    BY <1>4, <2>1
  <2>3. ASSUME Ascends(shop), NEW i \in DOMAIN other, NEW j \in DOMAIN other, i < j
        PROVE  other[i] < other[j]
    <3>1. i \in 1 .. Len(shop) /\ j \in 1 .. Len(shop) + 1
      BY <2>2, <2>3
    <3>2. other[i] = shop[i] /\ shop[i] \in Int
      BY <2>1, <2>2, <3>1
    <3>3. shop[i] <= shop[Len(shop)]
      BY <2>1, <2>3, <3>1, <3>2 DEF Ascends
    <3>4. CASE j = Len(shop) + 1
      BY <2>1, <2>2, <3>2, <3>3, <3>4
    <3>5. CASE j # Len(shop) + 1
      <4>1. j \in 1 .. Len(shop)
        BY <2>1, <3>1, <3>5
      <4>2. other[j] = shop[j] /\ i \in DOMAIN shop /\ j \in DOMAIN shop
        BY <2>2, <3>1, <4>1
      <4> QED
        BY <2>3, <3>2, <4>2 DEF Ascends
    <3> QED
      BY <3>4, <3>5
  <2> QED
    BY <2>2, <2>3 DEF Ascends
<1> QED
  BY <1>1, <1>2, <1>3, <1>4 DEF Catalogues

(***************************************************************************)
(* A step either leaves the products alone (Rests), or takes them back     *)
(* (GivesUpAll), or ends the catalogue (EmptyPage), or adds a page, or is  *)
(* the shop's own.                                                         *)
(***************************************************************************)
Rests ==
  /\ UNCHANGED <<extractor, catalogue, page, cursor, total, products>>
  /\ phase' \in PhasesOfPaging
  /\ phase' = "starting" => phase = "starting"
  /\ phase \in {"starting", "asking"}
  /\ complete' \in BOOLEAN
  /\ phase' # "returned" => ending' = ending
  /\ complete' => ending' \notin {"last", "empty"}
  /\ phase' = "returned" /\ complete' => ending' = "cut"

GivesUpAll ==
  /\ UNCHANGED <<extractor, catalogue, page, cursor, total>>
  /\ products' = <<>> /\ phase = "asking" /\ phase' = "returned" /\ complete' = FALSE

LEMMA PagingSteps ==
  ASSUME PagingTyped, [Next]_vars
  PROVE  \/ Rests \/ GivesUpAll \/ EmptyPage \/ LastPage \/ UntoldPage \/ CapReached \/ NextPage
         \/ Sell \/ UNCHANGED vars
<1>0. None \notin {"last", "empty"}
  BY PagingAssumption DEF Endings
<1> USE <1>0 DEF Rests, GivesUpAll, catalogue, reading, result, Return, Asks, PhasesOfPaging, PagingTyped
<1>1. ASSUME FirstToken PROVE Rests
  BY <1>1 DEF FirstToken
<1>2. ASSUME RenewToken PROVE Rests
  BY <1>2 DEF RenewToken
<1>3. ASSUME NEW status, Again(status) PROVE Rests
  BY <1>3 DEF Again
<1>4. ASSUME NEW status, Denied(status) PROVE GivesUpAll
  BY <1>4 DEF Denied
<1>5. ASSUME NEW status, Absent(status) PROVE Rests
  BY <1>5 DEF Absent
<1>6. ASSUME NEW status, Refused(status) PROVE Rests
  BY <1>6 DEF Refused
<1>7. TimesOut => Rests
  BY DEF TimesOut
<1>8. Malformed => Rests
  BY DEF Malformed
<1>9. Shapeless => Rests
  BY DEF Shapeless
<1> QED
  BY <1>1, <1>2, <1>3, <1>4, <1>5, <1>6, <1>7, <1>8, <1>9 DEF Next, Step

LEMMA PagingAtFirst == Init => PagingTyped
<1> SUFFICES ASSUME Init PROVE PagingTyped
  OBVIOUS
<1>1. PICK n \in 0 .. MaxProducts : shop = [i \in 1 .. n |-> i]
  BY DEF Init
<1>2. n \in Nat
  BY PagingAssumption
<1>3. shop \in Seq(Int)
  BY <1>1, <1>2
<1> QED
  BY <1>3 DEF Init, PagingTyped, PhasesOfPaging

\* A page that is added.
Adds ==
  /\ phase = "asking" /\ phase' \in {"asking", "returned"} /\ Page # <<>>
  /\ products' = products \o Page
  /\ UNCHANGED <<extractor, catalogue>>

LEMMA PagesAdd ==
  ASSUME LastPage \/ UntoldPage \/ CapReached \/ NextPage
  PROVE  Adds
  BY DEF LastPage, UntoldPage, CapReached, NextPage, Adds, Asks, Return, catalogue

LEMMA PagingStaysTyped == PagingTyped /\ [Next]_vars => PagingTyped'
<1> SUFFICES ASSUME PagingTyped, [Next]_vars PROVE PagingTyped'
  OBVIOUS
<1>0. Page \in Seq(Int) /\ products \in Seq(Int)
  BY PageIs DEF PagingTyped
<1>0a. ASSUME UNCHANGED <<extractor, catalogue>>
       PROVE  /\ extractor' \in DOMAIN Convention /\ shop' \in Seq(Int) /\ changes' \in Nat
              /\ steady' \subseteq {shop'[i] : i \in DOMAIN shop'}
  <2>1. shop' = shop /\ steady' = steady /\ changes' = changes
    BY <1>0a DEF catalogue
  <2> QED
    BY <1>0a, <2>1 DEF PagingTyped
<1>1. CASE Rests
  BY <1>0a, <1>1 DEF Rests, PagingTyped, PhasesOfPaging
<1>2. CASE GivesUpAll
  <2>1. <<>> \in Seq(Int)
    OBVIOUS
  <2> QED
    BY <1>0a, <1>2, <2>1 DEF GivesUpAll, PagingTyped, PhasesOfPaging
<1>3. CASE EmptyPage
  BY <1>3 DEF EmptyPage, Return, PagingTyped, PhasesOfPaging, catalogue
<1>4. ASSUME Adds PROVE products' \in Seq(Int)
  BY <1>0, <1>4 DEF Adds
<1>5. CASE LastPage \/ UntoldPage \/ CapReached
  <2>1. products' \in Seq(Int)
    BY <1>4, <1>5, PagesAdd
  <2> QED
    BY <1>5, <2>1 DEF LastPage, UntoldPage, CapReached, Return, PagingTyped, PhasesOfPaging, catalogue
<1>6. CASE NextPage
  <2>1. products' \in Seq(Int)
    BY <1>4, <1>6, PagesAdd
  <2>2. cursor' \in Int
    <3>1. Page # <<>> /\ cursor' = Page[Len(Page)]
      BY <1>6 DEF NextPage
    <3> QED
      BY <1>0, <3>1
  <2> QED
    BY <1>6, <2>1, <2>2 DEF NextPage, PagingTyped, PhasesOfPaging, Asks, catalogue
<1>7. CASE Sell
  <2>1. shop' \in Seq(Int) /\ steady' \subseteq {shop'[i] : i \in DOMAIN shop'}
    BY <1>7, CataloguesAre DEF Sell, PagingTyped
  <2> QED
    BY <1>7, <2>1 DEF Sell, PagingTyped, PhasesOfPaging, reading, result
<1>8. CASE UNCHANGED vars
  BY <1>8 DEF vars, catalogue, reading, result, PagingTyped
<1> QED
  BY <1>1, <1>2, <1>3, <1>5, <1>6, <1>7, <1>8, PagingSteps

(***************************************************************************)
(* PagesAddUp and CompleteIsWhole.  While the shop does not change, its    *)
(* products are numbered, and those that have been read are as many as the *)
(* pages before had, or end where the cursor is.                           *)
(***************************************************************************)
Counted(n) == [i \in 1 .. n |-> i]

\* The numbers behind k up to m.
Stretch(k, m) == [i \in 1 .. m - k |-> k + i]

\* Where the page that is asked for ends.
PageEnd == Least(Len(products) + PageSize, Len(shop))

ReadSoFar ==
  /\ shop = Counted(Len(shop))
  /\ Len(products) <= Len(shop) /\ products = Counted(Len(products))

ReadsOn ==
  phase \in {"starting", "asking"} =>
    /\ The.last = "link" => cursor = IF products = <<>> THEN None ELSE Len(products)
    /\ Len(products) = (page - 1) * PageSize
    /\ total \in {None, IF The.last = "pages" THEN Pages ELSE Len(shop)}

ReadAll ==
  phase = "returned" /\ complete =>
    \/ Len(products) = Len(shop)
    \/ ending = "cut"
    \/ ending = "untold" /\ page * PageSize < Len(shop)
    \/ ending = "cap" /\ MaxPages * PageSize < Len(shop)

Keeping == ReadSoFar /\ ReadsOn /\ ReadAll

KeepingInv == PagingTyped /\ (Unchanged => Keeping)

LEMMA Lengths ==
  ASSUME PagingTyped
  PROVE  /\ Len(shop) \in Nat /\ DOMAIN shop = 1 .. Len(shop)
         /\ Len(products) \in Nat /\ DOMAIN products = 1 .. Len(products)
         /\ PageEnd \in Nat /\ PageEnd <= Len(shop)
         /\ PageEnd = Len(shop) \/ PageEnd = Len(products) + PageSize
         /\ PageEnd <= Len(products) + PageSize
         /\ Len(products) <= Len(shop) => Len(products) <= PageEnd
<1>1. /\ Len(shop) \in Nat /\ DOMAIN shop = 1 .. Len(shop)
      /\ Len(products) \in Nat /\ DOMAIN products = 1 .. Len(products)
  BY DEF PagingTyped
<1>2. \A k, n \in Nat : LET m == Least(k + PageSize, n) IN
        /\ m \in Nat /\ m <= n /\ m <= k + PageSize
        /\ m = n \/ m = k + PageSize
        /\ k <= n => k <= m
  BY PagingAssumption DEF Least
<1> QED
  BY <1>1, <1>2 DEF PageEnd

\* Stretches of the natural numbers.
LEMMA Numbers ==
  ASSUME NEW k \in Nat, NEW m \in Nat, NEW n \in Nat, k <= m, m <= n
  PROVE  /\ Counted(n) \in Seq(Int) /\ Len(Counted(n)) = n
         /\ SubSeq(Counted(n), k + 1, m) = Stretch(k, m)
         /\ SubSeq(Stretch(k, n), 1, m - k) = Stretch(k, m)
         /\ Len(Stretch(k, m)) = m - k
         /\ Counted(k) \o Stretch(k, m) = Counted(m)
<1>1. /\ Counted(n) \in Seq(Int) /\ Len(Counted(n)) = n
      /\ Counted(k) \in Seq(Int) /\ Len(Counted(k)) = k
  BY DEF Counted, Stretch
<1>2. m - k \in Nat /\ n - k \in Nat /\ m - k <= n - k
  OBVIOUS
<1>3. SubSeq(Counted(n), k + 1, m) = Stretch(k, m)
  BY <1>1, <1>2 DEF Counted, Stretch
<1>4. /\ Stretch(k, m) \in Seq(Int) /\ Len(Stretch(k, m)) = m - k
      /\ Stretch(k, n) \in Seq(Int) /\ Len(Stretch(k, n)) = n - k
  BY <1>2 DEF Stretch
<1>5. SubSeq(Stretch(k, n), 1, m - k) = Stretch(k, m)
  BY <1>2, <1>4 DEF Stretch
<1>6. Counted(k) \o Stretch(k, m) = Counted(m)
  BY <1>1, <1>2, <1>4 DEF Counted, Stretch
<1> QED
  BY <1>1, <1>3, <1>4, <1>5, <1>6

LEMMA BehindNumbers ==
  ASSUME NEW k \in Nat, NEW n \in Nat, k <= n, NEW list, list = Counted(n)
  PROVE  Only(list, {i \in DOMAIN list : list[i] > k}) = Stretch(k, n)
<1>1. list \in Seq(Int) /\ Len(list) = n
  BY DEF Counted
<1>2. {i \in DOMAIN list : list[i] > k} = k + 1 .. Len(list)
  BY <1>1 DEF Counted
<1>3. Only(list, k + 1 .. Len(list)) = SubSeq(list, k + 1, Len(list))
  BY <1>1, OnlyBehind
<1>4. SubSeq(Counted(n), k + 1, n) = Stretch(k, n)
  BY n <= n, Numbers
<1> QED
  BY <1>1, <1>2, <1>3, <1>4

\* A page of an unchanged shop begins where the last one ended.
LEMMA PageFollows ==
  ASSUME PagingTyped, Keeping, phase = "asking"
  PROVE  /\ Page = Stretch(Len(products), PageEnd)
         /\ The.last = "link" => Len(Behind) = Len(shop) - Len(products)
<1> DEFINE k == Len(products)  n == Len(shop)  m == PageEnd
<1>1. /\ k \in Nat /\ n \in Nat /\ m \in Nat /\ k <= m /\ m <= n
      /\ shop = Counted(n) /\ products = Counted(k) /\ shop \in Seq(Int)
      /\ m = Least(k + PageSize, n)
  BY Lengths DEF Keeping, ReadSoFar, ReadsOn, ReadAll, PageEnd, PagingTyped
<1>2. CASE The.last # "link"
  <2>1. Offset = k
    BY <1>2 DEF Keeping, ReadSoFar, ReadsOn, ReadAll, Offset
  <2>2. Page = SubSeq(shop, k + 1, m)
    BY <1>1, <1>2, <2>1 DEF Page
  <2> HIDE DEF k, n, m
  <2>3. Page = Stretch(k, m)
    BY <1>1, <2>2, Numbers
  <2> QED
    BY <1>2, <2>3 DEF k, n, m
<1>3. CASE The.last = "link"
  <2>1. Behind = Stretch(k, n)
    <3>1. CASE k = 0
      <4>1. cursor = None
        BY <1>1, <1>3, <3>1 DEF Keeping, ReadSoFar, ReadsOn, ReadAll
      <4> HIDE DEF k, n
      <4> QED
        BY <1>1, <3>1, <4>1 DEF Behind, Counted, Stretch
    <3>2. CASE k # 0
      <4>1. cursor = k /\ cursor # None
        BY <1>1, <1>3, <3>2, PagingAssumption DEF Keeping, ReadSoFar, ReadsOn, ReadAll
      <4>2. Behind = Only(shop, {i \in DOMAIN shop : shop[i] > k})
        BY <4>1 DEF Behind
      <4> HIDE DEF k, n, m
      <4> QED
        BY <1>1, <4>2, BehindNumbers
    <3> QED
      BY <3>1, <3>2
  <2>2. Len(Behind) = n - k
    <3> HIDE DEF k, n
    <3>1. k <= n /\ n <= n
      BY <1>1
    <3>2. Len(Stretch(k, n)) = n - k
      BY <1>1, <3>1, Numbers
    <3> QED
      BY <2>1, <3>2
  <2>3. Page = SubSeq(Behind, 1, m - k)
    <3>1. Page = SubSeq(Behind, 1, Least(PageSize, n - k))
      BY <1>3, <2>2 DEF Page
    <3>2. Least(PageSize, n - k) = Least(k + PageSize, n) - k
      <4> HIDE DEF k, n
      <4> QED
        BY <1>1, PagingAssumption DEF Least
    <3> QED
      BY <1>1, <3>1, <3>2
  <2> HIDE DEF k, n, m
  <2>4. Page = Stretch(k, m)
    BY <1>1, <2>1, <2>3, Numbers
  <2> QED
    BY <2>2, <2>4 DEF k, n, m
<1> QED
  BY <1>2, <1>3

LEMMA PageCounts ==
  ASSUME PagingTyped, Keeping, phase = "asking"
  PROVE  /\ Len(Page) = PageEnd - Len(products)
         /\ products \o Page = Counted(PageEnd) /\ Len(products \o Page) = PageEnd
         /\ Page = <<>> => Len(products) = Len(shop)
         /\ Page # <<>> => Page[Len(Page)] = PageEnd /\ PageEnd # 0
<1> DEFINE k == Len(products)  n == Len(shop)  m == PageEnd
<1>1. /\ k \in Nat /\ n \in Nat /\ m \in Nat /\ k <= m /\ m <= n
      /\ products = Counted(k) /\ (m = n \/ m = k + PageSize)
  BY Lengths DEF Keeping, ReadSoFar, ReadsOn, ReadAll
<1>2. Page = Stretch(k, m)
  BY PageFollows
<1> HIDE DEF k, n, m
<1>3. Len(Page) = m - k /\ products \o Page = Counted(m) /\ Len(Counted(m)) = m
  <2>1. Len(Stretch(k, m)) = m - k /\ Counted(k) \o Stretch(k, m) = Counted(m)
    BY <1>1, Numbers
  <2>2. Len(Counted(m)) = m
    BY <1>1, Numbers
  <2> QED
    BY <1>1, <1>2, <2>1, <2>2
<1>4. ASSUME Page = <<>> PROVE k = n
  <2>1. m = k
    BY <1>1, <1>3, <1>4
  <2> QED
    BY <1>1, <2>1, PagingAssumption
<1>5. ASSUME Page # <<>> PROVE Page[Len(Page)] = m /\ m # 0
  <2>1. m - k # 0
    <3>1. m - k = 0 => Page = <<>>
      BY <1>1, <1>2 DEF Stretch
    <3> QED
      BY <1>5, <3>1
  <2> QED
    BY <1>1, <1>2, <1>3, <2>1 DEF Stretch
<1> QED
  BY <1>3, <1>4, <1>5 DEF k, n, m

\* Rounding up: as many pages as it takes.
LEMMA RoundedUp ==
  ASSUME NEW n \in Nat, NEW s \in Nat \ {0}, NEW p \in Nat \ {0}
  PROVE  p >= (n + s - 1) \div s <=> p * s >= n
<1> DEFINE q == (n + s - 1) \div s
<1>1. q \in Nat /\ q * s <= n + s - 1 /\ n + s - 1 < q * s + s
  OBVIOUS
<1> HIDE DEF q
<1>2. ASSUME p >= q PROVE p * s >= q * s
  BY <1>1, <1>2
<1>3. ASSUME p < q PROVE p * s + s <= q * s
  BY <1>1, <1>3
<1> QED
  BY <1>1, <1>2, <1>3 DEF q

\* The last page reaches the end; one that is not the last of a numbered catalogue is full.
LEMMA LastReaches ==
  ASSUME PagingTyped, Keeping, phase = "asking"
  PROVE  /\ IsLast(products \o Page) => PageEnd = Len(shop)
         /\ ~IsLast(products \o Page) => PageEnd = Len(products) + PageSize
<1> DEFINE k == Len(products)  n == Len(shop)  m == PageEnd
<1>1. /\ k \in Nat /\ n \in Nat /\ m \in Nat /\ k <= m /\ m <= n /\ m <= k + PageSize
      /\ m = n \/ m = k + PageSize
      /\ page \in Nat \ {0} /\ PageSize \in Nat \ {0}
  BY Lengths, PagingAssumption DEF Keeping, ReadSoFar, ReadsOn, ReadAll, PagingTyped
<1>2. Len(Page) = m - k /\ Len(products \o Page) = m
  BY PageCounts
<1>3. The.last \in {"count", "pages"} => Told = IF The.last = "pages" THEN Pages ELSE n
  <2>1. The.last \in {"count", "pages"} => The.total \in {"first", "latest"}
    BY Conventions DEF PagingTyped
  <2>2. total \in {None, IF The.last = "pages" THEN Pages ELSE n}
    BY DEF Keeping, ReadSoFar, ReadsOn, ReadAll
  <2> QED
    BY <2>1, <2>2 DEF Told
<1>4. CASE The.last = "short"
  <2>1. IsLast(products \o Page) <=> m - k < PageSize
    BY <1>2, <1>4 DEF IsLast
  <2> HIDE DEF k, n, m
  <2> QED
    BY <1>1, <2>1 DEF k, n, m
<1>5. CASE The.last = "count"
  <2>1. IsLast(products \o Page) <=> m >= n
    BY <1>2, <1>3, <1>5 DEF IsLast
  <2> HIDE DEF k, n, m
  <2> QED
    BY <1>1, <2>1 DEF k, n, m
<1>6. CASE The.last = "pages"
  <2>1. IsLast(products \o Page) <=> page >= (n + PageSize - 1) \div PageSize
    BY <1>3, <1>6 DEF IsLast, Pages
  <2>2. IsLast(products \o Page) <=> page * PageSize >= n
    <3> HIDE DEF n
    <3> QED
      BY <1>1, <2>1, RoundedUp
  <2>3. k = (page - 1) * PageSize
    BY <1>6 DEF Keeping, ReadSoFar, ReadsOn, ReadAll
  <2> HIDE DEF k, n, m
  <2>4. page * PageSize = k + PageSize
    BY <1>1, <2>3
  <2> QED
    BY <1>1, <2>2, <2>4 DEF k, n, m
<1>7. CASE The.last = "link"
  <2>1. Behind \in Seq(Int) /\ Len(Behind) = n - k
    BY <1>7, BehindIs, PageFollows
  <2>2. IsLast(products \o Page) <=> \A i \in DOMAIN Behind : i <= PageSize
    BY <1>7 DEF IsLast
  <2> HIDE DEF k, n, m
  <2>3. n - k \in Nat /\ (n - k # 0 => n - k \in DOMAIN Behind)
    BY <1>1, <2>1
  <2>4. IsLast(products \o Page) <=> n - k <= PageSize
    BY <1>1, <2>1, <2>2, <2>3
  <2> QED
    BY <1>1, <1>7, <2>4 DEF k, n, m
<1> QED
  BY <1>4, <1>5, <1>6, <1>7, Conventions DEF PagingTyped

LEMMA KeepingAtFirst == Init => KeepingInv
<1> SUFFICES ASSUME Init PROVE KeepingInv
  OBVIOUS
<1>1. PICK n \in 0 .. MaxProducts : shop = Counted(n)
  BY DEF Init, Counted
<1>2. n \in Nat /\ Len(Counted(n)) = n
  BY PagingAssumption, Numbers
<1>3. products = <<>> /\ Len(products) = 0 /\ page = 1 /\ cursor = None /\ total = None /\ ending = None
  BY DEF Init
<1>4. Counted(0) = <<>>
  BY DEF Counted
<1>5. (page - 1) * PageSize = 0
  BY <1>3, PagingAssumption
<1>6. ReadSoFar
  BY <1>1, <1>2, <1>3, <1>4 DEF ReadSoFar
<1>7. ReadsOn
  BY <1>3, <1>5 DEF ReadsOn
<1>8. ReadAll
  BY DEF Init, ReadAll
<1> QED
  BY <1>6, <1>7, <1>8, PagingAtFirst DEF KeepingInv, Keeping

LEMMA KeepingSteps == KeepingInv /\ [Next]_vars => KeepingInv'
<1> SUFFICES ASSUME KeepingInv, [Next]_vars, Unchanged' PROVE Keeping'
  BY PagingStaysTyped DEF Keeping, ReadSoFar, ReadsOn, KeepingInv
<1> USE DEF Keeping, ReadSoFar, ReadsOn, KeepingInv, Unchanged
<1> USE DEF catalogue
<1>1. changes = 0 /\ Keeping
  <2>1. changes' \in {changes, changes + 1}
    BY DEF Next, Step, Sell, FirstToken, RenewToken, Again, Denied, Absent, Refused, TimesOut,
           Malformed, Shapeless, EmptyPage, LastPage, UntoldPage, CapReached, NextPage, vars
  <2> QED
    BY <2>1 DEF PagingTyped
<1>2. ASSUME UNCHANGED <<extractor, shop>> PROVE The' = The /\ Pages' = Pages
  BY <1>2 DEF The, Pages
<1>3. CASE Rests
  <2>1. UNCHANGED <<extractor, shop, products, page, cursor, total>>
    BY <1>3 DEF Rests
  <2>2. ReadSoFar'
    BY <1>1, <2>1 DEF Keeping, ReadSoFar
  <2>3. ReadsOn'
    BY <1>1, <1>2, <1>3, <2>1 DEF Rests, Keeping, ReadsOn
  <2>4. ReadAll'
    BY <1>3 DEF Rests, ReadAll
  <2> QED
    BY <2>2, <2>3, <2>4 DEF Keeping
<1>4. CASE GivesUpAll
  <2>1. shop' = shop /\ Len(products') = 0 /\ products' = Counted(0)
    BY <1>4 DEF GivesUpAll, Counted
  <2> QED
    <3>1. ReadSoFar' /\ Len(shop) >= 0
      BY <1>1, <2>1, Lengths DEF Keeping, ReadSoFar
    <3> QED
      BY <1>4, <3>1 DEF GivesUpAll, Keeping, ReadsOn, ReadAll
<1>5. CASE EmptyPage
  <2>1. /\ UNCHANGED <<shop, products>> /\ phase = "asking" /\ phase' = "returned" /\ Page = <<>>
    BY <1>5 DEF EmptyPage, Return, Asks
  <2>2. Len(products) = Len(shop)
    BY <1>1, <2>1, PageCounts
  <2> QED
    BY <1>1, <2>1, <2>2 DEF Keeping, ReadSoFar, ReadsOn, ReadAll
<1>6. ASSUME LastPage \/ UntoldPage \/ CapReached \/ NextPage
      PROVE  /\ shop' = shop /\ phase = "asking" /\ Page # <<>>
             /\ products' = Counted(PageEnd) /\ Len(products') = PageEnd
             /\ ReadSoFar'
  <2>1. UNCHANGED <<extractor, shop>> /\ phase = "asking" /\ Page # <<>> /\ products' = products \o Page
    BY <1>6, PagesAdd DEF Adds
  <2>2. products' = Counted(PageEnd) /\ Len(products') = PageEnd
    BY <1>1, <2>1, PageCounts
  <2>3. ReadSoFar'
    BY <1>1, <2>1, <2>2, Lengths DEF Keeping, ReadSoFar
  <2> QED
    BY <2>1, <2>2, <2>3
<1>7. CASE LastPage
  <2>1. PageEnd = Len(shop)
    BY <1>1, <1>6, <1>7, LastReaches DEF LastPage
  <2> QED
    BY <1>6, <1>7, <2>1 DEF LastPage, Return, Keeping, ReadsOn, ReadAll
<1>6a. ASSUME phase = "asking", PageEnd = Len(products) + PageSize
       PROVE  PageEnd = page * PageSize /\ (PageEnd = Len(shop) \/ page * PageSize < Len(shop))
  <2>1. Len(products) = (page - 1) * PageSize
    BY <1>1, <1>6a DEF Keeping, ReadsOn
  <2>2. page \in Nat \ {0} /\ PageSize \in Nat \ {0}
    BY PagingAssumption DEF PagingTyped
  <2>3. page * PageSize = (page - 1) * PageSize + PageSize
    BY <2>2
  <2>4. PageEnd \in Nat /\ Len(shop) \in Nat /\ PageEnd <= Len(shop)
    BY Lengths
  <2> HIDE DEF PageEnd
  <2> QED
    BY <1>6a, <2>1, <2>3, <2>4
<1>7a. CASE UntoldPage
  <2>1. /\ phase = "asking" /\ phase' = "returned" /\ ending' = "untold" /\ page' = page
        /\ shop' = shop /\ Len(products') = PageEnd /\ ReadSoFar'
    BY <1>6, <1>7a DEF UntoldPage, Return
  <2>2. PageEnd = Len(shop) \/ page * PageSize < Len(shop)
    BY <1>6a, <2>1, Lengths
  <2> QED
    BY <2>1, <2>2 DEF Keeping, ReadsOn, ReadAll
<1>8. CASE CapReached
  <2>1. /\ phase = "asking" /\ phase' = "returned" /\ ending' = "cap" /\ page = MaxPages
        /\ shop' = shop /\ Len(products') = PageEnd /\ ReadSoFar' /\ ~IsLast(products \o Page)
    BY <1>6, <1>8 DEF CapReached, Return
  <2>2. PageEnd = Len(products) + PageSize
    BY <1>1, <2>1, LastReaches
  <2>3. PageEnd = Len(shop) \/ page * PageSize < Len(shop)
    BY <1>6a, <2>1, <2>2
  <2> QED
    BY <2>1, <2>3 DEF Keeping, ReadsOn, ReadAll
<1>9. CASE NextPage
  <2>0. /\ shop' = shop /\ phase = "asking" /\ Page # <<>>
        /\ products' = Counted(PageEnd) /\ Len(products') = PageEnd
        /\ ReadSoFar'
    BY <1>6, <1>9
  <2>1. /\ UNCHANGED <<extractor, shop, phase, complete, ending>> /\ page' = page + 1
        /\ cursor' = PageEnd /\ PageEnd # 0 /\ total' = Told
    BY <1>1, <2>0, <1>9, PageCounts DEF NextPage
  <2>2. The' = The /\ Pages' = Pages
    BY <1>2, <2>1
  <2>3. Len(products') = (page' - 1) * PageSize
    <3>1. Len(products') = Len(products) + PageSize
      BY <1>1, <2>0, <1>9, LastReaches DEF NextPage
    <3>2. Len(products) = (page - 1) * PageSize
      BY <1>1, <2>0 DEF Keeping, ReadsOn
    <3>3. page' - 1 = page /\ page * PageSize = (page - 1) * PageSize + PageSize
      BY <2>1, PagingAssumption DEF PagingTyped
    <3> QED
      BY <3>1, <3>2, <3>3
  <2>4. The.last = "link" => cursor' = IF products' = <<>> THEN None ELSE Len(products')
    <3>1. products' # <<>>
      BY <2>0, <2>1
    <3> QED
      BY <2>0, <2>1, <3>1
  <2>5. total' \in {None, IF The.last = "pages" THEN Pages ELSE Len(shop)}
    <3>1. total \in {None, IF The.last = "pages" THEN Pages ELSE Len(shop)}
      BY <1>1, <2>0 DEF Keeping, ReadsOn
    <3> QED
      BY <2>1, <3>1 DEF Told
  <2>6. ReadsOn'
    BY <2>1, <2>2, <2>3, <2>4, <2>5 DEF ReadsOn
  <2>7. ReadAll'
    <3>1. phase' # "returned"
      BY <2>0, <2>1
    <3> QED
      BY <3>1 DEF ReadAll
  <2> QED
    BY <2>0, <2>6, <2>7 DEF Keeping
<1>10. CASE Sell
  BY <1>1, <1>10 DEF Sell
<1>11. CASE UNCHANGED vars
  BY <1>1, <1>2, <1>11 DEF vars, reading, result, Keeping, ReadSoFar, ReadsOn, ReadAll
<1> QED
  BY <1>3, <1>4, <1>5, <1>7, <1>7a, <1>8, <1>9, <1>10, <1>11, PagingSteps

LEMMA KeepingAlways == Spec => []KeepingInv
<1> QED
  BY KeepingAtFirst, KeepingSteps, PTL DEF Spec

(***************************************************************************)
(* In an unchanged shop, whatever has been read is the beginning of the    *)
(* catalogue (PagesAddUp).  Keeping is the induction: page numbers, cursor *)
(* and total agree with what has been read.                                *)
(***************************************************************************)
THEOREM PagesAdded == Spec => []PagesAddUp
<1>1. KeepingInv => PagesAddUp
  <2> SUFFICES ASSUME PagingTyped, ReadSoFar PROVE PagesAddUp
    BY DEF KeepingInv, Keeping, PagesAddUp
  <2> DEFINE k == Len(products)  n == Len(shop)
  <2>1. k \in Nat /\ n \in Nat /\ k <= n /\ shop = Counted(n) /\ products = Counted(k)
    BY Lengths DEF ReadSoFar
  <2> HIDE DEF k, n
  <2>2. SubSeq(Counted(n), 0 + 1, k) = Stretch(0, k)
    <3>1. 0 \in Nat /\ 0 <= k
      BY <2>1
    <3> QED
      BY <2>1, <3>1, Numbers
  <2>3. Stretch(0, k) = Counted(k)
    BY <2>1 DEF Stretch, Counted
  <2>4. products = SubSeq(shop, 1, k)
    BY <2>1, <2>2, <2>3
  <2> QED
    BY <2>1, <2>4 DEF PagesAddUp, k, n
<1> QED
  BY <1>1, KeepingAlways, PTL

(***************************************************************************)
(* A pagination of an unchanged shop that calls its result complete has    *)
(* the whole of it, but for a shop that answered as if it had ended, an    *)
(* answer without a total, and one with more products than the pages that  *)
(* are allowed hold (CompleteIsWhole), whichever of the eight conventions  *)
(* it follows.                                                             *)
(***************************************************************************)
THEOREM CompleteWhole == Spec => []CompleteIsWhole
<1>1. KeepingInv => CompleteIsWhole
  BY DEF KeepingInv, Keeping, ReadSoFar, ReadAll, CompleteIsWhole
<1> QED
  BY <1>1, KeepingAlways, PTL

(***************************************************************************)
(* CursorMissesNothing.  What has been read ascends and ends at the        *)
(* cursor, and whatever has been in the shop all the time and is not       *)
(* behind the cursor has been read.                                        *)
(***************************************************************************)
ReadBehind ==
  /\ Ascends(shop) /\ Ascends(products)
  /\ phase \in {"starting", "asking"} =>
       IF cursor = None THEN products = <<>>
       ELSE /\ products # <<>> /\ cursor = products[Len(products)]
            /\ \A s \in steady : s <= cursor => s \in Got
  /\ complete /\ ending \in {"last", "empty"} => steady \subseteq Got

CursorInv == PagingTyped /\ (The.last = "link" => ReadBehind)

\* Two ascending lists, one behind the other.
LEMMA AscendsOn ==
  ASSUME NEW first \in Seq(Int), NEW second \in Seq(Int), Ascends(first), Ascends(second),
         first # <<>> => \A n \in DOMAIN second : second[n] > first[Len(first)]
  PROVE  Ascends(first \o second)
<1> DEFINE both == first \o second
<1>1. /\ Len(first) \in Nat /\ Len(second) \in Nat /\ DOMAIN both = 1 .. Len(first) + Len(second)
      /\ DOMAIN first = 1 .. Len(first) /\ DOMAIN second = 1 .. Len(second)
  OBVIOUS
<1>2. /\ \A i \in DOMAIN first : both[i] = first[i] /\ first[i] \in Int
      /\ \A i \in DOMAIN both : i > Len(first) =>
           /\ both[i] = second[i - Len(first)] /\ i - Len(first) \in DOMAIN second
           /\ second[i - Len(first)] \in Int
  OBVIOUS
<1> HIDE DEF both
<1> SUFFICES ASSUME NEW i \in DOMAIN both, NEW j \in DOMAIN both, i < j PROVE both[i] < both[j]
  BY DEF Ascends, both
<1>3. CASE j <= Len(first)
  <2>1. i \in DOMAIN first /\ j \in DOMAIN first
    BY <1>1, <1>3
  <2> QED
    BY <1>2, <2>1 DEF Ascends
<1>4. CASE i > Len(first)
  <2>1. j > Len(first) /\ i - Len(first) < j - Len(first)
    BY <1>1, <1>4
  <2> QED
    BY <1>2, <1>4, <2>1 DEF Ascends
<1>5. CASE i <= Len(first) /\ j > Len(first)
  <2>1. first # <<>> /\ i \in DOMAIN first /\ Len(first) \in DOMAIN first
    BY <1>1, <1>5
  <2>2. first[i] <= first[Len(first)]
    <3>1. i = Len(first) \/ i < Len(first)
      BY <1>1, <1>5
    <3>2. first[Len(first)] \in Int
      BY <1>2, <2>1
    <3> QED
      BY <2>1, <3>1, <3>2 DEF Ascends
  <2>3. both[j] > first[Len(first)]
    BY <1>2, <1>5, <2>1
  <2> QED
    BY <1>2, <1>5, <2>1, <2>2, <2>3
<1> QED
  BY <1>1, <1>3, <1>4, <1>5

LEMMA BehindAscends ==
  ASSUME PagingTyped, Ascends(shop)
  PROVE  Ascends(Behind)
<1>1. CASE cursor = None
  BY <1>1 DEF Behind
<1>2. CASE cursor # None
  <2> DEFINE beyond == {i \in DOMAIN shop : shop[i] > cursor}
  <2>1. Behind = Only(shop, beyond) /\ beyond \in SUBSET DOMAIN shop /\ shop \in Seq(Int)
    BY <1>2 DEF Behind, PagingTyped
  <2>2. \A i, j \in DOMAIN shop : i < j => shop[i] < shop[j]
    BY DEF Ascends
  <2> HIDE DEF beyond
  <2> QED
    BY <2>1, <2>2, OnlyAscends DEF Ascends
<1> QED
  BY <1>1, <1>2

\* What a page behind the cursor adds to what has been read.
LEMMA PageBehind ==
  ASSUME CursorInv, The.last = "link", phase = "asking"
  PROVE  /\ Ascends(products \o Page)
         /\ Page # <<>> => /\ (products \o Page) # <<>>
                           /\ (products \o Page)[Len(products \o Page)] = Page[Len(Page)]
         /\ \A s \in steady :
              \/ \E i \in DOMAIN (products \o Page) : (products \o Page)[i] = s
              \/ /\ Len(Page) < Len(Behind)
                 /\ Page # <<>> /\ s > Page[Len(Page)]
         /\ Len(Page) < Len(Behind) => Page # <<>> /\ ~IsLast(products \o Page)
<1> DEFINE both == products \o Page
<1>1. /\ products \in Seq(Int) /\ Page \in Seq(Int) /\ Behind \in Seq(Int)
      /\ Ascends(shop) /\ Ascends(products) /\ PagingTyped
  BY BehindIs, PageIs DEF CursorInv, ReadBehind, PagingTyped
<1>2. /\ Len(Page) = Least(PageSize, Len(Behind)) /\ Len(Page) <= Len(Behind)
      /\ \A n \in DOMAIN Page : n \in DOMAIN Behind /\ Page[n] = Behind[n]
  BY <1>1, PageIs
<1>3. Ascends(Behind)
  BY <1>1, BehindAscends
<1>4. Ascends(Page)
  BY <1>1, <1>2, <1>3 DEF Ascends
<1>5. IF cursor = None THEN products = <<>>
      ELSE /\ products # <<>> /\ cursor = products[Len(products)]
           /\ \A s \in steady : s <= cursor => s \in Got
  BY DEF CursorInv, ReadBehind
<1>6. \A n \in DOMAIN Behind : cursor # None => Behind[n] > cursor
  BY <1>1, BehindIs
<1>7. Ascends(both)
  <2>1. products # <<>> => \A n \in DOMAIN Page : Page[n] > products[Len(products)]
    BY <1>2, <1>5, <1>6
  <2> QED
    BY <1>1, <1>4, <2>1, AscendsOn
<1>8. /\ \A i \in DOMAIN products : \E n \in DOMAIN both : both[n] = products[i]
      /\ \A i \in DOMAIN Page : \E n \in DOMAIN both : both[n] = Page[i]
      /\ Page # <<>> => both # <<>> /\ both[Len(both)] = Page[Len(Page)]
  <2>1. \A i \in DOMAIN products : i \in DOMAIN both /\ both[i] = products[i]
    BY <1>1
  <2>2. \A i \in DOMAIN Page : Len(products) + i \in DOMAIN both /\ both[Len(products) + i] = Page[i]
    BY <1>1
  <2>3. Page # <<>> => both # <<>> /\ both[Len(both)] = Page[Len(Page)]
    <3>1. Page # <<>> => Len(Page) \in DOMAIN Page
      BY <1>1
    <3>2. Len(both) = Len(products) + Len(Page)
      BY <1>1
    <3> QED
      BY <1>1, <2>2, <3>1, <3>2
  <2> QED
    BY <2>1, <2>2, <2>3
<1>9. Len(Page) < Len(Behind) => Page # <<>> /\ Len(Page) = PageSize
  BY <1>1, <1>2, PagingAssumption DEF Least
<1>10. ASSUME NEW s \in steady
       PROVE  \/ \E i \in DOMAIN both : both[i] = s
              \/ Len(Page) < Len(Behind) /\ Page # <<>> /\ s > Page[Len(Page)]
  <2>1. PICK i \in DOMAIN shop : s = shop[i] /\ s \in Int
    BY <1>1 DEF PagingTyped
  <2>2. CASE cursor # None /\ s <= cursor
    <3>1. \E j \in DOMAIN products : products[j] = s
      BY <1>5, <2>2 DEF Got
    <3> QED
      BY <1>8, <3>1
  <2>3. CASE cursor = None \/ s > cursor
    <3>1. PICK n \in DOMAIN Behind : Behind[n] = s
      BY <1>1, <2>1, <2>3, BehindIs
    <3>2. CASE n <= Len(Page)
      <4>1. n \in DOMAIN Page
        BY <1>1, <3>2
      <4> QED
        BY <1>2, <1>8, <3>1, <4>1
    <3>3. CASE n > Len(Page)
      <4>1. Len(Page) < Len(Behind)
        BY <1>1, <1>2, <3>3
      <4>2. Len(Page) \in DOMAIN Page /\ Len(Page) \in DOMAIN Behind
        BY <1>1, <1>2, <1>9, <4>1
      <4>3. Page[Len(Page)] = Behind[Len(Page)] /\ Behind[Len(Page)] < Behind[n]
        BY <1>2, <1>3, <3>3, <4>2 DEF Ascends
      <4>4. Behind[Len(Page)] \in Int
        BY <1>1, <4>2
      <4> QED
        BY <1>9, <2>1, <3>1, <4>1, <4>3, <4>4
    <3> QED
      BY <1>1, <3>2, <3>3
  <2>4. cursor # None => cursor \in Int
    BY <1>1 DEF PagingTyped
  <2> QED
    BY <2>1, <2>2, <2>3, <2>4
<1>11. Len(Page) < Len(Behind) => ~IsLast(both)
  <2>1. Len(Page) < Len(Behind) => Len(Behind) > PageSize /\ Len(Behind) \in DOMAIN Behind
    BY <1>1, <1>9, PagingAssumption
  <2>2. IsLast(both) <=> \A i \in DOMAIN Behind : i <= PageSize
    BY DEF IsLast
  <2>3. PageSize \in Nat /\ Len(Behind) \in Nat
    BY <1>1, PagingAssumption
  <2> HIDE DEF both
  <2> QED
    BY <2>1, <2>2, <2>3
<1> HIDE DEF both
<1> QED
  BY <1>7, <1>8, <1>9, <1>10, <1>11 DEF both

LEMMA CursorSteps == CursorInv /\ [Next]_vars => CursorInv'
<1> SUFFICES ASSUME CursorInv, [Next]_vars, The'.last = "link" PROVE ReadBehind'
  BY PagingStaysTyped DEF CursorInv
<1>1. PagingTyped /\ None \notin {"last", "empty"}
  BY PagingAssumption DEF CursorInv, Endings
<1>2. extractor' = extractor
  BY DEF Next, Step, Sell, FirstToken, RenewToken, Again, Denied, Absent, Refused, TimesOut,
         Malformed, Shapeless, EmptyPage, LastPage, UntoldPage, CapReached, NextPage, vars
<1>3. The.last = "link" /\ ReadBehind
  BY <1>2 DEF CursorInv, The
<1>4. CASE Rests
  BY <1>3, <1>4 DEF Rests, ReadBehind, Got, Ascends, catalogue
<1>5. CASE GivesUpAll
  BY <1>3, <1>5 DEF GivesUpAll, ReadBehind, Ascends, catalogue
<1>6. CASE EmptyPage
  <2>1. /\ UNCHANGED <<shop, steady, products>> /\ phase = "asking" /\ phase' = "returned" /\ Page = <<>>
    BY <1>6 DEF EmptyPage, Return, Asks, catalogue
  <2>2. \A s \in steady : \E i \in DOMAIN (products \o Page) : (products \o Page)[i] = s
    BY <1>3, <2>1, PageBehind
  <2>3. products \o Page = products
    BY <1>1, <2>1 DEF PagingTyped
  <2>4. steady \subseteq Got
    BY <2>2, <2>3 DEF Got
  <2> QED
    BY <1>3, <2>1, <2>4 DEF ReadBehind, Got, Ascends
<1>7. ASSUME Adds PROVE Ascends(shop)' /\ Ascends(products)' /\ steady' = steady
  <2>1. phase = "asking" /\ shop' = shop /\ steady' = steady /\ products' = products \o Page
    BY <1>7 DEF Adds, catalogue
  <2>2. Ascends(products \o Page) /\ Ascends(shop)
    BY <1>3, <2>1, PageBehind DEF ReadBehind
  <2> QED
    BY <2>1, <2>2 DEF Ascends
<1>8. CASE LastPage
  <2>1. Adds /\ phase = "asking" /\ phase' = "returned" /\ IsLast(products \o Page)
    BY <1>8, PagesAdd DEF LastPage, Return, Asks
  <2>2. \A s \in steady : \E i \in DOMAIN (products \o Page) : (products \o Page)[i] = s
    BY <1>3, <2>1, PageBehind
  <2>3. (steady \subseteq Got)'
    BY <1>7, <2>1, <2>2 DEF Got, Adds
  <2> QED
    BY <1>7, <2>1, <2>3 DEF ReadBehind
<1>9. CASE CapReached \/ UntoldPage
  <2>1. Adds /\ phase' = "returned" /\ ending' \notin {"last", "empty"}
    BY <1>9, PagesAdd DEF CapReached, UntoldPage, Return
  <2> QED
    BY <1>7, <2>1 DEF ReadBehind
<1>10. CASE NextPage
  <2>1. /\ Adds /\ phase = "asking" /\ Page # <<>> /\ cursor' = Page[Len(Page)]
        /\ ending' = ending /\ products' = products \o Page
    BY <1>10, PagesAdd DEF NextPage, Asks
  <2>2. /\ products' # <<>> /\ cursor' = products'[Len(products')]
        /\ \A s \in steady : (\E i \in DOMAIN products' : products'[i] = s) \/ s > cursor'
    BY <1>3, <2>1, PageBehind
  <2>3. ending = None
    BY <1>1, <2>1 DEF PagingTyped
  <2>4. cursor' \in Int /\ cursor' # None
    <3>1. Page \in Seq(Int)
      BY <1>1, PageIs
    <3> QED
      BY <2>1, <3>1, PagingAssumption
  <2>5. \A s \in steady : s \in Int
    BY <1>1 DEF PagingTyped
  <2>6. \A s \in steady' : s <= cursor' => s \in Got'
    BY <1>7, <2>1, <2>2, <2>4, <2>5 DEF Got
  <2> QED
    BY <1>1, <1>7, <2>1, <2>2, <2>3, <2>4, <2>6 DEF ReadBehind
<1>11. CASE Sell
  <2>1. /\ shop' \in Catalogues /\ steady' \subseteq steady
        /\ UNCHANGED <<phase, products, cursor, complete, ending>>
    BY <1>11 DEF Sell, reading, result
  <2>2. Ascends(shop)'
    BY <1>1, <1>3, <2>1, CataloguesAre DEF ReadBehind, PagingTyped, Ascends
  <2> QED
    BY <1>3, <2>1, <2>2 DEF ReadBehind, Got, Ascends
<1>12. CASE UNCHANGED vars
  BY <1>3, <1>12 DEF vars, catalogue, reading, result, ReadBehind, Got, Ascends
<1> QED
  BY <1>1, <1>4, <1>5, <1>6, <1>8, <1>9, <1>10, <1>11, <1>12, PagingSteps

(***************************************************************************)
(* Reading behind a cursor misses nothing that was there all the time, and *)
(* takes nothing twice, however often the merchant adds and removes        *)
(* (CursorMissesNothing): the shops, the pages and the changes are not     *)
(* bounded here.                                                           *)
(***************************************************************************)
THEOREM NothingMissed == Spec => []CursorMissesNothing
<1>1. Init => CursorInv
  <2> SUFFICES ASSUME Init PROVE CursorInv
    OBVIOUS
  <2>1. PICK n \in 0 .. MaxProducts : shop = [i \in 1 .. n |-> i]
    BY DEF Init
  <2>2. Ascends(shop)
    BY <2>1, PagingAssumption DEF Ascends
  <2>3. products = <<>> /\ cursor = None /\ ending = None /\ None \notin {"last", "empty"}
    BY PagingAssumption DEF Init, Endings
  <2> QED
    BY <2>2, <2>3, PagingAtFirst DEF CursorInv, ReadBehind, Ascends
<1>2. CursorInv => CursorMissesNothing
  BY DEF CursorInv, ReadBehind, Ascends, CursorMissesNothing
<1> QED
  BY <1>1, <1>2, CursorSteps, PTL DEF Spec
=============================================================================
