----------------------------- MODULE PageReading -----------------------------
(***************************************************************************)
(* How the crawling tiers get products out of product pages: the static    *)
(* fetch, the browser with its levels of stealth, the layers of data that  *)
(* a page carries, the LLM that reads a page in chunks, a list that is     *)
(* clicked on for more, and batches of pages in one browser.               *)
(*                                                                         *)
(* app/extractors/{unified_crawl,css,schema_org,opengraph,markdown_price,  *)
(* llm}_extractor.py.  A price or an image is told by the layer it is from.*)
(***************************************************************************)
EXTENDS Naturals, Sequences, FiniteSets, Lists

CONSTANTS
  Views,       \* what a fetch of the page may show
  Readings,    \* what the LLM may report, chunk by chunk
  Alike,       \* pairs of titles that SequenceMatcher takes for one
  BatchUrls,   \* the pages of a batch
  MaxListed,   \* the longest list of a page with a "load more" button
  MaxClicks    \* _MAX_LOAD_MORE_CLICKS

\* The address of an image is never "0", which a price may be.
Addresses == STRING \ {"0"}

LdObjects == [name : STRING, group : BOOLEAN, price : STRING, variant : STRING,
              image : Addresses, description : STRING]

OgTags == [price : STRING, image : Addresses, product : BOOLEAN]

ASSUME ReadingAssumption ==
  /\ Views \subseteq [ld : Seq(LdObjects), og : OgTags, markdown : STRING, media : Addresses]
  /\ Readings \subseteq Seq([title : Seq(STRING), price : STRING, image : STRING])
  /\ BatchUrls \in Nat /\ MaxListed \in Nat /\ MaxClicks \in Nat

VARIABLES
  way,       \* the extractor, and whether it has one page or a batch
  lowest,    \* the level of stealth it is configured with
  at,        \* where it is
  level,     \* the level of stealth tried next
  tried,     \* history: the levels tried
  static,    \* httpx_products
  clicks,    \* clicks on "load more"
  seen,      \* history: what the answer was made of
  handled,   \* what has come of each page of the batch that was looked at
  answer     \* the ExtractorResult

pageVars == <<way, lowest, at, level, tried, static, clicks, seen, handled, answer>>

Ways == {"unified", "css", "llm", "load_more", "batch"}

\* STANDARD, STEALTH, UNDETECTED
Levels == 1 .. 3

Outcomes == {"products", "empty", "failed"}

Result(products, complete) == [products |-> products, complete |-> complete]

PageInit ==
  /\ way \in Ways
  /\ lowest \in Levels
  /\ at = CASE way = "unified" -> "static"
            [] way = "css"     -> "browser"
            [] OTHER           -> way
  /\ level = lowest
  /\ tried = {}
  /\ static = <<>>
  /\ clicks = 0
  /\ seen = <<>>
  /\ handled = <<>>
  /\ answer = Result(<<>>, TRUE)

-----------------------------------------------------------------------------
(***************************************************************************)
(* The layers of a page: JSON-LD, OpenGraph, markdown, media.              *)
(***************************************************************************)
\* _has_nonzero_price(): read as a number.
NonZero(price) == price \notin {"none", "0", "0.00"}

\* _enrich_product_group(): a group without a price takes the first that a variant has.
Enriched(p) ==
  IF p.group /\ ~NonZero(p.price) /\ NonZero(p.variant) THEN [p EXCEPT !.price = p.variant] ELSE p

\* _get_price(): compared as a string.
Missing(price) == price \in {"none", "0"}

OrElse(value, other) == IF Missing(value) /\ other # "none" THEN other ELSE value

\* extract_from_html(): the Product objects, with the image of the OpenGraph tags.
JsonLd(v) ==
  [i \in DOMAIN v.ld |->
     LET p == Enriched(v.ld[i]) IN
       [name |-> p.name, price |-> p.price, image |-> OrElse(p.image, v.og.image),
        description |-> p.description]]

HasTags(og) == og # [price |-> "none", image |-> "none", product |-> FALSE]

FromOg_Bug(p, og) == [p EXCEPT !.price = OrElse(og.price, @), !.image = OrElse(@, og.image)]

\* _fill_gaps_from_og()
FromOg(p, og) == [p EXCEPT !.price = OrElse(@, og.price), !.image = OrElse(@, og.image)]

\* A product that is made of the tags only.
OgProduct(og) == [name |-> "og", price |-> og.price, image |-> og.image]

\* _extract_structured_from_html(): what the fast path makes of a page.
Structured(v) ==
  IF v.ld # <<>> THEN [i \in DOMAIN v.ld |-> FromOg(JsonLd(v)[i], v.og)]
  ELSE IF HasTags(v.og) THEN <<OgProduct(v.og)>> ELSE <<>>

HasPriceAndImage(p) == ~Missing(p.price) /\ p.image # "none"

\* _fill_gaps_from_markdown() and _fill_image()
FromText(p, v) == [p EXCEPT !.price = OrElse(@, v.markdown), !.image = OrElse(@, v.media)]

\* The description stands for whatever else an object may say.
Filled(p) == Cardinality({f \in {"price", "image", "description"} : p[f] # "none"})

KeyOf(p) == <<p.name, IF Missing(p.price) THEN "none" ELSE p.price>>

\* _deduplicate_products(): of those with the same key the fullest, in the place of the first.
Fullest(ps, i) ==
  CHOOSE j \in DOMAIN ps :
    /\ KeyOf(ps[i]) = KeyOf(ps[j])
    /\ \A k \in DOMAIN ps : KeyOf(ps[i]) = KeyOf(ps[k]) =>
         \/ Filled(ps[k]) < Filled(ps[j])
         \/ Filled(ps[k]) = Filled(ps[j]) /\ j <= k

Firsts(ps) == {i \in DOMAIN ps : \A j \in 1 .. i - 1 : KeyOf(ps[i]) # KeyOf(ps[j])}

Deduplicated(ps) ==
  LET first == InOrder(Firsts(ps)) IN [n \in DOMAIN first |-> ps[Fullest(ps, first[n])]]

\* _has_product_signal(): without JSON-LD a page is a product only if something says so.
HasSignal(v) == v.og.product \/ ~Missing(v.og.price) \/ v.markdown # "none"

\* _extract_from_crawl_result()
Rendered(v) ==
  IF v.ld # <<>>
  THEN LET ps == Deduplicated(JsonLd(v)) IN [i \in DOMAIN ps |-> FromText(FromOg(ps[i], v.og), v)]
  ELSE IF HasSignal(v) THEN <<FromText(OgProduct(v.og), v)>> ELSE <<>>

-----------------------------------------------------------------------------
(***************************************************************************)
(* One page by UnifiedCrawl and by the CSS selectors.                      *)
(***************************************************************************)
Answer(products, complete, from) ==
  /\ at' = "answered"
  /\ answer' = Result(products, complete)
  /\ seen' = from
  /\ UNCHANGED <<way, lowest, static, clicks, handled>>

ToBrowser(products) ==
  /\ at' = "browser"
  /\ static' = products
  /\ UNCHANGED <<way, lowest, level, tried, clicks, seen, handled, answer>>

StaticAnswers(v) ==
  /\ at = "static"
  /\ IF Structured(v) # <<>> /\ \A i \in DOMAIN Structured(v) : HasPriceAndImage(Structured(v)[i])
     THEN Answer(Structured(v), TRUE, v) /\ UNCHANGED <<level, tried>>
     ELSE ToBrowser(Structured(v))

\* An HTTP error, a connection error, a body that is too large.
StaticFails == at = "static" /\ ToBrowser(<<>>)

Browsing == at = "browser" /\ level \in Levels

Tries == tried' = tried \union {level}

\* The level failed or found nothing: on to the next.
Escalates_Bug == level' = level + 2

Escalates == level' = level + 1

LevelFails ==
  /\ Browsing
  /\ Tries
  /\ Escalates
  /\ UNCHANGED <<way, lowest, at, static, clicks, seen, handled, answer>>

BrowserAnswers(v) ==
  /\ Browsing
  /\ Tries
  /\ UNCHANGED level
  /\ \/ way = "unified" /\ Rendered(v) # <<>> /\ Answer(Rendered(v), TRUE, v)
     \/ way = "css" /\ Answer(<<"selected">>, TRUE, <<>>)

BrowserFindsNothing(v) ==
  /\ way = "unified" /\ Rendered(v) = <<>>
  /\ LevelFails

\* Every level has been tried, or the browser did not start.  UnifiedCrawl falls back on
\* what the static page had.
GivesUp ==
  /\ at = "browser"
  /\ level \notin Levels \/ tried = {}
  /\ Answer(static, way = "unified", <<>>)
  /\ UNCHANGED <<level, tried>>

-----------------------------------------------------------------------------
(***************************************************************************)
(* One page by the LLM, chunk by chunk.                                    *)
(***************************************************************************)
Blank(p) == p.title = <<>>

IsPrefixOf(t, u) == Len(t) <= Len(u) /\ SubSeq(u, 1, Len(t)) = t

Similar(p, q) ==
  \/ IsPrefixOf(p.title, q.title) \/ IsPrefixOf(q.title, p.title)
  \/ {p.title, q.title} \in Alike

\* _merge_chunk_products(): who leads is compared with all behind him that nobody has taken;
\* a single product is left alone, and of several those without a title are dropped.
Leads(ps) ==
  LET leads[i \in DOMAIN ps] ==
        ~Blank(ps[i]) /\ \A j \in 1 .. i - 1 : leads[j] => ~Similar(ps[j], ps[i])
  IN {i \in DOMAIN ps : leads[i]}

Takes_Bug(ps, i, j) == i = j

\* i takes itself, and what is behind it, is like it, and has not been taken.
Takes(ps, i, j) ==
  /\ ~Blank(ps[j])
  /\ \/ i = j
     \/ /\ i < j /\ Similar(ps[i], ps[j])
        /\ \A k \in Leads(ps) : k < i => ~Similar(ps[k], ps[j])

\* The first value that there is among what one takes.
FirstValue(ps, i, f) ==
  LET with == {j \in DOMAIN ps : Takes(ps, i, j) /\ ps[j][f] # "none"}
  IN IF with = {} THEN "none" ELSE ps[Earliest(with)][f]

Combined(ps, i) ==
  [title |-> ps[i].title, price |-> FirstValue(ps, i, "price"), image |-> FirstValue(ps, i, "image")]

Merged(ps) ==
  LET lead == InOrder(Leads(ps))
  IN IF Len(ps) <= 1 THEN ps ELSE [n \in DOMAIN lead |-> Combined(ps, lead[n])]

LLMAnswers(ps) ==
  /\ at = "llm"
  /\ Answer(Merged(ps), TRUE, ps)
  /\ UNCHANGED <<level, tried>>

\* The crawl failed, there was no content or no JSON, or something was raised.
LLMFails ==
  /\ at = "llm"
  /\ Answer(<<>>, FALSE, <<>>)
  /\ UNCHANGED <<level, tried>>

-----------------------------------------------------------------------------
(***************************************************************************)
(* A list that is clicked on for more.  Here products are just numbered.   *)
(***************************************************************************)
Listed(n) == [i \in 1 .. n |-> i]

Loads(n) ==
  /\ at = "load_more"
  /\ at' = "clicking"
  /\ answer' = Result(Listed(n), TRUE)
  /\ UNCHANGED <<way, lowest, level, tried, static, clicks, seen, handled>>

LoadFails ==
  /\ at = "load_more"
  /\ Answer(<<>>, TRUE, <<>>)
  /\ UNCHANGED <<level, tried>>

ClickShowsMore(n) ==
  /\ at = "clicking"
  /\ clicks < MaxClicks
  /\ n > Len(answer.products)
  /\ answer' = Result(Listed(n), TRUE)
  /\ clicks' = clicks + 1
  /\ UNCHANGED <<way, lowest, at, level, tried, static, seen, handled>>

\* The click failed or showed no more, or there have been enough of them.
ClickingEnds ==
  /\ at = "clicking"
  /\ Answer(answer.products, TRUE, <<>>)
  /\ UNCHANGED <<level, tried>>

-----------------------------------------------------------------------------
(***************************************************************************)
(* A batch of pages in one browser.  Products are told by their page.      *)
(***************************************************************************)
PageOfBatch_Bug(outcome) ==
  /\ at = "batch"
  /\ Len(handled) < BatchUrls
  /\ handled' = Append(handled, outcome)
  /\ IF outcome = "failed"
     THEN at' = "answered" /\ UNCHANGED answer
     ELSE /\ answer' = IF outcome = "products"
                       THEN Result(Append(answer.products, Len(handled) + 1), TRUE) ELSE answer
          /\ UNCHANGED at
  /\ UNCHANGED <<way, lowest, level, tried, static, clicks, seen>>

\* A page that failed, or whose content is no JSON, is passed over.
PageOfBatch(outcome) ==
  /\ at = "batch"
  /\ Len(handled) < BatchUrls
  /\ handled' = Append(handled, outcome)
  /\ answer' = IF outcome = "products"
               THEN Result(Append(answer.products, Len(handled) + 1), TRUE) ELSE answer
  /\ UNCHANGED <<way, lowest, at, level, tried, static, clicks, seen>>

BatchEnds ==
  /\ at = "batch"
  /\ Len(handled) = BatchUrls
  /\ Answer(answer.products, TRUE, <<>>)
  /\ UNCHANGED <<level, tried>>

\* The crawl of the batch raised, or the reading of a page did.
BatchRaises ==
  /\ at = "batch"
  /\ Answer(answer.products, FALSE, <<>>)
  /\ UNCHANGED <<level, tried>>

PageStep ==
  \/ \E v \in Views : StaticAnswers(v) \/ BrowserAnswers(v) \/ BrowserFindsNothing(v)
  \/ StaticFails \/ LevelFails \/ GivesUp
  \/ \E ps \in Readings : LLMAnswers(ps)
  \/ LLMFails
  \/ \E n \in 0 .. MaxListed : Loads(n) \/ ClickShowsMore(n)
  \/ LoadFails \/ ClickingEnds
  \/ \E outcome \in Outcomes : PageOfBatch(outcome)
  \/ BatchEnds \/ BatchRaises

PageSpec == PageInit /\ [][PageStep]_pageVars

-----------------------------------------------------------------------------
(***************************************************************************)
(* Properties.                                                             *)
(***************************************************************************)
\* The first layer that has a value.
FirstLayer(values) ==
  LET there == {i \in DOMAIN values : ~Missing(values[i])}
  IN IF there = {} THEN "none" ELSE values[Earliest(there)]

Answers == {answer.products[i] : i \in DOMAIN answer.products}

\* The price and the image that a JSON-LD product of a page should have: the text of the page
\* is a layer of the browser's only.
Text(levels, value) == IF levels = {} THEN <<>> ELSE <<value>>

PriceIn(v, levels, p) == FirstLayer(<<p.price, v.og.price>> \o Text(levels, v.markdown))

ImageIn(v, levels, p) == FirstLayer(<<p.image, v.og.image>> \o Text(levels, v.media))

Is(q, v, levels, p) == q.name = p.name /\ FirstLayer(<<q.price>>) = PriceIn(v, levels, p)

OwnOf(v) == {Enriched(v.ld[i]) : i \in DOMAIN v.ld}

Repeated(v, levels, p) == levels # {} /\ \E r \in OwnOf(v) \ {p} : KeyOf(r) = KeyOf(p)

\* Every JSON-LD product of the page the answer was made of is in it, with the price and the
\* image of the first layer that has one: a later layer fills gaps and overwrites nothing.
\* The browser's answer has it once, however often the page repeats it, and what it has is of
\* one of the repetitions; no image is lost but to a repetition.
LayersInOrder ==
  at = "answered" /\ way = "unified" /\ seen # <<>> /\ seen.ld # <<>> =>
    /\ \A p \in OwnOf(seen) : \E q \in Answers :
         Is(q, seen, tried, p) /\ (Repeated(seen, tried, p) \/ q.image = ImageIn(seen, tried, p))
    /\ \A q \in Answers : \E p \in OwnOf(seen) :
         Is(q, seen, tried, p) /\ q.image = ImageIn(seen, tried, p)
    /\ tried # {} => Len(answer.products) = Cardinality({KeyOf(p) : p \in OwnOf(seen)})

\* UnifiedCrawl and the CSS selectors come back without a product only when every level of
\* stealth from the configured one up was tried in the browser that did start.
StealthExhausted ==
  at = "answered" /\ way \in {"unified", "css"} /\ answer.products = <<>> /\ tried # {} =>
    tried = lowest .. 3

\* What was found once is not lost by a later failure: the products of the static page, the
\* list before a click, the pages of a batch that were read before or behind one that failed.
\* A batch that is called complete has looked at every page.
NothingLost ==
  /\ at = "answered" /\ static # <<>> => answer.products # <<>>
  /\ way = "load_more" => Len(answer.products) >= clicks
  /\ way = "batch" =>
       /\ Answers = {i \in DOMAIN handled : handled[i] = "products"}
       /\ at = "answered" /\ answer.complete => Len(handled) = BatchUrls

\* Whatever value a titled chunk has for a field, the merged product of a similar title has
\* one, and its own is not replaced; no two merged products are similar.
MergeKeepsValues ==
  at = "answered" /\ way = "llm" /\ Len(seen) > 1 =>
    /\ \A i \in DOMAIN seen : ~Blank(seen[i]) =>
         \E p \in Answers : /\ Similar(p, seen[i])
                            /\ \A f \in {"price", "image"} : seen[i][f] # "none" => p[f] # "none"
    /\ \A p \in Answers : \E i \in DOMAIN seen :
         /\ seen[i].title = p.title
         /\ \A f \in {"price", "image"} : seen[i][f] \in {p[f], "none"}
    /\ \A i, j \in DOMAIN answer.products :
         i # j => ~Similar(answer.products[i], answer.products[j])
==============================================================================
