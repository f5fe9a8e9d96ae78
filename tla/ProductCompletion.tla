-------------------------- MODULE ProductCompletion --------------------------
(***************************************************************************)
(* What the pipeline adds to extracted products: fields of the probes of   *)
(* other tiers, prices of the Shopify API, GTINs from the product pages,   *)
(* and, after the completeness check, prices and images from a second look *)
(* at the pages, static or by a browser.                                   *)
(*                                                                         *)
(* app/services/pipeline.py, app/services/completeness_checker.py,         *)
(* app/services/{gtin,shopify_price}_supplementer.py.                      *)
(*                                                                         *)
(* A value is told by where it comes from.  URLs are numbers in the order  *)
(* of sorted(); NoUrl is the empty one of a product without a source.      *)
(***************************************************************************)
EXTENDS Naturals, Sequences, FiniteSets

CONSTANTS
  Extractions,   \* the products an extraction may return
  Probes,        \* what the probes of tiers that were not good enough may have found
  Listings,      \* what the Shopify API may list
  NUrls,
  Path,          \* the path of each URL
  PageTitle,     \* the name of the product on the page of each URL
  MaxReextract,  \* _MAX_REEXTRACTION_URLS
  MaxGtinUrls    \* GTINSupplementer._MAX_URLS

NoUrl == 0

Urls == NoUrl .. NUrls

NoTitle == ""

Fields == {"price", "offers", "image"}

\* What a product is told by when it is matched or stored.
Marks == {"url", "title", "sku", "gtin"}

\* What is looked at of a product.
Described == Fields \union Marks \union {"source", "admin"}

\* "zero" and "foreign" are prices of zero and in another currency than the shop's; "bare"
\* are offers without price and currency.
NoValue == <<"none">>
Bare == <<"bare">>
Zero == <<"zero">>
Own == <<"own">>
Foreign == <<"foreign">>
FromProbe == <<"probe">>
FromPage(u) == <<"page", u>>
FromBrowser(u) == <<"browser", u>>
FromCatalogue(a) == <<"catalogue", a.handle, a.title>>
Gtin(u) == <<"gtin", u>>

\* What an extraction itself gives a product.
Extracted == {NoValue, Bare, Zero, Own, Foreign}

\* Offers of the probe: the products that are given them share one object.
Lent(offers) == <<"lent", offers>>

Probed == {Bare, Zero, Foreign, FromProbe}

Shared == {Lent(offers) : offers \in Probed}

\* What a key without a value has.
Nothing(key) == CASE key = "url" -> NoUrl [] key = "title" -> NoTitle [] OTHER -> NoValue

ASSUME CompletionAssumption ==
  /\ \A products \in Extractions : \A i \in DOMAIN products :
       /\ DOMAIN products[i] = Described
       /\ \A f \in Fields \union {"gtin"} : products[i][f] \in Extracted
  /\ \A probe \in Probes :
       /\ DOMAIN probe = Fields \union Marks
       /\ \A f \in Fields \union {"gtin"} : probe[f] \in Probed \union {NoValue}
  /\ NUrls \in Nat /\ MaxReextract \in Nat /\ MaxGtinUrls \in Nat
  /\ DOMAIN Path = Urls /\ DOMAIN PageTitle = Urls

VARIABLES
  platform,
  origin,     \* the admin API, the public API, or the chain of crawling tiers
  stage,
  items,
  borrowed,   \* history: the keys of each product that a probe has filled
  plan,       \* the URLs that need a price and those that need an image
  toRender,   \* those that the browser has yet to look at
  asked       \* history: which pass asked which URL

completionVars == <<platform, origin, stage, items, borrowed, plan, toRender, asked>>

Platforms == {"shopify", "woocommerce", "magento", "generic"}

\* Zero is a value for whoever asks for presence (_is_value_present).
IsPresent(p, key) == p[key] # Nothing(key)

AfterMerging == IF platform = "shopify" THEN "correcting"
                ELSE IF platform = "generic" THEN "checking" ELSE "identifying"

CompletionInit ==
  /\ platform \in Platforms
  /\ origin \in IF platform = "generic" THEN {"chain"} ELSE {"admin", "public", "chain"}
  /\ stage = CASE origin = "admin"  -> "checking"
               [] origin = "public" -> "identifying"
               [] origin = "chain"  -> "merging"
  /\ items \in Extractions
  /\ \A i \in DOMAIN items : items[i].admin => origin = "admin"
  /\ borrowed = [i \in DOMAIN items |-> {}]
  /\ plan = [price |-> {}, image |-> {}]
  /\ toRender = {}
  /\ asked = {}

-----------------------------------------------------------------------------
(***************************************************************************)
(* The probes of the tiers that were not good enough, taken together, fill *)
(* every key that a product of the tier that was good enough lacks, those  *)
(* it is told by included, and what its offers lack (_merge_tier_fields).  *)
(***************************************************************************)
FilledFields(p, fields, from) ==
  [f \in DOMAIN p |-> IF f \in fields /\ ~IsPresent(p, f) THEN from[f] ELSE p[f]]

OffersWith(p, probe) ==
  IF probe.offers = NoValue THEN p.offers
  ELSE IF ~IsPresent(p, "offers") THEN Lent(probe.offers)
  ELSE IF p.offers = Bare THEN probe.offers ELSE p.offers

MergedWith(p, probe) ==
  [FilledFields(p, DOMAIN probe \ {"offers"}, probe) EXCEPT !.offers = OffersWith(p, probe)]

MergeTierFields(probe) ==
  /\ stage = "merging"
  /\ items' = [i \in DOMAIN items |-> MergedWith(items[i], probe)]
  /\ borrowed' = [i \in DOMAIN items |-> {key \in DOMAIN probe : items'[i][key] # items[i][key]}]
  /\ stage' = AfterMerging
  /\ UNCHANGED <<platform, origin, plan, toRender, asked>>

-----------------------------------------------------------------------------
(***************************************************************************)
(* ShopifyPriceSupplementer: prices of zero, and prices the shop shows to  *)
(* visitors from elsewhere, are those of the API.                          *)
(***************************************************************************)
\* Of two products of the API with the same key the later one is found.
LastOf(listed, key, wanted) ==
  LET at == {n \in DOMAIN listed : listed[n][key] = wanted}
  IN {listed[n] : n \in {m \in at : \A k \in at : k <= m}}

\* By the handle in the URL, or else by the title.
Matches(p, listed) ==
  LET byHandle == IF p.url = NoUrl THEN {} ELSE LastOf(listed, "handle", p.url)
  IN IF byHandle # {} THEN byHandle
     ELSE IF p.title = NoTitle THEN {} ELSE LastOf(listed, "title", p.title)

Priced(i, listed) == {a \in Matches(items[i], listed) : a.priced}

\* A product without a price, with one of zero, or with one in another currency.
Doubtful ==
  {NoValue, Bare, Zero, Foreign} \union {Lent(offers) : offers \in {Bare, Zero, Foreign}}

\* Offers are corrected in place: those that a probe has lent are corrected for all who share
\* them, by the first that is found.
Sharing(i) ==
  IF items[i].offers \in Shared THEN {j \in DOMAIN items : items[j].offers \in Shared} ELSE {i}

Corrected(i, listed) ==
  LET found == {j \in Sharing(i) : Priced(j, listed) # {}}
      first == CHOOSE j \in found : \A k \in found : j <= k
  IN IF items[i].offers \in Doubtful /\ found # {}
     THEN [items[i] EXCEPT !.offers = FromCatalogue(CHOOSE a \in Priced(first, listed) : TRUE)]
     ELSE items[i]

\* The API may have nothing, fail, or be refused by the open circuit: then listed is empty.
CorrectPrices(listed) ==
  /\ stage = "correcting"
  /\ items' = [i \in DOMAIN items |-> Corrected(i, listed)]
  /\ stage' = "identifying"
  /\ UNCHANGED <<platform, origin, borrowed, plan, toRender, asked>>

-----------------------------------------------------------------------------
(***************************************************************************)
(* GTINSupplementer.                                                       *)
(***************************************************************************)
HasGtin(p) == IsPresent(p, "gtin")

\* _should_supplement_gtin(): WooCommerce always, the others below a tenth.
NeedsGtins ==
  /\ items # <<>>
  /\ \/ platform = "woocommerce"
     \/ 10 * Cardinality({i \in DOMAIN items : HasGtin(items[i])}) < Len(items)

\* The first products that lack a GTIN come first; there is a limit to the pages.
FirstOf(u) ==
  CHOOSE i \in DOMAIN items : /\ items[i].url = u /\ ~HasGtin(items[i])
                              /\ \A j \in 1 .. i - 1 : items[j].url = u => HasGtin(items[j])

GtinUrls ==
  LET lacking == {items[i].url : i \in {j \in DOMAIN items : ~HasGtin(items[j])}} \ {NoUrl}
  IN {u \in lacking : Cardinality({v \in lacking : FirstOf(v) < FirstOf(u)}) < MaxGtinUrls}

\* Pages of the same path share an entry; the last one fetched keeps it, where the first was.
Keeps(found, u) == \A v \in found : Path[v] = Path[u] => FirstOf(v) <= FirstOf(u)

IsBehind(found, u, v) ==
  \E w \in found : /\ Path[w] = Path[v]
                   /\ \A x \in found : Path[x] = Path[u] => FirstOf(w) <= FirstOf(x)

GtinOf_Bug(p, found) ==
  LET byPath == {u \in found : Path[u] = Path[p.url]} IN IF byPath # {} THEN byPath ELSE found

\* Matched by the path of the URL, or else by the name on the page.  MPNs are left out.
GtinOf(p, found) ==
  LET kept == {u \in found : Keeps(found, u)}
      byPath == {u \in kept : p.url # NoUrl /\ Path[u] = Path[p.url]}
      byTitle == {u \in kept : p.title # NoTitle /\ PageTitle[u] = p.title}
  IN IF byPath # {} THEN byPath
     ELSE {u \in byTitle : \A v \in byTitle : IsBehind(found, u, v)}

Identified(p, found) ==
  IF ~HasGtin(p) /\ GtinOf(p, found) # {}
  THEN [p EXCEPT !.gtin = Gtin(CHOOSE u \in GtinOf(p, found) : TRUE)] ELSE p

\* Pages are fetched in batches; what fails is left out, and whatever is raised ends it.
SupplementGtins(found) ==
  /\ stage = "identifying"
  /\ NeedsGtins
  /\ found \subseteq GtinUrls
  /\ items' = [i \in DOMAIN items |-> Identified(items[i], found)]
  /\ stage' = "checking"
  /\ UNCHANGED <<platform, origin, borrowed, plan, toRender, asked>>

SkipGtins ==
  /\ stage = "identifying"
  /\ ~NeedsGtins
  /\ stage' = "checking"
  /\ UNCHANGED <<platform, origin, items, borrowed, plan, toRender, asked>>

-----------------------------------------------------------------------------
(***************************************************************************)
(* CompletenessChecker, and the plan.                                      *)
(***************************************************************************)
\* check_product(): the first price there is decides whether it is zero; offers without one
\* pass.
LacksPrice(p) ==
  \/ ~IsPresent(p, "price") /\ p.offers \in {NoValue, Zero, Lent(Zero)}
  \/ p.price = Zero

LacksImage(p) == ~IsPresent(p, "image")

SourcesOf(lacking) == {items[i].source : i \in lacking}

\* Sorted and cut off, each list for itself.
Capped(urls) == {u \in urls : Cardinality({v \in urls : v < u}) < MaxReextract}

Planned ==
  [price |-> Capped(SourcesOf({i \in DOMAIN items : LacksPrice(items[i])})),
   image |-> Capped(SourcesOf({i \in DOMAIN items : LacksImage(items[i])}))]

CheckCompleteness ==
  /\ stage = "checking"
  /\ plan' = Planned
  /\ stage' = IF plan'.price \union plan'.image = {} THEN "done" ELSE "refetching"
  /\ UNCHANGED <<platform, origin, items, borrowed, toRender, asked>>

-----------------------------------------------------------------------------
(***************************************************************************)
(* _targeted_reextract()                                                   *)
(***************************************************************************)
\* A product without a source is found under no URL.
IsOf(i, u) == u # NoUrl /\ items[i].source = u

\* _fill_missing_fields(): a product of an admin API takes images only.
Open(p) == IF p.admin THEN {"image"} ELSE Fields

FilledFrom_Bug(p, given) == FilledFields(p, Fields, given)

FilledFrom(p, given) == FilledFields(p, Open(p), given)

\* One request per URL, all at once; the answers are used when all are there.  A request that
\* fails, finds nothing or is refused by the circuit gives nothing.
Refilled(given) ==
  [i \in DOMAIN items |->
     IF items[i].source # NoUrl /\ items[i].source \in plan.price \union plan.image
     THEN FilledFrom(items[i], given[items[i].source]) ELSE items[i]]

\* Any price that is not zero will do.
Unpriced == {NoValue, Bare, Zero, Lent(Bare), Lent(Zero)}

Priceless(p) == p.price \in Unpriced /\ p.offers \in Unpriced

StillMissingPrice_Bug(u, refilled) == \E i \in DOMAIN items : IsOf(i, u) /\ Priceless(refilled[i])

\* _urls_still_missing_price(): all products of the page.
StillMissingPrice(u, refilled) ==
  /\ \E i \in DOMAIN items : IsOf(i, u)
  /\ \A i \in DOMAIN items : IsOf(i, u) => Priceless(refilled[i])

Refetch(given) ==
  /\ stage = "refetching"
  /\ items' = Refilled(given)
  /\ asked' = asked \union {<<"page", u>> : u \in plan.price \union plan.image}
  /\ toRender' = {u \in plan.price : StillMissingPrice(u, Refilled(given))}
  /\ stage' = IF toRender' = {} THEN "done" ELSE "rendering"
  /\ UNCHANGED <<platform, origin, borrowed, plan>>

\* _browser_price_reextract(): one after the other.
Render(u, given) ==
  /\ stage = "rendering"
  /\ u \in toRender /\ \A v \in toRender : u <= v
  /\ items' = [i \in DOMAIN items |->
                 IF IsOf(i, u) THEN FilledFrom(items[i], given) ELSE items[i]]
  /\ asked' = asked \union {<<"browser", u>>}
  /\ toRender' = toRender \ {u}
  /\ stage' = IF toRender' = {} THEN "done" ELSE "rendering"
  /\ UNCHANGED <<platform, origin, borrowed, plan>>

\* What a look at a page may find: a value, a price of zero, or nothing.
Looks(value) ==
  [price : {NoValue, Zero, value}, offers : {NoValue, Zero, value}, image : {NoValue, value}]

LookAt(u, look) == [f \in Fields |-> IF look[f] = Own THEN FromPage(u) ELSE look[f]]

CompletionStep ==
  \/ \E probe \in Probes : MergeTierFields(probe)
  \/ \E listed \in Listings : CorrectPrices(listed)
  \/ \E found \in SUBSET Urls : SupplementGtins(found)
  \/ SkipGtins
  \/ CheckCompleteness
  \/ /\ stage = "refetching"
     /\ \E looks \in [plan.price \union plan.image -> Looks(Own)] :
          Refetch([u \in DOMAIN looks |-> LookAt(u, looks[u])])
  \/ \E u \in toRender : \E given \in Looks(FromBrowser(u)) : Render(u, given)

CompletionSpec == CompletionInit /\ [][CompletionStep]_completionVars

-----------------------------------------------------------------------------
(***************************************************************************)
(* Properties.                                                             *)
(***************************************************************************)
\* It has been found by its URL or by its title.
IsTold(p, byUrl, byTitle) == (p.url # NoUrl /\ byUrl) \/ (p.title # NoTitle /\ byTitle)

HasItsOwn(p, lent) ==
  /\ \A f \in Fields, u \in Urls : p[f] \in {FromPage(u), FromBrowser(u)} => p.source = u
  /\ lent \intersect {"url", "title"} = {} =>
       \A u \in Urls : p.gtin = Gtin(u) => IsTold(p, Path[u] = Path[p.url], PageTitle[u] = p.title)
  /\ lent \intersect {"url", "title", "offers"} = {} =>
       \A listed \in Listings : \A n \in DOMAIN listed :
         p.offers = FromCatalogue(listed[n]) =>
           IsTold(p, listed[n].handle = p.url, listed[n].title = p.title)

\* What a product is given by a second look is from the page it came from.  One whose URL and
\* title are its own, not lent by a probe, has its GTIN from a page of its path or name, and
\* its corrected price, unless it has the offers of the probe, from a product of the API that
\* has its handle or its title, however many products share a page, a path or a title.
FilledFromItsOwn == \A i \in DOMAIN items : HasItsOwn(items[i], borrowed[i])

\* No value is replaced once it is there, by whatever pass, but doubtful offers that the Shopify
\* API corrects and offers without a price that a probe completes; and of a product of an admin
\* API nothing is filled but its image.
NothingReplaced ==
  [][\A i \in DOMAIN items, f \in Described :
       LET before == items[i][f] IN
       items'[i][f] # before =>
         /\ f \in Fields \union Marks
         /\ \/ before = Nothing(f)
            \/ f = "offers" /\ stage = "correcting" /\ before \in Doubtful
            \/ f = "offers" /\ stage = "merging" /\ before = Bare
         /\ items[i].admin => f = "image"]_completionVars

\* The browser is started for a page only when the plain look at it has been taken and left
\* every product of that page without a price, and no page is rendered that has no product.
RenderedOnlyIfNeeded ==
  \A u \in Urls : <<"browser", u>> \in asked \/ u \in toRender =>
    /\ <<"page", u>> \in asked
    /\ u # NoUrl
    /\ \A i \in DOMAIN items : IsOf(i, u) =>
         \A f \in {"price", "offers"} : items[i][f] \in Unpriced \union {FromBrowser(u)}
==============================================================================
