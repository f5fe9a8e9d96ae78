---------------------------- MODULE ShopDiscovery ----------------------------
(***************************************************************************)
(* The first steps of a job: which platform the shop runs on, and which    *)
(* URLs its products are looked for at.                                    *)
(*                                                                         *)
(* app/services/{platform_detector,url_discovery,url_filters}.py and their *)
(* caller in app/services/pipeline.py.                                     *)
(***************************************************************************)
EXTENDS Naturals, Sequences, FiniteSets, Lists

CONSTANTS
  Shops,     \* what shops show of platforms: sets of <<where, platform>>
  Sitemaps,  \* what a sitemap, or a browser, may list: sequences of <<kind, number>>
  Barred,    \* URLs that the validator refuses
  MaxUrls,   \* max_urls of the job
  ApiPages   \* pages of the Shopify API that are asked for when the first is full

\* The shop's own page.
Base == <<"base", 0>>

\* What may be listed: pages below /product/, others, some on the denylist, the shop's own.
Listable == ({"product", "flat", "junk"} \X Nat) \union {Base}

ASSUME DiscoveryAssumption ==
  /\ Sitemaps \subseteq Seq(Listable)
  /\ \A shop \in Shops : IsFiniteSet(shop)
  /\ MaxUrls \in Nat \ {0} /\ ApiPages \in Nat \ {0}

VARIABLES
  shown,     \* what this shop shows
  stage,     \* what the job is doing
  probing,   \* the API probes that have not come back
  signals,   \* what has been noticed
  answered,  \* history: the probes that were answered
  verdict,   \* the platform the shop is taken for
  sitemap,   \* how many sitemaps of the platform have been read
  urls,      \* the URLs found
  listed,    \* history: what the sitemaps that were used list
  tried,     \* history: the strategies tried
  cut        \* history: the discovery raised or ran out of time

detection == <<shown, probing, signals, answered, verdict>>
discoveryVars == <<detection, stage, sitemap, urls, listed, tried, cut>>

\* In the order of the dictionary of signals.
Known == <<"shopify", "woocommerce", "magento", "bigcommerce", "shopware">>

\* The API probes run side by side; BigCommerce has none.
ApiProbes == {"shopify", "woocommerce", "magento", "shopware"}

\* The home page shows meta tags and the hosts of its files.
OfPage == {"meta", "cdn"}

DiscoveryInit ==
  /\ shown \in Shops
  /\ stage = "headers"
  /\ probing = ApiProbes
  /\ signals = {}
  /\ answered = {}
  /\ verdict = "unknown"
  /\ sitemap = 0
  /\ urls = <<>>
  /\ listed = <<>>
  /\ tried = {}
  /\ cut = FALSE

-----------------------------------------------------------------------------
(***************************************************************************)
(* PlatformDetector.detect()                                               *)
(***************************************************************************)
\* What is to be seen at a probe.
At(probe) ==
  CASE probe = "headers" -> {s \in shown : s[1] = "header"}
    [] probe = "page"    -> {s \in shown : s[1] \in OfPage}
    [] OTHER             -> {s \in shown : s = <<"api", probe>>}

\* A probe that fails or times out shows nothing, and nothing is raised.
Probe(probe, ok) ==
  /\ signals' = IF ok THEN signals \union At(probe) ELSE signals
  /\ answered' = IF ok THEN answered \union {probe} ELSE answered
  /\ UNCHANGED <<shown, verdict, sitemap, urls, listed, tried, cut>>

ProbeHeaders(ok) ==
  /\ stage = "headers"
  /\ Probe("headers", ok)
  /\ stage' = "apis"
  /\ UNCHANGED probing

ProbeApi(p, ok) ==
  /\ stage = "apis"
  /\ p \in probing
  /\ Probe(p, ok)
  /\ probing' = probing \ {p}
  /\ stage' = IF probing' = {} THEN "page" ELSE "apis"

\* An answer other than 200 and a page that is too large are as good as none.
ProbePage(ok) ==
  /\ stage = "page"
  /\ Probe("page", ok)
  /\ stage' = "judging"
  /\ UNCHANGED probing

DetectionTimesOut_Bug ==
  /\ stage \in {"headers", "apis", "page"}
  /\ stage' = "judging"
  /\ signals' = {}
  /\ UNCHANGED <<shown, probing, answered, verdict, sitemap, urls, listed, tried, cut>>

\* TOTAL_TIMEOUT: what has been noticed stays.
DetectionTimesOut ==
  /\ stage \in {"headers", "apis", "page"}
  /\ stage' = "judging"
  /\ UNCHANGED <<detection, sitemap, urls, listed, tried, cut>>

Votes(p) == Cardinality({s \in signals : s[2] = p})

\* _determine_platform(): the first of those with the most signals.
Judged ==
  LET most == {i \in DOMAIN Known : \A p \in ApiProbes \union {"bigcommerce"} : Votes(p) <= Votes(Known[i])}
  IN IF signals = {} THEN "generic" ELSE Known[Earliest(most)]

HasApi(p) == p \in {"shopify", "woocommerce", "magento"}

\* PLATFORM_PRODUCT_SITEMAPS
SitemapsOf(p) == IF p = "generic" THEN 0 ELSE IF p \in {"woocommerce", "magento"} THEN 2 ELSE 1

FirstSitemap(p) == IF SitemapsOf(p) = 0 THEN "seeding" ELSE "sitemaps"

Judge ==
  /\ stage = "judging"
  /\ verdict' = Judged
  /\ stage' = IF HasApi(verdict') THEN "asking" ELSE FirstSitemap(verdict')
  /\ UNCHANGED <<shown, probing, signals, answered, sitemap, urls, listed, tried, cut>>

-----------------------------------------------------------------------------
(***************************************************************************)
(* URLDiscoveryService.discover()                                          *)
(***************************************************************************)
Finds(found) == urls' = found /\ stage' = "found"

Tries(strategy) == tried' = tried \union {strategy}

\* The URLs of an API; that of Shopify ends in .json.
ApiUrl(n) == <<IF verdict = "shopify" THEN "json" ELSE "api", n>>

\* The API itself is the URL; that of Shopify is asked for page by page, and the first
\* page tells whether there are more.
ApiAnswers(full) ==
  /\ stage = "asking"
  /\ full => verdict = "shopify"
  /\ Tries("api")
  /\ Finds([n \in 1 .. IF full THEN ApiPages ELSE 1 |-> ApiUrl(n)])
  /\ UNCHANGED <<detection, sitemap, listed, cut>>

ApiFails ==
  /\ stage = "asking"
  /\ Tries("api")
  /\ stage' = FirstSitemap(verdict)
  /\ UNCHANGED <<detection, sitemap, urls, listed, cut>>

\* is_non_product_url(): so are the shop's own page, which has no path, and whatever ends
\* in .json.
IsNonProduct(u) == u[1] \in {"junk", "base", "json"}

NoJunk(list) == Only(list, {i \in DOMAIN list : ~IsNonProduct(list[i])})

IsProductPath(u) == u[1] = "product"

\* _filter_woocommerce_urls(): the pages under /product/, if they are three in ten.
WooCommerceOnly_Bug(list) == Only(list, {i \in DOMAIN list : IsProductPath(list[i])})

WooCommerceOnly(list) ==
  LET products == Only(list, {i \in DOMAIN list : IsProductPath(list[i])})
  IN IF 10 * Len(products) >= 3 * Len(list) THEN products ELSE list

\* What is left of a sitemap is used, or else the browser is: not for Shopify.
AfterSitemap_Bug(list) ==
  IF NoJunk(list) # <<>> THEN Finds(NoJunk(list)) ELSE Finds(IF verdict = "generic" THEN <<Base>> ELSE <<>>)

AfterSitemap(list) ==
  IF NoJunk(list) # <<>>
  THEN Finds(IF verdict = "woocommerce" THEN WooCommerceOnly(NoJunk(list)) ELSE NoJunk(list))
  ELSE IF verdict = "shopify" THEN Finds(<<>>)
  ELSE stage' = "browsing" /\ urls' = <<>>

\* The product sitemaps one after the other; one that cannot be had, is too large, is no XML
\* or an index of sitemaps lists nothing.  If any lists something the generic one is not read.
ReadSitemap(list) ==
  /\ stage = "sitemaps"
  /\ sitemap' = sitemap + 1
  /\ listed' = listed \o list
  /\ Tries("sitemap")
  /\ IF sitemap' < SitemapsOf(verdict) THEN UNCHANGED <<stage, urls>>
     ELSE IF listed' = <<>> THEN stage' = "seeding" /\ UNCHANGED urls
     ELSE AfterSitemap(listed')
  /\ UNCHANGED <<detection, cut>>

\* AsyncUrlSeeder, which may fail.
Seed(list) ==
  /\ stage = "seeding"
  /\ listed' = list
  /\ Tries("seeder")
  /\ AfterSitemap(list)
  /\ UNCHANGED <<detection, sitemap, cut>>

\* BestFirstCrawlingStrategy finds a set of URLs, in no order.  The strategy for all platforms
\* without one of their own falls back on the shop's page.
Browse(list) ==
  /\ stage = "browsing"
  /\ Tries("browser")
  /\ Finds(IF NoJunk(list) # <<>> THEN NoJunk(list)
           ELSE IF verdict \in {"shopware", "generic"} THEN <<Base>> ELSE <<>>)
  /\ UNCHANGED <<detection, sitemap, listed, cut>>

\* _DISCOVERY_TIMEOUT, or an exception: whatever was found is gone.
DiscoveryCut ==
  /\ stage \in {"asking", "sitemaps", "seeding", "browsing"}
  /\ Finds(<<>>)
  /\ cut' = TRUE
  /\ UNCHANGED <<detection, sitemap, listed, tried>>

\* The pipeline takes the first MaxUrls, and of these the ones that are valid.
Capped(list) == SubSeq(list, 1, IF Len(list) < MaxUrls THEN Len(list) ELSE MaxUrls)

Select ==
  /\ stage = "found"
  /\ urls' = Only(Capped(urls), {i \in DOMAIN Capped(urls) : urls[i] \notin Barred})
  /\ stage' = "selected"
  /\ UNCHANGED <<detection, sitemap, listed, tried, cut>>

DiscoveryStep ==
  \/ \E ok \in BOOLEAN :
       ProbeHeaders(ok) \/ (\E p \in ApiProbes : ProbeApi(p, ok)) \/ ProbePage(ok) \/ ApiAnswers(ok)
  \/ DetectionTimesOut \/ Judge \/ ApiFails
  \/ \E list \in Sitemaps : ReadSitemap(list) \/ Seed(list) \/ Browse(list)
  \/ DiscoveryCut \/ Select

DiscoverySpec == DiscoveryInit /\ [][DiscoveryStep]_discoveryVars

-----------------------------------------------------------------------------
(***************************************************************************)
(* Properties.                                                             *)
(***************************************************************************)
ShownTo(probes) == UNION {At(probe) : probe \in probes}

\* The verdict rests on every probe that was answered, whichever of the others failed, was
\* slower or was cut off by the timeout: it is generic only if none of them showed anything,
\* and otherwise no other platform was shown in more places.
AnsweredProbesCount ==
  verdict # "unknown" =>
    LET places(p) == Cardinality({s \in ShownTo(answered) : s[2] = p})
    IN IF ShownTo(answered) = {} THEN verdict = "generic"
       ELSE \A i \in DOMAIN Known : places(Known[i]) <= places(verdict)

\* A discovery that was not cut comes back with nothing only when the API, the sitemaps and
\* the browser were all of no use (on Shopify, which has no browser, the first two); a shop of
\* no platform the discovery knows never does.
NothingLeftUntried ==
  stage = "found" /\ urls = <<>> /\ ~cut =>
    /\ verdict \notin {"shopware", "generic"}
    /\ HasApi(verdict) => "api" \in tried
    /\ tried \intersect {"sitemap", "seeder"} # {}
    /\ verdict # "shopify" => "browser" \in tried

\* What the denylist knows not to be a product page goes to the extraction in two cases only:
\* the pages of Shopify's API when nothing but the API was tried, and the shop's own page, by
\* itself, when neither the sitemaps nor the browser left anything.  No page under /product/ of
\* a sitemap in use is lost but to the limit and the validator, and a sitemap that has anything
\* to crawl is never emptied.
ProductPagesKept ==
  /\ stage \in {"found", "selected"} => \A i \in DOMAIN urls : IsNonProduct(urls[i]) =>
       \/ verdict = "shopify" /\ tried = {"api"} /\ urls[i][1] = "json"
       \/ /\ urls[i] = Base /\ Len(urls) <= 1
          /\ verdict \in {"shopware", "generic"} /\ "browser" \in tried /\ NoJunk(listed) = <<>>
  /\ stage = "found" /\ ~cut /\ "browser" \notin tried /\ NoJunk(listed) # <<>> =>
       /\ urls # <<>> /\ Len(urls) <= Len(listed)
       /\ \A i \in DOMAIN listed : IsProductPath(listed[i]) => \E k \in DOMAIN urls : urls[k] = listed[i]
  /\ stage = "selected" => Len(urls) <= MaxUrls
==============================================================================
