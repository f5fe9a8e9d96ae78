---------------------------- MODULE OAuthRouting ----------------------------
(***************************************************************************)
(* How a job finds out where the products of its shop come from: from the  *)
(* detected platform and the stored OAuth connections to an admin API, a   *)
(* public API or the crawling tiers (app/services/pipeline.py,             *)
(* app/services/oauth_extraction_coordinator.py, app/db/oauth_store.py).   *)
(*                                                                         *)
(* Every lookup awaits the database, and merchants connect and disconnect  *)
(* in between.  The connections are those that can concern this one shop:  *)
(* kept under its domain, or under its store hash for BigCommerce.         *)
(***************************************************************************)
EXTENDS Naturals, Sequences

CONSTANT None

Connectable == {"shopify", "woocommerce", "bigcommerce", "magento", "shopware"}

Platforms == Connectable \union {"generic"}

ASSUME RoutingAssumption == None \notin Platforms

VARIABLES
  active,      \* platforms with an active connection
  hashed,      \* the shop's domain is store-<hash>.mybigcommerce.com
  readable,    \* the tokens can be decrypted with today's key
  discovered,  \* product URLs were found
  detected,    \* what PlatformDetector said
  platform,    \* what the job goes by
  phase,       \* what the job is doing
  step,        \* the next lookup of the phase
  conn,        \* the connection found last
  tier,        \* extraction_tier in the job's progress hash
  source,      \* where the products came from
  products,    \* some were returned
  steady,      \* history: no connection changed since the platform was detected
  asked        \* history: whose admin API was asked, by which connection

shop == <<hashed, readable, discovered, detected>>
result == <<tier, source, products>>
history == <<steady, asked>>
vars == <<active, shop, platform, phase, step, conn, result, history>>

Scans == {"admit", "override", "resolve"}

Phases == Scans \union {"admin", "public", "crawl", "returned", "review", "failed"}

AdminTiers == {"shopify_admin_api", "woocommerce_api", "bigcommerce_api",
               "magento_api", "shopware_api"}

ChainTiers == {"unified_crawl", "smart_css", "llm", "deep_crawl"}

ExtractionTiers == AdminTiers \union {"api"} \union ChainTiers

TypeOK ==
  /\ active \subseteq Connectable
  /\ hashed \in BOOLEAN /\ readable \in BOOLEAN /\ discovered \in BOOLEAN
  /\ detected \in Platforms /\ platform \in Platforms
  /\ phase \in Phases
  /\ step \in 1 .. 6
  /\ conn \in Connectable \union {None}
  /\ tier \in ExtractionTiers \union {None} /\ source \in ExtractionTiers \union {None}
  /\ products \in BOOLEAN /\ steady \in BOOLEAN
  /\ asked \in {None} \union (Connectable \X Connectable)

-----------------------------------------------------------------------------
(***************************************************************************)
(* The store.                                                              *)
(***************************************************************************)
\* What each callback stores.  A token that cannot be decrypted reads as None; the store
\* hash is not encrypted.
Credentials(p) ==
  CASE p = "shopify"     -> {"access_token"}
    [] p = "woocommerce" -> {"consumer_key", "consumer_secret"}
    [] p = "bigcommerce" -> {"access_token", "store_hash"}
    [] p = "magento"     -> {"access_token"}
    [] p = "shopware"    -> {"access_token", "refresh_token"}

Holds(p) == IF readable THEN Credentials(p) ELSE Credentials(p) \intersect {"store_hash"}

\* A BigCommerce connection is kept under its store hash, the others under the domain.
ByDomain == active \ {"bigcommerce"}

Maybe(found) == IF found = {} THEN {None} ELSE found

\* get_connection() asks for one platform, get_connection_by_domain() for any, and gets
\* the row the database comes across first.
Results(query) ==
  CASE query = "any"  -> Maybe(ByDomain)
    [] query = "hash" -> Maybe(IF hashed THEN active \intersect {"bigcommerce"} ELSE {})
    [] OTHER          -> Maybe(ByDomain \intersect {query})

(***************************************************************************)
(* The lookups of each scan, in order, and the platform an override        *)
(* concludes from each.                                                    *)
(***************************************************************************)
Queries ==
  CASE phase = "admit"    -> <<platform, "any">>
    [] phase = "override" -> <<"bigcommerce", "hash", "shopware", "any", "magento", "any">>
    [] OTHER              -> IF platform = "bigcommerce" THEN <<platform, "hash", "any">>
                             ELSE <<platform, "any">>

Overrides_Bug == <<"bigcommerce", "bigcommerce", "magento", "magento", "shopware", "shopware">>

Overrides == <<"bigcommerce", "bigcommerce", "shopware", "shopware", "magento", "magento">>

Needs(p) ==
  CASE p = "shopify"     -> {"access_token"}
    [] p = "woocommerce" -> {"consumer_key", "consumer_secret"}
    [] p = "bigcommerce" -> {}
    [] p = "magento"     -> {"access_token"}
    [] p = "shopware"    -> {"access_token", "refresh_token"}

AdminTier(p) ==
  CASE p = "shopify"     -> "shopify_admin_api"
    [] p = "woocommerce" -> "woocommerce_api"
    [] p = "bigcommerce" -> "bigcommerce_api"
    [] p = "magento"     -> "magento_api"
    [] p = "shopware"    -> "shopware_api"

HasPublicApi(p) == p \in {"shopify", "woocommerce", "magento"}

-----------------------------------------------------------------------------
\* With no URLs at all the job goes on only if an admin API may have the products.
FirstPhase ==
  IF discovered THEN "override"
  ELSE IF detected \in Connectable \ {"magento"} THEN "admit" ELSE "review"

\* The connections may still change between the detection and the first lookup.
Init ==
  /\ active \in SUBSET Connectable
  /\ hashed \in BOOLEAN
  /\ readable \in BOOLEAN
  /\ discovered \in BOOLEAN
  /\ detected \in Platforms
  /\ platform = detected
  /\ phase = FirstPhase
  /\ step = 1
  /\ conn = None
  /\ tier = None
  /\ source = None
  /\ products = FALSE
  /\ steady = TRUE
  /\ asked = None

(***************************************************************************)
(* The merchant.                                                           *)
(***************************************************************************)
StoreConnection(p) ==
  /\ p \notin active
  /\ active' = active \union {p}
  /\ steady' = FALSE
  /\ UNCHANGED <<shop, platform, phase, step, conn, result, asked>>

RevokeConnection(p) ==
  /\ p \in active
  /\ active' = active \ {p}
  /\ steady' = FALSE
  /\ UNCHANGED <<shop, platform, phase, step, conn, result, asked>>

-----------------------------------------------------------------------------
(***************************************************************************)
(* Scanning.                                                               *)
(***************************************************************************)
Goes(to) == phase' = to /\ step' = 1

\* An override is not looked for when the platform is one of these already.
SkipOverride ==
  /\ phase = "override"
  /\ step = 1
  /\ platform \in {"bigcommerce", "shopware", "magento"}
  /\ Goes("resolve")
  /\ UNCHANGED <<active, shop, platform, conn, result, history>>

Fallback == IF HasPublicApi(platform) THEN "public" ELSE "crawl"

\* Nothing to resolve on a platform that has no admin API.
SkipResolve_Bug ==
  /\ phase = "resolve"
  /\ platform = "generic"
  /\ Goes("override")
  /\ UNCHANGED <<active, shop, platform, conn, result, history>>

SkipResolve ==
  /\ phase = "resolve"
  /\ platform = "generic"
  /\ Goes("crawl")
  /\ UNCHANGED <<active, shop, platform, conn, result, history>>

Scanning ==
  \/ phase = "admit"
  \/ phase = "override" /\ platform \notin {"bigcommerce", "shopware", "magento"}
  \/ phase = "resolve" /\ platform # "generic"

LooksUp(found) ==
  /\ Scanning
  /\ found \in Results(Queries[step])
  /\ UNCHANGED <<active, shop, result, history>>

\* Where a scan leads that found nothing.
AfterScan ==
  CASE phase = "admit"    -> "review"
    [] phase = "override" -> "resolve"
    [] OTHER              -> Fallback

NotFound ==
  /\ LooksUp(None)
  /\ \/ step < Len(Queries) /\ step' = step + 1 /\ UNCHANGED phase
     \/ step >= Len(Queries) /\ Goes(AfterScan)
  /\ UNCHANGED <<platform, conn>>

\* WooCommerce goes by the consumer key, the others by the access token.
Admitted(p, q) ==
  (IF p = "woocommerce" THEN "consumer_key" ELSE "access_token") \in Holds(q)

Admit(q) ==
  /\ phase = "admit"
  /\ LooksUp(q)
  /\ conn' = q
  /\ Goes(IF Admitted(platform, q) THEN "override" ELSE "review")
  /\ UNCHANGED platform

Override(q) ==
  /\ phase = "override"
  /\ LooksUp(q)
  /\ platform' = Overrides[step]
  /\ Goes("resolve")
  /\ UNCHANGED conn

\* The BigCommerce extractor refuses a connection without what it needs by an exception,
\* which nothing catches before the job does.
Refuses(p, q) == p = "bigcommerce" /\ ~({"access_token", "store_hash"} \subseteq Holds(q))

Sufficient_Bug(p, q) == p = "shopware" \/ Needs(p) \subseteq Holds(q)

Sufficient(p, q) == Needs(p) \subseteq Holds(q)

Resolve(q) ==
  /\ phase = "resolve"
  /\ LooksUp(q)
  /\ conn' = q
  /\ Goes(IF ~Sufficient(platform, q) THEN Fallback
          ELSE IF Refuses(platform, q) THEN "failed" ELSE "admin")
  /\ UNCHANGED platform

\* The database raises: so does the job.
LookupFails ==
  /\ Scanning
  /\ Goes("failed")
  /\ UNCHANGED <<active, shop, platform, conn, result, history>>

-----------------------------------------------------------------------------
(***************************************************************************)
(* Asking.  Each tier announces itself in the progress hash: an API before *)
(* it is asked, a crawling tier when it is committed to.                   *)
(***************************************************************************)
Announces(t) ==
  /\ phase = "admin"
  /\ asked = None
  /\ tier' = t
  /\ asked' = <<platform, conn>>
  /\ UNCHANGED <<active, shop, platform, phase, step, conn, source, products, steady>>

AskAdmin_Silent_Bug == Announces(tier)

AskAdmin == Announces(AdminTier(platform))

Returns(from, some) ==
  /\ phase' = "returned"
  /\ source' = from
  /\ products' = some
  /\ UNCHANGED <<active, shop, platform, step, conn, history>>

AdminAnswers ==
  /\ phase = "admin"
  /\ asked # None
  /\ Returns(AdminTier(platform), TRUE)
  /\ UNCHANGED tier

\* Nothing, an open circuit, or an exception: on to the next source.
FallsBack(to) ==
  /\ phase' = to
  /\ UNCHANGED <<active, shop, platform, step, conn, result, history>>

AdminFails ==
  /\ phase = "admin"
  /\ asked # None
  /\ FallsBack(Fallback)

PublicAnswers ==
  /\ phase = "public"
  /\ tier' = "api"
  /\ Returns("api", TRUE)

\* The public API is announced too when it has nothing, and without URLs that is the end.
PublicHasNothing ==
  /\ phase = "public"
  /\ tier' = "api"
  /\ IF discovered
     THEN /\ phase' = "crawl"
          /\ UNCHANGED <<active, shop, platform, step, conn, source, products, history>>
     ELSE Returns("api", FALSE)

\* A crawling tier is committed to before the URLs are crawled.
CrawlAnswers ==
  /\ phase = "crawl"
  /\ discovered
  /\ \E t \in ChainTiers, some \in BOOLEAN :
       /\ tier' = t
       /\ Returns(t, some)

NothingToCrawl ==
  /\ phase = "crawl"
  /\ ~discovered
  /\ Returns("deep_crawl", FALSE)
  /\ UNCHANGED tier

\* Exceptions of the public API, of a probe and of a crawl end the job.  Whether its tier
\* had been announced makes no difference to anything below.
SourceFails ==
  /\ phase \in {"public", "crawl"}
  /\ (phase = "crawl" => discovered)
  /\ FallsBack("failed")

Stops == phase \in {"returned", "review", "failed"}

Scan ==
  \/ SkipOverride
  \/ SkipResolve
  \/ NotFound
  \/ \E q \in Connectable : Admit(q) \/ Override(q) \/ Resolve(q)
  \/ LookupFails

Source ==
  \/ AskAdmin
  \/ AdminAnswers
  \/ AdminFails
  \/ PublicAnswers
  \/ PublicHasNothing
  \/ CrawlAnswers
  \/ NothingToCrawl
  \/ SourceFails

Merchant == \E p \in Connectable : StoreConnection(p) \/ RevokeConnection(p)

Job == Scan \/ Source

Next == Job \/ Merchant

Spec == Init /\ [][Next]_vars

\* A job that is not cancelled takes its next step: every await returns or raises.
FairSpec == Spec /\ WF_vars(Job)

-----------------------------------------------------------------------------
(* An admin API is asked only by a connection that holds what that API     *)
(* needs, whatever the merchant does between the lookups: Needs is checked *)
(* on the connection that is used, not on another read of it.              *)
AskedWithCredentials ==
  phase = "admin" =>
    IF platform = "bigcommerce" THEN {"access_token", "store_hash"} \subseteq Holds(conn)
    ELSE Needs(platform) \subseteq Holds(conn)

(* A job that returned products reports the tier they came from, also      *)
(* when an admin API had been announced and gave nothing.                  *)
TierReported == phase = "returned" /\ products => tier = source

(* A shop whose only connection is a Shopware one is asked by it before    *)
(* anything else is tried, whatever the shop was detected as, except where *)
(* the detection keeps the coordinator from looking.                       *)
ShopwareConnectionUsed ==
  steady /\ active = {"shopware"} /\ readable /\ detected \notin {"bigcommerce", "magento"} =>
    /\ phase \in {"public", "crawl"} => asked = <<"shopware", "shopware">>
    /\ asked \in {None, <<"shopware", "shopware">>}

(* The scans end and some source answers, however often the merchant       *)
(* connects and disconnects meanwhile.                                     *)
RoutingEnds == <>Stops

(* README.md:152: "The pipeline prefers OAuth Admin APIs over scraping     *)
(* ... All 5 major e-commerce platforms are supported".  A shop that is    *)
(* connected under its domain as what it was detected as, and whose        *)
(* connection stays, should be asked by it before anything else is tried.  *)
AdminApiPreferred ==
  steady /\ readable /\ active = {detected} /\ ByDomain = active /\ phase \in {"public", "crawl"} =>
    asked = <<detected, detected>>
=============================================================================
