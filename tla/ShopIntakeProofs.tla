-------------------------- MODULE ShopIntakeProofs --------------------------
(***************************************************************************)
(* Theorems about the handshakes (ConnectionHandshake), the detection of   *)
(* the platform and the discovery of URLs (ShopDiscovery), and the way to  *)
(* the source of the products (OAuthRouting), for any number of requests,  *)
(* connects and sets of credentials, whatever a shop shows and lists, and  *)
(* whichever connections are made and revoked at any time.                 *)
(***************************************************************************)
EXTENDS OAuthRouting, ShopDiscovery, ConnectionHandshake, ListProofs

(***************************************************************************)
(* ConnectSpentOnce.  A nonce is worth one connect, and one that is let    *)
(* through is taken away in the same step.                                 *)
(***************************************************************************)
NoncesCounted ==
  /\ passed \in Nat /\ begun \in Nat
  /\ IsFiniteSet(nonces)
  /\ ConnectSpentOnce

LEMMA CountedAtFirst == HandshakeInit => NoncesCounted
  BY FS_EmptySet DEF HandshakeInit, NoncesCounted, ConnectSpentOnce

LEMMA TakingLowersCount ==
  ASSUME IsFiniteSet(nonces), NEW n \in nonces
  PROVE  /\ IsFiniteSet(nonces \ {n})
         /\ Cardinality(nonces) \in Nat
         /\ Cardinality(nonces \ {n}) = Cardinality(nonces) - 1
  BY FS_RemoveElement, FS_CardinalityType

LEMMA StepKeepsCount == NoncesCounted /\ [HandshakeStep]_handshakeVars => NoncesCounted'
<1> SUFFICES ASSUME NoncesCounted, [HandshakeStep]_handshakeVars PROVE NoncesCounted'
  OBVIOUS
<1> USE DEF NoncesCounted, ConnectSpentOnce
<1>0. Cardinality(nonces) \in Nat
  BY FS_CardinalityType
<1>1. CASE Connect
  <2>1. UNCHANGED passed /\ begun' = begun + 1 /\ nonces' = nonces \union {Nonce(begun')}
    BY <1>1 DEF Connect
  <2>2. IsFiniteSet(nonces') /\ Cardinality(nonces') <= Cardinality(nonces) + 1
    BY <1>0, <2>1, FS_AddElement
  <2>3. Cardinality(nonces') \in Nat
    BY <2>2, FS_CardinalityType
  <2>4. passed' = passed /\ begun' = begun + 1
    BY <2>1
  <2> QED
    BY <1>0, <2>2, <2>3, <2>4
<1>2. ASSUME NEW n \in nonces, Expires(n) PROVE NoncesCounted'
  <2>1. nonces' = nonces \ {n} /\ passed' = passed /\ begun' = begun
    BY <1>2 DEF Expires
  <2>2. IsFiniteSet(nonces') /\ Cardinality(nonces') = Cardinality(nonces) - 1
    BY <2>1, TakingLowersCount
  <2> QED
    BY <1>0, <2>1, <2>2
<1>3. ASSUME NEW q \in Requests, NEW n \in nonces, CallbackWithCode(q, n) \/ CallbackWithKeys(q, n)
      PROVE  NoncesCounted'
  <2>1. nonces' = nonces \ {n} /\ passed' = passed + 1 /\ UNCHANGED begun
    BY <1>3 DEF CallbackWithCode, CallbackWithKeys, Admits, Spends
  <2> QED
    BY <1>0, <2>1, TakingLowersCount
<1>4. CASE Restart
  <2>1. nonces' = {} /\ UNCHANGED <<passed, begun>>
    BY <1>4 DEF Restart
  <2>2. IsFiniteSet({}) /\ Cardinality({}) = 0
    BY FS_EmptySet
  <2> QED
    BY <1>0, <2>1, <2>2
<1>5. CASE UNCHANGED <<nonces, passed, begun>>
  BY <1>5
<1>6. ASSUME NEW q \in Requests, Exchange(q) \/ Manual(q) \/ Verify(q) \/ Fails(q) \/ Store(q)
      PROVE  UNCHANGED <<nonces, passed, begun>>
  BY <1>6 DEF Exchange, Manual, Verify, Fails, Store
<1>7. ASSUME NEW by \in {"hash", "domain"}, Disconnect(by)
      PROVE  UNCHANGED <<nonces, passed, begun>>
  BY <1>7 DEF Disconnect
<1>8. UNCHANGED handshakeVars => UNCHANGED <<nonces, passed, begun>>
  BY DEF handshakeVars
<1> HIDE DEF NoncesCounted, ConnectSpentOnce
<1> QED
  BY <1>1, <1>2, <1>3, <1>4, <1>5, <1>6, <1>7, <1>8 DEF HandshakeStep

(* However many callbacks are sent, overlap or come after a restart, no    *)
(* connect is answered twice: those that were let through and those that   *)
(* are still waited for are never more than were begun.                    *)
THEOREM ConnectsAnsweredOnce == HandshakeSpec => []ConnectSpentOnce
<1>1. NoncesCounted => ConnectSpentOnce
  BY DEF NoncesCounted
<1> QED
  BY <1>1, CountedAtFirst, StepKeepsCount, PTL DEF HandshakeSpec

-----------------------------------------------------------------------------
(***************************************************************************)
(* RowIsOneHandshake.  An upsert replaces every column, so that nothing    *)
(* needs to be known of the row it finds.                                  *)
(***************************************************************************)
Platform == {"shopify", "woocommerce", "bigcommerce", "magento", "shopware"}

Ways == {"callback", "manual"}

Doing ==
  [at : {"idle", "exchanging", "verifying", "storing"}, set : Nat, by : Ways]

RowTyped ==
  /\ shopKind \in Platform
  /\ row \in [status : {"none", "active", "revoked"}, of : [Columns -> Nat]]
  /\ request \in [Requests -> Doing]
  /\ issued \in Nat

RowInv == RowTyped /\ RowIsOneHandshake

\* What an upsert leaves filled is of the set it stores, and is what it was given or, without
\* a key, the store hash at most.
LEMMA UpsertFills ==
  ASSUME NEW set, NEW columns \in SUBSET Columns, row' = Upsert(set, columns)
  PROVE  /\ \A c \in Filled' : row'.of[c] = set
         /\ Filled' \ {"store_hash"} \in {{}, columns \ {"store_hash"}}
<1>1. \A c \in Columns :
        row'.of[c] = IF c \in columns /\ (keyed \/ c = "store_hash") THEN set ELSE 0
  BY DEF Upsert
<1>2. Filled' = {c \in Columns : row'.of[c] # 0}
  BY DEF Filled
<1>3. \A c \in Filled' : row'.of[c] = set
  BY <1>1, <1>2
<1>4. CASE set = 0 \/ ~keyed
  <2>1. Filled' \ {"store_hash"} = {}
    BY <1>1, <1>2, <1>4
  <2> QED
    BY <1>3, <2>1
<1>5. CASE set # 0 /\ keyed
  <2>1. Filled' = columns
    BY <1>1, <1>2, <1>5
  <2> QED
    BY <1>3, <2>1
<1> QED
  BY <1>4, <1>5

LEMMA StoredColumns ==
  ASSUME shopKind \in Platform, NEW by \in Ways
  PROVE  Stored(by) \in SUBSET Columns
  BY DEF Platform, Ways, Stored, Columns

LEMMA RowAtFirst == HandshakeInit => RowInv
<1> SUFFICES ASSUME HandshakeInit PROVE RowInv
  OBVIOUS
<1>1. Filled = {}
  BY DEF HandshakeInit, Empty, Filled
<1>2. RowIsOneHandshake
  BY <1>1 DEF RowIsOneHandshake
<1> QED
  BY <1>2 DEF HandshakeInit, RowInv, RowTyped, Doing, Idle, Empty, Platform, Ways

\* Whoever leaves the row and the shop alone keeps the row of one handshake.
LEMMA RowAlone ==
  ASSUME RowIsOneHandshake, row'.of = row.of, shopKind' = shopKind
  PROVE  RowIsOneHandshake'
<1>1. Filled' = Filled
  BY DEF Filled
<1>2. \A by : Stored(by)' = Stored(by)
  BY DEF Stored
<1> QED
  BY <1>1, <1>2 DEF RowIsOneHandshake

LEMMA TypedAlways ==
  ASSUME RowInv, [HandshakeStep]_handshakeVars
  PROVE  RowTyped'
<1> USE DEF RowInv, RowTyped, Doing
<1>1. ASSUME NEW q \in Requests, NEW n, Admits(q, n), CallbackWithCode(q, n) \/ CallbackWithKeys(q, n)
      PROVE  RowTyped'
  BY <1>1 DEF Admits, CallbackWithCode, CallbackWithKeys, Does, Ways
<1>2. ASSUME NEW q \in Requests, Exchange(q) PROVE RowTyped'
  <2> DEFINE new == [request[q] EXCEPT !.at = IF shopKind = "magento" THEN "verifying" ELSE "storing",
                                       !.set = issued']
  <2>1. issued' \in Nat /\ UNCHANGED <<shopKind, row>>
    BY <1>2 DEF Exchange
  <2>2. new \in Doing
    BY <2>1
  <2>3. request' = [request EXCEPT ![q] = new]
    BY <1>2 DEF Exchange, Does
  <2> HIDE DEF Doing, new
  <2> QED
    BY <2>1, <2>2, <2>3
<1>3. ASSUME NEW q \in Requests, Manual(q) PROVE RowTyped'
  BY <1>3 DEF Manual, Does, Ways
<1>4. ASSUME NEW q \in Requests, Verify(q) PROVE RowTyped'
  BY <1>4 DEF Verify, Does
<1>5. ASSUME NEW q \in Requests, Fails(q) PROVE RowTyped'
  BY <1>5 DEF Fails, Does, Idle, Ways
<1>6. ASSUME NEW q \in Requests, Store(q) PROVE RowTyped'
  <2>1. request[q].set \in Nat
    OBVIOUS
  <2>2. row' \in [status : {"none", "active", "revoked"}, of : [Columns -> Nat]]
    BY <1>6, <2>1 DEF Store, Upsert
  <2>3. request' \in [Requests -> Doing]
    BY <1>6 DEF Store, Does, Idle, Ways
  <2> QED
    BY <1>6, <2>2, <2>3 DEF Store
<1>7. CASE Restart
  BY <1>7 DEF Restart, Idle, Ways
<1>8. ASSUME NEW by \in {"hash", "domain"}, Disconnect(by) PROVE RowTyped'
  BY <1>8 DEF Disconnect
<1>9. CASE UNCHANGED <<shopKind, row, request, issued>>
  BY <1>9
<1> HIDE DEF RowInv, RowTyped, Doing
<1> QED
  BY <1>1, <1>2, <1>3, <1>4, <1>5, <1>6, <1>7, <1>8, <1>9
  DEF HandshakeStep, handshakeVars, Connect, Expires, CallbackWithCode, CallbackWithKeys

LEMMA StepKeepsRow == RowInv /\ [HandshakeStep]_handshakeVars => RowInv'
<1> SUFFICES ASSUME RowInv, [HandshakeStep]_handshakeVars PROVE RowInv'
  OBVIOUS
<1>1. shopKind' = shopKind
  BY DEF HandshakeStep, handshakeVars, Connect, Expires, CallbackWithCode, CallbackWithKeys,
         Admits, Exchange, Manual, Verify, Fails, Store, Disconnect, Restart
<1>2. RowIsOneHandshake'
  <2>1. ASSUME NEW q \in Requests, Store(q) PROVE RowIsOneHandshake'
    <3> DEFINE by == request[q].by
    <3>1. by \in Ways
      BY DEF RowInv, RowTyped, Doing
    <3>2. row' = Upsert(request[q].set, Stored(by))
      BY <2>1 DEF Store
    <3>3. Stored(by) \in SUBSET Columns
      BY <3>1, StoredColumns DEF RowInv, RowTyped
    <3> HIDE DEF by
    <3>4. /\ \A c \in Filled' : row'.of[c] = request[q].set
          /\ Filled' \ {"store_hash"} \in {{}, Stored(by) \ {"store_hash"}}
      BY <3>2, <3>3, UpsertFills
    <3>5. \A w : Stored(w)' = Stored(w)
      BY <1>1 DEF Stored
    <3> QED
      BY <3>1, <3>4, <3>5 DEF RowIsOneHandshake, Ways
  <2>2. CASE row'.of = row.of
    BY <1>1, <2>2, RowAlone DEF RowInv
  <2>3. ASSUME NEW by \in {"hash", "domain"}, Disconnect(by) PROVE row'.of = row.of
    BY <2>3 DEF Disconnect, RowInv, RowTyped
  <2> QED
    BY <2>1, <2>2, <2>3
    DEF HandshakeStep, handshakeVars, Connect, Expires, CallbackWithCode, CallbackWithKeys,
        Admits, Exchange, Manual, Verify, Fails, Restart
<1> QED
  BY <1>2, TypedAlways DEF RowInv

(* Whatever callbacks and pasted credentials overlap, and with whatever    *)
(* key the API is started, the row holds the credentials of one handshake  *)
(* and nothing beside them.                                                *)
THEOREM RowsNotMixed == HandshakeSpec => []RowIsOneHandshake
<1>1. RowInv => RowIsOneHandshake
  BY DEF RowInv
<1> QED
  BY <1>1, RowAtFirst, StepKeepsRow, PTL DEF HandshakeSpec

-----------------------------------------------------------------------------
(***************************************************************************)
(* AnsweredProbesCount.  What has been noticed is what the answered probes *)
(* show, until the verdict is reached and no probe is heard any more.      *)
(***************************************************************************)
Early == {"headers", "apis", "page", "judging"}

DetectionInv ==
  /\ IsFiniteSet(shown)
  /\ signals = ShownTo(answered)
  /\ stage \in Early => verdict = "unknown"
  /\ AnsweredProbesCount

\* The places where a platform is noticed can be counted.
LEMMA VotesCounted ==
  ASSUME IsFiniteSet(shown), signals = ShownTo(answered), NEW p
  PROVE  Votes(p) \in Nat
<1>1. \A probe : At(probe) \subseteq shown
  BY DEF At
<1>2. {s \in signals : s[2] = p} \subseteq shown
  BY <1>1 DEF ShownTo
<1> QED
  BY <1>2, FS_Subset, FS_CardinalityType DEF Votes

\* The verdict on some signals: the first platform of those with the most.
LEMMA JudgedHasMost ==
  ASSUME IsFiniteSet(shown), signals = ShownTo(answered), signals # {}
  PROVE  /\ \A i \in DOMAIN Known : Votes(Known[i]) <= Votes(Judged)
         /\ Judged \in {Known[i] : i \in DOMAIN Known}
<1> DEFINE votes(i) == Votes(Known[i])
           most == {i \in DOMAIN Known : \A p \in ApiProbes \union {"bigcommerce"} : Votes(p) <= Votes(Known[i])}
<1>1. DOMAIN Known = 1 .. 5
  BY DEF Known
<1>2. ApiProbes \union {"bigcommerce"} = {Known[i] : i \in 1 .. 5}
  BY DEF Known, ApiProbes
<1>3. \A i \in 1 .. 5 : votes(i) \in Nat
  BY VotesCounted
<1>4. most = {i \in 1 .. 5 : \A j \in 1 .. 5 : votes(j) <= votes(i)}
  BY <1>1, <1>2
<1> HIDE DEF votes
<1>5. PICK m \in 1 .. 5 : \A j \in 1 .. 5 : votes(j) <= votes(m)
  <2>1. votes(1) \in Nat /\ votes(2) \in Nat /\ votes(3) \in Nat /\ votes(4) \in Nat /\ votes(5) \in Nat
    BY <1>3
  <2>2. \A j \in 1 .. 5 : j = 1 \/ j = 2 \/ j = 3 \/ j = 4 \/ j = 5
    OBVIOUS
  <2>3. \/ \A j \in 1 .. 5 : votes(j) <= votes(1)
        \/ \A j \in 1 .. 5 : votes(j) <= votes(2)
        \/ \A j \in 1 .. 5 : votes(j) <= votes(3)
        \/ \A j \in 1 .. 5 : votes(j) <= votes(4)
        \/ \A j \in 1 .. 5 : votes(j) <= votes(5)
    BY <2>1, <2>2
  <2> QED
    BY <2>3
<1>6. PICK first \in most : \A j \in most : first <= j
  BY <1>4, <1>5
<1> DEFINE chosen == Earliest(most)
<1>7. chosen \in most
  BY <1>6 DEF Earliest
<1>8. Judged = Known[chosen]
  BY DEF Judged
<1> HIDE DEF chosen, most
<1>9. chosen \in 1 .. 5 /\ \A j \in 1 .. 5 : votes(j) <= votes(chosen)
  BY <1>4, <1>7
<1> QED
  BY <1>1, <1>8, <1>9 DEF votes

(* Whatever a shop shows, and whichever probes fail or are cut off, the    *)
(* verdict is a platform that no other was shown in more places than, and  *)
(* generic only if the answered probes showed nothing.                     *)
THEOREM VerdictRestsOnAnswers == DiscoverySpec => []AnsweredProbesCount
<1>1. DiscoveryInit => DetectionInv
  BY DiscoveryAssumption DEF DiscoveryInit, DetectionInv, ShownTo, AnsweredProbesCount
<1>2. DetectionInv /\ [DiscoveryStep]_discoveryVars => DetectionInv'
  <2> SUFFICES ASSUME DetectionInv, [DiscoveryStep]_discoveryVars PROVE DetectionInv'
    OBVIOUS
  <2> USE DEF detection
  <2>1. ASSUME NEW probe, NEW ok \in BOOLEAN, Probe(probe, ok), stage \in Early PROVE DetectionInv'
    <3>1. UNCHANGED <<shown, verdict>> /\ verdict = "unknown"
      BY <2>1 DEF Probe, DetectionInv
    <3>2. At(probe)' = At(probe)
      BY <3>1 DEF At
    <3>3. signals' = ShownTo(answered)'
      BY <2>1, <3>1 DEF Probe, DetectionInv, ShownTo, At
    <3> QED
      BY <3>1, <3>3 DEF DetectionInv, AnsweredProbesCount
  <2>2. CASE Judge
    <3>1. UNCHANGED <<shown, signals, answered>> /\ verdict' = Judged /\ stage' \notin Early
      BY <2>2 DEF Judge, HasApi, FirstSitemap, Early
    <3>2. ShownTo(answered)' = ShownTo(answered)
      BY <3>1 DEF ShownTo, At
    <3>3. CASE signals = {}
      BY <3>1, <3>2, <3>3 DEF DetectionInv, AnsweredProbesCount, Judged
    <3>4. CASE signals # {}
      <4>1. \A i \in DOMAIN Known : Votes(Known[i]) <= Votes(Judged)
        BY <3>4, JudgedHasMost DEF DetectionInv
      <4> QED
        BY <3>1, <3>2, <3>4, <4>1 DEF DetectionInv, AnsweredProbesCount, Votes
    <3> QED
      BY <3>3, <3>4
  <2>3. ASSUME UNCHANGED detection, stage' \in Early => stage \in Early PROVE DetectionInv'
    <3>1. ShownTo(answered)' = ShownTo(answered)
      BY <2>3 DEF ShownTo, At
    <3> QED
      BY <2>3, <3>1 DEF DetectionInv, AnsweredProbesCount
  <2>4. ASSUME NEW ok \in BOOLEAN,
               ProbeHeaders(ok) \/ (\E p \in ApiProbes : ProbeApi(p, ok)) \/ ProbePage(ok)
        PROVE  \E probe : Probe(probe, ok) /\ stage \in Early
    BY <2>4 DEF ProbeHeaders, ProbeApi, ProbePage, Early
  <2>5. CASE DetectionTimesOut \/ ApiFails \/ DiscoveryCut \/ Select
    BY <2>5, <2>3 DEF DetectionTimesOut, ApiFails, DiscoveryCut, Select, Finds, FirstSitemap, Early
  <2>6. ASSUME NEW full \in BOOLEAN, ApiAnswers(full) PROVE DetectionInv'
    BY <2>6, <2>3 DEF ApiAnswers, Finds, Early
  <2>7. ASSUME NEW list, ReadSitemap(list) \/ Seed(list) \/ Browse(list) PROVE DetectionInv'
    BY <2>7, <2>3 DEF ReadSitemap, Seed, Browse, AfterSitemap, Finds, Early
  <2>8. CASE UNCHANGED discoveryVars
    BY <2>8, <2>3 DEF discoveryVars
  <2> QED
    BY <2>1, <2>2, <2>4, <2>5, <2>6, <2>7, <2>8 DEF DiscoveryStep
<1>3. DetectionInv => AnsweredProbesCount
  BY DEF DetectionInv
<1> QED
  BY <1>1, <1>2, <1>3, PTL DEF DiscoverySpec

-----------------------------------------------------------------------------
(***************************************************************************)
(* NothingLeftUntried.  While the URLs are looked for there are none, and  *)
(* nothing but an answer, an empty sitemap or a failure leads from one     *)
(* strategy to the next: whoever is at a later one has tried the earlier.  *)
(***************************************************************************)
Searching == {"asking", "sitemaps", "seeding", "browsing"}

StrategiesInOrder ==
  /\ stage \in Early => verdict = "unknown"
  /\ stage \in Early \union Searching => urls = <<>> /\ ~cut
  /\ stage \in {"sitemaps", "seeding", "browsing"} /\ HasApi(verdict) => "api" \in tried
  /\ stage = "browsing" => verdict # "shopify" /\ tried \intersect {"sitemap", "seeder"} # {}

\* What the denylist does to a list: nothing else is lost.
LEMMA JunkTakenOut ==
  ASSUME NEW list \in Seq(Listable)
  PROVE  /\ NoJunk(list) \in Seq(Listable)
         /\ Len(NoJunk(list)) <= Len(list)
         /\ \A n \in DOMAIN NoJunk(list) : ~IsNonProduct(NoJunk(list)[n])
         /\ \A i \in DOMAIN list : ~IsNonProduct(list[i]) =>
              \E n \in DOMAIN NoJunk(list) : NoJunk(list)[n] = list[i]
<1> DEFINE at == {i \in DOMAIN list : ~IsNonProduct(list[i])}
<1>1. NoJunk(list) = Only(list, at) /\ at \in SUBSET DOMAIN list
  BY DEF NoJunk
<1>2. \A i \in at : ~IsNonProduct(list[i])
  OBVIOUS
<1>3. \A i \in DOMAIN list : ~IsNonProduct(list[i]) => i \in at
  OBVIOUS
<1> HIDE DEF at
<1>4. /\ Only(list, at) \in Seq(Listable) /\ Len(Only(list, at)) <= Len(list)
      /\ \A n \in DOMAIN Only(list, at) : \E i \in at : Only(list, at)[n] = list[i]
      /\ \A i \in at : \E n \in DOMAIN Only(list, at) : Only(list, at)[n] = list[i]
  BY <1>1, OnlyThese
<1> QED
  BY <1>1, <1>2, <1>3, <1>4

\* A list that is not empty is not emptied by the choice of its product pages.
LEMMA ProductPagesTaken ==
  ASSUME NEW list \in Seq(Listable), list # <<>>
  PROVE  /\ WooCommerceOnly(list) \in Seq(Listable)
         /\ WooCommerceOnly(list) # <<>> /\ Len(WooCommerceOnly(list)) <= Len(list)
         /\ \A n \in DOMAIN WooCommerceOnly(list) :
              \E i \in DOMAIN list : WooCommerceOnly(list)[n] = list[i]
         /\ \A i \in DOMAIN list : IsProductPath(list[i]) =>
              \E n \in DOMAIN WooCommerceOnly(list) : WooCommerceOnly(list)[n] = list[i]
<1> DEFINE at == {i \in DOMAIN list : IsProductPath(list[i])}
           kept == Only(list, at)
<1>1. at \in SUBSET DOMAIN list /\ \A i \in DOMAIN list : IsProductPath(list[i]) => i \in at
  OBVIOUS
<1>2. WooCommerceOnly(list) = IF 10 * Len(kept) >= 3 * Len(list) THEN kept ELSE list
  BY DEF WooCommerceOnly
<1> HIDE DEF at
<1>3. /\ kept \in Seq(Listable) /\ Len(kept) <= Len(list)
      /\ \A n \in DOMAIN kept : \E i \in at : kept[n] = list[i]
      /\ \A i \in at : \E n \in DOMAIN kept : kept[n] = list[i]
  BY <1>1, OnlyThese
<1> HIDE DEF kept
<1>4. Len(list) \in Nat /\ Len(list) # 0 /\ Len(kept) \in Nat
  BY <1>3
<1>5. CASE 10 * Len(kept) >= 3 * Len(list)
  <2>1. Len(kept) # 0
    BY <1>3, <1>4, <1>5
  <2> QED
    BY <1>1, <1>2, <1>3, <1>5, <2>1
<1>6. CASE ~(10 * Len(kept) >= 3 * Len(list))
  BY <1>2, <1>6
<1> QED
  BY <1>5, <1>6

\* What a sitemap, or the seeder, leads to.
LEMMA SitemapEffect ==
  ASSUME NEW list \in Seq(Listable), AfterSitemap(list)
  PROVE  \/ stage' = "browsing" /\ urls' = <<>> /\ verdict # "shopify" /\ NoJunk(list) = <<>>
         \/ stage' = "found" /\ urls' = <<>> /\ verdict = "shopify" /\ NoJunk(list) = <<>>
         \/ /\ stage' = "found" /\ urls' # <<>>
            /\ urls' \in Seq(Listable) /\ Len(urls') <= Len(list)
            /\ \A n \in DOMAIN urls' : ~IsNonProduct(urls'[n])
            /\ \A i \in DOMAIN list : IsProductPath(list[i]) => \E n \in DOMAIN urls' : urls'[n] = list[i]
<1> DEFINE left == NoJunk(list)
<1>1. /\ left \in Seq(Listable) /\ Len(left) <= Len(list)
      /\ \A n \in DOMAIN left : ~IsNonProduct(left[n])
      /\ \A i \in DOMAIN list : ~IsNonProduct(list[i]) => \E n \in DOMAIN left : left[n] = list[i]
  BY JunkTakenOut
<1>2. \A u : IsProductPath(u) => ~IsNonProduct(u)
  BY DEF IsProductPath, IsNonProduct
<1>3. \/ left = <<>> /\ stage' = "browsing" /\ urls' = <<>> /\ verdict # "shopify"
      \/ left = <<>> /\ stage' = "found" /\ urls' = <<>> /\ verdict = "shopify"
      \/ left # <<>> /\ stage' = "found" /\ urls' \in {left, WooCommerceOnly(left)}
  BY DEF AfterSitemap, Finds
<1> HIDE DEF left
<1>4. CASE left # <<>> /\ stage' = "found" /\ urls' = left
  BY <1>1, <1>2, <1>4
<1>5. CASE left # <<>> /\ stage' = "found" /\ urls' = WooCommerceOnly(left)
  <2>1. /\ urls' \in Seq(Listable) /\ urls' # <<>> /\ Len(urls') <= Len(left)
        /\ \A n \in DOMAIN urls' : \E i \in DOMAIN left : urls'[n] = left[i]
        /\ \A i \in DOMAIN left : IsProductPath(left[i]) => \E n \in DOMAIN urls' : urls'[n] = left[i]
    BY <1>1, <1>5, ProductPagesTaken
  <2>2. Len(urls') <= Len(list)
    BY <1>1, <2>1
  <2>3. ASSUME NEW i \in DOMAIN list, IsProductPath(list[i])
        PROVE  \E n \in DOMAIN urls' : urls'[n] = list[i]
    BY <1>1, <1>2, <2>1, <2>3
  <2> QED
    BY <1>1, <1>5, <2>1, <2>2, <2>3
<1> QED
  BY <1>3, <1>4, <1>5 DEF left

\* One sitemap of several, and the last of them.
LEMMA ReadEffect ==
  ASSUME NEW list, ReadSitemap(list)
  PROVE  /\ stage = "sitemaps" /\ listed' = listed \o list /\ tried' = tried \union {"sitemap"}
         /\ UNCHANGED <<verdict, cut>>
         /\ \/ stage' \in {"sitemaps", "seeding"} /\ urls' = urls
            \/ AfterSitemap(listed')
  BY DEF ReadSitemap, Tries, detection

\* Nothing is listed before the first sitemap.
Shaped ==
  /\ listed \in Seq(Listable)
  /\ stage \in Early \union {"asking"} => listed = <<>> /\ tried = {}

DiscoveryInv == StrategiesInOrder /\ Shaped /\ NothingLeftUntried

LEMMA DiscoveryAtFirst == DiscoveryInit => DiscoveryInv
  BY DEF DiscoveryInit, DiscoveryInv, StrategiesInOrder, Shaped, NothingLeftUntried, Early, Searching

LEMMA DiscoveryStepKeeps == DiscoveryInv /\ [DiscoveryStep]_discoveryVars => DiscoveryInv'
<1> SUFFICES ASSUME DiscoveryInv, [DiscoveryStep]_discoveryVars PROVE DiscoveryInv'
  OBVIOUS
<1> USE DEF DiscoveryInv, detection
<1>1. ASSUME stage \in Early, stage' \in Early,
             UNCHANGED <<verdict, urls, listed, tried, cut>>
      PROVE  DiscoveryInv'
  BY <1>1 DEF StrategiesInOrder, Shaped, NothingLeftUntried, Early
<1>2. CASE Judge
  <2>1. stage' \in {"asking", "sitemaps", "seeding"} /\ stage = "judging"
    BY <1>2 DEF Judge, FirstSitemap
  <2>2. HasApi(verdict') => stage' = "asking"
    BY <1>2 DEF Judge
  <2>3. UNCHANGED <<urls, listed, tried, cut>>
    BY <1>2 DEF Judge
  <2> QED
    BY <2>1, <2>2, <2>3 DEF StrategiesInOrder, Shaped, NothingLeftUntried, Early, Searching, HasApi
<1>3. ASSUME NEW full \in BOOLEAN, ApiAnswers(full) PROVE DiscoveryInv'
  <2> DEFINE n == IF full THEN ApiPages ELSE 1
  <2>1. /\ urls' = [k \in 1 .. n |-> ApiUrl(k)] /\ stage' = "found" /\ stage = "asking"
        /\ UNCHANGED <<verdict, listed, cut>>
    BY <1>3 DEF ApiAnswers, Finds
  <2>2. n \in Nat \ {0}
    BY DiscoveryAssumption
  <2> HIDE DEF n
  <2>3. urls' # <<>>
    <3>1. 1 \in DOMAIN urls'
      BY <2>1, <2>2
    <3> QED
      BY <3>1
  <2> QED
    BY <2>1, <2>3 DEF StrategiesInOrder, Shaped, NothingLeftUntried, Early, Searching
<1>4. CASE ApiFails
  <2>1. /\ stage' \in {"sitemaps", "seeding"} /\ stage = "asking" /\ tried' = tried \union {"api"}
        /\ UNCHANGED <<verdict, urls, listed, cut>>
    BY <1>4 DEF ApiFails, FirstSitemap, Tries
  <2> QED
    BY <2>1 DEF StrategiesInOrder, Shaped, NothingLeftUntried, Early, Searching
<1>5. ASSUME NEW list \in Seq(Listable), AfterSitemap(list), NEW by \in {"sitemap", "seeder"},
             stage \in {"sitemaps", "seeding"}, tried' = tried \union {by},
             listed' = list, UNCHANGED <<verdict, cut>>
      PROVE  DiscoveryInv'
  <2>1. /\ ~cut' /\ tried' \intersect {"sitemap", "seeder"} # {}
        /\ HasApi(verdict') => "api" \in tried'
    BY <1>5 DEF StrategiesInOrder, Early, Searching
  <2>2. stage' \in {"browsing", "found"}
    BY <1>5, SitemapEffect
  <2>3. StrategiesInOrder'
    BY <1>5, <2>1, <2>2, SitemapEffect DEF StrategiesInOrder, Early, Searching
  <2>4. NothingLeftUntried'
    BY <1>5, <2>1, <2>2, SitemapEffect DEF NothingLeftUntried, HasApi
  <2> QED
    BY <1>5, <2>2, <2>3, <2>4 DEF Shaped, Early
<1>6. ASSUME NEW list \in Sitemaps, ReadSitemap(list) PROVE DiscoveryInv'
  <2>1. list \in Seq(Listable) /\ listed \in Seq(Listable) /\ listed' = listed \o list
    BY <1>6, ReadEffect, DiscoveryAssumption DEF Shaped
  <2>2. listed' \in Seq(Listable)
    BY <2>1
  <2>3. CASE AfterSitemap(listed')
    BY <1>5, <1>6, <2>2, <2>3, ReadEffect
  <2>4. CASE stage' \in {"sitemaps", "seeding"} /\ urls' = urls
    BY <1>6, <2>2, <2>4, ReadEffect DEF StrategiesInOrder, Shaped, NothingLeftUntried, Early, Searching
  <2> QED
    BY <1>6, <2>3, <2>4, ReadEffect
<1>7. ASSUME NEW list \in Sitemaps, Seed(list) PROVE DiscoveryInv'
  BY <1>5, <1>7, DiscoveryAssumption DEF Seed, Tries
<1>8. ASSUME NEW list \in Sitemaps, Browse(list) PROVE DiscoveryInv'
  <2>1. /\ stage = "browsing" /\ stage' = "found" /\ tried' = tried \union {"browser"}
        /\ UNCHANGED <<verdict, listed, cut>>
        /\ urls' = <<>> => verdict \notin {"shopware", "generic"}
    BY <1>8 DEF Browse, Tries, Finds
  <2> QED
    BY <2>1 DEF StrategiesInOrder, Shaped, NothingLeftUntried, Early, Searching
<1>9. CASE DiscoveryCut
  BY <1>9 DEF DiscoveryCut, Finds, StrategiesInOrder, Shaped, NothingLeftUntried, Early, Searching
<1>10. CASE Select
  BY <1>10 DEF Select, StrategiesInOrder, Shaped, NothingLeftUntried, Early, Searching
<1>11. CASE UNCHANGED discoveryVars
  BY <1>11 DEF discoveryVars, StrategiesInOrder, Shaped, NothingLeftUntried
<1>12. CASE DetectionTimesOut \/ \E ok \in BOOLEAN :
              ProbeHeaders(ok) \/ (\E p \in ApiProbes : ProbeApi(p, ok)) \/ ProbePage(ok)
  BY <1>1, <1>12 DEF DetectionTimesOut, ProbeHeaders, ProbeApi, ProbePage, Probe, Early
<1> QED
  BY <1>2, <1>3, <1>4, <1>6, <1>7, <1>8, <1>9, <1>10, <1>11, <1>12 DEF DiscoveryStep

(* Whatever the API, the sitemaps and the browser give, and whichever of   *)
(* them fails, a discovery that was not cut off comes back with nothing    *)
(* only after all that there are for the platform were tried.              *)
THEOREM EveryWayTried == DiscoverySpec => []NothingLeftUntried
<1>1. DiscoveryInv => NothingLeftUntried
  BY DEF DiscoveryInv
<1> QED
  BY <1>1, DiscoveryAtFirst, DiscoveryStepKeeps, PTL DEF DiscoverySpec

-----------------------------------------------------------------------------
(***************************************************************************)
(* ProductPagesKept.  The URLs are a list of what was found, and what is   *)
(* done to it takes out the non-products, or all but the product pages, or *)
(* what is behind the limit or refused.                                    *)
(***************************************************************************)
Found == Listable \union ({"api", "json"} \X Nat)

PagesInv ==
  /\ DiscoveryInv /\ urls \in Seq(Found) /\ ProductPagesKept
  /\ stage = "browsing" => NoJunk(listed) = <<>>

\* What PagesInv adds to what is known of the discovery.
PagesNext ==
  /\ urls' \in Seq(Found) /\ ProductPagesKept'
  /\ stage' = "browsing" => NoJunk(listed') = <<>>

LEMMA NoneFound ==
  ASSUME stage' \notin {"found", "selected", "browsing"}, urls' \in Seq(Found)
  PROVE  PagesNext
  BY DEF ProductPagesKept, PagesNext

LEMMA PagesStepKeeps == PagesInv /\ [DiscoveryStep]_discoveryVars => PagesInv'
<1> SUFFICES ASSUME PagesInv, [DiscoveryStep]_discoveryVars PROVE PagesNext
  <2>1. PagesInv => DiscoveryInv
    BY DEF PagesInv
  <2>2. PagesInv' <=> DiscoveryInv' /\ PagesNext
    BY DEF PagesInv, PagesNext
  <2> QED
    BY <2>1, <2>2, DiscoveryStepKeeps
<1> USE DEF PagesInv, detection
<1>0. <<>> \in Seq(Found) /\ Seq(Listable) \subseteq Seq(Found)
  BY DEF Found
<1>1. ASSUME UNCHANGED urls, stage' \notin {"found", "selected", "browsing"}
      PROVE  PagesNext
  BY <1>1, NoneFound
<1>2. CASE Judge \/ ApiFails
  BY <1>1, <1>2 DEF Judge, ApiFails, FirstSitemap
<1>3. ASSUME NEW full \in BOOLEAN, ApiAnswers(full) PROVE PagesNext
  <2> DEFINE n == IF full THEN ApiPages ELSE 1
  <2>1. /\ urls' = [k \in 1 .. n |-> ApiUrl(k)] /\ stage' = "found" /\ stage = "asking"
        /\ listed' = <<>> /\ tried' = {"api"} /\ verdict' = verdict
    BY <1>3 DEF ApiAnswers, Finds, Tries, DiscoveryInv, Shaped
  <2>2. n \in Nat
    BY DiscoveryAssumption
  <2> HIDE DEF n
  <2>3. /\ urls' \in Seq(Found)
        /\ \A k \in DOMAIN urls' : IsNonProduct(urls'[k]) =>
             verdict' = "shopify" /\ tried' = {"api"} /\ urls'[k][1] = "json"
    BY <2>1, <2>2 DEF Found, IsNonProduct, ApiUrl
  <2>4. NoJunk(listed') = <<>>
    <3>1. <<>> \in Seq(Listable) /\ Len(<<>>) = 0
      OBVIOUS
    <3>2. NoJunk(<<>>) \in Seq(Listable) /\ Len(NoJunk(<<>>)) <= 0
      BY <3>1, JunkTakenOut
    <3> QED
      BY <2>1, <3>2
  <2> QED
    BY <2>1, <2>3, <2>4 DEF ProductPagesKept, PagesNext
<1>4. ASSUME NEW list \in Seq(Listable), AfterSitemap(list), listed' = list
      PROVE  PagesNext
  <2>1. CASE stage' = "browsing" /\ urls' = <<>> /\ NoJunk(list) = <<>>
    BY <1>0, <1>4, <2>1 DEF ProductPagesKept, PagesNext
  <2>2. CASE stage' = "found" /\ urls' = <<>> /\ NoJunk(list) = <<>>
    BY <1>0, <1>4, <2>2 DEF ProductPagesKept, PagesNext
  <2>3. CASE /\ stage' = "found" /\ urls' # <<>>
             /\ urls' \in Seq(Listable) /\ Len(urls') <= Len(list)
             /\ \A n \in DOMAIN urls' : ~IsNonProduct(urls'[n])
             /\ \A i \in DOMAIN list : IsProductPath(list[i]) => \E n \in DOMAIN urls' : urls'[n] = list[i]
    BY <1>0, <1>4, <2>3 DEF ProductPagesKept, PagesNext
  <2> QED
    BY <1>4, <2>1, <2>2, <2>3, SitemapEffect
<1>5. ASSUME NEW list \in Sitemaps, ReadSitemap(list) PROVE PagesNext
  <2>1. list \in Seq(Listable) /\ listed \in Seq(Listable) /\ listed' = listed \o list
    BY <1>5, ReadEffect, DiscoveryAssumption DEF DiscoveryInv, Shaped
  <2>2. listed' \in Seq(Listable)
    BY <2>1
  <2> QED
    BY <1>1, <1>4, <1>5, <2>2, ReadEffect
<1>6. ASSUME NEW list \in Sitemaps, Seed(list) PROVE PagesNext
  BY <1>4, <1>6, DiscoveryAssumption DEF Seed
<1>7. ASSUME NEW list \in Sitemaps, Browse(list) PROVE PagesNext
  <2>1. /\ stage' = "found" /\ "browser" \in tried' /\ urls' \in {NoJunk(list), <<Base>>, <<>>}
        /\ urls' = NoJunk(list) \/ urls' = <<>> \/ verdict \in {"shopware", "generic"}
        /\ UNCHANGED <<verdict, listed>> /\ NoJunk(listed) = <<>>
    BY <1>7 DEF Browse, Tries, Finds
  <2>2. list \in Seq(Listable)
    BY DiscoveryAssumption
  <2>3. <<Base>> \in Seq(Found) /\ Len(<<Base>>) = 1 /\ \A k \in DOMAIN <<Base>> : <<Base>>[k] = Base
    BY DEF Base, Found, Listable
  <2>4. NoJunk(list) \in Seq(Found) /\ \A k \in DOMAIN NoJunk(list) : ~IsNonProduct(NoJunk(list)[k])
    BY <1>0, <2>2, JunkTakenOut
  <2>5. /\ urls' \in Seq(Found)
        /\ \A k \in DOMAIN urls' : IsNonProduct(urls'[k]) =>
             urls'[k] = Base /\ Len(urls') <= 1 /\ verdict' \in {"shopware", "generic"}
    <3>1. CASE urls' = NoJunk(list)
      BY <2>4, <3>1
    <3>2. CASE urls' = <<Base>> /\ verdict \in {"shopware", "generic"}
      BY <2>1, <2>3, <3>2
    <3>3. CASE urls' = <<>>
      BY <1>0, <3>3
    <3> QED
      BY <2>1, <3>1, <3>2, <3>3
  <2>6. NoJunk(listed') = <<>>
    BY <2>1
  <2> QED
    BY <2>1, <2>5, <2>6 DEF ProductPagesKept, PagesNext
<1>8. CASE DiscoveryCut
  BY <1>0, <1>8 DEF DiscoveryCut, Finds, ProductPagesKept, PagesNext
<1>9. CASE Select
  <2> DEFINE head == Capped(urls)
             at == {i \in DOMAIN head : urls[i] \notin Barred}
  <2>1. stage = "found" /\ stage' = "selected" /\ urls' = Only(head, at)
    BY <1>9 DEF Select
  <2>2. UNCHANGED <<verdict, tried, listed>>
    BY <1>9 DEF Select
  <2>3. /\ head \in Seq(Found) /\ Len(head) <= MaxUrls /\ at \in SUBSET DOMAIN head
        /\ \A i \in DOMAIN head : i \in DOMAIN urls /\ head[i] = urls[i]
    BY DiscoveryAssumption DEF Capped
  <2> HIDE DEF head, at
  <2>4. /\ Only(head, at) \in Seq(Found) /\ Len(Only(head, at)) <= Len(head)
        /\ \A n \in DOMAIN Only(head, at) : \E i \in at : Only(head, at)[n] = head[i]
    BY <2>3, OnlyThese
  <2>5. Len(urls') \in Nat /\ Len(head) \in Nat /\ MaxUrls \in Nat
    BY <2>1, <2>3, <2>4, DiscoveryAssumption
  <2>6. \A n \in DOMAIN urls' : \E i \in DOMAIN urls : urls'[n] = urls[i]
    BY <2>1, <2>3, <2>4
  <2>7. Len(urls) <= 1 => Len(urls') <= 1
    <3>1. Len(head) <= Len(urls)
      BY DiscoveryAssumption DEF head, Capped
    <3> QED
      BY <2>1, <2>4, <2>5, <3>1
  <2>8. NoJunk(listed') = NoJunk(listed)
    BY <2>2
  <2>9. \A n \in DOMAIN urls' : IsNonProduct(urls'[n]) =>
          \/ verdict' = "shopify" /\ tried' = {"api"} /\ urls'[n][1] = "json"
          \/ /\ urls'[n] = Base /\ Len(urls') <= 1
             /\ verdict' \in {"shopware", "generic"} /\ "browser" \in tried' /\ NoJunk(listed') = <<>>
    BY <2>1, <2>6, <2>2, <2>7, <2>8 DEF ProductPagesKept
  <2> QED
    BY <2>1, <2>3, <2>4, <2>5, <2>9 DEF ProductPagesKept, PagesNext
<1>10. CASE UNCHANGED discoveryVars
  BY <1>10 DEF discoveryVars, ProductPagesKept, PagesNext
<1>11. CASE DetectionTimesOut \/ \E ok \in BOOLEAN :
              ProbeHeaders(ok) \/ (\E p \in ApiProbes : ProbeApi(p, ok)) \/ ProbePage(ok)
  BY <1>1, <1>11 DEF DetectionTimesOut, ProbeHeaders, ProbeApi, ProbePage, Probe
<1> QED
  BY <1>2, <1>3, <1>5, <1>6, <1>7, <1>8, <1>9, <1>10, <1>11 DEF DiscoveryStep

(* Whatever the sitemaps, the seeder and the browser list, and however the *)
(* limits are set: nothing the denylist knows goes to the extraction but   *)
(* the API of a Shopify shop, or the shop's own page when nothing else is  *)
(* left, and a sitemap in use loses no page under /product/ before the     *)
(* limit.                                                                  *)
THEOREM PagesKept == DiscoverySpec => []ProductPagesKept
<1>1. DiscoveryInit => PagesInv
  BY DiscoveryAtFirst DEF DiscoveryInit, PagesInv, ProductPagesKept, Found
<1>2. PagesInv => ProductPagesKept
  BY DEF PagesInv
<1> QED
  BY <1>1, <1>2, PagesStepKeeps, PTL DEF DiscoverySpec

-----------------------------------------------------------------------------
(***************************************************************************)
(* OAuthRouting.                                                           *)
(*                                                                         *)
(* The types hold because an admin API is only asked for a platform that   *)
(* has one, with a connection that was found: Resolved is what makes       *)
(* TypeOK inductive.                                                       *)
(***************************************************************************)
Resolved == phase = "admin" => platform # "generic" /\ conn # None

TypedInv == TypeOK /\ Resolved

LEMMA QueriesBounded ==
  ASSUME platform \in Platforms
  PROVE  Len(Queries) \in 2 .. 6
<1>1. Len(<<platform, "any">>) = 2
  OBVIOUS
<1>2. Len(<<"bigcommerce", "hash", "shopware", "any", "magento", "any">>) = 6
  OBVIOUS
<1>3. Len(<<platform, "hash", "any">>) = 3
  OBVIOUS
<1> QED
  BY <1>1, <1>2, <1>3 DEF Queries

LEMMA AdminTierTyped ==
  ASSUME NEW p \in Connectable
  PROVE  AdminTier(p) \in ExtractionTiers
  BY DEF AdminTier, Connectable, ExtractionTiers, AdminTiers

LEMMA OverridesTyped ==
  ASSUME NEW i \in 1 .. 6
  PROVE  Overrides[i] \in Platforms
<1>1. i = 1 \/ i = 2 \/ i = 3 \/ i = 4 \/ i = 5 \/ i = 6
  OBVIOUS
<1> QED
  BY <1>1 DEF Overrides, Platforms, Connectable

\* A connection is not None.
LEMMA FoundIsSome ==
  ASSUME NEW q \in Connectable
  PROVE  q # None
  BY RoutingAssumption DEF Platforms

LEMMA InitTyped == Init => TypedInv
<1> SUFFICES ASSUME Init PROVE TypedInv
  OBVIOUS
<1>1. phase \in Phases \ {"admin"}
  BY DEF Init, FirstPhase, Phases, Scans
<1>2. phase # "admin"
  BY <1>1
<1>3. step \in 1 .. 6
  BY DEF Init
<1>4. TypeOK
  BY <1>1, <1>3, Zenon DEF Init, TypeOK
<1> QED
  BY <1>2, <1>4 DEF TypedInv, Resolved

LEMMA NextTyped == TypedInv /\ [Next]_vars => TypedInv'
<1> SUFFICES ASSUME TypedInv, [Next]_vars PROVE TypedInv'
  OBVIOUS
<1> USE DEF TypedInv, TypeOK, Resolved, shop, result, history
<1>1. CASE SkipOverride
  BY <1>1 DEF SkipOverride, Goes, Phases, Scans
<1>2. CASE SkipResolve
  BY <1>2 DEF SkipResolve, Goes, Phases, Scans
<1>3. CASE NotFound
  <2>1. Len(Queries) \in 2 .. 6
    BY QueriesBounded
  <2>2. step' \in 1 .. 6
    <3>1. PICK n \in 2 .. 6 : n = Len(Queries)
      BY <2>1
    <3>2. \/ step < n /\ step' = step + 1
          \/ step' = 1
      BY <1>3, <3>1 DEF NotFound, Goes
    <3>3. step \in 1 .. 6
      OBVIOUS
    <3> HIDE DEF TypedInv, TypeOK
    <3> QED
      BY <3>2, <3>3
  <2>3. phase' \in Phases \ {"admin"}
    BY <1>3 DEF NotFound, LooksUp, Scanning, Goes, AfterScan, Fallback, Phases, Scans
  <2> QED
    BY <1>3, <2>2, <2>3 DEF NotFound, LooksUp
<1>4. ASSUME NEW q \in Connectable, Admit(q) PROVE TypedInv'
  BY <1>4 DEF Admit, LooksUp, Goes, Phases, Scans
<1>5. ASSUME NEW q \in Connectable, Override(q) PROVE TypedInv'
  <2>1. platform' \in Platforms
    BY <1>5, OverridesTyped DEF Override
  <2> QED
    BY <1>5, <2>1 DEF Override, LooksUp, Goes, Phases, Scans
<1>6. ASSUME NEW q \in Connectable, Resolve(q) PROVE TypedInv'
  <2>1. platform # "generic" /\ q # None
    BY <1>6, FoundIsSome DEF Resolve, LooksUp, Scanning
  <2>2. phase' \in Phases
    BY <1>6 DEF Resolve, Goes, Fallback, Phases
  <2> QED
    BY <1>6, <2>1, <2>2 DEF Resolve, LooksUp, Goes
<1>7. CASE LookupFails
  BY <1>7 DEF LookupFails, Goes, Phases, Scans
<1>8. CASE AskAdmin
  <2>1. platform \in Connectable /\ conn \in Connectable
    BY <1>8 DEF AskAdmin, Announces, Platforms
  <2>2. tier' \in ExtractionTiers
    BY <1>8, <2>1, AdminTierTyped DEF AskAdmin, Announces
  <2> QED
    BY <1>8, <2>1, <2>2 DEF AskAdmin, Announces
<1>9. CASE AdminAnswers
  <2>1. platform \in Connectable
    BY <1>9 DEF AdminAnswers, Platforms
  <2>2. source' \in ExtractionTiers
    BY <1>9, <2>1, AdminTierTyped DEF AdminAnswers, Returns
  <2> QED
    BY <1>9, <2>2 DEF AdminAnswers, Returns, Phases
<1>10. CASE AdminFails
  BY <1>10 DEF AdminFails, FallsBack, Fallback, Phases
<1>11. CASE PublicAnswers
  BY <1>11 DEF PublicAnswers, Returns, Phases, ExtractionTiers
<1>12. CASE PublicHasNothing
  BY <1>12 DEF PublicHasNothing, Returns, Phases, ExtractionTiers
<1>13. CASE CrawlAnswers
  BY <1>13 DEF CrawlAnswers, Returns, Phases, ExtractionTiers
<1>14. CASE NothingToCrawl
  BY <1>14 DEF NothingToCrawl, Returns, Phases, ExtractionTiers, ChainTiers
<1>15. CASE SourceFails
  BY <1>15 DEF SourceFails, FallsBack, Phases
<1>16. ASSUME NEW p \in Connectable, StoreConnection(p) \/ RevokeConnection(p)
       PROVE  TypedInv'
  BY <1>16 DEF StoreConnection, RevokeConnection
<1>17. CASE UNCHANGED vars
  BY <1>17 DEF vars
<1> QED
  BY <1>1, <1>2, <1>3, <1>4, <1>5, <1>6, <1>7, <1>8, <1>9, <1>10, <1>11, <1>12, <1>13,
     <1>14, <1>15, <1>16, <1>17 DEF Next, Job, Scan, Source, Merchant

(* Every variable keeps its type: no scan runs past its last lookup, and   *)
(* only a platform that has an admin API is ever asked by it.              *)
THEOREM TypeCorrectness == Spec => []TypeOK
<1>1. TypedInv => TypeOK
  BY DEF TypedInv
<1> QED
  BY <1>1, InitTyped, NextTyped, PTL DEF Spec

-----------------------------------------------------------------------------
(***************************************************************************)
(* AskedWithCredentials.  The connection that Resolve checked is the one   *)
(* that is used, and the key is not changed while the job runs.            *)
(***************************************************************************)
(* Whatever the merchant connects or revokes between the lookups, an admin *)
(* API is asked with a connection that holds what this API needs.          *)
THEOREM CredentialsHeld == Spec => []AskedWithCredentials
<1>1. Init => AskedWithCredentials
  BY DEF Init, FirstPhase, AskedWithCredentials
<1>2. AskedWithCredentials /\ [Next]_vars => AskedWithCredentials'
  <2> SUFFICES ASSUME AskedWithCredentials, [Next]_vars PROVE AskedWithCredentials'
    OBVIOUS
  <2> USE DEF AskedWithCredentials, shop, result, history, Holds
  <2>1. CASE phase' # "admin"
    BY <2>1
  <2>2. CASE phase = "admin" /\ UNCHANGED <<phase, platform, conn, readable>>
    BY <2>2
  <2>3. ASSUME NEW q \in Connectable, Resolve(q) PROVE AskedWithCredentials'
    <3>1. SUFFICES ASSUME phase' = "admin" PROVE AskedWithCredentials'
      OBVIOUS
    <3>2. Sufficient(platform, q) /\ ~Refuses(platform, q)
      BY <2>3, <3>1 DEF Resolve, Goes, Fallback
    <3>3. UNCHANGED <<platform, readable>> /\ conn' = q
      BY <2>3 DEF Resolve, LooksUp
    <3> QED
      BY <3>2, <3>3 DEF Sufficient, Refuses
  <2>4. CASE SkipOverride \/ SkipResolve \/ LookupFails
    BY <2>4, <2>1 DEF SkipOverride, SkipResolve, LookupFails, Goes
  <2>5. CASE NotFound
    BY <2>5, <2>1, <2>2 DEF NotFound, LooksUp, Scanning, Goes, AfterScan, Fallback
  <2>6. ASSUME NEW q \in Connectable, Admit(q) \/ Override(q)
        PROVE  AskedWithCredentials'
    BY <2>6, <2>1 DEF Admit, Override, Goes
  <2>7. CASE AskAdmin
    BY <2>7, <2>2 DEF AskAdmin, Announces
  <2>8. CASE AdminAnswers \/ AdminFails \/ PublicAnswers \/ PublicHasNothing
    BY <2>8, <2>1 DEF AdminAnswers, AdminFails, PublicAnswers, PublicHasNothing, Returns,
                      FallsBack, Fallback
  <2>9. CASE CrawlAnswers \/ NothingToCrawl \/ SourceFails
    BY <2>9, <2>1 DEF CrawlAnswers, NothingToCrawl, SourceFails, Returns, FallsBack
  <2>10. ASSUME NEW p \in Connectable, StoreConnection(p) \/ RevokeConnection(p)
         PROVE  AskedWithCredentials'
    BY <2>10, <2>1, <2>2 DEF StoreConnection, RevokeConnection
  <2>11. CASE UNCHANGED vars
    BY <2>11, <2>1, <2>2 DEF vars
  <2> QED
    BY <2>3, <2>4, <2>5, <2>6, <2>7, <2>8, <2>9, <2>10, <2>11
    DEF Next, Job, Scan, Source, Merchant
<1> QED
  BY <1>1, <1>2, PTL DEF Spec

-----------------------------------------------------------------------------
(***************************************************************************)
(* TierReported.  An admin API that answers was announced when it was      *)
(* asked: nobody has been asked while the lookups go on, and once somebody *)
(* has been asked the tier stays until the phase is left.                  *)
(***************************************************************************)
Announced ==
  /\ phase \in Scans => asked = None
  /\ phase = "admin" /\ asked # None => tier = AdminTier(platform)

AnnouncedInv == Announced /\ TierReported

(* A job that returned products reports the tier they came from.           *)
THEOREM TierKept == Spec => []TierReported
<1>1. Init => AnnouncedInv
  BY DEF Init, FirstPhase, AnnouncedInv, Announced, TierReported, Scans
<1>2. TypeOK /\ AnnouncedInv /\ [Next]_vars => AnnouncedInv'
  <2> SUFFICES ASSUME TypeOK, AnnouncedInv, [Next]_vars PROVE AnnouncedInv'
    OBVIOUS
  <2> USE DEF AnnouncedInv, Announced, TierReported, shop, result, history
  <2>1. CASE SkipOverride \/ SkipResolve \/ LookupFails
    BY <2>1 DEF SkipOverride, SkipResolve, LookupFails, Scanning, Goes, Scans
  <2>2. CASE NotFound
    BY <2>2 DEF NotFound, LooksUp, Scanning, Goes, AfterScan, Fallback, Scans
  <2>3. ASSUME NEW q \in Connectable, Admit(q) \/ Override(q) \/ Resolve(q)
        PROVE  AnnouncedInv'
    BY <2>3 DEF Admit, Override, Resolve, LooksUp, Scanning, Goes, Fallback, Scans
  <2>4. CASE AskAdmin
    BY <2>4 DEF AskAdmin, Announces, Scans, AdminTier
  <2>5. CASE AdminAnswers
    BY <2>5 DEF AdminAnswers, Returns, Scans, AdminTier
  <2>6. CASE AdminFails \/ SourceFails
    BY <2>6 DEF AdminFails, SourceFails, FallsBack, Fallback, Scans
  <2>7. CASE PublicAnswers \/ PublicHasNothing
    BY <2>7 DEF PublicAnswers, PublicHasNothing, Returns, Scans
  <2>8. CASE CrawlAnswers \/ NothingToCrawl
    BY <2>8 DEF CrawlAnswers, NothingToCrawl, Returns, Scans
  <2>9. ASSUME NEW p \in Connectable, StoreConnection(p) \/ RevokeConnection(p)
        PROVE  AnnouncedInv'
    <3>1. UNCHANGED <<phase, asked, tier, platform, source, products>>
      BY <2>9 DEF StoreConnection, RevokeConnection
    <3> QED
      BY <3>1 DEF AdminTier
  <2>10. CASE UNCHANGED vars
    BY <2>10 DEF vars, AdminTier
  <2> QED
    BY <2>1, <2>2, <2>3, <2>4, <2>5, <2>6, <2>7, <2>8, <2>9, <2>10
    DEF Next, Job, Scan, Source, Merchant
<1>3. AnnouncedInv => TierReported
  BY DEF AnnouncedInv
<1> QED
  BY <1>1, <1>2, <1>3, TypeCorrectness, PTL DEF Spec

-----------------------------------------------------------------------------
(***************************************************************************)
(* ShopwareConnectionUsed.  The scans run on rails when the only           *)
(* connection is a Shopware one: the third lookup of the override finds    *)
(* it, and so does the first one of the resolution.                        *)
(***************************************************************************)
OnlyShopware ==
  steady /\ active = {"shopware"} /\ readable /\ detected \notin {"bigcommerce", "magento"}

Rails ==
  /\ phase = "admit" => platform = detected
  /\ phase = "override" => platform = detected /\ step \in {1, 2, 3}
  /\ phase = "resolve" => platform = "shopware" /\ step = 1
  /\ phase = "admin" => platform = "shopware" /\ conn = "shopware"
  /\ phase \in {"public", "crawl"} => asked = <<"shopware", "shopware">>
  /\ asked \in {None, <<"shopware", "shopware">>}

OnRails == OnlyShopware => Rails

LEMMA ShopwareResults ==
  ASSUME active = {"shopware"}
  PROVE  /\ Results("any") = {"shopware"}
         /\ Results("shopware") = {"shopware"}
         /\ Results("bigcommerce") = {None}
         /\ Results("hash") = {None}
<1>1. ByDomain = {"shopware"}
  BY DEF ByDomain
<1>2. ByDomain \intersect {"shopware"} = {"shopware"} /\ ByDomain \intersect {"bigcommerce"} = {}
  BY <1>1
<1>3. active \intersect {"bigcommerce"} = {}
  OBVIOUS
<1> QED
  BY <1>1, <1>2, <1>3 DEF Results, Maybe

\* What a lookup finds on the rails.
LEMMA ShopwareLookups ==
  ASSUME OnlyShopware, Rails, NEW found, LooksUp(found)
  PROVE  /\ phase = "override" =>
              IF step = 3 THEN found = "shopware" ELSE found = None
         /\ phase = "resolve" => found = "shopware"
<1> USE ShopwareResults DEF OnlyShopware, LooksUp
<1>1. ASSUME phase = "override"
      PROVE  IF step = 3 THEN found = "shopware" ELSE found = None
  <2>1. Queries = <<"bigcommerce", "hash", "shopware", "any", "magento", "any">>
    BY <1>1 DEF Queries
  <2>2. step \in {1, 2, 3}
    BY <1>1 DEF Rails
  <2>3. CASE step = 1
    BY <2>1, <2>3
  <2>4. CASE step = 2
    BY <2>1, <2>4
  <2>5. CASE step = 3
    BY <2>1, <2>5
  <2> QED
    BY <2>2, <2>3, <2>4, <2>5
<1>2. ASSUME phase = "resolve" PROVE found = "shopware"
  <2>1. platform = "shopware" /\ step = 1
    BY <1>2 DEF Rails
  <2>2. Queries[1] = "shopware"
    BY <1>2, <2>1 DEF Queries
  <2> QED
    BY <2>1, <2>2
<1> QED
  BY <1>1, <1>2

LEMMA ShopwareSufficient ==
  ASSUME readable
  PROVE  Sufficient("shopware", "shopware") /\ ~Refuses("shopware", "shopware")
  BY DEF Sufficient, Refuses, Holds, Needs, Credentials

LEMMA ScanKeepsRails ==
  ASSUME TypeOK, OnlyShopware, Rails, Scan
  PROVE  Rails'
<1> USE DEF Rails, shop, result, history
<1>1. CASE SkipOverride
  BY <1>1 DEF SkipOverride, Goes, OnlyShopware
<1>2. CASE SkipResolve
  BY <1>2 DEF SkipResolve
<1>3. CASE LookupFails
  BY <1>3 DEF LookupFails, Goes
<1>4. CASE NotFound
  <2>1. LooksUp(None) /\ None # "shopware"
    BY <1>4, RoutingAssumption DEF NotFound, Platforms, Connectable
  <2>2. CASE phase = "admit"
    <3>1. Len(Queries) = 2 /\ step \in 1 .. 6
      BY <2>2 DEF Queries, TypeOK
    <3>2. phase' \in {"admit", "review"} /\ UNCHANGED <<platform, detected, asked>>
      BY <1>4, <2>2 DEF NotFound, LooksUp, Goes, AfterScan
    <3> QED
      BY <2>2, <3>2
  <2>3. CASE phase = "override"
    <3>1. step \in {1, 2}
      BY <2>1, <2>3, ShopwareLookups
    <3>2. Len(Queries) = 6
      BY <2>3 DEF Queries
    <3>3. phase' = "override" /\ step' = step + 1 /\ UNCHANGED <<platform, detected, asked>>
      BY <1>4, <2>3, <3>1, <3>2 DEF NotFound, LooksUp
    <3> QED
      BY <2>3, <3>1, <3>3
  <2>4. phase # "resolve"
    BY <2>1, ShopwareLookups
  <2> QED
    BY <2>1, <2>2, <2>3, <2>4 DEF LooksUp, Scanning
<1>5. ASSUME NEW q \in Connectable, Admit(q) PROVE Rails'
  BY <1>5 DEF Admit, LooksUp, Goes
<1>6. ASSUME NEW q \in Connectable, Override(q) PROVE Rails'
  <2>1. q # None
    BY FoundIsSome
  <2>2. step = 3
    BY <1>6, <2>1, ShopwareLookups DEF Override
  <2>3. platform' = "shopware" /\ phase' = "resolve" /\ step' = 1 /\ UNCHANGED asked
    BY <1>6, <2>2 DEF Override, Goes, LooksUp, Overrides
  <2> QED
    BY <2>3
<1>7. ASSUME NEW q \in Connectable, Resolve(q) PROVE Rails'
  <2>1. q = "shopware" /\ platform = "shopware"
    BY <1>7, ShopwareLookups DEF Resolve
  <2>2. phase' = "admin" /\ conn' = "shopware" /\ UNCHANGED <<platform, asked>>
    BY <1>7, <2>1, ShopwareSufficient DEF Resolve, Goes, LooksUp, OnlyShopware
  <2> QED
    BY <2>1, <2>2
<1> QED
  BY <1>1, <1>2, <1>3, <1>4, <1>5, <1>6, <1>7 DEF Scan

(* A shop whose only connection is a Shopware one, and stays, is asked by  *)
(* it before anything else is tried, unless it was detected as BigCommerce *)
(* or Magento.                                                             *)
THEOREM ShopwareUsed == Spec => []ShopwareConnectionUsed
<1>1. Init => OnRails
  BY DEF Init, FirstPhase, OnRails, OnlyShopware, Rails, Connectable
<1>2. TypeOK /\ OnRails /\ [Next]_vars => OnRails'
  <2> SUFFICES ASSUME TypeOK, OnRails, [Next]_vars, OnlyShopware' PROVE Rails'
    BY DEF OnRails
  <2>1. CASE Merchant
    BY <2>1 DEF Merchant, StoreConnection, RevokeConnection, OnlyShopware
  <2>2. CASE UNCHANGED vars
    BY <2>2 DEF vars, shop, result, history, OnRails, OnlyShopware, Rails
  <2>3. CASE Job
    <3>1. UNCHANGED <<active, steady, readable, detected>>
      BY <2>3 DEF Job, Scan, Source, SkipOverride, SkipResolve, NotFound, Admit, Override,
                  Resolve, LooksUp, LookupFails, AskAdmin, Announces, AdminAnswers, AdminFails,
                  PublicAnswers, PublicHasNothing, CrawlAnswers, NothingToCrawl, SourceFails,
                  Returns, FallsBack, shop, result, history
    <3>2. OnlyShopware /\ Rails
      BY <3>1 DEF OnlyShopware, OnRails
    <3>3. CASE Scan
      BY <3>2, <3>3, ScanKeepsRails
    <3>4. CASE AskAdmin
      BY <3>2, <3>4 DEF AskAdmin, Announces, Rails
    <3>5. CASE AdminAnswers \/ AdminFails
      BY <3>2, <3>5 DEF AdminAnswers, AdminFails, Returns, FallsBack, Fallback, history, Rails
    <3>6. CASE PublicAnswers \/ PublicHasNothing
      BY <3>2, <3>6 DEF PublicAnswers, PublicHasNothing, Returns, history, Rails
    <3>7. CASE CrawlAnswers \/ NothingToCrawl \/ SourceFails
      BY <3>2, <3>7 DEF CrawlAnswers, NothingToCrawl, SourceFails, Returns, FallsBack,
                        history, Rails
    <3> QED
      BY <2>3, <3>3, <3>4, <3>5, <3>6, <3>7 DEF Job, Source
  <2> QED
    BY <2>1, <2>2, <2>3 DEF Next
<1>3. OnRails => ShopwareConnectionUsed
  BY DEF OnRails, OnlyShopware, Rails, ShopwareConnectionUsed
<1> QED
  BY <1>1, <1>2, <1>3, TypeCorrectness, PTL DEF Spec
=============================================================================
