-------------------------- MODULE MCProductCatalog --------------------------
EXTENDS ProductCatalog, TLC

CONSTANTS i1, i2

\* Two variants that share SKU and title.
MCSkuOf == [i \in Items |-> <<"sku", i1>>]

MCTitleOf == [i \in Items |-> i1]

Seen(i, how) == [item |-> i, read |-> how]

AFeed == <<Seen(i1, "feed")>>

\* A crawl that meets an item twice, once without anything to tell it by, and a feed.
MCListings == {<<Seen(i1, "markup"), Seen(i2, "markup"), Seen(i2, "tags")>>, AFeed}

\* An API and a feed.
MCApiListings == {<<Seen(i1, "api"), Seen(i2, "api")>>, AFeed}

Symmetry == Permutations(Runs)
=============================================================================
