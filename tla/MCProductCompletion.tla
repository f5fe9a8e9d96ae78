------------------------- MODULE MCProductCompletion -------------------------
EXTENDS ProductCompletion, TLC

\* Products of three pages, of the shop's own page (3) and of none.
Product(u, s, t, p, o, i, g) ==
  [url |-> u, source |-> s, title |-> t, sku |-> NoValue, admin |-> FALSE, price |-> p, offers |-> o,
   image |-> i, gtin |-> g]

Crawled == {Product(u, s, "x", p, o, NoValue, NoValue) :
              u \in {0, 1}, s \in {0, 1}, p \in {NoValue, Zero}, o \in {NoValue, Bare, Zero, Own, Foreign}}

MCExtractions ==
  {<<p, q>> : p \in Crawled, q \in {Product(1, 1, "y", NoValue, NoValue, Own, NoValue),
                                    Product(2, 2, "x", Own, NoValue, NoValue, Own)}}
  \union {<<[Product(1, 3, "x", Own, NoValue, NoValue, NoValue) EXCEPT !.admin = a],
            [Product(4, 3, "y", NoValue, NoValue, NoValue, NoValue) EXCEPT !.admin = a]>> : a \in BOOLEAN}

\* Nothing, or what a probe of the page of URL 1 found.
Probe(v, o) ==
  [price |-> v, offers |-> o, image |-> v, url |-> IF v = NoValue THEN 0 ELSE 1,
   title |-> IF v = NoValue THEN NoTitle ELSE "x", sku |-> v, gtin |-> NoValue]

MCProbes ==
  {Probe(v, o) : v \in {NoValue, FromProbe}, o \in {NoValue, Bare, Zero, Foreign, FromProbe}}
  \union {[Probe(FromProbe, NoValue) EXCEPT !.gtin = FromProbe, !.price = NoValue]}

MCListings == {<<>>, <<[handle |-> 1, title |-> "x", priced |-> TRUE], [handle |-> 4, title |-> "x", priced |-> TRUE]>>}

\* 1 and 2 are variants under one path.
MCPath == [u \in 0 .. 4 |-> IF u = 2 THEN 1 ELSE u]

MCPageTitle == [u \in 0 .. 4 |-> IF u = 2 THEN "y" ELSE "x"]
=============================================================================
