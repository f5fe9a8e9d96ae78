--------------------------- MODULE MCPageReading ---------------------------
EXTENDS PageReading, TLC

NoTags == [price |-> "none", image |-> "none", product |-> FALSE]

Tags == {NoTags, [NoTags EXCEPT !.image = "og"], [NoTags EXCEPT !.price = "0", !.product = TRUE],
         [price |-> "og", image |-> "og", product |-> FALSE]}

Object(n, g, p, i) ==
  [name |-> n, group |-> g, price |-> p, variant |-> "variant", image |-> i, description |-> "none"]

\* No JSON-LD, one object, one that is repeated sparser or fuller, and two of one page.
Objects ==
  {<<>>, <<Object("a", TRUE, "0.00", "none")>>, <<Object("a", TRUE, "none", "ld")>>}
  \union {<<Object("a", FALSE, p, "none")>> : p \in {"none", "0", "0.00", "ld"}}
  \union {<<[Object("a", FALSE, "ld", i) EXCEPT !.description = d], Object(n, FALSE, "ld", "ld")>> :
            i \in {"none", "ld"}, n \in {"a", "b"}, d \in {"none", "ld"}}

MCViews ==
  {[ld |-> l, og |-> t, markdown |-> text[1], media |-> text[2]] :
     l \in Objects, t \in Tags, text \in {<<"none", "none">>, <<"text", "media">>}}

Titles == {<<>>, <<"lamp">>, <<"lamp", "red">>, <<"lamb">>}

Chunks == {[title |-> t, price |-> v[1], image |-> v[2]] :
             t \in Titles, v \in {<<"p", "none">>, <<"none", "i">>}}

MCReadings ==
  {<<>>} \union {<<c>> : c \in Chunks} \union (Chunks \X Chunks) \union (Chunks \X Chunks \X Chunks)

MCAlike == {{<<"lamp">>, <<"lamb">>}}
=============================================================================
