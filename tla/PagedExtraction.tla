--------------------------- MODULE PagedExtraction ---------------------------
(***************************************************************************)
(* How the API extractors read a shop's catalogue page by page, while the  *)
(* shop goes on selling: the loop the eight of them have in common, with   *)
(* the conventions in which they differ.                                   *)
(*                                                                         *)
(* app/extractors/{shopify,woocommerce,magento}_api.py and                 *)
(* app/extractors/{shopify,woocommerce,magento,bigcommerce,shopware}_admin *)
(* _extractor.py.  Products are told by where the API sorts them.          *)
(***************************************************************************)
EXTENDS Integers, Sequences, FiniteSets, Lists

CONSTANTS
  MaxProducts,  \* the size of the largest shop at the start
  PageSize,
  MaxPages,     \* max_pages, _MAX_PAGES
  MaxChanges,   \* how often the shop changes its catalogue meanwhile
  None

\* Why a pagination ends.
Endings == {"denied", "error", "cut", "empty", "last", "untold", "cap"}

ASSUME PagingAssumption ==
  /\ MaxProducts \in Nat /\ MaxChanges \in Nat
  /\ PageSize \in Nat \ {0} /\ MaxPages \in Nat \ {0}
  /\ None \notin Int /\ None \notin Endings

VARIABLES
  extractor,  \* which of them it is
  shop,       \* the catalogue, in the order of the API
  steady,     \* history: what has been in it since the start
  changes,    \* how often it has changed
  phase,
  token,      \* Shopware's bearer token
  retried,    \* the answers for which this page was asked for again
  page,
  cursor,     \* the product that the Link header of the last page points behind
  total,      \* the number of products or pages that the API told
  products,   \* all_products
  complete,
  ending      \* history: why the pagination ended

catalogue == <<shop, steady, changes>>
reading == <<token, retried, page, cursor, total>>
result == <<products, complete, ending>>
vars == <<extractor, catalogue, phase, reading, result>>

-----------------------------------------------------------------------------
(***************************************************************************)
(* The conventions of an extractor:                                        *)
(*   last     what tells it that a page is the last one                    *)
(*   total    which answer's total it believes                             *)
(*   again    the answers after which it asks once more                    *)
(*   denies   the answers after which it returns nothing at all            *)
(*   first    whether it looks for these before it looks for a rate limit  *)
(*   absent   whether a 404 is the end of the catalogue                    *)
(*   shape    whether a page must have a list of products                  *)
(*   catches  whether it survives an answer that is no JSON                *)
(*   capped   whether reaching the last allowed page is an error           *)
(***************************************************************************)
Public == [last |-> "short", total |-> "none", again |-> {"429"}, denies |-> {}, first |-> FALSE,
           absent |-> TRUE, shape |-> FALSE, catches |-> TRUE, capped |-> FALSE]

Admin == [last |-> "count", total |-> "first", again |-> {"429"}, denies |-> {"401"},
          first |-> FALSE, absent |-> FALSE, shape |-> FALSE, catches |-> FALSE, capped |-> FALSE]

ShopifyApi == Public

WooCommerceApi == [Public EXCEPT !.shape = TRUE]

MagentoApi ==
  [Public EXCEPT !.last = "count", !.total = "latest", !.again = {}, !.capped = TRUE]

ShopifyAdmin == [Admin EXCEPT !.last = "link", !.total = "none", !.denies = {"401", "403"}]

WooCommerceAdmin == [Admin EXCEPT !.last = "pages", !.denies = {"401", "403", "404"}]

BigCommerceAdmin == [Admin EXCEPT !.last = "pages", !.total = "latest"]

MagentoAdmin == [Admin EXCEPT !.first = TRUE]

\* The only one whose token expires: it asks for a new one after a 401.
ShopwareAdmin == [Admin EXCEPT !.first = TRUE, !.again = {"401", "429"}]

Convention ==
  [shopify_api |-> ShopifyApi, woocommerce_api |-> WooCommerceApi, magento_api |-> MagentoApi,
   shopify_admin |-> ShopifyAdmin, woocommerce_admin |-> WooCommerceAdmin,
   bigcommerce_admin |-> BigCommerceAdmin, magento_admin |-> MagentoAdmin,
   shopware_admin |-> ShopwareAdmin]

The == Convention[extractor]

Expires == extractor = "shopware_admin"

Statuses == {"401", "403", "404", "429", "other"}

Init ==
  /\ extractor \in DOMAIN Convention
  /\ \E n \in 0 .. MaxProducts : shop = [i \in 1 .. n |-> i]
  /\ steady = {shop[i] : i \in DOMAIN shop}
  /\ changes = 0
  /\ phase = IF Expires THEN "starting" ELSE "asking"
  /\ token = "none"
  /\ retried = {}
  /\ page = 1
  /\ cursor = None
  /\ total = None
  /\ products = <<>>
  /\ complete = TRUE
  /\ ending = None

-----------------------------------------------------------------------------
\* The extraction returns what it has, or nothing if it is denied.
Return(got, whole, why) ==
  /\ phase' = "returned"
  /\ products' = IF why = "denied" THEN <<>> ELSE got
  /\ complete' = whole
  /\ ending' = why

(***************************************************************************)
(* Shopware's token.  A refusal ends the pagination.  Nothing else that    *)
(* the first request raises is caught, and of the later ones an answer     *)
(* without a token is not.                                                 *)
(***************************************************************************)
FirstToken ==
  /\ phase = "starting"
  /\ \/ phase' = "asking" /\ token' = "valid" /\ UNCHANGED result
     \/ Return(<<>>, FALSE, "error") /\ UNCHANGED token
     \/ phase' = "raised" /\ UNCHANGED <<token, result>>
  /\ UNCHANGED <<extractor, catalogue, retried, page, cursor, total>>

\* _ensure_token() before a request.
RenewToken ==
  /\ phase = "asking" /\ Expires /\ token = "expired"
  /\ \/ token' = "valid" /\ UNCHANGED <<phase, result>>
     \/ Return(products, FALSE, "error") /\ UNCHANGED token
     \/ phase' = "raised" /\ UNCHANGED <<token, result>>
  /\ UNCHANGED <<extractor, catalogue, retried, page, cursor, total>>

Asks == phase = "asking" /\ (Expires => token = "valid")

\* Time passes in a wait or with a page: the token may have run out.
Waits == token' \in IF Expires THEN {"valid", "expired"} ELSE {token}

-----------------------------------------------------------------------------
(***************************************************************************)
(* Answers without a page.                                                 *)
(***************************************************************************)
AsksAgain_Bug(status) == status \in The.again

AsksAgain(status) ==
  /\ status \in The.again \ retried
  /\ status = "401" => "429" \notin retried

Again(status) ==
  /\ Asks
  /\ AsksAgain(status)
  /\ retried' = retried \union {status}
  /\ IF status = "401" THEN token' = "expired" ELSE Waits
  /\ UNCHANGED <<extractor, catalogue, phase, page, cursor, total, result>>

\* One that looks for the denial first does not look for it in the answer to its retry.
Denies(status) ==
  /\ status \in The.denies
  /\ The.first => "429" \notin retried
  /\ ~AsksAgain(status)

Denied(status) ==
  /\ Asks
  /\ Denies(status)
  /\ Return(products, FALSE, "denied")
  /\ UNCHANGED <<extractor, catalogue, reading>>

\* A page that is not there: the catalogue has ended, unless there was nothing before.
IsAbsent(status) == status = "404" /\ The.absent

Absent(status) ==
  /\ Asks
  /\ IsAbsent(status)
  /\ IF products = <<>> THEN Return(products, FALSE, "error") ELSE Return(products, TRUE, "cut")
  /\ UNCHANGED <<extractor, catalogue, reading>>

Refused(status) ==
  /\ Asks
  /\ ~AsksAgain(status) /\ ~Denies(status) /\ ~IsAbsent(status)
  /\ Return(products, FALSE, "error")
  /\ UNCHANGED <<extractor, catalogue, reading>>

TimesOut ==
  /\ Asks
  /\ Return(products, FALSE, "error")
  /\ UNCHANGED <<extractor, catalogue, reading>>

\* 200 without JSON, or JSON of another kind; a Retry-After that is no number.
Malformed ==
  /\ Asks
  /\ \/ The.catches /\ Return(products, FALSE, "error")
     \/ ~The.catches /\ phase' = "raised" /\ UNCHANGED result
  /\ UNCHANGED <<extractor, catalogue, reading>>

\* JSON without the products: most take it for an empty page.
Shapeless ==
  /\ Asks
  /\ IF The.shape THEN Return(products, FALSE, "error") ELSE Return(products, TRUE, "cut")
  /\ UNCHANGED <<extractor, catalogue, reading>>

-----------------------------------------------------------------------------
(***************************************************************************)
(* A page.                                                                 *)
(***************************************************************************)
Least(a, b) == IF a < b THEN a ELSE b

\* Pages are counted off from the start of the catalogue as it is now; a cursor points
\* behind a product.
Offset_Bug == page * PageSize - page

Offset == (page - 1) * PageSize

Behind_Bug == SubSeq(shop, Offset + 1, Len(shop))

Behind == IF cursor = None THEN shop ELSE Only(shop, {i \in DOMAIN shop : shop[i] > cursor})

Page ==
  IF The.last = "link" THEN SubSeq(Behind, 1, Least(PageSize, Len(Behind)))
  ELSE SubSeq(shop, Offset + 1, Least(Offset + PageSize, Len(shop)))

Pages == (Len(shop) + PageSize - 1) \div PageSize

Told == CASE The.total = "none" -> None
          [] The.total = "first" /\ total # None -> total
          [] OTHER -> IF The.last = "pages" THEN Pages ELSE Len(shop)

IsLast_Bug(got) ==
  CASE The.last = "short" -> Len(Page) <= PageSize
    [] The.last = "count" -> Len(got) >= Told
    [] The.last = "pages" -> page >= Told
    [] The.last = "link"  -> \A i \in DOMAIN Behind : i <= PageSize

IsLast(got) ==
  CASE The.last = "short" -> Len(Page) < PageSize
    [] The.last = "count" -> Len(got) >= Told
    [] The.last = "pages" -> page >= Told
    [] The.last = "link"  -> \A i \in DOMAIN Behind : i <= PageSize

EmptyPage ==
  /\ Asks
  /\ Page = <<>>
  /\ total' = Told
  /\ Return(products, TRUE, "empty")
  /\ UNCHANGED <<extractor, catalogue, token, retried, page, cursor>>

LastPage ==
  /\ Asks
  /\ Page # <<>>
  /\ IsLast(products \o Page)
  /\ total' = Told
  /\ Return(products \o Page, TRUE, "last")
  /\ UNCHANGED <<extractor, catalogue, token, retried, page, cursor>>

\* The answer whose total is believed has none: it counts as one page, or as no product, and
\* so this page is taken for the last, and the result for complete.
AssumedTotal == IF The.last = "pages" THEN 1 ELSE 0

BelievesTotal == The.total = "latest" \/ (The.total = "first" /\ total = None)

UntoldPage ==
  /\ Asks
  /\ BelievesTotal
  /\ Page # <<>>
  /\ total' = AssumedTotal
  /\ Return(products \o Page, TRUE, "untold")
  /\ UNCHANGED <<extractor, catalogue, token, retried, page, cursor>>

CapReached ==
  /\ Asks
  /\ Page # <<>> /\ ~IsLast(products \o Page)
  /\ page = MaxPages
  /\ total' = Told
  /\ Return(products \o Page, ~The.capped, "cap")
  /\ UNCHANGED <<extractor, catalogue, token, retried, page, cursor>>

NextPage ==
  /\ Asks
  /\ Page # <<>> /\ ~IsLast(products \o Page)
  /\ page < MaxPages
  /\ products' = products \o Page
  /\ page' = page + 1
  /\ cursor' = Page[Len(Page)]
  /\ total' = Told
  /\ retried' = {}
  /\ Waits
  /\ UNCHANGED <<extractor, catalogue, phase, complete, ending>>

-----------------------------------------------------------------------------
(***************************************************************************)
(* The merchant adds a product before or behind the others, or takes one   *)
(* out.                                                                    *)
(***************************************************************************)
Catalogues ==
  {Only(shop, DOMAIN shop \ {i}) : i \in DOMAIN shop}
  \union (IF shop = <<>> THEN {<<0>>}
          ELSE {<<shop[1] - 1>> \o shop, Append(shop, shop[Len(shop)] + 1)})

Sell ==
  /\ phase \in {"starting", "asking"}
  /\ changes < MaxChanges
  /\ shop' \in Catalogues
  /\ steady' = steady \intersect {shop'[i] : i \in DOMAIN shop'}
  /\ changes' = changes + 1
  /\ UNCHANGED <<extractor, phase, reading, result>>

Step ==
  \/ FirstToken \/ RenewToken
  \/ \E status \in Statuses : Again(status) \/ Denied(status) \/ Absent(status) \/ Refused(status)
  \/ TimesOut \/ Malformed \/ Shapeless
  \/ EmptyPage \/ LastPage \/ UntoldPage \/ CapReached \/ NextPage

Next == Step \/ Sell

Spec == Init /\ [][Next]_vars

\* Every request is answered or times out, and every wait ends.
FairSpec == Spec /\ WF_vars(Step)

-----------------------------------------------------------------------------
(***************************************************************************)
(* Properties.                                                             *)
(***************************************************************************)
Got == {products[i] : i \in DOMAIN products}

Unchanged == changes = 0

\* While the shop does not change, the products are its first ones in its order, none twice,
\* however many requests were repeated and however the extraction ended.
PagesAddUp == Unchanged => /\ Len(products) <= Len(shop)
                           /\ products = SubSeq(shop, 1, Len(products))

\* A result that is called complete has the whole catalogue, unless the allowed pages did not
\* suffice, the shop itself answered as if it had ended, or an answer had no total.
CompleteIsWhole ==
  Unchanged /\ phase = "returned" /\ complete =>
    \/ products = shop
    \/ ending = "cut"
    \/ ending = "untold" /\ page * PageSize < Len(shop)
    \/ ending = "cap" /\ MaxPages * PageSize < Len(shop)

\* Reading behind a cursor misses nothing that was there all the time, and takes nothing
\* twice, whatever the merchant adds and removes.
CursorMissesNothing ==
  The.last = "link" =>
    /\ \A i, j \in DOMAIN products : i < j => products[i] < products[j]
    /\ complete /\ ending \in {"last", "empty"} => steady \subseteq Got

\* Every extraction returns or raises.
PagingEnds == <>(phase \in {"returned", "raised"})
=============================================================================
