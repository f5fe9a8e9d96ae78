---------------------------- MODULE MCExtraction ----------------------------
(***************************************************************************)
(* How products are read, for TLC: page by page from an API                *)
(* (PagedExtraction), out of the pages of the shop (PageReading), by       *)
(* selectors that are made and shared (SchemaReading), and what is added   *)
(* afterwards (ProductCompletion).  The four share only results, so a      *)
(* behaviour is of one of them and the others rest.                        *)
(***************************************************************************)
EXTENDS PagedExtraction, MCPageReading, SchemaReading, MCProductCompletion

VARIABLE part

extractionVars == <<part, vars, pageVars, schemaVars, completionVars>>

PagingRests ==
  /\ extractor = "shopify_api" /\ phase = "returned" /\ ending = "empty"
  /\ shop = <<>> /\ steady = {} /\ changes = 0 /\ token = "none" /\ retried = {}
  /\ page = 1 /\ cursor = None /\ total = None /\ products = <<>> /\ complete = TRUE

PageRests == PageInit /\ way = "css" /\ lowest = 1

CompletionRests ==
  /\ CompletionInit
  /\ platform = "generic"
  /\ items = CHOOSE some \in Extractions : \A i \in DOMAIN some : ~some[i].admin

ExtractionInit ==
  \/ part = "paging" /\ Init /\ PageRests /\ SchemaInit /\ CompletionRests
  \/ part = "page" /\ PagingRests /\ PageInit /\ SchemaInit /\ CompletionRests
  \/ part = "schema" /\ PagingRests /\ PageRests /\ SchemaInit /\ CompletionRests
  \/ part = "completion" /\ PagingRests /\ PageRests /\ SchemaInit /\ CompletionInit

ExtractionNext ==
  /\ UNCHANGED part
  /\ \/ part = "paging" /\ Next /\ UNCHANGED <<pageVars, schemaVars, completionVars>>
     \/ part = "page" /\ PageStep /\ UNCHANGED <<vars, schemaVars, completionVars>>
     \/ part = "schema" /\ SchemaStep /\ UNCHANGED <<vars, pageVars, completionVars>>
     \/ part = "completion" /\ CompletionStep /\ UNCHANGED <<vars, pageVars, schemaVars>>

\* The fairness of PagedExtraction.
ExtractionSpec ==
  /\ ExtractionInit
  /\ [][ExtractionNext]_extractionVars
  /\ WF_extractionVars(part = "paging" /\ Step /\ ExtractionNext)
=============================================================================
