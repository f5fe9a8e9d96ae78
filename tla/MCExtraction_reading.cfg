\* Shops of up to five products in pages of two, three pages at most, two changes;
\* pages with up to two objects and every layer above them, three chunks of an LLM, batches of three;
\* two extractions of two pages of a shop with two designs; two products that share pages or paths.
\* An extraction stops when it has returned or raised.
SPECIFICATION ExtractionSpec
CONSTANTS
  MaxProducts = 5
  PageSize = 2
  MaxPages = 3
  MaxChanges = 2
  None = None
  Views <- MCViews
  Readings <- MCReadings
  Alike <- MCAlike
  BatchUrls = 3
  MaxListed = 4
  MaxClicks = 2
  Readers = {r1, r2}
  NPages = 2
  MaxLayouts = 2
  MaxSchemas = 2
  NoSchema = NoSchema
  Extractions <- MCExtractions
  Probes <- MCProbes
  Listings <- MCListings
  NUrls = 4
  Path <- MCPath
  PageTitle <- MCPageTitle
  MaxReextract = 2
  MaxGtinUrls = 2
CHECK_DEADLOCK FALSE
INVARIANTS
  PagesAddUp
  CompleteIsWhole
  CursorMissesNothing
  LayersInOrder
  StealthExhausted
  NothingLost
  MergeKeepsValues
  UselessIsNotServed
  
  RenderedOnlyIfNeeded
PROPERTIES
  PagingEnds
  WorkingSchemaStays
  NothingReplaced
