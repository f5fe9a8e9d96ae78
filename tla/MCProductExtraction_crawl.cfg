\* Five URLs in batches of four, a circuit that the first failure opens.
\* The phase stops when it has returned or aborted.
SPECIFICATION FairSpec
CONSTANTS
  NUrls = 5
  ShopUrl = ShopUrl
  BatchSize = 4
  Threshold = 1
CHECK_DEADLOCK FALSE
INVARIANTS
  EachUrlOnce
  CrawlIsWhole
  UnreadAborts
PROPERTIES
  ExtractionEnds
