\* Two runs of one shop of two items, batches of two.
SPECIFICATION Spec
CONSTANTS
  i1 = i1
  i2 = i2
  Runs = {r1, r2}
  Items = {i1, i2}
  SkuOf <- MCSkuOf
  TitleOf <- MCTitleOf
  Blank = {i2}
  Urls = {"canonical", "respelt"}
  Detectable = {"woocommerce", "generic"}
  Listings <- MCListings
  BatchSize = 2
  None = None
SYMMETRY Symmetry
INVARIANTS
  CompletedIsStored
  
  ErasedIsGone
