\* A claim of the repository that the code does not keep.
SPECIFICATION Spec
CONSTANTS
  i1 = i1
  i2 = i2
  Runs = {r1, r2}
  Items = {i1, i2}
  SkuOf <- MCSkuOf
  TitleOf <- MCTitleOf
  Blank = {i2}
  Urls = {"canonical", "extended"}
  Detectable = {"woocommerce", "generic"}
  Listings <- MCApiListings
  BatchSize = 2
  None = None
SYMMETRY Symmetry
INVARIANTS
  ErasureIsComplete
