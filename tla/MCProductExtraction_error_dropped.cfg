\* A claim of the repository that the code does not keep.
\* The phase stops when it has returned or aborted.
SPECIFICATION Spec
CONSTANTS
  NUrls = 2
  ShopUrl = ShopUrl
  BatchSize = 2
  Threshold = 2
CHECK_DEADLOCK FALSE
INVARIANTS
  FailureIsNotEmpty
