\* A claim of the repository that the code does not keep.
\* The system may stop: every id has been used and every message acknowledged.
SPECIFICATION Spec
CONSTANTS
  ApiJobs = {j1}
  EntryIds = {}
  Workers = {w1}
  DirectRunners = {}
  Replayers = {}
  None = None
  MaxRetries = 0
  NBatches = 1
  MaxCrashes = 0
SYMMETRY Symmetry
CHECK_DEADLOCK FALSE
PROPERTIES
  SweepOnlyOverdue
