\* One job that fails at its only try, its DLQ entry, and two requests to retry it.
\* The system may stop: every id has been used and every message acknowledged.
SPECIFICATION Spec
CONSTANTS
  ApiJobs = {j1}
  EntryIds = {e1}
  Workers = {w1}
  DirectRunners = {}
  Replayers = {p1, p2}
  None = None
  MaxRetries = 0
  NBatches = 1
  MaxCrashes = 0
SYMMETRY Symmetry
CHECK_DEADLOCK FALSE
PROPERTIES
  DeliveryContract
