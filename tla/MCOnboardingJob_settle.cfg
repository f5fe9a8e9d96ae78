\* One job, one worker and a direct pipeline; one process may be lost.
\* The system may stop: every id has been used and every message acknowledged.
SPECIFICATION FairSpec
CONSTANTS
  ApiJobs = {j1}
  EntryIds = {}
  Workers = {w1}
  DirectRunners = {d1}
  Replayers = {}
  None = None
  MaxRetries = 1
  NBatches = 1
  MaxCrashes = 1
CHECK_DEADLOCK FALSE
PROPERTIES
  JobsSettle
  NoJobStuckActive
