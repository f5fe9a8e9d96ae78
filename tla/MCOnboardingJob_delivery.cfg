\* One job, two workers and a direct pipeline; one process may be lost.
\* The system may stop: every id has been used and every message acknowledged.
SPECIFICATION Spec
CONSTANTS
  ApiJobs = {j1}
  EntryIds = {}
  Workers = {w1, w2}
  DirectRunners = {d1}
  Replayers = {}
  None = None
  MaxRetries = 2
  NBatches = 2
  MaxCrashes = 1
SYMMETRY Symmetry
CHECK_DEADLOCK FALSE
INVARIANTS
  TypeOK
  NoJobForgotten
  CompletedMeansStored
  SingleDelivery
PROPERTIES
  SettledIsNotRestarted
