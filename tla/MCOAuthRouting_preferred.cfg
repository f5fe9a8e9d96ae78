\* A claim of the repository that the code does not keep.
\* The phase stops when it has found a source, failed or given up.
SPECIFICATION Spec
CONSTANTS
  None = None
CHECK_DEADLOCK FALSE
INVARIANTS
  AdminApiPreferred
