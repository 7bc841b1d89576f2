\* A worker that outlives its supervisor, and a second supervisor.
SPECIFICATION Spec
CONSTANTS
  MaxSupervisors = 2
  MaxGenerations = 2
  MaxVersions = 1
  MaxEdits = 1
INVARIANT OperatorCanSettle
CHECK_DEADLOCK FALSE
