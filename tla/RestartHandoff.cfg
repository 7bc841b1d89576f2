\* Three supervisors and three workers, one after another or at once.
SPECIFICATION Spec
CONSTANTS
  MaxSupervisors = 3
  MaxGenerations = 3
  MaxVersions = 2
  MaxEdits = 1
INVARIANT FrontierInv
INVARIANT DisposedOnce
INVARIANT HandoffKept
INVARIANT NoWorkBesideHandoff
CHECK_DEADLOCK FALSE
