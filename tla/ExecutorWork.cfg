\* A full-access and a confined write and a registration, or a container and a
\* write, with edits by the user.
SPECIFICATION WorkspaceSpec
CONSTANTS
  old = old
  new = new
  Nobody = Nobody
  Absent = Absent
  Unchecked = Unchecked
  Reads = {}
  Writes = {w1, w2}
  Registrations = {g}
  Containers = {c}
  Natives = {}
  Full = {w1}
  NewParent = {w2}
  Edits = {old}
  MaxStops = 1
  Workspaces = {{w1, w2, g}, {w1, c}}
  Ops <- MCOps
  Kind <- MCKind
  Contents <- MCContents
  Data <- MCData
  Expected <- MCExpected
INVARIANTS
  OutcomeInv
  ActsAtMostOnce
  IntentBeforeEffect
  OneOpen
  WorkFinishesFirst
  NoneStaysTrue
  SuccessIsReal
PROPERTIES
  OutcomesAreFinal
  NoneWhenRecorded
CHECK_DEADLOCK FALSE
