\* Two cancellations of one full-access write.
SPECIFICATION WorkspaceSpec
CONSTANTS
  old = old
  new = new
  Nobody = Nobody
  Absent = Absent
  Unchecked = Unchecked
  Reads = {}
  Writes = {w}
  Registrations = {}
  Containers = {}
  Natives = {}
  Full = {w}
  NewParent = {}
  Edits = {}
  MaxStops = 2
  Workspaces = {{w}}
  Ops <- MCOps
  Kind <- MCKind
  Contents <- MCContents
  Data <- MCData
  Expected <- MCExpected
INVARIANT WorkFinishesFirst
CHECK_DEADLOCK FALSE
