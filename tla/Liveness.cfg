\* Two of a read, a container and a command, none of which may answer; a task with
\* an added instruction and two requests waiting for its run.
SPECIFICATION LivenessSpec
CONSTANTS
  old = old
  new = new
  Nobody = Nobody
  Absent = Absent
  Unchecked = Unchecked
  Reads = {r}
  Writes = {}
  Registrations = {}
  Containers = {c}
  Natives = {n}
  Full = {r, n}
  NewParent = {}
  Edits = {}
  MaxStops = 1
  Workspaces = {{r, c, n}}
  Ops <- MCOps
  Kind <- MCKind
  Contents <- MCContents
  Data <- MCData
  Expected <- MCExpected
  MaxCalls = 2
  MaxTools = 1
  Messages = {m1}
  MaxWaiting = 2
  MaxPrepared = 2
INVARIANT ResultsAreReal
PROPERTIES CallsEnd RequestsEnd
CHECK_DEADLOCK FALSE
