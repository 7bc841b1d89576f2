\* One update of two files, two tasks, three processes, one edit or one new baseline.
SPECIFICATION Spec
CONSTANTS
  p = p
  q = q
  Paths = {p, q}
  Candidates = {a}
  Changes <- MCChanges
  Tasks = {s, t}
  Uses = {u}
  Original = Original
  Foreign = Foreign
  Temp = Temp
  Absent = Absent
  Partial = Partial
  MaxBoots = 3
  MaxOutside = 1
  MaxRows = 2
SYMMETRY TaskSymmetry
INVARIANT SourceInv
INVARIANT MixSound
INVARIANT PassedBeforeInstalled
INVARIANT ObservedIsReal
PROPERTY ForeignKept
CHECK_DEADLOCK FALSE
