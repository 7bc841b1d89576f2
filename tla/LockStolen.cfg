SPECIFICATION Spec
CONSTANTS
  Callers = {c1, c2}
  Rescuers = {c1, c2}
  Sources = {s1}
  Bodies = {b1}
  MaxFaults = 1
INVARIANTS HolderOwnsLock
