SPECIFICATION LedgerSpec
CONSTANTS
  Callers = {c1, c2}
  Rescuers = {c2}
  Sources = {s1}
  Bodies = {b1, b2}
  MaxFaults = 1
  ChatMessages = {m1, m2}
  Gaps = {m2}
  Outcomes = {o1}
  Actions = {a1}
  MaxContracts = 2
  MaxLosses = 1
  Writers = {w1, w2}
  Turns = {1, 2}
  Transitions = {t1}
  Candidates = {k1}
  MaxRecords = 3
  MaxDeaths = 1
  Items = {i1, i2}
  Checks = {1, 2, 3}
  Causes = {x1}
  Units = {1, 2}
  MaxChanges = 1
  Roots = {r1, r2}
CHECK_DEADLOCK FALSE
INVARIANTS LedgerTypeOK HolderOwnsLock AnswersTrue EffectNeverForgotten HeldUntilAnswered
PROPERTIES ContractSteps LogsHold WorkSound
