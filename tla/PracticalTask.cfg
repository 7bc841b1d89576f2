\* Two answers of two tools, one added instruction, two waiting requests.
SPECIFICATION Spec
CONSTANTS
  MaxCalls = 3
  MaxTools = 2
  Messages = {m1}
  MaxWaiting = 2
INVARIANTS
  TaskInv
  ReplaySound
  CompletionSound
  StatusTellsTruth
PROPERTIES
  StartsAsTold
