SPECIFICATION Spec
CONSTANTS Payloads = {1,2} MaxSources = 2 MaxRevisions = 2 MaxOps = 2 MaxCrashes = 1
INVARIANT RunningIsRun
CHECK_DEADLOCK FALSE
