\* One update; its helper, a second one for a launcher that starts meanwhile, and a crash.
SPECIFICATION Spec
CONSTANTS
  Added = {1}
  Replaced = {2}
  Retired = {3}
  Helpers = {h1, h2}
  MaxEdits = 0
  MaxCrashes = 1
  MaxFaults = 0
  MaxAttempts = 1
INVARIANT InterruptedIsHeld
CHECK_DEADLOCK FALSE
