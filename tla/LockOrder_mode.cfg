SPECIFICATION MCSpec
CONSTANTS
  Ops = {"scheduledRestart", "start", "setMode"}
  Mixes = {{"scheduledRestart", "start", "setMode"}}
  MaxWrites = 1
CHECK_DEADLOCK FALSE
INVARIANTS NoCircularWait
