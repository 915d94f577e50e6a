SPECIFICATION MCSpec
CONSTANTS
  Ops = {"scheduledRestart", "start", "nodeEdit"}
  Mixes = {{"scheduledRestart", "start", "nodeEdit"}}
  MaxWrites = 1
CHECK_DEADLOCK FALSE
INVARIANTS RestartLoadsCurrent
