SPECIFICATION MCSpec
CONSTANTS
  Ops = {"scheduledRestart", "update", "start", "restart", "stop", "reconcile", "dnsEdit", "nodeEdit", "setMode", "exposure", "activate"}
  Mixes = {{"scheduledRestart", "update", "start", "restart", "dnsEdit"}, {"start", "setMode", "exposure", "activate"}, {"scheduledRestart", "reconcile", "start", "stop"}, {"reconcile", "nodeEdit", "start", "stop"}}
  MaxWrites = 1
INVARIANTS
  TypeOK
  NoCircularWait
