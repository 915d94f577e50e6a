SPECIFICATION Spec
CONSTANTS
    c1 = c1
    c2 = c2
    Callers <- TwoCallers
    Repairer = Repairer
    None = None
    MaxProcs = 1
    Ops = {"Start", "Shutdown"}
    TUNs = {TRUE, FALSE}
    Takeovers = {}
    GuardSupported = TRUE
    ProtectionRequired = FALSE
    CancelLag = FALSE
    MaxCrashes = 0
    MaxForeign = 0
    RepairModes = {}
SYMMETRY CallerSymmetry
CHECK_DEADLOCK FALSE
INVARIANTS
    ExitLeavesNoCore
