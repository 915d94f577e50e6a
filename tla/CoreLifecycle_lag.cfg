SPECIFICATION Spec
CONSTANTS
    c1 = c1
    c2 = c2
    Callers <- TwoCallers
    Repairer = Repairer
    None = None
    MaxProcs = 1
    Ops = {"Start"}
    TUNs = {TRUE, FALSE}
    Takeovers = {"dnsmasq"}
    GuardSupported = TRUE
    ProtectionRequired = FALSE
    CancelLag = TRUE
    MaxCrashes = 0
    MaxForeign = 0
    RepairModes = {}
SYMMETRY CallerSymmetry
CHECK_DEADLOCK FALSE
INVARIANTS
    NoSilentResidue
