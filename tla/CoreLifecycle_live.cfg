SPECIFICATION MCFairSpec
CONSTANTS
    c1 = c1
    c2 = c2
    Callers <- TwoCallers
    Repairer = Repairer
    None = None
    MaxProcs = 1
    Ops = {"Start", "Restart", "Shutdown"}
    TUNs = {TRUE}
    Takeovers = {"dnsmasq", "device"}
    GuardSupported = TRUE
    ProtectionRequired = FALSE
    CancelLag = TRUE
    MaxCrashes = 0
    MaxForeign = 0
    RepairModes = {"force"}
    Scenarios <- LiveScenarios
CHECK_DEADLOCK FALSE
PROPERTIES
    OperationsReturn
    StoppingEnds
    ExitHandled
