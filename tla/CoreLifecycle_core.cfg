SPECIFICATION MCSpec
CONSTANTS
    c1 = c1
    c2 = c2
    Callers <- TwoCallers
    Repairer = Repairer
    None = None
    MaxProcs = 2
    Ops = {"Start", "Stop", "Restart", "ReloadConfig", "Shutdown", "ProtectForAppUpdate"}
    TUNs = {TRUE, FALSE}
    Takeovers = {"dnsmasq"}
    GuardSupported = TRUE
    ProtectionRequired = FALSE
    CancelLag = FALSE
    MaxCrashes = 1
    MaxForeign = 1
    Scenarios <- SafetyScenarios
    RepairModes = {"plain", "force"}
SYMMETRY CallerSymmetry
CHECK_DEADLOCK FALSE
INVARIANTS
    TypeOK
    OneManagedCore
    NoSilentResidue
    TransitionGuarded
    StoppedMeansCleaned
PROPERTIES
    LaunchOnCleanHost
    GuardNeedsReadyCore
    
