-------------------------- MODULE MCCoreScenarios --------------------------
(* CoreLifecycle with two callers. A behaviour is one of the Scenarios, so  *)
(* that one run covers faults of the host and changes of the configuration  *)
(* without their product.                                                   *)
EXTENDS MCCoreLifecycle

CONSTANT Scenarios

VARIABLE scenario

Scenario(ops, faults, changes) == [ops |-> ops, faults |-> faults, changes |-> changes]
\* A backend that dies beside a repair; a repair beside a restart; a foreign core
\* and a death of the backend; a changing configuration under reloads and updates;
\* exits of the backend and its return.
SafetyScenarios ==
    {Scenario({"Start"}, {"crash", "repair"}, FALSE),
     Scenario({"Start", "Restart"}, {"repair"}, FALSE),
     Scenario({"Start", "Stop", "Restart"}, {"crash", "foreign"}, FALSE),
     Scenario({"Start", "ReloadConfig", "ProtectForAppUpdate"}, {}, TRUE),
     Scenario({"Start", "Restart", "Shutdown"}, {}, FALSE)}
\* All that contend for the locks: two operations, or operations and a repair.
LiveScenarios ==
    {Scenario({"Start", "Restart"}, {}, FALSE),
     Scenario({"Start", "Shutdown"}, {}, FALSE),
     Scenario({"Start"}, {"repair"}, FALSE)}

WithinScenario ==
    /\ \A c \in Callers : op'[c] \in scenario.ops
    /\ "Shutdown" \notin scenario.ops => closing' = "no"
    /\ "crash" \notin scenario.faults => crashes' = 0
    /\ "foreign" \notin scenario.faults => foreign' = 0
    /\ "repair" \notin scenario.faults => repair' = "idle"
    /\ ~scenario.changes => configTUN'

MCInit == Init /\ scenario \in Scenarios /\ (scenario.changes \/ configTUN)
MCNext == Next /\ scenario' = scenario /\ WithinScenario
MCSpec == MCInit /\ [][MCNext]_<<vars, scenario>>
MCFairSpec == MCSpec /\ Fairness
=============================================================================
