--------------------------- MODULE CoreLifecycle ---------------------------
(***************************************************************************)
(* The sing-box core lifecycle of SingboxService (singbox.go): concurrent  *)
(* callers that start, stop, restart and shut down the core, the exit      *)
(* waiter goroutine of every launched process, the context that cancels a  *)
(* startup, the network-repair command that runs in a process of its own,  *)
(* and the death of the core or of the backend at any step.                *)
(*                                                                         *)
(* Locks. lifecycleMu and networkLifecycleMu are the two mutexes, flock    *)
(* the file lock that the repair command shares with the backend. svc.mu   *)
(* has no variable: the one long section under it, start(), also holds     *)
(* lifecycleMu and networkLifecycleMu, so every other section under svc.mu *)
(* is one atomic step.                                                     *)
(*                                                                         *)
(* Host state is abstracted to what the lifecycle decides: whether the     *)
(* transition firewall is installed, which DNS takeovers are active and    *)
(* whether routes of a core are left. A step that talks to the host may    *)
(* fail wherever the code has an error path for it.                        *)
(***************************************************************************)
EXTENDS Naturals, FiniteSets

CONSTANTS
    Callers,            \* goroutines that call the service (handlers, schedulers)
    Repairer,           \* the network-repair command
    None,               \* nobody: a free lock
    MaxProcs,           \* bound on the processes that ever run
    Ops,                \* the operations callers may begin
    TUNs,               \* whether active configurations manage routes
    Takeovers,          \* DNS takeovers an active TUN configuration asks for
    GuardSupported,     \* the host has the nftables features of the guard
    ProtectionRequired, \* device protection is enabled
    CancelLag,          \* the context goroutine may run later than the waiter
    MaxCrashes,         \* bound on the deaths of the backend
    MaxForeign,         \* bound on cores started by another supervisor
    RepairModes         \* modes of network-repair: subset of {"plain", "force"}

Procs == 1..MaxProcs
AllOps == {"Start", "Stop", "Restart", "ReloadConfig", "Shutdown",
           "ProtectForAppUpdate", "Update"}
AllTakeovers == {"dnsmasq", "device"}

ASSUME CallersAssumption ==
    /\ None \notin Callers \cup Procs \cup {Repairer}
    /\ Repairer \notin Callers \cup Procs
    /\ Callers \cap Procs = {}
ASSUME BoundsAssumption ==
    /\ MaxProcs \in Nat /\ MaxCrashes \in Nat /\ MaxForeign \in Nat
ASSUME SwitchAssumption ==
    /\ Ops \subseteq AllOps /\ Takeovers \subseteq AllTakeovers
    /\ GuardSupported \in BOOLEAN /\ ProtectionRequired \in BOOLEAN
    /\ CancelLag \in BOOLEAN
    /\ TUNs \subseteq BOOLEAN /\ RepairModes \subseteq {"plain", "force"}

VARIABLES
    lifecycleMu,    \* SingboxService.lifecycleMu
    networkMu,      \* SingboxService.networkLifecycleMu
    flock,          \* the network lifecycle file lock
    pc, op,         \* where each caller is, and in which operation
    tgt,            \* the process a caller is starting or stopping
    failing,        \* the caller is in failStartup
    cmd,            \* svc.cmd: the managed process, 0 for nil
    stopping,       \* svc.stopping
    runningTUN,     \* svc.runningTUN
    transitionHeld, \* svc.transitionHeld
    proc,           \* state of each operating-system process
    managed,        \* processes this service launched
    coreConfig,     \* the configuration each of them has read: "unread", "tun"
                    \* (it manages routes and is still the active one), "other"
    killed,         \* processes that were sent SIGKILL
    waiter,         \* the exit goroutine of each process
    done,           \* what its done channel holds
    cancelled,      \* processes whose startup context is cancelled
    readied,        \* history: processes that passed waitReady
    guard,          \* the transition firewall table is installed
    dns,            \* DNS takeovers in force on the host
    residue,        \* routes and rules of a core are on the host
    dirty,          \* history: the last recovery failed, was skipped or is due
    forced,         \* history: a forced repair removed the guard
    configTUN,      \* the active configuration manages routes
    repair,         \* where the network-repair command is
    booted,         \* application.New has run RecoverStaleState
    closing,        \* progress of PrepareShutdown
    crashes, foreign \* counters for the bounds

callerVars == <<pc, op, tgt, failing>>
lockVars   == <<lifecycleMu, networkMu, flock>>
svcVars    == <<cmd, stopping, runningTUN, transitionHeld>>
procVars   == <<proc, managed, coreConfig, killed, waiter, done, cancelled, readied>>
hostVars   == <<guard, dns, residue, dirty, forced, configTUN>>
daemonVars == <<repair, booted, closing, crashes, foreign>>
vars == <<callerVars, lockVars, svcVars, procVars, hostVars, daemonVars>>

Init ==
    /\ lifecycleMu = None /\ networkMu = None /\ flock = None
    /\ pc = [c \in Callers |-> "idle"]
    /\ op = [c \in Callers |-> "Start"]
    /\ tgt = [c \in Callers |-> 0]
    /\ failing = [c \in Callers |-> FALSE]
    /\ cmd = 0 /\ stopping = FALSE /\ runningTUN = FALSE
    /\ transitionHeld = FALSE
    /\ proc = [i \in Procs |-> "unused"]
    /\ coreConfig = [i \in Procs |-> "unread"]
    /\ managed = {} /\ killed = {} /\ cancelled = {} /\ readied = {}
    /\ waiter = [i \in Procs |-> "none"]
    /\ done = [i \in Procs |-> "empty"]
    /\ guard = FALSE /\ dns = {} /\ residue = FALSE
    /\ dirty = FALSE /\ forced = FALSE
    /\ configTUN \in TUNs
    /\ repair = "idle" /\ booted = FALSE /\ closing = "no"
    /\ crashes = 0 /\ foreign = 0

-----------------------------------------------------------------------------
(* Helpers.                                                                *)

IsRunning == cmd # 0
Up == {i \in Procs : proc[i] = "up"}
Goto(c, label) == pc' = [pc EXCEPT ![c] = label]
FirstUnused == {i \in Procs : /\ proc[i] = "unused"
                              /\ \A j \in Procs : proc[j] = "unused" => i <= j}

\* start() holds svc.mu: IsRunning called by anyone else waits.
StartLabels == {"check", "guardStart", "stopExisting", "recover", "verify", "launch",
                "launchTUN"}
InStart == \E c \in Callers : pc[c] \in StartLabels

\* The deferred unlock of networkLifecycleMu and of the file lock.
UnlockNetwork == networkMu' = None /\ flock' = None

\* The operation ends: the deferred unlock of lifecycleMu. PrepareShutdown
\* remembers whether its Shutdown succeeded.
Return(c, ok) ==
    /\ Goto(c, "idle")
    /\ lifecycleMu' = None
    /\ closing' = IF op[c] = "Shutdown"
                  THEN IF ok THEN "stopped" ELSE "failed" ELSE closing
    /\ op' = [op EXCEPT ![c] = "Start"]
    /\ tgt' = [tgt EXCEPT ![c] = 0]
    /\ failing' = [failing EXCEPT ![c] = FALSE]
    /\ UNCHANGED <<repair, booted, crashes, foreign>>

\* What a caller does once stop() has returned: failStartup waits for the
\* core to settle, restart() goes on to start, the others return.
AfterStop(c, ok) ==
    IF failing[c] \/ op[c] = "Update" \/ (ok /\ op[c] \in {"Restart", "ReloadConfig"})
    THEN /\ Goto(c, IF failing[c] THEN "settle"
                    ELSE IF op[c] = "Update"
                    THEN IF ok THEN "updStopped" ELSE "updStopFailed"
                    ELSE "start")
         /\ UNCHANGED <<lifecycleMu, op, tgt, failing, daemonVars>>
    ELSE Return(c, ok)

\* What a caller does once startAndSync() has returned.
AfterStart(c, ok) ==
    IF op[c] = "Update"
    THEN /\ Goto(c, IF ok THEN "updStarted" ELSE "updStartFailed")
         /\ failing' = [failing EXCEPT ![c] = FALSE]
         /\ UNCHANGED <<lifecycleMu, op, tgt, daemonVars>>
    ELSE Return(c, ok)

\* start() returns an error: both network locks go.
StartError(c) ==
    /\ AfterStart(c, FALSE)
    /\ UnlockNetwork
    /\ UNCHANGED <<svcVars, procVars>>

\* startAndSync() meets an error after the launch: failStartup.
FailStartup(c) ==
    /\ Goto(c, "failStartup")
    /\ failing' = [failing EXCEPT ![c] = TRUE]
    /\ UNCHANGED <<op, tgt>>

\* protectCoreTransition: nothing to do without a route-managing core; an
\* unsupported host is skipped unless device protection is required.
Protected == runningTUN \/ configTUN
\* Mutant: the guard follows the configuration, not the core that runs.
ProtectConfigOnly(ok) ==
    /\ guard' = (guard \/ configTUN) /\ forced' = (forced /\ ~configTUN)
    /\ UNCHANGED <<dns, residue, dirty, configTUN>>
ProtectCoreTransition(ok) ==
    \/ /\ ~Protected /\ ok
       /\ UNCHANGED hostVars
    \/ /\ Protected /\ GuardSupported /\ ok
       /\ guard' = TRUE /\ forced' = FALSE
       /\ UNCHANGED <<dns, residue, dirty, configTUN>>
    \/ /\ Protected /\ ~GuardSupported /\ ~ProtectionRequired /\ ok
       /\ UNCHANGED hostVars
    \/ /\ ~ok
       /\ UNCHANGED hostVars

\* recoverStoppedStateDetailed: a running core makes it skip everything; the
\* cleanup, the device DNS and the dnsmasq restore fail independently, and the
\* device protection before or the DNS flush after them may fail as well.
RecoverStoppedState(ok) ==
    \/ /\ Up # {} /\ ok
       /\ dirty' = (dirty \/ dns # {} \/ residue)
       /\ UNCHANGED <<dns, residue>>
    \/ /\ Up = {}
       /\ \E d \in SUBSET dns, r \in {FALSE, residue} :
            /\ dns' = d /\ residue' = r
            /\ ok => d = {} /\ ~r
       /\ dirty' = ~ok
    \/ /\ Up # {} /\ ~ok
       /\ dirty' = TRUE
       /\ UNCHANGED <<dns, residue>>
-----------------------------------------------------------------------------
(* Entry points. A caller that waits for lifecycleMu has read nothing, so  *)
(* the call and the lock are one step, except in PrepareShutdown, which    *)
(* asks IsRunning before it calls Shutdown.                                *)

Enter(c, o) ==
    /\ booted /\ pc[c] = "idle" /\ lifecycleMu = None
    /\ o \in {"ReloadConfig", "ProtectForAppUpdate"} => IsRunning
    /\ lifecycleMu' = c
    /\ op' = [op EXCEPT ![c] = o]
    /\ Goto(c, CASE o = "Start" -> "start"
                 [] o = "Stop" -> "stop"
                 [] o = "ProtectForAppUpdate" -> "protect"
                 [] OTHER -> "validate")
    /\ UNCHANGED <<tgt, failing, networkMu, flock, svcVars, procVars, hostVars,
                   daemonVars>>

PrepareShutdown(c) ==
    /\ booted /\ pc[c] = "idle" /\ closing = "no" /\ ~InStart
    /\ IF IsRunning
       THEN /\ Goto(c, "shutdown") /\ closing' = "stopping"
            /\ op' = [op EXCEPT ![c] = "Shutdown"]
       ELSE closing' = "stopped" /\ UNCHANGED <<pc, op>>
    /\ UNCHANGED <<tgt, failing, lockVars, svcVars, procVars, hostVars,
                   repair, booted, crashes, foreign>>

Shutdown(c) ==
    /\ pc[c] = "shutdown" /\ lifecycleMu = None
    /\ lifecycleMu' = c
    /\ Goto(c, IF IsRunning THEN "protect" ELSE "stop")
    /\ UNCHANGED <<op, tgt, failing, networkMu, flock,
                   svcVars, procVars, hostVars, daemonVars>>

\* restart: the replacement configuration is checked before the core stops.
ValidateActiveConfig(c) ==
    /\ pc[c] = "validate"
    /\ \/ /\ Goto(c, "protect")
          /\ UNCHANGED <<lifecycleMu, op, tgt, failing, daemonVars>>
       \/ Return(c, FALSE)
    /\ UNCHANGED <<networkMu, flock, svcVars, procVars, hostVars>>

Protect(c) ==
    /\ pc[c] = "protect"
    /\ \E ok \in BOOLEAN :
        /\ ProtectCoreTransition(ok)
        /\ IF ok /\ op[c] # "ProtectForAppUpdate"
           THEN /\ Goto(c, IF op[c] = "Update" THEN "updStop" ELSE "stop")
                /\ UNCHANGED <<lifecycleMu, op, tgt, failing, daemonVars>>
           ELSE Return(c, ok)
    /\ UNCHANGED <<networkMu, flock, svcVars, procVars>>

-----------------------------------------------------------------------------
(* stop(): mark, signal, then wait for the exit goroutine's done channel.  *)

StopBegin(c) ==
    /\ pc[c] = "stop"
    /\ IF IsRunning
       THEN /\ stopping' = TRUE
            /\ tgt' = [tgt EXCEPT ![c] = cmd]
            /\ Goto(c, "signal")
            /\ UNCHANGED <<lifecycleMu, op, failing, daemonVars>>
       ELSE AfterStop(c, FALSE) /\ UNCHANGED stopping
    /\ UNCHANGED <<networkMu, flock, cmd, runningTUN, transitionHeld,
                   procVars, hostVars>>

\* Signals reach a process until its Wait has returned; afterwards both the
\* graceful request and the kill fail, and stop() returns with stopping set.
StopSignal(c) ==
    /\ pc[c] = "signal"
    /\ IF waiter[tgt[c]] = "wait"
       THEN /\ Goto(c, "await")
            /\ UNCHANGED <<lifecycleMu, op, tgt, failing, daemonVars>>
       ELSE AfterStop(c, FALSE)
    /\ UNCHANGED <<networkMu, flock, svcVars, procVars, hostVars>>

StopDone(c) ==
    /\ pc[c] \in {"await", "await2"}
    /\ done[tgt[c]] # "empty"
    /\ AfterStop(c, done[tgt[c]] = "ok")
    /\ UNCHANGED <<networkMu, flock, svcVars, procVars, hostVars>>

\* Mutant: a core that ignores SIGTERM is waited for without a limit.
StopNoTimeout(c) ==
    /\ pc[c] = "await2"
    /\ AfterStop(c, FALSE)
    /\ UNCHANGED <<networkMu, flock, svcVars, procVars, hostVars>>

\* Ten seconds without an answer: SIGKILL; two more: give up.
StopTimeout(c) ==
    /\ \/ /\ pc[c] = "await"
          /\ killed' = killed \cup {tgt[c]}
          /\ Goto(c, "await2")
          /\ UNCHANGED <<lifecycleMu, op, tgt, failing, daemonVars>>
       \/ /\ pc[c] = "await2"
          /\ AfterStop(c, FALSE)
          /\ UNCHANGED killed
    /\ UNCHANGED <<networkMu, flock, svcVars, proc, managed, coreConfig, waiter,
                   done, cancelled, readied, hostVars>>

-----------------------------------------------------------------------------
(* start(), under lifecycleMu, networkLifecycleMu and the file lock.       *)

StartLock(c) ==
    /\ pc[c] = "start" /\ networkMu = None
    /\ networkMu' = c
    /\ Goto(c, "startFlock")
    /\ UNCHANGED <<op, tgt, failing, lifecycleMu, flock,
                   svcVars, procVars, hostVars, daemonVars>>

\* Mutant: networkLifecycleMu stays locked when the file lock fails.
StartFlockLeak(c) ==
    /\ pc[c] = "startFlock"
    /\ \/ /\ flock = None
          /\ flock' = c
          /\ Goto(c, "check")
          /\ UNCHANGED <<networkMu, lifecycleMu, op, tgt, failing, daemonVars>>
       \/ AfterStart(c, FALSE) /\ UNCHANGED <<networkMu, flock>>
    /\ UNCHANGED <<svcVars, procVars, hostVars>>

StartFlock(c) ==
    /\ pc[c] = "startFlock"
    /\ \/ /\ flock = None
          /\ flock' = c
          /\ Goto(c, "check")
          /\ UNCHANGED <<networkMu, lifecycleMu, op, tgt, failing, daemonVars>>
       \/ /\ networkMu' = None
          /\ AfterStart(c, FALSE)
          /\ UNCHANGED flock
    /\ UNCHANGED <<svcVars, procVars, hostVars>>

\* Mutant: start() does not ask whether a core is managed or being stopped.
StartCheckNothing(c) ==
    /\ pc[c] = "check"
    /\ Goto(c, "guardStart")
    /\ UNCHANGED <<op, tgt, failing, lockVars, svcVars, procVars, daemonVars,
                   hostVars>>

\* Refuse while a core runs or is being stopped; then device protection, the
\* binary and the configuration are checked, each of which may fail.
StartCheck(c) ==
    /\ pc[c] = "check"
    /\ \/ /\ ~stopping /\ ~IsRunning
          /\ Goto(c, "guardStart")
          /\ UNCHANGED <<op, tgt, failing, lockVars, svcVars, procVars, daemonVars>>
       \/ StartError(c)
    /\ UNCHANGED hostVars

\* Mutant: recoverBeforeStart and the check of startRecoveredCore are left out.
StartNoRecovery(c) ==
    /\ pc[c] = "guardStart"
    /\ Goto(c, "launch")
    /\ UNCHANGED <<op, tgt, failing, lockVars, svcVars, procVars, daemonVars,
                   hostVars>>

StartGuard(c) ==
    /\ pc[c] = "guardStart"
    /\ \E ok \in BOOLEAN :
        /\ ProtectCoreTransition(ok)
        /\ IF ok
           THEN /\ Goto(c, "stopExisting")
                /\ UNCHANGED <<op, tgt, failing, lockVars, svcVars, procVars,
                               daemonVars>>
           ELSE StartError(c)

\* stopPlatformSingboxForStart ends every sing-box process of the host, or
\* fails having ended some of them.
StartStopExisting(c) ==
    /\ pc[c] = "stopExisting"
    /\ \E dead \in SUBSET Up :
        /\ proc' = [i \in Procs |-> IF i \in dead THEN "dead" ELSE proc[i]]
        /\ \/ /\ dead = Up
              /\ Goto(c, "recover")
              /\ UNCHANGED <<op, tgt, failing, lockVars, daemonVars>>
           \/ AfterStart(c, FALSE) /\ UnlockNetwork
    /\ UNCHANGED <<svcVars, managed, coreConfig, killed, waiter, done, cancelled,
                   readied, hostVars>>

\* Mutant: a failed cleanup does not keep the core from starting.
StartRecoverAnyway(c) ==
    /\ pc[c] = "recover"
    /\ \E ok \in BOOLEAN : RecoverStoppedState(ok)
    /\ Goto(c, "verify")
    /\ UNCHANGED <<op, tgt, failing, lockVars, svcVars, procVars, daemonVars,
                   guard, forced, configTUN>>

StartRecover(c) ==
    /\ pc[c] = "recover"
    /\ \E ok \in BOOLEAN :
        /\ RecoverStoppedState(ok)
        /\ IF ok /\ Up = {}
           THEN /\ Goto(c, "verify")
                /\ UNCHANGED <<op, tgt, failing, lockVars, svcVars, procVars,
                               daemonVars>>
           ELSE StartError(c)
    /\ UNCHANGED <<guard, forced, configTUN>>

\* The TUN state is read and pending ownership written; then /proc is looked at
\* once more immediately before the launch. The label keeps what was read:
\* nothing here keeps the configuration from being replaced.
StartVerify(c) ==
    /\ pc[c] = "verify"
    /\ \/ /\ Up = {}
          /\ Goto(c, IF configTUN THEN "launchTUN" ELSE "launch")
          /\ UNCHANGED <<op, tgt, failing, lockVars, svcVars, procVars, daemonVars>>
       \/ StartError(c)
    /\ UNCHANGED hostVars

StartLaunch(c) ==
    /\ pc[c] \in {"launch", "launchTUN"}
    /\ \/ \E i \in FirstUnused :
            /\ proc' = [proc EXCEPT ![i] = "up"]
            /\ managed' = managed \cup {i}
            /\ waiter' = [waiter EXCEPT ![i] = "wait"]
            /\ cmd' = i /\ stopping' = FALSE
            /\ runningTUN' = (pc[c] = "launchTUN")
            /\ tgt' = [tgt EXCEPT ![c] = i]
            /\ Goto(c, "ready")
            /\ UnlockNetwork
            /\ UNCHANGED <<lifecycleMu, op, failing, transitionHeld, coreConfig,
                           killed, done, cancelled, readied, daemonVars>>
       \/ StartError(c)
    /\ UNCHANGED hostVars

\* The core reads the configuration, and takes routes over if that says so. A
\* process that was sent SIGKILL does nothing more.
CoreReadsConfig(i) ==
    /\ i \in managed \ killed /\ proc[i] = "up" /\ coreConfig[i] = "unread"
    /\ coreConfig' = [coreConfig EXCEPT ![i] = IF configTUN THEN "tun" ELSE "other"]
    /\ residue' = (residue \/ configTUN)
    /\ UNCHANGED <<callerVars, lockVars, svcVars, proc, managed, killed, waiter,
                   done, cancelled, readied, guard, dns, dirty, forced, configTUN,
                   daemonVars>>

-----------------------------------------------------------------------------
(* startAndSync() after the launch.                                        *)

Wanted == IF runningTUN THEN Takeovers ELSE {}

WaitReady(c) ==
    /\ pc[c] = "ready"
    /\ \/ /\ proc[tgt[c]] = "up" /\ tgt[c] \notin cancelled
          /\ coreConfig[tgt[c]] # "unread"
          /\ readied' = readied \cup {tgt[c]}
          /\ Goto(c, IF "dnsmasq" \in Wanted THEN "dnsLock" ELSE "after")
          /\ UNCHANGED <<op, tgt, failing>>
       \/ FailStartup(c) /\ UNCHANGED readied
    /\ UNCHANGED <<lockVars, svcVars, proc, managed, coreConfig, killed, waiter,
                   done, cancelled, hostVars, daemonVars>>

\* activateDNSMasq and activateDeviceDNS: lock, lock the file, look at the
\* context, write.
LockAt  == [dnsmasq |-> "dnsLock",  device |-> "devLock"]
FlockAt == [dnsmasq |-> "dnsFlock", device |-> "devFlock"]
WriteAt == [dnsmasq |-> "dnsWrite", device |-> "devWrite"]

ActivateLock(c, t) ==
    /\ pc[c] = LockAt[t] /\ networkMu = None
    /\ networkMu' = c
    /\ Goto(c, FlockAt[t])
    /\ UNCHANGED <<op, tgt, failing, lifecycleMu, flock,
                   svcVars, procVars, hostVars, daemonVars>>

ActivateFlock(c, t) ==
    /\ pc[c] = FlockAt[t]
    /\ \/ /\ flock = None
          /\ flock' = c
          /\ Goto(c, WriteAt[t])
          /\ UNCHANGED <<op, tgt, failing, networkMu>>
       \/ /\ FailStartup(c)
          /\ networkMu' = None
          /\ UNCHANGED flock
    /\ UNCHANGED <<lifecycleMu, svcVars, procVars, hostVars, daemonVars>>

\* Mutant: the context is not looked at under the lock.
ActivateBlind(c, t) ==
    /\ pc[c] = WriteAt[t]
    /\ UnlockNetwork
    /\ dns' = dns \cup {t}
    /\ Goto(c, IF t = "dnsmasq" THEN "after" ELSE "mark")
    /\ UNCHANGED <<op, tgt, failing, lifecycleMu, svcVars, procVars, guard, residue,
                   dirty, forced, configTUN, daemonVars>>

Activate(c, t) ==
    /\ pc[c] = WriteAt[t]
    /\ UnlockNetwork
    /\ \/ /\ tgt[c] \notin cancelled
          /\ dns' = dns \cup {t}
          /\ Goto(c, IF t = "dnsmasq" THEN "after" ELSE "mark")
          /\ UNCHANGED <<op, tgt, failing>>
       \/ /\ FailStartup(c)
          /\ dns' \in {dns, IF tgt[c] \in cancelled THEN dns ELSE dns \cup {t}}
    /\ UNCHANGED <<lifecycleMu, svcVars, procVars, guard, residue, dirty,
                   forced, configTUN, daemonVars>>

\* afterStart: SyncRuntime talks to the core's runtime API.
AfterStartHook(c) ==
    /\ pc[c] = "after"
    /\ \/ /\ proc[tgt[c]] = "up"
          /\ Goto(c, IF "device" \in Wanted THEN "devLock" ELSE "mark")
          /\ UNCHANGED <<op, tgt, failing>>
       \/ FailStartup(c)
    /\ UNCHANGED <<lockVars, svcVars, procVars, hostVars, daemonVars>>

\* Mutant: markStarted does not check that the core is still there.
MarkAlways(c) ==
    /\ pc[c] = "mark"
    /\ guard' = FALSE
    /\ AfterStart(c, TRUE)
    /\ UNCHANGED <<networkMu, flock, svcVars, procVars, dns, residue, dirty,
                   forced, configTUN>>

\* markStarted: the guard goes only here, and not while an update holds it.
MarkStarted(c) ==
    /\ pc[c] = "mark"
    /\ \/ /\ ~IsRunning \/ stopping
          /\ AfterStart(c, FALSE)
          /\ UNCHANGED guard
       \/ /\ IsRunning /\ ~stopping
          /\ guard' = (guard /\ transitionHeld)
          /\ AfterStart(c, TRUE)
       \/ /\ IsRunning /\ ~stopping /\ ~transitionHeld
          /\ AfterStart(c, FALSE)
          /\ UNCHANGED guard
    /\ UNCHANGED <<networkMu, flock, svcVars, procVars, dns, residue, dirty,
                   forced, configTUN>>

FailStartupStop(c) ==
    /\ pc[c] = "failStartup"
    /\ Goto(c, IF IsRunning THEN "stop" ELSE "settle")
    /\ UNCHANGED <<op, tgt, failing, lockVars, svcVars, procVars, hostVars,
                   daemonVars>>

\* waitUntilStopped: returns once the core has settled or after its timeout;
\* failStartup returns an error either way.
Settle(c) ==
    /\ pc[c] = "settle"
    /\ AfterStart(c, FALSE)
    /\ UNCHANGED <<networkMu, flock, svcVars, procVars, hostVars>>

-----------------------------------------------------------------------------
(* The exit goroutine of process i.                                        *)

\* cmd.Wait returns and processExited is closed.
WaiterReap(i) ==
    /\ waiter[i] = "wait" /\ proc[i] = "dead"
    /\ waiter' = [waiter EXCEPT ![i] = "exited"]
    /\ cancelled' = IF CancelLag THEN cancelled ELSE cancelled \cup {i}
    /\ UNCHANGED <<callerVars, lockVars, svcVars, proc, managed, coreConfig, killed,
                   done, readied, hostVars, daemonVars>>

\* coreStartupContext: a goroutine of its own turns processExited into the
\* cancellation of the startup context.
CancelContext(i) ==
    /\ waiter[i] \notin {"none", "wait"} /\ i \notin cancelled
    /\ cancelled' = cancelled \cup {i}
    /\ UNCHANGED <<callerVars, lockVars, svcVars, proc, managed, coreConfig, killed,
                   waiter, done, readied, hostVars, daemonVars>>

WaiterLock(i) ==
    /\ waiter[i] = "exited" /\ networkMu = None
    /\ networkMu' = i
    /\ waiter' = [waiter EXCEPT ![i] = "flock"]
    /\ UNCHANGED <<callerVars, lifecycleMu, flock, svcVars, proc, managed,
                   coreConfig, killed, done, cancelled, readied, hostVars,
                   daemonVars>>

WaiterFlock(i) ==
    /\ waiter[i] = "flock"
    /\ \/ /\ flock = None
          /\ flock' = i
          /\ waiter' = [waiter EXCEPT ![i] = "detach"]
       \/ /\ waiter' = [waiter EXCEPT ![i] = "detachErr"]
          /\ UNCHANGED flock
    /\ UNCHANGED <<callerVars, lifecycleMu, networkMu, svcVars, proc, managed,
                   coreConfig, killed, done, cancelled, readied, hostVars,
                   daemonVars>>

\* The service forgets the process but stays in stopping until the cleanup.
WaiterDetach(i) ==
    /\ waiter[i] \in {"detach", "detachErr"}
    /\ IF cmd = i THEN stopping' = TRUE /\ cmd' = 0 ELSE UNCHANGED <<stopping, cmd>>
    /\ waiter' = [waiter EXCEPT ![i] = IF @ = "detach" THEN "clean" ELSE "cleanErr"]
    /\ UNCHANGED <<callerVars, lockVars, runningTUN, transitionHeld, proc, managed,
                   coreConfig, killed, done, cancelled, readied, hostVars,
                   daemonVars>>

\* cleanupAfterProcessExit: without the file lock nothing is cleaned.
WaiterClean(i) ==
    /\ \/ /\ waiter[i] = "clean"
          /\ \E ok \in BOOLEAN :
                /\ RecoverStoppedState(ok)
                /\ waiter' = [waiter EXCEPT ![i] = IF ok THEN "ok" ELSE "err"]
       \/ /\ waiter[i] = "cleanErr"
          /\ dirty' = TRUE
          /\ waiter' = [waiter EXCEPT ![i] = "err"]
          /\ UNCHANGED <<dns, residue>>
    /\ UNCHANGED <<callerVars, lockVars, svcVars, proc, managed, coreConfig, killed,
                   done, cancelled, readied, guard, forced, configTUN, daemonVars>>

\* Mutants: the service stays in stopping; done gets no cleanup result.
WaiterKeepsStopping(i) ==
    /\ waiter[i] \in {"ok", "err"}
    /\ networkMu' = None
    /\ flock' = IF flock = i THEN None ELSE flock
    /\ done' = [done EXCEPT ![i] = waiter[i]]
    /\ waiter' = [waiter EXCEPT ![i] = "finished"]
    /\ UNCHANGED <<callerVars, lifecycleMu, svcVars, proc, managed, coreConfig,
                   killed, cancelled, readied, hostVars, daemonVars>>
WaiterNoResult(i) ==
    /\ waiter[i] \in {"ok", "err"}
    /\ stopping' = FALSE
    /\ networkMu' = None
    /\ flock' = IF flock = i THEN None ELSE flock
    /\ done' = [done EXCEPT ![i] = "finished"]
    /\ waiter' = [waiter EXCEPT ![i] = "finished"]
    /\ UNCHANGED <<callerVars, lifecycleMu, cmd, runningTUN, transitionHeld, proc,
                   managed, coreConfig, killed, cancelled, readied, hostVars,
                   daemonVars>>

\* stopping is cleared, the locks are released and done gets the result.
WaiterFinish(i) ==
    /\ waiter[i] \in {"ok", "err"}
    /\ stopping' = FALSE
    /\ networkMu' = None
    /\ flock' = IF flock = i THEN None ELSE flock
    /\ done' = [done EXCEPT ![i] = waiter[i]]
    /\ waiter' = [waiter EXCEPT ![i] = "finished"]
    /\ UNCHANGED <<callerVars, lifecycleMu, cmd, runningTUN, transitionHeld, proc,
                   managed, coreConfig, killed, cancelled, readied, hostVars,
                   daemonVars>>
-----------------------------------------------------------------------------
(* The network-repair command, a process of its own that shares only the   *)
(* file lock. Forced repair first ends every core, before it locks.        *)

RepairStart(mode) ==
    /\ repair = "idle"
    /\ repair' = mode
    /\ IF mode = "force"
       THEN proc' = [i \in Procs |-> IF i \in Up THEN "dead" ELSE proc[i]]
       ELSE UNCHANGED proc
    /\ UNCHANGED <<callerVars, lockVars, svcVars, managed, coreConfig, killed,
                   waiter, done, cancelled, readied, hostVars, booted, closing,
                   crashes, foreign>>

\* Mutant: a forced repair takes the cores it ended for all there are.
RepairRecoverTrusting ==
    /\ repair \in {"plain", "force"} /\ flock = None
    /\ \E ok \in BOOLEAN :
        /\ RecoverStoppedState(ok)
        /\ IF ok /\ repair = "force"
           THEN repair' = "guard" /\ flock' = Repairer
           ELSE repair' = "idle" /\ UNCHANGED flock
    /\ UNCHANGED <<callerVars, lifecycleMu, networkMu, svcVars, procVars, guard,
                   forced, configTUN, booted, closing, crashes, foreign>>

RepairRecover ==
    /\ repair \in {"plain", "force"} /\ flock = None
    /\ \E ok \in BOOLEAN :
        /\ RecoverStoppedState(ok)
        /\ IF ok /\ Up = {} /\ repair = "force"
           THEN repair' = "guard" /\ flock' = Repairer
           ELSE repair' = "idle" /\ UNCHANGED flock
    /\ UNCHANGED <<callerVars, lifecycleMu, networkMu, svcVars, procVars, guard,
                   forced, configTUN, booted, closing, crashes, foreign>>

\* Only a forced repair opts back into direct networking without a core.
RepairGuard ==
    /\ repair = "guard"
    /\ \/ guard' = FALSE /\ forced' = (forced \/ guard)
       \/ UNCHANGED <<guard, forced>>
    /\ repair' = "idle" /\ flock' = None
    /\ UNCHANGED <<callerVars, lifecycleMu, networkMu, svcVars, procVars, dns,
                   residue, dirty, configTUN, booted, closing, crashes, foreign>>

-----------------------------------------------------------------------------
(* The host and the backend process.                                       *)

\* A core exits: it crashed, obeyed SIGTERM or was killed.
CoreExits(i) ==
    /\ proc[i] = "up"
    /\ proc' = [proc EXCEPT ![i] = "dead"]
    /\ UNCHANGED <<callerVars, lockVars, svcVars, managed, coreConfig, killed,
                   waiter, done, cancelled, readied, hostVars, daemonVars>>

\* Another supervisor starts a core this service does not know.
ForeignCore ==
    /\ foreign < MaxForeign
    /\ foreign' = foreign + 1
    /\ \E i \in FirstUnused : proc' = [proc EXCEPT ![i] = "up"]
    /\ UNCHANGED <<callerVars, lockVars, svcVars, managed, coreConfig, killed,
                   waiter, done, cancelled, readied, hostVars, repair, booted,
                   closing, crashes>>

\* Another active configuration is applied or selected, with no lock that a
\* start holds all the time.
ConfigApplied ==
    /\ booted
    /\ configTUN' \in TUNs \ {configTUN}
    /\ coreConfig' = [i \in Procs |-> IF coreConfig[i] = "tun" THEN "other"
                                                            ELSE coreConfig[i]]
    /\ UNCHANGED <<callerVars, lockVars, svcVars, proc, managed, killed, waiter,
                   done, cancelled, readied, guard, dns, residue, dirty, forced,
                   daemonVars>>

\* Everything in memory is gone: goroutines, mutexes, the file lock if the
\* backend held it. Processes and host state stay.
BackendGone ==
    /\ booted' = FALSE
    /\ pc' = [c \in Callers |-> "idle"] /\ op' = [c \in Callers |-> "Start"]
    /\ tgt' = [c \in Callers |-> 0] /\ failing' = [c \in Callers |-> FALSE]
    /\ lifecycleMu' = None /\ networkMu' = None
    /\ flock' = IF flock = Repairer THEN flock ELSE None
    /\ cmd' = 0 /\ stopping' = FALSE /\ runningTUN' = FALSE /\ transitionHeld' = FALSE
    /\ waiter' = [i \in Procs |-> "none"]
    /\ done' = [i \in Procs |-> "empty"]
    /\ cancelled' = {}
    /\ dirty' = (dirty \/ dns # {} \/ residue \/ Up \cap managed # {})
    /\ UNCHANGED <<proc, managed, coreConfig, killed, readied, guard, dns, residue,
                   forced, configTUN, repair, foreign>>

BackendCrash ==
    /\ booted /\ crashes < MaxCrashes
    /\ crashes' = crashes + 1
    /\ closing' = "no"
    /\ BackendGone

\* main returns: PrepareShutdown is over and the HTTP server has drained its
\* requests or stopped waiting for them.
BackendExit ==
    /\ booted /\ closing \in {"stopped", "failed"}
    /\ closing' = IF closing = "stopped" THEN "exited" ELSE "no"
    /\ BackendGone
    /\ UNCHANGED crashes

\* application.New runs RecoverStaleState before anything else; an error is
\* only logged.
RecoverStaleState ==
    /\ ~booted /\ flock = None
    /\ booted' = TRUE /\ closing' = "no"
    /\ \E ok \in BOOLEAN : RecoverStoppedState(ok)
    /\ UNCHANGED <<callerVars, lockVars, svcVars, procVars, guard, forced,
                   configTUN, repair, crashes, foreign>>

-----------------------------------------------------------------------------
CallerStep(c) ==
    \/ Shutdown(c) \/ ValidateActiveConfig(c) \/ Protect(c)
    \/ StopBegin(c) \/ StopSignal(c) \/ StopDone(c) \/ StopTimeout(c)
    \/ StartLock(c) \/ StartFlock(c) \/ StartCheck(c) \/ StartGuard(c)
    \/ StartStopExisting(c) \/ StartRecover(c) \/ StartVerify(c) \/ StartLaunch(c)
    \/ WaitReady(c) \/ AfterStartHook(c) \/ MarkStarted(c)
    \/ FailStartupStop(c) \/ Settle(c)
    \/ \E t \in AllTakeovers :
        ActivateLock(c, t) \/ ActivateFlock(c, t) \/ Activate(c, t)

WaiterStep(i) ==
    \/ WaiterReap(i) \/ WaiterLock(i) \/ WaiterFlock(i)
    \/ WaiterDetach(i) \/ WaiterClean(i) \/ WaiterFinish(i)

RepairStep == RepairRecover \/ RepairGuard

Next ==
    \/ \E c \in Callers :
        \/ \E o \in Ops \ {"Shutdown", "Update"} : Enter(c, o)
        \/ "Shutdown" \in Ops /\ PrepareShutdown(c)
        \/ CallerStep(c)
    \/ \E i \in Procs : \/ WaiterStep(i) \/ CancelContext(i)
                       \/ CoreReadsConfig(i) \/ CoreExits(i)
    \/ \E mode \in RepairModes : RepairStart(mode)
    \/ RepairStep
    \/ ForeignCore \/ ConfigApplied
    \/ BackendCrash \/ BackendExit \/ RecoverStaleState

Spec == Init /\ [][Next]_vars

\* Scheduling. Go hands a mutex to a goroutine that has waited long enough and
\* flock queues its waiters, so a step that keeps becoming possible is taken;
\* timers fire, and a process that was sent SIGKILL dies.
Fairness ==
    /\ \A c \in Callers : SF_vars(CallerStep(c))
    /\ \A i \in Procs : /\ SF_vars(WaiterStep(i))
                        /\ WF_vars(CancelContext(i))
                        /\ WF_vars(i \in killed /\ CoreExits(i))
    /\ SF_vars(RepairStep)
    /\ SF_vars(RecoverStaleState)

FairSpec == Spec /\ Fairness

-----------------------------------------------------------------------------
(* Properties.                                                             *)

CallerLabels ==
    {"idle", "shutdown", "validate", "protect", "stop", "signal", "await", "await2",
     "start", "startFlock", "check", "guardStart", "stopExisting", "recover",
     "verify", "launch", "launchTUN", "ready", "dnsLock", "dnsFlock", "dnsWrite",
     "after", "devLock", "devFlock", "devWrite", "mark", "failStartup", "settle",
     "updStop", "updStopped", "updStopFailed", "updStarted", "updStartFailed"}
WaiterLabels == {"none", "wait", "exited", "flock", "detach", "detachErr", "clean",
                 "cleanErr", "ok", "err", "finished"}

TypeCallers ==
    /\ pc \in [Callers -> CallerLabels] /\ op \in [Callers -> AllOps]
    /\ tgt \in [Callers -> 0..MaxProcs] /\ failing \in [Callers -> BOOLEAN]
TypeLocks ==
    /\ lifecycleMu \in Callers \cup {None}
    /\ networkMu \in Callers \cup Procs \cup {None}
    /\ flock \in Callers \cup Procs \cup {None, Repairer}
TypeService ==
    /\ cmd \in 0..MaxProcs
    /\ stopping \in BOOLEAN /\ runningTUN \in BOOLEAN /\ transitionHeld \in BOOLEAN
TypeProcs ==
    /\ proc \in [Procs -> {"unused", "up", "dead"}]
    /\ coreConfig \in [Procs -> {"unread", "tun", "other"}]
    /\ managed \subseteq Procs /\ killed \subseteq 0..MaxProcs
    /\ cancelled \subseteq Procs /\ readied \subseteq 0..MaxProcs
    /\ waiter \in [Procs -> WaiterLabels]
    /\ done \in [Procs -> {"empty", "ok", "err"}]
TypeHost ==
    /\ guard \in BOOLEAN /\ residue \in BOOLEAN /\ dirty \in BOOLEAN
    /\ forced \in BOOLEAN /\ configTUN \in BOOLEAN
    /\ dns \subseteq AllTakeovers
TypeDaemon ==
    /\ booted \in BOOLEAN
    /\ repair \in {"idle", "plain", "force", "guard"}
    /\ closing \in {"no", "stopping", "stopped", "failed", "exited"}
    /\ crashes \in 0..MaxCrashes /\ foreign \in 0..MaxForeign

\* Type invariant of the service, its goroutines and the host.
TypeOK == TypeCallers /\ TypeLocks /\ TypeService /\ TypeProcs /\ TypeHost /\ TypeDaemon

\* "a failed stop or cleanup must never launch a second one": of the cores this
\* service ever launched at most one runs, whatever stop() timed out on, and
\* also when one was left behind by a backend that died.
OneManagedCore ==
    \A i, j \in Up \cap managed : i = j

\* A core is launched only onto a host that an earlier one has left clean: no
\* DNS takeover, no routes, no failed recovery (recoverBeforeStart).
LaunchOnCleanHost ==
    [][managed' # managed => dns = {} /\ ~residue /\ ~dirty]_vars

Pending == {"wait", "exited", "flock", "detach", "detachErr", "clean", "cleanErr"}

\* "Keep activation serialized with exit cleanup so cleanup cannot restore DNS
\* before activation has finished": once no core runs, a DNS takeover or a
\* route of a core is left on the host only if some exit goroutine has yet to
\* clean it, or a recovery that failed, was skipped or is due says so.
NoSilentResidue ==
    dns # {} \/ residue =>
        Up # {} \/ dirty \/ \E i \in Procs : waiter[i] \in Pending

\* "Without a ready recovered core, it remains in place": the guard is removed
\* only for a core that passed its readiness probe and is not being stopped,
\* or by a forced network repair.
GuardNeedsReadyCore ==
    [][guard /\ ~guard' =>
        \/ forced'
        \/ cmd \in readied /\ ~stopping]_vars

\* ErrNetworkRepairCoreRunning: the repair command touches routes, DNS takeovers
\* and the guard only while no core of the service runs, also if the backend has
\* launched one between the forced kill and the command's turn at the file lock.
RepairSparesCore ==
    [][repair # repair' /\ <<guard, dns, residue>> # <<guard, dns, residue>>'
        => Up \cap managed = {}]_vars

\* While restart, reload or shutdown takes a route-managing core down, from
\* before the stop until the next start has its own protection, the guard is
\* installed, unless the host cannot or a forced repair removed it. A core
\* manages routes if start() read so before the launch, whatever the
\* configuration says now, or if the core itself read so and that
\* configuration was active until the guard was asked for.
TransitionGuarded ==
    \A c \in Callers :
        /\ op[c] \in {"Restart", "ReloadConfig", "Shutdown"}
        /\ pc[c] \in {"signal", "await", "await2", "start", "startFlock",
                      "check", "guardStart"}
        /\ runningTUN \/ coreConfig[tgt[c]] = "tun"
        /\ ~failing[c] /\ GuardSupported
        => guard \/ forced

\* A caller that is past stop() in a restart never finds the old core alive:
\* the exit goroutine has finished, so no late cleanup can undo the next start.
StoppedMeansCleaned ==
    \A c \in Callers, i \in Procs :
        /\ pc[c] \in StartLabels \ {"check"}
        /\ waiter[i] # "none"
        => waiter[i] = "finished"

\* Every operation returns: no caller waits forever for a lock, for the core or
\* for the exit goroutine.
OperationsReturn ==
    \A c \in Callers : (pc[c] # "idle") ~> (pc[c] = "idle")

\* A service that is stopping gets out of it, also after stop() gave up.
StoppingEnds == stopping ~> ~stopping

\* The exit of a core is always noticed and cleaned up after.
ExitHandled ==
    \A i \in Procs : (waiter[i] = "wait" /\ proc[i] = "dead") ~>
                     (waiter[i] \in {"finished", "none"})

\* "PrepareShutdown stops background work and the managed core": a backend that
\* exited after a PrepareShutdown without error has left no core running.
ExitLeavesNoCore ==
    closing = "exited" => Up \cap managed = {}
=============================================================================
