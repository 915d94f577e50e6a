------------------------ MODULE CoreLifecycleProofs ------------------------
(***************************************************************************)
(* Theorems about CoreLifecycle for any set of callers and any bounds. The *)
(* type invariant comes first, part by part, then the invariant that makes *)
(* "at most one managed core" inductive.                                   *)
(***************************************************************************)
EXTENDS CoreLifecycle, TLAPS

-----------------------------------------------------------------------------
(* The program counters.                                                   *)

\* A jump to a label keeps pc a function into the labels.
LEMMA GotoType ==
    ASSUME TypeCallers, NEW c \in Callers, NEW l \in CallerLabels, Goto(c, l)
    PROVE  pc' \in [Callers -> CallerLabels]
BY DEF TypeCallers, Goto

\* A step of a caller that only moves its program counter keeps the types.
LEMMA MoveType ==
    ASSUME TypeCallers, NEW c \in Callers, NEW l \in CallerLabels, Goto(c, l),
           UNCHANGED <<op, tgt, failing>>
    PROVE  TypeCallers'
BY GotoType DEF TypeCallers

\* Return(c, ok), the end of an operation, keeps the types.
LEMMA ReturnType ==
    ASSUME TypeCallers, NEW c \in Callers, NEW ok, Return(c, ok)
    PROVE  TypeCallers'
<1>1. "idle" \in CallerLabels BY DEF CallerLabels
<1>2. pc' \in [Callers -> CallerLabels] BY <1>1, GotoType DEF Return
<1>3. op' \in [Callers -> AllOps] BY DEF Return, TypeCallers, AllOps
<1>4. 0 \in 0..MaxProcs BY BoundsAssumption
<1>5. tgt' \in [Callers -> 0..MaxProcs] BY <1>4 DEF Return, TypeCallers
<1>6. failing' \in [Callers -> BOOLEAN] BY DEF Return, TypeCallers
<1> QED BY <1>2, <1>3, <1>5, <1>6 DEF TypeCallers

\* What follows stop() keeps the types.
LEMMA AfterStopType ==
    ASSUME TypeCallers, NEW c \in Callers, NEW ok, AfterStop(c, ok)
    PROVE  TypeCallers'
<1> DEFINE L == {"settle", "updStopped", "updStopFailed", "start"}
<1>1. L \subseteq CallerLabels BY DEF CallerLabels
<1>2. CASE Return(c, ok) BY <1>2, ReturnType
<1>3. CASE ~Return(c, ok)
  <2>1. \E l \in L : Goto(c, l) BY <1>3 DEF AfterStop
  <2>2. UNCHANGED <<op, tgt, failing>> BY <1>3 DEF AfterStop
  <2> QED BY <1>1, <2>1, <2>2, MoveType
<1> QED BY <1>2, <1>3

\* What follows startAndSync() keeps the types.
LEMMA AfterStartType ==
    ASSUME TypeCallers, NEW c \in Callers, NEW ok, AfterStart(c, ok)
    PROVE  TypeCallers'
<1> DEFINE L == {"updStarted", "updStartFailed"}
<1>1. L \subseteq CallerLabels BY DEF CallerLabels
<1>2. CASE Return(c, ok) BY <1>2, ReturnType
<1>3. CASE ~Return(c, ok)
  <2>1. \E l \in L : Goto(c, l) BY <1>3 DEF AfterStart
  <2>2. pc' \in [Callers -> CallerLabels] BY <1>1, <2>1, GotoType
  <2>3. failing' \in [Callers -> BOOLEAN] BY Zenon, <1>3 DEF AfterStart, TypeCallers
  <2> QED BY <1>3, <2>2, <2>3 DEF AfterStart, TypeCallers
<1> QED BY <1>2, <1>3

\* failStartup keeps the types.
LEMMA FailStartupType ==
    ASSUME TypeCallers, NEW c \in Callers, FailStartup(c)
    PROVE  TypeCallers'
<1>1. "failStartup" \in CallerLabels BY DEF CallerLabels
<1>2. pc' \in [Callers -> CallerLabels] BY <1>1, GotoType DEF FailStartup
<1>3. failing' \in [Callers -> BOOLEAN] BY DEF FailStartup, TypeCallers
<1> QED BY <1>2, <1>3 DEF FailStartup, TypeCallers

\* Every step of a caller keeps the types of the program counters.
LEMMA CallerControl ==
    ASSUME TypeOK, NEW c \in Callers, CallerStep(c)
    PROVE  TypeCallers'
<1> USE DEF TypeOK
<1> DEFINE Move(L) == (\E l \in L : Goto(c, l)) /\ UNCHANGED <<op, tgt, failing>>
<1>a. ASSUME NEW L, L \subseteq CallerLabels, Move(L) PROVE TypeCallers'
  BY <1>a, MoveType
<1> HIDE DEF Move
<1>1. CASE Shutdown(c)
  <2>1. {"protect", "stop"} \subseteq CallerLabels BY DEF CallerLabels
  <2>2. Move({"protect", "stop"}) BY <1>1 DEF Shutdown, Move
  <2> QED BY <1>a, <2>1, <2>2
<1>2. CASE ValidateActiveConfig(c)
  <2>1. {"protect"} \subseteq CallerLabels BY DEF CallerLabels
  <2>2. Move({"protect"}) \/ (\E ok : Return(c, ok)) BY Zenon, <1>2 DEF ValidateActiveConfig, Move
  <2> QED BY <1>a, <2>1, <2>2, ReturnType
<1>3. CASE Protect(c)
  <2>1. {"updStop", "stop"} \subseteq CallerLabels BY DEF CallerLabels
  <2>2. Move({"updStop", "stop"}) \/ (\E ok : Return(c, ok)) BY <1>3 DEF Protect, Move
  <2> QED BY <1>a, <2>1, <2>2, ReturnType
<1>4. CASE StopBegin(c)
  <2>1. CASE \E ok : AfterStop(c, ok) BY <2>1, AfterStopType
  <2>2. CASE Goto(c, "signal") /\ UNCHANGED <<op, failing>> /\ tgt' = [tgt EXCEPT ![c] = cmd]
    <3>1. "signal" \in CallerLabels BY DEF CallerLabels
    <3>2. pc' \in [Callers -> CallerLabels] BY <2>2, <3>1, GotoType
    <3>3. tgt' \in [Callers -> 0..MaxProcs] BY <2>2, BoundsAssumption DEF TypeCallers,
        TypeService, Procs
    <3> QED BY <2>2, <3>2, <3>3 DEF TypeCallers
  <2> QED BY Zenon, <1>4, <2>1, <2>2 DEF StopBegin
<1>5. CASE StopSignal(c)
  <2>1. {"await"} \subseteq CallerLabels BY DEF CallerLabels
  <2>2. Move({"await"}) \/ (\E ok : AfterStop(c, ok)) BY Zenon, <1>5 DEF StopSignal, Move
  <2> QED BY <1>a, <2>1, <2>2, AfterStopType
<1>6. CASE StopDone(c)
  <2>1. \E ok : AfterStop(c, ok) BY <1>6 DEF StopDone
  <2> QED BY <2>1, AfterStopType
<1>7. CASE StopTimeout(c)
  <2>1. {"await2"} \subseteq CallerLabels BY DEF CallerLabels
  <2>2. Move({"await2"}) \/ (\E ok : AfterStop(c, ok)) BY Zenon, <1>7 DEF StopTimeout, Move
  <2> QED BY <1>a, <2>1, <2>2, AfterStopType
<1>8. CASE StartLock(c)
  <2>1. {"startFlock"} \subseteq CallerLabels BY DEF CallerLabels
  <2>2. Move({"startFlock"}) BY <1>8 DEF StartLock, Move
  <2> QED BY <1>a, <2>1, <2>2
<1>9. CASE StartFlock(c)
  <2>1. {"check"} \subseteq CallerLabels BY DEF CallerLabels
  <2>2. Move({"check"}) \/ (\E ok : AfterStart(c, ok)) BY Zenon, <1>9 DEF StartFlock, Move
  <2> QED BY <1>a, <2>1, <2>2, AfterStartType
<1>10. CASE StartCheck(c)
  <2>1. {"guardStart"} \subseteq CallerLabels BY DEF CallerLabels
  <2>2. Move({"guardStart"}) \/ (\E ok : AfterStart(c, ok)) BY Zenon, <1>10 DEF StartCheck,
      StartError, Move
  <2> QED BY <1>a, <2>1, <2>2, AfterStartType
<1>11. CASE StartGuard(c)
  <2>1. {"stopExisting"} \subseteq CallerLabels BY DEF CallerLabels
  <2>2. Move({"stopExisting"}) \/ (\E ok : AfterStart(c, ok)) BY Zenon, <1>11 DEF StartGuard,
      StartError, Move
  <2> QED BY <1>a, <2>1, <2>2, AfterStartType
<1>12. CASE StartStopExisting(c)
  <2>1. {"recover"} \subseteq CallerLabels BY DEF CallerLabels
  <2>2. Move({"recover"}) \/ (\E ok : AfterStart(c, ok)) BY Zenon, <1>12 DEF StartStopExisting, Move
  <2> QED BY <1>a, <2>1, <2>2, AfterStartType
<1>13. CASE StartRecover(c)
  <2>1. {"verify"} \subseteq CallerLabels BY DEF CallerLabels
  <2>2. Move({"verify"}) \/ (\E ok : AfterStart(c, ok)) BY Zenon, <1>13 DEF StartRecover,
      StartError, Move
  <2> QED BY <1>a, <2>1, <2>2, AfterStartType
<1>14. CASE StartVerify(c)
  <2>1. {"launch", "launchTUN"} \subseteq CallerLabels BY DEF CallerLabels
  <2>2. Move({"launch", "launchTUN"}) \/ (\E ok : AfterStart(c, ok))
    <3>1. CASE StartError(c) BY Zenon, <3>1 DEF StartError
    <3>2. CASE ~StartError(c) BY <1>14, <3>2 DEF StartVerify, Move
    <3> QED BY <3>1, <3>2
  <2> QED BY <1>a, <2>1, <2>2, AfterStartType
<1>15. CASE StartLaunch(c)
  <2>1. CASE \E ok : AfterStart(c, ok) BY <2>1, AfterStartType
  <2>2. CASE Goto(c, "ready") /\ UNCHANGED <<op,
      failing>> /\ \E i \in Procs : tgt' = [tgt EXCEPT ![c] = i]
    <3>1. "ready" \in CallerLabels BY DEF CallerLabels
    <3>2. pc' \in [Callers -> CallerLabels] BY <2>2, <3>1, GotoType
    <3>3. tgt' \in [Callers -> 0..MaxProcs] BY <2>2, BoundsAssumption DEF TypeCallers,
        TypeService, Procs
    <3> QED BY <2>2, <3>2, <3>3 DEF TypeCallers
  <2> QED BY Zenon, <1>15, <2>1, <2>2 DEF StartLaunch, StartError, FirstUnused
<1>16. CASE WaitReady(c)
  <2>1. {"dnsLock", "after"} \subseteq CallerLabels BY DEF CallerLabels
  <2>2. Move({"dnsLock", "after"}) \/ FailStartup(c) BY <1>16 DEF WaitReady, Move
  <2> QED BY <1>a, <2>1, <2>2, FailStartupType
<1>17. CASE AfterStartHook(c)
  <2>1. {"devLock", "mark"} \subseteq CallerLabels BY DEF CallerLabels
  <2>2. Move({"devLock", "mark"}) \/ FailStartup(c) BY <1>17 DEF AfterStartHook, Move
  <2> QED BY <1>a, <2>1, <2>2, FailStartupType
<1>18. CASE MarkStarted(c)
  <2>1. \E ok : AfterStart(c, ok) BY Zenon, <1>18 DEF MarkStarted
  <2> QED BY <2>1, AfterStartType
<1>19. CASE FailStartupStop(c)
  <2>1. {"stop", "settle"} \subseteq CallerLabels BY DEF CallerLabels
  <2>2. Move({"stop", "settle"}) BY <1>19 DEF FailStartupStop, Move
  <2> QED BY <1>a, <2>1, <2>2
<1>20. CASE Settle(c)
  <2>1. \E ok : AfterStart(c, ok) BY Zenon, <1>20 DEF Settle
  <2> QED BY <2>1, AfterStartType
<1>21. ASSUME NEW t \in AllTakeovers, ActivateLock(c, t) PROVE TypeCallers'
  <2>1. {"dnsFlock", "devFlock"} \subseteq CallerLabels BY DEF CallerLabels
  <2>2. Move({"dnsFlock", "devFlock"}) BY <1>21 DEF ActivateLock, Move, FlockAt, AllTakeovers
  <2> QED BY <1>a, <2>1, <2>2
<1>22. ASSUME NEW t \in AllTakeovers, ActivateFlock(c, t) PROVE TypeCallers'
  <2>1. {"dnsWrite", "devWrite"} \subseteq CallerLabels BY DEF CallerLabels
  <2>2. Move({"dnsWrite", "devWrite"}) \/ FailStartup(c) BY <1>22 DEF ActivateFlock, Move,
      WriteAt, AllTakeovers
  <2> QED BY <1>a, <2>1, <2>2, FailStartupType
<1>23. ASSUME NEW t \in AllTakeovers, Activate(c, t) PROVE TypeCallers'
  <2>1. {"after", "mark"} \subseteq CallerLabels BY DEF CallerLabels
  <2>2. Move({"after", "mark"}) \/ FailStartup(c) BY <1>23 DEF Activate, Move
  <2> QED BY <1>a, <2>1, <2>2, FailStartupType
<1> QED
  BY <1>1, <1>2, <1>3, <1>4, <1>5, <1>6, <1>7, <1>8, <1>9, <1>10, <1>11, <1>12,
     <1>13, <1>14, <1>15, <1>16, <1>17, <1>18, <1>19, <1>20, <1>21, <1>22, <1>23 DEF CallerStep

-----------------------------------------------------------------------------
(* The other parts of the type invariant.                                  *)

Rest == TypeLocks /\ TypeService /\ TypeProcs /\ TypeHost /\ TypeDaemon

\* protectCoreTransition and recoverStoppedState keep the types of the host.
LEMMA ProtectType ==
    ASSUME TypeHost, NEW ok, ProtectCoreTransition(ok)
    PROVE  TypeHost'
BY Zenon DEF TypeHost, ProtectCoreTransition, hostVars

LEMMA RecoverType ==
    ASSUME TypeHost, NEW ok \in BOOLEAN, RecoverStoppedState(ok),
           UNCHANGED <<guard, forced, configTUN>>
    PROVE  TypeHost'
BY Zenon DEF TypeHost, RecoverStoppedState

\* The ends of operations, of stop() and of startAndSync() release lifecycleMu
\* or leave it alone, and keep the types of the backend's state.
LEMMA EndType ==
    ASSUME TypeOK, NEW c \in Callers, NEW ok,
           Return(c, ok) \/ AfterStop(c, ok) \/ AfterStart(c, ok)
    PROVE  TypeDaemon' /\ lifecycleMu' \in {None, lifecycleMu}
<1>1. CASE Return(c, ok) BY <1>1 DEF Return, TypeOK, TypeDaemon
<1>2. CASE UNCHANGED <<lifecycleMu, daemonVars>>
  BY SMTT(30), <1>2 DEF daemonVars, TypeOK, TypeDaemon
<1> QED BY <1>1, <1>2 DEF AfterStop, AfterStart

\* Every step of a caller keeps the types of locks, service, processes, host
\* and backend.
LEMMA CallerRest ==
    ASSUME TypeOK, NEW c \in Callers, CallerStep(c)
    PROVE  Rest'
<1> USE DEF TypeOK, Rest, lockVars, svcVars, procVars, hostVars, daemonVars
<1>1. CASE Shutdown(c)
  <2>1. TypeLocks' /\ TypeDaemon' BY <1>1 DEF Shutdown, TypeLocks, TypeDaemon
  <2>2. TypeService' /\ TypeProcs' BY <1>1 DEF Shutdown, TypeService, TypeProcs
  <2>3. TypeHost' BY <1>1 DEF Shutdown, TypeHost
  <2> QED BY <2>1, <2>2, <2>3
<1>2. CASE ValidateActiveConfig(c)
  <2>1. TypeLocks' /\ TypeDaemon' BY Zenon, <1>2, EndType DEF ValidateActiveConfig, TypeLocks,
      TypeDaemon
  <2>2. TypeService' /\ TypeProcs' BY <1>2 DEF ValidateActiveConfig, TypeService, TypeProcs
  <2>3. TypeHost' BY <1>2 DEF ValidateActiveConfig, TypeHost
  <2> QED BY <2>1, <2>2, <2>3
<1>3. CASE Protect(c)
  <2>1. TypeLocks' /\ TypeDaemon' BY <1>3, EndType DEF Protect, TypeLocks, TypeDaemon
  <2>2. TypeService' /\ TypeProcs' BY <1>3 DEF Protect, TypeService, TypeProcs
  <2>3. TypeHost' BY <1>3, ProtectType DEF Protect
  <2> QED BY <2>1, <2>2, <2>3
<1>4. CASE StopBegin(c)
  <2>1. TypeLocks' /\ TypeDaemon' BY Zenon, <1>4, EndType DEF StopBegin, TypeLocks, TypeDaemon
  <2>2. TypeService' /\ TypeProcs' BY Zenon, <1>4 DEF StopBegin, TypeService, TypeProcs
  <2>3. TypeHost' BY <1>4 DEF StopBegin, TypeHost
  <2> QED BY <2>1, <2>2, <2>3
<1>5. CASE StopSignal(c)
  <2>1. TypeLocks' /\ TypeDaemon' BY Zenon, <1>5, EndType DEF StopSignal, TypeLocks, TypeDaemon
  <2>2. TypeService' /\ TypeProcs' BY <1>5 DEF StopSignal, TypeService, TypeProcs
  <2>3. TypeHost' BY <1>5 DEF StopSignal, TypeHost
  <2> QED BY <2>1, <2>2, <2>3
<1>6. CASE StopDone(c)
  <2>1. TypeLocks' /\ TypeDaemon' BY <1>6, EndType DEF StopDone, TypeLocks, TypeDaemon
  <2>2. TypeService' /\ TypeProcs' BY <1>6 DEF StopDone, TypeService, TypeProcs
  <2>3. TypeHost' BY Zenon, <1>6 DEF StopDone, TypeHost
  <2> QED BY <2>1, <2>2, <2>3
<1>7. CASE StopTimeout(c)
  <2>1. TypeLocks' /\ TypeDaemon' BY Zenon, <1>7, EndType DEF StopTimeout, TypeLocks, TypeDaemon
  <2>2. TypeService' BY Zenon, <1>7 DEF StopTimeout, TypeService
  <2>3. tgt[c] \in 0..MaxProcs BY DEF TypeCallers
  <2>4. TypeProcs' BY Zenon, <1>7, <2>3 DEF StopTimeout, TypeProcs
  <2>5. TypeHost' BY Zenon, <1>7 DEF StopTimeout, TypeHost
  <2> QED BY <2>1, <2>2, <2>4, <2>5
<1>8. CASE StartLock(c)
  <2>1. TypeLocks' /\ TypeDaemon' BY <1>8 DEF StartLock, TypeLocks, TypeDaemon
  <2>2. TypeService' /\ TypeProcs' BY <1>8 DEF StartLock, TypeService, TypeProcs
  <2>3. TypeHost' BY <1>8 DEF StartLock, TypeHost
  <2> QED BY <2>1, <2>2, <2>3
<1>9. CASE StartFlock(c)
  <2>1. TypeLocks' /\ TypeDaemon' BY Zenon, <1>9, EndType DEF StartFlock, TypeLocks, TypeDaemon
  <2>2. TypeService' /\ TypeProcs' BY <1>9 DEF StartFlock, TypeService, TypeProcs
  <2>3. TypeHost' BY <1>9 DEF StartFlock, TypeHost
  <2> QED BY <2>1, <2>2, <2>3
<1>10. CASE StartCheck(c)
  <2>1. TypeLocks' /\ TypeDaemon' BY Zenon, <1>10, EndType DEF StartCheck, StartError,
      UnlockNetwork, TypeLocks, TypeDaemon
  <2>2. TypeService' /\ TypeProcs' BY Zenon, <1>10 DEF StartCheck, StartError, TypeService,
      TypeProcs
  <2>3. TypeHost' BY <1>10 DEF StartCheck, StartError, TypeHost
  <2> QED BY <2>1, <2>2, <2>3
<1>11. CASE StartGuard(c)
  <2>1. TypeLocks' /\ TypeDaemon' BY Zenon, <1>11, EndType DEF StartGuard, StartError,
      UnlockNetwork, TypeLocks, TypeDaemon
  <2>2. TypeService' /\ TypeProcs' BY Zenon, <1>11 DEF StartGuard, StartError, TypeService,
      TypeProcs
  <2>3. TypeHost' BY <1>11, ProtectType DEF StartGuard
  <2> QED BY <2>1, <2>2, <2>3
<1>12. CASE StartStopExisting(c)
  <2>1. TypeLocks' /\ TypeDaemon' BY Zenon, <1>12, EndType DEF StartStopExisting, UnlockNetwork,
      TypeLocks, TypeDaemon
  <2>2. TypeService' /\ TypeProcs' BY <1>12 DEF StartStopExisting, TypeService, TypeProcs
  <2>3. TypeHost' BY <1>12 DEF StartStopExisting, TypeHost
  <2> QED BY <2>1, <2>2, <2>3
<1>13. CASE StartRecover(c)
  <2>1. TypeLocks' /\ TypeDaemon' BY Zenon, <1>13, EndType DEF StartRecover, StartError,
      UnlockNetwork, TypeLocks, TypeDaemon
  <2>2. TypeService' /\ TypeProcs' BY Zenon, <1>13 DEF StartRecover, StartError, TypeService,
      TypeProcs
  <2>3. TypeHost' BY <1>13, RecoverType DEF StartRecover
  <2> QED BY <2>1, <2>2, <2>3
<1>14. CASE StartVerify(c)
  <2>1. TypeLocks' /\ TypeDaemon' BY Zenon, <1>14, EndType DEF StartVerify, StartError,
      UnlockNetwork, TypeLocks, TypeDaemon
  <2>2. TypeService' /\ TypeProcs' BY Zenon, <1>14 DEF StartVerify, StartError, TypeService,
      TypeProcs
  <2>3. TypeHost' BY <1>14 DEF StartVerify, StartError, TypeHost
  <2> QED BY <2>1, <2>2, <2>3
<1>15. CASE StartLaunch(c)
  <2>1. TypeLocks' /\ TypeDaemon' BY Zenon, <1>15, EndType DEF StartLaunch, StartError,
      UnlockNetwork, TypeLocks, TypeDaemon
  <2>2. TypeService'
    <3>1. CASE UNCHANGED svcVars BY <3>1 DEF TypeService
    <3>2. ASSUME NEW i \in Procs, cmd' = i, stopping' = FALSE, runningTUN' = (pc[c] = "launchTUN"),
                 UNCHANGED transitionHeld
          PROVE TypeService'
      <4>1. cmd' \in 0..MaxProcs BY <3>2, BoundsAssumption DEF Procs
      <4>2. runningTUN' \in BOOLEAN BY <3>2
      <4> QED BY Zenon, <3>2, <4>1, <4>2 DEF TypeService
    <3> QED BY Zenon, <1>15, <3>1, <3>2 DEF StartLaunch, StartError, FirstUnused
  <2>3. TypeProcs'
    <3>1. CASE UNCHANGED procVars BY <3>1 DEF TypeProcs
    <3>2. ASSUME NEW i \in Procs, proc' = [proc EXCEPT ![i] = "up"], managed' = managed \cup {i},
                 waiter' = [waiter EXCEPT ![i] = "wait"], UNCHANGED <<coreConfig, killed, done,
                     cancelled, readied>>
          PROVE TypeProcs'
      BY <3>2 DEF TypeProcs, WaiterLabels
    <3> QED BY Zenon, <1>15, <3>1, <3>2 DEF StartLaunch, StartError, FirstUnused
  <2>4. TypeHost' BY Zenon, <1>15 DEF StartLaunch, StartError, TypeHost
  <2> QED BY <2>1, <2>2, <2>3, <2>4
<1>16. CASE WaitReady(c)
  <2>1. TypeLocks' /\ TypeDaemon' BY Zenon, <1>16 DEF WaitReady, TypeLocks, TypeDaemon
  <2>2. TypeService' BY <1>16 DEF WaitReady, TypeService
  <2>3. tgt[c] \in 0..MaxProcs BY DEF TypeCallers
  <2>4. TypeProcs' BY Zenon, <1>16, <2>3 DEF WaitReady, TypeProcs
  <2>5. TypeHost' BY <1>16 DEF WaitReady, TypeHost
  <2> QED BY <2>1, <2>2, <2>4, <2>5
<1>17. CASE AfterStartHook(c)
  <2>1. TypeLocks' /\ TypeDaemon' BY <1>17 DEF AfterStartHook, TypeLocks, TypeDaemon
  <2>2. TypeService' /\ TypeProcs' BY <1>17 DEF AfterStartHook, TypeService, TypeProcs
  <2>3. TypeHost' BY <1>17 DEF AfterStartHook, TypeHost
  <2> QED BY <2>1, <2>2, <2>3
<1>18. CASE MarkStarted(c)
  <2>1. TypeLocks' /\ TypeDaemon' BY Zenon, <1>18, EndType DEF MarkStarted, TypeLocks, TypeDaemon
  <2>2. TypeService' /\ TypeProcs' BY <1>18 DEF MarkStarted, TypeService, TypeProcs
  <2>3. TypeHost' BY Zenon, <1>18 DEF MarkStarted, TypeHost
  <2> QED BY <2>1, <2>2, <2>3
<1>19. CASE FailStartupStop(c)
  <2>1. TypeLocks' /\ TypeDaemon' BY <1>19 DEF FailStartupStop, TypeLocks, TypeDaemon
  <2>2. TypeService' /\ TypeProcs' BY <1>19 DEF FailStartupStop, TypeService, TypeProcs
  <2>3. TypeHost' BY <1>19 DEF FailStartupStop, TypeHost
  <2> QED BY <2>1, <2>2, <2>3
<1>20. CASE Settle(c)
  <2>1. TypeLocks' /\ TypeDaemon' BY Zenon, <1>20, EndType DEF Settle, TypeLocks, TypeDaemon
  <2>2. TypeService' /\ TypeProcs' BY <1>20 DEF Settle, TypeService, TypeProcs
  <2>3. TypeHost' BY <1>20 DEF Settle, TypeHost
  <2> QED BY <2>1, <2>2, <2>3
<1>21. ASSUME NEW t \in AllTakeovers, ActivateLock(c, t) PROVE Rest'
  <2>1. TypeLocks' /\ TypeDaemon' BY <1>21 DEF ActivateLock, TypeLocks, TypeDaemon
  <2>2. TypeService' /\ TypeProcs' BY <1>21 DEF ActivateLock, TypeService, TypeProcs
  <2>3. TypeHost' BY <1>21 DEF ActivateLock, TypeHost
  <2> QED BY <2>1, <2>2, <2>3
<1>22. ASSUME NEW t \in AllTakeovers, ActivateFlock(c, t) PROVE Rest'
  <2>1. TypeLocks' /\ TypeDaemon' BY <1>22 DEF ActivateFlock, TypeLocks, TypeDaemon
  <2>2. TypeService' /\ TypeProcs' BY <1>22 DEF ActivateFlock, TypeService, TypeProcs
  <2>3. TypeHost' BY <1>22 DEF ActivateFlock, TypeHost
  <2> QED BY <2>1, <2>2, <2>3
<1>23. ASSUME NEW t \in AllTakeovers, Activate(c, t) PROVE Rest'
  <2>1. TypeLocks' /\ TypeDaemon' BY <1>23 DEF Activate, UnlockNetwork, TypeLocks, TypeDaemon
  <2>2. TypeService' /\ TypeProcs' BY Zenon, <1>23 DEF Activate, TypeService, TypeProcs
  <2>3. TypeHost' BY Zenon, <1>23 DEF Activate, TypeHost
  <2> QED BY <2>1, <2>2, <2>3
<1> QED
  BY <1>1, <1>2, <1>3, <1>4, <1>5, <1>6, <1>7, <1>8, <1>9, <1>10, <1>11, <1>12,
     <1>13, <1>14, <1>15, <1>16, <1>17, <1>18, <1>19, <1>20, <1>21, <1>22, <1>23 DEF CallerStep

-----------------------------------------------------------------------------
(* The actions that are not steps of a caller.                             *)

\* The entry points keep the types.
LEMMA EntryType ==
    ASSUME TypeOK, NEW c \in Callers
    PROVE  /\ (\E o \in Ops \ {"Shutdown", "Update"} : Enter(c, o)) => TypeOK'
           /\ PrepareShutdown(c) => TypeOK'
<1> USE DEF TypeOK, lockVars, svcVars, procVars, hostVars, daemonVars
<1>1. ASSUME NEW o \in Ops \ {"Shutdown", "Update"}, Enter(c, o) PROVE TypeOK'
  <2> DEFINE L == {"start", "stop", "protect", "validate"}
  <2>1. L \subseteq CallerLabels BY DEF CallerLabels
  <2>2. \E l \in L : Goto(c, l)
    <3>1. CASE o = "Start" BY <1>1, <3>1 DEF Enter
    <3>2. CASE o = "Stop" BY <1>1, <3>2 DEF Enter
    <3>3. CASE o = "ProtectForAppUpdate" BY <1>1, <3>3 DEF Enter
    <3>4. CASE o \notin {"Start", "Stop", "ProtectForAppUpdate"} BY <1>1, <3>4 DEF Enter
    <3> QED BY <3>1, <3>2, <3>3, <3>4
  <2>3. pc' \in [Callers -> CallerLabels] BY <2>1, <2>2, GotoType
  <2>4. op' \in [Callers -> AllOps] BY <1>1, SwitchAssumption DEF Enter, TypeCallers
  <2>5. TypeCallers' BY <1>1, <2>3, <2>4 DEF Enter, TypeCallers
  <2>6. TypeLocks' BY <1>1 DEF Enter, TypeLocks
  <2>7. TypeService' /\ TypeProcs' BY <1>1 DEF Enter, TypeService, TypeProcs
  <2>8. TypeHost' /\ TypeDaemon' BY <1>1 DEF Enter, TypeHost, TypeDaemon
  <2> QED BY <2>5, <2>6, <2>7, <2>8
<1>2. ASSUME PrepareShutdown(c) PROVE TypeOK'
  <2>1. "shutdown" \in CallerLabels /\ "Shutdown" \in AllOps BY DEF CallerLabels, AllOps
  <2>2. pc' \in [Callers -> CallerLabels] BY <1>2, <2>1, GotoType DEF PrepareShutdown, TypeCallers
  <2>3. op' \in [Callers -> AllOps] BY <1>2, <2>1 DEF PrepareShutdown, TypeCallers
  <2>4. TypeCallers' BY <1>2, <2>2, <2>3 DEF PrepareShutdown, TypeCallers
  <2>5. TypeLocks' /\ TypeDaemon' BY <1>2 DEF PrepareShutdown, TypeLocks, TypeDaemon
  <2>6. TypeService' /\ TypeProcs' BY <1>2 DEF PrepareShutdown, TypeService, TypeProcs
  <2>7. TypeHost' BY <1>2 DEF PrepareShutdown, TypeHost
  <2> QED BY <2>4, <2>5, <2>6, <2>7
<1> QED BY <1>1, <1>2

\* The exit goroutine, the context goroutine and the core itself keep them.
LEMMA ProcType ==
    ASSUME TypeOK, NEW i \in Procs,
           WaiterStep(i) \/ CancelContext(i) \/ CoreReadsConfig(i) \/ CoreExits(i)
    PROVE  TypeOK'
<1> USE DEF TypeOK, callerVars, lockVars, svcVars, procVars, hostVars, daemonVars
<1>1. CASE WaiterReap(i)
  <2>1. TypeCallers' /\ TypeDaemon' BY <1>1 DEF WaiterReap, TypeCallers, TypeDaemon
  <2>2. TypeLocks' /\ TypeService' BY <1>1 DEF WaiterReap, TypeLocks, TypeService
  <2>3. TypeProcs' BY <1>1 DEF WaiterReap, TypeProcs, WaiterLabels
  <2>4. TypeHost' BY <1>1 DEF WaiterReap, TypeHost
  <2> QED BY <2>1, <2>2, <2>3, <2>4
<1>2. CASE WaiterLock(i)
  <2>1. TypeCallers' /\ TypeDaemon' BY <1>2 DEF WaiterLock, TypeCallers, TypeDaemon
  <2>2. TypeLocks' /\ TypeService' BY <1>2 DEF WaiterLock, TypeLocks, TypeService
  <2>3. TypeProcs' BY <1>2 DEF WaiterLock, TypeProcs, WaiterLabels
  <2>4. TypeHost' BY <1>2 DEF WaiterLock, TypeHost
  <2> QED BY <2>1, <2>2, <2>3, <2>4
<1>3. CASE WaiterFlock(i)
  <2>1. TypeCallers' /\ TypeDaemon' BY <1>3 DEF WaiterFlock, TypeCallers, TypeDaemon
  <2>2. TypeLocks' /\ TypeService' BY <1>3 DEF WaiterFlock, TypeLocks, TypeService
  <2>3. TypeProcs' BY <1>3 DEF WaiterFlock, TypeProcs, WaiterLabels
  <2>4. TypeHost' BY <1>3 DEF WaiterFlock, TypeHost
  <2> QED BY <2>1, <2>2, <2>3, <2>4
<1>4. CASE WaiterDetach(i)
  <2>1. TypeCallers' /\ TypeDaemon' BY <1>4 DEF WaiterDetach, TypeCallers, TypeDaemon
  <2>z. cmd' \in 0..MaxProcs BY <1>4, BoundsAssumption DEF WaiterDetach, TypeService
  <2>s. stopping' \in BOOLEAN BY Zenon, <1>4 DEF WaiterDetach, TypeService
  <2>2. TypeLocks' /\ TypeService' BY <1>4, <2>z, <2>s DEF WaiterDetach, TypeLocks, TypeService
  <2>3. TypeProcs' BY <1>4 DEF WaiterDetach, TypeProcs, WaiterLabels
  <2>4. TypeHost' BY <1>4 DEF WaiterDetach, TypeHost
  <2> QED BY <2>1, <2>2, <2>3, <2>4
<1>5. CASE WaiterClean(i)
  <2>1. TypeCallers' /\ TypeDaemon' BY <1>5 DEF WaiterClean, TypeCallers, TypeDaemon
  <2>2. TypeLocks' /\ TypeService' BY <1>5 DEF WaiterClean, TypeLocks, TypeService
  <2>3. TypeProcs'
    <3>1. \E l \in {"ok", "err"} : waiter' = [waiter EXCEPT ![i] = l] BY <1>5 DEF WaiterClean
    <3>2. waiter' \in [Procs -> WaiterLabels] BY <3>1 DEF TypeProcs, WaiterLabels
    <3> QED BY <1>5, <3>2 DEF WaiterClean, TypeProcs
  <2>4. TypeHost' BY Zenon, <1>5, RecoverType DEF WaiterClean, TypeHost
  <2> QED BY <2>1, <2>2, <2>3, <2>4
<1>6. CASE WaiterFinish(i)
  <2>1. TypeCallers' /\ TypeDaemon' BY <1>6 DEF WaiterFinish, TypeCallers, TypeDaemon
  <2>2. TypeLocks' /\ TypeService' BY Zenon, <1>6 DEF WaiterFinish, TypeLocks, TypeService
  <2>3. TypeProcs'
    <3>1. done' \in [Procs -> {"empty", "ok", "err"}] BY <1>6 DEF WaiterFinish, TypeProcs
    <3>2. waiter' \in [Procs -> WaiterLabels] BY <1>6 DEF WaiterFinish, TypeProcs, WaiterLabels
    <3> QED BY <1>6, <3>1, <3>2 DEF WaiterFinish, TypeProcs
  <2>4. TypeHost' BY <1>6 DEF WaiterFinish, TypeHost
  <2> QED BY <2>1, <2>2, <2>3, <2>4
<1>7. CASE CancelContext(i)
  <2>1. TypeCallers' /\ TypeDaemon' BY <1>7 DEF CancelContext, TypeCallers, TypeDaemon
  <2>2. TypeLocks' /\ TypeService' BY <1>7 DEF CancelContext, TypeLocks, TypeService
  <2>3. TypeProcs' BY <1>7 DEF CancelContext, TypeProcs, WaiterLabels
  <2>4. TypeHost' BY <1>7 DEF CancelContext, TypeHost
  <2> QED BY <2>1, <2>2, <2>3, <2>4
<1>8. CASE CoreExits(i)
  <2>1. TypeCallers' /\ TypeDaemon' BY <1>8 DEF CoreExits, TypeCallers, TypeDaemon
  <2>2. TypeLocks' /\ TypeService' BY <1>8 DEF CoreExits, TypeLocks, TypeService
  <2>3. TypeProcs' BY <1>8 DEF CoreExits, TypeProcs, WaiterLabels
  <2>4. TypeHost' BY <1>8 DEF CoreExits, TypeHost
  <2> QED BY <2>1, <2>2, <2>3, <2>4
<1>9. CASE CoreReadsConfig(i)
  <2>1. TypeCallers' /\ TypeDaemon' BY <1>9 DEF CoreReadsConfig, TypeCallers, TypeDaemon
  <2>2. TypeLocks' /\ TypeService' BY <1>9 DEF CoreReadsConfig, TypeLocks, TypeService
  <2>3. TypeProcs' BY <1>9 DEF CoreReadsConfig, TypeProcs
  <2>4. TypeHost' BY Zenon, <1>9 DEF CoreReadsConfig, TypeHost
  <2> QED BY <2>1, <2>2, <2>3, <2>4
<1> QED BY <1>1, <1>2, <1>3, <1>4, <1>5, <1>6, <1>7, <1>8, <1>9 DEF WaiterStep

\* The repair command, the host and the backend process keep them.
LEMMA HostType ==
    ASSUME TypeOK,
           \/ \E mode \in RepairModes : RepairStart(mode)
           \/ RepairStep \/ ForeignCore \/ ConfigApplied
           \/ BackendCrash \/ BackendExit \/ RecoverStaleState
    PROVE  TypeOK'
<1> USE DEF TypeOK, callerVars, lockVars, svcVars, procVars, hostVars, daemonVars
<1>1. ASSUME NEW mode \in RepairModes, RepairStart(mode) PROVE TypeOK'
  <2>1. TypeCallers' /\ TypeLocks' /\ TypeService' BY <1>1 DEF RepairStart, TypeCallers,
      TypeLocks, TypeService
  <2>2. TypeProcs' BY <1>1 DEF RepairStart, TypeProcs
  <2>3. TypeHost' /\ TypeDaemon' BY <1>1, SwitchAssumption DEF RepairStart, TypeHost, TypeDaemon
  <2> QED BY <2>1, <2>2, <2>3
<1>2. CASE RepairRecover
  <2>1. TypeCallers' /\ TypeLocks' /\ TypeService' BY <1>2 DEF RepairRecover, TypeCallers,
      TypeLocks, TypeService
  <2>2. TypeProcs' /\ TypeDaemon' BY <1>2 DEF RepairRecover, TypeProcs, TypeDaemon
  <2>3. TypeHost' BY <1>2, RecoverType DEF RepairRecover
  <2> QED BY <2>1, <2>2, <2>3
<1>3. CASE RepairGuard
  <2>1. TypeCallers' /\ TypeLocks' /\ TypeService' BY <1>3 DEF RepairGuard, TypeCallers,
      TypeLocks, TypeService
  <2>2. TypeProcs' /\ TypeDaemon' BY <1>3 DEF RepairGuard, TypeProcs, TypeDaemon
  <2>3. TypeHost' BY Zenon, <1>3 DEF RepairGuard, TypeHost
  <2> QED BY <2>1, <2>2, <2>3
<1>4. CASE ForeignCore
  <2>1. TypeCallers' /\ TypeLocks' /\ TypeService' /\ TypeHost' BY <1>4 DEF ForeignCore,
      TypeCallers, TypeLocks, TypeService, TypeHost
  <2>2. TypeProcs' BY <1>4 DEF ForeignCore, FirstUnused, TypeProcs
  <2>3. TypeDaemon' BY <1>4, BoundsAssumption DEF ForeignCore, TypeDaemon
  <2> QED BY <2>1, <2>2, <2>3
<1>5. CASE ConfigApplied
  <2>1. TypeCallers' /\ TypeLocks' /\ TypeService' BY <1>5 DEF ConfigApplied, TypeCallers,
      TypeLocks, TypeService
  <2>2. TypeProcs' /\ TypeDaemon' BY <1>5 DEF ConfigApplied, TypeProcs, TypeDaemon
  <2>3. TypeHost' BY <1>5, SwitchAssumption DEF ConfigApplied, TypeHost
  <2> QED BY <2>1, <2>2, <2>3
<1>b. ASSUME BackendGone PROVE TypeCallers' /\ TypeLocks' /\ TypeService' /\ TypeProcs' /\ TypeHost'
  <2>1. pc' \in [Callers -> CallerLabels] BY <1>b DEF BackendGone, CallerLabels
  <2>2. op' \in [Callers -> AllOps] BY <1>b DEF BackendGone, AllOps
  <2>3. TypeCallers' BY <1>b, <2>1, <2>2, BoundsAssumption DEF BackendGone, TypeCallers
  <2>z. cmd' \in 0..MaxProcs BY <1>b, BoundsAssumption DEF BackendGone
  <2>4. TypeLocks' /\ TypeService' BY Zenon, <1>b, <2>z DEF BackendGone, TypeLocks, TypeService
  <2>5. TypeProcs' BY <1>b DEF BackendGone, TypeProcs, WaiterLabels
  <2>6. TypeHost' BY <1>b DEF BackendGone, TypeHost
  <2> QED BY <2>3, <2>4, <2>5, <2>6
<1>6. CASE BackendCrash
  <2>1. TypeDaemon'
    <3>1. crashes' \in 0..MaxCrashes BY <1>6, BoundsAssumption DEF BackendCrash, TypeDaemon
    <3> QED BY Zenon, <1>6, <3>1 DEF BackendCrash, BackendGone, TypeDaemon
  <2>2. TypeCallers' /\ TypeLocks' /\ TypeService' /\ TypeProcs' /\ TypeHost' BY <1>6, <1>b
      DEF BackendCrash
  <2> QED BY <2>1, <2>2
<1>7. CASE BackendExit
  <2>1. TypeDaemon' BY Zenon, <1>7 DEF BackendExit, BackendGone, TypeDaemon
  <2>2. TypeCallers' /\ TypeLocks' /\ TypeService' /\ TypeProcs' /\ TypeHost' BY <1>7, <1>b
      DEF BackendExit
  <2> QED BY <2>1, <2>2
<1>8. CASE RecoverStaleState
  <2>1. TypeCallers' /\ TypeLocks' /\ TypeService' BY <1>8 DEF RecoverStaleState, TypeCallers,
      TypeLocks, TypeService
  <2>2. TypeProcs' /\ TypeDaemon' BY <1>8 DEF RecoverStaleState, TypeProcs, TypeDaemon
  <2>3. TypeHost' BY <1>8, RecoverType DEF RecoverStaleState
  <2> QED BY <2>1, <2>2, <2>3
<1> QED BY <1>1, <1>2, <1>3, <1>4, <1>5, <1>6, <1>7, <1>8 DEF RepairStep

\* The initial state has the types.
LEMMA InitType == Init => TypeOK
<1> SUFFICES ASSUME Init PROVE TypeOK OBVIOUS
<1> USE CallersAssumption, BoundsAssumption, SwitchAssumption DEF Init, Procs
<1>1. pc \in [Callers -> CallerLabels] /\ op \in [Callers -> AllOps] BY DEF CallerLabels, AllOps
<1>2. TypeCallers BY <1>1 DEF TypeCallers
<1>z. cmd \in 0..MaxProcs /\ crashes \in 0..MaxCrashes /\ foreign \in 0..MaxForeign OBVIOUS
<1>3. TypeLocks /\ TypeService BY Zenon, <1>z DEF TypeLocks, TypeService
<1>4. waiter \in [Procs -> WaiterLabels] BY DEF WaiterLabels
<1>5. TypeProcs BY Zenon, <1>4 DEF TypeProcs
<1>6. TypeHost BY Zenon DEF TypeHost
<1>7. TypeDaemon BY Zenon, <1>z DEF TypeDaemon
<1> QED BY <1>2, <1>3, <1>5, <1>6, <1>7 DEF TypeOK

\* The state of the service, its goroutines and the host is always of the
\* declared types: labels exist, locks have possible owners, counters stay
\* within their bounds.
THEOREM TypeCorrect == Spec => []TypeOK
<1>1. ASSUME TypeOK, [Next]_vars PROVE TypeOK'
  <2>1. CASE UNCHANGED vars
    <3> USE <1>1, <2>1 DEF vars, callerVars, lockVars, svcVars, procVars, hostVars, daemonVars,
        TypeOK
    <3>1. TypeCallers' BY DEF TypeCallers
    <3>2. TypeLocks' BY DEF TypeLocks
    <3>3. TypeService' BY DEF TypeService
    <3>4. TypeProcs' BY DEF TypeProcs
    <3>5. TypeHost' BY DEF TypeHost
    <3>6. TypeDaemon' BY DEF TypeDaemon
    <3> QED BY <3>1, <3>2, <3>3, <3>4, <3>5, <3>6
  <2>2. ASSUME NEW c \in Callers, CallerStep(c) PROVE TypeOK'
    BY <1>1, <2>2, CallerControl, CallerRest DEF TypeOK, Rest
  <2>3. CASE Next
    BY <1>1, <2>2, <2>3, EntryType, ProcType, HostType DEF Next
  <2> QED BY <1>1, <2>1, <2>3
<1> QED BY <1>1, InitType, PTL DEF Spec

-----------------------------------------------------------------------------
(* At most one managed core. The invariant below adds to OneManagedCore    *)
(* who owns networkLifecycleMu, and that a caller about to launch, which   *)
(* owns it, has found every earlier core gone.                             *)

Launching == {"launch", "launchTUN"}
NetLabels == {"check", "guardStart", "stopExisting", "recover", "verify", "launch",
              "launchTUN", "startFlock", "dnsFlock", "dnsWrite", "devFlock", "devWrite"}
NetWaits == {"flock", "detach", "detachErr", "clean", "cleanErr", "ok", "err"}

NetOwner ==
    /\ \A c \in Callers : pc[c] \in NetLabels => networkMu = c
    /\ \A i \in Procs : waiter[i] \in NetWaits => networkMu = i
LaunchAlone == \A c \in Callers : pc[c] \in Launching => Up \cap managed = {}
ManagedUsed == \A i \in managed : proc[i] # "unused"
OneCoreInv == TypeOK /\ NetOwner /\ LaunchAlone /\ ManagedUsed /\ OneManagedCore

\* What one step of caller c does to the owners of networkLifecycleMu.
Leaves(c) == \E l \in CallerLabels \ NetLabels : pc' = [pc EXCEPT ![c] = l]
Holds(c) == networkMu' = c /\ \E l \in NetLabels \ Launching : pc' = [pc EXCEPT ![c] = l]
MuKept(c) == networkMu' = networkMu \/ networkMu \in {None, c}
WaitsKept == \A i \in Procs : waiter'[i] \in NetWaits => waiter'[i] = waiter[i]
\* No core of the service appears.
NoNewCore ==
    /\ managed' = managed
    /\ \A i \in managed : /\ proc'[i] = "up" => proc[i] = "up"
                          /\ proc[i] # "unused" => proc'[i] # "unused"

\* Wherever an operation ends or startAndSync() fails, the caller is past every
\* section that networkLifecycleMu protects.
LEMMA EndLeaves ==
    ASSUME NEW c \in Callers
    PROVE  /\ \A ok \in BOOLEAN : AfterStop(c, ok) => Leaves(c)
           /\ \A ok \in BOOLEAN : AfterStart(c, ok) => Leaves(c)
           /\ \A ok \in BOOLEAN : Return(c, ok) => Leaves(c)
           /\ FailStartup(c) => Leaves(c)
           /\ \A l \in CallerLabels \ NetLabels : Goto(c, l) => Leaves(c)
<1> DEFINE L == {"settle", "updStopped", "updStopFailed", "start", "idle", "updStarted",
                 "updStartFailed", "failStartup"}
<1>1. L \subseteq CallerLabels \ NetLabels BY DEF CallerLabels, NetLabels
<1>2. \A l \in CallerLabels \ NetLabels : Goto(c, l) => Leaves(c) BY Zenon DEF Leaves, Goto
<1>3. ASSUME NEW ok \in BOOLEAN, Return(c, ok) PROVE Leaves(c) BY <1>1, <1>2, <1>3 DEF Return
<1>4. ASSUME NEW ok \in BOOLEAN, AfterStop(c, ok) PROVE Leaves(c)
  <2>1. CASE Return(c, ok) BY <2>1, <1>3
  <2>2. CASE ~Return(c, ok)
    <3>1. \E l \in L : Goto(c, l) BY <1>4, <2>2 DEF AfterStop
    <3> QED BY <1>1, <1>2, <3>1
  <2> QED BY <2>1, <2>2
<1>5. ASSUME NEW ok \in BOOLEAN, AfterStart(c, ok) PROVE Leaves(c)
  <2>1. CASE Return(c, ok) BY <2>1, <1>3
  <2>2. CASE ~Return(c, ok)
    <3>1. \E l \in L : Goto(c, l) BY <1>5, <2>2 DEF AfterStart
    <3> QED BY <1>1, <1>2, <3>1
  <2> QED BY <2>1, <2>2
<1>6. FailStartup(c) => Leaves(c) BY <1>1, <1>2 DEF FailStartup
<1> QED BY <1>2, <1>3, <1>4, <1>5, <1>6

\* Every step of a caller but the last check and the launch: the mutex passes
\* only between its owner and nobody, and no core appears.
LEMMA CallerNet ==
    ASSUME TypeOK, NetOwner, NEW c \in Callers, CallerStep(c),
           ~StartVerify(c), ~StartLaunch(c)
    PROVE  (Leaves(c) \/ Holds(c)) /\ MuKept(c) /\ WaitsKept /\ NoNewCore
<1> USE DEF lockVars, svcVars, procVars
<1>g. ASSUME NEW l \in CallerLabels \ NetLabels, Goto(c, l) PROVE Leaves(c) BY <1>g, EndLeaves
<1>h. ASSUME NEW l \in NetLabels \ Launching, Goto(c, l), networkMu' = c PROVE Holds(c)
  BY Zenon, <1>h DEF Holds, Goto
<1>o. pc[c] \in NetLabels => networkMu = c BY DEF NetOwner
<1>q. ASSUME UNCHANGED procVars PROVE WaitsKept /\ NoNewCore
  BY <1>q DEF WaitsKept, NoNewCore
<1>1. CASE Shutdown(c)
  <2>1. {"protect", "stop"} \subseteq CallerLabels \ NetLabels BY DEF CallerLabels, NetLabels
  <2>2. Leaves(c) BY <1>1, <2>1, <1>g, EndLeaves DEF Shutdown
  <2>3. MuKept(c) BY <1>1 DEF Shutdown, MuKept
  <2>4. WaitsKept /\ NoNewCore BY <1>1, <1>q DEF Shutdown
  <2> QED BY <2>2, <2>3, <2>4
<1>2. CASE ValidateActiveConfig(c)
  <2>1. {"protect"} \subseteq CallerLabels \ NetLabels BY DEF CallerLabels, NetLabels
  <2>2. Leaves(c) BY Zenon, <1>2, <2>1, <1>g, EndLeaves DEF ValidateActiveConfig
  <2>3. MuKept(c) BY <1>2 DEF ValidateActiveConfig, MuKept
  <2>4. WaitsKept /\ NoNewCore BY <1>2, <1>q DEF ValidateActiveConfig
  <2> QED BY <2>2, <2>3, <2>4
<1>3. CASE Protect(c)
  <2>1. {"updStop", "stop"} \subseteq CallerLabels \ NetLabels BY DEF CallerLabels, NetLabels
  <2>2. Leaves(c) BY Zenon, <1>3, <2>1, <1>g, EndLeaves DEF Protect
  <2>3. MuKept(c) BY Zenon, <1>3 DEF Protect, MuKept
  <2>4. WaitsKept /\ NoNewCore BY Zenon, <1>3, <1>q DEF Protect
  <2> QED BY <2>2, <2>3, <2>4
<1>4. CASE StopBegin(c)
  <2>1. {"signal"} \subseteq CallerLabels \ NetLabels BY DEF CallerLabels, NetLabels
  <2>2. Leaves(c) BY Zenon, <1>4, <2>1, <1>g, EndLeaves DEF StopBegin
  <2>3. MuKept(c) BY <1>4 DEF StopBegin, MuKept
  <2>4. WaitsKept /\ NoNewCore BY <1>4, <1>q DEF StopBegin
  <2> QED BY <2>2, <2>3, <2>4
<1>5. CASE StopSignal(c)
  <2>1. {"await"} \subseteq CallerLabels \ NetLabels BY DEF CallerLabels, NetLabels
  <2>2. Leaves(c) BY Zenon, <1>5, <2>1, <1>g, EndLeaves DEF StopSignal
  <2>3. MuKept(c) BY Zenon, <1>5 DEF StopSignal, MuKept
  <2>4. WaitsKept /\ NoNewCore BY Zenon, <1>5, <1>q DEF StopSignal
  <2> QED BY <2>2, <2>3, <2>4
<1>6. CASE StopDone(c)
  <2>2. Leaves(c) BY Zenon, <1>6, EndLeaves DEF StopDone
  <2>3. MuKept(c) BY Zenon, <1>6 DEF StopDone, MuKept
  <2>4. WaitsKept /\ NoNewCore BY Zenon, <1>6, <1>q DEF StopDone
  <2> QED BY <2>2, <2>3, <2>4
<1>7. CASE StopTimeout(c)
  <2>1. {"await2"} \subseteq CallerLabels \ NetLabels BY DEF CallerLabels, NetLabels
  <2>2. Leaves(c) BY Zenon, <1>7, <2>1, <1>g, EndLeaves DEF StopTimeout
  <2>3. MuKept(c) BY Zenon, <1>7 DEF StopTimeout, MuKept
  <2>4. WaitsKept /\ NoNewCore BY Zenon, <1>7 DEF StopTimeout, WaitsKept, NoNewCore, TypeOK,
      TypeProcs
  <2> QED BY <2>2, <2>3, <2>4
<1>8. CASE StartLock(c)
  <2>1. "startFlock" \in NetLabels \ Launching BY DEF NetLabels, Launching
  <2>2. Leaves(c) \/ Holds(c) BY <1>8, <2>1, <1>h, EndLeaves DEF StartLock
  <2>3. MuKept(c) BY <1>8 DEF StartLock, MuKept
  <2>4. WaitsKept /\ NoNewCore BY <1>8, <1>q DEF StartLock
  <2> QED BY <2>2, <2>3, <2>4
<1>9. CASE StartFlock(c)
  <2>1. "check" \in NetLabels \ Launching BY DEF NetLabels, Launching
  <2>o. networkMu = c BY <1>9, <1>o DEF StartFlock, NetLabels
  <2>2. Leaves(c) \/ Holds(c) BY Zenon, <1>9, <2>1, <1>h, EndLeaves, <2>o DEF StartFlock
  <2>3. MuKept(c) BY <1>9, <2>o DEF StartFlock, MuKept
  <2>4. WaitsKept /\ NoNewCore BY <1>9, <1>q DEF StartFlock
  <2> QED BY <2>2, <2>3, <2>4
<1>10. CASE StartCheck(c)
  <2>1. "guardStart" \in NetLabels \ Launching BY DEF NetLabels, Launching
  <2>o. networkMu = c BY <1>10, <1>o DEF StartCheck, NetLabels
  <2>2. Leaves(c) \/ Holds(c) BY Zenon, <1>10, <2>1, <1>h, EndLeaves, <2>o DEF StartCheck,
      StartError
  <2>3. MuKept(c) BY <1>10, <2>o DEF StartCheck, MuKept
  <2>4. WaitsKept /\ NoNewCore BY Zenon, <1>10, <1>q DEF StartCheck, StartError
  <2> QED BY <2>2, <2>3, <2>4
<1>11. CASE StartGuard(c)
  <2>1. "stopExisting" \in NetLabels \ Launching BY DEF NetLabels, Launching
  <2>o. networkMu = c BY <1>11, <1>o DEF StartGuard, NetLabels
  <2>2. Leaves(c) \/ Holds(c) BY Zenon, <1>11, <2>1, <1>h, EndLeaves, <2>o DEF StartGuard,
      StartError
  <2>3. MuKept(c) BY <1>11, <2>o DEF StartGuard, MuKept
  <2>4. WaitsKept /\ NoNewCore BY Zenon, <1>11, <1>q DEF StartGuard, StartError
  <2> QED BY <2>2, <2>3, <2>4
<1>12. CASE StartStopExisting(c)
  <2>1. "recover" \in NetLabels \ Launching BY DEF NetLabels, Launching
  <2>o. networkMu = c BY <1>12, <1>o DEF StartStopExisting, NetLabels
  <2>2. Leaves(c) \/ Holds(c) BY Zenon, <1>12, <2>1, <1>h, EndLeaves, <2>o DEF StartStopExisting
  <2>3. MuKept(c) BY <1>12, <2>o DEF StartStopExisting, MuKept
  <2>4. WaitsKept /\ NoNewCore BY <1>12 DEF StartStopExisting, WaitsKept, NoNewCore, TypeOK,
      TypeProcs
  <2> QED BY <2>2, <2>3, <2>4
<1>13. CASE StartRecover(c)
  <2>1. "verify" \in NetLabels \ Launching BY DEF NetLabels, Launching
  <2>o. networkMu = c BY <1>13, <1>o DEF StartRecover, NetLabels
  <2>2. Leaves(c) \/ Holds(c) BY Zenon, <1>13, <2>1, <1>h, EndLeaves, <2>o DEF StartRecover,
      StartError
  <2>3. MuKept(c) BY <1>13, <2>o DEF StartRecover, MuKept
  <2>4. WaitsKept /\ NoNewCore BY Zenon, <1>13, <1>q DEF StartRecover, StartError
  <2> QED BY <2>2, <2>3, <2>4
<1>14. CASE WaitReady(c)
  <2>1. {"dnsLock", "after"} \subseteq CallerLabels \ NetLabels BY DEF CallerLabels, NetLabels
  <2>2. Leaves(c) BY Zenon, <1>14, <2>1, <1>g, EndLeaves DEF WaitReady
  <2>3. MuKept(c) BY Zenon, <1>14 DEF WaitReady, MuKept
  <2>4. WaitsKept /\ NoNewCore BY Zenon, <1>14 DEF WaitReady, WaitsKept, NoNewCore, TypeOK,
      TypeProcs
  <2> QED BY <2>2, <2>3, <2>4
<1>15. CASE AfterStartHook(c)
  <2>1. {"devLock", "mark"} \subseteq CallerLabels \ NetLabels BY DEF CallerLabels, NetLabels
  <2>2. Leaves(c) BY Zenon, <1>15, <2>1, <1>g, EndLeaves DEF AfterStartHook
  <2>3. MuKept(c) BY Zenon, <1>15 DEF AfterStartHook, MuKept
  <2>4. WaitsKept /\ NoNewCore BY Zenon, <1>15, <1>q DEF AfterStartHook
  <2> QED BY <2>2, <2>3, <2>4
<1>16. CASE MarkStarted(c)
  <2>2. Leaves(c) BY Zenon, <1>16, EndLeaves DEF MarkStarted
  <2>3. MuKept(c) BY <1>16 DEF MarkStarted, MuKept
  <2>4. WaitsKept /\ NoNewCore BY <1>16, <1>q DEF MarkStarted
  <2> QED BY <2>2, <2>3, <2>4
<1>17. CASE FailStartupStop(c)
  <2>1. {"stop", "settle"} \subseteq CallerLabels \ NetLabels BY DEF CallerLabels, NetLabels
  <2>2. Leaves(c) BY <1>17, <2>1, <1>g, EndLeaves DEF FailStartupStop
  <2>3. MuKept(c) BY <1>17 DEF FailStartupStop, MuKept
  <2>4. WaitsKept /\ NoNewCore BY <1>17, <1>q DEF FailStartupStop
  <2> QED BY <2>2, <2>3, <2>4
<1>18. CASE Settle(c)
  <2>2. Leaves(c) BY Zenon, <1>18, EndLeaves DEF Settle
  <2>3. MuKept(c) BY <1>18 DEF Settle, MuKept
  <2>4. WaitsKept /\ NoNewCore BY SMTT(30), <1>18, <1>q DEF Settle
  <2> QED BY <2>2, <2>3, <2>4
<1>t. ASSUME NEW t \in AllTakeovers PROVE
        /\ LockAt[t] \in {"dnsLock", "devLock"} /\ FlockAt[t] \in {"dnsFlock", "devFlock"}
        /\ WriteAt[t] \in {"dnsWrite", "devWrite"}
  BY <1>t DEF AllTakeovers, LockAt, FlockAt, WriteAt
<1>m. {"dnsFlock", "devFlock", "dnsWrite", "devWrite"} \subseteq NetLabels \ Launching BY
    DEF NetLabels, Launching
<1>n. {"after", "mark"} \subseteq CallerLabels \ NetLabels BY DEF CallerLabels, NetLabels
<1>31. ASSUME NEW t \in AllTakeovers, ActivateLock(c, t)
       PROVE  (Leaves(c) \/ Holds(c)) /\ MuKept(c) /\ WaitsKept /\ NoNewCore
  <2>1. Holds(c) BY Zenon, <1>31, <1>t, <1>m, <1>h DEF ActivateLock
  <2> QED BY Zenon, <1>31, <2>1, <1>q DEF ActivateLock, MuKept
<1>32. ASSUME NEW t \in AllTakeovers, ActivateFlock(c, t)
       PROVE  (Leaves(c) \/ Holds(c)) /\ MuKept(c) /\ WaitsKept /\ NoNewCore
  <2>1. networkMu = c BY Zenon, <1>32, <1>t, <1>m, <1>o DEF ActivateFlock
  <2>2. Leaves(c) \/ Holds(c) BY Zenon, <1>32, <1>t, <1>m, <1>h, <2>1, EndLeaves DEF ActivateFlock
  <2> QED BY Zenon, <1>32, <2>1, <2>2, <1>q DEF ActivateFlock, MuKept
<1>33. ASSUME NEW t \in AllTakeovers, Activate(c, t)
       PROVE  (Leaves(c) \/ Holds(c)) /\ MuKept(c) /\ WaitsKept /\ NoNewCore
  <2>1. networkMu = c BY Zenon, <1>33, <1>t, <1>m, <1>o DEF Activate
  <2>2. Leaves(c) BY Zenon, <1>33, <1>n, <1>g, EndLeaves DEF Activate
  <2> QED BY Zenon, <1>33, <2>1, <2>2, <1>q DEF Activate, MuKept
<1> QED BY Zenon, <1>1, <1>2, <1>3, <1>4, <1>5, <1>6, <1>7, <1>8, <1>9, <1>10, <1>11, <1>12,
    <1>13, <1>14, <1>15, <1>16, <1>17, <1>18, <1>31, <1>32, <1>33 DEF CallerStep

\* A step with those effects keeps the invariant.
LEMMA NetKept ==
    ASSUME OneCoreInv, TypeOK', NEW c \in Callers,
           Leaves(c) \/ Holds(c), MuKept(c), WaitsKept, NoNewCore
    PROVE  OneCoreInv'
<1> USE DEF OneCoreInv
<1>1. ASSUME NEW d \in Callers, d # c PROVE pc'[d] = pc[d]
  BY <1>1 DEF Leaves, Holds, TypeOK, TypeCallers
<1>2. pc'[c] \in NetLabels => networkMu' = c BY DEF Leaves, Holds, TypeOK, TypeCallers
<1>3. pc'[c] \notin Launching
  <2>1. Launching \subseteq NetLabels BY DEF NetLabels, Launching
  <2> QED BY <2>1 DEF Leaves, Holds, TypeOK, TypeCallers
<1>4. ASSUME NEW d \in Callers, pc'[d] \in NetLabels PROVE networkMu' = d
  BY Zenon, <1>1, <1>2, <1>4, CallersAssumption DEF NetOwner, MuKept
<1>5. ASSUME NEW i \in Procs, waiter'[i] \in NetWaits PROVE networkMu' = i
  BY <1>5, CallersAssumption DEF NetOwner, MuKept, WaitsKept
<1>6. NetOwner' BY Zenon, <1>4, <1>5 DEF NetOwner
<1>7. (Up \cap managed)' \subseteq Up \cap managed BY Zenon DEF Up, NoNewCore
<1>8. LaunchAlone' BY Zenon, <1>1, <1>3, <1>7 DEF LaunchAlone
<1>9. ManagedUsed' BY Zenon DEF ManagedUsed, NoNewCore
<1>10. OneManagedCore' BY <1>7 DEF OneManagedCore
<1> QED BY <1>6, <1>8, <1>9, <1>10

\* The last look at /proc before the launch.
LEMMA VerifyKept ==
    ASSUME OneCoreInv, TypeOK', NEW c \in Callers, StartVerify(c)
    PROVE  OneCoreInv'
<1> USE DEF OneCoreInv, procVars
<1>1. networkMu = c BY DEF StartVerify, NetOwner, NetLabels
<1>2. WaitsKept /\ NoNewCore BY Zenon DEF StartVerify, StartError, WaitsKept, NoNewCore
<1>3. MuKept(c) BY <1>1 DEF MuKept
<1>4. CASE StartError(c)
  <2>1. Leaves(c) BY Zenon, <1>4, EndLeaves DEF StartError
  <2> QED BY <2>1, <1>2, <1>3, NetKept
<1>5. CASE ~StartError(c)
  <2>1. (\E l \in Launching : Goto(c, l)) /\ Up = {} /\ UNCHANGED lockVars
    BY <1>5 DEF StartVerify, Launching
  <2>2. networkMu' = c BY <1>1, <2>1 DEF lockVars
  <2>3. ASSUME NEW d \in Callers, d # c PROVE pc'[d] = pc[d]
    BY Zenon, <2>1, <2>3 DEF Goto, TypeOK, TypeCallers
  <2>4. NetOwner'
    BY Zenon, <1>1, <1>2, <2>2, <2>3, CallersAssumption DEF NetOwner, WaitsKept
  <2>5. (Up \cap managed)' = {} BY <1>2, <2>1 DEF Up, NoNewCore
  <2>6. LaunchAlone' /\ OneManagedCore' BY <2>5 DEF LaunchAlone, OneManagedCore
  <2>7. ManagedUsed' BY <1>2 DEF ManagedUsed, NoNewCore
  <2> QED BY <2>4, <2>6, <2>7
<1> QED BY <1>4, <1>5

\* The launch.
LEMMA LaunchKept ==
    ASSUME OneCoreInv, TypeOK', NEW c \in Callers, StartLaunch(c)
    PROVE  OneCoreInv'
<1> USE DEF OneCoreInv, procVars
<1>1. networkMu = c /\ Up \cap managed = {} BY DEF StartLaunch, NetOwner, NetLabels, LaunchAlone,
    Launching
<1>2. MuKept(c) BY <1>1 DEF MuKept
<1>3. CASE StartError(c)
  <2>1. Leaves(c) BY Zenon, <1>3, EndLeaves DEF StartError
  <2>2. WaitsKept /\ NoNewCore BY <1>3 DEF StartError, WaitsKept, NoNewCore
  <2> QED BY <2>1, <2>2, <1>2, NetKept
<1>4. CASE ~StartError(c)
  <2>1. PICK i \in Procs : /\ proc' = [proc EXCEPT ![i] = "up"]
                           /\ managed' = managed \cup {i}
                           /\ waiter' = [waiter EXCEPT ![i] = "wait"]
                           /\ Goto(c, "ready")
    BY Zenon, <1>4 DEF StartLaunch, FirstUnused
  <2>2. "ready" \notin NetLabels BY DEF NetLabels
  <2>3. ASSUME NEW d \in Callers, pc'[d] \in NetLabels PROVE FALSE
    BY Zenon, <1>1, <2>1, <2>2, <2>3 DEF Goto, TypeOK, TypeCallers, NetOwner
  <2>4. ASSUME NEW j \in Procs, waiter'[j] \in NetWaits PROVE FALSE
    <3>1. "wait" \notin NetWaits BY DEF NetWaits
    <3>2. waiter \in [Procs -> WaiterLabels] BY DEF TypeOK, TypeProcs
    <3>3. waiter[j] \in NetWaits BY <2>1, <2>4, <3>1, <3>2
    <3>4. networkMu = j BY <3>3 DEF NetOwner
    <3> QED BY <1>1, <3>4, CallersAssumption
  <2>5. NetOwner' BY Zenon, <2>3, <2>4 DEF NetOwner
  <2>6. LaunchAlone'
    <3>1. Launching \subseteq NetLabels BY DEF NetLabels, Launching
    <3> QED BY Zenon, <2>3, <3>1 DEF LaunchAlone
  <2>7. (Up \cap managed)' \subseteq {i} BY Zenon, <1>1, <2>1 DEF Up, TypeOK, TypeProcs
  <2>8. OneManagedCore' BY SMTT(30), <2>7 DEF OneManagedCore
  <2>9. ManagedUsed' BY <2>1 DEF ManagedUsed, TypeOK, TypeProcs
  <2> QED BY <2>5, <2>6, <2>8, <2>9
<1> QED BY <1>3, <1>4

\* The entry points.
LEMMA EntryKept ==
    ASSUME OneCoreInv, TypeOK', NEW c \in Callers,
           (\E o \in Ops \ {"Shutdown", "Update"} : Enter(c, o)) \/ PrepareShutdown(c)
    PROVE  OneCoreInv'
<1> USE DEF OneCoreInv, procVars, lockVars
<1>1. MuKept(c) /\ WaitsKept /\ NoNewCore
  BY DEF Enter, PrepareShutdown, MuKept, WaitsKept, NoNewCore
<1> DEFINE L == {"idle", "shutdown", "start", "stop", "protect", "validate"}
<1>2. L \subseteq CallerLabels \ NetLabels BY DEF CallerLabels, NetLabels
<1>3. \E l \in L : Goto(c, l)
  <2>1. ASSUME NEW o \in Ops \ {"Shutdown", "Update"}, Enter(c, o)
        PROVE  \E l \in L : Goto(c, l)
    <3>1. CASE o = "Start" BY <2>1, <3>1 DEF Enter
    <3>2. CASE o = "Stop" BY <2>1, <3>2 DEF Enter
    <3>3. CASE o = "ProtectForAppUpdate" BY <2>1, <3>3 DEF Enter
    <3>4. CASE o \notin {"Start", "Stop", "ProtectForAppUpdate"} BY SMTT(30), <2>1, <3>4 DEF Enter
    <3> QED BY <3>1, <3>2, <3>3, <3>4
  <2>2. CASE PrepareShutdown(c)
    <3>1. CASE UNCHANGED pc
      <4>1. pc[c] = "idle" /\ pc \in [Callers -> CallerLabels]
        BY Zenon, <2>2 DEF PrepareShutdown, TypeOK, TypeCallers
      <4> QED BY <3>1, <4>1 DEF Goto
    <3>2. CASE Goto(c, "shutdown") BY <3>2
    <3> QED BY <2>2, <3>1, <3>2 DEF PrepareShutdown
  <2> QED BY <2>1, <2>2
<1>4. Leaves(c) BY <1>2, <1>3, EndLeaves
<1> QED BY <1>1, <1>4, NetKept

\* The exit goroutine, the context and the core itself: only the owner gives
\* the mutex up, and only processes end.
LEMMA ProcKept ==
    ASSUME OneCoreInv, TypeOK', NEW i \in Procs,
           WaiterStep(i) \/ CancelContext(i) \/ CoreReadsConfig(i) \/ CoreExits(i)
    PROVE  OneCoreInv'
<1> USE DEF OneCoreInv, procVars, lockVars, callerVars
<1>1. UNCHANGED pc /\ NoNewCore
  <2>1. CASE CoreExits(i) BY <2>1 DEF CoreExits, NoNewCore, TypeOK, TypeProcs
  <2> QED BY Zenon, <2>1 DEF WaiterStep, WaiterReap, WaiterLock, WaiterFlock, WaiterDetach,
      WaiterClean,
             WaiterFinish, CancelContext, CoreReadsConfig, NoNewCore
<1>2. /\ \A j \in Procs \ {i} : waiter'[j] = waiter[j]
      /\ waiter'[i] \in NetWaits => networkMu' = i
      /\ networkMu' = networkMu \/ networkMu \in {None, i}
  <2> USE DEF TypeOK, TypeProcs
  <2>1. CASE WaiterReap(i) BY Zenon, <2>1 DEF WaiterReap, NetWaits
  <2>2. CASE WaiterLock(i) BY Zenon, <2>2 DEF WaiterLock
  <2>3. CASE WaiterFlock(i) BY <2>3 DEF WaiterFlock, NetWaits, NetOwner
  <2>4. CASE WaiterDetach(i) BY Zenon, <2>4 DEF WaiterDetach, NetWaits, NetOwner
  <2>5. CASE WaiterClean(i) BY <2>5 DEF WaiterClean, NetWaits, NetOwner
  <2>6. CASE WaiterFinish(i) BY Zenon, <2>6 DEF WaiterFinish, NetWaits, NetOwner
  <2>7. CASE CancelContext(i) BY Zenon, <2>7 DEF CancelContext, NetOwner
  <2>8. CASE CoreExits(i) BY Zenon, <2>8 DEF CoreExits, NetOwner
  <2>9. CASE CoreReadsConfig(i) BY Zenon, <2>9 DEF CoreReadsConfig, NetOwner
  <2> QED BY Zenon, <2>1, <2>2, <2>3, <2>4, <2>5, <2>6, <2>7, <2>8, <2>9 DEF WaiterStep
<1>3. NetOwner' BY Zenon, <1>1, <1>2, CallersAssumption DEF NetOwner
<1>4. (Up \cap managed)' \subseteq Up \cap managed BY Zenon, <1>1 DEF Up, NoNewCore
<1>5. LaunchAlone' /\ OneManagedCore' BY <1>1, <1>4 DEF LaunchAlone, OneManagedCore
<1>6. ManagedUsed' BY <1>1 DEF ManagedUsed, NoNewCore
<1> QED BY <1>3, <1>5, <1>6

\* The repair command, the host and the backend process.
LEMMA HostKept ==
    ASSUME OneCoreInv, TypeOK',
           \/ \E mode \in RepairModes : RepairStart(mode)
           \/ RepairStep \/ ForeignCore \/ ConfigApplied
           \/ BackendCrash \/ BackendExit \/ RecoverStaleState
           \/ UNCHANGED vars
    PROVE  OneCoreInv'
<1> USE DEF OneCoreInv, vars, procVars, lockVars, callerVars
<1>1. NoNewCore
  <2>1. ASSUME NEW mode \in RepairModes, RepairStart(mode) PROVE NoNewCore
    <3>1. managed' = managed BY <2>1 DEF RepairStart
    <3>2. ASSUME NEW i \in managed
          PROVE  (proc'[i] = "up" => proc[i] = "up") /\ (proc[i] # "unused" => proc'[i] # "unused")
      BY <2>1, <3>2 DEF RepairStart, TypeOK, TypeProcs
    <3> QED BY <3>1, <3>2 DEF NoNewCore
  <2>2. CASE ForeignCore
    BY Zenon, <2>2 DEF ForeignCore, FirstUnused, NoNewCore, ManagedUsed, TypeOK, TypeProcs
  <2>3. CASE ConfigApplied BY <2>3 DEF ConfigApplied, NoNewCore
  <2> QED BY Zenon, <2>1, <2>2, <2>3 DEF RepairStep, RepairRecover, RepairGuard, BackendCrash,
      BackendExit, BackendGone, RecoverStaleState, NoNewCore
<1>2. \/ UNCHANGED <<pc, networkMu, waiter>>
      \/ pc' = [c \in Callers |-> "idle"] /\ waiter' = [j \in Procs |-> "none"]
  BY Zenon DEF RepairStart, ForeignCore, RepairStep, RepairRecover, RepairGuard, ConfigApplied,
     BackendCrash, BackendExit, BackendGone, RecoverStaleState
<1>3. NetOwner'
  <2>1. "idle" \notin NetLabels /\ "none" \notin NetWaits BY DEF NetLabels, NetWaits
  <2> QED BY <1>2, <2>1 DEF NetOwner
<1>4. (Up \cap managed)' \subseteq Up \cap managed BY <1>1 DEF Up, NoNewCore
<1>5. LaunchAlone'
  <2>1. "idle" \notin Launching BY DEF Launching
  <2> QED BY <1>2, <1>4, <2>1 DEF LaunchAlone
<1>6. OneManagedCore' BY <1>4 DEF OneManagedCore
<1>7. ManagedUsed' BY <1>1 DEF ManagedUsed, NoNewCore
<1> QED BY <1>3, <1>5, <1>6, <1>7

\* Of the cores the service ever launched at most one runs: start() launches
\* under networkLifecycleMu only after it has found every sing-box process gone,
\* whatever an earlier stop() timed out on and whatever backend launched them.
THEOREM AtMostOneManagedCore == Spec => []OneManagedCore
<1>1. Init => OneCoreInv
  <2>1. Init => NetOwner BY DEF Init, NetOwner, NetLabels, NetWaits
  <2>2. Init => LaunchAlone /\ ManagedUsed /\ OneManagedCore
    BY DEF Init, LaunchAlone, Launching, ManagedUsed, OneManagedCore
  <2> QED BY <2>1, <2>2, InitType DEF OneCoreInv
<1>2. ASSUME TypeOK', OneCoreInv, [Next]_vars PROVE OneCoreInv'
  <2>1. ASSUME NEW c \in Callers, CallerStep(c) PROVE OneCoreInv'
    <3>1. CASE StartVerify(c) BY <1>2, <3>1, VerifyKept
    <3>2. CASE StartLaunch(c) BY <1>2, <3>2, LaunchKept
    <3>3. CASE ~StartVerify(c) /\ ~StartLaunch(c)
      BY <1>2, <2>1, <3>3, CallerNet, NetKept DEF OneCoreInv
    <3> QED BY <3>1, <3>2, <3>3
  <2>2. CASE UNCHANGED vars BY <1>2, <2>2, HostKept
  <2>3. CASE Next BY <1>2, <2>1, <2>3, EntryKept, ProcKept, HostKept DEF Next
  <2> QED BY <1>2, <2>2, <2>3
<1>3. OneCoreInv => OneManagedCore BY DEF OneCoreInv
<1> QED BY <1>1, <1>2, <1>3, TypeCorrect, PTL DEF Spec
=============================================================================
