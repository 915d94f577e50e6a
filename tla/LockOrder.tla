------------------------------ MODULE LockOrder ------------------------------
(***************************************************************************)
(* The mutexes that configuration generation, the core lifecycle, the      *)
(* settings and the node exposures share, and the order in which each      *)
(* operation of the backend takes them.  An operation is a sequence of     *)
(* steps: take a lock, release one, or do something to the shared state.   *)
(* An actor is named after the operation its goroutine runs; "exit" is the *)
(* goroutine that start() leaves behind to wait for the process.           *)
(*                                                                         *)
(* "snapshot" and "update" are the write and the read side of one RWMutex, *)
(* Store.configUpdateMu.  No lock of the program is reentrant.             *)
(***************************************************************************)
EXTENDS Integers, FiniteSets, Sequences, SequencesExt

CONSTANTS Ops,        \* the operations requested in this instance
          MaxWrites   \* how many database writes are told apart

ASSUME WritesAssumption == MaxWrites \in Nat \ {0}

VARIABLES todo,     \* todo[a]: the steps actor a still has to make
          held,     \* held[a]: the locks a holds, oldest first
          core,     \* "stopped", "running", "exited" (not yet detached), "cleaning"
          hasAPI,   \* the active configuration has the runtime API service
          db,       \* version of the configuration data in the database
          tmp,      \* the version config.tmp.json was generated from
          active,   \* the version the active configuration was generated from
          loaded    \* the version the core was last started with

vars == <<todo, held, core, hasAPI, db, tmp, active, loaded>>

Operations == {"reconcile", "scheduledRestart", "update", "start", "restart",
               "stop", "setMode", "exposure", "dnsEdit", "nodeEdit", "activate"}

ASSUME OpsAssumption == Ops \subseteq Operations

Actors == Ops \union {"exit"}
Locks == {"snapshot", "update", "configMu", "configFileMu", "lifecycleMu", "networkMu",
          "svcMu", "exposureMu", "generalMu", "runMu", "cacheMu"}
Versions == 0 .. MaxWrites

Acq(m) == <<"lock", m>>
Rel(m) == <<"unlock", m>>
Do(e) == <<"do", e>>

(***************************************************************************)
(* What each function of the program does, in its order                    *)
(***************************************************************************)
\* ReconcileCurrent: the snapshot is held over generation and application.
ReconcileCurrent ==
  <<Acq("snapshot"), Acq("configMu"), Do("generate"),
    Acq("configFileMu"), Do("apply"), Rel("configFileMu"),
    Rel("configMu"), Rel("snapshot")>>

\* reconcile: one debounced run of ConfigReconcileService at a time.
ReconcileOp == <<Acq("runMu")>> \o ReconcileCurrent \o <<Rel("runMu")>>

\* IsRunning and the other short critical sections of SingboxService.mu.
UnderSvcMu(e) == <<Acq("svcMu"), Do(e), Rel("svcMu")>>

\* validateActiveConfig: the preflight of the active file.
ValidateActiveConfig == <<Acq("configFileMu"), Do("validate"), Rel("configFileMu")>>

\* start: networkLifecycleMu, then svc.mu, then the configuration check.
Start(validateConfig) ==
  <<Acq("networkMu"), Acq("svcMu"), Do("mustBeStopped")>> \o validateConfig
    \o <<Do("spawn"), Rel("svcMu"), Rel("networkMu")>>

\* startAndSync: readiness; dnsmasq under networkLifecycleMu; the afterStart
\* hook, which is NodeExposureService.SyncRuntime; device DNS; markStarted.
StartAndSync(validateConfig) ==
  Start(validateConfig)
    \o <<Do("startupOK"), Acq("networkMu"), Rel("networkMu"),
         Do("startupOK"), Acq("exposureMu"), Rel("exposureMu"),
         Do("startupOK"), Acq("networkMu"), Rel("networkMu"), Do("startupOK")>>
    \o UnderSvcMu("mustBeRunning")

\* failStartup: note the error, stop the core and wait until it has settled.
FailStartup == UnderSvcMu("noteError") \o <<Do("awaitDone")>>

\* stop: mark the stop under svc.mu, signal, wait for the exit goroutine.
Stop == UnderSvcMu("mustBeRunning") \o <<Do("awaitDone")>>

\* restart: preflight, stop, start.
Restart == ValidateActiveConfig \o Stop \o StartAndSync(ValidateActiveConfig)

\* prepareStartConfig: the beforeStart hook EnsureRuntimeAPIConfig, which
\* regenerates when the active file lacks the runtime API.
PrepareStartConfig == <<Do("ensureAPI")>>

StartOp ==
  PrepareStartConfig \o <<Acq("lifecycleMu")>> \o StartAndSync(ValidateActiveConfig)
    \o <<Rel("lifecycleMu")>>

RestartOp == PrepareStartConfig \o <<Acq("lifecycleMu")>> \o Restart \o <<Rel("lifecycleMu")>>

StopOp == <<Acq("lifecycleMu")>> \o Stop \o <<Rel("lifecycleMu")>>

\* ReconcileCurrentForScheduledRestart: a restart under the snapshot.
ScheduledRestartOp ==
  UnderSvcMu("mustBeRunning")
    \o <<Acq("snapshot"), Acq("configMu"), Do("generate"),
         Acq("configFileMu"), Do("apply"), Rel("configFileMu")>>
    \o RestartOp
    \o <<Rel("configMu"), Rel("snapshot")>>

\* Mutant: the update locks the configuration file before it takes the snapshot.
UpdateFileFirst ==
  <<Acq("configFileMu"), Acq("snapshot"), Acq("lifecycleMu")>>
    \o UnderSvcMu("ifRunning")
    \o <<Do("migrateDNSCache"), Rel("lifecycleMu"), Rel("snapshot"), Rel("configFileMu")>>

\* installStagedUpdate: replaces the core under the snapshot.  The start uses
\* the check that expects configFileMu to be held, and regenerates nothing.
UpdateOp ==
  <<Acq("snapshot"), Acq("lifecycleMu"), Acq("configFileMu")>>
    \o UnderSvcMu("ifRunning")
    \o <<Do("migrateDNSCache"), Rel("configFileMu"), Rel("lifecycleMu"), Rel("snapshot")>>

ReplaceRunningCore == Stop \o <<Do("install")>> \o StartAndSync(<<Do("validate")>>)

\* SetInboundMode and SetProxyMode: settings and network lock around a
\* change that is reconciled at once, allowed while the core is stopped.
SetModeOp ==
  <<Acq("generalMu"), Acq("networkMu")>> \o UnderSvcMu("mustNotRun") \o <<Do("write")>>
    \o ReconcileCurrent \o <<Rel("networkMu"), Rel("generalMu")>>

Mutate == <<Acq("update"), Do("write"), Rel("update")>>

\* NodeExposureService.Create, Update, Delete.
ExposureOp ==
  <<Acq("exposureMu")>> \o Mutate \o UnderSvcMu("skipUnlessRunning")
    \o <<Do("applyRuntime"), Rel("exposureMu")>>

\* A mutation of DNSService: the read side, then the cache lock.
DNSEditOp == <<Acq("update"), Acq("cacheMu"), Do("write"), Rel("cacheMu"), Rel("update")>>

\* NodeService.SetEnabled, BatchDelete: the tables are changed at once.
NodeEditOp == <<Do("write")>>

\* SetActive, RestoreLatestBackup: another file becomes the active one.
ActivateOp == <<Acq("configFileMu"), Do("activate"), Rel("configFileMu")>>

\* The goroutine of start() that waits for the process.
ExitOp ==
  <<Acq("networkMu")>> \o UnderSvcMu("detach") \o <<Do("cleanup"), Rel("networkMu")>>

Script ==
  [reconcile |-> ReconcileOp, scheduledRestart |-> ScheduledRestartOp, update |-> UpdateOp,
   start |-> StartOp, restart |-> RestartOp, stop |-> StopOp, setMode |-> SetModeOp,
   exposure |-> ExposureOp, dnsEdit |-> DNSEditOp, nodeEdit |-> NodeEditOp,
   activate |-> ActivateOp]

(***************************************************************************)
(* The state machine                                                       *)
(***************************************************************************)
Steps == {<<k, m>> : k \in {"lock", "unlock"}, m \in Locks}
           \union {<<"do", e>> : e \in
             {"generate", "apply", "validate", "mustBeStopped", "mustBeRunning", "mustNotRun",
              "spawn", "startupOK", "noteError", "awaitDone", "ensureAPI", "ifRunning",
               "install", "migrateDNSCache", "write", "skipUnlessRunning",
              "applyRuntime", "activate", "detach", "cleanup"}}

\* Type invariant; an operation that has returned, on whatever path, holds none
\* of the locks.
TypeOK ==
  /\ \A a \in Actors : /\ todo[a] \in Seq(Steps) /\ held[a] \in Seq(Locks)
                       /\ todo[a] = <<>> => held[a] = <<>>
  /\ core \in {"stopped", "running", "exited", "cleaning"}
  /\ hasAPI \in BOOLEAN
  /\ {db, tmp, active, loaded} \subseteq Versions

Init ==
  /\ todo = [a \in Actors |-> <<>>]
  /\ held = [a \in Actors |-> <<>>]
  /\ core = "stopped"
  /\ hasAPI \in BOOLEAN
  /\ db = 0 /\ tmp = 0 /\ active = 0 /\ loaded = 0

Holds(a, m) == m \in ToSet(held[a])

\* The step an actor is about to make; "none" when it is idle.
NextStep(a) == IF todo[a] = <<>> THEN <<"none", "none">> ELSE Head(todo[a])

\* b keeps a from getting the lock it asks for.  A reader also queues behind a
\* writer that is already waiting (sync.RWMutex).
Blocks(b, a) ==
  /\ NextStep(a)[1] = "lock"
  /\ LET m == NextStep(a)[2] IN
       CASE m = "snapshot" -> Holds(b, "snapshot") \/ Holds(b, "update")
         [] m = "update" -> Holds(b, "snapshot") \/ (b # a /\ NextStep(b) = Acq("snapshot"))
         [] OTHER -> Holds(b, m)

\* A lock can be taken when nobody holds what excludes it.  A writer that is
\* only about to call Lock does not yet hold back a reader.
CanTake(m) ==
  CASE m = "snapshot" -> \A b \in Actors : ~Holds(b, "snapshot") /\ ~Holds(b, "update")
    [] m = "update" -> \A b \in Actors : ~Holds(b, "snapshot")
    [] OTHER -> \A b \in Actors : ~Holds(b, m)

data == <<core, hasAPI, db, tmp, active, loaded>>

\* Actor a goes on with rest.  The unlocks rest begins with happen in the same
\* step: releasing a lock earlier only lets the others do more.
Continue(a, rest, locks) ==
  LET n == CHOOSE k \in 0 .. Len(rest) :
             /\ \A i \in 1 .. k : rest[i][1] = "unlock"
             /\ k < Len(rest) => rest[k + 1][1] # "unlock"
      released == {rest[i][2] : i \in 1 .. n}
  IN  /\ todo' = [todo EXCEPT ![a] = SubSeq(rest, n + 1, Len(rest))]
      /\ held' = [held EXCEPT ![a] = SelectSeq(locks, LAMBDA m : m \notin released)]

Proceed(a) == Continue(a, Tail(todo[a]), held[a])

\* A request arrives, or a timer fires.
Request(a) ==
  /\ a \in Ops
  /\ todo[a] = <<>>
  /\ Continue(a, Script[a], <<>>)
  /\ UNCHANGED data

Acquire(a) ==
  /\ NextStep(a)[1] = "lock"
  /\ CanTake(NextStep(a)[2])
  /\ Continue(a, Tail(todo[a]), Append(held[a], NextStep(a)[2]))
  /\ UNCHANGED data

IsRunning == core \in {"running", "exited"}

\* Mutant: the error returns forget the lock that was taken first.
UnwindForgets(a) ==
  LET inner == Tail(held[a])
  IN  [i \in 1 .. Len(inner) |-> Rel(Reverse(inner)[i])]

\* An error return: the deferred unlocks run, newest lock first.  setMode first
\* writes the previous mode back when it had already stored the new one.
Unwind(a) ==
  LET releases(s) == [i \in 1 .. Len(s) |-> Rel(Reverse(s)[i])] IN
  IF a = "setMode" /\ Do("write") \notin ToSet(todo[a])
  THEN releases(SubSeq(held[a], 3, Len(held[a]))) \o <<Do("write")>>
         \o releases(SubSeq(held[a], 1, 2))
  ELSE releases(held[a])

Fail(a) == Continue(a, Unwind(a), held[a]) /\ UNCHANGED data

\* A condition the operation checks: it goes on, or returns an error.
Check(a) ==
  /\ NextStep(a)[1] = "do"
  /\ LET goesOn == [mustBeStopped |-> core = "stopped", mustBeRunning |-> IsRunning,
                    mustNotRun |-> ~IsRunning]
     IN  /\ NextStep(a)[2] \in DOMAIN goesOn
         /\ IF goesOn[NextStep(a)[2]] THEN Proceed(a) /\ UNCHANGED data ELSE Fail(a)

\* Work that can fail: generation, checks, file and process operations.
Falls(a) ==
  /\ NextStep(a) \in {Do(e) : e \in {"generate", "apply", "validate", "spawn", "install",
                                     "activate"}}
  /\ Fail(a)

\* Work that changes nothing another operation of this module reads.
Passes(a) ==
  /\ NextStep(a) \in {Do(e) : e \in {"validate", "install", "startupOK", "noteError",
                                     "applyRuntime"}}
  /\ Proceed(a)
  /\ UNCHANGED data

\* config.tmp.json is written from the tables as they are now.
DoGenerate(a) ==
  /\ NextStep(a) = Do("generate")
  /\ Proceed(a)
  /\ tmp' = db
  /\ UNCHANGED <<core, hasAPI, db, active, loaded>>

\* config.tmp.json becomes the active configuration, runtime API included.
DoApply(a) ==
  /\ NextStep(a) = Do("apply")
  /\ Proceed(a)
  /\ active' = tmp
  /\ hasAPI' = TRUE
  /\ UNCHANGED <<core, db, tmp, loaded>>

\* The process is launched with the active configuration.
DoSpawn(a) ==
  /\ NextStep(a) = Do("spawn")
  /\ Proceed(a)
  /\ core' = "running"
  /\ loaded' = active
  /\ UNCHANGED <<hasAPI, db, tmp, active>>

\* Readiness, a takeover or the runtime synchronisation failed.
DoStartupFailed(a) ==
  /\ NextStep(a) = Do("startupOK")
  /\ Continue(a, FailStartup \o Unwind(a), held[a])
  /\ UNCHANGED data

\* stop waits for the exit goroutine, at most 10 s and 2 s more.
DoAwaitDone(a) ==
  /\ NextStep(a) = Do("awaitDone")
  /\ \/ core = "stopped" /\ todo["exit"] = <<>> /\ Proceed(a) /\ UNCHANGED data
     \/ Fail(a)

DoEnsureAPI(a) ==
  /\ NextStep(a) = Do("ensureAPI")
  /\ Continue(a, (IF hasAPI THEN <<>> ELSE ReconcileCurrent) \o Tail(todo[a]), held[a])
  /\ UNCHANGED data

\* Only a core that ran is stopped, replaced and started again.
DoIfRunning(a) ==
  /\ NextStep(a) = Do("ifRunning")
  /\ Continue(a, <<Rel("svcMu")>> \o (IF IsRunning THEN ReplaceRunningCore ELSE <<>>)
                   \o SubSeq(todo[a], 3, Len(todo[a])), held[a])
  /\ UNCHANGED data

\* A write to the configuration tables; versions past the bound are not told apart.
DoWrite(a) ==
  /\ NextStep(a) \in {Do("write"), Do("migrateDNSCache")}
  /\ Proceed(a)
  /\ db' = IF db < MaxWrites THEN db + 1 ELSE db
  /\ UNCHANGED <<core, hasAPI, tmp, active, loaded>>

\* Without a running core an exposure is only stored.
DoSkipUnlessRunning(a) ==
  /\ NextStep(a) = Do("skipUnlessRunning")
  /\ Continue(a, IF IsRunning THEN Tail(todo[a]) ELSE Unwind(a), held[a])
  /\ UNCHANGED data

\* The core refused the exposure: the stored row is rolled back.
DoApplyRuntimeFailed(a) ==
  /\ NextStep(a) = Do("applyRuntime")
  /\ Continue(a, Mutate \o Unwind(a), held[a])
  /\ UNCHANGED data

\* A file of the administrator's choice becomes active: made from the tables as
\* they are or as they once were, with the runtime API or without.
DoActivate(a) ==
  /\ NextStep(a) = Do("activate")
  /\ Proceed(a)
  /\ active' \in 0 .. db
  /\ hasAPI' \in BOOLEAN
  /\ UNCHANGED <<core, db, tmp, loaded>>

DoDetach(a) ==
  /\ NextStep(a) = Do("detach")
  /\ Proceed(a)
  /\ core' = "cleaning"
  /\ UNCHANGED <<hasAPI, db, tmp, active, loaded>>

DoCleanup(a) ==
  /\ NextStep(a) = Do("cleanup")
  /\ Proceed(a)
  /\ core' = "stopped"
  /\ UNCHANGED <<hasAPI, db, tmp, active, loaded>>

\* The process ends, of itself or because it was told to.
ProcessExit ==
  /\ core = "running"
  /\ todo["exit"] = <<>>
  /\ core' = "exited"
  /\ Continue("exit", ExitOp, <<>>)
  /\ UNCHANGED <<hasAPI, db, tmp, active, loaded>>

Work(a) ==
  \/ Check(a) \/ Falls(a) \/ Passes(a)
  \/ DoGenerate(a) \/ DoApply(a) \/ DoSpawn(a) \/ DoStartupFailed(a) \/ DoAwaitDone(a)
  \/ DoEnsureAPI(a) \/ DoIfRunning(a) \/ DoWrite(a) \/ DoSkipUnlessRunning(a)
  \/ DoApplyRuntimeFailed(a) \/ DoActivate(a) \/ DoDetach(a) \/ DoCleanup(a)

ActorStep(a) == Request(a) \/ Acquire(a) \/ Work(a)

Next == ProcessExit \/ \E a \in Actors : ActorStep(a)

Spec == Init /\ [][Next]_vars

(***************************************************************************)
(* Properties                                                              *)
(***************************************************************************)
\* No group of goroutines waits for each other's locks, and none waits for a
\* lock it holds itself: HoldConfigSnapshot, configMu, configFileMu,
\* lifecycleMu, networkLifecycleMu, svc.mu and NodeExposureService.mu.
NoCircularWait ==
  LET waiting == {a \in Actors : \E b \in Actors : Blocks(b, a)}
  IN  ~ \E S \in SUBSET waiting : S # {} /\ \A a \in S : \E b \in S : Blocks(b, a)

\* HoldConfigSnapshot "blocks new configuration-visible mutations until the
\* generated configuration has been applied and its core lifecycle action ends":
\* until the core launched by ReconcileCurrentForScheduledRestart counts as
\* started, it runs a configuration generated from the database as it is.
RestartLoadsCurrent ==
  \A a \in Ops \intersect {"scheduledRestart"} :
    Do("mustBeRunning") \in ToSet(todo[a]) /\ Do("spawn") \notin ToSet(todo[a])
      => loaded = db
=============================================================================
