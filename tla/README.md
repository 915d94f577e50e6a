# Verification of the Ackwrap backend

Ackwrap is a control plane for sing-box. A Go backend keeps subscriptions,
nodes, rules and settings in SQLite, generates a sing-box configuration from
them, runs the core process, takes over routes and DNS of the host for it, and
serves a browser over HTTP and websockets. It also manages SSH sessions.

This directory holds TLA+ models of the concurrent and crash-prone parts of that
backend, TLC configurations for small instances of them, and TLAPS proofs about
the core lifecycle. `PROJECT.json` maps every definition to the lines it models.

## 1. Inventory

| Part | State | Operations | What is hard about it |
|---|---|---|---|
| core lifecycle (`singbox.go` and neighbours) | `cmd`, `stopping`, two mutexes, a file lock, one exit goroutine per process | Start, Stop, Restart, ReloadConfig, Shutdown, recovery | exits at any step, stop timeouts, cleanup racing activation, backend death |
| network repair command | the same file lock, the host | plain and forced repair | runs in another process |
| transition guard, flow offload pause | nft table, journal of firewall options | protect, release, pause, restore | left in place after failures, crash between two writes |
| route ownership | journal of rules and tables (pending, ready) | record, promote, clean | deciding what belongs to a core that is gone |
| dnsmasq and device DNS takeover | uci options (staged, committed), journal, running dnsmasq | Activate, Restore, rollback | administrator edits, failing commands, crashes |
| configuration generator, reconcile, scheduled restart | tables, temporary and active file, snapshot lock, debounce timer | generate, apply, reconcile, restart | ten locks taken in several orders |
| settings, node exposure, DNS, files | tables, active-file marker | mode switch, exposure edit, server edit, activation | locks held across calls into the core |
| core installer, application update | runtime files, backups, core, install state | stage, replace, roll back | a failure after each of many steps |
| device protection | setting, journal, nft rules | enable, disable, mutate, restore | three stores that must agree |
| realtime hub | clients, queues, write pumps | register, broadcast, send, remove | four goroutines can drop the same client |
| SSH sessions, SFTP, MCP operations | session map, slots, owner, SFTP client | create, attach, expire, close, stop | disconnection during attach, unlocked dials |
| SFTP probe, upload tickets, host keys | generation, jobs, tickets | schedule, finish, claim | results of replaced jobs |
| subscriptions, nodes, groups, strategies | rows and references, `syncing` set | sync, edit, delete, clean up | edits during a fetch, several transactions |
| traffic usage | counters and checkpoint | sample | core restarts and month ends |
| parsers, handlers, MCP tools, frontend, packaging | none that outlives a request | conversion, display | sequential |

The core operations call into the takeovers and the guard; generator, settings,
exposure and installer call into the core while they hold locks; every service
publishes through the hub; SSH sessions depend on the hub for the end of a
connection. The hazards that follow from this are listed in `PROJECT.json`,
each at its line, with the property that would notice it or the reason why none
does yet.

## 2. Modules

| Module | Models |
|---|---|
| `CoreLifecycle` | the core lifecycle, the repair command, backend death and restart |
| `CoreLifecycleProofs` | theorems about `CoreLifecycle` |
| `DnsmasqTakeover` | journalled takeover of dnsmasq |
| `LockOrder` | lock sequences of the configuration and core operations |
| `ClientHub` | what the websocket hub promises (abstract) |
| `Realtime` | the hub as it is written; implements `ClientHub` |
| `SSHSessions` | SSH sessions, SFTP clients and MCP operations, on top of `ClientHub` |
| `MC...` | constants and symmetry for TLC |

**CoreLifecycle.** Each caller has a program counter whose labels are the places
where the code may be interrupted: before each lock, each host command and each
wait. A short section under `svc.mu` is one step; `start()` holds it over several
steps (`InStart`), and whoever asks for it then waits. Every launched process has an
exit goroutine (`waiter`) and a goroutine that cancels the startup context. The
host is reduced to whether the guard is installed, which takeovers are in force,
and whether routes of a core are left; any step that talks to the host may fail
where the code handles a failure. `dirty`, `forced` and `readied` are history
variables. `start()` reads the TUN state before it launches (the labels `launch`
and `launchTUN`), the core reads the configuration later in a step of its own, and
`coreConfig` remembers what it read. The labels beginning with `upd` are entry points for an updating
caller; no caller takes them until the installer is modelled.

**DnsmasqTakeover.** One variable per place where options live: staged in uci,
committed, loaded by the running dnsmasq, and kept in the state file. A crash
may happen between any two commands; it leaves dnsmasq alone or is a reboot.
`uci show` prints what is staged, so every reading of the manager
(`CurrentSnapshot`) sees the administrator's uncommitted change, while its own
commit goes through a private delta and leaves that change staged. A commit over
options the manager has not read may leave a list with servers of both writers
(`Mixed`). `user` remembers what the administrator committed last; `raced` marks
an edit inside the window between the recheck and the commit, which the code
cannot see; `misread` marks that the manager went on with a staged change as if
it had been committed. The properties except `raced` or `misread` where they
have to.

**LockOrder.** An operation is a sequence of lock, unlock and work steps; a
failed step continues with the deferred unlocks. Tables, temporary file, active
file and running core carry version numbers. A reader of `configUpdateMu` also
waits behind a waiting writer, as in `sync.RWMutex`.

**Realtime and ClientHub.** `Realtime` has the queue of each client, its write
pump, its request goroutine and the duties of whoever removed a client. Events
are versions of the backend's state: a goroutine changes the state of its service
under that service's mutex and broadcasts afterwards, so changes may be announced
in another order than they happened. `ClientHub` has five stages per connection.
The refinement mapping is `HubStage`: a client that is out of the map is
"leaving" while somebody still owes the close handler a call.

**SSHSessions.** Extends `ClientHub` and adds the session map, the slot counters,
and one program counter for each CreateSession call, connection reader, close
handler, expiry goroutine, SFTP request and MCP operation. Each critical section
is a step, and what runs without a lock (dialling, opening a shell, `sftp.NewClient`)
is a step of its own. A collection by the SSH monitor counts among the SFTP
operations of its session (`MonitorBegin`). Session identifiers do not collide and tokens are right.

## 3. Runs

Passing runs (distinct states in brackets):

| Run | Instance | Shows |
|---|---|---|
| `core` (1,178,407) | two callers, two processes, five scenarios: start beside repair and a backend death; restart beside repair; stop and restart beside a foreign core and a backend death; reload and application update with changing configurations; shutdown and return of the backend | never two managed cores; no launch over leftovers; takeovers cleaned or reported; a route-managing core is not taken down unguarded; only a ready core or a forced repair removes the guard; a repair leaves a running core alone; no late cleanup reaches into the next start |
| `core_live` (65,820) | two callers, one process, both takeovers, a late cancelling goroutine, three scenarios: start and restart; start and shutdown; start beside forced repairs | operations return, `stopping` ends, exits are handled |
| `dnsmasq` (171,786) | two edits, two crashes | the administrator's options are never lost; the state file is given up only when they are back; edits are not overwritten |
| `locks` (548,249) | four mixes of eleven operations | no circular wait; locks given back on every path |
| `realtime` (749,796) | two clients, queue of two, two versions | streams in the order of the broadcasts, nothing missed, close handler told once, sends under the lock cannot block |
| `realtime_live` (117,480) | two clients, queue of one, one version | implements `ClientHub`; dead clients are removed |
| `ssh` (805,707) | four casts of connections, sessions, SFTP requests and MCP operations | slots exact, limits hold, nothing survives Close; no orphaned session, shell or SFTP client; expiry takes only unattached sessions |
| `ssh_live` (69,412) | two connections, one session | unattached sessions expire; sessions of lost connections are closed |

A behaviour of `core` or `core_live` is one of its `Scenarios`, one of `locks` uses one of the
`Mixes` of operations and one of `ssh` one of the `Casts` (see the MC modules):
every combination is explored in full, without the product of all of them.

Runs that TLC finds violated, each a disagreement between the code and what a
comment in it says (quoted under `findings` in `PROJECT.json`):

| Run | Property | What happens |
|---|---|---|
| `core_cancel_lag` | `NoSilentResidue` | the goroutine that cancels the startup runs late; dnsmasq is taken over for a core that is gone |
| `core_exit` | `ExitLeavesNoCore` | a start in flight during PrepareShutdown launches a core that outlives the backend |
| `locks_mode` | `NoCircularWait` | a mode switch and a scheduled restart wait for each other |
| `locks_restart` | `RestartLoadsCurrent` | a node is disabled while a scheduled restart holds the snapshot; the core starts with the older tables |

The models have further disagreements that no run of the list shows. The first two
appear within seconds when `Ops` and `Mixes` of `LockOrder_mode.cfg` name them:

- `{"scheduledRestart", "start", "exposure"}`, or `update` instead of the restart,
  violates `NoCircularWait`: an exposure edit holds `NodeExposureService.mu` and
  waits for the snapshot, which is kept while `SyncRuntime` waits for that mutex
  (`node_exposure.go:280`).
- `{"scheduledRestart", "start", "activate"}` violates `NoCircularWait`: when
  another file becomes active between apply and restart, the scheduled restart
  regenerates under the snapshot it holds (`config_generator.go:250`).
- Without its exception for `misread`, `GivenUpRestored` is violated in ten states:
  an Activate fails with the takeover committed, the administrator stages the
  original options, and Restore reads those, restarts dnsmasq and removes the state
  file, although the takeover is still what is committed
  (`dnsmasq_takeover_linux.go:193`).
- A configuration that is replaced between start()'s read of the TUN state and the
  core's own read, and once more before the guard is asked for, leaves a core with
  routes unguarded; `TransitionGuarded` leaves this case out (`singbox.go:57`,
  `core_transition_guard.go:30`).
- Two broadcasts may overtake each other, "stopped" before "stopping" for
  instance; `NoMissedUpdate` asks for the current state to come last only if the
  broadcasts came in order.

What the passing runs leave out because of this: `core` takes the cancelling
goroutine to be prompt (`CancelLag = FALSE`; `core_live` lets it lag), and no mix
of `locks` contains one of the combinations above or that of `locks_mode`. `locks`
therefore does not say that the program is free of deadlock; it says that the
operations in each mix are.

`GuardNeedsReadyCore` counts a core that has died and is not yet detached by its
exit goroutine as ready, as `markStarted` does. `OperationsReturn` has the service's
own operations and exit goroutines as holders of `networkLifecycleMu`, and the
repair command as a holder of the file lock; the mode switch and device
protection, which hold the mutex too, are not actors of `CoreLifecycle`.

## 4. Bounds

- *Two callers, two processes.* The races of the lifecycle are between two
  operations, or one operation and the exit of one core; the second process is
  needed for a restart and for a core left by a dead backend. `core_live` has one
  process, so that a second launch fails there. The theorems below have no such
  bound.
- *Route-managing configurations, except in one scenario.* These are the ones that
  leave routes and need the guard; the scenario with reloads and application updates
  switches between both kinds, without faults of the backend.
- *One takeover in `core`, both in `core_live`.* The two are activated one after
  the other by the same steps.
- *One backend death, one foreign core; two crashes and two edits for dnsmasq.*
  The second crash of dnsmasq can happen inside the recovery from the first.
- *Each lock operation once at a time.* An operation may be requested again
  after it returns. Two of the same kind take the same locks in the same order.
  Versions past `MaxWrites` are not told apart.
- *Queue of two, two versions.* The queue overflows, and an event can fall
  before, during and after an initialisation.
- *Two session requests and three MCP operations, three slots, two per host, two
  hosts.* The code has four and two. Two holders share a host, and each limit is
  reached while the other is not.
- *Two connections and one session, or one and two.* An attach race needs a pair,
  the list a close handler works through needs two sessions; two connections with
  two sessions are too many states. SFTP requests meet one connection and one
  session.

Deadlock is checked in `dnsmasq` and `locks`. The others stop
legitimately: processes, connections and session requests are bounded sets that
are used up.

## 5. Fairness

- `CoreLifecycle`: strong fairness for callers, exit goroutines, repair and the
  recovery at boot, because a Go mutex hands itself to a goroutine that has waited for long and
  `flock` queues its waiters. Weak fairness for the context goroutine and for
  the death of a process that was sent SIGKILL. Nothing makes a core exit by
  itself.
- `LockOrder`: none; only safety is checked.
- `Realtime`: the request goroutine and the pump run; a write ends by its
  deadline; whoever removed a client goes on. Nobody has to connect or publish.
- `ClientHub`: weak fairness of `Tell` only, which `Realtime` is shown to give.
- `SSHSessions`: goroutines run, the remote answers or times out, deadlines
  pass. Nobody has to create, attach, close or disconnect.

## 6. Proofs

`CoreLifecycleProofs` proves for any set of callers and any values of the bounds:

- `TypeCorrect`: `Spec => []TypeOK`;
- `AtMostOneManagedCore`: `Spec => []OneManagedCore`. Of all cores the service
  ever launched at most one runs, whatever timed out, crashed or was repaired.

The assumptions are those of `CoreLifecycle`: the names of callers, processes
and the repair command differ, bounds are natural numbers, switches are Boolean
or subsets of their ranges. TLC evaluates them on each core run.

`OneManagedCore` is not inductive: a state with one core up and a caller about
to launch satisfies it. The inductive invariant is

    OneCoreInv == TypeOK /\ NetOwner /\ LaunchAlone /\ ManagedUsed /\ OneManagedCore

- `NetOwner`: whoever is at a label between taking and releasing
  `networkLifecycleMu` is its owner. It makes the launch exclusive.
- `LaunchAlone`: a caller that is about to launch has verified that no managed
  core is up. `StartVerify` establishes it, and nobody else can launch before
  the caller does, by `NetOwner`.
- `ManagedUsed`: a process that was launched is not "unused", so that a launch
  never takes the number of an existing one.

The lemmas follow the actions: caller steps other than the two critical ones
either keep the mutex or give it up and launch nothing (`CallerNet`, `NetKept`);
`StartVerify` and `StartLaunch` have lemmas of their own; then entries, process
steps and host steps.

Only model-checked: the other properties. Liveness and the refinement with
fairness are out of the prover's reach; the remaining safety properties are
planned.

## 7. Not modelled

- *Data*: the generated JSON, rule and subscription formats, nft and uci syntax,
  SQL. Models see versions, snapshots and whether a step succeeded.
- *Packet probes and remote deployments*, which `SSHHostService.Close` cancels along
  with the sessions.
- *Terminal and file contents*, window sizes, tokens, text locks and the registry of
  uploads of an SSH session.
- *Parts without concurrency or recovery*: parsers, handlers, MCP tool schemas,
  measurements, frontend, packaging.
- *Parts that are planned*: see below.
- *Loss of file contents that were not synced.* A crash in `DnsmasqTakeover` may
  be a reboot, after which dnsmasq runs on what is committed, but files keep what
  was written.

## 8. Plan

In this order:

1. `ConfigReconcile`: debounce timer, coalesced reasons, Close; composed with
   the scheduled restart and its generation counter.
2. `SubscriptionSync`: overlapping syncs, edits and deletion during a fetch,
   references of groups and strategies.
3. `InstallerUpdate`: each failure of an update and its rollback, through the
   update labels of `CoreLifecycle`.
4. `SftpProbe` and `UploadTicket`: replaced jobs, generations, single use.
5. `DeviceProtection`, `OffloadPause` and `RouteOwnership`: journals against
   crashes, next to `DnsmasqTakeover`.
6. `TrafficUsage` and `NodeExposure`: counters and rows against core restarts.
7. Termination of the lock operations under fair locks, on a small mix.
8. `CoreService`: an abstract service (stopped, starting, running, stopping)
   that `CoreLifecycle` implements.

Theorems worth proving next: `LaunchOnCleanHost` and `GuardNeedsReadyCore` from
a stronger `OneCoreInv`; `OriginalKept` for any number of edits and crashes;
`QueueBounded` and `ToldOnce` of `Realtime`, and its steps as steps of
`ClientHub`; `LimitsHold`, `NoOrphan` and `StopLeavesNothing` of `SSHSessions`;
absence of circular waits from a ranking of the locks, for the operations that
respect it.
