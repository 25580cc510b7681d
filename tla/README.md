# A TLA+ verification of the moby daemon: containers, their health, names, volumes and pulls

Moby's daemon keeps, for every container, a record of what state it is in, and
changes that record from many goroutines at once: API calls, the queue of
containerd events, restart timers, removals, a shutdown.  Around it are the list
of containers with its names and its copy on disk, the volumes containers hold
references to, the subscribers of status changes, the health checks, and the
layers that pulls share.  This project models these parts, checks them with TLC on small
instances, and proves their safety properties with TLAPS for any number of
clients, containers, names, volumes or pulls and for any bounds.

    tlc -workers 2 -config Lifecycle_faults.cfg MCLifecycle
    tlapm ContainerLifecycleProofs.tla

## 1. The system and its parts

`PROJECT.json` lists every part with its sources.  What decided the choice of
what to model:

| part | state | what is hard about it | module |
|---|---|---|---|
| container lifecycle (`daemon/{start,stop,kill,restart,pause,unpause,delete,monitor}.go`) | the `State` of a container, HasBeenManually{Stopped,Restarted}, its layer | each call is several locked sections; what was true in one need not be in the next | `ContainerLifecycle` |
| container state (`daemon/container/state.go`) | the flags, exit code, error, wait channels | waiters around the moment of a change; an error message that outlives its cause | `ContainerState`, `StateSetters` |
| restart manager (`daemon/internal/restartmanager`) | canceled, active, restartCount | its timer against a stop | `ContainerLifecycle` |
| containerd event stream (`daemon/internal/libcontainerd`) | a FIFO per container | events of an earlier run; lost and repeated exits | `ContainerLifecycle` |
| status watchers (`daemon/container/state_watch.go`) | the last change, the subscribers and their queues | two locks, a one-token channel, bounded queues | `StateWatch`, `StatusFeed` |
| health checks (`daemon/health.go`, `daemon/container/health.go`) | status, failing streak, log; the channel of the monitor | a monitor is stopped without waiting for it; a probe outlives a pause or a run | `HealthMonitor` |
| create, names, restore (`daemon/{create,names,rename,delete,daemon}.go`) | the list of containers, the name table, the directories | one step of several fails; a crash between two saves | `ContainerRegistry` |
| volume store (`daemon/volume/service`, `daemon/{volumes,mounts}.go`) | references in memory, records in a database, volumes in a driver | a reference taken during a removal; references lost in a restart | `VolumeStore` |
| image transfers (`daemon/internal/distribution/xfer`) | transfers, watchers, slots | the last watcher leaves while a new one comes | `LayerTransfers` |

Exec sessions, the layer store itself, NetworkDB, the allocators
and what is only I/O or vendored code are not modelled: section 7.

## 2. How the models meet

A container is in five models, which cut it along different lines.

- `ContainerLifecycle` has **one** container with everything that changes its
  `State`, and knows nothing of names or the disk.
- `ContainerRegistry` has **several** containers, their names, directories,
  layers and processes, a crash and the restore that follows; of the `State` it
  keeps what is saved: running and dead.  Its start, exit and removal are those
  of the lifecycle with the steps that do not touch any of these left out.
- `VolumeStore` has the containers as owners of references, from the first
  mount point of their creation to the last one of their removal, and restarts.
- `StateWatch` and `HealthMonitor` have **one** container of which they know only
  the `State`, and what hangs on its changes: the subscribers, the monitors.

The link between the first and the last two is **`StateSetters`**: which method of
`State` may be called in which state, and nothing else.  `StateWatch` and
`HealthMonitor` take it as what can happen to the container, so that their
results hold for any daemon that keeps to it; that `ContainerLifecycle` does is a
refinement (`ImplementsSetters`), checked by the run `remove` and proved
(`OnlyMethodsOfState`).

Three more facts of one model are used by another.  That only one removal at a time is
past `SetRemovalInProgress` is a theorem of the lifecycle (`OneRemoval`) and is in
the registry the claim a goroutine has (`Claimed`).  That a removal finds no
process is `RemovalWaitsForProcess` in the first and the guard of `RmDead` in the
second.  That a container's removal and its creation do not run at the same time
is `ActOk` in the registry and the state of a container in `VolumeStore`.

`LayerTransfers` meets the others only in the layers: what a
pull returned exists while the pull holds it.

## 3. Modules

| module | what it is |
|---|---|
| `ContainerState` | the record `State` and its methods, as operators |
| `StateSetters` | when the daemon may call which of them (abstract) |
| `ContainerLifecycle` | one container, its clients, its goroutines, its containerd task |
| `LifecycleStepProofs` | every step of the lifecycle keeps `LifecycleInv` |
| `ContainerLifecycleProofs` | the theorems on the lifecycle; every step keeps `RunInv`; the lifecycle implements `StateSetters` |
| `StatusFeed` | what `StatusChanges` promises (abstract) |
| `StateWatch`, `StateWatchProofs` | how it works; its theorems, with the refinement |
| `HealthMonitor`, `HealthMonitorProofs` | the monitors of a container and its health; the theorems |
| `ContainerRegistry` | containers, names, disk, crashes and restore |
| `ContainerRegistryProofs` | every step keeps `NamesInv` |
| `RegistryRestoreProofs` | every step keeps `RegistryInv`; the theorems on restore and removal |
| `VolumeStore`, `VolumeStoreProofs` | the store, the containers and the clients; the theorems |
| `LayerTransfers` | transfer manager and `Download` |
| `LayerTransfersProofs` | every step keeps `TransfersInv`; the theorems |
| `MCLifecycle`, `MCStateWatch`, `MCHealth`, `MCRegistry`, `MCVolumes`, `MCTransfers` | the instances for TLC |

Definitions that end in an underscore and a remark (`ExitOnNext_NotCanceled`) are
mutants: a plausible bug in the definition of that name, which the properties
are known to catch.  No specification uses them.

### ContainerState and ContainerLifecycle

**State.** `st` is the container's `State`: Running, Paused, Restarting,
RemovalInProgress, Dead, removed, Pid, ExitCode, ErrorMsg, and whether StartedAt
and the task are set.  A process is named by the number of its run, and Pid is
that number.  `manuallyStopped`, `manuallyRestarted`, `rm` (the restart manager)
and `restarter` (the goroutine that waits for `ShouldRestart`'s channel) are the
rest of the container.  `layer` and `registered` are what a removal releases.
`task` is containerd's task and `queue` its events on their way to
`ProcessEvent`.  `act` says of each actor (a client, the event goroutine, the
reaper that `killWithSignal` starts) where in which call it is, and `wait` holds
the result channel of its `State.Wait`.  `misfired` is history only: section 6.

**Actions.** The container lock is held for the whole of a locked section, so a
locked section is one action; what lies between two of them is a step
boundary.  The correspondence:

| code | actions |
|---|---|
| `ContainerStart`, `containerStart` | `ContainerStart`, then `containerStart` (the locked section with its deferred error path: `FailEarly`, `CreateTaskAndFail`, `StartTask`; an AutoRemove container that fails goes on to a removal) |
| `ContainerStop`, `containerStop` | `ContainerStop`, `StopEnter` (the unlocked IsRunning), `StopSignal`, `Wait` and `WaitReturn`, then as in `kill` |
| `ContainerKill`, `kill`, `killWithSignal`, `killProcessDirectly` | `ContainerKill`, `KillEnter`, `KillSignal`, `killProcessDirectly`; `killWithSignal` is the locked section: it returns an error at once when `GetRunningTask` does (not Running, or Restarting after a first start that failed and so without a task), and may start the reaper |
| `State.Wait` | `Wait` (the condition holds already, or the channel is registered), `WaitReturn` (a result, or the timeout if there is one) |
| `containerRestart` | `ContainerRestart`, `RestartMark`, the stop, the start, `ClearRestarted` |
| `ContainerPause`, `ContainerUnpause` | one action each |
| `containerRm`, `cleanupContainer` | `ContainerRm`, `RmEnter`, `RmCheck`, the kill and the stop, `RmDead`, `RmLayer`, `RmFs`, `RmUnregister`, `RmRemoved`, `RmReset` (the deferred reset) |
| `shutdownContainer` | `Shutdown`, then a stop and a wait without timeout |
| `ProcessEvent`, `handleContainerExit` | `EventExit`, `EventStart`, `EventPaused`, `EventResumed`, `EventDropped` (the container is not in the list any more) |
| the reaper of `killWithSignal` | `ReapExit` |
| the restart goroutine of `handleContainerExit` | `RestartTimer`, `RestartCanceled`, `RestarterStart`, `RestarterFailed` |
| containerd (external) | `ProcessExit`: a process exits by itself or by a signal, and its exit event is delivered once, twice or never |

**Abstractions.** Exit codes are 0, 1, 137 and the daemon's 128.  ErrorMsg keeps
the kind of error only.  Times are gone: a timeout may fire at any moment, a
back-off delay is "some time later".  Mounts, networking and the OCI
specification are "may fail here": the constant `Errors` says which of the six
places (before the task exists, after, in networking, in a signal, in releasing
the layer, in removing the directory) do.

### StateSetters, StatusFeed and StateWatch

`StateSetters` has one action per method of `State`, each one call under the
container's lock.  Its guards are what the callers have checked under that lock or
know because they hold the removal.  Most methods have no guard at all: an exit can
be handled of a container that has stopped, a pause reported of one, and the
restart goroutine starts without asking whether the container runs.

`StateWatch` has one action per setter (each ends in `change`, but for the ones
that do not report), and for a
watcher one step per critical section: `Subscribe`, `YieldResult`, `nextStatus`
(a look at the queue under statusMu), `Select`.  A snapshot is reduced to its
status, since only the status decides whether a change is reported.  `log` and `next` are history variables: the changes so far, and
the number of the one each watcher is to see next.

`StatusFeed` is the promise: an append-only log, and watchers that read it from
where they started, each entry once and in order, until the removal; a watcher
fails only if its context is done or it has not seen everything.

### HealthMonitor

**State.** `st` is the container's `State`, and `run` its latest run.  `Status`,
`FailingStreak` and `Log` are `State.Health`; a log entry keeps the run its probe
was begun in and whether it succeeded.  `stop` is the channel that is open.  Each
channel ever made has its number, and `mon` says of the monitor that was given it
where it is: in the select between two probes, in the select of a probe, waiting
for the container's lock with a result, waiting for a probe it has cancelled, or
gone.

**Actions.** The handlers that touch the health checks, each under the container's
lock: `Starts` and `StartsExternally` (with `initHealthMonitor`), `Exits` (with
`stopHealthchecks`), `Pauses` and `EventOOM` (with `updateHealthMonitor`), and
`RestarterFailed`, which sets the state and leaves the health checks alone.  Of a
monitor: `TimerFires`, `StopIdle`, `ProbeEnds`, `TakeResult`, `handleProbeResult`,
`StopProbing`, `Drained`.  A select whose channel and timer, or channel and result,
are both ready may take either.

**Abstractions.** A timer may fire whenever it is armed and a probe take any time,
so intervals are gone; a failure of a starting container may or may not be within
the start period.  A failed start and a removal neither touch the health checks nor
set Running or Paused and are left out.

### ContainerRegistry

**State.** Memory: `containers` (the daemon's list), `names` (the name table),
`Name`, `dead`, `running`, `RemovalInProgress`, `RWLayer`, the locks held across
steps, and `boot`, where restore is with a container.  What outlives the daemon:
`disk` (no directory, an empty one, or the saved name and flags), `layers`,
`alive` (processes in containerd) and `event` (exits it has still to report).

**Actions.** A create is `Create`, `CreateLayer`, `CreateRoot`, `Register`, each
with its error, which goes on to the same clean-up a removal uses; `CreateFails`
is an error of `newContainer` after the name was reserved, when the clean-up is not
deferred yet.  A `CheckpointTo` has four outcomes: it saves (`Saved`), it fails
(`NotSaved`), it fails with config.v2.json replaced (`HalfSaved`), or the deferred
`Close` of `toDisk` fails and nobody hears of it (`Unwritten`).  Where its error is
only logged the last two are the effects of the first two (`TrySave`).  A rename is
`RenameGet`, `RenameReserve`, `RenameSave`, `RenameSandbox`, with `RenameDone` and
`RenameUndo` for its deferred functions.  A removal is `RmGet`, `RmClaim`,
`RmStop`, `RmDead`, `RmLayer`, `RmRoot`, `RmForget`, `RmNames`; `ReapGone` is an
autoRemove that finds its container gone.  A start is `StartTask`, `StartSave`;
an exit is `TaskExit`, `HandleExit`.  `EnsureRemoveAll` may fail, or the daemon die in it, once the configuration is
gone and the directory is not.  `Crash` forgets the memory at any moment and
chooses live-restore on or off for the next daemon; `BootNoLayer` (an error of
`GetLayerByID`, which is only logged), `BootRegister`, `BootSync` (with `BootSyncError`, `BootStatusError`), `BootStart`, `BootNoStart`
and `BootRemove` are the loops of `restore`, which wait for one another where
the code does (`group.Wait`).

Three history variables name the known leaks, so that the properties can except
exactly them: `orphans` (a create that failed once it was registered, that was not
cleaned up, or that the daemon died in; a container that restore removes while
autoRemove does), `loose` (names a rename lost track of, or left on disk when it
gave them up) and `lost` (containers whose layer `GetLayerByID` did not find, and
those without a configuration on disk when the daemon died).  hostconfig.json is
part of the configuration: that a removal or a write may lose it alone is left out.

### VolumeStore

`names`, `refs`, `db` and `driver` are the store's cache, the references, the
database and the volumes the drivers have.  A call of the store runs under the
lock of the volume's name and is one step, unless it changes the driver first and
the records after: then the lock is held across two (`CreateInDriver` and
`RecordCreate`, `RemoveInDriver` and `RemovePurge`).  A lookup ends in one of three
ways: the driver has the volume (`GetFound`); `lookupVolume` returns nil, since it
does not have it or answers with an error that is no `net.Error`, and the store
purges what it knows (`LookupNil`, `GetMissing`); or the lookup itself fails
(`GetFails`).  A container goes through its creation mount point by mount point:
those of another container first (`CtrFrom`, `CtrFromDone`), then its own
(`CtrCreateKnown`, `CtrCreateNew`, `CtrRecord`, `CtrCreated`).  A create that fails
releases what `registerMountPoints` took, or after that is cleaned up, or is not if
the clean-up fails (`CtrFails`, `CtrCreateFails`, `CtrCleanup`).  A container starts
(`LazyInit`) and is removed reference by reference (`CtrRemove`, `CtrRelease`,
`CtrGone`), its anonymous volumes with it.  Clients create, inspect (`Lookup`),
remove with and without force, and prune.  `Crash` drops the references;
`LazyInit`, `LiveRestore` and `Prepared` are the pass of `prepareMountPoints`, which
gives up at the first error.

Two history variables name what the properties except: `leaked`, references of
creates that failed and were not cleaned up, and `forgotten`, references that a
purge took from a mount point.

### LayerTransfers

One action per section under `tm.mu` or `t.mu`: `transfer` and `Watch` (with
`CheckContext`, which holds `tm.mu` only), `release`, `inactivate`, `close`,
`setConcurrency`; the job of a transfer (`JobStart`, `Download`, `AwaitParent`,
`AwaitSource`, `Register`), the goroutine that removes it from the map, the one
that gives its layer back; and a call of `Download` from `Lookup` over the
layers, bottom up, to `ReleaseImage`, or, when it fails or its context ends, to
`Unwind`.  A transfer is named by the call that created it and its place.

## 4. Runs

Sizes are distinct states.  No run checks deadlock: a container whose calls have
all returned may rest, and so may a watcher that left.

| run | instance | what it shows |
|---|---|---|
| `faults` (3,472,961) | one client starts, stops, restarts, kills, signals and pauses; on-failure with one retry, starts that fail once the task exists, one exit event lost or repeated; 3 runs | no interleaving loses a live process (`RunningIfAlive`); a stop that succeeds ended the process it found (`StopKills`) and no restart is on its way (`StopIsFinal`); the exit that matters is never ignored (`ExitNotLost`); the recorded code is that of the last process, with one exception (`ExitCodeReported`); the inductive invariant `RunInv` |
| `remove` (2,521,463) | two clients start, pause, unpause and remove an AutoRemove container whose start, signals and removal may fail | one removal at a time (`RemovalExclusive`), none of a live container (`DeadHasNoProcess`), none undone (`DeadStaysDead`); the Paused flag is what containerd says, with one exception (`PauseAgrees`); the `State` changes only as `StateSetters` allows (`ImplementsSetters`); the inductive invariant `LifecycleInv` |
| `live` (256,267) | one client starts, stops and shuts down, exits lost or repeated; `FairSpec` | calls return, a shutdown too unless the exit event is lost (`EveryCallReturns`), exits are handled (`ExitIsHandled`), Restarting ends (`RestartingEnds`) |
| `watch` (283,258) | one watcher, a queue of two, three changes; fair | changes form a chain (`ChangesChain`), of which the watcher sees a run (`WatcherChain`), the promise is kept (`ImplementsFeed`), a change wakes the watcher (`ChangeIsSeen`), a removal ends its iteration (`RemovalEndsWatch`); the inductive invariant `WatchInv`, which says that the queue is what has not been seen, that a drop is reported and that no wake-up is lost |
| `health` (116,934) | two runs, two monitors, one restart goroutine, Retries and the log of two; fair | a container has a monitor exactly when it should, with one exception (`MonitorMatchesState`); healthy is earned (`HealthyIsEarned`); a late result counts for nothing (`ResultsAreCurrent`); a monitor that was stopped ends (`StoppedMonitorsEnd`); the inductive invariant `HealthInv` |
| `registry` (1,530,009) | two containers, one AutoRemove and one with a restart policy, two names, two goroutines, one crash, one error | a container owns its name (`OwnsItsName`); restore leaves nobody out (`NobodyLeftOut`) and revives nobody (`DeadOnDisk`); what is shown as running runs (`RunningHasProcess`); a removal or a failed create leaves nothing (`NothingLeftBehind`); the inductive invariant `RegistryInv` |
| `volumes` (869,850) | two containers that share a named and an anonymous volume, one possibly from the other, a client, two errors, one restart | a volume in use is there unless an error of its driver made the store forget it (`VolumeInUse`); no reference is left over but of a create that was not cleaned up (`RefsHaveOwner`); the inductive invariant `VolumesInv` |
| `transfers` (297,504) | two pulls that share the lower layer, one slot or no limit; fair | nobody is left with a cancelled transfer (`NobodyWatchesCancelled`), no slot leaks (`SlotsAccounted`), what was pulled exists (`PulledLayersExist`), every pull returns (`DownloadReturns`); the inductive invariant `TransfersInv` |
| `stale_reaper` (645), `restart_flag` (376), `stop_forever` (928), `rename_rm` (419) | one client, or one container with two names and two goroutines | what comments in the code say, violated: section 6; the number of states is that of the search up to the counterexample and varies a little |

**Bounds.** `MaxRuns` bounds the processes of a container.  Two runs are what it
takes to confuse one run with the next, which is the subject of all the safety
properties; `faults` has three, so that the retry count is used up.  `MaxFaults`
of the lifecycle = 1 loses or repeats one exit event; elsewhere it bounds the
errors of disks, drivers and containerd.  `MaxQueue` stops clients from pausing
and unpausing while many events are queued.  At most one reaper and one restart
goroutine exist at a time.  A second kill that finds no process while a first
reaper waits starts a reaper that the model never schedules.  A second restart
goroutine would need an exit handled while the container is Restarting, which is
what `misfired` records (`RestarterInv`).  For the watchers, a queue of two
stands for the 64 of the code: it can be empty, hold one change of several, and be
full.  For the health checks two channels are an old monitor beside a new one, and
with `MaxStreak` = Retries the streak reaches its limit.  The theorems of section 5 hold for every value of all these bounds.

**Larger instances** that were checked beside the runs, without error, while the
invariants were being found:

- registry with two crashes, so that a daemon dies during restore too (2,957,118);
- health checks with three monitors, for the safety properties (2,179,542);
- two watchers with queues of one, two changes, for the safety properties
  (2,439,054);
- lifecycle: `faults` with one more pause while an event is queued (4,325,245);
  two clients start, stop and restart, policy always (1,727,891); two
  clients, all of start, stop, rm -f, policy always, all errors
  (9,320,877); two clients start, stop, restart, pause and unpause, on-failure
  (6.1 M) and always (8.3 M); two clients start, stop, pause, unpause with one
  exit lost or repeated (16.2 M); one client, three runs and one lost or
  repeated exit (14.3 M); two clients with a shutdown and
  stops without timeout (366,652).

**Escape clauses.** `EveryCallReturns` and `RestartingEnds` say nothing once
`MaxRuns` processes have been started, because the model cannot start another.

**Fairness.** Every goroutine that can run does (`WF` of each actor's step, of
the event queue, of the restart goroutine, of each watcher), which Go's
scheduler gives; a timeout that has been set fires, which is part of the actor's
step; a process that was sent SIGKILL exits, which is the kernel's part.  A
process may ignore its stop signal for ever, except in the `stop_forever` run
(`ObedientSpec`), where the point is that a process that would obey is never
told.  Nothing is assumed of clients, of the delivery of an exit event (it may
be lost), or of a process nobody signalled.  For transfers, the job and the
caller have weak fairness, and the steps that wait for `tm.mu` strong fairness:
a Go mutex hands itself to a goroutine that has waited too long.  A probe ends
(it has a timeout), and a monitor that finds its channel closed again and again
beside a timer that fires takes the channel in the end (`SF` of `StopIdle`): Go
chooses at random among the cases of a select that are ready.

## 5. Proofs

Every safety property that a passing run checks is also a theorem, for all values
of the constants.  None of them is inductive as it stands; each component has an
invariant that is, which a run checks too.

### The lifecycle

Two layers.  **`LifecycleInv`** is inductive by itself
(`LifecycleStepProofs`: one lemma per action over lemmas on what the methods of
`State` and the returns of the calls preserve).  To `RunningIfAlive`,
`RemovalExclusive`, `DeadHasNoProcess` and `StopKills` it adds

- `RestarterInv`: the restart goroutine exists only while the container is
  Restarting and has no process.  Without it `RestarterStart` could start a
  second process beside a live one.
- `RemovalInv`: which actor is where while RemovalInProgress is set, including
  the kill and the stop a removal calls.
- `GoneInv`: a result in a wait channel means that the process it was about is
  gone.  This carries the fact from the locked section that notified to the
  unlocked step that reads the channel.

Theorems: `InvariantHolds`, `TypeCorrect`, `NoProcessIsLost`,
`RemovalWaitsForProcess`, `SuccessfulStopKills`, `OneRemoval`, and the action
property `DeadIsForever`.

**`RunInv`** is inductive relative to `LifecycleInv` and is about what belongs to
which run:

- `EventInv`: an event in the queue is of this run or an earlier one; an exit
  event of this run has the code of the task; the last paused or resumed event of
  this run has its status.
- `TaskInv`: the container is Running, and not Restarting, exactly as long as
  containerd has its task; what the restart goroutine holds is the recorded code.
- `ExitNotLost` itself.
- `StopInv`: an actor that has called `ExitOnNext` and waits has a canceled
  restart manager before it, and once it has its result no restart is pending.

Its proof first sorts the steps into ten kinds by what they do to the task, the
queue and the state (`RunStep`, lemma `StepRuns`); the first three conjuncts are
kept kind by kind.  `StopInv` depends on where each actor is and is kept action
by action (`StopInvKept`): a step ends the run, or begins a new one or fails to,
which makes the claim empty for whoever asked before, or leaves the restart
manager alone. Theorems: `RunInvariant`, `NoExitIsLost`,
`NothingRestartsAfterAStop`, and the action properties `ExitCodesAreReported`
and `PausedFlagAgrees`.

**`OnlyMethodsOfState`** is the refinement of `StateSetters`, whose variable is
`st` itself.  The guard of each call is a fact about the caller at that moment:
that the removal is its own and has marked the container dead (`RemovalInv`), that
`containerStart` and `RestarterStart` have looked at the two flags under the lock.

Assumptions: `ConstantsAssumption` (types; clients are not goroutines) and
`AutoRemoveAssumption` (AutoRemove excludes a restart policy, which the daemon
enforces when a container is created or updated).

### The watchers

`WatchInv` adds to the properties who is subscribed (a watcher in its iteration
is, unless it was dropped or came after the removal) and that the removal is the
last change: the refinement needs the first to justify a failure by a change
still to be seen, and the second to justify the end of an iteration.  With the
two chains it is inductive again (`ChainInv`).  Theorems, for any set of watchers
and any capacity above zero: `WatchInvHolds`, `TypesHold`, `QueuesAreSuffixes`,
`DropsAreReported`, `WakeupsAreKept`, `ChangesAreAChain`,
`WatchersFollowTheChain`, and `FeedIsImplemented`: `StateWatch` implements
`StatusFeed`.

### The health checks

`HealthInv` is inductive by itself.  Its three parts need one another:

- `ChannelInv`: the open channel is the one made last, and all before it are
  closed, so that there is one monitor that has not been stopped at most;
- `MonitorInv`: a monitor leaves its loop only when it was told to, and the probe
  of the one that was not stopped is of the latest run.  This holds because each
  start closes the channel before it opens the next;
- `StatusInv`: starting and healthy imply an open channel and a streak below
  Retries, and the log is not longer than its limit.

From it follow `HealthInvariant` and the action property `LateResultsAreIgnored`.
`MonitorMatchesState` (`RunningIsMonitored`) is inductive relative to it, after
strengthening with the fact that a container that runs has a Health; so is
`HealthyIsEarned` (`HealthIsEarned`), where the work is in what cutting the log
does to the positions of its last entries.  The theorems hold for any number of
retries, log entries, runs, monitors and restart goroutines
(`HealthAssumption`: the first two are not zero).

### The registry

`NamesInv` (`ContainerRegistryProofs`) is about names alone: a create is alone
with its container until it is registered, a rename has the container's lock and
both names, and whoever is about to drop the names of a container has removed
its directory, so that a rename that comes too late fails in `CheckpointTo`.
Theorems: `NamesInvariant`, `OwnsItsNameHolds`.

`RegistryInv` (`RegistryRestoreProofs`) contains it and adds, for each container,

- `OnDisk`: the saved name is one the container owns, or one in `loose`, and who is
  at work on a container that is not known finds no directory, or is the create or
  its clean-up;
- `Claimed`, `DeadOk`: who removes it has claimed it, and nothing starts it
  between the look at running and the dead flag on disk;
- `ProcessOk`: what runs, or is about to be shown as running, has a process or an
  exit to be handled;
- `LeftOk`: a layer is with the container or with the goroutine that releases it,
  a directory or a name is of a container that is known or about to be cleaned
  up, and during restore a container is removed once more at most;

What a container may leave is part of `LeftOk`: an empty directory is of a create
that is not over, of a container that is known, or of one in `lost`
(`TracedOk`).  A saved configuration is of a container that is known, or of a
create that failed and still has its name reserved, so that after a restart both
are registered.

All of them are kept by every step in which one goroutine works on one
container, by a frame argument for the others (`LocalKeeps`); a crash needs a
proof of its own (`CrashOk`), since it turns what is on disk into all that is
known.  Theorems: `RegistryInvariant`, `NobodyIsLeftOut`, `SavedDeadStaysDead`,
`ARunningContainerHasAProcess`, `NothingIsLeftBehind`, for any number of crashes
and errors.  `RegistryAssumption` says that the sets are what they are named for
and that an AutoRemove container has no restart policy.

### Volumes and transfers

`VolumesInv` adds to the two properties that a create and a removal of one volume
are never both between the driver and the records, that a volume with references is
known to the store, and that the process of a container being removed has every
reference left on its list.  Theorems:
`VolumesInvariant`, `VolumeInUseHolds`, `RefsHaveOwnerHolds`.

`TransfersInv` relates the map of the manager, the watchers of each transfer,
the calls and the queue for slots: in particular a cancelled transfer has no
watcher but one that has not looked at its context yet, and one that is released
has none. Theorems: `TransfersInvariant`, `NobodyWatchesCancelledHolds`,
`PulledLayersExistHolds`, and `SlotsAccountedHolds`, which needs cardinalities
and is inductive relative to `TransfersInv`.

### Only model-checked

The liveness properties `EveryCallReturns`, `ExitIsHandled`, `RestartingEnds`,
`ChangeIsSeen`, `RemovalEndsWatch`, `StoppedMonitorsEnd` and `DownloadReturns`:
fairness and ENABLED are out of the prover's reach.

### What the proofs changed

Some properties had to be stated more exactly, because the step that should have
kept them does not:

- `PauseAgrees` and `ExitCodeReported` have one exception each, an event of an
  earlier run (section 6).  Both are action properties, so that the exception is
  the very step that applies such an event, and what holds before any other step
  holds after it.
- `StopIsFinal` needs `SignalMatches`: a stop with another signal than the
  container's StopSignal does not cancel the restart manager.  In return it says
  that there is no restart goroutine at all.
- `NothingLeftBehind` excepts a failed create whose clean-up fails as well, which
  takes two errors and is only logged (`create.go:219-224`), and what restore does
  not see again (`lost`).
- `NobodyLeftOut` and `OwnsItsName` except the names in `loose`, `VolumeInUse` the
  references in `forgotten` and `RefsHaveOwner` those in `leaked`: section 6 says
  how the code comes to each.
- `MonitorMatchesState` excepts a restart that is given up after a late event
  (section 6).

The attempt to show that the lifecycle implements `StateSetters` found guards that
were too narrow: in `StateWatch` an exit, a restart and a pause asked for a
container that runs, and a start for one that does not run or is Restarting.  The
code does not ask that, and now the module does not either.

## 6. Where the code and its comments disagree

**A late reaper stops a live container** (`stale_reaper`).  A kill that finds no
process starts a goroutine that waits for the container to stop, for as long as
its stop timeout says, and then calls `handleContainerExit` with no event.  Nothing rechecks the state under the
lock, so if the exit is handled and the container started again after the wait
timed out, the new process is recorded as stopped.  `kill.go:125` says the wait
"prevents race conditions in processing the container".  The history variable
`misfired` records such an exit (one handled while a process lives, or a second
time for the same process), and the other safety properties are stated for
behaviours without one: they would all fail after it for this one reason.

**A restart that starts nothing** (`restart_flag`).  `containerStop` returns nil
when `killProcessDirectly` finds the process gone, while the container is still
Running because its exit has not been handled; `containerStart` then returns
nil at once.  The restart succeeds, nothing is started, and
HasBeenManuallyRestarted stays set, which `restart.go:77` rules out.

**A stop that never returns** (`stop_forever`).  If the restart timer has fired
and the restart goroutine has not taken the lock, canceling the restart manager
has no effect; `killWithSignal` sends no signal to a Restarting container, so a
stop with a negative timeout waits for a process nobody told to stop.
`kill.go:105` says telling the monitor "is enough".

**A name that stays taken** (`rename_rm`).  A rename that looked its container up
before a concurrent removal finished fails in `CheckpointTo`, and its deferred
function reserves the old name again, for a container that no longer exists.
`delete.go:25` says the name is released if the remove succeeds.

Observed while modelling, and not made into runs:

*Lifecycle*

- `ProcessEvent` (`monitor.go:315-342`) does not compare an event with the current
  task.  A paused event left in the queue when a reaper handled its run is applied
  to the next run; a container that so stays Paused takes the exit event of an
  earlier run for its own, since a repeated exit is recognised by its code only
  when the state is running (`monitor.go:424`).
- `State.Err()` is the recorded error message, so a wait that ends well after an
  earlier failure reports an error, and a stop goes on to its kill
  (`stop.go:100-127`); `StopKills` and `GoneInv` hold for either result.
- A shutdown waits without a timeout, so it hangs on a lost exit event.

*Health checks*

- `CloseMonitorChannel` does not wait for the monitor, so after a pause, a restart
  or a start the old one may still have a probe under way while the new one
  probes: "There is never more than one monitor thread running per container at a
  time" (`health.go:255`) is true only of monitors that have not been stopped,
  which is what `HealthInv` says.
- `updateHealthMonitor` asks for Running and Paused and not for Restarting.  An OOM
  or resumed event that comes after its exit was handled opens a monitor for a
  container that waits to be restarted; if that restart is given up, the monitor
  goes on for a stopped container until the next start.
- A pause makes the status unhealthy, and after it the container is no longer
  starting: failures within its start period count.

*Registry*

- The undo of a rename releases the new name, by which time a removal may have
  released it and another container taken it (`loose`).  If its second
  `CheckpointTo` fails, or its first fails with config.v2.json replaced, or a
  rename succeeds whose configuration `Close` did not write, the name on disk is one
  that was given up: if another container is given it before the next restart,
  restore drops one of the two (`daemon.go:346-352`).
- `toDisk` (`container/container.go:209`) does not look at the error of `Close`,
  which puts the file in its place, and `Close` does so also when `toDisk` returns an
  error.
- An error of `GetLayerByID` is logged and the container is registered without its
  layer (`daemon.go:333-340`); a removal then has nothing to release, and the layer
  stays.
- A removal that fails in `EnsureRemoveAll`, or that the daemon dies in, may leave a
  directory without config.v2.json.  The container can be removed again until a
  restart; after it nothing knows the directory, nor the layer if there is one.
- `newContainer` returns an error of `os.Hostname` after the name was reserved
  (`container.go:118-128`) and before the clean-up is deferred (`create.go:211-214`):
  the name stays taken until a restart.
- A crash between the start of a task and `CheckpointTo` leaves a process of a
  container that is saved as not running.  Without live-restore it is to be shut
  down ("shutting down container considered alive by containerd",
  `daemon.go:477`), but `containerStop` returns at once (`stop.go:52`), and a
  removal then removes the layer under the process.
- An error of `Status` during restore has a live process recorded as stopped.
- `restore` removes a Dead AutoRemove container without claiming it
  (`daemon.go:697-702`), possibly beside an autoRemove: if the first release of
  the layer fails, the layer stays.
- A create that fails in register's `CheckpointTo` leaves the container visible
  (a FIXME says so, `container.go:99-108`); one the daemon dies in leaves its
  layer and an empty directory.  The clean-up of one that fails earlier saves the
  configuration of a dead container (`delete.go:137`); if the clean-up fails, or the
  daemon dies in it, the next restore registers that container.

*Volumes* (`service.go:66-69`: "This reference ID will protect this volume from
removal")

- The reference is dropped when a destination is overridden by a mount of the same
  volume (`volumes.go:54-61`); a destination that is overridden is not modelled.
- After a restart with a driver that does not answer, `prepareMountPoints` stops
  at the first error: the remaining volumes have no reference until the start.
  Nor has one that came with `--volumes-from` and a source (`volumes.go:91`).
- A driver that answers a lookup with an error that is no `net.Error` makes
  `getVolume` purge the volume (`store.go:721-724`, `784-788`), its references
  included, whoever looked it up: an inspect, the Get before a removal, a start.
  From then on nothing protects the volume of the containers that have it
  (`forgotten`), although `hasRef` guards the same purge in `checkConflict`
  (`store.go:559-566`).
- A relabelling that fails (`create_unix.go:72-74`) leaves the reference until
  a restart (`leaked`), and so does a create that fails after
  `registerMountPoints` if its clean-up ends in an error of `ReleaseLayer` or
  `EnsureRemoveAll` before `removeMountPoints` (`delete.go:145-176`).
- AutoRemove containers that restore removes have no Volume set, so that their
  anonymous volumes stay.

*Transfers*

- A pull that shares a transfer on top of another may fail as cancelled when the
  pull that made the transfer is interrupted, though the context of a transfer is
  its own so that it "won't be cancelled automatically if the client which
  requested it is ^C'd" (`transfer.go:97-99`).
- The parent's layer may be released before the layer above it is registered
  (`noparent`); the pull then fails and can be repeated.
- Raising the limit on concurrent downloads starts no transfer that waits; the
  next one that ends does.

## 7. What is not modelled

In the lifecycle: an update of the policy, links and exec.  In the health checks:
the restore of a container whose daemon restarted, times, what a probe runs and
prints.
In the registry: links, networks, paused containers, the clean shutdown of the
daemon. In the volume store: labels, options, driver counts, cluster volumes,
image mounts.  Of the layer store only what its users see: the reference counts
and the two locked sections of its `Register` are not modelled.

Exec sessions end with the task.
NetworkDB is a system of its own over a vendored gossip layer.  The allocators
are sequential algorithms behind one lock each.  The rest stays out because it
is kernel configuration (network and graph drivers), generated or vendored code
(swarm, BuildKit), file I/O (loggers), or code without state (API decoding, the
client).
