# A verification of the doze daemon

doze runs the services of a development machine: it declares *instances*
(databases, apps, tasks) in HCL, boots each one when a connection asks for it,
keeps the instances it depends on up while it runs, restarts apps that crash or
whose files change, and puts what nobody uses to sleep. This directory holds
TLA+ modules of the parts of the program where that is decided and recorded,
the TLC configurations that check them, and theorems that TLAPS checks.

Contents: [inventory](#inventory) · [plan](#plan) ·
[modules](#the-modules-and-the-code) · [runs](#what-the-runs-show) ·
[what the code does not do](#where-the-code-and-its-comments-part) ·
[bounds](#bounds) · [fairness](#fairness) · [proofs](#proofs) ·
[limits](#what-is-not-modelled)

## Inventory

Paths are relative to `src/`. Components with no module are listed with a
reason in `PROJECT.json`.

| component | state it keeps | operations | what makes it correct |
|---|---|---|---|
| registry (`internal/registry/registry.go`) | one record per instance: state, connection count, idle policy, pin, taint, restart count, verdict of the probe | `MarkBooting`, `MarkRunning`, `MarkReaped`, `MarkFailed`, `MarkDone`, `MarkCrashing`, `Acquire`, `Release`, `IncRestart`, `ResetRestart`, taint, pin, `Reapable` | the count is never negative, an idle record has no count, the state says what the runtime does |
| runtime (`internal/runtime`) | `procs`, `deps`, `restarts`, `readyPending`, `watchers` under one mutex; `off`, `shuttingDown`; a singleflight group; pidfiles on disk | `Boot`, `Stop`, `watch`, `scheduleRestart`, `SetOff`, `RunReaper`, `StopAll`, `Reconcile` | one process per instance, every process watched, holds taken and given back once, a bounded crash loop, a stop that lasts, a shutdown that ends and leaves nothing |
| proxy (`internal/proxy`) | one goroutine per connection | boot, dial, handshake, `Acquire`, splice, `Release` | every connection is answered; a backend in use is not put to sleep |
| supervisor (`internal/supervisor`, `runtime/plan.go`) | one process or a composite of several, a goroutine per process and per member | `executePlan`, `Start`, `StartTree`, `Stop`, `Wait` | several processes are one backend: over once, nothing left behind, every waiter told |
| state file (`internal/state`) | `state.json`, its temporary file, its lock file | `Lock`, `Load`, `Save` | two writers do not lose each other's updates; the file can be read after a crash |
| apply and tasks (`runtime/apply.go`, `runtime/tasks.go`) | applied objects, the converged marker, task records | `Apply`, `Destroy`, `ensureConverged`, `RunTask`, `forgetTask` | what was changed is recorded; a task is passed over only when it was done; what is served is what is declared |
| file watching (`internal/watch`, `runtime/watch.go`) | one poll loop per app, its snapshot of the files | poll, settle, restart, `startWatch` | one loop per running app and none after a stop; every edit reaches the app; only edits restart it |
| log store (`internal/logstore`) | segments of runs, waiters | `Begin`, `Line`, `Close`, `Remove`, `Tail`, `Read`, `Follow` | a follower sees every line in order, across rotation, pruning and restarts |
| journal (`internal/journal`, `subJournal` of the daemon) | a live and a rotated file, a count, a channel per subscriber | `Open`, `Append`, `Since`, `Subscribe`, `Close` | a client gets the events in order and none that is kept is passed over, through overflow, rotation, reconnection and restart |
| registry feed (`registry/subscribe.go`, `daemon/subscribe.go`) | a wake-up per subscriber, what it was last sent | `Notify`, `emit`, `subInstances`, `snapshot` | a subscriber ends with the last state, however slow it is |
| desktop hub (`internal/desk/hub`) | an object per stack with its subscription and counts of the pages that want a topic | `Refresh`, `Watch`, `keep` | a page shows what the daemon says, and streams what somebody looks at |
| daemon (`internal/daemon`) | listeners, dynamic instances, meters | start, shutdown, add, remove, rebind | no connection to an instance that was removed |
| control of the daemon (`internal/daemonctl`, `cmd/doze`, `doze.go`) | the control socket, `doze.pid`, the pid files of backends: all on disk, shared by every daemon and command of a stack | `Running`, `Start`, `Pid`, `Stop`; `daemon.Run`, `NewServer`, `Serve`, `Reconcile` | one daemon at a time, which is found as long as it serves; nothing of a dead one stands in the way of the next; `down` leaves nothing |
| control protocol (`internal/control`) | requests in flight, streams | request, response, stream, cancel | each request is answered once |
| binaries (`internal/binaries`) | a cache, a lock file of pinned digests | download, verify, pin | a pinned digest is not replaced |

**How they interact.** A connection arrives at the proxy, which calls
`Runtime.Boot`. Boots of one name join in a singleflight group. A boot first
boots and holds the dependencies of the instance, then has `executePlan` start
its processes through the supervisor, registers the unit under `Runtime.mu`,
tells the registry, and starts a goroutine (`watch`) that waits for the unit. When
a unit ends, `watch` takes it out of the maps, gives back its holds, and for an
app decides whether a goroutine with a timer will boot it again. `Stop` takes the
same entries out of the same maps; it is called by commands, by the poll loop of a
watched app, by the idle reaper (a loop over the names the registry finds idle)
and by `StopAll`, which runs one `Stop` per name until the maps are empty. Nothing
holds a lock across a boot or a stop, so all of these interleave.

A boot converges what its instance declares and leaves a marker that says so;
`Apply` and `Destroy` boot instances, converge or prune them, and record objects
in `state.json`, which tasks write too. Every process prints into a run of the
log store, which subscriptions follow. Every method of the registry that changes a
record signals the feed, which sends the desktop hub what has changed since it last
looked; the runtime records events in the journal, which subscriptions follow.

**What is hard.** The registry and the maps are two pieces of shared state
written one after the other by boots, stops, watchers, restart timers and
connections, with no lock around the pair. Counts of holds are kept in a record
that other goroutines reset. Cancelling a restart races with its timer, cancelling
a poll loop with its tick, ending a subscription with its replacement. Files are
read while they are rotated, pruned, renamed over and removed. A shutdown races
with everything under way. The daemon may die between any two steps and leave
processes, a lock file and half a line behind. `PROJECT.json` lists each of these
hazards at its line, with the properties that cover it.

## Plan

The order is the importance of what can go wrong. Done so far:

1. **Registry, Runtime**: the lifecycle core with the connections, commands,
   reaper and sweeps that drive it, a crash of the daemon, and `Reconcile`.
   Theorems: type correctness and the safety properties.
2. **EventLog, Journal**: the record of events and the subscriptions that follow
   it. Abstract specification: an event log with resuming readers, which `Journal`
   implements; the refinement is proved.
3. **Unit, Backend**: the processes of one start against their stop. Abstract
   specification: the one backend the runtime assumes, which `Unit` implements.
4. **Structure**: `Apply`, `Destroy`, the convergence of a boot and the tasks, on
   one state file with its lock.
5. **LogStore, LineLog**: writers, rotation, pruning and followers. Abstract
   specification: a log of lines with cursors, which `LogStore` implements.
6. **FileWatch**: the poll loops against stops, boots and crashes.
7. **Feed, Hub**: the feed of the registry, and the desktop's view above it.
8. **Daemons**: the processes of several daemons of one stack over its socket and
   its pid files, and the commands that find, start and stop them.
9. **Proofs** of the safety properties of 3 to 8, each by an inductive strengthening
   of what its run checks, and of the refinements in 3 and 5.

Next:

10. **Pinning**: downloads that share a cache, and the lock file of digests.
11. **Algorithms**: dependency order and cycle check, `orderSpecs`, the diff of
    `state/plan.go`, against reference definitions over bounded inputs.

| module | extends | checked by | proved in |
|---|---|---|---|
| `Registry` | `Naturals` | the runs of `MCRuntime` | `RuntimeProofs` |
| `Runtime` | `Registry` | `Runtime*.cfg` on `MCRuntime` | `RuntimeProofs` |
| `EventLog` | `Naturals` | as a property of `Journal` | `JournalProofs` |
| `Journal` | `FiniteSets`, instantiates `EventLog` | `Journal.cfg` | `JournalProofs` |
| `Backend` | | as a property of `Unit` | `UnitProofs` |
| `Unit` | `Sequences`, instantiates `Backend` | `Unit.cfg`, `ClaimUnit.cfg` | `UnitProofs` |
| `Structure` | `Sequences` | `Structure.cfg` on `MCStructure` | `StructureProofs` |
| `LineLog` | `Naturals` | as a property of `LogStore` | `LogStoreProofs` |
| `LogStore` | `FiniteSets`, `Sequences`, instantiates `LineLog` | `LogStore.cfg` | `LogStoreProofs` |
| `FileWatch` | `FiniteSets` | `FileWatch.cfg` | `FileWatchProofs` |
| `Feed` | `FiniteSets`, `Sequences` | as the daemon in `Hub` | `HubProofs` |
| `Hub` | `Feed` | `Hub.cfg` | `HubProofs` |
| `Daemons` | `Naturals` | `Daemons.cfg` | `DaemonsProofs` |

No module uses a recursive operator, so that all of them can be proved about.

## The modules and the code

**`Registry`** has the record of an instance and one operator per method of the
registry; each method is one critical section of its lock, so one operator
application is one atomic change. Times, ports, paths and messages are left
out: `IdleSince` is set exactly when the state becomes idle, so "idle long
enough" is a choice the reaper makes among idle records. `MarkDone` (tasks) and
`SetHealthy` (prober) are translated and have no caller in `Runtime`.

**`Runtime`** has these variables:

| variable | in the code |
|---|---|
| `reg` | `Registry.m` |
| `procs`, `deps`, `readyPending`, `restarts` | the maps of `Runtime` under `mu` |
| `off`, `shuttingDown` | the same fields |
| `flight` | the call of `bootLocked` in the singleflight group, with a program counter and its local variables |
| `watch`, `timer` | goroutines of `watch` and `scheduleRestart`, one per process |
| `client` | a goroutine of `Proxy.handle` |
| `stop` | a call of `Stop`: one per user, one for the reaper, one per name `StopAll` stops |
| `due`, `sweep` | the list of `RunReaper`'s tick; where `StopAll` is |
| `os`, `pidfile`, `life` | the operating system, the disk, the daemon process |

A step is one critical section of `mu`, one call of the registry, or one
external event. Where the code reads twice with nothing between that matters the
reads are one step; these are all such places:

- the fast path of `bootCond`: the record and the process are read together;
- the beginning of `bootLocked`: `readyPending`, running, `IsOff`, `MarkBooting`;
- `watch`: the test of `shuttingDown` belongs to the step of `MarkReaped`, and
  `ResetRestart` with `IncRestart` is one step;
- `Stop`: removing the pidfile and `MarkReaped`, and the release of all its holds.

Resolving, provisioning, downloading, planning and the setup steps of a boot are
one step that succeeds or fails. A unit is one process here. `Unit` shows it to be
one backend in everything but `Wait`, which may never tell `watch` of the end of
several processes: an instance in `Multi` has such a plan, and its watcher may be
`deaf` (`WatchDeaf`). `rerunOnReady` reads the process from the map again
(`FlightReread`); when it is gone by then, asking it for its pid is a panic that ends
the daemon (`Panic`). Pids are never reused. A connection whose handshake fails is
dropped before it is counted. `Process.Stop` returns with the process gone, because
it ends in SIGKILL. **`MCRuntime`** names the instances (an app, a database), their
dependencies and their restart budgets for TLC.

**`Journal`** has these variables:

| variable | in the code |
|---|---|
| `seq`, `open` | `Journal.seq`, whether `Journal.f` is set |
| `disk` | the live file and the rotated one, as the sets of events that can be read back; `used`: `Journal.size` is not zero; `torn`: the live file ends in the middle of a line |
| `reader` | a subscription: the channel of `Subscribe` and the variables of `subJournal` (`last`, the event `e` that waits for its gap, what is still to be sent); `ahead` is a history flag, for clients that resume after a number the journal has not reached |
| `given` | the highest number a client was given (`lastSeq` of the dash, `seq` of the hub), which it resumes after |

Every method of the journal holds its lock, so each is one step. A write may be
complete, fail or be cut short; a line that follows a cut one is glued to it and
neither is read back. Which appends rotate is a choice, because sizes are left out.
`Send` puts the frame on the connection and in the client's hands in one step; a
frame that is lost with the connection is one that was not sent. A client comes
back with `Resume` and asks for what follows `given`; a command follows from now
on.

**`EventLog`** is what a screen relies on. `Deliver` gives the next kept event or a
later one only if nothing kept lies between; only the oldest events are given up;
a restart counts on from the newest event that is kept. When events were handed
out and not kept (failed writes, or an `Append` after `Close`), their numbers are
given out again, so `Seq` is then not "unique across daemon restarts"
(`journal.go:81`): a client that resumes after such a number is `ahead` and may
see a number twice, and `EventLog` says so. It is never ahead otherwise.

**`Unit`** follows one plan from `executePlan` to the end of what it started. `phase`
is where `executePlan` is (a process is started, its tree armed, it is waited for,
its hooks run, and the next one; or what was started is taken down again); `os` and
`kids` are the processes and what else lives in their groups; `done`, `armed` are
`Process.done` and `groupKill`; `once`, `exited` are `stopOnce` and the channel of a
`Composite`; `sweep` is the one goroutine that stops members in reverse order, with
the signal it has sent (`Stages`), whether it belongs to the failed start, to the end
of a member or to `caller`, the runtime's call of `Stop`. A unit of one process
skips the composite, as in the code. A grace period or the context of the call may
run out before or after what it waits for, so `Escalate`, `Hurry` and `Refused`
are choices; a process may ignore every signal but SIGKILL. **`Backend`** is what the
runtime takes the result for: an `INSTANCE` of it under the mapping of `AsBackend`.

**`Structure`** has the configuration in force, the objects that exist in each instance
(`real`), the `.doze-converged` marker, `state.json` with its temporary file and lock
file, the calls of `Apply` and `Destroy` (`sync`) and the tasks. A save is three steps
(truncate, write, rename), and everyone uses one temporary file: a saver whose file was
renamed by another writes into `state.json` itself. A lock file has an owner and an age;
`Create`, `Break` and `Return` are `Lock` and its release, which remove it by name. A
boot registers its backend and marks it running in one step (`Started`), converges it in
the next (`BootConverges`) and writes the marker in a third (`BootMarks`). In between
the instance is in `up`: whoever comes is served, a sync goes on with it (`Begin`), and
a `Sleep` takes it down under the convergence. `boot` is what the boot has still to do;
a sync that found one under way waits for its end (`Over`). `Converge` and `Mark`,
`PruneAll` and `StopPruned` are likewise the steps of `ensureConverged` and of
`pruneAll` with the stop it defers. Convergence, pruning and a boot may fail and leave a
part of the objects behind. `Restart` is the death of the daemon between any two steps;
files stay, the next configuration may come into force.

Some properties hold only as long as none of a few unguarded cases has
occurred: two savers in the temporary file at once (`overlap`), a save of a copy
another save made old (`stale copy`), the lock of a live owner taken over
(`lock taken`), an instance that is booting while its objects are pruned or is woken
before its marker is removed (`woken`), a `Destroy` that failed or died between the two
(`half pruned`). The
history variable `seen.flaws` records which have; each property names in its
`Unless` the cases that break it and holds in all others. This says exactly what the
code guards and what it does not.

**`LogStore`** is the log of one instance. A line is its number; a segment file holds
the lines from `base + 1` to `base + size`, under its name (run and segment). The
files are a set, and a listing is read in the order of the names (`Before`), as
`Store.segments` sorts it; sizes count lines. A name has six digits for the run and
three for the segment, and a file whose number has more is not listed: `RunNames` and
`SegNames` are the last numbers that fit, `segs` are the files that are listed, and a run
that writes to another has a `stray` file, which no reader and no `prune` finds, and
which the next `Begin` does not count when it numbers the new run. The
writer's call is a program counter (`line`, `prune`, `wake`, `shut`, `create`) over the
run it writes: a full segment is closed and the next created, the ones `prune` finds to
be too much are removed one by one, the line is written, the waiters woken. `ClearLogs`
closes the run and then removes the folder, which may come between any steps of a
new run. A follower reads its backlog segment by segment (`Tail0`, `TailRead`), then
takes the channel, lists the files, reads what its cursor has not seen in batches,
sends them, and sleeps; every one of these is a step, so files are rotated, pruned and
removed in between. **`LineLog`** is what a reader relies on, about the lines that are
listed; one that met a removal of
everything is `lost`, because run numbers begin again at 1 and its cursor may lie ahead
of them.

**`FileWatch`** is one app with the version of its files. `boot` is the boot in flight,
down to the `startWatch` after its last lock was released; `watcher` is the entry of
`Runtime.watchers` and `loops` are the goroutines of `Poll`, which may outlive their
entry. A look (`Tick`) compares with the snapshot before; when something has changed
and then been quiet for a look, the callback stops the app (which cancels the loop that
runs the callback), boots it, waits for the boot, and takes a new snapshot. `seen`
records which versions were written by somebody else than a boot, which edit a
loop had to notice, and the unguarded cases: a loop that looks while a boot writes
(`watching`, after a crash), an app that became ready when `on_ready` was run again
(`rerun`), a last tick taken with the cancellation there (`late`). A loop that is
started after the app was stopped (`startWatch` does not look) needs no exception: it is
the loop that the next stop cancels.

**`Feed`** is `Notify` and `emit` with `subInstances` over `handler.snapshot`, and the
commands that change what a snapshot says. The signal is a channel of one element. The
registry is read before the configuration and the marks of `SetOff`; only differences
are sent. `silent` is a history variable: the instances that a command has changed
since the last signal.

**`Hub`** puts the desktop above it: `keep` is the loop of a stack object (`ask` for a
snapshot, `arm` what ends the subscription, `dial`, `stream`), `Refresh` makes and drops
the object, a page in `Watch` is counted by the hub (`wants`) and by the object it
finds (`want`), and ends the present subscription when the count leaves or reaches zero.
Reading what ends a subscription and ending it are two steps, so the subscription may
have been replaced in between. `taken` is what a new object's count began with. One
optional topic stands for meters and logs, which go through the same counts.

**`Daemons`** has the processes of several daemons of one stack. `pc` is where each is
in `Run`; `server`, `port` are what it has open; `path`, `pidfile`, `record` are the
control socket's path, `doze.pid` and the pid file of the backend, which outlive it and
which the next one removes, writes or acts upon whatever they name. `backend` is the set
of processes of the instance that a daemon has booted, by what becomes of them. A
process is `spawned`, and once it is ready registered, recorded in the pid file and
`up`. `dropped` and `swept` are a call of `Stop` between taking it out of the maps and
its end, by somebody else or by `StopAll`. The maps have nothing of it by then, so a
connection boots the next one beside it (`Spawns`), and when that registers the old one
is `outlived` or `outswept`. A process that has ended is `ended` until a watcher or a
stop takes it out of the maps, and the removal of its pid file is then due (`cleaning`):
a late `Cleaned` or `SweepEnds` removes the pid file and the mark of whatever has
registered in between, which goes on running `forgotten`, is not found by the fast path,
and is `lost` from the maps too when the next boot registers. `greeting` and `client`
say that a connection is in a handler that `wg.Wait` waits for: one that has not said
what it wants, and one that waits for a boot or has a backend. A daemon may die
anywhere, and its backends may outlive it; only what the pid file names is reclaimed.
`Up`, `Start` and `Down`, `Stopped` are `doze up` and `doze down`, or `Attach` and
`Shutdown`; the look for a daemon and the start of one are two steps. As in `Structure`,
`flaws` records the unguarded cases: two daemons at once (`beside`), one that binds the
addresses another has given up while it is still reaping (`handover`), a boot that
registers after the sweep (`late`), a backend that somebody else was stopping when the
sweep ended (`unswept`), a daemon that `died`.

**`RuntimeProofs`, `JournalProofs`, `UnitProofs`, `StructureProofs`, `LogStoreProofs`,
 `FileWatchProofs`, `DaemonsProofs`, `HubProofs`** hold the theorems.

## What the runs show

| run | situation | shows |
|---|---|---|
| `runtime_crash` | one app with steps, structure and a budget of one restart that crashes, a connection that wakes it, a user that pins it | types; `RegisteredIsWatched`: no exit of a registered process is unobserved; `BootingMeansInFlight`: no failure leaves an instance booting; `CrashLoopIsBounded`: the budget bounds the loop although connections boot the instance in between |
| `runtime_stop` | an app that restarts on failure and exits with either status, a connection, a command that takes it out and puts it back, sleep-all | `CancelledStaysCancelled`: a cancelled restart does not fire; `OffStaysQuiet`: once off and quiet, it stays down; `RegisteredIsRecorded`: the pid file of a registered process names it or is missing, and is never left naming an earlier one |
| `runtime_deps` | an app of several processes that depends on a lazy database, crashes of either, noticed or not, a command, the reaper, one crash of the daemon | `RegisteredHoldsDeps`: the map holds exactly the declared dependencies; `WaitersHaveFlight`: nobody waits for a boot that is over |
| `runtime_shutdown` | an app with a restart, a connection, crashes and the shutdown, under fair scheduling | `SealedForGood`: when a shutdown has nothing left under way, nothing runs again; `ConnectionsAreAnswered`, `ShutdownEnds`; `CrashesAreNoticed`, of an app of one process |
| `journal` | one client, a channel of two, six events, failed and cut writes, rotations, reconnections, restarts | `OnDiskIsOrdered`: the rotated file is older than the live one; `PassesOverNothing`: `Journal` implements `EventLog` |
| `unit` | three processes, two of them trees, that fork, ignore signals and end by themselves, against a failing start and a stop | `ActsAsOne`: `Unit` implements `Backend`; `OrderlyTeardown`: one sweep, in reverse order, no tree left behind, as `groupKill` is set in time or makes no difference; `StopReturns`, `OneEndsAll` |
| `state` | two syncs and a task on one state file, a database whose next configuration drops an object, boots that converge while others are served, crashes of the daemon | `FilesAreSound`, `OneSyncAtATime`, `RecordsAreKept`, `ForgetsOnlyWhatIsGone`, `ServesWhatIsDeclared`, each up to the cases it names; `PassedOverWhenDone`: a task is passed over only when a run that began with its present inputs succeeded |
| `logs` | one follower, runs of segments of one line, of which the first four of a run have a listed name, prunes, removals, restarts | `LogIsInOrder`: file names give the order of lines, the live file is the last that is listed if it has a listed name, and no more is listed than the options say and one segment; `PassesOverNoLine`: `LogStore` implements `LineLog`; `CatchesUp`: no wake-up is lost |
| `watch` | an app that is woken, stopped, crashes and is edited, also by its own steps | `OneLoopWatches`: at most one loop can act, and it is the one a stop reaches; `StopIsKept`, `OnlyEditsRestart` up to the cases they name; `EditsReachTheApp`: an edit does not leave the app with what was there before it |
| `hub` | two instances, one of them added and removed at run time, two pages, daemons that end and start | `PageIsTold`: what was signalled is sent, and what was sent adds up; `SubscriptionIsCurrent`: both counts and the subscription agree, and what is watched is streamed; `ShowsTheStack`, `WatchedIsStreamed`: it ends up right once the daemon stays |
| `daemons` | two daemons and three commands that start and stop them, crashes, backends that outlive their daemon, connections that boot one, also during a stop, or say nothing | `FoundWhileServing`: a daemon fails to start only beside another, and is found while it serves; `OneBackend`: two backends run only when one of them is being stopped by the daemon of both or is stray, its record and mark gone; `DownLeavesNothing`; `AskedEnds`: a daemon that was told to stop ends; each up to the cases it names |
| `claim_unit` | the two goroutines that wait for a unit of two | `EveryWaitReturns` is violated: see below |

The type invariant of a module is a conjunct of `OrderlyTeardown`, `FilesAreSound`,
`LogIsInOrder`, `OneLoopWatches`, `SubscriptionIsCurrent` and `FoundWhileServing`.
Every property of the passing runs has a mutant of the code in `PROJECT.json` (a
budget off by one, a forgotten gate, a watcher that is not started, a channel taken
too late, a count compared before it is lowered, ...) that TLC finds to break it. The
mutated forms stand beside the definitions they change.

## Where the code and its comments part

The run `claim_unit` checks a sentence of the program's own comments, "Wait blocks
until the unit exits" (`composite.go:79`), and TLC finds an interleaving that breaks it:
two goroutines wait for a unit and a `Composite` sends one value, so the crash of a unit
of several processes may go unnoticed, or its log run stay open. `Runtime` has the former
as `WatchDeaf`.

`Runtime` and `Journal` also state sentences that do not hold of this code and have
no run of their own. They are kept because the properties that do hold were stated
knowing them (`RegisteredHoldsDeps` is about the map and not the count;
`OffStaysQuiet` and `SealedForGood` begin when no boot is past the check):

| definition | the comment | what breaks it |
|---|---|---|
| `NoOrphan` | concurrent cold boots coalesce onto one start | a late `MarkReaped` of a stop, after a new boot, makes the next boot start a second process |
| `StopIsNotUndone` | a stop is never undone by a respawn | a stop between the end of a process and `scheduleRestart` |
| `SweepLeavesNothing` | a boot during a sweep is caught by the next pass | a boot that has not registered its process is in no map |
| `ReaperSparesConnected` | only backends without connections are reaped | a connection after the tick made its list |
| `NoLeakedHold` | dependencies can sleep when nothing needs them | a boot overwrites the holds of the process it replaces |
| `HealthyIsHealthy` | a healthy boot wins over a started one | it joins the started one |
| `EventsArrive` | each event is sent as it is recorded | the last event met a full channel, and nothing came after it |

The unguarded cases of `Structure`, `FileWatch`, `Feed`, `Hub` and `Daemons` are of the same
kind, as premises of what is checked there:

- `daemon/subscribe.go:64-67` says the feed "cannot miss a change"; switching an
  instance on, and the `cfg.Add` and `cfg.Remove` of dynamic instances, signal
  nothing, so the change is sent with the next one that does (`silent`).
- `desk/hub/hub.go:282` says nothing streams for a page nobody looks at; a count that
  a new stack object took over from the hub is never given back (`taken`).
- `logstore.go:48-52` says how much is kept across runs; a segment is added before
  `prune` looks, so it is one segment more. What lies in files without a listed name
  (from segment 1000 of a run, or run 1000000, on) comes on top and is never removed;
  nor does a follower read it, against `logstore.go:12-14`, "never misses a line".
- `runtime.go:463-464` says incomplete structure never silently serves; while a boot
  converges, a second connection takes the fast path (`runtime.go:224-230`) to the
  backend as it is. `ServesWhatIsDeclared` speaks of boots that are over.
- `state.go:104-105` says two applies cannot race; a lock older than its time is
  removed while its owner may be at work (`lock taken`).
- `runtime.go:940` says `Reconcile` reclaims what a crash orphaned; a process whose pid
  file a late `Stop` or watcher has removed (`runtime.go:680`, `715`) is not reclaimed, and
  the next boot starts another beside it. `RegisteredIsRecorded` and `OneBackend` name it.
- `daemon.go:327` says no boot may land behind the reap; one that passed the gate before
  it closed may register after the sweep, and the daemon then waits for its client
  without a bound (`late`).
- `daemon.go:309` says `doze down` finds a daemon however it was started; one that took
  over from a daemon that was still reaping loses its socket and `doze.pid` to it
  (`handover`).
- `Reconcile`, called before the listeners are bound, also kills the recorded backends of
  a daemon that lives, and then fails to bind (`beside`).

## Bounds

**Runtime.** `MaxProc` bounds the processes ever started per instance; reaching it makes
the start fail, which is something the code handles anyway, so no behaviour is cut in
the middle. `MaxCrash` bounds the crashes of the daemon. Restart budgets are 0 or 1.
Every counter is bounded by these: a restart count by the processes started, a
connection count by connections and dependants. Every counterexample to the definitions
above needs at most three processes of one instance, two instances and two connections:
one old and one new life of an instance, one who holds and one who ends. `runtime_crash`
has three: the first, its one restart, and one that a connection boots after the runtime
gave up, so that a loop that runs on would be seen. `runtime_deps` has one process per
instance, because two instances with all their goroutines are already half a million
states; restarts of an instance are covered by the other runs, and the theorems cover
every size. Instances that are declared but disabled are left out, for they are never
booted. `doze off` and `doze stop` come from one user at a time; several `Stop`s still
run at once: the user's, the reaper's and those of `StopAll`.

**Journal.** One client, since clients share nothing but the files. Six events
and a channel of two are enough for a client that is two rotations and two
overflows behind; the theorem has no bound. `MaxSeq` stops `Append` and nothing else.

**Unit.** Three processes have a first, a middle and a last one; the last two are
trees. `Term = FALSE` is the longer escalation (SIGINT, SIGQUIT, SIGKILL).

**Structure.** One database with two objects, of which the second configuration drops
one: an object that is kept and one that goes. Two syncs and a task are the two kinds of
saver, twice the kind that takes the lock. `MaxMove` bounds the calls, runs of the task,
edits and deaths of the daemon taken together, and `MaxEdit` the edits alone. Unguarded
cases may come together in any number. The two syncs are symmetric, and no property of
the run is a liveness property.

**LogStore.** Segments of one line and `MaxBytes` of two lines; `SegNames` of 3 stands
for 999, so that a run leaves the listed names by its fifth line. `RunNames` of 2, which
stands for 999999, is not exceeded by the runs that `MaxMove` allows: runs beyond it are
covered by the theorems. Batches and a backlog of two lines: a follower reads across
segments, and a batch ends between two. One run is kept, so the second one prunes.
`MaxLine` stops the output, `MaxMove` bounds the runs, removals and deaths of the
daemon. Lines are of one length.

**FileWatch.** `MaxMove` of three is a life, its end and a life that meets what the
first one left. Three poll loops are the one in force, one that was cancelled and has
not ended, and one that reacts; a boot that finds none free waits until one has
ended. Two writes are one that may be folded into another.

**Hub.** Two instances, one declared and one dynamic; two pages, one that stays while
the other goes. A connection holds one frame and the one its sender is stuck with.
`MaxMove` bounds what happens to the stack, the ends of daemons and the visits of pages
taken together.

**Daemons.** Two daemons are one that crashed, or ends, and the next one, or two beside
each other; three commands start both and stop one. Daemons
and commands are numbered in the order they come in, which is all that their pids
and names would tell. `Command` bounds the invocations. One removal of a pid file is due
at a time, besides that of `StopAll` (`Due`), which lets one process be stopped, the next be
forgotten and a third be booted. While another daemon is alive, a `Stop` is not called and
a boot does not begin beside a process that is left: what it would add there is two
backends, which `OneBackend` allows beside another daemon. `Exclusive` is true in the run,
for a stack with a port; the theorems hold for a stack without one too.

## Fairness

`Runtime`'s `FairSpec` assumes weak fairness of every goroutine that is under way:
boots, watchers, restart timers, calls of `Stop`, the passes of `StopAll`, the reaper's
list and a connection that has called `Boot` or dialed. The Go scheduler gives this,
and nearly every wait in those goroutines is bounded in the code: a readiness probe has
its timeout, a stop ends in SIGKILL, a timer fires. Two are not. The wait of a watcher for
a unit of several processes may never return; that is a step of its own, `WatchDeaf`, which
competes with `WatchExit`, and `CrashesAreNoticed` speaks of the instances that are not in
`Multi`. A boot that a restart begins, and the dial of a connection (`dialBackend`), have
no deadline of their own: that a start, its steps and its convergence end, and that a
local dial is answered or refused, is an assumption. Nothing is
assumed of connections that arrive or close, of users, of processes that exit, or of
when a shutdown begins. `SweepPassed` may end the sweep because the budget of its
context ran out, at any pass.

`Journal`'s assumes it of a subscription that is under way; nobody has to record an
event. `Unit`'s assumes that the daemon's goroutines run, that each process that has
ended is reaped, and that a process that was sent SIGKILL ends; nobody has to call
`Stop`, and no process has to obey another signal. `LogStore`'s assumes that the
writer's call and a follower go on with what they have begun; nobody has to print.
`FileWatch`'s assumes that a boot goes on and ends, that the ticker of a loop ticks,
and strong fairness of the end of a cancelled loop, because `select` chooses anew at
each tick and cannot pass over the cancellation for ever. `Hub`'s assumes it of the
feed, of a command that has begun, of the loop of a stack object, of `Refresh`, which
is on a ticker, and of a page that has begun to come or go; its two liveness properties
have as a premise that the daemon stays. `Daemons`'s assumes that `Run` goes on, that
a boot, which has a budget, succeeds or fails, that the end of a process is noticed and
cleaned up after, that `StopAll` stops what it finds and that a stop, which ends in
SIGKILL, returns; no client has to say what it wants or to leave, and no command has to be
given. The 15 seconds of `StopAll` are taken to be enough for that.

## Proofs

The one assumption about the runtime is `ConstantsOK`: sets of the right kind, a finite
set of instances, dependencies among the instances, names of users and of the
reaper that are not names of instances. There is no bound on any of them;
`MaxProc` and `MaxCrash` are any natural numbers.

`RuntimeProofs` first proves `Typed`, which is `TypeOK` with what the steps need to know
of aims: a boot that waits for a dependency, a connection that is not out and a
stop that is under way name an instance. One lemma per group of actions. Before them
it proves what the methods of `Registry` preserve: the shape of a record, and that the
idle state and the idle timer agree with the count (`FreshRecord` to `SetRecord`).

It then describes what a step of anyone may do to one variable, in
*frame* lemmas: `FlightFrame` (how a boot moves), `RegFrame` (which record
methods were applied), `RestartFrame`, `WatchedFrame`, `ClientFrame`, `OsFrame`,
`GateFrame`, `StartFrame`, `LifeFrame`, `WatchFrame`, `BornFrame`,
`StartPcFrame`. The invariants are then proved from the frames and not from the
sixty actions each:

- `BootingMeansInFlight` is strengthened to `BootingInBoot`: the boot is at a step
  between `MarkBooting` and the step that marks the record running or failed.
- `IdleMeansUnheld`, `PendingRestartIsBacked`, `RegisteredIsWatched` and
  `WaitersHaveFlight` are inductive with `Typed`.
- `CancelledStaysCancelled` needs `OneLife`: a process is started by at most one
  boot, its watcher is started once and its timer after its watcher, so an
  entry that was dropped cannot be written again for the same process.
- `RegisteredHoldsDeps` needs `Holding`: on its way from its first dependency to
  its registration a boot holds exactly what it has already taken from its list.
- `CrashLoopIsBounded` is proved under one premise more, `NobodyStops`: no user, reaper or
  sweep stops an instance, and no process outlives the stability window. A stop and a
  long life reset the count on purpose, so without it there is nothing to bound; the
  run assumes the same. Deaths of the daemon are allowed, and forget the count together
  with the goroutines. `Counted` are the processes whose exit was answered with a restart.
  Only `WatchDecide` adds to them, and pays for it with the restart it counts
  (`NewlyCounted`); no method that a boot, a connection or a pin calls gives the count
  back (`MethodsSpend`, `SpentFrame`). So there are never more of them than restarts
  counted, nor than the budget (`Budgeted`).
- `RegisteredIsRecorded` needs `Recording`: a daemon that is down has nothing in memory
  (`Emptied`); as long as an instance has had no process but its first, nobody is there to
  remove a pid file late (`First`); and between its registration and its pid file a boot
  is alone in the map (`OnRecord`). A late removal is why the file may be missing later.
- `SealedForGood` and `OffStaysQuiet` follow from the frames of one step.

`JournalProofs` proves `JournalImplementsLog` (every behaviour of `Journal` is one of
`EventLog` under the mapping of `Log`), `JournalTypes` and `FilesAreOrdered`, for any
set of readers, any capacity and any number of events; its assumption is
`JournalConstants`. `DiskInv` says that the files are in order and within the
count. `ReaderInv` says why what is about to be sent is the next: no kept event
lies between what the client has and what is to be sent, unless it is to be sent
too (`NoneBetween`); a subscription that has sent nothing has the oldest event it
lacks in its channel, where no gap can be noticed yet (`NothingBefore`); and what
was sent last is what the client has, unless it is ahead (`InOrder`). Each is
stated of a subscription, the kept events and the count as values, so that
`HandedInv` can say what an append does to them.

`UnitProofs` proves `UnitIsABackend` (every behaviour of `Unit` is one of `Backend`
under the mapping of `AsBackend`) and `TeardownIsOrderly`, for any number of processes and
either escalation, from `UnitConstants`. What has to be known is who tears down what:
`PhaseInv` ties the processes to how far `executePlan` is, `SweepInv` says whose the
sweep is (the plan's that gave up, the member's that won `stopOnce`, or the caller's),
and `DealtWith` that nothing runs behind it. `ActsAsOne` alone is not inductive,
because it does not say why the last step of a sweep finds nothing alive.

`StructureProofs` proves the five invariants and the action property of its run, for any
instances, objects, list of configurations, syncs, tasks and bounds, from
`StructureConstants` (which says of `None` only that it is no object set, record,
state or name). Five facts carry each other: `Locked` (a sync past the
lock file owns it), `OneFile` (without an overlap whoever has the temporary file open is
alone with it, and what it renames is what it holds), `FreshCopies` (whoever loaded
since the last rename has the file as it is, but for its own record, or for the objects
that it has pruned and nobody declares), `Honest` (whatever is read back of a task, from
the file, the temporary file or a copy, is the record of a run that succeeded with
those inputs) and `Vouched` (a marker vouches for what is there, except while a
`Destroy` that has dropped the objects is about to remove it). `RecordsAreKept` and
`ForgetsOnlyWhatIsGone` need `FreshCopies`, which needs `OneFile`;
`ServesWhatIsDeclared` needs `Vouched`, since a boot trusts the marker, which says of each
boot and sync that is between two of its steps what it may rely on, and that needs
`Locked`, since a second sync would boot what the first is about to clear;
`PassedOverWhenDone` needs `Honest` and no assumption on the flaws at all. The steps are
grouped by what they can touch (`NextIs`), with a frame lemma for each group.

`FileWatchProofs` proves the three invariants of its run from `FileWatchConstants`, for
any number of loops, writes and lives. `OneLoop` and `InForce` say that the loop that is
not cancelled is the one a `Stop` would cancel; `Quiet`, that a stop leaves only loops
that are cancelled and not reacting; `HasReason` with `Settled`, that a loop that is
about to see a difference has somebody's write after it began.

`DaemonsProofs` proves the three invariants of its run from `DaemonsConstants`, for any
daemons and commands. Everything rests on `OneAtATime`: who can be past `Reconcile`, and
past its listeners, at the same time. `Basics` says what holds of one daemon whatever the
others do, in particular that it has no process up while it starts another. `Found` (the
files lead to the daemon that serves), `Inherited` (what a daemon that is gone has left
recorded is what the pid file names, and nobody has begun since) and `SweptClean` (nothing
recorded survives an orderly end) follow step by step.

`HubProofs` proves both invariants of its run from `FeedConstants` and `HubConstants`, for
any instances, finite set of pages and bounds. The daemon's side and the pages' side meet
only in the loop of the stack object, and each has an invariant of its own. For
`PageIsTold`, `DeskInv`: a snapshot about to be compared was made of the registry as it
is, or there is a signal (`FeedSound`), so that a feed that waits has sent what there
is (`Sent`); and the last frame about an instance says what the feed believes it has
told, or the page does when there is none (`FramesAddUp`). That is kept by a frame that is
sent (`AppendEnds`), by one that is applied (`TailEnds`, with `ApplyOf` for `stack.apply`)
and by a snapshot, which is about every instance. For `SubscriptionIsCurrent`, `PageInv`:
the hub counts the pages that are visiting, and the object those that are bound to it,
with what it took over from the hub when it was made (`CountsSound`); a page that was
bound to an older object is one of those (`BoundSound`), so that no count goes below
zero; and the topic of a subscription differs from what is wanted only while a page that
changed it is about to end it (`TopicIsCurrent`). `FramesAddUp` is stated by the last
frame about each instance and not by applying the frames in turn, which says the same:
what a fold over a sequence computes could not be proved.

The properties of `Unit`, `FileWatch`, `Daemons` and `Structure` that name unguarded
cases are theorems of the same form: the strengthening is proved with the same
"unless", so a case that is not named is one the proof covers, in any number and order.

`LogStoreProofs` proves `LogStaysInOrder` and `LogStoreImplementsLineLog` (every behaviour
of `LogStore` is one of `LineLog` under the mapping of `AsLineLog`) from
`LogStoreConstants`, for any followers, limits and lengths. Its invariant `LogInv` has two
parts. For the files, `FilesInv`: names put the lines in order, an open run writes to the
newest file, which ends with the last line, and what `prune` still has to take are the
oldest files but not that one, so that no line is removed while an older one is kept; that
a run that was opened keeps within the limits when it is done follows from what is left
after `Doomed`. For each follower, `FollowersInv`: the lines it holds are the next ones
there are, with no gap that a kept line would fill, and everything ahead of its cursor
comes after them; of the listing it works through, each file is one that is still
there, perhaps longer by now, or one that was removed with everything before it. It is
stated of the record of the follower, what it was given, the files and the last line as
values, so that each change to the files (`Create`, `Write`, `Prune`) is one lemma for
all places a follower can be at. A removal of everything (`Unlink`) makes every follower
`lost`, of which only the types are said: run numbers begin again, and `LineLog` promises
nothing.

Only model-checked: the liveness properties of all runs (`StopReturns`, `OneEndsAll`,
`CatchesUp`, `EditsReachTheApp` and the others), which need fairness and `ENABLED` and
are beyond the prover. Every invariant, every action property and all three refinements
that the runs check are theorems, for every value of the constants (`CrashLoopIsBounded`
under the premise its run assumes too).

## What is not modelled

In `Runtime`: time (a deadline, an idle time or a backoff is a choice), endpoints and
ports, the port trap, steps and structure beyond whether they succeed, processes that
change their process group, and the reuse of pids. In `Unit`: what a hook or a readiness
probe does beyond passing or failing. In `Structure`: outputs, instances that are
paused, off or dropped from the configuration altogether, what a boot does before it
registers its backend, and whether a lock left by a dead daemon is always given up in
the end. In `LogStore`: short writes (a line is written or not), lines of different
lengths, `Runs` and the time filter of readers, which only list. In `FileWatch`: which
files a glob names; an edit is owed to the app only when a loop could see it and no boot
was under way, since a boot may have read the file already; an app whose reaction failed
to boot it stays down and without a loop until it is woken. In `Feed` and `Hub`: the
lossy `Subscribe` behind `StreamEvents`, the rings, the consoles, the frames of the
journal and of the optional topics, the time an answer to the snapshot request takes,
and the list of stopped stacks; cancelling a dial puts a stack "down" for a moment,
which is modelled and promised by nobody. In `Daemons`: names, whose registry of the
machine may exclude a second daemon; the steps of `Run` that set up TLS, endpoints,
names and ingress, whose failures are deaths of the daemon; a daemon run in the process
of an embedder (`Serve`); listeners on unix sockets, which a daemon takes over by
removing their path; the moment between a boot's look at the gate and its start, which
`Runtime` has; a pid that another process has been given since.

Of the rest, what the plan names is still to be written. Left out for good:
everything whose result only a person reads (dashboard, desktop views, display),
configuration decoding (the daemon takes its result as a constant), and the
parts that are calls of the operating system (ports, domains, host set-up).
