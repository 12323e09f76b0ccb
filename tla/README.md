# Verification of myiot

TLA+ modules, TLC configurations and TLAPS proofs for the parts of this
repository that carry its own logic: the JNDM123 acquisition agent and its clock
chip, the web interface that commands it over DDS, the bundles that come and go in
a running server, and the services, web paths and requests that come and go with
them. Source paths below are relative to the repository; the names of
definitions are those of the source wherever TLA+ allows it. `PROJECT.json`
names, for every definition, the lines it stands for.

- [1 The system](#1-the-system)
- [2 The plan](#2-the-plan)
- [3 The acquisition agent](#3-the-acquisition-agent)
- [4 The command bridge](#4-the-command-bridge)
- [5 Bundles and hot reload](#5-bundles-and-hot-reload)
- [6 Four components by themselves](#6-four-components-by-themselves)
- [7 Where code and documents disagree](#7-where-code-and-documents-disagree)
- [8 Proved, checked, left out](#8-proved-checked-left-out)

## 1 The system

A `myiot` installation is a server process (`src/server`) that runs OSP bundles
on the POCO / macchina.io platform (`src/platform`), and a second process, the
acquisition agent, that owns the AD7606 converters, the FIFO registers and the
CDCE937 clock generator of the JNDM123 board.

```
 browser --HTTP--> web bundles (src/webUI) --DDS control topic--> agent process
    ^                 |   |   ^                                    |  reader thread
    |                 |   |   +-------DDS snapshot topic-----------+  listener thread
    +---JSON----------+   +--pidof, SIGTERM, launch--------------->|  publisher thread
                                                                   +--UDP frames-->
 bundle directory --inotify--> BundleWatcher --> OSP loader, repository
 configuration page -------------------------->  (start, stop, resolve)
```

| component | state it keeps | operations | what is hard | what makes it correct |
| --- | --- | --- | --- | --- |
| Acquisition runtime (`AcquisitionRuntime.cpp`) | flags, frame queue and its atomic counter, counters, history, mapped registers | start, stop, divider-apply/-init/-update-reference/-status, restore, shutdown; reader and publisher loops | four threads, three locks, one counter changed by load-then-add; failure of any hardware step; SIGTERM at any time | flags tell what runs; registers mapped when touched; no frame lost uncounted; what is shown never goes back; commands are answered; shutdown ends |
| Clock divider (`AcquisitionDivider.cpp`, `AcquisitionDividerState.cpp`) | CDCE937 registers, a key=value text file on each partition it may be on | apply, read status, restore, update reference | registers shared between outputs, one divider in two registers, I2C failure in the middle, registers that cannot be read count as 0, file truncated, rewritten in place and never synchronised, its path looked up in `/proc/mounts` at every call, commands without the lock during the restore | what was applied and answered stays in the file it was saved in or in the chip; the acquisition starts on a safe clock |
| UDP stream (`AcquisitionUdpStream.cpp`) | pending frames, counters | push, flush | pending frames are dropped when sending fails | every frame is sent or counted |
| Command bridge (`webUI/JNDM123/AD7606/src/JNDM123DdsBridge.cpp`) | next sequence number, highest number seen, latest snapshot | send a command and wait, receive a snapshot, reset the cache | deadlines against late answers, two publishers in the agent, restarts of either side | an answer belongs to the command; every call returns |
| Process managers (`JNDM123AgentManager.cpp`, `JNDM123AcquisitionServiceImpl.cpp`) | a mutex; in the service a process handle | ensure running, restart, status | exceptions under the mutex, an agent that does not end, two managers that do not know each other | one agent; exclusive use |
| Bundle watcher (`services/BundleWatcher`) | directory watchers, ignored paths | bundle available, bundle removed, start/stop watching | its own file operations come back as events, file names and manifests may disagree | what runs is stored; deferred bundles are spared; upgrades survive |
| OSP bundle lifecycle (`BundleLoader.cpp`, `Bundle.cpp`, `BundleRepository.cpp`, `OSPSubsystem.cpp`) | bundles by name, states, resolved dependencies, class loaders | load, resolve, start, stop, uninstall, unload, replace, shutdown | states changed outside the mutex, activators run inside it | dependencies before dependents; the shutdown ends |
| OSP registry, listeners, extension points (`ServiceRegistry.cpp`, `ServiceListener.cpp`) | services by name, references a listener knows | register, unregister, find, listen | a listener that is created while services come and go; events after the mutex is released | none missed, none announced twice, none kept that is gone |
| Web server dispatcher (`WebServerDispatcher.cpp`) | paths, patterns | add and remove a bundle's paths, find who serves a request | bundles map paths in any order, above and below one another | what a bundle allows below its path holds; the deepest mapping serves; bundles that go leave the others alone |
| Global configuration (`webUI/GlobalConfig`) | none of its own | resolve/start/stop a bundle, edit properties | check of the dependents, then stop | dependents are not left behind |
| Process console (`services/ProcessConsole`, `webUI/ProcessConsole`) | working directory per session, pseudo terminals | run a command, terminal session | two threads per session and cleanup | every process and descriptor is released |
| Home page log stream (`LogStreamRequestHandler.cpp`) | active requests, stopping flag: two atomics in the bundle's library | acquire, stream, release, shut down | stop and replacement of the bundle against requests on their way in; streams that never end; a wait that does | nobody is let into a stopped bundle; served requests run mapped code; stop returns |
| Telemetry service (`platform/OpenTelemetry`) | active and completed activities, a stack per thread | begin, step, finish, snapshot | lock sections between which an activity is in no list; activities finished on another thread | every activity is somewhere; stacks do not leak |
| Web session manager | sessions with expiry | create, find, remove | all under one mutex | sessions expire |
| Server application | subsystems | initialize, uninitialize | order | services exist while used |
| System monitor, launcher, login, log viewer, Vue pages | at most the last sample | read and format | nothing beyond the above | - |
| macchina.io libraries (WebTunnel, WebEvent, JS, V8, ...) | - | - | third-party code | - |

The behaviours that tests would hardly reach are listed line by line under
`hazards` in `PROJECT.json`, each with the properties that would catch it, or
with the reason why none does.

## 2 The plan

In order of importance; each module is written so that it can be proved about
(constants with named assumptions, one action per step, no `RECURSIVE`).

| module | models | abstract specification | state |
| --- | --- | --- | --- |
| `AcquisitionRuntime`, `AcquisitionRuntimeInv`, `AcquisitionRuntime_proofs`, `MCAcquisitionRuntime` | the agent's four threads | `FrameStream` | checked and proved |
| `AcquisitionFrames`, `AcquisitionFrames_proofs`; `FrameStream` | where each frame is: the accounting, and the refinement | `FrameStream` | checked and proved |
| `DdsCommandBridge`, `DdsCommandBridge_proofs`; `CommandService` | bridge, web-side process manager, topics, the agent's numbering | `CommandService` | checked and proved |
| `BundleHotReload`, `BundleHotReload_proofs`, `MCBundleHotReload`; `BundleDirectory` | watcher, loader, repository, configuration page, shutdown | `BundleDirectory` | checked, safety proved |
| `ClockDivider`, `ClockDivider_proofs` | register sharing, partial writes, misread registers, the saved files with their write-back, mounts, safety limit, crash and power loss | - | checked, safety proved |
| `LogStreamLifecycle`, `LogStreamLifecycle_proofs`; `LibraryGate` | requests of the Home bundle against its stop, start and replacement | `LibraryGate` | checked, safety proved |
| `VirtualPaths`, `VirtualPaths_proofs` | the dispatcher's table and the choice of who serves a request | `ServedByTheDeepest` (what `mapPath` computes, without its loop) | checked and proved |
| `ServiceListener`, `ServiceListener_proofs` | registry and a listener that is being created | - | checked and proved |
| `MCAgent`; `MCComponents` | the agent's threads and its dividers; the last three; for TLC | - | - |

Compositions: `DdsCommandBridge` contains the part of the agent that numbers and
publishes; the rest of the agent is `AcquisitionRuntime`, its dividers are
`ClockDivider`. `BundleHotReload` composes the watcher, the loader, the repository
and the configuration page in one module, because their threads meet inside the
loader. `LogStreamLifecycle` composes the dispatcher's routing, the extension
point's map of libraries and the handler of the Home bundle.

Considered and not pursued, with the reasons in section 8: the two process
managers together, the UDP stream, the telemetry service, terminal sessions, web
sessions.

## 3 The acquisition agent

### Model

`AcquisitionRuntime.tla` models `AcquisitionRuntime.cpp` with four threads:

| thread | variables | actions |
| --- | --- | --- |
| main: restore, wait for SIGTERM, `shutdown()` | `mainPc` | `LockRestore`, `Restore`, `Terminate`, `LockShutdown`, `JoinPublisher`, `StopSubscriber`, `ReleaseHardware` |
| DDS listener: `handleControlMessage()` | `listenerPc`, `command`, `received` | `Receive`, `LockCommand`, `UnlockedCommand`, `Pause`, `Apply`, `Answer` |
| reader: `readerLoop()` | `readerPc`, `exiting`, `sequence`, `batchSize` | `ReaderBegin` ... `ReaderAdd` |
| publisher: `publisherLoop()` | `publisherPc`, `hand` | `PublisherCheck` ... `PublisherApply` |

`startAcquisitionLocked()` and `stopAcquisitionLocked()` are procedures that
whoever holds `_controlMutex` runs; `lockHolder` says who, `step` says where in
them. One action is what a thread does between two points where another thread
can see the difference: `_queueDepth.load()` and the `fetch_sub` after it are two
actions, as are `enqueueNotification` and the `fetch_add` that follows it.
Sections under `_stateMutex` call nothing that blocks and are one action each.

A batch of frames is a record of its first sequence number, its size and the
session it was captured in. Ghost variables: `session` (how often the state was
cleared), `shown` (the frame made visible last), `appliedFrames`,
`firstSequence`. `Faults` switches failures of I2C, GPIO, `mmap` and thread
creation on; `CrashBudget` allows SIGKILL, after which the process begins again
with the hardware as it was left.

### Runs

| run | shows |
| --- | --- |
| `acquisition_pipeline` | `TypeOK`, `QueueIsCurrent`, `FrameAccounting`, `NeverShowsOlder`, `ImplementsFrameStream`: 3 frames in batches of up to 2 pass reader, queue and publisher while two commands, SIGTERM and one SIGKILL come at any moment |
| `agent_faults` (`MCAgent`) | `NoUnmappedAccess`, `FlagsAgree`, `IInv`: all six commands, two of them, every failure, one SIGKILL; and the properties of the dividers (section 6) |
| `acquisition_liveness` | `CommandsAnswered`, `ShutdownStopsReader` with fair threads and every failure |
| `acquisition_shutdown_hangs`, `acquisition_clock_changed` | violations, see section 7 |

Bounds. Two commands are enough for stop-then-start, start-then-start and for a
divider-apply during acquisition. Three frames in batches of two give a full and
a partial batch, so that a batch can be in the queue, one in the publisher's hand
and one at the reader at once. `MaxPendingFrames` is small enough for frames to
be dropped. `CounterModulus` stands for 2^64: it is larger than anything the
counter reaches but by wrapping below zero, which is what the code's counter
does. `BatchLimit` bounds a batch by its size, where the code bounds its age.

Fairness (`FairSpec`). Weak fairness of each thread's own steps: the operating
system schedules threads, a mutex that is free is eventually taken, the
publisher wakes every 200 ms whether or not it is notified. Nothing is assumed of
`Receive`, `Terminate` and `Crash`.

Properties worth a word. `FrameAccounting` says that every frame this reader has
captured is in its batch, in the queue, in the publisher's hand, visible, or
counted as dropped - although `_queueDepth` itself may have lost count.
`FrameStream` is what the agent promises to whoever watches its frames: sessions
of frames numbered without a gap; what is visible only moves on, over all the frames
up to the one it moves to; while frames are captured none is given up uncounted; a new
session captures only once everything visible or on its way belongs to an earlier
one. `ImplementsFrameStream` maps it to the agent: `open` to
`Capturing`, `next` to the reader's `sequence`, `pending` to the frames in the reader's
batch, the queue and the publisher's hand. The four threads, the flags and
`_queueDepth` do not appear in it. It has no liveness part: a publisher that waits
for ever (section 7) shows nothing more and breaks no promise of it.
`NeverShowsOlder` is about a batch of the previous acquisition that the publisher
still holds when a start has cleared the counters. `CommandsAnswered` and
`ShutdownStopsReader` hold whatever fails: no procedure leaves with
`_controlMutex` held, and no join waits for a reader that does not see its flag.

### Proofs

`AcquisitionRuntimeInv.tla` states the inductive invariant `IInv`,
`AcquisitionRuntime_proofs.tla` proves it and what follows, for all values of the
constants under `CommandsAssumption`, `FaultsAssumption` and `BoundsAssumption`:

`Invariance` (`Spec => []IInv`), `TypeCorrect`, `MappedWhenUsed`,
`FlagsTellTheTruth`, `QueueNeverStale`, `ShownOnlyForward`.

None of the safety invariants is inductive by itself: what the flags are in the
middle of a start or a stop has to be said. `IInv` has these parts.
`HolderInv` relates the holder of the mutex, the place in the procedures and the
places of main and listener. `FlagsInv` says for every place of start and stop
what flags, ADC, mapping and queue are there. `ReadInv` keeps the reader from the
registers once the shutdown has passed its stop. `OrderInv` (`CaptureInv`,
`QueueInv`, `HandInv`) orders the frame shown, the batch in the publisher's hand,
the batches in the queue and the reader's next frame by session and number;
`FreshInv` covers the moment at which a new reader takes its first number. The
proof has one lemma per part with one step per action.

`AcquisitionFrames_proofs.tla` proves `FramesAccounted` (`Spec => []FrameAccounting`)
and `AcquisitionImplementsFrameStream` (`Spec => ImplementsFrameStream`). A frame is a
pair of session and number and a batch the set of its frames (`FramesOf`), so the sum
over the queue becomes the cardinality of a set and needs no induction: by `OrderInv`
the batches in the queue, in the hand and at the reader are pairwise disjoint, so a
batch that moves from one place to the next changes no cardinality, a captured frame
adds one, a dropped or applied batch takes away as many as are counted. One
strengthening is needed (`AccountInv`): until a new reader takes its first number
(`Fresh`) nothing has been applied or dropped in its session. Refinement: each action
maps to one step of `FrameStream` or a stutter; `PublisherApply` is `Show` of the last
frame of the batch, because everything not later than that frame is in the
hand.

## 4 The command bridge

### Model

`DdsCommandBridge.tla` models `sendCommandAndAwait`, `onMessage` and
`resetSnapshotCache` of the bridge, the process manager of the web side, and
the part of the agent that numbers, records and publishes. Actors: the
**caller** (sends commands under `_controlMutex`, one at a time), the **handler**
of `restart-process` (takes no such lock; `Reset`, then the manager), the agent's
**listener** and **publisher** threads. `Manager(a)` is the process manager as run
by the actor `a`: `LockManager`, `Kill`, `Wait`, `EnsureRunning`, `EnsureThrows`,
`LaunchAgent`.

Both DDS topics keep the last sample and are transient-local. Each is modelled by
two slots, at the writer (kept for a reader that comes late) and at the reader;
a sample may be overwritten before it is taken, taken late, or lost with its
reader. A snapshot is the `commandSequence` in it. Composing a snapshot and
writing it are two steps, in two threads. Incidents: `Reset`, `AgentCrash`,
`ServerRestart`. The DDS library is external; it is modelled by what the code in
`src/` relies on.

`CommandService.tla` is the abstract specification, what a client is promised: a
command that is answered has been carried out, and every command is answered or
given up. The promise excludes `EarlyActions` (`divider-apply`, whose number is
stored before the acquisition is started again) and ends with a restart of the
server. The refinement maps `open` to `Waiting` (from the publication to the
reply) and `verdict` to `result.kind`.

### Runs

| run | shows |
| --- | --- |
| `dds_bridge` | `TypeOK`, `AnsweredWasCarriedOut`, `ManagerIsExclusive`, `NeverGoesBack`, `IInv`, `ImplementsService`, `CallReturns`: two commands, two launches, one incident |
| `dds_bridge_server_restart` | violation, see section 7 |

`NeverGoesBack` is about the kept sample: an agent that is launched takes the last
command again and carries it out a second time, but never one that is older than
a command carried out before - a stop that was carried out is not followed by the
start it has ended.

Bounds. An answer can only be wrong by belonging to an earlier command, so two
commands suffice; two launches give an agent before and one after a crash or a
restart; one incident of each kind is combined with every interleaving.
Deadlock is not checked: when the budgets are used up nothing is left to do.

Fairness. The caller's poll sleeps 50 ms and ends after five seconds, the
manager's waits end after two: weak fairness of `Publish`/`PublishFails`, of
`Poll`/`TimeOut` and of each actor's steps in the manager. Nothing is assumed of
the agent, of the topics or of delivery - `CallReturns` and the liveness part of
`ImplementsService` hold even if no agent ever answers.

### Proofs

`DdsCommandBridge_proofs.tla`: `BridgeInvariance`, `BridgeTypes`, `AnswersAreEarned`,
`NeverBack`, `ManagerExclusion` and `BridgeImplementsService` (initial states and every step
map to `CommandService`), from `ActionsAssumption` and `BudgetAssumption`.
The inductive invariant says that, as long as the server keeps its memory, a
command is numbered by its place in `sent` (`CommandInv`, `ServerInv`), and that
every number an agent, a snapshot on its way or the bridge itself carries is that
of a handled command (`AgentInv`, `ServerInv`, `AnswerInv`). That is why a cleared
cache, a late snapshot or an old agent cannot answer a later command. `NewestInv`
orders what is carried out, what the agent's reader holds and what the server's
writer keeps, by the time of sending; `NeverGoesBack` alone is not inductive,
because a launch fills the reader from the writer.

## 5 Bundles and hot reload

### Model

`BundleHotReload.tla` models three threads of the server and a deployer who
changes the repository directory:

| actor | code | actions |
| --- | --- | --- |
| watcher | `BundleWatcherService::handleBundleAvailable`, `handleBundleRemoved` | `SkipAvailable`, `TakeAvailable`, `GiveUpReading`, `ReadReplacement`, `ReadNew`, `Erase`, `Uninstall`, `UninstallFails`, `Load`, `SkipRemoved`, `TakeRemoved`, `Unload` |
| console | `manage.json` of the configuration page | `Request` |
| main | `OSPSubsystem::uninitialize`, `BundleLoader::stopAllBundles`, `sortBundles` | `Terminate`, `List`, `Sort`, `StopNext` |
| all three | `Bundle::stop/start/resolve` and the loader | `StopIf`, `Stop`, `StopMark`, `StopWork`, `StopWatching`, `Join`; `Start`, `StartMark`, `StartWork`; `Resolve`, `ResolveWork` |
| deployer | - | `Drop`, `Delete`, `Expire` |

`Bundle::stop`, `start` and `resolve` look at the state of the bundle, write it,
and only then enter the loader and its mutex. These are separate steps, so that
two threads may pass the same check (`_state` is a plain member: a data race of
which the model contains the orders of reads and writes). `old` is
`StateChange::_oldState`, which an exception writes back. What the loader does
under its mutex is one step - starting the dependencies included, for which the
set `D` of dependencies started on the way is chosen - with one exception: the
activator of the watcher's own bundle waits, inside the mutex, for the watcher
thread (`StopWatching`, `Join`), so `loaderLock` is kept meanwhile.

A bundle file is a name and a version; its path is the name and version in the
file name. The two may differ, as the code allows (`symbolicNameFromPath`). Every
change of the directory, the server's own included, queues an event while the
directory is watched; `ignored` is `_ignoredPaths`, an entry of which may expire
at any time, since how long a handler takes is open. `Faults` lets activators,
class loading, file removal and installation fail.

Simplifications, beyond the data: `preventUninstall` and `lazyStart` (true in no
bundle of the repository), extension bundles, required modules, version ranges,
libraries and the code cache are left out; one repository directory instead of
two; dependencies started inside the mutex go straight to active; two consecutive
looks at a state with nothing in between (`removeBundle` and then `uninstall`)
are one; whether a file settles in time is a free choice. The directory watcher
itself belongs to POCO Foundation, which is not in the repository: its thread
handles one event at a time and its destructor joins it.

`BundleDirectory.tla` is the abstract specification, what whoever deploys bundles sees: which
files there are, and which bundle runs under each name. A bundle begins to run
(`Install`) only under a name that is free, and with its file in place; it goes
(`Retire`) with no file but its own, and never if it is a web interface bundle or the
watcher; any other file the server removes (`Tidy`) is one nobody runs from. Bundle
objects, states, events, ignored paths, the loader's mutex and the threads do not appear
in it. The refinement maps `stored` to the paths with a file, `running` to the
paths of the bundles in `_bundles`.

### Runs

| run | shows |
| --- | --- |
| `bundle_hot_reload` | `RunsWhatIsStored`, `WatcherSpares`, `StartedOnItsDependencies`, `ImplementsDirectory` and `IInv` (with it `TypeOK`) with two changes of the directory, one request, the shutdown and every failure |
| `bundle_upgrade`, `bundle_shutdown_deadlock` | violations, see section 7 |

The instance has a library bundle, a web interface bundle that needs it, and the
watcher's own bundle; two versions; files to deploy that are an upgrade of the
library (an in-place change when it comes a second time), a deferred bundle, and
a deferred bundle under the library's name. Two changes are needed for an event
of the first to meet the second; `LoadBudget` allows for two bundle objects
beyond the boot, one for each change, since an object that is replaced stays in
`bundles` as long as a thread may point to it. Deadlock is not checked,
because the system really stops: after the shutdown, when a dependency was
unloaded before it (`Sort`), and in the deadlock of section 7.

Fairness (`Spec`, used by `bundle_shutdown_deadlock`): the watcher thread, the
request handlers and, once told to terminate, main go on when they can.

### Proofs

`BundleHotReload_proofs.tla` proves, for every set of bundles, dependencies, run
levels and deployable files, for any budget and with or without failures, of
`SafetySpec` (no fairness is needed):

- `TypeCorrect`: the types; with them that `loaded`, `target`, `order` and
  `pending` only ever name bundle objects that exist.
- `StoredWhatRuns`: `RunsWhatIsStored`.
- `SparedByWatcher`: `WatcherSpares`.
- `StartsOnDependencies`: `StartedOnItsDependencies`; only the bundle's own thread
  leaves `startWork` (`LeavesStart`), and what the loader finds under its mutex is
  what it leaves active (`StartFindsAll`).
- `HotReloadImplementsDirectory`: `ImplementsDirectory`. `Load` is `Install` or `Tidy`,
  `Uninstall` and `Unload` are `Retire`, `ReadNew` is `Tidy`, `Drop` and `Delete` are the
  deployer's; every other step is a stutter, because it changes neither a file nor
  `_bundles`, and bundle objects keep their paths.

None of the last four can be proved by itself. `IInv` adds `LoadedUnderItsName` - `_bundles`
maps a name to a bundle of that name -, `WatcherInv` - what the watcher checked
before it began to stop, remove or load a bundle still holds when it acts - and
`TargetInv`: the bundle it stops, removes or unloads is still the one that is loaded under
its name, so that what goes is what runs. The
argument: only the watcher thread loads and unloads, so between its check and its
act no name can become loaded (`LoadedStep`, `StillLoaded`); a file is removed
only for the path it has read, for the bundle it forgets in the same step, or for
a bundle it could not load (`StoredStep`), and none of these is the file of
another bundle that is loaded, because a path carries the name and names are
loaded once. Bundle objects are only added and keep their name and version
(`BundlesStep`, `LengthStep`), so what a thread has pointed to keeps its identity
while others go on. The assumptions used are `NamesAssumption` and
`ContentsAssumption`.

## 6 Four components by themselves

`ClockDivider`, `LogStreamLifecycle`, `VirtualPaths` and `ServiceListener` share no
state with one another. `MCComponents` puts the last three into one run, `components`: a
behaviour exercises one of them (`exercised`, chosen from the constant `Exercised`)
and leaves the others in their initial state. The state space is the sum of the
three, and every property of one of them is checked on all of its behaviours.
`MCAgent` does the same with `ClockDivider` and `AcquisitionRuntime`, the two sides
of the agent, in `agent_faults`.

### Clock dividers

`ClockDivider.tla` models `AcquisitionDivider.cpp`, `AcquisitionDividerState.cpp` and
their callers in `AcquisitionRuntime.cpp`. `AcquisitionRuntime.tla` takes a divider
command for one step that may fail; here is what happens inside it.

| state | code |
| --- | --- |
| `chip` | the divider registers of the CDCE937: `r02`, `r03` (Pdiv1, outputs 0-2), `r26` (Pdiv4, outputs 3-5), `r37` (Pdiv7, output 6) |
| `files` | what reading the state file of each store gives: reference clock and divider per output (`key=value` lines). A store is a partition of `persistentMounts` or the root file system |
| `remains` | for each store, the contents of which a loss of power may leave any one |
| `mounted` | the store `dividerStateFilePath` finds at this moment |
| `job` | per thread: which operation, where in it, which store it read or writes, what is left to write or read, what was read, what was misread |
| `acquiring`, `booting` | `_running`, and whether main has come to the restore |
| `promised`, `home`, `lost` | ghosts: what answered divider-apply commands have promised; the store it was saved in; the outputs whose entry is missing there |
| `inForce`, `overlap` | ghosts: whether the chip holds the promises or a command is about to make it; whether a command was begun during the restore |

`Begin*` are the beginnings of the operations (`BeginRestore` on main; `BeginApply`,
`BeginInit`, `BeginStatus` for status and update-reference, `BeginStart`,
`StopAcquiring` on the listener). `WriteHigh`, `WriteLow`, `WriteOne`, `ReadHigh`, `ReadLow`,
`ReadOne` are one I2C transfer each, `Misread` and `Fails` those that fail,
`Truncate`, `Flush`, `DiskFull` the effects on the file. Operations that take
`_controlMutex` exclude one another; init, status and update-reference do not take it.

Around the process there are four more. `saveDividerConfiguration` opens the file with
`std::ios::trunc` and lets the `ofstream` close; it neither synchronises the file nor
writes a second one and renames it. So `Truncate` and `Flush` change what a reader sees
and add to `remains`; which of these contents is on the disk stays open until the
kernel writes the file back (`WriteBack`). The path is looked up at every call:
`Mount` changes what the next lookup finds, at any moment, and a job keeps the store it
has found. `Restart(FALSE)` ends the process anywhere. `Restart(TRUE)` takes the power with
it (`PowerLoss`): the chip is as at power-up, every file is one of its remains, and
whatever partition is mounted by the time the agent runs again.

- `AppliedSurvives`: a divider that was applied and answered is kept twice, for every
  output that shares it: in the file it was saved in, unless its entry there is `lost`
  (misread when that file was last written, cut off by a crash, or the disk was full),
  and in the chip, while the promises are `inForce` (until the power is lost or the file of
  another partition is restored, and again after a restore). One of the two is always
  there. The file may lose it - then the chip must hold it; the chip may lose it - then the
  file must. A promise is void only when both are gone, and each such case is a
  line of the model that a reader can hold against the code: the power is lost before
  the file is written back, or while the entry is missing (`PowerLoss`); the file of another
  partition is restored while the entry is missing or the file is about to be rewritten
  (`Restores`); registers that are to be reprogrammed, or that do not hold the promises,
  are saved over them (`Forgets`).
- `StartedOnSafeClock`: the acquisition starts on a clock within the safety limit, by
  what the chip holds at that moment and the reference clock in the file the start has
  read, unless the register of an acquisition clock was misread - the code takes it for
  0 Hz - or a command was begun during the restore.

Instance: outputs 0 and 1 on the divider of two registers, 3 and 6 on one each;
registers of radix 2, so that a divider needs both; one request that sets one output
without a reference clock and one that sets three on three dividers with one; one
partition beside the root. Two commands give an apply and what may undo it; one fault (a
failing transfer, a full disk or a mount) and two crashes or losses of power reach every
place, the restore included, and a file is written back at any moment between.

Proved (`ClockDivider_proofs`): `ClockDividerTypes`, `ApplySurvives`,
`StartsOnSafeClock`. The inductive invariant adds to the types `PlacesInv` (where a
thread can be; two threads are at work only if a command was begun during the
restore), `PromiseInv` (the property, and what is true of it in the middle of each
transfer and each save), `ApplyInv` (what is already true of a promise not yet given) and
`StartInv` (what a start has read so far is what the chip holds). None of the
properties is inductive without what is half done. For the loss of power the argument
is short: a promise outlives it only if the file of `home` has been written back, then
`PowerLoss` leaves that file as it is, and the entry is in it because it is not `lost`.

### Log requests against the stop of their bundle

`LogStreamLifecycle.tla` models `LogStreamRequestHandler.cpp` of the Home bundle,
the dispatcher's routing, and what the web server and the loader do to the bundle's
library. The controller (`UnmapPaths`, `BeginShutdown`, `WaitSlice`, `EndWait`,
`Stopped`, `BeginStartup`, `MapPaths`, `Replace`) is the thread that stops, starts or
replaces the bundle; a request passes `Route`, `TryAcquire`, `CountIn`,
`CheckAgain` or `BackOut`, `EndRequest` or `EndStream`, `Release`, `Return`. Each is one
access to one atomic or one section under a mutex. Flag and counter are globals of the
library: they are new when it is mapped again. A request that goes on in code that
is not mapped ends the process (`RunUnmapped`).

- `CountIsExact`: the counter is the number of requests that have counted themselves
  in, whatever refusals they met.
- `ServedFromMappedCode`: a request that was let in runs mapped code, unless a
  stop() gave up waiting for it (`abandoned`). This is what flag and counter together
  are for; with one look at the flag it does not hold.
- `NobodyEntersAStoppedBundle`: no request is let in between the beginning of the wait and
  the next start.
- `StopReturns`: stop() returns although the thread of a stream may be stuck in a send to
  a client that does not read; this is what the bounded wait is for.
- `StreamsAreClosed`: a stream that is open when stop() begins ends, if its client reads;
  this is what the flag is for.
- `ImplementsGate`: what the bundle's users rely on, `LibraryGate`, knows neither flag nor
  counter. A gate is open, closing or closed; requests enter while it is open and none
  while `stop()` waits; the wait ends when nobody is inside, or when `stop()`'s patience
  does, and then it gives up those who are; the library is unloaded only behind a
  closed gate, and only code that was unloaded can be missed by anyone. `gate` is
  "closing" in `draining`, "closed" in `drained` and `stopped`; `inside` and `givenUp` are
  the requests that serve in the bundle's present version, before and after the gate is
  closed. Its fairness says that the wait ends.

`Replace` is what the bundle administration page does with a stopped bundle
(`BundleInstallHandler` in `platform/OSP/BundleAdmin`, `replaceBundle`,
`BundleRepository::installBundle`); the watcher leaves Home alone, as its name is one of
those it defers (`BundleWatcherService.cpp:291-294`).

That requests outside the counted part (before `CountIn`, after `Release`) may find
their code gone is reachable in the model, as it is in the code; the properties are about
what the two atomics protect.

Instance: three requests, two of them streams of which one is not read, one slice of
waiting, one replacement.
Three requests have one in front of each access while stop() is at any of its own.
Fairness (`LogStreamFairness`): threads run, and a snapshot ends by itself;
nothing is assumed of clients, and nothing of the thread that sends to one that does not
read (`Unread`). Proved for any number of requests and versions
(`LogStreamLifecycle_proofs`): `LogStreamTypes`, `CounterIsExact`,
`MappedWhileServed`, `StoppedIsClosed`, `LogStreamImplementsGate` (initial states and
every step map to `LibraryGate`); the invariant adds which versions routes and
handlers can have (`VersionsInv`), that the flag stays up (`FlagInv`), and that a stop
that went on has given up everyone still inside (`AbandonedInv`). The steps that matter in
the refinement are two: `CheckAgain` enters only while the flag is down, so the
gate is open; and `EndWait` looks at the counter only, which by `CountIsExact` is zero
only if nobody serves.

### Paths of the web server

`VirtualPaths.tla` models `addVirtualPath`, `removeBundle` and `mapPath`.
`AddVirtualPath` and `RefuseVirtualPath` are its two outcomes, with the conditions of the
code for mappings above (`ProtectedAbove`) and below (`ProtectedBelow`);
`AddPattern` a handler with a pattern; `RemoveBundle` what happens when a bundle
stops. `PatternFor`, `FoundIn` and `MapPath` are `mapPath`, loop and all.

- `SpecializationHolds`: whatever the order in which bundles have come, nothing is mapped
  below a path whose owner allows nobody, or only himself, or less.
- `ServedByTheDeepest`: where no pattern matches, `mapPath` returns the deepest mapping
  above the path, or nothing if that one wants an exact match.
- `OthersGoOnServing`: when a bundle stops, every request that another bundle served is
  served by it still, and none by the one that stopped.

Instance: five paths three segments deep, nine mappings of three bundles that cover all modes
and exact matches, three patterns that overlap and differ in methods. Proved for any
paths and offers (`VirtualPaths_proofs`): `PathTypes`, `SpecializationRespected`,
`TheDeepestIsFound`, `OthersAreServed`. The first two are inductive. For the others the
loops of the code are recursive functions, and what they compute is proved for
every input: `Without` keeps the patterns of the others, in order
(`WithoutKeepsOthers`); the choice among the patterns is the one that no later match
can replace, and there is only one such (`ChosenPattern`), so that it stays the choice
when patterns of a bundle go before or after it (`ChoiceStays`); the loop over the path
ends with the deepest mapping (`FindsTheDeepest`, `TheDeepestServes`). The induction they
rest on is stated for a set of numbers (`Induction`) and proved from a fact about
finite sets: were a number the first one missing, adding one would map the
numbers before it one-to-one into themselves without reaching 0.

### A listener that is being created

`ServiceListener.tla` models `ServiceRegistry::registerService`, `unregisterService`,
`find` and `ServiceListener`. An owner is a bundle that registers and withdraws its
service (`Register`, `AnnounceRegistered`, `TellRegistered`, `Unregister`,
`AnnounceUnregistered`, `TellUnregistered`); the constructor subscribes, finds, and
announces what it has found (`SubscribeRegistered` ... `EndInit`). The registry
fires events after releasing its mutex, the listener calls its client after releasing
its own, so each is a step. The loader invokes activators under its mutex
(`BundleLoader.cpp:500-553`), so the `start()` and `stop()` of two bundles do not
overlap with one another or with a listener that an activator creates; what the model
interleaves is a listener created elsewhere - a script creates its listeners on
the thread it runs on (`platform/OSP/JS/src/ServiceRegistryWrapper.cpp:115-135`) - with
the activators, and owners that register on threads of their own, which the registry's
thread-safe interface allows.

- `NoServiceMissed`: a matching service that is registered is known to the client,
  whether it came before, during or after the creation.
- `ToldOnce`: no delegate is about to be called for what it was called for before, although
  `find` and the event may both bring it.
- `StaleOnlyFromInit`: the one gap (section 7) is confined to services withdrawn while
  the listener was being created; later none is kept.

Instance: three owners, two of which offer the same name, one that does not match, two
registrations each. All of it is proved for any number of them
(`ServiceListener_proofs`): `ServiceListenerTypes`, `NothingMissed`, `ToldOnceOnly`,
`StaleFromInitOnly`. `HeardInv` says which of `find` and event has a registration at
each place of its owner, `WithdrawnInv` the same for withdrawals.

| run | shows |
| --- | --- |
| `agent_faults` | the properties of the dividers and their type invariant, with those of section 3 |
| `components` | the other properties above and the type invariants of the three |
| `service_listener_stale` | violation, see section 7 |

Deadlock is not checked in `components` and `service_listener_stale`: the budgets end every behaviour.

## 7 Where code and documents disagree

Each has a run that expects the violation and an entry under `findings`.

| run | what the code does |
| --- | --- |
| `acquisition_shutdown_hangs` | `drainQueue` stores 0 between the publisher's load of `_queueDepth` and its subtraction: the counter wraps, the publisher never sees 0, `shutdown()` waits for it for ever |
| `acquisition_clock_changed` | `divider-update-reference` and `divider-init` change the clock of a running acquisition without the safety check |
| `dds_bridge_server_restart` | a restarted server numbers from 1; the surviving agent's snapshot answers the first commands before they are carried out |
| `bundle_upgrade` | the removal of the old file of an upgraded bundle is matched by name to the new bundle, which is unloaded |
| `bundle_shutdown_deadlock` | the loader's mutex is held while the watcher's bundle waits for the watcher thread, which waits for that mutex |
| `service_listener_stale` | a service withdrawn between `find()` and the announcement of what it returned is announced after it is gone, and its withdrawal never |

## 8 Proved, checked, left out

**Proved** for all values of the constants: the theorems of sections 3 to 6,
listed under `theorems`. Everything is checked by `tlapm`, with SMT (Z3), Zenon
and, for the temporal steps, LS4; nothing is assumed but the named assumptions on
constants.

**Only model-checked.** Liveness (`CommandsAnswered`, `ShutdownStopsReader`,
`CallReturns`, `StopReturns`, `StreamsAreClosed`, the fairness parts of
`ImplementsService` and `ImplementsGate`): liveness under fairness and `ENABLED` are out of the prover's
reach. Every invariant and every action property that a run checks is proved, and of
the refinements `ImplementsFrameStream` and `ImplementsDirectory` as a whole,
`ImplementsService` and `ImplementsGate` without their fairness.

**Not modelled, and why.**

- *Agent*: the contents of frames and of the history; the C++ data race of
  `clearHistoryLocked` (under `_controlMutex`) with `appendHistory` (under
  `_stateMutex`) on the same deques, whose outcome C++ does not define; the
  deletion of the snapshot writer before the subscriber; `recoverRxFifo`, which
  checks the pointers itself. `clearHistoryLocked` stores several atomics one
  after the other; no other thread acts on two of them, and they are one step.
- *Clock dividers*: the registers of the chip that are written once and not read,
  the parsing of the file beyond "an entry of divider 0 is not there", and
  the path of the device. A file is written back as a whole or not at all; a part of it
  on the disk changes nothing for the property, as a promise not written back is void. Of
  several partitions that are mounted at once the first line of `/proc/mounts` counts,
  which is `mounted`; a card that is swapped for another is not modelled.
- *Bridge*: the queue of recent snapshots behind `latestSnapshot`, the divider
  payloads that `divider` answers must carry besides the number.
  `delete_datareader` of the DDS library is taken to return only when no callback
  runs. Wrapping of the 64-bit sequence numbers is out of reach of any run of the
  system. A snapshot composed before a command and written after its answer can
  be handed out as the answer; its number is the command's only if it was recorded, so
  `AnsweredWasCarriedOut` is not affected, the age of the rest is covered by no run.
- *Two process managers*: the acquisition service holds the handle of its own
  agent, the web side looks for one with `pidof`. No document says how the two share
  the hardware, so there is nothing to hold their composition to;
  `DdsCommandBridge` assumes one agent, which may be the service's.
- *Bundles*: start-up (`startAllBundles`) - the model begins with all bundles
  started -, and the editing of properties.
- *Dispatcher*: authorisation, CORS, compression, resources and their cache; the
  read of a table entry after its mutex is released (`WebServerDispatcher.cpp:334`)
  is a read of freed memory, below the level of the model.
- *UDP stream*: one thread, called under the agent's lock; its counters add up by
  construction.
- *Telemetry service*: it observes the others and controls none; an activity has one
  owner, so its lock sections meet no second writer.
- *Terminal sessions*: processes, pseudo terminals and sockets of the operating
  system (the Windows branch has most of the code); *web sessions*: every operation
  under one mutex.
- *Server application, system monitor, launcher, login, static pages, Vue pages*:
  sequential start-up, formatting, presentation. The page does not poll while a
  poll is under way; an answer that arrives late is replaced by the next.
- *macchina.io and POCO libraries, V8*: third-party code, nearly all of the lines
  of the repository. Where the modules above rest on it (threads, mutexes, events,
  the directory watcher, DDS), they say what they assume of it.

## Running

```
tlc -config acquisition_pipeline.cfg MCAcquisitionRuntime.tla
tlc -config agent_faults.cfg MCAgent.tla
tlc -config dds_bridge.cfg DdsCommandBridge.tla
tlc -config bundle_hot_reload.cfg MCBundleHotReload.tla
tlc -config components.cfg MCComponents.tla
tlapm AcquisitionRuntime_proofs.tla
tlapm AcquisitionFrames_proofs.tla
tlapm DdsCommandBridge_proofs.tla
tlapm BundleHotReload_proofs.tla
tlapm ClockDivider_proofs.tla
tlapm LogStreamLifecycle_proofs.tla
tlapm VirtualPaths_proofs.tla
tlapm ServiceListener_proofs.tla
```

`PROJECT.json` lists for every property of a passing run a mutant: a definition
with a plausible mistake, kept in the module next to the original, under which
the property fails.
