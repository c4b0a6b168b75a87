# Verification of sunnypilot's (Ascent V8) coordination logic

This directory holds TLA+ models of the driving-assistance software in this
repository, the TLC configurations that check them on small instances, and
theorems about them checked by TLAPS for every value of the constants.

The repository is about 190 000 lines. Most of them draw a user interface,
run neural networks and filters, or describe cars. What is modelled here is the
logic that *decides*: who is engaged, who may steer, what survives a crash,
which process runs. All code paths below are relative to `src/openpilot/`
unless they start with `src/`.

## 1. The system's parts

| part | state it keeps | operations | interacts through |
|---|---|---|---|
| onroad events (`selfdrive/selfdrived/events.py`, `sunnypilot/selfdrive/selfdrived/events*.py`) | the event lists of one cycle | add, remove, has, contains | filled by selfdrived, edited by MADS, read by both state machines |
| openpilot state machine (`selfdrive/selfdrived/state.py`) | `state`, `soft_disable_timer`, alert types | `update` | called by selfdrived; the timer and the alert types are also written by MADS |
| MADS (`sunnypilot/mads/`) | its own `state`, mismatch counter, settings | `data_sample`, `update_events`, state machine `update`, `read_params` | runs after openpilot's machine in the same cycle, on its event list |
| selfdrived (`selfdrive/selfdrived/selfdrived.py`) | `initialized`, `mismatch_counter`, settings, last car state | `step` at 100 Hz, `params_thread` every 100 ms | messages from every process; the settings store |
| params store (`common/params.cc`) | one file per key, a queue of asynchronous writes | put, get, remove, clearAll, readAll, `putNonBlocking` | shared by all processes through the file system |
| updater and launcher (`system/updated/updated.py`, `src/launch_chffrplus.sh`, `common/hardware/comma/agnos.py`) | overlay, finalized tree, consistency marker, boot slots | init, fetch, finalize, swap at boot | file system, params, signals |
| process manager (`system/manager/`) | the managed processes | start, stop, ensure running, clear params | `deviceState`, params, signals, `managerState` |
| card (`selfdrive/car/card.py`) | the fingerprint of the car | fingerprint, announce itself ready | params, CAN through pandad |
| log rotation (`system/loggerd/encoderd.cc`, `loggerd.cc`) | the segment of each encoder and of the log, queues of early packets | roll over, rotate, queue, write | one socket per encoder |
| log storage (`system/loggerd/logger.cc`, `uploader.py`, `deleter.py`) | segments, locks, marks, a cache of marks per process | write, lock, preserve, upload, delete | directories, lock files, file attributes |
| athena (`system/athena/athenad.py`) | upload queue, items in flight, cancelled ids | enqueue, upload, retry, cancel, cache | threads and queues in one process, params |
| pandad (`selfdrive/pandad/`) | safety configuration phase, ignition | configure at ignition, leave at its end | `deviceState`, `pandaStates`, params, the panda |
| hardware daemon (`system/hardware/`) | onroad conditions, energy estimate | go on/offroad, shut down | `deviceState`, params |
| intelligent cruise buttons, speed limit assist, dynamic experimental control (`sunnypilot/selfdrive/controls/lib/`) | one state machine each | update per cycle | car state, planner messages |
| driver monitoring (`selfdrive/monitoring/policy.py`, `dmonitoringd.py`) | awareness per policy, alert, lockout | update per frame, start and end of a lockout, demo mode | `driverMonitoringState`, params shared with selfdrived, manager and the driver view |
| model manager (`sunnypilot/models/manager.py`) | download state | select, download, cancel | params |
| messaging (`cereal/messaging/`) | freshness of each service | update, `all_checks` | msgq (an empty submodule here, hence external) |
| controls, planners, localization, model runners, user interface | filters, solvers, widgets | numeric | messages |

The hard behaviours, with their lines, are the `hazards` of `PROJECT.json`. The
worst ones are of four kinds. Inside one cycle of selfdrived two state machines
share a timer, an alert list and an event list. Between processes and threads,
settings, queues and caches are read at one time and used at another. The
updater, the launcher and the params store must survive a crash between any two
of their steps. And hardwared, manager, card and pandad follow the ignition each
at its own pace, with nothing but conflated messages and params between them.

What makes each part correct:

* *engagement*: a fault ends actuation, in bounded time and with the alert; the
  driver's pedals, gear and buttons win; nothing engages unasked;
* *params*: a put is atomic under a crash, and an asynchronous one is performed;
* *updater*: whatever is booted is a complete installation, and the newest
  release is downloaded in the end;
* *manager, card, pandad*: a drive begins with the last one's params cleared, the
  panda gets into the car's mode only by the handshake with card, and both
  onroad and offroad are reached;
* *log rotation*: frames end in the segment of their minute, and no segment
  grows long;
* *log storage*: the segment being recorded is not deleted, the bookmarked ones
  go last, space is freed;
* *driver monitoring*: no alert is skipped or withdrawn by switching policies, a
  driver who does not respond is slowed down, a lockout outlives its processes;
* *athena*: an upload is performed or given up, by one thread at a time, and none
  after its cancellation.

## 2. Plan

Order of the modules, the most important behaviour first. Those marked done are
in this directory.

1. **Engagement** (done): `SelfdriveEvents`, `OpenpilotStateMachine`, `Mads`,
   composed by `Selfdrived`; checked through `MCSelfdrived`; theorems in
   `Selfdrived_proofs`.
2. `Engagement`: the abstract promise of (1), as a small specification of who
   actuates and why, with `Selfdrived` shown to implement it by a refinement
   mapping, checked and then proved.
3. **Params store** (done): `ParamsFiles`, with the queue and writer thread of
   `putNonBlocking` and the file steps of `put`, `remove`, `clearAll` and
   `readAll`; abstract specification `ParamsStore`, a durable register per key;
   checked through `MCParamsFiles`; theorems in `ParamsFiles_proofs`.
4. **Updater** (done): `Updater`, the overlay, the finalized tree, the boot slots
   and the launcher's swap with a power cut between any two steps; theorems in
   `Updater_proofs`.
5. **Log storage** (done): `LogStorage`, which composes loggerd, uploader and
   deleter with their caches; theorems in `LogStorage_proofs`.
6. **Athena uploads** (done): `AthenaUploads`, its threads, retry, cancellation and
   cache; theorems in `AthenaUploads_proofs`.
7. **Going onroad** (done): `Onroad`, which composes hardwared, manager, card and
   pandad; theorems in `Onroad_proofs`.
8. **Log rotation** (done): `LogRotation`, which composes encoderd and loggerd;
   theorems in `LogRotation_proofs`.
9. **Driver monitoring** (done): `DriverMonitoring`, which composes dmonitoringd,
   selfdrived's lockout and the driver view; theorems in `DriverMonitoring_proofs`.

Left: (2); power monitoring and shutdown; the big-model flags of selfdrived; the
button and speed-limit state machines; the freshness checks of messaging; the
model manager (a request that arrives during a download, a file that two model
bundles share).

Theorems left: the refinement of (2). Every invariant and every action property a
passing run checks is stated by a theorem; what stays with TLC is liveness
(`StuckMalfunctionDisengages`, `Converges`, `AcceptedSettles`, `OffroadSettles`, `OnroadSettles`, `SpaceRecovers`, `UploadsSettle`,
`DistractionIsAnswered`), which needs fairness and `ENABLED` and is out of the
prover's reach.

In every module an operator whose comment starts with *Mutant* is not part of
the model: it is a plausible bug, to be put in the place of the definition next
to it, and the property named for it in `PROJECT.json` must then fail. History
variables are read by no guard. The deadlock check is off where the system may
stop: when its bound on operations, events or segments is used up.

## 3. Engagement

### Modules and their correspondence to the code

* `SelfdriveEvents`: `EVENTS` and `EVENTS_SP` give the event types of each event
  as the tables of the two `events.py` do; `Contains` is `EventsBase.contains`.
  Events are a set. Of the events that carry the same types and get no special
  treatment one represents the others: `overheat` the soft-disable faults,
  `steerUnavailable` the immediate ones, `outOfSpace` the conditions that only
  block engaging. `bigModelFailed`, the one event that soft disables without
  blocking an engagement, is left out: with it openpilot could engage, and arm the
  timer again, under the very fault for which MADS soft disables, and neither
  `SoftDisableBounded` nor `SoftDisableAlerted` would hold as stated.
* `OpenpilotStateMachine`: `StateMachine.update` of `state.py`, one operator per
  branch. Since MADS writes the timer and the alert types later in the cycle,
  each operator describes `state'` and hands `timer` and `alert` on.
* `Mads`: `data_sample`, `update_events` and the state machine of `sunnypilot/mads`.
  `MadsEvents` is the event list the second machine reads: `AloneEvents` and
  `AloneEventsSP` for the part that applies when MADS steers without openpilot,
  `RequestEvents` for buttons and main cruise, `DisengageOnBrake` for the brake.
* `Selfdrived`: one `Step(cs)` is one `SelfdriveD.step()` on the observation `cs`:
  `DataSample`, `SelfdriveEvents`, openpilot's machine, MADS, and the copies kept
  for the next cycle. `ReadParams` is an iteration of `params_thread`. A cycle
  reads each setting at most once, so one atomic `ReadParams` between cycles
  shows every interleaving of the two threads.
* `softFor`, `madsSoftFor`, `parkFor` and `cycle` are history variables. No guard
  reads them.

Abstractions: speed has the three ranges the code distinguishes (standstill,
below 2.5 m/s, above); at most one button is pressed per cycle; regenerative
braking is off (it is handled like the brake pedal); the car is neither passive
nor a body; the `Mads` setting is on, as otherwise MADS does nothing; alerts are
abstracted to whether the take-control alert of a soft disable is requested.
Faults are inputs: any cycle may see any combination the input set offers.

### Runs

| run | inputs | shows |
|---|---|---|
| `faults` | faults of car, system, CAN and panda; gears, doors, parking brake, brake hold; engage, override, cancel, LKAS button; unified mode switching | the soft disable of openpilot lasts exactly the announced time (`SoftDisableGrace`) and one of the machines requests the alert in every cycle in which either of them soft disables, except a cycle that finds openpilot preEnabled (`SoftDisableAlerted`); a panda that disagrees ends the engagement (`MismatchDisengages`); Park ends MADS (`ParkDisengages`) |
| `pedals` | brake, gas, main cruise, the car's cruise control, buttons, all three steering modes, the accelerator setting as selfdrived re-reads it and as MADS read it at the start (`PedalToggles`) | `BrakeReleasesSteering`, `NoResumeWhileBraking`, `NoUnrequestedSteering` |
| `entrance` | the inputs of `stuck`, timer of 3 cycles | that exception: whoever enters a soft disable does not always find the timer reset and the alert requested (section 11) |
| `stuck` | one fault, brake, steering, engage and LKAS button, timer of 8 cycles | `SoftDisableBounded`, and, under fairness, `StuckMalfunctionDisengages` |

Bounds. `SoftDisableTicks` is 300 in the code and 3 to 8 here. Three suffices to
tell entrance, continuation and end of a soft disable apart; eight is needed
where MADS starts on a timer that an earlier fault has armed, since several
cycles must pass in between. `MismatchLimit` is 200 in the code and 2 here: one
tolerated cycle and the one that ends the engagement. The input sets of
`MCSelfdrived` vary, each, the signals one family of properties depends on;
within a set every combination occurs in every cycle. No variable needs a cap:
the counters are bounded by what the runs show.

Fairness. Only `stuck` uses it: `WF` of `Step`, because selfdrived's loop is a
real-time process paced at 100 Hz and a cycle never blocks (`recv_one` has a
timeout). Nothing is assumed of the driver, of the faults or of `params_thread`.

### What is proved

`Selfdrived_proofs`, for all values of the constants that satisfy the assumptions
named in the modules (a positive timer and limit, inputs of the right type):

* `TypeCorrect`: `TypeOK` is invariant. (No run checks it.)
* `SoftDisableIsBounded`: openpilot gives a soft disable up within
  `SoftDisableTicks`, MADS within twice that. `SoftDisableBounded` is not
  inductive, for it does not mention the timer. `SoftInv` adds that, while
  openpilot soft disables, the cycles spent and the cycles left on the timer sum
  to the announced time; and that for MADS the sum stays within the announced
  time as long as openpilot has not armed the timer anew, and within twice that
  time afterwards. The argument needs two facts of the event table
  (`TypesFacts`): what soft disables also blocks engaging, hence openpilot cannot
  arm the timer a second time under the same fault; and MADS's own events never
  soft disable, hence MADS continues only while openpilot's list has the fault.
* `SoftDisableGivesGrace`: from the same invariant, openpilot gives up early only
  if something disables it at once, although MADS writes the same timer.
* `MismatchEndsEngagement`: at the limit neither machine is on, for every limit.
  `MismatchInv` adds that both are off until the system is initialized, when
  events are not yet collected.
* `SoftDisableIsAlerted`: a cycle in which either machine soft disables requests the
  alert, unless it finds openpilot preEnabled. MADS, which leaves the alert to an
  enabled openpilot, cannot tell whether openpilot gives it. It does: openpilot's
  machine reads every fault that MADS reads, since MADS's own events never soft
  disable (`TypesFacts`), and in every state on but preEnabled it then soft
  disables itself, with the alert, or switches off, after which MADS requests it.
* `SteeringIsRequested`: MADS comes on only at a gesture of the driver. Along the
  event list MADS reads: of the events that could enable it, openpilot's own are
  taken out or replaced by silent ones (`AloneEvents` holds nothing enabling), so
  one of `RequestEvents` or the silent enable of a paused MADS is left.
* `BrakeHoldsPause`: that silent enable needs `ShouldSilentLkasEnable`, which is
  false under the brake.
* `BrakeTakesSteering`: a press of the brake gives `pedalPressed`; MADS passes it
  over only if the accelerator was pressed in the same cycle too and its own copy
  of the toggle says that this explains it (`MadsGasPress`), which is why the run
  and the theorem let the two copies differ.
* `ParkSwitchesOff`: `ParkInv` says nothing steers once the car is in Park. In
  Park, with openpilot off, MADS sees a disabling event while it is on and one
  that forbids entry while it is off, whatever else is wrong (`ParkEvents`); what
  steers is thereby paused or switched off in the first cycle, and a MADS already
  paused gets no silent disable, so the second cycle switches it off.

Model-checked only: `StuckMalfunctionDisengages`, being liveness.

## 4. Params store

### Modules and their correspondence to the code

`ParamsFiles` models `common/params.cc`. A process has one `Params` handle that
one thread uses (`main`), and the thread `std::async` starts for the handle
(`writer`); several handles of a process are several processes of the model,
since they share nothing but the files. Two Python threads that share one handle
would race on its `future`; that is undefined in C++ and not modelled. `pc`
says where a thread stands in its operation:

| code | actions |
|---|---|
| `put`: `mkstemp`, `write`, `fsync` on a private file | `Put`, or `Pop` in the writer (`WriteTmp`) |
| `put`: lock, `rename`, `fsync_dir`, return | `Acquire`, `Rename`, `Sync` |
| `remove`: lock, `unlink`, `fsync_dir` | `Remove`, `Acquire`, `Unlink`, `Sync` |
| `clearAll`: lock, `unlink` of each file, `fsync_dir` | `ClearAll`, `Acquire`, `Clear`, `Sync` |
| `readAll`: lock, read of each file | `ReadAll`, `Acquire`, `Read` |
| `putNonBlocking`: push, look at the future | `Push`, `CheckFuture` |
| `asyncWriteThread`: `try_pop` and `put`; last `try_pop`; future ready | `Pop`; `PopNothing`; `Exit` |
| `~Params` | `Destroy` |

`live` is the directory the programs see and `disk` what a power loss leaves of
it: an fsync of the directory copies it, and the operating system may write any
entry back at any time (`WriteBack`). A file whose data was not synced is `Torn`
after a power loss. Every file operation may fail, in the way the code tests for.
`Kill` ends a process at any point, which frees its flock. `get` without a lock
reads one file at one moment, so what it returns is what `live` holds. A failing
`open` of the lock file, after which the code goes on without the lock, is left
out. `settled` is a history variable. A value is named by the call that wrote it.

### Runs

* `params_store`: two processes, two keys, three operations in any combination,
  one kill or power loss. Three operations make two queued writes meet a third
  party, and a queue of two; one fault at any point reaches every intermediate
  state of every operation. Processes and keys are interchangeable (`clearAll`
  removes both keys), hence the symmetry. Shows `AcknowledgedIsDurable`,
  `SnapshotIsConsistent`, `AsyncInOrder` and the refinement `StoreSpec`.

Nothing is claimed about when a queued value is written: the code may leave one
in the queue without a thread (section 11).

### What is proved

`ParamsFiles_proofs`, for all sets of processes and keys and all bounds on
operations and faults. The inductive invariant `IInv` has, beside the three
invariants, `LockInv` (a thread past `Acquire` and not yet returned holds the
lock), `JobInv` (what is about to be renamed is complete) and `TodoInv` (a
`readAll` that waits for the lock has read nothing). `StoreSteps` says what a
step can do to the files; durability and the refinement follow from it alone.
`SnapshotIsConsistent` needs `LockInv`: whoever changes a file holds the lock,
so nobody is reading. `Refinement` gives `Spec => StoreSpec` by the usual two
facts. The assumptions are those of `ParamsAssumption`: the markers for "no file"
and "torn" are not values, and the bounds are numbers.

`AsyncWritesInOrder` (`AsyncInOrder`) has an inductive invariant of its own,
`OrderInv`: for each process, the writes in its files, the one its writer thread
has popped and the ones in its queue are sorted by the numbers of their calls,
and two of them have different numbers. A blocking `put` may come in between,
and a power loss may bring an older file back; neither reorders the
asynchronous writes of one process.

## 5. Updater and launcher

### Module and its correspondence to the code

`Updater` models `system/updated/updated.py`, the part of `agnos.py` that flashes
the other boot slot, and `src/launch_chffrplus.sh`. The updater and the launch
script never run at once, so one `pc` serves both. Each file operation that a
crash can separate from the next is an action:

| code | actions |
|---|---|
| `launch`: conditions, `mv` of the installation, `mv` of the new tree | `Installs`, `MoveAway`, `MoveIn`, `NotInstalling` |
| `agnos_init`: swap the slot, or flash at boot | `SwapSlot`, `FlashAtBoot` |
| `init_overlay`, `dismount_overlay` | `KeepOverlay`, `RecreateOverlay`, `StartRemoving`, `Remove`, `Mount` |
| `check_for_update`, `fetch_update` | `Check`, `Withdraw`, `Checkout` |
| `handle_agnos_update`, `flash_agnos_update` | `CompareAgnos`, `Flash` |
| `finalize_update` | `Copy` |
| `set_consistent_flag`: sync, touch or unlink, sync | `SetConsistent`, run by `SetConsistentSteps` |
| the loop of `main` | `SetParams`, `Fetched`, `Fail`, `Report`, `ResetRequest`, `Wake` |

`fs` is what processes see of the finalized tree and its marker, `disk` what was
there at the last `os.sync`. A power cut (`PowerCut`) leaves either value of each,
and an unsynced tree incomplete. `Drive` kills the updater at any point, since
manager runs it only offroad. `Fail` stands for every command that can raise.

Abstractions: a release is its commit, and a branch its head. The renames and the
small files are journaled in order. A stray `.overlay_consistent` in the
installation (lines 158-160) is left out, as `git clean` removes it; `ready_event`
and informational params are left out; a change of the worktree that does not
touch `.git` is one the code cannot detect either.

### Run

`updates`: two releases that need different systems, two faults and two events
(signals, releases, edits by the user, expiry of the last fetch, reboots).
Two faults allow a crash during the recovery from a crash; two releases let the
branch move while the other is being prepared. `InstalledIsComplete`,
`InstallationSurvives`, `BuiltOnInstallation`, `BackupNeverBlocks`, `AgnosReady`
and, under `WF` of the two programs' own steps, `Converges`: both are sequential
and never wait for anything but a timeout of `WaitTimeHelper`.
`InstallationSurvives` has a second disjunct: a power cut between the two `mv`
leaves no installation at the path. The code does not repair that; the
property says that at least the backup and the new tree are complete.

### What is proved

`Updater_proofs`, for any releases, systems and numbers of faults and events:
`TypeCorrect`, `NeverPartial` (`InstalledIsComplete`), `NeverLost`
(`InstallationSurvives`) and `BackupIsGone` (`BackupNeverBlocks`). They follow from
`IInv`: `Consistent` (a marker that is seen, *or that a power cut could bring
back*, stands for a complete synced tree), `Unmarked` (the tree is only touched
while neither exists), `Downloaded` and `Installation` (what each point of the
launch script may assume).

`InstallsItsOwn` (`BuiltOnInstallation`) and `SystemIsReady` (`AgnosReady`) add two
more: `Origin`, an overlay whose `.overlay_init` is still in place and newer than
the installation's `.git` was mounted over this installation, and a tree that is
marked, could be after a power cut, or is about to be was copied from it; and
`Ready`, the system a tree asks for is running or on the other slot when it is
copied, marked and moved in. Both are needed across steps: the launch script
looks at the marker, not at how it came there. Model-checked only: `Converges`,
being liveness.

## 6. Athena uploads

### Module and its correspondence to the code

`AthenaUploads` models the queue of `system/athena/athenad.py`: `upload_handler`
threads (`WorkerStep`: `Get`, `SkipCancelled`, `DropExpired`, `Postpone`, `Start`,
`Succeed`, `Repeat`, `Fail`, `Retry`), the remote calls `uploadFilesToUrls`
(`UploadFilesToUrls`, `LookUp`, `Enqueue`) and `cancelUpload` (`CancelUpload`,
`MarkCancelled`), and `UploadQueueCache.cache`, which lists the queue at one step
(`Snapshot`) and stores it at another (`Store`). `Disconnect` and `Reconnect` are
`handle_long_poll` and the loop of `main`; `Crash` starts the next process from
the stored list. Only the queue is synchronized, so each access to a shared
variable is a step of its own. `outcome` is a history variable.

Abstractions: a worker takes any waiting item, which covers every priority;
expiry, metered networks (before a transfer or during it, `Postpone`) and how a
transfer ends are chosen freely; the other
remote calls, and the threads for logs and stats, do not touch the queue.

### Run

`uploads`: two workers (4 in the code), one caller, two requests, `MaxRetry` 1
(30 in the code: one counted retry and the one that exceeds the limit), one
disconnection or crash. Two workers and two requests suffice for every race
about one item, and for a cached list that is out of date. `AcceptedIsTracked`,
`CancelledStaysCancelled`; and `AcceptedSettles` under `WF` of every
thread and of `Reconnect`: threads are scheduled, transfers have timeouts.
In the instance each request has a url of its own; the skipping of a url that is
already queued is covered by the theorems only.

### What is proved

`AthenaUploads_proofs`, for any threads, requests and urls: `TypeCorrect`,
`NothingForgotten` (`AcceptedIsTracked`), `OneAtATime` (`OneHolder`) and
`CancelledForGood` (`CancelledStaysCancelled`). `OneHolder`, that no item is
transferred twice at a time, is proved and in no run. `IInv` adds to the properties
`HandInv` (who has an item in hand, by `pc`), `FreshInv` (a request that has not
been accepted is nowhere else) and `MarkedInv` (a cancelled request still around
is marked and not yet in transfer). Model-checked only: `AcceptedSettles`.

## 7. Going onroad

### Module and its correspondence to the code

`Onroad` composes four processes that follow the ignition:

| process | state | actions |
|---|---|---|
| hardwared (`hardwared.py:244-380`) | `started`, `cycling`, `pandaStates`, `deviceState` | `Hardware` (one iteration), `PandaTimeout`, `CycleOver` |
| manager (`manager.py:142-173`, `process.py`) | `at` (where in its iteration), `mStarted`, `mPrev`, `clearing`, `isOffroad`, `proc` | `Update`, `Clear` (one key at a time), `Announce`, `Stop`, `Start` |
| card (`card.py:35-43, 115-201, 292-322`) | `phase`, `gen`, `queued`, `interrupted` | `Fingerprint`, `PutCarParams`, `SignalReady`, `WriteReady`, `Exit`, `CardDies` |
| pandad (`pandad.cc:385-411`, `panda_safety.cc`, `pandad.py`) | `pandad`, `safety`, `model` | `Tick`, `PandadDies`, `Reconnect` |

A param is represented by the number (`gen`) of the card that wrote it, so that a
stale one can be told from a fresh one. `deviceState` is conflated: `unread` says
who has not read the last one. The world changes the key, the conditions, the
offroad switch and requests of an onroad cycle. `ensure_running` signals a process
and does not wait; one that died by itself is noticed and not restarted.

What the signal does to card depends on where it finds it (`interrupted`). It ends
Python code. A blocking `put` is C++ and completes first (`FinishesPut`), as does the
queue of asynchronous puts. And the blocking `get_bool` with which fingerprinting
waits for OBD multiplexing (`card.py:42`) takes the signal for itself, as
`params.cc:185-198` replaces the handler: card then goes on (`GoesOn`) until manager
kills it. Its last writes can come after manager has cleared the params.

Abstractions: one onroad process (card) and one offroad process (updated) stand
for their kinds; the temperature, terms, training and other conditions are
reduced to *may start*, *may continue* and *must stop*; OBD multiplexing, passive
cars, params cleared on ignition, fan, CAN traffic and shutdown are left out; an
iteration of hardwared and a tick of pandad are atomic, as each publishes or
writes once at its end.

### Run

`drives`: three events and one death of card or pandad. Three events make a drive,
its end and a second drive, or a blink of the ignition in a drive.
`HandshakeKept`, `CarModeIsConfigured`, `CleanStart`; and `OffroadSettles` and
`OnroadSettles` under `WF` of the loops of hardwared, manager, pandad and its
wrapper, which wait for nothing but time, and of card, which is taken to get
through its start. `CleanStart` allows a starting card to find the params its direct
predecessor wrote after the clearing, and nothing older; TLC shows that this does happen
(section 11). `OnroadSettles` names the two ways in which the code does not
recover: a process that died, which manager only reports, and a relay closed
behind hardwared's back (pandad.cc:217).

### What is proved

`Onroad_proofs`, for any number of events and deaths: `TypeCorrect`,
`HandshakeStays` (`HandshakeKept`), `CarModeNeedsPandad` (`CarModeIsConfigured`) and
`StartsAreClean` (`CleanStart`). `IInv` adds `Followed` (what manager has done so far
in its iteration) and `Cleared` (what it has removed stays removed until card is
started, or is what the card that is shutting down wrote, which is the last one
started; once manager has let go of that card, nothing is left to write).
`HandshakeStays` rests on `Cleared` too: a starting card's predecessor is gone.
`CarModeNeedsPandad` covers the pandads that die and restart in between; that
a panda in the car's mode belongs to *this* drive's handshake is not true (section 11).
Model-checked only: the two liveness properties.

## 8. Log rotation

### Module and its correspondence to the code

`LogRotation` models how `encoderd.cc` and `loggerd.cc` cut a route into segments.
`Encode` is an iteration of `encoder_thread`, in which an encoder moves to its next
segment by itself. `Receive` is `handle_encoder_msg` with its three cases `Write`,
`Keep` and `Discard`, followed by `RotateIfNeeded`; `OtherMessage` is any other
message, on which `rotate_if_needed` looks at the clock. `FromKey` is
`write_encode_data`: a stream is recorded from its first keyframe on. `Stall` and
`Resume` are cameras or encoders that fail and come back. `skipped` is a history
variable: an encoder has been stalled for so long that it has missed a whole
segment. `encoder_thread` advances by one segment at a time, so from then on its
segment numbers are behind the minutes of its frames.

Abstractions: time is counted in frames; keyframes come every `Gop` frames and
with a new segment; cameras run in step; encoders that are not recorded, audio
and a restart of encoderd alone are left out; loggerd and encoderd start
together, as manager starts them. `MaxLag` bounds how far a working encoder is
behind.

### Run

`rotation`: two interchangeable encoders (hence the symmetry), three segments of
six frames, keyframes every four, a queue of three, one stall. Three segments show
a rotation whose marks a former one has left. Segments must be longer than the lag, as in
the code (1200 frames against 10 s of queue), and the length no multiple of the
keyframe interval. `Aligned`, `NothingLost`, `LengthBounded`. The first and the
second make no promise after a rotation by the clock: see section 11. No
liveness: `LengthBounded` says when the fallback must have acted.

### What is proved

`LogRotation_proofs`, for any number of encoders and any lengths:

* `SegmentsAreBounded` (`LengthBounded`), however the encoders stall, and
  `TypeCorrect`, which says that a queue of early packets exceeds its limit by one
  at most. Both are inductive as they stand.
* `SegmentsAreAligned` (`Aligned`), however the encoders stall. Its invariant has
  two parts. `StreamInv`: the packets kept, on their way and yet to be sent are in
  the order of their segments, each of the segment of its frame as long as no
  segment was skipped; and loggerd waits for as many encoders as it has seen.
  `FollowInv`: while loggerd follows (it has not used its clock and has seen every
  encoder in time), nothing that is kept or will come is of an older segment than
  loggerd's, nor of that segment itself once the encoder counts as ready, and
  `ready_to_rotate` is the number of encoders that do (`Counted`). So a rotation
  because all are ready finds them all past the segment; a lost or left-over mark
  would break the count. What is written is then between loggerd's segment and
  the segment in hand, which are equal.
* `NothingIsLost` (`NothingLost`) under `Timely`: there is an encoder; the lag
  `MaxLag` of encoders and loggerd is within the fifth of a segment, the queue and
  the patience loggerd waits with; and a segment is longer than that by two
  frames. In the code these are 240, 200 and 10 frames against 1200. The
  invariant, `Punctual` and `Rotated`, follows each frame: the packets of an
  encoder carry consecutive frames (`Sending`), those since it left its segment
  are kept from a keyframe on (`KeepsUp`), no encoder that counts as ready can be
  far ahead of one that does not, since loggerd's segment ends at most `MaxLag`
  after its last frame (`InSegment`); and that holds because a rotation that is due is
  made at once (`Rotated`): at that time every encoder has left the segment.
  The assumption is one on the environment: with a greater lag packets are lost.

## 9. Log storage

### Module and its correspondence to the code

`LogStorage` composes three processes that share directories, lock files and
extended attributes and nothing else:

| process | actions |
|---|---|
| loggerd (`logger.cc`, `loggerd.cc`) | `StartRoute`, `Rotate` (the directory of the next segment, after the lock of the last is gone), `Enter` (lock and files; without the directory an assertion fails), `Mark` (a bookmark), `Stop`, `Die` (locks stay) |
| uploader (`uploader.py`) | `StartUploader` (`clear_locks`), `StopUploader`, `Select`, `Upload`, `UploadFails` |
| deleter (`deleter.py`) | `List` (a round: directories and preserved segments), `Skip` (locked), `Unlocked`, `Remove`, `TryNext` |

`looked` and `found` are the deleter's part of the cache of `xattr_cache.py`, `pending`
the uploader's. Segments are numbered in the order of their names. `kept` and
`late` are history variables: the latest bookmarked segments when the round began,
and the segments that were bookmarked after the deleter had looked.

Abstractions: the files of a segment are uploaded and tagged as one; space is
counted in segments; boot and crash logs, the external drive (a move frees the
space as a removal does), metered networks and the choice of files, and the
locks of the video writers (which only prolong a lock) are left out. A second
uploader (sunnylink) runs the same code on an attribute of its own. The deleter
is not restarted; that would empty its cache.

### Runs

* `storage`: five old segments on a disk for five, one of them bookmarked or none, a
  second bookmark, up to two new routes and two more segments, one preserved segment
  (`PRESERVE_COUNT` is 5), one fault (loggerd dies or has died in an earlier route,
  or a segment cannot be removed), one start of the uploader.
  `RecordingKept`, `PreservedLast`, `SpaceRecovers`, `UploadsSettle`. Fairness:
  the deleter loops, the uploader loops (`WF`), and the server takes a file
  in the end (`SF` of `Upload`); nothing is assumed of loggerd. `RecordingKept` rests on
  numbers: the device must hold more segments than can be preserved, locked or
  stuck, as it does by far.
* `bookmark`: the smallest instance in which the cache loses a bookmark (section 11).

### What is proved

`LogStorage_proofs`: `TypeCorrect`, and `PreservedGoLast` (`PreservedLast`), for any numbers of segments,
routes, preserved segments, bookmarks and faults. `IInv` says that the deleter
knows all marks but the late ones (`CacheInv`), that a segment is marked at most
once while recorded (`MarkedOnce`), and that what it wants to keep in a round
includes the latest marks it knows and their two prior segments, and otherwise
only older segments (`RoundInv`). The theorem then rests on the order of deletion:
when a preserved segment goes, everything left is preserved and it is the
earliest.

`RecordingIsKept` (`RecordingKept`) holds under `Roomy`: the device holds more than
`3 * PreserveCount + MaxFaults` segments (a preserved segment keeps the two before
it). The invariant, `KeepInv`, says that while the newest segment is still to be
tried, everything the deleter has passed over is one a fault has happened to: a
segment locked by a loggerd that died, or one that cannot be removed. The deleter
tries what is preserved last and begins only when the device is full; so when it
comes to the newest segment, all the others are preserved or passed over, and
they are too few. The bound is sharp: with
`Capacity = 3 * PreserveCount + MaxFaults` TLC finds the segment removed before
loggerd has locked it. The `storage` run satisfies `Roomy` (5 > 3 + 1).
Model-checked only: the two liveness properties.

## 10. Driver monitoring

### Module and its correspondence to the code

`DriverMonitoring` composes dmonitoringd with the part of selfdrived that listens
to it, and with what starts, stops and interrupts both.

| code | actions and operators |
|---|---|
| `policy.py`, `_set_policy` and `_update_states` | `SetPolicy`, `Target`, `Filtered`, `HiStds`: who is seen, and which policy counts |
| `policy.py`, `_update_events` | `Begun`, `Counted` (the lockout), `Update` (reset, recovery, count, alert), `CountRed` |
| `dmonitoringd.py` | `DriveFrame`, `DemoFrame`, `InvalidFrame`, each with `ReloadToggles` |
| `selfdrived.py:252-275` | `SelfdriveCycle`: keeps the lockout in `DriverTooDistracted`; `tooDistracted` is a no-entry event |
| manager | `StartDrive`, `GoOffroad` (with the ignition on), `TurnIgnition`, `StartForView`, `StopAfterView` |
| `ui/mici/onroad/cabin_camera_dialog.py` | `ShowView`, `HideView` |

`mind` is the awareness with what waits for the other policy. `seen`, `warned` and
`owed` are history variables: what the last frame was about, whether the second
alert has been shown since the last reset, and what became of the lockout of this
ignition cycle.

Abstractions: awareness is counted in whole steps; the distraction filter, a
first-order filter asked only on which side of two thresholds it is, is a counter
that rises and falls by one; a recovering awareness rises by some amount between one
step and the largest the code can compute; counters stop at the limit the code asks
about. The test alert mode of `sunnypilot/selfdrive/ascent_v8` is off: in it selfdrived
ignores the lockout (`selfdrived.py:253`) and dmonitoringd erases the alert, the
lockout and their counters after each frame (`dmonitoringd.py:36-37`), so that none of the properties
below is claimed, nor the lockout's effect on engaging. What a frame shows (`Frame`) is a choice: pose, eyes, phone and the side of
the wheel decide nothing but `driver`. selfdrived's state machines (section 3)
are reduced to what a no-entry event does to them.

### Run

`attention`: from full awareness the third alert is three frames away under the
vision policy and four under the other, in the order of the real times (13 s and
25 s), which leaves room for changes of policy within one count; the number of
frames has no bound. The third alert must be raised twice, or last two frames,
for a lockout, which lasts two (`MaxAlert3`, `NoResponseTimeout`, `LockoutTimes`). Frames
show each kind of driver, hands on the wheel, and reverse; `AlwaysOnDM` is changed
while driving. `MaxCycles` allows one change offroad or one driver view, beside any
number of turns of the ignition: enough for a lockout to be handed over once.
`WarnedBeforeRed`, `RedStays`, `DecelerationHolds`, `RecordedLockoutHolds` and
`DistractionIsAnswered`. Speed, MADS held off and longer counts are covered by the
theorems only.

Fairness: frames with valid messages keep coming while dmonitoringd runs
(`WF` of `DriveFrame` and `DemoFrame`); nothing is assumed of the driver, the user,
selfdrived or manager. The number of the frame (`FrameIds`) makes every frame a
change of state, without which fairness would say nothing about frames that
change nothing else. `DistractionIsAnswered` is about a drive in which the driver
is seen distracted for ever, engaged: the deceleration and the lockout come again
and again. Neither does the engagement end the lockout nor the lockout the
engagement, which is what the code does.

### What is proved

`DriverMonitoring_proofs`: `TypeCorrect`, `SecondAlertFirst` (`WarnedBeforeRed`),
`ByHandNoRed` (`NoRedByHand`), `RedEndsByDisengaging` (`RedStays`),
`DecelerationEndsWithLockout` (`DecelerationHolds`) and `LockoutServed`
(`RecordedLockoutHolds`), for any thresholds that are at least a step high and in
order (`MonitoringAssumption`), any table of lockout times, any frames and any
number of cycles. `Inv` has two parts. `Sound` relates the awareness that waits
to the alerts that were shown: what is at or below the second alert, active or
waiting for the driver's hands, has been shown, and nothing that low ever waits for
the vision policy, because `_set_policy` does not leave that policy below its second
alert. It is needed because the awareness itself jumps when the policy changes.
`Owed` says that a lockout that was begun is active until selfdrived has recorded it,
that selfdrived's flag means the param is set, and that a recorded lockout is active
in whichever dmonitoringd runs. `NoRedByHand`, that a driver who drives by hand is
never shown the third alert, is in no run. Model-checked only: `DistractionIsAnswered`.

## 11. Where the code and its documentation disagree

Two of these have a run in which TLC shows the disagreement:

* `system/loggerd/xattr_cache.py:65` remembers for ever that a segment had no mark.
  The deleter asks for the marks from the newest segment on, which is the one
  being recorded; a bookmark set on it later is never seen, and the segment is
  deleted like any other, although `RELEASES.md:167` promises that bookmarked
  segments are preserved (`bookmark`).
* `sunnypilot/mads/state.py:69` leaves the shared timer and the alert to openpilot
  whenever that is enabled, preEnabled included, where `state.py:60-64` looks at no
  fault; the comment at line 47 of the former relies on a reset on entrance
  (`entrance`). For as long as openpilot stays preEnabled nobody requests the
  take-control alert. If the timer had run out, MADS stops steering in the next cycle,
  without the announced time; if an earlier fault has left it running, MADS may steer on
  the new one for nearly twice the announced time, once openpilot arms the timer
  again, which is why `SoftDisableBounded` promises no less.

The others were met while modelling:

* `sunnypilot/mads/mads.py:200` looks for an event with a function that looks for
  event types, so the block announced one line above never happens.
* `selfdrive/ui/mici/onroad/cabin_camera_dialog.py:47` removes `DriverTooDistracted`
  whenever the driver view is shown. The comment at `selfdrive/selfdrived/selfdrived.py:254`
  names two ends of a lockout, its time and the ignition; during an onroad cycle the
  driver view is a third (`ShowView`), which is why `RecordedLockoutHolds` excepts it.
* `selfdrive/monitoring/policy.py:183` stops counting a driver who hides after the second
  alert of the vision policy, although the comment at line 362 says that a
  distracted driver (line 359: one without a face too) is always counted. The alert
  stays at two for as long as the driver stays out of view (`SetPolicy`).
* `sunnypilot/mads/state.py:53` looks at `USER_DISABLE` before `IMMEDIATE_DISABLE`:
  a lateral mismatch that coincides with brake hold pauses instead of disabling,
  against `test_mads_state_machine.py:62`. For the same reason Park together with
  an open door or the parking brake pauses for a cycle before it disengages.
* `sunnypilot/mads/mads.py:44` reads the accelerator setting once, selfdrived keeps
  re-reading it: after it is switched on, a press of the gas pedal pauses steering.
* The comments at `selfdrive/selfdrived/selfdrived.py:566` and
  `sunnypilot/mads/mads.py:112` speak of two tolerated samples; the limit is 200.
* `common/params.cc:232` lets a value stay in the queue with no thread to write
  it; the assertion of the destructor at line 103 then fails.
* `system/updated/updated.py:474` removes `.overlay_init` after a failed attempt but
  neither the marker nor `UpdateAvailable`: the button "Trigger reboot to install
  update" (`selfdrive/ui/layouts/settings/software.py:179`) is offered for an update
  that `src/launch_chffrplus.sh:44` does not install.
* `selfdrive/pandad/pandad.cc:405` follows `deviceState` before manager has cleared
  the params of the last drive: pandad can put the panda in the car's mode while
  card is still fingerprinting, against `card.py:299` and `panda_safety.cc:24`.
* A card that is stopped and wanted again at once may still write `FirmwareQueryDone`,
  `CarParams` or `ControlsReady` after `system/manager/manager.py:148` has cleared them,
  because the signal finds it in a blocking `put` or in the blocking `get_bool` of
  `selfdrive/car/card.py:42`, which swallows it (`common/params.cc:185-198`). The next
  card then starts on them, although `common/params_keys.h` flags them
  `CLEAR_ON_ONROAD_TRANSITION`.
* `system/loggerd/loggerd.cc:191` takes a working encoder that resumes after a rotation by the
  clock for one that was restarted (the comment at line 190); its packets are queued and dropped.
* `system/athena/athenad.py:677` checks for a queued url and enqueues later, and does
  not see an item a worker has just taken: two calls can queue the same url.
* `system/loggerd/logger.cc:182` removes the lock of a segment before the log files are
  flushed (192-193), and `uploader.py:69` removes the lock of the segment being
  recorded if the uploader starts after loggerd: an incomplete log can be
  uploaded and tagged as done.

## 12. Not modelled

The parts of section 1 that section 2 lists as left. Beyond the plan stay
controls, planners, localization and calibration (arithmetic over real numbers),
the model runners, the user interface, car interfaces and the panda's firmware
(submodules that are not part of this repository), network and modem management,
and the transport msgq. These are most of the repository's lines: what is
modelled is the part in which steps of several actors, or a crash, decide. Nor are
two modes in which parts of it are switched off: the test alert mode (section 10),
and a disabled `Mads` setting.

Types: `TypeOK` is proved for every module that has theorems, instead of being
checked by a run.
