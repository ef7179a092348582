# A verification of the Aurora edge runtime

The repository is a C++/ROS 2 program that runs on a robot: it plans routes,
drives them, keeps the latest sensor messages in ring buffers, writes a bag
with the data before and after a trigger, packs the bag and uploads it.  This
directory models the parts of it that are concurrent or have to survive a
failure, checks them with TLC and proves the central statements with TLAPS.
Paths below are relative to `src/` of the repository; `executor.cpp` is
`data_collection/data_collection_executor.cpp`, `recorder.cpp` is
`data_collection/recorder/ros2bag_recorder.cpp`.

## The system

| Component | State | Operations | Talks to |
|---|---|---|---|
| Executor: trigger service and record worker (`executor.cpp`) | `record_queue_`, its mutex and condition variable, `record_worker_running_`, `last_trigger_finish_time` | `handleTriggerService`, `recordWorkerLoop` and its drain, the destructor, `reloadConfig`, manual `startRecording`/`stopRecording` | called by triggers over a ROS service; drives the recorder |
| Recorder (`recorder.cpp`, `common/ringBuffer.h`) | forward and backward ring buffer per topic, snapshot of the trigger, `trigger_timestamp_`, cancel flag, bag statistics | `OnMessageReceived`, `snapshotForwardBuffers`, `TriggerRecord`, `write_ringbuffer`, `Open`, `BreakOffRecord` | channel callbacks, worker; reads and writes the state of the state machine |
| Packaging (`compliance/metadata_manifest.cpp`, `recorder/file_compress.cpp`) | directories and archives | manifest, compress | worker; the uploader reads the same directory |
| State machine (`state_machine/`) | `current_state_`, `degrade_mode_` | `handleEvent`, the handlers, `transitionToState`, `setCurrentState` | callbacks of the application; the recorder |
| Application (`application_runner.cpp`) | the planner it owns | cycles of plan, mission, upload; shutdown | all of them |
| AWS uploader (`uploader/aws_data_uploader.cpp`, `common/upload_queue.hpp`) | queue, failure counter, stop flag | `LoadFileList`, `ProcessQueue`, `UploadFile`, multipart calls, `Stop` | the bag directory, S3 |
| File status manager (`uploader/common/filestatus_manager.cpp`) | upload records in memory, main, backup and temporary file | add, delete, update, `SaveToFile`, `LoadWithRecovery` | both uploaders construct one; only the older adds records |
| Planner (`data_collection_planner.cpp`), waypoint tracker, robot controller | mission, position, reached flag | `executeMission`, `uploadCollectedData`, `waitForWaypoint` | executor, uploader, odometry |
| Triggers (`data_collection/trigger/`) | last trigger position and history of the gait gate, rule states | `shouldTrigger`, `updateRobotPosition`, `proc` | planner, odometry |
| Configuration watcher, channels (`common/config_watcher.cpp`, `channel/`), compliance filter | modification time seen, strategy, channel manager and its observers | `checkChanged`, `reloadConfig`, `Notify` | executor, recorder, trigger |
| Async file writer (`src/common/async_io.cpp`) | queue, condition variable, `running_` | `write`, `flush`, `writerLoop`, `start`, `stop` | its clients |
| Older uploader, encryption, file roller, feedback | queues, counters | | not used by the application, or without effect on it |
| Simulator (`simulator/robot_simulator_v2.cpp`, `simulator/gait/`) | phase, gait state of each leg, velocity, path | timer, velocity command, path service | a separate executable |
| `rl_planning_infer/` (and its copy `tmp/`) | cost maps, networks | | numerical |

What is hard here, component by component; `PROJECT.json` lists each hazard at
its line:

* **Executor.**  A service thread, a worker and a destructor share a queue.  A
  notification can be lost, a task can be recorded twice or dropped by the
  drain, and a trigger can be acknowledged before it is safe.
* **Recorder.**  Messages are stamped outside the lock and stored inside it.
  A recording starts long after its trigger was admitted.  Three sources of
  messages overlap, bag names have a resolution of a second, and the manifest
  comes from statistics that belong to whichever bag was opened last.
* **State machine.**  No lock; decisions are written later than they are
  made; callbacks run between the two writes of one call; the recorder writes
  the state as well.  `handleEvent` is the component's interface: outside the unit
  tests nothing in the repository calls it, `ApplicationRunner::run` drives the
  planner directly, so that today the recorder is the only writer of the state.
  What the models say of events, and of threads that send them, is what a
  client of that interface may rely on.
* **Uploader.**  It lists a directory another thread writes to.  Requests fail
  or are carried out without an answer and are retried, files are skipped, a
  delete can fail unnoticed, and the process can die between the upload and the
  delete.
* **File status manager.**  A save is three file operations, a crash can fall
  between any two and each can fail; after a failure the process goes on.
* **Configuration reload.**  The watcher's thread replaces five objects one
  after the other while channel callbacks, the trigger service and the record
  worker use them; a reload can be refused, or fail in the middle.
* **Mission.**  The main thread waits for odometry and for the trigger service,
  both with a deadline; flag and target of the wait are guarded by two different
  mutexes, and an answer can be late.
* **Async writer.**  Writers, producers and flushing clients sleep on one
  condition variable.
* **Simulator.**  A leg lifts and lands by the phase of the gait and swings by
  its own progress; commands that stop, turn or speed up the robot come at any
  time and set the two against each other.

## Modules

| Module | Models | Remarks |
|---|---|---|
| `RecordingService` | the promise of the trigger service: accepted triggers are recorded first come first served, each once | abstract specification |
| `RecordWorker` | service callback, `recordWorkerLoop`, drain and destructor, one step per point where another thread can get in | implements `RecordingService` with `backlog <- Backlog`, `recorded <- finished` |
| `RingBuffer` | `push_back`, eviction by age, the scans of a buffer | operators only |
| `Recorder` | the recorder and the parts of the executor that drive it, with a clock | extends `RingBuffer` |
| `StateDiagram` | the diagram in `docs/developer-guide/architecture/components/state-machine.md` | abstract specification |
| `StateMachine` | `handleEvent`, the handlers, `transitionToState`, for any number of calling threads | walks `StateDiagram` while calls do not overlap |
| `EdgeRuntime` | recorder and state machine in one process, and the end of the process | extends `Recorder`, instantiates `StateMachine` |
| `ArchiveDelivery` | the promise of the uploader: an archive leaves the directory only when the store has all of it, and gets there unless the uploader is stopped | abstract specification |
| `Uploader` | the AWS uploader, its queue, the writer of the archives, crashes | implements `ArchiveDelivery` for the archives that were whole when first listed (`announced <- Announced`) |
| `FileStatusManager` | the upload records and their files, crashes, power failures | |
| `StrategyReplacement` | the promise of a reload: the strategy is replaced by a newer one while no data flows, data flows again only when every part is of it, and the file's is in force in the end | abstract specification |
| `ConfigReload` | the strategy file, the watcher, `reloadConfig`, and the threads that go on meanwhile | implements `StrategyReplacement` with `strategy <- strategy_`, `flow <- Flow` |
| `PositionTracker` | `onOdometry` and `waitForWaypoint` | variables and actions, extended by `Mission` |
| `Mission` | the cycles of `ApplicationRunner::run`, `executeMission`, both driving modes, `tryCollect`, the gait gate, the trigger service as its caller sees it, the start of the uploader | extends `PositionTracker` |
| `WriteService` | the promise of `AsyncFileWriter`: an accepted task is carried out once and not forgotten | abstract specification |
| `AsyncWriter` | writers, clients and owner of `AsyncFileWriter` around one condition variable | implements `WriteService` with `accepted <- 1 .. pushed`, `obstructed <- Obstructed` |
| `GaitCoordinator` | phase, parameters and the two leg state machines | variables and actions, extended by `Simulator` |
| `Simulator` | `RobotSimulatorV2`: timer, velocity command, path, stop | extends `GaitCoordinator` |
| `RecordWorker_proofs`, `Recorder_proofs`, `StateMachine_proofs`, `FileStatusManager_proofs`, `Uploader_proofs`, `ConfigReload_proofs`, `AsyncWriter_proofs`, `Driving_proofs` | theorems | each extends the module it is named after; `Recorder_proofs` extends `EdgeRuntime`, and proves about the recorder alone and in the runtime; `Driving_proofs` extends `Mission` and `Simulator` |

How state and actions correspond to the code:

* **`RecordWorker`.**  `mutex` is `record_queue_mutex_`.  Blocks that take and
  release it without anything in between are one step (`Push`); where a thread
  keeps it over several steps (the wait of the worker, the whole drain) it is
  held.  `Decline` and `Block` separate the evaluation of the wait predicate
  from the moment the thread sleeps: the mutex is held in between, but
  `Stop` and `NotifyStop` do not take it.  The service has a mutually exclusive
  callback group, so there is one handler.
* **`Recorder`.**  One topic (topics share nothing but the lock).  A message is
  its stamp and its number in that tick.  Everything under `buffer_mutex_` is
  one step; `StampMessage` and `StoreMessage` are two, as the stamp is taken
  before the lock.  `handleTriggerService` is `Admit`, `NameBag`,
  `StartCooldown`, `SnapshotAndQueue`: it reads the clock three times.
  `TriggerRecord` is `Arm` to `EndRecord`.  `write_ringbuffer` is `WriteBag`
  or `FailToOpen`; the sets `snapshot`, `forward` and `backward` of `written`
  are what its three loops put into the bag.  The disk maps a bag's path to
  whether it was written to the end, its number of messages, its manifest and
  whether it was archived.  `heard`, `collected` and the field `owed` of a task
  are history for the properties; nothing reads them.
* **`StateMachine`.**  A call of `handleEvent` is `Receive`, then `Transition`,
  the callback, `Return` (which handles the event the result stands for, as
  `transitionToState` does recursively).  `Handled` is the table of the eight
  handlers.  `crossed` records that two calls were in progress at once.
* **`EdgeRuntime`.**  `current_state_` is the one variable both parts write.
  `ExitProcess` is the end of `main` after `ApplicationRunner::shutdown`.  The
  planner is owned by the runner, but the executor, the recorder and the
  channel manager hold it as `node_`: `dcp_.reset()` destroys nothing, so the
  destructor's `Stop` is not a step of this composition.
* **`Uploader`.**  An archive in the directory is `partial` or `whole`.
  `OpenFile` and the request that follows read the file separately, as the
  code does (`FileSplitter`, then `PutObject` or `UploadParts`).  Of the
  contents of the store only whether an object is the whole archive is kept.
  `RequestFails` is a request the store has not carried out, `ResponseLost` one
  that it has; `DeleteFile` may leave the file where it is.  `CutArchiveShort`
  is a write that fails in `CompressFiles`, which returns `Success` all the same.
* **`FileStatusManager`.**  Each file operation of a save is a step.  A process
  that dies leaves the files as they are; a power failure may tear those the
  kernel has not written back, since the code never syncs.  `FailToWrite` is the
  exception of `WriteToFile`, which `SaveToFile` lets through; `FailToRename` is
  the `filesystem_error` it catches: the save returns false, and the process goes
  on with the files as they are at that moment, perhaps without a main file.
  `saved` is what the last successful save left in the main file, `parted`
  that a save has moved the main file to the backup and none has replaced it since.
* **`ConfigReload`.**  A configuration is what an edit left in the file, known
  by the number of the edit, with the kind of its contents (usable, refused by
  the parser, no strategy enabled, a rate that makes `InitRingBuffers` fail, a
  channel type that makes `Init` throw).  `CheckChanged`, `Load`, `Begin`,
  `Detach`, `Adopt`, `InitializeTrigger`, `Configure`, `Connect`, `Attach` are
  `checkChanged` and `reloadConfig` from top to bottom, with the returns and
  exceptions where they are.  A delivery is a message between the start of
  `Notify` and the end of the recorder's callback.  Where the reload destroys
  or changes an object a delivery is using, `alive` may become false: the
  behaviour of the code is undefined there, and a process that survives goes on.
* **`PositionTracker`, `Mission`.**  The main thread's `runner` and the wait's
  `waiter` say where they are; `odometry` is the other thread.  The position is
  a place of a line, so that a waypoint is either reached or not.  The waits
  have no clock: `Timeout` and `GiveUp` may happen at any time.  The gate's
  history and last position are those of `TriggerManager`; the three intervals
  a trigger has to keep may be over or not, and `Decline` is any of them.
  `updateRobotPosition` is called from within the odometry callback, and so it
  is part of `OdometryStep`.  `Upload` assigns to the uploader's thread; with
  one still joinable there, `runner` becomes `terminated`.
* **`AsyncWriter`.**  Every thread has a program counter; `FindNothing` and
  `FallAsleep` are two steps because `stop` sets `running_` without the mutex
  and can fall in between.  `NotifyOne` wakes any one sleeper, a writer or a
  client.
* **`GaitCoordinator`, `Simulator`.**  The phase is counted in parts of a cycle
  and the progress of a swing in parts of a whole one, chosen so that the sums
  the code makes are exact.  `Tick` is one call of `updateSimulation`, a leg's
  step one call of `LegGaitStateMachine::update`.  Velocities are three,
  which stand for the parameters `velocityToGaitParameters` makes of them.

## What the runs check

`tlc -config X.cfg M` for the configuration and module of each row.

| Run | Question | Result |
|---|---|---|
| `RecordWorker` | Is the hand-over a first-come first-recorded queue?  `EachTaskOnce`, `RepliedIsKept`, refinement `ImplementsService`, and `QueuedIsRecorded` under fairness | holds |
| `Recorder` | What is in a bag: nothing twice, nothing of another trigger, everything that was in reach before the trigger and everything that came while the recorder waited; is the manifest the bag's; does no bag destroy another; is the shared state never stale | holds |
| `StateMachine` | Do calls that do not overlap walk the documented diagram, and does every busy state end with overlapping ones? | holds |
| `EdgeRuntime` | Do busy states end, and is every admitted trigger served (recorded or ignored), with the recorder and event handlers writing one state? | holds |
| `EdgeRuntime_exit` | Are queued triggers drained when the process ends (`DrainedOnShutdown`)? | violated |
| `Uploader` | Is a finished archive in the directory or in the store at any time, does it get to the store (refinement `ImplementsDelivery`), is the queue free of duplicates, does the pop hit the item that was sent, does a stop end the thread? | holds |
| `FileStatusManager` | Is the last save always in one of the three files, whatever fails (`LastSaveOnDisk`), and when does a restart find it (`RestartFindsLastSave`)? | holds |
| `ConfigReload` | Are strategy, trigger, recorder and channels of one configuration between reloads, failed ones included (`PartsAgree`); does old data leave the buffer (`OldDataBounded`); does a manifest say the truth about masking (`ManifestFitsStrategy`); is the strategy replaced only while no data flows, and is the last usable edit in force in the end (refinement `ImplementsReplacement`)? | holds |
| `Mission` | Does a wait that succeeds mean that the robot was at that waypoint (`ReachedWasThere`); is a data point counted for exactly the triggers that were admitted and not given up (`AdmittedIsCounted`); does the run end (`RunEnds`)? | holds |
| `Simulator` | Is there support again after interrupted swings (`GaitRecovers`), and do both legs keep landing (`StepsGoOn`)? | holds |
| `Simulator_path` | Does a robot that was given a path walk (`PathIsWalked`)? | violated |
| `AsyncWriter` | Is every accepted task carried out once, and none forgotten by a writer that is not obstructed (`ImplementsService`)? | holds |

Two runs show disagreements between the code and what its comments say:

1. *No drain at shutdown* (`application_runner.cpp:293`).  The executor owns a
   reference to the planner that owns it; the destructor that would drain the
   queue does not run, and acknowledged triggers end with the process.
2. *A path is not walked* (`simulator/robot_simulator_v2.cpp:434`).  Velocity
   control is on from the constructor on, so the torso is moved by the velocity
   command; while a path is set nobody updates that velocity, and a standing
   robot turns towards the waypoint and stays where it is.

Five more are stated in the modules and checked by no run of the list; each is
violated when it is added to the configuration of its module (the first three
and the last under the fairness of that module):

* `RecordWorker!ShutdownCompletes` (`executor.cpp:83`): `record_worker_running_`
  is cleared and `notify_all` called without the mutex.  A worker that has found
  its predicate false, and not yet gone to sleep, sleeps for ever; so does the
  thread in `join`.
* `Recorder!PostTriggerComplete` (`recorder.cpp:383`): a trigger that waited
  behind another recording begins when part of its backward window is over.
  What came meanwhile went to the forward buffer only, or to the previous bag.
* `Uploader!NothingLost` (`aws_data_uploader.cpp:153`): archives are written
  under their final names in the directory the uploader lists.
* `FileStatusManager!BackupIsUsed` (`filestatus_manager.cpp:97`): between the
  renames of a save, and after a save whose second rename was refused, there is
  no main file; a restart creates an empty one although the backup holds the
  records.
* `Simulator!StandsStill` (`velocity_locomotion_controller.cpp:106`): the
  parameters of a standing robot have a duty factor of 1 and a frequency of 0,
  and a leg that was in the air stays there.

What a reader should know of the properties that hold:

* A message that reaches the queue after the drain has ended is never recorded
  (`QueuedIsRecorded` asks for a worker that has not exited); the drain writes
  no manifest.  A bag whose `Open` failed gets the manifest of the bag before
  it (`ManifestFitsBag` speaks of bags that were written).  A trigger that finds
  `DATA_COLLECTING` is ignored after it was acknowledged (in `Recorder` alone
  that cannot happen, `CollectingIffRecording`; with event handlers it can, so
  `Ignore` is a step of `EdgeRuntime` only).  `BagsAreKept` needs a cooldown of
  at least a second, which the shipped configurations have.
* `CollectedKept` is checked for `Recorder` alone.  It does not hold with the state
  machine beside it: a handler (that of `PLAN_REQUEST`, say) can
  overwrite `DATA_COLLECTING` while the worker waits, and `OnMessageReceived`
  then stores nothing for the backward window.  The other properties of the
  recorder hold there as well, as is proved.
* `RestartFindsLastSave` has two exceptions: nothing has been saved since a
  start that found no main file, or the main file has become the backup and no
  save has put another in its place, because the process died or the rename was
  refused (`filestatus_manager.cpp:74`).  In the second case a restart begins with
  no records; the backup, which `LoadWithRecovery` does not look at without a
  torn main file, has those of the last save, and the property says that it still has
  them when the process has started.  A rename refused between `Backup` and
  `Commit` need not be followed by the crash at once: the process may go on for
  any time, and every save that succeeds meanwhile mends it.
* `WholeFilesKept` and `ImplementsDelivery` speak of archives that were written
  to the end.  One that was not, on a full disk for instance, is listed,
  uploaded and deleted like any other, as nothing looks at the result of the write
  (`file_compress.cpp:122`).
* `PartsAgree` allows for no channel manager, or one without an observer: that
  is what a reload leaves that fails in `InitRingBuffers` or in `Init`.  The
  recorder then gets no messages until the next edit, where
  `docs/product/specification.md:742` speaks of an atomic replacement.
* `ManifestFitsStrategy` says nothing of messages a snapshot, or the forward
  buffer, brings across a reload that changes masking: the manifest of such a
  bag is wrong about them.  The filter also forwards a message it throws on as it is, so
  `filtered` means that it went through the filter.
* `Settled` of `StrategyReplacement` asks for an edit made while the watcher runs: one made between
  the load in `initialize` and the watcher's constructor is taken for the
  state of affairs and never reloaded.  A reload that was refused is not tried
  again, but the next edit is.
* `ReachedWasThere` holds only because of logging: the flag is written under
  `position_mutex_` and read under `waypoint_mutex_`, and it is the blocks that
  take `position_mutex_` to log the age of the position that make the wait stand
  behind a callback that has seen the old target.  A wake-up can be lost; then
  the wait lasts until its deadline, and the flag it finds there decides.
* The gate counts a place as collected before the service is asked: a refusal
  or an absent service leaves it closed for the distance of a step.
* `RunEnds` allows for one other end: with uploads enabled, the second cycle
  assigns to a thread that is still joinable and terminates the process.
* `GaitRecovers` and `StepsGoOn` hold although both legs may swing at once for a
  while after a standstill or a turn.
* `WriteService` excuses a writer while a client sleeps in it: the client may take the
  wake-up meant for a writer, and a pop wakes nobody, so that a client may wait
  for room that is there.  Tasks queued when the writer is stopped
  wait for the next start.  `write` reports success before anything is written.

### Bounds

| Run | Bounds | Why they are enough |
|---|---|---|
| `RecordWorker` | 3 triggers | one in hand, one queued, one on its way; the threads are fixed |
| `Recorder` | 2 triggers, 1 cancel, 3 ticks after the first, one message a tick, 2 ticks before and 1 tick after a trigger, buffers of 2, requests up to 1 tick late | a trigger waits behind another, the forward buffer rotates past it, buffers are full, windows overlap, a message shares the trigger's stamp, a late request leaves nothing to wait for |
| `StateMachine` | 2 threads, all events | the shortest interleavings that cross |
| `EdgeRuntime` | 2 triggers, 2 ticks, 1 cancel, 1 calling thread, no messages | only the shared state matters, messages do not change it |
| `Uploader` | a small and a large file, 2 parts, 2 failures until a skip, 3 requests that fail or are not answered, 1 crash; deletes may always fail | a skip followed by a success, a crash at any step |
| `FileStatusManager` | 2 files, chunks 0 and 1, 2 crashes; writes and renames may always fail | a crash while recovering from a crash, a failed save after a failed save |
| `ConfigReload` | 2 edits, 3 messages, 1 trigger, a buffer of 2 | a reload that fails and one that mends it, an edit during a reload, messages of three managers in one buffer and one of them under way through two reloads |
| `Mission` | 2 places, paths of 1 or 2 waypoints, 2 cycles, 2 requests, a gate step of 1, a history of 1 | two waits one after the other, a late answer while the next request waits, a full history, the second start of the uploader |
| `Simulator` | a cycle of 20 parts, 2 ticks of loading, 3 velocities, paths of 1 waypoint | every state of a leg lasts several ticks, so that a command can fall into each; duty factors with and without double support |
| `AsyncWriter` | 2 writers, 2 clients, room for 1 task, 3 tasks | two clients asleep for room while both writers sleep |

`MaxTime`, `LastAdmission`, `MaxLatency`, `MaxTriggers`, `MaxCancels`,
`PerTick`, `MaxFaults`, `MaxCrashes`, `MaxChunk`, `MaxEdits`, `MaxMessages`,
`MaxRequests`, `PathLength`, `LastPlace`, `MaxPath` and `MaxTasks` only bound the
runs; each is a constant in the guards.  (`MaxCycles`, `HistorySize`,
`MaxFailures` and `QueueLimit` are the program's own.)  In `Recorder.cfg` no
trigger is admitted later than tick 2, so that its window ends with the last
tick.  Where the system may stop (all triggers sent, the clock at its end, the
process ended, no more edits) deadlock is not checked; `StateMachine` and
`FileStatusManager` never stop and it is.

### Fairness

* `RecordWorker`: weak fairness of every thread that has begun something, strong
  fairness of `Push`, as the mutex it waits for is taken and given up again and
  again and a lock that starved it for ever would be no lock.
* `StateMachine`, `EdgeRuntime`: a call that was made goes on, callbacks return,
  time passes, the worker runs; nobody has to send an event or a trigger, and
  the process need not end.
* `Uploader`: the worker thread runs and requests return, with success or not
  (failures and lost responses are bounded by `MaxFaults`, so they do not fail
  for ever; a delete may).
* `ConfigReload`: the watcher's thread runs.  Nobody has to edit the file.
* `Mission`: the main thread runs, an odometry callback that has begun returns,
  and the deadline of a wait passes, however often the wait is woken up before
  (strong fairness, because a spurious wake-up disables and enables it again).
  The robot need not move, no message need come, the service need not answer.
* `Simulator`: the timer fires until the simulator is stopped.
* `AsyncWriter`: strong fairness of every thread that is awake, for the same
  reason as above: it gets the mutex in the end.

Spurious wake-ups are allowed and not assumed.  `FileStatusManager` and
`Recorder` are checked for safety only.

## What is proved

For every value of the constants that satisfies the named assumptions of the
modules (`TaskAssumption`; `DurationAssumption`, `BoundAssumption`,
`NoneAssumption`; `FileAssumption` and its like; `PlaceAssumption`,
`MissionAssumption`; `WriterAssumption`; `GaitAssumption`, `PathAssumption`).  Most say that a bound is a number and
that `None` is not one of the things it stands for the absence of.  The
theorems about `BagsAreKept`, `PreTriggerKept`, `CollectedKept` and the support
of the robot have one hypothesis more, given with them.

* `RecordWorker_proofs`: `TypeCorrect`, `OnceOnly` (`EachTaskOnce`), `Kept`
  (`RepliedIsKept`) and `Implements` (the refinement).  The
  properties speak of `Pushed`, the sequence of finished, held and queued tasks.
  They are not inductive alone: the invariant adds that the worker holds a task
  exactly while it records, that the handler holds a request that is neither
  queued nor unsent while it pushes and one that is queued when it replies, and
  that the queue is what the types say.  The lemmas follow one idea: a push
  appends to `Pushed`, and popping and finishing only move its elements, so that
  injectivity and membership carry over; the same lemmas give the refinement,
  where a push is `Accept`, a finish `Complete` and everything else a stutter.
  `NoTaskSleptOver` is the safety part of `QueuedIsRecorded`: while the worker
  sleeps and the queue is not empty, the handler has yet to notify.  It rests on
  the mutex (`HoldsMutex`): nothing is pushed between the worker's look at the
  queue and its sleep.  The destructor does without the mutex, and of its
  `notify_all` the statement is false (see `ShutdownCompletes`).
* `Recorder_proofs`, the buffers: what `PushBack` and `DropOlder` leave is a part of
  the buffer (and the new element), in its order.  The eviction needs that a
  non-empty set of indices has a least one, proved from the well-foundedness of
  inclusion on finite sets.
* `Recorder_proofs`, the bags: `TypeCorrect`, `MachineAgrees`
  (`CollectingIffRecording`), `BackwardCorrect` (`BackwardIsOfThisTrigger`) and
  `WrittenOnce` (`NoMessageTwice`).  `Typed` adds to the types what a thread
  carries between its steps and that snapshots are finite, so that a bag has a
  number of messages.  `BackwardOfTask`: from `Arm` on the trigger's stamp is the
  task's, the swap leaves the backward buffer empty, and from then on only
  messages in the window of that trigger get in.
* `Recorder_proofs`, the disk: `ManifestCorrect` (`ManifestFitsBag`) and, for
  `Cooldown >= Second`, `BagsKept` (`BagsAreKept`).  A bag is named after the
  second its trigger was admitted in.  `NamesInv` says that the names on disk,
  in the worker's hand, in the queue and in the service's request were begun
  in that order (not strictly: a shorter cooldown gives two bags one name), and
  that the next one is begun a cooldown after the last.  `BagsInv` adds that
  no complete bag on disk is later than the one `bag_info_` describes, which
  makes the manifest that is written from `bag_info_` that of the bag whose path
  it is given.  The hypothesis of `BagsKept` makes the order strict; the shipped
  configurations satisfy it, and without it the property is false.
* `Recorder_proofs`, the windows: `PreTriggerCorrect` (`PreTriggerKept`) for
  `ForwardCap >= ForwardDur * PerTick`, and `CollectedCorrect` (`CollectedKept`)
  for `BackwardCap >= BackwardDur * PerTick`.  `InitRingBuffers`
  (`ros2bag_recorder.cpp:67`) makes a capacity the product of a duration and
  `capturedFrameRate`, so that the hypothesis says that the topic does not
  publish faster than that rate.  Nothing in the code enforces it: messages
  are not thinned out to `capturedFrameRate`, and a topic with a higher rate
  loses the oldest part of its window.  `ChannelInv`: the buffers hold messages in the order of their
  stamps, none is stamped later than now or than the one about to be stored.
  Then a window that is full
  of later messages would hold more of them than the rate allows
  (`NoneOfWindowLost`), so that an eviction never hits one in reach.  `OwedInv`
  follows what was in reach at the trigger from the buffer to the snapshot,
  the queue, the worker and the bag; `CollectedInv` does the same for what came
  while the worker waited.
* `Recorder_proofs`, the runtime: `BackwardCorrectInRuntime`,
  `WrittenOnceInRuntime`, `ManifestCorrectInRuntime`, `BagsKeptInRuntime` and
  `PreTriggerCorrectInRuntime` state the same five properties of `SpecRuntime`,
  where event handlers overwrite the state, triggers are ignored and the process
  ends.  A step of the runtime is a step of the recorder (`StepOfRecorder`),
  `Ignore`, or leaves the recorder's own variables alone (`OutsideRecorder`);
  the invariants above except `CollectingIffRecording` and `CollectedInv` do not
  mention the state, and the two kinds of step that are not the recorder's keep
  them (`OutsideKeeps`, `OutsideKeepsNames`).  `MachineTypeInRuntime` and
  `NoBusyStateAbandoned` are about the other half of the runtime: while the state
  is busy, a call has yet to write it, or is in the callback of that very state,
  or `TriggerRecord` is between its two `setCurrentState` calls.  That is the
  safety part of `BusyEnds`.  It is inductive together with the machine's types:
  whoever writes a busy state attends to it, and a callback that returns in
  its own state has an outcome that state handles (`OutcomeIsHandled`).
* `StateMachine_proofs`: `TypeCorrect` and `WalksTheDiagramAlways`
  (`WalksTheDiagram`), for any set of threads.  A handler decides from the
  state it read and `transitionToState` writes later, so the invariant says that
  a decision that waits to be written is an edge from the state it will be
  written over (`DecisionIsAnEdge`).  That is kept because, until two calls
  have overlapped, at most one is in progress (`AloneInside`), a callback
  included; `ReactionIsAnEdge` compares the handlers with the diagram.
  `NoBusyStateAbandoned` is the statement of the same name above without the
  recorder, and holds for calls that overlap.
* `FileStatusManager_proofs`: `TypeCorrect`, `OneCopyAlways` (`LastSaveOnDisk`)
  and `RestartIsComplete` (the action property `RestartFindsLastSave`).  The
  invariant `CopyOfLastSave` says where the last save is: in the main file, or,
  once a save has parted it from that name, in the backup, where it stays
  through refused renames, failed writes, crashes and restarts until a save
  succeeds.  Between write and rename the temporary file has the new records
  complete.  All of it is under the condition that no power failure has torn a
  file.
* `Uploader_proofs`: `TypeCorrect`, `FilesKept` (`WholeFilesKept`), `QueuedOnce`
  (`NoFileQueuedTwice`) and `PopsHead` (`PopsWhatItSent`).  No file is queued
  twice, although every round appends the whole directory, because the
  directory is listed with an empty queue only (`EmptyWhenListing`).
  `QueuedIsWhole` and `SentIsWhole` carry what was known of a file when it was
  listed to the moment it is deleted: what is deleted is whole in the store.
  `ImplementsDeliverySafety` is the safety part of the refinement: `EndArchive`
  of a file that was not listed half written is `Announce`, a request that
  the store carries out is `Store`, answered or not, the deletion of the file is
  `Remove` if it succeeds, everything else stutters or stops and starts.  `AnnouncedInv` adds that nobody writes to an
  archive that was announced, and that what was listed or stored was made, or half
  written when it was listed.
* `ConfigReload_proofs`: `TypeCorrect`, `PartsAgreeAlways` (`PartsAgree`),
  `ManifestIsRight` (`ManifestFitsStrategy`) and `OldDataIsBounded`
  (`OldDataBounded`).  `ReloadInv` says how far a
  reload has come and so which parts are new; `ForwardInv` that the file, the
  configuration that was loaded and the strategy in force never go back;
  `MessageInv` that every message, wherever it is (under way, in the buffer, in a
  snapshot, in a bag), came through a manager of the strategy in force or of an
  earlier one, and in the former case through the filter if masking is on.
  `NewerFits` carries that over to the next strategy.  `OldDataInv` is for the
  last: a manager's callback group runs one callback at a time, and once the
  buffers were cleared no earlier manager begins another, so that a message
  of an earlier manager is alone of its kind, under way or in the buffer.
  `ImplementsReplacementSafety` is the safety part of the refinement: `Detach`
  is `Stop`, `Adopt` is `Replace`, `Attach` is `Resume`, an edit is an edit, and
  every other step, failures included, leaves file, strategy and flow alone or
  ends the process.  `AdoptedInv` adds that the strategy in force is usable and
  that what a reload has loaded is no older than it and no newer than the file.
* `Driving_proofs`, the application: `TypeCorrect`, `ReachedCorrect` (`ReachedWasThere`) and
  `CountedCorrect` (`AdmittedIsCounted`).  `WaitInv`: a mark that the callback
  is about to make belongs to the target of a wait that has not returned, since
  no wait begins or returns between the decision and the mark; `ServiceInv`:
  a request is sent, answered and taken once, and whoever has not given up on
  it waits for it; `WalkInv`: whoever is at a waypoint has one.
* `Driving_proofs`, the simulator: `SimulatorTypeCorrect` (`SimulatorTypeOK`),
  which needs that a phase that has run over comes back into the cycle; and
  `WalkSupports`, the safety part of what `GaitRecovers` promises: from any
  state in which both legs are in step, and as long as the parameters stay those
  of a walk, a leg always supports.  `InStep` is the invariant.  A leg in its
  stance phase stands or has touched the ground when the phase began; a leg in
  its swing phase has advanced once for every call since it was lifted, and its
  state is the one that progress gives.  It is inductive because a swing has
  the time to reach its descent before its stance begins, for each of the four
  ways to walk (`SwingArithmetic`), and because a stance has the time to load the
  leg before the next swing.  That is the hypothesis, `PacedCycle`: at the
  higher step frequency half a cycle takes longer than the load, and at the
  lower one a cycle takes 20 calls.  In the code the load takes 9 calls
  (`dt * 5.0` up to 0.9, `gait_state_machine.cpp:101`) and half a cycle at the
  highest frequency, 2 Hz (`velocity_locomotion_controller.h:84`), more than 12;
  without it the statement is false (`CycleLength = 20`, `LoadTicks = 5`).  Legs start in
  step, so that `FirstWalkSupports` follows for a robot that walks a path from
  the start; that they get back in step after a standstill or a turn is left to
  `GaitRecovers` and TLC.
* `AsyncWriter_proofs`: `TypeCorrect`, `NoTaskLost` and `ImplementsSafety`, for any
  numbers of writers and clients: the safety part of the refinement of
  `WriteService`, where `Push` accepts, `ProcessTask` carries out, and a stop or
  a start of the owner may change who is obstructed.  `OncePlace` says that a
  task that is queued or in hand is there once and not carried out yet, `NoneLost`
  that every accepted task is queued, in hand or carried out, over any number of
  stops and starts; `Bounded` counts the clients that have yet to push, and
  `StoppedInv` that a start finds every writer done.
  `NoTaskSleptOver` says that when every call has returned, a queued task has a
  writer that is awake; `CalledWhileAsleep` is what is inductive: a client that
  takes the wake-up of a writer is still in its call.

Every invariant and every action property of the passing runs is proved, and
of each refinement the safety part.  Only model-checked is what must happen in
the end, as the prover does not handle fairness or `ENABLED`: `QueuedIsRecorded`, `BusyEnds`,
`TriggersServed`, `StopEnds`, `RunEnds`, `GaitRecovers`, `StepsGoOn`, and the parts
of three refinements that promise progress, `NoneForgotten` of `WriteService`,
`Delivered` of `ArchiveDelivery` and `Settled` of `StrategyReplacement`.  The
invariants `NoTaskSleptOver` (twice), `NoBusyStateAbandoned` (twice) and
`WalkSupports` prove are what those need that is not fairness; they are stated in
the proof modules and are no properties of a run.

## Not modelled

The models cover a small share of the source by lines.  Most of the rest is
numerical, parses files, or is built and never constructed:

* `rl_planning_infer` and its copy in `tmp/`: cost maps and neural networks.
  The kinematics, trajectories and the torso's motion of the simulator.
* `RuleTrigger`: no code calls `proc`, so that no rule fires and no expression
  is evaluated.  `GaitTrigger` and its lock-free ring are not used either; the
  gate that is used is `TriggerManager`'s, in `Mission`.
* The older `DataUploader` with its protocols, and the file roller: nothing
  constructs them.  The AWS uploader constructs a `FileStatusManager` and adds no
  record to it; `FileStatusManager` is modelled for any client.
* `SafetySystem`, `MotionModeManager` and the older simulator: constructed by
  unit tests only.
* `CollectionFeedback`: its upload callback logs, its replan callback acts only on
  new obstacles, which no result reports; nothing reads its state.
* The data manager: no code hands it a data point, so that its statistics and
  the updates of the cost map never happen.
* `AsyncFileReader`, memory-mapped files, the error helpers: not used by the
  application.  (Nor is `AsyncFileWriter`, the one with a protocol; it is
  modelled for any clients.)
* Continuous recording (`SetContinuousMode`, `Write`, `startRecording`): no
  caller.
* A `Write` of one message that fails (`ros2bag_recorder.cpp:485`, `508`, `531`) is
  logged, and the bag lacks that message: what the properties say of messages
  that are in a bag (`PreTriggerKept`, `CollectedKept`) is of those the storage
  accepts.
* Clocks that go back: stamps and the clock of `Recorder` only grow.
  (`DropOlder` has the unsigned difference of the code, by which a message stamped
  later than now would be evicted; with a clock that only grows there is none.)
* The smoothing of velocity commands (`velocity_locomotion_controller.cpp:203`):
  frequency and duty factor pass through intermediate values on their way,
  where `GaitCoordinator` has the end values only.
* Contents of messages, compression, encryption, masking, the SDK, parsing,
  logging: no state the rest depends on.

## Plan

1. Done: the modules above and their proofs.
2. `ConfigReload` composed with `Recorder`, so that a reload meets a recording
   that waits for its backward window.
3. `Mission` composed with `Simulator`: the robot that is driven is the one that
   walks.
