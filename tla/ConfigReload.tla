---------------------------- MODULE ConfigReload ----------------------------
(***************************************************************************)
(* The strategy file, ConfigWatcher's thread and the reloadConfig it calls *)
(* while the callbacks of the channels, the trigger service and the record *)
(* worker go on.  reloadConfig replaces, one after the other and without a *)
(* lock the others know of, the channel manager, the strategy, the trigger *)
(* and the recorder's buffers; a reload may also end in the middle.        *)
(*                                                                         *)
(* A configuration is what the file holds after an edit, known by the      *)
(* stamp of the edit.  One strategy and one topic.  Objects that are       *)
(* destroyed or changed while another thread uses them may end the         *)
(* process: alive says whether it did.                                     *)
(***************************************************************************)
EXTENDS Naturals, SequencesExt, FiniteSets

CONSTANTS
  BufferCap,        \* capacity of the forward ring buffer
  None,             \* no channel manager, no configuration, no task
  MaxEdits,         \* bound: edits of the file
  MaxMessages,      \* bound: messages received
  MaxTriggers       \* bound: triggers admitted

ASSUME BoundAssumption ==
  /\ BufferCap \in Nat \ {0}
  /\ MaxEdits \in Nat /\ MaxMessages \in Nat /\ MaxTriggers \in Nat

\* What can be in the file: a usable strategy, a file LoadConfigFromFile
\* refuses or throws on, one without an enabled strategy, one with a frame
\* rate of zero (InitRingBuffers fails), one with a channel type the
\* middleware does not know (ChannelManager::Init throws).
Adoptable == {"good", "bad rate", "bad channel"}
Kind == Adoptable \cup {"unusable", "disabled"}

\* watched: the watcher ran when the file was written (history).
Config == [stamp : Nat, kind : Kind, masking : BOOLEAN, watched : BOOLEAN]

\* Where a channel manager's messages go.
Sink == {"nowhere", "recorder", "filter"}
Manager == [stamp : Nat, sink : Sink]

ASSUME NoneAssumption == None \notin Config \cup Manager

\* A message is known by the manager it came through and by whether the
\* compliance filter was on its way.
Message == [from : Nat, filtered : BOOLEAN]

VARIABLES
  file,             \* the strategy file
  last_mod_time_,   \* of the watcher
  watcher,          \* where the watcher's thread is
  is_reloading_,
  new_config,       \* the configuration reloadConfig was called with
  strategy_,        \* of the executor
  trigger,          \* stamp of the configuration the trigger was made from
  recorder,         \* stamp of the strategy the recorder's buffers are for
  channel_manager_,
  deliveries,       \* messages between Notify and the end of the callback
  forward,          \* forward ring buffer
  record_queue_,    \* snapshots of the triggers waiting for the worker
  worker,           \* where the record worker is
  task,             \* snapshot of the trigger being recorded
  bag,              \* the messages of its bag
  manifests,        \* bags with what their manifests say, and the stamp of
                    \* the strategy that was taken from (history)
  alive,            \* the process has not died of what a reload destroyed
  received,         \* messages received
  triggered         \* triggers admitted

watcherVars == <<last_mod_time_, watcher, is_reloading_, new_config>>
partVars == <<strategy_, trigger, recorder, channel_manager_>>
dataVars == <<deliveries, forward, received>>
recordVars == <<record_queue_, worker, task, bag, manifests, triggered>>
vars == <<file, watcherVars, partVars, dataVars, recordVars, alive>>

SinkFor(config) == IF config.masking THEN "filter" ELSE "recorder"

\* DataCollectionExecutor::initialize has run with the first file; the
\* watcher is made later.
Init ==
  /\ \E m \in BOOLEAN :
       file = [stamp |-> 0, kind |-> "good", masking |-> m, watched |-> FALSE]
  /\ last_mod_time_ = 0 /\ watcher = "starting" /\ is_reloading_ = FALSE
  /\ new_config = None
  /\ strategy_ = file /\ trigger = 0 /\ recorder = 0
  /\ channel_manager_ = [stamp |-> 0, sink |-> SinkFor(file)]
  /\ deliveries = {} /\ forward = << >> /\ received = 0
  /\ record_queue_ = << >> /\ worker = "idle" /\ task = None /\ bag = {}
  /\ manifests = {} /\ triggered = 0
  /\ alive = TRUE

\* A step that changes or destroys what the deliveries in D are using.
MayDie(D) == alive' \in IF D = {} THEN {TRUE} ELSE BOOLEAN

-----------------------------------------------------------------------------
(* The file and the watcher                                                *)

Edit ==
  /\ file.stamp < MaxEdits
  /\ \E k \in Kind, m \in BOOLEAN :
       /\ m => k \in Adoptable
       /\ file' = [stamp |-> file.stamp + 1, kind |-> k, masking |-> m,
                   watched |-> watcher # "starting"]
  /\ UNCHANGED <<watcherVars, partVars, dataVars, recordVars, alive>>

\* setupConfigWatcher: the constructor reads the modification time.
StartWatcher ==
  /\ watcher = "starting"
  /\ last_mod_time_' = file.stamp
  /\ watcher' = "sleeping"
  /\ UNCHANGED <<file, is_reloading_, new_config, partVars, dataVars,
                 recordVars, alive>>

\* checkChanged marks the change as seen; the callback follows.
CheckChanged ==
  /\ alive
  /\ watcher = "sleeping"
  /\ file.stamp > last_mod_time_
  /\ last_mod_time_' = file.stamp
  /\ watcher' = "load"
  /\ UNCHANGED <<file, is_reloading_, new_config, partVars, dataVars,
                 recordVars, alive>>

-----------------------------------------------------------------------------
(* reloadConfig                                                            *)

GoTo(pc) ==
  /\ watcher' = pc
  /\ UNCHANGED <<last_mod_time_, is_reloading_>>

\* Mutant: an early return that leaves the flag set.
LeaveReloading ==
  /\ watcher' = "sleeping"
  /\ UNCHANGED <<last_mod_time_, is_reloading_>>

\* The end of a reload, with or without success.
Leave ==
  /\ watcher' = "sleeping" /\ is_reloading_' = FALSE
  /\ UNCHANGED last_mod_time_

\* LoadConfigFromFile; what it throws ends in the watcher's handler.
Load ==
  /\ alive /\ watcher = "load"
  /\ IF file.kind = "unusable"
       THEN GoTo("sleeping") /\ new_config' = new_config
       ELSE GoTo("begin") /\ new_config' = file
  /\ UNCHANGED <<file, partVars, dataVars, recordVars, alive>>

\* is_reloading_.exchange and the first enabled strategy
Begin ==
  /\ alive /\ watcher = "begin"
  /\ IF is_reloading_ THEN GoTo("sleeping")
     ELSE IF new_config.kind = "disabled" THEN Leave
     ELSE /\ watcher' = "detach" /\ is_reloading_' = TRUE
          /\ UNCHANGED last_mod_time_
  /\ UNCHANGED <<file, new_config, partVars, dataVars, recordVars, alive>>

\* RemoveObserver, and the old manager and its filter are destroyed.
Detach ==
  /\ alive /\ watcher = "detach"
  /\ channel_manager_' = None
  /\ MayDie({d \in deliveries :
               channel_manager_ # None /\ d.from = channel_manager_.stamp})
  /\ GoTo("adopt")
  /\ UNCHANGED <<file, new_config, strategy_, trigger, recorder, dataVars,
                 recordVars>>

\* strategy_ = new_strategy
Adopt ==
  /\ alive /\ watcher = "adopt"
  /\ strategy_' = new_config
  /\ GoTo("trigger")
  /\ UNCHANGED <<file, new_config, trigger, recorder, channel_manager_,
                 dataVars, recordVars, alive>>

\* Mutant: the trigger of the old configuration is kept.
KeepTrigger ==
  /\ alive /\ watcher = "trigger"
  /\ GoTo("configure")
  /\ UNCHANGED <<file, new_config, partVars, dataVars, recordVars, alive>>

\* TriggerManager::initialize makes a new RuleTrigger, which waits for its
\* service.
InitializeTrigger ==
  /\ alive /\ watcher = "trigger"
  /\ trigger' = strategy_.stamp
  /\ GoTo("configure")
  /\ UNCHANGED <<file, new_config, strategy_, recorder, channel_manager_,
                 dataVars, recordVars, alive>>

\* Mutant: the buffers are kept when the strategy changes.
ConfigureKeepBuffers ==
  /\ alive /\ watcher = "configure"
  /\ recorder' = strategy_.stamp
  /\ IF strategy_.kind = "bad rate" THEN Leave ELSE GoTo("connect")
  /\ UNCHANGED <<file, new_config, strategy_, trigger, channel_manager_,
                 dataVars, recordVars, alive>>

\* setStrategy, setCacheMode and InitRingBuffers, which clears the buffers
\* without buffer_mutex_ and then may fail.
Configure ==
  /\ alive /\ watcher = "configure"
  /\ recorder' = strategy_.stamp
  /\ forward' = << >>
  /\ MayDie(deliveries)
  /\ IF strategy_.kind = "bad rate" THEN Leave ELSE GoTo("connect")
  /\ UNCHANGED <<file, new_config, strategy_, trigger, channel_manager_,
                 deliveries, received, recordVars>>

\* A new ChannelManager subscribes in Init and has no observer yet.  What
\* create_generic_subscription throws is caught by reloadConfig, which
\* leaves the manager there.
Connect ==
  /\ alive /\ watcher = "connect"
  /\ channel_manager_' = [stamp |-> strategy_.stamp, sink |-> "nowhere"]
  /\ IF strategy_.kind = "bad channel" THEN Leave ELSE GoTo("attach")
  /\ UNCHANGED <<file, new_config, strategy_, trigger, recorder, dataVars,
                 recordVars, alive>>

\* Mutant: the observer is the recorder, whether masking is on or not.
AttachRecorder ==
  /\ alive /\ watcher = "attach"
  /\ channel_manager_' = [channel_manager_ EXCEPT !.sink = "recorder"]
  /\ Leave
  /\ UNCHANGED <<file, new_config, strategy_, trigger, recorder, dataVars,
                 recordVars, alive>>

\* AddObserver changes the vector notifyAll goes through.
Attach ==
  /\ alive /\ watcher = "attach"
  /\ channel_manager_' = [channel_manager_ EXCEPT !.sink = SinkFor(strategy_)]
  /\ MayDie({d \in deliveries : d.from = channel_manager_.stamp})
  /\ Leave
  /\ UNCHANGED <<file, new_config, strategy_, trigger, recorder, dataVars,
                 recordVars>>

-----------------------------------------------------------------------------
(* Channels, trigger service and record worker                             *)

\* Notify begins with the observers there are.  The callback group of a
\* manager runs one callback at a time; an old manager's may still run.
Receive ==
  /\ alive
  /\ received < MaxMessages
  /\ channel_manager_ # None
  /\ \A d \in deliveries : d.from # channel_manager_.stamp
  /\ deliveries' = deliveries \cup
       {[from |-> channel_manager_.stamp, to |-> channel_manager_.sink]}
  /\ received' = received + 1
  /\ UNCHANGED <<file, watcherVars, partVars, forward, recordVars, alive>>

\* Mutant: the ring buffer grows.
PutGrowing(m) == Append(forward, m)

Put(m) ==
  Append(IF Len(forward) < BufferCap THEN forward ELSE Tail(forward), m)

\* The filter forwards a message it cannot mask as it is: filtered is not
\* masked.  The callback of a manager destroyed meanwhile returns into it.
Deliver(d) ==
  /\ alive
  /\ deliveries' = deliveries \ {d}
  /\ \/ d.to = "nowhere" /\ forward' = forward
     \/ /\ d.to # "nowhere"
        /\ forward' = Put([from |-> d.from, filtered |-> d.to = "filter"])
  /\ MayDie(IF channel_manager_ # None /\ d.from = channel_manager_.stamp
              THEN {} ELSE {d})
  /\ UNCHANGED <<file, watcherVars, partVars, received, recordVars>>

\* handleTriggerService does not look at is_reloading_.
HandleTrigger ==
  /\ alive
  /\ triggered < MaxTriggers
  /\ triggered' = triggered + 1
  /\ record_queue_' = Append(record_queue_, ToSet(forward))
  /\ UNCHANGED <<file, watcherVars, partVars, dataVars, worker, task, bag,
                 manifests, alive>>

BeginRecord ==
  /\ alive /\ worker = "idle" /\ record_queue_ # << >>
  /\ task' = Head(record_queue_) /\ record_queue_' = Tail(record_queue_)
  /\ worker' = "record"
  /\ UNCHANGED <<file, watcherVars, partVars, dataVars, bag, manifests,
                 triggered, alive>>

\* TriggerRecord writes the snapshot and what the buffers hold now.
WriteBag ==
  /\ alive /\ worker = "record"
  /\ bag' = task \cup ToSet(forward)
  /\ worker' = "manifest"
  /\ UNCHANGED <<file, watcherVars, partVars, dataVars, record_queue_, task,
                 manifests, triggered, alive>>

\* buildManifest with the strategy of this moment
WriteManifest ==
  /\ alive /\ worker = "manifest"
  /\ manifests' = manifests \cup
       {[messages |-> bag, obfuscation_applied |-> strategy_.masking,
          stamp |-> strategy_.stamp]}
  /\ worker' = "idle" /\ task' = None /\ bag' = {}
  /\ UNCHANGED <<file, watcherVars, partVars, dataVars, record_queue_,
                 triggered, alive>>

-----------------------------------------------------------------------------

WatcherStep ==
  \/ StartWatcher \/ CheckChanged \/ Load \/ Begin \/ Detach \/ Adopt
  \/ InitializeTrigger \/ Configure \/ Connect \/ Attach

WorkerStep == BeginRecord \/ WriteBag \/ WriteManifest

Next ==
  \/ Edit \/ WatcherStep
  \/ Receive \/ (\E d \in deliveries : Deliver(d))
  \/ HandleTrigger \/ WorkerStep

Spec == Init /\ [][Next]_vars

\* The watcher's thread runs; nobody has to edit the file or send messages.
FairSpec == Spec /\ WF_vars(WatcherStep)

-----------------------------------------------------------------------------
(* Properties                                                              *)

TypeOK ==
  /\ file \in Config /\ strategy_ \in Config
  /\ new_config \in Config \cup {None}
  /\ last_mod_time_ \in Nat /\ is_reloading_ \in BOOLEAN
  /\ watcher \in {"starting", "sleeping", "load", "begin", "detach", "adopt",
                  "trigger", "configure", "connect", "attach"}
  /\ trigger \in Nat /\ recorder \in Nat
  /\ channel_manager_ \in Manager \cup {None}
  /\ deliveries \subseteq [from : Nat, to : Sink]
  /\ forward \in Seq(Message) /\ Len(forward) <= BufferCap
  /\ record_queue_ \in Seq(SUBSET Message)
  /\ worker \in {"idle", "record", "manifest"}
  /\ task \in (SUBSET Message) \cup {None} /\ bag \subseteq Message
  /\ manifests \subseteq [messages : SUBSET Message,
                          obfuscation_applied : BOOLEAN, stamp : Nat]
  /\ alive \in BOOLEAN /\ received \in Nat /\ triggered \in Nat

\* Between two reloads, however the last one ended, strategy, trigger and
\* recorder are of one configuration, and a manager that delivers is of the
\* same one and goes through the filter exactly when it asks for masking.
PartsAgree ==
  ~is_reloading_ =>
    /\ trigger = strategy_.stamp /\ recorder = strategy_.stamp
    /\ channel_manager_ # None =>
         /\ channel_manager_.stamp = strategy_.stamp
         /\ channel_manager_.sink \in {"nowhere", SinkFor(strategy_)}

\* A reload removes the data of earlier configurations from the forward
\* buffer, but for the messages it overtook: at most one of each manager it
\* has replaced.
OldDataBounded ==
  \A stamp \in 0 .. recorder - 1 :
    Cardinality({i \in DOMAIN forward : forward[i].from = stamp}) <= 1

\* obfuscation_applied of a manifest is right about the messages received
\* under the strategy it was taken from: they went through the filter if it
\* is set, and past it if not.  Nothing holds for the older messages a
\* snapshot brings across a reload.
ManifestFitsStrategy ==
  \A b \in manifests : \A m \in b.messages :
    m.from >= b.stamp => m.filtered = b.obfuscation_applied

\* What the parts are of that a new message goes through: the channel
\* manager, if it has an observer, the recorder, and the trigger the bag is
\* recorded for.
Flow ==
  IF channel_manager_ = None \/ channel_manager_.sink = "nowhere" THEN None
  ELSE [trigger |-> trigger, recorder |-> recorder,
        channels |-> channel_manager_.stamp, sink |-> channel_manager_.sink]

\* Seen from the data the calls of a reload, with their early returns and
\* exceptions, are a replacement of one strategy by a newer one: nothing new
\* comes in while the parts differ, and the last usable edit made while the
\* watcher ran comes into force.
Replacement == INSTANCE StrategyReplacement WITH
  strategy <- strategy_, flow <- Flow
ImplementsReplacement == Replacement!Spec

=============================================================================
