------------------------- MODULE ConfigReload_proofs -------------------------
(***************************************************************************)
(* Proofs about ConfigReload, for any capacity of the buffer and any       *)
(* number of edits, messages and triggers: the type invariant, that the    *)
(* parts are of one configuration between two reloads, that a manifest is  *)
(* right about the messages of its own strategy, and that a reload leaves  *)
(* at most one message of each earlier configuration in the buffer.        *)
(***************************************************************************)
EXTENDS ConfigReload, FiniteSetTheorems, TLAPS

-----------------------------------------------------------------------------
(* The invariants                                                          *)

Reloading == {"detach", "adopt", "trigger", "configure", "connect", "attach"}

\* How far a reload has come says which parts are new already.
ReloadInv ==
  /\ is_reloading_ <=> watcher \in Reloading
  /\ watcher # "trigger" => trigger = strategy_.stamp
  /\ watcher \notin {"trigger", "configure"} => recorder = strategy_.stamp
  /\ watcher \in {"adopt", "trigger", "configure", "connect"} =>
       channel_manager_ = None
  /\ watcher = "attach" => /\ channel_manager_ \in Manager
                           /\ channel_manager_.stamp = strategy_.stamp
  /\ channel_manager_ # None =>
       /\ channel_manager_.stamp = strategy_.stamp
       /\ channel_manager_.sink \in {"nowhere", SinkFor(strategy_)}

\* Newer reads the file later: its stamp is as high, and it is the same
\* configuration when the stamps are the same.
Newer(new, old) ==
  /\ new.stamp >= old.stamp
  /\ new.stamp = old.stamp => new.masking = old.masking

\* A reload never goes back to an older configuration.
ForwardInv ==
  /\ Newer(file, strategy_)
  /\ watcher \in {"begin", "detach", "adopt"} =>
       /\ new_config \in Config
       /\ Newer(file, new_config) /\ Newer(new_config, strategy_)

\* A message came through a manager of this configuration or of an earlier
\* one, and through its filter if it was this one's.
Fits(m, config) ==
  /\ m.from <= config.stamp
  /\ m.from = config.stamp => m.filtered = config.masking

\* The same for a message that has not arrived.
MayArrive(d, config) ==
  /\ d.from <= config.stamp
  /\ d.from = config.stamp => d.to \in {"nowhere", SinkFor(config)}

\* Wherever a message is, it fits the strategy in force.
MessageInv ==
  /\ \A d \in deliveries : MayArrive(d, strategy_)
  /\ \A i \in DOMAIN forward : Fits(forward[i], strategy_)
  /\ \A i \in DOMAIN record_queue_ : \A m \in record_queue_[i] :
       Fits(m, strategy_)
  /\ worker = "record" =>
       task \in SUBSET Message /\ \A m \in task : Fits(m, strategy_)
  /\ \A m \in bag : Fits(m, strategy_)

ReloadingInv ==
  TypeOK /\ ReloadInv /\ ForwardInv /\ MessageInv /\ ManifestFitsStrategy

USE DEF watcherVars, partVars, dataVars, recordVars

-----------------------------------------------------------------------------
(* Messages and configurations                                             *)

\* A newer strategy is still fitted by everything that fitted the old one.
LEMMA NewerFits ==
  ASSUME NEW old \in Config, NEW new \in Config, Newer(new, old)
  PROVE  /\ \A m \in Message : Fits(m, old) => Fits(m, new)
         /\ \A d \in [from : Nat, to : Sink] :
              MayArrive(d, old) => MayArrive(d, new)
<1> USE DEF Config, Newer
<1>1. \A m \in Message : Fits(m, old) => Fits(m, new)
  BY DEF Message, Fits
<1>2. CASE new.stamp = old.stamp
  <2>1. SinkFor(new) = SinkFor(old)
    BY <1>2 DEF SinkFor
  <2> QED
    BY <1>1, <1>2, <2>1 DEF MayArrive
<1>3. CASE new.stamp > old.stamp
  BY <1>1, <1>3 DEF MayArrive
<1> QED
  BY <1>2, <1>3

\* Put keeps the buffer a sequence of at most BufferCap messages, the new
\* one and old ones.
LEMMA PutKeeps ==
  ASSUME NEW m \in Message, forward \in Seq(Message),
         Len(forward) <= BufferCap
  PROVE  /\ Put(m) \in Seq(Message) /\ Len(Put(m)) <= BufferCap
         /\ \A i \in DOMAIN Put(m) :
              Put(m)[i] = m \/ \E j \in DOMAIN forward : Put(m)[i] = forward[j]
<1>1. CASE Len(forward) < BufferCap
  <2>1. Put(m) = Append(forward, m)
    BY <1>1 DEF Put
  <2> QED
    BY <1>1, <2>1, BoundAssumption
<1>2. CASE Len(forward) = BufferCap
  <2>1. Put(m) = Append(Tail(forward), m)
    BY <1>2 DEF Put
  <2>2. /\ Tail(forward) \in Seq(Message) /\ Len(Tail(forward)) = BufferCap - 1
        /\ \A i \in 1 .. BufferCap - 1 : Tail(forward)[i] = forward[i + 1]
    BY <1>2, BoundAssumption
  <2>3. /\ Put(m) \in Seq(Message) /\ Len(Put(m)) = BufferCap
        /\ Put(m)[BufferCap] = m
        /\ \A i \in 1 .. BufferCap - 1 : Put(m)[i] = forward[i + 1]
    BY <2>1, <2>2, BoundAssumption
  <2> QED
    BY <1>2, <2>3, BoundAssumption
<1> QED
  BY <1>1, <1>2, BoundAssumption

-----------------------------------------------------------------------------
(* The steps                                                               *)

\* An edit is newer than whatever was loaded.
LEMMA EditKeeps ==
  ASSUME ReloadingInv, Edit
  PROVE  ReloadingInv'
<1> USE DEF ReloadingInv
<1>1. TypeOK'
  BY DEF Edit, TypeOK, Config, Kind
<1>2. ReloadInv'
  BY DEF Edit, ReloadInv, Reloading
<1>3. ForwardInv'
  BY DEF Edit, ForwardInv, Newer, TypeOK, Config
<1>4. MessageInv'
  BY DEF Edit, MessageInv
<1>5. ManifestFitsStrategy'
  BY DEF Edit, ManifestFitsStrategy
<1> QED
  BY <1>1, <1>2, <1>3, <1>4, <1>5

\* The watcher's thread changes nothing but its own state.
LEMMA StartWatcherKeeps ==
  ASSUME ReloadingInv, StartWatcher
  PROVE  ReloadingInv'
<1> USE DEF ReloadingInv
<1>1. TypeOK'
  BY DEF StartWatcher, TypeOK, Config
<1>2. ReloadInv'
  BY DEF StartWatcher, ReloadInv, Reloading
<1>3. ForwardInv'
  BY DEF StartWatcher, ForwardInv
<1>4. MessageInv'
  BY DEF StartWatcher, MessageInv
<1>5. ManifestFitsStrategy'
  BY DEF StartWatcher, ManifestFitsStrategy
<1> QED
  BY <1>1, <1>2, <1>3, <1>4, <1>5

\* So does the comparison of the times.
LEMMA CheckChangedKeeps ==
  ASSUME ReloadingInv, CheckChanged
  PROVE  ReloadingInv'
<1> USE DEF ReloadingInv
<1>1. TypeOK'
  BY DEF CheckChanged, TypeOK, Config
<1>2. ReloadInv'
  BY DEF CheckChanged, ReloadInv, Reloading
<1>3. ForwardInv'
  BY DEF CheckChanged, ForwardInv
<1>4. MessageInv'
  BY DEF CheckChanged, MessageInv
<1>5. ManifestFitsStrategy'
  BY DEF CheckChanged, ManifestFitsStrategy
<1> QED
  BY <1>1, <1>2, <1>3, <1>4, <1>5

\* What is loaded is what the file holds.
LEMMA LoadKeeps ==
  ASSUME ReloadingInv, Load
  PROVE  ReloadingInv'
<1> USE DEF ReloadingInv
<1>1. TypeOK'
  BY DEF Load, GoTo, TypeOK
<1>2. ReloadInv'
  BY DEF Load, GoTo, ReloadInv, Reloading
<1>3. ForwardInv'
  BY DEF Load, GoTo, ForwardInv, Newer, TypeOK, Config
<1>4. MessageInv'
  BY DEF Load, GoTo, MessageInv
<1>5. ManifestFitsStrategy'
  BY DEF Load, GoTo, ManifestFitsStrategy
<1> QED
  BY <1>1, <1>2, <1>3, <1>4, <1>5

\* No reload is under way when one begins.
LEMMA BeginKeeps ==
  ASSUME ReloadingInv, Begin
  PROVE  ReloadingInv'
<1> USE DEF ReloadingInv
<1>1. TypeOK'
  BY DEF Begin, GoTo, Leave, TypeOK
<1>2. ReloadInv'
  BY DEF Begin, GoTo, Leave, ReloadInv, Reloading
<1>3. ForwardInv'
  BY DEF Begin, GoTo, Leave, ForwardInv
<1>4. MessageInv'
  BY DEF Begin, GoTo, Leave, MessageInv
<1>5. ManifestFitsStrategy'
  BY DEF Begin, GoTo, Leave, ManifestFitsStrategy
<1> QED
  BY <1>1, <1>2, <1>3, <1>4, <1>5

\* The manager is gone until the last step but one.
LEMMA DetachKeeps ==
  ASSUME ReloadingInv, Detach
  PROVE  ReloadingInv'
<1> USE DEF ReloadingInv
<1>1. TypeOK'
  BY DEF Detach, GoTo, MayDie, TypeOK
<1>2. ReloadInv'
  BY DEF Detach, GoTo, ReloadInv, Reloading
<1>3. ForwardInv'
  BY DEF Detach, GoTo, ForwardInv
<1>4. MessageInv'
  BY DEF Detach, GoTo, MessageInv
<1>5. ManifestFitsStrategy'
  BY DEF Detach, GoTo, ManifestFitsStrategy
<1> QED
  BY <1>1, <1>2, <1>3, <1>4, <1>5

\* The new strategy is not older than the one it replaces.
LEMMA AdoptKeeps ==
  ASSUME ReloadingInv, Adopt
  PROVE  ReloadingInv'
<1> USE DEF ReloadingInv
<1>0. /\ Newer(new_config, strategy_) /\ Newer(file, new_config)
      /\ new_config \in Config /\ strategy_ \in Config
      /\ strategy_' = new_config
  BY DEF Adopt, ForwardInv, TypeOK
<1>1. TypeOK'
  BY <1>0 DEF Adopt, GoTo, TypeOK
<1>2. ReloadInv'
  BY DEF Adopt, GoTo, ReloadInv, Reloading
<1>3. ForwardInv'
  BY <1>0 DEF Adopt, GoTo, ForwardInv
<1>4. MessageInv'
  <2>1. /\ \A m \in Message : Fits(m, strategy_) => Fits(m, new_config)
        /\ \A d \in [from : Nat, to : Sink] :
             MayArrive(d, strategy_) => MayArrive(d, new_config)
    BY <1>0, NewerFits
  <2>2. \A i \in DOMAIN forward : forward[i] \in Message
    BY DEF TypeOK
  <2>3. \A i \in DOMAIN record_queue_ : record_queue_[i] \subseteq Message
    BY DEF TypeOK
  <2>4. \A d \in deliveries' : MayArrive(d, strategy_')
    BY <1>0, <2>1 DEF Adopt, TypeOK, MessageInv
  <2>5. \A i \in DOMAIN forward' : Fits(forward'[i], strategy_')
    BY <1>0, <2>1, <2>2 DEF Adopt, MessageInv
  <2>6. \A i \in DOMAIN record_queue_' : \A m \in record_queue_'[i] :
          Fits(m, strategy_')
    BY <1>0, <2>1, <2>3 DEF Adopt, MessageInv
  <2>7. worker' = "record" =>
          task' \in SUBSET Message /\ \A m \in task' : Fits(m, strategy_')
    BY <1>0, <2>1 DEF Adopt, MessageInv
  <2>8. \A m \in bag' : Fits(m, strategy_')
    BY <1>0, <2>1 DEF Adopt, TypeOK, MessageInv
  <2> QED
    BY <2>4, <2>5, <2>6, <2>7, <2>8 DEF MessageInv
<1>5. ManifestFitsStrategy'
  BY DEF Adopt, GoTo, ManifestFitsStrategy
<1> QED
  BY <1>1, <1>2, <1>3, <1>4, <1>5

\* The trigger is of the strategy in force.
LEMMA InitializeTriggerKeeps ==
  ASSUME ReloadingInv, InitializeTrigger
  PROVE  ReloadingInv'
<1> USE DEF ReloadingInv
<1>1. TypeOK'
  BY DEF InitializeTrigger, GoTo, TypeOK, Config
<1>2. ReloadInv'
  BY DEF InitializeTrigger, GoTo, ReloadInv, Reloading
<1>3. ForwardInv'
  BY DEF InitializeTrigger, GoTo, ForwardInv
<1>4. MessageInv'
  BY DEF InitializeTrigger, GoTo, MessageInv
<1>5. ManifestFitsStrategy'
  BY DEF InitializeTrigger, GoTo, ManifestFitsStrategy
<1> QED
  BY <1>1, <1>2, <1>3, <1>4, <1>5

\* So is the recorder; its buffers are empty.
LEMMA ConfigureKeeps ==
  ASSUME ReloadingInv, Configure
  PROVE  ReloadingInv'
<1> USE DEF ReloadingInv
<1>0. forward' \in Seq(Message) /\ Len(forward') = 0 /\ DOMAIN forward' = {}
  <2>1. forward' = << >>
    BY DEF Configure
  <2>2. << >> \in Seq(Message) /\ Len(<< >>) = 0
    OBVIOUS
  <2>3. DOMAIN << >> = {}
    OBVIOUS
  <2> QED
    BY <2>1, <2>2, <2>3
<1>1. TypeOK'
  <2>1. watcher' \in {"sleeping", "connect"} /\ is_reloading_' \in BOOLEAN
    BY DEF Configure, GoTo, Leave, TypeOK
  <2>2. recorder' \in Nat /\ alive' \in BOOLEAN
    BY DEF Configure, MayDie, TypeOK, Config
  <2>3. UNCHANGED <<file, last_mod_time_, new_config, strategy_, trigger,
                    channel_manager_, deliveries, received, recordVars>>
    BY DEF Configure, GoTo, Leave
  <2> QED
    BY <1>0, <2>1, <2>2, <2>3, BoundAssumption DEF TypeOK
<1>2. ReloadInv'
  BY DEF Configure, GoTo, Leave, ReloadInv, Reloading
<1>3. ForwardInv'
  BY DEF Configure, GoTo, Leave, ForwardInv
<1>4. MessageInv'
  BY <1>0 DEF Configure, MessageInv
<1>5. ManifestFitsStrategy'
  BY DEF Configure, GoTo, Leave, ManifestFitsStrategy
<1> QED
  BY <1>1, <1>2, <1>3, <1>4, <1>5

\* The manager subscribes for the strategy in force.
LEMMA ConnectKeeps ==
  ASSUME ReloadingInv, Connect
  PROVE  ReloadingInv'
<1> USE DEF ReloadingInv
<1>1. TypeOK'
  BY DEF Connect, GoTo, Leave, TypeOK, Config, Manager, Sink
<1>2. ReloadInv'
  <2>1. /\ channel_manager_'.stamp = strategy_'.stamp
        /\ channel_manager_'.sink = "nowhere"
        /\ channel_manager_' \in Manager
    BY DEF Connect, TypeOK, Config, Manager, Sink
  <2> QED
    BY <2>1 DEF Connect, GoTo, Leave, ReloadInv, Reloading
<1>3. ForwardInv'
  BY DEF Connect, GoTo, Leave, ForwardInv
<1>4. MessageInv'
  BY DEF Connect, GoTo, Leave, MessageInv
<1>5. ManifestFitsStrategy'
  BY DEF Connect, GoTo, Leave, ManifestFitsStrategy
<1> QED
  BY <1>1, <1>2, <1>3, <1>4, <1>5

\* And delivers to that strategy's observer.
LEMMA AttachKeeps ==
  ASSUME ReloadingInv, Attach
  PROVE  ReloadingInv'
<1> USE DEF ReloadingInv
<1>0. /\ channel_manager_ \in Manager
      /\ channel_manager_.stamp = strategy_.stamp
      /\ channel_manager_' =
           [stamp |-> strategy_.stamp, sink |-> SinkFor(strategy_)]
  BY DEF Attach, TypeOK, ReloadInv, Manager
<1>1. TypeOK'
  BY <1>0 DEF Attach, Leave, MayDie, TypeOK, Manager, Sink, SinkFor
<1>2. ReloadInv'
  BY <1>0 DEF Attach, Leave, ReloadInv, Reloading, SinkFor
<1>3. ForwardInv'
  BY DEF Attach, GoTo, Leave, ForwardInv
<1>4. MessageInv'
  BY DEF Attach, GoTo, Leave, MessageInv
<1>5. ManifestFitsStrategy'
  BY DEF Attach, GoTo, Leave, ManifestFitsStrategy
<1> QED
  BY <1>1, <1>2, <1>3, <1>4, <1>5

\* A message comes through the manager of the strategy in force.
LEMMA ReceiveKeeps ==
  ASSUME ReloadingInv, Receive
  PROVE  ReloadingInv'
<1> USE DEF ReloadingInv
<1> DEFINE d == [from |-> channel_manager_.stamp, to |-> channel_manager_.sink]
<1>0. /\ channel_manager_ \in Manager /\ d \in [from : Nat, to : Sink]
      /\ deliveries' = deliveries \cup {d}
      /\ d.from = strategy_.stamp /\ d.to \in {"nowhere", SinkFor(strategy_)}
  BY DEF Receive, TypeOK, ReloadInv, Manager
<1>1. TypeOK'
  <2>1. deliveries' \subseteq [from : Nat, to : Sink]
    BY <1>0 DEF TypeOK
  <2> QED
    BY <2>1 DEF Receive, TypeOK
<1>2. ReloadInv'
  BY DEF Receive, ReloadInv, Reloading
<1>3. ForwardInv'
  BY DEF Receive, ForwardInv
<1>4. MessageInv'
  <2>1. MayArrive(d, strategy_)
    BY <1>0 DEF MayArrive, TypeOK, Config
  <2> QED
    BY <1>0, <2>1 DEF Receive, MessageInv
<1>5. ManifestFitsStrategy'
  BY DEF Receive, ManifestFitsStrategy
<1> QED
  BY <1>1, <1>2, <1>3, <1>4, <1>5

\* It arrives as the manager's observer was when it came.
LEMMA DeliverKeeps ==
  ASSUME ReloadingInv, NEW d \in deliveries, Deliver(d)
  PROVE  ReloadingInv'
<1> USE DEF ReloadingInv
<1> DEFINE m == [from |-> d.from, filtered |-> d.to = "filter"]
<1>0. d \in [from : Nat, to : Sink] /\ m \in Message
  BY DEF TypeOK, Message
<1>1. /\ forward' \in Seq(Message) /\ Len(forward') <= BufferCap
      /\ \A i \in DOMAIN forward' :
           \/ d.to # "nowhere" /\ forward'[i] = m
           \/ \E j \in DOMAIN forward : forward'[i] = forward[j]
  <2>1. CASE d.to = "nowhere" /\ forward' = forward
    BY <2>1 DEF TypeOK
  <2>2. CASE d.to # "nowhere" /\ forward' = Put(m)
    BY <1>0, <2>2, PutKeeps DEF TypeOK
  <2> QED
    BY <2>1, <2>2 DEF Deliver
<1>2. d.to # "nowhere" => Fits(m, strategy_)
  BY <1>0 DEF MessageInv, MayArrive, Fits, SinkFor, Sink, TypeOK, Config
<1>3. TypeOK'
  BY <1>1 DEF Deliver, MayDie, TypeOK
<1>4. ReloadInv'
  BY DEF Deliver, ReloadInv, Reloading
<1>5. ForwardInv'
  BY DEF Deliver, ForwardInv
<1>6. MessageInv'
  <2>1. \A i \in DOMAIN forward' : Fits(forward'[i], strategy_)
    BY <1>1, <1>2 DEF MessageInv
  <2> QED
    BY <2>1 DEF Deliver, MessageInv
<1>7. ManifestFitsStrategy'
  BY DEF Deliver, ManifestFitsStrategy
<1> QED
  BY <1>3, <1>4, <1>5, <1>6, <1>7

\* A snapshot is taken from the buffer.
LEMMA HandleTriggerKeeps ==
  ASSUME ReloadingInv, HandleTrigger
  PROVE  ReloadingInv'
<1> USE DEF ReloadingInv
<1>0. /\ ToSet(forward) \in SUBSET Message
      /\ \A m \in ToSet(forward) : Fits(m, strategy_)
  BY DEF TypeOK, MessageInv, ToSet
<1>1. TypeOK'
  <2>1. record_queue_' \in Seq(SUBSET Message)
    BY <1>0 DEF HandleTrigger, TypeOK
  <2> QED
    BY <2>1 DEF HandleTrigger, TypeOK
<1>2. ReloadInv'
  BY DEF HandleTrigger, ReloadInv, Reloading
<1>3. ForwardInv'
  BY DEF HandleTrigger, ForwardInv
<1>4. MessageInv'
  <2>1. /\ record_queue_ \in Seq(SUBSET Message)
        /\ record_queue_' = Append(record_queue_, ToSet(forward))
    BY DEF HandleTrigger, TypeOK
  <2>2. \A i \in DOMAIN record_queue_' : \A m \in record_queue_'[i] :
          Fits(m, strategy_)
    BY <1>0, <2>1 DEF MessageInv
  <2> QED
    BY <2>2 DEF HandleTrigger, MessageInv
<1>5. ManifestFitsStrategy'
  BY DEF HandleTrigger, ManifestFitsStrategy
<1> QED
  BY <1>1, <1>2, <1>3, <1>4, <1>5

\* The first snapshot is taken from the queue.
LEMMA BeginRecordKeeps ==
  ASSUME ReloadingInv, BeginRecord
  PROVE  ReloadingInv'
<1> USE DEF ReloadingInv
<1>0. /\ record_queue_ \in Seq(SUBSET Message) /\ record_queue_ # << >>
      /\ record_queue_' = Tail(record_queue_)
      /\ task' = record_queue_[1] /\ task' \in SUBSET Message
      /\ record_queue_' \in Seq(SUBSET Message)
      /\ 1 \in DOMAIN record_queue_
      /\ \A i \in DOMAIN record_queue_' :
           i + 1 \in DOMAIN record_queue_ /\ record_queue_'[i] = record_queue_[i + 1]
  BY DEF BeginRecord, TypeOK
<1>1. TypeOK'
  BY <1>0 DEF BeginRecord, TypeOK
<1>2. ReloadInv'
  BY DEF BeginRecord, ReloadInv, Reloading
<1>3. ForwardInv'
  BY DEF BeginRecord, ForwardInv
<1>4. MessageInv'
  <2>1. \A i \in DOMAIN record_queue_' : \A m \in record_queue_'[i] :
          Fits(m, strategy_)
    BY <1>0 DEF MessageInv
  <2>2. \A m \in task' : Fits(m, strategy_)
    BY <1>0 DEF MessageInv
  <2> QED
    BY <1>0, <2>1, <2>2 DEF BeginRecord, MessageInv
<1>5. ManifestFitsStrategy'
  BY DEF BeginRecord, ManifestFitsStrategy
<1> QED
  BY <1>1, <1>2, <1>3, <1>4, <1>5

\* The bag holds the snapshot and what is in the buffer now.
LEMMA WriteBagKeeps ==
  ASSUME ReloadingInv, WriteBag
  PROVE  ReloadingInv'
<1> USE DEF ReloadingInv
<1>0. /\ ToSet(forward) \in SUBSET Message
      /\ \A m \in ToSet(forward) : Fits(m, strategy_)
  BY DEF TypeOK, MessageInv, ToSet
<1>1. TypeOK'
  <2>1. bag' \subseteq Message
    BY <1>0 DEF WriteBag, MessageInv
  <2> QED
    BY <2>1 DEF WriteBag, TypeOK
<1>2. ReloadInv'
  BY DEF WriteBag, ReloadInv, Reloading
<1>3. ForwardInv'
  BY DEF WriteBag, ForwardInv
<1>4. MessageInv'
  BY <1>0 DEF WriteBag, MessageInv
<1>5. ManifestFitsStrategy'
  BY DEF WriteBag, ManifestFitsStrategy
<1> QED
  BY <1>1, <1>2, <1>3, <1>4, <1>5

\* No message of the bag is newer than the manifest.
LEMMA WriteManifestKeeps ==
  ASSUME ReloadingInv, WriteManifest
  PROVE  ReloadingInv'
<1> USE DEF ReloadingInv
<1>1. TypeOK'
  <2>1. [messages |-> bag, obfuscation_applied |-> strategy_.masking,
         stamp |-> strategy_.stamp]
          \in [messages : SUBSET Message, obfuscation_applied : BOOLEAN,
              stamp : Nat]
    BY DEF TypeOK, Config
  <2>2. manifests' \subseteq [messages : SUBSET Message,
                            obfuscation_applied : BOOLEAN, stamp : Nat]
    BY <2>1 DEF WriteManifest, TypeOK
  <2>3. bag' \subseteq Message /\ task' = None /\ worker' = "idle"
    BY DEF WriteManifest
  <2> QED
    BY <2>2, <2>3 DEF WriteManifest, TypeOK
<1>2. ReloadInv'
  BY DEF WriteManifest, ReloadInv, Reloading
<1>3. ForwardInv'
  BY DEF WriteManifest, ForwardInv
<1>4. MessageInv'
  BY DEF WriteManifest, MessageInv
<1>5. ManifestFitsStrategy'
  <2> DEFINE b == [messages |-> bag,
                   obfuscation_applied |-> strategy_.masking,
                   stamp |-> strategy_.stamp]
  <2>1. \A m \in b.messages :
          m.from >= b.stamp => m.filtered = b.obfuscation_applied
    BY DEF MessageInv, Fits, TypeOK, Config, Message
  <2> QED
    BY <2>1 DEF WriteManifest, ManifestFitsStrategy
<1> QED
  BY <1>1, <1>2, <1>3, <1>4, <1>5

-----------------------------------------------------------------------------
(* The theorems                                                            *)

\* The executor has been initialised from the first file.
LEMMA InitInv == Init => ReloadingInv
<1> SUFFICES ASSUME Init PROVE ReloadingInv
  OBVIOUS
<1> USE DEF Init
<1>1. PICK b \in BOOLEAN :
        file = [stamp |-> 0, kind |-> "good", masking |-> b, watched |-> FALSE]
  OBVIOUS
<1>2. file \in Config /\ file.stamp = 0
  BY <1>1 DEF Config, Kind, Adoptable
<1>3. TypeOK
  <2>1. channel_manager_ \in Manager
    BY <1>2 DEF Manager, Sink, SinkFor
  <2>2. forward \in Seq(Message) /\ Len(forward) = 0
    OBVIOUS
  <2>3. record_queue_ \in Seq(SUBSET Message)
    OBVIOUS
  <2>4. /\ strategy_ \in Config /\ new_config = None /\ last_mod_time_ = 0
        /\ is_reloading_ = FALSE /\ watcher = "starting"
        /\ trigger = 0 /\ recorder = 0 /\ deliveries = {}
        /\ worker = "idle" /\ task = None /\ bag = {} /\ manifests = {}
        /\ alive = TRUE /\ received = 0 /\ triggered = 0
    BY <1>2
  <2> HIDE DEF Init
  <2>5. /\ deliveries \subseteq [from : Nat, to : Sink]
        /\ task \in (SUBSET Message) \cup {None} /\ bag \subseteq Message
    BY <2>4
  <2>6. manifests \subseteq [messages : SUBSET Message,
                           obfuscation_applied : BOOLEAN, stamp : Nat]
    BY <2>4
  <2>7. Len(forward) <= BufferCap
    BY <2>2, BoundAssumption
  <2> QED
    BY <1>2, <2>1, <2>2, <2>3, <2>4, <2>5, <2>6, <2>7 DEF TypeOK
<1>4. ReloadInv
  BY <1>2 DEF ReloadInv, Reloading
<1>5. ForwardInv
  BY <1>2 DEF ForwardInv, Newer
<1>6. MessageInv
  BY DEF MessageInv
<1>7. ManifestFitsStrategy
  BY DEF ManifestFitsStrategy
<1> QED
  BY <1>3, <1>4, <1>5, <1>6, <1>7 DEF ReloadingInv

\* Every step keeps the invariant: one lemma for each action.
LEMMA StepInv == ReloadingInv /\ [Next]_vars => ReloadingInv'
<1> SUFFICES ASSUME ReloadingInv, [Next]_vars PROVE ReloadingInv'
  OBVIOUS
<1>1. CASE UNCHANGED vars
  BY <1>1 DEF vars, ReloadingInv, TypeOK, ReloadInv, Reloading, ForwardInv,
              MessageInv, ManifestFitsStrategy
<1>2. CASE WatcherStep
  BY <1>2, StartWatcherKeeps, CheckChangedKeeps, LoadKeeps, BeginKeeps,
     DetachKeeps, AdoptKeeps, InitializeTriggerKeeps, ConfigureKeeps,
     ConnectKeeps, AttachKeeps DEF WatcherStep
<1>3. CASE WorkerStep
  BY <1>3, BeginRecordKeeps, WriteBagKeeps, WriteManifestKeeps DEF WorkerStep
<1>4. CASE \E d \in deliveries : Deliver(d)
  BY <1>4, DeliverKeeps
<1> QED
  BY <1>1, <1>2, <1>3, <1>4, EditKeeps, ReceiveKeeps, HandleTriggerKeeps
     DEF Next

\* The invariant holds in every state of every run.
LEMMA Invariant == Spec => []ReloadingInv
BY InitInv, StepInv, PTL DEF Spec

(* Every variable keeps its type for any capacity and any number of edits, *)
(* messages and triggers.                                                  *)
THEOREM TypeCorrect == Spec => []TypeOK
<1>1. ReloadingInv => TypeOK
  BY DEF ReloadingInv
<1> QED
  BY <1>1, Invariant, PTL

(* reloadConfig leaves the parts of one configuration, whichever of its    *)
(* returns it takes and whatever is received and recorded meanwhile.       *)
THEOREM PartsAgreeAlways == Spec => []PartsAgree
<1>1. ReloadingInv => PartsAgree
  BY DEF ReloadingInv, ReloadInv, Reloading, PartsAgree
<1> QED
  BY <1>1, Invariant, PTL

(* buildManifest's obfuscation_applied is right about the messages of the  *)
(* strategy it reads, for any interleaving of edits, reloads and records.  *)
THEOREM ManifestIsRight == Spec => []ManifestFitsStrategy
<1>1. ReloadingInv => ManifestFitsStrategy
  BY DEF ReloadingInv
<1> QED
  BY <1>1, Invariant, PTL

-----------------------------------------------------------------------------
(* Old data in the buffer                                                  *)

\* The callback group of a manager runs one callback at a time, and once the
\* buffers were cleared for a configuration no earlier manager begins one: a
\* message of an earlier manager is either still on its way or in the buffer.
OldDataInv ==
  /\ \A d, e \in deliveries : d.from = e.from => d = e
  /\ \A i \in DOMAIN forward : forward[i].from < recorder =>
       /\ \A j \in DOMAIN forward : forward[j].from = forward[i].from => i = j
       /\ \A d \in deliveries : d.from # forward[i].from

\* Put moves the messages of the buffer by at most one place.
LEMMA PutShifts ==
  ASSUME NEW m \in Message, forward \in Seq(Message),
         Len(forward) <= BufferCap
  PROVE  \E k \in {0, 1} :
           /\ k <= Len(forward)
           /\ DOMAIN Put(m) = 1 .. Len(forward) - k + 1
           /\ Put(m)[Len(forward) - k + 1] = m
           /\ \A i \in 1 .. Len(forward) - k : Put(m)[i] = forward[i + k]
<1>1. CASE Len(forward) < BufferCap
  <2>1. Put(m) = Append(forward, m)
    BY <1>1 DEF Put
  <2>2. /\ DOMAIN Append(forward, m) = 1 .. Len(forward) + 1
        /\ Append(forward, m)[Len(forward) + 1] = m
        /\ \A i \in 1 .. Len(forward) : Append(forward, m)[i] = forward[i]
        /\ Len(forward) \in Nat
    OBVIOUS
  <2> WITNESS 0 \in {0, 1}
  <2> QED
    BY <2>1, <2>2
<1>2. CASE Len(forward) = BufferCap
  <2>1. Put(m) = Append(Tail(forward), m)
    BY <1>2 DEF Put
  <2>2. /\ Tail(forward) \in Seq(Message) /\ Len(Tail(forward)) = Len(forward) - 1
        /\ Len(forward) \in Nat \ {0}
        /\ \A i \in 1 .. Len(forward) - 1 : Tail(forward)[i] = forward[i + 1]
    BY <1>2, BoundAssumption
  <2>3. /\ DOMAIN Append(Tail(forward), m) = 1 .. Len(forward)
        /\ Append(Tail(forward), m)[Len(forward)] = m
        /\ \A i \in 1 .. Len(forward) - 1 :
             Append(Tail(forward), m)[i] = Tail(forward)[i]
    BY <2>2
  <2> WITNESS 1 \in {0, 1}
  <2> QED
    BY <2>1, <2>2, <2>3
<1> QED
  BY <1>1, <1>2, BoundAssumption

\* A message that arrives is the only one of its manager if that is old.
LEMMA DeliverKeepsOld ==
  ASSUME ReloadingInv, OldDataInv, NEW d \in deliveries, Deliver(d)
  PROVE  OldDataInv'
<1> DEFINE m == [from |-> d.from, filtered |-> d.to = "filter"]
<1>1. /\ deliveries' = deliveries \ {d} /\ recorder' = recorder
      /\ forward' = forward \/ forward' = Put(m)
  BY DEF Deliver
<1>2. \A e \in deliveries' : e \in deliveries /\ e.from # d.from
  BY <1>1 DEF OldDataInv
<1>3. CASE forward' = forward
  BY <1>1, <1>3 DEF OldDataInv
<1>4. CASE forward' = Put(m)
  <2>1. m \in Message /\ forward \in Seq(Message) /\ Len(forward) <= BufferCap
    BY DEF ReloadingInv, TypeOK, Message
  <2>2. PICK k \in {0, 1} :
          /\ k <= Len(forward)
          /\ DOMAIN forward' = 1 .. Len(forward) - k + 1
          /\ forward'[Len(forward) - k + 1] = m
          /\ \A i \in 1 .. Len(forward) - k : forward'[i] = forward[i + k]
    BY <1>4, <2>1, PutShifts
  <2>3. m.from = d.from
    OBVIOUS
  <2> HIDE DEF m
  <2>4. /\ Len(forward) \in Nat /\ DOMAIN forward = 1 .. Len(forward)
        /\ \A i \in 1 .. Len(forward) - k : i + k \in DOMAIN forward
    BY <2>1, <2>2
  <2> DEFINE last == Len(forward) - k + 1
  <2>5. \A i \in DOMAIN forward' : i = last \/ i \in 1 .. Len(forward) - k
    BY <2>2, <2>4
  <2>6. ASSUME NEW i \in 1 .. Len(forward) - k, forward[i + k].from < recorder
        PROVE  /\ forward[i + k].from # d.from
               /\ \A j \in 1 .. Len(forward) - k :
                    forward[j + k].from = forward[i + k].from => i = j
               /\ \A e \in deliveries' : e.from # forward[i + k].from
    <3>1. \A j \in 1 .. Len(forward) - k : i + k = j + k => i = j
      BY <2>4
    <3> QED
      BY <1>1, <2>4, <2>6, <3>1 DEF OldDataInv
  <2>7. ASSUME NEW i \in DOMAIN forward', forward'[i].from < recorder'
        PROVE  /\ \A j \in DOMAIN forward' : forward'[j].from = forward'[i].from => i = j
               /\ \A e \in deliveries' : e.from # forward'[i].from
    <3>1. CASE i = last
      <4>1. forward'[i].from = d.from
        BY <2>2, <2>3, <3>1
      <4>2. ASSUME NEW j \in 1 .. Len(forward) - k PROVE forward'[j].from # d.from
        <5>1. forward'[j] = forward[j + k]
          BY <2>2
        <5> QED
          BY <1>1, <2>6, <2>7, <4>1, <5>1
      <4> QED
        BY <1>2, <2>5, <3>1, <4>1, <4>2
    <3>2. CASE i \in 1 .. Len(forward) - k
      <4>1. forward'[i] = forward[i + k] /\ forward[i + k].from < recorder
        BY <1>1, <2>2, <2>7, <3>2
      <4>2. forward'[last].from # forward'[i].from
        BY <2>2, <2>3, <2>6, <3>2, <4>1
      <4> QED
        BY <2>2, <2>5, <2>6, <3>2, <4>1, <4>2
    <3> QED
      BY <2>5, <3>1, <3>2
  <2>8. \A e, f \in deliveries' : e.from = f.from => e = f
    BY <1>1 DEF OldDataInv
  <2> QED
    BY <2>7, <2>8 DEF OldDataInv
<1> QED
  BY <1>1, <1>3, <1>4

\* Every step keeps the old data bounded.
LEMMA OldDataStep ==
  ASSUME ReloadingInv, OldDataInv, [Next]_vars
  PROVE  OldDataInv'
<1>1. CASE UNCHANGED <<deliveries, forward, recorder>>
  BY <1>1 DEF OldDataInv
<1>2. CASE Edit \/ StartWatcher \/ CheckChanged \/ Load \/ Begin \/ Detach
             \/ Adopt \/ UNCHANGED vars
  BY <1>1, <1>2
     DEF Edit, StartWatcher, CheckChanged, Load, Begin, Detach, Adopt, vars
<1>3. CASE InitializeTrigger \/ Connect \/ Attach \/ HandleTrigger
             \/ BeginRecord \/ WriteBag \/ WriteManifest
  BY <1>1, <1>3
     DEF InitializeTrigger, Connect, Attach, HandleTrigger, BeginRecord,
         WriteBag, WriteManifest
<1>4. CASE Configure
  <2>1. forward' = << >> /\ deliveries' = deliveries
    BY <1>4 DEF Configure
  <2>2. DOMAIN << >> = {}
    OBVIOUS
  <2> QED
    BY <2>1, <2>2 DEF OldDataInv
<1>5. CASE Receive
  <2> DEFINE d == [from |-> channel_manager_.stamp, to |-> channel_manager_.sink]
  <2>1. /\ channel_manager_ # None /\ UNCHANGED <<forward, recorder>>
        /\ deliveries' = deliveries \cup {d}
        /\ \A e \in deliveries : e.from # channel_manager_.stamp
    BY <1>5 DEF Receive
  <2>2. channel_manager_.stamp = recorder
    BY <2>1 DEF ReloadingInv, ReloadInv
  <2>3. d.from = recorder /\ recorder \in Nat
    BY <2>2 DEF ReloadingInv, TypeOK
  <2>4. \A e, f \in deliveries' : e.from = f.from => e = f
    BY <2>1, <2>2, <2>3 DEF OldDataInv
  <2> HIDE DEF d
  <2>5. \A i \in DOMAIN forward : forward[i].from < recorder => d.from # forward[i].from
    <3>1. \A i \in DOMAIN forward : forward[i] \in Message
      BY DEF ReloadingInv, TypeOK
    <3> QED
      BY <2>3, <3>1 DEF Message
  <2> QED
    BY <2>1, <2>4, <2>5 DEF OldDataInv
<1> QED
  BY <1>2, <1>3, <1>4, <1>5, DeliverKeepsOld DEF Next, WatcherStep, WorkerStep

(* The buffers are cleared once in a reload, while callbacks of the        *)
(* managers before are still under way: for any number of reloads no more  *)
(* than one message of each of them gets into the buffer after that.       *)
THEOREM OldDataIsBounded == Spec => []OldDataBounded
<1>1. Init => OldDataInv
  <2> SUFFICES ASSUME Init PROVE OldDataInv
    OBVIOUS
  <2>1. deliveries = {} /\ DOMAIN forward = {}
    BY DEF Init
  <2> QED
    BY <2>1 DEF OldDataInv
<1>2. ReloadingInv /\ OldDataInv /\ [Next]_vars => OldDataInv'
  BY OldDataStep
<1>3. ReloadingInv /\ OldDataInv => OldDataBounded
  <2> SUFFICES ASSUME ReloadingInv, OldDataInv, NEW stamp \in 0 .. recorder - 1
               PROVE  Cardinality({i \in DOMAIN forward : forward[i].from = stamp}) <= 1
    BY DEF OldDataBounded
  <2> DEFINE S == {i \in DOMAIN forward : forward[i].from = stamp}
  <2>1. recorder \in Nat /\ stamp < recorder
    BY DEF ReloadingInv, TypeOK
  <2>2. CASE S = {}
    <3>1. Cardinality(S) = 0
      BY <2>2, FS_EmptySet
    <3> QED
      BY <3>1
  <2>3. CASE S # {}
    <3>1. PICK i : i \in S
      BY <2>3
    <3>2. S = {i}
      BY <2>1, <3>1 DEF OldDataInv
    <3>3. Cardinality(S) = 1
      BY <3>2, FS_Singleton
    <3> QED
      BY <3>3
  <2> QED
    BY <2>2, <2>3
<1> QED
  BY <1>1, <1>2, <1>3, Invariant, PTL DEF Spec

-----------------------------------------------------------------------------
(* The replacement of the strategy                                         *)

USE DEF Replacement!Newer

\* What becomes the strategy is a content of the file that can be in force,
\* at least as new as the one before.
AdoptedInv ==
  /\ strategy_.kind \in Adoptable /\ Replacement!Newer(file, strategy_)
  /\ watcher \in {"begin", "detach", "adopt"} =>
       /\ new_config.kind # "unusable"
       /\ Replacement!Newer(file, new_config)
       /\ Replacement!Newer(new_config, strategy_)
  /\ watcher \in {"detach", "adopt"} => new_config.kind \in Adoptable

\* Nothing but the watcher touches the configurations.
LEMMA AdoptedRest ==
  ASSUME AdoptedInv, UNCHANGED <<file, new_config, strategy_>>,
         watcher' = watcher \/ watcher' \notin {"begin", "detach", "adopt"}
  PROVE  AdoptedInv'
BY DEF AdoptedInv

\* Every step keeps it.
LEMMA AdoptedStep ==
  ASSUME ReloadingInv, AdoptedInv, [Next]_vars
  PROVE  AdoptedInv'
<1>1. /\ file \in Config /\ strategy_ \in Config /\ file.stamp \in Nat
      /\ strategy_.stamp \in Nat
      /\ new_config \in Config => new_config.stamp \in Nat
      /\ watcher \in {"begin", "detach", "adopt"} => new_config \in Config
  BY DEF ReloadingInv, TypeOK, ForwardInv, Config
<1>2. CASE Edit
  <2>1. /\ file'.stamp = file.stamp + 1
        /\ UNCHANGED <<new_config, strategy_, watcher>>
    BY <1>2 DEF Edit
  <2> QED
    BY <1>1, <2>1 DEF AdoptedInv
<1>3. CASE Load
  BY <1>1, <1>3 DEF Load, GoTo, AdoptedInv
<1>4. CASE Begin
  <2>1. /\ UNCHANGED <<file, new_config, strategy_>> /\ watcher = "begin"
        /\ watcher' = "sleeping" \/ (watcher' = "detach" /\ new_config.kind # "disabled")
    BY <1>4 DEF Begin, GoTo, Leave
  <2>2. new_config.kind \in Kind
    BY <1>1, <2>1 DEF Config
  <2> QED
    BY <2>1, <2>2 DEF AdoptedInv, Kind
<1>5. CASE Detach
  BY <1>5 DEF Detach, GoTo, AdoptedInv
<1>6. CASE Adopt
  BY <1>1, <1>6 DEF Adopt, GoTo, AdoptedInv
<1>7. CASE \/ StartWatcher \/ CheckChanged \/ InitializeTrigger \/ Configure
           \/ Connect \/ Attach
  <2>1. /\ UNCHANGED <<file, new_config, strategy_>>
        /\ watcher' \notin {"begin", "detach", "adopt"}
    BY <1>7 DEF StartWatcher, CheckChanged, InitializeTrigger, Configure,
                Connect, Attach, GoTo, Leave
  <2> QED
    BY <2>1, AdoptedRest
<1>8. CASE \/ Receive \/ (\E d \in deliveries : Deliver(d)) \/ HandleTrigger
           \/ WorkerStep \/ UNCHANGED vars
  <2>1. UNCHANGED <<file, new_config, strategy_, watcher>>
    BY <1>8 DEF Receive, Deliver, HandleTrigger, WorkerStep, BeginRecord,
                WriteBag, WriteManifest, vars
  <2> QED
    BY <2>1, AdoptedRest
<1> QED
  BY <1>2, <1>3, <1>4, <1>5, <1>6, <1>7, <1>8 DEF Next, WatcherStep

\* Outside reloadConfig no part changes, and the process may end.
LEMMA PartsKept ==
  ASSUME UNCHANGED <<file, partVars>>, alive' => alive
  PROVE  [Replacement!Next]_Replacement!vars
<1>1. Flow' = Flow
  BY DEF Flow
<1> QED
  BY <1>1 DEF Replacement!Next, Replacement!vars

\* Detach stops the flow, Adopt replaces the strategy, Attach lets the data
\* flow again, and everything between them happens while nothing flows.
LEMMA ReplacementStep ==
  ASSUME ReloadingInv, AdoptedInv, [Next]_vars
  PROVE  [Replacement!Next]_Replacement!vars
<1> USE DEF ReloadingInv
<1>1. CASE Edit
  <2>1. /\ file' \in Config /\ file'.stamp > file.stamp
        /\ UNCHANGED <<partVars, alive>>
    BY <1>1 DEF Edit, TypeOK, Config, Kind
  <2>2. Flow' = Flow
    BY <2>1 DEF Flow
  <2> QED
    BY <2>1, <2>2 DEF Replacement!Next, Replacement!Edit
<1>2. CASE Detach
  <2>1. /\ alive /\ channel_manager_' = None
        /\ UNCHANGED <<file, strategy_>>
    BY <1>2 DEF Detach
  <2>2. Flow' = None
    BY <2>1 DEF Flow
  <2> QED
    BY <2>1, <2>2 DEF Replacement!Next, Replacement!Stop
<1>3. CASE Adopt
  <2>1. /\ alive /\ alive' = alive /\ watcher = "adopt"
        /\ strategy_' = new_config /\ UNCHANGED <<file, channel_manager_>>
    BY <1>3 DEF Adopt
  <2>2. Flow = None /\ Flow' = None
    BY <2>1 DEF Flow, ReloadInv
  <2>3. /\ new_config \in Config /\ new_config.kind \in Adoptable
        /\ Replacement!Newer(file, new_config)
        /\ Replacement!Newer(new_config, strategy_)
    BY <2>1 DEF AdoptedInv, ForwardInv
  <2> QED
    BY <2>1, <2>2, <2>3 DEF Replacement!Next, Replacement!Replace
<1>4. CASE InitializeTrigger \/ Configure \/ Connect
  <2>1. /\ alive /\ channel_manager_ = None /\ UNCHANGED <<file, strategy_>>
        /\ \/ channel_manager_' = None
           \/ channel_manager_' = [stamp |-> strategy_.stamp, sink |-> "nowhere"]
    BY <1>4 DEF InitializeTrigger, Configure, Connect, ReloadInv
  <2>2. Flow = None /\ Flow' = None
    BY <2>1 DEF Flow
  <2> QED
    BY <2>1, <2>2 DEF Replacement!Next
<1>5. CASE Attach
  <2>1. /\ alive /\ watcher = "attach"
        /\ channel_manager_' = [channel_manager_ EXCEPT !.sink = SinkFor(strategy_)]
        /\ UNCHANGED <<file, strategy_, trigger, recorder>>
    BY <1>5 DEF Attach
  <2>2. /\ channel_manager_ \in Manager
        /\ channel_manager_.stamp = strategy_.stamp
        /\ channel_manager_.sink \in {"nowhere", SinkFor(strategy_)}
        /\ trigger = strategy_.stamp /\ recorder = strategy_.stamp
    BY <2>1, NoneAssumption DEF ReloadInv, TypeOK
  <2>3. /\ channel_manager_'.stamp = strategy_.stamp
        /\ channel_manager_'.sink = SinkFor(strategy_)
        /\ channel_manager_' # None
    <3>1. /\ channel_manager_' \in Manager
          /\ channel_manager_'.stamp = strategy_.stamp
          /\ channel_manager_'.sink = SinkFor(strategy_)
      BY <2>1, <2>2 DEF Manager, SinkFor, Sink
    <3> QED
      BY <3>1, NoneAssumption
  <2>4. Flow' = Replacement!Under(strategy_)
    BY <2>1, <2>2, <2>3 DEF Flow, SinkFor, Replacement!Under
  <2>5. CASE Flow = None
    BY <2>1, <2>4, <2>5 DEF Replacement!Next, Replacement!Resume
  <2>6. CASE Flow # None
    <3>1. channel_manager_ # None /\ channel_manager_.sink = SinkFor(strategy_)
      BY <2>2, <2>6 DEF Flow
    <3>2. Flow = Replacement!Under(strategy_)
      BY <2>2, <3>1, NoneAssumption DEF Flow, SinkFor, Replacement!Under
    <3> QED
      BY <2>1, <2>4, <3>2 DEF Replacement!Next
  <2> QED
    BY <2>5, <2>6
<1>6. CASE \/ StartWatcher \/ CheckChanged \/ Load \/ Begin \/ Receive
           \/ HandleTrigger \/ WorkerStep \/ UNCHANGED vars
  <2>1. UNCHANGED <<file, partVars, alive>>
    BY <1>6 DEF StartWatcher, CheckChanged, Load, Begin, Receive,
                HandleTrigger, WorkerStep, BeginRecord, WriteBag,
                WriteManifest, vars
  <2> QED
    BY <2>1, PartsKept
<1>7. CASE \E d \in deliveries : Deliver(d)
  <2>1. UNCHANGED <<file, partVars>> /\ alive
    BY <1>7 DEF Deliver
  <2> QED
    BY <2>1, PartsKept
<1> QED
  BY <1>1, <1>2, <1>3, <1>4, <1>5, <1>6, <1>7 DEF Next, WatcherStep

(* Seen from the data that comes in, the sequence of calls in reloadConfig *)
(* with all its ways out is one replacement: the strategy changes only     *)
(* while nothing new flows, never back to an older edit and never to one   *)
(* that cannot be in force, and what flows goes through parts of one       *)
(* strategy, with the filter exactly if it asks for masking.               *)
THEOREM ImplementsReplacementSafety == Spec => Replacement!Safety
<1>1. Init => AdoptedInv /\ Replacement!Init
  <2> SUFFICES ASSUME Init PROVE AdoptedInv /\ Replacement!Init
    OBVIOUS
  <2>1. /\ file \in Config /\ file.kind = "good" /\ file.stamp = 0
        /\ strategy_ = file /\ trigger = 0 /\ recorder = 0 /\ alive = TRUE
        /\ watcher = "starting"
        /\ channel_manager_ = [stamp |-> 0, sink |-> SinkFor(file)]
    BY DEF Init, Config, Kind, Adoptable
  <2>2. AdoptedInv
    <3>1. strategy_.kind \in Adoptable
      BY <2>1 DEF Adoptable
    <3>2. Replacement!Newer(file, strategy_)
      BY <2>1
    <3> QED
      BY <2>1, <3>1, <3>2 DEF AdoptedInv
  <2>3. channel_manager_ # None /\ channel_manager_.sink # "nowhere"
    BY <2>1, NoneAssumption DEF Manager, Sink, SinkFor
  <2>4. Flow = Replacement!Under(file)
    BY <2>1, <2>3 DEF Flow, Replacement!Under, SinkFor
  <2> QED
    BY <2>1, <2>2, <2>4 DEF Replacement!Init, Adoptable
<1> QED
  BY <1>1, Invariant, AdoptedStep, ReplacementStep, PTL
     DEF Spec, Replacement!Safety
=============================================================================
