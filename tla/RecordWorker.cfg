CONSTANTS
  Task = {t1, t2, t3}
  NoTask = NoTask
SPECIFICATION FairSpec
INVARIANTS TypeOK EachTaskOnce RepliedIsKept
PROPERTIES ImplementsService QueuedIsRecorded
CHECK_DEADLOCK FALSE
