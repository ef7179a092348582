SPECIFICATION FairSpec
CONSTANTS
  Worker = {w1, w2}
  Client = {c1, c2}
  QueueLimit = 1
  MaxTasks = 3
PROPERTY
  ImplementsService
CHECK_DEADLOCK FALSE
