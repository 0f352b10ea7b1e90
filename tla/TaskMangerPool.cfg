CONSTANTS
    Threads = 1
    MaxTasks = 3
SPECIFICATION FairSpec
INVARIANTS OnePlace References NoLostWakeup NoQueueRace
PROPERTIES ImplementsTaskPool WaitReturns PoolServes
CHECK_DEADLOCK FALSE
