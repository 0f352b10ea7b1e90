CONSTANTS
    Threads = 0
    MaxTasks = 3
SPECIFICATION FairSpec
INVARIANTS TypeOK References DependenciesFirst NoCircularWait
PROPERTIES ImplementsTaskPool WaitReturns
CHECK_DEADLOCK FALSE
