SPECIFICATION FairSpec
CONSTANTS
    ThreadCount = 2
    Capacity = 2
    Clients = {main}
    FirstIDs <- NegativeFirst
    LastID = 1
INVARIANTS
    ThreadpoolInv
    QuietAfterDestroy
PROPERTIES
    SyncCoversRunningTasks
    ImplementsTaskPool
    EveryTaskReturns
    CallsReturn
