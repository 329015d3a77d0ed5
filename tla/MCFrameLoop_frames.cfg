SPECIFICATION FairFrameSpec
CONSTANTS
    main = main
    ThreadCount = 2
    Capacity = 3
    Clients = {main}
    FirstIDs <- ZeroFirst
    LastID = 6
    CullingTasks = 1
    MaxFrames = 2
    DividedFrames = 1
INVARIANTS
    FrameInv
    BuffersApart
 
