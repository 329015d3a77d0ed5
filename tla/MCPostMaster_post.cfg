CONSTANTS
    Types = {t1}
    Subscribers = {s1, s2}
    FirstRoom = 2
    ListLimit = 2
    SendLimit = 3
    TellLimit = 2
    DepthLimit = 2
SPECIFICATION FairPostSpec
INVARIANTS PostMasterInv ToldInOrder
PROPERTIES DelayedArrive
