SPECIFICATION Spec
CONSTANTS
    main = main
    a = a
    b = b
    wall = wall
    man = man
    door = door
    tree = tree
    Callers = {main}
    Instances = {a, b}
    Owner <- OneOwner
    Paths = {tree}
    Kind <- EachKind
    FirstPaths <- SamePath
    MayFail = FALSE
    QueueLimit = 2
    CountModulus = 16
    UserLimit = 2
    Tolerated = {}
    NoModel = NoModel
    NoCaller = NoCaller
CHECK_DEADLOCK FALSE
INVARIANTS UnloadFindsModel
