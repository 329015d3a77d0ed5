SPECIFICATION PartSpec
CONSTANTS
    menu = menu
    nodes = nodes
    start = start
    next = next
    Scripts = {menu, nodes}
    Nodes = {start, next}
    Events = {event}
    NodeScriptOf <- MCNodeScriptOf
    Wirings <- MCWirings
    MayBroadcast = TRUE
    MayLose = TRUE
    NoNode = NoNode
    DepthLimit = 3
    ListLimit = 2
    TellLimit = 1
    Kinds = {"StartNode", "source", "action"}
    Count = 3
    Rooms = {2, 3}
    Nothing = Nothing
    StartKind = "StartNode"
    PinsIn <- MCPinsIn
    PinsOut <- MCPinsOut
    Files <- MCFiles
INVARIANTS
     ListenersInOrder 
