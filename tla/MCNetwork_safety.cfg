CONSTANTS
    a = a
    b = b
    c = c
    Server = Server
    NoAddress = NoAddress
    Clients = {a, b, c}
    Lossy = FALSE
    ServerLimit = 5
    ClientLimit = 3
    Bounds <- TogetherOrAlone
SPECIFICATION Spec
SYMMETRY ThreeClients
INVARIANTS NetworkInv HandledOnce
PROPERTIES ConfirmedIsRecorded
