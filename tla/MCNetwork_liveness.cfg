CONSTANTS
    a = a
    b = b
    c = c
    Server = Server
    NoAddress = NoAddress
    Clients = {a}
    Lossy = TRUE
    ServerLimit = 2
    ClientLimit = 2
    Bounds <- Quietly
SPECIFICATION FairSpec
PROPERTIES JoinSucceeds 
