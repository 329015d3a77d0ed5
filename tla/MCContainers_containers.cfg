SPECIFICATION PartSpec
CONSTANTS
    none = none
    a = a
    b = b
    c = c
    null = null
    one = one
    Capacity = 3
    Keys = {none, a, b, c}
    EmptyKey = none
    Hash <- SmallHash
    Values = {null, one}
    Null = null
    Nothing = Nothing
    NoObject = NoObject
    Objects = {a, b}
    InitCapacity = 2
    ShiftAvoided = TRUE
    SizeLimit = 7
INVARIANTS
    HashMapInv
    
PROPERTIES
    ImplementsDictionary
    
