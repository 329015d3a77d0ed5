SPECIFICATION Spec
CONSTANTS
    model = model
    tag = tag
    Types <- TwoTypes
    Amount <- SmallAmount
    UpdatedTypes <- TwoTypes
    ObjectAmount = 3
    ConstantObjectAmount = 1
    MaxObjectAmount = 3
    Reservations = {2}
    ActiveFirst = TRUE
    InstanceLimit = 2
INVARIANTS
    ComponentManagerInv
    
PROPERTIES
    ImplementsObjectStore
    SteadyComponentsUpdated
