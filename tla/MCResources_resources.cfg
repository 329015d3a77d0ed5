SPECIFICATION PartSpec
CONSTANTS
    Sprites = {icon}
    Models = {tree}
    Instances = {a, b, c}
    MayDraw = TRUE
    CountModulus = 16
    Nothing = Nothing
    Textured = {m1, m2, m3}
    Loader = Loader
    NoThread = NoThread
    TextureLimit = 4
    Recorded = {m1, m2}
    Places = {"here", "there"}
    FrameTimes = {1, 2}
    FrameLimit = 3
INVARIANTS RenderUsersInv   
CHECK_DEADLOCK FALSE
