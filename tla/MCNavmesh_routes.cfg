SPECIFICATION FairSpec
CONSTANTS
    Triangle <- AllTriangles
    Files <- RouteFiles
    Distances = {0, 3}
INVARIANTS NavmeshInv RouteIsFound
PROPERTIES SearchEnds
CHECK_DEADLOCK FALSE
