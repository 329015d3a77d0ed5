------------------------------ MODULE Navmesh ------------------------------
(***************************************************************************)
(* Path finding on a navigation mesh: Navmesh::Load                        *)
(* (Engine/Navmesh.cpp) builds triangles that know their edges and edges   *)
(* that know their triangles, Navmesh::CalculatePath                       *)
(* (Engine/NavmeshPath.cpp) searches from one triangle to another, best    *)
(* node first, and walks back along the predecessors.  A step is a line of *)
(* the file, a turn of the search's loop, or a turn of the loop of         *)
(* FindRouteBack.                                                          *)
(*                                                                         *)
(* Points of triangles matter only through the heuristic, a distance in    *)
(* thousandths that is cut to an integer: any numbers.  The order of the   *)
(* list of open nodes decides which of several best ones is taken: any.    *)
(* Indices count from 1 here.  Fast is never set, so every triangle is     *)
(* Passable.                                                               *)
(*                                                                         *)
(* Operators that describe a faulty variant stand before the one they      *)
(* would replace; they are no part of the specification.                   *)
(***************************************************************************)
EXTENDS Integers, Sequences, FiniteSets

CONSTANTS Triangle,    \* a triangle of the file: the set of its vertices
          Files,       \* what a file may hold: a sequence of triangles
          Distances    \* what GetHeuristic may return

ASSUME FilesAssumption == \A f \in Files : f \in Seq(Triangle)
ASSUME DistancesAssumption == Distances \subseteq Nat

VARIABLES
    file,            \* that Load reads
    myTriangleList,  \* a triangle is the set of its vertices
    myEdgeList,      \* two indices of triangles for every edge; an edge is
                     \* the set of its vertices, as operator== sees it
    phase,           \* "load", "idle", or where CalculatePath is:
                     \* "search", "back"
    start, end,      \* the arguments
    heuristic,       \* of every triangle, for this end
    g, predecessor,  \* of the nodes that have one; the g of the others is
                     \* the largest int, their predecessor is -1
    open, closed,    \* nodes
    route            \* what FindRouteBack has found, in the order it returns

meshVars == <<file, myTriangleList, myEdgeList>>
callVars == <<start, end, heuristic>>
nodeVars == <<g, predecessor, open, closed>>
vars == <<meshVars, phase, callVars, nodeVars, route>>

EdgesOf(t) == {e \in SUBSET t : Cardinality(e) = 2}
Triangles == DOMAIN myTriangleList
None == 0

Init ==
    /\ file \in Files
    /\ myTriangleList = <<>>
    /\ myEdgeList = [e \in {} |-> <<None, None>>]
    /\ phase = "load"
    /\ start = None /\ end = None
    /\ heuristic = <<>>
    /\ g = <<>> /\ predecessor = <<>>
    /\ open = {} /\ closed = {}
    /\ route = <<>>

-----------------------------------------------------------------------------
(* Load. *)

\* Faulty variant: the second triangle takes the first one's place.
OneSided(i, t) ==
    [e \in DOMAIN myEdgeList \cup EdgesOf(t) |->
        IF e \in EdgesOf(t) THEN <<i, None>> ELSE myEdgeList[e]]

\* A new edge gets the triangle in the first place, a known one in the
\* second, whoever was there.
WithTriangle(i, t) ==
    [e \in DOMAIN myEdgeList \cup EdgesOf(t) |->
        IF e \notin EdgesOf(t) THEN myEdgeList[e]
        ELSE IF e \in DOMAIN myEdgeList THEN <<myEdgeList[e][1], i>>
        ELSE <<i, None>>]

LoadTriangle ==
    /\ phase = "load"
    /\ Len(myTriangleList) < Len(file)
    /\ LET i == Len(myTriangleList) + 1
       IN  /\ myEdgeList' = WithTriangle(i, file[i])
           /\ myTriangleList' = Append(myTriangleList, file[i])
    /\ UNCHANGED <<file, phase, callVars, nodeVars, route>>

EndOfFile ==
    /\ phase = "load"
    /\ Len(myTriangleList) = Len(file)
    /\ phase' = "idle"
    /\ UNCHANGED <<meshVars, callVars, nodeVars, route>>

-----------------------------------------------------------------------------
(* CalculatePath. *)

\* The first triangle of the edge that is another one, if there is one.
Across(i, e) ==
    {j \in {myEdgeList[e][1], myEdgeList[e][2]} :
        /\ j \notin {None, i}
        /\ j = myEdgeList[e][1] \/ myEdgeList[e][1] = i}

Adjacent(i) == UNION {Across(i, e) : e \in EdgesOf(myTriangleList[i])}

Passable == 2
F(i) == g[i] + heuristic[i]

\* GetTriangleIndex finds one, or none; with an index of -1 the path is
\* empty and nothing is searched.
CalculatePath(s, e, h) ==
    /\ phase = "idle"
    /\ h[e] = 0                     \* the distance of a point to itself
    /\ phase' = "search"
    /\ start' = s /\ end' = e /\ heuristic' = h
    /\ g' = [i \in {s} |-> 0]
    /\ predecessor' = [i \in {} |-> None]
    /\ open' = {s} /\ closed' = {}
    /\ route' = <<>>
    /\ UNCHANGED meshVars

BestNode(i) == i \in open /\ \A j \in open : F(i) =< F(j)

\* Faulty variant: closed nodes are judged again, and the dearer way is
\* taken as well.
AnyAdjacent(i) == Adjacent(i)

\* The adjacent nodes that are reached for the first time, or cheaper.
Improved(i) ==
    {j \in Adjacent(i) \ (closed \cup {i}) :
        j \in DOMAIN g => g[i] + Passable < g[j]}

\* Faulty variant: closed nodes are opened again.
Reopened(i) == Adjacent(i)

Reached(i) == Adjacent(i) \ (closed \cup {i})

\* A turn of the loop that does not end it.
Expand(i) ==
    /\ phase = "search"
    /\ BestNode(i)
    /\ i # end
    /\ closed' = closed \cup {i}
    /\ open' = (open \ {i}) \cup Reached(i)
    /\ g' = [j \in DOMAIN g \cup Improved(i) |->
                IF j \in Improved(i) THEN g[i] + Passable ELSE g[j]]
    /\ predecessor' = [j \in DOMAIN predecessor \cup Improved(i) |->
                          IF j \in Improved(i) THEN i ELSE predecessor[j]]
    /\ UNCHANGED <<meshVars, phase, callVars, route>>

EndIsBest == open = {} \/ BestNode(end)

\* The end is the best node, or no node is left.  FindRouteBack returns an
\* empty list at once if the end has no predecessor.
StopSearch ==
    /\ phase = "search"
    /\ EndIsBest
    /\ IF end \in DOMAIN predecessor
         THEN phase' = "back" /\ route' = <<end>>
         ELSE phase' = "idle" /\ route' = <<>>
    /\ UNCHANGED <<meshVars, callVars, nodeVars>>

FindRouteBack ==
    /\ phase = "back"
    /\ IF Head(route) \in DOMAIN predecessor
         THEN /\ route' = <<predecessor[Head(route)]>> \o route
              /\ phase' = phase
         ELSE phase' = "idle" /\ route' = route
    /\ UNCHANGED <<meshVars, callVars, nodeVars>>

Search == StopSearch \/ FindRouteBack \/ \E i \in Triangles : Expand(i)

Next ==
    \/ LoadTriangle
    \/ EndOfFile
    \/ Search
    \/ \E s, e \in Triangles, h \in [Triangles -> Distances] :
           CalculatePath(s, e, h)

Spec == Init /\ [][Next]_vars

\* The program's loops go on.
FairSpec == Spec /\ WF_vars(Search)

-----------------------------------------------------------------------------

TypeOK ==
    /\ file \in Files
    /\ myTriangleList \in Seq(Triangle)
    /\ Len(myTriangleList) \in 0..Len(file)
    /\ \A i \in Triangles : myTriangleList[i] = file[i]
    /\ phase # "load" => myTriangleList = file
    /\ \A e \in DOMAIN myEdgeList :
           myEdgeList[e] \in Triangles \X (Triangles \cup {None})
    /\ phase \in {"load", "idle", "search", "back"}
    /\ {start, end} \subseteq Triangles \cup {None}
    /\ phase \in {"search", "back"} =>
           /\ {start, end} \subseteq Triangles
           /\ heuristic \in [Triangles -> Distances]
    /\ open \subseteq Triangles /\ closed \subseteq Triangles
    /\ DOMAIN g \subseteq Triangles
    /\ \A i \in DOMAIN g : g[i] \in Nat
    /\ DOMAIN predecessor \subseteq Triangles
    /\ \A i \in DOMAIN predecessor : predecessor[i] \in Triangles
    /\ route \in Seq(Triangles)

\* Two triangles of the file that share an edge.
Neighbours(i, j) ==
    i # j /\ EdgesOf(myTriangleList[i]) \cap EdgesOf(myTriangleList[j]) # {}

\* No edge belongs to three triangles.
Flat ==
    \A i, j, k \in Triangles :
        i # j /\ j # k /\ i # k =>
            EdgesOf(myTriangleList[i]) \cap EdgesOf(myTriangleList[j])
                \cap EdgesOf(myTriangleList[k]) = {}

\* Triangles one can walk to: those in every region that holds s and lets
\* nobody out.
Reachable(s, e) ==
    \A region \in SUBSET Triangles :
        /\ s \in region
        /\ \A i \in region, j \in Triangles : Neighbours(i, j) => j \in region
        => e \in region

\* FindRouteBack (NavmeshPath.cpp:85): predecessors are changed while the
\* search goes on.  They never lead back to a triangle already passed, so
\* the loop ends, and the route is a walk over shared edges from the start
\* to the end.
RouteIsWalk ==
    /\ phase = "back" => route # <<>>
    /\ route # <<>> =>
           /\ route[Len(route)] = end
           /\ phase = "idle" => route[1] = start
           /\ \A i, j \in DOMAIN route : i # j => route[i] # route[j]
           /\ \A i \in 1..Len(route) - 1 : Neighbours(route[i], route[i + 1])

\* The search stays within the mesh and its routes are walks to the end
\* (NavmeshPath.cpp:85-104, 139-202).
NavmeshInv == TypeOK /\ RouteIsWalk

\* CalculatePath (NavmeshPath.cpp:106), on the edges Load has built
\* (Navmesh.cpp:95): a route is found exactly if one can walk from the start
\* to the end, and is not there already.  An edge has room for two
\* triangles: with three, a route is still only found where there is one.
RouteIsFound ==
    phase = "idle" /\ start # None =>
        /\ route # <<>> => Reachable(start, end) /\ start # end
        /\ Flat /\ start # end /\ Reachable(start, end) => route # <<>>

\* The loops of CalculatePath (NavmeshPath.cpp:139) and FindRouteBack
\* (NavmeshPath.cpp:93) have no bound of their own: every search ends.
SearchEnds == phase = "search" ~> phase = "idle"
=============================================================================
