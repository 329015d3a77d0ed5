--------------------------- MODULE Navmesh_proofs ---------------------------
(***************************************************************************)
(* Theorems about path finding, for every mesh and whatever the heuristic  *)
(* says: a route is a walk to the end, and is found if there is one.       *)
(***************************************************************************)
EXTENDS Navmesh, TLAPS

\* An edge knows triangles it belongs to, two if it belongs to two.
EdgeInv ==
    /\ \A i \in Triangles : EdgesOf(myTriangleList[i]) \subseteq DOMAIN myEdgeList
    /\ \A e \in DOMAIN myEdgeList :
           /\ e \in EdgesOf(myTriangleList[myEdgeList[e][1]])
           /\ myEdgeList[e][2] # None =>
                  /\ e \in EdgesOf(myTriangleList[myEdgeList[e][2]])
                  /\ myEdgeList[e][1] # myEdgeList[e][2]
    /\ \A i \in Triangles : \A e \in EdgesOf(myTriangleList[i]) :
           myEdgeList[e][2] = None => myEdgeList[e][1] = i

\* While the file is read nothing has been searched.
LoadInv ==
    phase = "load" =>
        /\ start = None /\ end = None
        /\ DOMAIN g = {} /\ DOMAIN predecessor = {}
        /\ open = {} /\ closed = {} /\ route = <<>>

\* Predecessors are closed, cheaper, and share an edge; only the start has
\* none.
NodeInv ==
    /\ open \cap closed = {} /\ open \cup closed = DOMAIN g
    /\ start # None => start \in DOMAIN g /\ g[start] = 0
    /\ DOMAIN predecessor = DOMAIN g \ {start}
    /\ \A j \in DOMAIN predecessor :
           /\ predecessor[j] \in closed
           /\ g[predecessor[j]] < g[j]
           /\ Neighbours(predecessor[j], j)

\* The closed nodes have been left in every direction, but never through the
\* end.
ClosedInv ==
    /\ end \notin closed
    /\ \A i \in closed : Adjacent(i) \subseteq DOMAIN g

Region(region) ==
    /\ region \subseteq Triangles
    /\ start \in region
    /\ \A i \in region, j \in Triangles : Neighbours(i, j) => j \in region

\* Whatever holds the start and lets nobody out holds all that was reached.
RegionInv == \A region \in SUBSET Triangles : Region(region) => DOMAIN g \subseteq region

\* The route grows at its front by ever cheaper nodes.
RouteInv ==
    /\ phase = "search" => route = <<>>
    /\ phase = "back" => route # <<>>
    /\ phase = "idle" /\ start # None /\ route = <<>> => start = end \/ open = {}
    /\ route # <<>> =>
           /\ end \in DOMAIN predecessor
           /\ route[Len(route)] = end
           /\ phase = "idle" => route[1] = start
           /\ \A i \in DOMAIN route : route[i] \in DOMAIN g
           /\ \A i, j \in DOMAIN route : i < j => g[route[i]] < g[route[j]]
           /\ \A i \in 1..Len(route) - 1 : Neighbours(route[i], route[i + 1])

\* The inductive invariant.
IInv == TypeOK /\ EdgeInv /\ LoadInv /\ NodeInv /\ ClosedInv /\ RegionInv /\ RouteInv

-----------------------------------------------------------------------------
(***************************************************************************)
(* The edges                                                               *)
(***************************************************************************)

\* The search only goes to triangles that share an edge.
LEMMA AdjacentIsNeighbour ==
    ASSUME TypeOK, EdgeInv, NEW i \in Triangles, NEW j \in Adjacent(i)
    PROVE  j \in Triangles /\ Neighbours(i, j)
  <1>1. PICK e \in EdgesOf(myTriangleList[i]) : j \in Across(i, e)
    BY DEF Adjacent
  <1>2. e \in DOMAIN myEdgeList
    BY DEF EdgeInv
  <1>3. j \in {myEdgeList[e][1], myEdgeList[e][2]} /\ j # None /\ j # i
    BY <1>1 DEF Across
  <1>4. j \in Triangles
    BY <1>2, <1>3 DEF TypeOK
  <1>5. e \in EdgesOf(myTriangleList[j])
    BY <1>2, <1>3 DEF EdgeInv
  <1>6. QED
    BY <1>3, <1>4, <1>5 DEF Neighbours

\* If no edge has three triangles, it goes to all of them.
LEMMA NeighbourIsAdjacent ==
    ASSUME TypeOK, EdgeInv, Flat, NEW i \in Triangles, NEW j \in Triangles,
           Neighbours(i, j)
    PROVE  j \in Adjacent(i)
  <1>1. i # j
    BY DEF Neighbours
  <1>2. PICK e : e \in EdgesOf(myTriangleList[i]) /\ e \in EdgesOf(myTriangleList[j])
    BY DEF Neighbours
  <1> DEFINE a == myEdgeList[e][1]
             b == myEdgeList[e][2]
  <1>3. e \in DOMAIN myEdgeList
    BY <1>2 DEF EdgeInv
  <1>4. b # None
    BY <1>1, <1>2 DEF EdgeInv
  <1>5. a \in Triangles /\ b \in Triangles
    BY <1>3, <1>4 DEF TypeOK
  <1>6. a # b /\ e \in EdgesOf(myTriangleList[a]) /\ e \in EdgesOf(myTriangleList[b])
    BY <1>3, <1>4 DEF EdgeInv
  <1>7. \A k \in Triangles : e \in EdgesOf(myTriangleList[k]) => k = i \/ k = j
    BY <1>1, <1>2 DEF Flat
  <1>8. (a = i /\ b = j) \/ (a = j /\ b = i)
    BY <1>5, <1>6, <1>7
  <1>9. j # None
    BY DEF TypeOK, Triangles, None
  <1>10. j \in Across(i, e)
    BY <1>1, <1>8, <1>9 DEF Across
  <1>11. QED
    BY <1>2, <1>10 DEF Adjacent

LEMMA LoadKeepsEdges ==
    ASSUME TypeOK, EdgeInv, LoadTriangle
    PROVE  /\ EdgeInv'
           /\ myTriangleList' \in Seq(Triangle)
           /\ Len(myTriangleList') \in 0..Len(file)
           /\ \A i \in Triangles' : myTriangleList'[i] = file[i]
           /\ \A e \in DOMAIN myEdgeList' :
                  myEdgeList'[e] \in Triangles' \X (Triangles' \cup {None})
  <1> DEFINE n == Len(myTriangleList) + 1
             t == file[n]
  <1>1. /\ Len(myTriangleList) \in Nat
        /\ DOMAIN myTriangleList = 1..Len(myTriangleList)
        /\ n \in 1..Len(file) /\ t \in Triangle
    <2>1. file \in Seq(Triangle) /\ myTriangleList \in Seq(Triangle)
      BY FilesAssumption DEF TypeOK
    <2>2. QED
      BY <2>1 DEF LoadTriangle
  <1>2. /\ myTriangleList' = Append(myTriangleList, t)
        /\ myEdgeList' = WithTriangle(n, t)
    BY DEF LoadTriangle
  <1>3. /\ myTriangleList' \in Seq(Triangle)
        /\ Triangles' = Triangles \cup {n} /\ n \notin Triangles
        /\ myTriangleList'[n] = t
        /\ \A i \in Triangles : myTriangleList'[i] = myTriangleList[i]
    BY <1>1, <1>2 DEF TypeOK, Triangles
  <1> HIDE DEF t
  <1>4. /\ DOMAIN myEdgeList' = DOMAIN myEdgeList \cup EdgesOf(t)
        /\ \A e \in DOMAIN myEdgeList \ EdgesOf(t) : myEdgeList'[e] = myEdgeList[e]
        /\ \A e \in EdgesOf(t) \cap DOMAIN myEdgeList : myEdgeList'[e] = <<myEdgeList[e][1], n>>
        /\ \A e \in EdgesOf(t) \ DOMAIN myEdgeList : myEdgeList'[e] = <<n, None>>
    BY <1>2 DEF WithTriangle
  <1>5. n # None
    BY <1>1 DEF None
  <1> HIDE DEF n
  <1>6. \A e \in DOMAIN myEdgeList' :
           myEdgeList'[e] \in Triangles' \X (Triangles' \cup {None})
    <2> SUFFICES ASSUME NEW e \in DOMAIN myEdgeList'
                 PROVE  myEdgeList'[e] \in Triangles' \X (Triangles' \cup {None})
      OBVIOUS
    <2>1. e \in DOMAIN myEdgeList =>
              myEdgeList[e][1] \in Triangles /\ myEdgeList[e] \in Triangles \X (Triangles \cup {None})
      BY DEF TypeOK
    <2>2. CASE e \in DOMAIN myEdgeList \ EdgesOf(t)
      BY <1>3, <1>4, <2>1, <2>2
    <2>3. CASE e \in EdgesOf(t) \cap DOMAIN myEdgeList
      BY <1>3, <1>4, <2>1, <2>3
    <2>4. CASE e \in EdgesOf(t) \ DOMAIN myEdgeList
      <3>1. myEdgeList'[e] = <<n, None>> /\ n \in Triangles'
        BY <1>3, <1>4, <2>4
      <3>2. QED
        BY <3>1
    <2>5. QED
      BY <1>4, <2>2, <2>3, <2>4
  <1>7. (\A i \in Triangles : EdgesOf(myTriangleList[i]) \subseteq DOMAIN myEdgeList)'
    BY <1>3, <1>4 DEF EdgeInv
  <1>8. ASSUME NEW e \in DOMAIN myEdgeList'
        PROVE  /\ e \in EdgesOf(myTriangleList'[myEdgeList'[e][1]])
               /\ myEdgeList'[e][2] # None =>
                    /\ e \in EdgesOf(myTriangleList'[myEdgeList'[e][2]])
                    /\ myEdgeList'[e][1] # myEdgeList'[e][2]
    <2>1. CASE e \in DOMAIN myEdgeList \ EdgesOf(t)
      BY <1>3, <1>4, <2>1 DEF EdgeInv, TypeOK
    <2>2. CASE e \in EdgesOf(t) \cap DOMAIN myEdgeList
      BY <1>3, <1>4, <2>2 DEF EdgeInv, TypeOK
    <2>3. CASE e \in EdgesOf(t) \ DOMAIN myEdgeList
      BY <1>3, <1>4, <2>3
    <2>4. QED
      BY <1>4, <2>1, <2>2, <2>3
  <1>9. ASSUME NEW i \in Triangles', NEW e \in EdgesOf(myTriangleList'[i]),
               myEdgeList'[e][2] = None
        PROVE  myEdgeList'[e][1] = i
    <2>1. CASE i = n
      <3>1. e \in EdgesOf(t)
        BY <1>3, <2>1
      <3>2. e \notin DOMAIN myEdgeList
        BY <1>4, <1>5, <1>9, <3>1
      <3>3. QED
        BY <1>4, <2>1, <3>1, <3>2
    <2>2. CASE i \in Triangles
      <3>1. e \in EdgesOf(myTriangleList[i])
        BY <1>3, <2>2
      <3>2. e \in DOMAIN myEdgeList
        BY <2>2, <3>1 DEF EdgeInv
      <3>3. e \notin EdgesOf(t)
        BY <1>4, <1>5, <1>9, <3>2
      <3>4. QED
        BY <1>4, <1>9, <2>2, <3>1, <3>2, <3>3 DEF EdgeInv
    <2>3. QED
      BY <1>3, <2>1, <2>2
  <1>10. EdgeInv'
    BY <1>7, <1>8, <1>9 DEF EdgeInv
  <1>11. Len(myTriangleList') \in 0..Len(file)
    BY <1>1, <1>2 DEF n, TypeOK
  <1>12. \A i \in Triangles' : myTriangleList'[i] = file[i]
    BY <1>3 DEF t, TypeOK
  <1>13. QED
    BY <1>3, <1>6, <1>10, <1>11, <1>12

-----------------------------------------------------------------------------
(***************************************************************************)
(* The steps                                                               *)
(***************************************************************************)

LEMMA InitInv == Init => IInv
  <1> SUFFICES ASSUME Init PROVE IInv
    OBVIOUS
  <1>1. Triangles = {} /\ DOMAIN myEdgeList = {} /\ myTriangleList \in Seq(Triangle)
    BY DEF Init, Triangles
  <1>2. DOMAIN g = {} /\ DOMAIN predecessor = {} /\ open = {} /\ closed = {}
        /\ start = None /\ end = None /\ phase = "load" /\ route = <<>>
    BY DEF Init
  <1>3. TypeOK
    BY <1>1, <1>2 DEF Init, TypeOK
  <1>4. EdgeInv
    BY <1>1 DEF EdgeInv
  <1>5. LoadInv /\ NodeInv /\ ClosedInv /\ RegionInv /\ RouteInv
    BY <1>2 DEF LoadInv, NodeInv, ClosedInv, RegionInv, RouteInv
  <1>6. QED
    BY <1>3, <1>4, <1>5 DEF IInv

LEMMA LoadStep ==
    ASSUME IInv, LoadTriangle
    PROVE  IInv'
  <1>1. /\ start' = None /\ end' = None /\ phase' = "load"
        /\ DOMAIN g' = {} /\ DOMAIN predecessor' = {}
        /\ open' = {} /\ closed' = {} /\ route' = <<>>
    BY DEF IInv, LoadInv, LoadTriangle, callVars, nodeVars
  <1>2. TypeOK /\ EdgeInv
    BY DEF IInv
  <1>3. TypeOK'
    <2>1. file' = file
      BY DEF LoadTriangle
    <2>2. {start, end}' \subseteq Triangles' \cup {None} /\ route' \in Seq(Triangles')
      BY <1>1
    <2>3. QED
      BY <1>1, <1>2, <2>1, <2>2, LoadKeepsEdges DEF TypeOK
  <1>4. EdgeInv'
    BY <1>2, LoadKeepsEdges
  <1>5. (LoadInv /\ NodeInv /\ ClosedInv /\ RegionInv /\ RouteInv)'
    BY <1>1 DEF LoadInv, NodeInv, ClosedInv, RegionInv, RouteInv
  <1>6. QED
    BY <1>3, <1>4, <1>5 DEF IInv

LEMMA EndOfFileStep ==
    ASSUME IInv, EndOfFile
    PROVE  IInv'
  <1>1. /\ start' = None /\ end' = None /\ phase' = "idle"
        /\ DOMAIN g' = {} /\ DOMAIN predecessor' = {}
        /\ open' = {} /\ closed' = {} /\ route' = <<>>
    BY DEF IInv, LoadInv, EndOfFile, callVars, nodeVars
  <1>2. UNCHANGED meshVars
    BY DEF EndOfFile
  <1>3. TypeOK'
    <2>1. file \in Seq(Triangle) /\ myTriangleList \in Seq(Triangle)
      BY FilesAssumption DEF IInv, TypeOK
    <2>2. myTriangleList = file
      <3>1. Len(myTriangleList) = Len(file)
        BY DEF EndOfFile
      <3>2. \A i \in 1..Len(file) : myTriangleList[i] = file[i]
        BY <2>1, <3>1 DEF IInv, TypeOK, Triangles
      <3>3. QED
        BY <2>1, <3>1, <3>2
    <2>3. QED
      BY <1>1, <1>2, <2>2 DEF IInv, TypeOK, meshVars, Triangles
  <1>4. EdgeInv'
    BY <1>2 DEF IInv, EdgeInv, meshVars, Triangles
  <1>5. (LoadInv /\ NodeInv /\ ClosedInv /\ RegionInv /\ RouteInv)'
    BY <1>1 DEF LoadInv, NodeInv, ClosedInv, RegionInv, RouteInv
  <1>6. QED
    BY <1>3, <1>4, <1>5 DEF IInv

\* The search leaves the mesh alone, and everything that is said of it.
LEMMA SearchKeepsMesh ==
    ASSUME EdgeInv, UNCHANGED meshVars
    PROVE  /\ EdgeInv'
           /\ Triangles' = Triangles
           /\ \A i, j : Neighbours(i, j)' <=> Neighbours(i, j)
           /\ \A i : Adjacent(i)' = Adjacent(i)
  BY DEF EdgeInv, meshVars, Triangles, Neighbours, Adjacent, Across

LEMMA CalculateStep ==
    ASSUME IInv, NEW s \in Triangles, NEW e \in Triangles,
           NEW h \in [Triangles -> Distances], CalculatePath(s, e, h)
    PROVE  IInv'
  <1>1. UNCHANGED meshVars /\ TypeOK /\ EdgeInv
    BY DEF CalculatePath, IInv
  <1>2. /\ start' = s /\ end' = e /\ heuristic' = h /\ phase' = "search"
        /\ DOMAIN g' = {s} /\ g'[s] = 0 /\ DOMAIN predecessor' = {}
        /\ open' = {s} /\ closed' = {} /\ route' = <<>>
    BY DEF CalculatePath
  <1>3. Triangles' = Triangles
    BY <1>1, SearchKeepsMesh
  <1>4. TypeOK'
    BY <1>1, <1>2, <1>3 DEF TypeOK, meshVars, CalculatePath
  <1>5. EdgeInv'
    BY <1>1, SearchKeepsMesh
  <1>6. (LoadInv /\ NodeInv /\ ClosedInv /\ RouteInv)'
    BY <1>2 DEF LoadInv, NodeInv, ClosedInv, RouteInv
  <1>7. RegionInv'
    BY <1>2 DEF RegionInv, Region
  <1>8. QED
    BY <1>4, <1>5, <1>6, <1>7 DEF IInv

LEMMA ExpandStep ==
    ASSUME IInv, NEW i \in Triangles, Expand(i)
    PROVE  IInv'
  <1> DEFINE Better == Improved(i)
             New == Reached(i)
  <1>1. UNCHANGED meshVars /\ UNCHANGED callVars /\ TypeOK /\ EdgeInv
    BY DEF Expand, IInv
  <1>2. /\ phase = "search" /\ phase' = "search" /\ i \in open /\ i # end
        /\ start' = start /\ end' = end /\ heuristic' = heuristic /\ route' = route
    BY DEF Expand, callVars, BestNode
  <1>3. /\ closed' = closed \cup {i}
        /\ open' = (open \ {i}) \cup New
        /\ DOMAIN g' = DOMAIN g \cup Better
        /\ \A j \in Better : g'[j] = g[i] + Passable
        /\ \A j \in DOMAIN g \ Better : g'[j] = g[j]
        /\ DOMAIN predecessor' = DOMAIN predecessor \cup Better
        /\ \A j \in Better : predecessor'[j] = i
        /\ \A j \in DOMAIN predecessor \ Better : predecessor'[j] = predecessor[j]
    BY DEF Expand
  <1>4. Triangles' = Triangles /\ (\A j, k : Neighbours(j, k)' <=> Neighbours(j, k))
        /\ (\A j : Adjacent(j)' = Adjacent(j)) /\ EdgeInv'
    BY <1>1, SearchKeepsMesh
  <1>5. \A j \in Adjacent(i) : j \in Triangles /\ Neighbours(i, j)
    BY <1>1, AdjacentIsNeighbour
  <1>6. New \subseteq Adjacent(i) /\ i \notin New /\ New \cap closed = {}
    BY DEF Reached
  <1>7. /\ Better \subseteq New
        /\ \A j \in Better \cap DOMAIN g : g[i] + Passable < g[j]
        /\ New \ DOMAIN g \subseteq Better
    BY DEF Improved, Reached
  <1>8. /\ open \cap closed = {} /\ open \cup closed = DOMAIN g
        /\ start # None /\ start \in DOMAIN g /\ g[start] = 0
        /\ DOMAIN predecessor = DOMAIN g \ {start}
    BY <1>1, <1>2 DEF IInv, NodeInv, TypeOK, Triangles, None
  <1>9. g[i] \in Nat /\ \A j \in DOMAIN g : g[j] \in Nat
    BY <1>1, <1>2, <1>8 DEF TypeOK
  <1>10. start \notin Better
    BY <1>7, <1>8, <1>9 DEF Passable
  <1> HIDE DEF Better, New
  <1>11. TypeOK'
    <2>1. /\ open' \subseteq Triangles /\ closed' \subseteq Triangles
          /\ DOMAIN g' \subseteq Triangles /\ DOMAIN predecessor' \subseteq Triangles
      BY <1>1, <1>3, <1>5, <1>6, <1>7 DEF TypeOK
    <2>2. \A j \in DOMAIN g' : g'[j] \in Nat
      BY <1>3, <1>9 DEF Passable
    <2>3. \A j \in DOMAIN predecessor' : predecessor'[j] \in Triangles
      BY <1>1, <1>3 DEF TypeOK
    <2>4. QED
      BY <1>1, <1>2, <1>4, <2>1, <2>2, <2>3 DEF TypeOK, meshVars
  <1>12. NodeInv'
    <2>1. (open \cap closed = {} /\ open \cup closed = DOMAIN g)'
      BY <1>2, <1>3, <1>6, <1>7, <1>8
    <2>2. (start # None => start \in DOMAIN g /\ g[start] = 0)'
      BY <1>2, <1>3, <1>8, <1>10
    <2>3. (DOMAIN predecessor = DOMAIN g \ {start})'
      BY <1>2, <1>3, <1>8, <1>10
    <2>4. ASSUME NEW j \in DOMAIN predecessor'
          PROVE  /\ predecessor'[j] \in closed'
                 /\ g'[predecessor'[j]] < g'[j]
                 /\ Neighbours(predecessor'[j], j)
      <3>1. CASE j \in Better
        <4>1. predecessor'[j] = i /\ g'[j] = g[i] + Passable /\ g'[i] = g[i]
          BY <1>2, <1>3, <1>6, <1>7, <1>8, <3>1
        <4>2. QED
          BY <1>3, <1>5, <1>6, <1>7, <1>9, <3>1, <4>1 DEF Passable
      <3>2. CASE j \in DOMAIN predecessor \ Better
        <4>1. predecessor'[j] = predecessor[j] /\ g'[j] = g[j]
          BY <1>3, <1>8, <3>2
        <4>2. predecessor[j] \in closed /\ g[predecessor[j]] < g[j] /\ Neighbours(predecessor[j], j)
          BY <3>2 DEF IInv, NodeInv
        <4>3. g'[predecessor[j]] = g[predecessor[j]]
          BY <1>3, <1>6, <1>7, <1>8, <4>2
        <4>4. QED
          BY <1>3, <4>1, <4>2, <4>3
      <3>3. QED
        BY <1>3, <3>1, <3>2
    <2>5. QED
      BY <1>1, <2>1, <2>2, <2>3, <2>4 DEF NodeInv, Neighbours, meshVars
  <1>13. ClosedInv'
    <2>1. end' \notin closed'
      BY <1>2, <1>3 DEF IInv, ClosedInv
    <2>2. ASSUME NEW j \in closed'
          PROVE  Adjacent(j)' \subseteq DOMAIN g'
      <3>1. CASE j = i
        <4>1. Adjacent(i) \subseteq New \cup closed \cup {i}
          BY DEF New, Reached
        <4>2. QED
          BY <1>2, <1>3, <1>4, <1>7, <1>8, <3>1, <4>1
      <3>2. CASE j \in closed
        BY <1>3, <1>4, <3>2 DEF IInv, ClosedInv
      <3>3. QED
        BY <1>3, <3>1, <3>2
    <2>3. QED
      BY <2>1, <2>2 DEF ClosedInv
  <1>14. RegionInv'
    <2> SUFFICES ASSUME NEW region \in SUBSET Triangles, Region(region)'
                 PROVE  DOMAIN g' \subseteq region
      BY <1>4 DEF RegionInv
    <2>1. Region(region)
      BY <1>2, <1>4 DEF Region
    <2>2. DOMAIN g \subseteq region
      BY <2>1 DEF IInv, RegionInv
    <2>3. Better \subseteq region
      BY <1>2, <1>5, <1>6, <1>7, <1>8, <2>1, <2>2 DEF Region
    <2>4. QED
      BY <1>3, <2>2, <2>3
  <1>15. RouteInv' /\ LoadInv'
    BY <1>2 DEF IInv, RouteInv, LoadInv
  <1>16. QED
    BY <1>4, <1>11, <1>12, <1>13, <1>14, <1>15 DEF IInv

LEMMA StopStep ==
    ASSUME IInv, StopSearch
    PROVE  IInv'
  <1>1. UNCHANGED meshVars /\ TypeOK /\ EdgeInv /\ phase = "search"
        /\ UNCHANGED callVars /\ UNCHANGED nodeVars
    BY DEF StopSearch, IInv
  <1>2. Triangles' = Triangles /\ (\A j, k : Neighbours(j, k)' <=> Neighbours(j, k))
        /\ (\A j : Adjacent(j)' = Adjacent(j)) /\ EdgeInv'
    BY <1>1, SearchKeepsMesh
  <1>3. {start, end} \subseteq Triangles /\ start # None /\ start' = start /\ end' = end
    BY <1>1 DEF TypeOK, Triangles, None, callVars
  <1>4. NodeInv' /\ ClosedInv' /\ RegionInv'
    BY <1>1, <1>2 DEF IInv, NodeInv, ClosedInv, RegionInv, Region, callVars, nodeVars
  <1>5. CASE end \in DOMAIN predecessor
    <2>1. phase' = "back" /\ route' = <<end>>
      BY <1>5 DEF StopSearch
    <2>2. TypeOK'
      BY <1>1, <1>2, <1>3, <2>1 DEF TypeOK, meshVars, callVars, nodeVars
    <2>3. RouteInv' /\ LoadInv'
      BY <1>1, <1>3, <1>5, <2>1 DEF RouteInv, LoadInv, nodeVars, IInv, NodeInv
    <2>4. QED
      BY <1>2, <1>4, <2>2, <2>3 DEF IInv
  <1>6. CASE end \notin DOMAIN predecessor
    <2>1. phase' = "idle" /\ route' = <<>>
      BY <1>6 DEF StopSearch
    <2>2. TypeOK'
      BY <1>1, <1>2, <1>3, <2>1 DEF TypeOK, meshVars, callVars, nodeVars
    <2>3. start = end \/ open = {}
      <3>1. open = {} \/ end \in DOMAIN g
        BY DEF StopSearch, EndIsBest, BestNode, IInv, NodeInv
      <3>2. QED
        BY <1>6, <3>1 DEF IInv, NodeInv
    <2>4. RouteInv' /\ LoadInv'
      BY <1>1, <1>3, <2>1, <2>3 DEF RouteInv, LoadInv, nodeVars
    <2>5. QED
      BY <1>2, <1>4, <2>2, <2>4 DEF IInv
  <1>7. QED
    BY <1>5, <1>6

LEMMA BackStep ==
    ASSUME IInv, FindRouteBack
    PROVE  IInv'
  <1>1. UNCHANGED meshVars /\ TypeOK /\ EdgeInv /\ phase = "back"
        /\ UNCHANGED callVars /\ UNCHANGED nodeVars
    BY DEF FindRouteBack, IInv
  <1>2. Triangles' = Triangles /\ (\A j, k : Neighbours(j, k)' <=> Neighbours(j, k))
        /\ (\A j : Adjacent(j)' = Adjacent(j)) /\ EdgeInv'
    BY <1>1, SearchKeepsMesh
  <1>3. start # None /\ start' = start /\ end' = end
    BY <1>1 DEF TypeOK, Triangles, None, callVars
  <1>4. NodeInv' /\ ClosedInv' /\ RegionInv'
    BY <1>1, <1>2 DEF IInv, NodeInv, ClosedInv, RegionInv, Region, callVars, nodeVars
  <1>5. /\ route \in Seq(Triangles) /\ route # <<>>
        /\ end \in DOMAIN predecessor
        /\ route[Len(route)] = end
        /\ \A i \in DOMAIN route : route[i] \in DOMAIN g
        /\ \A i, j \in DOMAIN route : i < j => g[route[i]] < g[route[j]]
        /\ \A i \in 1..Len(route) - 1 : Neighbours(route[i], route[i + 1])
    BY <1>1 DEF IInv, RouteInv, TypeOK
  <1>6. Head(route) = route[1] /\ Len(route) \in Nat \ {0} /\ DOMAIN route = 1..Len(route)
    BY <1>5
  <1>7. CASE route[1] \in DOMAIN predecessor
    <2> DEFINE p == predecessor[route[1]]
               n == Len(route)
    <2>1. phase' = "back" /\ route' = <<p>> \o route
      BY <1>1, <1>6, <1>7 DEF FindRouteBack
    <2>2. p \in Triangles /\ p \in DOMAIN g /\ g[p] < g[route[1]] /\ Neighbours(p, route[1])
      BY <1>1, <1>7 DEF TypeOK, IInv, NodeInv
    <2>3. /\ route' \in Seq(Triangles) /\ Len(route') = n + 1 /\ route'[1] = p
          /\ \A k \in 2..n + 1 : route'[k] = route[k - 1]
      BY <1>5, <2>1, <2>2
    <2> HIDE DEF p
    <2>4. TypeOK'
      BY <1>1, <1>2, <2>1, <2>3 DEF TypeOK, meshVars, callVars, nodeVars
    <2>5. route' # <<>> /\ route'[Len(route')] = end
      BY <1>5, <1>6, <2>3
    <2>6. \A k \in DOMAIN route' : route'[k] \in DOMAIN g
      <3> SUFFICES ASSUME NEW k \in DOMAIN route' PROVE route'[k] \in DOMAIN g
        OBVIOUS
      <3>1. k = 1 \/ (k \in 2..n + 1 /\ k - 1 \in 1..n)
        BY <1>6, <2>3
      <3>2. QED
        BY <1>5, <1>6, <2>2, <2>3, <3>1
    <2>7. ASSUME NEW k \in DOMAIN route', NEW l \in DOMAIN route', k < l
          PROVE  g[route'[k]] < g[route'[l]]
      <3>1. k \in 1..n + 1 /\ l \in 2..n + 1
        BY <1>6, <2>3, <2>7
      <3>2. \A m \in DOMAIN route : g[route[m]] \in Nat
        BY <1>1, <1>5 DEF TypeOK
      <3>3. g[p] \in Nat
        BY <1>1, <2>2 DEF TypeOK
      <3>4. CASE k = 1
        <4>1. l - 1 \in 1..n /\ route'[l] = route[l - 1]
          BY <1>6, <2>3, <3>1
        <4>2. g[route[1]] =< g[route[l - 1]]
          BY <1>5, <1>6, <3>2, <4>1
        <4>3. QED
          BY <1>6, <2>2, <2>3, <3>2, <3>3, <3>4, <4>1, <4>2
      <3>5. CASE k # 1
        <4>1. /\ k - 1 \in 1..n /\ l - 1 \in 1..n /\ k - 1 < l - 1
              /\ route'[k] = route[k - 1] /\ route'[l] = route[l - 1]
          BY <1>6, <2>3, <2>7, <3>1, <3>5
        <4>2. QED
          BY <1>5, <1>6, <4>1
      <3>6. QED
        BY <3>4, <3>5
    <2>8. ASSUME NEW k \in 1..Len(route') - 1
          PROVE  Neighbours(route'[k], route'[k + 1])
      <3>1. CASE k = 1
        BY <1>6, <2>2, <2>3, <3>1
      <3>2. CASE k # 1
        <4>1. k - 1 \in 1..n - 1 /\ route'[k] = route[k - 1] /\ route'[k + 1] = route[(k - 1) + 1]
          BY <1>6, <2>3, <2>8, <3>2
        <4>2. QED
          BY <1>5, <4>1
      <3>3. QED
        BY <3>1, <3>2
    <2>9. g' = g /\ predecessor' = predecessor
      BY <1>1 DEF nodeVars
    <2>10. RouteInv'
      BY <1>2, <1>3, <1>5, <2>1, <2>5, <2>6, <2>7, <2>8, <2>9 DEF RouteInv
    <2>11. LoadInv'
      BY <2>1 DEF LoadInv
    <2>12. QED
      BY <1>2, <1>4, <2>4, <2>10, <2>11 DEF IInv
  <1>8. CASE route[1] \notin DOMAIN predecessor
    <2>1. phase' = "idle" /\ route' = route
      BY <1>6, <1>8 DEF FindRouteBack
    <2>2. route[1] = start
      BY <1>5, <1>6, <1>8 DEF IInv, NodeInv
    <2>3. TypeOK'
      BY <1>1, <1>2, <2>1 DEF TypeOK, meshVars, callVars, nodeVars
    <2>4. g' = g /\ predecessor' = predecessor
      BY <1>1 DEF nodeVars
    <2>5. RouteInv' /\ LoadInv'
      BY <1>2, <1>3, <1>5, <2>1, <2>2, <2>4 DEF RouteInv, LoadInv
    <2>6. QED
      BY <1>2, <1>4, <2>3, <2>5 DEF IInv
  <1>9. QED
    BY <1>7, <1>8

LEMMA StepKeepsInv == IInv /\ [Next]_vars => IInv'
  <1> SUFFICES ASSUME IInv, [Next]_vars PROVE IInv'
    OBVIOUS
  <1>1. CASE LoadTriangle
    BY <1>1, LoadStep
  <1>2. CASE EndOfFile
    BY <1>2, EndOfFileStep
  <1>3. CASE Search
    BY <1>3, StopStep, BackStep, ExpandStep DEF Search
  <1>4. CASE \E s, e \in Triangles, h \in [Triangles -> Distances] : CalculatePath(s, e, h)
    BY <1>4, CalculateStep
  <1>5. CASE UNCHANGED vars
    <2>1. UNCHANGED meshVars /\ UNCHANGED callVars /\ UNCHANGED nodeVars
          /\ phase' = phase /\ route' = route
      BY <1>5 DEF vars
    <2>2. Triangles' = Triangles /\ (\A j, k : Neighbours(j, k)' <=> Neighbours(j, k))
          /\ (\A j : Adjacent(j)' = Adjacent(j)) /\ EdgeInv'
      BY <2>1, SearchKeepsMesh DEF IInv
    <2>3. TypeOK'
      BY <2>1, <2>2 DEF IInv, TypeOK, meshVars, callVars, nodeVars
    <2>4. (LoadInv /\ ClosedInv /\ RegionInv)'
      BY <2>1, <2>2 DEF IInv, LoadInv, ClosedInv, RegionInv, Region, callVars, nodeVars
    <2>5. (NodeInv /\ RouteInv)'
      BY <2>1, <2>2 DEF IInv, NodeInv, RouteInv, callVars, nodeVars
    <2>6. QED
      BY <2>2, <2>3, <2>4, <2>5 DEF IInv
  <1>6. QED
    BY <1>1, <1>2, <1>3, <1>4, <1>5 DEF Next

LEMMA InvHolds == Spec => []IInv
  BY InitInv, StepKeepsInv, PTL DEF Spec

-----------------------------------------------------------------------------
(***************************************************************************)
(* Theorems                                                                *)
(***************************************************************************)

\* Every index the search uses is one of a triangle, or of a place that was
\* looked at before (CalculatePath, FindRouteBack).
THEOREM TypeCorrect == Spec => []TypeOK
  <1>1. IInv => TypeOK
    BY DEF IInv
  <1>2. QED
    BY InvHolds, <1>1, PTL

\* FindRouteBack ends, and what it returns is a walk from the start to the
\* end over edges of the file.
THEOREM RoutesAreWalks == Spec => []RouteIsWalk
  <1>1. IInv => RouteIsWalk
    <2> SUFFICES ASSUME IInv, route # <<>>
                 PROVE  \A i, j \in DOMAIN route : i # j => route[i] # route[j]
      BY DEF IInv, RouteInv, RouteIsWalk
    <2>1. DOMAIN route = 1..Len(route) /\ Len(route) \in Nat
      BY DEF IInv, TypeOK
    <2>2. \A i \in DOMAIN route : g[route[i]] \in Nat
      BY DEF IInv, TypeOK, RouteInv
    <2>3. \A i, j \in DOMAIN route : i < j => route[i] # route[j]
      BY <2>2 DEF IInv, RouteInv
    <2>4. QED
      BY <2>1, <2>3
  <1>2. QED
    BY InvHolds, <1>1, PTL

\* A route is found only if there is one, and always if no edge has three
\* triangles.
THEOREM RoutesAreFound == Spec => []RouteIsFound
  <1>1. IInv => RouteIsFound
    <2> SUFFICES ASSUME IInv, phase = "idle", start # None
                 PROVE  /\ route # <<>> => Reachable(start, end) /\ start # end
                        /\ Flat /\ start # end /\ Reachable(start, end) => route # <<>>
      BY DEF RouteIsFound
    <2>1. ASSUME route # <<>>
          PROVE  Reachable(start, end) /\ start # end
      <3>1. end \in DOMAIN g /\ end # start
        BY <2>1 DEF IInv, RouteInv, NodeInv
      <3>2. QED
        BY <3>1 DEF Reachable, Region, IInv, RegionInv
    <2>2. ASSUME Flat, start # end, Reachable(start, end), route = <<>>
          PROVE  FALSE
      <3>1. open = {}
        BY <2>2 DEF IInv, RouteInv
      <3>2. start \in closed /\ end \notin closed /\ closed = DOMAIN g /\ closed \subseteq Triangles
        BY <3>1 DEF IInv, NodeInv, ClosedInv, TypeOK
      <3>3. \A i \in closed, j \in Triangles : Neighbours(i, j) => j \in closed
        BY <2>2, <3>2, NeighbourIsAdjacent DEF IInv, ClosedInv
      <3>4. QED
        BY <2>2, <3>2, <3>3 DEF Reachable
    <2>3. QED
      BY <2>1, <2>2
  <1>2. QED
    BY InvHolds, <1>1, PTL

-----------------------------------------------------------------------------
\* The search stays within the mesh and its routes are walks, for every mesh.
THEOREM SearchIsSound == Spec => []NavmeshInv
  <1>1. TypeOK /\ RouteIsWalk
          => NavmeshInv
    BY DEF NavmeshInv
  <1>2. QED
    BY <1>1, TypeCorrect, RoutesAreWalks, PTL
=============================================================================
