---------------------------- MODULE MCNavmesh ----------------------------
EXTENDS Navmesh

Vertices == 1..6
AllTriangles == {t \in SUBSET Vertices : Cardinality(t) = 3}

\* Every mesh of up to three triangles, with its vertices numbered as they come.
Numbered(f) ==
    \A k \in DOMAIN f :
        LET used == UNION {f[i] : i \in 1..k} IN used = 1..Cardinality(used)

AnyMesh == {f \in UNION {[1..n -> {t \in AllTriangles : 6 \notin t}] : n \in 0..3} :
                Numbered(f)}

\* Five triangles around a vertex: there are two ways to each of them, and
\* the longer one may be found first.
Ring == <<{1, 2, 3}, {1, 3, 4}, {1, 4, 5}, {1, 5, 6}, {1, 6, 2}>>

\* Three triangles at one edge, and one behind the third.
Fin == <<{1, 2, 3}, {1, 2, 4}, {1, 2, 5}, {1, 5, 6}>>

RouteFiles == AnyMesh \cup {Ring, Fin}
=============================================================================
