--------------------------- MODULE MCMeshRouting ---------------------------
(***************************************************************************)
(* MeshRouting for TLC: an edge, a peer of its zone and one of another     *)
(* region.  Two items with different keys, owned by different nodes of the *)
(* zone when all are well.                                                 *)
(***************************************************************************)
EXTENDS MeshRouting

MCNodes == {"edge", "near", "far"}
MCDomain == [n \in MCNodes |->
    [cloud |-> "a", region |-> IF n = "far" THEN "west" ELSE "east", zone |-> "1"]]
MCScore == [k1 |-> [edge |-> 3, near |-> 2, far |-> 1],
            k2 |-> [edge |-> 1, near |-> 2, far |-> 3]]
MCKey == <<"k1", "k2">>
=============================================================================
