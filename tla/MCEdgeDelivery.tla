--------------------------- MODULE MCEdgeDelivery ---------------------------
(***************************************************************************)
(* EdgeDelivery for TLC: an origin with one peer in another zone of its    *)
(* region and one in another region.                                       *)
(***************************************************************************)
EXTENDS EdgeDelivery

CONSTANTS a, b, c

Clouds == [n \in {a, b, c} |-> "cloud"]
Regions == [n \in {a, b, c} |-> IF n = c THEN "west" ELSE "east"]
Zones == [n \in {a, b, c} |-> n]
=============================================================================
