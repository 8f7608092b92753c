--------------------------- MODULE MCRouterOutbox ---------------------------
(***************************************************************************)
(* RouterOutbox for TLC: an error of the payment service and an audit      *)
(* record, a flaky primary destination, an optional failing second one and *)
(* an archive that takes everything.                                       *)
(***************************************************************************)
EXTENDS RouterOutbox

CONSTANTS r1, r2

Error == [tenant |-> "t", source |-> "pay", type |-> "error", severity |-> "error",
          tags |-> [env |-> "prod"]]
Audit == [tenant |-> "t", source |-> "auth", type |-> "audit", severity |-> "",
          tags |-> <<>>]

Rule(severity, tags, destinations, stop) ==
    [tenant |-> Any, source |-> Any, type |-> Any, severity |-> severity, tags |-> tags,
     destinations |-> destinations, stop |-> stop]

Destination(attempts, fallback) == [enabled |-> TRUE, maxAttempts |-> attempts, fallback |-> fallback]

\* Errors of production go to the primary destination, which falls back on the
\* archive; what no rule matches goes to the archive.
Fallbacks ==
    [destinations |-> [primary |-> Destination(2, "archive"), archive |-> Destination(1, None)],
     rules |-> <<Rule({"error"}, [env |-> {"prod"}], {"primary"}, TRUE),
                 Rule({"error"}, <<>>, {"archive"}, FALSE)>>,
     fallback |-> "archive"]

\* Everything goes to both, and nothing falls back.
FanOut ==
    [destinations |-> [primary |-> Destination(2, None), archive |-> Destination(1, None)],
     rules |-> <<Rule({"error"}, <<>>, {"primary"}, FALSE),
                 Rule(Any, <<>>, {"archive"}, FALSE)>>,
     fallback |-> None]

\* A cycle of fallbacks, which Validate refuses.
Cyclic ==
    [Fallbacks EXCEPT !.destinations.archive.fallback = "primary"]

MCDocuments == [fallbacks |-> Fallbacks, fanout |-> FanOut, cyclic |-> Cyclic]
MCDeployments ==
    {<<"fallbacks", "fanout", {"error"}>>, <<"fanout", "fallbacks", {"error"}>>,
     <<"fallbacks", "fallbacks", {"audit"}>>, <<"cyclic", "fanout", {"error"}>>}
MCEvents == [error |-> Error, audit |-> Audit]
=============================================================================
