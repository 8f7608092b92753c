----------------------------- MODULE MCPipeline -----------------------------
(***************************************************************************)
(* Two workers; e1 is a deployment metric that sampling may drop and that  *)
(* arrives with the tag the firewall marks events with, which shaping      *)
(* removes; e2 is an oversized protected error with another value of the   *)
(* same dimension, and e3 a metric whose change marker the store refuses.  *)
(***************************************************************************)
EXTENDS Pipeline

Metric(tags) ==
    [tenant |-> "t", source |-> "api", type |-> "metric", namesError |-> FALSE, severity |-> "",
     tags |-> tags, bytes |-> 1, latency |-> 0, valid |-> TRUE, marker |-> "none"]

MCEvents ==
    [e1 |-> [Metric(With([user |-> "u1"], Quarantined, "yes")) EXCEPT !.marker = "valid"],
     e2 |-> [Metric([user |-> "u2"]) EXCEPT !.severity = "error", !.bytes = 10],
     e3 |-> [Metric([version |-> "7"]) EXCEPT !.marker = "invalid"]]

MCHash == [e1 |-> 40, e2 |-> 90, e3 |-> 0]

Rule ==
    [tenant |-> Everything, source |-> {"api"}, type |-> {"metric"}, severity |-> Everything,
     tags |-> <<>>, rate |-> Unset, minRate |-> 0, dropTags |-> {}, renameTags |-> <<>>,
     payloadMax |-> 0, shapeProtected |-> FALSE, stop |-> FALSE]

MCRules ==
    <<[Rule EXCEPT !.renameTags = <<<<"user", "user_id">>>>, !.payloadMax = 5,
                   !.shapeProtected = TRUE],
      [Rule EXCEPT !.rate = 50, !.minRate = 10, !.dropTags = {Quarantined}, !.stop = TRUE]>>

MCConfig ==
    [rate |-> 100,
     protection |-> [errors |-> TRUE, severities |-> {}, types |-> {}, tags |-> <<>>, latency |-> 0],
     pressure |-> [enabled |-> TRUE, high |-> 70, critical |-> 90, highFactor |-> 80, criticalFactor |-> 50],
     rules |-> MCRules]

MCPolicy ==
    [threshold |-> 2, action |-> "quarantine", dangerous |-> {}, rules |-> <<>>]

MCDimensions == <<Oversize, Quarantined, "user", "user_id", "version">>
=============================================================================
