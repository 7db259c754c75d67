--------------------------- MODULE MCEgressPolicy ---------------------------
(* Instances of EgressPolicy for TLC: how often each kind of fault happens.  *)
EXTENDS EgressPolicy, TLC

Once(kinds) == [k \in FaultKind |-> IF k \in kinds THEN 1 ELSE 0]

\* Faults a switch, a rollback or a recovery survives, and units that are killed
\* or started at once.
Failures == {Once({"power", "drain", "crash", "unit"}), Once({"disk", "stop"}),
             [Once({"crash"}) EXCEPT !["power"] = 2],
             Once({"power", "unit", "kill", "overlap"}),
             [Once({"stop", "overlap"}) EXCEPT !["kill"] = 2],
             [Once({"kill"}) EXCEPT !["crash"] = 2], [Once({"crash"}) EXCEPT !["kill"] = 2]}
OneKill == {Once({"kill", "crash"})}
=============================================================================
