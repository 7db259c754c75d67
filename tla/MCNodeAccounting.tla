-------------------------- MODULE MCNodeAccounting --------------------------
(* Instances of NodeAccounting for TLC.                                    *)
EXTENDS NodeAccounting, TLC

CONSTANTS a, b, c, main, udp443

OneEndpoint == [u \in Unit |-> main]
TwoEndpoints == [u \in Unit |-> IF u = a THEN main ELSE udp443]

\* A mix of faults: each kind of `kinds' once.
Once(kinds) == [k \in FaultKind |-> IF k \in kinds THEN 1 ELSE 0]

AgentFaults == {Once({"crash"}), Once({"disk"}), Once({"endpoint"})}
PanelFaults == {Once({"late"}), Once({"server"}), [Once({}) EXCEPT !["lost"] = 2]}

\* Units of one endpoint are interchangeable.
Alike == Permutations(Unit)
=============================================================================
