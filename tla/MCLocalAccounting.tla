---------------------------- MODULE MCLocalAccounting ----------------------------
(* Instances of LocalAccounting for TLC.                                      *)
EXTENDS LocalAccounting, TLC

CONSTANTS a, b, r, s, main, udp443

TwoEndpoints == [u \in Unit |-> IF u = a THEN main ELSE udp443]

Once(kinds) == [k \in EventKind |-> IF k \in kinds THEN 1 ELSE 0]

Mixes == {Once({"db", "disk"}), Once({"db", "helper", "crash"}),
          Once({"db", "reset"}), Once({"crash", "reset"}),
          Once({"restart", "endpoint"})}
=============================================================================
