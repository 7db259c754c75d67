------------------------ MODULE MCRestoreTransaction ------------------------
(* Instances of RestoreTransaction for TLC: how often each fault happens.     *)
EXTENDS RestoreTransaction, TLC

Once(kinds) == [k \in FaultKind |-> IF k \in kinds THEN 1 ELSE 0]
Unstopped == {Once({"unit", "power"})}
Mixes == {[Once({"refused", "drain", "crash"}) EXCEPT !["power"] = 2],
          [Once({"power", "crash"}) EXCEPT !["kill"] = 2],
          [Once({"refused", "kill"}) EXCEPT !["disk"] = 2],
          [Once({"unit", "queue", "refused"}) EXCEPT !["crash"] = 2]}
=============================================================================
