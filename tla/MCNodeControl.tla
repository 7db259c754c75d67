--------------------------- MODULE MCNodeControl ---------------------------
(* Instances of NodeControl for TLC: which events happen in one run.         *)
EXTENDS NodeControl, TLC

CONSTANTS l1, l2

Once(kinds) == [k \in EventKind |-> IF k \in kinds THEN 1 ELSE 0]

\* Kicks: two revocations, a revocation and the quota, with one failure each.
KickMixes == {Once({"revoke", "expire", "crash"}), Once({"revoke", "expire", "lost"}),
           Once({"exhaust", "reset", "late"}), Once({"panel", "revoke"})}

\* The lifecycle: stops, resumes and removals with failures at every step, and a stop
\* whose late acknowledgement meets the next stop.
LifecycleMixes == {Once({"drain", "stop", "resume", "lost", "reboot", "exhaust"}),
               Once({"emergency", "resume", "crash", "unit", "revoke"}),
               Once({"emergency", "archive", "disk", "reboot", "late"}),
               Once({"disconnect", "lost", "delete", "crash", "reboot"}),
               Once({"disconnect", "unit", "disk", "delete"}),
               [Once({"resume", "late"}) EXCEPT !["emergency"] = 2]}

\* The budget: drained, perhaps returned to service, and stopped when idle.
BudgetMixes == {[Once({"silent", "lost", "crash"}) EXCEPT !["budget"] = 2], Once({"budget", "revoke"})}

\* One stop and one death of the agent.
Stranding == {Once({"emergency", "crash"})}

Mixes == KickMixes \cup LifecycleMixes \cup BudgetMixes
=============================================================================
