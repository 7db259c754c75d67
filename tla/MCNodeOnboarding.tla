---------------------------- MODULE MCNodeOnboarding ----------------------------
(* Instances of NodeOnboarding for TLC: what may happen, and how often.       *)
EXTENDS NodeOnboarding, TLC

Once(kinds) == [k \in EventKind |-> IF k \in kinds THEN 1 ELSE 0]

Mixes == {[Once({"expire", "void", "lost"}) EXCEPT !["paste"] = 2],
          [Once({"expire", "revoke", "lost"}) EXCEPT !["paste"] = 2],
          Once({"paste", "slow", "unit", "lost", "reboot"}),
          Once({"paste", "slow", "outage", "lost", "reboot"}),
          [Once({"delete", "issue", "lost"}) EXCEPT !["paste"] = 2],
          Once({"paste", "issue", "standby", "lost", "reboot"}),
          Once({"paste", "issue", "slow", "unit", "dns"}),
          [Once({"paste", "reboot"}) EXCEPT !["issue"] = 2],
          [Once({"paste", "lost"}) EXCEPT !["reboot"] = 2]}
=============================================================================
