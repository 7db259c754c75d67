------------------------- MODULE MCDeviceAdmission -------------------------
(* Instances of DeviceAdmission for TLC.                                    *)
EXTENDS DeviceAdmission, TLC

CONSTANTS n1, n2, l1, l2, l3

OneNode == {n1}
TwoNodes == {n1, n2}
TwoLogins == {l1, l2}
ThreeLogins == {l1, l2, l3}
Alike == Permutations(Node) \cup Permutations(LoginId)
=============================================================================
