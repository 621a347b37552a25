-------------------------- MODULE MCActivityUploads --------------------------
(* Model-checking instance of ActivityUploads.                               *)
EXTENDS ActivityUploads, TLC

CONSTANTS a1, a2, a3, c1, c2, d1, d2, e1, e2

TwoActivities == {a1, a2}
ThreeActivities == {a1, a2, a3}
TwoCollectors == {c1, c2}
OneCollector == {c1}
OneDevice == {d1}
TwoDevices == {d1, d2}
OneEmployee == {e1}
TwoEmployees == {e1, e2}
=============================================================================
