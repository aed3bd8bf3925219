--------------------------- MODULE MCSuspendCycle ---------------------------
(* Instances of SuspendCycle for TLC.                                      *)
EXTENDS SuspendCycle

CONSTANTS v1, v2, p1, p2

TwoValues == {v1, v2}
ThreeSlots == 1..3
OneProc == {p1}
TwoProcs == {p1, p2}
FourSlots == 1..4
=============================================================================
