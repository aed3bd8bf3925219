--------------------------- MODULE MCAgentEscrow ---------------------------
(* Instances of AgentEscrow for TLC.                                       *)
EXTENDS AgentEscrow, TLC

CONSTANTS k1, k2, k3, p1, p2

TwoKeys == {k1, k2}
ThreeKeys == {k1, k2, k3}
OneProc == {p1}
TwoProcs == {p1, p2}
NoFaults == {}

\* Keys and processes are interchangeable.  Not for the runs that check
\* liveness.
Symmetry == Permutations(Key) \cup Permutations(Proc)
=============================================================================
