---------------------------- MODULE MCGraphNotes ----------------------------
(* Model values for GraphNotes: an Intune device of one name and none of    *)
(* the other, two portal devices that may share a name, two runs.           *)
EXTENDS GraphNotes, TLC

CONSTANTS r1, r2, d1, d2, m1, h1, h2, w1

SameName == [m \in Managed |-> h1]
Symmetry == Permutations(Run) \cup Permutations(Device)
=============================================================================
