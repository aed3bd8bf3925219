------------------------------ MODULE MCVolumes ------------------------------
(* Model values for Volumes: two volumes are enough for a command to act on *)
(* another one than the last, four slots for a key, its replacement and two *)
(* protectors.                                                              *)
EXTENDS Volumes, TLC

CONSTANTS v1, v2, k1, k2, k3

MCSlot == 1..4
Symmetry == Permutations(Volume) \cup Permutations(Key)
=============================================================================
