SPECIFICATION Spec
CONSTANTS
  v1 = v1
  v2 = v2
  k1 = k1
  k2 = k2
  k3 = k3
  Volume = {v1, v2}
  Slot <- MCSlot
  Key = {k1, k2, k3}
  Modes = {"clevis", "systemd", "tang"}
  None = None
SYMMETRY Symmetry
INVARIANTS
  TypeOK
  OneVolumeRecoverable
  
CHECK_DEADLOCK FALSE
