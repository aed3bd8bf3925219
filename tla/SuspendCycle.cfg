SPECIFICATION Spec
CONSTANTS
  v1 = v1
  v2 = v2
  p1 = p1
  p2 = p2
  None = None
  Pcr <- TwoValues
  Proc <- OneProc
  Slot <- FourSlots
  Modes = {"clevis", "systemd"}
INVARIANTS TypeOK TempIsTracked BaselineMeansUnlock
PROPERTIES RecoveryKept ClevisSuspensionEnds
