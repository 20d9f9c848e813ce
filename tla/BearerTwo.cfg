\* Two invocations, every pair of commands, three generations.
CONSTANTS
  a = a  b = b  m = m  n = n  k1 = k1  k2 = k2  k3 = k3  p1 = p1  p2 = p2  p3 = p3
  None = None
  Boot = Boot
  Procs = {p1, p2}
  Profiles <- OneProfile
  Keys <- ThreeKeys
  KeysOf <- KeysOfA
  ManagedKey <- ManagedOfA
SPECIFICATION Spec
SYMMETRY Symmetry
INVARIANTS TypeOK ConfigLoads ImagesAgree
PROPERTIES ReportsTruthful NoLiveImageDeleted OutputIsolated RemovalComplete RecoveryHeals
CHECK_DEADLOCK FALSE
