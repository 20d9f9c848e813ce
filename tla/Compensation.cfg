CONSTANTS
  a = a  b = b  m = m  n = n  k1 = k1  k2 = k2  k3 = k3  p1 = p1  p2 = p2  p3 = p3
  None = None
  Boot = Boot
  Procs = {p1, p2}
  Profiles <- OneProfile
  Keys <- TwoKeys
  KeysOf <- KeysOfA
  ManagedKey <- ManagedOfA
SPECIFICATION Spec
PROPERTIES RemovalCompensated
CHECK_DEADLOCK FALSE
