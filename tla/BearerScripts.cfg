\* Two invocations on two profiles, and three on one.
CONSTANTS
  a = a  b = b  m = m  n = n  k1 = k1  k2 = k2  k3 = k3  k4 = k4  p1 = p1  p2 = p2  p3 = p3
  None = None
  Boot = Boot
  Procs = {p1, p2, p3}
  Profiles <- TwoProfiles
  Keys <- FourKeys
  KeysOf <- KeysOfThree
  ManagedKey <- ManagedOfBoth
SPECIFICATION ScriptsSpec
SYMMETRY GenerationSymmetry
INVARIANTS ImagesAgree
PROPERTY ScriptsHonest
CHECK_DEADLOCK FALSE
