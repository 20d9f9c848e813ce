\* Two invocations and two tokens, or three and one; client credentials.
CONSTANTS
  a = a  b = b  c = c  s = s  t = t  Absent = Absent
  Clients <- ThreeClients
  Secrets <- TwoSecrets
  Life = 3  Skew = 1  Capped = TRUE  MaxTime = 3
SPECIFICATION SharedSpec
INVARIANTS TypeOK PriorIsCurrent LoopStops
PROPERTIES RenewalIsAtomic
SYMMETRY Symmetric
