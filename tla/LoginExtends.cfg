\* docs/authentication.md:85 against a login that installs late.
CONSTANTS
  a = a  b = b  c = c  s = s  t = t  Absent = Absent
  Clients <- TwoClients
  Secrets <- OneSecret
  Life = 3  Skew = 1  Capped = TRUE  MaxTime = 2
SPECIFICATION Spec
PROPERTIES LoginCaps
