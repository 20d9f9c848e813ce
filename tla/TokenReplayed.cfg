\* docs/authentication.md:85 against a token reissued to somebody else.
CONSTANTS
  a = a  b = b  c = c  s = s  t = t  Absent = Absent
  Clients <- TwoClients
  Secrets <- OneSecret
  Life = 3  Skew = 1  Capped = FALSE  MaxTime = 2
SPECIFICATION Spec
PROPERTIES RejectedNotReplayed
