-------------------------- MODULE MCTokenAcquisition --------------------------
\* Instances of TokenAcquisition.
EXTENDS TokenAcquisition, TLC

CONSTANTS a, b, c, s, t

TwoClients == {a, b}
OneSecret == {s}

Symmetric == Permutations(Clients) \cup Permutations(Secrets)
===============================================================================
