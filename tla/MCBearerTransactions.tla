------------------------ MODULE MCBearerTransactions ------------------------
(***************************************************************************)
(* Small instances of BearerTransactions: two or three invocations on one  *)
(* profile with two or three generations.                                  *)
(***************************************************************************)
EXTENDS BearerTransactions, TLC

CONSTANTS a, b, m, n, k1, k2, k3, p1, p2, p3

OneProfile == {a}
TwoKeys == {k1, k2}
ThreeKeys == {k1, k2, k3}
KeysOfA == [x \in {a} |-> Keys]
ManagedOfA == [x \in {a} |-> m]

TwoProfiles == {a, b}
ManagedOfBoth == [x \in {a, b} |-> IF x = a THEN m ELSE n]

\* Liveness from the states where a is in use and its provider's cache empty.
LiveInit == Init /\ config.current = a /\ cache[m] = None
LiveSpec == LiveInit /\ [][Next]_vars /\ \A p \in Procs : WF_vars(Step(p))

Symmetry == Permutations(Procs) \cup Permutations(Keys)
===============================================================================
