--------------------------- MODULE MCBearerScripts ---------------------------
\* Instances of BearerTransactions in which each invocation has its commands: two
\* invocations on two profiles, and three on one.
EXTENDS MCBearerTransactions

CONSTANT k4

\* A script says of each invocation which commands it may run, on which profile.
\* Commands on different profiles meet in recovery and in logout; of three on one,
\* two move the profile's pointer, and one looks at the result.
Commanded(s, p) ==
  CASE s = "split" /\ p = p1 -> {"login", "remove", "logout"} \X {a}
    [] s = "split" /\ p = p2 -> {"change", "remove"} \X {b}
    [] s = "trio" /\ p = p1 -> {"login"} \X {a}
    [] s = "trio" /\ p = p2 -> {"login", "remove"} \X {a}
    [] s = "trio" /\ p = p3 -> {"read", "logout"} \X {a}
    [] OTHER -> {}

\* Three generations of a are enough for three invocations and two for one.
FourKeys == {k1, k2, k3, k4}
KeysOfThree == [x \in {a, b} |-> IF x = a THEN {k1, k2, k3} ELSE {k4}]
GenerationsOf == {k1, k2, k3}
KeysIn(s) == IF s = "split" THEN {k1, k2, k4} ELSE GenerationsOf

VARIABLE script

Uses(k) == k \in {config.profile[x] : x \in Profiles} \cup UNION {config.pending[x] : x \in Profiles}

ScriptsInit ==
  /\ Init /\ script \in {"split", "trio"}
  /\ config.current = a /\ config.profile[a] \in Keys
  /\ \A x \in Profiles : cache[ManagedKey[x]] = None
  /\ \A k \in FourKeys \ KeysIn(script) : ~Uses(k)
  /\ script = "trio" => config.pending = NoPending /\ config.profile[b] = NoAuth

ScriptsNext ==
  /\ \E p \in Procs :
       \/ /\ Commanded(script, p) # {}
          /\ Launch(p)
          /\ <<job'[p].kind, job'[p].name>> \in Commanded(script, p)
       \/ Advance(p) /\ (script = "split" => mem'[p].to # k3)
       \/ Fail(p) \/ Crash(p)
  /\ UNCHANGED script

ScriptsSpec == ScriptsInit /\ [][ScriptsNext]_<<vars, script>>

-------------------------------------------------------------------------------
\* No command deletes an image that a profile uses, and what each one reports of its
\* own is so, though others move the pointer meanwhile (BearerTransactions).
ScriptsHonest == NoLiveImageDeleted /\ ReportsTruthful

GenerationSymmetry == Permutations(GenerationsOf)
===============================================================================
