---------------------------- MODULE MCTokenShared ----------------------------
\* Instances of TokenAcquisition: two invocations and two tokens, or three
\* invocations, one token and one step of the clock less.
EXTENDS MCTokenAcquisition

ThreeClients == {a, b, c}
TwoSecrets == {s, t}

VARIABLE many     \* invocations, or tokens

SharedInit == Init /\ many \in {"invocations", "tokens"}

SharedNext ==
  /\ Tick \/ \E x \in IF many = "invocations" THEN Clients ELSE {a, b} : Step(x)
  /\ many = "invocations" => issued' \subseteq {s} /\ now' < MaxTime
  /\ UNCHANGED many

SharedSpec == SharedInit /\ [][SharedNext]_<<vars, many>>
===============================================================================
