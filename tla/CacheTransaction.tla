-------------------------- MODULE CacheTransaction --------------------------
(***************************************************************************)
(* What a cache plan promises whoever takes the maintenance lock after it: *)
(* every file holds its new image, or every file its old one and the error *)
(* says so, or each file one of the two and nobody says which.             *)
(***************************************************************************)
CONSTANTS Files, Images

VARIABLES before, after, visible, outcome

vars == <<before, after, visible, outcome>>

Partial == {d \in [Files -> Images] : \A f \in Files : d[f] \in {before[f], after[f]}}

Init ==
  /\ before \in [Files -> Images]
  /\ after \in [Files -> Images]
  /\ visible = before
  /\ outcome = "open"

Keep == outcome' = "kept" /\ visible' = after

Restore == outcome' = "restored" /\ visible' = before

\* The restoration failed, or the process was killed.
GiveUp == outcome' \in {"uncertain", "killed"} /\ visible' \in Partial

Next ==
  /\ outcome = "open"
  /\ Keep \/ Restore \/ GiveUp
  /\ UNCHANGED <<before, after>>

Spec == Init /\ [][Next]_vars
===============================================================================
