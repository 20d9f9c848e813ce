---------------------------- MODULE CachePlanProofs ----------------------------
(***************************************************************************)
(* For plans of any number of files with any contents: the invariant       *)
(* behind a plan's report, and the refinement of CacheTransaction.         *)
(***************************************************************************)
EXTENDS CachePlan, TLAPS

LEMMA InitIInv == Init => IInv
<1> SUFFICES ASSUME Init PROVE IInv
  OBVIOUS
<1>1. TypeOK
  <2>1. i \in 0..(N + 1)
    BY NAssumption DEF Init
  <2> QED  BY <2>1 DEF Init, TypeOK, Ended
<1>2. Progress
  BY DEF Init, Progress
<1> QED  BY <1>1, <1>2 DEF IInv

LEMMA NextIInv == IInv /\ [Next]_vars => IInv'
<1> SUFFICES ASSUME IInv, [Next]_vars PROVE IInv'
  OBVIOUS
<1> USE NAssumption DEF IInv, TypeOK, Progress, plan, Files
<1>1. CASE Refuse
  BY <1>1 DEF Refuse, Ended
<1>2. CASE Begin
  BY <1>2 DEF Begin, NextInstall, Ended
<1>3. CASE Install
  BY <1>3 DEF Install, Ended
<1>4. CASE InstallFails
  BY <1>4 DEF InstallFails, Ended
<1>5. CASE Interrupted
  BY <1>5 DEF Interrupted, Ended
<1>6. CASE Installed
  BY <1>6 DEF Installed, NextInstall, Ended
<1>7. CASE RestoreOne
  <2>1. TypeOK'
    <3>1. disk' \in [Files -> Images]
      BY <1>7 DEF RestoreOne
    <3>2. failed' \in BOOLEAN
      BY <1>7 DEF RestoreOne
    <3>3. i' \in 0..(N + 1)
      BY <1>7 DEF RestoreOne
    <3> QED  BY <1>7, <3>1, <3>2, <3>3 DEF RestoreOne
  <2>2. Progress'
    <3>1. \A f \in Files : disk'[f] \in {before[f], after[f]}
      BY <1>7 DEF RestoreOne
    <3>2. ~failed' => \A f \in Files : f > i' => disk'[f] = before[f]
      BY <1>7 DEF RestoreOne
    <3> QED  BY <1>7, <3>1, <3>2 DEF RestoreOne
  <2> QED  BY <2>1, <2>2
<1>8. CASE RestoredAll
  BY <1>8 DEF RestoredAll, Ended
<1>9. CASE VerifyOne
  <2>1. i' \in 0..(N + 1) /\ i' >= 1
    BY <1>9 DEF VerifyOne
  <2>2. failed' \in BOOLEAN
    BY <1>9 DEF VerifyOne
  <2>3. ~failed' => disk' = before
    BY <1>9 DEF VerifyOne
  <2> QED  BY <1>9, <2>1, <2>2, <2>3 DEF VerifyOne, Ended
<1>10. CASE Report
  BY <1>10 DEF Report, Ended
<1>11. CASE Rollback
  BY <1>11 DEF Rollback, Ended
<1>12. CASE Release
  BY <1>12 DEF Release, Ended
<1>13. CASE Kill
  BY <1>13 DEF Kill, Ended
<1>14. CASE UNCHANGED vars
  BY <1>14 DEF vars, Ended
<1> QED  BY <1>1, <1>2, <1>3, <1>4, <1>5, <1>6, <1>7, <1>8, <1>9, <1>10,
            <1>11, <1>12, <1>13, <1>14 DEF Next

\* At every control point the files are exactly as far as the plan says: a
\* report of "restored" or of success tells the truth about all of them.
THEOREM Progressing == Spec => []Progress
<1>1. IInv => Progress
  BY DEF IInv
<1> QED  BY <1>1, InitIInv, NextIInv, PTL DEF Spec

\* Whatever fails, whoever locks the cache after a plan finds one of the
\* three outcomes of CacheTransaction, and the plan reported that one.
THEOREM PlanRefinesTransaction == Spec => PlanIsTransaction
<1>1. Init => Transaction!Init
  BY DEF Init, Transaction!Init, Ended
<1>2. IInv /\ [Next]_vars => [Transaction!Next]_(Transaction!vars)
  <2> SUFFICES ASSUME IInv, [Next]_vars
               PROVE  [Transaction!Next]_(Transaction!vars)
    OBVIOUS
  <2> USE DEF plan, Transaction!vars
  <2>1. CASE pc \notin Ended /\ pc' \notin Ended /\ UNCHANGED plan
    BY <2>1
  <2>2. CASE Refuse
    BY <2>2 DEF Refuse, Ended, IInv, Progress, Transaction!Next, Transaction!Restore
  <2>3. CASE Report
    <3>1. disk \in Transaction!Partial
      BY DEF IInv, TypeOK, Progress, Transaction!Partial
    <3>2. pc \notin Ended /\ pc' \in Ended /\ UNCHANGED <<plan, disk>>
      BY <2>3 DEF Report, Ended
    <3>3. failed \/ disk = before
      BY <2>3 DEF Report, IInv, Progress, TypeOK
    <3> QED  BY <2>3, <3>1, <3>2, <3>3
             DEF Report, Transaction!Next, Transaction!Restore, Transaction!GiveUp, Transaction!Partial
  <2>4. CASE Release
    BY <2>4 DEF Release, Ended, IInv, Progress, Transaction!Next, Transaction!Keep
  <2>5. CASE Kill
    <3>1. disk \in Transaction!Partial
      BY DEF IInv, TypeOK, Progress, Transaction!Partial
    <3> QED  BY <2>5, <3>1 DEF Kill, Ended, Transaction!Next, Transaction!GiveUp, Transaction!Partial
  <2>6. CASE Begin \/ Install \/ InstallFails \/ Interrupted \/ Installed
             \/ RestoreOne \/ RestoredAll \/ VerifyOne \/ Rollback
    BY <2>1, <2>6 DEF Begin, Install, InstallFails, Interrupted, Installed, RestoreOne,
                 RestoredAll, VerifyOne, Rollback, NextInstall, Ended
  <2>7. CASE UNCHANGED vars
    BY <2>7 DEF vars
  <2> QED  BY <2>2, <2>3, <2>4, <2>5, <2>6, <2>7 DEF Next
<1> QED  BY <1>1, <1>2, InitIInv, NextIInv, PTL DEF Spec, PlanIsTransaction, Transaction!Spec
===============================================================================
