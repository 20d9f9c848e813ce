---------------------------- MODULE MCLoginProofs ----------------------------
(***************************************************************************)
(* Proofs about the parts of a login (MCLogin), whatever the platforms,    *)
(* processes, temporary names and bounds:                                  *)
(*                                                                         *)
(*   CredentialProcess   BrokersAreEnded                                   *)
(*   HiddenInput         PromptIsRestored                                  *)
(*   PrivateFiles        FilesAreWhole, ClearedIsEmpty                     *)
(*                                                                         *)
(* Each part has an inductive invariant of its own: a step of another part *)
(* leaves its variables alone.                                             *)
(***************************************************************************)
EXTENDS MCLogin, Sequences, FiniteSetTheorems, TLAPS

-------------------------------------------------------------------------------
(***************************************************************************)
(* How a login asks a broker (CredentialProcess).                          *)
(***************************************************************************)
\* The broker does not run, and what it started runs only outside of its group.
Contained == root \notin Broker!Alive /\ (kid = "running" => detached)

Acquiring == {"prepare", "assign", "complete", "cleanup", "reap", "dropped", "ended"}
Failures == {Broker!Nothing, "containment", "cleanup", "too large", "read", "timeout"}
Endings ==
  {Broker!Nothing, "refused", "failed", "invalid", "token", "cut", "containment", "cleanup",
   "too large", "read", "timeout"}

\* While anything may run it does so in an armed group, or what was started is dead.
BrokerOrder ==
  /\ step \in {"prepare", "assign"} => status = Broker!Nothing
  /\ step = "prepare" => root = "none" /\ kid = "none" /\ ~group
  /\ step \in {"assign", "complete", "cleanup", "reap", "dropped"} => group
  /\ step = "dropped" => result = "cut"
  /\ step = "ended" /\ group => result = "cleanup"
  /\ step = "complete" /\ status # Broker!Nothing => root = "reaped" /\ Contained
  /\ step = "reap" /\ failure # "cleanup" => Contained
  /\ step = "ended" /\ ~group /\ result # "cleanup" =>
       Contained /\ (result # "cut" => root \in {"none", "reaped"})
  /\ bytes = "all" => written = "all"

BrokerInvariant == Broker!TypeOK /\ BrokerOrder

LEMMA BrokerStarts ==
  LoginInit => BrokerInvariant
<1> SUFFICES ASSUME LoginInit  PROVE BrokerInvariant
  OBVIOUS
<1> QED
  BY BrokersAssumption
  DEF LoginInit, Broker!Init, BrokerInvariant, BrokerOrder, Broker!TypeOK, Contained,
      Broker!Alive, Broker!Gone, Broker!Codes, Broker!Nothing

\* What the broker and what it started do by themselves.
LEMMA WorldKept ==
  ASSUME BrokerInvariant, Broker!Broker \/ Broker!Exits \/ Broker!Deadline
  PROVE  BrokerInvariant'
<1> USE DEF Broker!Alive, Broker!Gone, Broker!Codes, Broker!Nothing, Broker!world
<1>1. CASE Broker!Fork
  <2> USE <1>1 DEF Broker!Fork
  <2>1. Broker!TypeOK'
    <3>1. /\ platform' = platform /\ late' = late /\ step' = step /\ resuming' = resuming
          /\ root' = root /\ detached' = detached /\ code' = code /\ written' = written
          /\ stuck' = stuck /\ status' = status /\ bytes' = bytes /\ group' = group
          /\ grace' = grace /\ failure' = failure /\ result' = result
      OBVIOUS
    <3>2. kid' \in {"none", "running", "killed", "exited"}
      BY DEF BrokerInvariant, Broker!TypeOK, Acquiring, Failures, Endings
    <3> QED
      BY <3>1, <3>2, Zenon DEF BrokerInvariant, Broker!TypeOK, Acquiring, Failures, Endings
  <2>2. BrokerOrder'
    BY DEF BrokerInvariant, Broker!TypeOK, BrokerOrder, Contained
  <2> QED  BY <2>1, <2>2 DEF BrokerInvariant
<1>2. CASE Broker!Detach
  <2> USE <1>2 DEF Broker!Detach
  <2>1. Broker!TypeOK'
    <3>1. /\ platform' = platform /\ late' = late /\ step' = step /\ resuming' = resuming
          /\ root' = root /\ kid' = kid /\ code' = code /\ written' = written /\ stuck' = stuck
          /\ status' = status /\ bytes' = bytes /\ group' = group /\ grace' = grace
          /\ failure' = failure /\ result' = result
      OBVIOUS
    <3>2. detached' \in BOOLEAN
      BY DEF BrokerInvariant, Broker!TypeOK, Acquiring, Failures, Endings
    <3> QED
      BY <3>1, <3>2, Zenon DEF BrokerInvariant, Broker!TypeOK, Acquiring, Failures, Endings
  <2>2. BrokerOrder'
    BY DEF BrokerInvariant, Broker!TypeOK, BrokerOrder, Contained
  <2> QED  BY <2>1, <2>2 DEF BrokerInvariant
<1>3. CASE Broker!PrintToken
  <2> USE <1>3 DEF Broker!PrintToken
  <2>1. Broker!TypeOK'
    <3>1. /\ platform' = platform /\ late' = late /\ step' = step /\ resuming' = resuming
          /\ root' = root /\ kid' = kid /\ detached' = detached /\ code' = code /\ stuck' = stuck
          /\ status' = status /\ bytes' = bytes /\ group' = group /\ grace' = grace
          /\ failure' = failure /\ result' = result
      OBVIOUS
    <3>2. written' \in {"none", "some", "all", "excess"}
      BY DEF BrokerInvariant, Broker!TypeOK, Acquiring, Failures, Endings
    <3> QED
      BY <3>1, <3>2, Zenon DEF BrokerInvariant, Broker!TypeOK, Acquiring, Failures, Endings
  <2>2. BrokerOrder'
    BY DEF BrokerInvariant, Broker!TypeOK, BrokerOrder, Contained
  <2> QED  BY <2>1, <2>2 DEF BrokerInvariant
<1>4. CASE Broker!RootExits
  <2> USE <1>4 DEF Broker!RootExits
  <2>1. Broker!TypeOK'
    <3>1. /\ platform' = platform /\ late' = late /\ step' = step /\ resuming' = resuming
          /\ kid' = kid /\ detached' = detached /\ written' = written /\ stuck' = stuck
          /\ status' = status /\ bytes' = bytes /\ group' = group /\ grace' = grace
          /\ failure' = failure /\ result' = result
      OBVIOUS
    <3>2. root' \in Broker!Alive \cup Broker!Gone /\ code' \in Broker!Codes \cup {Broker!Nothing}
      BY DEF BrokerInvariant, Broker!TypeOK, Acquiring, Failures, Endings
    <3> QED
      BY <3>1, <3>2, Zenon DEF BrokerInvariant, Broker!TypeOK, Acquiring, Failures, Endings
  <2>2. BrokerOrder'
    BY DEF BrokerInvariant, Broker!TypeOK, BrokerOrder, Contained
  <2> QED  BY <2>1, <2>2 DEF BrokerInvariant
<1>5. CASE Broker!KidExits
  <2> USE <1>5 DEF Broker!KidExits
  <2>1. Broker!TypeOK'
    <3>1. /\ platform' = platform /\ late' = late /\ step' = step /\ resuming' = resuming
          /\ root' = root /\ detached' = detached /\ code' = code /\ written' = written
          /\ stuck' = stuck /\ status' = status /\ bytes' = bytes /\ group' = group
          /\ grace' = grace /\ failure' = failure /\ result' = result
      OBVIOUS
    <3>2. kid' \in {"none", "running", "killed", "exited"}
      BY DEF BrokerInvariant, Broker!TypeOK, Acquiring, Failures, Endings
    <3> QED
      BY <3>1, <3>2, Zenon DEF BrokerInvariant, Broker!TypeOK, Acquiring, Failures, Endings
  <2>2. BrokerOrder'
    BY DEF BrokerInvariant, Broker!TypeOK, BrokerOrder, Contained
  <2> QED  BY <2>1, <2>2 DEF BrokerInvariant
<1>6. CASE Broker!Deadline
  <2> USE <1>6 DEF Broker!Deadline
  <2>1. Broker!TypeOK'
    <3>1. /\ platform' = platform /\ step' = step /\ resuming' = resuming /\ root' = root
          /\ kid' = kid /\ detached' = detached /\ code' = code /\ written' = written
          /\ stuck' = stuck /\ status' = status /\ bytes' = bytes /\ group' = group
          /\ grace' = grace /\ failure' = failure /\ result' = result
      OBVIOUS
    <3>2. late' \in BOOLEAN
      BY DEF BrokerInvariant, Broker!TypeOK, Acquiring, Failures, Endings
    <3> QED
      BY <3>1, <3>2, Zenon DEF BrokerInvariant, Broker!TypeOK, Acquiring, Failures, Endings
  <2>2. BrokerOrder'
    BY DEF BrokerInvariant, Broker!TypeOK, BrokerOrder, Contained
  <2> QED  BY <2>1, <2>2 DEF BrokerInvariant
<1> QED  BY <1>1, <1>2, <1>3, <1>4, <1>5, <1>6 DEF Broker!Broker, Broker!Exits

\* Starting a broker and watching it.
LEMMA WatchKept ==
  ASSUME BrokerInvariant,
         \/ Broker!Refuse \/ Broker!Spawn \/ Broker!Assign \/ Broker!Resume \/ Broker!AssignFails
         \/ Broker!CollectExit \/ Broker!CollectOutput \/ Broker!WatchFails \/ Broker!Timeout
         \/ Broker!Answer
  PROVE  BrokerInvariant'
<1> USE DEF Broker!Alive, Broker!Gone, Broker!Codes, Broker!Nothing, Broker!world, Broker!Watching,
            Broker!End
<1>1. CASE Broker!Refuse
  <2> USE <1>1 DEF Broker!Refuse
  <2>1. Broker!TypeOK'
    <3>1. /\ platform' = platform /\ late' = late /\ resuming' = resuming /\ root' = root
          /\ kid' = kid /\ detached' = detached /\ code' = code /\ written' = written
          /\ stuck' = stuck /\ status' = status /\ bytes' = bytes /\ group' = group
          /\ grace' = grace /\ failure' = failure
      OBVIOUS
    <3>2. step' \in Acquiring /\ result' \in Endings
      BY DEF BrokerInvariant, Broker!TypeOK, Acquiring, Failures, Endings
    <3> QED
      BY <3>1, <3>2, Zenon DEF BrokerInvariant, Broker!TypeOK, Acquiring, Failures, Endings
  <2>2. BrokerOrder'
    BY DEF BrokerInvariant, Broker!TypeOK, BrokerOrder, Contained
  <2> QED  BY <2>1, <2>2 DEF BrokerInvariant
<1>2. CASE Broker!Spawn
  <2> USE <1>2 DEF Broker!Spawn
  <2>1. Broker!TypeOK'
    <3>1. /\ platform' = platform /\ late' = late /\ resuming' = resuming /\ kid' = kid
          /\ detached' = detached /\ code' = code /\ written' = written /\ stuck' = stuck
          /\ status' = status /\ bytes' = bytes /\ grace' = grace /\ failure' = failure
          /\ result' = result
      OBVIOUS
    <3>2. step' \in Acquiring /\ root' \in Broker!Alive \cup Broker!Gone /\ group' \in BOOLEAN
      BY DEF BrokerInvariant, Broker!TypeOK, Acquiring, Failures, Endings
    <3> QED
      BY <3>1, <3>2, Zenon DEF BrokerInvariant, Broker!TypeOK, Acquiring, Failures, Endings
  <2>2. BrokerOrder'
    BY DEF BrokerInvariant, Broker!TypeOK, BrokerOrder, Contained
  <2> QED  BY <2>1, <2>2 DEF BrokerInvariant
<1>3. CASE Broker!Assign
  <2> USE <1>3 DEF Broker!Assign
  <2>1. Broker!TypeOK'
    <3>1. /\ platform' = platform /\ late' = late /\ step' = step /\ root' = root /\ kid' = kid
          /\ detached' = detached /\ code' = code /\ written' = written /\ stuck' = stuck
          /\ status' = status /\ bytes' = bytes /\ group' = group /\ grace' = grace
          /\ failure' = failure /\ result' = result
      OBVIOUS
    <3>2. resuming' \in {"no", "assigned"}
      BY DEF BrokerInvariant, Broker!TypeOK, Acquiring, Failures, Endings
    <3> QED
      BY <3>1, <3>2, Zenon DEF BrokerInvariant, Broker!TypeOK, Acquiring, Failures, Endings
  <2>2. BrokerOrder'
    BY DEF BrokerInvariant, Broker!TypeOK, BrokerOrder, Contained
  <2> QED  BY <2>1, <2>2 DEF BrokerInvariant
<1>4. CASE Broker!Resume
  <2> USE <1>4 DEF Broker!Resume
  <2>1. Broker!TypeOK'
    <3>1. /\ platform' = platform /\ late' = late /\ resuming' = resuming /\ kid' = kid
          /\ detached' = detached /\ code' = code /\ written' = written /\ stuck' = stuck
          /\ status' = status /\ bytes' = bytes /\ group' = group /\ grace' = grace
          /\ failure' = failure /\ result' = result
      OBVIOUS
    <3>2. step' \in Acquiring /\ root' \in Broker!Alive \cup Broker!Gone
      BY DEF BrokerInvariant, Broker!TypeOK, Acquiring, Failures, Endings
    <3> QED
      BY <3>1, <3>2, Zenon DEF BrokerInvariant, Broker!TypeOK, Acquiring, Failures, Endings
  <2>2. BrokerOrder'
    BY DEF BrokerInvariant, Broker!TypeOK, BrokerOrder, Contained
  <2> QED  BY <2>1, <2>2 DEF BrokerInvariant
<1>5. CASE Broker!AssignFails
  <2> USE <1>5 DEF Broker!AssignFails
  <2>1. Broker!TypeOK'
    <3>1. /\ platform' = platform /\ late' = late /\ resuming' = resuming /\ kid' = kid
          /\ detached' = detached /\ code' = code /\ written' = written /\ stuck' = stuck
          /\ status' = status /\ bytes' = bytes /\ group' = group /\ grace' = grace
          /\ result' = result
      OBVIOUS
    <3>2. step' \in Acquiring /\ root' \in Broker!Alive \cup Broker!Gone /\ failure' \in Failures
      BY DEF BrokerInvariant, Broker!TypeOK, Acquiring, Failures, Endings
    <3> QED
      BY <3>1, <3>2, Zenon DEF BrokerInvariant, Broker!TypeOK, Acquiring, Failures, Endings
  <2>2. BrokerOrder'
    BY DEF BrokerInvariant, Broker!TypeOK, BrokerOrder, Contained
  <2> QED  BY <2>1, <2>2 DEF BrokerInvariant
<1>6. CASE Broker!CollectExit
  <2> USE <1>6 DEF Broker!CollectExit
  <2>1. Broker!TypeOK'
    <3>1. /\ platform' = platform /\ late' = late /\ resuming' = resuming /\ detached' = detached
          /\ code' = code /\ written' = written /\ stuck' = stuck /\ bytes' = bytes
          /\ group' = group /\ grace' = grace /\ result' = result
      OBVIOUS
    <3>2. /\ step' \in Acquiring /\ root' \in Broker!Alive \cup Broker!Gone
          /\ kid' \in {"none", "running", "killed", "exited"}
          /\ status' \in Broker!Codes \cup {Broker!Nothing} /\ failure' \in Failures
      BY DEF BrokerInvariant, Broker!TypeOK, Acquiring, Failures, Endings
    <3> QED
      BY <3>1, <3>2, Zenon DEF BrokerInvariant, Broker!TypeOK, Acquiring, Failures, Endings
  <2>2. BrokerOrder'
    BY DEF BrokerInvariant, Broker!TypeOK, BrokerOrder, Contained
  <2> QED  BY <2>1, <2>2 DEF BrokerInvariant
<1>7. CASE Broker!CollectOutput
  <2> USE <1>7 DEF Broker!CollectOutput
  <2>1. Broker!TypeOK'
    <3>1. /\ platform' = platform /\ late' = late /\ resuming' = resuming /\ root' = root
          /\ kid' = kid /\ detached' = detached /\ code' = code /\ written' = written
          /\ stuck' = stuck /\ status' = status /\ group' = group /\ grace' = grace
          /\ result' = result
      OBVIOUS
    <3>2. /\ step' \in Acquiring /\ bytes' \in {Broker!Nothing, "none", "some", "all"}
          /\ failure' \in Failures
      BY DEF BrokerInvariant, Broker!TypeOK, Acquiring, Failures, Endings
    <3> QED
      BY <3>1, <3>2, Zenon DEF BrokerInvariant, Broker!TypeOK, Acquiring, Failures, Endings
  <2>2. BrokerOrder'
    BY DEF BrokerInvariant, Broker!TypeOK, BrokerOrder, Contained
  <2> QED  BY <2>1, <2>2 DEF BrokerInvariant
<1>8. CASE Broker!WatchFails
  <2> USE <1>8 DEF Broker!WatchFails
  <2>1. Broker!TypeOK'
    <3>1. /\ platform' = platform /\ late' = late /\ resuming' = resuming /\ root' = root
          /\ kid' = kid /\ detached' = detached /\ code' = code /\ written' = written
          /\ stuck' = stuck /\ status' = status /\ bytes' = bytes /\ group' = group
          /\ grace' = grace /\ result' = result
      OBVIOUS
    <3>2. step' \in Acquiring /\ failure' \in Failures
      BY DEF BrokerInvariant, Broker!TypeOK, Acquiring, Failures, Endings
    <3> QED
      BY <3>1, <3>2, Zenon DEF BrokerInvariant, Broker!TypeOK, Acquiring, Failures, Endings
  <2>2. BrokerOrder'
    BY DEF BrokerInvariant, Broker!TypeOK, BrokerOrder, Contained
  <2> QED  BY <2>1, <2>2 DEF BrokerInvariant
<1>9. CASE Broker!Timeout
  <2> USE <1>9 DEF Broker!Timeout
  <2>1. Broker!TypeOK'
    <3>1. /\ platform' = platform /\ late' = late /\ resuming' = resuming /\ root' = root
          /\ kid' = kid /\ detached' = detached /\ code' = code /\ written' = written
          /\ stuck' = stuck /\ status' = status /\ bytes' = bytes /\ group' = group
          /\ grace' = grace /\ result' = result
      OBVIOUS
    <3>2. step' \in Acquiring /\ failure' \in Failures
      BY DEF BrokerInvariant, Broker!TypeOK, Acquiring, Failures, Endings
    <3> QED
      BY <3>1, <3>2, Zenon DEF BrokerInvariant, Broker!TypeOK, Acquiring, Failures, Endings
  <2>2. BrokerOrder'
    BY DEF BrokerInvariant, Broker!TypeOK, BrokerOrder, Contained
  <2> QED  BY <2>1, <2>2 DEF BrokerInvariant
<1>10. CASE Broker!Answer
  <2> USE <1>10 DEF Broker!Answer
  <2>1. Broker!TypeOK'
    <3>1. /\ platform' = platform /\ late' = late /\ resuming' = resuming /\ root' = root
          /\ kid' = kid /\ detached' = detached /\ code' = code /\ written' = written
          /\ stuck' = stuck /\ status' = status /\ bytes' = bytes /\ grace' = grace
          /\ failure' = failure
      OBVIOUS
    <3>2. step' \in Acquiring /\ group' \in BOOLEAN /\ result' \in Endings
      BY DEF BrokerInvariant, Broker!TypeOK, Acquiring, Failures, Endings
    <3> QED
      BY <3>1, <3>2, Zenon DEF BrokerInvariant, Broker!TypeOK, Acquiring, Failures, Endings
  <2>2. BrokerOrder'
    BY DEF BrokerInvariant, Broker!TypeOK, BrokerOrder, Contained
  <2> QED  BY <2>1, <2>2 DEF BrokerInvariant
<1> QED  BY <1>1, <1>2, <1>3, <1>4, <1>5, <1>6, <1>7, <1>8, <1>9, <1>10

\* Ending what was started.
LEMMA CleanupKept ==
  ASSUME BrokerInvariant,
         \/ Broker!Terminate \/ Broker!Reap \/ Broker!Second \/ Broker!ReapTimeout \/ Broker!Cut
         \/ Broker!Drop
  PROVE  BrokerInvariant'
<1> USE DEF Broker!Alive, Broker!Gone, Broker!Codes, Broker!Nothing, Broker!world, Broker!End
<1>1. CASE Broker!Terminate
  <2> USE <1>1 DEF Broker!Terminate
  <2>1. Broker!TypeOK'
    <3>1. /\ platform' = platform /\ late' = late /\ resuming' = resuming /\ detached' = detached
          /\ code' = code /\ written' = written /\ stuck' = stuck /\ status' = status
          /\ bytes' = bytes /\ group' = group /\ grace' = grace /\ result' = result
      OBVIOUS
    <3>2. /\ step' \in Acquiring /\ root' \in Broker!Alive \cup Broker!Gone
          /\ kid' \in {"none", "running", "killed", "exited"} /\ failure' \in Failures
      BY DEF BrokerInvariant, Broker!TypeOK, Acquiring, Failures, Endings
    <3> QED
      BY <3>1, <3>2, Zenon DEF BrokerInvariant, Broker!TypeOK, Acquiring, Failures, Endings
  <2>2. BrokerOrder'
    BY DEF BrokerInvariant, Broker!TypeOK, BrokerOrder, Contained
  <2> QED  BY <2>1, <2>2 DEF BrokerInvariant
<1>2. CASE Broker!Reap
  <2> USE <1>2 DEF Broker!Reap
  <2>1. Broker!TypeOK'
    <3>1. /\ platform' = platform /\ late' = late /\ resuming' = resuming /\ kid' = kid
          /\ detached' = detached /\ code' = code /\ written' = written /\ stuck' = stuck
          /\ status' = status /\ bytes' = bytes /\ grace' = grace /\ failure' = failure
      OBVIOUS
    <3>2. /\ step' \in Acquiring /\ root' \in Broker!Alive \cup Broker!Gone /\ group' \in BOOLEAN
          /\ result' \in Endings
      BY DEF BrokerInvariant, Broker!TypeOK, Acquiring, Failures, Endings
    <3> QED
      BY <3>1, <3>2, Zenon DEF BrokerInvariant, Broker!TypeOK, Acquiring, Failures, Endings
  <2>2. BrokerOrder'
    BY DEF BrokerInvariant, Broker!TypeOK, BrokerOrder, Contained
  <2> QED  BY <2>1, <2>2 DEF BrokerInvariant
<1>3. CASE Broker!Second
  <2> USE <1>3 DEF Broker!Second
  <2>1. Broker!TypeOK'
    <3>1. /\ platform' = platform /\ late' = late /\ step' = step /\ resuming' = resuming
          /\ root' = root /\ kid' = kid /\ detached' = detached /\ code' = code
          /\ written' = written /\ stuck' = stuck /\ status' = status /\ bytes' = bytes
          /\ group' = group /\ failure' = failure /\ result' = result
      OBVIOUS
    <3>2. grace' \in BOOLEAN
      BY DEF BrokerInvariant, Broker!TypeOK, Acquiring, Failures, Endings
    <3> QED
      BY <3>1, <3>2, Zenon DEF BrokerInvariant, Broker!TypeOK, Acquiring, Failures, Endings
  <2>2. BrokerOrder'
    BY DEF BrokerInvariant, Broker!TypeOK, BrokerOrder, Contained
  <2> QED  BY <2>1, <2>2 DEF BrokerInvariant
<1>4. CASE Broker!ReapTimeout
  <2> USE <1>4 DEF Broker!ReapTimeout
  <2>1. Broker!TypeOK'
    <3>1. /\ platform' = platform /\ late' = late /\ resuming' = resuming /\ root' = root
          /\ kid' = kid /\ detached' = detached /\ code' = code /\ written' = written
          /\ stuck' = stuck /\ status' = status /\ bytes' = bytes /\ group' = group
          /\ grace' = grace /\ failure' = failure
      OBVIOUS
    <3>2. step' \in Acquiring /\ result' \in Endings
      BY DEF BrokerInvariant, Broker!TypeOK, Acquiring, Failures, Endings
    <3> QED
      BY <3>1, <3>2, Zenon DEF BrokerInvariant, Broker!TypeOK, Acquiring, Failures, Endings
  <2>2. BrokerOrder'
    BY DEF BrokerInvariant, Broker!TypeOK, BrokerOrder, Contained
  <2> QED  BY <2>1, <2>2 DEF BrokerInvariant
<1>5. CASE Broker!Cut
  <2> USE <1>5 DEF Broker!Cut
  <2>1. Broker!TypeOK'
    <3>1. /\ platform' = platform /\ late' = late /\ resuming' = resuming /\ root' = root
          /\ kid' = kid /\ detached' = detached /\ code' = code /\ written' = written
          /\ stuck' = stuck /\ status' = status /\ bytes' = bytes /\ group' = group
          /\ grace' = grace /\ failure' = failure
      OBVIOUS
    <3>2. step' \in Acquiring /\ result' \in Endings
      BY DEF BrokerInvariant, Broker!TypeOK, Acquiring, Failures, Endings
    <3> QED
      BY <3>1, <3>2, Zenon DEF BrokerInvariant, Broker!TypeOK, Acquiring, Failures, Endings
  <2>2. BrokerOrder'
    BY DEF BrokerInvariant, Broker!TypeOK, BrokerOrder, Contained
  <2> QED  BY <2>1, <2>2 DEF BrokerInvariant
<1>6. CASE Broker!Drop
  <2> USE <1>6 DEF Broker!Drop
  <2>1. Broker!TypeOK'
    <3>1. /\ platform' = platform /\ late' = late /\ resuming' = resuming /\ detached' = detached
          /\ code' = code /\ written' = written /\ stuck' = stuck /\ status' = status
          /\ bytes' = bytes /\ grace' = grace /\ failure' = failure /\ result' = result
      OBVIOUS
    <3>2. /\ step' \in Acquiring /\ root' \in Broker!Alive \cup Broker!Gone
          /\ kid' \in {"none", "running", "killed", "exited"} /\ group' \in BOOLEAN
      BY DEF BrokerInvariant, Broker!TypeOK, Acquiring, Failures, Endings
    <3> QED
      BY <3>1, <3>2, Zenon DEF BrokerInvariant, Broker!TypeOK, Acquiring, Failures, Endings
  <2>2. BrokerOrder'
    BY DEF BrokerInvariant, Broker!TypeOK, BrokerOrder, Contained
  <2> QED  BY <2>1, <2>2 DEF BrokerInvariant
<1> QED  BY <1>1, <1>2, <1>3, <1>4, <1>5, <1>6

LEMMA BrokerRestsElsewhere ==
  ASSUME LoginNext \/ UNCHANGED all
  PROVE  Broker!Next \/ UNCHANGED brokerVars
BY DEF LoginNext, all, InPlan, InBroker, InPrompt, InStore

LEMMA BrokerStepKept ==
  ASSUME BrokerInvariant, LoginNext \/ UNCHANGED all
  PROVE  BrokerInvariant'
<1>1. CASE Broker!Next
  BY <1>1, WorldKept, WatchKept, CleanupKept DEF Broker!Next, Broker!Acquire
<1>2. CASE UNCHANGED brokerVars
  <2> USE <1>2 DEF brokerVars
  <2>1. Broker!TypeOK'
    <3>1. /\ platform' = platform /\ late' = late /\ step' = step /\ resuming' = resuming
          /\ root' = root /\ kid' = kid /\ detached' = detached /\ code' = code
          /\ written' = written /\ stuck' = stuck /\ status' = status /\ bytes' = bytes
          /\ group' = group /\ grace' = grace /\ failure' = failure /\ result' = result
      OBVIOUS
    <3> QED  BY <3>1, Zenon DEF BrokerInvariant, Broker!TypeOK
  <2>2. BrokerOrder'
    BY DEF BrokerInvariant, BrokerOrder, Contained
  <2> QED  BY <2>1, <2>2 DEF BrokerInvariant
<1> QED  BY <1>1, <1>2, BrokerRestsElsewhere

LEMMA BrokerKept ==
  LoginSpec => []BrokerInvariant
<1>1. BrokerInvariant /\ [LoginNext]_all => BrokerInvariant'
  BY BrokerStepKept
<1> QED  BY <1>1, BrokerStarts, PTL DEF LoginSpec

\* Nothing that a broker started in its group outlives the acquisition of a token,
\* whether that ends with one or with an error or is dropped, and the broker is reaped,
\* unless the error says that the cleanup could not be confirmed
\* (acquire_credential_process, terminate_and_reap_credential_process).
THEOREM BrokersAreEnded == LoginSpec => []BrokerInv
<1>1. BrokerInvariant => BrokerInv
  BY DEF BrokerInvariant, BrokerOrder, BrokerInv, Broker!NothingOutlives, Broker!Reaped,
         Broker!Over, Contained, Broker!TypeOK, Broker!Alive, Broker!Gone
<1> QED  BY <1>1, BrokerKept, PTL

-------------------------------------------------------------------------------
(***************************************************************************)
(* How a login reads a secret (HiddenInput).                               *)
(***************************************************************************)
Readers == {"open", "hide", "check", "read", "restore", "sent"}
Lines == {"empty", "partial", "line"}
Reasons == {Prompt!Nothing, "canceled", "timeout", "error"}
Answers == {Prompt!Nothing, "secret", "canceled", "timeout", "error", "cleanup"}

\* The echo is off only between the terminal's settings being kept and restored, and
\* what is typed meanwhile is flushed before the answer, or the answer says otherwise.
PromptOrder ==
  /\ source # "terminal" => echo
  /\ source = "pipe" => reader \in {"open", "sent"}
  /\ reader = "hide" => source = "terminal"
  /\ reader \in {"open", "hide"} => echo /\ ~leftover
  /\ reader = "sent" => echo \/ answer = "cleanup"
  /\ reader = "sent" /\ source # "pipe" /\ leftover => answer \in {"secret", "cleanup"}
  /\ over /\ ~forced => reader = "sent" \/ source = "pipe"

PromptInvariant == Prompt!TypeOK /\ PromptOrder

LEMMA PromptStarts ==
  LoginInit => PromptInvariant
<1> SUFFICES ASSUME LoginInit  PROVE PromptInvariant
  OBVIOUS
<1> QED
  BY DEF LoginInit, Prompt!Init, PromptInvariant, PromptOrder, Prompt!TypeOK, Prompt!Nothing

\* The user, the signals and the clock.
LEMMA OutsideKept ==
  ASSUME PromptInvariant,
         Prompt!Type \/ Prompt!Signal \/ Prompt!Deadline
  PROVE  PromptInvariant'
<1> USE DEF Prompt!control, Prompt!Nothing, Prompt!Reading, Prompt!Answer
<1>1. CASE Prompt!Type
  <2> USE <1>1 DEF Prompt!Type
  <2>1. Prompt!TypeOK'
    <3>1. /\ source' = source /\ reader' = reader /\ echo' = echo /\ canceled' = canceled
          /\ overdue' = overdue /\ forced' = forced /\ abandoned' = abandoned /\ answer' = answer
          /\ over' = over
      OBVIOUS
    <3>2. line' \in Lines /\ leftover' \in BOOLEAN
      BY DEF PromptInvariant, Prompt!TypeOK, Readers, Lines, Reasons, Answers
    <3> QED
      BY <3>1, <3>2 DEF PromptInvariant, Prompt!TypeOK, Readers, Lines, Reasons, Answers
  <2>2. PromptOrder'
    BY DEF PromptInvariant, Prompt!TypeOK, PromptOrder
  <2> QED  BY <2>1, <2>2 DEF PromptInvariant
<1>2. CASE Prompt!Signal
  <2> USE <1>2 DEF Prompt!Signal
  <2>1. Prompt!TypeOK'
    <3>1. /\ source' = source /\ reader' = reader /\ echo' = echo /\ line' = line
          /\ leftover' = leftover /\ overdue' = overdue /\ abandoned' = abandoned
          /\ answer' = answer /\ over' = over
      OBVIOUS
    <3>2. canceled' \in BOOLEAN /\ forced' \in BOOLEAN
      BY DEF PromptInvariant, Prompt!TypeOK, Readers, Lines, Reasons, Answers
    <3> QED
      BY <3>1, <3>2 DEF PromptInvariant, Prompt!TypeOK, Readers, Lines, Reasons, Answers
  <2>2. PromptOrder'
    BY DEF PromptInvariant, Prompt!TypeOK, PromptOrder
  <2> QED  BY <2>1, <2>2 DEF PromptInvariant
<1>3. CASE Prompt!Deadline
  <2> USE <1>3 DEF Prompt!Deadline
  <2>1. Prompt!TypeOK'
    <3>1. /\ source' = source /\ reader' = reader /\ echo' = echo /\ line' = line
          /\ leftover' = leftover /\ canceled' = canceled /\ forced' = forced
          /\ abandoned' = abandoned /\ answer' = answer /\ over' = over
      OBVIOUS
    <3>2. overdue' \in BOOLEAN
      BY DEF PromptInvariant, Prompt!TypeOK, Readers, Lines, Reasons, Answers
    <3> QED
      BY <3>1, <3>2 DEF PromptInvariant, Prompt!TypeOK, Readers, Lines, Reasons, Answers
  <2>2. PromptOrder'
    BY DEF PromptInvariant, Prompt!TypeOK, PromptOrder
  <2> QED  BY <2>1, <2>2 DEF PromptInvariant
<1> QED
  BY <1>1, <1>2, <1>3

\* The thread that reads.
LEMMA ReaderKept ==
  ASSUME PromptInvariant,
         Prompt!Thread \/ Prompt!ReadFails
  PROVE  PromptInvariant'
<1> USE DEF Prompt!control, Prompt!Nothing, Prompt!Reading, Prompt!Answer
<1>1. CASE Prompt!OpenTerminal
  <2> USE <1>1 DEF Prompt!OpenTerminal
  <2>1. Prompt!TypeOK'
    <3>1. /\ source' = source /\ echo' = echo /\ line' = line /\ leftover' = leftover
          /\ canceled' = canceled /\ overdue' = overdue /\ forced' = forced
          /\ abandoned' = abandoned /\ over' = over
      OBVIOUS
    <3>2. reader' \in Readers /\ answer' \in Answers
      BY DEF PromptInvariant, Prompt!TypeOK, Readers, Lines, Reasons, Answers
    <3> QED
      BY <3>1, <3>2 DEF PromptInvariant, Prompt!TypeOK, Readers, Lines, Reasons, Answers
  <2>2. PromptOrder'
    BY DEF PromptInvariant, Prompt!TypeOK, PromptOrder
  <2> QED  BY <2>1, <2>2 DEF PromptInvariant
<1>2. CASE Prompt!Hide
  <2> USE <1>2 DEF Prompt!Hide
  <2>1. Prompt!TypeOK'
    <3>1. /\ source' = source /\ line' = line /\ leftover' = leftover /\ canceled' = canceled
          /\ overdue' = overdue /\ forced' = forced /\ abandoned' = abandoned /\ over' = over
      OBVIOUS
    <3>2. echo' \in BOOLEAN /\ reader' \in Readers /\ answer' \in Answers
      BY DEF PromptInvariant, Prompt!TypeOK, Readers, Lines, Reasons, Answers
    <3> QED
      BY <3>1, <3>2 DEF PromptInvariant, Prompt!TypeOK, Readers, Lines, Reasons, Answers
  <2>2. PromptOrder'
    <3>1. source = "terminal" /\ echo /\ ~leftover /\ ~over
      BY DEF PromptInvariant, PromptOrder
    <3>2. CASE ~echo' /\ reader' = "check"
      BY <3>1, <3>2 DEF PromptOrder
    <3>3. CASE echo' = echo /\ reader' = "sent"
      BY <3>1, <3>3 DEF PromptOrder
    <3> QED  BY <3>2, <3>3
  <2> QED  BY <2>1, <2>2 DEF PromptInvariant
<1>3. CASE Prompt!Check
  <2> USE <1>3 DEF Prompt!Check
  <2>1. Prompt!TypeOK'
    <3>1. /\ source' = source /\ echo' = echo /\ line' = line /\ leftover' = leftover
          /\ canceled' = canceled /\ overdue' = overdue /\ forced' = forced /\ answer' = answer
          /\ over' = over
      OBVIOUS
    <3>2. reader' \in Readers /\ abandoned' \in Reasons
      BY DEF PromptInvariant, Prompt!TypeOK, Readers, Lines, Reasons, Answers
    <3> QED
      BY <3>1, <3>2 DEF PromptInvariant, Prompt!TypeOK, Readers, Lines, Reasons, Answers
  <2>2. PromptOrder'
    BY DEF PromptInvariant, Prompt!TypeOK, PromptOrder
  <2> QED  BY <2>1, <2>2 DEF PromptInvariant
<1>4. CASE Prompt!ReadLine
  <2> USE <1>4 DEF Prompt!ReadLine
  <2>1. Prompt!TypeOK'
    <3>1. /\ source' = source /\ echo' = echo /\ canceled' = canceled /\ overdue' = overdue
          /\ forced' = forced /\ answer' = answer /\ over' = over
      OBVIOUS
    <3>2. /\ line' \in Lines /\ leftover' \in BOOLEAN /\ reader' \in Readers
          /\ abandoned' \in Reasons
      BY DEF PromptInvariant, Prompt!TypeOK, Readers, Lines, Reasons, Answers
    <3> QED
      BY <3>1, <3>2 DEF PromptInvariant, Prompt!TypeOK, Readers, Lines, Reasons, Answers
  <2>2. PromptOrder'
    BY DEF PromptInvariant, Prompt!TypeOK, PromptOrder
  <2> QED  BY <2>1, <2>2 DEF PromptInvariant
<1>5. CASE Prompt!ReadFails
  <2> USE <1>5 DEF Prompt!ReadFails
  <2>1. Prompt!TypeOK'
    <3>1. /\ source' = source /\ echo' = echo /\ line' = line /\ leftover' = leftover
          /\ canceled' = canceled /\ overdue' = overdue /\ forced' = forced /\ answer' = answer
          /\ over' = over
      OBVIOUS
    <3>2. reader' \in Readers /\ abandoned' \in Reasons
      BY DEF PromptInvariant, Prompt!TypeOK, Readers, Lines, Reasons, Answers
    <3> QED
      BY <3>1, <3>2 DEF PromptInvariant, Prompt!TypeOK, Readers, Lines, Reasons, Answers
  <2>2. PromptOrder'
    BY DEF PromptInvariant, Prompt!TypeOK, PromptOrder
  <2> QED  BY <2>1, <2>2 DEF PromptInvariant
<1>6. CASE Prompt!Restore
  <2> USE <1>6 DEF Prompt!Restore
  <2>1. Prompt!TypeOK'
    <3>1. /\ source' = source /\ canceled' = canceled /\ overdue' = overdue /\ forced' = forced
          /\ abandoned' = abandoned /\ over' = over
      OBVIOUS
    <3>2. /\ echo' \in BOOLEAN /\ reader' \in Readers /\ answer' \in Answers /\ line' \in Lines
          /\ leftover' \in BOOLEAN
      BY DEF PromptInvariant, Prompt!TypeOK, Readers, Lines, Reasons, Answers
    <3> QED
      BY <3>1, <3>2 DEF PromptInvariant, Prompt!TypeOK, Readers, Lines, Reasons, Answers
  <2>2. PromptOrder'
    BY DEF PromptInvariant, Prompt!TypeOK, PromptOrder
  <2> QED  BY <2>1, <2>2 DEF PromptInvariant
<1>7. CASE Prompt!OpenConsole
  <2> USE <1>7 DEF Prompt!OpenConsole
  <2>1. Prompt!TypeOK'
    <3>1. /\ source' = source /\ echo' = echo /\ line' = line /\ leftover' = leftover
          /\ canceled' = canceled /\ overdue' = overdue /\ forced' = forced
          /\ abandoned' = abandoned /\ over' = over
      OBVIOUS
    <3>2. reader' \in Readers /\ answer' \in Answers
      BY DEF PromptInvariant, Prompt!TypeOK, Readers, Lines, Reasons, Answers
    <3> QED
      BY <3>1, <3>2 DEF PromptInvariant, Prompt!TypeOK, Readers, Lines, Reasons, Answers
  <2>2. PromptOrder'
    BY DEF PromptInvariant, Prompt!TypeOK, PromptOrder
  <2> QED  BY <2>1, <2>2 DEF PromptInvariant
<1>8. CASE Prompt!ReadKeys
  <2> USE <1>8 DEF Prompt!ReadKeys
  <2>1. Prompt!TypeOK'
    <3>1. /\ source' = source /\ echo' = echo /\ canceled' = canceled /\ overdue' = overdue
          /\ forced' = forced /\ over' = over
      OBVIOUS
    <3>2. /\ reader' \in Readers /\ answer' \in Answers /\ line' \in Lines
          /\ leftover' \in BOOLEAN /\ abandoned' \in Reasons
      BY DEF PromptInvariant, Prompt!TypeOK, Readers, Lines, Reasons, Answers
    <3> QED
      BY <3>1, <3>2 DEF PromptInvariant, Prompt!TypeOK, Readers, Lines, Reasons, Answers
  <2>2. PromptOrder'
    BY DEF PromptInvariant, Prompt!TypeOK, PromptOrder
  <2> QED  BY <2>1, <2>2 DEF PromptInvariant
<1>9. CASE Prompt!Flush
  <2> USE <1>9 DEF Prompt!Flush
  <2>1. Prompt!TypeOK'
    <3>1. /\ source' = source /\ echo' = echo /\ canceled' = canceled /\ overdue' = overdue
          /\ forced' = forced /\ abandoned' = abandoned /\ over' = over
      OBVIOUS
    <3>2. /\ reader' \in Readers /\ answer' \in Answers /\ line' \in Lines
          /\ leftover' \in BOOLEAN
      BY DEF PromptInvariant, Prompt!TypeOK, Readers, Lines, Reasons, Answers
    <3> QED
      BY <3>1, <3>2 DEF PromptInvariant, Prompt!TypeOK, Readers, Lines, Reasons, Answers
  <2>2. PromptOrder'
    BY DEF PromptInvariant, Prompt!TypeOK, PromptOrder
  <2> QED  BY <2>1, <2>2 DEF PromptInvariant
<1>10. CASE Prompt!ReadPipe
  <2> USE <1>10 DEF Prompt!ReadPipe
  <2>1. Prompt!TypeOK'
    <3>1. /\ source' = source /\ echo' = echo /\ line' = line /\ leftover' = leftover
          /\ canceled' = canceled /\ overdue' = overdue /\ forced' = forced
          /\ abandoned' = abandoned /\ over' = over
      OBVIOUS
    <3>2. reader' \in Readers /\ answer' \in Answers
      BY DEF PromptInvariant, Prompt!TypeOK, Readers, Lines, Reasons, Answers
    <3> QED
      BY <3>1, <3>2 DEF PromptInvariant, Prompt!TypeOK, Readers, Lines, Reasons, Answers
  <2>2. PromptOrder'
    BY DEF PromptInvariant, Prompt!TypeOK, PromptOrder
  <2> QED  BY <2>1, <2>2 DEF PromptInvariant
<1> QED
  BY <1>1, <1>2, <1>3, <1>4, <1>5, <1>6, <1>7, <1>8, <1>9, <1>10 DEF Prompt!Thread

\* The command that waits for it.
LEMMA CommandKept ==
  ASSUME PromptInvariant,
         Prompt!Command
  PROVE  PromptInvariant'
<1> USE DEF Prompt!control, Prompt!Nothing, Prompt!Reading, Prompt!Answer
<1>1. CASE Prompt!Take
  <2> USE <1>1 DEF Prompt!Take
  <2>1. Prompt!TypeOK'
    <3>1. /\ source' = source /\ reader' = reader /\ echo' = echo /\ line' = line
          /\ leftover' = leftover /\ canceled' = canceled /\ overdue' = overdue
          /\ forced' = forced /\ abandoned' = abandoned /\ answer' = answer
      OBVIOUS
    <3>2. over' \in BOOLEAN
      BY DEF PromptInvariant, Prompt!TypeOK, Readers, Lines, Reasons, Answers
    <3> QED
      BY <3>1, <3>2 DEF PromptInvariant, Prompt!TypeOK, Readers, Lines, Reasons, Answers
  <2>2. PromptOrder'
    BY DEF PromptInvariant, Prompt!TypeOK, PromptOrder
  <2> QED  BY <2>1, <2>2 DEF PromptInvariant
<1>2. CASE Prompt!GiveUpPipe
  <2> USE <1>2 DEF Prompt!GiveUpPipe
  <2>1. Prompt!TypeOK'
    <3>1. /\ source' = source /\ reader' = reader /\ echo' = echo /\ line' = line
          /\ leftover' = leftover /\ canceled' = canceled /\ overdue' = overdue
          /\ forced' = forced /\ abandoned' = abandoned
      OBVIOUS
    <3>2. over' \in BOOLEAN /\ answer' \in Answers
      BY DEF PromptInvariant, Prompt!TypeOK, Readers, Lines, Reasons, Answers
    <3> QED
      BY <3>1, <3>2 DEF PromptInvariant, Prompt!TypeOK, Readers, Lines, Reasons, Answers
  <2>2. PromptOrder'
    BY DEF PromptInvariant, Prompt!TypeOK, PromptOrder
  <2> QED  BY <2>1, <2>2 DEF PromptInvariant
<1>3. CASE Prompt!Leave
  <2> USE <1>3 DEF Prompt!Leave
  <2>1. Prompt!TypeOK'
    <3>1. /\ source' = source /\ reader' = reader /\ echo' = echo /\ line' = line
          /\ leftover' = leftover /\ canceled' = canceled /\ overdue' = overdue
          /\ forced' = forced /\ abandoned' = abandoned /\ answer' = answer
      OBVIOUS
    <3>2. over' \in BOOLEAN
      BY DEF PromptInvariant, Prompt!TypeOK, Readers, Lines, Reasons, Answers
    <3> QED
      BY <3>1, <3>2 DEF PromptInvariant, Prompt!TypeOK, Readers, Lines, Reasons, Answers
  <2>2. PromptOrder'
    BY DEF PromptInvariant, Prompt!TypeOK, PromptOrder
  <2> QED  BY <2>1, <2>2 DEF PromptInvariant
<1> QED
  BY <1>1, <1>2, <1>3 DEF Prompt!Command

LEMMA PromptRestsElsewhere ==
  ASSUME LoginNext \/ UNCHANGED all
  PROVE  Prompt!Next \/ UNCHANGED promptVars
BY DEF LoginNext, all, InPlan, InBroker, InPrompt, InStore

LEMMA PromptStepKept ==
  ASSUME PromptInvariant, LoginNext \/ UNCHANGED all
  PROVE  PromptInvariant'
<1>1. CASE Prompt!Next
  BY <1>1, OutsideKept, ReaderKept, CommandKept DEF Prompt!Next
<1>2. CASE UNCHANGED promptVars
  <2>1. /\ source' = source /\ reader' = reader /\ echo' = echo /\ line' = line
        /\ leftover' = leftover /\ canceled' = canceled /\ overdue' = overdue
        /\ forced' = forced /\ abandoned' = abandoned /\ answer' = answer /\ over' = over
    BY <1>2 DEF promptVars
  <2> QED  BY <2>1 DEF PromptInvariant, PromptOrder, Prompt!TypeOK
<1> QED  BY <1>1, <1>2, PromptRestsElsewhere

LEMMA PromptKept ==
  LoginSpec => []PromptInvariant
<1>1. PromptInvariant /\ [LoginNext]_all => PromptInvariant'
  BY PromptStepKept
<1> QED  BY <1>1, PromptStarts, PTL DEF LoginSpec

\* However the read of a secret ends, the terminal shows again what is typed, and what
\* was typed for a read that was given up is left to nobody, unless the error says
\* otherwise or a second signal ended the process
\* (read_hidden_secret_unix_from, read_hidden_console_line_until).
THEOREM PromptIsRestored == LoginSpec => []PromptInv
<1>1. PromptInvariant => PromptInv
  BY DEF PromptInvariant, PromptOrder, PromptInv, Prompt!EchoRestored, Prompt!NothingLeftOver,
         Prompt!TypeOK
<1> QED  BY <1>1, PromptKept, PTL

-------------------------------------------------------------------------------
(***************************************************************************)
(* How a private file is replaced and removed (PrivateFiles).              *)
(***************************************************************************)
Whole == {"absent", "synced"}
Temporary == [name : Temporaries \cup {"none"}, data : {"none", "partial", "synced"}]

DiskTypes ==
  /\ parent \in {"missing", "made", "lasting"} /\ history \in Seq(Whole)
  /\ temps \subseteq Temporaries /\ lockFile \in 0..1 /\ faults \in 0..MaxFaults

ProcessTypes ==
  /\ at \in [Processes -> Store!Steps] /\ op \in [Processes -> {"write", "clear", "read"}]
  /\ handle \in [Processes -> 0..1] /\ temp \in [Processes -> Temporary]
  /\ seen \in [Processes -> Nat] /\ due \in [Processes -> SUBSET (Temporaries \cup {"target"})]
  /\ mine \in [Processes -> BOOLEAN]
  /\ reply \in [Processes -> [ok : BOOLEAN, committed : BOOLEAN]]
  /\ since \in [Processes -> Nat]

\* What was acknowledged is synced.
Durable ==
  /\ acked \in Nat /\ synced \in Nat
  /\ 1 <= acked /\ acked <= synced /\ synced <= Len(history) /\ Len(history) <= MaxChanges + 1

\* One process at a time holds the lock.
Alone == \A p, q \in Processes : Store!Locked(p) /\ Store!Locked(q) => p = q

\* Until a step of these, an operation has changed nothing.
Harmless ==
  {"open", "made", "handle", "wait", "create", "fill", "install", "list", "read", "verify",
   "reading"}

\* A writer has its temporary file, filled and synced before it is renamed.
Writing(p) ==
  /\ at[p] \in Store!Critical \cup {"wait", "create"} => handle[p] = 1
  /\ at[p] \in {"create", "fill", "install", "sync"} => op[p] = "write"
  /\ at[p] \in {"fill", "install"} => temp[p].name \in temps
  /\ at[p] = "install" => temp[p].data = "synced"
  /\ at[p] \notin {"fill", "install"} => temp[p] = Store!NoTemp

\* A reader has opened a file no older than what was acknowledged before it.
ReadingOf(p) ==
  /\ at[p] \in {"read", "verify", "reading"} => op[p] = "read"
  /\ seen[p] <= Len(history) /\ since[p] <= acked
  /\ at[p] \in {"verify", "reading"} => 1 <= seen[p]
  /\ at[p] = "reading" => since[p] <= seen[p]

\* What an operation has changed, it knows.
Knowing(p) ==
  /\ at[p] \in Harmless => ~mine[p]
  /\ at[p] \in {"sync", "unlinked"} => mine[p]
  /\ at[p] = "idle" => (reply[p].committed <=> mine[p])

\* A clear has synced what it removed, and has yet to remove whatever is there.
Clearing(p) ==
  /\ at[p] = "remove" /\ mine[p] => synced = Len(history)
  /\ at[p] \in {"remove", "unlinked"} => Store!TargetImages \cup temps \subseteq due[p]

Sound(p) == Writing(p) /\ ReadingOf(p) /\ Knowing(p) /\ Clearing(p)

StoreInvariant ==
  DiskTypes /\ ProcessTypes /\ Durable /\ Alone /\ \A p \in Processes : Sound(p)

LEMMA StoreStarts ==
  LoginInit => StoreInvariant
<1> SUFFICES ASSUME LoginInit  PROVE StoreInvariant
  OBVIOUS
<1> USE DEF LoginInit, Store!Init
<1>1. DiskTypes /\ Durable
  BY BoundsAssumption DEF DiskTypes, Durable, Whole
<1>2. ProcessTypes
  BY DEF ProcessTypes, Temporary, Store!Steps, Store!NoTemp, Store!NoReply
<1>3. Alone
  BY DEF Alone, Store!Locked, Store!Critical
<1>4. ASSUME NEW p \in Processes  PROVE Sound(p)
  BY DEF Sound, Writing, ReadingOf, Knowing, Clearing, Harmless, Store!Critical, Store!NoReply
<1> QED  BY <1>1, <1>2, <1>3, <1>4 DEF StoreInvariant

\* What a step of a process leaves to the others.
Elsewhere(p) ==
  \A q \in Processes \ {p} :
    /\ at'[q] = at[q] /\ op'[q] = op[q] /\ handle'[q] = handle[q] /\ temp'[q] = temp[q]
    /\ seen'[q] = seen[q] /\ due'[q] = due[q] /\ mine'[q] = mine[q]
    /\ reply'[q] = reply[q] /\ since'[q] = since[q]

\* Only the holder of the lock changes the directory; nothing is taken back.
Onward(p) ==
  /\ Store!Locked(p) \/ UNCHANGED <<history, synced, temps>>
  /\ Len(history) <= Len(history') /\ acked <= acked'

\* A process gets the lock when nobody has it.
Admitted(p) ==
  Store!Locked(p)' => Store!Locked(p) \/ \A q \in Processes : ~Store!Locked(q)

\* What holds of a process holds after a step of another one.
LEMMA OthersKept ==
  ASSUME StoreInvariant, NEW p \in Processes, NEW q \in Processes, q # p,
         DiskTypes', Durable', Elsewhere(p), Onward(p)
  PROVE  Sound(q)'
<1>1. /\ at'[q] = at[q] /\ op'[q] = op[q] /\ handle'[q] = handle[q] /\ temp'[q] = temp[q]
      /\ seen'[q] = seen[q] /\ due'[q] = due[q] /\ mine'[q] = mine[q]
      /\ reply'[q] = reply[q] /\ since'[q] = since[q]
  BY DEF Elsewhere
<1>2. Sound(q) /\ ProcessTypes /\ Durable
  BY DEF StoreInvariant
<1>3. Store!Locked(q) => UNCHANGED <<history, synced, temps>>
  BY DEF StoreInvariant, Alone, Onward
<1>4. at[q] \in {"fill", "install", "remove", "unlinked"} => Store!Locked(q)
  BY DEF Store!Locked, Store!Critical
<1>5. Writing(q)'
  BY <1>1, <1>2, <1>3, <1>4 DEF Sound, Writing, Store!Critical, Store!NoTemp
<1>6. ReadingOf(q)'
  <2>1. seen[q] \in Nat /\ since[q] \in Nat
    BY <1>2 DEF ProcessTypes
  <2>2. Len(history) \in Nat /\ Len(history') \in Nat /\ acked \in Nat /\ acked' \in Nat
    BY <1>2 DEF Durable, StoreInvariant, DiskTypes
  <2> QED  BY <1>1, <1>2, <2>1, <2>2 DEF Sound, ReadingOf, Onward
<1>7. Knowing(q)'
  BY <1>1, <1>2 DEF Sound, Knowing
<1>8. Clearing(q)'
  BY <1>1, <1>2, <1>3, <1>4
  DEF Sound, Clearing, Store!TargetImages, Store!Present, Store!Image, Store!Target
<1> QED  BY <1>5, <1>6, <1>7, <1>8 DEF Sound

LEMMA StoreMoves ==
  ASSUME StoreInvariant, NEW p \in Processes,
         DiskTypes', ProcessTypes', Durable', Elsewhere(p), Onward(p), Admitted(p), Sound(p)'
  PROVE  StoreInvariant'
<1>1. Alone'
  <2> SUFFICES ASSUME NEW r \in Processes, NEW q \in Processes, Store!Locked(r)', Store!Locked(q)'
               PROVE  r = q
    BY DEF Alone
  <2>1. \A s \in Processes \ {p} : Store!Locked(s)' => Store!Locked(s)
    BY DEF Elsewhere, Store!Locked
  <2> QED  BY <2>1 DEF StoreInvariant, Alone, Admitted
<1>2. ASSUME NEW q \in Processes  PROVE Sound(q)'
  BY <1>2, OthersKept
<1> QED  BY <1>1, <1>2 DEF StoreInvariant

\* Starting an operation and entering the directory.
LEMMA EntersKept ==
  ASSUME StoreInvariant, NEW p \in Processes,
         \/ Store!Begin(p) \/ Store!Make(p) \/ Store!SyncAbove(p) \/ Store!Enter(p)
         \/ Store!NoParent(p)
  PROVE  StoreInvariant'
<1> USE DEF Store!To, Store!Reply, Store!NoReply, Store!NoTemp, Store!disk
<1>1. CASE Store!Begin(p)
  <2> USE <1>1 DEF Store!Begin, Store!Start
  <2>1. DiskTypes'
    BY DEF StoreInvariant, DiskTypes, Whole
  <2>2. ProcessTypes'
    <3>1. PICK operation \in {"write", "clear", "read"} : Store!Start(p, operation)
      OBVIOUS
    <3> HIDE DEF Store!Begin
    <3>2. acked \in Nat /\ ProcessTypes
      BY DEF StoreInvariant, Durable
    <3>3. /\ at' \in [Processes -> Store!Steps] /\ handle' \in [Processes -> 0..1]
          /\ op' \in [Processes -> {"write", "clear", "read"}]
      BY <3>1, <3>2 DEF ProcessTypes, Store!Steps
    <3>4. temp' = temp /\ seen' = seen /\ due' = due
      BY <3>1
    <3>5. /\ mine' \in [Processes -> BOOLEAN]
          /\ reply' \in [Processes -> [ok : BOOLEAN, committed : BOOLEAN]]
      BY <3>1, <3>2 DEF ProcessTypes
    <3>6. since' \in [Processes -> Nat]
      BY <3>1, <3>2 DEF ProcessTypes
    <3> QED  BY <3>2, <3>3, <3>4, <3>5, <3>6 DEF ProcessTypes
  <2>3. Elsewhere(p)
    BY DEF StoreInvariant, ProcessTypes, Elsewhere
  <2>4. Durable' /\ Onward(p)
    BY DEF StoreInvariant, DiskTypes, Durable, Onward, Store!Locked, Store!Critical
  <2>5. Admitted(p)
    BY DEF StoreInvariant, ProcessTypes, Admitted, Store!Locked, Store!Critical
  <2>6. Writing(p)'
    BY DEF StoreInvariant, ProcessTypes, Sound, Writing, Store!Critical
  <2>7. ReadingOf(p)'
    BY DEF StoreInvariant, DiskTypes, ProcessTypes, Durable, Sound, ReadingOf
  <2>8. Knowing(p)'
    BY DEF StoreInvariant, ProcessTypes, Sound, Knowing, Harmless
  <2>9. Clearing(p)'
    BY DEF StoreInvariant, ProcessTypes, Sound, Clearing
  <2> QED  BY <2>1, <2>2, <2>3, <2>4, <2>5, <2>6, <2>7, <2>8, <2>9, StoreMoves DEF Sound
<1>2. CASE Store!Make(p)
  <2> USE <1>2 DEF Store!Make
  <2>1. DiskTypes'
    BY DEF StoreInvariant, DiskTypes, Whole
  <2>2. ProcessTypes'
    BY DEF StoreInvariant, ProcessTypes, Temporary, Store!Steps, Store!Critical
  <2>3. Elsewhere(p)
    BY DEF StoreInvariant, ProcessTypes, Elsewhere
  <2>4. Durable' /\ Onward(p)
    BY DEF StoreInvariant, DiskTypes, Durable, Onward, Store!Locked, Store!Critical
  <2>5. Admitted(p)
    BY DEF StoreInvariant, ProcessTypes, Admitted, Store!Locked, Store!Critical
  <2>6. Writing(p)'
    BY DEF StoreInvariant, ProcessTypes, Sound, Writing, Store!Critical
  <2>7. ReadingOf(p)'
    BY DEF StoreInvariant, DiskTypes, ProcessTypes, Durable, Sound, ReadingOf
  <2>8. Knowing(p)'
    BY DEF StoreInvariant, ProcessTypes, Sound, Knowing, Harmless
  <2>9. Clearing(p)'
    BY DEF StoreInvariant, ProcessTypes, Sound, Clearing
  <2> QED  BY <2>1, <2>2, <2>3, <2>4, <2>5, <2>6, <2>7, <2>8, <2>9, StoreMoves DEF Sound
<1>3. CASE Store!SyncAbove(p)
  <2> USE <1>3 DEF Store!SyncAbove, Store!After
  <2>1. DiskTypes'
    BY DEF StoreInvariant, DiskTypes, Whole
  <2>2. ProcessTypes'
    BY DEF StoreInvariant, ProcessTypes, Temporary, Store!Steps, Store!Critical
  <2>3. Elsewhere(p)
    BY DEF StoreInvariant, ProcessTypes, Elsewhere
  <2>4. Durable' /\ Onward(p)
    BY DEF StoreInvariant, DiskTypes, Durable, Onward, Store!Locked, Store!Critical
  <2>5. Admitted(p)
    BY DEF StoreInvariant, ProcessTypes, Admitted, Store!Locked, Store!Critical
  <2>6. Writing(p)'
    BY DEF StoreInvariant, ProcessTypes, Sound, Writing, Store!Critical
  <2>7. ReadingOf(p)'
    BY DEF StoreInvariant, DiskTypes, ProcessTypes, Durable, Sound, ReadingOf
  <2>8. Knowing(p)'
    BY DEF StoreInvariant, ProcessTypes, Sound, Knowing, Harmless
  <2>9. Clearing(p)'
    BY DEF StoreInvariant, ProcessTypes, Sound, Clearing
  <2> QED  BY <2>1, <2>2, <2>3, <2>4, <2>5, <2>6, <2>7, <2>8, <2>9, StoreMoves DEF Sound
<1>4. CASE Store!Enter(p)
  <2> USE <1>4 DEF Store!Enter, Store!After
  <2>1. DiskTypes'
    BY DEF StoreInvariant, DiskTypes, Whole
  <2>2. ProcessTypes'
    BY DEF StoreInvariant, ProcessTypes, Temporary, Store!Steps, Store!Critical
  <2>3. Elsewhere(p)
    BY DEF StoreInvariant, ProcessTypes, Elsewhere
  <2>4. Durable' /\ Onward(p)
    BY DEF StoreInvariant, DiskTypes, Durable, Onward, Store!Locked, Store!Critical
  <2>5. Admitted(p)
    BY DEF StoreInvariant, ProcessTypes, Admitted, Store!Locked, Store!Critical
  <2>6. Writing(p)'
    BY DEF StoreInvariant, ProcessTypes, Sound, Writing, Store!Critical
  <2>7. ReadingOf(p)'
    BY DEF StoreInvariant, DiskTypes, ProcessTypes, Durable, Sound, ReadingOf
  <2>8. Knowing(p)'
    BY DEF StoreInvariant, ProcessTypes, Sound, Knowing, Harmless
  <2>9. Clearing(p)'
    BY DEF StoreInvariant, ProcessTypes, Sound, Clearing
  <2> QED  BY <2>1, <2>2, <2>3, <2>4, <2>5, <2>6, <2>7, <2>8, <2>9, StoreMoves DEF Sound
<1>5. CASE Store!NoParent(p)
  <2> USE <1>5 DEF Store!NoParent
  <2>1. DiskTypes'
    BY DEF StoreInvariant, DiskTypes, Whole
  <2>2. ProcessTypes'
    BY DEF StoreInvariant, ProcessTypes, Temporary, Store!Steps, Store!Critical
  <2>3. Elsewhere(p)
    BY DEF StoreInvariant, ProcessTypes, Elsewhere
  <2>4. Durable' /\ Onward(p)
    BY DEF StoreInvariant, DiskTypes, Durable, Onward, Store!Locked, Store!Critical
  <2>5. Admitted(p)
    BY DEF StoreInvariant, ProcessTypes, Admitted, Store!Locked, Store!Critical
  <2>6. Writing(p)'
    BY DEF StoreInvariant, ProcessTypes, Sound, Writing, Store!Critical
  <2>7. ReadingOf(p)'
    BY DEF StoreInvariant, DiskTypes, ProcessTypes, Durable, Sound, ReadingOf
  <2>8. Knowing(p)'
    BY DEF StoreInvariant, ProcessTypes, Sound, Knowing, Harmless
  <2>9. Clearing(p)'
    BY DEF StoreInvariant, ProcessTypes, Sound, Clearing
  <2> QED  BY <2>1, <2>2, <2>3, <2>4, <2>5, <2>6, <2>7, <2>8, <2>9, StoreMoves DEF Sound
<1> QED
  BY <1>1, <1>2, <1>3, <1>4, <1>5

\* The lock.
LEMMA LockKept ==
  ASSUME StoreInvariant, NEW p \in Processes,
         \/ Store!OpenLock(p) \/ Store!TryLock(p) \/ Store!GiveUp(p)
  PROVE  StoreInvariant'
<1> USE DEF Store!To, Store!Reply, Store!NoReply, Store!NoTemp, Store!disk
<1>1. CASE Store!OpenLock(p)
  <2> USE <1>1 DEF Store!OpenLock
  <2>1. DiskTypes'
    BY DEF StoreInvariant, DiskTypes, Whole
  <2>2. ProcessTypes'
    BY DEF StoreInvariant, DiskTypes, ProcessTypes, Temporary, Store!Steps, Store!Critical
  <2>3. Elsewhere(p)
    BY DEF StoreInvariant, ProcessTypes, Elsewhere
  <2>4. Durable' /\ Onward(p)
    BY DEF StoreInvariant, DiskTypes, Durable, Onward, Store!Locked, Store!Critical
  <2>5. Admitted(p)
    BY DEF StoreInvariant, ProcessTypes, Admitted, Store!Locked, Store!Critical
  <2>6. Writing(p)'
    <3>1. lockFile' = 1
      BY DEF StoreInvariant, DiskTypes
    <3>2. handle'[p] = 1 /\ at'[p] = "wait"
      BY <3>1 DEF StoreInvariant, ProcessTypes
    <3>3. temp'[p] = Store!NoTemp
      BY DEF StoreInvariant, Sound, Writing
    <3> QED  BY <3>2, <3>3 DEF Writing
  <2>7. ReadingOf(p)'
    BY DEF StoreInvariant, DiskTypes, ProcessTypes, Durable, Sound, ReadingOf
  <2>8. Knowing(p)'
    BY DEF StoreInvariant, ProcessTypes, Sound, Knowing, Harmless
  <2>9. Clearing(p)'
    BY DEF StoreInvariant, ProcessTypes, Sound, Clearing
  <2> QED  BY <2>1, <2>2, <2>3, <2>4, <2>5, <2>6, <2>7, <2>8, <2>9, StoreMoves DEF Sound
<1>2. CASE Store!TryLock(p)
  <2> USE <1>2 DEF Store!TryLock
  <2>1. DiskTypes'
    BY DEF StoreInvariant, DiskTypes, Whole
  <2>2. ProcessTypes'
    BY DEF StoreInvariant, ProcessTypes, Temporary, Store!Steps, Store!Critical
  <2>3. Elsewhere(p)
    BY DEF StoreInvariant, ProcessTypes, Elsewhere
  <2>4. Durable' /\ Onward(p)
    BY DEF StoreInvariant, DiskTypes, Durable, Onward, Store!Locked, Store!Critical
  <2>5. Admitted(p)
    <3>1. handle[p] = 1
      BY DEF StoreInvariant, Sound, Writing
    <3>2. ASSUME NEW q \in Processes, Store!Locked(q)  PROVE handle[q] = 1
      BY <3>2 DEF StoreInvariant, Sound, Writing, Store!Locked
    <3> QED  BY <3>1, <3>2 DEF Admitted, Store!Free
  <2>6. Writing(p)'
    BY DEF StoreInvariant, ProcessTypes, Sound, Writing, Store!Critical
  <2>7. ReadingOf(p)'
    BY DEF StoreInvariant, DiskTypes, ProcessTypes, Durable, Sound, ReadingOf
  <2>8. Knowing(p)'
    BY DEF StoreInvariant, ProcessTypes, Sound, Knowing, Harmless
  <2>9. Clearing(p)'
    BY DEF StoreInvariant, ProcessTypes, Sound, Clearing
  <2> QED  BY <2>1, <2>2, <2>3, <2>4, <2>5, <2>6, <2>7, <2>8, <2>9, StoreMoves DEF Sound
<1>3. CASE Store!GiveUp(p)
  <2> USE <1>3 DEF Store!GiveUp
  <2>1. DiskTypes'
    BY DEF StoreInvariant, DiskTypes, Whole
  <2>2. ProcessTypes'
    BY DEF StoreInvariant, ProcessTypes, Temporary, Store!Steps, Store!Critical
  <2>3. Elsewhere(p)
    BY DEF StoreInvariant, ProcessTypes, Elsewhere
  <2>4. Durable' /\ Onward(p)
    BY DEF StoreInvariant, DiskTypes, Durable, Onward, Store!Locked, Store!Critical
  <2>5. Admitted(p)
    BY DEF StoreInvariant, ProcessTypes, Admitted, Store!Locked, Store!Critical
  <2>6. Writing(p)'
    BY DEF StoreInvariant, ProcessTypes, Sound, Writing, Store!Critical
  <2>7. ReadingOf(p)'
    BY DEF StoreInvariant, DiskTypes, ProcessTypes, Durable, Sound, ReadingOf
  <2>8. Knowing(p)'
    BY DEF StoreInvariant, ProcessTypes, Sound, Knowing, Harmless
  <2>9. Clearing(p)'
    BY DEF StoreInvariant, ProcessTypes, Sound, Clearing
  <2> QED  BY <2>1, <2>2, <2>3, <2>4, <2>5, <2>6, <2>7, <2>8, <2>9, StoreMoves DEF Sound
<1> QED
  BY <1>1, <1>2, <1>3

\* Writing an image.
LEMMA WriteKept ==
  ASSUME StoreInvariant, NEW p \in Processes,
         \/ Store!Create(p) \/ Store!Fill(p) \/ Store!Install(p) \/ Store!SyncEntry(p)
         \/ Store!SyncFails(p) \/ Store!WriteFails(p)
  PROVE  StoreInvariant'
<1> USE DEF Store!To, Store!Reply, Store!NoReply, Store!NoTemp, Store!disk
<1>1. CASE Store!Create(p)
  <2> USE <1>1 DEF Store!Create
  <2>1. DiskTypes'
    BY DEF StoreInvariant, DiskTypes, Whole
  <2>2. ProcessTypes'
    BY DEF StoreInvariant, ProcessTypes, Temporary, Store!Steps, Store!Critical
  <2>3. Elsewhere(p)
    BY DEF StoreInvariant, ProcessTypes, Elsewhere
  <2>4. Durable' /\ Onward(p)
    BY DEF StoreInvariant, DiskTypes, Durable, Onward, Store!Locked, Store!Critical
  <2>5. Admitted(p)
    BY DEF StoreInvariant, ProcessTypes, Admitted, Store!Locked, Store!Critical
  <2>6. Writing(p)'
    BY DEF StoreInvariant, ProcessTypes, Sound, Writing, Store!Critical
  <2>7. ReadingOf(p)'
    BY DEF StoreInvariant, DiskTypes, ProcessTypes, Durable, Sound, ReadingOf
  <2>8. Knowing(p)'
    BY DEF StoreInvariant, ProcessTypes, Sound, Knowing, Harmless
  <2>9. Clearing(p)'
    BY DEF StoreInvariant, ProcessTypes, Sound, Clearing
  <2> QED  BY <2>1, <2>2, <2>3, <2>4, <2>5, <2>6, <2>7, <2>8, <2>9, StoreMoves DEF Sound
<1>2. CASE Store!Fill(p)
  <2> USE <1>2 DEF Store!Fill, Store!Filled
  <2>1. DiskTypes'
    BY DEF StoreInvariant, DiskTypes, Whole
  <2>2. ProcessTypes'
    BY DEF StoreInvariant, ProcessTypes, Temporary, Store!Steps, Store!Critical
  <2>3. Elsewhere(p)
    BY DEF StoreInvariant, ProcessTypes, Elsewhere
  <2>4. Durable' /\ Onward(p)
    BY DEF StoreInvariant, DiskTypes, Durable, Onward, Store!Locked, Store!Critical
  <2>5. Admitted(p)
    BY DEF StoreInvariant, ProcessTypes, Admitted, Store!Locked, Store!Critical
  <2>6. Writing(p)'
    BY DEF StoreInvariant, ProcessTypes, Sound, Writing, Store!Critical
  <2>7. ReadingOf(p)'
    BY DEF StoreInvariant, DiskTypes, ProcessTypes, Durable, Sound, ReadingOf
  <2>8. Knowing(p)'
    BY DEF StoreInvariant, ProcessTypes, Sound, Knowing, Harmless
  <2>9. Clearing(p)'
    BY DEF StoreInvariant, ProcessTypes, Sound, Clearing
  <2> QED  BY <2>1, <2>2, <2>3, <2>4, <2>5, <2>6, <2>7, <2>8, <2>9, StoreMoves DEF Sound
<1>3. CASE Store!Install(p)
  <2> USE <1>3 DEF Store!Install
  <2>1. DiskTypes'
    <3>1. temp[p].data \in Whole
      BY DEF StoreInvariant, Sound, Writing, Whole
    <3>2. history \in Seq(Whole)
      BY DEF StoreInvariant, DiskTypes
    <3>3. history' \in Seq(Whole)
      BY <3>1, <3>2
    <3> QED  BY <3>3 DEF StoreInvariant, DiskTypes
  <2>2. ProcessTypes'
    BY DEF StoreInvariant, ProcessTypes, Temporary, Store!Steps, Store!Critical
  <2>3. Elsewhere(p)
    BY DEF StoreInvariant, ProcessTypes, Elsewhere
  <2>4. Durable' /\ Onward(p)
    <3>1. history \in Seq(Whole) /\ Len(history) \in Nat
      BY DEF StoreInvariant, DiskTypes
    <3>2. Len(history') = Len(history) + 1
      BY <3>1
    <3>3. acked' = acked /\ synced' = synced /\ Store!Locked(p)
      BY DEF Store!Locked, Store!Critical
    <3> QED
      BY <3>1, <3>2, <3>3, BoundsAssumption DEF StoreInvariant, Durable, Onward
  <2>5. Admitted(p)
    BY DEF StoreInvariant, ProcessTypes, Admitted, Store!Locked, Store!Critical
  <2>6. Writing(p)'
    BY DEF StoreInvariant, ProcessTypes, Sound, Writing, Store!Critical
  <2>7. ReadingOf(p)'
    BY DEF StoreInvariant, DiskTypes, ProcessTypes, Durable, Sound, ReadingOf
  <2>8. Knowing(p)'
    BY DEF StoreInvariant, ProcessTypes, Sound, Knowing, Harmless
  <2>9. Clearing(p)'
    BY DEF StoreInvariant, ProcessTypes, Sound, Clearing
  <2> QED  BY <2>1, <2>2, <2>3, <2>4, <2>5, <2>6, <2>7, <2>8, <2>9, StoreMoves DEF Sound
<1>4. CASE Store!SyncEntry(p)
  <2> USE <1>4 DEF Store!SyncEntry
  <2>1. DiskTypes'
    BY DEF StoreInvariant, DiskTypes, Whole
  <2>2. ProcessTypes'
    BY DEF StoreInvariant, ProcessTypes, Temporary, Store!Steps, Store!Critical
  <2>3. Elsewhere(p)
    BY DEF StoreInvariant, ProcessTypes, Elsewhere
  <2>4. Durable' /\ Onward(p)
    BY DEF StoreInvariant, DiskTypes, Durable, Onward, Store!Locked, Store!Critical
  <2>5. Admitted(p)
    BY DEF StoreInvariant, ProcessTypes, Admitted, Store!Locked, Store!Critical
  <2>6. Writing(p)'
    BY DEF StoreInvariant, ProcessTypes, Sound, Writing, Store!Critical
  <2>7. ReadingOf(p)'
    BY DEF StoreInvariant, DiskTypes, ProcessTypes, Durable, Sound, ReadingOf
  <2>8. Knowing(p)'
    BY DEF StoreInvariant, ProcessTypes, Sound, Knowing, Harmless
  <2>9. Clearing(p)'
    BY DEF StoreInvariant, ProcessTypes, Sound, Clearing
  <2> QED  BY <2>1, <2>2, <2>3, <2>4, <2>5, <2>6, <2>7, <2>8, <2>9, StoreMoves DEF Sound
<1>5. CASE Store!SyncFails(p)
  <2> USE <1>5 DEF Store!SyncFails
  <2>1. DiskTypes'
    BY DEF StoreInvariant, DiskTypes, Whole
  <2>2. ProcessTypes'
    BY DEF StoreInvariant, ProcessTypes, Temporary, Store!Steps, Store!Critical
  <2>3. Elsewhere(p)
    BY DEF StoreInvariant, ProcessTypes, Elsewhere
  <2>4. Durable' /\ Onward(p)
    BY DEF StoreInvariant, DiskTypes, Durable, Onward, Store!Locked, Store!Critical
  <2>5. Admitted(p)
    BY DEF StoreInvariant, ProcessTypes, Admitted, Store!Locked, Store!Critical
  <2>6. Writing(p)'
    BY DEF StoreInvariant, ProcessTypes, Sound, Writing, Store!Critical
  <2>7. ReadingOf(p)'
    BY DEF StoreInvariant, DiskTypes, ProcessTypes, Durable, Sound, ReadingOf
  <2>8. Knowing(p)'
    BY DEF StoreInvariant, ProcessTypes, Sound, Knowing, Harmless
  <2>9. Clearing(p)'
    BY DEF StoreInvariant, ProcessTypes, Sound, Clearing
  <2> QED  BY <2>1, <2>2, <2>3, <2>4, <2>5, <2>6, <2>7, <2>8, <2>9, StoreMoves DEF Sound
<1>6. CASE Store!WriteFails(p)
  <2> USE <1>6 DEF Store!WriteFails
  <2>1. DiskTypes'
    BY DEF StoreInvariant, DiskTypes, Whole
  <2>2. ProcessTypes'
    BY DEF StoreInvariant, ProcessTypes, Temporary, Store!Steps, Store!Critical
  <2>3. Elsewhere(p)
    BY DEF StoreInvariant, ProcessTypes, Elsewhere
  <2>4. Durable' /\ Onward(p)
    <3>1. Store!Locked(p) \/ temps' = temps
      <4>0. at[p] \in {"open", "made", "handle", "create", "fill", "install"}
        OBVIOUS
      <4>1. CASE at[p] \notin {"open", "made", "handle"}
        BY <4>0, <4>1 DEF Store!Locked, Store!Critical
      <4>2. CASE at[p] \in {"open", "made", "handle"}
        <5>1. temp[p].name = "none"
          BY <4>2 DEF StoreInvariant, Sound, Writing
        <5>2. "none" \notin temps
          BY NamesAssumption DEF StoreInvariant, DiskTypes
        <5>3. temps \ {temp[p].name} = temps
          BY <5>1, <5>2
        <5> QED  BY <5>3
      <4> QED  BY <4>1, <4>2
    <3>2. history' = history /\ acked' = acked /\ synced' = synced
      OBVIOUS
    <3>3. Len(history) \in Nat
      BY DEF StoreInvariant, DiskTypes
    <3> QED  BY <3>1, <3>2, <3>3 DEF StoreInvariant, Durable, Onward
  <2>5. Admitted(p)
    BY DEF StoreInvariant, ProcessTypes, Admitted, Store!Locked, Store!Critical
  <2>6. Writing(p)'
    BY DEF StoreInvariant, ProcessTypes, Sound, Writing, Store!Critical
  <2>7. ReadingOf(p)'
    BY DEF StoreInvariant, DiskTypes, ProcessTypes, Durable, Sound, ReadingOf
  <2>8. Knowing(p)'
    BY DEF StoreInvariant, ProcessTypes, Sound, Knowing, Harmless
  <2>9. Clearing(p)'
    BY DEF StoreInvariant, ProcessTypes, Sound, Clearing
  <2> QED  BY <2>1, <2>2, <2>3, <2>4, <2>5, <2>6, <2>7, <2>8, <2>9, StoreMoves DEF Sound
<1> QED
  BY <1>1, <1>2, <1>3, <1>4, <1>5, <1>6

\* Clearing the directory.
LEMMA ClearKept ==
  ASSUME StoreInvariant, NEW p \in Processes,
         \/ Store!List(p) \/ Store!Unlink(p) \/ Store!SyncUnlink(p) \/ Store!Gone(p)
         \/ Store!ClearFails(p) \/ Store!Clear(p)
  PROVE  StoreInvariant'
<1> USE DEF Store!To, Store!Reply, Store!NoReply, Store!NoTemp, Store!disk
<1>1. CASE Store!List(p)
  <2> USE <1>1 DEF Store!List, Store!Listed
  <2>1. DiskTypes'
    BY DEF StoreInvariant, DiskTypes, Whole
  <2>2. ProcessTypes'
    <3>1. Store!TargetImages \cup temps \in SUBSET (Temporaries \cup {"target"})
      BY DEF StoreInvariant, DiskTypes, Store!TargetImages, Store!Target
    <3> QED
      BY <3>1 DEF StoreInvariant, ProcessTypes, Temporary, Store!Steps, Store!Critical
  <2>3. Elsewhere(p)
    BY DEF StoreInvariant, ProcessTypes, Elsewhere
  <2>4. Durable' /\ Onward(p)
    BY DEF StoreInvariant, DiskTypes, Durable, Onward, Store!Locked, Store!Critical
  <2>5. Admitted(p)
    BY DEF StoreInvariant, ProcessTypes, Admitted, Store!Locked, Store!Critical
  <2>6. Writing(p)'
    BY DEF StoreInvariant, ProcessTypes, Sound, Writing, Store!Critical
  <2>7. ReadingOf(p)'
    BY DEF StoreInvariant, DiskTypes, ProcessTypes, Durable, Sound, ReadingOf
  <2>8. Knowing(p)'
    BY DEF StoreInvariant, ProcessTypes, Sound, Knowing, Harmless
  <2>9. Clearing(p)'
    <3>1. due'[p] = Store!TargetImages \cup temps /\ at'[p] = "remove"
      BY DEF StoreInvariant, ProcessTypes
    <3>2. ~mine'[p]
      BY DEF StoreInvariant, Sound, Knowing, Harmless
    <3> QED
      BY <3>1, <3>2 DEF Clearing, Store!TargetImages, Store!Present, Store!Image
  <2> QED  BY <2>1, <2>2, <2>3, <2>4, <2>5, <2>6, <2>7, <2>8, <2>9, StoreMoves DEF Sound
<1>2. CASE Store!Unlink(p)
  <2> USE <1>2 DEF Store!Unlink
  <2>1. DiskTypes'
    BY DEF StoreInvariant, DiskTypes, Whole
  <2>2. ProcessTypes'
    BY DEF StoreInvariant, ProcessTypes, Temporary, Store!Steps, Store!Critical
  <2>3. Elsewhere(p)
    BY DEF StoreInvariant, ProcessTypes, Elsewhere
  <2>4. Durable' /\ Onward(p)
    BY DEF StoreInvariant, DiskTypes, Durable, Onward, Store!Locked, Store!Critical
  <2>5. Admitted(p)
    BY DEF StoreInvariant, ProcessTypes, Admitted, Store!Locked, Store!Critical
  <2>6. Writing(p)'
    BY DEF StoreInvariant, ProcessTypes, Sound, Writing, Store!Critical
  <2>7. ReadingOf(p)'
    BY DEF StoreInvariant, DiskTypes, ProcessTypes, Durable, Sound, ReadingOf
  <2>8. Knowing(p)'
    BY DEF StoreInvariant, ProcessTypes, Sound, Knowing, Harmless
  <2>9. Clearing(p)'
    <3>1. PICK name \in due[p] \cap (Store!TargetImages \cup temps) :
            /\ due' = [due EXCEPT ![p] = @ \ {name}] /\ temps' = temps \ {name}
            /\ history' = IF name = "target" THEN Append(history, "absent") ELSE history
      BY DEF Store!Target
    <3>2. due'[p] = due[p] \ {name} /\ at'[p] = "unlinked"
      BY <3>1 DEF StoreInvariant, ProcessTypes
    <3>3. Store!TargetImages \cup temps \subseteq due[p]
      BY DEF StoreInvariant, Sound, Clearing
    <3>4. CASE name = "target"
      <4>1. history \in Seq(Whole)
        BY DEF StoreInvariant, DiskTypes
      <4>2. history'[Len(history')] = "absent"
        BY <3>1, <3>4, <4>1
      <4>3. Store!TargetImages' = {}
        BY <4>2 DEF Store!TargetImages, Store!Present, Store!Image
      <4> QED  BY <3>1, <3>2, <3>3, <4>3 DEF Clearing
    <3>5. CASE name # "target"
      <4>1. Store!TargetImages' = Store!TargetImages /\ Store!TargetImages \subseteq {"target"}
        BY <3>1, <3>5 DEF Store!TargetImages, Store!Present, Store!Image, Store!Target
      <4> QED  BY <3>1, <3>2, <3>3, <3>5, <4>1 DEF Clearing
    <3> QED  BY <3>4, <3>5
  <2> QED  BY <2>1, <2>2, <2>3, <2>4, <2>5, <2>6, <2>7, <2>8, <2>9, StoreMoves DEF Sound
<1>3. CASE Store!SyncUnlink(p)
  <2> USE <1>3 DEF Store!SyncUnlink
  <2>1. DiskTypes'
    BY DEF StoreInvariant, DiskTypes, Whole
  <2>2. ProcessTypes'
    BY DEF StoreInvariant, ProcessTypes, Temporary, Store!Steps, Store!Critical
  <2>3. Elsewhere(p)
    BY DEF StoreInvariant, ProcessTypes, Elsewhere
  <2>4. Durable' /\ Onward(p)
    BY DEF StoreInvariant, DiskTypes, Durable, Onward, Store!Locked, Store!Critical
  <2>5. Admitted(p)
    BY DEF StoreInvariant, ProcessTypes, Admitted, Store!Locked, Store!Critical
  <2>6. Writing(p)'
    BY DEF StoreInvariant, ProcessTypes, Sound, Writing, Store!Critical
  <2>7. ReadingOf(p)'
    BY DEF StoreInvariant, DiskTypes, ProcessTypes, Durable, Sound, ReadingOf
  <2>8. Knowing(p)'
    BY DEF StoreInvariant, ProcessTypes, Sound, Knowing, Harmless
  <2>9. Clearing(p)'
    <3>1. Store!TargetImages \cup temps \subseteq due[p]
      BY DEF StoreInvariant, Sound, Clearing
    <3> QED
      BY <3>1 DEF Clearing, Store!TargetImages, Store!Present, Store!Image
  <2> QED  BY <2>1, <2>2, <2>3, <2>4, <2>5, <2>6, <2>7, <2>8, <2>9, StoreMoves DEF Sound
<1>4. CASE Store!Gone(p)
  <2> USE <1>4 DEF Store!Gone
  <2>1. DiskTypes'
    BY DEF StoreInvariant, DiskTypes, Whole
  <2>2. ProcessTypes'
    BY DEF StoreInvariant, ProcessTypes, Temporary, Store!Steps, Store!Critical
  <2>3. Elsewhere(p)
    BY DEF StoreInvariant, ProcessTypes, Elsewhere
  <2>4. Durable' /\ Onward(p)
    BY DEF StoreInvariant, DiskTypes, Durable, Onward, Store!Locked, Store!Critical
  <2>5. Admitted(p)
    BY DEF StoreInvariant, ProcessTypes, Admitted, Store!Locked, Store!Critical
  <2>6. Writing(p)'
    BY DEF StoreInvariant, ProcessTypes, Sound, Writing, Store!Critical
  <2>7. ReadingOf(p)'
    BY DEF StoreInvariant, DiskTypes, ProcessTypes, Durable, Sound, ReadingOf
  <2>8. Knowing(p)'
    BY DEF StoreInvariant, ProcessTypes, Sound, Knowing, Harmless
  <2>9. Clearing(p)'
    <3>1. due'[p] = due[p] \cap (Store!TargetImages \cup temps)
      BY DEF StoreInvariant, ProcessTypes
    <3>2. Store!TargetImages \cup temps \subseteq due[p] /\ (mine[p] => synced = Len(history))
      BY DEF StoreInvariant, Sound, Clearing
    <3> QED
      BY <3>1, <3>2 DEF Clearing, Store!TargetImages, Store!Present, Store!Image
  <2> QED  BY <2>1, <2>2, <2>3, <2>4, <2>5, <2>6, <2>7, <2>8, <2>9, StoreMoves DEF Sound
<1>5. CASE Store!ClearFails(p)
  <2> USE <1>5 DEF Store!ClearFails
  <2>1. DiskTypes'
    BY DEF StoreInvariant, DiskTypes, Whole
  <2>2. ProcessTypes'
    BY DEF StoreInvariant, ProcessTypes, Temporary, Store!Steps, Store!Critical
  <2>3. Elsewhere(p)
    BY DEF StoreInvariant, ProcessTypes, Elsewhere
  <2>4. Durable' /\ Onward(p)
    BY DEF StoreInvariant, DiskTypes, Durable, Onward, Store!Locked, Store!Critical
  <2>5. Admitted(p)
    BY DEF StoreInvariant, ProcessTypes, Admitted, Store!Locked, Store!Critical
  <2>6. Writing(p)'
    BY DEF StoreInvariant, ProcessTypes, Sound, Writing, Store!Critical
  <2>7. ReadingOf(p)'
    BY DEF StoreInvariant, DiskTypes, ProcessTypes, Durable, Sound, ReadingOf
  <2>8. Knowing(p)'
    BY DEF StoreInvariant, ProcessTypes, Sound, Knowing, Harmless
  <2>9. Clearing(p)'
    BY DEF StoreInvariant, ProcessTypes, Sound, Clearing
  <2> QED  BY <2>1, <2>2, <2>3, <2>4, <2>5, <2>6, <2>7, <2>8, <2>9, StoreMoves DEF Sound
<1>6. CASE Store!Clear(p)
  <2> USE <1>6 DEF Store!Clear
  <2>1. DiskTypes'
    BY DEF StoreInvariant, DiskTypes, Whole
  <2>2. ProcessTypes'
    BY DEF StoreInvariant, ProcessTypes, Temporary, Store!Steps, Store!Critical
  <2>3. Elsewhere(p)
    BY DEF StoreInvariant, ProcessTypes, Elsewhere
  <2>4. Durable' /\ Onward(p)
    <3>1. acked' = acked \/ (acked' = Len(history) /\ Len(history) = synced)
      BY DEF StoreInvariant, Sound, Clearing
    <3>2. Len(history) \in Nat /\ UNCHANGED <<history, synced, temps>>
      BY DEF StoreInvariant, DiskTypes
    <3> QED  BY <3>1, <3>2 DEF StoreInvariant, Durable, Onward
  <2>5. Admitted(p)
    BY DEF StoreInvariant, ProcessTypes, Admitted, Store!Locked, Store!Critical
  <2>6. Writing(p)'
    BY DEF StoreInvariant, ProcessTypes, Sound, Writing, Store!Critical
  <2>7. ReadingOf(p)'
    BY DEF StoreInvariant, DiskTypes, ProcessTypes, Durable, Sound, ReadingOf
  <2>8. Knowing(p)'
    BY DEF StoreInvariant, ProcessTypes, Sound, Knowing, Harmless
  <2>9. Clearing(p)'
    BY DEF StoreInvariant, ProcessTypes, Sound, Clearing
  <2> QED  BY <2>1, <2>2, <2>3, <2>4, <2>5, <2>6, <2>7, <2>8, <2>9, StoreMoves DEF Sound
<1> QED
  BY <1>1, <1>2, <1>3, <1>4, <1>5, <1>6

\* Reading without the lock, and a kill.
LEMMA ReadKept ==
  ASSUME StoreInvariant, NEW p \in Processes,
         \/ Store!OpenFile(p) \/ Store!Verify(p) \/ Store!Read(p) \/ Store!ReadFails(p)
         \/ Store!Kill(p)
  PROVE  StoreInvariant'
<1> USE DEF Store!To, Store!Reply, Store!NoReply, Store!NoTemp, Store!disk
<1>1. CASE Store!OpenFile(p)
  <2> USE <1>1 DEF Store!OpenFile
  <2>1. DiskTypes'
    BY DEF StoreInvariant, DiskTypes, Whole
  <2>2. ProcessTypes'
    <3>1. Len(history) \in Nat
      BY DEF StoreInvariant, DiskTypes
    <3>2. CASE Store!Present
      BY <3>1, <3>2 DEF StoreInvariant, ProcessTypes, Temporary, Store!Steps, Store!Critical
    <3>3. CASE ~Store!Present
      <4>1. temp' = temp /\ seen' = seen /\ due' = due /\ mine' = mine
        BY <3>3
      <4>2. /\ at' = [at EXCEPT ![p] = "idle"] /\ handle' = [handle EXCEPT ![p] = 0]
            /\ reply' = [reply EXCEPT ![p] = [ok |-> TRUE, committed |-> FALSE]]
            /\ op' = [op EXCEPT ![p] = "read"] /\ since' = [since EXCEPT ![p] = 1]
        BY <3>3
      <4> QED  BY <4>1, <4>2 DEF StoreInvariant, ProcessTypes, Store!Steps
    <3> QED  BY <3>2, <3>3
  <2>3. Elsewhere(p)
    BY DEF StoreInvariant, ProcessTypes, Elsewhere
  <2>4. Durable' /\ Onward(p)
    BY DEF StoreInvariant, DiskTypes, Durable, Onward, Store!Locked, Store!Critical
  <2>5. Admitted(p)
    BY DEF StoreInvariant, ProcessTypes, Admitted, Store!Locked, Store!Critical
  <2>6. Writing(p)'
    BY DEF StoreInvariant, ProcessTypes, Sound, Writing, Store!Critical
  <2>7. ReadingOf(p)'
    BY DEF StoreInvariant, DiskTypes, ProcessTypes, Durable, Sound, ReadingOf
  <2>8. Knowing(p)'
    BY DEF StoreInvariant, ProcessTypes, Sound, Knowing, Harmless
  <2>9. Clearing(p)'
    BY DEF StoreInvariant, ProcessTypes, Sound, Clearing
  <2> QED  BY <2>1, <2>2, <2>3, <2>4, <2>5, <2>6, <2>7, <2>8, <2>9, StoreMoves DEF Sound
<1>2. CASE Store!Verify(p)
  <2> USE <1>2 DEF Store!Verify
  <2>1. DiskTypes'
    BY DEF StoreInvariant, DiskTypes, Whole
  <2>2. ProcessTypes'
    BY DEF StoreInvariant, ProcessTypes, Temporary, Store!Steps, Store!Critical
  <2>3. Elsewhere(p)
    BY DEF StoreInvariant, ProcessTypes, Elsewhere
  <2>4. Durable' /\ Onward(p)
    BY DEF StoreInvariant, DiskTypes, Durable, Onward, Store!Locked, Store!Critical
  <2>5. Admitted(p)
    BY DEF StoreInvariant, ProcessTypes, Admitted, Store!Locked, Store!Critical
  <2>6. Writing(p)'
    BY DEF StoreInvariant, ProcessTypes, Sound, Writing, Store!Critical
  <2>7. ReadingOf(p)'
    BY DEF StoreInvariant, DiskTypes, ProcessTypes, Durable, Sound, ReadingOf
  <2>8. Knowing(p)'
    BY DEF StoreInvariant, ProcessTypes, Sound, Knowing, Harmless
  <2>9. Clearing(p)'
    BY DEF StoreInvariant, ProcessTypes, Sound, Clearing
  <2> QED  BY <2>1, <2>2, <2>3, <2>4, <2>5, <2>6, <2>7, <2>8, <2>9, StoreMoves DEF Sound
<1>3. CASE Store!Read(p)
  <2> USE <1>3 DEF Store!Read
  <2>1. DiskTypes'
    BY DEF StoreInvariant, DiskTypes, Whole
  <2>2. ProcessTypes'
    BY DEF StoreInvariant, ProcessTypes, Temporary, Store!Steps, Store!Critical
  <2>3. Elsewhere(p)
    BY DEF StoreInvariant, ProcessTypes, Elsewhere
  <2>4. Durable' /\ Onward(p)
    BY DEF StoreInvariant, DiskTypes, Durable, Onward, Store!Locked, Store!Critical
  <2>5. Admitted(p)
    BY DEF StoreInvariant, ProcessTypes, Admitted, Store!Locked, Store!Critical
  <2>6. Writing(p)'
    BY DEF StoreInvariant, ProcessTypes, Sound, Writing, Store!Critical
  <2>7. ReadingOf(p)'
    BY DEF StoreInvariant, DiskTypes, ProcessTypes, Durable, Sound, ReadingOf
  <2>8. Knowing(p)'
    BY DEF StoreInvariant, ProcessTypes, Sound, Knowing, Harmless
  <2>9. Clearing(p)'
    BY DEF StoreInvariant, ProcessTypes, Sound, Clearing
  <2> QED  BY <2>1, <2>2, <2>3, <2>4, <2>5, <2>6, <2>7, <2>8, <2>9, StoreMoves DEF Sound
<1>4. CASE Store!ReadFails(p)
  <2> USE <1>4 DEF Store!ReadFails
  <2>1. DiskTypes'
    BY DEF StoreInvariant, DiskTypes, Whole
  <2>2. ProcessTypes'
    BY DEF StoreInvariant, ProcessTypes, Temporary, Store!Steps, Store!Critical
  <2>3. Elsewhere(p)
    BY DEF StoreInvariant, ProcessTypes, Elsewhere
  <2>4. Durable' /\ Onward(p)
    BY DEF StoreInvariant, DiskTypes, Durable, Onward, Store!Locked, Store!Critical
  <2>5. Admitted(p)
    BY DEF StoreInvariant, ProcessTypes, Admitted, Store!Locked, Store!Critical
  <2>6. Writing(p)'
    BY DEF StoreInvariant, ProcessTypes, Sound, Writing, Store!Critical
  <2>7. ReadingOf(p)'
    BY DEF StoreInvariant, DiskTypes, ProcessTypes, Durable, Sound, ReadingOf
  <2>8. Knowing(p)'
    BY DEF StoreInvariant, ProcessTypes, Sound, Knowing, Harmless
  <2>9. Clearing(p)'
    BY DEF StoreInvariant, ProcessTypes, Sound, Clearing
  <2> QED  BY <2>1, <2>2, <2>3, <2>4, <2>5, <2>6, <2>7, <2>8, <2>9, StoreMoves DEF Sound
<1>5. CASE Store!Kill(p)
  <2> USE <1>5 DEF Store!Kill, Store!Reset
  <2>1. DiskTypes'
    BY BoundsAssumption DEF StoreInvariant, DiskTypes, Whole
  <2>2. ProcessTypes'
    <3> USE DEF ProcessTypes
    <3>1. ProcessTypes
      BY DEF StoreInvariant
    <3>2. at' \in [Processes -> Store!Steps] /\ handle' \in [Processes -> 0..1]
      BY <3>1 DEF Store!Steps
    <3>3. temp' \in [Processes -> Temporary]
      BY <3>1 DEF Temporary
    <3>4. /\ seen' \in [Processes -> Nat]
          /\ due' \in [Processes -> SUBSET (Temporaries \cup {"target"})]
      BY <3>1
    <3>5. /\ mine' \in [Processes -> BOOLEAN]
          /\ reply' \in [Processes -> [ok : BOOLEAN, committed : BOOLEAN]]
      BY <3>1
    <3>6. op' \in [Processes -> {"write", "clear", "read"}] /\ since' \in [Processes -> Nat]
      BY <3>1
    <3> QED  BY <3>2, <3>3, <3>4, <3>5, <3>6
  <2>3. Elsewhere(p)
    BY DEF StoreInvariant, ProcessTypes, Elsewhere
  <2>4. Durable' /\ Onward(p)
    BY DEF StoreInvariant, DiskTypes, Durable, Onward, Store!Locked, Store!Critical
  <2>5. Admitted(p)
    BY DEF StoreInvariant, ProcessTypes, Admitted, Store!Locked, Store!Critical
  <2>6. Writing(p)'
    BY DEF StoreInvariant, ProcessTypes, Sound, Writing, Store!Critical
  <2>7. ReadingOf(p)'
    BY DEF StoreInvariant, DiskTypes, ProcessTypes, Durable, Sound, ReadingOf
  <2>8. Knowing(p)'
    BY DEF StoreInvariant, ProcessTypes, Sound, Knowing, Harmless
  <2>9. Clearing(p)'
    BY DEF StoreInvariant, ProcessTypes, Sound, Clearing
  <2> QED  BY <2>1, <2>2, <2>3, <2>4, <2>5, <2>6, <2>7, <2>8, <2>9, StoreMoves DEF Sound
<1> QED
  BY <1>1, <1>2, <1>3, <1>4, <1>5

\* Loss of power: every process starts anew, from what was durable.
LEMMA PowerLossKept ==
  ASSUME StoreInvariant, Store!PowerLoss
  PROVE  StoreInvariant'
<1> USE DEF Store!PowerLoss, Store!Reset
<1>1. /\ \A p \in Processes : at'[p] = "idle" /\ handle'[p] = 0 /\ temp'[p] = Store!NoTemp
      /\ \A p \in Processes : seen'[p] = 0 /\ due'[p] = {} /\ ~mine'[p] /\ since'[p] = 1
      /\ \A p \in Processes : op'[p] = "read" /\ reply'[p] = Store!NoReply
  OBVIOUS
<1>2. ProcessTypes'
  <2>1. at' \in [Processes -> Store!Steps] /\ handle' \in [Processes -> 0..1]
    BY DEF Store!Steps
  <2>2. temp' \in [Processes -> Temporary]
    BY DEF Temporary, Store!NoTemp
  <2>3. /\ seen' \in [Processes -> Nat]
        /\ due' \in [Processes -> SUBSET (Temporaries \cup {"target"})]
    OBVIOUS
  <2>4. /\ mine' \in [Processes -> BOOLEAN]
        /\ reply' \in [Processes -> [ok : BOOLEAN, committed : BOOLEAN]]
    BY DEF Store!NoReply
  <2>5. op' \in [Processes -> {"write", "clear", "read"}] /\ since' \in [Processes -> Nat]
    OBVIOUS
  <2> QED  BY <2>1, <2>2, <2>3, <2>4, <2>5 DEF ProcessTypes
<1>3. history \in Seq(Whole) /\ Len(history) \in Nat
  BY DEF StoreInvariant, DiskTypes
<1>4. history' \in Seq(Whole) /\ Durable'
  <2>1. CASE \E last \in synced..Len(history) :
               /\ history' = [k \in 1..last |-> Store!Torn(history[k])]
               /\ UNCHANGED <<parent, acked>>
    <3>1. PICK last \in synced..Len(history) :
            /\ history' = [k \in 1..last |-> Store!Torn(history[k])]
            /\ UNCHANGED <<parent, acked>>
      BY <2>1
    <3>2. last \in Nat /\ synced <= last /\ last <= Len(history)
      BY <1>3 DEF StoreInvariant, Durable
    <3>3. \A k \in 1..last : Store!Torn(history[k]) \in Whole
      BY <1>3, <3>2 DEF Store!Torn, Whole
    <3>4. history' \in Seq(Whole) /\ Len(history') = last
      <4> DEFINE T(k) == Store!Torn(history[k])
      <4>1. \A k \in 1..last : T(k) \in Whole
        BY <3>3
      <4>2. history' = [k \in 1..last |-> T(k)]
        BY <3>1
      <4> HIDE DEF T
      <4> QED  BY <3>2, <4>1, <4>2
    <3>5. acked' = acked /\ synced' = last /\ Durable
      BY <3>1, <3>4 DEF StoreInvariant
    <3> HIDE DEF Store!PowerLoss
    <3>6. MaxChanges \in Nat
      BY BoundsAssumption
    <3> QED  BY <1>3, <3>2, <3>4, <3>5, <3>6 DEF Durable
  <2>2. CASE history' = <<"absent">> /\ acked' = 1
    <3>1. history' \in Seq(Whole) /\ Len(history') = 1 /\ synced' = 1
      BY <2>2 DEF Whole
    <3> QED  BY <2>2, <3>1, BoundsAssumption DEF Durable
  <2> QED  BY <2>1, <2>2, Zenon
<1>5. DiskTypes'
  <2>1. parent' \in {"missing", "made", "lasting"}
    BY DEF StoreInvariant, DiskTypes
  <2>2. temps' \subseteq Temporaries
    BY DEF StoreInvariant, DiskTypes
  <2>3. lockFile' \in 0..1
    BY DEF StoreInvariant, DiskTypes
  <2>4. faults' \in 0..MaxFaults
    BY BoundsAssumption DEF StoreInvariant, DiskTypes
  <2> QED  BY <1>4, <2>1, <2>2, <2>3, <2>4 DEF DiskTypes
<1>6. Alone'
  BY <1>1 DEF Alone, Store!Locked, Store!Critical
<1>7. ASSUME NEW p \in Processes  PROVE Sound(p)'
  <2>1. 0 <= Len(history') /\ 1 <= acked'
    BY <1>4 DEF Durable
  <2> HIDE DEF Store!PowerLoss, Store!Reset
  <2> QED
    BY <1>1, <2>1
    DEF Sound, Writing, ReadingOf, Knowing, Clearing, Harmless, Store!Critical, Store!NoReply
<1> QED  BY <1>2, <1>4, <1>5, <1>6, <1>7 DEF StoreInvariant

LEMMA StoreRestsElsewhere ==
  ASSUME LoginNext \/ UNCHANGED all
  PROVE  Store!Next \/ UNCHANGED storeVars
BY DEF LoginNext, all, InPlan, InBroker, InPrompt, InStore

LEMMA StoreStepKept ==
  ASSUME StoreInvariant, LoginNext \/ UNCHANGED all
  PROVE  StoreInvariant'
<1>1. CASE Store!Next
  BY <1>1, PowerLossKept, EntersKept, LockKept, WriteKept, ClearKept, ReadKept
  DEF Store!Next, Store!Step, Store!Write, Store!Empty
<1>2. CASE UNCHANGED storeVars
  <2> USE <1>2 DEF storeVars
  <2>1. /\ at' = at /\ op' = op /\ handle' = handle /\ temp' = temp /\ seen' = seen /\ due' = due
        /\ mine' = mine /\ reply' = reply /\ since' = since /\ acked' = acked /\ faults' = faults
        /\ parent' = parent /\ history' = history /\ synced' = synced /\ temps' = temps
        /\ lockFile' = lockFile
    OBVIOUS
  <2>2. DiskTypes' /\ ProcessTypes' /\ Durable' /\ Alone'
    BY <2>1 DEF StoreInvariant, DiskTypes, ProcessTypes, Durable, Alone, Store!Locked
  <2>3. ASSUME NEW p \in Processes  PROVE Sound(p)'
    BY <2>1
    DEF StoreInvariant, Sound, Writing, ReadingOf, Knowing, Clearing, Store!TargetImages,
        Store!Present, Store!Image
  <2> QED  BY <2>2, <2>3 DEF StoreInvariant
<1> QED  BY <1>1, <1>2, StoreRestsElsewhere

LEMMA StoreKept ==
  LoginSpec => []StoreInvariant
<1>1. StoreInvariant /\ [LoginNext]_all => StoreInvariant'
  BY StoreStepKept
<1> QED  BY <1>1, StoreStarts, PTL DEF LoginSpec

\* A private file, also one that a reader has open, is an image written in full whatever
\* is killed or loses its power; one process at a time holds the lock and finds the
\* temporary file it is about to rename; what was reported as a success lasts; and an
\* operation reports "committed" when, and only when, it changed the file
\* (atomic_write_private, remove_private_file, read_bounded_optional, clear_token_cache).
THEOREM FilesAreWhole == LoginSpec => []StoreInv
<1>1. ASSUME StoreInvariant  PROVE StoreInv
  <2> USE <1>1
  <2>1. /\ history \in Seq(Whole) /\ Len(history) \in 1..(MaxChanges + 1)
        /\ \A k \in 1..Len(history) : history[k] \in Whole
    BY BoundsAssumption DEF StoreInvariant, DiskTypes, Durable
  <2>2. Store!TypeOK
    <3>1. \A k \in 1..Len(history) : history[k] \in {"absent", "partial", "cached", "synced"}
      BY <2>1 DEF Whole
    <3>2. synced \in 1..Len(history) /\ acked \in 1..(MaxChanges + 1)
      BY <2>1, BoundsAssumption DEF StoreInvariant, Durable
    <3>3. ASSUME NEW p \in Processes
          PROVE  /\ temp[p].name \in Temporaries \cup {Store!NoTemp.name}
                 /\ seen[p] \in 0..Len(history)
                 /\ due[p] \subseteq Temporaries \cup {Store!Target} /\ mine[p] \in BOOLEAN
                 /\ reply[p] \in [ok : BOOLEAN, committed : BOOLEAN]
      <4>1. temp[p] \in Temporary /\ seen[p] \in Nat /\ seen[p] <= Len(history)
        BY DEF StoreInvariant, ProcessTypes, Sound, ReadingOf
      <4> QED
        BY <2>1, <4>1
        DEF StoreInvariant, ProcessTypes, Temporary, Store!NoTemp, Store!Target
    <3> QED
      BY <2>1, <3>1, <3>2, <3>3 DEF StoreInvariant, DiskTypes, ProcessTypes, Store!TypeOK
  <2>3. Store!NeverTorn
    BY <2>1 DEF StoreInvariant, ProcessTypes, Sound, ReadingOf, Store!NeverTorn, Store!Image, Whole
  <2>4. Store!Undisturbed
    <3> DEFINE L == {p \in Processes : Store!Locked(p)}
    <3>1. Cardinality(L) <= 1
      <4>1. CASE L = {}
        BY <4>1, FS_EmptySet
      <4>2. CASE L # {}
        <5>1. PICK p \in Processes : Store!Locked(p)
          BY <4>2
        <5>2. L = {p}
          BY <5>1 DEF StoreInvariant, Alone
        <5> QED  BY <5>2, FS_Singleton
      <4> QED  BY <4>1, <4>2
    <3>2. \A p \in Processes : at[p] \in {"fill", "install"} => temp[p].name \in temps
      BY DEF StoreInvariant, Sound, Writing
    <3>3. Store!Cardinality(L) = Cardinality(L)
      BY Zenon DEF Store!Cardinality, Cardinality
    <3> QED  BY <3>1, <3>2, <3>3 DEF Store!Undisturbed
  <2>5. Store!Lasting
    BY <2>1 DEF StoreInvariant, DiskTypes, ProcessTypes, Durable, Sound, ReadingOf, Store!Lasting
  <2>6. Store!Honest
    BY DEF StoreInvariant, Sound, Knowing, Store!Honest
  <2> QED  BY <2>2, <2>3, <2>4, <2>5, <2>6 DEF StoreInv
<1> QED  BY <1>1, StoreKept, PTL

\* A step of a process moves no other one.
LEMMA OnlyItMoves ==
  ASSUME ProcessTypes, NEW p \in Processes, NEW q \in Processes, q # p,
         Store!Begin(q) \/ Store!Step(q) \/ Store!Kill(q)
  PROVE  at'[p] = at[p]
<1> USE DEF ProcessTypes, Store!To, Store!Reply
<1>1. CASE Store!Begin(q)
  BY <1>1 DEF Store!Begin, Store!Start
<1>2. CASE Store!Make(q) \/ Store!SyncAbove(q) \/ Store!Enter(q) \/ Store!NoParent(q)
  BY <1>2 DEF Store!Make, Store!SyncAbove, Store!Enter, Store!NoParent
<1>3. CASE Store!OpenLock(q) \/ Store!TryLock(q) \/ Store!GiveUp(q)
  BY <1>3 DEF Store!OpenLock, Store!TryLock, Store!GiveUp
<1>4. CASE Store!Write(q)
  BY <1>4 DEF Store!Write, Store!Create, Store!Fill, Store!Filled, Store!Install, Store!SyncEntry,
              Store!SyncFails, Store!WriteFails
<1>5. CASE Store!Empty(q)
  BY <1>5 DEF Store!Empty, Store!List, Store!Listed, Store!Unlink, Store!SyncUnlink, Store!Gone,
              Store!ClearFails, Store!Clear
<1>6. CASE Store!OpenFile(q) \/ Store!Verify(q) \/ Store!Read(q) \/ Store!ReadFails(q)
  BY <1>6 DEF Store!OpenFile, Store!Verify, Store!Read, Store!ReadFails
<1>7. CASE Store!Kill(q)
  BY <1>7 DEF Store!Kill, Store!Reset
<1> QED  BY <1>1, <1>2, <1>3, <1>4, <1>5, <1>6, <1>7 DEF Store!Step

\* The step with which a clear succeeds.
LEMMA ClearSucceeds ==
  ASSUME StoreInvariant, NEW p \in Processes, Store!Step(p),
         op[p] = "clear", at[p] # "idle", at'[p] = "idle", reply'[p].ok
  PROVE  Store!Clear(p)
<1>1. ProcessTypes /\ Writing(p) /\ ReadingOf(p)
  BY DEF StoreInvariant, Sound
<1> USE <1>1 DEF ProcessTypes, Store!To, Store!Reply, Store!NoReply
<1>2. CASE Store!Make(p) \/ Store!SyncAbove(p) \/ Store!Enter(p) \/ Store!NoParent(p)
  BY <1>2 DEF Store!Make, Store!SyncAbove, Store!Enter, Store!NoParent, Store!After
<1>3. CASE Store!OpenLock(p) \/ Store!TryLock(p) \/ Store!GiveUp(p)
  BY <1>3 DEF Store!OpenLock, Store!TryLock, Store!GiveUp
<1>4. CASE Store!Write(p)
  BY <1>4 DEF Store!Write, Store!Create, Store!Fill, Store!Filled, Store!Install, Store!SyncEntry,
              Store!SyncFails, Store!WriteFails, Writing
<1>5. CASE Store!Empty(p)
  BY <1>5 DEF Store!Empty, Store!List, Store!Listed, Store!Unlink, Store!SyncUnlink, Store!Gone,
              Store!ClearFails
<1>6. CASE Store!OpenFile(p) \/ Store!Verify(p) \/ Store!Read(p) \/ Store!ReadFails(p)
  BY <1>6 DEF Store!OpenFile, Store!Verify, Store!Read, Store!ReadFails, ReadingOf
<1> QED  BY <1>2, <1>3, <1>4, <1>5, <1>6 DEF Store!Step

\* A clear that succeeds leaves neither the file nor a temporary file: whatever was there
\* when it got the lock it has removed, and nobody added to it meanwhile
\* (clear_token_cache).
THEOREM ClearedIsEmpty == LoginSpec => ClearsAll
<1>1. ASSUME StoreInvariant, LoginNext \/ UNCHANGED all, NEW p \in Processes, op[p] = "clear",
             at[p] # "idle", at'[p] = "idle", reply'[p].ok, faults' = faults
      PROVE  Store!Image' = "absent" /\ temps' = {}
  <2>1. Store!Next
    BY <1>1, StoreRestsElsewhere DEF storeVars
  <2>2. ~Store!PowerLoss
    BY <1>1 DEF Store!PowerLoss, StoreInvariant, DiskTypes
  <2>3. PICK q \in Processes : Store!Begin(q) \/ Store!Step(q) \/ Store!Kill(q)
    BY <2>1, <2>2 DEF Store!Next
  <2>4. q = p
    BY <1>1, <2>3, OnlyItMoves DEF StoreInvariant
  <2>5. ~Store!Begin(p) /\ ~Store!Kill(p)
    BY <1>1 DEF Store!Begin, Store!Start, Store!Kill, StoreInvariant, DiskTypes
  <2>6. Store!Clear(p)
    BY <1>1, <2>3, <2>4, <2>5, ClearSucceeds
  <2>7. Store!TargetImages \cup temps \subseteq {}
    BY <1>1, <2>6 DEF Store!Clear, StoreInvariant, Sound, Clearing
  <2> QED
    BY <2>6, <2>7 DEF Store!Clear, Store!disk, Store!TargetImages, Store!Present, Store!Image
<1>2. StoreInvariant /\ [LoginNext]_all
        => [\A p \in Processes :
              op[p] = "clear" /\ at[p] # "idle" /\ at'[p] = "idle" /\ reply'[p].ok
                /\ faults' = faults
              => Store!Image' = "absent" /\ temps' = {}]_(Store!vars)
  BY <1>1
<1> QED  BY <1>2, StoreKept, PTL DEF LoginSpec, ClearsAll, Store!ClearsAll
===============================================================================
