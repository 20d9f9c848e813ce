-------------------------- MODULE CredentialProcess ---------------------------
(***************************************************************************)
(* acquire_credential_process and complete_credential_process: a broker is *)
(* started in a process group (Unix) or a Job (Windows), its output read   *)
(* and its exit awaited until the deadline, and everything it started is   *)
(* terminated on every path, a dropped future included.                    *)
(*                                                                         *)
(* The broker may start a descendant, which holds the output pipe open and *)
(* may, on Unix, leave the group.  A process that was killed may take its  *)
(* time to exit, or never do so.                                           *)
(***************************************************************************)
EXTENDS Naturals, FiniteSets

CONSTANT Platforms   \* a subset of {"unix", "windows"}

VARIABLES
  platform,
  late,       \* has the deadline passed?
  pc,         \* step of the acquisition
  resuming,   \* Windows: what the start of the suspended broker has done
  root, kid,  \* the broker and its descendant
  detached,   \* has the descendant left the group?
  code,       \* exit status of the broker, once it has one
  written,    \* how much the broker has written: "none", "some", "all" or "excess"
  status,     \* exit status that the acquisition has collected
  bytes,      \* output that it has collected
  group,      \* is the process group or Job armed?
  grace,      \* has the second given to the cleanup passed?
  stuck,      \* a killed process that does not exit
  failure,    \* error that waits for the cleanup
  result      \* how the acquisition ended

world == <<root, kid, detached, code, written, stuck>>
vars == <<platform, late, pc, resuming, world, status, bytes, group, grace, failure, result>>

Nothing == "none"
Alive == {"suspended", "running"}
Codes == {"success", "failure"}

Init ==
  /\ platform \in Platforms /\ late \in BOOLEAN
  /\ pc = "prepare" /\ resuming = "no"
  /\ root = "none" /\ kid = "none" /\ detached = FALSE /\ code = Nothing /\ written = "none"
  /\ status = Nothing /\ bytes = Nothing /\ group = FALSE /\ grace = FALSE /\ stuck \in BOOLEAN
  /\ failure = Nothing /\ result = Nothing

Windows == platform = "windows"

End(r) == pc' = "ended" /\ result' = r

-------------------------------------------------------------------------------
\* The processes.

\* The pipe is at its end when nobody holds it.
PipeClosed == root \in {"exited", "reaped"} /\ kid \in {"none", "exited"}

Fork ==
  /\ root = "running" /\ kid = "none"
  /\ kid' = "running"
  /\ UNCHANGED <<platform, late, pc, resuming, root, detached, code, written, stuck, status, bytes,
                 group, grace, failure, result>>

\* setsid: a Job cannot be left.
Detach ==
  /\ kid = "running" /\ ~detached /\ ~Windows
  /\ detached' = TRUE
  /\ UNCHANGED <<platform, late, pc, resuming, root, kid, code, written, stuck, status, bytes, group,
                 grace, failure, result>>

PrintToken ==
  /\ root = "running" /\ written \in {"none", "some"}
  /\ written' \in IF written = "none" THEN {"some", "excess"} ELSE {"all"}
  /\ UNCHANGED <<platform, late, pc, resuming, root, kid, detached, code, stuck, status, bytes, group,
                 grace, failure, result>>

RootExits ==
  /\ root = "running" \/ (root = "killed" /\ ~stuck)
  /\ root' = "exited"
  /\ code' \in IF root = "running" THEN Codes ELSE {"failure"}
  /\ UNCHANGED <<platform, late, pc, resuming, kid, detached, written, stuck, status, bytes, group,
                 grace, failure, result>>

KidExits ==
  /\ kid = "running" \/ (kid = "killed" /\ ~stuck)
  /\ kid' = "exited"
  /\ UNCHANGED <<platform, late, pc, resuming, root, detached, code, written, stuck, status, bytes,
                 group, grace, failure, result>>

Deadline ==
  /\ ~late /\ late' = TRUE
  /\ UNCHANGED <<platform, pc, resuming, world, status, bytes, group, grace, failure, result>>

-------------------------------------------------------------------------------
\* acquire_credential_process

\* validate_process_command, validate_private_executable, the Job, the deadline
Refuse ==
  /\ pc = "prepare"
  /\ End(IF late THEN "timeout" ELSE "refused")
  /\ UNCHANGED <<platform, late, resuming, world, status, bytes, group, grace, failure>>

Spawn ==
  /\ pc = "prepare" /\ ~late
  /\ group' = TRUE
  /\ IF Windows THEN root' = "suspended" /\ pc' = "assign" ELSE root' = "running" /\ pc' = "complete"
  /\ UNCHANGED <<platform, late, resuming, kid, detached, code, written, stuck, status, bytes, grace,
                 failure, result>>

\* assign_credential_process_and_resume
Assign ==
  /\ pc = "assign" /\ resuming = "no"
  /\ resuming' = "assigned"
  /\ UNCHANGED <<platform, late, pc, world, status, bytes, group, grace, failure, result>>

Resume ==
  /\ pc = "assign" /\ resuming = "assigned" /\ root = "suspended"
  /\ root' = "running" /\ pc' = "complete"
  /\ UNCHANGED <<platform, late, resuming, kid, detached, code, written, stuck, status, bytes, group,
                 grace, failure, result>>

\* Any of its steps fails; an unexpected suspend count means that the broker may run.
AssignFails ==
  /\ pc = "assign"
  /\ \/ UNCHANGED root
     \/ resuming = "assigned" /\ root = "suspended" /\ root' = "running"
  /\ pc' = "cleanup" /\ failure' = "containment"
  /\ UNCHANGED <<platform, late, resuming, kid, detached, code, written, stuck, status, bytes, group,
                 grace, result>>

-------------------------------------------------------------------------------
\* complete_credential_process

Watching == pc = "complete"

\* The broker has exited: its group is terminated at once.
CollectExit ==
  /\ Watching /\ status = Nothing /\ root = "exited"
  /\ status' = code /\ root' = "reaped"
  /\ \/ /\ kid' = (IF kid = "running" /\ ~detached THEN "killed" ELSE kid)
        /\ UNCHANGED <<pc, failure>>
     \/ pc' = "cleanup" /\ failure' = "cleanup" /\ UNCHANGED kid     \* termination fails
  /\ UNCHANGED <<platform, late, resuming, detached, code, written, stuck, bytes, group, grace, result>>

\* The output is at its end, or one byte over the limit.
CollectOutput ==
  /\ Watching /\ bytes = Nothing
  /\ \/ PipeClosed /\ written # "excess" /\ bytes' = written /\ UNCHANGED <<pc, failure>>
     \/ written = "excess" /\ pc' = "cleanup" /\ failure' = "too large" /\ UNCHANGED bytes
  /\ UNCHANGED <<platform, late, resuming, world, status, group, grace, result>>

\* The wait for the exit, or the read of the output, fails.
WatchFails ==
  /\ Watching /\ (status = Nothing \/ bytes = Nothing)
  /\ pc' = "cleanup" /\ failure' = "read"
  /\ UNCHANGED <<platform, late, resuming, world, status, bytes, group, grace, result>>

Timeout ==
  /\ Watching /\ late /\ (status = Nothing \/ bytes = Nothing)
  /\ pc' = "cleanup" /\ failure' = "timeout"
  /\ UNCHANGED <<platform, late, resuming, world, status, bytes, group, grace, result>>

\* Both are there: the group is disarmed, then the deadline, the exit status and the
\* output are looked at.
Answer ==
  /\ Watching /\ status # Nothing /\ bytes # Nothing
  /\ group' = FALSE
  /\ \/ late /\ End("timeout")
     \/ ~late /\ status # "success" /\ End("failed")
     \/ ~late /\ status = "success" /\ bytes # "all" /\ End("invalid")
     \/ ~late /\ status = "success" /\ bytes = "all" /\ \E r \in {"token", "invalid"} : End(r)
  /\ UNCHANGED <<platform, late, resuming, world, status, bytes, grace, failure>>

-------------------------------------------------------------------------------
\* terminate_and_reap_credential_process

\* Seeded fault: only the broker itself is killed.
TerminateRoot ==
  /\ pc = "cleanup"
  /\ root' = (IF root \in Alive THEN "killed" ELSE root)
  /\ pc' = "reap" /\ UNCHANGED <<kid, failure>>
  /\ UNCHANGED <<platform, late, resuming, detached, code, written, stuck, status, bytes, group, grace,
                 result>>

\* The group is terminated, then the broker killed by itself.
Terminate ==
  /\ pc = "cleanup" /\ pc' = "reap"
  /\ \/ /\ root' = (IF root \in Alive THEN "killed" ELSE root)
        /\ kid' = (IF kid = "running" /\ ~detached THEN "killed" ELSE kid)
        /\ UNCHANGED failure
     \/ /\ root' \in {root, IF root \in Alive THEN "killed" ELSE root}
        /\ failure' = "cleanup" /\ UNCHANGED kid
  /\ UNCHANGED <<platform, late, resuming, detached, code, written, stuck, status, bytes, group, grace,
                 result>>

Reap ==
  /\ pc = "reap" /\ root \in {"exited", "reaped"}
  /\ root' = "reaped" /\ group' = (failure = "cleanup")
  /\ End(failure)
  /\ UNCHANGED <<platform, late, resuming, kid, detached, code, written, stuck, status, bytes, grace,
                 failure>>

Second ==
  /\ pc = "reap" /\ ~grace /\ grace' = TRUE
  /\ UNCHANGED <<platform, late, pc, resuming, world, status, bytes, group, failure, result>>

ReapTimeout ==
  /\ pc = "reap" /\ grace /\ root \notin {"exited", "reaped"}
  /\ End("cleanup")
  /\ UNCHANGED <<platform, late, resuming, world, status, bytes, group, grace, failure>>

-------------------------------------------------------------------------------
\* The future is dropped: the request was canceled or ran out of time.
Cut ==
  /\ pc \in {"complete", "reap"}
  /\ pc' = "dropped" /\ result' = "cut"
  /\ UNCHANGED <<platform, late, resuming, world, status, bytes, group, grace, failure>>

\* Drop of CredentialProcessGroup, then of the child: kill_on_drop.  What they do is
\* taken to succeed: nobody would be told of an error.
Drop ==
  /\ pc \in {"ended", "dropped"} /\ (group \/ pc = "dropped")
  /\ group' = FALSE /\ pc' = "ended"
  /\ kid' = (IF group /\ kid = "running" /\ ~detached THEN "killed" ELSE kid)
  /\ root' = (IF root \in Alive THEN "killed" ELSE root)
  /\ UNCHANGED <<platform, late, resuming, detached, code, written, stuck, status, bytes, grace, failure,
                 result>>

Broker == Fork \/ Detach \/ PrintToken
Exits == RootExits \/ KidExits
Acquire ==
  \/ Refuse \/ Spawn \/ Assign \/ Resume \/ AssignFails
  \/ CollectExit \/ CollectOutput \/ Timeout \/ Answer
  \/ Terminate \/ Reap \/ Second \/ ReapTimeout \/ Drop
Next == Broker \/ Exits \/ Deadline \/ Acquire \/ WatchFails \/ Cut

Spec == Init /\ [][Next]_vars
FairSpec == Spec /\ WF_vars(Acquire) /\ WF_vars(Deadline)

-------------------------------------------------------------------------------
\* Properties.

Gone == {"none", "killed", "exited", "reaped"}
Over == pc = "ended" /\ ~group

\* The variables stay in their types.
TypeOK ==
  /\ platform \in {"unix", "windows"} /\ late \in BOOLEAN
  /\ pc \in {"prepare", "assign", "complete", "cleanup", "reap", "dropped", "ended"}
  /\ resuming \in {"no", "assigned"}
  /\ root \in Alive \cup Gone /\ kid \in {"none", "running", "killed", "exited"}
  /\ detached \in BOOLEAN /\ code \in Codes \cup {Nothing}
  /\ written \in {"none", "some", "all", "excess"} /\ status \in Codes \cup {Nothing}
  /\ bytes \in {Nothing, "none", "some", "all"} /\ group \in BOOLEAN /\ grace \in BOOLEAN
  /\ failure \in {Nothing, "containment", "cleanup", "too large", "read", "timeout"}
  /\ result \in {Nothing, "refused", "failed", "invalid", "token", "cut", "containment", "cleanup",
                 "too large", "read", "timeout"}

\* Nothing that the broker started in its group outlives the acquisition, whether it
\* ended with a token or an error or was dropped, unless the error is that the cleanup
\* could not be confirmed.
NothingOutlives ==
  Over /\ result # "cleanup" => root \in Gone /\ (detached \/ kid \in Gone)

\* An acquisition that says it is over and was not cut has reaped the broker, or says
\* that it could not.
Reaped == Over /\ result \notin {"cut", "cleanup"} => root \in {"none", "reaped"}

\* The acquisition ends, even when a descendant that left the group holds the pipe, or
\* a killed process never exits.
AcquisitionEnds == <>Over
===============================================================================
