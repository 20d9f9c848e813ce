------------------------------- MODULE CachePlan -------------------------------
(***************************************************************************)
(* LoginCachePlan taken apart: the images of a plan are installed one file *)
(* after the other, and on the first error, or when the deadline or a      *)
(* signal is noticed, put back in reverse order, then all of them read     *)
(* again.  Nothing stops the restoration.  The plan owns the maintenance   *)
(* lock throughout, so what others can see changes when it lets go.        *)
(***************************************************************************)
EXTENDS Naturals

CONSTANTS N,      \* number of files the plan changes
          Images  \* contents, one of them standing for an absent file

ASSUME NAssumption == N \in Nat

Files == 1..N

VARIABLES
  before,  \* CacheEntryChange::before of each change
  after,   \* CacheEntryChange::after
  disk,    \* the files
  pc,      \* control point
  i,       \* the change at hand
  failed   \* restore_cache_changes has collected an error

vars == <<before, after, disk, pc, i, failed>>
plan == <<before, after>>

\* LoginCachePlan::new read the preimages under the lock it holds.
Init ==
  /\ before \in [Files -> Images]
  /\ after \in [Files -> Images]
  /\ disk = before
  /\ pc = "start" /\ i = 1 /\ failed = FALSE

\* Cancelled, late, or the token too close to its expiry.
Refuse ==
  /\ pc = "start"
  /\ pc' = "restored"
  /\ UNCHANGED <<plan, disk, i, failed>>

\* Seeded fault: the last change is never installed.
NextInstallButLast(j) == pc' = IF j < N THEN "install" ELSE "committed"

NextInstall(j) == pc' = IF j \in Files THEN "install" ELSE "committed"

Begin ==
  /\ pc = "start"
  /\ NextInstall(1)
  /\ UNCHANGED <<plan, disk, i, failed>>

\* install_cache_image: a rename or an unlink, in place or not.
Install ==
  /\ pc = "install"
  /\ disk' = [disk EXCEPT ![i] = after[i]]
  /\ pc' = "check"
  /\ UNCHANGED <<plan, i, failed>>

\* The directory may fail to sync after the file has changed.
InstallFails ==
  /\ pc = "install"
  /\ disk' \in {disk, [disk EXCEPT ![i] = after[i]]}
  /\ pc' = "restore"
  /\ UNCHANGED <<plan, i, failed>>

\* The control checks before and after each image; the first leaves out the
\* file that was not touched yet.
Interrupted ==
  /\ \/ pc = "install" /\ i' = i - 1
     \/ pc = "check" /\ i' = i
  /\ pc' = "restore"
  /\ UNCHANGED <<plan, disk, failed>>

Installed ==
  /\ pc = "check"
  /\ NextInstall(i + 1)
  /\ i' = i + 1
  /\ UNCHANGED <<plan, disk, failed>>

\* restore_cache_changes, its first half: from the last touched change down.
\* A file that reads as its preimage is left alone; a read may fail.
RestoreOne ==
  /\ pc = "restore" /\ i \in Files
  /\ \/ disk[i] = before[i] /\ UNCHANGED <<disk, failed>>
     \/ disk' = [disk EXCEPT ![i] = before[i]] /\ UNCHANGED failed
     \/ disk' \in {disk, [disk EXCEPT ![i] = before[i]]} /\ failed' = TRUE
  /\ i' = i - 1
  /\ UNCHANGED <<plan, pc>>

RestoredAll ==
  /\ pc = "restore" /\ i \notin Files
  /\ pc' = "verify" /\ i' = 1
  /\ UNCHANGED <<plan, disk, failed>>

\* Its second half reads every file of the plan, the untouched ones too.
VerifyOne ==
  /\ pc = "verify" /\ i \in Files
  /\ \/ failed' = TRUE
     \/ disk[i] = before[i] /\ UNCHANGED failed
  /\ i' = i + 1
  /\ UNCHANGED <<plan, disk, pc>>

\* Seeded fault: errors of the restoration are forgotten.
ReportRestored ==
  /\ pc = "verify" /\ i \notin Files
  /\ pc' = "restored"
  /\ UNCHANGED <<plan, disk, i, failed>>

\* cache_plan_commit_error: local_cache_restored is true or false.
Report ==
  /\ pc = "verify" /\ i \notin Files
  /\ pc' = IF failed THEN "uncertain" ELSE "restored"
  /\ UNCHANGED <<plan, disk, i, failed>>

\* rollback(), for a profile that could not be changed.
Rollback ==
  /\ pc = "committed"
  /\ pc' = "restore" /\ i' = N
  /\ UNCHANGED <<plan, disk, failed>>

\* The caller drops the plan.
Release ==
  /\ pc = "committed"
  /\ pc' = "kept"
  /\ UNCHANGED <<plan, disk, i, failed>>

Ended == {"restored", "uncertain", "kept", "killed"}

Kill ==
  /\ pc \notin Ended
  /\ pc' = "killed"
  /\ UNCHANGED <<plan, disk, i, failed>>

Next ==
  \/ Refuse \/ Begin \/ Install \/ InstallFails \/ Interrupted \/ Installed
  \/ RestoreOne \/ RestoredAll \/ VerifyOne \/ Report \/ Rollback \/ Release
  \/ Kill

Spec == Init /\ [][Next]_vars

-------------------------------------------------------------------------------
TypeOK ==
  /\ before \in [Files -> Images] /\ after \in [Files -> Images]
  /\ disk \in [Files -> Images]
  /\ pc \in {"start", "install", "check", "committed", "restore", "verify"} \cup Ended
  /\ i \in 0..(N + 1)
  /\ failed \in BOOLEAN

\* What the files hold at each control point: those below the change at hand
\* are installed, those above it untouched; a restoration without an error so
\* far has put back those above it, and a verification has read those below.
Progress ==
  /\ \A f \in Files : disk[f] \in {before[f], after[f]}
  /\ pc = "start" => disk = before /\ i = 1
  /\ pc = "install" => i \in Files /\ \A f \in Files : disk[f] = IF f < i THEN after[f] ELSE before[f]
  /\ pc = "check" => i \in Files /\ \A f \in Files : disk[f] = IF f <= i THEN after[f] ELSE before[f]
  /\ pc = "committed" => disk = after
  /\ pc = "restore" => i <= N /\ (~failed => \A f \in Files : f > i => disk[f] = before[f])
  /\ pc = "verify" => i >= 1 /\ (~failed => disk = before)
  /\ pc = "restored" => disk = before
  /\ pc = "kept" => disk = after

IInv == TypeOK /\ Progress

\* docs/authentication.md:79: a cache failure restores and verifies every
\* touched preimage.  Seen from the next holder of the lock the plan is one
\* step of CacheTransaction; while it works nobody sees its files.
Transaction == INSTANCE CacheTransaction WITH
  visible <- IF pc \in Ended THEN disk ELSE before,
  outcome <- IF pc \in Ended THEN pc ELSE "open"

PlanIsTransaction == Transaction!Spec
===============================================================================
