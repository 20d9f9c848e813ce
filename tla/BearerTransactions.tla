------------------------- MODULE BearerTransactions -------------------------
(***************************************************************************)
(* The two-file transactions of the reltio command line: the configuration *)
(* file (profiles and the markers of unfinished bearer cleanups) and the   *)
(* token cache (one file per cache key), written by concurrent invocations *)
(* of `auth login`, `auth logout`, `profile add/use/update/remove`, and by *)
(* the start-up recovery every other invocation performs first.            *)
(*                                                                         *)
(* An invocation is a process that takes two advisory file locks, always   *)
(* in the order cache maintenance, then configuration.  It may be killed   *)
(* between any two steps; the kernel then releases its locks.  A signal or *)
(* the deadline is a refusal at one of the checks the code makes: no check *)
(* follows the one that refuses, so the event itself needs no variable.    *)
(*                                                                         *)
(* A cache image is identified by the invocation that wrote it.  A cache   *)
(* plan is committed in one step here, with the outcomes the step can      *)
(* have; module CachePlan takes it apart, file by file.                    *)
(***************************************************************************)
EXTENDS Naturals, FiniteSets

CONSTANTS
  Procs,       \* invocations; each runs one command and ends
  Profiles,    \* profile names
  Keys,        \* cache keys of imported-bearer generations
  KeysOf,      \* KeysOf[n]: the generations hashed for profile n
  ManagedKey,  \* ManagedKey[n]: cache key of n's managed provider
  None,        \* no process, no image, no profile
  Boot         \* the writer of every image that precedes the behaviour

NoAuth == "noauth"    \* AuthProfile::default()
Managed == "managed"  \* client credentials or a credential process
Absent == "absent"    \* no profile of that name

CacheKeys == Keys \cup {ManagedKey[n] : n \in Profiles}
Image == Procs \cup {Boot}
Auth == {NoAuth, Managed} \cup Keys

ASSUME ProcsAssumption ==
  /\ None \notin Image \cup Profiles
  /\ Boot \notin Procs
ASSUME KeysAssumption ==
  /\ KeysOf \in [Profiles -> SUBSET Keys]
  /\ \A m, n \in Profiles : m # n => KeysOf[m] \cap KeysOf[n] = {}
  /\ {NoAuth, Managed, Absent, None} \cap Keys = {}
ASSUME ManagedAssumption == \A n \in Profiles : ManagedKey[n] \notin Keys

VARIABLES
  config,      \* the configuration file
  cache,       \* the token cache directory
  maint,       \* exclusive owner of cache-maintenance.lock
  configLock,  \* exclusive owner of the configuration lock
  outputs,     \* shared holders of it: invocations writing their output
  pc,          \* control point of each invocation
  job,         \* its command and the profile the command names
  mem,         \* what it remembers between its steps
  wrote,       \* its configuration change is in the file
  got,         \* the image a reader was given
  report       \* what it told its caller

vars == <<config, cache, maint, configLock, outputs, pc, job, mem, wrote, got, report>>
shared == <<config, cache>>
locks == <<maint, configLock, outputs>>

Commands == {"login", "change", "remove", "logout", "read"}

(***************************************************************************)
(* Configuration.                                                          *)
(***************************************************************************)
ConfigFile == [profile : [Profiles -> Auth \cup {Absent}],
               current : Profiles \cup {None},
               pending : [Profiles -> SUBSET Keys]]

Exists(c, n) == c.profile[n] # Absent

\* The state-dependent part of validate_config.
ValidConfig(c) ==
  /\ c.current # None => Exists(c, c.current)
  /\ \A n \in Profiles : c.profile[n] \notin c.pending[n]

NoPending == [n \in Profiles |-> {}]

\* stored_imported_bearer_cache_key: the one key a bearer profile points to.
StoredKeys(a) == {a} \cap Keys

\* profile_bearer_cleanup_keys
CleanupKeys(c, n) == c.pending[n] \cup StoredKeys(c.profile[n])

(***************************************************************************)
(* Cache plans (LoginCachePlan).                                           *)
(***************************************************************************)
\* Of its profile an invocation remembers the authentication it read before
\* any lock, the one it wants, the generations that go with the old one, and
\* whether the profile was the current one; of its cache plan, the preimages
\* and the image to install; of its recovery, the markers still to work
\* through, the one at hand, and whether one was finished.  rested is history:
\* the invocations that had ended when it read the markers.
Fresh == [auth |-> Absent, to |-> None, keys |-> {}, current |-> FALSE,
          before |-> [k \in {} |-> None], after |-> None,
          todo |-> NoPending, at |-> None, recovered |-> FALSE, rested |-> {}]

\* LoginCachePlan::new: the preimages of the keys it is going to change.
Plans(p, S, image) ==
  mem' = [mem EXCEPT ![p].before = [k \in S |-> cache[k]], ![p].after = image]

PlanKeys(p) == DOMAIN mem[p].before

\* The cache with the plan's image on the keys of S and every other planned
\* key back to its preimage.
Touched(p, S) ==
  [k \in CacheKeys |-> IF k \in S THEN mem[p].after
                       ELSE IF k \in PlanKeys(p) THEN mem[p].before[k]
                       ELSE cache[k]]

Installed(p) == Touched(p, PlanKeys(p))

\* Seeded fault: the preimages are not put back.
NotRestored(p) == cache

Restored(p) == Touched(p, {})

(***************************************************************************)
(* Reports: what the details of the final error, or success, say of the    *)
(* local state.                                                            *)
(***************************************************************************)
Answers == {"yes", "no", "unknown"}
Report == [kind : {"pending", "success", "error", "recovered", "recovery_failed"},
           profile : Answers, cache : Answers, cleanup : Answers]

Says(kind, profile, cached, cleanup) ==
  [kind |-> kind, profile |-> profile, cache |-> cached, cleanup |-> cleanup]

NoReport == Says("pending", "no", "no", "unknown")
Refused == Says("error", "no", "no", "unknown")

\* A logout's plan covers the whole directory.
Cleared(p, S) == IF \E k \in S : mem[p].before[k] # None THEN "yes" ELSE "no"

\* What a command says once its changes stand, whether its output succeeds.
Standing(p, kind) ==
  CASE job[p].kind = "login"  -> Says(kind, "yes", "yes", "unknown")
    [] job[p].kind = "change" -> Says(kind, "yes", "unknown", "unknown")
    [] job[p].kind = "remove" ->
         Says(kind, "yes", IF mem[p].keys = {} THEN "no" ELSE "yes", "no")
    [] job[p].kind = "logout" ->
         Says(kind, IF wrote[p] THEN "yes" ELSE "no", Cleared(p, PlanKeys(p)), "unknown")
    [] OTHER -> Says(kind, "no", "no", "unknown")

(***************************************************************************)
(* Steps of a process.                                                     *)
(***************************************************************************)
Goto(p, label) == pc' = [pc EXCEPT ![p] = label]

Unlock(p) ==
  /\ maint' = IF maint = p THEN None ELSE maint
  /\ configLock' = IF configLock = p THEN None ELSE configLock
  /\ outputs' = outputs \ {p}

\* The command returns; dropping its plan and leases releases its locks.
Finish(p, r) ==
  /\ Goto(p, "done")
  /\ report' = [report EXCEPT ![p] = r]
  /\ mem' = [mem EXCEPT ![p] = Fresh]
  /\ Unlock(p)

TakeMaint(p) ==
  /\ maint = None
  /\ maint' = p
  /\ UNCHANGED <<configLock, outputs>>

\* Seeded fault: a writer waits for writers, not for those who read.
ConfigFreeOfWriters == configLock = None

\* modify_until got its exclusive lock; it is released within the step.
ConfigFree == configLock = None /\ outputs = {}

Name(p) == job[p].name

-------------------------------------------------------------------------------
\* Any configuration the program can leave behind, with the generations it
\* points to present and the marked ones present or already gone.
Init ==
  /\ config \in ConfigFile
  /\ ValidConfig(config)
  /\ \A n \in Profiles :
       /\ StoredKeys(config.profile[n]) \subseteq KeysOf[n]
       /\ config.pending[n] \subseteq KeysOf[n]
  /\ cache \in [CacheKeys -> {Boot, None}]
  /\ \A k \in Keys :
       /\ (\E n \in Profiles : config.profile[n] = k) => cache[k] = Boot
       /\ cache[k] = Boot => \E n \in Profiles : k \in CleanupKeys(config, n)
  /\ maint = None /\ configLock = None /\ outputs = {}
  /\ pc = [p \in Procs |-> "idle"]
  /\ job = [p \in Procs |-> [kind |-> None, name |-> None]]
  /\ mem = [p \in Procs |-> Fresh]
  /\ wrote = [p \in Procs |-> FALSE]
  /\ got = [p \in Procs |-> None]
  /\ report = [p \in Procs |-> NoReport]

-------------------------------------------------------------------------------
(***************************************************************************)
(* Dispatch and recovery.                                                  *)
(***************************************************************************)

Gone == {q \in Procs : pc[q] \in {"done", "crashed"}}

\* The markers of a recovery are those it finds before it takes any lock.
ReadMarkers(p) ==
  mem' = [mem EXCEPT ![p].todo = config.pending, ![p].rested = Gone]

\* Every command but logout first works through the markers it finds; a
\* configuration that cannot be read is left to the command itself.
Launch(p) ==
  /\ pc[p] = "idle"
  /\ \E kind \in Commands, n \in Profiles :
       /\ job' = [job EXCEPT ![p] = [kind |-> kind, name |-> n]]
       /\ \/ /\ kind # "logout" /\ config.pending # NoPending
             /\ ReadMarkers(p)
             /\ Goto(p, "recNext")
          \/ /\ mem' = mem
             /\ Goto(p, IF kind = "logout" THEN "prepare"
                        ELSE IF kind = "change" THEN "change" ELSE "load")
  /\ UNCHANGED <<shared, locks, wrote, got, report>>

\* The next marker of the snapshot: the maintenance lock, then the images.
RecoverPrepare(p) ==
  /\ pc[p] = "recNext"
  /\ TakeMaint(p)
  /\ \E n \in Profiles :
       /\ mem[p].todo[n] # {}
       /\ mem' = [mem EXCEPT ![p].at = n, ![p].after = None,
                            ![p].before = [k \in mem[p].todo[n] |-> cache[k]]]
  /\ Goto(p, "recConfig")
  /\ UNCHANGED <<shared, job, wrote, got, report>>

Marked(p) == mem[p].todo[mem[p].at]

\* Under the configuration lock: a marker that is not the one snapshotted
\* belongs to somebody else now and is left alone.
RecoverSkip(p) ==
  /\ pc[p] = "recConfig" /\ ConfigFree
  /\ config.pending[mem[p].at] # Marked(p)
  /\ mem' = [mem EXCEPT ![p].todo[mem[p].at] = {}]
  /\ Unlock(p)
  /\ Goto(p, "recNext")
  /\ UNCHANGED <<shared, job, wrote, got, report>>

\* Seeded fault: the marker is not compared with the snapshot.
RecoverLockUnchecked(p) ==
  /\ pc[p] = "recConfig" /\ ConfigFree
  /\ configLock' = p
  /\ Goto(p, "recCommit")
  /\ UNCHANGED <<shared, maint, outputs, job, mem, wrote, got, report>>

RecoverLock(p) ==
  /\ pc[p] = "recConfig" /\ ConfigFree
  /\ config.pending[mem[p].at] = Marked(p)
  /\ config.profile[mem[p].at] \notin Marked(p)
  /\ configLock' = p
  /\ Goto(p, "recCommit")
  /\ UNCHANGED <<shared, maint, outputs, job, mem, wrote, got, report>>

\* The images go first, while both locks are held.
RecoverCommit(p) ==
  /\ pc[p] = "recCommit"
  /\ cache' = Installed(p)
  /\ Goto(p, "recWrite")
  /\ UNCHANGED <<config, locks, job, mem, wrote, got, report>>

\* A failed recovery ends the invocation, whatever it was started for.
RecoveryFailed(p, cached, cleanup) ==
  Finish(p, IF wrote[p] THEN Standing(p, "error")
            ELSE Says("recovery_failed", "yes", cached, cleanup))

\* The plan restored every preimage ("no"), or could not (and says "yes").
RecoverCommitFails(p) ==
  /\ pc[p] = "recCommit"
  /\ \/ cache' = Restored(p) /\ RecoveryFailed(p, "no", "yes")
     \/ \E S \in SUBSET PlanKeys(p) :
          cache' = Touched(p, S) /\ RecoveryFailed(p, "yes", "yes")
  /\ UNCHANGED <<config, job, wrote, got>>

\* Seeded fault: the marker stays when its images are gone.
StillMarked(p) == config

Unmarked(p) == [config EXCEPT !.pending[mem[p].at] = {}]

RecoverWrite(p) ==
  /\ pc[p] = "recWrite"
  /\ config' = Unmarked(p)
  /\ mem' = [mem EXCEPT ![p].todo[mem[p].at] = {}, ![p].recovered = TRUE]
  /\ Unlock(p)
  /\ Goto(p, "recNext")
  /\ UNCHANGED <<cache, job, wrote, got, report>>

RecoverWriteFails(p) ==
  /\ pc[p] = "recWrite"
  /\ \/ config' = config /\ RecoveryFailed(p, "yes", "yes")
     \/ config' = Unmarked(p) /\ RecoveryFailed(p, "yes", "no")
  /\ UNCHANGED <<cache, job, wrote, got>>

\* A lock that cannot be had, an unreadable image, or an active generation
\* among the marked ones.  A skip writes the file as it is; an error after that
\* write says that a marker was cleared.
RecoverRefused(p) ==
  /\ mem[p].todo # NoPending
  /\ \/ pc[p] = "recNext" /\ RecoveryFailed(p, "unknown", "yes")
     \/ pc[p] = "recConfig" /\ RecoveryFailed(p, "no", "yes")
     \/ /\ pc[p] = "recConfig" /\ ConfigFree
        /\ config.pending[mem[p].at] # Marked(p)
        /\ RecoveryFailed(p, "no", "no")
  /\ UNCHANGED <<shared, job, wrote, got>>

ForgetRested(p) == mem' = [mem EXCEPT ![p].rested = {}]

\* Recovery at start-up keeps the command from running; after a commit it
\* goes on to the output.
RecoverDone(p) ==
  /\ pc[p] = "recNext" /\ mem[p].todo = NoPending
  /\ \/ /\ wrote[p]
        /\ Goto(p, "emitLock")
        /\ ForgetRested(p) /\ UNCHANGED <<locks, report>>
     \/ /\ ~wrote[p] /\ mem[p].recovered
        /\ Finish(p, Says("recovered", "yes", "yes", "no"))
     \/ /\ ~wrote[p] /\ ~mem[p].recovered
        /\ Goto(p, IF job[p].kind = "change" THEN "change" ELSE "load")
        /\ ForgetRested(p) /\ UNCHANGED <<locks, report>>
  /\ UNCHANGED <<shared, job, wrote, got>>

-------------------------------------------------------------------------------
(***************************************************************************)
(* What login and profile remove share: the unlocked read of the profile,  *)
(* the plan under the maintenance lock.                                    *)
(***************************************************************************)
\* A new generation is 32 random bytes: no file and no process knows its key.
FreshKeys(n) ==
  {k \in KeysOf[n] :
     /\ cache[k] = None
     /\ \A x \in Profiles : k \notin CleanupKeys(config, x)
     /\ \A q \in Procs :
          /\ k \notin {mem[q].auth, mem[q].to} \cup mem[q].keys \cup PlanKeys(q)
          /\ \A x \in Profiles : k \notin mem[q].todo[x]}

Load(p) ==
  /\ pc[p] = "load"
  /\ Exists(config, Name(p))
  /\ LET stored == config.profile[Name(p)] IN
     \/ /\ job[p].kind = "login"
        /\ \E to \in {Managed} \cup FreshKeys(Name(p)) :
             mem' = [mem EXCEPT ![p].auth = stored, ![p].to = to,
                                ![p].keys = StoredKeys(stored)]
        /\ Goto(p, "prepare")
     \/ /\ job[p].kind = "remove"
        /\ mem' = [mem EXCEPT ![p].auth = stored, ![p].keys = CleanupKeys(config, Name(p))]
        /\ Goto(p, "prepare")
     \/ /\ job[p].kind = "read" /\ stored # NoAuth
        /\ mem' = [mem EXCEPT ![p].auth = stored]
        /\ Goto(p, "readCache")
  /\ UNCHANGED <<shared, locks, job, wrote, got, report>>

\* No such profile, overrides, unusable input, a token that cannot be had,
\* a lock or a snapshot that fails: nothing has changed yet.
Refuse(p) ==
  /\ pc[p] \in {"load", "prepare", "change", "readCache"}
  /\ Finish(p, Refused)
  /\ UNCHANGED <<shared, job, wrote, got>>

\* The file a login installs its token in.
TargetKey(p) == IF mem[p].to = Managed THEN ManagedKey[Name(p)] ELSE mem[p].to

\* prepare_managed_login overwrites; prepare_bearer_login wants a fresh path.
LoginPrepare(p) ==
  /\ pc[p] = "prepare" /\ job[p].kind = "login"
  /\ mem[p].to \in Keys => cache[TargetKey(p)] = None
  /\ TakeMaint(p)
  /\ Plans(p, {TargetKey(p)}, p)
  /\ Goto(p, "loginCommit")
  /\ UNCHANGED <<shared, job, wrote, got, report>>

RemovePrepare(p) ==
  /\ pc[p] = "prepare" /\ job[p].kind = "remove"
  /\ TakeMaint(p)
  /\ Plans(p, mem[p].keys, None)
  /\ Goto(p, "removeConfig")
  /\ UNCHANGED <<shared, job, wrote, got, report>>

-------------------------------------------------------------------------------
(***************************************************************************)
(* auth login: stage the image, swap the profile pointer, output.          *)
(***************************************************************************)
LoginCommit(p) ==
  /\ pc[p] = "loginCommit"
  /\ cache' = Installed(p)
  /\ Goto(p, "loginConfig")
  /\ UNCHANGED <<config, locks, job, mem, wrote, got, report>>

LoginCommitFails(p) ==
  /\ pc[p] = "loginCommit"
  /\ \/ cache' = Restored(p) /\ Finish(p, Says("error", "no", "no", "unknown"))
     \/ \E S \in SUBSET PlanKeys(p) :
          /\ cache' = Touched(p, S)
          /\ Finish(p, Says("error", "no", "unknown", "unknown"))
  /\ UNCHANGED <<config, job, wrote, got>>

\* Seeded fault: the replaced generation is not marked.
LoginConfigUnmarked(p) == [config EXCEPT !.profile[Name(p)] = mem[p].to]

\* commit_auth_profile: the pointer and the marker of what it retires.
LoginConfigUpdate(p) ==
  [config EXCEPT !.profile[Name(p)] = mem[p].to,
                 !.pending[Name(p)] = @ \cup mem[p].keys]

LoginConflict(p) ==
  \/ config.profile[Name(p)] # mem[p].auth
  \/ ~ValidConfig(LoginConfigUpdate(p))

\* Seeded fault: an error after the commit point is taken for one before it.
LoginConfigRolledBack(p) ==
  /\ pc[p] = "loginConfig" /\ ConfigFree
  /\ ~LoginConflict(p)
  /\ config' = LoginConfigUpdate(p)
  /\ wrote' = [wrote EXCEPT ![p] = TRUE]
  /\ Goto(p, "loginDone") \/ Goto(p, "loginRollback")
  /\ UNCHANGED <<cache, locks, job, mem, got, report>>

LoginConfig(p) ==
  /\ pc[p] = "loginConfig" /\ ConfigFree
  /\ ~LoginConflict(p)
  /\ config' = LoginConfigUpdate(p)
  /\ wrote' = [wrote EXCEPT ![p] = TRUE]
  \* the write, or a check after it, may fail with the change in the file
  /\ \/ Goto(p, "loginDone") /\ UNCHANGED <<locks, mem, report>>
     \/ Finish(p, Standing(p, "error"))
  /\ UNCHANGED <<cache, job, got>>

\* A conflict, or an error before the commit point of the write.
LoginRefuseConfig(p) ==
  /\ pc[p] = "loginConfig"
  /\ Goto(p, "loginRollback")
  /\ UNCHANGED <<shared, locks, job, mem, wrote, got, report>>

LoginRollback(p) ==
  /\ pc[p] = "loginRollback"
  /\ \/ cache' = Restored(p) /\ Finish(p, Says("error", "no", "no", "unknown"))
     \/ \E S \in SUBSET PlanKeys(p) :
          /\ cache' = Touched(p, S)
          /\ Finish(p, Says("error", "no", "unknown", "unknown"))
  /\ UNCHANGED <<config, job, wrote, got>>

\* Seeded fault: the plan is kept through the recovery, which locks again.
LoginDoneKept(p) ==
  /\ pc[p] = "loginDone"
  /\ Goto(p, IF mem[p].keys = {} THEN "emitConfig" ELSE "recStart")
  /\ UNCHANGED <<shared, locks, job, mem, wrote, got, report>>

\* With nothing retired the plan's lock is kept through the output; otherwise
\* it is dropped first, for the recovery that deletes the retired generation.
LoginDone(p) ==
  /\ pc[p] = "loginDone"
  /\ IF mem[p].keys = {}
     THEN Goto(p, "emitConfig") /\ UNCHANGED locks
     ELSE Goto(p, "recStart") /\ Unlock(p)
  /\ UNCHANGED <<shared, job, mem, wrote, got, report>>

\* Cancelled, or the token became unusable, after the commit.
LoginDoneFails(p) ==
  /\ pc[p] = "loginDone"
  /\ Finish(p, Standing(p, "error"))
  /\ UNCHANGED <<shared, job, wrote, got>>

\* The recovery after a commit; an unreadable configuration skips it.
RecoverStart(p) ==
  /\ pc[p] = "recStart"
  /\ \/ ReadMarkers(p) /\ Goto(p, "recNext")
     \/ Goto(p, "emitLock") /\ UNCHANGED mem
  /\ UNCHANGED <<shared, locks, job, wrote, got, report>>

-------------------------------------------------------------------------------
(***************************************************************************)
(* profile add, use and update: one configuration write, then recovery.    *)
(***************************************************************************)
\* An update keeps the authentication, or replaces it and retires a bearer.
Changes(n) ==
  IF Exists(config, n)
  THEN {config, [config EXCEPT !.current = n]} \cup
       {[config EXCEPT !.profile[n] = a,
                       !.pending[n] = @ \cup StoredKeys(config.profile[n])]
          : a \in {NoAuth, Managed}}
  ELSE {[config EXCEPT !.profile[n] = a, !.current = IF @ = None THEN n ELSE @]
          : a \in {NoAuth, Managed}}

ChangeWrite(p) ==
  /\ pc[p] = "change" /\ ConfigFree
  /\ config' \in Changes(Name(p))
  /\ wrote' = [wrote EXCEPT ![p] = TRUE]
  /\ \/ Goto(p, "recStart") /\ UNCHANGED <<locks, mem, report>>
     \/ Finish(p, Standing(p, "error"))
  /\ UNCHANGED <<cache, job, got>>

-------------------------------------------------------------------------------
(***************************************************************************)
(* profile remove: the profile first, its images, then the marker; a plan  *)
(* that failed without a trace is compensated by putting the profile back. *)
(***************************************************************************)
RemoveConfigUpdate(p) ==
  [config EXCEPT !.profile[Name(p)] = Absent,
                 !.current = IF @ = Name(p) THEN None ELSE @,
                 !.pending[Name(p)] = @ \cup mem[p].keys]

RemoveConfig(p) ==
  /\ pc[p] = "removeConfig" /\ ConfigFree
  /\ config.profile[Name(p)] = mem[p].auth
  /\ config' = RemoveConfigUpdate(p)
  /\ wrote' = [wrote EXCEPT ![p] = TRUE]
  /\ \/ /\ mem' = [mem EXCEPT ![p].current = (config.current = Name(p))]
        /\ Goto(p, "removeCommit")
        /\ UNCHANGED <<locks, report>>
     \/ Finish(p, Says("error", "yes", "no", "unknown"))
  /\ UNCHANGED <<cache, job, got>>

RemoveConfigFails(p) ==
  /\ pc[p] = "removeConfig"
  /\ Finish(p, Says("error", "no", "no", "no"))
  /\ UNCHANGED <<shared, job, wrote, got>>

\* Seeded fault: the marker is not cleared once the images are gone.
RemoveCommitUnmarked(p) ==
  /\ pc[p] = "removeCommit"
  /\ cache' = Installed(p)
  /\ Goto(p, "emitConfig")
  /\ UNCHANGED <<config, locks, job, mem, wrote, got, report>>

RemoveCommit(p) ==
  /\ pc[p] = "removeCommit"
  /\ cache' = Installed(p)
  /\ Goto(p, IF mem[p].keys = {} THEN "emitConfig" ELSE "removeMark")
  /\ UNCHANGED <<config, locks, job, mem, wrote, got, report>>

\* Cancelled before the plan, or stopped by it in either way a plan can fail.
\* An empty plan fails too when the deadline is over.
RemoveCommitFails(p) ==
  /\ pc[p] = "removeCommit"
  /\ \/ /\ cache' = cache
        /\ Finish(p, Says("error", "yes", "no",
                          IF mem[p].keys = {} THEN "no" ELSE "yes"))
     \/ /\ cache' = Restored(p)
        /\ Goto(p, "removeRestore")
        /\ UNCHANGED <<locks, mem, report>>
     \/ \E S \in SUBSET PlanKeys(p) :
          /\ cache' = Touched(p, S)
          /\ Finish(p, Says("error", "yes", "unknown", "yes"))
  /\ UNCHANGED <<config, job, wrote, got>>

\* restore_removed_profile wants the marker it left: an entry, so not an
\* empty one.
MarkerIs(n, S) == S # {} /\ config.pending[n] = S

Retired(p) == mem[p].keys \ StoredKeys(mem[p].auth)

\* Seeded fault: the profile comes back with its own generation marked.
RestoreMarked(p) ==
  [config EXCEPT !.profile[Name(p)] = mem[p].auth,
                 !.current = IF mem[p].current /\ @ = None THEN Name(p) ELSE @]

\* Seeded fault: the profile comes back with what the plan was to install.
RestoreTarget(p) ==
  [config EXCEPT !.profile[Name(p)] = mem[p].to,
                 !.pending[Name(p)] = Retired(p),
                 !.current = IF mem[p].current /\ @ = None THEN Name(p) ELSE @]

RestoreUpdate(p) ==
  [config EXCEPT !.profile[Name(p)] = mem[p].auth,
                 !.pending[Name(p)] = Retired(p),
                 !.current = IF mem[p].current /\ @ = None THEN Name(p) ELSE @]

\* Neither cancellation nor the command's deadline stops the compensation.
RemoveRestore(p) ==
  /\ pc[p] = "removeRestore" /\ ConfigFree
  /\ ~Exists(config, Name(p)) /\ MarkerIs(Name(p), mem[p].keys)
  /\ config' = RestoreUpdate(p)
  /\ wrote' = [wrote EXCEPT ![p] = FALSE]
  /\ \/ Finish(p, Says("error", "no", "no", IF Retired(p) = {} THEN "no" ELSE "yes"))
     \/ Finish(p, Says("error", "unknown", "no", "yes"))
  /\ UNCHANGED <<cache, job, got>>

RemoveRestoreConflict(p) ==
  /\ pc[p] = "removeRestore" /\ ConfigFree
  /\ Exists(config, Name(p)) \/ ~MarkerIs(Name(p), mem[p].keys)
  /\ Finish(p, Says("error", "unknown", "no", "yes"))
  /\ UNCHANGED <<shared, job, wrote, got>>

RemoveRestoreFails(p) ==
  /\ pc[p] = "removeRestore"
  /\ Finish(p, Says("error", "unknown", "no", "yes"))
  /\ UNCHANGED <<shared, job, wrote, got>>

UnmarkRemoved(p) == [config EXCEPT !.pending[Name(p)] = {}]

RemoveMark(p) ==
  /\ pc[p] = "removeMark" /\ ConfigFree
  /\ ~Exists(config, Name(p)) /\ MarkerIs(Name(p), mem[p].keys)
  /\ config' = UnmarkRemoved(p)
  /\ \/ Goto(p, "emitConfig") /\ UNCHANGED <<locks, mem, report>>
     \/ Finish(p, Says("error", "yes", "yes", "unknown"))
  /\ UNCHANGED <<cache, job, wrote, got>>

RemoveMarkConflict(p) ==
  /\ pc[p] = "removeMark" /\ ConfigFree
  /\ Exists(config, Name(p)) \/ ~MarkerIs(Name(p), mem[p].keys)
  /\ Finish(p, Says("error", "yes", "yes", "yes"))
  /\ UNCHANGED <<shared, job, wrote, got>>

RemoveMarkFails(p) ==
  /\ pc[p] = "removeMark"
  /\ Finish(p, Says("error", "yes", "yes", "yes"))
  /\ UNCHANGED <<shared, job, wrote, got>>

-------------------------------------------------------------------------------
(***************************************************************************)
(* auth logout: every image, then every bearer pointer and marker.         *)
(***************************************************************************)
LogoutPrepare(p) ==
  /\ pc[p] = "prepare" /\ job[p].kind = "logout"
  /\ TakeMaint(p)
  /\ Plans(p, CacheKeys, None)
  /\ Goto(p, "logoutClear")
  /\ UNCHANGED <<shared, job, wrote, got, report>>

LogoutClear(p) ==
  /\ pc[p] = "logoutClear"
  /\ cache' = Installed(p)
  /\ Goto(p, "logoutCheck")
  /\ UNCHANGED <<config, locks, job, mem, wrote, got, report>>

\* Files already removed stay removed.
LogoutClearFails(p) ==
  /\ pc[p] = "logoutClear"
  /\ \E S \in SUBSET PlanKeys(p) :
       /\ cache' = Touched(p, S)
       /\ Finish(p, Says("error", "no", Cleared(p, S), "unknown"))
  /\ UNCHANGED <<config, job, wrote, got>>

\* A configuration with nothing to clear, or unreadable, is not written.
LogoutCheck(p) ==
  /\ pc[p] = "logoutCheck"
  /\ \/ /\ config.pending # NoPending \/ \E n \in Profiles : config.profile[n] \in Keys
        /\ Goto(p, "logoutConfig")
        /\ UNCHANGED locks
     \/ Goto(p, "logoutDone") /\ Unlock(p)
  /\ UNCHANGED <<shared, job, mem, wrote, got, report>>

LogoutConfigUpdate ==
  [config EXCEPT !.profile = [n \in Profiles |-> IF config.profile[n] \in Keys
                                                 THEN NoAuth ELSE config.profile[n]],
                 !.pending = NoPending]

LogoutConfig(p) ==
  /\ pc[p] = "logoutConfig" /\ ConfigFree
  /\ config' = LogoutConfigUpdate
  /\ wrote' = [wrote EXCEPT ![p] = TRUE]
  /\ \/ Goto(p, "logoutDone") /\ Unlock(p) /\ UNCHANGED <<mem, report>>
     \/ Finish(p, Says("error", "yes", Cleared(p, PlanKeys(p)), "unknown"))
  /\ UNCHANGED <<cache, job, got>>

LogoutConfigFails(p) ==
  /\ pc[p] = "logoutConfig"
  /\ \E profile \in {"no", "unknown"} :
       Finish(p, Says("error", profile, Cleared(p, PlanKeys(p)), "unknown"))
  /\ UNCHANGED <<shared, job, wrote, got>>

\* The lease is released; the output takes a new one.
LogoutDone(p) ==
  /\ pc[p] = "logoutDone"
  /\ Goto(p, "emitLock")
  /\ UNCHANGED <<shared, locks, job, mem, wrote, got, report>>

\* An error of the release tells all; a cancellation knows of images only.
LogoutDoneFails(p) ==
  /\ pc[p] = "logoutDone"
  /\ \/ Finish(p, Standing(p, "error"))
     \/ Finish(p, IF Cleared(p, PlanKeys(p)) = "yes"
                  THEN Says("error", "unknown", "yes", "unknown") ELSE Refused)
  /\ UNCHANGED <<shared, job, wrote, got>>

-------------------------------------------------------------------------------
(***************************************************************************)
(* A command that uses the profile's cached token, and the output stage of *)
(* every command: the maintenance lock, then the configuration shared.     *)
(***************************************************************************)
ReadKey(p) == IF mem[p].auth = Managed THEN ManagedKey[Name(p)] ELSE mem[p].auth

\* Seeded fault: the image is read without the maintenance lock.
ReadCacheUnlocked(p) ==
  /\ pc[p] = "readCache"
  /\ cache[ReadKey(p)] # None
  /\ got' = [got EXCEPT ![p] = cache[ReadKey(p)]]
  /\ Goto(p, "emitLock")
  /\ UNCHANGED <<shared, locks, job, mem, wrote, report>>

\* The shared maintenance lock is taken and released within the step.
ReadCache(p) ==
  /\ pc[p] = "readCache" /\ maint = None
  /\ cache[ReadKey(p)] # None
  /\ got' = [got EXCEPT ![p] = cache[ReadKey(p)]]
  /\ Goto(p, "emitLock")
  /\ UNCHANGED <<shared, locks, job, mem, wrote, report>>

EmitLock(p) ==
  /\ pc[p] = "emitLock"
  /\ TakeMaint(p)
  /\ Goto(p, "emitConfig")
  /\ UNCHANGED <<shared, job, mem, wrote, got, report>>

EmitConfig(p) ==
  /\ pc[p] = "emitConfig" /\ configLock = None
  /\ outputs' = outputs \cup {p}
  /\ Goto(p, "emitting")
  /\ UNCHANGED <<shared, maint, configLock, job, mem, wrote, got, report>>

EmitDone(p) ==
  /\ pc[p] = "emitting"
  /\ Finish(p, Standing(p, "success"))
  /\ UNCHANGED <<shared, job, wrote, got>>

EmitFails(p) ==
  /\ pc[p] \in {"emitLock", "emitConfig", "emitting"}
  /\ Finish(p, Standing(p, "error"))
  /\ UNCHANGED <<shared, job, wrote, got>>

-------------------------------------------------------------------------------
\* Killed; in the middle of a plan with any of its files already changed.
Crash(p) ==
  /\ pc[p] \notin {"idle", "done", "crashed"}
  /\ Goto(p, "crashed")
  /\ mem' = [mem EXCEPT ![p] = Fresh]
  /\ Unlock(p)
  /\ \/ cache' = cache
     \/ /\ pc[p] \in {"recCommit", "loginCommit", "loginRollback",
                      "removeCommit", "logoutClear"}
        /\ \E S \in SUBSET PlanKeys(p) : cache' = Touched(p, S)
  /\ UNCHANGED <<config, job, wrote, got, report>>

\* Steps that need no fault: what the process does when it is let run.
Advance(p) ==
  \/ RecoverPrepare(p) \/ RecoverSkip(p) \/ RecoverLock(p) \/ RecoverCommit(p)
  \/ RecoverWrite(p) \/ RecoverDone(p) \/ RecoverStart(p)
  \/ Load(p) \/ LoginPrepare(p) \/ LoginCommit(p) \/ LoginConfig(p)
  \/ LoginRollback(p) \/ LoginDone(p)
  \/ ChangeWrite(p)
  \/ RemovePrepare(p) \/ RemoveConfig(p) \/ RemoveCommit(p) \/ RemoveRestore(p)
  \/ RemoveRestoreConflict(p) \/ RemoveMark(p) \/ RemoveMarkConflict(p)
  \/ LogoutPrepare(p) \/ LogoutClear(p) \/ LogoutCheck(p) \/ LogoutConfig(p)
  \/ LogoutDone(p)
  \/ ReadCache(p) \/ EmitLock(p) \/ EmitConfig(p) \/ EmitDone(p)

\* Errors, cancellation and the deadline, at the checks the code makes.
Fail(p) ==
  \/ RecoverCommitFails(p) \/ RecoverWriteFails(p) \/ RecoverRefused(p)
  \/ Refuse(p) \/ LoginCommitFails(p) \/ LoginRefuseConfig(p) \/ LoginDoneFails(p)
  \/ RemoveConfigFails(p) \/ RemoveCommitFails(p) \/ RemoveRestoreFails(p)
  \/ RemoveMarkFails(p) \/ LogoutClearFails(p) \/ LogoutConfigFails(p)
  \/ LogoutDoneFails(p) \/ EmitFails(p)

\* The refusals that depend on what the command finds, not on a fault.
MustRefuse(p) ==
  \/ pc[p] = "load" /\ (\/ ~Exists(config, Name(p))
                        \/ job[p].kind = "read" /\ config.profile[Name(p)] = NoAuth)
  \/ pc[p] = "readCache" /\ maint = None /\ cache[ReadKey(p)] = None
  \/ /\ pc[p] = "recConfig" /\ ConfigFree
     /\ config.pending[mem[p].at] = Marked(p) /\ config.profile[mem[p].at] \in Marked(p)
  \/ pc[p] = "loginConfig" /\ ConfigFree /\ LoginConflict(p)
  \/ pc[p] = "removeConfig" /\ ConfigFree /\ config.profile[Name(p)] # mem[p].auth

Next == \E p \in Procs : Launch(p) \/ Advance(p) \/ Fail(p) \/ Crash(p)

Spec == Init /\ [][Next]_vars

\* A scheduled process goes on; a launched one is not launched by fairness,
\* and no fault, timeout or kill is promised.
Step(p) == Advance(p) \/ (MustRefuse(p) /\ Fail(p))
FairSpec == Spec /\ \A p \in Procs : WF_vars(Step(p))

-------------------------------------------------------------------------------
Labels == {"idle", "recStart", "recNext", "recConfig", "recCommit", "recWrite",
           "load", "prepare", "loginCommit", "loginConfig", "loginRollback",
           "loginDone", "change", "removeConfig", "removeCommit",
           "removeRestore", "removeMark", "logoutClear", "logoutCheck",
           "logoutConfig", "logoutDone", "readCache", "emitLock", "emitConfig", "emitting",
           "done", "crashed"}

Job == [kind : Commands \cup {None}, name : Profiles \cup {None}]

Preimages == UNION {[S -> Image \cup {None}] : S \in SUBSET CacheKeys}

Memory == [auth : Auth \cup {Absent}, to : {None, Managed} \cup Keys,
           keys : SUBSET Keys, current : BOOLEAN,
           before : Preimages,
           after : Procs \cup {None},
           todo : [Profiles -> SUBSET Keys], at : Profiles \cup {None},
           recovered : BOOLEAN, rested : SUBSET Procs]

\* Every variable has its type.
TypeOK ==
  /\ config \in ConfigFile
  /\ cache \in [CacheKeys -> Image \cup {None}]
  /\ maint \in Procs \cup {None}
  /\ configLock \in Procs \cup {None}
  /\ outputs \subseteq Procs
  /\ pc \in [Procs -> Labels]
  /\ job \in [Procs -> Job]
  /\ mem \in [Procs -> Memory]
  /\ wrote \in [Procs -> BOOLEAN]
  /\ got \in [Procs -> Image \cup {None}]
  /\ report \in [Procs -> Report]

\* The file always passes the checks that load() makes of it: the current
\* profile exists and no profile points to a generation marked for deletion.
\* modify_until validates before it writes, but only a login's update is ever
\* refused for it: the updates of all other writers preserve validity, the
\* compensation and the recovery, which may not be refused, among them.
ConfigLoads == ValidConfig(config)

\* What an invocation has in hand where it needs it.
RemembersOf(p) ==
  /\ pc[p] # "idle" => job[p].kind \in Commands /\ job[p].name \in Profiles
  /\ pc[p] \in {"recConfig", "recCommit", "recWrite"} => mem[p].at \in Profiles
  /\ \/ pc[p] \in {"loginCommit", "loginConfig"}
     \/ pc[p] = "prepare" /\ job[p].kind = "login"
     => mem[p].to \in {Managed} \cup Keys
  /\ \/ pc[p] \in {"removeConfig", "removeCommit", "removeRestore"}
     \/ pc[p] = "prepare" /\ job[p].kind = "remove"
     => mem[p].auth \in Auth
  /\ pc[p] = "readCache" => mem[p].auth \in Auth \ {NoAuth}

Remembers == \A p \in Procs : RemembersOf(p)

\* Where an invocation works on the cache, and where on a configuration it
\* has read, it owns the lock: with the order of the two locks, all that
\* keeps the two files in step.
MaintLabels == {"recConfig", "recCommit", "recWrite", "loginCommit", "loginConfig",
                "loginRollback", "loginDone", "removeConfig", "removeCommit",
                "removeRestore", "removeMark", "logoutClear", "logoutCheck",
                "logoutConfig", "emitConfig", "emitting"}

LocksOf(p) ==
  /\ pc[p] \in MaintLabels => maint = p
  /\ pc[p] \in {"recCommit", "recWrite"} => configLock = p
  /\ pc[p] = "emitting" => p \in outputs

LocksHeld ==
  /\ configLock # None => outputs = {}
  /\ \A p \in Procs : LocksOf(p)

IInv == TypeOK /\ Remembers /\ LocksHeld /\ ConfigLoads

\* docs/output-contract.md: an imported bearer a profile points to is in the
\* cache.  Pointer and image are in two files with no common commit; only a
\* logout, which clears the images before the pointers, may part them, and
\* not once its pointers are cleared.
PointerBacked ==
  (\E n \in Profiles : \E k \in StoredKeys(config.profile[n]) : cache[k] = None)
    => \E q \in Procs : /\ job[q].kind = "logout"
                        /\ pc[q] \notin {"idle", "prepare", "logoutClear"}
                        /\ ~wrote[q]

\* docs/threat-model.md: no generation is left behind that no file knows of,
\* unless a login was killed between its two commits or said it could not
\* restore the cache.  A live login may still hold one.
NoStrandedImage ==
  \A k \in Keys : cache[k] # None =>
    \/ \E n \in Profiles : k \in CleanupKeys(config, n)
    \/ \E q \in Procs :
         /\ cache[k] = q
         /\ \/ pc[q] \in {"loginConfig", "loginRollback", "crashed"}
            \/ report[q].cache = "unknown"

\* A reader never acts on a token of a login that takes it back: staging and
\* rollback are invisible outside the maintenance lock.
ReadCommitted ==
  \A p, q \in Procs : got[p] = q =>
    ~(pc[q] = "done" /\ report[q].cache = "no")

\* The images and the pointers to them agree, whichever commands meet.
ImagesAgree == PointerBacked /\ NoStrandedImage /\ ReadCommitted

\* The maintenance lock has been p's since its plan was prepared.
HoldsPlan(p) ==
  \/ pc[p] \in {"loginCommit", "loginConfig", "loginRollback", "loginDone",
                "removeConfig", "removeCommit", "removeRestore", "removeMark"}
  \/ /\ pc[p] \in {"emitConfig", "emitting"}
     /\ \/ job[p].kind = "remove"
        \/ job[p].kind = "login" /\ mem[p].keys = {}

\* What a command says of its own changes is what happened to the files: a
\* pointer it denies is not its own, an image it denies is back to its
\* preimage, and images it claims are installed or gone.  (A logout that is
\* cancelled at its end: LogoutCancelledTruthful.)
Truthful(p) ==
  LET r == report'[p] IN
  r.kind \in {"success", "error"} =>
    /\ r.profile = "yes" => wrote'[p]
    /\ r.profile = "no" /\ pc[p] # "logoutDone" => ~wrote'[p]
    /\ HoldsPlan(p) =>
         /\ r.cache = "no" => \A k \in PlanKeys(p) : cache'[k] = mem[p].before[k]
         /\ r.cache = "yes" => \A k \in PlanKeys(p) : cache'[k] = mem[p].after

ReportsTruthful ==
  [][\A p \in Procs : pc[p] # "done" /\ pc'[p] = "done" => Truthful(p)]_vars

\* An active generation's image disappears only in a logout: a recovery that
\* worked from an old snapshot, or a rollback after the commit point, would
\* delete a usable token.
NoLiveImageDeleted ==
  [][\A n \in Profiles : \A k \in StoredKeys(config.profile[n]) :
       cache[k] # None /\ cache'[k] = None =>
         \E q \in Procs : job[q].kind = "logout" /\ pc[q] = "logoutClear"]_vars

\* The bytes an invocation writes were checked against the credentials in
\* the two files; nobody changes either until it has written them.
OutputIsolated ==
  [][\A p \in Procs : pc[p] = "emitting" /\ pc'[p] = "emitting" => UNCHANGED shared]_vars

\* A profile removal that reports success left neither image nor marker.
RemovalComplete ==
  [][\A p \in Procs :
       job[p].kind = "remove" /\ pc[p] = "emitting" /\ report'[p].kind = "success" =>
         \A k \in mem[p].keys :
           /\ cache'[k] = None
           /\ k \notin config'.pending[Name(p)]]_vars

\* Since p read the markers nobody else has changed the configuration: every
\* other invocation had ended before, or has not come to its own change of it.
Undisturbed(p) ==
  \A q \in Procs \ {p} :
    q \in mem[p].rested \/ (q \notin Gone /\ ~wrote[q] /\ ~mem[q].recovered)

\* Such a recovery leaves no marker in the file, those of killed invocations
\* among them, whether it then tells the caller to start the command again,
\* lets it go on or, after a commit, goes on to the output.
RecoveryHeals ==
  [][\A p \in Procs :
       /\ Undisturbed(p) /\ pc[p] = "recNext" /\ mem[p].todo = NoPending
       /\ pc'[p] \in {"done", "load", "change", "emitLock"}
       => config'.pending = NoPending]_vars

\* Two locks, taken in one order and dropped on every path, block nobody for
\* good: what is launched ends, without a timeout's help.
EveryInvocationEnds ==
  \A p \in Procs : pc[p] # "idle" ~> pc[p] \in {"done", "crashed"}

-------------------------------------------------------------------------------
(***************************************************************************)
(* What the documents say and the code does not do.                        *)
(***************************************************************************)

\* docs/authentication.md:83: a removal whose images were put back restores
\* the profile, even when the deadline or a cancellation stopped the cache
\* plan.  Only someone else's change may stand in the way.
RemovalCompensated ==
  [][\A p \in Procs : RemoveRestoreConflict(p) =>
       Exists(config, Name(p)) \/ config.pending[Name(p)] # mem[p].keys]_vars

\* docs/authentication.md:98: a login that has read its profile when a logout
\* starts to clear either commits before that or loses its compare-and-swap, so
\* it does not commit if the logout succeeds; here for a profile that was read
\* without an imported bearer, so that the logout has no pointer to clear.
LogoutBeatsLogin ==
  [](\A p, q \in Procs :
       /\ pc[p] = "prepare" /\ job[p].kind = "login" /\ mem[p].auth \notin Keys
       /\ pc[q] = "logoutClear"
       => []~(wrote[p] /\ report[q].kind = "success"))

\* docs/errors.md:94: the details of a cancellation tell what was committed,
\* so a logout that denies every local change made none.
LogoutCancelledTruthful ==
  [][\A p \in Procs :
       pc[p] = "logoutDone" /\ report'[p].kind = "error" /\ report'[p].profile = "no" =>
         ~wrote[p]]_vars
===============================================================================
