------------------------- MODULE BearerImagesProofs -------------------------
(***************************************************************************)
(* For any number of invocations, profiles and generations: the token      *)
(* cache agrees with the pointers in the configuration, and what a command *)
(* reports of the two files is so.                                         *)
(*                                                                         *)
(* The invariant says of each invocation which part of its command it has  *)
(* reached and what its plan has done to the cache; the maintenance lock   *)
(* keeps everybody else from the cache meanwhile.  Of the keys it says     *)
(* that a new generation is known to its login only, so that nobody else   *)
(* can point to it, mark it or delete it.                                  *)
(***************************************************************************)
EXTENDS BearerTransactionsProofs

-------------------------------------------------------------------------------
(***************************************************************************)
(* The parts of the invariant.                                             *)
(***************************************************************************)
\* Control points of the recovery, of the output stage, and of the end.
Recovering == {"recNext", "recConfig", "recCommit", "recWrite"}
Emitting == {"emitLock", "emitConfig", "emitting"}
Ended == {"done", "crashed"}

\* Where a command of each kind is before its configuration change is in the
\* file, and where after it.
Before(kind) ==
  CASE kind = "login"  -> Recovering \cup {"load", "prepare", "loginCommit", "loginConfig",
                                           "loginRollback"}
    [] kind = "change" -> Recovering \cup {"change"}
    [] kind = "remove" -> Recovering \cup {"load", "prepare", "removeConfig"}
    [] kind = "logout" -> Emitting \cup {"prepare", "logoutClear", "logoutCheck", "logoutConfig",
                                         "logoutDone"}
    [] kind = "read"   -> Recovering \cup Emitting \cup {"load", "readCache"}
    [] OTHER -> {}
After(kind) ==
  CASE kind = "login"  -> Recovering \cup Emitting \cup {"loginDone", "recStart"}
    [] kind = "change" -> Recovering \cup Emitting \cup {"recStart"}
    [] kind = "remove" -> {"removeCommit", "removeRestore", "removeMark", "emitConfig", "emitting"}
    [] kind = "logout" -> Emitting \cup {"logoutDone"}
    [] OTHER -> {}

\* The control point goes with the command and with what it has written; what
\* is not running remembers nothing; a report is filed at the end.
StageOf(p) ==
  /\ pc[p] = "idle" => ~wrote[p]
  /\ pc[p] \in {"idle"} \cup Ended => mem[p] = Fresh
  /\ pc[p] \notin {"idle"} \cup Ended =>
       pc[p] \in (IF wrote[p] THEN After(job[p].kind) ELSE Before(job[p].kind))
  /\ pc[p] # "done" => report[p] = NoReport

\* A login that holds a new generation no file points to yet.
Wanting(p) ==
  /\ \/ pc[p] \in {"loginCommit", "loginConfig", "loginRollback"}
     \/ pc[p] = "prepare" /\ job[p].kind = "login"
  /\ mem[p].to \in Keys

\* Generations are remembered with the profile they were hashed for.
PlacedOf(p) ==
  /\ \A n \in Profiles : mem[p].todo[n] \subseteq KeysOf[n]
  /\ pc[p] \notin {"idle"} \cup Ended =>
       StoredKeys(mem[p].auth) \cup mem[p].keys \subseteq KeysOf[Name(p)]
  /\ Wanting(p) => mem[p].to \in KeysOf[Name(p)]

\* So are those in the configuration.
ConfigPlaced ==
  \A n \in Profiles :
    /\ StoredKeys(config.profile[n]) \subseteq KeysOf[n]
    /\ config.pending[n] \subseteq KeysOf[n]

\* What goes with the authentication an invocation read.
RetiresOf(p) ==
  /\ job[p].kind = "login" /\ pc[p] \in {"prepare", "loginCommit", "loginConfig"} =>
       mem[p].keys = StoredKeys(mem[p].auth)
  /\ job[p].kind = "login" /\ wrote[p] /\ pc[p] \in Recovering \cup {"recStart", "emitLock"} =>
       mem[p].keys # {}
  /\ job[p].kind = "remove" /\ pc[p] \in {"prepare", "removeConfig", "removeCommit",
                                          "removeRestore"} =>
       StoredKeys(mem[p].auth) \subseteq mem[p].keys

\* The two halves of HoldsPlan.
LoginHolds(p) ==
  \/ pc[p] \in {"loginCommit", "loginConfig", "loginRollback", "loginDone"}
  \/ job[p].kind = "login" /\ mem[p].keys = {} /\ pc[p] \in {"emitConfig", "emitting"}
RemoveHolds(p) ==
  \/ pc[p] \in {"removeConfig", "removeCommit", "removeRestore", "removeMark"}
  \/ job[p].kind = "remove" /\ pc[p] \in {"emitConfig", "emitting"}

\* Control points at which the plan's preimages are in the cache, and those at
\* which its image is.
Staged == {"recConfig", "recCommit", "loginCommit", "removeConfig", "removeCommit",
           "removeRestore", "logoutClear"}
InPlace(p) ==
  \/ pc[p] \in {"recWrite", "loginConfig", "loginRollback", "loginDone", "removeMark",
                "logoutCheck", "logoutConfig"}
  \/ /\ pc[p] \in {"emitConfig", "emitting"}
     /\ (LoginHolds(p) \/ RemoveHolds(p))

\* Which keys each plan covers, and what it installs.
ShapeOf(p) ==
  /\ pc[p] \in {"recConfig", "recCommit", "recWrite"} =>
       mem[p].after = None /\ PlanKeys(p) = Marked(p)
  /\ LoginHolds(p) => mem[p].after = p /\ PlanKeys(p) = {TargetKey(p)}
  /\ RemoveHolds(p) => mem[p].after = None /\ PlanKeys(p) = mem[p].keys
  /\ pc[p] \in {"logoutClear", "logoutCheck", "logoutConfig"} =>
       mem[p].after = None /\ PlanKeys(p) = CacheKeys

\* Between two steps a plan is wholly applied or not at all.
PlanOf(p) ==
  /\ pc[p] \in {"loginCommit", "loginConfig", "loginRollback"} /\ mem[p].to \in Keys =>
       mem[p].before[mem[p].to] = None
  /\ pc[p] \in Staged => \A k \in PlanKeys(p) : cache[k] = mem[p].before[k]
  /\ InPlace(p) => \A k \in PlanKeys(p) : cache[k] = mem[p].after

\* A recovery deletes what the file marks, and nothing it points to.
MarkOf(p) ==
  pc[p] \in {"recCommit", "recWrite"} =>
    /\ config.pending[mem[p].at] = Marked(p)
    /\ config.profile[mem[p].at] \notin Marked(p)

\* The new generation of a login is its own until its commit.
WantsOf(p) ==
  Wanting(p) =>
    /\ \A n \in Profiles : mem[p].to \notin CleanupKeys(config, n)
    /\ mem[p].to \notin {mem[p].auth} \cup mem[p].keys
    /\ \A q \in Procs \ {p} : mem[p].to \notin {mem[q].auth, mem[q].to} \cup mem[q].keys

\* A logout has cleared images, and its pointers are not known to be cleared.
LogoutUnderway ==
  \E q \in Procs : /\ job[q].kind = "logout"
                   /\ pc[q] \notin {"idle", "prepare", "logoutClear"}
                   /\ ~wrote[q]
\* A removal between its two commits: the profile is gone, and the image it may
\* have to put the profile back to is the one it remembers.
RemovalOf(p) ==
  /\ RemoveHolds(p) /\ pc[p] # "removeConfig" =>
       config.profile[Name(p)] \notin Keys
  /\ job[p].kind = "remove" /\ pc[p] \in {"emitConfig", "emitting"} =>
       config.pending[Name(p)] \cap mem[p].keys = {}
  /\ pc[p] \in {"removeCommit", "removeRestore"} /\ mem[p].auth \in Keys =>
       mem[p].before[mem[p].auth] # None \/ LogoutUnderway

\* A login that will not take its image back.
Settled(q) ==
  /\ job[q].kind = "login"
  /\ wrote[q] \/ pc[q] \in Ended
  /\ pc[q] = "done" => report[q].cache # "no"

\* An image that is to be seen, was seen or may be put back comes from a login
\* that is settled, or is staged by a login under the maintenance lock.
WriterOf(q) ==
  /\ \A k \in CacheKeys : cache[k] = q =>
       \/ pc[q] \in {"loginConfig", "loginRollback"} /\ k \in PlanKeys(q)
       \/ Settled(q)
  /\ \A p \in Procs :
       /\ got[p] = q => Settled(q)
       /\ pc[p] \in {"loginCommit", "loginConfig", "loginRollback"} =>
            \A k \in PlanKeys(p) : mem[p].before[k] = q => Settled(q)

\* While nobody else changes the configuration, the markers a recovery still has
\* to work through are those in the file.  Who had ended when it read them stays
\* so.
HealsOf(p) ==
  /\ mem[p].rested \subseteq Gone
  /\ Undisturbed(p) /\ pc[p] \in Recovering => config.pending = mem[p].todo

-------------------------------------------------------------------------------
(***************************************************************************)
(* One step: who it leaves alone, which labels write which file.           *)
(***************************************************************************)
Act(p) == Launch(p) \/ Advance(p) \/ Fail(p) \/ Crash(p)

\* A step leaves the local state of every other invocation as it was.
LEMMA Bystanders ==
  ASSUME Typed, NEW p \in Procs, Act(p), NEW q \in Procs, q # p
  PROVE  /\ pc'[q] = pc[q] /\ job'[q] = job[q] /\ mem'[q] = mem[q]
         /\ wrote'[q] = wrote[q] /\ got'[q] = got[q] /\ report'[q] = report[q]
<1> USE DEF Typed, TypeOK, Goto, Finish
<1>1. CASE Launch(p) \/ Crash(p)
  BY <1>1 DEF Launch, Crash, ReadMarkers
<1>2. CASE \/ RecoverPrepare(p) \/ RecoverSkip(p) \/ RecoverLock(p) \/ RecoverCommit(p)
           \/ RecoverWrite(p) \/ RecoverDone(p) \/ RecoverStart(p)
  BY <1>2
  DEF RecoverPrepare, RecoverSkip, RecoverLock, RecoverCommit, RecoverWrite, RecoverDone,
      RecoverStart, ReadMarkers, ForgetRested
<1>3. CASE \/ RecoverCommitFails(p) \/ RecoverWriteFails(p) \/ RecoverRefused(p)
  BY <1>3
  DEF RecoverCommitFails, RecoverWriteFails, RecoverRefused, RecoveryFailed
<1>4. CASE \/ Load(p) \/ Refuse(p) \/ LoginPrepare(p) \/ LoginCommit(p) \/ LoginCommitFails(p)
           \/ LoginConfig(p) \/ LoginRefuseConfig(p) \/ LoginRollback(p) \/ LoginDone(p)
           \/ LoginDoneFails(p) \/ ChangeWrite(p)
  BY <1>4
  DEF Load, Refuse, LoginPrepare, LoginCommit, LoginCommitFails, LoginConfig, Plans,
      LoginRefuseConfig, LoginRollback, LoginDone, LoginDoneFails, ChangeWrite
<1>5. CASE \/ RemovePrepare(p) \/ RemoveConfig(p) \/ RemoveConfigFails(p) \/ RemoveCommit(p)
           \/ RemoveCommitFails(p) \/ RemoveRestore(p) \/ RemoveRestoreConflict(p)
           \/ RemoveRestoreFails(p) \/ RemoveMark(p) \/ RemoveMarkConflict(p) \/ RemoveMarkFails(p)
  BY <1>5
  DEF RemovePrepare, RemoveConfig, RemoveConfigFails, RemoveCommit, RemoveCommitFails, Plans,
      RemoveRestore, RemoveRestoreConflict, RemoveRestoreFails, RemoveMark,
      RemoveMarkConflict, RemoveMarkFails
<1>6. CASE \/ LogoutPrepare(p) \/ LogoutClear(p) \/ LogoutClearFails(p) \/ LogoutCheck(p)
           \/ LogoutConfig(p) \/ LogoutConfigFails(p) \/ LogoutDone(p) \/ LogoutDoneFails(p)
  BY <1>6
  DEF LogoutPrepare, LogoutClear, LogoutClearFails, LogoutCheck, LogoutConfig, Plans,
      LogoutConfigFails, LogoutDone, LogoutDoneFails
<1>7. CASE ReadCache(p) \/ EmitLock(p) \/ EmitConfig(p) \/ EmitDone(p) \/ EmitFails(p)
  BY <1>7 DEF ReadCache, EmitLock, EmitConfig, EmitDone, EmitFails
<1> QED  BY <1>1, <1>2, <1>3, <1>4, <1>5, <1>6, <1>7 DEF Act, Advance, Fail

\* What the reading and the forgetting of markers leaves alone.
LEMMA MarkersKept ==
  ASSUME Typed, NEW p \in Procs, ReadMarkers(p) \/ ForgetRested(p)
  PROVE  /\ mem'[p].auth = mem[p].auth /\ mem'[p].to = mem[p].to /\ mem'[p].keys = mem[p].keys
         /\ mem'[p].before = mem[p].before /\ mem'[p].after = mem[p].after
         /\ mem'[p].recovered = mem[p].recovered /\ mem'[p].at = mem[p].at
         /\ ReadMarkers(p) => mem'[p].todo = config.pending /\ mem'[p].rested = Gone
         /\ ForgetRested(p) => mem'[p].todo = mem[p].todo /\ mem'[p].rested = {}
<1>1. mem[p] \in Memory /\ mem \in [Procs -> Memory]
  BY DEF Typed, TypeOK
<1>2. CASE ReadMarkers(p)
  <2>1. mem'[p] = [mem[p] EXCEPT !.todo = config.pending, !.rested = Gone]
    BY <1>1, <1>2 DEF ReadMarkers
  <2>2. mem'[p].todo = config.pending
    BY <1>1, <2>1 DEF Memory
  <2>3. ForgetRested(p) => mem'[p].todo = mem[p].todo /\ mem'[p].rested = {}
    BY <1>1 DEF ForgetRested, Memory
  <2> QED  BY <1>1, <2>1, <2>2, <2>3 DEF Memory
<1>3. CASE ForgetRested(p)
  <2>1. mem'[p] = [mem[p] EXCEPT !.rested = {}]
    BY <1>1, <1>3 DEF ForgetRested
  <2>2. ReadMarkers(p) => mem'[p].todo = config.pending /\ mem'[p].rested = Gone
    BY <1>1 DEF ReadMarkers, Memory
  <2> QED  BY <1>1, <2>1, <2>2 DEF Memory
<1> QED  BY <1>2, <1>3

\* Nor do the other steps that write one or two fields touch these.
LEMMA FieldsKept ==
  ASSUME Typed, NEW p \in Procs,
         \/ RecoverPrepare(p) \/ RecoverSkip(p) \/ Load(p) \/ LoginPrepare(p)
         \/ RemovePrepare(p) \/ LogoutPrepare(p) \/ (RemoveConfig(p) /\ pc'[p] # "done")
  PROVE  mem'[p].recovered = mem[p].recovered /\ mem'[p].rested = mem[p].rested
<1>1. mem[p] \in Memory /\ mem \in [Procs -> Memory] /\ pc \in [Procs -> Labels]
  BY DEF Typed, TypeOK
<1>2. CASE RecoverPrepare(p)
  <2>1. \E n \in Profiles : mem'[p] = [mem[p] EXCEPT !.at = n, !.after = None,
                              !.before = [k \in mem[p].todo[n] |-> cache[k]]]
    BY <1>1, <1>2 DEF RecoverPrepare
  <2> QED  BY <1>1, <2>1 DEF Memory
<1>3. CASE RecoverSkip(p)
  <2>1. \E t : mem'[p] = [mem[p] EXCEPT !.todo = t]
    BY <1>1, <1>3 DEF RecoverSkip
  <2> QED  BY <1>1, <2>1 DEF Memory
<1>4. CASE Load(p)
  <2> DEFINE stored == config.profile[Name(p)]
  <2>1. \/ \E to \in {Managed} \cup FreshKeys(Name(p)) :
             mem' = [mem EXCEPT ![p].auth = stored, ![p].to = to, ![p].keys = StoredKeys(stored)]
        \/ mem' = [mem EXCEPT ![p].auth = stored, ![p].keys = CleanupKeys(config, Name(p))]
        \/ mem' = [mem EXCEPT ![p].auth = stored]
    BY <1>4 DEF Load
  <2> HIDE DEF stored
  <2>2. CASE \E to \in {Managed} \cup FreshKeys(Name(p)) :
               mem' = [mem EXCEPT ![p].auth = stored, ![p].to = to, ![p].keys = StoredKeys(stored)]
    BY <1>1, <2>2 DEF Memory
  <2>3. CASE mem' = [mem EXCEPT ![p].auth = stored, ![p].keys = CleanupKeys(config, Name(p))]
    BY <1>1, <2>3 DEF Memory
  <2>4. CASE mem' = [mem EXCEPT ![p].auth = stored]
    BY <1>1, <2>4 DEF Memory
  <2> QED  BY <2>1, <2>2, <2>3, <2>4
<1>5. CASE LoginPrepare(p) \/ RemovePrepare(p) \/ LogoutPrepare(p)
  <2>1. \E S, image : Plans(p, S, image)
    BY <1>5 DEF LoginPrepare, RemovePrepare, LogoutPrepare
  <2>2. PICK S, image : Plans(p, S, image)
    BY <2>1
  <2>3. mem'[p] = [mem[p] EXCEPT !.before = [k \in S |-> cache[k]], !.after = image]
    BY <1>1, <2>2 DEF Plans
  <2> QED  BY <1>1, <2>3 DEF Memory
<1>6. CASE RemoveConfig(p) /\ pc'[p] # "done"
  <2>1. mem' = [mem EXCEPT ![p].current = (config.current = Name(p))]
    BY <1>1, <1>6 DEF RemoveConfig, Finish, Goto
  <2>2. mem'[p] = [mem[p] EXCEPT !.current = (config.current = Name(p))]
    BY <1>1, <2>1
  <2> QED  BY <1>1, <2>2 DEF Memory
<1> QED  BY <1>2, <1>3, <1>4, <1>5, <1>6

Writing == {"recCommit", "loginCommit", "loginRollback", "removeCommit", "logoutClear"}

\* The cache changes only where a plan is applied, and only on its keys.
LEMMA CacheSteps ==
  ASSUME NEW p \in Procs, Act(p)
  PROVE  \/ cache' = cache
         \/ /\ pc[p] \in Writing
            /\ \E S \in SUBSET PlanKeys(p) : cache' = Touched(p, S)
<1>0. {} \in SUBSET PlanKeys(p) /\ PlanKeys(p) \in SUBSET PlanKeys(p)
  OBVIOUS
<1> USE DEF Installed, Restored, shared, Writing
<1>1. CASE Launch(p) \/ Crash(p)
  BY <1>1 DEF Launch, Crash, ReadMarkers
<1>2. CASE \/ RecoverPrepare(p) \/ RecoverSkip(p) \/ RecoverLock(p) \/ RecoverCommit(p)
           \/ RecoverWrite(p) \/ RecoverDone(p) \/ RecoverStart(p)
           \/ RecoverCommitFails(p) \/ RecoverWriteFails(p) \/ RecoverRefused(p)
  BY <1>0, <1>2
  DEF RecoverPrepare, RecoverSkip, RecoverLock, RecoverCommit, RecoverWrite, RecoverDone,
      RecoverStart, RecoverCommitFails, RecoverWriteFails, RecoverRefused,
      ReadMarkers, ForgetRested
<1>4. CASE \/ Load(p) \/ Refuse(p) \/ LoginPrepare(p) \/ LoginCommit(p) \/ LoginCommitFails(p)
           \/ LoginConfig(p) \/ LoginRefuseConfig(p) \/ LoginRollback(p) \/ LoginDone(p)
           \/ LoginDoneFails(p) \/ ChangeWrite(p)
  BY <1>0, <1>4
  DEF Load, Refuse, LoginPrepare, LoginCommit, LoginCommitFails, LoginConfig,
      LoginRefuseConfig, LoginRollback, LoginDone, LoginDoneFails, ChangeWrite
<1>5. CASE \/ RemovePrepare(p) \/ RemoveConfig(p) \/ RemoveConfigFails(p) \/ RemoveCommit(p)
           \/ RemoveCommitFails(p) \/ RemoveRestore(p) \/ RemoveRestoreConflict(p)
           \/ RemoveRestoreFails(p) \/ RemoveMark(p) \/ RemoveMarkConflict(p) \/ RemoveMarkFails(p)
  BY <1>0, <1>5
  DEF RemovePrepare, RemoveConfig, RemoveConfigFails, RemoveCommit, RemoveCommitFails,
      RemoveRestore, RemoveRestoreConflict, RemoveRestoreFails, RemoveMark,
      RemoveMarkConflict, RemoveMarkFails
<1>6. CASE \/ LogoutPrepare(p) \/ LogoutClear(p) \/ LogoutClearFails(p) \/ LogoutCheck(p)
           \/ LogoutConfig(p) \/ LogoutConfigFails(p) \/ LogoutDone(p) \/ LogoutDoneFails(p)
  BY <1>0, <1>6
  DEF LogoutPrepare, LogoutClear, LogoutClearFails, LogoutCheck, LogoutConfig,
      LogoutConfigFails, LogoutDone, LogoutDoneFails
<1>7. CASE ReadCache(p) \/ EmitLock(p) \/ EmitConfig(p) \/ EmitDone(p) \/ EmitFails(p)
  BY <1>7 DEF ReadCache, EmitLock, EmitConfig, EmitDone, EmitFails
<1> QED  BY <1>1, <1>2, <1>4, <1>5, <1>6, <1>7 DEF Act, Advance, Fail

\* The writes of the configuration, each with its guard.
ConfigStep(p) ==
  \/ pc[p] = "recWrite" /\ config' = Unmarked(p)
  \/ /\ ConfigFree
     /\ \/ pc[p] = "loginConfig" /\ ~LoginConflict(p) /\ config' = LoginConfigUpdate(p)
        \/ pc[p] = "change" /\ config' \in Changes(Name(p))
        \/ /\ pc[p] = "removeConfig" /\ config.profile[Name(p)] = mem[p].auth
           /\ config' = RemoveConfigUpdate(p)
        \/ /\ pc[p] = "removeRestore" /\ ~Exists(config, Name(p)) /\ MarkerIs(Name(p), mem[p].keys)
           /\ config' = RestoreUpdate(p)
        \/ /\ pc[p] = "removeMark" /\ ~Exists(config, Name(p)) /\ MarkerIs(Name(p), mem[p].keys)
           /\ config' = UnmarkRemoved(p)
        \/ pc[p] = "logoutConfig" /\ config' = LogoutConfigUpdate

\* No step changes both files.
LEMMA ConfigSteps ==
  ASSUME NEW p \in Procs, Act(p)
  PROVE  config' = config \/ (cache' = cache /\ ConfigStep(p))
<1> USE DEF ConfigStep, shared
<1>1. CASE Launch(p) \/ Crash(p)
  BY <1>1 DEF Launch, Crash, ReadMarkers
<1>2. CASE \/ RecoverPrepare(p) \/ RecoverSkip(p) \/ RecoverLock(p) \/ RecoverCommit(p)
           \/ RecoverWrite(p) \/ RecoverDone(p) \/ RecoverStart(p)
           \/ RecoverCommitFails(p) \/ RecoverWriteFails(p) \/ RecoverRefused(p)
  BY <1>2
  DEF RecoverPrepare, RecoverSkip, RecoverLock, RecoverCommit, RecoverWrite, RecoverDone,
      RecoverStart, RecoverCommitFails, RecoverWriteFails, RecoverRefused,
      ReadMarkers, ForgetRested
<1>4. CASE \/ Load(p) \/ Refuse(p) \/ LoginPrepare(p) \/ LoginCommit(p) \/ LoginCommitFails(p)
           \/ LoginConfig(p) \/ LoginRefuseConfig(p) \/ LoginRollback(p) \/ LoginDone(p)
           \/ LoginDoneFails(p) \/ ChangeWrite(p)
  BY <1>4
  DEF Load, Refuse, LoginPrepare, LoginCommit, LoginCommitFails, LoginConfig,
      LoginRefuseConfig, LoginRollback, LoginDone, LoginDoneFails, ChangeWrite
<1>5. CASE \/ RemovePrepare(p) \/ RemoveConfig(p) \/ RemoveConfigFails(p) \/ RemoveCommit(p)
           \/ RemoveCommitFails(p) \/ RemoveRestore(p) \/ RemoveRestoreConflict(p)
           \/ RemoveRestoreFails(p) \/ RemoveMark(p) \/ RemoveMarkConflict(p) \/ RemoveMarkFails(p)
  BY <1>5
  DEF RemovePrepare, RemoveConfig, RemoveConfigFails, RemoveCommit, RemoveCommitFails,
      RemoveRestore, RemoveRestoreConflict, RemoveRestoreFails, RemoveMark,
      RemoveMarkConflict, RemoveMarkFails
<1>6. CASE \/ LogoutPrepare(p) \/ LogoutClear(p) \/ LogoutClearFails(p) \/ LogoutCheck(p)
           \/ LogoutConfig(p) \/ LogoutConfigFails(p) \/ LogoutDone(p) \/ LogoutDoneFails(p)
  BY <1>6
  DEF LogoutPrepare, LogoutClear, LogoutClearFails, LogoutCheck, LogoutConfig,
      LogoutConfigFails, LogoutDone, LogoutDoneFails
<1>7. CASE ReadCache(p) \/ EmitLock(p) \/ EmitConfig(p) \/ EmitDone(p) \/ EmitFails(p)
  BY <1>7 DEF ReadCache, EmitLock, EmitConfig, EmitDone, EmitFails
<1> QED  BY <1>1, <1>2, <1>4, <1>5, <1>6, <1>7 DEF Act, Advance, Fail

-------------------------------------------------------------------------------
(***************************************************************************)
(* StageOf, PlacedOf, RetiresOf and ShapeOf: preserved by the process alone. *)
(***************************************************************************)
LEMMA FinishStage ==
  ASSUME Typed, NEW p \in Procs, NEW r, Finish(p, r)
  PROVE  StageOf(p)'
  BY DEF Typed, TypeOK, Finish, Goto, StageOf, Ended

LEMMA RecoveryFailedEnds ==
  ASSUME NEW p, NEW cached, NEW cleanup, RecoveryFailed(p, cached, cleanup)
  PROVE  \E r : Finish(p, r)
  BY DEF RecoveryFailed

LEMMA StageOwn ==
  ASSUME Typed, NEW p \in Procs, StageOf(p), Act(p)
  PROVE  StageOf(p)'
<1> USE DEF Typed, TypeOK, Goto, StageOf, Before, After, Recovering, Emitting, Ended, Commands
<1>1. CASE \E r : Finish(p, r)
  BY <1>1, FinishStage
<1>2. CASE Launch(p)
  BY <1>2 DEF Launch, ReadMarkers
<1>3. CASE Crash(p)
  BY <1>3 DEF Crash
<1>4. CASE RecoverPrepare(p)
  BY <1>4 DEF RecoverPrepare
<1>5. CASE RecoverSkip(p)
  BY <1>5 DEF RecoverSkip
<1>6. CASE RecoverLock(p)
  BY <1>6 DEF RecoverLock
<1>7. CASE RecoverCommit(p)
  BY <1>7 DEF RecoverCommit
<1>8. CASE RecoverWrite(p)
  BY <1>8 DEF RecoverWrite
<1>9. CASE RecoverDone(p)
  BY <1>9, <1>1 DEF RecoverDone, ForgetRested
<1>10. CASE RecoverStart(p)
  BY <1>10 DEF RecoverStart, ReadMarkers
<1>11. CASE Load(p)
  BY <1>11 DEF Load
<1>12. CASE LoginPrepare(p)
  BY <1>12 DEF LoginPrepare, Plans
<1>13. CASE LoginCommit(p)
  BY <1>13 DEF LoginCommit
<1>14. CASE LoginConfig(p)
  BY <1>14, <1>1 DEF LoginConfig
<1>15. CASE LoginRefuseConfig(p)
  BY <1>15 DEF LoginRefuseConfig
<1>16. CASE LoginDone(p)
  BY <1>16 DEF LoginDone
<1>17. CASE ChangeWrite(p)
  BY <1>17, <1>1 DEF ChangeWrite
<1>18. CASE RemovePrepare(p)
  BY <1>18 DEF RemovePrepare, Plans
<1>19. CASE RemoveConfig(p)
  BY <1>19, <1>1 DEF RemoveConfig
<1>20. CASE RemoveCommit(p)
  BY <1>20 DEF RemoveCommit
<1>21. CASE RemoveCommitFails(p)
  BY <1>21, <1>1 DEF RemoveCommitFails
<1>22. CASE RemoveMark(p)
  BY <1>22, <1>1 DEF RemoveMark
<1>23. CASE LogoutPrepare(p)
  BY <1>23 DEF LogoutPrepare, Plans
<1>24. CASE LogoutClear(p)
  BY <1>24 DEF LogoutClear
<1>25. CASE LogoutCheck(p)
  BY <1>25 DEF LogoutCheck
<1>26. CASE LogoutConfig(p)
  BY <1>26, <1>1 DEF LogoutConfig
<1>27. CASE LogoutDone(p)
  BY <1>27 DEF LogoutDone
<1>28. CASE ReadCache(p) \/ EmitLock(p) \/ EmitConfig(p)
  BY <1>28 DEF ReadCache, EmitLock, EmitConfig
<1>29. CASE \/ EmitDone(p) \/ LoginRollback(p) \/ RemoveRestore(p) \/ RemoveRestoreConflict(p)
            \/ RemoveMarkConflict(p)
  BY <1>29, <1>1
  DEF EmitDone, LoginRollback, RemoveRestore, RemoveRestoreConflict, RemoveMarkConflict
<1>30. CASE Fail(p) /\ ~(LoginRefuseConfig(p) \/ RemoveCommitFails(p))
  BY <1>30, <1>1, RecoveryFailedEnds
  DEF Fail, RecoverCommitFails, RecoverWriteFails, RecoverRefused, Refuse,
      LoginCommitFails, LoginDoneFails, RemoveConfigFails, RemoveRestoreFails,
      RemoveMarkFails, LogoutClearFails, LogoutConfigFails, LogoutDoneFails, EmitFails
<1> QED
  BY <1>2, <1>3, <1>4, <1>5, <1>6, <1>7, <1>8, <1>9, <1>10, <1>11, <1>12, <1>13, <1>14,
     <1>15, <1>16, <1>17, <1>18, <1>19, <1>20, <1>21, <1>22, <1>23, <1>24, <1>25,
     <1>26, <1>27, <1>28, <1>29, <1>30 DEF Act, Advance

\* What an invocation keeps whatever the others do.
LocalOf(p) == StageOf(p) /\ PlacedOf(p) /\ RetiresOf(p) /\ ShapeOf(p)

LEMMA FinishLocal ==
  ASSUME Typed, NEW p \in Procs, NEW r, Finish(p, r)
  PROVE  LocalOf(p)'
<1>1. pc'[p] = "done" /\ mem'[p] = Fresh
  BY DEF Typed, TypeOK, Finish, Goto
<1>2. StageOf(p)'
  BY FinishStage
<1>3. PlacedOf(p)'
  BY <1>1 DEF PlacedOf, Wanting, Ended, Fresh, NoPending
<1> QED  BY <1>1, <1>2, <1>3
DEF LocalOf, RetiresOf, ShapeOf, LoginHolds, RemoveHolds, Recovering

LEMMA LocalOwn ==
  ASSUME Typed, Typed', ConfigPlaced, NEW p \in Procs, LocalOf(p), Act(p)
  PROVE  LocalOf(p)'
<1> USE DEF Typed, TypeOK, Goto, Recovering, Emitting, Ended, LocalOf, PlacedOf,
        RetiresOf, ShapeOf, LoginHolds, RemoveHolds, Wanting, Name, PlanKeys, TargetKey,
        Marked
<1>0. StageOf(p)'
  BY StageOwn
<1>s. StageOf(p)
  OBVIOUS
<1>1. CASE \E r : Finish(p, r)
  BY <1>1, FinishLocal
<1>2. CASE Launch(p)
  <2>1. mem[p] = Fresh /\ ~wrote[p]
    BY <1>2 DEF Launch, StageOf, ReadMarkers
  <2>2. Name(p)' \in Profiles /\ pc'[p] \in {"recNext", "prepare", "change", "load"}
        /\ (pc'[p] = "prepare" => job'[p].kind = "logout") /\ ~wrote'[p]
    BY <2>1, <1>2 DEF Launch, ReadMarkers
  <2>3. mem'[p].auth = Absent /\ mem'[p].keys = {} /\ mem'[p].todo \in {config.pending, NoPending}
    BY <2>1, <1>2 DEF Launch, Fresh, ReadMarkers
  <2>4. StoredKeys(Absent) = {}
    BY KeysAssumption DEF StoredKeys
  <2>5. PlacedOf(p)'
    BY <2>2, <2>3, <2>4 DEF ConfigPlaced, NoPending
  <2> QED  BY <1>0, <2>2, <2>5
<1>3. CASE Crash(p)
  <2>1. pc'[p] = "crashed" /\ mem'[p] = Fresh
    BY <1>3 DEF Crash
  <2>2. PlacedOf(p)'
    BY <2>1 DEF Fresh, NoPending
  <2> QED  BY <1>0, <2>1, <2>2
<1>4. CASE RecoverPrepare(p)
  BY <1>0, <1>1, <1>4 DEF RecoverPrepare, StageOf, Before, After
<1>5. CASE RecoverSkip(p)
  BY <1>0, <1>1, <1>5 DEF RecoverSkip, StageOf, Before, After
<1>6. CASE RecoverLock(p)
  BY <1>0, <1>1, <1>6 DEF RecoverLock, StageOf, Before, After
<1>7. CASE RecoverCommit(p)
  BY <1>0, <1>1, <1>7 DEF RecoverCommit, StageOf, Before, After
<1>8. CASE RecoverWrite(p)
  BY <1>0, <1>1, <1>8 DEF RecoverWrite, StageOf, Before, After
<1>9. CASE RecoverDone(p)
  <2>1. CASE ForgetRested(p)
    <3>1. /\ mem'[p].auth = mem[p].auth /\ mem'[p].to = mem[p].to /\ mem'[p].keys = mem[p].keys
          /\ mem'[p].todo = mem[p].todo
      BY <2>1, MarkersKept
    <3>2. /\ pc[p] = "recNext" /\ job'[p] = job[p] /\ wrote'[p] = wrote[p]
          /\ \/ pc'[p] \in {"done", "change", "load"}
             \/ pc'[p] = "emitLock" /\ wrote[p]
      BY <1>9 DEF RecoverDone, Finish
    <3> QED  BY <1>0, <3>1, <3>2 DEF StageOf, Before, After
  <2>2. CASE ~ForgetRested(p)
    BY <1>1, <1>9, <2>2 DEF RecoverDone
  <2> QED  BY <2>1, <2>2
<1>10. CASE RecoverStart(p)
  <2>1. /\ pc'[p] \in {"recNext", "emitLock"} /\ pc[p] = "recStart"
        /\ job'[p] = job[p] /\ wrote'[p] = wrote[p]
    BY <1>10 DEF RecoverStart, ReadMarkers
  <2>2. /\ mem'[p].auth = mem[p].auth /\ mem'[p].keys = mem[p].keys
        /\ mem'[p].todo \in {config.pending, mem[p].todo}
    BY <1>10, MarkersKept DEF RecoverStart
  <2>3. PlacedOf(p)'
    BY <2>1, <2>2 DEF ConfigPlaced
  <2> QED  BY <1>0, <2>1, <2>2, <2>3
<1>11. CASE Load(p)
  <2> DEFINE n == Name(p)
             stored == config.profile[n]
  <2>0. n \in Profiles /\ pc[p] = "load" /\ ~wrote[p] /\ job'[p] = job[p] /\ wrote'[p] = wrote[p]
    BY <1>11 DEF Load, StageOf, Before, After, Remembers, RemembersOf
  <2>1. StoredKeys(stored) \subseteq KeysOf[n] /\ CleanupKeys(config, n) \subseteq KeysOf[n]
    BY <2>0 DEF ConfigPlaced, CleanupKeys
  <2>2. CASE /\ job[p].kind = "login"
             /\ \E to \in {Managed} \cup FreshKeys(n) :
                  mem' = [mem EXCEPT ![p].auth = stored, ![p].to = to,
                                     ![p].keys = StoredKeys(stored)]
             /\ Goto(p, "prepare")
    <3>1. PICK to \in {Managed} \cup FreshKeys(n) :
            mem' = [mem EXCEPT ![p].auth = stored, ![p].to = to, ![p].keys = StoredKeys(stored)]
      BY <2>2
    <3>2. to \in Keys => to \in KeysOf[n]
      BY KeysAssumption DEF FreshKeys
    <3>3. pc'[p] = "prepare"
      BY <2>2
    <3>a. /\ mem'[p].auth = stored /\ mem'[p].to = to /\ mem'[p].keys = StoredKeys(stored)
          /\ mem'[p].todo = mem[p].todo
      <4> DEFINE S == StoredKeys(stored)
      <4> HIDE DEF stored, S
      <4>1. mem' = [mem EXCEPT ![p].auth = stored, ![p].to = to, ![p].keys = S]
        BY <3>1 DEF S
      <4>2. mem'[p] = [mem[p] EXCEPT !.auth = stored, !.to = to, !.keys = S]
        BY <4>1
      <4>3. mem[p] \in Memory
        OBVIOUS
      <4>4. /\ mem'[p].auth = stored /\ mem'[p].to = to /\ mem'[p].keys = S
            /\ mem'[p].todo = mem[p].todo
        BY <4>2, <4>3 DEF Memory
      <4> QED  BY <4>4 DEF S
    <3>4. PlacedOf(p)'
      BY <2>0, <2>1, <3>2, <3>3, <3>a
    <3> QED  BY <1>0, <2>0, <2>2, <3>3, <3>a, <3>4
  <2>3. CASE /\ job[p].kind = "remove"
             /\ mem' = [mem EXCEPT ![p].auth = stored, ![p].keys = CleanupKeys(config, n)]
             /\ Goto(p, "prepare")
    <3>1. /\ pc'[p] = "prepare" /\ mem'[p].auth = stored
          /\ mem'[p].keys = CleanupKeys(config, n) /\ mem'[p].todo = mem[p].todo
      BY <2>3
    <3>2. PlacedOf(p)'
      BY <2>0, <2>1, <2>3, <3>1
    <3> QED  BY <1>0, <2>0, <2>3, <3>1, <3>2 DEF CleanupKeys
  <2>4. CASE /\ job[p].kind = "read" /\ stored # NoAuth
             /\ mem' = [mem EXCEPT ![p].auth = stored]
             /\ Goto(p, "readCache")
    <3>1. /\ pc'[p] = "readCache" /\ mem'[p].auth = stored
          /\ mem'[p].keys = mem[p].keys /\ mem'[p].todo = mem[p].todo
      BY <2>4
    <3> QED  BY <1>0, <2>0, <2>1, <2>4, <3>1
  <2> QED  BY <1>11, <2>2, <2>3, <2>4 DEF Load
<1>12. CASE LoginPrepare(p)
  <2>1. /\ mem'[p].after = p /\ PlanKeys(p)' = {TargetKey(p)} /\ TargetKey(p)' = TargetKey(p)
        /\ mem'[p].auth = mem[p].auth /\ mem'[p].to = mem[p].to /\ mem'[p].keys = mem[p].keys
        /\ mem'[p].todo = mem[p].todo
    BY <1>12 DEF LoginPrepare, Plans
  <2>2. pc[p] = "prepare" /\ pc'[p] = "loginCommit" /\ job'[p] = job[p] /\ wrote'[p] = wrote[p]
    BY <1>12 DEF LoginPrepare
  <2>3. job[p].kind = "login"
    BY <1>12 DEF LoginPrepare
  <2> QED  BY <1>0, <2>1, <2>2, <2>3
<1>13. CASE LoginCommit(p)
  BY <1>0, <1>1, <1>13 DEF LoginCommit, StageOf, Before, After
<1>14. CASE LoginConfig(p)
  BY <1>0, <1>1, <1>14 DEF LoginConfig, StageOf, Before, After
<1>15. CASE LoginRefuseConfig(p)
  BY <1>0, <1>1, <1>15 DEF LoginRefuseConfig, StageOf, Before, After
<1>16. CASE LoginDone(p)
  BY <1>0, <1>1, <1>16 DEF LoginDone, StageOf, Before, After
<1>17. CASE ChangeWrite(p)
  BY <1>0, <1>1, <1>17 DEF ChangeWrite, StageOf, Before, After
<1>18. CASE RemovePrepare(p)
  BY <1>0, <1>1, <1>18 DEF RemovePrepare, Plans, StageOf, Before, After
<1>19. CASE RemoveConfig(p)
  <2>1. CASE /\ mem' = [mem EXCEPT ![p].current = (config.current = Name(p))]
             /\ Goto(p, "removeCommit")
    <3> DEFINE c == config.current = Name(p)
    <3>1. mem' = [mem EXCEPT ![p].current = c] /\ pc'[p] = "removeCommit"
      BY <2>1
    <3> HIDE DEF c
    <3>2. /\ mem'[p].auth = mem[p].auth /\ mem'[p].to = mem[p].to /\ mem'[p].keys = mem[p].keys
          /\ mem'[p].todo = mem[p].todo /\ mem'[p].before = mem[p].before
          /\ mem'[p].after = mem[p].after
      BY <3>1
    <3>3. job'[p] = job[p] /\ pc[p] = "removeConfig"
      BY <1>19 DEF RemoveConfig
    <3>4. job[p].kind = "remove"
      BY <3>3 DEF StageOf, Before, After, Remembers, RemembersOf, Commands
    <3> QED  BY <1>0, <3>1, <3>2, <3>3, <3>4
  <2> QED  BY <1>1, <2>1, <1>19 DEF RemoveConfig
<1>20. CASE RemoveCommit(p)
  BY <1>0, <1>1, <1>20 DEF RemoveCommit, StageOf, Before, After
<1>21. CASE RemoveCommitFails(p)
  BY <1>0, <1>1, <1>21 DEF RemoveCommitFails, StageOf, Before, After
<1>22. CASE RemoveMark(p)
  BY <1>0, <1>1, <1>22 DEF RemoveMark, StageOf, Before, After
<1>23. CASE LogoutPrepare(p)
  BY <1>0, <1>1, <1>23 DEF LogoutPrepare, Plans, StageOf, Before, After
<1>24. CASE LogoutClear(p)
  BY <1>0, <1>1, <1>24 DEF LogoutClear, StageOf, Before, After
<1>25. CASE LogoutCheck(p)
  BY <1>0, <1>1, <1>25 DEF LogoutCheck, StageOf, Before, After
<1>26. CASE LogoutConfig(p)
  BY <1>0, <1>1, <1>26 DEF LogoutConfig, StageOf, Before, After
<1>27. CASE LogoutDone(p)
  BY <1>0, <1>1, <1>27 DEF LogoutDone, StageOf, Before, After
<1>28. CASE ReadCache(p)
  BY <1>0, <1>1, <1>28 DEF ReadCache, StageOf, Before, After
<1>29. CASE EmitLock(p)
  BY <1>0, <1>1, <1>29 DEF EmitLock, StageOf, Before, After
<1>30. CASE EmitConfig(p)
  BY <1>0, <1>1, <1>30 DEF EmitConfig, StageOf, Before, After
<1>31. CASE \/ EmitDone(p) \/ LoginRollback(p) \/ RemoveRestore(p) \/ RemoveRestoreConflict(p)
            \/ RemoveMarkConflict(p)
  BY <1>31, <1>1
  DEF EmitDone, LoginRollback, RemoveRestore, RemoveRestoreConflict, RemoveMarkConflict
<1>32. CASE Fail(p) /\ ~(LoginRefuseConfig(p) \/ RemoveCommitFails(p))
  BY <1>32, <1>1, RecoveryFailedEnds
  DEF Fail, RecoverCommitFails, RecoverWriteFails, RecoverRefused, Refuse,
      LoginCommitFails, LoginDoneFails, RemoveConfigFails, RemoveRestoreFails,
      RemoveMarkFails, LogoutClearFails, LogoutConfigFails, LogoutDoneFails, EmitFails
<1> QED
  BY <1>2, <1>3, <1>4, <1>5, <1>6, <1>7, <1>8, <1>9, <1>10, <1>11, <1>12, <1>13, <1>14,
     <1>15, <1>16, <1>17, <1>18, <1>19, <1>20, <1>21, <1>22, <1>23, <1>24, <1>25, <1>26,
     <1>27, <1>28, <1>29, <1>30, <1>31, <1>32
  DEF Act, Advance

-------------------------------------------------------------------------------
(***************************************************************************)
(* The whole invariant, and what the lemmas about a step start from.       *)
(***************************************************************************)
\* The part of the invariant that speaks of one invocation.
AgreeOf(p) ==
  /\ LocalOf(p) /\ PlanOf(p) /\ MarkOf(p) /\ WantsOf(p) /\ RemovalOf(p) /\ WriterOf(p)
  /\ HealsOf(p)

Agree ==
  /\ ConfigPlaced /\ PointerBacked /\ NoStrandedImage
  /\ \A p \in Procs : AgreeOf(p)

\* The inductive invariant.
ImagesInv == IInv /\ Agree

Given(p) == ImagesInv /\ Typed' /\ Act(p)

LEMMA Parts ==
  ASSUME NEW p \in Procs, Given(p)
  PROVE  /\ Typed /\ TypeOK /\ Typed' /\ TypeOK' /\ LocksHeld /\ Act(p)
         /\ ConfigPlaced /\ PointerBacked /\ NoStrandedImage
         /\ \A q \in Procs : /\ LocalOf(q) /\ PlanOf(q) /\ MarkOf(q) /\ WantsOf(q)
                             /\ RemovalOf(q) /\ WriterOf(q) /\ HealsOf(q)
                             /\ StageOf(q) /\ PlacedOf(q) /\ RetiresOf(q) /\ ShapeOf(q)
  BY DEF Given, ImagesInv, IInv, Agree, AgreeOf, LocalOf, Typed

\* While q works under the maintenance lock nobody else does, and nobody
\* else changes the cache.
LEMMA OneHolder ==
  ASSUME NEW p \in Procs, Given(p), NEW q \in Procs, q # p, pc[q] \in MaintLabels
  PROVE  pc[p] \notin MaintLabels /\ maint = q /\ cache' = cache
<1>1. LocksHeld /\ Act(p)
  BY Parts
<1>2. maint = q /\ pc[p] \notin MaintLabels
  BY <1>1 DEF LocksHeld, LocksOf
<1> QED  BY <1>1, <1>2, CacheSteps DEF Writing, MaintLabels

LEMMA PlanKeysType ==
  ASSUME Typed, NEW p \in Procs
  PROVE  PlanKeys(p) \subseteq CacheKeys
  BY Knows, PreimagesElim DEF PlanKeys

\* The three cases of a plan that was applied to the keys of S.
LEMMA TouchedAt ==
  ASSUME NEW p, NEW S, NEW k \in CacheKeys
  PROVE  /\ k \in S => Touched(p, S)[k] = mem[p].after
         /\ k \notin S /\ k \in PlanKeys(p) => Touched(p, S)[k] = mem[p].before[k]
         /\ k \notin S /\ k \notin PlanKeys(p) => Touched(p, S)[k] = cache[k]
  BY DEF Touched

LEMMA LocalStep ==
  ASSUME NEW p \in Procs, Given(p), NEW q \in Procs
  PROVE  LocalOf(q)'
<1> USE Parts
<1>1. CASE q = p
  BY <1>1, LocalOwn
<1>2. CASE q # p
  <2>1. /\ pc'[q] = pc[q] /\ job'[q] = job[q] /\ mem'[q] = mem[q]
        /\ wrote'[q] = wrote[q] /\ got'[q] = got[q] /\ report'[q] = report[q]
    BY <1>2, Bystanders
  <2>2. StageOf(q)'
    BY <2>1 DEF StageOf
  <2>3. PlacedOf(q)'
    BY <2>1 DEF PlacedOf, Wanting, Name
  <2>4. RetiresOf(q)' /\ ShapeOf(q)'
    BY <2>1 DEF RetiresOf, ShapeOf, LoginHolds, RemoveHolds, PlanKeys, Marked, TargetKey, Name
  <2> QED  BY <2>2, <2>3, <2>4 DEF LocalOf
<1> QED  BY <1>1, <1>2

LEMMA ConfigPlacedStep ==
  ASSUME NEW p \in Procs, Given(p)
  PROVE  ConfigPlaced'
<1>0. /\ ConfigPlaced /\ Typed /\ Act(p) /\ PlacedOf(p) /\ StageOf(p) /\ RemembersOf(p)
      /\ config \in ConfigFile
  BY Parts DEF Typed, TypeOK, Remembers
<1>1. CASE config' = config
  BY <1>0, <1>1 DEF ConfigPlaced
<1>2. CASE ConfigStep(p)
  <2>0. pc[p] # "idle" /\ Name(p) \in Profiles /\ pc[p] \notin Ended
    BY <1>0, <1>2, Knows DEF ConfigStep, Ended
  <2>00. StoredKeys(NoAuth) = {} /\ StoredKeys(Managed) = {} /\ StoredKeys(Absent) = {}
    BY KeysAssumption DEF StoredKeys
  <2>01. StoredKeys(mem[p].auth) \cup mem[p].keys \subseteq KeysOf[Name(p)]
    BY <1>0, <2>0 DEF PlacedOf
  <2>1. CASE pc[p] = "recWrite" /\ config' = Unmarked(p)
    BY <1>0, <2>1 DEF ConfigPlaced, Unmarked, ConfigFile, RemembersOf
  <2>2. CASE pc[p] = "loginConfig" /\ config' = LoginConfigUpdate(p)
    <3>1. StoredKeys(mem[p].to) \subseteq KeysOf[Name(p)]
      BY <1>0, <2>2 DEF PlacedOf, Wanting, StoredKeys
    <3> QED  BY <1>0, <2>0, <2>01, <2>2, <3>1 DEF ConfigPlaced, LoginConfigUpdate, ConfigFile
  <2>3. CASE config' \in Changes(Name(p))
    <3>1. CASE Exists(config, Name(p))
      <4>1. CASE config' \in {config, [config EXCEPT !.current = Name(p)]}
        BY <1>0, <4>1 DEF ConfigPlaced, ConfigFile
      <4>2. ASSUME NEW a \in {NoAuth, Managed},
                   config' =
                     [config EXCEPT !.profile[Name(p)] = a,
                                    !.pending[Name(p)] =
                                      @ \cup StoredKeys(config.profile[Name(p)])]
            PROVE  ConfigPlaced'
        BY <1>0, <2>0, <2>00, <4>2 DEF ConfigPlaced, ConfigFile
      <4> QED  BY <2>3, <3>1, <4>1, <4>2 DEF Changes
    <3>2. CASE ~Exists(config, Name(p))
      <4>1. PICK a \in {NoAuth, Managed} :
              config' = [config EXCEPT !.profile[Name(p)] = a,
                                       !.current = IF @ = None THEN Name(p) ELSE @]
        BY <2>3, <3>2 DEF Changes
      <4>2. /\ config'.profile = [config.profile EXCEPT ![Name(p)] = a]
            /\ config'.pending = config.pending
        BY <1>0, <4>1 DEF ConfigFile
      <4> QED  BY <1>0, <2>0, <2>00, <4>2 DEF ConfigPlaced, ConfigFile
    <3> QED  BY <3>1, <3>2
  <2>4. CASE config' = RemoveConfigUpdate(p)
    BY <1>0, <2>0, <2>00, <2>01, <2>4 DEF ConfigPlaced, RemoveConfigUpdate, ConfigFile
  <2>5. CASE config' = RestoreUpdate(p)
    BY <1>0, <2>0, <2>01, <2>5 DEF ConfigPlaced, RestoreUpdate, Retired, ConfigFile
  <2>6. CASE config' = UnmarkRemoved(p)
    BY <1>0, <2>0, <2>6 DEF ConfigPlaced, UnmarkRemoved, ConfigFile
  <2>7. CASE config' = LogoutConfigUpdate
    BY <1>0, <2>00, <2>7 DEF ConfigPlaced, LogoutConfigUpdate, NoPending, ConfigFile
  <2> QED  BY <1>2, <2>1, <2>2, <2>3, <2>4, <2>5, <2>6, <2>7 DEF ConfigStep
<1> QED  BY <1>0, <1>1, <1>2, ConfigSteps

-------------------------------------------------------------------------------
(***************************************************************************)
(* Markers: MarkOf and HealsOf.                                            *)
(***************************************************************************)
LEMMA FinishEnds ==
  ASSUME Typed, NEW p \in Procs, NEW r, Finish(p, r)
  PROVE  pc'[p] = "done" /\ mem'[p] = Fresh
  BY DEF Typed, TypeOK, Finish, Goto

LEMMA FailEnds ==
  ASSUME Typed, NEW p \in Procs, Fail(p), ~(LoginRefuseConfig(p) \/ RemoveCommitFails(p))
  PROVE  pc'[p] = "done" /\ mem'[p] = Fresh
<1>1. \E r : Finish(p, r)
  BY RecoveryFailedEnds
  DEF Fail, RecoverCommitFails, RecoverWriteFails, RecoverRefused, Refuse, LoginCommitFails,
      LoginDoneFails, RemoveConfigFails, RemoveRestoreFails, RemoveMarkFails, LogoutClearFails,
      LogoutConfigFails, LogoutDoneFails, EmitFails
<1> QED  BY <1>1, FinishEnds

\* What has ended stays so.
LEMMA EndedStays ==
  ASSUME NEW p \in Procs, Act(p)
  PROVE  pc[p] \notin Ended
<1> USE DEF Ended
<1>1. CASE Launch(p) \/ Crash(p)
  BY <1>1 DEF Launch, Crash, ReadMarkers
<1>2. CASE \/ RecoverPrepare(p) \/ RecoverSkip(p) \/ RecoverLock(p) \/ RecoverCommit(p)
           \/ RecoverWrite(p) \/ RecoverDone(p) \/ RecoverStart(p)
           \/ RecoverCommitFails(p) \/ RecoverWriteFails(p) \/ RecoverRefused(p)
  BY <1>2
  DEF RecoverPrepare, RecoverSkip, RecoverLock, RecoverCommit, RecoverWrite, RecoverDone,
      RecoverStart, RecoverCommitFails, RecoverWriteFails, RecoverRefused,
      ReadMarkers, ForgetRested
<1>4. CASE \/ Load(p) \/ Refuse(p) \/ LoginPrepare(p) \/ LoginCommit(p) \/ LoginCommitFails(p)
           \/ LoginConfig(p) \/ LoginRefuseConfig(p) \/ LoginRollback(p) \/ LoginDone(p)
           \/ LoginDoneFails(p) \/ ChangeWrite(p)
  BY <1>4
  DEF Load, Refuse, LoginPrepare, LoginCommit, LoginCommitFails, LoginConfig,
      LoginRefuseConfig, LoginRollback, LoginDone, LoginDoneFails, ChangeWrite
<1>5. CASE \/ RemovePrepare(p) \/ RemoveConfig(p) \/ RemoveConfigFails(p) \/ RemoveCommit(p)
           \/ RemoveCommitFails(p) \/ RemoveRestore(p) \/ RemoveRestoreConflict(p)
           \/ RemoveRestoreFails(p) \/ RemoveMark(p) \/ RemoveMarkConflict(p) \/ RemoveMarkFails(p)
  BY <1>5
  DEF RemovePrepare, RemoveConfig, RemoveConfigFails, RemoveCommit, RemoveCommitFails,
      RemoveRestore, RemoveRestoreConflict, RemoveRestoreFails, RemoveMark,
      RemoveMarkConflict, RemoveMarkFails
<1>6. CASE \/ LogoutPrepare(p) \/ LogoutClear(p) \/ LogoutClearFails(p) \/ LogoutCheck(p)
           \/ LogoutConfig(p) \/ LogoutConfigFails(p) \/ LogoutDone(p) \/ LogoutDoneFails(p)
  BY <1>6
  DEF LogoutPrepare, LogoutClear, LogoutClearFails, LogoutCheck, LogoutConfig,
      LogoutConfigFails, LogoutDone, LogoutDoneFails
<1>7. CASE ReadCache(p) \/ EmitLock(p) \/ EmitConfig(p) \/ EmitDone(p) \/ EmitFails(p)
  BY <1>7 DEF ReadCache, EmitLock, EmitConfig, EmitDone, EmitFails
<1> QED  BY <1>1, <1>2, <1>4, <1>5, <1>6, <1>7 DEF Act, Advance, Fail

\* A step that changes the configuration shows: its invocation has ended, or
\* has made its change, or has recovered.
LEMMA ChangesShow ==
  ASSUME Typed, NEW p \in Procs, StageOf(p), Act(p), pc'[p] \notin Ended
  PROVE  /\ wrote[p] => wrote'[p]
         /\ mem[p].recovered => mem'[p].recovered
         /\ config' # config => wrote'[p] \/ mem'[p].recovered
<1> USE DEF Goto, Typed, TypeOK, Ended, shared
<1>1. CASE Launch(p) \/ Crash(p)
  BY <1>1, MarkersKept DEF Launch, Crash
<1>2. CASE RecoverPrepare(p) \/ RecoverSkip(p) \/ RecoverLock(p) \/ RecoverCommit(p)
  BY <1>2, FieldsKept DEF RecoverPrepare, RecoverSkip, RecoverLock, RecoverCommit
<1>3. CASE RecoverWrite(p) \/ RecoverDone(p) \/ RecoverStart(p)
  BY <1>3, FinishEnds, MarkersKept DEF RecoverWrite, RecoverDone, RecoverStart, Memory
<1>4. CASE \/ Load(p) \/ LoginPrepare(p) \/ LoginCommit(p) \/ LoginConfig(p)
           \/ LoginRefuseConfig(p) \/ LoginRollback(p) \/ LoginDone(p) \/ ChangeWrite(p)
  BY <1>4, FinishEnds, FieldsKept
  DEF Load, LoginPrepare, LoginCommit, LoginConfig, LoginRefuseConfig, LoginRollback,
      LoginDone, ChangeWrite
<1>5. CASE \/ RemovePrepare(p) \/ RemoveConfig(p) \/ RemoveCommit(p) \/ RemoveCommitFails(p)
           \/ RemoveRestore(p) \/ RemoveRestoreConflict(p) \/ RemoveMarkConflict(p)
  BY <1>5, FinishEnds, FieldsKept
  DEF RemovePrepare, RemoveConfig, RemoveCommit, RemoveCommitFails, RemoveRestore,
      RemoveRestoreConflict, RemoveMarkConflict
<1>6. CASE RemoveMark(p)
  <2>1. pc[p] = "removeMark" /\ wrote' = wrote
    BY <1>6 DEF RemoveMark
  <2>2. wrote[p]
    BY <2>1 DEF StageOf, Before, Recovering, Emitting
  <2> QED  BY <1>6, <2>1, <2>2, FinishEnds DEF RemoveMark
<1>7. CASE \/ LogoutPrepare(p) \/ LogoutClear(p) \/ LogoutCheck(p) \/ LogoutConfig(p)
           \/ LogoutDone(p) \/ ReadCache(p) \/ EmitLock(p) \/ EmitConfig(p) \/ EmitDone(p)
  BY <1>7, FinishEnds, FieldsKept
  DEF LogoutPrepare, LogoutClear, LogoutCheck, LogoutConfig, LogoutDone, ReadCache, EmitLock,
      EmitConfig, EmitDone
<1>8. CASE Fail(p) /\ ~(LoginRefuseConfig(p) \/ RemoveCommitFails(p))
  BY <1>8, FailEnds
<1> QED  BY <1>1, <1>2, <1>3, <1>4, <1>5, <1>6, <1>7, <1>8 DEF Act, Advance

LEMMA MarkStep ==
  ASSUME NEW p \in Procs, Given(p), NEW q \in Procs
  PROVE  MarkOf(q)'
<1>0. /\ Typed /\ TypeOK /\ TypeOK' /\ LocksHeld /\ Act(p) /\ MarkOf(q) /\ RemembersOf(p)
      /\ q # None
  BY Parts, ProcsAssumption DEF Typed, Remembers, Image
<1>1. CASE q # p
  <2>1. /\ pc'[q] = pc[q] /\ mem'[q] = mem[q]
    BY <1>0, <1>1, Bystanders
  <2>2. pc[q] \in {"recCommit", "recWrite"} => config' = config
    <3>1. pc[q] \in {"recCommit", "recWrite"} => configLock = q
      BY <1>0 DEF LocksHeld, LocksOf
    <3>2. pc[p] = "recWrite" => configLock = p
      BY <1>0 DEF LocksHeld, LocksOf
    <3> QED  BY <1>0, <1>1, <3>1, <3>2, ConfigSteps DEF ConfigStep, ConfigFree
  <2> QED  BY <1>0, <2>1, <2>2 DEF MarkOf, Marked
<1>2. CASE q = p
  <2>1. CASE RecoverLock(p)
    <3>1. mem' = mem /\ config' = config /\ pc'[p] = "recCommit"
      BY <1>0, <2>1 DEF RecoverLock, shared, Goto, TypeOK
    <3> QED  BY <1>2, <2>1, <3>1 DEF RecoverLock, MarkOf, Marked
  <2>2. CASE RecoverCommit(p)
    <3>1. mem' = mem /\ config' = config /\ pc[p] = "recCommit"
      BY <2>2 DEF RecoverCommit
    <3> QED  BY <1>0, <1>2, <3>1 DEF MarkOf, Marked
  <2>3. CASE pc'[p] \notin {"recCommit", "recWrite"}
    BY <1>2, <2>3 DEF MarkOf
  <2>4. pc'[p] \in {"recCommit", "recWrite"} => RecoverLock(p) \/ RecoverCommit(p)
    <3> USE <1>0 DEF Goto, Typed, TypeOK
    <3>1. CASE Launch(p) \/ Crash(p)
      BY <3>1 DEF Launch, Crash, ReadMarkers
    <3>2. CASE \/ RecoverPrepare(p) \/ RecoverSkip(p) \/ RecoverWrite(p) \/ RecoverDone(p)
               \/ RecoverStart(p)
      BY <3>2, FinishEnds
      DEF RecoverPrepare, RecoverSkip, RecoverWrite, RecoverDone, RecoverStart,
          ReadMarkers, ForgetRested
    <3>3. CASE \/ Load(p) \/ LoginPrepare(p) \/ LoginCommit(p)
               \/ LoginConfig(p) \/ LoginRefuseConfig(p) \/ LoginRollback(p) \/ LoginDone(p)
               \/ ChangeWrite(p)
      BY <3>3, FinishEnds
      DEF Load, LoginPrepare, LoginCommit, LoginConfig, LoginRefuseConfig, LoginRollback,
          LoginDone, ChangeWrite
    <3>4. CASE \/ RemovePrepare(p) \/ RemoveConfig(p) \/ RemoveCommit(p)
               \/ RemoveCommitFails(p) \/ RemoveRestore(p) \/ RemoveRestoreConflict(p)
               \/ RemoveMark(p) \/ RemoveMarkConflict(p)
      BY <3>4, FinishEnds
      DEF RemovePrepare, RemoveConfig, RemoveCommit, RemoveCommitFails, RemoveRestore,
          RemoveRestoreConflict, RemoveMark, RemoveMarkConflict
    <3>5. CASE \/ LogoutPrepare(p) \/ LogoutClear(p) \/ LogoutCheck(p) \/ LogoutConfig(p)
               \/ LogoutDone(p) \/ ReadCache(p) \/ EmitLock(p) \/ EmitConfig(p) \/ EmitDone(p)
      BY <3>5, FinishEnds
      DEF LogoutPrepare, LogoutClear, LogoutCheck, LogoutConfig, LogoutDone, ReadCache, EmitLock,
          EmitConfig, EmitDone
    <3>6. CASE Fail(p) /\ ~(LoginRefuseConfig(p) \/ RemoveCommitFails(p))
      BY <3>6, FailEnds
    <3> QED  BY <3>1, <3>2, <3>3, <3>4, <3>5, <3>6 DEF Act, Advance
  <2> QED  BY <2>1, <2>2, <2>3, <2>4
<1> QED  BY <1>1, <1>2

LEMMA HealsOwn ==
  ASSUME NEW p \in Procs, Given(p), Undisturbed(p)', pc'[p] \in Recovering
  PROVE  config'.pending = mem'[p].todo
<1>0. /\ Typed /\ TypeOK /\ Act(p) /\ HealsOf(p) /\ StageOf(p) /\ RemembersOf(p)
      /\ config \in ConfigFile /\ mem[p] \in Memory
      /\ mem[p].todo \in [Profiles -> SUBSET Keys]
  BY Parts, Knows DEF Typed, TypeOK, Remembers
<1>a. mem'[p].rested = mem[p].rested => Undisturbed(p)
  BY <1>0, Bystanders DEF Undisturbed, Gone
<1> USE DEF Goto, Recovering
<1>1. CASE Launch(p) \/ RecoverStart(p)
  <2>1. config' = config
    BY <1>1 DEF Launch, RecoverStart, shared
  <2>2. ReadMarkers(p)
    BY <1>0, <1>1 DEF Launch, RecoverStart, TypeOK
  <2> QED  BY <1>0, <2>1, <2>2, MarkersKept
<1>2. CASE RecoverPrepare(p) \/ RecoverLock(p) \/ RecoverCommit(p)
  <2>1. mem'[p].rested = mem[p].rested
    BY <1>0, <1>2, FieldsKept DEF RecoverLock, RecoverCommit
  <2>3. mem'[p].todo = mem[p].todo
    <3>1. CASE RecoverPrepare(p)
      BY <1>0, <3>1 DEF RecoverPrepare, TypeOK, Memory
    <3>2. CASE RecoverLock(p) \/ RecoverCommit(p)
      BY <3>2 DEF RecoverLock, RecoverCommit
    <3> QED  BY <1>2, <3>1, <3>2
  <2>2. config' = config /\ pc[p] \in Recovering
    BY <1>2 DEF RecoverPrepare, RecoverLock, RecoverCommit, shared
  <2> QED  BY <1>0, <1>a, <2>1, <2>2, <2>3 DEF HealsOf
<1>3. CASE RecoverSkip(p)
  <2>1. mem'[p].rested = mem[p].rested
    BY <1>0, <1>3, FieldsKept
  <2> QED  BY <1>0, <1>3, <1>a, <2>1 DEF RecoverSkip, HealsOf, Marked
<1>4. CASE RecoverWrite(p)
  <2>1. pc[p] = "recWrite" /\ config' = Unmarked(p) /\ mem[p].at \in Profiles
    BY <1>0, <1>4 DEF RecoverWrite, RemembersOf
  <2>2. /\ mem'[p].todo = [mem[p].todo EXCEPT ![mem[p].at] = {}]
        /\ mem'[p].rested = mem[p].rested
    BY <1>0, <1>4 DEF RecoverWrite, TypeOK, Memory
  <2>3. config'.pending = [config.pending EXCEPT ![mem[p].at] = {}]
    BY <1>0, <2>1 DEF Unmarked, ConfigFile
  <2>4. config.pending = mem[p].todo
    BY <1>0, <1>a, <2>1, <2>2 DEF HealsOf
  <2> QED  BY <2>2, <2>3, <2>4
<1>5. \/ Launch(p) \/ RecoverStart(p) \/ RecoverPrepare(p) \/ RecoverSkip(p) \/ RecoverLock(p)
      \/ RecoverCommit(p) \/ RecoverWrite(p)
  <2> USE <1>0 DEF Typed, TypeOK
  <2>1. CASE Crash(p)
    BY <2>1 DEF Crash
  <2>2. CASE RecoverDone(p)
    BY <2>2, FinishEnds DEF RecoverDone
  <2>3. CASE \/ Load(p) \/ LoginPrepare(p) \/ LoginCommit(p) \/ LoginConfig(p)
             \/ LoginRefuseConfig(p) \/ LoginRollback(p) \/ LoginDone(p) \/ ChangeWrite(p)
    BY <2>3, FinishEnds
    DEF Load, LoginPrepare, LoginCommit, LoginConfig, LoginRefuseConfig, LoginRollback,
        LoginDone, ChangeWrite
  <2>4. CASE \/ RemovePrepare(p) \/ RemoveConfig(p) \/ RemoveCommit(p)
             \/ RemoveCommitFails(p) \/ RemoveRestore(p) \/ RemoveRestoreConflict(p)
             \/ RemoveMark(p) \/ RemoveMarkConflict(p)
    BY <2>4, FinishEnds
    DEF RemovePrepare, RemoveConfig, RemoveCommit, RemoveCommitFails, RemoveRestore,
        RemoveRestoreConflict, RemoveMark, RemoveMarkConflict
  <2>5. CASE \/ LogoutPrepare(p) \/ LogoutClear(p) \/ LogoutCheck(p) \/ LogoutConfig(p)
             \/ LogoutDone(p) \/ ReadCache(p) \/ EmitLock(p) \/ EmitConfig(p) \/ EmitDone(p)
    BY <2>5, FinishEnds
    DEF LogoutPrepare, LogoutClear, LogoutCheck, LogoutConfig, LogoutDone, ReadCache, EmitLock,
        EmitConfig, EmitDone
  <2>6. CASE Fail(p) /\ ~(LoginRefuseConfig(p) \/ RemoveCommitFails(p))
    BY <2>6, FailEnds
  <2> QED  BY <2>1, <2>2, <2>3, <2>4, <2>5, <2>6 DEF Act, Advance
<1> QED  BY <1>1, <1>2, <1>3, <1>4, <1>5

\* What rested is given or keeps.
LEMMA RestedKept ==
  ASSUME Typed, NEW p \in Procs, Act(p)
  PROVE  mem'[p].rested \subseteq Gone \cup mem[p].rested
<1> USE DEF Goto
<1>1. CASE \E r : Finish(p, r)
  BY <1>1, FinishEnds DEF Fresh
<1>2. CASE Launch(p) \/ Crash(p)
  BY <1>2, MarkersKept DEF Launch, Crash, Fresh, Typed, TypeOK
<1>3. CASE RecoverPrepare(p) \/ RecoverSkip(p) \/ RecoverLock(p) \/ RecoverCommit(p)
  BY <1>3, FieldsKept DEF RecoverLock, RecoverCommit
<1>4. CASE RecoverWrite(p) \/ RecoverDone(p) \/ RecoverStart(p)
  BY <1>1, <1>4, MarkersKept DEF RecoverWrite, RecoverDone, RecoverStart, Typed, TypeOK, Memory
<1>5. CASE \/ Load(p) \/ LoginPrepare(p) \/ LoginCommit(p) \/ LoginConfig(p)
           \/ LoginRefuseConfig(p) \/ LoginRollback(p) \/ LoginDone(p) \/ ChangeWrite(p)
  BY <1>1, <1>5, FieldsKept
  DEF LoginCommit, LoginConfig, LoginRefuseConfig, LoginRollback, LoginDone, ChangeWrite
<1>6. CASE RemovePrepare(p) \/ LogoutPrepare(p) \/ (RemoveConfig(p) /\ pc'[p] # "done")
  BY <1>6, FieldsKept
<1>7. CASE RemoveConfig(p) /\ pc'[p] = "done"
  <2>1. pc \in [Procs -> Labels]
    BY DEF Typed, TypeOK
  <2>2. \E r : Finish(p, r)
    BY <1>7, <2>1 DEF RemoveConfig
  <2> QED  BY <1>1, <2>2
<1>9. CASE \/ RemoveCommit(p) \/ RemoveCommitFails(p) \/ RemoveRestore(p)
           \/ RemoveRestoreConflict(p) \/ RemoveMark(p) \/ RemoveMarkConflict(p)
  BY <1>1, <1>9
  DEF RemoveCommit, RemoveCommitFails, RemoveRestore, RemoveRestoreConflict, RemoveMark,
      RemoveMarkConflict
<1>10. CASE \/ LogoutClear(p) \/ LogoutCheck(p) \/ LogoutConfig(p) \/ LogoutDone(p)
            \/ ReadCache(p) \/ EmitLock(p) \/ EmitConfig(p) \/ EmitDone(p)
  BY <1>1, <1>10
  DEF LogoutClear, LogoutCheck, LogoutConfig, LogoutDone, ReadCache, EmitLock, EmitConfig,
      EmitDone
<1>8. CASE Fail(p) /\ ~(LoginRefuseConfig(p) \/ RemoveCommitFails(p))
  BY <1>8, FailEnds DEF Fresh
<1> QED  BY <1>2, <1>3, <1>4, <1>5, <1>6, <1>7, <1>8, <1>9, <1>10 DEF Act, Advance

LEMMA HealsStep ==
  ASSUME NEW p \in Procs, Given(p), NEW q \in Procs
  PROVE  HealsOf(q)'
<1>0. /\ Typed /\ Act(p) /\ StageOf(p) /\ HealsOf(q) /\ pc[p] \notin Ended
      /\ q # p => pc'[q] = pc[q] /\ mem'[q] = mem[q]
  BY Parts, EndedStays, Bystanders
<1>1. mem'[q].rested \subseteq Gone'
  <2>1. Gone \subseteq Gone'
    BY <1>0, Bystanders DEF Gone, Ended
  <2>2. mem'[q].rested \subseteq Gone \cup mem[q].rested
    BY <1>0, RestedKept
  <2> QED  BY <1>0, <2>1, <2>2 DEF HealsOf
<1>2. ASSUME q # p, Undisturbed(q)', pc'[q] \in Recovering
      PROVE  config'.pending = mem'[q].todo
  <2>1. p \notin mem[q].rested
    BY <1>0 DEF HealsOf, Gone, Ended
  <2>2. pc'[p] \notin Ended /\ ~wrote'[p] /\ ~mem'[p].recovered
    BY <1>0, <1>2, <2>1 DEF Undisturbed, Gone, Ended
  <2>3. config' = config /\ ~wrote[p] /\ ~mem[p].recovered
    BY <1>0, <2>2, ChangesShow
  <2>4. Undisturbed(q)
    <3> SUFFICES ASSUME NEW r \in Procs \ {q}, r \notin mem[q].rested
                 PROVE  r \notin Gone /\ ~wrote[r] /\ ~mem[r].recovered
      BY DEF Undisturbed
    <3>1. CASE r = p
      BY <1>0, <2>3, <3>1 DEF Gone, Ended
    <3>2. CASE r # p
      BY <1>0, <1>2, <3>2, Bystanders DEF Undisturbed, Gone
    <3> QED  BY <3>1, <3>2
  <2> QED  BY <1>0, <1>2, <2>3, <2>4 DEF HealsOf
<1>3. CASE q # p
  BY <1>1, <1>2, <1>3 DEF HealsOf
<1>4. CASE q = p
  BY <1>1, <1>4, HealsOwn DEF HealsOf
<1> QED  BY <1>3, <1>4

-------------------------------------------------------------------------------
(***************************************************************************)
(* Plans: PlanOf.                                                          *)
(***************************************************************************)
LEMMA InstalledPlan ==
  ASSUME Typed, NEW p \in Procs
  PROVE  /\ \A k \in PlanKeys(p) : Installed(p)[k] = mem[p].after
         /\ \A k \in PlanKeys(p) : Restored(p)[k] = mem[p].before[k]
  BY PlanKeysType, TouchedAt DEF Installed, Restored

\* The steps that leave an invocation with a plan.
LEMMA Planning ==
  ASSUME Typed, NEW p \in Procs, Act(p), pc'[p] \in Staged \/ InPlace(p)'
  PROVE  \/ RecoverPrepare(p) \/ RecoverLock(p) \/ RecoverCommit(p)
         \/ LoginPrepare(p) \/ LoginCommit(p) \/ LoginConfig(p) \/ LoginRefuseConfig(p)
         \/ LoginDone(p) \/ RemovePrepare(p) \/ RemoveConfig(p) \/ RemoveCommit(p)
         \/ RemoveCommitFails(p) \/ RemoveMark(p) \/ LogoutPrepare(p) \/ LogoutClear(p)
         \/ LogoutCheck(p) \/ EmitLock(p) \/ EmitConfig(p)
<1> USE DEF Typed, TypeOK, Goto
<1>0. pc'[p] \in Staged \cup {"recWrite", "loginConfig", "loginRollback", "loginDone", "removeMark",
                              "logoutCheck", "logoutConfig", "emitConfig", "emitting"}
  BY DEF InPlace
<1> USE <1>0 DEF Staged
<1>1. CASE Launch(p) \/ Crash(p)
  BY <1>1 DEF Launch, Crash, ReadMarkers
<1>2. CASE \/ RecoverSkip(p) \/ RecoverWrite(p) \/ RecoverDone(p) \/ RecoverStart(p)
  BY <1>2, FinishEnds DEF RecoverSkip, RecoverWrite, RecoverDone, RecoverStart,
                          ReadMarkers, ForgetRested
<1>3. CASE Load(p) \/ LoginRollback(p) \/ ChangeWrite(p)
  BY <1>3, FinishEnds DEF Load, LoginRollback, ChangeWrite
<1>4. CASE RemoveRestore(p) \/ RemoveRestoreConflict(p) \/ RemoveMarkConflict(p)
  BY <1>4, FinishEnds DEF RemoveRestore, RemoveRestoreConflict, RemoveMarkConflict
<1>5. CASE LogoutConfig(p) \/ LogoutDone(p) \/ ReadCache(p) \/ EmitDone(p)
  BY <1>5, FinishEnds DEF LogoutConfig, LogoutDone, ReadCache, EmitDone
<1>6. CASE Fail(p) /\ ~(LoginRefuseConfig(p) \/ RemoveCommitFails(p))
  BY <1>6, FailEnds
<1> QED  BY <1>1, <1>2, <1>3, <1>4, <1>5, <1>6 DEF Act, Advance

LEMMA PlanOwn ==
  ASSUME NEW p \in Procs, Given(p)
  PROVE  PlanOf(p)'
<1>0. /\ Typed /\ TypeOK /\ Act(p) /\ PlanOf(p) /\ StageOf(p) /\ RetiresOf(p) /\ RemembersOf(p)
      /\ mem[p] \in Memory
  BY Parts DEF Typed, TypeOK, Remembers
<1>a. SUFFICES ASSUME pc'[p] \in Staged \/ InPlace(p)' PROVE PlanOf(p)'
  BY DEF PlanOf, InPlace, Staged
<1> USE <1>0 DEF Goto, PlanOf, Staged, InPlace, LoginHolds, RemoveHolds
<1>1. CASE RecoverPrepare(p)
  <2>1. PICK n \in Profiles :
          mem' = [mem EXCEPT ![p].at = n, ![p].after = None,
                             ![p].before = [k \in mem[p].todo[n] |-> cache[k]]]
    BY <1>1 DEF RecoverPrepare
  <2>2. mem'[p].before = [k \in mem[p].todo[n] |-> cache[k]]
    BY <2>1 DEF TypeOK, Memory
  <2>3. pc'[p] = "recConfig" /\ cache' = cache
    BY <1>1 DEF RecoverPrepare, shared, TypeOK
  <2> QED  BY <2>2, <2>3 DEF PlanKeys
<1>2. CASE RecoverLock(p)
  BY <1>2 DEF RecoverLock, shared, TypeOK, PlanKeys
<1>3. CASE RecoverCommit(p)
  BY <1>3, InstalledPlan DEF RecoverCommit, TypeOK, PlanKeys
<1>4. CASE LoginPrepare(p)
  <2>1. /\ mem'[p].before = [k \in {TargetKey(p)} |-> cache[k]] /\ mem'[p].to = mem[p].to
        /\ pc'[p] = "loginCommit" /\ cache' = cache
    BY <1>4 DEF LoginPrepare, Plans, TypeOK, shared
  <2>2. mem[p].to \in Keys => TargetKey(p) = mem[p].to /\ cache[TargetKey(p)] = None
    BY <1>4, KeysAssumption DEF LoginPrepare, TargetKey
  <2> QED  BY <2>1, <2>2 DEF PlanKeys
<1>5. CASE LoginCommit(p)
  BY <1>5, InstalledPlan DEF LoginCommit, TypeOK, PlanKeys
<1>6. CASE LoginConfig(p)
  BY <1>6, FinishEnds DEF LoginConfig, TypeOK, PlanKeys
<1>7. CASE LoginRefuseConfig(p)
  BY <1>7 DEF LoginRefuseConfig, shared, TypeOK, PlanKeys
<1>8. CASE LoginDone(p)
  BY <1>8 DEF LoginDone, shared, TypeOK, PlanKeys
<1>9. CASE RemovePrepare(p)
  <2>1. /\ mem'[p].before = [k \in mem[p].keys |-> cache[k]]
        /\ pc'[p] = "removeConfig" /\ cache' = cache
    BY <1>9 DEF RemovePrepare, Plans, TypeOK, shared
  <2> QED  BY <2>1 DEF PlanKeys
<1>10. CASE RemoveConfig(p)
  <2>1. /\ mem' = [mem EXCEPT ![p].current = (config.current = Name(p))]
        /\ pc'[p] = "removeCommit" /\ cache' = cache /\ pc[p] = "removeConfig"
    BY <1>10, <1>a, FinishEnds DEF RemoveConfig, TypeOK
  <2> DEFINE c == config.current = Name(p)
  <2>2. mem' = [mem EXCEPT ![p].current = c]
    BY <2>1
  <2> HIDE DEF c
  <2>3. mem'[p].before = mem[p].before
    BY <2>2 DEF TypeOK, Memory
  <2> QED  BY <2>1, <2>3 DEF PlanKeys
<1>11. CASE RemoveCommit(p)
  BY <1>11, InstalledPlan DEF RemoveCommit, TypeOK, PlanKeys
<1>12. CASE RemoveCommitFails(p)
  <2>1. mem' = mem /\ cache' = Restored(p) /\ pc'[p] = "removeRestore"
    BY <1>12, <1>a, FinishEnds DEF RemoveCommitFails, TypeOK
  <2> QED  BY <2>1, InstalledPlan DEF PlanKeys
<1>13. CASE RemoveMark(p)
  BY <1>13, FinishEnds DEF RemoveMark, TypeOK, PlanKeys
<1>14. CASE LogoutPrepare(p)
  <2>1. /\ mem'[p].before = [k \in CacheKeys |-> cache[k]]
        /\ pc'[p] = "logoutClear" /\ cache' = cache
    BY <1>14 DEF LogoutPrepare, Plans, TypeOK, shared
  <2> QED  BY <2>1 DEF PlanKeys
<1>15. CASE LogoutClear(p)
  BY <1>15, InstalledPlan DEF LogoutClear, TypeOK, PlanKeys
<1>16. CASE LogoutCheck(p)
  BY <1>16 DEF LogoutCheck, shared, TypeOK, PlanKeys
<1>17. CASE EmitLock(p)
  <2>1. mem' = mem /\ job' = job /\ pc[p] = "emitLock" /\ pc'[p] = "emitConfig"
    BY <1>17 DEF EmitLock, TypeOK
  <2>2. job[p].kind # "remove"
    BY <2>1 DEF StageOf, Before, After, Ended, Recovering, Emitting
  <2>3. job[p].kind = "login" => mem[p].keys # {}
    BY <2>1 DEF StageOf, Before, After, Ended, Recovering, Emitting, RetiresOf
  <2> QED  BY <2>1, <2>2, <2>3
<1>18. CASE EmitConfig(p)
  BY <1>18 DEF EmitConfig, shared, TypeOK, PlanKeys
<1> QED
  BY <1>a, Planning, <1>1, <1>2, <1>3, <1>4, <1>5, <1>6, <1>7, <1>8, <1>9, <1>10, <1>11, <1>12,
     <1>13, <1>14, <1>15, <1>16, <1>17, <1>18

LEMMA PlanStep ==
  ASSUME NEW p \in Procs, Given(p), NEW q \in Procs
  PROVE  PlanOf(q)'
<1>1. CASE q = p
  BY <1>1, PlanOwn
<1>2. CASE q # p
  <2>0. PlanOf(q) /\ Typed /\ Act(p)
    BY Parts
  <2>1. /\ pc'[q] = pc[q] /\ job'[q] = job[q] /\ mem'[q] = mem[q]
    BY <2>0, <1>2, Bystanders
  <2>2. pc[q] \in Staged \/ InPlace(q) => cache' = cache
    BY <1>2, OneHolder DEF Staged, InPlace, MaintLabels
  <2> QED  BY <2>0, <2>1, <2>2 DEF PlanOf, InPlace, LoginHolds, RemoveHolds, PlanKeys
<1> QED  BY <1>1, <1>2

-------------------------------------------------------------------------------
(***************************************************************************)
(* Generations: where the keys in memory and in the configuration come from, *)
(* and WantsOf.                                                            *)
(***************************************************************************)
Keeps(p) == /\ mem'[p].auth = mem[p].auth /\ mem'[p].to = mem[p].to
            /\ mem'[p].keys = mem[p].keys

\* Only Load reads the profile into memory.
LEMMA Keeping ==
  ASSUME Typed, NEW p \in Procs, Act(p)
  PROVE  Keeps(p) \/ mem'[p] = Fresh \/ Load(p)
<1>0. mem[p] \in Memory
  BY DEF Typed, TypeOK
<1> USE <1>0 DEF Typed, TypeOK, Memory, Keeps
<1>1. CASE Launch(p) \/ Crash(p)
  BY <1>1 DEF Launch, Crash, ReadMarkers
<1>2. CASE RecoverPrepare(p)
  BY <1>2 DEF RecoverPrepare
<1>3. CASE \/ RecoverSkip(p) \/ RecoverLock(p) \/ RecoverCommit(p)
           \/ RecoverWrite(p) \/ RecoverDone(p)
  BY <1>3, FinishEnds
  DEF RecoverSkip, RecoverLock, RecoverCommit, RecoverWrite, RecoverDone, ForgetRested
<1>4. CASE RecoverStart(p)
  BY <1>4 DEF RecoverStart, ReadMarkers
<1>5. CASE \/ LoginPrepare(p) \/ LoginCommit(p) \/ LoginConfig(p)
           \/ LoginRefuseConfig(p) \/ LoginRollback(p) \/ LoginDone(p) \/ ChangeWrite(p)
  BY <1>5, FinishEnds
  DEF LoginPrepare, Plans, LoginCommit, LoginConfig, LoginRefuseConfig, LoginRollback,
      LoginDone, ChangeWrite
<1>6. CASE RemoveConfig(p)
  <2>1. CASE mem' = [mem EXCEPT ![p].current = (config.current = Name(p))]
    <3> DEFINE c == config.current = Name(p)
    <3>1. mem' = [mem EXCEPT ![p].current = c]
      BY <2>1
    <3> HIDE DEF c
    <3> QED  BY <3>1
  <2> QED  BY <1>6, <2>1, FinishEnds DEF RemoveConfig
<1>7. CASE \/ RemovePrepare(p) \/ RemoveCommit(p)
           \/ RemoveCommitFails(p) \/ RemoveRestore(p) \/ RemoveRestoreConflict(p)
           \/ RemoveMark(p) \/ RemoveMarkConflict(p)
  BY <1>7, FinishEnds
  DEF RemovePrepare, Plans, RemoveCommit, RemoveCommitFails, RemoveRestore,
      RemoveRestoreConflict, RemoveMark, RemoveMarkConflict
<1>8. CASE \/ LogoutPrepare(p) \/ LogoutClear(p) \/ LogoutCheck(p) \/ LogoutConfig(p)
           \/ LogoutDone(p) \/ ReadCache(p) \/ EmitLock(p) \/ EmitConfig(p) \/ EmitDone(p)
  BY <1>8, FinishEnds
  DEF LogoutPrepare, Plans, LogoutClear, LogoutCheck, LogoutConfig, LogoutDone, ReadCache,
      EmitLock, EmitConfig, EmitDone
<1>9. CASE Fail(p) /\ ~(LoginRefuseConfig(p) \/ RemoveCommitFails(p))
  BY <1>9, FailEnds
<1> QED  BY <1>1, <1>2, <1>3, <1>4, <1>5, <1>6, <1>7, <1>8, <1>9 DEF Act, Advance

\* The generations an invocation knows.
KeysIn(m) == StoredKeys(m.auth) \cup StoredKeys(m.to) \cup m.keys

LEMMA FreshHolds == KeysIn(Fresh) = {}
  BY KeysAssumption DEF KeysIn, Fresh, StoredKeys

\* It learns a generation from the configuration, or makes a new one.
LEMMA MemGrows ==
  ASSUME Typed, NEW p \in Procs, Act(p), NEW k \in KeysIn(mem'[p])
  PROVE  \/ k \in KeysIn(mem[p])
         \/ k \in FreshKeys(Name(p))
         \/ \E n \in Profiles : k \in CleanupKeys(config, n)
<1>1. CASE Keeps(p)
  BY <1>1 DEF Keeps, KeysIn
<1>2. CASE mem'[p] = Fresh
  BY <1>2, FreshHolds
<1>3. CASE Load(p)
  <2> DEFINE n == Name(p)  stored == config.profile[n]
  <2>0. n \in Profiles /\ mem[p] \in Memory
    BY <1>3, Knows DEF Load, Typed, TypeOK
  <2>1. StoredKeys(stored) \subseteq CleanupKeys(config, n)
    BY DEF CleanupKeys
  <2>s. \A a : StoredKeys(a) \subseteq {a}
    BY DEF StoredKeys
  <2>m. StoredKeys(Managed) = {}
    BY KeysAssumption DEF StoredKeys
  <2> HIDE DEF n, stored
  <2>2. ASSUME NEW to \in {Managed} \cup FreshKeys(n),
               mem' = [mem EXCEPT ![p].auth = stored, ![p].to = to,
                                  ![p].keys = StoredKeys(stored)]
        PROVE  k \in FreshKeys(n) \cup CleanupKeys(config, n)
    <3> DEFINE S == StoredKeys(stored)
    <3> HIDE DEF S
    <3>1. mem' = [mem EXCEPT ![p].auth = stored, ![p].to = to, ![p].keys = S]
      BY <2>2 DEF S
    <3>2. mem'[p] = [mem[p] EXCEPT !.auth = stored, !.to = to, !.keys = S]
      BY <3>1 DEF Typed, TypeOK
    <3>3. mem'[p].auth = stored /\ mem'[p].to = to /\ mem'[p].keys = S
      BY <2>0, <3>2 DEF Memory
    <3> QED  BY <2>1, <2>2, <2>s, <2>m, <3>3 DEF S, KeysIn
  <2>3. CASE mem' = [mem EXCEPT ![p].auth = stored, ![p].keys = CleanupKeys(config, n)]
    <3>1. mem'[p] = [mem[p] EXCEPT !.auth = stored, !.keys = CleanupKeys(config, n)]
      BY <2>3 DEF Typed, TypeOK
    <3>2. /\ mem'[p].auth = stored /\ mem'[p].to = mem[p].to
          /\ mem'[p].keys = CleanupKeys(config, n)
      BY <2>0, <3>1 DEF Memory
    <3> QED  BY <2>0, <2>1, <3>2 DEF KeysIn
  <2>4. CASE mem' = [mem EXCEPT ![p].auth = stored]
    <3>1. /\ mem'[p].auth = stored /\ mem'[p].to = mem[p].to /\ mem'[p].keys = mem[p].keys
      BY <2>0, <2>4 DEF Typed, TypeOK, Memory
    <3> QED  BY <2>0, <2>1, <3>1 DEF KeysIn
  <2> QED  BY <1>3, <2>0, <2>2, <2>3, <2>4 DEF Load, n, stored
<1> QED  BY <1>1, <1>2, <1>3, Keeping

\* The configuration learns of a generation from the invocation that writes it.
LEMMA ConfigGrows ==
  ASSUME Typed, NEW p \in Procs, Act(p), NEW n \in Profiles, NEW k \in CleanupKeys(config', n)
  PROVE  k \in CleanupKeys(config, n) \/ k \in KeysIn(mem[p])
<1>0. config \in ConfigFile /\ RemembersOf(p)
  BY DEF Typed, TypeOK, Remembers
<1>1. CASE config' = config
  BY <1>1
<1>2. CASE ConfigStep(p)
  <2>0. pc[p] # "idle" => Name(p) \in Profiles
    BY Knows
  <2>00. StoredKeys(NoAuth) = {} /\ StoredKeys(Managed) = {} /\ StoredKeys(Absent) = {}
    BY KeysAssumption DEF StoredKeys
  <2> USE <1>0, <2>0, <2>00 DEF CleanupKeys, KeysIn, ConfigFile
  <2>1. CASE pc[p] = "recWrite" /\ config' = Unmarked(p)
    BY <2>1 DEF Unmarked, RemembersOf
  <2>2. CASE pc[p] = "loginConfig" /\ config' = LoginConfigUpdate(p)
    BY <2>2 DEF LoginConfigUpdate
  <2>3. CASE pc[p] = "change" /\ config' \in Changes(Name(p))
    <3>1. CASE Exists(config, Name(p))
      <4>1. CASE config' \in {config, [config EXCEPT !.current = Name(p)]}
        BY <4>1
      <4>2. ASSUME NEW a \in {NoAuth, Managed},
                   config' =
                     [config EXCEPT !.profile[Name(p)] = a,
                                    !.pending[Name(p)] =
                                      @ \cup StoredKeys(config.profile[Name(p)])]
            PROVE  k \in CleanupKeys(config, n)
        BY <2>3, <4>2
      <4> QED  BY <2>3, <3>1, <4>1, <4>2 DEF Changes
    <3>2. CASE ~Exists(config, Name(p))
      <4>1. PICK a \in {NoAuth, Managed} :
              config' = [config EXCEPT !.profile[Name(p)] = a,
                                       !.current = IF @ = None THEN Name(p) ELSE @]
        BY <2>3, <3>2 DEF Changes
      <4>2. /\ config'.profile = [config.profile EXCEPT ![Name(p)] = a]
            /\ config'.pending = config.pending
        BY <4>1
      <4> QED  BY <2>3, <4>2
    <3> QED  BY <3>1, <3>2
  <2>4. CASE pc[p] = "removeConfig" /\ config' = RemoveConfigUpdate(p)
    BY <2>4 DEF RemoveConfigUpdate
  <2>5. CASE pc[p] = "removeRestore" /\ config' = RestoreUpdate(p)
    BY <2>5 DEF RestoreUpdate, Retired
  <2>6. CASE pc[p] = "removeMark" /\ config' = UnmarkRemoved(p)
    BY <2>6 DEF UnmarkRemoved
  <2>7. CASE config' = LogoutConfigUpdate
    BY <2>7 DEF LogoutConfigUpdate, NoPending
  <2> QED  BY <1>2, <2>1, <2>2, <2>3, <2>4, <2>5, <2>6, <2>7 DEF ConfigStep
<1> QED  BY <1>1, <1>2, ConfigSteps

\* From its Load to its commit a login keeps its generation, and the
\* configuration is not its to change.
LEMMA WantingOwn ==
  ASSUME Typed, NEW p \in Procs, Act(p), Wanting(p)', ~Load(p)
  PROVE  Wanting(p) /\ config' = config /\ Keeps(p)
<1>0. mem[p] \in Memory
  BY DEF Typed, TypeOK
<1> USE <1>0 DEF Typed, TypeOK, Goto, Wanting, shared
<1>1. CASE Launch(p) \/ Crash(p)
  BY <1>1 DEF Launch, Crash, ReadMarkers
<1>2. CASE \/ RecoverPrepare(p) \/ RecoverSkip(p) \/ RecoverLock(p) \/ RecoverCommit(p)
           \/ RecoverWrite(p) \/ RecoverDone(p) \/ RecoverStart(p)
  BY <1>2, FinishEnds
  DEF RecoverPrepare, RecoverSkip, RecoverLock, RecoverCommit, RecoverWrite, RecoverDone,
      RecoverStart, ReadMarkers, ForgetRested
<1>3. CASE LoginPrepare(p) \/ LoginCommit(p) \/ LoginRefuseConfig(p)
  BY <1>3 DEF LoginPrepare, Plans, LoginCommit, LoginRefuseConfig, Keeps, Memory
<1>4. CASE LoginConfig(p) \/ LoginRollback(p) \/ LoginDone(p) \/ ChangeWrite(p)
  BY <1>4, FinishEnds DEF LoginConfig, LoginRollback, LoginDone, ChangeWrite
<1>5. CASE \/ RemovePrepare(p) \/ RemoveConfig(p) \/ RemoveCommit(p)
           \/ RemoveCommitFails(p) \/ RemoveRestore(p) \/ RemoveRestoreConflict(p)
           \/ RemoveMark(p) \/ RemoveMarkConflict(p)
  BY <1>5, FinishEnds
  DEF RemovePrepare, Plans, RemoveConfig, RemoveCommit, RemoveCommitFails, RemoveRestore,
      RemoveRestoreConflict, RemoveMark, RemoveMarkConflict
<1>6. CASE \/ LogoutPrepare(p) \/ LogoutClear(p) \/ LogoutCheck(p) \/ LogoutConfig(p)
           \/ LogoutDone(p) \/ ReadCache(p) \/ EmitLock(p) \/ EmitConfig(p) \/ EmitDone(p)
  BY <1>6, FinishEnds
  DEF LogoutPrepare, LogoutClear, LogoutCheck, LogoutConfig, LogoutDone, ReadCache,
      EmitLock, EmitConfig, EmitDone
<1>7. CASE Fail(p) /\ ~(LoginRefuseConfig(p) \/ RemoveCommitFails(p))
  BY <1>7, FailEnds
<1> QED  BY <1>1, <1>2, <1>3, <1>4, <1>5, <1>6, <1>7 DEF Act, Advance

LEMMA Loading ==
  ASSUME Typed, NEW p \in Procs, Load(p), Wanting(p)'
  PROVE  /\ mem'[p].to \in FreshKeys(Name(p)) /\ Name(p) \in Profiles /\ config' = config
         /\ mem'[p].auth = config.profile[Name(p)]
         /\ mem'[p].keys = StoredKeys(config.profile[Name(p)])
<1> DEFINE n == Name(p)  stored == config.profile[n]  S == StoredKeys(stored)
<1>0. /\ n \in Profiles /\ mem[p] \in Memory /\ job'[p] = job[p] /\ config' = config
  BY Knows DEF Load, Typed, TypeOK, shared
<1>1. job[p].kind = "login" /\ pc'[p] \in {"prepare", "readCache"}
  BY <1>0 DEF Load, Wanting, Goto, Typed, TypeOK
<1>2. PICK to \in {Managed} \cup FreshKeys(n) :
        mem' = [mem EXCEPT ![p].auth = stored, ![p].to = to, ![p].keys = S]
  BY <1>1 DEF Load
<1> HIDE DEF n, stored, S
<1>3. mem'[p] = [mem[p] EXCEPT !.auth = stored, !.to = to, !.keys = S]
  BY <1>2 DEF Typed, TypeOK
<1>4. mem'[p].auth = stored /\ mem'[p].to = to /\ mem'[p].keys = S
  BY <1>0, <1>3 DEF Memory
<1>5. to \in FreshKeys(n)
  BY <1>4, KeysAssumption DEF Wanting
<1> QED  BY <1>0, <1>4, <1>5 DEF n, stored, S

LEMMA FreshIs ==
  ASSUME NEW n \in Profiles, NEW k \in FreshKeys(n)
  PROVE  /\ k \in Keys /\ cache[k] = None
         /\ \A x \in Profiles : k \notin CleanupKeys(config, x)
         /\ \A q \in Procs : k \notin {mem[q].auth, mem[q].to} \cup mem[q].keys
         /\ \A q \in Procs : k \notin PlanKeys(q)
  BY KeysAssumption DEF FreshKeys

LEMMA KeysInIs ==
  ASSUME NEW m, NEW k \in Keys
  PROVE  k \in KeysIn(m) <=> k \in {m.auth, m.to} \cup m.keys
  BY DEF KeysIn, StoredKeys

LEMMA WantsStep ==
  ASSUME NEW p \in Procs, Given(p), NEW q \in Procs
  PROVE  WantsOf(q)'
<1>0. Typed /\ Act(p) /\ WantsOf(q)
  BY Parts
<1>1. CASE q # p
  <2> SUFFICES ASSUME Wanting(q)' PROVE WantsOf(q)'
    BY DEF WantsOf
  <2>1. /\ pc'[q] = pc[q] /\ job'[q] = job[q] /\ mem'[q] = mem[q]
    BY <1>0, <1>1, Bystanders
  <2>2. Wanting(q)
    BY <2>1 DEF Wanting
  <2> DEFINE k == mem[q].to
  <2>3. /\ k \in Keys /\ mem'[q].to = k
    BY <2>1, <2>2 DEF Wanting
  <2>3a. /\ \A n \in Profiles : k \notin CleanupKeys(config, n)
         /\ \A r \in Procs \ {q} : k \notin {mem[r].auth, mem[r].to} \cup mem[r].keys
         /\ k \notin {mem[q].auth} \cup mem[q].keys
    BY <1>0, <2>2 DEF WantsOf
  <2>3b. k \notin FreshKeys(Name(p))
    BY DEF FreshKeys
  <2> HIDE DEF k
  <2>4. k \notin KeysIn(mem[p])
    BY <1>1, <2>3, <2>3a, KeysInIs
  <2>5. \A n \in Profiles : k \notin CleanupKeys(config', n)
    BY <1>0, <2>3a, <2>4, ConfigGrows
  <2>6. k \notin KeysIn(mem'[p])
    BY <1>0, <2>3a, <2>3b, <2>4, MemGrows
  <2>7. k \notin {mem'[p].auth, mem'[p].to} \cup mem'[p].keys
    BY <2>3, <2>6, KeysInIs
  <2>8. ASSUME NEW r \in Procs \ {q}
        PROVE  k \notin {mem'[r].auth, mem'[r].to} \cup mem'[r].keys
    <3>1. CASE r = p
      BY <2>7, <3>1
    <3>2. CASE r # p
      <4>1. mem'[r] = mem[r]
        BY <1>0, <3>2, Bystanders
      <4> QED  BY <2>3a, <4>1
    <3> QED  BY <3>1, <3>2
  <2> QED  BY <2>1, <2>3, <2>3a, <2>5, <2>8 DEF WantsOf
<1>2. CASE q = p
  <2> SUFFICES ASSUME Wanting(p)' PROVE WantsOf(p)'
    BY <1>2 DEF WantsOf
  <2>0. \A r \in Procs \ {p} : mem'[r] = mem[r]
    BY <1>0, Bystanders
  <2>1. CASE Load(p)
    <3> DEFINE k == mem'[p].to
    <3>1. /\ k \in FreshKeys(Name(p)) /\ Name(p) \in Profiles /\ config' = config
          /\ mem'[p].auth = config.profile[Name(p)]
          /\ mem'[p].keys = StoredKeys(config.profile[Name(p)])
      BY <1>0, <2>1, Loading
    <3> HIDE DEF k
    <3>2. /\ k \in Keys
          /\ \A x \in Profiles : k \notin CleanupKeys(config, x)
          /\ \A r \in Procs : k \notin {mem[r].auth, mem[r].to} \cup mem[r].keys
      BY <3>1, FreshIs
    <3>3. k \notin {mem'[p].auth} \cup mem'[p].keys
      BY <3>1, <3>2 DEF CleanupKeys, StoredKeys
    <3> QED  BY <2>0, <3>1, <3>2, <3>3 DEF WantsOf, k
  <2>2. CASE ~Load(p)
    BY <1>0, <1>2, <2>0, <2>2, WantingOwn DEF WantsOf, Keeps
  <2> QED  BY <2>1, <2>2
<1> QED  BY <1>1, <1>2

-------------------------------------------------------------------------------
(***************************************************************************)
(* Removals: RemovalOf.                                                    *)
(***************************************************************************)
\* The logout that LogoutUnderway speaks of.
Underway(q) == /\ job[q].kind = "logout"
               /\ pc[q] \notin {"idle", "prepare", "logoutClear"}
               /\ ~wrote[q]

LEMMA UnderwayIs == LogoutUnderway <=> \E q \in Procs : Underway(q)
  BY DEF LogoutUnderway, Underway

LEMMA UnderwayNext == LogoutUnderway' <=> \E q \in Procs : Underway(q)'
  BY DEF LogoutUnderway, Underway

\* Only its own write ends what a logout has begun.
LEMMA UnderwayOwn ==
  ASSUME Typed, NEW p \in Procs, Act(p), StageOf(p), Underway(p), pc[p] # "logoutConfig"
  PROVE  Underway(p)'
<1>0. /\ job[p].kind = "logout" /\ ~wrote[p]
      /\ pc[p] \in {"emitLock", "emitConfig", "emitting", "logoutCheck", "logoutDone",
                    "done", "crashed"}
  BY DEF Underway, StageOf, Before, Emitting, Ended
<1> USE <1>0 DEF Typed, TypeOK, Goto
<1>1. job' = job /\ wrote' = wrote /\ pc'[p] \notin {"idle", "prepare", "logoutClear"}
  <2>1. CASE Launch(p) \/ Crash(p)
    BY <2>1 DEF Launch, Crash, ReadMarkers
  <2>2. CASE \/ RecoverPrepare(p) \/ RecoverSkip(p) \/ RecoverLock(p) \/ RecoverCommit(p)
             \/ RecoverWrite(p) \/ RecoverDone(p) \/ RecoverStart(p)
    BY <2>2
    DEF RecoverPrepare, RecoverSkip, RecoverLock, RecoverCommit, RecoverWrite, RecoverDone,
        RecoverStart, ReadMarkers, ForgetRested
  <2>3. CASE \/ Load(p) \/ LoginPrepare(p) \/ LoginCommit(p) \/ LoginConfig(p)
             \/ LoginRefuseConfig(p) \/ LoginRollback(p) \/ LoginDone(p) \/ ChangeWrite(p)
    BY <2>3
    DEF Load, LoginPrepare, LoginCommit, LoginConfig, LoginRefuseConfig, LoginRollback,
        LoginDone, ChangeWrite
  <2>4. CASE \/ RemovePrepare(p) \/ RemoveConfig(p) \/ RemoveCommit(p)
             \/ RemoveCommitFails(p) \/ RemoveRestore(p) \/ RemoveRestoreConflict(p)
             \/ RemoveMark(p) \/ RemoveMarkConflict(p)
    BY <2>4
    DEF RemovePrepare, RemoveConfig, RemoveCommit, RemoveCommitFails, RemoveRestore,
        RemoveRestoreConflict, RemoveMark, RemoveMarkConflict
  <2>5. CASE \/ LogoutPrepare(p) \/ LogoutClear(p) \/ LogoutCheck(p) \/ LogoutConfig(p)
             \/ LogoutDone(p) \/ ReadCache(p) \/ EmitLock(p) \/ EmitConfig(p) \/ EmitDone(p)
    BY <2>5, FinishEnds
    DEF LogoutPrepare, LogoutClear, LogoutCheck, LogoutConfig, LogoutDone, ReadCache, EmitLock,
        EmitConfig, EmitDone
  <2>6. CASE Fail(p) /\ ~(LoginRefuseConfig(p) \/ RemoveCommitFails(p))
    <3>1. pc'[p] = "done"
      BY <2>6, FailEnds
    <3>2. job' = job /\ wrote' = wrote
      BY <2>6
      DEF Fail, RecoverCommitFails, RecoverWriteFails, RecoverRefused, Refuse, LoginCommitFails,
          LoginDoneFails, RemoveConfigFails, RemoveRestoreFails, RemoveMarkFails,
          LogoutClearFails, LogoutConfigFails, LogoutDoneFails, EmitFails
    <3> QED  BY <3>1, <3>2
  <2> QED  BY <2>1, <2>2, <2>3, <2>4, <2>5, <2>6 DEF Act, Advance
<1> QED  BY <1>1 DEF Underway

LEMMA UnderwayStep ==
  ASSUME NEW p \in Procs, Given(p), LogoutUnderway, pc[p] # "logoutConfig"
  PROVE  LogoutUnderway'
<1>0. Typed /\ Act(p) /\ StageOf(p)
  BY Parts
<1>1. PICK q \in Procs : Underway(q)
  BY UnderwayIs
<1>2. CASE q = p
  BY <1>0, <1>1, <1>2, UnderwayOwn, UnderwayNext
<1>3. CASE q # p
  <2>1. Underway(q)'
    BY <1>0, <1>1, <1>3, Bystanders DEF Underway
  <2> QED  BY <2>1, UnderwayNext
<1> QED  BY <1>2, <1>3

\* What others write while p has the maintenance lock.
LEMMA ForeignWrites ==
  ASSUME NEW p \in Procs, Given(p), NEW q \in Procs, q # p, pc[q] \in MaintLabels
  PROVE  config' = config \/ (pc[p] = "change" /\ config' \in Changes(Name(p)))
  BY OneHolder, ConfigSteps, Parts DEF ConfigStep, MaintLabels

\* What `profile add`, `use` and `update` do to any one profile.
LEMMA ChangesAre ==
  ASSUME config \in ConfigFile, NEW m \in Profiles, NEW c \in Changes(m), NEW n \in Profiles
  PROVE  /\ c.profile[n] = config.profile[n] \/ c.profile[n] \in {NoAuth, Managed}
         /\ c.pending[n] \subseteq config.pending[n] \cup StoredKeys(config.profile[n])
         /\ config.pending[n] \subseteq c.pending[n]
         /\ StoredKeys(config.profile[n]) \subseteq c.pending[n] \cup StoredKeys(c.profile[n])
<1> USE DEF ConfigFile
<1>1. CASE Exists(config, m)
  <2>1. CASE c \in {config, [config EXCEPT !.current = m]}
    BY <2>1
  <2>2. ASSUME NEW a \in {NoAuth, Managed},
               c = [config EXCEPT !.profile[m] = a,
                                  !.pending[m] = @ \cup StoredKeys(config.profile[m])]
        PROVE  /\ c.profile[n] = config.profile[n] \/ c.profile[n] \in {NoAuth, Managed}
               /\ c.pending[n] \subseteq config.pending[n] \cup StoredKeys(config.profile[n])
               /\ config.pending[n] \subseteq c.pending[n]
               /\ StoredKeys(config.profile[n]) \subseteq c.pending[n] \cup StoredKeys(c.profile[n])
    BY <2>2
  <2> QED  BY <1>1, <2>1, <2>2 DEF Changes
<1>2. CASE ~Exists(config, m)
  <2>1. PICK a \in {NoAuth, Managed} :
          c = [config EXCEPT !.profile[m] = a, !.current = IF @ = None THEN m ELSE @]
    BY <1>2 DEF Changes
  <2>2. /\ c.profile = [config.profile EXCEPT ![m] = a]
        /\ c.pending = config.pending
    BY <2>1
  <2>3. StoredKeys(Absent) = {}
    BY KeysAssumption DEF StoredKeys
  <2> QED  BY <1>2, <2>2, <2>3 DEF Exists
<1> QED  BY <1>1, <1>2

LEMMA RemovalOthers ==
  ASSUME NEW p \in Procs, Given(p), NEW q \in Procs, q # p
  PROVE  RemovalOf(q)'
<1>0. /\ Typed /\ Act(p) /\ RemovalOf(q) /\ RemembersOf(q) /\ config \in ConfigFile
  BY Parts DEF Typed, TypeOK, Remembers
<1>1. /\ pc'[q] = pc[q] /\ job'[q] = job[q] /\ mem'[q] = mem[q]
  BY <1>0, Bystanders
<1>2. SUFFICES ASSUME RemoveHolds(q), pc[q] # "removeConfig" PROVE RemovalOf(q)'
  BY <1>1 DEF RemovalOf, RemoveHolds
<1>3. pc[q] \in MaintLabels /\ pc[q] # "idle" /\ Name(q) \in Profiles /\ Name(q)' = Name(q)
  BY <1>0, <1>1, <1>2, Knows DEF RemoveHolds, MaintLabels, Name
<1>4. config.profile[Name(q)] \notin Keys
  BY <1>0, <1>2 DEF RemovalOf
<1>5. /\ config'.profile[Name(q)] \notin Keys
      /\ config'.pending[Name(q)] \subseteq config.pending[Name(q)]
  <2>1. CASE config' = config
    BY <1>4, <2>1
  <2>2. CASE pc[p] = "change" /\ config' \in Changes(Name(p))
    <3>1. Name(p) \in Profiles
      BY <1>0, <2>2, Knows
    <3>2. StoredKeys(config.profile[Name(q)]) = {}
      BY <1>4 DEF StoredKeys
    <3> QED  BY <1>0, <1>3, <1>4, <2>2, <3>1, <3>2, ChangesAre, KeysAssumption
  <2> QED  BY <1>3, <2>1, <2>2, ForeignWrites
<1>6. LogoutUnderway => LogoutUnderway'
  BY <1>3, UnderwayStep, OneHolder DEF MaintLabels
<1> QED  BY <1>0, <1>1, <1>3, <1>5, <1>6 DEF RemovalOf

\* The steps of a removal past its first write.
LEMMA Removing ==
  ASSUME Typed, NEW p \in Procs, Act(p), StageOf(p),
         RemoveHolds(p)', pc'[p] # "removeConfig"
  PROVE  \/ RemoveConfig(p) \/ RemoveCommit(p) \/ RemoveCommitFails(p) \/ RemoveMark(p)
         \/ EmitConfig(p)
<1> USE DEF Typed, TypeOK, Goto
<1>0. pc'[p] \in {"removeCommit", "removeRestore", "removeMark", "emitConfig", "emitting"}
  BY DEF RemoveHolds
<1>1. CASE Launch(p) \/ Crash(p)
  BY <1>0, <1>1 DEF Launch, Crash, ReadMarkers
<1>2. CASE \/ RecoverPrepare(p) \/ RecoverSkip(p) \/ RecoverLock(p) \/ RecoverCommit(p)
           \/ RecoverWrite(p) \/ RecoverDone(p) \/ RecoverStart(p)
  BY <1>0, <1>2, FinishEnds
  DEF RecoverPrepare, RecoverSkip, RecoverLock, RecoverCommit, RecoverWrite, RecoverDone,
      RecoverStart, ReadMarkers, ForgetRested
<1>3. CASE \/ Load(p) \/ LoginPrepare(p) \/ LoginCommit(p) \/ LoginConfig(p)
           \/ LoginRefuseConfig(p) \/ LoginRollback(p) \/ ChangeWrite(p)
  BY <1>0, <1>3, FinishEnds
  DEF Load, LoginPrepare, LoginCommit, LoginConfig, LoginRefuseConfig, LoginRollback,
      ChangeWrite
<1>4. CASE LoginDone(p) \/ EmitLock(p)
  <2>1. job'[p].kind = "remove" /\ job' = job
    BY <1>0, <1>4 DEF LoginDone, EmitLock, RemoveHolds
  <2> QED  BY <1>4, <2>1
  DEF LoginDone, EmitLock, StageOf, Before, After, Ended, Recovering, Emitting
<1>5. CASE RemovePrepare(p) \/ RemoveRestore(p) \/ RemoveRestoreConflict(p) \/ RemoveMarkConflict(p)
  BY <1>0, <1>5, FinishEnds
  DEF RemovePrepare, RemoveRestore, RemoveRestoreConflict, RemoveMarkConflict
<1>6. CASE \/ LogoutPrepare(p) \/ LogoutClear(p) \/ LogoutCheck(p) \/ LogoutConfig(p)
           \/ LogoutDone(p) \/ ReadCache(p) \/ EmitDone(p)
  BY <1>0, <1>6, FinishEnds
  DEF LogoutPrepare, LogoutClear, LogoutCheck, LogoutConfig, LogoutDone, ReadCache, EmitDone
<1>7. CASE Fail(p) /\ ~(LoginRefuseConfig(p) \/ RemoveCommitFails(p))
  BY <1>0, <1>7, FailEnds
<1> QED  BY <1>1, <1>2, <1>3, <1>4, <1>5, <1>6, <1>7 DEF Act, Advance

LEMMA RemovalOwn ==
  ASSUME NEW p \in Procs, Given(p)
  PROVE  RemovalOf(p)'
<1>0. /\ Typed /\ TypeOK /\ Act(p) /\ RemovalOf(p) /\ StageOf(p) /\ RemembersOf(p)
      /\ PlanOf(p) /\ ShapeOf(p) /\ RetiresOf(p) /\ PointerBacked /\ config \in ConfigFile
      /\ mem[p] \in Memory
  BY Parts DEF Typed, TypeOK, Remembers
<1>1. SUFFICES ASSUME RemoveHolds(p)', pc'[p] # "removeConfig" PROVE RemovalOf(p)'
  BY DEF RemovalOf, RemoveHolds
<1>2. CASE RemoveConfig(p)
  <2> DEFINE c == config.current = Name(p)
  <2>1. /\ pc[p] = "removeConfig" /\ config.profile[Name(p)] = mem[p].auth
        /\ config' = RemoveConfigUpdate(p) /\ cache' = cache /\ job' = job
        /\ mem' = [mem EXCEPT ![p].current = c] /\ pc'[p] = "removeCommit"
    BY <1>0, <1>1, <1>2, FinishEnds DEF RemoveConfig, TypeOK, Goto, RemoveHolds
  <2> HIDE DEF c
  <2>2. mem'[p].auth = mem[p].auth /\ mem'[p].before = mem[p].before
    BY <1>0, <2>1 DEF TypeOK, Memory
  <2>3. Name(p) \in Profiles /\ Name(p)' = Name(p)
    BY <1>0, <2>1, Knows DEF Name
  <2>4. config'.profile[Name(p)] \notin Keys
    BY <1>0, <2>1, <2>3, KeysAssumption DEF RemoveConfigUpdate, ConfigFile
  <2>5. mem[p].auth \in Keys => mem[p].before[mem[p].auth] # None \/ LogoutUnderway
    <3> SUFFICES ASSUME mem[p].auth \in Keys, ~LogoutUnderway
                 PROVE  mem[p].before[mem[p].auth] # None
      OBVIOUS
    <3>1. cache[mem[p].auth] # None
      BY <1>0, <2>1, <2>3 DEF PointerBacked, LogoutUnderway, StoredKeys
    <3>2. job[p].kind = "remove"
      BY <1>0, <2>1
      DEF StageOf, Before, After, Ended, Recovering, Emitting, RemembersOf, Commands
    <3>3. mem[p].auth \in PlanKeys(p)
      BY <1>0, <2>1, <3>2 DEF RetiresOf, StoredKeys, ShapeOf, RemoveHolds
    <3> QED  BY <1>0, <2>1, <3>1, <3>3 DEF PlanOf, Staged
  <2>6. LogoutUnderway => LogoutUnderway'
    BY <2>1, UnderwayStep
  <2> QED  BY <2>1, <2>2, <2>3, <2>4, <2>5, <2>6 DEF RemovalOf
<1>3. CASE RemoveCommit(p) \/ RemoveCommitFails(p)
  <2>1. /\ pc[p] = "removeCommit" /\ config' = config /\ mem' = mem /\ job' = job
        /\ pc'[p] \in {"removeRestore", "removeMark", "emitConfig"}
        /\ pc'[p] = "emitConfig" => mem[p].keys = {}
    BY <1>0, <1>1, <1>3, FinishEnds
    DEF RemoveCommit, RemoveCommitFails, TypeOK, Goto, RemoveHolds
  <2>2. LogoutUnderway => LogoutUnderway'
    BY <2>1, UnderwayStep
  <2> QED  BY <1>0, <2>1, <2>2 DEF RemovalOf, RemoveHolds, Name
<1>4. CASE RemoveMark(p)
  <2>1. /\ pc[p] = "removeMark" /\ config' = UnmarkRemoved(p) /\ mem' = mem /\ job' = job
        /\ pc'[p] = "emitConfig"
    BY <1>0, <1>1, <1>4, FinishEnds DEF RemoveMark, TypeOK, Goto, RemoveHolds
  <2>2. Name(p) \in Profiles /\ Name(p)' = Name(p)
    BY <1>0, <2>1, Knows DEF Name
  <2>3. config'.profile = config.profile /\ config'.pending[Name(p)] = {}
    BY <1>0, <2>1, <2>2 DEF UnmarkRemoved, ConfigFile
  <2> QED  BY <1>0, <2>1, <2>2, <2>3 DEF RemovalOf, RemoveHolds
<1>5. CASE EmitConfig(p)
  <2>1. pc[p] = "emitConfig" /\ config' = config /\ mem' = mem /\ job' = job /\ pc'[p] = "emitting"
    BY <1>0, <1>5 DEF EmitConfig, TypeOK, Goto, shared
  <2> QED  BY <1>0, <2>1 DEF RemovalOf, RemoveHolds, Name
<1> QED  BY <1>0, <1>1, <1>2, <1>3, <1>4, <1>5, Removing

LEMMA RemovalStep ==
  ASSUME NEW p \in Procs, Given(p), NEW q \in Procs
  PROVE  RemovalOf(q)'
  BY RemovalOthers, RemovalOwn

-------------------------------------------------------------------------------
(***************************************************************************)
(* Writers of images: WriterOf.                                            *)
(***************************************************************************)
\* A login's plan that has not been followed by its commit.
Swapping == {"loginCommit", "loginConfig", "loginRollback"}

\* From its commit to its output a login reports what stands.
LEMMA CommittedLogin ==
  ASSUME Typed, NEW p \in Procs, Act(p), StageOf(p), job[p].kind = "login", wrote[p]
  PROVE  job'[p] = job[p] /\ wrote'[p] /\ (pc'[p] = "done" => report'[p].cache = "yes")
<1>0. pc[p] \in {"recNext", "recConfig", "recCommit", "recWrite", "emitLock", "emitConfig",
                 "emitting", "loginDone", "recStart"}
  BY EndedStays DEF StageOf, After, Recovering, Emitting
<1>1. ASSUME NEW kind PROVE Standing(p, kind).cache = "yes"
  BY DEF Standing, Says
<1>2. ASSUME NEW kind, Finish(p, Standing(p, kind)) PROVE report'[p].cache = "yes"
  BY <1>1, <1>2 DEF Finish, Typed, TypeOK
<1>3. ASSUME NEW c, NEW d, RecoveryFailed(p, c, d) PROVE report'[p].cache = "yes"
  BY <1>2, <1>3 DEF RecoveryFailed
<1> USE <1>0 DEF Typed, TypeOK, Goto
<1>5. CASE Crash(p)
  BY <1>5 DEF Crash
<1>6. CASE \/ RecoverPrepare(p) \/ RecoverSkip(p) \/ RecoverLock(p) \/ RecoverCommit(p)
           \/ RecoverWrite(p) \/ RecoverStart(p)
  BY <1>6
  DEF RecoverPrepare, RecoverSkip, RecoverLock, RecoverCommit, RecoverWrite, RecoverStart,
      ReadMarkers
<1>7. CASE RecoverDone(p)
  BY <1>7 DEF RecoverDone, ForgetRested
<1>8. CASE RecoverCommitFails(p) \/ RecoverWriteFails(p) \/ RecoverRefused(p)
  BY <1>3, <1>8 DEF RecoverCommitFails, RecoverWriteFails, RecoverRefused
<1>9. CASE LoginDone(p) \/ EmitLock(p) \/ EmitConfig(p)
  BY <1>9 DEF LoginDone, EmitLock, EmitConfig
<1>10. CASE LoginDoneFails(p) \/ EmitDone(p) \/ EmitFails(p)
  BY <1>2, <1>10 DEF LoginDoneFails, EmitDone, EmitFails
<1> QED
  BY <1>5, <1>6, <1>7, <1>8, <1>9, <1>10
  DEF Act, Advance, Fail, Launch, Load, Refuse, LoginPrepare, LoginCommit, LoginCommitFails,
      LoginConfig, LoginRefuseConfig, LoginRollback, ChangeWrite, RemovePrepare, RemoveConfig,
      RemoveConfigFails, RemoveCommit,
      RemoveCommitFails, RemoveRestore, RemoveRestoreConflict,
      RemoveRestoreFails, RemoveMark, RemoveMarkConflict, RemoveMarkFails, LogoutPrepare,
      LogoutClear, LogoutClearFails, LogoutCheck, LogoutConfig, LogoutConfigFails, LogoutDone,
      LogoutDoneFails, ReadCache, ReadMarkers

LEMMA SettledStays ==
  ASSUME NEW p \in Procs, Given(p), NEW q \in Procs, Settled(q)
  PROVE  Settled(q)'
<1>0. Typed /\ Act(p) /\ StageOf(p)
  BY Parts
<1>1. CASE q = p
  BY <1>0, <1>1, CommittedLogin, EndedStays DEF Settled
<1>2. CASE q # p
  BY <1>0, <1>2, Bystanders DEF Settled
<1> QED  BY <1>1, <1>2

LEMMA SwapActs ==
  ASSUME NEW p \in Procs, Act(p), pc[p] \in Swapping
  PROVE  \/ LoginCommit(p) \/ LoginCommitFails(p) \/ LoginConfig(p) \/ LoginRefuseConfig(p)
         \/ LoginRollback(p) \/ Crash(p)
  BY DEF Swapping, Act, Advance, Fail, Launch, RecoverPrepare, RecoverSkip, RecoverLock,
      RecoverCommit, RecoverWrite, RecoverDone, RecoverStart, RecoverCommitFails,
      RecoverWriteFails, RecoverRefused, Load, Refuse, LoginPrepare, LoginDone,
      LoginDoneFails, ChangeWrite, RemovePrepare, RemoveConfig, RemoveConfigFails, RemoveCommit,
      RemoveCommitFails, RemoveRestore, RemoveRestoreConflict,
      RemoveRestoreFails, RemoveMark, RemoveMarkConflict, RemoveMarkFails, LogoutPrepare,
      LogoutClear, LogoutClearFails, LogoutCheck, LogoutConfig, LogoutConfigFails, LogoutDone,
      LogoutDoneFails, ReadCache, EmitLock, EmitConfig, EmitDone, EmitFails,
      ReadMarkers, ForgetRested

\* What a step can put in the place of an image.
LEMMA NewImage ==
  ASSUME NEW p \in Procs, Given(p), NEW k \in CacheKeys
  PROVE  \/ cache'[k] = cache[k]
         \/ /\ k \in PlanKeys(p)
            /\ \/ pc[p] \in {"recCommit", "removeCommit", "logoutClear"} /\ cache'[k] = None
               \/ pc[p] \in {"loginCommit", "loginRollback"} /\ cache'[k] = p
               \/ pc[p] = "loginRollback" /\ cache'[k] = mem[p].before[k]
<1>0. Act(p) /\ PlanOf(p) /\ ShapeOf(p)
  BY Parts
<1>1. CASE cache' = cache
  BY <1>1
<1>2. ASSUME pc[p] \in Writing, NEW S \in SUBSET PlanKeys(p), cache' = Touched(p, S)
      PROVE  \/ cache'[k] = cache[k]
             \/ /\ k \in PlanKeys(p)
                /\ \/ pc[p] \in {"recCommit", "removeCommit", "logoutClear"} /\ cache'[k] = None
                   \/ pc[p] \in {"loginCommit", "loginRollback"} /\ cache'[k] = p
                   \/ pc[p] = "loginRollback" /\ cache'[k] = mem[p].before[k]
  <2>1. CASE k \in S
    <3>1. cache'[k] = mem[p].after
      BY <1>2, <2>1, TouchedAt
    <3> QED  BY <1>0, <1>2, <2>1, <3>1 DEF ShapeOf, Writing, LoginHolds, RemoveHolds
  <2>2. CASE k \notin S /\ k \in PlanKeys(p)
    <3>1. cache'[k] = mem[p].before[k]
      BY <1>2, <2>2, TouchedAt
    <3> QED  BY <1>0, <1>2, <2>2, <3>1 DEF PlanOf, Writing, Staged
  <2>3. CASE k \notin S /\ k \notin PlanKeys(p)
    BY <1>2, <2>3, TouchedAt
  <2> QED  BY <2>1, <2>2, <2>3
<1> QED  BY <1>0, <1>1, <1>2, CacheSteps

LEMMA WriterImage ==
  ASSUME NEW p \in Procs, Given(p), NEW q \in Procs, NEW k \in CacheKeys, cache'[k] = q
  PROVE  \/ pc'[q] \in {"loginConfig", "loginRollback"} /\ k \in PlanKeys(q)'
         \/ Settled(q)'
<1>0. /\ Typed /\ TypeOK /\ Act(p) /\ WriterOf(q) /\ StageOf(p) /\ RemembersOf(p) /\ q # None
  BY Parts, ProcsAssumption DEF Typed, Remembers, Image
<1>1. CASE Settled(q)
  BY <1>1, SettledStays
<1>2. CASE ~Settled(q) /\ q # p
  <2>1. pc[p] = "loginRollback" /\ k \in PlanKeys(p) => mem[p].before[k] # q
    BY <1>0, <1>2 DEF WriterOf
  <2>2. cache[k] = q
    BY <1>0, <1>2, <2>1, NewImage
  <2>3. pc[q] \in {"loginConfig", "loginRollback"} /\ k \in PlanKeys(q)
    BY <1>0, <1>2, <2>2 DEF WriterOf
  <2>4. pc'[q] = pc[q] /\ mem'[q] = mem[q]
    BY <1>0, <1>2, Bystanders
  <2> QED  BY <2>3, <2>4 DEF PlanKeys
<1>3. CASE ~Settled(q) /\ q = p
  <2>1. pc[p] \in Swapping /\ k \in PlanKeys(p)
    BY <1>0, <1>3, NewImage DEF WriterOf, Swapping
  <2>2. pc[p] = "loginRollback" => mem[p].before[k] # p
    BY <1>0, <1>3, <2>1 DEF WriterOf
  <2>3. job[p].kind = "login"
    BY <1>0, <2>1 DEF Swapping, StageOf, Before, After, Ended, Recovering, Emitting,
       RemembersOf, Commands
  <2>4. k \in PlanKeys(p) => Restored(p)[k] = mem[p].before[k]
    BY <1>0, InstalledPlan
  <2> USE <1>0, <2>1, <2>3 DEF Typed, TypeOK, Goto
  <2>5. CASE LoginCommit(p) \/ LoginRefuseConfig(p)
    <3>1. pc'[p] \in {"loginConfig", "loginRollback"} /\ mem' = mem
      BY <2>5 DEF LoginCommit, LoginRefuseConfig
    <3> QED  BY <1>3, <3>1 DEF PlanKeys
  <2>6. CASE LoginConfig(p)
    <3>1. /\ wrote'[p] /\ job' = job
          /\ pc'[p] = "loginDone" \/ Finish(p, Standing(p, "error"))
      BY <2>6 DEF LoginConfig
    <3>2. Finish(p, Standing(p, "error")) => report'[p].cache = "yes"
      BY DEF Finish, Standing, Says
    <3> QED  BY <1>3, <3>1, <3>2 DEF Settled
  <2>7. CASE Crash(p)
    <3>1. pc'[p] = "crashed" /\ job' = job
      BY <2>7 DEF Crash
    <3> QED  BY <1>3, <3>1 DEF Settled, Ended
  <2>8. CASE LoginCommitFails(p) \/ LoginRollback(p)
    <3>1. CASE Finish(p, Says("error", "no", "unknown", "unknown"))
      <4>1. pc'[p] = "done" /\ report'[p].cache = "unknown" /\ job' = job
        BY <2>8, <3>1 DEF Finish, Says, LoginCommitFails, LoginRollback
      <4> QED  BY <1>3, <4>1 DEF Settled, Ended
    <3>2. CASE cache' = Restored(p)
      <4>1. cache'[k] = mem[p].before[k]
        BY <2>4, <3>2
      <4>2. CASE pc[p] = "loginCommit"
        <5>1. PlanOf(p)
          BY Parts
        <5>2. cache[k] = p
          BY <1>3, <4>1, <4>2, <5>1 DEF PlanOf, Staged
        <5> QED  BY <1>3, <4>2, <5>2 DEF WriterOf
      <4> QED  BY <1>3, <2>2, <2>8, <4>1, <4>2 DEF LoginCommitFails, LoginRollback
    <3> QED  BY <2>8, <3>1, <3>2 DEF LoginCommitFails, LoginRollback
  <2> QED  BY <2>5, <2>6, <2>7, <2>8, SwapActs
<1> QED  BY <1>1, <1>2, <1>3

\* An image seen while nobody owns the maintenance lock is settled.
LEMMA QuietImage ==
  ASSUME NEW p \in Procs, Given(p), NEW q \in Procs, NEW k \in CacheKeys, cache[k] = q,
         maint = None
  PROVE  Settled(q)
<1>1. WriterOf(q) /\ LocksOf(q) /\ q # None
  BY Parts, ProcsAssumption DEF LocksHeld, Image
<1> QED  BY <1>1 DEF WriterOf, LocksOf, MaintLabels

LEMMA GotOwn ==
  ASSUME Typed, NEW p \in Procs, Act(p)
  PROVE  got'[p] = got[p] \/ ReadCache(p)
<1> USE DEF Typed, TypeOK
<1>1. CASE Launch(p) \/ Crash(p)
  BY <1>1 DEF Launch, Crash, ReadMarkers
<1>2. CASE \/ RecoverPrepare(p) \/ RecoverSkip(p) \/ RecoverLock(p) \/ RecoverCommit(p)
           \/ RecoverWrite(p) \/ RecoverDone(p) \/ RecoverStart(p)
           \/ RecoverCommitFails(p) \/ RecoverWriteFails(p) \/ RecoverRefused(p)
  BY <1>2
  DEF RecoverPrepare, RecoverSkip, RecoverLock, RecoverCommit, RecoverWrite, RecoverDone,
      RecoverStart, RecoverCommitFails, RecoverWriteFails, RecoverRefused,
      ReadMarkers, ForgetRested
<1>4. CASE \/ Load(p) \/ Refuse(p) \/ LoginPrepare(p) \/ LoginCommit(p) \/ LoginCommitFails(p)
           \/ LoginConfig(p) \/ LoginRefuseConfig(p) \/ LoginRollback(p) \/ LoginDone(p)
           \/ LoginDoneFails(p) \/ ChangeWrite(p)
  BY <1>4
  DEF Load, Refuse, LoginPrepare, LoginCommit, LoginCommitFails, LoginConfig,
      LoginRefuseConfig, LoginRollback, LoginDone, LoginDoneFails, ChangeWrite
<1>5. CASE \/ RemovePrepare(p) \/ RemoveConfig(p) \/ RemoveConfigFails(p) \/ RemoveCommit(p)
           \/ RemoveCommitFails(p) \/ RemoveRestore(p) \/ RemoveRestoreConflict(p)
           \/ RemoveRestoreFails(p) \/ RemoveMark(p) \/ RemoveMarkConflict(p) \/ RemoveMarkFails(p)
  BY <1>5
  DEF RemovePrepare, RemoveConfig, RemoveConfigFails, RemoveCommit, RemoveCommitFails,
      RemoveRestore, RemoveRestoreConflict, RemoveRestoreFails, RemoveMark,
      RemoveMarkConflict, RemoveMarkFails
<1>6. CASE \/ LogoutPrepare(p) \/ LogoutClear(p) \/ LogoutClearFails(p) \/ LogoutCheck(p)
           \/ LogoutConfig(p) \/ LogoutConfigFails(p) \/ LogoutDone(p) \/ LogoutDoneFails(p)
  BY <1>6
  DEF LogoutPrepare, LogoutClear, LogoutClearFails, LogoutCheck, LogoutConfig,
      LogoutConfigFails, LogoutDone, LogoutDoneFails
<1>7. CASE EmitLock(p) \/ EmitConfig(p) \/ EmitDone(p) \/ EmitFails(p)
  BY <1>7 DEF EmitLock, EmitConfig, EmitDone, EmitFails
<1> QED  BY <1>1, <1>2, <1>4, <1>5, <1>6, <1>7 DEF Act, Advance, Fail

LEMMA WriterStep ==
  ASSUME NEW p \in Procs, Given(p), NEW q \in Procs
  PROVE  WriterOf(q)'
<1>0. /\ Typed /\ TypeOK /\ Act(p) /\ WriterOf(q) /\ RemembersOf(p)
  BY Parts DEF Typed, Remembers
<1>1. \A k \in CacheKeys : cache'[k] = q =>
        \/ pc'[q] \in {"loginConfig", "loginRollback"} /\ k \in PlanKeys(q)'
        \/ Settled(q)'
  BY WriterImage
<1>2. ASSUME NEW r \in Procs, got'[r] = q PROVE Settled(q)'
  <2>1. CASE got'[r] = got[r]
    BY <1>0, <1>2, <2>1, SettledStays DEF WriterOf
  <2>2. CASE r = p /\ ReadCache(p)
    <3>1. maint = None /\ got'[p] = cache[ReadKey(p)] /\ pc[p] = "readCache"
      BY <1>0, <2>2 DEF ReadCache, TypeOK
    <3>2. ReadKey(p) \in CacheKeys
      <4>1. mem[p].auth \in {Managed} \cup Keys /\ Name(p) \in Profiles
        BY <1>0, <3>1, Knows DEF RemembersOf, Auth
      <4> QED  BY <4>1 DEF ReadKey, CacheKeys
    <3> QED  BY <1>2, <2>2, <3>1, <3>2, QuietImage, SettledStays
  <2> QED  BY <1>0, <2>1, <2>2, GotOwn, Bystanders
<1>3. ASSUME NEW r \in Procs, pc'[r] \in {"loginCommit", "loginConfig", "loginRollback"},
             NEW k \in PlanKeys(r)', mem'[r].before[k] = q
      PROVE  Settled(q)'
  <2>1. CASE pc[r] \in {"loginCommit", "loginConfig", "loginRollback"} /\ mem'[r] = mem[r]
    BY <1>0, <1>3, <2>1, SettledStays DEF WriterOf, PlanKeys
  <2>2. CASE r = p /\ LoginPrepare(p)
    <3>1. maint = None /\ pc[p] = "prepare" /\ job[p].kind = "login"
      BY <2>2 DEF LoginPrepare, TakeMaint
    <3>2. mem'[p].before = [x \in {TargetKey(p)} |-> cache[x]]
      BY <1>0, <2>2 DEF LoginPrepare, Plans, TypeOK
    <3>3. TargetKey(p) \in CacheKeys
      BY <1>0, <3>1, Knows DEF TargetKey, CacheKeys, RemembersOf
    <3>4. k = TargetKey(p) /\ cache[k] = q
      BY <1>3, <2>2, <3>2 DEF PlanKeys
    <3> QED  BY <3>1, <3>3, <3>4, QuietImage, SettledStays
  <2>3. r # p => pc'[r] = pc[r] /\ mem'[r] = mem[r]
    BY <1>0, Bystanders
  <2>4. r = p => LoginPrepare(p) \/ (pc[p] \in {"loginCommit", "loginConfig"} /\ mem' = mem)
    <3> SUFFICES ASSUME r = p, ~LoginPrepare(p)
                 PROVE  pc[p] \in {"loginCommit", "loginConfig"} /\ mem' = mem
      OBVIOUS
    <3>1. pc'[p] \in Staged \/ InPlace(p)'
      BY <1>3 DEF Staged, InPlace
    <3>2. LoginCommit(p) \/ LoginRefuseConfig(p)
      BY <1>0, <1>3, <3>1, Planning, FinishEnds
      DEF Typed, TypeOK, Goto, RecoverPrepare, RecoverLock, RecoverCommit, LoginConfig, LoginDone,
          RemovePrepare, RemoveConfig, RemoveCommit, RemoveCommitFails, RemoveMark, LogoutPrepare,
          LogoutClear, LogoutCheck, EmitLock, EmitConfig
    <3> QED  BY <3>2 DEF LoginCommit, LoginRefuseConfig
  <2>5. CASE r # p
    <3>1. pc[r] \in {"loginCommit", "loginConfig", "loginRollback"} /\ mem'[r] = mem[r]
      BY <1>3, <2>3, <2>5
    <3> QED  BY <2>1, <3>1
  <2>6. CASE r = p /\ ~LoginPrepare(p)
    <3>1. pc[r] \in {"loginCommit", "loginConfig", "loginRollback"} /\ mem'[r] = mem[r]
      BY <2>4, <2>6
    <3> QED  BY <2>1, <3>1
  <2> QED  BY <2>2, <2>5, <2>6
<1> QED  BY <1>1, <1>2, <1>3 DEF WriterOf

-------------------------------------------------------------------------------
(***************************************************************************)
(* Images and pointers: PointerBacked and NoStrandedImage.                 *)
(***************************************************************************)
LEMMA NoBearer == StoredKeys(NoAuth) = {} /\ StoredKeys(Managed) = {} /\ StoredKeys(Absent) = {}
  BY KeysAssumption DEF StoredKeys

\* Which pointer a write can set.
LEMMA NewPointer ==
  ASSUME NEW p \in Procs, Given(p), ConfigStep(p), NEW n \in Profiles,
         config'.profile[n] \in Keys
  PROVE  \/ pc[p] # "logoutConfig" /\ config'.profile[n] = config.profile[n]
         \/ pc[p] = "loginConfig" /\ config'.profile[n] = mem[p].to
         \/ pc[p] = "removeRestore" /\ config'.profile[n] = mem[p].auth
<1>0. /\ config \in ConfigFile /\ (pc[p] # "idle" => Name(p) \in Profiles) /\ RemembersOf(p)
  BY Parts, Knows DEF Typed, TypeOK, Remembers
<1> USE <1>0 DEF ConfigFile
<1>1. CASE pc[p] = "recWrite" /\ config' = Unmarked(p)
  BY <1>1 DEF Unmarked, RemembersOf
<1>2. CASE pc[p] = "loginConfig" /\ config' = LoginConfigUpdate(p)
  BY <1>2 DEF LoginConfigUpdate
<1>3. CASE pc[p] = "change" /\ config' \in Changes(Name(p))
  BY <1>3, ChangesAre, KeysAssumption
<1>4. CASE pc[p] = "removeConfig" /\ config' = RemoveConfigUpdate(p)
  BY <1>4, KeysAssumption DEF RemoveConfigUpdate
<1>5. CASE pc[p] = "removeRestore" /\ config' = RestoreUpdate(p)
  BY <1>5 DEF RestoreUpdate
<1>6. CASE pc[p] = "removeMark" /\ config' = UnmarkRemoved(p)
  BY <1>6 DEF UnmarkRemoved
<1>7. CASE pc[p] = "logoutConfig" /\ config' = LogoutConfigUpdate
  BY <1>7, KeysAssumption DEF LogoutConfigUpdate
<1> QED  BY <1>1, <1>2, <1>3, <1>4, <1>5, <1>6, <1>7 DEF ConfigStep

\* A login that changes a generation changes the one it made.
LEMMA LoginTarget ==
  ASSUME NEW p \in Procs, Given(p), pc[p] \in Swapping, NEW k \in PlanKeys(p), k \in Keys
  PROVE  k = mem[p].to /\ mem[p].before[k] = None /\ Wanting(p)
<1>1. /\ Typed /\ PlanOf(p) /\ ShapeOf(p) /\ Name(p) \in Profiles
      /\ pc[p] \in {"loginCommit", "loginConfig", "loginRollback"}
  BY Parts, Knows DEF Swapping
<1>2. k = TargetKey(p)
  BY <1>1 DEF ShapeOf, LoginHolds
<1>3. k = mem[p].to
  BY <1>1, <1>2, ManagedAssumption DEF TargetKey
<1> QED  BY <1>1, <1>3 DEF PlanOf, Wanting

\* A logout that clears images, or fails to clear pointers, is underway.
LEMMA LogoutActs ==
  ASSUME Typed, NEW p \in Procs, Act(p), StageOf(p), pc[p] \in {"logoutClear", "logoutConfig"},
         config' = config,
         \E n \in Profiles : config.profile[n] \in Keys
  PROVE  Underway(p)'
<1>0. ~wrote[p] /\ job[p].kind = "logout"
  BY DEF StageOf, Before, After, Ended, Recovering, Emitting, Typed, Remembers,
         RemembersOf, Commands
<1>1. \/ LogoutClear(p) \/ LogoutClearFails(p) \/ LogoutConfig(p) \/ LogoutConfigFails(p)
      \/ Crash(p)
  BY DEF Act, Advance, Fail, Launch, RecoverPrepare, RecoverSkip, RecoverLock, RecoverCommit,
      RecoverWrite, RecoverDone, RecoverStart, RecoverCommitFails, RecoverWriteFails,
      RecoverRefused, Load, Refuse, LoginPrepare, LoginCommit, LoginCommitFails,
      LoginConfig, LoginRefuseConfig, LoginRollback, LoginDone, LoginDoneFails, ChangeWrite,
      RemovePrepare, RemoveConfig,
      RemoveConfigFails, RemoveCommit, RemoveCommitFails, RemoveRestore, RemoveRestoreConflict,
      RemoveRestoreFails, RemoveMark, RemoveMarkConflict, RemoveMarkFails, LogoutPrepare,
      LogoutCheck, LogoutDone, LogoutDoneFails, ReadCache, EmitLock, EmitConfig, EmitDone, EmitFails,
      ReadMarkers, ForgetRested
<1>2. ~LogoutConfig(p)
  <2> SUFFICES ASSUME config = LogoutConfigUpdate PROVE FALSE
    BY DEF LogoutConfig
  <2>1. config \in ConfigFile
    BY DEF Typed, TypeOK
  <2>2. \A n \in Profiles : LogoutConfigUpdate.profile[n] \notin Keys
    BY <2>1, KeysAssumption DEF LogoutConfigUpdate, ConfigFile
  <2> QED  BY <2>2
<1>3. CASE LogoutClear(p) \/ Crash(p)
  BY <1>0, <1>3 DEF LogoutClear, Crash, Goto, Typed, TypeOK, Underway
<1>4. CASE LogoutClearFails(p) \/ LogoutConfigFails(p)
  <2>1. pc'[p] = "done"
    BY <1>4, FinishEnds DEF LogoutClearFails, LogoutConfigFails
  <2>2. job' = job /\ wrote' = wrote
    BY <1>4 DEF LogoutClearFails, LogoutConfigFails
  <2> QED  BY <1>0, <2>1, <2>2 DEF Underway
<1> QED  BY <1>1, <1>2, <1>3, <1>4

\* A step that deletes the image of an active generation is a logout's.
LEMMA LiveImage ==
  ASSUME NEW p \in Procs, Given(p), NEW n \in Profiles, NEW k \in Keys, config.profile[n] = k,
         cache[k] # None, cache'[k] = None
  PROVE  pc[p] = "logoutClear"
<1>0. /\ Typed /\ StageOf(p) /\ ShapeOf(p) /\ MarkOf(p)
      /\ RemovalOf(p) /\ WantsOf(p) /\ PlacedOf(p) /\ ConfigPlaced /\ RemembersOf(p)
  BY Parts DEF Typed, Remembers
<1>1. k \in CacheKeys /\ k \in KeysOf[n]
  BY <1>0 DEF CacheKeys, ConfigPlaced, StoredKeys
<1>2. /\ k \in PlanKeys(p)
      /\ pc[p] \in {"recCommit", "removeCommit", "logoutClear", "loginRollback"}
  BY <1>1, NewImage, ProcsAssumption DEF Image
<1>3. pc[p] # "recCommit"
  <2> SUFFICES ASSUME pc[p] = "recCommit" PROVE FALSE
    OBVIOUS
  <2>1. k \in Marked(p) /\ mem[p].at \in Profiles
    BY <1>0, <1>2 DEF ShapeOf, RemembersOf
  <2>2. n = mem[p].at
    BY <1>0, <1>1, <2>1, KeysAssumption DEF PlacedOf, Marked
  <2> QED  BY <1>0, <2>1, <2>2 DEF MarkOf
<1>4. pc[p] # "removeCommit"
  <2> SUFFICES ASSUME pc[p] = "removeCommit" PROVE FALSE
    OBVIOUS
  <2>1. k \in mem[p].keys /\ Name(p) \in Profiles
    BY <1>0, <1>2, Knows DEF ShapeOf, RemoveHolds
  <2>2. n = Name(p)
    BY <1>0, <1>1, <2>1, KeysAssumption DEF PlacedOf, Ended
  <2> QED  BY <1>0, <2>2 DEF RemovalOf, RemoveHolds
<1>5. pc[p] # "loginRollback"
  <2> SUFFICES ASSUME pc[p] = "loginRollback" PROVE FALSE
    OBVIOUS
  <2>1. k = mem[p].to /\ Wanting(p)
    BY <1>2, LoginTarget DEF Swapping
  <2> QED  BY <1>0, <2>1 DEF WantsOf, CleanupKeys, StoredKeys
<1> QED  BY <1>2, <1>3, <1>4, <1>5

LEMMA PointerBackedStep ==
  ASSUME NEW p \in Procs, Given(p)
  PROVE  PointerBacked'
<1>0. /\ Typed /\ Act(p) /\ PointerBacked /\ StageOf(p) /\ PlanOf(p) /\ ShapeOf(p) /\ MarkOf(p)
      /\ RemovalOf(p) /\ WantsOf(p) /\ PlacedOf(p) /\ RetiresOf(p) /\ ConfigPlaced
      /\ RemembersOf(p) /\ config \in ConfigFile
  BY Parts DEF Typed, TypeOK, Remembers
<1>a. PointerBacked <=>
        ((\E n \in Profiles : config.profile[n] \in Keys /\ cache[config.profile[n]] = None)
          => LogoutUnderway)
  BY DEF PointerBacked, LogoutUnderway, StoredKeys
<1>b. PointerBacked' <=>
        ((\E n \in Profiles : config'.profile[n] \in Keys /\ cache'[config'.profile[n]] = None)
          => LogoutUnderway')
  BY DEF PointerBacked, LogoutUnderway, StoredKeys
<1> SUFFICES ASSUME NEW n \in Profiles, config'.profile[n] \in Keys,
                    cache'[config'.profile[n]] = None
             PROVE  LogoutUnderway'
  BY <1>b
<1> DEFINE k == config'.profile[n]
<1>1. k \in CacheKeys
  BY DEF CacheKeys
<1>2. CASE config' = config
  <2>1. k = config.profile[n] /\ k \in KeysOf[n]
    BY <1>0, <1>2 DEF ConfigPlaced, StoredKeys
  <2>2. CASE cache[k] = None
    <3>1. LogoutUnderway
      BY <1>0, <1>a, <2>1, <2>2
    <3>2. CASE pc[p] = "logoutConfig"
      BY <1>0, <1>2, <2>1, <3>2, LogoutActs, UnderwayNext
    <3> QED  BY <3>1, <3>2, UnderwayStep
  <2>3. CASE cache[k] # None
    <3>1. pc[p] = "logoutClear"
      BY <2>1, <2>3, LiveImage
    <3> QED  BY <1>0, <1>2, <2>1, <3>1, LogoutActs, UnderwayNext
  <2> QED  BY <2>2, <2>3
<1>3. CASE cache' = cache /\ ConfigStep(p)
  <2>1. CASE pc[p] # "logoutConfig" /\ k = config.profile[n]
    <3>1. LogoutUnderway
      BY <1>0, <1>a, <1>3, <2>1
    <3> QED  BY <2>1, <3>1, UnderwayStep
  <2>2. CASE pc[p] = "loginConfig" /\ k = mem[p].to
    <3>1. k \in PlanKeys(p) /\ mem[p].after = p
      <4>1. k # Managed
        BY KeysAssumption
      <4> QED  BY <1>0, <2>2, <4>1 DEF ShapeOf, LoginHolds, TargetKey
    <3>2. cache[k] = p
      BY <1>0, <2>2, <3>1 DEF PlanOf, InPlace
    <3> QED  BY <1>3, <3>2, ProcsAssumption DEF Image
  <2>3. CASE pc[p] = "removeRestore" /\ k = mem[p].auth
    <3>1. job[p].kind = "remove"
      BY <1>0, <2>3
      DEF StageOf, Before, After, Ended, Recovering, Emitting, RemembersOf, Commands
    <3>2. k \in PlanKeys(p)
      BY <1>0, <2>3, <3>1 DEF RetiresOf, StoredKeys, ShapeOf, RemoveHolds
    <3>3. cache[k] = mem[p].before[k]
      BY <1>0, <2>3, <3>2 DEF PlanOf, Staged
    <3>4. LogoutUnderway
      BY <1>0, <1>3, <2>3, <3>3 DEF RemovalOf
    <3> QED  BY <2>3, <3>4, UnderwayStep
  <2> QED  BY <1>3, <2>1, <2>2, <2>3, NewPointer
<1> QED  BY <1>0, <1>2, <1>3, ConfigSteps

\* A write that takes a key out of the configuration finds no image there.
LEMMA KeyLost ==
  ASSUME NEW p \in Procs, Given(p), ConfigStep(p), NEW n \in Profiles,
         NEW k \in CleanupKeys(config, n), cache[k] # None
  PROVE  k \in CleanupKeys(config', n)
<1>0. /\ Typed /\ Act(p) /\ StageOf(p) /\ PlanOf(p) /\ ShapeOf(p) /\ MarkOf(p) /\ RetiresOf(p)
      /\ RemembersOf(p) /\ config \in ConfigFile /\ (pc[p] # "idle" => Name(p) \in Profiles)
      /\ k \in Keys /\ k \in CacheKeys
  BY Parts, Knows, CleanupType DEF Typed, TypeOK, Remembers, CacheKeys
<1>k. /\ pc[p] = "loginConfig" => job[p].kind = "login"
      /\ pc[p] \in {"removeConfig", "removeRestore"} => job[p].kind = "remove"
  BY <1>0 DEF StageOf, Before, After, Ended, Recovering, Emitting, RemembersOf, Commands
<1> USE <1>0 DEF ConfigFile, CleanupKeys
<1>1. CASE pc[p] = "recWrite" /\ config' = Unmarked(p)
  <2>1. mem[p].at \in Profiles /\ config.pending[mem[p].at] = PlanKeys(p)
    BY <1>1 DEF RemembersOf, MarkOf, ShapeOf
  <2>2. \A x \in PlanKeys(p) : cache[x] = None
    BY <1>1 DEF PlanOf, InPlace, ShapeOf
  <2> QED  BY <1>1, <2>1, <2>2 DEF Unmarked
<1>2. CASE /\ pc[p] = "loginConfig" /\ ~LoginConflict(p) /\ config' = LoginConfigUpdate(p)
  <2>1. config.profile[Name(p)] = mem[p].auth /\ mem[p].keys = StoredKeys(mem[p].auth)
    BY <1>k, <1>2 DEF LoginConflict, RetiresOf
  <2> QED  BY <1>2, <2>1 DEF LoginConfigUpdate
<1>3. CASE pc[p] = "change" /\ config' \in Changes(Name(p))
  BY <1>3, ChangesAre
<1>4. CASE /\ pc[p] = "removeConfig" /\ config.profile[Name(p)] = mem[p].auth
           /\ config' = RemoveConfigUpdate(p)
  <2>1. StoredKeys(mem[p].auth) \subseteq mem[p].keys
    BY <1>k, <1>4 DEF RetiresOf
  <2> QED  BY <1>4, <2>1 DEF RemoveConfigUpdate
<1>5. CASE /\ pc[p] = "removeRestore" /\ ~Exists(config, Name(p)) /\ MarkerIs(Name(p), mem[p].keys)
           /\ config' = RestoreUpdate(p)
  <2>1. config.pending[Name(p)] = mem[p].keys /\ config.profile[Name(p)] = Absent
    BY <1>5 DEF MarkerIs, Exists
  <2>2. mem[p].keys \subseteq Retired(p) \cup StoredKeys(mem[p].auth)
    BY DEF Retired
  <2> QED  BY <1>5, <2>1, <2>2, NoBearer DEF RestoreUpdate
<1>6. CASE /\ pc[p] = "removeMark" /\ ~Exists(config, Name(p)) /\ MarkerIs(Name(p), mem[p].keys)
           /\ config' = UnmarkRemoved(p)
  <2>1. config.pending[Name(p)] = PlanKeys(p) /\ config.profile[Name(p)] = Absent
    BY <1>6 DEF MarkerIs, Exists, ShapeOf, RemoveHolds
  <2>2. \A x \in PlanKeys(p) : cache[x] = None
    BY <1>6 DEF PlanOf, InPlace, ShapeOf, RemoveHolds
  <2> QED  BY <1>6, <2>1, <2>2, NoBearer DEF UnmarkRemoved
<1>7. CASE pc[p] = "logoutConfig"
  BY <1>7 DEF PlanOf, InPlace, ShapeOf
<1> QED  BY <1>1, <1>2, <1>3, <1>4, <1>5, <1>6, <1>7 DEF ConfigStep

\* Somebody to answer for a generation no file knows of.
Accounted(k, q) ==
  /\ cache[k] = q
  /\ \/ pc[q] \in {"loginConfig", "loginRollback", "crashed"}
     \/ report[q].cache = "unknown"

LEMMA SwapImage ==
  ASSUME NEW p \in Procs, Given(p), pc[p] \in Swapping, NEW k \in Keys, k \in PlanKeys(p),
         cache'[k] = p
  PROVE  Accounted(k, p)' \/ \E n \in Profiles : k \in CleanupKeys(config', n)
<1>0. Typed /\ TypeOK /\ Act(p) /\ config \in ConfigFile /\ Name(p) \in Profiles /\ p # None
  BY Parts, Knows, ProcsAssumption DEF Typed, TypeOK, Swapping, Image
<1>1. k = mem[p].to /\ mem[p].before[k] = None
  BY LoginTarget
<1>2. Restored(p)[k] = None
  BY <1>0, <1>1, InstalledPlan
<1> USE <1>0 DEF TypeOK, Goto, Accounted
<1>3. CASE LoginCommit(p) \/ LoginRefuseConfig(p) \/ Crash(p)
  BY <1>3 DEF LoginCommit, LoginRefuseConfig, Crash
<1>4. CASE LoginConfig(p)
  <2>1. config'.profile[Name(p)] = k
    BY <1>1, <1>4 DEF LoginConfig, LoginConfigUpdate, ConfigFile
  <2> QED  BY <2>1 DEF CleanupKeys, StoredKeys
<1>5. CASE LoginCommitFails(p) \/ LoginRollback(p)
  BY <1>2, <1>5 DEF LoginCommitFails, LoginRollback, Finish, Says
<1> QED  BY <1>3, <1>4, <1>5, SwapActs

LEMMA NoStrandedStep ==
  ASSUME NEW p \in Procs, Given(p)
  PROVE  NoStrandedImage'
<1>0. /\ Typed /\ TypeOK /\ Act(p) /\ NoStrandedImage /\ StageOf(p) /\ WriterOf(p) /\ p # None
  BY Parts, ProcsAssumption DEF Typed, Image
<1> SUFFICES ASSUME NEW k \in Keys, cache'[k] # None
             PROVE  \/ \E n \in Profiles : k \in CleanupKeys(config', n)
                    \/ \E q \in Procs : Accounted(k, q)'
  BY DEF NoStrandedImage, Accounted
<1>1. k \in CacheKeys
  BY DEF CacheKeys
<1>2. CASE cache'[k] # cache[k]
  <2>1. k \in PlanKeys(p) /\ pc[p] \in Swapping /\ (cache'[k] = p \/ cache'[k] = mem[p].before[k])
    BY <1>1, <1>2, NewImage DEF Swapping
  <2>2. cache'[k] = p
    BY <2>1, LoginTarget
  <2> QED  BY <2>1, <2>2, SwapImage
<1>3. CASE cache'[k] = cache[k]
  <2>1. CASE \E n \in Profiles : k \in CleanupKeys(config, n)
    BY <1>0, <1>3, <2>1, KeyLost, ConfigSteps
  <2>2. ASSUME NEW q \in Procs, Accounted(k, q)
        PROVE  \/ \E n \in Profiles : k \in CleanupKeys(config', n)
               \/ \E r \in Procs : Accounted(k, r)'
    <3>1. CASE q # p
      <4>1. pc'[q] = pc[q] /\ report'[q] = report[q]
        BY <1>0, <3>1, Bystanders
      <4>2. Accounted(k, q)'
        BY <1>3, <2>2, <4>1 DEF Accounted
      <4> QED  BY <4>2
    <3>2. CASE q = p
      <4>1. pc[p] \in {"loginConfig", "loginRollback"} /\ cache[k] = p
        BY <1>0, <2>2, <3>2, EndedStays DEF Accounted, StageOf, Ended, NoReport, Says
      <4>2. ~Settled(p)
        BY <1>0, <4>1 DEF Settled, StageOf, After, Ended, Recovering, Emitting
      <4>3. k \in PlanKeys(p)
        BY <1>0, <1>1, <4>1, <4>2 DEF WriterOf
      <4> QED  BY <1>3, <4>1, <4>3, SwapImage DEF Swapping
    <3> QED  BY <3>1, <3>2
  <2>3. (\E n \in Profiles : k \in CleanupKeys(config, n)) \/ \E q \in Procs : Accounted(k, q)
    BY <1>0, <1>3 DEF NoStrandedImage, Accounted
  <2> QED  BY <2>1, <2>2, <2>3
<1> QED  BY <1>2, <1>3

-------------------------------------------------------------------------------
(***************************************************************************)
(* The invariant is inductive, and what it gives.                          *)
(***************************************************************************)
LEMMA NextAgree == ASSUME ImagesInv, [Next]_vars PROVE ImagesInv'
<1>1. IInv'
  BY NextInvariant DEF ImagesInv
<1>2. CASE UNCHANGED vars
  <2>1. UNCHANGED <<config, cache, maint, pc, job, mem, wrote, got, report>>
    BY <1>2 DEF vars
  <2>2. ASSUME NEW p \in Procs PROVE AgreeOf(p)'
    <3>1. AgreeOf(p)
      BY DEF ImagesInv, Agree
    <3>2. LocalOf(p)' /\ MarkOf(p)' /\ RemovalOf(p)'
      BY <2>1, <3>1
      DEF AgreeOf, LocalOf, StageOf, PlacedOf, Wanting, Name, RetiresOf, ShapeOf, LoginHolds,
          RemoveHolds, PlanKeys, Marked, TargetKey, MarkOf, RemovalOf, LogoutUnderway
    <3>3. PlanOf(p)' /\ WantsOf(p)'
      BY <2>1, <3>1
      DEF AgreeOf, PlanOf, InPlace, LoginHolds, RemoveHolds, PlanKeys, WantsOf, Wanting,
          CleanupKeys
    <3>4. WriterOf(p)' /\ HealsOf(p)'
      BY <2>1, <3>1 DEF AgreeOf, WriterOf, Settled, PlanKeys, HealsOf, Undisturbed, Gone
    <3> QED  BY <3>2, <3>3, <3>4 DEF AgreeOf
  <2>3. ConfigPlaced' /\ PointerBacked' /\ NoStrandedImage'
    BY <2>1 DEF ImagesInv, Agree, ConfigPlaced, PointerBacked, NoStrandedImage, CleanupKeys
  <2> QED  BY <1>1, <2>2, <2>3 DEF ImagesInv, Agree
<1>3. ASSUME NEW p \in Procs, Act(p) PROVE ImagesInv'
  <2>1. Given(p)
    BY <1>1, <1>3 DEF Given, IInv, Typed
  <2>2. ASSUME NEW q \in Procs PROVE AgreeOf(q)'
    BY <2>1, LocalStep, PlanStep, MarkStep, WantsStep, RemovalStep, WriterStep, HealsStep
    DEF AgreeOf
  <2> QED
    BY <1>1, <2>1, <2>2, ConfigPlacedStep, PointerBackedStep, NoStrandedStep DEF ImagesInv, Agree
<1> QED  BY <1>2, <1>3 DEF Next, Act

LEMMA InitAgree == Init => ImagesInv
<1> SUFFICES ASSUME Init PROVE ImagesInv
  OBVIOUS
<1>1. IInv
  BY InitInvariant
<1>2. ConfigPlaced
  BY DEF Init, ConfigPlaced
<1>3. PointerBacked
  <2> SUFFICES ASSUME NEW n \in Profiles, NEW k \in StoredKeys(config.profile[n])
               PROVE  cache[k] # None
    BY DEF PointerBacked
  <2>1. k \in Keys /\ config.profile[n] = k
    BY DEF StoredKeys
  <2> QED  BY <2>1, ProcsAssumption DEF Init, Image
<1>4. NoStrandedImage
  BY DEF Init, NoStrandedImage, CacheKeys
<1>5. ASSUME NEW p \in Procs PROVE AgreeOf(p)
  <2>1. /\ pc[p] = "idle" /\ mem[p] = Fresh /\ ~wrote[p] /\ report[p] = NoReport
        /\ \A q \in Procs : got[q] = None /\ pc[q] = "idle"
        /\ \A k \in CacheKeys : cache[k] \in {Boot, None}
    BY <1>5 DEF Init
  <2>2. StageOf(p)
    BY <2>1 DEF StageOf, Ended
  <2>3. PlacedOf(p)
    BY <2>1 DEF PlacedOf, Wanting, Ended, Fresh, NoPending
  <2>4. RetiresOf(p) /\ ShapeOf(p) /\ PlanOf(p) /\ MarkOf(p) /\ WantsOf(p) /\ RemovalOf(p)
        /\ HealsOf(p)
    BY <2>1
    DEF RetiresOf, ShapeOf, LoginHolds, RemoveHolds, PlanOf, Staged, InPlace, MarkOf, WantsOf,
        Wanting, RemovalOf, HealsOf, Recovering, Fresh
  <2>5. WriterOf(p)
    <3>1. p # None /\ p # Boot
      BY <1>5, ProcsAssumption DEF Image
    <3> QED  BY <2>1, <3>1 DEF WriterOf
  <2> QED  BY <2>2, <2>3, <2>4, <2>5 DEF AgreeOf, LocalOf
<1> QED  BY <1>1, <1>2, <1>3, <1>4, <1>5 DEF ImagesInv, Agree

LEMMA AlwaysAgree == Spec => []ImagesInv
BY InitAgree, NextAgree, PTL DEF Spec

\* Whatever the commands, their number, their interleaving and their crashes: a
\* profile that points to an imported bearer finds its image, unless a logout has
\* cleared the images and not yet the pointers; no image is left that no file and
\* no login accounts for; nobody was given an image its login took back.
THEOREM ImagesAndPointersAgree == Spec => []ImagesAgree
<1>1. ImagesInv => ImagesAgree
  <2> SUFFICES ASSUME ImagesInv PROVE ImagesAgree
    OBVIOUS
  <2>1. ASSUME NEW p \in Procs, NEW q \in Procs, got[p] = q PROVE Settled(q)
    BY <2>1 DEF ImagesInv, Agree, AgreeOf, WriterOf
  <2>2. ReadCommitted
    BY <2>1 DEF ReadCommitted, Settled
  <2> QED  BY <2>2 DEF ImagesInv, Agree, ImagesAgree
<1> QED  BY <1>1, AlwaysAgree, PTL

LEMMA Givens ==
  ASSUME ImagesInv, [Next]_vars
  PROVE  UNCHANGED vars \/ \E p \in Procs : Given(p)
  BY NextAgree DEF Given, ImagesInv, IInv, Typed, Next, Act

\* No recovery, rollback or removal deletes the image of an active generation:
\* a step that does is the clearing step of a logout.
THEOREM LiveImagesAreKept == Spec => NoLiveImageDeleted
<1>1. ASSUME ImagesInv, [Next]_vars, NEW n \in Profiles, NEW k \in StoredKeys(config.profile[n]),
             cache[k] # None, cache'[k] = None
      PROVE  \E q \in Procs : job[q].kind = "logout" /\ pc[q] = "logoutClear"
  <2>1. PICK p \in Procs : Given(p)
    BY <1>1, Givens DEF vars
  <2>2. k \in Keys /\ config.profile[n] = k
    BY DEF StoredKeys
  <2>3. pc[p] = "logoutClear"
    BY <1>1, <2>1, <2>2, LiveImage
  <2>4. StageOf(p) /\ RemembersOf(p)
    BY <2>1, Parts DEF Typed, Remembers
  <2>5. job[p].kind = "logout"
    BY <2>3, <2>4 DEF StageOf, Before, After, Ended, Recovering, Emitting, RemembersOf, Commands
  <2> QED  BY <2>3, <2>5
<1>2. ImagesInv /\ [Next]_vars =>
        [\A n \in Profiles : \A k \in StoredKeys(config.profile[n]) :
           cache[k] # None /\ cache'[k] = None =>
             \E q \in Procs : job[q].kind = "logout" /\ pc[q] = "logoutClear"]_vars
  BY <1>1
<1> QED  BY <1>2, AlwaysAgree, PTL DEF Spec, NoLiveImageDeleted

-------------------------------------------------------------------------------
(***************************************************************************)
(* Reports.                                                                *)
(***************************************************************************)
LEMMA FinishSays ==
  ASSUME Typed, NEW p \in Procs, NEW r, Finish(p, r)
  PROVE  report'[p] = r
  BY DEF Typed, TypeOK, Finish

LEMMA SaysIs ==
  ASSUME NEW kind, NEW profile, NEW cached, NEW cleanup
  PROVE  /\ Says(kind, profile, cached, cleanup).kind = kind
         /\ Says(kind, profile, cached, cleanup).profile = profile
         /\ Says(kind, profile, cached, cleanup).cache = cached
  BY DEF Says

LEMMA StandingIs ==
  ASSUME Typed, NEW p \in Procs, pc[p] # "idle", NEW kind
  PROVE  /\ Standing(p, kind).kind = kind
         /\ job[p].kind = "login" =>
              Standing(p, kind).profile = "yes" /\ Standing(p, kind).cache = "yes"
         /\ job[p].kind = "change" =>
              Standing(p, kind).profile = "yes" /\ Standing(p, kind).cache = "unknown"
         /\ job[p].kind = "remove" =>
              /\ Standing(p, kind).profile = "yes"
              /\ Standing(p, kind).cache = IF mem[p].keys = {} THEN "no" ELSE "yes"
         /\ job[p].kind = "logout" => Standing(p, kind).profile = IF wrote[p] THEN "yes" ELSE "no"
         /\ job[p].kind = "read" =>
              Standing(p, kind).profile = "no" /\ Standing(p, kind).cache = "no"
  BY DEF Standing, Says

\* The step that ends an invocation tells the truth.
LEMMA TruthfulOwn ==
  ASSUME NEW p \in Procs, Given(p), pc'[p] = "done"
  PROVE  Truthful(p)
<1>0. /\ Typed /\ TypeOK /\ Act(p) /\ StageOf(p) /\ PlanOf(p) /\ ShapeOf(p) /\ RemembersOf(p)
  BY Parts DEF Typed, Remembers
<1>j. pc[p] # "idle" => job[p].kind \in {"login", "change", "remove", "logout", "read"}
  BY <1>0 DEF RemembersOf, Commands
<1>r. \A k \in PlanKeys(p) : Restored(p)[k] = mem[p].before[k]
  BY <1>0, InstalledPlan
<1> USE <1>0, <1>j, SaysIs, FinishSays DEF Truthful
<1>1. CASE RecoverCommitFails(p) \/ RecoverWriteFails(p) \/ RecoverRefused(p)
  <2>1. /\ pc[p] \in Recovering /\ wrote' = wrote
        /\ \E c, d : RecoveryFailed(p, c, d)
    BY <1>1 DEF RecoverCommitFails, RecoverWriteFails, RecoverRefused, Recovering
  <2>2. wrote[p] => report'[p] = Standing(p, "error")
    BY <2>1 DEF RecoveryFailed
  <2>3. ~wrote[p] => report'[p].kind = "recovery_failed"
    BY <2>1 DEF RecoveryFailed
  <2>4. wrote[p] => job[p].kind \in {"login", "change"} /\ ~HoldsPlan(p)
    BY <2>1 DEF StageOf, After, Recovering, Emitting, Ended, HoldsPlan
  <2> QED  BY <2>1, <2>2, <2>3, <2>4, StandingIs DEF Recovering
<1>2. CASE RecoverDone(p)
  BY <1>2 DEF RecoverDone, Goto, TypeOK, ForgetRested
<1>3. CASE Refuse(p)
  BY <1>3 DEF Refuse, Refused, HoldsPlan, StageOf, After, Recovering, Emitting, Ended
<1>4. CASE LoginCommitFails(p) \/ LoginRollback(p)
  <2>1. ~wrote'[p]
    BY <1>4 DEF LoginCommitFails, LoginRollback, StageOf, After, Recovering, Emitting, Ended
  <2> QED  BY <1>4, <1>r, <2>1 DEF LoginCommitFails, LoginRollback
<1>5. CASE LoginConfig(p)
  <2>1. /\ pc[p] = "loginConfig" /\ report'[p] = Standing(p, "error") /\ wrote'[p] /\ cache' = cache
    BY <1>5 DEF LoginConfig, TypeOK, Goto
  <2>2. job[p].kind = "login"
    BY <2>1 DEF StageOf, Before, After, Recovering, Emitting, Ended
  <2>3. \A k \in PlanKeys(p) : cache[k] = mem[p].after
    BY <2>1 DEF PlanOf, InPlace
  <2> QED  BY <2>1, <2>2, <2>3, StandingIs
<1>6. CASE LoginDoneFails(p)
  <2>1. /\ pc[p] = "loginDone" /\ report'[p] = Standing(p, "error") /\ wrote' = wrote
        /\ cache' = cache
    BY <1>6 DEF LoginDoneFails, shared
  <2>2. job[p].kind = "login" /\ wrote[p]
    BY <2>1 DEF StageOf, Before, After, Recovering, Emitting, Ended
  <2>3. \A k \in PlanKeys(p) : cache[k] = mem[p].after
    BY <2>1 DEF PlanOf, InPlace
  <2> QED  BY <2>1, <2>2, <2>3, StandingIs
<1>7. CASE ChangeWrite(p)
  <2>1. /\ pc[p] = "change" /\ report'[p] = Standing(p, "error") /\ wrote'[p]
    BY <1>7 DEF ChangeWrite, TypeOK, Goto
  <2>2. job[p].kind = "change" /\ ~HoldsPlan(p)
    BY <2>1 DEF StageOf, Before, After, Recovering, Emitting, Ended, HoldsPlan
  <2> QED  BY <2>1, <2>2, StandingIs
<1>8. CASE RemoveConfig(p)
  <2>1. /\ pc[p] = "removeConfig" /\ report'[p] = Says("error", "yes", "no", "unknown")
        /\ wrote'[p] /\ cache' = cache
    BY <1>8 DEF RemoveConfig, TypeOK, Goto
  <2> QED  BY <2>1 DEF PlanOf, Staged
<1>9. CASE RemoveConfigFails(p)
  <2>1. /\ pc[p] = "removeConfig" /\ report'[p] = Says("error", "no", "no", "no")
        /\ wrote' = wrote /\ cache' = cache
    BY <1>9 DEF RemoveConfigFails, shared
  <2>2. ~wrote[p]
    BY <2>1 DEF StageOf, After, Recovering, Emitting, Ended
  <2> QED  BY <2>1, <2>2 DEF PlanOf, Staged
<1>10. CASE RemoveCommitFails(p)
  <2>1. /\ pc[p] = "removeCommit" /\ wrote' = wrote
        /\ \/ cache' = cache /\ \E d : report'[p] = Says("error", "yes", "no", d)
           \/ report'[p] = Says("error", "yes", "unknown", "yes")
    BY <1>10 DEF RemoveCommitFails, TypeOK, Goto
  <2>2. wrote[p]
    BY <2>1 DEF StageOf, Before, Recovering, Emitting, Ended
  <2> QED  BY <2>1, <2>2 DEF PlanOf, Staged
<1>11. CASE RemoveRestore(p)
  <2>1. /\ pc[p] = "removeRestore" /\ cache' = cache /\ ~wrote'[p]
        /\ \E a \in {"no", "unknown"} : \E d : report'[p] = Says("error", a, "no", d)
    BY <1>11 DEF RemoveRestore, TypeOK
  <2> QED  BY <2>1 DEF PlanOf, Staged
<1>12. CASE RemoveRestoreConflict(p) \/ RemoveRestoreFails(p)
  <2>1. /\ pc[p] = "removeRestore" /\ cache' = cache
        /\ report'[p] = Says("error", "unknown", "no", "yes")
    BY <1>12 DEF RemoveRestoreConflict, RemoveRestoreFails, shared
  <2> QED  BY <2>1 DEF PlanOf, Staged
<1>13. CASE RemoveMark(p) \/ RemoveMarkConflict(p) \/ RemoveMarkFails(p)
  <2>1. /\ pc[p] = "removeMark" /\ cache' = cache /\ wrote' = wrote
        /\ \E d : report'[p] = Says("error", "yes", "yes", d)
    BY <1>13 DEF RemoveMark, RemoveMarkConflict, RemoveMarkFails, shared, TypeOK, Goto
  <2>2. wrote[p]
    BY <2>1 DEF StageOf, Before, Recovering, Emitting, Ended
  <2> QED  BY <2>1, <2>2 DEF PlanOf, InPlace
<1>14. CASE LogoutClearFails(p) \/ LogoutConfigFails(p)
  <2>1. /\ pc[p] \in {"logoutClear", "logoutConfig"} /\ wrote' = wrote
        /\ \E a \in {"no", "unknown"} : \E c : report'[p] = Says("error", a, c, "unknown")
    BY <1>14 DEF LogoutClearFails, LogoutConfigFails
  <2>2. ~wrote[p] /\ ~HoldsPlan(p)
    BY <2>1 DEF StageOf, After, Recovering, Emitting, Ended, HoldsPlan
  <2> QED  BY <2>1, <2>2
<1>15. CASE LogoutConfig(p)
  <2>1. /\ pc[p] = "logoutConfig" /\ wrote'[p]
        /\ \E c : report'[p] = Says("error", "yes", c, "unknown")
    BY <1>15 DEF LogoutConfig, TypeOK, Goto
  <2> QED  BY <2>1 DEF HoldsPlan
<1>16. CASE LogoutDoneFails(p)
  <2>1. /\ pc[p] = "logoutDone" /\ wrote' = wrote
        /\ \/ report'[p] = Standing(p, "error")
           \/ report'[p] = Says("error", "unknown", "yes", "unknown")
           \/ report'[p] = Refused
    BY <1>16 DEF LogoutDoneFails
  <2>2. job[p].kind = "logout" /\ ~HoldsPlan(p)
    BY <2>1 DEF StageOf, Before, After, Recovering, Emitting, Ended, HoldsPlan
  <2> QED  BY <2>1, <2>2, StandingIs DEF Refused
<1>17. CASE EmitDone(p) \/ EmitFails(p)
  <2>1. /\ pc[p] \in Emitting /\ wrote' = wrote /\ cache' = cache
        /\ \E kind : report'[p] = Standing(p, kind)
    BY <1>17 DEF EmitDone, EmitFails, Emitting, shared
  <2>2. /\ job[p].kind \in {"login", "change", "remove"} => wrote[p]
        /\ job[p].kind = "read" => ~wrote[p]
    BY <2>1 DEF StageOf, Before, After, Recovering, Emitting, Ended
  <2>3. HoldsPlan(p) =>
          /\ job[p].kind \in {"login", "remove"} /\ InPlace(p)
          /\ job[p].kind = "remove" => PlanKeys(p) = mem[p].keys
    BY <2>1 DEF HoldsPlan, InPlace, LoginHolds, RemoveHolds, Emitting, ShapeOf
  <2> QED  BY <2>1, <2>2, <2>3, StandingIs DEF PlanOf, Emitting
<1> QED
  <2>1. CASE Launch(p) \/ Crash(p)
    BY <2>1 DEF Launch, Crash, Goto, TypeOK, ReadMarkers
  <2>2. CASE \/ RecoverPrepare(p) \/ RecoverSkip(p) \/ RecoverLock(p) \/ RecoverCommit(p)
             \/ RecoverWrite(p) \/ RecoverStart(p)
    BY <2>2
    DEF RecoverPrepare, RecoverSkip, RecoverLock, RecoverCommit, RecoverWrite, RecoverStart,
        Goto, TypeOK, ReadMarkers
  <2>3. CASE Load(p) \/ LoginPrepare(p) \/ LoginCommit(p) \/ LoginRefuseConfig(p) \/ LoginDone(p)
    BY <2>3 DEF Load, LoginPrepare, LoginCommit, LoginRefuseConfig, LoginDone, Goto, TypeOK
  <2>4. CASE RemovePrepare(p) \/ RemoveCommit(p) \/ LogoutPrepare(p) \/ LogoutClear(p)
             \/ LogoutCheck(p) \/ LogoutDone(p) \/ ReadCache(p) \/ EmitLock(p) \/ EmitConfig(p)
    BY <2>4
    DEF RemovePrepare, RemoveCommit, LogoutPrepare, LogoutClear, LogoutCheck, LogoutDone,
        ReadCache, EmitLock, EmitConfig, Goto, TypeOK
  <2> QED
    BY <1>1, <1>2, <1>3, <1>4, <1>5, <1>6, <1>7, <1>8, <1>9, <1>10, <1>11, <1>12, <1>13, <1>14,
       <1>15, <1>16, <1>17, <2>1, <2>2, <2>3, <2>4 DEF Act, Advance, Fail

\* What a command reports of its own changes, at each of its failure exits and
\* on success, is what it did to the two files.
THEOREM ReportsAreTruthful == Spec => ReportsTruthful
<1>1. ASSUME ImagesInv, [Next]_vars, NEW p \in Procs, pc[p] # "done", pc'[p] = "done"
      PROVE  Truthful(p)
  <2>1. PICK q \in Procs : Given(q)
    BY <1>1, Givens DEF vars
  <2>2. q = p
    BY <1>1, <2>1, Parts, Bystanders
  <2> QED  BY <1>1, <2>1, <2>2, TruthfulOwn
<1>2. ImagesInv /\ [Next]_vars =>
        [\A p \in Procs : pc[p] # "done" /\ pc'[p] = "done" => Truthful(p)]_vars
  BY <1>1
<1> QED  BY <1>2, AlwaysAgree, PTL DEF Spec, ReportsTruthful

\* A report is filed in the step that ends the invocation, and by itself.
LEMMA Reporting ==
  ASSUME ImagesInv, [Next]_vars, NEW p \in Procs, pc[p] # "done", report'[p].kind # "pending"
  PROVE  Given(p) /\ pc'[p] = "done"
<1>1. StageOf(p) /\ report[p].kind = "pending"
  BY DEF ImagesInv, Agree, AgreeOf, LocalOf, StageOf, NoReport, Says
<1>2. PICK q \in Procs : Given(q)
  BY <1>1, Givens DEF vars
<1>3. q = p
  BY <1>1, <1>2, Parts, Bystanders
<1>4. StageOf(p)'
  BY <1>2, <1>3, LocalStep DEF LocalOf
<1> QED  BY <1>2, <1>3, <1>4 DEF StageOf, NoReport, Says

\* A removal that reports success left neither image nor marker of what it
\* removed, whatever others did between its two writes.
THEOREM RemovalsAreComplete == Spec => RemovalComplete
<1>1. ASSUME ImagesInv, [Next]_vars, NEW p \in Procs,
             job[p].kind = "remove", pc[p] = "emitting", report'[p].kind = "success",
             NEW k \in mem[p].keys
      PROVE  cache'[k] = None /\ k \notin config'.pending[Name(p)]
  <2>1. Given(p) /\ pc'[p] = "done"
    BY <1>1, Reporting
  <2>2. /\ Typed /\ Act(p) /\ PlanOf(p) /\ ShapeOf(p) /\ RemovalOf(p)
    BY <2>1, Parts
  <2>3. EmitDone(p) \/ EmitFails(p)
    BY <1>1, <2>1, <2>2, Parts
    DEF Act, Advance, Fail, Launch, Crash, RecoverPrepare, RecoverSkip, RecoverLock, RecoverCommit,
        RecoverWrite, RecoverDone, RecoverStart, RecoverCommitFails, RecoverWriteFails,
        RecoverRefused, Load, Refuse, LoginPrepare, LoginCommit, LoginCommitFails, LoginConfig,
        LoginRefuseConfig, LoginRollback, LoginDone, LoginDoneFails, ChangeWrite, RemovePrepare,
        RemoveConfig, RemoveConfigFails, RemoveCommit, RemoveCommitFails, RemoveRestore,
        RemoveRestoreConflict, RemoveRestoreFails, RemoveMark, RemoveMarkConflict,
        RemoveMarkFails, LogoutPrepare, LogoutClear, LogoutClearFails, LogoutCheck, LogoutConfig,
        LogoutConfigFails, LogoutDone, LogoutDoneFails, ReadCache, EmitLock, EmitConfig,
        Goto, TypeOK, ReadMarkers, ForgetRested
  <2>4. config' = config /\ cache' = cache
    BY <2>3 DEF EmitDone, EmitFails, shared
  <2>5. k \in PlanKeys(p) /\ mem[p].after = None
    BY <1>1, <2>2 DEF ShapeOf, RemoveHolds
  <2>6. cache[k] = None
    BY <1>1, <2>2, <2>5 DEF PlanOf, InPlace, RemoveHolds
  <2>7. k \notin config.pending[Name(p)]
    BY <1>1, <2>2 DEF RemovalOf
  <2> QED  BY <2>4, <2>6, <2>7
<1>2. ImagesInv /\ [Next]_vars =>
        [\A p \in Procs :
           job[p].kind = "remove" /\ pc[p] = "emitting" /\ report'[p].kind = "success" =>
             \A k \in mem[p].keys :
               /\ cache'[k] = None
               /\ k \notin config'.pending[Name(p)]]_vars
  BY <1>1
<1> QED  BY <1>2, AlwaysAgree, PTL DEF Spec, RemovalComplete

\* A recovery that ends well, whether its command then goes on or not, leaves no
\* marker in the file, if since it read the markers every other invocation had
\* ended before or has not changed the configuration.
THEOREM RecoveriesHeal == Spec => RecoveryHeals
<1>1. ASSUME ImagesInv, [Next]_vars, NEW p \in Procs, Undisturbed(p), pc[p] = "recNext",
             mem[p].todo = NoPending, pc'[p] \in {"done", "load", "change", "emitLock"}
      PROVE  config'.pending = NoPending
  <2>1. PICK q \in Procs : Given(q)
    BY <1>1, Givens DEF vars
  <2>2. q = p
    BY <1>1, <2>1, Parts, Bystanders
  <2>3. Typed /\ TypeOK /\ Act(p) /\ HealsOf(p)
    BY <2>1, <2>2, Parts
  <2>4. RecoverDone(p)
    <3> USE <1>1, <2>3 DEF Goto, TypeOK
    <3>1. CASE Launch(p) \/ Crash(p)
      BY <3>1 DEF Launch, Crash
    <3>2. CASE \/ RecoverPrepare(p) \/ RecoverSkip(p) \/ RecoverLock(p) \/ RecoverCommit(p)
               \/ RecoverWrite(p) \/ RecoverStart(p) \/ RecoverCommitFails(p)
               \/ RecoverWriteFails(p) \/ RecoverRefused(p)
      BY <3>2
      DEF RecoverPrepare, RecoverSkip, RecoverLock, RecoverCommit, RecoverWrite, RecoverStart,
          RecoverCommitFails, RecoverWriteFails, RecoverRefused
    <3>3. CASE \/ Load(p) \/ Refuse(p) \/ LoginPrepare(p) \/ LoginCommit(p)
               \/ LoginCommitFails(p) \/ LoginConfig(p) \/ LoginRefuseConfig(p)
               \/ LoginRollback(p) \/ LoginDone(p) \/ LoginDoneFails(p) \/ ChangeWrite(p)
      BY <3>3
      DEF Load, Refuse, LoginPrepare, LoginCommit, LoginCommitFails, LoginConfig,
          LoginRefuseConfig, LoginRollback, LoginDone, LoginDoneFails, ChangeWrite
    <3>4. CASE \/ RemovePrepare(p) \/ RemoveConfig(p) \/ RemoveConfigFails(p)
               \/ RemoveCommit(p) \/ RemoveCommitFails(p) \/ RemoveRestore(p)
               \/ RemoveRestoreConflict(p) \/ RemoveRestoreFails(p) \/ RemoveMark(p)
               \/ RemoveMarkConflict(p) \/ RemoveMarkFails(p)
      BY <3>4
      DEF RemovePrepare, RemoveConfig, RemoveConfigFails, RemoveCommit, RemoveCommitFails,
          RemoveRestore, RemoveRestoreConflict, RemoveRestoreFails, RemoveMark,
          RemoveMarkConflict, RemoveMarkFails
    <3>5. CASE \/ LogoutPrepare(p) \/ LogoutClear(p) \/ LogoutClearFails(p) \/ LogoutCheck(p)
               \/ LogoutConfig(p) \/ LogoutConfigFails(p) \/ LogoutDone(p)
               \/ LogoutDoneFails(p)
      BY <3>5
      DEF LogoutPrepare, LogoutClear, LogoutClearFails, LogoutCheck, LogoutConfig,
          LogoutConfigFails, LogoutDone, LogoutDoneFails
    <3>6. CASE ReadCache(p) \/ EmitLock(p) \/ EmitConfig(p) \/ EmitDone(p) \/ EmitFails(p)
      BY <3>6 DEF ReadCache, EmitLock, EmitConfig, EmitDone, EmitFails
    <3> QED  BY <3>1, <3>2, <3>3, <3>4, <3>5, <3>6 DEF Act, Advance, Fail
  <2>5. config' = config
    BY <2>4 DEF RecoverDone, shared
  <2> QED  BY <1>1, <2>3, <2>5 DEF HealsOf, Recovering
<1>2. ImagesInv /\ [Next]_vars =>
        [\A p \in Procs :
           /\ Undisturbed(p) /\ pc[p] = "recNext" /\ mem[p].todo = NoPending
           /\ pc'[p] \in {"done", "load", "change", "emitLock"}
           => config'.pending = NoPending]_vars
  BY <1>1
<1> QED  BY <1>2, AlwaysAgree, PTL DEF Spec, RecoveryHeals
===============================================================================
