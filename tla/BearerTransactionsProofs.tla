----------------------- MODULE BearerTransactionsProofs -----------------------
(***************************************************************************)
(* For any number of invocations, profiles and generations: type           *)
(* correctness, lock ownership, a configuration that always loads, and     *)
(* the isolation of the output stage.                                      *)
(***************************************************************************)
EXTENDS BearerTransactions, TLAPS

Caches == [CacheKeys -> Image \cup {None}]

-------------------------------------------------------------------------------
(***************************************************************************)
(* Preimages and memory.                                                   *)
(***************************************************************************)
LEMMA PreimagesIntro ==
  ASSUME NEW S \in SUBSET CacheKeys, NEW f \in [S -> Image \cup {None}]
  PROVE  f \in Preimages
BY DEF Preimages

LEMMA PreimagesElim ==
  ASSUME NEW f \in Preimages
  PROVE  /\ DOMAIN f \in SUBSET CacheKeys
         /\ \A k \in DOMAIN f : f[k] \in Image \cup {None}
<1>1. PICK S \in SUBSET CacheKeys : f \in [S -> Image \cup {None}]
  BY DEF Preimages
<1> QED  BY <1>1

LEMMA SnapshotType ==
  ASSUME NEW S \in SUBSET CacheKeys, cache \in Caches
  PROVE  [k \in S |-> cache[k]] \in Preimages
<1>1. [k \in S |-> cache[k]] \in [S -> Image \cup {None}]
  BY DEF Caches
<1> QED  BY <1>1, PreimagesIntro

LEMMA FreshType == Fresh \in Memory
<1>1. [k \in {} |-> None] \in Preimages
  <2>1. [k \in {} |-> None] \in [{} -> Image \cup {None}]
    OBVIOUS
  <2> QED  BY <2>1, PreimagesIntro
<1>2. NoPending \in [Profiles -> SUBSET Keys]
  BY DEF NoPending
<1> QED  BY <1>1, <1>2 DEF Fresh, Memory

LEMMA TouchedType ==
  ASSUME TypeOK, NEW p \in Procs, NEW S
  PROVE  Touched(p, S) \in Caches
<1>1. mem[p] \in Memory
  BY DEF TypeOK
<1>2. mem[p].before \in Preimages /\ mem[p].after \in Procs \cup {None}
  BY <1>1 DEF Memory
<1>3. \A k \in PlanKeys(p) : mem[p].before[k] \in Image \cup {None}
  BY <1>2, PreimagesElim DEF PlanKeys
<1>4. cache \in Caches
  BY DEF TypeOK, Caches
<1> QED  BY <1>2, <1>3, <1>4 DEF Touched, Caches, Image

-------------------------------------------------------------------------------
(***************************************************************************)
(* Reports.                                                                *)
(***************************************************************************)
LEMMA SaysType ==
  ASSUME NEW kind \in {"pending", "success", "error", "recovered", "recovery_failed"},
         NEW profile \in Answers, NEW cached \in Answers, NEW cleanup \in Answers
  PROVE  Says(kind, profile, cached, cleanup) \in Report
BY DEF Says, Report

LEMMA RefusedType == Refused \in Report /\ NoReport \in Report
BY DEF Refused, NoReport, Says, Report, Answers

LEMMA ClearedType ==
  ASSUME NEW p, NEW S PROVE Cleared(p, S) \in Answers
BY DEF Cleared, Answers

LEMMA StandingType ==
  ASSUME NEW p, NEW kind \in {"success", "error"}
  PROVE  Standing(p, kind) \in Report
<1>1. kind \in {"pending", "success", "error", "recovered", "recovery_failed"}
  OBVIOUS
<1>2. Cleared(p, PlanKeys(p)) \in Answers
  BY ClearedType
<1>3. "yes" \in Answers /\ "no" \in Answers /\ "unknown" \in Answers
  BY DEF Answers
<1> QED  BY <1>1, <1>2, <1>3 DEF Standing, Says, Report

-------------------------------------------------------------------------------
(***************************************************************************)
(* Types and memory: the two shapes of a step, one that goes on and one    *)
(* that ends the command.                                                  *)
(***************************************************************************)
Typed == TypeOK /\ Remembers

LEMMA GotoTyped ==
  ASSUME Typed, NEW p \in Procs, NEW label \in Labels, Goto(p, label),
         job' = job, report' \in [Procs -> Report],
         config' \in ConfigFile, cache' \in Caches,
         maint' \in Procs \cup {None}, configLock' \in Procs \cup {None},
         outputs' \subseteq Procs,
         wrote' \in [Procs -> BOOLEAN], got' \in [Procs -> Image \cup {None}],
         mem' \in [Procs -> Memory],
         \A q \in Procs \ {p} : mem'[q] = mem[q],
         RemembersOf(p)'
  PROVE  Typed'
<1>1. TypeOK'
  <2>1. pc' \in [Procs -> Labels]
    BY DEF Typed, TypeOK, Goto
  <2>2. job' \in [Procs -> Job]
    BY DEF Typed, TypeOK
  <2> QED  BY <2>1, <2>2 DEF TypeOK, Caches
<1>2. ASSUME NEW q \in Procs, q # p PROVE RemembersOf(q)'
  <2>1. pc'[q] = pc[q] /\ mem'[q] = mem[q] /\ job'[q] = job[q]
    BY <1>2 DEF Goto, Typed, TypeOK
  <2>2. RemembersOf(q)
    BY DEF Typed, Remembers
  <2> QED  BY <2>1, <2>2 DEF RemembersOf
<1> QED  BY <1>1, <1>2 DEF Typed, Remembers

LEMMA UnlockTyped ==
  ASSUME TypeOK, NEW p, Unlock(p)
  PROVE  /\ maint' \in Procs \cup {None}
         /\ configLock' \in Procs \cup {None}
         /\ outputs' \subseteq Procs
BY DEF TypeOK, Unlock

LEMMA FinishTyped ==
  ASSUME Typed, NEW p \in Procs, pc[p] # "idle", NEW r \in Report, Finish(p, r),
         job' = job, config' \in ConfigFile, cache' \in Caches,
         wrote' \in [Procs -> BOOLEAN], got' \in [Procs -> Image \cup {None}]
  PROVE  Typed'
<1>1. report' \in [Procs -> Report] /\ mem' \in [Procs -> Memory]
  BY FreshType DEF Finish, Typed, TypeOK
<1>2. \A q \in Procs \ {p} : mem'[q] = mem[q]
  BY DEF Finish, Typed, TypeOK
<1>3. "done" \in Labels /\ Goto(p, "done")
  BY DEF Labels, Finish
<1>4. RemembersOf(p)'
  <2>1. pc'[p] = "done"
    BY <1>3 DEF Goto, Typed, TypeOK
  <2>2. job[p].kind \in Commands /\ job[p].name \in Profiles
    BY DEF Typed, Remembers, RemembersOf
  <2> QED  BY <2>1, <2>2 DEF RemembersOf
<1> QED
  BY <1>1, <1>2, <1>3, <1>4, UnlockTyped, GotoTyped DEF Finish, Typed

LEMMA Knows ==
  ASSUME Typed, NEW p \in Procs
  PROVE  /\ mem[p].auth \in Auth \cup {Absent}
         /\ mem[p].to \in {None, Managed} \cup Keys
         /\ mem[p].keys \in SUBSET Keys
         /\ mem[p].todo \in [Profiles -> SUBSET Keys]
         /\ mem[p].before \in Preimages
         /\ mem[p].after \in Procs \cup {None}
         /\ config.profile \in [Profiles -> Auth \cup {Absent}]
         /\ config.current \in Profiles \cup {None}
         /\ config.pending \in [Profiles -> SUBSET Keys]
         /\ cache \in Caches
         /\ pc[p] # "idle" => job[p].kind \in Commands /\ Name(p) \in Profiles
<1>1. mem[p] \in Memory /\ config \in ConfigFile
  BY DEF Typed, TypeOK
<1> QED  BY <1>1 DEF Memory, ConfigFile, Typed, TypeOK, Caches, Remembers, RemembersOf, Name

LEMMA StoredType == ASSUME NEW a PROVE StoredKeys(a) \in SUBSET Keys
BY DEF StoredKeys

LEMMA CleanupType ==
  ASSUME config.pending \in [Profiles -> SUBSET Keys], NEW n \in Profiles
  PROVE  CleanupKeys(config, n) \in SUBSET Keys
BY StoredType DEF CleanupKeys

LEMMA MarkersTyped ==
  ASSUME Typed, NEW p \in Procs, ReadMarkers(p)
  PROVE  mem' \in [Procs -> Memory] /\ \A q \in Procs \ {p} : mem'[q] = mem[q]
<1>1. mem[p] \in Memory /\ config.pending \in [Profiles -> SUBSET Keys]
  BY DEF Typed, TypeOK, ConfigFile
<1>2. Gone \in SUBSET Procs
  BY DEF Gone
<1>3. [mem[p] EXCEPT !.todo = config.pending, !.rested = Gone] \in Memory
  BY <1>1, <1>2 DEF Memory
<1> QED  BY <1>3 DEF ReadMarkers, Typed, TypeOK

LEMMA LaunchTyped == ASSUME Typed, NEW p \in Procs, Launch(p) PROVE Typed'
<1>1. PICK kind \in Commands, n \in Profiles :
        /\ job' = [job EXCEPT ![p] = [kind |-> kind, name |-> n]]
        /\ \/ ReadMarkers(p) /\ Goto(p, "recNext")
           \/ /\ mem' = mem
              /\ Goto(p, IF kind = "logout" THEN "prepare"
                         ELSE IF kind = "change" THEN "change" ELSE "load")
              /\ kind = "logout" \/ pc'[p] # "prepare"
  BY DEF Launch, Goto, Typed, TypeOK
<1>2. job' \in [Procs -> Job] /\ job'[p].kind = kind /\ job'[p].name = n
  <2>1. [kind |-> kind, name |-> n] \in Job
    BY DEF Job
  <2> QED  BY <1>1, <2>1 DEF Typed, TypeOK
<1>3. mem' \in [Procs -> Memory] /\ \A q \in Procs \ {p} : mem'[q] = mem[q]
  BY <1>1, MarkersTyped DEF Typed, TypeOK
<1>4. pc' \in [Procs -> Labels] /\ pc'[p] \in {"recNext", "prepare", "change", "load"}
      /\ \A q \in Procs \ {p} : pc'[q] = pc[q]
  BY <1>1 DEF Goto, Typed, TypeOK, Labels
<1>5. TypeOK'
  BY <1>2, <1>3, <1>4 DEF Launch, Typed, TypeOK, shared, locks
<1>6. RemembersOf(p)'
  BY <1>1, <1>2, <1>4 DEF RemembersOf, Goto, Typed, TypeOK
<1>7. ASSUME NEW q \in Procs, q # p PROVE RemembersOf(q)'
  <2>1. pc'[q] = pc[q] /\ mem'[q] = mem[q] /\ job'[q] = job[q]
    BY <1>1, <1>3, <1>4, <1>7 DEF Typed, TypeOK
  <2> QED  BY <2>1 DEF RemembersOf, Typed, Remembers
<1> QED  BY <1>5, <1>6, <1>7 DEF Typed, Remembers

LEMMA MemoryUpdate ==
  ASSUME Typed, NEW p \in Procs, NEW v \in Memory, mem' = [mem EXCEPT ![p] = v]
  PROVE  /\ mem' \in [Procs -> Memory]
         /\ mem'[p] = v
         /\ \A q \in Procs \ {p} : mem'[q] = mem[q]
BY DEF Typed, TypeOK

\* A step that changes nothing of what the process remembers.
LEMMA StayTyped ==
  ASSUME Typed, NEW p \in Procs, NEW label \in Labels, Goto(p, label),
         UNCHANGED <<job, mem, wrote, got, report>>,
         config' \in ConfigFile, cache' \in Caches,
         maint' \in Procs \cup {None}, configLock' \in Procs \cup {None},
         outputs' \subseteq Procs,
         pc[p] \in Labels \ {"idle"},
         label \notin {"prepare", "recConfig", "readCache"},
         label \in {"recCommit", "recWrite"} => pc[p] \in {"recConfig", "recCommit"},
         label \in {"loginCommit", "loginConfig"} => pc[p] = "loginCommit",
         label \in {"removeConfig", "removeCommit", "removeRestore"}
           => pc[p] \in {"removeConfig", "removeCommit"}
  PROVE  Typed'
<1>1. pc'[p] = label /\ mem'[p] = mem[p] /\ job'[p] = job[p]
  BY DEF Goto, Typed, TypeOK
<1>2. RemembersOf(p)
  BY DEF Typed, Remembers
<1>3. RemembersOf(p)'
  BY <1>1, <1>2 DEF RemembersOf
<1> QED  BY <1>3, GotoTyped DEF Typed, TypeOK

LEMMA RecoverTyped ==
  ASSUME Typed, NEW p \in Procs,
         \/ RecoverPrepare(p) \/ RecoverSkip(p) \/ RecoverLock(p) \/ RecoverCommit(p)
         \/ RecoverWrite(p) \/ RecoverDone(p) \/ RecoverStart(p)
  PROVE  Typed'
<1> USE DEF Labels
<1>1. CASE RecoverPrepare(p)
  <2>1. PICK n \in Profiles :
          mem' = [mem EXCEPT ![p].at = n, ![p].after = None,
                             ![p].before = [k \in mem[p].todo[n] |-> cache[k]]]
    BY <1>1 DEF RecoverPrepare
  <2>2. [k \in mem[p].todo[n] |-> cache[k]] \in Preimages
    <3>1. mem[p].todo[n] \in SUBSET CacheKeys
      BY Knows DEF CacheKeys
    <3> QED  BY <3>1, Knows, SnapshotType
  <2>3. mem' \in [Procs -> Memory] /\ mem'[p].at \in Profiles
    <3>1. mem[p] \in Memory
      BY DEF Typed, TypeOK
    <3> DEFINE v == [mem[p] EXCEPT !.at = n, !.after = None,
                                   !.before = [k \in mem[p].todo[n] |-> cache[k]]]
    <3>2. v \in Memory /\ v.at = n
      BY <2>2, <3>1 DEF Memory
    <3>3. mem' = [mem EXCEPT ![p] = v]
      BY <2>1
    <3> QED  BY <3>2, <3>3, MemoryUpdate
  <2>4. RemembersOf(p)'
    BY <1>1, <2>3 DEF RecoverPrepare, Goto, RemembersOf, Typed, TypeOK, Remembers
  <2>5. \A q \in Procs \ {p} : mem'[q] = mem[q]
    BY <2>1 DEF Typed, TypeOK
  <2> QED
    BY <1>1, <2>3, <2>4, <2>5, GotoTyped, Knows
    DEF RecoverPrepare, TakeMaint, shared, Typed, TypeOK
<1>2. CASE RecoverSkip(p)
  <2>1. mem' \in [Procs -> Memory] /\ \A q \in Procs \ {p} : mem'[q] = mem[q]
    <3>1. [mem[p].todo EXCEPT ![mem[p].at] = {}] \in [Profiles -> SUBSET Keys]
      BY Knows
    <3>2. mem[p] \in Memory
      BY DEF Typed, TypeOK
    <3>3. [mem[p] EXCEPT !.todo = [mem[p].todo EXCEPT ![mem[p].at] = {}]] \in Memory
      BY <3>1, <3>2 DEF Memory
    <3> QED  BY <1>2, <3>3 DEF RecoverSkip, Typed, TypeOK
  <2>2. RemembersOf(p)'
    BY <1>2 DEF RecoverSkip, Goto, RemembersOf, Typed, TypeOK, Remembers
  <2> QED
    BY <1>2, <2>1, <2>2, GotoTyped, UnlockTyped, Knows
    DEF RecoverSkip, shared, Typed, TypeOK
<1>3. CASE RecoverLock(p)
  BY <1>3, StayTyped, Knows DEF RecoverLock, shared, Typed, TypeOK
<1>4. CASE RecoverCommit(p)
  BY <1>4, StayTyped, TouchedType, Knows DEF RecoverCommit, Installed, locks, Typed, TypeOK
<1>5. CASE RecoverWrite(p)
  <2>1. mem[p].at \in Profiles
    BY <1>5 DEF RecoverWrite, RemembersOf, Typed, Remembers
  <2>2. mem' \in [Procs -> Memory] /\ \A q \in Procs \ {p} : mem'[q] = mem[q]
    <3>1. [mem[p].todo EXCEPT ![mem[p].at] = {}] \in [Profiles -> SUBSET Keys]
      BY Knows
    <3>2. [mem[p] EXCEPT !.todo = [mem[p].todo EXCEPT ![mem[p].at] = {}],
                         !.recovered = TRUE] \in Memory
      <4>1. mem[p] \in Memory
        BY DEF Typed, TypeOK
      <4> QED  BY <3>1, <4>1 DEF Memory
    <3> QED  BY <1>5, <3>2 DEF RecoverWrite, Typed, TypeOK
  <2>3. config' \in ConfigFile
    BY <1>5 DEF RecoverWrite, Unmarked, ConfigFile, Typed, TypeOK
  <2>4. RemembersOf(p)'
    BY <1>5 DEF RecoverWrite, Goto, RemembersOf, Typed, TypeOK, Remembers
  <2> QED
    BY <1>5, <2>2, <2>3, <2>4, GotoTyped, UnlockTyped, Knows
    DEF RecoverWrite, Typed, TypeOK
<1>6. CASE RecoverDone(p)
  <2>1. CASE wrote[p] \/ ~mem[p].recovered
    <3>1. PICK label \in {"emitLock", "change", "load"} : Goto(p, label)
      BY <1>6, <2>1 DEF RecoverDone
    <3>2. mem' \in [Procs -> Memory] /\ \A q \in Procs \ {p} : mem'[q] = mem[q]
      <4>1. [mem[p] EXCEPT !.rested = {}] \in Memory
        BY DEF Typed, TypeOK, Memory
      <4> QED  BY <1>6, <2>1, <4>1 DEF RecoverDone, ForgetRested, Typed, TypeOK
    <3>3. RemembersOf(p)'
      BY <1>6, <2>1, <3>1 DEF RecoverDone, Goto, RemembersOf, Typed, TypeOK, Remembers
    <3> QED
      BY <1>6, <2>1, <3>1, <3>2, <3>3, GotoTyped, Knows
      DEF RecoverDone, shared, locks, Typed, TypeOK
  <2>2. CASE ~wrote[p] /\ mem[p].recovered
    <3>1. Says("recovered", "yes", "yes", "no") \in Report
      BY SaysType DEF Answers
    <3> QED  BY <1>6, <2>2, <3>1, FinishTyped, Knows DEF RecoverDone, shared, Typed, TypeOK
  <2> QED  BY <2>1, <2>2
<1>7. CASE RecoverStart(p)
  <2>1. PICK label \in {"recNext", "emitLock"} : Goto(p, label)
    BY <1>7 DEF RecoverStart
  <2>2. mem' \in [Procs -> Memory] /\ \A q \in Procs \ {p} : mem'[q] = mem[q]
    BY <1>7, MarkersTyped DEF RecoverStart, Typed, TypeOK
  <2>3. RemembersOf(p)'
    BY <1>7, <2>1 DEF RecoverStart, Goto, RemembersOf, Typed, TypeOK, Remembers
  <2> QED
    BY <1>7, <2>1, <2>2, <2>3, GotoTyped, Knows DEF RecoverStart, shared, locks, Typed, TypeOK
<1> QED  BY <1>1, <1>2, <1>3, <1>4, <1>5, <1>6, <1>7

LEMMA LoadTyped == ASSUME Typed, NEW p \in Procs, Load(p) PROVE Typed'
<1> DEFINE stored == config.profile[Name(p)]
<1>1. mem[p] \in Memory /\ stored \in Auth /\ Name(p) \in Profiles
  BY Knows DEF Load, Exists, Typed, TypeOK
<1>2. CleanupKeys(config, Name(p)) \in SUBSET Keys
  BY <1>1, CleanupType, Knows
<1>3. ASSUME NEW label \in {"prepare", "readCache"}, NEW v \in Memory,
             Goto(p, label), mem' = [mem EXCEPT ![p] = v], v.auth \in Auth,
             label = "prepare" /\ job[p].kind = "login" => v.to \in {Managed} \cup Keys,
             label = "readCache" => v.auth # NoAuth
      PROVE  Typed'
  <2>1. RemembersOf(p)'
    BY <1>3, MemoryUpdate DEF Load, Goto, RemembersOf, Typed, TypeOK, Remembers
  <2> QED
    BY <1>3, <2>1, GotoTyped, MemoryUpdate, Knows
    DEF Load, Labels, shared, locks, Typed, TypeOK
<1>4. CASE job[p].kind = "login"
  <2>1. PICK to \in {Managed} \cup FreshKeys(Name(p)) :
          /\ mem' = [mem EXCEPT ![p].auth = stored, ![p].to = to, ![p].keys = StoredKeys(stored)]
          /\ Goto(p, "prepare")
    BY <1>4 DEF Load
  <2> DEFINE v == [mem[p] EXCEPT !.auth = stored, !.to = to, !.keys = StoredKeys(stored)]
  <2>2. to \in {Managed} \cup Keys
    BY <1>1, KeysAssumption DEF FreshKeys
  <2>3. v \in Memory /\ v.to = to /\ v.auth = stored
    BY <1>1, <2>2, StoredType DEF Memory
  <2>4. mem' = [mem EXCEPT ![p] = v]
    BY <2>1
  <2> HIDE DEF v
  <2> QED  BY <1>1, <1>3, <2>1, <2>2, <2>3, <2>4
<1>5. CASE job[p].kind = "remove"
  <2> DEFINE v == [mem[p] EXCEPT !.auth = stored, !.keys = CleanupKeys(config, Name(p))]
  <2>1. mem' = [mem EXCEPT ![p] = v] /\ Goto(p, "prepare")
    BY <1>5 DEF Load
  <2>2. v \in Memory /\ v.auth = stored
    BY <1>1, <1>2 DEF Memory
  <2> HIDE DEF v
  <2> QED  BY <1>1, <1>3, <1>5, <2>1, <2>2
<1>6. CASE job[p].kind = "read"
  <2> DEFINE v == [mem[p] EXCEPT !.auth = stored]
  <2>1. mem' = [mem EXCEPT ![p] = v] /\ Goto(p, "readCache") /\ stored # NoAuth
    BY <1>6 DEF Load
  <2>2. v \in Memory /\ v.auth = stored
    BY <1>1 DEF Memory
  <2> HIDE DEF v
  <2> QED  BY <1>1, <1>3, <2>1, <2>2
<1> QED  BY <1>4, <1>5, <1>6 DEF Load

\* LoginCachePlan::new leaves the rest of the memory alone.
LEMMA PlansTyped ==
  ASSUME Typed, NEW p \in Procs, NEW S \in SUBSET CacheKeys,
         NEW image \in Procs \cup {None}, Plans(p, S, image)
  PROVE  /\ mem' \in [Procs -> Memory]
         /\ mem'[p].to = mem[p].to /\ mem'[p].auth = mem[p].auth
         /\ \A q \in Procs \ {p} : mem'[q] = mem[q]
<1> DEFINE v == [mem[p] EXCEPT !.before = [k \in S |-> cache[k]], !.after = image]
<1>1. [k \in S |-> cache[k]] \in Preimages
  BY SnapshotType, Knows
<1>2. v \in Memory /\ v.to = mem[p].to /\ v.auth = mem[p].auth
  <2>1. mem[p] \in Memory
    BY DEF Typed, TypeOK
  <2> QED  BY <1>1, <2>1 DEF Memory
<1>3. mem' = [mem EXCEPT ![p] = v]
  BY DEF Plans
<1> HIDE DEF v
<1> QED  BY <1>2, <1>3, MemoryUpdate

LEMMA PrepareTyped ==
  ASSUME Typed, NEW p \in Procs, LoginPrepare(p) \/ RemovePrepare(p) \/ LogoutPrepare(p)
  PROVE  Typed'
<1>1. ASSUME NEW S \in SUBSET CacheKeys, NEW image \in Procs \cup {None},
             NEW label \in {"loginCommit", "removeConfig", "logoutClear"},
             Plans(p, S, image), Goto(p, label), TakeMaint(p), pc[p] = "prepare",
             label = "loginCommit" => job[p].kind = "login",
             label = "removeConfig" => job[p].kind = "remove",
             UNCHANGED <<shared, job, wrote, got, report>>
      PROVE  Typed'
  <2>1. RemembersOf(p)'
    BY <1>1, PlansTyped DEF Goto, RemembersOf, Typed, TypeOK, Remembers
  <2> QED
    BY <1>1, <2>1, GotoTyped, PlansTyped, Knows
    DEF TakeMaint, Labels, shared, Typed, TypeOK
<1>2. CASE LoginPrepare(p)
  <2>1. TargetKey(p) \in CacheKeys
    BY <1>2, Knows DEF LoginPrepare, TargetKey, CacheKeys, RemembersOf, Typed, Remembers
  <2> QED  BY <1>1, <1>2, <2>1 DEF LoginPrepare
<1>3. CASE RemovePrepare(p)
  <2>1. mem[p].keys \in SUBSET CacheKeys
    BY Knows DEF CacheKeys
  <2> QED  BY <1>1, <1>3, <2>1 DEF RemovePrepare
<1>4. CASE LogoutPrepare(p)
  BY <1>1, <1>4 DEF LogoutPrepare
<1> QED  BY <1>2, <1>3, <1>4

-------------------------------------------------------------------------------
(***************************************************************************)
(* The configurations that are written have the type of a configuration.   *)
(***************************************************************************)
LEMMA ConfigUpdate ==
  ASSUME config \in ConfigFile, NEW n \in Profiles, NEW a \in Auth \cup {Absent},
         NEW S \in SUBSET Keys, NEW c \in Profiles \cup {None}
  PROVE  [config EXCEPT !.profile[n] = a, !.pending[n] = S, !.current = c] \in ConfigFile
BY DEF ConfigFile

LEMMA LoginUpdateType ==
  ASSUME Typed, NEW p \in Procs, pc[p] = "loginConfig"
  PROVE  LoginConfigUpdate(p) \in ConfigFile
<1>1. mem[p].to \in Auth /\ Name(p) \in Profiles /\ mem[p].keys \in SUBSET Keys
  BY Knows DEF Typed, Remembers, RemembersOf, Auth
<1>2. config \in ConfigFile
  BY DEF Typed, TypeOK
<1> QED  BY <1>1, <1>2 DEF LoginConfigUpdate, ConfigFile

LEMMA ChangesType ==
  ASSUME Typed, NEW n \in Profiles, NEW c \in Changes(n)
  PROVE  c \in ConfigFile
<1>1. config \in ConfigFile
  BY DEF Typed, TypeOK
<1>2. CASE Exists(config, n)
  <2>1. StoredKeys(config.profile[n]) \in SUBSET Keys
    BY StoredType
  <2>2. ASSUME NEW a \in {NoAuth, Managed},
               c = [config EXCEPT !.profile[n] = a,
                                  !.pending[n] = @ \cup StoredKeys(config.profile[n])]
        PROVE  c \in ConfigFile
    BY <1>1, <2>1, <2>2 DEF ConfigFile, Auth
  <2>3. CASE c = [config EXCEPT !.current = n]
    BY <1>1, <2>3 DEF ConfigFile
  <2>4. CASE c = config
    BY <1>1, <2>4
  <2> QED  BY <1>2, <2>2, <2>3, <2>4 DEF Changes
<1>3. CASE ~Exists(config, n)
  <2>1. PICK a \in {NoAuth, Managed} :
          c = [config EXCEPT !.profile[n] = a, !.current = IF @ = None THEN n ELSE @]
    BY <1>3 DEF Changes
  <2> QED  BY <1>1, <2>1 DEF ConfigFile, Auth
<1> QED  BY <1>2, <1>3

LEMMA RemoveUpdateType ==
  ASSUME Typed, NEW p \in Procs, Name(p) \in Profiles
  PROVE  /\ RemoveConfigUpdate(p) \in ConfigFile
         /\ RestoreUpdate(p) \in ConfigFile
         /\ UnmarkRemoved(p) \in ConfigFile
<1>1. config \in ConfigFile
  BY DEF Typed, TypeOK
<1>2. mem[p].keys \in SUBSET Keys /\ mem[p].auth \in Auth \cup {Absent}
  BY Knows
<1>3. RemoveConfigUpdate(p) \in ConfigFile
  BY <1>1, <1>2 DEF RemoveConfigUpdate, ConfigFile
<1>4. RestoreUpdate(p) \in ConfigFile
  BY <1>1, <1>2 DEF RestoreUpdate, Retired, ConfigFile
<1>5. UnmarkRemoved(p) \in ConfigFile
  BY <1>1 DEF UnmarkRemoved, ConfigFile
<1> QED  BY <1>3, <1>4, <1>5

LEMMA LogoutUpdateType == ASSUME Typed PROVE LogoutConfigUpdate \in ConfigFile
BY DEF Typed, TypeOK, LogoutConfigUpdate, ConfigFile, NoPending, Auth

-------------------------------------------------------------------------------
(***************************************************************************)
(* The steps of each command preserve types and memory.                    *)
(***************************************************************************)
LEMMA WroteType ==
  ASSUME Typed, NEW p \in Procs, NEW b \in BOOLEAN, wrote' = [wrote EXCEPT ![p] = b]
  PROVE  wrote' \in [Procs -> BOOLEAN]
BY DEF Typed, TypeOK

\* A step that may write, and otherwise goes on remembering what it did.
LEMMA WriteTyped ==
  ASSUME Typed, NEW p \in Procs, pc[p] # "idle",
         NEW label \in {"loginDone", "recStart", "removeMark", "emitConfig", "logoutDone"},
         Goto(p, label), UNCHANGED <<job, mem, got, report>>,
         config' \in ConfigFile, cache' \in Caches, wrote' \in [Procs -> BOOLEAN],
         maint' \in Procs \cup {None}, configLock' \in Procs \cup {None},
         outputs' \subseteq Procs
  PROVE  Typed'
<1>1. RemembersOf(p)'
  BY DEF Goto, RemembersOf, Typed, TypeOK, Remembers
<1> QED  BY <1>1, GotoTyped DEF Labels, Typed, TypeOK

LEMMA LoginTyped ==
  ASSUME Typed, NEW p \in Procs,
         LoginCommit(p) \/ LoginConfig(p) \/ LoginRefuseConfig(p) \/ LoginRollback(p) \/ LoginDone(p)
  PROVE  Typed'
<1>1. CASE LoginCommit(p)
  BY <1>1, StayTyped, TouchedType, Knows
  DEF LoginCommit, Installed, locks, Labels, Typed, TypeOK
<1>2. CASE LoginConfig(p)
  <2>1. config' \in ConfigFile /\ wrote' \in [Procs -> BOOLEAN]
    BY <1>2, LoginUpdateType, WroteType DEF LoginConfig
  <2>2. CASE Goto(p, "loginDone") /\ UNCHANGED <<locks, mem, report>>
    BY <1>2, <2>1, <2>2, WriteTyped, Knows DEF LoginConfig, locks, Typed, TypeOK
  <2>3. CASE Finish(p, Standing(p, "error"))
    BY <1>2, <2>1, <2>3, FinishTyped, StandingType, Knows DEF LoginConfig, Typed, TypeOK
  <2> QED  BY <1>2, <2>2, <2>3 DEF LoginConfig
<1>3. CASE LoginRefuseConfig(p)
  BY <1>3, StayTyped, Knows DEF LoginRefuseConfig, shared, locks, Labels, Typed, TypeOK
<1>4. CASE LoginRollback(p)
  <2>1. cache' \in Caches
    BY <1>4, TouchedType DEF LoginRollback, Restored, Typed
  <2>2. PICK r \in Report : Finish(p, r)
    BY <1>4, SaysType DEF LoginRollback, Answers
  <2> QED  BY <1>4, <2>1, <2>2, FinishTyped DEF LoginRollback, Typed, TypeOK
<1>5. CASE LoginDone(p)
  <2>1. maint' \in Procs \cup {None} /\ configLock' \in Procs \cup {None} /\ outputs' \subseteq Procs
    BY <1>5, UnlockTyped DEF LoginDone, locks, Typed, TypeOK
  <2>2. PICK label \in {"emitConfig", "recStart"} : Goto(p, label)
    BY <1>5 DEF LoginDone
  <2> QED  BY <1>5, <2>1, <2>2, WriteTyped, Knows DEF LoginDone, shared, Typed, TypeOK
<1> QED  BY <1>1, <1>2, <1>3, <1>4, <1>5

LEMMA ChangeTyped == ASSUME Typed, NEW p \in Procs, ChangeWrite(p) PROVE Typed'
<1>1. config' \in ConfigFile /\ wrote' \in [Procs -> BOOLEAN]
  BY ChangesType, WroteType, Knows DEF ChangeWrite
<1>2. CASE Goto(p, "recStart") /\ UNCHANGED <<locks, mem, report>>
  BY <1>1, <1>2, WriteTyped, Knows DEF ChangeWrite, locks, Typed, TypeOK
<1>3. CASE Finish(p, Standing(p, "error"))
  BY <1>1, <1>3, FinishTyped, StandingType, Knows DEF ChangeWrite, Typed, TypeOK
<1> QED  BY <1>2, <1>3 DEF ChangeWrite

LEMMA RemoveTyped ==
  ASSUME Typed, NEW p \in Procs,
         \/ RemoveConfig(p) \/ RemoveCommit(p) \/ RemoveRestore(p)
         \/ RemoveRestoreConflict(p) \/ RemoveMark(p) \/ RemoveMarkConflict(p)
  PROVE  Typed'
<1> USE Knows, SaysType DEF Answers
<1>1. CASE RemoveConfig(p)
  <2>1. config' \in ConfigFile /\ wrote' \in [Procs -> BOOLEAN]
    BY <1>1, RemoveUpdateType, WroteType DEF RemoveConfig
  <2>2. CASE /\ mem' = [mem EXCEPT ![p].current = (config.current = Name(p))]
             /\ Goto(p, "removeCommit")
             /\ UNCHANGED <<locks, report>>
    <3> DEFINE v == [mem[p] EXCEPT !.current = (config.current = Name(p))]
    <3>1. v \in Memory /\ v.auth = mem[p].auth
      <4>1. mem[p] \in Memory /\ (config.current = Name(p)) \in BOOLEAN
        BY DEF Typed, TypeOK
      <4> QED  BY <4>1 DEF Memory
    <3>2. mem' = [mem EXCEPT ![p] = v]
      BY <2>2
    <3> HIDE DEF v
    <3>3. RemembersOf(p)'
      BY <1>1, <2>2, <3>1, <3>2, MemoryUpdate
      DEF RemoveConfig, Goto, RemembersOf, Typed, TypeOK, Remembers
    <3> QED
      BY <1>1, <2>1, <2>2, <3>1, <3>2, <3>3, MemoryUpdate, GotoTyped
      DEF RemoveConfig, Labels, locks, Typed, TypeOK
  <2>3. CASE Finish(p, Says("error", "yes", "no", "unknown"))
    BY <1>1, <2>1, <2>3, FinishTyped DEF RemoveConfig, Typed, TypeOK
  <2> QED  BY <1>1, <2>2, <2>3 DEF RemoveConfig
<1>2. CASE RemoveCommit(p)
  <2>1. cache' \in Caches
    BY <1>2, TouchedType DEF RemoveCommit, Installed, Typed
  <2>2. PICK label \in {"emitConfig", "removeMark"} : Goto(p, label)
    BY <1>2 DEF RemoveCommit
  <2> QED  BY <1>2, <2>1, <2>2, WriteTyped DEF RemoveCommit, locks, Typed, TypeOK
<1>3. CASE RemoveRestore(p)
  <2>1. config' \in ConfigFile /\ wrote' \in [Procs -> BOOLEAN]
    BY <1>3, RemoveUpdateType, WroteType DEF RemoveRestore
  <2>2. PICK r \in Report : Finish(p, r)
    BY <1>3 DEF RemoveRestore
  <2> QED  BY <1>3, <2>1, <2>2, FinishTyped DEF RemoveRestore, Typed, TypeOK
<1>4. CASE RemoveRestoreConflict(p)
  BY <1>4, FinishTyped DEF RemoveRestoreConflict, shared, Typed, TypeOK
<1>5. CASE RemoveMark(p)
  <2>1. config' \in ConfigFile
    BY <1>5, RemoveUpdateType DEF RemoveMark
  <2>2. CASE Goto(p, "emitConfig") /\ UNCHANGED <<locks, mem, report>>
    BY <1>5, <2>1, <2>2, WriteTyped DEF RemoveMark, locks, Typed, TypeOK
  <2>3. CASE Finish(p, Says("error", "yes", "yes", "unknown"))
    BY <1>5, <2>1, <2>3, FinishTyped DEF RemoveMark, Typed, TypeOK
  <2> QED  BY <1>5, <2>2, <2>3 DEF RemoveMark
<1>6. CASE RemoveMarkConflict(p)
  BY <1>6, FinishTyped DEF RemoveMarkConflict, shared, Typed, TypeOK
<1> QED  BY <1>1, <1>2, <1>3, <1>4, <1>5, <1>6

LEMMA LogoutTyped ==
  ASSUME Typed, NEW p \in Procs,
         LogoutClear(p) \/ LogoutCheck(p) \/ LogoutConfig(p) \/ LogoutDone(p)
  PROVE  Typed'
<1> USE Knows
<1>1. CASE LogoutClear(p)
  BY <1>1, StayTyped, TouchedType DEF LogoutClear, Installed, locks, Labels, Typed, TypeOK
<1>2. CASE LogoutCheck(p)
  <2>1. CASE Goto(p, "logoutConfig") /\ UNCHANGED locks
    BY <1>2, <2>1, StayTyped DEF LogoutCheck, shared, locks, Labels, Typed, TypeOK
  <2>2. CASE Goto(p, "logoutDone") /\ Unlock(p)
    BY <1>2, <2>2, UnlockTyped, StayTyped DEF LogoutCheck, shared, Labels, Typed, TypeOK
  <2> QED  BY <1>2, <2>1, <2>2 DEF LogoutCheck
<1>3. CASE LogoutConfig(p)
  <2>1. config' \in ConfigFile /\ wrote' \in [Procs -> BOOLEAN]
    BY <1>3, LogoutUpdateType, WroteType DEF LogoutConfig
  <2>2. CASE Goto(p, "logoutDone") /\ Unlock(p) /\ UNCHANGED <<mem, report>>
    BY <1>3, <2>1, <2>2, UnlockTyped, WriteTyped DEF LogoutConfig, Typed, TypeOK
  <2>3. CASE Finish(p, Says("error", "yes", Cleared(p, PlanKeys(p)), "unknown"))
    <3>1. Says("error", "yes", Cleared(p, PlanKeys(p)), "unknown") \in Report
      BY ClearedType, SaysType DEF Answers
    <3> QED  BY <1>3, <2>1, <2>3, <3>1, FinishTyped DEF LogoutConfig, Typed, TypeOK
  <2> QED  BY <1>3, <2>2, <2>3 DEF LogoutConfig
<1>4. CASE LogoutDone(p)
  BY <1>4, StayTyped DEF LogoutDone, shared, locks, Labels, Typed, TypeOK
<1> QED  BY <1>1, <1>2, <1>3, <1>4

LEMMA OutputTyped ==
  ASSUME Typed, NEW p \in Procs,
         ReadCache(p) \/ EmitLock(p) \/ EmitConfig(p) \/ EmitDone(p)
  PROVE  Typed'
<1> USE Knows
<1>1. CASE ReadCache(p)
  <2>1. ReadKey(p) \in CacheKeys
    <3>1. mem[p].auth \in Auth \ {NoAuth} /\ Name(p) \in Profiles
      BY <1>1 DEF ReadCache, Typed, Remembers, RemembersOf
    <3> QED  BY <3>1 DEF ReadKey, CacheKeys, Auth
  <2>2. got' \in [Procs -> Image \cup {None}]
    BY <1>1, <2>1 DEF ReadCache, Caches, Typed, TypeOK
  <2>3. RemembersOf(p)'
    BY <1>1 DEF ReadCache, Goto, RemembersOf, Typed, TypeOK, Remembers
  <2> QED
    BY <1>1, <2>2, <2>3, GotoTyped DEF ReadCache, shared, locks, Labels, Typed, TypeOK
<1>2. CASE EmitLock(p)
  BY <1>2, StayTyped DEF EmitLock, TakeMaint, shared, Labels, Typed, TypeOK
<1>3. CASE EmitConfig(p)
  BY <1>3, StayTyped DEF EmitConfig, shared, Labels, Typed, TypeOK
<1>4. CASE EmitDone(p)
  BY <1>4, StandingType, FinishTyped DEF EmitDone, shared, Typed, TypeOK
<1> QED  BY <1>1, <1>2, <1>3, <1>4

LEMMA RecoveryFailedType ==
  ASSUME NEW p \in Procs, NEW cached \in Answers, NEW cleanup \in Answers,
         RecoveryFailed(p, cached, cleanup)
  PROVE  \E r \in Report : Finish(p, r)
<1>1. Standing(p, "error") \in Report
  BY StandingType
<1>2. Says("recovery_failed", "yes", cached, cleanup) \in Report
  BY SaysType DEF Answers
<1> QED  BY <1>1, <1>2 DEF RecoveryFailed

LEMMA FailTyped == ASSUME Typed, NEW p \in Procs, Fail(p) PROVE Typed'
<1> USE Knows, SaysType DEF Answers
<1>1. ASSUME NEW r \in Report, Finish(p, r), pc[p] # "idle", cache' \in Caches,
             config' \in ConfigFile, UNCHANGED <<job, wrote, got>>
      PROVE  Typed'
  BY <1>1, FinishTyped DEF Typed, TypeOK
<1>2. \A S : Touched(p, S) \in Caches
  BY TouchedType DEF Typed
<1>3. config \in ConfigFile /\ cache \in Caches
  BY DEF Typed, TypeOK
<1>4. CASE RecoverCommitFails(p)
  <2>1. cache' \in Caches
    BY <1>2, <1>4 DEF RecoverCommitFails, Restored
  <2>2. PICK r \in Report : Finish(p, r)
    BY <1>4, RecoveryFailedType DEF RecoverCommitFails
  <2> QED  BY <1>1, <1>3, <1>4, <2>1, <2>2 DEF RecoverCommitFails
<1>5. CASE RecoverWriteFails(p)
  <2>1. Unmarked(p) \in ConfigFile
    BY <1>3 DEF Unmarked, ConfigFile
  <2>2. PICK r \in Report : Finish(p, r)
    BY <1>5, RecoveryFailedType DEF RecoverWriteFails
  <2> QED  BY <1>1, <1>3, <1>5, <2>1, <2>2 DEF RecoverWriteFails
<1>6. CASE RecoverRefused(p)
  <2>1. PICK r \in Report : Finish(p, r)
    BY <1>6, RecoveryFailedType DEF RecoverRefused
  <2> QED  BY <1>1, <1>3, <1>6, <2>1 DEF RecoverRefused, shared
<1>7. CASE Refuse(p)
  BY <1>1, <1>3, <1>7, RefusedType DEF Refuse, shared
<1>8. CASE LoginCommitFails(p)
  <2>1. cache' \in Caches
    BY <1>2, <1>8 DEF LoginCommitFails, Restored
  <2>2. PICK r \in Report : Finish(p, r)
    BY <1>8 DEF LoginCommitFails
  <2> QED  BY <1>1, <1>3, <1>8, <2>1, <2>2 DEF LoginCommitFails
<1>9. CASE LoginDoneFails(p)
  BY <1>1, <1>3, <1>9, StandingType DEF LoginDoneFails, shared
<1>10. CASE RemoveConfigFails(p)
  BY <1>1, <1>3, <1>10 DEF RemoveConfigFails, shared
<1>11. CASE RemoveCommitFails(p)
  <2>1. cache' \in Caches
    BY <1>2, <1>3, <1>11 DEF RemoveCommitFails, Restored
  <2>2. CASE Goto(p, "removeRestore") /\ UNCHANGED <<locks, mem, report>>
    BY <1>3, <1>11, <2>1, <2>2, StayTyped DEF RemoveCommitFails, locks, Labels, Typed, TypeOK
  <2>3. CASE \E r \in Report : Finish(p, r)
    BY <1>1, <1>3, <1>11, <2>1, <2>3 DEF RemoveCommitFails
  <2> QED  BY <1>11, <2>2, <2>3 DEF RemoveCommitFails
<1>12. CASE RemoveRestoreFails(p)
  BY <1>1, <1>3, <1>12 DEF RemoveRestoreFails, shared
<1>13. CASE RemoveMarkFails(p)
  BY <1>1, <1>3, <1>13 DEF RemoveMarkFails, shared
<1>14. CASE LogoutClearFails(p)
  <2>1. PICK S \in SUBSET PlanKeys(p) :
          /\ cache' = Touched(p, S)
          /\ Finish(p, Says("error", "no", Cleared(p, S), "unknown"))
    BY <1>14 DEF LogoutClearFails
  <2>2. Says("error", "no", Cleared(p, S), "unknown") \in Report
    BY ClearedType
  <2> QED  BY <1>1, <1>2, <1>3, <1>14, <2>1, <2>2 DEF LogoutClearFails
<1>15. CASE LogoutConfigFails(p)
  <2>1. PICK profile \in {"no", "unknown"} :
          Finish(p, Says("error", profile, Cleared(p, PlanKeys(p)), "unknown"))
    BY <1>15 DEF LogoutConfigFails
  <2>2. Says("error", profile, Cleared(p, PlanKeys(p)), "unknown") \in Report
    BY ClearedType
  <2> QED  BY <1>1, <1>3, <1>15, <2>1, <2>2 DEF LogoutConfigFails, shared
<1>16. CASE LogoutDoneFails(p)
  <2>1. PICK r \in Report : Finish(p, r)
    BY <1>16, StandingType, RefusedType DEF LogoutDoneFails
  <2> QED  BY <1>1, <1>3, <1>16, <2>1 DEF LogoutDoneFails, shared
<1>17. CASE EmitFails(p)
  BY <1>1, <1>3, <1>17, StandingType DEF EmitFails, shared
<1>18. CASE LoginRefuseConfig(p)
  BY <1>18, LoginTyped
<1> QED
  BY <1>4, <1>5, <1>6, <1>7, <1>8, <1>9, <1>10, <1>11, <1>12, <1>13, <1>14,
     <1>15, <1>16, <1>17, <1>18 DEF Fail

LEMMA CrashTyped == ASSUME Typed, NEW p \in Procs, Crash(p) PROVE Typed'
<1>1. cache' \in Caches
  BY TouchedType, Knows DEF Crash, Typed
<1>2. mem' \in [Procs -> Memory] /\ \A q \in Procs \ {p} : mem'[q] = mem[q]
  BY FreshType, MemoryUpdate DEF Crash
<1>3. RemembersOf(p)'
  BY DEF Crash, Goto, RemembersOf, Typed, TypeOK, Remembers
<1> QED
  BY <1>1, <1>2, <1>3, GotoTyped, UnlockTyped DEF Crash, Labels, Typed, TypeOK

LEMMA NextTyped == Typed /\ [Next]_vars => Typed'
<1> SUFFICES ASSUME Typed, [Next]_vars PROVE Typed'
  OBVIOUS
<1>1. CASE UNCHANGED vars
  BY <1>1 DEF vars, Typed, TypeOK, Remembers, RemembersOf, Caches
<1>2. ASSUME NEW p \in Procs, Launch(p) \/ Advance(p) \/ Fail(p) \/ Crash(p)
      PROVE  Typed'
  BY <1>2, LaunchTyped, RecoverTyped, LoadTyped, PrepareTyped, LoginTyped, ChangeTyped,
     RemoveTyped, LogoutTyped, OutputTyped, FailTyped, CrashTyped DEF Advance
<1> QED  BY <1>1, <1>2 DEF Next

LEMMA InitTyped == Init => Typed
<1> SUFFICES ASSUME Init PROVE Typed
  OBVIOUS
<1>1. TypeOK
  <2>1. cache \in Caches
    BY DEF Init, Caches, Image
  <2>2. job \in [Procs -> Job]
    BY DEF Init, Job
  <2>3. mem \in [Procs -> Memory]
    BY FreshType DEF Init
  <2>4. report \in [Procs -> Report]
    BY RefusedType DEF Init
  <2> QED  BY <2>1, <2>2, <2>3, <2>4 DEF Init, TypeOK, Caches, Labels
<1>2. Remembers
  BY DEF Init, Remembers, RemembersOf
<1> QED  BY <1>1, <1>2 DEF Typed

\* Every variable has its type in every reachable state.
THEOREM TypeCorrect == Spec => []TypeOK
<1>1. Typed => TypeOK
  BY DEF Typed
<1> QED  BY <1>1, InitTyped, NextTyped, PTL DEF Spec

-------------------------------------------------------------------------------
(***************************************************************************)
(* Lock ownership.  A step of one process leaves the locks of the others   *)
(* alone; it takes one that is free, keeps what it has, or drops it all.   *)
(***************************************************************************)
LEMMA LockStep ==
  ASSUME TypeOK, LocksHeld, NEW p \in Procs, NEW label, Goto(p, label),
         \A q \in Procs \ {p} : /\ maint = q => maint' = q
                                /\ configLock = q => configLock' = q
                                /\ q \in outputs => q \in outputs',
         configLock' # None => outputs' = {},
         label \in MaintLabels => maint' = p,
         label \in {"recCommit", "recWrite"} => configLock' = p,
         label = "emitting" => p \in outputs'
  PROVE  LocksHeld'
<1>1. ASSUME NEW q \in Procs, q # p PROVE LocksOf(q)'
  <2>1. pc'[q] = pc[q] /\ LocksOf(q)
    BY <1>1 DEF TypeOK, Goto, LocksHeld
  <2> QED  BY <1>1, <2>1 DEF LocksOf
<1>2. LocksOf(p)'
  <2>1. pc'[p] = label
    BY DEF TypeOK, Goto
  <2> QED  BY <2>1 DEF LocksOf
<1> QED  BY <1>1, <1>2 DEF LocksHeld

LEMMA UnlockLocks ==
  ASSUME TypeOK, LocksHeld, NEW p \in Procs, NEW label, label \notin MaintLabels,
         Goto(p, label), Unlock(p)
  PROVE  LocksHeld'
<1>1. \A q \in Procs \ {p} : /\ maint = q => maint' = q
                             /\ configLock = q => configLock' = q
                             /\ q \in outputs => q \in outputs'
  BY DEF Unlock
<1>2. configLock' # None => outputs' = {}
  BY DEF Unlock, LocksHeld
<1>3. label \notin {"recCommit", "recWrite", "emitting"}
  BY DEF MaintLabels
<1> QED  BY <1>1, <1>2, <1>3, LockStep

LEMMA FinishLocks ==
  ASSUME TypeOK, LocksHeld, NEW p \in Procs, NEW r, Finish(p, r)
  PROVE  LocksHeld'
<1>1. Goto(p, "done") /\ Unlock(p) /\ "done" \notin MaintLabels
  BY DEF Finish, MaintLabels
<1> QED  BY <1>1, UnlockLocks

LEMMA KeepLocks ==
  ASSUME TypeOK, LocksHeld, NEW p \in Procs, NEW label, Goto(p, label), UNCHANGED locks,
         label \in MaintLabels => pc[p] \in MaintLabels,
         label \in {"recCommit", "recWrite"} => pc[p] \in {"recCommit", "recWrite"},
         label # "emitting"
  PROVE  LocksHeld'
<1>1. LocksOf(p)
  BY DEF LocksHeld
<1> QED  BY <1>1, LockStep DEF locks, LocksOf, LocksHeld

LEMMA TakeMaintLocks ==
  ASSUME TypeOK, LocksHeld, NEW p \in Procs, NEW label, Goto(p, label), TakeMaint(p),
         label \notin {"recCommit", "recWrite", "emitting"}
  PROVE  LocksHeld'
<1>1. \A q \in Procs \ {p} : maint # q
  BY ProcsAssumption DEF TakeMaint, Image
<1> QED  BY <1>1, LockStep DEF TakeMaint, LocksHeld

LEMMA AdvanceLocks ==
  ASSUME TypeOK, LocksHeld, NEW p \in Procs, Launch(p) \/ Advance(p)
  PROVE  LocksHeld'
<1> USE DEF MaintLabels
<1>1. CASE \E label : label \notin MaintLabels /\ Goto(p, label) /\ UNCHANGED locks
  BY <1>1, KeepLocks
<1>2. CASE \E r : Finish(p, r)
  BY <1>2, FinishLocks
<1>3. CASE Launch(p)
  <2>1. PICK label \in {"recNext", "prepare", "change", "load"} : Goto(p, label)
    BY <1>3 DEF Launch
  <2> QED  BY <1>1, <1>3, <2>1 DEF Launch
<1>4. CASE RecoverPrepare(p)
  BY <1>4, TakeMaintLocks DEF RecoverPrepare
<1>5. CASE RecoverSkip(p)
  BY <1>5, UnlockLocks DEF RecoverSkip
<1>6. CASE RecoverLock(p)
  <2>1. maint = p
    BY <1>6 DEF RecoverLock, LocksHeld, LocksOf
  <2>2. \A q \in Procs \ {p} : configLock # q
    BY <1>6, ProcsAssumption DEF RecoverLock, ConfigFree, Image
  <2> QED  BY <1>6, <2>1, <2>2, LockStep DEF RecoverLock, ConfigFree
<1>7. CASE RecoverCommit(p)
  BY <1>7, KeepLocks DEF RecoverCommit
<1>8. CASE RecoverWrite(p)
  BY <1>8, UnlockLocks DEF RecoverWrite
<1>9. CASE RecoverDone(p)
  <2>1. CASE ~wrote[p] /\ mem[p].recovered
    BY <1>2, <1>9, <2>1 DEF RecoverDone
  <2>2. CASE wrote[p] \/ ~mem[p].recovered
    <3>1. PICK label \in {"emitLock", "change", "load"} : Goto(p, label)
      BY <1>9, <2>2 DEF RecoverDone
    <3> QED  BY <1>1, <1>9, <2>2, <3>1 DEF RecoverDone, locks
  <2> QED  BY <2>1, <2>2
<1>10. CASE RecoverStart(p)
  BY <1>1, <1>10 DEF RecoverStart
<1>11. CASE Load(p)
  BY <1>1, <1>11 DEF Load
<1>12. CASE LoginPrepare(p)
  BY <1>12, TakeMaintLocks DEF LoginPrepare
<1>13. CASE LoginCommit(p)
  BY <1>13, KeepLocks DEF LoginCommit
<1>14. CASE LoginConfig(p)
  BY <1>2, <1>14, KeepLocks DEF LoginConfig
<1>15. CASE LoginRollback(p)
  BY <1>2, <1>15 DEF LoginRollback
<1>16. CASE LoginDone(p)
  BY <1>16, KeepLocks, UnlockLocks DEF LoginDone
<1>17. CASE ChangeWrite(p)
  BY <1>1, <1>2, <1>17 DEF ChangeWrite
<1>18. CASE RemovePrepare(p)
  BY <1>18, TakeMaintLocks DEF RemovePrepare
<1>19. CASE RemoveConfig(p)
  BY <1>2, <1>19, KeepLocks DEF RemoveConfig
<1>20. CASE RemoveCommit(p)
  BY <1>20, KeepLocks DEF RemoveCommit
<1>21. CASE RemoveRestore(p)
  BY <1>2, <1>21 DEF RemoveRestore
<1>22. CASE RemoveRestoreConflict(p)
  BY <1>2, <1>22 DEF RemoveRestoreConflict
<1>23. CASE RemoveMark(p)
  BY <1>2, <1>23, KeepLocks DEF RemoveMark
<1>24. CASE RemoveMarkConflict(p)
  BY <1>2, <1>24 DEF RemoveMarkConflict
<1>25. CASE LogoutPrepare(p)
  BY <1>25, TakeMaintLocks DEF LogoutPrepare
<1>26. CASE LogoutClear(p)
  BY <1>26, KeepLocks DEF LogoutClear
<1>27. CASE LogoutCheck(p)
  BY <1>27, KeepLocks, UnlockLocks DEF LogoutCheck
<1>28. CASE LogoutConfig(p)
  BY <1>2, <1>28, UnlockLocks DEF LogoutConfig
<1>29. CASE LogoutDone(p)
  BY <1>1, <1>29 DEF LogoutDone
<1>30. CASE ReadCache(p)
  BY <1>1, <1>30 DEF ReadCache
<1>31. CASE EmitLock(p)
  BY <1>31, TakeMaintLocks DEF EmitLock
<1>32. CASE EmitConfig(p)
  <2>1. maint = p
    BY <1>32 DEF EmitConfig, LocksHeld, LocksOf
  <2> QED  BY <1>32, <2>1, LockStep DEF EmitConfig
<1>33. CASE EmitDone(p)
  BY <1>2, <1>33 DEF EmitDone
<1> QED
  BY <1>3, <1>4, <1>5, <1>6, <1>7, <1>8, <1>9, <1>10, <1>11, <1>12, <1>13, <1>14,
     <1>15, <1>16, <1>17, <1>18, <1>19, <1>20, <1>21, <1>22, <1>23, <1>24, <1>25,
     <1>26, <1>27, <1>28, <1>29, <1>30, <1>31, <1>32, <1>33 DEF Advance

LEMMA FailLocks ==
  ASSUME TypeOK, LocksHeld, NEW p \in Procs, Fail(p) \/ Crash(p)
  PROVE  LocksHeld'
<1>1. CASE \E r : Finish(p, r)
  BY <1>1, FinishLocks
<1>2. CASE Crash(p)
  BY <1>2, UnlockLocks DEF Crash, MaintLabels
<1>3. CASE LoginRefuseConfig(p)
  BY <1>3, KeepLocks DEF LoginRefuseConfig, MaintLabels
<1>4. CASE RemoveCommitFails(p)
  BY <1>1, <1>4, KeepLocks DEF RemoveCommitFails, MaintLabels
<1>5. CASE RecoverCommitFails(p) \/ RecoverWriteFails(p) \/ RecoverRefused(p)
  BY <1>1, <1>5 DEF RecoverCommitFails, RecoverWriteFails, RecoverRefused, RecoveryFailed
<1>6. CASE Refuse(p) \/ LoginCommitFails(p) \/ LoginDoneFails(p) \/ RemoveConfigFails(p)
  BY <1>1, <1>6 DEF Refuse, LoginCommitFails, LoginDoneFails, RemoveConfigFails
<1>7. CASE RemoveRestoreFails(p) \/ RemoveMarkFails(p) \/ LogoutClearFails(p)
           \/ LogoutConfigFails(p)
  BY <1>1, <1>7 DEF RemoveRestoreFails, RemoveMarkFails, LogoutClearFails, LogoutConfigFails
<1>8. CASE LogoutDoneFails(p) \/ EmitFails(p)
  BY <1>1, <1>8 DEF LogoutDoneFails, EmitFails
<1> QED  BY <1>2, <1>3, <1>4, <1>5, <1>6, <1>7, <1>8 DEF Fail

LEMMA NextLocks == TypeOK /\ LocksHeld /\ [Next]_vars => LocksHeld'
<1>1. ASSUME TypeOK, LocksHeld, UNCHANGED vars PROVE LocksHeld'
  BY <1>1 DEF vars, LocksHeld, LocksOf
<1> QED  BY <1>1, AdvanceLocks, FailLocks DEF Next

LEMMA InitLocks == Init => LocksHeld
BY DEF Init, LocksHeld, LocksOf, MaintLabels

-------------------------------------------------------------------------------
(***************************************************************************)
(* The configuration always loads.  Every writer but one validates nothing *)
(* but its own change; each change keeps the whole file valid.             *)
(***************************************************************************)
LEMMA UnmarkValid ==
  ASSUME config \in ConfigFile, ValidConfig(config), NEW n \in Profiles
  PROVE  ValidConfig([config EXCEPT !.pending[n] = {}])
BY DEF ValidConfig, ConfigFile, Exists

LEMMA ChangesValid ==
  ASSUME config \in ConfigFile, ValidConfig(config), NEW n \in Profiles, NEW c \in Changes(n)
  PROVE  ValidConfig(c)
<1> USE KeysAssumption
<1>1. ASSUME NEW a \in {NoAuth, Managed} PROVE a \notin Keys /\ a # Absent
  BY DEF NoAuth, Managed, Absent
<1>2. CASE Exists(config, n)
  <2>1. CASE c = [config EXCEPT !.current = n]
    BY <1>2, <2>1 DEF ValidConfig, ConfigFile, Exists
  <2>2. ASSUME NEW a \in {NoAuth, Managed},
               c = [config EXCEPT !.profile[n] = a,
                                  !.pending[n] = @ \cup StoredKeys(config.profile[n])]
        PROVE  ValidConfig(c)
    <3>1. c.pending[n] \in SUBSET Keys
      BY <2>2, StoredType DEF ConfigFile
    <3>2. c.profile[n] = a /\ c.current = config.current
      BY <2>2 DEF ConfigFile
    <3>3. \A x \in Profiles \ {n} : c.profile[x] = config.profile[x] /\ c.pending[x] = config.pending[x]
      BY <2>2 DEF ConfigFile
    <3> QED  BY <1>1, <1>2, <3>1, <3>2, <3>3 DEF ValidConfig, ConfigFile, Exists
  <2>3. CASE c = config
    BY <2>3
  <2> QED  BY <1>2, <2>1, <2>2, <2>3 DEF Changes
<1>3. CASE ~Exists(config, n)
  <2>1. PICK a \in {NoAuth, Managed} :
          c = [config EXCEPT !.profile[n] = a, !.current = IF @ = None THEN n ELSE @]
    BY <1>3 DEF Changes
  <2>2. c.pending = config.pending /\ c.profile = [config.profile EXCEPT ![n] = a]
        /\ c.current \in {config.current, n}
    BY <2>1 DEF ConfigFile
  <2> QED  BY <1>1, <2>2 DEF ValidConfig, ConfigFile, Exists
<1> QED  BY <1>2, <1>3

LEMMA RemoveUpdateValid ==
  ASSUME Typed, ValidConfig(config), NEW p \in Procs, Name(p) \in Profiles
  PROVE  ValidConfig(RemoveConfigUpdate(p))
<1> DEFINE c == RemoveConfigUpdate(p)  n == Name(p)
<1>1. config \in ConfigFile /\ c \in ConfigFile
  BY RemoveUpdateType DEF Typed, TypeOK
<1>2. c.profile = [config.profile EXCEPT ![n] = Absent]
      /\ c.current = IF config.current = n THEN None ELSE config.current
  BY <1>1 DEF RemoveConfigUpdate, ConfigFile
<1>3. \A x \in Profiles \ {n} : c.pending[x] = config.pending[x]
  BY <1>1 DEF RemoveConfigUpdate, ConfigFile
<1>4. Absent \notin c.pending[n]
  BY <1>1, KeysAssumption DEF ConfigFile
<1> QED  BY <1>1, <1>2, <1>3, <1>4 DEF ValidConfig, ConfigFile, Exists

LEMMA RestoreUpdateValid ==
  ASSUME Typed, ValidConfig(config), NEW p \in Procs, Name(p) \in Profiles,
         mem[p].auth \in Auth
  PROVE  ValidConfig(RestoreUpdate(p))
<1> DEFINE c == RestoreUpdate(p)  n == Name(p)
<1>1. config \in ConfigFile /\ c \in ConfigFile
  BY RemoveUpdateType DEF Typed, TypeOK
<1>2. c.profile = [config.profile EXCEPT ![n] = mem[p].auth]
      /\ c.pending = [config.pending EXCEPT ![n] = Retired(p)]
      /\ c.current \in {config.current, n}
  BY <1>1 DEF RestoreUpdate, ConfigFile
<1>3. mem[p].auth \notin Retired(p)
  BY Knows DEF Retired, StoredKeys
<1>4. mem[p].auth # Absent
  BY KeysAssumption DEF Auth, NoAuth, Managed, Absent
<1> QED  BY <1>1, <1>2, <1>3, <1>4 DEF ValidConfig, ConfigFile, Exists

LEMMA LogoutUpdateValid ==
  ASSUME config \in ConfigFile, ValidConfig(config) PROVE ValidConfig(LogoutConfigUpdate)
<1> DEFINE c == LogoutConfigUpdate
<1>1. /\ c.pending = NoPending /\ c.current = config.current
      /\ c.profile = [n \in Profiles |-> IF config.profile[n] \in Keys
                                         THEN NoAuth ELSE config.profile[n]]
  BY DEF LogoutConfigUpdate, ConfigFile
<1>2. NoAuth # Absent
  BY DEF NoAuth, Absent
<1> QED  BY <1>1, <1>2 DEF ValidConfig, ConfigFile, Exists, NoPending

LEMMA NextConfig == Typed /\ ConfigLoads /\ [Next]_vars => ConfigLoads'
<1> SUFFICES ASSUME Typed, ConfigLoads, [Next]_vars PROVE ConfigLoads'
  OBVIOUS
<1> USE DEF ConfigLoads
<1>1. config \in ConfigFile
  BY DEF Typed, TypeOK
<1>2. CASE UNCHANGED config
  BY <1>2 DEF ValidConfig, Exists
<1>3. CASE UNCHANGED vars
  BY <1>2, <1>3 DEF vars
<1>4. ASSUME NEW p \in Procs, Launch(p) \/ Advance(p) \/ Fail(p) \/ Crash(p)
      PROVE  ConfigLoads'
  <2> USE <1>4
  <2>1. pc[p] # "idle" => Name(p) \in Profiles
    BY Knows
  <2>2. RemembersOf(p)
    BY DEF Typed, Remembers
  <2>3. CASE RecoverWrite(p) \/ RecoverWriteFails(p)
    BY <1>1, <1>2, <2>2, <2>3, UnmarkValid
    DEF RecoverWrite, RecoverWriteFails, Unmarked, RemembersOf
  <2>4. CASE LoginConfig(p)
    BY <2>4 DEF LoginConfig, LoginConflict
  <2>5. CASE ChangeWrite(p)
    BY <1>1, <2>1, <2>5, ChangesValid DEF ChangeWrite
  <2>6. CASE RemoveConfig(p)
    BY <2>1, <2>6, RemoveUpdateValid DEF RemoveConfig
  <2>7. CASE RemoveRestore(p)
    BY <2>1, <2>2, <2>7, RestoreUpdateValid DEF RemoveRestore, RemembersOf
  <2>8. CASE RemoveMark(p)
    BY <1>1, <2>1, <2>8, UnmarkValid DEF RemoveMark, UnmarkRemoved
  <2>9. CASE LogoutConfig(p)
    BY <1>1, <2>9, LogoutUpdateValid DEF LogoutConfig
  <2>10. CASE Launch(p) \/ Crash(p)
    BY <1>2, <2>10 DEF Launch, Crash, shared
  <2>11. CASE \/ RecoverPrepare(p) \/ RecoverSkip(p) \/ RecoverLock(p) \/ RecoverCommit(p)
              \/ RecoverDone(p) \/ RecoverStart(p) \/ RecoverCommitFails(p) \/ RecoverRefused(p)
    BY <1>2, <2>11
    DEF RecoverPrepare, RecoverSkip, RecoverLock, RecoverCommit, RecoverDone, RecoverStart,
        RecoverCommitFails, RecoverRefused, shared
  <2>12. CASE \/ Load(p) \/ Refuse(p) \/ LoginPrepare(p) \/ LoginCommit(p) \/ LoginCommitFails(p)
              \/ LoginRefuseConfig(p) \/ LoginRollback(p) \/ LoginDone(p) \/ LoginDoneFails(p)
    BY <1>2, <2>12
    DEF Load, Refuse, LoginPrepare, LoginCommit, LoginCommitFails, LoginRefuseConfig,
        LoginRollback, LoginDone, LoginDoneFails, shared
  <2>13. CASE \/ RemovePrepare(p) \/ RemoveConfigFails(p) \/ RemoveCommit(p)
              \/ RemoveCommitFails(p) \/ RemoveRestoreConflict(p) \/ RemoveRestoreFails(p)
              \/ RemoveMarkConflict(p) \/ RemoveMarkFails(p)
    BY <1>2, <2>13
    DEF RemovePrepare, RemoveConfigFails, RemoveCommit, RemoveCommitFails,
        RemoveRestoreConflict, RemoveRestoreFails, RemoveMarkConflict, RemoveMarkFails, shared
  <2>14. CASE \/ LogoutPrepare(p) \/ LogoutClear(p) \/ LogoutClearFails(p) \/ LogoutCheck(p)
              \/ LogoutConfigFails(p) \/ LogoutDone(p) \/ LogoutDoneFails(p)
    BY <1>2, <2>14
    DEF LogoutPrepare, LogoutClear, LogoutClearFails, LogoutCheck, LogoutConfigFails,
        LogoutDone, LogoutDoneFails, shared
  <2>15. CASE ReadCache(p) \/ EmitLock(p) \/ EmitConfig(p) \/ EmitDone(p) \/ EmitFails(p)
    BY <1>2, <2>15 DEF ReadCache, EmitLock, EmitConfig, EmitDone, EmitFails, shared
  <2> QED
    BY <2>3, <2>4, <2>5, <2>6, <2>7, <2>8, <2>9, <2>10, <2>11, <2>12, <2>13, <2>14, <2>15
    DEF Advance, Fail
<1> QED  BY <1>3, <1>4 DEF Next

-------------------------------------------------------------------------------
LEMMA InitInvariant == Init => IInv
BY InitTyped, InitLocks DEF Init, IInv, Typed, ConfigLoads

LEMMA NextInvariant == IInv /\ [Next]_vars => IInv'
BY NextTyped, NextLocks, NextConfig DEF IInv, Typed

LEMMA Inductive == Spec => []IInv
BY InitInvariant, NextInvariant, PTL DEF Spec

\* No interleaving, crash or failure leaves a configuration behind that the
\* next command cannot load: the current profile exists, and no profile
\* points to a generation that is marked for deletion.
THEOREM ConfigAlwaysLoads == Spec => []ConfigLoads
<1>1. IInv => ConfigLoads
  BY DEF IInv
<1> QED  BY <1>1, Inductive, PTL

\* Who changes one of the two files owns the maintenance lock, or has found
\* the configuration lock free.
LEMMA Writers ==
  ASSUME NEW q \in Procs, Launch(q) \/ Advance(q) \/ Fail(q) \/ Crash(q)
  PROVE  UNCHANGED shared \/ pc[q] \in MaintLabels \/ ConfigFree
<1>1. CASE Launch(q) \/ Crash(q)
  BY <1>1 DEF Launch, Crash, shared, MaintLabels
<1>2. CASE \/ RecoverPrepare(q) \/ RecoverSkip(q) \/ RecoverLock(q) \/ RecoverCommit(q)
           \/ RecoverWrite(q) \/ RecoverDone(q) \/ RecoverStart(q)
           \/ RecoverCommitFails(q) \/ RecoverWriteFails(q) \/ RecoverRefused(q)
  BY <1>2
  DEF RecoverPrepare, RecoverSkip, RecoverLock, RecoverCommit, RecoverWrite, RecoverDone,
      RecoverStart, RecoverCommitFails, RecoverWriteFails, RecoverRefused, MaintLabels
<1>3. CASE \/ Load(q) \/ Refuse(q) \/ LoginPrepare(q) \/ LoginCommit(q) \/ LoginCommitFails(q)
           \/ LoginConfig(q) \/ LoginRefuseConfig(q) \/ LoginRollback(q) \/ LoginDone(q)
           \/ LoginDoneFails(q) \/ ChangeWrite(q)
  BY <1>3
  DEF Load, Refuse, LoginPrepare, LoginCommit, LoginCommitFails, LoginConfig,
      LoginRefuseConfig, LoginRollback, LoginDone, LoginDoneFails, ChangeWrite, MaintLabels
<1>4. CASE \/ RemovePrepare(q) \/ RemoveConfig(q) \/ RemoveConfigFails(q) \/ RemoveCommit(q)
           \/ RemoveCommitFails(q) \/ RemoveRestore(q) \/ RemoveRestoreConflict(q)
           \/ RemoveRestoreFails(q) \/ RemoveMark(q) \/ RemoveMarkConflict(q) \/ RemoveMarkFails(q)
  BY <1>4
  DEF RemovePrepare, RemoveConfig, RemoveConfigFails, RemoveCommit, RemoveCommitFails,
      RemoveRestore, RemoveRestoreConflict, RemoveRestoreFails, RemoveMark,
      RemoveMarkConflict, RemoveMarkFails, MaintLabels
<1>5. CASE \/ LogoutPrepare(q) \/ LogoutClear(q) \/ LogoutClearFails(q) \/ LogoutCheck(q)
           \/ LogoutConfig(q) \/ LogoutConfigFails(q) \/ LogoutDone(q) \/ LogoutDoneFails(q)
  BY <1>5
  DEF LogoutPrepare, LogoutClear, LogoutClearFails, LogoutCheck, LogoutConfig,
      LogoutConfigFails, LogoutDone, LogoutDoneFails, MaintLabels
<1>6. CASE ReadCache(q) \/ EmitLock(q) \/ EmitConfig(q) \/ EmitDone(q) \/ EmitFails(q)
  BY <1>6 DEF ReadCache, EmitLock, EmitConfig, EmitDone, EmitFails
<1> QED  BY <1>1, <1>2, <1>3, <1>4, <1>5, <1>6 DEF Advance, Fail

\* While an invocation writes its output, nobody changes the two files its
\* bytes were checked against.
THEOREM OutputIsIsolated == Spec => OutputIsolated
<1>1. ASSUME IInv, [Next]_vars, NEW p \in Procs, pc[p] = "emitting", pc'[p] = "emitting"
      PROVE  UNCHANGED shared
  <2>1. maint = p /\ p \in outputs
    BY <1>1 DEF IInv, LocksHeld, LocksOf, MaintLabels
  <2>2. CASE UNCHANGED vars
    BY <2>2 DEF vars, shared
  <2>3. ASSUME NEW q \in Procs, q # p, Launch(q) \/ Advance(q) \/ Fail(q) \/ Crash(q)
        PROVE  UNCHANGED shared
    <3>1. pc[q] \notin MaintLabels
      BY <1>1, <2>1, <2>3 DEF IInv, LocksHeld, LocksOf
    <3> QED  BY <2>1, <2>3, <3>1, Writers DEF ConfigFree
  <2>4. ASSUME Launch(p) \/ Advance(p) \/ Fail(p) \/ Crash(p) PROVE UNCHANGED shared
    <3>1. CASE EmitDone(p) \/ EmitFails(p)
      BY <3>1 DEF EmitDone, EmitFails
    <3> QED
      BY <1>1, <2>4, <3>1
      DEF Advance, Fail, Launch, Crash, Goto, IInv, TypeOK,
          RecoverPrepare, RecoverSkip, RecoverLock, RecoverCommit, RecoverWrite,
          RecoverDone, RecoverStart, RecoverCommitFails, RecoverWriteFails, RecoverRefused,
          Load, Refuse, LoginPrepare, LoginCommit, LoginCommitFails, LoginConfig,
          LoginRefuseConfig, LoginRollback, LoginDone, LoginDoneFails, ChangeWrite,
          RemovePrepare, RemoveConfig, RemoveConfigFails, RemoveCommit, RemoveCommitFails,
          RemoveRestore, RemoveRestoreConflict, RemoveRestoreFails, RemoveMark,
          RemoveMarkConflict, RemoveMarkFails, LogoutPrepare, LogoutClear, LogoutClearFails,
          LogoutCheck, LogoutConfig, LogoutConfigFails, LogoutDone, LogoutDoneFails,
          ReadCache, EmitLock, EmitConfig
  <2> QED  BY <1>1, <2>2, <2>3, <2>4 DEF Next
<1>2. IInv /\ [Next]_vars =>
        [\A p \in Procs : pc[p] = "emitting" /\ pc'[p] = "emitting" => UNCHANGED shared]_vars
  BY <1>1
<1> QED  BY <1>2, Inductive, PTL DEF Spec, OutputIsolated
===============================================================================
