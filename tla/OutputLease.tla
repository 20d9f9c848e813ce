----------------------------- MODULE OutputLease ------------------------------
(***************************************************************************)
(* How a command that writes output comes to know every credential that is *)
(* stored: it locks the token cache, reads every image in it, the ones     *)
(* that writers left unfinished included, locks the configuration, reads   *)
(* the secret files that its profiles name, and keeps both locks until the *)
(* output is written.  Other commands renew tokens, log in and change the  *)
(* configuration meanwhile, and are killed; an earlier snapshot takes no   *)
(* lock at all.                                                            *)
(*                                                                         *)
(* A credential is a token, a secret, or the pair of a client and a secret *)
(* as the Basic scheme encodes it.  Secret files stay as they are.  The    *)
(* writes to the cache are PrivateFiles', the transaction of a login is    *)
(* BearerTransactions', the search for a credential in an output is        *)
(* OutputStream's: here each is one step.                                  *)
(***************************************************************************)
EXTENDS FiniteSets

CONSTANTS
  Procs,        \* invocations
  Paths,        \* images of the cache; Own is the disclosed one's
  Own, Tokens, None,
  Files,        \* secret files
  Profiles,     \* [id, file], each a client or a secret file, or None
  Settings,     \* environments [token, id, secret], each BOOLEAN, with what the secret
                \* files hold: functions to {"secret", "none", "not_utf8"}
  Roles,        \* what the invocations may be up to: a set of functions on Procs
  Caches, Leftovers,           \* what may be in the cache at first
  Configs                      \* configurations: sets of profiles, or None

VARIABLES
  environment, files,
  cache,        \* [Paths -> images or None]
  temporary,    \* images in temporary files
  config,       \* the profiles, or None: it does not load
  kind,         \* what an invocation is up to
  pc,
  shared, exclusive,              \* holders of cache-maintenance.lock
  config_shared, config_exclusive,\* holders of the lock of the configuration
  todo,         \* entries of the directory still to read, or a writer's draft
  guard,        \* what an invocation knows
  all_along     \* [path, token] in the cache ever since a command began

locks == <<shared, exclusive, config_shared, config_exclusive>>
stores == <<cache, temporary, config>>
vars == <<environment, files, stores, kind, pc, locks, todo, guard, all_along>>

\* A whole image, or one that does not decode.
Image == [token : Tokens, provider : {"mine", "other"}, whole : BOOLEAN]

Token(t) == <<"token", t>>
Secret(f) == <<"secret", f>>
Basic(id, f) == <<"basic", id, f>>
Env == "environment"               \* stands for a token, a client and a secret of its own

Ids == {p.id : p \in Profiles} \cup {Env}
Credential ==
  {Token(t) : t \in Tokens \cup {Env}} \cup {Secret(f) : f \in Files \cup {Env}}
    \cup {Basic(id, f) : id \in Ids \ {None}, f \in Files \cup {Env}}
DenyAll == Credential

Kinds == {"emit", "reveal", "login", "renew", "configure", "snapshot"}

-------------------------------------------------------------------------------
\* The guards.

\* environment_credential_output_guard; environment_non_disclosable_output_guard
NonDisclosable ==
  {Secret(f) : f \in IF environment.secret THEN {Env} ELSE {}}
    \cup {Basic(Env, f) : f \in IF environment.secret /\ environment.id THEN {Env} ELSE {}}
EnvironmentGuard == NonDisclosable \cup IF environment.token THEN {Token(Env)} ELSE {}

\* configured_profile_credential_output_guard, not strict: the secrets that are
\* here, each alone and with each client.
ProfileGuard(p) ==
  LET secrets == (IF environment.secret THEN {Env} ELSE {})
                   \cup {f \in Files : f = p.file /\ files[f] = "secret"}
      clients == (IF environment.id THEN {Env} ELSE {}) \cup ({p.id} \ {None})
  IN  {Secret(f) : f \in secrets} \cup {Basic(id, f) : id \in clients, f \in secrets}

\* A secret file that is no text fails even where one that cannot be read does not.
Unusable(p) == p.file # None /\ files[p.file] = "not_utf8"

\* configured_config_credential_output_guard_until
ConfiguredGuard(profiles) == UNION {ProfileGuard(p) : p \in profiles}

\* collect_cached_token_guard_except: an image that does not decode gives the texts in
\* it, or denies everything.
ImageGuards(image, excluded) ==
  IF image = excluded THEN {{}}
  ELSE IF image.whole THEN {{Token(image.token)}} ELSE {{Token(image.token)}, DenyAll}

\* What is stored: everything that some command would find and use.
Images == {cache[path] : path \in Paths} \ {None}
CommittedCache == {Token(image.token) : image \in Images}
Entries == {path \in Paths : cache[path] # None}
Placed == {[path |-> path, token |-> cache[path].token] : path \in Entries}
Stored ==
  CommittedCache \cup {Token(image.token) : image \in temporary} \cup EnvironmentGuard
    \cup IF config = None THEN {} ELSE ConfiguredGuard(config)

\* access_token_disclosure_guard_lease_until: the token that is shown, and the only
\* image that may hold it.
Disclosed == IF environment.token THEN Env ELSE CHOOSE t \in Tokens : TRUE
Excluded(path) ==
  IF ~environment.token /\ path = Own
  THEN [token |-> Disclosed, provider |-> "mine", whole |-> TRUE] ELSE None

-------------------------------------------------------------------------------
\* The locks, and the deadline of those who wait for one.

CacheFree(p) == exclusive = {} /\ shared = {}
ConfigFree == config_exclusive = {}
Goto(p, label) == pc' = [pc EXCEPT ![p] = label]
Knows(p, more) == guard' = [guard EXCEPT ![p] = @ \cup more]

Release(p) ==
  /\ shared' = shared \ {p} /\ exclusive' = exclusive \ {p}
  /\ config_shared' = config_shared \ {p} /\ config_exclusive' = config_exclusive \ {p}

Fixed == UNCHANGED <<environment, files, kind>>

\* Of the entries in the directory, a snapshot leaves out what writers still fill.
Listed(p) == Entries \cup IF kind[p] = "snapshot" THEN {} ELSE temporary

Start(p) ==
  CASE kind[p] = "reveal" -> NonDisclosable
    [] kind[p] = "emit" -> {}
    [] OTHER -> EnvironmentGuard

\* cache_output_guard_lease_until, access_token_disclosure_guard_lease_until, the
\* plan of a login, the shared lock of a renewal; a snapshot locks nothing.
LockCache(p) ==
  /\ pc[p] = "start" /\ kind[p] # "configure"
  /\ CASE kind[p] = "snapshot" -> UNCHANGED <<shared, exclusive>>
       [] kind[p] = "renew" -> exclusive = {} /\ shared' = shared \cup {p} /\ UNCHANGED exclusive
       [] OTHER -> CacheFree(p) /\ exclusive' = {p} /\ UNCHANGED shared
  /\ Goto(p, IF kind[p] = "renew" THEN "fill" ELSE "list")
  /\ Knows(p, Start(p))
  /\ all_along' = [all_along EXCEPT ![p] = Placed]
  /\ Fixed /\ UNCHANGED <<stores, config_shared, config_exclusive, todo>>

\* merge_all_cached_token_guards: the directory is listed.
List(p) ==
  /\ pc[p] = "list"
  /\ todo' = [todo EXCEPT ![p] = Listed(p)]
  /\ Goto(p, "read")
  /\ Fixed /\ UNCHANGED <<stores, locks, guard, all_along>>

Holds(entry) == IF entry \in Paths THEN cache[entry]
                ELSE IF entry \in temporary THEN entry ELSE None

\* collect_cached_token_guard_except: an entry that is gone is left out, one that
\* cannot be read ends the command; a snapshot then denies everything.
ReadEntry(p) ==
  /\ pc[p] = "read"
  /\ \E entry \in todo[p] :
       /\ todo' = [todo EXCEPT ![p] = @ \ {entry}]
       /\ \/ /\ Holds(entry) = None /\ UNCHANGED guard
          \/ /\ Holds(entry) # None
             /\ \E more \in ImageGuards(Holds(entry), IF kind[p] = "reveal" THEN Excluded(entry)
                                                      ELSE None) :
                  Knows(p, more)
  /\ Fixed /\ UNCHANGED <<stores, locks, pc, all_along>>

Unreadable(p) ==
  /\ pc[p] = "read" /\ todo[p] # {}
  /\ \/ kind[p] = "snapshot" /\ Knows(p, DenyAll) /\ Goto(p, "config") /\ UNCHANGED locks
     \/ kind[p] # "snapshot" /\ Release(p) /\ Goto(p, "failed") /\ UNCHANGED guard
  /\ todo' = [todo EXCEPT ![p] = {}]
  /\ Fixed /\ UNCHANGED <<stores, all_along>>

CacheKnown(p) ==
  /\ pc[p] = "read" /\ todo[p] = {}
  /\ Goto(p, IF kind[p] = "login" THEN "fill" ELSE "config")
  /\ IF kind[p] = "emit" THEN Knows(p, EnvironmentGuard) ELSE UNCHANGED guard
  /\ Fixed /\ UNCHANGED <<stores, locks, todo, all_along>>

\* Seeded fault: a configuration that does not load is not kept locked.
LockConfigLoaded(p) ==
  /\ pc[p] = "config"
  /\ ConfigFree
  /\ config_shared' = IF kind[p] = "snapshot" \/ config = None THEN config_shared
                      ELSE config_shared \cup {p}
  /\ Goto(p, "configured")
  /\ Fixed /\ UNCHANGED <<stores, shared, exclusive, config_exclusive, todo, guard, all_along>>

\* ConfigStore::read_lease_until; a snapshot reads without.
LockConfig(p) ==
  /\ pc[p] = "config"
  /\ IF kind[p] = "snapshot" THEN UNCHANGED config_shared
     ELSE ConfigFree /\ config_shared' = config_shared \cup {p}
  /\ Goto(p, "configured")
  /\ Fixed /\ UNCHANGED <<stores, shared, exclusive, config_exclusive, todo, guard, all_along>>

\* merge_configured_credential_guard_until, with the configuration as it is read: one
\* that does not load has no credentials in use.
ReadConfig(p) ==
  /\ pc[p] = "configured"
  /\ LET profiles == IF config = None THEN {} ELSE config
     IN  IF \E profile \in profiles : Unusable(profile)
         THEN IF kind[p] = "snapshot"
              THEN Knows(p, DenyAll) /\ Goto(p, "done") /\ UNCHANGED locks
              ELSE Release(p) /\ Goto(p, "failed") /\ UNCHANGED guard
         ELSE /\ Knows(p, ConfiguredGuard(profiles))
              /\ Goto(p, IF kind[p] = "snapshot" THEN "done" ELSE "admit")
              /\ UNCHANGED locks
  /\ Fixed /\ UNCHANGED <<stores, todo, all_along>>

\* PreparedOutput::with_additional_guard: an output with anything in it that the guard
\* knows is refused; what is revealed has its token in it.
Admit(p) ==
  /\ pc[p] = "admit"
  /\ \/ Release(p) /\ Goto(p, "failed")
     \/ /\ kind[p] = "reveal" => Token(Disclosed) \notin guard[p]
        /\ Goto(p, "write") /\ UNCHANGED locks
  /\ Fixed /\ UNCHANGED <<stores, todo, guard, all_along>>

\* write_stdout_with_owner: the lease goes with the writer.
Written(p) ==
  /\ pc[p] = "write"
  /\ Release(p) /\ Goto(p, "done")
  /\ Fixed /\ UNCHANGED <<stores, todo, guard, all_along>>

-------------------------------------------------------------------------------
\* The writers.

\* What stays where it is.
Watched == all_along' = [p \in Procs |-> all_along[p] \cap Placed']

\* atomic_write_private: a temporary file, unfinished at first, and the rename.
Fill(p) ==
  /\ pc[p] = "fill"
  /\ \E image \in Image : ~image.whole /\ image.provider = "mine"
                          /\ temporary' = temporary \cup {image}
                          /\ todo' = [todo EXCEPT ![p] = {image}]
  /\ Goto(p, "rename")
  /\ Fixed /\ UNCHANGED <<cache, config, locks, guard, all_along>>

Rename(p) ==
  /\ pc[p] = "rename"
  /\ \E draft \in todo[p] : \E path \in Paths :
       /\ cache' = [cache EXCEPT ![path] = [draft EXCEPT !.whole = TRUE]]
       /\ temporary' = temporary \ {draft}
       /\ Knows(p, {Token(draft.token)})
  /\ todo' = [todo EXCEPT ![p] = {}]
  /\ Watched
  /\ IF kind[p] = "renew" THEN Release(p) /\ Goto(p, "done")
     ELSE Goto(p, "commit") /\ UNCHANGED locks
  /\ Fixed /\ UNCHANGED config

\* ConfigStore::modify_until, alone or within a login.
Configure(p) ==
  /\ \/ pc[p] = "start" /\ kind[p] = "configure"
     \/ pc[p] = "commit"
  /\ ConfigFree /\ config_shared = {}
  /\ config_exclusive' = {p}
  /\ Goto(p, "modify")
  /\ Fixed /\ UNCHANGED <<stores, shared, exclusive, config_shared, todo, guard, all_along>>

\* A repair of the configuration, or any change of it.
Modify(p) ==
  /\ pc[p] = "modify"
  /\ config' \in Configs \ {None}
  /\ config_exclusive' = {}
  /\ Goto(p, IF kind[p] = "login" THEN "config" ELSE "done")
  /\ Fixed /\ UNCHANGED <<cache, temporary, shared, exclusive, config_shared, todo, guard, all_along>>

-------------------------------------------------------------------------------
Ended == {"done", "failed"}

\* The deadline or a signal, at any check; a kill, at any point.
GiveUp(p) ==
  /\ pc[p] \notin Ended
  /\ Release(p) /\ Goto(p, "failed")
  /\ todo' = [todo EXCEPT ![p] = {}]
  /\ Fixed /\ UNCHANGED <<stores, guard, all_along>>

Init ==
  /\ \E setting \in Settings : environment = setting.environment /\ files = setting.files
  /\ cache \in Caches /\ temporary \in Leftovers /\ config \in Configs
  /\ kind \in Roles
  /\ pc = [p \in Procs |-> "start"]
  /\ shared = {} /\ exclusive = {} /\ config_shared = {} /\ config_exclusive = {}
  /\ todo = [p \in Procs |-> {}] /\ guard = [p \in Procs |-> {}]
  /\ all_along = [p \in Procs |-> {}]

Steps(p) ==
  \/ LockCache(p) \/ List(p) \/ ReadEntry(p) \/ Unreadable(p) \/ CacheKnown(p) \/ LockConfig(p)
  \/ ReadConfig(p) \/ Admit(p) \/ Written(p) \/ Fill(p) \/ Rename(p)
  \/ Configure(p) \/ Modify(p)

Next == \E p \in Procs : Steps(p) \/ GiveUp(p)

Spec == Init /\ [][Next]_vars /\ \A p \in Procs : WF_vars(Steps(p))

-------------------------------------------------------------------------------
Writing(p) == pc[p] = "write"

TypeOK ==
  /\ cache \in [Paths -> Image \cup {None}] /\ temporary \subseteq Image
  /\ config = None \/ config \subseteq Profiles
  /\ kind \in [Procs -> Kinds]
  /\ shared \subseteq Procs /\ exclusive \subseteq Procs
  /\ config_shared \subseteq Procs /\ config_exclusive \subseteq Procs
  /\ guard \in [Procs -> SUBSET Credential]

\* While an output is written, whatever is stored is kept out of it: what is in the
\* cache, in what killed writers left there, in the environment or in a file that a
\* profile names.  Only the token that a user asks to see is shown, and only if nothing
\* but the environment or its own image holds it.
NothingStoredShown ==
  \A p \in Procs : Writing(p) =>
    \A credential \in Stored \ guard[p] :
      /\ kind[p] = "reveal" /\ credential = Token(Disclosed)
      /\ \A path \in Paths :
           cache[path] # None /\ Token(cache[path].token) = credential
             => cache[path] = Excluded(path)
      /\ \A image \in temporary : Token(image.token) # credential

\* A snapshot without a lock misses no token that was in one place of the cache
\* throughout.  One that a second writer puts where the snapshot has been, before the
\* first takes it from where the snapshot has yet to be, it does miss.
SnapshotCovers ==
  \A p \in Procs : kind[p] = "snapshot" /\ pc[p] = "done" =>
    \A place \in all_along[p] : Token(place.token) \in guard[p]

\* The two locks are never held against each other.
EveryLeaseEnds == \A p \in Procs : <>(pc[p] \in Ended)
===============================================================================
