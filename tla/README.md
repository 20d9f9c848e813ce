# Verification of the reltio command line

TLA+ models of the parts of `reltio-cli` where several processes, failures and
files meet: what is modelled, what TLC checks on small instances, and what TLAPS
proves for every instance. Source paths below are relative to `src/`; `cli/`
stands for `crates/reltio-cli/src/` and `client/` for
`crates/reltio-client/src/`.

## 1. The system

One binary, no daemon. Every *invocation* is a short-lived process; the user or
an agent may start several at once. Invocations share files only, guarded by
advisory locks that the kernel drops when the process dies:

| file | lock | written by |
|---|---|---|
| configuration (`profiles`, `current_profile`, `pending_imported_bearer_cleanups`) | its lock file, exclusive for a change, shared while output is written | profile commands, login, logout, recovery |
| token cache, one file per cache key | `cache-maintenance.lock` (exclusive: changes; shared: token use) and one lock per key | login, logout, profile remove, recovery, token acquisition |
| rate state per token endpoint origin | its own lock | token acquisition |
| scan checkpoint | `<resume-file>.lock`, held by a scan throughout | entity scan |

There is no common commit over two files. An *imported bearer* is a token in a
cache file under a fresh random key (its *generation*); a profile points to it
by that key. Replacing or dropping the pointer *retires* the generation: the
same configuration write puts its key into `pending_imported_bearer_cleanups`,
and a recovery that runs at the start of every command but `auth logout`
deletes the image and then clears the marker.

### Inventory

| component | source | state | operations | hard behaviour | what makes it correct |
|---|---|---|---|---|---|
| Two-file transactions | `cli/commands/{auth,profile,mod}.rs` | profiles, markers, cache images, two locks | login, logout, profile add/use/update/remove, recovery, locked output | kill between commits, error after a commit, stale reads, recovery by somebody else | no pointer without image, no image without pointer or marker, truthful reports, no lost live token |
| Token cache plan | `client/auth.rs` 121-390, 3267-3351 | preimages, new images, plan state | prepare, commit, rollback, drop | failure in the middle, failing restoration | all or nothing, or it says so |
| Token acquisition | `client/auth.rs` 755-1090, 1843-2020 | cache entry, `reissued_after_rejection`, per-key lock | normal, explicit, after a rejection; persist or not | many processes with an expired token; a rejected token coming back | one acquisition per need; no endless replay |
| Token rate limit | `client/auth.rs` 1843-2109 | timestamps of the last second | reserve or wait, request, replay a 429 | clock steps, lost reservations, waiters, answers before the one that counts | never more than 10 reservations in a window; waiters progress; every answer guarded |
| Credential process | `client/auth.rs` 2219-2620 | child, process group, pipes | spawn, read, terminate, reap | deadline or signal at any await, grandchildren | no child survives; outcome known |
| Configuration store | `client/config.rs` | file, lock | `load`, `modify_until`, `read_lease_until`, target resolution | error after the rename | the file always loads |
| HTTP executor | `client/http.rs` 436-821 | attempts, replay flag, budget | send, retry, replay after 401 | ambiguous outcomes, retry and replay mixed | bounded attempts, unsafe requests sent once |
| Entity scan | `cli/commands/entity.rs` 488-975, 1474-1549 | cursor, sequence, checkpoint, resume lock | page, emit, checkpoint, resume | kill between output and checkpoint; a writer thread outliving its await | resumed scans repeat but never skip |
| Entity reads | `cli/commands/entity.rs` 57-486, `client/entities.rs` | none | get, by-crosswalk, search, history, matches | full page at a result boundary; a signal between answer and output | nothing missed untold; warnings before data; errors true to the answer |
| Command control | `client/cancellation.rs`, `cli/main.rs` 203-330, `cli/output.rs` 107-400 | event stamps, tokens | first signal, forced second signal, deadline, late results | simultaneous completion and cancellation | the reported outcome is the one that came first |
| Output | `cli/output.rs`, `cli/commands/mod.rs` 85-146, 313-520 | prepared bytes, leases, tail of what was written | collect the guard, admit, emit | credentials changing under the check; a credential split over two emissions | the bytes written were checked against every credential in the files |
| Private files | `client/{fs,unix_fs}.rs` | guarded directories, temporary file | read, replace, remove, lock | kill around the rename, failing directory sync | old or new content, and which one is said |
| Hidden input | `cli/commands/auth.rs` 1319-1643 | terminal modes | read secret | signal while echo is off | echo is restored |
| Raw API | `cli/commands/api.rs` | input reader thread | preflight, request, output | reader against deadline; a query read twice | as command control; what is not reviewed is never called safe |
| Redaction | `client/{redaction,streaming_redaction}.rs` | secret patterns, tail window | match, redact | matches across chunks | no secret passes |
| Doctor, auth reports | `cli/commands/{doctor,auth}.rs` | checks, first failure | doctor, auth status, check, token | files that change between two checks | the report is of what was found |
| Discovery | `cli/commands/discovery.rs` | none | listings | none | - |
| Registry, services, release contract | `client/{registry,service,release_contract}.rs`, `cli/{release,metadata,audit}.rs`, `crates/reltio-client/build.rs` | catalogue fixed at build time | lookups, validation | a path that two readers read differently | endpoint, tenant and URL of a request agree |
| Windows security | `crates/reltio-windows-security` | handles | FFI | operating system | - |

Interactions: `main.rs` runs the dispatched command against the deadline and the
signal; dispatch runs the recovery, then the command; commands call the token
manager (cache, rate limit, credential process), the HTTP executor (which calls
the token manager back after a 401) and the configuration store; all output goes
through `emit_prepared`, which takes maintenance and then the configuration lock
shared. Every two-lock path takes maintenance before configuration. `PROJECT.json`
lists the hazards, each at its line, with the properties that cover it.

## 2. The modules

| module | kind | what it is |
|---|---|---|
| `BearerTransactions` | model | invocations, the two files, the two locks |
| `CachePlan` | model | a cache plan file by file |
| `CacheTransaction` | abstract specification | what a plan promises the next lock holder |
| `TokenAcquisition` | model | invocations sharing one provider token: acquisitions, a 401, managed logins, logouts |
| `TokenStore` | abstract specification | the cached token as whoever holds a lock sees it |
| `TokenRateLimit` | model | the throttle of the token endpoint and the token request around it |
| `CredentialProcess` | model | a broker, its descendant, its pipe and its cleanup |
| `HiddenInput` | model | a secret read from a terminal, a console or a pipe |
| `PrivateFiles` | model | a private file replaced, read, locked and cleared, with kills and power losses |
| `HttpExecute` | model | one API request, attempt by attempt |
| `EntityRequests` | functions | what the entity validators and the raw preflight refuse |
| `EntityReads` | model | the entity commands that send one request, and a caller that follows pages |
| `EntityScan` | model | a scan with its resume file |
| `ApiCommand` | model | `api request` with the thread that reads its body |
| `RequestRoute` | functions | path argument to URL, endpoint and tenant |
| `TargetResolution` | model | profile, environment and flags to a target and its credentials |
| `CommandControl` | model | signals, deadline, writer thread, exit status |
| `OutputLease` | model | the locks under which the guard of an output is collected, against other commands |
| `OutputStream` | model | that guard over an output in many emissions |
| `Diagnostics` | model | doctor, auth status, auth check, auth token |
| `BearerTransactionsProofs`, `BearerImagesProofs` | proofs | types, locks, the file that loads; then the agreement of the two files, reports, removals, recovery |
| `CachePlanProofs`, `TokenAcquisitionProofs` | proofs | the two refinements and what they rest on |
| `HttpExecuteProofs` | proofs | reports, unsafe requests, cancellation |
| `MCRequestsProofs`, `MCLoginProofs`, `MCCommandsProofs` | proofs | the parts of the three composites, one section each |
| `MCBearerTransactions`, `MCBearerScripts`, `MCTokenAcquisition`, `MCTokenShared` | instances | values of the constants, initial states, the commands a run allows |
| `MCLogin` | composite | `CachePlan`, `CredentialProcess`, `HiddenInput`, `PrivateFiles` |
| `MCRequests` | composite | `HttpExecute`, `TokenRateLimit`, `EntityReads` with `EntityRequests` |
| `MCCommands` | composite | `EntityScan`, `CommandControl`, `ApiCommand`, `OutputStream`, `RequestRoute`, `TargetResolution`, `OutputLease`, `Diagnostics` |

The three composites put models that share no state into one run each: the
variable `part` chooses one, a behaviour is of that part, and the others rest in
one fixed state. So the state spaces add up instead of multiplying, and every
invariant of a part is checked in all of its states. Where one model uses what
another one describes (a request, a guard, an atomic write), it has it as one
step with the outcomes that the other model shows.

A definition commented *Seeded fault* is not a part of the model: it is the form
the next definition would have with a plausible bug, and stands in for it when a
property is put to the test (section 3).

### BearerTransactions

A process of `Procs` is an invocation. `pc` is its control point, `job` its
command and profile, `mem` the locals that live across steps (the
authentication read before any lock, the wanted one, the retired keys, the plan's
preimages and image, the recovery's snapshot), `report` what its final error or
success says of the local state, `wrote` and `got` are history.

| in the model | in the code |
|---|---|
| `config.profile[n]` | `profiles[n].auth`: `NoAuth`, `Managed` (client credentials, credential process) or a bearer generation's key; `Absent`: no such profile |
| `config.pending[n]` | `pending_imported_bearer_cleanups[n]`; `{}` is a missing entry (the code never stores an empty one; `MarkerIs` keeps the difference where it matters) |
| `cache[k]` | the file of key `k`; its content is named by the process that wrote it, so an equal image is an identical file |
| `maint`, `configLock`, `outputs` | `cache-maintenance.lock`, the configuration lock held exclusively between steps, its shared holders |
| `Launch`, `Recover*` | `dispatch` and `recover_pending_imported_bearer_cleanups_sync` (`cli/commands/mod.rs` 190-241, 763-875) |
| `Load` ... `LoginDone*` | `login`, `commit_auth_profile` (`cli/commands/auth.rs` 62-605) |
| `ChangeWrite` | `commit_profile_change` with add, use, update (`cli/commands/profile.rs` 77-148, 538-607, 692-805) |
| `Remove*` | profile remove and its compensation (`profile.rs` 149-409, 457-536) |
| `Logout*` | `logout`, `clear_token_cache` (`auth.rs` 1049-1157, `client/auth.rs` 3946-4069) |
| `ReadCache` | the cached path of `token_inner` (`client/auth.rs` 777-818) |
| `Emit*` | `emit_prepared`, `emit_prepared_with_owner` (`mod.rs` 420-446) |
| `Finish` | the command's future returns; its leases and plans are dropped |
| `Crash` | the process is killed; the kernel drops its locks; a plan at work leaves any of its files changed |

Abstractions, and why they keep the answers:

* A `modify_until` is one step, since nobody sees the file while its exclusive
  lock is held and the write is a rename. The recovery commits its cache plan
  inside such a call, so there the lock is a variable and the call two steps
  more. Each write has the outcomes success, refused before the commit point,
  and error *after* it (`committed: true`).
* Cancellation and the deadline are the choice of a refusal at every check the
  code makes. No check follows the one that refuses, except in a compensation,
  which ignores both.
* A cache plan is one step with the outcomes that `CachePlan` establishes:
  installed, restored, or any mixture reported as uncertain.
* A new generation is a key no file and no process knows (32 random bytes).
* Profile fields other than the authentication are not modelled: a change of
  them makes a login or a removal conflict, which `LoginRefuseConfig` and
  `RemoveConfigFails` allow at any time anyway.
* A login's own recovery skips a marker another update has extended since its
  snapshot, so the generation it retired may outlive it, marked; `RecoveryHeals`
  and `ImagesAgree` show that the next undisturbed recovery removes it.
* `mem[p].rested` is history of a recovery: the invocations that had ended when it
  read the markers. It is forgotten when the recovery has ended.
* `auth status`, `auth check`, `auth token` and the API commands change neither
  pointers nor markers; `read` stands for those that use a cached token.

### CachePlan and CacheTransaction

`CachePlan` follows `commit_controlled` (install each image, checks before and
after each, restore the touched prefix in reverse, verify all),
`rollback`, the drop of a plan and a kill at every step. `install_cache_image`
may fail before or after it changed the file. `CacheTransaction` says what the
next holder of the lock may find: every file new (`kept`), every file old
(`restored`), or any mixture, and then the outcome does not claim otherwise
(`uncertain`, `killed`). The refinement mapping shows the files only once the
plan has ended, since the plan owns the lock until then.

### TokenAcquisition and TokenStore

One cache key, any number of invocations. Both locks are read off the control
points, since each ends with the invocation that holds it: `Acquiring` holds the
maintenance lock shared, `Asking` also the key's lock, `Installing` the
maintenance lock exclusively.

| in the model | in the code |
|---|---|
| `cache` | the cache file of the key: secret, `obtained_at`, `expires_at`, `reissued_after_rejection` |
| `mode`, `token` | `TokenAcquisition`; the token in hand, which is the rejected one in mode `rejected` |
| `prior` | `prior_cached` of `token_inner`; the preimage in a login's plan |
| `issued`, `live`, `reply` | the provider, external: it may return its current token early, with a lifetime that agrees with the first or a full one, or issue a new one |
| `TakeMaint`, `Reuse`, `RefuseMarked`, `Ask` | `token_inner` up to the request (`client/auth.rs` 775-870) |
| `Received`, `TooLate`, `StoreUnchanged`, `StoreNew`, `Hold` | what it makes of the answer (872-928) |
| `Rejected` | the one replay after a 401 (`client/http.rs` 637-672) |
| `LockForLogin`, `Install`, `Keep`, `TakeBack` | `prepare_managed_login_until`, the plan's commit, the profile's commit and the rollback |
| `Logout` | `clear_token_cache`, for this key |
| `Abandon` | deadline, signal, kill, an error that leaves the cache alone |

`now` is the wall clock in steps and does not go back; the code's wall-clock
comparisons under a stepping clock are not modelled here. `stopped` is history:
the secrets whose reissue was recorded. A provider's answer is received at a
later instant than it was given, so an answer can be stale by the time it is
stored. A cache write is one step (a rename), with success, failure before it
(`Abandon`) and failure after it. A login's plan has one file, so its commit is one
step by `CachePlan`. The 429 retry and the local rate limit lie inside the wait
between `Ask` and `Answer`.

`TokenStore` has a slot and the candidates of logins. `Renew` is the whole of
read, ask, cap and write in one step, `Hold` and `Replace` a login's two halves.
The mapping shows the slot as it was before a login's commit until the login has
kept or taken back its image, because the login has the maintenance lock until
then.

### TokenRateLimit

`wait_for_token_rate_limit` and `acquire_client_credentials` (`client/auth.rs`
1843-2108). `file` holds the ages of the reservations by the wall clock, `recent`
(history) by a true one, so that the clocks run forever in a finite state.
`LookRefused`, `LookRoom` and `LookFull` are the look at the file under its lock,
`Commit` and `CommitFails` the write (a failed one may have happened), `Rested`
the end of a sleep; `Send` ... `Accepted` the request and its one replay after a 429;
`Kill` anywhere. `guard` is `prior_response_guard`: which answers of this acquisition
it keeps out of any output, all of them if a body was left out. `Finish` is what the
acquisition gives back, with its guard; `bared` is history: that guard misses an answer
which came. `SetBack` moves the
wall clock back, `MaxBack` in all. A clock that jumps forward is not modelled: it
ages reservations too fast, and the throttle then counts from the jump.

### CredentialProcess

`client/auth.rs` 2219-2620 on both platforms. `root` and `kid` are the broker and a
descendant that holds its pipe, `group` the armed process group or Job, `late` the
deadline; `Spawn`, `Assign`, `Resume` start it (suspended on Windows),
`CollectExit` and `CollectOutput` come in either order, `Answer` decides,
`TerminateRoot`, `Terminate`, `Reap` and the second of grace clean up, `Cut` and
`Drop` are a future that is dropped at any await. A descendant that leaves its group
on Unix escapes, as the documentation says, and so does it in the model. Reuse of
process numbers is not modelled; the termination in `Drop` is assumed to work.

### HiddenInput

`cli/commands/auth.rs` 1244-1624 and the console of
`crates/reltio-windows-security`: the thread that reads (`OpenTerminal`, `Hide`,
`Check`, `ReadLine`, `Restore`; `ReadKeys` and `Flush` of the console; `ReadPipe`),
the command that waits for it (`Take`, `GiveUpPipe`), and `Leave`, by which a second
signal ends the process. `leftover` tells whether what is still in the terminal was
typed for the secret.

### PrivateFiles

`client/unix_fs.rs` and the clear of the cache (`client/auth.rs` 3940-4069).
`history` is what the name has stood for, one entry per change, and `synced` how
much of it the last sync of the directory made durable; a power loss goes back to
any entry from there on and tears files that were not synced. Files that a reader
has open keep their content (`seen`). Writers hold the lock (`handle` is the lock
file they opened, `lockFile` the one that is there). A directory's own entry is
synced by its creator. Permissions, ACLs, links, size limits and directories that
are moved away are not modelled.

### HttpExecute

`HttpClient::execute_until` and what it calls (`client/http.rs` 436-1705). `pc` has
the awaits; `left` is the time to the deadline, which any wait may use up; `wire` and
`acts` are the server, external; `broker` is the credential process as far as a cut
one matters. `Report` is what the final error says: kind, remote operation,
`safe_to_replay`, retryable. `Replay` is a caller who believes it.

### EntityRequests and EntityReads

`EntityRequests` has the validators of the typed commands (`client/entities.rs`),
the query or body that each sends, and the preflight of a raw request to the same
endpoints (`cli/commands/api.rs` 1369-1894), as functions over classes of texts.
`EntityReads` is the five commands that send one request
(`cli/commands/entity.rs` 57-486): validation, the request in one step, the shape of
the answer, warnings, output, with a signal or the deadline at every point, and the
caller who goes on from page to page (`GoOn`). What there is to find does not change
meanwhile. A raw request's numbers are classes, its default `max` is scaled to pages
that fit the bounds. Both `ovOnly` and `nonOvOnly` are accepted by `get`, as in the
code, and refused by the others.

### EntityScan

`entity scan --resume-file` (`cli/commands/entity.rs` 488-1739). `artifact` is the output of all runs together, `resume` the file;
`scan[p]` the local variables, `thread[p]` the checkpoint writer, which shares the
lock with the scan and may outlive it. `Load` ... `Summary` follow one page through
request, emission, commit and await; `Exit` is the end of the process or a kill. A
signal and the deadline are one `Stop`. Without a resume file there is nothing to
resume: not modelled.

### ApiCommand and RequestRoute

`ApiCommand` is `api request` (`cli/commands/api.rs` 48-1518): what is
refused before the body is read and before anything is sent, the reading thread with
its stamp, the dry run, the request in one step and the steps after the answer. A
query is a class: the endpoint knows all its keys, knows some not (it is sent as partly
reviewed, and never replayed), has options (of a scan) or keys that override the body
(of a search), or is refused.
`RequestRoute` (`client/service.rs`, `client/registry.rs`) decodes a path as the code
does and as servers may: not at all, once, twice, before or after it is cut at its
slashes. Words stand for what they are in the registry; invalid UTF-8 is left out.

### TargetResolution

`resolve_target` and the credentials that go with it (`client/config.rs`,
`cli/commands/{mod,profile,auth}.rs`), for one selected profile and every flag and
variable; `home` is the route for which the stored authentication was set up. Auth
URLs are literal; a service URL is a proxy with the tenant at its end.

### CommandControl, OutputLease, OutputStream

`CommandControl` has `run_command_with_control` (`cli/main.rs`), the command, and the
writer thread of `write_controlled` (`cli/output.rs`) on one clock whose readings are
ordered by a shared sequence (`client/cancellation.rs`). Every select is one look at
its branches.

`OutputLease` is how the guard comes about: the cache lock, the directory listed,
every image and every temporary read, the configuration lock, the profiles' secret
files, the last check, the write (`cli/commands/mod.rs` 85-385, `client/auth.rs`);
next to renewals, logins and profile changes, killed anywhere; and the snapshot that
takes no lock. Secret files do not change while a command runs.

`OutputStream` is the guard over many emissions (`client/redaction.rs`,
`cli/output.rs` 107-330): the tail, its limit, the windows around encoding syntax
and two layers of decoding, over an alphabet in which one layer makes two bytes of
one. The form encoding, the guard that denies everything and the redaction of JSON
values are not in it.

### Diagnostics

`doctor`, `auth status`, `auth check`, `auth token`
(`cli/commands/{doctor,auth}.rs`): the checks in their order, the errors of those
that failed, whether there is a token manager (`manager`), and what goes into the
report. A `token` cancelled after its lease says that nothing was sent even if the token
was acquired a moment before (`cli/commands/auth.rs:1010`), and doctor reports a read
that it skips for want of a manager (`doctor.rs:315`). The model does both, and the
property names both as exceptions (section 6).

## 3. Properties

Each safety property of a composite run is a conjunction of parts that its module
names and comments; `PROJECT.json` gives the hazards.

| property | says | hazard |
|---|---|---|
| `ConfigLoads` | the file always passes the checks `load()` makes | one bad write of six writers |
| `ImagesAgree` | `PointerBacked`: a bearer pointer has its image, unless a logout is between clearing the images and the pointers; `NoStrandedImage`: an image is pointed to or marked, unless a login was killed between its commits or said it could not restore; `ReadCommitted`: nobody is handed a token of a login that reports it took it back | two files, no common commit; lost generations; a staged image visible |
| `ReportsTruthful` | what an error or success says of profile and cache is what happened | partial failure |
| `NoLiveImageDeleted` | an active generation's image disappears only in a logout | stale snapshot, rollback after the commit point |
| `ScriptsHonest` | the last two, with two profiles or three invocations | recovery and logout walk over all markers |
| `OutputIsolated` | neither file changes while an invocation writes its output | check-then-write |
| `RemovalComplete` | a removal that reports success left neither image nor marker | three commits in order |
| `RecoveryHeals` | a recovery that ends well leaves no marker, whether it asks for a rerun, lets the command go on or goes on to its output; every other invocation had ended (killed ones too) when it read the markers, or has not changed the configuration | crash between two commits; a snapshot of the markers |
| `EveryInvocationEnds` | what is launched ends, without a timeout's help | lock order, a plan kept too long |
| `Progress` | what each file of a plan holds at each control point | failure in the middle |
| `PlanIsTransaction` | `CachePlan` implements `CacheTransaction` | failing restoration |
| `PriorIsCurrent` | what an acquisition or login read before its awaits is still in the file when it acts on it | a value read before an await |
| `LoopStops` | after a recorded reissue no process asks for that token again while the entry stands and is usable | retry of what was already refused |
| `RenewalIsAtomic` | `TokenAcquisition` implements `TokenStore` | overlapping acquisitions, a reissued token made younger |
| `RateInv` | never more than `Limit` reservations in a window of true time, clock set back or not; the file stays usable; each send has its reservation | a window off by one, a lost reservation |
| `AnswersGuarded` | what an acquisition gives back, a token or an error, has the guard of every answer it got; but for the throttle's own errors before the replay | a replay that ends in its wait, its send, its body or the deadline |
| `UnsafeOnce` | the server takes an unsafe request at most once, also if the caller replays what it is told is safe | transport errors, 401, statuses, cuts |
| `HttpInv` | attempts are bounded; what an error says of the remote side is so; a cut broker is said | retries mixed with a replay |
| `CancelWins` | after a signal nothing is sent and the request does not succeed | a check before each await |
| `ReadsInv` | nothing between two pages is missed untold; warnings precede data; an error tells whether there was an answer; a raw request gets no review that its typed form would be refused | full page at the boundary, query read twice |
| `EveryCallEnds` | requests, acquisitions and their waits end | deadline at every await |
| `BrokerInv` | nothing that stayed in the group outlives an acquisition; the broker is reaped | exit, output and deadline in any order |
| `PromptInv` | the echo is back, and what was typed for the secret is not left to the shell, when the command goes on | signals while the echo is off |
| `StoreInv` | a reader gets whole images; what was acknowledged lasts; a writer has its lock to itself; reports are true | rename, sync, kill, power loss |
| `ClearsAll` | a clear that succeeds leaves no image and no temporary | a killed writer's leftovers |
| `EveryPartEnds` | broker, prompt and file operations end | hanging processes and users |
| `ScanInv` | what is resumed skips nothing; a repeated item has the same sequence number; "safe to replay" and "committed" are so; one run keeps its bounds | kill between emission and checkpoint |
| `ProgressKept` | the resume file never goes back, whichever thread writes it | a writer that outlives its scan |
| `StatusInv` | success means done in time; a signal that came first decides the status | simultaneous completion |
| `GuardedWrites` | a byte goes out only while the guard knows every stored credential | a writer thread given up on |
| `RawInv` | a body used came before the event that would have stopped it; only a reviewed read with a reviewed query, and no continuation of a scan, is called safe to replay; what an error says of the answer is so; only reads bound to the tenant are sent, a search never with keys that override its body | a reader thread against the deadline; a query known in part |
| `StreamGuarded` | no emission completes a credential, in plain or encoded form, that its guard knows | split over emissions |
| `RoutingInv` | every reading of an accepted path leads to the same endpoint and tenant; stored credentials go to the route they were stored for only | escaped paths; overrides |
| `LeaseInv` | who writes under both locks knows every stored credential but the one the user asked for; a snapshot misses nothing that stayed in one place | images renamed while they are listed |
| `DiagnosisInv` | "healthy" means every check done and passed; the first failure is the one reported; nothing is reported of what was not asked or has no target; without a token manager the credential and the read are at most failures, and nothing is sent; a token goes out only as asked | checks that go on after a failure |
| `EveryCommandEnds` | scans, hanging output, raw requests and lock waits end | threads that outlive a select |

Every property of a passing run can be broken: an operator commented *Seeded
fault* next to the definition it replaces is the form a plausible bug would give it,
and under it TLC finds the property violated. Some seeded faults drop an action
(`FALSE /\ UNCHANGED vars`), which stands for a branch that the code would lack.

## 4. Runs

| run | instance | distinct states | result |
|---|---|---|---|
| `BearerTwo` | 2 invocations, any commands, 1 profile, 3 generations, every legal start | ~0.83 million (symmetric) | passes |
| `BearerScripts` | 2 invocations on 2 profiles (login, remove, logout; change, remove, read), and 3 on one (login; login or remove; read or logout) | ~1.05 million (symmetric) | passes |
| `BearerFair` | 2 invocations, 2 generations, weak fairness, no symmetry | ~0.38 million | passes |
| `TokenShared` | 2 invocations and 2 tokens, or 3 and 1; lifetime 3, skew 1, clock to 3 | ~0.65 million (symmetric) | passes |
| `Requests` | `HttpExecute`: budgets 0, 4 and 4096 s, 3 runs by the caller; `TokenRateLimit`: 2 clients, 2 reservations, clock back by 2; `EntityReads`: all commands with up to two parameters varied | ~0.45 million | passes |
| `Login` | plan of 3 files and 3 contents; broker on both platforms; terminal, console, pipe; 2 processes, 2 changes, 1 fault on a private file | ~0.23 million | passes |
| `Commands` | scan: 2 processes, 4 objects; output of 2 chunks; 331 raw requests; outputs of 5 bytes; paths of 3 segments; 2 hosts and 2 tenants; 2 invocations and 2 images under the locks; 23 reports | ~0.39 million | passes |
| `Compensation`, `LogoutLogin`, `LogoutCancelled` | 2 invocations, 1 profile | - | violated, see section 6 |
| `TokenReplayed`, `LoginExtends` | 2 invocations, 1 token, clock to 2 | - | violated, see section 6 |

Why the bounds are enough. Each two-file transaction has at most two commits and a
recovery, and each invariant relates one profile to one image; a conflict
needs one actor to read, a second to change, and the first to act on what it
read, so two invocations show every pairwise race; the third in `BearerScripts`
observes or clears what the two others make of it. Three generations are one
active, one already marked, one new; with two logins the third is the second
new one. The second profile matters in recovery and logout only, which work
through all markers. A plan of three files has a first, a middle and a last one.
What two invocations cannot show is the subject of the proofs. An invocation
runs one command: a longer life would be a new invocation, since nothing but the
files survives.

In `TokenShared` one token suffices for the reissue and two for a real replacement;
the third invocation is the one that waits while two others renew. Clock and
lifetimes let a token become unusable while it is cached, while its answer is on
its way and while a login holds it as a candidate. `MaxTime` bounds the clock in
the guard of `Tick`. The source without the cap is in `TokenReplayed` and the proofs.

In `Requests`, 4096 seconds are room for all twelve attempts of a 503 with their
backoffs, 4 end the request in a backoff, 0 before it starts; `Instants` and
`Delays` have one value that fits and one that does not; three runs are a replay and
a replay of that. Two reservations per window distinguish the limit from the
limit's neighbours as ten do, the window only enters by comparison with ages. The
boundaries (5 and 3 results), page sizes and totals (to 6) put a full page before,
at and behind the boundary; parameters are refused one by one or in pairs by every
validator, so pairs of them show each conjunction.

In `Commands`, four objects on pages of two are a first page, a last one and an empty
one, `--max-items` 3 cuts a page, every second page is a checkpoint. Chunks are
written one or none, some or all. Five bytes hold a credential of two bytes, its
encoding split at every place, and the tail that is kept (`Retention` 2 is less
than the radius of the patterns, so that it has to grow). Three segments are a base, a word and what follows
it, in any spelling of the words. In `Login` two changes are an
image replaced and cleared; one kill or power loss hits each of their steps.

The bounds of counters are guards of the actions that count (`MaxTime`, `MaxBack`,
`MaxRuns`, `MaxChanges`, `MaxFaults`, `MaxLength`). The two
action constraints of `BearerScripts` are a conjunct of its specification, which says
which invocation runs which commands. `CHECK_DEADLOCK FALSE` where all that
was started may have ended; `TokenShared` checks for deadlocks.

Symmetry: `Procs` and `Keys` are permuted in `BearerTwo`, three keys
alone in `BearerScripts` (its specification names the processes); no property
names one of them; `Clients` and `Secrets` in `TokenShared`
for the same reason. The runs with liveness properties have no symmetry.

### Fairness

Every fair action is one that the code takes by itself when the machine goes on; no
failure, signal, answer, launch or kill is promised.

* `BearerTransactions`: `WF(Step(p))`: the steps the code takes when
  nothing fails (`Advance`) and the refusals forced by what it finds
  (`MustRefuse`). Nobody is promised a lock: locks are polled with `try_lock`, so weak
  fairness gives one to a waiter only if it stays free, which is enough because every
  invocation runs one command and ends. With invocations arriving forever a
  waiter would end by its deadline.
* `OutputLease`: `WF(Steps(p))` in the same way; `PrivateFiles`: `WF(Step(p))`.
* `HttpExecute`: `WF(Forced)`, what the client does when nothing fails, and `WF(Wait)`,
  time. The server may never answer.
* `TokenRateLimit`: `WF(Tick)` and `WF(Forced(c))`. The endpoint may never answer.
* `EntityScan`: `WF(Forced(p))` and `WF(Stop(p))`: the deadline comes. Server, output and
  disk may hang.
* `CommandControl`: `WF(Main)`, `WF(Pass)` while it runs, and for its output the two
  threads' bookkeeping; work and the write itself may hang.
* `ApiCommand`: `WF(Command)`, `WF(Reader)`, `WF(Pass)`; standard input may hang.
* `CredentialProcess`: `WF(Acquire)`, `WF(Deadline)`; the processes may hang, killed
  ones included. `HiddenInput`: `WF(Thread \/ Command)`, `WF(Deadline)`; the user may type
  nothing.

In the composites these conditions are joined by disjunction where they
quantify over the same process: a behaviour is of one part, in which the other disjuncts are never enabled.

## 5. Proofs

Every safety property that a passing run checks, with two exceptions named at the end
of this section, is a theorem: it holds for every value of the constants that the
named assumptions allow, not for the instance of the run only.

### Assumptions

The proofs take nothing on trust but what the modules assume by name of their constants:

| assumption | says | because |
|---|---|---|
| `ProcsAssumption`, `KeysAssumption`, `ManagedAssumption` | no process is `None` or `Boot`; two profiles share no generation; a managed provider's key, and a word for "no key", is no generation | a key is a hash that includes the profile; its file name is not a word |
| `NAssumption`, `ConstantsAssumption`, `TimesAssumption`, `RateAssumption`, `ScanAssumption`, `OutputAssumption`, `BoundsAssumption` | counts, times, sizes are natural numbers, and positive where the code has a positive constant or clamps; a client is not `"nobody"` | unsigned integers and constants |
| `AbsentAssumption`, `LeaseAssumption`, `NamesAssumption` | the model's words for "nothing" are no entry, image, path or temporary name; a snapshot's own file is a path; the contents of the stores have their types | `Option`, types |
| `RequestsAssumption`, `ReadsAssumption`, `InvocationsAssumption`, `BrokersAssumption` | the requests, reads, diagnoses and platforms a run picks are of the sets the model defines | types |
| `RoutingAssumption` | segments are sequences of atoms; a route's fields are of the sets it is made of | types |

### Theorems

| module | theorem | property | for every |
|---|---|---|---|
| `BearerTransactionsProofs` | `TypeCorrect`, `ConfigAlwaysLoads`, `OutputIsIsolated` | `TypeOK`, `ConfigLoads`, `OutputIsolated` | number of invocations, profiles, generations |
| `BearerImagesProofs` | `ImagesAndPointersAgree`, `LiveImagesAreKept`, `ReportsAreTruthful`, `RemovalsAreComplete`, `RecoveriesHeal` | `ImagesAgree`, `NoLiveImageDeleted`, `ReportsTruthful`, `RemovalComplete`, `RecoveryHeals` | the same |
| `CachePlanProofs` | `Progressing`, `PlanRefinesTransaction` | `Progress`, `PlanIsTransaction` | number of files, set of contents |
| `TokenAcquisitionProofs` | `TypeCorrect`, `NothingStale`, `LoopAlwaysStops`, `RenewalsAreAtomic` | `TypeOK`, `PriorIsCurrent`, `LoopStops`, `RenewalIsAtomic` | number of invocations and tokens, lifetime, skew, either source |
| `HttpExecuteProofs` | `ReportsAreHonest`, `UnsafeSentOnce`, `SignalEndsRequest` | `HttpInv`, `UnsafeOnce`, `CancelWins` | budgets, instants, delays, number of replays |
| `MCRequestsProofs` | `RequestsAreThrottled`, `AnswersAreGuarded` | `RateInv`, `AnswersGuarded` | number of clients, limit, window, timeout, waits, amount by which the clock is set back |
| | `TypedRequestsAreReviewed` | (a part of `ReadsInv`) | boundaries, page limit; all of `Typed` |
| | `ReadsAreHonest` | `ReadsInv` | the same, number of results |
| `MCLoginProofs` | `BrokersAreEnded` | `BrokerInv` | platforms |
| | `PromptIsRestored` | `PromptInv` | sources of the secret |
| | `FilesAreWhole`, `ClearedIsEmpty` | `StoreInv`, `ClearsAll` | number of processes, temporary names, changes, faults |
| `MCCommandsProofs` | `StatusTellsTheEnd`, `WritesAreGuarded` | `StatusInv`, `GuardedWrites` | number of chunks |
| | `RawRequestsAreHonest` | `RawInv` | set of requests |
| | `DiagnosesAreTrue` | `DiagnosisInv` | set of invocations |
| | `OutputsAreGuarded` | `LeaseInv` | number of processes, paths, tokens, secret files, profiles, settings, roles, contents of the stores |
| | `ScansResume`, `ResumeFileAdvances` | `ScanInv`, `ProgressKept` | number of objects and processes, page size, bounds, checkpoint distance |
| | `RoutesAreCertain` | `RoutingInv` | set of segments over the atoms, length of a path, hosts, tenants, routes |

A theorem about a part of a composite speaks of the composite's specification, as its
run does. Each section has a lemma that a step of another part leaves the part's
variables as they are (`RawRestsElsewhere`, `BrokerRestsElsewhere`, ...), and then goes on
with the part's own steps, one lemma per action or group of actions.

### The inductive invariants

Few of the properties are inductive as they stand. What each lacks, and what is added:

* **`IInv == TypeOK /\ Remembers /\ LocksHeld /\ ConfigLoads`**
  (`BearerTransactions`). A step writes what the process remembers (`mem[p].to`,
  `mem[p].auth`) into the configuration, and those fields have a wider type before they
  are set; `Remembers` says what they hold at the control points that use them. The
  compensation puts `mem[p].auth` back and must take exactly its key out of the marker,
  the login is the one writer whose result `validate_config` may refuse.
  `OutputIsolated` follows from `LocksHeld`: an invocation that writes the cache owns
  `maint`, one that writes the configuration finds no shared holder, and whoever is
  emitting owns the first and is one of the second.
* **`ImagesInv == IInv /\ Agree`** (`BearerImagesProofs`). `Agree` says of each
  invocation where it is in its command (`StageOf`), that the generations it remembers
  are of its profile (`PlacedOf`), which keys its plan covers and that the plan is
  wholly applied or not at all between two steps (`ShapeOf`, `PlanOf`), that a recovery
  deletes what the file marks and nothing that it points to (`MarkOf`), that a
  new generation is known to its login only, until its commit (`WantsOf`), and whose
  images may be seen (`WriterOf`); `RemovalOf` carries the one profile that is in no
  file, between a removal's two commits. `HealsOf` is about a recovery: those that had
  ended when it read the markers have still ended, and as long as nobody else has changed
  the configuration since, the markers in the file are those it has still to work
  through. The maintenance lock keeps everybody else
  from the cache while a plan is open, so its preimages stay current; a key that is
  marked is active nowhere, since generations are not used again.
* **`TypeOK /\ Progress`** (`CachePlan`). Each step maps to `Keep`, `Restore`,
  `GiveUp` or a stutter of `CacheTransaction`; the verification's `i` shows that a plan
  that reports `restored` has read every file as its preimage.
* **`TypeOK /\ Locks /\ Written /\ PriorIsCurrent /\ LoopStops`**
  (`TokenAcquisition`). A writer of the cache is an acquisition with the key's lock, and
  then no other one is between its read and its write, or a login or logout with the
  maintenance lock, and then nobody is. `Written`: a secret in `stopped` is the one in
  the cache, with the mark. The refinement goes action by action; a write by an
  acquisition is a `Renew` since `PriorIsCurrent` makes the entry that capped it the
  slot's content.
* **`HttpInv /\ UnsafeOnce`** (`HttpExecute`) are inductive together: `UnsafeOnce` alone
  lacks what `HttpInv` says, per control point, of what has been sent and which of the
  two extra sends is spent (`Unsent`, `Spent`).
* **`RateInvariant`** (`TokenRateLimit`). The file need not be sorted, once the clock
  was set back, nor complete. `FileCovers` says that the young reservations have each an
  entry of its own in the file, none older than the reservation: an injection. A window of
  the true clock has therefore at most as many reservations as the file has entries,
  and a reservation is made only when fewer than the limit are young. `DraftCovers` says
  the same of what the holder of the lock is about to write.
* **`ReadsInvariant`** (`EntityReads`): what was told, written and said from step to
  step (`ReadOrder`), and that the results seen so far are all from the first one up to
  the offset reached (`SeenInOrder`). Under it lies `TypedRequestsAreReviewed`, which
  goes operation by operation over what a request holds and what the preflight makes of it.
* **`BrokerInvariant`**: while anything may run it runs in an armed group, or what was
  started is dead. **`PromptInvariant`**: the echo is off only between the settings
  being kept and restored. **`StoreInvariant`**: a writer's temporary file is synced before
  it is renamed, what was acknowledged is synced, a reader opened a file no older than
  what was acknowledged before, an operation knows what it has changed.
* **`ControlInv`**: each event has drawn one stamp, no later than now; who holds the
  lease; a success of the thread is the whole output. **`RawInvariant`**: the same stamps
  for the reader, that what was refused does not go on, and `ReplayHonest` itself.
  **`DiagnosisInvariant`**: which checks have a result at each control point, that there is
  a manager where one is used, and that the first error is kept exactly if one has failed.
* **`LeaseInvariant`**: under the cache's lock each image is known, still to read, or the
  one that may be shown; then what the environment and the configuration hold is known;
  a snapshot has still to read what it does not know and what is where it was.
* **`ScanInvariant`**: the output holds object `n` under number `n`; what the resume file
  and each scan have counted is written; whoever holds the lock is ahead of the file once
  it has read it; a thread is there while its scan waits, or once it was given up.
* **`RouteInvariant`** holds of each request that is sent: every reader decodes its
  segments alike (`Steady`), since no escape that is left stands for a separator, a dot
  or an escape; a path that matches two patterns names them in one order
  (`NoTwoClaim`). **`TargetInvariant`**: what authenticates was set up for the route
  that the profile has.

TLC found each of these to hold on its run's instance before it was proved.

### What the proofs changed

* `LeaseInv`'s statement about the snapshot that takes no locks said that it misses
  nothing that was there throughout. That is wrong with two writers: an image may move to
  a temporary name and back between the listing and the reads. It now says, and the code
  gives, nothing that stayed in one place (`SnapshotCovers`, `Placed`).
* `AllOrTold` of `EntityReads` exempted what is before the offset of the last page, which
  a gap between two pages is too. It now exempts only what is before everything seen.
* A history's one option is a flag; `Typed` says so, and the reads range over it.
* `MaxRuns` has to be positive, and `None` must be no key.
* Some definitions were put in a form that can be reasoned about, with the same
  meaning: the retained entries of the throttle without `SelectSeq`, runs of near bytes
  as a set of windows, `Pair` and `++` for TLC's `:>` and `@@`.

### Model-checked only

* Liveness (`EveryInvocationEnds`, `EveryCallEnds`, `EveryPartEnds`, `EveryCommandEnds`):
  fairness conditions are about ENABLED, which the prover does not handle.
* `StreamGuarded`: it speaks of what decoding, a recursive function, makes of strings of
  every length, and how that changes where two strings meet. The library's induction
  theorems take an operator as a parameter, which no installed prover instantiates. The
  run has every output of five bytes.
* `ScriptsHonest` has no theorem of its own: it is `NoLiveImageDeleted` and
  `ReportsTruthful` under `ScriptsSpec`, whose initial states and steps are among those
  of `Spec`, for which both are theorems.

No module that is proved about, or that it extends, declares a RECURSIVE operator.

## 6. Where code and documents disagree

1. **A removal without a bearer is not compensated** (`Compensation`).
   `restore_removed_profile` (`cli/commands/profile.rs:470`) compares
   `pending.get(name)` with `Some(keys)`. Without keys there is no entry, and
   `None` is not `Some` of the empty set. If the empty plan is refused by the
   deadline or a signal, the compensation `docs/authentication.md:83`
   describes fails with a conflict nobody caused, and the profile is gone.
2. **A login may commit after a logout** (`LogoutLogin`). The compare-and-swap
   (`cli/commands/auth.rs:549`) compares the profile, which logout changes only
   if it points to a bearer. A login has read a profile without one and prepares its
   plan; a logout of all profiles clears everything, succeeds and says so; then the
   login commits. `docs/authentication.md:98` promises that such a login loses.
   (`LogoutBeatsLogin` says nothing of a login that reads the profile afterwards.)
3. **A cancelled logout may deny its commit** (`LogoutCancelled`). The check at
   `cli/commands/auth.rs:1131` passes `cleared`, which counts cache files only;
   pointers and markers may have been cleared. The neighbouring error paths pass
   the full disjunction.
4. **A rejected token may be replayed** (`TokenReplayed`). `replaces_rejected`
   (`client/auth.rs:2778`) takes a later `obtained_at` for a replacement, whatever
   the bytes. If a credential process reissues the rejected bytes to another
   invocation first, they are cached unmarked, and the holder of the rejected token
   replays its request with them; `docs/authentication.md:85` has it record the
   reissue and stop. Its own second 401 is final, so this costs one request.
5. **A login may extend a cached expiry** (`LoginExtends`). The cap of
   `docs/authentication.md:85` is taken when the token is acquired
   (`client/auth.rs:880`); the locks are released until `prepare_managed_login_until`
   installs it without comparing, so an expiry cached for the same bytes in
   between is overwritten with a later one.

Further observations, without a run. In the first three code and documents do differ, and
the properties that meet them (`AnswersGuarded`, `DiagnosisInv`) except them by name; in
the others they do not contradict each other, or the point is minor:

* An error of the throttle lacks the guard of the answer before. The wait for a
  reservation before the replay of a 429 (`client/auth.rs:1855`) passes its error on as it
  is; the other errors of the acquisition get `prior_response_guard`, and
  `token_with_mode_until` adds the guard that denies all output to timeouts only.
  `docs/authentication.md:89` gives the originating command that guard once an oversized
  body was left out. The error itself holds nothing of the body.
* Doctor reports a check it skipped: without a token manager `doctor --online` reports
  `tenant.read` as failed (`cli/commands/doctor.rs:315`), while
  `docs/output-contract.md:74` says that checks that depend on an unavailable
  prerequisite are not fabricated. It is unhealthy either way.
* A late cancellation of `auth token` denies the request: the check at
  `cli/commands/auth.rs:1010`, after the guard is collected, is the general one, whose
  error says `request_not_sent`; the one at 997 tells how the token was acquired.
  `docs/errors.md:94` tells the caller to inspect what the error says of the remote side.
  The token was not shown.
* The throttle is one of reservations; a request may be sent any time after its own.
* A second signal may leave the echo off: the process leaves at once
  (`PromptInv` exempts it).
* A search continued near its boundary with the same `max` is refused by the
  validator, without the warning that a full page there gets.
* `redacted_body` is empty if the sanitized body is longer than the original.
* A typed scan with options keeps its endpoint's replay policy; the same raw request
  is unreviewed and unsafe.
* `doctor` gives a caught error's guard to its report if it was the first failure only.

## 7. Plan

1. Done: the models of section 2, their seven passing runs, the five of section 6, the theorems of section 5.
2. Proofs to add: that the window of one emission sees every credential that
   it completes (`StreamGuarded`). The invariant to start from is that the tail is the last
   `limit` bytes of what was emitted. Next come what two layers of `Decoded` make of a string
   split at the start of a token, by an argument of least elements, and how far a
   misalignment at the start of a window reaches, which needs lower bounds on
   `Expansion` and `Pad`. An output without encoding syntax is the first step, since
   there it is about substrings only.
3. Modelling left: a scan without resume file, `api practices`, the redaction of JSON
   values and URLs, wall clocks that jump forward, liveness of the waiters on one
   key's lock (each polls until its deadline), the checks of a token response's body.

## 8. Not modelled

* The catalogue of endpoints, the release contract and their checks
  (`crates/reltio-client/build.rs`, `client/release_contract.rs`,
  `cli/{release,metadata,audit}.rs`): data fixed and verified when the program is
  built; no state, no interleaving.
* Discovery, skills and completions: they print what was built in.
* Formatting, tables, JSON output and the redaction of values: byte strings whose
  tests compare examples; only the streaming guard has state.
* `crates/reltio-windows-security`: security descriptors and handles, whose semantics are
  the operating system's. What the models use of Windows is the Job and the console.
* The guarded walk of directories, permissions and ACLs on Unix, for the same reason.
* The command line's grammar and the error types: declarations.
