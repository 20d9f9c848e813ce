----------------------------- MODULE Diagnostics ------------------------------
(***************************************************************************)
(* The commands that tell a user how things stand: `doctor`, which goes on *)
(* after a check has failed and reports the first failure, `auth status`,  *)
(* which sends nothing, `auth check`, and `auth token`, which shows a      *)
(* token.  A signal or the deadline may come at any point, and other       *)
(* invocations change the token cache.                                     *)
(*                                                                         *)
(* The acquisition of a token is TokenAcquisition's, a request is          *)
(* HttpExecute's, the guard of an output OutputLease's: here each is one   *)
(* step.  Each service has its own check, which here are one.              *)
(***************************************************************************)
EXTENDS Sequences

CONSTANT Invocations   \* the command lines that are tried

VARIABLES
  invocation,  \* arguments, and where the credential comes from
  cached,      \* the entry of the token cache
  canceled, late,
  at,          \* control point of the command
  manager,     \* the token manager: none yet, failed, or ready
  checks,      \* the checks of doctor that have a result
  failed,      \* the errors of failed checks, in their order
  cause,       \* diagnostic_failure
  remote,      \* how far the remote side got: of the search, or of the token
  acquired,    \* how the token to show was acquired
  shown,       \* it went out
  verdict      \* the outcome, and what it says of the remote side

control == <<canceled, late>>
results == <<checks, failed, cause>>
vars == <<invocation, cached, control, at, manager, results, remote, acquired, shown, verdict>>

Invocation == [command : {"doctor", "status", "check", "token"}, online : BOOLEAN,
               show : BOOLEAN, terminal : BOOLEAN, yes : BOOLEAN,
               source : {"environment", "imported", "client", "process", "none"}]

Cached == {"missing", "valid", "expired", "malformed"}
CheckNames == {"load", "permissions", "target", "services", "auth", "practices", "read"}
Results == {"pass", "warn", "fail"}

\* An error: its category, and whether it has the HTTP status of an answer.
Error == [category : {"config", "safety", "auth", "network", "upstream", "canceled", "timeout",
                      "internal"}, status : BOOLEAN]
Err(category) == [category |-> category, status |-> FALSE]
NoError == [category |-> "none", status |-> FALSE]

NoVerdict == [kind |-> "none", error |-> NoError, received |-> "unsaid"]

Is(command) == invocation.command = command
Controls == (IF canceled THEN {Err("canceled")} ELSE {}) \cup (IF late THEN {Err("timeout")} ELSE {})

Init ==
  /\ invocation \in Invocations /\ cached \in Cached
  /\ canceled = FALSE /\ late = FALSE /\ at = "start" /\ manager = "none"
  /\ checks = [name \in {} |-> "pass"] /\ failed = <<>> /\ cause = NoError
  /\ remote = "nothing" /\ acquired = "none" /\ shown = FALSE /\ verdict = NoVerdict

-------------------------------------------------------------------------------
Goto(label) == at' = label /\ UNCHANGED verdict
Say(kind, error, received) ==
  at' = "done" /\ verdict' = [kind |-> kind, error |-> error, received |-> received]
Fails(error) == Say("failed", error, "unsaid")
Holds == UNCHANGED <<invocation, cached, control>>
Stays == Holds /\ UNCHANGED manager
NothingSent == UNCHANGED <<remote, acquired, shown>>

\* A check of doctor has its result.
Result(name, result) ==
  checks' = [n \in DOMAIN checks \cup {name} |-> IF n = name THEN result ELSE checks[n]]
Passes(name, result) == Result(name, result) /\ UNCHANGED <<failed, cause>>

\* Seeded fault: the last failure is the one that is reported.
FailsLast(name, error) ==
  Result(name, "fail") /\ failed' = Append(failed, error) /\ cause' = error

\* diagnostic_failure.get_or_insert_with
FailsWith(name, error) ==
  /\ Result(name, "fail") /\ failed' = Append(failed, error)
  /\ cause' = IF cause = NoError THEN error ELSE cause

\* doctor_unhealthy, after doctor_report
Unhealthy(reason) ==
  Say("unhealthy", IF reason = NoError THEN Err("internal") ELSE reason, "unsaid")

-------------------------------------------------------------------------------
\* The target and the token manager, as all four commands need them.

\* What the manager and its guard need: a source, and an entry that can be read.
ManagerErrors ==
  {Err("auth") : x \in IF invocation.source = "none"
                          \/ (invocation.source # "environment" /\ cached = "malformed")
                       THEN {1} ELSE {}}
ManagerMayFail == ManagerErrors \cup Controls \cup {Err("safety")}

\* status_until_inner
StatusErrors ==
  {Err("auth") : x \in IF invocation.source # "environment" /\ cached = "malformed"
                       THEN {1} ELSE {}} \cup Controls
Expired == invocation.source # "environment" /\ cached = "expired"

\* HttpClient::execute_until of the search for one entity: an answer in time, or an
\* error that is the server's only if its answer is here.
Answered ==
  ~canceled /\ ~late /\ remote' = "answered" /\ UNCHANGED <<acquired, shown>>

SearchErrors ==
  Controls \cup {Err("network"), [category |-> "upstream", status |-> TRUE]}

NotAnswered(error) ==
  /\ remote' \in IF error.status THEN {"answered"} ELSE {"nothing", "sent"}
  /\ UNCHANGED <<acquired, shown>>

-------------------------------------------------------------------------------
\* doctor

\* ConfigStore::load; the report of a configuration that does not load is the error's.
DoctorLoad ==
  /\ Is("doctor") /\ at = "start"
  /\ \/ Passes("load", "pass") /\ Goto("permissions")
     \/ \E error \in {Err("config"), Err("safety")} : FailsWith("load", error) /\ Unhealthy(error)
  /\ Stays /\ NothingSent

DoctorPermissions ==
  /\ Is("doctor") /\ at = "permissions"
  /\ \/ \E result \in {"pass", "warn"} : Passes("permissions", result)
     \/ FailsWith("permissions", Err("safety"))
  /\ Goto("target")
  /\ Stays /\ NothingSent

\* resolve_target; without a target nothing that needs one is checked.
DoctorTarget ==
  /\ Is("doctor") /\ at = "target"
  /\ \/ Passes("target", "pass") /\ Goto("services")
     \/ FailsWith("target", Err("config")) /\ Unhealthy(IF cause = NoError THEN Err("config") ELSE cause)
  /\ Stays /\ NothingSent

DoctorServices ==
  /\ Is("doctor") /\ at = "services"
  /\ \E result \in {"pass", "warn"} : Passes("services", result)
  /\ Goto("manager")
  /\ Stays /\ NothingSent

DoctorManager ==
  /\ Is("doctor") /\ at = "manager"
  /\ \/ ManagerErrors = {} /\ manager' = "ready" /\ Goto("status") /\ UNCHANGED results
     \/ /\ \E error \in ManagerMayFail : FailsWith("auth", error)
        /\ manager' = "failed" /\ Goto("practices")
  /\ Holds /\ NothingSent

DoctorStatus ==
  /\ Is("doctor") /\ at = "status"
  /\ \/ /\ cached # "malformed" \/ invocation.source = "environment"
        /\ Passes("auth", IF Expired THEN "warn" ELSE "pass")
     \/ \E error \in StatusErrors : FailsWith("auth", error)
  /\ Goto("practices")
  /\ Stays /\ NothingSent

\* review_age_days, against the registry that is built in
DoctorPractices ==
  /\ Is("doctor") /\ at = "practices"
  /\ \/ \E result \in {"pass", "warn"} : Passes("practices", result)
     \/ FailsWith("practices", Err("internal"))
  /\ Goto(IF ~invocation.online THEN "report"
          ELSE IF manager = "ready" THEN "online" ELSE "skip")
  /\ Stays /\ NothingSent

\* Without a manager the online check is reported as failed, and sends nothing.
DoctorSkip ==
  /\ Is("doctor") /\ at = "skip"
  /\ Passes("read", "fail") /\ Goto("report")
  /\ Stays /\ NothingSent

\* entities_client_until refuses when it is late; then the search.
DoctorOnline ==
  /\ Is("doctor") /\ at = "online"
  /\ IF late THEN FailsWith("read", Err("timeout")) /\ NothingSent
     ELSE \/ Answered /\ Passes("read", "pass")
          \/ \E error \in SearchErrors : NotAnswered(error) /\ FailsWith("read", error)
  /\ Goto("report")
  /\ Stays

Healthy == \A name \in DOMAIN checks : checks[name] = "pass"

DoctorReport ==
  /\ Is("doctor") /\ at = "report"
  /\ IF Healthy THEN Goto("emit") ELSE Unhealthy(cause)
  /\ Stays /\ NothingSent /\ UNCHANGED results

-------------------------------------------------------------------------------
\* auth status, auth check, auth token: until there is a manager.

\* reveal_token: neither without --show nor on a terminal without --yes.
Consented == invocation.show /\ (invocation.terminal => invocation.yes)

Prepare ==
  /\ ~Is("doctor") /\ at = "start"
  /\ \/ Is("token") /\ ~Consented /\ Fails(Err("safety"))
     \/ /\ Is("token") => Consented
        /\ \/ Fails(Err("config"))                                \* config_and_target
           \/ Is("status") /\ canceled /\ Say("failed", Err("canceled"), "no")
           \/ (Is("status") => ~canceled) /\ Goto("manager")
  /\ Stays /\ NothingSent /\ UNCHANGED results

\* A status without a credential is an answer, not an error.
Manager ==
  /\ ~Is("doctor") /\ at = "manager"
  /\ \/ Is("status") /\ invocation.source = "none" /\ Goto("emit") /\ UNCHANGED manager
     \/ ManagerErrors = {} /\ manager' = "ready" /\ Goto(IF Is("token") THEN "acquire" ELSE "status")
     \/ /\ Is("status") => invocation.source # "none"
        /\ \E error \in ManagerMayFail : Fails(error)
        /\ manager' = "failed"
  /\ Holds /\ NothingSent /\ UNCHANGED results

Status ==
  /\ Is("status") \/ Is("check")
  /\ at = "status"
  /\ \/ /\ cached # "malformed" \/ invocation.source = "environment"
        /\ Goto(IF Is("check") THEN "online" ELSE "warn")
     \/ \E error \in StatusErrors : Fails(error)
  /\ Stays /\ NothingSent /\ UNCHANGED results

\* ensure_not_cancelled, then emit_warning of a credential from the environment.
StatusWarn ==
  /\ Is("status") /\ at = "warn"
  /\ \/ canceled /\ Say("failed", Err("canceled"), "no")
     \/ ~canceled /\ Goto("emit")
     \/ ~canceled /\ \E error \in Controls \cup {Err("internal")} : Fails(error)
  /\ Stays /\ NothingSent /\ UNCHANGED results

CheckOnline ==
  /\ Is("check") /\ at = "online"
  /\ \/ late /\ Say("failed", Err("timeout"), "no") /\ NothingSent
     \/ ~late /\ Answered /\ Goto("emit")
     \/ ~late /\ \E error \in SearchErrors : NotAnswered(error) /\ Fails(error)
  /\ Stays /\ UNCHANGED results

-------------------------------------------------------------------------------
\* auth token

\* TokenManager::token_until: from the environment or the cache, from the token
\* endpoint, or from a credential process.
Hows ==
  (IF invocation.source = "environment" THEN {"held"} ELSE {})
    \cup (IF cached = "valid" /\ invocation.source \in {"imported", "client", "process"}
          THEN {"held"} ELSE {})
    \cup (IF invocation.source = "client" THEN {"endpoint"} ELSE {})
    \cup (IF invocation.source = "process" THEN {"process"} ELSE {})

Acquire ==
  /\ Is("token") /\ at = "acquire"
  /\ \/ \E how \in Hows :
          /\ acquired' = how /\ remote' = (IF how = "held" THEN remote ELSE "answered")
          /\ Goto("acquired")
     \/ \E error \in Controls \cup {Err("auth"), Err("network")} :
          remote' \in {"nothing", "sent", "answered"} /\ UNCHANGED acquired /\ Fails(error)
     \/ /\ canceled                                       \* the select against a signal
        /\ remote' \in {"nothing", "sent"} /\ UNCHANGED acquired
        /\ Say("failed", Err("canceled"), "unknown")
  /\ Stays /\ UNCHANGED <<results, shown>>

\* Seeded fault: a token of this invocation is taken for one that it held.
RemoteOutcomeHeld(how) == IF how = "process" THEN "unknown" ELSE "no"

\* token_remote_outcome
RemoteOutcome(how) ==
  IF how = "held" THEN "no" ELSE IF how = "endpoint" THEN "yes" ELSE "unknown"

Acquired ==
  /\ Is("token") /\ at = "acquired"
  /\ IF canceled THEN Say("failed", Err("canceled"), RemoteOutcome(acquired)) ELSE Goto("lease")
  /\ Stays /\ NothingSent /\ UNCHANGED results

\* token_disclosure_output_guard_lease; the last ensure_not_cancelled.
Lease ==
  /\ Is("token") /\ at = "lease"
  /\ \/ \E error \in Controls \cup {Err("safety")} : Fails(error)
     \/ ~canceled /\ Goto("emit")
     \/ canceled /\ Say("canceled late", Err("canceled"), "no")
  /\ Stays /\ NothingSent /\ UNCHANGED results

-------------------------------------------------------------------------------
\* emit_success, emit_prepared, emit_prepared_disclosing_with_owner: with a lease that
\* looks at the signal and the deadline.
Emit ==
  /\ at = "emit"
  /\ \/ ~canceled /\ ~late /\ Say("success", NoError, "unsaid") /\ shown' = Is("token")
     \/ \E error \in Controls \cup {Err("internal"), Err("safety")} :
          Fails(error) /\ shown' \in {FALSE, Is("token")}
  /\ Stays /\ UNCHANGED <<results, remote, acquired>>

Signal ==
  /\ ~canceled /\ at # "done"
  /\ canceled' = TRUE
  /\ UNCHANGED <<invocation, cached, late, at, manager, results, remote, acquired, shown, verdict>>

Pass ==
  /\ ~late /\ at # "done"
  /\ late' = TRUE
  /\ UNCHANGED <<invocation, cached, canceled, at, manager, results, remote, acquired, shown, verdict>>

\* Another invocation renews, clears or spoils the entry, or it expires.
Elsewhere ==
  /\ at # "done" /\ cached' \in Cached \ {cached}
  /\ UNCHANGED <<invocation, control, at, manager, results, remote, acquired, shown, verdict>>

Doctor ==
  \/ DoctorLoad \/ DoctorPermissions \/ DoctorTarget \/ DoctorServices \/ DoctorManager
  \/ DoctorStatus \/ DoctorPractices \/ DoctorSkip \/ DoctorOnline \/ DoctorReport

Auth ==
  Prepare \/ Manager \/ Status \/ StatusWarn \/ CheckOnline \/ Acquire \/ Acquired \/ Lease

Next == Doctor \/ Auth \/ Emit \/ Signal \/ Pass \/ Elsewhere

Spec == Init /\ [][Next]_vars

-------------------------------------------------------------------------------
TypeOK ==
  /\ invocation \in Invocation /\ cached \in Cached
  /\ canceled \in BOOLEAN /\ late \in BOOLEAN /\ shown \in BOOLEAN
  /\ manager \in {"none", "failed", "ready"}
  /\ DOMAIN checks \subseteq CheckNames /\ \A name \in DOMAIN checks : checks[name] \in Results
  /\ failed \in Seq(Error) /\ cause \in Error \cup {NoError}
  /\ remote \in {"nothing", "sent", "answered"}
  /\ acquired \in {"none", "held", "endpoint", "process"}

\* A doctor that reports health has done every check, and all of them passed; the
\* online one means an answer.
HealthProven ==
  Is("doctor") /\ verdict.kind = "success" =>
    /\ CheckNames \ {"read"} \subseteq DOMAIN checks /\ Healthy
    /\ invocation.online => "read" \in DOMAIN checks /\ remote = "answered"

\* The category and the HTTP status of an unhealthy report are those of the check that
\* failed first, and internal only if none did; a status is there only if there was an
\* answer.
FirstFailureReported ==
  verdict.kind = "unhealthy" =>
    /\ verdict.error = IF failed = <<>> THEN Err("internal") ELSE Head(failed)
    /\ (\E name \in DOMAIN checks : checks[name] = "fail") <=> failed # <<>>
    /\ verdict.error.status => checks["read"] = "fail" /\ remote = "answered"

\* Without a target nothing that needs one has a result.  Without a token manager the
\* credential and the online read are at most reported as failed, the cause is an
\* earlier error than the read's, and none of the four commands has sent anything; a
\* read that passes has its answer.  What stays local sends nothing.  (The code does
\* report the read that it skips, as failed; docs/output-contract.md:74 would have it
\* absent.)
NothingFabricated ==
  /\ {"services", "auth", "practices", "read"} \cap DOMAIN checks # {} =>
       "target" \in DOMAIN checks /\ checks["target"] = "pass"
  /\ manager # "ready" =>
       /\ \A name \in {"auth", "read"} \cap DOMAIN checks : checks[name] = "fail"
       /\ "read" \in DOMAIN checks => cause # NoError /\ ~cause.status
       /\ remote = "nothing" /\ acquired = "none" /\ ~shown
  /\ "read" \in DOMAIN checks => invocation.online
  /\ "read" \in DOMAIN checks /\ checks["read"] = "pass" => remote = "answered"
  /\ Is("status") \/ (Is("doctor") /\ ~invocation.online) => remote = "nothing"

\* A token goes out only if the user asked for it.  What an error says of the remote
\* side is so, with one exception: `auth token` that sees a signal only once the guard
\* of its output is complete says that nothing was sent, whatever it took to acquire
\* the token, which it has not shown.
TokenShownAsAsked ==
  /\ shown => Consented
  /\ verdict.received = "no" =>
       \/ remote = "nothing"
       \/ verdict.kind = "canceled late" /\ canceled /\ acquired # "held" /\ ~shown
  /\ verdict.received = "yes" => remote = "answered"

DiagnosisHolds ==
  HealthProven /\ FirstFailureReported /\ NothingFabricated /\ TokenShownAsAsked
===============================================================================
