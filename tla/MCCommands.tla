------------------------------ MODULE MCCommands ------------------------------
\* What a command does with its input and its output, in one run: a scan with its
\* resume file, the end of a command and of its writer thread, a raw request, the
\* path of a raw request, the guard of an output in many emissions, the locks under
\* which that guard is collected, the target that an invocation resolves, and the
\* commands that tell how things stand.  A behaviour is one of one part; the others
\* rest.
EXTENDS EntityScan, Sequences, TLC

CONSTANTS
  Chunks, Requests,
  Letters, Expansion, Pad, MinRadius, Retention, Credentials, MaxLength, MaxPiece,
  Segments, MaxSegments,
  Hosts, Tenants, Proxy, OwnAuth, Central, None, Routes, OwnSets,
  Own, Other, Paths, Tokens, Files, Profiles, Settings, Roles, Caches, Leftovers, Configs,
  Invocations

ASSUME OutputAssumption ==
  /\ {Chunks, Expansion, Retention, MaxLength, MaxPiece, MaxSegments} \subseteq Nat \ {0}
  /\ {Pad, MinRadius} \subseteq Nat

\* The invocations of `api request`.
Plain == [verb |-> "get", service |-> "data", style |-> "json", body |-> "none",
          query |-> "reviewed", route |-> "entity", absolute |-> FALSE,
          acknowledged |-> FALSE, bound |-> TRUE, dry |-> FALSE, consent |-> {}]
Posts ==
  {[Plain EXCEPT !.verb = "post", !.route = route, !.body = body, !.query = query,
                 !.absolute = absolute, !.acknowledged = acknowledged] :
     route \in {"scan", "alias", "search", "other"}, body \in {"none", "inline", "stdin"},
     query \in {"reviewed", "partial", "options", "invalid"},
     absolute \in BOOLEAN, acknowledged \in BOOLEAN}
Reads ==
  {[Plain EXCEPT !.verb = verb, !.route = route, !.query = query, !.absolute = absolute,
                 !.body = body] :
     verb \in {"get", "options"}, route \in {"search", "entity", "other"},
     query \in {"reviewed", "partial", "options", "invalid"}, absolute \in BOOLEAN,
     body \in {"none", "inline"}}
Mutations ==
  {[Plain EXCEPT !.verb = "post", !.route = "other", !.bound = bound, !.dry = dry,
                 !.consent = consent] :
     bound \in BOOLEAN, dry \in BOOLEAN, consent \in SUBSET {"unreviewed", "yes", "tenant"}}
Unusual ==
  {[Plain EXCEPT !.verb = "connect"], [Plain EXCEPT !.verb = "head"],
   [Plain EXCEPT !.verb = "head", !.body = "stdin"], [Plain EXCEPT !.verb = "options", !.body = "file"],
   [Plain EXCEPT !.service = "auth"],
   [Plain EXCEPT !.service = "mcp", !.verb = "post"], [Plain EXCEPT !.query = "malformed"],
   [Plain EXCEPT !.verb = "post", !.route = "scan", !.body = "file"], [Plain EXCEPT !.dry = TRUE]}
    \cup {[Plain EXCEPT !.style = style] : style \in {"raw", "raw_headers", "raw_terminal"}}
SomeRequests == Posts \cup Reads \cup Mutations \cup Unusual

\* One credential is the end of the other; the tail is kept shorter than the radius
\* of either, at first.
SomeLetters == {"a", "%", "\\", "1", "2"}
SomeCredentials == {<<"a">>, <<"1", "a">>}

\* Words of the registry, and their spellings with one escape or two.
SomeSegments ==
  {<<>>, <<"api">>, <<"T">>, <<"U">>, <<"jobs">>, <<"entities">>, <<"a">>, <<"_", "scan">>,
   <<"%5F", "scan">>, <<"%25", "5F", "scan">>, <<"%2E", ".">>, <<"a", "%2F">>}

\* Routes to one host or to the base of a profile without one; a second tenant's are
\* the plain ones.
SomeRoutes ==
  {r \in [environment : [url : BOOLEAN, host : {"e"}] \cup {None}, base : Hosts \cup {None},
          tenant : Tenants, data : {Proxy, None}, auth_url : {OwnAuth, None}] :
   r.tenant = "U" => r.base = None /\ r.data = None}
SomeOwnSets == {{}, {"token"}, {"id"}, {"id", "secret"}}

\* The store of credentials: images of one token or of two, one in place or left
\* behind that does not decode; a configuration that does not load, or one with two
\* profiles and the secret file of each; a token of the environment or a cached one.
Held(token, provider, whole) == [token |-> token, provider |-> provider, whole |-> whole]
SomePaths == {Own, Other}
SomeTokens == {"t", "u"}
SomeFiles == {"f", "g"}
SomeCaches ==
  {[path \in SomePaths |-> IF path = Own THEN Held("t", "mine", TRUE) ELSE None],
   [path \in SomePaths |-> Held("t", "mine", TRUE)],
   [path \in SomePaths |-> IF path = Own THEN Held("t", "other", TRUE)
                               ELSE Held("u", "mine", FALSE)]}
SomeLeftovers == {{}, {Held("t", "mine", FALSE)}}
SomeProfiles == {[id |-> "i", file |-> "f"], [id |-> None, file |-> "g"]}
SomeConfigs == {None, SomeProfiles}
SomeSettings ==
  {[environment |-> [token |-> FALSE, id |-> TRUE, secret |-> FALSE],
    files |-> [f \in SomeFiles |-> "secret"]],
   [environment |-> [token |-> TRUE, id |-> FALSE, secret |-> TRUE],
    files |-> [f \in SomeFiles |-> IF f = "f" THEN "none" ELSE "not_utf8"]]}
First == CHOOSE p \in Processes : TRUE
SomeRoles ==
  {role \in [Processes -> {"emit", "reveal", "login", "renew", "configure", "snapshot"}] :
     CASE role[First] \in {"emit", "reveal"} ->
            \A p \in Processes \ {First} : role[p] \in {"login", "renew", "configure"}
       [] role[First] = "snapshot" ->
            \A p \in Processes \ {First} : role[p] \in {"login", "renew"}
       [] OTHER -> FALSE}

\* The command lines that tell how things stand.
Asks(command, source) ==
  [command |-> command, online |-> FALSE, show |-> command = "token", terminal |-> FALSE,
   yes |-> FALSE, source |-> source]
Reveal(show, terminal, yes) ==
  [Asks("token", "client") EXCEPT !.show = show, !.terminal = terminal, !.yes = yes]
Tellings ==
  {Asks(ask, source) : ask \in {"doctor", "status", "check", "token"},
                       source \in {"environment", "client", "none"}}
Reveals ==
  {Asks("token", source) : source \in {"imported", "process"}}
    \cup {Reveal(show, terminal, yes) : show \in BOOLEAN, terminal \in BOOLEAN, yes \in BOOLEAN}
OnlineDoctors ==
  {[Asks("doctor", source) EXCEPT !.online = TRUE] : source \in {"client", "none"}}
SomeInvocations == Tellings \cup Reveals \cup OnlineDoctors

VARIABLES
  part,
  clock, signals, token, stamps, control, command, outcome, writing, result, stamp,
  written, lease, guard, decided, exit,
  request, time, signaled, drawn, step, reader, content, readAt, server, said,
  out, tail, limit, emitted, uncertain, secrets,
  service, argument, taken,
  profile, home,
  environment, holds, cache, temporary, config, kind, point, shared, exclusive,
  config_shared, config_exclusive, todo, known, all_along,
  invocation, cached, canceled, late, at, manager, checks, failed, cause, remote, acquired,
  shown, verdict

Control == INSTANCE CommandControl WITH thread <- writing
Raw == INSTANCE ApiCommand
         WITH clock <- time, token <- signaled, stamps <- drawn, pc <- step,
              stamp <- readAt, report <- said
Stream == INSTANCE OutputStream
Route == INSTANCE RequestRoute WITH outcome <- taken
Resolution == INSTANCE TargetResolution
Lease == INSTANCE OutputLease
           WITH Procs <- Processes, files <- holds, pc <- point, guard <- known
Diagnosis == INSTANCE Diagnostics

ASSUME RequestsAssumption == Requests \subseteq Raw!Request
\* Paths, images and what is absent are told apart; the stores and roles have their types.
ASSUME LeaseAssumption ==
  /\ Own \in Paths /\ None \notin Paths \cup {Lease!Env}
  /\ (Paths \cup {None}) \cap Lease!Image = {}
  /\ Roles \subseteq [Processes -> Lease!Kinds]
  /\ Caches \subseteq [Paths -> Lease!Image \cup {None}] /\ Leftovers \subseteq SUBSET Lease!Image
  /\ Configs \subseteq {None} \cup SUBSET Profiles
ASSUME InvocationsAssumption == Invocations \subseteq Diagnosis!Invocation

\* Segments are sequences of atoms; the fields of routes have their types, and what is
\* absent is none of them.
ASSUME RoutingAssumption ==
  /\ Segments \subseteq Seq(STRING)
  /\ Routes \subseteq [environment : Resolution!Environments \cup {None}, base : Hosts \cup {None},
                       tenant : Tenants \cup {None}, data : {Proxy, None},
                       auth_url : {OwnAuth, None}]
  /\ None \notin Routes \cup Hosts \cup Resolution!Environments \cup {"bearer", "client", "process"}

controlVars ==
  <<clock, signals, token, stamps, control, command, outcome, writing, result, stamp,
    written, lease, guard, decided, exit>>
rawVars == <<request, time, signaled, drawn, step, reader, content, readAt, server, said>>
streamVars == <<out, tail, limit, emitted, uncertain, secrets>>
routeVars == <<service, argument, taken>>
targetVars == <<profile, home>>
leaseVars ==
  <<environment, holds, cache, temporary, config, kind, point, shared, exclusive,
    config_shared, config_exclusive, todo, known, all_along>>
diagnosisVars ==
  <<invocation, cached, canceled, late, at, manager, checks, failed, cause, remote, acquired,
    shown, verdict>>
all ==
  <<part, vars, controlVars, rawVars, streamVars, routeVars, targetVars, leaseVars, diagnosisVars>>

\* A step of one part: the others rest.
InScan(A) ==
  /\ part = "scan" /\ A
  /\ UNCHANGED <<part, controlVars, rawVars, streamVars, routeVars, targetVars, leaseVars,
                 diagnosisVars>>
InControl(A) ==
  /\ part = "control" /\ A
  /\ UNCHANGED <<part, vars, rawVars, streamVars, routeVars, targetVars, leaseVars, diagnosisVars>>
InRaw(A) ==
  /\ part = "raw" /\ A
  /\ UNCHANGED <<part, vars, controlVars, streamVars, routeVars, targetVars, leaseVars,
                 diagnosisVars>>
InStream(A) ==
  /\ part = "stream" /\ A
  /\ UNCHANGED <<part, vars, controlVars, rawVars, routeVars, targetVars, leaseVars, diagnosisVars>>
InRoute(A) ==
  /\ part = "route" /\ A
  /\ UNCHANGED <<part, vars, controlVars, rawVars, streamVars, targetVars, leaseVars, diagnosisVars>>
InTarget(A) ==
  /\ part = "target" /\ A
  /\ UNCHANGED <<part, vars, controlVars, rawVars, streamVars, routeVars, leaseVars, diagnosisVars>>
InLease(A) ==
  /\ part = "lease" /\ A
  /\ UNCHANGED <<part, vars, controlVars, rawVars, streamVars, routeVars, targetVars, diagnosisVars>>
InDiagnosis(A) ==
  /\ part = "diagnosis" /\ A
  /\ UNCHANGED <<part, vars, controlVars, rawVars, streamVars, routeVars, targetVars, leaseVars>>

RawRests == request = Plain /\ time = 0
RouteRests ==
  /\ service = "data"
  /\ argument = [absolute |-> TRUE, same_origin |-> TRUE, slashes |-> 1, trailing |-> FALSE,
                 segments |-> <<<<"a">>>>]
  /\ taken = [kind |-> "none"]
TargetRests ==
  /\ profile = [route |-> CHOOSE r \in Routes : TRUE, auth |-> Resolution!NoAuth]
  /\ home = None

LeaseRests ==
  /\ environment = (CHOOSE s \in Settings : TRUE).environment
  /\ holds = (CHOOSE s \in Settings : TRUE).files
  /\ cache = (CHOOSE c \in Caches : TRUE) /\ temporary = (CHOOSE t \in Leftovers : TRUE)
  /\ config = (CHOOSE c \in Configs : TRUE) /\ kind = (CHOOSE role \in Roles : TRUE)
DiagnosisRests == invocation = (CHOOSE i \in Invocations : TRUE) /\ cached = "missing"

CommandsInit ==
  /\ part \in {"scan", "control", "raw", "stream", "route", "target", "lease", "diagnosis"}
  /\ Init /\ Stream!Init
  /\ IF part = "control" THEN Control!Init ELSE clock = 0 /\ Control!Init
  /\ IF part = "raw" THEN Raw!Init ELSE RawRests /\ Raw!Init
  /\ IF part = "route" THEN Route!Init ELSE RouteRests
  /\ IF part = "target" THEN Resolution!Init ELSE TargetRests
  /\ IF part = "lease" THEN Lease!Init ELSE LeaseRests /\ Lease!Init
  /\ IF part = "diagnosis" THEN Diagnosis!Init ELSE DiagnosisRests /\ Diagnosis!Init

CommandsNext ==
  \/ InScan(Next) \/ InControl(Control!Next) \/ InRaw(Raw!Next)
  \/ InStream(Stream!Next) \/ InRoute(Route!Ask)
  \/ InTarget(Resolution!Next) \/ InLease(Lease!Next) \/ InDiagnosis(Diagnosis!Next)

\* The fairness of the specifications; a behaviour is of one of them, so one conjunct
\* can stand for an action of each.
CommandsSpec ==
  /\ CommandsInit /\ [][CommandsNext]_all
  /\ \A p \in Processes :
       /\ WF_all(\/ InScan(Forced(p)) \/ InControl(Control!Main) \/ InRaw(Raw!Command)
                 \/ InLease(Lease!Steps(p)))
       /\ WF_all(\/ InScan(Stop(p)) \/ InControl(Control!Running /\ Control!Pass)
                 \/ InRaw(Raw!Pass))
  /\ WF_all(InControl(Control!Running /\ Control!Output) \/ InRaw(Raw!Reader))
  /\ WF_all(InControl(Control!Running /\ Control!Writer))

-------------------------------------------------------------------------------
\* Properties, stated where the parts are specified.

\* The types of a scan; what is resumed skips nothing and what crashes write twice can
\* be told; what an error says of the output and of the resume file is so; one run
\* stays within its bounds (EntityScan).
ScanInv ==
  TypeOK /\ NothingSkipped /\ SequenceNamesObject /\ SafeReplay /\ CommitSaid /\ RunBounded

\* The types of a command's control; its exit status tells how it ended
\* (CommandControl).
StatusInv == Control!TypeOK /\ Control!SuccessInTime /\ Control!SignalStatus

\* Output is written only under a guard that knows every stored credential.
GuardedWrites == Control!GuardedWrites

\* The types of a raw request; its body is one that came in time, what it reports of
\* a replay is so, and only what is allowed is sent (ApiCommand).
RawInv == Raw!TypeOK /\ Raw!BodyInTime /\ Raw!ReplayHonest /\ Raw!OnlyAllowedSent

\* No emission completes a credential that its guard knows (OutputStream).
StreamGuarded == Stream!StreamGuarded

\* Every server reads the path of a request as the command does (RequestRoute), and
\* credentials stay on the route that they were stored for (TargetResolution).
RoutingInv == Route!RouteCertain /\ (part = "target" => Resolution!TargetInv)

\* The types of the stores; under the two locks, no stored credential is unknown to who
\* writes, but for the token that the user asked to see; a snapshot without locks
\* misses nothing that stayed in one place throughout (OutputLease).
LeaseInv == part = "lease" => Lease!TypeOK /\ Lease!NothingStoredShown /\ Lease!SnapshotCovers

\* The types of the commands that tell how things stand; what they report is what they
\* found (Diagnostics).
DiagnosisInv == part = "diagnosis" => Diagnosis!TypeOK /\ Diagnosis!DiagnosisHolds

\* Every part ends: a scan though the server, the output or the disk hang, output that
\* hangs when the time is up, a command at a second signal, a raw request whose input
\* never ends, commands that wait for each other's locks.
EveryCommandEnds ==
  \A p \in Processes :
    []<>CASE part = "scan" -> pc[p] \notin Running
          [] part = "control" -> /\ command = "await" => ~Control!Polled
                                 /\ Control!Forced => exit # Control!Nothing
          [] part = "raw" -> step = "done"
          [] part = "lease" -> point[p] \in Lease!Ended
          [] OTHER -> TRUE
===============================================================================
