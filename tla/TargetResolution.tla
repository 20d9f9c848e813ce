--------------------------- MODULE TargetResolution ---------------------------
(***************************************************************************)
(* Which route an invocation takes and whose credentials it uses there.    *)
(* A profile keeps a route and what authenticates for it; updates and      *)
(* logins change both.  Flags and environment variables may move one       *)
(* invocation to another environment, origin, tenant or Auth URL, or name  *)
(* the profile's own in another way.                                       *)
(*                                                                         *)
(* An environment is a name or a URL; the name's origin is that of the URL *)
(* with the same host.  A service URL of the profile's is the Proxy, with  *)
(* the tenant at its end.  One profile is selected; without one, an        *)
(* invocation has its own credentials only.                                *)
(***************************************************************************)
EXTENDS Naturals

CONSTANTS Hosts, Tenants,
          Proxy,           \* a service URL for data
          OwnAuth,         \* an Auth URL that is not the central one
          Central,         \* the Auth URL of a target that has none
          None,
          Routes,          \* the routes that profiles are given: records of an environment, a
                           \* base, a tenant, a data and an Auth URL, each or None
          OwnSets          \* the credentials that environments hold

VARIABLES
  profile,   \* its route and its authentication
  home       \* history: the route that the stored authentication was set up for

vars == <<profile, home>>

Environments == [url : BOOLEAN, host : Hosts]

\* What an imported bearer's cache key is a digest of, besides its generation.
Key == [environment : Environments, base : Hosts \cup {None}, tenant : Tenants,
        data : {Proxy, None}, auth_url : {OwnAuth, Central, None}]

Auth == [method : {"bearer", "client", "process", None}, id : BOOLEAN, key : Key \cup {None}]
NoAuth == [method |-> None, id |-> FALSE, key |-> None]

\* Flags and variables: --environment (then flag) or else RELTIO_ENVIRONMENT, RELTIO_BASE_URL,
\* --tenant or else RELTIO_TENANT, RELTIO_AUTH_URL, and the credentials in the environment.
Invocation == {i \in [environment : Environments \cup {None}, flag : BOOLEAN,
                      base : Hosts \cup {None}, tenant : Tenants \cup {None},
                      auth_url : {OwnAuth, Central, None}, own : OwnSets] :
               i.flag => i.environment # None}

\* build_profile
Init ==
  /\ \E route \in Routes, auth \in {NoAuth, [NoAuth EXCEPT !.method = "client", !.id = TRUE]} :
       /\ profile = [route |-> route, auth |-> auth]
       /\ home = IF auth = NoAuth THEN None ELSE route

-------------------------------------------------------------------------------
\* resolve_target

Or(value, other) == IF value = None THEN other ELSE value

IsUrl(environment) == environment # None /\ environment.url

\* profile_base_url, profile_effective_origin
ProfileBase(route) == IF IsUrl(route.environment) THEN route.environment.host ELSE route.base
ProfileOrigin(route) ==
  Or(ProfileBase(route), IF route.environment = None THEN None ELSE route.environment.host)

FlagIsUrl(i) == i.flag /\ IsUrl(i.environment)

InvocationBase(i) ==
  IF FlagIsUrl(i) THEN i.environment.host
  ELSE Or(i.base, IF IsUrl(i.environment) THEN i.environment.host ELSE None)

\* environments_are_equivalent
SameEnvironment(route, i) == i.environment # None /\ i.environment = route.environment

DataChanged(route, i) ==
  \/ i.environment # None /\ ~SameEnvironment(route, i)
  \/ InvocationBase(i) # None /\ InvocationBase(i) # ProfileOrigin(route)

AuthChanged(route, i) == i.auth_url # None /\ i.auth_url # Or(route.auth_url, Central)

Overridden(route, i) == DataChanged(route, i) \/ AuthChanged(route, i)
TenantOverridden(route, i) == i.tenant # None /\ i.tenant # route.tenant

\* validate_profile_routing_override
OwnCredentials(i) == "token" \in i.own \/ {"id", "secret"} \subseteq i.own

RefusedOverride(route, i) ==
  \/ ("id" \in i.own) # ("secret" \in i.own)
  \/ /\ DataChanged(route, i)
     /\ \/ ~FlagIsUrl(i) /\ i.base = None
        \/ i.tenant = None
        \/ ~OwnCredentials(i)
        \/ "token" \notin i.own /\ route.auth_url # None /\ i.auth_url = None
  \/ ~DataChanged(route, i) /\ ~OwnCredentials(i)

Target(p, i) ==
  LET route == p.route
      changed == DataChanged(route, i)
      base == IF changed THEN InvocationBase(i) ELSE ProfileBase(route)
      environment ==
        Or(IF SameEnvironment(route, i) THEN route.environment
           ELSE Or(i.environment, route.environment),
           IF base = None THEN None ELSE [url |-> FALSE, host |-> base])
  IN  [environment |-> environment, base |-> base, tenant |-> Or(i.tenant, route.tenant),
       data |-> IF changed THEN None ELSE route.data,
       auth_url |-> IF i.auth_url # None /\ (changed \/ AuthChanged(route, i)) THEN i.auth_url
                    ELSE IF changed THEN None ELSE route.auth_url,
       auth |-> IF Overridden(route, i) THEN NoAuth ELSE p.auth]

Resolves(p, i) ==
  /\ Overridden(p.route, i) => ~RefusedOverride(p.route, i)
  /\ LET t == Target(p, i) IN t.environment # None /\ t.tenant # None

\* ServiceResolver::base_url, environment_origin
DataOrigin(t) == Or(t.data, Or(t.base, t.environment.host))
AuthUrl(t) == Or(t.auth_url, Central)

\* imported_bearer_cache_key
KeyOf(t) == [environment |-> t.environment, base |-> t.base, tenant |-> t.tenant,
             data |-> t.data, auth_url |-> t.auth_url]

\* resolve_credential_source: what is used, and what of it is the profile's.
Source(t, i) ==
  LET method == Or(t.auth.method, IF i.own # {} THEN "client" ELSE None)
  IN  IF "token" \in i.own THEN [kind |-> "token", stored |-> FALSE]
      ELSE IF method = "bearer" /\ t.auth.key = KeyOf(t) THEN [kind |-> "bearer", stored |-> TRUE]
      ELSE IF method = "process" THEN [kind |-> "process", stored |-> TRUE]
      ELSE IF method = "client" /\ ("id" \in i.own \/ t.auth.id)
      THEN [kind |-> "client", stored |-> t.auth # NoAuth /\ ~OwnCredentials(i)]
      ELSE [kind |-> "none", stored |-> FALSE]

-------------------------------------------------------------------------------
\* The profile's changes.

Become(auth, route) ==
  /\ profile' = [route |-> route, auth |-> auth]
  /\ home' = IF auth = NoAuth THEN None ELSE IF profile.auth = NoAuth THEN route ELSE home

\* Options of a profile update, for one field of the authentication.
Changes(auth) ==
  {auth, [auth EXCEPT !.method = "client"], [auth EXCEPT !.id = TRUE], [auth EXCEPT !.id = FALSE]}

\* update_profile: authentication stays only while the route does.
Update(route, auth, clear) ==
  /\ auth \in Changes(profile.auth)
  /\ \/ clear /\ Become(NoAuth, route)
     \/ /\ ~clear
        /\ route # profile.route => profile.auth = NoAuth
        /\ Become(IF auth.method # "bearer" THEN [auth EXCEPT !.key = None] ELSE auth, route)

\* login, from its checks to the profile's commit (the rest is BearerTransactions).
Login(i, method, id) ==
  /\ Resolves(profile, i)
  /\ ~Overridden(profile.route, i) /\ ~TenantOverridden(profile.route, i)
  /\ "token" \in i.own => method = "bearer"
  /\ method # "client" => ~id
  /\ profile' = [profile EXCEPT
       !.auth = [method |-> method, id |-> id \/ "id" \in i.own \/ @.id,
                 key |-> IF method = "bearer" THEN KeyOf(Target(profile, i)) ELSE None]]
  /\ home' = profile.route

\* logout deconfigures imported bearers.
Logout ==
  /\ profile.auth.method = "bearer"
  /\ profile' = [profile EXCEPT !.auth = NoAuth] /\ home' = None

Next ==
  \/ \E route \in Routes, auth \in Changes(profile.auth), clear \in BOOLEAN :
       Update(route, auth, clear)
  \/ \E i \in Invocation, method \in {"bearer", "client", "process"}, id \in BOOLEAN :
       Login(i, method, id)
  \/ Logout

Spec == Init /\ [][Next]_vars

-------------------------------------------------------------------------------
\* The types.
TypeOK ==
  /\ profile \in [route : Routes, auth : Auth]
  /\ home \in Routes \cup {None}

\* Stored credentials are used on the data origin and with the Auth URL that they were
\* set up for, and an imported bearer for its tenant only, however an invocation spells
\* the route.
StoredStaysHome(t, source) ==
  source.stored =>
    /\ home # None
    /\ DataOrigin(t) = Or(home.data, ProfileOrigin(home))
    /\ AuthUrl(t) = Or(home.auth_url, Central)
    /\ source.kind = "bearer" => t.tenant = home.tenant

\* What moves elsewhere names the origin and the tenant, and keeps no Auth URL of the
\* profile's.
OverrideIsOwn(i, t) ==
  DataChanged(profile.route, i) =>
    /\ DataOrigin(t) = InvocationBase(i) /\ t.tenant = i.tenant
    /\ AuthUrl(t) = Or(i.auth_url, Central)

\* A login's bearer is found by every invocation that does not move elsewhere.
BearerFound(i, source) ==
  /\ profile.auth.method = "bearer" /\ "token" \notin i.own
  /\ ~Overridden(profile.route, i) /\ ~TenantOverridden(profile.route, i)
  => source.kind = "bearer"

\* The types; for every invocation that resolves, whose credentials go where.
TargetInv ==
  /\ TypeOK
  /\ \A i \in Invocation :
       Resolves(profile, i) =>
         LET t == Target(profile, i)
             source == Source(t, i)
         IN  StoredStaysHome(t, source) /\ OverrideIsOwn(i, t) /\ BearerFound(i, source)
===============================================================================
