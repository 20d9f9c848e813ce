---------------------------- MODULE TokenAcquisition ----------------------------
(***************************************************************************)
(* Invocations of the CLI that share one cached provider token: requests   *)
(* that take a token and may be told 401 once, managed logins, logouts.    *)
(* Two advisory locks order them: the maintenance lock, shared by          *)
(* acquisitions and exclusive to logins and logouts, and the lock of the   *)
(* key.  A lock ends with its holder, so both are read off the control     *)
(* points.  Every wait may end in the deadline, a signal or a kill.        *)
(*                                                                         *)
(* The clock is the wall clock in steps; Answer is the provider's side of  *)
(* the request, Store the CLI's, and time may pass between the two.  The   *)
(* retry of a 429 and the local rate limit happen inside the wait for the  *)
(* answer.  token_inner persists what Explicit asks for only for callers   *)
(* of the library: the CLI uses that mode for login alone, which does not. *)
(***************************************************************************)
EXTENDS Naturals

CONSTANTS Clients,  \* invocations
          Secrets,  \* access tokens the provider can issue
          Absent,   \* no token
          Life,     \* lifetime the provider gives a token
          Skew,     \* EXPIRY_SKEW_SECONDS
          Capped,   \* the source is client credentials, not a credential process
          MaxTime   \* bound of the clock

ASSUME ConstantsAssumption ==
  /\ Life \in Nat /\ Skew \in Nat /\ MaxTime \in Nat
  /\ Capped \in BOOLEAN

VARIABLES
  now,      \* Utc::now()
  cache,    \* the cache file of the key
  issued,   \* secrets the provider has issued
  live,     \* the provider's current token: its secret and when it ends
  pc,       \* control point of each invocation
  mode,     \* TokenAcquisition, with the login's way of not persisting
  token,    \* the token in hand; the rejected one while it is replaced
  prior,    \* what was read from the cache: prior_cached, the plan's preimage
  reply,    \* the provider's answer on its way: its secret and expires_in
  stopped   \* secrets reported unchanged since the cache was last replaced

provider == <<issued, live>>
locals == <<mode, token, prior, reply>>
vars == <<now, cache, provider, pc, locals, stopped>>

Entry == [secret : Secrets, obtained : Nat, expires : Nat, reissued : BOOLEAN]

Reply == [secret : Secrets, left : Nat]

ASSUME AbsentAssumption == Absent \notin Entry \cup Reply

Init ==
  /\ now = 0
  /\ cache = Absent
  /\ issued = {} /\ live = Absent
  /\ pc = [c \in Clients |-> "idle"]
  /\ mode = [c \in Clients |-> "normal"]
  /\ token = [c \in Clients |-> Absent]
  /\ prior = [c \in Clients |-> Absent]
  /\ reply = [c \in Clients |-> Absent]
  /\ stopped = {}

-------------------------------------------------------------------------------
\* Who holds which lock.

Acquiring == {"key", "asking", "answered"}   \* maintenance, shared
Asking == {"asking", "answered"}             \* and the key
Installing == {"plan", "installed"}          \* maintenance, exclusive

NoWriter == \A c \in Clients : pc[c] \notin Installing
NoReader == \A c \in Clients : pc[c] \notin Acquiring
KeyFree == \A c \in Clients : pc[c] \notin Asking

\* CachedToken::is_valid
Usable(e) == e.expires > now + Skew

\* CachedToken::replaces_rejected
Replaces(e, rejected) ==
  e.obtained > rejected.obtained \/ e.secret # rejected.secret

MarkedFor(rejected) ==
  cache # Absent /\ Usable(cache) /\ cache.reissued /\ cache.secret = rejected.secret

\* The cached token serves this caller.
Reusable(c) ==
  /\ cache # Absent /\ Usable(cache)
  /\ \/ mode[c] = "normal"
     \/ mode[c] = "rejected" /\ ~MarkedFor(token[c]) /\ Replaces(cache, token[c])

Goto(c, p) == pc' = [pc EXCEPT ![c] = p]

\* The command is over, whatever it says: its locks and its memory go.
End(c) ==
  /\ Goto(c, "idle")
  /\ mode' = [mode EXCEPT ![c] = "normal"]
  /\ token' = [token EXCEPT ![c] = Absent]
  /\ prior' = [prior EXCEPT ![c] = Absent]
  /\ reply' = [reply EXCEPT ![c] = Absent]

-------------------------------------------------------------------------------
\* token_inner, up to the request.

Start(c) ==
  /\ pc[c] = "idle"
  /\ \/ Goto(c, "maint") /\ \E m \in {"normal", "login"} : mode' = [mode EXCEPT ![c] = m]
     \/ Goto(c, "logout") /\ UNCHANGED mode
  /\ UNCHANGED <<now, cache, provider, token, prior, reply, stopped>>

TakeMaint(c) ==
  /\ pc[c] = "maint"
  /\ NoWriter
  /\ Goto(c, "key")
  /\ UNCHANGED <<now, cache, provider, locals, stopped>>

Reuse(c) ==
  /\ pc[c] = "key" /\ KeyFree
  /\ Reusable(c)
  /\ token' = [token EXCEPT ![c] = cache]
  /\ Goto(c, "send")
  /\ UNCHANGED <<now, cache, provider, mode, prior, reply, stopped>>

\* auth_token_unchanged, known from an earlier process.
RefuseMarked(c) ==
  /\ pc[c] = "key" /\ KeyFree
  /\ mode[c] = "rejected" /\ MarkedFor(token[c])
  /\ End(c)
  /\ UNCHANGED <<now, cache, provider, stopped>>

Ask(c) ==
  /\ pc[c] = "key" /\ KeyFree
  /\ ~Reusable(c)
  /\ ~(mode[c] = "rejected" /\ MarkedFor(token[c]))
  /\ prior' = [prior EXCEPT ![c] = cache]
  /\ Goto(c, "asking")
  /\ UNCHANGED <<now, cache, provider, mode, token, reply, stopped>>

-------------------------------------------------------------------------------
\* The provider, from what the code expects of it: "an early token request
\* may return the existing token"; a claim of a full lifetime for it, which the
\* code caps, is what the repository's tests make it answer.
Answer(c) ==
  /\ pc[c] = "asking"
  /\ \/ /\ live # Absent
        /\ \E left \in {Life} \cup {n \in 1..Life : now + n = live.until} :
             reply' = [reply EXCEPT ![c] = [secret |-> live.secret, left |-> left]]
        /\ UNCHANGED provider
     \/ \E s \in Secrets \ issued :
          /\ reply' = [reply EXCEPT ![c] = [secret |-> s, left |-> Life]]
          /\ issued' = issued \cup {s}
          /\ live' = [secret |-> s, until |-> now + Life]
  /\ Goto(c, "answered")
  /\ UNCHANGED <<now, cache, mode, token, prior, stopped>>

\* Seeded fault: a reissued token counts as new.
ReceivedUncapped(c) ==
  [secret |-> reply[c].secret, obtained |-> now, expires |-> now + reply[c].left,
   reissued |-> FALSE]

\* Seeded fault: the skew is taken off the time the token was obtained.
ReceivedBackdated(c) ==
  [secret |-> reply[c].secret, obtained |-> now - Skew, expires |-> now + reply[c].left,
   reissued |-> FALSE]

\* The token an answer becomes.  A client-credentials token already in the
\* cache stays as old as it is and ends no later.
Received(c) ==
  LET e == [secret |-> reply[c].secret, obtained |-> now,
            expires |-> now + reply[c].left, reissued |-> FALSE]
  IN  IF Capped /\ prior[c] # Absent /\ prior[c].secret = e.secret
      THEN [e EXCEPT !.obtained = prior[c].obtained,
                     !.expires = IF prior[c].expires < @ THEN prior[c].expires ELSE @]
      ELSE e

\* validate_token_expiry
TooLate(c) ==
  /\ pc[c] = "answered"
  /\ ~Usable(Received(c))
  /\ End(c)
  /\ UNCHANGED <<now, cache, provider, stopped>>

\* Seeded fault: the cache is written without the mark.
StoreUnchangedUnmarked(c) ==
  /\ pc[c] = "answered" /\ mode[c] = "rejected"
  /\ Usable(Received(c))
  /\ Received(c).secret = token[c].secret
  /\ cache' = Received(c)
  /\ stopped' = {token[c].secret}
  /\ End(c)
  /\ UNCHANGED <<now, provider>>

\* The provider insists on the token Reltio rejected: that is recorded, and
\* the command fails.
StoreUnchanged(c) ==
  /\ pc[c] = "answered" /\ mode[c] = "rejected"
  /\ Usable(Received(c))
  /\ Received(c).secret = token[c].secret
  /\ cache' = [Received(c) EXCEPT !.reissued = TRUE]
  /\ stopped' = {token[c].secret}
  /\ End(c)
  /\ UNCHANGED <<now, provider>>

StoreNew(c) ==
  /\ pc[c] = "answered" /\ mode[c] \in {"normal", "rejected"}
  /\ Usable(Received(c))
  /\ mode[c] = "rejected" => Received(c).secret # token[c].secret
  /\ cache' = Received(c)
  /\ stopped' = {}
  /\ \/ /\ token' = [token EXCEPT ![c] = Received(c)]
        /\ prior' = [prior EXCEPT ![c] = Absent]
        /\ reply' = [reply EXCEPT ![c] = Absent]
        /\ Goto(c, "send")
        /\ UNCHANGED mode
     \/ End(c)              \* the write failed after the rename
  /\ UNCHANGED <<now, provider>>

\* acquire_for_login: nothing is written, the locks are let go.
Hold(c) ==
  /\ pc[c] = "answered" /\ mode[c] = "login"
  /\ Usable(Received(c))
  /\ token' = [token EXCEPT ![c] = Received(c)]
  /\ prior' = [prior EXCEPT ![c] = Absent]
  /\ reply' = [reply EXCEPT ![c] = Absent]
  /\ Goto(c, "candidate")
  /\ UNCHANGED <<now, cache, provider, mode, stopped>>

-------------------------------------------------------------------------------
\* The request the token was for.

Accepted(c) ==
  /\ pc[c] = "send"
  /\ End(c)
  /\ UNCHANGED <<now, cache, provider, stopped>>

\* A first 401 of a request that may be replayed; a second one is final, and
\* so are those of unsafe requests, which end as Accepted ends.
Rejected(c) ==
  /\ pc[c] = "send" /\ mode[c] = "normal"
  /\ mode' = [mode EXCEPT ![c] = "rejected"]
  /\ Goto(c, "maint")
  /\ UNCHANGED <<now, cache, provider, token, prior, reply, stopped>>

-------------------------------------------------------------------------------
\* The rest of a managed login, and logout.

\* Seeded fault: the plan is prepared beside running acquisitions.
LockForLoginEarly(c) ==
  /\ pc[c] = "candidate"
  /\ NoWriter
  /\ prior' = [prior EXCEPT ![c] = cache]
  /\ Goto(c, "plan")
  /\ UNCHANGED <<now, cache, provider, mode, token, reply, stopped>>

\* The expiry check before the wait for the lock has just been passed in Hold;
\* the one after it is in Install.
LockForLogin(c) ==
  /\ pc[c] = "candidate"
  /\ NoWriter /\ NoReader
  /\ prior' = [prior EXCEPT ![c] = cache]
  /\ Goto(c, "plan")
  /\ UNCHANGED <<now, cache, provider, mode, token, reply, stopped>>

Install(c) ==
  /\ pc[c] = "plan" /\ Usable(token[c])
  /\ cache' = token[c]
  /\ stopped' = {}
  /\ Goto(c, "installed")
  /\ UNCHANGED <<now, provider, locals>>

\* The profile is committed, or the process dies here.
Keep(c) ==
  /\ pc[c] = "installed"
  /\ End(c)
  /\ UNCHANGED <<now, cache, provider, stopped>>

\* The profile could not be committed.
TakeBack(c) ==
  /\ pc[c] = "installed"
  /\ cache' = prior[c]
  /\ End(c)
  /\ UNCHANGED <<now, provider, stopped>>

Logout(c) ==
  /\ pc[c] = "logout"
  /\ NoWriter /\ NoReader
  /\ cache' = Absent
  /\ stopped' = {}
  /\ End(c)
  /\ UNCHANGED <<now, provider>>

\* The deadline, a signal or a kill, and every error that changes nothing.
Abandon(c) ==
  /\ pc[c] \in {"maint", "key", "asking", "answered", "candidate", "plan", "logout"}
  /\ End(c)
  /\ UNCHANGED <<now, cache, provider, stopped>>

Tick ==
  /\ now < MaxTime
  /\ now' = now + 1
  /\ UNCHANGED <<cache, provider, pc, locals, stopped>>

Step(c) ==
  \/ Start(c) \/ TakeMaint(c) \/ Reuse(c) \/ RefuseMarked(c) \/ Ask(c)
  \/ Answer(c) \/ TooLate(c) \/ StoreUnchanged(c) \/ StoreNew(c) \/ Hold(c)
  \/ Accepted(c) \/ Rejected(c)
  \/ LockForLogin(c) \/ Install(c) \/ Keep(c) \/ TakeBack(c) \/ Logout(c)
  \/ Abandon(c)

Next == Tick \/ \E c \in Clients : Step(c)

Spec == Init /\ [][Next]_vars

-------------------------------------------------------------------------------
TypeOK ==
  /\ now \in 0..MaxTime
  /\ cache \in Entry \cup {Absent}
  /\ issued \subseteq Secrets
  /\ live \in [secret : Secrets, until : Nat] \cup {Absent}
  /\ pc \in [Clients -> {"idle", "maint", "send", "candidate", "logout"}
                          \cup Acquiring \cup Installing]
  /\ mode \in [Clients -> {"normal", "rejected", "login"}]
  /\ token \in [Clients -> Entry \cup {Absent}]
  /\ prior \in [Clients -> Entry \cup {Absent}]
  /\ reply \in [Clients -> Reply \cup {Absent}]
  /\ stopped \subseteq Secrets

\* What an acquisition read before it asked the provider, or a login before
\* it installed, is what it replaces: token_inner caps the expiry and a
\* rollback restores the file from a value read several awaits earlier.
PriorIsCurrent ==
  \A c \in Clients : pc[c] \in Asking \cup {"plan"} => cache = prior[c]

\* docs/authentication.md:85: once the provider has reissued the rejected
\* token, concurrent and later processes do not ask again, as long as that
\* token is usable and nothing else was installed in the cache.
LoopStops ==
  \A c \in Clients :
    pc[c] = "asking" /\ mode[c] = "rejected" /\ token[c].secret \in stopped
      => prior[c] # Absent /\ ~Usable(prior[c])

\* The locks exclude whom they should, an answered invocation has its answer,
\* and the cache is what the last writer made of it.
Locks ==
  \A c, d \in Clients :
    /\ pc[c] \in Asking /\ pc[d] \in Asking => c = d
    /\ pc[c] \in Installing /\ pc[d] \in Installing => c = d
    /\ pc[c] \in Installing => pc[d] \notin Acquiring

Written ==
  /\ \A c \in Clients : pc[c] = "answered" => reply[c] # Absent
  /\ \A c \in Clients : pc[c] = "installed" => cache = token[c] /\ stopped = {}
  /\ \A u \in stopped : cache # Absent /\ cache.reissued /\ cache.secret = u

IInv == TypeOK /\ Locks /\ Written /\ PriorIsCurrent /\ LoopStops

\* A login's image counts once its profile is committed.
Visible ==
  IF \E c \in Clients : pc[c] = "installed"
  THEN prior[CHOOSE c \in Clients : pc[c] = "installed"]
  ELSE cache

Candidates == {token[c] : c \in {d \in Clients : pc[d] \in {"candidate", "plan", "installed"}}}

Slot == INSTANCE TokenStore WITH slot <- Visible, held <- Candidates

\* docs/authentication.md:77: processes recheck the cache under the lock.  Seen
\* by whoever holds a lock, every renewal is one step (read, ask, cap, write)
\* and a login installs the candidate it got or nothing.
RenewalIsAtomic == Slot!Spec

-------------------------------------------------------------------------------
\* client test auth.rs:5630: "an unchanged rejected token must not be
\* replayed".
RejectedNotReplayed ==
  [][\A c \in Clients :
       mode[c] = "rejected" /\ pc[c] # "send" /\ pc'[c] = "send"
         => token'[c].secret # token[c].secret]_vars

\* docs/authentication.md:85: an explicit login that receives the token bytes
\* already in the cache caps the new expiry at the cached one.
LoginCaps ==
  [][\A c \in Clients :
       pc[c] = "plan" /\ pc'[c] = "installed" /\ cache # Absent /\ cache.secret = cache'.secret
         => cache'.expires <= cache.expires]_vars
===============================================================================
