---------------------------- MODULE TokenRateLimit ----------------------------
(***************************************************************************)
(* The token endpoint's local throttle (wait_for_token_rate_limit) and the *)
(* token request around it (acquire_client_credentials).  Processes share  *)
(* a file of the reservations of the last window, under a file lock.       *)
(*                                                                         *)
(* The file holds wall-clock times and the deadlines are monotonic.  Both  *)
(* are kept relative to now: the age of a reservation, the time left to a  *)
(* deadline or to the end of a sleep.  So the clocks run without a bound   *)
(* in a finite state, and a step of the wall clock shifts the ages.  The   *)
(* lock is held from the look at the file to the write, so nobody else     *)
(* uses the file in between; the clocks run on.                            *)
(***************************************************************************)
EXTENDS Integers, Sequences, FiniteSets, SequencesExt

CONSTANTS Clients,
          Limit,      \* TOKEN_REQUESTS_PER_SECOND
          Window,     \* RATE_WINDOW_MILLIS, in ticks
          Timeout,    \* the timeout of an acquisition, in ticks
          Delays,     \* delays before the replay, in ticks
          MaxBack     \* bound: how far the wall clock is set back in all

VARIABLES
  file,      \* request_millis: the reservations' ages by the wall clock
  lock,      \* holder of the rate lock, or nobody
  draft,     \* what the holder is about to write
  since,     \* history: the age of the holder's reservation by a true clock
  recent,    \* history: the last reservations' ages by a true clock
  back,      \* how far the wall clock may still be set back
  pc, left, wake, attempts,
  guard,     \* prior_response_guard: the answers of this acquisition whose content
             \* it keeps out of any output
  paid,      \* history: reservations made for this acquisition
  bared      \* history: what the client's last acquisition gave back, a token or an
             \* error, has a guard that misses an answer of the endpoint

shared == <<file, lock, draft, since, recent, back>>
request == <<attempts, guard, paid>>
local == <<pc, left, wake, request, bared>>
vars == <<shared, local>>

Nobody == "nobody"
Oldest == Window + back      \* an age beyond it changes nothing any more

\* The answers that an acquisition may get, and the guard that denies all output.
Answers == 1..2
DenyAll == Answers

LeastOf(a, b) == IF a < b THEN a ELSE b
MostOf(a, b) == IF a < b THEN b ELSE a

Init ==
  /\ file = <<>> /\ lock = Nobody /\ draft = <<>> /\ since = 0 /\ recent = <<>>
  /\ back = MaxBack
  /\ pc = [c \in Clients |-> "idle"]
  /\ left = [c \in Clients |-> 0] /\ wake = [c \in Clients |-> 0]
  /\ attempts = [c \in Clients |-> 0] /\ paid = [c \in Clients |-> 0]
  /\ guard = [c \in Clients |-> {}]
  /\ bared = [c \in Clients |-> FALSE]

-------------------------------------------------------------------------------
Goto(c, p) == pc' = [pc EXCEPT ![c] = p] /\ UNCHANGED <<left, bared>>

\* The acquisition gives something back, with a guard, after so many answers.
Finish(c, answers, final) ==
  /\ pc' = [pc EXCEPT ![c] = "idle"]
  /\ left' = [left EXCEPT ![c] = 0] /\ wake' = [wake EXCEPT ![c] = 0]
  /\ attempts' = [attempts EXCEPT ![c] = 0] /\ paid' = [paid EXCEPT ![c] = 0]
  /\ guard' = [guard EXCEPT ![c] = {}]
  /\ bared' = [bared EXCEPT ![c] = ~(1..answers \subseteq final)]

\* An error that is passed on as it is: token_with_mode_until adds what the invocation
\* knew before, and to a timeout the guard that denies all.
Fail(c) == Finish(c, attempts[c], {})
TimeOut(c) == Finish(c, attempts[c], DenyAll)

Start(c) ==
  /\ pc[c] = "idle"
  /\ pc' = [pc EXCEPT ![c] = "lock"]
  /\ left' = [left EXCEPT ![c] = Timeout]
  /\ bared' = [bared EXCEPT ![c] = FALSE]
  /\ UNCHANGED <<shared, wake, request>>

-------------------------------------------------------------------------------
\* The reservation: wait_for_token_rate_limit.

\* The reservations younger than that, in the order of the file.
Retained(most) ==
  LET young == {k \in DOMAIN file : file[k] < most}
      Nth(n) == CHOOSE k \in young : Cardinality({m \in young : m <= k}) = n
  IN  [n \in 1..Cardinality(young) |-> file[Nth(n)]]

\* Seeded fault: the window is one tick short.
KeptShort == Retained(Window - 1)

\* A time ahead of the clock is recent.
Kept == Retained(Window)

Future == \E i \in DOMAIN file : file[i] < -Window

Room == Len(Kept) < Limit

Open(c) == pc[c] = "lock" /\ left[c] > 0 /\ lock = Nobody

\* The state is unreadable, refused or cannot be locked: the error has no guard of
\* an answer before.
LookRefused(c) ==
  /\ Open(c)
  /\ Fail(c)
  /\ UNCHANGED shared

LookRoom(c) ==
  /\ Open(c) /\ Len(file) <= Limit /\ ~Future /\ Room
  /\ lock' = c /\ draft' = Append(Kept, 0) /\ since' = 0
  /\ Goto(c, "commit")
  /\ UNCHANGED <<file, recent, back, wake, request>>

LookFull(c) ==
  /\ Open(c) /\ Len(file) <= Limit /\ ~Future /\ ~Room
  /\ \E oldest \in ToSet(Kept) :
       /\ \A age \in ToSet(Kept) : age <= oldest
       /\ wake' = [wake EXCEPT ![c] = LeastOf(MostOf(1, Window - oldest), left[c])]
  /\ Goto(c, "rest")
  /\ UNCHANGED <<shared, request>>

LockTimeout(c) == pc[c] = "lock" /\ left[c] = 0 /\ TimeOut(c) /\ UNCHANGED shared

\* sleep_with_auth_deadline: a sleep cut by the deadline is a timeout.
Rested(c) ==
  /\ pc[c] = "rest" /\ wake[c] = 0
  /\ \/ left[c] > 0 /\ Goto(c, "lock") /\ UNCHANGED <<wake, request>>
     \/ left[c] = 0 /\ TimeOut(c)
  /\ UNCHANGED shared

Unlock == lock' = Nobody /\ draft' = <<>> /\ since' = 0 /\ UNCHANGED back

\* The last Limit + 1 reservations.
Remember ==
  LET all == Append(recent, since)
  IN  recent' = SubSeq(all, MostOf(1, Len(all) - Limit), Len(all))

Commit(c) ==
  /\ pc[c] = "commit" /\ left[c] > 0
  /\ file' = draft /\ Remember /\ Unlock
  /\ paid' = [paid EXCEPT ![c] = @ + 1]
  /\ Goto(c, "send")
  /\ UNCHANGED <<wake, attempts, guard>>

\* atomic_write_private may fail before or after the rename; at the deadline
\* nothing is written.
CommitFails(c) ==
  /\ pc[c] = "commit"
  /\ \/ left[c] > 0 /\ file' \in {file, draft} /\ Fail(c)
     \/ left[c] = 0 /\ UNCHANGED file /\ TimeOut(c)
  /\ Unlock /\ UNCHANGED recent

-------------------------------------------------------------------------------
\* The request: acquire_client_credentials.

Send(c) ==
  /\ pc[c] = "send"
  /\ \/ /\ left[c] > 0
        /\ attempts' = [attempts EXCEPT ![c] = @ + 1]
        /\ Goto(c, "sent")
        /\ UNCHANGED <<wake, guard, paid>>
     \/ left[c] = 0 /\ TimeOut(c)
  /\ UNCHANGED shared

MayReplay(c) == attempts[c] < 2

\* Seeded fault: the guard of an answer takes the place of the one before.
GuardLast(c, oversized) == IF oversized THEN DenyAll ELSE {attempts[c]}

\* The guard with this answer's: a body too long to inspect denies all output.
GuardWith(c, oversized) == IF oversized THEN DenyAll ELSE guard[c] \cup {attempts[c]}

\* A transport error, which is not retried: before the answer, or in its body, with
\* the guard of what was read of it.
SendFails(c) ==
  /\ pc[c] = "sent" /\ left[c] > 0
  /\ \/ Finish(c, attempts[c] - 1, guard[c])
     \/ Finish(c, attempts[c], GuardWith(c, FALSE))
  /\ UNCHANGED shared

SendTimeout(c) == pc[c] = "sent" /\ left[c] = 0 /\ TimeOut(c) /\ UNCHANGED shared

\* After a 429, unless --no-retry: sleep_auth_retry, whose error has the guard.
Backoff(c) ==
  /\ pc[c] = "sent" /\ left[c] > 0 /\ MayReplay(c)
  /\ \E oversized \in BOOLEAN, delay \in Delays :
       \/ delay >= left[c] /\ Finish(c, attempts[c], GuardWith(c, oversized))
       \/ /\ delay < left[c]
          /\ guard' = [guard EXCEPT ![c] = GuardWith(c, oversized)]
          /\ wake' = [wake EXCEPT ![c] = delay]
          /\ Goto(c, "backoff")
          /\ UNCHANGED <<attempts, paid>>
  /\ UNCHANGED shared

Replay(c) ==
  /\ pc[c] = "backoff" /\ wake[c] = 0
  /\ Goto(c, "lock")
  /\ UNCHANGED <<shared, wake, request>>

\* Any other status, or a 429 that is not retried.
Refused(c) ==
  /\ pc[c] = "sent" /\ left[c] > 0
  /\ \E oversized \in BOOLEAN : Finish(c, attempts[c], GuardWith(c, oversized))
  /\ UNCHANGED shared

\* A token, or an answer that is no token.
Accepted(c) ==
  /\ pc[c] = "sent" /\ left[c] > 0
  /\ Finish(c, attempts[c], GuardWith(c, FALSE))
  /\ UNCHANGED shared

-------------------------------------------------------------------------------
\* The surroundings.

\* A killed process leaves its lock to the others and says nothing; so does a command
\* that drops the acquisition, and then denies all output.
Kill(c) ==
  /\ pc[c] # "idle"
  /\ Finish(c, attempts[c], DenyAll)
  /\ IF lock = c THEN Unlock /\ UNCHANGED <<file, recent>> ELSE UNCHANGED shared

Aged(ages, n, most) == [i \in DOMAIN ages |-> LeastOf(ages[i] + n, most)]

Tick ==
  /\ file' = Aged(file, 1, Oldest) /\ draft' = Aged(draft, 1, Oldest)
  /\ recent' = Aged(recent, 1, Window)
  /\ since' = IF lock = Nobody THEN 0 ELSE LeastOf(since + 1, Window)
  /\ left' = [c \in Clients |-> MostOf(left[c] - 1, 0)]
  /\ wake' = [c \in Clients |-> MostOf(wake[c] - 1, 0)]
  /\ UNCHANGED <<lock, back, pc, request, bared>>

\* The wall clock is set back.
SetBack ==
  \E n \in 1..back :
    /\ back' = back - n
    /\ file' = Aged(file, -n, Oldest) /\ draft' = Aged(draft, -n, Oldest)
    /\ UNCHANGED <<lock, since, recent, local>>

\* What a process does whatever the endpoint does.
Forced(c) ==
  \/ LookRoom(c) \/ LookFull(c) \/ LockTimeout(c) \/ Rested(c) \/ Commit(c) \/ CommitFails(c)
  \/ Send(c) \/ SendTimeout(c) \/ Replay(c)

Next ==
  \/ Tick \/ SetBack
  \/ \E c \in Clients :
       \/ Start(c) \/ LookRefused(c) \/ Forced(c)
       \/ SendFails(c) \/ Backoff(c) \/ Refused(c) \/ Accepted(c) \/ Kill(c)

Spec == Init /\ [][Next]_vars

\* Time passes, and a process that can go on does.
FairSpec == Spec /\ WF_vars(Tick) /\ \A c \in Clients : WF_vars(Forced(c))

-------------------------------------------------------------------------------
TypeOK ==
  /\ file \in Seq(Int) /\ draft \in Seq(Int) /\ recent \in Seq(Nat)
  /\ lock \in Clients \cup {Nobody} /\ since \in Nat /\ back \in 0..MaxBack
  /\ pc \in [Clients -> {"idle", "lock", "rest", "commit", "send", "sent", "backoff"}]
  /\ left \in [Clients -> 0..Timeout] /\ wake \in [Clients -> 0..Timeout]
  /\ guard \in [Clients -> SUBSET Answers]
  /\ attempts \in [Clients -> Nat] /\ paid \in [Clients -> Nat]
  /\ bared \in [Clients -> BOOLEAN]
  /\ \A c \in Clients : pc[c] = "commit" <=> lock = c

\* In a window of the true clock no more than Limit requests are reserved,
\* whatever the processes do and however far the wall clock is set back.
Throttled == Len(recent) > Limit => recent[1] >= Window

\* The file a process leaves is one that the next will read: never too many
\* reservations, and one in the future only once the clock was set back.
FileUsable ==
  /\ Len(file) <= Limit
  /\ back = MaxBack => \A i \in DOMAIN file : file[i] >= 0

\* A request is sent twice at most, each time with a reservation of its own.
EachSendReserved == \A c \in Clients : attempts[c] <= 2 /\ attempts[c] <= paid[c]

\* The throttle: reservations within the limit, in a file that stays usable, and one
\* for each request.
ThrottleHolds == Throttled /\ FileUsable /\ EachSendReserved

\* Whatever comes of the replay after a 429, a token, a refusal, a transport error or
\* the deadline, what the acquisition gives back keeps the content of every answer out
\* of any output.  One error does not, the throttle's own while the replay waits for its
\* reservation (docs/authentication.md:89 has no such exception).
AnswersGuarded ==
  [][\A c \in Clients : bared'[c] /\ ~bared[c] =>
       attempts[c] = 1 /\ pc[c] \in {"lock", "commit"} /\ left[c] > 0]_vars

\* An acquisition ends by itself, whoever else reserves or holds the lock.
AcquisitionEnds == \A c \in Clients : []<>(pc[c] = "idle")
===============================================================================
