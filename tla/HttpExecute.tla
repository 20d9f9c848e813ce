------------------------------ MODULE HttpExecute ------------------------------
(***************************************************************************)
(* One API request of HttpClient::execute_until: a token, the send, what   *)
(* the answer's status asks for (replay after a 401, backoff and retry,    *)
(* the body), with the overall deadline and a signal at every await, and   *)
(* what the final report says of the remote side.  A caller that is told   *)
(* an unsafe request is safe to replay replays it.                         *)
(*                                                                         *)
(* Time is the seconds left to the deadline.  A backoff takes its delay;   *)
(* any other wait may let the time left fall to any of the Instants.       *)
(* A cancelled check and the step it guards are one step: a signal after   *)
(* the check is a signal after the step.                                   *)
(***************************************************************************)
EXTENDS Naturals

CONSTANTS Budgets,    \* what may be left when a request starts, in seconds
          Instants,   \* what may be left after a wait
          Delays,     \* Retry-After of an answer, 0 if it has none
          MaxRuns     \* bound: how often the caller runs the request

ASSUME TimesAssumption ==
  /\ Budgets \subseteq Nat /\ Instants \subseteq Nat /\ Delays \subseteq Nat
  /\ MaxRuns \in Nat \ {0}

VARIABLES
  request,    \* policy of the request, the client's no_retry, the token source
  left,       \* seconds to the deadline
  cancelled,  \* the cancellation token
  pc,         \* control point of execute_until
  attempts, auth_replayed,
  answer,     \* status and Retry-After of the last response, or the fault
  broker,     \* the credential process of a token acquisition
  wire,       \* the request on its way: flying, or taken by the server
  acts,       \* how often the server took the request
  report,     \* the outcome: what it says of the remote side
  runs        \* how often the caller started the request

client == <<attempts, auth_replayed, answer>>
server == <<wire, acts>>
vars == <<request, left, cancelled, pc, client, broker, server, report, runs>>

Policies == {"safe", "unsafe"}
Sources == {"environment", "client", "process"}
Retried == {"429", "502", "503", "504"}
Statuses == {"2xx", "3xx", "401", "4xx"} \cup Retried
Faults == {"connect", "broken"}
Request == [policy : Policies, no_retry : BOOLEAN, source : Sources]
NoAnswer == [status |-> "none", delay |-> 0]

\* remote: what the details say of the operation; safe: safe_to_replay.
Report == [kind : {"success", "refused", "canceled", "timeout", "auth", "network",
                   "budget", "redirect", "unreadable", "too_large", "api"},
           remote : {"unsaid", "not_sent", "unknown", "received"},
           safe : {"unsaid", "yes", "no"},
           retryable : BOOLEAN]
NoReport == [kind |-> "none", remote |-> "unsaid", safe |-> "unsaid", retryable |-> FALSE]

Replayable == request.policy # "unsafe"
SafeIf(b) == IF b THEN "yes" ELSE "no"

\* retry_attempt_ceiling
Ceiling(status) ==
  CASE status \in {"429", "504"} -> 5 [] status = "502" -> 10 [] status = "503" -> 12
    [] OTHER -> 0

\* backoff_seconds, and the server's delay if that is longer; the jitter is
\* less than a second.
Backoff(n) ==
  LET seconds == 2^(IF n < 20 THEN n ELSE 20) - 1
  IN  IF answer.delay > seconds THEN answer.delay ELSE seconds

CanReacquire == request.source # "environment"

Init ==
  /\ request \in Request
  /\ left \in Budgets
  /\ cancelled = FALSE
  /\ pc = "start"
  /\ attempts = 0 /\ auth_replayed = FALSE /\ answer = NoAnswer
  /\ broker = "idle" /\ wire = "none" /\ acts = 0
  /\ report = NoReport
  /\ runs = 1

-------------------------------------------------------------------------------
\* Ends of a request.

Quit(kind, remote, safe, retryable) ==
  /\ pc' = "done"
  /\ report' = [kind |-> kind, remote |-> remote, safe |-> safe, retryable |-> retryable]
  /\ UNCHANGED <<request, left, cancelled, client, server, runs>>

\* request_canceled_error
QuitCanceled(remote) ==
  /\ Quit("canceled", remote, IF remote = "not_sent" THEN "yes" ELSE SafeIf(Replayable), FALSE)
  /\ UNCHANGED broker

\* response_outcome_error
QuitAnswered(kind, retryable) ==
  /\ Quit(kind, "received", SafeIf(Replayable), retryable)
  /\ UNCHANGED broker

Goto(p) ==
  /\ pc' = p
  /\ UNCHANGED <<request, cancelled, report, runs>>

\* ensure_not_cancelled, at the control points that are no await of their own.
CanceledAt ==
  /\ cancelled
  /\ \/ pc \in {"start", "send"} /\ QuitCanceled("not_sent")
     \/ pc = "failed" /\ QuitCanceled("unknown")
     \/ pc \in {"headers", "body"} /\ QuitCanceled("received")
     \/ pc = "backoff" /\ QuitCanceled(IF answer.status \in Faults THEN "unknown" ELSE "received")

-------------------------------------------------------------------------------
\* The token.

Refuse == pc = "start" /\ Quit("refused", "unsaid", "unsaid", FALSE) /\ UNCHANGED broker

Begin ==
  /\ pc = "start" /\ ~cancelled
  /\ Goto("auth")
  /\ UNCHANGED <<left, client, broker, server>>

StartBroker ==
  /\ pc \in {"auth", "reauth"} /\ ~cancelled /\ left > 0
  /\ request.source = "process" /\ broker = "idle"
  /\ broker' = "running"
  /\ Goto(pc)
  /\ UNCHANGED <<left, client, server>>

GotToken ==
  /\ pc \in {"auth", "reauth"} /\ ~cancelled /\ left > 0
  /\ Goto("send")
  /\ broker' = "idle"
  /\ UNCHANGED <<left, client, server>>

\* The token manager's own error: it calls the replay of a token request that
\* was refused safe, and says so if a credential process ran.
NoToken ==
  /\ pc \in {"auth", "reauth"} /\ ~cancelled
  /\ \E safe \in {"unsaid", "yes", "no"} :
       /\ broker = "running" => safe = "no"
       /\ Quit("auth", "unsaid", safe, FALSE)
  /\ broker' = "idle"

\* auth_timeout, turned into the request's timeout by target_auth_error
AuthTimeout ==
  /\ pc \in {"auth", "reauth"} /\ ~cancelled /\ left = 0
  /\ Quit("timeout", "unsaid",
          SafeIf(broker # "running" /\ (pc = "auth" \/ Replayable)), broker # "running")
  /\ broker' = IF broker = "running" THEN "cut" ELSE broker

\* authentication_canceled_error: the select drops the acquisition.
AuthCanceled ==
  /\ pc \in {"auth", "reauth"} /\ cancelled
  /\ Quit("canceled", IF pc = "auth" THEN "not_sent" ELSE "received",
          SafeIf(request.source # "process" /\ (pc = "auth" \/ Replayable)), FALSE)
  /\ broker' = IF broker = "running" THEN "cut" ELSE broker

-------------------------------------------------------------------------------
\* The send.

\* Seeded fault: only the start of the request looks at the signal.
SendUnchecked ==
  /\ pc = "send" /\ left > 0
  /\ attempts' = attempts + 1
  /\ wire' = "flying"
  /\ Goto("sending")
  /\ UNCHANGED <<left, auth_replayed, answer, broker, acts>>

Send ==
  /\ pc = "send" /\ ~cancelled /\ left > 0
  /\ attempts' = attempts + 1
  /\ wire' = "flying"
  /\ Goto("sending")
  /\ UNCHANGED <<left, auth_replayed, answer, broker, acts>>

SendTooLate ==
  /\ pc = "send" /\ ~cancelled /\ left = 0
  /\ Quit("timeout", "unsaid", "yes", TRUE)
  /\ UNCHANGED broker

\* Seeded fault: a timeout before the answer counts as not sent.
SendTimeoutSafe ==
  /\ pc = "sending" /\ left = 0
  /\ Quit("timeout", "unsaid", "yes", TRUE)
  /\ UNCHANGED broker

SendTimeout ==
  /\ pc = "sending" /\ left = 0
  /\ Quit("timeout", IF Replayable THEN "unsaid" ELSE "unknown", SafeIf(Replayable), Replayable)
  /\ UNCHANGED broker

SendCanceled == pc = "sending" /\ cancelled /\ QuitCanceled("unknown")

\* The select prefers an answer that is there to a signal that is there.
Headers ==
  /\ pc = "sending" /\ wire = "taken"
  /\ \E s \in Statuses, d \in Delays : answer' = [status |-> s, delay |-> d]
  /\ wire' = "none"
  /\ Goto("headers")
  /\ UNCHANGED <<left, attempts, auth_replayed, broker, acts>>

\* is_connect: nothing was sent.  Any other fault leaves the request on its
\* way or taken.
SendFails ==
  /\ pc = "sending"
  /\ \/ /\ wire = "flying" /\ wire' = "none"
        /\ answer' = [status |-> "connect", delay |-> 0]
     \/ answer' = [status |-> "broken", delay |-> 0] /\ UNCHANGED wire
  /\ Goto("failed")
  /\ UNCHANGED <<left, attempts, auth_replayed, broker, acts>>

\* should_retry_transport
RetryTransport == ~request.no_retry /\ Replayable /\ attempts < 3 /\ answer.status = "connect"

Failed ==
  /\ pc = "failed" /\ ~cancelled
  /\ \/ RetryTransport /\ Goto("backoff") /\ UNCHANGED <<left, client, broker, server>>
     \/ /\ ~RetryTransport
        /\ LET safe == Replayable \/ answer.status = "connect"
           IN  Quit("network", IF safe THEN "unsaid" ELSE "unknown", SafeIf(safe),
                    answer.status = "connect")
        /\ UNCHANGED broker

-------------------------------------------------------------------------------
\* The answer.

Redirected == pc = "headers" /\ ~cancelled /\ answer.status = "3xx" /\ QuitAnswered("redirect", FALSE)

MustReauth ==
  /\ answer.status = "401" /\ ~auth_replayed /\ ~request.no_retry
  /\ Replayable /\ CanReacquire

Reauthenticate ==
  /\ pc = "headers" /\ ~cancelled /\ MustReauth
  /\ auth_replayed' = TRUE
  /\ Goto("reauth")
  /\ UNCHANGED <<left, attempts, answer, broker, server>>

\* Seeded fault: the policy of the request is not asked.
RetryStatusAnyway == ~request.no_retry /\ attempts < Ceiling(answer.status)

\* should_retry_status
RetryStatus == ~request.no_retry /\ Replayable /\ attempts < Ceiling(answer.status)

Retry ==
  /\ pc = "headers" /\ ~cancelled /\ answer.status # "3xx" /\ RetryStatus
  /\ Goto("backoff")
  /\ UNCHANGED <<left, client, broker, server>>

\* sleep_before_retry
BudgetExhausted ==
  /\ pc = "backoff" /\ ~cancelled /\ Backoff(attempts) >= left
  /\ \/ answer.status \in Faults /\ Quit("budget", "unsaid", "unsaid", FALSE)
     \/ answer.status \notin Faults /\ Quit("api", "received", SafeIf(Replayable), Replayable)
  /\ UNCHANGED broker

Sleep ==
  /\ pc = "backoff" /\ ~cancelled /\ Backoff(attempts) < left
  /\ left' = left - Backoff(attempts)
  /\ Goto("send")
  /\ UNCHANGED <<client, broker, server>>

ReadOn ==
  /\ pc = "headers" /\ ~cancelled
  /\ answer.status # "3xx" /\ ~MustReauth /\ ~RetryStatus
  /\ \/ Goto("body") /\ UNCHANGED <<left, client, broker, server>>
     \/ QuitAnswered("unreadable", FALSE)      \* sanitized_headers

-------------------------------------------------------------------------------
\* read_response_body, and what becomes of the response.

\* Seeded fault: the deadline is not in the select.
BodyTimeoutMissing == FALSE /\ UNCHANGED vars

BodyTimeout ==
  pc = "body" /\ ~cancelled /\ left = 0 /\ QuitAnswered("timeout", Replayable)

BodyFails == pc = "body" /\ ~cancelled /\ QuitAnswered("network", Replayable)

\* A body too long is an error of a success and left out of an error.
BodyTooLarge ==
  pc = "body" /\ ~cancelled /\ answer.status = "2xx" /\ QuitAnswered("too_large", FALSE)

\* api_error
Unsuccessful ==
  /\ pc = "body" /\ ~cancelled /\ answer.status # "2xx"
  /\ QuitAnswered("api", Replayable /\ answer.status \in Retried)

Success ==
  /\ pc = "body" /\ ~cancelled /\ answer.status = "2xx"
  /\ Quit("success", "received", "unsaid", FALSE)
  /\ UNCHANGED broker

-------------------------------------------------------------------------------
\* The surroundings.

Take ==
  /\ wire = "flying"
  /\ wire' = "taken" /\ acts' = acts + 1
  /\ UNCHANGED <<request, left, cancelled, pc, client, broker, report, runs>>

Cancel ==
  /\ pc # "done" /\ ~cancelled
  /\ cancelled' = TRUE
  /\ UNCHANGED <<request, left, pc, client, broker, server, report, runs>>

Wait ==
  /\ pc \in {"auth", "reauth", "sending", "body"}
  /\ left' \in {i \in Instants : i < left}
  /\ UNCHANGED <<request, cancelled, pc, client, broker, server, report, runs>>

\* docs/errors.md:94: "retry only when safe_to_replay permits it".
Replay ==
  /\ pc = "done" /\ report.safe = "yes" /\ ~Replayable /\ runs < MaxRuns
  /\ runs' = runs + 1
  /\ left' \in Budgets
  /\ cancelled' = FALSE /\ pc' = "start" /\ report' = NoReport
  /\ attempts' = 0 /\ auth_replayed' = FALSE /\ answer' = NoAnswer /\ broker' = "idle"
  /\ UNCHANGED <<request, server>>

\* What the client does without the server's help.
Step ==
  \/ CanceledAt \/ Refuse \/ Begin \/ StartBroker \/ GotToken \/ NoToken
  \/ AuthTimeout \/ AuthCanceled
  \/ Send \/ SendTooLate \/ SendTimeout \/ SendCanceled \/ Failed
  \/ Redirected \/ Reauthenticate \/ Retry \/ BudgetExhausted \/ Sleep \/ ReadOn
  \/ BodyTimeout \/ BodyFails \/ BodyTooLarge \/ Unsuccessful \/ Success

Next == Step \/ Headers \/ SendFails \/ Take \/ Cancel \/ Wait \/ Replay

Spec == Init /\ [][Next]_vars

\* What the client does because it must: nothing fails and no token arrives.
Forced ==
  \/ CanceledAt \/ Begin \/ AuthTimeout \/ AuthCanceled
  \/ Send \/ SendTooLate \/ SendTimeout \/ SendCanceled \/ Failed
  \/ Redirected \/ Reauthenticate \/ Retry \/ BudgetExhausted \/ Sleep \/ ReadOn
  \/ BodyTimeout

FairSpec == Spec /\ WF_vars(Forced) /\ WF_vars(Wait)

-------------------------------------------------------------------------------
TypeOK ==
  /\ request \in Request /\ left \in Nat /\ cancelled \in BOOLEAN
  /\ pc \in {"start", "auth", "send", "sending", "failed", "headers", "reauth", "backoff",
             "body", "done"}
  /\ attempts \in Nat /\ auth_replayed \in BOOLEAN
  /\ answer \in [status : Statuses \cup Faults \cup {"none"}, delay : Delays \cup {0}]
  /\ broker \in {"idle", "running", "cut"}
  /\ wire \in {"none", "flying", "taken"} /\ acts \in Nat
  /\ report \in Report \cup {NoReport}
  /\ runs \in 1..MaxRuns

\* Requests on their way or taken.
Sent == acts + (IF wire = "flying" THEN 1 ELSE 0)

\* An unsafe request reaches the server at most once, whatever the answers,
\* and also if the caller replays whenever the report says that it is safe.
UnsafeOnce == request.policy = "unsafe" => Sent <= 1

\* Statuses and transport errors share one counter with the replay after a
\* 401: a run sends at most the largest ceiling and that replay, and the
\* replay happens once.
BoundedAttempts == attempts <= IF auth_replayed THEN 13 ELSE 12

\* A report that calls an unsafe request safe to replay, or not sent, is right
\* for good; so is one that calls an error retryable.
ReplayHonest ==
  pc = "done" =>
    /\ request.policy = "unsafe" /\ (report.safe = "yes" \/ report.remote = "not_sent")
         => acts = 0 /\ wire # "flying"
    /\ report.retryable => report.safe = "yes"

\* A credential process that was cut off is never reported as safe to replay.
CutBrokerSaid == broker = "cut" => report.safe = "no"

\* What the outcome says of the remote side and of a replay is so.
OutcomeHonest == ReplayHonest /\ CutBrokerSaid

\* Where the client is tells what was sent of an unsafe request, and how often.
Unsent ==
  request.policy = "unsafe" =>
    /\ pc \in {"start", "auth", "send"} => Sent = 0
    /\ pc = "failed" /\ answer.status = "connect" => Sent = 0
    /\ pc \notin {"reauth", "backoff"}
Spent ==
  /\ pc \in {"start", "auth"} => attempts = 0
  /\ pc = "send" => attempts <= IF auth_replayed THEN 12 ELSE 11
  /\ pc = "backoff" => attempts <= 11
  /\ pc = "reauth" => attempts <= 12 /\ auth_replayed

\* A credential process is one of a request that has it; a cut one ends the request.
Brokers ==
  /\ broker = "running" => request.source = "process"
  /\ broker = "cut" => pc = "done"

\* The types of the executor's state; what a report says is so, attempts end,
\* and what these two rest on at each control point.
HttpInv == TypeOK /\ OutcomeHonest /\ BoundedAttempts /\ Unsent /\ Spent /\ Brokers

\* A signal ends the request: nothing is sent after it and it never succeeds.
CancelWins ==
  [][cancelled /\ cancelled' =>
       /\ pc' = "sending" => pc = "sending"
       /\ report'.kind = "success" => report.kind = "success"]_vars

\* Every request ends, whatever the server, the network and the broker do.
EveryRequestEnds == []<>(pc = "done")
===============================================================================
