------------------------------ MODULE ApiCommand ------------------------------
(***************************************************************************)
(* `api request`: what is refused before a request body is read, the body  *)
(* read by a thread that a signal or the deadline leaves alone, what is    *)
(* refused before anything is sent, the dry run, the request and, once the *)
(* answer is here, the steps that may still fail.  What an error says of   *)
(* a replay depends on how far the command got.                            *)
(*                                                                         *)
(* The clock is 0 before the deadline, 1 at it and 2 after it.  The sends  *)
(* and replays of one request are HttpExecute's: here they are one step.   *)
(***************************************************************************)
EXTENDS Naturals

CONSTANT Requests      \* the invocations that are tried

VARIABLES
  request,   \* the arguments
  clock, token, stamps,
  pc,        \* control point of request()
  reader,    \* the thread that reads the body
  content,   \* its result
  stamp,     \* when the thread was done
  server,    \* what the server did: it took the request, its answer arrived
  report     \* the outcome, and what it says of the remote side

events == <<clock, token, stamps>>
input == <<reader, content, stamp>>
vars == <<request, events, pc, input, server, report>>

\* query: the endpoint knows all keys (a POST search: there are none), it knows some
\* not, there are scan options (a POST search: keys that would override its body), or
\* a validation of the endpoint refuses it; malformed: parse_query or parse_headers
\* refuse it.
Request == [verb : {"get", "head", "options", "post", "connect"}, service : {"data", "mcp", "auth"},
            style : {"json", "raw", "raw_headers", "raw_terminal"},
            body : {"none", "inline", "stdin", "file"},
            query : {"reviewed", "partial", "options", "invalid", "malformed"},
            route : {"scan", "alias", "search", "entity", "other"},
            absolute : BOOLEAN, acknowledged : BOOLEAN, bound : BOOLEAN, dry : BOOLEAN,
            consent : SUBSET {"unreviewed", "yes", "tenant"}]

Deadline == 1
Never == [at |-> 3, order |-> 3]
NoReport == [kind |-> "none", received |-> "unsaid", safe |-> "unsaid"]
NothingDone == [took |-> FALSE, answered |-> FALSE]

Late == clock >= Deadline
Cancelled == token # Never
Now == [at |-> clock, order |-> stamps]
Precedes(a, b) == a.at < b.at \/ (a.at = b.at /\ a.order < b.order)

Init ==
  /\ request \in Requests
  /\ clock \in 0..1 /\ token = Never /\ stamps = 0
  /\ pc = "start"
  /\ reader = "none" /\ content = "none" /\ stamp = Never
  /\ server = NothingDone /\ report = NoReport

-------------------------------------------------------------------------------
\* What is known of a request before it is sent.

Endpoint(r) ==
  IF r.service # "data" THEN "none"
  ELSE CASE r.route = "scan" /\ r.verb = "post" -> "entity.scan"
         [] r.route = "search" /\ r.verb = "post" -> "entity.search"
         [] r.route = "search" /\ r.verb = "get" -> "entity.search.get"
         [] r.route = "entity" /\ r.verb = "get" -> "entity.get"
         [] OTHER -> "none"

\* The embedded endpoints of the data service are all reads.
ReadSemantic(r) == Endpoint(r) # "none" \/ r.verb \in {"get", "head", "options"}

\* With what apply_endpoint_preflight says of the query: the options of a scan are
\* not reviewed, a GET's are.
Coverage(r) ==
  IF Endpoint(r) = "none" THEN "unknown"
  ELSE IF r.query = "reviewed" \/ (r.query = "options" /\ r.verb = "get") THEN "reviewed"
  ELSE "partial"

Continuation(r) == Endpoint(r) = "entity.scan" /\ r.body # "none"

\* Seeded fault: the continuation of a scan is a read like any other.
PolicyOfEndpoint(r) == IF Coverage(r) = "reviewed" THEN "safe" ELSE "unsafe"

\* request_replay_policy
Policy(r) == IF Coverage(r) # "reviewed" \/ Continuation(r) THEN "unsafe" ELSE "safe"

\* Refused at once.
Malformed(r) ==
  \/ r.verb = "connect" \/ r.service = "auth"
  \/ r.style \in {"raw_headers", "raw_terminal"}
  \/ r.verb \in {"get", "head"} /\ r.body # "none"
  \/ r.query = "malformed"

ScanRoute(r) == r.service = "data" /\ r.verb = "post" /\ r.route \in {"scan", "alias"}

\* The scan route that is not verified, a scan's query, and an acknowledgement of
\* options without any.
ScanRefused(r) ==
  \/ ScanRoute(r) /\ (r.route = "alias" \/ r.query = "invalid")
  \/ r.acknowledged # (ScanRoute(r) /\ r.query = "options")

\* Before the body: by the argument if it is a path, by the resolved URL otherwise.
RefusedBeforeBody(r) == ScanRefused(r)

\* apply_practice_preflight, apply_endpoint_preflight: a POST search needs its body
\* and has no key that would override it; other keys pass, as partial.
PreflightRefused(r) ==
  \/ Endpoint(r) # "none" /\ r.query = "invalid"
  \/ Endpoint(r) = "entity.search" /\ (r.body = "none" \/ r.query = "options")

\* The bodies that are parsed: a search, the cursor of a scan.
BodyParsed(r) == Endpoint(r) \in {"entity.search", "entity.scan"} /\ r.body # "none"

RefusedMutation(r) ==
  /\ ~ReadSemantic(r)
  /\ \/ r.service = "mcp"
     \/ "unreviewed" \notin r.consent \/ "yes" \notin r.consent \/ "tenant" \notin r.consent
     \/ ~r.dry          \* mutation_audit_available is never so

\* By the resolved URL, once the body is here.
RefusedBeforeSending(r) ==
  ScanRefused(r) \/ PreflightRefused(r) \/ ~r.bound \/ RefusedMutation(r)

-------------------------------------------------------------------------------
Goto(label) == pc' = label /\ UNCHANGED report

Say(kind, received, safe) ==
  /\ pc' = "done"
  /\ report' = [kind |-> kind, received |-> received, safe |-> safe]

Rest == UNCHANGED <<request, events, server>>

ControlError(control) == Say(control, "no", "yes")

\* active_input_control
ActiveControl ==
  IF Cancelled /\ (~Late \/ token.at <= Deadline) THEN "canceled"
  ELSE IF Late THEN "timeout" ELSE "none"

\* input_control_after
ControlAfter ==
  LET canceled == Cancelled /\ ~Precedes(stamp, token)
      timedOut == ~(stamp.at < Deadline)
  IN  IF canceled /\ (~timedOut \/ token.at <= Deadline) THEN "canceled"
      ELSE IF timedOut THEN "timeout" ELSE "none"

\* Arguments, and the target of an absolute URL.
Start ==
  /\ pc = "start"
  /\ \/ /\ Malformed(request) \/ RefusedBeforeBody(request)
        /\ Say("refused", "unsaid", "unsaid")
     \/ request.absolute /\ Say("failed", "unsaid", "unsaid")
     \/ ~Malformed(request) /\ ~RefusedBeforeBody(request) /\ Goto("body")
  /\ Rest /\ UNCHANGED input

\* read_input; an inline body may be too large.
Body ==
  /\ pc = "body"
  /\ \/ request.body \in {"none", "inline"} /\ Goto("resolve") /\ UNCHANGED reader
     \/ /\ request.body = "inline" /\ Say("refused", "unsaid", "unsaid") /\ UNCHANGED reader
     \/ /\ request.body \in {"stdin", "file"}
        /\ \/ ActiveControl # "none" /\ ControlError(ActiveControl) /\ UNCHANGED reader
           \/ ActiveControl = "none" /\ Goto("await") /\ reader' = "pending"
  /\ Rest /\ UNCHANGED <<content, stamp>>

\* begin_input_read
BeginRead ==
  /\ reader = "pending"
  /\ \/ ActiveControl = "none" /\ reader' = "reading" /\ UNCHANGED content
     \/ ActiveControl # "none" /\ reader' = "read" /\ content' = ActiveControl
  /\ UNCHANGED <<request, events, pc, stamp, server, report>>

\* Standard input may never end.
Read ==
  /\ reader = "reading"
  /\ reader' = "read" /\ content' \in {"bytes", "unreadable", "too_large"}
  /\ UNCHANGED <<request, events, pc, stamp, server, report>>

\* publish_input_completion
Publish ==
  /\ reader = "read"
  /\ reader' = "completed"
  /\ stamp' = Now /\ stamps' = stamps + 1
  /\ UNCHANGED <<request, clock, token, pc, content, server, report>>

SendBody ==
  /\ reader = "completed"
  /\ reader' = "sent"
  /\ UNCHANGED <<request, events, pc, content, stamp, server, report>>

\* resolve_input_result; the body's limit is looked at last.
Receive ==
  /\ pc = "await" /\ reader = "sent"
  /\ \/ ControlAfter # "none" /\ ControlError(ControlAfter)
     \/ /\ ControlAfter = "none"
        /\ \/ content = "bytes" /\ Goto("resolve")
           \/ content \in {"unreadable", "too_large"} /\ Say("refused", "unsaid", "unsaid")
           \/ content \in {"canceled", "timeout"} /\ ControlError(content)
  /\ Rest /\ UNCHANGED input

\* Seeded fault: the select waits for a reader that is at work.
LeaveReaderIdle ==
  /\ pc = "await" /\ reader = "pending" /\ (Cancelled \/ Late)
  /\ ControlError(ActiveControl)
  /\ Rest /\ UNCHANGED input

\* resolve_input_control: a reader that has its stamp is waited for.
LeaveReader ==
  /\ pc = "await" /\ reader \notin {"completed", "sent"} /\ (Cancelled \/ Late)
  /\ ControlError(ActiveControl)
  /\ Rest /\ UNCHANGED input

\* The target, the URL, the registry and all that is refused before a send.
Resolve ==
  /\ pc = "resolve"
  /\ \/ /\ RefusedBeforeSending(request) \/ BodyParsed(request)
        /\ Say("refused", "unsaid", "unsaid")
     \/ ~request.absolute /\ Say("failed", "unsaid", "unsaid")
     \/ ~RefusedBeforeSending(request) /\ Goto("prepare")
  /\ Rest /\ UNCHANGED input

\* The token manager, its output guard and status, the warnings; the plan of a
\* dry run.
Prepare ==
  /\ pc = "prepare"
  /\ \/ \E kind \in {"failed"} \cup (IF Cancelled THEN {"canceled"} ELSE {})
                              \cup (IF Late THEN {"timeout"} ELSE {}) : Say(kind, "unsaid", "unsaid")
     \/ request.dry /\ Cancelled /\ Say("canceled", "no", "yes")
     \/ request.dry /\ ~Cancelled /\ Late /\ Say("timeout", "no", "yes")
     \/ request.dry /\ ~Cancelled /\ ~Late /\ Say("success", "unsaid", "unsaid")
     \/ ~request.dry /\ Goto("execute")
  /\ Rest /\ UNCHANGED input

\* execute_until: what is not sent is safe to replay; of what is sent, the policy
\* tells.
Execute ==
  /\ pc = "execute"
  /\ \/ /\ ~Cancelled /\ ~Late
        /\ server' = [took |-> TRUE, answered |-> TRUE] /\ Goto("answered")
     \/ /\ \E took \in BOOLEAN :
             /\ server' = [took |-> took, answered |-> FALSE]
             /\ \E kind \in {"failed", "canceled", "timeout"} :
                  \/ Say(kind, "unsaid", IF Policy(request) = "safe" THEN "yes" ELSE "no")
                  \/ ~took /\ Say(kind, "no", "yes")
  /\ UNCHANGED <<request, events, input>>

ReplaySafe(r) == ReadSemantic(r) /\ Policy(r) # "unsafe"

AnsweredError(kind) == Say(kind, "yes", IF ReplaySafe(request) THEN "yes" ELSE "no")

\* The guards, ensure_api_response_active and the warnings; response_output_error
\* says of each of their errors that the answer was received.
Answered ==
  /\ pc = "answered"
  /\ \/ AnsweredError("failed")
     \/ Cancelled /\ AnsweredError("canceled")
     \/ ~Cancelled /\ Late /\ AnsweredError("timeout")
     \/ ~Cancelled /\ ~Late /\ Goto("emit")
  /\ Rest /\ UNCHANGED input

\* emit_success, emit_raw: CommandControl's output, with its own last word on
\* the signal and the deadline.
Emit ==
  /\ pc = "emit"
  /\ \/ AnsweredError("failed")
     \/ Cancelled /\ AnsweredError("canceled")
     \/ Late /\ AnsweredError("timeout")
     \/ Say("success", "unsaid", "unsaid")
  /\ Rest /\ UNCHANGED input

Command ==
  \/ Start \/ Body \/ Receive \/ LeaveReader \/ Resolve \/ Prepare \/ Execute \/ Answered \/ Emit

Reader == BeginRead \/ Publish \/ SendBody

Signal ==
  /\ ~Cancelled /\ pc # "done"
  /\ token' = Now /\ stamps' = stamps + 1
  /\ UNCHANGED <<request, clock, pc, input, server, report>>

Pass ==
  /\ clock < 2 /\ clock' = clock + 1
  /\ UNCHANGED <<request, token, stamps, pc, input, server, report>>

Next == Command \/ Reader \/ Read \/ Signal \/ Pass

Spec == Init /\ [][Next]_vars

\* The command and its thread run and time passes; standard input may hang.
FairSpec == Spec /\ WF_vars(Command) /\ WF_vars(Reader) /\ WF_vars(Pass)

-------------------------------------------------------------------------------
TypeOK ==
  /\ request \in Request
  /\ clock \in 0..2 /\ stamps \in 0..2
  /\ {token, stamp} \subseteq [at : 0..3, order : 0..3]
  /\ pc \in {"start", "body", "await", "resolve", "prepare", "execute", "answered", "emit", "done"}
  /\ reader \in {"none", "pending", "reading", "read", "completed", "sent"}
  /\ content \in {"none", "bytes", "unreadable", "too_large", "canceled", "timeout"}
  /\ server \in [took : BOOLEAN, answered : BOOLEAN]
  /\ report \in [kind : {"none", "refused", "failed", "canceled", "timeout", "success"},
                 received : {"unsaid", "no", "yes"}, safe : {"unsaid", "no", "yes"}]

\* A body is used if its reader was done before the signal and before the deadline,
\* however late the command sees it, and only then.
BodyInTime ==
  (reader # "none" /\ pc \notin {"await", "done"}) =>
    /\ content = "bytes" /\ stamp.at < Deadline
    /\ Cancelled => Precedes(stamp, token)

\* What the server may have taken is called safe to replay only if it is a reviewed
\* read with a reviewed query, and not the continuation of a scan, whose cursor is
\* consumed; what an error says of the answer is so (request_replay_policy,
\* response_output_error).
ReplayHonest ==
  /\ report.safe = "yes" /\ server.took =>
       /\ Coverage(request) = "reviewed" /\ ReadSemantic(request)
       /\ ~Continuation(request)
  /\ report.received = "yes" => server.answered
  /\ report.received = "no" => ~server.took

\* What goes out is a read, tied to the tenant and not by an unverified scan route; a
\* scan's options only if they are acknowledged, a search only with its body and
\* nothing that overrides it.  For a scan that is refused, no body is read.
OnlyAllowedSent ==
  /\ server.took =>
       /\ ReadSemantic(request) /\ request.bound /\ ~request.dry
       /\ Endpoint(request) = "entity.search" =>
            request.body # "none" /\ request.query \in {"reviewed", "partial"}
  /\ server.took \/ reader # "none" =>
       /\ ~(ScanRoute(request) /\ request.route = "alias")
       /\ ScanRoute(request) /\ request.query = "options" => request.acknowledged

\* The command ends, also if standard input does not.
CommandEnds == []<>(pc = "done")
===============================================================================
