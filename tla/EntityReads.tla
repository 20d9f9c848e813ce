----------------------------- MODULE EntityReads ------------------------------
(***************************************************************************)
(* The entity commands that send one request: what is refused, the request,*)
(* the shape of its answer, the warnings that go before the output, and    *)
(* the output.  A signal or the deadline may arrive at any point.          *)
(*                                                                         *)
(* A search and a history tell how to go on; the caller does, invocation   *)
(* by invocation, while what there is to find stays the same.  The request *)
(* itself is HttpExecute's, the output CommandControl's: here each is one  *)
(* step.                                                                   *)
(***************************************************************************)
EXTENDS EntityRequests, FiniteSets

CONSTANTS
  Samples,    \* requests whose review is looked at
  Reads,      \* those that are followed in every format, whatever there is to find
  MaxTotal    \* bound on what there is to find

VARIABLES
  asked,      \* the arguments
  format,     \* RenderOptions::format
  quiet,      \* --quiet
  total,      \* what there is to find
  canceled, late,
  at,         \* control point of the command
  answer,     \* the answer of the server
  told,       \* warnings that the caller sees
  out,        \* what was written of the answer
  seen,       \* what the caller got since the first page
  verdict     \* the outcome, and what an error says of the remote side

arguments == <<asked, format, quiet, total>>
vars == <<arguments, canceled, late, at, answer, told, out, seen, verdict>>

Nothing == [shape |-> "none", count |-> 0, fallback |-> FALSE]
NoVerdict == [kind |-> "none", received |-> "unsaid", status |-> FALSE]

Streamed == format \in {"raw", "table"}       \* no metadata goes with the output
Pages == {"search", "history"}

Init ==
  /\ asked \in Samples \cup Reads
  /\ IF asked \in Reads
     THEN /\ format \in {"json", "table", "raw"} /\ quiet \in BOOLEAN
          /\ total \in IF asked.op \in Pages THEN 0..MaxTotal ELSE {0}
     ELSE format = "json" /\ quiet = FALSE /\ total = 0
  /\ canceled = FALSE /\ late = FALSE
  /\ at = "start" /\ answer = Nothing
  /\ told = {} /\ out = "none" /\ seen = {} /\ verdict = NoVerdict

-------------------------------------------------------------------------------
\* What the client makes of an answer.

\* The entries that a page of the server has, oldest offset first.
PageOf(r) == {n \in 0..(total - 1) : r.offset <= n /\ n < r.offset + r.max}

BoundaryOf(r) == IF r.op = "search" THEN SearchBoundary ELSE HistoryBoundary

\* EntitiesClient::get, by_crosswalk, matches; parse_array for the others
GetShape == {"object", "groups"}
CrosswalkShape == {"array"}
MatchesShape == {"groups"}
PageShape == {"array"}

Shapes(r) ==
  CASE r.op = "get" -> GetShape [] r.op = "by-crosswalk" -> CrosswalkShape
    [] r.op = "matches" -> MatchesShape [] OTHER -> PageShape

\* Seeded fault: a page that ends at the boundary is the last one.
SearchPageNoBoundary(r, a) ==
  [next |-> IF a.count = r.max /\ r.offset + a.count < SearchBoundary
            THEN {r.offset + a.count} ELSE {},
   boundary |-> FALSE]

\* EntitiesClient::search
SearchPage(r, a) ==
  [next |-> IF a.count = r.max /\ r.offset + a.count < SearchBoundary
            THEN {r.offset + a.count} ELSE {},
   boundary |-> a.count = r.max /\ r.offset + a.count >= SearchBoundary]

\* EntitiesClient::history
HistoryPage(r, a) ==
  [next |-> IF a.count = r.max /\ r.offset + a.count < HistoryBoundary
            THEN {r.offset + a.count} ELSE {},
   boundary |-> a.count = r.max /\ r.offset + a.count >= HistoryBoundary]

PageResult(r, a) == IF r.op = "search" THEN SearchPage(r, a) ELSE HistoryPage(r, a)

-------------------------------------------------------------------------------
\* The warnings of each command.

GetWarnings(r, a) == IF r.transcode # "none" THEN {"transcode"} ELSE {}
ByCrosswalkWarnings(r, a) == IF a.fallback THEN {"fallback"} ELSE {}
SearchWarnings(r, a) == IF SearchPage(r, a).boundary THEN {"boundary"} ELSE {}
HistoryWarnings(r, a) ==
  {"canonical"} \cup IF HistoryPage(r, a).boundary THEN {"boundary"} ELSE {}
MatchesWarnings(r, a) == {"freshness"}

-------------------------------------------------------------------------------
Goto(label) == at' = label /\ UNCHANGED verdict
Say(kind, received, status) ==
  /\ at' = "done"
  /\ verdict' = [kind |-> kind, received |-> received, status |-> status]

Controls == (IF canceled THEN {"canceled"} ELSE {}) \cup (IF late THEN {"timeout"} ELSE {})
Stays == UNCHANGED <<arguments, canceled, late, seen>>

\* The validator; the target, the token manager with its guard and status, and the
\* client, each of which may fail.
Prepare(valid) ==
  /\ at = "start"
  /\ \/ ~valid /\ Say("refused", "unsaid", FALSE)
     \/ valid /\ \E kind \in {"failed"} \cup Controls : Say(kind, "unsaid", FALSE)
     \/ valid /\ late /\ Say("timeout", "no", FALSE)       \* http_client_until
     \/ valid /\ ~late /\ Goto("execute")
  /\ Stays /\ UNCHANGED <<answer, told, out>>

\* The server answers with a page, or with something else; an upstream error is
\* one of execute.
Execute ==
  /\ at = "execute"
  /\ \/ /\ ~canceled /\ ~late
        /\ \E shape \in {"object", "array", "groups", "scalar", "invalid"}, fallback \in BOOLEAN :
             /\ fallback => asked.op = "by-crosswalk"
             /\ answer' = [shape |-> shape, count |-> Cardinality(PageOf(asked)),
                           fallback |-> fallback]
        /\ Goto("parse")
     \/ \E kind \in {"failed"} \cup Controls, received \in {"no", "unsaid"} :
          Say(kind, received, FALSE) /\ UNCHANGED answer
  /\ Stays /\ UNCHANGED <<told, out>>

\* response.json() and the shape of the answer.
Parse(shapes) ==
  /\ at = "parse"
  /\ \/ (answer.shape \notin shapes) /\ Say("failed", "unsaid", TRUE)
     \/ (answer.shape \in shapes) /\ Goto("received")
  /\ Stays /\ UNCHANGED <<answer, told, out>>

\* ensure_finite_response_active
Active(next) ==
  \/ canceled /\ Say("canceled", "yes", TRUE)
  \/ ~canceled /\ late /\ Say("timeout", "yes", TRUE)
  \/ ~canceled /\ ~late /\ Goto(next)

Received ==
  /\ at = "received"
  /\ Active("warn")
  /\ Stays /\ UNCHANGED <<answer, told, out>>

\* read_response_output_error
OutputError == \E kind \in {"failed"} \cup Controls : Say(kind, "yes", TRUE)

\* emit_warning, one after the other, before raw or table output; the other formats
\* have them in their metadata.
Warn(warnings) ==
  /\ at = "warn"
  /\ IF Streamed /\ ~quiet /\ ~(warnings \subseteq told)
     THEN \/ \E w \in warnings \ told : told' = told \cup {w} /\ Goto("warn")
          \/ OutputError /\ UNCHANGED told
     ELSE Goto("render") /\ told' = (IF Streamed THEN told ELSE warnings)
  /\ Stays /\ UNCHANGED <<answer, out>>

\* redacted_body may refuse; then the last look at the signal and the deadline.
Render ==
  /\ at = "render"
  /\ (format = "raw" /\ Say("failed", "unsaid", TRUE)) \/ Active("emit")
  /\ Stays /\ UNCHANGED <<answer, told, out>>

\* emit_success, emit_raw
Emit ==
  /\ at = "emit"
  /\ \/ out' = "all" /\ Say("success", "unsaid", FALSE)
        /\ seen' = seen \cup (IF asked.op \in Pages THEN PageOf(asked) ELSE {})
     \/ out' \in {"none", "part"} /\ OutputError /\ UNCHANGED seen
  /\ UNCHANGED <<arguments, canceled, late, answer, told>>

Read(valid, shapes, warnings) ==
  \/ Prepare(valid) \/ Execute \/ Parse(shapes) \/ Received \/ Warn(warnings) \/ Render \/ Emit

Get == asked.op = "get" /\ Read(ValidGet(asked), GetShape, GetWarnings(asked, answer))

ByCrosswalk ==
  /\ asked.op = "by-crosswalk"
  /\ Read(ValidByCrosswalk(asked), CrosswalkShape, ByCrosswalkWarnings(asked, answer))

Search ==
  asked.op = "search" /\ Read(ValidSearch(asked), PageShape, SearchWarnings(asked, answer))

History ==
  asked.op = "history" /\ Read(ValidHistory(asked), PageShape, HistoryWarnings(asked, answer))

Matches ==
  asked.op = "matches" /\ Read(ValidMatches(asked), MatchesShape, MatchesWarnings(asked, answer))

\* The caller goes on with what the metadata of a page offers.
GoOn ==
  /\ at = "done" /\ verdict.kind = "success" /\ asked.op \in Pages /\ ~Streamed
  /\ \E offset \in PageResult(asked, answer).next : asked' = [asked EXCEPT !.offset = offset]
  /\ at' = "start" /\ answer' = Nothing /\ told' = {} /\ out' = "none" /\ verdict' = NoVerdict
  /\ canceled' = FALSE /\ late' = FALSE
  /\ UNCHANGED <<format, quiet, total, seen>>

Signal ==
  /\ ~canceled /\ at # "done"
  /\ canceled' = TRUE
  /\ UNCHANGED <<arguments, late, at, answer, told, out, seen, verdict>>

Pass ==
  /\ ~late /\ at # "done"
  /\ late' = TRUE
  /\ UNCHANGED <<arguments, canceled, at, answer, told, out, seen, verdict>>

Next == Get \/ ByCrosswalk \/ Search \/ History \/ Matches \/ GoOn \/ Signal \/ Pass

Spec == Init /\ [][Next]_vars

-------------------------------------------------------------------------------
TypeOK ==
  /\ asked \in Typed /\ format \in {"json", "table", "raw"} /\ quiet \in BOOLEAN
  /\ total \in 0..MaxTotal /\ seen \subseteq 0..(total - 1)
  /\ canceled \in BOOLEAN /\ late \in BOOLEAN
  /\ at \in {"start", "execute", "parse", "received", "warn", "render", "emit", "done"}
  /\ answer.shape \in {"none", "object", "array", "groups", "scalar", "invalid"}
  /\ told \subseteq {"transcode", "fallback", "boundary", "canonical", "freshness"}
  /\ out \in {"none", "part", "all"}
  /\ verdict \in [kind : {"none", "refused", "failed", "canceled", "timeout", "success"},
                  received : {"unsaid", "no", "yes"}, status : BOOLEAN]

\* A caller that goes on as it is told gets everything there is from where it began, or
\* is told that the boundary cut it short.  The last page is one that succeeded and
\* offers no continuation.
AllOrTold ==
  (/\ asked.op \in Pages /\ ~Streamed /\ at = "done" /\ verdict.kind = "success"
   /\ PageResult(asked, answer).next = {})
  => \/ \A n \in 0..(total - 1) :
          n \in seen \/ (n < asked.offset /\ \A m \in seen : n < m)
     \/ "boundary" \in told

\* Who sees data has seen what is to be known of it: that it is not the entity that
\* was asked for, that older events are cut, or that matches may be stale.
WarnedFirst ==
  out # "none" =>
    \/ Streamed /\ quiet
    \/ /\ answer.fallback => "fallback" \in told
       /\ asked.op = "history" => "canonical" \in told
       /\ asked.op = "matches" => "freshness" \in told
       /\ asked.op \in Pages /\ asked.offset + answer.count >= BoundaryOf(asked) =>
            "boundary" \in told

\* What an error says of the answer is so, and no error hides the status of an answer
\* that is here; data goes out only of an answer that came in time.
AnswerReported ==
  /\ verdict.received = "yes" \/ verdict.status => answer # Nothing
  /\ verdict.received = "no" => answer = Nothing
  /\ answer # Nothing /\ verdict.kind \notin {"none", "success"} => verdict.status

ReadsHold ==
  AllOrTold /\ WarnedFirst /\ AnswerReported /\ (at = "start" => TypedIsReviewed(asked))
===============================================================================
