------------------------------ MODULE MCRequests ------------------------------
\* What goes out to the network, in one run: a request of the HTTP executor,
\* processes that share the throttle of the token endpoint, and the entity commands
\* that send one request.  They share no state, so a behaviour is one of one part and
\* the other parts rest.
EXTENDS HttpExecute

CONSTANTS Clients, Limit, Window, Timeout, Waits, MaxBack,
          SearchBoundary, HistoryBoundary, PageLimit, Samples, Reads, MaxTotal

ASSUME RateAssumption ==
  /\ Limit \in Nat \ {0} /\ Window \in Nat \ {0} /\ Timeout \in Nat \ {0}
  /\ Waits \subseteq Nat /\ MaxBack \in Nat /\ "nobody" \notin Clients

\* 4096 seconds let twelve attempts happen; of the waits before a replay of a token
\* request, one fits in its timeout and one does not.
SomeBudgets == {0, 4, 4096}
SomeInstants == {0, 3}
SomeDelays == {0, 9}
SomeWaits == {1, 2}

\* The requests for entities: one of each kind that is valid, and what it becomes when
\* one or two of its parameters are something else.
Valid(op) ==
  [op |-> op, entity |-> "id", value |-> "plain", source_type |-> "plain",
   source_table |-> "none", select |-> "none", filter |-> IF op = "scan" THEN "plain" ELSE "none",
   sort |-> "none", order |-> IF op = "history" THEN "plain" ELSE "none",
   activeness |-> "none", match_type |-> "none", group |-> "none", transcode |-> "none",
   cursor |-> "none", options |-> {}, max |-> 2, offset |-> 0, show_all |-> FALSE,
   masked |-> FALSE, ack |-> FALSE]
Commands == {"get", "by-crosswalk", "history", "matches", "search", "scan"}

Parameters(op) ==
  CASE op = "get" -> {"entity", "select", "group", "transcode", "options", "masked"}
    [] op = "by-crosswalk" -> {"value", "source_type", "source_table", "options"}
    [] op = "history" -> {"entity", "max", "offset", "order", "filter", "show_all", "options"}
    [] op = "matches" -> {"entity", "max", "offset", "match_type"}
    [] op = "search" ->
         {"max", "offset", "filter", "select", "sort", "order", "options", "activeness"}
    [] op = "scan" -> {"max", "filter", "select", "options", "activeness", "cursor", "ack"}
Given == {"plain", "unknown", "empty", "control"}
Values(op, parameter) ==
  CASE parameter = "entity" -> {"not_an_id"} [] parameter = "value" -> {"unknown", "empty"}
    [] parameter = "max" -> {0, 1, 3, 6} [] parameter = "offset" -> {1, 2, 4, 6}
    [] parameter \in {"show_all", "masked", "ack"} -> {TRUE}
    [] parameter = "options" ->
         IF op = "history" THEN {{"plain"}}
         ELSE {{"plain"}, {"ovOnly", "nonOvOnly"}, {"unknown"}, {"bad"}}
    [] parameter = "source_type" -> (Given \ {"plain"}) \cup {"padded"}
    [] parameter = "order" /\ op = "history" -> Given \ {"plain"}
    [] parameter = "filter" -> Given \cup {"long"}
    [] OTHER -> Given
Varied(requests) ==
  requests \cup
    UNION {UNION {{[r EXCEPT ![parameter] = value] : value \in Values(r.op, parameter)} :
                    parameter \in Parameters(r.op)} : r \in requests}
SomeSamples == Varied(Varied({Valid(op) : op \in Commands}))
SomeReads ==
  {Valid(op) : op \in Commands \ {"scan"}}
    \cup {[Valid(op) EXCEPT !.max = 3] : op \in {"search", "history"}}
    \cup {[Valid("get") EXCEPT !.transcode = "plain"], [Valid("search") EXCEPT !.max = 5]}

VARIABLES
  part, file, lock, draft, since, recent, back, step, until, wake, sent, withheld, paid,
  bared, asked, format, quiet, total, canceled, late, at, page, told, out, seen, verdict

Rate == INSTANCE TokenRateLimit
          WITH Delays <- Waits, pc <- step, left <- until, attempts <- sent,
               guard <- withheld
Reading == INSTANCE EntityReads
             WITH answer <- page

ASSUME ReadsAssumption ==
  /\ SearchBoundary \in Nat /\ HistoryBoundary \in Nat /\ PageLimit \in Nat /\ MaxTotal \in Nat
  /\ Samples \cup Reads \subseteq Reading!Typed

rateVars ==
  <<file, lock, draft, since, recent, back, step, until, wake, sent, withheld, paid,
    bared>>
readVars ==
  <<asked, format, quiet, total, canceled, late, at, page, told, out, seen, verdict>>
all == <<part, vars, rateVars, readVars>>

HttpRests ==
  /\ request = (CHOOSE r \in Request : TRUE)
  /\ left = (CHOOSE n \in Budgets : TRUE)
ReadRests ==
  /\ asked = (CHOOSE r \in Reads : TRUE)
  /\ format = "json" /\ quiet = FALSE /\ total = 0

RequestsInit ==
  /\ part \in {"http", "rate", "read"}
  /\ Init /\ Rate!Init /\ Reading!Init
  /\ part # "http" => HttpRests
  /\ part # "read" => ReadRests

InHttp(A) == part = "http" /\ A /\ UNCHANGED <<part, rateVars, readVars>>
InRate(A) == part = "rate" /\ A /\ UNCHANGED <<part, vars, readVars>>
InRead(A) == part = "read" /\ A /\ UNCHANGED <<part, vars, rateVars>>

RequestsNext == InHttp(Next) \/ InRate(Rate!Next) \/ InRead(Reading!Next)

\* The fairness of the two specifications that have one; a behaviour is of one of them,
\* so one conjunct can stand for an action of each.
RequestsSpec ==
  /\ RequestsInit /\ [][RequestsNext]_all
  /\ WF_all(InHttp(Wait) \/ InRate(Rate!Tick))
  /\ \A c \in Clients : WF_all(InHttp(Forced) \/ InRate(Rate!Forced(c)))

-------------------------------------------------------------------------------
\* Properties, stated where the parts are specified.

\* The types of the throttle's state; no window has more reservations than allowed,
\* the file stays usable, each request has its reservation (TokenRateLimit).
RateInv == Rate!TypeOK /\ Rate!ThrottleHolds

\* Whatever comes of the replay of a token request, what it gives back has the guard of
\* every answer before, but for the errors of the throttle (TokenRateLimit).
AnswersGuarded == Rate!AnswersGuarded

\* The types of a command for entities; pages that are followed miss nothing that is
\* not told, no data goes out before its warnings, errors tell of the answer, and a
\* typed request is judged as its raw form is (EntityReads, EntityRequests).
ReadsInv == part = "read" => Reading!TypeOK /\ Reading!ReadsHold

\* Every request and every acquisition of a token ends, whatever the server, the
\* network and the other processes do.
EveryCallEnds ==
  \A c \in Clients :
    []<>CASE part = "http" -> pc = "done"
          [] part = "rate" -> step[c] = "idle"
          [] OTHER -> TRUE
===============================================================================
