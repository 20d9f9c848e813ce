---------------------------- MODULE EntityRequests ----------------------------
(***************************************************************************)
(* What is refused of a request for entities before anything is sent: by   *)
(* the validators of the typed commands, and by the preflight of a raw     *)
(* request to the same endpoints, which reads a query and a body again.    *)
(*                                                                         *)
(* A text stands for its class: it is what the endpoint's review knows     *)
(* ("plain"), a value outside of it ("unknown"), empty, padded with blanks *)
(* or blank ("padded"), too long for a filter ("long"), or it contains a   *)
(* control character.  "none" is a parameter that is not given.  A query   *)
(* and a JSON body are functions from the keys that they have.             *)
(***************************************************************************)
EXTENDS Integers

CONSTANTS
  SearchBoundary,    \* SEARCH_RESULT_BOUNDARY
  HistoryBoundary,   \* HISTORY_RESULT_BOUNDARY
  PageLimit          \* ENTITY_SCAN_PAGE_LIMIT

Text == {"none", "plain", "unknown", "empty", "control", "padded", "long"}
Option == {"plain", "ovOnly", "nonOvOnly", "unknown", "bad"}   \* bad: empty, or with controls

Request == [op : {"get", "by-crosswalk", "history", "matches", "search", "scan"},
            entity : {"id", "not_an_id"}, value : {"plain", "unknown", "empty"},
            source_type : Text, source_table : Text, select : Text, filter : Text,
            sort : Text, order : Text, activeness : Text, match_type : Text, group : Text,
            transcode : Text, cursor : Text, options : SUBSET Option,
            max : Nat, offset : Nat, show_all : BOOLEAN, masked : BOOLEAN, ack : BOOLEAN]

\* A history has one option, which is a flag of its command.
Typed == {r \in Request : r.op = "history" => r.options \subseteq {"plain"}}

-------------------------------------------------------------------------------
\* The validators.

OneLine(text) == text # "control"                           \* validate_optional_text
Filled(text) == text \notin {"control", "empty"}            \* validate_nonempty_query_text
Required(text) == Filled(text) /\ text \notin {"none", "padded"}
ValidFilter(text) == text # "long"                          \* validate_query_filter
Individual(options) == "bad" \notin options                 \* validate_options
KnownOptions(options) == options \subseteq {"plain", "ovOnly", "nonOvOnly"}
Exclusive(options) == ~({"ovOnly", "nonOvOnly"} \subseteq options)
ValidActiveness(text) == text \in {"none", "plain"}

\* normalize_entity_uri
ValidEntity(r) == r.entity = "id"

\* validate_get_select, validate_get_options
ValidSelect(text) == text \in {"none", "plain"}
ValidGetOptions(options) == Individual(options) /\ KnownOptions(options)

ValidGet(r) ==
  /\ ValidEntity(r) /\ ValidSelect(r.select) /\ ValidGetOptions(r.options)
  /\ Filled(r.group) /\ Filled(r.transcode)

ValidByCrosswalk(r) ==
  /\ r.value = "plain" /\ Required(r.source_type) /\ Filled(r.source_table)
  /\ Individual(r.options) /\ KnownOptions(r.options) /\ Exclusive(r.options)

ValidHistory(r) ==
  /\ ValidEntity(r) /\ r.max # 0 /\ r.offset + r.max <= HistoryBoundary
  /\ r.order = "plain" /\ Filled(r.filter)
  /\ r.show_all => r.filter = "none"

ValidMatches(r) == ValidEntity(r) /\ r.max # 0 /\ r.match_type \in {"none", "plain"}

ValidSearch(r) ==
  /\ r.max # 0 /\ r.offset + r.max <= SearchBoundary
  /\ ValidFilter(r.filter) /\ OneLine(r.filter) /\ OneLine(r.select) /\ OneLine(r.sort)
  /\ Individual(r.options)
  /\ r.order # "none" => r.order = "plain" /\ r.sort # "none"
  /\ ValidActiveness(r.activeness)

\* validate_scan_options
ValidScanOptions(options) == Individual(options) /\ KnownOptions(options) /\ Exclusive(options)

ValidScan(r) ==
  /\ r.max \in 1..PageLimit
  /\ r.cursor = "none" => r.filter \notin {"none", "empty"}
  /\ r.cursor # "empty"
  /\ r.cursor # "none" => {r.filter, r.select, r.activeness} = {"none"} /\ r.options = {}
  /\ ValidFilter(r.filter) /\ OneLine(r.filter) /\ OneLine(r.select)
  /\ ValidScanOptions(r.options) /\ ValidActiveness(r.activeness)

\* validate_scan_option_acknowledgement
Acknowledged(r) == r.ack <=> r.options # {}

Valid(r) ==
  CASE r.op = "get" -> ValidGet(r)
    [] r.op = "by-crosswalk" -> ValidByCrosswalk(r)
    [] r.op = "history" -> ValidHistory(r)
    [] r.op = "matches" -> ValidMatches(r)
    [] r.op = "search" -> ValidSearch(r)
    [] r.op = "scan" -> ValidScan(r) /\ Acknowledged(r)

-------------------------------------------------------------------------------
\* What the typed commands send.

\* The provers do not know the :> and @@ of TLC.
Pair(key, value) == [k \in {key} |-> value]
f ++ g == [k \in DOMAIN f \cup DOMAIN g |-> IF k \in DOMAIN f THEN f[k] ELSE g[k]]

Empty == [k \in {} |-> 0]
Given(key, text) == IF text = "none" THEN Empty ELSE Pair(key, text)
Flag(key, on) == IF on THEN Pair(key, "true") ELSE Empty
Options(r) == IF r.options = {} THEN Empty ELSE Pair("options", r.options)
Page(r) == Pair("max", r.max) ++ Pair("offset", r.offset)

SentGet(r) ==
  [query |-> Given("select", r.select) ++ Options(r) ++ Flag("sendMasked", r.masked)
               ++ Given("explicitSurvivorshipGroup", r.group)
               ++ Given("reverseTranscodeLookups", r.transcode),
   body |-> Empty]

SentByCrosswalk(r) ==
  [query |-> Pair("type", r.source_type) ++ Given("sourceTable", r.source_table) ++ Options(r),
   body |-> Empty]

SentHistory(r) ==
  [query |-> Page(r) ++ Pair("order", r.order) ++ Given("filter", r.filter)
               ++ Flag("showAll", r.show_all) ++ Options(r),
   body |-> Empty]

SentMatches(r) ==
  [query |-> Pair("transitive", "false") ++ Pair("forceMatch", "false") ++ Pair("deep", 1)
               ++ Page(r) ++ Given("type", r.match_type),
   body |-> Empty]

\* Serialize for EntitySearchRequest
SentSearch(r) ==
  [query |-> Empty,
   body |-> Page(r) ++ Given("filter", r.filter) ++ Given("select", r.select)
              ++ Given("sort", r.sort) ++ Given("order", r.order) ++ Options(r)
              ++ Given("activeness", r.activeness)]

SentScan(r) ==
  [query |-> Pair("max", r.max)
               ++ IF r.cursor # "none" THEN Empty
                  ELSE Given("filter", r.filter) ++ Given("select", r.select) ++ Options(r)
                         ++ Given("activeness", r.activeness),
   body |-> Given("cursor", r.cursor)]

Sent(r) ==
  CASE r.op = "get" -> SentGet(r) [] r.op = "by-crosswalk" -> SentByCrosswalk(r)
    [] r.op = "history" -> SentHistory(r) [] r.op = "matches" -> SentMatches(r)
    [] r.op = "search" -> SentSearch(r) [] r.op = "scan" -> SentScan(r)

-------------------------------------------------------------------------------
\* apply_endpoint_preflight, a branch for each endpoint.

Unparsed == -1                \* a number that is none

TextOf(q, key) == IF key \in DOMAIN q THEN q[key] ELSE "none"
OptionsOf(q) == IF "options" \in DOMAIN q THEN q["options"] ELSE {}
Number(q, key, default) == IF key \in DOMAIN q THEN q[key] ELSE default

\* query_u32, query_operation_u32, query_entity_get_u32
Numbers(q, keys) == \A key \in keys \cap DOMAIN q : q[key] # Unparsed

\* query_bool, query_operation_bool, query_entity_get_bool
Booleans(q, keys) == \A key \in keys \cap DOMAIN q : q[key] \in {"true", "false"}
On(q, key) == TextOf(q, key) = "true"

\* What a command passes to the validators where it has no parameter.
Unset == [entity |-> "id", value |-> "plain", source_type |-> "none", source_table |-> "none",
          select |-> "none", filter |-> "none", sort |-> "none", order |-> "none",
          activeness |-> "none", match_type |-> "none", group |-> "none", transcode |-> "none",
          cursor |-> "none", options |-> {}, max |-> 1, offset |-> 0, show_all |-> FALSE,
          masked |-> FALSE, ack |-> FALSE]

Verdict(refused, reviewed) ==
  IF refused THEN "refused" ELSE IF reviewed THEN "reviewed" ELSE "partial"

PreflightByCrosswalk(value, q, body) ==
  Verdict(\/ body # Empty
          \/ ~ValidByCrosswalk([Unset EXCEPT !.value = value, !.source_type = TextOf(q, "type"),
                                             !.source_table = TextOf(q, "sourceTable"),
                                             !.options = OptionsOf(q)]),
          DOMAIN q \subseteq {"type", "sourceTable", "options"})

GetKeys == {"select", "time", "options", "mergeDuplicateCrosswalks", "defaultMaxValues",
            "explicitSurvivorshipGroup", "reverseTranscodeLookups", "sendMasked"}

PreflightGet(q, body) ==
  Verdict(\/ body # Empty \/ ~Numbers(q, {"time", "defaultMaxValues"})
          \/ ~Booleans(q, {"mergeDuplicateCrosswalks", "sendMasked"})
          \/ ~ValidGet([Unset EXCEPT !.select = TextOf(q, "select"), !.options = OptionsOf(q),
                                     !.group = TextOf(q, "explicitSurvivorshipGroup"),
                                     !.transcode = TextOf(q, "reverseTranscodeLookups")]),
          DOMAIN q \subseteq GetKeys)

SearchKeys == {"filter", "select", "max", "offset", "sort", "order", "options",
               "defaultMaxValues", "activeness", "scoreEnabled"}

\* EntitySearchRequest, from a query or from a body; 50 results by default.
SearchOf(q, default) ==
  [Unset EXCEPT !.filter = TextOf(q, "filter"), !.select = TextOf(q, "select"),
                !.max = Number(q, "max", default), !.offset = Number(q, "offset", 0),
                !.sort = TextOf(q, "sort"), !.order = TextOf(q, "order"),
                !.options = OptionsOf(q), !.activeness = TextOf(q, "activeness")]

WellFormedSearch(q) ==
  /\ Numbers(q, {"max", "offset", "defaultMaxValues"})
  /\ Booleans(q, {"scoreEnabled"})

\* A JSON body with a key that is not known does not match the schema.
PreflightSearch(q, body, default) ==
  Verdict(\/ body = Empty \/ DOMAIN q \cap SearchKeys # {}
          \/ ~(DOMAIN body \subseteq SearchKeys) \/ ~WellFormedSearch(body)
          \/ ~ValidSearch(SearchOf(body, default)),
          q = Empty)

PreflightSearchGet(q, body, default) ==
  Verdict(body # Empty \/ ~WellFormedSearch(q) \/ ~ValidSearch(SearchOf(q, default)),
          DOMAIN q \subseteq SearchKeys)

\* Seeded fault: a continuation may carry the parameters of the first request.
PreflightScanLoose(q, body, default) ==
  Verdict(\/ ~Numbers(q, {"max"})
          \/ ~ValidScan([Unset EXCEPT !.filter = IF body = Empty THEN TextOf(q, "filter") ELSE "none",
                                      !.cursor = TextOf(body, "cursor"),
                                      !.max = Number(q, "max", default)]),
          DOMAIN q \subseteq {"filter", "max", "select", "options", "activeness"})

PreflightScan(q, body, default) ==
  Verdict(\/ ~Numbers(q, {"max"}) \/ ~(DOMAIN body \subseteq {"cursor"})
          \/ ~ValidScan([Unset EXCEPT !.filter = TextOf(q, "filter"),
                                      !.cursor = TextOf(body, "cursor"),
                                      !.max = Number(q, "max", default),
                                      !.select = TextOf(q, "select"), !.options = OptionsOf(q),
                                      !.activeness = TextOf(q, "activeness")]),
          /\ OptionsOf(q) = {}
          /\ DOMAIN q \subseteq {"filter", "max", "select", "options", "activeness"})

\* The order that the server would choose is not relied on.
PreflightHistory(q, default) ==
  Verdict(\/ ~(OptionsOf(q) \subseteq {"plain"})
          \/ ~Numbers(q, {"max", "offset"}) \/ ~Booleans(q, {"showAll", "showMajorEventsOnly"})
          \/ ~ValidHistory([Unset EXCEPT !.max = Number(q, "max", default),
                                         !.offset = Number(q, "offset", 0),
                                         !.order = IF "order" \in DOMAIN q THEN q["order"]
                                                   ELSE "plain",
                                         !.filter = TextOf(q, "filter"),
                                         !.show_all = On(q, "showAll")]),
          /\ "order" \in DOMAIN q
          /\ DOMAIN q \subseteq {"max", "offset", "order", "filter", "showAll",
                                 "showMajorEventsOnly", "options"})

\* A forced match computes; only direct matches are reviewed, and known types.
PreflightMatches(q, default) ==
  Verdict(\/ ~Booleans(q, {"transitive", "forceMatch"}) \/ On(q, "forceMatch")
          \/ ~Numbers(q, {"deep", "max", "offset"}) \/ Number(q, "deep", 1) = 0
          \/ ~Filled(TextOf(q, "type"))
          \/ ~ValidMatches([Unset EXCEPT !.max = Number(q, "max", default)]),
          /\ ~On(q, "transitive") /\ Number(q, "deep", 0) = 1
          /\ TextOf(q, "type") \in {"none", "plain"}
          /\ DOMAIN q \subseteq {"transitive", "forceMatch", "deep", "max", "offset", "type"})

\* The defaults of the raw requests are pages that fit.
Preflight(r, sent) ==
  LET q == sent.query  body == sent.body IN
  CASE r.op = "get" -> PreflightGet(q, body)
    [] r.op = "by-crosswalk" -> PreflightByCrosswalk(r.value, q, body)
    [] r.op = "history" -> PreflightHistory(q, 1)
    [] r.op = "matches" -> PreflightMatches(q, 1)
    [] r.op = "search" -> PreflightSearch(q, body, 1)
    [] r.op = "scan" -> PreflightScan(q, body, 1)

-------------------------------------------------------------------------------
\* The window of a page, for the warning that a boundary is reached.

\* reviewed_entity_search_window, reviewed_entity_history_window
SearchWindow(body) == <<Number(body, "offset", 0), Number(body, "max", 1)>>
HistoryWindow(q) == <<Number(q, "offset", 0), Number(q, "max", 1)>>

\* entity_search_boundary_reached, entity_history_boundary_reached
BoundaryReached(window, returned, boundary) ==
  returned = window[2] /\ window[1] + returned >= boundary

-------------------------------------------------------------------------------
\* A raw request with the parameters of a typed one.
RawOf(r) ==
  IF r.op # "scan" THEN Sent(r)
  ELSE [query |-> Pair("max", r.max) ++ Given("filter", r.filter) ++ Given("select", r.select)
                    ++ Options(r) ++ Given("activeness", r.activeness),
        body |-> Given("cursor", r.cursor)]

\* What only the typed commands refuse: the raw request is let through, unreviewed,
\* or its path is refused elsewhere (RequestRoute).
OnlyTyped(r) ==
  \/ ~ValidEntity(r)
  \/ r.op = "matches" /\ r.match_type \notin {"none", "plain"}
  \/ r.op = "scan" /\ ~Acknowledged(r)

\* A request that a typed command refuses is refused as a raw one, and what a typed
\* command sends is what was reviewed (only a scan with options is not, and then
\* nothing is replayed).  A key that is not known, or a number or a boolean that is
\* none, is never taken for reviewed.  A search is judged alike in a query and in a
\* body, and its window for the boundary is the one that was validated.
TypedIsReviewed(r) ==
  LET raw == RawOf(r)
      verdict == Preflight(r, raw)
      more == [raw EXCEPT !.query = @ ++ Pair("unreviewed", "plain")]
      odd(key, value) == Preflight(r, [raw EXCEPT !.query[key] = value])
  IN  /\ Valid(r) =>
           /\ raw = Sent(r)
           /\ verdict = IF r.op = "scan" /\ r.options # {} THEN "partial" ELSE "reviewed"
      /\ ~Valid(r) => verdict = "refused" \/ OnlyTyped(r)
      /\ Preflight(r, more) # "reviewed"
      /\ \A key \in DOMAIN raw.query \cap {"max", "offset", "deep"} :
           odd(key, Unparsed) = "refused"
      /\ \A key \in DOMAIN raw.query \cap {"sendMasked", "showAll", "transitive", "forceMatch"} :
           odd(key, "unknown") = "refused"
      /\ r.op = "search" =>
           /\ verdict = PreflightSearchGet(raw.body, Empty, 1)
           /\ SearchWindow(raw.body) = <<r.offset, r.max>>
      /\ r.op = "history" => HistoryWindow(raw.query) = <<r.offset, r.max>>
===============================================================================
