----------------------------- MODULE RequestRoute -----------------------------
(***************************************************************************)
(* From the path argument of a raw request to its URL, the endpoint whose  *)
(* practices apply and the tenant it is bound to.  Servers differ in how   *)
(* they read a path: if and how often they decode it, before or after it   *)
(* is cut at the slashes.  What the command takes a path for has to be     *)
(* what every one of them does with it.                                    *)
(*                                                                         *)
(* A segment is a sequence of Atoms: words, or characters, or one escape   *)
(* as one atom.  The join of two URLs is the url crate's: it adds nothing  *)
(* to segments that are no dots.  Invalid UTF-8 is left out.               *)
(***************************************************************************)
EXTENDS Naturals, Sequences

CONSTANTS Segments,    \* the segments that paths are made of
          MaxSegments  \* bound: segments in the argument

VARIABLES service, argument, outcome

vars == <<service, argument, outcome>>

Services == {"data", "jobs", "rdm"}
\* The base's segments: the data service's ends with the tenant.
Base == [data |-> <<<<"api">>, <<"T">>>>, jobs |-> <<<<"jobs">>>>, rdm |-> <<<<"rdm">>>>]

Value ==
  [escape \in {"%61", "%5F", "%2E", "%2F", "%25", "%20"} |->
     CASE escape = "%61" -> "a" [] escape = "%5F" -> "_" [] escape = "%2E" -> "."
       [] escape = "%2F" -> "/" [] escape = "%25" -> "%" [] escape = "%20" -> " "]
Unreserved == {"a", "_", "."}

Argument == [absolute : BOOLEAN, same_origin : BOOLEAN, slashes : 0..2, trailing : BOOLEAN,
             segments : UNION {[1..n -> Segments] : n \in 1..MaxSegments}]

Refused == [kind |-> "refused"]
NoOutcome == [kind |-> "none"]

Init ==
  /\ service \in Services
  /\ argument \in Argument
  /\ argument.absolute => argument.slashes = 1
  /\ ~argument.absolute => argument.same_origin
  /\ outcome = NoOutcome

-------------------------------------------------------------------------------
\* canonical_path: what it refuses in a segment, and its decoding.

Decoded(segment) ==
  [i \in DOMAIN segment |-> IF segment[i] \in DOMAIN Value THEN Value[segment[i]] ELSE segment[i]]

\* A digit after "%" makes an escape of it.
HasEscape(segment) ==
  \E i \in 1..(Len(segment) - 1) : segment[i] = "%" /\ segment[i + 1] \in {"5F", "2E", "2F"}

InSegment(segment, atoms) == \E i \in DOMAIN segment : segment[i] \in atoms

\* Seeded fault: an escape is as good as the character that it stands for.
RefusesDecoded(segment) ==
  \/ InSegment(segment, {"%"})
  \/ Decoded(segment) \in {<<".">>, <<".", ".">>}
  \/ InSegment(Decoded(segment), {"/", "\\", "control"})
  \/ HasEscape(Decoded(segment))

Refuses(segment) ==
  \/ InSegment(segment, {"%"})            \* validate_percent_encoding
  \/ Decoded(segment) \in {<<".">>, <<".", ".">>}
  \/ InSegment(Decoded(segment), {"/", "\\", "control"})
  \/ \E i \in DOMAIN segment :            \* percent_encodes_unreserved
       segment[i] \in DOMAIN Value /\ Value[segment[i]] \in Unreserved
  \/ HasEscape(Decoded(segment))          \* contains_percent_escape

Canonical(segments) == [i \in DOMAIN segments |-> Decoded(segments[i])]

\* request_url's path, with validate_request_path_argument: an empty segment can
\* only be at the start, as a second slash.
RefusedPath(a) ==
  \/ a.slashes = 2
  \/ \E i \in DOMAIN a.segments : a.segments[i] = <<>> \/ Refuses(a.segments[i])

Url(s, a) == IF a.absolute THEN a.segments ELSE Base[s] \o a.segments

StartsWith(segments, prefix) ==
  Len(segments) >= Len(prefix) /\ SubSeq(segments, 1, Len(prefix)) = prefix

\* same_origin, path_is_within_base; a request for the base itself, without its
\* slash, has no relative path.
Within(s, a) ==
  /\ a.same_origin
  /\ StartsWith(Canonical(Url(s, a)), Base[s])
  /\ Len(Url(s, a)) = Len(Base[s]) => a.trailing

Relative(s, segments) == SubSeq(segments, Len(Base[s]) + 1, Len(segments))

-------------------------------------------------------------------------------
\* The registry.

Id == <<"{id}">>
Lookup == <<"{crosswalkValue}">>
Reserved(word) == <<"_", word>>
Entities == <<"entities">>
Patterns ==
  {[id |-> "entity.get", method |-> "GET", path |-> <<Entities, Id>>],
   [id |-> "entity.by-crosswalk", method |-> "GET",
    path |-> <<Entities, Reserved("byCrosswalk"), Lookup>>],
   [id |-> "entity.search", method |-> "POST", path |-> <<Entities, Reserved("search")>>],
   [id |-> "entity.search.get", method |-> "GET", path |-> <<Entities>>],
   [id |-> "entity.search.get_alias", method |-> "GET", path |-> <<Entities, Reserved("search")>>],
   [id |-> "entity.scan", method |-> "POST", path |-> <<Entities, Reserved("scan")>>],
   [id |-> "entity.history", method |-> "GET", path |-> <<Entities, Id, Reserved("changes")>>],
   [id |-> "entity.matches", method |-> "GET", path |-> <<Entities, Id, Reserved("matches")>>]}

SegmentMatches(expected, actual) ==
  CASE expected = Id -> actual # <<>> /\ actual[1] # "_"
    [] expected = Lookup -> actual # <<>>
    [] OTHER -> expected = actual

\* path_matches
Matches(pattern, segments) ==
  /\ Len(pattern) = Len(segments)
  /\ \A i \in DOMAIN pattern : SegmentMatches(pattern[i], segments[i])

\* match_endpoint, for each method; a path that ends with a slash has no endpoint.
Endpoints(s, segments) ==
  IF s = "data" THEN {p \in Patterns : Matches(p.path, segments)} ELSE {}

\* request_is_tenant_bound
TenantBound(s, relative) ==
  \/ s = "data"
  \/ s = "jobs" /\ relative # <<>> /\ relative[1] = <<"T">>

Ask ==
  /\ outcome = NoOutcome
  /\ LET url == Url(service, argument)
         relative == Relative(service, Canonical(url))
     IN  IF RefusedPath(argument) \/ ~Within(service, argument) THEN outcome' = Refused
         ELSE outcome' = [kind |-> "sent", url |-> url,
                          bound |-> TenantBound(service, Relative(service, url)),
                          endpoints |-> IF argument.trailing THEN {} ELSE Endpoints(service, relative)]
  /\ UNCHANGED <<service, argument>>

Spec == Init /\ [][Ask]_vars

-------------------------------------------------------------------------------
\* What servers make of a path.

\* Characters, decoded once more: "%" and a code are one escape.  Without one a segment
\* stays as it is.
Again(segment) ==
  LET from[i \in 1..(Len(segment) + 2)] ==
        IF i > Len(segment) THEN <<>>
        ELSE IF i < Len(segment) /\ segment[i] = "%" /\ segment[i + 1] \in {"5F", "2E", "2F"}
             THEN <<Value[CASE segment[i + 1] = "5F" -> "%5F" [] segment[i + 1] = "2E" -> "%2E"
                            [] OTHER -> "%2F"]>> \o from[i + 2]
             ELSE <<segment[i]>> \o from[i + 1]
  IN  IF HasEscape(segment) THEN from[1] ELSE segment

Forms(segment) == {segment, Decoded(segment), Again(Decoded(segment))}

\* A segment that some server cuts, drops or takes for another directory.
Moves(form) == form \in {<<>>, <<".">>, <<".", ".">>} \/ InSegment(form, {"/", "\\"})

Readings(segments) ==
  {[i \in DOMAIN segments |-> segments[i]], Canonical(segments),
   [i \in DOMAIN segments |-> Again(Decoded(segments[i]))]}

\* What is sent reaches the endpoint whose practices were applied, and the tenant,
\* whichever way the server reads the path; and no two endpoints claim it.
RouteCertain ==
  outcome.kind = "sent" =>
    /\ \A i \in DOMAIN outcome.url : \A form \in Forms(outcome.url[i]) : ~Moves(form)
    /\ \A reading \in Readings(outcome.url) :
         /\ StartsWith(reading, Base[service])
         /\ outcome.endpoints # {} =>
              Endpoints(service, Relative(service, reading)) = outcome.endpoints
         /\ outcome.bound => \E i \in DOMAIN reading : reading[i] = <<"T">> /\ i <= Len(Base[service]) + 1
    /\ \A p, q \in outcome.endpoints : p.method = q.method => p = q
===============================================================================
