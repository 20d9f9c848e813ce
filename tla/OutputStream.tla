----------------------------- MODULE OutputStream -----------------------------
(***************************************************************************)
(* The guard of an output that is written in many emissions: a page of a   *)
(* scan at a time, under a guard that knows more credentials later.  Each  *)
(* emission is admitted by what it would complete together with a bounded  *)
(* tail of what was written, and only windows around encoding syntax are   *)
(* decoded, in two layers.                                                 *)
(*                                                                         *)
(* Bytes are the Letters: "%" and "\" begin an escape, a digit after one   *)
(* of them is its code, "\" after "\" is one "\".  So a layer makes at     *)
(* most two bytes of a syntax byte and of "a", and two layers at most      *)
(* three of "a", where the code's encodings make six and thirty-six.  The  *)
(* form encoding, which also decodes "+", is left out.                     *)
(***************************************************************************)
EXTENDS Naturals, Sequences, FiniteSetsExt, TLC

CONSTANTS
  Letters,           \* subset of {"a", "%", "\\", "1", "2", "3"}
  Expansion,         \* source bytes per byte of a credential, two layers
  Pad, MinRadius,    \* and the radius' other constants
  Retention,         \* bytes of the tail that are kept to begin with
  Credentials,       \* credentials that may become known
  MaxLength, MaxPiece   \* bounds: of the output, of an emission

VARIABLES
  out,        \* history: all that was written
  tail, limit, emitted, uncertain,   \* OutputContextState
  secrets     \* what the guard knows

vars == <<out, tail, limit, emitted, uncertain, secrets>>

Min2(m, n) == IF m < n THEN m ELSE n
LastOf(s, n) == SubSeq(s, Len(s) + 1 - Min2(n, Len(s)), Len(s))
FirstOf(s, n) == SubSeq(s, 1, Min2(n, Len(s)))

-------------------------------------------------------------------------------
\* One layer: StreamingDecoder and CanonicalDecoder.

Variants == {"json", "percent"}
Begins == [json |-> "\\", percent |-> "%"]
Code == ("1" :> "a") @@ ("2" :> "%") @@ ("3" :> "\\")

\* What the escape at i of s stands for, or "" if there is none.
Escaped(s, i, variant) ==
  IF i < Len(s) /\ s[i] = Begins[variant]
  THEN IF s[i + 1] \in DOMAIN Code THEN Code[s[i + 1]]
       ELSE IF variant = "json" /\ s[i + 1] = "\\" THEN "\\" ELSE ""
  ELSE ""

Decoded(s, variant) ==
  LET from[i \in 1..(Len(s) + 2)] ==
        IF i > Len(s) THEN <<>>
        ELSE IF Escaped(s, i, variant) = "" THEN <<s[i]>> \o from[i + 1]
        ELSE <<Escaped(s, i, variant)>> \o from[i + 2]
  IN  from[1]

\* DecodableSyntaxDetector
Decodable(s) == \E i \in DOMAIN s, v \in Variants : Escaped(s, i, v) # ""

\* SecretPatterns, StreamingSecretMatcher
Has(s, known) ==
  \E secret \in known : \E i \in 0..(Len(s) - Len(secret)) :
    SubSeq(s, i + 1, i + Len(secret)) = secret

\* inspect_canonical_iter: a credential in up to two layers, or more layers.
Refused(s, known) ==
  \E v, w \in Variants :
    LET once == Decoded(s, v)
        twice == Decoded(once, w)
    IN  \/ Has(once, known)
        \/ once # s /\ (Has(twice, known) \/ (twice # once /\ Decodable(twice)))

\* Seeded fault: the radius is that of the plain credential.
RadiusPlain(known) == IF known = {} THEN 0 ELSE Max({Len(secret) : secret \in known})

\* canonical_source_radius
Radius(known) ==
  IF known = {} THEN 0
  ELSE LET source == Max({Len(secret) : secret \in known}) * Expansion + Pad
       IN  IF source < MinRadius THEN MinRadius ELSE source

\* inspect_canonical_windows: the bytes that are near to encoding syntax, in runs.
Windows(s, radius) ==
  LET near == {i \in DOMAIN s : \E j \in DOMAIN s :
                 s[j] \in {"%", "\\"} /\ i <= j + radius /\ j <= i + radius}
  IN  {SubSeq(s, r[1], r[2]) : r \in {r \in near \X near :
         /\ r[1] <= r[2] /\ r[1]..r[2] \subseteq near
         /\ r[1] - 1 \notin near /\ r[2] + 1 \notin near}}

\* contains_known_secret
Contains(s, known) ==
  known # {} /\ (Has(s, known) \/ \E w \in Windows(s, Radius(known)) : Refused(w, known))

\* permits_with_prefix
Permits(prefix, s, known) ==
  /\ ~Contains(s, known)
  /\ prefix # <<>> =>
       ~Contains(LastOf(prefix, Radius(known)) \o FirstOf(s, Radius(known)), known)

-------------------------------------------------------------------------------
Init ==
  /\ out = <<>> /\ tail = <<>> /\ limit = Retention /\ emitted = 0
  /\ uncertain = FALSE
  /\ secrets = {}

Widened == IF limit < Radius(secrets) THEN Radius(secrets) ELSE limit

\* The tail is all there is, or long enough for the guard.
Fits == Radius(secrets) <= limit \/ emitted = Len(tail)

Admits(s) == ~uncertain /\ Fits /\ Permits(tail, s, secrets)

\* record, for all of s or what was written of it.
Record(s) ==
  /\ out' = out \o s
  /\ emitted' = emitted + Len(s)
  /\ limit' = Widened
  /\ tail' = LastOf(tail \o s, Widened)

Pieces == UNION {[1..n -> Letters] : n \in 1..MaxPiece}

\* write_stream_with_context: the emission is written, or a part of it, and then
\* the context is uncertain.
Write(s) ==
  /\ Len(out) + Len(s) <= MaxLength
  /\ Admits(s)
  /\ \/ Record(s) /\ UNCHANGED uncertain
     \/ \E n \in 0..Len(s) : Record(SubSeq(s, 1, n)) /\ uncertain' = TRUE
  /\ UNCHANGED secrets

\* A refused emission may have raised the limit.
Refuse(s) ==
  /\ ~uncertain /\ Fits /\ limit # Widened /\ ~Admits(s)
  /\ limit' = Widened
  /\ UNCHANGED <<out, tail, emitted, uncertain, secrets>>

\* The guard of a later emission knows one more credential.
Learn(secret) ==
  /\ secrets' = secrets \cup {secret}
  /\ UNCHANGED <<out, tail, limit, emitted, uncertain>>

Next == (\E s \in Pieces : Write(s) \/ Refuse(s)) \/ \E secret \in Credentials : Learn(secret)

Spec == Init /\ [][Next]_vars

-------------------------------------------------------------------------------
\* A reader of s finds a credential, plain or by decoding it once or twice as a
\* whole.
Reveals(s, known) ==
  \/ Has(s, known)
  \/ \E v, w \in Variants : Has(Decoded(s, v), known) \/ Has(Decoded(Decoded(s, v), w), known)

\* No emission completes a credential that its guard knows, in the plain or in an
\* encoding, however the output is cut into emissions and wherever the tail ends.
StreamGuarded ==
  [][out' # out /\ Reveals(out', secrets) => Reveals(out, secrets)]_vars
===============================================================================
