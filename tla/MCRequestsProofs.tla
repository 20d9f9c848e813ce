--------------------------- MODULE MCRequestsProofs ---------------------------
(***************************************************************************)
(* Proofs about what goes out to the network (MCRequests), whatever the    *)
(* clients, the limit, the window, the timeouts and the delays:            *)
(*                                                                         *)
(*   TokenRateLimit   RequestsAreThrottled, AnswersAreGuarded              *)
(*   EntityRequests   TypedRequestsAreReviewed                             *)
(*   EntityReads      ReadsAreHonest                                       *)
(*                                                                         *)
(* A window of the true clock is kept within the limit by entries that the *)
(* file has, one for each young reservation and none older than it: a file *)
(* with too few entries could not cover them.  A step of another part      *)
(* leaves the variables of the throttle alone.                             *)
(***************************************************************************)
EXTENDS MCRequests, Sequences, FiniteSetTheorems, TLAPS

-------------------------------------------------------------------------------
(***************************************************************************)
(* The throttle of the token endpoint (TokenRateLimit).                    *)
(***************************************************************************)
\* The reservations, of those that are remembered, that a window from now reaches.
Young(ages) == {k \in DOMAIN ages : ages[k] < Window}

\* Each of them has an entry of its own, none older than it, among the first n.
Covers(ages, entries, n) ==
  \E e \in [Young(ages) -> 1..n] :
    /\ \A k \in Young(ages) : entries[e[k]] <= ages[k]
    /\ \A k, m \in Young(ages) : e[k] = e[m] => k = m

Falling(ages) == \A k, m \in DOMAIN ages : k <= m => ages[m] <= ages[k]

\* The file has an entry for each reservation that counts, whatever was done to the
\* wall clock: what is set back makes entries younger, never older.
FileCovers ==
  /\ file \in Seq(Int) /\ Len(file) <= Limit
  /\ recent \in Seq(Nat) /\ Falling(recent) /\ Rate!Throttled
  /\ Covers(recent, file, Len(file))

\* So has what the holder of the lock is about to write, before its own entry.
DraftCovers ==
  /\ draft \in Seq(Int) /\ Len(draft) <= Limit /\ since \in Nat
  /\ lock # Rate!Nobody =>
       /\ Len(draft) >= 1 /\ (since < Window => draft[Len(draft)] <= since)
       /\ \A k \in DOMAIN recent : since <= recent[k]
       /\ Covers(recent, draft, Len(draft) - 1)

\* Entries are ahead of the clock only once that was set back.
Clocks ==
  /\ back \in 0..MaxBack
  /\ back = MaxBack =>
       /\ \A k \in DOMAIN file : file[k] >= 0
       /\ \A k \in DOMAIN draft : draft[k] >= 0

ClientTypes ==
  /\ lock \in Clients \cup {Rate!Nobody}
  /\ step \in [Clients -> {"idle", "lock", "rest", "commit", "send", "sent", "backoff"}]
  /\ until \in [Clients -> 0..Timeout] /\ wake \in [Clients -> 0..Timeout]
  /\ sent \in [Clients -> Nat] /\ paid \in [Clients -> Nat]
  /\ withheld \in [Clients -> SUBSET Rate!Answers] /\ bared \in [Clients -> BOOLEAN]

\* A client holds the lock while it commits, and has a reservation for each request.
Paying(c) ==
  /\ step[c] = "commit" <=> lock = c
  /\ sent[c] <= 2 /\ sent[c] <= paid[c]
  /\ step[c] \notin {"sent", "idle"} => sent[c] <= 1
  /\ step[c] = "send" => sent[c] + 1 <= paid[c]
  /\ step[c] = "idle" => sent[c] = 0
  /\ step[c] = "sent" => sent[c] >= 1

\* The guard that a client keeps has every answer but the one it waits for.
Guarding(c) ==
  \A n \in Rate!Answers :
    n < sent[c] \/ (n = sent[c] /\ step[c] # "sent") => n \in withheld[c]

RateInvariant ==
  /\ FileCovers /\ DraftCovers /\ Clocks /\ ClientTypes
  /\ \A c \in Clients : Paying(c) /\ Guarding(c)

-------------------------------------------------------------------------------
\* Sets of positions, and the places of their members in order.

LEMMA SameCardinality ==
  ASSUME NEW S  PROVE Rate!Cardinality(S) = Cardinality(S)
BY Zenon DEF Rate!Cardinality, Cardinality

Place(S, k) == Rate!Cardinality({m \in S : m <= k})

LEMMA PlacesInOrder ==
  ASSUME NEW n \in Nat, NEW S \in SUBSET (1..n)
  PROVE  /\ Cardinality(S) \in Nat /\ Cardinality(S) <= n
         /\ \A k \in S : Place(S, k) \in 1..Cardinality(S)
         /\ \A k, m \in S : Place(S, k) = Place(S, m) => k = m
         /\ \A p \in 1..Cardinality(S) : \E k \in S : Place(S, k) = p
<1> DEFINE Below(k) == {m \in S : m <= k}
           N == Cardinality(S)
<1>1. IsFiniteSet(1..n) /\ Cardinality(1..n) = n
  BY FS_Interval
<1>2. IsFiniteSet(S) /\ N <= n
  BY <1>1, FS_Subset
<1>3. N \in Nat
  BY <1>2, FS_CardinalityType
<1>4. ASSUME NEW k \in S
      PROVE  /\ IsFiniteSet(Below(k)) /\ Cardinality(Below(k)) \in Nat
             /\ Cardinality(Below(k)) \in 1..N
  <2>1. IsFiniteSet(Below(k)) /\ Cardinality(Below(k)) <= N
    BY <1>2, FS_Subset
  <2>2. Cardinality(Below(k)) \in Nat
    BY <2>1, FS_CardinalityType
  <2>3. k \in Below(k)
    OBVIOUS
  <2>4. Cardinality(Below(k)) # 0
    BY <2>1, <2>3, FS_EmptySet
  <2> QED  BY <1>3, <2>1, <2>2, <2>4
<1>5. ASSUME NEW k \in S, NEW m \in S, Cardinality(Below(k)) = Cardinality(Below(m)), k <= m
      PROVE  k = m
  <2>1. Below(k) \subseteq Below(m)
    <3>1. \A j \in S : j \in Int
      OBVIOUS
    <3> SUFFICES ASSUME NEW j \in S, j <= k  PROVE j <= m
      OBVIOUS
    <3> QED  BY <1>5, <3>1
  <2>2. Below(k) = Below(m)
    BY <1>4, <1>5, <2>1, FS_Subset
  <2>3. m \in Below(k)
    BY <2>2
  <2> QED  BY <1>5, <2>3
<1>6. \A k, m \in S : Cardinality(Below(k)) = Cardinality(Below(m)) => k = m
  <2> SUFFICES ASSUME NEW k \in S, NEW m \in S, Cardinality(Below(k)) = Cardinality(Below(m))
               PROVE  k = m
    OBVIOUS
  <2>1. k <= m \/ m <= k
    OBVIOUS
  <2> QED  BY <1>5, <2>1
<1> DEFINE f == [k \in S |-> Cardinality(Below(k))]
<1>7. f \in Injection(S, 1..N)
  BY <1>4, <1>6 DEF Injection, IsInjective
<1>8. IsFiniteSet(1..N) /\ Cardinality(1..N) = N
  BY <1>3, FS_Interval
<1>9. f \in Surjection(S, 1..N)
  BY <1>7, <1>8, FS_Injection
<1>10. \A p \in 1..N : \E k \in S : f[k] = p
  BY <1>9 DEF Surjection
<1>11. \A k : Place(S, k) = Cardinality(Below(k))
  BY SameCardinality DEF Place
<1>12. \A p \in 1..N : \E k \in S : Cardinality(Below(k)) = p
  BY <1>10
<1> HIDE DEF Below, f
<1> QED  BY <1>2, <1>3, <1>4, <1>6, <1>11, <1>12

LEMMA RetainedInOrder ==
  ASSUME file \in Seq(Int)
  PROVE  /\ Rate!Kept \in Seq(Int) /\ Len(Rate!Kept) <= Len(file)
         /\ \A p \in 1..Len(Rate!Kept) :
              \E k \in 1..Len(file) : Rate!Kept[p] = file[k]
         /\ \E g \in [Young(file) -> 1..Len(Rate!Kept)] :
              /\ \A k \in Young(file) : Rate!Kept[g[k]] = file[k]
              /\ \A k, m \in Young(file) : g[k] = g[m] => k = m
<1> DEFINE S == Young(file)
           N == Rate!Cardinality(S)
           At(p) == CHOOSE k \in S : Place(S, k) = p
<1>1. Len(file) \in Nat /\ DOMAIN file = 1..Len(file) /\ S \in SUBSET (1..Len(file))
  BY DEF Young
<1>2. /\ N \in Nat /\ N <= Len(file)
      /\ \A k \in S : Place(S, k) \in 1..N
      /\ \A k, m \in S : Place(S, k) = Place(S, m) => k = m
      /\ \A p \in 1..N : \E k \in S : Place(S, k) = p
  BY <1>1, PlacesInOrder, SameCardinality
<1>3. Rate!Kept = [p \in 1..N |-> file[At(p)]]
  BY Zenon DEF Rate!Kept, Rate!Retained, Young, Place
<1>4. \A p \in 1..N : At(p) \in S /\ Place(S, At(p)) = p
  BY <1>2
<1>5. \A k \in S : At(Place(S, k)) = k
  BY <1>2, <1>4
<1> HIDE DEF S, N, At
<1>6. \A p \in 1..N : file[At(p)] \in Int
  <2>1. \A k \in 1..Len(file) : file[k] \in Int
    OBVIOUS
  <2> QED  BY <1>1, <1>4, <2>1
<1>7. Rate!Kept \in Seq(Int) /\ Len(Rate!Kept) = N
  BY <1>2, <1>3, <1>6
<1>8. \A p \in 1..N : \E k \in 1..Len(file) : Rate!Kept[p] = file[k]
  BY <1>1, <1>3, <1>4
<1>9. \E g \in [S -> 1..N] :
        /\ \A k \in S : Rate!Kept[g[k]] = file[k]
        /\ \A k, m \in S : g[k] = g[m] => k = m
  <2> DEFINE g == [k \in S |-> Place(S, k)]
  <2>1. g \in [S -> 1..N]
    BY <1>2
  <2>2. \A k \in S : Rate!Kept[g[k]] = file[k]
    BY <1>2, <1>3, <1>5
  <2>3. \A k, m \in S : g[k] = g[m] => k = m
    BY <1>2
  <2> QED  BY <2>1, <2>2, <2>3
<1> QED  BY <1>2, <1>7, <1>8, <1>9 DEF S

-------------------------------------------------------------------------------
\* What is covered.

\* As many entries cover the young reservations as there are of these.
LEMMA CoverBounds ==
  ASSUME NEW ages \in Seq(Nat), NEW entries, NEW n \in Nat, Covers(ages, entries, n)
  PROVE  /\ IsFiniteSet(Young(ages)) /\ Cardinality(Young(ages)) \in Nat
         /\ Cardinality(Young(ages)) <= n
<1>1. PICK e \in [Young(ages) -> 1..n] : \A k, m \in Young(ages) : e[k] = e[m] => k = m
  BY DEF Covers
<1>2. e \in Injection(Young(ages), 1..n)
  BY <1>1 DEF Injection, IsInjective
<1>3. IsFiniteSet(1..n) /\ Cardinality(1..n) = n
  BY FS_Interval
<1>4. IsFiniteSet(Young(ages)) /\ Cardinality(Young(ages)) <= n
  BY <1>2, <1>3, FS_Injection
<1> QED  BY <1>4, FS_CardinalityType

\* Nothing that makes an entry older leaves the reservation as young.
LEMMA CoverAges ==
  ASSUME NEW ages, NEW older, NEW entries, NEW then, NEW n, Covers(ages, entries, n),
         DOMAIN older = DOMAIN ages,
         \A k \in DOMAIN ages : older[k] < Window =>
           ages[k] < Window /\ \A m \in 1..n : entries[m] <= ages[k] => then[m] <= older[k]
  PROVE  Covers(older, then, n)
<1>1. PICK e \in [Young(ages) -> 1..n] :
        /\ \A k \in Young(ages) : entries[e[k]] <= ages[k]
        /\ \A k, m \in Young(ages) : e[k] = e[m] => k = m
  BY DEF Covers
<1>2. Young(older) \subseteq Young(ages)
  BY DEF Young
<1> DEFINE d == [k \in Young(older) |-> e[k]]
<1>3. d \in [Young(older) -> 1..n]
  BY <1>2
<1>4. \A k \in Young(older) : then[d[k]] <= older[k]
  BY <1>1, <1>2 DEF Young
<1>5. \A k, m \in Young(older) : d[k] = d[m] => k = m
  BY <1>1, <1>2
<1> QED  BY <1>3, <1>4, <1>5 DEF Covers

\* What is kept of the file covers what the file does.
LEMMA CoverKept ==
  ASSUME FileCovers
  PROVE  Covers(recent, Rate!Kept, Len(Rate!Kept))
<1>1. PICK e \in [Young(recent) -> 1..Len(file)] :
        /\ \A k \in Young(recent) : file[e[k]] <= recent[k]
        /\ \A k, m \in Young(recent) : e[k] = e[m] => k = m
  BY DEF Covers, FileCovers
<1>2. PICK g \in [Young(file) -> 1..Len(Rate!Kept)] :
        /\ \A k \in Young(file) : Rate!Kept[g[k]] = file[k]
        /\ \A k, m \in Young(file) : g[k] = g[m] => k = m
  BY RetainedInOrder DEF FileCovers
<1>3. \A k \in Young(recent) : e[k] \in Young(file)
  <2> SUFFICES ASSUME NEW k \in Young(recent)  PROVE e[k] \in Young(file)
    OBVIOUS
  <2>1. file \in Seq(Int) /\ e[k] \in 1..Len(file) /\ recent[k] \in Nat /\ recent[k] < Window
    BY DEF FileCovers, Young
  <2>2. file[e[k]] \in Int /\ file[e[k]] <= recent[k] /\ Window \in Nat
    BY <1>1, <2>1, RateAssumption
  <2> QED  BY <2>1, <2>2 DEF Young
<1> DEFINE d == [k \in Young(recent) |-> g[e[k]]]
<1>4. d \in [Young(recent) -> 1..Len(Rate!Kept)]
  BY <1>3
<1>5. \A k \in Young(recent) : Rate!Kept[d[k]] <= recent[k]
  BY <1>1, <1>2, <1>3
<1>6. \A k, m \in Young(recent) : d[k] = d[m] => k = m
  BY <1>1, <1>2, <1>3
<1> QED  BY <1>4, <1>5, <1>6 DEF Covers

-------------------------------------------------------------------------------
\* The state of the throttle.

LEMMA RateStarts ==
  RequestsInit => RateInvariant
<1> SUFFICES ASSUME RequestsInit  PROVE RateInvariant
  OBVIOUS
<1> USE DEF RequestsInit, Rate!Init
<1>1. FileCovers
  <2>1. recent = <<>> /\ file = <<>> /\ Len(file) = 0 /\ Young(recent) = {}
    BY DEF Young
  <2>2. Covers(recent, file, 0)
    <3> DEFINE e == [k \in {} |-> 0]
    <3>1. e \in [{} -> 1..0]
      OBVIOUS
    <3> QED  BY <2>1, <3>1 DEF Covers
  <2> QED  BY <2>1, <2>2, RateAssumption DEF FileCovers, Falling, Rate!Throttled
<1>2. DraftCovers /\ Clocks
  BY RateAssumption DEF DraftCovers, Clocks
<1>3. ClientTypes
  BY RateAssumption DEF ClientTypes
<1>4. \A c \in Clients : Paying(c) /\ Guarding(c)
  BY RateAssumption DEF Paying, Guarding, Rate!Nobody, Rate!Answers
<1> QED  BY <1>1, <1>2, <1>3, <1>4 DEF RateInvariant

SharedSame ==
  file' = file /\ lock' = lock /\ draft' = draft /\ since' = since /\ recent' = recent
    /\ back' = back

LEMMA SharedRests ==
  ASSUME RateInvariant, SharedSame
  PROVE  FileCovers' /\ DraftCovers' /\ Clocks'
<1> USE DEF SharedSame
<1>1. FileCovers'
  BY Zenon DEF RateInvariant, FileCovers, Rate!Throttled
<1>2. DraftCovers'
  BY Zenon DEF RateInvariant, DraftCovers
<1>3. Clocks'
  BY Zenon DEF RateInvariant, Clocks
<1> QED  BY <1>1, <1>2, <1>3

Others(c) ==
  \A d \in Clients \ {c} :
    step'[d] = step[d] /\ sent'[d] = sent[d] /\ paid'[d] = paid[d] /\ (lock' = d <=> lock = d)
      /\ withheld'[d] = withheld[d]

\* A step of a client leaves the others theirs.
LEMMA ClientMoves ==
  ASSUME RateInvariant, NEW c \in Clients, FileCovers', DraftCovers', Clocks', ClientTypes',
         Paying(c)', Guarding(c)', Others(c)
  PROVE  RateInvariant'
<1>1. ASSUME NEW d \in Clients \ {c}  PROVE Paying(d)' /\ Guarding(d)'
  BY <1>1 DEF RateInvariant, Paying, Guarding, Others
<1> QED  BY <1>1 DEF RateInvariant

LEMMA ClientMovesAlone ==
  ASSUME RateInvariant, NEW c \in Clients, SharedSame, ClientTypes', Paying(c)', Guarding(c)',
         Others(c)
  PROVE  RateInvariant'
BY SharedRests, ClientMoves

\* What the end of an acquisition leaves of the client's own state.
Ended(c) ==
  /\ step' = [step EXCEPT ![c] = "idle"]
  /\ until' = [until EXCEPT ![c] = 0] /\ wake' = [wake EXCEPT ![c] = 0]
  /\ sent' = [sent EXCEPT ![c] = 0] /\ paid' = [paid EXCEPT ![c] = 0]
  /\ withheld' = [withheld EXCEPT ![c] = {}]
  /\ \E bare \in BOOLEAN : bared' = [bared EXCEPT ![c] = bare]

LEMMA FinishEnds ==
  ASSUME NEW c \in Clients, NEW answers, NEW final, Rate!Finish(c, answers, final)
  PROVE  Ended(c)
<1> DEFINE bare == ~(1..answers \subseteq final)
<1>1. bare \in BOOLEAN /\ bared' = [bared EXCEPT ![c] = bare]
  BY Zenon DEF Rate!Finish
<1> HIDE DEF bare
<1> QED  BY <1>1, Zenon DEF Rate!Finish, Ended

LEMMA Finishes ==
  ASSUME RateInvariant, NEW c \in Clients, Ended(c), lock' \in Clients \cup {Rate!Nobody},
         lock' # c, \A d \in Clients \ {c} : lock' = d <=> lock = d
  PROVE  ClientTypes' /\ Paying(c)' /\ Guarding(c)' /\ Others(c)
<1> USE DEF Ended
<1>1. ClientTypes'
  BY RateAssumption DEF RateInvariant, ClientTypes
<1>2. Paying(c)' /\ Guarding(c)'
  BY DEF RateInvariant, ClientTypes, Paying, Guarding, Rate!Answers
<1>3. Others(c)
  BY DEF RateInvariant, ClientTypes, Others
<1> QED  BY <1>1, <1>2, <1>3

\* It ends without the lock.
LEMMA EndsKept ==
  ASSUME RateInvariant, NEW c \in Clients, SharedSame, lock # c, Ended(c)
  PROVE  RateInvariant'
<1>1. lock' \in Clients \cup {Rate!Nobody} /\ lock' # c /\ lock' = lock
  BY DEF RateInvariant, ClientTypes, SharedSame
<1>2. ClientTypes' /\ Paying(c)' /\ Guarding(c)' /\ Others(c)
  BY <1>1, Finishes
<1> QED  BY <1>2, ClientMovesAlone DEF RateInvariant

\* It ends with the lock: what it was about to write may be in the file, or not.
LEMMA DropsKept ==
  ASSUME RateInvariant, NEW c \in Clients, lock = c, Ended(c),
         Rate!Unlock, recent' = recent, file' \in {file, draft}
  PROVE  RateInvariant'
<1>1. lock' = Rate!Nobody /\ draft' = <<>> /\ since' = 0 /\ back' = back
  BY DEF Rate!Unlock
<1>2. Rate!Nobody \notin Clients
  BY RateAssumption DEF Rate!Nobody
<1>3. ClientTypes' /\ Paying(c)' /\ Guarding(c)' /\ Others(c)
  BY <1>1, <1>2, Finishes
<1>4. FileCovers'
  <2>1. Covers(recent, file', Len(file')) /\ file' \in Seq(Int) /\ Len(file') <= Limit
    <3>1. CASE file' = file
      BY <3>1 DEF RateInvariant, FileCovers
    <3>2. CASE file' = draft
      <4>1. /\ Covers(recent, draft, Len(draft) - 1) /\ Len(draft) \in Nat
            /\ draft \in Seq(Int) /\ Len(draft) <= Limit
        BY <1>2 DEF RateInvariant, DraftCovers
      <4>2. PICK e \in [Young(recent) -> 1..(Len(draft) - 1)] :
              /\ \A k \in Young(recent) : draft[e[k]] <= recent[k]
              /\ \A k, m \in Young(recent) : e[k] = e[m] => k = m
        BY <4>1 DEF Covers
      <4>3. e \in [Young(recent) -> 1..Len(draft)]
        BY <4>1
      <4>4. Covers(recent, draft, Len(draft))
        BY <4>2, <4>3 DEF Covers
      <4> QED  BY <3>2, <4>1, <4>4
    <3> QED  BY <3>1, <3>2
  <2>2. Covers(recent', file', Len(file'))
    BY <2>1
  <2> QED  BY <2>1, <2>2 DEF RateInvariant, FileCovers, Falling, Rate!Throttled
<1>5. DraftCovers'
  BY <1>1, RateAssumption DEF DraftCovers
<1>6. Clocks'
  BY <1>1 DEF RateInvariant, Clocks
<1> QED  BY <1>3, <1>4, <1>5, <1>6, ClientMoves DEF RateInvariant

LEMMA LooksKept ==
  ASSUME RateInvariant, NEW c \in Clients,
         \/ Rate!Start(c) \/ Rate!LookRefused(c) \/ Rate!LookRoom(c) \/ Rate!LookFull(c)
         \/ Rate!LockTimeout(c) \/ Rate!Rested(c)
  PROVE  RateInvariant'
<1> USE DEF Rate!Goto, Rate!shared, Rate!request
<1>1. CASE Rate!Start(c)
  <2> USE <1>1 DEF Rate!Start
  <2>1. SharedSame /\ Others(c)
    BY DEF SharedSame, Others, RateInvariant, ClientTypes
  <2>2. ClientTypes'
    BY RateAssumption DEF RateInvariant, ClientTypes
  <2>3. Paying(c)' /\ Guarding(c)'
    BY DEF RateInvariant, ClientTypes, Paying, Guarding
  <2> QED  BY <2>1, <2>2, <2>3, ClientMovesAlone
<1>2. CASE Rate!LookRefused(c) \/ Rate!LockTimeout(c)
  <2>1. SharedSame /\ Ended(c) /\ step[c] = "lock"
    BY <1>2, FinishEnds
    DEF SharedSame, Rate!LookRefused, Rate!LockTimeout, Rate!Open, Rate!Fail, Rate!TimeOut
  <2>2. lock # c
    BY <2>1 DEF RateInvariant, Paying
  <2> QED  BY <2>1, <2>2, EndsKept
<1>3. CASE Rate!LookRoom(c)
  <2> USE <1>3 DEF Rate!LookRoom, Rate!Open
  <2>1. /\ Rate!Kept \in Seq(Int) /\ Len(Rate!Kept) < Limit /\ Len(Rate!Kept) \in Nat
        /\ \A n \in 1..Len(Rate!Kept) : \E k \in 1..Len(file) : Rate!Kept[n] = file[k]
    BY RetainedInOrder DEF Rate!Room, RateInvariant, FileCovers
  <2>2. /\ draft' = Append(Rate!Kept, 0) /\ draft' \in Seq(Int)
        /\ Len(draft') = Len(Rate!Kept) + 1 /\ draft'[Len(draft')] = 0
        /\ \A n \in 1..Len(Rate!Kept) : draft'[n] = Rate!Kept[n]
    BY <2>1
  <2>3. Covers(recent, draft', Len(Rate!Kept))
    <3>1. Covers(recent, Rate!Kept, Len(Rate!Kept))
      BY CoverKept DEF RateInvariant
    <3> QED  BY <2>2, <3>1, CoverAges
  <2>4. FileCovers'
    <3>1. file' = file /\ recent' = recent
      OBVIOUS
    <3> HIDE <1>3
    <3> QED
      BY <3>1, Zenon DEF RateInvariant, FileCovers, Rate!Throttled
  <2>5. DraftCovers'
    <3>1. since' = 0 /\ recent' = recent
      OBVIOUS
    <3>2. \A k \in DOMAIN recent : 0 <= recent[k]
      BY DEF RateInvariant, FileCovers
    <3>3. Covers(recent', draft', Len(draft') - 1)
      <4>1. Len(draft') - 1 = Len(Rate!Kept)
        BY <2>1, <2>2
      <4>2. Covers(recent, draft', Len(draft') - 1)
        BY <2>3, <4>1
      <4> HIDE <1>3
      <4> QED  BY <4>2, <3>1, Zenon
    <3>4. Limit \in Nat
      BY RateAssumption
    <3> HIDE <1>3
    <3> QED  BY <2>1, <2>2, <3>1, <3>2, <3>3, <3>4 DEF DraftCovers
  <2>6. Clocks'
    <3>1. back' = back /\ file' = file
      OBVIOUS
    <3>2. back = MaxBack => \A k \in 1..Len(file) : file[k] >= 0
      BY DEF RateInvariant, FileCovers, Clocks
    <3>3. DOMAIN draft' = 1..Len(draft')
      BY <2>2
    <3>4. back = MaxBack => \A n \in DOMAIN draft' : draft'[n] >= 0
      BY <2>1, <2>2, <3>2, <3>3
    <3> QED  BY <3>1, <3>4 DEF RateInvariant, Clocks
  <2>7. ClientTypes'
    BY DEF RateInvariant, ClientTypes
  <2>8. Paying(c)' /\ Guarding(c)'
    BY DEF RateInvariant, ClientTypes, Paying, Guarding
  <2>9. Others(c)
    BY RateAssumption DEF RateInvariant, ClientTypes, Others, Rate!Nobody
  <2> QED  BY <2>4, <2>5, <2>6, <2>7, <2>8, <2>9, ClientMoves
<1>4. CASE Rate!LookFull(c)
  <2> USE <1>4 DEF Rate!LookFull, Rate!Open
  <2>1. PICK oldest \in Rate!ToSet(Rate!Kept) :
          wake' = [wake EXCEPT
                     ![c] = Rate!LeastOf(Rate!MostOf(1, Window - oldest), until[c])]
    OBVIOUS
  <2>2. oldest \in Int
    BY RetainedInOrder DEF RateInvariant, FileCovers, Rate!ToSet
  <2>3. SharedSame /\ Others(c)
    BY DEF SharedSame, Others, RateInvariant, ClientTypes
  <2>4. ClientTypes'
    <3>1. wake' \in [Clients -> 0..Timeout]
      BY <2>1, <2>2, RateAssumption
      DEF RateInvariant, ClientTypes, Rate!LeastOf, Rate!MostOf
    <3>2. /\ step' = [step EXCEPT ![c] = "rest"] /\ until' = until /\ lock' = lock
          /\ withheld' = withheld /\ bared' = bared /\ sent' = sent /\ paid' = paid
      OBVIOUS
    <3> HIDE <1>4
    <3> QED  BY <3>1, <3>2 DEF RateInvariant, ClientTypes
  <2>5. Paying(c)' /\ Guarding(c)'
    <3>1. /\ step' = [step EXCEPT ![c] = "rest"] /\ lock' = lock /\ sent' = sent
          /\ paid' = paid /\ withheld' = withheld /\ step[c] = "lock"
      OBVIOUS
    <3> HIDE <1>4
    <3> QED  BY <3>1 DEF RateInvariant, ClientTypes, Paying, Guarding
  <2> QED  BY <2>3, <2>4, <2>5, ClientMovesAlone
<1>5. CASE Rate!Rested(c)
  <2>1. SharedSame /\ step[c] = "rest"
    BY <1>5 DEF SharedSame, Rate!Rested
  <2>2. lock # c
    BY <2>1 DEF RateInvariant, Paying
  <2>3. CASE Rate!TimeOut(c)
    BY <2>1, <2>2, <2>3, FinishEnds, EndsKept DEF Rate!TimeOut
  <2>4. CASE Rate!Goto(c, "lock") /\ UNCHANGED <<wake, Rate!request>>
    <3> USE <2>1, <2>4 DEF SharedSame
    <3>1. Others(c)
      BY DEF Others, RateInvariant, ClientTypes
    <3>2. ClientTypes'
      BY DEF RateInvariant, ClientTypes
    <3>3. Paying(c)' /\ Guarding(c)'
      BY <2>2 DEF RateInvariant, ClientTypes, Paying, Guarding
    <3> QED  BY <3>1, <3>2, <3>3, ClientMovesAlone
  <2> QED  BY <1>5, <2>3, <2>4 DEF Rate!Rested
<1> QED
  BY <1>1, <1>2, <1>3, <1>4, <1>5

\* It sends its request.
LEMMA SendsKept ==
  ASSUME RateInvariant, NEW c \in Clients,
         \/ Rate!Send(c) \/ Rate!SendFails(c) \/ Rate!SendTimeout(c) \/ Rate!Backoff(c)
         \/ Rate!Replay(c) \/ Rate!Refused(c) \/ Rate!Accepted(c)
  PROVE  RateInvariant'
<1> USE DEF Rate!Goto, Rate!shared, Rate!request
<1>1. SharedSame /\ step[c] \in {"send", "sent", "backoff"}
  BY DEF SharedSame, Rate!Send, Rate!SendFails, Rate!SendTimeout, Rate!Backoff, Rate!Replay,
         Rate!Refused, Rate!Accepted
<1>2. lock # c
  BY <1>1 DEF RateInvariant, Paying
<1>3. ASSUME Ended(c)  PROVE RateInvariant'
  BY <1>1, <1>2, <1>3, EndsKept
<1>4. CASE Rate!SendFails(c) \/ Rate!SendTimeout(c)
  BY <1>3, <1>4, FinishEnds, Zenon DEF Rate!SendFails, Rate!SendTimeout, Rate!TimeOut
<1>5. CASE Rate!Refused(c) \/ Rate!Accepted(c)
  BY <1>3, <1>5, FinishEnds, Zenon DEF Rate!Refused, Rate!Accepted
<1>6. CASE Rate!Send(c)
  <2>1. CASE until[c] > 0
    <3>1. /\ step[c] = "send" /\ step' = [step EXCEPT ![c] = "sent"]
          /\ sent' = [sent EXCEPT ![c] = @ + 1] /\ until' = until /\ bared' = bared
          /\ wake' = wake /\ withheld' = withheld /\ paid' = paid
      BY <1>6, <2>1, RateAssumption DEF Rate!Send, RateInvariant, ClientTypes
    <3>2. Others(c)
      BY <1>1, <3>1 DEF SharedSame, Others, RateInvariant, ClientTypes
    <3>3. ClientTypes'
      BY <1>1, <3>1 DEF SharedSame, RateInvariant, ClientTypes
    <3>4. Paying(c)' /\ Guarding(c)'
      BY <1>1, <1>2, <3>1
      DEF SharedSame, RateInvariant, ClientTypes, Paying, Guarding, Rate!Answers
    <3> QED  BY <1>1, <3>2, <3>3, <3>4, ClientMovesAlone
  <2>2. CASE ~(until[c] > 0)
    BY <1>3, <1>6, <2>2, FinishEnds DEF Rate!Send, Rate!TimeOut
  <2> QED  BY <2>1, <2>2
<1>7. CASE Rate!Backoff(c)
  <2>1. PICK oversized \in BOOLEAN, delay \in Waits :
          \/ delay >= until[c] /\ Rate!Finish(c, sent[c], Rate!GuardWith(c, oversized))
          \/ /\ delay < until[c] /\ wake' = [wake EXCEPT ![c] = delay]
             /\ withheld' = [withheld EXCEPT ![c] = Rate!GuardWith(c, oversized)]
             /\ step' = [step EXCEPT ![c] = "backoff"] /\ until' = until /\ bared' = bared
             /\ sent' = sent /\ paid' = paid
    BY <1>7 DEF Rate!Backoff
  <2>2. CASE delay < until[c] /\ ~Rate!Finish(c, sent[c], Rate!GuardWith(c, oversized))
    <3>1. /\ step[c] = "sent" /\ sent[c] < 2
          /\ step' = [step EXCEPT ![c] = "backoff"]
          /\ wake' = [wake EXCEPT ![c] = delay]
          /\ withheld' = [withheld EXCEPT ![c] = Rate!GuardWith(c, oversized)]
          /\ until' = until /\ bared' = bared /\ sent' = sent /\ paid' = paid
      BY <1>7, <2>1, <2>2 DEF Rate!Backoff, Rate!MayReplay
    <3>2. Others(c)
      BY <1>1, <3>1 DEF SharedSame, Others, RateInvariant, ClientTypes
    <3>3. /\ Rate!GuardWith(c, oversized) \in SUBSET Rate!Answers
          /\ sent[c] \in Rate!GuardWith(c, oversized)
          /\ withheld[c] \subseteq Rate!GuardWith(c, oversized)
      <4>1. sent[c] \in Rate!Answers /\ withheld[c] \in SUBSET Rate!Answers
        BY <3>1 DEF RateInvariant, ClientTypes, Paying, Rate!Answers
      <4> QED  BY <4>1, Zenon DEF Rate!GuardWith, Rate!DenyAll
    <3>4. ClientTypes'
      <4>1. delay \in 0..Timeout
        BY <2>2, RateAssumption DEF RateInvariant, ClientTypes
      <4> QED  BY <1>1, <3>1, <3>3, <4>1 DEF SharedSame, RateInvariant, ClientTypes
    <3>5. Paying(c)'
      BY <1>1, <1>2, <3>1 DEF SharedSame, RateInvariant, ClientTypes, Paying
    <3>6. Guarding(c)'
      BY <3>1, <3>3 DEF RateInvariant, ClientTypes, Guarding, Rate!Answers
    <3> QED  BY <1>1, <3>2, <3>4, <3>5, <3>6, ClientMovesAlone
  <2> QED  BY <1>3, <2>1, <2>2, FinishEnds
<1>8. CASE Rate!Replay(c)
  <2> USE <1>1, <1>8 DEF SharedSame, Rate!Replay
  <2>1. Others(c)
    BY DEF Others, RateInvariant, ClientTypes
  <2>2. ClientTypes'
    BY DEF RateInvariant, ClientTypes
  <2>3. Paying(c)' /\ Guarding(c)'
    BY <1>2 DEF RateInvariant, ClientTypes, Paying, Guarding
  <2> QED  BY <2>1, <2>2, <2>3, ClientMovesAlone
<1> QED
  BY <1>4, <1>5, <1>6, <1>7, <1>8

\* It fails to write its reservation, or is killed.
LEMMA StopsKept ==
  ASSUME RateInvariant, NEW c \in Clients, Rate!CommitFails(c) \/ Rate!Kill(c)
  PROVE  RateInvariant'
<1>1. CASE Rate!CommitFails(c)
  <2>1. /\ Ended(c) /\ Rate!Unlock /\ recent' = recent
        /\ step[c] = "commit" /\ file' \in {file, draft}
    BY <1>1, FinishEnds DEF Rate!CommitFails, Rate!Fail, Rate!TimeOut
  <2>2. lock = c
    BY <2>1 DEF RateInvariant, Paying
  <2> QED  BY <2>1, <2>2, DropsKept
<1>2. CASE Rate!Kill(c)
  <2>1. Ended(c)
    BY <1>2, FinishEnds DEF Rate!Kill
  <2>2. CASE lock = c
    BY <1>2, <2>1, <2>2, DropsKept DEF Rate!Kill
  <2>3. CASE lock # c
    <3>1. SharedSame
      BY <1>2, <2>3 DEF Rate!Kill, Rate!shared, SharedSame
    <3> QED  BY <2>1, <2>3, <3>1, EndsKept
  <2> QED  BY <2>2, <2>3
<1> QED  BY <1>1, <1>2

\* It writes its reservation: what is remembered stays covered, and within the limit.
LEMMA RemembersCovered ==
  ASSUME RateInvariant, NEW c \in Clients, lock = c, Rate!Remember
  PROVE  /\ recent' \in Seq(Nat) /\ Falling(recent')
         /\ Len(recent') > Limit => recent'[1] >= Window
         /\ Covers(recent', draft, Len(draft))
<1> DEFINE n == Len(recent)
           A == Append(recent, since)
           s == Rate!MostOf(1, n + 1 - Limit)
           last == n + 2 - s
<1>1. /\ recent \in Seq(Nat) /\ n \in Nat /\ Falling(recent) /\ since \in Nat
      /\ Limit \in Nat \ {0} /\ Window \in Nat
  BY RateAssumption DEF RateInvariant, FileCovers, DraftCovers
<1>2. /\ draft \in Seq(Int) /\ Len(draft) \in Nat /\ Len(draft) >= 1 /\ Len(draft) <= Limit
      /\ since < Window => draft[Len(draft)] <= since
      /\ \A k \in DOMAIN recent : since <= recent[k]
      /\ Covers(recent, draft, Len(draft) - 1)
  BY RateAssumption DEF RateInvariant, DraftCovers, Rate!Nobody
<1>3. /\ A \in Seq(Nat) /\ Len(A) = n + 1 /\ A[n + 1] = since
      /\ \A k \in 1..n : A[k] = recent[k]
  BY <1>1
<1>4. s \in 1..(n + 1) /\ s >= n + 1 - Limit /\ (s = 1 \/ s = n + 1 - Limit)
  BY <1>1 DEF Rate!MostOf
<1>5. recent' = SubSeq(A, s, n + 1)
  <2>1. recent' = SubSeq(A, Rate!MostOf(1, Len(A) - Limit), Len(A))
    BY Zenon DEF Rate!Remember
  <2>2. Len(A) = n + 1
    BY <1>3
  <2> HIDE DEF A, n
  <2>3. Rate!MostOf(1, Len(A) - Limit) = Rate!MostOf(1, n + 1 - Limit)
    BY <1>1, <2>2 DEF Rate!MostOf
  <2> QED  BY <2>1, <2>2, <2>3
<1>6. last \in 1..(n + 1)
  BY <1>1, <1>4
<1> HIDE DEF A, s
<1>7. /\ recent' \in Seq(Nat) /\ Len(recent') = last
      /\ \A k \in 1..last : recent'[k] = A[k + s - 1]
  BY <1>1, <1>3, <1>4, <1>5, <1>6
<1>8. \A k \in 1..last :
        /\ k + s - 1 \in 1..(n + 1)
        /\ IF k = last THEN k + s - 1 = n + 1 ELSE k + s - 1 \in 1..n
  BY <1>1, <1>4, <1>6
<1>13. last = n + 2 - s
  OBVIOUS
<1> HIDE DEF last
<1>9. DOMAIN recent' = 1..last /\ DOMAIN recent = 1..n
  BY <1>1, <1>7
<1>10. Falling(recent')
  <2> SUFFICES ASSUME NEW k \in 1..last, NEW m \in 1..last, k <= m
               PROVE  recent'[m] <= recent'[k]
    BY <1>9 DEF Falling
  <2>1. k + s - 1 <= m + s - 1 /\ k \in Int /\ m \in Int
    BY <1>4
  <2>2. CASE m = last
    <3>1. CASE k = last
      BY <1>7, <2>2, <3>1
    <3>2. CASE k # last
      <4>1. k + s - 1 \in 1..n
        BY <1>1, <1>4, <1>8, <3>2
      <4>2. recent'[m] = since /\ recent'[k] = recent[k + s - 1]
        BY <1>3, <1>7, <1>8, <2>2, <4>1
      <4> QED  BY <1>2, <1>9, <4>1, <4>2
    <3> QED  BY <3>1, <3>2
  <2>3. CASE m # last
    <3>0. k # last
      BY <1>6, <2>3
    <3>1. m + s - 1 \in 1..n /\ k + s - 1 \in 1..n
      BY <1>8, <2>3, <3>0
    <3>2. recent'[m] = recent[m + s - 1] /\ recent'[k] = recent[k + s - 1]
      BY <1>3, <1>7, <3>1
    <3> QED  BY <1>1, <1>9, <2>1, <3>1, <3>2 DEF Falling
  <2> QED  BY <2>2, <2>3
<1>11. ASSUME Len(recent') > Limit  PROVE recent'[1] >= Window
  <2>1. s = n + 1 - Limit /\ s \in 1..n /\ recent'[1] = recent[s] /\ 1 \in 1..last
    <3>1. n + 2 - s > Limit
      BY <1>7, <1>11, <1>13
    <3>2. s = n + 1 - Limit /\ s \in 1..n /\ 1 \in 1..last
      BY <1>1, <1>4, <1>6, <1>13, <3>1
    <3>3. 1 + s - 1 = s /\ recent'[1] = A[1 + s - 1]
      BY <1>7, <3>2
    <3> QED  BY <1>3, <3>2, <3>3, Zenon
  <2> SUFFICES ASSUME recent[s] < Window  PROVE FALSE
    <3>1. recent[s] \in Nat
      BY <1>1, <2>1
    <3> QED  BY <1>1, <2>1, <3>1
  <2>2. \A k \in s..n : k \in Young(recent)
    <3> SUFFICES ASSUME NEW k \in s..n  PROVE k \in Young(recent)
      OBVIOUS
    <3>1. k \in 1..n /\ s <= k
      BY <2>1
    <3>2. recent[k] <= recent[s] /\ recent[k] \in Nat /\ recent[s] \in Nat
      <4>1. s \in 1..n
        BY <2>1
      <4>2. recent[k] <= recent[s]
        BY <1>1, <1>9, <3>1, <4>1 DEF Falling
      <4> QED  BY <1>1, <3>1, <4>1, <4>2
    <3> QED  BY <1>1, <1>9, <3>1, <3>2 DEF Young
  <2>3. /\ IsFiniteSet(Young(recent)) /\ Cardinality(Young(recent)) \in Nat
        /\ Cardinality(Young(recent)) <= Len(draft) - 1
    BY <1>1, <1>2, CoverBounds
  <2>4. IsFiniteSet(s..n) /\ Cardinality(s..n) = n - s + 1
    BY <1>1, <2>1, FS_Interval
  <2>5. Cardinality(s..n) <= Cardinality(Young(recent))
    <3>1. s..n \subseteq Young(recent)
      BY <2>2
    <3> QED  BY <2>3, <3>1, FS_Subset
  <2> QED  BY <1>1, <1>2, <2>1, <2>3, <2>4, <2>5
<1>12. Covers(recent', draft, Len(draft))
  <2>1. PICK e \in [Young(recent) -> 1..(Len(draft) - 1)] :
          /\ \A k \in Young(recent) : draft[e[k]] <= recent[k]
          /\ \A k, m \in Young(recent) : e[k] = e[m] => k = m
    BY <1>2 DEF Covers
  <2>2. \A k \in Young(recent') : k \in 1..last /\ recent'[k] < Window
    BY <1>9 DEF Young
  <2>3. ASSUME NEW k \in Young(recent'), k # last
        PROVE  /\ k + s - 1 \in Young(recent) /\ recent'[k] = recent[k + s - 1]
               /\ e[k + s - 1] \in 1..(Len(draft) - 1)
    <3>1. k + s - 1 \in 1..n
      BY <1>8, <2>2, <2>3
    <3>2. recent'[k] = recent[k + s - 1]
      BY <1>3, <1>7, <2>2, <3>1
    <3>3. k + s - 1 \in Young(recent)
      BY <1>9, <2>2, <3>1, <3>2 DEF Young
    <3> QED  BY <3>2, <3>3
  <2> DEFINE d == [k \in Young(recent') |-> IF k = last THEN Len(draft) ELSE e[k + s - 1]]
  <2>4. d \in [Young(recent') -> 1..Len(draft)]
    <3> SUFFICES ASSUME NEW k \in Young(recent')
                 PROVE  (IF k = last THEN Len(draft) ELSE e[k + s - 1]) \in 1..Len(draft)
      OBVIOUS
    <3>1. CASE k = last
      BY <1>2, <3>1
    <3>2. CASE k # last
      <4>1. e[k + s - 1] \in 1..(Len(draft) - 1)
        BY <2>3, <3>2
      <4> QED  BY <1>2, <3>2, <4>1
    <3> QED  BY <3>1, <3>2
  <2>5. ASSUME NEW k \in Young(recent')  PROVE draft[d[k]] <= recent'[k]
    <3>1. CASE k = last
      <4>1. recent'[k] = since /\ since < Window
        BY <1>3, <1>7, <1>8, <2>2, <3>1
      <4>2. d[k] = Len(draft)
        BY <3>1
      <4> QED  BY <1>2, <4>1, <4>2
    <3>2. CASE k # last
      <4>1. d[k] = e[k + s - 1]
        BY <3>2
      <4> QED  BY <2>1, <2>3, <3>2, <4>1
    <3> QED  BY <3>1, <3>2
  <2>6. ASSUME NEW k \in Young(recent'), NEW m \in Young(recent'), d[k] = d[m]
        PROVE  k = m
    <3>1. CASE k = last /\ m = last
      BY <3>1
    <3>2. CASE k = last /\ m # last
      <4>1. e[m + s - 1] \in 1..(Len(draft) - 1)
        BY <2>3, <3>2
      <4>2. d[k] = Len(draft) /\ d[m] = e[m + s - 1]
        BY <3>2
      <4> QED  BY <1>2, <2>6, <4>1, <4>2
    <3>3. CASE k # last /\ m = last
      <4>1. e[k + s - 1] \in 1..(Len(draft) - 1)
        BY <2>3, <3>3
      <4>2. d[m] = Len(draft) /\ d[k] = e[k + s - 1]
        BY <3>3
      <4> QED  BY <1>2, <2>6, <4>1, <4>2
    <3>4. CASE k # last /\ m # last
      <4>1. d[k] = e[k + s - 1] /\ d[m] = e[m + s - 1]
        BY <3>4
      <4>2. k + s - 1 \in Young(recent) /\ m + s - 1 \in Young(recent)
        BY <2>3, <3>4
      <4>3. k + s - 1 = m + s - 1
        BY <2>1, <2>6, <4>1, <4>2
      <4>4. k \in Int /\ m \in Int /\ s \in Int
        BY <1>4, <2>2
      <4> QED  BY <4>3, <4>4
    <3> QED  BY <3>1, <3>2, <3>3, <3>4
  <2> HIDE DEF d
  <2> QED  BY <2>4, <2>5, <2>6 DEF Covers
<1> QED  BY <1>7, <1>10, <1>11, <1>12

LEMMA CommitKept ==
  ASSUME RateInvariant, NEW c \in Clients, Rate!Commit(c)
  PROVE  RateInvariant'
<1>1. /\ step[c] = "commit" /\ Rate!Remember /\ file' = draft /\ lock' = Rate!Nobody
      /\ draft' = <<>> /\ since' = 0 /\ back' = back /\ bared' = bared
      /\ step' = [step EXCEPT ![c] = "send"] /\ until' = until /\ wake' = wake
      /\ paid' = [paid EXCEPT ![c] = @ + 1] /\ sent' = sent /\ withheld' = withheld
  BY DEF Rate!Commit, Rate!Unlock, Rate!Goto
<1>2. lock = c /\ Rate!Nobody \notin Clients
  BY <1>1, RateAssumption DEF RateInvariant, Paying, Rate!Nobody
<1>3. FileCovers'
  <2>1. /\ recent' \in Seq(Nat) /\ Falling(recent')
        /\ Len(recent') > Limit => recent'[1] >= Window
        /\ Covers(recent', draft, Len(draft))
    BY <1>1, <1>2, RemembersCovered
  <2>2. draft \in Seq(Int) /\ Len(draft) <= Limit
    BY DEF RateInvariant, DraftCovers
  <2> QED  BY <1>1, <2>1, <2>2 DEF FileCovers, Rate!Throttled
<1>4. DraftCovers'
  BY <1>1, RateAssumption DEF DraftCovers
<1>5. Clocks'
  BY <1>1 DEF RateInvariant, Clocks
<1>6. ClientTypes'
  BY <1>1 DEF RateInvariant, ClientTypes
<1>7. Paying(c)'
  <2>1. /\ step'[c] = "send" /\ sent'[c] = sent[c] /\ paid'[c] = paid[c] + 1
        /\ sent[c] \in Nat /\ paid[c] \in Nat
    BY <1>1 DEF RateInvariant, ClientTypes
  <2>2. sent[c] <= 1 /\ sent[c] <= paid[c]
    BY <1>1 DEF RateInvariant, Paying
  <2>3. lock' # c
    BY <1>1, <1>2
  <2> QED  BY <2>1, <2>2, <2>3 DEF Paying
<1>8. Guarding(c)' /\ Others(c)
  BY <1>1, <1>2 DEF RateInvariant, ClientTypes, Guarding, Others
<1> QED  BY <1>3, <1>4, <1>5, <1>6, <1>7, <1>8, ClientMoves

\* The clocks run on, and the wall clock may be set back.
LEMMA AgedInOrder ==
  ASSUME NEW S \in {Nat, Int}, NEW ages \in Seq(S), NEW n \in Int, NEW most \in Nat,
         n \in Nat \/ S = Int
  PROVE  /\ Rate!Aged(ages, n, most) \in Seq(S)
         /\ Len(Rate!Aged(ages, n, most)) = Len(ages)
         /\ \A k \in 1..Len(ages) :
              /\ ages[k] \in S
              /\ ages[k] + n <= most => Rate!Aged(ages, n, most)[k] = ages[k] + n
              /\ ages[k] + n > most => Rate!Aged(ages, n, most)[k] = most
<1>1. DOMAIN ages = 1..Len(ages) /\ Len(ages) \in Nat
  OBVIOUS
<1>2. \A k \in 1..Len(ages) : ages[k] \in S /\ ages[k] \in Int
  OBVIOUS
<1>3. \A k \in 1..Len(ages) : Rate!LeastOf(ages[k] + n, most) \in S
  BY <1>2 DEF Rate!LeastOf
<1>4. Rate!Aged(ages, n, most) = [k \in 1..Len(ages) |-> Rate!LeastOf(ages[k] + n, most)]
  BY <1>1, Zenon DEF Rate!Aged
<1>5. Rate!Aged(ages, n, most) \in Seq(S) /\ Len(Rate!Aged(ages, n, most)) = Len(ages)
  BY <1>1, <1>3, <1>4
<1> HIDE DEF Rate!Aged
<1> QED  BY <1>2, <1>4, <1>5 DEF Rate!LeastOf

LEMMA TickKept ==
  ASSUME RateInvariant, Rate!Tick
  PROVE  RateInvariant'
<1> DEFINE oldest == Window + back
<1>1. /\ file' = Rate!Aged(file, 1, oldest) /\ draft' = Rate!Aged(draft, 1, oldest)
      /\ recent' = Rate!Aged(recent, 1, Window)
      /\ since' = IF lock = Rate!Nobody THEN 0 ELSE Rate!LeastOf(since + 1, Window)
      /\ lock' = lock /\ back' = back /\ step' = step /\ sent' = sent /\ paid' = paid
      /\ withheld' = withheld /\ bared' = bared
      /\ until' = [c \in Clients |-> Rate!MostOf(until[c] - 1, 0)]
      /\ wake' = [c \in Clients |-> Rate!MostOf(wake[c] - 1, 0)]
  BY DEF Rate!Tick, Rate!request, Rate!Oldest
<1>2. /\ Window \in Nat /\ Limit \in Nat /\ back \in Nat /\ oldest \in Nat /\ oldest >= Window
      /\ since \in Nat
  BY RateAssumption DEF RateInvariant, Clocks, DraftCovers
<1>3. /\ file \in Seq(Int) /\ draft \in Seq(Int) /\ recent \in Seq(Nat)
      /\ Len(file) \in Nat /\ Len(draft) \in Nat /\ Len(recent) \in Nat
      /\ Len(file) <= Limit /\ Len(draft) <= Limit /\ Falling(recent) /\ Rate!Throttled
      /\ Covers(recent, file, Len(file))
  BY DEF RateInvariant, FileCovers, DraftCovers
<1> HIDE DEF oldest
<1>4. /\ file' \in Seq(Int) /\ Len(file') = Len(file)
      /\ \A k \in 1..Len(file) : file[k] \in Int
           /\ file'[k] = IF file[k] + 1 <= oldest THEN file[k] + 1 ELSE oldest
  <2>1. \A k \in 1..Len(file) : file[k] \in Int
    BY <1>3
  <2> QED  BY <1>1, <1>2, <1>3, <2>1, AgedInOrder
<1>5. /\ draft' \in Seq(Int) /\ Len(draft') = Len(draft)
      /\ \A k \in 1..Len(draft) : draft[k] \in Int
           /\ draft'[k] = IF draft[k] + 1 <= oldest THEN draft[k] + 1 ELSE oldest
  <2>1. \A k \in 1..Len(draft) : draft[k] \in Int
    BY <1>3
  <2> QED  BY <1>1, <1>2, <1>3, <2>1, AgedInOrder
<1>6. /\ recent' \in Seq(Nat) /\ Len(recent') = Len(recent)
      /\ \A k \in 1..Len(recent) : recent[k] \in Nat
           /\ recent'[k] = IF recent[k] + 1 <= Window THEN recent[k] + 1 ELSE Window
  <2>1. \A k \in 1..Len(recent) : recent[k] \in Nat
    BY <1>3
  <2> QED  BY <1>1, <1>2, <1>3, <2>1, AgedInOrder
<1>7. DOMAIN recent' = 1..Len(recent) /\ DOMAIN recent = 1..Len(recent)
  BY <1>3, <1>6
<1>8. FileCovers'
  <2>1. Falling(recent')
    <3> SUFFICES ASSUME NEW k \in 1..Len(recent), NEW m \in 1..Len(recent), k <= m
                 PROVE  recent'[m] <= recent'[k]
      BY <1>7 DEF Falling
    <3>1. recent[m] <= recent[k] /\ recent[m] \in Nat /\ recent[k] \in Nat
      <4>1. recent[m] <= recent[k]
        BY <1>3, <1>7 DEF Falling
      <4> QED  BY <1>6, <4>1
    <3>2. /\ recent'[k] = IF recent[k] + 1 <= Window THEN recent[k] + 1 ELSE Window
          /\ recent'[m] = IF recent[m] + 1 <= Window THEN recent[m] + 1 ELSE Window
      BY <1>6
    <3> QED  BY <1>2, <3>1, <3>2
  <2>2. Len(recent') > Limit => recent'[1] >= Window
    BY <1>2, <1>3, <1>6 DEF Rate!Throttled
  <2>3. Covers(recent', file', Len(file'))
    <3>1. \A k \in 1..Len(recent) : recent'[k] < Window =>
            recent[k] < Window /\ \A m \in 1..Len(file) :
              file[m] <= recent[k] => file'[m] <= recent'[k]
      <4> SUFFICES ASSUME NEW k \in 1..Len(recent), recent'[k] < Window
                   PROVE  recent[k] < Window /\ \A m \in 1..Len(file) :
                            file[m] <= recent[k] => file'[m] <= recent'[k]
        OBVIOUS
      <4>1. recent[k] \in Nat /\ recent'[k] = recent[k] + 1
        BY <1>2, <1>6
      <4> QED  BY <1>2, <1>4, <4>1
    <3>2. Covers(recent', file', Len(file))
      BY <1>3, <1>7, <3>1, CoverAges
    <3> QED  BY <1>4, <3>2
  <2> QED  BY <1>3, <1>4, <1>6, <2>1, <2>2, <2>3 DEF FileCovers, Rate!Throttled
<1>9. DraftCovers'
  <2>1. since' \in Nat
    BY <1>1, <1>2 DEF Rate!LeastOf
  <2>2. ASSUME lock # Rate!Nobody
        PROVE  /\ Len(draft') >= 1 /\ (since' < Window => draft'[Len(draft')] <= since')
               /\ \A k \in DOMAIN recent' : since' <= recent'[k]
               /\ Covers(recent', draft', Len(draft') - 1)
    <3>1. /\ Len(draft) >= 1 /\ (since < Window => draft[Len(draft)] <= since)
          /\ \A k \in DOMAIN recent : since <= recent[k]
          /\ Covers(recent, draft, Len(draft) - 1)
      BY <2>2 DEF RateInvariant, DraftCovers
    <3>2. since' = IF since + 1 <= Window THEN since + 1 ELSE Window
      BY <1>1, <1>2, <2>2 DEF Rate!LeastOf
    <3>3. since' < Window => draft'[Len(draft')] <= since'
      <4>1. Len(draft) \in 1..Len(draft) /\ Len(draft') = Len(draft)
        BY <1>3, <1>5, <3>1
      <4> QED  BY <1>2, <1>5, <3>1, <3>2, <4>1
    <3>4. \A k \in DOMAIN recent' : since' <= recent'[k]
      BY <1>2, <1>6, <1>7, <3>1, <3>2
    <3>5. Covers(recent', draft', Len(draft') - 1)
      <4>1. \A k \in 1..Len(recent) : recent'[k] < Window =>
              recent[k] < Window /\ \A m \in 1..(Len(draft) - 1) :
                draft[m] <= recent[k] => draft'[m] <= recent'[k]
        <5>1. \A m \in 1..(Len(draft) - 1) : m \in 1..Len(draft)
          BY <1>3
        <5> SUFFICES ASSUME NEW k \in 1..Len(recent), recent'[k] < Window
                     PROVE  recent[k] < Window /\ \A m \in 1..(Len(draft) - 1) :
                              draft[m] <= recent[k] => draft'[m] <= recent'[k]
          OBVIOUS
        <5>2. recent[k] \in Nat /\ recent'[k] = recent[k] + 1
          BY <1>2, <1>6
        <5>3. ASSUME NEW m \in 1..(Len(draft) - 1), draft[m] <= recent[k]
              PROVE  draft'[m] <= recent'[k]
          <6>1. m \in 1..Len(draft)
            BY <5>1
          <6>2. /\ draft[m] \in Int
                /\ draft'[m] = IF draft[m] + 1 <= oldest THEN draft[m] + 1 ELSE oldest
            BY <1>5, <6>1
          <6> QED  BY <1>2, <5>2, <5>3, <6>2
        <5>4. recent[k] < Window
          BY <1>2, <5>2
        <5> QED  BY <5>3, <5>4
      <4>2. Covers(recent', draft', Len(draft) - 1)
        BY <1>7, <3>1, <4>1, CoverAges
      <4> QED  BY <1>5, <4>2
    <3> QED  BY <1>5, <3>1, <3>3, <3>4, <3>5
  <2> QED  BY <1>1, <1>3, <1>5, <2>1, <2>2 DEF DraftCovers
<1>10. Clocks'
  <2>1. back = MaxBack => \A k \in 1..Len(file) : file'[k] >= 0
    <3>1. back = MaxBack => \A k \in 1..Len(file) : file[k] >= 0
      BY <1>3 DEF RateInvariant, Clocks
    <3> QED  BY <1>2, <1>4, <3>1
  <2>2. back = MaxBack => \A k \in 1..Len(draft) : draft'[k] >= 0
    <3>1. back = MaxBack => \A k \in 1..Len(draft) : draft[k] >= 0
      BY <1>3 DEF RateInvariant, Clocks
    <3> QED  BY <1>2, <1>5, <3>1
  <2>3. DOMAIN file' = 1..Len(file) /\ DOMAIN draft' = 1..Len(draft)
    BY <1>4, <1>5
  <2> QED  BY <1>1, <2>1, <2>2, <2>3 DEF RateInvariant, Clocks
<1>11. ClientTypes'
  <2>1. \A n \in 0..Timeout : Rate!MostOf(n - 1, 0) \in 0..Timeout
    BY RateAssumption DEF Rate!MostOf
  <2>2. until' \in [Clients -> 0..Timeout] /\ wake' \in [Clients -> 0..Timeout]
    BY <1>1, <2>1 DEF RateInvariant, ClientTypes
  <2> QED  BY <1>1, <2>2 DEF RateInvariant, ClientTypes
<1>12. \A c \in Clients : Paying(c)' /\ Guarding(c)'
  BY <1>1 DEF RateInvariant, Paying, Guarding
<1> QED  BY <1>1, <1>8, <1>9, <1>10, <1>11, <1>12 DEF RateInvariant

LEMMA SetBackKept ==
  ASSUME RateInvariant, Rate!SetBack
  PROVE  RateInvariant'
<1> DEFINE oldest == Window + back
<1>1. PICK n \in 1..back :
        /\ back' = back - n
        /\ file' = Rate!Aged(file, -n, oldest) /\ draft' = Rate!Aged(draft, -n, oldest)
        /\ lock' = lock /\ since' = since /\ recent' = recent /\ step' = step
        /\ until' = until /\ wake' = wake /\ sent' = sent /\ paid' = paid
        /\ withheld' = withheld /\ bared' = bared
  BY DEF Rate!SetBack, Rate!local, Rate!request, Rate!Oldest
<1>2. /\ Window \in Nat /\ Limit \in Nat /\ back \in Nat /\ MaxBack \in Nat /\ back <= MaxBack
      /\ oldest \in Nat /\ -n \in Int /\ n \in Nat /\ n >= 1 /\ n <= back /\ since \in Nat
  BY RateAssumption DEF RateInvariant, Clocks, DraftCovers
<1>3. /\ file \in Seq(Int) /\ draft \in Seq(Int) /\ recent \in Seq(Nat)
      /\ Len(file) \in Nat /\ Len(draft) \in Nat
      /\ Len(file) <= Limit /\ Len(draft) <= Limit /\ Falling(recent) /\ Rate!Throttled
      /\ Covers(recent, file, Len(file))
  BY DEF RateInvariant, FileCovers, DraftCovers
<1> HIDE DEF oldest
<1>4. /\ file' \in Seq(Int) /\ Len(file') = Len(file)
      /\ \A k \in 1..Len(file) : file'[k] <= file[k] /\ file[k] \in Int /\ file'[k] \in Int
  <2>1. \A k \in 1..Len(file) : file[k] \in Int
    BY <1>3
  <2>2. /\ file' \in Seq(Int) /\ Len(file') = Len(file)
        /\ \A k \in 1..Len(file) : file[k] \in Int
             /\ file'[k] = IF file[k] + (-n) <= oldest THEN file[k] + (-n) ELSE oldest
    BY <1>1, <1>2, <1>3, <2>1, AgedInOrder
  <2> QED  BY <1>2, <2>2
<1>5. /\ draft' \in Seq(Int) /\ Len(draft') = Len(draft)
      /\ \A k \in 1..Len(draft) :
           draft'[k] <= draft[k] /\ draft[k] \in Int /\ draft'[k] \in Int
  <2>1. \A k \in 1..Len(draft) : draft[k] \in Int
    BY <1>3
  <2>2. /\ draft' \in Seq(Int) /\ Len(draft') = Len(draft)
        /\ \A k \in 1..Len(draft) : draft[k] \in Int
             /\ draft'[k] = IF draft[k] + (-n) <= oldest THEN draft[k] + (-n) ELSE oldest
    BY <1>1, <1>2, <1>3, <2>1, AgedInOrder
  <2> QED  BY <1>2, <2>2
<1>6. DOMAIN recent = 1..Len(recent) /\ \A k \in 1..Len(recent) : recent[k] \in Int
  BY <1>3
<1>7. FileCovers'
  <2>1. Covers(recent, file', Len(file))
    <3>1. \A k \in 1..Len(recent) : \A m \in 1..Len(file) :
            file[m] <= recent[k] => file'[m] <= recent[k]
      BY <1>4, <1>6
    <3> QED  BY <1>3, <1>6, <3>1, CoverAges
  <2>2. Covers(recent', file', Len(file'))
    BY <1>1, <1>4, <2>1
  <2> QED  BY <1>1, <1>3, <1>4, <2>2 DEF FileCovers, Rate!Throttled
<1>8. DraftCovers'
  <2>1. ASSUME lock # Rate!Nobody
        PROVE  /\ Len(draft') >= 1 /\ (since' < Window => draft'[Len(draft')] <= since')
               /\ \A k \in DOMAIN recent' : since' <= recent'[k]
               /\ Covers(recent', draft', Len(draft') - 1)
    <3>1. /\ Len(draft) >= 1 /\ (since < Window => draft[Len(draft)] <= since)
          /\ \A k \in DOMAIN recent : since <= recent[k]
          /\ Covers(recent, draft, Len(draft) - 1)
      BY <2>1 DEF RateInvariant, DraftCovers
    <3>2. Len(draft) \in 1..Len(draft) /\ Len(draft') = Len(draft)
      BY <1>3, <1>5, <3>1
    <3>3. since < Window => draft'[Len(draft)] <= since
      BY <1>2, <1>5, <3>1, <3>2
    <3>4. Covers(recent, draft', Len(draft) - 1)
      <4>1. \A k \in 1..Len(recent) : \A m \in 1..(Len(draft) - 1) :
              draft[m] <= recent[k] => draft'[m] <= recent[k]
        <5>1. \A m \in 1..(Len(draft) - 1) : m \in 1..Len(draft)
          BY <1>3
        <5> QED  BY <1>5, <1>6, <5>1
      <4> QED  BY <1>6, <3>1, <4>1, CoverAges
    <3>5. Covers(recent', draft', Len(draft') - 1)
      BY <1>1, <3>2, <3>4
    <3> QED  BY <1>1, <3>1, <3>2, <3>3, <3>5
  <2> QED  BY <1>1, <1>2, <1>3, <1>5, <2>1 DEF DraftCovers
<1>9. Clocks'
  BY <1>1, <1>2 DEF Clocks
<1>10. ClientTypes'
  BY <1>1 DEF RateInvariant, ClientTypes
<1>11. \A c \in Clients : Paying(c)' /\ Guarding(c)'
  BY <1>1 DEF RateInvariant, Paying, Guarding
<1> QED  BY <1>7, <1>8, <1>9, <1>10, <1>11 DEF RateInvariant

LEMMA RateStep ==
  ASSUME RateInvariant, Rate!Next
  PROVE  RateInvariant'
<1>1. CASE Rate!Tick
  BY <1>1, TickKept
<1>2. CASE Rate!SetBack
  BY <1>2, SetBackKept
<1>3. ASSUME NEW c \in Clients,
             \/ Rate!Start(c) \/ Rate!LookRefused(c) \/ Rate!Forced(c) \/ Rate!SendFails(c)
             \/ Rate!Backoff(c) \/ Rate!Refused(c) \/ Rate!Accepted(c) \/ Rate!Kill(c)
      PROVE  RateInvariant'
  BY <1>3, LooksKept, CommitKept, StopsKept, SendsKept, Zenon DEF Rate!Forced
<1> QED  BY <1>1, <1>2, <1>3, Zenon DEF Rate!Next

LEMMA RateRests ==
  ASSUME RateInvariant, UNCHANGED rateVars
  PROVE  RateInvariant'
<1>1. /\ SharedSame /\ step' = step /\ until' = until /\ wake' = wake /\ sent' = sent
      /\ withheld' = withheld /\ paid' = paid /\ bared' = bared
  BY DEF rateVars, SharedSame
<1>2. FileCovers' /\ DraftCovers' /\ Clocks'
  BY <1>1, SharedRests
<1>3. ClientTypes'
  BY <1>1, Zenon DEF RateInvariant, ClientTypes, SharedSame
<1>4. \A c \in Clients : Paying(c)' /\ Guarding(c)'
  BY <1>1 DEF RateInvariant, Paying, Guarding, SharedSame
<1> QED  BY <1>2, <1>3, <1>4 DEF RateInvariant

LEMMA RateKept ==
  RateInvariant /\ [RequestsNext]_all => RateInvariant'
<1> SUFFICES ASSUME RateInvariant, [RequestsNext]_all  PROVE RateInvariant'
  OBVIOUS
<1>1. CASE InRate(Rate!Next)
  BY <1>1, RateStep DEF InRate
<1>2. CASE UNCHANGED rateVars
  BY <1>2, RateRests
<1>3. CASE InHttp(Next) \/ InRead(Reading!Next)
  BY <1>2, <1>3 DEF InHttp, InRead
<1>4. CASE UNCHANGED all
  BY <1>2, <1>4 DEF all
<1> QED  BY <1>1, <1>3, <1>4 DEF RequestsNext

LEMMA RateImplied ==
  RateInvariant => RateInv
<1> SUFFICES ASSUME RateInvariant  PROVE RateInv
  OBVIOUS
<1>1. Rate!TypeOK
  <2>1. /\ file \in Seq(Int) /\ draft \in Seq(Int) /\ recent \in Seq(Nat) /\ since \in Nat
        /\ back \in 0..MaxBack
    BY DEF RateInvariant, FileCovers, DraftCovers, Clocks
  <2>2. ClientTypes
    BY DEF RateInvariant
  <2>3. \A c \in Clients : step[c] = "commit" <=> lock = c
    BY DEF RateInvariant, Paying
  <2> QED  BY <2>1, <2>2, <2>3 DEF Rate!TypeOK, ClientTypes
<1>2. Rate!Throttled /\ Rate!FileUsable
  BY DEF RateInvariant, FileCovers, Clocks, Rate!FileUsable
<1>3. Rate!EachSendReserved
  BY DEF RateInvariant, Paying, Rate!EachSendReserved
<1> QED  BY <1>1, <1>2, <1>3 DEF RateInv, Rate!ThrottleHolds

\* No window has more reservations than allowed, however far the wall clock is set back
\* and whoever is killed or fails to write; the file stays one that the next process
\* reads, and each request has a reservation of its own (wait_for_token_rate_limit,
\* acquire_client_credentials).
THEOREM RequestsAreThrottled == RequestsSpec => []RateInv
<1>1. RequestsSpec => []RateInvariant
  BY RateStarts, RateKept, PTL DEF RequestsSpec
<1> QED  BY <1>1, RateImplied, PTL

\* No client's acquisition gives back less than it got.
NobodyBares == \A c \in Clients : bared'[c] => bared[c]

GuardedStep ==
  \A c \in Clients :
    bared'[c] /\ ~bared[c] => sent[c] = 1 /\ step[c] \in {"lock", "commit"} /\ until[c] > 0

LEMMA FinishGuards ==
  ASSUME RateInvariant, NEW c \in Clients, NEW answers, NEW final,
         Rate!Finish(c, answers, final), 1..answers \subseteq final
  PROVE  NobodyBares
<1>1. bared' = [bared EXCEPT ![c] = FALSE]
  <2> DEFINE bare == ~(1..answers \subseteq final)
  <2>1. bared' = [bared EXCEPT ![c] = bare] /\ bare = FALSE
    BY Zenon DEF Rate!Finish
  <2> HIDE DEF bare
  <2> QED  BY <2>1
<1> QED  BY <1>1 DEF RateInvariant, ClientTypes, NobodyBares

LEMMA TimeOutGuards ==
  ASSUME RateInvariant, NEW c \in Clients, Rate!TimeOut(c)
  PROVE  NobodyBares
<1>1. 1..sent[c] \subseteq Rate!DenyAll
  BY DEF RateInvariant, ClientTypes, Paying, Rate!DenyAll, Rate!Answers
<1> QED  BY <1>1, FinishGuards DEF Rate!TimeOut

\* The throttle's own errors, which have no guard, are the errors of a request that
\* was made again if they leave an answer out.
LEMMA FailGuards ==
  ASSUME RateInvariant, NEW c \in Clients, Rate!Fail(c), step[c] \in {"lock", "commit"},
         until[c] > 0
  PROVE  GuardedStep
<1>1. sent[c] \in {0, 1}
  BY DEF RateInvariant, ClientTypes, Paying
<1>2. CASE sent[c] = 0
  <2>1. 1..sent[c] \subseteq {}
    BY <1>2
  <2>2. NobodyBares
    BY <2>1, FinishGuards DEF Rate!Fail
  <2> QED  BY <2>2 DEF NobodyBares, GuardedStep
<1>3. CASE sent[c] = 1
  <2> SUFFICES ASSUME NEW d \in Clients, bared'[d], ~bared[d]  PROVE d = c
    BY <1>3 DEF GuardedStep
  <2>1. PICK bare \in BOOLEAN : bared' = [bared EXCEPT ![c] = bare]
    BY FinishEnds DEF Rate!Fail, Ended
  <2> QED  BY <2>1 DEF RateInvariant, ClientTypes
<1> QED  BY <1>1, <1>2, <1>3

\* What comes back from the endpoint has a guard of every answer.
LEMMA AnswerGuards ==
  ASSUME RateInvariant, NEW c \in Clients, step[c] = "sent"
  PROVE  /\ 1..(sent[c] - 1) \subseteq withheld[c]
         /\ \A oversized \in BOOLEAN : 1..sent[c] \subseteq Rate!GuardWith(c, oversized)
<1>1. sent[c] \in {1, 2} /\ Rate!Answers = {1, 2}
  BY DEF RateInvariant, ClientTypes, Paying, Rate!Answers
<1>2. \A n \in Rate!Answers : n < sent[c] => n \in withheld[c]
  BY DEF RateInvariant, Guarding
<1>3. \A n \in 1..(sent[c] - 1) : n \in Rate!Answers /\ n < sent[c]
  BY <1>1
<1>4. \A n \in 1..sent[c] : n \in Rate!Answers /\ (n < sent[c] \/ n = sent[c])
  BY <1>1
<1>5. ASSUME NEW oversized \in BOOLEAN
      PROVE  1..sent[c] \subseteq Rate!GuardWith(c, oversized)
  BY <1>2, <1>4, Zenon DEF Rate!GuardWith, Rate!DenyAll
<1> QED  BY <1>2, <1>3, <1>5

LEMMA RequestGuards ==
  ASSUME RateInvariant, NEW c \in Clients,
         \/ Rate!SendFails(c) \/ Rate!SendTimeout(c) \/ Rate!Backoff(c) \/ Rate!Refused(c)
         \/ Rate!Accepted(c)
  PROVE  NobodyBares
<1>1. step[c] = "sent"
  BY DEF Rate!SendFails, Rate!SendTimeout, Rate!Backoff, Rate!Refused, Rate!Accepted
<1>2. ASSUME NEW answers, NEW final, Rate!Finish(c, answers, final),
             \/ answers = sent[c] - 1 /\ final = withheld[c]
             \/ /\ answers = sent[c]
                /\ \E oversized \in BOOLEAN : final = Rate!GuardWith(c, oversized)
      PROVE  NobodyBares
  BY <1>1, <1>2, AnswerGuards, FinishGuards
<1>3. CASE Rate!SendFails(c) \/ Rate!Accepted(c)
  <2>1. FALSE \in BOOLEAN
    OBVIOUS
  <2> QED  BY <1>2, <1>3, <2>1, Zenon DEF Rate!SendFails, Rate!Accepted
<1>4. CASE Rate!SendTimeout(c)
  BY <1>4, TimeOutGuards DEF Rate!SendTimeout
<1>5. CASE Rate!Refused(c)
  BY <1>2, <1>5, Zenon DEF Rate!Refused
<1>6. CASE Rate!Backoff(c)
  <2>1. \/ \E oversized \in BOOLEAN : Rate!Finish(c, sent[c], Rate!GuardWith(c, oversized))
        \/ bared' = bared
    BY <1>6, Zenon DEF Rate!Backoff, Rate!Goto
  <2> QED  BY <1>2, <2>1 DEF NobodyBares
<1> QED  BY <1>3, <1>4, <1>5, <1>6

LEMMA ClientGuards ==
  ASSUME RateInvariant, NEW c \in Clients,
         \/ Rate!Start(c) \/ Rate!LookRefused(c) \/ Rate!Forced(c) \/ Rate!SendFails(c)
         \/ Rate!Backoff(c) \/ Rate!Refused(c) \/ Rate!Accepted(c) \/ Rate!Kill(c)
  PROVE  GuardedStep
<1>1. ASSUME NobodyBares  PROVE GuardedStep
  BY <1>1 DEF NobodyBares, GuardedStep
<1>2. CASE Rate!Start(c)
  <2>1. bared' = [bared EXCEPT ![c] = FALSE]
    BY <1>2 DEF Rate!Start
  <2> QED  BY <1>1, <2>1 DEF RateInvariant, ClientTypes, NobodyBares
<1>3. CASE Rate!LookRefused(c)
  BY <1>3, FailGuards DEF Rate!LookRefused, Rate!Open
<1>4. CASE Rate!LookRoom(c) \/ Rate!LookFull(c) \/ Rate!Commit(c) \/ Rate!Replay(c)
  <2>1. bared' = bared
    BY <1>4 DEF Rate!LookRoom, Rate!LookFull, Rate!Commit, Rate!Replay, Rate!Goto
  <2> QED  BY <1>1, <2>1 DEF NobodyBares
<1>5. CASE Rate!LockTimeout(c) \/ Rate!Rested(c) \/ Rate!Send(c)
  <2>1. Rate!TimeOut(c) \/ bared' = bared
    BY <1>5 DEF Rate!LockTimeout, Rate!Rested, Rate!Send, Rate!Goto
  <2> QED  BY <1>1, <2>1, TimeOutGuards DEF NobodyBares
<1>6. CASE Rate!CommitFails(c)
  <2>1. step[c] = "commit" /\ ((Rate!Fail(c) /\ until[c] > 0) \/ Rate!TimeOut(c))
    BY <1>6 DEF Rate!CommitFails
  <2> QED  BY <1>1, <2>1, FailGuards, TimeOutGuards
<1>7. CASE Rate!Kill(c)
  <2>1. Rate!TimeOut(c)
    BY <1>7 DEF Rate!Kill, Rate!TimeOut
  <2> QED  BY <1>1, <2>1, TimeOutGuards
<1>8. CASE \/ Rate!SendFails(c) \/ Rate!SendTimeout(c) \/ Rate!Backoff(c) \/ Rate!Refused(c)
           \/ Rate!Accepted(c)
  BY <1>1, <1>8, RequestGuards
<1> QED
  BY <1>2, <1>3, <1>4, <1>5, <1>6, <1>7, <1>8, Zenon DEF Rate!Forced

LEMMA RateGuards ==
  RateInvariant /\ [RequestsNext]_all => [GuardedStep]_(Rate!vars)
<1> SUFFICES ASSUME RateInvariant, RequestsNext, ~(UNCHANGED Rate!vars)  PROVE GuardedStep
  BY DEF all, rateVars, Rate!vars, Rate!shared, Rate!local, Rate!request
<1>1. Rate!Next
  BY DEF RequestsNext, InHttp, InRate, InRead, rateVars, Rate!vars, Rate!shared, Rate!local,
         Rate!request
<1>2. CASE Rate!Tick \/ Rate!SetBack
  <2>1. bared' = bared
    BY <1>2 DEF Rate!Tick, Rate!SetBack, Rate!local
  <2> QED  BY <2>1 DEF GuardedStep
<1> QED  BY <1>1, <1>2, ClientGuards, Zenon DEF Rate!Next

\* Whatever comes of the replay of a token request, a token, a refusal, a transport error
\* or the deadline, what it gives back has the guard of every answer that it got; only an
\* error of the throttle between the two requests, at its file or its lock, has none
\* (acquire_client_credentials, token_with_mode_until).
THEOREM AnswersAreGuarded == RequestsSpec => AnswersGuarded
<1>1. RequestsSpec => []RateInvariant
  BY RateStarts, RateKept, PTL DEF RequestsSpec
<1>2. RequestsSpec => [][RequestsNext]_all
  BY PTL DEF RequestsSpec
<1>3. AnswersGuarded <=> [][GuardedStep]_(Rate!vars)
  BY DEF AnswersGuarded, Rate!AnswersGuarded, GuardedStep
<1> QED  BY <1>1, <1>2, <1>3, RateGuards, PTL

-------------------------------------------------------------------------------
(***************************************************************************)
(* What the entity commands take, send and accept of a raw request         *)
(* (EntityRequests).  One lemma per operation says what its query and its  *)
(* body hold, one that its raw request is reviewed as itself, and that one *)
(* with a key or a value more is not.                                      *)
(***************************************************************************)
\* A raw request with a key more, and with another value of a key.
More(raw) == [raw EXCEPT !.query = Reading!++(@, Reading!Pair("unreviewed", "plain"))]
Odd(raw, key, value) == [raw EXCEPT !.query[key] = value]

LEMMA Changed ==
  ASSUME NEW query, NEW body, NEW raw, raw = [query |-> query, body |-> body]
  PROVE  /\ "unreviewed" \in DOMAIN More(raw).query /\ More(raw).body = body
         /\ \A key \in DOMAIN query : \A value :
              /\ key \in DOMAIN Odd(raw, key, value).query
              /\ Odd(raw, key, value).query[key] = value
<1>1. More(raw).query = Reading!++(query, Reading!Pair("unreviewed", "plain"))
  BY DEF More
<1>2. More(raw).body = body
  BY DEF More
<1>4. "unreviewed" \in DOMAIN More(raw).query
  BY <1>1 DEF Reading!++, Reading!Pair
<1>5. ASSUME NEW key \in DOMAIN query, NEW value
      PROVE  /\ key \in DOMAIN Odd(raw, key, value).query
             /\ Odd(raw, key, value).query[key] = value
  <2>1. Odd(raw, key, value).query = [query EXCEPT ![key] = value]
    BY DEF Odd
  <2> QED  BY <2>1, Zenon
<1> QED  BY <1>2, <1>4, <1>5

LEMMA HistorySent ==
  ASSUME NEW r \in Reading!Typed, r.op = "history", NEW q, q = Reading!SentHistory(r).query
  PROVE  /\ DOMAIN q \subseteq {"max", "offset", "order", "filter", "showAll", "options"}
         /\ {"max", "offset", "order"} \subseteq DOMAIN q
         /\ q["max"] = r.max /\ q["offset"] = r.offset /\ q["order"] = r.order
         /\ Reading!TextOf(q, "filter") = r.filter /\ Reading!OptionsOf(q) = r.options
         /\ ("showAll" \in DOMAIN q) <=> r.show_all
         /\ "showAll" \in DOMAIN q => q["showAll"] = "true"
<1> USE DEF Reading!SentHistory, Reading!Given, Reading!Options, Reading!Flag, Reading!Empty,
            Reading!TextOf, Reading!OptionsOf, Reading!++, Reading!Pair, Reading!Page
<1>1. /\ DOMAIN q \subseteq {"max", "offset", "order", "filter", "showAll", "options"}
      /\ {"max", "offset", "order"} \subseteq DOMAIN q
  OBVIOUS
<1>2. q["max"] = r.max /\ q["offset"] = r.offset /\ q["order"] = r.order
  OBVIOUS
<1>3. Reading!TextOf(q, "filter") = r.filter
  OBVIOUS
<1>4. Reading!OptionsOf(q) = r.options
  OBVIOUS
<1>5. ("showAll" \in DOMAIN q <=> r.show_all) /\ ("showAll" \in DOMAIN q => q["showAll"] = "true")
  OBVIOUS
<1> QED  BY <1>1, <1>2, <1>3, <1>4, <1>5

LEMMA HistoryIsReviewed ==
  ASSUME NEW r \in Reading!Typed, r.op = "history"
  PROVE  Reading!TypedIsReviewed(r)
<1> DEFINE raw == Reading!RawOf(r)
           q == raw.query
           ok == /\ r.max # 0 /\ r.offset + r.max <= HistoryBoundary
                 /\ r.order = "plain" /\ Reading!Filled(r.filter)
                 /\ r.show_all => r.filter = "none"
<1>1. /\ raw = Reading!SentHistory(r) /\ raw = Reading!Sent(r)
      /\ raw = [query |-> q, body |-> Reading!Empty]
  BY DEF Reading!RawOf, Reading!Sent, Reading!SentHistory
<1>2. \A other : Reading!Preflight(r, other) = Reading!PreflightHistory(other.query, 1)
  BY DEF Reading!Preflight
<1>3. Reading!Valid(r) <=> Reading!ValidEntity(r) /\ ok
  BY DEF Reading!Valid, Reading!ValidHistory
<1>0. /\ DOMAIN q \subseteq {"max", "offset", "order", "filter", "showAll", "options"}
      /\ {"max", "offset", "order"} \subseteq DOMAIN q
      /\ q["max"] = r.max /\ q["offset"] = r.offset /\ q["order"] = r.order
      /\ Reading!TextOf(q, "filter") = r.filter /\ Reading!OptionsOf(q) = r.options
      /\ ("showAll" \in DOMAIN q) <=> r.show_all
      /\ "showAll" \in DOMAIN q => q["showAll"] = "true"
  BY <1>1, HistorySent
<1>9. /\ r.max \in Nat /\ r.offset \in Nat /\ r.show_all \in BOOLEAN
      /\ r.options \subseteq {"plain"}
  BY DEF Reading!Typed, Reading!Request
<1> HIDE DEF raw
<1>4. Reading!Preflight(r, raw) = IF ok THEN "reviewed" ELSE "refused"
  <2>1. Reading!ValidHistory([Reading!Unset EXCEPT !.max = r.max, !.offset = r.offset,
           !.order = r.order, !.filter = r.filter, !.show_all = r.show_all]) <=> ok
    BY DEF Reading!ValidHistory, Reading!ValidEntity, Reading!Unset
  <2>2. Reading!Numbers(q, {"max", "offset"})
    BY <1>0, <1>9 DEF Reading!Numbers, Reading!Unparsed
  <2>3. Reading!Booleans(q, {"showAll", "showMajorEventsOnly"})
    BY <1>0 DEF Reading!Booleans
  <2>4. /\ Reading!Number(q, "max", 1) = r.max /\ Reading!Number(q, "offset", 0) = r.offset
        /\ (IF "order" \in DOMAIN q THEN q["order"] ELSE "plain") = r.order
    BY <1>0 DEF Reading!Number
  <2>5. Reading!On(q, "showAll") = r.show_all
    BY <1>0, <1>9 DEF Reading!On, Reading!TextOf
  <2>6. DOMAIN q \subseteq {"max", "offset", "order", "filter", "showAll",
                            "showMajorEventsOnly", "options"}
    BY <1>0
  <2> HIDE DEF ok, q
  <2> QED
    BY <1>2, <1>0, <1>9, <2>1, <2>2, <2>3, <2>4, <2>5, <2>6
    DEF Reading!PreflightHistory, Reading!Verdict, q
<1>5. Reading!Preflight(r, More(raw)) # "reviewed"
  <2>1. "unreviewed" \in DOMAIN More(raw).query
    BY <1>1, Changed
  <2> QED  BY <1>2, <2>1 DEF Reading!PreflightHistory, Reading!Verdict
<1>6. \A key \in DOMAIN q \cap {"max", "offset", "deep"} :
        Reading!Preflight(r, Odd(raw, key, Reading!Unparsed)) = "refused"
  <2> SUFFICES ASSUME NEW key \in {"max", "offset"}, key \in DOMAIN q
               PROVE  Reading!Preflight(r, Odd(raw, key, Reading!Unparsed)) = "refused"
    BY <1>0
  <2> DEFINE other == Odd(raw, key, Reading!Unparsed).query
  <2>1. key \in DOMAIN other /\ other[key] = Reading!Unparsed
    BY <1>1, Changed
  <2> HIDE DEF other
  <2>2. ~Reading!Numbers(other, {"max", "offset"})
    BY <2>1 DEF Reading!Numbers
  <2> QED  BY <1>2, <2>2 DEF Reading!PreflightHistory, Reading!Verdict, other
<1>7. \A key \in DOMAIN q \cap {"sendMasked", "showAll", "transitive", "forceMatch"} :
        Reading!Preflight(r, Odd(raw, key, "unknown")) = "refused"
  <2> SUFFICES ASSUME "showAll" \in DOMAIN q
               PROVE  Reading!Preflight(r, Odd(raw, "showAll", "unknown")) = "refused"
    BY <1>0
  <2> DEFINE other == Odd(raw, "showAll", "unknown").query
  <2>1. "showAll" \in DOMAIN other /\ other["showAll"] = "unknown"
    BY <1>1, Changed
  <2> HIDE DEF other
  <2>2. ~Reading!Booleans(other, {"showAll", "showMajorEventsOnly"})
    BY <2>1 DEF Reading!Booleans
  <2> QED  BY <1>2, <2>2 DEF Reading!PreflightHistory, Reading!Verdict, other
<1>8. Reading!HistoryWindow(q) = <<r.offset, r.max>>
  BY <1>0 DEF Reading!HistoryWindow, Reading!Number
<1> HIDE DEF ok
<1> QED
  BY <1>1, <1>3, <1>4, <1>5, <1>6, <1>7, <1>8
  DEF Reading!TypedIsReviewed, Reading!OnlyTyped, More, Odd, raw

LEMMA GetSent ==
  ASSUME NEW r \in Reading!Typed, NEW q, q = Reading!SentGet(r).query
  PROVE  /\ DOMAIN q \subseteq {"select", "options", "sendMasked", "explicitSurvivorshipGroup",
                           "reverseTranscodeLookups"}
         /\ Reading!TextOf(q, "select") = r.select
         /\ Reading!OptionsOf(q) = r.options
         /\ "sendMasked" \in DOMAIN q => q["sendMasked"] = "true"
         /\ Reading!TextOf(q, "explicitSurvivorshipGroup") = r.group
         /\ Reading!TextOf(q, "reverseTranscodeLookups") = r.transcode
<1> USE DEF Reading!SentGet, Reading!Given, Reading!Options, Reading!Flag, Reading!Empty,
            Reading!TextOf, Reading!OptionsOf, Reading!++, Reading!Pair, Reading!Page
<1>1. DOMAIN q \subseteq {"select", "options", "sendMasked", "explicitSurvivorshipGroup",
                           "reverseTranscodeLookups"}
  OBVIOUS
<1>2. Reading!TextOf(q, "select") = r.select
  OBVIOUS
<1>3. Reading!OptionsOf(q) = r.options
  OBVIOUS
<1>4. "sendMasked" \in DOMAIN q => q["sendMasked"] = "true"
  OBVIOUS
<1>5. Reading!TextOf(q, "explicitSurvivorshipGroup") = r.group
  OBVIOUS
<1>6. Reading!TextOf(q, "reverseTranscodeLookups") = r.transcode
  OBVIOUS
<1> QED  BY <1>1, <1>2, <1>3, <1>4, <1>5, <1>6

LEMMA GetIsReviewed ==
  ASSUME NEW r \in Reading!Typed, r.op = "get"
  PROVE  Reading!TypedIsReviewed(r)
<1> DEFINE raw == Reading!RawOf(r)
           q == raw.query
           ok == Reading!ValidSelect(r.select) /\ Reading!ValidGetOptions(r.options)
                   /\ Reading!Filled(r.group) /\ Reading!Filled(r.transcode)
<1>1. /\ raw = Reading!SentGet(r) /\ raw = Reading!Sent(r) /\ raw.body = Reading!Empty
      /\ raw = [query |-> q, body |-> Reading!Empty]
  BY DEF Reading!RawOf, Reading!Sent, Reading!SentGet
<1>2. \A other : Reading!Preflight(r, other) = Reading!PreflightGet(other.query, other.body)
  BY DEF Reading!Preflight
<1>3. Reading!Valid(r) <=> Reading!ValidEntity(r) /\ ok
  BY DEF Reading!Valid, Reading!ValidGet
<1>4. /\ DOMAIN q \subseteq {"select", "options", "sendMasked", "explicitSurvivorshipGroup",
                             "reverseTranscodeLookups"}
      /\ Reading!TextOf(q, "select") = r.select /\ Reading!OptionsOf(q) = r.options
      /\ "sendMasked" \in DOMAIN q => q["sendMasked"] = "true"
      /\ Reading!TextOf(q, "explicitSurvivorshipGroup") = r.group
      /\ Reading!TextOf(q, "reverseTranscodeLookups") = r.transcode
  BY <1>1, GetSent
<1> HIDE DEF raw
<1>5. Reading!Preflight(r, raw) = IF ok THEN "reviewed" ELSE "refused"
  <2>1. Reading!ValidGet([Reading!Unset EXCEPT !.select = r.select, !.options = r.options,
                            !.group = r.group, !.transcode = r.transcode]) <=> ok
    BY DEF Reading!ValidGet, Reading!ValidEntity, Reading!Unset
  <2>2. Reading!Numbers(q, {"time", "defaultMaxValues"})
    BY <1>4 DEF Reading!Numbers
  <2>3. Reading!Booleans(q, {"mergeDuplicateCrosswalks", "sendMasked"})
    BY <1>4 DEF Reading!Booleans
  <2>4. DOMAIN q \subseteq Reading!GetKeys
    BY <1>4 DEF Reading!GetKeys
  <2> HIDE DEF ok
  <2> QED
    BY <1>1, <1>2, <1>4, <2>1, <2>2, <2>3, <2>4 DEF Reading!PreflightGet, Reading!Verdict
<1>6. Reading!Preflight(r, More(raw)) # "reviewed"
  <2>1. "unreviewed" \in DOMAIN More(raw).query
    BY <1>1, Changed
  <2> QED  BY <1>2, <2>1 DEF Reading!PreflightGet, Reading!Verdict, Reading!GetKeys
<1>7. DOMAIN q \cap {"max", "offset", "deep"} = {}
  BY <1>4
<1>8. \A key \in DOMAIN q \cap {"sendMasked", "showAll", "transitive", "forceMatch"} :
        Reading!Preflight(r, Odd(raw, key, "unknown")) = "refused"
  <2> SUFFICES ASSUME "sendMasked" \in DOMAIN q
               PROVE  Reading!Preflight(r, Odd(raw, "sendMasked", "unknown")) = "refused"
    BY <1>4
  <2> DEFINE other == Odd(raw, "sendMasked", "unknown").query
  <2>1. "sendMasked" \in DOMAIN other /\ other["sendMasked"] = "unknown"
    BY <1>1, Changed
  <2> HIDE DEF other
  <2>2. ~Reading!Booleans(other, {"mergeDuplicateCrosswalks", "sendMasked"})
    BY <2>1 DEF Reading!Booleans
  <2> QED  BY <1>2, <2>2 DEF Reading!PreflightGet, Reading!Verdict, other
<1> HIDE DEF ok
<1> QED
  BY <1>1, <1>3, <1>5, <1>6, <1>7, <1>8
  DEF Reading!TypedIsReviewed, Reading!OnlyTyped, More, Odd, raw

LEMMA ByCrosswalkSent ==
  ASSUME NEW r \in Reading!Typed, NEW q, q = Reading!SentByCrosswalk(r).query
  PROVE  /\ DOMAIN q \subseteq {"type", "sourceTable", "options"}
         /\ Reading!TextOf(q, "type") = r.source_type
         /\ Reading!TextOf(q, "sourceTable") = r.source_table
         /\ Reading!OptionsOf(q) = r.options
<1> USE DEF Reading!SentByCrosswalk, Reading!Given, Reading!Options, Reading!Flag, Reading!Empty,
            Reading!TextOf, Reading!OptionsOf, Reading!++, Reading!Pair, Reading!Page
<1>1. DOMAIN q \subseteq {"type", "sourceTable", "options"}
  OBVIOUS
<1>2. Reading!TextOf(q, "type") = r.source_type
  OBVIOUS
<1>3. Reading!TextOf(q, "sourceTable") = r.source_table
  OBVIOUS
<1>4. Reading!OptionsOf(q) = r.options
  OBVIOUS
<1> QED  BY <1>1, <1>2, <1>3, <1>4

LEMMA ByCrosswalkIsReviewed ==
  ASSUME NEW r \in Reading!Typed, r.op = "by-crosswalk"
  PROVE  Reading!TypedIsReviewed(r)
<1> DEFINE raw == Reading!RawOf(r)
           q == raw.query
           ok == Reading!ValidByCrosswalk(r)
<1>1. /\ raw = Reading!SentByCrosswalk(r) /\ raw = Reading!Sent(r) /\ raw.body = Reading!Empty
      /\ raw = [query |-> q, body |-> Reading!Empty]
  BY DEF Reading!RawOf, Reading!Sent, Reading!SentByCrosswalk
<1>2. \A other : Reading!Preflight(r, other)
                   = Reading!PreflightByCrosswalk(r.value, other.query, other.body)
  BY DEF Reading!Preflight
<1>3. Reading!Valid(r) <=> ok
  BY DEF Reading!Valid
<1>4. /\ DOMAIN q \subseteq {"type", "sourceTable", "options"}
      /\ Reading!TextOf(q, "type") = r.source_type
      /\ Reading!TextOf(q, "sourceTable") = r.source_table
      /\ Reading!OptionsOf(q) = r.options
  BY <1>1, ByCrosswalkSent
<1> HIDE DEF raw
<1>5. Reading!Preflight(r, raw) = IF ok THEN "reviewed" ELSE "refused"
  <2>1. Reading!ValidByCrosswalk(
          [Reading!Unset EXCEPT !.value = r.value, !.source_type = r.source_type,
                                !.source_table = r.source_table, !.options = r.options]) <=> ok
    BY DEF Reading!ValidByCrosswalk, Reading!Unset
  <2> HIDE DEF ok
  <2> QED  BY <1>1, <1>2, <1>4, <2>1 DEF Reading!PreflightByCrosswalk, Reading!Verdict
<1>6. Reading!Preflight(r, More(raw)) # "reviewed"
  <2>1. "unreviewed" \in DOMAIN More(raw).query
    BY <1>1, Changed
  <2> QED  BY <1>2, <2>1 DEF Reading!PreflightByCrosswalk, Reading!Verdict
<1>7. /\ DOMAIN q \cap {"max", "offset", "deep"} = {}
      /\ DOMAIN q \cap {"sendMasked", "showAll", "transitive", "forceMatch"} = {}
  BY <1>4
<1> HIDE DEF ok
<1> QED
  BY <1>1, <1>3, <1>5, <1>6, <1>7
  DEF Reading!TypedIsReviewed, Reading!OnlyTyped, More, Odd, raw

LEMMA MatchesSent ==
  ASSUME NEW r \in Reading!Typed, NEW q, q = Reading!SentMatches(r).query
  PROVE  /\ DOMAIN q \subseteq {"transitive", "forceMatch", "deep", "max", "offset", "type"}
         /\ {"transitive", "forceMatch", "deep", "max", "offset"} \subseteq DOMAIN q
         /\ q["transitive"] = "false" /\ q["forceMatch"] = "false" /\ q["deep"] = 1
         /\ q["max"] = r.max /\ q["offset"] = r.offset
         /\ Reading!TextOf(q, "type") = r.match_type
<1> USE DEF Reading!SentMatches, Reading!Given, Reading!Options, Reading!Flag, Reading!Empty,
            Reading!TextOf, Reading!OptionsOf, Reading!++, Reading!Pair, Reading!Page
<1>1. DOMAIN q \subseteq {"transitive", "forceMatch", "deep", "max", "offset", "type"}
  OBVIOUS
<1>2. {"transitive", "forceMatch", "deep", "max", "offset"} \subseteq DOMAIN q
  OBVIOUS
<1>3. q["transitive"] = "false" /\ q["forceMatch"] = "false" /\ q["deep"] = 1
  OBVIOUS
<1>4. q["max"] = r.max /\ q["offset"] = r.offset
  OBVIOUS
<1>5. Reading!TextOf(q, "type") = r.match_type
  OBVIOUS
<1> QED  BY <1>1, <1>2, <1>3, <1>4, <1>5

LEMMA MatchesIsReviewed ==
  ASSUME NEW r \in Reading!Typed, r.op = "matches"
  PROVE  Reading!TypedIsReviewed(r)
<1> DEFINE raw == Reading!RawOf(r)
           q == raw.query
           known == r.match_type \in {"none", "plain"}
<1>1. /\ raw = Reading!SentMatches(r) /\ raw = Reading!Sent(r) /\ raw.body = Reading!Empty
      /\ raw = [query |-> q, body |-> Reading!Empty]
  BY DEF Reading!RawOf, Reading!Sent, Reading!SentMatches
<1>2. \A other : Reading!Preflight(r, other) = Reading!PreflightMatches(other.query, 1)
  BY DEF Reading!Preflight
<1>3. Reading!Valid(r) <=> Reading!ValidEntity(r) /\ r.max # 0 /\ known
  BY DEF Reading!Valid, Reading!ValidMatches
<1>4. /\ DOMAIN q \subseteq {"transitive", "forceMatch", "deep", "max", "offset", "type"}
      /\ {"transitive", "forceMatch", "deep", "max", "offset"} \subseteq DOMAIN q
      /\ q["transitive"] = "false" /\ q["forceMatch"] = "false" /\ q["deep"] = 1
      /\ q["max"] = r.max /\ q["offset"] = r.offset
      /\ Reading!TextOf(q, "type") = r.match_type
  BY <1>1, MatchesSent
<1>5. r.max \in Nat /\ r.offset \in Nat
  BY DEF Reading!Typed, Reading!Request
<1> HIDE DEF raw
<1>6. /\ r.max # 0 /\ known => Reading!Preflight(r, raw) = "reviewed"
      /\ r.max = 0 => Reading!Preflight(r, raw) = "refused"
  <2>1. Reading!ValidMatches([Reading!Unset EXCEPT !.max = r.max]) <=> r.max # 0
    BY DEF Reading!ValidMatches, Reading!ValidEntity, Reading!Unset
  <2>2. Reading!Numbers(q, {"deep", "max", "offset"})
    BY <1>4, <1>5 DEF Reading!Numbers, Reading!Unparsed
  <2>3. Reading!Booleans(q, {"transitive", "forceMatch"})
    BY <1>4 DEF Reading!Booleans
  <2>4. /\ Reading!Number(q, "max", 1) = r.max /\ Reading!Number(q, "deep", 1) = 1
        /\ Reading!Number(q, "deep", 0) = 1
    BY <1>4 DEF Reading!Number
  <2>5. ~Reading!On(q, "transitive") /\ ~Reading!On(q, "forceMatch")
    BY <1>4 DEF Reading!On, Reading!TextOf
  <2>6. known => Reading!Filled(r.match_type)
    BY DEF Reading!Filled
  <2>7. Reading!Preflight(r, raw) = Reading!PreflightMatches(q, 1)
    BY <1>2
  <2> HIDE DEF q
  <2> QED
    BY <1>4, <2>1, <2>2, <2>3, <2>4, <2>5, <2>6, <2>7
    DEF Reading!PreflightMatches, Reading!Verdict
<1>7. Reading!Preflight(r, More(raw)) # "reviewed"
  <2>1. "unreviewed" \in DOMAIN More(raw).query
    BY <1>1, Changed
  <2> QED  BY <1>2, <2>1 DEF Reading!PreflightMatches, Reading!Verdict
<1>8. \A key \in DOMAIN q \cap {"max", "offset", "deep"} :
        Reading!Preflight(r, Odd(raw, key, Reading!Unparsed)) = "refused"
  <2> SUFFICES ASSUME NEW key \in {"max", "offset", "deep"}, key \in DOMAIN q
               PROVE  Reading!Preflight(r, Odd(raw, key, Reading!Unparsed)) = "refused"
    OBVIOUS
  <2> DEFINE other == Odd(raw, key, Reading!Unparsed).query
  <2>1. key \in DOMAIN other /\ other[key] = Reading!Unparsed
    BY <1>1, Changed
  <2> HIDE DEF other
  <2>2. ~Reading!Numbers(other, {"deep", "max", "offset"})
    BY <2>1 DEF Reading!Numbers
  <2> QED  BY <1>2, <2>2 DEF Reading!PreflightMatches, Reading!Verdict, other
<1>9. \A key \in DOMAIN q \cap {"sendMasked", "showAll", "transitive", "forceMatch"} :
        Reading!Preflight(r, Odd(raw, key, "unknown")) = "refused"
  <2> SUFFICES ASSUME NEW key \in {"transitive", "forceMatch"}, key \in DOMAIN q
               PROVE  Reading!Preflight(r, Odd(raw, key, "unknown")) = "refused"
    BY <1>4
  <2> DEFINE other == Odd(raw, key, "unknown").query
  <2>1. key \in DOMAIN other /\ other[key] = "unknown"
    BY <1>1, Changed
  <2> HIDE DEF other
  <2>2. ~Reading!Booleans(other, {"transitive", "forceMatch"})
    BY <2>1 DEF Reading!Booleans
  <2> QED  BY <1>2, <2>2 DEF Reading!PreflightMatches, Reading!Verdict, other
<1> HIDE DEF known
<1> QED
  BY <1>1, <1>3, <1>6, <1>7, <1>8, <1>9
  DEF Reading!TypedIsReviewed, Reading!OnlyTyped, More, Odd, raw, known

\* What a query has of two that are joined.
LEMMA Joined ==
  ASSUME NEW f, NEW g
  PROVE  /\ DOMAIN Reading!++(f, g) = DOMAIN f \cup DOMAIN g
         /\ \A key : Reading!TextOf(Reading!++(f, g), key)
                       = IF key \in DOMAIN f THEN Reading!TextOf(f, key)
                         ELSE Reading!TextOf(g, key)
         /\ Reading!OptionsOf(Reading!++(f, g))
              = IF "options" \in DOMAIN f THEN Reading!OptionsOf(f) ELSE Reading!OptionsOf(g)
BY DEF Reading!++, Reading!TextOf, Reading!OptionsOf

LEMMA OneGiven ==
  ASSUME NEW key, NEW text
  PROVE  /\ DOMAIN Reading!Given(key, text) \subseteq {key}
         /\ Reading!TextOf(Reading!Given(key, text), key) = text
BY DEF Reading!Given, Reading!Pair, Reading!Empty, Reading!TextOf

LEMMA SearchSent ==
  ASSUME NEW r \in Reading!Typed, NEW q, q = Reading!SentSearch(r).body
  PROVE  /\ DOMAIN q \subseteq {"max", "offset", "filter", "select", "sort", "order", "options",
                                "activeness"}
         /\ "max" \in DOMAIN q /\ "offset" \in DOMAIN q
         /\ q["max"] = r.max /\ q["offset"] = r.offset
         /\ Reading!TextOf(q, "filter") = r.filter /\ Reading!TextOf(q, "select") = r.select
         /\ Reading!TextOf(q, "sort") = r.sort /\ Reading!TextOf(q, "order") = r.order
         /\ Reading!OptionsOf(q) = r.options /\ Reading!TextOf(q, "activeness") = r.activeness
<1> DEFINE first == Reading!++(Reading!++(Reading!++(Reading!Page(r),
                      Reading!Given("filter", r.filter)), Reading!Given("select", r.select)),
                      Reading!Given("sort", r.sort))
<1>1. /\ DOMAIN first \subseteq {"max", "offset", "filter", "select", "sort"}
      /\ "max" \in DOMAIN first /\ "offset" \in DOMAIN first
  BY DEF Reading!Given, Reading!Empty, Reading!++, Reading!Pair, Reading!Page
<1>2. first["max"] = r.max /\ first["offset"] = r.offset
  BY DEF Reading!Given, Reading!Empty, Reading!++, Reading!Pair, Reading!Page
<1>3. Reading!TextOf(first, "filter") = r.filter
  BY DEF Reading!Given, Reading!Empty, Reading!++, Reading!Pair, Reading!Page, Reading!TextOf
<1>4. Reading!TextOf(first, "select") = r.select
  BY DEF Reading!Given, Reading!Empty, Reading!++, Reading!Pair, Reading!Page, Reading!TextOf
<1>5. Reading!TextOf(first, "sort") = r.sort
  BY DEF Reading!Given, Reading!Empty, Reading!++, Reading!Pair, Reading!Page, Reading!TextOf
<1>6. q = Reading!++(Reading!++(Reading!++(first, Reading!Given("order", r.order)),
                       Reading!Options(r)), Reading!Given("activeness", r.activeness))
  BY DEF Reading!SentSearch
<1> HIDE DEF first
<1> USE DEF Reading!Given, Reading!Options, Reading!Empty, Reading!++, Reading!Pair
<1>7. /\ DOMAIN q \subseteq {"max", "offset", "filter", "select", "sort", "order", "options",
                             "activeness"}
      /\ "max" \in DOMAIN q /\ "offset" \in DOMAIN q
  BY <1>1, <1>6
<1>8. q["max"] = r.max /\ q["offset"] = r.offset
  BY <1>1, <1>2, <1>6
<1>9. Reading!TextOf(q, "filter") = r.filter
  BY <1>1, <1>3, <1>6 DEF Reading!TextOf
<1>10. Reading!TextOf(q, "select") = r.select
  BY <1>1, <1>4, <1>6 DEF Reading!TextOf
<1>11. Reading!TextOf(q, "sort") = r.sort
  BY <1>1, <1>5, <1>6 DEF Reading!TextOf
<1> DEFINE order == Reading!Given("order", r.order)
           options == Reading!Options(r)
           activeness == Reading!Given("activeness", r.activeness)
           second == Reading!++(first, order)
           third == Reading!++(second, options)
<1>12. /\ DOMAIN order \subseteq {"order"} /\ Reading!TextOf(order, "order") = r.order
       /\ DOMAIN activeness \subseteq {"activeness"}
       /\ Reading!TextOf(activeness, "activeness") = r.activeness
  BY OneGiven
<1>13. DOMAIN options \subseteq {"options"} /\ Reading!OptionsOf(options) = r.options
  BY DEF Reading!OptionsOf
<1>14. q = Reading!++(third, activeness)
  BY <1>6
<1> HIDE DEF order, options, activeness
<1>15. DOMAIN second = DOMAIN first \cup DOMAIN order /\ "order" \notin DOMAIN first
  BY <1>1, Joined
<1>16. DOMAIN third = DOMAIN first \cup DOMAIN order \cup DOMAIN options
  BY <1>15, Joined
<1>17. Reading!TextOf(q, "order") = r.order
  <2>1. Reading!TextOf(second, "order") = r.order
    BY <1>12, <1>15, Joined
  <2>2. Reading!TextOf(third, "order") = r.order
    <3>1. CASE "order" \in DOMAIN second
      BY <2>1, <3>1, Joined
    <3>2. CASE "order" \notin DOMAIN second
      <4>1. "order" \notin DOMAIN options
        BY <1>13
      <4> QED  BY <2>1, <3>2, <4>1, Joined DEF Reading!TextOf
    <3> QED  BY <3>1, <3>2
  <2>3. "order" \notin DOMAIN activeness
    BY <1>12
  <2> HIDE DEF third
  <2> QED  BY <1>14, <2>2, <2>3, Joined DEF Reading!TextOf
<1>18. Reading!OptionsOf(q) = r.options
  <2>1. "options" \notin DOMAIN second /\ "options" \notin DOMAIN activeness
    BY <1>1, <1>12, <1>15
  <2> HIDE DEF second
  <2>2. Reading!OptionsOf(third) = r.options
    BY <1>13, <2>1, Joined
  <2> HIDE DEF third
  <2> QED  BY <1>14, <2>1, <2>2, Joined DEF Reading!OptionsOf
<1>19. Reading!TextOf(q, "activeness") = r.activeness
  <2>1. "activeness" \notin DOMAIN third
    BY <1>1, <1>12, <1>13, <1>16
  <2> HIDE DEF third
  <2> QED  BY <1>12, <1>14, <2>1, Joined
<1> QED  BY <1>7, <1>8, <1>9, <1>10, <1>11, <1>17, <1>18, <1>19

LEMMA SearchIsReviewed ==
  ASSUME NEW r \in Reading!Typed, r.op = "search"
  PROVE  Reading!TypedIsReviewed(r)
<1> DEFINE raw == Reading!RawOf(r)
           q == raw.body
           ok == Reading!ValidSearch(r)
<1>1. /\ raw = Reading!SentSearch(r) /\ raw = Reading!Sent(r) /\ raw.query = Reading!Empty
      /\ raw = [query |-> Reading!Empty, body |-> q]
  BY DEF Reading!RawOf, Reading!Sent, Reading!SentSearch
<1>2. \A other :
        Reading!Preflight(r, other) = Reading!PreflightSearch(other.query, other.body, 1)
  BY DEF Reading!Preflight
<1>3. Reading!Valid(r) <=> ok
  BY DEF Reading!Valid
<1>4. /\ DOMAIN q \subseteq {"max", "offset", "filter", "select", "sort", "order", "options",
                             "activeness"}
      /\ "max" \in DOMAIN q /\ "offset" \in DOMAIN q
      /\ q["max"] = r.max /\ q["offset"] = r.offset
      /\ Reading!TextOf(q, "filter") = r.filter /\ Reading!TextOf(q, "select") = r.select
      /\ Reading!TextOf(q, "sort") = r.sort /\ Reading!TextOf(q, "order") = r.order
      /\ Reading!OptionsOf(q) = r.options /\ Reading!TextOf(q, "activeness") = r.activeness
  BY <1>1, SearchSent
<1>5. r.max \in Nat /\ r.offset \in Nat
  BY DEF Reading!Typed, Reading!Request
<1> HIDE DEF raw
<1>6. Reading!WellFormedSearch(q)
  <2>1. Reading!Numbers(q, {"max", "offset", "defaultMaxValues"})
    BY <1>4, <1>5 DEF Reading!Numbers, Reading!Unparsed
  <2>2. Reading!Booleans(q, {"scoreEnabled"})
    BY <1>4 DEF Reading!Booleans
  <2> QED  BY <2>1, <2>2 DEF Reading!WellFormedSearch
<1>7. Reading!ValidSearch(Reading!SearchOf(q, 1)) <=> ok
  <2>1. Reading!Number(q, "max", 1) = r.max /\ Reading!Number(q, "offset", 0) = r.offset
    BY <1>4 DEF Reading!Number
  <2>2. Reading!SearchOf(q, 1)
          = [Reading!Unset EXCEPT !.filter = r.filter, !.select = r.select, !.max = r.max,
                                  !.offset = r.offset, !.sort = r.sort, !.order = r.order,
                                  !.options = r.options, !.activeness = r.activeness]
    BY <1>4, <2>1 DEF Reading!SearchOf
  <2> DEFINE s == Reading!SearchOf(q, 1)
  <2>3. /\ s.filter = r.filter /\ s.select = r.select /\ s.max = r.max /\ s.offset = r.offset
        /\ s.sort = r.sort /\ s.order = r.order /\ s.options = r.options
        /\ s.activeness = r.activeness
    BY <1>4, <2>1 DEF Reading!SearchOf, Reading!Unset
  <2> HIDE DEF s, q
  <2>4. Reading!ValidSearch(s) <=> Reading!ValidSearch(r)
    BY <2>3, SMTT(30) DEF Reading!ValidSearch
  <2> QED  BY <2>4 DEF s
<1>8. q # Reading!Empty /\ DOMAIN q \subseteq Reading!SearchKeys /\ DOMAIN Reading!Empty = {}
  BY <1>4 DEF Reading!Empty, Reading!SearchKeys
<1>9. Reading!Preflight(r, raw) = IF ok THEN "reviewed" ELSE "refused"
  <2>1. Reading!Preflight(r, raw) = Reading!PreflightSearch(Reading!Empty, q, 1)
    BY <1>1, <1>2
  <2>2. DOMAIN Reading!Empty \cap Reading!SearchKeys = {}
    BY <1>8
  <2> HIDE DEF ok, q
  <2> QED
    BY <1>6, <1>7, <1>8, <2>1, <2>2 DEF Reading!PreflightSearch, Reading!Verdict
<1>10. Reading!PreflightSearchGet(q, Reading!Empty, 1) = IF ok THEN "reviewed" ELSE "refused"
  <2> HIDE DEF ok, q
  <2> QED  BY <1>6, <1>7, <1>8 DEF Reading!PreflightSearchGet, Reading!Verdict
<1>11. Reading!Preflight(r, More(raw)) # "reviewed"
  <2>1. "unreviewed" \in DOMAIN More(raw).query
    BY <1>1, Changed
  <2>2. More(raw).query # Reading!Empty
    BY <1>8, <2>1
  <2> QED  BY <1>2, <2>2 DEF Reading!PreflightSearch, Reading!Verdict
<1>12. Reading!SearchWindow(q) = <<r.offset, r.max>>
  BY <1>4 DEF Reading!SearchWindow, Reading!Number
<1> HIDE DEF ok
<1> QED
  BY <1>1, <1>3, <1>8, <1>9, <1>10, <1>11, <1>12
  DEF Reading!TypedIsReviewed, Reading!OnlyTyped, More, Odd, raw

LEMMA ScanQuery ==
  ASSUME NEW r \in Reading!Typed, NEW q, q = Reading!++(Reading!++(Reading!++(Reading!++(
           Reading!Pair("max", r.max), Reading!Given("filter", r.filter)),
           Reading!Given("select", r.select)), Reading!Options(r)),
           Reading!Given("activeness", r.activeness))
  PROVE  /\ DOMAIN q \subseteq {"filter", "max", "select", "options", "activeness"}
         /\ "max" \in DOMAIN q /\ q["max"] = r.max
         /\ Reading!TextOf(q, "filter") = r.filter
         /\ Reading!TextOf(q, "select") = r.select
         /\ Reading!OptionsOf(q) = r.options
         /\ Reading!TextOf(q, "activeness") = r.activeness
<1> USE DEF Reading!SentScan, Reading!Given, Reading!Options, Reading!Flag, Reading!Empty,
            Reading!TextOf, Reading!OptionsOf, Reading!++, Reading!Pair, Reading!Page
<1>1. DOMAIN q \subseteq {"filter", "max", "select", "options", "activeness"}
  OBVIOUS
<1>2. "max" \in DOMAIN q /\ q["max"] = r.max
  OBVIOUS
<1>3. Reading!TextOf(q, "filter") = r.filter
  OBVIOUS
<1>4. Reading!TextOf(q, "select") = r.select
  OBVIOUS
<1>5. Reading!OptionsOf(q) = r.options
  OBVIOUS
<1>6. Reading!TextOf(q, "activeness") = r.activeness
  OBVIOUS
<1> QED  BY <1>1, <1>2, <1>3, <1>4, <1>5, <1>6

LEMMA ScanIsReviewed ==
  ASSUME NEW r \in Reading!Typed, r.op = "scan"
  PROVE  Reading!TypedIsReviewed(r)
<1> DEFINE raw == Reading!RawOf(r)
           q == raw.query
           body == raw.body
           ok == Reading!ValidScan(r)
<1>1. /\ raw = [query |-> q, body |-> body] /\ body = Reading!Given("cursor", r.cursor)
      /\ q = Reading!++(Reading!++(Reading!++(Reading!++(
               Reading!Pair("max", r.max), Reading!Given("filter", r.filter)),
               Reading!Given("select", r.select)), Reading!Options(r)),
               Reading!Given("activeness", r.activeness))
  BY DEF Reading!RawOf
<1>2. \A other :
        Reading!Preflight(r, other) = Reading!PreflightScan(other.query, other.body, 1)
  BY DEF Reading!Preflight
<1>3. Reading!Valid(r) <=> ok /\ Reading!Acknowledged(r)
  BY DEF Reading!Valid
<1>4. /\ DOMAIN q \subseteq {"filter", "max", "select", "options", "activeness"}
      /\ "max" \in DOMAIN q /\ q["max"] = r.max
      /\ Reading!TextOf(q, "filter") = r.filter /\ Reading!TextOf(q, "select") = r.select
      /\ Reading!OptionsOf(q) = r.options /\ Reading!TextOf(q, "activeness") = r.activeness
  BY <1>1, ScanQuery
<1>5. DOMAIN body \subseteq {"cursor"} /\ Reading!TextOf(body, "cursor") = r.cursor
  BY <1>1 DEF Reading!Given, Reading!Pair, Reading!Empty, Reading!TextOf
<1>6. r.max \in Nat
  BY DEF Reading!Typed, Reading!Request
<1>7. ok => raw = Reading!Sent(r)
  <2> SUFFICES ASSUME ok  PROVE raw = Reading!Sent(r)
    OBVIOUS
  <2>1. Reading!Sent(r) = Reading!SentScan(r)
    BY DEF Reading!Sent
  <2>2. CASE r.cursor = "none"
    <3>1. Reading!SentScan(r).query
            = Reading!++(Reading!Pair("max", r.max),
                Reading!++(Reading!++(Reading!++(
                  Reading!Given("filter", r.filter), Reading!Given("select", r.select)),
                  Reading!Options(r)), Reading!Given("activeness", r.activeness)))
      BY <2>2 DEF Reading!SentScan
    <3>2. \A f, g, h : Reading!++(f, Reading!++(g, h)) = Reading!++(Reading!++(f, g), h)
      <4> TAKE f, g, h
      <4>1. DOMAIN Reading!++(g, h) = DOMAIN g \cup DOMAIN h
        BY DEF Reading!++
      <4>2. DOMAIN Reading!++(f, g) = DOMAIN f \cup DOMAIN g
        BY DEF Reading!++
      <4> QED  BY <4>1, <4>2 DEF Reading!++
    <3>3. q = Reading!SentScan(r).query
      BY <1>1, <3>1, <3>2
    <3> QED  BY <1>1, <2>1, <3>3 DEF Reading!SentScan
  <2>3. CASE r.cursor # "none"
    <3>1. r.filter = "none" /\ r.select = "none" /\ r.activeness = "none" /\ r.options = {}
      BY <2>3 DEF Reading!ValidScan
    <3>2. /\ Reading!Given("filter", r.filter) = Reading!Empty
          /\ Reading!Given("select", r.select) = Reading!Empty
          /\ Reading!Given("activeness", r.activeness) = Reading!Empty
          /\ Reading!Options(r) = Reading!Empty
      BY <3>1 DEF Reading!Given, Reading!Options
    <3>3. Reading!++(Reading!Pair("max", r.max), Reading!Empty) = Reading!Pair("max", r.max)
      BY DEF Reading!++, Reading!Pair, Reading!Empty
    <3>4. q = Reading!Pair("max", r.max)
      BY <1>1, <3>2, <3>3
    <3>5. Reading!SentScan(r).query = Reading!Pair("max", r.max)
      BY <2>3, <3>3 DEF Reading!SentScan
    <3> QED  BY <1>1, <2>1, <3>4, <3>5 DEF Reading!SentScan
  <2> QED  BY <2>2, <2>3
<1> HIDE DEF raw
<1>8. Reading!Preflight(r, raw)
        = IF ok THEN IF r.options = {} THEN "reviewed" ELSE "partial" ELSE "refused"
  <2>1. Reading!ValidScan([Reading!Unset EXCEPT !.filter = r.filter, !.cursor = r.cursor,
           !.max = r.max, !.select = r.select, !.options = r.options,
           !.activeness = r.activeness]) <=> ok
    BY DEF Reading!ValidScan, Reading!Unset
  <2>2. Reading!Numbers(q, {"max"}) /\ Reading!Number(q, "max", 1) = r.max
    BY <1>4, <1>6 DEF Reading!Numbers, Reading!Number, Reading!Unparsed
  <2>3. Reading!Preflight(r, raw) = Reading!PreflightScan(q, body, 1)
    BY <1>2
  <2> HIDE DEF ok, q, body
  <2> QED
    BY <1>4, <1>5, <2>1, <2>2, <2>3 DEF Reading!PreflightScan, Reading!Verdict
<1>9. Reading!Preflight(r, More(raw)) # "reviewed"
  <2>1. "unreviewed" \in DOMAIN More(raw).query
    BY <1>1, Changed
  <2> QED  BY <1>2, <2>1 DEF Reading!PreflightScan, Reading!Verdict
<1>10. \A key \in DOMAIN q \cap {"max", "offset", "deep"} :
         Reading!Preflight(r, Odd(raw, key, Reading!Unparsed)) = "refused"
  <2> SUFFICES Reading!Preflight(r, Odd(raw, "max", Reading!Unparsed)) = "refused"
    BY <1>4
  <2> DEFINE other == Odd(raw, "max", Reading!Unparsed).query
  <2>1. "max" \in DOMAIN other /\ other["max"] = Reading!Unparsed
    BY <1>1, <1>4, Changed
  <2> HIDE DEF other
  <2>2. ~Reading!Numbers(other, {"max"})
    BY <2>1 DEF Reading!Numbers
  <2> QED  BY <1>2, <2>2 DEF Reading!PreflightScan, Reading!Verdict, other
<1>11. DOMAIN q \cap {"sendMasked", "showAll", "transitive", "forceMatch"} = {}
  BY <1>4
<1>12. Reading!Acknowledged(r) \/ Reading!OnlyTyped(r)
  BY DEF Reading!OnlyTyped
<1> HIDE DEF ok
<1> QED
  BY <1>3, <1>7, <1>8, <1>9, <1>10, <1>11, <1>12
  DEF Reading!TypedIsReviewed, More, Odd, raw

\* A request that a typed command refuses is refused as a raw one, and what it sends is
\* what was reviewed, whatever its texts, options, page and boundaries (validate_get to
\* validate_scan of entities.rs, apply_endpoint_preflight of api.rs).
THEOREM TypedRequestsAreReviewed ==
  \A r \in Reading!Typed : Reading!TypedIsReviewed(r)
<1> SUFFICES ASSUME NEW r \in Reading!Typed  PROVE Reading!TypedIsReviewed(r)
  OBVIOUS
<1>1. r.op \in {"get", "by-crosswalk", "history", "matches", "search", "scan"}
  BY DEF Reading!Typed, Reading!Request
<1> QED
  BY <1>1, GetIsReviewed, ByCrosswalkIsReviewed, HistoryIsReviewed, MatchesIsReviewed,
     SearchIsReviewed, ScanIsReviewed

-------------------------------------------------------------------------------
(***************************************************************************)
(* An entity command from its start to its exit (EntityReads).             *)
(***************************************************************************)
\* The warnings that go with an answer, and whether the caller has them.
Warnings(r, a) ==
  CASE r.op = "get" -> Reading!GetWarnings(r, a)
    [] r.op = "by-crosswalk" -> Reading!ByCrosswalkWarnings(r, a)
    [] r.op = "search" -> Reading!SearchWarnings(r, a)
    [] r.op = "history" -> Reading!HistoryWarnings(r, a)
    [] OTHER -> Reading!MatchesWarnings(r, a)

Told == (Reading!Streamed /\ quiet) \/ Warnings(asked, page) \subseteq told

Kinds == {"none", "refused", "failed", "canceled", "timeout", "success"}

ReadTypes ==
  /\ asked \in Reading!Typed /\ format \in {"json", "table", "raw"} /\ quiet \in BOOLEAN
  /\ total \in 0..MaxTotal /\ seen \subseteq 0..(total - 1)
  /\ canceled \in BOOLEAN /\ late \in BOOLEAN
  /\ at \in {"start", "execute", "parse", "received", "warn", "render", "emit", "done"}
  /\ page.shape \in {"none", "object", "array", "groups", "scalar", "invalid"}
  /\ told \subseteq {"transcode", "fallback", "boundary", "canonical", "freshness"}
  /\ out \in {"none", "part", "all"}
  /\ verdict \in [kind : Kinds, received : {"unsaid", "no", "yes"}, status : BOOLEAN]

\* An answer is of the request as it is, and of one that is valid.
Answered ==
  /\ page.shape # "none" /\ page.count = Reading!Cardinality(Reading!PageOf(asked))
  /\ page.fallback => asked.op = "by-crosswalk"

\* What is told, written and said, from step to step.
ReadOrder ==
  /\ page = Reading!Nothing \/ Answered
  /\ at \notin {"start", "done"} => Reading!Valid(asked)
  /\ at \in {"start", "execute"} => page = Reading!Nothing
  /\ at \notin {"start", "execute", "done"} => page # Reading!Nothing
  /\ at \in {"start", "execute", "parse", "received"} => told = {}
  /\ at # "done" => out = "none" /\ verdict = Reading!NoVerdict
  /\ at \in {"render", "emit"} \/ out # "none" \/ verdict.kind = "success" => Told
  /\ out # "none" \/ verdict.kind = "success" => page # Reading!Nothing /\ Reading!Valid(asked)

\* The offset that the caller got to.
Reached == IF verdict.kind = "success" THEN asked.offset + page.count ELSE asked.offset

\* Whatever is before it was got, or is before all that was.
SeenInOrder ==
  asked.op \in Reading!Pages =>
    /\ \A n \in seen : n < Reached
    /\ \A n \in 0..(total - 1) :
         n < Reached => n \in seen \/ (n < asked.offset /\ \A m \in seen : n < m)

ReadsInvariant == ReadTypes /\ ReadOrder /\ SeenInOrder /\ Reading!AnswerReported

LEMMA ReadsStart ==
  RequestsInit => ReadsInvariant
<1> SUFFICES ASSUME RequestsInit  PROVE ReadsInvariant
  OBVIOUS
<1> USE DEF RequestsInit, Reading!Init
<1>1. /\ asked \in Samples \cup Reads
      /\ canceled = FALSE /\ late = FALSE /\ at = "start" /\ page = Reading!Nothing
      /\ told = {} /\ out = "none" /\ seen = {} /\ verdict = Reading!NoVerdict
  OBVIOUS
<1>2. asked \in Reading!Typed /\ asked.offset \in Nat
  BY <1>1, ReadsAssumption DEF Reading!Typed, Reading!Request
<1>3. format \in {"json", "table", "raw"} /\ quiet \in BOOLEAN /\ total \in 0..MaxTotal
  <2>1. CASE asked \in Reads
    <3>1. /\ format \in {"json", "table", "raw"} /\ quiet \in BOOLEAN
          /\ total \in IF asked.op \in Reading!Pages THEN 0..MaxTotal ELSE {0}
      BY <2>1
    <3>2. total \in 0..MaxTotal
      BY <3>1, ReadsAssumption
    <3> QED  BY <3>1, <3>2
  <2>2. CASE asked \notin Reads
    <3>1. format = "json" /\ quiet = FALSE /\ total = 0
      BY <2>2
    <3> HIDE DEF RequestsInit, Reading!Init
    <3>2. quiet \in BOOLEAN
      BY <3>1, Zenon
    <3>3. format \in {"json", "table", "raw"} /\ total \in 0..MaxTotal
      BY <3>1, ReadsAssumption
    <3> QED  BY <3>2, <3>3
  <2> QED  BY <2>1, <2>2
<1> HIDE DEF RequestsInit, Reading!Init
<1>4. ReadTypes
  BY <1>1, <1>2, <1>3 DEF ReadTypes, Reading!Nothing, Reading!NoVerdict, Kinds
<1>5. ReadOrder
  BY <1>1 DEF ReadOrder, Reading!NoVerdict
<1>6. SeenInOrder
  BY <1>1, <1>2 DEF SeenInOrder, Reached, Reading!NoVerdict
<1>7. Reading!AnswerReported
  BY <1>1 DEF Reading!AnswerReported, Reading!NoVerdict, Reading!Nothing
<1> QED  BY <1>4, <1>5, <1>6, <1>7 DEF ReadsInvariant

ReadsSame == asked' = asked /\ format' = format /\ quiet' = quiet /\ total' = total

\* What an answer has of what there is to find.
LEMMA PageHas ==
  ASSUME ReadTypes
  PROVE  /\ asked.offset \in Nat /\ asked.max \in Nat
         /\ Reading!Cardinality(Reading!PageOf(asked)) \in Nat
         /\ Reading!Cardinality(Reading!PageOf(asked)) <= asked.max
         /\ \A n \in 0..(total - 1) :
              n \in Reading!PageOf(asked)
                <=> asked.offset <= n
                      /\ n < asked.offset + Reading!Cardinality(Reading!PageOf(asked))
         /\ Reading!Cardinality(Reading!PageOf(asked)) # asked.max =>
              \A n \in 0..(total - 1) :
                n < asked.offset + Reading!Cardinality(Reading!PageOf(asked))
<1> DEFINE o == asked.offset
           m == asked.max
           last == IF total <= o + m THEN total - 1 ELSE o + m - 1
<1>1. o \in Nat /\ m \in Nat /\ total \in Nat
  BY ReadsAssumption DEF ReadTypes, Reading!Typed, Reading!Request
<1>2. Reading!PageOf(asked) = o..last
  BY <1>1 DEF Reading!PageOf
<1>3. last \in Int
  BY <1>1
<1>4. Cardinality(o..last) = IF o > last THEN 0 ELSE last - o + 1
  <2> HIDE DEF o, last
  <2> QED  BY <1>1, <1>3, FS_Interval
<1>5. Reading!Cardinality(Reading!PageOf(asked)) = Cardinality(o..last)
  BY <1>2, Zenon DEF Reading!Cardinality, Cardinality
<1> QED  BY <1>1, <1>2, <1>4, <1>5

LEMMA AnswerStays ==
  ASSUME ReadsSame, page' = page, Answered
  PROVE  Answered'
<1>1. Reading!PageOf(asked)' = Reading!PageOf(asked)
  BY DEF Reading!PageOf, ReadsSame
<1> QED  BY <1>1 DEF Answered, ReadsSame

LEMMA ToldStays ==
  ASSUME ReadsSame, page' = page, Told, told' = told
  PROVE  Told'
BY Zenon DEF Told, ReadsSame, Reading!Streamed, Warnings, Reading!GetWarnings,
         Reading!ByCrosswalkWarnings, Reading!SearchWarnings, Reading!HistoryWarnings,
         Reading!MatchesWarnings, Reading!SearchPage, Reading!HistoryPage

LEMMA SeenStays ==
  ASSUME ReadTypes, SeenInOrder, ReadsSame, seen' = seen,
         verdict.kind # "success", verdict'.kind # "success"
  PROVE  SeenInOrder'
BY DEF SeenInOrder, Reached, ReadsSame, Reading!Pages

\* A command is the steps of a read, with its own validator, shapes and warnings.
LEMMA CommandReads ==
  ASSUME \/ Reading!Get \/ Reading!ByCrosswalk \/ Reading!Search \/ Reading!History
         \/ Reading!Matches
  PROVE  Reading!Read(Reading!Valid(asked), Reading!Shapes(asked), Warnings(asked, page))
<1> USE DEF Reading!Valid, Reading!Shapes, Warnings
<1>1. CASE Reading!Get
  <2>1. /\ Reading!Valid(asked) = Reading!ValidGet(asked)
        /\ Reading!Shapes(asked) = Reading!GetShape
        /\ Warnings(asked, page) = Reading!GetWarnings(asked, page)
    BY <1>1 DEF Reading!Get
  <2> HIDE DEF Reading!Valid, Reading!Shapes, Warnings
  <2> QED  BY <1>1, <2>1, Zenon DEF Reading!Get
<1>2. CASE Reading!ByCrosswalk
  <2>1. /\ Reading!Valid(asked) = Reading!ValidByCrosswalk(asked)
        /\ Reading!Shapes(asked) = Reading!CrosswalkShape
        /\ Warnings(asked, page) = Reading!ByCrosswalkWarnings(asked, page)
    BY <1>2 DEF Reading!ByCrosswalk
  <2> HIDE DEF Reading!Valid, Reading!Shapes, Warnings
  <2> QED  BY <1>2, <2>1, Zenon DEF Reading!ByCrosswalk
<1>3. CASE Reading!Search
  <2>1. /\ Reading!Valid(asked) = Reading!ValidSearch(asked)
        /\ Reading!Shapes(asked) = Reading!PageShape
        /\ Warnings(asked, page) = Reading!SearchWarnings(asked, page)
    BY <1>3 DEF Reading!Search
  <2> HIDE DEF Reading!Valid, Reading!Shapes, Warnings
  <2> QED  BY <1>3, <2>1, Zenon DEF Reading!Search
<1>4. CASE Reading!History
  <2>1. /\ Reading!Valid(asked) = Reading!ValidHistory(asked)
        /\ Reading!Shapes(asked) = Reading!PageShape
        /\ Warnings(asked, page) = Reading!HistoryWarnings(asked, page)
    BY <1>4 DEF Reading!History
  <2> HIDE DEF Reading!Valid, Reading!Shapes, Warnings
  <2> QED  BY <1>4, <2>1, Zenon DEF Reading!History
<1>5. CASE Reading!Matches
  <2>1. /\ Reading!Valid(asked) = Reading!ValidMatches(asked)
        /\ Reading!Shapes(asked) = Reading!MatchesShape
        /\ Warnings(asked, page) = Reading!MatchesWarnings(asked, page)
    BY <1>5 DEF Reading!Matches
  <2> HIDE DEF Reading!Valid, Reading!Shapes, Warnings
  <2> QED  BY <1>5, <2>1, Zenon DEF Reading!Matches
<1> QED  BY <1>1, <1>2, <1>3, <1>4, <1>5

\* A command that says what it ends with, after an answer or before.
LEMMA SaysKept ==
  ASSUME ReadsInvariant, ReadsSame, canceled' = canceled, late' = late, seen' = seen,
         page' = page,
         told' \subseteq {"transcode", "fallback", "boundary", "canonical", "freshness"},
         at # "done", out' = "none",
         NEW kind \in Kinds \ {"none", "success"}, NEW received \in {"unsaid", "no", "yes"},
         NEW status \in BOOLEAN, Reading!Say(kind, received, status),
         status <=> page # Reading!Nothing,
         received = "yes" => page # Reading!Nothing, received = "no" => page = Reading!Nothing
  PROVE  ReadsInvariant'
<1> USE DEF ReadsInvariant
<1>1. at' = "done" /\ verdict' = [kind |-> kind, received |-> received, status |-> status]
  BY DEF Reading!Say
<1>2. verdict = Reading!NoVerdict
  BY DEF ReadOrder
<1>3. verdict.kind # "success" /\ verdict'.kind # "success" /\ verdict'.kind # "none"
  BY <1>1, <1>2 DEF Reading!NoVerdict
<1>4. ReadTypes'
  BY <1>1 DEF ReadTypes, ReadsSame
<1>5. page' = Reading!Nothing \/ Answered'
  BY AnswerStays DEF ReadOrder
<1>6. ReadOrder'
  BY <1>1, <1>3, <1>5 DEF ReadOrder
<1>7. SeenInOrder'
  BY <1>3, SeenStays
<1>8. Reading!AnswerReported'
  BY <1>1 DEF Reading!AnswerReported
<1> QED  BY <1>4, <1>6, <1>7, <1>8

\* A command that goes on with nothing to say.
LEMMA GoesKept ==
  ASSUME ReadsInvariant, ReadsSame, canceled' = canceled, late' = late, seen' = seen,
         out' = out, verdict' = verdict, ReadTypes', ReadOrder',
         at # "done", page # Reading!Nothing => page' # Reading!Nothing
  PROVE  ReadsInvariant'
<1> USE DEF ReadsInvariant
<1>1. verdict = Reading!NoVerdict
  BY DEF ReadOrder
<1>2. SeenInOrder'
  BY <1>1, SeenStays DEF Reading!NoVerdict
<1>3. Reading!AnswerReported'
  BY <1>1 DEF Reading!AnswerReported, Reading!NoVerdict
<1> QED  BY <1>2, <1>3

LEMMA PrepareKept ==
  ASSUME ReadsInvariant, Reading!Prepare(Reading!Valid(asked))
  PROVE  ReadsInvariant'
<1> USE DEF ReadsInvariant
<1>1. /\ at = "start" /\ ReadsSame /\ canceled' = canceled /\ late' = late /\ seen' = seen
      /\ page' = page /\ told' = told /\ out' = out
  BY DEF Reading!Prepare, Reading!Stays, Reading!arguments, ReadsSame
<1>2. page = Reading!Nothing /\ told = {} /\ out = "none" /\ verdict = Reading!NoVerdict
  BY <1>1 DEF ReadOrder
<1>3. CASE \E kind \in {"refused", "failed", "canceled", "timeout"}, received \in {"no", "unsaid"} :
             Reading!Say(kind, received, FALSE)
  <2>1. PICK kind \in {"refused", "failed", "canceled", "timeout"},
             received \in {"no", "unsaid"} : Reading!Say(kind, received, FALSE)
    BY <1>3
  <2>2. kind \in Kinds \ {"none", "success"} /\ received \in {"unsaid", "no", "yes"}
    BY DEF Kinds
  <2> QED  BY <1>1, <1>2, <2>1, <2>2, SaysKept
<1>4. CASE Reading!Valid(asked) /\ Reading!Goto("execute")
  <2>1. at' = "execute" /\ verdict' = verdict /\ Reading!Valid(asked)
    BY <1>4 DEF Reading!Goto
  <2>2. ReadTypes'
    BY <1>1, <2>1, Zenon DEF ReadTypes, ReadsSame
  <2>3. ReadOrder'
    BY <1>1, <1>2, <2>1 DEF ReadOrder, ReadsSame, Reading!NoVerdict
  <2> QED  BY <1>1, <2>1, <2>2, <2>3, GoesKept
<1>5. \/ Reading!Valid(asked) /\ Reading!Goto("execute")
      \/ \E kind \in {"refused", "failed", "canceled", "timeout"}, received \in {"no", "unsaid"} :
           Reading!Say(kind, received, FALSE)
  BY DEF Reading!Prepare, Reading!Controls
<1> QED  BY <1>3, <1>4, <1>5

LEMMA ExecuteKept ==
  ASSUME ReadsInvariant, Reading!Execute
  PROVE  ReadsInvariant'
<1> USE DEF ReadsInvariant
<1>1. /\ at = "execute" /\ ReadsSame /\ canceled' = canceled /\ late' = late /\ seen' = seen
      /\ told' = told /\ out' = out
  BY DEF Reading!Execute, Reading!Stays, Reading!arguments, ReadsSame
<1>2. /\ page = Reading!Nothing /\ told = {} /\ out = "none" /\ verdict = Reading!NoVerdict
      /\ Reading!Valid(asked)
  BY <1>1 DEF ReadOrder
<1>3. CASE \E kind \in {"failed"} \cup Reading!Controls, received \in {"no", "unsaid"} :
             Reading!Say(kind, received, FALSE) /\ page' = page
  <2>1. PICK kind \in {"failed"} \cup Reading!Controls, received \in {"no", "unsaid"} :
          Reading!Say(kind, received, FALSE) /\ page' = page
    BY <1>3
  <2>2. kind \in Kinds \ {"none", "success"} /\ received \in {"unsaid", "no", "yes"}
    BY DEF Kinds, Reading!Controls
  <2> QED  BY <1>1, <1>2, <2>1, <2>2, SaysKept
<1>4. CASE /\ Reading!Goto("parse")
           /\ \E shape \in {"object", "array", "groups", "scalar", "invalid"},
                 fallback \in BOOLEAN :
                /\ fallback => asked.op = "by-crosswalk"
                /\ page' = [shape |-> shape,
                            count |-> Reading!Cardinality(Reading!PageOf(asked)),
                            fallback |-> fallback]
  <2>1. at' = "parse" /\ verdict' = verdict
    BY <1>4 DEF Reading!Goto
  <2>2. PICK shape \in {"object", "array", "groups", "scalar", "invalid"}, fallback \in BOOLEAN :
          /\ fallback => asked.op = "by-crosswalk"
          /\ page' = [shape |-> shape,
                      count |-> Reading!Cardinality(Reading!PageOf(asked)),
                      fallback |-> fallback]
    BY <1>4
  <2>3. /\ page'.shape = shape /\ page'.count = Reading!Cardinality(Reading!PageOf(asked))
        /\ page'.fallback = fallback
    BY <2>2
  <2>4. Reading!PageOf(asked)' = Reading!PageOf(asked)
    BY <1>1 DEF Reading!PageOf, ReadsSame
  <2>5. Answered'
    BY <1>1, <2>2, <2>3, <2>4 DEF Answered, ReadsSame
  <2>6. page' # Reading!Nothing
    BY <2>3 DEF Reading!Nothing
  <2>7. ReadTypes'
    BY <1>1, <2>1, <2>3 DEF ReadTypes, ReadsSame
  <2>8. ReadOrder'
    BY <1>1, <1>2, <2>1, <2>5, <2>6 DEF ReadOrder, ReadsSame, Reading!NoVerdict
  <2> QED  BY <1>1, <2>1, <2>6, <2>7, <2>8, GoesKept
<1> QED  BY <1>3, <1>4 DEF Reading!Execute

LEMMA ParseKept ==
  ASSUME ReadsInvariant, Reading!Parse(Reading!Shapes(asked))
  PROVE  ReadsInvariant'
<1> USE DEF ReadsInvariant
<1>1. /\ at = "parse" /\ ReadsSame /\ canceled' = canceled /\ late' = late /\ seen' = seen
      /\ page' = page /\ told' = told /\ out' = out
      /\ Reading!Say("failed", "unsaid", TRUE) \/ Reading!Goto("received")
  BY DEF Reading!Parse, Reading!Stays, Reading!arguments, ReadsSame
<1>2. /\ page # Reading!Nothing /\ Answered /\ told = {} /\ out = "none"
      /\ verdict = Reading!NoVerdict /\ Reading!Valid(asked)
  BY <1>1 DEF ReadOrder
<1>3. told' \subseteq {"transcode", "fallback", "boundary", "canonical", "freshness"}
  BY <1>1, <1>2
<1>4. CASE Reading!Say("failed", "unsaid", TRUE)
  <2>1. "failed" \in Kinds \ {"none", "success"}
    BY DEF Kinds
  <2> QED  BY <1>1, <1>2, <1>3, <1>4, <2>1, SaysKept
<1>5. CASE Reading!Goto("received")
  <2>1. at' = "received" /\ verdict' = verdict
    BY <1>5 DEF Reading!Goto
  <2>2. ReadTypes'
    BY <1>1, <2>1, Zenon DEF ReadTypes, ReadsSame
  <2>3. Answered'
    BY <1>1, <1>2, AnswerStays
  <2>4. ReadOrder'
    BY <1>1, <1>2, <2>1, <2>3 DEF ReadOrder, ReadsSame, Reading!NoVerdict
  <2> QED  BY <1>1, <2>1, <2>2, <2>4, GoesKept
<1> QED  BY <1>1, <1>4, <1>5

\* The looks at the signal and the deadline, once an answer is there.
LEMMA ActiveKept ==
  ASSUME ReadsInvariant, ReadsSame, canceled' = canceled, late' = late, seen' = seen,
         page' = page, told' = told, out' = out, NEW next \in {"warn", "emit"},
         Reading!Active(next), at = "received" \/ at = "render",
         next = "emit" => at = "render"
  PROVE  ReadsInvariant'
<1> USE DEF ReadsInvariant
<1>1. /\ page # Reading!Nothing /\ Answered /\ out = "none"
      /\ verdict = Reading!NoVerdict /\ Reading!Valid(asked) /\ (at = "render" => Told)
  BY DEF ReadOrder
<1>2. told' \subseteq {"transcode", "fallback", "boundary", "canonical", "freshness"}
  BY DEF ReadTypes
<1>3. CASE Reading!Say("canceled", "yes", TRUE) \/ Reading!Say("timeout", "yes", TRUE)
  <2>1. {"canceled", "timeout"} \subseteq Kinds \ {"none", "success"}
    BY DEF Kinds
  <2> QED  BY <1>1, <1>2, <1>3, <2>1, SaysKept
<1>4. CASE Reading!Goto(next)
  <2>1. at' = next /\ verdict' = verdict
    BY <1>4 DEF Reading!Goto
  <2>2. ReadTypes'
    BY <2>1 DEF ReadTypes, ReadsSame
  <2>3. Answered' /\ (at = "render" => Told')
    BY <1>1, AnswerStays, ToldStays
  <2>4. ReadOrder'
    BY <1>1, <2>1, <2>3 DEF ReadOrder, ReadsSame, Reading!NoVerdict
  <2> QED  BY <2>1, <2>2, <2>4, GoesKept
<1> QED  BY <1>3, <1>4 DEF Reading!Active

LEMMA WarningNames ==
  ASSUME ReadTypes
  PROVE  Warnings(asked, page)
           \subseteq {"transcode", "fallback", "boundary", "canonical", "freshness"}
BY DEF Warnings, Reading!GetWarnings, Reading!ByCrosswalkWarnings, Reading!SearchWarnings,
       Reading!HistoryWarnings, Reading!MatchesWarnings

LEMMA WarnKept ==
  ASSUME ReadsInvariant, Reading!Warn(Warnings(asked, page))
  PROVE  ReadsInvariant'
<1> USE DEF ReadsInvariant
<1>1. /\ at = "warn" /\ ReadsSame /\ canceled' = canceled /\ late' = late /\ seen' = seen
      /\ page' = page /\ out' = out
  BY DEF Reading!Warn, Reading!Stays, Reading!arguments, ReadsSame
<1>2. /\ page # Reading!Nothing /\ Answered /\ out = "none" /\ told \subseteq
           {"transcode", "fallback", "boundary", "canonical", "freshness"}
      /\ verdict = Reading!NoVerdict /\ Reading!Valid(asked)
  BY <1>1 DEF ReadOrder, ReadTypes
<1>3. Warnings(asked, page)
        \subseteq {"transcode", "fallback", "boundary", "canonical", "freshness"}
  BY WarningNames
<1>4. CASE Reading!OutputError /\ told' = told
  <2>1. PICK kind \in {"failed"} \cup Reading!Controls : Reading!Say(kind, "yes", TRUE)
    BY <1>4 DEF Reading!OutputError
  <2>2. kind \in Kinds \ {"none", "success"}
    BY DEF Kinds, Reading!Controls
  <2> QED  BY <1>1, <1>2, <1>4, <2>1, <2>2, SaysKept
<1>5. CASE \E w \in Warnings(asked, page) \ told :
             told' = told \cup {w} /\ Reading!Goto("warn")
  <2>1. /\ at' = "warn" /\ verdict' = verdict
        /\ told' \subseteq {"transcode", "fallback", "boundary", "canonical", "freshness"}
    BY <1>2, <1>3, <1>5 DEF Reading!Goto
  <2>2. ReadTypes'
    BY <1>1, <2>1, Zenon DEF ReadTypes, ReadsSame
  <2>3. Answered'
    BY <1>1, <1>2, AnswerStays
  <2>4. ReadOrder'
    BY <1>1, <1>2, <2>1, <2>3 DEF ReadOrder, ReadsSame, Reading!NoVerdict
  <2> QED  BY <1>1, <2>1, <2>2, <2>4, GoesKept
<1>6. CASE /\ ~(Reading!Streamed /\ ~quiet /\ ~(Warnings(asked, page) \subseteq told))
           /\ Reading!Goto("render")
           /\ told' = IF Reading!Streamed THEN told ELSE Warnings(asked, page)
  <2>1. at' = "render" /\ verdict' = verdict
    BY <1>6 DEF Reading!Goto
  <2>2. told' \subseteq {"transcode", "fallback", "boundary", "canonical", "freshness"}
    BY <1>2, <1>3, <1>6
  <2>3. ReadTypes'
    BY <1>1, <2>1, <2>2, Zenon DEF ReadTypes, ReadsSame
  <2>4. Answered'
    BY <1>1, <1>2, AnswerStays
  <2>5. Told'
    <3>1. (Reading!Streamed /\ quiet) \/ Warnings(asked, page) \subseteq told'
      BY <1>6
    <3>2. Warnings(asked, page)' = Warnings(asked, page)
      BY <1>1, Zenon DEF Warnings, ReadsSame
    <3>3. Reading!Streamed' = Reading!Streamed /\ quiet' = quiet
      BY <1>1 DEF Reading!Streamed, ReadsSame
    <3> QED  BY <3>1, <3>2, <3>3 DEF Told
  <2>6. ReadOrder'
    BY <1>1, <1>2, <2>1, <2>4, <2>5 DEF ReadOrder, ReadsSame, Reading!NoVerdict
  <2> QED  BY <1>1, <2>1, <2>3, <2>6, GoesKept
<1> QED  BY <1>4, <1>5, <1>6 DEF Reading!Warn

LEMMA RenderKept ==
  ASSUME ReadsInvariant, Reading!Render
  PROVE  ReadsInvariant'
<1> USE DEF ReadsInvariant
<1>1. /\ at = "render" /\ ReadsSame /\ canceled' = canceled /\ late' = late /\ seen' = seen
      /\ page' = page /\ told' = told /\ out' = out
      /\ Reading!Say("failed", "unsaid", TRUE) \/ Reading!Active("emit")
  BY DEF Reading!Render, Reading!Stays, Reading!arguments, ReadsSame
<1>2. CASE Reading!Active("emit")
  BY <1>1, <1>2, ActiveKept
<1>3. CASE Reading!Say("failed", "unsaid", TRUE)
  <2>1. /\ page # Reading!Nothing /\ out = "none" /\ "failed" \in Kinds \ {"none", "success"}
        /\ told' \subseteq {"transcode", "fallback", "boundary", "canonical", "freshness"}
    BY <1>1 DEF ReadOrder, ReadTypes, Kinds
  <2> QED  BY <1>1, <1>3, <2>1, SaysKept
<1> QED  BY <1>1, <1>2, <1>3

LEMMA EmitKept ==
  ASSUME ReadsInvariant, Reading!Emit
  PROVE  ReadsInvariant'
<1> USE DEF ReadsInvariant
<1>1. /\ at = "emit" /\ ReadsSame /\ canceled' = canceled /\ late' = late
      /\ page' = page /\ told' = told
  BY DEF Reading!Emit, Reading!arguments, ReadsSame
<1>2. /\ page # Reading!Nothing /\ Answered /\ Told /\ out = "none"
      /\ verdict = Reading!NoVerdict /\ Reading!Valid(asked)
  BY <1>1 DEF ReadOrder
<1>3. Answered' /\ Told' /\ Reading!Valid(asked)'
  <2>1. asked' = asked
    BY <1>1 DEF ReadsSame
  <2>2. Reading!Valid(asked)'
    BY <1>2, <2>1
  <2> QED  BY <1>1, <1>2, <2>2, AnswerStays, ToldStays
<1>4. CASE out' \in {"none", "part"} /\ Reading!OutputError /\ seen' = seen
  <2>1. PICK kind \in {"failed"} \cup Reading!Controls : Reading!Say(kind, "yes", TRUE)
    BY <1>4 DEF Reading!OutputError
  <2>2. kind \in Kinds \ {"none", "success"}
    BY DEF Kinds, Reading!Controls
  <2>3. at' = "done" /\ verdict' = [kind |-> kind, received |-> "yes", status |-> TRUE]
    BY <2>1 DEF Reading!Say
  <2>4. verdict.kind # "success" /\ verdict'.kind # "success" /\ verdict'.kind # "none"
    BY <1>2, <2>2, <2>3 DEF Reading!NoVerdict
  <2>5. ReadTypes'
    BY <1>1, <1>4, <2>2, <2>3 DEF ReadTypes, ReadsSame
  <2>6. ReadOrder'
    BY <1>1, <1>2, <1>3, <2>3, <2>4 DEF ReadOrder
  <2>7. SeenInOrder'
    BY <1>1, <1>4, <2>4, SeenStays
  <2>8. Reading!AnswerReported'
    BY <1>1, <1>2, <2>3 DEF Reading!AnswerReported
  <2> QED  BY <2>5, <2>6, <2>7, <2>8
<1>5. CASE /\ out' = "all" /\ Reading!Say("success", "unsaid", FALSE)
           /\ seen' = seen \cup IF asked.op \in Reading!Pages THEN Reading!PageOf(asked) ELSE {}
  <2>1. at' = "done" /\ verdict' = [kind |-> "success", received |-> "unsaid", status |-> FALSE]
    BY <1>5 DEF Reading!Say
  <2>2. verdict.kind = "none" /\ verdict'.kind = "success"
    BY <1>2, <2>1 DEF Reading!NoVerdict
  <2>3. seen' \subseteq 0..(total - 1)
    BY <1>5 DEF ReadTypes, Reading!PageOf
  <2>4. ReadTypes'
    BY <1>1, <1>5, <2>1, <2>3 DEF ReadTypes, ReadsSame, Kinds
  <2>5. ReadOrder'
    BY <1>1, <1>2, <1>3, <2>1, <2>2 DEF ReadOrder
  <2>6. SeenInOrder'
    <3>1. asked' = asked /\ total' = total
      BY <1>1 DEF ReadsSame
    <3> SUFFICES ASSUME asked.op \in Reading!Pages
                 PROVE  /\ \A n \in seen' : n < Reached'
                        /\ \A n \in 0..(total - 1) :
                             n < Reached' =>
                               n \in seen' \/ (n < asked.offset /\ \A m \in seen' : n < m)
      BY <3>1 DEF SeenInOrder, Reading!Pages
    <3>2. /\ page.count = Reading!Cardinality(Reading!PageOf(asked)) /\ page.count \in Nat
          /\ asked.offset \in Nat /\ Reading!PageOf(asked) \subseteq 0..(total - 1)
          /\ \A n \in 0..(total - 1) : n \in Reading!PageOf(asked)
               <=> asked.offset <= n /\ n < asked.offset + page.count
      BY <1>2, PageHas DEF Answered, Reading!PageOf
    <3>3. Reached' = asked.offset + page.count /\ Reached = asked.offset
      BY <1>1, <2>2, <3>1 DEF Reached
    <3>4. seen' = seen \cup Reading!PageOf(asked)
      BY <1>5
    <3>5. /\ seen \subseteq 0..(total - 1) /\ \A n \in seen : n < asked.offset
          /\ \A n \in 0..(total - 1) :
               n < asked.offset => n \in seen \/ \A m \in seen : n < m
      BY <3>3 DEF SeenInOrder, ReadTypes
    <3>6. ASSUME NEW n \in seen'  PROVE n < Reached'
      <4>1. n \in 0..(total - 1)
        BY <3>2, <3>4, <3>5
      <4>2. CASE n \in seen
        BY <3>2, <3>3, <3>5, <4>1, <4>2
      <4>3. CASE n \in Reading!PageOf(asked)
        BY <3>2, <3>3, <4>1, <4>3
      <4> QED  BY <3>4, <4>2, <4>3
    <3>7. ASSUME NEW n \in 0..(total - 1), n < Reached'
          PROVE  n \in seen' \/ (n < asked.offset /\ \A m \in seen' : n < m)
      <4>1. CASE asked.offset <= n
        BY <3>2, <3>3, <3>4, <3>7, <4>1
      <4>2. CASE ~(asked.offset <= n)
        <5>1. n < asked.offset
          BY <3>2, <4>2
        <5>2. CASE n \in seen
          BY <3>4, <5>2
        <5>3. CASE n \notin seen
          <6> SUFFICES ASSUME NEW m \in seen'  PROVE n < m
            BY <5>1
          <6>1. CASE m \in seen
            BY <3>5, <5>1, <5>3, <6>1
          <6>2. CASE m \in Reading!PageOf(asked)
            <7>1. m \in 0..(total - 1) /\ asked.offset <= m
              BY <3>2, <6>2
            <7> QED  BY <3>2, <5>1, <7>1
          <6> QED  BY <3>4, <6>1, <6>2
        <5> QED  BY <5>2, <5>3
      <4> QED  BY <4>1, <4>2
    <3> QED  BY <3>6, <3>7
  <2>7. Reading!AnswerReported'
    BY <1>1, <1>2, <2>1 DEF Reading!AnswerReported
  <2> QED  BY <2>4, <2>5, <2>6, <2>7
<1> QED  BY <1>4, <1>5 DEF Reading!Emit

LEMMA GoOnKept ==
  ASSUME ReadsInvariant, Reading!GoOn
  PROVE  ReadsInvariant'
<1> USE DEF ReadsInvariant
<1>1. /\ verdict.kind = "success" /\ asked.op \in Reading!Pages
      /\ at' = "start" /\ page' = Reading!Nothing /\ told' = {} /\ out' = "none"
      /\ verdict' = Reading!NoVerdict /\ canceled' = FALSE /\ late' = FALSE
      /\ format' = format /\ quiet' = quiet /\ total' = total /\ seen' = seen
  BY DEF Reading!GoOn
<1>2. PICK offset \in Reading!PageResult(asked, page).next :
        asked' = [asked EXCEPT !.offset = offset]
  BY DEF Reading!GoOn
<1>3. page # Reading!Nothing /\ Answered
  BY <1>1 DEF ReadOrder
<1>4. page.count \in Nat /\ asked.offset \in Nat
  BY <1>3, PageHas DEF Answered
<1>5. offset = asked.offset + page.count
  BY <1>2 DEF Reading!PageResult, Reading!SearchPage, Reading!HistoryPage
<1>6. asked' \in Reading!Typed /\ asked'.op = asked.op /\ asked'.offset = offset
  <2>1. asked \in Reading!Request /\ (asked.op = "history" => asked.options \subseteq {"plain"})
    BY DEF ReadTypes, Reading!Typed
  <2>2. offset \in Nat
    BY <1>4, <1>5
  <2>3. /\ asked' \in Reading!Request /\ asked'.op = asked.op
        /\ asked'.options = asked.options /\ asked'.offset = offset
    BY <1>2, <2>1, <2>2 DEF Reading!Request
  <2> QED  BY <2>1, <2>3 DEF Reading!Typed
<1>7. ReadTypes'
  BY <1>1, <1>6 DEF ReadTypes, Reading!Nothing, Reading!NoVerdict, Kinds
<1>8. ReadOrder'
  BY <1>1 DEF ReadOrder, Reading!NoVerdict
<1>9. SeenInOrder'
  <2>1. Reached = offset /\ Reached' = offset
    BY <1>1, <1>5, <1>6 DEF Reached, Reading!NoVerdict
  <2>2. /\ \A n \in seen : n < offset
        /\ \A n \in 0..(total - 1) :
             n < offset => n \in seen \/ (n < asked.offset /\ \A m \in seen : n < m)
    BY <1>1, <2>1 DEF SeenInOrder
  <2>3. \A n \in 0..(total - 1) : n < offset => n \in seen \/ \A m \in seen : n < m
    BY <2>2
  <2> QED  BY <1>1, <1>6, <2>1, <2>2, <2>3 DEF SeenInOrder
<1>10. Reading!AnswerReported'
  BY <1>1 DEF Reading!AnswerReported, Reading!NoVerdict
<1> QED  BY <1>7, <1>8, <1>9, <1>10

\* The signal and the deadline, and the steps of the other parts.
LEMMA ReadsRest ==
  ASSUME ReadsInvariant, ReadsSame, canceled' \in BOOLEAN, late' \in BOOLEAN, at' = at,
         page' = page, told' = told, out' = out, seen' = seen, verdict' = verdict
  PROVE  ReadsInvariant'
<1> USE DEF ReadsInvariant
<1>1. ReadTypes'
  BY DEF ReadTypes, ReadsSame
<1>2. page # Reading!Nothing => Answered'
  BY AnswerStays DEF ReadOrder
<1>3. Told => Told'
  BY ToldStays
<1>4. ReadOrder'
  <2>1. asked' = asked
    BY DEF ReadsSame
  <2> QED  BY <1>2, <1>3, <2>1 DEF ReadOrder
<1>5. SeenInOrder'
  <2>1. asked' = asked /\ total' = total /\ Reached' = Reached
    BY DEF ReadsSame, Reached
  <2> QED  BY <2>1 DEF SeenInOrder, Reading!Pages
<1>6. Reading!AnswerReported'
  BY Zenon DEF Reading!AnswerReported
<1> QED  BY <1>1, <1>4, <1>5, <1>6

LEMMA ReadsKept ==
  ReadsInvariant /\ [RequestsNext]_all => ReadsInvariant'
<1> SUFFICES ASSUME ReadsInvariant, [RequestsNext]_all  PROVE ReadsInvariant'
  OBVIOUS
<1>1. CASE UNCHANGED readVars
  <2>1. /\ ReadsSame /\ canceled' = canceled /\ late' = late /\ at' = at /\ page' = page
        /\ told' = told /\ out' = out /\ seen' = seen /\ verdict' = verdict
    BY <1>1 DEF readVars, ReadsSame
  <2>2. canceled \in BOOLEAN /\ late \in BOOLEAN
    BY DEF ReadsInvariant, ReadTypes
  <2> QED  BY <2>1, <2>2, ReadsRest
<1>2. CASE Reading!Signal \/ Reading!Pass
  <2>1. /\ ReadsSame /\ at' = at /\ page' = page /\ told' = told /\ out' = out /\ seen' = seen
        /\ verdict' = verdict
        /\ (canceled' = TRUE /\ late' = late) \/ (canceled' = canceled /\ late' = TRUE)
    BY <1>2 DEF Reading!Signal, Reading!Pass, Reading!arguments, ReadsSame
  <2>2. canceled' \in BOOLEAN /\ late' \in BOOLEAN
    BY <2>1 DEF ReadsInvariant, ReadTypes
  <2> QED  BY <2>1, <2>2, ReadsRest
<1>3. CASE Reading!Received
  <2>1. /\ at = "received" /\ ReadsSame /\ canceled' = canceled /\ late' = late /\ seen' = seen
        /\ page' = page /\ told' = told /\ out' = out /\ Reading!Active("warn")
    BY <1>3 DEF Reading!Received, Reading!Stays, Reading!arguments, ReadsSame
  <2> QED  BY <2>1, ActiveKept
<1>4. CASE Reading!Read(Reading!Valid(asked), Reading!Shapes(asked), Warnings(asked, page))
  BY <1>3, <1>4, PrepareKept, ExecuteKept, ParseKept, WarnKept, RenderKept, EmitKept, Zenon
  DEF Reading!Read
<1>5. CASE Reading!Next
  BY <1>2, <1>4, <1>5, CommandReads, GoOnKept, Zenon DEF Reading!Next
<1> QED
  BY <1>1, <1>5, Zenon DEF RequestsNext, InHttp, InRate, InRead, all

LEMMA ReadsImplied ==
  ReadsInvariant => ReadsInv
<1> SUFFICES ASSUME ReadsInvariant  PROVE ReadsInv
  OBVIOUS
<1> USE DEF ReadsInvariant
<1>1. Reading!TypeOK
  BY DEF ReadTypes, Reading!TypeOK, Kinds
<1>2. Reading!AllOrTold
  <2> SUFFICES ASSUME asked.op \in Reading!Pages, ~Reading!Streamed, verdict.kind = "success",
                      Reading!PageResult(asked, page).next = {}, "boundary" \notin told,
                      NEW n \in 0..(total - 1)
               PROVE  n \in seen \/ (n < asked.offset /\ \A m \in seen : n < m)
    BY DEF Reading!AllOrTold
  <2>1. Answered /\ Told /\ page # Reading!Nothing
    BY DEF ReadOrder
  <2>2. /\ page.count \in Nat /\ asked.offset \in Nat /\ asked.max \in Nat
        /\ page.count # asked.max =>
             \A k \in 0..(total - 1) : k < asked.offset + page.count
    BY <2>1, PageHas DEF Answered
  <2>3. Warnings(asked, page) \subseteq told
    BY <2>1 DEF Told
  <2>4. page.count # asked.max
    <3> SUFFICES ASSUME page.count = asked.max  PROVE FALSE
      OBVIOUS
    <3>1. CASE asked.op = "search"
      <4>1. ~Reading!SearchPage(asked, page).boundary
        BY <2>3, <3>1 DEF Warnings, Reading!SearchWarnings
      <4>2. Reading!SearchPage(asked, page).next = {}
        BY <3>1 DEF Reading!PageResult
      <4>3. ~(asked.offset + page.count < SearchBoundary)
        BY <4>2 DEF Reading!SearchPage
      <4>4. ~(asked.offset + page.count >= SearchBoundary)
        BY <4>1 DEF Reading!SearchPage
      <4> QED  BY <2>2, <4>3, <4>4, ReadsAssumption
    <3>2. CASE asked.op = "history"
      <4>1. ~Reading!HistoryPage(asked, page).boundary
        BY <2>3, <3>2 DEF Warnings, Reading!HistoryWarnings
      <4>2. Reading!HistoryPage(asked, page).next = {}
        BY <3>2 DEF Reading!PageResult
      <4>3. ~(asked.offset + page.count < HistoryBoundary)
        BY <4>2 DEF Reading!HistoryPage
      <4>4. ~(asked.offset + page.count >= HistoryBoundary)
        BY <4>1 DEF Reading!HistoryPage
      <4> QED  BY <2>2, <4>3, <4>4, ReadsAssumption
    <3> QED  BY <3>1, <3>2 DEF Reading!Pages
  <2>5. n < Reached
    BY <2>2, <2>4 DEF Reached
  <2> QED  BY <2>5 DEF SeenInOrder
<1>3. Reading!WarnedFirst
  <2> SUFFICES ASSUME out # "none", ~(Reading!Streamed /\ quiet)
               PROVE  /\ page.fallback => "fallback" \in told
                      /\ asked.op = "history" => "canonical" \in told
                      /\ asked.op = "matches" => "freshness" \in told
                      /\ asked.op \in Reading!Pages
                           /\ asked.offset + page.count >= Reading!BoundaryOf(asked)
                         => "boundary" \in told
    BY DEF Reading!WarnedFirst
  <2>1. Answered /\ Warnings(asked, page) \subseteq told /\ Reading!Valid(asked)
    BY DEF ReadOrder, Told
  <2>2. page.fallback => "fallback" \in told
    BY <2>1 DEF Answered, Warnings, Reading!ByCrosswalkWarnings
  <2>3. asked.op = "history" => "canonical" \in told
    BY <2>1 DEF Warnings, Reading!HistoryWarnings
  <2>4. asked.op = "matches" => "freshness" \in told
    BY <2>1 DEF Warnings, Reading!MatchesWarnings
  <2>5. ASSUME asked.op \in Reading!Pages,
               asked.offset + page.count >= Reading!BoundaryOf(asked)
        PROVE  "boundary" \in told
    <3>1. page.count \in Nat /\ page.count <= asked.max /\ asked.max \in Nat /\ asked.offset \in Nat
      BY <2>1, PageHas DEF Answered
    <3>2. CASE asked.op = "search"
      <4>1. asked.offset + asked.max <= SearchBoundary
        BY <2>1, <3>2 DEF Reading!Valid, Reading!ValidSearch
      <4>2. Reading!SearchPage(asked, page).boundary
        <5>1. asked.offset + page.count >= SearchBoundary
          BY <2>5, <3>2 DEF Reading!BoundaryOf
        <5>2. page.count = asked.max
          BY <3>1, <4>1, <5>1, ReadsAssumption
        <5> QED  BY <5>1, <5>2 DEF Reading!SearchPage
      <4> QED  BY <2>1, <3>2, <4>2 DEF Warnings, Reading!SearchWarnings
    <3>3. CASE asked.op = "history"
      <4>1. asked.offset + asked.max <= HistoryBoundary
        BY <2>1, <3>3 DEF Reading!Valid, Reading!ValidHistory
      <4>2. Reading!HistoryPage(asked, page).boundary
        <5>1. asked.offset + page.count >= HistoryBoundary
          BY <2>5, <3>3 DEF Reading!BoundaryOf
        <5>2. page.count = asked.max
          BY <3>1, <4>1, <5>1, ReadsAssumption
        <5> QED  BY <5>1, <5>2 DEF Reading!HistoryPage
      <4> QED  BY <2>1, <3>3, <4>2 DEF Warnings, Reading!HistoryWarnings
    <3> QED  BY <2>5, <3>2, <3>3 DEF Reading!Pages
  <2> QED  BY <2>2, <2>3, <2>4, <2>5
<1>4. Reading!TypedIsReviewed(asked)
  BY TypedRequestsAreReviewed DEF ReadTypes
<1> QED  BY <1>1, <1>2, <1>3, <1>4 DEF ReadsInv, Reading!ReadsHold

\* A command that exits with success wrote the whole answer, and told its caller first
\* what the answer does not show: the fallback of a crosswalk, the boundary that cut the
\* pages short, that what it shows is canonical or may be stale; a caller who goes on as
\* told, from page to page, gets everything there is from where it began or is told of
\* the boundary; and what is reported of an answer is what was received (get, by_crosswalk,
\* search, history and matches of entity.rs).
THEOREM ReadsAreHonest == RequestsSpec => []ReadsInv
<1>1. RequestsSpec => []ReadsInvariant
  BY ReadsStart, ReadsKept, PTL DEF RequestsSpec
<1> QED  BY <1>1, ReadsImplied, PTL
===============================================================================
