------------------------------ MODULE TokenStore ------------------------------
(***************************************************************************)
(* What the cached token of one key looks like to whoever holds a lock on  *)
(* it: a renewal reads the slot, asks the provider and writes the slot in  *)
(* one step, however long the provider took; a login does the first half,  *)
(* holds its candidate, and puts it in the slot later or never; a logout   *)
(* empties the slot.                                                       *)
(***************************************************************************)
EXTENDS Naturals

CONSTANTS Secrets, Absent,
          Skew,    \* EXPIRY_SKEW_SECONDS
          Capped   \* a reissued token keeps its age and its expiry

VARIABLES now, slot, held

vars == <<now, slot, held>>

Entry == [secret : Secrets, obtained : Nat, expires : Nat, reissued : BOOLEAN]

\* What the provider can have answered: a token the slot already holds,
\* issued again, gets no younger.
Fresh(e) ==
  /\ e \in Entry /\ e.expires > now + Skew
  /\ IF Capped /\ slot # Absent /\ slot.secret = e.secret
     THEN e.obtained = slot.obtained /\ e.expires <= slot.expires
     ELSE e.obtained = now

Init == now \in Nat /\ slot = Absent /\ held = {}

Renew == Fresh(slot') /\ UNCHANGED <<now, held>>

Hold ==
  /\ held \subseteq held'
  /\ \A e \in held' \ held : Fresh(e) /\ ~e.reissued
  /\ UNCHANGED <<now, slot>>

Drop == held' \subseteq held /\ UNCHANGED <<now, slot>>

Replace == slot' \in held /\ held' \subseteq held /\ UNCHANGED now

Empty == slot' = Absent /\ UNCHANGED <<now, held>>

Tick == now' \in Nat /\ now' > now /\ UNCHANGED <<slot, held>>

Next == Renew \/ Hold \/ Drop \/ Replace \/ Empty \/ Tick

Spec == Init /\ [][Next]_vars
===============================================================================
