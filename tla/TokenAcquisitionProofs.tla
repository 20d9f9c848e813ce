------------------------- MODULE TokenAcquisitionProofs -------------------------
(***************************************************************************)
(* For any number of invocations and of tokens: an acquisition's view of   *)
(* the cache stays current across its awaits, the record of a reissued     *)
(* token stops the loop, and every renewal is one step.                    *)
(***************************************************************************)
EXTENDS TokenAcquisition, TLAPS

LEMMA ReceivedTyped ==
  ASSUME TypeOK, NEW c \in Clients, reply[c] # Absent
  PROVE  Received(c) \in Entry /\ ~Received(c).reissued
<1> DEFINE e == [secret |-> reply[c].secret, obtained |-> now,
                 expires |-> now + reply[c].left, reissued |-> FALSE]
<1>1. reply[c] \in Reply /\ now \in Nat
  BY ConstantsAssumption DEF TypeOK
<1>2. e \in Entry
  BY <1>1 DEF Entry, Reply
<1>3. prior[c] # Absent => prior[c].obtained \in Nat /\ prior[c].expires \in Nat
  BY DEF TypeOK, Entry
<1> QED  BY <1>2, <1>3 DEF Received, Entry

LEMMA InitIInv == Init => IInv
<1> SUFFICES ASSUME Init PROVE IInv
  OBVIOUS
<1> USE DEF Init
<1>1. TypeOK
  BY ConstantsAssumption DEF TypeOK
<1>2. Locks /\ Written /\ PriorIsCurrent /\ LoopStops
  BY DEF Locks, Written, PriorIsCurrent, LoopStops, Asking, Installing, Acquiring
<1> QED  BY <1>1, <1>2 DEF IInv

LEMMA EndTyped ==
  ASSUME TypeOK, NEW c \in Clients, End(c)
  PROVE  /\ pc' = [pc EXCEPT ![c] = "idle"]
         /\ pc' \in [Clients -> {"idle", "maint", "send", "candidate", "logout"}
                                 \cup Acquiring \cup Installing]
         /\ mode' \in [Clients -> {"normal", "rejected", "login"}]
         /\ token' \in [Clients -> Entry \cup {Absent}]
         /\ prior' \in [Clients -> Entry \cup {Absent}]
         /\ reply' \in [Clients -> Reply \cup {Absent}]
  BY DEF TypeOK, End, Goto

LEMMA TypeStep == TypeOK /\ Written /\ [Next]_vars => TypeOK'
<1> SUFFICES ASSUME TypeOK, Written, [Next]_vars PROVE TypeOK'
  OBVIOUS
<1> USE DEF TypeOK, provider, locals, Goto, Reply
<1>1. CASE Tick
  BY <1>1, ConstantsAssumption DEF Tick
<1>2. CASE UNCHANGED vars
  BY <1>2 DEF vars
<1>3. ASSUME NEW c \in Clients, Step(c) PROVE TypeOK'
  <2>1. CASE Start(c)
    BY <2>1 DEF Start
  <2>2. CASE TakeMaint(c)
    BY <2>2 DEF TakeMaint, Acquiring
  <2>3. CASE Reuse(c)
    BY <2>3 DEF Reuse
  <2>4. CASE RefuseMarked(c)
    BY <2>4, EndTyped DEF RefuseMarked
  <2>5. CASE Ask(c)
    BY <2>5 DEF Ask, Acquiring
  <2>6. CASE Answer(c)
    <3>1. CASE live # Absent /\ UNCHANGED provider
               /\ \E left \in {Life} \cup {n \in 1..Life : now + n = live.until} :
                    reply' = [reply EXCEPT ![c] = [secret |-> live.secret, left |-> left]]
      <4>1. PICK left \in Nat : reply' = [reply EXCEPT ![c] = [secret |-> live.secret, left |-> left]]
        <5>1. PICK left \in {Life} \cup {n \in 1..Life : now + n = live.until} :
                reply' = [reply EXCEPT ![c] = [secret |-> live.secret, left |-> left]]
          BY <3>1
        <5>2. left \in Nat
          BY ConstantsAssumption
        <5> QED  BY <5>1, <5>2
      <4>2. reply' \in [Clients -> Reply \cup {Absent}]
        BY <3>1, <4>1
      <4> QED  BY <2>6, <3>1, <4>2 DEF Answer, Acquiring
    <3>2. CASE \E u \in Secrets \ issued :
                 /\ reply' = [reply EXCEPT ![c] = [secret |-> u, left |-> Life]]
                 /\ issued' = issued \cup {u}
                 /\ live' = [secret |-> u, until |-> now + Life]
      <4>1. reply' \in [Clients -> Reply \cup {Absent}]
        BY <3>2, ConstantsAssumption
      <4>2. issued' \subseteq Secrets /\ live' \in [secret : Secrets, until : Nat]
        BY <3>2, ConstantsAssumption
      <4> QED  BY <2>6, <4>1, <4>2 DEF Answer, Acquiring
    <3> QED  BY <2>6, <3>1, <3>2 DEF Answer
  <2>7. CASE TooLate(c)
    BY <2>7, EndTyped DEF TooLate
  <2>8. CASE StoreUnchanged(c)
    <3>1. Received(c) \in Entry
      BY <2>8, ReceivedTyped DEF StoreUnchanged, Written
    <3>2. cache' \in Entry
      BY <2>8, <3>1 DEF StoreUnchanged, Entry
    <3>3. stopped' \subseteq Secrets
      BY <2>8, <3>1 DEF StoreUnchanged, Entry
    <3> QED  BY <2>8, <3>2, <3>3, EndTyped DEF StoreUnchanged
  <2>9. CASE StoreNew(c)
    <3>1. Received(c) \in Entry
      BY <2>9, ReceivedTyped DEF StoreNew, Written
    <3>2. cache' \in Entry /\ stopped' = {}
      BY <2>9, <3>1 DEF StoreNew
    <3>3. CASE End(c)
      BY <2>9, <3>2, <3>3, EndTyped DEF StoreNew
    <3>4. CASE ~End(c)
      BY <2>9, <3>1, <3>2, <3>4 DEF StoreNew
    <3> QED  BY <3>3, <3>4
  <2>10. CASE Hold(c)
    <3>1. Received(c) \in Entry
      BY <2>10, ReceivedTyped DEF Hold, Written
    <3> QED  BY <2>10, <3>1 DEF Hold
  <2>11. CASE Accepted(c)
    BY <2>11, EndTyped DEF Accepted
  <2>12. CASE Rejected(c)
    BY <2>12 DEF Rejected
  <2>13. CASE LockForLogin(c)
    BY <2>13 DEF LockForLogin, Installing
  <2>14. CASE Install(c)
    BY <2>14 DEF Install, Installing
  <2>15. CASE Keep(c)
    BY <2>15, EndTyped DEF Keep
  <2>16. CASE TakeBack(c)
    BY <2>16, EndTyped DEF TakeBack
  <2>17. CASE Logout(c)
    BY <2>17, EndTyped DEF Logout
  <2>18. CASE Abandon(c)
    BY <2>18, EndTyped DEF Abandon
  <2> QED  BY <1>3, <2>1, <2>2, <2>3, <2>4, <2>5, <2>6, <2>7, <2>8, <2>9, <2>10, <2>11,
              <2>12, <2>13, <2>14, <2>15, <2>16, <2>17, <2>18 DEF Step
<1> QED  BY <1>1, <1>2, <1>3 DEF Next

\* A lock is taken when nobody holds one against it, and every other step
\* leaves its caller with fewer.
LEMMA LocksStep == TypeOK /\ Locks /\ [Next]_vars => Locks'
<1> SUFFICES ASSUME TypeOK, Locks, [Next]_vars PROVE Locks'
  OBVIOUS
<1> USE DEF Asking, Acquiring, Installing
<1>1. CASE UNCHANGED pc
  BY <1>1 DEF Locks
<1>2. ASSUME NEW c \in Clients, Step(c) PROVE Locks'
  <2>1. CASE \E p \in {"idle", "maint", "send", "candidate", "logout"} : pc' = [pc EXCEPT ![c] = p]
    BY <2>1 DEF Locks, TypeOK
  <2>2. CASE TakeMaint(c)
    BY <2>2 DEF TakeMaint, Goto, NoWriter, Locks, TypeOK
  <2>3. CASE Ask(c)
    BY <2>3 DEF Ask, Goto, KeyFree, Locks, TypeOK
  <2>4. CASE Answer(c)
    BY <2>4 DEF Answer, Goto, Locks, TypeOK
  <2>5. CASE LockForLogin(c)
    BY <2>5 DEF LockForLogin, Goto, NoWriter, NoReader, Locks, TypeOK
  <2>6. CASE Install(c)
    BY <2>6 DEF Install, Goto, Locks, TypeOK
  <2>7. CASE Start(c) \/ Reuse(c) \/ RefuseMarked(c) \/ TooLate(c) \/ StoreUnchanged(c)
             \/ StoreNew(c) \/ Hold(c) \/ Accepted(c) \/ Rejected(c)
             \/ Keep(c) \/ TakeBack(c) \/ Logout(c) \/ Abandon(c)
    BY <2>1, <2>7 DEF Start, Reuse, RefuseMarked, TooLate, StoreUnchanged, StoreNew, Hold,
         Accepted, Rejected, Keep, TakeBack, Logout, Abandon, End, Goto
  <2> QED  BY <1>2, <2>2, <2>3, <2>4, <2>5, <2>6, <2>7 DEF Step
<1> QED  BY <1>1, <1>2 DEF Next, Tick, vars

\* Who may write the cache: the one invocation with the key, or the one with
\* the maintenance lock to itself.
LEMMA WritersAlone ==
  ASSUME TypeOK, Locks, NEW c \in Clients, Step(c), cache' # cache \/ stopped' # stopped
  PROVE  /\ \A d \in Clients \ {c} : pc[d] \notin Asking \cup Installing /\ pc'[d] = pc[d]
         /\ pc'[c] \notin Asking \cup {"plan"}
<1> USE DEF Asking, Acquiring, Installing, TypeOK, Locks, Goto, End
<1>1. CASE StoreUnchanged(c) \/ StoreNew(c)
  BY <1>1 DEF StoreUnchanged, StoreNew
<1>2. CASE Install(c) \/ TakeBack(c)
  BY <1>2 DEF Install, TakeBack
<1>3. CASE Logout(c)
  BY <1>3 DEF Logout, NoWriter, NoReader
<1>4. CASE Start(c) \/ TakeMaint(c) \/ Reuse(c) \/ RefuseMarked(c) \/ Ask(c) \/ Answer(c)
           \/ TooLate(c) \/ Hold(c) \/ Accepted(c) \/ Rejected(c)
           \/ LockForLogin(c) \/ Keep(c) \/ Abandon(c)
  BY <1>4 DEF Start, TakeMaint, Reuse, RefuseMarked, Ask, Answer, TooLate, Hold, Accepted,
              Rejected, LockForLogin, Keep, Abandon
<1> QED  BY <1>1, <1>2, <1>3, <1>4 DEF Step

\* What one step does to the memory of the others: nothing.
LEMMA OthersKept ==
  ASSUME TypeOK, NEW c \in Clients, Step(c), NEW d \in Clients \ {c}
  PROVE  /\ pc'[d] = pc[d] /\ mode'[d] = mode[d] /\ token'[d] = token[d]
         /\ prior'[d] = prior[d] /\ reply'[d] = reply[d]
<1> USE DEF TypeOK, Goto, End, locals
<1>1. CASE StoreUnchanged(c) \/ StoreNew(c) \/ Install(c) \/ TakeBack(c) \/ Logout(c)
  BY <1>1 DEF StoreUnchanged, StoreNew, Install, TakeBack, Logout
<1>2. CASE Start(c) \/ TakeMaint(c) \/ Reuse(c) \/ RefuseMarked(c) \/ Ask(c) \/ Answer(c)
           \/ TooLate(c) \/ Hold(c) \/ Accepted(c) \/ Rejected(c)
           \/ LockForLogin(c) \/ Keep(c) \/ Abandon(c)
  BY <1>2 DEF Start, TakeMaint, Reuse, RefuseMarked, Ask, Answer, TooLate, Hold, Accepted,
              Rejected, LockForLogin, Keep, Abandon
<1> QED  BY <1>1, <1>2 DEF Step

LEMMA CurrentStep == TypeOK /\ Locks /\ PriorIsCurrent /\ [Next]_vars => PriorIsCurrent'
<1> SUFFICES ASSUME TypeOK, Locks, PriorIsCurrent, [Next]_vars PROVE PriorIsCurrent'
  OBVIOUS
<1> USE DEF Asking, Installing
<1>1. CASE UNCHANGED <<cache, pc, prior>>
  BY <1>1 DEF PriorIsCurrent
<1>2. ASSUME NEW c \in Clients, Step(c) PROVE PriorIsCurrent'
  <2>1. CASE cache' # cache
    <3>1. \A d \in Clients : pc'[d] \notin Asking \cup {"plan"}
      BY <1>2, <2>1, WritersAlone
    <3> QED  BY <3>1 DEF PriorIsCurrent
  <2>2. CASE cache' = cache
    <3>1. pc'[c] \in Asking \cup {"plan"} => cache' = prior'[c]
      <4>1. CASE Ask(c) \/ LockForLogin(c)
        BY <4>1 DEF Ask, LockForLogin, Goto, TypeOK
      <4>2. CASE Answer(c)
        BY <2>2, <4>2 DEF Answer, Goto, TypeOK, PriorIsCurrent
      <4>3. CASE \E p \in {"idle", "maint", "key", "send", "candidate", "logout", "installed"} :
                   pc' = [pc EXCEPT ![c] = p]
        BY <4>3 DEF TypeOK
      <4>4. CASE Start(c) \/ TakeMaint(c) \/ Reuse(c) \/ RefuseMarked(c) \/ TooLate(c)
                 \/ StoreUnchanged(c) \/ StoreNew(c) \/ Hold(c) \/ Accepted(c) \/ Rejected(c)
                 \/ Install(c) \/ Keep(c) \/ TakeBack(c) \/ Logout(c) \/ Abandon(c)
        BY <4>3, <4>4 DEF Start, TakeMaint, Reuse, RefuseMarked, TooLate, StoreUnchanged, StoreNew,
             Hold, Accepted, Rejected, Install, Keep, TakeBack, Logout, Abandon, End, Goto
      <4> QED  BY <1>2, <4>1, <4>2, <4>4 DEF Step
    <3>2. \A d \in Clients \ {c} : pc'[d] \in Asking \cup {"plan"} => cache' = prior'[d]
      BY <1>2, <2>2, OthersKept DEF PriorIsCurrent
    <3> QED  BY <3>1, <3>2 DEF PriorIsCurrent
  <2> QED  BY <2>1, <2>2
<1> QED  BY <1>1, <1>2 DEF Next, Tick, vars, locals

LEMMA WrittenStep == TypeOK /\ Locks /\ Written /\ [Next]_vars => Written'
<1> SUFFICES ASSUME TypeOK, Locks, Written, [Next]_vars PROVE Written'
  OBVIOUS
<1>1. CASE UNCHANGED <<cache, pc, token, reply, stopped>>
  BY <1>1 DEF Written
<1>2. ASSUME NEW c \in Clients, Step(c) PROVE Written'
  <2>1. \A u \in stopped' : cache' # Absent /\ cache'.reissued /\ cache'.secret = u
    <3>1. CASE UNCHANGED <<cache, stopped>>
      BY <3>1 DEF Written
    <3>2. CASE StoreUnchanged(c)
      <4>1. Received(c) \in Entry
        BY <3>2, ReceivedTyped DEF StoreUnchanged, Written
      <4>2. cache' \in Entry /\ cache'.reissued /\ cache'.secret = token[c].secret
        BY <3>2, <4>1 DEF StoreUnchanged, Entry
      <4> QED  BY <3>2, <4>2, AbsentAssumption DEF StoreUnchanged
    <3>3. CASE StoreNew(c) \/ Install(c) \/ Logout(c)
      BY <3>3 DEF StoreNew, Install, Logout
    <3>4. CASE TakeBack(c)
      BY <3>4 DEF TakeBack, Written
    <3> QED  BY <1>2, <3>1, <3>2, <3>3, <3>4 DEF Step, Start, TakeMaint, Reuse, RefuseMarked, Ask, Answer,
               TooLate, Hold, Accepted, Rejected, LockForLogin, Keep, Abandon
  <2>2. pc'[c] = "answered" => reply'[c] # Absent
    <3>1. CASE Answer(c)
      <4>1. reply'[c] \in Reply
        <5>1. ASSUME NEW u \in Secrets, NEW left \in Nat,
                     reply' = [reply EXCEPT ![c] = [secret |-> u, left |-> left]]
              PROVE  reply'[c] \in Reply
          BY <5>1 DEF TypeOK, Reply
        <5>2. \E u \in Secrets, left \in Nat : reply' = [reply EXCEPT ![c] = [secret |-> u, left |-> left]]
          <6>1. \A left \in {Life} \cup {n \in 1..Life : now + n = live.until} : left \in Nat
            BY ConstantsAssumption
          <6>2. live # Absent => live.secret \in Secrets
            BY DEF TypeOK
          <6> QED  BY <3>1, <6>1, <6>2, ConstantsAssumption DEF Answer
        <5> QED  BY <5>1, <5>2
      <4> QED  BY <4>1, AbsentAssumption
    <3>2. CASE ~Answer(c)
      <4>1. \E p : p # "answered" /\ pc' = [pc EXCEPT ![c] = p]
        BY <1>2, <3>2 DEF Step, Start, TakeMaint, Reuse, RefuseMarked, Ask, TooLate, StoreUnchanged,
           StoreNew, Hold, Accepted, Rejected, LockForLogin, Install, Keep, TakeBack, Logout, Abandon, End, Goto
      <4> QED  BY <4>1 DEF TypeOK
    <3> QED  BY <3>1, <3>2
  <2>3. pc'[c] = "installed" => cache' = token'[c] /\ stopped' = {}
    <3>1. CASE Install(c)
      BY <3>1 DEF Install, locals
    <3>2. CASE ~Install(c)
      <4>1. \E p : p # "installed" /\ pc' = [pc EXCEPT ![c] = p]
        BY <1>2, <3>2 DEF Step, Start, TakeMaint, Reuse, RefuseMarked, Ask, Answer, TooLate, StoreUnchanged,
           StoreNew, Hold, Accepted, Rejected, LockForLogin, Keep, TakeBack, Logout, Abandon, End, Goto
      <4> QED  BY <4>1 DEF TypeOK
    <3> QED  BY <3>1, <3>2
  <2>4. \A d \in Clients \ {c} : /\ pc'[d] = "answered" => reply'[d] # Absent
                                 /\ pc'[d] = "installed" => cache' = token'[d] /\ stopped' = {}
    BY <1>2, WritersAlone, OthersKept DEF Written, Installing
  <2> QED  BY <2>1, <2>2, <2>3, <2>4 DEF Written
<1> QED  BY <1>1, <1>2 DEF Next, Tick, vars, locals

\* A request for the rejected token's replacement starts on a cache that is
\* not marked for it or no longer usable, and the cache stays that way.
LEMMA LoopStep == IInv /\ [Next]_vars => LoopStops'
<1> SUFFICES ASSUME IInv, [Next]_vars PROVE LoopStops'
  OBVIOUS
<1> USE DEF IInv
<1>1. CASE UNCHANGED <<pc, mode, token, prior, stopped>> /\ now' >= now
  <2>1. \A c \in Clients : prior[c] # Absent => prior[c].expires \in Nat
    BY DEF TypeOK, Entry
  <2>2. now \in Nat /\ now' \in Nat
    BY <1>1, TypeStep DEF TypeOK
  <2> QED  BY <1>1, <2>1, <2>2, ConstantsAssumption DEF LoopStops, Usable
<1>2. ASSUME NEW c \in Clients, Step(c) PROVE LoopStops'
  <2> USE DEF LoopStops
  <2>1. now' = now
    BY <1>2 DEF Step, Start, TakeMaint, Reuse, RefuseMarked, Ask, Answer, TooLate, StoreUnchanged, StoreNew,
       Hold, Accepted, Rejected, LockForLogin, Install, Keep, TakeBack, Logout, Abandon
  <2>2. CASE stopped' # stopped
    BY <1>2, <2>2, WritersAlone DEF Asking
  <2>3. CASE stopped' = stopped
    <3>1. \A d \in Clients \ {c} :
            pc'[d] = "asking" /\ mode'[d] = "rejected" /\ token'[d].secret \in stopped'
              => prior'[d] # Absent /\ ~(prior'[d].expires > now' + Skew)
      BY <1>2, <2>1, <2>3, OthersKept DEF Usable
    <3>2. CASE Ask(c)
      <4>1. prior'[c] = cache /\ mode'[c] = mode[c] /\ token'[c] = token[c]
        BY <3>2 DEF Ask, TypeOK
      <4>2. token[c].secret \in stopped => cache # Absent /\ cache.reissued /\ cache.secret = token[c].secret
        BY DEF Written
      <4>3. mode[c] = "rejected" /\ token[c].secret \in stopped => ~Usable(cache)
        BY <3>2, <4>2 DEF Ask, MarkedFor
      <4>4. mode[c] = "rejected" /\ token[c].secret \in stopped
              => cache # Absent /\ ~(cache.expires > now + Skew)
        BY <4>2, <4>3 DEF Usable
      <4> QED  BY <2>1, <2>3, <3>1, <4>1, <4>4 DEF Usable
    <3>3. CASE ~Ask(c)
      <4>1. \E p : p # "asking" /\ pc' = [pc EXCEPT ![c] = p]
        BY <1>2, <3>3 DEF Step, Start, TakeMaint, Reuse, RefuseMarked, Answer, TooLate, StoreUnchanged,
           StoreNew, Hold, Accepted, Rejected, LockForLogin, Install, Keep, TakeBack, Logout, Abandon, End, Goto
      <4>2. pc'[c] # "asking"
        BY <4>1 DEF TypeOK
      <4> QED  BY <3>1, <4>2 DEF Usable
    <3> QED  BY <3>2, <3>3
  <2> QED  BY <2>2, <2>3
<1>3. CASE Tick
  BY <1>1, <1>3 DEF Tick, locals, TypeOK
<1>4. CASE UNCHANGED vars
  BY <1>1, <1>4 DEF vars, locals, TypeOK
<1> QED  BY <1>2, <1>3, <1>4 DEF Next

LEMMA NextIInv == IInv /\ [Next]_vars => IInv'
  BY TypeStep, LocksStep, CurrentStep, WrittenStep, LoopStep DEF IInv

\* The variables keep their types, whatever the provider answers and whoever
\* dies.
THEOREM TypeCorrect == Spec => []TypeOK
<1>1. IInv => TypeOK
  BY DEF IInv
<1> QED  BY <1>1, InitIInv, NextIInv, PTL DEF Spec

\* What token_inner read before it awaited the provider is still in the cache
\* when it caps and writes, and what a login would restore is what it found.
THEOREM NothingStale == Spec => []PriorIsCurrent
<1>1. IInv => PriorIsCurrent
  BY DEF IInv
<1> QED  BY <1>1, InitIInv, NextIInv, PTL DEF Spec

\* Once a reissue was recorded nobody asks for that token again while it is
\* usable and in the cache.
THEOREM LoopAlwaysStops == Spec => []LoopStops
<1>1. IInv => LoopStops
  BY DEF IInv
<1> QED  BY <1>1, InitIInv, NextIInv, PTL DEF Spec

-------------------------------------------------------------------------------
\* The refinement: what each step does to the slot and to the candidates.

Holding == {"candidate", "plan", "installed"}

LEMMA SlotBefore ==
  ASSUME Locks
  PROVE  /\ \A c \in Clients : pc[c] = "installed" => Visible = prior[c]
         /\ (\A c \in Clients : pc[c] # "installed") => Visible = cache
<1>1. ASSUME NEW c \in Clients, pc[c] = "installed" PROVE Visible = prior[c]
  <2>1. \A d \in Clients : pc[d] = "installed" => d = c
    BY <1>1 DEF Locks, Installing
  <2>2. (CHOOSE d \in Clients : pc[d] = "installed") = c
    BY <1>1, <2>1
  <2> QED  BY <1>1, <2>2 DEF Visible
<1> QED  BY <1>1 DEF Visible

LEMMA SlotAfter ==
  ASSUME Locks'
  PROVE  /\ \A c \in Clients : pc'[c] = "installed" => Visible' = prior'[c]
         /\ (\A c \in Clients : pc'[c] # "installed") => Visible' = cache'
<1>1. ASSUME NEW c \in Clients, pc'[c] = "installed" PROVE Visible' = prior'[c]
  <2>1. \A d \in Clients : pc'[d] = "installed" => d = c
    BY <1>1 DEF Locks, Installing
  <2>2. (CHOOSE d \in Clients : pc'[d] = "installed") = c
    BY <1>1, <2>1
  <2> QED  BY <1>1, <2>2 DEF Visible
<1> QED  BY <1>1 DEF Visible

LEMMA SlotKept ==
  ASSUME IInv, IInv', NEW c \in Clients, Step(c),
         pc[c] # "installed", pc'[c] # "installed"
  PROVE  /\ cache' = cache => Visible' = Visible
         /\ cache' # cache => Visible = cache /\ Visible' = cache'
<1> USE DEF IInv
<1>1. \A d \in Clients \ {c} : pc'[d] = pc[d] /\ prior'[d] = prior[d]
  BY OthersKept
<1>2. CASE cache' # cache
  <2>1. \A d \in Clients : pc[d] # "installed" /\ pc'[d] # "installed"
    BY <1>1, <1>2, WritersAlone DEF Installing
  <2> QED  BY <1>2, <2>1, SlotBefore, SlotAfter
<1>3. CASE cache' = cache /\ \A d \in Clients : pc[d] # "installed"
  <2>1. \A d \in Clients : pc'[d] # "installed"
    BY <1>1, <1>3
  <2> QED  BY <1>3, <2>1, SlotBefore, SlotAfter
<1>4. ASSUME cache' = cache, NEW d \in Clients, pc[d] = "installed" PROVE Visible' = Visible
  <2>1. d \in Clients \ {c}
    BY <1>4
  <2> QED  BY <1>1, <1>4, <2>1, SlotBefore, SlotAfter
<1> QED  BY <1>2, <1>3, <1>4

LEMMA CandidatesKept ==
  ASSUME TypeOK, NEW c \in Clients, Step(c)
  PROVE  /\ pc'[c] \notin Holding => Candidates' \subseteq Candidates
         /\ pc[c] \notin Holding /\ pc'[c] \notin Holding => Candidates' = Candidates
         /\ pc[c] \in Holding /\ pc'[c] \in Holding /\ token'[c] = token[c] => Candidates' = Candidates
         /\ pc[c] \notin Holding => Candidates \subseteq Candidates' /\ Candidates' \subseteq Candidates \cup {token'[c]}
<1>1. \A d \in Clients \ {c} : pc'[d] = pc[d] /\ token'[d] = token[d]
  BY OthersKept
<1>2. Candidates = {token[d] : d \in {x \in Clients : pc[x] \in Holding}}
  BY DEF Candidates, Holding
<1>3. Candidates' = {token'[d] : d \in {x \in Clients : pc'[x] \in Holding}}
  BY DEF Candidates, Holding
<1> QED  BY <1>1, <1>2, <1>3

\* The token made of an answer is one the slot allows.
LEMMA ReceivedFresh ==
  ASSUME IInv, NEW c \in Clients, pc[c] = "answered", Usable(Received(c))
  PROVE  /\ Visible = cache
         /\ Slot!Fresh(Received(c))
         /\ Slot!Fresh([Received(c) EXCEPT !.reissued = TRUE])
<1> USE DEF IInv
<1>1. Visible = cache
  <2>1. \A d \in Clients : pc[d] # "installed"
    BY DEF Locks, Installing, Acquiring
  <2> QED  BY <2>1, SlotBefore
<1>2. cache = prior[c]
  BY DEF PriorIsCurrent, Asking
<1>3. Received(c) \in Entry
  BY ReceivedTyped DEF Written
<1>4. reply[c] \in Reply /\ now \in Nat
  BY ConstantsAssumption DEF Written, TypeOK
<1>5. prior[c] # Absent => prior[c].obtained \in Nat /\ prior[c].expires \in Nat
  BY DEF TypeOK, Entry
<1>6. /\ Received(c).secret = reply[c].secret
      /\ IF Capped /\ cache # Absent /\ cache.secret = reply[c].secret
         THEN Received(c).obtained = cache.obtained /\ Received(c).expires <= cache.expires
         ELSE Received(c).obtained = now
  BY <1>2, <1>4, <1>5 DEF Received, Reply
<1>7. Slot!Fresh(Received(c))
  BY <1>1, <1>3, <1>6 DEF Slot!Fresh, Slot!Entry, Entry, Usable
<1> DEFINE m == [Received(c) EXCEPT !.reissued = TRUE]
<1>8. m \in Entry /\ m.secret = Received(c).secret /\ m.obtained = Received(c).obtained
      /\ m.expires = Received(c).expires
  BY <1>3 DEF Entry
<1>9. Slot!Fresh(m)
  <2> HIDE DEF m
  <2> QED  BY <1>1, <1>6, <1>8 DEF Slot!Fresh, Slot!Entry, Entry, Usable
<1> QED  BY <1>1, <1>7, <1>9

LEMMA StepRefines ==
  ASSUME IInv, IInv', NEW c \in Clients, Step(c)
  PROVE  [Slot!Next]_(Slot!vars)
<1> USE DEF Slot!vars, Holding
<1>0. pc \in [Clients -> {"idle", "maint", "send", "candidate", "logout"} \cup Acquiring \cup Installing]
  BY DEF IInv, TypeOK
<1>1. CASE /\ now' = now /\ cache' = cache
           /\ pc[c] \notin Holding /\ pc'[c] \notin Holding
  BY <1>1, SlotKept, CandidatesKept DEF IInv
<1>2. CASE Start(c) \/ TakeMaint(c) \/ Reuse(c) \/ RefuseMarked(c) \/ Ask(c) \/ Answer(c)
           \/ TooLate(c) \/ Accepted(c) \/ Rejected(c)
  BY <1>0, <1>1, <1>2 DEF Start, TakeMaint, Reuse, RefuseMarked, Ask, Answer, TooLate, Accepted,
     Rejected, End, Goto
<1>3. CASE StoreUnchanged(c) \/ StoreNew(c)
  <2>1. now' = now /\ pc[c] = "answered" /\ pc'[c] \notin Holding /\ Usable(Received(c))
    BY <1>0, <1>3 DEF StoreUnchanged, StoreNew, End, Goto
  <2>2. Candidates' = Candidates
    BY <2>1, CandidatesKept DEF IInv
  <2>3. Visible' = cache'
    BY <2>1, SlotKept, ReceivedFresh
  <2>4. cache' \in {Received(c), [Received(c) EXCEPT !.reissued = TRUE]}
    BY <1>3 DEF StoreUnchanged, StoreNew
  <2>5. Slot!Fresh(Visible')
    BY <2>1, <2>3, <2>4, ReceivedFresh
  <2> QED  BY <2>1, <2>2, <2>5 DEF Slot!Next, Slot!Renew
<1>4. CASE Hold(c)
  <2>1. /\ now' = now /\ cache' = cache /\ Usable(Received(c)) /\ token'[c] = Received(c)
        /\ pc[c] = "answered" /\ pc'[c] = "candidate"
    BY <1>0, <1>4 DEF Hold, Goto, IInv, TypeOK
  <2>2. Visible' = Visible
    BY <2>1, SlotKept
  <2>3. Candidates \subseteq Candidates' /\ Candidates' \subseteq Candidates \cup {Received(c)}
    BY <2>1, CandidatesKept DEF IInv
  <2>4. Slot!Fresh(Received(c)) /\ ~Received(c).reissued
    BY <2>1, ReceivedFresh, ReceivedTyped DEF IInv, Written
  <2> QED  BY <2>1, <2>2, <2>3, <2>4 DEF Slot!Next, Slot!Hold
<1>5. CASE LockForLogin(c)
  <2>1. /\ now' = now /\ cache' = cache /\ token' = token
        /\ pc[c] = "candidate" /\ pc'[c] = "plan"
    BY <1>0, <1>5 DEF LockForLogin, Goto
  <2> QED  BY <2>1, SlotKept, CandidatesKept DEF IInv
<1>6. CASE Install(c)
  <2>1. /\ now' = now /\ prior' = prior /\ token' = token
        /\ pc[c] = "plan" /\ pc'[c] = "installed"
    BY <1>0, <1>6 DEF Install, Goto, locals
  <2>2. Visible = cache
    <3>1. \A d \in Clients : pc[d] # "installed"
      BY <2>1 DEF IInv, Locks, Installing
    <3> QED  BY <3>1, SlotBefore DEF IInv
  <2>3. Visible' = prior[c]
    BY <2>1, SlotAfter DEF IInv
  <2>4. cache = prior[c]
    BY <2>1 DEF IInv, PriorIsCurrent
  <2> QED  BY <2>1, <2>2, <2>3, <2>4, CandidatesKept DEF IInv
<1>7. CASE Keep(c) \/ TakeBack(c)
  <2>1. now' = now /\ pc[c] = "installed" /\ pc' = [pc EXCEPT ![c] = "idle"]
    BY <1>7 DEF Keep, TakeBack, End, Goto
  <2>2. Visible = prior[c]
    BY <2>1, SlotBefore DEF IInv
  <2>3. \A d \in Clients : pc'[d] # "installed"
    BY <1>0, <2>1 DEF IInv, Locks, Installing
  <2>4. Visible' = cache'
    BY <2>3, SlotAfter DEF IInv
  <2>5. Candidates' \subseteq Candidates
    BY <2>1, <1>0, CandidatesKept DEF IInv
  <2>6. CASE Keep(c)
    <3>1. cache' = token[c] /\ token[c] \in Candidates
      BY <2>1, <2>6 DEF Keep, IInv, Written, Candidates
    <3> QED  BY <2>1, <2>4, <2>5, <3>1 DEF Slot!Next, Slot!Replace
  <2>7. CASE TakeBack(c)
    <3>1. Visible' = Visible
      BY <2>2, <2>4, <2>7 DEF TakeBack
    <3> QED  BY <2>1, <2>5, <3>1 DEF Slot!Next, Slot!Drop
  <2> QED  BY <1>7, <2>6, <2>7
<1>8. CASE Logout(c)
  <2>1. now' = now /\ cache' = Absent /\ pc[c] = "logout" /\ pc'[c] = "idle"
        /\ \A d \in Clients : pc[d] # "installed"
    BY <1>0, <1>8 DEF Logout, End, Goto, NoWriter, Installing
  <2>2. Visible = cache
    BY <2>1, SlotBefore DEF IInv
  <2>3. Visible' = Absent
    BY <2>1, <2>2, SlotKept
  <2>4. Candidates' = Candidates
    BY <2>1, CandidatesKept DEF IInv
  <2> QED  BY <2>1, <2>3, <2>4 DEF Slot!Next, Slot!Empty
<1>9. CASE Abandon(c)
  <2>1. now' = now /\ cache' = cache /\ pc[c] # "installed" /\ pc'[c] = "idle"
    BY <1>0, <1>9 DEF Abandon, End, Goto
  <2>2. Visible' = Visible
    BY <2>1, SlotKept
  <2>3. Candidates' \subseteq Candidates
    BY <2>1, CandidatesKept DEF IInv
  <2> QED  BY <2>1, <2>2, <2>3 DEF Slot!Next, Slot!Drop
<1> QED  BY <1>2, <1>3, <1>4, <1>5, <1>6, <1>7, <1>8, <1>9 DEF Step

\* However long the provider takes and whoever is killed meanwhile, those who
\* hold a lock see every renewal, capped by what it replaces, as one step.
THEOREM RenewalsAreAtomic == Spec => RenewalIsAtomic
<1>1. Init => Slot!Init
  <2> SUFFICES ASSUME Init PROVE Slot!Init
    OBVIOUS
  <2>1. now \in Nat /\ Visible = Absent
    BY DEF Init, Visible
  <2>2. Candidates = {}
    BY DEF Init, Candidates
  <2> QED  BY <2>1, <2>2 DEF Slot!Init
<1>2. IInv /\ IInv' /\ [Next]_vars => [Slot!Next]_(Slot!vars)
  <2> SUFFICES ASSUME IInv, IInv', [Next]_vars PROVE [Slot!Next]_(Slot!vars)
    OBVIOUS
  <2>1. CASE Tick
    <3>1. now \in Nat /\ now' = now + 1 /\ UNCHANGED <<cache, pc, token, prior>>
      BY <2>1, ConstantsAssumption DEF Tick, IInv, TypeOK, locals
    <3>2. Visible' = Visible /\ Candidates' = Candidates
      BY <3>1 DEF Visible, Candidates
    <3> QED  BY <3>1, <3>2 DEF Slot!Next, Slot!Tick
  <2>2. CASE UNCHANGED vars
    <3>1. Visible' = Visible /\ Candidates' = Candidates /\ now' = now
      BY <2>2 DEF vars, locals, Visible, Candidates
    <3> QED  BY <3>1 DEF Slot!vars
  <2>3. CASE \E c \in Clients : Step(c)
    BY <2>3, StepRefines
  <2> QED  BY <2>1, <2>2, <2>3 DEF Next
<1> QED  BY <1>1, <1>2, InitIInv, NextIInv, PTL DEF Spec, RenewalIsAtomic, Slot!Spec
===============================================================================
