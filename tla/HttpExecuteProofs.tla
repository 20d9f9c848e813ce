--------------------------- MODULE HttpExecuteProofs ---------------------------
(***************************************************************************)
(* For any deadline, any delay the server asks for and any number of       *)
(* replays by the caller: an unsafe request is sent once, what a report    *)
(* says of the remote side is so, and a signal ends the request.           *)
(*                                                                         *)
(* IInv is inductive.  A step  either ends the request with a report     *)
(* (the lemmas Quit...), or moves it on.                                   *)
(***************************************************************************)
EXTENDS HttpExecute, TLAPS

\* What the executor's own steps rest on, with what they protect.
IInv == HttpInv /\ UnsafeOnce

-------------------------------------------------------------------------------
\* The backoff.

\* 1_u64 << n, for the shifts that backoff_seconds makes.
LEMMA Shifts == \A n \in 0..20 : 2^n \in Nat /\ 2^n >= 1
<1> DEFINE P(n) == 2^n
<1> HIDE DEF P
<1>1. /\ P(0) = 1 /\ P(1) = 2 /\ P(2) = 4 /\ P(3) = 8 /\ P(4) = 16 /\ P(5) = 32
      /\ P(6) = 64 /\ P(7) = 128 /\ P(8) = 256 /\ P(9) = 512 /\ P(10) = 1024
      /\ P(11) = 2048 /\ P(12) = 4096 /\ P(13) = 8192 /\ P(14) = 16384
      /\ P(15) = 32768 /\ P(16) = 65536 /\ P(17) = 131072 /\ P(18) = 262144
      /\ P(19) = 524288 /\ P(20) = 1048576
  BY DEF P
<1>2. \A n \in 0..20 : P(n) \in Nat /\ P(n) >= 1
  BY <1>1
<1> QED  BY <1>2 DEF P

LEMMA BackoffNat == ASSUME TypeOK PROVE Backoff(attempts) \in Nat
<1>3. answer.delay \in Nat
  <2>1. answer.delay \in Delays \cup {0}
    BY DEF TypeOK
  <2>2. Delays \subseteq Nat
    BY TimesAssumption
  <2>3. Delays \cup {0} \subseteq Nat
    BY <2>2
  <2> QED  BY <2>1, <2>3
<1> DEFINE n == IF attempts < 20 THEN attempts ELSE 20
           seconds == 2^n - 1
<1>1. n \in 0..20
  BY DEF TypeOK
<1>2. seconds \in Nat
  <2> HIDE DEF n
  <2>1. 2^n \in Nat /\ 2^n >= 1
    BY <1>1, Shifts
  <2> DEFINE shifted == 2^n
  <2> HIDE DEF shifted
  <2>2. shifted - 1 \in Nat
    BY <2>1 DEF shifted
  <2> QED  BY <2>2 DEF shifted
<1> HIDE DEF seconds
<1>4. (IF answer.delay > seconds THEN answer.delay ELSE seconds) \in Nat
  BY <1>2, <1>3
<1> QED  BY <1>4 DEF Backoff, seconds, n

-------------------------------------------------------------------------------
\* Ends of a request.

\* A report that is honest is all that an end has to show.
LEMMA QuitKeeps ==
  ASSUME IInv,
         NEW kind, NEW remote, NEW safe, NEW retryable,
         Quit(kind, remote, safe, retryable),
         [kind |-> kind, remote |-> remote, safe |-> safe, retryable |-> retryable] \in Report,
         request.policy = "unsafe" /\ (safe = "yes" \/ remote = "not_sent") => Sent = 0,
         retryable => safe = "yes",
         broker' \in {"idle", "running", "cut"},
         broker' = "running" => request.source = "process",
         broker' = "cut" => safe = "no"
  PROVE  IInv'
<1> USE DEF IInv, HttpInv, UnsafeOnce, Quit, client, server
<1>1. TypeOK'
  BY DEF TypeOK
<1>2. OutcomeHonest'
  <2>1. request.policy = "unsafe" /\ (safe = "yes" \/ remote = "not_sent")
          => acts = 0 /\ wire # "flying"
    BY DEF Sent, TypeOK
  <2> QED  BY <2>1 DEF OutcomeHonest, ReplayHonest, CutBrokerSaid
<1>3. BoundedAttempts' /\ Unsent' /\ Spent' /\ Brokers' /\ UnsafeOnce'
  BY DEF BoundedAttempts, Unsent, Spent, Brokers, Sent
<1> QED  BY <1>1, <1>2, <1>3

LEMMA QuitCanceledKeeps ==
  ASSUME IInv, pc # "done", NEW remote \in {"not_sent", "unknown", "received"},
         QuitCanceled(remote),
         request.policy = "unsafe" /\ remote = "not_sent" => Sent = 0
  PROVE  IInv'
<1> DEFINE safe == IF remote = "not_sent" THEN "yes" ELSE SafeIf(Replayable)
<1>1. Quit("canceled", remote, safe, FALSE) /\ broker' = broker
  BY DEF QuitCanceled
<1>2. safe \in {"yes", "no"}
  BY DEF SafeIf
<1>3. request.policy = "unsafe" /\ safe = "yes" => Sent = 0
  BY DEF SafeIf, Replayable
<1>4. broker \in {"idle", "running"} /\ (broker = "running" => request.source = "process")
  BY DEF IInv, HttpInv, UnsafeOnce, TypeOK, Brokers
<1> HIDE DEF safe
<1>5. [kind |-> "canceled", remote |-> remote, safe |-> safe, retryable |-> FALSE] \in Report
  BY <1>2 DEF Report
<1> QED  BY <1>1, <1>2, <1>3, <1>4, <1>5, QuitKeeps

LEMMA QuitAnsweredKeeps ==
  ASSUME IInv, pc # "done",
         NEW kind \in {"redirect", "unreadable", "timeout", "network", "too_large", "api"},
         NEW retryable \in BOOLEAN, retryable => Replayable,
         QuitAnswered(kind, retryable)
  PROVE  IInv'
<1> DEFINE safe == SafeIf(Replayable)
<1>1. Quit(kind, "received", safe, retryable) /\ broker' = broker
  BY DEF QuitAnswered
<1>2. safe \in {"yes", "no"} /\ (safe = "yes" <=> Replayable)
  BY DEF SafeIf
<1>3. request.policy = "unsafe" => safe # "yes"
  BY DEF SafeIf, Replayable
<1>4. broker \in {"idle", "running"} /\ (broker = "running" => request.source = "process")
  BY DEF IInv, HttpInv, UnsafeOnce, TypeOK, Brokers
<1> HIDE DEF safe
<1>5. [kind |-> kind, remote |-> "received", safe |-> safe, retryable |-> retryable] \in Report
  BY <1>2 DEF Report
<1> QED  BY <1>1, <1>2, <1>3, <1>4, <1>5, QuitKeeps

-------------------------------------------------------------------------------
\* The steps.

LEMMA InitHttp == Init => IInv
<1> SUFFICES ASSUME Init PROVE IInv
  OBVIOUS
<1> USE DEF Init
<1>1. TypeOK
  <2>1. left \in Nat /\ runs \in 1..MaxRuns
    BY TimesAssumption
  <2> QED  BY <2>1 DEF TypeOK, NoAnswer, NoReport
<1>2. OutcomeHonest /\ BoundedAttempts /\ Unsent /\ Spent /\ Brokers /\ UnsafeOnce
  BY DEF OutcomeHonest, ReplayHonest, CutBrokerSaid, BoundedAttempts, Unsent, Spent, Brokers,
         Sent, NoReport, UnsafeOnce
<1> QED  BY <1>1, <1>2 DEF IInv, HttpInv, UnsafeOnce

\* Steps that end the request.
LEMMA EndsKeep ==
  ASSUME IInv,
         \/ CanceledAt \/ Refuse \/ NoToken \/ AuthTimeout \/ AuthCanceled
         \/ SendTooLate \/ SendTimeout \/ SendCanceled \/ Redirected \/ BudgetExhausted
         \/ BodyTimeout \/ BodyFails \/ BodyTooLarge \/ Unsuccessful \/ Success
  PROVE  IInv'
<1>0. /\ broker \in {"idle", "running", "cut"} /\ (broker = "running" => request.source = "process")
      /\ pc # "done" => broker \in {"idle", "running"}
      /\ request.policy \in {"safe", "unsafe"} /\ (Replayable <=> request.policy # "unsafe")
      /\ request.policy = "unsafe" => pc # "reauth"
      /\ request.policy = "unsafe" /\ pc \in {"start", "auth", "send"} => Sent = 0
  BY DEF IInv, HttpInv, UnsafeOnce, TypeOK, Brokers, Unsent, Request, Policies, Replayable
<1>1. CASE CanceledAt
  <2>1. CASE pc \in {"start", "send"} /\ QuitCanceled("not_sent")
    BY <1>0, <2>1, QuitCanceledKeeps
  <2>2. CASE pc = "failed" /\ QuitCanceled("unknown")
    BY <2>2, QuitCanceledKeeps
  <2>3. CASE pc \in {"headers", "body"} /\ QuitCanceled("received")
    BY <2>3, QuitCanceledKeeps
  <2>4. CASE /\ pc = "backoff"
             /\ QuitCanceled(IF answer.status \in Faults THEN "unknown" ELSE "received")
    BY <2>4, QuitCanceledKeeps
  <2> QED  BY <1>1, <2>1, <2>2, <2>3, <2>4 DEF CanceledAt
<1>2. CASE Refuse
  <2>1. [kind |-> "refused", remote |-> "unsaid", safe |-> "unsaid", retryable |-> FALSE] \in Report
    BY DEF Report
  <2> QED  BY <1>0, <1>2, <2>1, QuitKeeps DEF Refuse
<1>3. CASE NoToken
  <2>1. PICK safe \in {"unsaid", "yes", "no"} :
          (broker = "running" => safe = "no") /\ Quit("auth", "unsaid", safe, FALSE)
    BY <1>3 DEF NoToken
  <2>2. [kind |-> "auth", remote |-> "unsaid", safe |-> safe, retryable |-> FALSE] \in Report
    BY DEF Report
  <2> QED  BY <1>0, <1>3, <2>1, <2>2, QuitKeeps DEF NoToken
<1>4. CASE AuthTimeout
  <2> DEFINE safe == SafeIf(broker # "running" /\ (pc = "auth" \/ Replayable))
             retryable == broker # "running"
  <2>1. Quit("timeout", "unsaid", safe, retryable)
    BY <1>4 DEF AuthTimeout
  <2>2. safe \in {"yes", "no"} /\ retryable \in BOOLEAN
    BY DEF SafeIf
  <2>3. /\ request.policy = "unsafe" /\ safe = "yes" => Sent = 0
        /\ retryable => safe = "yes"
        /\ broker' = "cut" => safe = "no"
        /\ broker' \in {"idle", "cut"}
    BY <1>0, <1>4 DEF AuthTimeout, SafeIf
  <2> HIDE DEF safe, retryable
  <2>4. [kind |-> "timeout", remote |-> "unsaid", safe |-> safe, retryable |-> retryable] \in Report
    BY <2>2 DEF Report
  <2> QED  BY <2>1, <2>2, <2>3, <2>4, QuitKeeps
<1>5. CASE AuthCanceled
  <2> DEFINE safe == SafeIf(request.source # "process" /\ (pc = "auth" \/ Replayable))
             remote == IF pc = "auth" THEN "not_sent" ELSE "received"
  <2>1. Quit("canceled", remote, safe, FALSE)
    BY <1>5 DEF AuthCanceled
  <2>2. safe \in {"yes", "no"} /\ remote \in {"not_sent", "received"}
    BY DEF SafeIf
  <2>3. /\ request.policy = "unsafe" /\ (safe = "yes" \/ remote = "not_sent") => Sent = 0
        /\ broker' = "cut" => safe = "no"
        /\ broker' \in {"idle", "cut"}
    BY <1>0, <1>5 DEF AuthCanceled, SafeIf
  <2> HIDE DEF safe, remote
  <2>4. [kind |-> "canceled", remote |-> remote, safe |-> safe, retryable |-> FALSE] \in Report
    BY <2>2 DEF Report
  <2> QED  BY <2>1, <2>2, <2>3, <2>4, QuitKeeps
<1>6. CASE SendTooLate
  <2>1. [kind |-> "timeout", remote |-> "unsaid", safe |-> "yes", retryable |-> TRUE] \in Report
    BY DEF Report
  <2> QED  BY <1>0, <1>6, <2>1, QuitKeeps DEF SendTooLate
<1>7. CASE SendTimeout
  <2> DEFINE safe == SafeIf(Replayable)
             remote == IF Replayable THEN "unsaid" ELSE "unknown"
             retryable == Replayable
  <2>1. Quit("timeout", remote, safe, retryable)
    BY <1>7 DEF SendTimeout
  <2>2. safe \in {"yes", "no"} /\ remote \in {"unsaid", "unknown"} /\ retryable \in BOOLEAN
    BY DEF SafeIf, Replayable
  <2>3. (safe = "yes" <=> Replayable) /\ remote # "not_sent"
    BY DEF SafeIf
  <2>4. broker' = broker /\ pc # "done"
    BY <1>7 DEF SendTimeout
  <2>5. retryable => safe = "yes"
    BY <2>3
  <2> HIDE DEF safe, remote, retryable
  <2>6. [kind |-> "timeout", remote |-> remote, safe |-> safe, retryable |-> retryable] \in Report
    BY <2>2 DEF Report
  <2> QED  BY <1>0, <2>1, <2>3, <2>4, <2>5, <2>6, QuitKeeps
<1>8. CASE SendCanceled
  BY <1>8, QuitCanceledKeeps DEF SendCanceled
<1>9. CASE Redirected
  BY <1>9, QuitAnsweredKeeps DEF Redirected
<1>10. CASE BudgetExhausted
  <2>1. CASE answer.status \in Faults
    <3>1. [kind |-> "budget", remote |-> "unsaid", safe |-> "unsaid", retryable |-> FALSE] \in Report
      BY DEF Report
    <3> QED  BY <1>0, <1>10, <2>1, <3>1, QuitKeeps DEF BudgetExhausted
  <2>2. CASE answer.status \notin Faults
    <3>1. QuitAnswered("api", Replayable) /\ pc # "done"
      BY <1>10, <2>2 DEF BudgetExhausted, QuitAnswered
    <3>2. Replayable \in BOOLEAN
      BY DEF Replayable
    <3> QED  BY <3>1, <3>2, QuitAnsweredKeeps
  <2> QED  BY <2>1, <2>2
<1>11. CASE BodyTimeout
  <2>1. Replayable \in BOOLEAN
    BY DEF Replayable
  <2> QED  BY <1>11, <2>1, QuitAnsweredKeeps DEF BodyTimeout
<1>12. CASE BodyFails
  <2>1. Replayable \in BOOLEAN
    BY DEF Replayable
  <2> QED  BY <1>12, <2>1, QuitAnsweredKeeps DEF BodyFails
<1>13. CASE BodyTooLarge
  BY <1>13, QuitAnsweredKeeps DEF BodyTooLarge
<1>14. CASE Unsuccessful
  <2>1. (Replayable /\ answer.status \in Retried) \in BOOLEAN
    BY DEF Replayable
  <2>2. QuitAnswered("api", Replayable /\ answer.status \in Retried) /\ pc # "done"
    BY <1>14 DEF Unsuccessful
  <2> QED  BY <2>1, <2>2, QuitAnsweredKeeps
<1>15. CASE Success
  <2>1. [kind |-> "success", remote |-> "received", safe |-> "unsaid", retryable |-> FALSE] \in Report
    BY DEF Report
  <2> QED  BY <1>0, <1>15, <2>1, QuitKeeps DEF Success
<1> QED  BY <1>1, <1>2, <1>3, <1>4, <1>5, <1>6, <1>7, <1>8, <1>9, <1>10, <1>11, <1>12,
            <1>13, <1>14, <1>15

\* Steps that go on, and those that do either.
LEMMA StepsKeep ==
  ASSUME IInv,
         \/ Begin \/ StartBroker \/ GotToken \/ Send \/ Failed \/ Reauthenticate \/ Retry
         \/ Sleep \/ ReadOn
  PROVE  IInv'
<1> USE DEF IInv, HttpInv, UnsafeOnce, Goto, client, server
<1>h. ASSUME TypeOK', BoundedAttempts', Unsent', Spent', Brokers', UnsafeOnce', pc' # "done",
             report' = report
      PROVE  IInv'
  BY <1>h DEF OutcomeHonest, ReplayHonest, CutBrokerSaid, Brokers
<1>1. CASE Begin
  BY <1>1, <1>h DEF Begin, TypeOK, BoundedAttempts, Unsent, Spent, Brokers, Sent
<1>2. CASE StartBroker
  BY <1>2, <1>h DEF StartBroker, TypeOK, BoundedAttempts, Unsent, Spent, Brokers, Sent
<1>3. CASE GotToken
  BY <1>3, <1>h DEF GotToken, TypeOK, BoundedAttempts, Unsent, Spent, Brokers, Sent
<1>4. CASE Send
  BY <1>4, <1>h DEF Send, TypeOK, BoundedAttempts, Unsent, Spent, Brokers, Sent
<1>5. CASE Failed
  <2>1. CASE RetryTransport
    BY <1>5, <2>1, <1>h DEF Failed, RetryTransport, Replayable, TypeOK, BoundedAttempts, Unsent,
                            Spent, Brokers, Sent
  <2>2. CASE ~RetryTransport
    <3> DEFINE sure == Replayable \/ answer.status = "connect"
               safe == SafeIf(sure)
               remote == IF sure THEN "unsaid" ELSE "unknown"
               retryable == answer.status = "connect"
    <3>1. Quit("network", remote, safe, retryable) /\ broker' = broker /\ pc = "failed"
      BY <1>5, <2>2 DEF Failed
    <3>2. safe \in {"yes", "no"} /\ remote \in {"unsaid", "unknown"} /\ retryable \in BOOLEAN
      BY DEF SafeIf
    <3>3. (retryable => safe = "yes") /\ remote # "not_sent"
      BY DEF SafeIf
    <3>4. request.policy = "unsafe" /\ safe = "yes" => Sent = 0
      BY <3>1 DEF Unsent, SafeIf, Replayable
    <3>5. broker \in {"idle", "running"} /\ (broker = "running" => request.source = "process")
      BY <3>1 DEF TypeOK, Brokers
    <3> HIDE DEF safe, remote, retryable
    <3>6. [kind |-> "network", remote |-> remote, safe |-> safe, retryable |-> retryable] \in Report
      BY <3>2 DEF Report
    <3> QED  BY <3>1, <3>3, <3>4, <3>5, <3>6, QuitKeeps
  <2> QED  BY <2>1, <2>2
<1>6. CASE Reauthenticate
  BY <1>6, <1>h DEF Reauthenticate, MustReauth, Replayable, TypeOK, BoundedAttempts, Unsent,
                    Spent, Brokers, Sent
<1>7. CASE Retry
  <2>1. Ceiling(answer.status) <= 12 /\ Ceiling(answer.status) \in Nat
    BY DEF Ceiling
  <2>2. attempts <= 11 /\ Replayable
    BY <1>7, <2>1 DEF Retry, RetryStatus, TypeOK
  <2> QED  BY <1>7, <1>h, <2>2 DEF Retry, Replayable, TypeOK, BoundedAttempts, Unsent, Spent,
                                   Brokers, Sent
<1>8. CASE Sleep
  <2>1. left - Backoff(attempts) \in Nat
    BY <1>8, BackoffNat DEF Sleep, TypeOK
  <2> QED  BY <1>8, <1>h, <2>1 DEF Sleep, TypeOK, BoundedAttempts, Unsent, Spent, Brokers, Sent
<1>9. CASE ReadOn
  <2>1. CASE Goto("body") /\ UNCHANGED <<left, client, broker, server>>
    BY <1>9, <2>1, <1>h DEF ReadOn, TypeOK, BoundedAttempts, Unsent, Spent, Brokers, Sent
  <2>2. CASE QuitAnswered("unreadable", FALSE)
    BY <1>9, <2>2, QuitAnsweredKeeps DEF ReadOn
  <2> QED  BY <1>9, <2>1, <2>2 DEF ReadOn
<1> QED  BY <1>1, <1>2, <1>3, <1>4, <1>5, <1>6, <1>7, <1>8, <1>9

\* The server, the network, the user and the caller.
LEMMA SurroundingsKeep ==
  ASSUME IInv, Headers \/ SendFails \/ Take \/ Cancel \/ Wait \/ Replay
  PROVE  IInv'
<1> USE DEF IInv, HttpInv, UnsafeOnce, client, server
<1>h. ASSUME TypeOK', BoundedAttempts', Unsent', Spent', Brokers', UnsafeOnce', pc' # "done",
             report' = report
      PROVE  IInv'
  BY <1>h DEF OutcomeHonest, ReplayHonest, CutBrokerSaid, Brokers
<1>1. CASE Headers
  <2>1. PICK s \in Statuses, d \in Delays : answer' = [status |-> s, delay |-> d]
    BY <1>1 DEF Headers
  <2>2. answer' \in [status : Statuses \cup Faults \cup {"none"}, delay : Delays \cup {0}]
    BY <2>1
  <2>3. TypeOK'
    BY <1>1, <2>2 DEF Headers, Goto, TypeOK
  <2>4. BoundedAttempts' /\ Unsent' /\ Spent' /\ Brokers' /\ UnsafeOnce'
    BY <1>1 DEF Headers, Goto, TypeOK, BoundedAttempts, Unsent, Spent, Brokers, Sent
  <2> QED  BY <1>1, <1>h, <2>3, <2>4 DEF Headers, Goto
<1>2. CASE SendFails
  <2>1. answer' \in [status : Statuses \cup Faults \cup {"none"}, delay : Delays \cup {0}]
    BY <1>2 DEF SendFails, Faults
  <2> QED  BY <1>2, <1>h, <2>1 DEF SendFails, Goto, TypeOK, BoundedAttempts, Unsent, Spent,
                                   Brokers, Sent
<1>3. CASE Take
  BY <1>3 DEF Take, TypeOK, BoundedAttempts, Unsent, Spent, Brokers, Sent, OutcomeHonest,
              ReplayHonest, CutBrokerSaid
<1>4. CASE Cancel
  BY <1>4 DEF Cancel, TypeOK, BoundedAttempts, Unsent, Spent, Brokers, Sent, OutcomeHonest,
              ReplayHonest, CutBrokerSaid
<1>5. CASE Wait
  <2>1. left' \in Nat
    BY <1>5, TimesAssumption DEF Wait
  <2> QED  BY <1>5, <2>1 DEF Wait, TypeOK, BoundedAttempts, Unsent, Spent, Brokers, Sent,
                             OutcomeHonest, ReplayHonest, CutBrokerSaid
<1>6. CASE Replay
  <2>1. left' \in Nat /\ runs' \in 1..MaxRuns
    BY <1>6, TimesAssumption DEF Replay, TypeOK
  <2>2. request.policy = "unsafe" => Sent = 0 /\ Sent' = Sent
    BY <1>6 DEF Replay, OutcomeHonest, ReplayHonest, Sent
  <2>3. TypeOK'
    BY <1>6, <2>1 DEF Replay, TypeOK, NoAnswer
  <2>4. BoundedAttempts' /\ Unsent' /\ Spent' /\ Brokers' /\ UnsafeOnce'
    BY <1>6, <2>2 DEF Replay, TypeOK, BoundedAttempts, Unsent, Spent, Brokers, NoAnswer
  <2>5. OutcomeHonest'
    BY <1>6 DEF Replay, OutcomeHonest, ReplayHonest, CutBrokerSaid
  <2> QED  BY <2>3, <2>4, <2>5
<1> QED  BY <1>1, <1>2, <1>3, <1>4, <1>5, <1>6

LEMMA NextHttp == IInv /\ [Next]_vars => IInv'
<1> SUFFICES ASSUME IInv, [Next]_vars PROVE IInv'
  OBVIOUS
<1>1. CASE Step
  BY <1>1, EndsKeep, StepsKeep DEF Step
<1>2. CASE Headers \/ SendFails \/ Take \/ Cancel \/ Wait \/ Replay
  BY <1>2, SurroundingsKeep
<1>3. CASE UNCHANGED vars
  BY <1>3 DEF vars, client, server, IInv, HttpInv, UnsafeOnce, TypeOK, BoundedAttempts, Unsent,
     Spent, Brokers, Sent,
              OutcomeHonest, ReplayHonest, CutBrokerSaid
<1> QED  BY <1>1, <1>2, <1>3 DEF Next

\* What a report says is so: it calls a request that the server has taken, or may
\* yet take, neither unsent nor safe to replay, and a credential process that was cut
\* off not safe either; the attempts of a run are bounded.
THEOREM ReportsAreHonest == Spec => []HttpInv
<1>1. IInv => HttpInv
  BY DEF IInv
<1> QED  BY <1>1, InitHttp, NextHttp, PTL DEF Spec

\* An unsafe request reaches the server at most once, however often the caller
\* replays it on the report's word.
THEOREM UnsafeSentOnce == Spec => []UnsafeOnce
<1>1. IInv => UnsafeOnce
  BY DEF IInv
<1> QED  BY <1>1, InitHttp, NextHttp, PTL DEF Spec

-------------------------------------------------------------------------------
\* A signal.

\* Reports of an end are never of a success, except that of Success.
LEMMA OtherEnds ==
  ASSUME NEW kind, kind # "success", NEW remote, NEW safe, NEW retryable,
         Quit(kind, remote, safe, retryable)
  PROVE  pc' = "done" /\ report'.kind # "success"
  BY DEF Quit

\* After a signal nothing is sent, and the request does not succeed.
THEOREM SignalEndsRequest == Spec => CancelWins
<1>1. ASSUME [Next]_vars, cancelled, cancelled'
      PROVE  /\ pc' = "sending" => pc = "sending"
             /\ report'.kind = "success" => report.kind = "success"
  <2> USE <1>1
  <2>1. CASE CanceledAt \/ SendCanceled
    BY <2>1, OtherEnds DEF CanceledAt, SendCanceled, QuitCanceled
  <2>2. CASE Refuse \/ AuthCanceled \/ SendTimeout
    BY <2>2, OtherEnds DEF Refuse, AuthCanceled, SendTimeout
  <2>3. CASE Headers \/ SendFails \/ Take \/ Cancel \/ Wait \/ Replay
    BY <2>3 DEF Headers, SendFails, Take, Cancel, Wait, Replay, Goto
  <2>4. CASE UNCHANGED vars
    BY <2>4 DEF vars
  <2>5. CASE Step /\ ~(CanceledAt \/ SendCanceled \/ Refuse \/ AuthCanceled \/ SendTimeout)
    BY <2>5 DEF Step, Begin, StartBroker, GotToken, NoToken, AuthTimeout, Send, SendTooLate,
                Failed, Redirected, Reauthenticate, Retry, BudgetExhausted, Sleep, ReadOn,
                BodyTimeout, BodyFails, BodyTooLarge, Unsuccessful, Success
  <2> QED  BY <2>1, <2>2, <2>3, <2>4, <2>5 DEF Next
<1> QED  BY <1>1, PTL DEF Spec, CancelWins

===============================================================================
