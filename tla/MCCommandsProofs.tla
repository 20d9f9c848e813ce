---------------------------- MODULE MCCommandsProofs ----------------------------
\* Proofs about the composition of the commands' parts (MCCommands): the end of a
\* command, raw requests, what is told of how things stand, what an output is checked
\* against, a scan that can be resumed, the path of a raw request and the target of an
\* invocation.  A behaviour is one of one part; the steps of the others leave its
\* variables alone, which each section says in a lemma.
EXTENDS MCCommands, TLAPS

-------------------------------------------------------------------------------
(***************************************************************************)
(* The end of a command and of its writer thread (CommandControl).         *)
(***************************************************************************)
Stamped == writing \in {"stamped", "recorded", "sent"}

\* Each cancellation and each finished write has drawn one stamp, no later than now.
StampsDrawn ==
  /\ stamps = (IF Control!Cancelled THEN 1 ELSE 0) + (IF Stamped THEN 1 ELSE 0)
  /\ Control!Cancelled => token.stamp.at <= clock /\ token.stamp.order < stamps
  /\ Stamped => stamp.at <= clock /\ stamp.order < stamps

\* A signal cancels; a deadline does so once it is there.
Cancellations ==
  /\ signals > 0 => Control!Cancelled
  /\ token.reason = "deadline" => token.stamp.at >= Control!Deadline
  /\ result = "canceled" \/ outcome = "canceled" => Control!Cancelled

\* Who holds the lease: the command until its thread has it, the thread until it is
\* done.
LeaseHeld ==
  /\ command \in {"work", "emit"} => writing = "none"
  /\ command = "emit" <=> lease = "command"
  /\ writing \in {"check", "write", "wrote", "stamped", "recorded"} <=> lease = "thread"
  /\ lease # "free" => guard = "current"

\* A success of the thread is the whole output, one of the command is a success of
\* the thread that came in time.
Successes ==
  /\ writing = "write" => written < Chunks
  /\ writing \in {"wrote", "stamped", "recorded", "sent"} => result # Control!Nothing
  /\ result = "ok" => written = Chunks /\ writing \in {"wrote", "stamped", "recorded", "sent"}
  /\ outcome # Control!Nothing <=> command = "done"
  /\ outcome = "ok" =>
       /\ writing = "sent" /\ result = "ok" /\ stamp.at < Control!Deadline
       /\ Control!Cancelled => Control!Precedes(stamp, token.stamp)

\* What main decides and the process exits with.
Decisions ==
  /\ control \in {"command", "late"} => command = "done"
  /\ control = "forced" => signals = 2
  /\ decided.result # Control!Nothing <=> control = "report"
  /\ decided.result = "ok" => outcome = "ok"
  /\ decided.interrupted => Control!SignalPrecededDeadline
  /\ decided.result = "canceled" /\ ~decided.interrupted =>
       token.reason = "deadline" /\ token.stamp.at = Control!Deadline
  /\ exit # Control!Nothing =>
       /\ control = "report"
       /\ exit = IF decided.interrupted THEN "130" ELSE decided.result

ControlInv ==
  Control!TypeOK /\ StampsDrawn /\ Cancellations /\ LeaseHeld /\ Successes /\ Decisions

LEMMA ControlRests ==
  ASSUME [CommandsNext]_all
  PROVE  Control!Next \/ UNCHANGED controlVars
  BY DEF CommandsNext, all, InScan, InControl, InRaw, InStream, InRoute, InTarget, InLease,
         InDiagnosis

LEMMA ControlBegins == CommandsInit => ControlInv
<1>1. CommandsInit => Control!Init
  BY DEF CommandsInit
<1>2. Control!Init => Control!TypeOK
  BY OutputAssumption
  DEF Control!Init, Control!TypeOK, Control!Stamps, Control!Never, Control!NotCancelled,
      Control!Results, Control!Nothing
<1>3. Control!Init => ControlInv
  BY <1>2
  DEF Control!Init, ControlInv, StampsDrawn, Stamped, Cancellations, LeaseHeld, Successes,
      Decisions, Control!Cancelled, Control!NotCancelled, Control!Nothing
<1> QED  BY <1>1, <1>3

\* A decision that agrees with the outcome and the cancellation.
LEMMA DecisionKept ==
  ASSUME ControlInv, control # "report",
         NEW r \in Control!Results, NEW interrupted \in BOOLEAN,
         Control!Decide(r, interrupted), UNCHANGED Control!events,
         r = "ok" => outcome = "ok",
         interrupted => Control!SignalPrecededDeadline,
         r = "canceled" /\ ~interrupted =>
           token.reason = "deadline" /\ token.stamp.at = Control!Deadline
  PROVE  ControlInv'
  BY DEF ControlInv, Control!TypeOK, StampsDrawn, Stamped, Cancellations, LeaseHeld, Successes,
         Decisions, Control!Cancelled, Control!Precedes, Control!SignalPrecededDeadline,
         Control!Decide, Control!events, Control!writer, Control!Nothing, Control!Results

\* A cancellation that is reported without a signal is one by the deadline.
LEMMA NormalizeIs ==
  ASSUME ControlInv, NEW r \in Control!Results
  PROVE  /\ Control!Normalize(r) \in Control!Results
         /\ Control!Normalize(r) = "ok" => r = "ok"
         /\ Control!Normalize(r) = "canceled" /\ Control!Cancelled
              /\ ~Control!SignalPrecededDeadline =>
              token.reason = "deadline" /\ token.stamp.at = Control!Deadline
         /\ Control!Normalize(r) = "canceled" => r = "canceled"
  BY DEF ControlInv, Control!TypeOK, StampsDrawn, Cancellations, Control!Normalize,
         Control!Results, Control!Late, Control!Cancelled, Control!Deadline,
         Control!SignalPrecededDeadline, Control!Stamps

LEMMA ControlAfterIs ==
  ASSUME ControlInv
  PROVE  /\ Control!ControlAfter \in {"canceled", "timeout", "none"}
         /\ Control!ControlAfter = "canceled" => Control!Cancelled
         /\ Control!ControlAfter = "none" =>
              /\ stamp.at < Control!Deadline
              /\ Control!Cancelled => Control!Precedes(stamp, token.stamp)
  BY DEF ControlInv, Control!TypeOK, Control!Stamps, Control!ControlAfter, Control!Nothing,
         Control!Deadline

LEMMA ControlKept == ASSUME ControlInv, Control!Next PROVE ControlInv'
<1> USE OutputAssumption
    DEF ControlInv, Control!TypeOK, StampsDrawn, Stamped, Cancellations, LeaseHeld, Successes,
        Decisions, Control!Stamps, Control!Never, Control!NotCancelled, Control!Results,
        Control!Nothing, Control!Deadline, Control!Late, Control!Cancelled, Control!Forced,
        Control!Now, Control!Precedes, Control!events, Control!writer,
        Control!SignalPrecededDeadline
<1>1. CASE Control!Interrupt
  BY <1>1 DEF Control!Interrupt, Control!CancelWith
<1>2. CASE Control!Pass
  BY <1>2 DEF Control!Pass
<1>3. CASE Control!Work
  BY <1>3 DEF Control!Work, Control!Polled, Control!Done
<1>4. CASE Control!Emit
  BY <1>4 DEF Control!Emit, Control!Polled, Control!Done, Control!ActiveControl
<1>5. CASE Control!Check
  BY <1>5 DEF Control!Check
<1>6. CASE Control!Write
  BY <1>6 DEF Control!Write
<1>7. CASE Control!Stamp
  BY <1>7 DEF Control!Stamp
<1>8. CASE Control!Record \/ Control!Send
  BY <1>8 DEF Control!Record, Control!Send
<1>9. CASE Control!Resolve
  <2>1. result # "none"
    BY <1>9 DEF Control!Resolve
  <2> HIDE DEF Control!Precedes
  <2> QED  BY <1>9, <2>1, ControlAfterIs DEF Control!Resolve, Control!Polled, Control!Done
<1>10. CASE Control!GiveUp
  BY <1>10 DEF Control!GiveUp, Control!Polled, Control!Done, Control!ActiveControl
<1>11. CASE Control!StoreCredential
  BY <1>11 DEF Control!StoreCredential
<1>12. CASE Control!Begin
  <2>1. control = "start" /\ Control!SignalPrecededDeadline \in BOOLEAN
    BY <1>12 DEF Control!Begin
  <2>2. CASE /\ control' = "select"
             /\ UNCHANGED <<Control!events, command, outcome, Control!writer, decided, exit>>
    BY <2>1, <2>2
  <2>3. CASE /\ Control!SignalPrecededDeadline /\ UNCHANGED Control!events
             /\ Control!Decide(Control!Normalize("canceled"), TRUE)
    <3> HIDE DEF Control!SignalPrecededDeadline
    <3> QED  BY <2>1, <2>3, DecisionKept, NormalizeIs DEF Control!Normalize
  <2>4. CASE /\ Control!Late /\ Control!CancelWith("deadline") /\ UNCHANGED <<clock, signals>>
             /\ Control!Decide("timeout", FALSE)
    BY <2>1, <2>4 DEF Control!CancelWith, Control!Decide
  <2>5. CASE /\ UNCHANGED Control!events
             /\ Control!Decide(IF Control!Late THEN "timeout" ELSE "own",
                               Control!SignalPrecededDeadline)
    BY <2>1, <2>5, DecisionKept
  <2> QED  BY <1>12, <2>2, <2>3, <2>4, <2>5 DEF Control!Begin
<1>13. CASE Control!Pick
  BY <1>13 DEF Control!Pick
<1>14. CASE Control!PickTimeout
  BY <1>14 DEF Control!PickTimeout, Control!CancelWith
<1>15. CASE Control!HandleForced
  <2>1. control = "forced" /\ Control!Cancelled /\ Control!SignalPrecededDeadline \in BOOLEAN
    BY <1>15 DEF Control!HandleForced
  <2> HIDE DEF Control!SignalPrecededDeadline, Control!Cancelled
  <2> QED  BY <1>15, <2>1, DecisionKept, NormalizeIs DEF Control!HandleForced
<1>16. CASE Control!HandleCommand
  <2>1. /\ control # "report" /\ outcome \in Control!Results
        /\ outcome = "canceled" => Control!Cancelled
        /\ Control!SignalPrecededDeadline \in BOOLEAN
    BY <1>16 DEF Control!HandleCommand
  <2>2. Control!Normalize(outcome) = "ok" => outcome = "ok"
    BY <2>1, NormalizeIs
  <2> HIDE DEF Control!SignalPrecededDeadline, Control!Cancelled
  <2>3. CASE outcome = "ok" /\ Control!Decide("ok", FALSE)
    BY <1>16, <2>1, <2>3, DecisionKept DEF Control!HandleCommand
  <2>4. CASE Control!Decide(Control!Normalize(outcome), Control!SignalPrecededDeadline)
    BY <1>16, <2>1, <2>2, <2>4, DecisionKept, NormalizeIs DEF Control!HandleCommand
  <2>5. CASE /\ outcome # "ok"
             /\ IF Control!SignalPrecededDeadline THEN Control!Decide(outcome, TRUE)
                ELSE Control!Decide("timeout", FALSE)
    BY <1>16, <2>1, <2>5, DecisionKept DEF Control!HandleCommand
  <2> QED  BY <1>16, <2>3, <2>4, <2>5 DEF Control!HandleCommand
<1>17. CASE Control!Exit
  BY <1>17 DEF Control!Exit
<1> QED
  BY <1>1, <1>2, <1>3, <1>4, <1>5, <1>6, <1>7, <1>8, <1>9, <1>10, <1>11, <1>12, <1>13, <1>14,
     <1>15, <1>16, <1>17
  DEF Control!Next, Control!Main, Control!Output, Control!Writer

LEMMA ControlRested == ASSUME ControlInv, UNCHANGED controlVars PROVE ControlInv'
  BY DEF controlVars, ControlInv, Control!TypeOK, StampsDrawn, Stamped, Cancellations, LeaseHeld,
         Successes, Decisions, Control!Cancelled, Control!Precedes, Control!SignalPrecededDeadline

LEMMA AlwaysControlled == CommandsSpec => []ControlInv
<1>1. ControlInv /\ [CommandsNext]_all => ControlInv'
  BY ControlRests, ControlKept, ControlRested
<1> QED  BY ControlBegins, <1>1, PTL DEF CommandsSpec

\* The exit status tells how the command ended, whatever the order of its
\* completion, the signals and the deadline.
THEOREM StatusTellsTheEnd == CommandsSpec => []StatusInv
<1>1. ControlInv => StatusInv
  BY DEF ControlInv, StatusInv, Successes, Decisions, Control!SuccessInTime,
         Control!SignalStatus, Control!Nothing, Control!TypeOK, Control!Results
<1> QED  BY <1>1, AlwaysControlled, PTL

\* Whoever writes output, a thread that was given up on included, knows every
\* credential that is stored.
THEOREM WritesAreGuarded == CommandsSpec => GuardedWrites
<1>1. ASSUME ControlInv, [CommandsNext]_all, written' # written
      PROVE  guard = "current"
  <2>1. Control!Next
    BY <1>1, ControlRests DEF controlVars
  <2>2. Control!Write
    BY <1>1, <2>1
    DEF Control!Next, Control!Main, Control!Output, Control!Writer, Control!Interrupt,
        Control!Pass, Control!Work, Control!Emit, Control!Check, Control!Stamp, Control!Record,
        Control!Send, Control!Resolve, Control!GiveUp, Control!StoreCredential, Control!Begin,
        Control!Pick, Control!PickTimeout, Control!HandleForced, Control!HandleCommand,
        Control!Exit, Control!Decide, Control!writer
  <2> QED  BY <1>1, <2>2 DEF Control!Write, ControlInv, LeaseHeld
<1>2. ControlInv /\ [CommandsNext]_all => [written' # written => guard = "current"]_Control!vars
  BY <1>1
<1> QED  BY <1>2, AlwaysControlled, PTL DEF CommandsSpec, GuardedWrites, Control!GuardedWrites

-------------------------------------------------------------------------------
(***************************************************************************)
(* A raw request (ApiCommand).                                             *)
(***************************************************************************)
ReaderDone == reader \in {"completed", "sent"}

\* The signal and the reader have each drawn one stamp, no later than now.
DrawnOnce ==
  /\ drawn = (IF Raw!Cancelled THEN 1 ELSE 0) + (IF ReaderDone THEN 1 ELSE 0)
  /\ Raw!Cancelled => signaled.at <= time /\ signaled.order < drawn
  /\ ReaderDone => readAt.at <= time /\ readAt.order < drawn

\* Where the command is once its body is read, and once it has sent something.
CommandStage ==
  /\ step \in {"start", "body"} => reader = "none"
  /\ step = "await" => reader # "none"
  /\ step \notin {"start", "body", "await", "done"} => reader \in {"none", "sent"}
  /\ server.took \/ server.answered => step \in {"answered", "emit", "done"}
  /\ step \in {"answered", "emit"} => server.answered
  /\ step # "done" => said = Raw!NoReport

\* What has been refused does not go on.
Reviewed ==
  /\ step \notin {"start", "done"} \/ reader # "none" \/ server.took =>
       ~Raw!Malformed(request) /\ ~Raw!RefusedBeforeBody(request)
  /\ step \in {"prepare", "execute", "answered", "emit"} \/ server.took =>
       ~Raw!RefusedBeforeSending(request)
  /\ step \in {"execute", "answered", "emit"} \/ server.took => ~request.dry

RawInvariant ==
  /\ Raw!TypeOK /\ DrawnOnce /\ CommandStage /\ Reviewed
  /\ Raw!BodyInTime /\ Raw!ReplayHonest

LEMMA RawRestsElsewhere ==
  ASSUME [CommandsNext]_all
  PROVE  Raw!Next \/ UNCHANGED rawVars
  BY DEF CommandsNext, all, InScan, InControl, InRaw, InStream, InRoute, InTarget, InLease,
         InDiagnosis

LEMMA PlainIsRequest == Plain \in Raw!Request
  BY DEF Plain, Raw!Request

LEMMA RawBegins == CommandsInit => RawInvariant
<1>1. CommandsInit => request \in Raw!Request /\ Raw!Init
  BY PlainIsRequest, RequestsAssumption DEF CommandsInit, RawRests, Raw!Init
<1>2. ASSUME request \in Raw!Request, Raw!Init PROVE Raw!TypeOK
  BY <1>2 DEF Raw!Init, Raw!TypeOK, Raw!Never, Raw!NothingDone, Raw!NoReport
<1> QED
  BY <1>1, <1>2
  DEF Raw!Init, RawInvariant, DrawnOnce, ReaderDone, CommandStage, Reviewed,
      Raw!BodyInTime, Raw!ReplayHonest, Raw!NothingDone, Raw!NoReport, Raw!Cancelled

LEMMA SafePolicyIs ==
  ASSUME NEW r \in Raw!Request, Raw!Policy(r) = "safe"
  PROVE  Raw!Coverage(r) = "reviewed" /\ Raw!ReadSemantic(r) /\ ~Raw!Continuation(r)
<1>1. Raw!Coverage(r) = "reviewed" /\ ~Raw!Continuation(r)
  BY DEF Raw!Policy
<1> QED  BY <1>1 DEF Raw!Coverage, Raw!ReadSemantic

LEMMA BodyControlIs ==
  ASSUME RawInvariant
  PROVE  /\ Raw!ControlAfter \in {"canceled", "timeout", "none"}
         /\ Raw!ControlAfter = "none" =>
              /\ readAt.at < Raw!Deadline
              /\ Raw!Cancelled => Raw!Precedes(readAt, signaled)
  BY DEF RawInvariant, Raw!TypeOK, Raw!ControlAfter, Raw!Deadline

LEMMA RawKept == ASSUME RawInvariant, Raw!Next PROVE RawInvariant'
<1> USE DEF RawInvariant, Raw!TypeOK, DrawnOnce, ReaderDone, CommandStage, Reviewed,
        Raw!BodyInTime, Raw!ReplayHonest, Raw!Never, Raw!NoReport, Raw!Deadline, Raw!Late,
        Raw!Cancelled, Raw!Now, Raw!Precedes, Raw!events, Raw!input, Raw!Rest, Raw!Goto,
        Raw!Say, Raw!ControlError
<1>1. CASE Raw!Start
  BY <1>1 DEF Raw!Start
<1>2. CASE Raw!Body
  BY <1>2 DEF Raw!Body, Raw!ActiveControl
<1>3. CASE Raw!Receive
  <2> HIDE DEF Raw!Precedes
  <2> QED  BY <1>3, BodyControlIs DEF Raw!Receive
<1>4. CASE Raw!LeaveReader
  BY <1>4 DEF Raw!LeaveReader, Raw!ActiveControl
<1>5. CASE Raw!Resolve
  BY <1>5 DEF Raw!Resolve
<1>6. CASE Raw!Prepare
  BY <1>6 DEF Raw!Prepare
<1>7. CASE Raw!Execute
  <2>1. CASE step' = "answered"
    <3>1. /\ step = "execute" /\ server' = [took |-> TRUE, answered |-> TRUE] /\ UNCHANGED said
          /\ UNCHANGED <<request, Raw!events, Raw!input>>
      BY <1>7, <2>1 DEF Raw!Execute
    <3> QED  BY <2>1, <3>1
  <2>2. CASE step' = "done"
    <3>1. PICK took \in BOOLEAN, end \in {"failed", "canceled", "timeout"} :
            /\ server' = [took |-> took, answered |-> FALSE]
            /\ \/ Raw!Say(end, "unsaid", IF Raw!Policy(request) = "safe" THEN "yes" ELSE "no")
               \/ ~took /\ Raw!Say(end, "no", "yes")
      BY <1>7, <2>2 DEF Raw!Execute
    <3>2. Raw!Policy(request) = "safe" =>
            /\ Raw!Coverage(request) = "reviewed" /\ Raw!ReadSemantic(request)
            /\ ~Raw!Continuation(request)
      BY SafePolicyIs
    <3>3. UNCHANGED <<request, Raw!events, Raw!input>> /\ step = "execute"
      BY <1>7 DEF Raw!Execute
    <3>4. Raw!TypeOK'
      BY <3>1, <3>3
    <3>5. Raw!ReplayHonest'
      BY <3>1, <3>2, <3>3
    <3> QED  BY <2>2, <3>1, <3>3, <3>4, <3>5
  <2> QED  BY <1>7, <2>1, <2>2 DEF Raw!Execute
<1>8. CASE Raw!Answered
  BY <1>8, SafePolicyIs DEF Raw!Answered, Raw!AnsweredError, Raw!ReplaySafe, Raw!Policy
<1>9. CASE Raw!Emit
  BY <1>9, SafePolicyIs DEF Raw!Emit, Raw!AnsweredError, Raw!ReplaySafe, Raw!Policy
<1>10. CASE Raw!BeginRead
  BY <1>10 DEF Raw!BeginRead, Raw!ActiveControl
<1>11. CASE Raw!Read
  BY <1>11 DEF Raw!Read
<1>12. CASE Raw!Publish
  BY <1>12 DEF Raw!Publish
<1>13. CASE Raw!SendBody
  BY <1>13 DEF Raw!SendBody
<1>14. CASE Raw!Signal
  BY <1>14 DEF Raw!Signal
<1>15. CASE Raw!Pass
  BY <1>15 DEF Raw!Pass
<1> QED
  BY <1>1, <1>2, <1>3, <1>4, <1>5, <1>6, <1>7, <1>8, <1>9, <1>10, <1>11, <1>12, <1>13, <1>14,
     <1>15
  DEF Raw!Next, Raw!Command, Raw!Reader

LEMMA RawRested == ASSUME RawInvariant, UNCHANGED rawVars PROVE RawInvariant'
  BY DEF rawVars, RawInvariant, Raw!TypeOK, DrawnOnce, ReaderDone, CommandStage, Reviewed,
         Raw!BodyInTime, Raw!ReplayHonest, Raw!Cancelled, Raw!Precedes

LEMMA AlwaysReviewed == CommandsSpec => []RawInvariant
<1>1. RawInvariant /\ [CommandsNext]_all => RawInvariant'
  BY RawRestsElsewhere, RawKept, RawRested
<1> QED  BY RawBegins, <1>1, PTL DEF CommandsSpec

\* The body of a raw request came in time, what its error says of a replay is so, and
\* only what is allowed is sent.
THEOREM RawRequestsAreHonest == CommandsSpec => []RawInv
<1>1. RawInvariant => RawInv
  BY DEF RawInvariant, RawInv, Reviewed, Raw!OnlyAllowedSent, Raw!RefusedBeforeBody,
         Raw!RefusedBeforeSending, Raw!ScanRefused, Raw!PreflightRefused, Raw!RefusedMutation,
         Raw!Malformed, Raw!TypeOK, Raw!Request
<1> QED  BY <1>1, AlwaysReviewed, PTL

-------------------------------------------------------------------------------
(***************************************************************************)
(* How things stand (Diagnostics).                                         *)
(***************************************************************************)
\* Which checks have a result at each control point of doctor.
ChecksDone ==
  CASE at = "start" -> {}
    [] at = "permissions" -> {"load"}
    [] at = "target" -> {"load", "permissions"}
    [] at = "services" -> {"load", "permissions", "target"}
    [] at \in {"manager", "status"} -> {"load", "permissions", "target", "services"}
    [] at = "practices" -> {"load", "permissions", "target", "services", "auth"}
    [] at \in {"skip", "online"} ->
         {"load", "permissions", "target", "services", "auth", "practices"}
    [] at \in {"report", "emit"} ->
         {"load", "permissions", "target", "services", "auth", "practices"}
           \cup IF invocation.online THEN {"read"} ELSE {}

\* The first error is kept, and there is one exactly if a check has failed.
Recorded ==
  /\ cause = IF failed = <<>> THEN Diagnosis!NoError ELSE Head(failed)
  /\ (\E name \in DOMAIN checks : checks[name] = "fail") <=> failed # <<>>

\* doctor: what was found until it reports.
DoctorSoFar ==
  /\ at \in {"start", "permissions", "target", "services", "manager", "status", "practices",
             "skip", "online", "report", "emit"}
  /\ DOMAIN checks = ChecksDone
  /\ "target" \in DOMAIN checks => checks["target"] = "pass"
  /\ at \in {"status", "online"} => manager = "ready"
  /\ at = "skip" => manager # "ready"
  /\ manager # "ready" =>
       /\ "auth" \in DOMAIN checks => failed # <<>> /\ checks["auth"] = "fail"
       /\ "read" \in DOMAIN checks => "auth" \in DOMAIN checks /\ checks["read"] = "fail"
       /\ remote = "nothing"
  /\ acquired = "none"
  /\ at \in {"skip", "online"} => invocation.online
  /\ at = "emit" => Diagnosis!Healthy
  /\ "read" \notin DOMAIN checks => remote = "nothing" /\ ~cause.status
  /\ "read" \in DOMAIN checks /\ checks["read"] = "pass" => remote = "answered"
  /\ cause.status => checks["read"] = "fail" /\ remote = "answered"
  /\ ~shown

\* The other commands: what is asked for, and how a token was acquired.
AuthSoFar ==
  /\ at \in {"start", "manager", "status", "warn", "online", "acquire", "acquired", "lease",
             "emit"}
  /\ at = "warn" => Diagnosis!Is("status")
  /\ at \in {"acquire", "acquired", "lease"} => Diagnosis!Is("token")
  /\ at \in {"start", "manager"} => manager = "none"
  /\ at \in {"status", "warn", "online", "acquire"} => manager = "ready"
  /\ Diagnosis!Is("token") /\ at # "start" => Diagnosis!Consented
  /\ Diagnosis!Is("token") /\ at \in {"acquired", "lease", "emit"} =>
       /\ manager = "ready"
       /\ remote = IF acquired = "held" THEN "nothing" ELSE "answered"
  /\ at \notin {"acquired", "lease", "emit"} => remote = "nothing"
  /\ ~shown

DiagnosisInvariant ==
  /\ Diagnosis!TypeOK /\ Recorded
  /\ at # "done" =>
       /\ verdict = Diagnosis!NoVerdict
       /\ Diagnosis!Is("doctor") => DoctorSoFar
       /\ ~Diagnosis!Is("doctor") => AuthSoFar
  /\ ~Diagnosis!Is("doctor") => DOMAIN checks = {}
  /\ Diagnosis!Is("status") => remote = "nothing"
  /\ Diagnosis!DiagnosisHolds

LEMMA DiagnosisElsewhere ==
  ASSUME [CommandsNext]_all
  PROVE  Diagnosis!Next \/ UNCHANGED diagnosisVars
  BY DEF CommandsNext, all, InScan, InControl, InRaw, InStream, InRoute, InTarget, InLease,
         InDiagnosis

LEMMA DiagnosisBegins == CommandsInit => DiagnosisInvariant
<1>1. CommandsInit => Diagnosis!Init
  BY DEF CommandsInit
<1>2. ASSUME Diagnosis!Init PROVE DiagnosisInvariant
  <2>1. DOMAIN checks = {} /\ failed = <<>> /\ at = "start" /\ cause = Diagnosis!NoError
    BY <1>2 DEF Diagnosis!Init
  <2>2. Diagnosis!TypeOK
    <3>1. invocation \in Diagnosis!Invocation
      BY <1>2, InvocationsAssumption DEF Diagnosis!Init
    <3>2. failed \in Seq(Diagnosis!Error)
      BY <2>1
    <3> QED  BY <1>2, <2>1, <3>1, <3>2 DEF Diagnosis!Init, Diagnosis!TypeOK
  <2>3. Recorded
    BY <2>1 DEF Recorded
  <2>4. ChecksDone = {} /\ ~cause.status
    BY <2>1 DEF ChecksDone, Diagnosis!NoError
  <2>5. DoctorSoFar /\ AuthSoFar
    BY <1>2, <2>1, <2>4 DEF Diagnosis!Init, DoctorSoFar, AuthSoFar
  <2>6. Diagnosis!DiagnosisHolds
    BY <1>2, <2>1
    DEF Diagnosis!Init, Diagnosis!DiagnosisHolds, Diagnosis!HealthProven,
        Diagnosis!FirstFailureReported, Diagnosis!NothingFabricated,
        Diagnosis!TokenShownAsAsked, Diagnosis!NoVerdict
  <2> QED  BY <1>2, <2>1, <2>2, <2>3, <2>5, <2>6 DEF Diagnosis!Init, DiagnosisInvariant
<1> QED  BY <1>1, <1>2

LEMMA NoErrorIsNone == Diagnosis!NoError \notin Diagnosis!Error
<1> SUFFICES ASSUME Diagnosis!NoError \in Diagnosis!Error PROVE FALSE
  OBVIOUS
<1>1. Diagnosis!NoError.category \in {"config", "safety", "auth", "network", "upstream",
                                     "canceled", "timeout", "internal"}
  BY DEF Diagnosis!Error
<1> QED  BY <1>1 DEF Diagnosis!NoError

\* A check that fails is one more error, and the first stays the cause.
LEMMA Failing ==
  ASSUME DiagnosisInvariant, NEW name \in Diagnosis!CheckNames, NEW error \in Diagnosis!Error,
         Diagnosis!FailsWith(name, error)
  PROVE  /\ Recorded'
         /\ failed' \in Seq(Diagnosis!Error) /\ failed' # <<>>
         /\ cause' \in Diagnosis!Error /\ cause' = Head(failed')
         /\ cause' = IF cause = Diagnosis!NoError THEN error ELSE cause
         /\ DOMAIN checks' = DOMAIN checks \cup {name}
         /\ checks'[name] = "fail"
         /\ \A n \in DOMAIN checks : n # name => checks'[n] = checks[n]
         /\ \A n \in DOMAIN checks' : checks'[n] \in Diagnosis!Results
<1>1. /\ failed \in Seq(Diagnosis!Error)
      /\ failed' = Append(failed, error)
      /\ cause' = IF cause = Diagnosis!NoError THEN error ELSE cause
      /\ cause = IF failed = <<>> THEN Diagnosis!NoError ELSE Head(failed)
  BY DEF DiagnosisInvariant, Diagnosis!TypeOK, Recorded, Diagnosis!FailsWith
<1>2. failed # <<>> => Head(failed) \in Diagnosis!Error /\ Head(failed) # Diagnosis!NoError
  BY <1>1, NoErrorIsNone
<1>3. failed' \in Seq(Diagnosis!Error) /\ failed' # <<>>
      /\ Head(failed') = IF failed = <<>> THEN error ELSE Head(failed)
  BY <1>1
<1>4. cause' = Head(failed') /\ cause' \in Diagnosis!Error
  BY <1>1, <1>2, <1>3
<1>5. checks' = [n \in DOMAIN checks \cup {name} |-> IF n = name THEN "fail" ELSE checks[n]]
  BY DEF Diagnosis!FailsWith, Diagnosis!Result
<1>6. /\ DOMAIN checks' = DOMAIN checks \cup {name}
      /\ checks'[name] = "fail"
      /\ \A n \in DOMAIN checks : n # name => checks'[n] = checks[n]
      /\ \A n \in DOMAIN checks' : checks'[n] \in Diagnosis!Results
  BY <1>5 DEF DiagnosisInvariant, Diagnosis!TypeOK, Diagnosis!Results
<1>7. Recorded'
  BY <1>3, <1>4, <1>6 DEF Recorded
<1> QED  BY <1>1, <1>3, <1>4, <1>6, <1>7

\* One that does not, or that fails for an error already recorded, is no error.
LEMMA Passing ==
  ASSUME DiagnosisInvariant, NEW name \in Diagnosis!CheckNames, name \notin DOMAIN checks,
         NEW found \in Diagnosis!Results, found = "fail" => failed # <<>>,
         Diagnosis!Passes(name, found)
  PROVE  /\ Recorded' /\ UNCHANGED <<failed, cause>>
         /\ DOMAIN checks' = DOMAIN checks \cup {name}
         /\ checks'[name] = found
         /\ \A n \in DOMAIN checks : checks'[n] = checks[n]
         /\ \A n \in DOMAIN checks' : checks'[n] \in Diagnosis!Results
<1>1. /\ checks' = [n \in DOMAIN checks \cup {name} |-> IF n = name THEN found ELSE checks[n]]
      /\ UNCHANGED <<failed, cause>>
  BY DEF Diagnosis!Passes, Diagnosis!Result
<1>2. /\ DOMAIN checks' = DOMAIN checks \cup {name}
      /\ checks'[name] = found
      /\ \A n \in DOMAIN checks : checks'[n] = checks[n]
      /\ \A n \in DOMAIN checks' : checks'[n] \in Diagnosis!Results
  BY <1>1 DEF DiagnosisInvariant, Diagnosis!TypeOK, Diagnosis!Results
<1>3. Recorded'
  BY <1>1, <1>2 DEF Recorded, DiagnosisInvariant, Diagnosis!Results
<1> QED  BY <1>1, <1>2, <1>3

\* What stays as it is while doctor goes on.
DoctorAt(label) == at = label /\ Diagnosis!Is("doctor") /\ DoctorSoFar

ChecksTyped ==
  /\ DOMAIN checks \subseteq Diagnosis!CheckNames
  /\ \A n \in DOMAIN checks : checks[n] \in Diagnosis!Results
  /\ failed \in Seq(Diagnosis!Error) /\ cause \in Diagnosis!Error \cup {Diagnosis!NoError}

\* doctor goes on.
LEMMA DoctorGoesOn ==
  ASSUME DiagnosisInvariant, Diagnosis!Is("doctor"), at # "done",
         UNCHANGED <<invocation, cached, canceled, late, acquired, shown, verdict>>,
         manager' \in {"none", "failed", "ready"},
         remote' \in {"nothing", "sent", "answered"},
         Recorded', ChecksTyped', DoctorSoFar'
  PROVE  DiagnosisInvariant'
<1>1. Diagnosis!TypeOK'
  BY DEF DiagnosisInvariant, Diagnosis!TypeOK, ChecksTyped
<1>2. /\ DOMAIN checks' = ChecksDone' /\ invocation.command = "doctor"
      /\ verdict' = Diagnosis!NoVerdict /\ ~shown'
  BY DEF DoctorSoFar, Diagnosis!Is, DiagnosisInvariant
<1>3. /\ {"services", "auth", "practices", "read"} \cap ChecksDone' # {} =>
           "target" \in ChecksDone'
      /\ "read" \in ChecksDone' => invocation'.online
  BY DEF ChecksDone, DoctorSoFar
<1>4. Diagnosis!NothingFabricated'
  <2>1. failed' # <<>> => cause' # Diagnosis!NoError
    BY NoErrorIsNone DEF Recorded, ChecksTyped
  <2> QED  BY <1>2, <1>3, <2>1 DEF DoctorSoFar, Diagnosis!NothingFabricated, Diagnosis!Is
<1>5. /\ Diagnosis!HealthProven' /\ Diagnosis!FirstFailureReported'
      /\ Diagnosis!TokenShownAsAsked'
  BY <1>2
  DEF Diagnosis!HealthProven, Diagnosis!FirstFailureReported, Diagnosis!TokenShownAsAsked,
      Diagnosis!NoVerdict
<1>6. (Diagnosis!Is("doctor") /\ ~Diagnosis!Is("status"))'
  BY <1>2 DEF Diagnosis!Is
<1> QED
  BY <1>1, <1>2, <1>4, <1>5, <1>6 DEF DiagnosisInvariant, Diagnosis!DiagnosisHolds

LEMMA DoctorEnds ==
  ASSUME DiagnosisInvariant, Diagnosis!Is("doctor"), at # "done",
         UNCHANGED <<invocation, cached, canceled, late, manager, remote, acquired, shown>>,
         Recorded', ChecksTyped', Diagnosis!Unhealthy(cause'), Diagnosis!NothingFabricated',
         cause'.status => checks'["read"] = "fail" /\ remote = "answered"
  PROVE  DiagnosisInvariant'
<1>1. Diagnosis!TypeOK'
  BY DEF DiagnosisInvariant, Diagnosis!TypeOK, ChecksTyped
<1>2. /\ invocation' = invocation /\ invocation.command = "doctor" /\ at' = "done"
      /\ ~shown'
      /\ verdict'.kind = "unhealthy" /\ verdict'.received = "unsaid"
      /\ verdict'.error = IF cause' = Diagnosis!NoError THEN Diagnosis!Err("internal") ELSE cause'
  BY DEF DoctorSoFar, Diagnosis!Is, DiagnosisInvariant, Diagnosis!Unhealthy, Diagnosis!Say
<1>3. failed' # <<>> => cause' # Diagnosis!NoError /\ cause' = Head(failed')
  <2>1. failed' # <<>> => Head(failed') \in Diagnosis!Error
    BY DEF ChecksTyped
  <2> QED  BY <2>1, NoErrorIsNone DEF Recorded
<1>4. verdict'.error.status => checks'["read"] = "fail" /\ remote' = "answered"
  BY <1>2 DEF Diagnosis!Err
<1>5. Diagnosis!FirstFailureReported'
  BY <1>2, <1>3, <1>4 DEF Diagnosis!FirstFailureReported, Recorded
<1>6. Diagnosis!HealthProven' /\ Diagnosis!TokenShownAsAsked'
  BY <1>2 DEF Diagnosis!HealthProven, Diagnosis!TokenShownAsAsked
<1>7. (Diagnosis!Is("doctor") /\ ~Diagnosis!Is("status"))'
  BY <1>2 DEF Diagnosis!Is
<1> QED
  BY <1>1, <1>2, <1>5, <1>6, <1>7 DEF DiagnosisInvariant, Diagnosis!DiagnosisHolds

\* The errors of a check that asks nobody have no status.
Plainly(errors) == errors \subseteq {e \in Diagnosis!Error : ~e.status}

LEMMA ErrorsArePlain ==
  /\ Plainly({Diagnosis!Err("config"), Diagnosis!Err("safety"), Diagnosis!Err("timeout"),
              Diagnosis!Err("internal")})
  /\ Plainly(Diagnosis!Controls) /\ Plainly(Diagnosis!ManagerMayFail)
  /\ Plainly(Diagnosis!StatusErrors)
<1>1. ASSUME NEW category \in {"config", "safety", "auth", "network", "upstream", "canceled",
                              "timeout", "internal"}
      PROVE  Diagnosis!Err(category) \in {e \in Diagnosis!Error : ~e.status}
  BY DEF Diagnosis!Err, Diagnosis!Error
<1>2. Plainly(Diagnosis!Controls)
  BY <1>1 DEF Diagnosis!Controls, Plainly
<1>3. \A e \in Diagnosis!ManagerErrors : e = Diagnosis!Err("auth")
  BY DEF Diagnosis!ManagerErrors
<1>4. \A e \in Diagnosis!StatusErrors : e = Diagnosis!Err("auth") \/ e \in Diagnosis!Controls
  BY DEF Diagnosis!StatusErrors
<1> QED  BY <1>1, <1>2, <1>3, <1>4 DEF Plainly, Diagnosis!ManagerMayFail

LEMMA DoctorKept ==
  ASSUME DiagnosisInvariant, Diagnosis!Doctor
  PROVE  DiagnosisInvariant'
<1> USE DEF Diagnosis!Goto, Diagnosis!Say, Diagnosis!Stays, Diagnosis!NothingSent,
        Diagnosis!Holds, Diagnosis!control, Diagnosis!results
<1>1. /\ manager \in {"none", "failed", "ready"} /\ Diagnosis!Is("doctor") /\ at # "done" /\ DoctorSoFar /\ ChecksTyped /\ Recorded
      /\ verdict = Diagnosis!NoVerdict
      /\ remote \in {"nothing", "sent", "answered"}
  BY DEF Diagnosis!Doctor, Diagnosis!DoctorLoad, Diagnosis!DoctorPermissions,
         Diagnosis!DoctorTarget, Diagnosis!DoctorServices, Diagnosis!DoctorManager,
         Diagnosis!DoctorStatus, Diagnosis!DoctorPractices, Diagnosis!DoctorSkip,
         Diagnosis!DoctorOnline, Diagnosis!DoctorReport, DiagnosisInvariant, ChecksTyped,
         Diagnosis!TypeOK
<1>2. CASE Diagnosis!DoctorLoad
  <2>1. at = "start" /\ "load" \in Diagnosis!CheckNames \ DOMAIN checks
    BY <1>1, <1>2 DEF Diagnosis!DoctorLoad, DoctorSoFar, ChecksDone, Diagnosis!CheckNames
  <2>2. ASSUME NEW found \in {"pass"}, Diagnosis!Passes("load", found),
               Diagnosis!Goto("permissions"),
               Diagnosis!Stays, Diagnosis!NothingSent
        PROVE  DiagnosisInvariant'
    <3>1. /\ Recorded' /\ ChecksTyped' /\ UNCHANGED <<failed, cause>>
          /\ DOMAIN checks' = DOMAIN checks \cup {"load"} /\ checks'["load"] = found
          /\ \A n \in DOMAIN checks : checks'[n] = checks[n]
      BY <1>1, <2>1, <2>2, Passing DEF ChecksTyped, Diagnosis!Results
    <3>2. DoctorSoFar'
      BY <1>1, <2>1, <2>2, <3>1 DEF DoctorSoFar, ChecksDone
    <3> QED  BY <1>1, <2>1, <2>2, <3>1, <3>2, DoctorGoesOn
  <2>3. ASSUME NEW error \in {Diagnosis!Err("config"), Diagnosis!Err("safety")},
               Diagnosis!FailsWith("load", error), Diagnosis!Unhealthy(error),
               Diagnosis!Stays, Diagnosis!NothingSent
        PROVE  DiagnosisInvariant'
    <3>1. error \in Diagnosis!Error /\ ~error.status
      BY <2>3, ErrorsArePlain DEF Plainly
    <3>2. /\ Recorded' /\ ChecksTyped' /\ DOMAIN checks' = {"load"} /\ cause' = error
      BY <1>1, <2>1, <2>3, <3>1, Failing DEF ChecksTyped, Recorded, DoctorSoFar, ChecksDone
    <3>3. Diagnosis!NothingFabricated'
      BY <1>1, <2>1, <2>3, <3>2
      DEF Diagnosis!NothingFabricated, DoctorSoFar, ChecksDone, Diagnosis!Is
    <3> QED  BY <1>1, <2>1, <2>3, <3>1, <3>2, <3>3, DoctorEnds
  <2> QED  BY <1>1, <1>2, <2>1, <2>2, <2>3 DEF Diagnosis!DoctorLoad
<1>3. CASE Diagnosis!DoctorPermissions
  <2>1. at = "permissions" /\ "permissions" \in Diagnosis!CheckNames \ DOMAIN checks
    BY <1>1, <1>3 DEF Diagnosis!DoctorPermissions, DoctorSoFar, ChecksDone, Diagnosis!CheckNames
  <2>2. ASSUME NEW found \in {"pass", "warn"}, Diagnosis!Passes("permissions", found),
               Diagnosis!Goto("target"),
               Diagnosis!Stays, Diagnosis!NothingSent
        PROVE  DiagnosisInvariant'
    <3>1. /\ Recorded' /\ ChecksTyped' /\ UNCHANGED <<failed, cause>>
          /\ DOMAIN checks' = DOMAIN checks \cup {"permissions"} /\ checks'["permissions"] = found
          /\ \A n \in DOMAIN checks : checks'[n] = checks[n]
      BY <1>1, <2>1, <2>2, Passing DEF ChecksTyped, Diagnosis!Results
    <3>2. DoctorSoFar'
      BY <1>1, <2>1, <2>2, <3>1 DEF DoctorSoFar, ChecksDone
    <3> QED  BY <1>1, <2>1, <2>2, <3>1, <3>2, DoctorGoesOn
  <2>3. ASSUME NEW error \in {Diagnosis!Err("safety")},
               Diagnosis!FailsWith("permissions", error), Diagnosis!Goto("target"),
               Diagnosis!Stays, Diagnosis!NothingSent
        PROVE  DiagnosisInvariant'
    <3>1. error \in Diagnosis!Error /\ ~error.status
      BY <2>3, ErrorsArePlain DEF Plainly
    <3>2. /\ Recorded' /\ ChecksTyped' /\ failed' # <<>>
          /\ cause' = IF cause = Diagnosis!NoError THEN error ELSE cause
          /\ DOMAIN checks' = DOMAIN checks \cup {"permissions"}
          /\ checks'["permissions"] = "fail"
          /\ \A n \in DOMAIN checks : n # "permissions" => checks'[n] = checks[n]
      BY <1>1, <2>1, <2>3, <3>1, Failing DEF ChecksTyped
    <3>3. DoctorSoFar'
      BY <1>1, <2>1, <2>3, <3>1, <3>2 DEF DoctorSoFar, ChecksDone
    <3> QED  BY <1>1, <2>1, <2>3, <3>2, <3>3, DoctorGoesOn
  <2> QED  BY <1>1, <1>3, <2>1, <2>2, <2>3 DEF Diagnosis!DoctorPermissions
<1>4. CASE Diagnosis!DoctorTarget
  <2>1. at = "target" /\ "target" \in Diagnosis!CheckNames \ DOMAIN checks
    BY <1>1, <1>4 DEF Diagnosis!DoctorTarget, DoctorSoFar, ChecksDone, Diagnosis!CheckNames
  <2>2. ASSUME NEW found \in {"pass"}, Diagnosis!Passes("target", found),
               Diagnosis!Goto("services"),
               Diagnosis!Stays, Diagnosis!NothingSent
        PROVE  DiagnosisInvariant'
    <3>1. /\ Recorded' /\ ChecksTyped' /\ UNCHANGED <<failed, cause>>
          /\ DOMAIN checks' = DOMAIN checks \cup {"target"} /\ checks'["target"] = found
          /\ \A n \in DOMAIN checks : checks'[n] = checks[n]
      BY <1>1, <2>1, <2>2, Passing DEF ChecksTyped, Diagnosis!Results
    <3>2. DoctorSoFar'
      BY <1>1, <2>1, <2>2, <3>1 DEF DoctorSoFar, ChecksDone
    <3> QED  BY <1>1, <2>1, <2>2, <3>1, <3>2, DoctorGoesOn
  <2>3. ASSUME Diagnosis!FailsWith("target", Diagnosis!Err("config")),
               Diagnosis!Unhealthy(IF cause = Diagnosis!NoError THEN Diagnosis!Err("config")
                                   ELSE cause),
               Diagnosis!Stays, Diagnosis!NothingSent
        PROVE  DiagnosisInvariant'
    <3>1. Diagnosis!Err("config") \in Diagnosis!Error /\ ~Diagnosis!Err("config").status
      BY ErrorsArePlain DEF Plainly
    <3>2. /\ Recorded' /\ ChecksTyped'
          /\ DOMAIN checks' = {"load", "permissions", "target"}
          /\ cause' = IF cause = Diagnosis!NoError THEN Diagnosis!Err("config") ELSE cause
      <4>1. /\ Recorded' /\ failed' \in Seq(Diagnosis!Error) /\ cause' \in Diagnosis!Error
            /\ cause' = IF cause = Diagnosis!NoError THEN Diagnosis!Err("config") ELSE cause
            /\ DOMAIN checks' = DOMAIN checks \cup {"target"}
            /\ \A n \in DOMAIN checks' : checks'[n] \in Diagnosis!Results
        BY <2>1, <2>3, <3>1, Failing
      <4>2. DOMAIN checks = {"load", "permissions"} /\ DOMAIN checks \subseteq Diagnosis!CheckNames
        BY <1>1, <2>1 DEF DoctorSoFar, ChecksDone, ChecksTyped
      <4> QED  BY <2>1, <4>1, <4>2 DEF ChecksTyped
    <3>3. Diagnosis!NothingFabricated' /\ ~cause'.status
      BY <1>1, <2>1, <2>3, <3>1, <3>2
      DEF Diagnosis!NothingFabricated, DoctorSoFar, ChecksDone, Diagnosis!Is
    <3> QED  BY <1>1, <2>1, <2>3, <3>2, <3>3, DoctorEnds
  <2> QED  BY <1>1, <1>4, <2>1, <2>2, <2>3 DEF Diagnosis!DoctorTarget
<1>5. CASE Diagnosis!DoctorServices
  <2>1. at = "services" /\ "services" \in Diagnosis!CheckNames \ DOMAIN checks
    BY <1>1, <1>5 DEF Diagnosis!DoctorServices, DoctorSoFar, ChecksDone, Diagnosis!CheckNames
  <2>2. ASSUME NEW found \in {"pass", "warn"}, Diagnosis!Passes("services", found),
               Diagnosis!Goto("manager"),
               Diagnosis!Stays, Diagnosis!NothingSent
        PROVE  DiagnosisInvariant'
    <3>1. /\ Recorded' /\ ChecksTyped' /\ UNCHANGED <<failed, cause>>
          /\ DOMAIN checks' = DOMAIN checks \cup {"services"} /\ checks'["services"] = found
          /\ \A n \in DOMAIN checks : checks'[n] = checks[n]
      BY <1>1, <2>1, <2>2, Passing DEF ChecksTyped, Diagnosis!Results
    <3>2. DoctorSoFar'
      BY <1>1, <2>1, <2>2, <3>1 DEF DoctorSoFar, ChecksDone
    <3> QED  BY <1>1, <2>1, <2>2, <3>1, <3>2, DoctorGoesOn
  <2> QED  BY <1>1, <1>5, <2>1, <2>2 DEF Diagnosis!DoctorServices
<1>6. CASE Diagnosis!DoctorManager
  <2>1. at = "manager" /\ "auth" \in Diagnosis!CheckNames \ DOMAIN checks
    BY <1>1, <1>6 DEF Diagnosis!DoctorManager, DoctorSoFar, ChecksDone, Diagnosis!CheckNames
  <2>2. ASSUME NEW error \in Diagnosis!ManagerMayFail, Diagnosis!FailsWith("auth", error),
               Diagnosis!Goto("practices"), manager' = "failed",
               Diagnosis!Holds, Diagnosis!NothingSent
        PROVE  DiagnosisInvariant'
    <3>1. error \in Diagnosis!Error /\ ~error.status
      BY <2>2, ErrorsArePlain DEF Plainly
    <3>2. /\ Recorded' /\ ChecksTyped' /\ failed' # <<>>
          /\ cause' = IF cause = Diagnosis!NoError THEN error ELSE cause
          /\ DOMAIN checks' = DOMAIN checks \cup {"auth"} /\ checks'["auth"] = "fail"
          /\ \A n \in DOMAIN checks : n # "auth" => checks'[n] = checks[n]
      BY <1>1, <2>1, <2>2, <3>1, Failing DEF ChecksTyped
    <3>3. DoctorSoFar'
      BY <1>1, <2>1, <2>2, <3>1, <3>2 DEF DoctorSoFar, ChecksDone
    <3> QED  BY <1>1, <2>1, <2>2, <3>2, <3>3, DoctorGoesOn
  <2>3. ASSUME Diagnosis!Goto("status"), UNCHANGED Diagnosis!results, manager' = "ready",
               Diagnosis!Holds, Diagnosis!NothingSent
        PROVE  DiagnosisInvariant'
    <3>1. DoctorSoFar' /\ Recorded' /\ ChecksTyped'
      BY <1>1, <2>1, <2>3 DEF DoctorSoFar, ChecksDone, Recorded, ChecksTyped
    <3> QED  BY <1>1, <2>1, <2>3, <3>1, DoctorGoesOn
  <2> QED  BY <1>1, <1>6, <2>1, <2>2, <2>3 DEF Diagnosis!DoctorManager
<1>7. CASE Diagnosis!DoctorStatus
  <2>1. at = "status" /\ "auth" \in Diagnosis!CheckNames \ DOMAIN checks
    <3>1. at = "status"
      BY <1>7, Zenon DEF Diagnosis!DoctorStatus
    <3> QED  BY <1>1, <3>1 DEF DoctorSoFar, ChecksDone, Diagnosis!CheckNames
  <2>2. ASSUME NEW found \in {"pass", "warn"}, Diagnosis!Passes("auth", found),
               Diagnosis!Goto("practices"),
               Diagnosis!Stays, Diagnosis!NothingSent
        PROVE  DiagnosisInvariant'
    <3>1. /\ Recorded' /\ ChecksTyped' /\ UNCHANGED <<failed, cause>>
          /\ DOMAIN checks' = DOMAIN checks \cup {"auth"} /\ checks'["auth"] = found
          /\ \A n \in DOMAIN checks : checks'[n] = checks[n]
      BY <1>1, <2>1, <2>2, Passing DEF ChecksTyped, Diagnosis!Results
    <3>2. DoctorSoFar'
      BY <1>1, <2>1, <2>2, <3>1 DEF DoctorSoFar, ChecksDone
    <3> QED  BY <1>1, <2>1, <2>2, <3>1, <3>2, DoctorGoesOn
  <2>3. ASSUME NEW error \in Diagnosis!StatusErrors, Diagnosis!FailsWith("auth", error),
               Diagnosis!Goto("practices"),
               Diagnosis!Stays, Diagnosis!NothingSent
        PROVE  DiagnosisInvariant'
    <3>1. error \in Diagnosis!Error /\ ~error.status
      BY <2>3, ErrorsArePlain DEF Plainly
    <3>2. /\ Recorded' /\ ChecksTyped' /\ failed' # <<>>
          /\ cause' = IF cause = Diagnosis!NoError THEN error ELSE cause
          /\ DOMAIN checks' = DOMAIN checks \cup {"auth"} /\ checks'["auth"] = "fail"
          /\ \A n \in DOMAIN checks : n # "auth" => checks'[n] = checks[n]
      BY <1>1, <2>1, <2>3, <3>1, Failing DEF ChecksTyped
    <3>3. DoctorSoFar'
      BY <1>1, <2>1, <2>3, <3>1, <3>2 DEF DoctorSoFar, ChecksDone
    <3> QED  BY <1>1, <2>1, <2>3, <3>2, <3>3, DoctorGoesOn
  <2> QED  BY <1>1, <1>7, <2>1, <2>2, <2>3 DEF Diagnosis!DoctorStatus
<1>8. CASE Diagnosis!DoctorPractices
  <2> DEFINE next == IF ~invocation.online THEN "report"
                     ELSE IF manager = "ready" THEN "online" ELSE "skip"
  <2>1. /\ at = "practices"
        /\ "practices" \in Diagnosis!CheckNames \ DOMAIN checks
    <3>1. at = "practices"
      BY <1>8, Zenon DEF Diagnosis!DoctorPractices
    <3>2. ChecksDone = {"load", "permissions", "target", "services", "auth"}
      BY <3>1 DEF ChecksDone
    <3>3. DOMAIN checks = ChecksDone /\ "practices" \in Diagnosis!CheckNames
      BY <1>1 DEF DoctorSoFar, Diagnosis!CheckNames
    <3> QED  BY <3>1, <3>2, <3>3
  <2>2. ASSUME NEW found \in {"pass", "warn"}, Diagnosis!Passes("practices", found),
               Diagnosis!Goto(next), Diagnosis!Stays, Diagnosis!NothingSent
        PROVE  DiagnosisInvariant'
    <3>1. /\ Recorded' /\ ChecksTyped' /\ UNCHANGED <<failed, cause>>
          /\ DOMAIN checks' = DOMAIN checks \cup {"practices"}
          /\ \A n \in DOMAIN checks : checks'[n] = checks[n]
      BY <1>1, <2>1, <2>2, Passing DEF ChecksTyped, Diagnosis!Results
    <3>2. DoctorSoFar'
      BY <1>1, <2>1, <2>2, <3>1 DEF DoctorSoFar, ChecksDone
    <3> QED  BY <1>1, <2>1, <2>2, <3>1, <3>2, DoctorGoesOn
  <2>3. ASSUME Diagnosis!FailsWith("practices", Diagnosis!Err("internal")),
               Diagnosis!Goto(next), Diagnosis!Stays, Diagnosis!NothingSent
        PROVE  DiagnosisInvariant'
    <3>1. Diagnosis!Err("internal") \in Diagnosis!Error /\ ~Diagnosis!Err("internal").status
      BY ErrorsArePlain DEF Plainly
    <3>2. /\ Recorded' /\ ChecksTyped' /\ failed' # <<>>
          /\ cause' = IF cause = Diagnosis!NoError THEN Diagnosis!Err("internal") ELSE cause
          /\ DOMAIN checks' = DOMAIN checks \cup {"practices"}
          /\ \A n \in DOMAIN checks : n # "practices" => checks'[n] = checks[n]
      BY <1>1, <2>1, <2>3, <3>1, Failing DEF ChecksTyped
    <3>3. DoctorSoFar'
      BY <1>1, <2>1, <2>3, <3>1, <3>2 DEF DoctorSoFar, ChecksDone
    <3> QED  BY <1>1, <2>1, <2>3, <3>2, <3>3, DoctorGoesOn
  <2> QED  BY <1>1, <1>8, <2>1, <2>2, <2>3 DEF Diagnosis!DoctorPractices
<1>9. CASE Diagnosis!DoctorSkip
  <2>1. at = "skip" /\ failed # <<>> /\ "read" \in Diagnosis!CheckNames \ DOMAIN checks
    BY <1>1, <1>9 DEF Diagnosis!DoctorSkip, DoctorSoFar, ChecksDone, Diagnosis!CheckNames
  <2>2. /\ Diagnosis!Passes("read", "fail") /\ at' = "report"
        /\ UNCHANGED <<invocation, cached, canceled, late, manager, remote, acquired, shown, verdict>>
    BY <1>9 DEF Diagnosis!DoctorSkip
  <2>3. /\ Recorded' /\ ChecksTyped' /\ UNCHANGED <<failed, cause>>
        /\ DOMAIN checks' = DOMAIN checks \cup {"read"} /\ checks'["read"] = "fail"
        /\ \A n \in DOMAIN checks : checks'[n] = checks[n]
    BY <1>1, <2>1, <2>2, Passing DEF ChecksTyped, Diagnosis!Results
  <2>4. DoctorSoFar'
    BY <1>1, <2>1, <2>2, <2>3 DEF DoctorSoFar, ChecksDone
  <2> QED  BY <1>1, <2>2, <2>3, <2>4, DoctorGoesOn
<1>10. CASE Diagnosis!DoctorOnline
  <2>1. at = "online" /\ "read" \in Diagnosis!CheckNames \ DOMAIN checks
    <3>1. at = "online"
      BY <1>10, Zenon DEF Diagnosis!DoctorOnline
    <3> QED  BY <1>1, <3>1 DEF DoctorSoFar, ChecksDone, Diagnosis!CheckNames
  <2>2. CASE Diagnosis!Answered /\ Diagnosis!Passes("read", "pass")
    <3>1. /\ at' = "report" /\ remote' = "answered"
          /\ UNCHANGED <<invocation, cached, canceled, late, manager, acquired, shown, verdict>>
      BY <1>10, <2>2 DEF Diagnosis!DoctorOnline, Diagnosis!Answered
    <3>2. /\ Recorded' /\ ChecksTyped' /\ UNCHANGED <<failed, cause>>
          /\ DOMAIN checks' = DOMAIN checks \cup {"read"} /\ checks'["read"] = "pass"
          /\ \A n \in DOMAIN checks : checks'[n] = checks[n]
      BY <1>1, <2>1, <2>2, Passing DEF ChecksTyped, Diagnosis!Results
    <3>3. DoctorSoFar'
      BY <1>1, <2>1, <3>1, <3>2 DEF DoctorSoFar, ChecksDone
    <3> QED  BY <1>1, <3>1, <3>2, <3>3, DoctorGoesOn
  <2>3. ASSUME NEW error \in Diagnosis!SearchErrors, Diagnosis!FailsWith("read", error),
               /\ remote' \in {"nothing", "sent", "answered"}
               /\ error.status => remote' = "answered"
               /\ UNCHANGED <<acquired, shown>>,
               Diagnosis!Goto("report"), Diagnosis!Stays
        PROVE  DiagnosisInvariant'
    <3>1. error \in Diagnosis!Error
      <4>1. error \in Diagnosis!Controls \/ error = Diagnosis!Err("network")
              \/ error = [category |-> "upstream", status |-> TRUE]
        BY <2>3 DEF Diagnosis!SearchErrors
      <4>2. /\ Diagnosis!Err("network") \in Diagnosis!Error
            /\ [category |-> "upstream", status |-> TRUE] \in Diagnosis!Error
        BY DEF Diagnosis!Error, Diagnosis!Err
      <4> QED  BY <4>1, <4>2, ErrorsArePlain DEF Plainly
    <3>2. /\ Recorded' /\ ChecksTyped' /\ failed' # <<>>
          /\ cause' = IF cause = Diagnosis!NoError THEN error ELSE cause
          /\ DOMAIN checks' = DOMAIN checks \cup {"read"} /\ checks'["read"] = "fail"
          /\ \A n \in DOMAIN checks : n # "read" => checks'[n] = checks[n]
      BY <1>1, <2>1, <2>3, <3>1, Failing DEF ChecksTyped
    <3>3. DoctorSoFar'
      BY <1>1, <2>1, <2>3, <3>2 DEF DoctorSoFar, ChecksDone
    <3> QED  BY <1>1, <2>1, <2>3, <3>2, <3>3, DoctorGoesOn
  <2>4. Diagnosis!Err("timeout") \in Diagnosis!SearchErrors \/ ~late
    BY DEF Diagnosis!SearchErrors, Diagnosis!Controls
  <2>5. ~Diagnosis!Err("timeout").status
    BY DEF Diagnosis!Err
  <2>6. CASE /\ late /\ Diagnosis!FailsWith("read", Diagnosis!Err("timeout"))
             /\ Diagnosis!NothingSent
    BY <1>1, <1>10, <2>3, <2>4, <2>5, <2>6 DEF Diagnosis!DoctorOnline
  <2>7. ASSUME NEW error \in Diagnosis!SearchErrors, Diagnosis!NotAnswered(error),
               Diagnosis!FailsWith("read", error)
        PROVE  DiagnosisInvariant'
    <3>1. /\ remote' \in {"nothing", "sent", "answered"}
          /\ error.status => remote' = "answered"
          /\ UNCHANGED <<acquired, shown>>
      BY <2>7 DEF Diagnosis!NotAnswered
    <3>2. Diagnosis!Goto("report") /\ Diagnosis!Stays
      BY <1>10 DEF Diagnosis!DoctorOnline
    <3> QED  BY <2>3, <2>7, <3>1, <3>2
  <2> HIDE DEF Diagnosis!Goto, Diagnosis!Stays, Diagnosis!NothingSent
  <2> QED  BY <1>10, <2>2, <2>6, <2>7 DEF Diagnosis!DoctorOnline
<1>11. CASE Diagnosis!DoctorReport
  <2>1. /\ at = "report" /\ UNCHANGED <<checks, failed, cause>>
        /\ UNCHANGED <<invocation, cached, canceled, late, manager, remote, acquired, shown>>
    BY <1>11 DEF Diagnosis!DoctorReport
  <2>2. Recorded' /\ ChecksTyped'
    BY <1>1, <2>1 DEF Recorded, ChecksTyped
  <2>3. CASE Diagnosis!Healthy /\ Diagnosis!Goto("emit")
    <3>1. DoctorSoFar'
      BY <1>1, <2>1, <2>3 DEF DoctorSoFar, ChecksDone, Diagnosis!Healthy
    <3> QED  BY <1>1, <2>1, <2>2, <2>3, <3>1, DoctorGoesOn
  <2>4. CASE Diagnosis!Unhealthy(cause)
    <3>1. Diagnosis!NothingFabricated'
      BY <2>1 DEF DiagnosisInvariant, Diagnosis!DiagnosisHolds, Diagnosis!NothingFabricated,
                  Diagnosis!Is
    <3>2. cause.status => checks["read"] = "fail" /\ remote = "answered"
      BY <1>1 DEF DoctorSoFar
    <3> QED  BY <1>1, <2>1, <2>2, <2>4, <3>1, <3>2, DoctorEnds
  <2> QED  BY <1>11, <2>3, <2>4 DEF Diagnosis!DoctorReport
<1> QED
  BY <1>2, <1>3, <1>4, <1>5, <1>6, <1>7, <1>8, <1>9, <1>10, <1>11 DEF Diagnosis!Doctor

\* The other commands have no checks, and their errors tell what was acquired.
AuthUnchanged == UNCHANGED <<invocation, cached, canceled, late, checks, failed, cause>>

AuthTyped ==
  /\ remote \in {"nothing", "sent", "answered"}
  /\ acquired \in {"none", "held", "endpoint", "process"} /\ shown \in BOOLEAN
  /\ manager \in {"none", "failed", "ready"}
  /\ manager # "ready" => remote = "nothing" /\ acquired = "none" /\ ~shown
  /\ Diagnosis!Is("status") => remote = "nothing"

LEMMA AuthGoesOn ==
  ASSUME DiagnosisInvariant, ~Diagnosis!Is("doctor"), at # "done",
         AuthUnchanged, AuthTyped', AuthSoFar', UNCHANGED verdict
  PROVE  DiagnosisInvariant'
<1>1. Diagnosis!TypeOK' /\ Recorded'
  BY DEF DiagnosisInvariant, Diagnosis!TypeOK, Recorded, AuthUnchanged, AuthTyped
<1>2. /\ verdict' = Diagnosis!NoVerdict /\ DOMAIN checks' = {} /\ ~shown'
      /\ ~Diagnosis!Is("doctor")' /\ (Diagnosis!Is("status") => remote = "nothing")'
  BY DEF DiagnosisInvariant, AuthUnchanged, AuthTyped, AuthSoFar, Diagnosis!Is
<1>3. Diagnosis!DiagnosisHolds'
  BY <1>2
  DEF Diagnosis!DiagnosisHolds, Diagnosis!HealthProven, Diagnosis!FirstFailureReported,
      Diagnosis!NothingFabricated, Diagnosis!TokenShownAsAsked, Diagnosis!NoVerdict, AuthTyped
<1> QED  BY <1>1, <1>2, <1>3 DEF DiagnosisInvariant

LEMMA AuthEnds ==
  ASSUME DiagnosisInvariant, ~Diagnosis!Is("doctor"),
         AuthUnchanged, AuthTyped', at' = "done", Diagnosis!TokenShownAsAsked',
         verdict'.kind # "unhealthy"
  PROVE  DiagnosisInvariant'
<1>1. Diagnosis!TypeOK' /\ Recorded'
  BY DEF DiagnosisInvariant, Diagnosis!TypeOK, Recorded, AuthUnchanged, AuthTyped
<1>2. /\ DOMAIN checks' = {}
      /\ ~Diagnosis!Is("doctor")' /\ (Diagnosis!Is("status") => remote = "nothing")'
  BY DEF DiagnosisInvariant, AuthUnchanged, AuthTyped, Diagnosis!Is
<1>3. Diagnosis!DiagnosisHolds'
  BY <1>2
  DEF Diagnosis!DiagnosisHolds, Diagnosis!HealthProven, Diagnosis!FirstFailureReported,
      Diagnosis!NothingFabricated, AuthTyped
<1> QED  BY <1>1, <1>2, <1>3 DEF DiagnosisInvariant

LEMMA AuthKept ==
  ASSUME DiagnosisInvariant, ~Diagnosis!Is("doctor"), at # "done", Diagnosis!Auth
  PROVE  DiagnosisInvariant'
<1> USE DEF Diagnosis!Goto, Diagnosis!Say, Diagnosis!Fails, Diagnosis!Stays,
            Diagnosis!Holds, Diagnosis!NothingSent, Diagnosis!control, Diagnosis!results
<1>1. AuthSoFar /\ AuthTyped /\ ~shown
  BY DEF DiagnosisInvariant, Diagnosis!TypeOK, AuthTyped, AuthSoFar,
         Diagnosis!DiagnosisHolds, Diagnosis!NothingFabricated
<1>2. CASE Diagnosis!Prepare
  <2>1. AuthUnchanged /\ UNCHANGED <<remote, acquired, shown>> /\ AuthTyped' /\ at = "start"
    BY <1>1, <1>2 DEF Diagnosis!Prepare, AuthUnchanged, AuthTyped, Diagnosis!Is
  <2>2. CASE at' = "done"
    <3>1. Diagnosis!TokenShownAsAsked' /\ verdict'.kind # "unhealthy"
      BY <1>1, <1>2, <2>1, <2>2 DEF Diagnosis!Prepare, Diagnosis!TokenShownAsAsked, AuthSoFar
    <3> QED  BY <2>1, <2>2, <3>1, AuthEnds
  <2>3. CASE at' # "done"
    <3>1. AuthSoFar' /\ UNCHANGED verdict
      BY <1>1, <1>2, <2>1, <2>3
      DEF Diagnosis!Prepare, AuthSoFar, Diagnosis!Is, Diagnosis!Consented, AuthUnchanged
    <3> QED  BY <2>1, <3>1, AuthGoesOn
  <2> QED  BY <2>2, <2>3
<1>3. CASE Diagnosis!Manager
  <2>1. AuthUnchanged /\ UNCHANGED <<remote, acquired, shown>> /\ AuthTyped' /\ at = "manager"
    BY <1>1, <1>3 DEF Diagnosis!Manager, AuthUnchanged, AuthTyped, AuthSoFar, Diagnosis!Is
  <2>2. CASE at' = "done"
    <3>1. Diagnosis!TokenShownAsAsked' /\ verdict'.kind # "unhealthy"
      BY <1>1, <1>3, <2>1, <2>2 DEF Diagnosis!Manager, Diagnosis!TokenShownAsAsked, AuthSoFar
    <3> QED  BY <2>1, <2>2, <3>1, AuthEnds
  <2>3. CASE at' # "done"
    <3>1. AuthSoFar' /\ UNCHANGED verdict
      BY <1>1, <1>3, <2>1, <2>3
      DEF Diagnosis!Manager, AuthSoFar, Diagnosis!Is, Diagnosis!Consented, AuthUnchanged
    <3> QED  BY <2>1, <3>1, AuthGoesOn
  <2> QED  BY <2>2, <2>3
<1>4. CASE Diagnosis!Status \/ Diagnosis!StatusWarn
  <2>1. AuthUnchanged /\ UNCHANGED <<remote, acquired, shown>> /\ AuthTyped'
        /\ at \in {"status", "warn"}
    BY <1>1, <1>4 DEF Diagnosis!Status, Diagnosis!StatusWarn, AuthUnchanged, AuthTyped,
                      Diagnosis!Is
  <2>2. CASE at' = "done"
    <3>1. Diagnosis!TokenShownAsAsked' /\ verdict'.kind # "unhealthy"
      <4>1. /\ verdict'.kind = "failed" /\ verdict'.received # "yes" /\ ~shown'
            /\ verdict'.received = "no" => remote' = "nothing"
        BY <1>1, <1>4, <2>1, <2>2 DEF Diagnosis!Status, Diagnosis!StatusWarn, AuthSoFar
      <4> QED  BY <4>1 DEF Diagnosis!TokenShownAsAsked
    <3> QED  BY <2>1, <2>2, <3>1, AuthEnds
  <2>3. CASE at' # "done"
    <3>1. AuthSoFar' /\ UNCHANGED verdict
      BY <1>1, <1>4, <2>1, <2>3
      DEF Diagnosis!Status, Diagnosis!StatusWarn, AuthSoFar, Diagnosis!Is, Diagnosis!Consented,
          AuthUnchanged
    <3> QED  BY <2>1, <3>1, AuthGoesOn
  <2> QED  BY <2>2, <2>3
<1>5. CASE Diagnosis!CheckOnline
  <2>1. AuthUnchanged /\ UNCHANGED <<acquired, shown>> /\ AuthTyped' /\ at = "online"
        /\ Diagnosis!Is("check")
    BY <1>1, <1>5 DEF Diagnosis!CheckOnline, AuthUnchanged, AuthTyped, AuthSoFar, Diagnosis!Is,
                      Diagnosis!Answered, Diagnosis!NotAnswered
  <2>2. CASE at' = "done"
    <3>1. Diagnosis!TokenShownAsAsked' /\ verdict'.kind # "unhealthy"
      <4>1. /\ verdict'.kind = "failed" /\ verdict'.received # "yes" /\ ~shown'
            /\ verdict'.received = "no" => remote' = "nothing"
        BY <1>1, <1>5, <2>1, <2>2 DEF Diagnosis!CheckOnline, AuthSoFar
      <4> QED  BY <4>1 DEF Diagnosis!TokenShownAsAsked
    <3> QED  BY <2>1, <2>2, <3>1, AuthEnds
  <2>3. CASE at' # "done"
    <3>1. AuthSoFar' /\ UNCHANGED verdict
      BY <1>1, <1>5, <2>1, <2>3
      DEF Diagnosis!CheckOnline, AuthSoFar, Diagnosis!Is, Diagnosis!Consented, AuthUnchanged
    <3> QED  BY <2>1, <3>1, AuthGoesOn
  <2> QED  BY <2>2, <2>3
<1>6. CASE Diagnosis!Acquire
  <2>1. AuthUnchanged /\ UNCHANGED shown /\ AuthTyped' /\ at = "acquire"
        /\ Diagnosis!Is("token")
    BY <1>1, <1>6
    DEF Diagnosis!Acquire, AuthUnchanged, AuthTyped, AuthSoFar, Diagnosis!Is, Diagnosis!Hows
  <2>2. CASE at' = "done"
    <3>1. Diagnosis!TokenShownAsAsked' /\ verdict'.kind # "unhealthy"
      <4>1. /\ verdict'.kind = "failed" /\ verdict'.received # "yes" /\ ~shown'
            /\ verdict'.received = "no" => remote' = "nothing"
        BY <1>1, <1>6, <2>1, <2>2 DEF Diagnosis!Acquire, AuthSoFar
      <4> QED  BY <4>1 DEF Diagnosis!TokenShownAsAsked
    <3> QED  BY <2>1, <2>2, <3>1, AuthEnds
  <2>3. CASE at' # "done"
    <3>1. AuthSoFar' /\ UNCHANGED verdict
      BY <1>1, <1>6, <2>1, <2>3
      DEF Diagnosis!Acquire, AuthSoFar, Diagnosis!Is, Diagnosis!Consented, AuthUnchanged
    <3> QED  BY <2>1, <3>1, AuthGoesOn
  <2> QED  BY <2>2, <2>3
<1>7. CASE Diagnosis!Acquired \/ Diagnosis!Lease
  <2>1. AuthUnchanged /\ UNCHANGED <<remote, acquired, shown>> /\ AuthTyped'
        /\ at \in {"acquired", "lease"} /\ Diagnosis!Is("token")
    <3>1. /\ AuthUnchanged /\ UNCHANGED <<manager, remote, acquired, shown>>
          /\ at \in {"acquired", "lease"} /\ Diagnosis!Is("token")
      <4> HIDE DEF Diagnosis!Goto, Diagnosis!Say, Diagnosis!Fails
      <4> QED  BY <1>7 DEF Diagnosis!Acquired, Diagnosis!Lease, AuthUnchanged
    <3> QED  BY <1>1, <3>1 DEF AuthUnchanged, AuthTyped, Diagnosis!Is
  <2>2. CASE at' = "done"
    <3>1. Diagnosis!TokenShownAsAsked' /\ verdict'.kind # "unhealthy"
      <4>1. CASE Diagnosis!Acquired
        <5>1. /\ at = "acquired" /\ verdict'.kind = "failed"
              /\ verdict'.received = Diagnosis!RemoteOutcome(acquired)
          BY <2>2, <4>1 DEF Diagnosis!Acquired
        <5> QED
          BY <1>1, <2>1, <5>1
          DEF Diagnosis!RemoteOutcome, Diagnosis!TokenShownAsAsked, AuthSoFar
      <4>2. CASE Diagnosis!Lease
        <5>1. \/ verdict'.kind = "failed" /\ verdict'.received = "unsaid"
              \/ verdict'.kind = "canceled late" /\ verdict'.received = "no" /\ canceled
          <6>1. CASE \E error : Diagnosis!Fails(error)
            <7>1. PICK error : Diagnosis!Fails(error)
              BY <6>1
            <7> QED  BY <7>1
          <6>2. CASE canceled /\ Diagnosis!Say("canceled late", Diagnosis!Err("canceled"), "no")
            BY <6>2
          <6>3. ~Diagnosis!Goto("emit")
            BY <2>2
          <6> HIDE DEF Diagnosis!Fails, Diagnosis!Say, Diagnosis!Goto
          <6> QED  BY <4>2, <6>1, <6>2, <6>3, Zenon DEF Diagnosis!Lease
        <5>2. /\ ~shown /\ UNCHANGED <<canceled, remote, acquired, shown>>
              /\ remote = "nothing" \/ acquired # "held"
          BY <1>1, <2>1, <4>2 DEF Diagnosis!Lease, AuthSoFar, AuthUnchanged
        <5> QED  BY <5>1, <5>2 DEF Diagnosis!TokenShownAsAsked
      <4> QED  BY <1>7, <4>1, <4>2
    <3> QED  BY <2>1, <2>2, <3>1, AuthEnds
  <2>3. CASE at' # "done"
    <3>1. AuthSoFar' /\ UNCHANGED verdict
      BY <1>1, <1>7, <2>1, <2>3
      DEF Diagnosis!Acquired, Diagnosis!Lease, AuthSoFar, Diagnosis!Is, Diagnosis!Consented,
          AuthUnchanged
    <3> QED  BY <2>1, <3>1, AuthGoesOn
  <2> QED  BY <2>2, <2>3
<1> QED
  BY <1>2, <1>3, <1>4, <1>5, <1>6, <1>7 DEF Diagnosis!Auth

\* The output, of doctor only if all checks passed.
LEMMA EmitKept ==
  ASSUME DiagnosisInvariant, Diagnosis!Emit
  PROVE  DiagnosisInvariant'
<1>1. /\ at = "emit" /\ at' = "done"
      /\ UNCHANGED <<invocation, cached, canceled, late, manager, checks, failed, cause, remote,
                     acquired>>
      /\ shown' \in BOOLEAN /\ (shown' => Diagnosis!Is("token"))
      /\ verdict'.kind \in {"success", "failed"} /\ verdict'.received = "unsaid"
  <2> USE DEF Diagnosis!Say, Diagnosis!Fails, Diagnosis!Stays, Diagnosis!Holds,
              Diagnosis!control, Diagnosis!results
  <2>1. CASE /\ Diagnosis!Say("success", Diagnosis!NoError, "unsaid")
             /\ shown' = Diagnosis!Is("token")
    BY <2>1 DEF Diagnosis!Emit, Diagnosis!Is
  <2>2. CASE \E error : Diagnosis!Fails(error) /\ shown' \in {FALSE, Diagnosis!Is("token")}
    <3>1. PICK error : Diagnosis!Fails(error) /\ shown' \in {FALSE, Diagnosis!Is("token")}
      BY <2>2
    <3>2. at' = "done" /\ verdict'.kind = "failed" /\ verdict'.received = "unsaid"
      BY <3>1
    <3>3. shown' \in BOOLEAN /\ (shown' => Diagnosis!Is("token"))
      BY <3>1 DEF Diagnosis!Is
    <3> QED  BY <3>2, <3>3 DEF Diagnosis!Emit
  <2> HIDE DEF Diagnosis!Say, Diagnosis!Fails
  <2> QED  BY <2>1, <2>2, Zenon DEF Diagnosis!Emit
<1>2. /\ Diagnosis!TypeOK' /\ Recorded' /\ Diagnosis!NothingFabricated'
      /\ (~Diagnosis!Is("doctor") => DOMAIN checks = {})'
      /\ (Diagnosis!Is("status") => remote = "nothing")'
  <2>1. shown' => manager = "ready"
    BY <1>1 DEF DiagnosisInvariant, AuthSoFar, Diagnosis!Is
  <2> QED
    BY <1>1, <2>1 DEF DiagnosisInvariant, Diagnosis!TypeOK, Recorded, Diagnosis!DiagnosisHolds,
                      Diagnosis!NothingFabricated, Diagnosis!Is
<1>3. Diagnosis!FirstFailureReported'
  BY <1>1 DEF Diagnosis!FirstFailureReported
<1>4. Diagnosis!TokenShownAsAsked'
  <2>1. Diagnosis!Is("token") => Diagnosis!Consented
    BY <1>1 DEF DiagnosisInvariant, AuthSoFar, Diagnosis!Is
  <2> QED  BY <1>1, <2>1 DEF Diagnosis!TokenShownAsAsked, Diagnosis!Consented
<1>5. Diagnosis!HealthProven'
  <2>1. SUFFICES ASSUME Diagnosis!Is("doctor")
                 PROVE  /\ Diagnosis!CheckNames \ {"read"} \subseteq DOMAIN checks
                        /\ Diagnosis!Healthy
                        /\ invocation.online => "read" \in DOMAIN checks /\ remote = "answered"
    BY <1>1 DEF Diagnosis!HealthProven, Diagnosis!Is, Diagnosis!Healthy
  <2>2. /\ DOMAIN checks = ChecksDone /\ Diagnosis!Healthy
        /\ "read" \in DOMAIN checks /\ checks["read"] = "pass" => remote = "answered"
    BY <1>1, <2>1 DEF DiagnosisInvariant, DoctorSoFar
  <2>3. ChecksDone = {"load", "permissions", "target", "services", "auth", "practices"}
                       \cup IF invocation.online THEN {"read"} ELSE {}
    BY <1>1 DEF ChecksDone
  <2> QED  BY <2>2, <2>3 DEF Diagnosis!Healthy, Diagnosis!CheckNames
<1> QED  BY <1>1, <1>2, <1>3, <1>4, <1>5 DEF DiagnosisInvariant, Diagnosis!DiagnosisHolds

LEMMA FoundStays ==
  ASSUME DiagnosisInvariant, Diagnosis!TypeOK', canceled => canceled',
         UNCHANGED <<invocation, at, manager, checks, failed, cause, remote, acquired, shown, verdict>>
  PROVE  DiagnosisInvariant'
<1>1. Recorded'
  BY DEF DiagnosisInvariant, Recorded
<1>2. (at # "done" => /\ verdict = Diagnosis!NoVerdict
                      /\ Diagnosis!Is("doctor") => DoctorSoFar)'
  BY DEF DiagnosisInvariant, DoctorSoFar, ChecksDone, Diagnosis!Is, Diagnosis!Healthy
<1>3. (at # "done" /\ ~Diagnosis!Is("doctor") => AuthSoFar)'
  BY DEF DiagnosisInvariant, AuthSoFar, Diagnosis!Is, Diagnosis!Consented
<1>4. /\ (~Diagnosis!Is("doctor") => DOMAIN checks = {})'
      /\ (Diagnosis!Is("status") => remote = "nothing")'
  BY DEF DiagnosisInvariant, Diagnosis!Is
<1>5. Diagnosis!DiagnosisHolds'
  BY DEF DiagnosisInvariant, Diagnosis!Is, Diagnosis!Consented, Diagnosis!Healthy,
         Diagnosis!DiagnosisHolds, Diagnosis!HealthProven, Diagnosis!FirstFailureReported,
         Diagnosis!NothingFabricated, Diagnosis!TokenShownAsAsked
<1> QED  BY <1>1, <1>2, <1>3, <1>4, <1>5 DEF DiagnosisInvariant

\* A signal, the deadline and other invocations leave what was found alone.
LEMMA SurroundingsKept ==
  ASSUME DiagnosisInvariant, Diagnosis!Signal \/ Diagnosis!Pass \/ Diagnosis!Elsewhere
  PROVE  DiagnosisInvariant'
<1>1. /\ UNCHANGED <<invocation, at, manager, checks, failed, cause, remote, acquired, shown, verdict>>
      /\ Diagnosis!TypeOK' /\ (canceled => canceled')
  BY DEF Diagnosis!Signal, Diagnosis!Pass, Diagnosis!Elsewhere, Diagnosis!control,
         Diagnosis!results, DiagnosisInvariant, Diagnosis!TypeOK
<1> QED  BY <1>1, FoundStays

LEMMA DiagnosisRested ==
  ASSUME DiagnosisInvariant, UNCHANGED diagnosisVars
  PROVE  DiagnosisInvariant'
<1>1. Diagnosis!TypeOK' /\ (canceled => canceled')
  BY DEF diagnosisVars, DiagnosisInvariant, Diagnosis!TypeOK
<1> QED  BY <1>1, FoundStays DEF diagnosisVars

LEMMA AlwaysTold == CommandsSpec => []DiagnosisInvariant
<1>1. ASSUME DiagnosisInvariant, Diagnosis!Auth PROVE ~Diagnosis!Is("doctor") /\ at # "done"
  BY <1>1 DEF Diagnosis!Auth, Diagnosis!Prepare, Diagnosis!Manager, Diagnosis!Status,
         Diagnosis!StatusWarn, Diagnosis!CheckOnline, Diagnosis!Acquire, Diagnosis!Acquired,
         Diagnosis!Lease, Diagnosis!Is
<1>2. DiagnosisInvariant /\ [CommandsNext]_all => DiagnosisInvariant'
  BY <1>1, DiagnosisElsewhere, DoctorKept, AuthKept, EmitKept, SurroundingsKept, DiagnosisRested
  DEF Diagnosis!Next
<1> QED  BY DiagnosisBegins, <1>2, PTL DEF CommandsSpec

\* What the diagnostic commands report is what they found.
THEOREM DiagnosesAreTrue == CommandsSpec => []DiagnosisInv
<1>1. DiagnosisInvariant => DiagnosisInv
  BY DEF DiagnosisInvariant, DiagnosisInv
<1> QED  BY <1>1, AlwaysTold, PTL

-------------------------------------------------------------------------------
(***************************************************************************)
(* What an output is checked against (OutputLease).                        *)
(***************************************************************************)
Emitters == {"emit", "reveal", "login"}
Stages(who) ==
  {"start", "done", "failed"} \cup
    CASE who \in {"emit", "reveal"} ->
           {"list", "read", "config", "configured", "admit", "write"}
      [] who = "login" ->
           {"list", "read", "fill", "rename", "commit", "modify", "config", "configured",
            "admit", "write"}
      [] who = "renew" -> {"fill", "rename"}
      [] who = "configure" -> {"modify"}
      [] OTHER -> {"list", "read", "config", "configured"}
AtWork(p) == kind[p] \in Emitters /\ point[p] \notin {"start", "done", "failed"}

\* Who is where holds what.
HoldsLocks(p) ==
  /\ point[p] \in Stages(kind[p])
  /\ AtWork(p) => exclusive = {p}
  /\ kind[p] = "renew" /\ point[p] \in {"fill", "rename"} => p \in shared
  /\ point[p] = "modify" => config_exclusive = {p}
  /\ AtWork(p) /\ point[p] \in {"configured", "admit", "write"} => p \in config_shared
LocksHeld ==
  /\ \A p \in exclusive : exclusive = {p}
  /\ \A p \in config_exclusive : config_exclusive = {p}
  /\ exclusive # {} => shared = {}
  /\ config_exclusive # {} => config_shared = {}
  /\ \A p \in Processes : HoldsLocks(p)

\* The entries that are still to read, or the draft.
Drafts ==
  \A p \in Processes :
    /\ point[p] \notin {"read", "rename"} => todo[p] = {}
    /\ point[p] = "rename" => \E draft \in Lease!Image : todo[p] = {draft}

\* Under the lock of the cache each image is known, still to read, or the one that may
\* be shown.
CacheRead(p) ==
  /\ \A path \in Paths :
       \/ cache[path] = None \/ path \in todo[p]
       \/ Lease!Token(cache[path].token) \in known[p]
       \/ kind[p] = "reveal" /\ cache[path] = Lease!Excluded(path)
  /\ \A image \in temporary : image \in todo[p] \/ Lease!Token(image.token) \in known[p]
CacheSoFar == \A p \in Processes : AtWork(p) /\ point[p] # "list" => CacheRead(p)

\* Then what the environment and the configuration hold is.
SecretsKnown(p) ==
  /\ kind[p] = "emit" => point[p] \in {"list", "read"} \/ Lease!EnvironmentGuard \subseteq known[p]
  /\ kind[p] = "reveal" => Lease!NonDisclosable \subseteq known[p]
  /\ kind[p] = "login" => Lease!EnvironmentGuard \subseteq known[p]
  /\ point[p] \in {"admit", "write"} /\ config # None =>
       Lease!ConfiguredGuard(config) \subseteq known[p]
  /\ point[p] = "write" /\ kind[p] = "reveal" =>
       Lease!Token(Lease!Disclosed) \notin known[p]
SecretsSoFar == \A p \in Processes : AtWork(p) => SecretsKnown(p)

\* A snapshot has still to read what it does not know and what is where it was.
SnapshotRead(p) ==
  kind[p] = "snapshot" /\ point[p] \in {"read", "config", "configured", "done"} =>
    \A place \in all_along[p] :
      place.path \in todo[p] \/ Lease!Token(place.token) \in known[p]
SnapshotSoFar ==
  \A p \in Processes : all_along[p] \subseteq Lease!Placed /\ SnapshotRead(p)

Points ==
  {"start", "list", "read", "fill", "rename", "commit", "modify", "config", "configured",
   "admit", "write", "done", "failed"}
Placings == [path : Paths, token : Tokens]
LeaseInvariant ==
  /\ Lease!TypeOK /\ LocksHeld /\ Drafts /\ CacheSoFar /\ SecretsSoFar /\ SnapshotSoFar
  /\ point \in [Processes -> Points]
  /\ todo \in [Processes -> SUBSET (Paths \cup Lease!Image)]
  /\ all_along \in [Processes -> SUBSET Placings]

LEMMA LeaseElsewhere ==
  ASSUME [CommandsNext]_all
  PROVE  \/ part = "lease" /\ part' = part /\ Lease!Next
         \/ UNCHANGED <<part, leaseVars>>
  BY DEF CommandsNext, all, InScan, InControl, InRaw, InStream, InRoute, InTarget, InLease,
         InDiagnosis

\* The credentials of images, of the environment and of profiles are credentials.
LEMMA GuardsTyped ==
  /\ \A t \in Tokens : Lease!Token(t) \in Lease!Credential
  /\ Lease!NonDisclosable \subseteq Lease!EnvironmentGuard
  /\ Lease!EnvironmentGuard \subseteq Lease!Credential
  /\ \A p \in Profiles : Lease!ProfileGuard(p) \subseteq Lease!Credential
  /\ \A profiles \in SUBSET Profiles :
       Lease!ConfiguredGuard(profiles) \subseteq Lease!Credential
<1>1. \A t \in Tokens \cup {Lease!Env} : Lease!Token(t) \in Lease!Credential
  BY DEF Lease!Credential
<1>2. \A f \in Files \cup {Lease!Env} : Lease!Secret(f) \in Lease!Credential
  BY DEF Lease!Credential
<1>3. \A id \in Lease!Ids \ {None}, f \in Files \cup {Lease!Env} :
        Lease!Basic(id, f) \in Lease!Credential
  BY DEF Lease!Credential
<1>4. Lease!Env \in Lease!Ids \ {None}
  BY LeaseAssumption DEF Lease!Ids
<1>5. /\ Lease!NonDisclosable \subseteq Lease!EnvironmentGuard
      /\ Lease!EnvironmentGuard \subseteq Lease!Credential
  <2>1. Lease!NonDisclosable \subseteq Lease!Credential
    BY <1>2, <1>3, <1>4 DEF Lease!NonDisclosable
  <2> QED  BY <1>1, <2>1 DEF Lease!EnvironmentGuard
<1>6. ASSUME NEW p \in Profiles PROVE Lease!ProfileGuard(p) \subseteq Lease!Credential
  <2> DEFINE mine == (IF environment.secret THEN {Lease!Env} ELSE {})
                          \cup {f \in Files : f = p.file /\ holds[f] = "secret"}
             clients == (IF environment.id THEN {Lease!Env} ELSE {}) \cup ({p.id} \ {None})
  <2>1. mine \subseteq Files \cup {Lease!Env}
    OBVIOUS
  <2>2. clients \subseteq Lease!Ids \ {None}
    BY <1>4 DEF Lease!Ids
  <2>3. Lease!ProfileGuard(p) = {Lease!Secret(f) : f \in mine}
                                  \cup {Lease!Basic(id, f) : id \in clients, f \in mine}
    BY DEF Lease!ProfileGuard
  <2> HIDE DEF mine, clients
  <2> QED  BY <1>2, <1>3, <2>1, <2>2, <2>3
<1> QED  BY <1>1, <1>5, <1>6 DEF Lease!ConfiguredGuard

LEMMA ImageGuardsTyped ==
  ASSUME NEW image \in Lease!Image, NEW excluded, NEW more \in Lease!ImageGuards(image, excluded)
  PROVE  /\ more \subseteq Lease!Credential
         /\ Lease!Token(image.token) \in more \/ image = excluded
<1>1. image.token \in Tokens
  BY DEF Lease!Image
<1> QED  BY <1>1, GuardsTyped DEF Lease!ImageGuards, Lease!DenyAll

\* What the environment and the secret files hold stays as it is.
LEMMA GuardsFixed ==
  ASSUME UNCHANGED <<environment, holds>>
  PROVE  /\ Lease!NonDisclosable' = Lease!NonDisclosable
         /\ Lease!EnvironmentGuard' = Lease!EnvironmentGuard
         /\ Lease!Disclosed' = Lease!Disclosed
         /\ \A path : Lease!Excluded(path)' = Lease!Excluded(path)
         /\ config' = config => Lease!ConfiguredGuard(config)' = Lease!ConfiguredGuard(config)
<1>1. /\ Lease!NonDisclosable' = Lease!NonDisclosable
      /\ Lease!EnvironmentGuard' = Lease!EnvironmentGuard
  BY DEF Lease!NonDisclosable, Lease!EnvironmentGuard
<1>2. Lease!Disclosed' = Lease!Disclosed /\ \A path : Lease!Excluded(path)' = Lease!Excluded(path)
  BY DEF Lease!Disclosed, Lease!Excluded
<1>3. config' = config => Lease!ConfiguredGuard(config)' = Lease!ConfiguredGuard(config)
  BY DEF Lease!ConfiguredGuard, Lease!ProfileGuard
<1> QED  BY <1>1, <1>2, <1>3

LEMMA LeaseBegins == CommandsInit => (part = "lease" => LeaseInvariant)
<1> SUFFICES ASSUME CommandsInit, part = "lease" PROVE LeaseInvariant
  OBVIOUS
<1>1. Lease!Init
  BY DEF CommandsInit
<1>2. /\ cache \in [Paths -> Lease!Image \cup {None}] /\ temporary \subseteq Lease!Image
      /\ config = None \/ config \subseteq Profiles
  <2>1. cache \in Caches /\ temporary \in Leftovers /\ config \in Configs
    BY <1>1 DEF Lease!Init
  <2> QED  BY <2>1, LeaseAssumption
<1>3. kind \in [Processes -> Lease!Kinds]
  BY <1>1, LeaseAssumption DEF Lease!Init
<1>4. Lease!TypeOK
  BY <1>1, <1>2, <1>3 DEF Lease!Init, Lease!TypeOK
<1> QED
  BY <1>1, <1>4
  DEF Lease!Init, LeaseInvariant, LocksHeld, HoldsLocks, Drafts, CacheSoFar, SecretsSoFar,
      SnapshotSoFar, SnapshotRead, Stages, AtWork, Points, Placings

LEMMA LeaseTypeKept ==
  ASSUME LeaseInvariant, NEW p \in Processes, Lease!Steps(p) \/ Lease!GiveUp(p)
  PROVE  /\ Lease!TypeOK' /\ point' \in [Processes -> Points]
         /\ todo' \in [Processes -> SUBSET (Paths \cup Lease!Image)]
         /\ all_along' \in [Processes -> SUBSET Placings]
<1> USE DEF LeaseInvariant, Lease!TypeOK, Lease!Goto, Lease!Knows, Lease!Fixed, Lease!Release,
            Lease!stores, Lease!locks, Points
<1>p. ASSUME Lease!TypeOK PROVE Lease!Placed \subseteq Placings
  BY <1>p DEF Lease!Placed, Lease!Entries, Placings, Lease!Image
<1>1. CASE Lease!LockCache(p)
  BY <1>1, <1>p, GuardsTyped DEF Lease!LockCache, Lease!Start
<1>2. CASE Lease!List(p)
  BY <1>2 DEF Lease!List, Lease!Listed, Lease!Entries
<1>3. CASE Lease!ReadEntry(p)
  <2>1. PICK entry \in todo[p] :
          /\ todo' = [todo EXCEPT ![p] = @ \ {entry}]
          /\ \/ Lease!Holds(entry) = None /\ UNCHANGED known
             \/ /\ Lease!Holds(entry) # None
                /\ \E more \in Lease!ImageGuards(Lease!Holds(entry),
                                 IF kind[p] = "reveal" THEN Lease!Excluded(entry) ELSE None) :
                     Lease!Knows(p, more)
    BY <1>3 DEF Lease!ReadEntry
  <2>2. Lease!Holds(entry) \in Lease!Image \cup {None}
    BY <2>1 DEF Lease!Holds
  <2>3. known' \in [Processes -> SUBSET Lease!Credential]
    <3>1. CASE UNCHANGED known
      BY <3>1
    <3>2. ASSUME NEW excluded, Lease!Holds(entry) # None,
                 NEW more \in Lease!ImageGuards(Lease!Holds(entry), excluded),
                 Lease!Knows(p, more)
          PROVE  known' \in [Processes -> SUBSET Lease!Credential]
      <4>1. more \subseteq Lease!Credential
        BY <2>2, <3>2, ImageGuardsTyped
      <4> QED  BY <3>2, <4>1
    <3> QED  BY <2>1, <3>1, <3>2
  <2>4. UNCHANGED <<environment, holds, kind, cache, temporary, config, shared, exclusive,
                    config_shared, config_exclusive, point, all_along>>
    BY <1>3 DEF Lease!ReadEntry
  <2> QED  BY <2>1, <2>3, <2>4
<1>4. CASE Lease!Unreadable(p)
  BY <1>4 DEF Lease!Unreadable, Lease!DenyAll
<1>5. CASE Lease!CacheKnown(p)
  BY <1>5, GuardsTyped DEF Lease!CacheKnown
<1>6. CASE Lease!LockConfig(p)
  BY <1>6 DEF Lease!LockConfig
<1>7. CASE Lease!ReadConfig(p)
  <2>1. /\ UNCHANGED <<environment, holds, kind, cache, temporary, config, todo, all_along,
                       exclusive, shared, config_exclusive>> \/ Lease!Release(p)
    BY <1>7 DEF Lease!ReadConfig
  <2> QED  BY <1>7, GuardsTyped DEF Lease!ReadConfig, Lease!DenyAll
<1>8. CASE Lease!Admit(p) \/ Lease!Written(p)
  BY <1>8 DEF Lease!Admit, Lease!Written
<1>9. CASE Lease!Fill(p)
  BY <1>9 DEF Lease!Fill
<1>10. CASE Lease!Rename(p)
  <2>1. PICK draft \in todo[p], path \in Paths :
          /\ cache' = [cache EXCEPT ![path] = [draft EXCEPT !.whole = TRUE]]
          /\ temporary' = temporary \ {draft}
          /\ Lease!Knows(p, {Lease!Token(draft.token)})
    BY <1>10 DEF Lease!Rename
  <2>2. draft \in Lease!Image /\ point[p] = "rename"
    BY <1>10, <2>1 DEF Lease!Rename, Drafts
  <2>3. [draft EXCEPT !.whole = TRUE] \in Lease!Image /\ draft.token \in Tokens
    BY <2>2 DEF Lease!Image
  <2>4. cache' \in [Paths -> Lease!Image \cup {None}] /\ temporary' \subseteq Lease!Image
        /\ known' \in [Processes -> SUBSET Lease!Credential]
    BY <2>1, <2>3, GuardsTyped
  <2>5. all_along' \in [Processes -> SUBSET Placings]
    BY <1>10 DEF Lease!Rename, Lease!Watched
  <2>6. /\ todo' = [todo EXCEPT ![p] = {}] /\ UNCHANGED <<kind, config>>
        /\ point' \in [Processes -> Points]
        /\ Lease!Release(p) \/ UNCHANGED <<shared, exclusive, config_shared, config_exclusive>>
    BY <1>10 DEF Lease!Rename
  <2> QED  BY <2>4, <2>5, <2>6
<1>11. CASE Lease!Configure(p)
  BY <1>11 DEF Lease!Configure
<1>12. CASE Lease!Modify(p)
  <2>1. config' \subseteq Profiles
    BY <1>12, LeaseAssumption DEF Lease!Modify
  <2> QED  BY <1>12, <2>1 DEF Lease!Modify
<1>13. CASE Lease!GiveUp(p)
  BY <1>13 DEF Lease!GiveUp
<1> QED
  BY <1>1, <1>2, <1>3, <1>4, <1>5, <1>6, <1>7, <1>8, <1>9, <1>10, <1>11, <1>12, <1>13
  DEF Lease!Steps

\* One process moves, with its locks.
LEMMA LocksMove ==
  ASSUME LocksHeld, NEW p \in Processes, UNCHANGED kind,
         \A q \in Processes \ {p} : point'[q] = point[q],
         shared' \ {p} = shared \ {p}, exclusive' \ {p} = exclusive \ {p},
         config_shared' \ {p} = config_shared \ {p},
         config_exclusive' \ {p} = config_exclusive \ {p},
         p \in exclusive' => exclusive' = {p},
         p \in config_exclusive' => config_exclusive' = {p},
         exclusive' # {} => shared' = {},
         config_exclusive' # {} => config_shared' = {},
         HoldsLocks(p)'
  PROVE  LocksHeld'
<1>1. ASSUME NEW q \in Processes \ {p} PROVE HoldsLocks(q)'
  <2>1. /\ point'[q] = point[q] /\ kind'[q] = kind[q] /\ HoldsLocks(q)
        /\ AtWork(q)' = AtWork(q) /\ (q \in shared' <=> q \in shared)
        /\ (q \in config_shared' <=> q \in config_shared)
    BY DEF LocksHeld, AtWork
  <2>2. exclusive = {q} => exclusive' = {q}
    OBVIOUS
  <2>3. config_exclusive = {q} => config_exclusive' = {q}
    OBVIOUS
  <2> QED  BY <2>1, <2>2, <2>3 DEF HoldsLocks
<1>2. /\ (\A q \in exclusive : exclusive = {q})'
      /\ (\A q \in config_exclusive : config_exclusive = {q})'
  BY DEF LocksHeld
<1> QED  BY <1>1, <1>2 DEF LocksHeld

LEMMA LocksKept ==
  ASSUME LeaseInvariant, NEW p \in Processes, Lease!Steps(p) \/ Lease!GiveUp(p)
  PROVE  LocksHeld'
<1> USE DEF LeaseInvariant, Lease!TypeOK, Lease!Goto, Lease!Fixed, Lease!Release,
            Lease!stores, Lease!locks, Emitters
<1>s. /\ Stages("emit") = {"start", "done", "failed", "list", "read", "config", "configured",
                           "admit", "write"}
      /\ Stages("reveal") = Stages("emit")
      /\ Stages("login") = Points
      /\ Stages("renew") = {"start", "done", "failed", "fill", "rename"}
      /\ Stages("configure") = {"start", "done", "failed", "modify"}
      /\ Stages("snapshot") = {"start", "done", "failed", "list", "read", "config", "configured"}
      /\ kind[p] \in {"emit", "reveal", "login", "renew", "configure", "snapshot"}
  BY DEF Stages, Points, Lease!Kinds
<1>h. /\ HoldsLocks(p) /\ (exclusive # {} => shared = {})
      /\ (config_exclusive # {} => config_shared = {})
      /\ (p \in exclusive => exclusive = {p})
      /\ (p \in config_exclusive => config_exclusive = {p})
  BY DEF LocksHeld
<1>m. UNCHANGED kind /\ \A q \in Processes \ {p} : point'[q] = point[q]
  <2> USE DEF Lease!LockCache, Lease!List, Lease!ReadEntry, Lease!Unreadable, Lease!CacheKnown,
              Lease!LockConfig, Lease!ReadConfig, Lease!Admit, Lease!Written, Lease!Fill,
              Lease!Rename, Lease!Configure, Lease!Modify,
      Lease!GiveUp
  <2> QED  BY DEF Lease!Steps
\* The locks are kept, and what the process does next needs no more of them.
<1>k. ASSUME UNCHANGED <<shared, exclusive, config_shared, config_exclusive>>,
             NEW next \in Stages(kind[p]), Lease!Goto(p, next),
             kind[p] \in Emitters /\ next \notin {"start", "done", "failed"} =>
               AtWork(p) /\ (next \in {"configured", "admit", "write"} =>
                               point[p] \in {"configured", "admit", "write"}),
             kind[p] = "renew" /\ next \in {"fill", "rename"} => point[p] \in {"fill", "rename"},
             next # "modify"
      PROVE  LocksHeld'
  <2>1. HoldsLocks(p)'
    BY <1>h, <1>m, <1>k DEF HoldsLocks, AtWork
  <2> QED  BY <1>h, <1>m, <1>k, <2>1, LocksMove
\* A process that ends lets go of them.
<1>e. ASSUME NEW next \in {"done", "failed"}, Lease!Goto(p, next), Lease!Release(p)
      PROVE  LocksHeld'
  <2>1. HoldsLocks(p)'
    BY <1>m, <1>e DEF HoldsLocks, AtWork, Stages
  <2> QED  BY <1>h, <1>m, <1>e, <2>1, LocksMove
<1> HIDE DEF Lease!Goto, Lease!Release
<1>1. CASE Lease!LockCache(p)
  <2>1. /\ point[p] = "start" /\ kind[p] # "configure"
        /\ UNCHANGED <<config_shared, config_exclusive>>
        /\ point' = [point EXCEPT ![p] = IF kind[p] = "renew" THEN "fill" ELSE "list"]
        /\ CASE kind[p] = "snapshot" -> UNCHANGED <<shared, exclusive>>
             [] kind[p] = "renew" -> exclusive = {} /\ shared' = shared \cup {p}
                                       /\ UNCHANGED exclusive
             [] OTHER -> exclusive = {} /\ shared = {} /\ exclusive' = {p} /\ UNCHANGED shared
    BY <1>1 DEF Lease!LockCache, Lease!CacheFree, Lease!Goto
  <2>2. HoldsLocks(p)'
    BY <1>m, <1>s, <2>1 DEF HoldsLocks, AtWork, Points
  <2>3. /\ shared' \ {p} = shared \ {p} /\ exclusive' \ {p} = exclusive \ {p}
        /\ (p \in exclusive' => exclusive' = {p}) /\ (exclusive' # {} => shared' = {})
    BY <1>h, <1>s, <2>1
  <2> QED  BY <1>h, <1>m, <2>1, <2>2, <2>3, LocksMove
<1>2. CASE Lease!List(p)
  <2>1. point[p] = "list" /\ Lease!Goto(p, "read")
        /\ UNCHANGED <<shared, exclusive, config_shared, config_exclusive>>
    BY <1>2 DEF Lease!List
  <2>2. "read" \in Stages(kind[p])
    BY <1>h, <1>s, <2>1 DEF HoldsLocks, Points
  <2> QED  BY <1>k, <2>1, <2>2 DEF AtWork
<1>3. CASE Lease!ReadEntry(p)
  <2>1. UNCHANGED <<kind, shared, exclusive, config_shared, config_exclusive, point>>
    BY <1>3 DEF Lease!ReadEntry
  <2> QED  BY <2>1 DEF LocksHeld, HoldsLocks, AtWork
<1>4. CASE Lease!Unreadable(p)
  <2>1. CASE Lease!Release(p) /\ Lease!Goto(p, "failed")
    BY <1>e, <2>1
  <2>2. CASE /\ kind[p] = "snapshot" /\ Lease!Goto(p, "config")
             /\ UNCHANGED <<shared, exclusive, config_shared, config_exclusive>>
    BY <1>k, <1>s, <2>2
  <2> QED  BY <1>4, <2>1, <2>2 DEF Lease!Unreadable
<1>5. CASE Lease!CacheKnown(p)
  <2>1. point[p] = "read" /\ Lease!Goto(p, IF kind[p] = "login" THEN "fill" ELSE "config")
        /\ UNCHANGED <<shared, exclusive, config_shared, config_exclusive>>
    BY <1>5 DEF Lease!CacheKnown
  <2>2. (IF kind[p] = "login" THEN "fill" ELSE "config") \in Stages(kind[p])
    BY <1>h, <1>s, <2>1 DEF HoldsLocks, Points
  <2> QED  BY <1>k, <1>h, <1>s, <2>1, <2>2 DEF AtWork, HoldsLocks
<1>6. CASE Lease!LockConfig(p)
  <2>1. /\ point[p] = "config" /\ point' = [point EXCEPT ![p] = "configured"]
        /\ UNCHANGED <<shared, exclusive, config_exclusive>>
        /\ IF kind[p] = "snapshot" THEN UNCHANGED config_shared
           ELSE config_exclusive = {} /\ config_shared' = config_shared \cup {p}
    BY <1>6 DEF Lease!LockConfig, Lease!ConfigFree, Lease!Goto
  <2>2. HoldsLocks(p)'
    BY <1>m, <1>h, <1>s, <2>1 DEF HoldsLocks, AtWork, Points
  <2>3. /\ config_shared' \ {p} = config_shared \ {p}
        /\ config_exclusive' # {} => config_shared' = {}
    BY <1>h, <2>1
  <2> QED  BY <1>h, <1>m, <2>1, <2>2, <2>3, LocksMove
<1>7. CASE Lease!ReadConfig(p)
  <2>1. /\ point[p] = "configured"
        /\ \/ Lease!Release(p) /\ Lease!Goto(p, "failed")
           \/ /\ UNCHANGED <<shared, exclusive, config_shared, config_exclusive>>
              /\ Lease!Goto(p, IF kind[p] = "snapshot" THEN "done" ELSE "admit")
    BY <1>7 DEF Lease!ReadConfig
  <2>2. (IF kind[p] = "snapshot" THEN "done" ELSE "admit") \in Stages(kind[p])
    BY <1>h, <1>s, <2>1 DEF HoldsLocks, Points
  <2> QED  BY <1>e, <1>k, <1>h, <1>s, <2>1, <2>2 DEF AtWork, HoldsLocks
<1>8. CASE Lease!Admit(p) \/ Lease!Written(p)
  <2>1. CASE /\ point[p] = "admit" /\ Lease!Goto(p, "write")
             /\ UNCHANGED <<shared, exclusive, config_shared, config_exclusive>>
    <3>1. "write" \in Stages(kind[p])
      BY <1>h, <1>s, <2>1 DEF HoldsLocks, Points
    <3> QED  BY <1>k, <1>h, <1>s, <2>1, <3>1 DEF AtWork, HoldsLocks
  <2>2. CASE Lease!Release(p) /\ (Lease!Goto(p, "failed") \/ Lease!Goto(p, "done"))
    BY <1>e, <2>2
  <2> QED  BY <1>8, <2>1, <2>2 DEF Lease!Admit, Lease!Written
<1>9. CASE Lease!Fill(p)
  <2>1. point[p] = "fill" /\ Lease!Goto(p, "rename")
        /\ UNCHANGED <<shared, exclusive, config_shared, config_exclusive>>
    BY <1>9 DEF Lease!Fill
  <2>2. "rename" \in Stages(kind[p])
    BY <1>h, <1>s, <2>1 DEF HoldsLocks, Points
  <2> QED  BY <1>k, <1>h, <1>s, <2>1, <2>2 DEF AtWork, HoldsLocks
<1>10. CASE Lease!Rename(p)
  <2>1. /\ point[p] = "rename"
        /\ \/ Lease!Release(p) /\ Lease!Goto(p, "done")
           \/ /\ UNCHANGED <<shared, exclusive, config_shared, config_exclusive>>
              /\ kind[p] # "renew" /\ Lease!Goto(p, "commit")
    BY <1>10 DEF Lease!Rename
  <2>2. kind[p] # "renew" => "commit" \in Stages(kind[p]) /\ kind[p] = "login"
    BY <1>h, <1>s, <2>1 DEF HoldsLocks, Points
  <2> QED  BY <1>e, <1>k, <1>h, <1>s, <2>1, <2>2 DEF AtWork, HoldsLocks
<1>11. CASE Lease!Configure(p)
  <2>1. /\ point[p] \in {"start", "commit"} /\ (point[p] = "start" => kind[p] = "configure")
        /\ point' = [point EXCEPT ![p] = "modify"] /\ config_shared = {} /\ config_exclusive = {}
        /\ config_exclusive' = {p} /\ UNCHANGED <<shared, exclusive, config_shared>>
    BY <1>11 DEF Lease!Configure, Lease!ConfigFree, Lease!Goto
  <2>2. HoldsLocks(p)'
    BY <1>m, <1>h, <1>s, <2>1 DEF HoldsLocks, AtWork, Points
  <2> QED  BY <1>h, <1>m, <2>1, <2>2, LocksMove
<1>12. CASE Lease!Modify(p)
  <2>1. /\ point[p] = "modify" /\ config_exclusive' = {}
        /\ point' = [point EXCEPT ![p] = IF kind[p] = "login" THEN "config" ELSE "done"]
        /\ UNCHANGED <<shared, exclusive, config_shared>>
    BY <1>12 DEF Lease!Modify, Lease!Goto
  <2>2. HoldsLocks(p)'
    BY <1>m, <1>h, <1>s, <2>1 DEF HoldsLocks, AtWork, Points
  <2>3. config_exclusive \ {p} = {}
    BY <1>h, <2>1 DEF HoldsLocks
  <2> QED  BY <1>h, <1>m, <2>1, <2>2, <2>3, LocksMove
<1>13. CASE Lease!GiveUp(p)
  BY <1>13, <1>e DEF Lease!GiveUp
<1> QED
  BY <1>1, <1>2, <1>3, <1>4, <1>5, <1>6, <1>7, <1>8, <1>9, <1>10, <1>11, <1>12, <1>13
  DEF Lease!Steps

LEMMA DraftsKept ==
  ASSUME LeaseInvariant, NEW p \in Processes, Lease!Steps(p) \/ Lease!GiveUp(p)
  PROVE  Drafts'
<1> USE DEF LeaseInvariant, Lease!Goto, Drafts
<1>1. CASE Lease!ReadEntry(p)
  <2>1. PICK entry \in todo[p] : todo' = [todo EXCEPT ![p] = @ \ {entry}]
    BY <1>1 DEF Lease!ReadEntry
  <2>2. UNCHANGED point /\ point[p] = "read"
    BY <1>1 DEF Lease!ReadEntry
  <2> QED  BY <2>1, <2>2
<1>2. CASE Lease!Fill(p)
  <2>1. PICK image \in Lease!Image : todo' = [todo EXCEPT ![p] = {image}]
    BY <1>2 DEF Lease!Fill
  <2>2. point' = [point EXCEPT ![p] = "rename"]
    BY <1>2 DEF Lease!Fill
  <2> QED  BY <2>1, <2>2
<1>3. CASE Lease!Rename(p)
  BY <1>3 DEF Lease!Rename
<1>4. CASE Lease!ReadConfig(p)
  <2>1. UNCHANGED todo /\ point[p] = "configured" /\ \E next \in {"failed", "done", "admit"} :
          point' = [point EXCEPT ![p] = next]
    BY <1>4 DEF Lease!ReadConfig
  <2> QED  BY <2>1
<1>5. CASE \/ Lease!LockCache(p) \/ Lease!List(p) \/ Lease!Unreadable(p) \/ Lease!CacheKnown(p)
           \/ Lease!LockConfig(p) \/ Lease!Admit(p) \/ Lease!Written(p)
           \/ Lease!Configure(p) \/ Lease!Modify(p) \/ Lease!GiveUp(p)
  BY <1>5 DEF Lease!LockCache, Lease!List, Lease!Unreadable, Lease!CacheKnown, Lease!LockConfig,
              Lease!Admit, Lease!Written, Lease!Configure, Lease!Modify, Lease!GiveUp
<1> QED  BY <1>1, <1>2, <1>3, <1>4, <1>5 DEF Lease!Steps

\* Nobody changes the cache that another has locked, nor a configuration.
LEMMA LockedStays ==
  ASSUME LeaseInvariant, NEW p \in Processes, Lease!Steps(p) \/ Lease!GiveUp(p),
         NEW q \in Processes \ {p}, AtWork(q)
  PROVE  /\ UNCHANGED <<cache, temporary>>
         /\ point[q] \in {"configured", "admit", "write"} => config' = config
<1>1. /\ exclusive = {q} /\ shared = {}
      /\ point[q] \in {"configured", "admit", "write"} => q \in config_shared
  BY DEF LeaseInvariant, LocksHeld, HoldsLocks
<1>2. ~(point[p] \in {"fill", "rename"})
  BY <1>1 DEF LeaseInvariant, LocksHeld, HoldsLocks, AtWork, Stages, Emitters
<1>3. UNCHANGED <<cache, temporary>>
  <2> USE DEF Lease!LockCache, Lease!List, Lease!ReadEntry, Lease!Unreadable, Lease!CacheKnown,
              Lease!LockConfig, Lease!ReadConfig, Lease!Admit, Lease!Written, Lease!Fill,
              Lease!Rename, Lease!Configure, Lease!Modify, Lease!GiveUp, Lease!stores
  <2> QED  BY <1>2 DEF Lease!Steps
<1>4. CASE point[q] \in {"configured", "admit", "write"}
  <2>1. point[p] # "modify"
    BY <1>1, <1>4 DEF LeaseInvariant, LocksHeld, HoldsLocks
  <2>2. config' = config
    <3> USE DEF Lease!LockCache, Lease!List, Lease!ReadEntry, Lease!Unreadable, Lease!CacheKnown,
                Lease!LockConfig, Lease!ReadConfig, Lease!Admit, Lease!Written, Lease!Fill,
                Lease!Rename, Lease!Configure, Lease!Modify, Lease!GiveUp, Lease!stores
    <3> QED  BY <2>1 DEF Lease!Steps
  <2> QED  BY <1>3, <2>2
<1> QED  BY <1>3, <1>4

\* What another process knows and has to read, and what never changes.
LEMMA OthersRest ==
  ASSUME LeaseInvariant, NEW p \in Processes, Lease!Steps(p) \/ Lease!GiveUp(p)
  PROVE  /\ UNCHANGED <<environment, holds, kind>>
         /\ \A q \in Processes \ {p} :
              point'[q] = point[q] /\ known'[q] = known[q] /\ todo'[q] = todo[q]
<1>1. UNCHANGED <<environment, holds, kind>>
  BY DEF Lease!Steps, Lease!LockCache, Lease!List, Lease!ReadEntry, Lease!Unreadable,
         Lease!CacheKnown, Lease!LockConfig, Lease!ReadConfig, Lease!Admit, Lease!Written,
         Lease!Fill, Lease!Rename, Lease!Configure, Lease!Modify, Lease!GiveUp, Lease!Fixed
<1>2. ASSUME NEW q \in Processes \ {p}
      PROVE  point'[q] = point[q] /\ known'[q] = known[q] /\ todo'[q] = todo[q]
  <2> USE DEF LeaseInvariant, Lease!TypeOK, Lease!Goto, Lease!Knows
  <2>1. CASE Lease!LockCache(p) \/ Lease!List(p) \/ Lease!ReadEntry(p) \/ Lease!Unreadable(p)
             \/ Lease!CacheKnown(p)
    BY <1>2, <2>1
    DEF Lease!LockCache, Lease!List, Lease!ReadEntry, Lease!Unreadable, Lease!CacheKnown
  <2>2. CASE Lease!LockConfig(p) \/ Lease!ReadConfig(p) \/ Lease!Admit(p) \/ Lease!Written(p)
    BY <1>2, <2>2 DEF Lease!LockConfig, Lease!ReadConfig, Lease!Admit, Lease!Written
  <2>3. CASE Lease!Fill(p) \/ Lease!Rename(p) \/ Lease!Configure(p) \/ Lease!Modify(p)
             \/ Lease!GiveUp(p)
    BY <1>2, <2>3 DEF Lease!Fill, Lease!Rename, Lease!Configure, Lease!Modify,
      Lease!GiveUp
  <2> QED  BY <2>1, <2>2, <2>3 DEF Lease!Steps
<1> QED  BY <1>1, <1>2

LEMMA CacheKept ==
  ASSUME LeaseInvariant, NEW p \in Processes, Lease!Steps(p) \/ Lease!GiveUp(p)
  PROVE  CacheSoFar'
<1>1. \A path : Lease!Excluded(path)' = Lease!Excluded(path)
  BY OthersRest, GuardsFixed
<1>2. ASSUME NEW q \in Processes \ {p}, (AtWork(q) /\ point[q] # "list")'
      PROVE  CacheRead(q)'
  <2>1. /\ point'[q] = point[q] /\ known'[q] = known[q] /\ todo'[q] = todo[q] /\ kind' = kind
        /\ AtWork(q) /\ point[q] # "list"
    BY <1>2, OthersRest DEF AtWork
  <2>2. UNCHANGED <<cache, temporary>>
    BY <2>1, LockedStays
  <2>3. CacheRead(q)
    BY <2>1 DEF LeaseInvariant, CacheSoFar
  <2> QED  BY <1>1, <2>1, <2>2, <2>3 DEF CacheRead
<1>3. ASSUME (AtWork(p) /\ point[p] # "list")' PROVE CacheRead(p)'
  <2> USE DEF Lease!Goto, Lease!Knows, Lease!stores
  <2>1. /\ point \in [Processes -> Points]
        /\ todo \in [Processes -> SUBSET (Paths \cup Lease!Image)]
        /\ known \in [Processes -> SUBSET Lease!Credential] /\ kind' = kind
        /\ cache \in [Paths -> Lease!Image \cup {None}] /\ temporary \subseteq Lease!Image
        /\ None \notin Lease!Image /\ Paths \cap Lease!Image = {}
    BY OthersRest, LeaseAssumption DEF LeaseInvariant, Lease!TypeOK
  <2>2. CASE Lease!List(p)
    <3>1. todo' = [todo EXCEPT ![p] = Lease!Listed(p)] /\ point[p] = "list"
          /\ UNCHANGED <<cache, temporary>>
      BY <2>2 DEF Lease!List
    <3>2. kind[p] # "snapshot"
      BY <1>3, <2>1 DEF AtWork, Emitters
    <3> QED  BY <2>1, <3>1, <3>2 DEF CacheRead, Lease!Listed, Lease!Entries
  <2>3. CASE AtWork(p) /\ point[p] # "list"
    <3>1. CacheRead(p)
      BY <2>3 DEF LeaseInvariant, CacheSoFar
    <3>2. CASE Lease!ReadEntry(p)
      <4>1. PICK entry \in todo[p] :
              /\ todo' = [todo EXCEPT ![p] = @ \ {entry}]
              /\ \/ Lease!Holds(entry) = None /\ UNCHANGED known
                 \/ /\ Lease!Holds(entry) # None
                    /\ \E more \in Lease!ImageGuards(Lease!Holds(entry),
                                     IF kind[p] = "reveal" THEN Lease!Excluded(entry) ELSE None) :
                         Lease!Knows(p, more)
        BY <3>2 DEF Lease!ReadEntry
      <4>2. UNCHANGED <<cache, temporary>>
        BY <3>2 DEF Lease!ReadEntry
      <4>3. /\ entry \in Paths \cup Lease!Image
            /\ Lease!Holds(entry) \in Lease!Image \cup {None}
        BY <2>1, <4>1 DEF Lease!Holds
      <4>4. /\ known[p] \subseteq known'[p] /\ todo'[p] = todo[p] \ {entry}
            /\ \/ Lease!Holds(entry) = None
               \/ Lease!Token(Lease!Holds(entry).token) \in known'[p]
               \/ kind[p] = "reveal" /\ Lease!Holds(entry) = Lease!Excluded(entry)
        <5>1. CASE Lease!Holds(entry) = None /\ UNCHANGED known
          BY <2>1, <4>1, <5>1
        <5>2. ASSUME NEW more \in Lease!ImageGuards(Lease!Holds(entry),
                            IF kind[p] = "reveal" THEN Lease!Excluded(entry) ELSE None),
                     Lease!Knows(p, more), Lease!Holds(entry) # None
              PROVE  /\ known[p] \subseteq known'[p]
                     /\ \/ Lease!Token(Lease!Holds(entry).token) \in known'[p]
                        \/ kind[p] = "reveal" /\ Lease!Holds(entry) = Lease!Excluded(entry)
          <6>1. Lease!Token(Lease!Holds(entry).token) \in more
                  \/ Lease!Holds(entry) = IF kind[p] = "reveal" THEN Lease!Excluded(entry) ELSE None
            BY <4>3, <5>2, ImageGuardsTyped
          <6> QED  BY <2>1, <5>2, <6>1
        <5> QED  BY <2>1, <4>1, <5>1, <5>2
      <4>5. ASSUME NEW path \in Paths
            PROVE  \/ cache[path] = None \/ path \in todo'[p]
                   \/ Lease!Token(cache[path].token) \in known'[p]
                   \/ kind[p] = "reveal" /\ cache[path] = Lease!Excluded(path)
        BY <3>1, <4>4 DEF CacheRead, Lease!Holds
      <4>6. ASSUME NEW image \in temporary
            PROVE  image \in todo'[p] \/ Lease!Token(image.token) \in known'[p]
        <5>1. image \notin Paths /\ image # None
          BY <2>1
        <5>2. CASE entry = image
          <6>1. Lease!Holds(entry) = image /\ entry \notin Paths
            BY <5>1, <5>2 DEF Lease!Holds
          <6>2. Lease!Excluded(entry) = None
            BY <6>1, LeaseAssumption DEF Lease!Excluded
          <6> QED  BY <4>4, <5>1, <6>1, <6>2
        <5> QED  BY <3>1, <4>4, <5>2 DEF CacheRead
      <4> QED  BY <1>1, <2>1, <4>2, <4>5, <4>6 DEF CacheRead
    <3>3. CASE Lease!Fill(p)
      <4>1. PICK image \in Lease!Image :
              temporary' = temporary \cup {image} /\ todo' = [todo EXCEPT ![p] = {image}]
        BY <3>3 DEF Lease!Fill
      <4>2. UNCHANGED <<cache, known>> /\ todo[p] = {}
        BY <3>3 DEF Lease!Fill, LeaseInvariant, Drafts
      <4> QED  BY <1>1, <2>1, <3>1, <4>1, <4>2 DEF CacheRead
    <3>4. CASE Lease!Rename(p)
      <4>1. PICK draft \in todo[p], path \in Paths :
              /\ cache' = [cache EXCEPT ![path] = [draft EXCEPT !.whole = TRUE]]
              /\ temporary' = temporary \ {draft}
              /\ known' = [known EXCEPT ![p] = @ \cup {Lease!Token(draft.token)}]
        BY <3>4 DEF Lease!Rename
      <4>2. draft \in Lease!Image /\ todo[p] = {draft} /\ todo'[p] = {}
        BY <2>1, <3>4, <4>1 DEF Lease!Rename, LeaseInvariant, Drafts
      <4>3. [draft EXCEPT !.whole = TRUE].token = draft.token
        BY <4>2 DEF Lease!Image
      <4> QED  BY <1>1, <2>1, <3>1, <4>1, <4>2, <4>3 DEF CacheRead
    <3>5. CASE Lease!CacheKnown(p)
      BY <1>1, <2>1, <3>1, <3>5 DEF Lease!CacheKnown, CacheRead
    <3>6. CASE Lease!LockConfig(p) \/ Lease!Admit(p) \/ Lease!Configure(p) \/ Lease!Modify(p)
      BY <1>1, <2>1, <3>1, <3>6
      DEF Lease!LockConfig, Lease!Admit, Lease!Configure, Lease!Modify, CacheRead
    <3>7. CASE Lease!ReadConfig(p)
      <4>1. UNCHANGED <<cache, temporary, todo>>
        BY <3>7 DEF Lease!ReadConfig
      <4>2. known[p] \subseteq known'[p]
        BY <2>1, <3>7 DEF Lease!ReadConfig
      <4> QED  BY <1>1, <2>1, <3>1, <4>1, <4>2 DEF CacheRead
    <3>8. CASE Lease!Unreadable(p) \/ Lease!Written(p) \/ Lease!GiveUp(p)
      BY <1>3, <2>1, <2>3, <3>8
      DEF Lease!Unreadable, Lease!Written, Lease!GiveUp, AtWork, Emitters
    <3>9. ~Lease!LockCache(p) /\ ~Lease!List(p)
      BY <2>3 DEF AtWork, Lease!LockCache, Lease!List
    <3> QED
      BY <3>2, <3>3, <3>4, <3>5, <3>6, <3>7, <3>8, <3>9 DEF Lease!Steps
  <2>4. AtWork(p) \/ Lease!LockCache(p)
    BY <1>3, <2>1 DEF AtWork, Lease!Steps, Lease!LockCache, Lease!List, Lease!ReadEntry,
      Lease!Unreadable, Lease!CacheKnown, Lease!LockConfig, Lease!ReadConfig, Lease!Admit,
      Lease!Written, Lease!Fill, Lease!Rename, Lease!Configure, Lease!Modify, Lease!GiveUp, Emitters
  <2>5. ~Lease!LockCache(p)
    BY <1>3, <2>1 DEF AtWork, Lease!LockCache, Emitters
  <2>6. point[p] = "list" => Lease!List(p)
    BY <1>3, <2>1, <2>4, <2>5 DEF AtWork, Lease!Steps, Lease!LockCache, Lease!List,
      Lease!ReadEntry, Lease!Unreadable, Lease!CacheKnown, Lease!LockConfig, Lease!ReadConfig,
      Lease!Admit, Lease!Written, Lease!Fill, Lease!Rename, Lease!Configure, Lease!Modify,
      Lease!GiveUp
  <2> QED  BY <2>2, <2>3, <2>4, <2>5, <2>6
<1>4. \A q \in Processes : (AtWork(q) /\ point[q] # "list")' => CacheRead(q)'
  BY <1>2, <1>3
<1> QED  BY <1>4 DEF CacheSoFar

LEMMA SecretsKept ==
  ASSUME LeaseInvariant, NEW p \in Processes, Lease!Steps(p) \/ Lease!GiveUp(p)
  PROVE  SecretsSoFar'
<1>1. /\ Lease!NonDisclosable' = Lease!NonDisclosable
      /\ Lease!EnvironmentGuard' = Lease!EnvironmentGuard
      /\ Lease!Disclosed' = Lease!Disclosed /\ kind' = kind
      /\ config' = config => Lease!ConfiguredGuard(config)' = Lease!ConfiguredGuard(config)
  BY OthersRest, GuardsFixed
<1>0. \A q \in Processes : AtWork(q) => SecretsKnown(q)
  BY DEF LeaseInvariant, SecretsSoFar
<1>2. ASSUME NEW q \in Processes \ {p}, AtWork(q)' PROVE SecretsKnown(q)'
  <2>1. /\ point'[q] = point[q] /\ known'[q] = known[q] /\ AtWork(q)
    BY <1>2, OthersRest DEF AtWork
  <2>2. point[q] \in {"configured", "admit", "write"} => config' = config
    BY <2>1, LockedStays
  <2>3. SecretsKnown(q)
    BY <1>0, <2>1
  <2> QED  BY <1>1, <2>1, <2>2, <2>3 DEF SecretsKnown, Lease!Token
<1>3. ASSUME AtWork(p)' PROVE SecretsKnown(p)'
  <2> USE DEF Lease!Goto, Lease!Knows, Lease!stores
  <2>1. /\ point \in [Processes -> Points] /\ known \in [Processes -> SUBSET Lease!Credential]
        /\ kind[p] \in Emitters
    BY <1>1, <1>3 DEF LeaseInvariant, Lease!TypeOK, AtWork
  <2>2. CASE Lease!LockCache(p)
    <3>1. known'[p] = known[p] \cup Lease!Start(p) /\ point'[p] = "list"
      BY <2>1, <2>2 DEF Lease!LockCache, Emitters
    <3> QED  BY <1>1, <2>1, <3>1 DEF SecretsKnown, Lease!Start, Emitters
  <2>3. CASE AtWork(p)
    <3>1. SecretsKnown(p)
      BY <1>0, <2>3
    <3>2. CASE Lease!ReadEntry(p) \/ Lease!List(p)
      <4>1. /\ known[p] \subseteq known'[p] /\ point[p] \in {"list", "read"}
            /\ point'[p] \in {"list", "read"}
        BY <2>1, <3>2 DEF Lease!ReadEntry, Lease!List
      <4> QED  BY <1>1, <3>1, <4>1 DEF SecretsKnown
    <3>3. CASE Lease!CacheKnown(p)
      <4>1. /\ known'[p] = IF kind[p] = "emit" THEN known[p] \cup Lease!EnvironmentGuard
                           ELSE known[p]
            /\ point'[p] \in {"fill", "config"}
        BY <2>1, <3>3 DEF Lease!CacheKnown
      <4> QED  BY <1>1, <3>1, <4>1 DEF SecretsKnown
    <3>4. CASE Lease!LockConfig(p) \/ Lease!Fill(p) \/ Lease!Configure(p) \/ Lease!Modify(p)
      <4>1. /\ known'[p] = known[p] /\ point'[p] \notin {"admit", "write", "list", "read"}
            /\ point[p] \notin {"list", "read"}
        BY <2>1, <2>3, <3>4
        DEF Lease!LockConfig, Lease!Fill, Lease!Configure, Lease!Modify, AtWork
      <4> QED  BY <1>1, <3>1, <4>1 DEF SecretsKnown
    <3>5. CASE Lease!Rename(p)
      <4>1. /\ known[p] \subseteq known'[p] /\ point'[p] \in {"commit", "done"}
            /\ point[p] = "rename"
        BY <2>1, <3>5 DEF Lease!Rename
      <4> QED  BY <1>1, <3>1, <4>1 DEF SecretsKnown
    <3>6. CASE Lease!ReadConfig(p)
      <4>1. /\ known' = [known EXCEPT ![p] = @ \cup
                           Lease!ConfiguredGuard(IF config = None THEN {} ELSE config)]
            /\ point'[p] = "admit" /\ point[p] = "configured" /\ config' = config
        BY <1>3, <2>1, <3>6 DEF Lease!ReadConfig, AtWork, Emitters
      <4> QED  BY <1>1, <2>1, <3>1, <4>1 DEF SecretsKnown
    <3>7. CASE Lease!Admit(p)
      <4>1. /\ known' = known /\ point'[p] = "write" /\ point[p] = "admit" /\ config' = config
            /\ kind[p] = "reveal" => Lease!Token(Lease!Disclosed) \notin known[p]
        BY <1>3, <2>1, <3>7 DEF Lease!Admit, AtWork
      <4> QED  BY <1>1, <3>1, <4>1 DEF SecretsKnown, Lease!Token
    <3>8. CASE Lease!Unreadable(p) \/ Lease!Written(p) \/ Lease!GiveUp(p)
      BY <1>1, <1>3, <2>1, <3>8
      DEF Lease!Unreadable, Lease!Written, Lease!GiveUp, AtWork, Emitters
    <3>9. ~Lease!LockCache(p)
      BY <2>3 DEF AtWork, Lease!LockCache
    <3> QED
      BY <3>2, <3>3, <3>4, <3>5, <3>6, <3>7, <3>8, <3>9 DEF Lease!Steps
  <2>4. AtWork(p) \/ Lease!LockCache(p)
    BY <1>1, <1>3, <2>1 DEF AtWork, Lease!Steps, Lease!LockCache, Lease!List, Lease!ReadEntry,
      Lease!Unreadable, Lease!CacheKnown, Lease!LockConfig, Lease!ReadConfig, Lease!Admit,
      Lease!Written, Lease!Fill, Lease!Rename, Lease!Configure, Lease!Modify, Lease!GiveUp, Emitters
  <2> QED  BY <2>2, <2>3, <2>4
<1>4. \A q \in Processes : AtWork(q)' => SecretsKnown(q)'
  BY <1>2, <1>3
<1> QED  BY <1>4 DEF SecretsSoFar

LEMMA SnapshotKept ==
  ASSUME LeaseInvariant, NEW p \in Processes, Lease!Steps(p) \/ Lease!GiveUp(p)
  PROVE  SnapshotSoFar'
<1> USE DEF Lease!stores
<1>1. \A q \in Processes : all_along[q] \subseteq Lease!Placed /\ SnapshotRead(q)
  BY DEF LeaseInvariant, SnapshotSoFar
<1>2. /\ \A q \in Processes : all_along'[q] \subseteq Lease!Placed'
      /\ Lease!LockCache(p) \/ \A q \in Processes : all_along'[q] \subseteq all_along[q]
  <2>1. CASE Lease!LockCache(p)
    <3>1. Lease!Placed' = Lease!Placed
      BY <2>1 DEF Lease!LockCache, Lease!Placed, Lease!Entries
    <3>2. all_along' = [all_along EXCEPT ![p] = Lease!Placed]
      BY <2>1 DEF Lease!LockCache
    <3> QED  BY <1>1, <2>1, <3>1, <3>2 DEF LeaseInvariant
  <2>2. CASE Lease!Rename(p)
    BY <2>2 DEF Lease!Rename, Lease!Watched
  <2>3. CASE UNCHANGED <<cache, all_along>>
    BY <1>1, <2>3 DEF Lease!Placed, Lease!Entries
  <2>4. Lease!LockCache(p) \/ Lease!Rename(p) \/ UNCHANGED <<cache, all_along>>
    BY DEF Lease!Steps, Lease!List, Lease!ReadEntry,
      Lease!Unreadable, Lease!CacheKnown, Lease!LockConfig, Lease!ReadConfig, Lease!Admit,
      Lease!Written, Lease!Fill, Lease!Configure, Lease!Modify, Lease!GiveUp
  <2> QED  BY <2>1, <2>2, <2>3, <2>4
<1>3. ASSUME NEW q \in Processes \ {p} PROVE SnapshotRead(q)'
  <2>1. point'[q] = point[q] /\ known'[q] = known[q] /\ todo'[q] = todo[q] /\ kind' = kind
    BY OthersRest
  <2>2. all_along'[q] \subseteq all_along[q]
    BY <1>2 DEF Lease!LockCache, LeaseInvariant
  <2> QED  BY <1>1, <2>1, <2>2 DEF SnapshotRead, Lease!Token
<1>4. ASSUME kind[p] = "snapshot" PROVE SnapshotRead(p)'
  <2> USE DEF Lease!Goto, Lease!Knows
  <2>1. /\ point \in [Processes -> Points] /\ known \in [Processes -> SUBSET Lease!Credential]
        /\ todo \in [Processes -> SUBSET (Paths \cup Lease!Image)]
        /\ cache \in [Paths -> Lease!Image \cup {None}] /\ None \notin Lease!Image
        /\ kind' = kind /\ SnapshotRead(p) /\ all_along[p] \subseteq Lease!Placed
    BY <1>1, OthersRest, LeaseAssumption DEF LeaseInvariant, Lease!TypeOK
  <2>2. \A place \in Lease!Placed : /\ place.path \in Paths /\ cache[place.path] # None
                                    /\ cache[place.path].token = place.token
                                    /\ place.token \in Tokens
    BY <2>1 DEF Lease!Placed, Lease!Entries, Lease!Image
  <2>3. CASE Lease!LockCache(p)
    BY <1>4, <2>1, <2>3 DEF Lease!LockCache, SnapshotRead
  <2>4. CASE ~Lease!LockCache(p)
    <3>1. all_along'[p] \subseteq all_along[p]
      BY <1>2, <2>4
    <3>2. CASE Lease!List(p)
      BY <1>4, <2>1, <2>2, <3>1, <3>2 DEF Lease!List, Lease!Listed, Lease!Entries, SnapshotRead
    <3>3. CASE Lease!ReadEntry(p)
      <4>1. PICK entry \in todo[p] :
              /\ todo' = [todo EXCEPT ![p] = @ \ {entry}]
              /\ \/ Lease!Holds(entry) = None /\ UNCHANGED known
                 \/ /\ Lease!Holds(entry) # None
                    /\ \E more \in Lease!ImageGuards(Lease!Holds(entry), None) :
                         Lease!Knows(p, more)
        BY <1>4, <3>3 DEF Lease!ReadEntry
      <4>2. point' = point /\ point[p] = "read"
        BY <3>3 DEF Lease!ReadEntry
      <4>3. ASSUME NEW place \in all_along[p], entry = place.path
            PROVE  Lease!Token(place.token) \in known'[p]
        <5>1. /\ Lease!Holds(entry) = cache[place.path] /\ cache[place.path] \in Lease!Image
              /\ cache[place.path].token = place.token /\ cache[place.path] # None
          BY <2>1, <2>2, <4>3 DEF Lease!Holds
        <5>2. PICK more \in Lease!ImageGuards(Lease!Holds(entry), None) : Lease!Knows(p, more)
          BY <4>1, <5>1
        <5> QED  BY <2>1, <5>1, <5>2, ImageGuardsTyped
      <4>4. known[p] \subseteq known'[p] /\ todo'[p] = todo[p] \ {entry}
        BY <2>1, <4>1
      <4> QED  BY <2>1, <3>1, <4>2, <4>3, <4>4 DEF SnapshotRead, Lease!Token
    <3>4. CASE Lease!Unreadable(p)
      <4>1. Lease!Knows(p, Lease!DenyAll)
        BY <1>4, <3>4 DEF Lease!Unreadable
      <4> QED  BY <2>1, <2>2, <3>1, <4>1, GuardsTyped DEF SnapshotRead, Lease!DenyAll, Lease!Token
    <3>5. CASE Lease!CacheKnown(p) \/ Lease!LockConfig(p)
      BY <1>4, <2>1, <3>1, <3>5 DEF Lease!CacheKnown, Lease!LockConfig, SnapshotRead, Lease!Token
    <3>6. CASE Lease!ReadConfig(p)
      <4>1. /\ known[p] \subseteq known'[p] /\ todo' = todo /\ point[p] = "configured"
        BY <2>1, <3>6 DEF Lease!ReadConfig
      <4> QED  BY <1>4, <2>1, <3>1, <4>1 DEF SnapshotRead, Lease!Token
    <3>7. CASE Lease!GiveUp(p)
      BY <2>1, <3>7 DEF Lease!GiveUp, SnapshotRead
    <3>8. point[p] \notin {"admit", "write", "fill", "rename", "commit", "modify"}
      BY <1>4 DEF LeaseInvariant, LocksHeld, HoldsLocks, Stages
    <3> QED
      BY <1>4, <2>4, <3>2, <3>3, <3>4, <3>5, <3>6, <3>7, <3>8
      DEF Lease!Steps, Lease!Admit, Lease!Written, Lease!Fill, Lease!Rename, Lease!Configure,
          Lease!Modify
  <2> QED  BY <2>3, <2>4
<1>5. kind[p] # "snapshot" => SnapshotRead(p)'
  BY OthersRest DEF SnapshotRead
<1> QED  BY <1>2, <1>3, <1>4, <1>5 DEF SnapshotSoFar

LEMMA LeaseKept ==
  ASSUME LeaseInvariant, Lease!Next
  PROVE  LeaseInvariant'
<1>1. PICK p \in Processes : Lease!Steps(p) \/ Lease!GiveUp(p)
  BY DEF Lease!Next
<1> QED
  BY <1>1, LeaseTypeKept, LocksKept, DraftsKept, CacheKept, SecretsKept, SnapshotKept
  DEF LeaseInvariant

LEMMA LeaseRested ==
  ASSUME LeaseInvariant, UNCHANGED leaseVars
  PROVE  LeaseInvariant'
<1> USE DEF leaseVars, LeaseInvariant
<1>1. Lease!TypeOK' /\ LocksHeld' /\ Drafts'
  BY DEF Lease!TypeOK, LocksHeld, HoldsLocks, Drafts, AtWork
<1>2. /\ Lease!NonDisclosable' = Lease!NonDisclosable
      /\ Lease!EnvironmentGuard' = Lease!EnvironmentGuard
      /\ Lease!Disclosed' = Lease!Disclosed
      /\ \A path : Lease!Excluded(path)' = Lease!Excluded(path)
      /\ Lease!ConfiguredGuard(config)' = Lease!ConfiguredGuard(config)
  BY GuardsFixed
<1>3. CacheSoFar' /\ SecretsSoFar'
  BY <1>2 DEF CacheSoFar, CacheRead, SecretsSoFar, SecretsKnown, AtWork, Lease!Token
<1>4. SnapshotSoFar'
  BY DEF SnapshotSoFar, SnapshotRead, Lease!Placed, Lease!Entries, Lease!Token
<1> QED  BY <1>1, <1>3, <1>4

LEMMA AlwaysLeased == CommandsSpec => [](part = "lease" => LeaseInvariant)
<1>1. (part = "lease" => LeaseInvariant) /\ [CommandsNext]_all
        => (part = "lease" => LeaseInvariant)'
  BY LeaseElsewhere, LeaseKept, LeaseRested
<1> QED  BY LeaseBegins, <1>1, PTL DEF CommandsSpec

\* Nothing that is stored is unknown to who writes, but for the token that the user
\* asked to see.
LEMMA StoredIsKnown == LeaseInvariant => Lease!NothingStoredShown
<1> SUFFICES ASSUME LeaseInvariant, NEW p \in Processes, point[p] = "write",
                    NEW credential \in Lease!Stored \ known[p]
             PROVE  /\ kind[p] = "reveal" /\ credential = Lease!Token(Lease!Disclosed)
                    /\ \A path \in Paths :
                         cache[path] # None /\ Lease!Token(cache[path].token) = credential
                           => cache[path] = Lease!Excluded(path)
                    /\ \A image \in temporary : Lease!Token(image.token) # credential
  BY DEF Lease!NothingStoredShown, Lease!Writing
<1>1. AtWork(p) /\ todo[p] = {} /\ kind[p] \in Emitters
  BY DEF LeaseInvariant, LocksHeld, HoldsLocks, Stages, AtWork, Emitters, Drafts, Lease!TypeOK,
         Lease!Kinds
<1>2. CacheRead(p) /\ SecretsKnown(p)
  BY <1>1 DEF LeaseInvariant, CacheSoFar, SecretsSoFar
<1>3. \A image \in temporary : Lease!Token(image.token) # credential
  BY <1>1, <1>2 DEF CacheRead
<1>4. \A path \in Paths :
        cache[path] # None /\ Lease!Token(cache[path].token) = credential
          => kind[p] = "reveal" /\ cache[path] = Lease!Excluded(path)
  BY <1>1, <1>2 DEF CacheRead
<1>5. CASE credential \in Lease!CommittedCache
  <2>1. PICK path \in Paths :
          cache[path] # None /\ Lease!Token(cache[path].token) = credential
    BY <1>5 DEF Lease!CommittedCache, Lease!Images
  <2>2. kind[p] = "reveal" /\ cache[path] = Lease!Excluded(path)
    BY <1>4, <2>1
  <2>3. cache[path].token = Lease!Disclosed
    BY <2>1, <2>2 DEF Lease!Excluded
  <2> QED  BY <1>3, <1>4, <2>1, <2>2, <2>3
<1>6. CASE credential \in Lease!EnvironmentGuard
  <2>1. /\ kind[p] = "reveal" /\ environment.token /\ credential = Lease!Token(Lease!Env)
    BY <1>1, <1>2, <1>6 DEF SecretsKnown, Lease!EnvironmentGuard, Emitters
  <2> QED  BY <1>3, <1>4, <2>1 DEF Lease!Disclosed
<1>7. CASE config # None /\ credential \in Lease!ConfiguredGuard(config)
  BY <1>2, <1>7 DEF SecretsKnown
<1> QED  BY <1>3, <1>5, <1>6, <1>7 DEF Lease!Stored

\* Who writes under both locks knows every stored credential but the token that the
\* user asked to see, and a snapshot without locks misses nothing that stayed in place.
THEOREM OutputsAreGuarded == CommandsSpec => []LeaseInv
<1>1. LeaseInvariant => Lease!SnapshotCovers
  BY DEF LeaseInvariant, Drafts, SnapshotSoFar, SnapshotRead, Lease!SnapshotCovers
<1>2. (part = "lease" => LeaseInvariant) => LeaseInv
  BY <1>1, StoredIsKnown DEF LeaseInv, LeaseInvariant
<1> QED  BY <1>2, AlwaysLeased, PTL

-------------------------------------------------------------------------------
(***************************************************************************)
(* A scan that can be resumed (EntityScan).                                *)
(***************************************************************************)
\* The output holds object n under the number n.
Numbered(n) == \A i \in 1..n : [sequence |-> i, object |-> i] \in artifact

\* What the resume file and the scans have counted is written, and within bounds.
Counted(p) ==
  /\ scan[p].state.cursor = scan[p].state.sequence /\ Numbered(scan[p].state.sequence)
  /\ scan[p].initial <= scan[p].state.sequence
  /\ scan[p].state.sequence <= scan[p].initial + MaxItems
  /\ pc[p] \in {"request", "emit"} => ~scan[p].state.exhausted
  /\ pc[p] = "request" =>
       scan[p].pages < MaxPages /\ scan[p].state.sequence < scan[p].initial + MaxItems
  /\ pc[p] = "emit" =>
       /\ scan[p].next.cursor = scan[p].next.sequence
       /\ scan[p].next.sequence >= scan[p].state.sequence
       /\ scan[p].next.sequence <= scan[p].initial + MaxItems
Counts ==
  /\ resume.cursor = resume.sequence /\ Numbered(resume.sequence)
  /\ \A item \in artifact : item.sequence = item.object
  /\ \A p \in Processes : Counted(p)

\* Who holds the lock is ahead of the resume file, once it has read it.
Ahead ==
  \A p \in Processes : Holds(p) /\ pc[p] # "read" =>
    /\ resume.sequence <= scan[p].state.sequence
    /\ resume.exhausted => scan[p].state.exhausted

\* A thread is there while its scan waits, or once it has given up.
ThreadSoFar(p) ==
  /\ thread[p] # "none" => pc[p] \in {"await", "ended"} /\ scan[p].emitted
  /\ thread[p] \in {"spawned", "launched"} => ~landed[p]
  /\ pc[p] = "await" => thread[p] # "none" /\ (landed[p] <=> thread[p] \in {"ok", "committed"})
  /\ pc[p] = "ended" /\ thread[p] = "spawned" => stop[p]
Threads == \A p \in Processes : ThreadSoFar(p)

\* What a scan says of itself before it ends, and then reports.
SaidSoFar(p) ==
  /\ pc[p] \in {"idle", "setup", "read"} => scan[p] = NoScan /\ ~wrote[p] /\ ~landed[p]
  /\ pc[p] \in Running =>
       /\ wrote[p] => scan[p].emitted
       /\ landed[p] => ~scan[p].fresh \/ scan[p].emitted
       /\ pc[p] # "await" => scan[p].local = IF landed[p] THEN "yes" ELSE "no"
  /\ pc[p] \in {"commit", "await"} => scan[p].emitted /\ (scan[p].last \/ scan[p].saved)
  /\ pc[p] = "commit" => ~landed[p]
  /\ pc[p] = "loop" /\ landed[p] => scan[p].saved
  /\ pc[p] # "ended" => report[p] = NoReport
  /\ report[p].safe => ~scan[p].emitted /\ ~wrote[p] /\ ~landed[p]
  /\ report[p].kind = "error" =>
       /\ report[p].local = "yes" => landed[p]
       /\ report[p].local = "no" => ~landed[p] /\ thread[p] # "launched"
Said == \A p \in Processes : SaidSoFar(p)

ScanInvariant == TypeOK /\ Counts /\ Ahead /\ Threads /\ Said

ScanStep(p) ==
  \/ Start(p) \/ Forced(p) \/ RequestFails(p) \/ Page(p)
  \/ Emit(p) \/ EmitFails(p) \/ EmitRefused(p)
  \/ Launch(p) \/ Write(p) \/ Stop(p) \/ Exit(p)

LEMMA ScanElsewhere ==
  ASSUME [CommandsNext]_all
  PROVE  Next \/ UNCHANGED vars
  BY DEF CommandsNext, all, InScan, InControl, InRaw, InStream, InRoute, InTarget, InLease,
         InDiagnosis

LEMMA NoScanTyped == NoState \in State /\ NoScan \in Scan /\ NoReport \in Report
  BY ScanAssumption DEF NoState, State, NoScan, Scan, NoReport, Report

LEMMA ScanBegins == CommandsInit => ScanInvariant
<1> SUFFICES ASSUME Init PROVE ScanInvariant
  BY DEF CommandsInit
<1>1. TypeOK
  BY NoScanTyped DEF Init, TypeOK, NoFile, Running, Holds
<1>2. Counts
  BY ScanAssumption, NoScanTyped
  DEF Init, Counts, Counted, Numbered, NoFile, NoState, NoScan
<1> QED
  BY <1>1, <1>2
  DEF Init, ScanInvariant, Ahead, Threads, ThreadSoFar, Said, SaidSoFar, Holds, Running,
      NoReport

\* A run of a scan leaves the others' alone, and only a thread's write the resume file.
Alone(p) ==
  \A q \in Processes \ {p} :
    /\ pc'[q] = pc[q] /\ stop'[q] = stop[q] /\ scan'[q] = scan[q] /\ thread'[q] = thread[q]
    /\ report'[q] = report[q] /\ wrote'[q] = wrote[q] /\ landed'[q] = landed[q]

LEMMA FailIs ==
  ASSUME NEW p \in Processes, NEW s, NEW omitted \in BOOLEAN, Fail(p, s, omitted)
  PROVE  /\ pc' = [pc EXCEPT ![p] = "ended"] /\ scan' = [scan EXCEPT ![p] = s]
         /\ UNCHANGED stop
         /\ \E safe \in BOOLEAN :
              /\ report' = [report EXCEPT ![p] = [kind |-> "error", safe |-> safe,
                                                  local |-> s.local]]
              /\ safe => SafeToReplay(s, omitted)
<1>1. PICK underlying \in BOOLEAN :
        End(p, "error", underlying /\ SafeToReplay(s, omitted), s.local)
  BY DEF Fail
<1>2. SafeToReplay(s, omitted) \in BOOLEAN
  BY DEF SafeToReplay
<1> QED  BY <1>1, <1>2 DEF Fail, End, Set

LEMMA ScanAlone ==
  ASSUME ScanInvariant, NEW p \in Processes, ScanStep(p)
  PROVE  Alone(p) /\ (Write(p) \/ UNCHANGED resume)
<1> USE DEF ScanInvariant, TypeOK, Alone, files, Goto, Set, End, Fail
<1>1. CASE Start(p) \/ Lock(p) \/ SetupFails(p) \/ Load(p) \/ Request(p)
  BY <1>1 DEF Start, Lock, SetupFails, Load, Request
<1>2. CASE RequestFails(p) \/ EmitFails(p) \/ EmitRefused(p)
  BY <1>2 DEF RequestFails, EmitFails, EmitRefused
<1>3. CASE LastCheckpoint(p) \/ NoCheckpoint(p) \/ Summary(p)
  BY <1>3 DEF LastCheckpoint, NoCheckpoint, Summary
<1>4. CASE Commit(p) \/ CommitStopped(p) \/ Resolve(p) \/ Abandon(p)
  BY <1>4 DEF Commit, CommitStopped, Resolve, Abandon, CommitFails
<1>5. CASE Page(p) \/ Emit(p)
  BY <1>5 DEF Page, Emit
<1>6. CASE Launch(p) \/ Write(p) \/ Stop(p) \/ Exit(p)
  BY <1>6 DEF Launch, Write, Stop, Exit
<1> QED  BY <1>1, <1>2, <1>3, <1>4, <1>5, <1>6 DEF ScanStep, Forced

\* What the runs of the others have counted, were ahead of and said stays so.
LEMMA OthersKept ==
  ASSUME ScanInvariant, NEW p \in Processes, Alone(p), TypeOK', artifact \subseteq artifact',
         NEW q \in Processes \ {p}
  PROVE  /\ Counted(q)' /\ ThreadSoFar(q)' /\ SaidSoFar(q)'
         /\ Holds(q)' <=> Holds(q)
<1>1. /\ pc'[q] = pc[q] /\ stop'[q] = stop[q] /\ scan'[q] = scan[q] /\ thread'[q] = thread[q]
      /\ report'[q] = report[q] /\ wrote'[q] = wrote[q] /\ landed'[q] = landed[q]
  BY DEF Alone
<1>2. Counted(q) /\ ThreadSoFar(q) /\ SaidSoFar(q)
  BY DEF ScanInvariant, Counts, Threads, Said
<1>3. Counted(q)'
  BY <1>1, <1>2 DEF Counted, Numbered
<1> QED  BY <1>1, <1>2, <1>3 DEF ThreadSoFar, SaidSoFar, Holds

\* One run moves on.
LEMMA ScanMoves ==
  ASSUME ScanInvariant, NEW p \in Processes, Alone(p), UNCHANGED resume,
         scan' \in [Processes -> Scan], pc' \in [Processes -> Running \cup {"idle", "ended"}],
         stop' \in [Processes -> BOOLEAN], report' \in [Processes -> Report],
         thread' \in [Processes -> {"none", "spawned", "launched", "refused", "ok",
                                    "committed", "failed"}],
         wrote' \in [Processes -> BOOLEAN], landed' \in [Processes -> BOOLEAN],
         artifact \subseteq artifact',
         artifact' \subseteq [sequence : 1..Objects, object : 1..Objects],
         \A item \in artifact' : item.sequence = item.object,
         Holds(p)' => Holds(p) \/ \A q \in Processes : ~Holds(q),
         Holds(p)' /\ pc'[p] # "read" =>
           /\ resume.sequence <= scan'[p].state.sequence
           /\ resume.exhausted => scan'[p].state.exhausted,
         Counted(p)', ThreadSoFar(p)', SaidSoFar(p)'
  PROVE  ScanInvariant'
<1>1. TypeOK'
  <2>1. \A q, r \in Processes : Holds(q)' /\ Holds(r)' => q = r
    <3>1. \A q \in Processes \ {p} : Holds(q)' <=> Holds(q)
      BY DEF Alone, Holds
    <3>2. \A q, r \in Processes : Holds(q) /\ Holds(r) => q = r
      BY DEF ScanInvariant, TypeOK
    <3> QED  BY <3>1, <3>2
  <2>2. resume' \in State
    BY DEF ScanInvariant, TypeOK
  <2> QED  BY <2>1, <2>2 DEF TypeOK
<1>2. \A q \in Processes : Counted(q)' /\ ThreadSoFar(q)' /\ SaidSoFar(q)'
  BY <1>1, OthersKept
<1>3. Ahead'
  <2>1. ASSUME NEW q \in Processes \ {p}, (Holds(q) /\ pc[q] # "read")'
        PROVE  /\ resume'.sequence <= scan'[q].state.sequence
               /\ resume'.exhausted => scan'[q].state.exhausted
    BY <1>1, <2>1, OthersKept DEF Alone, ScanInvariant, Ahead
  <2> QED  BY <2>1 DEF Ahead
<1>4. Counts'
  BY <1>2 DEF ScanInvariant, Counts, Numbered
<1> QED  BY <1>1, <1>2, <1>3, <1>4 DEF ScanInvariant, Threads, Said

\* A run ends with an error.
LEMMA RunEnds ==
  ASSUME ScanInvariant, NEW p \in Processes, NEW s \in Scan, NEW omitted \in BOOLEAN,
         Fail(p, s, omitted), Alone(p), UNCHANGED <<resume, landed>>,
         pc[p] \in Running \ {"setup", "read"},
         s.state = scan[p].state, s.initial = scan[p].initial, s.fresh = scan[p].fresh,
         s.emitted = scan[p].emitted,
         thread' \in [Processes -> {"none", "spawned", "launched", "refused", "ok",
                                    "committed", "failed"}],
         wrote' \in [Processes -> BOOLEAN],
         artifact \subseteq artifact',
         artifact' \subseteq [sequence : 1..Objects, object : 1..Objects],
         \A item \in artifact' : item.sequence = item.object,
         wrote'[p] => s.emitted \/ (s.attempted /\ ~omitted),
         thread'[p] # "none" => s.emitted,
         thread'[p] \in {"spawned", "launched"} => ~landed[p],
         thread'[p] = "spawned" => stop[p],
         s.local = "yes" => landed[p],
         s.local = "no" => ~landed[p] /\ thread'[p] # "launched"
  PROVE  ScanInvariant'
<1>1. /\ pc' = [pc EXCEPT ![p] = "ended"] /\ scan' = [scan EXCEPT ![p] = s] /\ UNCHANGED stop
  BY FailIs
<1>2. PICK safe \in BOOLEAN :
        /\ report' = [report EXCEPT ![p] = [kind |-> "error", safe |-> safe, local |-> s.local]]
        /\ safe => SafeToReplay(s, omitted)
  BY FailIs
<1>3. /\ pc \in [Processes -> Running \cup {"idle", "ended"}] /\ scan \in [Processes -> Scan]
      /\ report \in [Processes -> Report] /\ stop \in [Processes -> BOOLEAN]
      /\ landed \in [Processes -> BOOLEAN] /\ Holds(p)
      /\ Counted(p) /\ SaidSoFar(p) /\ ThreadSoFar(p)
  BY DEF ScanInvariant, TypeOK, Counts, Said, Threads, Holds, Running
<1>4. [kind |-> "error", safe |-> safe, local |-> s.local] \in Report
  BY DEF Report, Scan
<1>5. /\ pc' \in [Processes -> Running \cup {"idle", "ended"}] /\ pc'[p] = "ended"
      /\ scan' \in [Processes -> Scan] /\ scan'[p] = s
      /\ report' \in [Processes -> Report] /\ report'[p].kind = "error"
      /\ report'[p].safe = safe /\ report'[p].local = s.local
  BY <1>1, <1>2, <1>3, <1>4
<1>6. Counted(p)'
  BY <1>3, <1>5 DEF Counted, Numbered
<1>7. ThreadSoFar(p)'
  BY <1>1, <1>5 DEF ThreadSoFar
<1>8. SaidSoFar(p)'
  <2>1. safe => ~s.emitted /\ ~wrote'[p] /\ ~landed[p]
    BY <1>2, <1>3 DEF SafeToReplay, SaidSoFar, ThreadSoFar
  <2> QED  BY <1>5, <2>1 DEF SaidSoFar, Running
<1>9. /\ resume.sequence <= scan'[p].state.sequence
      /\ resume.exhausted => scan'[p].state.exhausted
  BY <1>3, <1>5 DEF ScanInvariant, Ahead
<1> QED
  BY <1>1, <1>3, <1>5, <1>6, <1>7, <1>8, <1>9, ScanMoves

\* The types of one run, and what holds of it before the step.
LEMMA RunIs ==
  ASSUME ScanInvariant, NEW p \in Processes
  PROVE  /\ pc \in [Processes -> Running \cup {"idle", "ended"}] /\ stop \in [Processes -> BOOLEAN]
         /\ scan \in [Processes -> Scan] /\ report \in [Processes -> Report]
         /\ thread \in [Processes -> {"none", "spawned", "launched", "refused", "ok",
                                      "committed", "failed"}]
         /\ wrote \in [Processes -> BOOLEAN] /\ landed \in [Processes -> BOOLEAN]
         /\ artifact \subseteq [sequence : 1..Objects, object : 1..Objects]
         /\ \A item \in artifact : item.sequence = item.object
         /\ resume \in State /\ Counted(p) /\ ThreadSoFar(p) /\ SaidSoFar(p)
         /\ Holds(p) /\ pc[p] # "read" =>
              /\ resume.sequence <= scan[p].state.sequence
              /\ resume.exhausted => scan[p].state.exhausted
  BY DEF ScanInvariant, TypeOK, Counts, Said, Threads, Ahead

LEMMA SetupKept ==
  ASSUME ScanInvariant, NEW p \in Processes, Alone(p), UNCHANGED resume,
         Start(p) \/ Lock(p) \/ SetupFails(p) \/ Load(p)
  PROVE  ScanInvariant'
<1> USE NoScanTyped, ScanAssumption DEF Goto, Set, files
<1>1. CASE Start(p)
  <2>1. /\ scan'[p] = NoScan /\ pc'[p] = "setup" /\ report'[p] = NoReport /\ ~wrote'[p]
        /\ ~landed'[p] /\ thread' = thread /\ artifact' = artifact /\ pc[p] = "idle"
        /\ ~stop'[p]
    BY <1>1, RunIs DEF Start
  <2>2. Counted(p)' /\ ThreadSoFar(p)' /\ SaidSoFar(p)' /\ ~Holds(p)'
    BY <2>1, RunIs
    DEF Counted, Numbered, ThreadSoFar, SaidSoFar, Holds, NoScan, NoState, NoReport, Running
  <2> QED  BY <1>1, <2>1, <2>2, RunIs, ScanMoves DEF Start, Running
<1>2. CASE Lock(p)
  <2>1. /\ UNCHANGED <<scan, report, wrote, landed, thread, artifact, stop>>
        /\ pc[p] = "setup" /\ pc'[p] = "read" /\ \A q \in Processes : ~Holds(q)
    BY <1>2, RunIs DEF Lock
  <2>2. Counted(p)' /\ ThreadSoFar(p)' /\ SaidSoFar(p)'
    BY <2>1, RunIs DEF Counted, Numbered, ThreadSoFar, SaidSoFar, Running, NoScan
  <2> QED  BY <1>2, <2>1, <2>2, RunIs, ScanMoves DEF Lock, Running
<1>3. CASE SetupFails(p)
  <2>1. /\ UNCHANGED <<scan, wrote, landed, thread, artifact, stop>>
        /\ pc[p] \in {"setup", "read"} /\ pc' = [pc EXCEPT ![p] = "ended"]
        /\ report' = [report EXCEPT ![p] = [kind |-> "setup", safe |-> FALSE, local |-> "no"]]
    BY <1>3 DEF SetupFails, End
  <2>2. [kind |-> "setup", safe |-> FALSE, local |-> "no"] \in Report
    BY DEF Report
  <2>3. Counted(p)' /\ ThreadSoFar(p)' /\ SaidSoFar(p)'
    BY <2>1, RunIs DEF Counted, Numbered, ThreadSoFar, SaidSoFar, Running, NoScan
  <2>4. ~Holds(p)'
    BY <2>1, RunIs DEF Holds, Running, ThreadSoFar
  <2> QED  BY <2>1, <2>2, <2>3, <2>4, RunIs, ScanMoves
<1>4. CASE Load(p)
  <2>1. /\ UNCHANGED <<report, wrote, thread, artifact, stop>>
        /\ pc[p] = "read" /\ pc' = [pc EXCEPT ![p] = "loop"]
    BY <1>4 DEF Load
  <2>2. PICK s \in Scan : /\ scan' = [scan EXCEPT ![p] = s] /\ s.state = resume
                          /\ s.initial = resume.sequence /\ ~s.emitted
                          /\ \/ landed' = [landed EXCEPT ![p] = TRUE] /\ ~s.fresh /\ s.saved
                                  /\ s.local = "yes"
                             \/ UNCHANGED landed /\ s.local = "no"
    <3>1. CASE resume = NoFile /\ Set(p, NoScan) /\ UNCHANGED landed
      <4>1. /\ NoScan.state = resume /\ NoScan.initial = resume.sequence /\ ~NoScan.emitted
            /\ NoScan.local = "no"
        BY <3>1 DEF NoScan, NoFile, NoState
      <4> QED  BY <3>1, <4>1
    <3>2. CASE resume # NoFile
      <4> DEFINE s == [NoScan EXCEPT !.state = resume, !.initial = resume.sequence,
                                     !.fresh = FALSE, !.saved = TRUE, !.local = "yes"]
      <4>1. scan' = [scan EXCEPT ![p] = s] /\ landed' = [landed EXCEPT ![p] = TRUE]
        BY <1>4, <3>2 DEF Load
      <4>2. /\ s \in Scan /\ s.state = resume /\ s.initial = resume.sequence /\ ~s.emitted
            /\ ~s.fresh /\ s.saved /\ s.local = "yes"
        BY RunIs DEF Scan, NoScan, State
      <4> HIDE DEF s
      <4> QED  BY <4>1, <4>2
    <3> QED  BY <1>4, <3>1, <3>2 DEF Load
  <2>3. /\ scan' \in [Processes -> Scan] /\ scan'[p] = s /\ pc'[p] = "loop"
        /\ pc' \in [Processes -> Running \cup {"idle", "ended"}]
        /\ landed' \in [Processes -> BOOLEAN]
    BY <2>1, <2>2, RunIs DEF Running
  <2>4. Counted(p)'
    <3>1. resume.cursor = resume.sequence /\ Numbered(resume.sequence) /\ resume.sequence \in Nat
      BY RunIs DEF ScanInvariant, Counts, State
    <3> QED  BY <2>1, <2>2, <2>3, <3>1 DEF Counted, Numbered
  <2>5. ThreadSoFar(p)' /\ SaidSoFar(p)'
    BY <2>1, <2>2, <2>3, RunIs DEF ThreadSoFar, SaidSoFar, Running, NoScan, NoReport
  <2>6. Holds(p)
    BY <2>1 DEF Holds, Running
  <2>7. /\ resume.sequence <= scan'[p].state.sequence
        /\ resume.exhausted => scan'[p].state.exhausted
    BY <2>2, <2>3, RunIs DEF State
  <2> QED  BY <2>1, <2>3, <2>4, <2>5, <2>6, <2>7, RunIs, ScanMoves
<1> QED  BY <1>1, <1>2, <1>3, <1>4

LEMMA ItemsOfPage ==
  ASSUME ScanInvariant, NEW p \in Processes, pc[p] = "emit", NEW n \in 0..Count(scan[p])
  PROVE  /\ Count(scan[p]) \in Nat
         /\ PageItems(scan[p], n) \subseteq [sequence : 1..Objects, object : 1..Objects]
         /\ \A item \in PageItems(scan[p], n) : item.sequence = item.object
<1>1. /\ scan[p].state.cursor = scan[p].state.sequence
      /\ scan[p].next.sequence >= scan[p].state.sequence
      /\ scan[p].next.sequence \in 0..Objects /\ scan[p].state.sequence \in 0..Objects
  BY RunIs DEF Counted, Scan, State
<1>2. Count(scan[p]) \in Nat /\ scan[p].state.sequence + n <= Objects
  BY <1>1, ScanAssumption DEF Count
<1>3. ASSUME NEW k \in 1..n
      PROVE  /\ Item(scan[p], k) \in [sequence : 1..Objects, object : 1..Objects]
             /\ Item(scan[p], k).sequence = Item(scan[p], k).object
  BY <1>1, <1>2, ScanAssumption DEF Item
<1> QED  BY <1>2, <1>3 DEF PageItems

LEMMA PagesKept ==
  ASSUME ScanInvariant, NEW p \in Processes, Alone(p), UNCHANGED resume,
         Request(p) \/ RequestFails(p) \/ Page(p) \/ Emit(p) \/ EmitFails(p) \/ EmitRefused(p)
  PROVE  ScanInvariant'
<1> USE ScanAssumption DEF Goto, Set, files
<1>1. CASE Request(p)
  <2>1. /\ UNCHANGED <<scan, report, wrote, landed, thread, artifact, stop>>
        /\ pc[p] = "loop" /\ pc' = [pc EXCEPT ![p] = "request"] /\ ~Finished(p)
    BY <1>1 DEF Request
  <2>2. Counted(p)'
    <3>1. /\ scan[p].initial \in Nat /\ scan[p].state.sequence \in Nat /\ scan[p].pages \in Nat
          /\ MaxItems \in Nat /\ MaxPages \in Nat
      BY RunIs DEF Scan, State
    <3>2. /\ ~scan[p].state.exhausted /\ scan[p].pages < MaxPages
          /\ scan[p].state.sequence < scan[p].initial + MaxItems
      BY <2>1, <3>1 DEF Finished, ReturnedThisRun
    <3> QED  BY <2>1, <3>2, RunIs DEF Counted, Numbered
  <2>3. ThreadSoFar(p)' /\ SaidSoFar(p)' /\ Holds(p)
    BY <2>1, RunIs DEF ThreadSoFar, SaidSoFar, Running, Holds
  <2> QED  BY <2>1, <2>2, <2>3, RunIs, ScanMoves DEF Running
<1>2. CASE RequestFails(p)
  <2>1. /\ Fail(p, scan[p], FALSE) /\ UNCHANGED <<resume, artifact, thread, wrote, landed>>
        /\ pc[p] \in {"loop", "request", "emit", "summary"}
    BY <1>2 DEF RequestFails
  <2>2. /\ wrote'[p] => scan[p].emitted
        /\ thread'[p] = "none"
        /\ scan[p].local = "yes" => landed[p]
        /\ scan[p].local = "no" => ~landed[p]
    BY <2>1, RunIs DEF SaidSoFar, ThreadSoFar, Running
  <2> QED  BY <2>1, <2>2, RunIs, RunEnds DEF Running
<1>3. CASE Page(p)
  <2>1. PICK n \in 0..PageMax(p) :
          /\ n <= Objects - scan[p].state.cursor
          /\ scan' = [scan EXCEPT ![p] =
               [scan[p] EXCEPT !.pages = @ + 1,
                               !.next = [cursor |-> scan[p].state.cursor + n,
                                         sequence |-> scan[p].state.sequence + n,
                                         exhausted |-> n = 0]]]
    BY <1>3 DEF Page
  <2>2. /\ UNCHANGED <<report, wrote, landed, thread, artifact, stop>>
        /\ pc[p] = "request" /\ pc' = [pc EXCEPT ![p] = "emit"]
    BY <1>3 DEF Page
  <2>3. /\ scan[p].initial \in Nat /\ scan[p].state.sequence \in Nat /\ scan[p].pages \in Nat
        /\ scan[p].state.cursor = scan[p].state.sequence /\ scan[p].pages + 1 \in 0..MaxPages
        /\ scan[p].state.sequence < scan[p].initial + MaxItems
        /\ scan[p].initial <= scan[p].state.sequence
        /\ MaxItems \in Nat /\ PageSize \in Nat /\ scan[p] \in Scan
    BY <2>2, RunIs DEF Scan, State, Counted
  <2>4. /\ n \in Nat /\ scan[p].state.sequence + n <= scan[p].initial + MaxItems
        /\ scan[p].state.sequence + n <= Objects
    BY <2>1, <2>3 DEF PageMax, ReturnedThisRun
  <2> DEFINE s == [scan[p] EXCEPT !.pages = @ + 1,
                                  !.next = [cursor |-> scan[p].state.cursor + n,
                                            sequence |-> scan[p].state.sequence + n,
                                            exhausted |-> n = 0]]
  <2>5. /\ s \in Scan /\ s.state = scan[p].state /\ s.initial = scan[p].initial
        /\ s.emitted = scan[p].emitted /\ s.fresh = scan[p].fresh /\ s.local = scan[p].local
        /\ s.next.cursor = s.next.sequence /\ s.next.sequence = scan[p].state.sequence + n
    <3> DEFINE next == [cursor |-> scan[p].state.cursor + n,
                        sequence |-> scan[p].state.sequence + n, exhausted |-> n = 0]
    <3>1. next \in State /\ next.cursor = next.sequence
            /\ next.sequence = scan[p].state.sequence + n
      <4>1. scan[p].state.sequence + n \in 0..Objects /\ (n = 0) \in BOOLEAN
        BY <2>3, <2>4
      <4> QED  BY <2>3, <4>1 DEF State
    <3> HIDE DEF next
    <3>2. s = [scan[p] EXCEPT !.pages = scan[p].pages + 1, !.next = next]
      BY <2>3 DEF Scan, next
    <3> HIDE DEF s
    <3> QED  BY <2>3, <3>1, <3>2 DEF Scan
  <2>6. scan' = [scan EXCEPT ![p] = s]
    BY <2>1
  <2> HIDE DEF s
  <2>7. scan' \in [Processes -> Scan] /\ scan'[p] = s /\ pc'[p] = "emit"
    BY <2>2, <2>5, <2>6, RunIs
  <2>8. Counted(p)'
    BY <2>2, <2>3, <2>4, <2>5, <2>7, RunIs DEF Counted, Numbered
  <2>9. ThreadSoFar(p)' /\ SaidSoFar(p)' /\ Holds(p)
    BY <2>2, <2>5, <2>7, RunIs DEF ThreadSoFar, SaidSoFar, Running, Holds
  <2>10. /\ resume.sequence <= scan'[p].state.sequence
         /\ resume.exhausted => scan'[p].state.exhausted
    BY <2>2, <2>5, <2>7, <2>9, RunIs
  <2> QED  BY <2>2, <2>7, <2>8, <2>9, <2>10, RunIs, ScanMoves DEF Running
<1>4. CASE Emit(p)
  <2> DEFINE s == [scan[p] EXCEPT !.state = scan[p].next, !.saved = Due(scan[p]),
                                  !.emitted = TRUE, !.attempted = TRUE, !.local = "no"]
             next == IF Due(scan[p]) THEN "commit" ELSE "loop"
  <2>1. /\ artifact' = artifact \cup PageItems(scan[p], Count(scan[p]))
        /\ scan' = [scan EXCEPT ![p] = s] /\ pc' = [pc EXCEPT ![p] = next]
        /\ wrote' = [wrote EXCEPT ![p] = TRUE] /\ landed' = [landed EXCEPT ![p] = FALSE]
        /\ UNCHANGED <<report, thread, stop>> /\ pc[p] = "emit"
    BY <1>4 DEF Emit
  <2>2. Due(scan[p]) \in BOOLEAN /\ scan[p] \in Scan
    <3>1. scan[p] \in Scan
      BY RunIs
    <3> QED  BY <3>1 DEF Due, Scan, State
  <2>3. /\ s \in Scan /\ s.state = scan[p].next /\ s.initial = scan[p].initial
        /\ s.emitted /\ s.local = "no" /\ (next = "commit" => s.saved)
        /\ next \in {"commit", "loop"}
    BY <2>2 DEF Scan
  <2>4. /\ scan[p].next.cursor = scan[p].next.sequence
        /\ scan[p].next.sequence >= scan[p].state.sequence
        /\ scan[p].next.sequence <= scan[p].initial + MaxItems
        /\ scan[p].initial <= scan[p].state.sequence
        /\ scan[p].state.cursor = scan[p].state.sequence
        /\ Numbered(scan[p].state.sequence) /\ ~scan[p].state.exhausted
        /\ scan[p].state.sequence \in 0..Objects /\ scan[p].next.sequence \in 0..Objects
        /\ scan[p].initial \in 0..Objects
    BY <2>1, RunIs DEF Counted, Scan, State
  <2>5. \A i \in 1..scan[p].next.sequence : [sequence |-> i, object |-> i] \in artifact'
    <3> SUFFICES ASSUME NEW i \in 1..scan[p].next.sequence
                 PROVE  [sequence |-> i, object |-> i] \in artifact'
      OBVIOUS
    <3>0. CASE i <= scan[p].state.sequence
      <4>1. i \in 1..scan[p].state.sequence
        BY <2>4, <3>0
      <4> QED  BY <2>1, <2>4, <4>1 DEF Numbered
    <3>1. CASE i > scan[p].state.sequence
      <4>1. i - scan[p].state.sequence \in 1..Count(scan[p])
        BY <2>4, <3>1 DEF Count
      <4>2. Item(scan[p], i - scan[p].state.sequence) = [sequence |-> i, object |-> i]
        BY <2>4, <3>1 DEF Item
      <4> QED  BY <2>1, <4>1, <4>2 DEF PageItems
    <3> QED  BY <2>4, <3>0, <3>1
  <2> HIDE DEF s
  <2>6. scan' \in [Processes -> Scan] /\ scan'[p] = s /\ pc'[p] = next
        /\ wrote' \in [Processes -> BOOLEAN] /\ landed' \in [Processes -> BOOLEAN]
        /\ pc' \in [Processes -> Running \cup {"idle", "ended"}] /\ wrote'[p] /\ ~landed'[p]
    BY <2>1, <2>3, RunIs DEF Running
  <2>7. Counted(p)'
    <3>1. scan'[p].state = scan[p].next /\ scan'[p].initial = scan[p].initial
          /\ pc'[p] \notin {"request", "emit"}
      BY <2>3, <2>6
    <3> QED  BY <2>4, <2>5, <3>1 DEF Counted, Numbered
  <2>8. ThreadSoFar(p)' /\ SaidSoFar(p)' /\ Holds(p)
    <3>1. thread[p] = "none" /\ report[p] = NoReport /\ ~NoReport.safe
            /\ NoReport.kind = "none" /\ Holds(p)
      BY <2>1, RunIs DEF ThreadSoFar, SaidSoFar, Holds, Running, NoReport
    <3>2. ThreadSoFar(p)'
      BY <2>1, <2>3, <2>6, <3>1 DEF ThreadSoFar
    <3>3. SaidSoFar(p)'
      BY <2>1, <2>3, <2>6, <3>1 DEF SaidSoFar, Running
    <3> QED  BY <3>1, <3>2, <3>3
  <2>9. /\ resume.sequence <= scan'[p].state.sequence
        /\ resume.exhausted => scan'[p].state.exhausted
    BY <2>1, <2>3, <2>4, <2>6, <2>8, RunIs DEF State
  <2>10. /\ artifact' \subseteq [sequence : 1..Objects, object : 1..Objects]
         /\ \A item \in artifact' : item.sequence = item.object
    <3>1. Count(scan[p]) \in 0..Count(scan[p])
      BY <2>4 DEF Count
    <3> QED  BY <2>1, <3>1, ItemsOfPage, RunIs
  <2> QED  BY <2>1, <2>6, <2>7, <2>8, <2>9, <2>10, RunIs, ScanMoves
<1>5. CASE EmitFails(p)
  <2>1. PICK n \in 0..Count(scan[p]) : artifact' = artifact \cup PageItems(scan[p], n)
    BY <1>5 DEF EmitFails
  <2> DEFINE s == [scan[p] EXCEPT !.attempted = TRUE]
  <2>2. /\ Fail(p, s, FALSE) /\ UNCHANGED <<resume, thread, landed>> /\ pc[p] = "emit"
        /\ wrote' = [wrote EXCEPT ![p] = TRUE]
    BY <1>5 DEF EmitFails
  <2>3. /\ s \in Scan /\ s.state = scan[p].state /\ s.initial = scan[p].initial
        /\ s.fresh = scan[p].fresh /\ s.emitted = scan[p].emitted /\ s.local = scan[p].local
        /\ s.attempted
    <3>1. scan[p] \in Scan
      BY RunIs
    <3> QED  BY <3>1 DEF Scan
  <2> HIDE DEF s
  <2>4. /\ thread'[p] = "none" /\ wrote' \in [Processes -> BOOLEAN]
        /\ s.local = "yes" => landed[p]
        /\ s.local = "no" => ~landed[p]
    BY <2>2, <2>3, RunIs DEF SaidSoFar, ThreadSoFar, Running
  <2>5. /\ artifact' \subseteq [sequence : 1..Objects, object : 1..Objects]
        /\ \A item \in artifact' : item.sequence = item.object
    BY <2>1, <2>2, ItemsOfPage, RunIs
  <2> QED  BY <2>1, <2>2, <2>3, <2>4, <2>5, RunIs, RunEnds DEF Running
<1>6. CASE EmitRefused(p)
  <2>1. PICK attempted \in BOOLEAN : Fail(p, [scan[p] EXCEPT !.attempted = attempted], TRUE)
    BY <1>6 DEF EmitRefused
  <2> DEFINE s == [scan[p] EXCEPT !.attempted = attempted]
  <2>2. Fail(p, s, TRUE) /\ UNCHANGED <<resume, artifact, thread, wrote, landed>> /\ pc[p] = "emit"
    BY <1>6, <2>1 DEF EmitRefused
  <2>3. /\ s \in Scan /\ s.state = scan[p].state /\ s.initial = scan[p].initial
        /\ s.fresh = scan[p].fresh /\ s.emitted = scan[p].emitted /\ s.local = scan[p].local
    <3>1. scan[p] \in Scan
      BY RunIs
    <3> QED  BY <3>1 DEF Scan
  <2> HIDE DEF s
  <2>4. /\ thread'[p] = "none" /\ (wrote'[p] => s.emitted)
        /\ s.local = "yes" => landed[p]
        /\ s.local = "no" => ~landed[p]
    BY <2>2, <2>3, RunIs DEF SaidSoFar, ThreadSoFar, Running
  <2> QED  BY <2>2, <2>3, <2>4, RunIs, RunEnds DEF Running
<1> QED  BY <1>1, <1>2, <1>3, <1>4, <1>5, <1>6

LEMMA CheckpointsKept ==
  ASSUME ScanInvariant, NEW p \in Processes, Alone(p), UNCHANGED resume,
         LastCheckpoint(p) \/ NoCheckpoint(p) \/ Summary(p)
  PROVE  ScanInvariant'
<1> USE ScanAssumption DEF Goto, Set, files
<1>0. scan[p] \in Scan
  BY RunIs
<1>1. CASE LastCheckpoint(p)
  <2> DEFINE s == [scan[p] EXCEPT !.last = TRUE, !.attempted = TRUE]
             t == [s EXCEPT !.emitted = TRUE, !.local = "no"]
  <2>1. /\ UNCHANGED <<artifact, thread, landed>> /\ pc[p] = "loop" /\ ~scan[p].saved
        /\ wrote' = [wrote EXCEPT ![p] = TRUE]
        /\ \/ /\ scan' = [scan EXCEPT ![p] = t] /\ pc' = [pc EXCEPT ![p] = "commit"]
              /\ UNCHANGED <<stop, report>>
           \/ Fail(p, s, FALSE)
    BY <1>1 DEF LastCheckpoint
  <2>2. /\ s \in Scan /\ s.state = scan[p].state /\ s.initial = scan[p].initial
        /\ s.fresh = scan[p].fresh /\ s.emitted = scan[p].emitted /\ s.local = scan[p].local
        /\ s.attempted
    BY <1>0 DEF Scan
  <2>3. /\ t \in Scan /\ t.state = scan[p].state /\ t.initial = scan[p].initial
        /\ t.emitted /\ t.local = "no" /\ t.last
    BY <1>0 DEF Scan
  <2> HIDE DEF s, t
  <2>4. /\ thread[p] = "none" /\ ~landed[p] /\ scan[p].local = "no" /\ report[p] = NoReport
        /\ Holds(p)
    BY <2>1, RunIs DEF SaidSoFar, ThreadSoFar, Running, Holds
  <2>5. CASE Fail(p, s, FALSE)
    BY <2>1, <2>2, <2>4, <2>5, RunIs, RunEnds DEF Running
  <2>6. CASE /\ scan' = [scan EXCEPT ![p] = t] /\ pc' = [pc EXCEPT ![p] = "commit"]
             /\ UNCHANGED <<stop, report>>
    <3>1. /\ scan' \in [Processes -> Scan] /\ scan'[p] = t /\ pc'[p] = "commit"
          /\ pc' \in [Processes -> Running \cup {"idle", "ended"}]
          /\ wrote' \in [Processes -> BOOLEAN]
      BY <2>1, <2>3, <2>6, RunIs DEF Running
    <3>2. Counted(p)'
      BY <2>1, <2>3, <3>1, RunIs DEF Counted, Numbered
    <3>3. ThreadSoFar(p)' /\ SaidSoFar(p)'
      BY <2>1, <2>3, <2>4, <2>6, <3>1 DEF ThreadSoFar, SaidSoFar, Running, NoReport
    <3>4. /\ resume.sequence <= scan'[p].state.sequence
          /\ resume.exhausted => scan'[p].state.exhausted
      BY <2>1, <2>3, <2>4, <3>1, RunIs
    <3> QED  BY <2>1, <2>4, <2>6, <3>1, <3>2, <3>3, <3>4, RunIs, ScanMoves
  <2> QED  BY <2>1, <2>5, <2>6
<1>2. CASE NoCheckpoint(p)
  <2>1. /\ UNCHANGED <<scan, report, wrote, landed, thread, artifact, stop>>
        /\ pc[p] = "loop" /\ pc' = [pc EXCEPT ![p] = "summary"]
    BY <1>2 DEF NoCheckpoint
  <2>2. Counted(p)' /\ ThreadSoFar(p)' /\ SaidSoFar(p)' /\ Holds(p)
    BY <2>1, RunIs DEF Counted, Numbered, ThreadSoFar, SaidSoFar, Running, Holds
  <2> QED  BY <2>1, <2>2, RunIs, ScanMoves DEF Running
<1>3. CASE Summary(p)
  <2> DEFINE s == [scan[p] EXCEPT !.attempted = TRUE]
  <2>1. /\ UNCHANGED <<artifact, thread, landed>> /\ pc[p] = "summary"
        /\ wrote' = [wrote EXCEPT ![p] = TRUE]
        /\ \/ End(p, "success", FALSE, scan[p].local) /\ UNCHANGED scan
           \/ Fail(p, s, FALSE)
    BY <1>3 DEF Summary
  <2>2. /\ s \in Scan /\ s.state = scan[p].state /\ s.initial = scan[p].initial
        /\ s.fresh = scan[p].fresh /\ s.emitted = scan[p].emitted /\ s.local = scan[p].local
        /\ s.attempted
    BY <1>0 DEF Scan
  <2> HIDE DEF s
  <2>3. /\ thread[p] = "none" /\ scan[p].local = IF landed[p] THEN "yes" ELSE "no"
    BY <2>1, RunIs DEF SaidSoFar, ThreadSoFar, Running
  <2>4. CASE Fail(p, s, FALSE)
    BY <2>1, <2>2, <2>3, <2>4, RunIs, RunEnds DEF Running
  <2>5. CASE End(p, "success", FALSE, scan[p].local) /\ UNCHANGED scan
    <3>1. /\ pc' = [pc EXCEPT ![p] = "ended"] /\ UNCHANGED stop
          /\ report' = [report EXCEPT ![p] = [kind |-> "success", safe |-> FALSE,
                                              local |-> scan[p].local]]
      BY <2>5 DEF End
    <3>2. [kind |-> "success", safe |-> FALSE, local |-> scan[p].local] \in Report
      BY <1>0 DEF Report, Scan
    <3>3. Counted(p)' /\ ThreadSoFar(p)' /\ SaidSoFar(p)' /\ ~Holds(p)'
      BY <2>1, <2>3, <2>5, <3>1, RunIs
      DEF Counted, Numbered, ThreadSoFar, SaidSoFar, Running, Holds
    <3> QED  BY <2>1, <2>5, <3>1, <3>2, <3>3, RunIs, ScanMoves
  <2> QED  BY <2>1, <2>4, <2>5
<1> QED  BY <1>1, <1>2, <1>3

LEMMA CommitsKept ==
  ASSUME ScanInvariant, NEW p \in Processes, Alone(p), UNCHANGED resume,
         Commit(p) \/ CommitStopped(p) \/ Resolve(p) \/ Abandon(p)
  PROVE  ScanInvariant'
<1> USE ScanAssumption DEF Goto, Set, files
<1>0. /\ scan[p] \in Scan
      /\ \A local \in {"yes", "no", "unknown"} :
           LET s == [scan[p] EXCEPT !.local = local]
           IN  /\ s \in Scan /\ s.state = scan[p].state /\ s.initial = scan[p].initial
               /\ s.fresh = scan[p].fresh /\ s.emitted = scan[p].emitted /\ s.local = local
               /\ s.last = scan[p].last /\ s.saved = scan[p].saved
  <2>1. scan[p] \in Scan
    BY RunIs
  <2> QED  BY <2>1 DEF Scan
<1>1. CASE Commit(p)
  <2>1. /\ UNCHANGED <<scan, report, wrote, landed, artifact, stop>>
        /\ pc[p] = "commit" /\ pc' = [pc EXCEPT ![p] = "await"]
        /\ thread' = [thread EXCEPT ![p] = "spawned"]
    BY <1>1 DEF Commit
  <2>2. Counted(p)' /\ ThreadSoFar(p)' /\ SaidSoFar(p)' /\ Holds(p)
    BY <2>1, RunIs DEF Counted, Numbered, ThreadSoFar, SaidSoFar, Running, Holds
  <2> QED  BY <2>1, <2>2, RunIs, ScanMoves DEF Running
<1>2. CASE CommitStopped(p)
  <2>1. /\ Fail(p, [scan[p] EXCEPT !.local = "no"], FALSE) /\ pc[p] = "commit"
        /\ UNCHANGED <<artifact, thread, wrote, landed>>
    BY <1>2 DEF CommitStopped, CommitFails
  <2>2. scan[p].emitted /\ ~landed[p] /\ thread[p] = "none"
    BY <2>1, RunIs DEF SaidSoFar, ThreadSoFar
  <2> QED  BY <1>0, <2>1, <2>2, RunIs, RunEnds DEF Running
<1>3. CASE Resolve(p)
  <2>1. /\ UNCHANGED <<artifact, wrote, landed>> /\ pc[p] = "await"
        /\ thread' = [thread EXCEPT ![p] = "none"]
    BY <1>3 DEF Resolve
  <2>2. /\ scan[p].emitted /\ (landed[p] <=> thread[p] \in {"ok", "committed"})
        /\ scan[p].last \/ scan[p].saved
        /\ report[p] = NoReport /\ Holds(p)
    BY <2>1, RunIs DEF SaidSoFar, ThreadSoFar, Running, Holds
  <2>3. CASE thread[p] = "ok"
    <3> DEFINE s == [scan[p] EXCEPT !.local = "yes"]
               next == IF scan[p].last THEN "summary" ELSE "loop"
    <3>1. /\ scan' = [scan EXCEPT ![p] = s] /\ pc' = [pc EXCEPT ![p] = next]
          /\ UNCHANGED <<stop, report>>
      BY <1>3, <2>3 DEF Resolve
    <3>2. /\ s \in Scan /\ s.state = scan[p].state /\ s.initial = scan[p].initial
          /\ s.emitted = scan[p].emitted /\ s.local = "yes" /\ s.saved = scan[p].saved
          /\ next \in {"summary", "loop"} /\ (next = "loop" => scan[p].saved)
      BY <1>0, <2>2
    <3> HIDE DEF s, next
    <3>3. /\ scan' \in [Processes -> Scan] /\ scan'[p] = s /\ pc'[p] = next
          /\ pc' \in [Processes -> Running \cup {"idle", "ended"}]
          /\ thread' \in [Processes -> {"none", "spawned", "launched", "refused", "ok",
                                        "committed", "failed"}] /\ thread'[p] = "none"
      BY <2>1, <3>1, <3>2, RunIs DEF Running
    <3>4. Counted(p)'
      BY <2>1, <3>2, <3>3, RunIs DEF Counted, Numbered
    <3>5. ThreadSoFar(p)' /\ SaidSoFar(p)'
      <4>1. ThreadSoFar(p)'
        BY <3>2, <3>3 DEF ThreadSoFar
      <4>2. landed[p] /\ landed'[p] /\ report'[p] = NoReport
        BY <2>1, <2>2, <2>3, <3>1
      <4>3. scan'[p].emitted /\ scan'[p].local = "yes" /\ (pc'[p] = "loop" => scan'[p].saved)
            /\ pc'[p] \in {"summary", "loop"}
        BY <2>2, <3>2, <3>3
      <4>4. SaidSoFar(p)'
        BY <4>2, <4>3 DEF SaidSoFar, Running, NoReport
      <4> QED  BY <4>1, <4>4
    <3>6. /\ resume.sequence <= scan'[p].state.sequence
          /\ resume.exhausted => scan'[p].state.exhausted
      BY <2>1, <2>2, <3>2, <3>3, RunIs
    <3> QED  BY <2>1, <2>2, <3>1, <3>3, <3>4, <3>5, <3>6, RunIs, ScanMoves
  <2>4. ASSUME NEW local \in {"yes", "no"}, CommitFails(p, local),
               local = "yes" <=> landed[p]
        PROVE  ScanInvariant'
    <3>1. Fail(p, [scan[p] EXCEPT !.local = local], FALSE)
      BY <2>4 DEF CommitFails
    <3>2. thread'[p] = "none" /\ thread' \in [Processes -> {"none", "spawned", "launched",
                                    "refused", "ok", "committed", "failed"}]
      BY <2>1, RunIs
    <3> DEFINE s == [scan[p] EXCEPT !.local = local]
    <3>3. /\ s \in Scan /\ s.state = scan[p].state /\ s.initial = scan[p].initial
          /\ s.fresh = scan[p].fresh /\ s.emitted = scan[p].emitted /\ s.local = local
      BY <1>0, <2>4
    <3>4. Fail(p, s, FALSE)
      BY <3>1
    <3> HIDE DEF s
    <3>5. /\ s.local = "yes" => landed[p]
          /\ s.local = "no" => ~landed[p]
      BY <2>4, <3>3
    <3> QED  BY <2>1, <2>2, <3>2, <3>3, <3>4, <3>5, RunIs, RunEnds DEF Running
  <2>5. CASE thread[p] = "committed" /\ CommitFails(p, "yes")
    BY <2>2, <2>4, <2>5
  <2>6. CASE thread[p] \in {"failed", "refused"} /\ CommitFails(p, "no")
    BY <2>2, <2>4, <2>6
  <2>7. \/ thread[p] = "ok"
        \/ thread[p] = "committed" /\ CommitFails(p, "yes")
        \/ thread[p] \in {"failed", "refused"} /\ CommitFails(p, "no")
    BY <1>3 DEF Resolve
  <2> QED  BY <2>3, <2>5, <2>6, <2>7
<1>4. CASE Abandon(p)
  <2> DEFINE local == IF thread[p] = "spawned" THEN "no" ELSE "unknown"
  <2>1. /\ Fail(p, [scan[p] EXCEPT !.local = local], FALSE) /\ pc[p] = "await" /\ stop[p]
        /\ UNCHANGED <<artifact, thread, wrote, landed>>
    BY <1>4 DEF Abandon, CommitFails
  <2>2. /\ scan[p].emitted /\ (thread[p] \in {"spawned", "launched"} => ~landed[p])
        /\ local \in {"no", "unknown"} /\ (local = "no" => thread[p] = "spawned")
    BY <2>1, RunIs DEF SaidSoFar, ThreadSoFar
  <2> HIDE DEF local
  <2> QED  BY <1>0, <2>1, <2>2, RunIs, RunEnds DEF Running
<1> QED  BY <1>1, <1>2, <1>3, <1>4

\* The thread writes under the lock of its scan, which is ahead.
LEMMA WriteIs ==
  ASSUME ScanInvariant, NEW p \in Processes, Write(p), UNCHANGED resume \/ resume' = scan[p].state
  PROVE  /\ resume'.sequence >= resume.sequence /\ (resume.exhausted => resume'.exhausted)
         /\ resume' \in State /\ resume'.cursor = resume'.sequence /\ Numbered(resume'.sequence)
         /\ Holds(p) /\ scan[p].emitted /\ pc[p] \in {"await", "ended"}
<1>1. /\ Holds(p) /\ scan[p].emitted /\ pc[p] \in {"await", "ended"}
  BY RunIs DEF Write, Holds, ThreadSoFar
<1>2. CASE UNCHANGED resume
  BY <1>1, <1>2, RunIs DEF ScanInvariant, Counts, State
<1>3. CASE resume' = scan[p].state
  BY <1>1, <1>3, RunIs DEF Scan, State, Counted
<1> QED  BY <1>1, <1>2, <1>3

LEMMA SurroundingsOfScanKept ==
  ASSUME ScanInvariant, NEW p \in Processes, Alone(p),
         Launch(p) \/ Write(p) \/ Stop(p) \/ Exit(p)
  PROVE  ScanInvariant'
<1> USE NoScanTyped, ScanAssumption DEF Set, files
<1>1. CASE Launch(p)
  <2>1. /\ UNCHANGED <<resume, artifact, pc, stop, scan, report, wrote, landed>>
        /\ thread[p] = "spawned"
        /\ thread' = [thread EXCEPT ![p] = IF stop[p] THEN "refused" ELSE "launched"]
    BY <1>1 DEF Launch
  <2>2. /\ Counted(p)' /\ Holds(p) /\ pc[p] \in {"await", "ended"}
        /\ pc[p] = "ended" => stop[p]
    BY <2>1, RunIs DEF Counted, Numbered, ThreadSoFar, Holds
  <2>3. /\ thread'[p] \in {"refused", "launched"} /\ (stop[p] => thread'[p] = "refused")
        /\ thread' \in [Processes -> {"none", "spawned", "launched", "refused", "ok",
                                      "committed", "failed"}]
    BY <2>1, RunIs
  <2>4. ThreadSoFar(p)' /\ SaidSoFar(p)'
    BY <2>1, <2>2, <2>3, RunIs DEF ThreadSoFar, SaidSoFar, Running, NoReport
  <2> QED  BY <2>1, <2>2, <2>3, <2>4, RunIs, ScanMoves
<1>2. CASE Write(p)
  <2>1. /\ UNCHANGED <<artifact, pc, stop, scan, report, wrote>> /\ thread[p] = "launched"
        /\ \/ /\ resume' = scan[p].state /\ landed' = [landed EXCEPT ![p] = TRUE]
              /\ \E done \in {"ok", "committed"} : thread' = [thread EXCEPT ![p] = done]
           \/ UNCHANGED <<resume, landed>> /\ thread' = [thread EXCEPT ![p] = "failed"]
    BY <1>2 DEF Write
  <2>2. /\ resume'.sequence >= resume.sequence /\ (resume.exhausted => resume'.exhausted)
        /\ resume' \in State /\ resume'.cursor = resume'.sequence /\ Numbered(resume'.sequence)
        /\ Holds(p) /\ scan[p].emitted /\ pc[p] \in {"await", "ended"}
    BY <1>2, <2>1, WriteIs
  <2>3. /\ thread' \in [Processes -> {"none", "spawned", "launched", "refused", "ok",
                                      "committed", "failed"}]
        /\ landed' \in [Processes -> BOOLEAN]
        /\ thread'[p] \in {"ok", "committed", "failed"}
        /\ landed'[p] <=> thread'[p] \in {"ok", "committed"}
    <3>1. ~landed[p]
      BY <2>1, RunIs DEF ThreadSoFar
    <3> QED  BY <2>1, <3>1, RunIs
  <2>4. Counted(p)' /\ ThreadSoFar(p)' /\ SaidSoFar(p)'
    <3>1. Counted(p)'
      BY <2>1, RunIs DEF Counted, Numbered
    <3>2. ThreadSoFar(p)'
      BY <2>1, <2>2, <2>3 DEF ThreadSoFar
    <3>3. SaidSoFar(p)'
      <4>1. /\ ~(report[p].kind = "error" /\ report[p].local = "no") /\ ~report[p].safe
            /\ report[p].local = "yes" /\ report[p].kind = "error" => landed[p]
        BY <2>1, <2>2, RunIs DEF SaidSoFar
      <4>2. ~landed[p]
        BY <2>1, RunIs DEF ThreadSoFar
      <4> QED  BY <2>1, <2>2, <2>3, <4>1, <4>2, RunIs DEF SaidSoFar, Running
    <3> QED  BY <3>1, <3>2, <3>3
  <2>5. TypeOK'
    <3>1. \A q \in Processes : Holds(q)' => Holds(q)
      BY <2>1, <2>2 DEF Alone, Holds
    <3>2. \A q, r \in Processes : Holds(q) /\ Holds(r) => q = r
      BY DEF ScanInvariant, TypeOK
    <3>3. \A q, r \in Processes : Holds(q)' /\ Holds(r)' => q = r
      BY <3>1, <3>2
    <3> QED  BY <2>1, <2>2, <2>3, <3>3, RunIs DEF TypeOK
  <2>6. \A q \in Processes : Counted(q)' /\ ThreadSoFar(q)' /\ SaidSoFar(q)'
    BY <2>1, <2>4, <2>5, OthersKept
  <2>7. Ahead'
    <3>1. ASSUME NEW q \in Processes \ {p} PROVE ~Holds(q)'
      <4>1. ~Holds(q)
        BY <2>2 DEF ScanInvariant, TypeOK
      <4> QED  BY <2>1, <2>5, <4>1, OthersKept
    <3>2. /\ resume'.sequence <= scan[p].state.sequence
          /\ resume'.exhausted => scan[p].state.exhausted
      <4>1. scan[p] \in Scan
        BY RunIs
      <4> QED  BY <2>1, <2>2, <4>1, RunIs DEF Scan, State
    <3> QED  BY <2>1, <3>1, <3>2 DEF Ahead
  <2>8. Counts'
    BY <2>1, <2>2, <2>6, RunIs DEF Counts, Numbered
  <2> QED  BY <2>5, <2>6, <2>7, <2>8 DEF ScanInvariant, Threads, Said
<1>3. CASE Stop(p)
  <2>1. /\ UNCHANGED <<resume, artifact, pc, scan, thread, report, wrote, landed>>
        /\ pc[p] \in Running /\ stop' = [stop EXCEPT ![p] = TRUE]
    BY <1>3 DEF Stop
  <2>2. Counted(p)' /\ ThreadSoFar(p)' /\ SaidSoFar(p)' /\ (Holds(p)' <=> Holds(p))
    BY <2>1, RunIs DEF Counted, Numbered, ThreadSoFar, SaidSoFar, Holds
  <2> QED  BY <2>1, <2>2, RunIs, ScanMoves
<1>4. CASE Exit(p)
  <2>1. /\ scan' = [scan EXCEPT ![p] = NoScan] /\ pc' = [pc EXCEPT ![p] = "idle"]
        /\ report' = [report EXCEPT ![p] = NoReport] /\ stop' = [stop EXCEPT ![p] = FALSE]
        /\ wrote' = [wrote EXCEPT ![p] = FALSE] /\ landed' = [landed EXCEPT ![p] = FALSE]
        /\ thread' = [thread EXCEPT ![p] = "none"] /\ UNCHANGED <<resume, artifact>>
    BY <1>4 DEF Exit
  <2>2. Counted(p)' /\ ThreadSoFar(p)' /\ SaidSoFar(p)' /\ ~Holds(p)'
    BY <2>1, RunIs
    DEF Counted, Numbered, ThreadSoFar, SaidSoFar, Holds, NoScan, NoState, NoReport, Running
  <2> QED  BY <2>1, <2>2, RunIs, ScanMoves
<1> QED  BY <1>1, <1>2, <1>3, <1>4

LEMMA ScanKept ==
  ASSUME ScanInvariant, [Next]_vars
  PROVE  ScanInvariant'
<1>1. ASSUME UNCHANGED vars PROVE ScanInvariant'
  BY <1>1
  DEF vars, files, ScanInvariant, TypeOK, Counts, Counted, Numbered, Ahead, Threads, ThreadSoFar,
      Said, SaidSoFar, Holds
<1>2. ASSUME Next PROVE ScanInvariant'
  <2>1. PICK p \in Processes : ScanStep(p)
    BY <1>2 DEF Next, ScanStep
  <2>2. Alone(p) /\ (Write(p) \/ UNCHANGED resume)
    BY <2>1, ScanAlone
  <2> QED
    BY <2>1, <2>2, SetupKept, PagesKept, CheckpointsKept, CommitsKept, SurroundingsOfScanKept
    DEF ScanStep, Forced
<1> QED  BY <1>1, <1>2

LEMMA AlwaysScanned == CommandsSpec => []ScanInvariant
<1>1. ScanInvariant /\ [CommandsNext]_all => ScanInvariant'
  BY ScanElsewhere, ScanKept
<1> QED  BY ScanBegins, <1>1, PTL DEF CommandsSpec

\* A scan that is killed, stopped or resumed skips nothing and stays within its bounds,
\* what it wrote twice can be told, and what its error says of the output and of the
\* resume file is so.
THEOREM ScansResume == CommandsSpec => []ScanInv
<1>1. ScanInvariant => ScanInv
  <2> SUFFICES ASSUME ScanInvariant PROVE ScanInv
    OBVIOUS
  <2>1. RunBounded
    <3> SUFFICES ASSUME NEW p \in Processes
                 PROVE  ReturnedThisRun(p) <= MaxItems /\ scan[p].pages <= MaxPages
      BY DEF RunBounded
    <3>1. scan[p] \in Scan /\ Counted(p)
      BY RunIs
    <3> QED  BY <3>1, ScanAssumption DEF Scan, State, Counted, ReturnedThisRun
  <2>2. NothingSkipped /\ SequenceNamesObject
    BY DEF ScanInvariant, Counts, Numbered, NothingSkipped, SequenceNamesObject
  <2>3. SafeReplay /\ CommitSaid
    BY DEF ScanInvariant, Said, SaidSoFar, SafeReplay, CommitSaid
  <2> QED  BY <2>1, <2>2, <2>3 DEF ScanInv, ScanInvariant
<1> QED  BY <1>1, AlwaysScanned, PTL

\* The resume file never goes back, whichever process or thread writes it.
THEOREM ResumeFileAdvances == CommandsSpec => ProgressKept
<1>1. ASSUME ScanInvariant, [CommandsNext]_all, ~UNCHANGED resume, resume # NoFile
      PROVE  /\ resume' # NoFile /\ resume'.sequence >= resume.sequence
             /\ resume.exhausted => resume'.exhausted
  <2>1. PICK p \in Processes : ScanStep(p)
    BY <1>1, ScanElsewhere DEF Next, ScanStep, vars, files
  <2>2. Write(p) /\ resume' = scan[p].state
    BY <1>1, <2>1, ScanAlone DEF Write
  <2>3. /\ resume'.sequence >= resume.sequence /\ (resume.exhausted => resume'.exhausted)
        /\ resume' \in State /\ resume'.cursor = resume'.sequence
    BY <1>1, <2>2, WriteIs
  <2>4. resume \in State /\ resume.cursor = resume.sequence
    BY <1>1 DEF ScanInvariant, TypeOK, Counts
  <2> QED  BY <1>1, <2>3, <2>4, ScanAssumption DEF State, NoFile, NoState
<1> QED  BY <1>1, AlwaysScanned, PTL DEF CommandsSpec, ProgressKept

-------------------------------------------------------------------------------
(***************************************************************************)
(* The path of a raw request (RequestRoute).                               *)
(***************************************************************************)
Escapes == {"%61", "%5F", "%2E", "%2F", "%25", "%20"}

\* What segments are made of.  (That a literal is a string is not known to the provers.)
Atoms ==
  STRING \cup {"a", "_", ".", "/", "%", " ", "api", "T", "jobs", "rdm", "entities", "byCrosswalk",
              "search", "scan", "changes", "matches", "{id}", "{crosswalkValue}"}

\* The escapes that are accepted, and what they stand for.
Escaped == {"%25", "%20"}
Unescaped == {"%", " "}

LEMMA ValueIs ==
  /\ DOMAIN Route!Value = Escapes
  /\ Route!Value["%61"] = "a" /\ Route!Value["%5F"] = "_" /\ Route!Value["%2E"] = "."
  /\ Route!Value["%2F"] = "/" /\ Route!Value["%25"] = "%" /\ Route!Value["%20"] = " "
BY DEF Route!Value, Escapes

LEMMA NoEscapes ==
  /\ {"_", ".", "/", "\\"} \cap (Escaped \cup Unescaped) = {}
  /\ {"_", "."} \subseteq Atoms
BY DEF Escaped, Unescaped, Atoms

\* What is left of a segment that is not refused: only a space and a percent sign are
\* other than they were, and no server makes anything else of it.
Steady(segment) ==
  /\ segment \in Seq(Atoms) /\ segment # <<>>
  /\ \A i \in DOMAIN segment :
       \/ Route!Decoded(segment)[i] = segment[i]
       \/ segment[i] \in Escaped /\ Route!Decoded(segment)[i] \in Unescaped
  /\ Route!Again(Route!Decoded(segment)) = Route!Decoded(segment)
  /\ \A form \in Route!Forms(segment) : ~Route!Moves(form)

LEMMA DecodedIs ==
  ASSUME NEW segment \in Seq(Atoms)
  PROVE  /\ DOMAIN Route!Decoded(segment) = 1..Len(segment) /\ DOMAIN segment = 1..Len(segment)
         /\ \A i \in 1..Len(segment) :
              Route!Decoded(segment)[i] = IF segment[i] \in Escapes THEN Route!Value[segment[i]]
                                          ELSE segment[i]
         /\ Route!Decoded(segment) \in Seq(Atoms) /\ Len(Route!Decoded(segment)) = Len(segment)
<1>1. DOMAIN segment = 1..Len(segment) /\ Len(segment) \in Nat
  OBVIOUS
<1>2. Route!Decoded(segment) = [i \in 1..Len(segment) |-> IF segment[i] \in Escapes
                                 THEN Route!Value[segment[i]] ELSE segment[i]]
  BY <1>1, ValueIs DEF Route!Decoded
<1>3. \A i \in 1..Len(segment) :
        (IF segment[i] \in Escapes THEN Route!Value[segment[i]] ELSE segment[i]) \in Atoms
  <2>1. \A escape \in Escapes : Route!Value[escape] \in Atoms
    BY ValueIs DEF Escapes, Atoms
  <2> QED  BY <2>1
<1> QED  BY <1>1, <1>2, <1>3

\* Of a segment that is not refused only spaces and percent signs were escaped.
LEMMA AcceptedIsSteady ==
  ASSUME NEW segment \in Seq(Atoms), segment # <<>>, ~Route!Refuses(segment)
  PROVE  Steady(segment)
<1> DEFINE decoded == Route!Decoded(segment)
<1>1. /\ ~Route!InSegment(segment, {"%"}) /\ decoded \notin {<<".">>, <<".", ".">>}
      /\ ~Route!InSegment(decoded, {"/", "\\", "control"})
      /\ \A i \in DOMAIN segment :
           ~(segment[i] \in Escapes /\ Route!Value[segment[i]] \in {"a", "_", "."})
      /\ ~Route!HasEscape(decoded)
  BY ValueIs DEF Route!Refuses, Route!Unreserved
<1>2. /\ DOMAIN decoded = 1..Len(segment) /\ DOMAIN segment = 1..Len(segment)
      /\ \A i \in 1..Len(segment) :
           decoded[i] = IF segment[i] \in Escapes THEN Route!Value[segment[i]] ELSE segment[i]
      /\ decoded \in Seq(Atoms) /\ Len(decoded) = Len(segment)
  BY DecodedIs
<1>3. \A i \in DOMAIN decoded : decoded[i] \notin {"/", "\\"}
  BY <1>1 DEF Route!InSegment
<1>4. \A i \in DOMAIN segment :
        \/ decoded[i] = segment[i]
        \/ segment[i] \in Escaped /\ decoded[i] \in Unescaped
  <2> SUFFICES ASSUME NEW i \in 1..Len(segment), decoded[i] # segment[i]
               PROVE  segment[i] \in Escaped /\ decoded[i] \in Unescaped
    BY <1>2
  <2>1. segment[i] \in Escapes /\ decoded[i] = Route!Value[segment[i]]
    BY <1>2
  <2>2. decoded[i] \notin {"a", "_", ".", "/"}
    BY <1>1, <1>2, <1>3, <2>1
  <2> QED  BY <2>1, <2>2, ValueIs DEF Escapes, Escaped, Unescaped
<1>5. Route!Again(decoded) = decoded
  BY <1>1 DEF Route!Again
<1>6. ~Route!Moves(decoded)
  <2>1. decoded # <<>>
    BY <1>2
  <2> QED  BY <1>1, <1>3, <2>1 DEF Route!Moves, Route!InSegment
<1>7. ~Route!Moves(segment)
  <2>1. ~Route!InSegment(segment, {"/", "\\"})
    BY <1>2, <1>3, <1>4, NoEscapes DEF Route!InSegment
  <2>2. segment \in {<<".">>, <<".", ".">>} => decoded = segment
    <3>1. ASSUME segment \in {<<".">>, <<".", ".">>}, NEW i \in 1..Len(segment)
          PROVE  decoded[i] = segment[i]
      <4>1. segment[i] = "."
        BY <3>1
      <4> QED  BY <1>2, <1>4, <4>1, NoEscapes
    <3> QED  BY <1>2, <3>1
  <2> QED  BY <1>1, <2>1, <2>2 DEF Route!Moves
<1>8. Route!Forms(segment) = {segment, decoded}
  BY <1>5 DEF Route!Forms
<1> HIDE DEF decoded
<1>9. \A form \in Route!Forms(segment) : ~Route!Moves(form)
  BY <1>6, <1>7, <1>8
<1> QED  BY <1>4, <1>5, <1>9 DEF Steady, decoded

\* A word is a segment without the characters that are escaped in what is accepted.
Word(word) ==
  word \in Seq(Atoms) /\ \A i \in 1..Len(word) : word[i] \notin Escaped \cup Unescaped

LEMMA SteadyWord ==
  ASSUME NEW segment, Steady(segment), NEW word, Word(word)
  PROVE  Route!Decoded(segment) = word <=> segment = word
<1> DEFINE decoded == Route!Decoded(segment)
<1>1. /\ DOMAIN decoded = 1..Len(segment) /\ DOMAIN segment = 1..Len(segment)
      /\ decoded \in Seq(Atoms) /\ Len(decoded) = Len(segment) /\ segment \in Seq(Atoms)
  BY DecodedIs DEF Steady
<1>2. \A i \in 1..Len(segment) :
        \/ decoded[i] = segment[i]
        \/ segment[i] \in Escaped /\ decoded[i] \in Unescaped
  BY <1>1 DEF Steady
<1> HIDE DEF decoded
<1>3. ASSUME decoded = word \/ segment = word
      PROVE  decoded = segment
  <2>1. \A i \in 1..Len(segment) : decoded[i] = segment[i]
    BY <1>1, <1>2, <1>3 DEF Word
  <2> QED  BY <1>1, <2>1
<1> QED  BY <1>3 DEF decoded

\* The first character of what is accepted is an underscore in no other spelling.
LEMMA SteadyHead ==
  ASSUME NEW segment, Steady(segment)
  PROVE  /\ Route!Decoded(segment) # <<>>
         /\ Route!Decoded(segment)[1] = "_" <=> segment[1] = "_"
<1>1. segment \in Seq(Atoms) /\ segment # <<>>
  BY DEF Steady
<1>2. /\ Len(Route!Decoded(segment)) = Len(segment) /\ Route!Decoded(segment) \in Seq(Atoms)
      /\ DOMAIN segment = 1..Len(segment) /\ Len(segment) \in Nat /\ Len(segment) > 0
  BY <1>1, DecodedIs
<1>3. \A i \in DOMAIN segment :
        \/ Route!Decoded(segment)[i] = segment[i]
        \/ segment[i] \in Escaped /\ Route!Decoded(segment)[i] \in Unescaped
  BY DEF Steady
<1>4. Route!Decoded(segment)[1] = "_" <=> segment[1] = "_"
  <2>1. 1 \in DOMAIN segment
    BY <1>2
  <2> QED  BY <1>3, <2>1, NoEscapes
<1>5. Route!Decoded(segment) # <<>>
  BY <1>2
<1> QED  BY <1>4, <1>5

-------------------------------------------------------------------------------
\* The registry's patterns.

Words ==
  {Route!Entities, Route!Reserved("byCrosswalk"), Route!Reserved("search"), Route!Reserved("scan"),
   Route!Reserved("changes"), Route!Reserved("matches")}

LEMMA WordsOfAtoms ==
  ASSUME NEW b \in Atoms, b \notin Escaped \cup Unescaped,
         NEW c \in Atoms, c \notin Escaped \cup Unescaped
  PROVE  Word(<<c>>) /\ Word(<<b, c>>)
<1>1. /\ <<c>> \in Seq(Atoms) /\ Len(<<c>>) = 1
      /\ <<b, c>> \in Seq(Atoms) /\ Len(<<b, c>>) = 2
  OBVIOUS
<1>2. ASSUME NEW i \in 1..Len(<<c>>)
      PROVE  <<c>>[i] = c
  BY <1>1
<1>3. ASSUME NEW i \in 1..Len(<<b, c>>)
      PROVE  <<b, c>>[i] \in {b, c}
  BY <1>1
<1>4. Word(<<c>>)
  BY <1>1, <1>2 DEF Word
<1>5. Word(<<b, c>>)
  BY <1>1, <1>3 DEF Word
<1> QED  BY <1>4, <1>5

LEMMA WordsAreWords ==
  /\ \A word \in Words : Word(word)
  /\ Word(<<"api">>) /\ Word(<<"T">>) /\ Word(<<"jobs">>) /\ Word(<<"rdm">>)
<1>1. /\ {"api", "T", "jobs", "rdm", "entities", "byCrosswalk", "search", "scan", "changes",
          "matches"} \subseteq Atoms
      /\ {"api", "T", "jobs", "rdm", "entities", "byCrosswalk", "search", "scan", "changes",
          "matches"} \cap (Escaped \cup Unescaped) = {}
  BY DEF Atoms, Escaped, Unescaped
<1>2. /\ Word(<<"entities">>) /\ Word(<<"_", "byCrosswalk">>) /\ Word(<<"_", "search">>)
      /\ Word(<<"_", "scan">>) /\ Word(<<"_", "changes">>) /\ Word(<<"_", "matches">>)
  BY <1>1, NoEscapes, WordsOfAtoms
<1>3. \A word \in Words : Word(word)
  BY <1>2 DEF Words, Route!Entities, Route!Reserved
<1>4. Word(<<"api">>) /\ Word(<<"T">>) /\ Word(<<"jobs">>) /\ Word(<<"rdm">>)
  BY <1>1, NoEscapes, WordsOfAtoms
<1> QED  BY <1>3, <1>4

LEMMA IdMatches ==
  ASSUME NEW actual
  PROVE  Route!SegmentMatches(Route!Id, actual) <=> actual # <<>> /\ ~(actual[1] = "_")
BY DEF Route!SegmentMatches, Route!Id, Route!Lookup

LEMMA SegmentMatchesEither ==
  ASSUME NEW segment, Steady(segment), NEW expected \in Words \cup {Route!Id, Route!Lookup}
  PROVE  Route!SegmentMatches(expected, Route!Decoded(segment))
           <=> Route!SegmentMatches(expected, segment)
<1>1. segment # <<>>
  BY DEF Steady
<1>2. /\ Route!Decoded(segment) # <<>>
      /\ Route!Decoded(segment)[1] = "_" <=> segment[1] = "_"
  BY SteadyHead
<1>3. /\ Route!SegmentMatches(Route!Id, segment) <=> segment # <<>> /\ ~(segment[1] = "_")
      /\ Route!SegmentMatches(Route!Id, Route!Decoded(segment)) <=>
           Route!Decoded(segment) # <<>> /\ ~(Route!Decoded(segment)[1] = "_")
  BY IdMatches
<1>4. CASE expected = Route!Id
  BY <1>1, <1>2, <1>3, <1>4
<1>5. CASE expected = Route!Lookup /\ expected # Route!Id
  BY <1>1, <1>2, <1>5 DEF Route!SegmentMatches
<1>6. CASE expected \notin {Route!Id, Route!Lookup}
  <2>1. Word(expected) /\ expected \in Words
    BY <1>6, WordsAreWords
  <2>2. Route!Decoded(segment) = expected <=> segment = expected
    BY <2>1, SteadyWord
  <2> QED  BY <1>6, <2>2 DEF Route!SegmentMatches
<1> QED  BY <1>4, <1>5, <1>6

LEMMA TuplesAreSequences ==
  ASSUME NEW S, NEW a \in S, NEW b \in S, NEW c \in S
  PROVE  <<a>> \in Seq(S) /\ <<a, b>> \in Seq(S) /\ <<a, b, c>> \in Seq(S)
OBVIOUS

LEMMA PatternsAre ==
  ASSUME NEW p \in Route!Patterns
  PROVE  /\ p.path \in Seq(Words \cup {Route!Id, Route!Lookup})
         /\ DOMAIN p.path = 1..Len(p.path)
<1> DEFINE Parts == Words \cup {Route!Id, Route!Lookup}
<1>1. /\ Route!Entities \in Parts /\ Route!Id \in Parts /\ Route!Lookup \in Parts
      /\ \A c \in {"byCrosswalk", "search", "scan", "changes", "matches"} :
           Route!Reserved(c) \in Parts
  BY DEF Words
<1> HIDE DEF Parts
<1>2. p.path \in
        {<<Route!Entities, Route!Id>>,
         <<Route!Entities, Route!Reserved("byCrosswalk"), Route!Lookup>>,
         <<Route!Entities, Route!Reserved("search")>>, <<Route!Entities>>,
         <<Route!Entities, Route!Reserved("scan")>>,
         <<Route!Entities, Route!Id, Route!Reserved("changes")>>,
         <<Route!Entities, Route!Id, Route!Reserved("matches")>>}
  BY DEF Route!Patterns
<1>3. p.path \in Seq(Parts)
  BY <1>1, <1>2, TuplesAreSequences, Zenon
<1> QED  BY <1>3 DEF Parts

LEMMA MatchesEither ==
  ASSUME NEW segments, NEW others, NEW n \in Nat,
         segments \in Seq(Seq(Atoms)), others \in Seq(Seq(Atoms)), Len(segments) = n,
         Len(others) = n,
         \A k \in 1..n : Steady(segments[k]) /\ others[k] = Route!Decoded(segments[k]),
         NEW p \in Route!Patterns
  PROVE  Route!Matches(p.path, segments) <=> Route!Matches(p.path, others)
<1> DEFINE Parts == Words \cup {Route!Id, Route!Lookup}
<1>1. p.path \in Seq(Parts) /\ DOMAIN p.path = 1..Len(p.path)
  BY PatternsAre
<1>2. ASSUME Len(p.path) = n, NEW k \in 1..n
      PROVE  Route!SegmentMatches(p.path[k], segments[k])
               <=> Route!SegmentMatches(p.path[k], others[k])
  <2>1. p.path[k] \in Parts
    BY <1>1, <1>2
  <2> QED  BY <2>1, SegmentMatchesEither
<1> QED  BY <1>1, <1>2 DEF Route!Matches

LEMMA ReservedIs ==
  /\ \A c : ~Route!SegmentMatches(Route!Id, Route!Reserved(c))
  /\ \A c \in {"byCrosswalk", "search", "scan", "changes", "matches"} :
       \A segment : Route!SegmentMatches(Route!Reserved(c), segment) => segment = Route!Reserved(c)
  /\ \A c, d : Route!Reserved(c) = Route!Reserved(d) => c = d
<1>1. ASSUME NEW c
      PROVE  ~Route!SegmentMatches(Route!Id, Route!Reserved(c))
  <2>1. Route!Reserved(c)[1] = "_"
    BY DEF Route!Reserved
  <2> QED  BY <2>1, IdMatches
<1>2. ASSUME NEW c
      PROVE  Route!Reserved(c) # Route!Id /\ Route!Reserved(c) # Route!Lookup
  BY DEF Route!Reserved, Route!Id, Route!Lookup
<1>3. ASSUME NEW c, NEW segment, Route!SegmentMatches(Route!Reserved(c), segment)
      PROVE  segment = Route!Reserved(c)
  BY <1>2, <1>3 DEF Route!SegmentMatches
<1>4. ASSUME NEW c, NEW d, Route!Reserved(c) = Route!Reserved(d)
      PROVE  c = d
  BY <1>4 DEF Route!Reserved
<1> QED  BY <1>1, <1>3, <1>4

\* What the paths that a pattern matches look like.
LEMMA PatternClaims ==
  ASSUME NEW p \in Route!Patterns, NEW segments, Route!Matches(p.path, segments)
  PROVE  \/ /\ p.id = "entity.get" /\ p.method = "GET" /\ Len(segments) = 2
            /\ Route!SegmentMatches(Route!Id, segments[2])
         \/ /\ p.id = "entity.by-crosswalk" /\ p.method = "GET" /\ Len(segments) = 3
            /\ segments[2] = Route!Reserved("byCrosswalk")
         \/ /\ p.id = "entity.search" /\ p.method = "POST" /\ Len(segments) = 2
            /\ segments[2] = Route!Reserved("search")
         \/ p.id = "entity.search.get" /\ p.method = "GET" /\ Len(segments) = 1
         \/ /\ p.id = "entity.search.get_alias" /\ p.method = "GET" /\ Len(segments) = 2
            /\ segments[2] = Route!Reserved("search")
         \/ /\ p.id = "entity.scan" /\ p.method = "POST" /\ Len(segments) = 2
            /\ segments[2] = Route!Reserved("scan")
         \/ /\ p.id = "entity.history" /\ p.method = "GET" /\ Len(segments) = 3
            /\ Route!SegmentMatches(Route!Id, segments[2])
            /\ segments[3] = Route!Reserved("changes")
         \/ /\ p.id = "entity.matches" /\ p.method = "GET" /\ Len(segments) = 3
            /\ Route!SegmentMatches(Route!Id, segments[2])
            /\ segments[3] = Route!Reserved("matches")
<1>1. /\ Len(segments) = Len(p.path)
      /\ \A k \in DOMAIN p.path : Route!SegmentMatches(p.path[k], segments[k])
  BY DEF Route!Matches
<1>2. ASSUME NEW a, NEW b, p.path = <<a, b>>
      PROVE  Len(segments) = 2 /\ Route!SegmentMatches(b, segments[2])
  BY <1>1, <1>2
<1>3. ASSUME NEW a, NEW b, NEW c, p.path = <<a, b, c>>
      PROVE  /\ Len(segments) = 3 /\ Route!SegmentMatches(b, segments[2])
             /\ Route!SegmentMatches(c, segments[3])
  BY <1>1, <1>3
<1>4. ASSUME NEW a, p.path = <<a>>
      PROVE  Len(segments) = 1
  BY <1>1, <1>4
<1>5. \/ /\ p.id = "entity.get" /\ p.method = "GET" /\ p.path = <<Route!Entities, Route!Id>>
      \/ /\ p.id = "entity.by-crosswalk" /\ p.method = "GET"
         /\ p.path = <<Route!Entities, Route!Reserved("byCrosswalk"), Route!Lookup>>
      \/ /\ p.id = "entity.search" /\ p.method = "POST"
         /\ p.path = <<Route!Entities, Route!Reserved("search")>>
      \/ p.id = "entity.search.get" /\ p.method = "GET" /\ p.path = <<Route!Entities>>
      \/ /\ p.id = "entity.search.get_alias" /\ p.method = "GET"
         /\ p.path = <<Route!Entities, Route!Reserved("search")>>
      \/ /\ p.id = "entity.scan" /\ p.method = "POST"
         /\ p.path = <<Route!Entities, Route!Reserved("scan")>>
      \/ /\ p.id = "entity.history" /\ p.method = "GET"
         /\ p.path = <<Route!Entities, Route!Id, Route!Reserved("changes")>>
      \/ /\ p.id = "entity.matches" /\ p.method = "GET"
         /\ p.path = <<Route!Entities, Route!Id, Route!Reserved("matches")>>
  BY DEF Route!Patterns
<1> QED  BY <1>2, <1>3, <1>4, <1>5, ReservedIs

LEMMA PatternsNamed ==
  ASSUME NEW p \in Route!Patterns, NEW q \in Route!Patterns, p.id = q.id
  PROVE  p = q
BY DEF Route!Patterns

\* No two patterns of one method match one path.
LEMMA NoTwoClaim ==
  ASSUME NEW p \in Route!Patterns, NEW q \in Route!Patterns, p.method = q.method,
         NEW segments, Route!Matches(p.path, segments), Route!Matches(q.path, segments)
  PROVE  p = q
<1>1. /\ ~Route!SegmentMatches(Route!Id, Route!Reserved("byCrosswalk"))
      /\ ~Route!SegmentMatches(Route!Id, Route!Reserved("search"))
      /\ Route!Reserved("search") # Route!Reserved("scan")
      /\ Route!Reserved("changes") # Route!Reserved("matches")
  BY ReservedIs
<1>2. p.id = q.id
  <2> DEFINE two == segments[2]
             three == segments[3]
             n == Len(segments)
  <2>1. Route!SegmentMatches(Route!Id, two) =>
          two # Route!Reserved("byCrosswalk") /\ two # Route!Reserved("search")
    BY <1>1
  <2>2. two = Route!Reserved("search") => two # Route!Reserved("scan")
    BY <1>1
  <2>3. three = Route!Reserved("changes") => three # Route!Reserved("matches")
    BY <1>1
  <2>4. n = 1 \/ n = 2 \/ n = 3
    BY PatternClaims
  <2> QED  BY <2>1, <2>2, <2>3, PatternClaims
<1> QED  BY <1>2, PatternsNamed

-------------------------------------------------------------------------------
\* What is sent.

LEMMA Concatenated ==
  ASSUME NEW S, NEW one \in Seq(S), NEW two \in Seq(S)
  PROVE  /\ one \o two \in Seq(S) /\ Len(one \o two) = Len(one) + Len(two)
         /\ \A k \in 1..Len(one) : (one \o two)[k] = one[k]
         /\ \A k \in (Len(one) + 1)..(Len(one) + Len(two)) :
              (one \o two)[k] = two[k - Len(one)]
OBVIOUS

LEMMA SameSequences ==
  ASSUME NEW S, NEW one \in Seq(S), NEW two \in Seq(S), Len(one) = Len(two),
         \A k \in 1..Len(two) : one[k] = two[k]
  PROVE  one = two
OBVIOUS

LEMMA NothingBelow ==
  ASSUME NEW S, NEW one \in Seq(S), NEW n \in Nat, n >= Len(one)
  PROVE  SubSeq(one, n + 1, Len(one)) = <<>>
<1>1. SubSeq(one, n + 1, Len(one)) \in Seq(S) /\ Len(SubSeq(one, n + 1, Len(one))) = 0
  OBVIOUS
<1> QED  BY <1>1

LEMMA WiderSequences ==
  ASSUME NEW S, NEW T, S \subseteq T, NEW one \in Seq(S)
  PROVE  one \in Seq(T)
<1>1. one \in [1..Len(one) -> S] /\ Len(one) \in Nat
  OBVIOUS
<1>2. one \in [1..Len(one) -> T]
  BY <1>1
<1> QED  BY <1>1, <1>2

LEMMA BaseIsSteady ==
  ASSUME NEW c \in {"api", "T", "jobs", "rdm"}
  PROVE  <<c>> \in Seq(Atoms) /\ Steady(<<c>>) /\ Word(<<c>>)
<1>1. c \in Atoms /\ c \notin Escapes /\ c \notin {"%", ".", "/", "\\", "control"}
  BY DEF Atoms, Escapes
<1>2. <<c>> \in Seq(Atoms) /\ Len(<<c>>) = 1 /\ DOMAIN <<c>> = 1..1 /\ <<c>>[1] = c
  BY <1>1
<1>3. Word(<<c>>)
  BY WordsAreWords
<1>4. Route!Decoded(<<c>>) = <<c>>
  <2> DEFINE word == <<c>>
  <2>1. word \in Seq(Atoms) /\ Len(word) = 1 /\ word[1] = c
    BY <1>2
  <2> HIDE DEF word
  <2>2. /\ Route!Decoded(word) \in Seq(Atoms) /\ Len(Route!Decoded(word)) = Len(word)
        /\ \A i \in 1..Len(word) :
             Route!Decoded(word)[i] = IF word[i] \in Escapes THEN Route!Value[word[i]] ELSE word[i]
    BY <2>1, DecodedIs
  <2>3. \A i \in 1..Len(word) : Route!Decoded(word)[i] = word[i]
    BY <1>1, <2>1, <2>2
  <2>4. Route!Decoded(word) = word
    BY <2>1, <2>2, <2>3
  <2> QED  BY <2>4 DEF word
<1>5. ~Route!Refuses(<<c>>)
  <2>1. \A atoms : c \notin atoms => ~Route!InSegment(<<c>>, atoms)
    BY <1>2 DEF Route!InSegment
  <2>2. ~Route!InSegment(<<c>>, {"%"}) /\ ~Route!InSegment(<<c>>, {"/", "\\", "control"})
    BY <1>1, <2>1
  <2>3. <<c>> \notin {<<".">>, <<".", ".">>}
    BY <1>1
  <2>4. \A i \in DOMAIN <<c>> : <<c>>[i] \notin DOMAIN Route!Value
    <3>1. \A i \in DOMAIN <<c>> : <<c>>[i] = c
      BY <1>2
    <3> QED  BY <1>1, <3>1, ValueIs
  <2>5. ~Route!HasEscape(<<c>>)
    BY <1>2 DEF Route!HasEscape
  <2> QED  BY <1>4, <2>2, <2>3, <2>4, <2>5 DEF Route!Refuses
<1> QED  BY <1>2, <1>3, <1>5, AcceptedIsSteady

LEMMA BaseIs ==
  ASSUME NEW s \in Route!Services
  PROVE  /\ Route!Base[s] \in Seq(Seq(Atoms)) /\ Len(Route!Base[s]) \in 1..2
         /\ \A k \in 1..Len(Route!Base[s]) : Steady(Route!Base[s][k]) /\ Word(Route!Base[s][k])
         /\ s = "data" => Len(Route!Base[s]) = 2 /\ Route!Base[s][2] = <<"T">>
<1>1. s \in {"data", "jobs", "rdm"}
  BY DEF Route!Services
<1>2. /\ Route!Base["data"] = <<<<"api">>, <<"T">>>> /\ Route!Base["jobs"] = <<<<"jobs">>>>
      /\ Route!Base["rdm"] = <<<<"rdm">>>>
  BY DEF Route!Base
<1>3. \A c \in {"api", "T", "jobs", "rdm"} :
        <<c>> \in Seq(Atoms) /\ Steady(<<c>>) /\ Word(<<c>>)
  BY BaseIsSteady
<1>4. ASSUME NEW a \in Seq(Atoms), Steady(a), Word(a), Route!Base[s] = <<a>>
      PROVE  /\ Route!Base[s] \in Seq(Seq(Atoms)) /\ Len(Route!Base[s]) = 1
             /\ \A k \in 1..Len(Route!Base[s]) : Steady(Route!Base[s][k]) /\ Word(Route!Base[s][k])
  <2>1. <<a>> \in Seq(Seq(Atoms)) /\ Len(<<a>>) = 1 /\ <<a>>[1] = a
    OBVIOUS
  <2>2. ASSUME NEW k \in 1..Len(<<a>>)
        PROVE  <<a>>[k] = a
    BY <2>1
  <2> QED  BY <1>4, <2>1, <2>2
<1>5. ASSUME NEW a \in Seq(Atoms), Steady(a), Word(a), NEW b \in Seq(Atoms), Steady(b), Word(b),
             Route!Base[s] = <<a, b>>
      PROVE  /\ Route!Base[s] \in Seq(Seq(Atoms)) /\ Len(Route!Base[s]) = 2
             /\ Route!Base[s][2] = b
             /\ \A k \in 1..Len(Route!Base[s]) : Steady(Route!Base[s][k]) /\ Word(Route!Base[s][k])
  <2>1. <<a, b>> \in Seq(Seq(Atoms)) /\ Len(<<a, b>>) = 2 /\ <<a, b>>[2] = b
    OBVIOUS
  <2>2. ASSUME NEW k \in 1..Len(<<a, b>>)
        PROVE  <<a, b>>[k] \in {a, b}
    BY <2>1
  <2> QED  BY <1>5, <2>1, <2>2
<1>6. CASE s = "data"
  <2>1. Route!Base[s] = <<<<"api">>, <<"T">>>>
    BY <1>2, <1>6
  <2>2. /\ Route!Base[s] \in Seq(Seq(Atoms)) /\ Len(Route!Base[s]) = 2
        /\ Route!Base[s][2] = <<"T">>
        /\ \A k \in 1..Len(Route!Base[s]) : Steady(Route!Base[s][k]) /\ Word(Route!Base[s][k])
    BY <1>3, <1>5, <2>1
  <2> QED  BY <2>2
<1>7. CASE s # "data"
  <2>1. Route!Base[s] = <<<<"jobs">>>> \/ Route!Base[s] = <<<<"rdm">>>>
    BY <1>1, <1>2, <1>7
  <2>2. /\ Route!Base[s] \in Seq(Seq(Atoms)) /\ Len(Route!Base[s]) = 1
        /\ \A k \in 1..Len(Route!Base[s]) : Steady(Route!Base[s][k]) /\ Word(Route!Base[s][k])
    BY <1>3, <1>4, <2>1
  <2> QED  BY <1>7, <2>2
<1> QED  BY <1>6, <1>7

LEMMA UrlIsSteady ==
  ASSUME NEW s \in Route!Services, NEW a \in Route!Argument, ~Route!RefusedPath(a)
  PROVE  /\ Route!Url(s, a) \in Seq(Seq(Atoms))
         /\ \A k \in 1..Len(Route!Url(s, a)) : Steady(Route!Url(s, a)[k])
<1>1. PICK n \in 1..MaxSegments : a.segments \in [1..n -> Segments]
  BY DEF Route!Argument
<1>2. n \in Nat /\ DOMAIN a.segments = 1..n
  BY <1>1, OutputAssumption
<1>3. \A segment \in Segments : segment \in Seq(Atoms)
  <2>1. Segments \subseteq Seq(STRING) /\ STRING \subseteq Atoms
    BY RoutingAssumption DEF Atoms
  <2>2. \A segment \in Seq(STRING) : segment \in Seq(Atoms)
    BY <2>1, WiderSequences
  <2> QED  BY <2>1, <2>2
<1>4. a.segments \in Seq(Seq(Atoms)) /\ Len(a.segments) = n
  BY <1>1, <1>2, <1>3
<1>5. \A k \in 1..n : Steady(a.segments[k])
  BY <1>1, <1>2, <1>3, AcceptedIsSteady DEF Route!RefusedPath
<1>6. CASE a.absolute
  BY <1>4, <1>5, <1>6 DEF Route!Url
<1>7. CASE ~a.absolute
  <2>1. Route!Url(s, a) = Route!Base[s] \o a.segments
    BY <1>7 DEF Route!Url
  <2>2. /\ Route!Base[s] \in Seq(Seq(Atoms)) /\ Len(Route!Base[s]) \in Nat
        /\ \A k \in 1..Len(Route!Base[s]) : Steady(Route!Base[s][k])
    BY BaseIs
  <2>3. /\ Route!Url(s, a) \in Seq(Seq(Atoms))
        /\ Len(Route!Url(s, a)) = Len(Route!Base[s]) + n
        /\ \A k \in 1..Len(Route!Base[s]) : Route!Url(s, a)[k] = Route!Base[s][k]
        /\ \A k \in (Len(Route!Base[s]) + 1)..(Len(Route!Base[s]) + n) :
             Route!Url(s, a)[k] = a.segments[k - Len(Route!Base[s])]
    <3> DEFINE one == Route!Base[s]
               two == a.segments
    <3>1. /\ one \in Seq(Seq(Atoms)) /\ two \in Seq(Seq(Atoms)) /\ Len(two) = n
          /\ Route!Url(s, a) = one \o two
      BY <1>4, <2>1, <2>2
    <3> HIDE DEF one, two
    <3>2. /\ one \o two \in Seq(Seq(Atoms)) /\ Len(one \o two) = Len(one) + Len(two)
          /\ \A k \in 1..Len(one) : (one \o two)[k] = one[k]
          /\ \A k \in (Len(one) + 1)..(Len(one) + Len(two)) :
               (one \o two)[k] = two[k - Len(one)]
      BY <3>1, Concatenated
    <3>3. /\ Route!Url(s, a) \in Seq(Seq(Atoms)) /\ Len(Route!Url(s, a)) = Len(one) + n
          /\ \A k \in 1..Len(one) : Route!Url(s, a)[k] = one[k]
          /\ \A k \in (Len(one) + 1)..(Len(one) + n) : Route!Url(s, a)[k] = two[k - Len(one)]
      BY <3>1, <3>2
    <3> QED  BY <3>3 DEF one, two
  <2>4. ASSUME NEW k \in 1..Len(Route!Url(s, a))
        PROVE  Steady(Route!Url(s, a)[k])
    <3>1. CASE k <= Len(Route!Base[s])
      <4>1. k \in 1..Len(Route!Base[s])
        BY <2>2, <2>3, <3>1
      <4> QED  BY <2>2, <2>3, <3>1, <4>1
    <3>2. CASE ~(k <= Len(Route!Base[s]))
      <4>1. k - Len(Route!Base[s]) \in 1..n
        BY <1>2, <2>2, <2>3, <3>2
      <4>2. k \in (Len(Route!Base[s]) + 1)..(Len(Route!Base[s]) + n)
        BY <1>2, <2>2, <2>3, <3>2
      <4> QED  BY <1>5, <2>3, <4>1, <4>2
    <3> QED  BY <3>1, <3>2
  <2> QED  BY <2>3, <2>4
<1> QED  BY <1>6, <1>7

\* A path and its decoding start with the same base, and have the same endpoints below.
LEMMA ReadAlike ==
  ASSUME NEW s \in Route!Services, NEW url \in Seq(Seq(Atoms)),
         \A k \in 1..Len(url) : Steady(url[k]),
         Route!StartsWith(Route!Canonical(url), Route!Base[s])
  PROVE  /\ Route!StartsWith(url, Route!Base[s])
         /\ Route!Endpoints(s, Route!Relative(s, url))
              = Route!Endpoints(s, Route!Relative(s, Route!Canonical(url)))
         /\ Route!Canonical(url) \in Seq(Seq(Atoms)) /\ Len(Route!Canonical(url)) = Len(url)
         /\ \A k \in 1..Len(url) : Route!Canonical(url)[k] = Route!Decoded(url[k])
         /\ \A k \in 1..Len(Route!Base[s]) : k \in 1..Len(url) /\ url[k] = Route!Base[s][k]
<1> DEFINE canonical == Route!Canonical(url)
           base == Route!Base[s]
<1>1. /\ canonical \in Seq(Seq(Atoms)) /\ Len(canonical) = Len(url)
      /\ \A k \in 1..Len(url) : canonical[k] = Route!Decoded(url[k])
  <2>1. \A k \in 1..Len(url) : Route!Decoded(url[k]) \in Seq(Atoms)
    BY DecodedIs
  <2>2. canonical = [k \in 1..Len(url) |-> Route!Decoded(url[k])]
    BY DEF Route!Canonical
  <2> QED  BY <2>1, <2>2
<1>2. /\ base \in Seq(Seq(Atoms)) /\ Len(base) \in 1..2
      /\ \A k \in 1..Len(base) : Word(base[k])
  BY BaseIs
<1>3. Len(canonical) >= Len(base) /\ SubSeq(canonical, 1, Len(base)) = base
  BY DEF Route!StartsWith
<1> HIDE DEF canonical, base
<1>4. ASSUME NEW k \in 1..Len(base)
      PROVE  k \in 1..Len(url) /\ url[k] = base[k]
  <2>1. k \in 1..Len(url)
    BY <1>1, <1>2, <1>3
  <2>2. SubSeq(canonical, 1, Len(base))[k] = canonical[k]
    BY <1>1, <1>2, <1>3
  <2>3. Route!Decoded(url[k]) = base[k]
    BY <1>1, <1>3, <2>1, <2>2
  <2> QED  BY <1>2, <2>1, <2>3, SteadyWord
<1>5. SubSeq(url, 1, Len(base)) = base
  <2>1. /\ SubSeq(url, 1, Len(base)) \in Seq(Seq(Atoms))
        /\ Len(SubSeq(url, 1, Len(base))) = Len(base)
        /\ \A k \in 1..Len(base) : SubSeq(url, 1, Len(base))[k] = url[k]
    BY <1>1, <1>2, <1>3
  <2>2. \A k \in 1..Len(base) : SubSeq(url, 1, Len(base))[k] = base[k]
    BY <1>4, <2>1
  <2> QED  BY <1>2, <2>1, <2>2, SameSequences
<1>6. Route!StartsWith(url, base)
  BY <1>1, <1>3, <1>5 DEF Route!StartsWith
<1> DEFINE n == Len(url) - Len(base)
           raw == SubSeq(url, Len(base) + 1, Len(url))
           read == SubSeq(canonical, Len(base) + 1, Len(url))
<1>7. /\ n \in Nat /\ raw \in Seq(Seq(Atoms)) /\ read \in Seq(Seq(Atoms))
      /\ Len(raw) = n /\ Len(read) = n
      /\ \A k \in 1..n : raw[k] = url[k + Len(base)] /\ read[k] = canonical[k + Len(base)]
  BY <1>1, <1>2, <1>3
<1>8. \A k \in 1..n : Steady(raw[k]) /\ read[k] = Route!Decoded(raw[k])
  <2> SUFFICES ASSUME NEW k \in 1..n  PROVE Steady(raw[k]) /\ read[k] = Route!Decoded(raw[k])
    OBVIOUS
  <2>1. k + Len(base) \in 1..Len(url)
    BY <1>1, <1>2, <1>3
  <2> QED  BY <1>1, <1>7, <2>1
<1> HIDE DEF n, raw, read
<1>9. \A p \in Route!Patterns : Route!Matches(p.path, raw) <=> Route!Matches(p.path, read)
  BY <1>7, <1>8, MatchesEither
<1>10. Route!Endpoints(s, raw) = Route!Endpoints(s, read)
  BY <1>9 DEF Route!Endpoints
<1>11. Route!Relative(s, url) = raw /\ Route!Relative(s, canonical) = read
  BY <1>1 DEF Route!Relative, raw, read, base
<1> QED  BY <1>1, <1>4, <1>6, <1>10, <1>11 DEF canonical, base

\* What Ask sends is certain.
LEMMA SentIsCertain ==
  ASSUME service \in Route!Services, argument \in Route!Argument, Route!Ask
  PROVE  Route!RouteCertain'
<1> DEFINE url == Route!Url(service, argument)
           relative == Route!Relative(service, Route!Canonical(url))
           endpoints == IF argument.trailing THEN {} ELSE Route!Endpoints(service, relative)
           bound == Route!TenantBound(service, Route!Relative(service, url))
<1>1. UNCHANGED <<service, argument>>
  BY DEF Route!Ask
<1>2. CASE taken' = Route!Refused
  BY <1>2 DEF Route!RouteCertain, Route!Refused
<1>3. CASE /\ ~Route!RefusedPath(argument) /\ Route!Within(service, argument)
           /\ taken' = [kind |-> "sent", url |-> url, bound |-> bound, endpoints |-> endpoints]
  <2>1. url \in Seq(Seq(Atoms)) /\ \A k \in 1..Len(url) : Steady(url[k])
    BY <1>3, UrlIsSteady
  <2>2. Route!StartsWith(Route!Canonical(url), Route!Base[service])
    BY <1>3 DEF Route!Within
  <2>3. taken'.url = url /\ taken'.bound = bound /\ taken'.endpoints = endpoints
    BY <1>3
  <2>4. DOMAIN url = 1..Len(url) /\ Len(url) \in Nat
    BY <2>1
  <2> HIDE DEF url
  <2>5. /\ Route!StartsWith(url, Route!Base[service])
        /\ Route!Endpoints(service, Route!Relative(service, url))
             = Route!Endpoints(service, relative)
        /\ Route!Canonical(url) \in Seq(Seq(Atoms)) /\ Len(Route!Canonical(url)) = Len(url)
        /\ \A k \in 1..Len(url) : Route!Canonical(url)[k] = Route!Decoded(url[k])
        /\ \A k \in 1..Len(Route!Base[service]) :
             k \in 1..Len(url) /\ url[k] = Route!Base[service][k]
    BY <2>1, <2>2, ReadAlike
  <2>6. Route!Readings(url) = {url, Route!Canonical(url)}
    <3>1. [k \in DOMAIN url |-> url[k]] = url
      BY <2>1
    <3>2. [k \in DOMAIN url |-> Route!Again(Route!Decoded(url[k]))] = Route!Canonical(url)
      BY <2>1, <2>4 DEF Route!Canonical, Steady
    <3> QED  BY <3>1, <3>2 DEF Route!Readings
  <2>7. \A k \in DOMAIN url : \A form \in Route!Forms(url[k]) : ~Route!Moves(form)
    BY <2>1, <2>4 DEF Steady
  <2>8. \A reading \in Route!Readings(url) : Route!StartsWith(reading, Route!Base[service])
    BY <2>2, <2>5, <2>6
  <2>9. \A reading \in Route!Readings(url) :
          endpoints # {} => Route!Endpoints(service, Route!Relative(service, reading)) = endpoints
    BY <2>5, <2>6
  <2>10. bound => \A reading \in Route!Readings(url) :
           \E k \in DOMAIN reading :
             reading[k] = <<"T">> /\ k <= Len(Route!Base[service]) + 1
    <3> SUFFICES ASSUME bound
                 PROVE  \E k \in 1..Len(url) : /\ url[k] = <<"T">>
                                               /\ k <= Len(Route!Base[service]) + 1
      <4>1. Word(<<"T">>) /\ DOMAIN Route!Canonical(url) = 1..Len(url)
        BY <2>5, WordsAreWords
      <4>2. \A k \in 1..Len(url) : url[k] = <<"T">> => Route!Canonical(url)[k] = <<"T">>
        BY <2>1, <2>5, <4>1, SteadyWord
      <4> QED  BY <2>4, <2>6, <4>1, <4>2
    <3>1. /\ Route!Base[service] \in Seq(Seq(Atoms)) /\ Len(Route!Base[service]) \in 1..2
          /\ service = "data" => Len(Route!Base[service]) = 2 /\ Route!Base[service][2] = <<"T">>
      BY BaseIs
    <3>2. CASE service = "data"
      <4>1. 2 \in 1..Len(url) /\ url[2] = <<"T">> /\ 2 <= Len(Route!Base[service]) + 1
        <5>1. Len(Route!Base[service]) = 2 /\ Route!Base[service][2] = <<"T">>
          BY <3>1, <3>2
        <5>2. 2 \in 1..Len(Route!Base[service])
          BY <5>1
        <5>3. 2 \in 1..Len(url) /\ url[2] = Route!Base[service][2]
          BY <2>5, <5>2
        <5>4. 2 <= Len(Route!Base[service]) + 1
          BY <5>1
        <5> QED  BY <5>1, <5>3, <5>4
      <4> QED  BY <4>1
    <3>3. CASE service # "data"
      <4> DEFINE below == Route!Relative(service, url)
      <4>1. below # <<>> /\ below[1] = <<"T">>
        BY <3>3 DEF Route!TenantBound
      <4>2. below = SubSeq(url, Len(Route!Base[service]) + 1, Len(url))
        BY DEF Route!Relative
      <4> HIDE DEF below
      <4>3. Len(Route!Base[service]) + 1 <= Len(url)
        <5>1. Len(Route!Base[service]) \in Nat
          BY <3>1
        <5>2. ~(Len(Route!Base[service]) >= Len(url))
          BY <2>1, <4>1, <4>2, <5>1, NothingBelow
        <5> QED  BY <2>4, <5>1, <5>2
      <4>4. below[1] = url[Len(Route!Base[service]) + 1]
        BY <2>1, <2>4, <3>1, <4>2, <4>3
      <4>5. Len(Route!Base[service]) + 1 \in 1..Len(url)
        BY <2>4, <3>1, <4>3
      <4>6. url[Len(Route!Base[service]) + 1] = <<"T">>
        BY <4>1, <4>4
      <4>7. Len(Route!Base[service]) + 1 <= Len(Route!Base[service]) + 1
        BY <3>1
      <4> QED  BY <4>5, <4>6, <4>7
    <3> QED  BY <3>2, <3>3
  <2>11. \A p, q \in endpoints : p.method = q.method => p = q
    BY NoTwoClaim DEF Route!Endpoints
  <2> HIDE DEF endpoints, bound
  <2> QED  BY <1>1, <2>3, <2>7, <2>8, <2>9, <2>10, <2>11 DEF Route!RouteCertain
<1> QED  BY <1>2, <1>3 DEF Route!Ask

\* What is asked is typed; nothing is sent, or what is sent is certain.
RouteInvariant ==
  /\ part = "route" => service \in Route!Services /\ argument \in Route!Argument
  /\ Route!RouteCertain

LEMMA RouteStarts ==
  CommandsInit => RouteInvariant
<1> SUFFICES ASSUME CommandsInit  PROVE RouteInvariant
  OBVIOUS
<1>1. taken = [kind |-> "none"]
  BY DEF CommandsInit, RouteRests, Route!Init, Route!NoOutcome
<1>2. Route!RouteCertain
  BY <1>1 DEF Route!RouteCertain
<1> QED  BY <1>2 DEF RouteInvariant, CommandsInit, Route!Init

LEMMA RouteRestsElsewhere ==
  ASSUME CommandsNext \/ UNCHANGED all
  PROVE  /\ part' = part
         /\ (part = "route" /\ Route!Ask) \/ UNCHANGED routeVars
BY DEF CommandsNext, all, InScan, InControl, InRaw, InStream, InRoute, InTarget, InLease,
       InDiagnosis

LEMMA RouteKept ==
  CommandsSpec => []RouteInvariant
<1>1. RouteInvariant /\ [CommandsNext]_all => RouteInvariant'
  <2> SUFFICES ASSUME RouteInvariant, CommandsNext \/ UNCHANGED all  PROVE RouteInvariant'
    OBVIOUS
  <2>1. part' = part
    BY RouteRestsElsewhere
  <2>2. CASE part = "route" /\ Route!Ask
    BY <2>1, <2>2, SentIsCertain DEF RouteInvariant, Route!Ask
  <2>3. CASE UNCHANGED routeVars
    BY <2>1, <2>3
    DEF RouteInvariant, routeVars, Route!RouteCertain
  <2> QED  BY <2>2, <2>3, RouteRestsElsewhere
<1> QED  BY <1>1, RouteStarts, PTL DEF CommandsSpec

-------------------------------------------------------------------------------
(***************************************************************************)
(* The target that an invocation resolves (TargetResolution).              *)
(***************************************************************************)
\* The environment that a route resolves to, and the key of a bearer for the route.
RouteEnvironment(route) ==
  Resolution!Or(route.environment,
                IF Resolution!ProfileBase(route) = None THEN None
                ELSE [url |-> FALSE, host |-> Resolution!ProfileBase(route)])
RouteKey(route) ==
  [environment |-> RouteEnvironment(route), base |-> Resolution!ProfileBase(route),
   tenant |-> route.tenant, data |-> route.data, auth_url |-> route.auth_url]

\* What authenticates was set up for the route that the profile has, and a bearer is
\* kept under the key of that route.
TargetInvariant ==
  /\ profile.route \in Routes /\ profile.auth \in Resolution!Auth
  /\ home = IF profile.auth = Resolution!NoAuth THEN None ELSE profile.route
  /\ profile = [route |-> profile.route, auth |-> profile.auth]
  /\ profile.auth.method # "bearer" => profile.auth.key = None
  /\ profile.auth.method = "bearer" => profile.auth.key = RouteKey(profile.route)

LEMMA TargetStays ==
  ASSUME TargetInvariant, NEW i \in Resolution!Invocation, Resolution!Resolves(profile, i),
         ~Resolution!Overridden(profile.route, i)
  PROVE  LET t == Resolution!Target(profile, i)
         IN  /\ t.auth = profile.auth /\ t.data = profile.route.data
             /\ t.auth_url = profile.route.auth_url
             /\ t.base = Resolution!ProfileBase(profile.route)
             /\ t.environment = RouteEnvironment(profile.route) /\ t.environment # None
             /\ t.tenant = Resolution!Or(i.tenant, profile.route.tenant) /\ t.tenant # None
<1> DEFINE route == profile.route
           t == Resolution!Target(profile, i)
<1>1. ~Resolution!DataChanged(route, i) /\ ~Resolution!AuthChanged(route, i)
  BY DEF Resolution!Overridden
<1>2. t.environment # None /\ t.tenant # None
  BY DEF Resolution!Resolves
<1>3. t = [environment |-> Resolution!Or(IF Resolution!SameEnvironment(route, i)
                                         THEN route.environment
                                         ELSE Resolution!Or(i.environment, route.environment),
             IF Resolution!ProfileBase(route) = None THEN None
             ELSE [url |-> FALSE, host |-> Resolution!ProfileBase(route)]),
           base |-> Resolution!ProfileBase(route),
           tenant |-> Resolution!Or(i.tenant, route.tenant), data |-> route.data,
           auth_url |-> route.auth_url, auth |-> profile.auth]
  BY <1>1 DEF Resolution!Target
<1>4. (IF Resolution!SameEnvironment(route, i) THEN route.environment
       ELSE Resolution!Or(i.environment, route.environment)) = route.environment
  BY <1>1 DEF Resolution!DataChanged, Resolution!SameEnvironment, Resolution!Or
<1> QED  BY <1>2, <1>3, <1>4 DEF RouteEnvironment

LEMMA TargetMoves ==
  ASSUME TargetInvariant, NEW i \in Resolution!Invocation, Resolution!Resolves(profile, i),
         Resolution!DataChanged(profile.route, i)
  PROVE  LET t == Resolution!Target(profile, i)
         IN  /\ Resolution!DataOrigin(t) = Resolution!InvocationBase(i) /\ t.tenant = i.tenant
             /\ Resolution!AuthUrl(t) = Resolution!Or(i.auth_url, Central)
<1> DEFINE route == profile.route
           t == Resolution!Target(profile, i)
<1>1. /\ Resolution!FlagIsUrl(i) \/ i.base # None
      /\ i.tenant # None
  BY DEF Resolution!Resolves, Resolution!Overridden, Resolution!RefusedOverride
<1>2. Resolution!InvocationBase(i) # None
  <2>1. CASE Resolution!FlagIsUrl(i)
    <3>1. i.environment \in Resolution!Environments
      BY <2>1 DEF Resolution!FlagIsUrl, Resolution!IsUrl, Resolution!Invocation
    <3>2. i.environment.host \in Hosts
      BY <3>1 DEF Resolution!Environments
    <3> QED  BY <2>1, <3>2, RoutingAssumption DEF Resolution!InvocationBase
  <2>2. CASE ~Resolution!FlagIsUrl(i)
    BY <1>1, <2>2 DEF Resolution!InvocationBase, Resolution!Or
  <2> QED  BY <2>1, <2>2
<1>3. /\ t.base = Resolution!InvocationBase(i) /\ t.data = None
      /\ t.tenant = Resolution!Or(i.tenant, route.tenant)
      /\ t.auth_url = IF i.auth_url # None THEN i.auth_url ELSE None
  BY DEF Resolution!Target
<1> QED  BY <1>1, <1>2, <1>3 DEF Resolution!DataOrigin, Resolution!AuthUrl, Resolution!Or

\* Credentials of the profile's are used only where nothing is overridden.
LEMMA StoredNotOverridden ==
  ASSUME TargetInvariant, NEW i \in Resolution!Invocation,
         Resolution!Source(Resolution!Target(profile, i), i).stored
  PROVE  /\ ~Resolution!Overridden(profile.route, i) /\ profile.auth # Resolution!NoAuth
         /\ Resolution!Source(Resolution!Target(profile, i), i).kind = "bearer" =>
              /\ profile.auth.method = "bearer"
              /\ profile.auth.key = Resolution!KeyOf(Resolution!Target(profile, i))
<1> DEFINE t == Resolution!Target(profile, i)
<1>1. t.auth = IF Resolution!Overridden(profile.route, i) THEN Resolution!NoAuth ELSE profile.auth
  BY DEF Resolution!Target
<1>2. None \notin {"bearer", "client", "process"}
  BY RoutingAssumption
<1> HIDE DEF t
<1>3. t.auth # Resolution!NoAuth
  <2> SUFFICES ASSUME t.auth = Resolution!NoAuth  PROVE FALSE
    OBVIOUS
  <2>1. Resolution!Or(t.auth.method, IF i.own # {} THEN "client" ELSE None) \in {"client", None}
    BY DEF Resolution!NoAuth, Resolution!Or
  <2> QED  BY <1>2, <2>1 DEF Resolution!Source, t
<1>4. Resolution!Source(t, i).kind = "bearer" =>
        t.auth.method = "bearer" /\ t.auth.key = Resolution!KeyOf(t)
  BY <1>2 DEF Resolution!Source, Resolution!Or
<1>5. Resolution!Source(t, i).stored
  BY DEF t
<1> QED  BY <1>1, <1>3, <1>4 DEF t

LEMMA CredentialsStayHome ==
  ASSUME TargetInvariant
  PROVE  Resolution!TargetInv
<1>1. Resolution!TypeOK
  BY DEF TargetInvariant, Resolution!TypeOK
<1> SUFFICES ASSUME NEW i \in Resolution!Invocation, Resolution!Resolves(profile, i)
             PROVE  LET t == Resolution!Target(profile, i)
                        source == Resolution!Source(t, i)
                    IN  /\ Resolution!StoredStaysHome(t, source) /\ Resolution!OverrideIsOwn(i, t)
                        /\ Resolution!BearerFound(i, source)
  BY <1>1 DEF Resolution!TargetInv
<1> DEFINE t == Resolution!Target(profile, i)
           source == Resolution!Source(t, i)
           route == profile.route
<1>2. Resolution!OverrideIsOwn(i, t)
  BY TargetMoves DEF Resolution!OverrideIsOwn
<1>3. Resolution!StoredStaysHome(t, source)
  <2> SUFFICES ASSUME source.stored
               PROVE  /\ home # None
                      /\ Resolution!DataOrigin(t) =
                           Resolution!Or(home.data, Resolution!ProfileOrigin(home))
                      /\ Resolution!AuthUrl(t) = Resolution!Or(home.auth_url, Central)
                      /\ source.kind = "bearer" => t.tenant = home.tenant
    BY DEF Resolution!StoredStaysHome
  <2>1. /\ ~Resolution!Overridden(route, i) /\ profile.auth # Resolution!NoAuth
        /\ source.kind = "bearer" =>
             profile.auth.method = "bearer" /\ profile.auth.key = Resolution!KeyOf(t)
    BY StoredNotOverridden
  <2>2. home = route
    BY <2>1 DEF TargetInvariant
  <2>3. home # None
    BY <2>1, RoutingAssumption DEF TargetInvariant
  <2>4. /\ t.data = route.data /\ t.auth_url = route.auth_url
        /\ t.base = Resolution!ProfileBase(route)
        /\ t.environment = RouteEnvironment(route) /\ t.environment # None
    BY <2>1, TargetStays
  <2> HIDE DEF t, source, route
  <2>5. Resolution!AuthUrl(t) = Resolution!Or(home.auth_url, Central)
    BY <2>2, <2>4 DEF Resolution!AuthUrl
  <2>6. Resolution!Or(t.base, t.environment.host) = Resolution!ProfileOrigin(route)
    BY <2>4 DEF Resolution!ProfileOrigin, Resolution!Or, RouteEnvironment
  <2>7. Resolution!DataOrigin(t) = Resolution!Or(home.data, Resolution!ProfileOrigin(home))
    BY <2>2, <2>4, <2>6 DEF Resolution!DataOrigin
  <2>8. source.kind = "bearer" => t.tenant = home.tenant
    BY <2>1, <2>2 DEF TargetInvariant, RouteKey, Resolution!KeyOf, route
  <2> QED  BY <2>3, <2>5, <2>7, <2>8
<1>4. Resolution!BearerFound(i, source)
  <2> SUFFICES ASSUME profile.auth.method = "bearer", "token" \notin i.own,
                      ~Resolution!Overridden(route, i), ~Resolution!TenantOverridden(route, i)
               PROVE  source.kind = "bearer"
    BY DEF Resolution!BearerFound
  <2>1. /\ t.auth = profile.auth /\ t.data = route.data /\ t.auth_url = route.auth_url
        /\ t.base = Resolution!ProfileBase(route) /\ t.environment = RouteEnvironment(route)
        /\ t.tenant = Resolution!Or(i.tenant, route.tenant)
    BY TargetStays
  <2>2. t.tenant = route.tenant
    BY <2>1 DEF Resolution!TenantOverridden, Resolution!Or
  <2>3. Resolution!KeyOf(t) = RouteKey(route)
    BY <2>1, <2>2 DEF Resolution!KeyOf, RouteKey
  <2>4. t.auth.method = "bearer" /\ t.auth.key = Resolution!KeyOf(t)
    BY <2>1, <2>3 DEF TargetInvariant
  <2> HIDE DEF t
  <2> QED  BY <2>4, RoutingAssumption DEF Resolution!Source, Resolution!Or
<1> QED  BY <1>2, <1>3, <1>4

LEMMA ChangesTyped ==
  ASSUME NEW auth \in Resolution!Auth, NEW changed \in Resolution!Changes(auth)
  PROVE  /\ changed \in Resolution!Auth /\ changed.key = auth.key
         /\ changed.method \in {auth.method, "client"}
BY DEF Resolution!Changes, Resolution!Auth

LEMMA UpdateKept ==
  ASSUME TargetInvariant, NEW route \in Routes, NEW auth \in Resolution!Changes(profile.auth),
         NEW clear \in BOOLEAN, Resolution!Update(route, auth, clear)
  PROVE  TargetInvariant'
<1>1. /\ auth \in Resolution!Auth /\ auth.key = profile.auth.key
      /\ auth.method \in {profile.auth.method, "client"}
  BY ChangesTyped DEF TargetInvariant
<1>2. Resolution!NoAuth \in Resolution!Auth /\ Resolution!NoAuth.key = None
      /\ Resolution!NoAuth.method = None /\ None \notin {"bearer", "client", "process"}
  BY RoutingAssumption DEF Resolution!NoAuth, Resolution!Auth
<1>3. CASE clear /\ Resolution!Become(Resolution!NoAuth, route)
  BY <1>2, <1>3 DEF TargetInvariant, Resolution!Become
<1>4. CASE ~clear
  <2> DEFINE new == IF auth.method # "bearer" THEN [auth EXCEPT !.key = None] ELSE auth
  <2>1. /\ route # profile.route => profile.auth = Resolution!NoAuth
        /\ Resolution!Become(new, route)
    BY <1>4 DEF Resolution!Update
  <2>2. /\ new \in Resolution!Auth /\ new.method = auth.method
        /\ new.method # "bearer" => new.key = None
        /\ new.method = "bearer" => new = auth
    BY <1>1 DEF Resolution!Auth
  <2> HIDE DEF new
  <2>3. new.method = "bearer" =>
          profile.auth.method = "bearer" /\ route = profile.route /\ new.key = profile.auth.key
    BY <1>1, <1>2, <2>1, <2>2
  <2>4. /\ profile' = [route |-> route, auth |-> new]
        /\ home' = IF new = Resolution!NoAuth THEN None ELSE route
    BY <2>1 DEF Resolution!Become, TargetInvariant
  <2>5. profile'.route = route /\ profile'.auth = new
    BY <2>4
  <2> QED  BY <2>2, <2>3, <2>4, <2>5 DEF TargetInvariant
<1> QED  BY <1>3, <1>4 DEF Resolution!Update

LEMMA KeyTyped ==
  ASSUME NEW route \in Routes, RouteEnvironment(route) # None, route.tenant # None
  PROVE  RouteKey(route) \in Resolution!Key
<1>1. route \in [environment : Resolution!Environments \cup {None}, base : Hosts \cup {None},
                 tenant : Tenants \cup {None}, data : {Proxy, None}, auth_url : {OwnAuth, None}]
  BY RoutingAssumption
<1>2. Resolution!ProfileBase(route) \in Hosts \cup {None}
  BY <1>1 DEF Resolution!ProfileBase, Resolution!IsUrl, Resolution!Environments
<1>3. RouteEnvironment(route) \in Resolution!Environments
  BY <1>1, <1>2 DEF RouteEnvironment, Resolution!Or, Resolution!Environments
<1> QED  BY <1>1, <1>2, <1>3 DEF RouteKey, Resolution!Key

LEMMA LoginKept ==
  ASSUME TargetInvariant, NEW i \in Resolution!Invocation,
         NEW method \in {"bearer", "client", "process"}, NEW id \in BOOLEAN,
         Resolution!Login(i, method, id)
  PROVE  TargetInvariant'
<1> DEFINE route == profile.route
           t == Resolution!Target(profile, i)
           auth == [method |-> method, id |-> id \/ "id" \in i.own \/ profile.auth.id,
                    key |-> IF method = "bearer" THEN Resolution!KeyOf(t) ELSE None]
<1>1. /\ Resolution!Resolves(profile, i)
      /\ ~Resolution!Overridden(route, i) /\ ~Resolution!TenantOverridden(route, i)
      /\ profile' = [profile EXCEPT !.auth = auth]
      /\ home' = route
  BY DEF Resolution!Login
<1>2. /\ t.data = route.data /\ t.auth_url = route.auth_url
      /\ t.base = Resolution!ProfileBase(route)
      /\ t.environment = RouteEnvironment(route) /\ t.environment # None
      /\ t.tenant = Resolution!Or(i.tenant, route.tenant) /\ t.tenant # None
  BY <1>1, TargetStays
<1> HIDE DEF t
<1>3. t.tenant = route.tenant
  BY <1>1, <1>2 DEF Resolution!TenantOverridden, Resolution!Or
<1>4. Resolution!KeyOf(t) = RouteKey(route)
  BY <1>2, <1>3 DEF Resolution!KeyOf, RouteKey
<1>5. Resolution!KeyOf(t) \in Resolution!Key
  BY <1>2, <1>3, <1>4, KeyTyped DEF TargetInvariant
<1>6. /\ auth \in Resolution!Auth /\ auth.method = method
      /\ auth.key = IF method = "bearer" THEN RouteKey(route) ELSE None
      /\ auth # Resolution!NoAuth
  <2>1. auth.method # None
    BY RoutingAssumption
  <2>2. profile.auth.id \in BOOLEAN
    BY DEF TargetInvariant, Resolution!Auth
  <2>3. auth.id \in BOOLEAN
    BY <2>2
  <2> QED  BY <1>4, <1>5, <2>1, <2>3 DEF Resolution!Auth, Resolution!NoAuth
<1> HIDE DEF auth
<1>7. profile' = [route |-> route, auth |-> auth]
  BY <1>1 DEF TargetInvariant
<1>8. profile'.route = route /\ profile'.auth = auth
  BY <1>7
<1> QED  BY <1>1, <1>6, <1>7, <1>8 DEF TargetInvariant

LEMMA LogoutKept ==
  ASSUME TargetInvariant, Resolution!Logout
  PROVE  TargetInvariant'
<1>1. profile' = [route |-> profile.route, auth |-> Resolution!NoAuth] /\ home' = None
  BY DEF Resolution!Logout, TargetInvariant
<1>2. /\ Resolution!NoAuth \in Resolution!Auth /\ Resolution!NoAuth.key = None
      /\ Resolution!NoAuth.method = None /\ None # "bearer"
  BY RoutingAssumption DEF Resolution!NoAuth, Resolution!Auth
<1>3. profile'.route = profile.route /\ profile'.auth = Resolution!NoAuth
  BY <1>1
<1> QED  BY <1>1, <1>2, <1>3 DEF TargetInvariant

LEMMA TargetStarts ==
  ASSUME Resolution!Init
  PROVE  TargetInvariant
<1>1. PICK route \in Routes, auth \in {Resolution!NoAuth,
                         [Resolution!NoAuth EXCEPT !.method = "client", !.id = TRUE]} :
        /\ profile = [route |-> route, auth |-> auth]
        /\ home = IF auth = Resolution!NoAuth THEN None ELSE route
  BY DEF Resolution!Init
<1>2. /\ auth \in Resolution!Auth /\ auth.key = None /\ auth.method \in {"client", None}
      /\ None # "bearer"
  <2>1. auth = [method |-> None, id |-> FALSE, key |-> None]
          \/ auth = [method |-> "client", id |-> TRUE, key |-> None]
    BY DEF Resolution!NoAuth
  <2>2. None # "bearer"
    BY RoutingAssumption
  <2>3. /\ [method |-> None, id |-> FALSE, key |-> None] \in Resolution!Auth
        /\ [method |-> "client", id |-> TRUE, key |-> None] \in Resolution!Auth
    BY DEF Resolution!Auth
  <2>4. CASE auth = [method |-> None, id |-> FALSE, key |-> None]
    BY <2>2, <2>3, <2>4
  <2>5. CASE auth = [method |-> "client", id |-> TRUE, key |-> None]
    BY <2>2, <2>3, <2>5
  <2> QED  BY <2>1, <2>4, <2>5
<1>3. profile.route = route /\ profile.auth = auth
  BY <1>1
<1> QED  BY <1>1, <1>2, <1>3 DEF TargetInvariant

LEMMA TargetRestsElsewhere ==
  ASSUME CommandsNext \/ UNCHANGED all, part # "target"
  PROVE  UNCHANGED <<part, targetVars>>
BY DEF CommandsNext, all, InScan, InControl, InRaw, InStream, InRoute, InTarget, InLease,
       InDiagnosis

LEMMA TargetStepIs ==
  ASSUME CommandsNext \/ UNCHANGED all, part = "target"
  PROVE  /\ part' = part
         /\ Resolution!Next \/ UNCHANGED targetVars
BY DEF CommandsNext, all, InScan, InControl, InRaw, InStream, InRoute, InTarget, InLease,
       InDiagnosis

LEMMA TargetKept ==
  CommandsSpec => [](part = "target" => TargetInvariant)
<1>1. CommandsInit => (part = "target" => TargetInvariant)
  BY TargetStarts DEF CommandsInit
<1>2. (part = "target" => TargetInvariant) /\ [CommandsNext]_all
        => (part = "target" => TargetInvariant)'
  <2> SUFFICES ASSUME part = "target" => TargetInvariant, CommandsNext \/ UNCHANGED all,
                      part' = "target"
               PROVE  TargetInvariant'
    OBVIOUS
  <2>1. part = "target"
    BY TargetRestsElsewhere
  <2>2. CASE Resolution!Next
    BY <2>1, <2>2, UpdateKept, LoginKept, LogoutKept DEF Resolution!Next
  <2>3. CASE UNCHANGED targetVars
    BY <2>1, <2>3 DEF TargetInvariant, targetVars
  <2> QED  BY <2>1, <2>2, <2>3, TargetStepIs
<1> QED  BY <1>1, <1>2, PTL DEF CommandsSpec

\* Every server reads the path of a request as the command does: no spelling of a path
\* that is not refused moves it, leaves the base or the tenant, or reaches another
\* endpoint than the one whose practices were applied; and stored credentials stay on
\* the route that they were stored for (request_url, match_endpoint, resolve_target,
\* resolve_credential_source).
THEOREM RoutesAreCertain == CommandsSpec => []RoutingInv
<1>1. RouteInvariant /\ (part = "target" => TargetInvariant) => RoutingInv
  BY CredentialsStayHome DEF RouteInvariant, RoutingInv
<1> QED  BY <1>1, RouteKept, TargetKept, PTL
===============================================================================
