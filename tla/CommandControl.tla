---------------------------- MODULE CommandControl ----------------------------
(***************************************************************************)
(* How a command ends: run_command_with_control races the command with the *)
(* signals and the deadline, and the command writes its output with        *)
(* write_controlled, which races a writer thread with the same events.     *)
(* Event stamps decide which came first.                                   *)
(*                                                                         *)
(* The clock is 0 before the deadline, 1 at it and 2 after it.  A select   *)
(* looks at its branches in one step: an event between two looks is one    *)
(* after the select, whose handler is a step of its own.                   *)
(***************************************************************************)
EXTENDS Naturals

CONSTANT Chunks      \* pieces of the output, each written by one call

VARIABLES
  clock,
  signals,   \* interrupts received
  token,     \* cancellation: its reason and stamp
  stamps,    \* stamps drawn so far: the shared sequence
  control,   \* control point of main and run_command_with_control
  command,   \* control point of the command
  outcome,   \* result of the command
  thread,    \* control point of the output writer
  result,    \* the writer's result
  stamp,     \* when the writer was done
  written,   \* chunks in the output
  lease,     \* holder of the final output lease
  guard,     \* is the output guard up to date with the stored credentials?
  decided,   \* the result that main reports, and if it calls it interrupted
  exit       \* exit status

events == <<clock, signals, token, stamps>>
writer == <<thread, result, stamp, written, lease, guard>>
vars == <<events, control, command, outcome, writer, decided, exit>>

Deadline == 1
Results == {"ok", "own", "canceled", "timeout"}
Nothing == "none"
Never == [at |-> 3, order |-> 3]
NotCancelled == [reason |-> "none", stamp |-> Never]

Late == clock >= Deadline
Cancelled == token.reason # "none"
Forced == signals = 2
Now == [at |-> clock, order |-> stamps]
Precedes(a, b) == a.at < b.at \/ (a.at = b.at /\ a.order < b.order)

Init ==
  /\ clock \in 0..1 /\ signals = 0 /\ token = NotCancelled /\ stamps = 0
  /\ control = "start" /\ command = "work" /\ outcome = Nothing
  /\ thread = "none" /\ result = Nothing /\ stamp = Never /\ written = 0
  /\ lease = "free" /\ guard = "none"
  /\ decided = [result |-> Nothing, interrupted |-> FALSE]
  /\ exit = Nothing

-------------------------------------------------------------------------------
\* Events.

\* cancel_with_reason: the first cancellation stays.
CancelWith(reason) ==
  IF Cancelled THEN UNCHANGED <<token, stamps>>
  ELSE token' = [reason |-> reason, stamp |-> Now] /\ stamps' = stamps + 1

\* record_interrupt
Interrupt ==
  /\ exit = Nothing /\ signals < 2
  /\ signals' = signals + 1
  /\ IF signals = 0 THEN CancelWith("signal") ELSE UNCHANGED <<token, stamps>>
  /\ UNCHANGED <<clock, control, command, outcome, writer, decided, exit>>

Pass ==
  /\ clock < 2 /\ clock' = clock + 1
  /\ UNCHANGED <<signals, token, stamps, control, command, outcome, writer, decided, exit>>

SignalPrecededDeadline == token.reason = "signal" /\ token.stamp.at <= Deadline

\* active_output_control, active_resume_control and their like
ActiveControl ==
  IF Cancelled /\ (~Late \/ token.stamp.at <= Deadline) THEN "canceled"
  ELSE IF Late THEN "timeout" ELSE Nothing

\* Seeded fault: only the deadline is compared with the stamp.
ControlAfterDeadline == IF stamp.at < Deadline THEN Nothing ELSE "timeout"

\* output_control_after: the control event that came before the writer's stamp.
ControlAfter ==
  LET canceled == Cancelled /\ ~Precedes(stamp, token.stamp)
      timedOut == ~(stamp.at < Deadline)
  IN  IF canceled /\ (~timedOut \/ token.stamp.at <= Deadline) THEN "canceled"
      ELSE IF timedOut THEN "timeout" ELSE Nothing

-------------------------------------------------------------------------------
\* The command and its output.

\* The select looks at the command.
Polled == control \in {"select", "cancelling", "timing"}

Done(r) == command' = "done" /\ outcome' = r

Work ==
  /\ Polled /\ command = "work"
  /\ \/ /\ ~Cancelled /\ ~Late /\ lease = "free"
        /\ command' = "emit" /\ lease' = "command" /\ guard' = "current"
        /\ UNCHANGED outcome
     \/ /\ \/ Done("own")
           \/ Cancelled /\ Done("canceled")
           \/ Late /\ Done("timeout")
        /\ UNCHANGED <<lease, guard>>
  /\ UNCHANGED <<events, control, thread, result, stamp, written, decided, exit>>

\* write_controlled
Emit ==
  /\ Polled /\ command = "emit"
  /\ \/ /\ ActiveControl # Nothing /\ Done(ActiveControl)
        /\ lease' = "free" /\ UNCHANGED thread
     \/ /\ ActiveControl = Nothing
        /\ command' = "await" /\ thread' = "check" /\ lease' = "thread"
        /\ UNCHANGED outcome
  /\ UNCHANGED <<events, control, result, stamp, written, guard, decided, exit>>

\* write_chunks, ensure_output_active
Check ==
  /\ thread = "check"
  /\ \/ /\ ~Cancelled /\ ~Late /\ written < Chunks
        /\ thread' = "write" /\ UNCHANGED result
     \/ /\ (Cancelled \/ Late) /\ written < Chunks
        /\ thread' = "wrote" /\ result' = IF Cancelled THEN "canceled" ELSE "timeout"
     \/ /\ written = Chunks        \* the flush
        /\ thread' = "wrote" /\ result' \in {"ok", "own"}
  /\ UNCHANGED <<events, control, command, outcome, stamp, written, lease, guard, decided, exit>>

Write ==
  /\ thread = "write"
  /\ \/ written' = written + 1 /\ thread' = "check" /\ UNCHANGED result
     \/ UNCHANGED written /\ thread' = "wrote" /\ result' = "own"
  /\ UNCHANGED <<events, control, command, outcome, stamp, lease, guard, decided, exit>>

Stamp ==
  /\ thread = "wrote"
  /\ stamp' = Now /\ stamps' = stamps + 1
  /\ thread' = "stamped"
  /\ UNCHANGED <<clock, signals, token, control, command, outcome, result, written, lease,
                 guard, decided, exit>>

Record ==
  /\ thread = "stamped"
  /\ thread' = "recorded"
  /\ UNCHANGED <<events, control, command, outcome, result, stamp, written, lease, guard,
                 decided, exit>>

Send ==
  /\ thread = "recorded"
  /\ thread' = "sent" /\ lease' = "free"
  /\ UNCHANGED <<events, control, command, outcome, result, stamp, written, guard, decided, exit>>

\* resolve_output_result
Resolve ==
  /\ Polled /\ command = "await" /\ thread = "sent"
  /\ Done(IF ControlAfter = Nothing THEN result ELSE ControlAfter)
  /\ UNCHANGED <<events, control, writer, decided, exit>>

\* Seeded fault: the lease goes with the select that gives up.
GiveUpLease ==
  /\ Polled /\ command = "await" /\ thread # "sent" /\ (Cancelled \/ Late)
  /\ ~(thread = "recorded" /\ ControlAfter = Nothing)
  /\ Done(ActiveControl) /\ lease' = "free"
  /\ UNCHANGED <<events, control, thread, result, stamp, written, guard, decided, exit>>

\* The select leaves the thread to itself, with the lease.
GiveUp ==
  /\ Polled /\ command = "await" /\ thread # "sent" /\ (Cancelled \/ Late)
  /\ ~(thread = "recorded" /\ ControlAfter = Nothing)
  /\ Done(ActiveControl)
  /\ UNCHANGED <<events, control, writer, decided, exit>>

\* Another process stores a credential: it waits for the lease.
StoreCredential ==
  /\ lease = "free" /\ guard = "current"
  /\ guard' = "stale"
  /\ UNCHANGED <<events, control, command, outcome, thread, result, stamp, written, lease,
                 decided, exit>>

-------------------------------------------------------------------------------
\* run_command_with_control

Decide(r, interrupted) ==
  /\ control' = "report"
  /\ decided' = [result |-> r, interrupted |-> interrupted]
  /\ UNCHANGED <<command, outcome, writer, exit>>

\* normalize_late_cancellation
Normalize(r) ==
  IF r = "canceled" /\ Late /\ ~(Cancelled /\ token.stamp.at <= Deadline) THEN "timeout" ELSE r

\* The command starts; at the deadline it does not.  Usage errors and help
\* end in main, which looks at the clock when they are written.
Begin ==
  /\ control = "start"
  /\ \/ /\ ~Late /\ control' = "select"
        /\ UNCHANGED <<events, command, outcome, writer, decided, exit>>
     \/ /\ Late /\ SignalPrecededDeadline
        /\ Decide(Normalize("canceled"), TRUE) /\ UNCHANGED events
     \/ /\ Late /\ ~SignalPrecededDeadline
        /\ CancelWith("deadline") /\ Decide("timeout", FALSE) /\ UNCHANGED <<clock, signals>>
     \/ /\ Decide(IF Late THEN "timeout" ELSE "own", SignalPrecededDeadline)
        /\ UNCHANGED events

\* The biased selects: a second signal first, then the command's result.
Pick ==
  /\ \/ Forced /\ control \in {"select", "cancelling", "timing"} /\ control' = "forced"
     \/ /\ ~Forced /\ control \in {"select", "cancelling"} /\ command = "done"
        /\ control' = "command"
     \/ ~Forced /\ control = "timing" /\ command = "done" /\ control' = "late"
     \/ /\ ~Forced /\ control = "select" /\ command # "done" /\ Cancelled
        /\ control' = "cancelling"
  /\ UNCHANGED <<events, command, outcome, writer, decided, exit>>

PickTimeout ==
  /\ control = "select" /\ ~Forced /\ command # "done" /\ ~Cancelled /\ Late
  /\ CancelWith("deadline")
  /\ control' = "timing"
  /\ UNCHANGED <<clock, signals, command, outcome, writer, decided, exit>>

\* forced_control_result drops the command, and its thread is left alone.
HandleForced ==
  /\ control = "forced"
  /\ Decide(Normalize("canceled"), SignalPrecededDeadline)
  /\ UNCHANGED events

HandleCommand ==
  /\ control \in {"command", "late"}
  /\ \/ outcome = "ok" /\ Decide("ok", FALSE)
     \/ /\ outcome # "ok" /\ control = "command"
        /\ Decide(Normalize(outcome), SignalPrecededDeadline)
     \/ /\ outcome # "ok" /\ control = "late"
        /\ IF SignalPrecededDeadline THEN Decide(outcome, TRUE) ELSE Decide("timeout", FALSE)
  /\ UNCHANGED events

\* emit_process_error bounds itself by the same control; error_exit_code.
Exit ==
  /\ control = "report" /\ exit = Nothing
  /\ exit' = IF decided.interrupted THEN "130" ELSE decided.result
  /\ UNCHANGED <<events, control, command, outcome, writer, decided>>

Main == Begin \/ Pick \/ PickTimeout \/ HandleForced \/ HandleCommand \/ Exit

\* What the command does with its output, and its thread once it has written.
Output == Emit \/ Resolve \/ GiveUp
Writer == Stamp \/ Record \/ Send

\* The writer thread ends with the process.
Running == exit = Nothing

Next ==
  \/ Interrupt \/ (Running /\ Pass) \/ Main
  \/ Running /\ (Work \/ Output \/ Check \/ Write \/ Writer \/ StoreCredential)

Spec == Init /\ [][Next]_vars

\* The process runs and time passes; the command's work and the output may hang.
FairSpec == Spec /\ WF_vars(Main) /\ WF_vars(Running /\ Pass)
                 /\ WF_vars(Running /\ Output) /\ WF_vars(Running /\ Writer)

-------------------------------------------------------------------------------
Stamps == [at : 0..3, order : 0..3]
TypeOK ==
  /\ clock \in 0..2 /\ signals \in 0..2 /\ stamps \in 0..2
  /\ token \in [reason : {"none", "signal", "deadline"}, stamp : Stamps]
  /\ control \in {"start", "select", "cancelling", "timing", "forced", "command", "late", "report"}
  /\ command \in {"work", "emit", "await", "done"}
  /\ outcome \in Results \cup {Nothing}
  /\ thread \in {"none", "check", "write", "wrote", "stamped", "recorded", "sent"}
  /\ result \in Results \cup {Nothing} /\ stamp \in Stamps
  /\ written \in 0..Chunks
  /\ lease \in {"free", "command", "thread"} /\ guard \in {"none", "current", "stale"}
  /\ decided \in [result : Results \cup {Nothing}, interrupted : BOOLEAN]
  /\ exit \in Results \cup {Nothing, "130"}

\* Status 0: the whole output was written before any signal and before the
\* deadline, however late the select and main saw it.
SuccessInTime ==
  exit = "ok" => /\ written = Chunks /\ result = "ok"
                 /\ stamp.at < Deadline
                 /\ Cancelled => Precedes(stamp, token.stamp)

\* Status 130 means a signal no later than the deadline.  A cancellation is
\* reported as a cancellation only then, but for the instant of the deadline:
\* a second signal ends a command that the deadline has cancelled just then.
SignalStatus ==
  /\ exit = "130" => SignalPrecededDeadline
  /\ exit = "canceled" => token.reason = "deadline" /\ token.stamp.at = Deadline

\* Output is written only under a guard that knows every stored credential,
\* also by a thread that its command has given up on.
GuardedWrites == [][written' # written => guard = "current"]_vars

\* Output that hangs does not keep the command past a signal or the deadline.
OutputEnds == command = "await" ~> (command = "done" \/ ~Polled)

\* A second signal ends the process, also if the command never ends.
SecondSignalEnds == Forced ~> exit # Nothing
===============================================================================
