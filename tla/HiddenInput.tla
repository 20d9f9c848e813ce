------------------------------ MODULE HiddenInput ------------------------------
(***************************************************************************)
(* How a login reads a secret: from the terminal with its echo off (Unix), *)
(* from the console's key records (Windows), or from a pipe.  A thread     *)
(* reads; the command waits for it, and a second signal lets the process   *)
(* leave at once.                                                          *)
(***************************************************************************)

CONSTANT Sources   \* a subset of {"terminal", "console", "pipe"}

VARIABLES
  source,
  reader,     \* step of the reading thread
  echo,       \* does the terminal show what is typed?
  line,       \* input that waits there: "empty", "partial" or "line"
  leftover,   \* was some of it typed for the read, since the echo is off?
  canceled, overdue, forced,
  abandoned,  \* error for which the read was given up
  answer,     \* what the thread has sent to the command
  over        \* has the command got an answer, or left?

control == <<canceled, overdue, forced>>
vars == <<source, reader, echo, line, leftover, control, abandoned, answer, over>>

Nothing == "none"

Init ==
  /\ source \in Sources /\ reader = "open"
  /\ echo = TRUE /\ line = "empty" /\ leftover = FALSE
  /\ canceled \in BOOLEAN /\ overdue \in BOOLEAN /\ forced = FALSE
  /\ abandoned = Nothing /\ answer = Nothing /\ over = FALSE

Answer(r) == reader' = "sent" /\ answer' = r

Reading == reader \in {"check", "read", "restore"}

-------------------------------------------------------------------------------
\* The user, the signals and the clock.

Type ==
  /\ line # "line"
  /\ line' \in IF line = "empty" THEN {"partial", "line"} ELSE {"line"}
  /\ leftover' = (leftover \/ Reading)
  /\ UNCHANGED <<source, reader, echo, control, abandoned, answer, over>>

Signal ==
  /\ \/ ~canceled /\ canceled' = TRUE /\ UNCHANGED forced
     \/ canceled /\ ~forced /\ forced' = TRUE /\ UNCHANGED canceled
  /\ UNCHANGED <<source, reader, echo, line, leftover, overdue, abandoned, answer, over>>

Deadline ==
  /\ ~overdue /\ overdue' = TRUE
  /\ UNCHANGED <<source, reader, echo, line, leftover, canceled, forced, abandoned, answer, over>>

-------------------------------------------------------------------------------
\* read_hidden_secret_unix_from

OpenTerminal ==
  /\ source = "terminal" /\ reader = "open" /\ ~over
  /\ \/ reader' = "hide" /\ UNCHANGED answer
     \/ Answer("error")
  /\ UNCHANGED <<source, echo, line, leftover, control, abandoned, over>>

\* The original settings are kept before the echo is turned off.
Hide ==
  /\ reader = "hide" /\ ~over
  /\ \/ echo' = FALSE /\ reader' = "check" /\ UNCHANGED answer
     \/ Answer("error") /\ UNCHANGED echo
  /\ UNCHANGED <<source, line, leftover, control, abandoned, over>>

\* The head of the loop, of the terminal's and of the console's.
Check ==
  /\ reader = "check" /\ ~over
  /\ \/ canceled /\ reader' = "restore" /\ abandoned' = "canceled"
     \/ ~canceled /\ overdue /\ reader' = "restore" /\ abandoned' = "timeout"
     \/ ~canceled /\ ~overdue /\ reader' = "read" /\ UNCHANGED abandoned
  /\ UNCHANGED <<source, echo, line, leftover, control, answer, over>>

\* The terminal gives whole lines; a line is a secret, too large or not UTF-8.
ReadLine ==
  /\ source = "terminal" /\ reader = "read" /\ ~over
  /\ IF line = "line"
     THEN /\ line' = "empty" /\ leftover' = FALSE /\ reader' = "restore"
          /\ abandoned' \in {Nothing, "error"}
     ELSE reader' = "check" /\ UNCHANGED <<line, leftover, abandoned>>
  /\ UNCHANGED <<source, echo, control, answer, over>>

\* The read fails or is at its end.
ReadFails ==
  /\ reader = "read" /\ ~over
  /\ reader' = "restore" /\ abandoned' = "error"
  /\ UNCHANGED <<source, echo, line, leftover, control, answer, over>>

\* Seeded fault: an abandoned read leaves the settings to nobody.
RestoreForgotten ==
  /\ source = "terminal" /\ reader = "restore" /\ ~over
  /\ echo' = (abandoned = Nothing)
  /\ Answer(IF abandoned = Nothing THEN "secret" ELSE abandoned)
  /\ UNCHANGED <<source, line, leftover, control, abandoned, over>>

\* Restored, and what was typed for an abandoned read flushed in the same call; or
\* that fails, and the guard tries once more without a flush.
Restore ==
  /\ source = "terminal" /\ reader = "restore" /\ ~over
  /\ \/ /\ echo' = TRUE
        /\ IF abandoned = Nothing THEN Answer("secret") /\ UNCHANGED <<line, leftover>>
           ELSE Answer(abandoned) /\ line' = "empty" /\ leftover' = FALSE
     \/ echo' \in BOOLEAN /\ Answer("cleanup") /\ UNCHANGED <<line, leftover>>
  /\ UNCHANGED <<source, control, abandoned, over>>

-------------------------------------------------------------------------------
\* read_hidden_console_line_until: the console's modes stay as they are.

OpenConsole ==
  /\ source = "console" /\ reader = "open" /\ ~over
  /\ \/ reader' = "check" /\ UNCHANGED answer
     \/ Answer("error")
  /\ UNCHANGED <<source, echo, line, leftover, control, abandoned, over>>

\* The key records up to the end of the line; or those of a partial one, which may
\* be refused.
ReadKeys ==
  /\ source = "console" /\ reader = "read" /\ ~over
  /\ \/ line = "empty" /\ reader' = "check" /\ UNCHANGED <<line, leftover, abandoned, answer>>
     \/ /\ line # "empty" /\ ~canceled
        /\ \/ line = "line" /\ Answer("secret") /\ UNCHANGED abandoned
           \/ line = "partial" /\ reader' = "check" /\ UNCHANGED <<abandoned, answer>>
        /\ line' = "empty" /\ leftover' = FALSE
     \/ /\ line # "empty" /\ reader' = "restore"
        /\ abandoned' = (IF canceled THEN "canceled" ELSE "error")
        /\ UNCHANGED <<line, leftover, answer>>
  /\ UNCHANGED <<source, echo, control, over>>

Flush ==
  /\ source = "console" /\ reader = "restore" /\ ~over
  /\ \/ Answer(abandoned) /\ line' = "empty" /\ leftover' = FALSE
     \/ Answer("cleanup") /\ UNCHANGED <<line, leftover>>
  /\ UNCHANGED <<source, echo, control, abandoned, over>>

-------------------------------------------------------------------------------
\* read_secret_from_stdin: the thread blocks, and is left behind.

ReadPipe ==
  /\ source = "pipe" /\ reader = "open" /\ line = "line" /\ ~over
  /\ \E r \in {"secret", "error"} : Answer(r)
  /\ UNCHANGED <<source, echo, line, leftover, control, abandoned, over>>

-------------------------------------------------------------------------------
\* The command.

\* The terminal's and the console's readers are waited for; the select over a pipe
\* looks at its reader first.
Take ==
  /\ ~over /\ reader = "sent"
  /\ over' = TRUE
  /\ UNCHANGED <<source, reader, echo, line, leftover, control, abandoned, answer>>

GiveUpPipe ==
  /\ ~over /\ source = "pipe" /\ reader # "sent" /\ (canceled \/ overdue)
  /\ over' = TRUE /\ answer' = (IF canceled THEN "canceled" ELSE "timeout")
  /\ UNCHANGED <<source, reader, echo, line, leftover, control, abandoned>>

\* The second signal: the process ends whatever the thread is at.
Leave ==
  /\ ~over /\ forced
  /\ over' = TRUE
  /\ UNCHANGED <<source, reader, echo, line, leftover, control, abandoned, answer>>

Thread ==
  \/ OpenTerminal \/ Hide \/ Check \/ ReadLine \/ Restore
  \/ OpenConsole \/ ReadKeys \/ Flush \/ ReadPipe
Command == Take \/ GiveUpPipe \/ Leave
Next == Type \/ Signal \/ Deadline \/ Thread \/ ReadFails \/ Command

Spec == Init /\ [][Next]_vars
FairSpec == Spec /\ WF_vars(Thread \/ Command) /\ WF_vars(Deadline)

-------------------------------------------------------------------------------
\* Properties.

\* The variables stay in their types.
TypeOK ==
  /\ source \in Sources
  /\ reader \in {"open", "hide", "check", "read", "restore", "sent"}
  /\ {echo, leftover, canceled, overdue, forced, over} \subseteq BOOLEAN
  /\ line \in {"empty", "partial", "line"} /\ abandoned \in {Nothing, "canceled", "timeout", "error"}
  /\ answer \in {Nothing, "secret", "canceled", "timeout", "error", "cleanup"}

\* However the read ends, the terminal shows again what is typed, unless the error
\* says that it may not; only a second signal can leave it hidden.
EchoRestored == over /\ ~forced => echo \/ answer = "cleanup"

\* What was typed for a read that was given up is never left to whoever reads the
\* terminal next, unless the error says so.
NothingLeftOver ==
  over /\ ~forced /\ source # "pipe" /\ leftover => answer \in {"secret", "cleanup"}

\* The read ends when the time is up or the command canceled, typed or not.
ReadEnds == <>over
===============================================================================
