------------------------------ MODULE EntityScan ------------------------------
(***************************************************************************)
(* `entity scan --resume-file`: pages of a cursor scan are written to the  *)
(* output and then recorded in a resume file by a writer thread, under a   *)
(* lock that the scan and the thread share.  A signal or the deadline may  *)
(* end the scan while the thread is at work, and a kill ends both; another *)
(* process may then resume.                                                *)
(*                                                                         *)
(* The server holds the objects 1..Objects in order; a cursor stands for   *)
(* the number of objects before it.  The output of all processes is one    *)
(* artifact, of which the items are kept.  A signal and the deadline are   *)
(* one stop; the lifetime of a cursor is a request that may fail.          *)
(***************************************************************************)
EXTENDS Naturals

CONSTANTS Processes,
          Objects,            \* bound: objects the server has
          PageSize,           \* --page-size
          CheckpointEvery,    \* --checkpoint-every
          MaxItems, MaxPages  \* --max-items, --max-pages

ASSUME ScanAssumption ==
  /\ Objects \in Nat
  /\ {PageSize, CheckpointEvery, MaxItems, MaxPages} \subseteq Nat \ {0}

VARIABLES
  resume,     \* the resume file: a State, or NoFile
  artifact,   \* history: items written to the output
  pc,
  stop,       \* a signal came or the deadline passed
  scan,       \* the scan's local variables
  thread,     \* the checkpoint writer
  report,     \* what the error says
  wrote,      \* history: this run may have written output
  landed      \* history: the state of the scan is in the resume file

files == <<resume, artifact>>
vars == <<files, pc, stop, scan, thread, report, wrote, landed>>

State == [cursor : 0..Objects, sequence : 0..Objects, exhausted : BOOLEAN]
NoState == [cursor |-> 0, sequence |-> 0, exhausted |-> FALSE]
NoFile == NoState      \* a file always has a cursor, or is exhausted

Scan == [state : State, next : State, initial : 0..Objects, fresh : BOOLEAN,
         pages : 0..MaxPages, saved : BOOLEAN, last : BOOLEAN,
         emitted : BOOLEAN, attempted : BOOLEAN,
         local : {"yes", "no", "unknown"}]
NoScan == [state |-> NoState, next |-> NoState, initial |-> 0, fresh |-> TRUE,
           pages |-> 0, saved |-> FALSE, last |-> FALSE,
           emitted |-> FALSE, attempted |-> FALSE, local |-> "no"]

Running == {"setup", "read", "loop", "request", "emit", "commit", "await", "summary"}
Report == [kind : {"none", "success", "setup", "error"}, safe : BOOLEAN,
           local : {"yes", "no", "unknown"}]
NoReport == [kind |-> "none", safe |-> FALSE, local |-> "no"]

Init ==
  /\ resume = NoFile /\ artifact = {}
  /\ pc = [p \in Processes |-> "idle"] /\ stop = [p \in Processes |-> FALSE]
  /\ scan = [p \in Processes |-> NoScan] /\ thread = [p \in Processes |-> "none"]
  /\ report = [p \in Processes |-> NoReport]
  /\ wrote = [p \in Processes |-> FALSE] /\ landed = [p \in Processes |-> FALSE]

-------------------------------------------------------------------------------
Goto(p, label) ==
  /\ pc' = [pc EXCEPT ![p] = label]
  /\ UNCHANGED <<stop, report>>

Set(p, record) == scan' = [scan EXCEPT ![p] = record]

End(p, kind, safe, local) ==
  /\ pc' = [pc EXCEPT ![p] = "ended"]
  /\ report' = [report EXCEPT ![p] = [kind |-> kind, safe |-> safe, local |-> local]]
  /\ UNCHANGED stop

\* Seeded fault: only an emission that succeeded counts as output.
SafeUnlessEmitted(s, omitted) ==
  s.fresh /\ s.initial = 0 /\ s.state.sequence = 0 /\ ~s.emitted

\* scan_progress_error; omitted: the error proves that nothing was written.
SafeToReplay(s, omitted) ==
  /\ s.fresh /\ s.initial = 0 /\ s.state.sequence = 0
  /\ ~(s.emitted \/ (s.attempted /\ ~omitted))

\* underlying: the error's own claim, if it makes one.
Fail(p, s, omitted) ==
  /\ \E underlying \in {TRUE} \cup (IF omitted THEN {} ELSE {FALSE}) :
       End(p, "error", underlying /\ SafeToReplay(s, omitted), s.local)
  /\ Set(p, s)

\* Seeded fault: the writer thread does not own the lock.
HoldsAlone(p) == pc[p] \in Running \ {"setup"}

\* The lock file is held by the scan and, until its write is done, the thread.
Holds(p) == pc[p] \in Running \ {"setup"} \/ thread[p] \in {"spawned", "launched"}

Start(p) ==
  /\ pc[p] = "idle"
  /\ pc' = [pc EXCEPT ![p] = "setup"] /\ stop' = [stop EXCEPT ![p] = FALSE]
  /\ Set(p, NoScan)
  /\ report' = [report EXCEPT ![p] = NoReport]
  /\ wrote' = [wrote EXCEPT ![p] = FALSE] /\ landed' = [landed EXCEPT ![p] = FALSE]
  /\ UNCHANGED <<files, thread>>

\* acquire_resume_lock does not wait.
Lock(p) ==
  /\ pc[p] = "setup" /\ ~stop[p] /\ \A q \in Processes : ~Holds(q)
  /\ Goto(p, "read")
  /\ UNCHANGED <<files, scan, thread, wrote, landed>>

\* The lock is taken, the read fails, or the file is refused: another query,
\* incoherent progress, a cursor past its lifetime.
SetupFails(p) ==
  /\ pc[p] \in {"setup", "read"}
  /\ End(p, "setup", FALSE, "no")
  /\ UNCHANGED <<files, scan, thread, wrote, landed>>

\* load_or_create_resume
Load(p) ==
  /\ pc[p] = "read" /\ ~stop[p]
  /\ \/ resume = NoFile /\ Set(p, NoScan) /\ UNCHANGED landed
     \/ /\ resume # NoFile
        /\ Set(p, [NoScan EXCEPT !.state = resume, !.initial = resume.sequence,
                                 !.fresh = FALSE, !.saved = TRUE, !.local = "yes"])
        /\ landed' = [landed EXCEPT ![p] = TRUE]
  /\ Goto(p, "loop")
  /\ UNCHANGED <<files, thread, wrote>>

-------------------------------------------------------------------------------
\* The pages.

ReturnedThisRun(p) == scan[p].state.sequence - scan[p].initial

Finished(p) ==
  scan[p].state.exhausted \/ scan[p].pages >= MaxPages \/ ReturnedThisRun(p) >= MaxItems

Request(p) ==
  /\ pc[p] = "loop" /\ ~stop[p] /\ ~Finished(p)
  /\ Goto(p, "request")
  /\ UNCHANGED <<files, scan, thread, wrote, landed>>

\* The cancellation and deadline checks before a page and before its output;
\* no page, or one that is refused.
RequestFails(p) ==
  /\ \/ pc[p] = "request"
     \/ pc[p] = "loop" /\ stop[p] /\ ~scan[p].state.exhausted
     \/ pc[p] \in {"emit", "summary"} /\ stop[p]
  /\ Fail(p, scan[p], FALSE)
  /\ UNCHANGED <<files, thread, wrote, landed>>

PageMax(p) ==
  IF MaxItems - ReturnedThisRun(p) < PageSize THEN MaxItems - ReturnedThisRun(p) ELSE PageSize

\* A page is empty at the end only.
Page(p) ==
  /\ pc[p] = "request"
  /\ LET s == scan[p]
         rest == Objects - s.state.cursor
     IN  \E n \in 0..PageMax(p) :
           /\ n <= rest /\ (n = 0 <=> rest = 0)
           /\ Set(p, [s EXCEPT !.pages = @ + 1,
                               !.next = [cursor |-> s.state.cursor + n,
                                         sequence |-> s.state.sequence + n,
                                         exhausted |-> n = 0]])
  /\ Goto(p, "emit")
  /\ UNCHANGED <<files, thread, wrote, landed>>

\* The item with this number in the page of s.
Item(s, n) == [sequence |-> s.state.sequence + n, object |-> s.state.cursor + n]
PageItems(s, n) == {Item(s, i) : i \in 1..n}
Count(s) == s.next.sequence - s.state.sequence

Due(s) == s.pages % CheckpointEvery = 0 \/ s.next.exhausted

Emit(p) ==
  /\ pc[p] = "emit" /\ ~stop[p]
  /\ LET s == scan[p]
     IN  /\ artifact' = artifact \cup PageItems(s, Count(s))
         /\ Set(p, [s EXCEPT !.state = s.next, !.saved = Due(s), !.emitted = TRUE,
                             !.attempted = TRUE, !.local = "no"])
         /\ Goto(p, IF Due(s) THEN "commit" ELSE "loop")
  /\ wrote' = [wrote EXCEPT ![p] = TRUE] /\ landed' = [landed EXCEPT ![p] = FALSE]
  /\ UNCHANGED <<resume, thread>>

\* Output that fails or is stopped may be anything up to the whole page.
EmitFails(p) ==
  /\ pc[p] = "emit"
  /\ \E n \in 0..Count(scan[p]) :
       /\ artifact' = artifact \cup PageItems(scan[p], n)
       /\ wrote' = [wrote EXCEPT ![p] = TRUE]
  /\ Fail(p, [scan[p] EXCEPT !.attempted = TRUE], FALSE)
  /\ UNCHANGED <<resume, thread, landed>>

\* The guard refuses the batch when it is prepared, or before it is written.
EmitRefused(p) ==
  /\ pc[p] = "emit" /\ ~stop[p]
  /\ \E attempted \in BOOLEAN : Fail(p, [scan[p] EXCEPT !.attempted = attempted], TRUE)
  /\ UNCHANGED <<files, thread, wrote, landed>>

\* After the last page: a checkpoint event of its own, if one is due.
LastCheckpoint(p) ==
  /\ pc[p] = "loop" /\ ~stop[p] /\ Finished(p) /\ scan[p].pages > 0 /\ ~scan[p].saved
  /\ LET s == [scan[p] EXCEPT !.last = TRUE, !.attempted = TRUE]
     IN  \/ Set(p, [s EXCEPT !.emitted = TRUE, !.local = "no"]) /\ Goto(p, "commit")
         \/ Fail(p, s, FALSE)
  /\ wrote' = [wrote EXCEPT ![p] = TRUE]
  /\ UNCHANGED <<files, thread, landed>>

NoCheckpoint(p) ==
  /\ pc[p] = "loop" /\ Finished(p) /\ (scan[p].pages = 0 \/ scan[p].saved)
  /\ Goto(p, "summary")
  /\ UNCHANGED <<files, scan, thread, wrote, landed>>

Summary(p) ==
  /\ pc[p] = "summary" /\ ~stop[p]
  /\ \/ End(p, "success", FALSE, scan[p].local) /\ UNCHANGED scan
     \/ Fail(p, [scan[p] EXCEPT !.attempted = TRUE], FALSE)
  /\ wrote' = [wrote EXCEPT ![p] = TRUE]
  /\ UNCHANGED <<files, thread, landed>>

-------------------------------------------------------------------------------
\* The checkpoint: commit_scan_progress_until and its thread.

Commit(p) ==
  /\ pc[p] = "commit" /\ ~stop[p]
  /\ thread' = [thread EXCEPT ![p] = "spawned"]
  /\ Goto(p, "await")
  /\ UNCHANGED <<files, scan, wrote, landed>>

CommitFails(p, local) == Fail(p, [scan[p] EXCEPT !.local = local], FALSE)

CommitStopped(p) ==
  /\ pc[p] = "commit" /\ stop[p]
  /\ CommitFails(p, "no")
  /\ UNCHANGED <<files, thread, wrote, landed>>

\* mark_launched_if_active
Launch(p) ==
  /\ thread[p] = "spawned"
  /\ thread' = [thread EXCEPT ![p] = IF stop[p] THEN "refused" ELSE "launched"]
  /\ UNCHANGED <<files, pc, stop, scan, report, wrote, landed>>

\* atomic_write_private: done, done but not durable, or not done.
Write(p) ==
  /\ thread[p] = "launched"
  /\ \/ /\ resume' = scan[p].state
        /\ landed' = [landed EXCEPT ![p] = TRUE]
        /\ \E result \in {"ok", "committed"} : thread' = [thread EXCEPT ![p] = result]
     \/ /\ thread' = [thread EXCEPT ![p] = "failed"]
        /\ UNCHANGED <<resume, landed>>
  /\ UNCHANGED <<artifact, pc, stop, scan, report, wrote>>

\* A result stamped before the control counts, also if it is seen after it.
Resolve(p) ==
  /\ pc[p] = "await" /\ thread[p] \in {"ok", "committed", "failed", "refused"}
  /\ LET s == scan[p]
     IN  \/ /\ thread[p] = "ok"
            /\ Set(p, [s EXCEPT !.local = "yes"])
            /\ Goto(p, IF s.last THEN "summary" ELSE "loop")
         \/ thread[p] = "committed" /\ CommitFails(p, "yes")
         \/ thread[p] \in {"failed", "refused"} /\ CommitFails(p, "no")
  /\ thread' = [thread EXCEPT ![p] = "none"]
  /\ UNCHANGED <<files, wrote, landed>>

\* The select gives up on a thread, or its result has a later stamp.
Abandon(p) ==
  /\ pc[p] = "await" /\ stop[p] /\ thread[p] # "refused"
  /\ CommitFails(p, IF thread[p] = "spawned" THEN "no" ELSE "unknown")
  /\ UNCHANGED <<files, thread, wrote, landed>>

-------------------------------------------------------------------------------
\* The surroundings.

Stop(p) ==
  /\ pc[p] \in Running /\ ~stop[p]
  /\ stop' = [stop EXCEPT ![p] = TRUE]
  /\ UNCHANGED <<files, pc, scan, thread, report, wrote, landed>>

\* The end of the process, also by a kill, is the end of its thread.
Exit(p) ==
  /\ pc[p] # "idle"
  /\ pc' = [pc EXCEPT ![p] = "idle"]
  /\ stop' = [stop EXCEPT ![p] = FALSE]
  /\ Set(p, NoScan)
  /\ thread' = [thread EXCEPT ![p] = "none"]
  /\ report' = [report EXCEPT ![p] = NoReport]
  /\ wrote' = [wrote EXCEPT ![p] = FALSE] /\ landed' = [landed EXCEPT ![p] = FALSE]
  /\ UNCHANGED files

\* What the scan does whatever the server, the disk and the output do.
Forced(p) ==
  \/ Lock(p) \/ SetupFails(p) \/ Load(p) \/ Request(p)
  \/ stop[p] /\ (RequestFails(p) \/ EmitFails(p))
  \/ LastCheckpoint(p) \/ NoCheckpoint(p)
  \/ Summary(p) \/ Commit(p) \/ CommitStopped(p) \/ Resolve(p) \/ Abandon(p)

Next ==
  \E p \in Processes :
    \/ Start(p) \/ Forced(p) \/ RequestFails(p) \/ Page(p)
    \/ Emit(p) \/ EmitFails(p) \/ EmitRefused(p)
    \/ Launch(p) \/ Write(p) \/ Stop(p) \/ Exit(p)

Spec == Init /\ [][Next]_vars

FairSpec == Spec /\ \A p \in Processes : WF_vars(Forced(p)) /\ WF_vars(Stop(p))

-------------------------------------------------------------------------------
TypeOK ==
  /\ resume \in State
  /\ artifact \subseteq [sequence : 1..Objects, object : 1..Objects]
  /\ pc \in [Processes -> Running \cup {"idle", "ended"}]
  /\ stop \in [Processes -> BOOLEAN] /\ scan \in [Processes -> Scan]
  /\ thread \in [Processes -> {"none", "spawned", "launched", "refused", "ok", "committed",
                               "failed"}]
  /\ report \in [Processes -> Report]
  /\ wrote \in [Processes -> BOOLEAN] /\ landed \in [Processes -> BOOLEAN]
  /\ \A p, q \in Processes : Holds(p) /\ Holds(q) => p = q

\* A resumed scan skips nothing: what the resume file counts is written.
NothingSkipped ==
  resume # NoFile =>
    \A n \in 1..resume.sequence : [sequence |-> n, object |-> n] \in artifact

\* Items of the artifact with one sequence number are one object, so what a
\* crash makes appear twice can be told.
SequenceNamesObject == \A i, j \in artifact : i.sequence = j.sequence <=> i.object = j.object

\* A failed scan that is called safe to replay has written nothing, and it
\* leaves no resume file that the replay would start from.
SafeReplay ==
  \A p \in Processes : report[p].safe => ~wrote[p] /\ ~landed[p]

\* What the error says of the checkpoint is so, and stays so while the thread
\* that the scan has given up on is still there.
CommitSaid ==
  \A p \in Processes :
    report[p].kind = "error" =>
      /\ report[p].local = "yes" => landed[p]
      /\ report[p].local = "no" => ~landed[p]

\* One run stays within its bounds, also one that resumes.
RunBounded ==
  \A p \in Processes : ReturnedThisRun(p) <= MaxItems /\ scan[p].pages <= MaxPages

\* The resume file never goes back, whichever process writes it, and an
\* exhausted scan stays exhausted.
ProgressKept ==
  [][resume # NoFile =>
       /\ resume' # NoFile
       /\ resume'.sequence >= resume.sequence
       /\ resume.exhausted => resume'.exhausted]_resume

\* A scan ends, also if the server never ends, or the output or the disk hangs.
ScanEnds == \A p \in Processes : []<>(pc[p] \notin Running)
===============================================================================
