----------------------------- MODULE PrivateFiles -----------------------------
(***************************************************************************)
(* Private files: atomic_write_private, remove_private_file, read_bounded  *)
(* and open_private_lock of unix_fs.rs, as the stores call them: an image  *)
(* is written, and the directory cleared, under an exclusive file lock,    *)
(* and read without it.                                                    *)
(*                                                                         *)
(* A process may be killed at any step.  A power loss also forgets what    *)
(* was not synced: data of files, and entries of a directory since its     *)
(* last sync.                                                              *)
(***************************************************************************)
EXTENDS Naturals, Sequences, FiniteSets

CONSTANTS
  Processes,
  Temporaries,   \* names drawn for temporary files
  MaxChanges,    \* bound: changes of the file
  MaxFaults      \* bound: processes killed and power losses

VARIABLES
  parent,    \* the private directory: "missing", "made" or "lasting"
  history,   \* what the file's name has stood for, one entry per change
  synced,    \* changes the last sync of the directory made durable
  temps,     \* temporary files in the directory
  lockFile,  \* identity of the lock file, 0 when there is none
  pc, op,    \* step and operation of each process
  handle,    \* lock file that a process has open
  temp,      \* a process's temporary file: its name and the state of its data
  seen,      \* the change whose file a reader has open
  due,       \* candidates that a clear has yet to remove
  mine,      \* has a process's operation changed the directory?
  reply,     \* how a process's last operation ended
  since,     \* acknowledged changes when a process's operation started
  acked,     \* the newest change whose operation reported success
  faults     \* processes killed and power losses

disk == <<parent, history, synced, temps, lockFile>>
vars == <<disk, pc, op, handle, temp, seen, due, mine, reply, since, acked, faults>>

NoTemp == [name |-> "none", data |-> "none"]
NoReply == [ok |-> TRUE, committed |-> FALSE]
Image == history[Len(history)]
Present == Image # "absent"
Target == "target"

Critical == {"fill", "install", "sync", "list", "remove", "unlinked"}
Steps == Critical \cup {"idle", "open", "made", "handle", "wait", "create", "read", "verify", "reading"}

Init ==
  /\ parent = "missing" /\ history = <<"absent">> /\ synced = 1 /\ temps = {} /\ lockFile = 0
  /\ pc = [p \in Processes |-> "idle"] /\ op = [p \in Processes |-> "read"]
  /\ handle = [p \in Processes |-> 0] /\ temp = [p \in Processes |-> NoTemp]
  /\ seen = [p \in Processes |-> 0] /\ due = [p \in Processes |-> {}]
  /\ mine = [p \in Processes |-> FALSE] /\ reply = [p \in Processes |-> NoReply]
  /\ since = [p \in Processes |-> 1] /\ acked = 1
  /\ faults = 0

To(p, step) == pc' = [pc EXCEPT ![p] = step]

\* The operation ends and its locks and files are closed.
Reply(p, ok, committed) ==
  /\ To(p, "idle") /\ handle' = [handle EXCEPT ![p] = 0]
  /\ reply' = [reply EXCEPT ![p] = [ok |-> ok, committed |-> committed]]
  /\ op' = [op EXCEPT ![p] = "read"] /\ since' = [since EXCEPT ![p] = 1]

Start(p, operation) ==
  /\ pc[p] = "idle"
  /\ To(p, "open") /\ op' = [op EXCEPT ![p] = operation]
  /\ mine' = [mine EXCEPT ![p] = FALSE] /\ reply' = [reply EXCEPT ![p] = NoReply]
  /\ since' = [since EXCEPT ![p] = IF operation = "read" THEN acked ELSE 1]
  /\ UNCHANGED <<disk, handle, temp, seen, due, acked, faults>>

-------------------------------------------------------------------------------
\* GuardedParent: only operations that write create the directory; its creator
\* syncs the directory above it.

After(p) == IF op[p] = "read" THEN "read" ELSE "handle"

Make(p) ==
  /\ pc[p] = "open" /\ parent = "missing" /\ op[p] # "read"
  /\ parent' = "made" /\ To(p, "made")
  /\ UNCHANGED <<history, synced, temps, lockFile>>
  /\ UNCHANGED <<op, handle, temp, seen, due, mine, reply, since, acked, faults>>

SyncAbove(p) ==
  /\ pc[p] = "made"
  /\ parent' = "lasting" /\ To(p, After(p))
  /\ UNCHANGED <<history, synced, temps, lockFile>>
  /\ UNCHANGED <<op, handle, temp, seen, due, mine, reply, since, acked, faults>>

Enter(p) ==
  /\ pc[p] = "open" /\ parent # "missing"
  /\ To(p, After(p))
  /\ UNCHANGED <<disk, op, handle, temp, seen, due, mine, reply, since, acked, faults>>

\* read_bounded_optional: no directory, no file
NoParent(p) ==
  /\ pc[p] = "open" /\ parent = "missing" /\ op[p] = "read"
  /\ Reply(p, TRUE, FALSE)
  /\ UNCHANGED <<disk, temp, seen, due, mine, acked, faults>>

-------------------------------------------------------------------------------
\* The lock.

\* open_private_lock: create the lock file, or open the one that is there.
OpenLock(p) ==
  /\ pc[p] = "handle"
  /\ lockFile' = IF lockFile = 0 THEN 1 ELSE lockFile
  /\ handle' = [handle EXCEPT ![p] = lockFile'] /\ To(p, "wait")
  /\ UNCHANGED <<parent, history, synced, temps>>
  /\ UNCHANGED <<op, temp, seen, due, mine, reply, since, acked, faults>>

Locked(p) == pc[p] \in Critical \cup {"create"}
Free(file) == \A q \in Processes : ~(Locked(q) /\ handle[q] = file)

\* Lock
TryLock(p) ==
  /\ pc[p] = "wait" /\ Free(handle[p])
  /\ To(p, IF op[p] = "write" THEN "create" ELSE "list")
  /\ UNCHANGED <<disk, op, handle, temp, seen, due, mine, reply, since, acked, faults>>

\* Seeded fault: the lock is waited for without a deadline.
GiveUpNever(p) == FALSE /\ UNCHANGED vars

\* The deadline passes, or the command is canceled, while the lock is held.
GiveUp(p) ==
  /\ pc[p] = "wait"
  /\ Reply(p, FALSE, FALSE)
  /\ UNCHANGED <<disk, temp, seen, due, mine, acked, faults>>

-------------------------------------------------------------------------------
\* atomic_write_private

Create(p) ==
  /\ pc[p] = "create"
  /\ \E name \in Temporaries \ temps :
       /\ temps' = temps \cup {name}
       /\ temp' = [temp EXCEPT ![p] = [name |-> name, data |-> "partial"]]
  /\ To(p, "fill")
  /\ UNCHANGED <<parent, history, synced, lockFile>>
  /\ UNCHANGED <<op, handle, seen, due, mine, reply, since, acked, faults>>

Filled(p, data) ==
  /\ pc[p] = "fill"
  /\ temp' = [temp EXCEPT ![p].data = data] /\ To(p, "install")
  /\ UNCHANGED <<disk, op, handle, seen, due, mine, reply, since, acked, faults>>

\* Seeded fault: the data is not synced before the rename.
FillCached(p) == Filled(p, "cached")

\* write_all and sync_all
Fill(p) == Filled(p, "synced")

\* The destination is checked, the temporary file renamed and disarmed.
Install(p) ==
  /\ pc[p] = "install" /\ temp[p].name \in temps /\ Len(history) <= MaxChanges
  /\ history' = Append(history, temp[p].data)
  /\ temps' = temps \ {temp[p].name} /\ temp' = [temp EXCEPT ![p] = NoTemp]
  /\ mine' = [mine EXCEPT ![p] = TRUE] /\ To(p, "sync")
  /\ UNCHANGED <<parent, synced, lockFile, op, handle, seen, due, reply, since, acked, faults>>

\* fsync of the directory
SyncEntry(p) ==
  /\ pc[p] = "sync"
  /\ synced' = Len(history) /\ acked' = Len(history) /\ Reply(p, TRUE, TRUE)
  /\ UNCHANGED <<parent, history, temps, lockFile, temp, seen, due, mine, faults>>

\* committed, durability uncertain
SyncFails(p) ==
  /\ pc[p] = "sync"
  /\ Reply(p, FALSE, TRUE)
  /\ UNCHANGED <<disk, temp, seen, due, mine, acked, faults>>

\* Any step before the rename fails: the temporary file is dropped, if it can be.
WriteFails(p) ==
  /\ pc[p] \in {"open", "made", "handle", "create", "fill", "install"} /\ op[p] = "write"
  /\ temps' \in {temps, temps \ {temp[p].name}} /\ temp' = [temp EXCEPT ![p] = NoTemp]
  /\ Reply(p, FALSE, FALSE)
  /\ UNCHANGED <<parent, history, synced, lockFile, seen, due, mine, acked, faults>>

-------------------------------------------------------------------------------
\* clear_token_cache: the images and the temporary files left behind.

Listed(p, candidates) ==
  /\ pc[p] = "list"
  /\ due' = [due EXCEPT ![p] = candidates] /\ To(p, "remove")
  /\ UNCHANGED <<disk, op, handle, temp, seen, mine, reply, since, acked, faults>>

TargetImages == IF Present THEN {Target} ELSE {}

\* Seeded fault: the temporary files are overlooked.
ListImages(p) == Listed(p, TargetImages)

List(p) == Listed(p, TargetImages \cup temps)

\* remove_private_file, as far as the unlink
Unlink(p) ==
  /\ pc[p] = "remove"
  /\ \E name \in due[p] \cap (TargetImages \cup temps) :
       /\ due' = [due EXCEPT ![p] = @ \ {name}]
       /\ temps' = temps \ {name}
       /\ history' = IF name = Target THEN Append(history, "absent") ELSE history
       /\ Len(history') <= MaxChanges + 1
  /\ mine' = [mine EXCEPT ![p] = TRUE] /\ To(p, "unlinked")
  /\ UNCHANGED <<parent, synced, lockFile, op, handle, temp, seen, reply, since, acked, faults>>

SyncUnlink(p) ==
  /\ pc[p] = "unlinked"
  /\ synced' = Len(history) /\ To(p, "remove")
  /\ UNCHANGED <<parent, history, temps, lockFile>>
  /\ UNCHANGED <<op, handle, temp, seen, due, mine, reply, since, acked, faults>>

\* A candidate that is gone was removed by another process: it is not counted.
Gone(p) ==
  /\ pc[p] = "remove" /\ due[p] \ (TargetImages \cup temps) # {}
  /\ due' = [due EXCEPT ![p] = @ \cap (TargetImages \cup temps)]
  /\ UNCHANGED <<disk, pc, op, handle, temp, seen, mine, reply, since, acked, faults>>

\* cache_cleanup_error: what was removed before the failure, and the file whose
\* removal could not be synced, are told.
ClearFails(p) ==
  /\ pc[p] \in {"open", "made", "handle", "list", "remove", "unlinked"} /\ op[p] = "clear"
  /\ due' = [due EXCEPT ![p] = {}]
  /\ Reply(p, FALSE, mine[p])
  /\ UNCHANGED <<disk, temp, seen, mine, acked, faults>>

Clear(p) ==
  /\ pc[p] = "remove" /\ due[p] = {}
  /\ acked' = IF mine[p] THEN Len(history) ELSE acked
  /\ Reply(p, TRUE, mine[p])
  /\ UNCHANGED <<disk, temp, seen, due, mine, faults>>

-------------------------------------------------------------------------------
\* read_bounded_optional

OpenFile(p) ==
  /\ pc[p] = "read"
  /\ IF Present THEN seen' = [seen EXCEPT ![p] = Len(history)] /\ To(p, "verify")
                     /\ UNCHANGED <<op, since, handle, reply>>
     ELSE Reply(p, TRUE, FALSE) /\ UNCHANGED seen
  /\ UNCHANGED <<disk, temp, due, mine, acked, faults>>

\* verify_private_file, verify_named_identity: a file replaced or removed since it
\* was opened is refused.
Verify(p) ==
  /\ pc[p] = "verify" /\ seen[p] = Len(history)
  /\ To(p, "reading")
  /\ UNCHANGED <<disk, op, handle, temp, seen, due, mine, reply, since, acked, faults>>

Read(p) ==
  /\ pc[p] = "reading"
  /\ Reply(p, TRUE, FALSE) /\ seen' = [seen EXCEPT ![p] = 0]
  /\ UNCHANGED <<disk, temp, due, mine, acked, faults>>

ReadFails(p) ==
  /\ pc[p] \in {"open", "read", "verify", "reading"} /\ op[p] = "read"
  /\ Reply(p, FALSE, FALSE) /\ seen' = [seen EXCEPT ![p] = 0]
  /\ UNCHANGED <<disk, temp, due, mine, acked, faults>>

-------------------------------------------------------------------------------
\* Faults.

Reset(P) ==
  /\ pc' = [p \in Processes |-> IF p \in P THEN "idle" ELSE pc[p]]
  /\ handle' = [p \in Processes |-> IF p \in P THEN 0 ELSE handle[p]]
  /\ temp' = [p \in Processes |-> IF p \in P THEN NoTemp ELSE temp[p]]
  /\ seen' = [p \in Processes |-> IF p \in P THEN 0 ELSE seen[p]]
  /\ due' = [p \in Processes |-> IF p \in P THEN {} ELSE due[p]]
  /\ mine' = [p \in Processes |-> IF p \in P THEN FALSE ELSE mine[p]]
  /\ reply' = [p \in Processes |-> IF p \in P THEN NoReply ELSE reply[p]]
  /\ op' = [p \in Processes |-> IF p \in P THEN "read" ELSE op[p]]
  /\ since' = [p \in Processes |-> IF p \in P THEN 1 ELSE since[p]]

Kill(p) ==
  /\ faults < MaxFaults /\ faults' = faults + 1 /\ pc[p] # "idle"
  /\ Reset({p})
  /\ UNCHANGED <<disk, acked>>

Torn(image) == IF image = "cached" THEN "partial" ELSE image

PowerLoss ==
  /\ faults < MaxFaults /\ faults' = faults + 1
  /\ \/ \E last \in synced..Len(history) :
          history' = [i \in 1..last |-> Torn(history[i])] /\ UNCHANGED <<parent, acked>>
     \/ /\ parent = "made" /\ parent' = "missing"   \* and all it held
        /\ history' = <<"absent">> /\ acked' = 1
  /\ synced' = Len(history')
  /\ temps' \in IF parent' = "missing" THEN {{}} ELSE SUBSET temps
  /\ lockFile' \in IF parent' = "missing" THEN {0} ELSE {0, lockFile}
  /\ Reset(Processes)

-------------------------------------------------------------------------------
Begin(p) == \E operation \in {"write", "clear", "read"} : Start(p, operation)
Write(p) == Create(p) \/ Fill(p) \/ Install(p) \/ SyncEntry(p) \/ SyncFails(p) \/ WriteFails(p)
Empty(p) ==
  List(p) \/ Unlink(p) \/ SyncUnlink(p) \/ Gone(p) \/ ClearFails(p) \/ Clear(p)
Step(p) ==
  \/ Make(p) \/ SyncAbove(p) \/ Enter(p) \/ NoParent(p)
  \/ OpenLock(p) \/ TryLock(p) \/ GiveUp(p)
  \/ Write(p) \/ Empty(p) \/ OpenFile(p) \/ Verify(p) \/ Read(p) \/ ReadFails(p)

Next == PowerLoss \/ \E p \in Processes : Begin(p) \/ Step(p) \/ Kill(p)

Spec == Init /\ [][Next]_vars
FairSpec == Spec /\ \A p \in Processes : WF_vars(Step(p))

-------------------------------------------------------------------------------
\* Properties.

\* The variables stay in their types.
TypeOK ==
  /\ parent \in {"missing", "made", "lasting"}
  /\ Len(history) \in 1..(MaxChanges + 1)
  /\ \A i \in 1..Len(history) : history[i] \in {"absent", "partial", "cached", "synced"}
  /\ synced \in 1..Len(history) /\ temps \subseteq Temporaries /\ lockFile \in 0..1
  /\ pc \in [Processes -> Steps] /\ op \in [Processes -> {"write", "clear", "read"}]
  /\ handle \in [Processes -> 0..1]
  /\ \A p \in Processes :
       /\ temp[p].name \in Temporaries \cup {NoTemp.name} /\ seen[p] \in 0..Len(history)
       /\ due[p] \subseteq Temporaries \cup {Target} /\ mine[p] \in BOOLEAN
       /\ reply[p] \in [ok : BOOLEAN, committed : BOOLEAN]
  /\ acked \in 1..(MaxChanges + 1) /\ faults \in 0..MaxFaults

\* One process at a time holds the lock, however the lock file came to be, and
\* nothing removes a temporary file that its writer is about to rename.
Undisturbed ==
  /\ Cardinality({p \in Processes : Locked(p)}) <= 1
  /\ \A p \in Processes : pc[p] \in {"fill", "install"} => temp[p].name \in temps

\* The file, and a file that a reader has open, is an image somebody wrote in full:
\* neither a kill nor a power loss leaves half of one under the name.
NeverTorn ==
  /\ Image # "partial"
  /\ \A p \in Processes : pc[p] = "reading" => history[seen[p]] # "partial"

\* A change reported as a success outlives a power loss, and later reads find it,
\* or a newer one.
Lasting ==
  /\ acked <= Len(history)
  /\ \A p \in Processes : pc[p] = "reading" => seen[p] >= since[p]

\* What an operation reports of itself is what it did: an error says "committed"
\* when, and only when, the file was changed before it.
Honest ==
  \A p \in Processes : pc[p] = "idle" => (reply[p].committed <=> mine[p])

\* A clear that succeeds leaves neither the file nor anything that a killed writer
\* left behind.
ClearsAll ==
  [][\A p \in Processes :
       op[p] = "clear" /\ pc[p] # "idle" /\ pc'[p] = "idle" /\ reply'[p].ok /\ faults' = faults
         => Image' = "absent" /\ temps' = {}]_vars

\* Every operation ends, whoever holds the lock for how long.
OperationEnds == \A p \in Processes : []<>(pc[p] = "idle")
===============================================================================
