-------------------------------- MODULE MCLogin --------------------------------
\* The parts of a login that share no state, in one run: how it reads a secret,
\* how it asks a broker, how it installs the images of its plan, and how a private
\* file is replaced and removed.  A behaviour is one of one part; the others rest.
EXTENDS CachePlan, TLC

CONSTANTS absent, x, y, Platforms, Sources, Processes, Temporaries, MaxChanges, MaxFaults

ASSUME BoundsAssumption == {MaxChanges, MaxFaults} \subseteq Nat

ThreeImages == {absent, x, y}

\* Names of temporary files are none of the model's words for a file.
ASSUME NamesAssumption == {"none", "target"} \cap Temporaries = {}
ASSUME BrokersAssumption == Platforms \subseteq {"unix", "windows"}

VARIABLES
  part,
  platform, late, step, resuming, root, kid, detached, code, written, stuck, status,
  bytes, group, grace, failure, result,
  source, reader, echo, line, leftover, canceled, overdue, forced, abandoned, answer, over,
  parent, history, synced, temps, lockFile,
  at, op, handle, temp, seen, due, mine, reply, since, acked, faults

Broker == INSTANCE CredentialProcess WITH pc <- step
Prompt == INSTANCE HiddenInput
Store == INSTANCE PrivateFiles WITH pc <- at

brokerVars ==
  <<platform, late, step, resuming, root, kid, detached, code, written, stuck, status,
    bytes, group, grace, failure, result>>
promptVars ==
  <<source, reader, echo, line, leftover, canceled, overdue, forced, abandoned, answer, over>>
storeVars ==
  <<parent, history, synced, temps, lockFile,
    at, op, handle, temp, seen, due, mine, reply, since, acked, faults>>
all == <<part, vars, brokerVars, promptVars, storeVars>>

PlanRests == \A f \in Files : before[f] = absent /\ after[f] = absent
BrokerRests == platform = (CHOOSE p \in Platforms : TRUE) /\ ~late /\ ~stuck
PromptRests == source = (CHOOSE s \in Sources : TRUE) /\ ~canceled /\ ~overdue

LoginInit ==
  /\ Init /\ Broker!Init /\ Prompt!Init /\ Store!Init
  /\ part \in {"plan", "broker", "prompt", "store"}
  /\ part # "plan" => PlanRests
  /\ part # "broker" => BrokerRests
  /\ part # "prompt" => PromptRests

InPlan(A) == part = "plan" /\ A /\ UNCHANGED <<part, brokerVars, promptVars, storeVars>>
InBroker(A) == part = "broker" /\ A /\ UNCHANGED <<part, vars, promptVars, storeVars>>
InPrompt(A) == part = "prompt" /\ A /\ UNCHANGED <<part, vars, brokerVars, storeVars>>
InStore(A) == part = "store" /\ A /\ UNCHANGED <<part, vars, brokerVars, promptVars>>

LoginNext ==
  InPlan(Next) \/ InBroker(Broker!Next) \/ InPrompt(Prompt!Next) \/ InStore(Store!Next)

\* The fairness of the specifications; a behaviour is of one of them, so one conjunct
\* can stand for an action of each.
LoginSpec ==
  /\ LoginInit /\ [][LoginNext]_all
  /\ \A p \in Processes :
       WF_all(\/ InBroker(Broker!Acquire) \/ InPrompt(Prompt!Thread \/ Prompt!Command)
              \/ InStore(Store!Step(p)))
  /\ WF_all(InBroker(Broker!Deadline) \/ InPrompt(Prompt!Deadline))

-------------------------------------------------------------------------------
\* Properties, stated where the parts are specified.

\* The types of the broker's acquisition; nothing that a broker started in its group
\* outlives it, and the broker is reaped, unless the error says that the cleanup could
\* not be confirmed (CredentialProcess).
BrokerInv == Broker!TypeOK /\ Broker!NothingOutlives /\ Broker!Reaped

\* The types of the prompt; the terminal shows again what is typed and what was typed
\* for an abandoned read is left to nobody, or the error says so (HiddenInput).
PromptInv == Prompt!TypeOK /\ Prompt!EchoRestored /\ Prompt!NothingLeftOver

\* The types of the store; a private file, also one that a reader has open, is an image
\* written in full, writers are not disturbed, what was acknowledged lasts and what an
\* operation reports of itself is what it did (PrivateFiles).
StoreInv ==
  Store!TypeOK /\ Store!NeverTorn /\ Store!Undisturbed /\ Store!Lasting /\ Store!Honest

\* A clear that succeeds leaves neither the file nor what a killed writer left.
ClearsAll == Store!ClearsAll

\* Every part ends: the acquisition whatever the broker's processes do, the prompt when
\* the time is up, an operation on a file whoever holds the lock.
EveryPartEnds ==
  \A p \in Processes :
    []<>CASE part = "broker" -> Broker!Over [] part = "prompt" -> over
          [] part = "store" -> at[p] = "idle" [] OTHER -> TRUE
===============================================================================
