----------------------------- MODULE WorkflowRun -----------------------------
(***************************************************************************)
(* One entry's workflow, from the first step to the device result, across  *)
(* interrupts, crashes and resumed runs (workflow_executor.go, runner.go   *)
(* and run_journal.go under cmd/network-collector).                        *)
(*                                                                         *)
(* executeStepsAtDepth calls itself for the steps of a block, a loop, a    *)
(* reusable workflow or a validation action.  Here a stack of frames, the  *)
(* innermost first, takes the place of the recursion: a frame is one call, *)
(* with the runFailed flag it was given.                                   *)
(***************************************************************************)
EXTENDS Integers, Sequences, Functions

CONSTANTS
  Nodes,         \* the steps of a playbook, where they stand: a reusable workflow's
                 \*   are there once for each use of it
  Root,          \* the node whose steps are the entry's step list
  Names,         \* step names; steps without one are all called "unnamed"
  Playbooks,     \* the playbooks considered: functions from Nodes
  MaxAttempts,   \* bound: retry.max_attempts and loop counts
  MaxProcesses   \* bound: the first process and those that resume it

ImperativeKinds == {"ssh", "netconf"}
LeafKinds == ImperativeKinds \cup {"ensure", "read", "probe", "approval"}
Kinds     == LeafKinds \cup {"block", "loop", "use"}
\* "other" is a word that no validation action has; nothing looks at it before.
Actions   == {"none", "stop", "fail", "cmd", "steps", "other"}

\* What a step is, as far as control goes.  "loop" is repeat and foreach,
\* "read" is facts, a gNMI subscription or a read-only NETCONF operation.
StepConfig ==
  [kind : Kinds, name : Names,
   gated : BOOLEAN,               \* it has validations
   onPass : Actions, onFail : Actions,
   passShows : SUBSET Nodes,      \* steps whose output the action's message shows
   failShows : SUBSET Nodes,
   attempts : 1..MaxAttempts,     \* 1 when there is no retry.until_pass
   returns : BOOLEAN,             \* return_to_prompt
   count : 1..MaxAttempts, stopOnFailure : BOOLEAN,
   steps : Seq(Nodes), recovery : Seq(Nodes), always : Seq(Nodes)]

ASSUME RootAssumption == Root \in Nodes
ASSUME BoundsAssumption == MaxAttempts \in Nat \ {0} /\ MaxProcesses \in Nat \ {0}
ASSUME PlaybooksAssumption == Playbooks \subseteq [Nodes -> StepConfig]

\* The journal tells steps apart by name alone.  An ensure step and an imperative
\* step of one name would overwrite each other's records.
ASSUME NamesAssumption ==
  \A p \in Playbooks : \A n, m \in Nodes :
    p[n].kind \in ImperativeKinds /\ p[m].kind = "ensure" => p[n].name # p[m].name

Parts == {"steps", "recovery", "always"}

\* The steps whose own steps, not recovery or cleanup, a step is inside of.
Inside(p, n) ==
  LET inside[s \in Nodes] ==
        UNION {inside[m] \cup (IF s \in Range(p[m].steps) THEN {m} ELSE {}) :
                 m \in {k \in Nodes : \E part \in Parts : s \in Range(p[k][part])}}
  IN  inside[n]

\* A playbook is a tree: a step stands in one list, and in no list of its own.
ASSUME TreeAssumption ==
  \A p \in Playbooks :
    /\ \A m \in Nodes : \A part \in Parts : Root \notin Range(p[m][part])
    /\ \A m, k \in Nodes : \A part, other \in Parts :
         Range(p[m][part]) \cap Range(p[k][other]) # {} => m = k /\ part = other
    /\ Inside(p, Root) = {}
    /\ \A m \in Nodes : \A part \in Parts : \A n \in Range(p[m][part]) :
         Inside(p, n) = Inside(p, m) \cup (IF part = "steps" THEN {m} ELSE {})
    /\ \A n \in Nodes : n \notin Inside(p, n) /\ \A m \in Inside(p, n) : Inside(p, m) \subseteq Inside(p, n)

VARIABLES
  playbook,  \* the playbook; a resumed run verifies that it is unchanged
  open,      \* journal: keys whose last record is an intent, [name, imperative]
  done,      \* journal: names with a completed record
  torn,      \* journal: it holds a record cut short
  pc,        \* where the process is
  stack,     \* the calls in progress
  session,   \* the SSH client: "up", "broken" (not connected) or "none"
  attempt, result,                      \* of the leaf being executed
  known,     \* ctx.variables: steps whose output is registered, of those that are shown
  process, skip, cancelled, verdict,    \* of the process; skip is resumeCompleted
  cut,       \* history: blocks whose recovery this process was told to stop
  sent,      \* history: <<name, process>> of what was sent to the device for an imperative
             \*   step: its own command, and the one its validation action asks for
  reached,   \* history: nodes this process has started or skipped
  trouble,   \* history: what failed in this process, and inside which blocks
  closed,    \* history: gates that did not pass
  finished   \* history: step instances the device has answered

journalVars == <<open, done, torn>>
leafVars    == <<attempt, result, known>>
processVars == <<playbook, process, skip, cancelled, verdict, cut>>
history     == <<sent, reached, trouble, closed, finished>>
vars == <<journalVars, pc, stack, session, leafVars, processVars, history>>

-----------------------------------------------------------------------------
(* Frames *)

Frame(n) ==
  [node |-> n, part |-> "steps", at |-> 1, iteration |-> 1,
   failed |-> FALSE,    \* *ctx.runFailed of this part
   bad |-> FALSE,       \* a validation of this part failed and is not recovered
   stopped |-> FALSE, lost |-> FALSE, owed |-> FALSE]   \* executeBlock's locals

Top    == stack[1]
Parent == stack[2]
Body   == playbook[Top.node][Top.part]
Over   == Top.at > Len(Body)
Node   == Body[Top.at]
Step   == playbook[Node]

Pop == Tail(stack)
ReplaceTop(f) == <<f>> \o Pop

\* Where a step is in the workflow: which iteration of which enclosing loops.
Instance == [i \in DOMAIN stack |-> <<stack[i].node, stack[i].iteration, stack[i].at>>]
EnclosingBlocks == {stack[i].node : i \in {j \in DOMAIN stack : stack[j].part = "steps"}}
InRecovery == \E i \in DOMAIN stack : stack[i].part \in {"recovery", "always"}

Advance(f) == [f EXCEPT !.at = @ + 1]
Fail(f)    == [f EXCEPT !.failed = TRUE]

\* The step went wrong: runFailed and the failure log.
Note == trouble' = trouble \cup {[node |-> Node, within |-> EnclosingBlocks]}

Imperative == Step.kind \in ImperativeKinds
Journaled  == Imperative \/ Step.kind = "ensure"

-----------------------------------------------------------------------------
(* runSSHDeviceContext up to executeSteps *)

Init ==
  /\ playbook \in Playbooks
  /\ open = {} /\ done = {} /\ torn = FALSE
  /\ pc = "connect" /\ stack = <<Frame(Root)>> /\ session = "none"
  /\ attempt = 0 /\ result = "none" /\ known = {}
  /\ process = 1 /\ skip = {} /\ cancelled = FALSE /\ verdict = "running" /\ cut = {}
  /\ sent = {} /\ reached = {} /\ trouble = {} /\ closed = {} /\ finished = {}

\* stepsNeedSSH: the steps of validation actions are not looked at.  A "read" or
\* "ensure" step may need SSH or not.
ActionSteps == UNION {Range(playbook[n].steps) : n \in {m \in Nodes : playbook[m].kind \in LeafKinds}}
NeedsSSH    == \E n \in Nodes \ ActionSteps : playbook[n].kind \in {"ssh", "probe"}

Connect ==
  /\ pc = "connect"
  /\ session' \in (IF NeedsSSH THEN {"up"} ELSE {"up", "none"}) /\ pc' = "step"
  /\ UNCHANGED <<journalVars, stack, leafVars, processVars, history>>

\* The log cannot be opened, no fresh passcode is given, or the device is not there.
ConnectFails ==
  /\ pc = "connect"
  /\ pc' = "exited" /\ stack' = <<>> /\ verdict' = "failed"
  /\ UNCHANGED <<journalVars, session, leafVars, playbook, process, skip, cancelled, cut, history>>

(* The head of executeStepsAtDepth's loop *)

AtStep == pc = "step" /\ ~Over

Skippable == Imperative /\ Step.name \in skip

SkipCompleted ==
  /\ AtStep /\ Skippable
  /\ stack' = ReplaceTop(Advance(Top))
  /\ reached' = reached \cup {Node}
  /\ UNCHANGED <<journalVars, pc, session, leafVars, processVars, sent, trouble, closed, finished>>

StartInterrupted ==
  /\ AtStep /\ ~Skippable /\ cancelled
  /\ pc' = "unwind"
  /\ UNCHANGED <<journalVars, stack, session, leafVars, processVars, history>>

Startable == AtStep /\ ~Skippable /\ ~cancelled
Start     == Startable /\ reached' = reached \cup {Node}

\* A when, message or command template that cannot be rendered, or a step that
\* mixes fields: the step is a failure and the next one is tried.
RejectStep ==
  /\ Start
  /\ stack' = ReplaceTop(Advance(Fail(Top)))
  /\ Note
  /\ UNCHANGED <<journalVars, pc, session, leafVars, processVars, sent, closed, finished>>

\* A repeat that is nested too deep, or that has no steps, count or interval it may
\* have: its callers are told to stop.  (A reusable workflow nested too deep is not
\* met: the preflight has refused it.)
RefuseRepeat ==
  /\ Start /\ Step.kind = "loop"
  /\ stack' = ReplaceTop(Fail(Top)) /\ pc' = "unwind"
  /\ Note
  /\ UNCHANGED <<journalVars, session, leafVars, processVars, sent, closed, finished>>

EnterControl ==
  /\ Start /\ Step.kind \notin LeafKinds
  /\ stack' = <<Frame(Node)>> \o stack
  /\ UNCHANGED <<journalVars, pc, session, leafVars, processVars, sent, trouble, closed, finished>>

Approve ==
  /\ Start /\ Step.kind = "approval"
  /\ stack' = ReplaceTop(Advance(Top))
  /\ UNCHANGED <<journalVars, pc, session, leafVars, processVars, sent, trouble, closed, finished>>

\* Denied, timed out, or nobody to ask.
Deny ==
  /\ Start /\ Step.kind = "approval"
  /\ stack' = ReplaceTop(Fail(Top)) /\ pc' = "unwind"
  /\ Note
  /\ UNCHANGED <<journalVars, session, leafVars, processVars, sent, closed, finished>>

ProbeSucceeds ==
  /\ Start /\ Step.kind = "probe"
  /\ session' = "up"
  /\ stack' = ReplaceTop(Advance(Top))
  /\ UNCHANGED <<journalVars, pc, leafVars, processVars, sent, trouble, closed, finished>>

\* The port never answers ("none"), or the new client fails to authenticate
\* or connect and is left behind ("broken").
ProbeFails ==
  /\ Start /\ Step.kind = "probe"
  /\ session' \in {"none", "broken"}
  /\ stack' = ReplaceTop(Fail(Top)) /\ pc' = "unwind"
  /\ Note
  /\ UNCHANGED <<journalVars, leafVars, processVars, sent, closed, finished>>

BeginLeaf ==
  /\ Start /\ Step.kind \in LeafKinds \ {"probe", "approval"}
  /\ attempt' = 1 /\ result' = "none" /\ pc' = "attempt"
  /\ UNCHANGED <<journalVars, stack, session, known, processVars, sent, trouble, closed, finished>>

-----------------------------------------------------------------------------
(* The attempt loop of a leaf *)

Entry == [name |-> Step.name, imperative |-> Imperative]

\* uncertainJournalEntries replays the file: an intent opens the key, and the
\* key is name, device and occurrence, not the step's place in the workflow.
OpenWith(e)   == {o \in open : o.name # e.name} \cup {e}
OpenWithout(s) == {o \in open : o.name # s}

Recorded == attempt > 1

\* Fault: only the first attempt is announced.
RecordFirstIntent ==
  /\ pc = "attempt"
  /\ open' = IF Journaled /\ ~Recorded THEN OpenWith(Entry) ELSE open
  /\ pc' = "send"
  /\ UNCHANGED <<done, torn, stack, session, leafVars, processVars, history>>

RecordIntent ==
  /\ pc = "attempt"
  /\ open' = IF Journaled THEN OpenWith(Entry) ELSE open
  /\ pc' = "send"
  /\ UNCHANGED <<done, torn, stack, session, leafVars, processVars, history>>

\* append returns an error: nothing was written, or part of a line, or the
\* whole line and then Sync failed.  The step is not executed.
IntentFails ==
  /\ pc = "attempt" /\ Journaled
  /\ \/ UNCHANGED <<open, torn>>
     \/ torn' = TRUE /\ UNCHANGED open
     \/ open' = OpenWith(Entry) /\ UNCHANGED torn
  /\ stack' = ReplaceTop(Fail(Top)) /\ pc' = "act"
  /\ Note
  /\ UNCHANGED <<done, session, leafVars, processVars, sent, reached, closed, finished>>

NoSession ==
  /\ pc = "send" /\ Step.kind = "ssh" /\ session = "none"
  /\ stack' = ReplaceTop(Fail(Top)) /\ pc' = "act"
  /\ Note
  /\ UNCHANGED <<journalVars, session, leafVars, processVars, sent, reached, closed, finished>>

\* NETCONF and ensure bring transports of their own.
CanSend == Step.kind = "ssh" => session = "up"

Sends == sent' = IF Imperative THEN sent \cup {<<Step.name, process>>} ELSE sent

\* The device does what it is asked and the answer arrives.
Execute ==
  /\ pc = "send" /\ CanSend
  /\ pc' = "sent"
  /\ Sends
  /\ finished' = finished \cup {Instance}
  /\ UNCHANGED <<journalVars, stack, session, leafVars, processVars, reached, trouble, closed>>

\* An error: the device may have acted or not.
Unanswered == (CanSend /\ Sends) \/ UNCHANGED sent

\* Declarative errors stop the device, others do not.
ExecuteFails ==
  /\ pc = "send" /\ (Step.kind = "ssh" => session # "none" /\ Step.returns)
  /\ Unanswered
  /\ stack' = ReplaceTop(Fail(Top))
  /\ pc' = IF Step.kind = "ensure" THEN "unwind" ELSE "act"
  /\ Note
  /\ UNCHANGED <<journalVars, session, leafVars, processVars, reached, closed, finished>>

\* return_to_prompt: false.  The intent stays open.
EndsWithoutPrompt ==
  /\ pc = "send" /\ Step.kind = "ssh" /\ session # "none" /\ ~Step.returns
  /\ Unanswered
  /\ session' = "none" /\ pc' = "act"
  /\ UNCHANGED <<journalVars, stack, leafVars, processVars, reached, trouble, closed, finished>>

\* The completed record, before the output is parsed or validated.
RecordCompleted ==
  /\ pc = "sent"
  /\ IF Journaled THEN /\ done' = done \cup {Step.name}
                       /\ open' = OpenWithout(Step.name)
                  ELSE UNCHANGED <<done, open>>
  /\ pc' = "judge"
  /\ UNCHANGED <<torn, stack, session, leafVars, processVars, history>>

CompletedFails ==
  /\ pc = "sent" /\ Journaled
  /\ \/ UNCHANGED journalVars
     \/ torn' = TRUE /\ UNCHANGED <<open, done>>
     \/ /\ done' = done \cup {Step.name} /\ open' = OpenWithout(Step.name)
        /\ UNCHANGED torn
  /\ stack' = ReplaceTop(Fail(Top)) /\ pc' = "act"
  /\ Note
  /\ UNCHANGED <<session, leafVars, processVars, sent, reached, closed, finished>>

\* registerParserOutput
Shown     == UNION {playbook[n].passShows \cup playbook[n].failShows : n \in Nodes}
Registers == known' = known \cup ({Node} \cap Shown)

\* No validation runs if the parser or the enrichment fails, or the drift check,
\* before which the output is registered.
OutputRejected ==
  /\ pc = "judge"
  /\ UNCHANGED known \/ Registers
  /\ stack' = ReplaceTop(Fail(Top)) /\ pc' = "act"
  /\ Note
  /\ UNCHANGED <<journalVars, session, attempt, result, processVars, sent, reached, closed, finished>>

NoValidation ==
  /\ pc = "judge" /\ ~Step.gated
  /\ Registers
  /\ pc' = "act"
  /\ UNCHANGED <<journalVars, stack, session, attempt, result, processVars, history>>

ValidationPasses ==
  /\ pc = "judge" /\ Step.gated
  /\ Registers
  /\ result' = "pass" /\ pc' = "act"
  /\ UNCHANGED <<journalVars, stack, session, attempt, processVars, history>>

MayRetry == attempt < Step.attempts

\* Every attempt's result joins the device's validations, a retried one too.
ValidationFails ==
  /\ pc = "judge" /\ Step.gated
  /\ Registers
  /\ result' = "fail"
  /\ stack' = ReplaceTop([Top EXCEPT !.bad = TRUE])
  /\ IF MayRetry THEN attempt' = attempt + 1 /\ pc' = "attempt"
                 ELSE UNCHANGED attempt /\ pc' = "act"
  /\ Note
  /\ UNCHANGED <<journalVars, session, processVars, sent, reached, closed, finished>>

\* The rule itself cannot be evaluated.
ValidationErrs ==
  /\ pc = "judge" /\ Step.gated
  /\ Registers
  /\ result' = "error" /\ pc' = "act"
  /\ stack' = ReplaceTop(Fail([Top EXCEPT !.bad = TRUE]))
  /\ Note
  /\ UNCHANGED <<journalVars, session, attempt, processVars, sent, reached, closed, finished>>

(* validationActionForResult and executeValidationAction *)

Judged == Step.gated /\ result # "none"
Action == IF ~Judged THEN "none" ELSE IF result = "pass" THEN Step.onPass ELSE Step.onFail

\* The message of the action comes first, whatever the action is.  It cannot be
\* rendered when a step whose output it shows failed, or was skipped by a resumed run.
Message    == IF result = "pass" THEN Step.passShows ELSE Step.failShows
Renderable == Judged => Message \subseteq known
Acting(actions) == pc = "act" /\ Action \in actions /\ Renderable

\* History: a verification that says stop, how it went, and whether the callers
\* have been told.
IsGate == Step.gated /\ Step.onFail \in {"stop", "fail"}
CloseGate(told) ==
  closed' = {c \in closed : c.gate # Instance} \cup
              (IF IsGate /\ result # "pass"
               THEN {[gate |-> Instance, process |-> process, result |-> result, told |-> told]} ELSE {})

ActNothing ==
  /\ Acting({"none"})
  /\ stack' = ReplaceTop(Advance(Top)) /\ pc' = "step"
  /\ CloseGate(FALSE)
  /\ UNCHANGED <<journalVars, session, leafVars, processVars, sent, reached, trouble, finished>>

ActStop ==
  /\ Acting({"stop", "fail"})
  /\ stack' = (IF Action = "fail" THEN ReplaceTop(Fail(Top)) ELSE stack)
  /\ pc' = "unwind"
  /\ CloseGate(TRUE)
  /\ UNCHANGED <<journalVars, session, leafVars, processVars, sent, reached, trouble, finished>>

\* A command of an action is sent without a record of its own in the journal.
SendCommand ==
  /\ Acting({"cmd"}) /\ session = "up"
  /\ pc' = "acting"
  /\ Sends
  /\ UNCHANGED <<journalVars, stack, session, leafVars, processVars, reached, trouble, closed, finished>>

ActCommand ==
  /\ pc = "acting"
  /\ IF Step.steps = <<>> THEN stack' = ReplaceTop(Advance(Top))
                          ELSE stack' = <<Frame(Node)>> \o stack
  /\ pc' = "step"
  /\ CloseGate(FALSE)
  /\ UNCHANGED <<journalVars, session, leafVars, processVars, sent, reached, trouble, finished>>

\* The message cannot be rendered, there is no such action, the command cannot be
\* rendered or sent, or it or its output fails.  The loop is left, but the callers
\* are not told to stop, whatever the action would have been.
ActFails ==
  /\ \/ pc = "act" /\ (~Renderable \/ Action \in {"cmd", "other"})
     \/ pc = "acting"
  /\ stack' = ReplaceTop(Fail([Top EXCEPT !.at = Len(Body) + 1])) /\ pc' = "step"
  /\ CloseGate(FALSE)
  /\ Note
  /\ UNCHANGED <<journalVars, session, leafVars, processVars, sent, reached, finished>>

ActSteps ==
  /\ Acting({"steps"})
  /\ stack' = <<Frame(Node)>> \o stack /\ pc' = "step"
  /\ CloseGate(FALSE)
  /\ UNCHANGED <<journalVars, session, leafVars, processVars, sent, reached, trouble, finished>>

-----------------------------------------------------------------------------
(* The end of a call: its steps are over, or it was told to stop *)

Halted == pc = "unwind"
AtEnd  == Len(stack) > 0 /\ (Halted \/ (pc = "step" /\ Over))
Kind   == playbook[Top.node].kind
Inner  == Len(stack) > 1
OnlyCallsChange ==
  UNCHANGED <<journalVars, session, leafVars, processVars, history>>

\* The caller goes on with its next step, or is told to stop too.
Return(failed, bad, stop) ==
  LET caller == [Parent EXCEPT !.failed = @ \/ failed, !.bad = @ \/ bad]
  IN  /\ stack' = <<IF stop THEN caller ELSE Advance(caller)>> \o Tail(Pop)
      /\ pc' = IF stop THEN "unwind" ELSE "step"

\* executeWorkflow, and executeSteps for a validation action.
EndUse ==
  /\ AtEnd /\ Inner /\ Kind \notin {"block", "loop"}
  /\ Return(Top.failed, Top.bad, Halted)
  /\ OnlyCallsChange

(* executeRepeat and executeForeach *)

LoopEnds ==
  \/ Halted
  \/ Top.failed /\ playbook[Top.node].stopOnFailure
  \/ Top.iteration = playbook[Top.node].count

EndLoop ==
  /\ AtEnd /\ Inner /\ Kind = "loop" /\ LoopEnds
  /\ Return(Top.failed, Top.bad, Halted)
  /\ OnlyCallsChange

\* Fault: the loop's counter is not advanced.
SameIteration ==
  /\ AtEnd /\ Inner /\ Kind = "loop" /\ ~LoopEnds
  /\ stack' = <<[Top EXCEPT !.at = 1, !.failed = FALSE],
                [Parent EXCEPT !.failed = @ \/ Top.failed]>> \o Tail(Pop)
  /\ pc' = "step"
  /\ OnlyCallsChange

NextIteration ==
  /\ AtEnd /\ Inner /\ Kind = "loop" /\ ~LoopEnds
  /\ stack' = <<[Top EXCEPT !.at = 1, !.iteration = @ + 1, !.failed = FALSE],
                [Parent EXCEPT !.failed = @ \/ Top.failed]>> \o Tail(Pop)
  /\ pc' = "step"
  /\ OnlyCallsChange

(* executeBlock *)

Block == playbook[Top.node]
Lost  == Top.failed \/ Top.bad

GoTo(part, f) ==
  /\ stack' = ReplaceTop([f EXCEPT !.part = part, !.at = 1, !.failed = FALSE, !.bad = FALSE])
  /\ pc' = "step"

\* Fault: a stopped block goes straight back to its caller.
EndStepsStopped ==
  /\ AtEnd /\ Inner /\ Kind = "block" /\ Top.part = "steps"
  /\ IF Halted THEN Return(Lost, Top.bad, TRUE)
     ELSE GoTo(IF Lost /\ Block.recovery # <<>> THEN "recovery" ELSE "always",
               [Top EXCEPT !.stopped = Halted, !.lost = Lost, !.owed = Top.bad])
  /\ OnlyCallsChange

\* The block's own verdict is taken before anything is recovered.
EndSteps ==
  /\ AtEnd /\ Inner /\ Kind = "block" /\ Top.part = "steps"
  /\ GoTo(IF Lost /\ Block.recovery # <<>> THEN "recovery" ELSE "always",
          [Top EXCEPT !.stopped = Halted, !.lost = Lost, !.owed = Top.bad])
  /\ OnlyCallsChange

\* History: whether the recovery was told to stop.
RecoveryIsCut ==
  /\ cut' = cut \cup (IF Halted THEN {Top.node} ELSE {})
  /\ UNCHANGED <<journalVars, session, leafVars, playbook, process, skip, cancelled, verdict, history>>

\* Fault: a recovery that failed still counts.
EndRecoveryAnyway ==
  /\ AtEnd /\ Inner /\ Kind = "block" /\ Top.part = "recovery"
  /\ GoTo("always", [Top EXCEPT !.stopped = @ \/ Halted, !.lost = FALSE, !.owed = FALSE])
  /\ RecoveryIsCut

\* A recovery without a failure of its own marks the block's failed
\* validations Recovered.
EndRecovery ==
  /\ AtEnd /\ Inner /\ Kind = "block" /\ Top.part = "recovery"
  /\ GoTo("always", [Top EXCEPT !.stopped = @ \/ Halted, !.lost = Lost,
                                !.owed = Lost /\ (Top.owed \/ Top.bad)])
  /\ RecoveryIsCut

\* Fault: the block forgets that one of its steps said stop.
EndAlwaysForgets ==
  /\ AtEnd /\ Inner /\ Kind = "block" /\ Top.part = "always"
  /\ Return(Top.lost \/ Lost, Top.owed \/ Top.bad, Halted)
  /\ OnlyCallsChange

EndAlways ==
  /\ AtEnd /\ Inner /\ Kind = "block" /\ Top.part = "always"
  /\ Return(Top.lost \/ Lost, Top.owed \/ Top.bad, Top.stopped \/ Halted)
  /\ OnlyCallsChange

\* runSSHDeviceContext: the device failed if a step said so, if a validation failed
\* and was not recovered, or if a connection or the log cannot be closed.
EndRun ==
  /\ AtEnd /\ ~Inner
  /\ verdict' \in (IF Lost THEN {"failed"} ELSE {"ok", "failed"})
  /\ pc' = "exited" /\ stack' = <<>>
  /\ UNCHANGED <<journalVars, session, leafVars, playbook, process, skip, cancelled, cut, history>>

-----------------------------------------------------------------------------
(* Interrupts, process loss and --resume *)

Alive == pc \notin {"exited", "lost", "refused"}

Interrupt ==
  /\ Alive /\ ~cancelled
  /\ cancelled' = TRUE
  /\ UNCHANGED <<journalVars, pc, stack, session, leafVars, playbook, process, skip, verdict, cut, history>>

\* Between any two steps, or in the middle of an append.
Crash ==
  /\ Alive /\ process < MaxProcesses
  /\ pc' = "lost" /\ stack' = <<>>
  /\ \/ UNCHANGED torn
     \/ pc \in {"attempt", "sent"} /\ Journaled /\ torn' = TRUE
  /\ UNCHANGED <<open, done, session, leafVars, processVars, history>>

\* Fault: an open intent is taken for a step that did not happen.
UncertainAccepted == ~torn

\* Nothing imperative may be uncertain; a record that cannot be decoded is fatal.
Resumable == ~torn /\ \A o \in open : ~o.imperative

Down == pc \in {"exited", "lost"} /\ process < MaxProcesses

Resume ==
  /\ Down /\ Resumable
  /\ process' = process + 1 /\ skip' = done /\ cancelled' = FALSE /\ verdict' = "running" /\ cut' = {}
  /\ pc' = "connect" /\ stack' = <<Frame(Root)>> /\ session' = "none"
  /\ attempt' = 0 /\ result' = "none" /\ known' = {} /\ reached' = {} /\ trouble' = {}
  /\ UNCHANGED <<journalVars, playbook, sent, closed, finished>>

RefuseResume ==
  /\ Down /\ ~Resumable
  /\ pc' = "refused"
  /\ UNCHANGED <<journalVars, stack, session, leafVars, processVars, history>>

Rest ==
  /\ pc = "refused" \/ (pc = "exited" /\ process = MaxProcesses)
  /\ UNCHANGED vars

-----------------------------------------------------------------------------
LeafStep ==
  \/ RecordIntent \/ IntentFails \/ NoSession \/ Execute \/ ExecuteFails \/ EndsWithoutPrompt
  \/ RecordCompleted \/ CompletedFails \/ OutputRejected \/ NoValidation
  \/ ValidationPasses \/ ValidationFails \/ ValidationErrs
  \/ ActNothing \/ ActStop \/ SendCommand \/ ActCommand \/ ActFails \/ ActSteps

HeadStep ==
  \/ Connect \/ ConnectFails
  \/ SkipCompleted \/ StartInterrupted \/ RejectStep \/ RefuseRepeat \/ EnterControl
  \/ Approve \/ Deny \/ ProbeSucceeds \/ ProbeFails \/ BeginLeaf

EndStep ==
  \/ EndUse \/ EndLoop \/ NextIteration \/ EndSteps \/ EndRecovery \/ EndAlways \/ EndRun

ProcessStep == HeadStep \/ LeafStep \/ EndStep

Next == ProcessStep \/ Interrupt \/ Crash \/ Resume \/ RefuseResume \/ Rest

Spec == Init /\ [][Next]_vars

\* A process keeps going: every call it makes has a timeout.
FairSpec == Spec /\ WF_vars(ProcessStep)

-----------------------------------------------------------------------------
(* Properties *)

FrameType ==
  [node : Nodes, part : {"steps", "recovery", "always"}, at : Nat \ {0},
   iteration : Nat \ {0}, failed : BOOLEAN, bad : BOOLEAN,
   stopped : BOOLEAN, lost : BOOLEAN, owed : BOOLEAN]

TypeOK ==
  /\ playbook \in Playbooks
  /\ open \subseteq [name : Names, imperative : BOOLEAN] /\ done \subseteq Names /\ torn \in BOOLEAN
  /\ pc \in {"connect", "step", "attempt", "send", "sent", "judge", "act", "acting", "unwind",
            "exited", "lost", "refused"}
  /\ stack \in Seq(FrameType)
  /\ session \in {"up", "broken", "none"}
  /\ attempt \in 0..MaxAttempts /\ result \in {"none", "pass", "fail", "error"} /\ known \subseteq Nodes
  /\ process \in 1..MaxProcesses /\ skip \subseteq Names /\ cancelled \in BOOLEAN
  /\ cut \subseteq Nodes
  /\ verdict \in {"running", "ok", "failed"}
  /\ sent \subseteq Names \X (1..MaxProcesses)
  /\ reached \subseteq Nodes

\* run_journal.go: "An intent without a later completed record is uncertain".
\* Whatever a device may have been sent for an imperative step, by the step or by its
\* validation action, the journal holds a record of that step or cannot be read; and
\* the step is announced before every single attempt.  Of the commands that actions of
\* other steps send there is no record, and nothing is claimed.
JournalCoversDevice ==
  /\ \A s \in sent : s[1] \in done \/ [name |-> s[1], imperative |-> TRUE] \in open \/ torn
  /\ pc \in {"send", "sent"} /\ Journaled => Entry \in open

\* README: "Resume never guesses".  What a process may have sent for an imperative
\* step, the command of its validation action included, is not sent again by a later
\* process, wherever the earlier one was lost.
NoResend == \A a, b \in sent : a[1] = b[1] => a[2] = b[2]

\* README: "on_fail: {action: fail} makes the verification a gate: later change
\* steps are not executed".  Behind a gate of this process that did not pass, and
\* whose stop was carried out, only recovery and cleanup send anything: the stop is
\* heard by every call it is inside of.  A gate whose message cannot be rendered is
\* not told, and the next change is sent.
Sending == pc \in {"send", "acting"}
Told    == {c \in closed : c.process = process /\ c.result \in {"fail", "error"} /\ c.told}
GateStopsProcess == Told # {} /\ Sending => InRecovery

Troubled == {t.node : t \in trouble}
RecoveredBy(b) ==
  LET recovery == playbook[b].recovery
  IN  /\ recovery # <<>> /\ recovery[1] \in reached
      /\ Range(recovery) \cap Troubled = {}
      /\ b \notin cut => Range(recovery) \subseteq reached

\* README: "A successful rollback marks the failed block as recovered; if rollback
\* itself fails, the workbook remains failed".  A device is reported as good only
\* if whatever failed was inside a block whose recovery ran without a failure, and
\* every step of it did unless one said stop.
SuccessIsEarned ==
  pc = "exited" /\ verdict = "ok" =>
    \A t \in trouble : \E b \in t.within : RecoveredBy(b)

\* The same, of a process nobody interrupted.
CleanVerdict == ~cancelled => SuccessIsEarned

\* README: "always runs in both cases".  Every block that was begun reaches its
\* cleanup, whatever stopped its steps or its recovery, unless the run is
\* interrupted.
Cleaned(b) == playbook[b].always # <<>> => playbook[b].always[1] \in reached
AlwaysIsEntered ==
  pc = "exited" /\ ~cancelled =>
    \A b \in reached \ Troubled : playbook[b].kind = "block" => Cleaned(b)

\* Every process comes to an end.
ProcessEnds == []<>~Alive

\* README: "Completed imperative steps are skipped"; others are not.
SkipsOnlyCompleted == [][SkipCompleted => Instance \in finished]_vars
=============================================================================
