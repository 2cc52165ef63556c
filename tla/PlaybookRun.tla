----------------------------- MODULE PlaybookRun -----------------------------
(***************************************************************************)
(* One device's way through a vetted playbook                              *)
(* (cmd/network-collector/workflow_executor.go, runner.go): which steps    *)
(* run, which variables they find, what they send and over which sessions. *)
(* The functions that call each other for nested steps are frames of a     *)
(* stack, the innermost first.                                             *)
(*                                                                         *)
(* Attempts of a step, journal and interrupts are in WorkflowRun, ensure   *)
(* in EnsureStep, triggers' conditions and concurrent branches in          *)
(* ParallelTriggers: here branches run one after the other, which they     *)
(* cannot tell, since each has variables and sessions of its own.          *)
(* Early returns that the preflight makes unreachable are left out: an     *)
(* unknown workflow, parameters that do not fit, nesting too deep, and an  *)
(* undefined variable in an executable field.                              *)
(***************************************************************************)
EXTENDS Selectors, PlaybookVetting

CONSTANTS
  MaxRepeatDepth,  \* maxRepeatDepth, 3 in the code
  MaxFromItems     \* bound: the items that device output may hold

VARIABLES
  device,   \* the device that runs
  frames,
  vars,     \* the variables there are, and whether each is device output
  ssh,      \* "none" or "open": the session of the innermost context
  netconf,  \* "idle", "open", "failed", "closing" or "closed"
  status,   \* the device: "" while it runs, "good" or "failed"
  sent,     \* what was sent: pairs of a kind and of who sent it, a step or an action
  entered,  \* the plan entries of the steps that were started
  passed,   \* history: variables whose producing step has been left behind
  unmet,    \* history: a variable was read before any of its producers was passed
  dirty     \* history: an executable field read a variable that was not there, or
            \* on a first pass device output

walkVars == <<device, frames, vars, ssh, netconf, status, sent, entered, passed, unmet, dirty>>
allVars == <<startupVars, walkVars>>

Init ==
  /\ StartupInit
  /\ device = <<>> /\ frames = <<>> /\ vars = [n \in {} |-> FALSE]
  /\ ssh = "none" /\ netconf = "idle" /\ status = ""
  /\ sent = {} /\ entered = {} /\ passed = {} /\ unmet = FALSE /\ dirty = FALSE

\* Variables that steps may register, in what they call too.
RECURSIVE Produces(_, _)
Produces(steps, depth) ==
  UNION {s.register : s \in AllSteps(steps)}
    \cup (IF depth = 0 THEN {}
          ELSE UNION {Produces(launch.workflows[w].steps, depth - 1) :
                        w \in {s.use : s \in AllSteps(steps)} \cap DOMAIN launch.workflows})
LeftBehind(steps) == Produces(steps, MaxWorkflowDepth)

-----------------------------------------------------------------------------
(* Frames: a list of steps in progress.  failed is the ctx.runFailed of    *)
(* the list, invalid that it holds a validation that failed and was not    *)
(* recovered, stopped that it ended the device's steps; kept is what       *)
(* earlier rounds, branches or phases left.  mode: the step at the head    *)
(* is a subscription in progress ("stream") or waits for its validation    *)
(* action ("pass", "fail").                                                *)

Clear == [failed |-> FALSE, invalid |-> FALSE, stopped |-> FALSE]
NoStep == Step("", "")
Frame(role, steps, path, depth, step) ==
  [role |-> role, steps |-> steps, left |-> steps, path |-> path, depth |-> depth, step |-> step,
   failed |-> FALSE, invalid |-> FALSE, stopped |-> FALSE, kept |-> Clear, mode |-> "", fired |-> {},
   round |-> 1, rounds |-> 1, again |-> frames # <<>> /\ frames[1].again,
   bound |-> {}, outer |-> vars, merged |-> vars, before |-> passed, sessions |-> <<ssh, netconf>>]

Top == frames[1]
This == Head(Top.left)
Path == Append(Top.path, This.name)
Goto(f) == frames' = <<f>> \o Tail(frames)
Push(callee, caller) == frames' = <<callee, caller>> \o Tail(frames)

Past(f) == [f EXCEPT !.left = Tail(@), !.mode = "", !.fired = {}]
Failing(f) == [f EXCEPT !.failed = TRUE]
Stopping(f) == [f EXCEPT !.stopped = TRUE]
\* Fault: a step list that is given up is not held against the device.
FaultBroken(f) == [f EXCEPT !.left = <<>>, !.mode = ""]
Broken(f) == [f EXCEPT !.failed = TRUE, !.left = <<>>, !.mode = ""]

Missing(names) == names \ DOMAIN vars
Reading(names) == unmet' = (unmet \/ ~(Missing(names) \subseteq passed))
Executing(names) ==
  dirty' = (dirty \/ Missing(names) # {} \/ (~Top.again /\ \E n \in names \cap DOMAIN vars : vars[n]))

AtStep == status = "" /\ frames # <<>> /\ Top.mode = "" /\ ~Top.stopped /\ Top.left # <<>>
Starting == entered' = entered \cup {[path |-> Path, kind |-> This.kind]}
Leaving == passed' = passed \cup LeftBehind(<<This>>)

-----------------------------------------------------------------------------
(* runSSHDeviceContext up to its steps.                                    *)

NeedsSSH(steps) ==
  IF CheckMode THEN StepsNeedSSHInCheck(steps, launch.workflows) ELSE StepsNeedSSH(steps, launch.workflows)

Unrunnable(d) == "" \in {d.hostname, d.ip, d.type} \/ d.steps = <<>>

Launch ==
  /\ stage = "launch" /\ device = <<>>
  /\ \E d \in Range(selected) :
       /\ device' = <<d>>
       /\ vars' = Scope(d)
       /\ \/ Unrunnable(d) /\ status' = "failed" /\ UNCHANGED <<frames, ssh>>
          \/ ~Unrunnable(d) /\ NeedsSSH(d.steps) /\ status' = "failed" /\ UNCHANGED <<frames, ssh>>
          \/ /\ ~Unrunnable(d) /\ UNCHANGED status
             /\ ssh' = IF NeedsSSH(d.steps) THEN "open" ELSE "none"
             /\ frames' = <<[Frame("device", d.steps, <<>>, 0, NoStep) EXCEPT !.outer = Scope(d)]>>
  /\ UNCHANGED <<startupVars, netconf, sent, entered, passed, unmet, dirty>>

-----------------------------------------------------------------------------
(* executeStepsAtDepth: conditions, messages and steps that only wait.     *)

\* A step whose condition or message reads a variable that is not there.
Unread ==
  /\ AtStep
  /\ Missing(This.when) # {} \/ (Missing(This.reads) # {} /\ This.kind # "approval")
  /\ Goto(Failing(Past(Top)))
  /\ Starting /\ Leaving /\ Reading(This.when \cup This.reads)
  /\ UNCHANGED <<startupVars, device, vars, ssh, netconf, status, sent, dirty>>

\* The condition is false.
Skip ==
  /\ AtStep /\ This.when # {} /\ Missing(This.when) = {}
  /\ Goto(Past(Top)) /\ Starting /\ Leaving
  /\ UNCHANGED <<startupVars, device, vars, ssh, netconf, status, sent, unmet, dirty>>

Runs(kinds) ==
  /\ AtStep /\ This.kind \in kinds
  /\ Missing(This.when) = {} /\ (Missing(This.reads) = {} \/ This.kind = "approval")

\* requestApproval; a refusal ends the device's steps.
Gate ==
  /\ Runs({"approval"})
  /\ \/ (CheckMode \/ Missing(This.reads) = {}) /\ Goto(Past(Top)) /\ UNCHANGED unmet
     \/ ~CheckMode /\ Goto(Stopping(Failing(Past(Top)))) /\ Reading(This.reads)
  /\ Starting /\ Leaving
  /\ UNCHANGED <<startupVars, device, vars, ssh, netconf, status, sent, dirty>>

Note ==
  /\ Runs({"wait", "message"})
  /\ Goto(Past(Top)) /\ Starting /\ Leaving
  /\ UNCHANGED <<startupVars, device, vars, ssh, netconf, status, sent, unmet, dirty>>

\* ssh_probe closes the session and opens another one.
Probe ==
  /\ Runs({"probe"})
  /\ \/ CheckMode /\ Goto(Past(Top)) /\ UNCHANGED ssh
     \/ ~CheckMode /\ ssh' = "open" /\ Goto(Past(Top))
     \/ ~CheckMode /\ ssh' = "none" /\ Goto(Stopping(Failing(Past(Top))))
  /\ Starting /\ Leaving
  /\ UNCHANGED <<startupVars, device, vars, netconf, status, sent, unmet, dirty>>

-----------------------------------------------------------------------------
(* Control steps.  A nested frame begins with the names it binds.          *)

Nested(role, steps) == Frame(role, steps, Append(Path, role), Top.depth + 1, This)
Binding(frame, names) == [frame EXCEPT !.bound = names]

\* validateRepeatConfig, which is given the depth of all control steps.
RECURSIVE RepeatsTooDeep(_, _)
RepeatsTooDeep(step, depth) ==
  depth > MaxRepeatDepth \/ \E s \in Range(step.steps) : s.kind = "repeat" /\ RepeatsTooDeep(s, depth + 1)

Repeat ==
  /\ Runs({"repeat"})
  /\ IF RepeatsTooDeep(This, Top.depth + 1)
     THEN Goto(Stopping(Failing(Past(Top)))) /\ Leaving
     ELSE Push([Nested("repeat", This.steps) EXCEPT !.rounds = This.count], Past(Top)) /\ UNCHANGED passed
  /\ Starting
  /\ UNCHANGED <<startupVars, device, vars, ssh, netconf, status, sent, unmet, dirty>>

\* Only foreach.from reads a variable; items are bound as they are written.
LoopNames(step) == {step.item, step.index}
LoopBound(step, outer) ==
  step.item :> (\E n \in step.from : outer[n]) @@ step.index :> FALSE @@ outer

Foreach ==
  /\ Runs({"foreach"})
  /\ LET step == This
         sound == step.steps # <<>> /\ step.item # step.index /\ Missing(step.from) = {}
     IN \/ (~sound \/ step.from # {}) /\ Goto(Failing(Past(Top))) /\ Leaving /\ UNCHANGED vars
        \/ /\ sound
           /\ \E n \in IF step.from = {} THEN {Len(step.items)} ELSE 0 .. MaxFromItems :
                IF n = 0 THEN Goto(Past(Top)) /\ Leaving /\ UNCHANGED vars
                ELSE /\ Push([Binding(Nested("foreach", step.steps), LoopNames(step)) EXCEPT !.rounds = n], Past(Top))
                     /\ vars' = LoopBound(step, vars)
                     /\ UNCHANGED passed
  /\ Starting /\ Reading(This.from)
  /\ UNCHANGED <<startupVars, device, ssh, netconf, status, sent, dirty>>

Use ==
  /\ Runs({"use"})
  /\ LET with == This.with
         reads == UNION {with[p] : p \in DOMAIN with}
     IN /\ IF Missing(reads) # {}
           THEN Goto(Failing(Past(Top))) /\ Leaving /\ UNCHANGED vars
           ELSE /\ Push(Binding(Nested("workflow", launch.workflows[This.use].steps), DOMAIN with), Past(Top))
                /\ vars' = [p \in DOMAIN with |-> \E n \in with[p] : vars[n]] @@ vars
                /\ UNCHANGED passed
        /\ Reading(reads)
  /\ Starting
  /\ UNCHANGED <<startupVars, device, ssh, netconf, status, sent, dirty>>

Block ==
  /\ Runs({"block"})
  /\ IF This.rescue # <<>> /\ This.rollback # <<>>
     THEN Goto(Failing(Past(Top))) /\ Leaving
     ELSE Push(Nested("block", This.steps), Past(Top)) /\ UNCHANGED passed
  /\ Starting
  /\ UNCHANGED <<startupVars, device, vars, ssh, netconf, status, sent, unmet, dirty>>

\* A branch of executeParallel begins: its connection may fail.
Connected(branch, steps) ==
  IF NeedsSSH(steps)
  THEN (ssh' = "open" /\ frames' = branch) \/ (ssh' = "none" /\ frames' = <<Broken(branch[1])>> \o Tail(branch))
  ELSE ssh' = "none" /\ frames' = branch

Parallel ==
  /\ Runs({"parallel"})
  /\ LET first == <<This.steps[1]>>
     IN Connected(<<[Nested("parallel", first) EXCEPT !.rounds = Len(This.steps)], Past(Top)>> \o Tail(frames), first)
  /\ netconf' = "idle"
  /\ Starting
  /\ UNCHANGED <<startupVars, device, vars, status, sent, passed, unmet, dirty>>

-----------------------------------------------------------------------------
(* Executable steps.                                                       *)

Executables == {"cmd", "ensure", "facts", "get", "edit", "gnmi"}


\* --check runs ensure and what only reads over NETCONF; an edit is shown.
Withhold ==
  /\ CheckMode /\ Runs({"cmd", "facts", "gnmi", "edit"})
  /\ Goto(Past(Top)) /\ Starting /\ Leaving /\ Executing(This.exec)
  /\ UNCHANGED <<startupVars, device, vars, ssh, netconf, status, sent, unmet>>

\* Output is registered and validated; f is the frame of the step.
Succeed(f) ==
  LET known == [n \in This.register |-> TRUE] @@ vars
      lost == This.checks \ DOMAIN known
  IN /\ vars' = known
     /\ unmet' = (unmet \/ ~(lost \subseteq passed))
     /\ IF ~This.validated THEN Goto(Past(f)) /\ Leaving
        ELSE /\ \E verdict \in IF lost # {} THEN {"fail"} ELSE {"pass", "fail"} :
                  Goto([f EXCEPT !.mode = verdict, !.failed = @ \/ lost # {}, !.invalid = @ \/ verdict = "fail"])
             /\ UNCHANGED passed

\* The session a step uses, and the NETCONF connection it may bring about.
Connects ==
  netconf' \in CASE This.kind \in {"get", "edit"} /\ netconf = "idle" -> {"open", "failed"}
                 [] This.kind = "facts" /\ netconf = "idle" -> {"idle", "open", "failed"}
                 [] OTHER -> {netconf}
Reached ==
  CASE This.kind \in {"cmd", "ensure"} -> ssh = "open"
    [] This.kind \in {"get", "edit"} -> netconf' = "open"
    [] OTHER -> ssh = "open" \/ netconf' = "open"
Sends(who) == sent' = IF Reached THEN sent \cup {<<This.kind, who>>} ELSE sent

Execute ==
  /\ Runs(Executables \ {"gnmi"})
  /\ CheckMode => This.kind \in {"ensure", "get"}
  /\ Connects /\ Sends("step")
  /\ \/ Reached /\ Succeed(Top) /\ UNCHANGED ssh
     \/ /\ LET ends == This.kind = "cmd" /\ ~This.returns /\ Reached IN
             /\ ssh' = IF ends THEN "none" ELSE ssh
             /\ Goto(IF ends THEN Past(Top)
                     ELSE IF This.kind = "ensure" THEN Stopping(Failing(Past(Top))) ELSE Failing(Past(Top)))
        /\ Leaving /\ UNCHANGED <<vars, unmet>>
  /\ Starting /\ Executing(This.exec)
  /\ UNCHANGED <<startupVars, device, status>>

\* executeGNMISubscribe
Subscribe ==
  /\ ~CheckMode /\ Runs({"gnmi"})
  /\ \/ Goto([Top EXCEPT !.mode = "stream"]) /\ sent' = sent \cup {<<"gnmi", "step">>} /\ UNCHANGED passed
     \/ Goto(Failing(Past(Top))) /\ Leaving /\ UNCHANGED sent
  /\ Starting
  /\ UNCHANGED <<startupVars, device, vars, ssh, netconf, status, unmet, dirty>>

Streaming == status = "" /\ frames # <<>> /\ Top.mode = "stream"

\* A trigger fires, here at most once.  Those declared before it and the
\* subscription count as passed, since the preflight counts them.
Fire ==
  /\ Streaming
  /\ \E i \in DOMAIN This.triggers \ Top.fired :
       LET earlier == LeftBehind(FlattenSeq(SubSeq(This.triggers, 1, i - 1)))
       IN /\ Push([Binding(Frame("gnmi-trigger", This.triggers[i], Append(Path, "gnmi-trigger"), Top.depth + 1, This),
                           EventVariables)
                     EXCEPT !.again = @ \/ \E j \in Top.fired : j > i],
                  [Top EXCEPT !.fired = @ \cup {i}])
          /\ passed' = passed \cup This.register \cup earlier
  /\ vars' = [n \in EventVariables |-> TRUE] @@ vars
  /\ UNCHANGED <<startupVars, device, ssh, netconf, status, sent, entered, unmet, dirty>>

EndStream ==
  /\ Streaming
  /\ \/ Succeed(Top)
     \/ Goto(Failing(Past(Top))) /\ Leaving /\ UNCHANGED <<vars, unmet>>
  /\ UNCHANGED <<startupVars, device, ssh, netconf, status, sent, entered, dirty>>

-----------------------------------------------------------------------------
(* executeValidationAction, after a validated step.                        *)

Judging == status = "" /\ frames # <<>> /\ Top.mode \in {"pass", "fail"}
Action == IF Top.mode = "pass" THEN This.on_pass ELSE This.on_fail

\* Its steps are run at depth 0; an action that cannot be carried out fails
\* the rest of the list but does not stop the device.
Enter(action) ==
  Push(Frame("validation-action", action.steps, Append(Path, "validation-action"), 0, This), Past(Top))

Judge ==
  /\ Judging
  /\ LET action == Action
         blocked == Missing(action.reads) # {} \/ (action.cmd /\ ssh = "none")
         sends == action.cmd /\ ~blocked
     IN /\ CASE blocked                -> Goto(Broken(Top)) /\ Leaving
             [] action.ends # "none"   ->
                  Goto(Stopping(IF action.ends = "fail" THEN Failing(Past(Top)) ELSE Past(Top))) /\ Leaving
             [] OTHER ->
                  \/ sends /\ Goto(Broken(Top)) /\ Leaving
                  \/ IF action.steps = <<>> THEN Goto(Past(Top)) /\ Leaving ELSE Enter(action) /\ UNCHANGED passed
        /\ sent' = IF sends THEN sent \cup {<<"cmd", "action">>} ELSE sent
        /\ Reading(action.reads)
        /\ IF sends THEN Executing(action.exec) ELSE UNCHANGED dirty
  /\ UNCHANGED <<startupVars, device, vars, ssh, netconf, status, entered>>

-----------------------------------------------------------------------------
(* A list comes to its end.                                                *)

AtEnd(roles) ==
  /\ status = "" /\ frames # <<>> /\ Top.role \in roles
  /\ Top.mode = "" /\ (Top.left = <<>> \/ Top.stopped)

Either(a, b) == [k \in DOMAIN Clear |-> a[k] \/ b[k]]
Flags(f) == [k \in DOMAIN Clear |-> f[k]]
Joined(f, flags) ==
  [f EXCEPT !.failed = @ \/ flags.failed, !.invalid = @ \/ flags.invalid, !.stopped = @ \/ flags.stopped]
Return(flags) == frames' = <<Joined(frames[2], flags)>> \o SubSeq(frames, 3, Len(frames))

\* executeRepeat, executeForeach
More(f) == ~f.stopped /\ f.round < f.rounds /\ ~(f.failed /\ f.step.stopOnFailure)

NextRound ==
  /\ AtEnd({"repeat", "foreach"}) /\ More(Top)
  /\ Goto([Top EXCEPT !.left = Top.steps, !.round = @ + 1, !.again = TRUE,
                      !.failed = FALSE, !.kept.failed = @ \/ Top.failed])
  /\ LET outer == Unscoped(vars, Top.bound, Top.outer)
     IN vars' = IF Top.role = "foreach" THEN LoopBound(Top.step, outer) ELSE outer
  /\ passed' = passed \cup LeftBehind(Top.steps)
  /\ UNCHANGED <<startupVars, device, ssh, netconf, status, sent, entered, unmet, dirty>>

Leave ==
  /\ AtEnd({"repeat", "foreach", "workflow", "validation-action"})
  /\ Top.role \in {"repeat", "foreach"} => ~More(Top)
  /\ Return(Either(Flags(Top), Top.kept))
  /\ vars' = Unscoped(vars, Top.bound, Top.outer)
  /\ passed' = passed \cup LeftBehind(<<Top.step>>)
  /\ UNCHANGED <<startupVars, device, ssh, netconf, status, sent, entered, unmet, dirty>>

\* That a trigger's steps ended is not heeded.
LeaveTrigger ==
  /\ AtEnd({"gnmi-trigger"})
  /\ Return([Flags(Top) EXCEPT !.stopped = FALSE])
  /\ vars' = Unscoped(vars, Top.bound, Top.outer)
  /\ passed' = Top.before \cup LeftBehind(Top.steps)
  /\ UNCHANGED <<startupVars, device, ssh, netconf, status, sent, entered, unmet, dirty>>

\* executeBlock.  Rescue and rollback run once the block failed and take the
\* failure away when they succeed; always runs in any case.
Recovery(step) == step.rescue \o step.rollback
Phases == {"block", "rescue", "rollback", "always"}
Erred(f) == f.failed \/ f.invalid
Recovers(f) == f.role = "block" /\ Erred(f) /\ Recovery(f.step) # <<>>

\* What is held against the block after a phase.
Settled(f) ==
  [failed |-> CASE f.role = "block" -> Erred(f) /\ ~Recovers(f)
                [] f.role = "always" -> f.kept.failed \/ Erred(f)
                [] OTHER -> Erred(f),
   invalid |-> IF f.role \in {"rescue", "rollback"} THEN Erred(f) /\ (f.kept.invalid \/ f.invalid)
               ELSE f.kept.invalid \/ f.invalid,
   stopped |-> f.kept.stopped \/ f.stopped]

NextPhase(f) ==
  IF Recovers(f) THEN IF f.step.rescue # <<>> THEN "rescue" ELSE "rollback"
  ELSE IF f.role # "always" /\ f.step.always # <<>> THEN "always" ELSE ""

EndPhase ==
  /\ AtEnd(Phases)
  /\ LET next == NextPhase(Top)
         steps == IF next = "always" THEN Top.step.always ELSE Recovery(Top.step)
     IN IF next = "" THEN Return(Settled(Top))
        ELSE Goto([Top EXCEPT !.role = next, !.steps = steps, !.left = steps, !.path = Append(Front(@), next),
                              !.failed = FALSE, !.invalid = FALSE, !.stopped = FALSE, !.kept = Settled(Top)])
  /\ passed' = passed \cup LeftBehind(IF NextPhase(Top) = "" THEN <<Top.step>>
                                      ELSE IF NextPhase(Top) = "always" THEN Top.step.steps \o Recovery(Top.step)
                                      ELSE Top.step.steps)
  /\ UNCHANGED <<startupVars, device, vars, ssh, netconf, status, sent, entered, unmet, dirty>>

\* executeParallel, the end of a branch: its sessions are closed and what it
\* changed is merged; two branches that disagree on a name fail the step.
Merged(f) == [n \in {m \in DOMAIN vars : m \notin DOMAIN f.outer \/ vars[m] # f.outer[m]} |-> vars[n]] @@ f.merged
Contested(step) ==
  \E i, j \in DOMAIN step.steps : i < j /\ LeftBehind(<<step.steps[i]>>) \cap LeftBehind(<<step.steps[j]>>) # {}

EndBranch ==
  /\ AtEnd({"parallel"})
  /\ \E closes \in {TRUE} \cup {~(ssh = "open" \/ netconf = "open")},
        agrees \in {TRUE} \cup {~(Contested(Top.step) /\ Top.round = Top.rounds)} :
       LET kept == Either(Top.kept, [Flags(Top) EXCEPT !.failed = Erred(Top) \/ ~closes \/ ~agrees])
           next == <<Top.step.steps[Top.round + 1]>>
       IN IF Top.round < Top.rounds
          THEN /\ Connected(<<[Top EXCEPT !.steps = next, !.left = next, !.round = @ + 1, !.kept = kept,
                                          !.failed = FALSE, !.invalid = FALSE, !.stopped = FALSE,
                                          !.merged = Merged(Top)]>> \o Tail(frames), next)
               /\ netconf' = "idle" /\ vars' = Top.outer /\ passed' = Top.before
          ELSE /\ Return(kept)
               /\ ssh' = Top.sessions[1] /\ netconf' = Top.sessions[2] /\ vars' = Merged(Top)
               /\ passed' = Top.before \cup LeftBehind(<<Top.step>>)
  /\ UNCHANGED <<startupVars, device, status, sent, entered, unmet, dirty>>

-----------------------------------------------------------------------------
(* runSSHDeviceContext after the steps: the verdict and the sessions.      *)

EndSteps ==
  /\ AtEnd({"device"})
  /\ frames' = <<>>
  /\ status' = IF Erred(Top) THEN "failed" ELSE "good"
  /\ UNCHANGED <<startupVars, device, vars, ssh, netconf, sent, entered, passed, unmet, dirty>>

CloseSSH ==
  /\ status # "" /\ ssh = "open"
  /\ ssh' = "none" /\ status' \in {status, "failed"}
  /\ UNCHANGED <<startupVars, device, frames, vars, netconf, sent, entered, passed, unmet, dirty>>

\* ScrapligoNETCONF.Close asks the session to end and waits for its answer.
CloseNETCONF ==
  /\ status # "" /\ ssh = "none" /\ netconf = "open"
  /\ netconf' = "closing"
  /\ UNCHANGED <<startupVars, device, frames, vars, ssh, status, sent, entered, passed, unmet, dirty>>

NETCONFClosed ==
  /\ netconf = "closing"
  /\ netconf' = "closed" /\ UNCHANGED status
  /\ UNCHANGED <<startupVars, device, frames, vars, ssh, sent, entered, passed, unmet, dirty>>

\* Fault: an answer is waited for however long it takes.
FaultAbortNETCONF == FALSE

\* An error, or no answer in time: the channel is aborted.
AbortNETCONF ==
  /\ netconf = "closing"
  /\ netconf' = "closed" /\ status' = "failed"
  /\ UNCHANGED <<startupVars, device, frames, vars, ssh, sent, entered, passed, unmet, dirty>>

Starts == StartupStep /\ UNCHANGED walkVars

Walk ==
  \/ Launch \/ Unread \/ Skip \/ Gate \/ Note \/ Probe
  \/ Repeat \/ Foreach \/ Use \/ Block \/ Parallel
  \/ Withhold \/ Execute \/ Subscribe \/ Fire \/ EndStream \/ Judge
  \/ NextRound \/ Leave \/ LeaveTrigger \/ EndPhase \/ EndBranch
  \/ EndSteps \/ CloseSSH \/ CloseNETCONF \/ AbortNETCONF

Next == Starts \/ Walk \/ NETCONFClosed

\* The program goes on; a session that is asked to end may never answer.
Spec == Init /\ [][Next]_allVars /\ WF_allVars(Starts \/ Walk)

-----------------------------------------------------------------------------

\* A playbook that is accepted however the preflight goes about it never
\* reads a variable at a point that no step producing it comes before: a
\* variable that is missing all the same was left out by a step that was
\* skipped or failed (preflightSteps against executeStepsAtDepth).
VettedReadsAreProduced == unmet => ~Vetted(device[1])

\* The variables of a command, a payload or a desired state are always there,
\* and never hold output of a device, through whatever scope, branch or
\* parameter it came: later rounds of loops and triggers that fire out of
\* order excepted, whose steps the preflight follows once and as written
\* (checkTemplateString, rejectTaintedTemplateReferences).
OutputStaysOutOfCommands == ~dirty

Finished == status # "" /\ frames = <<>> /\ ssh = "none" /\ netconf \notin {"open", "closing"}
MayEndEarly(steps) ==
  \E s \in AllSteps(steps) \cup UNION {AllSteps(launch.workflows[w].steps) : w \in DOMAIN launch.workflows} :
    Recovery(s) # <<>> \/ {s.on_pass.ends, s.on_fail.ends} # {"none"}

\* The plan that --plan prints lists every step a run may start, and of those
\* it calls unconditional none is left out by a device that ends well, unless
\* an action ends its steps or a block recovers from a step that did
\* (appendPlanSteps against executeStepsAtDepth).
PlanCoversRun ==
  device # <<>> =>
    LET plan == OfflinePlan(device[1].steps, launch.workflows)
        steps(entries) == {[path |-> e.path, kind |-> e.kind] : e \in entries}
    IN /\ entered \subseteq steps(plan)
       /\ Finished /\ status = "good" /\ ~MayEndEarly(device[1].steps) =>
            steps({e \in plan : ~e.conditional}) \subseteq entered

\* Whatever fails on the way, the program refuses, answers or runs to its end
\* with every session closed, also one that never answers to being closed
\* (main, runSSHDeviceContext, ScrapligoNETCONF.Close).
PlaybookEnds ==
  <>(stage \in {"refused", "answered"} \/ (stage = "launch" /\ selected = <<>>) \/ Finished)

\* "Check mode never sends generic SSH commands" (README.md:388).
CheckModeSends == CheckMode => {<<"cmd", "step">>, <<"cmd", "action">>} \cap sent = {}
=============================================================================
