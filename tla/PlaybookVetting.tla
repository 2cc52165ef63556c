--------------------------- MODULE PlaybookVetting ---------------------------
(***************************************************************************)
(* What is said of the steps of a playbook before it runs: which of its   *)
(* values are there when they are read (workflow_preflight.go), which      *)
(* steps may run (offline_plan.go) and whether they need an SSH session    *)
(* (workflow_executor.go).                                                 *)
(*                                                                         *)
(* A scope gives for each variable that is defined whether it is device    *)
(* output.  Values are never blank: configVariables and the preflight      *)
(* refuse blank ones, and those known at run time only count as given.     *)
(***************************************************************************)
EXTENDS PlaybookSteps, Integers, Sequences, FiniteSets, FiniteSetsExt, SequencesExt

CONSTANT MaxWorkflowDepth  \* maxWorkflowDepth, 20 in the code

ASSUME DepthAssumption == MaxWorkflowDepth \in Nat

-----------------------------------------------------------------------------

RECURSIVE NestedSteps(_)
NestedSteps(steps) ==
  Range(steps) \cup UNION {NestedSteps(nested) : nested \in UNION {Range(Within(s)) : s \in Range(steps)}}

-----------------------------------------------------------------------------
(* stepsNeedSSH and stepsNeedSSHInCheck: they look into workflows, each    *)
(* once, and not into validation actions.                                  *)

RECURSIVE Visited(_, _, _)
Visited(steps, workflows, seen) ==
  LET called == {s.use : s \in Range(steps)} \cap (DOMAIN workflows \ seen)
      nested == UNION {{s.steps, s.rescue, s.rollback, s.always} \cup Range(s.triggers) : s \in Range(steps)}
  IN Range(steps)
       \cup UNION {Visited(n, workflows, seen) : n \in nested \ {<<>>}}
       \cup UNION {Visited(workflows[w].steps, workflows, seen \cup {w}) : w \in called}

StepsNeedSSH(steps, workflows) ==
  \E s \in Visited(steps, workflows, {}) : s.kind \in {"cmd", "ensure", "facts", "probe"}
StepsNeedSSHInCheck(steps, workflows) ==
  \E s \in Visited(steps, workflows, {}) : s.kind = "ensure"

-----------------------------------------------------------------------------
(* Preflight.  on_pass and on_fail are visited in the random order of a Go *)
(* map, so the outcome is a set: <<scope>> for what is accepted with that  *)
(* scope, <<>> for what is refused.                                        *)

Then(outcomes, Next1(_)) == UNION {IF o = <<>> THEN Fails ELSE Next1(o[1]) : o \in outcomes}

Defined(names, scope) == names \subseteq DOMAIN scope
Tainted(names, scope) == \E n \in names \cap DOMAIN scope : scope[n]
Executable(names, scope) == Defined(names, scope) /\ ~Tainted(names, scope)
Registered(register, scope) == [n \in register |-> TRUE] @@ scope

\* What is left of a scope in which names were bound: the outer values.
Unscoped(inner, names, outer) ==
  [n \in (DOMAIN inner \ names) \cup DOMAIN outer |-> IF n \in names THEN outer[n] ELSE inner[n]]

\* mergePreflightOutputs for a branch that began at base.
MergeOutputs(target, base, branch) ==
  [n \in {m \in DOMAIN branch : m \notin DOMAIN base \/ base[m] # branch[m]} |-> branch[n]] @@ target

EventVariables == {"gnmi_event", "gnmi_event_type", "gnmi_event_path", "gnmi_event_value",
                   "gnmi_metric_value", "gnmi_baseline_value", "gnmi_threshold_value"}

\* preflightStep up to the registration of its output, and its validations.
StepReads(step, scope) ==
  /\ Defined(step.when \cup step.reads, scope) /\ Executable(step.exec, scope)
  /\ Defined(step.checks, Registered(step.register, scope))

\* preflightWorkflow: exactly the parameters must be given.
Bindable(step, workflows, scope) ==
  /\ step.use \in DOMAIN workflows
  /\ DOMAIN step.with = workflows[step.use].parameters
  /\ \A p \in DOMAIN step.with : Defined(step.with[p], scope)
\* Fault: parameters count as text of the playbook.
FaultBindings(step, scope) == [p \in DOMAIN step.with |-> FALSE]
Bindings(step, scope) == [p \in DOMAIN step.with |-> Tainted(step.with[p], scope)]

\* preflightForeach; items is a sequence of the variables each item reads.
Loopable(step, scope) ==
  /\ step.from = {} \/ step.items = <<>>
  /\ Defined(step.from \cup UNION Range(step.items), scope)
LoopBindings(step, scope) ==
  step.index :> FALSE @@ step.item :> Tainted(step.from \cup UNION Range(step.items), scope)

RECURSIVE Vet(_, _, _, _), VetStep(_, _, _, _), VetBranches(_, _, _, _, _)
\* preflightSteps: a list too deep is refused even when it is empty.
Vet(steps, workflows, scope, depth) ==
  IF depth > MaxWorkflowDepth THEN Fails
  ELSE IF steps = <<>> THEN {<<scope>>}
  ELSE Then(VetStep(Head(steps), workflows, scope, depth),
            LAMBDA after : Vet(Tail(steps), workflows, after, depth))

\* Fault: a branch sees what the branches before it registered.
FaultVetBranches(branches, workflows, base, scope, depth) ==
  IF branches = <<>> THEN {<<scope>>}
  ELSE Then(Vet(<<Head(branches)>>, workflows, scope, depth),
            LAMBDA branch : VetBranches(Tail(branches), workflows, base, MergeOutputs(scope, base, branch), depth))

VetBranches(branches, workflows, base, scope, depth) ==
  IF branches = <<>> THEN {<<scope>>}
  ELSE Then(Vet(<<Head(branches)>>, workflows, base, depth),
            LAMBDA branch : VetBranches(Tail(branches), workflows, base, MergeOutputs(scope, base, branch), depth))

VetStep(step, workflows, scope, depth) ==
  LET deeper(steps, from) == Vet(steps, workflows, from, depth + 1)
      bound(steps, bindings, from) ==
        Then(deeper(steps, bindings @@ from), LAMBDA inner : {<<Unscoped(inner, DOMAIN bindings, from)>>})
      action(a, from) ==
        IF ~a.given THEN {<<from>>}
        ELSE IF Defined(a.reads, from) /\ Executable(a.exec, from) THEN deeper(a.steps, from) ELSE Fails
      both(from) == Then(action(step.on_pass, from), LAMBDA s : action(step.on_fail, s))
                      \cup Then(action(step.on_fail, from), LAMBDA s : action(step.on_pass, s))
      control(from) ==
        CASE step.kind = "use" ->
               IF Bindable(step, workflows, from)
               THEN bound(workflows[step.use].steps, Bindings(step, from), from) ELSE Fails
          [] step.kind = "foreach" ->
               IF Loopable(step, from) THEN bound(step.steps, LoopBindings(step, from), from) ELSE Fails
          [] step.kind = "repeat" -> deeper(step.steps, from)
          [] step.kind = "block" ->
               FoldLeft(LAMBDA outcomes, steps : Then(outcomes, LAMBDA s : deeper(steps, s)),
                        {<<from>>}, <<step.steps, step.rescue, step.rollback, step.always>>)
          [] step.kind = "parallel" -> VetBranches(step.steps, workflows, from, from, depth + 1)
          [] step.kind = "gnmi" ->
               FoldLeft(LAMBDA outcomes, steps :
                          Then(outcomes, LAMBDA s : bound(steps, [n \in EventVariables |-> TRUE], s)),
                        {<<from>>}, step.triggers)
          [] OTHER -> {<<from>>}
  IN IF StepReads(step, scope)
     THEN Then(both(Registered(step.register, scope)), control) ELSE Fails

\* preflightDeviceVariables
PreflightDevice(steps, workflows, scope) == Vet(steps, workflows, scope, 0)

-----------------------------------------------------------------------------
(* appendPlanSteps.  An entry is the path of a step, the names on the way  *)
(* to it, its kind and whether it is conditional.                          *)

RECURSIVE Plan(_, _, _, _)
Plan(steps, workflows, prefix, conditional) ==
  UNION {
    LET path == Append(prefix, s.name)
        maybe == conditional \/ s.when # {}
        under(label, nested, hedged) == Plan(nested, workflows, Append(path, label), hedged)
    IN {[path |-> path, kind |-> s.kind, conditional |-> maybe]}
         \cup (IF s.kind = "use" /\ s.use \in DOMAIN workflows
               THEN under("workflow", workflows[s.use].steps, maybe) ELSE {})
         \cup (IF s.kind = "block" THEN under("block", s.steps, maybe)
               ELSE IF s.kind \in Controls THEN under(s.kind, s.steps, TRUE) ELSE {})
         \cup under("rescue", s.rescue, TRUE) \cup under("rollback", s.rollback, TRUE)
         \cup under("always", s.always, TRUE)
         \cup under("validation-action", s.on_pass.steps \o s.on_fail.steps, TRUE)
         \cup UNION {under("gnmi-trigger", t, TRUE) : t \in Range(s.triggers)}
    : s \in Range(steps)}

OfflinePlan(steps, workflows) == Plan(steps, workflows, <<>>, FALSE)
=============================================================================
