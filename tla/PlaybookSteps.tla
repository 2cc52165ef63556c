---------------------------- MODULE PlaybookSteps ----------------------------
(***************************************************************************)
(* The steps of a playbook, and what start-up asks of them: that none was  *)
(* removed from the language or is forbidden by the security mode          *)
(* (config_loader.go, security_policy.go), and that the preflight does not *)
(* refuse them.  How nested steps are found and what the preflight says of *)
(* steps is in PlaybookVetting.                                            *)
(***************************************************************************)
EXTENDS Sequences, FiniteSets, SequencesExt

CONSTANTS
  AllSteps(_),        \* the steps of a list and of all lists in them
  Preflight(_, _, _)  \* the outcomes of steps with workflows, in a scope

\* An outcome of the preflight: <<scope>> for what is accepted with that scope,
\* <<>> for what is refused.
Fails == {<<>>}

(* kind is the one executable or control field of a step; reads are the    *)
(* variables of its message, approval or expected value, exec those of its *)
(* executable fields, checks those of its validations.                     *)

NoAction == [reads |-> {}, cmd |-> FALSE, exec |-> {}, steps |-> <<>>, ends |-> "none", given |-> FALSE]

Step(name, kind) ==
  [name |-> name, kind |-> kind, when |-> {}, reads |-> {}, exec |-> {}, checks |-> {},
   register |-> {}, validated |-> FALSE, returns |-> TRUE, on_pass |-> NoAction, on_fail |-> NoAction,
   steps |-> <<>>, rescue |-> <<>>, rollback |-> <<>>, always |-> <<>>,
   count |-> 1, from |-> {}, items |-> <<>>, item |-> "item", index |-> "index", stopOnFailure |-> TRUE,
   use |-> "", with |-> [p \in {} |-> {}], triggers |-> <<>>,
   removedLocal |-> FALSE, skipTLS |-> FALSE]

Controls == {"repeat", "foreach", "use", "block", "parallel"}

\* The tables of nested steps of rejectRemovedLocalSteps and validateStepSecurity.
Within(step) ==
  <<step.steps, step.rescue, step.rollback, step.always, step.on_pass.steps, step.on_fail.steps>>
    \o step.triggers

RejectRemovedLocalSteps(steps) == \E s \in AllSteps(steps) : s.removedLocal
ValidStepSecurity(steps, mode) == mode = "production" => ~\E s \in AllSteps(steps) : s.skipTLS
=============================================================================
