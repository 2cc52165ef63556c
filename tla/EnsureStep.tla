------------------------------ MODULE EnsureStep ------------------------------
(***************************************************************************)
(* One declarative `ensure` step (executeEnsureStep, executeSSH*Ensure and *)
(* failSSHEnsure): discover the object, compare, apply the forward plan,   *)
(* discover again to verify, and on failure roll back with a plan that was *)
(* computed from the first discovery.  The device is not the step's own:   *)
(* an operator may change it between any two calls.                        *)
(*                                                                         *)
(* Validation that refuses a step before it reaches the device is not      *)
(* modelled; Scenarios holds steps that pass it.                           *)
(***************************************************************************)
EXTENDS EnsurePlans, Integers

CONSTANTS
  Scenarios,   \* steps, each with an object it may find
  MaxChanges,  \* bound: changes by the operator
  MaxRuns      \* bound: executions of the step, the repeated ones included

VARIABLES
  step,       \* the rendered step
  device,     \* the object on the device
  used,       \* other configuration on the device refers to the object
  current,    \* what was discovered
  seen,       \* Dependencies, as discovered, is not empty
  pc,         \* the call that comes next, or "done"
  result,     \* Action of the plan, "refused", or "pending"
  disturbed,  \* history: the operator acted since the discovery
  stale,      \* history: the operator acted since the device was last read
  restored,   \* history: the device took every line of the rollback
  changes, runs

runVars == <<current, seen, pc, result>>
history == <<disturbed, stale, restored>>
vars == <<step, device, used, runVars, history, changes, runs>>

\* What the operator, or another program, may make of the object.
Found(s) == {c.object : c \in {d \in Scenarios : d.step = s}}

ASSUME ScenariosAssumption ==
  \A c \in Scenarios :
    /\ c.step \in ValidSteps /\ Shown(c.step, c.object)
    /\ c.step.kind = "interface" /\ c.step.platform # "netconf" /\ c.object.present
         => c.object.attr["state"] \in {"up", "down"}

ASSUME BoundsAssumption == MaxChanges \in Nat /\ MaxRuns \in Nat \ {0}

Init ==
  /\ \E c \in Scenarios : step = c.step /\ device = c.object
  /\ used \in BOOLEAN /\ (used => step.kind = "vrf")
  /\ current = Absent /\ seen = FALSE
  /\ pc = "discover" /\ result = "pending"
  /\ disturbed = FALSE /\ stale = FALSE /\ restored = FALSE
  /\ changes = 0 /\ runs = 1

-----------------------------------------------------------------------------
(* Discovery and comparison *)

End(r) == pc' = "done" /\ result' = r

\* An interface that an SSH parser does not find is an error; to NETCONF it is
\* an interface that is not there.
Parses(s, o) == s.kind = "interface" /\ s.platform # "netconf" => o.present

Discover ==
  /\ pc = "discover" /\ Parses(step, device)
  /\ current' = device /\ seen' = used
  /\ disturbed' = FALSE /\ stale' = FALSE
  /\ pc' = "decide"
  /\ UNCHANGED <<step, device, used, result, restored, changes, runs>>

DiscoverFails ==
  /\ pc = "discover"
  /\ End("failed")
  /\ UNCHANGED <<step, device, used, current, seen, history, changes, runs>>

InSync == Matches(step, current)

\* Why a step is refused once the device has been read: another instance type,
\* no BGP process, a VRF in use, or an interface that is not as required.
Refused ==
  \/ /\ step.kind = "vrf" /\ step.platform = "junos"
     /\ current.attr["type"] \notin {Unset, "vrf"}
  \/ step.kind = "vrf" /\ step.platform = "eos" /\ step.present /\ ~step.bgp
  \/ step.kind = "vrf" /\ ~step.present /\ current.present /\ seen
  \/ ~InSync /\ step.require # "any" /\ current.attr["state"] # step.require

Decide(r) ==
  /\ pc = "decide"
  /\ End(r)
  /\ UNCHANGED <<step, device, used, current, seen, history, changes, runs>>

Refuse     == Refused /\ Decide("refused")
FindInSync == ~Refused /\ InSync /\ Decide("none")
Preview    == ~Refused /\ ~InSync /\ step.check /\ Decide("would-change")

-----------------------------------------------------------------------------
(* Apply, verify, roll back *)

Write(p) == device' \in Effects(step, device, p)

\* The call may end well although the device refused some of the lines, and
\* badly although it took all of them.
Apply ==
  /\ pc = "decide" /\ ~Refused /\ ~InSync /\ ~step.check
  /\ Write(Forward(step, current))
  /\ pc' \in {"verify", "recover"}
  /\ UNCHANGED <<step, used, current, seen, result, history, changes, runs>>

Verified == Parses(step, device) /\ Matches(step, device)

\* Fault: only the output of the apply call is looked at.
VerifyNothing ==
  /\ pc = "verify"
  /\ stale' = FALSE
  /\ End("changed")
  /\ UNCHANGED <<step, device, used, current, seen, disturbed, restored, changes, runs>>

VerifyMatches ==
  /\ pc = "verify" /\ Verified
  /\ stale' = FALSE
  /\ End("changed")
  /\ UNCHANGED <<step, device, used, current, seen, disturbed, restored, changes, runs>>

\* The device does not match, or the second discovery failed.
VerifyFails ==
  /\ pc = "verify"
  /\ pc' = "recover"
  /\ UNCHANGED <<step, device, used, current, seen, result, history, changes, runs>>

\* A plan that changes something always has an inverse.
Fail ==
  /\ pc = "recover" /\ ~step.rollback
  /\ End("failed")
  /\ UNCHANGED <<step, device, used, current, seen, history, changes, runs>>

RollBack(r) ==
  LET inverse == Inverse(step, current) IN
  /\ pc = "recover" /\ step.rollback
  /\ Write(inverse)
  /\ restored' = (device' = Complete(step, device, inverse))
  /\ End(r)
  /\ UNCHANGED <<step, used, current, seen, disturbed, stale, changes, runs>>

RollbackSucceeds == RollBack("rolled-back")
RollbackFails    == RollBack("rollback-failed")

-----------------------------------------------------------------------------
(* The world around the step *)

Operator ==
  /\ changes < MaxChanges
  /\ changes' = changes + 1
  /\ device' \in Found(step)
  /\ used' \in BOOLEAN /\ (used' => step.kind = "vrf")
  /\ <<device', used'>> # <<device, used>>
  /\ disturbed' = TRUE /\ stale' = TRUE
  /\ UNCHANGED <<step, runVars, restored, runs>>

\* The process is lost and resumed, or the step is executed once more: an
\* ensure step is never skipped, it starts from discovery.
Again ==
  /\ pc # "discover" /\ runs < MaxRuns
  /\ runs' = runs + 1
  /\ pc' = "discover" /\ result' = "pending" /\ restored' = FALSE
  /\ UNCHANGED <<step, device, used, current, seen, disturbed, stale, changes>>

\* Nothing is left to do.
Over == pc = "done" /\ UNCHANGED vars

Next ==
  \/ Discover \/ DiscoverFails
  \/ Refuse \/ FindInSync \/ Preview
  \/ Apply \/ VerifyMatches \/ VerifyFails
  \/ Fail \/ RollbackSucceeds \/ RollbackFails
  \/ Operator \/ Again \/ Over

Spec == Init /\ [][Next]_vars

-----------------------------------------------------------------------------
(* Properties *)

\* Types; and a result is there exactly when the step is over, whatever path
\* it took (the plan's Action is set on every return of executeSSH*Ensure).
TypeOK ==
  /\ step \in Steps /\ device \in Objects /\ current \in Objects
  /\ used \in BOOLEAN /\ seen \in BOOLEAN
  /\ pc \in {"discover", "decide", "verify", "recover", "done"}
  /\ result \in {"pending", "none", "would-change", "refused", "changed", "failed",
                 "rolled-back", "rollback-failed"}
  /\ result = "pending" <=> pc # "done"
  /\ disturbed \in BOOLEAN /\ stale \in BOOLEAN /\ restored \in BOOLEAN
  /\ stale => disturbed
  /\ changes \in 0..MaxChanges /\ runs \in 1..MaxRuns

\* A step that reports "none" or "changed" tells the truth about the device as
\* it was last read: whatever lines were refused or lost on the way, in this
\* execution or in one that crashed, and whatever the operator did before that
\* reading (the verification in executeSSH*Ensure).
SuccessIsTrue ==
  result \in {"none", "changed"} /\ ~stale => Matches(step, device)

\* Deletions of a VRF whose inverse does not bring everything back, although
\* README.md promises one for every change.
LossyDeletion(s, o) ==
  /\ s.kind = "vrf" /\ ~s.present
  /\ \/ s.set["rd"] # Unset \/ s.lines # {}
     \/ s.platform = "junos"
     \/ s.platform = "eos" /\ s.bgp /\ o.attr["plane"] = Unset

RolledBack == result = "rolled-back" /\ restored /\ ~disturbed

\* The inverse block undoes the forward block however little of it was carried
\* out: if nobody else changed the object and the device takes every line of
\* the inverse, the object is what was discovered, its unmanaged settings and
\* lines included (failSSHEnsure, and the adapters' commands).
RollbackRestores == RolledBack /\ ~LossyDeletion(step, current) => device = current

OthersKept ==
  /\ step.kind = "route" => device'.lines \ step.lines = device.lines \ step.lines
  /\ step.kind = "interface" /\ step.set["description"] = Keep /\ ~disturbed
       => device'.attr["description"] = device.attr["description"]
  /\ step.kind = "vrf" /\ used /\ current.present /\ device.present /\ ~disturbed
       => device'.present

\* The step never changes what it does not manage, in any of its writes: other
\* next hops of a prefix (not even if the operator changes them meanwhile), a
\* description it was not given, and a VRF that existed and was in use is never
\* deleted (the adapters' commands, and the scan for dependencies).
BystandersUntouched == [][changes' = changes => OthersKept]_vars
=============================================================================
