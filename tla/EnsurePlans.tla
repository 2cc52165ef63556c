----------------------------- MODULE EnsurePlans -----------------------------
(***************************************************************************)
(* The adapters of a declarative `ensure` step (workflow_ensure.go,        *)
(* workflow_ensure_ssh.go, workflow_ensure_ssh_vrf.go): when an object     *)
(* matches a step, and the forward and the inverse block of commands.      *)
(*                                                                         *)
(* An object is an interface, the next hops of one prefix, or a VRF:       *)
(* single-valued settings and a set of lines.  The platforms differ where  *)
(* their plans do: EOS keeps a VRF's RD and targets in the VRF of the BGP  *)
(* process (setting "plane"), Junos has an instance type, and NX-OS has    *)
(* lines for both directions at once, which the others never show.         *)
(***************************************************************************)

CONSTANTS
  Values,   \* values of settings
  Unset,    \* the setting is not there
  Keep,     \* the step, or the plan, leaves the setting alone
  Targets   \* next hops of routes, route targets of VRFs

Settings == {"state", "description", "rd", "type", "plane"}

Lines == {"next hop", "import", "export", "both"} \X Targets

Objects == [present : BOOLEAN, attr : [Settings -> Values], lines : SUBSET Lines]

Absent == [present |-> FALSE, attr |-> [f \in Settings |-> Unset], lines |-> {}]

Steps ==
  [kind : {"interface", "route", "vrf"},
   platform : {"netconf", "eos", "junos", "other"},
   present : BOOLEAN,                      \* state: present, or an interface's
   set : [Settings -> Values \cup {Keep}], \* the settings it asks for
   lines : SUBSET Lines,                   \* the next hop or targets it asks for
   require : {"any", "up", "down"},        \* require_state
   check : BOOLEAN, rollback : BOOLEAN,
   bgp : BOOLEAN]                          \* EOS has a BGP process

ASSUME ValuesAssumption ==
  /\ {Unset, "up", "down", "vrf", "bgp"} \subseteq Values
  /\ Unset \notin {"up", "down", "vrf", "bgp"}
  /\ Keep \notin Values

-----------------------------------------------------------------------------
(* What a step asks for *)

\* Targets that reach a direction through either form of line.
Effective(lines, way) ==
  {t \in Targets : <<way, t>> \in lines \/ <<"both", t>> \in lines}

Desired(s) ==
  [present |-> s.present,
   attr |-> [s.set EXCEPT
     !["type"] = IF s.platform = "junos" THEN "vrf" ELSE Unset,
     !["plane"] = IF s.platform = "eos" /\ s.present THEN "bgp" ELSE Unset],
   lines |-> s.lines]

InterfaceMatches(s, o) ==
  /\ o.present
  /\ \A f \in Settings : s.set[f] # Keep => o.attr[f] = s.set[f]

RouteMatches(s, o) == s.present <=> s.lines \subseteq o.lines

VRFMatches(s, o) ==
  LET want == Desired(s) IN
  /\ o.present = want.present
  /\ want.present =>
       /\ \A f \in {"rd", "type", "plane"} : o.attr[f] = want.attr[f]
       /\ \A way \in {"import", "export"} :
            Effective(o.lines, way) = Effective(want.lines, way)

Matches(s, o) ==
  CASE s.kind = "interface" -> InterfaceMatches(s, o)
    [] s.kind = "route"     -> RouteMatches(s, o)
    [] OTHER                -> VRFMatches(s, o)

Nothing == [f \in Settings |-> Keep]

\* Steps that pass validation: targets and an RD for VRFs only, one next hop for
\* routes, require_state for SSH interfaces, no rollback over NETCONF.
ValidSteps ==
  {s \in Steps :
    /\ s.kind = "interface" =>
         /\ s.present /\ s.lines = {} /\ s.set["state"] \in {"up", "down"}
         /\ \A f \in {"rd", "type", "plane"} : s.set[f] = Keep
    /\ s.kind = "route" =>
         s.set = Nothing /\ \E t \in Targets : s.lines = {<<"next hop", t>>}
    /\ s.kind = "vrf" =>
         /\ s.set["rd"] # Keep /\ (s.present => s.set["rd"] # Unset)
         /\ s.lines \subseteq {"import", "export"} \X Targets
    /\ s.kind # "interface" => s.require = "any" /\ s.platform # "netconf"
    /\ s.platform = "netconf" => s.require = "any" /\ ~s.rollback}

-----------------------------------------------------------------------------
(* Plans: blocks of commands *)

Plans == [remove : BOOLEAN, set : [Settings -> Values \cup {Keep}],
          add : SUBSET Lines, drop : SUBSET Lines]

Plan(remove, set, add, drop) ==
  [remove |-> remove, set |-> set, add |-> add, drop |-> drop]

\* Lines for one direction only.
Directed(lines) ==
  {l \in lines : l[1] \in {"import", "export"} /\ <<"both", l[2]>> \notin lines}

BothWays(lines) == {l \in lines : l[1] = "both"}

\* Targets that have a line for both directions and are wanted in both.
Covered(from, to) ==
  {l \in Lines : /\ <<"both", l[2]>> \in from
                 /\ \A way \in {"import", "export"} : l[2] \in Effective(to, way)}

LinesToAdd(from, to) ==
  (BothWays(to) \ from) \cup ((Directed(to) \ Covered(from, to)) \ Directed(from))

LinesToDrop(from, to) ==
  (BothWays(from) \ (to \cup Covered(from, to)))
    \cup (Directed(from) \ (Directed(to) \ Covered(from, to)))

\* EOS enters the VRF of the BGP process whenever it does not remove it.
VRFSettings(s, from, to) ==
  [f \in Settings |->
    CASE f \in {"rd", "type"} /\ from.attr[f] # to.attr[f] -> to.attr[f]
      [] f = "plane" /\ s.platform = "eos" /\ s.bgp       -> "bgp"
      [] OTHER                                            -> Keep]

DropPlane == [Nothing EXCEPT !["plane"] = Unset]

VRFPlan(s, from, to) ==
  CASE from.present /\ ~to.present ->
         Plan(TRUE, IF from.attr["plane"] = Unset THEN Nothing ELSE DropPlane, {}, {})
    [] ~from.present /\ ~to.present -> Plan(FALSE, Nothing, {}, {})
    [] to.present /\ from.attr["plane"] # Unset /\ to.attr["plane"] = Unset ->
         Plan(FALSE, DropPlane, {}, {})
    [] OTHER -> Plan(FALSE, VRFSettings(s, from, to),
                     LinesToAdd(from.lines, to.lines), LinesToDrop(from.lines, to.lines))

RoutePlan(s, present) ==
  Plan(FALSE, Nothing, IF present THEN s.lines ELSE {}, IF present THEN {} ELSE s.lines)

Forward(s, o) ==
  CASE s.kind = "interface" -> Plan(FALSE, s.set, {}, {})
    [] s.kind = "route"     -> RoutePlan(s, s.present)
    [] OTHER                -> VRFPlan(s, o, Desired(s))

\* Fault: a description that was not there is not taken back.
PlainOldSettings(s, o) ==
  [f \in Settings |->
    IF \/ f = "state"
       \/ f = "description" /\ o.attr[f] # Unset
    THEN o.attr[f] ELSE Keep]

\* What the inverse of an interface change writes: its state always, its
\* description if the step manages it or if there was one.
OldSettings(s, o) ==
  [f \in Settings |->
    IF \/ f = "state"
       \/ f = "description" /\ (s.set[f] # Keep \/ o.attr[f] # Unset)
    THEN o.attr[f] ELSE Keep]

Inverse(s, o) ==
  CASE s.kind = "interface" -> Plan(FALSE, OldSettings(s, o), {}, {})
    [] s.kind = "route"     -> RoutePlan(s, ~s.present)
    [] OTHER                -> VRFPlan(s, Desired(s), o)

-----------------------------------------------------------------------------
(* What a device makes of a plan (external) *)

\* RD and targets of an EOS VRF live in the VRF of the BGP process; a line for
\* one direction adds nothing to a line for both, and is not kept.
Settled(s, o) ==
  IF s.kind # "vrf" THEN o
  ELSE IF s.platform = "eos" /\ o.attr["plane"] = Unset
  THEN [o EXCEPT !.attr["rd"] = Unset, !.lines = {}]
  ELSE [o EXCEPT !.lines = BothWays(o.lines) \cup Directed(o.lines)]

\* What a device can show of the object a step is about.
Shown(s, o) ==
  /\ o \in Objects
  /\ s.kind = "route" => o.present
  /\ s.kind = "vrf" =>
       /\ o.present \/ o = Absent
       /\ o = Settled(s, o)
       /\ o.attr["state"] = Unset /\ o.attr["description"] = Unset
       /\ s.platform # "junos" => o.attr["type"] = Unset
       /\ \/ o.attr["plane"] = Unset
          \/ s.platform = "eos" /\ s.bgp /\ o.attr["plane"] = "bgp"

\* Entering an object's context creates it; removing part of one does not.
Creates(p) == ~p.remove /\ p.set["plane"] # Unset

\* The plan's settings in F, additions in A and removals in D took effect.
Outcome(s, o, p, F, A, D) ==
  Settled(s, [present |-> TRUE,
              attr |-> [f \in Settings |-> IF f \in F THEN p.set[f] ELSE o.attr[f]],
              lines |-> (o.lines \ D) \cup A])

Written(p) == {f \in Settings : p.set[f] # Keep}

\* A transport can fail after any line, and a device can refuse any.
Effects(s, o, p) ==
  {o} \cup (IF p.remove THEN {Absent} ELSE {})
      \cup (IF o.present \/ Creates(p)
            THEN {Outcome(s, o, p, F, A, D) :
                    F \in SUBSET Written(p), A \in SUBSET p.add, D \in SUBSET p.drop}
            ELSE {})

\* Every line took effect.
Complete(s, o, p) ==
  IF p.remove THEN Absent
  ELSE IF o.present \/ Creates(p) THEN Outcome(s, o, p, Written(p), p.add, p.drop)
  ELSE o
=============================================================================
