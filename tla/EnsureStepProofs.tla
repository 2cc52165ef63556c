--------------------------- MODULE EnsureStepProofs ---------------------------
(***************************************************************************)
(* Theorems about EnsureStep, for every set of values, targets and         *)
(* scenarios, and any number of changes by others and of executions.       *)
(***************************************************************************)
EXTENDS EnsureStep, TLAPS

-----------------------------------------------------------------------------
(* Types of objects and plans *)

\* What a device shows is an object of the right type.
LEMMA SettledType ==
  ASSUME NEW s \in Steps, NEW o \in Objects
  PROVE  Settled(s, o) \in Objects
<1>1. Unset \in Values
  BY ValuesAssumption
<1>2. BothWays(o.lines) \cup Directed(o.lines) \in SUBSET Lines
  BY DEF Objects, BothWays, Directed
<1>3. QED
  BY <1>1, <1>2 DEF Settled, Objects, Settings

\* So is what any part of a plan makes of one.
LEMMA OutcomeType ==
  ASSUME NEW s \in Steps, NEW o \in Objects, NEW p \in Plans,
         NEW F \in SUBSET Written(p), NEW A \in SUBSET p.add, NEW D \in SUBSET p.drop
  PROVE  Outcome(s, o, p, F, A, D) \in Objects
<1> DEFINE attr == [f \in Settings |-> IF f \in F THEN p.set[f] ELSE o.attr[f]]
<1> DEFINE raw == [present |-> TRUE, attr |-> attr, lines |-> (o.lines \ D) \cup A]
<1>1. attr \in [Settings -> Values]
  BY DEF Objects, Plans, Written
<1>2. (o.lines \ D) \cup A \in SUBSET Lines
  BY DEF Objects, Plans
<1>3. raw \in Objects
  BY <1>1, <1>2 DEF Objects
<1>4. QED
  BY <1>3, SettledType DEF Outcome

\* An object that is not there is an object.
LEMMA AbsentType == Absent \in Objects
BY ValuesAssumption DEF Absent, Objects

\* And so is whatever a plan can leave behind.
LEMMA EffectsType ==
  ASSUME NEW s \in Steps, NEW o \in Objects, NEW p \in Plans
  PROVE  Effects(s, o, p) \subseteq Objects
BY OutcomeType, AbsentType DEF Effects

\* The settings and lines a step asks for.
LEMMA DesiredType ==
  ASSUME NEW s \in Steps
  PROVE  /\ Desired(s).attr \in [Settings -> Values \cup {Keep}]
         /\ Desired(s).lines \in SUBSET Lines
         /\ Desired(s).present = s.present
         /\ \A f \in Settings \ {"type", "plane"} : Desired(s).attr[f] = s.set[f]
         /\ Desired(s).attr["type"] = IF s.platform = "junos" THEN "vrf" ELSE Unset
         /\ Desired(s).attr["plane"] =
              IF s.platform = "eos" /\ s.present THEN "bgp" ELSE Unset
BY ValuesAssumption DEF Desired, Steps, Settings

\* The commands between two VRFs form a plan.
LEMMA VRFPlanType ==
  ASSUME NEW s \in Steps, NEW from, NEW to,
         from.lines \in SUBSET Lines, to.lines \in SUBSET Lines,
         to.attr \in [Settings -> Values \cup {Keep}]
  PROVE  VRFPlan(s, from, to) \in Plans
<1>1. Nothing \in [Settings -> Values \cup {Keep}]
  BY DEF Nothing
<1>2. DropPlane \in [Settings -> Values \cup {Keep}]
  BY <1>1, ValuesAssumption DEF DropPlane, Settings
<1>3. VRFSettings(s, from, to) \in [Settings -> Values \cup {Keep}]
  BY ValuesAssumption DEF VRFSettings, Settings
<1>4. LinesToAdd(from.lines, to.lines) \in SUBSET Lines
  BY DEF LinesToAdd, BothWays, Directed
<1>5. LinesToDrop(from.lines, to.lines) \in SUBSET Lines
  BY DEF LinesToDrop, BothWays, Directed
<1> HIDE DEF Nothing, DropPlane, VRFSettings, LinesToAdd, LinesToDrop
<1>6. QED
  BY <1>1, <1>2, <1>3, <1>4, <1>5 DEF VRFPlan, Plan, Plans

\* Both blocks of a step are plans.
LEMMA PlanTypes ==
  ASSUME NEW s \in ValidSteps, NEW o \in Objects
  PROVE  Forward(s, o) \in Plans /\ Inverse(s, o) \in Plans
<1>1. s \in Steps /\ s.set \in [Settings -> Values \cup {Keep}] /\ s.lines \in SUBSET Lines
  BY DEF ValidSteps, Steps
<1>2. o.lines \in SUBSET Lines /\ o.attr \in [Settings -> Values \cup {Keep}]
  BY DEF Objects
<1>3. Nothing \in [Settings -> Values \cup {Keep}]
  BY DEF Nothing
<1>4. \A b \in BOOLEAN : RoutePlan(s, b) \in Plans
  BY <1>1, <1>3 DEF RoutePlan, Plan, Plans
<1>5. OldSettings(s, o) \in [Settings -> Values \cup {Keep}]
  BY <1>2 DEF OldSettings
<1>6. Plan(FALSE, s.set, {}, {}) \in Plans /\ Plan(FALSE, OldSettings(s, o), {}, {}) \in Plans
  BY <1>1, <1>5 DEF Plan, Plans
<1>7. VRFPlan(s, o, Desired(s)) \in Plans /\ VRFPlan(s, Desired(s), o) \in Plans
  BY <1>1, <1>2, DesiredType, VRFPlanType
<1>8. s.present \in BOOLEAN /\ (~s.present) \in BOOLEAN
  BY <1>1 DEF Steps
<1>9. QED
  BY <1>4, <1>6, <1>7, <1>8 DEF Forward, Inverse

-----------------------------------------------------------------------------
(* Lines: the inverse of any part of a change *)

Kept(lines) == BothWays(lines) \cup Directed(lines)

\* What a device keeps of its lines it keeps again.
LEMMA KeptTwice ==
  ASSUME NEW lines
  PROVE  Kept(Kept(lines)) = Kept(lines)
BY DEF Kept, BothWays, Directed

\* Whatever part of the change from `old` to `new` took effect, the change back
\* restores the old lines, the ones for both directions included.
LEMMA LinesRestored ==
  ASSUME NEW old \in SUBSET Lines, old = Kept(old),
         NEW new, new \subseteq {"import", "export"} \X Targets,
         NEW A \in SUBSET LinesToAdd(old, new), NEW D \in SUBSET LinesToDrop(old, new)
  PROVE  Kept((Kept((old \ D) \cup A) \ LinesToDrop(new, old)) \cup LinesToAdd(new, old)) = old
<1> DEFINE now == Kept((old \ D) \cup A)
<1> DEFINE back == (now \ LinesToDrop(new, old)) \cup LinesToAdd(new, old)
<1>1. /\ BothWays(new) = {} /\ Directed(new) = new
      /\ \A t : <<"both", t>> \notin new
  BY DEF BothWays, Directed
<1>2. Covered(new, old) = {}
  BY <1>1 DEF Covered
<1>3. LinesToAdd(new, old) = (BothWays(old) \ new) \cup (Directed(old) \ new)
  BY <1>1, <1>2 DEF LinesToAdd
<1>4. LinesToDrop(new, old) = new \ Directed(old)
  BY <1>1, <1>2 DEF LinesToDrop
<1>5. LinesToAdd(old, new) = (new \ Covered(old, new)) \ Directed(old)
  BY <1>1 DEF LinesToAdd
<1>6. \A l \in Directed(old) : l \notin Covered(old, new)
  BY DEF Directed, Covered
<1>7. LinesToDrop(old, new) \cap new \cap Directed(old) = {}
  <2>1. LinesToDrop(old, new) =
          (BothWays(old) \ (new \cup Covered(old, new)))
            \cup (Directed(old) \ (new \ Covered(old, new)))
    BY <1>1 DEF LinesToDrop
  <2>2. QED
    BY <2>1, <1>6
<1>8. back \subseteq old
  <2>1. LinesToAdd(new, old) \subseteq old
    BY <1>3 DEF BothWays, Directed
  <2>2. now \subseteq old \cup (new \ Directed(old))
    BY <1>5 DEF Kept, BothWays, Directed
  <2>3. QED
    BY <2>1, <2>2, <1>4
<1>9. old \subseteq back
  <2> SUFFICES ASSUME NEW l \in old, l \notin LinesToAdd(new, old)
               PROVE  l \in now \ LinesToDrop(new, old)
    OBVIOUS
  <2>1. l \in BothWays(old) \cup Directed(old)
    BY DEF Kept
  <2>2. l \notin BothWays(old)
    BY <1>1, <1>3 DEF BothWays
  <2>3. l \in Directed(old) /\ l \in new
    BY <2>1, <2>2, <1>3
  <2>4. l \notin LinesToDrop(new, old)
    BY <2>3, <1>4
  <2>5. l \in (old \ D) \cup A
    BY <2>3, <1>7
  <2>6. <<"both", l[2]>> \notin (old \ D) \cup A
    <3>1. <<"both", l[2]>> \notin old
      BY <2>3 DEF Directed
    <3>2. A \subseteq new
      BY <1>5
    <3>3. QED
      BY <3>1, <3>2, <1>1
  <2>7. l[1] \in {"import", "export"}
    BY <2>3 DEF Directed
  <2>8. l \in now
    BY <2>5, <2>6, <2>7 DEF Kept, Directed
  <2>9. QED
    BY <2>4, <2>8
<1>10. back = old
  BY <1>8, <1>9
<1>11. QED
  BY <1>10

-----------------------------------------------------------------------------
(* The inverse undoes any part of the forward plan *)

\* Objects with the same parts are the same object.
LEMMA ObjectsEqual ==
  ASSUME NEW o \in Objects, NEW x \in Objects,
         o.present = x.present, o.lines = x.lines,
         \A f \in Settings : o.attr[f] = x.attr[f]
  PROVE  o = x
<1>1. o.attr = x.attr
  BY DEF Objects
<1>2. QED
  BY <1>1 DEF Objects

\* Every setting of an object that an SSH interface step wrote goes back.
LEMMA InterfaceRestored ==
  ASSUME NEW s \in ValidSteps, s.kind = "interface",
         NEW o \in Objects, o.present, NEW x \in Effects(s, o, Forward(s, o))
  PROVE  Complete(s, x, Inverse(s, o)) = o
<1> DEFINE p == Plan(FALSE, s.set, {}, {})
<1> DEFINE q == Plan(FALSE, OldSettings(s, o), {}, {})
<1>1. Forward(s, o) = p /\ Inverse(s, o) = q
  BY DEF Forward, Inverse
<1>2. s \in Steps /\ p \in Plans /\ q \in Plans
  BY <1>1, PlanTypes DEF ValidSteps
<1>3. x \in Objects
  BY <1>1, <1>2, EffectsType
<1>4. /\ x.present /\ x.lines = o.lines
      /\ \A f \in Settings : s.set[f] = Keep => x.attr[f] = o.attr[f]
  <2>1. CASE x = o
    BY <2>1
  <2>2. CASE x # o
    <3>1. PICK F \in SUBSET Written(p), A \in SUBSET p.add, D \in SUBSET p.drop :
             x = Outcome(s, o, p, F, A, D)
      <4>1. ~p.remove
        BY DEF Plan
      <4> HIDE DEF p
      <4>2. QED
        BY <2>2, <1>1, <4>1 DEF Effects
    <3>2. A = {} /\ D = {} /\ \A f \in F : s.set[f] # Keep
      BY <3>1 DEF Plan, Written
    <3>3. QED
      BY <3>1, <3>2 DEF Outcome, Settled, Plan
  <2>3. QED
    BY <2>1, <2>2
<1>5. Complete(s, x, q) = Outcome(s, x, q, Written(q), {}, {})
  BY <1>4 DEF Complete, Plan
<1>6. Outcome(s, x, q, Written(q), {}, {}) \in Objects
  BY <1>2, <1>3, OutcomeType DEF Plan
<1>7. \A f \in Settings \ {"state", "description"} : s.set[f] = Keep
  BY DEF ValidSteps, Settings
<1>8. \A f \in Settings : IF f \in Written(q) THEN q.set[f] = o.attr[f] ELSE x.attr[f] = o.attr[f]
  <2> TAKE f \in Settings
  <2>1. o.attr[f] # Keep
    BY ValuesAssumption DEF Objects
  <2>2. CASE f = "state" \/ (f = "description" /\ (s.set[f] # Keep \/ o.attr[f] # Unset))
    BY <2>1, <2>2 DEF Written, Plan, OldSettings
  <2>3. CASE ~(f = "state" \/ (f = "description" /\ (s.set[f] # Keep \/ o.attr[f] # Unset)))
    <3>1. f \notin Written(q)
      BY <2>3 DEF Written, Plan, OldSettings
    <3>2. s.set[f] = Keep
      BY <2>3, <1>7
    <3>3. QED
      BY <3>1, <3>2, <1>4
  <2>4. QED
    BY <2>2, <2>3
<1>9. /\ Outcome(s, x, q, Written(q), {}, {}).present = o.present
      /\ Outcome(s, x, q, Written(q), {}, {}).lines = o.lines
      /\ \A f \in Settings : Outcome(s, x, q, Written(q), {}, {}).attr[f] = o.attr[f]
  BY <1>4, <1>8 DEF Outcome, Settled, Objects
<1>10. QED
  BY <1>1, <1>5, <1>6, <1>9, ObjectsEqual

\* The next hop that was added is the only one removed, and the other way round.
LEMMA RouteRestored ==
  ASSUME NEW s \in ValidSteps, s.kind = "route",
         NEW o \in Objects, o.present, ~Matches(s, o),
         NEW x \in Effects(s, o, Forward(s, o))
  PROVE  Complete(s, x, Inverse(s, o)) = o
<1> DEFINE p == RoutePlan(s, s.present)
<1> DEFINE q == RoutePlan(s, ~s.present)
<1>1. Forward(s, o) = p /\ Inverse(s, o) = q
  BY DEF Forward, Inverse
<1>2. s \in Steps /\ p \in Plans /\ q \in Plans /\ x \in Objects
  BY <1>1, PlanTypes, EffectsType DEF ValidSteps
<1>3. Written(p) = {} /\ Written(q) = {}
  BY DEF Written, RoutePlan, Plan, Nothing
<1>4. ~p.remove /\ ~q.remove
  BY DEF RoutePlan, Plan
<1>5. PICK t \in Targets : s.lines = {<<"next hop", t>>}
  BY DEF ValidSteps
<1>6. s.present <=> <<"next hop", t>> \notin o.lines
  BY <1>5 DEF Matches, RouteMatches
<1>7. /\ x.present /\ x.attr = o.attr
      /\ x.lines \in {o.lines, (o.lines \ p.drop) \cup p.add}
  <2>1. CASE x = o
    BY <2>1
  <2>2. CASE x # o
    <3>1. PICK F \in SUBSET Written(p), A \in SUBSET p.add, D \in SUBSET p.drop :
             x = Outcome(s, o, p, F, A, D)
      BY <2>2, <1>1, <1>4 DEF Effects
    <3>2. x.present /\ x.lines = (o.lines \ D) \cup A
      BY <3>1 DEF Outcome, Settled
    <3>3. \A f \in Settings : x.attr[f] = o.attr[f]
      BY <3>1, <1>3 DEF Outcome, Settled
    <3>4. x.attr = o.attr
      BY <3>3, <1>2 DEF Objects
    <3>5. p.add \in {{}, s.lines} /\ p.drop \in {{}, s.lines} /\ (p.add = {} \/ p.drop = {})
      BY DEF RoutePlan, Plan
    <3>6. (A = {} \/ A = p.add) /\ (D = {} \/ D = p.drop)
      BY <3>5, <1>5
    <3>7. QED
      BY <3>2, <3>4, <3>5, <3>6
  <2>3. QED
    BY <2>1, <2>2
<1>8. (x.lines \ q.drop) \cup q.add = o.lines
  <2>1. CASE s.present
    BY <2>1, <1>5, <1>6, <1>7 DEF RoutePlan, Plan
  <2>2. CASE ~s.present
    BY <2>2, <1>5, <1>6, <1>7 DEF RoutePlan, Plan
  <2>3. QED
    BY <2>1, <2>2
<1>9. Complete(s, x, q) = Outcome(s, x, q, {}, q.add, q.drop)
  BY <1>3, <1>4, <1>7 DEF Complete
<1>10. /\ Outcome(s, x, q, {}, q.add, q.drop).present = o.present
       /\ Outcome(s, x, q, {}, q.add, q.drop).lines = o.lines
       /\ \A f \in Settings : Outcome(s, x, q, {}, q.add, q.drop).attr[f] = o.attr[f]
  BY <1>7, <1>8 DEF Outcome, Settled
<1>11. Outcome(s, x, q, {}, q.add, q.drop) \in Objects
  BY <1>2, <1>3, OutcomeType
<1>12. QED
  BY <1>1, <1>9, <1>10, <1>11, ObjectsEqual

\* What becomes of a VRF's settings and lines when part of a plan takes effect.
VRFResult(r, s, o, p, F, A, D) ==
  /\ r.present = TRUE
  /\ \A f \in Settings \ {"rd"} : r.attr[f] = IF f \in F THEN p.set[f] ELSE o.attr[f]
  /\ IF s.platform = "eos" /\ r.attr["plane"] = Unset
     THEN r.attr["rd"] = Unset /\ r.lines = {}
     ELSE /\ r.attr["rd"] = IF "rd" \in F THEN p.set["rd"] ELSE o.attr["rd"]
          /\ r.lines = Kept((o.lines \ D) \cup A)

\* What part of a plan makes of a VRF, in those terms.
LEMMA VRFOutcome ==
  ASSUME NEW s \in Steps, s.kind = "vrf", NEW o, NEW p, NEW F, NEW A, NEW D
  PROVE  VRFResult(Outcome(s, o, p, F, A, D), s, o, p, F, A, D)
<1> DEFINE r == Outcome(s, o, p, F, A, D)
<1> DEFINE attr == [f \in Settings |-> IF f \in F THEN p.set[f] ELSE o.attr[f]]
<1> DEFINE raw == [present |-> TRUE, attr |-> attr, lines |-> (o.lines \ D) \cup A]
<1>1. r = Settled(s, raw)
  BY DEF Outcome
<1>2. CASE s.platform = "eos" /\ attr["plane"] = Unset
  <2>1. r = [raw EXCEPT !.attr["rd"] = Unset, !.lines = {}]
    BY <1>1, <1>2 DEF Settled
  <2>2. /\ r.present = TRUE /\ r.lines = {} /\ r.attr["rd"] = Unset
        /\ \A f \in Settings \ {"rd"} : r.attr[f] = attr[f]
    BY <2>1 DEF Settings
  <2>3. QED
    BY <2>2, <1>2 DEF Settings, VRFResult
<1>3. CASE ~(s.platform = "eos" /\ attr["plane"] = Unset)
  <2>1. r = [raw EXCEPT !.lines = Kept(raw.lines)]
    BY <1>1, <1>3 DEF Settled, Kept
  <2>2. r.present = TRUE /\ r.lines = Kept((o.lines \ D) \cup A) /\ r.attr = attr
    BY <2>1
  <2>3. QED
    BY <2>2, <1>3 DEF Settings, VRFResult
<1>4. QED
  BY <1>2, <1>3

\* What Shown says of a VRF, in the terms of the lemmas below.
LEMMA ShownVRF ==
  ASSUME NEW s \in Steps, s.kind = "vrf", NEW o, Shown(s, o)
  PROVE  /\ o \in Objects
         /\ o.present \/ o = Absent
         /\ o.lines = Kept(o.lines)
         /\ s.platform = "eos" /\ o.attr["plane"] = Unset => o.attr["rd"] = Unset /\ o.lines = {}
         /\ s.platform # "eos" => o.attr["plane"] = Unset
         /\ o.attr["plane"] # Unset => s.bgp /\ o.attr["plane"] = "bgp"
<1>1. o \in Objects /\ o = Settled(s, o)
  BY DEF Shown
<1>2. CASE s.platform = "eos" /\ o.attr["plane"] = Unset
  <2>1. o = [o EXCEPT !.attr["rd"] = Unset, !.lines = {}]
    BY <1>1, <1>2 DEF Settled
  <2>2. o.attr["rd"] = Unset /\ o.lines = {}
    BY <2>1, <1>1 DEF Objects, Settings
  <2>3. Kept({}) = {}
    BY DEF Kept, BothWays, Directed
  <2>4. QED
    BY <2>2, <2>3, <1>2 DEF Shown
<1>3. CASE ~(s.platform = "eos" /\ o.attr["plane"] = Unset)
  <2>1. o = [o EXCEPT !.lines = Kept(o.lines)]
    BY <1>1, <1>3 DEF Settled, Kept
  <2>2. o.lines = Kept(o.lines)
    BY <2>1, <1>1 DEF Objects
  <2>3. QED
    BY <2>2, <1>1, <1>3 DEF Shown
<1>4. QED
  BY <1>2, <1>3

\* An object to which nothing happened, or part of a plan that removes nothing.
LEMMA PartOfPlan ==
  ASSUME NEW s \in Steps, NEW o \in Objects, o.present, o = Settled(s, o),
         NEW p \in Plans, ~p.remove, NEW x \in Effects(s, o, p)
  PROVE  \E F \in SUBSET Written(p), A \in SUBSET p.add, D \in SUBSET p.drop :
           x = Outcome(s, o, p, F, A, D)
<1>1. CASE x = o
  <2>1. Outcome(s, o, p, {}, {}, {}) = o
    <3>1. [f \in Settings |-> o.attr[f]] = o.attr
      BY DEF Objects
    <3>2. [present |-> TRUE, attr |-> o.attr, lines |-> (o.lines \ {}) \cup {}] = o
      BY DEF Objects
    <3>3. QED
      BY <3>1, <3>2 DEF Outcome
  <2>2. QED
    BY <1>1, <2>1
<1>2. CASE x # o
  BY <1>2 DEF Effects
<1>3. QED
  BY <1>1, <1>2

\* A VRF that was there before: its RD, instance type, BGP VRF and targets.
LEMMA VRFChangeRestored ==
  ASSUME NEW s \in ValidSteps, s.kind = "vrf", s.present,
         s.platform = "eos" => s.bgp,
         NEW o, Shown(s, o), o.present,
         NEW x \in Effects(s, o, Forward(s, o))
  PROVE  Complete(s, x, Inverse(s, o)) = o
<1> DEFINE w == Desired(s)
<1> DEFINE add == LinesToAdd(o.lines, w.lines)
<1> DEFINE drop == LinesToDrop(o.lines, w.lines)
<1> DEFINE p == Plan(FALSE, VRFSettings(s, o, w), add, drop)
<1>1. s \in Steps /\ s.lines \subseteq {"import", "export"} \X Targets /\ s.set["rd"] # Keep
  BY DEF ValidSteps
<1>2. /\ o \in Objects /\ o.lines = Kept(o.lines) /\ o.lines \in SUBSET Lines
      /\ s.platform = "eos" /\ o.attr["plane"] = Unset => o.attr["rd"] = Unset /\ o.lines = {}
      /\ s.platform # "eos" => o.attr["plane"] = Unset
      /\ o.attr["plane"] # Unset => s.bgp /\ o.attr["plane"] = "bgp"
  BY <1>1, ShownVRF DEF Objects
<1>3. /\ w.present /\ w.lines = s.lines /\ w.attr["rd"] = s.set["rd"]
      /\ w.attr["type"] = IF s.platform = "junos" THEN "vrf" ELSE Unset
      /\ w.attr["plane"] = IF s.platform = "eos" THEN "bgp" ELSE Unset
  BY <1>1, DesiredType DEF Desired, Settings
<1>4. Forward(s, o) = p
  <2>1. ~(o.attr["plane"] # Unset /\ w.attr["plane"] = Unset)
    BY <1>2, <1>3, ValuesAssumption
  <2> HIDE DEF w
  <2>2. QED
    BY <2>1, <1>3 DEF Forward, VRFPlan, w
<1>5. p \in Plans /\ Inverse(s, o) \in Plans
  BY <1>2, <1>4, PlanTypes
<1>6. \A f \in Written(p) :
        /\ f \in {"rd", "type"} => o.attr[f] # w.attr[f]
        /\ f = "plane" => s.platform = "eos" /\ p.set[f] = "bgp"
        /\ f \notin {"state", "description"}
  BY DEF Written, Plan, VRFSettings, Settings
<1>7. PICK F \in SUBSET Written(p), A \in SUBSET add, D \in SUBSET drop :
         x = Outcome(s, o, p, F, A, D)
  <2>1. ~p.remove /\ p.add = add /\ p.drop = drop
    BY DEF Plan
  <2>2. o = Settled(s, o)
    BY DEF Shown
  <2> HIDE DEF p, add, drop
  <2>3. QED
    BY <1>1, <1>2, <1>4, <1>5, <2>1, <2>2, PartOfPlan
<1>8. /\ x.present = TRUE
      /\ \A f \in Settings \ {"rd"} : x.attr[f] = IF f \in F THEN p.set[f] ELSE o.attr[f]
      /\ IF s.platform = "eos" /\ x.attr["plane"] = Unset
         THEN x.attr["rd"] = Unset /\ x.lines = {}
         ELSE /\ x.attr["rd"] = IF "rd" \in F THEN p.set["rd"] ELSE o.attr["rd"]
              /\ x.lines = Kept((o.lines \ D) \cup A)
  <2> HIDE DEF p
  <2>1. VRFResult(Outcome(s, o, p, F, A, D), s, o, p, F, A, D)
    BY <1>1, VRFOutcome
  <2>2. QED
    BY <2>1, <1>7 DEF VRFResult
<1>9. /\ x.attr["state"] = o.attr["state"] /\ x.attr["description"] = o.attr["description"]
      /\ o.attr["type"] = w.attr["type"] => x.attr["type"] = o.attr["type"]
  BY <1>6, <1>8 DEF Settings
<1>10. x \in Objects
  BY <1>1, <1>2, <1>4, <1>5, EffectsType
<1>11. CASE s.platform = "eos" /\ o.attr["plane"] = Unset
  <2> DEFINE q == Plan(FALSE, DropPlane, {}, {})
  <2>1. Inverse(s, o) = q
    BY <1>3, <1>11, ValuesAssumption DEF Inverse, VRFPlan
  <2>2. Written(q) = {"plane"} /\ q.set["plane"] = Unset
    BY ValuesAssumption DEF Written, Plan, DropPlane, Nothing, Settings
  <2> DEFINE r == Outcome(s, x, q, {"plane"}, {}, {})
  <2>3. Complete(s, x, q) = r
    BY <2>2, <1>8 DEF Complete, Plan
  <2>4. r.present = TRUE /\ r.attr["plane"] = Unset /\ r.attr["rd"] = Unset /\ r.lines = {}
        /\ \A f \in Settings \ {"rd", "plane"} : r.attr[f] = x.attr[f]
    <3> HIDE DEF q
    <3>1. VRFResult(r, s, x, q, {"plane"}, {}, {})
      BY <1>1, VRFOutcome
    <3> HIDE DEF r
    <3>2. QED
      BY <3>1, <2>2, <1>11 DEF Settings, VRFResult
  <2>5. x.attr["type"] = o.attr["type"]
    BY <1>9, <1>11, <1>3, <1>1 DEF Shown
  <2>6. r \in Objects
    <3>1. q \in Plans /\ {"plane"} \in SUBSET Written(q) /\ {} \in SUBSET q.add /\ {} \in SUBSET q.drop
      BY <1>5, <2>1, <2>2
    <3> HIDE DEF q
    <3>2. QED
      BY <3>1, <1>1, <1>10, OutcomeType
  <2>7. \A f \in Settings : r.attr[f] = o.attr[f]
    <3>1. o.attr["rd"] = Unset
      BY <1>2, <1>11
    <3> HIDE DEF r
    <3>2. QED
      BY <2>4, <2>5, <1>9, <1>11, <3>1 DEF Settings
  <2>8. r.lines = o.lines
    BY <2>4, <1>2, <1>11
  <2> HIDE DEF r
  <2>9. r = o
    BY <2>4, <2>6, <2>7, <2>8, <1>2, ObjectsEqual
  <2>10. QED
    BY <2>1, <2>3, <2>9
<1>12. CASE ~(s.platform = "eos" /\ o.attr["plane"] = Unset)
  <2> DEFINE back == LinesToAdd(w.lines, o.lines)
  <2> DEFINE out == LinesToDrop(w.lines, o.lines)
  <2> DEFINE q == Plan(FALSE, VRFSettings(s, w, o), back, out)
  <2>1. Inverse(s, o) = q
    <3>1. ~(w.attr["plane"] # Unset /\ o.attr["plane"] = Unset)
      BY <1>3, <1>12
    <3> HIDE DEF w
    <3>2. QED
      BY <3>1, <1>3 DEF Inverse, VRFPlan, w
  <2> DEFINE r == Outcome(s, x, q, Written(q), back, out)
  <2>2. Complete(s, x, q) = r
    BY <1>8 DEF Complete, Plan
  <2>3. /\ \A f \in {"rd", "type"} :
              IF w.attr[f] # o.attr[f] THEN f \in Written(q) /\ q.set[f] = o.attr[f]
              ELSE f \notin Written(q)
        /\ "state" \notin Written(q) /\ "description" \notin Written(q)
        /\ "plane" \in Written(q) => q.set["plane"] = "bgp" /\ s.platform = "eos"
    <3>1. \A f \in Settings : o.attr[f] # Keep
      BY <1>2, ValuesAssumption DEF Objects
    <3>2. \A f \in Settings : q.set[f] = VRFSettings(s, w, o)[f]
      BY DEF Plan
    <3> HIDE DEF w, q
    <3>3. QED
      BY <3>1, <3>2 DEF Written, VRFSettings, Settings
  <2>4. x.attr["plane"] = o.attr["plane"]
    BY <1>2, <1>6, <1>8, <1>12 DEF Settings
  <2>5. /\ x.attr["rd"] = IF "rd" \in F THEN p.set["rd"] ELSE o.attr["rd"]
        /\ x.lines = Kept((o.lines \ D) \cup A)
    BY <1>8, <1>12, <2>4
  <2>6. /\ r.present = TRUE
        /\ \A f \in Settings \ {"rd"} : r.attr[f] = IF f \in Written(q) THEN q.set[f] ELSE x.attr[f]
        /\ IF s.platform = "eos" /\ r.attr["plane"] = Unset
           THEN r.attr["rd"] = Unset /\ r.lines = {}
           ELSE /\ r.attr["rd"] = IF "rd" \in Written(q) THEN q.set["rd"] ELSE x.attr["rd"]
                /\ r.lines = Kept((x.lines \ out) \cup back)
    <3> HIDE DEF q, back, out
    <3>1. VRFResult(r, s, x, q, Written(q), back, out)
      BY <1>1, VRFOutcome
    <3> HIDE DEF r
    <3>2. QED
      BY <3>1 DEF VRFResult
  <2>7. r.attr["plane"] = o.attr["plane"]
    <3> HIDE DEF r, q
    <3>1. QED
      BY <2>3, <2>4, <2>6, <1>2, <1>12 DEF Settings
  <2>8. /\ r.attr["rd"] = IF "rd" \in Written(q) THEN q.set["rd"] ELSE x.attr["rd"]
        /\ r.lines = Kept((x.lines \ out) \cup back)
    <3> HIDE DEF r, q, back, out
    <3>1. QED
      BY <2>6, <2>7, <1>12
  <2>9. r.lines = o.lines
    <3>1. w.lines \subseteq {"import", "export"} \X Targets
      BY <1>1, <1>3
    <3>2. A \in SUBSET LinesToAdd(o.lines, w.lines) /\ D \in SUBSET LinesToDrop(o.lines, w.lines)
      BY <1>7
    <3>3. x.lines = Kept((o.lines \ D) \cup A)
      BY <2>5
    <3> HIDE DEF r, q, w, p
    <3>4. o.lines \in SUBSET Lines /\ o.lines = Kept(o.lines)
      BY <1>2
    <3>5. Kept((Kept((o.lines \ D) \cup A) \ out) \cup back) = o.lines
      BY ONLY <3>1, <3>2, <3>4, LinesRestored
    <3>6. QED
      BY <3>3, <3>5, <2>8
  <2>10. \A f \in Settings : r.attr[f] = o.attr[f]
    <3>1. r.attr["rd"] = o.attr["rd"]
      <4>1. w.attr["rd"] = o.attr["rd"] => "rd" \notin F
        BY <1>6
      <4> HIDE DEF r, q, w
      <4>2. QED
        BY <4>1, <2>3, <2>5, <2>8
    <3>2. r.attr["type"] = o.attr["type"]
      <4> HIDE DEF r, q, w
      <4>1. QED
        BY <2>3, <2>6, <1>9 DEF Settings
    <3>3. r.attr["state"] = o.attr["state"] /\ r.attr["description"] = o.attr["description"]
      <4> HIDE DEF r, q, w
      <4>1. QED
        BY <2>3, <2>6, <1>9 DEF Settings
    <3> HIDE DEF r
    <3>4. QED
      BY <3>1, <3>2, <3>3, <2>7 DEF Settings
  <2>11. r \in Objects
    <3>1. q \in Plans /\ q.add = back /\ q.drop = out
      BY <1>5, <2>1 DEF Plan
    <3> HIDE DEF q, back, out
    <3>2. QED
      BY <3>1, <1>1, <1>10, OutcomeType
  <2> HIDE DEF r, q
  <2>12. r = o
    BY <2>6, <2>9, <2>10, <2>11, <1>2, ObjectsEqual
  <2>13. QED
    BY <2>1, <2>2, <2>12
<1>13. QED
  BY <1>11, <1>12

\* A VRF that was not there is taken away.
LEMMA VRFCreationRestored ==
  ASSUME NEW s \in ValidSteps, s.kind = "vrf", s.present,
         NEW o, ~o.present, o = Absent, NEW x
  PROVE  Complete(s, x, Inverse(s, o)) = o
<1>1. Desired(s).present
  BY DesiredType DEF ValidSteps
<1>2. Inverse(s, o).remove
  BY <1>1 DEF Inverse, VRFPlan, Plan
<1>3. QED
  BY <1>2 DEF Complete

\* A deleted VRF comes back with what it had, unless the deletion is lossy.
LEMMA VRFDeletionRestored ==
  ASSUME NEW s \in ValidSteps, s.kind = "vrf", ~s.present,
         NEW o, Shown(s, o), o.present, ~LossyDeletion(s, o),
         NEW x \in Effects(s, o, Forward(s, o))
  PROVE  Complete(s, x, Inverse(s, o)) = o
<1> DEFINE w == Desired(s)
<1> DEFINE p == Forward(s, o)
<1> DEFINE q == Plan(FALSE, VRFSettings(s, w, o), LinesToAdd({}, o.lines), LinesToDrop({}, o.lines))
<1>1. /\ s \in Steps /\ s.platform \in {"eos", "other"}
      /\ s.set["rd"] = Unset /\ s.lines = {}
  BY DEF ValidSteps, Steps, LossyDeletion
<1>2. /\ o \in Objects /\ o.lines = Kept(o.lines) /\ o.lines \in SUBSET Lines
      /\ s.platform = "eos" /\ o.attr["plane"] = Unset => o.attr["rd"] = Unset /\ o.lines = {}
      /\ s.platform # "eos" => o.attr["plane"] = Unset
      /\ o.attr["plane"] # Unset => s.bgp /\ o.attr["plane"] = "bgp"
      /\ \A f \in {"state", "description", "type"} : o.attr[f] = Unset
  BY <1>1, ShownVRF DEF Objects, Shown
<1>3. /\ ~w.present /\ w.lines = {}
      /\ w.attr["rd"] = Unset /\ w.attr["type"] = Unset /\ w.attr["plane"] = Unset
  BY <1>1, DesiredType DEF Desired, Settings
<1>4. /\ p.remove /\ p.add = {} /\ p.drop = {} /\ Written(p) \subseteq {"plane"}
      /\ "plane" \in Written(p) => p.set["plane"] = Unset
  <2>1. p = Plan(TRUE, IF o.attr["plane"] = Unset THEN Nothing ELSE DropPlane, {}, {})
    BY <1>3 DEF Forward, VRFPlan
  <2>2. Written(p) \subseteq {"plane"}
    BY <2>1 DEF Written, Plan, Nothing, DropPlane, Settings
  <2>3. "plane" \in Written(p) => p.set["plane"] = Unset
    BY <2>1 DEF Written, Plan, Nothing, DropPlane, Settings
  <2>4. p.remove /\ p.add = {} /\ p.drop = {}
    BY <2>1 DEF Plan
  <2> HIDE DEF p
  <2>5. QED
    BY <2>2, <2>3, <2>4
<1>5. /\ \A f \in {"state", "description", "type"} : x.attr[f] = Unset
      /\ x.attr["plane"] \in {Unset, o.attr["plane"]}
      /\ x.attr["rd"] \in {Unset, o.attr["rd"]}
      /\ x.lines \subseteq o.lines
  <2>1. CASE x = o
    BY <2>1, <1>2
  <2>2. CASE x = Absent
    BY <2>2 DEF Absent, Settings
  <2>3. CASE \E F \in SUBSET Written(p) : x = Outcome(s, o, p, F, {}, {})
    <3>1. PICK F \in SUBSET Written(p) : x = Outcome(s, o, p, F, {}, {})
      BY <2>3
    <3> HIDE DEF p
    <3>2. VRFResult(Outcome(s, o, p, F, {}, {}), s, o, p, F, {}, {})
      BY <1>1, VRFOutcome
    <3>3. VRFResult(x, s, o, p, F, {}, {})
      BY <3>1, <3>2
    <3>4. (o.lines \ {}) \cup {} = o.lines
      OBVIOUS
    <3>5. QED
      BY <3>3, <3>4, <1>2, <1>4 DEF VRFResult, Settings
  <2>4. QED
    <3> HIDE DEF p
    <3>1. x \in {o, Absent} \/ \E F \in SUBSET Written(p) : x = Outcome(s, o, p, F, {}, {})
      BY <1>4 DEF Effects, p
    <3>2. QED
      BY <3>1, <2>1, <2>2, <2>3 DEF p
<1>6. Inverse(s, o) = q
  BY <1>2, <1>3 DEF Inverse, VRFPlan
<1>7. q \in Plans
  BY <1>2, <1>6, PlanTypes
<1>8. LinesToAdd({}, o.lines) = o.lines /\ LinesToDrop({}, o.lines) = {}
  <2>1. Covered({}, o.lines) = {} /\ BothWays({}) = {} /\ Directed({}) = {}
    BY DEF Covered, BothWays, Directed
  <2>2. QED
    BY <2>1, <1>2 DEF LinesToAdd, LinesToDrop, Kept
<1>9. /\ q.add = o.lines /\ q.drop = {} /\ ~q.remove
      /\ IF s.platform = "eos" /\ s.bgp THEN "plane" \in Written(q) /\ q.set["plane"] = "bgp"
         ELSE "plane" \notin Written(q)
      /\ IF o.attr["rd"] # Unset THEN "rd" \in Written(q) /\ q.set["rd"] = o.attr["rd"]
         ELSE "rd" \notin Written(q)
      /\ \A f \in {"state", "description", "type"} : f \notin Written(q)
      /\ q.set["plane"] # Unset
  <2>1. \A f \in Settings : o.attr[f] # Keep
    BY <1>2, ValuesAssumption DEF Objects
  <2>2. \A f \in Settings : q.set[f] = VRFSettings(s, w, o)[f]
    BY DEF Plan
  <2>3. q.add = o.lines /\ q.drop = {} /\ ~q.remove
    BY <1>8 DEF Plan
  <2> HIDE DEF w, q
  <2>4. QED
    BY <2>1, <2>2, <2>3, <1>2, <1>3, ValuesAssumption DEF Written, VRFSettings, Settings
<1> DEFINE r == Outcome(s, x, q, Written(q), q.add, q.drop)
<1> HIDE DEF q
<1>10. Complete(s, x, q) = r
  BY <1>9 DEF Complete, Creates
<1>11. VRFResult(r, s, x, q, Written(q), q.add, q.drop)
  BY <1>1, VRFOutcome
<1>12. r \in Objects
  <2>1. x \in Objects
    BY <1>1, <1>2, PlanTypes, EffectsType
  <2>2. QED
    BY <2>1, <1>1, <1>7, OutcomeType
<1> HIDE DEF r, p, w
<1>13. \A f \in {"state", "description", "type"} : r.attr[f] = o.attr[f]
  BY <1>2, <1>5, <1>9, <1>11 DEF VRFResult, Settings
<1>14. r.attr["plane"] = o.attr["plane"]
  <2>1. CASE s.platform = "eos" /\ s.bgp
    BY <2>1, <1>2, <1>9, <1>11 DEF VRFResult, Settings, LossyDeletion
  <2>2. CASE ~(s.platform = "eos" /\ s.bgp)
    BY <2>2, <1>2, <1>5, <1>9, <1>11 DEF VRFResult, Settings
  <2>3. QED
    BY <2>1, <2>2
<1>15. r.attr["rd"] = o.attr["rd"]
  BY <1>2, <1>5, <1>9, <1>11, <1>14 DEF VRFResult
<1>16. r.lines = o.lines
  <2>1. (x.lines \ q.drop) \cup q.add = o.lines
    BY <1>5, <1>9
  <2>2. QED
    BY <2>1, <1>2, <1>11, <1>14 DEF VRFResult
<1>17. r = o
  <2>1. \A f \in Settings : r.attr[f] = o.attr[f]
    BY <1>13, <1>14, <1>15 DEF Settings
  <2>2. r.present = o.present
    BY <1>11, <1>2 DEF VRFResult, Objects
  <2>3. QED
    BY <2>1, <2>2, <1>16, <1>2, <1>12, ObjectsEqual
<1>18. QED
  BY <1>6, <1>10, <1>17

\* Whatever part of the forward plan took effect, the whole of the inverse
\* brings the object back: the reason for the inverse plan of every adapter.
LEMMA InverseRestores ==
  ASSUME NEW s \in ValidSteps, NEW o, Shown(s, o), ~Matches(s, o),
         s.kind = "interface" => o.present,
         s.kind = "vrf" /\ s.platform = "eos" /\ s.present => s.bgp,
         ~LossyDeletion(s, o),
         NEW x \in Effects(s, o, Forward(s, o))
  PROVE  Complete(s, x, Inverse(s, o)) = o
<1>1. o \in Objects
  BY DEF Shown
<1>2. CASE s.kind = "interface"
  BY <1>1, <1>2, InterfaceRestored
<1>3. CASE s.kind = "route"
  BY <1>1, <1>3, RouteRestored DEF Shown
<1>4. CASE s.kind = "vrf"
  <2>1. s.present \/ o.present
    <3>1. s \in Steps /\ Desired(s).present = s.present
      BY DesiredType DEF ValidSteps
    <3>2. o.present \in BOOLEAN /\ s.present \in BOOLEAN
      BY <1>1, <3>1 DEF Objects, Steps
    <3>3. Matches(s, o) <=> VRFMatches(s, o)
      BY <1>4 DEF Matches
    <3>4. QED
      BY <3>1, <3>2, <3>3 DEF VRFMatches
  <2>2. CASE s.present /\ o.present
    BY <1>4, <2>2, VRFChangeRestored
  <2>3. CASE s.present /\ ~o.present
    BY <1>4, <2>3, VRFCreationRestored DEF Shown
  <2>4. CASE ~s.present /\ o.present
    BY <1>4, <2>4, VRFDeletionRestored
  <2>5. QED
    BY <2>1, <2>2, <2>3, <2>4
<1>5. QED
  BY <1>2, <1>3, <1>4 DEF ValidSteps, Steps

-----------------------------------------------------------------------------
(* What a write leaves is again an object the device can show *)

\* No plan for a VRF writes what only interfaces have, an instance type where
\* there is none, or a BGP VRF where there is no BGP process.
VRFPlanned(s, p) ==
  /\ p.set["state"] = Keep /\ p.set["description"] = Keep
  /\ s.platform # "junos" => p.set["type"] = Keep
  /\ \/ p.set["plane"] \in {Keep, Unset}
     \/ s.platform = "eos" /\ s.bgp /\ p.set["plane"] = "bgp"

\* Every plan between two VRFs with the same instance type, or on Junos, is so.
LEMMA VRFPlanShape ==
  ASSUME NEW s, NEW from, NEW to,
         s.platform # "junos" => from.attr["type"] = to.attr["type"]
  PROVE  VRFPlanned(s, VRFPlan(s, from, to))
<1>1. \A r, a, d : VRFPlanned(s, Plan(r, Nothing, a, d))
  BY DEF VRFPlanned, Plan, Nothing, Settings
<1>2. \A r, a, d : VRFPlanned(s, Plan(r, DropPlane, a, d))
  BY DEF VRFPlanned, Plan, DropPlane, Nothing, Settings
<1>3. \A r, a, d : VRFPlanned(s, Plan(r, VRFSettings(s, from, to), a, d))
  BY DEF VRFPlanned, Plan, VRFSettings, Settings
<1>4. QED
  BY <1>1, <1>2, <1>3 DEF VRFPlan

\* Both blocks of a VRF step are so.
LEMMA VRFPlansShape ==
  ASSUME NEW s \in ValidSteps, s.kind = "vrf", NEW o, Shown(s, o)
  PROVE  VRFPlanned(s, Forward(s, o)) /\ VRFPlanned(s, Inverse(s, o))
<1>1. s.platform # "junos" => Desired(s).attr["type"] = o.attr["type"]
  BY DesiredType DEF Shown, ValidSteps
<1>2. QED
  BY <1>1, VRFPlanShape DEF Forward, Inverse

\* A device that settled an object shows it as it is.
LEMMA SettledTwice ==
  ASSUME NEW s, NEW present, NEW attr \in [Settings -> Values], NEW lines
  PROVE  LET o == [present |-> present, attr |-> attr, lines |-> lines]
         IN  Settled(s, Settled(s, o)) = Settled(s, o)
<1> DEFINE o == [present |-> present, attr |-> attr, lines |-> lines]
<1>1. CASE s.kind # "vrf"
  BY <1>1 DEF Settled
<1>2. CASE s.kind = "vrf" /\ s.platform = "eos" /\ attr["plane"] = Unset
  <2> DEFINE bare == [present |-> present, attr |-> [attr EXCEPT !["rd"] = Unset], lines |-> {}]
  <2>1. Settled(s, o) = bare
    BY <1>2 DEF Settled
  <2>2. bare.attr["plane"] = Unset
    BY <1>2 DEF Settings
  <2>3. [bare.attr EXCEPT !["rd"] = Unset] = bare.attr
    BY ValuesAssumption DEF Settings
  <2>4. Settled(s, bare) = bare
    BY <1>2, <2>2, <2>3 DEF Settled
  <2>5. QED
    BY <2>1, <2>4
<1>3. CASE s.kind = "vrf" /\ ~(s.platform = "eos" /\ attr["plane"] = Unset)
  <2>1. \A l : Settled(s, [o EXCEPT !.lines = l]) = [o EXCEPT !.lines = Kept(l)]
    BY <1>3 DEF Settled, Kept
  <2>2. Settled(s, o) = [o EXCEPT !.lines = Kept(lines)]
    BY <1>3 DEF Settled, Kept
  <2>3. QED
    BY <2>1, <2>2, KeptTwice
<1>4. QED
  BY <1>1, <1>2, <1>3

\* Nor does it show anything of an object that is not there.
LEMMA AbsentSettled ==
  ASSUME NEW s \in Steps
  PROVE  Settled(s, Absent) = Absent
<1> DEFINE r == Settled(s, Absent)
<1>1. r \in Objects
  BY AbsentType, SettledType
<1>2. /\ Absent.present = FALSE /\ Absent.lines = {}
      /\ \A f \in Settings : Absent.attr[f] = Unset
  BY DEF Absent
<1>3. BothWays({}) \cup Directed({}) = {}
  BY DEF BothWays, Directed
<1>4. Absent \in Objects
  BY AbsentType
<1>5. r.present = FALSE /\ r.lines = {}
  BY <1>2, <1>3, <1>4 DEF Settled, Objects
<1>6. \A f \in Settings : r.attr[f] = Unset
  BY <1>2, <1>4 DEF Settled, Objects, Settings
<1> HIDE DEF r
<1>7. r = Absent
  BY <1>1, <1>2, <1>4, <1>5, <1>6, ObjectsEqual
<1>8. QED
  BY <1>7 DEF r

\* Whatever part of one of the step's blocks takes effect, computed from what
\* was discovered and applied to what the device has by then, the device can
\* show the outcome.
LEMMA ShownAfterWrite ==
  ASSUME NEW s \in ValidSteps, NEW old, Shown(s, old), NEW o, Shown(s, o),
         NEW p \in {Forward(s, old), Inverse(s, old)}, NEW x \in Effects(s, o, p)
  PROVE  Shown(s, x)
<1>1. s \in Steps /\ p \in Plans /\ o \in Objects /\ x \in Objects
  <2>1. s \in Steps /\ p \in Plans /\ o \in Objects
    BY PlanTypes DEF Shown, ValidSteps
  <2>2. QED
    BY <2>1, EffectsType
<1>2. CASE s.kind = "interface"
  BY <1>1, <1>2 DEF Shown
<1>3. CASE s.kind = "route"
  <2>1. ~p.remove
    BY <1>3 DEF Forward, Inverse, RoutePlan, Plan
  <2>2. x.present
    BY <1>3, <2>1 DEF Effects, Shown, Outcome, Settled
  <2>3. QED
    BY <1>1, <1>3, <2>2 DEF Shown
<1>4. CASE s.kind = "vrf"
  <2>1. CASE x = o
    BY <2>1
  <2>2. CASE x = Absent
    <3>1. Absent = Settled(s, Absent)
      BY <1>1, AbsentSettled
    <3>2. \A f \in Settings : Absent.attr[f] = Unset
      BY DEF Absent
    <3>3. QED
      BY <1>1, <1>4, <2>2, <3>1, <3>2 DEF Shown, Settings
  <2>3. CASE \E F \in SUBSET Written(p), A \in SUBSET p.add, D \in SUBSET p.drop :
               x = Outcome(s, o, p, F, A, D)
    <3>1. PICK F \in SUBSET Written(p), A \in SUBSET p.add, D \in SUBSET p.drop :
             x = Outcome(s, o, p, F, A, D)
      BY <2>3
    <3>2. VRFResult(x, s, o, p, F, A, D)
      BY <1>1, <1>4, <3>1, VRFOutcome
    <3>3. VRFPlanned(s, p)
      BY <1>4, VRFPlansShape
    <3>4. x = Settled(s, x)
      <4>1. [f \in Settings |-> IF f \in F THEN p.set[f] ELSE o.attr[f]] \in [Settings -> Values]
        BY <1>1, <3>1 DEF Objects, Plans, Written
      <4>2. QED
        BY <3>1, <4>1, SettledTwice DEF Outcome
    <3>5. x.present
      BY <3>2 DEF VRFResult
    <3>6. x.attr["state"] = Unset /\ x.attr["description"] = Unset
      BY <1>4, <3>2, <3>3 DEF VRFResult, VRFPlanned, Written, Shown, Settings
    <3>7. s.platform # "junos" => x.attr["type"] = Unset
      BY <1>4, <3>2, <3>3 DEF VRFResult, VRFPlanned, Written, Shown, Settings
    <3>8. \/ x.attr["plane"] = Unset
          \/ s.platform = "eos" /\ s.bgp /\ x.attr["plane"] = "bgp"
      BY <1>4, <3>2, <3>3 DEF VRFResult, VRFPlanned, Written, Shown, Settings
    <3>9. QED
      BY <1>1, <1>4, <3>4, <3>5, <3>6, <3>7, <3>8 DEF Shown
  <2>4. QED
    BY <2>1, <2>2, <2>3 DEF Effects
<1>5. QED
  BY <1>1, <1>2, <1>3, <1>4 DEF Steps

-----------------------------------------------------------------------------
(* The inductive invariant *)

\* What the operator leaves is an object the device can show.
LEMMA FoundShown ==
  ASSUME NEW s, NEW o \in Found(s)
  PROVE  Shown(s, o)
BY ScenariosAssumption DEF Found

\* The step is a valid one, about an object the device can show.
Sound == step \in ValidSteps /\ Shown(step, device)

\* From the discovery on, the step knows an object of the device's.
Known ==
  pc \in {"decide", "verify", "recover"} =>
    /\ Shown(step, current) /\ Parses(step, current)
    /\ ~disturbed => used = seen

\* Before the step writes, what it knows is what there is.
Fresh == pc = "decide" /\ ~stale => device = current

\* After it wrote, the step had a reason to, and unless somebody else acted the
\* device holds what part of the forward block made of what was discovered.
Applied ==
  pc \in {"verify", "recover"} =>
    /\ ~Refused /\ ~InSync
    /\ ~disturbed => device \in Effects(step, current, Forward(step, current))

\* SuccessIsTrue and RollbackRestores speak of the end of the step: the other
\* parts carry what they need from the discovery to it.
IInv == TypeOK /\ Sound /\ Known /\ Fresh /\ Applied /\ SuccessIsTrue /\ RollbackRestores

\* It holds at the start.
LEMMA InitIInv == Init => IInv
<1> SUFFICES ASSUME Init PROVE IInv
  OBVIOUS
<1>1. PICK c \in Scenarios : step = c.step /\ device = c.object
  BY DEF Init
<1>2. Sound
  BY <1>1, ScenariosAssumption DEF Sound
<1>3. TypeOK
  <2>1. step \in Steps /\ device \in Objects /\ current \in Objects
    BY <1>2, AbsentType DEF Init, Sound, Shown, ValidSteps
  <2>2. changes \in 0..MaxChanges /\ runs \in 1..MaxRuns
    BY BoundsAssumption DEF Init
  <2>3. QED
    BY <2>1, <2>2 DEF Init, TypeOK
<1>4. QED
  BY <1>2, <1>3 DEF Init, IInv, Known, Fresh, Applied, SuccessIsTrue, RollbackRestores, RolledBack

\* The plans are computed from a valid step and a discovered object.
LEMMA WriteSound ==
  ASSUME Sound, Shown(step, current),
         NEW p \in {Forward(step, current), Inverse(step, current)}, Write(p), step' = step
  PROVE  Sound' /\ device' \in Objects
<1>1. Shown(step, device')
  BY ShownAfterWrite DEF Sound, Write
<1>2. QED
  BY <1>1 DEF Sound, Shown

\* The forward block is applied only after a comparison found a difference.
LEMMA ApplyIInv == IInv /\ Apply => IInv'
<1> SUFFICES ASSUME IInv, Apply PROVE IInv'
  OBVIOUS
<1> USE DEF IInv
<1>1. /\ Shown(step, current) /\ Parses(step, current)
      /\ ~disturbed => used = seen
  BY DEF Apply, Known
<1>2. Write(Forward(step, current)) /\ UNCHANGED <<step, current, disturbed, stale, used, seen, result>>
  BY DEF Apply, history
<1>3. Sound' /\ device' \in Objects
  BY <1>1, <1>2, WriteSound
<1>4. TypeOK'
  BY <1>3 DEF Apply, TypeOK, history
<1>5. Known'
  BY <1>1, <1>2 DEF Known, Parses
<1>6. Fresh'
  BY DEF Fresh, Apply
<1>7. Applied'
  <2>1. ~Refused /\ ~InSync /\ pc = "decide"
    BY DEF Apply
  <2>2. (~Refused)' /\ (~InSync)'
    BY <2>1, <1>2 DEF Refused, InSync
  <2>3. ~disturbed => device = current
    BY <2>1 DEF Fresh, TypeOK
  <2>4. ~disturbed => device' \in Effects(step, current, Forward(step, current))
    BY <2>3, <1>2 DEF Write
  <2>5. QED
    BY <2>2, <2>4, <1>2 DEF Applied
<1>8. result = "pending" /\ result' = "pending"
  BY <1>2 DEF Apply, TypeOK
<1>9. QED
  BY <1>3, <1>4, <1>5, <1>6, <1>7, <1>8 DEF SuccessIsTrue, RollbackRestores, RolledBack

\* The rollback: the one place where InverseRestores is needed.
LEMMA RollBackIInv ==
  ASSUME IInv, NEW r \in {"rolled-back", "rollback-failed"}, RollBack(r)
  PROVE  IInv'
<1> DEFINE inverse == Inverse(step, current)
<1> USE DEF IInv
<1>1. /\ pc = "recover" /\ step.rollback /\ Write(inverse)
      /\ restored' = (device' = Complete(step, device, inverse))
      /\ pc' = "done" /\ result' = r
      /\ UNCHANGED <<step, used, current, seen, disturbed, stale, changes, runs>>
  BY DEF RollBack, End
<1>2. Shown(step, current) /\ Parses(step, current) /\ ~Refused /\ ~InSync
  BY <1>1 DEF Known, Applied
<1>3. Sound' /\ device' \in Objects
  BY <1>1, <1>2, WriteSound
<1>4. TypeOK'
  BY <1>1, <1>3 DEF TypeOK
<1>5. ~disturbed /\ ~LossyDeletion(step, current) => Complete(step, device, inverse) = current
  <2> SUFFICES ASSUME ~disturbed, ~LossyDeletion(step, current)
               PROVE  Complete(step, device, inverse) = current
    OBVIOUS
  <2>1. device \in Effects(step, current, Forward(step, current))
    BY <1>1 DEF Applied
  <2>2. step \in ValidSteps /\ ~Matches(step, current)
    BY <1>2 DEF Sound, InSync
  <2>3. step.kind = "interface" => current.present
    BY <1>1, <1>2, <2>2 DEF Parses, ValidSteps
  <2>4. step.kind = "vrf" /\ step.platform = "eos" /\ step.present => step.bgp
    BY <1>2 DEF Refused
  <2>5. QED
    BY <1>2, <2>1, <2>2, <2>3, <2>4, InverseRestores
<1>6. RollbackRestores'
  BY <1>1, <1>5 DEF RollbackRestores, RolledBack
<1>7. QED
  BY <1>1, <1>3, <1>4, <1>6 DEF Known, Fresh, Applied, SuccessIsTrue

\* Whatever the operator does, the step never takes it for its own.
LEMMA OperatorIInv == IInv /\ Operator => IInv'
<1> SUFFICES ASSUME IInv, Operator PROVE IInv'
  OBVIOUS
<1> USE DEF IInv, Operator, runVars
<1>1. Shown(step, device')
  BY FoundShown
<1>2. Sound' /\ device' \in Objects
  BY <1>1 DEF Sound, Shown
<1>3. TypeOK'
  BY <1>2, BoundsAssumption DEF TypeOK
<1>4. Known' /\ Fresh'
  BY DEF Known, Fresh, Parses
<1>5. Applied'
  BY DEF Applied, Refused, InSync
<1>6. QED
  BY <1>2, <1>3, <1>4, <1>5 DEF SuccessIsTrue, RollbackRestores, RolledBack

\* The steps that write nothing.
LEMMA ReadIInv ==
  ASSUME IInv,
         \/ Discover \/ DiscoverFails \/ Refuse \/ FindInSync \/ Preview
         \/ VerifyMatches \/ VerifyFails \/ Fail \/ Again
  PROVE  IInv'
<1> USE DEF IInv, End, Decide, history
<1>1. CASE Discover
  <2>1. TypeOK' /\ Sound'
    BY <1>1 DEF Discover, TypeOK, Sound
  <2>2. Known' /\ Fresh' /\ Applied'
    BY <1>1 DEF Discover, Known, Fresh, Applied, Sound, Parses
  <2>3. QED
    BY <1>1, <2>1, <2>2 DEF Discover, TypeOK, SuccessIsTrue, RollbackRestores, RolledBack
<1>2. CASE DiscoverFails \/ Refuse \/ Preview \/ Fail
  <2>1. /\ pc # "done" /\ pc' = "done"
        /\ result' \in {"failed", "refused", "would-change"}
        /\ UNCHANGED <<step, device, used, current, seen, disturbed, stale, restored, changes, runs>>
    BY <1>2 DEF DiscoverFails, Refuse, Preview, Fail
  <2>2. TypeOK' /\ Sound'
    BY <2>1 DEF TypeOK, Sound
  <2>3. Known' /\ Fresh' /\ Applied'
    BY <2>1 DEF Known, Fresh, Applied
  <2>4. QED
    BY <2>1, <2>2, <2>3 DEF SuccessIsTrue, RollbackRestores, RolledBack
<1>3. CASE FindInSync
  <2>1. /\ pc = "decide" /\ pc' = "done" /\ result' = "none" /\ Matches(step, current)
        /\ UNCHANGED <<step, device, used, current, seen, disturbed, stale, restored, changes, runs>>
    BY <1>3 DEF FindInSync, InSync
  <2>2. TypeOK' /\ Sound'
    BY <2>1 DEF TypeOK, Sound
  <2>3. Known' /\ Fresh' /\ Applied'
    BY <2>1 DEF Known, Fresh, Applied
  <2>4. SuccessIsTrue'
    BY <2>1 DEF SuccessIsTrue, Fresh
  <2>5. QED
    BY <2>1, <2>2, <2>3, <2>4 DEF RollbackRestores, RolledBack
<1>4. CASE VerifyMatches
  <2>1. /\ pc = "verify" /\ pc' = "done" /\ result' = "changed" /\ Matches(step, device)
        /\ stale' = FALSE
        /\ UNCHANGED <<step, device, used, current, seen, disturbed, restored, changes, runs>>
    BY <1>4 DEF VerifyMatches, Verified
  <2>2. TypeOK' /\ Sound'
    BY <2>1 DEF TypeOK, Sound
  <2>3. Known' /\ Fresh' /\ Applied'
    BY <2>1 DEF Known, Fresh, Applied
  <2>4. QED
    BY <2>1, <2>2, <2>3 DEF SuccessIsTrue, RollbackRestores, RolledBack
<1>5. CASE VerifyFails
  <2>1. /\ pc = "verify" /\ pc' = "recover"
        /\ UNCHANGED <<step, device, used, current, seen, result, disturbed, stale, restored, changes, runs>>
    BY <1>5 DEF VerifyFails
  <2>2. TypeOK' /\ Sound'
    BY <2>1 DEF TypeOK, Sound
  <2>3. Known' /\ Fresh'
    BY <2>1 DEF Known, Fresh, Parses
  <2>4. Applied'
    BY <2>1 DEF Applied, Refused, InSync
  <2>5. QED
    BY <2>1, <2>2, <2>3, <2>4 DEF TypeOK, SuccessIsTrue, RollbackRestores, RolledBack
<1>6. CASE Again
  <2>1. /\ pc' = "discover" /\ result' = "pending" /\ restored' = FALSE
        /\ runs < MaxRuns /\ runs' = runs + 1
        /\ UNCHANGED <<step, device, used, current, seen, disturbed, stale, changes>>
    BY <1>6 DEF Again
  <2>2. runs' \in 1..MaxRuns
    BY <2>1, BoundsAssumption DEF TypeOK
  <2>3. TypeOK'
    BY <2>1, <2>2 DEF TypeOK
  <2>4. Sound'
    BY <2>1 DEF Sound
  <2>5. QED
    BY <2>1, <2>3, <2>4 DEF Known, Fresh, Applied, SuccessIsTrue, RollbackRestores, RolledBack
<1>7. QED
  BY <1>1, <1>2, <1>3, <1>4, <1>5, <1>6

\* Every step preserves the invariant.
LEMMA NextIInv == IInv /\ [Next]_vars => IInv'
<1> SUFFICES ASSUME IInv, [Next]_vars PROVE IInv'
  OBVIOUS
<1>1. CASE UNCHANGED vars
  <2> USE <1>1 DEF vars, runVars, history
  <2>1. TypeOK' /\ Sound' /\ Fresh'
    BY DEF IInv, TypeOK, Sound, Fresh
  <2>2. Known' /\ Applied'
    BY DEF IInv, Known, Applied, Parses, Refused, InSync
  <2>3. SuccessIsTrue' /\ RollbackRestores'
    BY DEF IInv, SuccessIsTrue, RollbackRestores, RolledBack
  <2>4. QED
    BY <2>1, <2>2, <2>3 DEF IInv
<1>2. CASE Apply
  BY <1>2, ApplyIInv
<1>3. CASE RollbackSucceeds \/ RollbackFails
  BY <1>3, RollBackIInv DEF RollbackSucceeds, RollbackFails
<1>4. CASE Operator
  BY <1>4, OperatorIInv
<1>5. CASE \/ Discover \/ DiscoverFails \/ Refuse \/ FindInSync \/ Preview
           \/ VerifyMatches \/ VerifyFails \/ Fail \/ Again
  BY <1>5, ReadIInv
<1>6. QED
  BY <1>1, <1>2, <1>3, <1>4, <1>5 DEF Next, Over

\* In every reachable state.
LEMMA Invariance == Spec => []IInv
<1>1. QED
  BY InitIInv, NextIInv, PTL DEF Spec

-----------------------------------------------------------------------------
(* Theorems *)

\* The step's state has its types, and a result exactly when it is over.
THEOREM StepTypes == Spec => []TypeOK
<1>1. IInv => TypeOK
  BY DEF IInv
<1>2. QED
  BY <1>1, Invariance, PTL

\* A step that reports success tells the truth about the device as it was last
\* read, for every step, device and history of refused lines and interference.
THEOREM SuccessTrue == Spec => []SuccessIsTrue
<1>1. IInv => SuccessIsTrue
  BY DEF IInv
<1>2. QED
  BY <1>1, Invariance, PTL

\* A rollback that the device takes in full brings back what was discovered,
\* whatever part of the forward block had taken effect, unless the step deletes
\* a VRF in one of the ways LossyDeletion lists.
THEOREM RollbackRestored == Spec => []RollbackRestores
<1>1. IInv => RollbackRestores
  BY DEF IInv
<1>2. QED
  BY <1>1, Invariance, PTL

\* A plan that neither adds nor drops other lines of a route leaves them.
LEMMA LinesOutsideKept ==
  ASSUME NEW s, s.kind # "vrf", NEW o, NEW p, ~p.remove, NEW L,
         p.add \subseteq L, p.drop \subseteq L, NEW x \in Effects(s, o, p)
  PROVE  x.lines \ L = o.lines \ L
<1>1. CASE x = o
  BY <1>1
<1>2. CASE x # o
  <2>1. PICK F \in SUBSET Written(p), A \in SUBSET p.add, D \in SUBSET p.drop :
           x = Outcome(s, o, p, F, A, D)
    BY <1>2 DEF Effects
  <2>2. x.lines = (o.lines \ D) \cup A
    BY <2>1 DEF Outcome, Settled
  <2>3. QED
    BY <2>2
<1>3. QED
  BY <1>1, <1>2

\* A setting of an interface that a plan does not write stays.
LEMMA SettingKept ==
  ASSUME NEW s, s.kind = "interface", NEW o, NEW p, ~p.remove,
         "description" \notin Written(p), NEW x \in Effects(s, o, p)
  PROVE  x.attr["description"] = o.attr["description"]
BY DEF Effects, Outcome, Settled, Settings

\* A VRF stays unless a plan removes it.
LEMMA PresenceKept ==
  ASSUME NEW s, NEW o, o.present, NEW p, ~p.remove, NEW x \in Effects(s, o, p)
  PROVE  x.present
<1>1. \A present, attr, lines :
        Settled(s, [present |-> present, attr |-> attr, lines |-> lines]).present = present
  BY DEF Settled
<1>2. \A F, A, D : Outcome(s, o, p, F, A, D).present
  BY <1>1 DEF Outcome
<1>3. QED
  BY <1>2 DEF Effects

\* What the forward block leaves alone.
LEMMA ApplyKeepsOthers == IInv /\ Apply => OthersKept
<1> SUFFICES ASSUME IInv, Apply PROVE OthersKept
  OBVIOUS
<1> DEFINE p == Forward(step, current)
<1>1. /\ pc = "decide" /\ ~Refused
      /\ device' \in Effects(step, device, p)
  BY DEF Apply, Write
<1>2. step.kind = "route" => device'.lines \ step.lines = device.lines \ step.lines
  <2> SUFFICES ASSUME step.kind = "route"
               PROVE  device'.lines \ step.lines = device.lines \ step.lines
    OBVIOUS
  <2>1. ~p.remove /\ p.add \subseteq step.lines /\ p.drop \subseteq step.lines
    BY DEF Forward, RoutePlan, Plan
  <2> HIDE DEF p
  <2>2. QED
    BY <1>1, <2>1, LinesOutsideKept
<1>3. step.kind = "interface" /\ step.set["description"] = Keep
        => device'.attr["description"] = device.attr["description"]
  <2> SUFFICES ASSUME step.kind = "interface", step.set["description"] = Keep
               PROVE  device'.attr["description"] = device.attr["description"]
    OBVIOUS
  <2>1. ~p.remove /\ "description" \notin Written(p)
    BY DEF Forward, Plan, Written
  <2> HIDE DEF p
  <2>2. QED
    BY <1>1, <2>1, SettingKept
<1>4. step.kind = "vrf" /\ used /\ current.present /\ device.present /\ ~disturbed
        => device'.present
  <2> SUFFICES ASSUME step.kind = "vrf", used, current.present, device.present, ~disturbed
               PROVE  device'.present
    OBVIOUS
  <2>1. step.present
    BY <1>1 DEF Refused, IInv, Known
  <2>2. Desired(step).present
    BY <2>1, DesiredType DEF IInv, TypeOK
  <2>3. ~p.remove
    BY <2>2 DEF Forward, VRFPlan, Plan
  <2> HIDE DEF p
  <2>4. QED
    BY <1>1, <2>3, PresenceKept
<1>5. QED
  BY <1>2, <1>3, <1>4 DEF OthersKept

\* What the inverse block leaves alone, or takes back to what was discovered.
LEMMA RollBackKeepsOthers ==
  ASSUME IInv, NEW r, RollBack(r)
  PROVE  OthersKept
<1> DEFINE p == Forward(step, current)
<1> DEFINE q == Inverse(step, current)
<1>1. pc = "recover" /\ device' \in Effects(step, device, q)
  BY DEF RollBack, Write
<1>2. ~disturbed => device \in Effects(step, current, p)
  BY <1>1 DEF IInv, Applied
<1>3. step.kind = "route" => device'.lines \ step.lines = device.lines \ step.lines
  <2> SUFFICES ASSUME step.kind = "route"
               PROVE  device'.lines \ step.lines = device.lines \ step.lines
    OBVIOUS
  <2>1. ~q.remove /\ q.add \subseteq step.lines /\ q.drop \subseteq step.lines
    BY DEF Inverse, RoutePlan, Plan
  <2> HIDE DEF q
  <2>2. QED
    BY <1>1, <2>1, LinesOutsideKept
<1>4. step.kind = "interface" /\ step.set["description"] = Keep /\ ~disturbed
        => device'.attr["description"] = device.attr["description"]
  <2> SUFFICES ASSUME step.kind = "interface", step.set["description"] = Keep, ~disturbed
               PROVE  device'.attr["description"] = device.attr["description"]
    OBVIOUS
  <2>1. ~p.remove /\ "description" \notin Written(p)
    BY DEF Forward, Plan, Written
  <2>2. ~q.remove /\ ("description" \in Written(q)
                        => q.set["description"] = current.attr["description"])
    BY DEF Inverse, Plan, OldSettings, Written, Settings
  <2> HIDE DEF p, q
  <2>3. device.attr["description"] = current.attr["description"]
    BY <1>2, <2>1, SettingKept
  <2>4. CASE "description" \notin Written(q)
    BY <1>1, <2>2, <2>4, SettingKept
  <2>5. CASE "description" \in Written(q)
    BY <1>1, <2>2, <2>3, <2>5 DEF Effects, Outcome, Settled, Settings
  <2>6. QED
    BY <2>4, <2>5
<1>5. step.kind = "vrf" /\ current.present /\ device.present => device'.present
  <2> SUFFICES ASSUME step.kind = "vrf", current.present, device.present
               PROVE  device'.present
    OBVIOUS
  <2>1. ~q.remove
    BY DEF Inverse, VRFPlan, Plan
  <2> HIDE DEF q
  <2>2. QED
    BY <1>1, <2>1, PresenceKept
<1>6. QED
  BY <1>3, <1>4, <1>5 DEF OthersKept

\* No write touches other next hops of a prefix, a description the step was not
\* given, or takes away a VRF that existed and was in use.
THEOREM BystandersSpared == Spec => BystandersUntouched
<1>1. IInv /\ [Next]_vars => [changes' = changes => OthersKept]_vars
  <2> SUFFICES ASSUME IInv, Next, changes' = changes
               PROVE  OthersKept
    OBVIOUS
  <2>1. CASE device' = device
    BY <2>1 DEF OthersKept
  <2>2. CASE Apply
    BY <2>2, ApplyKeepsOthers
  <2>3. CASE RollbackSucceeds \/ RollbackFails
    BY <2>3, RollBackKeepsOthers DEF RollbackSucceeds, RollbackFails
  <2>4. ~Operator
    BY DEF Operator, IInv, TypeOK
  <2>5. device' = device \/ Apply \/ RollbackSucceeds \/ RollbackFails
    BY <2>4 DEF Next, Discover, DiscoverFails, Refuse, FindInSync, Preview, Decide,
                VerifyMatches, VerifyFails, Fail, Again, Over, vars
  <2>6. QED
    BY <2>1, <2>2, <2>3, <2>5
<1>2. QED
  BY <1>1, Invariance, PTL DEF Spec, BystandersUntouched
=============================================================================
