----------------------------- MODULE MCEnsureStep -----------------------------
(***************************************************************************)
(* Instances of EnsureStep for TLC: steps of every kind of resource, on    *)
(* platforms whose plans differ, each with several objects it may find.    *)
(***************************************************************************)
EXTENDS EnsureStep

CONSTANTS t1, t2, unset, keep, oldText, newText, rd1, rd2

MCValues  == {unset, "up", "down", "vrf", "bgp", "other", oldText, newText, rd1, rd2}
MCTargets == {t1, t2}

Object(state, text, rd, type, plane, lines) ==
  [present |-> TRUE, lines |-> lines,
   attr |-> [f \in Settings |->
     CASE f = "state" -> state [] f = "description" -> text [] f = "rd" -> rd
       [] f = "type" -> type [] OTHER -> plane]]

Step(kind, platform, present, state, text, rd, lines, require) ==
  [kind |-> kind, platform |-> platform, present |-> present, lines |-> lines,
   require |-> require, check |-> FALSE, rollback |-> platform # "netconf", bgp |-> TRUE,
   set |-> [f \in Settings |->
     CASE f = "state" -> state [] f = "description" -> text [] f = "rd" -> rd
       [] OTHER -> keep]]

InterfaceStep(platform, text, require) ==
  Step("interface", platform, TRUE, "up", text, keep, {}, require)

Interfaces ==
  {Absent} \cup {Object(s, d, unset, unset, unset, {}) :
                   s \in {"up", "down"}, d \in {unset, oldText}}

RouteStep(present) ==
  Step("route", "other", present, keep, keep, keep, {<<"next hop", t1>>}, "any")

Routes == {Object(unset, unset, unset, unset, unset, l) : l \in SUBSET ({"next hop"} \X MCTargets)}

VRFStep(platform, lines) ==
  Step("vrf", platform, TRUE, keep, keep, rd1, lines, "any")

VRFDeletion(platform) ==
  Step("vrf", platform, FALSE, keep, keep, unset, {}, "any")

In1  == <<"import", t1>>
Out1 == <<"export", t1>>
In2  == <<"import", t2>>

VRFs(type, plane, both) ==
  {Absent} \cup {Object(unset, unset, r, type, plane, l) :
    r \in {unset, rd1, rd2},
    l \in {{}, {In1, Out1}, {In2}} \cup (IF both THEN {{<<"both", t1>>}, {<<"both", t1>>, In2}} ELSE {})}

BareEOS == Object(unset, unset, unset, unset, unset, {})

MCScenarios ==
  [step : {InterfaceStep("other", newText, "any"), InterfaceStep("other", unset, "any"),
           InterfaceStep("other", keep, "down"),
           [InterfaceStep("other", newText, "any") EXCEPT !.rollback = FALSE]}
   , object : Interfaces]
  \cup [step : {InterfaceStep("netconf", newText, "any")},
        object : Interfaces \cup {Object(unset, unset, unset, unset, unset, {})}]
  \cup [step : {RouteStep(TRUE), RouteStep(FALSE), [RouteStep(TRUE) EXCEPT !.check = TRUE]},
        object : Routes]
  \cup [step : {VRFStep("other", {In1}), VRFStep("other", {In1, Out1, In2}), VRFDeletion("other")},
        object : VRFs(unset, unset, TRUE)]
  \cup [step : {VRFStep("eos", {In1}), VRFDeletion("eos"),
                [VRFStep("eos", {In1}) EXCEPT !.bgp = FALSE]},
        object : {Absent, BareEOS}]
  \cup [step : {VRFStep("eos", {In1}), VRFDeletion("eos")}, object : VRFs(unset, "bgp", FALSE)]
  \cup [step : {VRFStep("junos", {In1}), VRFDeletion("junos")},
        object : VRFs("vrf", unset, FALSE) \cup {Object(unset, unset, unset, "other", unset, {})}]
=============================================================================
