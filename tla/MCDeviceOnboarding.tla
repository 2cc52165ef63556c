-------------------------- MODULE MCDeviceOnboarding --------------------------
(* Three listed names of two devices, and one that may be typed: the first *)
(* device's line is stale, shared, a pattern or an authority's, in the     *)
(* user's file or in the global one.                                       *)
EXTENDS DeviceOnboarding

MCDevices == {"r1", "r2"}
MCKeys == {"k1", "k2"}
MCFiles == <<"user", "global">>
MCNames == {"r1", "R1", "r2"}
MCDeviceOf == [n \in MCNames |-> IF n = "r2" THEN "r2" ELSE "r1"]
MCSpecs == <<"r1", "R1">>
MCNetconf == {"R1"}
MCCreds == {"code1", "code2"}

Line(hosts, pattern, marker, key) == [hosts |-> hosts, pattern |-> pattern, marker |-> marker, key |-> key]
Mine == Plain("r1", "k1")
Other == Plain("r2", "k1")
Odd == {Line({"r1", "r2"}, FALSE, "", "k1"), Line({"r1", "r2"}, TRUE, "", "k1"),
        Line({"r1"}, FALSE, "cert-authority", "k1"), Line({"r1"}, FALSE, "revoked", "k2")}

(* the user's file and the global one *)
MCLayouts ==
  {[user |-> <<Mine, Other>>, global |-> <<>>], [user |-> <<Other>>, global |-> <<Mine>>]}
    \cup {[user |-> <<l, Other, Mine>>, global |-> <<>>] : l \in Odd}

(* a device's own second key, somebody else's line *)
MCEditLines == {Plain("r1", "k2"), Other}

Bound1(edits, keys, faults, typed, reauths) ==
  [edits |-> edits, keys |-> keys, faults |-> faults, typed |-> typed, reauths |-> reauths]

MCBounds ==
  {Bound1(1, 0, 1, 0, 0), Bound1(1, 1, 0, 0, 0), Bound1(0, 1, 1, 1, 0), Bound1(0, 0, 1, 0, 1), Bound1(0, 0, 0, 1, 1)}
===============================================================================
