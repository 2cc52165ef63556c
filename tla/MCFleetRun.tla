----------------------------- MODULE MCFleetRun -----------------------------
(* Instances of FleetRun for TLC. *)
EXTENDS FleetRun, TLC

CONSTANTS h1, h2, h3, d1, d2

MCHosts   == {h1, h2, h3}
MCDomains == {d1, d2}

MCPolicy(max, canary, threshold, paced, count) ==
  [max |-> max, canary |-> canary, threshold |-> threshold, paced |-> paced, count |-> count]

\* Every setting at its boundary at least once: no limit and each limit, a
\* canary batch that is part of the fleet and one that is all of it.
MCPolicies ==
  {MCPolicy(2, 0, 0, FALSE, 0), MCPolicy(2, 0, 1, FALSE, 2), MCPolicy(3, 0, 2, FALSE, 1),
   MCPolicy(2, 1, 1, FALSE, 2), MCPolicy(2, 2, 1, TRUE, 1), MCPolicy(3, 0, 1, TRUE, 1),
   MCPolicy(0, 1, 2, FALSE, 2), MCPolicy(2, 4, 0, TRUE, 2)}

NoDomains == [i \in Items |-> NoDomain]
Distinct  == (1 :> h1) @@ (2 :> h2) @@ (3 :> h3)
Repeated  == (1 :> h1) @@ (2 :> h2) @@ (3 :> h1)
TwoInOne  == (1 :> d1) @@ (2 :> d1) @@ (3 :> d2)

DistinctFleet == [host |-> Distinct, domain |-> NoDomains]
RepeatedFleet == [host |-> Repeated, domain |-> NoDomains]
SerialFleet   == [host |-> Distinct, domain |-> TwoInOne]

\* Everything but a repeated host under serial_by: see SerialRepeatedFleet.
MCFleets == {DistinctFleet, RepeatedFleet, SerialFleet}

\* A repeated host whose entries are in one serial domain, as they are when the
\* host's inventory record names it.
SerialRepeatedFleets ==
  {[host |-> Repeated, domain |-> (1 :> d1) @@ (2 :> d2) @@ (3 :> d1)]}
SerialRepeatedPolicies == {MCPolicy(3, 0, 0, FALSE, 1)}
=============================================================================
