---------------------------- MODULE MonitorAlerts ----------------------------
(***************************************************************************)
(* The alert engine of a monitored device: what the samples of a run say   *)
(* about its neighbors, routes, next hops and interfaces, and when that    *)
(* becomes an alert.  Observe takes the engine and a sample to the engine  *)
(* after it and the events it raises.                                      *)
(***************************************************************************)
EXTENDS Integers, FiniteSets

CONSTANTS
  Consecutive,    \* consecutive_samples
  Cooldown,       \* cooldown_seconds, in polling intervals
  RouteDrop,      \* route_drop_percent
  TrafficShift,   \* traffic_shift_percent
  TrafficMinimum, \* traffic_minimum_bps
  ErrorDelta      \* interface_error_delta

ASSUME AlertsAssumption ==
  /\ Consecutive \in Nat \ {0} /\ Cooldown \in Nat \ {0}
  /\ RouteDrop \in 1..100 /\ TrafficShift \in Nat \ {0}
  /\ TrafficMinimum \in Nat \ {0} /\ ErrorDelta \in Nat \ {0}

\* A sample: healthy or not, the peers that are up if the BGP table was readable,
\* and what was readable of the counts of routes, the sets of next hops, the rates
\* and the error counters, by table or interface.
Fresh == [neighbors |-> {}, baseline |-> <<>>, nextHops |-> <<>>, counters |-> <<>>,
          states |-> <<>>]

\* f, and g for what f does not say.
Over(f, g) == [x \in DOMAIN f \cup DOMAIN g |-> IF x \in DOMAIN f THEN f[x] ELSE g[x]]

Keyed(rule, f) == {<<rule, x>> : x \in DOMAIN f}
Learn(f, rule, g) == Over(f, [k \in Keyed(rule, g) |-> g[k[2]]])

\* relative: against the first value, or the minimum if that is more.
Dropped(base, n) == base > 0 /\ (base - n) * 100 >= RouteDrop * base
Shifted(base, n) ==
  LET most  == IF base > TrafficMinimum THEN base ELSE TrafficMinimum
      shift == IF n > base THEN n - base ELSE base - n
  IN  shift * 100 >= TrafficShift * most

\* The keys of which the sample says something: the neighbors if the table was
\* readable, and what was there before.
Told(e, s) ==
  {<<"bgp-neighbor-lost", p>> : p \in IF s.bgp THEN e.neighbors \cup s.up ELSE {}}
    \cup ((Keyed("route-count-drop", s.routes) \cup Keyed("traffic-shift", s.rates))
            \cap DOMAIN e.baseline)
    \cup (Keyed("next-hop-change", s.hops) \cap DOMAIN e.nextHops)
    \cup (Keyed("interface-errors", s.errors) \cap DOMAIN e.counters)

\* And what it says.  A counter that went back was cleared, and is no error.
Bad(e, s, k) ==
  CASE k[1] = "bgp-neighbor-lost" -> k[2] \notin s.up
    [] k[1] = "route-count-drop"  -> Dropped(e.baseline[k], s.routes[k[2]])
    [] k[1] = "next-hop-change"   -> e.nextHops[k] # s.hops[k[2]]
    [] k[1] = "traffic-shift"     -> Shifted(e.baseline[k], s.rates[k[2]])
    [] k[1] = "interface-errors"  -> s.errors[k[2]] - e.counters[k] >= ErrorDelta

\* The first values are kept, but for the counters, which are compared one by one.
Learned(e, s) ==
  [e EXCEPT !.neighbors = IF s.bgp THEN @ \cup s.up ELSE @,
            !.baseline = Learn(Learn(@, "route-count-drop", s.routes), "traffic-shift", s.rates),
            !.nextHops = Learn(@, "next-hop-change", s.hops),
            !.counters = Over([k \in Keyed("interface-errors", s.errors) |-> s.errors[k[2]]], @)]

-----------------------------------------------------------------------------
\* alertState; lastSent is so long ago at first that no cooldown is left.
Quiet == [bad |-> 0, good |-> 0, active |-> FALSE, lastSent |-> -Cooldown]

\* Fault: a sample that tells nothing leaves the streaks as they were.
StreakKept(a) == a

StreakBroken(a) == [a EXCEPT !.bad = 0, !.good = 0]

\* A streak counts up to Consecutive, beyond which nothing depends on it.
Longer(n) == IF n < Consecutive THEN n + 1 ELSE n
Counted(a, bad) ==
  [a EXCEPT !.bad = IF bad THEN Longer(@) ELSE 0, !.good = IF bad THEN 0 ELSE Longer(@)]

Fires(a, now)  == a.bad >= Consecutive /\ now - a.lastSent >= Cooldown
Resolves(a)    == a.bad = 0 /\ a.active /\ a.good >= Consecutive
Sent(a, now) ==
  IF Fires(a, now) THEN [a EXCEPT !.active = TRUE, !.lastSent = now]
  ELSE IF Resolves(a) THEN [a EXCEPT !.active = FALSE] ELSE a

\* Observe
Observe(e, s, now) ==
  IF ~s.healthy
  THEN [engine |-> [e EXCEPT !.states = [k \in DOMAIN @ |-> StreakBroken(@[k])]],
        firing |-> {}, resolved |-> {}]
  ELSE LET keys    == Told(e, s)
           before  == [k \in keys |-> Counted(IF k \in DOMAIN e.states THEN e.states[k] ELSE Quiet,
                                              Bad(e, s, k))]
           unheard == [k \in DOMAIN e.states \ keys |-> StreakBroken(e.states[k])]
       IN  [engine   |-> [Learned(e, s) EXCEPT
                            !.states = Over(unheard, [k \in keys |-> Sent(before[k], now)])],
            firing   |-> {k \in keys : Fires(before[k], now)},
            resolved |-> {k \in keys : ~Fires(before[k], now) /\ Resolves(before[k])}]
=============================================================================
