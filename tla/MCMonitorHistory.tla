--------------------------- MODULE MCMonitorHistory ---------------------------
(* An instance of MonitorHistory for TLC: what an earlier run has left, and two   *)
(* runs that share the directory, of which one samples.                          *)
EXTENDS MonitorHistory

MCRuns     == 0..2
MCLeft     == {0}
Ticks1(n)  == [r \in MCRuns |-> IF r = 1 THEN n ELSE 0]

\* Many samples of one run that goes well, or a few of one that fails, is killed or
\* loses power while another prunes.
MCBounds ==
  {[runs |-> {1}, ticks |-> Ticks1(5), days |-> 0, faults |-> 0],
   [runs |-> {1}, ticks |-> Ticks1(3), days |-> 0, faults |-> 1],
   [runs |-> {1, 2}, ticks |-> Ticks1(2), days |-> 2, faults |-> 1]}

Nothing == [healthy |-> TRUE, bgp |-> FALSE, up |-> {}, routes |-> <<>>, hops |-> <<>>,
            rates |-> <<>>, errors |-> <<>>]
Of(x, v) == [y \in {x} |-> v]

\* A peer, a table and an interface as they should be, then all of them worse, a
\* sample of which little could be read, and one that failed.
MCSamples ==
  [good   |-> [healthy |-> TRUE, bgp |-> TRUE, up |-> {"p"}, routes |-> Of("t", 10),
               hops |-> Of("t", {"a"}), rates |-> Of("i", 20), errors |-> Of("i", 0)],
   worse  |-> [healthy |-> TRUE, bgp |-> TRUE, up |-> {}, routes |-> Of("t", 8),
               hops |-> Of("t", {"a", "b"}), rates |-> Of("i", 5), errors |-> Of("i", 1)],
   partly |-> [Nothing EXCEPT !.rates = Of("i", 11), !.errors = Of("i", 2)],
   failed |-> [Nothing EXCEPT !.healthy = FALSE, !.bgp = TRUE, !.routes = Of("t", 1)]]
=============================================================================
