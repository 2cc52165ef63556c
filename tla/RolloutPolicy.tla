--------------------------- MODULE RolloutPolicy ---------------------------
(***************************************************************************)
(* What a fleet run promises its operator (README.md, "Staged and          *)
(* concurrent SSH execution" and "Bounded recurring schedules"), told over *)
(* what the scheduler knows: which entries it has started in the current   *)
(* occurrence and which of their results it has seen.  No counters, no     *)
(* loop, no timers: BatchScheduler is shown to implement this.             *)
(***************************************************************************)
EXTENDS Integers, FiniteSets

CONSTANT Items      \* the entries of the resolved inventory

VARIABLES
  limits,           \* [slots, canaries, threshold, rounds], fixed for a run
  round,            \* the occurrence of the schedule, from 1
  started,          \* entries started in this occurrence
  seen,             \* entries whose result the scheduler has received
  bad,              \* received entries whose result is a failure
  verdict           \* "running", or how the run ended

vars == <<limits, round, started, seen, bad, verdict>>

Canary  == limits.canaries
Running == started \ seen

Limits ==
  [slots : Nat \ {0}, canaries : SUBSET Items, threshold : Nat, rounds : Nat \ {0}]

Init ==
  /\ limits \in Limits
  /\ round = 1
  /\ started = {} /\ seen = {} /\ bad = {}
  /\ verdict = "running"

\* An entry starts in a free slot.  Every canary comes back clean before any
\* other entry starts, and no entry starts once the threshold has been seen.
Start(i) ==
  /\ verdict = "running"
  /\ i \in Items \ started
  /\ Cardinality(Running) < limits.slots
  /\ i \in Canary \/ (Canary \subseteq seen /\ Canary \cap bad = {})
  /\ i \in Canary \/ limits.threshold = 0 \/ Cardinality(bad) < limits.threshold
  /\ started' = started \cup {i}
  /\ UNCHANGED <<limits, round, seen, bad, verdict>>

See(i) ==
  /\ verdict = "running"
  /\ i \in Running
  /\ seen' = seen \cup {i}
  /\ bad' \in {bad, bad \cup {i}}
  /\ UNCHANGED <<limits, round, started, verdict>>

\* A stopped run leaves no entry behind it: what was started has been seen.
Stop ==
  /\ verdict = "running"
  /\ Running = {}
  /\ verdict' = "stopped"
  /\ UNCHANGED <<limits, round, started, seen, bad>>

\* "Complete" may be said only when the last occurrence ran every entry.
Complete ==
  /\ verdict = "running"
  /\ seen = Items
  /\ round = limits.rounds
  /\ verdict' = "complete"
  /\ UNCHANGED <<limits, round, started, seen, bad>>

\* The next occurrence starts over; the previous one ran every entry.
NextRound ==
  /\ verdict = "running"
  /\ seen = Items
  /\ round < limits.rounds
  /\ round' = round + 1
  /\ started' = {} /\ seen' = {} /\ bad' = {}
  /\ UNCHANGED <<limits, verdict>>

Next == (\E i \in Items : Start(i) \/ See(i)) \/ Stop \/ Complete \/ NextRound

Spec == Init /\ [][Next]_vars
=============================================================================
