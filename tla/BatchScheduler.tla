--------------------------- MODULE BatchScheduler ---------------------------
(***************************************************************************)
(* The launching goroutine of a run: runRecurringScheduleContext           *)
(* (cmd/network-collector/runner.go) calling Run and runBatch              *)
(* (pkg/orchestrator/scheduler.go).  One occurrence is a canary batch, if  *)
(* any, and then the main batch; a batch launches a goroutine per entry,   *)
(* in inventory order, and receives their outcomes over a channel whose    *)
(* capacity is the batch, so a goroutine never blocks on it.               *)
(*                                                                         *)
(* What a goroutine does is left open here (Finish); FleetRun refines it.  *)
(***************************************************************************)
EXTENDS Integers, FiniteSets

CONSTANTS
  N,          \* entries in the resolved inventory
  Policies    \* the execution and schedule settings considered

Items == 1..N

Policy ==
  [max : Nat,          \* execution.max_parallel
   canary : Nat,       \* execution.canary_count
   threshold : Nat,    \* execution.failure_threshold
   paced : BOOLEAN,    \* execution.start_interval_seconds > 0
   count : Nat]        \* schedule.count

ASSUME NAssumption == N \in Nat
ASSUME PoliciesAssumption == Policies \subseteq Policy

VARIABLES
  policy,     \* the settings of this run; never changes
  occurrence, \* 1..Occurrences
  stage,      \* "begin", a batch ("canary" or "main"), "interval", "done"
  pc,         \* where runBatch is
  next,       \* entries launched in this occurrence
  active,     \* runBatch's active
  failures,   \* runBatch's failures
  status,     \* each entry's goroutine and outcome in this occurrence
  failed,     \* entries whose outcome is Failed
  cooling,    \* time.Until(lastStart.Add(StartInterval)) > 0
  cancelled,  \* runContext.Err() # nil
  stopped,    \* the stopped result
  lateStarts  \* history: entries launched while cancelled holds

runVars   == <<occurrence, stage, stopped>>
batchVars == <<pc, next, active, failures, cooling>>
itemVars  == <<status, failed>>
vars == <<policy, runVars, batchVars, itemVars, cancelled, lateStarts>>

-----------------------------------------------------------------------------
(* Derived from the settings *)

\* Fault: the default of one device at a time is forgotten.
SlotsWithoutDefault == policy.max

Slots       == IF policy.max = 0 THEN 1 ELSE policy.max
Canaries    == IF policy.canary > N THEN N ELSE policy.canary
Occurrences == IF policy.count = 0 THEN 1 ELSE policy.count

FirstStage == IF Canaries > 0 THEN "canary" ELSE "main"
InBatch    == stage \in {"canary", "main"}
BatchEnd   == IF stage = "canary" THEN Canaries ELSE N

\* The canary batch runs with its threshold switched off.
Threshold == IF stage = "canary" THEN 0 ELSE policy.threshold

\* Fault: the comparison is off by one.
ThresholdPassed == Threshold > 0 /\ failures > Threshold

ThresholdReached == Threshold > 0 /\ failures >= Threshold

With(s) == {i \in Items : status[i] = s}
InFlight == With("executing") \cup With("completed")

-----------------------------------------------------------------------------
(* runRecurringScheduleContext *)

Init ==
  /\ policy \in Policies
  /\ occurrence = 1 /\ stage = "begin" /\ stopped = FALSE
  /\ pc = "loop" /\ next = 0 /\ active = 0 /\ failures = 0 /\ cooling = FALSE
  /\ status = [i \in Items |-> "queued"] /\ failed = {}
  /\ cancelled = FALSE /\ lateStarts = 0

\* lastStart and the batch's counters are locals of Run and runBatch.
BeginOccurrence ==
  /\ stage = "begin" /\ ~cancelled
  /\ stage' = FirstStage
  /\ pc' = "loop" /\ next' = 0 /\ active' = 0 /\ failures' = 0 /\ cooling' = FALSE
  /\ UNCHANGED <<policy, occurrence, stopped, itemVars, cancelled, lateStarts>>

\* The context is found cancelled before an occurrence, or during the wait
\* between two of them.
AbandonSchedule ==
  /\ stage \in {"begin", "interval"} /\ cancelled
  /\ stage' = "done" /\ stopped' = TRUE
  /\ UNCHANGED <<policy, occurrence, batchVars, itemVars, cancelled, lateStarts>>

\* The schedule's timer fires; the results so far are in the caller's "all" and
\* the loop head looks at the context again.
NextOccurrence ==
  /\ stage = "interval"
  /\ stage' = "begin" /\ occurrence' = occurrence + 1
  /\ status' = [i \in Items |-> "queued"] /\ failed' = {}
  /\ UNCHANGED <<policy, stopped, batchVars, cancelled, lateStarts>>

-----------------------------------------------------------------------------
(* runBatch: the head of its loop *)

AtHead == InBatch /\ pc = "loop"

MayLaunch == next < BatchEnd /\ ~cancelled /\ ~ThresholdReached

SlotFree == active < Slots

Goto(l) ==
  /\ pc' = l
  /\ UNCHANGED <<policy, runVars, next, active, failures, cooling, itemVars,
                 cancelled, lateStarts>>

ExhaustBatch == AtHead /\ next = BatchEnd /\ Goto("drain")

HaltBatch ==
  /\ AtHead /\ next < BatchEnd
  /\ cancelled \/ ThresholdReached
  /\ stopped' = TRUE /\ pc' = "drain"
  /\ UNCHANGED <<policy, occurrence, stage, next, active, failures, cooling,
                 itemVars, cancelled, lateStarts>>

AwaitSlot     == AtHead /\ MayLaunch /\ ~SlotFree /\ Goto("receive")
AwaitInterval == AtHead /\ MayLaunch /\ SlotFree /\ cooling /\ Goto("pace")
CommitLaunch  == AtHead /\ MayLaunch /\ SlotFree /\ ~cooling /\ Goto("launch")

(* runBatch: receive(), the start-interval select and the launch *)

\* receive() is called for a slot and in the drain, and is one arm of the
\* select.  Outcomes are taken in any order the goroutines could have sent them.
Receive(i) ==
  /\ InBatch /\ pc \in {"receive", "pace", "drain"}
  /\ status[i] = "completed"
  /\ status' = [status EXCEPT ![i] = "received"]
  /\ active' = active - 1
  /\ failures' = IF i \in failed THEN failures + 1 ELSE failures
  /\ pc' = IF pc = "drain" THEN "drain" ELSE "loop"
  /\ UNCHANGED <<policy, runVars, next, failed, cooling, cancelled, lateStarts>>

\* The timer's arm launches at once: nothing is looked at again.
IntervalFires == InBatch /\ pc = "pace" /\ ~cooling /\ Goto("launch")

\* Fault: the select's cancellation arm forgets to say so.
IntervalCancelledQuietly ==
  /\ InBatch /\ pc = "pace" /\ cancelled
  /\ Goto("drain")

IntervalCancelled ==
  /\ InBatch /\ pc = "pace" /\ cancelled
  /\ stopped' = TRUE /\ pc' = "drain"
  /\ UNCHANGED <<policy, occurrence, stage, next, active, failures, cooling,
                 itemVars, cancelled, lateStarts>>

Launch ==
  /\ InBatch /\ pc = "launch"
  /\ status' = [status EXCEPT ![next + 1] = "executing"]
  /\ next' = next + 1 /\ active' = active + 1
  /\ cooling' = policy.paced
  /\ pc' = "loop"
  /\ lateStarts' = IF cancelled THEN lateStarts + 1 ELSE lateStarts
  /\ UNCHANGED <<policy, runVars, failures, failed, cancelled>>

(* The end of a batch, in Run and runRecurringScheduleContext *)

Drained == InBatch /\ pc = "drain" /\ active = 0

CanariesPassed ==
  /\ Drained /\ stage = "canary" /\ ~stopped /\ failures = 0
  /\ stage' = "main" /\ pc' = "loop" /\ failures' = 0
  /\ UNCHANGED <<policy, occurrence, stopped, next, active, cooling, itemVars,
                 cancelled, lateStarts>>

CanariesRejected ==
  /\ Drained /\ stage = "canary" /\ (stopped \/ failures > 0)
  /\ stage' = "done" /\ stopped' = TRUE
  /\ UNCHANGED <<policy, occurrence, batchVars, itemVars, cancelled, lateStarts>>

MainEnds ==
  /\ Drained /\ stage = "main"
  /\ stage' = IF ~stopped /\ occurrence < Occurrences THEN "interval" ELSE "done"
  /\ UNCHANGED <<policy, occurrence, stopped, batchVars, itemVars, cancelled, lateStarts>>

-----------------------------------------------------------------------------
(* The goroutines, the clock and the operator *)

\* execute returned and its outcome was sent.
Finish(i, bad) ==
  /\ status[i] = "executing"
  /\ status' = [status EXCEPT ![i] = "completed"]
  /\ failed' = IF bad THEN failed \cup {i} ELSE failed
  /\ UNCHANGED <<policy, runVars, batchVars, cancelled, lateStarts>>

IntervalElapses ==
  /\ cooling
  /\ cooling' = FALSE
  /\ UNCHANGED <<policy, runVars, pc, next, active, failures, itemVars, cancelled, lateStarts>>

\* SIGINT or SIGTERM.
Interrupt ==
  /\ ~cancelled /\ stage # "done"
  /\ cancelled' = TRUE
  /\ UNCHANGED <<policy, runVars, batchVars, itemVars, lateStarts>>

-----------------------------------------------------------------------------
SchedulerStep ==
  \/ BeginOccurrence \/ AbandonSchedule \/ NextOccurrence
  \/ ExhaustBatch \/ HaltBatch \/ AwaitSlot \/ AwaitInterval \/ CommitLaunch
  \/ \E i \in Items : Receive(i)
  \/ IntervalFires \/ IntervalCancelled \/ Launch
  \/ CanariesPassed \/ CanariesRejected \/ MainEnds

Next ==
  \/ SchedulerStep
  \/ \E i \in Items, bad \in BOOLEAN : Finish(i, bad)
  \/ IntervalElapses
  \/ Interrupt

Spec == Init /\ [][Next]_vars

-----------------------------------------------------------------------------
(* Properties *)

TypeOK ==
  /\ policy \in Policies
  /\ occurrence \in 1..Occurrences
  /\ stage \in {"begin", "canary", "main", "interval", "done"}
  /\ stopped \in BOOLEAN
  /\ pc \in {"loop", "receive", "pace", "launch", "drain"}
  /\ next \in 0..N /\ active \in 0..N /\ failures \in 0..N
  /\ cooling \in BOOLEAN /\ cancelled \in BOOLEAN
  /\ status \in [Items -> {"queued", "executing", "completed", "received"}]
  /\ failed \in SUBSET Items
  /\ lateStarts \in Nat

CanaryItems == 1..Canaries

\* The scheduler's own count is exact and never exceeds max_parallel: an
\* entry occupies its slot until its outcome is received.
ConcurrencyBound ==
  /\ active = Cardinality(InFlight)
  /\ active <= Slots

\* No entry behind the canaries starts until every canary of the occurrence
\* has come back, and none of them failed.
CanaryBarrier ==
  (\E i \in Items \ CanaryItems : status[i] # "queued")
    => \A c \in CanaryItems : status[c] = "received" /\ c \notin failed

\* failure_threshold is compared with the outcomes received, not with those
\* sent, so failing entries in flight escape it; but never more of them than
\* there are slots.  An occurrence damages at most threshold - 1 + slots entries.
FailureBlastRadius ==
  policy.threshold > 0
    => Cardinality(failed \ CanaryItems) <= policy.threshold - 1 + Slots

\* After SIGINT or SIGTERM at most one more entry is launched: the one the
\* loop had already committed to.
InterruptStopsLaunching == lateStarts <= 1

\* The limits a rollout is started with hold together, at every step and
\* whatever the outcomes and the signals: slots, canaries, blast radius and
\* interrupts (scheduler.go, Run and runBatch).
SchedulerLimits ==
  ConcurrencyBound /\ CanaryBarrier /\ FailureBlastRadius /\ InterruptStopsLaunching
=============================================================================
