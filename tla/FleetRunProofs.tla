--------------------------- MODULE FleetRunProofs ---------------------------
(***************************************************************************)
(* BatchScheduler, for every inventory size and every set of settings: the *)
(* invariant ties runBatch's counters to the sets they count and records   *)
(* what the loop head checked before a launch.                             *)
(*                                                                         *)
(* FleetRun: its goroutines implement BatchScheduler's, so everything      *)
(* proved there holds here; the run implements RolloutPolicy; the two      *)
(* locks exclude what they should; and the entries of a host take turns,   *)
(* for every inventory.                                                    *)
(***************************************************************************)
EXTENDS FleetRun, FiniteSetTheorems, TLAPS

ReceivedFailures == failed \cap With("received")

\* The counters are the sizes of the sets they stand for.
CountersExact ==
  /\ active = Cardinality(InFlight)
  /\ ~InBatch => active = 0
  /\ InBatch => failures = Cardinality(ReceivedFailures)

\* Entries are launched in inventory order, a batch that was not stopped drains
\* only when all are launched, and only a sent outcome fails.
LaunchOrder ==
  /\ InBatch => next <= BatchEnd
  /\ InBatch => \A i \in Items : status[i] = "queued" <=> i > next
  /\ InBatch /\ pc = "drain" /\ ~stopped => next = BatchEnd
  /\ stage = "begin" => \A i \in Items : status[i] = "queued"
  /\ \A i \in failed : status[i] \in {"completed", "received"}

\* What the loop head found still holds when the launch it led to happens.
LaunchCommitted ==
  InBatch /\ pc \in {"launch", "pace"} =>
    /\ next < BatchEnd
    /\ active < Slots
    /\ ~ThresholdReached
    /\ lateStarts = 0

CanariesClean ==
  stage = "main" => \A c \in CanaryItems : status[c] = "received" /\ c \notin failed

FailuresBounded ==
  stage = "main" /\ policy.threshold > 0
    => failures + active <= policy.threshold - 1 + Slots

\* The schedule waits only for an occurrence that is still to come, and only
\* after one that ran every entry.
ScheduleBounded ==
  stage = "interval" =>
    occurrence < Occurrences /\ \A i \in Items : status[i] = "received"

LateStartsBounded == lateStarts <= 1 /\ (lateStarts > 0 => cancelled)

IInv ==
  /\ TypeOK
  /\ CountersExact
  /\ active <= Slots
  /\ LaunchOrder
  /\ LaunchCommitted
  /\ CanariesClean
  /\ CanaryBarrier
  /\ FailuresBounded
  /\ FailureBlastRadius
  /\ ScheduleBounded
  /\ LateStartsBounded

-----------------------------------------------------------------------------
(* Settings and finite sets *)

LEMMA SettingsType ==
  ASSUME policy \in Policies
  PROVE  /\ policy.threshold \in Nat /\ policy.paced \in BOOLEAN
         /\ Slots \in Nat /\ Slots >= 1
         /\ Canaries \in 0..N
         /\ Occurrences \in Nat /\ Occurrences >= 1
         /\ CanaryItems \subseteq Items
  BY NAssumption, PoliciesAssumption
  DEF Policy, Slots, Canaries, Occurrences, CanaryItems, Items

LEMMA ItemsFinite ==
  \A S : S \subseteq Items => IsFiniteSet(S) /\ Cardinality(S) \in Nat /\ Cardinality(S) <= N
  <1>1. IsFiniteSet(Items) /\ Cardinality(Items) = N
    BY NAssumption, FS_Interval DEF Items
  <1> QED
    BY <1>1, FS_Subset, FS_CardinalityType, NAssumption

LEMMA SubsetSize ==
  ASSUME NEW S, NEW T, T \subseteq Items, S \subseteq T
  PROVE  Cardinality(S) <= Cardinality(T)
  BY ItemsFinite, FS_Subset

LEMMA SizeWith ==
  ASSUME NEW S, S \subseteq Items, NEW x \in Items
  PROVE  /\ x \notin S => Cardinality(S \cup {x}) = Cardinality(S) + 1
         /\ x \in S => Cardinality(S \ {x}) = Cardinality(S) - 1
  BY ItemsFinite, FS_AddElement, FS_RemoveElement

LEMMA CoverSize ==
  ASSUME NEW A, NEW S, NEW T, A \subseteq S \cup T, S \subseteq Items, T \subseteq Items
  PROVE  Cardinality(A) <= Cardinality(S) + Cardinality(T)
  <1>1. /\ IsFiniteSet(S) /\ IsFiniteSet(T)
        /\ Cardinality(S) \in Nat /\ Cardinality(T) \in Nat
    BY ItemsFinite
  <1>2. S \cap T \subseteq Items /\ S \cup T \subseteq Items /\ A \subseteq Items
    OBVIOUS
  <1>3. Cardinality(S \cap T) \in Nat /\ Cardinality(S \cup T) \in Nat /\ Cardinality(A) \in Nat
    BY <1>2, ItemsFinite
  <1>4. Cardinality(S \cup T) = Cardinality(S) + Cardinality(T) - Cardinality(S \cap T)
    BY <1>1, FS_Union, Zenon
  <1>5. Cardinality(A) <= Cardinality(S \cup T)
    BY <1>2, SubsetSize
  <1> QED
    BY <1>1, <1>3, <1>4, <1>5

\* The size of the sets the counters stand for, after a step that changes
\* neither the goroutines nor their outcomes.
LEMMA SetsUnchanged ==
  ASSUME UNCHANGED itemVars
  PROVE  InFlight' = InFlight /\ ReceivedFailures' = ReceivedFailures
  BY DEF itemVars, InFlight, ReceivedFailures, With

-----------------------------------------------------------------------------
(* One step at a time *)

\* The loop's own steps: a new pc, perhaps stopped, and nothing else.
LoopMove ==
  ExhaustBatch \/ HaltBatch \/ AwaitSlot \/ AwaitInterval \/ CommitLaunch
    \/ IntervalFires \/ IntervalCancelled

LEMMA LoopMoveKeepsInvariant ==
  ASSUME IInv, LoopMove
  PROVE  IInv'
  <1>1. /\ InBatch
        /\ UNCHANGED <<policy, occurrence, stage, next, active, failures, cooling,
                       itemVars, cancelled, lateStarts>>
        /\ pc' \in {"drain", "receive", "pace", "launch"} /\ stopped' \in BOOLEAN
        /\ pc' = "drain" /\ ~stopped' => next = BatchEnd
        /\ pc' \in {"pace", "launch"} =>
              \/ MayLaunch /\ SlotFree
              \/ pc = "pace"
    BY DEF LoopMove, ExhaustBatch, HaltBatch, AwaitSlot, AwaitInterval, CommitLaunch,
       IntervalFires, IntervalCancelled, AtHead, Goto, runVars, IInv, TypeOK, InBatch
  <1>2. TypeOK'
    BY <1>1 DEF IInv, TypeOK, itemVars, Occurrences
  <1>3. CountersExact' /\ (active <= Slots)'
    BY <1>1, SetsUnchanged DEF IInv, CountersExact, InBatch, Slots
  <1>4. LaunchOrder' /\ CanariesClean' /\ CanaryBarrier' /\ FailuresBounded'
          /\ FailureBlastRadius' /\ ScheduleBounded' /\ LateStartsBounded'
    BY <1>1 DEF IInv, ScheduleBounded, LaunchOrder, CanariesClean, CanaryBarrier, FailuresBounded,
       FailureBlastRadius, LateStartsBounded, itemVars, InBatch, BatchEnd, Canaries,
       CanaryItems, Slots
  <1>5. LaunchCommitted'
    <2>1. lateStarts = 0 \/ cancelled
      BY DEF IInv, LateStartsBounded, TypeOK
    <2> QED
      BY <1>1, <2>1 DEF IInv, LaunchCommitted, InBatch, BatchEnd, Canaries, Slots,
         ThresholdReached, Threshold, MayLaunch, SlotFree
  <1> QED
    BY <1>2, <1>3, <1>4, <1>5 DEF IInv

LEMMA LaunchKeepsInvariant ==
  ASSUME IInv, Launch
  PROVE  IInv'
  <1> DEFINE e == next + 1
  <1>1. /\ InBatch /\ next < BatchEnd /\ active < Slots /\ ~ThresholdReached
        /\ lateStarts = 0
    BY DEF IInv, LaunchCommitted, Launch
  <1>2. /\ e \in Items /\ status[e] = "queued" /\ BatchEnd \in 0..N
        /\ InBatch' /\ BatchEnd' = BatchEnd /\ Slots' = Slots
    BY <1>1, SettingsType, NAssumption
    DEF IInv, TypeOK, LaunchOrder, BatchEnd, Items, Launch, runVars, InBatch, Canaries, Slots
  <1>3. /\ InFlight' = InFlight \cup {e} /\ e \notin InFlight /\ InFlight \subseteq Items
        /\ ReceivedFailures' = ReceivedFailures
    BY <1>2 DEF Launch, InFlight, With, ReceivedFailures, IInv, TypeOK
  <1>4. CountersExact' /\ (active <= Slots)'
    <2>1. Cardinality(InFlight') = Cardinality(InFlight) + 1
      BY <1>2, <1>3, SizeWith
    <2>2. active' = active + 1 /\ failures' = failures /\ stage' = stage
      BY DEF Launch, runVars
    <2> QED
      BY <1>1, <1>2, <1>3, <2>1, <2>2, SettingsType DEF IInv, CountersExact, InBatch, TypeOK
  <1>5. TypeOK'
    <2>1. Cardinality(InFlight') <= N
      BY <1>2, <1>3, ItemsFinite
    <2>2. active' <= N
      BY <2>1, <1>4 DEF CountersExact
    <2>3. active' \in 0..N /\ next' \in 0..N
      BY <2>2, <1>1, <1>2, NAssumption DEF Launch, IInv, TypeOK
    <2> QED
      BY <1>1, <1>2, <2>3, SettingsType
      DEF Launch, runVars, IInv, TypeOK, Items, Occurrences, Policy
  <1>6. LaunchOrder'
    BY <1>1, <1>2, SettingsType, NAssumption
    DEF IInv, TypeOK, LaunchOrder, Launch, runVars, Items, InBatch, BatchEnd
  <1>7. LaunchCommitted' /\ ScheduleBounded' /\ LateStartsBounded'
    BY <1>1 DEF IInv, LaunchCommitted, ScheduleBounded, LateStartsBounded, Launch, runVars, InBatch
  <1>8. CanariesClean' /\ CanaryBarrier'
    <2>1. stage = "canary" => e \in CanaryItems
      BY <1>1, <1>2, SettingsType DEF BatchEnd, CanaryItems, IInv, TypeOK
    <2>2. stage = "main" => \A c \in CanaryItems : status[c] = "received" /\ c \notin failed /\ c # e
      BY <1>2 DEF IInv, CanariesClean
    <2>3. CanaryItems' = CanaryItems /\ CanaryItems \subseteq Items
      BY SettingsType DEF CanaryItems, Canaries, Launch, IInv, TypeOK
    <2>4. stage' = stage /\ stage \in {"canary", "main"}
      BY <1>1 DEF Launch, runVars, InBatch
    <2>5. \A i \in Items : status'[i] = IF i = e THEN "executing" ELSE status[i]
      BY DEF Launch, IInv, TypeOK
    <2>6. failed' = failed
      BY DEF Launch
    <2>7. CASE stage = "main"
      BY <2>2, <2>3, <2>4, <2>5, <2>6, <2>7 DEF CanariesClean, CanaryBarrier
    <2>8. CASE stage = "canary"
      <3>1. CanaryBarrier
        BY DEF IInv
      <3>2. SUFFICES ASSUME NEW i \in Items \ CanaryItems, status'[i] # "queued"
                     PROVE  FALSE
        BY <2>3, <2>4, <2>8 DEF CanariesClean, CanaryBarrier
      <3>3. i # e /\ status[i] # "queued"
        BY <2>1, <2>5, <2>8, <3>2
      <3>4. i <= next /\ next < Canaries
        BY <1>1, <3>3, <2>8 DEF IInv, LaunchOrder, BatchEnd, Items, TypeOK
      <3> QED
        BY <3>4, <3>2, SettingsType DEF CanaryItems, Items, IInv, TypeOK
    <2> QED
      BY <2>4, <2>7, <2>8
  <1>9. FailuresBounded' /\ FailureBlastRadius'
    <2>1. /\ failures' = failures /\ active' = active + 1 /\ stage' = stage
          /\ policy' = policy /\ failed' = failed /\ CanaryItems' = CanaryItems
      BY DEF Launch, runVars, CanaryItems, Canaries
    <2>2. stage = "main" /\ policy.threshold > 0 => failures <= policy.threshold - 1
      BY <1>1, SettingsType DEF ThresholdReached, Threshold, IInv, TypeOK
    <2>3. failures \in Nat /\ active \in Nat /\ policy.threshold \in Nat /\ Slots \in Nat
      BY SettingsType DEF IInv, TypeOK
    <2> QED
      BY <1>1, <1>2, <2>1, <2>2, <2>3 DEF IInv, FailuresBounded, FailureBlastRadius
  <1> QED
    BY <1>4, <1>5, <1>6, <1>7, <1>8, <1>9 DEF IInv

LEMMA ReceiveKeepsInvariant ==
  ASSUME IInv, NEW i \in Items, Receive(i)
  PROVE  IInv'
  <1>1. /\ InBatch /\ InBatch' /\ status[i] = "completed" /\ i \in InFlight
        /\ InFlight \subseteq Items /\ InFlight' = InFlight \ {i}
        /\ \A j \in Items : status'[j] = IF j = i THEN "received" ELSE status[j]
        /\ UNCHANGED <<policy, occurrence, stage, stopped, next, failed, cooling,
                       cancelled, lateStarts>>
        /\ pc' \in {"loop", "drain"} /\ (pc' = "drain" => pc = "drain")
    BY DEF Receive, runVars, InBatch, InFlight, With, IInv, TypeOK
  <1>2. active \in Nat /\ failures \in Nat /\ active' = active - 1
    BY DEF Receive, IInv, TypeOK
  <1>3. active' = Cardinality(InFlight') /\ (active <= Slots)' /\ active' \in 0..N
    <2>1. Cardinality(InFlight') = Cardinality(InFlight) - 1
      BY <1>1, SizeWith
    <2>2. Cardinality(InFlight') \in Nat /\ Cardinality(InFlight') <= N
      BY <1>1, ItemsFinite
    <2>3. Slots' = Slots /\ Slots \in Nat
      BY <1>1, SettingsType DEF Slots, IInv, TypeOK
    <2> QED
      BY <1>2, <2>1, <2>2, <2>3, NAssumption DEF IInv, CountersExact
  <1>4. /\ failures' = Cardinality(ReceivedFailures') /\ failures' \in 0..N
        /\ failures' \in {failures, failures + 1}
    <2>1. failures = Cardinality(ReceivedFailures) /\ ReceivedFailures \subseteq Items
      BY <1>1 DEF IInv, CountersExact, ReceivedFailures, TypeOK
    <2>2. CASE i \in failed
      <3>1. ReceivedFailures' = ReceivedFailures \cup {i} /\ i \notin ReceivedFailures
        BY <1>1, <2>2 DEF ReceivedFailures, With
      <3>2. Cardinality(ReceivedFailures') = Cardinality(ReceivedFailures) + 1
        BY <2>1, <3>1, SizeWith
      <3>3. Cardinality(ReceivedFailures') \in Nat /\ Cardinality(ReceivedFailures') <= N
        BY <2>1, <3>1, ItemsFinite
      <3> QED
        BY <1>2, <2>1, <2>2, <3>2, <3>3, NAssumption DEF Receive
    <2>3. CASE i \notin failed
      <3>1. ReceivedFailures' = ReceivedFailures
        BY <1>1, <2>3 DEF ReceivedFailures, With
      <3> QED
        BY <2>1, <2>3, <3>1 DEF Receive, IInv, TypeOK
    <2> QED
      BY <2>2, <2>3
  <1>5. TypeOK'
    BY <1>1, <1>3, <1>4 DEF Receive, IInv, TypeOK, Occurrences
  <1>6. LaunchOrder' /\ LaunchCommitted' /\ ScheduleBounded' /\ LateStartsBounded'
    BY <1>1 DEF IInv, TypeOK, LaunchOrder, LaunchCommitted, ScheduleBounded,
       LateStartsBounded, InBatch, BatchEnd, Canaries
  <1>7. CanariesClean' /\ CanaryBarrier'
    <2>1. CanaryItems' = CanaryItems /\ CanaryItems \subseteq Items
      BY <1>1, SettingsType DEF CanaryItems, Canaries, IInv, TypeOK
    <2> QED
      BY <1>1, <2>1 DEF IInv, CanariesClean, CanaryBarrier
  <1>8. FailuresBounded' /\ FailureBlastRadius'
    BY <1>1, <1>2, <1>4, SettingsType
    DEF IInv, TypeOK, FailuresBounded, FailureBlastRadius, CanaryItems, Canaries, Slots
  <1> QED
    BY <1>1, <1>3, <1>4, <1>5, <1>6, <1>7, <1>8 DEF IInv, CountersExact

LEMMA FinishKeepsInvariant ==
  ASSUME IInv, NEW i \in Items, NEW bad \in BOOLEAN, Finish(i, bad)
  PROVE  IInv'
  <1>1. /\ status[i] = "executing"
        /\ \A j \in Items : status'[j] = IF j = i THEN "completed" ELSE status[j]
        /\ failed' \in {failed, failed \cup {i}}
        /\ i \notin failed
        /\ UNCHANGED <<policy, occurrence, stage, stopped, pc, next, active, failures,
                       cooling, cancelled, lateStarts>>
    BY DEF Finish, runVars, batchVars, IInv, TypeOK, LaunchOrder
  <1>2. InFlight' = InFlight /\ ReceivedFailures' = ReceivedFailures
    BY <1>1 DEF InFlight, ReceivedFailures, With, IInv, TypeOK
  <1>3. TypeOK'
    BY <1>1 DEF Finish, IInv, TypeOK, Occurrences
  <1>4. CountersExact' /\ (active <= Slots)'
    BY <1>1, <1>2 DEF IInv, CountersExact, InBatch, Slots
  <1>5. LaunchOrder'
    BY <1>1 DEF IInv, TypeOK, LaunchOrder, InBatch, BatchEnd, Canaries
  <1>6. LaunchCommitted' /\ FailuresBounded' /\ ScheduleBounded' /\ LateStartsBounded'
    BY <1>1 DEF IInv, LaunchCommitted, FailuresBounded, ScheduleBounded, LateStartsBounded,
       InBatch, BatchEnd, Occurrences, Canaries, Slots, ThresholdReached, Threshold
  <1>7. CanariesClean' /\ CanaryBarrier'
    <2>1. CanaryItems' = CanaryItems /\ CanaryItems \subseteq Items
      BY <1>1, SettingsType DEF CanaryItems, Canaries, IInv, TypeOK
    <2> QED
      BY <1>1, <2>1 DEF IInv, CanariesClean, CanaryBarrier
  <1>8. FailureBlastRadius'
    <2> SUFFICES ASSUME policy.threshold > 0
                 PROVE  Cardinality(failed' \ CanaryItems) <= policy.threshold - 1 + Slots
      BY <1>1 DEF FailureBlastRadius, CanaryItems, Canaries, Slots
    <2>1. CASE failed' \ CanaryItems = failed \ CanaryItems
      BY <2>1 DEF IInv, FailureBlastRadius
    <2>2. CASE i \notin CanaryItems
      <3>1. i \in InFlight /\ InFlight \subseteq Items /\ InFlight # {}
        BY <1>1 DEF InFlight, With
      <3>2. active # 0
        BY <3>1, ItemsFinite, FS_EmptySet DEF IInv, CountersExact
      <3>3. stage # "canary"
        BY <1>1, <2>2, SettingsType DEF IInv, LaunchOrder, InBatch, BatchEnd, CanaryItems, Items, TypeOK
      <3>4. stage = "main"
        BY <3>2, <3>3 DEF IInv, CountersExact, InBatch
      <3>5. failed' \ CanaryItems \subseteq ReceivedFailures \cup InFlight
        BY <1>1, <3>1 DEF IInv, TypeOK, LaunchOrder, ReceivedFailures, InFlight, With
      <3>6. Cardinality(failed' \ CanaryItems) <= failures + active
        BY <3>1, <3>4, <3>5, CoverSize DEF IInv, CountersExact, InBatch, ReceivedFailures, TypeOK
      <3>7. Cardinality(failed' \ CanaryItems) \in Nat
        <4>1. failed' \ CanaryItems \subseteq Items
          BY <1>3 DEF TypeOK
        <4> QED BY <4>1, ItemsFinite
      <3> QED
        BY <3>4, <3>6, <3>7, SettingsType DEF IInv, FailuresBounded, TypeOK
    <2> QED
      BY <1>1, <2>1, <2>2
  <1> QED
    BY <1>3, <1>4, <1>5, <1>6, <1>7, <1>8 DEF IInv

\* The steps between batches and occurrences.
StageMove ==
  BeginOccurrence \/ AbandonSchedule \/ NextOccurrence
    \/ CanariesPassed \/ CanariesRejected \/ MainEnds

LEMMA StageMoveKeepsInvariant ==
  ASSUME IInv, StageMove
  PROVE  IInv'
  <1> USE DEF runVars, batchVars, itemVars
  <1>1. InFlight = {} /\ active = 0
    <2>1. active = 0
      BY DEF StageMove, BeginOccurrence, AbandonSchedule, NextOccurrence, CanariesPassed,
         CanariesRejected, MainEnds, Drained, IInv, CountersExact, InBatch
    <2>2. InFlight \subseteq Items
      BY DEF InFlight, With
    <2> QED
      BY <2>1, <2>2, ItemsFinite, FS_EmptySet DEF IInv, CountersExact
  <1>2. /\ UNCHANGED <<policy, cancelled, lateStarts>> /\ active' = 0
        /\ Slots' = Slots /\ CanaryItems' = CanaryItems /\ Canaries' = Canaries
    BY <1>1 DEF StageMove, BeginOccurrence, AbandonSchedule, NextOccurrence, CanariesPassed,
       CanariesRejected, MainEnds, Slots, CanaryItems, Canaries
  <1>3. \/ UNCHANGED itemVars
        \/ NextOccurrence /\ status' = [i \in Items |-> "queued"] /\ failed' = {}
    BY DEF StageMove, BeginOccurrence, AbandonSchedule, NextOccurrence, CanariesPassed,
       CanariesRejected, MainEnds
  <1>4. InFlight' = {}
    BY <1>1, <1>3 DEF InFlight, With
  <1>5. TypeOK'
    <2>1. CASE NextOccurrence
      BY <1>2, <2>1, SettingsType DEF NextOccurrence, IInv, ScheduleBounded, TypeOK, Occurrences
    <2>2. CASE BeginOccurrence
      <3>1. stage' \in {"canary", "main"} /\ pc' = "loop" /\ next' = 0 /\ failures' = 0
              /\ cooling' = FALSE /\ UNCHANGED <<occurrence, stopped, status, failed>>
        BY <2>2 DEF BeginOccurrence, FirstStage
      <3> QED
        <4>1. 0 \in 0..N
          BY NAssumption
        <4> QED
          BY <1>2, <3>1, <4>1 DEF IInv, TypeOK, Occurrences
    <2>3. CASE CanariesPassed
      BY <1>2, <2>3, NAssumption DEF CanariesPassed, IInv, TypeOK, Occurrences
    <2>4. CASE AbandonSchedule \/ CanariesRejected \/ MainEnds
      BY <1>2, <2>4 DEF AbandonSchedule, CanariesRejected, MainEnds, IInv, TypeOK, Occurrences
    <2> QED
      BY <2>1, <2>2, <2>3, <2>4 DEF StageMove
  <1>6. CountersExact' /\ (active <= Slots)'
    <2>1. ASSUME InBatch' PROVE failures' = 0 /\ ReceivedFailures' = {}
      <3>1. CASE BeginOccurrence
        BY <3>1 DEF BeginOccurrence, IInv, LaunchOrder, ReceivedFailures, With
      <3>2. CASE CanariesPassed
        <4>1. failures = 0 /\ ReceivedFailures \subseteq Items /\ failures = Cardinality(ReceivedFailures)
          BY <3>2 DEF CanariesPassed, Drained, IInv, CountersExact, ReceivedFailures, TypeOK
        <4>2. ReceivedFailures = {}
          BY <4>1, ItemsFinite, FS_EmptySet
        <4> QED
          BY <3>2, <4>2 DEF CanariesPassed, ReceivedFailures, With
      <3> QED
        BY <2>1, <3>1, <3>2 DEF StageMove, AbandonSchedule, NextOccurrence, CanariesRejected,
           MainEnds, InBatch
    <2> QED
      BY <1>2, <1>4, <2>1, FS_EmptySet, SettingsType DEF CountersExact, IInv, TypeOK
  <1>7. LaunchOrder'
    <2>1. CASE NextOccurrence
      BY <2>1 DEF NextOccurrence, LaunchOrder, InBatch, IInv
    <2>2. CASE BeginOccurrence
      BY <1>2, <2>2, SettingsType DEF BeginOccurrence, LaunchOrder, InBatch, IInv, TypeOK,
         FirstStage, BatchEnd, Items
    <2>3. CASE CanariesPassed
      BY <1>2, <2>3, SettingsType DEF CanariesPassed, Drained, LaunchOrder, InBatch, IInv,
         TypeOK, BatchEnd
    <2>4. CASE AbandonSchedule \/ CanariesRejected \/ MainEnds
      BY <2>4 DEF AbandonSchedule, CanariesRejected, MainEnds, LaunchOrder, InBatch, IInv
    <2> QED
      BY <2>1, <2>2, <2>3, <2>4 DEF StageMove
  <1>8. LaunchCommitted' /\ ScheduleBounded' /\ LateStartsBounded'
    <2>1. LaunchCommitted' /\ LateStartsBounded'
      BY <1>2 DEF IInv, LateStartsBounded, LaunchCommitted, StageMove, BeginOccurrence,
         AbandonSchedule, NextOccurrence, CanariesPassed, CanariesRejected, MainEnds, InBatch
    <2>2. CASE stage' # "interval"
      BY <2>1, <2>2 DEF ScheduleBounded
    <2>3. CASE MainEnds /\ stage' = "interval"
      <3>1. /\ occurrence' < Occurrences' /\ next = N /\ status' = status
            /\ \A i \in Items : status[i] = "queued" <=> i > next
        BY <2>3 DEF MainEnds, Drained, Occurrences, IInv, LaunchOrder, InBatch, BatchEnd
      <3>2. \A i \in Items : status[i] \notin {"queued", "executing", "completed"}
        BY <1>1, <3>1, NAssumption DEF InFlight, With, Items
      <3> QED
        BY <2>1, <3>1, <3>2 DEF ScheduleBounded, IInv, TypeOK
    <2> QED
      BY <2>1, <2>2, <2>3 DEF StageMove, BeginOccurrence, AbandonSchedule, NextOccurrence,
         CanariesPassed, CanariesRejected, FirstStage
  <1>9. CanaryBarrier'
    BY <1>2, <1>3 DEF IInv, CanaryBarrier
  <1>10. CanariesClean' /\ FailuresBounded'
    <2>1. CASE CanariesPassed
      <3>1. /\ failures = 0 /\ active = 0 /\ stage = "canary" /\ pc = "drain"
            /\ failures' = 0 /\ UNCHANGED itemVars
        BY <2>1 DEF CanariesPassed, Drained
      <3>2. ReceivedFailures = {}
        <4>1. ReceivedFailures \subseteq Items /\ failures = Cardinality(ReceivedFailures)
          BY <3>1 DEF IInv, CountersExact, InBatch, ReceivedFailures, TypeOK
        <4> QED
          BY <3>1, <4>1, ItemsFinite, FS_EmptySet
      <3>3. next = Canaries /\ \A i \in Items : status[i] = "queued" <=> i > next
        BY <2>1, <3>1 DEF CanariesPassed, IInv, LaunchOrder, InBatch, BatchEnd
      <3>4. \A i \in Items : status[i] \notin {"executing", "completed"}
        BY <1>1 DEF InFlight, With
      <3>5. \A c \in CanaryItems : c \in Items /\ status[c] = "received" /\ c \notin failed
        <4> SUFFICES ASSUME NEW c \in CanaryItems
                     PROVE  c \in Items /\ status[c] = "received" /\ c \notin failed
          OBVIOUS
        <4>1. c \in Items /\ status[c] # "queued"
          BY <3>3, SettingsType DEF CanaryItems, IInv, TypeOK
        <4>2. status[c] = "received"
          BY <4>1, <3>4 DEF IInv, TypeOK
        <4> QED
          BY <4>1, <4>2, <3>2 DEF ReceivedFailures, With
      <3> QED
        BY <1>2, <3>1, <3>5, SettingsType DEF CanariesClean, FailuresBounded, IInv, TypeOK
    <2>2. CASE BeginOccurrence /\ stage' = "main"
      BY <2>2, <1>2, SettingsType
      DEF BeginOccurrence, FirstStage, CanariesClean, FailuresBounded, CanaryItems, IInv, TypeOK
    <2>3. CASE stage' # "main"
      BY <2>3 DEF CanariesClean, FailuresBounded
    <2> QED
      BY <2>1, <2>2, <2>3 DEF StageMove, BeginOccurrence, AbandonSchedule, NextOccurrence,
         CanariesRejected, MainEnds
  <1>11. FailureBlastRadius'
    <2>1. CASE UNCHANGED itemVars
      BY <1>2, <2>1 DEF IInv, FailureBlastRadius
    <2>2. CASE failed' = {}
      BY <1>2, <2>2, FS_EmptySet, SettingsType DEF FailureBlastRadius, IInv, TypeOK
    <2> QED
      BY <1>3, <2>1, <2>2
  <1> QED
    BY <1>5, <1>6, <1>7, <1>8, <1>9, <1>10, <1>11 DEF IInv

LEMMA OutsideMoveKeepsInvariant ==
  ASSUME IInv, IntervalElapses \/ Interrupt
  PROVE  IInv'
  <1>1. /\ UNCHANGED <<policy, occurrence, stage, stopped, pc, next, active, failures,
                       itemVars, lateStarts>>
        /\ cooling' \in BOOLEAN /\ cancelled' \in BOOLEAN /\ (cancelled => cancelled')
    BY DEF IntervalElapses, Interrupt, runVars, batchVars, IInv, TypeOK
  <1>2. TypeOK' /\ LateStartsBounded'
    BY <1>1 DEF IInv, TypeOK, LateStartsBounded, itemVars, Occurrences
  <1>3. CountersExact' /\ (active <= Slots)'
    BY <1>1, SetsUnchanged DEF IInv, CountersExact, InBatch, Slots
  <1>4. LaunchOrder' /\ LaunchCommitted' /\ CanariesClean' /\ CanaryBarrier' /\ ScheduleBounded'
    BY <1>1 DEF IInv, ScheduleBounded, Occurrences, LaunchOrder, LaunchCommitted, CanariesClean, CanaryBarrier, itemVars,
       InBatch, BatchEnd, Canaries, CanaryItems, Slots, ThresholdReached, Threshold
  <1>5. FailuresBounded' /\ FailureBlastRadius'
    BY <1>1 DEF IInv, FailuresBounded, FailureBlastRadius, itemVars, Canaries, CanaryItems, Slots
  <1> QED
    BY <1>2, <1>3, <1>4, <1>5 DEF IInv

-----------------------------------------------------------------------------
(* The invariant, and what follows from it *)

LEMMA InitKeepsInvariant ==
  ASSUME Init PROVE IInv
  <1>1. policy \in Policies /\ Slots \in Nat /\ Slots >= 1 /\ Occurrences >= 1
          /\ Occurrences \in Nat /\ policy.threshold \in Nat
    BY SettingsType DEF Init
  <1>2. InFlight = {} /\ failed \ CanaryItems = {}
    BY DEF Init, InFlight, With
  <1>3. TypeOK
    <2>1. 0 \in 0..N /\ 1 \in 1..Occurrences
      BY <1>1, NAssumption
    <2> QED
      BY <1>1, <2>1 DEF Init, TypeOK
  <1>4. CountersExact /\ active <= Slots /\ FailureBlastRadius
    BY <1>1, <1>2, FS_EmptySet DEF Init, CountersExact, InBatch, FailureBlastRadius
  <1>5. LaunchOrder /\ LaunchCommitted /\ CanariesClean /\ CanaryBarrier /\ FailuresBounded
          /\ ScheduleBounded /\ LateStartsBounded
    BY DEF Init, LaunchOrder, LaunchCommitted, CanariesClean, CanaryBarrier, FailuresBounded,
       ScheduleBounded, LateStartsBounded, InBatch
  <1> QED
    BY <1>3, <1>4, <1>5 DEF IInv

LEMMA NextKeepsInvariant ==
  ASSUME IInv, [Next]_vars PROVE IInv'
  <1>1. CASE LoopMove
    BY <1>1, LoopMoveKeepsInvariant
  <1>2. CASE Launch
    BY <1>2, LaunchKeepsInvariant
  <1>3. CASE \E i \in Items : Receive(i)
    BY <1>3, ReceiveKeepsInvariant
  <1>4. CASE \E i \in Items, bad \in BOOLEAN : Finish(i, bad)
    BY <1>4, FinishKeepsInvariant
  <1>5. CASE StageMove
    BY <1>5, StageMoveKeepsInvariant
  <1>6. CASE IntervalElapses \/ Interrupt
    BY <1>6, OutsideMoveKeepsInvariant
  <1>7. CASE UNCHANGED vars
    BY <1>7 DEF vars, runVars, batchVars, itemVars, IInv, TypeOK, CountersExact, LaunchOrder,
       LaunchCommitted, CanariesClean, CanaryBarrier, FailuresBounded, FailureBlastRadius,
       ScheduleBounded, LateStartsBounded, InBatch, BatchEnd, Canaries, CanaryItems, Slots,
       Occurrences, InFlight, ReceivedFailures, With, ThresholdReached, Threshold
  <1> QED
    BY <1>1, <1>2, <1>3, <1>4, <1>5, <1>6, <1>7 DEF Next, SchedulerStep, LoopMove, StageMove

THEOREM SchedulerInvariant == Spec => []IInv
  BY InitKeepsInvariant, NextKeepsInvariant, PTL DEF Spec

\* runBatch's active is exactly the number of entries that hold a slot, and
\* max_parallel bounds it (scheduler.go, runBatch).
THEOREM ConcurrencyIsBounded == Spec => []ConcurrencyBound
  <1>1. IInv => ConcurrencyBound
    BY DEF IInv, CountersExact, ConcurrencyBound
  <1> QED
    BY <1>1, SchedulerInvariant, PTL

\* Nothing behind the canaries starts before all of them came back clean
\* (scheduler.go, Run).
THEOREM CanariesComeFirst == Spec => []CanaryBarrier
  <1>1. IInv => CanaryBarrier
    BY DEF IInv
  <1> QED
    BY <1>1, SchedulerInvariant, PTL

\* However the outcomes arrive, an occurrence has at most threshold - 1 + slots
\* failures behind its canaries (scheduler.go, runBatch).
THEOREM BlastRadiusIsBounded == Spec => []FailureBlastRadius
  <1>1. IInv => FailureBlastRadius
    BY DEF IInv
  <1> QED
    BY <1>1, SchedulerInvariant, PTL

\* A signal lets at most one more entry be launched (scheduler.go, runBatch).
THEOREM InterruptStopsTheLaunches == Spec => []InterruptStopsLaunching
  <1>1. IInv => InterruptStopsLaunching
    BY DEF IInv, LateStartsBounded, InterruptStopsLaunching
  <1> QED
    BY <1>1, SchedulerInvariant, PTL

\* The four together, for every fleet and policy (scheduler.go, Run and runBatch).
THEOREM SchedulerKeepsLimits == Spec => []SchedulerLimits
  BY ConcurrencyIsBounded, CanariesComeFirst, BlastRadiusIsBounded, InterruptStopsTheLaunches,
     PTL DEF SchedulerLimits

-----------------------------------------------------------------------------
(* The goroutines of FleetRun *)

\* The launching goroutine and the clock cannot tell FleetRun's goroutines
\* from BatchScheduler's.
LEMMA FleetStepIsSchedulerStep ==
  [FleetNext]_allVars => [Next]_vars
  BY DEF FleetNext, allVars, Next, SchedulerStep, LoopStep, LaunchEntry, DeviceStep,
     LockDomain, TakeTurn, YieldTurn, Deliver, Returned

THEOREM FleetImplementsScheduler == FleetSpec => Spec
  <1>1. FleetInit => Init
    BY DEF FleetInit
  <1> QED
    BY <1>1, FleetStepIsSchedulerStep, PTL DEF FleetSpec, Spec

\* So BatchScheduler's invariant, and the theorems drawn from it, hold of a run.
LEMMA FleetSchedulerInvariant == FleetSpec => []IInv
  BY FleetImplementsScheduler, SchedulerInvariant, PTL

-----------------------------------------------------------------------------
(* The two locks *)

HoldsDomain(i) == phase[i] \in {"turn", "running", "finished"} /\ Domain(i) # NoDomain

\* An entry past a mutex's Lock() and before its Unlock() is its holder.
LockInv ==
  /\ FleetTypeOK
  /\ \A i \in Items : RunningEntry(i) => stateLock[Host(i)] = i
  /\ \A i \in Items : HoldsDomain(i) => domainLock[Domain(i)] = i
  /\ \A i \in Items : phase[i] # "none" => status[i] = "executing"
  /\ \A i \in Items : phase[i] = "domain" => Domain(i) # NoDomain

LEMMA InventoryType ==
  ASSUME inventory \in Fleets, NEW i \in Items
  PROVE  Host(i) \in Hosts /\ Domain(i) \in Domains \cup {NoDomain}
  BY FleetsAssumption DEF Inventory, Host, Domain

LEMMA LaunchKeepsLocks ==
  ASSUME IInv, LockInv, LaunchEntry, TypeOK'
  PROVE  LockInv'
  <1> DEFINE e == next + 1
  <1>1. e \in Items /\ phase[e] = "none"
    <2>1. e \in Items
      BY SettingsType, NAssumption
      DEF LaunchEntry, Launch, IInv, TypeOK, LaunchCommitted, BatchEnd, Items, InBatch
    <2>2. status[e] = "queued"
      BY <2>1 DEF LaunchEntry, Launch, IInv, TypeOK, LaunchOrder, InBatch
    <2> QED
      BY <2>1, <2>2 DEF LockInv
  <1>2. /\ \A i \in Items : phase'[i] = IF i = e
                                      THEN (IF Domain(e) = NoDomain THEN "turn" ELSE "domain")
                                      ELSE phase[i]
        /\ \A i \in Items : status'[i] = IF i = e THEN "executing" ELSE status[i]
        /\ UNCHANGED <<inventory, domainLock, stateLock, turn>>
    BY DEF LaunchEntry, Launch, LockInv, FleetTypeOK, TypeOK
  <1>3. FleetTypeOK'
    BY <1>1, <1>2 DEF LaunchEntry, LockInv, FleetTypeOK
  <1> QED
    BY <1>1, <1>2, <1>3 DEF LockInv, RunningEntry, HoldsDomain, Host, Domain

LEMMA DeviceStepKeepsLocks ==
  ASSUME LockInv, NEW k \in Items, DeviceStep(k), TypeOK'
  PROVE  LockInv'
  <1>1. /\ \A i \in Items : Host(i) \in Hosts /\ Domain(i) \in Domains \cup {NoDomain}
        /\ \A i \in Items : i # Nobody
    BY InventoryType, NAssumption DEF LockInv, FleetTypeOK, Nobody, Items
  <1>2. ASSUME inventory' = inventory
        PROVE  \A i \in Items : Host(i)' = Host(i) /\ Domain(i)' = Domain(i)
    BY <1>2 DEF Host, Domain
  <1>3. CASE LockDomain(k)
    <2>1. /\ phase[k] = "domain" /\ Domain(k) \in Domains /\ domainLock[Domain(k)] = Nobody
          /\ UNCHANGED <<status, inventory, stateLock, turn>>
          /\ phase' = [phase EXCEPT ![k] = "turn"]
          /\ domainLock' = [domainLock EXCEPT ![Domain(k)] = k]
      BY <1>1, <1>3 DEF LockDomain, LockInv, vars, itemVars
    <2>2. FleetTypeOK'
      BY <2>1 DEF LockInv, FleetTypeOK
    <2>3. \A i \in Items : HoldsDomain(i)' => domainLock'[Domain(i)'] = i
      BY <1>1, <1>2, <2>1 DEF LockInv, FleetTypeOK, HoldsDomain
    <2> QED
      BY <1>2, <2>1, <2>2, <2>3 DEF LockInv, FleetTypeOK, RunningEntry
  <1>4. CASE TakeTurn(k)
    <2>1. /\ phase[k] = "turn" /\ stateLock[Host(k)] = Nobody
          /\ UNCHANGED <<status, inventory, domainLock, turn>>
          /\ phase' = [phase EXCEPT ![k] = "running"]
          /\ stateLock' = [stateLock EXCEPT ![Host(k)] = k]
      BY <1>4 DEF TakeTurn, vars, itemVars
    <2>2. FleetTypeOK'
      BY <1>1, <2>1 DEF LockInv, FleetTypeOK
    <2>3. \A i \in Items : RunningEntry(i)' => stateLock'[Host(i)'] = i
      BY <1>1, <1>2, <2>1 DEF LockInv, FleetTypeOK, RunningEntry
    <2>4. \A i \in Items : HoldsDomain(i)' => domainLock'[Domain(i)'] = i
      BY <1>2, <2>1 DEF LockInv, FleetTypeOK, HoldsDomain
    <2> QED
      BY <1>2, <2>1, <2>2, <2>3, <2>4 DEF LockInv, FleetTypeOK
  <1>5. CASE YieldTurn(k)
    <2>1. /\ phase[k] = "running"
          /\ UNCHANGED <<status, inventory, domainLock>>
          /\ phase' = [phase EXCEPT ![k] = "finished"]
          /\ stateLock' = [stateLock EXCEPT ![Host(k)] = Nobody]
          /\ turn' = [turn EXCEPT ![Host(k)] = @ + 1]
      BY <1>5 DEF YieldTurn, vars, itemVars
    <2>2. FleetTypeOK'
      <3>1. turn' \in [Hosts -> Nat]
        BY <1>1, <2>1 DEF LockInv, FleetTypeOK
      <3> QED
        BY <1>1, <2>1, <3>1 DEF LockInv, FleetTypeOK
    <2>3. \A i \in Items : RunningEntry(i)' => stateLock'[Host(i)'] = i
      BY <1>1, <1>2, <2>1 DEF LockInv, FleetTypeOK, RunningEntry
    <2>4. \A i \in Items : HoldsDomain(i)' => domainLock'[Domain(i)'] = i
      BY <1>2, <2>1 DEF LockInv, FleetTypeOK, HoldsDomain
    <2> QED
      BY <1>2, <2>1, <2>2, <2>3, <2>4 DEF LockInv, FleetTypeOK
  <1>6. CASE \E bad \in BOOLEAN : Deliver(k, bad)
    <2>1. /\ phase[k] = "finished"
          /\ status' = [status EXCEPT ![k] = "completed"]
          /\ UNCHANGED <<inventory, stateLock, turn>>
          /\ phase' = [phase EXCEPT ![k] = "none"]
          /\ domainLock' = [d \in Domains |-> IF d = Domain(k) THEN Nobody ELSE domainLock[d]]
      BY <1>6 DEF Deliver, Finish
    <2>2. FleetTypeOK'
      BY <1>1, <2>1 DEF LockInv, FleetTypeOK
    <2>3. \A i \in Items : RunningEntry(i)' => stateLock'[Host(i)'] = i
      BY <1>2, <2>1 DEF LockInv, FleetTypeOK, RunningEntry
    <2>4. \A i \in Items : HoldsDomain(i)' => domainLock'[Domain(i)'] = i
      BY <1>1, <1>2, <2>1 DEF LockInv, FleetTypeOK, HoldsDomain
    <2> QED
      BY <1>2, <2>1, <2>2, <2>3, <2>4 DEF LockInv, FleetTypeOK, TypeOK
  <1> QED
    BY <1>3, <1>4, <1>5, <1>6 DEF DeviceStep

LEMMA OtherStepKeepsLocks ==
  ASSUME IInv, LockInv, LoopStep \/ (Interrupt /\ UNCHANGED fleetVars) \/ UNCHANGED allVars, TypeOK'
  PROVE  LockInv'
  <1>1. UNCHANGED fleetVars
    BY DEF LoopStep, allVars
  <1>2. FleetTypeOK'
    BY <1>1 DEF LockInv, FleetTypeOK, fleetVars
  <1>3. \A i \in Items : phase[i] # "none" => status'[i] = "executing"
    <2>1. CASE \E i \in Items : Receive(i)
      BY <2>1 DEF Receive, LockInv, IInv, TypeOK
    <2>2. CASE NextOccurrence
      BY <2>2 DEF NextOccurrence, LockInv, IInv, ScheduleBounded
    <2>3. CASE UNCHANGED status
      BY <2>3 DEF LockInv
    <2> QED
      BY <2>1, <2>2, <2>3
      DEF LoopStep, BeginOccurrence, AbandonSchedule, ExhaustBatch, HaltBatch, AwaitSlot,
          AwaitInterval, CommitLaunch, IntervalFires, IntervalCancelled, CanariesPassed,
          CanariesRejected, MainEnds, IntervalElapses, Interrupt, Goto, itemVars, allVars, vars
  <1> QED
    BY <1>1, <1>2, <1>3 DEF LockInv, fleetVars, RunningEntry, HoldsDomain, Host, Domain

LEMMA FleetLockInvariant == FleetSpec => []LockInv
  <1>1. FleetInit => LockInv
    <2> SUFFICES ASSUME FleetInit PROVE LockInv
      OBVIOUS
    <2>1. TypeOK
      BY InitKeepsInvariant DEF FleetInit, IInv
    <2> QED
      BY <2>1 DEF FleetInit, LockInv, FleetTypeOK, RunningEntry, HoldsDomain
  <1>2. IInv /\ IInv' /\ LockInv /\ [FleetNext]_allVars => LockInv'
    <2> SUFFICES ASSUME IInv, TypeOK', LockInv, [FleetNext]_allVars
                 PROVE  LockInv'
      BY DEF IInv
    <2>1. CASE LaunchEntry
      BY <2>1, LaunchKeepsLocks
    <2>2. CASE \E i \in Items : DeviceStep(i)
      BY <2>2, DeviceStepKeepsLocks
    <2>3. CASE LoopStep \/ (Interrupt /\ UNCHANGED fleetVars) \/ UNCHANGED allVars
      BY <2>3, OtherStepKeepsLocks
    <2>4. LaunchEntry \/ (\E i \in Items : DeviceStep(i))
            \/ (LoopStep \/ (Interrupt /\ UNCHANGED fleetVars) \/ UNCHANGED allVars)
      BY Zenon DEF FleetNext, Returned
    <2> QED
      BY <2>1, <2>2, <2>3, <2>4
  <1> QED
    BY <1>1, <1>2, FleetSchedulerInvariant, PTL DEF FleetSpec

\* Every variable of a run keeps its type.
THEOREM FleetTypes == FleetSpec => []FleetTypeOK
  <1>1. LockInv => FleetTypeOK
    BY DEF LockInv
  <1> QED
    BY <1>1, FleetLockInvariant, PTL

\* At most one active device of a serial domain (runner.go, serialLockFor) and
\* at most one active entry of a host (main.go, the runner closure).
THEOREM ActiveEntriesExclude == FleetSpec => []ActiveExclusion
  <1>1. LockInv => ActiveExclusion
    BY DEF LockInv, ActiveExclusion, RunningEntry, HoldsDomain
  <1> QED
    BY <1>1, FleetLockInvariant, PTL

\* The scheduler's bounds hold whatever the goroutines do with their locks.
THEOREM FleetIsBounded == FleetSpec => []SchedulerLimits
  BY FleetImplementsScheduler, SchedulerKeepsLimits, PTL

-----------------------------------------------------------------------------
(* The order of the entries of a host *)

\* The entry has had its turn in this occurrence.
Through(i) == status[i] \in {"completed", "received"} \/ phase[i] = "finished"

ThroughOf(h) == {i \in EntriesOf(h) : Through(i)}

\* A host's counter is the number of its entries that are through, and those are the
\* first of them.
OrderInv ==
  occurrence = 1 =>
    /\ \A h \in Hosts : turn[h] = Cardinality(ThroughOf(h))
    /\ \A i \in Items : Through(i) \/ RunningEntry(i) => \A j \in Predecessors(i) : Through(j)

LEMMA OrderStays ==
  ASSUME OrderInv, occurrence' = 1 => occurrence = 1, inventory' = inventory, turn' = turn,
         \A i \in Items : Through(i)' <=> Through(i),
         \A i \in Items : RunningEntry(i)' => RunningEntry(i)
  PROVE  OrderInv'
  <1>1. \A h \in Hosts : EntriesOf(h)' = EntriesOf(h)
    BY DEF EntriesOf, Host
  <1>2. \A h \in Hosts : ThroughOf(h)' = ThroughOf(h)
    BY <1>1 DEF ThroughOf, EntriesOf
  <1>3. \A i \in Items : Predecessors(i)' = Predecessors(i) /\ Predecessors(i) \subseteq Items
    BY DEF Predecessors, EntriesOf, Host
  <1> QED
    BY <1>2, <1>3 DEF OrderInv

\* Whose turn it is has all its predecessors behind it.
LEMMA TurnComesInOrder ==
  ASSUME LockInv, OrderInv, occurrence = 1, NEW i \in Items, TakeTurn(i)
  PROVE  \A j \in Predecessors(i) : Through(j)
  <1> DEFINE h == Host(i)
             D == ThroughOf(h)
             P == Predecessors(i)
  <1>1. phase[i] = "turn" /\ status[i] = "executing" /\ h \in Hosts /\ ~Through(i)
    BY InventoryType DEF TakeTurn, LockInv, FleetTypeOK, Through
  <1>2. D \subseteq P
    <2> SUFFICES ASSUME NEW d \in D PROVE d \in P
      OBVIOUS
    <2>1. d \in Items /\ Host(d) = Host(i) /\ Through(d) /\ d # i
      BY <1>1 DEF ThroughOf, EntriesOf
    <2>2. ~(i < d)
      <3>1. i < d => i \in Predecessors(d)
        BY <2>1 DEF Predecessors, EntriesOf
      <3> QED
        BY <1>1, <2>1, <3>1 DEF OrderInv
    <2>3. d < i
      BY <2>1, <2>2, NAssumption DEF Items
    <2> QED
      BY <2>1, <2>3 DEF Predecessors, EntriesOf
  <1>3. P \subseteq EntriesOf(h) /\ i \in EntriesOf(h) /\ i \notin P /\ EntriesOf(h) \subseteq Items
    BY NAssumption DEF Predecessors, EntriesOf, Items
  <1>4. turn[h] = Cardinality(D)
    BY <1>1 DEF OrderInv
  <1>5. turn[h] >= Cardinality(EntriesOf(h)) \/ turn[h] = Cardinality(P)
    BY DEF TakeTurn, MyTurn
  <1> HIDE DEF D, P, h
  <1>6. Cardinality(P) < Cardinality(EntriesOf(h))
    <2>1. P \cup {i} \subseteq EntriesOf(h) /\ P \subseteq Items /\ P \cup {i} \subseteq Items
      BY <1>3
    <2>2. Cardinality(P \cup {i}) = Cardinality(P) + 1
      BY <1>3, <2>1, SizeWith
    <2>3. Cardinality(P \cup {i}) <= Cardinality(EntriesOf(h))
      BY <1>3, <2>1, SubsetSize
    <2>4. Cardinality(P) \in Nat /\ Cardinality(EntriesOf(h)) \in Nat
      BY <1>3, <2>1, ItemsFinite
    <2> QED
      BY <2>2, <2>3, <2>4
  <1>7. Cardinality(D) <= Cardinality(P) /\ IsFiniteSet(P)
        /\ Cardinality(D) \in Nat /\ Cardinality(P) \in Nat /\ Cardinality(EntriesOf(h)) \in Nat
    <2>1. P \subseteq Items /\ D \subseteq Items
      BY <1>2, <1>3
    <2> QED
      BY <1>2, <1>3, <2>1, SubsetSize, ItemsFinite
  <1>8. Cardinality(D) = Cardinality(P)
    BY <1>4, <1>5, <1>6, <1>7
  <1>9. D = P
    BY <1>2, <1>7, <1>8, FS_Subset
  <1> QED
    BY <1>9 DEF D, P, ThroughOf

LEMMA YieldKeepsOrder ==
  ASSUME LockInv, OrderInv, NEW i \in Items, YieldTurn(i)
  PROVE  OrderInv'
  <1>1. /\ phase[i] = "running" /\ status[i] = "executing" /\ Host(i) \in Hosts
        /\ UNCHANGED <<inventory, status, occurrence>>
        /\ phase' = [phase EXCEPT ![i] = "finished"]
        /\ turn' = [turn EXCEPT ![Host(i)] = @ + 1]
    BY InventoryType DEF YieldTurn, LockInv, FleetTypeOK, vars, itemVars, runVars
  <1>2. phase \in [Items -> {"none", "domain", "turn", "running", "finished"}]
        /\ turn \in [Hosts -> Nat]
    BY DEF LockInv, FleetTypeOK
  <1>3. \A j \in Items : /\ Through(j)' <=> Through(j) \/ j = i
                         /\ RunningEntry(j)' => RunningEntry(j) /\ j # i
    BY <1>1, <1>2 DEF Through, RunningEntry
  <1>4. ~Through(i) /\ RunningEntry(i)
    BY <1>1 DEF Through, RunningEntry
  <1>5. \A j \in Items : Host(j)' = Host(j) /\ Predecessors(j)' = Predecessors(j)
                         /\ Predecessors(j) \subseteq Items
    BY <1>1 DEF Predecessors, EntriesOf, Host
  <1>6. \A h \in Hosts : ThroughOf(h)' = IF h = Host(i) THEN ThroughOf(h) \cup {i} ELSE ThroughOf(h)
    BY <1>3, <1>5 DEF ThroughOf, EntriesOf
  <1>7. ThroughOf(Host(i)) \subseteq Items /\ i \notin ThroughOf(Host(i))
    BY <1>4 DEF ThroughOf, EntriesOf
  <1>8. Cardinality(ThroughOf(Host(i)) \cup {i}) = Cardinality(ThroughOf(Host(i))) + 1
    BY <1>7, SizeWith
  <1>9. ASSUME occurrence = 1
        PROVE  \A h \in Hosts : turn'[h] = Cardinality(ThroughOf(h)')
    BY <1>1, <1>2, <1>6, <1>8, <1>9 DEF OrderInv
  <1>10. ASSUME occurrence = 1, NEW j \in Items, Through(j)' \/ RunningEntry(j)',
                NEW k \in Predecessors(j)
         PROVE  Through(k)'
    <2>1. Through(j) \/ RunningEntry(j)
      BY <1>3, <1>4, <1>10
    <2>2. Through(k) /\ k \in Items
      BY <1>5, <1>10, <2>1 DEF OrderInv
    <2> QED
      BY <1>3, <2>2
  <1> QED
    BY <1>1, <1>5, <1>9, <1>10 DEF OrderInv

LEMMA TakeKeepsOrder ==
  ASSUME LockInv, OrderInv, NEW i \in Items, TakeTurn(i)
  PROVE  OrderInv'
  <1>1. /\ phase[i] = "turn" /\ UNCHANGED <<inventory, status, occurrence, turn>>
        /\ phase' = [phase EXCEPT ![i] = "running"]
        /\ phase \in [Items -> {"none", "domain", "turn", "running", "finished"}]
    BY DEF TakeTurn, LockInv, FleetTypeOK, vars, itemVars, runVars
  <1>2. \A j \in Items : /\ Through(j)' <=> Through(j)
                         /\ RunningEntry(j)' => RunningEntry(j) \/ j = i
    BY <1>1 DEF Through, RunningEntry
  <1>3. \A j \in Items : Predecessors(j)' = Predecessors(j) /\ Predecessors(j) \subseteq Items
    BY <1>1 DEF Predecessors, EntriesOf, Host
  <1>4. \A h \in Hosts : ThroughOf(h)' = ThroughOf(h)
    BY <1>1, <1>2 DEF ThroughOf, EntriesOf, Host
  <1>5. occurrence = 1 => \A j \in Predecessors(i) : Through(j)
    BY TurnComesInOrder
  <1>6. ASSUME occurrence = 1, NEW j \in Items, Through(j)' \/ RunningEntry(j)',
               NEW k \in Predecessors(j)
        PROVE  Through(k)'
    <2>1. Through(k) /\ k \in Items
      BY <1>2, <1>3, <1>5, <1>6 DEF OrderInv
    <2> QED
      BY <1>2, <2>1
  <1> QED
    BY <1>1, <1>3, <1>4, <1>6 DEF OrderInv

LEMMA OrderStep ==
  ASSUME IInv, LockInv, OrderInv, [FleetNext]_allVars
  PROVE  OrderInv'
  <1>1. /\ status \in [Items -> {"queued", "executing", "completed", "received"}]
        /\ phase \in [Items -> {"none", "domain", "turn", "running", "finished"}]
        /\ occurrence \in Nat /\ occurrence >= 1
    <2>1. occurrence \in 1..Occurrences /\ Occurrences \in Nat
      BY SettingsType DEF IInv, TypeOK
    <2> QED
      BY <2>1 DEF IInv, TypeOK, LockInv, FleetTypeOK
  <1> USE DEF Through, RunningEntry
  <1>2. CASE LaunchEntry
    <2>1. next + 1 \in Items /\ status[next + 1] = "queued"
      <3>1. next + 1 \in Items
        BY <1>2, SettingsType, NAssumption
        DEF LaunchEntry, Launch, IInv, TypeOK, LaunchCommitted, BatchEnd, Items, InBatch
      <3> QED
        BY <1>2, <3>1 DEF LaunchEntry, Launch, IInv, TypeOK, LaunchOrder, InBatch
    <2>2. phase[next + 1] = "none"
      BY <2>1 DEF LockInv
    <2>3. /\ UNCHANGED <<occurrence, inventory, turn>>
          /\ status' = [status EXCEPT ![next + 1] = "executing"]
          /\ \E p \in {"turn", "domain"} : phase' = [phase EXCEPT ![next + 1] = p]
      BY <1>2 DEF LaunchEntry, Launch, runVars
    <2> QED
      BY <1>1, <2>1, <2>2, <2>3, OrderStays
  <1>3. ASSUME NEW i \in Items, LockDomain(i) PROVE OrderInv'
    <2>1. /\ UNCHANGED <<occurrence, inventory, turn, status>> /\ phase[i] = "domain"
          /\ phase' = [phase EXCEPT ![i] = "turn"]
      BY <1>3 DEF LockDomain, vars, runVars, itemVars
    <2> QED
      BY <1>1, <2>1, OrderStays
  <1>4. ASSUME NEW i \in Items, NEW bad \in BOOLEAN, Deliver(i, bad) PROVE OrderInv'
    <2>1. /\ UNCHANGED <<occurrence, inventory, turn>> /\ phase[i] = "finished"
          /\ status' = [status EXCEPT ![i] = "completed"] /\ phase' = [phase EXCEPT ![i] = "none"]
      BY <1>4 DEF Deliver, Finish, runVars
    <2> QED
      BY <1>1, <2>1, OrderStays
  <1>5. CASE LoopStep
    <2>1. UNCHANGED <<inventory, phase, turn>>
      BY <1>5 DEF LoopStep, fleetVars
    <2>2. ASSUME NEW i \in Items, Receive(i) PROVE OrderInv'
      <3>1. /\ occurrence' = occurrence /\ status[i] = "completed"
            /\ status' = [status EXCEPT ![i] = "received"]
        BY <2>2 DEF Receive, runVars
      <3> QED
        BY <1>1, <2>1, <3>1, OrderStays
    <2>3. CASE NextOccurrence
      <3>1. occurrence' # 1
        BY <1>1, <2>3 DEF NextOccurrence
      <3> QED
        BY <3>1 DEF OrderInv
    <2>4. CASE UNCHANGED <<occurrence, status>>
      BY <2>1, <2>4, OrderStays
    <2> QED
      BY <1>5, <2>2, <2>3, <2>4
      DEF LoopStep, BeginOccurrence, AbandonSchedule, ExhaustBatch, HaltBatch, AwaitSlot,
          AwaitInterval, CommitLaunch, IntervalFires, IntervalCancelled, CanariesPassed,
          CanariesRejected, MainEnds, IntervalElapses, Goto, runVars, itemVars
  <1>6. CASE (Interrupt /\ UNCHANGED fleetVars) \/ UNCHANGED allVars
    <2>1. UNCHANGED <<occurrence, inventory, turn, status, phase>>
      BY <1>6 DEF Interrupt, fleetVars, allVars, vars, runVars, itemVars
    <2> QED
      BY <2>1, OrderStays
  <1> QED
    BY <1>2, <1>3, <1>4, <1>5, <1>6, TakeKeepsOrder, YieldKeepsOrder
    DEF FleetNext, DeviceStep, Returned

LEMMA InitOrder == FleetInit => OrderInv
  <1> SUFFICES ASSUME FleetInit PROVE OrderInv
    OBVIOUS
  <1>1. \A i \in Items : status[i] = "queued" /\ phase[i] = "none"
    BY DEF FleetInit, Init
  <1>2. \A i \in Items : ~Through(i) /\ ~RunningEntry(i)
    BY <1>1 DEF Through, RunningEntry
  <1>3. \A h \in Hosts : ThroughOf(h) = {} /\ turn[h] = 0
    BY <1>2 DEF ThroughOf, EntriesOf, FleetInit
  <1> QED
    BY <1>2, <1>3, FS_EmptySet DEF OrderInv

\* For every inventory and every policy: in the first occurrence an entry runs after all
\* earlier entries of its host (deviceVariableState.next in main.go).
THEOREM HostsTakeTurns == FleetSpec => []FirstOccurrenceOrder
  <1>1. OrderInv => FirstOccurrenceOrder
    BY DEF OrderInv, FirstOccurrenceOrder, InventoryOrderAt, Through
  <1> QED
    BY <1>1, InitOrder, OrderStep, FleetSchedulerInvariant, FleetLockInvariant, PTL DEF FleetSpec

-----------------------------------------------------------------------------
(* The refinement of RolloutPolicy *)

\* What RolloutPolicy calls running is what holds a slot.
LEMMA RolloutView ==
  ASSUME IInv
  PROVE  /\ (Items \ With("queued")) \ With("received") = InFlight
         /\ failed \cap With("received") = ReceivedFailures
         /\ active = Cardinality(InFlight)
  BY DEF IInv, TypeOK, CountersExact, InFlight, With, ReceivedFailures

LEMMA SizesAgree ==
  \A S : Rollout!Cardinality(S) = Cardinality(S)
  BY DEF Rollout!Cardinality, Cardinality

LEMMA RolloutInit ==
  ASSUME Init PROVE Rollout!Init
  <1>1. policy \in Policies
    BY DEF Init
  <1>2. /\ CanaryItems \subseteq Items /\ policy.threshold \in Nat
        /\ Slots \in Nat \ {0} /\ Occurrences \in Nat \ {0}
    BY <1>1, SettingsType
  <1> QED
    BY <1>2 DEF Init, Rollout!Init, Rollout!Limits, With

LEMMA LaunchRefines ==
  ASSUME IInv, Launch PROVE Rollout!Start(next + 1)
  <1> DEFINE e == next + 1
  <1>1. /\ InBatch /\ next < BatchEnd /\ active < Slots /\ ~ThresholdReached
        /\ e \in Items /\ status[e] = "queued"
    BY SettingsType, NAssumption
    DEF IInv, TypeOK, LaunchOrder, LaunchCommitted, BatchEnd, Items, Launch, InBatch
  <1>2. /\ With("queued")' = With("queued") \ {e} /\ With("received")' = With("received")
        /\ UNCHANGED <<policy, occurrence, stage, stopped, failed>>
    BY <1>1 DEF Launch, With, IInv, TypeOK, runVars
  <1>3. e \in CanaryItems \/ (CanaryItems \subseteq With("received") /\ CanaryItems \cap failed = {})
    BY <1>1, SettingsType DEF IInv, TypeOK, CanariesClean, InBatch, BatchEnd, CanaryItems, With
  <1>4. e \in CanaryItems \/ policy.threshold = 0 \/ Cardinality(ReceivedFailures) < policy.threshold
    BY <1>1, SettingsType, ItemsFinite
    DEF IInv, TypeOK, CountersExact, ThresholdReached, Threshold, InBatch, BatchEnd, CanaryItems
  <1>5. e \in With("queued")
    BY <1>1 DEF With
  <1>6. (Items \ With("queued"))' = (Items \ With("queued")) \cup {e}
    BY <1>1, <1>2 DEF Items
  <1>7. UNCHANGED <<Slots, CanaryItems, Occurrences>> /\ stage # "done" /\ stage' # "done"
    BY <1>1, <1>2 DEF Slots, CanaryItems, Canaries, Occurrences, InBatch
  <1>8. (failed \cap With("received"))' = failed \cap With("received")
    BY <1>2
  <1>9. Rollout!Cardinality(Rollout!Running) < Slots
    BY <1>1, RolloutView, SizesAgree DEF Rollout!Running
  <1>10. e \in CanaryItems \/ policy.threshold = 0
           \/ Rollout!Cardinality(failed \cap With("received")) < policy.threshold
    BY <1>4, SizesAgree DEF ReceivedFailures
  <1>11. [slots |-> Slots, canaries |-> CanaryItems,
          threshold |-> policy.threshold, rounds |-> Occurrences]'
         = [slots |-> Slots, canaries |-> CanaryItems,
            threshold |-> policy.threshold, rounds |-> Occurrences]
    BY <1>2, <1>7
  <1> HIDE DEF e
  <1>12. /\ e \in Items \ (Items \ With("queued"))
         /\ e \in CanaryItems \/ (CanaryItems \subseteq With("received")
                                /\ CanaryItems \cap (failed \cap With("received")) = {})
    BY <1>1, <1>3, <1>5
  <1>13. UNCHANGED <<occurrence, With("received")>>
    BY <1>2
  <1>14. Rollout!Start(e)
    BY <1>6, <1>7, <1>8, <1>9, <1>10, <1>11, <1>12, <1>13 DEF Rollout!Start, Rollout!Canary
  <1> QED
    BY <1>14 DEF e

LEMMA ReceiveRefines ==
  ASSUME IInv, NEW i \in Items, Receive(i) PROVE Rollout!See(i)
  <1>1. /\ With("queued")' = With("queued") /\ With("received")' = With("received") \cup {i}
        /\ i \in (Items \ With("queued")) \ With("received")
        /\ UNCHANGED <<policy, occurrence, stage, stopped, failed>> /\ stage # "done"
    BY DEF Receive, With, IInv, TypeOK, runVars, InBatch
  <1>2. UNCHANGED <<Slots, CanaryItems, Occurrences>>
    BY <1>1 DEF Slots, CanaryItems, Canaries, Occurrences
  <1>3. (failed \cap With("received"))'
          \in {failed \cap With("received"), (failed \cap With("received")) \cup {i}}
    BY <1>1
  <1> QED
    BY <1>1, <1>2, <1>3 DEF Rollout!See, Rollout!Running

\* A step that leaves what the scheduler knows alone is a stutter.
LEMMA OtherStepsStutter ==
  ASSUME IInv,
         UNCHANGED <<policy, occurrence, stopped, With("queued"), With("received"),
                     failed \cap With("received")>>,
         (stage # "done" /\ stage' # "done") \/ UNCHANGED stage
  PROVE  UNCHANGED Rollout!vars
  <1>1. UNCHANGED <<Slots, CanaryItems, Occurrences>>
    BY DEF Slots, CanaryItems, Canaries, Occurrences
  <1> QED
    BY <1>1 DEF Rollout!vars

\* Nothing is in flight when the schedule ends, so a run that is not stopped
\* has seen every entry.
LEMMA EndRefines ==
  ASSUME IInv, AbandonSchedule \/ CanariesRejected \/ MainEnds, stage' = "done"
  PROVE  Rollout!Stop \/ Rollout!Complete
  <1>1. /\ stage # "done" /\ active = 0
        /\ UNCHANGED <<policy, occurrence, status, failed>>
    BY DEF AbandonSchedule, CanariesRejected, MainEnds, Drained, InBatch, IInv, CountersExact,
       itemVars
  <1>2. UNCHANGED <<Slots, CanaryItems, Occurrences, With("queued"), With("received"),
                    failed \cap With("received")>>
    BY <1>1 DEF Slots, CanaryItems, Canaries, Occurrences, With
  <1>3. InFlight = {}
    <2>1. InFlight \subseteq Items /\ Cardinality(InFlight) = 0
      BY <1>1, RolloutView DEF InFlight, With
    <2> QED
      BY <2>1, ItemsFinite, FS_EmptySet
  <1>4. Rollout!Running = {}
    BY <1>3, RolloutView DEF Rollout!Running
  <1>5. CASE stopped'
    BY <1>1, <1>2, <1>4, <1>5 DEF Rollout!Stop
  <1>6. CASE ~stopped'
    <2>1. stage = "main" /\ pc = "drain" /\ ~stopped /\ ~(occurrence < Occurrences)
      BY <1>1, <1>6 DEF AbandonSchedule, CanariesRejected, MainEnds, Drained
    <2>2. \A i \in Items : status[i] # "queued"
      BY <2>1, NAssumption DEF IInv, LaunchOrder, InBatch, BatchEnd, Items
    <2>3. With("received") = Items
      BY <1>3, <2>2 DEF IInv, TypeOK, InFlight, With
    <2>4. occurrence = Occurrences
      BY <2>1, SettingsType DEF IInv, TypeOK
    <2> QED
      BY <1>1, <1>2, <1>6, <2>3, <2>4 DEF Rollout!Complete
  <1> QED
    BY <1>5, <1>6

LEMMA NextOccurrenceRefines ==
  ASSUME IInv, NextOccurrence PROVE Rollout!NextRound
  <1>1. /\ occurrence < Occurrences /\ occurrence' = occurrence + 1
        /\ UNCHANGED <<policy, stopped>> /\ stage # "done" /\ stage' # "done"
    BY DEF NextOccurrence, IInv, ScheduleBounded
  <1>2. With("received") = Items /\ With("queued")' = Items /\ With("received")' = {}
    BY DEF NextOccurrence, IInv, ScheduleBounded, With
  <1>3. UNCHANGED <<Slots, CanaryItems, Occurrences>>
    BY <1>1 DEF Slots, CanaryItems, Canaries, Occurrences
  <1> QED
    BY <1>1, <1>2, <1>3 DEF Rollout!NextRound

LEMMA SchedulerRefines ==
  ASSUME IInv, [Next]_vars PROVE [Rollout!Next]_(Rollout!vars)
  <1>1. CASE Launch
    <2>1. next + 1 \in Items
      BY <1>1, SettingsType, NAssumption
      DEF IInv, TypeOK, LaunchCommitted, BatchEnd, Items, Launch, InBatch
    <2> QED
      BY <1>1, <2>1, LaunchRefines DEF Rollout!Next
  <1>2. CASE \E i \in Items : Receive(i)
    BY <1>2, ReceiveRefines DEF Rollout!Next
  <1>3. CASE NextOccurrence
    BY <1>3, NextOccurrenceRefines DEF Rollout!Next
  <1>4. CASE (AbandonSchedule \/ CanariesRejected \/ MainEnds) /\ stage' = "done"
    BY <1>4, EndRefines DEF Rollout!Next
  <1>5. CASE MainEnds /\ stage' # "done"
    <2>1. UNCHANGED <<policy, occurrence, stopped, status, failed>> /\ stage # "done"
      BY <1>5 DEF MainEnds, Drained, InBatch, itemVars
    <2> QED
      BY <1>5, <2>1, OtherStepsStutter DEF With
  <1>6. CASE \E i \in Items, bad \in BOOLEAN : Finish(i, bad)
    <2> PICK i \in Items, bad \in BOOLEAN : Finish(i, bad)
      BY <1>6
    <2>1. UNCHANGED <<policy, occurrence, stage, stopped, With("queued"), With("received")>>
      BY DEF Finish, With, IInv, TypeOK, runVars
    <2>2. i \notin With("received") /\ failed' \in {failed, failed \cup {i}}
      BY DEF Finish, With
    <2> QED
      BY <2>1, <2>2, OtherStepsStutter
  <1>7. CASE /\ UNCHANGED <<policy, occurrence, stopped, status, failed>>
             /\ (stage # "done" /\ stage' # "done") \/ UNCHANGED stage
    BY <1>7, OtherStepsStutter DEF With
  <1>8. CASE HaltBatch \/ IntervalCancelled
    <2>1. /\ stage # "done" /\ stage' # "done"
          /\ UNCHANGED <<policy, occurrence, status, failed>>
      BY <1>8 DEF HaltBatch, IntervalCancelled, AtHead, InBatch, itemVars
    <2>2. UNCHANGED <<Slots, CanaryItems, Occurrences, With("queued"), With("received")>>
      BY <2>1 DEF Slots, CanaryItems, Canaries, Occurrences, With
    <2> QED
      BY <2>1, <2>2 DEF Rollout!vars
  <1> QED
    BY <1>1, <1>2, <1>3, <1>4, <1>5, <1>6, <1>7, <1>8
    DEF Next, SchedulerStep, BeginOccurrence, FirstStage, AbandonSchedule, ExhaustBatch,
        AwaitSlot, AwaitInterval, CommitLaunch, AtHead, InBatch, IntervalFires,
        CanariesPassed, CanariesRejected, Drained, IntervalElapses, Interrupt, Goto,
        itemVars, runVars, vars

\* The run keeps the promise RolloutPolicy states, for every inventory size and
\* every setting.
THEOREM FleetKeepsRolloutPolicy == FleetSpec => RolloutSpec
  <1>1. FleetInit => Rollout!Init
    BY RolloutInit DEF FleetInit
  <1>2. IInv /\ [FleetNext]_allVars => [Rollout!Next]_(Rollout!vars)
    BY FleetStepIsSchedulerStep, SchedulerRefines
  <1> QED
    BY <1>1, <1>2, FleetSchedulerInvariant, PTL DEF FleetSpec, RolloutSpec, Rollout!Spec
=============================================================================
