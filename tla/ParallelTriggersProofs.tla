------------------------ MODULE ParallelTriggersProofs ------------------------
(***************************************************************************)
(* ParallelTriggers, for any parallel step, any number of branches and     *)
(* triggers and any notifications: no trigger fires too often or too soon, *)
(* and the branches of a device never go beyond its budget; the merge is   *)
(* that of the declared order; and an alarm is what the events make one.   *)
(*                                                                         *)
(* The limits speak of what has been done, the code of counters.  The      *)
(* first invariant ties the two: a subscription's counts, times and sites  *)
(* are those of its log, and the budget is what was used plus every action *)
(* that any branch has logged.  An alarm is told from all the events of a  *)
(* path, the code tells it from the few numbers it keeps of them: the last *)
(* invariant says which events those numbers stand for, at every moment of *)
(* a notification's way round the triggers.                                *)
(***************************************************************************)
EXTENDS ParallelTriggers, FiniteSetTheorems, SequenceTheorems, TLAPS

Early(b) == pc[b] \in {"new", "waiting", "connect", "step"}
Live(b)  == pc[b] \in {"stream", "handle", "nested"}

IsSequence(s) == Len(s) \in Nat /\ s = [k \in 1..Len(s) |-> s[k]]

Fields == {"received", "synced", "todo", "fired", "counts", "last", "numbers"}

Shape ==
  /\ scenario \in Scenarios /\ now \in Nat
  /\ phase = "start" => \A b \in Branches : pc[b] = "new"
  /\ DOMAIN pc = Branches
  /\ DOMAIN sub = Branches /\ \A b \in Branches : DOMAIN sub[b] = Fields
  /\ DOMAIN log = Branches
  /\ \A b \in Branches : IsSequence(log[b]) /\ (Early(b) => log[b] = <<>>)

\* What the counters of a subscription stand for.
Counters(b) ==
  /\ Branch(b).subscribe
  /\ DOMAIN sub[b].counts = Triggers(b) /\ DOMAIN sub[b].last = Triggers(b)
  /\ \A i \in Triggers(b) :
       /\ sub[b].counts[i] = Cardinality(FiresOf(b, i))
       /\ \A k \in FiresOf(b, i) :
            /\ <<i, log[b][k].path>> \in sub[b].fired
            /\ log[b][k].at \in Nat /\ sub[b].last[i] \in Nat
            /\ log[b][k].at <= sub[b].last[i] /\ sub[b].last[i] <= now

Limits(b) ==
  \A i \in Triggers(b) :
    /\ Cardinality(FiresOf(b, i)) <= Fires(b)
    /\ \A j, k \in FiresOf(b, i) : j < k =>
         IF EffectiveOnce(Trigger(b, i)) THEN log[b][j].path # log[b][k].path
         ELSE log[b][k].at - log[b][j].at >= Branch(b).cooldown

FiredBy(b) == {<<b, k>> : k \in {j \in DOMAIN log[b] : log[b][j].fired}}
AllFired   == UNION {FiredBy(b) : b \in Branches}

Budget ==
  /\ IsFiniteSet(AllFired)
  /\ budget = scenario.used + Cardinality(AllFired)
  /\ scenario.used <= DeviceFires => budget <= DeviceFires

BudgetInv == Shape /\ (\A b \in Branches : Limits(b) /\ (Live(b) => Counters(b))) /\ Budget

-----------------------------------------------------------------------------
(* The log *)

LEMMA AppendToLog ==
  ASSUME NEW s, IsSequence(s), NEW e
  PROVE  /\ IsSequence(Append(s, e)) /\ DOMAIN Append(s, e) = DOMAIN s \cup {Len(s) + 1}
         /\ \A k \in DOMAIN s : Append(s, e)[k] = s[k] /\ k < Len(s) + 1
         /\ Append(s, e)[Len(s) + 1] = e /\ Len(s) + 1 \notin DOMAIN s
  <1> DEFINE S == {s[k] : k \in 1..Len(s)} \cup {e}
  <1>1. s \in Seq(S)
    <2>1. s \in [1..Len(s) -> S]
      BY DEF IsSequence
    <2> QED
      BY <2>1, SeqDef DEF IsSequence
  <1>2. e \in S
    OBVIOUS
  <1> DEFINE t == Append(s, e)
  <1>3. t \in Seq(S) /\ Len(t) = Len(s) + 1 /\ t[Len(s) + 1] = e
        /\ \A k \in 1..Len(s) : t[k] = s[k]
    BY <1>1, <1>2, AppendProperties
  <1>4. DOMAIN s = 1..Len(s) /\ DOMAIN t = 1..Len(t) /\ Len(s) \in Nat /\ Len(t) \in Nat
    BY <1>1, <1>3, LenProperties
  <1>5. t = [k \in 1..Len(t) |-> t[k]]
    <2>1. t \in [1..Len(t) -> S]
      BY <1>3, LenProperties
    <2> QED
      BY <2>1
  <1> HIDE DEF t
  <1>6. 1..Len(t) = 1..Len(s) \cup {Len(s) + 1}
    BY <1>3, <1>4
  <1> QED
    BY <1>3, <1>4, <1>5, <1>6 DEF IsSequence, t

LEMMA FiresAreFinite ==
  ASSUME Shape, NEW b \in Branches, NEW i
  PROVE  IsFiniteSet(FiresOf(b, i)) /\ Cardinality(FiresOf(b, i)) \in Nat
  <1>1. DOMAIN log[b] = 1..Len(log[b]) /\ Len(log[b]) \in Nat
    BY DEF Shape, IsSequence
  <1>2. IsFiniteSet(1..Len(log[b]))
    BY <1>1, FS_Interval
  <1> QED
    BY <1>1, <1>2, FS_Subset, FS_CardinalityType DEF FiresOf

-----------------------------------------------------------------------------
LEMMA InitBudget == Init => BudgetInv
  <1> SUFFICES ASSUME Init PROVE BudgetInv
    OBVIOUS
  <1>1. IsSequence(<<>>) /\ DOMAIN <<>> = {}
    BY DEF IsSequence
  <1>2. Shape
    BY <1>1 DEF Init, Shape, NewSub, Fields
  <1>3. \A b \in Branches : log[b] = <<>> /\ FiredBy(b) = {} /\ \A i : FiresOf(b, i) = {}
    BY <1>1 DEF Init, FiredBy, FiresOf
  <1>4. \A b \in Branches : Limits(b) /\ ~Live(b)
    <2> SUFFICES ASSUME NEW b \in Branches PROVE Limits(b) /\ ~Live(b)
      OBVIOUS
    <2>1. Triggers(b) # {} => Fires(b) \in Nat
      BY ScenariosAssumption, LimitsAssumption
      DEF Init, Triggers, Fires, Branch, Branches
    <2>2. \A i : Cardinality(FiresOf(b, i)) = 0
      BY <1>3, FS_EmptySet
    <2>3. Limits(b)
      BY <1>3, <2>1, <2>2 DEF Limits
    <2> QED
      BY <2>3 DEF Init, Live
  <1>5. Budget
    <2>1. AllFired = {}
      BY <1>3 DEF AllFired
    <2>2. IsFiniteSet(AllFired) /\ Cardinality(AllFired) = 0
      BY <2>1, FS_EmptySet
    <2> QED
      BY <2>2, ScenariosAssumption DEF Init, Budget
  <1> QED
    BY <1>2, <1>4, <1>5 DEF BudgetInv

\* A step that logs no action and leaves the counters of live subscriptions alone.
LogKept ==
  /\ DOMAIN log' = Branches
  /\ \A b \in Branches :
       /\ IsSequence(log'[b]) /\ (Early(b)' => log'[b] = log[b])
       /\ FiredBy(b)' = FiredBy(b) /\ \A i : FiresOf(b, i)' = FiresOf(b, i)
       /\ \A k \in DOMAIN log[b] : log'[b][k] = log[b][k]

Quiet ==
  /\ UNCHANGED <<scenario, budget>> /\ now' \in Nat /\ now <= now'
  /\ phase' = "start" => UNCHANGED <<phase, pc>>
  /\ DOMAIN pc' = Branches
  /\ DOMAIN sub' = Branches
  /\ \A b \in Branches :
       /\ DOMAIN sub'[b] = Fields
       /\ Early(b)' => Early(b)
       /\ Live(b)' => /\ Live(b) /\ sub'[b].counts = sub[b].counts
                      /\ sub'[b].last = sub[b].last /\ sub[b].fired \subseteq sub'[b].fired

LEMMA LogUnchanged == ASSUME Shape, UNCHANGED <<scenario, log>> PROVE LogKept
  BY DEF Shape, LogKept, FiredBy, FiresOf

LEMMA QuietKeeps == ASSUME BudgetInv, Quiet, LogKept PROVE BudgetInv'
  <1>1. Branches' = Branches /\ AllFired' = AllFired
    <2>1. Branches' = Branches
      BY DEF Quiet, Branches
    <2> QED
      BY <2>1 DEF LogKept, AllFired
  <1>2. Shape'
    BY <1>1 DEF BudgetInv, Shape, Quiet, LogKept
  <1>3. ASSUME NEW b \in Branches
        PROVE  Limits(b)' /\ (Live(b)' => Counters(b)')
    <2>1. /\ Triggers(b)' = Triggers(b) /\ Fires(b)' = Fires(b) /\ Branch(b)' = Branch(b)
          /\ \A i : Trigger(b, i)' = Trigger(b, i)
      BY DEF Quiet, Triggers, Fires, Branch, Trigger
    <2>2. \A i : FiresOf(b, i)' = FiresOf(b, i)
      BY DEF LogKept
    <2>3. \A i : \A k \in FiresOf(b, i) : log'[b][k] = log[b][k]
      BY DEF LogKept, FiresOf
    <2>4. Limits(b) /\ (Live(b) => Counters(b))
      BY DEF BudgetInv
    <2>5. Limits(b)'
      BY <2>1, <2>2, <2>3, <2>4 DEF Limits
    <2>6. ASSUME Live(b)' PROVE Counters(b)'
      <3>1. Counters(b) /\ sub'[b].counts = sub[b].counts
            /\ sub'[b].last = sub[b].last /\ sub[b].fired \subseteq sub'[b].fired
        BY <2>4, <2>6 DEF Quiet
      <3>2. now \in Nat /\ now' \in Nat /\ now <= now'
        BY DEF BudgetInv, Shape, Quiet
      <3> QED
        BY <2>1, <2>2, <2>3, <3>1, <3>2 DEF Counters
    <2> QED
      BY <2>5, <2>6
  <1>4. Budget'
    BY <1>1 DEF BudgetInv, Budget, Quiet
  <1> QED
    BY <1>1, <1>2, <1>3, <1>4 DEF BudgetInv

-----------------------------------------------------------------------------
(* The steps that log nothing *)

\* One branch moves, and does not become a live subscription by it.
Moves(b, l) ==
  /\ phase # "start" /\ pc' = [pc EXCEPT ![b] = l]
  /\ UNCHANGED <<scenario, phase, log, budget, sub, now>>

LEMMA MoveIsQuiet ==
  ASSUME Shape, NEW b \in Branches, NEW l, Moves(b, l),
         l \in {"new", "waiting", "connect", "step"} => Early(b),
         l \in {"stream", "handle", "nested"} => Live(b)
  PROVE  Quiet /\ LogKept
  <1>1. DOMAIN pc' = Branches /\ pc'[b] = l /\ \A c \in Branches \ {b} : pc'[c] = pc[c]
    BY DEF Shape, Moves
  <1>2. \A c \in Branches : (Early(c)' => Early(c)) /\ (Live(c)' => Live(c))
    BY <1>1 DEF Early, Live
  <1>3. Quiet
    BY <1>1, <1>2 DEF Quiet, Shape, Moves
  <1> QED
    BY <1>3, LogUnchanged DEF Moves

\* A subscription changes, but for its counters.
Streams(b, s) ==
  /\ phase # "start" /\ Live(b) /\ sub' = [sub EXCEPT ![b] = s]
  /\ pc'[b] \in {"stream", "handle", "over"} /\ DOMAIN pc' = Branches
  /\ \A c \in Branches \ {b} : pc'[c] = pc[c]
  /\ UNCHANGED <<scenario, phase, budget, now>>

LEMMA SubscriptionIsQuiet ==
  ASSUME Shape, NEW b \in Branches, NEW s, Streams(b, s), DOMAIN s = DOMAIN sub[b],
         s.counts = sub[b].counts, s.last = sub[b].last, s.fired = sub[b].fired
  PROVE  Quiet
  <1>1. \A c \in Branches : (Early(c)' => Early(c)) /\ (Live(c)' => Live(c))
    BY DEF Early, Live, Streams
  <1>2. DOMAIN sub' = Branches /\ sub'[b] = s /\ \A c \in Branches \ {b} : sub'[c] = sub[c]
    BY DEF Shape, Streams
  <1> QED
    BY <1>1, <1>2 DEF Quiet, Shape, Streams

LEMMA StandStillIsQuiet ==
  ASSUME Shape, UNCHANGED <<scenario, log, budget, sub, pc>>, now' \in Nat, now <= now',
         phase' = "start" => phase = "start"
  PROVE  Quiet /\ LogKept
  BY LogUnchanged DEF Quiet, Shape, Early, Live

LEMMA ParentIsQuiet == ASSUME Shape, ParentStep \/ Tick \/ UNCHANGED vars PROVE Quiet /\ LogKept
  <1>1. CASE TooDeep \/ Malformed
    BY <1>1, StandStillIsQuiet DEF TooDeep, Malformed, Refuse, Shape, branchVars, histories
  <1>2. CASE Merge
    BY <1>2, StandStillIsQuiet DEF Merge, Shape, branchVars, histories
  <1>3. CASE Tick
    BY <1>3, StandStillIsQuiet DEF Tick, Shape, parentVars, branchVars, histories
  <1>4. CASE UNCHANGED vars
    BY <1>4, StandStillIsQuiet DEF vars, Shape, parentVars, branchVars, histories
  <1>5. CASE Spawn
    <2>1. pc' = [b \in Branches |-> "waiting"] /\ phase = "start" /\ phase' = "collect"
          /\ UNCHANGED <<scenario, log, budget, sub, now>>
      BY <1>5 DEF Spawn, histories
    <2>2. \A b \in Branches : Early(b) /\ ~Live(b)'
      BY <2>1 DEF Shape, Early, Live
    <2> QED
      BY <2>1, <2>2, LogUnchanged DEF Quiet, Shape
  <1> QED
    BY <1>1, <1>2, <1>3, <1>4, <1>5 DEF ParentStep

QuietStep(b) ==
  \/ Acquire(b) \/ Connect(b) \/ ConnectFails(b) \/ RunStep(b) \/ Close(b) \/ Send(b)
  \/ Release(b) \/ SubscribeFails(b) \/ Reject(b) \/ StreamEnds(b) \/ StreamFails(b)
  \/ Over(b) \/ Handled(b) \/ Panic(b) \/ Receive(b) \/ Sync(b) \/ Skip(b) \/ RunNested(b)

LEMMA BranchIsQuiet ==
  ASSUME Shape, NEW b \in Branches, QuietStep(b) PROVE Quiet /\ LogKept
  <1>1. ASSUME Acquire(b) PROVE Quiet /\ LogKept
    <2>1. Moves(b, "connect") /\ Early(b)
      BY <1>1 DEF Acquire, Moves, At, Goto, Early, parentVars, histories
    <2> QED
      BY <2>1, MoveIsQuiet
  <1>2. ASSUME Connect(b) PROVE Quiet /\ LogKept
    <2>1. Moves(b, "step") /\ Early(b)
      BY <1>2 DEF Connect, Moves, At, Goto, Early, parentVars, histories
    <2> QED
      BY <2>1, MoveIsQuiet
  <1>3. ASSUME ConnectFails(b) PROVE Quiet /\ LogKept
    <2>1. Moves(b, "close")
      BY <1>3 DEF ConnectFails, Moves, At, Goto, parentVars, histories
    <2> QED
      BY <2>1, MoveIsQuiet
  <1>4. ASSUME RunStep(b) PROVE Quiet /\ LogKept
    <2>1. Moves(b, "close")
      BY <1>4 DEF RunStep, Moves, At, Goto, Succeed, parentVars
    <2> QED
      BY <2>1, MoveIsQuiet
  <1>5. ASSUME Close(b) PROVE Quiet /\ LogKept
    <2>1. Moves(b, "send")
      BY <1>5 DEF Close, Moves, At, Goto, parentVars, histories
    <2> QED
      BY <2>1, MoveIsQuiet
  <1>6. ASSUME Send(b) PROVE Quiet /\ LogKept
    <2>1. Moves(b, "sent")
      BY <1>6 DEF Send, Moves, At, Goto, parentVars, histories
    <2> QED
      BY <2>1, MoveIsQuiet
  <1>7. ASSUME Release(b) PROVE Quiet /\ LogKept
    <2>1. Moves(b, "gone")
      BY <1>7 DEF Release, Moves, Goto, parentVars, histories
    <2> QED
      BY <2>1, MoveIsQuiet
  <1>8. ASSUME SubscribeFails(b) PROVE Quiet /\ LogKept
    <2>1. Moves(b, "close")
      BY <1>8 DEF SubscribeFails, Moves, At, Goto, Break, parentVars
    <2> QED
      BY <2>1, MoveIsQuiet
  <1>9. ASSUME Reject(b) PROVE Quiet /\ LogKept
    <2>1. Moves(b, "close")
      BY <1>9 DEF Reject, Moves, At, Busy, Goto, parentVars, histories
    <2> QED
      BY <2>1, MoveIsQuiet
  <1>10. ASSUME StreamEnds(b) PROVE Quiet /\ LogKept
    <2>1. Moves(b, "over")
      BY <1>10 DEF StreamEnds, Moves, At, Goto, parentVars, histories
    <2> QED
      BY <2>1, MoveIsQuiet
  <1>11. ASSUME StreamFails(b) PROVE Quiet /\ LogKept
    <2>1. Moves(b, "close")
      BY <1>11 DEF StreamFails, Moves, At, Goto, Break, parentVars
    <2> QED
      BY <2>1, MoveIsQuiet
  <1>12. ASSUME Over(b) PROVE Quiet /\ LogKept
    <2>1. Moves(b, "close")
      BY <1>12 DEF Over, Moves, At, Goto, Succeed, parentVars
    <2> QED
      BY <2>1, MoveIsQuiet
  <1>13. ASSUME Handled(b) PROVE Quiet /\ LogKept
    <2>1. Live(b) /\ (Moves(b, "over") \/ Moves(b, "stream"))
      BY <1>13 DEF Handled, Moves, Live, At, Goto, parentVars, histories
    <2> QED
      BY <2>1, MoveIsQuiet
  <1>14. ASSUME Panic(b) PROVE Quiet /\ LogKept
    <2>1. UNCHANGED <<scenario, log, budget, sub, pc, now>> /\ phase' = "crashed"
      BY <1>14 DEF Panic, branchVars, histories
    <2> QED
      BY <2>1, StandStillIsQuiet DEF Shape
  <1>15. ASSUME Receive(b) PROVE Quiet /\ LogKept
    <2> DEFINE s == sub'[b]
    <2>0. DOMAIN sub = Branches /\ DOMAIN sub[b] = Fields
      BY DEF Shape
    <2>1. DOMAIN s = DOMAIN sub[b] /\ s.counts = sub[b].counts /\ s.last = sub[b].last
          /\ s.fired = sub[b].fired /\ sub' = [sub EXCEPT ![b] = s]
      BY <1>15, <2>0 DEF Receive, Fields
    <2>2. Streams(b, s) /\ UNCHANGED <<scenario, log>>
      BY <1>15, <2>1 DEF Receive, Streams, Shape, At, Goto, Live, parentVars, histories
    <2> QED
      BY <2>1, <2>2, LogUnchanged, SubscriptionIsQuiet
  <1>16. ASSUME Sync(b) PROVE Quiet /\ LogKept
    <2> DEFINE s == [sub[b] EXCEPT !.synced = TRUE]
    <2>1. DOMAIN s = DOMAIN sub[b] /\ s.counts = sub[b].counts /\ s.last = sub[b].last
          /\ s.fired = sub[b].fired
      BY DEF Shape, Fields
    <2>2. Streams(b, s) /\ UNCHANGED <<scenario, log>>
      BY <1>16 DEF Sync, Streams, Shape, At, Goto, Live, parentVars, histories
    <2> QED
      BY <2>1, <2>2, LogUnchanged, SubscriptionIsQuiet
  <1>17. ASSUME Skip(b) \/ RunNested(b) PROVE Quiet /\ LogKept
    <2> DEFINE s == [sub[b] EXCEPT !.todo = Tail(@)]
    <2>1. DOMAIN s = DOMAIN sub[b] /\ s.counts = sub[b].counts /\ s.last = sub[b].last
          /\ s.fired = sub[b].fired
      BY DEF Shape, Fields
    <2>2. CASE Skip(b)
      <3>1. Streams(b, s) /\ UNCHANGED <<scenario, log>>
        BY <2>2 DEF Skip, Busy, Streams, Shape, At, Live, parentVars, branchVars
      <3> QED
        BY <2>1, <3>1, LogUnchanged, SubscriptionIsQuiet
    <2>3. CASE RunNested(b)
      <3>1. Streams(b, s) /\ UNCHANGED <<scenario, log>>
        BY <2>3 DEF RunNested, Streams, Shape, At, Goto, Live, parentVars
      <3> QED
        BY <2>1, <3>1, LogUnchanged, SubscriptionIsQuiet
    <2> QED
      BY <1>17, <2>2, <2>3
  <1> QED
    BY <1>1, <1>2, <1>3, <1>4, <1>5, <1>6, <1>7, <1>8, <1>9, <1>10, <1>11,
       <1>12, <1>13, <1>14, <1>15, <1>16, <1>17 DEF QuietStep

-----------------------------------------------------------------------------
(* The steps that log *)

\* What one more entry makes of a log.
Grown(b, e, n) ==
  /\ DOMAIN log' = Branches /\ \A c \in Branches \ {b} : log'[c] = log[c]
  /\ IsSequence(log'[b]) /\ n \notin DOMAIN log[b] /\ log'[b][n] = e
  /\ \A k \in DOMAIN log[b] : log'[b][k] = log[b][k] /\ k < n
  /\ ~e.fired => FiredBy(b)' = FiredBy(b) /\ \A i : FiresOf(b, i)' = FiresOf(b, i)
  /\ e.fired =>
       /\ FiredBy(b)' = FiredBy(b) \cup {<<b, n>>}
       /\ \A i : i = e.trigger => FiresOf(b, i)' = FiresOf(b, i) \cup {n}
       /\ \A i : i # e.trigger => FiresOf(b, i)' = FiresOf(b, i)

LEMMA LogGrows ==
  ASSUME Shape, NEW b \in Branches, NEW e, UNCHANGED scenario,
         log' = [log EXCEPT ![b] = Append(@, e)], NEW n, n = Len(log[b]) + 1
  PROVE  Grown(b, e, n)
  <1>1. DOMAIN log' = Branches /\ log'[b] = Append(log[b], e)
        /\ \A c \in Branches \ {b} : log'[c] = log[c]
    BY DEF Shape
  <1>2. /\ IsSequence(log'[b]) /\ DOMAIN log'[b] = DOMAIN log[b] \cup {n}
        /\ n \notin DOMAIN log[b] /\ log'[b][n] = e
        /\ \A k \in DOMAIN log[b] : log'[b][k] = log[b][k] /\ k < n
    BY <1>1, AppendToLog DEF Shape
  <1>3. CASE ~e.fired
    BY <1>1, <1>2, <1>3 DEF FiredBy, FiresOf, Grown
  <1>4. CASE e.fired
    <2>1. FiredBy(b)' = FiredBy(b) \cup {<<b, n>>}
      BY <1>2, <1>4 DEF FiredBy
    <2>2. \A i : i = e.trigger => FiresOf(b, i)' = FiresOf(b, i) \cup {n}
      BY <1>2, <1>4 DEF FiresOf
    <2>3. \A i : i # e.trigger => FiresOf(b, i)' = FiresOf(b, i)
      BY <1>2, <1>4 DEF FiresOf
    <2> QED
      BY <1>1, <1>2, <1>4, <2>1, <2>2, <2>3 DEF Grown
  <1> QED
    BY <1>3, <1>4

LEMMA PassKeeps == ASSUME BudgetInv, NEW b \in Branches, Pass(b) PROVE BudgetInv'
  <1> DEFINE s == [sub[b] EXCEPT !.todo = Tail(@), !.numbers = Learn(b)]
  <1>1. Shape
    BY DEF BudgetInv
  <1>2. DOMAIN s = DOMAIN sub[b] /\ s.counts = sub[b].counts /\ s.last = sub[b].last
        /\ s.fired = sub[b].fired
    BY <1>1 DEF Shape, Fields
  <1>3. Streams(b, s) /\ ~Early(b)'
    BY <1>1 DEF Pass, Busy, Streams, Shape, At, Live, Early, parentVars, branchVars
  <1>4. Quiet
    BY <1>1, <1>2, <1>3, SubscriptionIsQuiet
  <1>5. LogKept
    <2>1. log' = [log EXCEPT ![b] = Append(@, Entry(b, FALSE))] /\ ~Entry(b, FALSE).fired
          /\ UNCHANGED scenario
      BY DEF Pass, Note, Entry
    <2> DEFINE e == Entry(b, FALSE)
               n == Len(log[b]) + 1
    <2>2. Grown(b, e, n)
      BY <1>1, <2>1, LogGrows
    <2> HIDE DEF e, n
    <2>3. /\ DOMAIN log' = Branches /\ IsSequence(log'[b])
          /\ \A c \in Branches \ {b} : log'[c] = log[c]
          /\ \A k \in DOMAIN log[b] : log'[b][k] = log[b][k]
          /\ FiredBy(b)' = FiredBy(b) /\ \A i : FiresOf(b, i)' = FiresOf(b, i)
      BY <2>1, <2>2 DEF Grown, e
    <2>4. \A c \in Branches \ {b} : FiredBy(c)' = FiredBy(c) /\ IsSequence(log'[c])
                                    /\ \A i : FiresOf(c, i)' = FiresOf(c, i)
      BY <1>1, <2>3 DEF FiredBy, FiresOf, Shape
    <2> QED
      BY <1>3, <2>3, <2>4 DEF LogKept
  <1> QED
    BY <1>4, <1>5, QuietKeeps

\* What one branch does leaves the others as they were.
LEMMA OthersKeep ==
  ASSUME BudgetInv, NEW c \in Branches, UNCHANGED <<scenario, now>>,
         log'[c] = log[c], sub'[c] = sub[c], pc'[c] = pc[c]
  PROVE  Limits(c)' /\ (Live(c)' => Counters(c)') /\ FiredBy(c)' = FiredBy(c)
  <1>1. /\ Triggers(c)' = Triggers(c) /\ Fires(c)' = Fires(c) /\ Branch(c)' = Branch(c)
        /\ \A i : Trigger(c, i)' = Trigger(c, i) /\ FiresOf(c, i)' = FiresOf(c, i)
    BY DEF Triggers, Fires, Branch, Trigger, FiresOf
  <1>2. Limits(c) /\ (Live(c) => Counters(c)) /\ Live(c)' = Live(c)
    BY DEF BudgetInv, Live
  <1>3. Limits(c)'
    BY <1>1, <1>2 DEF Limits
  <1>4. Live(c)' => Counters(c)'
    BY <1>1, <1>2 DEF Counters
  <1> QED
    BY <1>3, <1>4 DEF FiredBy

\* A subscription begins with an empty log and with its counters at zero.
LEMMA SubscribeKeeps == ASSUME BudgetInv, NEW b \in Branches, Subscribe(b) PROVE BudgetInv'
  <1>1. Shape
    BY DEF BudgetInv
  <1>2. /\ UNCHANGED <<scenario, phase, log, budget, now>> /\ phase # "start"
        /\ DOMAIN pc' = Branches /\ pc'[b] = "stream" /\ pc[b] = "step"
        /\ \A c \in Branches \ {b} : pc'[c] = pc[c]
    BY <1>1 DEF Subscribe, At, Goto, parentVars, histories, Shape
  <1>3. /\ DOMAIN sub' = Branches /\ DOMAIN sub'[b] = Fields
        /\ \A c \in Branches \ {b} : sub'[c] = sub[c]
        /\ sub'[b].counts = [i \in Triggers(b) |-> 0]
        /\ sub'[b].last = [i \in Triggers(b) |-> Unset]
    BY <1>1 DEF Subscribe, Shape, Fields
  <1>4. Branches' = Branches
    BY <1>2 DEF Branches
  <1>5. Shape'
    BY <1>1, <1>2, <1>3, <1>4 DEF Shape, Early
  <1>6. \A c \in Branches \ {b} : Limits(c)' /\ (Live(c)' => Counters(c)')
    BY <1>2, <1>3, OthersKeep
  <1>7. Limits(b)'
    BY <1>2 DEF BudgetInv, Limits, FiresOf, Triggers, Trigger, Branch, Fires
  <1>8. Counters(b)'
    <2>1. log[b] = <<>>
      BY <1>1, <1>2 DEF Shape, Early
    <2>2. \A i : FiresOf(b, i)' = {}
      BY <1>2, <2>1 DEF FiresOf
    <2>3. Triggers(b)' = Triggers(b) /\ Branch(b)'.subscribe
      BY <1>2 DEF Triggers, Branch, Subscribe
    <2> QED
      BY <1>3, <2>2, <2>3, FS_EmptySet DEF Counters
  <1>9. Budget'
    <2>1. AllFired' = AllFired
      BY <1>2, <1>4 DEF AllFired, FiredBy
    <2> QED
      BY <1>2, <2>1 DEF BudgetInv, Budget
  <1> QED
    BY <1>4, <1>5, <1>6, <1>7, <1>8, <1>9 DEF BudgetInv

\* One action more: a count, a time, a site, an entry in the log and a unit of the budget.
LEMMA FireKeeps ==
  ASSUME BudgetInv, NEW b \in Branches, Fire(b), NEW i, i = Task(b).trigger,
         NEW e, e = Entry(b, TRUE), NEW n, n = Len(log[b]) + 1
  PROVE  BudgetInv'
  <1>1. Shape /\ Live(b) /\ Counters(b) /\ Limits(b)
    BY DEF BudgetInv, Fire, Busy, At, Live
  <1>2. /\ UNCHANGED <<scenario, phase, now>> /\ phase # "start"
        /\ DOMAIN pc' = Branches /\ pc'[b] = "nested"
        /\ \A c \in Branches \ {b} : pc'[c] = pc[c]
    BY <1>1 DEF Fire, Busy, At, Goto, parentVars, Shape
  <1>3. log' = [log EXCEPT ![b] = Append(@, e)]
        /\ e.fired /\ e.trigger = i /\ e.path = Event(b).path /\ e.at = now
    BY DEF Fire, Note, Entry
  <1>4. /\ DOMAIN log' = Branches /\ \A c \in Branches \ {b} : log'[c] = log[c]
        /\ IsSequence(log'[b]) /\ n \notin DOMAIN log[b] /\ log'[b][n] = e
        /\ \A k \in DOMAIN log[b] : log'[b][k] = log[b][k] /\ k < n
        /\ FiredBy(b)' = FiredBy(b) \cup {<<b, n>>}
        /\ FiresOf(b, i)' = FiresOf(b, i) \cup {n}
        /\ \A j : j # i => FiresOf(b, j)' = FiresOf(b, j)
    <2>1. Grown(b, e, n)
      BY <1>1, <1>2, <1>3, LogGrows
    <2> QED
      BY <1>3, <2>1 DEF Grown
  <1>0. DOMAIN sub = Branches /\ DOMAIN sub[b] = Fields
    BY <1>1 DEF Shape
  <1>5. /\ DOMAIN sub' = Branches /\ DOMAIN sub'[b] = Fields
        /\ \A c \in Branches \ {b} : sub'[c] = sub[c]
        /\ sub'[b].fired = sub[b].fired \cup {<<i, e.path>>}
        /\ sub'[b].counts = [sub[b].counts EXCEPT ![i] = @ + 1]
        /\ sub'[b].last = [sub[b].last EXCEPT ![i] = now]
    BY <1>0, <1>1, <1>3 DEF Fire, Fields, Site
  <1>6. Branches' = Branches
    BY <1>2 DEF Branches
  <1>7. Shape'
    BY <1>1, <1>2, <1>4, <1>5, <1>6 DEF Shape, Early
  <1>8. \A c \in Branches \ {b} :
          Limits(c)' /\ (Live(c)' => Counters(c)') /\ FiredBy(c)' = FiredBy(c)
    BY <1>2, <1>4, <1>5, OthersKeep
  <1>9. /\ Triggers(b)' = Triggers(b) /\ Fires(b)' = Fires(b) /\ Branch(b)' = Branch(b)
        /\ \A j : Trigger(b, j)' = Trigger(b, j)
    BY <1>2 DEF Triggers, Fires, Branch, Trigger
  <1>10. \A j \in Triggers(b) : j # i =>
           \A k \in FiresOf(b, j) : k \in DOMAIN log[b] /\ log'[b][k] = log[b][k]
    BY <1>4 DEF FiresOf
  <1>11. ASSUME i \in Triggers(b)
         PROVE  /\ Cardinality(FiresOf(b, i))' = Cardinality(FiresOf(b, i)) + 1
                /\ Cardinality(FiresOf(b, i)) \in Nat
    <2>1. n \notin FiresOf(b, i)
      BY <1>4 DEF FiresOf
    <2>2. IsFiniteSet(FiresOf(b, i)) /\ Cardinality(FiresOf(b, i)) \in Nat
      BY <1>1, FiresAreFinite
    <2>3. FiresOf(b, i)' = FiresOf(b, i) \cup {n}
      BY <1>4
    <2>4. Cardinality(FiresOf(b, i) \cup {n}) = Cardinality(FiresOf(b, i)) + 1
      BY <2>1, <2>2, FS_AddElement
    <2> QED
      BY <2>2, <2>3, <2>4
  <1>12. Limits(b)'
    <2> SUFFICES ASSUME NEW j \in Triggers(b)
                 PROVE  /\ Cardinality(FiresOf(b, j))' <= Fires(b)
                        /\ \A k, m \in FiresOf(b, j)' : k < m =>
                             IF EffectiveOnce(Trigger(b, j)) THEN log'[b][k].path # log'[b][m].path
                             ELSE log'[b][m].at - log'[b][k].at >= Branch(b).cooldown
      BY <1>9 DEF Limits
    <2>1. CASE j # i
      BY <1>1, <1>4, <1>10, <2>1 DEF Limits
    <2>2. CASE j = i
      <3>1. Cardinality(FiresOf(b, i))' <= Fires(b)
        <4>1. sub[b].counts[i] < Fires(b) /\ sub[b].counts[i] = Cardinality(FiresOf(b, i))
          BY <1>1, <2>2 DEF Fire, Counters
        <4>2. Fires(b) \in Nat
          BY <1>1, ScenariosAssumption, LimitsAssumption
          DEF Counters, Shape, Fires, Branch, Branches
        <4> QED
          BY <1>11, <2>2, <4>1, <4>2
      <3>2. ASSUME NEW k \in FiresOf(b, i)', NEW m \in FiresOf(b, i)', k < m
            PROVE  IF EffectiveOnce(Trigger(b, i)) THEN log'[b][k].path # log'[b][m].path
                   ELSE log'[b][m].at - log'[b][k].at >= Branch(b).cooldown
        <4>1. k \in FiresOf(b, i) /\ log'[b][k] = log[b][k]
          <5>1. DOMAIN log[b] = 1..Len(log[b]) /\ Len(log[b]) \in Nat
            BY <1>1 DEF Shape, IsSequence
          <5>2. k \in FiresOf(b, i) \cup {n} /\ m \in FiresOf(b, i) \cup {n}
            BY <1>4, <3>2
          <5>3. k # n
            BY <3>2, <5>1, <5>2 DEF FiresOf
          <5> QED
            BY <1>4, <5>2, <5>3 DEF FiresOf
        <4>2. CASE m # n
          <5>1. m \in FiresOf(b, i) /\ log'[b][m] = log[b][m]
            BY <1>4, <4>2 DEF FiresOf
          <5> QED
            BY <1>1, <2>2, <3>2, <4>1, <5>1 DEF Limits
        <4>3. CASE m = n
          <5>1. /\ <<i, log[b][k].path>> \in sub[b].fired
                /\ log[b][k].at \in Nat /\ sub[b].last[i] \in Nat
                /\ log[b][k].at <= sub[b].last[i]
            BY <1>1, <2>2, <4>1 DEF Counters
          <5>2. CASE EffectiveOnce(Trigger(b, i))
            <6>1. <<i, e.path>> \notin sub[b].fired
              BY <1>3, <5>2 DEF Fire, PassedOver, Site, Chosen
            <6> QED
              BY <1>4, <4>1, <4>3, <5>1, <5>2, <6>1
          <5>3. CASE ~EffectiveOnce(Trigger(b, i))
            <6>1. ~(now - sub[b].last[i] < Branch(b).cooldown)
              BY <5>1, <5>3, ScenariosAssumption
              DEF Fire, Cooling, EffectiveOnce, Chosen
            <6>2. now \in Nat /\ Branch(b).cooldown \in Nat
              BY <1>1, ScenariosAssumption DEF Shape, Counters, Branch, Branches
            <6>3. log'[b][m].at = now /\ log'[b][k].at = log[b][k].at
              BY <1>3, <1>4, <4>1, <4>3
            <6>4. now - log[b][k].at >= Branch(b).cooldown
              BY <5>1, <6>1, <6>2
            <6> QED
              BY <5>3, <6>3, <6>4
          <5> QED
            BY <5>2, <5>3
        <4> QED
          BY <4>2, <4>3
      <3> QED
        BY <2>2, <3>1, <3>2
    <2> QED
      BY <2>1, <2>2
  <1>13. Counters(b)'
    <2>1. Branch(b)'.subscribe /\ DOMAIN sub'[b].counts = Triggers(b)'
          /\ DOMAIN sub'[b].last = Triggers(b)'
      BY <1>1, <1>5, <1>9 DEF Counters
    <2>2. ASSUME NEW j \in Triggers(b)
          PROVE  /\ sub'[b].counts[j] = Cardinality(FiresOf(b, j))'
                 /\ \A k \in FiresOf(b, j)' :
                      /\ <<j, log'[b][k].path>> \in sub'[b].fired
                      /\ log'[b][k].at \in Nat /\ sub'[b].last[j] \in Nat
                      /\ log'[b][k].at <= sub'[b].last[j] /\ sub'[b].last[j] <= now'
      <3>1. CASE j # i
        <4>1. FiresOf(b, j)' = FiresOf(b, j) /\ UNCHANGED now
          BY <1>2, <1>4, <3>1
        <4>2. sub'[b].counts[j] = sub[b].counts[j] /\ sub'[b].last[j] = sub[b].last[j]
              /\ sub[b].fired \subseteq sub'[b].fired
          <5>1. DOMAIN sub[b].counts = Triggers(b) /\ DOMAIN sub[b].last = Triggers(b)
            BY <1>1 DEF Counters
          <5> QED
            BY <1>5, <3>1, <5>1
        <4>3. \A k \in FiresOf(b, j) : log'[b][k] = log[b][k]
          BY <1>10, <3>1
        <4> QED
          BY <1>1, <4>1, <4>2, <4>3 DEF Counters
      <3>2. CASE j = i
        <4>1. sub'[b].counts[i] = Cardinality(FiresOf(b, i))'
          BY <1>1, <1>5, <1>11, <3>2 DEF Counters
        <4>2. \A k \in FiresOf(b, i) :
                /\ k \in DOMAIN log[b] /\ log'[b][k] = log[b][k]
                /\ log[b][k].at <= now
          <5>1. now \in Nat
            BY <1>1 DEF Shape
          <5>2. \A k \in FiresOf(b, i) : k \in DOMAIN log[b] /\ log[b][k].at \in Nat
                  /\ sub[b].last[i] \in Nat /\ log[b][k].at <= sub[b].last[i]
                  /\ sub[b].last[i] <= now
            BY <1>1, <3>2 DEF Counters, FiresOf
          <5> QED
            BY <1>4, <5>1, <5>2
        <4>3. \A k \in FiresOf(b, i)' : k \in FiresOf(b, i) \/ k = n
          BY <1>4
        <4>4. now \in Nat /\ sub'[b].last[i] = now /\ UNCHANGED now
          BY <1>1, <1>2, <1>5, <3>2 DEF Shape, Counters
        <4>5. \A k \in FiresOf(b, i) : <<i, log'[b][k].path>> \in sub'[b].fired
                                         /\ log'[b][k].at \in Nat
          BY <1>1, <1>5, <3>2, <4>2 DEF Counters
        <4>6. <<i, log'[b][n].path>> \in sub'[b].fired /\ log'[b][n].at = now
          BY <1>3, <1>4, <1>5
        <4>7. ASSUME NEW k \in FiresOf(b, i)'
              PROVE  /\ <<i, log'[b][k].path>> \in sub'[b].fired
                     /\ log'[b][k].at \in Nat /\ log'[b][k].at <= now
          <5>1. CASE k = n
            BY <4>4, <4>6, <5>1
          <5>2. CASE k # n
            BY <4>2, <4>3, <4>4, <4>5, <5>2
          <5> QED
            BY <5>1, <5>2
        <4> QED
          BY <3>2, <4>1, <4>4, <4>7
      <3> QED
        BY <3>1, <3>2
    <2> QED
      BY <1>9, <2>1, <2>2 DEF Counters
  <1>14. Budget'
    <2>1. AllFired' = AllFired \cup {<<b, n>>}
      BY <1>4, <1>6, <1>8 DEF AllFired
    <2>2. <<b, n>> \notin AllFired
      BY <1>4 DEF AllFired, FiredBy
    <2>3. IsFiniteSet(AllFired)' /\ Cardinality(AllFired)' = Cardinality(AllFired) + 1
          /\ Cardinality(AllFired) \in Nat
      BY <2>1, <2>2, FS_AddElement, FS_CardinalityType DEF BudgetInv, Budget
    <2>4. budget < DeviceFires /\ budget' = budget + 1
      BY DEF Fire, Claim
    <2>5. scenario.used \in Nat
      BY <1>1, ScenariosAssumption DEF Shape
    <2> QED
      BY <1>2, <2>3, <2>4, <2>5, LimitsAssumption DEF BudgetInv, Budget
  <1> QED
    BY <1>6, <1>7, <1>8, <1>12, <1>13, <1>14 DEF BudgetInv

-----------------------------------------------------------------------------
LEMMA StepKeeps == ASSUME BudgetInv, [Next]_vars PROVE BudgetInv'
  <1>1. CASE ParentStep \/ Tick \/ UNCHANGED vars
    BY <1>1, ParentIsQuiet, QuietKeeps DEF BudgetInv
  <1>2. ASSUME NEW b \in Branches, BranchStep(b) PROVE BudgetInv'
    <2>1. CASE QuietStep(b)
      BY <2>1, BranchIsQuiet, QuietKeeps DEF BudgetInv
    <2>2. CASE Pass(b)
      BY <2>2, PassKeeps
    <2>3. CASE Subscribe(b)
      BY <2>3, SubscribeKeeps
    <2>4. CASE Fire(b)
      BY <2>4, FireKeeps
    <2> QED
      BY <1>2, <2>1, <2>2, <2>3, <2>4 DEF BranchStep, QuietStep
  <1> QED
    BY <1>1, <1>2 DEF Next, Ended

\* The inductive invariant of the budget: the counters of the handlers and the
\* device's budget are those of the actions taken (gnmiTriggerHandlerWithBudget,
\* claimGNMIDeviceTriggerFire).
THEOREM BudgetInvariant == Spec => []BudgetInv
  <1>1. BudgetInv /\ [Next]_vars => BudgetInv'
    BY StepKeeps
  <1> QED
    BY InitBudget, <1>1, PTL DEF Spec

\* For any parallel step and any notifications: no trigger fires too often or too
\* soon, and the branches of a device share its budget exactly
\* (gnmiTriggerHandlerWithBudget, claimGNMIDeviceTriggerFire).
THEOREM TriggerLimitsHold == Spec => []TriggersKeepLimits
  <1>1. BudgetInv => TriggersKeepLimits
    BY DEF BudgetInv, Limits, Budget, AllFired, FiredBy, TriggersKeepLimits
  <1> QED
    BY BudgetInvariant, <1>1, PTL

-----------------------------------------------------------------------------
(* The merge *)

Sent == {b \in Branches : pc[b] \in {"sent", "gone"}}

Maps ==
  /\ scenario \in Scenarios
  /\ DOMAIN pc = Branches /\ (phase = "start" => \A b \in Branches : pc[b] = "new")
  /\ DOMAIN env = {0} \cup Branches /\ \A b \in {0} \cup Branches : DOMAIN env[b] = Names
  /\ DOMAIN wrote = Branches /\ \A b \in Branches : DOMAIN wrote[b] = Names

\* Every result in the channel is of a branch of its own that has sent it.
Channel == results \in Seq(Branches) /\ Len(results) = Cardinality(Sent)

\* A branch's map is the parent's under what its steps registered, and under the
\* bindings of the trigger while one runs.
Under(b, v) == IF wrote[b][v] # Unset THEN wrote[b][v] ELSE scenario.vars[v]

Copies ==
  \A b \in Branches :
    /\ \A v \in Names : v # "event" \/ pc[b] # "nested" => env[b][v] = Under(b, v)
    /\ Early(b) \/ Live(b) => wrote[b]["event"] = Unset

Merged ==
  /\ phase \in {"start", "collect"} => env[0] = scenario.vars
  /\ phase \in {"start", "collect", "done", "crashed"}
  /\ MergeIsDeclared

MergeInv == Maps /\ Channel /\ Copies /\ Merged

LEMMA BranchNumbers ==
  ASSUME scenario \in Scenarios
  PROVE  /\ Len(scenario.branches) \in Nat /\ Branches \subseteq Nat /\ 0 \notin Branches
         /\ IsFiniteSet(Branches) /\ Cardinality(Branches) = Len(scenario.branches)
  <1>1. Len(scenario.branches) \in Nat
    BY ScenariosAssumption, LenProperties
  <1>2. IsFiniteSet(Branches) /\ Cardinality(Branches) = Len(scenario.branches)
    BY <1>1, FS_Interval DEF Branches
  <1> QED
    BY <1>1, <1>2 DEF Branches

LEMMA LeastOfSome ==
  ASSUME NEW S \in SUBSET Nat, S # {}
  PROVE  \E m \in S : \A n \in S : m <= n
  <1>1. PICK m \in S : \A n \in S : ~(<<n, m>> \in OpToRel(<, Nat))
    BY NatLessThanWellFounded, WFMin
  <1>2. \A n \in S : n \in Nat /\ m \in Nat /\ ~(n < m)
    BY <1>1 DEF OpToRel
  <1> QED
    BY <1>2

\* The merge's first branch is the first in declared order.
LEMMA FirstIsLeast ==
  ASSUME NEW S \in SUBSET Nat, S # {}
  PROVE  First(S) \in S /\ First(S) = Min(S)
  <1>1. PICK m \in S : \A n \in S : m <= n
    BY LeastOfSome
  <1>2. First(S) \in S /\ \A n \in S : First(S) <= n
    BY <1>1 DEF First, Rank
  <1>3. Min(S) \in S /\ \A n \in S : Min(S) <= n
    BY <1>1 DEF Min
  <1>4. \A i, j \in Nat : i <= j /\ j <= i => i = j
    OBVIOUS
  <1> QED
    BY <1>2, <1>3, <1>4

LEMMA InitMerge == Init => MergeInv
  <1> SUFFICES ASSUME Init PROVE MergeInv
    OBVIOUS
  <1>1. Maps
    BY ScenariosAssumption DEF Init, Maps, Nothing
  <1>2. Channel
    <2>1. Sent = {}
      BY DEF Init, Sent
    <2> QED
      BY <2>1, FS_EmptySet DEF Init, Channel
  <1>3. Copies
    BY LimitsAssumption DEF Init, Copies, Under, Nothing
  <1>4. Merged
    BY DEF Init, Merged, MergeIsDeclared
  <1> QED
    BY <1>1, <1>2, <1>3, <1>4 DEF MergeInv

-----------------------------------------------------------------------------
(* One branch moves and leaves what is merged alone. *)

Apart(b) ==
  /\ UNCHANGED <<scenario, results>> /\ phase = "collect" /\ phase' \in {"collect", "crashed"}
  /\ DOMAIN pc' = Branches /\ \A c \in Branches \ {b} : pc'[c] = pc[c]
  /\ pc[b] \notin {"sent", "gone"} /\ pc'[b] \notin {"sent", "gone"}
  /\ Early(b)' \/ Live(b)' => Early(b) \/ Live(b)

LEMMA ApartMerge ==
  ASSUME MergeInv, NEW b \in Branches, Apart(b),
         DOMAIN env' = DOMAIN env, DOMAIN wrote' = DOMAIN wrote,
         \A c \in {0} \cup Branches : c # b => env'[c] = env[c],
         \A c \in Branches : c # b => wrote'[c] = wrote[c],
         DOMAIN env'[b] = Names, DOMAIN wrote'[b] = Names,
         \A v \in Names : v # "event" \/ pc'[b] # "nested" => env'[b][v] = Under(b, v)',
         Early(b)' \/ Live(b)' => wrote'[b]["event"] = Unset
  PROVE  MergeInv'
  <1>1. Branches' = Branches /\ scenario \in Scenarios
    BY DEF Apart, Branches, MergeInv, Maps
  <1>2. Maps'
    BY <1>1 DEF MergeInv, Maps, Apart
  <1>3. Channel'
    <2>1. Sent' = Sent
      BY <1>1 DEF Sent, Apart
    <2> QED
      BY <1>1, <2>1 DEF MergeInv, Channel, Apart
  <1>4. Copies'
    <2>1. ASSUME NEW c \in Branches, c # b
          PROVE  /\ \A v \in Names : v # "event" \/ pc'[c] # "nested" => env'[c][v] = Under(c, v)'
                 /\ Early(c)' \/ Live(c)' => wrote'[c]["event"] = Unset
      <3>1. env'[c] = env[c] /\ wrote'[c] = wrote[c] /\ pc'[c] = pc[c] /\ scenario' = scenario
        BY <2>1 DEF Apart
      <3> QED
        BY <3>1 DEF MergeInv, Copies, Under, Early, Live
    <2> QED
      BY <1>1, <2>1 DEF Copies
  <1>5. Merged'
    <2>1. env'[0] = env[0]
      BY <1>1, BranchNumbers
    <2> QED
      BY <2>1 DEF MergeInv, Merged, Apart, MergeIsDeclared
  <1> QED
    BY <1>2, <1>3, <1>4, <1>5 DEF MergeInv

\* A step that registers nothing.
Dry(b) ==
  Acquire(b) \/ Connect(b) \/ ConnectFails(b) \/ Close(b) \/ Subscribe(b) \/ SubscribeFails(b)
    \/ Receive(b) \/ Sync(b) \/ Skip(b) \/ Pass(b) \/ Reject(b) \/ Panic(b) \/ Handled(b)
    \/ StreamEnds(b) \/ StreamFails(b)

LEMMA DryMerge == ASSUME MergeInv, NEW b \in Branches, Dry(b) PROVE MergeInv'
  <1>0. Maps /\ DOMAIN pc = Branches
    BY DEF MergeInv, Maps
  <1>1. /\ UNCHANGED <<scenario, results, env, wrote>> /\ phase = "collect"
        /\ phase' \in {"collect", "crashed"}
        /\ pc[b] \in {"waiting", "connect", "step", "close", "stream", "handle"}
        /\ DOMAIN pc' = Branches /\ \A c \in Branches \ {b} : pc'[c] = pc[c]
        /\ pc'[b] \in {"connect", "step", "close", "send", "stream", "handle", "over"}
        /\ pc'[b] \in {"connect", "step", "stream", "handle"} =>
             pc[b] \in {"waiting", "connect", "step", "stream", "handle"}
    <2> USE DEF At, Goto, parentVars, histories, branchVars
    <2>1. CASE Acquire(b) \/ Connect(b) \/ ConnectFails(b) \/ Close(b)
      BY <1>0, <2>1 DEF Acquire, Connect, ConnectFails, Close
    <2>2. CASE Subscribe(b) \/ SubscribeFails(b) \/ Receive(b) \/ Sync(b)
      BY <1>0, <2>2 DEF Subscribe, SubscribeFails, Receive, Sync, Break
    <2>3. CASE Skip(b) \/ Pass(b) \/ Panic(b)
      <3>1. /\ UNCHANGED <<scenario, results, env, wrote, pc>> /\ phase = "collect"
            /\ phase' \in {"collect", "crashed"} /\ pc[b] = "handle"
        BY <2>3 DEF Skip, Pass, Panic, Busy
      <3> QED
        BY <1>0, <3>1
    <2>4. CASE Reject(b) \/ Handled(b) \/ StreamEnds(b) \/ StreamFails(b)
      BY <1>0, <2>4 DEF Reject, Handled, StreamEnds, StreamFails, Break, Busy
    <2> QED
      BY <2>1, <2>2, <2>3, <2>4 DEF Dry
  <1>3. pc'[b] # "nested" /\ pc[b] # "nested"
    BY <1>1
  <1>4. Apart(b)
    BY <1>1 DEF Apart, Early, Live
  <1>5. \A v \in Names : env'[b][v] = Under(b, v)'
    BY <1>1, <1>3 DEF MergeInv, Copies, Under
  <1>6. Early(b)' \/ Live(b)' => wrote'[b]["event"] = Unset
    BY <1>1, <1>4 DEF Apart, MergeInv, Copies
  <1> QED
    BY <1>0, <1>1, <1>4, <1>5, <1>6, ApartMerge DEF Maps

\* A step registers what it sets, in its map and in the history alike.
LEMMA SucceedMerge ==
  ASSUME MergeInv, NEW b \in Branches, Succeed(b), At(b, "step") \/ At(b, "over")
  PROVE  MergeInv'
  <1> DEFINE Set(map) == [v \in Names |-> IF Branch(b).sets[v] # Unset THEN Branch(b).sets[v] ELSE map[v]]
  <1>0. Maps
    BY DEF MergeInv
  <1>1. /\ env' = [env EXCEPT ![b] = Set(env[b])] /\ wrote' = [wrote EXCEPT ![b] = Set(wrote[b])]
        /\ UNCHANGED <<scenario, results, phase>> /\ pc' = [pc EXCEPT ![b] = "close"]
    BY DEF Succeed, Register, VarsOf, Goto, parentVars
  <1>2. env'[b] = Set(env[b]) /\ wrote'[b] = Set(wrote[b])
    BY <1>0, <1>1 DEF Maps
  <1>3. Apart(b)
    BY <1>0, <1>1 DEF Apart, Maps, Early, Live, At
  <1>4. pc[b] # "nested" /\ pc'[b] = "close"
    BY <1>0, <1>1 DEF At, Maps
  <1>5. \A v \in Names : env'[b][v] = Under(b, v)'
    <2> SUFFICES ASSUME NEW v \in Names PROVE env'[b][v] = Under(b, v)'
      OBVIOUS
    <2>1. env[b][v] = Under(b, v)
      BY <1>4 DEF MergeInv, Copies
    <2> QED
      BY <1>1, <1>2, <2>1 DEF Under
  <1> QED
    BY <1>0, <1>1, <1>2, <1>3, <1>4, <1>5, ApartMerge DEF Maps, Early, Live

\* The bindings of a trigger come over the map,
LEMMA FireMerge == ASSUME MergeInv, NEW b \in Branches, Fire(b) PROVE MergeInv'
  <1>0. Maps
    BY DEF MergeInv
  <1>1. /\ env' = [env EXCEPT ![b]["event"] = Event(b).path]
        /\ UNCHANGED <<scenario, results, phase, wrote>> /\ pc' = [pc EXCEPT ![b] = "nested"]
        /\ phase = "collect" /\ pc[b] = "handle"
    BY DEF Fire, VarsOf, Goto, parentVars, Busy, At
  <1>2. DOMAIN env'[b] = Names /\ \A v \in Names : v # "event" => env'[b][v] = env[b][v]
    BY <1>0, <1>1 DEF Maps
  <1>3. Apart(b) /\ Live(b)
    BY <1>0, <1>1 DEF Apart, Maps, Early, Live
  <1>4. pc[b] # "nested" /\ pc'[b] = "nested"
    BY <1>0, <1>1 DEF Maps
  <1>5. \A v \in Names : v # "event" => env'[b][v] = Under(b, v)'
    <2> SUFFICES ASSUME NEW v \in Names, v # "event" PROVE env'[b][v] = Under(b, v)'
      OBVIOUS
    <2>1. env[b][v] = Under(b, v)
      BY <1>4 DEF MergeInv, Copies
    <2> QED
      BY <1>1, <1>2, <2>1 DEF Under
  <1>6. wrote[b]["event"] = Unset
    BY <1>3 DEF MergeInv, Copies
  <1> QED
    BY <1>0, <1>1, <1>2, <1>3, <1>4, <1>5, <1>6, ApartMerge DEF Maps

\* and when its steps are over the map is what they made of it before.
LEMMA NestedMerge == ASSUME MergeInv, NEW b \in Branches, RunNested(b) PROVE MergeInv'
  <1> DEFINE Set(map) == [v \in Names |-> IF Chosen(b).sets[v] # Unset THEN Chosen(b).sets[v] ELSE map[v]]
  <1>0. Maps
    BY DEF MergeInv
  <1>1. /\ env' = [env EXCEPT ![b] = [Set(env[b]) EXCEPT !["event"] = Restored(b)]]
        /\ wrote' = [wrote EXCEPT ![b] = [Set(wrote[b]) EXCEPT !["event"] = wrote[b]["event"]]]
        /\ UNCHANGED <<scenario, results, phase>> /\ pc' = [pc EXCEPT ![b] = "handle"]
        /\ phase = "collect" /\ pc[b] = "nested"
    BY DEF RunNested, VarsOf, Goto, parentVars, At
  <1>2. /\ env'[b] = [Set(env[b]) EXCEPT !["event"] = Restored(b)]
        /\ wrote'[b] = [Set(wrote[b]) EXCEPT !["event"] = wrote[b]["event"]]
    BY <1>0, <1>1 DEF Maps
  <1>3. Apart(b) /\ Live(b)
    BY <1>0, <1>1 DEF Apart, Maps, Early, Live
  <1>4. wrote[b]["event"] = Unset
    BY <1>3 DEF MergeInv, Copies
  <1>5. DOMAIN env'[b] = Names /\ DOMAIN wrote'[b] = Names /\ wrote'[b]["event"] = Unset
    BY <1>2, <1>4, LimitsAssumption
  <1>6. \A v \in Names : env'[b][v] = Under(b, v)'
    <2> SUFFICES ASSUME NEW v \in Names PROVE env'[b][v] = Under(b, v)'
      OBVIOUS
    <2>1. CASE v = "event"
      BY <1>1, <1>2, <1>5, <2>1 DEF Under, Restored
    <2>2. CASE v # "event"
      <3>1. env[b][v] = Under(b, v)
        BY <2>2 DEF MergeInv, Copies
      <3>2. env'[b][v] = Set(env[b])[v] /\ wrote'[b][v] = Set(wrote[b])[v]
        BY <1>2, <2>2
      <3> QED
        BY <1>1, <3>1, <3>2 DEF Under
    <2> QED
      BY <2>1, <2>2
  <1> QED
    BY <1>0, <1>1, <1>3, <1>5, <1>6, ApartMerge DEF Maps

LEMMA SendMerge == ASSUME MergeInv, NEW b \in Branches, Send(b) PROVE MergeInv'
  <1>0. Maps /\ Channel
    BY DEF MergeInv
  <1>1. /\ results' = Append(results, b) /\ UNCHANGED <<scenario, phase, env, wrote, failed, runFailed>>
        /\ pc' = [pc EXCEPT ![b] = "sent"] /\ phase = "collect" /\ pc[b] = "send"
    BY DEF Send, Goto, At, parentVars, histories
  <1>2. Branches' = Branches /\ DOMAIN pc' = Branches
    BY <1>0, <1>1 DEF Branches, Maps
  <1>3. Channel'
    <2>1. Sent' = Sent \cup {b} /\ b \notin Sent
      BY <1>0, <1>1, <1>2 DEF Sent, Maps
    <2>2. IsFiniteSet(Sent)
      BY <1>0, BranchNumbers, FS_Subset DEF Sent, Maps
    <2>3. Cardinality(Sent)' = Cardinality(Sent) + 1
      BY <2>1, <2>2, FS_AddElement
    <2>4. results' \in Seq(Branches) /\ Len(results') = Len(results) + 1
      BY <1>0, <1>1, AppendProperties DEF Channel
    <2> QED
      BY <1>0, <1>2, <2>3, <2>4 DEF Channel
  <1>4. Copies'
    BY <1>0, <1>1, <1>2 DEF MergeInv, Copies, Maps, Under, Early, Live
  <1>5. Maps' /\ Merged'
    BY <1>0, <1>1, <1>2 DEF MergeInv, Maps, Merged, MergeIsDeclared
  <1> QED
    BY <1>3, <1>4, <1>5 DEF MergeInv

LEMMA ReleaseMerge == ASSUME MergeInv, NEW b \in Branches, Release(b) PROVE MergeInv'
  <1>0. Maps /\ Channel
    BY DEF MergeInv
  <1>1. /\ UNCHANGED <<scenario, phase, results, env, wrote, failed, runFailed>>
        /\ pc' = [pc EXCEPT ![b] = "gone"] /\ pc[b] = "sent" /\ phase # "start"
    BY DEF Release, Goto, parentVars, histories
  <1>2. Branches' = Branches /\ DOMAIN pc' = Branches
    BY <1>0, <1>1 DEF Branches, Maps
  <1>3. Channel'
    <2>1. Sent' = Sent
      BY <1>0, <1>1, <1>2 DEF Sent, Maps
    <2> QED
      BY <1>0, <1>1, <1>2, <2>1 DEF Channel
  <1>4. Copies'
    BY <1>0, <1>1, <1>2 DEF MergeInv, Copies, Maps, Under, Early, Live
  <1>5. Maps'
    BY <1>0, <1>1, <1>2 DEF Maps
  <1>6. Merged'
    <2>1. MergeIsDeclared' = MergeIsDeclared
      BY <1>1, <1>2 DEF MergeIsDeclared
    <2> QED
      BY <1>1, <2>1 DEF MergeInv, Merged
  <1> QED
    BY <1>3, <1>4, <1>5, <1>6 DEF MergeInv

-----------------------------------------------------------------------------
(* The parent merges: every branch has sent, so no trigger is in between, and *)
(* the branches that changed a variable are those that wrote it.               *)

Writers(v) == {b \in Branches : wrote[b][v] \notin {Unset, scenario.vars[v]}}

LEMMA AllHaveSent ==
  ASSUME MergeInv, Len(results) = Len(scenario.branches), NEW b \in Branches
  PROVE  pc[b] # "nested"
  <1>1. Sent \subseteq Branches /\ Cardinality(Sent) = Cardinality(Branches) /\ IsFiniteSet(Branches)
    BY BranchNumbers DEF MergeInv, Maps, Channel, Sent
  <1>2. Sent = Branches
    BY <1>1, FS_Subset
  <1> QED
    BY <1>2 DEF Sent

LEMMA ChangedAreWriters ==
  ASSUME MergeInv, phase = "collect", Len(results) = Len(scenario.branches), NEW v \in Names
  PROVE  /\ Changed(v) = Writers(v)
         /\ \A b \in Writers(v) : env[b][v] = wrote[b][v]
         /\ env[0][v] = scenario.vars[v]
  <1>1. env[0][v] = scenario.vars[v]
    BY DEF MergeInv, Merged
  <1>2. \A b \in Branches : env[b][v] = Under(b, v)
    BY AllHaveSent DEF MergeInv, Copies
  <1> QED
    BY <1>1, <1>2 DEF Changed, Writers, Under

LEMMA MergeMerge == ASSUME MergeInv, Merge PROVE MergeInv'
  <1>0. Maps /\ Channel
    BY DEF MergeInv
  <1> DEFINE First0(v) == IF Changed(v) = {} THEN env[0][v] ELSE env[First(Changed(v))][v]
  <1>1. /\ phase = "collect" /\ Len(results) = Len(scenario.branches) /\ phase' = "done"
        /\ runFailed' = ((\E b \in Branches : failed[b]) \/ (\E v \in Names : Conflict(v)))
        /\ env' = [env EXCEPT ![0] = [v \in Names |-> First0(v)]]
        /\ UNCHANGED <<scenario, pc, failed, results, wrote>>
    BY DEF Merge, branchVars, histories
  <1>2. Branches' = Branches /\ 0 \notin Branches
    BY <1>0, <1>1, BranchNumbers DEF Branches, Maps
  <1>3. Maps' /\ Channel'
    <2>1. Maps'
      BY <1>0, <1>1, <1>2 DEF Maps
    <2>2. Sent' = Sent
      BY <1>1, <1>2 DEF Sent
    <2> QED
      BY <1>0, <1>1, <1>2, <2>1, <2>2 DEF Channel
  <1>4. Copies'
    <2>1. \A b \in Branches : env'[b] = env[b]
      BY <1>0, <1>1, <1>2 DEF Maps
    <2> QED
      BY <1>1, <1>2, <2>1 DEF MergeInv, Copies, Under, Early, Live
  <1>5. ASSUME NEW v \in Names
        PROVE  env'[0][v] = IF Writers(v) = {} THEN scenario.vars[v] ELSE wrote[Min(Writers(v))][v]
    <2>1. env'[0][v] = First0(v)
      BY <1>0, <1>1 DEF Maps
    <2>2. CASE Writers(v) = {}
      BY <1>1, <2>1, <2>2, ChangedAreWriters
    <2>3. CASE Writers(v) # {}
      <3>1. Changed(v) = Writers(v) /\ \A b \in Writers(v) : env[b][v] = wrote[b][v]
        BY <1>1, ChangedAreWriters
      <3>2. Writers(v) \in SUBSET Nat
        BY <1>0, BranchNumbers DEF Writers, Maps
      <3>3. First(Writers(v)) \in Writers(v) /\ First(Writers(v)) = Min(Writers(v))
        BY <2>3, <3>2, FirstIsLeast
      <3> QED
        BY <2>1, <2>3, <3>1, <3>3
    <2> QED
      BY <2>2, <2>3
  <1>6. (\E v \in Names : Conflict(v))
          <=> (\E v \in Names : \E b, c \in Writers(v) : wrote[b][v] # wrote[c][v])
    BY <1>1, ChangedAreWriters DEF Conflict
  <1>7. MergeIsDeclared'
    <2>1. \A v : Writers(v)' = Writers(v)
      BY <1>1, <1>2 DEF Writers
    <2>2. \A v \in Names : env'[0][v] = IF Writers(v)' = {} THEN scenario'.vars[v]
                                        ELSE wrote'[Min(Writers(v)')][v]
      BY <1>1, <1>5, <2>1
    <2>3. runFailed' <=> \/ \E b \in Branches' : failed'[b]
                         \/ \E v \in Names : \E b, c \in Writers(v)' : wrote'[b][v] # wrote'[c][v]
      BY <1>1, <1>2, <1>6, <2>1
    <2> QED
      BY <2>2, <2>3 DEF MergeIsDeclared, Writers
  <1> QED
    BY <1>1, <1>3, <1>4, <1>7 DEF MergeInv, Merged

LEMMA ParentMerge ==
  ASSUME MergeInv, TooDeep \/ Malformed \/ Spawn \/ Tick \/ UNCHANGED vars PROVE MergeInv'
  <1>0. Maps /\ Channel
    BY DEF MergeInv
  <1>1. CASE TooDeep \/ Malformed
    <2>1. /\ phase = "start" /\ phase' = "done" /\ UNCHANGED <<scenario, pc, failed, results, env, wrote>>
      BY <1>1 DEF TooDeep, Malformed, Refuse, branchVars, histories
    <2>2. results = <<>>
      <3>1. Sent = {}
        BY <1>0, <2>1 DEF Sent, Maps
      <3> QED
        BY <1>0, <3>1, FS_EmptySet, EmptySeq, LenProperties DEF Channel
    <2> QED
      BY <2>1, <2>2 DEF MergeInv, Maps, Channel, Sent, Copies, Under, Early, Live, Merged,
         MergeIsDeclared, Branches
  <1>2. CASE Spawn
    <2>1. /\ phase = "start" /\ phase' = "collect" /\ UNCHANGED <<scenario, failed, results, env, wrote>>
          /\ pc' = [b \in Branches |-> "waiting"]
      BY <1>2 DEF Spawn, histories
    <2>2. Branches' = Branches /\ \A b \in Branches : pc[b] = "new" /\ pc'[b] = "waiting"
      BY <1>0, <2>1 DEF Maps, Branches
    <2>3. Sent' = Sent
      BY <2>2 DEF Sent
    <2> QED
      BY <2>1, <2>2, <2>3 DEF MergeInv, Maps, Channel, Copies, Under, Early, Live, Merged,
         MergeIsDeclared
  <1>3. CASE Tick \/ UNCHANGED vars
    <2>1. UNCHANGED <<scenario, phase, runFailed, pc, failed, results, env, wrote>>
      BY <1>3 DEF Tick, vars, parentVars, branchVars, histories
    <2>2. Branches' = Branches /\ Sent' = Sent
      BY <2>1 DEF Branches, Sent
    <2>3. MergeIsDeclared' = MergeIsDeclared
      BY <2>1, <2>2 DEF MergeIsDeclared
    <2> QED
      BY <2>1, <2>2, <2>3 DEF MergeInv, Maps, Channel, Copies, Under, Early, Live, Merged
  <1> QED
    BY <1>1, <1>2, <1>3

LEMMA StepMerge == ASSUME MergeInv, [Next]_vars PROVE MergeInv'
  <1>1. CASE ParentStep \/ Tick \/ UNCHANGED vars
    BY <1>1, ParentMerge, MergeMerge DEF ParentStep
  <1>2. ASSUME NEW b \in Branches, BranchStep(b) PROVE MergeInv'
    <2>1. CASE Dry(b)
      BY <2>1, DryMerge
    <2>2. CASE RunStep(b) \/ Over(b)
      BY <2>2, SucceedMerge DEF RunStep, Over
    <2>3. CASE Send(b) \/ Release(b) \/ Fire(b) \/ RunNested(b)
      BY <2>3, SendMerge, ReleaseMerge, FireMerge, NestedMerge
    <2> QED
      BY <1>2, <2>1, <2>2, <2>3 DEF BranchStep, Dry
  <1> QED
    BY <1>1, <1>2 DEF Next, Ended

\* The inductive invariant of the merge: a branch's map is the parent's under what
\* its steps registered, the bindings of a trigger are over it only while the trigger
\* runs, and the results in the channel are of the branches that have sent
\* (executeParallel, scopedVariables).
THEOREM MergeInvariant == Spec => []MergeInv
  <1>1. MergeInv /\ [Next]_vars => MergeInv'
    BY StepMerge
  <1> QED
    BY InitMerge, <1>1, PTL DEF Spec

\* For any branches and any interleaving, the parent is left with what the first
\* declared writer of each variable registered, and has failed exactly if a branch
\* has or two of them disagree (executeParallel).
THEOREM MergeDeclared == Spec => []MergeIsDeclared
  <1>1. MergeInv => MergeIsDeclared
    BY DEF MergeInv, Merged
  <1> QED
    BY MergeInvariant, <1>1, PTL

-----------------------------------------------------------------------------
(* Quotients, greatest elements, sums *)

LEMMA QuotientOf ==
  ASSUME NEW n \in Nat \ {0}, NEW q \in Nat, NEW r \in 0..(n - 1), NEW k \in Nat, k = n * q + r
  PROVE  k \div n = q /\ k % n = r
  <1>1. PICK p \in Nat : k \div n = p
    OBVIOUS
  <1>2. PICK m \in 0..(n - 1) : k % n = m
    OBVIOUS
  <1>3. k = n * p + m
    <2>1. k = n * (k \div n) + (k % n)
      OBVIOUS
    <2> QED
      BY <1>1, <1>2, <2>1
  <1>4. ASSUME NEW a \in Nat, NEW c \in Nat, a < c PROVE n * c >= n * a + n
    <2>1. PICK d \in Nat : c = a + 1 + d
      <3>1. c - a - 1 \in Nat /\ c = a + 1 + (c - a - 1)
        BY <1>4
      <3> QED
        BY <3>1
    <2>2. n * c = n * a + n + n * d /\ n * d \in Nat /\ n * a \in Nat
      BY <2>1
    <2> QED
      BY <2>2
  <1>5. n * p \in Nat /\ n * q \in Nat
    OBVIOUS
  <1>6. ~(p < q) /\ ~(q < p)
    <2>1. ~(p < q)
      <3> SUFFICES ASSUME p < q PROVE FALSE
        OBVIOUS
      <3>1. n * q >= n * p + n
        BY <1>4
      <3> QED
        BY <1>3, <1>5, <3>1
    <2>2. ~(q < p)
      <3> SUFFICES ASSUME q < p PROVE FALSE
        OBVIOUS
      <3>1. n * p >= n * q + n
        BY <1>4
      <3> QED
        BY <1>3, <1>5, <3>1
    <2> QED
      BY <2>1, <2>2
  <1>7. p = q
    BY <1>6
  <1>8. m = r
    BY <1>3, <1>5, <1>7
  <1> QED
    BY <1>1, <1>2, <1>7, <1>8

\* The k-th of the tasks of m events and n triggers.
LEMMA TaskNumbers ==
  ASSUME NEW n \in Nat, NEW m \in Nat, NEW k \in 1..(n * m)
  PROVE  /\ n # 0 /\ ((k - 1) \div n) + 1 \in 1..m /\ ((k - 1) % n) + 1 \in 1..n
         /\ (k - 1) % n = n - 1 /\ k < n * m => k % n = 0
         /\ (k - 1) % n # n - 1 => /\ k < n * m /\ k \div n = (k - 1) \div n
                                   /\ k % n = ((k - 1) % n) + 1
  <1>1. n # 0 /\ n \in Nat \ {0} /\ k - 1 \in Nat /\ k \in Nat /\ n * m \in Nat
    <2>1. n # 0
      <3> SUFFICES ASSUME n = 0 PROVE FALSE
        OBVIOUS
      <3>1. n * m = 0
        OBVIOUS
      <3> QED
        BY <3>1
    <2> QED
      BY <2>1
  <1>2. PICK q \in Nat : (k - 1) \div n = q
    BY <1>1
  <1>3. PICK r \in 0..(n - 1) : (k - 1) % n = r
    BY <1>1
  <1>4. k = n * q + r + 1 /\ n * q \in Nat
    <2>1. k - 1 = n * ((k - 1) \div n) + ((k - 1) % n)
      BY <1>1
    <2> QED
      BY <1>2, <1>3, <2>1
  <1>5. ASSUME NEW a \in Nat, NEW c \in Nat, a <= c PROVE n * c >= n * a
    <2>1. PICK d \in Nat : c = a + d
      <3>1. c - a \in Nat /\ c = a + (c - a)
        BY <1>5
      <3> QED
        BY <3>1
    <2>2. n * c = n * a + n * d /\ n * d \in Nat /\ n * a \in Nat
      BY <2>1
    <2> QED
      BY <2>2
  <1>6. q + 1 <= m
    <2> SUFFICES ASSUME m <= q PROVE FALSE
      BY <1>1
    <2>1. n * q >= n * m
      BY <1>5
    <2> QED
      BY <1>1, <1>4, <2>1
  <1>7. n * m >= n * q + n
    <2>1. n * m >= n * (q + 1) /\ n * (q + 1) = n * q + n
      BY <1>5, <1>6
    <2> QED
      BY <2>1
  <1>8. ASSUME r = n - 1 PROVE k % n = 0
    <2>1. k = n * (q + 1) + 0 /\ q + 1 \in Nat
      BY <1>1, <1>4, <1>8
    <2> QED
      BY <1>1, <2>1, QuotientOf
  <1>9. ASSUME r # n - 1 PROVE k < n * m /\ k \div n = q /\ k % n = r + 1
    <2>1. k = n * q + (r + 1) /\ r + 1 \in 0..(n - 1) /\ k < n * m
      BY <1>1, <1>4, <1>7, <1>9
    <2> QED
      BY <1>1, <2>1, QuotientOf
  <1> QED
    BY <1>1, <1>2, <1>3, <1>6, <1>8, <1>9

LEMMA GreatestOf ==
  ASSUME NEW n \in Nat, NEW S \in SUBSET (1..n), S # {}
  PROVE  Max(S) \in S /\ \A i \in S : i <= Max(S)
  <1> DEFINE T == {n - i : i \in S}
  <1>1. T \in SUBSET Nat /\ T # {}
    <2>1. \A i \in S : i \in 1..n /\ n - i \in Nat
      OBVIOUS
    <2> QED
      BY <2>1
  <1>2. PICK m \in T : \A k \in T : m <= k
    BY <1>1, LeastOfSome
  <1>3. PICK i \in S : m = n - i
    BY <1>2
  <1>4. \A j \in S : i >= j
    BY <1>2, <1>3
  <1>5. Max(S) \in S /\ \A y \in S : Max(S) >= y
    BY <1>3, <1>4 DEF Max
  <1> QED
    BY <1>5

IsTotal(g, f, n) ==
  g = [i \in 0..n |-> IF i = 0 THEN <<0, 1>>
                      ELSE IF i \in DOMAIN f THEN Plus(g[i - 1], f[i]) ELSE g[i - 1]]

TotalOf(f, n) == CHOOSE g : IsTotal(g, f, n)

LEMMA TotalChosen == ASSUME NEW f, NEW n PROVE Total(f, n) = TotalOf(f, n)[n]
  BY DEF Total, IsTotal, TotalOf

LEMMA HasTotal == ASSUME NEW f, NEW n \in Nat PROVE \E g : IsTotal(g, f, n)
  <1> DEFINE Lacks == {k \in Nat : ~\E g : IsTotal(g, f, k)}
  <1> SUFFICES Lacks = {}
    OBVIOUS
  <1> SUFFICES ASSUME Lacks # {} PROVE FALSE
    OBVIOUS
  <1>1. PICK m \in Lacks : \A k \in Lacks : m <= k
    BY LeastOfSome
  <1>2. CASE m = 0
    <2> DEFINE g == [i \in 0..0 |-> <<0, 1>>]
    <2>1. IsTotal(g, f, 0)
      BY DEF IsTotal
    <2> QED
      BY <1>2, <2>1
  <1>3. CASE m # 0
    <2>1. m - 1 \in Nat /\ m - 1 \notin Lacks
      BY <1>1, <1>3
    <2>2. PICK g : IsTotal(g, f, m - 1)
      BY <2>1
    <2> DEFINE h == [i \in 0..m |-> IF i = m THEN (IF m \in DOMAIN f THEN Plus(g[m - 1], f[m]) ELSE g[m - 1])
                                    ELSE g[i]]
    <2>3. \A i \in 0..(m - 1) : h[i] = g[i]
      BY <1>1
    <2>4. \A i \in 0..(m - 1) : g[i] = IF i = 0 THEN <<0, 1>>
                      ELSE IF i \in DOMAIN f THEN Plus(g[i - 1], f[i]) ELSE g[i - 1]
      BY <2>2 DEF IsTotal
    <2>5. \A i \in 0..m : h[i] = IF i = 0 THEN <<0, 1>>
                      ELSE IF i \in DOMAIN f THEN Plus(h[i - 1], f[i]) ELSE h[i - 1]
      <3> SUFFICES ASSUME NEW i \in 0..m
                   PROVE h[i] = IF i = 0 THEN <<0, 1>>
                      ELSE IF i \in DOMAIN f THEN Plus(h[i - 1], f[i]) ELSE h[i - 1]
        OBVIOUS
      <3>1. CASE i = m
        <4>1. h[m] = IF m \in DOMAIN f THEN Plus(g[m - 1], f[m]) ELSE g[m - 1]
          BY <1>1
        <4>2. h[m - 1] = g[m - 1]
          BY <2>1, <2>3
        <4> QED
          BY <1>3, <3>1, <4>1, <4>2
      <3>2. CASE i # m /\ i # 0
        <4>1. i \in 0..(m - 1) /\ i - 1 \in 0..(m - 1)
          BY <1>1, <3>2
        <4>2. h[i] = g[i] /\ h[i - 1] = g[i - 1]
          BY <2>3, <4>1
        <4> HIDE DEF h
        <4> QED
          BY <2>4, <3>2, <4>1, <4>2
      <3>3. CASE i = 0
        <4>1. i \in 0..(m - 1)
          BY <2>1, <3>3
        <4> QED
          BY <2>3, <2>4, <3>3, <4>1
      <3> QED
        BY <3>1, <3>2, <3>3
    <2>6. h = [i \in 0..m |-> h[i]]
      OBVIOUS
    <2> HIDE DEF h
    <2>7. IsTotal(h, f, m)
      BY <2>5, <2>6 DEF IsTotal
    <2> QED
      BY <1>1, <2>7
  <1> QED
    BY <1>2, <1>3

SameAddends(f, f2, n) ==
  \A i \in 1..n : (i \in DOMAIN f <=> i \in DOMAIN f2) /\ (i \in DOMAIN f => f[i] = f2[i])

LEMMA TotalsAgree ==
  ASSUME NEW f, NEW f2, NEW n \in Nat, NEW g, NEW g2, NEW n2 \in Nat, n <= n2,
         IsTotal(g, f, n), IsTotal(g2, f2, n2),
         SameAddends(f, f2, n)
  PROVE  \A i \in 0..n : g[i] = g2[i]
  <1> DEFINE Apt == {k \in 0..n : g[k] # g2[k]}
  <1> SUFFICES ASSUME Apt # {} PROVE FALSE
    OBVIOUS
  <1>1. Apt \in SUBSET Nat
    OBVIOUS
  <1>2. PICK m \in Apt : \A k \in Apt : m <= k
    BY <1>1, LeastOfSome
  <1>3. m \in 0..n /\ m \in 0..n2 /\ m \in Nat /\ g[m] # g2[m]
    BY <1>2
  <1>4. g[m] = IF m = 0 THEN <<0, 1>> ELSE IF m \in DOMAIN f THEN Plus(g[m - 1], f[m]) ELSE g[m - 1]
    BY <1>3 DEF IsTotal
  <1>5. g2[m] = IF m = 0 THEN <<0, 1>> ELSE IF m \in DOMAIN f2 THEN Plus(g2[m - 1], f2[m]) ELSE g2[m - 1]
    BY <1>3 DEF IsTotal
  <1>6. m # 0
    BY <1>3, <1>4, <1>5
  <1>7. m - 1 \in 0..n /\ m - 1 \notin Apt /\ m \in 1..n
    BY <1>2, <1>3, <1>6
  <1>8. g[m - 1] = g2[m - 1]
    BY <1>7
  <1> QED
    BY <1>3, <1>4, <1>5, <1>6, <1>7, <1>8 DEF SameAddends

LEMMA TotalSame ==
  ASSUME NEW f, NEW f2, NEW n \in Nat, SameAddends(f, f2, n)
  PROVE  Total(f, n) = Total(f2, n)
  <1>1. PICK g : g = TotalOf(f, n)
    OBVIOUS
  <1>2. PICK g2 : g2 = TotalOf(f2, n)
    OBVIOUS
  <1>3. IsTotal(g, f, n) /\ IsTotal(g2, f2, n) /\ n <= n
    BY <1>1, <1>2, HasTotal DEF TotalOf
  <1>4. \A i \in 0..n : g[i] = g2[i]
    BY <1>3, TotalsAgree
  <1> QED
    BY <1>1, <1>2, <1>4, TotalChosen

LEMMA TotalOfNone == ASSUME NEW f PROVE Total(f, 0) = <<0, 1>>
  <1>1. PICK g : g = TotalOf(f, 0)
    OBVIOUS
  <1>2. IsTotal(g, f, 0)
    BY <1>1, HasTotal DEF TotalOf
  <1>3. g[0] = <<0, 1>>
    BY <1>2 DEF IsTotal
  <1> QED
    BY <1>1, <1>3, TotalChosen

LEMMA TotalNext ==
  ASSUME NEW f, NEW n \in Nat
  PROVE  Total(f, n + 1) = IF n + 1 \in DOMAIN f THEN Plus(Total(f, n), f[n + 1]) ELSE Total(f, n)
  <1>1. PICK g : g = TotalOf(f, n)
    OBVIOUS
  <1>2. PICK m \in Nat : m = n + 1
    OBVIOUS
  <1>3. PICK g2 : g2 = TotalOf(f, m)
    OBVIOUS
  <1>4. IsTotal(g, f, n) /\ IsTotal(g2, f, m) /\ n <= m /\ SameAddends(f, f, n)
    BY <1>1, <1>2, <1>3, HasTotal DEF TotalOf, SameAddends
  <1>5. \A i \in 0..n : g[i] = g2[i]
    BY <1>4, TotalsAgree
  <1>6. g2[m] = IF m = 0 THEN <<0, 1>> ELSE IF m \in DOMAIN f THEN Plus(g2[m - 1], f[m]) ELSE g2[m - 1]
    BY <1>4 DEF IsTotal
  <1>7. m # 0 /\ m - 1 = n /\ n \in 0..n
    BY <1>2
  <1> QED
    BY <1>1, <1>2, <1>3, <1>5, <1>6, <1>7, TotalChosen

-----------------------------------------------------------------------------
(* What a trigger makes of one more event *)

SameEvents(s, s2, n) == \A i \in 1..n : s[i] = s2[i]

LEMMA MetricsAreSamples ==
  ASSUME NEW t, NEW s, NEW n \in Nat, NEW is \in SUBSET (1..n)
  PROVE  /\ Metrics(t, s, is) \subseteq is /\ Base(t, s, is) \subseteq Metrics(t, s, is)
         /\ IsFiniteSet(Metrics(t, s, is)) /\ IsFiniteSet(Base(t, s, is))
         /\ Cardinality(Metrics(t, s, is)) \in Nat /\ Cardinality(Base(t, s, is)) \in Nat
         /\ \A i \in Metrics(t, s, is) : t.rate => Before(is, i) # {}
         /\ \A i \in is : Before(is, i) # {} => Previous(is, i) \in is
  <1>1. Metrics(t, s, is) \subseteq is /\ Base(t, s, is) \subseteq Metrics(t, s, is)
    BY DEF Metrics, Base
  <1>2. IsFiniteSet(1..n)
    BY FS_Interval
  <1>3. \A i \in is : Before(is, i) # {} => Previous(is, i) \in is
    <2> SUFFICES ASSUME NEW i \in is, Before(is, i) # {} PROVE Previous(is, i) \in is
      OBVIOUS
    <2>1. Before(is, i) \in SUBSET (1..n) /\ Before(is, i) \subseteq is
      BY DEF Before
    <2>2. Max(Before(is, i)) \in Before(is, i)
      BY <2>1, GreatestOf
    <2> QED
      BY <2>1, <2>2 DEF Previous
  <1>4. \A i \in Metrics(t, s, is) : t.rate => Before(is, i) # {}
    BY DEF Metrics
  <1>5. IsFiniteSet(Metrics(t, s, is))
    BY <1>1, <1>2, FS_Subset
  <1>6. IsFiniteSet(Base(t, s, is))
    BY <1>1, <1>5, FS_Subset
  <1> QED
    BY <1>1, <1>3, <1>4, <1>5, <1>6, FS_CardinalityType

\* An alarm is told from the events up to it.
Alike(t, s, s2, is) ==
  /\ Metrics(t, s2, is) = Metrics(t, s, is) /\ Base(t, s2, is) = Base(t, s, is)
  /\ \A k : BaseSum(t, s2, is, k) = BaseSum(t, s, is, k)
  /\ \A k : Alarm(t, s2, is, k) <=> Alarm(t, s, is, k)

LEMMA SameSignals ==
  ASSUME NEW t, NEW s, NEW s2, NEW n \in Nat, SameEvents(s, s2, n), NEW is \in SUBSET (1..n)
  PROVE  Alike(t, s, s2, is)
  <1>1. \A i \in is : s2[i] = s[i]
    BY DEF SameEvents
  <1>2. Metrics(t, s2, is) = Metrics(t, s, is)
    <2>1. \A i \in is : Before(is, i) # {} => Previous(is, i) \in is
      BY MetricsAreSamples
    <2> QED
      BY <1>1, <2>1 DEF Metrics
  <1>3. Base(t, s2, is) = Base(t, s, is)
    BY <1>2 DEF Base
  <1>4. \A i \in Metrics(t, s, is) : Metric(t, s2, is, i) = Metric(t, s, is, i)
    <2>1. /\ Metrics(t, s, is) \subseteq is /\ \A i \in Metrics(t, s, is) : t.rate => Before(is, i) # {}
          /\ \A i \in is : Before(is, i) # {} => Previous(is, i) \in is
      BY MetricsAreSamples
    <2> QED
      BY <1>1, <2>1 DEF Metric
  <1>5. \A k : BaseSum(t, s2, is, k) = BaseSum(t, s, is, k)
    <2>1. \A i \in Base(t, s, is) : Metric(t, s2, is, i) = Metric(t, s, is, i)
      BY <1>4, MetricsAreSamples
    <2>2. [i \in Base(t, s2, is) |-> Metric(t, s2, is, i)] = [i \in Base(t, s, is) |-> Metric(t, s, is, i)]
      BY <1>3, <2>1
    <2> QED
      BY <2>2 DEF BaseSum
  <1>6. \A k : Alarm(t, s2, is, k) <=> Alarm(t, s, is, k)
    <2> SUFFICES ASSUME NEW k PROVE Alarm(t, s2, is, k) <=> Alarm(t, s, is, k)
      OBVIOUS
    <2>1. CASE k \in Metrics(t, s, is)
      <3>1. Metric(t, s2, is, k) = Metric(t, s, is, k) /\ BaseSum(t, s2, is, k) = BaseSum(t, s, is, k)
        BY <1>4, <1>5, <2>1
      <3> QED
        BY <1>2, <1>3, <3>1 DEF Alarm
    <2>2. CASE k \notin Metrics(t, s, is)
      BY <1>2, <2>2 DEF Alarm
    <2> QED
      BY <2>1, <2>2
  <1> QED
    BY <1>2, <1>3, <1>5, <1>6 DEF Alike

\* With the sample m after those in is, they are js.
Continues(t, s, is, js, m) ==
  /\ Before(js, m) = is /\ m \notin is /\ Max(js) = m /\ Previous(js, m) = Max(is)
  /\ \A i \in is : Metric(t, s, js, i) = Metric(t, s, is, i)
  /\ Metrics(t, s, js) \ {m} = Metrics(t, s, is)
  /\ Base(t, s, js) \ {m} = Base(t, s, is)
  /\ Before(Metrics(t, s, js), m) = Metrics(t, s, is)

LEMMA OneMoreSample ==
  ASSUME NEW t, NEW s, NEW n \in Nat, NEW is \in SUBSET (1..n), NEW m \in Nat, m = n + 1,
         NEW js, js = is \cup {m}
  PROVE  Continues(t, s, is, js, m)
  <1>1. \A i \in is : i \in 1..n /\ i < m /\ m \in Nat
    OBVIOUS
  <1>2. Before(js, m) = is /\ m \notin is /\ Previous(js, m) = Max(is)
    <2>1. m \notin is /\ ~(m < m)
      BY <1>1
    <2>2. Before(js, m) = is
      BY <1>1, <2>1 DEF Before
    <2> QED
      BY <2>1, <2>2 DEF Previous
  <1>3. Max(js) = m
    <2>1. js \in SUBSET (1..m) /\ js # {} /\ m \in js /\ m \in Nat
      BY <1>1
    <2>2. Max(js) \in js /\ \A i \in js : i <= Max(js)
      BY <2>1, GreatestOf
    <2>3. m <= Max(js)
      BY <2>1, <2>2
    <2>4. \A i \in is : ~(m <= i)
      BY <1>1
    <2> QED
      BY <2>2, <2>3, <2>4
  <1>4. \A i \in is : Before(js, i) = Before(is, i)
    BY <1>1 DEF Before
  <1>5. \A i \in is : Metric(t, s, js, i) = Metric(t, s, is, i)
    BY <1>4 DEF Metric, Previous
  <1>6. Metrics(t, s, js) \ {m} = Metrics(t, s, is)
    BY <1>2, <1>4 DEF Metrics, Previous
  <1>7. Metrics(t, s, js) \subseteq js /\ Metrics(t, s, is) \subseteq is
    BY DEF Metrics
  <1>8. \A i \in is : Before(Metrics(t, s, js), i) = Before(Metrics(t, s, is), i)
    BY <1>1, <1>6, <1>7 DEF Before
  <1>9. Before(Metrics(t, s, js), m) = Metrics(t, s, is)
    <2>1. \A i \in Metrics(t, s, is) : i < m
      BY <1>1, <1>7
    <2>2. ~(m < m)
      OBVIOUS
    <2> QED
      BY <1>6, <2>1, <2>2 DEF Before
  <1>10. Base(t, s, js) \ {m} = Base(t, s, is)
    BY <1>2, <1>6, <1>7, <1>8 DEF Base
  <1> QED
    BY <1>2, <1>3, <1>5, <1>6, <1>9, <1>10 DEF Continues

\* What is not in the baseline does not add to it.
LEMMA NoAddend ==
  ASSUME NEW t, NEW s, NEW n \in Nat, NEW is \in SUBSET (1..n), NEW m \in Nat, m = n + 1,
         NEW js, js = is \cup {m} \/ js = is, m \notin Base(t, s, js)
  PROVE  Base(t, s, js) = Base(t, s, is) /\ BaseSum(t, s, js, m) = BaseSum(t, s, is, n)
  <1> DEFINE f == [i \in Base(t, s, is) |-> Metric(t, s, is, i)]
  <1>0. Base(t, s, is) \subseteq is
    BY MetricsAreSamples
  <1>1. Base(t, s, js) = Base(t, s, is) /\ \A i \in is : Metric(t, s, js, i) = Metric(t, s, is, i)
    <2>1. CASE js = is
      BY <2>1
    <2>2. CASE js = is \cup {m}
      <3>1. Continues(t, s, is, js, m)
        BY <2>2, OneMoreSample
      <3> QED
        BY <3>1 DEF Continues
    <2> QED
      BY <2>1, <2>2
  <1>3. \A i \in Base(t, s, is) : Metric(t, s, js, i) = Metric(t, s, is, i)
    BY <1>0, <1>1
  <1>4. [i \in Base(t, s, js) |-> Metric(t, s, js, i)] = f
    BY <1>1, <1>3
  <1>5. m \notin DOMAIN f
    BY <1>1
  <1>6. BaseSum(t, s, js, m) = Total(f, n + 1) /\ BaseSum(t, s, is, n) = Total(f, n)
    BY <1>4 DEF BaseSum
  <1>7. n + 1 \notin DOMAIN f
    BY <1>5
  <1> HIDE DEF f
  <1> QED
    BY <1>1, <1>6, <1>7, TotalNext

\* The sample m is the next of the baseline.
Adds(t, s, is, js, n, m) ==
  /\ Base(t, s, js) = Base(t, s, is) \cup {m}
  /\ Cardinality(Base(t, s, js)) = Cardinality(Base(t, s, is)) + 1
  /\ BaseSum(t, s, js, m) = Plus(BaseSum(t, s, is, n), Metric(t, s, js, m))

LEMMA OneMoreAddend ==
  ASSUME NEW t, NEW s, NEW n \in Nat, NEW is \in SUBSET (1..n), NEW m \in Nat, m = n + 1,
         NEW js, js = is \cup {m}, m \in Base(t, s, js)
  PROVE  Adds(t, s, is, js, n, m)
  <1> DEFINE f == [i \in Base(t, s, is) |-> Metric(t, s, is, i)]
             g == [i \in Base(t, s, js) |-> Metric(t, s, js, i)]
  <1>0. /\ m \notin is /\ Base(t, s, js) \ {m} = Base(t, s, is)
        /\ \A i \in is : Metric(t, s, js, i) = Metric(t, s, is, i)
    <2>1. Continues(t, s, is, js, m)
      BY OneMoreSample
    <2> QED
      BY <2>1 DEF Continues
  <1>1. Base(t, s, js) = Base(t, s, is) \cup {m} /\ m \notin is
    BY <1>0
  <1>2. Base(t, s, is) \subseteq is /\ IsFiniteSet(Base(t, s, is))
    BY MetricsAreSamples
  <1>3. Cardinality(Base(t, s, js)) = Cardinality(Base(t, s, is)) + 1
    BY <1>1, <1>2, FS_AddElement
  <1>4. \A i \in Base(t, s, is) : Metric(t, s, js, i) = Metric(t, s, is, i)
    BY <1>0, <1>2
  <1>5. SameAddends(g, f, n)
    <2>1. \A i \in 1..n : i # m
      OBVIOUS
    <2> QED
      BY <1>1, <1>4, <2>1 DEF SameAddends
  <1>6. n + 1 \in DOMAIN g /\ g[n + 1] = Metric(t, s, js, m)
    BY <1>1
  <1>7. BaseSum(t, s, js, m) = Total(g, n + 1) /\ BaseSum(t, s, is, n) = Total(f, n)
    BY DEF BaseSum
  <1> HIDE DEF f, g
  <1>8. Total(g, n) = Total(f, n) /\ Total(g, n + 1) = Plus(Total(g, n), g[n + 1])
    BY <1>5, <1>6, TotalSame, TotalNext
  <1> QED
    BY <1>1, <1>3, <1>6, <1>7, <1>8 DEF Adds

\* The baseline of a trigger that has looked at the events is, of the first n of s.
Counted(st, t, s, is, n) ==
  Baselined(t) =>
    /\ st.count = Cardinality(Base(t, s, is)) /\ st.sum = BaseSum(t, s, is, n)
    /\ st.count <= Samples(t)
    /\ st.count < Samples(t) => Base(t, s, is) = Metrics(t, s, is)

Remembers(st, t, s, is, n) ==
  /\ DOMAIN st = {"previous", "sum", "count"}
  /\ st.previous = IF t.rate /\ is # {} THEN <<s[Max(is)].value, s[Max(is)].time>> ELSE <<>>
  /\ \A i \in is : s[i].value \in Int /\ s[i].time \in Nat
  /\ Counted(st, t, s, is, n)

LEMMA NoMetricCounted ==
  ASSUME NEW t, NEW s, NEW n \in Nat, NEW is \in SUBSET (1..n), NEW m \in Nat, m = n + 1,
         NEW js, js = is \cup {m} \/ js = is, m \notin Metrics(t, s, js),
         NEW st, NEW su, su.count = st.count, su.sum = st.sum, Counted(st, t, s, is, n)
  PROVE  Counted(su, t, s, js, m)
  <1>1. m \notin Base(t, s, js)
    BY DEF Base
  <1>2. Base(t, s, js) = Base(t, s, is) /\ BaseSum(t, s, js, m) = BaseSum(t, s, is, n)
    BY <1>1, NoAddend
  <1>3. Metrics(t, s, js) = Metrics(t, s, is)
    <2>1. CASE js = is
      BY <2>1
    <2>2. CASE js = is \cup {m}
      <3>1. Continues(t, s, is, js, m)
        BY <2>2, OneMoreSample
      <3> QED
        BY <3>1 DEF Continues
    <2> QED
      BY <2>1, <2>2
  <1> QED
    BY <1>2, <1>3 DEF Counted

\* The baseline is full, or every metric is in it.
LEMMA MetricCounted ==
  ASSUME NEW t, NEW s, NEW n \in Nat, NEW is \in SUBSET (1..n), NEW m \in Nat, m = n + 1,
         NEW js, js = is \cup {m}, m \in Metrics(t, s, js), Baselined(t), Samples(t) \in Nat,
         NEW st, Counted(st, t, s, is, n)
  PROVE  /\ st.count < Samples(t) =>
              /\ m \in Base(t, s, js)
              /\ \A su : su.count = st.count + 1 /\ su.sum = Plus(st.sum, Metric(t, s, js, m)) =>
                           Counted(su, t, s, js, m)
         /\ ~(st.count < Samples(t)) =>
              /\ m \notin Base(t, s, js) /\ st.count = Samples(t)
              /\ BaseSum(t, s, js, m) = st.sum
              /\ \A su : su.count = st.count /\ su.sum = st.sum => Counted(su, t, s, js, m)
  <1>0. /\ st.count = Cardinality(Base(t, s, is)) /\ st.sum = BaseSum(t, s, is, n)
        /\ st.count <= Samples(t)
        /\ st.count < Samples(t) => Base(t, s, is) = Metrics(t, s, is)
    BY DEF Counted
  <1>1. Continues(t, s, is, js, m)
    BY OneMoreSample
  <1>2. m \in Base(t, s, js) <=> Cardinality(Metrics(t, s, is)) < Samples(t)
    BY <1>1 DEF Continues, Base
  <1>3. /\ Base(t, s, is) \subseteq Metrics(t, s, is) /\ IsFiniteSet(Metrics(t, s, is))
        /\ Cardinality(Metrics(t, s, is)) \in Nat /\ Cardinality(Base(t, s, is)) \in Nat
    BY MetricsAreSamples
  <1>4. Cardinality(Base(t, s, is)) <= Cardinality(Metrics(t, s, is))
    BY <1>3, FS_Subset
  <1>5. ASSUME st.count < Samples(t)
        PROVE  /\ m \in Base(t, s, js)
               /\ \A su : su.count = st.count + 1 /\ su.sum = Plus(st.sum, Metric(t, s, js, m)) =>
                           Counted(su, t, s, js, m)
    <2>1. m \in Base(t, s, js)
      BY <1>0, <1>2, <1>5
    <2>2. /\ Base(t, s, js) = Base(t, s, is) \cup {m}
          /\ Cardinality(Base(t, s, js)) = Cardinality(Base(t, s, is)) + 1
          /\ BaseSum(t, s, js, m) = Plus(BaseSum(t, s, is, n), Metric(t, s, js, m))
      <3>1. Adds(t, s, is, js, n, m)
        BY <2>1, OneMoreAddend
      <3> QED
        BY <3>1 DEF Adds
    <2>3. Base(t, s, js) = Metrics(t, s, js)
      BY <1>0, <1>1, <1>5, <2>2 DEF Continues
    <2>4. st.count + 1 <= Samples(t)
      BY <1>0, <1>3, <1>5
    <2>5. ASSUME NEW su, su.count = st.count + 1, su.sum = Plus(st.sum, Metric(t, s, js, m))
          PROVE  Counted(su, t, s, js, m)
      <3>1. su.count = Cardinality(Base(t, s, js)) /\ su.sum = BaseSum(t, s, js, m) /\ su.count <= Samples(t)
        BY <1>0, <2>2, <2>4, <2>5
      <3> QED
        BY <2>3, <3>1 DEF Counted
    <2> QED
      BY <2>1, <2>5
  <1>6. ASSUME ~(st.count < Samples(t))
        PROVE  /\ m \notin Base(t, s, js) /\ st.count = Samples(t)
               /\ BaseSum(t, s, js, m) = st.sum
               /\ \A su : su.count = st.count /\ su.sum = st.sum => Counted(su, t, s, js, m)
    <2>1. st.count = Samples(t)
      BY <1>0, <1>3, <1>6
    <2>2. m \notin Base(t, s, js)
      BY <1>0, <1>2, <1>3, <1>4, <2>1
    <2>3. Base(t, s, js) = Base(t, s, is) /\ BaseSum(t, s, js, m) = BaseSum(t, s, is, n)
      BY <2>2, NoAddend
    <2>4. ASSUME NEW su, su.count = st.count, su.sum = st.sum PROVE Counted(su, t, s, js, m)
      BY <1>0, <1>6, <2>3, <2>4 DEF Counted
    <2> QED
      BY <1>0, <2>1, <2>2, <2>3, <2>4
  <1> QED
    BY <1>5, <1>6

\* The metric of the event m has been judged with the numbers st.
Weighed(a, st, t, s, js, m) ==
  /\ a.outcome = "ready" <=> Alarm(t, s, js, m)
  /\ DOMAIN a.state = {"previous", "sum", "count"} /\ a.state.previous = st.previous
  /\ Counted(a.state, t, s, js, m)

LEMMA JudgeIsExact ==
  ASSUME NEW t, NEW s, NEW n \in Nat, NEW is \in SUBSET (1..n), NEW m \in Nat, m = n + 1,
         NEW js, js = is \cup {m}, m \in Metrics(t, s, js), Samples(t) \in Nat,
         NEW st, Counted(st, t, s, is, n), DOMAIN st = {"previous", "sum", "count"},
         NEW a, a = Judge(t, st, Metric(t, s, js, m)), a.outcome \in {"idle", "ready"}
  PROVE  Weighed(a, st, t, s, js, m)
  <1> DEFINE x == Metric(t, s, js, m)
  <1> HIDE DEF x
  <1>0. a = Judge(t, st, x)
    BY DEF x
  <1>1. CASE ~Baselined(t)
    <2>1. t.cond # Unset
      BY <1>0, <1>1 DEF Judge, Answer
    <2>2. a = Answer(st, IF Compare(t, x) THEN "ready" ELSE "idle", x)
      BY <1>0, <1>1, <2>1 DEF Judge
    <2>3. a.state = st /\ (a.outcome = "ready" <=> Compare(t, x))
      BY <2>2 DEF Answer
    <2>4. Alarm(t, s, js, m) <=> Compare(t, x)
      BY <1>1 DEF Alarm, x
    <2> QED
      BY <1>1, <2>3, <2>4 DEF Counted, Weighed
  <1>2. CASE Baselined(t) /\ st.count < Samples(t)
    <2>1. a = Answer([st EXCEPT !.sum = Plus(@, x), !.count = @ + 1], "idle", x)
      BY <1>0, <1>2 DEF Judge
    <2>2. a.state = [st EXCEPT !.sum = Plus(@, x), !.count = @ + 1] /\ a.outcome = "idle"
      BY <2>1 DEF Answer
    <2>3. /\ DOMAIN a.state = {"previous", "sum", "count"} /\ a.state.previous = st.previous
          /\ a.state.count = st.count + 1 /\ a.state.sum = Plus(st.sum, x)
      BY <2>2
    <2>4. m \in Base(t, s, js) /\ Counted(a.state, t, s, js, m)
      BY <1>2, <2>3, MetricCounted DEF x
    <2>5. ~Alarm(t, s, js, m)
      BY <1>2, <2>4 DEF Alarm
    <2> QED
      BY <2>2, <2>3, <2>4, <2>5 DEF Weighed
  <1>3. CASE Baselined(t) /\ ~(st.count < Samples(t))
    <2>1. a = Answer(st, IF Less(x, Limit(t, st.sum, st.count)) THEN "ready" ELSE "idle", x)
      BY <1>0, <1>3 DEF Judge
    <2>2. a.state = st /\ (a.outcome = "ready" <=> Less(x, Limit(t, st.sum, st.count)))
      BY <2>1 DEF Answer
    <2>3. /\ m \notin Base(t, s, js) /\ st.count = Samples(t)
          /\ BaseSum(t, s, js, m) = st.sum /\ Counted(st, t, s, js, m)
      BY <1>3, MetricCounted
    <2>4. Alarm(t, s, js, m) <=> Less(x, Limit(t, st.sum, st.count))
      BY <1>3, <2>3 DEF Alarm, x
    <2> QED
      BY <2>2, <2>3, <2>4 DEF Weighed
  <1> QED
    BY <1>1, <1>2, <1>3

IsEvent(e) == IsValue(e.value) /\ e.time \in Nat

\* What the numbers remember, and what the answer is, once the event m is looked at.
Looked(a, t, s, js, m) ==
  /\ a.outcome = "ready" <=> Alarm(t, s, js, m)
  /\ Remembers(a.state, t, s, js, m)

LEMMA MatchIsExact ==
  ASSUME NEW t, Numeric(t), Samples(t) \in Nat,
         NEW s, NEW n \in Nat, NEW is \in SUBSET (1..n), NEW m \in Nat, m = n + 1,
         NEW js, js = is \cup {m}, IsEvent(s[m]), NEW st, Remembers(st, t, s, is, n),
         NEW a, a = Match(t, st, s[m]), a.outcome \in {"idle", "ready"}
  PROVE  Looked(a, t, s, js, m)
  <1> DEFINE e == s[m]
  <1>0. Unset \notin Int
    BY ScenariosAssumption
  <1>1. e.value \in Int /\ e.time \in Nat
    <2>1. e.value # Unset
      <3> SUFFICES ASSUME e.value = Unset PROVE FALSE
        OBVIOUS
      <3>1. a = Answer(st, "error", Unset)
        BY DEF Match
      <3> QED
        BY <3>1 DEF Answer
    <2> QED
      BY <2>1 DEF IsEvent, IsValue
  <1>2. \A i \in js : s[i].value \in Int /\ s[i].time \in Nat
    BY <1>1 DEF Remembers
  <1>3. Continues(t, s, is, js, m)
    BY OneMoreSample
  <1>4. Max(js) = m /\ js # {} /\ m \in js /\ Before(js, m) = is /\ Previous(js, m) = Max(is)
    BY <1>3 DEF Continues
  <1>5. DOMAIN st = {"previous", "sum", "count"} /\ Counted(st, t, s, is, n)
    BY DEF Remembers
  <1>6. CASE ~t.rate
    <2>1. a = Judge(t, st, <<e.value, 1>>)
      BY <1>0, <1>1, <1>6 DEF Match
    <2>2. m \in Metrics(t, s, js) /\ Metric(t, s, js, m) = <<e.value, 1>>
      BY <1>4, <1>6 DEF Metrics, Metric
    <2>3. /\ a.outcome = "ready" <=> Alarm(t, s, js, m)
          /\ DOMAIN a.state = {"previous", "sum", "count"} /\ a.state.previous = st.previous
          /\ Counted(a.state, t, s, js, m)
      <3>1. Weighed(a, st, t, s, js, m)
        BY <1>5, <2>1, <2>2, JudgeIsExact
      <3> QED
        BY <3>1 DEF Weighed
    <2>4. a.state.previous = <<>>
      BY <1>6, <2>3 DEF Remembers
    <2>5. Remembers(a.state, t, s, js, m)
      BY <1>2, <1>6, <2>3, <2>4 DEF Remembers
    <2> QED
      BY <2>3, <2>5 DEF Looked
  <1>7. CASE t.rate
    <2> DEFINE seen    == Remember(st, e)
               delta   == e.value - st.previous[1]
               elapsed == e.time - st.previous[2]
    <2>1. a = Rate(t, st, e)
      BY <1>0, <1>1, <1>7 DEF Match
    <2>2. /\ DOMAIN seen = {"previous", "sum", "count"} /\ seen.previous = <<e.value, e.time>>
          /\ seen.sum = st.sum /\ seen.count = st.count
      BY <1>5 DEF Remember
    <2>3. Counted(seen, t, s, is, n)
      BY <1>5, <2>2 DEF Counted
    <2>4. ASSUME NEW u, DOMAIN u = {"previous", "sum", "count"}, u.previous = <<e.value, e.time>>,
                 Counted(u, t, s, js, m)
          PROVE  Remembers(u, t, s, js, m)
      BY <1>2, <1>4, <1>7, <2>4 DEF Remembers
    <2>5. ASSUME a = Answer(seen, "idle", Unset), m \notin Metrics(t, s, js)
          PROVE  Looked(a, t, s, js, m)
      <3>1. a.state = seen /\ a.outcome = "idle"
        BY <2>5 DEF Answer
      <3>2. Counted(seen, t, s, js, m)
        BY <1>5, <2>2, <2>5, NoMetricCounted
      <3>3. Remembers(seen, t, s, js, m)
        BY <2>2, <2>4, <3>2
      <3>4. ~Alarm(t, s, js, m)
        BY <2>5 DEF Alarm
      <3> QED
        BY <3>1, <3>3, <3>4 DEF Looked
    <2>6. CASE is = {}
      <3>1. st.previous = <<>>
        BY <2>6 DEF Remembers
      <3>2. a = Answer(seen, "idle", Unset)
        BY <2>1, <3>1 DEF Rate
      <3>3. m \notin Metrics(t, s, js)
        BY <1>4, <1>7, <2>6 DEF Metrics
      <3> QED
        BY <2>5, <3>2, <3>3
    <2>7. CASE is # {}
      <3>1. st.previous = <<s[Max(is)].value, s[Max(is)].time>>
        BY <1>7, <2>7 DEF Remembers
      <3>2. Max(is) \in is
        BY <2>7, GreatestOf
      <3>3. s[Max(is)].value \in Int /\ s[Max(is)].time \in Nat
        BY <3>2 DEF Remembers
      <3>4. st.previous # <<>> /\ st.previous[1] = s[Max(is)].value /\ st.previous[2] = s[Max(is)].time
        BY <3>1
      <3>5. delta \in Int /\ elapsed \in Int
        BY <1>1, <3>3, <3>4
      <3>6. (m \in Metrics(t, s, js)) <=> e.value >= s[Max(is)].value
        BY <1>4, <1>7, <2>7 DEF Metrics
      <3>7. ~(delta < 0) <=> e.value >= s[Max(is)].value
        BY <1>1, <3>3, <3>4
      <3>8. Metric(t, s, js, m) = <<delta, elapsed>>
        BY <1>4, <1>7, <3>4 DEF Metric
      <3>9. elapsed > 0
        <4> SUFFICES ASSUME ~(elapsed > 0) PROVE FALSE
          OBVIOUS
        <4>1. elapsed <= 0
          BY <3>5
        <4>2. a = Answer(seen, "error", Unset)
          BY <2>1, <3>4, <4>1 DEF Rate
        <4> QED
          BY <4>2 DEF Answer
      <3>10. ~(elapsed <= 0)
        BY <3>5, <3>9
      <3>11. CASE delta < 0
        <4>1. a = Answer(seen, "idle", Unset)
          BY <2>1, <3>4, <3>9, <3>10, <3>11 DEF Rate
        <4> QED
          BY <2>5, <3>6, <3>7, <3>11, <4>1
      <3>12. CASE ~(delta < 0)
        <4>1. a = Judge(t, seen, Metric(t, s, js, m))
          BY <2>1, <3>4, <3>8, <3>9, <3>10, <3>12 DEF Rate
        <4>2. m \in Metrics(t, s, js)
          BY <3>6, <3>7, <3>12
        <4> HIDE DEF seen
        <4>3. /\ a.outcome = "ready" <=> Alarm(t, s, js, m)
              /\ DOMAIN a.state = {"previous", "sum", "count"} /\ a.state.previous = seen.previous
              /\ Counted(a.state, t, s, js, m)
          <5>1. Weighed(a, seen, t, s, js, m)
            BY <2>2, <2>3, <4>1, <4>2, JudgeIsExact
          <5> QED
            BY <5>1 DEF Weighed
        <4>4. Remembers(a.state, t, s, js, m)
          BY <2>2, <2>4, <4>3
        <4> QED
          BY <4>3, <4>4 DEF Looked
      <3> QED
        BY <3>11, <3>12
    <2> QED
      BY <2>6, <2>7
  <1> QED
    BY <1>6, <1>7

\* An event it does not look at.
LEMMA PassedOverRemembers ==
  ASSUME NEW t, NEW s, NEW n \in Nat, NEW is \in SUBSET (1..n), NEW m \in Nat, m = n + 1,
         NEW st, Remembers(st, t, s, is, n)
  PROVE  Remembers(st, t, s, is, m)
  <1>1. m \notin Metrics(t, s, is)
    <2>1. m \notin 1..n
      OBVIOUS
    <2> QED
      BY <2>1 DEF Metrics
  <1>2. Counted(st, t, s, is, n)
    BY DEF Remembers
  <1>3. Counted(st, t, s, is, m)
    BY <1>1, <1>2, NoMetricCounted
  <1> QED
    BY <1>3 DEF Remembers

LEMMA SameEventsRemembered ==
  ASSUME NEW t, NEW s, NEW s2, NEW n \in Nat, SameEvents(s, s2, n), NEW is \in SUBSET (1..n),
         NEW k, NEW st, Remembers(st, t, s, is, k)
  PROVE  Remembers(st, t, s2, is, k)
  <1>1. /\ Metrics(t, s2, is) = Metrics(t, s, is) /\ Base(t, s2, is) = Base(t, s, is)
        /\ BaseSum(t, s2, is, k) = BaseSum(t, s, is, k)
    <2>1. Alike(t, s, s2, is)
      BY SameSignals
    <2> QED
      BY <2>1 DEF Alike
  <1>2. \A i \in is : s2[i] = s[i]
    BY DEF SameEvents
  <1>3. Counted(st, t, s2, is, k)
    BY <1>1 DEF Remembers, Counted
  <1>4. is # {} => Max(is) \in is
    BY GreatestOf
  <1> QED
    BY <1>2, <1>3, <1>4 DEF Remembers

-----------------------------------------------------------------------------
(* A subscription: the tasks of its handler, and what its triggers have seen *)

\* The events of a path that a trigger selects, of the first n of s.
MineOf(s, t, path, n) == {i \in 1..n : s[i].path = path /\ Selects(t, s[i])}

\* The event that was heard last has still to be shown to the i-th trigger.
Waits(i, p, u) ==
  \/ p = "handle" /\ u.todo # <<>> /\ Head(u.todo).trigger # 1 /\ i >= Head(u.todo).trigger
  \/ p = "nested" /\ i > Head(u.todo).trigger
SeenBy(i, p, u, s) == IF Waits(i, p, u) THEN Len(s) - 1 ELSE Len(s)

\* It has fired, and does not look again.
Through(ts, u, i, path) == EffectiveOnce(ts[i]) /\ <<i, path>> \in u.fired

NumbersOf(u, site) == IF site \in DOMAIN u.numbers THEN u.numbers[site] ELSE NoState

\* The tasks are each event for each of the n triggers in turn.
Queue(n, p, u) ==
  /\ IsSequence(u.todo)
  /\ \A k \in 1..Len(u.todo) :
       /\ u.todo[k].trigger \in 1..n /\ IsEvent(u.todo[k].event)
       /\ u.todo[k].trigger = n /\ k < Len(u.todo) => u.todo[k + 1].trigger = 1
       /\ u.todo[k].trigger # n =>
            /\ k < Len(u.todo) /\ u.todo[k + 1].trigger = u.todo[k].trigger + 1
            /\ u.todo[k + 1].event = u.todo[k].event
  /\ p = "stream" => u.todo = <<>>
  /\ p = "nested" => u.todo # <<>>

\* Past its first trigger, a task's event is the last that was heard.
Hearing(p, u, s) ==
  /\ IsSequence(s) /\ \A k \in 1..Len(s) : IsEvent(s[k])
  /\ p \in {"handle", "nested"} /\ u.todo # <<>> /\ (Head(u.todo).trigger # 1 \/ p = "nested") =>
       Len(s) >= 1 /\ s[Len(s)] = Head(u.todo).event

Reckoned(ts, p, u, s) ==
  \A i \in 1..Len(ts) : \A path :
    Numeric(ts[i]) /\ ~Through(ts, u, i, path) =>
      Remembers(NumbersOf(u, <<i, path>>), ts[i], s,
                MineOf(s, ts[i], path, SeenBy(i, p, u, s)), SeenBy(i, p, u, s))

\* What the log says of an event is what makes it an alarm.
Exact(ts, s, l) ==
  \A k \in DOMAIN l :
    /\ l[k].upto \in 1..Len(s)
    /\ l[k].ready <=>
         (Numeric(ts[l[k].trigger]) =>
            Alarm(ts[l[k].trigger], s, MineOf(s, ts[l[k].trigger], l[k].path, l[k].upto), l[k].upto))

LEMMA FirstOfSome ==
  ASSUME NEW s, IsSequence(s), s # <<>>
  PROVE  /\ Len(s) \in Nat \ {0} /\ Head(s) = s[1]
         /\ IsSequence(Tail(s)) /\ Len(Tail(s)) = Len(s) - 1
         /\ \A k \in 1..(Len(s) - 1) : Tail(s)[k] = s[k + 1]
  <1> DEFINE S == {s[k] : k \in 1..Len(s)}
  <1>1. s \in Seq(S)
    <2>1. s \in [1..Len(s) -> S]
      BY DEF IsSequence
    <2> QED
      BY <2>1, SeqDef DEF IsSequence
  <1>2. Len(s) \in Nat /\ Len(s) # 0
    BY <1>1, EmptySeq, LenProperties
  <1>3. Head(s) = s[1]
    BY <1>1
  <1>4. /\ Tail(s) \in Seq(S) /\ Len(Tail(s)) = Len(s) - 1
        /\ \A k \in 1..Len(Tail(s)) : Tail(s)[k] = s[k + 1]
    BY <1>1, HeadTailProperties
  <1>5. PICK r : r = Tail(s)
    OBVIOUS
  <1>6. IsSequence(r)
    <2>1. r \in [1..Len(r) -> S] /\ Len(r) \in Nat
      BY <1>4, <1>5, LenProperties
    <2> QED
      BY <2>1 DEF IsSequence
  <1> QED
    BY <1>2, <1>3, <1>4, <1>5, <1>6

LEMMA EmptyIsSequence == ASSUME NEW s, IsSequence(s), Len(s) = 0 PROVE s = <<>>
  BY DEF IsSequence

\* The task after the first of u is the first of w.
NextTask(n, u, w) ==
  /\ Head(u.todo).trigger \in 1..n /\ IsEvent(Head(u.todo).event)
  /\ w.todo # <<>> /\ Head(u.todo).trigger = n => Head(w.todo).trigger = 1
  /\ Head(u.todo).trigger # n =>
       /\ w.todo # <<>> /\ Head(w.todo).trigger = Head(u.todo).trigger + 1
       /\ Head(w.todo).event = Head(u.todo).event

LEMMA TasksGoOn ==
  ASSUME NEW n \in Nat, NEW p, NEW u, Queue(n, p, u), u.todo # <<>>,
         NEW w, w.todo = Tail(u.todo)
  PROVE  Queue(n, "handle", w) /\ NextTask(n, u, w)
  <1>1. PICK d : d = u.todo
    OBVIOUS
  <1>2. PICK r : r = w.todo
    OBVIOUS
  <1>3. /\ IsSequence(d) /\ d # <<>>
        /\ \A k \in 1..Len(d) :
             /\ d[k].trigger \in 1..n /\ IsEvent(d[k].event)
             /\ d[k].trigger = n /\ k < Len(d) => d[k + 1].trigger = 1
             /\ d[k].trigger # n =>
                  /\ k < Len(d) /\ d[k + 1].trigger = d[k].trigger + 1
                  /\ d[k + 1].event = d[k].event
    BY <1>1 DEF Queue
  <1>4. /\ Len(d) \in Nat \ {0} /\ Head(d) = d[1]
        /\ IsSequence(r) /\ Len(r) = Len(d) - 1
        /\ \A k \in 1..(Len(d) - 1) : r[k] = d[k + 1]
    BY <1>1, <1>2, <1>3, FirstOfSome
  <1>5. r # <<>> => Head(r) = d[2] /\ Len(d) > 1
    <2> SUFFICES ASSUME r # <<>> PROVE Head(r) = d[2] /\ Len(d) > 1
      OBVIOUS
    <2>1. Head(r) = r[1] /\ Len(r) \in Nat \ {0}
      BY <1>4, FirstOfSome
    <2>2. 1 \in 1..(Len(d) - 1)
      BY <1>4, <2>1
    <2> QED
      BY <1>4, <2>1, <2>2
  <1>6. 1 \in 1..Len(d)
    BY <1>4
  <1>7. ASSUME NEW k \in 1..Len(r)
        PROVE  /\ r[k].trigger \in 1..n /\ IsEvent(r[k].event)
               /\ r[k].trigger = n /\ k < Len(r) => r[k + 1].trigger = 1
               /\ r[k].trigger # n =>
                    /\ k < Len(r) /\ r[k + 1].trigger = r[k].trigger + 1
                    /\ r[k + 1].event = r[k].event
    <2>1. k + 1 \in 1..Len(d) /\ k \in 1..(Len(d) - 1) /\ (k < Len(r) <=> k + 1 < Len(d))
      BY <1>4
    <2>2. r[k] = d[k + 1]
      BY <1>4, <2>1
    <2>3. k < Len(r) => r[k + 1] = d[(k + 1) + 1]
      <3> SUFFICES ASSUME k < Len(r) PROVE r[k + 1] = d[(k + 1) + 1]
        OBVIOUS
      <3>1. k + 1 \in 1..(Len(d) - 1)
        BY <1>4
      <3> QED
        BY <1>4, <3>1
    <2>4. PICK j \in 1..Len(d) : j = k + 1
      BY <2>1
    <2>5. /\ d[j].trigger \in 1..n /\ IsEvent(d[j].event)
          /\ d[j].trigger = n /\ j < Len(d) => d[j + 1].trigger = 1
          /\ d[j].trigger # n =>
               /\ j < Len(d) /\ d[j + 1].trigger = d[j].trigger + 1
               /\ d[j + 1].event = d[j].event
      BY <1>3
    <2> QED
      BY <2>1, <2>2, <2>3, <2>4, <2>5
  <1>8. Queue(n, "handle", w)
    BY <1>2, <1>4, <1>7 DEF Queue
  <1>9. /\ d[1].trigger \in 1..n /\ IsEvent(d[1].event)
        /\ d[1].trigger = n /\ 1 < Len(d) => d[2].trigger = 1
        /\ d[1].trigger # n =>
             /\ 1 < Len(d) /\ d[2].trigger = d[1].trigger + 1
             /\ d[2].event = d[1].event
    <2>1. 1 + 1 = 2
      OBVIOUS
    <2> QED
      BY <1>3, <1>6, <2>1
  <1>10. 1 < Len(d) => r # <<>>
    <2> SUFFICES ASSUME 1 < Len(d), r = <<>> PROVE FALSE
      OBVIOUS
    <2>1. Len(r) = 0
      OBVIOUS
    <2>2. PICK k \in Nat : k = Len(d)
      BY <1>4
    <2>3. k - 1 = 0 /\ 1 < k
      BY <1>4, <2>1, <2>2
    <2> QED
      BY <2>3
  <1> QED
    BY <1>1, <1>2, <1>4, <1>5, <1>8, <1>9, <1>10 DEF NextTask

LEMMA FirstTask ==
  ASSUME NEW n \in Nat, NEW p, NEW u, Queue(n, p, u), u.todo # <<>>
  PROVE  Head(u.todo).trigger \in 1..n /\ IsEvent(Head(u.todo).event)
  <1>1. PICK w : w = [todo |-> Tail(u.todo)]
    OBVIOUS
  <1>2. w.todo = Tail(u.todo)
    BY <1>1
  <1>3. NextTask(n, u, w)
    BY <1>2, TasksGoOn
  <1> QED
    BY <1>3 DEF NextTask

\* The event of the first task is the m-th, and last, of s2, which is s with it.
Turn(n, u, s, s2, m) ==
  /\ m \in Nat \ {0} /\ m = Len(s2) /\ IsSequence(s2) /\ (\A k \in 1..m : IsEvent(s2[k]))
  /\ s2[m] = Head(u.todo).event
  /\ Len(s) \in Nat /\ m - 1 <= Len(s) /\ Len(s) <= m /\ SameEvents(s, s2, Len(s))
  /\ Head(u.todo).trigger # 1 => Len(s) = m
  /\ \A i \in 1..n : SeenBy(i, "handle", u, s) = IF i >= Head(u.todo).trigger THEN m - 1 ELSE m

LEMMA TurnBegins ==
  ASSUME NEW n \in Nat, NEW u, NEW s, Queue(n, "handle", u), Hearing("handle", u, s), u.todo # <<>>,
         NEW s2, s2 = IF Head(u.todo).trigger = 1 THEN Append(s, Head(u.todo).event) ELSE s,
         NEW m, m = Len(s2)
  PROVE  Turn(n, u, s, s2, m)
  <1>1. PICK e : e = Head(u.todo).event
    OBVIOUS
  <1>2. PICK j \in 1..n : j = Head(u.todo).trigger
    BY FirstTask
  <1>3. IsEvent(e)
    BY <1>1, FirstTask
  <1>4. IsSequence(s) /\ \A k \in 1..Len(s) : IsEvent(s[k])
    BY DEF Hearing
  <1>5. Len(s) \in Nat /\ DOMAIN s = 1..Len(s)
    BY <1>4 DEF IsSequence
  <1>8. PICK l \in Nat : l = Len(s)
    BY <1>5
  <1>6. CASE j = 1
    <2>1. s2 = Append(s, e)
      BY <1>1, <1>2, <1>6
    <2>2. /\ IsSequence(s2) /\ DOMAIN s2 = DOMAIN s \cup {Len(s) + 1}
          /\ \A k \in DOMAIN s : s2[k] = s[k]
          /\ s2[Len(s) + 1] = e
      BY <1>4, <2>1, AppendToLog
    <2>3. DOMAIN s2 = 1..m /\ m \in Nat
      BY <2>2 DEF IsSequence
    <2>4. m = l + 1
      <3>1. 1..m = 1..l \cup {l + 1}
        BY <1>5, <1>8, <2>2, <2>3
      <3>2. l + 1 \in 1..m /\ m \in 1..l \cup {l + 1}
        <4>1. l + 1 \in 1..m
          BY <3>1
        <4> QED
          BY <2>3, <3>1, <4>1
      <3> QED
        BY <2>3, <3>2
    <2>5. \A k \in 1..m : IsEvent(s2[k])
      BY <1>3, <1>4, <1>5, <2>2, <2>3
    <2>6. SameEvents(s, s2, Len(s))
      BY <1>5, <2>2 DEF SameEvents
    <2>7. \A i \in 1..n : SeenBy(i, "handle", u, s) = m - 1 /\ i >= 1
      <3>1. \A i \in 1..n : ~Waits(i, "handle", u)
        BY <1>2, <1>6 DEF Waits
      <3>2. l = m - 1 /\ \A i \in 1..n : i >= 1
        BY <2>4
      <3> QED
        BY <1>8, <3>1, <3>2 DEF SeenBy
    <2>8. m \in Nat \ {0} /\ m - 1 <= l /\ l <= m
      BY <2>4
    <2> QED
      BY <1>1, <1>2, <1>5, <1>6, <1>8, <2>2, <2>4, <2>5, <2>6, <2>7, <2>8 DEF Turn
  <1>7. CASE j # 1
    <2>1. s2 = s
      BY <1>2, <1>7
    <2>2. m >= 1 /\ s[m] = e
      BY <1>1, <1>2, <1>7, <2>1 DEF Hearing
    <2>3. m \in Nat \ {0} /\ m - 1 <= m /\ m <= m
      <3>1. m = l /\ l >= 1
        BY <1>8, <2>1, <2>2
      <3> QED
        BY <3>1
    <2>4. SameEvents(s, s2, Len(s))
      BY <2>1 DEF SameEvents
    <2>5. \A i \in 1..n : SeenBy(i, "handle", u, s) = IF i >= Head(u.todo).trigger THEN m - 1 ELSE m
      BY <1>2, <1>7, <2>1 DEF SeenBy, Waits
    <2> QED
      BY <1>1, <1>2, <1>4, <1>7, <2>1, <2>2, <2>3, <2>4, <2>5 DEF Turn
  <1> QED
    BY <1>6, <1>7

LEMMA TurnEnds ==
  ASSUME NEW n \in Nat, NEW p, NEW u, Queue(n, p, u), u.todo # <<>>,
         NEW s, NEW m \in Nat \ {0}, m = Len(s), IsSequence(s), \A k \in 1..m : IsEvent(s[k]),
         s[m] = Head(u.todo).event, NEW w, w.todo = Tail(u.todo)
  PROVE  /\ Hearing("handle", w, s)
         /\ \A i \in 1..n : SeenBy(i, "handle", w, s) = IF i > Head(u.todo).trigger THEN m - 1 ELSE m
  <1>1. PICK j \in 1..n : j = Head(u.todo).trigger
    BY FirstTask
  <1>0. NextTask(n, u, w)
    BY TasksGoOn
  <1>2. CASE j = n
    <2>1. w.todo # <<>> => Head(w.todo).trigger = 1
      BY <1>0, <1>1, <1>2 DEF NextTask
    <2>2. Hearing("handle", w, s)
      BY <2>1 DEF Hearing
    <2>3. \A i \in 1..n : ~(i > j) /\ ~Waits(i, "handle", w)
      BY <1>2, <2>1 DEF Waits
    <2> QED
      BY <1>1, <2>2, <2>3 DEF SeenBy
  <1>3. CASE j # n
    <2>1. /\ w.todo # <<>> /\ Head(w.todo).trigger = j + 1
          /\ Head(w.todo).event = Head(u.todo).event
      BY <1>0, <1>1, <1>3 DEF NextTask
    <2>2. m >= 1
      OBVIOUS
    <2>3. Hearing("handle", w, s)
      BY <2>1, <2>2 DEF Hearing
    <2>4. \A i \in 1..n : Waits(i, "handle", w) <=> i > j
      <3>1. j + 1 # 1 /\ \A i \in 1..n : i >= j + 1 <=> i > j
        OBVIOUS
      <3> QED
        BY <1>1, <2>1, <3>1 DEF Waits
    <2> QED
      BY <1>1, <2>3, <2>4 DEF SeenBy
  <1> QED
    BY <1>2, <1>3

\* It is the j-th trigger's turn to be shown the event, of path q.
AtTurn(ts, n, u, s, s2, m, j, q) ==
  /\ n \in Nat /\ n = Len(ts) /\ Turn(n, u, s, s2, m) /\ Reckoned(ts, "handle", u, s)
  /\ j \in 1..n /\ j = Head(u.todo).trigger /\ q = s2[m].path

\* It has been, and its numbers are those for the event.
Past(n, p, w, s2, m, j) == \A i \in 1..n : SeenBy(i, p, w, s2) = IF i > j THEN m - 1 ELSE m
Keeps(u, w, site) == u.fired \subseteq w.fired /\ \A x : x # site => NumbersOf(w, x) = NumbersOf(u, x)
Knows(ts, w, s2, m, j, q) ==
  Numeric(ts[j]) /\ ~Through(ts, w, j, q) =>
    Remembers(NumbersOf(w, <<j, q>>), ts[j], s2, MineOf(s2, ts[j], q, m), m)

\* One trigger looks at the event, and the rest is as it was.
LEMMA ReckonTurn ==
  ASSUME NEW ts, NEW n, NEW u, NEW s, NEW s2, NEW m, NEW j, NEW q,
         AtTurn(ts, n, u, s, s2, m, j, q), NEW p, NEW w,
         Past(n, p, w, s2, m, j), Keeps(u, w, <<j, q>>), Knows(ts, w, s2, m, j, q)
  PROVE  Reckoned(ts, p, w, s2)
  <1>0. /\ n \in Nat /\ n = Len(ts) /\ Turn(n, u, s, s2, m) /\ Reckoned(ts, "handle", u, s)
        /\ j \in 1..n /\ j = Head(u.todo).trigger /\ q = s2[m].path
    BY DEF AtTurn
  <1> SUFFICES ASSUME NEW i \in 1..n, NEW path, Numeric(ts[i]), ~Through(ts, w, i, path)
               PROVE  Remembers(NumbersOf(w, <<i, path>>), ts[i], s2,
                         MineOf(s2, ts[i], path, SeenBy(i, p, w, s2)), SeenBy(i, p, w, s2))
    BY <1>0 DEF Reckoned
  <1>1. PICK k : k = SeenBy(i, "handle", u, s)
    OBVIOUS
  <1>2. PICK st : st = NumbersOf(u, <<i, path>>)
    OBVIOUS
  <1>3. ~Through(ts, u, i, path)
    BY DEF Through, Keeps
  <1>4. Remembers(st, ts[i], s, MineOf(s, ts[i], path, k), k)
    BY <1>0, <1>1, <1>2, <1>3 DEF Reckoned
  <1>5. /\ m \in Nat \ {0} /\ Len(s) \in Nat /\ m - 1 <= Len(s) /\ Len(s) <= m
        /\ SameEvents(s, s2, Len(s)) /\ (j # 1 => Len(s) = m)
        /\ k = IF i >= j THEN m - 1 ELSE m
    BY <1>0, <1>1 DEF Turn
  <1>6. k \in Nat /\ k <= Len(s)
    <2>1. PICK l \in Nat : l = Len(s)
      BY <1>5
    <2>2. m - 1 <= l /\ l <= m /\ (j # 1 => l = m)
      BY <1>5, <2>1
    <2>3. CASE i >= j
      BY <1>5, <2>1, <2>2, <2>3
    <2>4. CASE ~(i >= j)
      <3>1. j # 1
        BY <2>4
      <3> QED
        BY <1>5, <2>1, <2>2, <2>4, <3>1
    <2> QED
      BY <2>3, <2>4
  <1>7. SameEvents(s, s2, k)
    <2>1. \A a \in 1..k : a \in 1..Len(s)
      BY <1>5, <1>6
    <2> QED
      BY <1>5, <2>1 DEF SameEvents
  <1>8. MineOf(s2, ts[i], path, k) = MineOf(s, ts[i], path, k)
    BY <1>7 DEF SameEvents, MineOf
  <1>9. Remembers(st, ts[i], s2, MineOf(s2, ts[i], path, k), k)
    <2>1. MineOf(s, ts[i], path, k) \in SUBSET (1..k)
      BY DEF MineOf
    <2> QED
      BY <1>4, <1>6, <1>7, <1>8, <2>1, SameEventsRemembered
  <1>10. CASE i # j
    <2>1. SeenBy(i, p, w, s2) = k
      <3>1. SeenBy(i, p, w, s2) = IF i > j THEN m - 1 ELSE m
        BY DEF Past
      <3>2. i > j <=> i >= j
        BY <1>0, <1>10
      <3> QED
        BY <1>5, <3>1, <3>2
    <2>2. NumbersOf(w, <<i, path>>) = st
      <3>1. <<i, path>> # <<j, q>>
        BY <1>10
      <3> QED
        BY <1>2, <3>1 DEF Keeps
    <2> QED
      BY <1>9, <2>1, <2>2
  <1>11. CASE i = j /\ path = q
    <2>1. SeenBy(i, p, w, s2) = m
      BY <1>0, <1>11 DEF Past
    <2> QED
      BY <1>11, <2>1 DEF Knows
  <1>12. CASE i = j /\ path # q
    <2>1. SeenBy(i, p, w, s2) = m /\ m = k + 1 /\ m \in Nat
      <3>1. SeenBy(i, p, w, s2) = IF i > j THEN m - 1 ELSE m
        BY DEF Past
      <3>2. ~(i > j) /\ i >= j
        BY <1>0, <1>12
      <3> QED
        BY <1>5, <3>1, <3>2
    <2>2. NumbersOf(w, <<i, path>>) = st
      <3>1. <<i, path>> # <<j, q>>
        BY <1>12
      <3> QED
        BY <1>2, <3>1 DEF Keeps
    <2>3. MineOf(s2, ts[i], path, m) = MineOf(s2, ts[i], path, k)
      <3>1. \A a \in 1..m : a \in 1..k \/ a = m
        BY <1>6, <2>1
      <3>2. \A a \in 1..k : a \in 1..m
        BY <1>6, <2>1
      <3> QED
        BY <1>0, <1>12, <3>1, <3>2 DEF MineOf
    <2>4. MineOf(s2, ts[i], path, k) \in SUBSET (1..k)
      BY DEF MineOf
    <2>5. Remembers(st, ts[i], s2, MineOf(s2, ts[i], path, k), m)
      BY <1>6, <1>9, <2>1, <2>4, PassedOverRemembers
    <2> QED
      BY <2>1, <2>2, <2>3, <2>5
  <1> QED
    BY <1>10, <1>11, <1>12

\* What the trigger whose turn it is remembers of the events before.
Recalls(ts, u, s2, m, j, q, k) ==
  /\ k \in Nat /\ m \in Nat \ {0} /\ m = k + 1
  /\ MineOf(s2, ts[j], q, k) \in SUBSET (1..k)
  /\ Remembers(NumbersOf(u, <<j, q>>), ts[j], s2, MineOf(s2, ts[j], q, k), k)

LEMMA TurnRecalls ==
  ASSUME NEW ts, NEW n, NEW u, NEW s, NEW s2, NEW m, NEW j, NEW q,
         AtTurn(ts, n, u, s, s2, m, j, q),
         Numeric(ts[j]), ~Through(ts, u, j, q), NEW k, k = m - 1
  PROVE  Recalls(ts, u, s2, m, j, q, k)
  <1>0. /\ n \in Nat /\ n = Len(ts) /\ Turn(n, u, s, s2, m) /\ Reckoned(ts, "handle", u, s)
        /\ j \in 1..n /\ j = Head(u.todo).trigger /\ q = s2[m].path
    BY DEF AtTurn
  <1>2. m \in Nat \ {0} /\ Len(s) \in Nat /\ m - 1 <= Len(s) /\ SameEvents(s, s2, Len(s))
        /\ SeenBy(j, "handle", u, s) = IF j >= j THEN m - 1 ELSE m
    BY <1>0 DEF Turn
  <1>3. k = SeenBy(j, "handle", u, s) /\ k \in Nat /\ k <= Len(s)
    BY <1>0, <1>2
  <1>4. Remembers(NumbersOf(u, <<j, q>>), ts[j], s, MineOf(s, ts[j], q, k), k)
    BY <1>0, <1>3 DEF Reckoned
  <1>5. SameEvents(s, s2, k)
    <2>1. \A a \in 1..k : a \in 1..Len(s)
      BY <1>2, <1>3
    <2> QED
      BY <1>2, <2>1 DEF SameEvents
  <1>6. MineOf(s2, ts[j], q, k) = MineOf(s, ts[j], q, k)
    BY <1>5 DEF SameEvents, MineOf
  <1>7. MineOf(s, ts[j], q, k) \in SUBSET (1..k)
    BY DEF MineOf
  <1>8. Remembers(NumbersOf(u, <<j, q>>), ts[j], s2, MineOf(s2, ts[j], q, k), k)
    BY <1>3, <1>4, <1>5, <1>6, <1>7, SameEventsRemembered
  <1>9. m \in Nat \ {0} /\ m = k + 1
    BY <1>0, <1>2
  <1> QED
    BY <1>3, <1>6, <1>7, <1>8, <1>9 DEF Recalls

LEMMA MineAfterSkip ==
  ASSUME NEW s, NEW t, NEW k \in Nat, NEW m, m = k + 1, NEW q, ~Selects(t, s[m])
  PROVE  MineOf(s, t, q, m) = MineOf(s, t, q, k)
  <1>1. \A a : a \in 1..m <=> a \in 1..k \/ a = m
    OBVIOUS
  <1> QED
    BY <1>1 DEF MineOf

\* The trigger passes over the event, or looks at it.
LEMMA SkipRemembers ==
  ASSUME NEW ts, NEW n, NEW u, NEW s, NEW s2, NEW m, NEW j, NEW q,
         AtTurn(ts, n, u, s, s2, m, j, q),
         Numeric(ts[j]), ~Through(ts, u, j, q), ~Selects(ts[j], s2[m])
  PROVE  Remembers(NumbersOf(u, <<j, q>>), ts[j], s2, MineOf(s2, ts[j], q, m), m)
  <1>1. PICK k : k = m - 1
    OBVIOUS
  <1>2. Recalls(ts, u, s2, m, j, q, k)
    BY <1>1, TurnRecalls
  <1>5. /\ k \in Nat /\ m \in Nat \ {0} /\ m \in Nat /\ m = k + 1
        /\ MineOf(s2, ts[j], q, k) \in SUBSET (1..k)
        /\ Remembers(NumbersOf(u, <<j, q>>), ts[j], s2, MineOf(s2, ts[j], q, k), k)
    BY <1>2 DEF Recalls
  <1>3. MineOf(s2, ts[j], q, m) = MineOf(s2, ts[j], q, k)
    BY <1>5, MineAfterSkip
  <1> QED
    BY <1>3, <1>5, PassedOverRemembers

Looks(ts, u, s2, m, j, q, a) ==
  /\ Numeric(ts[j]) /\ ~Through(ts, u, j, q) /\ Selects(ts[j], s2[m]) /\ Samples(ts[j]) \in Nat
  /\ a = Match(ts[j], NumbersOf(u, <<j, q>>), s2[m]) /\ a.outcome \in {"idle", "ready"}

LEMMA LookRemembers ==
  ASSUME NEW ts, NEW n, NEW u, NEW s, NEW s2, NEW m, NEW j, NEW q,
         AtTurn(ts, n, u, s, s2, m, j, q), NEW a, Looks(ts, u, s2, m, j, q, a)
  PROVE  Looked(a, ts[j], s2, MineOf(s2, ts[j], q, m), m)
  <1>0. /\ n \in Nat /\ n = Len(ts) /\ Turn(n, u, s, s2, m) /\ Reckoned(ts, "handle", u, s)
        /\ j \in 1..n /\ j = Head(u.todo).trigger /\ q = s2[m].path
    BY DEF AtTurn
  <1>1. PICK k : k = m - 1
    OBVIOUS
  <1>2. Recalls(ts, u, s2, m, j, q, k)
    BY <1>1, TurnRecalls DEF Looks
  <1>5. /\ k \in Nat /\ m \in Nat \ {0} /\ m \in Nat /\ m = k + 1
        /\ MineOf(s2, ts[j], q, k) \in SUBSET (1..k)
        /\ Remembers(NumbersOf(u, <<j, q>>), ts[j], s2, MineOf(s2, ts[j], q, k), k)
    BY <1>2 DEF Recalls
  <1>3. MineOf(s2, ts[j], q, m) = MineOf(s2, ts[j], q, k) \cup {m}
    <2>1. \A i : i \in 1..m <=> i \in 1..k \/ i = m
      BY <1>5
    <2> QED
      BY <1>0, <2>1 DEF MineOf, Looks
  <1>4. IsEvent(s2[m])
    <2>1. m \in 1..m
      BY <1>5
    <2> QED
      BY <1>0, <2>1 DEF Turn
  <1> QED
    BY <1>3, <1>4, <1>5, MatchIsExact DEF Looks

LEMMA ExactStill ==
  ASSUME NEW ts, NEW s, NEW s2, NEW l, Exact(ts, s, l), Len(s) \in Nat, Len(s2) \in Nat,
         Len(s) <= Len(s2), SameEvents(s, s2, Len(s))
  PROVE  Exact(ts, s2, l)
  <1> SUFFICES ASSUME NEW k \in DOMAIN l
               PROVE  /\ l[k].upto \in 1..Len(s2)
                      /\ l[k].ready <=>
                           (Numeric(ts[l[k].trigger]) =>
                              Alarm(ts[l[k].trigger], s2,
                                    MineOf(s2, ts[l[k].trigger], l[k].path, l[k].upto), l[k].upto))
    BY DEF Exact
  <1>1. PICK t : t = ts[l[k].trigger]
    OBVIOUS
  <1>2. PICK n : n = l[k].upto
    OBVIOUS
  <1>3. /\ n \in 1..Len(s)
        /\ l[k].ready <=> (Numeric(t) => Alarm(t, s, MineOf(s, t, l[k].path, n), n))
    BY <1>1, <1>2 DEF Exact
  <1>4. n \in Nat /\ n \in 1..Len(s2) /\ \A a \in 1..n : a \in 1..Len(s)
    BY <1>3
  <1>5. SameEvents(s, s2, n)
    BY <1>4 DEF SameEvents
  <1>6. MineOf(s2, t, l[k].path, n) = MineOf(s, t, l[k].path, n)
    BY <1>5 DEF SameEvents, MineOf
  <1>7. MineOf(s, t, l[k].path, n) \in SUBSET (1..n)
    BY DEF MineOf
  <1>8. Alarm(t, s2, MineOf(s, t, l[k].path, n), n) <=> Alarm(t, s, MineOf(s, t, l[k].path, n), n)
    <2>1. PICK is : is = MineOf(s, t, l[k].path, n)
      OBVIOUS
    <2>2. Alike(t, s, s2, is)
      BY <1>4, <1>5, <1>7, <2>1, SameSignals
    <2> QED
      BY <2>1, <2>2 DEF Alike
  <1> QED
    BY <1>1, <1>2, <1>3, <1>4, <1>6, <1>8

LEMMA ExactMore ==
  ASSUME NEW ts, NEW s, NEW l, IsSequence(l), Exact(ts, s, l), NEW x, x.upto \in 1..Len(s),
         NEW t, t = ts[x.trigger],
         x.ready <=> (Numeric(t) => Alarm(t, s, MineOf(s, t, x.path, x.upto), x.upto))
  PROVE  Exact(ts, s, Append(l, x))
  <1>1. PICK r : r = Append(l, x)
    OBVIOUS
  <1>2. DOMAIN r = DOMAIN l \cup {Len(l) + 1} /\ (\A k \in DOMAIN l : r[k] = l[k]) /\ r[Len(l) + 1] = x
    BY <1>1, AppendToLog
  <1> SUFFICES ASSUME NEW k \in DOMAIN r
               PROVE  /\ r[k].upto \in 1..Len(s)
                      /\ r[k].ready <=>
                           (Numeric(ts[r[k].trigger]) =>
                              Alarm(ts[r[k].trigger], s,
                                    MineOf(s, ts[r[k].trigger], r[k].path, r[k].upto), r[k].upto))
    BY <1>1 DEF Exact
  <1>3. CASE k \in DOMAIN l
    BY <1>2, <1>3 DEF Exact
  <1>4. CASE k \notin DOMAIN l
    <2>1. r[k] = x
      BY <1>2, <1>4
    <2> QED
      BY <2>1
  <1> QED
    BY <1>3, <1>4

LEMMA ReckonSame ==
  ASSUME NEW ts, NEW p, NEW u, NEW s, Reckoned(ts, p, u, s), NEW p2, NEW w,
         w.fired = u.fired, w.numbers = u.numbers,
         \A i \in 1..Len(ts) : SeenBy(i, p2, w, s) = SeenBy(i, p, u, s)
  PROVE  Reckoned(ts, p2, w, s)
  <1>1. \A i, path : (Through(ts, w, i, path) <=> Through(ts, u, i, path))
                     /\ NumbersOf(w, <<i, path>>) = NumbersOf(u, <<i, path>>)
    BY DEF Through, NumbersOf
  <1> QED
    BY <1>1 DEF Reckoned

\* Nothing has been heard, and nothing is remembered.
LEMMA NothingRemembered ==
  ASSUME NEW t, NEW s, Samples(t) \in Nat
  PROVE  Remembers(NoState, t, s, {}, 0)
  <1>1. Base(t, s, {}) = {} /\ Metrics(t, s, {}) = {}
    BY DEF Base, Metrics
  <1>2. BaseSum(t, s, {}, 0) = <<0, 1>>
    BY TotalOfNone DEF BaseSum
  <1>3. Cardinality({}) = 0
    BY FS_EmptySet
  <1>4. Counted(NoState, t, s, {}, 0)
    BY <1>1, <1>2, <1>3 DEF Counted, NoState
  <1> QED
    BY <1>4 DEF Remembers, NoState

LEMMA ReckonNothing ==
  ASSUME NEW ts, \A i \in 1..Len(ts) : Samples(ts[i]) \in Nat, NEW u, u.numbers = <<>>
  PROVE  Reckoned(ts, "stream", u, <<>>)
  <1> SUFFICES ASSUME NEW i \in 1..Len(ts), NEW path
               PROVE  Remembers(NumbersOf(u, <<i, path>>), ts[i], <<>>,
                         MineOf(<<>>, ts[i], path, SeenBy(i, "stream", u, <<>>)),
                         SeenBy(i, "stream", u, <<>>))
    BY DEF Reckoned
  <1>1. SeenBy(i, "stream", u, <<>>) = 0
    BY DEF SeenBy, Waits
  <1>2. NumbersOf(u, <<i, path>>) = NoState
    <2>1. DOMAIN u.numbers = {}
      OBVIOUS
    <2> QED
      BY <2>1 DEF NumbersOf
  <1>3. MineOf(<<>>, ts[i], path, 0) = {}
    BY DEF MineOf
  <1> QED
    BY <1>1, <1>2, <1>3, NothingRemembered

\* A notification's m events, for each of n triggers in turn.
Tasks(n, m, ev) ==
  [k \in 1..(n * m) |-> [event |-> ev[((k - 1) \div n) + 1], trigger |-> ((k - 1) % n) + 1]]

LEMMA NewTasks ==
  ASSUME NEW n \in Nat, NEW m \in Nat, NEW ev, \A i \in 1..m : IsEvent(ev[i]),
         NEW u, u.todo = Tasks(n, m, ev)
  PROVE  Queue(n, "handle", u) /\ (u.todo # <<>> => Head(u.todo).trigger = 1)
  <1>1. PICK d : d = u.todo
    OBVIOUS
  <1>2. n * m \in Nat
    OBVIOUS
  <1>3. PICK x \in Nat : x = n * m
    BY <1>2
  <1>4. Len(d) = x /\ d = [k \in 1..x |-> d[k]]
    BY <1>1, <1>3 DEF Tasks
  <1>5. ASSUME NEW k \in 1..x
        PROVE  /\ d[k].trigger \in 1..n /\ IsEvent(d[k].event)
               /\ d[k].trigger = n /\ k < x => d[k + 1].trigger = 1
               /\ d[k].trigger # n =>
                    /\ k < x /\ d[k + 1].trigger = d[k].trigger + 1 /\ d[k + 1].event = d[k].event
    <2>1. /\ n # 0 /\ ((k - 1) \div n) + 1 \in 1..m /\ ((k - 1) % n) + 1 \in 1..n
          /\ (k - 1) % n = n - 1 /\ k < x => k % n = 0
          /\ (k - 1) % n # n - 1 => /\ k < x /\ k \div n = (k - 1) \div n
                                    /\ k % n = ((k - 1) % n) + 1
      BY <1>3, TaskNumbers
    <2>2. d[k].event = ev[((k - 1) \div n) + 1] /\ d[k].trigger = ((k - 1) % n) + 1
      BY <1>1, <1>3 DEF Tasks
    <2>3. k < x => d[k + 1].event = ev[(k \div n) + 1] /\ d[k + 1].trigger = (k % n) + 1
      <3> SUFFICES ASSUME k < x
                   PROVE d[k + 1].event = ev[(k \div n) + 1] /\ d[k + 1].trigger = (k % n) + 1
        OBVIOUS
      <3>1. k + 1 \in 1..x /\ (k + 1) - 1 = k
        OBVIOUS
      <3>2. PICK y \in 1..x : y = k + 1
        BY <3>1
      <3>3. y - 1 = k
        BY <3>2
      <3>4. d[y].event = ev[((y - 1) \div n) + 1] /\ d[y].trigger = ((y - 1) % n) + 1
        BY <1>1, <1>3 DEF Tasks
      <3> QED
        BY <3>2, <3>3, <3>4
    <2>4. PICK r \in 0..(n - 1) : (k - 1) % n = r
      <3>1. n \in Nat \ {0} /\ k - 1 \in Nat
        BY <2>1
      <3>2. (k - 1) % n \in 0..(n - 1)
        BY <3>1
      <3> QED
        BY <3>2
    <2>5. (d[k].trigger = n <=> r = n - 1) /\ d[k].trigger = r + 1
      BY <2>2, <2>4
    <2>6. d[k].trigger \in 1..n /\ IsEvent(d[k].event)
      BY <2>1, <2>2
    <2>7. d[k].trigger = n /\ k < x => d[k + 1].trigger = 1
      BY <2>1, <2>3, <2>4, <2>5
    <2>8. d[k].trigger # n =>
            /\ k < x /\ d[k + 1].trigger = d[k].trigger + 1 /\ d[k + 1].event = d[k].event
      <3> SUFFICES ASSUME d[k].trigger # n
                   PROVE  /\ k < x /\ d[k + 1].trigger = d[k].trigger + 1
                          /\ d[k + 1].event = d[k].event
        OBVIOUS
      <3>1. k < x /\ k \div n = (k - 1) \div n /\ k % n = r + 1
        BY <2>1, <2>4, <2>5
      <3> QED
        BY <2>2, <2>3, <2>5, <3>1
    <2> QED
      BY <2>6, <2>7, <2>8
  <1>6. Queue(n, "handle", u)
    BY <1>1, <1>3, <1>4, <1>5 DEF Queue, IsSequence
  <1>7. ASSUME d # <<>> PROVE Head(d).trigger = 1
    <2>1. Head(d) = d[1] /\ 1 \in 1..x
      BY <1>3, <1>4, <1>7, FirstOfSome DEF IsSequence
    <2>2. n # 0
      BY <1>3, <2>1, TaskNumbers
    <2>3. (1 - 1) % n = 0
      <3>1. 0 = n * 0 + 0 /\ 0 \in 0..(n - 1) /\ n \in Nat \ {0} /\ 1 - 1 = 0
        BY <2>2
      <3>2. 0 % n = 0
        BY <3>1, QuotientOf
      <3> QED
        BY <3>1, <3>2
    <2> QED
      BY <1>1, <1>3, <2>1, <2>3 DEF Tasks
  <1> QED
    BY <1>1, <1>6, <1>7

-----------------------------------------------------------------------------
(* The invariant *)

EarlyAt == {"new", "waiting", "connect", "step"}
LiveAt  == {"stream", "handle", "nested"}

\* A branch br that is at p, with its subscription u, what it has heard and its log.
Fits(br, p, u, s, l) ==
  /\ Hearing(p, u, s) /\ Exact(br.triggers, s, l)
  /\ p \in EarlyAt => s = <<>> /\ l = <<>> /\ u = NewSub
  /\ p \in LiveAt =>
       /\ br.subscribe /\ \A i \in 1..Len(br.triggers) : Samples(br.triggers[i]) \in Nat
       /\ Queue(Len(br.triggers), p, u) /\ Reckoned(br.triggers, p, u, s)

MatchOf(b) == Fits(Branch(b), pc[b], sub[b], heard[b], log[b])

MatchInv == DOMAIN heard = Branches /\ \A b \in Branches : MatchOf(b)

\* Settings and notifications of a branch that subscribes.
LEMMA SettingsOf ==
  ASSUME scenario \in Scenarios, NEW b \in Branches, Branch(b).subscribe
  PROVE  /\ Len(Branch(b).triggers) \in Nat
         /\ DOMAIN Branch(b).triggers = 1..Len(Branch(b).triggers)
         /\ Triggers(b) = 1..Len(Branch(b).triggers)
         /\ \A i \in Triggers(b) : Trigger(b, i).samples \in Int
         /\ \A note \in Branch(b).notes :
              IsList(note) /\ \A i \in DOMAIN note : IsValue(note[i].value)
  <1>1. b \in 1..Len(scenario.branches)
    BY DEF Branches
  <1>2. /\ IsList(scenario.branches[b].triggers)
        /\ \A i \in DOMAIN scenario.branches[b].triggers : scenario.branches[b].triggers[i].samples \in Int
        /\ \A note \in scenario.branches[b].notes :
             IsList(note) /\ \A i \in DOMAIN note : IsValue(note[i].value)
    BY <1>1, ScenariosAssumption DEF Branch
  <1>3. /\ Len(scenario.branches[b].triggers) \in Nat
        /\ DOMAIN scenario.branches[b].triggers = 1..Len(scenario.branches[b].triggers)
    BY <1>2, LenProperties DEF IsList
  <1> QED
    BY <1>2, <1>3 DEF Branch, Triggers, Trigger

LEMMA InitMatch == Init => MatchInv
  <1> SUFFICES ASSUME Init PROVE MatchInv
    OBVIOUS
  <1>1. DOMAIN heard = Branches
    BY DEF Init
  <1>2. ASSUME NEW b \in Branches PROVE MatchOf(b)
    <2>1. pc[b] = "new" /\ sub[b] = NewSub /\ heard[b] = <<>> /\ log[b] = <<>>
      BY DEF Init
    <2>2. Hearing("new", NewSub, <<>>)
      BY DEF Hearing, IsSequence
    <2>3. Exact(Branch(b).triggers, <<>>, <<>>)
      BY DEF Exact
    <2> QED
      BY <2>1, <2>2, <2>3 DEF MatchOf, Fits, LiveAt
  <1> QED
    BY <1>1, <1>2 DEF MatchInv

\* A branch that is over, or has not begun.
LEMMA FitsApart ==
  ASSUME NEW br, NEW p, NEW u, NEW s, NEW l, Fits(br, p, u, s, l),
         NEW q, q \notin LiveAt, NEW w, q \in EarlyAt => p \in EarlyAt /\ w = u
  PROVE  Fits(br, q, w, s, l)
  <1>1. Hearing(q, w, s)
    BY DEF Fits, Hearing, LiveAt
  <1> QED
    BY <1>1 DEF Fits

LEMMA FitsHolds ==
  ASSUME NEW b, UNCHANGED scenario, Fits(Branch(b), pc'[b], sub'[b], heard'[b], log'[b])
  PROVE  MatchOf(b)'
  BY DEF MatchOf, Branch

\* One branch moves.
Alone(b) ==
  /\ UNCHANGED scenario /\ DOMAIN heard' = Branches
  /\ \A c \in Branches \ {b} :
       pc'[c] = pc[c] /\ sub'[c] = sub[c] /\ heard'[c] = heard[c] /\ log'[c] = log[c]

LEMMA AloneMatch ==
  ASSUME MatchInv, NEW b \in Branches, Alone(b),
         Fits(Branch(b), pc'[b], sub'[b], heard'[b], log'[b])
  PROVE  MatchInv'
  <1>1. Branches' = Branches
    BY DEF Alone, Branches
  <1>2. ASSUME NEW c \in Branches PROVE MatchOf(c)'
    <2>1. CASE c = b
      BY <2>1, FitsHolds DEF Alone
    <2>2. CASE c # b
      <3>1. Fits(Branch(c), pc'[c], sub'[c], heard'[c], log'[c])
        BY <2>2 DEF Alone, MatchInv, MatchOf
      <3> QED
        BY <3>1, FitsHolds DEF Alone
    <2> QED
      BY <2>1, <2>2
  <1> QED
    BY <1>1, <1>2 DEF MatchInv, Alone

-----------------------------------------------------------------------------
(* The steps *)

\* A branch begins, or is done with its subscription.
Departs(b, q) ==
  /\ UNCHANGED <<scenario, heard, log>> /\ pc' = [pc EXCEPT ![b] = q] /\ q \notin LiveAt
  /\ DOMAIN sub' = DOMAIN sub /\ \A c \in Branches \ {b} : sub'[c] = sub[c]
  /\ q \in EarlyAt => pc[b] \in EarlyAt /\ sub' = sub

LEMMA DepartMatch ==
  ASSUME Shape, MatchInv, NEW b \in Branches, NEW q, Departs(b, q) PROVE MatchInv'
  <1>1. Alone(b)
    BY DEF Alone, Departs, Shape, MatchInv
  <1>2. Fits(Branch(b), pc[b], sub[b], heard[b], log[b])
    BY DEF MatchInv, MatchOf
  <1>3. pc'[b] = q /\ heard'[b] = heard[b] /\ log'[b] = log[b]
    BY DEF Departs, Shape
  <1>4. q \notin LiveAt /\ (q \in EarlyAt => pc[b] \in EarlyAt /\ sub'[b] = sub[b])
    BY DEF Departs
  <1>5. Fits(Branch(b), q, sub'[b], heard[b], log[b])
    BY <1>2, <1>4, FitsApart
  <1> QED
    BY <1>1, <1>3, <1>5, AloneMatch

DepartStep(b) ==
  \/ Acquire(b) \/ Connect(b) \/ ConnectFails(b) \/ RunStep(b) \/ Close(b) \/ Send(b) \/ Release(b)
  \/ SubscribeFails(b) \/ Reject(b) \/ StreamEnds(b) \/ StreamFails(b) \/ Over(b)

LEMMA DepartSteps ==
  ASSUME NEW b \in Branches, DepartStep(b)
  PROVE  \E q : Departs(b, q)
  <1> USE DEF At, Goto, histories, EarlyAt, LiveAt
  <1>1. CASE Acquire(b)
    <2>1. Departs(b, "connect")
      BY <1>1 DEF Departs, Acquire
    <2> QED
      BY <2>1
  <1>2. CASE Connect(b)
    <2>1. Departs(b, "step")
      BY <1>2 DEF Departs, Connect
    <2> QED
      BY <2>1
  <1>3. CASE ConnectFails(b) \/ RunStep(b) \/ SubscribeFails(b) \/ Reject(b) \/ StreamFails(b) \/ Over(b)
    <2>1. Departs(b, "close")
      BY <1>3 DEF Departs, ConnectFails, RunStep, SubscribeFails, Reject, StreamFails, Over,
                  Break, Succeed
    <2> QED
      BY <2>1
  <1>4. CASE Close(b)
    <2>1. Departs(b, "send")
      BY <1>4 DEF Departs, Close
    <2> QED
      BY <2>1
  <1>5. CASE Send(b)
    <2>1. Departs(b, "sent")
      BY <1>5 DEF Departs, Send
    <2> QED
      BY <2>1
  <1>6. CASE Release(b)
    <2>1. Departs(b, "gone")
      BY <1>6 DEF Departs, Release
    <2> QED
      BY <2>1
  <1>7. CASE StreamEnds(b)
    <2>1. Departs(b, "over")
      BY <1>7 DEF Departs, StreamEnds
    <2> QED
      BY <2>1
  <1> QED
    BY <1>1, <1>2, <1>3, <1>4, <1>5, <1>6, <1>7 DEF DepartStep

LEMMA StillMatch ==
  ASSUME Shape, MatchInv, ParentStep \/ Tick \/ UNCHANGED vars \/ \E b \in Branches : Panic(b)
  PROVE  MatchInv'
  <1>1. CASE Spawn
    <2>1. /\ UNCHANGED <<scenario, sub, heard, log>> /\ phase = "start"
          /\ pc' = [b \in Branches |-> "waiting"]
      BY <1>1 DEF Spawn, histories
    <2>2. Branches' = Branches
      BY <2>1 DEF Branches
    <2>3. ASSUME NEW b \in Branches PROVE MatchOf(b)'
      <3>1. pc[b] = "new" /\ pc'[b] = "waiting"
        BY <2>1 DEF Shape
      <3>2. Fits(Branch(b), "new", sub[b], heard[b], log[b])
        BY <3>1 DEF MatchInv, MatchOf
      <3>3. Fits(Branch(b), "waiting", sub[b], heard[b], log[b])
        BY <3>2, FitsApart DEF EarlyAt, LiveAt
      <3> QED
        BY <2>1, <3>1, <3>3, FitsHolds
    <2> QED
      BY <2>1, <2>2, <2>3 DEF MatchInv
  <1>2. CASE UNCHANGED <<scenario, pc, sub, heard, log>>
    <2>1. Branches' = Branches
      BY <1>2 DEF Branches
    <2>2. ASSUME NEW b \in Branches PROVE MatchOf(b)'
      <3>1. Fits(Branch(b), pc'[b], sub'[b], heard'[b], log'[b])
        BY <1>2 DEF MatchInv, MatchOf
      <3> QED
        BY <1>2, <3>1, FitsHolds
    <2> QED
      BY <1>2, <2>1, <2>2 DEF MatchInv
  <1>3. CASE TooDeep \/ Malformed \/ Merge
    <2>1. UNCHANGED <<scenario, pc, sub, heard, log>>
      BY <1>3 DEF TooDeep, Malformed, Refuse, Merge, branchVars, histories
    <2> QED
      BY <1>2, <2>1
  <1>4. CASE Tick \/ UNCHANGED vars
    <2>1. UNCHANGED <<scenario, pc, sub, heard, log>>
      BY <1>4 DEF Tick, vars, branchVars, histories
    <2> QED
      BY <1>2, <2>1
  <1>5. CASE \E b \in Branches : Panic(b)
    <2>1. UNCHANGED <<scenario, pc, sub, heard, log>>
      BY <1>5 DEF Panic, branchVars, histories
    <2> QED
      BY <1>2, <2>1
  <1> QED
    BY <1>1, <1>3, <1>4, <1>5 DEF ParentStep

LEMMA SubscribeMatch ==
  ASSUME Shape, MatchInv, NEW b \in Branches, Subscribe(b) PROVE MatchInv'
  <1>0. scenario \in Scenarios /\ DOMAIN pc = Branches /\ DOMAIN sub = Branches /\ DOMAIN heard = Branches
    BY DEF Shape, MatchInv
  <1>1. /\ UNCHANGED <<scenario, heard, log>> /\ pc' = [pc EXCEPT ![b] = "stream"] /\ pc[b] = "step"
        /\ Branch(b).subscribe /\ Accepted(b)
        /\ sub' = [sub EXCEPT ![b].counts = [i \in Triggers(b) |-> 0],
                              ![b].last = [i \in Triggers(b) |-> Unset]]
    BY DEF Subscribe, At, Goto, histories
  <1>2. Alone(b) /\ pc'[b] = "stream"
    BY <1>0, <1>1 DEF Alone
  <1> DEFINE br == Branch(b)
             w  == sub'[b]
  <1>3. heard[b] = <<>> /\ log[b] = <<>> /\ sub[b] = NewSub
    BY <1>1 DEF MatchInv, MatchOf, Fits, EarlyAt
  <1>4. w.todo = <<>> /\ w.numbers = <<>>
    BY <1>0, <1>1, <1>3 DEF NewSub
  <1>5. \A i \in 1..Len(br.triggers) : Samples(br.triggers[i]) \in Nat
    <2>1. \A i \in 1..Len(br.triggers) : ValidTrigger(br.triggers[i]) /\ br.triggers[i].samples \in Int
      BY <1>0, <1>1, SettingsOf DEF Accepted, Trigger
    <2> QED
      BY <2>1 DEF ValidTrigger, Samples
  <1>6. Len(<<>>) = 0 /\ IsSequence(<<>>)
    BY DEF IsSequence
  <1> HIDE DEF br, w
  <1>7. Queue(Len(br.triggers), "stream", w)
    BY <1>4, <1>6 DEF Queue
  <1>8. Reckoned(br.triggers, "stream", w, <<>>)
    BY <1>4, <1>5, ReckonNothing
  <1>9. Hearing("stream", w, <<>>)
    BY <1>6 DEF Hearing
  <1>10. Exact(br.triggers, <<>>, <<>>)
    BY DEF Exact
  <1>11. br.subscribe
    BY <1>1 DEF br
  <1>12. Fits(br, "stream", w, <<>>, <<>>)
    BY <1>5, <1>7, <1>8, <1>9, <1>10, <1>11 DEF Fits, EarlyAt
  <1>13. Fits(Branch(b), pc'[b], sub'[b], heard'[b], log'[b])
    BY <1>1, <1>2, <1>3, <1>12 DEF br, w
  <1> QED
    BY <1>2, <1>13, AloneMatch

\* A subscription goes on, with nothing to be shown to anyone.
LEMMA StreamOn ==
  ASSUME NEW br, NEW p, NEW u, NEW s, NEW l, Fits(br, p, u, s, l), p \in LiveAt,
         \A i : ~Waits(i, p, u),
         NEW q, q \in {"stream", "handle"}, NEW w, w.fired = u.fired, w.numbers = u.numbers,
         Queue(Len(br.triggers), q, w), w.todo # <<>> => Head(w.todo).trigger = 1
  PROVE  Fits(br, q, w, s, l)
  <1>1. \A i : ~Waits(i, q, w)
    BY DEF Waits
  <1>2. Reckoned(br.triggers, q, w, s)
    <2>1. \A i \in 1..Len(br.triggers) : SeenBy(i, q, w, s) = SeenBy(i, p, u, s)
      BY <1>1 DEF SeenBy
    <2>2. Reckoned(br.triggers, p, u, s)
      BY DEF Fits
    <2> QED
      BY <2>1, <2>2, ReckonSame
  <1>3. Hearing(q, w, s)
    BY DEF Fits, Hearing
  <1> QED
    BY <1>2, <1>3 DEF Fits, EarlyAt, LiveAt

LEMMA SyncMatch == ASSUME Shape, MatchInv, NEW b \in Branches, Sync(b) PROVE MatchInv'
  <1>1. /\ UNCHANGED <<scenario, heard, log>> /\ pc[b] = "stream"
        /\ sub' = [sub EXCEPT ![b].synced = TRUE]
        /\ \/ pc' = [pc EXCEPT ![b] = "stream"]
           \/ pc' = [pc EXCEPT ![b] = "over"]
    BY DEF Sync, At, Goto, histories
  <1>2. DOMAIN sub' = DOMAIN sub /\ \A c \in Branches \ {b} : sub'[c] = sub[c]
    BY <1>1 DEF Shape
  <1>3. CASE pc' = [pc EXCEPT ![b] = "over"]
    <2>1. Departs(b, "over")
      BY <1>1, <1>2, <1>3 DEF Departs, EarlyAt, LiveAt
    <2> QED
      BY <2>1, DepartMatch
  <1>4. CASE pc' = [pc EXCEPT ![b] = "stream"]
    <2>1. Alone(b) /\ pc'[b] = "stream"
      BY <1>1, <1>2, <1>4 DEF Alone, Shape, MatchInv
    <2>2. Fits(Branch(b), "stream", sub[b], heard[b], log[b])
      BY <1>1 DEF MatchInv, MatchOf
    <2>3. PICK u : u = sub[b]
      OBVIOUS
    <2>4. PICK w : w = sub'[b]
      OBVIOUS
    <2>5. w.todo = u.todo /\ w.fired = u.fired /\ w.numbers = u.numbers
      BY <1>1, <2>3, <2>4 DEF Shape, Fields
    <2>6. Queue(Len(Branch(b).triggers), "stream", u) /\ u.todo = <<>>
      BY <2>2, <2>3 DEF Fits, LiveAt, Queue
    <2>7. Queue(Len(Branch(b).triggers), "stream", w) /\ w.todo = <<>>
      BY <2>5, <2>6 DEF Queue
    <2>8. \A i : ~Waits(i, "stream", u)
      BY DEF Waits
    <2>9. "stream" \in LiveAt
      BY DEF LiveAt
    <2>10. Fits(Branch(b), "stream", w, heard[b], log[b])
      BY <2>2, <2>3, <2>5, <2>7, <2>8, <2>9, StreamOn
    <2> QED
      BY <1>1, <2>1, <2>4, <2>10, AloneMatch
  <1> QED
    BY <1>1, <1>3, <1>4

LEMMA HandledMatch == ASSUME Shape, MatchInv, NEW b \in Branches, Handled(b) PROVE MatchInv'
  <1>1. /\ UNCHANGED <<scenario, heard, log, sub>> /\ pc[b] = "handle" /\ sub[b].todo = <<>>
        /\ \/ pc' = [pc EXCEPT ![b] = "stream"]
           \/ pc' = [pc EXCEPT ![b] = "over"]
    BY DEF Handled, At, Goto, histories
  <1>2. CASE pc' = [pc EXCEPT ![b] = "over"]
    <2>1. Departs(b, "over")
      BY <1>1, <1>2 DEF Departs, EarlyAt, LiveAt
    <2> QED
      BY <2>1, DepartMatch
  <1>3. CASE pc' = [pc EXCEPT ![b] = "stream"]
    <2>1. Alone(b) /\ pc'[b] = "stream"
      BY <1>1, <1>3 DEF Alone, Shape, MatchInv
    <2>2. Fits(Branch(b), "handle", sub[b], heard[b], log[b])
      BY <1>1 DEF MatchInv, MatchOf
    <2>3. PICK u : u = sub[b]
      OBVIOUS
    <2>4. Queue(Len(Branch(b).triggers), "handle", u) /\ u.todo = <<>>
      BY <1>1, <2>2, <2>3 DEF Fits, LiveAt
    <2>5. Queue(Len(Branch(b).triggers), "stream", u)
      BY <2>4 DEF Queue
    <2>6. \A i : ~Waits(i, "handle", u)
      BY <2>4 DEF Waits
    <2>7. "handle" \in LiveAt
      BY DEF LiveAt
    <2>8. Fits(Branch(b), "stream", u, heard[b], log[b])
      BY <2>2, <2>3, <2>4, <2>5, <2>6, <2>7, StreamOn
    <2> QED
      BY <1>1, <2>1, <2>3, <2>8, AloneMatch
  <1> QED
    BY <1>1, <1>2, <1>3

LEMMA ReceiveMatch == ASSUME Shape, MatchInv, NEW b \in Branches, Receive(b) PROVE MatchInv'
  <1> DEFINE Ev(e) == [type |-> e.type, path |-> e.path, value |-> e.value,
                       time |-> now, initial |-> ~sub[b].synced]
             tr == Branch(b).triggers
  <1>1. PICK n : n = Len(tr)
    OBVIOUS
  <1>2. PICK note \in Branch(b).notes :
          /\ UNCHANGED <<scenario, heard, log>> /\ pc[b] = "stream"
          /\ pc' = [pc EXCEPT ![b] = "handle"]
          /\ sub' = [sub EXCEPT ![b].received = @ + 1,
                                ![b].todo = [k \in 1..(n * Len(note)) |->
                                  [event |-> Ev(note[((k - 1) \div n) + 1]),
                                   trigger |-> ((k - 1) % n) + 1]]]
    BY <1>1 DEF Receive, At, Goto, histories
  <1>3. Alone(b) /\ pc'[b] = "handle"
    BY <1>2 DEF Alone, Shape, MatchInv
  <1>4. Fits(Branch(b), "stream", sub[b], heard[b], log[b])
    BY <1>2 DEF MatchInv, MatchOf
  <1>5. Branch(b).subscribe
    BY <1>4 DEF Fits, LiveAt
  <1>6. scenario \in Scenarios /\ now \in Nat
    BY DEF Shape
  <1>7. n \in Nat /\ IsList(note) /\ \A i \in DOMAIN note : IsValue(note[i].value)
    BY <1>1, <1>5, <1>6, SettingsOf
  <1>8. PICK m \in Nat : m = Len(note)
    BY <1>7, LenProperties DEF IsList
  <1>9. DOMAIN note = 1..m
    BY <1>7, <1>8, LenProperties DEF IsList
  <1>10. PICK ev : ev = [i \in 1..m |-> Ev(note[i])]
    OBVIOUS
  <1>11. \A i \in 1..m : IsEvent(ev[i])
    BY <1>6, <1>7, <1>9, <1>10 DEF IsEvent
  <1>12. PICK w : w = sub'[b]
    OBVIOUS
  <1>13. PICK u : u = sub[b]
    OBVIOUS
  <1>14. w.fired = u.fired /\ w.numbers = u.numbers
         /\ w.todo = [k \in 1..(n * m) |-> [event |-> Ev(note[((k - 1) \div n) + 1]),
                                            trigger |-> ((k - 1) % n) + 1]]
    BY <1>2, <1>8, <1>12, <1>13 DEF Shape, Fields
  <1>15. w.todo = Tasks(n, m, ev)
    <2>1. \A k \in 1..(n * m) : ((k - 1) \div n) + 1 \in 1..m
      BY <1>7, TaskNumbers
    <2>2. \A k \in 1..(n * m) : Ev(note[((k - 1) \div n) + 1]) = ev[((k - 1) \div n) + 1]
      BY <1>10, <2>1
    <2> HIDE DEF Ev
    <2> QED
      BY <1>14, <2>2 DEF Tasks
  <1> HIDE DEF Ev, tr
  <1>16. Queue(n, "handle", w) /\ (w.todo # <<>> => Head(w.todo).trigger = 1)
    BY <1>7, <1>11, <1>15, NewTasks
  <1>17. (\A i : ~Waits(i, "stream", u)) /\ "stream" \in LiveAt
    BY DEF Waits, LiveAt
  <1>18. Fits(Branch(b), "handle", w, heard[b], log[b])
    BY <1>1, <1>4, <1>13, <1>14, <1>16, <1>17, StreamOn DEF tr
  <1> QED
    BY <1>2, <1>3, <1>12, <1>18, AloneMatch

\* The trigger whose turn it is has been shown the event, and the rest is as it was.
ItsTurn(br, n, u, s, l, s2, m, j, q) ==
  /\ Fits(br, "handle", u, s, l) /\ u.todo # <<>>
  /\ n \in Nat /\ n = Len(br.triggers) /\ Turn(n, u, s, s2, m)
  /\ j = Head(u.todo).trigger /\ q = s2[m].path

HadTurn(br, p, u, w, s2, m, j, q) ==
  /\ Keeps(u, w, <<j, q>>) /\ Knows(br.triggers, w, s2, m, j, q)
  /\ \/ p = "handle" /\ w.todo = Tail(u.todo)
     \/ p = "nested" /\ w.todo = u.todo

LEMMA FitsTurn ==
  ASSUME NEW br, NEW n, NEW u, NEW s, NEW l, NEW s2, NEW m, NEW j, NEW q,
         ItsTurn(br, n, u, s, l, s2, m, j, q),
         NEW p, NEW w, HadTurn(br, p, u, w, s2, m, j, q), NEW k, Exact(br.triggers, s2, k)
  PROVE  Fits(br, p, w, s2, k)
  <1>0. PICK ts : ts = br.triggers
    OBVIOUS
  <1>1. /\ u.todo # <<>> /\ n \in Nat /\ n = Len(ts) /\ Turn(n, u, s, s2, m)
        /\ j = Head(u.todo).trigger /\ q = s2[m].path /\ Fits(br, "handle", u, s, l)
    BY <1>0 DEF ItsTurn
  <1>2. /\ Keeps(u, w, <<j, q>>) /\ Knows(ts, w, s2, m, j, q)
        /\ \/ p = "handle" /\ w.todo = Tail(u.todo)
           \/ p = "nested" /\ w.todo = u.todo
    BY <1>0 DEF HadTurn
  <1>3. Queue(n, "handle", u) /\ Reckoned(ts, "handle", u, s)
        /\ br.subscribe /\ \A i \in 1..n : Samples(ts[i]) \in Nat
    BY <1>0, <1>1 DEF Fits, LiveAt
  <1>4. j \in 1..n
    BY <1>1, <1>3, FirstTask
  <1>5. m \in Nat \ {0} /\ m = Len(s2) /\ IsSequence(s2) /\ (\A i \in 1..m : IsEvent(s2[i]))
        /\ s2[m] = Head(u.todo).event
    BY <1>1 DEF Turn
  <1>6. /\ Queue(n, p, w) /\ Hearing(p, w, s2)
        /\ \A i \in 1..n : SeenBy(i, p, w, s2) = IF i > j THEN m - 1 ELSE m
    <2>1. CASE p = "handle" /\ w.todo = Tail(u.todo)
      <3>1. Queue(n, "handle", w)
        BY <1>1, <1>3, <2>1, TasksGoOn
      <3>2. /\ Hearing("handle", w, s2)
            /\ \A i \in 1..n : SeenBy(i, "handle", w, s2) = IF i > Head(u.todo).trigger THEN m - 1 ELSE m
        BY <1>1, <1>3, <1>5, <2>1, TurnEnds
      <3> QED
        BY <1>1, <2>1, <3>1, <3>2
    <2>2. CASE p = "nested" /\ w.todo = u.todo
      <3>1. Queue(n, "nested", w)
        BY <1>1, <1>3, <2>2 DEF Queue
      <3>2. m >= 1
        BY <1>5
      <3>3. Hearing("nested", w, s2)
        BY <1>5, <2>2, <3>2 DEF Hearing
      <3>4. \A i \in 1..n : SeenBy(i, "nested", w, s2) = IF i > j THEN m - 1 ELSE m
        BY <1>1, <1>5, <2>2 DEF SeenBy, Waits
      <3> QED
        BY <2>2, <3>1, <3>3, <3>4
    <2> QED
      BY <1>2, <2>1, <2>2
  <1>7. AtTurn(ts, n, u, s, s2, m, j, q)
    BY <1>1, <1>3, <1>4 DEF AtTurn
  <1>8. Past(n, p, w, s2, m, j)
    BY <1>6 DEF Past
  <1>9. Reckoned(ts, p, w, s2)
    BY <1>2, <1>7, <1>8, ReckonTurn
  <1>10. p \notin EarlyAt
    BY <1>2 DEF EarlyAt
  <1> QED
    BY <1>0, <1>1, <1>3, <1>6, <1>9, <1>10 DEF Fits

LEMMA ExactTurn ==
  ASSUME NEW ts, NEW n, NEW u, NEW s, NEW s2, NEW m, Turn(n, u, s, s2, m), NEW l, Exact(ts, s, l)
  PROVE  Exact(ts, s2, l)
  <1>1. /\ m \in Nat /\ m = Len(s2) /\ Len(s) \in Nat /\ Len(s) <= m
        /\ SameEvents(s, s2, Len(s))
    BY DEF Turn
  <1>2. Len(s2) \in Nat /\ Len(s) <= Len(s2)
    BY <1>1
  <1> QED
    BY <1>1, <1>2, ExactStill

\* It looks, and logs what it sees.
Sees(br, n, u, s, l, s2, m, j, q, t, a) ==
  /\ ItsTurn(br, n, u, s, l, s2, m, j, q) /\ IsSequence(l) /\ t = br.triggers[j]
  /\ ~Through(br.triggers, u, j, q) /\ Selects(t, s2[m])
  /\ a = Match(t, NumbersOf(u, <<j, q>>), s2[m]) /\ a.outcome \in {"idle", "ready"}

Writes(p, u, w, l, k, x, m, j, q, a) ==
  /\ Keeps(u, w, <<j, q>>) /\ NumbersOf(w, <<j, q>>) = a.state
  /\ \/ p = "handle" /\ w.todo = Tail(u.todo)
     \/ p = "nested" /\ w.todo = u.todo
  /\ x.trigger = j /\ x.path = q /\ x.upto = m /\ x.ready = (a.outcome = "ready")
  /\ k = Append(l, x)

LEMMA LookTurn ==
  ASSUME NEW br, NEW n, NEW u, NEW s, NEW l, NEW s2, NEW m, NEW j, NEW q, NEW t, NEW a,
         Sees(br, n, u, s, l, s2, m, j, q, t, a),
         NEW p, NEW w, NEW k, NEW x, Writes(p, u, w, l, k, x, m, j, q, a)
  PROVE  Fits(br, p, w, s2, k)
  <1>1. /\ n \in Nat /\ n = Len(br.triggers) /\ Turn(n, u, s, s2, m)
        /\ j = Head(u.todo).trigger /\ q = s2[m].path /\ t = br.triggers[j]
        /\ ~Through(br.triggers, u, j, q) /\ Selects(t, s2[m])
        /\ a = Match(t, NumbersOf(u, <<j, q>>), s2[m]) /\ a.outcome \in {"idle", "ready"}
        /\ Fits(br, "handle", u, s, l) /\ u.todo # <<>> /\ IsSequence(l)
        /\ ItsTurn(br, n, u, s, l, s2, m, j, q)
    BY DEF Sees, ItsTurn
  <1>2. /\ Keeps(u, w, <<j, q>>) /\ NumbersOf(w, <<j, q>>) = a.state
        /\ \/ p = "handle" /\ w.todo = Tail(u.todo)
           \/ p = "nested" /\ w.todo = u.todo
        /\ x.trigger = j /\ x.path = q /\ x.upto = m /\ x.ready = (a.outcome = "ready")
        /\ k = Append(l, x)
    BY DEF Writes
  <1>3. PICK ts : ts = br.triggers
    OBVIOUS
  <1>4. Queue(n, "handle", u) /\ Reckoned(ts, "handle", u, s) /\ Exact(ts, s, l)
        /\ \A i \in 1..n : Samples(ts[i]) \in Nat
    BY <1>1, <1>3 DEF Fits, LiveAt
  <1>5. j \in 1..n
    BY <1>1, <1>4, FirstTask
  <1>6. Numeric(t) => Looked(a, t, s2, MineOf(s2, t, q, m), m)
    <2> SUFFICES ASSUME Numeric(t) PROVE Looked(a, t, s2, MineOf(s2, t, q, m), m)
      OBVIOUS
    <2>1. AtTurn(ts, n, u, s, s2, m, j, q)
      BY <1>1, <1>3, <1>4, <1>5 DEF AtTurn
    <2>2. Looks(ts, u, s2, m, j, q, a)
      BY <1>1, <1>3, <1>4, <1>5 DEF Looks
    <2>3. Looked(a, ts[j], s2, MineOf(s2, ts[j], q, m), m)
      BY <2>1, <2>2, LookRemembers
    <2> QED
      BY <1>1, <1>3, <2>3
  <1>7. Numeric(t) => Remembers(NumbersOf(w, <<j, q>>), t, s2, MineOf(s2, t, q, m), m)
    BY <1>2, <1>6 DEF Looked
  <1>8. x.ready <=> (Numeric(t) => Alarm(t, s2, MineOf(s2, t, q, m), m))
    <2>1. CASE Numeric(t)
      BY <1>2, <1>6, <2>1 DEF Looked
    <2>2. CASE ~Numeric(t)
      <3>1. a = Answer(NumbersOf(u, <<j, q>>), "ready", Unset)
        BY <1>1, <2>2 DEF Match
      <3>2. a.outcome = "ready"
        BY <3>1 DEF Answer
      <3> QED
        BY <1>2, <2>2, <3>2
    <2> QED
      BY <2>1, <2>2
  <1>9. Exact(ts, s2, k)
    <2>1. Exact(ts, s2, l)
      BY <1>1, <1>4, ExactTurn
    <2>2. x.upto \in 1..Len(s2)
      <3>1. m \in Nat \ {0} /\ m = Len(s2)
        BY <1>1 DEF Turn
      <3>2. m \in 1..m
        BY <3>1
      <3> QED
        BY <1>2, <3>1, <3>2
    <2>3. x.ready <=> (Numeric(t) => Alarm(t, s2, MineOf(s2, t, x.path, x.upto), x.upto))
      BY <1>2, <1>8
    <2>4. t = ts[x.trigger] /\ k = Append(l, x) /\ IsSequence(l)
      BY <1>1, <1>2, <1>3
    <2> QED
      BY <2>1, <2>2, <2>3, <2>4, ExactMore
  <1>10. Knows(br.triggers, w, s2, m, j, q)
    BY <1>1, <1>7 DEF Knows
  <1>11. Exact(br.triggers, s2, k)
    BY <1>3, <1>9
  <1>12. HadTurn(br, p, u, w, s2, m, j, q)
    BY <1>2, <1>10 DEF HadTurn
  <1> QED
    BY <1>1, <1>11, <1>12, FitsTurn

\* A task: its event is heard, if it is the event's first.
TaskTaken(b, n, u, s, s2, m) ==
  /\ n \in Nat /\ n = Len(Branch(b).triggers) /\ u = sub[b] /\ s = heard[b]
  /\ Fits(Branch(b), "handle", u, s, log[b]) /\ u.todo # <<>> /\ IsSequence(log[b])
  /\ Turn(n, u, s, s2, m) /\ Queue(n, "handle", u) /\ Reckoned(Branch(b).triggers, "handle", u, s)
  /\ pc[b] = "handle" /\ s2[m] = Event(b)

LEMMA BusyTurn ==
  ASSUME Shape, MatchInv, NEW b \in Branches, Busy(b), Hear(b),
         NEW n, n = Len(Branch(b).triggers), NEW u, u = sub[b], NEW s, s = heard[b],
         NEW s2, s2 = heard'[b], NEW m, m = Len(s2)
  PROVE  /\ TaskTaken(b, n, u, s, s2, m)
         /\ DOMAIN heard' = Branches /\ \A c \in Branches \ {b} : heard'[c] = heard[c]
  <1>1. pc[b] = "handle" /\ u.todo # <<>>
    BY DEF Busy, At
  <1>2. DOMAIN heard = Branches
    BY DEF MatchInv
  <1>3. /\ s2 = IF Head(u.todo).trigger = 1 THEN Append(s, Head(u.todo).event) ELSE s
        /\ DOMAIN heard' = Branches /\ \A c \in Branches \ {b} : heard'[c] = heard[c]
    BY <1>2 DEF Hear, Task, Event
  <1>4. Fits(Branch(b), "handle", u, s, log[b])
    BY <1>1 DEF MatchInv, MatchOf
  <1>5. Branch(b).subscribe /\ Queue(n, "handle", u) /\ Hearing("handle", u, s)
        /\ Reckoned(Branch(b).triggers, "handle", u, s)
    BY <1>4 DEF Fits, LiveAt
  <1>6. n \in Nat
    BY <1>5, SettingsOf DEF Shape
  <1>7. Turn(n, u, s, s2, m)
    BY <1>1, <1>3, <1>5, <1>6, TurnBegins
  <1>8. s2[m] = Event(b)
    BY <1>7 DEF Turn, Event, Task
  <1>9. IsSequence(log[b])
    BY DEF Shape
  <1> QED
    BY <1>1, <1>3, <1>4, <1>5, <1>6, <1>7, <1>8, <1>9 DEF TaskTaken

LEMMA SkipMatch == ASSUME Shape, MatchInv, NEW b \in Branches, Skip(b) PROVE MatchInv'
  <1>1. /\ Busy(b) /\ PassedOver(b) /\ Hear(b) /\ UNCHANGED <<scenario, pc, log>>
        /\ sub' = [sub EXCEPT ![b].todo = Tail(@)]
    BY DEF Skip, branchVars
  <1>2. PICK n : n = Len(Branch(b).triggers)
    OBVIOUS
  <1>3. PICK u : u = sub[b]
    OBVIOUS
  <1>4. PICK s : s = heard[b]
    OBVIOUS
  <1>5. PICK s2 : s2 = heard'[b]
    OBVIOUS
  <1>6. PICK m : m = Len(s2)
    OBVIOUS
  <1>7. PICK w : w = sub'[b]
    OBVIOUS
  <1>8. TaskTaken(b, n, u, s, s2, m)
        /\ DOMAIN heard' = Branches /\ \A c \in Branches \ {b} : heard'[c] = heard[c]
    BY <1>1, <1>2, <1>3, <1>4, <1>5, <1>6, BusyTurn
  <1>9. w.todo = Tail(u.todo) /\ w.fired = u.fired /\ w.numbers = u.numbers
    BY <1>1, <1>3, <1>7 DEF Shape, Fields
  <1>10. Alone(b) /\ pc'[b] = "handle"
    BY <1>1, <1>8 DEF Alone, Shape, TaskTaken
  <1>11. PICK br : br = Branch(b)
    OBVIOUS
  <1>12. PICK l : l = log[b]
    OBVIOUS
  <1>13. /\ n \in Nat /\ n = Len(br.triggers) /\ Fits(br, "handle", u, s, l) /\ u.todo # <<>>
         /\ Turn(n, u, s, s2, m) /\ Queue(n, "handle", u) /\ Reckoned(br.triggers, "handle", u, s)
    BY <1>8, <1>11, <1>12 DEF TaskTaken
  <1>14. PICK j : j = Head(u.todo).trigger
    OBVIOUS
  <1>15. PICK q : q = s2[m].path
    OBVIOUS
  <1>16. j \in 1..n
    BY <1>13, <1>14, FirstTask
  <1>17. \/ EffectiveOnce(br.triggers[j]) /\ <<j, q>> \in u.fired
         \/ ~Selects(br.triggers[j], s2[m])
    <2>1. s2[m] = Event(b) /\ Task(b).trigger = j /\ Chosen(b) = br.triggers[j] /\ Site(b) = <<j, q>>
      BY <1>3, <1>8, <1>11, <1>14, <1>15 DEF TaskTaken, Task, Chosen, Trigger, Site
    <2> QED
      BY <1>1, <1>3, <2>1 DEF PassedOver
  <1>18. Keeps(u, w, <<j, q>>)
    BY <1>9 DEF Keeps, NumbersOf
  <1>19. Knows(br.triggers, w, s2, m, j, q)
    <2> SUFFICES ASSUME Numeric(br.triggers[j]), ~Through(br.triggers, w, j, q)
                 PROVE  Remembers(NumbersOf(w, <<j, q>>), br.triggers[j], s2,
                                  MineOf(s2, br.triggers[j], q, m), m)
      BY DEF Knows
    <2>1. ~Through(br.triggers, u, j, q) /\ ~Selects(br.triggers[j], s2[m])
      BY <1>9, <1>17 DEF Through
    <2>2. PICK ts : ts = br.triggers
      OBVIOUS
    <2>3. AtTurn(ts, n, u, s, s2, m, j, q)
      BY <1>13, <1>14, <1>15, <1>16, <2>2 DEF AtTurn
    <2>4. Numeric(ts[j]) /\ ~Through(ts, u, j, q) /\ ~Selects(ts[j], s2[m])
      BY <2>1, <2>2
    <2>5. Remembers(NumbersOf(u, <<j, q>>), ts[j], s2, MineOf(s2, ts[j], q, m), m)
      BY <2>3, <2>4, SkipRemembers
    <2>6. NumbersOf(w, <<j, q>>) = NumbersOf(u, <<j, q>>)
      BY <1>9 DEF NumbersOf
    <2> QED
      BY <2>2, <2>5, <2>6
  <1>20. Exact(br.triggers, s2, l)
    <2>1. Exact(br.triggers, s, l)
      BY <1>13 DEF Fits
    <2> QED
      BY <1>13, <2>1, ExactTurn
  <1>21. Fits(br, "handle", w, s2, l)
    <2>1. ItsTurn(br, n, u, s, l, s2, m, j, q)
      BY <1>13, <1>14, <1>15 DEF ItsTurn
    <2>2. HadTurn(br, "handle", u, w, s2, m, j, q)
      BY <1>9, <1>18, <1>19 DEF HadTurn
    <2> QED
      BY <1>20, <2>1, <2>2, FitsTurn
  <1>22. Fits(Branch(b), pc'[b], sub'[b], heard'[b], log'[b])
    BY <1>1, <1>5, <1>7, <1>10, <1>11, <1>12, <1>21
  <1> QED
    BY <1>10, <1>22, AloneMatch

\* A task that the trigger looks at, and logs.
Taken(b, fired, p) ==
  /\ Busy(b) /\ ~PassedOver(b) /\ Hear(b) /\ Note(b, fired) /\ UNCHANGED scenario
  /\ Judged(b).outcome \in {"idle", "ready"}
  /\ DOMAIN sub' = DOMAIN sub /\ \A c \in Branches \ {b} : sub'[c] = sub[c]
  /\ pc'[b] = p /\ DOMAIN pc' = DOMAIN pc /\ \A c \in Branches \ {b} : pc'[c] = pc[c]
  /\ \/ p = "handle" /\ sub'[b].todo = Tail(sub[b].todo)
     \/ p = "nested" /\ sub'[b].todo = sub[b].todo
  /\ sub[b].fired \subseteq sub'[b].fired /\ sub'[b].numbers = Learn(b)

LEMMA TakenMatch ==
  ASSUME Shape, MatchInv, NEW b \in Branches, NEW fired, NEW p, Taken(b, fired, p) PROVE MatchInv'
  <1>1. /\ Busy(b) /\ ~PassedOver(b) /\ Hear(b) /\ UNCHANGED scenario
        /\ Judged(b).outcome \in {"idle", "ready"}
        /\ log' = [log EXCEPT ![b] = Append(@, Entry(b, fired))]
    BY DEF Taken, Note
  <1>2. PICK n : n = Len(Branch(b).triggers)
    OBVIOUS
  <1>3. PICK u : u = sub[b]
    OBVIOUS
  <1>4. PICK s : s = heard[b]
    OBVIOUS
  <1>5. PICK s2 : s2 = heard'[b]
    OBVIOUS
  <1>6. PICK m : m = Len(s2)
    OBVIOUS
  <1>7. PICK w : w = sub'[b]
    OBVIOUS
  <1>8. TaskTaken(b, n, u, s, s2, m)
        /\ DOMAIN heard' = Branches /\ \A c \in Branches \ {b} : heard'[c] = heard[c]
    BY <1>1, <1>2, <1>3, <1>4, <1>5, <1>6, BusyTurn
  <1>9. PICK x : x = Entry(b, fired)
    OBVIOUS
  <1>10. PICK k : k = log'[b]
    OBVIOUS
  <1>11. PICK br : br = Branch(b)
    OBVIOUS
  <1>12. PICK l : l = log[b]
    OBVIOUS
  <1>13. /\ n \in Nat /\ n = Len(br.triggers) /\ Fits(br, "handle", u, s, l) /\ u.todo # <<>>
         /\ Turn(n, u, s, s2, m) /\ Queue(n, "handle", u) /\ IsSequence(l)
    BY <1>8, <1>11, <1>12 DEF TaskTaken
  <1>14. PICK j : j = Head(u.todo).trigger
    OBVIOUS
  <1>15. PICK q : q = s2[m].path
    OBVIOUS
  <1>16. PICK t : t = br.triggers[j]
    OBVIOUS
  <1>17. PICK a : a = Match(t, NumbersOf(u, <<j, q>>), s2[m])
    OBVIOUS
  <1>18. s2[m] = Event(b) /\ Task(b).trigger = j /\ Chosen(b) = t /\ Site(b) = <<j, q>>
    BY <1>3, <1>8, <1>11, <1>14, <1>15, <1>16 DEF TaskTaken, Task, Chosen, Trigger, Site
  <1>19. Judged(b) = a
    <2>1. Numbers(b) = NumbersOf(u, <<j, q>>)
      BY <1>3, <1>18 DEF Numbers, NumbersOf
    <2> QED
      BY <1>17, <1>18, <2>1 DEF Judged
  <1>20. a.outcome \in {"idle", "ready"}
    BY <1>1, <1>19
  <1>21. ~Through(br.triggers, u, j, q) /\ Selects(t, s2[m])
    BY <1>1, <1>3, <1>16, <1>18 DEF PassedOver, Through
  <1>22. w.numbers = [y \in DOMAIN u.numbers \cup {<<j, q>>} |->
                        IF y = <<j, q>> THEN a.state ELSE u.numbers[y]]
    BY <1>3, <1>7, <1>18, <1>19 DEF Taken, Learn
  <1>23. NumbersOf(w, <<j, q>>) = a.state
    BY <1>22 DEF NumbersOf
  <1>24. Keeps(u, w, <<j, q>>)
    <2>1. u.fired \subseteq w.fired
      BY <1>3, <1>7 DEF Taken
    <2>2. ASSUME NEW y, y # <<j, q>> PROVE NumbersOf(w, y) = NumbersOf(u, y)
      BY <1>22, <2>2 DEF NumbersOf
    <2> QED
      BY <2>1, <2>2 DEF Keeps
  <1>25. x.trigger = j /\ x.path = q /\ x.upto = m /\ x.ready = (a.outcome = "ready")
    BY <1>5, <1>6, <1>9, <1>15, <1>18, <1>19 DEF Entry
  <1>26. k = Append(l, x) /\ \A c \in Branches \ {b} : log'[c] = log[c]
    BY <1>1, <1>9, <1>10, <1>12 DEF Shape
  <1>27. \/ p = "handle" /\ w.todo = Tail(u.todo)
         \/ p = "nested" /\ w.todo = u.todo
    BY <1>3, <1>7 DEF Taken
  <1>28. Fits(br, p, w, s2, k)
    <2>1. Sees(br, n, u, s, l, s2, m, j, q, t, a)
      BY <1>13, <1>14, <1>15, <1>16, <1>17, <1>20, <1>21 DEF Sees, ItsTurn
    <2>2. Writes(p, u, w, l, k, x, m, j, q, a)
      BY <1>23, <1>24, <1>25, <1>26, <1>27 DEF Writes
    <2> QED
      BY <2>1, <2>2, LookTurn
  <1>29. Alone(b)
    BY <1>1, <1>8, <1>26 DEF Alone, Taken
  <1>30. Fits(Branch(b), pc'[b], sub'[b], heard'[b], log'[b])
    BY <1>5, <1>7, <1>10, <1>11, <1>28 DEF Taken
  <1> QED
    BY <1>29, <1>30, AloneMatch

LEMMA PassMatch == ASSUME Shape, MatchInv, NEW b \in Branches, Pass(b) PROVE MatchInv'
  <1>1. /\ Busy(b) /\ ~PassedOver(b) /\ Hear(b) /\ Note(b, FALSE) /\ UNCHANGED <<scenario, pc>>
        /\ Judged(b).outcome \in {"idle", "ready"} /\ pc[b] = "handle"
        /\ sub' = [sub EXCEPT ![b].todo = Tail(@), ![b].numbers = Learn(b)]
    BY DEF Pass, branchVars, Busy, At
  <1>2. PICK d : d = Learn(b)
    OBVIOUS
  <1>3. /\ DOMAIN sub' = DOMAIN sub /\ \A c \in Branches \ {b} : sub'[c] = sub[c]
        /\ sub'[b].todo = Tail(sub[b].todo) /\ sub'[b].numbers = d /\ sub'[b].fired = sub[b].fired
    BY <1>1, <1>2 DEF Shape, Fields
  <1>4. Taken(b, FALSE, "handle")
    BY <1>1, <1>2, <1>3 DEF Taken
  <1> QED
    BY <1>4, TakenMatch

LEMMA FireMatch == ASSUME Shape, MatchInv, NEW b \in Branches, Fire(b) PROVE MatchInv'
  <1>1. /\ Busy(b) /\ ~PassedOver(b) /\ Hear(b) /\ Note(b, TRUE) /\ UNCHANGED scenario
        /\ Judged(b).outcome = "ready" /\ pc' = [pc EXCEPT ![b] = "nested"]
        /\ sub' = [sub EXCEPT ![b].fired = @ \cup {Site(b)}, ![b].numbers = Learn(b),
                              ![b].counts[Task(b).trigger] = @ + 1,
                              ![b].last[Task(b).trigger] = now]
    BY DEF Fire, Goto
  <1>2. PICK d : d = Learn(b)
    OBVIOUS
  <1>3. PICK i : i = Task(b).trigger
    OBVIOUS
  <1>4. sub' = [sub EXCEPT ![b].fired = @ \cup {Site(b)}, ![b].numbers = d,
                           ![b].counts[i] = @ + 1, ![b].last[i] = now]
    BY <1>1, <1>2, <1>3
  <1>5. /\ DOMAIN sub' = DOMAIN sub /\ \A c \in Branches \ {b} : sub'[c] = sub[c]
        /\ sub'[b].todo = sub[b].todo /\ sub'[b].numbers = d
        /\ sub'[b].fired = sub[b].fired \cup {Site(b)}
    BY <1>4 DEF Shape, Fields
  <1>6. /\ pc'[b] = "nested" /\ DOMAIN pc' = DOMAIN pc
        /\ \A c \in Branches \ {b} : pc'[c] = pc[c]
    BY <1>1 DEF Shape
  <1>7. Taken(b, TRUE, "nested")
    BY <1>1, <1>2, <1>5, <1>6 DEF Taken
  <1> QED
    BY <1>7, TakenMatch

\* The trigger's steps are over, and the next task is on.
LEMMA NestedMatch == ASSUME Shape, MatchInv, NEW b \in Branches, RunNested(b) PROVE MatchInv'
  <1>1. /\ UNCHANGED <<scenario, heard, log>> /\ pc[b] = "nested"
        /\ pc' = [pc EXCEPT ![b] = "handle"]
        /\ sub' = [sub EXCEPT ![b].todo = Tail(@)]
    BY DEF RunNested, At, Goto
  <1>2. Alone(b) /\ pc'[b] = "handle"
    BY <1>1 DEF Alone, Shape, MatchInv
  <1>3. PICK u : u = sub[b]
    OBVIOUS
  <1>4. PICK w : w = sub'[b]
    OBVIOUS
  <1>5. PICK br : br = Branch(b)
    OBVIOUS
  <1>6. PICK s : s = heard[b]
    OBVIOUS
  <1>7. w.todo = Tail(u.todo) /\ w.fired = u.fired /\ w.numbers = u.numbers
    BY <1>1, <1>3, <1>4 DEF Shape, Fields
  <1>8. Fits(br, "nested", u, s, log[b])
    BY <1>1, <1>3, <1>5, <1>6 DEF MatchInv, MatchOf
  <1>9. PICK n : n = Len(br.triggers)
    OBVIOUS
  <1>10. /\ br.subscribe /\ (\A i \in 1..n : Samples(br.triggers[i]) \in Nat)
         /\ Queue(n, "nested", u) /\ Reckoned(br.triggers, "nested", u, s)
         /\ Hearing("nested", u, s) /\ Exact(br.triggers, s, log[b])
    BY <1>8, <1>9 DEF Fits, LiveAt
  <1>11. n \in Nat
    BY <1>5, <1>9, <1>10, SettingsOf DEF Shape
  <1>12. u.todo # <<>>
    BY <1>10 DEF Queue
  <1>13. PICK m : m = Len(s)
    OBVIOUS
  <1>14. m \in Nat \ {0} /\ IsSequence(s) /\ (\A k \in 1..m : IsEvent(s[k]))
         /\ s[m] = Head(u.todo).event
    <2>1. m >= 1 /\ IsSequence(s)
      BY <1>10, <1>12, <1>13 DEF Hearing
    <2>2. m \in Nat
      BY <1>13, <2>1 DEF IsSequence
    <2>3. m # 0
      BY <2>1, <2>2
    <2> QED
      BY <1>10, <1>12, <1>13, <2>1, <2>2, <2>3 DEF Hearing
  <1>15. Queue(n, "handle", w)
    BY <1>7, <1>10, <1>11, <1>12, TasksGoOn
  <1>16. /\ Hearing("handle", w, s)
         /\ \A i \in 1..n : SeenBy(i, "handle", w, s) = IF i > Head(u.todo).trigger THEN m - 1 ELSE m
    BY <1>7, <1>10, <1>11, <1>12, <1>13, <1>14, TurnEnds
  <1>17. \A i \in 1..n : SeenBy(i, "nested", u, s) = IF i > Head(u.todo).trigger THEN m - 1 ELSE m
    BY <1>13 DEF SeenBy, Waits
  <1>18. Reckoned(br.triggers, "handle", w, s)
    <2>1. \A i \in 1..Len(br.triggers) : SeenBy(i, "handle", w, s) = SeenBy(i, "nested", u, s)
      BY <1>9, <1>16, <1>17
    <2>2. Reckoned(br.triggers, "nested", u, s)
      BY <1>10
    <2> QED
      BY <1>7, <2>1, <2>2, ReckonSame
  <1>19. Fits(br, "handle", w, s, log[b])
    BY <1>9, <1>10, <1>15, <1>16, <1>18 DEF Fits, EarlyAt
  <1>20. Fits(Branch(b), pc'[b], sub'[b], heard'[b], log'[b])
    BY <1>1, <1>2, <1>4, <1>5, <1>6, <1>19
  <1> QED
    BY <1>2, <1>20, AloneMatch

LEMMA StepMatch == ASSUME Shape, MatchInv, [Next]_vars PROVE MatchInv'
  <1>1. CASE ParentStep \/ Tick \/ UNCHANGED vars
    BY <1>1, StillMatch
  <1>2. ASSUME NEW b \in Branches, BranchStep(b) PROVE MatchInv'
    <2>1. CASE DepartStep(b)
      BY <2>1, DepartSteps, DepartMatch
    <2>2. CASE Panic(b)
      BY <2>2, StillMatch
    <2>3. CASE Subscribe(b) \/ Receive(b) \/ Sync(b) \/ Handled(b)
      BY <2>3, SubscribeMatch, ReceiveMatch, SyncMatch, HandledMatch
    <2>4. CASE Skip(b) \/ Pass(b) \/ Fire(b) \/ RunNested(b)
      BY <2>4, SkipMatch, PassMatch, FireMatch, NestedMatch
    <2> QED
      BY <1>2, <2>1, <2>2, <2>3, <2>4 DEF BranchStep, DepartStep
  <1> QED
    BY <1>1, <1>2 DEF Next, Ended

\* The inductive invariant of the alarms: the tasks of a subscription are each event
\* for each trigger in turn, and a trigger that still looks at a path remembers of it
\* the numbers of exactly those events that it has been shown, the one being handed
\* round included or not (SubscribeEvents, gnmiTriggerHandlerWithBudget, match).
THEOREM MatchInvariant == Spec => []MatchInv
  <1>1. BudgetInv => Shape
    BY DEF BudgetInv
  <1>2. Shape /\ MatchInv /\ [Next]_vars => MatchInv'
    BY StepMatch
  <1> QED
    BY BudgetInvariant, InitMatch, <1>1, <1>2, PTL DEF Spec

\* For any triggers, any notifications in any order and any interleaving of the
\* branches, a numeric trigger answers "ready" exactly if the events of the one path
\* that it selects make it an alarm (match).
THEOREM AlarmsExact == Spec => []AlarmsAreExact
  <1>1. ASSUME MatchInv PROVE AlarmsAreExact
    <2> SUFFICES ASSUME NEW b \in Branches, NEW k \in DOMAIN log[b], NEW t, NEW n,
                        t = Trigger(b, log[b][k].trigger), n = log[b][k].upto
                 PROVE  log[b][k].ready <=>
                          (Numeric(t) => Alarm(t, heard[b], Mine(b, t, log[b][k].path, n), n))
      BY DEF AlarmsAreExact
    <2>1. Exact(Branch(b).triggers, heard[b], log[b])
      BY <1>1 DEF MatchInv, MatchOf, Fits
    <2>2. Mine(b, t, log[b][k].path, n) = MineOf(heard[b], t, log[b][k].path, n)
      BY DEF Mine, MineOf
    <2>3. t = Branch(b).triggers[log[b][k].trigger]
      BY DEF Trigger
    <2> QED
      BY <2>1, <2>2, <2>3 DEF Exact
  <1> QED
    BY MatchInvariant, <1>1, PTL
=============================================================================
