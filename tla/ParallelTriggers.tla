--------------------------- MODULE ParallelTriggers ---------------------------
(***************************************************************************)
(* executeParallel (workflow_executor.go): the branches of a parallel step *)
(* run side by side, each with its own session and its own copy of the     *)
(* variables, and are merged in declared order.  A branch may be a gNMI    *)
(* subscription (executeGNMISubscribe, SubscribeEvents), whose triggers    *)
(* run steps of their own; all of them draw on one budget per device.      *)
(*                                                                         *)
(* A branch is a record: ssh (it needs a session of its own), sets (the    *)
(* variables its step registers), ends (how the step may end), and, if     *)
(* subscribe holds, the triggers, the limits and the notifications that    *)
(* the device may send.  A notification is a sequence of events.           *)
(***************************************************************************)
EXTENDS TriggerMatch, FiniteSets, FiniteSetsExt, SequencesExt, Functions

CONSTANTS
  Scenarios,    \* parallel steps: depth, limit, vars, used (budget) and branches
  Names,        \* variables; "event" stands for the bindings of a trigger
  DeviceFires,  \* maxGNMIDeviceTriggerFires
  DefaultFires, \* defaultGNMITriggerFires
  MaxDepth,     \* maxWorkflowDepth
  MaxTime       \* bound: the clock

ASSUME LimitsAssumption ==
  /\ DeviceFires \in Nat /\ DefaultFires \in Nat /\ MaxDepth \in Nat /\ MaxTime \in Nat
  /\ "event" \in Names

IsList(s)  == s \in Seq(Range(s))
IsValue(v) == v \in Int \/ v = Unset

\* Settings that the loader's integers can have; the others are refused.  A device
\* sends numbers, or Text.
ASSUME ScenariosAssumption ==
  /\ Unset \notin Int
  /\ \A s \in Scenarios :
       /\ s.used \in Nat
       /\ IsList(s.branches) /\ DOMAIN s.vars = Names
       /\ \A b \in 1..Len(s.branches) : s.branches[b].subscribe =>
            /\ s.branches[b].fires \in Nat /\ s.branches[b].cooldown \in Nat
            /\ IsList(s.branches[b].triggers)
            /\ \A i \in DOMAIN s.branches[b].triggers : s.branches[b].triggers[i].samples \in Int
            /\ \A note \in s.branches[b].notes :
                 IsList(note) /\ \A i \in DOMAIN note : IsValue(note[i].value)

VARIABLES
  scenario,  \* the parallel step and what came before it; never changes
  phase,     \* executeParallel: "start", "collect", "done"; or "crashed"
  pc,        \* where each branch's goroutine is
  env,       \* maps of variables: 0 is the parent's, b that of branch b
  failed,    \* each branch's runFailed
  stopped,   \* each branch's step said stop
  session,   \* branches whose SSH session is open
  sub,       \* each branch's subscription
  results,   \* branches whose result is in the channel, in order of arrival
  budget,    \* gnmiActionBudget.fires, shared by the branches
  runFailed, \* the parent's
  stop,      \* what executeParallel returns
  now,       \* the clock, in seconds; the device's is the same
  heard,     \* history: the events each subscription has handed to its handler
  log,       \* history: what its triggers made of those they selected
  wrote      \* history: what each branch's steps registered last, for longer than a trigger

parentVars == <<phase, runFailed, stop>>
branchVars == <<pc, failed, stopped, session, results>>
histories  == <<heard, log, wrote>>
vars == <<scenario, parentVars, branchVars, env, sub, budget, now, histories>>

Branches == 1..Len(scenario.branches)
Branch(b) == scenario.branches[b]
Trigger(b, i) == Branch(b).triggers[i]

Nothing == [v \in Names |-> Unset]
NewSub == [received |-> 0, synced |-> FALSE, todo |-> <<>>, fired |-> {},
           counts |-> <<>>, last |-> <<>>, numbers |-> <<>>]

Init ==
  /\ scenario \in Scenarios
  /\ phase = "start" /\ runFailed = FALSE /\ stop = FALSE
  /\ pc = [b \in Branches |-> "new"]
  /\ env = [b \in {0} \cup Branches |-> scenario.vars]
  /\ failed = [b \in Branches |-> FALSE] /\ stopped = [b \in Branches |-> FALSE]
  /\ session = {} /\ results = <<>>
  /\ sub = [b \in Branches |-> NewSub]
  /\ budget = scenario.used /\ now = 0
  /\ heard = [b \in Branches |-> <<>>] /\ log = [b \in Branches |-> <<>>]
  /\ wrote = [b \in Branches |-> Nothing]

-----------------------------------------------------------------------------
(* The parent *)

Refuse(stops) ==
  /\ phase' = "done" /\ runFailed' = TRUE /\ stop' = stops
  /\ UNCHANGED <<scenario, branchVars, env, sub, budget, now, histories>>

TooDeep == phase = "start" /\ scenario.depth > MaxDepth /\ Refuse(TRUE)

Slots == IF scenario.limit = 0 \/ scenario.limit > Len(scenario.branches)
         THEN Len(scenario.branches) ELSE scenario.limit

Malformed ==
  /\ phase = "start" /\ scenario.depth <= MaxDepth
  /\ Branches = {} \/ Slots \notin 1..16
  /\ Refuse(FALSE)

Spawn ==
  /\ phase = "start" /\ scenario.depth <= MaxDepth /\ Branches # {} /\ Slots \in 1..16
  /\ phase' = "collect"
  /\ pc' = [b \in Branches |-> "waiting"]
  /\ UNCHANGED <<scenario, runFailed, stop, failed, stopped, session, results,
                 env, sub, budget, now, histories>>

\* Fault: a branch's rank is the moment its result arrived.
RankByArrival(b) == CHOOSE i \in DOMAIN results : results[i] = b

\* ordered[result.index] = result
Rank(b) == b

\* Branches that changed v, in the eyes of the merge.
Changed(v) == {b \in Branches : env[b][v] \notin {Unset, env[0][v]}}

First(bs) == CHOOSE b \in bs : \A c \in bs : Rank(b) <= Rank(c)

Conflict(v) == \E b, c \in Changed(v) : env[b][v] # env[c][v]

Merge ==
  /\ phase = "collect" /\ Len(results) = Len(scenario.branches)
  /\ phase' = "done"
  /\ runFailed' = (\/ \E b \in Branches : failed[b]
                   \/ \E v \in Names : Conflict(v))
  /\ stop' = \E b \in Branches : stopped[b]
  /\ env' = [env EXCEPT ![0] = [v \in Names |->
               IF Changed(v) = {} THEN env[0][v] ELSE env[First(Changed(v))][v]]]
  /\ UNCHANGED <<scenario, branchVars, sub, budget, now, histories>>

-----------------------------------------------------------------------------
(* A branch's goroutine *)

At(b, l)   == phase = "collect" /\ pc[b] = l
Goto(b, l) == pc' = [pc EXCEPT ![b] = l]
Fail(b)    == failed' = [failed EXCEPT ![b] = TRUE]

\* Fault: a branch that is over keeps its slot.
HoldingForever == {b \in Branches : pc[b] \notin {"new", "waiting"}}

\* Branches between taking and leaving the semaphore.
Holding == {b \in Branches : pc[b] \notin {"new", "waiting", "gone"}}

Acquire(b) ==
  /\ At(b, "waiting") /\ Cardinality(Holding) < Slots
  /\ Goto(b, "connect")
  /\ UNCHANGED <<scenario, parentVars, failed, stopped, session, results,
                 env, sub, budget, now, histories>>

Connect(b) ==
  /\ At(b, "connect")
  /\ session' = (IF Branch(b).ssh THEN session \cup {b} ELSE session)
  /\ Goto(b, "step")
  /\ UNCHANGED <<scenario, parentVars, failed, stopped, results, env, sub,
                 budget, now, histories>>

ConnectFails(b) ==
  /\ At(b, "connect") /\ Branch(b).ssh
  /\ Fail(b) /\ Goto(b, "close")
  /\ UNCHANGED <<scenario, parentVars, stopped, session, results, env, sub,
                 budget, now, histories>>

\* branchCtx.variables = cloneVariables(base)
VarsOf(b) == b

\* A step registers what it sets.
Register(b, sets) ==
  LET Over(map) == [v \in Names |-> IF sets[v] # Unset THEN sets[v] ELSE map[v]] IN
  /\ env' = [env EXCEPT ![VarsOf(b)] = Over(@)]
  /\ wrote' = [wrote EXCEPT ![b] = Over(@)]

Succeed(b) ==
  /\ Register(b, Branch(b).sets) /\ Goto(b, "close")
  /\ UNCHANGED <<scenario, parentVars, session, results, sub, budget, now, heard, log>>

Break(b) ==
  /\ Fail(b) /\ Goto(b, "close")
  /\ UNCHANGED <<scenario, parentVars, stopped, session, results, env, budget, now,
                 heard, wrote>>

\* The branch's one step, if it is no subscription.
RunStep(b) ==
  /\ At(b, "step") /\ ~Branch(b).subscribe
  /\ \E end \in Branch(b).ends :
       /\ failed' = [failed EXCEPT ![b] = end = "fail"]
       /\ stopped' = [stopped EXCEPT ![b] = end = "stop"]
  /\ Succeed(b)

Close(b) ==
  /\ At(b, "close")
  /\ session' = session \ {b}
  /\ \/ UNCHANGED failed
     \/ b \in session /\ Fail(b)
  /\ Goto(b, "send")
  /\ UNCHANGED <<scenario, parentVars, stopped, results, env, sub, budget, now, histories>>

\* The channel has room for every branch.
Send(b) ==
  /\ At(b, "send")
  /\ results' = Append(results, b)
  /\ Goto(b, "sent")
  /\ UNCHANGED <<scenario, parentVars, failed, stopped, session, env, sub,
                 budget, now, histories>>

\* defer func() { <-semaphore }()
Release(b) ==
  /\ phase \in {"collect", "done"} /\ pc[b] = "sent"
  /\ Goto(b, "gone")
  /\ UNCHANGED <<scenario, parentVars, failed, stopped, session, results, env, sub,
                 budget, now, histories>>

-----------------------------------------------------------------------------
(* A branch that subscribes *)

Fires(b) == IF Branch(b).fires = 0 THEN DefaultFires ELSE Branch(b).fires

Triggers(b) == IF Branch(b).subscribe THEN DOMAIN Branch(b).triggers ELSE {}

Accepted(b) ==
  /\ Branch(b).mode \in {"once", "stream"}
  /\ Branch(b).mode = "stream" => Branch(b).timed \/ Branch(b).updates > 0
  /\ Fires(b) \in 1..100
  /\ Triggers(b) # {} => scenario.depth < MaxDepth
  /\ \A i \in Triggers(b) : ValidTrigger(Trigger(b, i))

Subscribe(b) ==
  /\ At(b, "step") /\ Branch(b).subscribe /\ Accepted(b)
  /\ sub' = [sub EXCEPT ![b].counts = [i \in Triggers(b) |-> 0],
                        ![b].last = [i \in Triggers(b) |-> Unset]]
  /\ Goto(b, "stream")
  /\ UNCHANGED <<scenario, parentVars, failed, stopped, session, results, env,
                 budget, now, histories>>

SubscribeFails(b) ==
  /\ At(b, "step") /\ Branch(b).subscribe
  /\ Break(b) /\ UNCHANGED <<sub, log>>

\* Every event of the notification is shown to every trigger, in order.
Receive(b) ==
  /\ At(b, "stream")
  /\ Branch(b).updates > 0 => sub[b].received < Branch(b).updates
  /\ \E note \in Branch(b).notes :
       LET Event(e) == [type |-> e.type, path |-> e.path, value |-> e.value,
                        time |-> now, initial |-> ~sub[b].synced]
           n == Len(Branch(b).triggers)
       IN sub' = [sub EXCEPT ![b].received = @ + 1,
                             ![b].todo = [k \in 1..(n * Len(note)) |->
                               [event |-> Event(note[((k - 1) \div n) + 1]),
                                trigger |-> ((k - 1) % n) + 1]]]
  /\ Goto(b, "handle")
  /\ UNCHANGED <<scenario, parentVars, failed, stopped, session, results, env,
                 budget, now, histories>>

Sync(b) ==
  /\ At(b, "stream") /\ ~sub[b].synced
  /\ sub' = [sub EXCEPT ![b].synced = TRUE]
  /\ Goto(b, IF Branch(b).mode = "once" THEN "over" ELSE "stream")
  /\ UNCHANGED <<scenario, parentVars, failed, stopped, session, results, env,
                 budget, now, histories>>

Task(b)    == Head(sub[b].todo)
Event(b)   == Task(b).event
Chosen(b)  == Trigger(b, Task(b).trigger)
Site(b)    == <<Task(b).trigger, Event(b).path>>
Numbers(b) == IF Site(b) \in DOMAIN sub[b].numbers THEN sub[b].numbers[Site(b)] ELSE NoState
Judged(b)  == Match(Chosen(b), Numbers(b), Event(b))

Busy(b) == At(b, "handle") /\ sub[b].todo # <<>>

\* The handler sees an event when its first trigger does.
Hear(b) == heard' = [heard EXCEPT ![b] = IF Task(b).trigger = 1 THEN Append(@, Event(b)) ELSE @]

PassedOver(b) ==
  \/ EffectiveOnce(Chosen(b)) /\ Site(b) \in sub[b].fired
  \/ ~Selects(Chosen(b), Event(b))

Cooling(b) ==
  LET last == sub[b].last[Task(b).trigger] IN
  Chosen(b).repeat /\ last # Unset /\ now - last < Branch(b).cooldown

Entry(b, fired) ==
  [trigger |-> Task(b).trigger, path |-> Event(b).path, at |-> now, fired |-> fired,
   ready |-> Judged(b).outcome = "ready", upto |-> Len(heard'[b])]
Note(b, fired) == log' = [log EXCEPT ![b] = Append(@, Entry(b, fired))]

Learn(b) == [s \in DOMAIN sub[b].numbers \cup {Site(b)} |->
               IF s = Site(b) THEN Judged(b).state ELSE sub[b].numbers[s]]

Skip(b) ==
  /\ Busy(b) /\ PassedOver(b) /\ Hear(b)
  /\ sub' = [sub EXCEPT ![b].todo = Tail(@)]
  /\ UNCHANGED <<scenario, parentVars, branchVars, env, budget, now, log, wrote>>

\* Not ready, or ready too soon after the last time.
Pass(b) ==
  /\ Busy(b) /\ ~PassedOver(b) /\ Hear(b) /\ Note(b, FALSE)
  /\ \/ Judged(b).outcome = "idle"
     \/ /\ Judged(b).outcome = "ready" /\ Cooling(b)
        /\ sub[b].counts[Task(b).trigger] < Fires(b)
  /\ sub' = [sub EXCEPT ![b].todo = Tail(@), ![b].numbers = Learn(b)]
  /\ UNCHANGED <<scenario, parentVars, branchVars, env, budget, now, wrote>>

Spent(b) == \/ sub[b].counts[Task(b).trigger] >= Fires(b)
            \/ ~Cooling(b) /\ budget >= DeviceFires

\* The handler's error ends the subscription, and fails its step.
Reject(b) ==
  /\ Busy(b) /\ ~PassedOver(b)
  /\ \/ Judged(b).outcome = "error"
     \/ Judged(b).outcome = "ready" /\ Spent(b)
  /\ Fail(b) /\ Goto(b, "close")
  /\ UNCHANGED <<scenario, parentVars, stopped, session, results, env, sub, budget, now,
                 histories>>

\* A rate that is compared with no threshold: a nil pointer, and nobody recovers.
Panic(b) ==
  /\ Busy(b) /\ ~PassedOver(b) /\ Judged(b).outcome = "panic"
  /\ phase' = "crashed"
  /\ UNCHANGED <<scenario, runFailed, stop, branchVars, env, sub, budget, now, histories>>

\* Fault: the branch counts on a copy of the budget.
ClaimCopy(b) ==
  /\ Cardinality({k \in DOMAIN log[b] : log[b][k].fired}) < DeviceFires
  /\ budget' = budget

\* claimGNMIDeviceTriggerFire: the check and the increment under one lock.
Claim(b) == budget < DeviceFires /\ budget' = budget + 1

Fire(b) ==
  /\ Busy(b) /\ ~PassedOver(b) /\ Judged(b).outcome = "ready" /\ ~Cooling(b)
  /\ sub[b].counts[Task(b).trigger] < Fires(b)
  /\ Claim(b) /\ Hear(b) /\ Note(b, TRUE)
  /\ sub' = [sub EXCEPT ![b].fired = @ \cup {Site(b)}, ![b].numbers = Learn(b),
                        ![b].counts[Task(b).trigger] = @ + 1,
                        ![b].last[Task(b).trigger] = now]
  /\ failed' = [failed EXCEPT ![b] = @ \/ Chosen(b).fail]
  /\ env' = [env EXCEPT ![VarsOf(b)]["event"] = Event(b).path]
  /\ Goto(b, "nested")
  /\ UNCHANGED <<scenario, parentVars, stopped, session, results, now, wrote>>

\* scopedVariables: what the bindings were before; no trigger nests in another.
Restored(b) == scenario.vars["event"]

\* The trigger's steps; that they said stop is not looked at.
RunNested(b) ==
  /\ At(b, "nested")
  /\ \E end \in Chosen(b).steps \cup {"ok"} : failed' = [failed EXCEPT ![b] = @ \/ end = "fail"]
  /\ LET Over(map) == [v \in Names |-> IF Chosen(b).sets[v] # Unset THEN Chosen(b).sets[v]
                                       ELSE map[v]]
     IN /\ env' = [env EXCEPT ![VarsOf(b)] = [Over(@) EXCEPT !["event"] = Restored(b)]]
        /\ wrote' = [wrote EXCEPT ![b] = [Over(@) EXCEPT !["event"] = wrote[b]["event"]]]
  /\ sub' = [sub EXCEPT ![b].todo = Tail(@)]
  /\ Goto(b, "handle")
  /\ UNCHANGED <<scenario, parentVars, stopped, session, results, budget, now, heard, log>>

Handled(b) ==
  /\ At(b, "handle") /\ sub[b].todo = <<>>
  /\ Goto(b, IF sub[b].received = Branch(b).updates THEN "over" ELSE "stream")
  /\ UNCHANGED <<scenario, parentVars, failed, stopped, session, results, env, sub,
                 budget, now, histories>>

\* The stream is closed, or its time is up.
StreamEnds(b) ==
  /\ At(b, "stream")
  /\ Goto(b, "over")
  /\ UNCHANGED <<scenario, parentVars, failed, stopped, session, results, env, sub,
                 budget, now, histories>>

StreamFails(b) == At(b, "stream") /\ Break(b) /\ UNCHANGED <<sub, log>>

Over(b) == At(b, "over") /\ Succeed(b) /\ UNCHANGED <<failed, stopped>>

Tick ==
  /\ phase = "collect" /\ now < MaxTime
  /\ \E b \in Branches : At(b, "stream")
  /\ now' = now + 1
  /\ UNCHANGED <<scenario, parentVars, branchVars, env, sub, budget, histories>>

-----------------------------------------------------------------------------
ParentStep == TooDeep \/ Malformed \/ Spawn \/ Merge

BranchStep(b) ==
  \/ Acquire(b) \/ Connect(b) \/ ConnectFails(b) \/ RunStep(b) \/ Close(b)
  \/ Send(b) \/ Release(b)
  \/ Subscribe(b) \/ SubscribeFails(b) \/ Receive(b) \/ Sync(b)
  \/ Skip(b) \/ Pass(b) \/ Reject(b) \/ Panic(b) \/ Fire(b) \/ RunNested(b) \/ Handled(b)
  \/ StreamEnds(b) \/ StreamFails(b) \/ Over(b)

Ended == phase \in {"done", "crashed"} /\ UNCHANGED vars

Next == ParentStep \/ (\E b \in Branches : BranchStep(b)) \/ Tick \/ Ended

Spec == Init /\ [][Next]_vars

\* The runtime runs every goroutine, and no call goes unanswered.
FairSpec == Spec /\ WF_vars(ParentStep) /\ \A b \in 1..16 :
              WF_vars(phase # "start" /\ b \in Branches /\ BranchStep(b))

-----------------------------------------------------------------------------
(* Properties *)

FiresOf(b, i) == {k \in DOMAIN log[b] : log[b][k].fired /\ log[b][k].trigger = i}

\* No trigger fires more often than max_trigger_fires, nor twice for one path
\* unless it repeats, nor, if it repeats, within its cooldown
\* (gnmiTriggerHandlerWithBudget); and all the branches of a device together never
\* go beyond its budget, of which not one action is lost or counted twice.
TriggersKeepLimits ==
  /\ \A b \in Branches : \A i \in Triggers(b) :
       /\ Cardinality(FiresOf(b, i)) <= Fires(b)
       /\ \A j, k \in FiresOf(b, i) : j < k =>
            IF EffectiveOnce(Trigger(b, i)) THEN log[b][j].path # log[b][k].path
            ELSE log[b][k].at - log[b][j].at >= Branch(b).cooldown
  /\ scenario.used <= DeviceFires => budget <= DeviceFires
  /\ budget = scenario.used + Cardinality(UNION {
       {<<b, k>> : k \in {j \in DOMAIN log[b] : log[b][j].fired}} : b \in Branches})

\* The events of a path that a trigger selects, of the first n that were heard.
Mine(b, t, path, n) == {i \in 1..n : heard[b][i].path = path /\ Selects(t, heard[b][i])}

\* What an alarm is, told from the events s, of which the trigger looks at those in is.
Before(is, i)  == {j \in is : j < i}
Previous(is, i) == Max(Before(is, i))
Metric(t, s, is, i) ==
  IF t.rate THEN <<s[i].value - s[Previous(is, i)].value, s[i].time - s[Previous(is, i)].time>>
            ELSE <<s[i].value, 1>>
Metrics(t, s, is) ==
  {i \in is : t.rate => Before(is, i) # {} /\ s[i].value >= s[Previous(is, i)].value}
Base(t, s, is) ==
  {i \in Metrics(t, s, is) : Cardinality(Before(Metrics(t, s, is), i)) < Samples(t)}

\* The sum of the addends f, up to the n-th.
Total(f, n) ==
  LET sum[i \in 0..n] == IF i = 0 THEN <<0, 1>>
                         ELSE IF i \in DOMAIN f THEN Plus(sum[i - 1], f[i]) ELSE sum[i - 1]
  IN  sum[n]
BaseSum(t, s, is, n) == Total([i \in Base(t, s, is) |-> Metric(t, s, is, i)], n)

Alarm(t, s, is, n) ==
  /\ n \in Metrics(t, s, is)
  /\ IF Baselined(t)
     THEN /\ n \notin Base(t, s, is)
          /\ Less(Metric(t, s, is, n), Limit(t, BaseSum(t, s, is, n), Samples(t)))
     ELSE Compare(t, Metric(t, s, is, n))

\* A numeric trigger answers "ready" exactly if the events of this one path, in
\* the order they came, make it an alarm: rates span two samples in a row, a reset
\* restarts them, the first of them are the baseline, and other paths, other
\* triggers and the trigger's own actions have no part in it (match).
AlarmsAreExact ==
  \A b \in Branches : \A k \in DOMAIN log[b] :
    LET t == Trigger(b, log[b][k].trigger)
        n == log[b][k].upto
    IN log[b][k].ready <=>
         (Numeric(t) => Alarm(t, heard[b], Mine(b, t, log[b][k].path, n), n))

\* Whatever the order in which the branches ran and came back, the parent is left
\* with what the first declared writer of each variable registered, never with the
\* bindings of a trigger; and it has failed exactly if a branch has or two of them
\* disagree (executeParallel, scopedVariables).
MergeIsDeclared ==
  LET Writers(v) == {b \in Branches : wrote[b][v] \notin {Unset, scenario.vars[v]}} IN
  phase = "done" /\ results # <<>> =>
    /\ \A v \in Names : env[0][v] = IF Writers(v) = {} THEN scenario.vars[v]
                                    ELSE wrote[Min(Writers(v))][v]
    /\ runFailed <=> \/ \E b \in Branches : failed[b]
                     \/ \E v \in Names : \E b, c \in Writers(v) : wrote[b][v] # wrote[c][v]

\* executeParallel returns: no branch waits for a slot for ever, and every result
\* is collected, however many branches fail.
ParallelReturns == <>(phase \in {"done", "crashed"})
=============================================================================
