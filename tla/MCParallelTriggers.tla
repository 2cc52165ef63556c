-------------------------- MODULE MCParallelTriggers --------------------------
(* Instances of ParallelTriggers for TLC: parallel steps of several shapes. *)
EXTENDS ParallelTriggers

Sets(x, y) == [v \in Names |-> CASE v = "x" -> x [] v = "y" -> y [] OTHER -> Unset]

Leaf(ssh, x, y, ends) ==
  [ssh |-> ssh, sets |-> Sets(x, y), ends |-> ends, subscribe |-> FALSE]

Always == [rate |-> FALSE, percent |-> 0, drop |-> Unset, cond |-> Unset, threshold |-> Unset,
        samples |-> 0, once |-> FALSE, repeat |-> FALSE, initial |-> TRUE, event |-> "update",
        paths |-> {"p", "q"}, values |-> {Unset, 0, 1, 2, 3, 4, 5}, fail |-> FALSE, steps |-> {"ok"},
        sets |-> Sets(Unset, Unset)]

Stream(triggers, notes, updates) ==
  [ssh |-> FALSE, sets |-> Sets(Unset, "out"), ends |-> {}, subscribe |-> TRUE,
   triggers |-> triggers, notes |-> notes, updates |-> updates, mode |-> "stream",
   timed |-> TRUE, fires |-> 2, cooldown |-> 2]

Update(p, v) == [type |-> "update", path |-> p, value |-> v]
Delete(p)    == [type |-> "delete", path |-> p, value |-> Unset]

Step(limit, used, branches) ==
  [depth |-> 1, limit |-> limit, used |-> used, branches |-> branches,
   vars |-> [v \in Names |-> IF v = "x" THEN "a" ELSE Unset]]

\* Writers that agree, disagree or change nothing; a gate; two slots for three.
Plain == Step(2, 0, <<Leaf(TRUE, "b", "c", {"ok", "fail"}), Leaf(TRUE, "b", "d", {"ok", "stop"}),
                      Leaf(FALSE, "a", Unset, {"ok"})>>)

Repeats == [Always EXCEPT !.repeat = TRUE, !.sets = Sets("b", Unset)]
Once    == [Always EXCEPT !.initial = FALSE, !.sets = [Sets("c", Unset) EXCEPT !["event"] = "own"]]
Gone    == [Always EXCEPT !.event = "delete", !.once = TRUE, !.fail = TRUE, !.steps = {"fail", "stop"}]

Singles == {<<Update(p, 1)>> : p \in {"p", "q"}}

\* Two subscriptions that share what is left of the budget.
Budgeted(used) ==
  Step(0, used, <<Stream(<<Repeats>>, {<<Update("p", 1)>>}, 2), Stream(<<Once, Gone>>, {<<Update("p", 1), Update("q", 1)>>,
                   <<Delete("p")>>}, 1)>>)

\* Counters of two paths that rise, stall and are reset.
Drop    == [Always EXCEPT !.rate = TRUE, !.percent = 50, !.samples = 1]
Falls   == [Always EXCEPT !.drop = 1, !.samples = 2, !.repeat = TRUE, !.paths = {"p"}]
Above   == [Always EXCEPT !.rate = TRUE, !.cond = "gt", !.threshold = 1, !.fail = TRUE]
Counter == {<<Update("p", 1)>>, <<Update("p", 4)>>, <<Update("q", 4)>>}
Text    == {<<Update("p", Unset)>>}

Numbered(t, n) == Step(1, 0, <<Stream(<<t>>, Counter, n)>>)
Mixed == Step(1, 0, <<Stream(<<Falls, Above>>, {<<Update("p", 0), Update("p", 4)>>, <<Update("p", 2)>>}
                             \cup Text, 3)>>)

\* Settings that are refused, a snapshot, and a rate that is compared with nothing.
Bare    == [Always EXCEPT !.rate = TRUE]
Wrong   == [Always EXCEPT !.cond = "lt"]
Snapshot == [Stream(<<Once>>, Singles, 2) EXCEPT !.mode = "once", !.timed = FALSE]
Odd == {Step(1, 0, <<Stream(<<Wrong>>, Singles, 2), Snapshot, [Snapshot EXCEPT !.fires = 101]>>),
        Step(1, 0, <<>>), Step(17, 0, [i \in 1..17 |-> Leaf(FALSE, "b", Unset, {"ok"})]),
        [Plain EXCEPT !.depth = MaxDepth + 1],
        [Step(1, 0, <<Snapshot>>) EXCEPT !.depth = MaxDepth],
        Step(1, 0, <<Stream(<<Bare>>, Singles, 2)>>)}

MCScenarios == {Plain, Budgeted(0), Budgeted(2), Numbered(Drop, 5), Numbered(Above, 4), Mixed} \cup Odd
=============================================================================
