----------------------------- MODULE TriggerMatch -----------------------------
(***************************************************************************)
(* What a gNMI trigger makes of one event (workflow_executor.go): the      *)
(* filters, and the numeric conditions with their rates and baselines.     *)
(*                                                                         *)
(* A trigger is a record.  path, path_regex, value, value_not and          *)
(* value_regex are the sets of paths and values they let through.  Values  *)
(* are integers; anything else is Text, which is not numeric.  Rates are   *)
(* exact fractions <<numerator, denominator>> where the code has floats.   *)
(***************************************************************************)
EXTENDS Integers, Sequences

CONSTANT Unset   \* a setting that is not there: nil, "" or a value that is Text

Conditions == {"gt", "gte", "lt", "lte", "eq", "neq"}

Less(r, s)  == r[1] * s[2] < s[1] * r[2]
Equal(r, s) == r[1] * s[2] = s[1] * r[2]
Plus(r, s)  == <<r[1] * s[2] + s[1] * r[2], r[2] * s[2]>>

Numeric(t) == t.rate \/ t.percent > 0 \/ t.drop # Unset \/ t.cond # Unset
Baselined(t) == t.percent > 0 \/ t.drop # Unset
EffectiveOnce(t) == t.once \/ ~t.repeat

\* The settings a handler is set up with.
ValidTrigger(t) ==
  /\ t.steps # {} \/ t.fail
  /\ t.event \in {"update", "delete"}
  /\ t.paths # {}
  /\ t.cond \in Conditions <=> t.threshold # Unset
  /\ t.cond \in Conditions \cup {Unset}
  /\ t.percent \in 0..100 /\ (t.percent > 0 => t.cond = Unset)
  /\ t.drop # Unset => t.drop > 0 /\ t.percent = 0 /\ t.cond = Unset
  /\ t.samples >= 0
  /\ ~(t.rate /\ t.event = "delete")
  /\ ~(t.once /\ t.repeat)

\* The filters an event passes before the numbers are looked at.
Selects(t, e) ==
  /\ e.initial => t.initial
  /\ e.type = t.event
  /\ e.path \in t.paths
  /\ e.value \in t.values

-----------------------------------------------------------------------------
(* match: what a trigger remembers of one path, and what it answers *)

NoState == [previous |-> <<>>, sum |-> <<0, 1>>, count |-> 0]

Samples(t) == IF t.samples = 0 THEN 3 ELSE t.samples

Answer(st, outcome, metric) == [state |-> st, outcome |-> outcome, metric |-> metric]

Compare(t, m) ==
  LET limit == <<t.threshold, 1>> IN
  CASE t.cond = "gt"  -> Less(limit, m)
    [] t.cond = "gte" -> ~Less(m, limit)
    [] t.cond = "lt"  -> Less(m, limit)
    [] t.cond = "lte" -> ~Less(limit, m)
    [] t.cond = "eq"  -> Equal(m, limit)
    [] t.cond = "neq" -> ~Equal(m, limit)

\* Lowest metric that is no alarm, given the sum of the first n metrics.
Limit(t, sum, n) ==
  IF t.drop # Unset THEN Plus(<<sum[1], sum[2] * n>>, <<-t.drop, 1>>)
                    ELSE <<sum[1] * (100 - t.percent), sum[2] * n * 100>>

\* A rate with neither a baseline nor a condition has no threshold to look at.
Judge(t, st, m) ==
  CASE ~Baselined(t) /\ t.cond = Unset -> Answer(st, "panic", m)
    [] ~Baselined(t) /\ t.cond # Unset -> Answer(st, IF Compare(t, m) THEN "ready" ELSE "idle", m)
    [] Baselined(t) /\ st.count < Samples(t) ->
         Answer([st EXCEPT !.sum = Plus(@, m), !.count = @ + 1], "idle", m)
    [] OTHER -> Answer(st, IF Less(m, Limit(t, st.sum, st.count)) THEN "ready" ELSE "idle", m)

\* Fault: a reset does not restart the measurement.
RememberRises(st, e) ==
  IF st.previous # <<>> /\ e.value < st.previous[1] THEN st
  ELSE [st EXCEPT !.previous = <<e.value, e.time>>]

\* The sample replaces the previous one whatever becomes of it.
Remember(st, e) == [st EXCEPT !.previous = <<e.value, e.time>>]

Rate(t, st, e) ==
  LET seen    == Remember(st, e)
      delta   == e.value - st.previous[1]
      elapsed == e.time - st.previous[2]
  IN CASE st.previous = <<>> -> Answer(seen, "idle", Unset)
       [] st.previous # <<>> /\ elapsed <= 0 -> Answer(seen, "error", Unset)
       [] st.previous # <<>> /\ elapsed > 0 /\ delta < 0 -> Answer(seen, "idle", Unset)
       [] OTHER -> Judge(t, seen, <<delta, elapsed>>)

Match(t, st, e) ==
  CASE ~Numeric(t)        -> Answer(st, "ready", Unset)
    [] Numeric(t) /\ e.value = Unset -> Answer(st, "error", Unset)
    [] Numeric(t) /\ e.value # Unset /\ t.rate  -> Rate(t, st, e)
    [] OTHER              -> Judge(t, st, <<e.value, 1>>)
=============================================================================
