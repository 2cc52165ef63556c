---------------------------- MODULE MonitorHistory ----------------------------
(***************************************************************************)
(* The history that monitoring runs leave in one output directory: each    *)
(* run records a device in numbered segments of JSON lines, which are      *)
(* flushed line by line, sealed with a marker when they are full or done,  *)
(* and pruned by a later run once the marker is old; and the health file,  *)
(* which says what was sampled last.  Alerts (MonitorAlerts) are recorded  *)
(* between the samples.  Writes fail, processes are killed and the power   *)
(* goes off, and runs share the directory at the same time.                *)
(***************************************************************************)
EXTENDS MonitorAlerts, Sequences, SequencesExt

CONSTANTS
  Runs,        \* numbered in the order of their identifiers
  Left,        \* runs that are over and have left a segment
  Days,        \* retention_days; 0 keeps everything
  RotateAfter, \* records that fit into rotate_bytes
  Samples,     \* the samples that a tick may bring
  Bounds       \* bounds, of which a behaviour has one: the runs that take part, the ticks
               \* of each, the days that pass, and the failures, kills and power cuts

\* What a sample says is finite, and no peer is up in a table that was not read.
IsSample(s) ==
  /\ s.bgp \/ s.up = {}
  /\ IsFiniteSet(s.up) /\ IsFiniteSet(DOMAIN s.routes) /\ IsFiniteSet(DOMAIN s.hops)
  /\ IsFiniteSet(DOMAIN s.rates) /\ IsFiniteSet(DOMAIN s.errors)

ASSUME HistoryAssumption ==
  /\ Runs \subseteq Nat /\ Left \subseteq Runs /\ Days \in Nat /\ RotateAfter \in Nat \ {0}
  /\ Bounds \subseteq [runs : SUBSET Runs, ticks : [Runs -> Nat], days : Nat, faults : Nat]
  /\ DOMAIN Samples # {} /\ \A s \in DOMAIN Samples : IsSample(Samples[s])

VARIABLES
  pc,      \* where each run is
  started, \* the time.Now() that NewRuntime prunes with
  glob,    \* markers PruneHistory still has to look at
  seg,     \* the segments of each run, also those that were removed
  marker,  \* the markers: <<run, number>> |-> closed_at
  file,    \* r.file: a segment is open
  todo,    \* records of this tick that are not written
  engine,  \* r.engine
  tick,    \* ticks so far
  last,    \* r.health.LastSample, by number
  health,  \* the health file
  clock, faults,
  bounds

pruneVars  == <<started, glob>>
recordVars == <<todo, engine, tick, last>>
vars == <<pc, pruneVars, seg, marker, file, recordVars, health, clock, faults, bounds>>

\* A segment: its whole lines, how many of them were flushed, whether another line
\* was cut off, and whether the file is there.
NewSegment == [lines |-> <<>>, flushed |-> 0, torn |-> FALSE, there |-> TRUE]
TickRecord(n, s)         == [kind |-> "tick", n |-> n, key |-> s]
AlertRecord(n, state, k) == [kind |-> state, n |-> n, key |-> k]

\* What an earlier run has left was sealed on day 0, and is old enough to go.
Sealed == [NewSegment EXCEPT !.lines = <<TickRecord(1, CHOOSE s \in DOMAIN Samples : TRUE)>>,
                             !.flushed = 1]

Init ==
  /\ bounds \in Bounds
  /\ pc = [r \in Runs |-> IF r \in bounds.runs \ Left THEN "new" ELSE "over"]
  /\ started = [r \in Runs |-> 0]
  /\ glob = [r \in Runs |-> {}]
  /\ seg = [r \in Runs |-> IF r \in Left THEN <<Sealed>> ELSE <<>>]
  /\ marker = [m \in Left \X {1} |-> 0] /\ file = [r \in Runs |-> FALSE]
  /\ todo = [r \in Runs |-> <<>>] /\ engine = [r \in Runs |-> Fresh]
  /\ tick = [r \in Runs |-> IF r \in Left THEN 1 ELSE 0] /\ last = tick
  /\ health = [r \in Runs |-> [state |-> "none", last |-> tick[r]]]
  /\ clock = Days + 1 /\ faults = 0

At(r, l)   == pc[r] = l
Goto(r, l) == pc' = [pc EXCEPT ![r] = l]
Works      == UNCHANGED <<faults, bounds>>
Breaks     == faults < bounds.faults /\ faults' = faults + 1 /\ UNCHANGED bounds

-----------------------------------------------------------------------------
(* NewRuntime: PruneHistory *)

Begin(r) ==
  /\ At(r, "new")
  /\ started' = [started EXCEPT ![r] = clock]
  /\ glob' = [glob EXCEPT ![r] = IF Days = 0 THEN {} ELSE DOMAIN marker]
  /\ Goto(r, "prune") /\ Works
  /\ UNCHANGED <<seg, marker, file, recordVars, health, clock>>

Earlier(a, b) == a[1] < b[1] \/ (a[1] = b[1] /\ a[2] <= b[2])
Oldest(r)  == CHOOSE m \in glob[r] : \A o \in glob[r] : Earlier(m, o)
There(m)   == seg[m[1]][m[2]].there

\* Fault: a segment is given up on the day it is as old as is allowed.
ExpiredEarly(closedAt, now) == closedAt <= now - Days

\* closed.ClosedAt.Before(cutoff)
Expired(closedAt, now) == closedAt < now - Days

\* A marker that is too young, or whose segment is gone, is left alone.
Keep(r) ==
  /\ At(r, "prune") /\ glob[r] # {}
  /\ Oldest(r) \in DOMAIN marker
  /\ Expired(marker[Oldest(r)], started[r]) => ~There(Oldest(r))
  /\ glob' = [glob EXCEPT ![r] = @ \ {Oldest(r)}] /\ Works
  /\ UNCHANGED <<pc, started, seg, marker, file, recordVars, health, clock>>

Condemn(r) ==
  /\ At(r, "prune") /\ glob[r] # {}
  /\ Oldest(r) \in DOMAIN marker
  /\ Expired(marker[Oldest(r)], started[r]) /\ There(Oldest(r))
  /\ Goto(r, "unlink") /\ Works
  /\ UNCHANGED <<pruneVars, seg, marker, file, recordVars, health, clock>>

Unlink(r) ==
  /\ At(r, "unlink") /\ There(Oldest(r))
  /\ seg' = [seg EXCEPT ![Oldest(r)[1]][Oldest(r)[2]].there = FALSE]
  /\ Goto(r, "unmark") /\ Works
  /\ UNCHANGED <<pruneVars, marker, file, recordVars, health, clock>>

Unmark(r) ==
  /\ At(r, "unmark") /\ Oldest(r) \in DOMAIN marker
  /\ marker' = [m \in DOMAIN marker \ {Oldest(r)} |-> marker[m]]
  /\ glob' = [glob EXCEPT ![r] = @ \ {Oldest(r)}]
  /\ Goto(r, "prune") /\ Works
  /\ UNCHANGED <<started, seg, file, recordVars, health, clock>>

\* Another run was faster with the marker or the segment: this run does not start.
PruneFails(r) ==
  /\ \/ At(r, "prune") /\ glob[r] # {} /\ Oldest(r) \notin DOMAIN marker /\ Works
     \/ At(r, "unlink") /\ ~There(Oldest(r)) /\ Works
     \/ At(r, "unmark") /\ Oldest(r) \notin DOMAIN marker /\ Works
     \/ pc[r] \in {"unlink", "unmark"} /\ Breaks
  /\ Goto(r, "failed")
  /\ UNCHANGED <<pruneVars, seg, marker, file, recordVars, health, clock>>

-----------------------------------------------------------------------------
(* OpenRecorder, openSegment and sealSegment *)

Current(r) == Len(seg[r])
Write(r, record)  == seg' = [seg EXCEPT ![r][Current(r)].lines = Append(@, record)]

\* The segment that takes the record which did not fit, or the first.
OpenSegment(r) ==
  /\ (At(r, "prune") /\ glob[r] = {}) \/ At(r, "reopen")
  /\ seg' = [seg EXCEPT ![r] = Append(@, NewSegment)]
  /\ file' = [file EXCEPT ![r] = TRUE]
  /\ Goto(r, IF At(r, "reopen") THEN "write" ELSE "starting") /\ Works
  /\ UNCHANGED <<pruneVars, marker, recordVars, health, clock>>

OpenSegmentFails(r) ==
  /\ (At(r, "prune") /\ glob[r] = {}) \/ At(r, "reopen")
  /\ Breaks
  /\ Goto(r, IF At(r, "reopen") THEN "close" ELSE "failed")
  /\ UNCHANGED <<pruneVars, seg, marker, file, recordVars, health, clock>>

\* The health file is replaced by a rename: it is the old one or the new one.
Status(r, state, n) == health' = [health EXCEPT ![r] = [state |-> state, last |-> n]]

Starting(r) ==
  /\ At(r, "starting")
  /\ \/ Status(r, "starting", 0) /\ Goto(r, "ready") /\ Works /\ UNCHANGED file
     \/ UNCHANGED health /\ Goto(r, "failed") /\ file' = [file EXCEPT ![r] = FALSE] /\ Breaks
  /\ UNCHANGED <<pruneVars, seg, marker, recordVars, clock>>

\* The file is given up first; only one that was flushed and closed gets its marker.
Seal(r, from, marks, fails) ==
  /\ At(r, from) /\ file[r]
  /\ file' = [file EXCEPT ![r] = FALSE]
  /\ \E flushed \in BOOLEAN :
       /\ IF flushed THEN Works ELSE Breaks
       /\ seg' = (IF flushed THEN [seg EXCEPT ![r][Current(r)].flushed = Len(seg[r][Current(r)].lines)]
                  ELSE seg)
       /\ Goto(r, IF flushed THEN marks ELSE fails)
  /\ UNCHANGED <<pruneVars, marker, recordVars, health, clock>>

Mark(r, from, next, fails) ==
  /\ At(r, from)
  /\ \/ /\ marker' = [m \in DOMAIN marker \cup {<<r, Current(r)>>} |->
                        IF m = <<r, Current(r)>> THEN clock ELSE marker[m]]
        /\ Goto(r, next) /\ Works
     \/ UNCHANGED marker /\ Goto(r, fails) /\ Breaks
  /\ UNCHANGED <<pruneVars, seg, file, recordVars, health, clock>>

-----------------------------------------------------------------------------
(* WriteTick and appendRecord *)

NewTick(r) ==
  /\ At(r, "ready") /\ tick[r] < bounds.ticks[r]
  /\ tick' = [tick EXCEPT ![r] = @ + 1]
  /\ \E s \in DOMAIN Samples : todo' = [todo EXCEPT ![r] = <<TickRecord(tick[r] + 1, s)>>]
  /\ Goto(r, "append") /\ Works
  /\ UNCHANGED <<pruneVars, seg, marker, file, engine, last, health, clock>>

\* r.size > 0 && r.size + len(data) > RotateBytes
Rotates(r) == Len(seg[r][Current(r)].lines) >= RotateAfter

Append1(r) ==
  /\ At(r, "append")
  /\ Goto(r, IF Rotates(r) THEN "seal" ELSE "write") /\ Works
  /\ UNCHANGED <<pruneVars, seg, marker, file, recordVars, health, clock>>

\* A write that fails ends the polling of the device.
Torn(r) == Goto(r, "close")

WriteLine(r) ==
  /\ At(r, "write")
  /\ \/ Write(r, Head(todo[r])) /\ Goto(r, "sync") /\ Works
     \/ seg' = [seg EXCEPT ![r][Current(r)].torn = TRUE] /\ Torn(r) /\ Breaks
  /\ UNCHANGED <<pruneVars, marker, file, recordVars, health, clock>>

\* Fault: a line is left to the kernel to flush.
SyncLater(r) == seg' = seg

\* r.file.Sync()
Sync(r) == seg' = [seg EXCEPT ![r][Current(r)].flushed = Len(seg[r][Current(r)].lines)]

Flush(r) ==
  /\ At(r, "sync")
  /\ \/ Sync(r) /\ Goto(r, IF Head(todo[r]).kind = "tick" THEN "status" ELSE "deliver") /\ Works
     \/ UNCHANGED seg /\ Goto(r, "close") /\ Breaks
  /\ UNCHANGED <<pruneVars, marker, file, recordVars, health, clock>>

SampleOf(r) == Samples[Head(todo[r]).key]

\* Sorted by key in the code; their order among each other does not matter here.
Events(n, seen) ==
  SetToSeq({AlertRecord(n, "firing", k) : k \in seen.firing}
             \cup {AlertRecord(n, "resolved", k) : k \in seen.resolved})

Next1(r, rest) ==
  /\ todo' = [todo EXCEPT ![r] = rest]
  /\ Goto(r, IF rest = <<>> THEN "ready" ELSE "append")

\* LastSample, the health file, and what the engine makes of the sample.
Advertise(r) ==
  /\ At(r, "status")
  /\ Status(r, IF SampleOf(r).healthy THEN "healthy" ELSE "degraded", tick[r])
  /\ LET seen == Observe(engine[r], SampleOf(r), tick[r]) IN
       /\ engine' = [engine EXCEPT ![r] = seen.engine]
       /\ Next1(r, Events(tick[r], seen))
  /\ Works
  /\ last' = [last EXCEPT ![r] = tick[r]]
  /\ UNCHANGED <<pruneVars, seg, marker, file, tick, clock>>

AdvertiseFails(r) ==
  /\ At(r, "status")
  /\ last' = [last EXCEPT ![r] = tick[r]]
  /\ Breaks /\ Goto(r, "close")
  /\ UNCHANGED <<pruneVars, seg, marker, file, todo, engine, tick, health, clock>>

\* The sinks get the alert that has been recorded.
Deliver(r) ==
  /\ At(r, "deliver")
  /\ \/ Next1(r, Tail(todo[r])) /\ Works
     \/ Goto(r, "close") /\ Breaks /\ UNCHANGED todo
  /\ UNCHANGED <<pruneVars, seg, marker, file, engine, tick, last, health, clock>>

\* Close, when polling ends.
Stop(r) ==
  /\ At(r, "ready") /\ Goto(r, "close") /\ Works
  /\ UNCHANGED <<pruneVars, seg, marker, file, recordVars, health, clock>>

CloseRecorder(r) ==
  /\ At(r, "close")
  /\ \/ Status(r, "ended", last[r]) /\ Works
     \/ UNCHANGED health /\ Breaks
  /\ Goto(r, IF file[r] THEN "endseal" ELSE "over")
  /\ UNCHANGED <<pruneVars, seg, marker, file, recordVars, clock>>

-----------------------------------------------------------------------------
(* The world *)

Live(r) == pc[r] \notin {"new", "failed", "over", "dead"}

Kill(r) ==
  /\ Live(r) /\ Breaks
  /\ Goto(r, "dead") /\ file' = [file EXCEPT ![r] = FALSE]
  /\ UNCHANGED <<pruneVars, seg, marker, recordVars, health, clock>>

\* What was not flushed survives in part; of a line that is lost a piece may stay.
Survivor(s, k, torn) ==
  [s EXCEPT !.lines = SubSeq(@, 1, k), !.torn = IF k < Len(s.lines) THEN torn ELSE @]

PowerCut ==
  /\ Breaks /\ \E r \in Runs : Live(r)
  /\ pc' = [r \in Runs |-> IF Live(r) THEN "dead" ELSE pc[r]]
  /\ file' = [r \in Runs |-> FALSE]
  /\ \E torn \in BOOLEAN, lost \in 0..1 :
       seg' = [r \in Runs |-> [i \in DOMAIN seg[r] |->
                 LET s == seg[r][i] IN
                   Survivor(s, IF Len(s.lines) - lost >= s.flushed THEN Len(s.lines) - lost
                               ELSE s.flushed, torn)]]
  /\ UNCHANGED <<pruneVars, marker, recordVars, health, clock>>

DayPasses ==
  /\ clock < Days + 1 + bounds.days /\ clock' = clock + 1
  /\ UNCHANGED <<pc, pruneVars, seg, marker, file, recordVars, health, faults, bounds>>

Rest == (\A r \in Runs : ~Live(r) /\ pc[r] # "new") /\ UNCHANGED vars

RunStep(r) ==
  \/ Begin(r) \/ Keep(r) \/ Condemn(r) \/ Unlink(r) \/ Unmark(r) \/ PruneFails(r)
  \/ OpenSegment(r) \/ OpenSegmentFails(r) \/ Starting(r)
  \/ Seal(r, "seal", "mark", "close") \/ Mark(r, "mark", "reopen", "close")
  \/ NewTick(r) \/ Append1(r) \/ WriteLine(r) \/ Flush(r) \/ Advertise(r) \/ AdvertiseFails(r)
  \/ Deliver(r) \/ Stop(r) \/ CloseRecorder(r)
  \/ Seal(r, "endseal", "endmark", "over") \/ Mark(r, "endmark", "over", "over")

Next == (\E r \in Runs : RunStep(r) \/ Kill(r)) \/ PowerCut \/ DayPasses \/ Rest

Spec == Init /\ [][Next]_vars

-----------------------------------------------------------------------------
(* Properties *)

Places(r) == DOMAIN seg[r]

\* What the health file says was sampled last, and all before it, is whole in a
\* segment, flushed, whatever happens to the process or the machine (appendRecord
\* flushes "before advertising a successful collection").
HealthIsBacked ==
  \A r \in Runs : \A n \in 1..health[r].last :
    \E i \in Places(r) : \E j \in 1..seg[r][i].flushed :
      LET line == seg[r][i].lines[j] IN line.kind = "tick" /\ line.n = n

\* Only what was closed and flushed, and sealed more days ago than are kept, is ever
\* removed; a segment that a run still writes to has no marker (PruneHistory).
OnlySealedIsPruned ==
  \A r \in Runs : \A i \in Places(r) :
    LET s == seg[r][i] IN
      /\ <<r, i>> \in DOMAIN marker =>
           s.flushed = Len(s.lines) /\ ~(file[r] /\ i = Len(seg[r]))
      /\ ~s.there => s.flushed = Len(s.lines) /\ ~(file[r] /\ i = Len(seg[r]))
      /\ ~s.there /\ <<r, i>> \in DOMAIN marker => marker[<<r, i>>] + Days < clock

-----------------------------------------------------------------------------
(* When an alert is due, looking at all the samples of the run at once: a   *)
(* history gives the sample for each number.                               *)

Readings(s, rule) ==
  CASE rule = "bgp-neighbor-lost" -> [p \in s.up |-> TRUE]
    [] rule = "route-count-drop"  -> s.routes [] rule = "next-hop-change"  -> s.hops
    [] rule = "traffic-shift"     -> s.rates  [] rule = "interface-errors" -> s.errors

Rules ==
  {"bgp-neighbor-lost", "route-count-drop", "next-hop-change", "traffic-shift", "interface-errors"}
AlertKeys == UNION {Keyed(rule, Readings(Samples[s], rule)) : s \in DOMAIN Samples, rule \in Rules}

\* The healthy samples up to the n-th that say something of the key.
Heard(h, k, n) == {m \in 1..n : h[m].healthy /\ k[2] \in DOMAIN Readings(h[m], k[1])}
Value(h, k, n) == Readings(h[n], k[1])[k[2]]

First(numbers)  == CHOOSE m \in numbers : \A o \in numbers : m <= o
Latest(numbers) == CHOOSE m \in numbers : \A o \in numbers : m >= o

\* What the n-th sample says of the key, compared with the first that said something,
\* or for a counter the one before: "bad", "good" or nothing.
Verdict(h, k, n) ==
  LET past  == Heard(h, k, n - 1)
      first == Value(h, k, First(past))
      bad   == CASE k[1] = "bgp-neighbor-lost" -> n \notin Heard(h, k, n)
                 [] k[1] = "route-count-drop"  -> Dropped(first, Value(h, k, n))
                 [] k[1] = "next-hop-change"   -> first # Value(h, k, n)
                 [] k[1] = "traffic-shift"     -> Shifted(first, Value(h, k, n))
                 [] k[1] = "interface-errors"  -> Value(h, k, n) - Value(h, k, Latest(past)) >= ErrorDelta
      told  == IF k[1] = "bgp-neighbor-lost"
               THEN h[n].healthy /\ h[n].bgp /\ Heard(h, k, n) # {}
               ELSE past # {} /\ n \in Heard(h, k, n)
  IN  IF ~told THEN "nothing" ELSE IF bad THEN "bad" ELSE "good"

Streak(h, k, n, verdict) ==
  n >= Consecutive /\ \A m \in (n - Consecutive + 1)..n : Verdict(h, k, m) = verdict

\* fired and resolved are the samples whose alerts of the key are on record.
FiringDue(h, fired, k, n) ==
  Streak(h, k, n, "bad") /\ \A m \in fired : m < n => n - m >= Cooldown

ResolvedDue(h, fired, resolved, k, n) ==
  /\ Streak(h, k, n, "good")
  /\ \E m \in fired : m < n /\ \A o \in resolved : ~(m < o /\ o < n)

\* What the segments of a run say: its history, and the samples with an alert.
Lines(r) == UNION {Range(seg[r][i].lines) : i \in Places(r)}
TicksOf(r) == {line \in Lines(r) : line.kind = "tick"}
AlertsOf(r, state, k) == {line.n : line \in {l \in Lines(r) : l.kind = state /\ l.key = k}}
History(r) ==
  [n \in {line.n : line \in TicksOf(r)} |-> Samples[(CHOOSE line \in TicksOf(r) : line.n = n).key]]

\* The alerts on record are exactly those that are due: a condition that held in so
\* many samples without a break fires unless it fired lately, and is resolved when it
\* was absent in as many.  Samples that are unhealthy, or say nothing of it, count for
\* neither and end both (Observe).
AlertsAreDue ==
  \A r \in Runs : \A k \in AlertKeys : \A n \in 1..tick[r] :
    n < tick[r] \/ pc[r] = "ready" =>
      LET fired    == AlertsOf(r, "firing", k)
          resolved == AlertsOf(r, "resolved", k)
      IN  /\ n \in fired <=> FiringDue(History(r), fired, k, n)
          /\ n \in resolved <=> ResolvedDue(History(r), fired, resolved, k, n)
=============================================================================
