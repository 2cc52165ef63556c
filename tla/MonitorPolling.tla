---------------------------- MODULE MonitorPolling ----------------------------
(***************************************************************************)
(* The polling of a mixed fleet (routing-monitor, xr-routing-monitor and   *)
(* junos-routing-monitor): one PollDevice per session, each with its own   *)
(* recorder, and the ReauthCoordinator that restarts sessions whose        *)
(* commands the device no longer authorises.  A restart asks a human for a *)
(* passcode on the one terminal, and must not hold up Ctrl+C.              *)
(*                                                                         *)
(* xrmonitor and junosmonitor have the same loop and coordinator; they     *)
(* share the semaphore.                                                    *)
(***************************************************************************)
EXTENDS Integers, FiniteSets

CONSTANTS
  Devices,        \* sessions that were onboarded
  NetconfDevices, \* those with a NETCONF session beside, for snapshots
  Stages,         \* reminders that are configured; 0 for none
  CaptureConfig,  \* --capture-running-config
  Nobody,         \* not a device: a semaphore nobody holds
  MaxTicks,       \* bound: collections of each device
  MaxSessions,    \* bound: SSH sessions per device
  MaxFaults       \* bound: commands, writes, links and answers that fail in a run

ASSUME PollingAssumption ==
  /\ Nobody \notin Devices /\ NetconfDevices \subseteq Devices /\ Stages \in Nat /\ CaptureConfig \in BOOLEAN
  /\ MaxTicks \in [Devices -> Nat] /\ MaxSessions \in Nat \ {0} /\ MaxFaults \in Nat

VARIABLES
  pc,        \* where each PollDevice is; "over" when it has returned
  why,       \* what it reconnects for: a denied "tick" or a "reminder"
  stage,     \* reminderIndex
  before,    \* the before-change artifacts are complete
  complete,  \* PollDevice's complete
  failedSamples,
  pollErr,   \* PollDevice's error is set
  client,    \* the session in use, by number
  link,      \* what the device makes of it: "up", "denied" or "down"
  opened,    \* SSH sessions that are open; 0 is the NETCONF session
  job,       \* the coordinator's goroutine for a device, if there is one
  abandoned, \* nobody waits for that goroutine's result but its drain
  sem,       \* who holds the semaphore
  health,    \* the state in the device's health file
  ticks,     \* bound: collections so far
  faults,    \* bound: failures so far
  cancelled, \* the run's context
  exit,      \* main: "running", or the exit code
  captured,  \* history: the artifacts each device has produced
  late       \* history: prompts begun after the cancellation

loopVars    == <<why, stage, before, complete, failedSamples, pollErr, ticks>>
sessionVars == <<client, link, opened>>
reauthVars  == <<job, abandoned, sem, late>>
vars == <<pc, loopVars, sessionVars, reauthVars, health, cancelled, exit, captured, faults>>

Artifacts == IF CaptureConfig THEN {"snapshot", "config"} ELSE {"snapshot"}

Init ==
  /\ pc = [d \in Devices |-> "open"] /\ why = [d \in Devices |-> "tick"]
  /\ stage = [d \in Devices |-> 0]
  /\ before = [d \in Devices |-> FALSE] /\ complete = [d \in Devices |-> FALSE]
  /\ failedSamples = [d \in Devices |-> FALSE] /\ pollErr = [d \in Devices |-> FALSE]
  /\ ticks = [d \in Devices |-> 0]
  /\ client = [d \in Devices |-> 1] /\ link = [d \in Devices |-> "up"]
  /\ opened = [d \in Devices |-> IF d \in NetconfDevices THEN {0, 1} ELSE {1}]
  /\ job = [d \in Devices |-> "none"] /\ abandoned = [d \in Devices |-> FALSE]
  /\ sem = Nobody /\ late = 0
  /\ health = [d \in Devices |-> "none"]
  /\ cancelled = FALSE /\ exit = "running"
  /\ captured = [d \in Devices |-> {}] /\ faults = 0

\* Something that can go wrong does.
Mishap        == faults < MaxFaults /\ faults' = faults + 1
Unless(ok)    == IF ok THEN faults' = faults ELSE Mishap
At(d, l)      == exit = "running" /\ pc[d] = l
Goto(d, l)    == pc' = [pc EXCEPT ![d] = l]
Status(d, s)  == health' = [health EXCEPT ![d] = s]
RunError(d)   == pollErr' = [pollErr EXCEPT ![d] = TRUE]

-----------------------------------------------------------------------------
(* PollDevice up to its first collection *)

Open(d) ==
  /\ At(d, "open")
  /\ Status(d, "starting") /\ Goto(d, "before")
  /\ UNCHANGED <<loopVars, sessionVars, reauthVars, cancelled, exit, captured, faults>>

OpenFails(d) ==
  /\ Mishap
  /\ At(d, "open")
  /\ RunError(d) /\ Goto(d, "close")
  /\ UNCHANGED <<why, stage, before, complete, failedSamples, ticks,
                 sessionVars, reauthVars, health, cancelled, exit, captured>>

\* A snapshot is as good as written even if every command in it failed; the
\* configuration needs an answer, which may be a denial.
Capturable(d) == IF link[d] = "down" THEN Artifacts \ {"config"} ELSE Artifacts
Taken(label, got) == {label} \X got

CaptureBefore(d) ==
  /\ At(d, "before")
  /\ \E got \in SUBSET Capturable(d) :
       /\ Unless(got = Artifacts \/ link[d] = "down")
       /\ captured' = [captured EXCEPT ![d] = Taken("before", got)]
       /\ before' = [before EXCEPT ![d] = got = Artifacts]
       /\ pollErr' = [pollErr EXCEPT ![d] = @ \/ got # Artifacts]
       /\ IF got = Artifacts THEN UNCHANGED health ELSE Status(d, "degraded")
  /\ Goto(d, "tick")
  /\ UNCHANGED <<why, stage, complete, failedSamples, ticks,
                 sessionVars, reauthVars, cancelled, exit>>

-----------------------------------------------------------------------------
(* tick *)

\* collectTick: BGP comes first, and tells whether the session is alive; a denial
\* ends the collection at once, and any other command may fail by itself.
Findings(d) == CASE link[d] = "down"   -> {"dead"}
                 [] link[d] = "denied" -> {"denied"}
                 [] link[d] = "up"     -> {"complete", "errors"}

TickState(f) == CASE f = "dead" -> "disconnected" [] f = "denied" -> "authentication-wait"
                  [] f = "errors" -> "degraded"   [] f = "complete" -> "healthy"

\* recorder.WriteTick
Record(d, f) == Status(d, TickState(f))

Tick(d) ==
  /\ At(d, "tick")
  /\ \E f \in Findings(d) :
       /\ Unless(f # "errors")
       /\ failedSamples' = [failedSamples EXCEPT ![d] = @ \/ f # "complete"]
       /\ Record(d, f)
       /\ Goto(d, CASE f = "dead" -> "lost" [] f = "denied" -> "queue" [] OTHER -> "loop")
  /\ why' = [why EXCEPT ![d] = "tick"]
  /\ ticks' = [ticks EXCEPT ![d] = @ + 1]
  /\ UNCHANGED <<stage, before, complete, pollErr, sessionVars, reauthVars, cancelled,
                 exit, captured>>

\* The record, the health file or an alert could not be written.
TickUnrecorded(d) ==
  /\ Mishap
  /\ At(d, "tick")
  /\ \E f \in Findings(d) :
       /\ failedSamples' = [failedSamples EXCEPT ![d] = @ \/ f # "complete"]
       /\ Record(d, f) \/ UNCHANGED health
  /\ RunError(d) /\ Goto(d, "end")
  /\ ticks' = [ticks EXCEPT ![d] = @ + 1]
  /\ UNCHANGED <<why, stage, before, complete, sessionVars, reauthVars, cancelled, exit,
                 captured>>

Lose(d) ==
  /\ At(d, "lost")
  /\ Status(d, "disconnected") \/ UNCHANGED health
  /\ RunError(d) /\ Goto(d, "end")
  /\ UNCHANGED <<why, stage, before, complete, failedSamples, ticks,
                 sessionVars, reauthVars, cancelled, exit, captured, faults>>

-----------------------------------------------------------------------------
(* Reconnect *)

Acquire(d) ==
  /\ At(d, "queue") /\ sem = Nobody
  /\ sem' = d /\ Goto(d, "held")
  /\ UNCHANGED <<loopVars, sessionVars, job, abandoned, late, health, cancelled, exit,
                 captured, faults>>

\* Where a failed reconnection leaves PollDevice.
Unrecovered(d) == IF why[d] = "tick" THEN "lost" ELSE "end"
NotRefreshed(d) == pollErr' = [pollErr EXCEPT ![d] = @ \/ why[d] = "reminder"]

LeaveQueue(d) ==
  /\ At(d, "queue") /\ cancelled
  /\ NotRefreshed(d) /\ Goto(d, Unrecovered(d))
  /\ UNCHANGED <<why, stage, before, complete, failedSamples, ticks,
                 sessionVars, reauthVars, health, cancelled, exit, captured, faults>>

\* Fault: a context that died in the queue is not looked at again.
ContextIgnored(d) == TRUE

\* select { case <-ctx.Done(): ... default: }
ContextAlive(d) == ~cancelled

Proceed(d) ==
  /\ At(d, "held") /\ ContextAlive(d)
  /\ Goto(d, "start")
  /\ UNCHANGED <<loopVars, sessionVars, reauthVars, health, cancelled, exit, captured, faults>>

Withdraw(d) ==
  /\ At(d, "held") /\ ~ContextAlive(d)
  /\ sem' = Nobody
  /\ NotRefreshed(d) /\ Goto(d, Unrecovered(d))
  /\ UNCHANGED <<why, stage, before, complete, failedSamples, ticks,
                 sessionVars, job, abandoned, late, health, cancelled, exit, captured, faults>>

\* The goroutine that asks for a passcode and dials.
Prompt(d) ==
  /\ At(d, "start")
  /\ job' = [job EXCEPT ![d] = "asking"]
  /\ late' = (IF cancelled THEN late + 1 ELSE late)
  /\ Goto(d, "await")
  /\ UNCHANGED <<loopVars, sessionVars, abandoned, sem, health, cancelled, exit, captured, faults>>

\* The human answers, and the connection comes up or does not.
Answer(d) ==
  /\ exit = "running" /\ job[d] = "asking"
  /\ \/ /\ client[d] < MaxSessions /\ UNCHANGED faults
        /\ opened' = [opened EXCEPT ![d] = @ \cup {client[d] + 1}]
        /\ job' = [job EXCEPT ![d] = "connected"]
     \/ /\ Mishap
        /\ UNCHANGED opened
        /\ job' = [job EXCEPT ![d] = "refused"]
  /\ UNCHANGED <<pc, loopVars, client, link, abandoned, sem, late, health, cancelled,
                 exit, captured>>

\* defer func() { <-r.sem }()
Release(d) ==
  /\ exit = "running" /\ job[d] \in {"connected", "refused", "none"} /\ sem = d
  /\ pc[d] \notin {"held", "start"}
  /\ sem' = Nobody
  /\ UNCHANGED <<pc, loopVars, sessionVars, job, abandoned, late, health, cancelled,
                 exit, captured, faults>>

\* The stale session is closed, and the new one takes its place.
Swap(d) ==
  /\ At(d, "await") /\ job[d] = "connected" /\ ~abandoned[d]
  /\ opened' = [opened EXCEPT ![d] = @ \ {client[d]}]
  /\ client' = [client EXCEPT ![d] = @ + 1]
  /\ link' = [link EXCEPT ![d] = "up"]
  /\ job' = [job EXCEPT ![d] = "none"]
  /\ stage' = (IF why[d] = "reminder" THEN [stage EXCEPT ![d] = 0] ELSE stage)
  /\ Goto(d, "loop")
  /\ UNCHANGED <<why, before, complete, failedSamples, pollErr, ticks,
                 abandoned, sem, late, health, cancelled, exit, captured, faults>>

GiveUp(d) ==
  /\ At(d, "await") /\ job[d] = "refused"
  /\ job' = [job EXCEPT ![d] = "none"]
  /\ NotRefreshed(d) /\ Goto(d, Unrecovered(d))
  /\ UNCHANGED <<why, stage, before, complete, failedSamples, ticks,
                 sessionVars, abandoned, sem, late, health, cancelled, exit, captured, faults>>

\* Fault: a prompt is waited for, whatever happens to the run.
AbandonNever(d) == ~cancelled /\ sem' = sem

\* The goroutine keeps the semaphore for as long as it is at the terminal.
LeaveRunning(d) == sem' = sem

Abandon(d) ==
  /\ At(d, "await") /\ cancelled
  /\ LeaveRunning(d)
  /\ abandoned' = [abandoned EXCEPT ![d] = TRUE]
  /\ NotRefreshed(d) /\ Goto(d, Unrecovered(d))
  /\ UNCHANGED <<why, stage, before, complete, failedSamples, ticks,
                 sessionVars, job, late, health, cancelled, exit, captured, faults>>

\* Fault: a session that came too late is left open.
DrainLeaks(d) == opened' = opened

\* The drain closes a client that nobody is left to use.
CloseLate(d) == opened' = [opened EXCEPT ![d] = @ \ {client[d] + 1}]

Drain(d) ==
  /\ exit = "running" /\ abandoned[d] /\ job[d] \in {"connected", "refused"}
  /\ IF job[d] = "connected" THEN CloseLate(d) ELSE UNCHANGED opened
  /\ job' = [job EXCEPT ![d] = "none"]
  /\ UNCHANGED <<pc, loopVars, client, link, abandoned, sem, late, health, cancelled,
                 exit, captured, faults>>

-----------------------------------------------------------------------------
(* The select of PollDevice *)

TickerFires(d) ==
  /\ At(d, "loop") /\ ticks[d] < MaxTicks[d]
  /\ Goto(d, "tick")
  /\ UNCHANGED <<loopVars, sessionVars, reauthVars, health, cancelled, exit, captured, faults>>

Remind(d) ==
  /\ At(d, "loop") /\ stage[d] + 1 < Stages
  /\ stage' = [stage EXCEPT ![d] = @ + 1]
  /\ UNCHANGED <<pc, why, before, complete, failedSamples, pollErr, ticks,
                 sessionVars, reauthVars, health, cancelled, exit, captured, faults>>

\* The last reminder refreshes the session.
Refresh(d) ==
  /\ At(d, "loop") /\ stage[d] + 1 = Stages
  /\ Status(d, "authentication-wait")
  /\ why' = [why EXCEPT ![d] = "reminder"]
  /\ Goto(d, "queue")
  /\ UNCHANGED <<stage, before, complete, failedSamples, pollErr, ticks,
                 sessionVars, reauthVars, cancelled, exit, captured, faults>>

RefreshUnrecorded(d) ==
  /\ Mishap
  /\ At(d, "loop") /\ stage[d] + 1 = Stages
  /\ RunError(d) /\ Goto(d, "end")
  /\ UNCHANGED <<why, stage, before, complete, failedSamples, ticks,
                 sessionVars, reauthVars, health, cancelled, exit, captured>>

\* Fault: the after-change artifacts alone decide.
CompleteAfter(d, got) == got = Artifacts

\* complete = beforeSnapshotOK && afterSnapshotOK && beforeConfigOK && afterConfigOK
Complete(d, got) == before[d] /\ got = Artifacts

CaptureAfter(d) ==
  /\ At(d, "loop") /\ cancelled
  /\ \E got \in SUBSET Capturable(d) :
       /\ Unless(got = Artifacts \/ link[d] = "down")
       /\ captured' = [captured EXCEPT ![d] = @ \cup Taken("after", got)]
       /\ complete' = [complete EXCEPT ![d] = Complete(d, got)]
       /\ pollErr' = [pollErr EXCEPT ![d] = @ \/ got # Artifacts]
  /\ Goto(d, "end")
  /\ UNCHANGED <<why, stage, before, failedSamples, ticks, sessionVars,
                 reauthVars, health, cancelled, exit>>

\* recorder.Close
CloseRecorder(d) ==
  /\ At(d, "end")
  /\ Status(d, IF complete[d] THEN "completed" ELSE "incomplete")
  /\ pollErr' = [pollErr EXCEPT ![d] = @ \/ failedSamples[d]]
  /\ Goto(d, "close")
  /\ UNCHANGED <<why, stage, before, complete, failedSamples, ticks,
                 sessionVars, reauthVars, cancelled, exit, captured, faults>>

CloseRecorderFails(d) ==
  /\ Mishap
  /\ At(d, "end")
  /\ Status(d, IF complete[d] THEN "completed" ELSE "incomplete") \/ UNCHANGED health
  /\ RunError(d) /\ Goto(d, "close")
  /\ UNCHANGED <<why, stage, before, complete, failedSamples, ticks,
                 sessionVars, reauthVars, cancelled, exit, captured>>

CloseSession(d) ==
  /\ At(d, "close")
  /\ opened' = [opened EXCEPT ![d] = @ \ {0, client[d]}]
  /\ Goto(d, "over")
  /\ UNCHANGED <<loopVars, client, link, reauthVars, health, cancelled, exit, captured, faults>>

-----------------------------------------------------------------------------
(* The device, the operator and main *)

\* TACACS stops authorising, or the session drops.
Degrade(d) ==
  /\ Mishap
  /\ exit = "running" /\ pc[d] \in {"before", "tick", "loop"} /\ ~cancelled
  /\ \/ link[d] = "up" /\ link' = [link EXCEPT ![d] = "denied"]
     \/ link[d] # "down" /\ link' = [link EXCEPT ![d] = "down"]
  /\ UNCHANGED <<pc, loopVars, client, opened, reauthVars, health, cancelled, exit, captured>>

Cancel ==
  /\ exit = "running" /\ ~cancelled
  /\ cancelled' = TRUE
  /\ UNCHANGED <<pc, loopVars, sessionVars, reauthVars, health, exit, captured, faults>>

\* wg.Wait, the report, and the exit code; the goroutines that are left end here.
Exit ==
  /\ exit = "running" /\ \A d \in Devices : pc[d] = "over"
  /\ exit' = (IF \E d \in Devices : pollErr[d] THEN "failure" ELSE "success")
  /\ UNCHANGED <<pc, loopVars, sessionVars, reauthVars, health, cancelled, captured, faults>>

-----------------------------------------------------------------------------
PollStep(d) ==
  \/ Open(d) \/ OpenFails(d) \/ CaptureBefore(d) \/ Tick(d) \/ TickUnrecorded(d)
  \/ Lose(d) \/ Acquire(d) \/ LeaveQueue(d) \/ Proceed(d)
  \/ Withdraw(d) \/ Prompt(d) \/ Swap(d) \/ GiveUp(d) \/ Abandon(d)
  \/ CaptureAfter(d) \/ CloseRecorder(d) \/ CloseRecorderFails(d) \/ CloseSession(d)

TimerStep(d) == TickerFires(d) \/ Remind(d) \/ Refresh(d) \/ RefreshUnrecorded(d)

JobStep(d) == Release(d) \/ Drain(d)

Exited == exit # "running" /\ UNCHANGED vars

Next ==
  \/ \E d \in Devices : PollStep(d) \/ TimerStep(d) \/ JobStep(d) \/ Answer(d) \/ Degrade(d)
  \/ Cancel \/ Exit \/ Exited

Spec == Init /\ [][Next]_vars

\* Commands and writes end, and the runtime schedules every goroutine.  Nothing
\* obliges the human to answer, or to interrupt.
FairSpec ==
  /\ Spec /\ WF_vars(Exit)
  /\ \A d \in Devices : WF_vars(PollStep(d)) /\ WF_vars(JobStep(d))

-----------------------------------------------------------------------------
(* Properties *)

Asking == {d \in Devices : job[d] = "asking"}

\* One device at a time asks on the terminal, also when the one that asks has been
\* given up; and of those that queue when the run is cancelled at most one, which
\* had looked at the context before, still begins to ask (Reconnect).
OnePromptAtATime == Cardinality(Asking) <= 1 /\ late <= 1

\* A device whose polling is over, and whose coordinator is done with it, has no
\* session left open, whatever came up late (PollDevice, Reconnect).
SessionsAreClosed ==
  \A d \in Devices :
    /\ pc[d] = "over" /\ job[d] \notin {"asking", "connected"} => opened[d] = {}
    /\ pc[d] \notin {"over", "close"} => client[d] \in opened[d]

\* A completed device has all its artifacts, of before and of after, and a run that
\* ends well has only devices that completed and never missed a sample.
CompletedIsEarned ==
  /\ \A d \in Devices : health[d] = "completed" =>
       captured[d] = {"before", "after"} \X Artifacts
  /\ exit = "success" => \A d \in Devices : health[d] = "completed" /\ ~failedSamples[d]

\* A run that is cancelled comes to its end, although nobody answers any prompt.
ShutdownReturns == cancelled ~> exit # "running"
=============================================================================
