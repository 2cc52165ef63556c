# network-collector in TLA+

network-collector connects to a fleet of network devices, runs playbooks on
them (commands, NETCONF operations, declarative changes, verifications with
rollback), and leaves evidence of what it did. Two things make it worth a
formal model: it changes production routers, and it does so concurrently, over
transports that fail, in processes that may be interrupted, lost and resumed.

These modules model the parts of the program where order, concurrency and
failure decide whether that is safe. TLC checks them on small instances; TLAPS
proves the main invariants for every value of the constants. `PROJECT.json`
maps every definition to the source lines it stands for.

    tlc -config MCFleetRun.cfg MCFleetRun         # a run
    tlapm FleetRunProofs.tla                      # a proof

## 1. The system

| Component | State it keeps | Operations | How it interacts |
|---|---|---|---|
| **Fleet scheduler** `pkg/orchestrator/scheduler.go` | `next`, `active`, `failures`, `lastStart`, a channel of outcomes | `Run` (canary batch, main batch), `runBatch` (launch, receive, wait for the start interval, drain) | launches one goroutine per entry, which calls back into the runner and sends an outcome |
| **Run orchestration** `cmd/network-collector/{main,runner}.go` | results of every occurrence, a mutex per serial domain, a mutex, condition variable and turn counter per host, the run's context | occurrences of a schedule, `serial_by` locking, turns of a host, interrupts, resume, exit code | calls the scheduler; calls the workflow executor under both locks |
| **Workflow executor** `workflow_executor.go` | the call stack, `runFailed`, validations, the SSH client, variables | the loop over steps; commands, probes, approvals, blocks, loops, reusable workflows, parallel branches, validation actions, retries, gNMI triggers | uses drivers; writes the journal around every mutation; emits events |
| **Run journal** `run_journal.go` | `run-journal.jsonl`, `manifest.json`, the set of completed keys | append an intent or a completed record (write, sync), read back what is uncertain and what is completed | decides whether a run may be resumed and which steps are skipped |
| **Lifecycle events** `pkg/orchestrator/events.go`, `events.go` | a bounded channel, `closed` behind an RWMutex, `closeOnce` | `Handle`, the worker, `Close`; webhook, syslog and JSONL writers | called by every device goroutine and by main |
| **Declarative ensure** `workflow_ensure*.go` | a plan: current, desired, commands, rollback commands | discover, compare, apply, verify, roll back; per platform | over the SSH client or NETCONF, against a device that others change too |
| **gNMI triggers** `workflow_executor.go`, `pkg/drivers/gnmi` | actions used per trigger and per device; per path the last sample, the baseline, the time of the last action | match an event, take from the budget, run the nested steps | parallel branches share the device's budget |
| **NETCONF, SSH, gNMI, RESTCONF, eAPI drivers** `pkg/drivers` | a session, a prompt, a diagnostic capture, host keys | connect, execute with deadlines, close | library clients underneath |
| **Monitors** `internal/{xrmonitor,junosmonitor}` | sessions, stages of the reminder, whether the artifacts of before the change are complete, a semaphore around the terminal | poll, reconnect, ask for a passcode, capture before and after, complete | one goroutine per router, a shared prompt; each router has a recorder |
| **Monitor history and alerts** `internal/monitoring` | segments of records, markers of sealed segments, a health file; streaks and baselines per rule | record, flush, rotate, seal, prune; observe a sample | several runs may share the directory |
| **Monitor set-up** `internal/monitorsetup`, `onboard.go`, `pkg/drivers/hostkey` | a checklist of devices, a cached passcode, known_hosts | connect one device at a time, reuse a passcode with consent, replace a host key, retry | the operator at the terminal; known_hosts, which others edit too |
| **Configuration, inventory, selection** `config_loader.go`, `inventory_parsers.go`, `selector.go`, `security_policy.go` | parsed configuration, budgets of imports | import, merge, resolve, check, select | once, before the run |
| **Preflight and plan** `workflow_preflight.go`, `offline_plan.go` | a scope of variables and their taint | walk the steps without a device | before the run; `--plan` prints the result |
| **Credential providers** `pkg/credentials` | none | look up, or ask for, secrets | asked by main after every check, by the monitors per device |
| **Validation, drift, facts, enrichment, text parsers** | none | pure evaluation of device output | called by the executor |
| **Artifacts, safe output, reports** | files | write privately, redact, render | after or beside a step |

### What is hard, and what makes each part correct

* *Scheduler.* Outcomes, the interval timer and a cancellation arrive in any
  order. Correct: never more than `max_parallel` entries at once; no entry
  before every canary is clean; bounded damage once the failure threshold is
  reached; a stop that is reported and has a cause; every outcome collected.
* *Run orchestration.* Two locks nest. Correct: entries of a failure domain and
  entries of a host exclude each other; entries of a host run in inventory
  order; launched entries finish.
* *Executor.* A failure can strike at any point of any nested call. Correct:
  a gate that said stop lets only recovery and cleanup run, once the calls around it
  have heard it (finding 4: they do not always); cleanup always runs;
  a device is reported as good only when what failed was recovered.
* *Journal.* The process can be lost at any point, in an append too. Correct:
  an imperative step is on record before the device may be told of it; a resumed
  process repeats none. The commands of validation actions are not in the journal
  (finding 5).
* *Events.* `Close` races with emitters. Correct: no send on a closed channel,
  no accepted event lost, no device run that waits for a receiver.
* *Ensure.* The device changes between discovery, change, verification and
  rollback. Correct: an idempotent step writes nothing, a refused precondition
  writes nothing, a reported change was seen, a rollback restores what was
  discovered.
* *Triggers and parallel branches.* Correct: budgets are never exceeded, also by
  branches that share one; an alarm is one in the samples of its own path; the
  merge of the branches does not depend on who came first.
* *Monitors.* Prompts that are abandoned and still answered, sessions that come
  up late. Correct: one prompt at a time, no session left open, a run that ends
  although nobody answers, "completed" only with every artifact and sample.
* *History and alerts.* Writes that fail, kills and power cuts between any two
  calls, two runs in one directory. Correct: what the health file advertises is
  on disk; only what is sealed and old is removed; alerts are those that the
  samples call for.
* *Set-up.* Time passes, and known_hosts changes, while the operator thinks.
  Correct: a passcode is reused within its window only, a changed host key costs
  neither a passcode nor anybody else's line, and the end of input ends it.
* *Before a run.* Imports may be cyclic, selectors nested, variables scoped, and
  a dozen checks may refuse. Correct: refused before a secret is looked up;
  what preflight vetted and the plan announced is what then runs.

`PROJECT.json` lists the hazards line by line with the properties that cover
them.

## 2. The modules

| Module | Models | State and actions |
|---|---|---|
| `RolloutPolicy` | what the documentation promises of a staged run | entries started, seen and bad; `Start`, `See`, `Stop`, `Complete`, `NextRound` |
| `BatchScheduler` | `runRecurringScheduleContext`, `Run`, `runBatch` | the launching goroutine's locals, `pc` and one action per branch; what a goroutine does is left open in `Finish` |
| `FleetRun` | the goroutines: `runScheduledDevicesContext` and the runner closure of `main.go` | `phase` of each entry, `domainLock`, `stateLock`, `turn`; extends `BatchScheduler` and refines its `Finish` |
| `WorkflowRun` | `runSSHDeviceContext`, `executeStepsAtDepth` and what it calls, the journal, crash and `--resume` | a stack of frames for the recursion, the journal as open and completed names, one action per outcome of each call |
| `EventPipeline` | `AsyncSink` | a location for each emitter, closer and the worker; one action per access of the lock, the flag or the channel |
| `EnsurePlans` | the adapters of `ensure`: comparison, forward and inverse blocks, and what a device makes of a block | operators only |
| `EnsureStep` | `executeEnsureStep`, `executeSSH*Ensure`, `failSSHEnsure`, and an operator at the same device | the object, what was discovered, the call that comes next; one action per call and outcome |
| `TriggerMatch` | the filters and numeric conditions of a trigger: `gnmiNumericTriggerState.match` | operators only; what is kept of earlier samples is an argument and a result |
| `ParallelTriggers` | `executeParallel`, `executeGNMISubscribe`, `SubscribeEvents` and the trigger handler | a location, variables and a session per branch, the device's budget, the channel of results |
| `MonitorPolling` | `PollDevice` and `ReauthCoordinator` of both families, `main` of the monitors | a location per device, the coordinator's goroutine beside it, the semaphore, the open sessions |
| `MonitorAlerts` | `Engine.Observe` | operators only, from an engine and a sample to an engine and events |
| `MonitorHistory` | `OpenRecorder`, `WriteTick`, `Close`, sealing, rotation, `PruneHistory`, kills and power cuts | segments with what is written and what is flushed, markers, health file, a location per run |
| `KnownHosts` | the known_hosts files: which line binds, what is a mismatch, how a line is replaced | operators only |
| `DeviceOnboarding` | `OnboardDevices*`, `ResolveCredentials`, `connectWithRetry`, `PromptHostKeyMismatch`, `Connect` | the checklist, the cache and its age, the files, the one goroutine and its operator |
| `ConfigImports` | `loadConfigMap` with its budget, globs and cycles | the calls in progress as frames with the indexes of their two loops, files and nodes used |
| `ConfigMerge` | `mergeConfigMaps` | operators only, recursive as the code is; what the merged playbook says |
| `DeviceSelection` | inventory resolution, security modes, `filterDevices`, replays | operators only |
| `PlaybookSteps` | a step and what is nested in it, removed and forbidden steps | operators only |
| `Startup` | `main` from the flags to the runner | `stage`, the selected devices, what was opened; `Load`, `Proceed`, `Refuse`, `EndOffline` |
| `Selectors` | the selector parser (`CompileSelector`) | operators only, recursive as the code is; what a selector means |
| `PlaybookVetting` | `preflightSteps`, `stepsNeedSSH`, `appendPlanSteps` | operators only, recursive as the code is |
| `PlaybookRun` | one device's walk through its steps: variables, check mode, sessions | frames for the recursion; extends `Startup` |
| `MCFleetRun`, `MCWorkflowRun`, `MCEventPipeline`, `MCEnsureStep`, `MCParallelTriggers`, `MCMonitorPolling`, `MCMonitorHistory`, `MCDeviceOnboarding`, `MCPlaybookRun` | instances for TLC | policies, fleets, playbooks, steps, objects, samples, files and launches, small sets |
| `FleetRunProofs`, `WorkflowRunProofs`, `EnsureStepProofs`, `ParallelTriggersProofs`, `MonitorPollingProofs`, `MonitorHistoryProofs`, `DeviceOnboardingProofs`, `StartupAndEventsProofs` | theorems | each of the module in its name; `FleetRunProofs` of `BatchScheduler` and `RolloutPolicy` too, `StartupAndEventsProofs` of `ConfigImports`, `Startup` and `EventPipeline` |

Operators whose comment begins with "Fault" are not part of any specification:
each is the definition that follows it with a plausible mistake in it, and
`PROJECT.json` ("mutants") names the property that notices.

### BatchScheduler and FleetRun

`stage` is where `runRecurringScheduleContext` and `Run` are; `pc` is where
`runBatch` is: at the head of its loop, in `receive()` for a slot, in the
`select` for the start interval, at the launch, or draining. The `select`'s
arms are the actions `Receive`, `IntervalFires` and `IntervalCancelled`, all of
them enabled at `pc = "pace"` as their channels allow. An outcome is
`completed` once sent and `received` once taken; the channel's capacity is the
batch, so sending never blocks. `cooling` stands for the time left of the start
interval; it ends at any moment.

`status` and `failed` describe the current occurrence: the results of earlier
ones are in the caller's slice and nothing reads them before the summary.

`FleetRun` adds the two locks. A goroutine goes `domain` -> `turn` -> `running`
-> `finished`; without `serial_by` it begins at `turn`. `turn[h]` is
`deviceVariableState.next`, which the code creates once per run and does not
reset between occurrences, and neither does the model. A goroutine in
`cond.Wait` has released the mutex, so waiting is not holding.

`Rollout == INSTANCE RolloutPolicy` maps the counters and channels to the sets
`RolloutPolicy` talks about.

### WorkflowRun

`executeStepsAtDepth` is recursive; `stack` holds one frame per call in
progress, innermost first: which node's list it walks, which part of a block it
is in, where it is, which iteration of a loop, and the flags the Go code keeps
in locals (`runFailed` of this call, unrecovered validations, and
`executeBlock`'s own verdict). `pc = "unwind"` is a call that returned "stop".

A leaf goes `attempt` (intent record) -> `send` -> `sent` -> (completed record)
-> `judge` (parse, validate, retry) -> `act` (on_pass, on_fail) -> `acting` (the
command of an action, if there is one). Each fallible
call has an action for success and one for failure; a failed append may have
left nothing, a partial line (`torn`), or a whole line that was not synced. A
failed command may or may not have reached the device. `sent` is the history of
what may have reached it for imperative steps: the step's own command, and the one its
validation action asks for. The commands that actions of other steps send are taken,
without a place in that history.

An action begins with its message. `known` has the steps whose output is
registered, and `passShows` and `failShows` say which of them the message shows: a
step that failed, or that a resumed run has skipped, registers nothing, the message
cannot be rendered, and the action fails (`ActFails`) whatever it would have been,
`stop` and `fail` included. Its callers are then not told to stop; `told` in
`closed` records which of the two happened. An action's name is checked only when
it is carried out ("other").

The journal's key is what the code's key is, the step's name: steps without a
name share one. `open` and `done` are what `uncertainJournalEntries` and
`completedJournalEntries` compute from the file. `Crash` loses the process
between any two steps or in the middle of an append; `Resume` and
`RefuseResume` are the two outcomes of `--resume`.

What is abstracted:

* Device output, templates and variables: a step may be rejected, its output
  refused, a validation may pass, fail or err. A false `when` is left out: the
  step would not be there. Of the variables only those that messages show are kept.
* An error of the output limit is an `ExecuteFails`. The limits on imports and on the
  nesting of reusable workflows are checked before a run; `RefuseRepeat` is a loop
  that is refused when it is met.
* A `read` leaf is facts, a read-only NETCONF operation or a gNMI subscription; an `ensure` leaf is one call that may fail.
* A step that has both a probe and a command is two steps here.
* `stepsNeedSSH` depends on the transport of `ensure` and `read` steps, which
  the model does not have: with only such steps, both answers are possible.
* A record that is complete but for its newline is not modelled. The manifest's
  digests are abstracted to: the playbook of a resumed run is the same.
* Parallel branches are in `ParallelTriggers`, check mode and the flow of variables
  in `PlaybookRun`.
* `TreeAssumption` says what a playbook's text is: a step stands in one list, and not
  inside itself. A reusable workflow that is used twice is there twice.
* `NamesAssumption` keeps out playbooks where an `ensure` step and an imperative
  step share a name and overwrite each other's records.
* `retry.until_pass` without `max_attempts` is bounded by `MaxAttempts`; in the
  code it is not bounded at all, and `ProcessEnds` does not speak of it.

### EventPipeline

`s.mu` is a Go RWMutex: a waiting writer keeps new readers out, which is why
`mutex` has the value `pending`. `closeOnce` makes every other caller of `Close`
wait until the first is through. `emit` passes `context.Background()`, so the
arm of `Handle`'s `select` that looks at the context is never taken. In this
program `main` closes the sinks after the last device has come back; the model
lets `Close` race with emitters, which the type's exported contract allows.

### EnsurePlans and EnsureStep

An object is an interface, the next hops of one prefix, or a VRF: single-valued
settings and a set of lines. A plan sets or clears settings, adds and drops
lines, or removes the object. The three SSH functions and the NETCONF one have
the same shape, which `EnsureStep` models once: discover, refuse, compare,
preview, apply, discover again, roll back. What differs is in `EnsurePlans`:
`Refused` and `Matches` per kind, and the blocks per platform. EOS keeps the RD
and the targets of a VRF in the VRF of the BGP process (setting "plane"), Junos
has an instance type, NX-OS has lines for both directions at once; IOS XR and
IOS XE are "other".

A call is not atomic for the device: `Effects` lets any part of a block take
effect, whatever the call returns, because a transport may fail after any line
and a device may refuse any. That includes an apply that ends well and changed
nothing, and one that failed and changed everything. `Settled` is what a device
keeps of what it was told: on EOS nothing of a BGP VRF that is not there, and no
line for one direction beside one for both. `Operator` changes the object, or
what refers to it, between any two calls.

The histories `disturbed`, `stale` and `restored` are not the program's: they
say what the properties are conditional on.

What is abstracted: the text of commands and configuration, hence the parsers,
and the order of the lines of a block, since any subset may take effect. Whether a
VRF is there is one flag; `parseEOSVRFState` takes `router bgp` / `vrf X` alone for
one (workflow_ensure_ssh_vrf.go:309-313), so that a device which refused the line
`vrf instance X` and took the rest looks right to the code. Steps
that validation refuses before the first call are not in `ValidSteps`. `Again`
stands for a lost and resumed process and for a second execution alike, because
`ensure` steps are not skipped on resume (`resumableMutationKind`).

### TriggerMatch and ParallelTriggers

A branch's goroutine goes `new` -> `waiting` (for the semaphore) -> `connect` ->
`step` or `stream` -> `close` -> `send` -> `sent` -> `gone`, one action per
location and outcome; the parent spawns them, collects results from the channel
and merges when the last has come. `env` holds the parent's map of variables
and a copy per branch. In `stream` a notification's events pass every trigger
(`Skip`, `Reject`, `Pass`, `Fire`); a trigger that fires runs its steps with the
bindings of its event on top of the branch's variables, which are taken off
again. The claim on the device's budget is one action, as it is one critical
section under `gnmiActionBudget`'s mutex.

Rates and baselines are exact fractions, floats in the code. Text is one value
that is not a number. `Panic` is the dereference of a threshold that is not
there. `log`, `heard` and `wrote` are histories for the properties.

What is abstracted: paths and regular expressions are the sets of paths and
values that they let through, the nested steps of a trigger and the step of a
leaf branch have an outcome and register variables, artifacts and validations
are not merged.

### MonitorPolling

`xrmonitor` and `junosmonitor` have the same loop and the same coordinator, and
share the semaphore when `routing-monitor` polls a mixed fleet. A device opens its
recorder, captures what is to be captured before the change, then waits for its
ticker, for the reminder that a TACACS passcode is about to expire, or for the
end. `Reconnect` waits for the semaphore or the context, then starts a goroutine
(`job`) that asks on the terminal and connects. On cancellation that goroutine
is abandoned and keeps the semaphore until `connect` returns; its result is
drained and closed (`Drain`). Sessions are numbered, and `opened` is those not
closed.

What is abstracted: a tick is what became of it (complete, with errors, denied,
dead); the contents of snapshots; the schedule of the reminders. The two forms
of `--run-until` are the cancellation.

### MonitorAlerts and MonitorHistory

`Observe` is a function from an engine and a sample to an engine and the events
it raises. `MonitorHistory` has the calls of a `Recorder` in the order in which
they touch the disk: write a line, flush it, rename the health file, advertise;
seal (flush, close, write the marker), open the next segment. `WriteTick`
records the sample and then its alerts. A segment has the lines written and how
many of them are flushed; a kill keeps the former, a power cut may take the
last line, unless it was flushed (`Survivor`). A write may be cut off and leave part of a
line. `PruneHistory` reads its list of markers once and then looks at each.
Time is counted in days, ticks for the alerts' cooldowns.

### KnownHosts and DeviceOnboarding

One goroutine connects one device after the other; `pc` is the question, the
dial or the file operation it is at. Clock ticks, edits of known_hosts by
others, a device that changes its key and the end of the operator's input come
in between any two of its steps. `cache` is the `CredentialCache` with its age,
`proof` what of it is genuinely known to be good, by which `ReuseIsTimely`
judges it. A failed dial leaves an error that may or may not have kept the words
by which a host key is recognised (`recoverRacedChannelDiagnostic`). After a
mismatch `ReplaceEntry` reads the file again, edits and renames: three steps.

What is abstracted: hashed names are names, comments are lines that name nobody,
user names that prompts offer, and the interfaces and tables asked for.

### ConfigImports, DeviceSelection, PlaybookSteps, Startup and PlaybookRun

A behaviour is one launch: what the operator asks for and what the files hold.
`Startup` walks the stages of `main` in its order. The stage "load" is
`ConfigImports`, one action per call, import and return of `loadConfigMap`; the
others ask `DeviceSelection` and `PlaybookVetting` for a verdict, and each may
refuse. `opened` records the first thing that would be seen outside:
credentials, outputs, journal, events. `preflightSteps` visits `on_pass` and
`on_fail` in Go's random order of maps, so its verdict is a set of verdicts.

What these modules need of recursive code is a constant operator there, and the
recursive definition is its value in `MCPlaybookRun.cfg`: `MergeConfigMaps`,
`CompileSelector`, `AllSteps` and `Preflight`. What is proved of `ConfigImports` and
`Startup` holds whatever they compute.

`PlaybookRun` then executes one of the selected devices. A frame is a call of
`executeStepsAtDepth`, with the scope it has to restore. What is registered, and
whether it is output of the device, is followed through scopes, bindings, loops
and merges; a step may fail or be skipped wherever it may in the code. The
histories `passed`, `unmet` and `dirty` compare what was read with what the
preflight foresaw, `entered` with what the plan announced.

What is abstracted: values (only whether they are there, and their taint), the
branches of a parallel step run one after the other (they share nothing but the
verdict; their interleavings are in `ParallelTriggers`), retries and the journal
(`WorkflowRun`), the three formats of inventory files, YAML itself.

## 3. The runs

| Run | Asks | Shows |
|---|---|---|
| `fleet` | does a staged run keep its limits, and come back? | `SchedulerLimits`, exclusion, order, `RunReturns`, and that the run implements `RolloutPolicy` |
| `workflow` | does a workflow keep its promises whatever fails, and across resumed processes? | journal of imperative steps, gates that are heard, cleanup, verdict, termination |
| `events` | is the sink safe and live while it is closed? | no panic, no loss, `Close` returns |
| `ensure` | does a declarative step tell the truth, and undo what it did? | results are true, rollbacks restore |
| `triggers` | do parallel branches and their triggers keep their limits, whatever the order? | budgets and cooldowns, exact alarms, a declared merge, termination |
| `monitor` | does a fleet of monitors share its terminal and its sessions properly, also at the end? | one prompt, no leak, earned completion, shutdown |
| `history` | what is left on disk by failures, kills, power cuts and concurrent pruning? | the health file is backed, pruning spares what is open, alerts are those due |
| `onboarding` | what do time, edits, changed keys and a closed terminal do to the set-up? | timely reuse, spared passcodes and lines, trusted sessions, an end |
| `playbook` | is what was vetted, selected and planned what then happens? | eight properties from the imports to the closing of the sessions |
| `fleet_deadlock` | do launched entries finish if a host repeats under `serial_by`? | **no**: a deadlock |
| `loop_resumed` | does a resumed loop skip only what was done? | **no** |
| `check_sends` | does check mode send no generic SSH command? | **no**: the command of a validation action |

Every property has a mutant in `PROJECT.json`: a plausible mistake in one
definition under which the same run fails.

### Properties worth a second look

* `FailureBlastRadius`: the threshold is compared with outcomes *received*, so
  failing entries in flight escape it. The bound that holds is
  `threshold - 1 + slots`, not `threshold`.
* `InterruptStopsLaunching`: after a signal one entry may still be launched, the
  one the loop had committed to before it looked.
* `JournalCoversDevice`: at every moment, of every imperative step for which the device
  may have been sent anything, the journal holds a completed record or an open intent,
  or cannot be read at all; and a retried step is announced again before each attempt.
  The command of the step's validation action counts: it has no record of its own, and
  is covered because the step's precedes it. It cannot be said of the actions of other
  steps (finding 5), and `sent` leaves them out.
* `NoResend`: two processes never send for the same imperative step. It depends on
  the completed record, the uncertain intent and the unreadable file each
  stopping the next process in a different way.
* `CleanVerdict`: a process nobody interrupted reports success only if whatever
  failed was inside a block whose recovery ran without a failure, and to its end
  unless one of its own steps said stop (finding 9; `cut` remembers which).
* `GateStopsProcess` and `AlwaysIsEntered` pull in opposite directions: after a
  gate nothing may run, but cleanup must. The documentation has the first for every
  gate that failed; it holds of those whose action was carried out (finding 4), and
  the commands of actions are among what may not be sent.
* `RollbackRestores`: the inverse block is computed before anything is sent,
  and undoes *every* part of the forward block that the device may have taken,
  down to two lines for one target. It speaks of rollbacks that the device took
  in full, with nobody else at the object since the discovery, and leaves out
  the deletions of finding 10 (`LossyDeletion`).
* `SuccessIsTrue` holds across interference: whatever the operator did before
  the last reading is in it.
* `AlarmsAreExact` and `AlertsAreDue` say what an alarm is by looking at all the
  events or samples at once, by their numbers, with no engine and no state; the code
  keeps running totals and streaks.
* `OnlyTreesAreAccepted` reads the directory as a graph, with no stack, no set of files
  in progress and no running budget: what is accepted is a tree within the limits,
  and everything that is one is accepted.
* `SecretsAreEarned` names all that must be settled before the first secret; where a
  stage stands in `main` is not among it.
* `TriggersKeepLimits` counts the actions of all branches together: the shared
  budget is exact, also when claims interleave.
* `OnePromptAtATime` has a second half: of the devices that queue for the terminal
  when the run is cancelled, one may still begin to ask, never two.
* `HealthIsBacked` holds after power cuts, because a line is flushed before the
  health file that advertises it is renamed.
* `ReuseIsTimely` compares with `proof`, not with the cache's own clock: a reuse
  that renewed the cache would go unnoticed otherwise.
* `SelectionIsExact` compares the recursive-descent parser with the meaning of
  the tree that the text was written from.
* `VettedReadsAreProduced`: a variable that preflight let through is there when it
  is read, or a step that would have produced it was passed by a failure or a
  `when`. `OutputStaysOutOfCommands`: no executable field is rendered with
  device output, through whatever scopes it came (later rounds of loops and
  triggers that fire out of order excepted, which the preflight follows once).
* `PlanCoversRun`: every step that runs is in the plan, and one that was not run
  is marked conditional there.

### Bounds, and why they are enough

* `fleet`: 3 entries, 2 serial domains, up to 3 hosts, 2 occurrences, eight
  policies in which `max_parallel`, `canary_count` and `failure_threshold` are
  0, at a boundary and beyond it. Three entries are the fewest for which a
  canary, an entry in flight and an entry to come exist together; two
  occurrences show what is carried from one to the next. The three fleets are a
  plain one, one with a repeated host and one with a serial domain of two
  entries. The combination of the last two deadlocks and has its own run.
* `workflow`: eight playbooks, one per shape (guarded change with rollback and
  cleanup; nested blocks; a retried check in a loop, with and without
  `stop_on_failure`; a reload with a probe; a reusable workflow behind an
  approval; NETCONF alone with a remedy over SSH; a gate
  whose message shows an earlier step), two attempts, two
  iterations, two processes. A second process is the first that can repeat or
  skip anything; a third finds a journal no different in kind. Every action of
  the module occurs.
* `events`: a queue of two, two emitters with two events each, two closers: the
  queue fills, an emitter is inside `Handle` when `Close` begins, and one closer
  finds the other inside.

* `triggers`: twelve parallel steps: three branches for two slots with writers that
  agree, disagree and fail; two subscriptions that share a budget of three, fresh and
  two thirds used; baselines, rates and resets over four or five
  notifications of two paths; and every setting that is refused. The budget, the
  default number of actions and the depth are small so that they are reached.
* `monitor`: an IOS-XR device that ticks twice and a Junos device with a NETCONF
  session, two reminders, two sessions each, one fault anywhere. Two devices are the
  fewest that compete for the terminal, and one fault can be at every place.
* `history`: five samples for the alerts (two in a row to fire, two to resolve, one
  in between), or three with a failure, or two while another run prunes what a
  third has left, with a kill or a power cut; two records fit into a segment.
* `onboarding`: two devices under three spellings, six layouts of two files (stale,
  shared, pattern, authority's and revoked lines), a window of two ticks, and in
  each behaviour one pair of edits, changed keys, faults, typed hosts and restarts.
* `playbook`: several hundred launches, each built for a question: 13 directories,
  the selectors that distinguish precedences, every stage that refuses, and
  playbooks that pair each kind of scope with each kind of reader; imports up to
  depth 3, five files and twelve nodes, workflows nested four deep.
* `ensure`: 132 pairs of a step and the objects it may find for interfaces,
  routes and VRFs on four kinds of platform; two targets (one managed, one not),
  two RDs, every state and description an interface can have; one change by the
  operator, since any two of them are one; two executions, since the second
  starts from whatever the first left behind.

### Fairness

* `FairFleetSpec`: weak fairness of the scheduler's loop and of every goroutine.
  The Go runtime runs what is runnable, mutexes are handed on, and a device run
  ends since every transport has a deadline. Nothing obliges anybody to
  interrupt.
* `FairSpec` of `WorkflowRun`: weak fairness of the process. Calls have timeouts;
  crashes, interrupts and resumed runs are not promised.
* `FairSpec` of `ParallelTriggers`: weak fairness of the parent and of each branch;
  sessions and subscriptions have deadlines.
* `FairSpec` of `MonitorPolling`: weak fairness of each device's goroutine, of the
  coordinator's and of `main`'s exit, but not of the operator: `ShutdownReturns` must
  hold although nobody ever answers a prompt.
* `DeviceOnboarding`: weak fairness of its goroutine once the input has ended, and
  no sooner: until then it waits for an operator who need not answer.
* `PlaybookRun`: weak fairness of the launch and of the walk. Devices answer or
  time out, and an approval is given, refused or times out; a NETCONF `Close` may
  never be answered, which is what the bounded wait is for.
* `FairSpec` of `EventPipeline`: weak fairness of each caller in `Handle` and in
  `Close`. `CloseReturns` is conditional on the worker's: each sink has a
  timeout (five seconds unless configured).

Deadlock is checked in every passing run but `playbook`, whose launches end;
elsewhere `Returned`, `Rest` and the like are the states in which a run is over.

## 4. The proofs

All theorems hold for every value of the constants that satisfies the named
assumptions: any number of entries, any policies and inventories, any
playbooks, any number of processes, emitters and closers, any capacity, any values,
targets and scenarios of `ensure` steps, any parallel steps and triggers, any
devices, sessions and reminders of a monitor, any runs and samples in a directory,
any known_hosts files and any window for the reuse of a passcode, any directory of
configuration files and any set of launches.

* **`FleetRunProofs`.** Of `BatchScheduler` first: `ConcurrencyBound` and the others are
  not inductive, since they say nothing of where the loop is. `IInv` adds that `active`
  and `failures` are the cardinalities of the sets they stand for, that entries
  are launched in order, that a batch's entries lie between `next` and its end,
  what has been established at "launch" and at "drain", and what a passed canary
  batch leaves behind. `SchedulerInvariant` is `Spec => []IInv`; the four
  properties follow from it, and `SchedulerLimits`, which is all of them.
  Each step of `FleetRun` is a step of `BatchScheduler` or
  a stutter (`FleetImplementsScheduler`), so all that carries over.
  `LockInv` says that whoever is past a `Lock()` and before its `Unlock()` is the
  one the lock names; mutual exclusion follows. `FleetKeepsRolloutPolicy` is the
  refinement of `RolloutPolicy`, action by action, under `IInv`. `OrderInv`: in the
  first occurrence a host's `turn` is the number of its entries that are through, and
  whoever is through or running has its predecessors through. So the entry whose
  number comes up has all its predecessors behind it, counted as sets
  (`TurnComesInOrder`), which gives `HostsTakeTurns`.
* **`WorkflowRunProofs`.** `JInv` strengthens `NoResend`: what earlier processes may
  have sent is for steps on record as completed and in the present process's skip set,
  and a step of that name is never past the head of the loop. `AnswerOnRecord` carries the
  record from the answer to the action: whoever judges an imperative step, or acts on
  its result, finds it in the journal. That needs the
  type of the whole stack, since the step in hand is `playbook[stack[1]...]`.
  `VInv` is about the recursion. `StackInv`: every call is at the step that made
  the next one, and the nodes a step is inside of by the text (`Inside`) are those
  that the calls below are in the steps of. `PlaceInv`: what has been reached where.
  `GateInv`: a stop that was carried out is on its way up ("unwind"), or a block on the
  stack remembers it in `stopped` and will say it again after its cleanup.
  `CleanupInv`: a block that was begun is on the stack until its cleanup was.
  `TroubleInv`: every step that failed is either made good (`RecoveredBy` an
  enclosing block) or some call in progress answers for it (`Answers`), that is, it carries a
  mark (`failed`, `bad` or `lost`) that its return hands to its caller, and is
  itself inside whatever could recover the step. When the last call returns
  unmarked, nothing is left unanswered, which is `CleanVerdict`. `TreeAssumption` is
  needed where a recovery fails: its steps must not be some other block's as well.
* **`StartupAndEventsProofs`.** `LoadInv` is about the calls of `loadConfigMap` in
  progress. They are a chain of imports from the root; what was opened is reached from
  it and sound; an import before the loops' indexes of a call leads to a file that is complete, and the
  one at them to the next call; no file is the target of two imports; depths and
  the two budgets are those of what was opened. When the root returns, all that it reaches is
  loaded, so `ImportTree` holds; when something is refused, the file asked for is reached and
  breaks it. Budgets are counted as sets of pairs, so that a sum is the cardinality
  of a union (`Pieces`). `StartupInv`: every stage before the one that is reached was
  passed and would be passed again, which needs that the stages are in the order
  `Stages` has them and that nothing changes what they look at. `PInv` of `EventPipeline` says who is
  where around `s.mu`: an emitter between `RLock` and `RUnlock` is a reader, at most one
  closer is inside `closeOnce`, and it holds the lock from marking to unlocking. So an
  emitter that has seen `closed` unset sends on an open channel.

* **`EnsureStepProofs`.** `InverseRestores` is the algebra behind the rollback: for
  any object a device can show and any step that differs from it, whatever
  subset of the forward block took effect, the whole inverse block gives the
  object back; one lemma per kind of resource, and `LinesRestored` for the lines
  for one and for both directions. `IInv` carries what it needs from the
  discovery to the rollback: what was discovered is an object the device can
  show (`ShownAfterWrite` keeps that true of the device), it differs from the
  desired one and was not refused, and an undisturbed device holds part of the
  forward block's effect. `SuccessIsTrue`, `RollbackRestores` and
  `BystandersUntouched` follow for every set of values, targets and scenarios.

* **`ParallelTriggersProofs`.** `TriggersKeepLimits` speaks of what has been done,
  the code of counters. `BudgetInv` ties the two: while a subscription is live, its
  counts, times and sites are those of its log, and the device's budget is what was
  used before plus every action that any branch has logged. The claim and the
  logged action are one step, so this holds at every interleaving. `MergeInv`: a
  branch's map is the parent's under what its own steps registered, the bindings of
  a trigger lie over it only while the trigger's steps run, and the channel holds one result
  of each branch that sent. So the parent ends with what the first declared
  writer of each name registered, whoever came first (`MergeDeclared`).
  `MatchInv` is about `AlarmsAreExact`. A trigger keeps of a path the last sample, a
  sum and a count; the property speaks of all the events of the path. The invariant says
  of which events the numbers are, at every moment: the tasks of a subscription are
  each event for each trigger in turn (`Queue`), past its first trigger a task's event
  is the last that was heard (`Hearing`), so a trigger has been shown all that was heard
  or all but the last (`SeenBy`), and unless it has fired for good its numbers are those of
  exactly these (`Reckoned`): the sample before, the count and sum of the baseline, and either
  the baseline is full or every metric is in it (`Remembers`). `MatchIsExact` is one
  call of `match`; a sum over the first samples is unfolded by `TotalNext`, whose
  recursive function is shown to exist for every length.
  `ScenariosAssumption` says that limits are natural numbers (others are refused
  before the subscription, `validateGNMIExecutionBudget`), that triggers and
  notifications are lists, and that a value is an integer or text.
* **`MonitorPollingProofs`.** Three invariants on one type invariant. `PromptInv`:
  whoever is about to ask, or asks, holds the semaphore, and only one who looked at
  the context before it was cancelled begins to ask after; a goroutine is awaited
  or abandoned. `SessionInv`: what is open is the session in use, the NETCONF
  session, or one spare that has come up late. `VerdictInv`: what each place
  between the first capture and the health file has established of the verdict.
* **`MonitorHistoryProofs`.** `SealInv` says what a place in the code has established
  of the open segment (`Opened`), and that a sealed one is never written again
  (`Done`), so what a pruning run has read of a marker is still true when it removes
  the segment, even if it has waited for days and others prune too. Every step keeps what is
  flushed (`Kept`), a power cut included. `HealthInv` adds for each recorder which
  samples are written, flushed and counted (`Recording`), from which what is
  advertised is on disk. `DueInv` is about the alerts: what the engine knows of a key
  is what the samples on record said of it, a counter is the length of the streak that ends
  with the last sample, the time of the last firing is that of the last on record,
  and of a tick that is over every alert that was due is on disk; only lines of the
  last tick can be lost, and then nobody looks at it again. `HistoryAssumption` says that a
  sample is finite and that one without BGP has no neighbours that are up; what a sample
  raises is then a finite sequence of alerts (`EventsAreAlerts`).

* **`DeviceOnboardingProofs`.** `InHand`: at each question, what it is about (an entry,
  a credential, a mismatch with its file, a key that was shown). `TrustInv`: for every key
  that a line of known_hosts binds to a device somebody answers: the file at the
  start, whoever edited it meanwhile, or the operator's confirmation; it covers
  the draft between `ReplaceEntry`'s reading and its rename, which may be of a file
  that others have changed. `PasscodeInv`: what the cache holds was typed and
  accepted at the age the cache has, or its refusal is about to clear it.
  `SessionsTrusted` and `ReuseTimely` follow for every set of devices, keys, files
  and every window, and so do `MismatchSparesPasscode` and `RefreshSparesOthers`, of
  single steps. For the last one, a rewritten file is described by where each
  line was before, without induction over its length. `KnownHostsAssumption` says that
  there is a file, that no file is listed twice, and that the devices are finitely many.

Type invariants (`FleetTypeOK`, `TypeOK`), `BystandersUntouched` and `NothingIsLost`
are proved for every instance, and no run repeats them.

Model-checked only: every liveness property (`RunReturns`, `ProcessEnds`, `CloseReturns`
and their like), since liveness under fairness is beyond the provers used; and what
recursive code computes, since that takes induction over data: `ImportersWin` of
`mergeConfigMaps`, `SelectionIsExact` of the selector parser, and of the preflight and the
plan, and hence of `PlaybookRun`, `VettedReadsAreProduced`, `OutputStaysOutOfCommands` and
`PlanCoversRun`.

## 5. Findings

Three are runs that TLC finds violated; `PROJECT.json` quotes the lines.

1. *Deadlock* (`fleet_deadlock`). The serial domain's mutex is taken before the
   wait for the host's turn. With `serial_by` and a host that appears twice, the
   later entry can hold the domain while it waits for the earlier one, which
   waits for the domain.
2. *Loops and `--resume`* (`loop_resumed`). The journal key has no iteration; one
   completed iteration makes the resumed run skip all of them.
3. *Check mode sends* (`check_sends`). A validated `ensure` step is previewed, and
   then the command of its `on_pass` or `on_fail` is sent.
The others were met while modelling. The models have the code as it is, so the
properties are stated around them.

4. *A gate that is not heard.* The message of an action is rendered before the action
   counts (workflow_executor.go:310-314). If it shows the output of a step that failed,
   or that a resumed run skipped, `stop` and `fail` return an error instead, after which
   only the innermost list of steps is left (1390-1396): the enclosing block, loop or
   workflow sends its next change, where README.md:822 says "later change steps are not
   executed". In the model, `ActFails` does this to the gate of `TalkingGate`: `a`
   fails, the check in the block fails, its message cannot be rendered, and `d` is sent.
5. *Commands of actions and `--resume`.* The command of an `on_pass` or `on_fail` is sent
   without an intent or a completed record (347). One of an imperative step is covered
   by the record of the step; one of a `read` or `ensure` step is not, so nothing
   refuses a resumed run, which sends it again (README.md:347-349: "Resume never guesses").
6. *Order after the first occurrence.* A host's `state.next` is advanced
   (main.go:466) and never reset, so from the second occurrence on a later entry
   may run before the one whose variables it consumes (README.md:1049: entries of
   one host "remain serialized").
7. *A gate without a verdict is open.* If the command or the parser of a
   verification fails there is no result (workflow_executor.go:1239, 1277), hence no
   `on_fail`, and the next change is sent (README.md:822).
8. *A failed gate does not survive `--resume`.* The completed record (1241) precedes
   the validation (1320); the resumed run skips the step with its validation.
9. *A rollback that stops early.* Interrupted, it runs no step (882-885); told to stop
   by the action of one of its steps, it runs no other. Neither is a failure, so the
   block is marked recovered (841-848) and the device is reported as good.
10. *The inverse of a VRF deletion.* It is computed from a "desired" VRF that is
   not the absence of one (workflow_ensure_ssh_vrf.go:107). On EOS it creates a VRF
   under `router bgp` even if there was none (635); on Junos it omits `instance-type vrf`
   (746); an RD or targets written beside `absent` are taken to be there already.
   The step reports `rolled-back` (README.md:739).
11. *A trigger with `counter_rate` alone* is accepted (1556-1585) and dereferences a
   threshold that is nil at its second sample (1770): the process panics.
12. *Triggers and variables.* Preflight lets a trigger's steps read what
    earlier-declared triggers and the subscription itself register, although triggers
    fire in any order and before the subscription registers.
13. *Preflight's order.* `on_pass` and `on_fail` are visited in the order of a Go
    map, so the verdict of one playbook can differ from run to run.
14. *What `--lint` and `--plan` do not check.* `validateExecutionConfig`,
    `validateSerialDomains` and `validateScheduleConfig` run only after credentials were
    looked up and outputs opened.
15. *`validateRepeatConfig` gets the control depth*: a single repeat nested in more than
    three control steps is refused at run time, though preflight accepts it. A block
    with both `rescue` and `rollback`, and a `foreach` whose `item` is its `index`, likewise.
16. *`mergeConfigMaps` is not associative* for keys that are a map in one file and a
    scalar in another, so it matters how imports are nested.
17. *Host keys.* An edit of known_hosts between `ReplaceEntry`'s reading (mismatch.go:269)
    and its rename (341) is lost. The dial after a refresh uses a reused passcode whatever its
    age has become meanwhile.
18. *`stepsNeedSSHInCheck`* does not look into validation actions: in check mode an
    action's command may find no session.
19. *Snapshots.* One whose commands all failed counts as taken (xrmonitor/snapshot.go:71),
    so that a device can complete with empty artifacts.
20. *A block whose recovery succeeds after its body stopped* ends the device's steps,
    while the device counts as good.
21. *Retries.* The results of attempts that were retried stay in the device's
    validations (1342); a step that passes at its second attempt still fails the device.
22. *A threshold reached while draining* does not stop a recurring run: the next
    occurrence starts (scheduler.go:137); `RolloutPolicy` allows it.

## 6. What is not modelled, and the plan

Next: in models, the answer that arrives after an approval has timed out
(`workflow_values.go`), and resume with variables.

Left out for good: NETCONF, RESTCONF and eAPI request building, the lookup in
credential services, discovery of interfaces, reports and artifact writing. They
are sequential input and output around libraries; a test reaches what can go
wrong there. The text parsers, snapshot comparison, drift and validation are pure
functions of text: the modules have their outcomes, not their contents.
