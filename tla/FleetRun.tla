------------------------------ MODULE FleetRun ------------------------------
(***************************************************************************)
(* The goroutines BatchScheduler launches.  runScheduledDevicesContext     *)
(* (cmd/network-collector/runner.go) has each take the mutex of its serial *)
(* domain (execution.serial_by) and keep it around the whole device run;   *)
(* the runner closure in main.go then has entries of the same hostname/IP  *)
(* take turns on their shared variables, in inventory order, with a mutex  *)
(* and a condition variable.  The two locks nest in that order.            *)
(***************************************************************************)
EXTENDS BatchScheduler

CONSTANTS Hosts, Domains,
          NoDomain,   \* the lock key of an entry when serial_by is not set
          Fleets      \* the resolved inventories considered

Inventory == [host : [Items -> Hosts], domain : [Items -> Domains \cup {NoDomain}]]

ASSUME FleetsAssumption == Fleets \subseteq Inventory
ASSUME NoDomainAssumption == NoDomain \notin Domains

Nobody == 0   \* not an entry: a mutex nobody holds

VARIABLES
  inventory,  \* the hosts and serial domains of the entries; never changes
  phase,      \* where each entry's goroutine is
  domainLock, \* serialLocks: the entry holding each domain's mutex
  stateLock,  \* deviceVariableState.mu: the entry holding it
  turn        \* deviceVariableState.next

fleetVars == <<inventory, phase, domainLock, stateLock, turn>>
allVars   == <<vars, fleetVars>>

Host(i)   == inventory.host[i]
Domain(i) == inventory.domain[i]

\* deviceVariableState.order lists the entries of a host by index, so
\* order[k] = i says that i has k predecessors.
EntriesOf(h)    == {i \in Items : Host(i) = h}
Predecessors(i) == {j \in EntriesOf(Host(i)) : j < i}

-----------------------------------------------------------------------------
FleetInit ==
  /\ Init
  /\ inventory \in Fleets
  /\ phase = [i \in Items |-> "none"]
  /\ domainLock = [d \in Domains |-> Nobody]
  /\ stateLock = [h \in Hosts |-> Nobody]
  /\ turn = [h \in Hosts |-> 0]

LaunchEntry ==
  /\ Launch
  /\ phase' = [phase EXCEPT ![next + 1] =
                 IF Domain(next + 1) = NoDomain THEN "turn" ELSE "domain"]
  /\ UNCHANGED <<inventory, domainLock, stateLock, turn>>

\* Fault: the domain's mutex is not waited for.
LockDomainRegardless(i) ==
  /\ phase[i] = "domain"
  /\ domainLock' = [domainLock EXCEPT ![Domain(i)] = i]
  /\ phase' = [phase EXCEPT ![i] = "turn"]
  /\ UNCHANGED <<vars, inventory, stateLock, turn>>

LockDomain(i) ==
  /\ phase[i] = "domain"
  /\ domainLock[Domain(i)] = Nobody
  /\ domainLock' = [domainLock EXCEPT ![Domain(i)] = i]
  /\ phase' = [phase EXCEPT ![i] = "turn"]
  /\ UNCHANGED <<vars, inventory, stateLock, turn>>

\* Fault: the mutex alone decides who goes first.
AnyTurn(i) == TRUE

\* for state.next < len(state.order) && state.order[state.next] != index
MyTurn(i) ==
  \/ turn[Host(i)] >= Cardinality(EntriesOf(Host(i)))
  \/ turn[Host(i)] = Cardinality(Predecessors(i))

\* mu.Lock() and the wait: a goroutine in cond.Wait() has released mu.
TakeTurn(i) ==
  /\ phase[i] = "turn"
  /\ stateLock[Host(i)] = Nobody
  /\ MyTurn(i)
  /\ stateLock' = [stateLock EXCEPT ![Host(i)] = i]
  /\ phase' = [phase EXCEPT ![i] = "running"]
  /\ UNCHANGED <<vars, inventory, domainLock, turn>>

\* runSSHDeviceContext returns: state.next++, Broadcast, mu.Unlock().
YieldTurn(i) ==
  /\ phase[i] = "running"
  /\ turn' = [turn EXCEPT ![Host(i)] = @ + 1]
  /\ stateLock' = [stateLock EXCEPT ![Host(i)] = Nobody]
  /\ phase' = [phase EXCEPT ![i] = "finished"]
  /\ UNCHANGED <<vars, inventory, domainLock>>

\* The deferred lock.Unlock(), and the outcome is sent.
Deliver(i, bad) ==
  /\ phase[i] = "finished"
  /\ Finish(i, bad)
  /\ domainLock' = [d \in Domains |-> IF d = Domain(i) THEN Nobody ELSE domainLock[d]]
  /\ phase' = [phase EXCEPT ![i] = "none"]
  /\ UNCHANGED <<inventory, stateLock, turn>>

DeviceStep(i) ==
  LockDomain(i) \/ TakeTurn(i) \/ YieldTurn(i) \/ \E bad \in BOOLEAN : Deliver(i, bad)

\* The scheduler's steps other than a launch do not touch the goroutines.
LoopStep ==
  /\ \/ BeginOccurrence \/ AbandonSchedule \/ NextOccurrence
     \/ ExhaustBatch \/ HaltBatch \/ AwaitSlot \/ AwaitInterval \/ CommitLaunch
     \/ \E i \in Items : Receive(i)
     \/ IntervalFires \/ IntervalCancelled
     \/ CanariesPassed \/ CanariesRejected \/ MainEnds
     \/ IntervalElapses
  /\ UNCHANGED fleetVars

\* The process goes on to the summary and exits.
Returned == stage = "done" /\ UNCHANGED allVars

FleetNext ==
  \/ LoopStep
  \/ LaunchEntry
  \/ \E i \in Items : DeviceStep(i)
  \/ Interrupt /\ UNCHANGED fleetVars
  \/ Returned

\* The Go runtime runs every runnable goroutine, timers fire, and a device run
\* returns (its transports have deadlines).  Nobody is obliged to interrupt.
Fairness ==
  /\ WF_allVars(LoopStep) /\ WF_allVars(LaunchEntry)
  /\ \A i \in Items : WF_allVars(DeviceStep(i))

FleetSpec     == FleetInit /\ [][FleetNext]_allVars
FairFleetSpec == FleetSpec /\ Fairness

-----------------------------------------------------------------------------
(* Properties *)

FleetTypeOK ==
  /\ TypeOK
  /\ inventory \in Fleets
  /\ phase \in [Items -> {"none", "domain", "turn", "running", "finished"}]
  /\ domainLock \in [Domains -> Items \cup {Nobody}]
  /\ stateLock \in [Hosts -> Items \cup {Nobody}]
  /\ turn \in [Hosts -> Nat]

RunningEntry(i) == phase[i] = "running"

\* At most one active device of a failure domain, HA pair or site
\* (execution.serial_by), and at most one active entry of a host, whose map of
\* variables is not locked otherwise, whatever max_parallel says.
ActiveExclusion ==
  \A i, j \in Items :
    /\ RunningEntry(i) /\ RunningEntry(j)
    /\ Host(i) = Host(j) \/ (Domain(i) = Domain(j) /\ Domain(i) # NoDomain)
    => i = j

InventoryOrderAt(i) ==
  RunningEntry(i) =>
    \A j \in Predecessors(i) :
      status[j] \in {"completed", "received"} \/ phase[j] = "finished"

\* In the first occurrence an entry of a host finds every earlier entry of that
\* host finished, so the variables they registered are there.
FirstOccurrenceOrder == occurrence = 1 => \A i \in Items : InventoryOrderAt(i)

\* README: "Devices already running are allowed to finish": an entry that was
\* launched delivers its outcome.
LaunchedEntriesFinish ==
  \A i \in Items : status[i] = "executing" ~> status[i] # "executing"

\* The run comes back to main.go, which writes the summary and exits.
RunReturns == <>(stage = "done")

Rollout == INSTANCE RolloutPolicy WITH
  limits  <- [slots |-> Slots, canaries |-> CanaryItems,
              threshold |-> policy.threshold, rounds |-> Occurrences],
  round   <- occurrence,
  started <- Items \ With("queued"),
  seen    <- With("received"),
  bad     <- failed \cap With("received"),
  verdict <- IF stage # "done" THEN "running" ELSE IF stopped THEN "stopped" ELSE "complete"

\* The run as a whole keeps what the documentation promises the operator.
RolloutSpec == Rollout!Spec
=============================================================================
