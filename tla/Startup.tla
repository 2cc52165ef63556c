------------------------------- MODULE Startup -------------------------------
(***************************************************************************)
(* What main() of cmd/network-collector does before the first device is    *)
(* launched: it loads the playbook and the inventory, checks and selects,  *)
(* answers --lint and --plan, verifies a resume, and only then looks up    *)
(* credentials and opens the outputs.                                      *)
(*                                                                         *)
(* A launch is what the operator asks for and what the files hold: see     *)
(* the fields named below.  selected is a sequence of devices, which hold  *)
(* their steps.                                                            *)
(***************************************************************************)
EXTENDS ConfigImports, DeviceSelection, PlaybookSteps

CONSTANT Launches

ASSUME DirectoriesAssumption == \A l \in Launches : IsDirectory(l.world)

VARIABLES
  launch,
  stage,     \* where main() is
  selected,  \* the devices of the run
  opened     \* what was looked up or opened: credentials, output, journal, events

startupVars == <<importVars, launch, stage, selected, opened>>

(* Fields of a launch.  Command line: flags within {lint, plan, check},    *)
(* limit and exclude, sequences of tokens, replay, a set with at most one  *)
(* summary, resume, what the verification of the run directory finds, and  *)
(* secmode.  The playbook: world, entries, workflows, vars, varsValid,     *)
(* ssh, rsaToken and rsaMax, schedulable.  Other files: inventory with     *)
(* explicit, there and broken, and parsersBroken.  output: artifacts and   *)
(* events are recorded.                                                    *)

\* Fault: credentials are looked up before a resume is verified.
FaultStages ==
  <<"flags", "load", "inventory", "resolve", "security", "select", "reuse", "preflight", "offline",
    "credentials", "resume", "parsers", "output", "journal", "events", "execution", "launch">>

Stages ==
  <<"flags", "load", "inventory", "resolve", "security", "select", "reuse", "preflight", "offline",
    "resume", "credentials", "parsers", "output", "journal", "events", "execution", "launch">>
StageAfter(s) == Stages[(CHOOSE i \in DOMAIN Stages : Stages[i] = s) + 1]

StartupInit ==
  /\ launch \in Launches
  /\ world = launch.world
  /\ ImportsInit
  /\ stage = "flags" /\ selected = <<>> /\ opened = {}

Offline == launch.flags \cap {"lint", "plan"} # {}
CheckMode == "check" \in launch.flags

\* loadOptionalInventory: the default file may be missing.
NoInventory == [hosts |-> <<>>, groups |-> [g \in {} |-> <<>>]]
InventoryReads == IF launch.inventory.there THEN ~launch.inventory.broken ELSE ~launch.inventory.explicit
Inventory == IF launch.inventory.there THEN launch.inventory ELSE NoInventory
Resolved == ResolveInventoryDevices(launch.entries, Inventory)

Summaries == {FailedDevices(summary) : summary \in launch.replay}
Selection == FilterDevices(Resolved, launch.limit, launch.exclude, Summaries)

\* Steps of the devices, also of those that are not selected, and of workflows.
StepLists ==
  {d.steps : d \in Range(launch.entries)} \cup {launch.workflows[w].steps : w \in DOMAIN launch.workflows}

\* mergeInventoryVariables
Scope(device) == [n \in launch.vars \cup device.vars |-> FALSE]
Verdicts(device) == Preflight(device.steps, launch.workflows, Scope(device))
Vetted(device) == Fails \cap Verdicts(device) = {}

\* verifyResumeManifest: the digests of playbook, inventory and plan are those of
\* the run to be resumed.
ManifestHolds == launch.resume # "changed"

\* uncertainJournalEntries: the journal can be read, and its open intents are of
\* ensure steps.
NothingUncertain == launch.resume # "uncertain"

\* What a stage demands of the launch.
Passes(s) ==
  CASE s = "flags" -> ~({"lint", "plan"} \subseteq launch.flags) /\ (launch.resume # "" => launch.flags = {})
    [] s = "load" -> loading = "ok" /\ launch.varsValid /\ ~\E steps \in StepLists : RejectRemovedLocalSteps(steps)
    [] s = "inventory" -> InventoryReads
    [] s = "resolve" ->
         Indexable(Inventory) /\ \A e \in Range(launch.entries) : Resolvable(e, Inventory)
    [] s = "security" ->
         /\ SecurityMode(launch.secmode) \in {"production", "permissive"}
         /\ \A d \in Range(Resolved) : SecureDevice(d, launch.ssh, SecurityMode(launch.secmode))
         /\ \A steps \in StepLists : ValidStepSecurity(steps, SecurityMode(launch.secmode))
    [] s = "select" -> Compiles(launch.limit) /\ Compiles(launch.exclude)
    [] s = "reuse" -> ReuseAllowed(launch.rsaToken, launch.rsaMax, Len(selected))
    [] s = "parsers" -> ~launch.parsersBroken
    [] s = "offline" -> ~Offline
    [] s = "resume" -> ManifestHolds /\ NothingUncertain
    [] s = "execution" -> launch.schedulable
    [] OTHER -> TRUE

\* What a stage opens, even when it fails then.
Opens(s) ==
  IF \/ s = "credentials" /\ selected # <<>>
     \/ s \in {"output", "journal", "events"} /\ launch.output
  THEN {s} ELSE {}

\* Preflight visits on_pass and on_fail in an order of its own in every run.
MayPass(s) == IF s = "preflight" THEN \A d \in Range(selected) : Verdicts(d) # Fails ELSE Passes(s)
MayFail(s) ==
  CASE s = "preflight" -> \E d \in Range(selected) : ~Vetted(d)
    [] OTHER -> ~Passes(s) \/ Opens(s) # {}

AtStage == stage \in Range(Stages) \ {"launch"} /\ (stage = "load" => loading # "busy")

Load == stage = "load" /\ LoadStep /\ UNCHANGED <<launch, stage, selected, opened>>

Proceed ==
  /\ AtStage /\ MayPass(stage)
  /\ stage' = StageAfter(stage)
  /\ opened' = opened \cup Opens(stage)
  /\ selected' = IF stage = "select" THEN Selection ELSE selected
  /\ UNCHANGED <<importVars, launch>>

\* os.Exit(1)
Refuse ==
  /\ AtStage /\ MayFail(stage) /\ ~(stage = "offline" /\ ~launch.parsersBroken)
  /\ stage' = "refused" /\ opened' = opened \cup Opens(stage)
  /\ UNCHANGED <<importVars, launch, selected>>

\* --lint and --plan end here, with the parser modules read.
EndOffline ==
  /\ stage = "offline" /\ Offline /\ ~launch.parsersBroken
  /\ stage' = "answered"
  /\ UNCHANGED <<importVars, launch, selected, opened>>

StartupStep == Load \/ Proceed \/ Refuse \/ EndOffline

\* main() by itself, up to the launch of the first device.
StartupSpec == StartupInit /\ [][StartupStep]_startupVars

-----------------------------------------------------------------------------

\* Nothing is looked up or opened before all that could refuse the run on its
\* own has been settled, for every device: the files it is made of, security
\* also of devices that were not selected, selection, reuse of a passcode,
\* variables and a resume; --lint and --plan open nothing at all (main).
SecretsAreEarned ==
  opened # {} =>
    /\ ImportTree /\ ~Offline
    /\ \A s \in {"flags", "inventory", "resolve", "security", "select", "reuse", "resume"} : Passes(s)
    /\ \A d \in Range(selected) : Verdicts(d) # Fails
=============================================================================
