--------------------------- MODULE DeviceSelection ---------------------------
(***************************************************************************)
(* Which devices a run is about: playbook entries are resolved against the *)
(* inventory (inventory_parsers.go), checked against the security mode     *)
(* (security_policy.go, config_loader.go) and filtered by the selectors of *)
(* --limit and --exclude (pkg/orchestrator/selector.go) and by the failed  *)
(* devices of an earlier run (selector.go).                                *)
(*                                                                         *)
(* A selector that the parser compiles to a closure is here the set of     *)
(* devices the closure holds for, among the devices it is asked about.     *)
(* Text is trimmed and lower case already; "" is an absent value.          *)
(***************************************************************************)
EXTENDS Integers, Sequences, FiniteSets, FiniteSetsExt, SequencesExt

\* A text is compiled to the devices of a set that the selector holds for and
\* the position where its parsing ended, 0 when it is refused; see Selectors.
CONSTANT CompileSelector(_, _)

\* An absent value yields to the other one.
Or(value, fallback) == IF value = "" THEN fallback ELSE value

-----------------------------------------------------------------------------
(* The inventory: hosts, a sequence, and groups, from names to sequences   *)
(* of host names.                                                          *)

\* inventoryIndex
Indexable(inventory) ==
  /\ \A i \in DOMAIN inventory.hosts :
       LET host == inventory.hosts[i] IN host.name # "" /\ host.ip # "" /\ host.varsValid
  /\ \A i, j \in DOMAIN inventory.hosts :
       i # j => inventory.hosts[i].name # inventory.hosts[j].name

Named(inventory, name) == {host \in Range(inventory.hosts) : host.name = name}

\* inventoryTargets, inventoryGroupNames: the hosts first, then every group's.
Targets(entry, inventory) ==
  entry.hosts \o FlattenSeq([i \in DOMAIN entry.groups |-> inventory.groups[entry.groups[i]]])

\* applyInventoryHost: what the playbook says of a device goes before what
\* the inventory says of its host; labels are joined, the playbook's on top.
ApplyInventoryHost(entry, host) ==
  [entry EXCEPT
     !.hostname = Or(@, host.name), !.ip = Or(@, host.ip), !.type = Or(@, host.type),
     !.security = IF @ = {} THEN host.security ELSE @,
     !.gnmi = IF @ = {} THEN host.gnmi ELSE @,
     !.labels = @ @@ host.labels, !.vars = host.vars,
     !.hosts = <<>>, !.groups = <<>>]

Resolvable(entry, inventory) ==
  /\ Range(entry.groups) \subseteq DOMAIN inventory.groups
  /\ \A t \in Range(Targets(entry, inventory)) : Named(inventory, t) # {}

ResolveEntry(entry, inventory) ==
  LET targets == Targets(entry, inventory)
      host(t) == CHOOSE h \in Named(inventory, t) : TRUE
  IN IF targets = <<>> THEN <<entry>>
     ELSE [i \in DOMAIN targets |-> ApplyInventoryHost(entry, host(targets[i]))]

\* resolveInventoryDevices
ResolveInventoryDevices(entries, inventory) ==
  FlattenSeq([i \in DOMAIN entries |-> ResolveEntry(entries[i], inventory)])

-----------------------------------------------------------------------------
(* Security.  ssh_security of a device is a set of at most one record with *)
(* profile, policy and knownHosts, gnmi one of sets of relaxations.        *)

EffectiveSSHSecurity(global, security) ==
  IF security = {} THEN global
  ELSE LET own == CHOOSE s \in security : TRUE
       IN [f \in DOMAIN global |-> Or(own[f], global[f])]

ValidSSHSecurity(s) ==
  /\ s.profile \in {"", "compatibility", "auto", "modern", "legacy"}
  /\ s.policy \in {"", "insecure", "known_hosts", "pinned"}
  /\ s.policy = "pinned" => s.knownHosts # ""

\* What production security refuses, on top of ValidSSHSecurity.
ProductionGrade(security, gnmi) ==
  /\ security.profile \in {"", "modern"} /\ security.policy # "insecure"
  /\ UNION gnmi \cap {"insecure", "skip_verify"} = {}

\* validateSecurityPolicy, the part on connections.
SecureDevice(device, global, mode) ==
  LET security == EffectiveSSHSecurity(global, device.security) IN
  ValidSSHSecurity(security) /\ (mode = "production" => ProductionGrade(security, device.gnmi))

SecurityMode(mode) == Or(mode, "production")

\* validateRSATokenReuse: how many devices may share one passcode.
MaxRSATokenReuseDevices == 25
ReuseAllowed(rsaToken, configured, selected) ==
  IF ~rsaToken THEN configured = 0
  ELSE LET most == IF configured = 0 THEN 1 ELSE configured
       IN configured >= 0 /\ most <= MaxRSATokenReuseDevices /\ selected <= most

-----------------------------------------------------------------------------
(* Selection.                                                              *)

\* targetValue: the value of a key, {} when the device has none.
TargetValue(device, key) ==
  CASE key \in {"name", "hostname"}   -> {device.hostname} \ {""}
    [] key \in {"ip", "address"}      -> {device.ip} \ {""}
    [] key \in {"type", "platform"}   -> {device.type} \ {""}
    [] OTHER -> {device.labels[l] : l \in DOMAIN device.labels \cap {key}}

Compiles(tokens) == tokens = <<>> \/ CompileSelector(tokens, {}).at # 0

\* filterDevices; an empty --limit or --exclude, and no replay, do not filter.
\* replay is a set with at most one set of host names and addresses.
FilterDevices(devices, limit, exclude, replay) ==
  LET all == Range(devices)
      chosen(d) ==
        /\ limit # <<>> => d \in CompileSelector(limit, all).holds
        /\ exclude # <<>> => d \notin CompileSelector(exclude, all).holds
        /\ \A failed \in replay : d.hostname \in failed \/ d.ip \in failed
  IN SelectSeq(devices, chosen)

\* loadFailedDevices: the devices of a summary that failed; summaries that
\* list no device are searched for validations that were not recovered.
FailedDevices(summary) ==
  LET failed == IF summary.devices # <<>>
                THEN {d \in Range(summary.devices) : d.failed}
                ELSE {v \in Range(summary.validations) : ~v.recovered /\ v.status \in {"fail", "error"}}
  IN UNION {{d.hostname, d.ip} : d \in failed} \ {""}
=============================================================================
