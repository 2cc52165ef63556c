------------------------------ MODULE KnownHosts ------------------------------
(***************************************************************************)
(* pkg/drivers/hostkey: which lines of the known_hosts files bind a host,  *)
(* whether a failed connection is a mismatch, and how a stale entry is     *)
(* replaced by the key the operator confirmed.                             *)
(*                                                                         *)
(* A line is [hosts, pattern, marker, key]; the comments, the blank and    *)
(* the malformed lines are lines that name no host.  A hashed line is a    *)
(* plain line that names one.                                              *)
(***************************************************************************)
EXTENDS Integers, FiniteSets, Sequences, SequencesExt, Functions

CONSTANTS
  Devices,  \* hosts
  Keys,     \* public keys
  Files     \* the known_hosts files, in the order ssh consults them: the user's, then the global ones

ASSUME KnownHostsAssumption ==
  /\ Files \in Seq(Range(Files)) /\ Files # <<>> /\ IsInjective(Files)
  /\ IsFiniteSet(Devices)

Markers == {"", "cert-authority", "revoked"}

Lines == [hosts: SUBSET Devices, pattern: BOOLEAN, marker: Markers, key: Keys]

Plain(host, key) == [hosts |-> {host}, pattern |-> FALSE, marker |-> "", key |-> key]

(* lineBindsHostToKey: the line, alone in a file, accepts key for host.    *)
(* The matcher makes no difference for an authority's line.                *)
Binds(line, host, key) == host \in line.hosts /\ line.key = key /\ line.marker # "revoked"

(* The lines of a file bound to host, whatever their keys: line |-> key.   *)
Bound(file, host) ==
  [i \in {j \in DOMAIN file : Binds(file[j], host, file[j].key)} |-> file[i].key]

(* ssh itself: a plain line of any file has the key, and none revokes it.  *)
Trusts(known, host, key) ==
  LET lines == UNION {Range(known[f]) : f \in Range(Files)}
  IN  /\ \E l \in lines : Binds(l, host, key) /\ l.marker = ""
      /\ ~\E l \in lines : host \in l.hosts /\ l.key = key /\ l.marker = "revoked"

(* An error of a connection; named is what recoverRacedChannelDiagnostic   *)
(* leaves in its text: "host key verification failed".                     *)
LooksLikeHostKey(err) == err.named

Matched(known, host) == {i \in DOMAIN Files : DOMAIN Bound(known[Files[i]], host) # {}}

(* ClassifyConnectError is a mismatch iff the text says so and some file,  *)
(* as it is now, binds the host.                                           *)
IsMismatch(known, host, err) == LooksLikeHostKey(err) /\ Matched(known, host) # {}

Mismatch(known, host) ==
  LET file == Files[CHOOSE i \in Matched(known, host) : \A j \in Matched(known, host) : i <= j]
  IN  [host |-> host, file |-> file, stale |-> Bound(known[file], host)]

(* ReplaceEntry looks at every stale line again before it touches any: it  *)
(* must still be a plain entry of this host alone, with the key it had.    *)
StillStale(file, m, n) ==
  /\ n \in DOMAIN file
  /\ file[n].marker = ""
  /\ Cardinality(file[n].hosts) = 1
  /\ ~file[n].pattern
  /\ Binds(file[n], m.host, m.stale[n])

(* Fault: the lines are deleted by the numbers they had at the failure. *)
NotRevalidated(file, m) == \A n \in DOMAIN m.stale : n \in DOMAIN file

Revalidated(file, m) == \A n \in DOMAIN m.stale : StillStale(file, m, n)

(* The rewritten file: the stale lines are gone, the new entry is last.    *)
Rewritten(file, m, key) ==
  LET kept   == DOMAIN file \ DOMAIN m.stale
      Nth(k) == CHOOSE n \in kept : Cardinality({j \in kept : j <= n}) = k
  IN  Append([k \in 1..Cardinality(kept) |-> file[Nth(k)]], Plain(m.host, key))
===============================================================================
