--------------------------- MODULE DeviceOnboarding ---------------------------
(***************************************************************************)
(* How the routing monitors get their sessions: OnboardDevicesFromSpecs,   *)
(* then OnboardDevices, connect one device at a time, and later a          *)
(* ReauthCoordinator connects one of them again.  Every connection takes   *)
(* its passcode from the operator or, for a short time and with consent,   *)
(* from the CredentialCache; a host key that changed is a question of its  *)
(* own.  While the operator thinks, time passes and others may edit        *)
(* known_hosts.                                                            *)
(*                                                                         *)
(* The usernames that prompts offer as a default, and the tables and       *)
(* interfaces that are asked for, are left out.                            *)
(***************************************************************************)
EXTENDS KnownHosts

CONSTANTS
  Names,       \* what files and operators call the devices
  DeviceOf,    \* normalizeHostname: the device, so the artifact, of a name
  Specs,       \* the --devices files: a sequence of names
  Netconf,     \* names for which NETCONF snapshots are asked
  Creds,       \* what an operator may type: usernames with their passcodes
  NoCred,      \* no credential, no key
  Window,      \* --passcode-reuse-window, in clock ticks; 0 disables reuse
  Layouts,     \* what the files may hold at the start
  EditLines,   \* lines others may add to the user's file
  Bounds       \* bounds: how often a run may meet each of [edits, keys, faults, typed, reauths]:
               \*   edits by others, devices that change their key, dials, fetches and
               \*   writes that fail, hosts that are typed, sessions to restart

ASSUME OnboardingAssumption ==
  /\ DeviceOf \in [Names -> Devices] /\ Specs \in Seq(Names) /\ Netconf \subseteq Names
  /\ NoCred \notin Creds \cup Keys /\ Window \in Nat
  /\ \A l \in Layouts : l \in [Range(Files) -> Seq(Lines)]
  /\ EditLines \subseteq Lines
  /\ \A b \in Bounds : b \in [{"edits", "keys", "faults", "typed", "reauths"} -> Nat]

VARIABLES
  pc,        \* where the one goroutine is
  entries,   \* the names it has been given, in order
  at,        \* the entry in hand
  again,     \* it is being connected again
  status,    \* the checklist: "pending", "connected", "failed" or "skipped"
  session,   \* the key behind each entry's session, NoCred without one
  netconf,   \* the entries with a NETCONF session beside
  seen,      \* HostnameRegistry: the names claimed
  cache,     \* CredentialCache: [cred, age], cred = NoCred when empty
  cred,      \* the credentials in hand
  fresh,     \* and whether they were just typed
  err,       \* what came of the last dial: [named]
  mismatch,  \* the mismatch that was put to the operator
  shown,     \* the key fetched for it
  draft,     \* the content ReplaceEntry is about to write
  known,     \* the known_hosts files
  presents,  \* the key each device presents
  eof,       \* the terminal is closed
  left,      \* bounds: what may still happen
  verdict,   \* history: what the devices last said of each credential
  proof,     \* history: the last fresh success: [cred, age]
  trusted,   \* history: keys of devices somebody vouched for
  refused    \* history: the last dial ended at the host key

listVars   == <<entries, at, again, status, session, netconf, seen>>
credVars   == <<cache, cred, fresh, verdict, proof>>
trustVars  == <<err, refused, mismatch, shown, draft, known, trusted>>
worldVars  == <<presents, eof>>
vars == <<pc, listVars, credVars, trustVars, worldVars, left>>

Empty == [cred |-> NoCred, age |-> 0]
Quiet == [named |-> FALSE]

VouchedBy(layout) ==
  {p \in Devices \X Keys :
     \E l \in UNION {Range(layout[f]) : f \in DOMAIN layout} : Binds(l, p[1], p[2]) /\ l.marker = ""}

Init ==
  /\ pc = "next" /\ entries = Specs /\ at = 0 /\ again = FALSE
  /\ status = [i \in DOMAIN Specs |-> "pending"] /\ session = [i \in DOMAIN Specs |-> NoCred]
  /\ netconf = {} /\ seen = {}
  /\ cache = Empty /\ cred = NoCred /\ fresh = FALSE
  /\ err = Quiet /\ refused = FALSE /\ mismatch = <<>> /\ shown = NoCred /\ draft = <<>>
  /\ known \in Layouts /\ presents \in [Devices -> Keys] /\ eof = FALSE
  /\ left \in Bounds
  /\ verdict = [c \in Creds |-> "untried"] /\ proof = Empty
  /\ trusted = VouchedBy(known)

Goto(p) == pc' = p
Step(p, q) == pc = p /\ pc' = q
Spend(what) == left[what] > 0 /\ left' = [left EXCEPT ![what] = @ - 1]

Name   == entries[at]
Device == DeviceOf[Name]

(***************************************************************************)
(* The list of devices.                                                    *)
(***************************************************************************)
Has(name) == \E s \in seen : DeviceOf[s] = DeviceOf[name]

Listed(name) == IF Has(name) THEN "skipped" ELSE "pending"

Take ==
  /\ pc = "next" /\ at < Len(entries)
  /\ at' = at + 1
  /\ status' = [status EXCEPT ![at + 1] = Listed(entries[at + 1])]
  /\ Goto(IF Has(entries[at + 1]) THEN "next" ELSE "resolve")
  /\ UNCHANGED <<entries, again, session, netconf, seen, credVars, trustVars, worldVars, left>>

(* OnboardDevices, after the file: a name, or a blank line and its end.    *)
TypeHost ==
  /\ pc = "next" /\ at = Len(entries) /\ ~eof /\ Spend("typed")
  /\ \E name \in Names :
       /\ entries' = Append(entries, name) /\ at' = at + 1
       /\ status' = Append(status, Listed(name)) /\ session' = Append(session, NoCred)
       /\ Goto(IF Has(name) THEN "next" ELSE "resolve")
  /\ UNCHANGED <<again, netconf, seen, credVars, trustVars, worldVars>>

FinishList ==
  /\ pc = "next" /\ at = Len(entries)
  /\ Goto(IF \E i \in DOMAIN status : status[i] = "connected" THEN "polling" ELSE "over")
  /\ UNCHANGED <<listVars, credVars, trustVars, worldVars, left>>

(* A polled device denies its commands: Reconnect.                         *)
Reauthenticate ==
  /\ pc = "polling" /\ Spend("reauths")
  /\ \E i \in DOMAIN entries : session[i] # NoCred /\ at' = i
  /\ again' = TRUE /\ Goto("resolve")
  /\ UNCHANGED <<entries, status, session, netconf, seen, credVars, trustVars, worldVars>>

(* The device gets no session, or stays without one: it is passed over.    *)
Pass ==
  /\ pc = "failed" /\ Goto(IF again THEN "polling" ELSE "next")
  /\ again' = FALSE
  /\ status' = [status EXCEPT ![at] = IF again THEN @ ELSE "failed"]
  /\ session' = [session EXCEPT ![at] = NoCred]
  /\ cred' = NoCred /\ fresh' = FALSE
  /\ UNCHANGED <<entries, at, netconf, seen, cache, verdict, proof, trustVars, worldVars, left>>

(* Fault: a read error is taken for another try. *)
NoCredentialsRetried ==
  /\ Step("credentials", "resolve") /\ eof
  /\ UNCHANGED <<listVars, credVars, trustVars, worldVars, left>>

(* Fault: an answer that could not be read is taken for a yes. *)
DistrustUnread ==
  /\ Step("confirm", IF eof THEN "update" ELSE "reclassify")
  /\ UNCHANGED <<listVars, credVars, trustVars, worldVars, left>>

(***************************************************************************)
(* ResolveCredentials.                                                     *)
(***************************************************************************)
Valid == cache.cred # NoCred /\ Window > 0 /\ cache.age < Window

RecordFailure == cache' = Empty

(* Fault: a reuse starts the window again. *)
RenewOnReuse ==
  /\ cache' = [cred |-> cred, age |-> 0]
  /\ proof' = IF fresh THEN [cred |-> cred, age |-> 0] ELSE proof

(* Only a passcode that was typed starts a window.                         *)
RecordSuccess ==
  /\ cache' = IF fresh THEN [cred |-> cred, age |-> 0] ELSE cache
  /\ proof' = IF fresh THEN [cred |-> cred, age |-> 0] ELSE proof

Ask ==
  /\ pc = "resolve" /\ Goto(IF Valid THEN "consent" ELSE "credentials")
  /\ UNCHANGED <<listVars, credVars, trustVars, worldVars, left>>

Reuse ==
  /\ Step("consent", "dial") /\ ~eof /\ Valid
  /\ cred' = cache.cred /\ fresh' = FALSE
  /\ UNCHANGED <<listVars, cache, verdict, proof, trustVars, worldVars, left>>

(* No, an empty line, or a yes that came too late.                         *)
TypeAnother ==
  /\ Step("consent", "credentials") /\ ~eof /\ RecordFailure
  /\ UNCHANGED <<listVars, cred, fresh, verdict, proof, trustVars, worldVars, left>>

(* Anything else, or no answer at all.                                     *)
NoConsent ==
  /\ Step("consent", "failed") /\ RecordFailure
  /\ UNCHANGED <<listVars, cred, fresh, verdict, proof, trustVars, worldVars, left>>

TypeCredentials ==
  /\ Step("credentials", "dial") /\ ~eof
  /\ cred' \in Creds /\ fresh' = TRUE
  /\ UNCHANGED <<listVars, cache, verdict, proof, trustVars, worldVars, left>>

NoCredentials ==
  /\ Step("credentials", "failed") /\ eof
  /\ UNCHANGED <<listVars, credVars, trustVars, worldVars, left>>

(* Fault: the driver's error is taken as it comes. *)
RacedAway(named, captured) == [named |-> named]

(***************************************************************************)
(* dialRetryingHostKeyMismatch, and ssh.Client.Connect under it.           *)
(***************************************************************************)
(* recoverRacedChannelDiagnostic: scrapligo may lose the last line of ssh, *)
(* but not the capture of its channel log.                                 *)
Recovered(named, captured) == [named |-> named \/ captured]

KeyRefused ==
  /\ Step("dial", "classify") /\ ~Trusts(known, Device, presents[Device])
  /\ \E raced \in BOOLEAN : err' = Recovered(~raced, TRUE)
  /\ refused' = TRUE
  /\ UNCHANGED <<listVars, credVars, mismatch, shown, draft, known, trusted, worldVars, left>>

(* The credentials are refused, or the connection fails around them.       *)
DialFails ==
  /\ Step("dial", "classify") /\ Spend("faults")
  /\ err' = Recovered(FALSE, FALSE) /\ refused' = FALSE /\ verdict' = [verdict EXCEPT ![cred] = "rejected"]
  /\ UNCHANGED <<listVars, cache, cred, fresh, proof, mismatch, shown, draft, known, trusted, worldVars>>

Connected ==
  /\ pc = "dial" /\ Trusts(known, Device, presents[Device])
  /\ Goto(IF Name \in Netconf /\ ~again THEN "netconf" ELSE "claim")
  /\ RecordSuccess /\ verdict' = [verdict EXCEPT ![cred] = "accepted"]
  /\ session' = [session EXCEPT ![at] = presents[Device]]
  /\ err' = Quiet /\ refused' = FALSE
  /\ UNCHANGED <<entries, at, again, status, netconf, seen, cred, fresh, mismatch, shown, draft, known, trusted, worldVars, left>>

Classify ==
  /\ pc = "classify"
  /\ LET is == IsMismatch(known, Device, err)
     IN  /\ Goto(IF is THEN "replace" ELSE "reclassify")
         /\ mismatch' = IF is THEN Mismatch(known, Device) ELSE mismatch
  /\ UNCHANGED <<listVars, credVars, err, refused, shown, draft, known, trusted, worldVars, left>>

(* Not REPLACE.                                                            *)
LeaveKey ==
  /\ Step("replace", "reclassify")
  /\ UNCHANGED <<listVars, credVars, trustVars, worldVars, left>>

(* REPLACE: FetchPresentedKey asks the device again.                       *)
FetchPresentedKey ==
  /\ Step("replace", "confirm") /\ ~eof
  /\ shown' = presents[Device]
  /\ UNCHANGED <<listVars, credVars, err, refused, mismatch, draft, known, trusted, worldVars, left>>

FetchFails ==
  /\ Step("replace", "reclassify") /\ ~eof /\ Spend("faults")
  /\ UNCHANGED <<listVars, credVars, trustVars, worldVars>>

Confirm ==
  /\ Step("confirm", "update") /\ ~eof
  /\ trusted' = trusted \cup {<<Device, shown>>}
  /\ UNCHANGED <<listVars, credVars, err, refused, mismatch, shown, draft, known, worldVars, left>>

Distrust ==
  /\ Step("confirm", "reclassify")
  /\ UNCHANGED <<listVars, credVars, trustVars, worldVars, left>>

(* ReplaceEntry reads and revalidates, then renames a rewritten file.      *)
Update ==
  /\ pc = "update"
  /\ LET file == known[mismatch.file]
         ok   == Revalidated(file, mismatch)
     IN  /\ Goto(IF ok THEN "rename" ELSE "reclassify")
         /\ draft' = IF ok THEN Rewritten(file, mismatch, shown) ELSE draft
  /\ UNCHANGED <<listVars, credVars, err, refused, mismatch, shown, known, trusted, worldVars, left>>

Rename ==
  /\ Step("rename", "dial")
  /\ known' = [known EXCEPT ![mismatch.file] = draft]
  /\ mismatch' = <<>> /\ shown' = NoCred /\ draft' = <<>>
  /\ UNCHANGED <<listVars, credVars, err, refused, trusted, worldVars, left>>

RenameFails ==
  /\ Step("rename", "reclassify") /\ Spend("faults")
  /\ UNCHANGED <<listVars, credVars, trustVars, worldVars>>

(***************************************************************************)
(* connectWithRetry: what a failure costs.                                 *)
(***************************************************************************)
Reclassify ==
  /\ pc = "reclassify"
  /\ IF IsMismatch(known, Device, err) THEN Goto("failed") /\ UNCHANGED cache
     ELSE Goto("retry") /\ RecordFailure
  /\ mismatch' = <<>> /\ shown' = NoCred /\ draft' = <<>> /\ err' = Quiet /\ refused' = FALSE
  /\ UNCHANGED <<listVars, cred, fresh, verdict, proof, known, trusted, worldVars, left>>

Retry ==
  /\ Step("retry", "resolve") /\ ~eof
  /\ UNCHANGED <<listVars, credVars, trustVars, worldVars, left>>

(* The default, and the answer of a terminal that is closed.               *)
NoRetry ==
  /\ Step("retry", "failed")
  /\ UNCHANGED <<listVars, credVars, trustVars, worldVars, left>>

(* The same passcode at once for NETCONF; without it the device goes on.   *)
DialNetconf ==
  /\ Step("netconf", "claim") /\ netconf' = netconf \cup {at}
  /\ UNCHANGED <<entries, at, again, status, session, seen, credVars, trustVars, worldVars, left>>

DialNetconfFails ==
  /\ Step("netconf", "claim") /\ Spend("faults")
  /\ UNCHANGED <<listVars, credVars, trustVars, worldVars>>

Claim ==
  /\ pc = "claim" /\ Goto(IF again THEN "polling" ELSE "next")
  /\ again' = FALSE
  /\ status' = [status EXCEPT ![at] = "connected"]
  /\ seen' = IF again THEN seen ELSE seen \cup {Name}
  /\ cred' = NoCred /\ fresh' = FALSE
  /\ UNCHANGED <<entries, at, session, netconf, cache, verdict, proof, trustVars, worldVars, left>>

(***************************************************************************)
(* The world around it.                                                    *)
(***************************************************************************)
Older(c) == IF c.cred # NoCred /\ c.age < Window THEN [c EXCEPT !.age = @ + 1] ELSE c

Tick ==
  /\ pc \in {"consent", "credentials", "dial", "replace", "confirm", "retry", "polling"}
  /\ cache' = Older(cache) /\ proof' = Older(proof)
  /\ <<cache, proof>>' # <<cache, proof>>
  /\ UNCHANGED <<pc, listVars, cred, fresh, verdict, trustVars, worldVars, left>>

(* Another program, or the operator in another window, edits the file.     *)
EditKnownHosts ==
  /\ pc \notin {"next", "over"} /\ Spend("edits")
  /\ \/ \E n \in DOMAIN known[Files[1]] : known' = [known EXCEPT ![Files[1]] = RemoveAt(@, n)]
     \/ \E n \in {1, Len(known[Files[1]]) + 1}, l \in EditLines :
          known' = [known EXCEPT ![Files[1]] = InsertAt(@, n, l)]
  /\ trusted' = trusted \cup VouchedBy(known')
  /\ UNCHANGED <<pc, listVars, credVars, err, refused, mismatch, shown, draft, worldVars>>

(* A device is replaced, or somebody is between it and us.                 *)
ChangeKey ==
  /\ pc \in {"resolve", "confirm", "update", "polling"} /\ Spend("keys")
  /\ \E d \in Devices, k \in Keys : k # presents[d] /\ presents' = [presents EXCEPT ![d] = k]
  /\ UNCHANGED <<pc, listVars, credVars, trustVars, eof>>

CloseTerminal ==
  /\ pc # "over" /\ ~eof /\ eof' = TRUE
  /\ UNCHANGED <<pc, listVars, credVars, trustVars, presents, left>>

Stop ==
  /\ Step("polling", "over")
  /\ UNCHANGED <<listVars, credVars, trustVars, worldVars, left>>

Over == pc = "over" /\ UNCHANGED vars

(* What the goroutine does; without a terminal it waits for nobody.        *)
CredentialStep ==
  Ask \/ Reuse \/ TypeAnother \/ NoConsent \/ TypeCredentials \/ NoCredentials \/ Retry \/ NoRetry \/ Reclassify

KeyStep ==
  Classify \/ LeaveKey \/ FetchPresentedKey \/ FetchFails \/ Confirm \/ Distrust \/ Update \/ Rename \/ RenameFails

OnboardStep ==
  \/ Take \/ TypeHost \/ FinishList \/ Pass \/ Claim \/ CredentialStep \/ KeyStep
  \/ KeyRefused \/ DialFails \/ Connected \/ DialNetconf \/ DialNetconfFails

Next ==
  \/ OnboardStep \/ Reauthenticate \/ Stop \/ Over
  \/ Tick \/ EditKnownHosts \/ ChangeKey \/ CloseTerminal

Fairness == WF_vars(eof /\ OnboardStep)

Spec == Init /\ [][Next]_vars /\ Fairness

(***************************************************************************)
(* What is expected of it.                                                 *)
(***************************************************************************)
(* A passcode is used again only within the window that began when it was  *)
(* typed and accepted, and while nothing has rejected it since: neither a  *)
(* reuse nor a long thought at the question stretches the window.          *)
(* (ResolveCredentials, RecordSuccess, RecordFailure)                      *)
ReuseIsTimely ==
  [][pc = "consent" /\ pc' = "dial" =>
       proof.cred = cred' /\ proof.age < Window /\ verdict[cred'] = "accepted"]_vars

(* A connection that ended at the host key says nothing of the passcode:   *)
(* it is not forgotten for it, whatever scrapligo lost of the message, so  *)
(* long as some file claims the host. (connectWithRetry)                   *)
MismatchSparesCredentials ==
  [][pc = "reclassify" /\ refused /\ Matched(known, Device) # {} => cache' = cache]_vars

(* A refresh removes no line but those of this host alone whose keys the   *)
(* operator was shown, however the file was edited while they were asked.  *)
(* (ReplaceEntry)                                                          *)
RefreshKeepsOthers ==
  [][pc = "update" /\ pc' = "rename" =>
       \A l \in Range(known[mismatch.file]) :
         \/ l \in Range(draft')
         \/ l.hosts = {Device} /\ l.key \in Range(mismatch.stale)]_vars

(* Every session is with a key that known_hosts had, that somebody else    *)
(* put there, or that the operator saw and confirmed.                      *)
(* (PromptHostKeyMismatch)                                                 *)
SessionsAreTrusted ==
  \A i \in DOMAIN session : session[i] # NoCred => <<DeviceOf[entries[i]], session[i]>> \in trusted

(* When the terminal is closed no question is asked for ever: onboarding   *)
(* ends with the sessions it has. (OnboardDevices, promptRetryConnection)  *)
ClosedTerminalEnds == eof ~> pc \in {"polling", "over"}
===============================================================================
