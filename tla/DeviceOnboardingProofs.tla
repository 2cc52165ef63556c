------------------------ MODULE DeviceOnboardingProofs ------------------------
(***************************************************************************)
(* How the routing monitors come by their sessions, for every set of       *)
(* devices, keys and files, any window and any interference: what may be   *)
(* believed of a session's key, of a passcode that is used again, and of a *)
(* known_hosts file that was rewritten.                                    *)
(***************************************************************************)
EXTENDS DeviceOnboarding, FiniteSetTheorems, SequenceTheorems, TLAPS

(***************************************************************************)
(* Numbers and their ranks.                                                *)
(***************************************************************************)
LEMMA LeastNumber ==
  ASSUME NEW S \in SUBSET Nat, S # {}
  PROVE  \E m \in S : \A n \in S : m <= n
  <1>1. PICK m \in S : \A n \in S : ~(<<n, m>> \in OpToRel(<, Nat))
    BY NatLessThanWellFounded, WFMin
  <1>2. \A n \in S : n \in Nat /\ m \in Nat /\ ~(n < m)
    BY <1>1 DEF OpToRel
  <1> QED
    BY <1>2

Rank(K, n) == Cardinality({j \in K : j <= n})

(* Every number from 1 to the size of a set is the rank of one element.    *)
LEMMA RanksCount ==
  ASSUME NEW n \in Nat, NEW K \in SUBSET (1..n)
  PROVE  /\ IsFiniteSet(K) /\ Cardinality(K) \in Nat
         /\ \A i \in K : Rank(K, i) \in 1..Cardinality(K)
         /\ \A i, j \in K : Rank(K, i) = Rank(K, j) => i = j
         /\ \A k \in 1..Cardinality(K) : \E i \in K : Rank(K, i) = k
  <1> DEFINE UpTo(i) == {j \in K : j <= i}
             C == Cardinality(K)
             rank == [i \in K |-> Rank(K, i)]
  <1>1. IsFiniteSet(K) /\ C \in Nat
    <2>1. IsFiniteSet(1..n)
      BY FS_Interval
    <2> QED
      BY <2>1, FS_Subset, FS_CardinalityType
  <1>2. \A i \in K : IsFiniteSet(UpTo(i)) /\ Cardinality(UpTo(i)) \in Nat /\ Cardinality(UpTo(i)) <= C
    BY <1>1, FS_Subset, FS_CardinalityType
  <1>3. ASSUME NEW i \in K, NEW j \in K, i < j
        PROVE  Cardinality(UpTo(i)) < Cardinality(UpTo(j))
    <2>1. UpTo(i) \subseteq UpTo(j) /\ j \in UpTo(j) /\ j \notin UpTo(i)
      <3>1. \A a \in K : a \in Nat
        OBVIOUS
      <3>2. i \in Nat /\ j \in Nat /\ i < j
        BY <1>3, <3>1
      <3>3. \A a \in K : a <= i => a <= j
        BY <3>1, <3>2
      <3>4. j <= j /\ ~(j <= i)
        BY <3>2
      <3> QED
        BY <3>3, <3>4
    <2>2. Cardinality(UpTo(i)) <= Cardinality(UpTo(j)) /\ Cardinality(UpTo(i)) # Cardinality(UpTo(j))
      BY <1>2, <2>1, FS_Subset
    <2> QED
      BY <1>2, <2>2
  <1>4. ASSUME NEW i \in K PROVE Cardinality(UpTo(i)) >= 1
    <2>1. UpTo(i) # {}
      OBVIOUS
    <2> QED
      BY <1>2, <2>1, FS_EmptySet
  <1>5. \A i \in K : Rank(K, i) \in 1..C
    BY <1>1, <1>2, <1>4 DEF Rank
  <1>6. \A i, j \in K : Rank(K, i) = Rank(K, j) => i = j
    <2>1. \A i, j \in K : i < j \/ j < i \/ i = j
      OBVIOUS
    <2> QED
      BY <1>2, <1>3, <2>1 DEF Rank
  <1>7. rank \in Injection(K, 1..C)
    BY <1>5, <1>6 DEF Injection, IsInjective
  <1>8. IsFiniteSet(1..C) /\ Cardinality(1..C) = C
    BY <1>1, FS_Interval
  <1>9. rank \in Surjection(K, 1..C)
    BY <1>7, <1>8, FS_Injection
  <1> QED
    BY <1>1, <1>5, <1>6, <1>9 DEF Surjection

(***************************************************************************)
(* known_hosts.                                                            *)
(***************************************************************************)
LEMMA LineRange ==
  ASSUME NEW file \in Seq(Lines)
  PROVE  /\ DOMAIN file = 1..Len(file) /\ Len(file) \in Nat
         /\ \A n \in DOMAIN file : file[n] \in Lines /\ file[n] \in Range(file)
         /\ Range(file) \subseteq Lines
         /\ \A l \in Range(file) : \E n \in DOMAIN file : l = file[n]
  <1>1. DOMAIN file = 1..Len(file) /\ Len(file) \in Nat
    BY LenProperties
  <1>2. \A n \in DOMAIN file : file[n] \in Lines
    BY <1>1, ElementOfSeq
  <1> QED
    BY <1>1, <1>2 DEF Range

LEMMA PlainIsLine ==
  ASSUME NEW host \in Devices, NEW key \in Keys
  PROVE  Plain(host, key) \in Lines
  BY DEF Plain, Lines, Markers

(* A file that claims the host is the one that is put to the operator.     *)
LEMMA MismatchIsOfAFile ==
  ASSUME NEW files, NEW host, Matched(files, host) # {}
  PROVE  /\ Mismatch(files, host).host = host
         /\ Mismatch(files, host).file \in Range(Files)
  <1> DEFINE first == CHOOSE i \in Matched(files, host) : \A j \in Matched(files, host) : i <= j
  <1>1. DOMAIN Files = 1..Len(Files) /\ Len(Files) \in Nat
    BY KnownHostsAssumption, LenProperties
  <1>2. Matched(files, host) \subseteq DOMAIN Files /\ Matched(files, host) \in SUBSET Nat
    BY <1>1 DEF Matched
  <1>3. \E m \in Matched(files, host) : \A n \in Matched(files, host) : m <= n
    BY <1>2, LeastNumber
  <1>4. first \in Matched(files, host)
    BY <1>3
  <1> QED
    BY <1>2, <1>4 DEF Mismatch, Range

(* What ReplaceEntry writes: the new entry, and of the old lines exactly   *)
(* those that are not stale.                                               *)
LEMMA RewrittenFile ==
  ASSUME NEW file \in Seq(Lines), NEW m, NEW key \in Keys, m.host \in Devices
  PROVE  /\ Rewritten(file, m, key) \in Seq(Lines)
         /\ \A n \in DOMAIN file \ DOMAIN m.stale : file[n] \in Range(Rewritten(file, m, key))
         /\ \A l \in Range(Rewritten(file, m, key)) : l = Plain(m.host, key) \/ l \in Range(file)
  <1> DEFINE kept == DOMAIN file \ DOMAIN m.stale
             C == Cardinality(kept)
             Nth(k) == CHOOSE n \in kept : Rank(kept, n) = k
             lines == [k \in 1..C |-> file[Nth(k)]]
             new == Plain(m.host, key)
  <1>1. kept \in SUBSET (1..Len(file)) /\ Len(file) \in Nat
    BY LineRange
  <1>2. /\ C \in Nat
        /\ \A n \in kept : Rank(kept, n) \in 1..C
        /\ \A i, j \in kept : Rank(kept, i) = Rank(kept, j) => i = j
        /\ \A k \in 1..C : \E n \in kept : Rank(kept, n) = k
    <2> HIDE DEF kept
    <2> QED
      BY <1>1, RanksCount
  <1>3. Rewritten(file, m, key) = Append(lines, new)
    BY DEF Rewritten, Rank
  <1> HIDE DEF kept, C
  <1>4. \A k \in 1..C : Nth(k) \in kept /\ Rank(kept, Nth(k)) = k
    BY <1>2
  <1>5. \A k \in 1..C : lines[k] \in Lines /\ lines[k] \in Range(file)
    BY <1>4, LineRange DEF kept
  <1>6. lines \in Seq(Lines) /\ Len(lines) = C /\ new \in Lines
    <2>1. new \in Lines
      BY PlainIsLine
    <2>2. lines \in [1..C -> Lines]
      <3> HIDE DEF Nth
      <3> QED
        BY <1>5
    <2> HIDE DEF lines
    <2> QED
      BY <1>2, <2>1, <2>2
  <1> DEFINE whole == Append(lines, new)
  <1>7. /\ whole \in Seq(Lines) /\ DOMAIN whole = 1..(C + 1)
        /\ \A k \in 1..C : whole[k] = lines[k]
        /\ whole[C + 1] = new
    <2> HIDE DEF lines, new
    <2> QED
      BY <1>2, <1>6, AppendProperties, LenProperties
  <1>8. ASSUME NEW n \in kept PROVE file[n] \in Range(whole)
    <2>1. Rank(kept, n) \in 1..C /\ Nth(Rank(kept, n)) = n
      BY <1>2, <1>4
    <2>2. Rank(kept, n) \in DOMAIN whole /\ whole[Rank(kept, n)] = file[n]
      BY <1>2, <1>7, <2>1
    <2> HIDE DEF whole
    <2> QED
      BY <2>2 DEF Range
  <1>9. ASSUME NEW l \in Range(whole) PROVE l = new \/ l \in Range(file)
    <2> HIDE DEF whole, lines, new
    <2>1. PICK k \in 1..(C + 1) : l = whole[k]
      BY <1>7 DEF Range
    <2>2. k \in 1..C \/ k = C + 1
      BY <1>2, <2>1
    <2> QED
      BY <1>5, <1>7, <2>1, <2>2
  <1> HIDE DEF whole, new
  <1> QED
    BY <1>3, <1>7, <1>8, <1>9 DEF kept, new, whole

(* A stale line that is still what it was is of this host alone.           *)
LEMMA StaleIsOurs ==
  ASSUME NEW file \in Seq(Lines), NEW m, NEW n, StillStale(file, m, n), m.host \in Devices
  PROVE  file[n].hosts = {m.host} /\ file[n].key = m.stale[n]
  <1>1. file[n] \in Lines /\ m.host \in file[n].hosts /\ file[n].key = m.stale[n]
    BY LineRange DEF StillStale, Binds
  <1>2. IsFiniteSet(file[n].hosts) /\ Cardinality(file[n].hosts) = 1
    BY <1>1, KnownHostsAssumption, FS_Subset DEF Lines, StillStale
  <1> QED
    BY <1>1, <1>2, FS_Singleton

(***************************************************************************)
(* The invariant.                                                          *)
(***************************************************************************)
Places ==
  {"next", "resolve", "consent", "credentials", "dial", "classify", "replace", "confirm", "update",
   "rename", "reclassify", "retry", "failed", "netconf", "claim", "polling", "over"}

Stamped == [cred : Creds \cup {NoCred}, age : Nat]

ListTypes ==
  /\ pc \in Places
  /\ entries \in Seq(Names) /\ at \in 0..Len(entries) /\ again \in BOOLEAN
  /\ status \in Seq({"pending", "connected", "failed", "skipped"}) /\ Len(status) = Len(entries)
  /\ session \in Seq(Keys \cup {NoCred}) /\ Len(session) = Len(entries)
  /\ netconf \subseteq Nat /\ seen \subseteq Names

CredTypes ==
  /\ cache \in Stamped /\ proof \in Stamped
  /\ cred \in Creds \cup {NoCred} /\ fresh \in BOOLEAN
  /\ verdict \in [Creds -> {"untried", "accepted", "rejected"}]

TrustTypes ==
  /\ err \in [named : BOOLEAN] /\ refused \in BOOLEAN
  /\ shown \in Keys \cup {NoCred} /\ draft \in Seq(Lines)
  /\ known \in [Range(Files) -> Seq(Lines)]
  /\ trusted \subseteq Devices \X Keys

WorldTypes ==
  /\ presents \in [Devices -> Keys] /\ eof \in BOOLEAN
  /\ left \in [{"edits", "keys", "faults", "typed", "reauths"} -> Nat]

TypeOK == ListTypes /\ CredTypes /\ TrustTypes /\ WorldTypes

Asking == {"replace", "confirm", "update", "rename"}
Dialled == {"dial", "classify", "reclassify"} \cup Asking

(* Whoever is past the list has an entry, past the prompt a passcode, and  *)
(* past a mismatch the file and the key that the question is about.        *)
InHand ==
  /\ pc \notin {"next", "polling", "over"} => at # 0
  /\ pc \in Dialled => cred \in Creds
  /\ pc \in Asking => mismatch.host = Device /\ mismatch.file \in Range(Files)
  /\ pc \in {"confirm", "update", "rename"} => shown \in Keys

(* Somebody answers for each of the hosts of a line.                       *)
Vouched(l) == l.marker = "" => \A d \in l.hosts : <<d, l.key>> \in trusted

TrustInv ==
  /\ \A f \in Range(Files) : \A l \in Range(known[f]) : Vouched(l)
  /\ pc \in {"update", "rename"} => <<Device, shown>> \in trusted
  /\ pc = "rename" => \A l \in Range(draft) : Vouched(l)
  /\ SessionsAreTrusted

(* What is cached is what was proved fresh, and nothing has rejected it    *)
(* that is not about to be forgotten.                                      *)
PasscodeInv ==
  /\ refused => err.named
  /\ cache.cred # NoCred =>
       /\ cache = proof
       /\ verdict[cache.cred] = "accepted" \/ (pc \in {"classify", "reclassify"} /\ ~err.named)

IInv == TypeOK /\ InHand /\ TrustInv /\ PasscodeInv

(***************************************************************************)
(* Types.                                                                  *)
(***************************************************************************)
LEMMA NameInHand ==
  ASSUME TypeOK, InHand, pc \notin {"next", "polling", "over"}
  PROVE  /\ at \in 1..Len(entries) /\ at \in DOMAIN entries
         /\ at \in DOMAIN session /\ at \in DOMAIN status
         /\ Name \in Names /\ Device \in Devices
  <1>1. at \in 1..Len(entries)
    BY LenProperties DEF TypeOK, ListTypes, InHand
  <1>2. entries[at] \in Names
    BY <1>1, ElementOfSeq DEF TypeOK, ListTypes
  <1>3. DeviceOf[entries[at]] \in Devices
    BY <1>2, OnboardingAssumption
  <1> QED
    BY <1>1, <1>2, <1>3, LenProperties DEF TypeOK, ListTypes, Name, Device

LEMMA MarkedList ==
  ASSUME NEW S, NEW s \in Seq(S), NEW n \in 1..Len(s), NEW e \in S
  PROVE  [s EXCEPT ![n] = e] \in Seq(S) /\ Len([s EXCEPT ![n] = e]) = Len(s)
  BY ExceptSeq

LEMMA ListTypesKept ==
  ASSUME TypeOK, InHand, [Next]_vars
  PROVE  ListTypes'
  <1> USE DEF Step, Goto
  <1> DEFINE Statuses == {"pending", "connected", "failed", "skipped"}
             Sessions == Keys \cup {NoCred}
  <1>0. /\ ListTypes
        /\ Len(entries) \in Nat
    BY LenProperties DEF TypeOK, ListTypes
  <1>a. pc \notin {"next", "polling", "over"} =>
          at \in 1..Len(status) /\ at \in 1..Len(session) /\ Name \in Names
    BY <1>0, NameInHand DEF ListTypes
  <1>1. CASE Take
    <2>1. at + 1 \in 1..Len(status) /\ at' = at + 1 /\ at + 1 \in 0..Len(entries)
      BY <1>0, <1>1 DEF Take, ListTypes
    <2>2. \A name \in {entries[at + 1]} : Listed(name) \in Statuses
      BY DEF Listed
    <2>3. status' \in Seq(Statuses) /\ Len(status') = Len(status)
      <3>1. status' = [status EXCEPT ![at + 1] = Listed(entries[at + 1])]
        BY <1>1 DEF Take
      <3> QED
        BY <1>0, <2>1, <2>2, <3>1, MarkedList DEF ListTypes
    <2> QED
      BY <1>0, <1>1, <2>1, <2>3 DEF Take, ListTypes, Places
  <1>2. CASE TypeHost
    <2>1. PICK name \in Names :
            /\ entries' = Append(entries, name) /\ at' = at + 1
            /\ status' = Append(status, Listed(name)) /\ session' = Append(session, NoCred)
            /\ pc' \in {"next", "resolve"}
      BY <1>2 DEF TypeHost
    <2>2. Listed(name) \in Statuses /\ NoCred \in Sessions
      BY DEF Listed
    <2>3. entries' \in Seq(Names) /\ Len(entries') = Len(entries) + 1
      BY <1>0, <2>1, AppendProperties DEF ListTypes
    <2>4. status' \in Seq(Statuses) /\ Len(status') = Len(status) + 1
      BY <1>0, <2>1, <2>2, AppendProperties DEF ListTypes
    <2>5. session' \in Seq(Sessions) /\ Len(session') = Len(session) + 1
      BY <1>0, <2>1, <2>2, AppendProperties DEF ListTypes
    <2>6. UNCHANGED <<again, netconf, seen>> /\ at = Len(entries)
      BY <1>2 DEF TypeHost
    <2> QED
      BY <1>0, <2>1, <2>3, <2>4, <2>5, <2>6 DEF ListTypes, Places
  <1>3. CASE Pass
    <2>1. status' = [status EXCEPT ![at] = IF again THEN status[at] ELSE "failed"]
          /\ session' = [session EXCEPT ![at] = NoCred]
      BY <1>3 DEF Pass
    <2>2. at \in 1..Len(status) /\ at \in 1..Len(session)
      BY <1>3, <1>a DEF Pass
    <2>3. (IF again THEN status[at] ELSE "failed") \in Statuses
      BY <1>0, <2>2, ElementOfSeq DEF ListTypes
    <2>4. status' \in Seq(Statuses) /\ Len(status') = Len(status)
      BY <1>0, <2>1, <2>2, <2>3, MarkedList DEF ListTypes
    <2>5. session' \in Seq(Sessions) /\ Len(session') = Len(session)
      BY <1>0, <2>1, <2>2, MarkedList DEF ListTypes
    <2> QED
      BY <1>0, <1>3, <2>4, <2>5 DEF Pass, ListTypes, Places
  <1>4. CASE Connected
    <2>1. at \in 1..Len(session) /\ Device \in Devices
      BY <1>4, <1>a, NameInHand DEF Connected
    <2>2. presents[Device] \in Sessions /\ session' = [session EXCEPT ![at] = presents[Device]]
      BY <1>4, <2>1 DEF Connected, TypeOK, WorldTypes
    <2>3. session' \in Seq(Sessions) /\ Len(session') = Len(session)
      BY <1>0, <2>1, <2>2, MarkedList DEF ListTypes
    <2> QED
      BY <1>0, <1>4, <2>3 DEF Connected, ListTypes, Places
  <1>5. CASE Claim
    <2>1. at \in 1..Len(status) /\ Name \in Names /\ status' = [status EXCEPT ![at] = "connected"]
      BY <1>5, <1>a DEF Claim
    <2>2. status' \in Seq(Statuses) /\ Len(status') = Len(status)
      BY <1>0, <2>1, MarkedList DEF ListTypes
    <2> QED
      BY <1>0, <1>5, <2>1, <2>2 DEF Claim, ListTypes, Places
  <1>6. CASE Reauthenticate
    <2>1. at' \in DOMAIN entries /\ DOMAIN entries = 1..Len(entries)
      BY <1>0, <1>6, LenProperties DEF Reauthenticate, ListTypes
    <2> QED
      BY <1>0, <1>6, <2>1 DEF Reauthenticate, ListTypes, Places
  <1>7. CASE DialNetconf
    BY <1>0, <1>7, <1>a DEF DialNetconf, ListTypes, Places
  <1>8. CASE UNCHANGED listVars /\ (pc' \in Places)
    BY <1>0, <1>8 DEF ListTypes, listVars
  <1>9. CASE FinishList \/ CredentialStep \/ KeyStep \/ KeyRefused \/ DialFails \/ DialNetconfFails
    BY <1>0, <1>8, <1>9 DEF FinishList, CredentialStep, KeyStep, KeyRefused, DialFails,
       DialNetconfFails, Ask, Reuse, TypeAnother, NoConsent, TypeCredentials, NoCredentials, Retry,
       NoRetry, Reclassify, Classify, LeaveKey, FetchPresentedKey, FetchFails, Confirm, Distrust,
       Update, Rename, RenameFails, Places
  <1>10. CASE \/ Stop \/ Over \/ Tick \/ EditKnownHosts \/ ChangeKey \/ CloseTerminal
              \/ UNCHANGED vars
    BY <1>0, <1>8, <1>10 DEF Stop, Over, Tick, EditKnownHosts, ChangeKey, CloseTerminal, vars, Places,
       ListTypes
  <1> QED
    BY <1>1, <1>2, <1>3, <1>4, <1>5, <1>6, <1>7, <1>9, <1>10 DEF Next, OnboardStep

LEMMA CredTypesKept ==
  ASSUME TypeOK, InHand, [Next]_vars
  PROVE  CredTypes'
  <1> USE DEF Step, Goto
  <1>0. CredTypes /\ Empty \in Stamped /\ \A c \in Stamped : Older(c) \in Stamped
    BY DEF TypeOK, CredTypes, Stamped, Empty, Older
  <1>1. CASE Connected
    <2>1. cred \in Creds
      BY <1>1 DEF Connected, InHand, Dialled
    <2>2. [cred |-> cred, age |-> 0] \in Stamped
      BY <2>1 DEF Stamped
    <2> QED
      BY <1>0, <1>1, <2>1, <2>2 DEF Connected, RecordSuccess, CredTypes
  <1>2. CASE DialFails
    <2>1. cred \in Creds
      BY <1>2 DEF DialFails, InHand, Dialled
    <2> QED
      BY <1>0, <1>2, <2>1 DEF DialFails, CredTypes
  <1>3. CASE Tick
    BY <1>0, <1>3 DEF Tick, CredTypes
  <1>4. CASE CredentialStep
    BY <1>0, <1>4 DEF CredentialStep, Ask, Reuse, TypeAnother, NoConsent, TypeCredentials,
       NoCredentials, Retry, NoRetry, Reclassify, RecordFailure, CredTypes, credVars, Stamped
  <1>5. CASE Pass \/ Claim
    BY <1>0, <1>5 DEF Pass, Claim, CredTypes
  <1>6. CASE UNCHANGED credVars
    BY <1>0, <1>6 DEF credVars, CredTypes
  <1>7. CASE KeyStep \/ KeyRefused \/ DialNetconf \/ DialNetconfFails
    BY <1>6, <1>7 DEF KeyStep, KeyRefused, DialNetconf, DialNetconfFails, Classify, LeaveKey,
       FetchPresentedKey, FetchFails, Confirm, Distrust, Update, Rename, RenameFails
  <1> QED
    BY <1>1, <1>2, <1>3, <1>4, <1>5, <1>6, <1>7 DEF Next, OnboardStep, Take, TypeHost, FinishList,
       Reauthenticate, Stop, Over, EditKnownHosts, ChangeKey, CloseTerminal, vars

LEMMA EditedFile ==
  ASSUME NEW file \in Seq(Lines)
  PROVE  /\ \A n \in DOMAIN file : RemoveAt(file, n) \in Seq(Lines)
         /\ \A n \in 1..(Len(file) + 1) : \A l \in Lines : InsertAt(file, n, l) \in Seq(Lines)
  <1>1. Len(file) \in Nat /\ DOMAIN file = 1..Len(file)
    BY LenProperties
  <1>2. \A m \in 1..(Len(file) + 1), n \in 0..Len(file) : SubSeq(file, m, n) \in Seq(Lines)
    BY <1>1, SubSeqProperties
  <1>3. ASSUME NEW n \in DOMAIN file PROVE RemoveAt(file, n) \in Seq(Lines)
    <2>1. 1 \in 1..(Len(file) + 1) /\ n - 1 \in 0..Len(file) /\ n + 1 \in 1..(Len(file) + 1)
          /\ Len(file) \in 0..Len(file)
      BY <1>1
    <2>2. SubSeq(file, 1, n - 1) \in Seq(Lines) /\ SubSeq(file, n + 1, Len(file)) \in Seq(Lines)
      BY <1>2, <2>1
    <2> QED
      BY <2>2, ConcatProperties DEF RemoveAt
  <1>4. ASSUME NEW n \in 1..(Len(file) + 1), NEW l \in Lines
        PROVE  InsertAt(file, n, l) \in Seq(Lines)
    <2>1. 1 \in 1..(Len(file) + 1) /\ n - 1 \in 0..Len(file) /\ Len(file) \in 0..Len(file)
      BY <1>1
    <2>2. SubSeq(file, 1, n - 1) \in Seq(Lines) /\ SubSeq(file, n, Len(file)) \in Seq(Lines)
      BY <1>2, <2>1
    <2>3. <<l>> \in Seq(Lines)
      OBVIOUS
    <2>4. SubSeq(file, 1, n - 1) \o <<l>> \in Seq(Lines)
      BY <2>2, <2>3, ConcatProperties
    <2> QED
      BY <2>2, <2>4, ConcatProperties DEF InsertAt
  <1> QED
    BY <1>3, <1>4

LEMMA UserFile ==
  Files[1] \in Range(Files)
  <1>1. 1 \in DOMAIN Files
    BY KnownHostsAssumption, EmptySeq, LenProperties
  <1> QED
    BY <1>1 DEF Range

(* All that is vouched for is a device and a key.                          *)
LEMMA VouchedType ==
  ASSUME NEW layout PROVE VouchedBy(layout) \subseteq Devices \X Keys
  BY DEF VouchedBy

LEMMA TrustTypesKept ==
  ASSUME TypeOK, InHand, [Next]_vars
  PROVE  TrustTypes'
  <1> USE DEF Step, Goto
  <1>0. TrustTypes
    BY DEF TypeOK
  <1>1. CASE KeyRefused
    BY <1>0, <1>1 DEF KeyRefused, Recovered, TrustTypes
  <1>2. CASE DialFails \/ Connected
    <2>1. Recovered(FALSE, FALSE) = Quiet /\ Quiet \in [named : BOOLEAN]
      BY DEF Recovered, Quiet
    <2> QED
      BY <1>0, <1>2, <2>1 DEF DialFails, Connected, TrustTypes
  <1>3. CASE FetchPresentedKey
    <2>1. Device \in Devices
      BY <1>3, NameInHand DEF FetchPresentedKey
    <2>2. presents[Device] \in Keys
      BY <2>1 DEF TypeOK, WorldTypes
    <2> QED
      BY <1>0, <1>3, <2>2 DEF FetchPresentedKey, TrustTypes
  <1>4. CASE Confirm
    <2>1. Device \in Devices /\ shown \in Keys
      BY <1>4, NameInHand DEF Confirm, InHand
    <2> QED
      BY <1>0, <1>4, <2>1 DEF Confirm, TrustTypes
  <1>5. CASE Update
    <2>1. /\ mismatch.file \in Range(Files) /\ mismatch.host = Device /\ Device \in Devices
          /\ shown \in Keys
      BY <1>5, NameInHand DEF Update, InHand, Asking
    <2>2. known[mismatch.file] \in Seq(Lines)
      BY <1>0, <2>1 DEF TrustTypes
    <2>3. Rewritten(known[mismatch.file], mismatch, shown) \in Seq(Lines)
      BY <2>1, <2>2, RewrittenFile
    <2> QED
      BY <1>0, <1>5, <2>3 DEF Update, TrustTypes
  <1>6. CASE Rename
    BY <1>0, <1>6, EmptySeq DEF Rename, TrustTypes
  <1>7. CASE Reclassify
    BY <1>0, <1>7, EmptySeq DEF Reclassify, Quiet, TrustTypes
  <1>8. CASE EditKnownHosts
    <2>1. Files[1] \in Range(Files) /\ known[Files[1]] \in Seq(Lines)
      BY <1>0, UserFile DEF TrustTypes
    <2> DEFINE file == known[Files[1]]
    <2>2. \E f \in Seq(Lines) : known' = [known EXCEPT ![Files[1]] = f]
      <3>1. CASE \E n \in DOMAIN file : known' = [known EXCEPT ![Files[1]] = RemoveAt(file, n)]
        BY <2>1, <3>1, EditedFile
      <3>2. CASE \E n \in {1, Len(file) + 1}, l \in EditLines :
                   known' = [known EXCEPT ![Files[1]] = InsertAt(file, n, l)]
        <4>1. PICK n \in {1, Len(file) + 1}, l \in EditLines :
                     known' = [known EXCEPT ![Files[1]] = InsertAt(file, n, l)]
          BY <3>2
        <4>2. n \in 1..(Len(file) + 1) /\ l \in Lines
          BY <2>1, <4>1, LenProperties, OnboardingAssumption
        <4> QED
          BY <2>1, <4>1, <4>2, EditedFile
      <3> QED
        BY <1>8, <3>1, <3>2 DEF EditKnownHosts
    <2>3. known' \in [Range(Files) -> Seq(Lines)]
      BY <1>0, <2>2 DEF TrustTypes
    <2>4. trusted' \subseteq Devices \X Keys
      BY <1>0, <1>8, VouchedType DEF EditKnownHosts, TrustTypes
    <2> QED
      BY <1>0, <1>8, <2>3, <2>4 DEF EditKnownHosts, TrustTypes
  <1>9. CASE UNCHANGED <<err, refused, shown, draft, known, trusted>>
    BY <1>0, <1>9 DEF TrustTypes
  <1>10. CASE CredentialStep /\ ~Reclassify
    BY <1>9, <1>10 DEF CredentialStep, Ask, Reuse, TypeAnother, NoConsent, TypeCredentials,
       NoCredentials, Retry, NoRetry, trustVars
  <1>11. CASE KeyStep /\ ~FetchPresentedKey /\ ~Confirm /\ ~Update /\ ~Rename
    BY <1>9, <1>11 DEF KeyStep, Classify, LeaveKey, FetchFails, Distrust, RenameFails, trustVars
  <1>12. CASE OnboardStep /\ ~CredentialStep /\ ~KeyStep /\ ~KeyRefused /\ ~DialFails /\ ~Connected
    BY <1>9, <1>12 DEF OnboardStep, Take, TypeHost, FinishList, Pass, Claim, DialNetconf,
       DialNetconfFails, trustVars
  <1>13. CASE \/ Reauthenticate \/ Stop \/ Over \/ Tick \/ ChangeKey \/ CloseTerminal
              \/ UNCHANGED vars
    BY <1>9, <1>13 DEF Reauthenticate, Stop, Over, Tick, ChangeKey, CloseTerminal, vars, trustVars
  <1> QED
    BY <1>1, <1>2, <1>3, <1>4, <1>5, <1>6, <1>7, <1>8, <1>10, <1>11, <1>12, <1>13 DEF Next

LEMMA WorldTypesKept ==
  ASSUME TypeOK, InHand, [Next]_vars
  PROVE  WorldTypes'
  <1> USE DEF Step, Goto, Spend
  <1>0. WorldTypes
    BY DEF TypeOK
  <1>1. \A what \in {"edits", "keys", "faults", "typed", "reauths"} :
          Spend(what) => left' \in [{"edits", "keys", "faults", "typed", "reauths"} -> Nat]
    BY <1>0 DEF WorldTypes
  <1>2. CASE UNCHANGED left /\ UNCHANGED worldVars
    BY <1>0, <1>2 DEF WorldTypes, worldVars
  <1>3. CASE UNCHANGED worldVars
             /\ \E what \in {"edits", "keys", "faults", "typed", "reauths"} : Spend(what)
    BY <1>0, <1>1, <1>3 DEF WorldTypes, worldVars
  <1>4. CASE TypeHost \/ DialFails \/ FetchFails \/ RenameFails \/ DialNetconfFails \/ Reauthenticate
    BY <1>3, <1>4 DEF TypeHost, DialFails, FetchFails, RenameFails, DialNetconfFails, Reauthenticate
  <1>5. CASE EditKnownHosts
    BY <1>0, <1>1, <1>5 DEF EditKnownHosts, WorldTypes, worldVars
  <1>6. CASE ChangeKey
    BY <1>0, <1>1, <1>6 DEF ChangeKey, WorldTypes
  <1>7. CASE CloseTerminal
    BY <1>0, <1>7 DEF CloseTerminal, WorldTypes
  <1>8. CASE CredentialStep \/ (KeyStep /\ ~FetchFails /\ ~RenameFails)
    BY <1>2, <1>8 DEF CredentialStep, Ask, Reuse, TypeAnother, NoConsent, TypeCredentials,
       NoCredentials, Retry, NoRetry, Reclassify, KeyStep, Classify, LeaveKey, FetchPresentedKey,
       Confirm, Distrust, Update, Rename
  <1>9. CASE \/ Take \/ FinishList \/ Pass \/ Claim \/ KeyRefused \/ Connected \/ DialNetconf
             \/ Stop \/ Over \/ Tick \/ UNCHANGED vars
    BY <1>2, <1>9 DEF Take, FinishList, Pass, Claim, KeyRefused, Connected, DialNetconf, Stop, Over,
       Tick, vars
  <1> QED
    BY <1>4, <1>5, <1>6, <1>7, <1>8, <1>9 DEF Next, OnboardStep

(***************************************************************************)
(* What is in hand.                                                        *)
(***************************************************************************)
LEMMA SameDevice ==
  ASSUME entries' = entries, at' = at PROVE Device' = Device /\ Name' = Name
  BY DEF Device, Name

LEMMA InHandKept ==
  ASSUME TypeOK, InHand, [Next]_vars
  PROVE  InHand'
  <1> USE DEF Step, Goto, Asking, Dialled
  <1>0. InHand /\ ListTypes /\ (entries' = entries /\ at' = at => Device' = Device)
    BY SameDevice DEF TypeOK
  <1>1. CASE Take
    <2>1. at' # 0 /\ pc' \in {"next", "resolve"}
      BY <1>0, <1>1, LenProperties DEF Take, ListTypes
    <2> QED
      BY <2>1 DEF InHand
  <1>2. CASE TypeHost
    <2>1. at' # 0 /\ pc' \in {"next", "resolve"}
      BY <1>0, <1>2, LenProperties DEF TypeHost, ListTypes
    <2> QED
      BY <2>1 DEF InHand
  <1>3. CASE Reauthenticate
    <2>1. at' # 0 /\ pc' = "resolve"
      BY <1>0, <1>3, LenProperties DEF Reauthenticate, ListTypes
    <2> QED
      BY <2>1 DEF InHand
  <1>4. CASE Reuse
    <2>1. cred' \in Creds /\ at' # 0 /\ pc' = "dial"
      BY <1>0, <1>4 DEF Reuse, Valid, InHand, TypeOK, CredTypes, Stamped, listVars
    <2> QED
      BY <2>1 DEF InHand
  <1>5. CASE TypeCredentials
    <2>1. cred' \in Creds /\ at' # 0 /\ pc' = "dial"
      BY <1>0, <1>5 DEF TypeCredentials, InHand, listVars
    <2> QED
      BY <2>1 DEF InHand
  <1>6. CASE Ask \/ TypeAnother \/ NoConsent \/ NoCredentials \/ Retry \/ NoRetry \/ Reclassify
    <2>1. at' = at /\ at # 0 /\ pc' \in {"consent", "credentials", "failed", "resolve", "retry"}
      BY <1>0, <1>6 DEF Ask, TypeAnother, NoConsent, NoCredentials, Retry, NoRetry, Reclassify,
         InHand, listVars
    <2> QED
      BY <2>1 DEF InHand
  <1>7. CASE KeyRefused \/ DialFails
    <2>1. at' = at /\ at # 0 /\ pc' = "classify" /\ cred' = cred /\ cred \in Creds
      BY <1>0, <1>7 DEF KeyRefused, DialFails, InHand, listVars, credVars
    <2> QED
      BY <2>1 DEF InHand
  <1>8. CASE Connected \/ DialNetconf \/ DialNetconfFails
    <2>1. at' = at /\ at # 0 /\ pc' \in {"netconf", "claim"}
      BY <1>0, <1>8 DEF Connected, DialNetconf, DialNetconfFails, InHand, listVars
    <2> QED
      BY <2>1 DEF InHand
  <1>9. CASE Classify
    <2>1. /\ at' = at /\ entries' = entries /\ at # 0 /\ cred' = cred /\ cred \in Creds
          /\ pc' \in {"replace", "reclassify"}
          /\ pc' = "replace" => /\ Matched(known, Device) # {}
                                /\ mismatch' = Mismatch(known, Device)
      BY <1>0, <1>9 DEF Classify, IsMismatch, InHand, listVars, credVars
    <2>2. pc' = "replace" => mismatch'.host = Device /\ mismatch'.file \in Range(Files)
      BY <2>1, MismatchIsOfAFile
    <2> QED
      BY <1>0, <2>1, <2>2 DEF InHand
  <1>10. CASE FetchPresentedKey
    <2>1. Device \in Devices
      BY <1>10, NameInHand DEF FetchPresentedKey
    <2>2. shown' \in Keys
      BY <1>10, <2>1 DEF FetchPresentedKey, TypeOK, WorldTypes
    <2> QED
      BY <1>0, <1>10, <2>2 DEF FetchPresentedKey, InHand, listVars, credVars
  <1>11. CASE LeaveKey \/ FetchFails \/ Distrust \/ RenameFails
    BY <1>0, <1>11 DEF LeaveKey, FetchFails, Distrust, RenameFails, InHand, listVars, credVars
  <1>12. CASE Confirm \/ Update
    BY <1>0, <1>12 DEF Confirm, Update, InHand, listVars, credVars
  <1>13. CASE Rename
    BY <1>0, <1>13 DEF Rename, InHand, listVars, credVars
  <1>14. CASE FinishList \/ Pass \/ Claim \/ Stop
    <2>1. pc' \in {"next", "polling", "over"}
      BY <1>14 DEF FinishList, Pass, Claim, Stop
    <2> QED
      BY <2>1 DEF InHand
  <1>15. CASE Over \/ Tick \/ EditKnownHosts \/ ChangeKey \/ CloseTerminal \/ UNCHANGED vars
    <2>1. UNCHANGED <<pc, at, entries, cred, mismatch, shown>>
      BY <1>15 DEF Over, Tick, EditKnownHosts, ChangeKey, CloseTerminal, vars, listVars, credVars,
         trustVars
    <2> QED
      BY <1>0, <2>1 DEF InHand
  <1> QED
    BY <1>1, <1>2, <1>3, <1>4, <1>5, <1>6, <1>7, <1>8, <1>9, <1>10, <1>11, <1>12, <1>13, <1>14, <1>15
    DEF Next, OnboardStep, CredentialStep, KeyStep

(***************************************************************************)
(* Whose key it is.                                                        *)
(***************************************************************************)
(* ssh lets only a key pass that somebody answers for.                     *)
LEMMA TrustedKey ==
  ASSUME TypeOK, TrustInv, NEW host \in Devices, NEW key, Trusts(known, host, key)
  PROVE  <<host, key>> \in trusted
  <1>1. PICK l \in UNION {Range(known[f]) : f \in Range(Files)} : Binds(l, host, key) /\ l.marker = ""
    BY DEF Trusts
  <1>2. Vouched(l) /\ host \in l.hosts /\ l.key = key
    BY <1>1 DEF TrustInv, Binds
  <1> QED
    BY <1>1, <1>2 DEF Vouched

(* A file that somebody else edits is vouched for by them.                 *)
LEMMA EditsAreVouched ==
  ASSUME NEW files \in [Range(Files) -> Seq(Lines)]
  PROVE  \A f \in Range(Files) : \A l \in Range(files[f]) :
           l.marker = "" => \A d \in l.hosts : <<d, l.key>> \in VouchedBy(files)
  <1> SUFFICES ASSUME NEW f \in Range(Files), NEW l \in Range(files[f]), l.marker = "", NEW d \in l.hosts
               PROVE  <<d, l.key>> \in VouchedBy(files)
    OBVIOUS
  <1>1. l \in Lines /\ d \in Devices /\ l.key \in Keys
    <2>1. files[f] \in Seq(Lines)
      OBVIOUS
    <2>2. l \in Lines
      BY <2>1, LineRange
    <2> QED
      BY <2>2 DEF Lines
  <1>2. Binds(l, d, l.key)
    BY DEF Binds
  <1>3. l \in UNION {Range(files[g]) : g \in DOMAIN files}
    OBVIOUS
  <1> QED
    BY <1>1, <1>2, <1>3 DEF VouchedBy

(* Trust once given is not taken back, and the sessions do not change by   *)
(* themselves.                                                             *)
LEMMA TrustGrows ==
  ASSUME TypeOK, TrustInv, trusted \subseteq trusted', UNCHANGED <<known, entries, session>>,
         pc' \in {"update", "rename"} => <<Device', shown'>> \in trusted',
         pc' = "rename" => \A l \in Range(draft') : Vouched(l)
  PROVE  TrustInv'
  <1>1. \A l : Vouched(l) => Vouched(l)'
    BY DEF Vouched
  <1>2. SessionsAreTrusted'
    BY DEF TrustInv, SessionsAreTrusted
  <1> QED
    BY <1>1, <1>2 DEF TrustInv

LEMMA TrustKept ==
  ASSUME TypeOK, InHand, TrustInv, [Next]_vars
  PROVE  TrustInv'
  <1> USE DEF Step, Goto, Asking
  <1>0. /\ entries' = entries /\ at' = at => Device' = Device
        /\ pc \notin {"next", "polling", "over"} => Device \in Devices
    BY SameDevice, NameInHand
  <1>s. CASE UNCHANGED <<known, entries, session, trusted>> /\ pc' \notin {"update", "rename"}
    BY <1>s, TrustGrows
  <1>1. CASE Take \/ FinishList \/ Claim \/ Reauthenticate \/ DialNetconf \/ DialNetconfFails \/ Stop
    BY <1>s, <1>1 DEF Take, FinishList, Claim, Reauthenticate, DialNetconf, DialNetconfFails, Stop,
       listVars, trustVars
  <1>2. CASE TypeHost
    <2>1. PICK name \in Names : /\ entries' = Append(entries, name) /\ session' = Append(session, NoCred)
                                /\ pc' \in {"next", "resolve"} /\ UNCHANGED <<known, trusted>>
      BY <1>2 DEF TypeHost, trustVars
    <2>2. /\ Len(entries) = Len(session) /\ Len(entries) \in Nat
          /\ entries \in Seq(Names) /\ session \in Seq(Keys \cup {NoCred})
      BY LenProperties DEF TypeOK, ListTypes
    <2>3. /\ DOMAIN session = 1..Len(session) /\ DOMAIN session' = 1..(Len(session) + 1)
          /\ \A i \in 1..Len(session) : session'[i] = session[i] /\ entries'[i] = entries[i]
          /\ session'[Len(session) + 1] = NoCred
      <3>1. NoCred \in Keys \cup {NoCred}
        OBVIOUS
      <3> QED
        BY <2>1, <2>2, <3>1, AppendProperties, LenProperties
    <2>4. SessionsAreTrusted'
      <3> SUFFICES ASSUME NEW i \in DOMAIN session', session'[i] # NoCred
                   PROVE  <<DeviceOf[entries'[i]], session'[i]>> \in trusted'
        BY DEF SessionsAreTrusted
      <3>1. i \in 1..Len(session)
        BY <2>2, <2>3
      <3> QED
        BY <2>1, <2>3, <3>1 DEF TrustInv, SessionsAreTrusted
    <2> QED
      BY <2>1, <2>4 DEF TrustInv, Vouched
  <1>3. CASE Pass
    <2>1. /\ session' = [session EXCEPT ![at] = NoCred] /\ UNCHANGED <<known, entries, trusted>>
          /\ pc' \in {"next", "polling"}
      BY <1>3 DEF Pass, trustVars
    <2>2. SessionsAreTrusted'
      BY <2>1 DEF TrustInv, SessionsAreTrusted
    <2> QED
      BY <2>1, <2>2 DEF TrustInv, Vouched
  <1>4. CASE Connected
    <2>1. /\ session' = [session EXCEPT ![at] = presents[Device]] /\ UNCHANGED <<known, entries, trusted>>
          /\ pc' \in {"netconf", "claim"} /\ Device \in Devices
          /\ Trusts(known, Device, presents[Device])
      BY <1>0, <1>4 DEF Connected
    <2>2. <<DeviceOf[entries[at]], presents[Device]>> \in trusted
      BY <2>1, TrustedKey DEF Device, Name
    <2>3. SessionsAreTrusted'
      BY <2>1, <2>2 DEF TrustInv, SessionsAreTrusted
    <2> QED
      BY <2>1, <2>3 DEF TrustInv, Vouched
  <1>5. CASE CredentialStep \/ KeyRefused \/ DialFails
    BY <1>s, <1>5 DEF CredentialStep, KeyRefused, DialFails, Ask, Reuse, TypeAnother, NoConsent,
       TypeCredentials, NoCredentials, Retry, NoRetry, Reclassify, listVars, trustVars
  <1>6. CASE Classify \/ LeaveKey \/ FetchPresentedKey \/ FetchFails \/ Distrust \/ RenameFails
    BY <1>s, <1>6 DEF Classify, LeaveKey, FetchPresentedKey, FetchFails, Distrust, RenameFails,
       listVars, trustVars
  <1>7. CASE Confirm
    <2>1. /\ trusted' = trusted \cup {<<Device, shown>>} /\ pc' = "update"
          /\ UNCHANGED <<known, entries, at, session, shown>>
      BY <1>7 DEF Confirm, listVars
    <2> QED
      BY <1>0, <2>1, TrustGrows
  <1>8. CASE Update
    <2>1. /\ mismatch.file \in Range(Files) /\ mismatch.host = Device /\ Device \in Devices
          /\ shown \in Keys /\ <<Device, shown>> \in trusted
      BY <1>0, <1>8 DEF Update, InHand, TrustInv
    <2>2. UNCHANGED <<known, entries, at, session, trusted, shown>> /\ pc' \in {"rename", "reclassify"}
      BY <1>8 DEF Update, listVars
    <2>3. pc' = "rename" => draft' = Rewritten(known[mismatch.file], mismatch, shown)
      BY <1>8 DEF Update
    <2>4. known[mismatch.file] \in Seq(Lines)
      BY <2>1 DEF TypeOK, TrustTypes
    <2>5. Vouched(Plain(Device, shown))
      BY <2>1 DEF Vouched, Plain
    <2>6. \A l \in Range(Rewritten(known[mismatch.file], mismatch, shown)) : Vouched(l)
      BY <2>1, <2>4, <2>5, RewrittenFile DEF TrustInv
    <2> QED
      BY <1>0, <2>1, <2>2, <2>3, <2>6, TrustGrows
  <1>9. CASE Rename
    <2>1. /\ known' = [known EXCEPT ![mismatch.file] = draft] /\ pc' = "dial"
          /\ UNCHANGED <<entries, session, trusted>> /\ pc = "rename"
      BY <1>9 DEF Rename, listVars
    <2>2. \A f \in Range(Files) : known'[f] = draft \/ known'[f] = known[f]
      BY <2>1 DEF TypeOK, TrustTypes
    <2>3. \A f \in Range(Files) : \A l \in Range(known'[f]) : Vouched(l)
      BY <2>1, <2>2 DEF TrustInv
    <2> QED
      BY <2>1, <2>3 DEF TrustInv, Vouched, SessionsAreTrusted
  <1>10. CASE EditKnownHosts
    <2>1. /\ trusted' = trusted \cup VouchedBy(known')
          /\ UNCHANGED <<pc, entries, at, session, shown, draft>>
      BY <1>10 DEF EditKnownHosts, listVars
    <2>2. known' \in [Range(Files) -> Seq(Lines)]
      BY TrustTypesKept DEF TrustTypes
    <2>3. \A f \in Range(Files) : \A l \in Range(known'[f]) : Vouched(l)'
      BY <2>1, <2>2, EditsAreVouched DEF Vouched
    <2>4. \A l : Vouched(l) => Vouched(l)'
      BY <2>1 DEF Vouched
    <2>5. SessionsAreTrusted'
      BY <2>1 DEF TrustInv, SessionsAreTrusted
    <2> QED
      BY <1>0, <2>1, <2>3, <2>4, <2>5 DEF TrustInv
  <1>11. CASE Over \/ Tick \/ ChangeKey \/ CloseTerminal \/ UNCHANGED vars
    <2>1. UNCHANGED <<pc, known, entries, at, session, trusted, shown, draft>>
      BY <1>11 DEF Over, Tick, ChangeKey, CloseTerminal, vars, listVars, trustVars
    <2> QED
      BY <1>0, <2>1, TrustGrows DEF TrustInv
  <1> QED
    BY <1>1, <1>2, <1>3, <1>4, <1>5, <1>6, <1>7, <1>8, <1>9, <1>10, <1>11
    DEF Next, OnboardStep, KeyStep

(***************************************************************************)
(* What the cached passcode is worth.                                      *)
(***************************************************************************)
(* Where the goroutine neither settles nor types anything, it is worth     *)
(* what it was.                                                            *)
LEMMA PasscodeRests ==
  ASSUME PasscodeInv, UNCHANGED <<cache, proof, verdict>>, pc \notin {"classify", "reclassify"},
         refused' => err'.named
  PROVE  PasscodeInv'
  BY DEF PasscodeInv

LEMMA PasscodeKept ==
  ASSUME TypeOK, InHand, PasscodeInv, [Next]_vars
  PROVE  PasscodeInv'
  <1> USE DEF Step, Goto
  <1>0. CredTypes /\ TrustTypes
    BY DEF TypeOK
  <1>1. CASE /\ UNCHANGED <<cache, proof, verdict, err, refused>>
             /\ pc \notin {"classify", "reclassify"}
    BY <1>1, PasscodeRests DEF PasscodeInv
  <1>2. CASE Take \/ TypeHost \/ FinishList \/ Pass \/ Claim \/ DialNetconf \/ DialNetconfFails
    BY <1>1, <1>2 DEF Take, TypeHost, FinishList, Pass, Claim, DialNetconf, DialNetconfFails,
       credVars, trustVars
  <1>3. CASE Ask \/ Reuse \/ TypeCredentials \/ NoCredentials \/ Retry \/ NoRetry
    BY <1>1, <1>3 DEF Ask, Reuse, TypeCredentials, NoCredentials, Retry, NoRetry, credVars, trustVars
  <1>4. CASE LeaveKey \/ FetchPresentedKey \/ FetchFails \/ Confirm \/ Distrust \/ Update \/ Rename \/ RenameFails
    BY <1>1, <1>4 DEF LeaveKey, FetchPresentedKey, FetchFails, Confirm, Distrust, Update, Rename,
       RenameFails, credVars, trustVars
  <1>5. CASE Reauthenticate \/ Stop
    BY <1>1, <1>5 DEF Reauthenticate, Stop, credVars, trustVars
  <1>6. CASE TypeAnother \/ NoConsent
    BY <1>6 DEF TypeAnother, NoConsent, RecordFailure, Empty, PasscodeInv, trustVars
  <1>7. CASE KeyRefused
    <2>1. UNCHANGED <<cache, proof, verdict>> /\ pc = "dial"
      BY <1>7 DEF KeyRefused, credVars
    <2>2. err'.named
      <3>1. \A raced \in BOOLEAN : Recovered(~raced, TRUE).named
        BY DEF Recovered
      <3> QED
        BY <1>7, <3>1 DEF KeyRefused
    <2> QED
      BY <2>1, <2>2, PasscodeRests
  <1>8. CASE DialFails
    <2>1. /\ UNCHANGED <<cache, proof>> /\ pc' = "classify" /\ pc = "dial" /\ ~refused'
          /\ err' = Recovered(FALSE, FALSE)
      BY <1>8 DEF DialFails
    <2>2. ~err'.named
      BY <2>1 DEF Recovered
    <2> QED
      BY <2>1, <2>2 DEF PasscodeInv
  <1>9. CASE Connected
    <2>1. /\ RecordSuccess /\ verdict' = [verdict EXCEPT ![cred] = "accepted"]
          /\ pc = "dial" /\ ~refused'
      BY <1>9 DEF Connected
    <2>2. cred \in Creds /\ verdict'[cred] = "accepted"
          /\ \A c \in Creds : verdict[c] = "accepted" => verdict'[c] = "accepted"
      BY <1>0, <2>1 DEF InHand, Dialled, CredTypes
    <2>3. CASE fresh
      BY <2>1, <2>2, <2>3 DEF RecordSuccess, PasscodeInv
    <2>4. CASE ~fresh
      <3>1. cache' = cache /\ proof' = proof
        BY <2>1, <2>4 DEF RecordSuccess
      <3>2. cache.cred # NoCred => cache = proof /\ cache.cred \in Creds /\ verdict[cache.cred] = "accepted"
        BY <1>0, <2>1 DEF PasscodeInv, CredTypes, Stamped
      <3> QED
        BY <2>1, <2>2, <3>1, <3>2 DEF PasscodeInv
    <2> QED
      BY <2>3, <2>4
  <1>10. CASE Classify
    <2>1. /\ UNCHANGED <<cache, proof, verdict, err, refused>>
          /\ pc' = "reclassify" \/ err.named
          /\ pc = "classify"
      BY <1>10 DEF Classify, IsMismatch, LooksLikeHostKey, credVars
    <2> QED
      BY <2>1 DEF PasscodeInv
  <1>11. CASE Reclassify
    <2>1. UNCHANGED <<proof, verdict>> /\ ~refused'
      BY <1>11 DEF Reclassify
    <2>2. CASE cache' = cache /\ err.named
      BY <2>1, <2>2 DEF PasscodeInv
    <2>3. CASE cache' = Empty
      BY <2>1, <2>3 DEF PasscodeInv, Empty
    <2> QED
      BY <1>11, <2>2, <2>3 DEF Reclassify, IsMismatch, LooksLikeHostKey, RecordFailure
  <1>12. CASE Tick
    <2>1. /\ cache' = Older(cache) /\ proof' = Older(proof)
          /\ UNCHANGED <<verdict, pc, err, refused>>
      BY <1>12 DEF Tick, trustVars
    <2>2. cache \in Stamped /\ cache'.cred = cache.cred
      BY <1>0, <2>1 DEF Older, CredTypes, Stamped
    <2>3. cache = proof => cache' = proof'
      BY <2>1
    <2> QED
      BY <2>1, <2>2, <2>3 DEF PasscodeInv
  <1>13. CASE Over \/ EditKnownHosts \/ ChangeKey \/ CloseTerminal \/ UNCHANGED vars
    <2>1. UNCHANGED <<pc, cache, proof, verdict, err, refused>>
      BY <1>13 DEF Over, EditKnownHosts, ChangeKey, CloseTerminal, vars, credVars, trustVars
    <2> QED
      BY <2>1 DEF PasscodeInv
  <1> QED
    BY <1>2, <1>3, <1>4, <1>5, <1>6, <1>7, <1>8, <1>9, <1>10, <1>11, <1>12, <1>13
    DEF Next, OnboardStep, CredentialStep, KeyStep

(***************************************************************************)
(* The theorems.                                                           *)
(***************************************************************************)
LEMMA InitIInv == Init => IInv
  <1> SUFFICES ASSUME Init PROVE IInv
    OBVIOUS
  <1>1. known \in [Range(Files) -> Seq(Lines)]
    BY OnboardingAssumption DEF Init
  <1>2. ListTypes
    <2>1. Len(Specs) \in Nat /\ DOMAIN Specs = 1..Len(Specs) /\ Specs \in Seq(Names)
      BY OnboardingAssumption, LenProperties
    <2>2. status \in Seq({"pending", "connected", "failed", "skipped"}) /\ Len(status) = Len(Specs)
      BY <2>1 DEF Init
    <2>3. session \in Seq(Keys \cup {NoCred}) /\ Len(session) = Len(Specs)
      BY <2>1 DEF Init
    <2>4. at \in 0..Len(entries) /\ Len(entries) = Len(Specs)
      BY <2>1 DEF Init
    <2>5. pc \in Places /\ again \in BOOLEAN /\ netconf \subseteq Nat /\ seen \subseteq Names
      BY DEF Init, Places
    <2> QED
      BY <2>1, <2>2, <2>3, <2>4, <2>5 DEF Init, ListTypes
  <1>3. CredTypes
    BY DEF Init, CredTypes, Stamped, Empty
  <1>4. TrustTypes
    <2>1. trusted \subseteq Devices \X Keys
      BY DEF Init, VouchedBy
    <2>2. err \in [named : BOOLEAN] /\ draft \in Seq(Lines)
      BY DEF Init, Quiet
    <2> QED
      BY <1>1, <2>1, <2>2 DEF Init, TrustTypes
  <1>5. WorldTypes
    BY OnboardingAssumption DEF Init, WorldTypes
  <1>6. InHand
    BY DEF Init, InHand, Dialled, Asking
  <1>7. TrustInv
    <2>1. \A f \in Range(Files) : \A l \in Range(known[f]) : Vouched(l)
      BY <1>1, EditsAreVouched DEF Init, Vouched
    <2>2. SessionsAreTrusted
      BY DEF Init, SessionsAreTrusted
    <2> QED
      BY <2>1, <2>2 DEF Init, TrustInv
  <1>8. PasscodeInv
    BY DEF Init, PasscodeInv, Empty
  <1> QED
    BY <1>2, <1>3, <1>4, <1>5, <1>6, <1>7, <1>8 DEF IInv, TypeOK

LEMMA StepIInv == IInv /\ [Next]_vars => IInv'
  <1> SUFFICES ASSUME IInv, [Next]_vars PROVE IInv'
    OBVIOUS
  <1>1. TypeOK'
    BY ListTypesKept, CredTypesKept, TrustTypesKept, WorldTypesKept DEF IInv, TypeOK
  <1>2. InHand' /\ TrustInv' /\ PasscodeInv'
    BY InHandKept, TrustKept, PasscodeKept DEF IInv
  <1> QED
    BY <1>1, <1>2 DEF IInv

(* The invariant holds of every run: every value has its type, whoever is  *)
(* past a question has the answer in hand, every key that ssh would let    *)
(* pass is somebody's word, and a cached passcode is one that was proved.  *)
THEOREM OnboardingInvariant == Spec => []IInv
  <1> QED
    BY InitIInv, StepIInv, PTL DEF Spec

(* Every session is with a key that known_hosts had, that somebody else    *)
(* put there, or that the operator saw and confirmed, whoever edits the    *)
(* files and whatever the devices present. (PromptHostKeyMismatch)         *)
THEOREM SessionsTrusted == Spec => []SessionsAreTrusted
  <1>1. IInv => SessionsAreTrusted
    BY DEF IInv, TrustInv
  <1> QED
    BY <1>1, OnboardingInvariant, PTL

(* A passcode is used again only within the window in which it was typed   *)
(* and accepted, and unless something rejected it since.                   *)
(* (ResolveCredentials, RecordSuccess, RecordFailure)                      *)
THEOREM ReuseTimely == Spec => ReuseIsTimely
  <1> DEFINE Timely == pc = "consent" /\ pc' = "dial" =>
                         proof.cred = cred' /\ proof.age < Window /\ verdict[cred'] = "accepted"
  <1>1. ASSUME IInv, Next, pc = "consent", pc' = "dial" PROVE Reuse
    <2> USE DEF Step, Goto
    <2>1. CredentialStep
      BY <1>1 DEF Next, OnboardStep, KeyStep, Take, TypeHost, FinishList, Pass, Claim, KeyRefused,
         DialFails, Connected, DialNetconf, DialNetconfFails, Classify, LeaveKey, FetchPresentedKey,
         FetchFails, Confirm, Distrust, Update, Rename, RenameFails, Reauthenticate, Stop, Over,
         Tick, EditKnownHosts, ChangeKey, CloseTerminal, vars
    <2> QED
      BY <1>1, <2>1 DEF CredentialStep, Ask, TypeAnother, NoConsent, TypeCredentials, NoCredentials,
         Retry, NoRetry, Reclassify
  <1>2. ASSUME IInv, Reuse, pc = "consent" PROVE Timely
    <2>1. cache.cred # NoCred /\ cache.age < Window /\ cred' = cache.cred
      BY <1>2 DEF Reuse, Valid
    <2> QED
      BY <1>2, <2>1 DEF IInv, PasscodeInv
  <1>3. IInv /\ [Next]_vars => [Timely]_vars
    BY <1>1, <1>2
  <1> QED
    BY <1>3, OnboardingInvariant, PTL DEF Spec, ReuseIsTimely

(* A connection that ended at the host key costs no cached passcode, even  *)
(* when scrapligo lost the message of ssh, so long as some file claims the *)
(* host. (connectWithRetry, recoverRacedChannelDiagnostic)                 *)
THEOREM MismatchSparesPasscode == Spec => MismatchSparesCredentials
  <1> DEFINE Spared == pc = "reclassify" /\ refused /\ Matched(known, Device) # {} => cache' = cache
  <1>1. ASSUME IInv, Next, pc = "reclassify", refused, Matched(known, Device) # {}
        PROVE  cache' = cache
    <2> USE DEF Step, Goto
    <2>1. IsMismatch(known, Device, err)
      BY <1>1 DEF IInv, PasscodeInv, IsMismatch, LooksLikeHostKey
    <2>2. CASE CredentialStep
      BY <1>1, <2>1, <2>2 DEF CredentialStep, Ask, Reuse, TypeAnother, NoConsent, TypeCredentials,
         NoCredentials, Retry, NoRetry, Reclassify
    <2>3. CASE ~CredentialStep
      BY <1>1, <2>3 DEF Next, OnboardStep, KeyStep, Take, TypeHost, FinishList, Pass, Claim, KeyRefused,
         DialFails, Connected, DialNetconf, DialNetconfFails, Classify, LeaveKey, FetchPresentedKey,
         FetchFails, Confirm, Distrust, Update, Rename, RenameFails, Reauthenticate, Stop, Over,
         Tick, EditKnownHosts, ChangeKey, CloseTerminal, vars, credVars
    <2> QED
      BY <2>2, <2>3
  <1>2. IInv /\ [Next]_vars => [Spared]_vars
    BY <1>1
  <1> QED
    BY <1>2, OnboardingInvariant, PTL DEF Spec, MismatchSparesCredentials

(* A refresh of a host's entry removes no line but those of this host      *)
(* alone whose keys the operator was shown, however the file was edited    *)
(* while the operator was asked. (ReplaceEntry)                            *)
THEOREM RefreshSparesOthers == Spec => RefreshKeepsOthers
  <1> DEFINE file == known[mismatch.file]
             Spared == pc = "update" /\ pc' = "rename" =>
                         \A l \in Range(file) :
                           \/ l \in Range(draft')
                           \/ l.hosts = {Device} /\ l.key \in Range(mismatch.stale)
  <1>1. ASSUME IInv, Next, pc = "update", pc' = "rename" PROVE Update
    <2> USE DEF Step, Goto
    <2> QED
      BY <1>1 DEF Next, OnboardStep, CredentialStep, KeyStep, Take, TypeHost, FinishList, Pass, Claim,
         KeyRefused, DialFails, Connected, DialNetconf, DialNetconfFails, Classify, LeaveKey,
         FetchPresentedKey, FetchFails, Confirm, Distrust, Rename, RenameFails, Reauthenticate, Stop,
         Over, Tick, EditKnownHosts, ChangeKey, CloseTerminal, vars, Ask, Reuse, TypeAnother, NoConsent,
         TypeCredentials, NoCredentials, Retry, NoRetry, Reclassify
  <1>2. ASSUME IInv, Update, pc = "update", pc' = "rename" PROVE Spared
    <2>1. /\ Revalidated(file, mismatch) /\ draft' = Rewritten(file, mismatch, shown)
      BY <1>2 DEF Update, Goto
    <2>2. /\ mismatch.host = Device /\ Device \in Devices /\ shown \in Keys
          /\ file \in Seq(Lines)
      BY <1>2, NameInHand DEF IInv, InHand, Asking, TypeOK, TrustTypes
    <2> HIDE DEF file
    <2>3. ASSUME NEW l \in Range(file)
          PROVE  l \in Range(draft') \/ (l.hosts = {Device} /\ l.key \in Range(mismatch.stale))
      <3>1. PICK n \in DOMAIN file : l = file[n]
        BY <2>2, LineRange
      <3>2. CASE n \notin DOMAIN mismatch.stale
        BY <2>1, <2>2, <3>1, <3>2, RewrittenFile
      <3>3. CASE n \in DOMAIN mismatch.stale
        <4>1. StillStale(file, mismatch, n)
          BY <2>1, <3>3 DEF Revalidated
        <4>2. file[n].hosts = {Device} /\ file[n].key = mismatch.stale[n]
          BY <2>2, <4>1, StaleIsOurs
        <4> QED
          BY <3>1, <3>3, <4>2 DEF Range
      <3> QED
        BY <3>2, <3>3
    <2> QED
      BY <2>3 DEF file
  <1>3. IInv /\ [Next]_vars => [Spared]_vars
    BY <1>1, <1>2
  <1> QED
    BY <1>3, OnboardingInvariant, PTL DEF Spec, RefreshKeepsOthers
===============================================================================
