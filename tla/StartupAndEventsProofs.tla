----------------------- MODULE StartupAndEventsProofs -----------------------
(***************************************************************************)
(* What happens before the first device is launched, for any set of        *)
(* launches: which playbooks loadConfig accepts, in any directory, with    *)
(* any limits and any way to merge maps and to read selectors and steps    *)
(* (ConfigImports), and that no secret is looked up and no output is       *)
(* opened before that is earned (Startup).  Then the sink that is opened   *)
(* last, for any number of emitters and closers and any capacity           *)
(* (EventPipeline): nobody sends on the closed channel, no accepted event  *)
(* is lost, and Close returns after the last delivery.                     *)
(*                                                                         *)
(* Loading is an induction over the calls of loadConfigMap in progress,    *)
(* start-up one over its stages; what makes the invariant of the sink      *)
(* inductive is who is where around s.mu: an emitter between RLock and     *)
(* RUnlock is a reader, one closer at most is inside closeOnce, and it has *)
(* the lock from "mark" to "unlock".                                       *)
(***************************************************************************)
EXTENDS Startup, EventPipeline, FiniteSetTheorems, SequenceTheorems, NaturalsInduction, TLAPS

-----------------------------------------------------------------------------
(* Sums are cardinalities of sets of pairs: for every f of S, F[f] pieces. *)

Pieces(F, S) == UNION {{f} \X F[f] : f \in S}

LEMMA PiecesFinite ==
  ASSUME NEW S, IsFiniteSet(S), NEW F, \A f \in S : IsFiniteSet(F[f])
  PROVE  IsFiniteSet(Pieces(F, S))
<1> DEFINE T == {{f} \X F[f] : f \in S}
           h == [f \in S |-> {f} \X F[f]]
<1>1. h \in Surjection(S, T)
  BY DEF Surjection
<1>2. IsFiniteSet(T)
  BY <1>1, FS_Surjection, Zenon
<1>3. ASSUME NEW f \in S PROVE IsFiniteSet({f} \X F[f])
  BY FS_Singleton, FS_Product
<1>4. QED
  BY <1>2, <1>3, FS_UNION DEF Pieces

LEMMA PiecesAdd ==
  ASSUME NEW S, IsFiniteSet(S), NEW g, g \notin S,
         NEW F, \A f \in S \cup {g} : IsFiniteSet(F[f])
  PROVE  Cardinality(Pieces(F, S \cup {g})) = Cardinality(Pieces(F, S)) + Cardinality(F[g])
<1> DEFINE P == Pieces(F, S)
           Q == {g} \X F[g]
<1>1. Pieces(F, S \cup {g}) = P \cup Q
  BY DEF Pieces
<1>2. P \cap Q = {}
  BY DEF Pieces
<1>3. IsFiniteSet(P)
  BY PiecesFinite
<1>4. IsFiniteSet(Q) /\ Cardinality(Q) = Cardinality(F[g])
  <2>1. IsFiniteSet(F[g]) /\ IsFiniteSet({g}) /\ Cardinality({g}) = 1
    BY FS_Singleton
  <2>2. IsFiniteSet(Q) /\ Cardinality(Q) = 1 * Cardinality(F[g])
    BY <2>1, FS_Product
  <2>3. QED
    BY <2>1, <2>2, FS_CardinalityType
<1>5. Cardinality(P \cup Q) = Cardinality(P) + Cardinality(Q) - Cardinality(P \cap Q)
  BY <1>3, <1>4, FS_Union
<1>6. Cardinality(P \cap Q) = 0
  BY <1>2, FS_EmptySet
<1>7. Cardinality(P) \in Nat /\ Cardinality(Q) \in Nat
  BY <1>3, <1>4, FS_CardinalityType
<1>8. Cardinality(P \cup Q) = Cardinality(P) + Cardinality(Q)
  <2> HIDE DEF P, Q
  <2>1. QED
    BY <1>5, <1>6, <1>7
<1>9. QED
  BY <1>1, <1>4, <1>8, Zenon

LEMMA PiecesOfSubset ==
  ASSUME NEW T, IsFiniteSet(T), NEW S \in SUBSET T, NEW F, \A f \in T : IsFiniteSet(F[f])
  PROVE  Cardinality(Pieces(F, S)) <= Cardinality(Pieces(F, T))
<1>1. Pieces(F, S) \subseteq Pieces(F, T)
  BY DEF Pieces
<1>2. QED
  BY <1>1, PiecesFinite, FS_Subset

LEMMA PositionsFinite ==
  ASSUME NEW entries \in Seq(Seq(STRING))
  PROVE  IsFiniteSet(Positions(entries))
<1> DEFINE F == [i \in DOMAIN entries |-> DOMAIN entries[i]]
<1>1. DOMAIN entries = 1 .. Len(entries) /\ Len(entries) \in Nat
  OBVIOUS
<1>2. \A i \in DOMAIN entries : DOMAIN entries[i] = 1 .. Len(entries[i]) /\ Len(entries[i]) \in Nat
  OBVIOUS
<1>3. IsFiniteSet(DOMAIN entries) /\ \A i \in DOMAIN entries : IsFiniteSet(F[i])
  BY <1>1, <1>2, FS_Interval
<1>4. Positions(entries) = Pieces(F, DOMAIN entries)
  BY DEF Positions, Pieces
<1>5. QED
  BY <1>3, <1>4, PiecesFinite

LEMMA FilesReadFinite ==
  ASSUME IsDirectory(world), NEW f \in DOMAIN world.text
  PROVE  IsFiniteSet(FilesRead(world.text[f]))
<1>1. IsFiniteSet(Positions(world.text[f].varsFiles))
  BY PositionsFinite DEF IsDirectory
<1>2. QED
  BY <1>1, FS_Singleton, FS_Union DEF FilesRead

LEMMA NodesReadFinite ==
  ASSUME IsDirectory(world), NEW f \in DOMAIN world.text, VarsLoad(world.text[f])
  PROVE  IsFiniteSet(NodesRead(world.text[f]))
<1> DEFINE t == world.text[f]
           F == [p \in FilesRead(t) |-> 1 .. NodesAt(t, p)]
<1>1. \A p \in FilesRead(t) : NodesAt(t, p) \in Nat
  BY DEF IsDirectory, FilesRead, NodesAt, VarsLoad, Readable, Text
<1>2. \A p \in FilesRead(t) : IsFiniteSet(F[p])
  BY <1>1, FS_Interval
<1>3. NodesRead(t) = Pieces(F, FilesRead(t))
  BY DEF NodesRead, Pieces
<1>4. QED
  BY <1>2, <1>3, FilesReadFinite, PiecesFinite

-----------------------------------------------------------------------------
(* The inductive invariant.                                                *)

Frames == [file : DOMAIN world.text, entry : Nat \ {0}, match : Nat \ {0}]
Opened == loaded \cup Active

LoaderType ==
  /\ IsDirectory(world)
  /\ calls \in Seq(Frames)
  /\ loaded \in SUBSET DOMAIN world.text
  /\ files \in Nat /\ nodes \in Nat
  /\ loading \in {"busy", "ok", "refused"}

\* The imports that the loops of a call have behind them.
Before(frame) ==
  {p \in Positions(Imports(frame)) : p[1] < frame.entry \/ (p[1] = frame.entry /\ p[2] < frame.match)}

\* What stands at p in f was asked for, and was not refused.
Linked(f, p) ==
  /\ p \in Places(f)
  /\ \/ f \in loaded
     \/ \E i \in DOMAIN calls :
          calls[i].file = f /\ (p \in Before(calls[i]) \/ (i > 1 /\ p = Place(calls[i])))

\* Where the loops of a call are; an outer call is at the file of the next one.
AtCall(i) ==
  LET c == calls[i] IN
  /\ c.entry <= Len(Imports(c)) + 1
  /\ \A e \in 1 .. c.entry - 1 : Imports(c)[e] # <<>>
  /\ Exhausted(c) \/ Matchless(c) \/ Place(c) \in Places(c.file)
  /\ i > 1 => /\ Place(c) \in Places(c.file) /\ Leads(c.file, Place(c))
              /\ Target(c.file, Place(c)) = calls[i - 1].file

CallsInv ==
  /\ \A i \in DOMAIN calls : AtCall(i) /\ calls[i].file \notin loaded
  /\ \A i, j \in DOMAIN calls : i # j => calls[i].file # calls[j].file
  /\ calls # <<>> => world.root \in DOMAIN world.file /\ calls[Len(calls)].file = Root
  /\ Len(calls) <= MaxImportDepth + 1
  /\ calls = <<>> /\ loading # "ok" => loaded = {}
  /\ loading = "ok" => calls = <<>> /\ world.root \in DOMAIN world.file /\ Root \in loaded

\* What was opened is reached and well formed, and each of it but the root is
\* what one import leads to.
LinkInv ==
  /\ \A f \in Opened : f \in Reach /\ ~world.text[f].broken /\ VarsLoad(world.text[f])
  /\ \A f \in loaded : \A i \in DOMAIN world.text[f].imports : world.text[f].imports[i] # <<>>
  /\ \A f \in Opened : \A p \in Places(f) :
       Linked(f, p) => Leads(f, p) /\ Target(f, p) \in Opened /\ Target(f, p) # Root
  /\ \A f, g \in Opened : \A p \in Places(f), q \in Places(g) :
       Linked(f, p) /\ Linked(g, q) /\ Target(f, p) = Target(g, q) => f = g /\ p = q
  /\ \A h \in Opened \ {Root} : \E f \in Opened : \E p \in Places(f) : Linked(f, p) /\ Target(f, p) = h

\* The files that were opened have a depth, and nothing is too deep.
HasDepths(d) ==
  /\ \A i \in DOMAIN calls : d[calls[i].file] = Len(calls) - i
  /\ Root \in Opened => d[Root] = 0
  /\ \A f \in Opened : \A p \in Places(f) : Linked(f, p) => d[Target(f, p)] = d[f] + 1
DepthInv == \E d \in [Opened -> 0 .. MaxImportDepth] : HasDepths(d)

BudgetInv ==
  /\ files = Cardinality(FilesOf(Opened)) /\ files <= MaxImportFiles
  /\ nodes = Cardinality(NodesOf(Opened)) /\ nodes <= MaxImportNodes

LoadInv ==
  /\ LoaderType /\ CallsInv /\ LinkInv /\ DepthInv /\ BudgetInv
  /\ loading = "refused" => ~ImportTree

-----------------------------------------------------------------------------
(* What the calls of a loader are at.                                      *)

LEMMA CallsTyped ==
  ASSUME LoaderType
  PROVE  /\ Len(calls) \in Nat /\ DOMAIN calls = 1 .. Len(calls)
         /\ \A i \in DOMAIN calls :
              /\ calls[i] \in Frames /\ calls[i].file \in DOMAIN world.text
              /\ calls[i].file \in Active
         /\ \A f \in Active : \E i \in DOMAIN calls : f = calls[i].file
         /\ Opened \in SUBSET DOMAIN world.text /\ IsFiniteSet(Opened)
<1>1. Len(calls) \in Nat /\ DOMAIN calls = 1 .. Len(calls)
      /\ \A i \in DOMAIN calls : calls[i] \in Frames
  BY DEF LoaderType
<1>2. \A i \in DOMAIN calls : calls[i].file \in DOMAIN world.text
  BY <1>1 DEF Frames
<1>3. Opened \in SUBSET DOMAIN world.text
  BY <1>2 DEF Opened, Active, LoaderType
<1>4. IsFiniteSet(Opened)
  BY <1>3, FS_Subset DEF LoaderType, IsDirectory
<1>5. QED
  BY <1>1, <1>2, <1>3, <1>4 DEF Active

LEMMA Entries ==
  ASSUME IsDirectory(world), NEW f \in DOMAIN world.text
  PROVE  LET list == world.text[f].imports IN
         /\ Len(list) \in Nat /\ DOMAIN list = 1 .. Len(list)
         /\ \A e \in DOMAIN list : /\ Len(list[e]) \in Nat /\ DOMAIN list[e] = 1 .. Len(list[e])
                                   /\ list[e] # <<>> <=> Len(list[e]) > 0
         /\ \A e, m : <<e, m>> \in Places(f) <=> e \in DOMAIN list /\ m \in DOMAIN list[e]
         /\ \A p \in Places(f) : p = <<p[1], p[2]>>
<1> DEFINE list == world.text[f].imports
<1>1. list \in Seq(Seq(STRING))
  BY DEF IsDirectory
<1>2. Len(list) \in Nat /\ DOMAIN list = 1 .. Len(list) /\ \A e \in DOMAIN list : list[e] \in Seq(STRING)
  BY <1>1
<1>3. \A s \in Seq(STRING) : Len(s) \in Nat /\ DOMAIN s = 1 .. Len(s) /\ (s # <<>> <=> Len(s) > 0)
  BY EmptySeq, LenProperties
<1>4. \A e, m : <<e, m>> \in Places(f) <=> e \in DOMAIN list /\ m \in DOMAIN list[e]
  BY DEF Places, Positions
<1>5. \A p \in Places(f) : p = <<p[1], p[2]>>
  BY DEF Places, Positions
<1>6. QED
  BY <1>2, <1>3, <1>4, <1>5

\* The innermost call that asks stands at an import.
LEMMA AskingPlace ==
  ASSUME LoaderType, CallsInv, Asking, calls # <<>>
  PROVE  /\ 1 \in DOMAIN calls
         /\ Place(calls[1]) \in Places(calls[1].file)
         /\ Asked = Match(calls[1].file, Place(calls[1]))
<1>1. 1 \in DOMAIN calls
  BY CallsTyped DEF LoaderType
<1>2. AtCall(1)
  BY <1>1 DEF CallsInv
<1>3. QED
  BY <1>1, <1>2 DEF AtCall, Asking, Asked, Match, Imports

\* What is asked for and exists is reached.
LEMMA AskedIsReached ==
  ASSUME LoaderType, CallsInv, LinkInv, Asking, Asked \in DOMAIN world.file
  PROVE  /\ world.file[Asked] \in Reach
         /\ world.file[Asked] \in DOMAIN world.text
<1> DEFINE g == world.file[Asked]
<1>1. g \in DOMAIN world.text
  BY DEF LoaderType, IsDirectory
<1>2. CASE calls = <<>>
  BY <1>1, <1>2 DEF Asked, Reach, Closed, Root
<1>3. CASE calls # <<>>
  <2> DEFINE f == calls[1].file
  <2>1. f \in Reach /\ Place(calls[1]) \in Places(f) /\ Leads(f, Place(calls[1])) /\ Target(f, Place(calls[1])) = g
    BY <1>3, AskingPlace, CallsTyped DEF LinkInv, Opened, Leads, Target
  <2>2. QED
    BY <1>1, <2>1 DEF Reach, Closed
<1>4. QED
  BY <1>1, <1>2, <1>3

-----------------------------------------------------------------------------
(* World-only definitions do not change while the directory does not.      *)

LEMMA WorldKept ==
  ASSUME world' = world
  PROVE  /\ Root' = Root /\ Reach' = Reach /\ Frames' = Frames
         /\ IsDirectory(world)' <=> IsDirectory(world)
         /\ \A f : Places(f)' = Places(f) /\ FilesRead(world.text[f])' = FilesRead(world.text[f])
                   /\ NodesRead(world.text[f])' = NodesRead(world.text[f])
                   /\ (VarsLoad(world.text[f])' <=> VarsLoad(world.text[f]))
                   /\ (Sound(f)' <=> Sound(f))
         /\ \A f, p : (Leads(f, p)' <=> Leads(f, p)) /\ Target(f, p)' = Target(f, p)
<1>1. Root' = Root /\ Frames' = Frames /\ (IsDirectory(world)' <=> IsDirectory(world))
  BY DEF Root, Frames
<1>2. \A f : Places(f)' = Places(f) /\ FilesRead(world.text[f])' = FilesRead(world.text[f])
  BY DEF Places, FilesRead
<1>3. \A f, p : Match(f, p)' = Match(f, p)
  BY DEF Match
<1>4. \A f, p : (Leads(f, p)' <=> Leads(f, p)) /\ Target(f, p)' = Target(f, p)
  BY <1>3 DEF Leads, Target
<1>5. \A path : Text(path)' = Text(path) /\ (Readable(path)' <=> Readable(path))
  BY DEF Text, Readable
<1>6. \A f : VarsLoad(world.text[f])' <=> VarsLoad(world.text[f])
  BY <1>5 DEF VarsLoad
<1>7. \A f : Sound(f)' <=> Sound(f)
  BY <1>2, <1>4, <1>6 DEF Sound
<1>8. \A f, p : NodesAt(world.text[f], p)' = NodesAt(world.text[f], p)
  BY <1>5 DEF NodesAt
<1>9. \A f : NodesRead(world.text[f])' = NodesRead(world.text[f])
  BY <1>2, <1>8 DEF NodesRead
<1>10. \A S : Closed(S)' <=> Closed(S)
  BY <1>1, <1>2, <1>4 DEF Closed
<1>11. Reach' = Reach
  BY <1>10 DEF Reach
<1>12. QED
  BY <1>1, <1>2, <1>4, <1>6, <1>7, <1>9, <1>11

LEMMA TreeKept ==
  ASSUME world' = world
  PROVE  ImportTree' <=> ImportTree
<1>1. \A chain, n : IsChain(chain, n)' <=> IsChain(chain, n)
  BY WorldKept DEF IsChain
<1>2. \A S : FilesOf(S)' = FilesOf(S) /\ NodesOf(S)' = NodesOf(S)
  BY WorldKept DEF FilesOf, NodesOf
<1>3. QED
  BY <1>1, <1>2, WorldKept DEF ImportTree

-----------------------------------------------------------------------------
(* A file is opened.                                                       *)

LEMMA OpenFacts ==
  ASSUME LoaderType, CallsInv, LinkInv, Open, NEW g, g = world.file[Asked]
  PROVE  /\ g \in DOMAIN world.text /\ g \in Reach /\ g \notin Opened
         /\ Len(calls) <= MaxImportDepth /\ Len(calls') = Len(calls) + 1
         /\ DOMAIN calls' = 1 .. Len(calls) + 1 /\ calls' \in Seq(Frames)
         /\ calls'[1] = [file |-> g, entry |-> 1, match |-> 1]
         /\ \A i \in DOMAIN calls : i + 1 \in DOMAIN calls' /\ calls'[i + 1] = calls[i]
         /\ \A i \in DOMAIN calls' : i # 1 => i - 1 \in DOMAIN calls /\ calls'[i] = calls[i - 1]
         /\ Opened' = Opened \cup {g}
         /\ calls = <<>> => g = Root /\ Opened = {} /\ world.root \in DOMAIN world.file
         /\ calls # <<>> => g # Root
<1> DEFINE fr == [file |-> g, entry |-> 1, match |-> 1]
<1>1. Asked \in DOMAIN world.file /\ g \notin Opened /\ Len(calls) <= MaxImportDepth
  BY DEF Open, Accepted, Admissible, Opened
<1>2. g \in DOMAIN world.text /\ g \in Reach
  BY <1>1, AskedIsReached DEF Open
<1>3. fr \in Frames
  BY <1>2 DEF Frames
<1>4. calls' = <<fr>> \o calls /\ calls \in Seq(Frames) /\ <<fr>> \in Seq(Frames)
      /\ Len(<<fr>>) = 1 /\ <<fr>>[1] = fr
  BY <1>3 DEF Open, LoaderType
<1>5. /\ calls' \in Seq(Frames) /\ Len(calls') = 1 + Len(calls)
      /\ \A i \in 1 .. 1 + Len(calls) : calls'[i] = IF i <= 1 THEN <<fr>>[i] ELSE calls[i - 1]
  BY <1>4, ConcatProperties
<1>6. Len(calls) \in Nat /\ DOMAIN calls = 1 .. Len(calls)
  BY CallsTyped
<1>7. Len(calls') = Len(calls) + 1 /\ DOMAIN calls' = 1 .. Len(calls) + 1 /\ calls'[1] = fr
  BY <1>4, <1>5, <1>6
<1>8. \A i \in DOMAIN calls : i + 1 \in DOMAIN calls' /\ calls'[i + 1] = calls[i]
  BY <1>5, <1>6, <1>7
<1>9. \A i \in DOMAIN calls' : i # 1 => i - 1 \in DOMAIN calls /\ calls'[i] = calls[i - 1]
  BY <1>5, <1>6, <1>7
<1>10. Active' = Active \cup {g}
  <2>1. 1 \in DOMAIN calls' /\ calls'[1].file = g
    BY <1>6, <1>7
  <2>2. \A h \in Active' : h = g \/ h \in Active
    BY <1>7, <1>9 DEF Active
  <2>3. \A h \in Active : h \in Active'
    BY <1>8 DEF Active
  <2>4. g \in Active'
    BY <2>1 DEF Active
  <2>5. QED
    BY <2>2, <2>3, <2>4
<1>11. Opened' = Opened \cup {g}
  BY <1>10 DEF Open, Opened
<1>12. ASSUME calls = <<>> PROVE g = Root /\ Opened = {} /\ world.root \in DOMAIN world.file
  BY <1>1, <1>12 DEF Asked, Root, Opened, Active, CallsInv, Open, Asking
<1>13. ASSUME calls # <<>> PROVE g # Root
  <2>1. Len(calls) \in DOMAIN calls /\ calls[Len(calls)].file = Root
    BY <1>6, <1>13, EmptySeq DEF CallsInv, LoaderType
  <2>2. QED
    BY <1>1, <2>1 DEF Opened, Active
<1>14. QED
  BY <1>1, <1>2, <1>5, <1>7, <1>8, <1>9, <1>11, <1>12, <1>13

\* The only new link is from where the innermost call stands.
LEMMA OpenLinks ==
  ASSUME LoaderType, CallsInv, LinkInv, Open
  PROVE  \A f, p : Linked(f, p)' <=>
           \/ Linked(f, p)
           \/ calls # <<>> /\ f = calls[1].file /\ p = Place(calls[1])
<1>1. world' = world /\ loaded' = loaded
  BY DEF Open
<1>2. PICK g : g = world.file[Asked]
  OBVIOUS
<1>3. \A f : Places(f)' = Places(f)
  BY <1>1, WorldKept
<1>4. DOMAIN calls = 1 .. Len(calls) /\ Len(calls) \in Nat
  BY CallsTyped
<1>5. /\ calls'[1] = [file |-> g, entry |-> 1, match |-> 1]
      /\ \A i \in DOMAIN calls : i + 1 \in DOMAIN calls' /\ calls'[i + 1] = calls[i]
      /\ \A i \in DOMAIN calls' : i # 1 => i - 1 \in DOMAIN calls /\ calls'[i] = calls[i - 1]
  BY <1>2, OpenFacts
<1>6. g \in DOMAIN world.text
  BY <1>2, OpenFacts
<1>7. Before(calls[1])' = {}
  <2>1. \A p \in Places(g) : p[1] \in Nat \ {0} /\ p[2] \in Nat \ {0}
    BY <1>6, Entries DEF LoaderType
  <2>2. Positions(Imports(calls'[1])) = Places(g)
    BY <1>5 DEF Imports, Places
  <2>3. Before(calls[1])' = Before(calls'[1])
    BY <1>1 DEF Before, Imports
  <2>4. QED
    BY <1>5, <2>1, <2>2, <2>3 DEF Before
<1>8. \A i \in DOMAIN calls' : i # 1 =>
         Before(calls[i])' = Before(calls[i - 1]) /\ Place(calls[i])' = Place(calls[i - 1])
  BY <1>1, <1>5 DEF Before, Imports, Place
<1>9. ASSUME NEW f, NEW p, Linked(f, p)'
      PROVE  Linked(f, p) \/ (calls # <<>> /\ f = calls[1].file /\ p = Place(calls[1]))
  <2>1. p \in Places(f)
    BY <1>3, <1>9 DEF Linked
  <2>2. CASE f \in loaded
    BY <2>1, <2>2 DEF Linked
  <2>3. CASE f \notin loaded
    <3>1. PICK i \in DOMAIN calls' :
            calls'[i].file = f /\ (p \in Before(calls[i])' \/ (i > 1 /\ p = Place(calls[i])'))
      BY <1>1, <1>9, <2>3 DEF Linked
    <3>2. i # 1
      BY <1>7, <3>1
    <3>3. i - 1 \in DOMAIN calls /\ calls[i - 1].file = f
          /\ (p \in Before(calls[i - 1]) \/ p = Place(calls[i - 1]))
      BY <1>5, <1>8, <3>1, <3>2
    <3>4. CASE i = 2
      BY <1>4, <2>1, <3>3, <3>4, EmptySeq DEF Linked
    <3>5. CASE i # 2
      BY <1>4, <2>1, <3>2, <3>3, <3>5 DEF Linked
    <3>6. QED
      BY <3>4, <3>5
  <2>4. QED
    BY <2>2, <2>3
<1>10. ASSUME NEW f, NEW p, Linked(f, p) PROVE Linked(f, p)'
  <2>1. p \in Places(f)'
    BY <1>3, <1>10 DEF Linked
  <2>2. CASE f \in loaded
    BY <1>1, <2>1, <2>2 DEF Linked
  <2>3. CASE f \notin loaded
    <3>1. PICK i \in DOMAIN calls :
            calls[i].file = f /\ (p \in Before(calls[i]) \/ (i > 1 /\ p = Place(calls[i])))
      BY <1>10, <2>3 DEF Linked
    <3>2. i + 1 \in DOMAIN calls' /\ i + 1 # 1 /\ i + 1 > 1 /\ (i + 1) - 1 = i
      BY <1>4, <1>5
    <3>3. Before(calls[i + 1])' = Before(calls[i]) /\ Place(calls[i + 1])' = Place(calls[i])
      BY <1>8, <3>2
    <3>4. calls'[i + 1].file = f
      BY <1>5, <3>1
    <3>5. QED
      BY <2>1, <3>1, <3>2, <3>3, <3>4 DEF Linked
  <2>4. QED
    BY <2>2, <2>3
<1>11. ASSUME NEW f, NEW p, calls # <<>>, f = calls[1].file, p = Place(calls[1])
       PROVE  Linked(f, p)'
  <2>1. 1 \in DOMAIN calls /\ p \in Places(f)
    BY <1>11, AskingPlace DEF Open
  <2>2. 2 \in DOMAIN calls' /\ calls'[2] = calls[1] /\ 2 > 1
    BY <1>5, <2>1
  <2>3. p \in Places(f)' /\ p = Place(calls[2])' /\ calls'[2].file = f
    BY <1>3, <1>11, <2>1, <2>2 DEF Place
  <2>4. QED
    BY <2>2, <2>3 DEF Linked
<1>12. QED
  BY <1>9, <1>10, <1>11

LEMMA OpenCalls ==
  ASSUME LoaderType, CallsInv, LinkInv, Open
  PROVE  LoaderType' /\ CallsInv'
<1>1. world' = world /\ loaded' = loaded /\ loading' = loading /\ loading = "busy"
  BY DEF Open, Asking
<1>2. PICK g : g = world.file[Asked]
  OBVIOUS
<1>3. /\ calls'[1] = [file |-> g, entry |-> 1, match |-> 1]
      /\ \A i \in DOMAIN calls : i + 1 \in DOMAIN calls' /\ calls'[i + 1] = calls[i]
      /\ \A i \in DOMAIN calls' : i # 1 => i - 1 \in DOMAIN calls /\ calls'[i] = calls[i - 1]
      /\ g \in DOMAIN world.text /\ g \in Reach /\ g \notin Opened
      /\ Len(calls) <= MaxImportDepth /\ Len(calls') = Len(calls) + 1
      /\ DOMAIN calls' = 1 .. Len(calls) + 1 /\ calls' \in Seq(Frames)
      /\ calls = <<>> => g = Root /\ Opened = {} /\ world.root \in DOMAIN world.file
      /\ calls # <<>> => g # Root
  BY <1>2, OpenFacts
<1>4. LoaderType'
  <2>1. files' \in Nat /\ nodes' \in Nat
    <3>1. Text(Asked) = world.text[g] /\ VarsLoad(world.text[g])
      BY <1>2 DEF Open, Accepted, Text
    <3>2. IsFiniteSet(FilesRead(world.text[g])) /\ IsFiniteSet(NodesRead(world.text[g]))
      BY <1>3, <3>1, FilesReadFinite, NodesReadFinite DEF LoaderType
    <3>3. QED
      BY <3>1, <3>2, FS_CardinalityType DEF Open, LoaderType
  <2>2. QED
    BY <1>1, <1>3, <2>1, WorldKept DEF LoaderType
<1>5. Len(calls) \in Nat /\ DOMAIN calls = 1 .. Len(calls)
  BY CallsTyped
<1>6. \A i \in DOMAIN calls' : AtCall(i)' /\ calls'[i].file \notin loaded'
  <2>1. ASSUME NEW i \in DOMAIN calls', i = 1 PROVE AtCall(i)' /\ calls'[i].file \notin loaded'
    <3> DEFINE list == world.text[g].imports
    <3>1. Imports(calls[i])' = list /\ Places(g)' = Places(g)
      BY <1>1, <1>3, <2>1, WorldKept DEF Imports
    <3>2. /\ Len(list) \in Nat /\ DOMAIN list = 1 .. Len(list)
          /\ \A e \in DOMAIN list : /\ Len(list[e]) \in Nat /\ DOMAIN list[e] = 1 .. Len(list[e])
                                    /\ list[e] # <<>> <=> Len(list[e]) > 0
          /\ \A e, m : <<e, m>> \in Places(g) <=> e \in DOMAIN list /\ m \in DOMAIN list[e]
      BY <1>3, Entries DEF LoaderType
    <3>3. calls'[i].file = g /\ calls'[i].entry = 1 /\ calls'[i].match = 1
      BY <1>3, <2>1
    <3> HIDE DEF list
    <3>4. 1 = Len(list) + 1 \/ list[1] = <<>> \/ <<1, 1>> \in Places(g)
      BY <3>2
    <3>5. calls'[i].entry <= Len(list) + 1 /\ ~(i > 1) /\ 1 .. calls'[i].entry - 1 = {}
      BY <2>1, <3>2, <3>3
    <3>6. Exhausted(calls[i])' \/ Matchless(calls[i])' \/ (Place(calls[i]) \in Places(calls[i].file))'
      <4>1. Places(calls[i].file)' = Places(g)
        BY <1>1, <3>3 DEF Places
      <4>2. QED
        BY <3>1, <3>3, <3>4, <4>1 DEF Exhausted, Matchless, Place
    <3>7. AtCall(i)'
      BY <3>1, <3>3, <3>5, <3>6 DEF AtCall
    <3>8. QED
      BY <1>1, <1>3, <3>3, <3>7 DEF Opened
  <2>2. ASSUME NEW i \in DOMAIN calls', i # 1 PROVE AtCall(i)' /\ calls'[i].file \notin loaded'
    <3> DEFINE c == calls[i - 1]
    <3>1. i - 1 \in DOMAIN calls /\ calls'[i] = c /\ AtCall(i - 1) /\ c.file \notin loaded /\ i > 1
      BY <1>3, <1>5, <2>2 DEF CallsInv
    <3>2. Imports(calls[i])' = Imports(c) /\ Place(calls[i])' = Place(c) /\ (Exhausted(calls[i])' <=> Exhausted(c))
          /\ (Matchless(calls[i])' <=> Matchless(c)) /\ Places(calls[i].file)' = Places(c.file)
      BY <1>1, <3>1 DEF Imports, Place, Exhausted, Matchless, Places
    <3>3. (Leads(calls[i].file, Place(calls[i]))' <=> Leads(c.file, Place(c)))
          /\ Target(calls[i].file, Place(calls[i]))' = Target(c.file, Place(c))
      BY <1>1, <3>1, <3>2 DEF Leads, Target, Match
    <3>4. Place(c) \in Places(c.file) /\ Leads(c.file, Place(c)) /\ Target(c.file, Place(c)) = calls'[i - 1].file
      <4>1. CASE i = 2
        <5>1. calls # <<>> /\ c = calls[1]
          BY <1>5, <3>1, <4>1, EmptySeq
        <5>2. Place(c) \in Places(c.file) /\ Asked = Match(c.file, Place(c))
          BY <5>1, AskingPlace DEF Open
        <5>3. Asked \in DOMAIN world.file
          BY DEF Open, Accepted, Admissible
        <5>4. calls'[i - 1].file = g
          BY <1>3, <4>1
        <5>5. QED
          BY <1>2, <5>2, <5>3, <5>4 DEF Leads, Target
      <4>2. CASE i # 2
        <5>1. i - 1 > 1 /\ i - 2 \in DOMAIN calls /\ calls'[i - 1] = calls[(i - 1) - 1]
          BY <1>3, <1>5, <3>1, <4>2
        <5>2. QED
          BY <3>1, <5>1 DEF AtCall
      <4>3. QED
        BY <4>1, <4>2
    <3>5. QED
      BY <1>1, <3>1, <3>2, <3>3, <3>4 DEF AtCall
  <2>3. QED
    BY <2>1, <2>2
<1>7. \A i, j \in DOMAIN calls' : i # j => calls'[i].file # calls'[j].file
  <2>1. \A i \in DOMAIN calls : calls[i].file \in Opened
    BY CallsTyped DEF Opened
  <2>2. calls'[1].file = g
    BY <1>3
  <2>3. \A i \in DOMAIN calls' : i # 1 => calls'[i].file \in Opened
    BY <1>3, <2>1
  <2>4. ASSUME NEW i \in DOMAIN calls', NEW j \in DOMAIN calls', i # j
        PROVE  calls'[i].file # calls'[j].file
    <3>1. CASE i = 1 \/ j = 1
      BY <1>3, <2>2, <2>3, <2>4, <3>1
    <3>2. CASE i # 1 /\ j # 1
      <4>1. i - 1 \in DOMAIN calls /\ j - 1 \in DOMAIN calls /\ i - 1 # j - 1
        BY <1>3, <1>5, <2>4, <3>2
      <4>2. QED
        BY <1>3, <3>2, <4>1 DEF CallsInv
    <3>3. QED
      BY <3>1, <3>2
  <2>5. QED
    BY <2>4
<1>8. world.root \in DOMAIN world.file /\ calls'[Len(calls')].file = Root
  <2>1. CASE calls = <<>>
    BY <1>3, <1>5, <2>1
  <2>2. CASE calls # <<>>
    <3>1. Len(calls) \in DOMAIN calls /\ calls[Len(calls)].file = Root /\ world.root \in DOMAIN world.file
      BY <1>5, <2>2, EmptySeq DEF CallsInv, LoaderType
    <3>2. QED
      BY <1>3, <1>5, <3>1
  <2>3. QED
    BY <2>1, <2>2
<1>9. calls' # <<>> /\ Len(calls') <= MaxImportDepth + 1
  BY <1>3, <1>5, BudgetAssumption, EmptySeq
<1>10. Root' = Root
  BY <1>1, WorldKept
<1>11. QED
  BY <1>1, <1>4, <1>6, <1>7, <1>8, <1>9, <1>10 DEF CallsInv

LEMMA OpenLinkInv ==
  ASSUME LoaderType, CallsInv, LinkInv, Open
  PROVE  LinkInv'
<1>1. world' = world /\ loaded' = loaded /\ Root' = Root /\ Reach' = Reach
  BY WorldKept DEF Open
<1>2. PICK g : g = world.file[Asked]
  OBVIOUS
<1>3. /\ g \in DOMAIN world.text /\ g \in Reach /\ g \notin Opened
      /\ Opened' = Opened \cup {g}
      /\ calls = <<>> => g = Root /\ Opened = {}
      /\ calls # <<>> => g # Root
  BY <1>2, OpenFacts
<1>4. PICK h, q : h = calls[1].file /\ q = Place(calls[1])
  OBVIOUS
<1>5. \A f, p : Linked(f, p)' <=> Linked(f, p) \/ (calls # <<>> /\ f = h /\ p = q)
  BY <1>4, OpenLinks
<1>6. calls # <<>> => /\ h \in Opened /\ q \in Places(h) /\ Leads(h, q) /\ Target(h, q) = g
  <2>1. ASSUME calls # <<>> PROVE h \in Opened /\ q \in Places(h) /\ Leads(h, q) /\ Target(h, q) = g
    <3>1. 1 \in DOMAIN calls /\ q \in Places(h) /\ Asked = Match(h, q)
      BY <1>4, <2>1, AskingPlace DEF Open
    <3>2. h \in Opened
      BY <1>4, <3>1, CallsTyped DEF Opened
    <3>3. Asked \in DOMAIN world.file
      BY DEF Open, Accepted, Admissible
    <3>4. QED
      BY <1>2, <3>1, <3>2, <3>3 DEF Leads, Target
  <2>2. QED
    BY <2>1
<1>7. \A f, p : Linked(f, p) => f \in Opened /\ p \in Places(f)
  BY CallsTyped DEF Linked, Opened
<1>8. /\ \A f : Places(f)' = Places(f) /\ (VarsLoad(world.text[f])' <=> VarsLoad(world.text[f]))
      /\ \A f, p : (Leads(f, p)' <=> Leads(f, p)) /\ Target(f, p)' = Target(f, p)
  BY <1>1, WorldKept
<1>9. \A f \in Opened' : f \in Reach' /\ ~world'.text[f].broken /\ VarsLoad(world.text[f])'
  <2>1. ~world.text[g].broken /\ VarsLoad(world.text[g])
    BY <1>2 DEF Open, Accepted, Readable, Text
  <2>2. QED
    BY <1>1, <1>3, <1>8, <2>1 DEF LinkInv
<1>10. Opened # {} => Root \in Opened
  <2>1. ASSUME calls # <<>> PROVE Root \in Opened
    <3>1. Len(calls) \in DOMAIN calls /\ calls[Len(calls)].file = Root
      BY <2>1, CallsTyped, EmptySeq DEF CallsInv, LoaderType
    <3>2. QED
      BY <3>1, CallsTyped DEF Opened
  <2>2. QED
    BY <1>3, <2>1
<1>11. \A f, p : Linked(f, p)' => Leads(f, p) /\ Target(f, p) \in Opened' /\ Target(f, p) # Root
  BY <1>3, <1>5, <1>6, <1>7 DEF LinkInv
<1>12. ASSUME NEW f, NEW p, NEW e, NEW s, Linked(f, p)', Linked(e, s)', Target(f, p) = Target(e, s)
       PROVE  f = e /\ p = s
  <2>1. CASE Linked(f, p) /\ Linked(e, s)
    BY <1>7, <1>12, <2>1 DEF LinkInv
  <2>2. CASE ~Linked(f, p) /\ ~Linked(e, s)
    BY <1>5, <1>12, <2>2
  <2>3. CASE Linked(f, p) /\ ~Linked(e, s)
    <3>1. Target(f, p) \in Opened /\ Target(e, s) = g
      BY <1>5, <1>6, <1>7, <1>12, <2>3 DEF LinkInv
    <3>2. QED
      BY <1>3, <1>12, <3>1
  <2>4. CASE ~Linked(f, p) /\ Linked(e, s)
    <3>1. Target(e, s) \in Opened /\ Target(f, p) = g
      BY <1>5, <1>6, <1>7, <1>12, <2>4 DEF LinkInv
    <3>2. QED
      BY <1>3, <1>12, <3>1
  <2>5. QED
    BY <2>1, <2>2, <2>3, <2>4
<1>13. ASSUME NEW x \in Opened' \ {Root}
       PROVE  \E f \in Opened' : \E p \in Places(f) : Linked(f, p)' /\ Target(f, p) = x
  <2>1. CASE x = g
    <3>1. calls # <<>>
      BY <1>3, <1>13, <2>1
    <3>2. Linked(h, q)' /\ h \in Opened' /\ q \in Places(h) /\ Target(h, q) = x
      BY <1>3, <1>5, <1>6, <2>1, <3>1
    <3>3. QED
      BY <3>2
  <2>2. CASE x # g
    <3>1. PICK f \in Opened : \E p \in Places(f) : Linked(f, p) /\ Target(f, p) = x
      BY <1>3, <1>13, <2>2 DEF LinkInv
    <3>2. QED
      BY <1>3, <1>5, <3>1
  <2>3. QED
    BY <2>1, <2>2
<1>14. \A f \in loaded : \A i \in DOMAIN world.text[f].imports : world.text[f].imports[i] # <<>>
  BY DEF LinkInv
<1>15. QED
  <2>1. \A f \in Opened' : \A p \in Places(f)' :
          Linked(f, p)' => Leads(f, p)' /\ Target(f, p)' \in Opened' /\ Target(f, p)' # Root'
    BY <1>1, <1>8, <1>11
  <2>2. \A f, e \in Opened' : \A p \in Places(f)', s \in Places(e)' :
          Linked(f, p)' /\ Linked(e, s)' /\ Target(f, p)' = Target(e, s)' => f = e /\ p = s
    BY <1>8, <1>12
  <2>3. \A x \in Opened' \ {Root'} : \E f \in Opened' : \E p \in Places(f)' : Linked(f, p)' /\ Target(f, p)' = x
    BY <1>1, <1>8, <1>13
  <2>4. QED
    BY <1>1, <1>9, <1>14, <2>1, <2>2, <2>3 DEF LinkInv

\* The new file is as deep as there are calls.
LEMMA OpenDepths ==
  ASSUME LoaderType, CallsInv, LinkInv, DepthInv, Open
  PROVE  DepthInv'
<1>1. world' = world /\ Root' = Root
  BY WorldKept DEF Open
<1>2. PICK g : g = world.file[Asked]
  OBVIOUS
<1>3. /\ g \notin Opened /\ Opened' = Opened \cup {g} /\ calls'[1] = [file |-> g, entry |-> 1, match |-> 1]
      /\ \A i \in DOMAIN calls' : i # 1 => i - 1 \in DOMAIN calls /\ calls'[i] = calls[i - 1]
      /\ Len(calls) <= MaxImportDepth /\ Len(calls') = Len(calls) + 1 /\ DOMAIN calls' = 1 .. Len(calls) + 1
      /\ calls = <<>> => g = Root /\ Opened = {}
      /\ calls # <<>> => g # Root
  BY <1>2, OpenFacts
<1>4. PICK h, q : h = calls[1].file /\ q = Place(calls[1])
  OBVIOUS
<1>5. \A f, p : Linked(f, p)' <=> Linked(f, p) \/ (calls # <<>> /\ f = h /\ p = q)
  BY <1>4, OpenLinks
<1>6. /\ \A f : Places(f)' = Places(f)
      /\ \A f, p : Target(f, p)' = Target(f, p)
  BY <1>1, WorldKept
<1>7. Len(calls) \in Nat /\ DOMAIN calls = 1 .. Len(calls) /\ \A i \in DOMAIN calls : calls[i].file \in Opened
  BY CallsTyped DEF Opened
<1>8. calls # <<>> => 1 \in DOMAIN calls /\ h \in Opened /\ Target(h, q) = g
  <2>1. calls # <<>> => 1 \in DOMAIN calls /\ q \in Places(h) /\ Asked = Match(h, q)
    BY <1>4, AskingPlace DEF Open
  <2>2. QED
    BY <1>2, <1>4, <1>7, <2>1 DEF Target
<1>9. calls = <<>> => Len(calls) = 0
  BY EmptySeq
<1>10. PICK d \in [Opened -> 0 .. MaxImportDepth] : HasDepths(d)
  BY DEF DepthInv
<1>e. PICK e : e = [x \in Opened \cup {g} |-> IF x = g THEN Len(calls) ELSE d[x]]
  OBVIOUS
<1>11. e \in [Opened' -> 0 .. MaxImportDepth]
  BY <1>e, <1>3, <1>7, <1>10, BudgetAssumption
<1>12. e[g] = Len(calls) /\ \A x \in Opened : e[x] = d[x]
  BY <1>e, <1>3
<1>13. \A i \in DOMAIN calls' : e[calls'[i].file] = Len(calls') - i
  <2>1. calls'[1].file = g
    BY <1>3
  <2>2. \A i \in DOMAIN calls : d[calls[i].file] = Len(calls) - i
    BY <1>10 DEF HasDepths
  <2>3. ASSUME NEW i \in DOMAIN calls', i # 1 PROVE e[calls'[i].file] = Len(calls') - i
    <3>1. i - 1 \in DOMAIN calls /\ calls'[i] = calls[i - 1]
      BY <1>3, <2>3
    <3>2. e[calls'[i].file] = Len(calls) - (i - 1)
      BY <1>7, <1>12, <2>2, <3>1
    <3>3. QED
      BY <1>3, <1>7, <3>1, <3>2
  <2>4. QED
    BY <1>3, <1>7, <1>12, <2>1, <2>3
<1>14. Root \in Opened' => e[Root] = 0
  <2>1. CASE calls = <<>>
    BY <1>3, <1>9, <1>12, <2>1
  <2>2. CASE calls # <<>>
    BY <1>3, <1>10, <1>12, <2>2 DEF HasDepths
  <2>3. QED
    BY <2>1, <2>2
<1>15. ASSUME NEW f \in Opened', NEW p \in Places(f), Linked(f, p)'
       PROVE  e[Target(f, p)] = e[f] + 1
  <2>1. CASE Linked(f, p)
    <3>1. f \in Opened
      BY <2>1, CallsTyped DEF Linked, Opened
    <3>2. Target(f, p) \in Opened /\ d[Target(f, p)] = d[f] + 1
      BY <1>10, <1>15, <2>1, <3>1 DEF LinkInv, HasDepths
    <3>3. QED
      BY <1>12, <3>1, <3>2
  <2>2. CASE ~Linked(f, p)
    <3>1. calls # <<>> /\ f = h /\ p = q
      BY <1>5, <1>15, <2>2
    <3>2. d[h] = Len(calls) - 1
      BY <1>4, <1>8, <1>10, <3>1 DEF HasDepths
    <3>3. QED
      BY <1>7, <1>8, <1>12, <3>1, <3>2
  <2>3. QED
    BY <2>1, <2>2
<1>16. HasDepths(e)'
  BY <1>1, <1>6, <1>13, <1>14, <1>15 DEF HasDepths
<1>17. QED
  BY <1>11, <1>16 DEF DepthInv

LEMMA OpenBudget ==
  ASSUME LoaderType, CallsInv, LinkInv, BudgetInv, Open
  PROVE  BudgetInv'
<1>1. world' = world
  BY DEF Open
<1>2. PICK g : g = world.file[Asked]
  OBVIOUS
<1>3. g \in DOMAIN world.text /\ g \notin Opened /\ Opened' = Opened \cup {g}
  BY <1>2, OpenFacts
<1> DEFINE F == [f \in DOMAIN world.text |-> FilesRead(world.text[f])]
           N == [f \in DOMAIN world.text |-> NodesRead(world.text[f])]
<1>4. Opened \in SUBSET DOMAIN world.text /\ IsFiniteSet(Opened)
  BY CallsTyped
<1>5. \A S \in SUBSET DOMAIN world.text : FilesOf(S) = Pieces(F, S) /\ NodesOf(S) = Pieces(N, S)
  BY DEF FilesOf, NodesOf, Pieces
<1>6. \A f \in Opened \cup {g} : IsFiniteSet(F[f]) /\ IsFiniteSet(N[f])
  <2>1. VarsLoad(world.text[g])
    BY <1>2 DEF Open, Accepted, Text
  <2>2. \A f \in Opened \cup {g} : f \in DOMAIN world.text /\ VarsLoad(world.text[f])
    BY <1>3, <1>4, <2>1 DEF LinkInv
  <2>3. QED
    BY <2>2, FilesReadFinite, NodesReadFinite DEF LoaderType
<1>7. /\ Cardinality(FilesOf(Opened \cup {g})) = files + Cardinality(FilesRead(world.text[g]))
      /\ Cardinality(NodesOf(Opened \cup {g})) = nodes + Cardinality(NodesRead(world.text[g]))
  <2>1. Opened \cup {g} \in SUBSET DOMAIN world.text
    BY <1>3, <1>4
  <2>2. F[g] = FilesRead(world.text[g]) /\ N[g] = NodesRead(world.text[g])
    BY <1>3
  <2> HIDE DEF F, N
  <2>3. Cardinality(Pieces(F, Opened \cup {g})) = Cardinality(Pieces(F, Opened)) + Cardinality(F[g])
    BY <1>3, <1>4, <1>6, PiecesAdd
  <2>4. Cardinality(Pieces(N, Opened \cup {g})) = Cardinality(Pieces(N, Opened)) + Cardinality(N[g])
    BY <1>3, <1>4, <1>6, PiecesAdd
  <2>5. QED
    BY <1>4, <1>5, <2>1, <2>2, <2>3, <2>4, Zenon DEF BudgetInv
<1>8. \A S : FilesOf(S)' = FilesOf(S) /\ NodesOf(S)' = NodesOf(S)
  BY <1>1, WorldKept DEF FilesOf, NodesOf
<1>9. FilesOf(Opened)' = FilesOf(Opened \cup {g}) /\ NodesOf(Opened)' = NodesOf(Opened \cup {g})
  BY <1>1, <1>3, WorldKept DEF FilesOf, NodesOf
<1>10. QED
  <2>1. /\ files' = files + Cardinality(FilesRead(world.text[g])) /\ files' <= MaxImportFiles
        /\ nodes' = nodes + Cardinality(NodesRead(world.text[g])) /\ nodes' <= MaxImportNodes
    BY <1>2 DEF Open, Accepted, WithinBudget, Text
  <2>2. QED
    BY <1>7, <1>9, <2>1 DEF BudgetInv

-----------------------------------------------------------------------------
(* A call returns.                                                         *)

LEMMA Advancing ==
  ASSUME IsDirectory(world), NEW c \in Frames, Place(c) \in Places(c.file),
         \A e \in 1 .. c.entry - 1 : Imports(c)[e] # <<>>
  PROVE  /\ Advanced(c) \in Frames /\ Advanced(c).file = c.file
         /\ Before(Advanced(c)) = Before(c) \cup {Place(c)}
         /\ Advanced(c).entry <= Len(Imports(c)) + 1
         /\ \A e \in 1 .. Advanced(c).entry - 1 : Imports(c)[e] # <<>>
         /\ Exhausted(Advanced(c)) \/ Matchless(Advanced(c)) \/ Place(Advanced(c)) \in Places(c.file)
<1> DEFINE list == world.text[c.file].imports
           a == Advanced(c)
<1>1. c.file \in DOMAIN world.text /\ c.entry \in Nat \ {0} /\ c.match \in Nat \ {0}
      /\ c = [file |-> c.file, entry |-> c.entry, match |-> c.match]
  BY DEF Frames
<1>2. /\ Len(list) \in Nat /\ DOMAIN list = 1 .. Len(list)
      /\ \A e \in DOMAIN list : /\ Len(list[e]) \in Nat /\ DOMAIN list[e] = 1 .. Len(list[e])
                                /\ list[e] # <<>> <=> Len(list[e]) > 0
      /\ \A e, m : <<e, m>> \in Places(c.file) <=> e \in DOMAIN list /\ m \in DOMAIN list[e]
      /\ \A p \in Places(c.file) : p = <<p[1], p[2]>>
  BY <1>1, Entries
<1>3. Imports(c) = list /\ Positions(list) = Places(c.file)
  BY DEF Imports, Places
<1>4. c.entry \in DOMAIN list /\ c.match \in 1 .. Len(list[c.entry]) /\ list[c.entry] # <<>>
  <2> HIDE DEF list
  <2>1. c.entry \in DOMAIN list /\ c.match \in DOMAIN list[c.entry]
    BY <1>2 DEF Place
  <2>2. QED
    BY <1>2, <2>1
<1>5. a = [file |-> c.file,
           entry |-> IF c.match = Len(list[c.entry]) THEN c.entry + 1 ELSE c.entry,
           match |-> IF c.match = Len(list[c.entry]) THEN 1 ELSE c.match + 1]
  BY <1>1, <1>3 DEF Advanced
<1>6. Imports(a) = list
  BY <1>5 DEF Imports
<1> HIDE DEF list, a
<1>7. a \in Frames /\ a.file = c.file
  BY <1>1, <1>5 DEF Frames
<1>8. a.entry <= Len(list) + 1 /\ \A e \in 1 .. a.entry - 1 : list[e] # <<>>
  BY <1>1, <1>2, <1>3, <1>4, <1>5
<1>9. Exhausted(a) \/ Matchless(a) \/ Place(a) \in Places(c.file)
  <2>1. CASE c.match = Len(list[c.entry])
    <3>1. a.entry = c.entry + 1 /\ a.match = 1
      BY <1>5, <2>1
    <3>2. c.entry + 1 = Len(list) + 1 \/ c.entry + 1 \in DOMAIN list
      BY <1>1, <1>2, <1>4
    <3>3. c.entry + 1 \in DOMAIN list => list[c.entry + 1] = <<>> \/ 1 \in DOMAIN list[c.entry + 1]
      BY <1>2
    <3>4. QED
      BY <1>2, <1>6, <3>1, <3>2, <3>3 DEF Exhausted, Matchless, Place
  <2>2. CASE c.match # Len(list[c.entry])
    <3>1. a.entry = c.entry /\ a.match = c.match + 1 /\ c.match + 1 \in DOMAIN list[c.entry]
      BY <1>2, <1>4, <1>5, <2>2
    <3>2. QED
      BY <1>2, <1>4, <3>1 DEF Place
  <2>3. QED
    BY <2>1, <2>2
<1>10. ASSUME NEW p \in Places(c.file)
       PROVE  p[1] < a.entry \/ (p[1] = a.entry /\ p[2] < a.match)
                <=> p[1] < c.entry \/ (p[1] = c.entry /\ p[2] < c.match) \/ p = <<c.entry, c.match>>
  <2>1. PICK e, m : p = <<e, m>> /\ e \in DOMAIN list /\ m \in DOMAIN list[e] /\ e = p[1] /\ m = p[2]
    BY <1>2, <1>10
  <2>2. e \in Nat \ {0} /\ m \in Nat \ {0} /\ (e = c.entry => m <= Len(list[c.entry]))
    BY <1>2, <2>1
  <2>3. p = <<c.entry, c.match>> <=> e = c.entry /\ m = c.match
    BY <2>1
  <2>4. CASE c.match = Len(list[c.entry])
    <3>1. a.entry = c.entry + 1 /\ a.match = 1
      BY <1>5, <2>4
    <3>2. QED
      BY <1>1, <2>1, <2>2, <2>3, <2>4, <3>1
  <2>5. CASE c.match # Len(list[c.entry])
    <3>1. a.entry = c.entry /\ a.match = c.match + 1
      BY <1>5, <2>5
    <3>2. QED
      BY <1>1, <2>1, <2>2, <2>3, <3>1
  <2>6. QED
    BY <2>4, <2>5
<1>11. Before(a) = Before(c) \cup {Place(c)}
  BY <1>3, <1>6, <1>10 DEF Before, Place
<1>12. QED
  BY <1>3, <1>7, <1>8, <1>9, <1>11 DEF a

LEMMA ReturnFacts ==
  ASSUME LoaderType, CallsInv, ReturnImport
  PROVE  /\ 1 \in DOMAIN calls /\ loaded' = loaded \cup {calls[1].file}
         /\ world' = world /\ files' = files /\ nodes' = nodes
         /\ calls' \in Seq(Frames) /\ Len(calls') = Len(calls) - 1 /\ DOMAIN calls' = 1 .. Len(calls) - 1
         /\ \A i \in DOMAIN calls' : /\ i + 1 \in DOMAIN calls
                                     /\ calls'[i] = IF i = 1 THEN Advanced(calls[2]) ELSE calls[i + 1]
                                     /\ calls'[i].file = calls[i + 1].file
         /\ Len(calls) = 1 => loading' = "ok" /\ calls' = <<>>
         /\ Len(calls) # 1 => loading' = "busy" /\ calls' # <<>>
         /\ Opened' = Opened
<1>1. calls # <<>> /\ calls \in Seq(Frames) /\ loading = "busy"
  BY DEF ReturnImport, LoaderType
<1>2. Len(calls) \in Nat \ {0} /\ DOMAIN calls = 1 .. Len(calls) /\ 1 \in DOMAIN calls
  BY <1>1, EmptySeq, CallsTyped
<1>3. world' = world /\ files' = files /\ nodes' = nodes /\ loaded' = loaded \cup {calls[1].file}
  BY DEF ReturnImport
<1>4. /\ calls' \in Seq(Frames) /\ Len(calls') = Len(calls) - 1 /\ DOMAIN calls' = 1 .. Len(calls) - 1
      /\ \A i \in DOMAIN calls' : /\ i + 1 \in DOMAIN calls
                                  /\ calls'[i] = IF i = 1 THEN Advanced(calls[2]) ELSE calls[i + 1]
                                  /\ calls'[i].file = calls[i + 1].file
      /\ Len(calls) = 1 => loading' = "ok" /\ calls' = <<>>
      /\ Len(calls) # 1 => loading' = "busy" /\ calls' # <<>>
  <2>1. CASE Len(calls) = 1
    <3>1. calls' = <<>> /\ loading' = "ok"
      BY <2>1 DEF ReturnImport
    <3>2. QED
      BY <2>1, <3>1, EmptySeq
  <2>2. CASE Len(calls) # 1
    <3> DEFINE t == Tail(calls)
    <3>1. calls' = [t EXCEPT ![1] = Advanced(@)] /\ loading' = "busy"
      BY <1>1, <2>2 DEF ReturnImport
    <3>2. t \in Seq(Frames) /\ Len(t) = Len(calls) - 1 /\ DOMAIN t = 1 .. Len(calls) - 1
          /\ \A i \in 1 .. Len(t) : t[i] = calls[i + 1]
      BY <1>1, HeadTailProperties
    <3>3. 1 \in 1 .. Len(t) /\ t[1] = calls[2] /\ 2 \in DOMAIN calls
      BY <1>2, <2>2, <3>2
    <3>4. Advanced(calls[2]) \in Frames /\ Advanced(calls[2]).file = calls[2].file
      <4>1. AtCall(2) /\ calls[2] \in Frames
        BY <3>3, CallsTyped DEF CallsInv
      <4>2. Place(calls[2]) \in Places(calls[2].file) /\ \A e \in 1 .. calls[2].entry - 1 : Imports(calls[2])[e] # <<>>
        BY <4>1 DEF AtCall
      <4>3. QED
        BY <4>1, <4>2, Advancing DEF LoaderType
    <3> HIDE DEF t
    <3>5. /\ calls' \in Seq(Frames) /\ Len(calls') = Len(t)
          /\ \A j \in 1 .. Len(t) : calls'[j] = IF j = 1 THEN Advanced(calls[2]) ELSE t[j]
      BY <3>1, <3>2, <3>3, <3>4, ExceptSeq
    <3>6. DOMAIN calls' = 1 .. Len(calls) - 1
      BY <3>1, <3>2
    <3>7. ASSUME NEW i \in DOMAIN calls'
          PROVE  /\ i + 1 \in DOMAIN calls
                 /\ calls'[i] = IF i = 1 THEN Advanced(calls[2]) ELSE calls[i + 1]
                 /\ calls'[i].file = calls[i + 1].file
      <4>1. i \in 1 .. Len(t) /\ i + 1 \in DOMAIN calls
        BY <1>2, <3>2, <3>6, <3>7
      <4>2. calls'[i] = IF i = 1 THEN Advanced(calls[2]) ELSE calls[i + 1]
        BY <3>2, <3>5, <4>1
      <4>3. QED
        BY <3>4, <4>1, <4>2
    <3>8. calls' # <<>>
      BY <3>3, <3>5, EmptySeq
    <3>9. QED
      BY <2>2, <3>1, <3>2, <3>5, <3>6, <3>7, <3>8
  <2>3. QED
    BY <2>1, <2>2
<1>5. Opened' = Opened
  <2>1. \A f \in Active' : f \in Active
    BY <1>4, CallsTyped DEF Active
  <2>2. ASSUME NEW f \in Active PROVE f \in Active' \/ f = calls[1].file
    <3>1. PICK i \in DOMAIN calls : f = calls[i].file
      BY CallsTyped
    <3>2. CASE i # 1
      <4>1. i - 1 \in DOMAIN calls' /\ (i - 1) + 1 = i
        BY <1>2, <1>4, <3>2
      <4>2. QED
        BY <1>4, <3>1, <4>1 DEF Active
    <3>3. QED
      BY <3>1, <3>2
  <2>3. calls[1].file \in Active
    BY <1>2, CallsTyped
  <2>4. QED
    BY <1>3, <2>1, <2>2, <2>3 DEF Opened
<1>6. QED
  BY <1>2, <1>3, <1>4, <1>5

LEMMA ReturnLinks ==
  ASSUME LoaderType, CallsInv, ReturnImport
  PROVE  \A f, p : Linked(f, p)' <=> Linked(f, p)
<1>1. /\ 1 \in DOMAIN calls /\ loaded' = loaded \cup {calls[1].file} /\ world' = world
      /\ \A i \in DOMAIN calls' : /\ i + 1 \in DOMAIN calls
                                  /\ calls'[i] = IF i = 1 THEN Advanced(calls[2]) ELSE calls[i + 1]
                                  /\ calls'[i].file = calls[i + 1].file
      /\ DOMAIN calls' = 1 .. Len(calls) - 1
  BY ReturnFacts
<1>2. \A f : Places(f)' = Places(f)
  BY <1>1, WorldKept
<1>3. Len(calls) \in Nat /\ DOMAIN calls = 1 .. Len(calls)
  BY CallsTyped
<1>4. \A p \in Places(calls[1].file) : p \in Before(calls[1])
  <2> DEFINE c == calls[1]
  <2>1. c \in Frames /\ Exhausted(c) /\ c.file \in DOMAIN world.text
    BY <1>1, CallsTyped DEF ReturnImport
  <2>2. \A p \in Places(c.file) : p = <<p[1], p[2]>> /\ p[1] \in 1 .. Len(Imports(c)) /\ Len(Imports(c)) \in Nat
    BY <2>1, Entries DEF LoaderType, Imports
  <2>3. \A p \in Places(c.file) : p[1] < c.entry
    BY <2>1, <2>2 DEF Exhausted
  <2>4. QED
    BY <2>3 DEF Before, Places, Imports
<1>5. ASSUME NEW i \in DOMAIN calls', NEW p, p \in Places(calls[i + 1].file)
      PROVE  p \in Before(calls[i])' \/ (i > 1 /\ p = Place(calls[i])')
               <=> p \in Before(calls[i + 1]) \/ p = Place(calls[i + 1])
  <2>1. CASE i = 1
    <3>1. 2 \in DOMAIN calls /\ calls'[i] = Advanced(calls[2])
      BY <1>1, <2>1
    <3>2. Before(calls[i])' = Before(Advanced(calls[2]))
      BY <1>1, <3>1 DEF Before, Imports
    <3>3. Before(Advanced(calls[2])) = Before(calls[2]) \cup {Place(calls[2])}
      <4>1. AtCall(2) /\ calls[2] \in Frames
        BY <3>1, CallsTyped DEF CallsInv
      <4>2. Place(calls[2]) \in Places(calls[2].file) /\ \A e \in 1 .. calls[2].entry - 1 : Imports(calls[2])[e] # <<>>
        BY <4>1 DEF AtCall
      <4>3. QED
        BY <4>1, <4>2, Advancing DEF LoaderType
    <3>4. QED
      BY <2>1, <3>2, <3>3
  <2>2. CASE i # 1
    <3>1. calls'[i] = calls[i + 1] /\ i > 1
      BY <1>1, <1>3, <2>2
    <3>2. Before(calls[i])' = Before(calls[i + 1]) /\ Place(calls[i])' = Place(calls[i + 1])
      BY <1>1, <3>1 DEF Before, Imports, Place
    <3>3. QED
      BY <3>1, <3>2
  <2>3. QED
    BY <2>1, <2>2
<1>6. ASSUME NEW f, NEW p, Linked(f, p)' PROVE Linked(f, p)
  <2>1. p \in Places(f)
    BY <1>2, <1>6 DEF Linked
  <2>2. CASE f \in loaded
    BY <2>1, <2>2 DEF Linked
  <2>3. CASE f = calls[1].file
    BY <1>1, <1>4, <2>1, <2>3 DEF Linked
  <2>4. CASE f \notin loaded /\ f # calls[1].file
    <3>1. PICK i \in DOMAIN calls' :
            calls'[i].file = f /\ (p \in Before(calls[i])' \/ (i > 1 /\ p = Place(calls[i])'))
      BY <1>1, <1>6, <2>4 DEF Linked
    <3>2. i + 1 \in DOMAIN calls /\ calls[i + 1].file = f /\ i + 1 > 1
      BY <1>1, <1>3, <3>1
    <3>3. p \in Before(calls[i + 1]) \/ p = Place(calls[i + 1])
      BY <1>5, <2>1, <3>1, <3>2
    <3>4. QED
      BY <2>1, <3>2, <3>3 DEF Linked
  <2>5. QED
    BY <2>2, <2>3, <2>4
<1>7. ASSUME NEW f, NEW p, Linked(f, p) PROVE Linked(f, p)'
  <2>1. p \in Places(f) /\ p \in Places(f)'
    BY <1>2, <1>7 DEF Linked
  <2>2. CASE f \in loaded'
    BY <2>1, <2>2 DEF Linked
  <2>3. CASE f \notin loaded'
    <3>1. PICK i \in DOMAIN calls :
            calls[i].file = f /\ (p \in Before(calls[i]) \/ (i > 1 /\ p = Place(calls[i])))
      BY <1>1, <1>7, <2>3 DEF Linked
    <3>2. i # 1
      BY <1>1, <2>3, <3>1
    <3>3. PICK j : j = i - 1
      OBVIOUS
    <3>4. j \in DOMAIN calls' /\ j + 1 = i
      BY <1>1, <1>3, <3>1, <3>2, <3>3
    <3>5. p \in Before(calls[j])' \/ (j > 1 /\ p = Place(calls[j])')
      BY <1>5, <2>1, <3>1, <3>4
    <3>6. calls'[j].file = f
      BY <1>1, <3>1, <3>4
    <3>7. QED
      BY <2>1, <3>4, <3>5, <3>6 DEF Linked
  <2>4. QED
    BY <2>2, <2>3
<1>8. QED
  BY <1>6, <1>7

LEMMA ReturnKeeps ==
  ASSUME LoaderType, CallsInv, LinkInv, DepthInv, BudgetInv, ReturnImport
  PROVE  LoaderType' /\ CallsInv' /\ LinkInv' /\ DepthInv' /\ BudgetInv'
<1>1. /\ 1 \in DOMAIN calls /\ loaded' = loaded \cup {calls[1].file}
      /\ world' = world /\ files' = files /\ nodes' = nodes
      /\ calls' \in Seq(Frames) /\ Len(calls') = Len(calls) - 1 /\ DOMAIN calls' = 1 .. Len(calls) - 1
      /\ \A i \in DOMAIN calls' : /\ i + 1 \in DOMAIN calls
                                  /\ calls'[i] = IF i = 1 THEN Advanced(calls[2]) ELSE calls[i + 1]
                                  /\ calls'[i].file = calls[i + 1].file
      /\ Len(calls) = 1 => loading' = "ok" /\ calls' = <<>>
      /\ Len(calls) # 1 => loading' = "busy" /\ calls' # <<>>
      /\ Opened' = Opened
  BY ReturnFacts
<1>2. Len(calls) \in Nat /\ DOMAIN calls = 1 .. Len(calls)
      /\ \A i \in DOMAIN calls : calls[i] \in Frames /\ calls[i].file \in DOMAIN world.text
  BY CallsTyped
<1>3. /\ Root' = Root /\ Reach' = Reach /\ Frames' = Frames /\ (IsDirectory(world)' <=> IsDirectory(world))
      /\ \A f : /\ Places(f)' = Places(f)
                /\ (VarsLoad(world.text[f])' <=> VarsLoad(world.text[f]))
                /\ FilesRead(world.text[f])' = FilesRead(world.text[f])
                /\ NodesRead(world.text[f])' = NodesRead(world.text[f])
      /\ \A f, p : (Leads(f, p)' <=> Leads(f, p)) /\ Target(f, p)' = Target(f, p)
  BY <1>1, WorldKept
<1>4. \A f, p : Linked(f, p)' <=> Linked(f, p)
  BY ReturnLinks
<1>5. LoaderType'
  BY <1>1, <1>2, <1>3 DEF LoaderType
<1>6. CallsInv'
  <2>1. ASSUME NEW i \in DOMAIN calls' PROVE AtCall(i)' /\ calls'[i].file \notin loaded'
    <3> DEFINE c == calls[i + 1]
    <3>1. i + 1 \in DOMAIN calls /\ AtCall(i + 1) /\ c.file \notin loaded /\ c \in Frames /\ i \in Nat
          /\ calls'[i].file = c.file /\ i + 1 > 1 /\ (i + 1) - 1 = i
      BY <1>1, <1>2 DEF CallsInv
    <3>2. c.file \notin loaded'
      BY <1>1, <1>2, <3>1 DEF CallsInv
    <3>3. PICK a : a = calls'[i]
      OBVIOUS
    <3>4. /\ a.entry <= Len(Imports(c)) + 1
          /\ \A e \in 1 .. a.entry - 1 : Imports(c)[e] # <<>>
          /\ Exhausted(a) \/ Matchless(a) \/ Place(a) \in Places(c.file)
          /\ i > 1 => a = c
      <4>1. CASE i = 1
        <5>1. a = Advanced(c)
          BY <1>1, <3>3, <4>1
        <5>2. Place(c) \in Places(c.file) /\ \A e \in 1 .. c.entry - 1 : Imports(c)[e] # <<>>
          BY <3>1 DEF AtCall
        <5> HIDE DEF c
        <5>3. QED
          BY <3>1, <4>1, <5>1, <5>2, Advancing DEF LoaderType
      <4>2. CASE i # 1
        <5>1. a = c
          BY <1>1, <3>3, <4>2
        <5>2. QED
          BY <3>1, <5>1 DEF AtCall
      <4>3. QED
        BY <4>1, <4>2
    <3>5. i > 1 => /\ Place(c) \in Places(c.file) /\ Leads(c.file, Place(c))
                   /\ Target(c.file, Place(c)) = calls'[i - 1].file
      <4>1. ASSUME i > 1 PROVE calls'[i - 1].file = calls[i].file
        <5>1. i - 1 \in DOMAIN calls' /\ (i - 1) + 1 = i
          BY <1>1, <1>2, <3>1, <4>1
        <5>2. QED
          BY <1>1, <5>1
      <4>2. QED
        BY <3>1, <4>1 DEF AtCall
    <3>6. Imports(calls[i])' = Imports(a) /\ Place(calls[i])' = Place(a) /\ (Exhausted(calls[i])' <=> Exhausted(a))
          /\ (Matchless(calls[i])' <=> Matchless(a)) /\ Places(calls[i].file)' = Places(a.file)
          /\ (Leads(calls[i].file, Place(calls[i]))' <=> Leads(a.file, Place(a)))
          /\ Target(calls[i].file, Place(calls[i]))' = Target(a.file, Place(a))
      BY <1>1, <3>3 DEF Imports, Place, Exhausted, Matchless, Places, Leads, Target, Match
    <3>7. a.file = c.file /\ Imports(a) = Imports(c)
      BY <3>1, <3>3 DEF Imports
    <3>8. QED
      BY <3>2, <3>3, <3>4, <3>5, <3>6, <3>7 DEF AtCall
  <2>2. ASSUME NEW i \in DOMAIN calls', NEW j \in DOMAIN calls', i # j
        PROVE  calls'[i].file # calls'[j].file
    <3>1. i + 1 \in DOMAIN calls /\ j + 1 \in DOMAIN calls /\ i + 1 # j + 1
      BY <1>1, <1>2, <2>2
    <3>2. QED
      BY <1>1, <3>1 DEF CallsInv
  <2>3. calls # <<>> /\ world.root \in DOMAIN world.file /\ calls[Len(calls)].file = Root
        /\ Len(calls) <= MaxImportDepth + 1
    BY DEF CallsInv, ReturnImport
  <2>4. CASE Len(calls) = 1
    <3>1. Root \in loaded' /\ calls' = <<>> /\ Len(calls') = 0 /\ loading' = "ok"
      BY <1>1, <2>3, <2>4
    <3>2. QED
      BY <1>1, <1>3, <2>1, <2>2, <2>3, <3>1, BudgetAssumption DEF CallsInv
  <2>5. CASE Len(calls) # 1
    <3>1. calls' # <<>> /\ loading' = "busy"
      BY <1>1, <2>5
    <3>2. calls'[Len(calls')].file = Root
      <4>1. Len(calls') \in DOMAIN calls' /\ Len(calls') + 1 = Len(calls)
        BY <1>1, <1>2, <2>5
      <4>2. QED
        BY <1>1, <2>3, <4>1
    <3>3. Len(calls') <= MaxImportDepth + 1
      BY <1>1, <1>2, <2>3, BudgetAssumption
    <3>4. QED
      BY <1>1, <1>3, <2>1, <2>2, <2>3, <3>1, <3>2, <3>3 DEF CallsInv
  <2>6. QED
    BY <2>4, <2>5
<1>7. LinkInv'
  <2>1. \A i \in DOMAIN world.text[calls[1].file].imports : world.text[calls[1].file].imports[i] # <<>>
    <3> DEFINE c == calls[1]
    <3>1. AtCall(1) /\ Exhausted(c) /\ c \in Frames /\ c.file \in DOMAIN world.text
      BY <1>1, <1>2 DEF CallsInv, ReturnImport
    <3>2. DOMAIN Imports(c) = 1 .. Len(Imports(c)) /\ Len(Imports(c)) \in Nat
      BY <3>1, Entries DEF LoaderType, Imports
    <3>3. QED
      BY <3>1, <3>2 DEF AtCall, Exhausted, Imports
  <2>2. \A f \in loaded' : \A i \in DOMAIN world.text[f].imports : world.text[f].imports[i] # <<>>
    BY <1>1, <2>1 DEF LinkInv
  <2>3. QED
    BY <1>1, <1>3, <1>4, <2>2 DEF LinkInv
<1>8. DepthInv'
  <2>1. PICK d \in [Opened -> 0 .. MaxImportDepth] : HasDepths(d)
    BY DEF DepthInv
  <2>2. \A i \in DOMAIN calls' : d[calls'[i].file] = Len(calls') - i
    <3>1. ASSUME NEW i \in DOMAIN calls' PROVE d[calls'[i].file] = Len(calls') - i
      <4>1. i + 1 \in DOMAIN calls /\ calls'[i].file = calls[i + 1].file /\ i \in Nat
        BY <1>1, <1>2
      <4>2. d[calls[i + 1].file] = Len(calls) - (i + 1)
        BY <2>1, <4>1 DEF HasDepths
      <4>3. QED
        BY <1>1, <1>2, <4>1, <4>2
    <3>2. QED
      BY <3>1
  <2>3. HasDepths(d)'
    BY <1>1, <1>3, <1>4, <2>1, <2>2 DEF HasDepths
  <2>4. QED
    BY <1>1, <2>1, <2>3 DEF DepthInv
<1>9. BudgetInv'
  <2>1. FilesOf(Opened)' = FilesOf(Opened) /\ NodesOf(Opened)' = NodesOf(Opened)
    BY <1>1, <1>3 DEF FilesOf, NodesOf
  <2>2. QED
    BY <1>1, <2>1 DEF BudgetInv
<1>10. QED
  BY <1>5, <1>6, <1>7, <1>8, <1>9

-----------------------------------------------------------------------------
(* What is refused is no tree.                                             *)

\* What is asked for at a limit of depth ends a chain that is too long.
LEMMA TooDeep ==
  ASSUME LoaderType, CallsInv, LinkInv, Asking, Asked \in DOMAIN world.file,
         ~(Len(calls) <= MaxImportDepth)
  PROVE  \E chain \in [0 .. MaxImportDepth + 1 -> Reach] : IsChain(chain, MaxImportDepth + 1)
<1> DEFINE M == MaxImportDepth
           g == world.file[Asked]
           chain == [i \in 0 .. M + 1 |-> IF i = M + 1 THEN g ELSE calls[M + 1 - i].file]
<1>1. M \in Nat /\ Len(calls) = M + 1 /\ DOMAIN calls = 1 .. M + 1
  <2>1. Len(calls) \in Nat /\ DOMAIN calls = 1 .. Len(calls)
    BY CallsTyped
  <2>2. Len(calls) <= M + 1 /\ M \in Nat
    BY BudgetAssumption DEF CallsInv
  <2>3. Len(calls) = M + 1
    <3>1. PICK n \in Nat : n = Len(calls)
      BY <2>1
    <3>2. n <= M + 1 /\ ~(n <= M) /\ M \in Nat
      BY <2>2, <3>1
    <3> HIDE DEF M
    <3>3. n = M + 1
      BY <3>2
    <3>4. QED
      BY <3>1, <3>3
  <2>4. QED
    BY <2>1, <2>2, <2>3, Zenon
<1>2. \A i \in DOMAIN calls : calls[i].file \in Reach
  BY CallsTyped DEF LinkInv, Opened
<1>3. g \in Reach
  BY AskedIsReached
<1>4. calls # <<>> /\ calls[M + 1].file = Root
  BY <1>1, EmptySeq DEF CallsInv
<1>5. Place(calls[1]) \in Places(calls[1].file) /\ Target(calls[1].file, Place(calls[1])) = g
  BY <1>4, AskingPlace DEF Target
<1> HIDE DEF M, g
<1>6. chain \in [0 .. M + 1 -> Reach]
  <2>1. \A i \in 0 .. M + 1 : i # M + 1 => M + 1 - i \in DOMAIN calls
    BY <1>1
  <2>2. QED
    BY <1>2, <1>3, <2>1
<1>7. chain[0] = Root
  BY <1>1, <1>4
<1>8. ASSUME NEW i \in 0 .. M PROVE \E p \in Places(chain[i]) : Target(chain[i], p) = chain[i + 1]
  <2>1. chain[i] = calls[M + 1 - i].file /\ M + 1 - i \in DOMAIN calls
    BY <1>1
  <2>2. CASE i = M
    <3>1. M + 1 - i = 1 /\ chain[i + 1] = g
      BY <1>1, <2>2
    <3>2. QED
      BY <1>5, <2>1, <3>1
  <2>3. CASE i # M
    <3>1. chain[i + 1] = calls[(M + 1 - i) - 1].file /\ M + 1 - i > 1
      BY <1>1, <2>3
    <3>2. Place(calls[M + 1 - i]) \in Places(chain[i])
          /\ Target(chain[i], Place(calls[M + 1 - i])) = chain[i + 1]
      BY <2>1, <3>1 DEF CallsInv, AtCall
    <3>3. QED
      BY <3>2
  <2>4. QED
    BY <2>2, <2>3
<1>9. IsChain(chain, M + 1)
  <2>1. 0 .. (M + 1) - 1 = 0 .. M
    BY <1>1
  <2> HIDE DEF chain
  <2>2. QED
    BY <1>7, <1>8, <2>1 DEF IsChain
<1> HIDE DEF chain
<1>10. QED
  BY <1>6, <1>9 DEF M

\* A file that was opened before is imported twice, or it is the root.
LEMMA OpenedTwice ==
  ASSUME LoaderType, CallsInv, LinkInv, Asking, Asked \in DOMAIN world.file,
         world.file[Asked] \in Opened, ImportTree
  PROVE  FALSE
<1>1. PICK g : g = world.file[Asked]
  OBVIOUS
<1>2. calls # <<>>
  BY DEF CallsInv, Asking, Opened, Active
<1>3. PICK h, q : h = calls[1].file /\ q = Place(calls[1])
  OBVIOUS
<1>4. 1 \in DOMAIN calls /\ q \in Places(h) /\ Target(h, q) = g /\ h \in Reach
  BY <1>1, <1>2, <1>3, AskingPlace, CallsTyped DEF LinkInv, Opened, Target
<1>5. g # Root
  BY <1>4 DEF ImportTree
<1>6. PICK f \in Opened : \E p \in Places(f) : Linked(f, p) /\ Target(f, p) = g
  BY <1>1, <1>5 DEF LinkInv
<1>7. PICK p \in Places(f) : Linked(f, p) /\ Target(f, p) = g
  BY <1>6
<1>8. f = h /\ p = q
  BY <1>4, <1>7 DEF LinkInv, ImportTree
<1>9. PICK i \in DOMAIN calls : calls[i].file = h /\ (q \in Before(calls[i]) \/ i > 1)
  BY <1>3, <1>4, <1>7, <1>8 DEF Linked, CallsInv
<1>10. i = 1
  BY <1>3, <1>4, <1>9 DEF CallsInv
<1>11. q \notin Before(calls[1])
  <2>1. q = <<calls[1].entry, calls[1].match>> /\ calls[1].entry \in Nat /\ calls[1].match \in Nat
    BY <1>3, <1>4, CallsTyped DEF Place, Frames
  <2>2. QED
    BY <2>1 DEF Before
<1>12. QED
  BY <1>9, <1>10, <1>11

\* What is over the budget with one more file is over it with all.
LEMMA OverBudget ==
  ASSUME LoaderType, CallsInv, LinkInv, BudgetInv,
         NEW g \in Reach, g \notin Opened, ImportTree
  PROVE  WithinBudget(world.text[g])
<1> DEFINE F == [f \in DOMAIN world.text |-> FilesRead(world.text[f])]
           N == [f \in DOMAIN world.text |-> NodesRead(world.text[f])]
           S == Opened \cup {g}
<1>1. Opened \in SUBSET DOMAIN world.text /\ IsFiniteSet(Opened)
  BY CallsTyped
<1>2. Reach \subseteq DOMAIN world.text /\ S \in SUBSET Reach
  BY DEF Reach, LinkInv
<1>3. IsFiniteSet(Reach)
  BY <1>2, FS_Subset DEF LoaderType, IsDirectory
<1>4. \A T \in SUBSET DOMAIN world.text : FilesOf(T) = Pieces(F, T) /\ NodesOf(T) = Pieces(N, T)
  BY DEF FilesOf, NodesOf, Pieces
<1>5. \A f \in Reach : IsFiniteSet(F[f]) /\ IsFiniteSet(N[f])
  BY <1>2, FilesReadFinite, NodesReadFinite DEF LoaderType, ImportTree, Sound
<1>6. F[g] = FilesRead(world.text[g]) /\ N[g] = NodesRead(world.text[g])
  BY <1>2
<1> HIDE DEF F, N
<1>7. /\ Cardinality(Pieces(F, S)) = Cardinality(Pieces(F, Opened)) + Cardinality(F[g])
      /\ Cardinality(Pieces(N, S)) = Cardinality(Pieces(N, Opened)) + Cardinality(N[g])
  BY <1>1, <1>2, <1>5, PiecesAdd
<1>8. /\ Cardinality(Pieces(F, S)) <= Cardinality(Pieces(F, Reach))
      /\ Cardinality(Pieces(N, S)) <= Cardinality(Pieces(N, Reach))
  BY <1>2, <1>3, <1>5, PiecesOfSubset
<1>9. /\ files = Cardinality(Pieces(F, Opened)) /\ Cardinality(Pieces(F, Reach)) <= MaxImportFiles
      /\ nodes = Cardinality(Pieces(N, Opened)) /\ Cardinality(Pieces(N, Reach)) <= MaxImportNodes
  BY <1>1, <1>2, <1>4 DEF BudgetInv, ImportTree
<1>10. /\ Cardinality(F[g]) \in Nat /\ Cardinality(N[g]) \in Nat
       /\ Cardinality(Pieces(F, Reach)) \in Nat /\ Cardinality(Pieces(N, Reach)) \in Nat
  BY <1>3, <1>5, PiecesFinite, FS_CardinalityType
<1>11. files \in Nat /\ nodes \in Nat
  BY DEF LoaderType
<1>12. files + Cardinality(F[g]) <= MaxImportFiles /\ nodes + Cardinality(N[g]) <= MaxImportNodes
  <2> HIDE DEF S
  <2>1. QED
    BY <1>7, <1>8, <1>9, <1>10, <1>11, BudgetAssumption
<1>13. QED
  BY <1>6, <1>12 DEF WithinBudget

LEMMA RefusedIsNoTree ==
  ASSUME LoaderType, CallsInv, LinkInv, BudgetInv, RefuseImports
  PROVE  ~ImportTree
<1> SUFFICES ASSUME ImportTree PROVE FALSE
  OBVIOUS
<1>1. CASE loading = "busy" /\ calls # <<>> /\ Matchless(calls[1])
  <2> DEFINE c == calls[1]
  <2>1. 1 \in DOMAIN calls /\ c \in Frames /\ c.file \in Reach /\ c.file \in DOMAIN world.text /\ AtCall(1)
    BY <1>1, EmptySeq, CallsTyped DEF LoaderType, LinkInv, CallsInv, Opened
  <2>2. DOMAIN Imports(c) = 1 .. Len(Imports(c)) /\ Len(Imports(c)) \in Nat
    BY <2>1, Entries DEF LoaderType, Imports
  <2>3. c.entry \in DOMAIN Imports(c) /\ Imports(c)[c.entry] = <<>>
    BY <1>1, <2>1, <2>2 DEF AtCall, Matchless, Exhausted, Frames
  <2>4. QED
    BY <2>1, <2>3 DEF ImportTree, Sound, Imports
<1>2. CASE Asking /\ ~Accepted(Asked)
  <2>1. Asked \in DOMAIN world.file
    <3>1. CASE calls = <<>>
      BY <3>1 DEF Asked, ImportTree
    <3>2. CASE calls # <<>>
      <4>1. Place(calls[1]) \in Places(calls[1].file) /\ Asked = Match(calls[1].file, Place(calls[1]))
            /\ calls[1].file \in Reach
        BY <1>2, <3>2, AskingPlace, CallsTyped DEF LinkInv, Opened
      <4>2. QED
        BY <4>1 DEF ImportTree, Sound, Leads
    <3>3. QED
      BY <3>1, <3>2
  <2>2. PICK g : g = world.file[Asked]
    OBVIOUS
  <2>3. g \in Reach /\ Sound(g) /\ Text(Asked) = world.text[g]
    BY <1>2, <2>1, <2>2, AskedIsReached DEF ImportTree, Text
  <2>4. Len(calls) <= MaxImportDepth
    BY <1>2, <2>1, TooDeep DEF ImportTree
  <2>5. g \notin Opened
    BY <1>2, <2>1, <2>2, OpenedTwice
  <2>6. WithinBudget(world.text[g])
    BY <2>3, <2>5, OverBudget
  <2>7. Accepted(Asked)
    BY <2>1, <2>2, <2>3, <2>4, <2>5, <2>6 DEF Accepted, Admissible, Readable, Sound, Opened
  <2>8. QED
    BY <1>2, <2>7
<1>3. QED
  BY <1>1, <1>2 DEF RefuseImports

-----------------------------------------------------------------------------
(* What is accepted is a tree.                                             *)

LEMMA LeastOf ==
  ASSUME NEW S \in SUBSET Nat, S # {}
  PROVE  \E n \in S : \A m \in S : n <= m
<1>1. PICK n \in S : \A m \in S : ~(<<m, n>> \in OpToRel(<, Nat))
  BY NatLessThanWellFounded, WFMin
<1>2. \A m \in S : ~(m < n)
  BY <1>1 DEF OpToRel
<1>3. QED
  BY <1>2

\* The depth of the i-th file of a chain is i.
LEMMA ChainDepth ==
  ASSUME NEW d, NEW n \in Nat, NEW chain, IsChain(chain, n), d[Root] = 0,
         \A i \in 0 .. n - 1 : \A p \in Places(chain[i]) : d[Target(chain[i], p)] = d[chain[i]] + 1
  PROVE  d[chain[n]] = n
<1> DEFINE Bad == {i \in 0 .. n : d[chain[i]] # i}
<1> SUFFICES ASSUME Bad # {} PROVE FALSE
  OBVIOUS
<1>1. PICK i \in Bad : \A j \in Bad : i <= j
  <2>1. Bad \in SUBSET Nat
    OBVIOUS
  <2> HIDE DEF Bad
  <2>2. QED
    BY <2>1, LeastOf
<1>2. i # 0
  BY <1>1 DEF IsChain
<1>3. i - 1 \in 0 .. n - 1 /\ i - 1 \in 0 .. n /\ ~(i <= i - 1) /\ (i - 1) + 1 = i
  BY <1>1, <1>2
<1>4. d[chain[i - 1]] = i - 1
  BY <1>1, <1>3
<1>5. PICK p \in Places(chain[i - 1]) : Target(chain[i - 1], p) = chain[i]
  BY <1>3 DEF IsChain
<1>6. d[chain[i]] = d[chain[i - 1]] + 1
  BY <1>3, <1>5
<1>7. QED
  BY <1>1, <1>3, <1>4, <1>6

LEMMA AcceptedIsTree ==
  ASSUME LoaderType, CallsInv, LinkInv, DepthInv, BudgetInv, loading = "ok"
  PROVE  ImportTree
<1>1. calls = <<>> /\ world.root \in DOMAIN world.file /\ Root \in loaded /\ Opened = loaded
  BY DEF CallsInv, Opened, Active
<1>2. \A f \in loaded : \A p \in Places(f) : Linked(f, p)
  BY DEF Linked
<1>3. \A f \in loaded : f \in Reach /\ \A p \in Places(f) : Leads(f, p) /\ Target(f, p) \in loaded /\ Target(f, p) # Root
  BY <1>1, <1>2 DEF LinkInv
<1>4. Reach = loaded
  <2>1. Closed(loaded) /\ loaded \in SUBSET DOMAIN world.text
    BY <1>1, <1>3 DEF Closed, LoaderType
  <2>2. QED
    BY <1>3, <2>1 DEF Reach
<1>5. \A f \in Reach : Sound(f)
  BY <1>1, <1>3, <1>4 DEF LinkInv, Sound
<1>6. \A f, g \in Reach : \A p \in Places(f), q \in Places(g) :
        Target(f, p) = Target(g, q) => f = g /\ p = q
  BY <1>1, <1>2, <1>4 DEF LinkInv
<1>7. ~\E chain \in [0 .. MaxImportDepth + 1 -> Reach] : IsChain(chain, MaxImportDepth + 1)
  <2> SUFFICES ASSUME NEW chain \in [0 .. MaxImportDepth + 1 -> Reach], IsChain(chain, MaxImportDepth + 1)
               PROVE  FALSE
    OBVIOUS
  <2>1. PICK d \in [loaded -> 0 .. MaxImportDepth] : HasDepths(d)
    BY <1>1 DEF DepthInv
  <2>2. d[Root] = 0 /\ \A f \in loaded : \A p \in Places(f) : d[Target(f, p)] = d[f] + 1
    BY <1>1, <1>2, <2>1 DEF HasDepths
  <2>3. MaxImportDepth \in Nat
    BY BudgetAssumption
  <2>4. \A i \in 0 .. MaxImportDepth + 1 : chain[i] \in loaded
    BY <1>4
  <2>5. PICK n \in Nat : n = MaxImportDepth + 1
    BY <2>3
  <2>6. \A i \in 0 .. n - 1 : chain[i] \in loaded
    BY <2>3, <2>4, <2>5
  <2>7. d[chain[n]] = n
    BY <2>2, <2>5, <2>6, ChainDepth
  <2>8. n \in 0 .. MaxImportDepth + 1 /\ ~(n \in 0 .. MaxImportDepth)
    BY <2>3, <2>5
  <2>9. QED
    BY <2>1, <2>4, <2>7, <2>8
<1>8. Cardinality(FilesOf(Reach)) <= MaxImportFiles /\ Cardinality(NodesOf(Reach)) <= MaxImportNodes
  BY <1>1, <1>4 DEF BudgetInv
<1>9. QED
  BY <1>1, <1>3, <1>4, <1>5, <1>6, <1>7, <1>8 DEF ImportTree

-----------------------------------------------------------------------------
(* The invariant is kept.                                                  *)

LEMMA LoadInvInit ==
  ASSUME IsDirectory(world), ImportsInit
  PROVE  LoadInv
<1>1. Opened = {} /\ calls = <<>> /\ Len(calls) = 0 /\ DOMAIN calls = {} /\ loading = "busy"
  BY DEF ImportsInit, Opened, Active
<1>2. LoaderType
  BY EmptySeq DEF ImportsInit, LoaderType
<1>3. CallsInv
  BY <1>1, BudgetAssumption DEF CallsInv, ImportsInit
<1>4. LinkInv
  BY <1>1 DEF LinkInv, ImportsInit
<1>5. DepthInv
  <2>1. [f \in {} |-> 0] \in [Opened -> 0 .. MaxImportDepth] /\ HasDepths([f \in {} |-> 0])
    BY <1>1 DEF HasDepths
  <2>2. QED
    BY <2>1 DEF DepthInv
<1>6. BudgetInv
  <2>1. FilesOf(Opened) = {} /\ NodesOf(Opened) = {}
    BY <1>1 DEF FilesOf, NodesOf
  <2>2. QED
    BY <2>1, FS_EmptySet, BudgetAssumption DEF BudgetInv, ImportsInit
<1>7. QED
  BY <1>1, <1>2, <1>3, <1>4, <1>5, <1>6 DEF LoadInv

LEMMA LoadInvKept ==
  ASSUME LoadInv, LoadStep \/ UNCHANGED importVars
  PROVE  LoadInv'
<1>1. CASE Open
  <2>1. loading' = "busy"
    BY <1>1 DEF Open, Asking
  <2>2. LoaderType' /\ CallsInv' /\ LinkInv' /\ DepthInv' /\ BudgetInv'
    BY <1>1, OpenCalls, OpenLinkInv, OpenDepths, OpenBudget DEF LoadInv
  <2>3. QED
    BY <2>1, <2>2 DEF LoadInv
<1>2. CASE ReturnImport
  <2>1. loading' # "refused"
    BY <1>2, ReturnFacts DEF LoadInv
  <2>2. LoaderType' /\ CallsInv' /\ LinkInv' /\ DepthInv' /\ BudgetInv'
    BY <1>2, ReturnKeeps DEF LoadInv
  <2>3. QED
    BY <2>1, <2>2 DEF LoadInv
<1>3. CASE RefuseImports \/ UNCHANGED importVars
  <2>1. /\ world' = world /\ calls' = calls /\ loaded' = loaded /\ files' = files /\ nodes' = nodes
        /\ loading' = loading \/ (loading' = "refused" /\ loading # "ok" /\ RefuseImports)
    BY <1>3 DEF RefuseImports, Asking, importVars
  <2>2. /\ Root' = Root /\ Reach' = Reach /\ Frames' = Frames /\ (IsDirectory(world)' <=> IsDirectory(world))
        /\ \A f : /\ Places(f)' = Places(f)
                  /\ (VarsLoad(world.text[f])' <=> VarsLoad(world.text[f]))
                  /\ FilesRead(world.text[f])' = FilesRead(world.text[f])
                  /\ NodesRead(world.text[f])' = NodesRead(world.text[f])
        /\ \A f, p : (Leads(f, p)' <=> Leads(f, p)) /\ Target(f, p)' = Target(f, p)
    BY <2>1, WorldKept
  <2>3. Opened' = Opened /\ \A f, p : Linked(f, p)' <=> Linked(f, p)
    BY <2>1 DEF Opened, Active, Linked, Places, Before, Place, Imports
  <2>4. \A i \in DOMAIN calls : AtCall(i)' <=> AtCall(i)
    BY <2>1 DEF AtCall, Imports, Exhausted, Matchless, Place, Places, Leads, Target, Match
  <2>5. LoaderType'
    BY <2>1, <2>2 DEF LoaderType, LoadInv
  <2>6. CallsInv'
    BY <2>1, <2>2, <2>4 DEF CallsInv, LoadInv
  <2>7. LinkInv'
    BY <2>1, <2>2, <2>3 DEF LinkInv, LoadInv
  <2>8. DepthInv'
    BY <2>1, <2>2, <2>3 DEF DepthInv, HasDepths, LoadInv
  <2>9. BudgetInv'
    <3>1. FilesOf(Opened)' = FilesOf(Opened) /\ NodesOf(Opened)' = NodesOf(Opened)
      BY <2>2, <2>3 DEF FilesOf, NodesOf
    <3>2. QED
      BY <2>1, <3>1 DEF BudgetInv, LoadInv
  <2>10. loading' = "refused" => ~ImportTree'
    BY <2>1, RefusedIsNoTree, TreeKept DEF LoadInv
  <2>11. QED
    BY <2>5, <2>6, <2>7, <2>8, <2>9, <2>10 DEF LoadInv
<1>4. QED
  BY <1>1, <1>2, <1>3 DEF LoadStep

\* The calls in progress are a chain of imports; what was opened is reached,
\* well formed, linked by no import twice, no deeper than the limit and within
\* the budget (loadConfigMap, configImportBudget.consume).
THEOREM LoadInvHolds == LoadSpec => []LoadInv
<1>1. IsDirectory(world) /\ ImportsInit => LoadInv
  BY LoadInvInit
<1>2. LoadInv /\ [LoadStep]_importVars => LoadInv'
  BY LoadInvKept
<1>3. QED
  BY <1>1, <1>2, PTL DEF LoadSpec

\* loadConfig accepts the trees of imports within its limits and refuses all
\* else, in any directory of finitely many files.
THEOREM AcceptsTheTrees == LoadSpec => []OnlyTreesAreAccepted
<1>1. LoadInv => OnlyTreesAreAccepted
  BY AcceptedIsTree DEF LoadInv, OnlyTreesAreAccepted
<1>2. QED
  BY <1>1, LoadInvHolds, PTL

-----------------------------------------------------------------------------
(* Start-up: where a stage stands, and what the stages before it settled.  *)

StageRank ==
  [flags |-> 1, load |-> 2, inventory |-> 3, resolve |-> 4, security |-> 5, select |-> 6, reuse |-> 7,
   preflight |-> 8, offline |-> 9, resume |-> 10, credentials |-> 11, parsers |-> 12, output |-> 13,
   journal |-> 14, events |-> 15, execution |-> 16, launch |-> 17]

\* What was passed before a stage still holds when the stage is reached, and
\* nothing is opened before credentials are looked up.
StartupInv ==
  /\ launch \in Launches /\ world = launch.world
  /\ stage \in Range(Stages) \cup {"refused", "answered"}
  /\ LoadInv
  /\ \A k \in DOMAIN Stages : stage = Stages[k] => \A i \in 1 .. k - 1 : MayPass(Stages[i])
  /\ opened # {} => /\ \A i \in 1 .. 10 : MayPass(Stages[i])
                    /\ stage = "refused" \/ \E k \in 11 .. 17 : stage = Stages[k]

LEMMA StagesInOrder ==
  /\ DOMAIN Stages = 1 .. 17
  /\ \A i \in 1 .. 17 : StageRank[Stages[i]] = i
  /\ \A i, j \in 1 .. 17 : Stages[i] = Stages[j] => i = j
  /\ \A s \in Range(Stages) : \E i \in 1 .. 17 : s = Stages[i]
  /\ \A i \in 1 .. 16 : StageAfter(Stages[i]) = Stages[i + 1]
  /\ \A i \in 1 .. 17 : Stages[i] \in Range(Stages) /\ Stages[i] \notin {"refused", "answered"}
<1>1. DOMAIN Stages = 1 .. 17
  BY DEF Stages
<1>2. \A i \in 1 .. 17 : StageRank[Stages[i]] = i
  BY DEF Stages, StageRank
<1>3. \A s \in Range(Stages) : \E i \in 1 .. 17 : s = Stages[i]
  BY <1>1 DEF Range
<1>4. \A i \in 1 .. 16 : StageAfter(Stages[i]) = Stages[i + 1]
  <2> SUFFICES ASSUME NEW i \in 1 .. 16 PROVE StageAfter(Stages[i]) = Stages[i + 1]
    OBVIOUS
  <2>1. i \in DOMAIN Stages /\ \A j \in DOMAIN Stages : Stages[j] = Stages[i] => j = i
    BY <1>1, <1>2
  <2>2. (CHOOSE j \in DOMAIN Stages : Stages[j] = Stages[i]) = i
    <3> HIDE DEF Stages
    <3>1. QED
      BY <2>1
  <2>3. QED
    BY <2>2 DEF StageAfter
<1>5. \A i \in 1 .. 17 : Stages[i] \in Range(Stages)
  BY <1>1 DEF Range
<1>6. \A i \in 1 .. 17 : Stages[i] \notin {"refused", "answered"}
  BY DEF Stages
<1>7. \A i, j \in 1 .. 17 : Stages[i] = Stages[j] => i = j
  <2> HIDE DEF Stages, StageRank
  <2>1. QED
    BY <1>2
<1>8. QED
  BY <1>1, <1>2, <1>3, <1>4, <1>5, <1>6, <1>7

\* A stage asks about the launch; "load" also about the playbook, and two
\* stages about the devices that were selected.
LEMMA PassesKept ==
  ASSUME launch' = launch, NEW s,
         s = "load" => loading' = loading,
         s \in {"reuse", "preflight"} => selected' = selected
  PROVE  MayPass(s)' <=> MayPass(s)
<1>1. Resolved' = Resolved /\ Inventory' = Inventory /\ (InventoryReads' <=> InventoryReads)
      /\ StepLists' = StepLists /\ (Offline' <=> Offline)
      /\ (ManifestHolds' <=> ManifestHolds) /\ (NothingUncertain' <=> NothingUncertain)
  BY DEF Resolved, Inventory, InventoryReads, StepLists, Offline, ManifestHolds, NothingUncertain
<1>2. CASE s = "preflight"
  <2>1. selected' = selected
    BY <1>2
  <2>2. \A d : Verdicts(d)' = Verdicts(d)
    BY DEF Verdicts, Scope
  <2>3. QED
    BY <1>2, <2>1, <2>2 DEF MayPass
<1>3. CASE s # "preflight"
  <2>1. Passes(s)' <=> Passes(s)
    BY <1>1, <1>3 DEF Passes
  <2>2. QED
    BY <1>3, <2>1 DEF MayPass
<1>4. QED
  BY <1>2, <1>3

LEMMA StartupInvInit ==
  ASSUME StartupInit
  PROVE  StartupInv
<1>1. IsDirectory(world)
  BY DirectoriesAssumption DEF StartupInit
<1>2. LoadInv
  BY <1>1, LoadInvInit DEF StartupInit
<1>3. stage = Stages[1] /\ opened = {}
  BY DEF StartupInit, Stages
<1>4. ASSUME NEW k \in DOMAIN Stages, stage = Stages[k] PROVE \A i \in 1 .. k - 1 : MayPass(Stages[i])
  <2>1. k = 1
    <3>1. k \in 1 .. 17 /\ 1 \in 1 .. 17 /\ Stages[k] = Stages[1]
      BY <1>3, <1>4, StagesInOrder
    <3>2. QED
      BY <3>1, StagesInOrder, Zenon
  <2>2. QED
    BY <2>1
<1>5. stage \in Range(Stages)
  BY <1>3, StagesInOrder
<1>6. QED
  BY <1>2, <1>3, <1>4, <1>5 DEF StartupInv, StartupInit

LEMMA StartupInvKept ==
  ASSUME StartupInv, StartupStep \/ UNCHANGED startupVars
  PROVE  StartupInv'
<1>1. CASE Load
  <2>1. launch' = launch /\ stage' = stage /\ selected' = selected /\ opened' = opened /\ stage = Stages[2]
    BY <1>1 DEF Load, Stages
  <2>2. world' = world /\ LoadInv'
    BY <1>1, LoadInvKept DEF Load, LoadStep, Open, RefuseImports, ReturnImport, StartupInv
  <2>3. opened = {}
    <3>1. \A k \in 11 .. 17 : Stages[2] # Stages[k]
      BY StagesInOrder
    <3>2. stage # "refused"
      BY <2>1, StagesInOrder
    <3>3. QED
      BY <2>1, <3>1, <3>2 DEF StartupInv
  <2>4. ASSUME NEW k \in DOMAIN Stages, stage = Stages[k] PROVE \A i \in 1 .. k - 1 : MayPass(Stages[i])'
    <3>1. k = 2
      <4>1. k \in 1 .. 17 /\ 2 \in 1 .. 17 /\ Stages[k] = Stages[2]
        BY <2>1, <2>4, StagesInOrder
      <4>2. QED
        BY <4>1, StagesInOrder, Zenon
    <3>2. MayPass("flags")
      BY <2>1, <3>1, StagesInOrder DEF StartupInv, Stages
    <3>3. MayPass("flags")' <=> MayPass("flags")
      BY <2>1, PassesKept
    <3>4. \A i \in 1 .. k - 1 : Stages[i] = "flags"
      BY <3>1 DEF Stages
    <3>5. QED
      BY <3>2, <3>3, <3>4
  <2>5. QED
    BY <2>1, <2>2, <2>3, <2>4 DEF StartupInv
<1>2. CASE Proceed
  <2>1. PICK k \in 1 .. 16 : stage = Stages[k]
    <3>1. stage \in Range(Stages) /\ stage # Stages[17]
      BY <1>2 DEF Proceed, AtStage, Stages
    <3>2. PICK k \in 1 .. 17 : stage = Stages[k]
      BY <3>1, StagesInOrder
    <3>3. k # 17
      BY <3>1, <3>2
    <3>4. QED
      BY <3>2, <3>3
  <2>2. stage' = Stages[k + 1] /\ MayPass(Stages[k])
    BY <1>2, <2>1, StagesInOrder DEF Proceed
  <2>3. launch' = launch /\ world' = world /\ loading' = loading /\ (k # 6 => selected' = selected)
    <3>1. Stages[6] = "select" /\ (k # 6 => Stages[k] # "select")
      <4>1. Stages[6] = "select"
        BY DEF Stages
      <4>2. QED
        BY <4>1, StagesInOrder
    <3>2. QED
      BY <1>2, <2>1, <3>1 DEF Proceed, importVars
  <2>4. LoadInv'
    BY <1>2, LoadInvKept DEF Proceed, StartupInv
  <2>5. \A i \in 1 .. k : MayPass(Stages[i])
    BY <2>1, <2>2, StagesInOrder DEF StartupInv
  <2>6. \A i \in 1 .. k : MayPass(Stages[i])'
    <3> SUFFICES ASSUME NEW i \in 1 .. k PROVE MayPass(Stages[i])'
      OBVIOUS
    <3>1. Stages[i] \in {"reuse", "preflight"} => i \in {7, 8}
      BY StagesInOrder DEF StageRank
    <3>2. k = 6 => Stages[i] \notin {"reuse", "preflight"}
      BY <3>1
    <3>3. MayPass(Stages[i])' <=> MayPass(Stages[i])
      <4>1. PICK s : s = Stages[i]
        OBVIOUS
      <4>2. MayPass(s)' <=> MayPass(s)
        BY <2>3, <3>2, <4>1, PassesKept
      <4>3. Stages' = Stages
        BY DEF Stages
      <4>4. MayPass(Stages[i])' <=> MayPass(s)'
        BY <4>1
      <4>5. QED
        BY <4>1, <4>2, <4>4
    <3>4. QED
      BY <2>5, <3>3
  <2>7. ASSUME NEW j \in DOMAIN Stages, stage' = Stages[j] PROVE \A i \in 1 .. j - 1 : MayPass(Stages[i])'
    <3>1. j = k + 1
      <4>1. j \in 1 .. 17 /\ k + 1 \in 1 .. 17 /\ Stages[j] = Stages[k + 1]
        BY <2>2, <2>7, StagesInOrder
      <4>2. QED
        BY <4>1, StagesInOrder, Zenon
    <3>2. QED
      BY <2>6, <3>1
  <2>8. ASSUME opened' # {}
        PROVE  (\A i \in 1 .. 10 : MayPass(Stages[i])') /\ \E j \in 11 .. 17 : stage' = Stages[j]
    <3>1. k >= 11
      <4>1. CASE opened # {}
        <5>1. PICK j \in 11 .. 17 : stage = Stages[j]
          BY <2>1, <4>1, StagesInOrder DEF StartupInv
        <5>2. j = k
          <6>1. j \in 1 .. 17 /\ k \in 1 .. 17 /\ Stages[j] = Stages[k]
            BY <2>1, <5>1
          <6>2. QED
            BY <6>1, StagesInOrder, Zenon
        <5>3. QED
          BY <5>1, <5>2
      <4>2. CASE opened = {}
        <5>1. Opens(stage) # {}
          BY <1>2, <2>8, <4>2 DEF Proceed
        <5>2. stage \in {"credentials", "output", "journal", "events"}
          BY <5>1 DEF Opens
        <5>3. StageRank[stage] \in {11, 13, 14, 15} /\ StageRank[stage] = k
          <6>1. StageRank[stage] = k
            BY <2>1, StagesInOrder
          <6>2. StageRank[stage] \in {11, 13, 14, 15}
            BY <5>2 DEF StageRank
          <6>3. QED
            BY <6>1, <6>2
        <5>4. QED
          BY <5>3
      <4>3. QED
        BY <4>1, <4>2
    <3>2. k + 1 \in 11 .. 17 /\ 1 .. 10 \subseteq 1 .. k
      BY <3>1
    <3>3. QED
      BY <2>2, <2>6, <3>2
  <2>9. stage' \in Range(Stages)
    BY <2>2, StagesInOrder
  <2>10. QED
    BY <2>3, <2>4, <2>7, <2>8, <2>9 DEF StartupInv
<1>3. CASE Refuse
  <2>1. launch' = launch /\ world' = world /\ loading' = loading /\ selected' = selected /\ stage' = "refused"
    BY <1>3 DEF Refuse, importVars
  <2>2. LoadInv'
    BY <1>3, LoadInvKept DEF Refuse, StartupInv
  <2>3. \A s : MayPass(s)' <=> MayPass(s)
    BY <2>1, PassesKept
  <2>4. \A k \in DOMAIN Stages : stage' # Stages[k]
    BY <2>1, StagesInOrder
  <2>5. ASSUME opened' # {} PROVE \A i \in 1 .. 10 : MayPass(Stages[i])
    <3>1. CASE opened # {}
      BY <3>1 DEF StartupInv
    <3>2. CASE opened = {}
      <4>1. stage \in {"credentials", "output", "journal", "events"}
        BY <1>3, <2>5, <3>2 DEF Refuse, Opens
      <4>2. PICK k \in {11, 13, 14, 15} : stage = Stages[k] /\ k \in DOMAIN Stages
        BY <4>1 DEF Stages
      <4>3. 1 .. 10 \subseteq 1 .. k - 1
        BY <4>2
      <4>4. QED
        BY <4>2, <4>3 DEF StartupInv
    <3>3. QED
      BY <3>1, <3>2
  <2>6. QED
    BY <2>1, <2>2, <2>3, <2>4, <2>5 DEF StartupInv
<1>4. CASE EndOffline
  <2>1. launch' = launch /\ world' = world /\ stage' = "answered" /\ opened' = opened /\ stage = Stages[9]
    BY <1>4 DEF EndOffline, importVars, Stages
  <2>2. LoadInv'
    BY <1>4, LoadInvKept DEF EndOffline, StartupInv
  <2>3. opened = {}
    <3>1. stage # "refused" /\ \A k \in 11 .. 17 : stage # Stages[k]
      BY <2>1, StagesInOrder
    <3>2. QED
      BY <3>1 DEF StartupInv
  <2>4. \A k \in DOMAIN Stages : stage' # Stages[k]
    BY <2>1, StagesInOrder
  <2>5. QED
    BY <2>1, <2>2, <2>3, <2>4 DEF StartupInv
<1>5. CASE UNCHANGED startupVars
  <2>1. UNCHANGED importVars /\ launch' = launch /\ stage' = stage /\ selected' = selected /\ opened' = opened
    BY <1>5 DEF startupVars
  <2>2. world' = world /\ loading' = loading
    BY <2>1 DEF importVars
  <2>3. \A s : MayPass(s)' <=> MayPass(s)
    BY <2>1, <2>2, PassesKept
  <2>4. LoadInv'
    BY <2>1, LoadInvKept DEF StartupInv
  <2>5. QED
    BY <2>1, <2>2, <2>3, <2>4 DEF StartupInv
<1>6. QED
  BY <1>1, <1>2, <1>3, <1>4, <1>5 DEF StartupStep

\* Every stage before the one that is reached has been passed and would be
\* passed again (main).
THEOREM StartupInvHolds == StartupSpec => []StartupInv
<1>1. StartupInit => StartupInv
  BY StartupInvInit
<1>2. StartupInv /\ [StartupStep]_startupVars => StartupInv'
  BY StartupInvKept
<1>3. QED
  BY <1>1, <1>2, PTL DEF StartupSpec

\* main loads a playbook exactly when its imports are a tree within the limits
\* (loadConfigMap), at whatever stage it stops afterwards.
THEOREM StartupAcceptsTheTrees == StartupSpec => []OnlyTreesAreAccepted
<1>1. StartupInv => OnlyTreesAreAccepted
  BY AcceptedIsTree DEF StartupInv, LoadInv, OnlyTreesAreAccepted
<1>2. QED
  BY <1>1, StartupInvHolds, PTL

\* For every launch: no credential is looked up and no output opened before
\* the playbook, the inventory, security, selection, preflight and a resume
\* have been settled for every device, and none at all by --lint and --plan
\* (main).
THEOREM SecretsComeLast == StartupSpec => []SecretsAreEarned
<1>1. ASSUME StartupInv PROVE SecretsAreEarned
  <2> SUFFICES ASSUME opened # {}
               PROVE  /\ ImportTree /\ ~Offline
                      /\ \A s \in {"flags", "inventory", "resolve", "security", "select", "reuse", "resume"} : Passes(s)
                      /\ \A d \in Range(selected) : Verdicts(d) # Fails
    BY DEF SecretsAreEarned
  <2>1. \A i \in 1 .. 10 : MayPass(Stages[i])
    BY <1>1 DEF StartupInv
  <2>2. /\ Stages[1] = "flags" /\ Stages[2] = "load" /\ Stages[3] = "inventory" /\ Stages[4] = "resolve"
        /\ Stages[5] = "security" /\ Stages[6] = "select" /\ Stages[7] = "reuse" /\ Stages[8] = "preflight"
        /\ Stages[9] = "offline" /\ Stages[10] = "resume"
    BY DEF Stages
  <2>3. \A s \in {"flags", "load", "inventory", "resolve", "security", "select", "reuse", "preflight",
                  "offline", "resume"} : MayPass(s)
    BY <2>1, <2>2
  <2>4. \A s \in {"flags", "load", "inventory", "resolve", "security", "select", "reuse", "offline",
                  "resume"} : Passes(s)
    BY <2>3 DEF MayPass
  <2>5. \A d \in Range(selected) : Verdicts(d) # Fails
    BY <2>3 DEF MayPass
  <2>6. loading = "ok"
    BY <2>4 DEF Passes
  <2>7. ImportTree
    BY <1>1, <2>6, AcceptedIsTree DEF StartupInv, LoadInv
  <2>8. ~Offline
    BY <2>4 DEF Passes
  <2>9. QED
    BY <2>4, <2>5, <2>7, <2>8
<1>2. QED
  BY <1>1, StartupInvHolds, PTL

-----------------------------------------------------------------------------
(* The sink of events: who is where around its lock.                       *)

Inside(c) == closer[c] \in {"lock", "wait", "mark", "close", "unlock", "drain", "sink"}

OneInside ==
  /\ \A c, d \in Closers : Inside(c) /\ Inside(d) => c = d
  /\ \A c \in Closers : Inside(c) => once = "running"
  /\ \A c \in Closers : closer[c] = "returned" => once = "over"

LockDiscipline ==
  /\ readers = {e \in Emitters : emitter[e] \in {"check", "send", "unlock"}}
  /\ \A c \in Closers : closer[c] = "wait" => mutex = "pending"
  /\ \A c \in Closers :
       closer[c] \in {"mark", "close", "unlock"} => mutex = "locked" /\ readers = {}

ChannelState ==
  /\ \A e \in Emitters : At(e, "send") => ~closed
  /\ \A c \in Closers : closer[c] = "close" => closed
  /\ ~open => closed
  /\ SendsAreSafe

WorkerState ==
  /\ worker # "deliver" => inHand = <<>>
  /\ worker = "done" => ~open /\ queue = <<>>
  /\ \A c \in Closers : closer[c] = "sink" => worker = "done"
  /\ once = "over" \/ ~sinkOpen => worker = "done"
  /\ NothingIsLost

\* An emitter inside Handle has an event to hand over.
Counted == \A e \in Emitters : ~At(e, "idle") => emitted[e] # 0

PInv == TypeOK /\ Counted /\ OneInside /\ LockDiscipline /\ ChannelState /\ WorkerState

-----------------------------------------------------------------------------
LEMMA CapacityType == Capacity \in Nat \ {0}
  BY SizesAssumption DEF Capacity

LEMMA InitPInv == Init => PInv
  <1> SUFFICES ASSUME Init PROVE PInv
    OBVIOUS
  <1>1. TypeOK
    <2>1. <<>> \in Seq(Events) /\ Len(<<>>) = 0
      OBVIOUS
    <2>2. queue \in Seq(Events) /\ Len(queue) <= Capacity
      BY <2>1, CapacityType DEF Init
    <2>3. inHand \in Seq(Events) /\ accepted \in Seq(Events) /\ delivered \in Seq(Events)
      BY <2>1 DEF Init
    <2>4. emitter \in [Emitters -> {"idle", "lock", "check", "send", "unlock"}]
          /\ emitted \in [Emitters -> 0..MaxEvents]
      BY SizesAssumption DEF Init
    <2> QED
      BY <2>2, <2>3, <2>4 DEF Init, TypeOK
  <1>2. Counted /\ OneInside /\ LockDiscipline /\ ChannelState
    BY DEF Init, Counted, OneInside, Inside, LockDiscipline, ChannelState, At, SendsAreSafe
  <1>3. WorkerState
    BY DEF Init, WorkerState, NothingIsLost
  <1> QED
    BY <1>1, <1>2, <1>3 DEF PInv

-----------------------------------------------------------------------------
(* Handle *)

LEMMA EmitKeeps ==
  ASSUME PInv, NEW e \in Emitters, Emit(e) PROVE PInv'
  <1> USE DEF PInv, Emit, At, Goto, queueVars, workerVars, closerVars
  <1>1. TypeOK' /\ Counted'
    BY SizesAssumption DEF TypeOK, Counted
  <1>2. OneInside' /\ LockDiscipline' /\ ChannelState'
    BY DEF TypeOK, OneInside, Inside, LockDiscipline, ChannelState, SendsAreSafe
  <1>3. WorkerState'
    BY DEF WorkerState, NothingIsLost
  <1> QED
    BY <1>1, <1>2, <1>3

LEMMA RLockKeeps ==
  ASSUME PInv, NEW e \in Emitters, RLock(e) PROVE PInv'
  <1> USE DEF PInv, RLock, At, Goto, queueVars, workerVars, closerVars
  <1>1. TypeOK' /\ Counted'
    BY DEF TypeOK, Counted
  <1>2. OneInside' /\ ChannelState'
    BY DEF TypeOK, OneInside, Inside, ChannelState, SendsAreSafe
  <1>3. LockDiscipline'
    BY DEF TypeOK, LockDiscipline
  <1>4. WorkerState'
    BY DEF WorkerState, NothingIsLost
  <1> QED
    BY <1>1, <1>2, <1>3, <1>4

LEMMA CheckClosedKeeps ==
  ASSUME PInv, NEW e \in Emitters, CheckClosed(e) PROVE PInv'
  <1> USE DEF PInv, CheckClosed, At, Goto, queueVars, workerVars, closerVars
  <1>1. TypeOK' /\ Counted'
    BY DEF TypeOK, Counted
  <1>2. OneInside' /\ LockDiscipline' /\ ChannelState'
    BY DEF TypeOK, OneInside, Inside, LockDiscipline, ChannelState, SendsAreSafe
  <1>3. WorkerState'
    BY DEF WorkerState, NothingIsLost
  <1> QED
    BY <1>1, <1>2, <1>3

\* The emitter is a reader and has seen closed unset, so the channel is open.
LEMMA SendKeeps ==
  ASSUME PInv, NEW e \in Emitters, Send(e) PROVE PInv'
  <1> DEFINE room == open /\ Len(queue) < Capacity
  <1>1. open /\ UNCHANGED panicked
    BY DEF PInv, Send, Offer, Put, ChannelState, SendsAreSafe, TypeOK
  <1>2. Event(e) \in Events
    BY SizesAssumption DEF PInv, TypeOK, Counted, Send, At, Event, Events
  <1>3. /\ queue' \in Seq(Events) /\ accepted' \in Seq(Events)
        /\ Len(queue') <= Capacity
        /\ NothingIsLost'
    <2>1. queue \in Seq(Events) /\ accepted \in Seq(Events) /\ Len(queue) <= Capacity
          /\ delivered \in Seq(Events) /\ inHand \in Seq(Events)
          /\ accepted = delivered \o inHand \o queue
      BY DEF PInv, TypeOK, WorkerState, NothingIsLost
    <2>2. UNCHANGED <<inHand, delivered>>
      BY DEF Send, workerVars
    <2>3. CASE room
      <3>1. queue' = Append(queue, Event(e)) /\ accepted' = Append(accepted, Event(e))
        BY <2>3 DEF Send, Offer, Put
      <3>2. delivered \o inHand \in Seq(Events) /\ <<Event(e)>> \in Seq(Events)
        BY <1>2, <2>1
      <3>3. Append(accepted, Event(e)) = accepted \o <<Event(e)>>
            /\ Append(queue, Event(e)) = queue \o <<Event(e)>>
        BY <1>2, <2>1, AppendIsConcat
      <3>4. accepted' = delivered \o inHand \o queue'
        BY <2>1, <3>1, <3>2, <3>3, ConcatAssociative
      <3>5. Len(queue') <= Capacity
        BY <1>2, <2>1, <2>3, <3>1, CapacityType
      <3> QED
        BY <1>2, <2>1, <2>2, <3>1, <3>4, <3>5 DEF NothingIsLost
    <2>4. CASE ~room
      BY <2>1, <2>2, <2>4 DEF Send, Offer, Put, NothingIsLost
    <2> QED
      BY <2>3, <2>4
  <1>4. TypeOK' /\ Counted'
    BY <1>1, <1>3 DEF PInv, TypeOK, Counted, Send, At, Goto, workerVars, closerVars
  <1>5. OneInside' /\ LockDiscipline' /\ ChannelState'
    BY <1>1 DEF PInv, TypeOK, OneInside, Inside, LockDiscipline, ChannelState, SendsAreSafe,
       Send, At, Goto, workerVars, closerVars
  <1>6. WorkerState'
    BY <1>1, <1>3 DEF PInv, WorkerState, Send, workerVars, closerVars
  <1> QED
    BY <1>4, <1>5, <1>6 DEF PInv

LEMMA RUnlockKeeps ==
  ASSUME PInv, NEW e \in Emitters, RUnlock(e) PROVE PInv'
  <1> USE DEF PInv, RUnlock, At, Goto, queueVars, workerVars, closerVars
  <1>1. TypeOK' /\ Counted'
    BY DEF TypeOK, Counted
  <1>2. OneInside' /\ LockDiscipline' /\ ChannelState'
    BY DEF TypeOK, OneInside, Inside, LockDiscipline, ChannelState, SendsAreSafe
  <1>3. WorkerState'
    BY DEF WorkerState, NothingIsLost
  <1> QED
    BY <1>1, <1>2, <1>3

-----------------------------------------------------------------------------
(* The worker *)

LEMMA TakeKeeps ==
  ASSUME PInv, Take PROVE PInv'
  <1>1. /\ queue \in Seq(Events) /\ queue # <<>> /\ delivered \in Seq(Events)
        /\ Len(queue) <= Capacity /\ accepted = delivered \o inHand \o queue /\ inHand = <<>>
    BY DEF PInv, TypeOK, WorkerState, NothingIsLost, Take
  <1>2. /\ Tail(queue) \in Seq(Events) /\ <<Head(queue)>> \in Seq(Events)
        /\ Len(Tail(queue)) <= Capacity
    BY <1>1, CapacityType
  <1>3. queue = <<Head(queue)>> \o Tail(queue)
    BY <1>1
  <1>4. NothingIsLost'
    <2>1. accepted = delivered \o queue
      BY <1>1, ConcatEmptySeq
    <2>2. delivered \o (<<Head(queue)>> \o Tail(queue)) =
            delivered \o <<Head(queue)>> \o Tail(queue)
      BY <1>1, <1>2, ConcatAssociative
    <2> QED
      BY <1>3, <2>1, <2>2 DEF Take, NothingIsLost
  <1>5. TypeOK' /\ Counted'
    BY <1>2 DEF PInv, TypeOK, Counted, At, Take, emitterVars, closerVars
  <1>6. OneInside' /\ LockDiscipline' /\ ChannelState'
    BY DEF PInv, OneInside, Inside, LockDiscipline, ChannelState, SendsAreSafe, At, Take,
       emitterVars, closerVars
  <1>7. WorkerState'
    BY <1>4 DEF PInv, WorkerState, Take, emitterVars, closerVars
  <1> QED
    BY <1>5, <1>6, <1>7 DEF PInv

LEMMA DeliverKeeps ==
  ASSUME PInv, Deliver PROVE PInv'
  <1>1. /\ queue \in Seq(Events) /\ delivered \in Seq(Events) /\ inHand \in Seq(Events)
        /\ accepted = delivered \o inHand \o queue
    BY DEF PInv, TypeOK, WorkerState, NothingIsLost
  <1>2. delivered \o inHand \in Seq(Events) /\ <<>> \in Seq(Events)
    BY <1>1
  <1>3. NothingIsLost'
    <2>1. (delivered \o inHand) \o <<>> = delivered \o inHand
      BY <1>2, ConcatEmptySeq
    <2> QED
      BY <1>1, <2>1 DEF Deliver, NothingIsLost, queueVars
  <1>4. TypeOK' /\ Counted'
    BY <1>2 DEF PInv, TypeOK, Counted, At, Deliver, emitterVars, queueVars, closerVars
  <1>5. OneInside' /\ LockDiscipline' /\ ChannelState'
    BY DEF PInv, OneInside, Inside, LockDiscipline, ChannelState, SendsAreSafe, At, Deliver,
       emitterVars, queueVars, closerVars
  <1>6. WorkerState'
    BY <1>3 DEF PInv, WorkerState, Deliver, emitterVars, queueVars, closerVars
  <1> QED
    BY <1>4, <1>5, <1>6 DEF PInv

LEMMA LeaveKeeps ==
  ASSUME PInv, Leave PROVE PInv'
  <1> USE DEF PInv, Leave, At, emitterVars, queueVars, closerVars
  <1>1. TypeOK' /\ Counted'
    BY DEF TypeOK, Counted
  <1>2. OneInside' /\ LockDiscipline' /\ ChannelState'
    BY DEF OneInside, Inside, LockDiscipline, ChannelState, SendsAreSafe
  <1>3. WorkerState'
    BY DEF WorkerState, NothingIsLost
  <1> QED
    BY <1>1, <1>2, <1>3

-----------------------------------------------------------------------------
(* Close *)

\* Of Close's steps each is small, but they disturb different parts.
LEMMA CloseKeepsTypes ==
  ASSUME PInv, NEW c \in Closers, CallClose(c) \/ CloseStep(c) PROVE TypeOK' /\ Counted'
  <1> USE DEF PInv, Advance, At, emitterVars, queueVars, workerVars, TypeOK, Counted
  <1>1. CASE CallClose(c)
    BY <1>1 DEF CallClose
  <1>2. CASE EnterOnce(c)
    BY <1>2 DEF EnterOnce
  <1>3. CASE PassOnce(c)
    BY <1>3 DEF PassOnce
  <1>4. CASE RequestLock(c)
    BY <1>4 DEF RequestLock
  <1>5. CASE Lock(c)
    BY <1>5 DEF Lock
  <1>6. CASE MarkClosed(c)
    BY <1>6 DEF MarkClosed
  <1>7. CASE CloseQueue(c)
    BY <1>7 DEF CloseQueue
  <1>8. CASE Unlock(c)
    BY <1>8 DEF Unlock
  <1>9. CASE AwaitWorker(c)
    BY <1>9 DEF AwaitWorker
  <1>10. CASE CloseSink(c)
    BY <1>10 DEF CloseSink
  <1> QED
    BY <1>1, <1>2, <1>3, <1>4, <1>5, <1>6, <1>7, <1>8, <1>9, <1>10 DEF CloseStep

LEMMA CloseKeepsLock ==
  ASSUME PInv, NEW c \in Closers, CallClose(c) \/ CloseStep(c)
  PROVE  OneInside' /\ LockDiscipline'
  <1> USE DEF PInv, Advance, At, emitterVars, queueVars, workerVars, TypeOK, OneInside, Inside,
              LockDiscipline
  <1>1. CASE CallClose(c)
    BY <1>1 DEF CallClose
  <1>2. CASE EnterOnce(c)
    BY <1>2 DEF EnterOnce
  <1>3. CASE PassOnce(c)
    BY <1>3 DEF PassOnce
  <1>4. CASE RequestLock(c)
    BY <1>4 DEF RequestLock
  <1>5. CASE Lock(c)
    BY <1>5 DEF Lock
  <1>6. CASE MarkClosed(c)
    BY <1>6 DEF MarkClosed
  <1>7. CASE CloseQueue(c)
    BY <1>7 DEF CloseQueue
  <1>8. CASE Unlock(c)
    BY <1>8 DEF Unlock
  <1>9. CASE AwaitWorker(c)
    BY <1>9 DEF AwaitWorker
  <1>10. CASE CloseSink(c)
    BY <1>10 DEF CloseSink
  <1> QED
    BY <1>1, <1>2, <1>3, <1>4, <1>5, <1>6, <1>7, <1>8, <1>9, <1>10 DEF CloseStep

LEMMA CloseKeepsChannel ==
  ASSUME PInv, NEW c \in Closers, CallClose(c) \/ CloseStep(c)
  PROVE  ChannelState' /\ WorkerState'
  <1> USE DEF PInv, Advance, At, emitterVars, queueVars, workerVars, TypeOK, OneInside, Inside,
              LockDiscipline, ChannelState, SendsAreSafe, WorkerState, NothingIsLost
  <1>1. CASE CallClose(c)
    BY <1>1 DEF CallClose
  <1>2. CASE EnterOnce(c)
    BY <1>2 DEF EnterOnce
  <1>3. CASE PassOnce(c)
    BY <1>3 DEF PassOnce
  <1>4. CASE RequestLock(c)
    BY <1>4 DEF RequestLock
  <1>5. CASE Lock(c)
    BY <1>5 DEF Lock
  <1>6. CASE MarkClosed(c)
    BY <1>6 DEF MarkClosed
  <1>7. CASE CloseQueue(c)
    BY <1>7 DEF CloseQueue
  <1>8. CASE Unlock(c)
    BY <1>8 DEF Unlock
  <1>9. CASE AwaitWorker(c)
    BY <1>9 DEF AwaitWorker
  <1>10. CASE CloseSink(c)
    BY <1>10 DEF CloseSink
  <1> QED
    BY <1>1, <1>2, <1>3, <1>4, <1>5, <1>6, <1>7, <1>8, <1>9, <1>10 DEF CloseStep

LEMMA CloseKeeps ==
  ASSUME PInv, NEW c \in Closers, CallClose(c) \/ CloseStep(c) PROVE PInv'
  BY CloseKeepsTypes, CloseKeepsLock, CloseKeepsChannel DEF PInv

-----------------------------------------------------------------------------
LEMMA StutterKeeps ==
  ASSUME PInv, UNCHANGED vars PROVE PInv'
  BY DEF PInv, TypeOK, Counted, OneInside, Inside, LockDiscipline, ChannelState, WorkerState,
     SendsAreSafe, NothingIsLost, At, vars, emitterVars, queueVars, workerVars, closerVars

\* The inductive invariant of the sink: who is where around its lock, and that the
\* channel, the worker's hand and the receiver add up to what was accepted.
THEOREM PipelineInvariant == Spec => []PInv
  <1>1. PInv /\ [Next]_vars => PInv'
    <2> SUFFICES ASSUME PInv, [Next]_vars PROVE PInv'
      OBVIOUS
    <2>1. CASE \E e \in Emitters : Emit(e) \/ HandleStep(e)
      BY <2>1, EmitKeeps, RLockKeeps, CheckClosedKeeps, SendKeeps, RUnlockKeeps DEF HandleStep
    <2>2. CASE WorkerStep
      BY <2>2, TakeKeeps, DeliverKeeps, LeaveKeeps DEF WorkerStep
    <2>3. CASE \E c \in Closers : CallClose(c) \/ CloseStep(c)
      BY <2>3, CloseKeeps
    <2>4. CASE Rest \/ UNCHANGED vars
      BY <2>4, StutterKeeps DEF Rest
    <2> QED
      BY <2>1, <2>2, <2>3, <2>4 DEF Next
  <1> QED
    BY InitPInv, <1>1, PTL DEF Spec

\* The type invariant; above all the queue never exceeds queue_size.
THEOREM PipelineTypes == Spec => []TypeOK
  <1>1. PInv => TypeOK
    BY DEF PInv
  <1> QED
    BY <1>1, PipelineInvariant, PTL

\* Nobody ever sends on the closed channel, however many emitters race with
\* however many calls of Close.
THEOREM EmittersNeverPanic == Spec => []SendsAreSafe
  <1>1. PInv => SendsAreSafe
    BY DEF PInv, ChannelState
  <1> QED
    BY <1>1, PipelineInvariant, PTL

\* The queue is first in, first out, and loses nothing it accepted.
THEOREM AcceptedEventsAreKept == Spec => []NothingIsLost
  <1>1. PInv => NothingIsLost
    BY DEF PInv, WorkerState
  <1> QED
    BY <1>1, PipelineInvariant, PTL

\* Close returns after the last accepted event was delivered.
THEOREM CloseIsComplete == Spec => []CloseDeliversEverything
  <1>1. PInv => CloseDeliversEverything
    <2> SUFFICES ASSUME PInv, ~sinkOpen \/ \E c \in Closers : closer[c] = "returned"
                 PROVE  worker = "done" /\ delivered = accepted
      BY DEF CloseDeliversEverything
    <2>1. worker = "done"
      BY DEF PInv, OneInside, WorkerState
    <2>2. inHand = <<>> /\ queue = <<>> /\ accepted = delivered \o inHand \o queue
      BY <2>1 DEF PInv, WorkerState, NothingIsLost
    <2>3. delivered \o <<>> \o <<>> = delivered
      BY ConcatEmptySeq DEF PInv, TypeOK
    <2> QED
      BY <2>1, <2>2, <2>3
  <1> QED
    BY <1>1, PipelineInvariant, PTL
=============================================================================
