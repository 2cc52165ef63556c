---------------------------- MODULE ConfigImports ----------------------------
(***************************************************************************)
(* How a playbook is put together from the files it imports                *)
(* (cmd/network-collector/config_loader.go).  loadConfigMap calls itself   *)
(* for every import; here a stack of frames, the innermost first, takes    *)
(* the place of the recursion.                                             *)
(*                                                                         *)
(* A value of a configuration map is a scalar, a list or a map.  What YAML *)
(* text says is abstracted to that map and to its number of nodes; the     *)
(* budget of bytes is of one form with that of nodes and left out.  How    *)
(* two maps are merged is in ConfigMerge: nothing that is decided here     *)
(* depends on it.                                                          *)
(***************************************************************************)
EXTENDS Integers, Sequences, FiniteSets, FiniteSetsExt, SequencesExt

CONSTANTS
  MaxImportDepth,  \* maxConfigImportDepth, 20 in the code
  MaxImportFiles,  \* maxConfigImportFiles, 128
  MaxImportNodes,  \* maxConfigImportNodes, 500000
  MergeConfigMaps(_, _)  \* the second map merged into the first, see ConfigMerge

ASSUME BudgetAssumption ==
  MaxImportDepth \in Nat /\ MaxImportFiles \in Nat /\ MaxImportNodes \in Nat

VARIABLES
  world,     \* the directory that is read, see below
  calls,     \* the calls of loadConfigMap in progress: a file, and the entry of
             \* its imports and the match of that entry that the loops are at
  merged,    \* for each of these calls what it has merged so far
  loaded,    \* files that are complete
  files, nodes,  \* the budget spent
  loading,   \* "busy", "ok" or "refused"
  config     \* the merged map

importVars == <<world, calls, merged, loaded, files, nodes, loading, config>>

(* world: root, the path given as --config; file, what each path resolves  *)
(* to when symbolic links are followed (other paths do not exist); and for *)
(* every file its text: nodes, imports and varsFiles (for each entry the   *)
(* sequence of paths that it matches) and own, the rest of the map.  A     *)
(* broken file cannot be read or parsed, or its imports have a wrong type. *)
IsDirectory(w) ==
  /\ IsFiniteSet(DOMAIN w.text)
  /\ w.file \in [DOMAIN w.file -> DOMAIN w.text]
  /\ \A f \in DOMAIN w.text :
       /\ w.text[f].nodes \in Nat
       /\ w.text[f].imports \in Seq(Seq(STRING)) /\ w.text[f].varsFiles \in Seq(Seq(STRING))

\* Where the paths stand in a list of entries, and the path at such a place.
Positions(entries) == UNION {{i} \X DOMAIN entries[i] : i \in DOMAIN entries}
PathAt(entries, p) == entries[p[1]][p[2]]

Scalar(v) == [kind |-> "scalar", is |-> v]
MapOf(m)  == [kind |-> "map", is |-> m]
NoKeys    == [k \in {} |-> Scalar("")]

Text(path) == world.text[world.file[path]]
Readable(path) == path \in DOMAIN world.file /\ ~Text(path).broken

\* loadVariableFile: a vars wrapper is taken off; it must be the only key.
Wraps(values) == "vars" \in DOMAIN values /\ values["vars"].kind = "map"
WrapsAlone(values) == Wraps(values) => DOMAIN values = {"vars"}
Unwrapped(values) == IF Wraps(values) THEN values["vars"].is ELSE values

\* mergeConfigVariables: the variable files in order, then the inline variables.
Inline(text) == IF "vars" \in DOMAIN text.own THEN text.own["vars"].is ELSE NoKeys
Variables(text) ==
  MergeConfigMaps(
    FoldLeft(LAMBDA m, p : MergeConfigMaps(m, Unwrapped(Text(p).own)), NoKeys, FlattenSeq(text.varsFiles)),
    Inline(text))
VarsLoad(text) ==
  /\ \A i \in DOMAIN text.varsFiles : text.varsFiles[i] # <<>>
  /\ \A p \in Positions(text.varsFiles) :
       Readable(PathAt(text.varsFiles, p)) /\ WrapsAlone(Text(PathAt(text.varsFiles, p)).own)
  /\ "vars" \in DOMAIN text.own => text.own["vars"].kind = "map"

\* What a file itself contributes.
Current(text) ==
  IF DOMAIN Variables(text) = {} THEN text.own
  ELSE [k \in {"vars"} |-> MapOf(Variables(text))] @@ text.own

\* configImportBudget: the file, here at <<0, 0>>, and its variable files, each
\* as often as it is read, and the nodes of all of them.
FilesRead(text) == {<<0, 0>>} \cup Positions(text.varsFiles)
NodesAt(text, p) == IF p = <<0, 0>> THEN text.nodes ELSE Text(PathAt(text.varsFiles, p)).nodes
NodesRead(text) == UNION {{p} \X (1 .. NodesAt(text, p)) : p \in FilesRead(text)}

ImportsInit ==
  /\ calls = <<>> /\ merged = <<>> /\ loaded = {}
  /\ files = 0 /\ nodes = 0
  /\ loading = "busy" /\ config = NoKeys

Active == {calls[i].file : i \in DOMAIN calls}

\* The loops over imports and their matches, in the innermost call.
Imports(frame) == world.text[frame.file].imports
Place(frame) == <<frame.entry, frame.match>>
Exhausted(frame) == frame.entry = Len(Imports(frame)) + 1
Advanced(frame) ==
  IF frame.match = Len(Imports(frame)[frame.entry])
  THEN [frame EXCEPT !.entry = @ + 1, !.match = 1] ELSE [frame EXCEPT !.match = @ + 1]

\* expandConfigImport: a pattern must match.
Matchless(frame) == ~Exhausted(frame) /\ Imports(frame)[frame.entry] = <<>>

\* loadConfigMap is called, by loadConfig or for a match, with this path.
Asking == loading = "busy" /\ (calls # <<>> => ~Exhausted(calls[1]) /\ ~Matchless(calls[1]))
Asked == IF calls = <<>> THEN world.root ELSE PathAt(Imports(calls[1]), Place(calls[1]))

\* Fault: a file that is complete may be imported once more.
FaultAdmissible(path) ==
  Len(calls) <= MaxImportDepth /\ path \in DOMAIN world.file /\ world.file[path] \notin Active

\* The checks of loadConfigMap before a file is read.
Admissible(path) ==
  /\ Len(calls) <= MaxImportDepth
  /\ path \in DOMAIN world.file
  /\ world.file[path] \notin Active
  /\ world.file[path] \notin loaded

WithinBudget(text) ==
  /\ files + Cardinality(FilesRead(text)) <= MaxImportFiles
  /\ nodes + Cardinality(NodesRead(text)) <= MaxImportNodes

Accepted(path) ==
  Admissible(path) /\ Readable(path) /\ VarsLoad(Text(path)) /\ WithinBudget(Text(path))

Open ==
  /\ Asking /\ Accepted(Asked)
  /\ files' = files + Cardinality(FilesRead(Text(Asked)))
  /\ nodes' = nodes + Cardinality(NodesRead(Text(Asked)))
  /\ calls' = <<[file |-> world.file[Asked], entry |-> 1, match |-> 1]>> \o calls
  /\ merged' = <<NoKeys>> \o merged
  /\ UNCHANGED <<world, loaded, loading, config>>

RefuseImports ==
  /\ \/ Asking /\ ~Accepted(Asked)
     \/ loading = "busy" /\ calls # <<>> /\ Matchless(calls[1])
  /\ loading' = "refused"
  /\ UNCHANGED <<world, calls, merged, loaded, files, nodes, config>>

\* Fault: what a file imports goes over the file.
FaultCompleted(frame, below) == MergeConfigMaps(Current(world.text[frame.file]), below)

\* A file over what it imports.
Completed(frame, below) == MergeConfigMaps(below, Current(world.text[frame.file]))

\* loadConfigMap returns; its caller merges what it returned and goes on to the
\* next match.
ReturnImport ==
  /\ loading = "busy" /\ calls # <<>> /\ Exhausted(calls[1])
  /\ loaded' = loaded \cup {calls[1].file}
  /\ LET returned == Completed(calls[1], merged[1]) IN
       IF Len(calls) = 1
       THEN loading' = "ok" /\ config' = returned /\ calls' = <<>> /\ merged' = <<>>
       ELSE /\ calls' = [Tail(calls) EXCEPT ![1] = Advanced(@)]
            /\ merged' = [Tail(merged) EXCEPT ![1] = MergeConfigMaps(@, returned)]
            /\ UNCHANGED <<loading, config>>
  /\ UNCHANGED <<world, files, nodes>>

LoadStep == Open \/ RefuseImports \/ ReturnImport

\* loadConfig by itself, in any directory.
LoadSpec == IsDirectory(world) /\ ImportsInit /\ [][LoadStep]_importVars

-----------------------------------------------------------------------------
(* What loading promises, by the shape of the directory alone.             *)

Root == world.file[world.root]
Places(f) == Positions(world.text[f].imports)
Match(f, p) == PathAt(world.text[f].imports, p)
Leads(f, p) == Match(f, p) \in DOMAIN world.file
Target(f, p) == world.file[Match(f, p)]

\* The files that the root leads to: those in every set that holds the root
\* and all that its members import.
Closed(S) == Root \in S /\ \A f \in S : \A p \in Places(f) : Leads(f, p) => Target(f, p) \in S
Reach == {f \in DOMAIN world.text : \A S \in SUBSET DOMAIN world.text : Closed(S) => f \in S}

Sound(f) ==
  /\ ~world.text[f].broken /\ VarsLoad(world.text[f])
  /\ \A i \in DOMAIN world.text[f].imports : world.text[f].imports[i] # <<>>
  /\ \A p \in Places(f) : Leads(f, p)

\* Files of the root, each imported by the one before it, the root first.
IsChain(chain, n) ==
  chain[0] = Root /\ \A i \in 0 .. n - 1 : \E p \in Places(chain[i]) : Target(chain[i], p) = chain[i + 1]

FilesOf(S) == UNION {{f} \X FilesRead(world.text[f]) : f \in S}
NodesOf(S) == UNION {{f} \X NodesRead(world.text[f]) : f \in S}

ImportTree ==
  /\ world.root \in DOMAIN world.file
  /\ \A f \in Reach : Sound(f)
  /\ \A f \in Reach : \A p \in Places(f) : Target(f, p) # Root
  /\ \A f, g \in Reach : \A p \in Places(f), q \in Places(g) :
       Target(f, p) = Target(g, q) => f = g /\ p = q
  /\ ~\E chain \in [0 .. MaxImportDepth + 1 -> Reach] : IsChain(chain, MaxImportDepth + 1)
  /\ Cardinality(FilesOf(Reach)) <= MaxImportFiles
  /\ Cardinality(NodesOf(Reach)) <= MaxImportNodes

\* The playbook that is accepted is a tree: every file that the root reaches
\* is there, well formed and imported exactly once, whatever its path is
\* called, and depth and budgets hold for the whole; nothing else is refused
\* (loadConfigMap's active and loaded sets, depth and configImportBudget).
OnlyTreesAreAccepted ==
  /\ loading = "ok" => ImportTree
  /\ loading = "refused" => ~ImportTree
=============================================================================
