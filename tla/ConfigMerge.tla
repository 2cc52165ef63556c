------------------------------ MODULE ConfigMerge ------------------------------
(***************************************************************************)
(* mergeConfigMaps of cmd/network-collector/config_loader.go, which        *)
(* ConfigImports has as a parameter, and what the merged playbook says     *)
(* then.                                                                   *)
(***************************************************************************)
EXTENDS ConfigImports

ListOf(s) == [kind |-> "list", is |-> s]

\* mergeConfigMaps: maps are merged, lists are joined, else the source wins.
RECURSIVE MergedMaps(_, _)
MergeValue(old, new) ==
  CASE old.kind = "map" /\ new.kind = "map"   -> MapOf(MergedMaps(old.is, new.is))
    [] old.kind = "list" /\ new.kind = "list" -> ListOf(old.is \o new.is)
    [] OTHER -> new
MergedMaps(destination, source) ==
  [k \in DOMAIN destination \cup (DOMAIN source \ {"imports"}) |->
     IF k \notin DOMAIN source \ {"imports"} THEN destination[k]
     ELSE IF k \notin DOMAIN destination THEN source[k]
     ELSE MergeValue(destination[k], source[k])]

-----------------------------------------------------------------------------

Imported(f) == FlattenSeq(world.text[f].imports)

\* The files in the order in which the code completes them.
RECURSIVE Postorder(_)
Postorder(f) ==
  FlattenSeq([i \in DOMAIN Imported(f) |-> Postorder(world.file[Imported(f)[i]])]) \o <<f>>

Speakers(key) ==
  SelectSeq(Postorder(Root), LAMBDA f : key \in DOMAIN Current(world.text[f]))
Says(f, key) == Current(world.text[f])[key]
OfOneKind(key) == \A f, g \in Range(Speakers(key)) : Says(f, key).kind = Says(g, key).kind

\* An importing file has the last word, over what it imports and over what
\* its siblings import; lists grow in that order, and the vars of a variable
\* file yield to those written in the playbook (mergeConfigMaps, loadConfigMap
\* and mergeConfigVariables).  Keys that are a map in one file and a scalar
\* in another have no such meaning: their merge depends on its grouping.
ImportersWin ==
  loading = "ok" =>
    \A key \in UNION {DOMAIN Current(world.text[f]) : f \in Reach} :
      LET by == Speakers(key) IN
      /\ key \in DOMAIN config
      /\ OfOneKind(key) =>
        CASE Says(by[1], key).kind = "scalar" -> config[key] = Says(Last(by), key)
          [] Says(by[1], key).kind = "list" ->
               config[key].is = FlattenSeq([i \in DOMAIN by |-> Says(by[i], key).is])
          [] OTHER ->
               \A name \in DOMAIN config[key].is :
                 config[key].is[name] =
                   LET named == SelectSeq(by, LAMBDA f : name \in DOMAIN Says(f, key).is)
                   IN Says(Last(named), key).is[name]
=============================================================================
