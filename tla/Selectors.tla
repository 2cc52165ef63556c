------------------------------ MODULE Selectors ------------------------------
(***************************************************************************)
(* The selectors of --limit and --exclude (pkg/orchestrator/selector.go),  *)
(* and that the devices a run is about are those they name.                *)
(*                                                                         *)
(* Parsing from position i of a sequence of tokens gives the devices that  *)
(* what was parsed holds for and the next position, or position 0 when it  *)
(* is refused.                                                             *)
(***************************************************************************)
EXTENDS Startup

Refused == [at |-> 0, holds |-> {}]
Accepts(tokens, i, token) == i \in DOMAIN tokens /\ tokens[i] = token

\* A value may be any token but a parenthesis, a word like "and" too.
ParsePredicate(tokens, i, devices) ==
  IF /\ {i, i + 1, i + 2} \subseteq DOMAIN tokens
     /\ tokens[i + 1] \in {"=", "!="} /\ tokens[i + 2] \notin {"(", ")"}
  THEN LET matched == {d \in devices : tokens[i + 2] \in TargetValue(d, tokens[i])}
       IN [at |-> i + 3, holds |-> IF tokens[i + 1] = "=" THEN matched ELSE devices \ matched]
  ELSE Refused

RECURSIVE ParseOr(_, _, _), ParseOrRest(_, _, _), ParseAnd(_, _, _), ParseAndRest(_, _, _),
          ParseUnary(_, _, _)
\* Fault: "not" takes in all that "and" joins behind it.
FaultParseUnary(tokens, i, devices) ==
  IF Accepts(tokens, i, "not")
  THEN LET inner == ParseAnd(tokens, i + 1, devices)
       IN IF inner.at = 0 THEN Refused ELSE [inner EXCEPT !.holds = devices \ @]
  ELSE IF Accepts(tokens, i, "(")
  THEN LET inner == ParseOr(tokens, i + 1, devices)
       IN IF inner.at # 0 /\ Accepts(tokens, inner.at, ")") THEN [inner EXCEPT !.at = @ + 1] ELSE Refused
  ELSE ParsePredicate(tokens, i, devices)

ParseUnary(tokens, i, devices) ==
  IF Accepts(tokens, i, "not")
  THEN LET inner == ParseUnary(tokens, i + 1, devices)
       IN IF inner.at = 0 THEN Refused ELSE [inner EXCEPT !.holds = devices \ @]
  ELSE IF Accepts(tokens, i, "(")
  THEN LET inner == ParseOr(tokens, i + 1, devices)
       IN IF inner.at # 0 /\ Accepts(tokens, inner.at, ")") THEN [inner EXCEPT !.at = @ + 1] ELSE Refused
  ELSE ParsePredicate(tokens, i, devices)

ParseAndRest(tokens, left, devices) ==
  IF left.at # 0 /\ Accepts(tokens, left.at, "and")
  THEN LET right == ParseUnary(tokens, left.at + 1, devices)
       IN ParseAndRest(tokens, [at |-> right.at, holds |-> left.holds \cap right.holds], devices)
  ELSE left
ParseAnd(tokens, i, devices) == ParseAndRest(tokens, ParseUnary(tokens, i, devices), devices)

ParseOrRest(tokens, left, devices) ==
  IF left.at # 0 /\ Accepts(tokens, left.at, "or")
  THEN LET right == ParseAnd(tokens, left.at + 1, devices)
       IN ParseOrRest(tokens, [at |-> right.at, holds |-> left.holds \cup right.holds], devices)
  ELSE left
ParseOr(tokens, i, devices) == ParseOrRest(tokens, ParseAnd(tokens, i, devices), devices)

\* CompileSelector: the whole text must be one selector.
ParsedSelector(tokens, devices) ==
  LET parsed == ParseOr(tokens, 1, devices)
  IN IF parsed.at = Len(tokens) + 1 THEN parsed ELSE Refused

-----------------------------------------------------------------------------

\* What the text of a selector means: a tree of predicates, and, or and not.
RECURSIVE Means(_, _)
Means(tree, device) ==
  CASE tree.op = "is"   -> tree.value \in TargetValue(device, tree.key)
    [] tree.op = "isnt" -> tree.value \notin TargetValue(device, tree.key)
    [] tree.op = "not"  -> ~Means(tree.left, device)
    [] tree.op = "and"  -> Means(tree.left, device) /\ Means(tree.right, device)
    [] tree.op = "or"   -> Means(tree.left, device) \/ Means(tree.right, device)

\* The devices of a run are exactly those of the resolved playbook, in its
\* order, that --limit holds for, --exclude does not hold for and the replayed
\* run failed on; a selector means what its tree says, "not" before "and"
\* before "or" unless parentheses say otherwise, and text that is no selector
\* selects nothing because the run is refused (CompileSelector, filterDevices).
SelectionIsExact ==
  stage \in {"reuse", "answered", "launch"} =>
    /\ launch.limit # <<>> => launch.limitTree # {}
    /\ launch.exclude # <<>> => launch.excludeTree # {}
    /\ selected = SelectSeq(Resolved, LAMBDA d :
         /\ \A tree \in launch.limitTree : Means(tree, d)
         /\ \A tree \in launch.excludeTree : ~Means(tree, d)
         /\ \A failed \in Summaries : {d.hostname, d.ip} \cap failed # {})
=============================================================================
