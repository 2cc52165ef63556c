---------------------------- MODULE MCPlaybookRun ----------------------------
(* One launch per question: of imports, of selection, of what may refuse a *)
(* run, and of one device's walk through a playbook.                       *)
EXTENDS PlaybookRun, ConfigMerge

NoFields == [l \in {} |-> ""]
NoWorkflows == [w \in {} |-> [parameters |-> {}, steps |-> <<>>]]

\* Files.
TextOf(imports, own) ==
  [broken |-> FALSE, nodes |-> 1, imports |-> imports, varsFiles |-> <<>>, own |-> own]
Directory(texts, links) ==
  [root |-> "main", text |-> texts, file |-> links @@ [f \in DOMAIN texts |-> f]]
NoLinks == [l \in {} |-> ""]
Alone == Directory([main |-> TextOf(<<>>, NoKeys)], NoLinks)

V(name, value) == [vars |-> MapOf(name :> Scalar(value))]
Devices(d) == [devices |-> ListOf(<<d>>)]

\* An importer over two siblings, one of which imports another file; variables
\* of a variable file, wrapped, under the inline ones.
Layers ==
  Directory([main |-> [TextOf(<< <<"base", "site">> >>, V("x", "main") @@ Devices("r1")) EXCEPT !.varsFiles = << <<"vars">> >>],
             base |-> TextOf(<<>>, V("x", "base") @@ Devices("r2") @@ [ssh |-> Scalar("base")]),
             site |-> TextOf(<< <<"deep">> >>, [ssh |-> Scalar("site")]),
             deep |-> TextOf(<<>>, [ssh |-> Scalar("deep")] @@ Devices("r3")),
             vars |-> TextOf(<<>>, [vars |-> MapOf([x |-> Scalar("file"), y |-> Scalar("file")])])], NoLinks)
Importing(next) == [f \in DOMAIN next |-> TextOf(next[f], NoKeys)]
Chain(n) == Importing([f \in {"main"} \cup {"f1", "f2", "f3", "f4"} |->
              CASE f = "main" /\ n >= 1 -> << <<"f1">> >> [] f = "f1" /\ n >= 2 -> << <<"f2">> >>
                [] f = "f2" /\ n >= 3 -> << <<"f3">> >> [] f = "f3" /\ n >= 4 -> << <<"f4">> >> [] OTHER -> <<>>])

Worlds ==
  {Layers, Directory(Chain(3), NoLinks), Directory(Chain(4), NoLinks),
   Directory(Importing([main |-> << <<"a">>, <<"b">> >>, a |-> << <<"c">> >>, b |-> << <<"c">> >>, c |-> <<>>]), NoLinks),
   Directory(Importing([main |-> << <<"a">>, <<"link">> >>, a |-> <<>>]), [link |-> "a"]),
   Directory(Importing([main |-> << <<"a">> >>, a |-> << <<"b">> >>, b |-> << <<"a">> >>]), NoLinks),
   Directory(Importing([main |-> << <<"gone">> >>]), NoLinks),
   Directory(Importing([main |-> << <<>> >>]), NoLinks),
   Directory(Importing([main |-> << <<"a", "b", "c", "d">> >>, a |-> <<>>, b |-> <<>>, c |-> <<>>, d |-> <<>>])
               @@ [e |-> TextOf(<<>>, NoKeys)], NoLinks),
   Directory(Importing([main |-> << <<"a", "b", "c", "d", "e">> >>,
                      a |-> <<>>, b |-> <<>>, c |-> <<>>, d |-> <<>>, e |-> <<>>]), NoLinks),
   Directory([main |-> TextOf(<< <<"a">> >>, NoKeys), a |-> [TextOf(<<>>, NoKeys) EXCEPT !.nodes = 9]], NoLinks),
   Directory([main |-> TextOf(<< <<"a">>, <<"b">> >>, NoKeys), a |-> [TextOf(<<>>, NoKeys) EXCEPT !.nodes = 6],
              b |-> [TextOf(<<>>, NoKeys) EXCEPT !.nodes = 6]], NoLinks),
   Directory([main |-> TextOf(<< <<"a">> >>, NoKeys), a |-> [TextOf(<<>>, NoKeys) EXCEPT !.broken = TRUE]], NoLinks)}

\* A device, and a launch that only runs its steps.
Device(name) ==
  [hostname |-> name, ip |-> name, type |-> "ios", security |-> {}, gnmi |-> {}, labels |-> NoFields,
   vars |-> {}, hosts |-> <<>>, groups |-> <<>>, steps |-> <<Step("wait", "wait")>>]

Secure(profile, policy, file) == [profile |-> profile, policy |-> policy, knownHosts |-> file]
Base ==
  [world |-> Alone, flags |-> {}, limit |-> <<>>, exclude |-> <<>>, limitTree |-> {}, excludeTree |-> {},
   replay |-> {}, resume |-> "", secmode |-> "", entries |-> <<Device("r1")>>, workflows |-> NoWorkflows,
   vars |-> {"v"}, varsValid |-> TRUE, ssh |-> Secure("modern", "known_hosts", ""), rsaToken |-> FALSE,
   rsaMax |-> 0, schedulable |-> TRUE, output |-> FALSE, parsersBroken |-> FALSE,
   inventory |-> [explicit |-> FALSE, there |-> FALSE, broken |-> FALSE, hosts |-> <<>>,
                  groups |-> [g \in {} |-> <<>>]]]

Loads == {[Base EXCEPT !.world = w, !.flags = {"plan"}] : w \in Worlds}

\* Three hosts of two groups; the playbook overrides a label of its entry.
Host(name, site, role) ==
  [name |-> name, ip |-> name, type |-> "xr", security |-> {}, gnmi |-> {}, vars |-> {"hv"}, varsValid |-> TRUE,
   labels |-> [site |-> site, role |-> role]]
Fleet3 ==
  [explicit |-> TRUE, there |-> TRUE, broken |-> FALSE,
   hosts |-> <<Host("a", "x", "core"), Host("b", "y", "core"), Host("c", "x", "edge")>>,
   groups |-> [all |-> <<"a", "b", "c">>, some |-> <<"c", "a">>]]
OfGroup(groups) ==
  [Device("") EXCEPT !.groups = groups, !.labels = [role |-> "play"], !.type = "", !.steps = <<Step("m", "message")>>]

Is(k, v) == [op |-> "is", key |-> k, value |-> v]
Isnt(k, v) == [op |-> "isnt", key |-> k, value |-> v]
Not(t) == [op |-> "not", left |-> t]
And2(s, t) == [op |-> "and", left |-> s, right |-> t]
Or2(s, t) == [op |-> "or", left |-> s, right |-> t]
T(k, o, v) == <<k, o, v>>

Selectors ==
  {<<T("site", "=", "x") \o <<"or">> \o T("name", "=", "b") \o <<"and">> \o T("role", "=", "core"),
     {Or2(Is("site", "x"), And2(Is("name", "b"), Is("role", "core")))}>>,
   <<<<"not">> \o T("site", "=", "x") \o <<"and">> \o T("name", "!=", "b"),
     {And2(Not(Is("site", "x")), Isnt("name", "b"))}>>,
   <<<<"not", "(">> \o T("site", "=", "x") \o <<"or">> \o T("name", "=", "b") \o <<")">>,
     {Not(Or2(Is("site", "x"), Is("name", "b")))}>>,
   <<<<"not", "not">> \o T("name", "=", "a") \o <<"or">> \o T("zone", "!=", "z"),
     {Or2(Not(Not(Is("name", "a"))), Isnt("zone", "z"))}>>,
   <<T("site", "=", "x") \o <<"or">>, {}>>, <<T("site", "=", "x") \o T("site", "=", "x"), {}>>,
   <<<<"(">> \o T("site", "=", "x"), {}>>, <<<<"not">>, {}>>, <<<<"site", "=", ")">>, {}>>}

OnFleet == [Base EXCEPT !.inventory = Fleet3, !.entries = <<OfGroup(<<"some">>), [OfGroup(<<>>) EXCEPT !.hosts = <<"b">>]>>]
Summary(devices, validations) == [devices |-> devices, validations |-> validations]
Selections ==
  {[OnFleet EXCEPT !.limit = s[1], !.limitTree = s[2]] : s \in Selectors}
    \cup {[OnFleet EXCEPT !.exclude = s[1], !.excludeTree = s[2], !.flags = {"lint"}] : s \in Selectors}
    \cup {[OnFleet EXCEPT !.replay = {Summary(<<[hostname |-> "a", ip |-> "", failed |-> TRUE],
                                               [hostname |-> "c", ip |-> "c", failed |-> FALSE]>>, <<>>)}],
          [OnFleet EXCEPT !.replay = {Summary(<<>>, <<[hostname |-> "", ip |-> "b", status |-> "error", recovered |-> FALSE],
                                                     [hostname |-> "c", ip |-> "c", status |-> "fail", recovered |-> TRUE]>>)}],
          [OnFleet EXCEPT !.entries = <<OfGroup(<<"none">>)>>],
          [OnFleet EXCEPT !.inventory.hosts = <<Host("a", "x", "core"), Host("a", "y", "core")>>],
          [OnFleet EXCEPT !.inventory.broken = TRUE],
          [OnFleet EXCEPT !.inventory.there = FALSE]}

\* What may refuse a run before it begins.
Lax == [OnFleet EXCEPT !.inventory.hosts[3].security = {Secure("legacy", "", "")}]
Removed == [Step("old", "cmd") EXCEPT !.removedLocal = TRUE]
Plaintext == [Step("sub", "gnmi") EXCEPT !.skipTLS = TRUE]
In(steps) == [Base EXCEPT !.entries[1].steps = steps]
Refusals ==
  {[Base EXCEPT !.output = TRUE], [Base EXCEPT !.parsersBroken = TRUE], [Base EXCEPT !.schedulable = FALSE],
   [Base EXCEPT !.parsersBroken = TRUE, !.flags = {"lint"}], [Base EXCEPT !.flags = {"lint", "plan"}],
   [Base EXCEPT !.varsValid = FALSE], [Base EXCEPT !.flags = {"check"}, !.resume = "completed"],
   [Lax EXCEPT !.limit = T("name", "=", "a"), !.limitTree = {Is("name", "a")}],
   [Lax EXCEPT !.secmode = "permissive"], [Base EXCEPT !.secmode = "lenient"],
   [Base EXCEPT !.ssh = Secure("", "pinned", "")], [Base EXCEPT !.entries[1].gnmi = {{"skip_verify"}}],
   [OnFleet EXCEPT !.rsaToken = TRUE, !.rsaMax = 2], [OnFleet EXCEPT !.rsaToken = TRUE, !.rsaMax = 3],
   [Base EXCEPT !.rsaMax = 1], In(<<Removed>>), In(<<Plaintext>>)}
    \cup {[Base EXCEPT !.resume = r, !.output = TRUE] : r \in {"changed", "uncertain", "completed", "ensure uncertain"}}

\* Steps.
Show(name, var) == [Step(name, "get") EXCEPT !.register = {var}]
Cmd(name, exec) == [Step(name, "cmd") EXCEPT !.exec = exec]
Tell(name, reads) == [Step(name, "message") EXCEPT !.reads = reads]
Judged(step, pass, fail) == [step EXCEPT !.validated = TRUE, !.on_pass = pass, !.on_fail = fail]
Then2(steps) == [NoAction EXCEPT !.steps = steps, !.given = TRUE]
End(how) == [NoAction EXCEPT !.ends = how, !.given = TRUE]
Send(exec, reads, steps) ==
  [NoAction EXCEPT !.cmd = TRUE, !.exec = exec, !.reads = reads, !.steps = steps, !.given = TRUE]
Group(name, kind, steps) == [Step(name, kind) EXCEPT !.steps = steps]
Loop(name, count, steps) == [Group(name, "repeat", steps) EXCEPT !.count = count]
Guard(name, steps, rescue, rollback, always) ==
  [Group(name, "block", steps) EXCEPT !.rescue = rescue, !.rollback = rollback, !.always = always]
Call(name, workflow, with) == [Step(name, "use") EXCEPT !.use = workflow, !.with = with]
Each(name, steps) == [Group(name, "foreach", steps) EXCEPT !.items = << {"v"}, {} >>]
From(name, var, steps) == [Group(name, "foreach", steps) EXCEPT !.from = {var}]

Check(l) == [l EXCEPT !.flags = {"check"}]
With(l, workflows) == [l EXCEPT !.workflows = workflows]

Actions ==
  {\* on_fail reads what on_pass registers: accepted or not by the order of a map
   In(<<Judged(Show("get", "a"), Then2(<<Show("more", "b")>>), Then2(<<Tell("why", {"b"})>>)), Tell("end", {"a", "b"})>>),
   In(<<Judged([Cmd("try", {"v"}) EXCEPT !.checks = {"v"}], End("stop"), End("fail")), Cmd("last", {})>>),
   In(<<Show("get", "a"), Judged([Cmd("try", {}) EXCEPT !.checks = {"a"}],
          Send({"v"}, {"a"}, <<Cmd("in", {"v"}), Loop("rep", 1, <<Show("x", "b")>>)>>), Send({"v"}, {}, <<>>)),
        Tell("end", {"b"})>>),
   In(<<Judged(Show("get", "a"), Send({}, {}, <<>>), NoAction), Tell("never", {})>>),
   In(<<Cmd("bad", {"a"}), Show("get", "a")>>), In(<<Show("get", "a"), Cmd("bad", {"a"})>>)}

Sessions ==
  {In(<<[Cmd("reload", {}) EXCEPT !.returns = FALSE], Cmd("dead", {}), Step("probe", "probe"), Cmd("back", {})>>),
   In(<<[Step("ok", "approval") EXCEPT !.reads = {"v"}], [Show("get", "a") EXCEPT !.when = {"v"}],
        [Tell("if", {}) EXCEPT !.when = {"a"}], [Step("sure", "approval") EXCEPT !.reads = {"a"}],
        [Step("edit", "edit") EXCEPT !.exec = {"v"}]>>),
   In(<<[Step("facts", "facts") EXCEPT !.register = {"a"}, !.when = {"v"}],
        [Step("ens", "ensure") EXCEPT !.exec = {"v"}], Cmd("last", {})>>),
   [Base EXCEPT !.entries[1].hostname = ""], In(<<>>)}
Checked ==
  {Check(In(<<[Step("ok", "approval") EXCEPT !.reads = {"v"}], Step("wait", "wait"), Step("probe", "probe"),
              Cmd("cmd", {"v"}), Step("facts", "facts"), Step("gnmi", "gnmi"), Step("edit", "edit"), Show("get", "a"),
              Tell("end", {"a"})>>)),
   Check(In(<<Guard("b", <<Judged(Step("ens", "ensure"), NoAction, End("fail"))>>, <<Cmd("undo", {})>>, <<>>, <<>>)>>))}

Flows ==
  With(In(<<Show("get", "a"), Call("one", "w", [p |-> {"v"}]), Call("two", "u", [p |-> {"a"}]), Tell("end", {"b", "a"})>>),
       [w |-> [parameters |-> {"p"}, steps |-> <<Cmd("c", {"p"}), Call("in", "u", [p |-> {"p"}])>>],
        u |-> [parameters |-> {"p"}, steps |-> <<[Show("s", "b") EXCEPT !.exec = {"v"}], Tell("t", {"p"})>>]])
Escapes ==
  With(In(<<Show("get", "a"), Call("one", "w", [p |-> {"a"}])>>),
       [w |-> [parameters |-> {"p"}, steps |-> <<Cmd("c", {"p"})>>]])
Loops ==
  {In(<<Loop("rep", 2, <<Judged(Show("get", "a"), NoAction, NoAction), Cmd("c", {"v"})>>), Tell("end", {"a"})>>),
   In(<<[Loop("rep", 2, <<Judged(Show("get", "a"), End("stop"), End("fail"))>>) EXCEPT !.stopOnFailure = FALSE]>>),
   In(<<Loop("rep", 1, <<Loop("in", 1, <<Step("wait", "wait")>>)>>), Step("wait", "wait")>>),
   In(<<[Each("all", <<Cmd("c", {"index"}), [Show("get", "item") EXCEPT !.reads = {"item"}]>>) EXCEPT !.stopOnFailure = FALSE]>>),
   In(<<Show("get", "a"), From("all", "a", <<Tell("i", {"item"}), Show("s", "b")>>), Tell("end", {"b"})>>),
   In(<<Show("get", "a"), From("all", "a", <<Cmd("i", {"item"})>>)>>),
   In(<<[Each("all", <<Step("wait", "wait")>>) EXCEPT !.item = "i", !.index = "i"], Each("none", <<>>)>>)}
Blocks ==
  {In(<<Guard("b", <<Judged(Step("ens", "ensure"), NoAction, NoAction), Show("get", "a")>>, <<Judged(Show("fix", "b"), NoAction, NoAction)>>,
              <<>>, <<Tell("end", {"a", "b"})>>), Step("wait", "wait")>>),
   In(<<Guard("o", <<Guard("i", <<Judged(Step("edit", "edit"), NoAction, End("stop"))>>, <<>>, <<Show("undo", "a")>>, <<>>)>>,
              <<>>, <<>>, <<Step("e", "edit"), Tell("t", {"a"})>>)>>),
   In(<<Guard("b", <<Step("wait", "wait")>>, <<Step("wait", "wait")>>, <<Step("wait", "wait")>>, <<>>), Step("wait", "wait")>>)}
Branches ==
  {In(<<Group("par", "parallel", <<Show("x", "a"), [Cmd("y", {"v"}) EXCEPT !.register = {"b"}],
                                   Judged(Show("z", "a"), NoAction, End("fail"))>>), Tell("end", {"a", "b"})>>),
   In(<<Group("par", "parallel", <<Show("x", "a"), Tell("y", {"a"})>>)>>),
   In(<<Show("g", "a"), Group("par", "parallel", <<From("f", "a", <<Cmd("y", {"index"})>>), Step("e", "edit")>>), Show("h", "c")>>)}
Sub(triggers) == [Step("sub", "gnmi") EXCEPT !.register = {"a"}, !.triggers = triggers]
Triggers ==
  {In(<<Judged(Sub(<< <<Cmd("c", {"v"}), Show("s", "b")>>, <<Tell("t", {"gnmi_event", "b"}), Show("u", "v")>> >>), NoAction, NoAction),
        Tell("end", {"a", "b"})>>),
   In(<<Sub(<< <<Judged(Show("s", "b"), End("stop"), End("fail"))>> >>), Cmd("last", {})>>),
   In(<<Sub(<< <<Cmd("c", {"gnmi_event"})>> >>)>>)}

\* Any two of four simple steps in every construct, and a third one behind it.
Leaves(name) == {Show(name, "a"), Show(name, "v"), Tell(name, {"a"}), Cmd(name, {"v"})}
Constructs(p, q) ==
  {Loop("k", 2, <<p, q>>), Each("k", <<p, q>>), Guard("k", <<p>>, <<q>>, <<>>, <<>>), Guard("k", <<p>>, <<>>, <<>>, <<q>>),
   Group("k", "parallel", <<p, q>>), Sub(<< <<p>>, <<q>> >>),
   Judged(Step("k", "get"), Then2(<<p>>), Then2(<<q>>)), Call("k", "w", [v |-> {"v"}])}
Called(p, q) == [w |-> [parameters |-> {"v"}, steps |-> <<p, q>>]]
Composed ==
  UNION {{With(In(<<k, r>>), Called(p, q)) : k \in Constructs(p, q)} :
           p \in Leaves("p"), q \in Leaves("q"), r \in Leaves("r")}

MCLaunches ==
  Loads \cup Selections \cup Refusals \cup Actions \cup Sessions \cup Checked \cup {Flows, Escapes}
    \cup Loops \cup Blocks \cup Branches \cup Triggers \cup Composed

\* An ensure step whose change holds sends a command of its own.
MCVerified == {Check(In(<<Judged(Step("ens", "ensure"), Send({"v"}, {}, <<>>), NoAction)>>))}
===============================================================================
