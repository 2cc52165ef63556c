---------------------------- MODULE MCWorkflowRun ----------------------------
(* Instances of WorkflowRun for TLC: one playbook per shape of workflow. *)
EXTENDS WorkflowRun

MCNodes == {"root", "a", "b", "c", "d", "e", "f"}
MCNames == MCNodes

\* A step no playbook uses; a playbook says what its own steps are.
Plain(n) ==
  [kind |-> "read", name |-> n, gated |-> FALSE, onPass |-> "none", onFail |-> "none", passShows |-> {}, failShows |-> {},
   attempts |-> 1, returns |-> TRUE, count |-> 1, stopOnFailure |-> TRUE,
   steps |-> <<>>, recovery |-> <<>>, always |-> <<>>]

Of(n, kind) == [Plain(n) EXCEPT !.kind = kind]
Gate(s, action) == [s EXCEPT !.gated = TRUE, !.onFail = action]
Book(top, steps) ==
  [n \in MCNodes |->
     IF n = "root" THEN [Plain("root") EXCEPT !.kind = "use", !.steps = top]
     ELSE IF n \in DOMAIN steps THEN steps[n] ELSE Plain(n)]

\* A verified change with rollback and cleanup, and a change behind it.  The
\* rollback's first step says stop when its check passes.
GuardedChange ==
  Book(<<"a", "f">>,
    [a |-> [Of("a", "block") EXCEPT !.steps = <<"b">>, !.recovery = <<"d", "c">>, !.always = <<"e">>],
     b |-> Gate(Of("b", "ssh"), "fail"),
     d |-> [Gate(Of("d", "ssh"), "none") EXCEPT !.onPass = "stop"], e |-> Of("e", "netconf"), f |-> Of("f", "ssh")])

\* A block whose steps are a block: the inner one has a rescue, the outer one
\* only a cleanup.
NestedBlocks ==
  Book(<<"a">>,
    [a |-> [Of("a", "block") EXCEPT !.steps = <<"b", "f">>, !.always = <<"e">>],
     b |-> [Of("b", "block") EXCEPT !.steps = <<"c">>, !.recovery = <<"d">>],
     c |-> Gate(Of("c", "netconf"), "stop"), d |-> Gate(Of("d", "read"), "none"),
     e |-> Of("e", "ssh"), f |-> Of("f", "ensure")])

\* A loop around a retried change, which is followed by a command if its check fails.
RetriedLoop(stopOnFailure) ==
  Book(<<"a", "c">>,
    [a |-> [Of("a", "loop") EXCEPT !.steps = <<"b">>, !.count = 2,
                                   !.stopOnFailure = stopOnFailure],
     b |-> [Gate(Of("b", "ssh"), "cmd") EXCEPT !.attempts = 2],
     c |-> Of("c", "ensure")])

\* A reload, the probe that waits for it and the check that follows.
Upgrade ==
  Book(<<"a", "b", "c", "d">>,
    [a |-> [Of("a", "ssh") EXCEPT !.returns = FALSE], b |-> Of("b", "probe"),
     c |-> [Gate(Of("c", "read"), "steps") EXCEPT !.steps = <<"e">>],
     d |-> Of("d", "netconf"), e |-> Of("e", "ssh")])

\* A reusable workflow behind an approval; its check ends the device's steps
\* when it passes and sends a command when it does not.
ApprovedUse ==
  Book(<<"a", "b", "e">>,
    [a |-> Of("a", "approval"), b |-> [Of("b", "use") EXCEPT !.steps = <<"c", "d">>],
     c |-> [Gate(Of("c", "read"), "cmd") EXCEPT !.onPass = "stop", !.steps = <<"f">>],
     d |-> Of("d", "ssh"), e |-> Of("e", "ensure"), f |-> Of("f", "ssh")])

\* NETCONF alone, and a remedy over SSH that only a failed check asks for.
NetconfOnly ==
  Book(<<"a", "b">>,
    [a |-> [Gate(Of("a", "netconf"), "steps") EXCEPT !.steps = <<"c">>],
     b |-> Of("b", "netconf"), c |-> Of("c", "ssh")])

\* A gate in a block that is part of a change; when it stops the device it shows
\* what an earlier step found, which may have failed.
TalkingGate ==
  Book(<<"a", "b">>,
    [a |-> Of("a", "netconf"),
     b |-> [Of("b", "use") EXCEPT !.steps = <<"c", "d">>],
     c |-> [Of("c", "block") EXCEPT !.steps = <<"e">>],
     e |-> [Gate(Of("e", "read"), "fail") EXCEPT !.onPass = "other", !.failShows = {"a"}],
     d |-> Of("d", "netconf")])

MCPlaybooks ==
  {GuardedChange, NestedBlocks, RetriedLoop(TRUE), RetriedLoop(FALSE), Upgrade, ApprovedUse,
   NetconfOnly, TalkingGate}

RepeatedCommand ==
  {Book(<<"a">>,
     [a |-> [Of("a", "loop") EXCEPT !.steps = <<"b">>, !.count = 2], b |-> Of("b", "ssh")])}
=============================================================================
