-------------------------- MODULE WorkflowRunProofs --------------------------
(***************************************************************************)
(* WorkflowRun for every playbook and any number of processes.             *)
(*                                                                         *)
(* The journal covers every imperative step the device may have been told, *)
(* and a process that resumes a run does not send an earlier one's steps   *)
(* again.  (The commands of validation actions are not in the journal.)    *)
(* Within a process: behind a gate whose callers were told to stop only    *)
(* recovery and cleanup run, a block that was begun gets to its cleanup,   *)
(* and a device is reported as good only if all that failed has been       *)
(* recovered.                                                              *)
(***************************************************************************)
EXTENDS WorkflowRun, SequenceTheorems, TLAPS

LeafPcs == {"attempt", "send", "sent", "judge", "act", "acting"}

\* A living process has a call in progress.
CallInProgress == Alive => stack # <<>>

\* A leaf that is being executed was not one to skip.
LeafReady ==
  pc \in LeafPcs =>
    /\ Node \in Nodes
    /\ Step.kind \in LeafKinds
    /\ Imperative => Step.name \notin skip

ImperativeName(s) ==
  \E n \in Nodes : playbook[n].kind \in ImperativeKinds /\ playbook[n].name = s

\* What earlier processes sent was for steps that this one skips.
SentLedger ==
  /\ \A s \in sent : ImperativeName(s[1]) /\ s[2] <= process
  /\ \A s \in sent : s[2] < process => s[1] \in skip

\* The journal knows of a step of this name, or cannot be read.
Covered(name) == name \in done \/ [name |-> name, imperative |-> TRUE] \in open \/ torn

\* A step is on record when its validation action may be executed.
AnswerOnRecord ==
  pc \in LeafPcs /\ Imperative /\ (pc = "judge" \/ result # "none") => Covered(Step.name)

JInv ==
  /\ TypeOK
  /\ CallInProgress
  /\ LeafReady
  /\ JournalCoversDevice
  /\ AnswerOnRecord
  /\ SentLedger
  /\ NoResend

-----------------------------------------------------------------------------
(* The stack *)

LEMMA ReplacedTop ==
  ASSUME stack \in Seq(FrameType), stack # <<>>, NEW f \in FrameType, stack' = ReplaceTop(f)
  PROVE  stack' \in Seq(FrameType) /\ stack' # <<>> /\ Top' = f
  <1>1. Tail(stack) \in Seq(FrameType)
    OBVIOUS
  <1>2. <<f>> \in Seq(FrameType) /\ Len(<<f>>) = 1 /\ <<f>>[1] = f
    OBVIOUS
  <1> QED
    BY <1>1, <1>2, ConcatProperties DEF ReplaceTop, Pop, Top

LEMMA PushedFrame ==
  ASSUME stack \in Seq(FrameType), NEW f \in FrameType, stack' = <<f>> \o stack
  PROVE  stack' \in Seq(FrameType) /\ stack' # <<>> /\ Top' = f
  <1>1. <<f>> \in Seq(FrameType) /\ Len(<<f>>) = 1 /\ <<f>>[1] = f
    OBVIOUS
  <1> QED
    BY <1>1, ConcatProperties DEF Top

LEMMA TwiceTail ==
  ASSUME stack \in Seq(FrameType), Len(stack) > 1
  PROVE  /\ Tail(Tail(stack)) \in Seq(FrameType)
         /\ Len(Tail(Tail(stack))) = Len(stack) - 2
         /\ \A i \in 1..(Len(stack) - 2) : Tail(Tail(stack))[i] = stack[i + 2]
  <1>1. stack # <<>> /\ Len(stack) \in Nat
    BY LenProperties
  <1>2. /\ Tail(stack) \in Seq(FrameType) /\ Len(Tail(stack)) = Len(stack) - 1
        /\ \A i \in 1..(Len(stack) - 1) : Tail(stack)[i] = stack[i + 1]
    BY <1>1, HeadTailProperties
  <1>3. Len(Tail(stack)) # 0
    BY <1>1, <1>2
  <1>4. Tail(stack) # <<>>
    BY <1>3, EmptySeq
  <1>5. /\ Tail(Tail(stack)) \in Seq(FrameType)
        /\ Len(Tail(Tail(stack))) = Len(Tail(stack)) - 1
        /\ \A i \in 1..(Len(Tail(stack)) - 1) : Tail(Tail(stack))[i] = Tail(stack)[i + 1]
    BY <1>2, <1>4, HeadTailProperties
  <1>6. Len(Tail(Tail(stack))) = Len(stack) - 2
    BY <1>1, <1>2, <1>5
  <1>7. ASSUME NEW i \in 1..(Len(stack) - 2) PROVE Tail(Tail(stack))[i] = stack[i + 2]
    <2>1. i \in 1..(Len(Tail(stack)) - 1) /\ i + 1 \in 1..(Len(stack) - 1) /\ (i + 1) + 1 = i + 2
      BY <1>1, <1>2
    <2> QED
      BY <1>2, <1>5, <2>1
  <1> QED
    BY <1>5, <1>6, <1>7

LEMMA ReturnedTo ==
  ASSUME stack \in Seq(FrameType), Len(stack) > 1, NEW f \in FrameType,
         stack' = <<f>> \o Tail(Tail(stack))
  PROVE  stack' \in Seq(FrameType) /\ stack' # <<>>
  <1>1. <<f>> \in Seq(FrameType) /\ Len(<<f>>) = 1
    OBVIOUS
  <1> QED
    BY <1>1, TwiceTail, ConcatProperties

LEMMA MarkedFrame ==
  ASSUME NEW f \in FrameType
  PROVE  Advance(f) \in FrameType /\ Fail(f) \in FrameType /\ Advance(Fail(f)) \in FrameType
  <1>1. \A g \in FrameType : Advance(g) \in FrameType
    BY DEF Advance, FrameType
  <1>2. Fail(f) \in FrameType
    BY DEF Fail, FrameType
  <1> QED
    BY <1>1, <1>2

LEMMA TopType ==
  ASSUME stack \in Seq(FrameType), stack # <<>>
  PROVE  /\ Top \in FrameType
         /\ Advance(Top) \in FrameType /\ Fail(Top) \in FrameType
         /\ Advance(Fail(Top)) \in FrameType
  <1>1. Top \in FrameType
    BY EmptySeq, ElementOfSeq DEF Top
  <1> QED
    BY <1>1, MarkedFrame

LEMMA FrameIsFrame ==
  ASSUME NEW n \in Nodes PROVE Frame(n) \in FrameType
  BY DEF Frame, FrameType

\* The step at hand is a node of the playbook.
LEMMA NodeType ==
  ASSUME TypeOK, stack # <<>>
  PROVE  /\ Body \in Seq(Nodes)
         /\ ~Over => Node \in Nodes
  <1>1. Top \in FrameType
    BY TopType DEF TypeOK
  <1>2. playbook[Top.node] \in StepConfig
    BY <1>1, PlaybooksAssumption DEF TypeOK, FrameType
  <1>3. Body \in Seq(Nodes)
    BY <1>1, <1>2 DEF FrameType, StepConfig, Body
  <1>4. Top.at \in Nat \ {0}
    BY <1>1 DEF FrameType
  <1> QED
    BY <1>3, <1>4 DEF Over, Node

LEMMA StepType ==
  ASSUME playbook \in Playbooks, Node \in Nodes
  PROVE  Step \in StepConfig /\ Step.name \in Names /\ Step.attempts \in 1..MaxAttempts
  BY PlaybooksAssumption DEF Step, StepConfig

\* A call that only marks its frame failed is still at the same step.
LEMMA SameStep ==
  ASSUME playbook' = playbook,
         Top'.node = Top.node, Top'.part = Top.part, Top'.at = Top.at
  PROVE  Node' = Node /\ Step' = Step /\ Entry' = Entry /\ Journaled' = Journaled
           /\ Imperative' = Imperative
  BY DEF Body, Node, Step, Entry, Journaled, Imperative

-----------------------------------------------------------------------------
(* Types *)

\* The frames that a step puts on the stack.
LEMMA FrameTypes ==
  ASSUME TypeOK, stack # <<>>
  PROVE  /\ Fail([Top EXCEPT !.bad = TRUE]) \in FrameType
         /\ [Top EXCEPT !.bad = TRUE] \in FrameType
         /\ Fail([Top EXCEPT !.at = Len(Body) + 1]) \in FrameType
         /\ Top.failed \in BOOLEAN /\ Top.bad \in BOOLEAN /\ Top.lost \in BOOLEAN
         /\ Top.owed \in BOOLEAN /\ Top.stopped \in BOOLEAN /\ Top.iteration \in Nat \ {0}
  <1>1. Top \in FrameType
    BY TopType DEF TypeOK
  <1>2. [Top EXCEPT !.bad = TRUE] \in FrameType
    BY <1>1 DEF FrameType
  <1>3. Len(Body) \in Nat
    BY NodeType, LenProperties
  <1>4. [Top EXCEPT !.at = Len(Body) + 1] \in FrameType
    BY <1>1, <1>3 DEF FrameType
  <1>5. /\ Top.failed \in BOOLEAN /\ Top.bad \in BOOLEAN /\ Top.lost \in BOOLEAN
        /\ Top.owed \in BOOLEAN /\ Top.stopped \in BOOLEAN /\ Top.iteration \in Nat \ {0}
    BY <1>1 DEF FrameType
  <1> QED
    BY <1>2, <1>4, <1>5, MarkedFrame

\* The frame of a part of a block that follows another.
LEMMA PartFrame ==
  ASSUME NEW g \in FrameType, NEW part \in Parts
  PROVE  [g EXCEPT !.part = part, !.at = 1, !.failed = FALSE, !.bad = FALSE] \in FrameType
  <1>1. \A n \in Nat \ {0} : \A x, y \in BOOLEAN :
          [g EXCEPT !.part = part, !.at = n, !.failed = x, !.bad = y] \in FrameType
    BY DEF FrameType, Parts
  <1>2. 1 \in Nat \ {0}
    OBVIOUS
  <1> QED
    BY <1>1, <1>2, Zenon

\* The frame of a block that goes on with another of its parts.
Turns(f, part, stopped, lost) ==
  /\ f \in FrameType /\ stack' = ReplaceTop(f) /\ pc' = "step"
  /\ f.node = Top.node /\ f.part = part /\ f.at = 1 /\ ~f.failed /\ ~f.bad
  /\ f.stopped = stopped /\ f.lost = lost

LEMMA Turned ==
  ASSUME Top \in FrameType, NEW part \in Parts, NEW s \in BOOLEAN, NEW l \in BOOLEAN,
         NEW o \in BOOLEAN, GoTo(part, [Top EXCEPT !.stopped = s, !.lost = l, !.owed = o])
  PROVE  \E f : Turns(f, part, s, l)
  <1>1. PICK g : g = [Top EXCEPT !.stopped = s, !.lost = l, !.owed = o]
    OBVIOUS
  <1>2. PICK f : f = [g EXCEPT !.part = part, !.at = 1, !.failed = FALSE, !.bad = FALSE]
    OBVIOUS
  <1>3. g \in FrameType /\ g.node = Top.node /\ g.stopped = s /\ g.lost = l
    BY <1>1 DEF FrameType
  <1>4. f \in FrameType
    <2>1. [g EXCEPT !.part = part, !.at = 1, !.failed = FALSE, !.bad = FALSE] \in FrameType
      BY <1>3, PartFrame, Zenon
    <2> QED
      BY <1>2, <2>1, Zenon
  <1>5. /\ f.node = g.node /\ f.part = part /\ f.at = 1 /\ ~f.failed /\ ~f.bad
        /\ f.stopped = g.stopped /\ f.lost = g.lost
    BY <1>2, <1>3 DEF FrameType
  <1>6. stack' = ReplaceTop(f) /\ pc' = "step"
    BY <1>1, <1>2 DEF GoTo
  <1> QED
    BY <1>3, <1>4, <1>5, <1>6 DEF Turns

\* The caller that a call returns to, or that a loop's next iteration informs.
LEMMA ParentType ==
  ASSUME stack \in Seq(FrameType), Len(stack) > 1,
         NEW a \in BOOLEAN, NEW b \in BOOLEAN
  PROVE  /\ [Parent EXCEPT !.failed = @ \/ a, !.bad = @ \/ b] \in FrameType
         /\ Advance([Parent EXCEPT !.failed = @ \/ a, !.bad = @ \/ b]) \in FrameType
         /\ [Parent EXCEPT !.failed = @ \/ a] \in FrameType
  <1>1. Parent \in FrameType
    BY LenProperties, ElementOfSeq DEF Parent
  <1>2. \A c \in BOOLEAN : (c \/ a) \in BOOLEAN /\ (c \/ b) \in BOOLEAN
    BY Zenon
  <1>6. Parent.failed \in BOOLEAN /\ Parent.bad \in BOOLEAN
    BY <1>1 DEF FrameType
  <1>7. (Parent.failed \/ a) \in BOOLEAN /\ (Parent.bad \/ b) \in BOOLEAN
    BY <1>2, <1>6, Zenon
  <1>3. \A x, y \in BOOLEAN : [Parent EXCEPT !.failed = x, !.bad = y] \in FrameType
    BY <1>1 DEF FrameType
  <1>4. \A x \in BOOLEAN : [Parent EXCEPT !.failed = x] \in FrameType
    BY <1>1 DEF FrameType
  <1>5. /\ [Parent EXCEPT !.failed = @ \/ a, !.bad = @ \/ b] \in FrameType
        /\ [Parent EXCEPT !.failed = @ \/ a] \in FrameType
    BY <1>7, <1>3, <1>4, Zenon
  <1> QED
    BY <1>5, MarkedFrame

\* What a step does to the stack is all that is hard to type.
LEMMA StackTyped ==
  ASSUME TypeOK, CallInProgress, LeafReady, ProcessStep
  PROVE  stack' \in Seq(FrameType) /\ CallInProgress'
  <1> stack \in Seq(FrameType)
    BY DEF TypeOK
  <1>a. CASE Alive /\ UNCHANGED stack
    BY <1>a DEF CallInProgress, Alive
  <1>b. CASE stack' = <<>> /\ ~Alive'
    BY <1>b, EmptySeq DEF CallInProgress
  <1>c. CASE stack # <<>> /\ \E f \in FrameType : stack' = ReplaceTop(f)
    BY <1>c, ReplacedTop DEF CallInProgress
  <1>d. CASE \E f \in FrameType : stack' = <<f>> \o stack
    BY <1>d, PushedFrame DEF CallInProgress
  <1>e. CASE Len(stack) > 1 /\ \E f \in FrameType : stack' = <<f>> \o Tail(Tail(stack))
    BY <1>e, ReturnedTo DEF CallInProgress
  <1>0. /\ pc \in {"connect", "step", "unwind"} \cup LeafPcs => Alive /\ stack # <<>>
        /\ AtEnd => stack # <<>>
    BY EmptySeq DEF Alive, CallInProgress, LeafPcs, AtEnd
  <1>1. CASE \/ Connect \/ StartInterrupted \/ BeginLeaf \/ RecordIntent \/ Execute
             \/ EndsWithoutPrompt \/ RecordCompleted \/ NoValidation \/ ValidationPasses
             \/ SendCommand
    BY <1>0, <1>1, <1>a DEF Connect, StartInterrupted, BeginLeaf, RecordIntent, Execute,
         EndsWithoutPrompt, RecordCompleted, NoValidation, ValidationPasses, SendCommand,
         Acting, AtStep, Start, Startable, LeafPcs
  <1>2. CASE ConnectFails \/ EndRun
    BY <1>2, <1>b DEF ConnectFails, EndRun, Alive
  <1>3. CASE \/ SkipCompleted \/ RejectStep \/ RefuseRepeat \/ Approve \/ Deny
             \/ ProbeSucceeds \/ ProbeFails \/ IntentFails \/ NoSession \/ ExecuteFails
             \/ CompletedFails \/ OutputRejected \/ ActNothing
    <2>1. stack # <<>>
      BY <1>0, <1>3 DEF SkipCompleted, RejectStep, RefuseRepeat, Approve, Deny, ProbeSucceeds,
           ProbeFails, IntentFails, NoSession, ExecuteFails, CompletedFails, OutputRejected,
           ActNothing, Acting, AtStep, Start, Startable, LeafPcs
    <2>2. stack' \in {ReplaceTop(Advance(Top)), ReplaceTop(Fail(Top)),
                      ReplaceTop(Advance(Fail(Top)))}
      BY <1>3 DEF SkipCompleted, RejectStep, RefuseRepeat, Approve, Deny, ProbeSucceeds, ProbeFails,
           IntentFails, NoSession, ExecuteFails, CompletedFails, OutputRejected, ActNothing
    <2> QED
      BY <1>c, <2>1, <2>2, TopType
  <1>4. CASE ValidationFails \/ ValidationErrs \/ ActFails
    <2>1. stack # <<>>
      BY <1>0, <1>4 DEF ValidationFails, ValidationErrs, ActFails, LeafPcs
    <2> QED
      BY <1>4, <1>c, <2>1, FrameTypes DEF ValidationFails, ValidationErrs, ActFails
  <1>5. CASE EnterControl \/ ActSteps
    <2>1. stack # <<>> /\ Node \in Nodes
      BY <1>0, <1>5, NodeType DEF EnterControl, ActSteps, Acting, AtStep, Start, Startable,
         LeafPcs, LeafReady
    <2> QED
      BY <1>5, <1>d, <2>1, FrameIsFrame DEF EnterControl, ActSteps
  <1>6. CASE ActStop
    <2>1. stack # <<>> /\ Alive
      BY <1>0, <1>6 DEF ActStop, Acting, LeafPcs
    <2> QED
      BY <1>6, <1>a, <1>c, <2>1, TopType DEF ActStop
  <1>7. CASE ActCommand
    <2>1. stack # <<>> /\ Node \in Nodes
      BY <1>0, <1>7 DEF ActCommand, LeafPcs, LeafReady
    <2> QED
      BY <1>7, <1>c, <1>d, <2>1, TopType, FrameIsFrame DEF ActCommand
  <1>8. CASE EndUse \/ EndLoop \/ EndAlways
    <2>1. stack # <<>> /\ Len(stack) > 1
      BY <1>0, <1>8 DEF EndUse, EndLoop, EndAlways, Inner
    <2>2. \A c, d, e \in BOOLEAN :
            Return(c, d, e) => \E f \in FrameType : stack' = <<f>> \o Tail(Tail(stack))
      BY <2>1, ParentType DEF Return, Pop
    <2>3. \A c, d \in BOOLEAN : (c \/ d) \in BOOLEAN
      BY Zenon
    <2>4. /\ Top.failed \in BOOLEAN /\ Top.bad \in BOOLEAN /\ Top.lost \in BOOLEAN
          /\ Top.owed \in BOOLEAN /\ Top.stopped \in BOOLEAN /\ Halted \in BOOLEAN
      BY <2>1, FrameTypes DEF Halted
    <2>5. CASE EndUse \/ EndLoop
      BY <1>e, <2>1, <2>2, <2>4, <2>5, Zenon DEF EndUse, EndLoop
    <2>6. CASE EndAlways
      <3>1. /\ Return(Top.lost \/ Lost, Top.owed \/ Top.bad, Top.stopped \/ Halted)
            /\ Lost \in BOOLEAN
        BY <2>3, <2>4, <2>6, Zenon DEF EndAlways, Lost
      <3>2. /\ (Top.lost \/ Lost) \in BOOLEAN /\ (Top.owed \/ Top.bad) \in BOOLEAN
            /\ (Top.stopped \/ Halted) \in BOOLEAN
        BY <2>3, <2>4, <3>1, Zenon
      <3> QED
        BY <1>e, <2>1, <2>2, <3>1, <3>2, Zenon
    <2> QED
      BY <1>8, <2>5, <2>6
  <1>9. CASE NextIteration
    <2>1. stack # <<>> /\ Len(stack) > 1 /\ Top \in FrameType
      BY <1>9, <1>0, TopType DEF NextIteration, Inner
    <2>2. [Parent EXCEPT !.failed = @ \/ Top.failed] \in FrameType
      BY <2>1, FrameTypes, ParentType, Zenon
    <2>3. [Top EXCEPT !.at = 1, !.iteration = @ + 1, !.failed = FALSE] \in FrameType
      <3>1. \A n, m \in Nat \ {0} : \A x \in BOOLEAN :
              [Top EXCEPT !.at = n, !.iteration = m, !.failed = x] \in FrameType
        BY <2>1 DEF FrameType
      <3>2. 1 \in Nat \ {0} /\ Top.iteration + 1 \in Nat \ {0}
        BY <2>1 DEF FrameType
      <3> QED
        BY <3>1, <3>2, Zenon
    <2>4. Tail(Tail(stack)) \in Seq(FrameType)
      BY <2>1, TwiceTail
    <2>5. \A f, g \in FrameType :
            <<f, g>> \o Tail(Tail(stack)) \in Seq(FrameType)
              /\ <<f, g>> \o Tail(Tail(stack)) # <<>>
      <3> TAKE f, g \in FrameType
      <3>1. <<f, g>> \in Seq(FrameType) /\ Len(<<f, g>>) = 2
        OBVIOUS
      <3> QED
        BY <2>4, <3>1, ConcatProperties, EmptySeq
    <2> QED
      BY <1>9, <2>2, <2>3, <2>5 DEF NextIteration, Pop, CallInProgress
  <1>10. CASE EndSteps \/ EndRecovery
    <2>1. stack # <<>> /\ Top \in FrameType
      BY <1>10, <1>0, TopType DEF EndSteps, EndRecovery
    <2>2. \A c, d \in BOOLEAN : (c \/ d) \in BOOLEAN /\ (c /\ d) \in BOOLEAN
      BY Zenon
    <2>3. /\ Top.failed \in BOOLEAN /\ Top.bad \in BOOLEAN /\ Top.lost \in BOOLEAN
          /\ Top.owed \in BOOLEAN /\ Top.stopped \in BOOLEAN /\ Halted \in BOOLEAN
      BY <2>1, FrameTypes DEF Halted
    <2>4. Lost \in BOOLEAN
      BY <2>2, <2>3, Zenon DEF Lost
    <2>5. CASE EndSteps
      <3>1. \A part \in {"recovery", "always"} :
              GoTo(part, [Top EXCEPT !.stopped = Halted, !.lost = Lost, !.owed = Top.bad])
                => \E f \in FrameType : stack' = ReplaceTop(f)
        <4> TAKE part \in {"recovery", "always"}
        <4> HAVE GoTo(part, [Top EXCEPT !.stopped = Halted, !.lost = Lost, !.owed = Top.bad])
        <4>1. part \in Parts
          BY DEF Parts
        <4>2. PICK f : Turns(f, part, Halted, Lost)
          BY <2>1, <2>3, <2>4, <4>1, Turned
        <4> QED
          BY <4>2 DEF Turns
      <3> QED
        BY <1>c, <2>1, <2>5, <3>1 DEF EndSteps
    <2>6. CASE EndRecovery
      <3>1. /\ (Top.stopped \/ Halted) \in BOOLEAN
            /\ (Lost /\ (Top.owed \/ Top.bad)) \in BOOLEAN
        BY <2>2, <2>3, <2>4, Zenon
      <3>2. \A x, y \in BOOLEAN :
              GoTo("always", [Top EXCEPT !.stopped = x, !.lost = Lost, !.owed = y])
                => \E f \in FrameType : stack' = ReplaceTop(f)
        <4> TAKE x, y \in BOOLEAN
        <4> HAVE GoTo("always", [Top EXCEPT !.stopped = x, !.lost = Lost, !.owed = y])
        <4>1. "always" \in Parts
          BY DEF Parts
        <4>2. PICK f : Turns(f, "always", x, Lost)
          BY <2>1, <2>4, <4>1, Turned
        <4> QED
          BY <4>2 DEF Turns
      <3> QED
        BY <1>c, <2>1, <2>6, <3>1, <3>2, Zenon DEF EndRecovery
    <2> QED
      BY <1>10, <2>5, <2>6
  <1> QED
    BY <1>1, <1>2, <1>3, <1>4, <1>5, <1>6, <1>7, <1>8, <1>9, <1>10
    DEF ProcessStep, HeadStep, LeafStep, EndStep

-----------------------------------------------------------------------------
(* What each step may change *)

Announces == RecordIntent \/ IntentFails
Completes == RecordCompleted \/ CompletedFails
SendStep  == Execute \/ ExecuteFails \/ EndsWithoutPrompt \/ SendCommand

LEMMA NewlySent ==
  ASSUME SendStep
  PROVE  /\ sent' \subseteq sent \cup (IF Imperative THEN {<<Step.name, process>>} ELSE {})
         /\ UNCHANGED <<open, done, torn, playbook, process, skip>>
  BY DEF SendStep, Execute, ExecuteFails, EndsWithoutPrompt, SendCommand, Unanswered, Sends,
     journalVars, processVars

LEMMA SentQuietly ==
  ASSUME [Next]_vars, ~SendStep
  PROVE  UNCHANGED sent
  <1> USE DEF history
  <1>1. CASE HeadStep
    BY <1>1 DEF HeadStep, Connect, ConnectFails, SkipCompleted, StartInterrupted, RejectStep,
       RefuseRepeat, EnterControl, Approve, Deny, ProbeSucceeds, ProbeFails, BeginLeaf
  <1>2. CASE LeafStep
    BY <1>2 DEF LeafStep, SendStep, RecordIntent, IntentFails, NoSession, RecordCompleted,
       CompletedFails, OutputRejected, NoValidation, ValidationPasses, ValidationFails,
       ValidationErrs, ActNothing, ActStop, ActCommand, ActFails, ActSteps
  <1>3. CASE EndStep
    BY <1>3 DEF EndStep, EndUse, EndLoop, NextIteration, EndSteps, EndRecovery, EndAlways,
       EndRun, RecoveryIsCut, OnlyCallsChange
  <1>4. CASE Interrupt \/ Crash \/ Resume \/ RefuseResume \/ Rest \/ UNCHANGED vars
    BY <1>4 DEF Interrupt, Crash, Resume, RefuseResume, Rest, vars
  <1> QED
    BY <1>1, <1>2, <1>3, <1>4 DEF Next, ProcessStep

LEMMA KnownGrows ==
  ASSUME [Next]_vars
  PROVE  UNCHANGED known \/ known' = {} \/ (pc = "judge" /\ Registers)
  <1> USE DEF leafVars
  <1>1. CASE HeadStep
    BY <1>1 DEF HeadStep, Connect, ConnectFails, SkipCompleted, StartInterrupted, RejectStep,
       RefuseRepeat, EnterControl, Approve, Deny, ProbeSucceeds, ProbeFails, BeginLeaf
  <1>2. CASE LeafStep
    BY <1>2 DEF LeafStep, RecordIntent, IntentFails, NoSession, Execute, ExecuteFails,
       EndsWithoutPrompt, RecordCompleted, CompletedFails, OutputRejected, NoValidation,
       ValidationPasses, ValidationFails, ValidationErrs, ActNothing, ActStop, SendCommand,
       ActCommand, ActFails, ActSteps
  <1>3. CASE EndStep
    BY <1>3 DEF EndStep, EndUse, EndLoop, NextIteration, EndSteps, EndRecovery, EndAlways,
       EndRun, RecoveryIsCut, OnlyCallsChange
  <1>4. CASE Interrupt \/ Crash \/ Resume \/ RefuseResume \/ Rest \/ UNCHANGED vars
    BY <1>4 DEF Interrupt, Crash, Resume, RefuseResume, Rest, vars
  <1> QED
    BY <1>1, <1>2, <1>3, <1>4 DEF Next, ProcessStep

\* Few steps write to the journal or send anything; the others leave what the
\* invariant relates alone, but for a record that a crash may cut short.
LEMMA QuietStep ==
  ASSUME [Next]_vars, ~Announces, ~Completes, ~SendStep, ~Resume
  PROVE  UNCHANGED <<sent, open, done, playbook, process, skip>> /\ (torn => torn')
  <1> USE DEF journalVars, leafVars, processVars, history
  <1>0. UNCHANGED sent
    BY SentQuietly
  <1> SUFFICES UNCHANGED <<open, done, playbook, process, skip>> /\ (torn => torn')
    BY <1>0
  <1>1. CASE HeadStep
    BY <1>1 DEF HeadStep, Connect, ConnectFails, SkipCompleted, StartInterrupted, RejectStep,
       RefuseRepeat, EnterControl, Approve, Deny, ProbeSucceeds, ProbeFails, BeginLeaf
  <1>2. CASE LeafStep
    <2>1. UNCHANGED <<open, done, torn, playbook, process, skip>>
      BY <1>2 DEF LeafStep, Announces, Completes, SendStep, NoSession, OutputRejected,
         NoValidation, ValidationPasses, ValidationFails, ValidationErrs, ActNothing, ActStop,
         SendCommand, ActCommand, ActFails, ActSteps
    <2> QED
      BY <2>1
  <1>3. CASE EndStep
    BY <1>3 DEF EndStep, EndUse, EndLoop, NextIteration, EndSteps, EndRecovery, EndAlways,
       EndRun, RecoveryIsCut, OnlyCallsChange
  <1>4. CASE Interrupt \/ Crash \/ RefuseResume \/ Rest
    BY <1>4 DEF Interrupt, Crash, RefuseResume, Rest, vars
  <1>5. CASE UNCHANGED vars
    BY <1>5 DEF vars
  <1> QED
    BY <1>1, <1>2, <1>3, <1>4, <1>5 DEF Next, ProcessStep

\* The leaf steps after which the same leaf is still being executed.
Stays ==
  \/ RecordIntent \/ IntentFails \/ NoSession \/ Execute \/ ExecuteFails
  \/ EndsWithoutPrompt \/ RecordCompleted \/ CompletedFails \/ OutputRejected
  \/ NoValidation \/ ValidationPasses \/ ValidationFails \/ ValidationErrs \/ SendCommand

LEMMA StaysAtStep ==
  ASSUME JInv, Stays
  PROVE  /\ pc \in LeafPcs /\ UNCHANGED <<playbook, skip, process>>
         /\ Node' = Node /\ Step' = Step /\ Entry' = Entry /\ Journaled' = Journaled
         /\ Imperative' = Imperative
  <1>1. /\ pc \in LeafPcs
        /\ UNCHANGED <<playbook, skip, process>>
    BY DEF Stays, RecordIntent, IntentFails, NoSession, Execute, ExecuteFails,
       EndsWithoutPrompt, RecordCompleted, CompletedFails, OutputRejected, NoValidation,
       ValidationPasses, ValidationFails, ValidationErrs, SendCommand, Acting, LeafPcs,
       processVars
  <1>2. stack # <<>> /\ stack \in Seq(FrameType) /\ Top \in FrameType
    BY <1>1, TopType DEF JInv, TypeOK, CallInProgress, Alive, LeafPcs
  <1>3. \/ UNCHANGED stack
        \/ stack' = ReplaceTop(Fail(Top))
        \/ stack' = ReplaceTop([Top EXCEPT !.bad = TRUE])
        \/ stack' = ReplaceTop(Fail([Top EXCEPT !.bad = TRUE]))
    BY DEF Stays, RecordIntent, IntentFails, NoSession, Execute, ExecuteFails,
       EndsWithoutPrompt, RecordCompleted, CompletedFails, OutputRejected, NoValidation,
       ValidationPasses, ValidationFails, ValidationErrs, SendCommand, Acting
  <1>4. UNCHANGED stack => Top' = Top
    BY DEF Top
  <1>5. Top' \in {Top, Fail(Top), [Top EXCEPT !.bad = TRUE], Fail([Top EXCEPT !.bad = TRUE])}
    BY <1>2, <1>3, <1>4, ReplacedTop, TopType, FrameTypes DEF JInv
  <1>6. \A f \in FrameType :
          /\ Fail(f).node = f.node /\ Fail(f).part = f.part /\ Fail(f).at = f.at
          /\ [f EXCEPT !.bad = TRUE].node = f.node /\ [f EXCEPT !.bad = TRUE].part = f.part
          /\ [f EXCEPT !.bad = TRUE].at = f.at
    BY DEF Fail, FrameType
  <1>7. Top'.node = Top.node /\ Top'.part = Top.part /\ Top'.at = Top.at
    BY <1>2, <1>5, <1>6, FrameTypes DEF JInv
  <1> QED
    BY <1>1, <1>7, SameStep

\* Whoever is executing a leaf after a step was executing it before, or begins it.
LEMMA LeafOrigin ==
  ASSUME [Next]_vars, pc' \in LeafPcs
  PROVE  Stays \/ BeginLeaf \/ Interrupt \/ UNCHANGED vars
  <1> USE DEF LeafPcs
  <1>1. CASE HeadStep
    BY <1>1 DEF HeadStep, Connect, ConnectFails, SkipCompleted, StartInterrupted, RejectStep,
       RefuseRepeat, EnterControl, Approve, Deny, ProbeSucceeds, ProbeFails, AtStep, Start, Startable
  <1>2. CASE LeafStep
    BY <1>2 DEF LeafStep, Stays, ActNothing, Acting, ActStop, SendCommand, ActCommand, ActFails,
       ActSteps
  <1>3. CASE EndStep
    BY <1>3 DEF EndStep, EndUse, EndLoop, NextIteration, EndSteps, EndRecovery, EndAlways,
       EndRun, Return, GoTo
  <1>4. CASE Crash \/ Resume \/ RefuseResume \/ Rest
    BY <1>4 DEF Crash, Resume, RefuseResume, Rest
  <1> QED
    BY <1>1, <1>2, <1>3, <1>4 DEF Next, ProcessStep

-----------------------------------------------------------------------------
(* Each part of the invariant is kept *)

LEMMA LeafReadyKept ==
  ASSUME JInv, [Next]_vars
  PROVE  LeafReady'
  <1> SUFFICES ASSUME pc' \in LeafPcs PROVE LeafReady'
    BY DEF LeafReady
  <1>1. CASE Stays
    BY <1>1, StaysAtStep DEF JInv, LeafReady
  <1>2. CASE BeginLeaf
    <2>1. stack # <<>> /\ ~Over
      BY <1>2 DEF BeginLeaf, Start, Startable, AtStep, JInv, CallInProgress, Alive
    <2>2. Node \in Nodes /\ (Imperative => Step.name \notin skip) /\ Step.kind \in LeafKinds
      BY <1>2, <2>1, NodeType DEF BeginLeaf, Start, Startable, Skippable, JInv
    <2>3. UNCHANGED <<playbook, skip, stack>>
      BY <1>2 DEF BeginLeaf, processVars
    <2>4. Node' = Node /\ Step' = Step /\ Imperative' = Imperative
      BY <2>3, SameStep DEF Top
    <2> QED
      BY <2>2, <2>3, <2>4 DEF LeafReady
  <1>3. CASE Interrupt \/ UNCHANGED vars
    <2>1. UNCHANGED <<playbook, skip, stack, pc>>
      BY <1>3 DEF Interrupt, vars, processVars
    <2>2. Node' = Node /\ Step' = Step /\ Imperative' = Imperative
      BY <2>1, SameStep DEF Top
    <2> QED
      BY <2>1, <2>2 DEF LeafReady, JInv
  <1> QED
    BY <1>1, <1>2, <1>3, LeafOrigin

\* What a leaf's record looks like.
LEMMA EntryType ==
  ASSUME JInv, pc \in LeafPcs
  PROVE  /\ Entry \in [name : Names, imperative : BOOLEAN]
         /\ Entry.name = Step.name /\ Entry.imperative = Imperative
         /\ Step.name \in Names /\ Step \in StepConfig
         /\ Imperative => ImperativeName(Step.name) /\ Entry = [name |-> Step.name, imperative |-> TRUE]
         /\ ~Imperative /\ Journaled => ~ImperativeName(Step.name)
  <1>1. Node \in Nodes /\ playbook \in Playbooks
    BY DEF JInv, LeafReady, TypeOK
  <1>2. Step \in StepConfig /\ Step.name \in Names
    BY <1>1, StepType
  <1>3. Imperative \in BOOLEAN
    BY DEF Imperative
  <1>4. Imperative => ImperativeName(Step.name)
    BY <1>1 DEF Imperative, ImperativeName, Step
  <1>5. ~Imperative /\ Journaled => ~ImperativeName(Step.name)
    BY <1>1, NamesAssumption DEF Imperative, Journaled, ImperativeName, Step
  <1> QED
    BY <1>2, <1>3, <1>4, <1>5 DEF Entry

\* No step takes a record away.
LEMMA CoverKept ==
  ASSUME JInv, [Next]_vars, NEW name, ImperativeName(name), Covered(name)
  PROVE  Covered(name)'
  <1> USE DEF Covered
  <1>1. CASE Announces
    <2>1. /\ (pc \in LeafPcs /\ Journaled) \/ UNCHANGED open
          /\ open' = OpenWith(Entry) \/ UNCHANGED open
          /\ UNCHANGED done /\ (torn => torn')
      BY <1>1 DEF Announces, RecordIntent, IntentFails, LeafPcs
    <2>2. CASE UNCHANGED open
      BY <2>1, <2>2
    <2>3. CASE open' = OpenWith(Entry) /\ pc \in LeafPcs /\ Journaled
      <3> SUFFICES ASSUME [name |-> name, imperative |-> TRUE] \in open
                   PROVE  [name |-> name, imperative |-> TRUE] \in open'
        BY <2>1
      <3>1. CASE name = Step.name
        BY <2>3, <3>1, EntryType DEF OpenWith
      <3>2. CASE name # Step.name
        BY <2>3, <3>2, EntryType DEF OpenWith
      <3> QED
        BY <3>1, <3>2
    <2> QED
      BY <2>1, <2>2, <2>3
  <1>2. CASE Completes
    <2>1. /\ \/ UNCHANGED <<done, open>>
             \/ done' = done \cup {Step.name} /\ open' = OpenWithout(Step.name)
          /\ (torn => torn')
      BY <1>2 DEF Completes, RecordCompleted, CompletedFails, journalVars
    <2> QED
      BY <2>1 DEF OpenWithout
  <1>3. CASE SendStep
    BY <1>3, NewlySent
  <1>4. CASE Resume
    BY <1>4 DEF Resume, journalVars
  <1> QED
    BY <1>1, <1>2, <1>3, <1>4, QuietStep

\* Nothing is sent for an imperative step that is not on record.
LEMMA SentOnRecord ==
  ASSUME JInv, SendStep, Imperative
  PROVE  Covered(Step.name)
  <1>1. CASE pc = "send"
    BY <1>1, EntryType DEF JInv, JournalCoversDevice, Journaled, LeafPcs, Covered
  <1>2. CASE SendCommand
    <2>1. pc \in LeafPcs /\ result # "none"
      BY <1>2 DEF SendCommand, Acting, Action, Judged, LeafPcs
    <2> QED
      BY <2>1 DEF JInv, AnswerOnRecord
  <1> QED
    BY <1>1, <1>2 DEF SendStep, Execute, ExecuteFails, EndsWithoutPrompt

LEMMA RecordsKept ==
  ASSUME JInv, [Next]_vars
  PROVE  \A s \in sent' : Covered(s[1])'
  <1>1. \A s \in sent : Covered(s[1]) /\ ImperativeName(s[1])
    BY DEF JInv, JournalCoversDevice, SentLedger, Covered
  <1>2. CASE SendStep
    <2>1. UNCHANGED <<open, done, torn>>
      BY <1>2, NewlySent
    <2>2. ASSUME NEW s \in sent' PROVE Covered(s[1])
      <3>1. s \in sent \/ (Imperative /\ s = <<Step.name, process>>)
        BY <1>2, <2>2, NewlySent
      <3> QED
        BY <1>1, <1>2, <3>1, SentOnRecord
    <2> QED
      BY <2>1, <2>2 DEF Covered
  <1>3. CASE ~SendStep
    <2>1. UNCHANGED sent
      BY <1>3, SentQuietly
    <2> QED
      BY <1>1, <2>1, CoverKept
  <1> QED
    BY <1>2, <1>3

\* An answer is judged after it was recorded.
LEMMA AnswerOnRecordKept ==
  ASSUME JInv, [Next]_vars
  PROVE  AnswerOnRecord'
  <1> SUFFICES ASSUME pc' \in LeafPcs, Imperative', pc' = "judge" \/ result' # "none"
               PROVE  Covered(Step.name)'
    BY DEF AnswerOnRecord, Covered
  <1>1. CASE Stays
    <2>1. pc \in LeafPcs /\ Step' = Step /\ Imperative
      BY <1>1, StaysAtStep
    <2>2. ImperativeName(Step.name)
      BY <2>1, EntryType
    <2>3. CASE RecordCompleted
      BY <2>1, <2>3 DEF RecordCompleted, Journaled, Covered
    <2>4. CASE ~RecordCompleted
      <3>1. pc = "judge" \/ (UNCHANGED result /\ pc' # "judge")
        BY <1>1, <2>4 DEF Stays, RecordIntent, IntentFails, NoSession, Execute, ExecuteFails,
           EndsWithoutPrompt, RecordCompleted, CompletedFails, OutputRejected, NoValidation,
           ValidationPasses, ValidationFails, ValidationErrs, SendCommand, leafVars
      <3>2. Covered(Step.name)
        BY <2>1, <3>1 DEF JInv, AnswerOnRecord
      <3>3. Covered(Step.name)' <=> \/ Step.name \in done' \/ torn'
                                    \/ [name |-> Step.name, imperative |-> TRUE] \in open'
        BY <2>1 DEF Covered
      <3>4. \A name : ImperativeName(name) /\ Covered(name) =>
              name \in done' \/ [name |-> name, imperative |-> TRUE] \in open' \/ torn'
        BY CoverKept DEF Covered
      <3> QED
        BY <2>2, <3>2, <3>3, <3>4
    <2> QED
      BY <2>3, <2>4
  <1>2. CASE BeginLeaf
    BY <1>2 DEF BeginLeaf
  <1>3. CASE Interrupt \/ UNCHANGED vars
    <2>1. UNCHANGED <<playbook, stack, pc, open, done, torn, result>>
      BY <1>3 DEF Interrupt, vars, processVars, journalVars, leafVars
    <2>2. Step' = Step /\ Imperative' = Imperative
      BY <2>1, SameStep DEF Top
    <2> QED
      BY <2>1, <2>2 DEF JInv, AnswerOnRecord, Covered
  <1> QED
    BY <1>1, <1>2, <1>3, LeafOrigin

\* An attempt that is under way was announced.
LEMMA AnnouncedKept ==
  ASSUME JInv, [Next]_vars
  PROVE  pc' \in {"send", "sent"} /\ Journaled' => Entry' \in open'
  <1> SUFFICES ASSUME pc' \in {"send", "sent"}, Journaled' PROVE Entry' \in open'
    OBVIOUS
  <1>1. CASE Stays
    <2>1. pc' = "send" => RecordIntent
      BY <1>1 DEF Stays, RecordIntent, IntentFails, NoSession, Execute, ExecuteFails,
         EndsWithoutPrompt, RecordCompleted, CompletedFails, OutputRejected, NoValidation,
         ValidationPasses, ValidationFails, ValidationErrs, SendCommand
    <2>2. pc' = "sent" => Execute
      BY <1>1 DEF Stays, RecordIntent, IntentFails, NoSession, Execute, ExecuteFails,
         EndsWithoutPrompt, RecordCompleted, CompletedFails, OutputRejected, NoValidation,
         ValidationPasses, ValidationFails, ValidationErrs, SendCommand
    <2>3. Entry' = Entry /\ Journaled
      BY <1>1, StaysAtStep
    <2>4. CASE RecordIntent
      BY <2>3, <2>4 DEF RecordIntent, OpenWith
    <2>5. CASE Execute
      BY <2>3, <2>5 DEF Execute, JInv, JournalCoversDevice, journalVars
    <2> QED
      BY <2>1, <2>2, <2>4, <2>5
  <1>2. CASE BeginLeaf
    BY <1>2 DEF BeginLeaf
  <1>3. CASE Interrupt \/ UNCHANGED vars
    <2>1. UNCHANGED <<playbook, stack, pc, open>>
      BY <1>3 DEF Interrupt, vars, processVars, journalVars
    <2>2. Entry' = Entry /\ Journaled' = Journaled
      BY <2>1, SameStep DEF Top
    <2> QED
      BY <2>1, <2>2 DEF JInv, JournalCoversDevice
  <1> QED
    BY <1>1, <1>2, <1>3, LeafOrigin DEF LeafPcs

LEMMA LedgerKept ==
  ASSUME JInv, [Next]_vars
  PROVE  SentLedger' /\ NoResend'
  <1> USE DEF SentLedger, NoResend
  <1>0. /\ process \in Nat
        /\ \A s \in sent : s[2] \in Nat
    BY BoundsAssumption DEF JInv, TypeOK
  <1>1. CASE Announces \/ Completes
    BY <1>1 DEF Announces, Completes, RecordIntent, IntentFails, RecordCompleted,
       CompletedFails, processVars, history, JInv, ImperativeName
  <1>2. CASE SendStep
    <2>1. /\ sent' \subseteq sent \cup (IF Imperative THEN {<<Step.name, process>>} ELSE {})
          /\ UNCHANGED <<playbook, process, skip>>
      BY <1>2, NewlySent
    <2>2. pc \in LeafPcs
      BY <1>2 DEF SendStep, Execute, ExecuteFails, EndsWithoutPrompt, SendCommand, Acting, LeafPcs
    <2>3. Imperative => ImperativeName(Step.name) /\ Step.name \notin skip
      BY <2>2, EntryType DEF JInv, LeafReady
    <2>4. \A s \in sent : s[2] <= process /\ (s[2] < process => s[1] \in skip)
      BY DEF JInv
    <2>5. Imperative => \A s \in sent : s[1] = Step.name => s[2] = process
      BY <1>0, <2>3, <2>4
    <2>6. SentLedger'
      BY <1>0, <2>1, <2>3 DEF JInv, ImperativeName
    <2>7. NoResend'
      BY <2>1, <2>5 DEF JInv
    <2> QED
      BY <2>6, <2>7
  <1>3. CASE Resume
    <2>1. UNCHANGED <<sent, playbook>> /\ process' = process + 1 /\ skip' = done /\ Resumable
      BY <1>3 DEF Resume
    <2>2. \A s \in sent : s[1] \in done
      BY <2>1 DEF JInv, JournalCoversDevice, Resumable
    <2>3. SentLedger'
      BY <1>0, <2>1, <2>2 DEF JInv, ImperativeName
    <2>4. NoResend'
      BY <2>1 DEF JInv
    <2> QED
      BY <2>3, <2>4
  <1>4. CASE UNCHANGED <<sent, playbook, process, skip>>
    BY <1>4 DEF JInv, ImperativeName
  <1> QED
    BY <1>1, <1>2, <1>3, <1>4, QuietStep

-----------------------------------------------------------------------------
(* Types *)

PlainTypes ==
  /\ playbook \in Playbooks
  /\ open \subseteq [name : Names, imperative : BOOLEAN] /\ done \subseteq Names /\ torn \in BOOLEAN
  /\ pc \in {"connect", "step", "attempt", "send", "sent", "judge", "act", "acting", "unwind",
            "exited", "lost", "refused"}
  /\ session \in {"up", "broken", "none"}
  /\ result \in {"none", "pass", "fail", "error"}
  /\ skip \subseteq Names /\ cancelled \in BOOLEAN
  /\ verdict \in {"running", "ok", "failed"}

Counts == attempt \in 0..MaxAttempts /\ process \in 1..MaxProcesses

LEMMA StackKept ==
  ASSUME JInv, [Next]_vars
  PROVE  stack' \in Seq(FrameType) /\ CallInProgress'
  <1>1. CASE ProcessStep
    BY <1>1, StackTyped DEF JInv
  <1>2. CASE Crash
    BY <1>2, EmptySeq DEF Crash, CallInProgress, Alive
  <1>3. CASE Resume
    <2>1. Frame(Root) \in FrameType
      BY FrameIsFrame, RootAssumption
    <2>2. <<Frame(Root)>> \in Seq(FrameType) /\ Len(<<Frame(Root)>>) = 1
      BY <2>1
    <2> QED
      BY <1>3, <2>2, EmptySeq DEF Resume, CallInProgress
  <1>4. CASE Interrupt \/ RefuseResume \/ Rest \/ UNCHANGED vars
    BY <1>4 DEF Interrupt, RefuseResume, Rest, vars, JInv, TypeOK, CallInProgress, Alive
  <1> QED
    BY <1>1, <1>2, <1>3, <1>4 DEF Next

LEMMA PlainTypesKept ==
  ASSUME JInv, [Next]_vars
  PROVE  PlainTypes'
  <1> USE DEF journalVars, leafVars, processVars, history
  <1>0. PlainTypes
    BY DEF JInv, TypeOK, PlainTypes
  <1>1. CASE HeadStep
    BY <1>0, <1>1 DEF PlainTypes, HeadStep, Connect, ConnectFails, SkipCompleted,
       StartInterrupted, RejectStep, RefuseRepeat, EnterControl, Approve, Deny, ProbeSucceeds,
       ProbeFails, BeginLeaf
  <1>2. CASE LeafStep
    <2>1. CASE Announces \/ Completes
      <3>1. Entry \in [name : Names, imperative : BOOLEAN] /\ Step.name \in Names
        BY <2>1, EntryType DEF Announces, Completes, RecordIntent, IntentFails,
           RecordCompleted, CompletedFails, LeafPcs
      <3>2. CASE Announces
        BY <1>0, <3>1, <3>2 DEF PlainTypes, Announces, RecordIntent, IntentFails, OpenWith
      <3>3. CASE Completes
        BY <1>0, <3>1, <3>3 DEF PlainTypes, Completes, RecordCompleted, CompletedFails,
           OpenWithout
      <3> QED
        BY <2>1, <3>2, <3>3
    <2>2. CASE SendStep
      BY <1>0, <2>2 DEF PlainTypes, SendStep, Execute, ExecuteFails, EndsWithoutPrompt,
         SendCommand, Acting
    <2> QED
      BY <1>0, <1>2, <2>1, <2>2 DEF PlainTypes, Announces, Completes, SendStep, LeafStep, NoSession,
         OutputRejected, NoValidation, ValidationPasses, ValidationFails, ValidationErrs,
         ActNothing, Acting, ActStop, SendCommand, ActCommand, ActFails, ActSteps
  <1>3. CASE EndStep
    BY <1>0, <1>3 DEF PlainTypes, EndStep, EndUse, EndLoop, NextIteration, EndSteps,
       EndRecovery, EndAlways, EndRun, Return, GoTo, RecoveryIsCut,
       OnlyCallsChange
  <1>4. CASE Interrupt \/ Crash \/ Resume \/ RefuseResume \/ Rest \/ UNCHANGED vars
    BY <1>0, <1>4 DEF PlainTypes, Interrupt, Crash, Resume, RefuseResume, Rest, vars
  <1> QED
    BY <1>1, <1>2, <1>3, <1>4 DEF Next, ProcessStep

LEMMA CountsKept ==
  ASSUME JInv, [Next]_vars
  PROVE  Counts'
  <1> USE DEF journalVars, leafVars, processVars, history
  <1>0. Counts
    BY DEF JInv, TypeOK, Counts
  <1>1. CASE BeginLeaf \/ Resume
    BY <1>0, <1>1, BoundsAssumption DEF BeginLeaf, Resume, Down, Counts
  <1>2. CASE ValidationFails
    <2>1. Step \in StepConfig
      BY <1>2, EntryType DEF ValidationFails, LeafPcs
    <2>2. Step.attempts \in 1..MaxAttempts
      BY <2>1 DEF StepConfig
    <2> QED
      BY <1>0, <1>2, <2>2, BoundsAssumption DEF ValidationFails, MayRetry, Counts
  <1>3. CASE HeadStep /\ ~BeginLeaf
    BY <1>0, <1>3 DEF Counts, HeadStep, Connect, ConnectFails, SkipCompleted,
       StartInterrupted, RejectStep, RefuseRepeat, EnterControl, Approve, Deny, ProbeSucceeds,
       ProbeFails
  <1>4. CASE LeafStep /\ ~ValidationFails
    BY <1>0, <1>4 DEF Counts, LeafStep, RecordIntent, IntentFails, NoSession, Execute,
       ExecuteFails, EndsWithoutPrompt, RecordCompleted, CompletedFails, OutputRejected,
       NoValidation, ValidationPasses, ValidationErrs, ActNothing, Acting, ActStop, SendCommand,
       ActCommand, ActFails, ActSteps
  <1>5. CASE EndStep
    BY <1>0, <1>5 DEF Counts, EndStep, EndUse, EndLoop, NextIteration, EndSteps,
       EndRecovery, EndAlways, EndRun, RecoveryIsCut, OnlyCallsChange
  <1>6. CASE Interrupt \/ Crash \/ RefuseResume \/ Rest \/ UNCHANGED vars
    BY <1>0, <1>6 DEF Counts, Interrupt, Crash, RefuseResume, Rest, vars
  <1> QED
    BY <1>1, <1>2, <1>3, <1>4, <1>5, <1>6 DEF Next, ProcessStep

LEMMA HistoryTypesKept ==
  ASSUME JInv, [Next]_vars
  PROVE  /\ sent' \subseteq Names \X (1..MaxProcesses)
         /\ reached' \subseteq Nodes /\ cut' \subseteq Nodes /\ known' \subseteq Nodes
  <1> USE DEF journalVars, leafVars, processVars, history
  <1>1. sent' \subseteq Names \X (1..MaxProcesses)
    <2>1. sent \subseteq Names \X (1..MaxProcesses) /\ process \in 1..MaxProcesses
      BY DEF JInv, TypeOK
    <2>2. CASE SendStep
      <3>1. Step.name \in Names
        BY <2>2, EntryType DEF SendStep, Execute, ExecuteFails, EndsWithoutPrompt, SendCommand,
           Acting, LeafPcs
      <3> QED
        BY <2>1, <2>2, <3>1, NewlySent
    <2>3. CASE Announces \/ Completes \/ Resume
      BY <2>1, <2>3 DEF Announces, Completes, RecordIntent, IntentFails, RecordCompleted,
         CompletedFails, Resume
    <2> QED
      BY <2>1, <2>2, <2>3, SentQuietly
  <1>2. reached' \subseteq Nodes
    <2>1. reached \subseteq Nodes
      BY DEF JInv, TypeOK
    <2>2. CASE HeadStep
      <3>1. AtStep => Node \in Nodes
        BY NodeType DEF AtStep, JInv, CallInProgress, Alive
      <3> QED
        BY <2>1, <2>2, <3>1 DEF HeadStep, Connect, ConnectFails, SkipCompleted,
           StartInterrupted, RejectStep, RefuseRepeat, EnterControl, Approve, Deny, ProbeSucceeds,
           ProbeFails, BeginLeaf, Start, Startable
    <2>3. CASE LeafStep
      BY <2>1, <2>3 DEF LeafStep, RecordIntent, IntentFails, NoSession, Execute, ExecuteFails,
         EndsWithoutPrompt, RecordCompleted, CompletedFails, OutputRejected, NoValidation,
         ValidationPasses, ValidationFails, ValidationErrs, ActNothing, ActStop, SendCommand,
         ActCommand, ActFails, ActSteps
    <2>4. CASE EndStep
      BY <2>1, <2>4 DEF EndStep, EndUse, EndLoop, NextIteration, EndSteps, EndRecovery,
         EndAlways, EndRun, RecoveryIsCut, OnlyCallsChange
    <2>5. CASE Interrupt \/ Crash \/ Resume \/ RefuseResume \/ Rest \/ UNCHANGED vars
      BY <2>1, <2>5 DEF Interrupt, Crash, Resume, RefuseResume, Rest, vars
    <2> QED
      BY <2>2, <2>3, <2>4, <2>5 DEF Next, ProcessStep
  <1>3. cut' \subseteq Nodes
    <2>1. cut \subseteq Nodes
      BY DEF JInv, TypeOK
    <2>2. CASE EndRecovery
      <3>1. Top \in FrameType
        BY <2>2, TopType, EmptySeq DEF EndRecovery, AtEnd, JInv, TypeOK
      <3> QED
        BY <2>1, <2>2, <3>1 DEF EndRecovery, RecoveryIsCut, FrameType
    <2>3. UNCHANGED cut \/ cut' = {} \/ EndRecovery
      <3>1. CASE HeadStep
        BY <3>1 DEF HeadStep, Connect, ConnectFails, SkipCompleted, StartInterrupted,
           RejectStep, RefuseRepeat, EnterControl, Approve, Deny, ProbeSucceeds, ProbeFails,
           BeginLeaf
      <3>2. CASE LeafStep
        BY <3>2 DEF LeafStep, RecordIntent, IntentFails, NoSession, Execute, ExecuteFails,
           EndsWithoutPrompt, RecordCompleted, CompletedFails, OutputRejected, NoValidation,
           ValidationPasses, ValidationFails, ValidationErrs, ActNothing, ActStop, SendCommand,
           ActCommand, ActFails, ActSteps
      <3>3. CASE EndStep
        BY <3>3 DEF EndStep, EndUse, EndLoop, NextIteration, EndSteps, EndAlways, EndRun,
           OnlyCallsChange
      <3>4. CASE Interrupt \/ Crash \/ Resume \/ RefuseResume \/ Rest \/ UNCHANGED vars
        BY <3>4 DEF Interrupt, Crash, Resume, RefuseResume, Rest, vars
      <3> QED
        BY <3>1, <3>2, <3>3, <3>4 DEF Next, ProcessStep
    <2> QED
      BY <2>1, <2>2, <2>3
  <1>4. known' \subseteq Nodes
    <2>1. known \subseteq Nodes
      BY DEF JInv, TypeOK
    <2>2. pc = "judge" => Node \in Nodes
      BY DEF JInv, LeafReady, LeafPcs
    <2> QED
      BY <2>1, <2>2, KnownGrows DEF Registers
  <1> QED
    BY <1>1, <1>2, <1>3, <1>4

-----------------------------------------------------------------------------
(* The invariant *)

LEMMA InitJInv ==
  ASSUME Init
  PROVE  JInv
  <1>1. stack \in Seq(FrameType) /\ stack # <<>>
    <2>1. Frame(Root) \in FrameType
      BY FrameIsFrame, RootAssumption
    <2>2. <<Frame(Root)>> \in Seq(FrameType) /\ Len(<<Frame(Root)>>) = 1
      BY <2>1
    <2> QED
      BY <2>2, EmptySeq DEF Init
  <1>2. Counts
    BY BoundsAssumption DEF Init, Counts
  <1>3. PlainTypes
    BY DEF Init, PlainTypes
  <1>4. TypeOK
    BY <1>1, <1>2, <1>3 DEF Init, TypeOK, Counts, PlainTypes
  <1> QED
    BY <1>1, <1>4 DEF Init, JInv, CallInProgress, LeafReady, LeafPcs, JournalCoversDevice,
       AnswerOnRecord, SentLedger, NoResend

\* The invariant is inductive: a process announces what it does, marks what was
\* answered, and starts over only with everything an earlier one sent marked.
THEOREM JournalInvariant == Spec => []JInv
  <1>1. ASSUME JInv, [Next]_vars PROVE JInv'
    <2>1. TypeOK'
      BY <1>1, StackKept, PlainTypesKept, CountsKept, HistoryTypesKept
      DEF TypeOK, PlainTypes, Counts
    <2>2. JournalCoversDevice'
      BY <1>1, RecordsKept, AnnouncedKept DEF JournalCoversDevice, Covered
    <2> QED
      BY <1>1, <2>1, <2>2, StackKept, LeafReadyKept, AnswerOnRecordKept, LedgerKept DEF JInv
  <1> QED
    BY <1>1, InitJInv, PTL DEF Spec

\* Every variable keeps its type: above all the stack that stands for the
\* recursion of executeStepsAtDepth.
THEOREM WorkflowTypes == Spec => []TypeOK
  <1>1. JInv => TypeOK
    BY DEF JInv
  <1> QED
    BY <1>1, JournalInvariant, PTL

\* run_journal.go: every imperative step for which the device may have been sent
\* anything, by the step or by its validation action, is on record, or the journal cannot
\* be read and resuming is refused.  Commands that actions of other steps send have no
\* record, and nothing is claimed of them.
THEOREM JournalIsComplete == Spec => []JournalCoversDevice
  <1>1. JInv => JournalCoversDevice
    BY DEF JInv
  <1> QED
    BY <1>1, JournalInvariant, PTL

\* What one process may have sent for an imperative step, the command of its validation
\* action included, is not sent again by one that resumes its run, for every playbook,
\* every point of failure and any number of resumed processes.
THEOREM ResumeNeverRepeats == Spec => []NoResend
  <1>1. JInv => NoResend
    BY DEF JInv
  <1> QED
    BY <1>1, JournalInvariant, PTL

-----------------------------------------------------------------------------
(* What a device result is worth *)

ListOf(p, f) == p[f.node][f.part]

\* The nodes whose steps, not recovery or cleanup, the calls below the i-th are at.
Around(s, i) == {s[j].node : j \in {k \in DOMAIN s : k > i /\ s[k].part = "steps"}}

\* Only blocks have recovery and cleanup, and only there a block owes what its
\* steps left.  What a call has gone past was reached, unless a step went wrong.
FrameOK(p, r, f) ==
  /\ f.part = "steps" => ~f.stopped /\ ~f.lost
  /\ f.part # "steps" => p[f.node].kind = "block"
  /\ f.part = "recovery" => p[f.node].recovery # <<>>
  /\ f.at > 1 /\ ListOf(p, f) # <<>> => ListOf(p, f)[1] \in r
  /\ ~f.failed => \A k \in DOMAIN ListOf(p, f) : k < f.at => ListOf(p, f)[k] \in r

\* A call is at the step that made the next one.
CallOK(p, r, caller, f) ==
  /\ caller.at \in DOMAIN ListOf(p, caller) /\ f.node = ListOf(p, caller)[caller.at]
  /\ f.node \in r

\* Each call was made by the one below it, and the first one is the entry's.
Chained(p, r, s) ==
  /\ \A i \in DOMAIN s : FrameOK(p, r, s[i])
  /\ \A i \in DOMAIN s : Inside(p, s[i].node) = Around(s, i)
  /\ \A i \in DOMAIN s : i + 1 \in DOMAIN s => CallOK(p, r, s[i + 1], s[i])
  /\ s # <<>> => s[Len(s)].node = Root /\ s[Len(s)].part = "steps"

StackInv == Chained(playbook, reached, stack)

\* Where the process is agrees with the call in progress.
PlaceInv ==
  /\ pc = "connect" => reached = {} /\ trouble = {} /\ stack = <<Frame(Root)>>
  /\ pc \in LeafPcs \/ (pc = "unwind" /\ ~cancelled) => ~Over /\ Node \in reached
  /\ pc = "exited" => stack = <<>>
  /\ Root \notin reached

\* The callers of gate c have been told to stop, by this process.
StoppedBy(c) == c.process = process /\ c.told

\* A gate that stopped this process is still being obeyed: the process unwinds, or is in
\* the recovery or the cleanup of a block that will go on unwinding.
GateInv ==
  /\ \A c \in closed : c.process \in Nat /\ c.process <= process
  /\ (\E c \in closed : StoppedBy(c)) /\ Alive =>
       pc = "unwind" \/ \E i \in DOMAIN stack : stack[i].stopped

\* A block that was begun is in progress until its cleanup was.
CleanupInv ==
  ~cancelled /\ pc \notin {"lost", "refused"} =>
    \A b \in reached \ Troubled :
      playbook[b].kind = "block" => Cleaned(b) \/ \E i \in DOMAIN stack : stack[i].node = b

\* The call f answers for the failure of n: it is marked, n went wrong inside it, and a
\* recovery that is going well answers for the steps it is to recover.
Answers(p, f, n) ==
  /\ f.failed \/ f.bad \/ f.lost
  /\ Inside(p, f.node) \subseteq Inside(p, n)
  /\ f.part = "steps" \/ (f.part = "recovery" /\ ~f.failed /\ ~f.bad) => f.node \in Inside(p, n)

MadeGood(n) == \E b \in Inside(playbook, n) : RecoveredBy(b)

\* Whatever failed was recovered, or a call in progress answers for it.
TroubleInv ==
  /\ \A t \in trouble :
       t.node \in Nodes /\ t.within = Inside(playbook, t.node) /\ t.within \subseteq Nodes
  /\ ~cancelled /\ Alive =>
       \A n \in Troubled : MadeGood(n) \/ \E i \in DOMAIN stack : Answers(playbook, stack[i], n)

VInv == StackInv /\ PlaceInv /\ GateInv /\ CleanupInv /\ TroubleInv /\ CleanVerdict

-----------------------------------------------------------------------------
(* Where each call is after a step *)

LEMMA ReplacedAt ==
  ASSUME stack \in Seq(FrameType), stack # <<>>, NEW f \in FrameType, stack' = ReplaceTop(f)
  PROVE  /\ Len(stack') = Len(stack) /\ Len(stack) \in Nat \ {0}
         /\ DOMAIN stack = 1..Len(stack) /\ DOMAIN stack' = 1..Len(stack)
         /\ stack'[1] = f
         /\ \A i \in 2..Len(stack) : stack'[i] = stack[i]
  <1>1. /\ Len(stack) \in Nat /\ Len(stack) # 0 /\ DOMAIN stack = 1..Len(stack)
        /\ DOMAIN stack' = 1..Len(stack')
    BY LenProperties, EmptySeq, ReplacedTop
  <1>2. /\ Tail(stack) \in Seq(FrameType) /\ Len(Tail(stack)) = Len(stack) - 1
        /\ \A i \in 1..(Len(stack) - 1) : Tail(stack)[i] = stack[i + 1]
    BY HeadTailProperties
  <1>3. <<f>> \in Seq(FrameType) /\ Len(<<f>>) = 1 /\ <<f>>[1] = f
    OBVIOUS
  <1>4. /\ Len(stack') = 1 + (Len(stack) - 1)
        /\ \A i \in 1..(1 + (Len(stack) - 1)) :
             stack'[i] = IF i <= 1 THEN <<f>>[i] ELSE Tail(stack)[i - 1]
    BY <1>2, <1>3, ConcatProperties DEF ReplaceTop, Pop
  <1>5. Len(stack') = Len(stack)
    BY <1>1, <1>4
  <1>6. \A i \in 2..Len(stack) : stack'[i] = Tail(stack)[i - 1]
    BY <1>1, <1>4
  <1>7. \A i \in 2..Len(stack) : i - 1 \in 1..(Len(stack) - 1) /\ (i - 1) + 1 = i
    BY <1>1
  <1>8. \A i \in 2..Len(stack) : stack'[i] = stack[i]
    BY <1>2, <1>6, <1>7
  <1> QED
    BY <1>1, <1>5, <1>8, ReplacedTop DEF Top

LEMMA PushedAt ==
  ASSUME stack \in Seq(FrameType), NEW f \in FrameType, stack' = <<f>> \o stack
  PROVE  /\ Len(stack') = Len(stack) + 1 /\ Len(stack) \in Nat
         /\ DOMAIN stack = 1..Len(stack) /\ DOMAIN stack' = 1..(Len(stack) + 1)
         /\ stack'[1] = f
         /\ \A i \in 2..(Len(stack) + 1) : stack'[i] = stack[i - 1]
  <1>1. /\ Len(stack) \in Nat /\ DOMAIN stack = 1..Len(stack) /\ DOMAIN stack' = 1..Len(stack')
    BY LenProperties, PushedFrame
  <1>2. <<f>> \in Seq(FrameType) /\ Len(<<f>>) = 1 /\ <<f>>[1] = f
    OBVIOUS
  <1>3. /\ Len(stack') = 1 + Len(stack)
        /\ \A i \in 1..(1 + Len(stack)) : stack'[i] = IF i <= 1 THEN <<f>>[i] ELSE stack[i - 1]
    BY <1>2, ConcatProperties
  <1> QED
    BY <1>1, <1>3, PushedFrame DEF Top

LEMMA ReturnedAt ==
  ASSUME stack \in Seq(FrameType), Len(stack) > 1, NEW f \in FrameType,
         stack' = <<f>> \o Tail(Tail(stack))
  PROVE  /\ Len(stack') = Len(stack) - 1 /\ Len(stack) \in Nat
         /\ DOMAIN stack = 1..Len(stack) /\ DOMAIN stack' = 1..(Len(stack) - 1)
         /\ stack'[1] = f
         /\ \A i \in 2..(Len(stack) - 1) : stack'[i] = stack[i + 1]
  <1>1. /\ Len(stack) \in Nat /\ DOMAIN stack = 1..Len(stack) /\ DOMAIN stack' = 1..Len(stack')
        /\ stack # <<>>
    BY LenProperties, ReturnedTo
  <1>2. /\ Tail(Tail(stack)) \in Seq(FrameType)
        /\ Len(Tail(Tail(stack))) = Len(stack) - 2
        /\ \A i \in 1..(Len(stack) - 2) : Tail(Tail(stack))[i] = stack[i + 2]
    BY TwiceTail
  <1>3. <<f>> \in Seq(FrameType) /\ Len(<<f>>) = 1 /\ <<f>>[1] = f
    OBVIOUS
  <1>4. /\ Len(stack') = 1 + (Len(stack) - 2)
        /\ \A i \in 1..(1 + (Len(stack) - 2)) :
             stack'[i] = IF i <= 1 THEN <<f>>[i] ELSE Tail(Tail(stack))[i - 1]
    BY <1>2, <1>3, ConcatProperties
  <1>5. Len(stack') = Len(stack) - 1 /\ stack'[1] = f
    BY <1>1, <1>3, <1>4
  <1>6. \A i \in 2..(Len(stack) - 1) : stack'[i] = Tail(Tail(stack))[i - 1]
    BY <1>1, <1>4
  <1>7. \A i \in 2..(Len(stack) - 1) : i - 1 \in 1..(Len(stack) - 2) /\ (i - 1) + 2 = i + 1
    BY <1>1
  <1>8. \A i \in 2..(Len(stack) - 1) : stack'[i] = stack[i + 1]
    BY <1>2, <1>6, <1>7
  <1> QED
    BY <1>1, <1>5, <1>8

LEMMA IteratedAt ==
  ASSUME stack \in Seq(FrameType), Len(stack) > 1, NEW f \in FrameType, NEW g \in FrameType,
         stack' = <<f, g>> \o Tail(Tail(stack))
  PROVE  /\ Len(stack') = Len(stack) /\ Len(stack) \in Nat
         /\ DOMAIN stack = 1..Len(stack) /\ DOMAIN stack' = 1..Len(stack)
         /\ stack'[1] = f /\ stack'[2] = g
         /\ \A i \in 3..Len(stack) : stack'[i] = stack[i]
  <1>1. /\ Len(stack) \in Nat /\ DOMAIN stack = 1..Len(stack) /\ stack # <<>>
    BY LenProperties
  <1>2. /\ Tail(Tail(stack)) \in Seq(FrameType)
        /\ Len(Tail(Tail(stack))) = Len(stack) - 2
        /\ \A i \in 1..(Len(stack) - 2) : Tail(Tail(stack))[i] = stack[i + 2]
    BY TwiceTail
  <1>3. <<f, g>> \in Seq(FrameType) /\ Len(<<f, g>>) = 2 /\ <<f, g>>[1] = f /\ <<f, g>>[2] = g
    OBVIOUS
  <1>4. /\ stack' \in Seq(FrameType) /\ Len(stack') = 2 + (Len(stack) - 2)
        /\ \A i \in 1..(2 + (Len(stack) - 2)) :
             stack'[i] = IF i <= 2 THEN <<f, g>>[i] ELSE Tail(Tail(stack))[i - 2]
    <2>1. PICK h \in Seq(FrameType) : h = <<f, g>>
      BY <1>3
    <2>2. PICK k \in Seq(FrameType) : k = Tail(Tail(stack))
      BY <1>2
    <2>3. stack' = h \o k /\ Len(h) = 2 /\ Len(k) = Len(stack) - 2
      BY <1>2, <1>3, <2>1, <2>2
    <2>4. /\ h \o k \in Seq(FrameType) /\ Len(h \o k) = Len(h) + Len(k)
          /\ \A i \in 1..(Len(h) + Len(k)) : (h \o k)[i] = IF i <= Len(h) THEN h[i] ELSE k[i - Len(h)]
      BY ConcatProperties
    <2> QED
      BY <2>1, <2>2, <2>3, <2>4
  <1>5. Len(stack') = Len(stack) /\ stack'[1] = f /\ stack'[2] = g
    BY <1>1, <1>3, <1>4
  <1>6. \A i \in 3..Len(stack) : stack'[i] = Tail(Tail(stack))[i - 2]
    BY <1>1, <1>4
  <1>7. \A i \in 3..Len(stack) : i - 2 \in 1..(Len(stack) - 2) /\ (i - 2) + 2 = i
    BY <1>1
  <1>8. \A i \in 3..Len(stack) : stack'[i] = stack[i]
    BY <1>2, <1>6, <1>7
  <1> QED
    BY <1>1, <1>4, <1>5, <1>8, LenProperties

(* The chain of calls is kept by whatever happens to the stack *)

LEMMA FrameGrows ==
  ASSUME NEW p, NEW r, NEW q, r \subseteq q, NEW f, FrameOK(p, r, f)
  PROVE  FrameOK(p, q, f)
  BY DEF FrameOK

LEMMA CallGrows ==
  ASSUME NEW p, NEW r, NEW q, r \subseteq q, NEW f, NEW g, CallOK(p, r, g, f)
  PROVE  CallOK(p, q, g, f)
  BY DEF CallOK

LEMMA ChainGrows ==
  ASSUME NEW p, NEW r, NEW q, r \subseteq q, NEW s, Chained(p, r, s)
  PROVE  Chained(p, q, s)
  BY FrameGrows, CallGrows DEF Chained

\* Whoever a call is inside of depends on the nodes and parts below it alone.
LEMMA AroundKept ==
  ASSUME NEW n \in Nat, NEW s, NEW t, NEW i \in 1..n,
         DOMAIN s = 1..n, DOMAIN t = 1..n,
         \A j \in 2..n : t[j].node = s[j].node /\ t[j].part = s[j].part
  PROVE  Around(t, i) = Around(s, i)
  <1>1. \A j \in 1..n : j > i => t[j].node = s[j].node /\ t[j].part = s[j].part
    OBVIOUS
  <1> QED
    BY <1>1 DEF Around

LEMMA ChainReplaced ==
  ASSUME NEW p, NEW r, NEW q, r \subseteq q, NEW s, NEW t, NEW f,
         NEW n \in Nat \ {0}, DOMAIN s = 1..n, Len(s) = n, DOMAIN t = 1..n, Len(t) = n,
         t[1] = f, \A i \in 2..n : t[i] = s[i], s # <<>>,
         Chained(p, r, s), f.node = s[1].node, FrameOK(p, q, f), n = 1 => f.part = "steps"
  PROVE  Chained(p, q, t)
  <1>1. \A i \in 1..n : FrameOK(p, q, t[i])
    BY FrameGrows DEF Chained
  <1>2. \A i \in 1..n : t[i].node = s[i].node
    OBVIOUS
  <1>3. \A i \in 1..n : Inside(p, t[i].node) = Around(t, i)
    BY <1>2, AroundKept DEF Chained
  <1>4. ASSUME NEW i \in 1..n, i + 1 \in 1..n PROVE CallOK(p, q, t[i + 1], t[i])
    <2>1. CallOK(p, q, s[i + 1], s[i])
      BY <1>4, CallGrows DEF Chained
    <2>2. t[i + 1] = s[i + 1] /\ t[i].node = s[i].node
      BY <1>2, <1>4
    <2> QED
      BY <2>1, <2>2 DEF CallOK
  <1>5. t[n].node = Root /\ t[n].part = "steps"
    <2>1. s[n].node = Root /\ s[n].part = "steps"
      BY DEF Chained
    <2> QED
      BY <1>2, <2>1
  <1> QED
    BY <1>1, <1>3, <1>4, <1>5 DEF Chained

LEMMA ChainPushed ==
  ASSUME NEW p \in Playbooks, NEW r, NEW q, r \subseteq q, NEW s, NEW t, NEW f,
         NEW n \in Nat \ {0}, DOMAIN s = 1..n, Len(s) = n,
         DOMAIN t = 1..(n + 1), Len(t) = n + 1,
         t[1] = f, \A i \in 2..(n + 1) : t[i] = s[i - 1], s # <<>>,
         s[1].node \in Nodes, s[1].part \in Parts,
         Chained(p, r, s), FrameOK(p, q, f), CallOK(p, q, s[1], f)
  PROVE  Chained(p, q, t)
  <1>0. \A i \in 1..n : t[i + 1] = s[i]
    <2> SUFFICES ASSUME NEW i \in 1..n PROVE t[i + 1] = s[i]
      OBVIOUS
    <2>1. i + 1 \in 2..(n + 1) /\ (i + 1) - 1 = i
      OBVIOUS
    <2> QED
      BY <2>1
  <1>6. \A i \in 1..(n + 1) : i = 1 \/ (i - 1 \in 1..n /\ t[i] = s[i - 1])
    OBVIOUS
  <1>1. \A i \in 1..(n + 1) : FrameOK(p, q, t[i])
    BY <1>6, FrameGrows DEF Chained
  <1>2. \A i \in 1..n : Around(t, i + 1) = Around(s, i)
    <2> SUFFICES ASSUME NEW i \in 1..n, NEW m PROVE m \in Around(t, i + 1) <=> m \in Around(s, i)
      OBVIOUS
    <2>1. ASSUME m \in Around(t, i + 1) PROVE m \in Around(s, i)
      <3>1. PICK j \in 1..(n + 1) : j > i + 1 /\ t[j].part = "steps" /\ t[j].node = m
        BY <2>1 DEF Around
      <3>2. j - 1 \in 1..n /\ j - 1 > i /\ t[j] = s[j - 1]
        BY <1>6, <3>1
      <3> QED
        BY <3>1, <3>2 DEF Around
    <2>2. ASSUME m \in Around(s, i) PROVE m \in Around(t, i + 1)
      <3>1. PICK j \in 1..n : j > i /\ s[j].part = "steps" /\ s[j].node = m
        BY <2>2 DEF Around
      <3>2. j + 1 \in 1..(n + 1) /\ j + 1 > i + 1 /\ t[j + 1] = s[j]
        BY <1>0, <3>1
      <3> QED
        BY <3>1, <3>2 DEF Around
    <2> QED
      BY <2>1, <2>2
  <1>3. Around(t, 1) = Around(s, 1) \cup (IF s[1].part = "steps" THEN {s[1].node} ELSE {})
    <2> SUFFICES ASSUME NEW m
                 PROVE  m \in Around(t, 1)
                          <=> m \in Around(s, 1) \/ (s[1].part = "steps" /\ m = s[1].node)
      OBVIOUS
    <2>1. ASSUME m \in Around(t, 1)
          PROVE  m \in Around(s, 1) \/ (s[1].part = "steps" /\ m = s[1].node)
      <3>1. PICK j \in 1..(n + 1) : j > 1 /\ t[j].part = "steps" /\ t[j].node = m
        BY <2>1 DEF Around
      <3>2. j - 1 \in 1..n /\ t[j] = s[j - 1]
        BY <1>6, <3>1
      <3>3. CASE j - 1 = 1
        BY <3>1, <3>2, <3>3
      <3>4. CASE j - 1 > 1
        BY <3>1, <3>2, <3>4 DEF Around
      <3> QED
        BY <3>2, <3>3, <3>4
    <2>2. ASSUME m \in Around(s, 1) PROVE m \in Around(t, 1)
      <3>1. PICK j \in 1..n : j > 1 /\ s[j].part = "steps" /\ s[j].node = m
        BY <2>2 DEF Around
      <3>2. j + 1 \in 1..(n + 1) /\ j + 1 > 1 /\ t[j + 1] = s[j]
        BY <1>0, <3>1
      <3> QED
        BY <3>1, <3>2 DEF Around
    <2>3. ASSUME s[1].part = "steps", m = s[1].node PROVE m \in Around(t, 1)
      <3>1. 2 \in 1..(n + 1) /\ 2 > 1 /\ t[2] = s[1]
        BY <1>0
      <3> QED
        BY <2>3, <3>1 DEF Around
    <2> QED
      BY <2>1, <2>2, <2>3
  <1>4. Inside(p, f.node) = Inside(p, s[1].node)
                              \cup (IF s[1].part = "steps" THEN {s[1].node} ELSE {})
    <2>1. f.node \in Range(p[s[1].node][s[1].part])
      BY DEF CallOK, ListOf, Range
    <2> QED
      BY <2>1, TreeAssumption
  <1>5. \A i \in 1..(n + 1) : Inside(p, t[i].node) = Around(t, i)
    <2> SUFFICES ASSUME NEW i \in 1..(n + 1) PROVE Inside(p, t[i].node) = Around(t, i)
      OBVIOUS
    <2>1. CASE i = 1
      <3>1. Inside(p, s[1].node) = Around(s, 1)
        BY DEF Chained
      <3> QED
        BY <1>3, <1>4, <2>1, <3>1
    <2>2. CASE i # 1
      <3>1. i - 1 \in 1..n /\ t[i] = s[i - 1] /\ (i - 1) + 1 = i
        BY <1>6, <2>2
      <3>2. Inside(p, s[i - 1].node) = Around(s, i - 1) /\ Around(t, (i - 1) + 1) = Around(s, i - 1)
        BY <1>2, <3>1 DEF Chained
      <3> QED
        BY <3>1, <3>2
    <2> QED
      BY <2>1, <2>2
  <1>7. ASSUME NEW i \in 1..(n + 1), i + 1 \in 1..(n + 1) PROVE CallOK(p, q, t[i + 1], t[i])
    <2>1. CASE i = 1
      BY <1>0, <2>1
    <2>2. CASE i # 1
      <3>1. i - 1 \in 1..n /\ (i - 1) + 1 = i /\ i \in 1..n
        BY <1>7, <2>2
      <3>2. CallOK(p, r, s[i], s[i - 1])
        BY <3>1 DEF Chained
      <3>3. t[i + 1] = s[i] /\ t[i] = s[i - 1]
        BY <1>0, <1>6, <3>1, <2>2
      <3> QED
        BY <3>2, <3>3, CallGrows
    <2> QED
      BY <2>1, <2>2
  <1>8. t[n + 1].node = Root /\ t[n + 1].part = "steps"
    BY <1>0 DEF Chained
  <1> QED
    BY <1>1, <1>5, <1>7, <1>8 DEF Chained

LEMMA ChainReturned ==
  ASSUME NEW p, NEW r, NEW s, NEW t, NEW f,
         NEW n \in Nat, n > 1, DOMAIN s = 1..n, Len(s) = n,
         DOMAIN t = 1..(n - 1), Len(t) = n - 1,
         t[1] = f, \A i \in 2..(n - 1) : t[i] = s[i + 1], s # <<>>,
         Chained(p, r, s), f.node = s[2].node, f.part = s[2].part, FrameOK(p, r, f)
  PROVE  Chained(p, r, t)
  <1>1. \A i \in 1..(n - 1) : FrameOK(p, r, t[i])
    BY DEF Chained
  <1>2. \A i \in 1..(n - 1) : t[i].node = s[i + 1].node /\ t[i].part = s[i + 1].part
    OBVIOUS
  <1>3. \A i \in 1..(n - 1) : Around(t, i) = Around(s, i + 1)
    <2> SUFFICES ASSUME NEW i \in 1..(n - 1), NEW m
                 PROVE  m \in Around(t, i) <=> m \in Around(s, i + 1)
      OBVIOUS
    <2>1. ASSUME m \in Around(t, i) PROVE m \in Around(s, i + 1)
      <3>1. PICK j \in 1..(n - 1) : j > i /\ t[j].part = "steps" /\ t[j].node = m
        BY <2>1 DEF Around
      <3>2. j + 1 \in 1..n /\ j + 1 > i + 1 /\ s[j + 1].part = "steps" /\ s[j + 1].node = m
        BY <1>2, <3>1
      <3> QED
        BY <3>2 DEF Around
    <2>2. ASSUME m \in Around(s, i + 1) PROVE m \in Around(t, i)
      <3>1. PICK j \in 1..n : j > i + 1 /\ s[j].part = "steps" /\ s[j].node = m
        BY <2>2 DEF Around
      <3>2. j - 1 \in 1..(n - 1) /\ j - 1 > i /\ (j - 1) + 1 = j
        BY <3>1
      <3>3. t[j - 1].part = "steps" /\ t[j - 1].node = m
        BY <1>2, <3>1, <3>2
      <3> QED
        BY <3>2, <3>3 DEF Around
    <2> QED
      BY <2>1, <2>2
  <1>4. \A i \in 1..(n - 1) : Inside(p, t[i].node) = Around(t, i)
    <2> SUFFICES ASSUME NEW i \in 1..(n - 1) PROVE Inside(p, t[i].node) = Around(t, i)
      OBVIOUS
    <2>1. i + 1 \in 1..n
      OBVIOUS
    <2> QED
      BY <1>2, <1>3, <2>1 DEF Chained
  <1>5. ASSUME NEW i \in 1..(n - 1), i + 1 \in 1..(n - 1) PROVE CallOK(p, r, t[i + 1], t[i])
    <2>1. i + 1 \in 1..n /\ (i + 1) + 1 \in 1..n /\ i + 1 \in 2..(n - 1)
      BY <1>5
    <2>2. CallOK(p, r, s[(i + 1) + 1], s[i + 1])
      BY <2>1 DEF Chained
    <2>3. t[i + 1] = s[(i + 1) + 1] /\ t[i].node = s[i + 1].node
      BY <1>2, <2>1
    <2> QED
      BY <2>2, <2>3 DEF CallOK
  <1>6. t[n - 1].node = Root /\ t[n - 1].part = "steps"
    <2>1. s[n].node = Root /\ s[n].part = "steps"
      BY DEF Chained
    <2>2. n - 1 \in 1..(n - 1) /\ (n - 1) + 1 = n
      OBVIOUS
    <2> QED
      BY <1>2, <2>1, <2>2
  <1> QED
    BY <1>1, <1>4, <1>5, <1>6 DEF Chained

LEMMA ChainIterated ==
  ASSUME NEW p, NEW r, NEW s, NEW t, NEW f, NEW g,
         NEW n \in Nat, n > 1, DOMAIN s = 1..n, Len(s) = n, DOMAIN t = 1..n, Len(t) = n,
         t[1] = f, t[2] = g, \A i \in 3..n : t[i] = s[i], s # <<>>,
         Chained(p, r, s), f.node = s[1].node, FrameOK(p, r, f), FrameOK(p, r, g),
         g.node = s[2].node, g.part = s[2].part, g.at = s[2].at
  PROVE  Chained(p, r, t)
  <1>1. \A i \in 1..n : FrameOK(p, r, t[i])
    BY DEF Chained
  <1>2. \A i \in 1..n : t[i].node = s[i].node
    OBVIOUS
  <1>3. \A i \in 2..n : t[i].part = s[i].part /\ t[i].at = s[i].at
    OBVIOUS
  <1>4. \A i \in 1..n : Inside(p, t[i].node) = Around(t, i)
    BY <1>2, <1>3, AroundKept DEF Chained
  <1>5. ASSUME NEW i \in 1..n, i + 1 \in 1..n PROVE CallOK(p, r, t[i + 1], t[i])
    <2>1. CallOK(p, r, s[i + 1], s[i])
      BY <1>5 DEF Chained
    <2>2. /\ t[i + 1].node = s[i + 1].node /\ t[i].node = s[i].node
          /\ t[i + 1].part = s[i + 1].part /\ t[i + 1].at = s[i + 1].at
      BY <1>2, <1>3, <1>5
    <2> QED
      BY <2>1, <2>2 DEF CallOK, ListOf
  <1>6. t[n].node = Root /\ t[n].part = "steps"
    <2>1. s[n].node = Root /\ s[n].part = "steps"
      BY DEF Chained
    <2> QED
      BY <1>2, <1>3, <2>1
  <1> QED
    BY <1>1, <1>4, <1>5, <1>6 DEF Chained

-----------------------------------------------------------------------------
(* Steps that end no call *)

Forward == (HeadStep \/ LeafStep) /\ ~ConnectFails

\* The same call, further on.
Goes(f, g) ==
  /\ g.node = f.node /\ g.part = f.part /\ g.stopped = f.stopped /\ g.lost = f.lost
  /\ (f.failed => g.failed) /\ (f.bad => g.bad)

LEMMA MovedFrame ==
  ASSUME NEW f \in FrameType, NEW n \in Nat \ {0}
  PROVE  /\ Goes(f, Advance(f)) /\ Advance(f).at = f.at + 1
         /\ Goes(f, Fail(f)) /\ Fail(f).at = f.at /\ Fail(f).failed
         /\ Goes(f, Advance(Fail(f))) /\ Advance(Fail(f)).at = f.at + 1
         /\ Advance(Fail(f)).failed
         /\ LET g == [f EXCEPT !.bad = TRUE]
            IN  Goes(f, g) /\ g.at = f.at /\ g.bad /\ Goes(f, Fail(g)) /\ Fail(g).at = f.at /\ Fail(g).bad
         /\ LET g == Fail([f EXCEPT !.at = n]) IN Goes(f, g) /\ g.at = n /\ g.failed
  <1>1. Goes(f, Advance(f)) /\ Advance(f).at = f.at + 1
    BY DEF Goes, Advance, FrameType
  <1>2. Goes(f, Fail(f)) /\ Fail(f).at = f.at /\ Fail(f).failed
    BY DEF Goes, Fail, FrameType
  <1>3. /\ Goes(f, Advance(Fail(f))) /\ Advance(Fail(f)).at = f.at + 1
        /\ Advance(Fail(f)).failed
    BY DEF Goes, Fail, Advance, FrameType
  <1>4. LET g == [f EXCEPT !.bad = TRUE]
        IN  Goes(f, g) /\ g.at = f.at /\ g.bad /\ Goes(f, Fail(g)) /\ Fail(g).at = f.at /\ Fail(g).bad
    BY DEF Goes, Fail, FrameType
  <1>5. LET g == Fail([f EXCEPT !.at = n]) IN Goes(f, g) /\ g.at = n /\ g.failed
    BY DEF Goes, Fail, FrameType
  <1> QED
    BY <1>1, <1>2, <1>3, <1>4, <1>5

\* A call is still at its step, has gone past it, or gives its list up as failed.
TopMoves ==
  \E f \in FrameType :
    /\ stack' = ReplaceTop(f) /\ Goes(Top, f)
    /\ \/ f.at = Top.at
       \/ /\ ~Over /\ Node \in reached'
          /\ f.at = Top.at + 1 \/ (f.at > Len(Body) /\ f.failed)

Calls == ~Over /\ Node \in reached' /\ stack' = <<Frame(Node)>> \o stack

LEMMA ForwardStack ==
  ASSUME JInv, PlaceInv, Forward, Top \in FrameType, Len(Body) \in Nat
  PROVE  UNCHANGED stack \/ TopMoves \/ Calls
  <1> USE DEF history
  <1>0. Len(Body) + 1 \in Nat \ {0} /\ Len(Body) + 1 > Len(Body)
    OBVIOUS
  <1>1. CASE \/ Connect \/ StartInterrupted \/ BeginLeaf \/ RecordIntent \/ Execute
             \/ EndsWithoutPrompt \/ RecordCompleted \/ NoValidation \/ ValidationPasses
             \/ SendCommand
    BY <1>1 DEF Connect, StartInterrupted, BeginLeaf, RecordIntent, Execute,
         EndsWithoutPrompt, RecordCompleted, NoValidation, ValidationPasses, SendCommand
  <1>2. CASE SkipCompleted \/ RejectStep \/ Approve \/ ProbeSucceeds
    <2>1. ~Over /\ Node \in reached'
      BY <1>2 DEF SkipCompleted, RejectStep, Approve, ProbeSucceeds, AtStep, Start, Startable
    <2>2. stack' \in {ReplaceTop(Advance(Top)), ReplaceTop(Advance(Fail(Top)))}
      BY <1>2 DEF SkipCompleted, RejectStep, Approve, ProbeSucceeds
    <2> QED
      BY <2>1, <2>2, <1>0, MovedFrame, MarkedFrame DEF TopMoves
  <1>3. CASE \/ RefuseRepeat \/ Deny \/ ProbeFails \/ IntentFails \/ NoSession
             \/ ExecuteFails \/ CompletedFails \/ OutputRejected
    <2>1. stack' = ReplaceTop(Fail(Top))
      BY <1>3 DEF RefuseRepeat, Deny, ProbeFails, IntentFails, NoSession, ExecuteFails,
         CompletedFails, OutputRejected
    <2> QED
      BY <2>1, <1>0, MovedFrame, MarkedFrame DEF TopMoves
  <1>4. CASE ValidationFails \/ ValidationErrs
    <2>1. stack' \in {ReplaceTop([Top EXCEPT !.bad = TRUE]),
                      ReplaceTop(Fail([Top EXCEPT !.bad = TRUE]))}
      BY <1>4 DEF ValidationFails, ValidationErrs
    <2>2. stack # <<>>
      BY <1>4 DEF ValidationFails, ValidationErrs, JInv, CallInProgress, Alive
    <2> QED
      BY <2>1, <2>2, <1>0, MovedFrame, FrameTypes DEF TopMoves, JInv
  <1>5. CASE EnterControl
    BY <1>5 DEF EnterControl, Start, Startable, AtStep, Calls
  <1>6. CASE ActNothing \/ ActStop \/ ActCommand \/ ActFails \/ ActSteps
    <2>1. ~Over /\ Node \in reached' /\ stack # <<>>
      BY <1>6 DEF ActNothing, Acting, ActStop, ActCommand, ActFails, ActSteps, PlaceInv, LeafPcs,
         JInv, CallInProgress, Alive
    <2>2. \/ UNCHANGED stack \/ Calls
          \/ stack' \in {ReplaceTop(Advance(Top)), ReplaceTop(Fail(Top)),
                         ReplaceTop(Fail([Top EXCEPT !.at = Len(Body) + 1]))}
      BY <1>6, <2>1 DEF ActNothing, ActStop, ActCommand, ActFails, ActSteps, Calls
    <2>3. CASE stack' \in {ReplaceTop(Advance(Top)), ReplaceTop(Fail(Top))}
      BY <2>1, <2>3, <1>0, MovedFrame, MarkedFrame DEF TopMoves
    <2>4. CASE stack' = ReplaceTop(Fail([Top EXCEPT !.at = Len(Body) + 1]))
      <3> DEFINE f == Fail([Top EXCEPT !.at = Len(Body) + 1])
      <3>1. Goes(Top, f) /\ f.at = Len(Body) + 1 /\ f.failed
        BY <1>0, MovedFrame
      <3>2. f \in FrameType
        BY <2>1, FrameTypes DEF JInv
      <3> HIDE DEF f
      <3> QED
        BY <2>1, <2>4, <3>1, <3>2, <1>0 DEF TopMoves, f
    <2> QED
      BY <2>2, <2>3, <2>4
  <1> QED
    BY <1>1, <1>2, <1>3, <1>4, <1>5, <1>6 DEF Forward, HeadStep, LeafStep

LEMMA ForwardPlain ==
  ASSUME JInv, Forward
  PROVE  /\ UNCHANGED <<playbook, process, cancelled, cut, verdict>>
         /\ Alive /\ Alive' /\ stack # <<>> /\ pc' # "connect"
         /\ reached \subseteq reached' /\ trouble \subseteq trouble'
  <1> USE DEF history, processVars
  <1>1. CASE HeadStep
    BY <1>1 DEF Forward, HeadStep, Connect, SkipCompleted, StartInterrupted, RejectStep,
       RefuseRepeat,
       EnterControl, Approve, Deny, ProbeSucceeds, ProbeFails, BeginLeaf, Start, Startable,
       AtStep, Note, JInv, CallInProgress, Alive
  <1>2. CASE LeafStep
    BY <1>2 DEF LeafStep, RecordIntent, IntentFails, NoSession, Execute, ExecuteFails,
       EndsWithoutPrompt, RecordCompleted, CompletedFails, OutputRejected, NoValidation,
       ValidationPasses, ValidationFails, ValidationErrs, ActNothing, Acting, ActStop,
       SendCommand, ActCommand, ActFails, ActSteps, Note, JInv, CallInProgress, Alive
  <1> QED
    BY <1>1, <1>2 DEF Forward

\* What went wrong is noted together with a mark on the call.
LEMMA ForwardTrouble ==
  ASSUME JInv, PlaceInv, Forward, Top \in FrameType, Len(Body) \in Nat
  PROVE  \/ UNCHANGED trouble
         \/ /\ Note /\ ~Over
            /\ \E f \in FrameType : stack' = ReplaceTop(f) /\ (f.failed \/ f.bad)
  <1> USE DEF history
  <1>0. Len(Body) + 1 \in Nat \ {0}
    OBVIOUS
  <1>1. CASE RejectStep \/ RefuseRepeat \/ Deny \/ ProbeFails
    <2>1. ~Over /\ Note /\ stack' \in {ReplaceTop(Fail(Top)), ReplaceTop(Advance(Fail(Top)))}
      BY <1>1 DEF RejectStep, RefuseRepeat, Deny, ProbeFails, AtStep, Start, Startable
    <2> QED
      BY <2>1, <1>0, MovedFrame, MarkedFrame
  <1>2. CASE \/ IntentFails \/ NoSession \/ ExecuteFails \/ CompletedFails \/ OutputRejected
             \/ ValidationFails \/ ValidationErrs \/ ActFails
    <2>1. Note /\ pc \in LeafPcs
      BY <1>2 DEF IntentFails, NoSession, ExecuteFails, CompletedFails, OutputRejected,
         ValidationFails, ValidationErrs, ActFails, LeafPcs
    <2>2. stack' \in {ReplaceTop(Fail(Top)), ReplaceTop([Top EXCEPT !.bad = TRUE]),
                      ReplaceTop(Fail([Top EXCEPT !.bad = TRUE])),
                      ReplaceTop(Fail([Top EXCEPT !.at = Len(Body) + 1]))}
      BY <1>2 DEF IntentFails, NoSession, ExecuteFails, CompletedFails, OutputRejected,
         ValidationFails, ValidationErrs, ActFails
    <2>3. ~Over /\ stack # <<>>
      BY <2>1 DEF PlaceInv, JInv, CallInProgress, Alive, LeafPcs
    <2> QED
      BY <2>1, <2>2, <2>3, <1>0, MovedFrame, MarkedFrame, FrameTypes DEF JInv
  <1>3. CASE \/ Connect \/ SkipCompleted \/ StartInterrupted \/ EnterControl \/ Approve
             \/ ProbeSucceeds \/ BeginLeaf
    BY <1>3 DEF Connect, SkipCompleted, StartInterrupted, EnterControl, Approve, ProbeSucceeds,
       BeginLeaf
  <1>4. CASE \/ RecordIntent \/ Execute \/ EndsWithoutPrompt \/ RecordCompleted
             \/ NoValidation \/ ValidationPasses
             \/ ActNothing \/ ActStop \/ SendCommand \/ ActCommand \/ ActSteps
    BY <1>4 DEF RecordIntent, Execute, EndsWithoutPrompt, RecordCompleted, NoValidation,
       ValidationPasses, ActNothing, ActStop, SendCommand, ActCommand, ActSteps
  <1> QED
    BY <1>1, <1>2, <1>3, <1>4 DEF Forward, HeadStep, LeafStep

\* A block that is begun is called, or could not be begun.
LEMMA ForwardReached ==
  ASSUME JInv, Forward
  PROVE  \/ UNCHANGED reached
         \/ /\ ~Over /\ reached' = reached \cup {Node}
            /\ Step.kind # "block" \/ Note \/ stack' = <<Frame(Node)>> \o stack
  <1> USE DEF history
  <1>1. CASE SkipCompleted
    BY <1>1 DEF SkipCompleted, AtStep, Skippable, Imperative, ImperativeKinds
  <1>2. CASE \/ RejectStep \/ RefuseRepeat \/ EnterControl \/ Approve \/ Deny \/ ProbeSucceeds
             \/ ProbeFails \/ BeginLeaf
    BY <1>2 DEF RejectStep, RefuseRepeat, EnterControl, Approve, Deny, ProbeSucceeds, ProbeFails,
       BeginLeaf, Start, Startable, AtStep, LeafKinds, ImperativeKinds
  <1>3. CASE Connect \/ StartInterrupted
    BY <1>3 DEF Connect, StartInterrupted
  <1>4. CASE LeafStep
    BY <1>4 DEF LeafStep, RecordIntent, IntentFails, NoSession, Execute, ExecuteFails,
       EndsWithoutPrompt, RecordCompleted, CompletedFails, OutputRejected, NoValidation,
       ValidationPasses, ValidationFails, ValidationErrs, ActNothing, ActStop, SendCommand,
       ActCommand, ActFails, ActSteps
  <1> QED
    BY <1>1, <1>2, <1>3, <1>4 DEF Forward, HeadStep

\* The step at hand stands in the list of the call in progress.
LEMMA TopList ==
  ASSUME JInv, stack # <<>>
  PROVE  /\ Top \in FrameType /\ Top.node \in Nodes /\ Top.part \in Parts /\ Top.at \in Nat \ {0}
         /\ Body = ListOf(playbook, Top) /\ Body \in Seq(Nodes) /\ Len(Body) \in Nat
         /\ DOMAIN Body = 1..Len(Body)
         /\ ~Over => /\ Node \in Nodes /\ Top.at \in DOMAIN Body
                     /\ Node \in Range(playbook[Top.node][Top.part])
         /\ Len(stack) \in Nat \ {0} /\ DOMAIN stack = 1..Len(stack) /\ stack[1] = Top
  <1>1. Top \in FrameType /\ stack \in Seq(FrameType) /\ playbook \in Playbooks
    BY TopType DEF JInv, TypeOK
  <1>2. Top.node \in Nodes /\ Top.part \in Parts /\ Top.at \in Nat \ {0}
    BY <1>1 DEF FrameType, Parts
  <1>3. Body \in Seq(Nodes) /\ (~Over => Node \in Nodes)
    BY NodeType DEF JInv
  <1>4. Len(Body) \in Nat /\ DOMAIN Body = 1..Len(Body)
    BY <1>3, LenProperties
  <1>5. ~Over => Top.at \in DOMAIN Body
    BY <1>2, <1>4 DEF Over
  <1>6. ~Over => Node \in Range(playbook[Top.node][Top.part])
    BY <1>5 DEF Node, Body, Range
  <1>7. Len(stack) \in Nat \ {0} /\ DOMAIN stack = 1..Len(stack)
    BY <1>1, LenProperties, EmptySeq
  <1> QED
    BY <1>1, <1>2, <1>3, <1>4, <1>5, <1>6, <1>7 DEF Body, ListOf, Top

LEMMA ForwardStackInv ==
  ASSUME JInv, StackInv, PlaceInv, Forward
  PROVE  StackInv'
  <1>1. /\ playbook' = playbook /\ stack # <<>> /\ reached \subseteq reached'
        /\ stack \in Seq(FrameType) /\ playbook \in Playbooks
    BY ForwardPlain DEF JInv, TypeOK
  <1>2. Chained(playbook, reached, stack) /\ Chained(playbook, reached', stack)
    BY <1>1, ChainGrows DEF StackInv
  <1>3. SUFFICES Chained(playbook, reached', stack')
    BY <1>1 DEF StackInv
  <1>4. Top \in FrameType /\ Top.at \in Nat \ {0} /\ Len(Body) \in Nat
        /\ Body = ListOf(playbook, Top) /\ DOMAIN Body = 1..Len(Body) /\ stack[1] = Top
        /\ Top.node \in Nodes /\ Top.part \in Parts /\ Body \in Seq(Nodes)
        /\ DOMAIN stack = 1..Len(stack) /\ Len(stack) \in Nat \ {0}
    BY <1>1, TopList
  <1>5. FrameOK(playbook, reached', Top)
    BY <1>2, <1>4 DEF Chained
  <1>6. CASE UNCHANGED stack
    BY <1>2, <1>6
  <1>7. CASE TopMoves
    <2>1. PICK f \in FrameType :
            /\ stack' = ReplaceTop(f) /\ Goes(Top, f)
            /\ \/ f.at = Top.at
               \/ /\ ~Over /\ Node \in reached'
                  /\ f.at = Top.at + 1 \/ (f.at > Len(Body) /\ f.failed)
      BY <1>7 DEF TopMoves
    <2>2. ListOf(playbook, f) = Body
      BY <1>4, <2>1 DEF ListOf, Goes
    <2>3. f.at > 1 /\ Body # <<>> => Body[1] \in reached'
      <3>1. Top.at > 1 /\ Body # <<>> => Body[1] \in reached'
        BY <1>4, <1>5 DEF FrameOK
      <3>2. CASE Top.at = 1 /\ f.at # Top.at
        BY <2>1, <3>2 DEF Node
      <3> QED
        BY <1>4, <2>1, <3>1, <3>2
    <2>4. ~f.failed => \A k \in DOMAIN Body : k < f.at => Body[k] \in reached'
      <3> SUFFICES ASSUME ~f.failed, NEW k \in DOMAIN Body, k < f.at PROVE Body[k] \in reached'
        OBVIOUS
      <3>1. k < Top.at => Body[k] \in reached'
        BY <1>4, <1>5, <2>1 DEF FrameOK, Goes
      <3>2. CASE f.at = Top.at
        BY <3>1, <3>2
      <3>3. CASE f.at = Top.at + 1 /\ Node \in reached'
        <4>1. k < Top.at \/ k = Top.at
          BY <1>4, <3>3
        <4> QED
          BY <3>1, <3>3, <4>1 DEF Node
      <3> QED
        BY <2>1, <3>2, <3>3
    <2>5. FrameOK(playbook, reached', f)
      BY <1>4, <1>5, <2>1, <2>2, <2>3, <2>4 DEF FrameOK, Goes
    <2>6. Len(stack) = 1 => f.part = "steps"
      BY <1>1, <1>2, <1>4, <2>1 DEF Chained, Goes
    <2>7. f.node = stack[1].node
      BY <1>4, <2>1 DEF Goes
    <2> QED
      BY <1>1, <1>2, <2>1, <2>5, <2>6, <2>7, ReplacedAt, ChainReplaced
  <1>8. CASE Calls
    <2>1. ~Over /\ Node \in reached' /\ stack' = <<Frame(Node)>> \o stack
      BY <1>8 DEF Calls
    <2>2. Node \in Nodes /\ Top.at \in DOMAIN Body
      BY <1>1, <2>1, TopList
    <2>3. /\ Frame(Node) \in FrameType /\ Frame(Node).node = Node
          /\ Frame(Node).part = "steps" /\ Frame(Node).at = 1
          /\ ~Frame(Node).stopped /\ ~Frame(Node).lost
      BY <2>2, FrameIsFrame DEF Frame
    <2>4. PICK f \in FrameType : f = Frame(Node)
      BY <2>3
    <2>5. FrameOK(playbook, reached', f)
      <3>1. DOMAIN ListOf(playbook, f) \subseteq Nat \ {0}
        <4>1. playbook[Node] \in StepConfig
          BY <1>1, <2>2, PlaybooksAssumption
        <4>2. playbook[Node].steps \in Seq(Nodes)
          BY <4>1 DEF StepConfig
        <4>3. ListOf(playbook, f) = playbook[Node].steps
          BY <2>3, <2>4 DEF ListOf
        <4> QED
          BY <4>2, <4>3, LenProperties
      <3>2. \A k \in DOMAIN ListOf(playbook, f) : ~(k < f.at)
        BY <3>1, <2>3, <2>4
      <3> QED
        BY <2>3, <2>4, <3>2 DEF FrameOK
    <2>6. CallOK(playbook, reached', stack[1], f)
      BY <1>4, <2>1, <2>2, <2>3, <2>4 DEF CallOK, Node
    <2> QED
      BY <1>1, <1>2, <1>4, <2>1, <2>4, <2>5, <2>6, PushedAt, ChainPushed
  <1> QED
    BY <1>1, <1>4, <1>6, <1>7, <1>8, ForwardStack

\* Every call in progress goes on, whether or not another one is made.
LEMMA ForwardCalls ==
  ASSUME JInv, PlaceInv, Forward, NEW i \in DOMAIN stack
  PROVE  \E j \in DOMAIN stack' : Goes(stack[i], stack'[j])
  <1>1. stack # <<>> /\ stack \in Seq(FrameType)
    BY ForwardPlain DEF JInv, TypeOK
  <1>2. Top \in FrameType /\ Len(Body) \in Nat /\ stack[1] = Top /\ DOMAIN stack = 1..Len(stack)
        /\ Len(stack) \in Nat \ {0} /\ (~Over => Node \in Nodes)
    BY <1>1, TopList
  <1>3. \A f : Goes(f, f)
    BY DEF Goes
  <1>4. CASE UNCHANGED stack
    BY <1>3, <1>4
  <1>5. CASE TopMoves
    <2>1. PICK f \in FrameType : stack' = ReplaceTop(f) /\ Goes(Top, f)
      BY <1>5 DEF TopMoves
    <2>2. i \in DOMAIN stack' /\ (i = 1 \/ stack'[i] = stack[i]) /\ stack'[1] = f
      BY <1>1, <1>2, <2>1, ReplacedAt
    <2> QED
      BY <1>2, <1>3, <2>1, <2>2
  <1>6. CASE Calls
    <2>1. stack' = <<Frame(Node)>> \o stack /\ Frame(Node) \in FrameType
      BY <1>2, <1>6, FrameIsFrame DEF Calls
    <2>2. PICK f \in FrameType : f = Frame(Node)
      BY <2>1
    <2>3. /\ DOMAIN stack' = 1..(Len(stack) + 1)
          /\ \A j \in 2..(Len(stack) + 1) : stack'[j] = stack[j - 1]
      BY <1>1, <2>1, <2>2, PushedAt
    <2>4. i + 1 \in 2..(Len(stack) + 1) /\ i + 1 \in 1..(Len(stack) + 1) /\ (i + 1) - 1 = i
      BY <1>2
    <2> QED
      BY <1>3, <2>3, <2>4
  <1> QED
    BY <1>2, <1>4, <1>5, <1>6, ForwardStack

\* The kept step of a call that is only marked, and of a leaf being executed.
LEMMA ForwardPlace ==
  ASSUME JInv, StackInv, PlaceInv, Forward, LeafReady'
  PROVE  PlaceInv'
  <1>1. /\ playbook' = playbook /\ cancelled' = cancelled /\ stack # <<>> /\ pc' # "connect"
        /\ reached \subseteq reached' /\ Alive' /\ stack \in Seq(FrameType)
        /\ playbook \in Playbooks
    BY ForwardPlain DEF JInv, TypeOK
  <1>2. /\ Top \in FrameType /\ Len(Body) \in Nat /\ Top.node \in Nodes /\ Top.part \in Parts
        /\ ~Over => Node \in Range(playbook[Top.node][Top.part])
    BY <1>1, TopList
  <1>3. Root \notin reached'
    BY <1>1, <1>2, ForwardReached, TreeAssumption DEF PlaceInv
  <1>4. ASSUME pc' \in LeafPcs \/ (pc' = "unwind" /\ ~cancelled)
        PROVE  ~Over' /\ Node' \in reached'
    <2>1. /\ ~Over /\ Node \in reached'
          /\ \/ UNCHANGED stack
             \/ stack' \in {ReplaceTop(Fail(Top)), ReplaceTop([Top EXCEPT !.bad = TRUE]),
                            ReplaceTop(Fail([Top EXCEPT !.bad = TRUE]))}
      <3> USE DEF history
      <3>1. CASE pc' \in LeafPcs
        <4>1. Stays \/ BeginLeaf
          BY <3>1, LeafOrigin, ForwardPlain
          DEF Forward, Stays, HeadStep, LeafStep, Connect, SkipCompleted, StartInterrupted,
              RejectStep, RefuseRepeat, EnterControl, Approve, Deny, ProbeSucceeds, ProbeFails,
              BeginLeaf, AtStep, Start, Startable, ActNothing, ActStop, ActCommand, ActFails,
              ActSteps, LeafPcs
        <4>2. CASE Stays
          <5>1. pc \in LeafPcs /\ reached' = reached
            BY <4>2 DEF Stays, RecordIntent, IntentFails, NoSession, Execute, ExecuteFails,
               EndsWithoutPrompt, RecordCompleted, CompletedFails, OutputRejected, NoValidation,
               ValidationPasses, ValidationFails, ValidationErrs, SendCommand, Acting, LeafPcs
          <5>2. \/ UNCHANGED stack
                \/ stack' \in {ReplaceTop(Fail(Top)), ReplaceTop([Top EXCEPT !.bad = TRUE]),
                               ReplaceTop(Fail([Top EXCEPT !.bad = TRUE]))}
            BY <4>2 DEF Stays, RecordIntent, IntentFails, NoSession, Execute, ExecuteFails,
               EndsWithoutPrompt, RecordCompleted, CompletedFails, OutputRejected, NoValidation,
               ValidationPasses, ValidationFails, ValidationErrs, SendCommand
          <5> QED
            BY <5>1, <5>2 DEF PlaceInv
        <4>3. CASE BeginLeaf
          BY <4>3 DEF BeginLeaf, Start, Startable, AtStep
        <4> QED
          BY <4>1, <4>2, <4>3
      <3>2. CASE pc' = "unwind" /\ ~cancelled
        <4>1. RefuseRepeat \/ Deny \/ ProbeFails \/ ExecuteFails \/ ActStop
          <5>1. CASE HeadStep
            BY <3>2, <5>1 DEF Forward, HeadStep, Connect, SkipCompleted, StartInterrupted,
               RejectStep, EnterControl, Approve, ProbeSucceeds, BeginLeaf, AtStep, Start, Startable
          <5>2. CASE LeafStep
            BY <3>2, <5>2 DEF LeafStep, RecordIntent, IntentFails, NoSession, Execute,
               EndsWithoutPrompt, RecordCompleted, CompletedFails, OutputRejected, NoValidation,
               ValidationPasses, ValidationFails, ValidationErrs, ActNothing, SendCommand,
               ActCommand, ActFails, ActSteps
          <5> QED
            BY <5>1, <5>2 DEF Forward
        <4> QED
          BY <4>1 DEF RefuseRepeat, Deny, ProbeFails, ExecuteFails, ActStop, Acting, Start,
             Startable, AtStep, PlaceInv, LeafPcs
      <3> QED
        BY <1>4, <3>1, <3>2
    <2>2. Top'.node = Top.node /\ Top'.part = Top.part /\ Top'.at = Top.at
      <3>1. UNCHANGED stack => Top' = Top
        BY DEF Top
      <3>2. Top' \in {Top, Fail(Top), [Top EXCEPT !.bad = TRUE], Fail([Top EXCEPT !.bad = TRUE])}
        BY <1>1, <2>1, <3>1, ReplacedTop, MarkedFrame, FrameTypes, <1>2 DEF JInv
      <3>3. 1 \in Nat \ {0}
        OBVIOUS
      <3>4. Goes(Top, Fail(Top)) /\ Fail(Top).at = Top.at
        BY <1>2, <3>3, MovedFrame
      <3>5. Goes(Top, [Top EXCEPT !.bad = TRUE]) /\ [Top EXCEPT !.bad = TRUE].at = Top.at
        BY <1>2, <3>3, MovedFrame
      <3>6. /\ Goes(Top, Fail([Top EXCEPT !.bad = TRUE]))
            /\ Fail([Top EXCEPT !.bad = TRUE]).at = Top.at
        BY <1>2, <3>3, MovedFrame
      <3> QED
        BY <3>2, <3>4, <3>5, <3>6 DEF Goes
    <2>3. Node' = Node /\ Over' = Over
      BY <1>1, <2>2 DEF Node, Body, Over
    <2> QED
      BY <2>1, <2>3
  <1>5. pc' # "exited"
    BY <1>1 DEF Alive
  <1> QED
    BY <1>1, <1>3, <1>4, <1>5 DEF PlaceInv

\* Only a stop or fail that is carried out is told to the callers.
LEMMA GatesOf ==
  ASSUME JInv, [Next]_vars, NEW c \in closed', c \notin closed
  PROVE  c.process = process /\ process' = process /\ (c.told => ActStop)
  <1> USE DEF history, processVars
  <1>1. CASE HeadStep
    BY <1>1 DEF HeadStep, Connect, ConnectFails, SkipCompleted, StartInterrupted, RejectStep,
       RefuseRepeat, EnterControl, Approve, Deny, ProbeSucceeds, ProbeFails, BeginLeaf
  <1>2. CASE ActNothing \/ ActStop \/ ActCommand \/ ActFails \/ ActSteps
    <2>1. PICK told \in BOOLEAN :
            /\ c = [gate |-> Instance, process |-> process, result |-> result, told |-> told]
            /\ process' = process /\ (told => ActStop)
      BY <1>2 DEF ActNothing, ActStop, ActCommand, ActFails, ActSteps, CloseGate
    <2> QED
      BY <2>1
  <1>3. CASE LeafStep /\ ~(ActNothing \/ ActStop \/ ActCommand \/ ActFails \/ ActSteps)
    BY <1>3 DEF LeafStep, RecordIntent, IntentFails, NoSession, Execute, ExecuteFails,
       EndsWithoutPrompt, RecordCompleted, CompletedFails, OutputRejected, NoValidation,
       ValidationPasses, ValidationFails, ValidationErrs, SendCommand
  <1>4. CASE EndStep
    BY <1>4 DEF EndStep, EndUse, EndLoop, NextIteration, EndSteps, EndRecovery, EndAlways,
       EndRun, RecoveryIsCut, OnlyCallsChange
  <1>5. CASE Interrupt \/ Crash \/ Resume \/ RefuseResume \/ Rest \/ UNCHANGED vars
    BY <1>5 DEF Interrupt, Crash, Resume, RefuseResume, Rest, vars
  <1> QED
    BY <1>1, <1>2, <1>3, <1>4, <1>5 DEF Next, ProcessStep

LEMMA ForwardGate ==
  ASSUME JInv, [Next]_vars, PlaceInv, GateInv, Forward
  PROVE  GateInv'
  <1>1. /\ process' = process /\ Alive /\ process \in Nat
    BY ForwardPlain, BoundsAssumption DEF JInv, TypeOK
  <1>2. ASSUME NEW c \in closed' PROVE c.process \in Nat /\ c.process <= process'
    BY <1>1, GatesOf DEF GateInv
  <1>3. ASSUME NEW c \in closed', c.told, c.process = process'
        PROVE  pc' = "unwind" \/ \E i \in DOMAIN stack' : stack'[i].stopped
    <2>1. CASE ActStop
      BY <2>1 DEF ActStop
    <2>2. CASE c \in closed
      <3>1. pc = "unwind" \/ \E i \in DOMAIN stack : stack[i].stopped
        BY <1>1, <1>3, <2>2 DEF GateInv, StoppedBy
      <3>2. pc # "unwind"
        BY DEF Forward, HeadStep, LeafStep, Connect, SkipCompleted, StartInterrupted, RejectStep,
           RefuseRepeat, EnterControl, Approve, Deny, ProbeSucceeds, ProbeFails, BeginLeaf, Start,
           Startable, AtStep, RecordIntent, IntentFails, NoSession, Execute, ExecuteFails,
           EndsWithoutPrompt, RecordCompleted, CompletedFails, OutputRejected, NoValidation,
           ValidationPasses, ValidationFails, ValidationErrs, ActNothing, Acting, ActStop,
           SendCommand, ActCommand, ActFails, ActSteps
      <3> QED
        BY <3>1, <3>2, ForwardCalls DEF Goes
    <2> QED
      BY <1>3, <2>1, <2>2, GatesOf
  <1> QED
    BY <1>2, <1>3 DEF GateInv, StoppedBy

LEMMA ForwardCleanup ==
  ASSUME JInv, StackInv, PlaceInv, CleanupInv, Forward
  PROVE  CleanupInv'
  <1>1. /\ playbook' = playbook /\ cancelled' = cancelled /\ stack # <<>>
        /\ reached \subseteq reached' /\ trouble \subseteq trouble' /\ Alive
        /\ stack \in Seq(FrameType)
    BY ForwardPlain DEF JInv, TypeOK
  <1> SUFFICES ASSUME ~cancelled, NEW b \in reached', b \notin Troubled', playbook[b].kind = "block"
               PROVE  Cleaned(b)' \/ \E i \in DOMAIN stack' : stack'[i].node = b
    BY <1>1 DEF CleanupInv
  <1>2. CASE b \in reached
    <2>1. b \notin Troubled
      BY <1>1 DEF Troubled
    <2>2. Cleaned(b) \/ \E i \in DOMAIN stack : stack[i].node = b
      BY <1>1, <1>2, <2>1 DEF CleanupInv, Alive
    <2>3. CASE Cleaned(b)
      BY <1>1, <2>3 DEF Cleaned
    <2>4. CASE \E i \in DOMAIN stack : stack[i].node = b
      BY <2>4, ForwardCalls DEF Goes
    <2> QED
      BY <2>2, <2>3, <2>4
  <1>3. CASE b \notin reached
    <2>1. /\ b = Node /\ ~Over
          /\ Step.kind # "block" \/ Note \/ stack' = <<Frame(Node)>> \o stack
      BY <1>3, ForwardReached
    <2>2. Note => b \in Troubled'
      BY <2>1 DEF Note, Troubled
    <2>3. stack' = <<Frame(Node)>> \o stack
      BY <2>1, <2>2 DEF Step
    <2>4. Node \in Nodes
      BY <1>1, <2>1, TopList
    <2>5. PICK f \in FrameType : f = Frame(Node)
      BY <2>4, FrameIsFrame
    <2>6. stack'[1] = f /\ 1 \in DOMAIN stack'
      BY <1>1, <2>3, <2>5, PushedAt
    <2> QED
      BY <2>1, <2>5, <2>6 DEF Frame
  <1> QED
    BY <1>2, <1>3

(* The tree of steps *)

LEMMA OneList ==
  ASSUME NEW p \in Playbooks, NEW m \in Nodes, NEW k \in Nodes, NEW part \in Parts,
         NEW other \in Parts, NEW n, n \in Range(p[m][part]), n \in Range(p[k][other])
  PROVE  m = k /\ part = other
  <1>1. Range(p[m][part]) \cap Range(p[k][other]) # {}
    OBVIOUS
  <1> QED
    BY <1>1, TreeAssumption

LEMMA InsideList ==
  ASSUME NEW p \in Playbooks, NEW m \in Nodes, NEW part \in Parts, NEW n, n \in Range(p[m][part])
  PROVE  Inside(p, n) = Inside(p, m) \cup (IF part = "steps" THEN {m} ELSE {})
  BY TreeAssumption

LEMMA InsideDeep ==
  ASSUME NEW p \in Playbooks, NEW n \in Nodes
  PROVE  n \notin Inside(p, n) /\ \A m \in Inside(p, n) : Inside(p, m) \subseteq Inside(p, n)
  BY TreeAssumption

LEMMA ReplacedCall ==
  ASSUME JInv, PlaceInv, Forward, NEW f \in FrameType, stack' = ReplaceTop(f)
  PROVE  Goes(Top, f)
  <1>1. /\ stack # <<>> /\ stack \in Seq(FrameType) /\ Top \in FrameType /\ Len(Body) \in Nat
        /\ ~Over => Node \in Nodes
    BY ForwardPlain, TopList DEF JInv, TypeOK
  <1>2. Len(stack') = Len(stack) /\ Len(stack) \in Nat /\ stack'[1] = f
    BY <1>1, ReplacedAt
  <1>3. CASE UNCHANGED stack
    BY <1>2, <1>3 DEF Top, Goes
  <1>4. CASE TopMoves
    BY <1>1, <1>2, <1>4, ReplacedAt DEF TopMoves
  <1>5. CASE Calls
    <2>1. stack' = <<Frame(Node)>> \o stack /\ Frame(Node) \in FrameType
      BY <1>1, <1>5, FrameIsFrame DEF Calls
    <2>2. Len(stack') = Len(stack) + 1
      BY <1>1, <2>1, PushedAt
    <2> QED
      BY <1>2, <2>2
  <1> QED
    BY <1>1, <1>3, <1>4, <1>5, ForwardStack

LEMMA AnswersOn ==
  ASSUME NEW p, NEW f, NEW g, NEW n, Goes(f, g), Answers(p, f, n)
  PROVE  Answers(p, g, n)
  BY Zenon DEF Goes, Answers

\* What the log of failures says of the step at hand is where it stands.
LEMMA NotedPlace ==
  ASSUME JInv, StackInv, stack # <<>>, ~Over
  PROVE  EnclosingBlocks = Inside(playbook, Node) /\ EnclosingBlocks \subseteq Nodes
  <1>1. /\ stack \in Seq(FrameType) /\ playbook \in Playbooks
        /\ DOMAIN stack = 1..Len(stack) /\ Len(stack) \in Nat \ {0} /\ stack[1] = Top
        /\ Top.node \in Nodes /\ Top.part \in Parts
        /\ Node \in Range(playbook[Top.node][Top.part])
    BY TopList DEF JInv, TypeOK
  <1>2. Inside(playbook, Node) = Inside(playbook, Top.node)
                                   \cup (IF Top.part = "steps" THEN {Top.node} ELSE {})
    BY <1>1, TreeAssumption
  <1>3. Inside(playbook, Top.node) = Around(stack, 1)
    BY <1>1 DEF StackInv, Chained
  <1>4. EnclosingBlocks = Around(stack, 1) \cup (IF Top.part = "steps" THEN {Top.node} ELSE {})
    <2> SUFFICES ASSUME NEW m
                 PROVE  m \in EnclosingBlocks
                          <=> m \in Around(stack, 1) \/ (Top.part = "steps" /\ m = Top.node)
      OBVIOUS
    <2>1. m \in EnclosingBlocks
            <=> \E j \in 1..Len(stack) : stack[j].part = "steps" /\ m = stack[j].node
      BY <1>1 DEF EnclosingBlocks
    <2>2. m \in Around(stack, 1)
            <=> \E j \in 1..Len(stack) : j > 1 /\ stack[j].part = "steps" /\ m = stack[j].node
      BY <1>1 DEF Around
    <2>3. 1 \in 1..Len(stack) /\ \A j \in 1..Len(stack) : j = 1 \/ j > 1
      BY <1>1
    <2> QED
      BY <1>1, <2>1, <2>2, <2>3
  <1>5. ASSUME NEW j \in DOMAIN stack PROVE stack[j].node \in Nodes
    <2>1. stack[j] \in FrameType
      BY <1>1, ElementOfSeq
    <2> QED
      BY <2>1 DEF FrameType
  <1>6. EnclosingBlocks \subseteq Nodes
    BY <1>5 DEF EnclosingBlocks
  <1> QED
    BY <1>2, <1>3, <1>4, <1>6

LEMMA ForwardTroubleInv ==
  ASSUME JInv, StackInv, PlaceInv, TroubleInv, Forward
  PROVE  TroubleInv'
  <1>1. /\ playbook' = playbook /\ cancelled' = cancelled /\ cut' = cut /\ stack # <<>>
        /\ reached \subseteq reached' /\ Alive
        /\ stack \in Seq(FrameType) /\ playbook \in Playbooks
    BY ForwardPlain DEF JInv, TypeOK
  <1>2. /\ Top \in FrameType /\ Len(Body) \in Nat /\ Top.node \in Nodes /\ Top.part \in Parts
        /\ ~Over => Node \in Nodes /\ Node \in Range(playbook[Top.node][Top.part])
    BY <1>1, TopList
  <1>3. \/ UNCHANGED trouble
        \/ /\ trouble' = trouble \cup {[node |-> Node, within |-> Inside(playbook, Node)]}
           /\ ~Over /\ Inside(playbook, Node) \subseteq Nodes
           /\ \E f \in FrameType : stack' = ReplaceTop(f) /\ (f.failed \/ f.bad)
    <2>1. CASE UNCHANGED trouble
      BY <2>1
    <2>2. CASE trouble' # trouble
      <3>1. /\ Note /\ ~Over
            /\ \E f \in FrameType : stack' = ReplaceTop(f) /\ (f.failed \/ f.bad)
        BY <1>1, <1>2, <2>2, ForwardTrouble
      <3>2. EnclosingBlocks = Inside(playbook, Node) /\ EnclosingBlocks \subseteq Nodes
        BY <1>1, <3>1, NotedPlace
      <3> QED
        BY <3>1, <3>2 DEF Note
    <2> QED
      BY <2>1, <2>2
  <1>4. ASSUME NEW t \in trouble'
        PROVE  t.node \in Nodes /\ t.within = Inside(playbook, t.node) /\ t.within \subseteq Nodes
    <2>1. CASE t \in trouble
      BY <2>1 DEF TroubleInv
    <2>2. CASE t \notin trouble
      <3>1. t = [node |-> Node, within |-> Inside(playbook, Node)] /\ ~Over
        BY <1>3, <1>4, <2>2
      <3>2. Inside(playbook, Node) \subseteq Nodes
        BY <1>3, <1>4, <2>2
      <3>3. Node \in Nodes
        BY <1>2, <3>1
      <3>4. t.node = Node /\ t.within = Inside(playbook, Node)
        BY <3>1
      <3> QED
        BY <3>2, <3>3, <3>4
    <2> QED
      BY <2>1, <2>2
  <1>5. ASSUME ~cancelled, NEW n \in Troubled'
        PROVE  MadeGood(n)' \/ \E i \in DOMAIN stack' : Answers(playbook, stack'[i], n)
    <2>1. CASE n \in Troubled /\ \E i \in DOMAIN stack : Answers(playbook, stack[i], n)
      <3>1. PICK i \in DOMAIN stack : Answers(playbook, stack[i], n)
        BY <2>1
      <3>2. PICK j \in DOMAIN stack' : Goes(stack[i], stack'[j])
        BY ForwardCalls
      <3> QED
        BY <3>1, <3>2, AnswersOn
    <2>2. CASE n \in Troubled /\ MadeGood(n)
      <3>1. PICK b \in Inside(playbook, n) : RecoveredBy(b)
        BY <2>2 DEF MadeGood
      <3>2. n \in Nodes /\ b \in Nodes
        BY <2>2, <3>1 DEF TroubleInv, Troubled
      <3>3. CASE Range(playbook[b].recovery) \cap Troubled' = {}
        <4>1. RecoveredBy(b)'
          BY <1>1, <3>1, <3>3 DEF RecoveredBy
        <4> QED
          BY <1>1, <3>1, <4>1 DEF MadeGood
      <3>4. CASE Range(playbook[b].recovery) \cap Troubled' # {}
        <4>1. Range(playbook[b].recovery) \cap Troubled = {}
          BY <3>1 DEF RecoveredBy
        <4>2. Node \in Range(playbook[b].recovery) /\ trouble' # trouble
          BY <1>3, <3>4, <4>1 DEF Troubled
        <4>3. PICK f \in FrameType : stack' = ReplaceTop(f) /\ (f.failed \/ f.bad)
          BY <1>3, <4>2
        <4>4. ~Over
          BY <1>3, <4>2
        <4>5. b = Top.node /\ Top.part = "recovery"
          <5>1. "recovery" \in Parts /\ Node \in Range(playbook[b]["recovery"])
            BY <4>2 DEF Parts
          <5>2. Node \in Range(playbook[Top.node][Top.part])
            BY <1>2, <4>4
          <5>3. playbook \in Playbooks /\ Top.node \in Nodes /\ Top.part \in Parts
            BY <1>1, <1>2
          <5> QED
            BY <3>2, <5>1, <5>2, <5>3, OneList, Zenon
        <4>6. 1 \in DOMAIN stack' /\ stack'[1] = f
          BY <1>1, <4>3, ReplacedAt
        <4>7. f.node = Top.node /\ f.part = Top.part
          BY <4>3, ReplacedCall DEF Goes
        <4>8. Inside(playbook, b) \subseteq Inside(playbook, n)
          BY <1>1, <3>1, <3>2, TreeAssumption
        <4>9. Answers(playbook, f, n)
          BY <4>3, <4>5, <4>7, <4>8, Zenon DEF Answers
        <4> QED
          BY <4>6, <4>9
      <3> QED
        BY <3>3, <3>4
    <2>3. CASE n \notin Troubled
      <3>1. n = Node /\ trouble' # trouble /\ ~Over
        BY <1>3, <2>3 DEF Troubled
      <3>2. PICK f \in FrameType : stack' = ReplaceTop(f) /\ (f.failed \/ f.bad)
        BY <1>3, <3>1
      <3>3. 1 \in DOMAIN stack' /\ stack'[1] = f
        BY <1>1, <3>2, ReplacedAt
      <3>4. f.node = Top.node /\ f.part = Top.part
        BY <3>2, ReplacedCall DEF Goes
      <3>5. Inside(playbook, n) = Inside(playbook, Top.node)
                                    \cup (IF Top.part = "steps" THEN {Top.node} ELSE {})
        BY <1>1, <1>2, <3>1, InsideList
      <3>6. Answers(playbook, f, n)
        BY <3>2, <3>4, <3>5 DEF Answers
      <3> QED
        BY <3>3, <3>6
    <2>4. n \in Troubled => MadeGood(n) \/ \E i \in DOMAIN stack : Answers(playbook, stack[i], n)
      BY <1>1, <1>5 DEF TroubleInv
    <2> QED
      BY <2>1, <2>2, <2>3, <2>4
  <1> QED
    BY <1>1, <1>4, <1>5 DEF TroubleInv

-----------------------------------------------------------------------------
(* Steps that end a call *)

Returns == EndUse \/ EndLoop \/ EndAlways

\* The caller after a call: it takes on what the call says, and goes on or stops.
Informs(f, failed, stop) ==
  /\ f \in FrameType /\ stack' = <<f>> \o Tail(Tail(stack))
  /\ Goes(Parent, f)
  /\ failed => f.failed \/ f.bad
  /\ stop => f.at = Parent.at /\ pc' = "unwind"
  /\ ~stop => f.at = Parent.at + 1 /\ pc' = "step"

LEMMA Informed ==
  ASSUME stack \in Seq(FrameType), Len(stack) > 1, NEW a \in BOOLEAN, NEW b \in BOOLEAN,
         NEW stop \in BOOLEAN, Return(a, b, stop)
  PROVE  \E f : Informs(f, a \/ b, stop)
  <1>1. Parent \in FrameType
    BY LenProperties, ElementOfSeq DEF Parent
  <1>2. PICK g : g = [Parent EXCEPT !.failed = @ \/ a, !.bad = @ \/ b]
    OBVIOUS
  <1>3. g \in FrameType /\ Advance(g) \in FrameType
    BY <1>2, ParentType
  <1>4. /\ g.node = Parent.node /\ g.part = Parent.part /\ g.stopped = Parent.stopped
        /\ g.lost = Parent.lost /\ g.at = Parent.at
        /\ g.failed = (Parent.failed \/ a) /\ g.bad = (Parent.bad \/ b)
    BY <1>1, <1>2 DEF FrameType
  <1>5. Goes(Parent, g) /\ (a => g.failed) /\ (b => g.bad)
    BY <1>4, Zenon DEF Goes
  <1>6. Goes(g, Advance(g)) /\ Advance(g).at = g.at + 1
    <2>1. 1 \in Nat \ {0}
      OBVIOUS
    <2> QED
      BY <1>3, <2>1, MovedFrame
  <1>7. Goes(Parent, Advance(g)) /\ (a => Advance(g).failed) /\ (b => Advance(g).bad)
    BY <1>5, <1>6, Zenon DEF Goes
  <1>8. /\ stack' = <<IF stop THEN g ELSE Advance(g)>> \o Tail(Tail(stack))
        /\ pc' = IF stop THEN "unwind" ELSE "step"
    BY <1>2 DEF Return, Pop
  <1>9. CASE stop
    <2>1. Informs(g, a \/ b, stop)
      BY <1>3, <1>4, <1>5, <1>8, <1>9 DEF Informs
    <2> QED
      BY <2>1
  <1>10. CASE ~stop
    <2>1. Informs(Advance(g), a \/ b, stop)
      BY <1>3, <1>4, <1>6, <1>7, <1>8, <1>10 DEF Informs
    <2> QED
      BY <2>1
  <1> QED
    BY <1>9, <1>10

LEMMA EndPlain ==
  ASSUME EndStep
  PROVE  /\ UNCHANGED <<playbook, process, cancelled, reached, trouble, closed>>
         /\ AtEnd /\ (EndRecovery \/ UNCHANGED cut) /\ (EndRun \/ (Inner /\ UNCHANGED verdict))
  BY DEF EndStep, EndUse, EndLoop, NextIteration, EndSteps, EndRecovery, EndAlways, EndRun,
     RecoveryIsCut, OnlyCallsChange, processVars, history

\* A call that ends is one of a living process.
LEMMA EndAlive ==
  ASSUME AtEnd
  PROVE  Alive /\ stack # <<>> /\ pc \notin LeafPcs /\ pc # "connect"
  BY EmptySeq DEF AtEnd, Halted, Alive, LeafPcs

\* A part that is left was begun, and is complete if nothing failed or said stop.
LEMMA EndedPart ==
  ASSUME JInv, StackInv, PlaceInv, AtEnd
  PROVE  /\ ~cancelled /\ Body # <<>> => Body[1] \in reached
         /\ ~Halted /\ ~Top.failed => Range(Body) \subseteq reached
  <1>1. stack # <<>> /\ (Halted \/ Over)
    BY EmptySeq DEF AtEnd
  <1>2. /\ Top.at \in Nat \ {0} /\ Body = ListOf(playbook, Top) /\ Len(Body) \in Nat
        /\ DOMAIN Body = 1..Len(Body) /\ Body \in Seq(Nodes) /\ stack[1] = Top
        /\ 1 \in DOMAIN stack
    BY <1>1, TopList
  <1>3. FrameOK(playbook, reached, Top)
    BY <1>2 DEF StackInv, Chained
  <1>4. Body # <<>> => Len(Body) > 0
    BY <1>2, EmptySeq
  <1>5. CASE Halted
    <2>1. ~cancelled => Node \in reached
      BY <1>5 DEF PlaceInv, Halted
    <2>2. Top.at = 1 \/ Top.at > 1
      BY <1>2
    <2> QED
      BY <1>2, <1>3, <1>5, <2>1, <2>2 DEF FrameOK, Node
  <1>6. CASE Over
    <2>1. Top.at > Len(Body)
      BY <1>6 DEF Over
    <2>2. Body # <<>> => Top.at > 1
      BY <1>2, <1>4, <2>1
    <2>3. \A k \in DOMAIN Body : k < Top.at
      BY <1>2, <2>1
    <2> QED
      BY <1>2, <1>3, <2>2, <2>3 DEF FrameOK, Range
  <1> QED
    BY <1>1, <1>5, <1>6

\* The two innermost calls.
LEMMA TopTwo ==
  ASSUME JInv, StackInv, Inner, stack # <<>>
  PROVE  /\ Top \in FrameType /\ Parent \in FrameType
         /\ Len(stack) \in Nat /\ Len(stack) > 1 /\ DOMAIN stack = 1..Len(stack)
         /\ stack \in Seq(FrameType) /\ playbook \in Playbooks
         /\ stack[1] = Top /\ stack[2] = Parent
         /\ FrameOK(playbook, reached, Top) /\ FrameOK(playbook, reached, Parent)
         /\ CallOK(playbook, reached, Parent, Top)
         /\ Top.node \in Nodes /\ Parent.node \in Nodes /\ Parent.part \in Parts
         /\ Parent.at \in Nat \ {0} /\ ListOf(playbook, Parent) \in Seq(Nodes)
         /\ Inside(playbook, Top.node)
              = Inside(playbook, Parent.node)
                  \cup (IF Parent.part = "steps" THEN {Parent.node} ELSE {})
  <1>1. /\ Len(stack) \in Nat /\ Len(stack) > 1 /\ DOMAIN stack = 1..Len(stack)
        /\ stack \in Seq(FrameType) /\ playbook \in Playbooks
    BY LenProperties DEF Inner, JInv, TypeOK
  <1>2. 1 \in DOMAIN stack /\ 1 + 1 \in DOMAIN stack /\ 1 + 1 = 2
    BY <1>1
  <1>3. stack[1] = Top /\ stack[2] = Parent /\ Top \in FrameType /\ Parent \in FrameType
    BY <1>1, <1>2, ElementOfSeq DEF Top, Parent
  <1>4. FrameOK(playbook, reached, Top) /\ FrameOK(playbook, reached, Parent)
    BY <1>2, <1>3 DEF StackInv, Chained
  <1>5. CallOK(playbook, reached, Parent, Top)
    <2>1. CallOK(playbook, reached, stack[1 + 1], stack[1])
      BY <1>2 DEF StackInv, Chained
    <2> QED
      BY <1>2, <1>3, <2>1
  <1>6. Top.node \in Nodes /\ Parent.node \in Nodes /\ Parent.part \in Parts /\ Parent.at \in Nat \ {0}
    BY <1>3 DEF FrameType, Parts
  <1>7. ListOf(playbook, Parent) \in Seq(Nodes)
    <2>1. playbook[Parent.node] \in StepConfig
      BY <1>1, <1>6, PlaybooksAssumption
    <2> QED
      BY <1>6, <2>1 DEF ListOf, StepConfig, Parts
  <1>8. Top.node \in Range(playbook[Parent.node][Parent.part])
    BY <1>5 DEF CallOK, ListOf, Range
  <1> QED
    BY <1>1, <1>3, <1>4, <1>5, <1>6, <1>7, <1>8, InsideList

\* A call goes past the step it made a call for.
LEMMA FrameAdvanced ==
  ASSUME NEW p, NEW r, NEW f, NEW g, Goes(f, g), FrameOK(p, r, f), f.at \in Nat \ {0},
         ListOf(p, f) \in Seq(Nodes),
         \/ g.at = f.at
         \/ g.at = f.at + 1 /\ ListOf(p, f)[f.at] \in r
  PROVE  FrameOK(p, r, g)
  <1>1. ListOf(p, g) = ListOf(p, f)
    BY DEF ListOf, Goes
  <1>2. DOMAIN ListOf(p, f) \subseteq Nat
    BY LenProperties
  <1>3. g.at > 1 /\ ListOf(p, f) # <<>> => ListOf(p, f)[1] \in r
    <2>1. f.at = 1 \/ f.at > 1
      OBVIOUS
    <2> QED
      BY <2>1 DEF FrameOK
  <1>4. ASSUME ~g.failed, NEW k \in DOMAIN ListOf(p, f), k < g.at PROVE ListOf(p, f)[k] \in r
    <2>1. ~f.failed
      BY <1>4 DEF Goes
    <2>2. k < f.at \/ (k = f.at /\ g.at = f.at + 1)
      BY <1>2, <1>4
    <2> QED
      BY <2>1, <2>2 DEF FrameOK
  <1> QED
    BY <1>1, <1>3, <1>4 DEF FrameOK, Goes

\* What a call that returns tells its caller.
LEMMA ReturnsFacts ==
  ASSUME JInv, StackInv, Returns
  PROVE  /\ Inner /\ AtEnd
         /\ Top.part # "steps" => Top.part = "always"
         /\ Kind = "block" => Top.part = "always"
         /\ \E f, failed, stop :
              /\ Informs(f, failed, stop)
              /\ Top.failed \/ Top.bad \/ Top.lost => failed
              /\ Halted \/ Top.stopped => stop
  <1>1. Inner /\ AtEnd /\ stack # <<>>
    BY EmptySeq DEF Returns, EndUse, EndLoop, EndAlways, AtEnd
  <1>2. /\ Len(stack) > 1 /\ stack \in Seq(FrameType) /\ FrameOK(playbook, reached, Top)
        /\ Top \in FrameType
    BY <1>1, TopTwo
  <1>3. /\ Top.failed \in BOOLEAN /\ Top.bad \in BOOLEAN /\ Top.lost \in BOOLEAN
        /\ Top.owed \in BOOLEAN /\ Top.stopped \in BOOLEAN /\ Halted \in BOOLEAN
    BY <1>1, FrameTypes DEF Halted, JInv
  <1>4. \A c, d \in BOOLEAN : (c \/ d) \in BOOLEAN
    BY Zenon
  <1>5. Lost \in BOOLEAN
    BY <1>3, <1>4, Zenon DEF Lost
  <1>6. CASE EndUse \/ EndLoop
    <2>1. Kind # "block" /\ Return(Top.failed, Top.bad, Halted)
      BY <1>6 DEF EndUse, EndLoop
    <2>2. Top.part = "steps" /\ ~Top.stopped /\ ~Top.lost
      BY <1>2, <2>1 DEF FrameOK, Kind
    <2>3. PICK f : Informs(f, Top.failed \/ Top.bad, Halted)
      BY <1>2, <1>3, <2>1, Informed
    <2> QED
      BY <1>1, <2>1, <2>2, <2>3
  <1>7. CASE EndAlways
    <2>1. Top.part = "always" /\ Return(Top.lost \/ Lost, Top.owed \/ Top.bad, Top.stopped \/ Halted)
      BY <1>7 DEF EndAlways
    <2>2. /\ (Top.lost \/ Lost) \in BOOLEAN /\ (Top.owed \/ Top.bad) \in BOOLEAN
          /\ (Top.stopped \/ Halted) \in BOOLEAN
      BY <1>3, <1>4, <1>5, Zenon
    <2>3. PICK f : Informs(f, (Top.lost \/ Lost) \/ (Top.owed \/ Top.bad), Top.stopped \/ Halted)
      BY <1>2, <2>1, <2>2, Informed
    <2>4. Top.failed \/ Top.bad \/ Top.lost => (Top.lost \/ Lost) \/ (Top.owed \/ Top.bad)
      BY DEF Lost
    <2> QED
      BY <1>1, <2>1, <2>3, <2>4
  <1> QED
    BY <1>6, <1>7 DEF Returns

\* A recovery that happened still counts when nothing goes wrong any more.
LEMMA RecoveredOn ==
  ASSUME NEW n, MadeGood(n), playbook' = playbook, trouble' = trouble, reached \subseteq reached',
         cut \subseteq cut'
  PROVE  MadeGood(n)'
  BY DEF MadeGood, RecoveredBy, Troubled

LEMMA ReturnsKept ==
  ASSUME JInv, VInv, Returns
  PROVE  VInv'
  <1>1. /\ UNCHANGED <<playbook, process, cancelled, reached, trouble, closed, cut>>
        /\ Alive /\ stack # <<>>
    <2>1. EndStep /\ ~EndRecovery /\ AtEnd
      BY EndPlain DEF Returns, EndStep, EndUse, EndLoop, EndAlways, EndRecovery, Kind
    <2> QED
      BY <2>1, EndPlain, EndAlive
  <1>2. Inner /\ AtEnd /\ (Kind = "block" => Top.part = "always")
    BY ReturnsFacts DEF VInv
  <1>3. /\ Top \in FrameType /\ Parent \in FrameType
        /\ Len(stack) \in Nat /\ Len(stack) > 1 /\ DOMAIN stack = 1..Len(stack)
        /\ stack \in Seq(FrameType) /\ playbook \in Playbooks
        /\ stack[1] = Top /\ stack[2] = Parent
        /\ FrameOK(playbook, reached, Top) /\ FrameOK(playbook, reached, Parent)
        /\ CallOK(playbook, reached, Parent, Top)
        /\ Top.node \in Nodes /\ Parent.node \in Nodes /\ Parent.part \in Parts
        /\ Parent.at \in Nat \ {0} /\ ListOf(playbook, Parent) \in Seq(Nodes)
        /\ Inside(playbook, Top.node)
             = Inside(playbook, Parent.node)
                 \cup (IF Parent.part = "steps" THEN {Parent.node} ELSE {})
    BY <1>1, <1>2, TopTwo DEF VInv
  <1>4. PICK f, failed, stop :
          /\ Informs(f, failed, stop)
          /\ Top.failed \/ Top.bad \/ Top.lost => failed
          /\ Halted \/ Top.stopped => stop
    BY ReturnsFacts DEF VInv
  <1>5. /\ f \in FrameType /\ stack' = <<f>> \o Tail(Tail(stack)) /\ Goes(Parent, f)
        /\ failed => f.failed \/ f.bad
        /\ stop => f.at = Parent.at /\ pc' = "unwind"
        /\ ~stop => f.at = Parent.at + 1 /\ pc' = "step"
    BY <1>4 DEF Informs
  <1>6. /\ Len(stack') = Len(stack) - 1 /\ DOMAIN stack' = 1..(Len(stack) - 1)
        /\ stack'[1] = f /\ \A i \in 2..(Len(stack) - 1) : stack'[i] = stack[i + 1]
    BY <1>3, <1>5, ReturnedAt
  \* Every call but the one that ends goes on.
  <1>7. ASSUME NEW i \in DOMAIN stack, i # 1
        PROVE  \E j \in DOMAIN stack' : Goes(stack[i], stack'[j])
    <2>1. CASE i = 2
      <3>1. 1 \in DOMAIN stack'
        BY <1>3, <1>6
      <3> QED
        BY <1>3, <1>5, <1>6, <2>1, <3>1
    <2>2. CASE i # 2
      <3>1. i - 1 \in 2..(Len(stack) - 1) /\ i - 1 \in DOMAIN stack' /\ (i - 1) + 1 = i
        BY <1>3, <1>6, <1>7, <2>2
      <3>2. stack'[i - 1] = stack[i]
        BY <1>6, <3>1
      <3> QED
        BY <3>1, <3>2 DEF Goes
    <2> QED
      BY <2>1, <2>2
  <1>8. StackInv'
    <2>1. ListOf(playbook, Parent)[Parent.at] \in reached
      BY <1>3 DEF CallOK
    <2>2. f.at = Parent.at \/ f.at = Parent.at + 1
      BY <1>5
    <2>3. FrameOK(playbook, reached, f)
      BY <1>3, <1>5, <2>1, <2>2, FrameAdvanced
    <2>4. f.node = stack[2].node /\ f.part = stack[2].part
      BY <1>3, <1>5 DEF Goes
    <2>5. Chained(playbook, reached, stack')
      BY <1>1, <1>3, <1>6, <2>3, <2>4, ChainReturned DEF VInv, StackInv
    <2> QED
      BY <1>1, <2>5 DEF StackInv
  <1>9. PlaceInv'
    <2>1. ASSUME stop PROVE ~Over' /\ Node' \in reached'
      <3>1. Top' = f
        BY <1>6 DEF Top
      <3>2. f.at = Parent.at /\ f.node = Parent.node /\ f.part = Parent.part
        BY <1>5, <2>1 DEF Goes
      <3>3. Body' = ListOf(playbook, Parent)
        BY <1>1, <3>1, <3>2 DEF Body, ListOf
      <3>4. Parent.at \in DOMAIN ListOf(playbook, Parent)
        BY <1>3 DEF CallOK
      <3>5. ~(Parent.at > Len(ListOf(playbook, Parent)))
        BY <1>3, <3>4, LenProperties
      <3>6. Node' = Top.node /\ Top.node \in reached
        BY <1>3, <3>1, <3>2, <3>3 DEF Node, CallOK
      <3> QED
        BY <1>1, <3>1, <3>2, <3>3, <3>5, <3>6 DEF Over
    <2> QED
      BY <1>1, <1>5, <2>1 DEF PlaceInv, VInv, LeafPcs
  <1>10. GateInv'
    <2>1. ASSUME NEW c \in closed, StoppedBy(c)
          PROVE  pc' = "unwind" \/ \E j \in DOMAIN stack' : stack'[j].stopped
      <3>1. pc = "unwind" \/ \E i \in DOMAIN stack : stack[i].stopped
        BY <1>1, <2>1 DEF VInv, GateInv
      <3>2. CASE pc = "unwind" \/ stack[1].stopped
        BY <1>3, <1>4, <1>5, <3>2 DEF Halted
      <3>3. CASE \E i \in DOMAIN stack : i # 1 /\ stack[i].stopped
        BY <1>7, <3>3 DEF Goes
      <3> QED
        BY <3>1, <3>2, <3>3
    <2> QED
      BY <1>1, <2>1 DEF VInv, GateInv, StoppedBy
  <1>11. CleanupInv'
    <2> SUFFICES ASSUME ~cancelled, NEW b \in reached, b \notin Troubled, playbook[b].kind = "block"
                 PROVE  Cleaned(b) \/ \E j \in DOMAIN stack' : stack'[j].node = b
      BY <1>1 DEF CleanupInv, Cleaned, Troubled
    <2>1. Cleaned(b) \/ \E i \in DOMAIN stack : stack[i].node = b
      BY <1>1 DEF VInv, CleanupInv, Alive
    <2>2. CASE stack[1].node = b
      <3>1. Top.part = "always" /\ Body = playbook[b].always
        BY <1>2, <1>3, <2>2 DEF Kind, Body
      <3>2. Body # <<>> => Body[1] \in reached
        BY <1>2, EndedPart DEF VInv
      <3> QED
        BY <3>1, <3>2 DEF Cleaned
    <2>3. CASE \E i \in DOMAIN stack : i # 1 /\ stack[i].node = b
      BY <1>7, <2>3 DEF Goes
    <2> QED
      BY <2>1, <2>2, <2>3
  <1>12. TroubleInv'
    <2> SUFFICES ASSUME ~cancelled, NEW n \in Troubled
                 PROVE  MadeGood(n)' \/ \E j \in DOMAIN stack' : Answers(playbook, stack'[j], n)
      BY <1>1 DEF VInv, TroubleInv, Troubled
    <2>1. MadeGood(n) \/ \E i \in DOMAIN stack : Answers(playbook, stack[i], n)
      BY <1>1 DEF VInv, TroubleInv
    <2>2. CASE MadeGood(n)
      BY <1>1, <2>2, RecoveredOn
    <2>3. CASE Answers(playbook, stack[1], n)
      <3>1. f.failed \/ f.bad
        BY <1>3, <1>4, <1>5, <2>3, Zenon DEF Answers
      <3>2. f.node = Parent.node /\ f.part = Parent.part
        BY <1>5 DEF Goes
      <3>3. Inside(playbook, Top.node) \subseteq Inside(playbook, n)
        BY <1>3, <2>3 DEF Answers
      <3>4. /\ Inside(playbook, f.node) \subseteq Inside(playbook, n)
            /\ f.part = "steps" => f.node \in Inside(playbook, n)
        BY <1>3, <3>2, <3>3
      <3>5. Answers(playbook, f, n)
        BY <3>1, <3>4, Zenon DEF Answers
      <3>6. 1 \in DOMAIN stack'
        BY <1>3, <1>6
      <3> QED
        BY <1>6, <3>5, <3>6
    <2>4. CASE \E i \in DOMAIN stack : i # 1 /\ Answers(playbook, stack[i], n)
      <3>1. PICK i \in DOMAIN stack : i # 1 /\ Answers(playbook, stack[i], n)
        BY <2>4
      <3>2. PICK j \in DOMAIN stack' : Goes(stack[i], stack'[j])
        BY <1>7, <3>1
      <3> QED
        BY <3>1, <3>2, AnswersOn
    <2> QED
      BY <2>1, <2>2, <2>3, <2>4
  <1>13. CleanVerdict'
    BY <1>5 DEF CleanVerdict, SuccessIsEarned
  <1> QED
    BY <1>8, <1>9, <1>10, <1>11, <1>12, <1>13 DEF VInv

LEMMA IterationKept ==
  ASSUME JInv, VInv, NextIteration
  PROVE  VInv'
  <1>1. /\ UNCHANGED <<playbook, process, cancelled, reached, trouble, closed, cut, verdict>>
        /\ Alive /\ stack # <<>> /\ AtEnd /\ Inner /\ pc # "unwind" /\ pc' = "step"
    <2>1. EndStep /\ ~EndRecovery /\ AtEnd /\ ~EndRun
      BY EndPlain DEF EndStep, NextIteration, EndRecovery, EndRun, Kind
    <2> QED
      BY <2>1, EndPlain, EndAlive DEF NextIteration, LoopEnds, Halted
  <1>2. Kind = "loop"
    BY DEF NextIteration
  <1>3. /\ Top \in FrameType /\ Parent \in FrameType
        /\ Len(stack) \in Nat /\ Len(stack) > 1 /\ DOMAIN stack = 1..Len(stack)
        /\ stack \in Seq(FrameType) /\ playbook \in Playbooks
        /\ stack[1] = Top /\ stack[2] = Parent
        /\ FrameOK(playbook, reached, Top) /\ FrameOK(playbook, reached, Parent)
        /\ Top.node \in Nodes /\ Parent.node \in Nodes /\ Parent.part \in Parts
        /\ Parent.at \in Nat \ {0} /\ ListOf(playbook, Parent) \in Seq(Nodes)
        /\ Inside(playbook, Top.node)
             = Inside(playbook, Parent.node)
                 \cup (IF Parent.part = "steps" THEN {Parent.node} ELSE {})
    BY <1>1, TopTwo DEF VInv
  <1>4. PICK f : f = [Top EXCEPT !.at = 1, !.iteration = @ + 1, !.failed = FALSE]
    OBVIOUS
  <1>5. PICK g : g = [Parent EXCEPT !.failed = @ \/ Top.failed]
    OBVIOUS
  <1>6. /\ f \in FrameType /\ f.node = Top.node /\ f.part = Top.part /\ f.at = 1
        /\ f.stopped = Top.stopped /\ f.lost = Top.lost /\ f.bad = Top.bad
    <2>1. 1 \in Nat \ {0} /\ Top.iteration + 1 \in Nat \ {0}
      BY <1>3 DEF FrameType
    <2>2. \A a, m \in Nat \ {0} : \A x \in BOOLEAN :
            [Top EXCEPT !.at = a, !.iteration = m, !.failed = x] \in FrameType
      BY <1>3 DEF FrameType
    <2>3. f \in FrameType
      BY <1>4, <2>1, <2>2, Zenon
    <2>4. \A a, m, x : LET h == [Top EXCEPT !.at = a, !.iteration = m, !.failed = x]
                      IN  /\ h.node = Top.node /\ h.part = Top.part /\ h.at = a
                          /\ h.stopped = Top.stopped /\ h.lost = Top.lost /\ h.bad = Top.bad
      BY <1>3 DEF FrameType
    <2> QED
      BY <1>4, <2>3, <2>4
  <1>7. /\ g \in FrameType /\ Goes(Parent, g) /\ g.at = Parent.at /\ (Top.failed => g.failed)
    <2>1. Top.failed \in BOOLEAN
      BY <1>3 DEF FrameType
    <2>2. g \in FrameType
      BY <1>3, <1>5, <2>1, ParentType
    <2>3. /\ g.node = Parent.node /\ g.part = Parent.part /\ g.at = Parent.at
          /\ g.stopped = Parent.stopped /\ g.lost = Parent.lost /\ g.bad = Parent.bad
          /\ g.failed = (Parent.failed \/ Top.failed)
      BY <1>3, <1>5 DEF FrameType
    <2> QED
      BY <2>2, <2>3, Zenon DEF Goes
  <1>8. stack' = <<f, g>> \o Tail(Tail(stack))
    BY <1>4, <1>5 DEF NextIteration, Pop
  <1>9. /\ Len(stack') = Len(stack) /\ DOMAIN stack' = 1..Len(stack)
        /\ stack'[1] = f /\ stack'[2] = g /\ \A i \in 3..Len(stack) : stack'[i] = stack[i]
    BY <1>3, <1>6, <1>7, <1>8, IteratedAt
  <1>10. ASSUME NEW i \in DOMAIN stack, i # 1
         PROVE  i \in DOMAIN stack' /\ Goes(stack[i], stack'[i])
    <2>1. CASE i = 2
      BY <1>3, <1>7, <1>9, <2>1
    <2>2. CASE i # 2
      <3>1. i \in 3..Len(stack)
        BY <1>3, <1>10, <2>2
      <3> QED
        BY <1>3, <1>9, <3>1 DEF Goes
    <2> QED
      BY <2>1, <2>2
  <1>11. Top.part = "steps"
    BY <1>2, <1>3 DEF FrameOK, Kind
  <1>12. StackInv'
    <2>1. FrameOK(playbook, reached, f)
      <3>1. Body = ListOf(playbook, f) /\ DOMAIN Body = 1..Len(Body) /\ Len(Body) \in Nat
        BY <1>1, <1>6, TopList DEF ListOf, Body
      <3>2. \A k \in DOMAIN ListOf(playbook, f) : ~(k < f.at)
        BY <1>6, <3>1
      <3> QED
        BY <1>3, <1>6, <1>11, <3>2 DEF FrameOK
    <2>2. FrameOK(playbook, reached, g)
      BY <1>3, <1>7, FrameAdvanced
    <2>3. f.node = stack[1].node /\ g.node = stack[2].node /\ g.part = stack[2].part
          /\ g.at = stack[2].at
      BY <1>3, <1>6, <1>7 DEF Goes
    <2>4. Chained(playbook, reached, stack')
      BY <1>1, <1>3, <1>9, <2>1, <2>2, <2>3, ChainIterated DEF VInv, StackInv
    <2> QED
      BY <1>1, <2>4 DEF StackInv
  <1>13. PlaceInv'
    BY <1>1 DEF PlaceInv, VInv, LeafPcs
  <1>14. GateInv'
    <2>1. ASSUME NEW c \in closed, StoppedBy(c)
          PROVE  \E j \in DOMAIN stack' : stack'[j].stopped
      <3>1. PICK i \in DOMAIN stack : stack[i].stopped
        BY <1>1, <2>1 DEF VInv, GateInv
      <3>2. CASE i = 1
        BY <1>3, <1>6, <1>9, <3>1, <3>2
      <3>3. CASE i # 1
        BY <1>10, <3>1, <3>3 DEF Goes
      <3> QED
        BY <3>2, <3>3
    <2> QED
      BY <1>1, <2>1 DEF VInv, GateInv, StoppedBy
  <1>15. CleanupInv'
    <2> SUFFICES ASSUME ~cancelled, NEW b \in reached, b \notin Troubled, playbook[b].kind = "block"
                 PROVE  Cleaned(b) \/ \E j \in DOMAIN stack' : stack'[j].node = b
      BY <1>1 DEF CleanupInv, Cleaned, Troubled
    <2>1. Cleaned(b) \/ \E i \in DOMAIN stack : stack[i].node = b
      BY <1>1 DEF VInv, CleanupInv, Alive
    <2>2. \A i \in DOMAIN stack : stack[i].node = b => i # 1
      BY <1>2, <1>3 DEF Kind
    <2> QED
      BY <1>10, <2>1, <2>2 DEF Goes
  <1>16. TroubleInv'
    <2> SUFFICES ASSUME ~cancelled, NEW n \in Troubled
                 PROVE  MadeGood(n)' \/ \E j \in DOMAIN stack' : Answers(playbook, stack'[j], n)
      BY <1>1 DEF VInv, TroubleInv, Troubled
    <2>1. MadeGood(n) \/ \E i \in DOMAIN stack : Answers(playbook, stack[i], n)
      BY <1>1 DEF VInv, TroubleInv
    <2>2. CASE MadeGood(n)
      BY <1>1, <2>2, RecoveredOn
    <2>3. CASE Answers(playbook, stack[1], n) /\ Top.failed
      <3>1. Inside(playbook, Top.node) \subseteq Inside(playbook, n)
        BY <1>3, <2>3 DEF Answers
      <3>2. g.failed /\ g.node = Parent.node /\ g.part = Parent.part
        BY <1>7, <2>3 DEF Goes
      <3>3. /\ Inside(playbook, g.node) \subseteq Inside(playbook, n)
            /\ g.part = "steps" => g.node \in Inside(playbook, n)
        BY <1>3, <3>1, <3>2
      <3>4. Answers(playbook, g, n)
        BY <3>2, <3>3, Zenon DEF Answers
      <3>5. 2 \in DOMAIN stack'
        BY <1>3, <1>9
      <3> QED
        BY <1>9, <3>4, <3>5
    <2>4. CASE Answers(playbook, stack[1], n) /\ ~Top.failed
      <3>1. /\ Top.bad \/ Top.lost
            /\ Inside(playbook, Top.node) \subseteq Inside(playbook, n)
            /\ Top.node \in Inside(playbook, n)
        BY <1>3, <1>11, <2>4, Zenon DEF Answers
      <3>2. Answers(playbook, f, n)
        BY <1>6, <3>1, Zenon DEF Answers
      <3>3. 1 \in DOMAIN stack'
        BY <1>3, <1>9
      <3> QED
        BY <1>9, <3>2, <3>3
    <2>5. CASE \E i \in DOMAIN stack : i # 1 /\ Answers(playbook, stack[i], n)
      BY <1>10, <2>5, AnswersOn
    <2> QED
      BY <2>1, <2>2, <2>3, <2>4, <2>5
  <1>17. CleanVerdict'
    BY <1>1 DEF CleanVerdict, SuccessIsEarned
  <1> QED
    BY <1>12, <1>13, <1>14, <1>15, <1>16, <1>17 DEF VInv

\* What the end of a block's steps or recovery leaves.
LEMMA TurnFacts ==
  ASSUME JInv, StackInv, EndSteps \/ EndRecovery
  PROVE  \E f, part, stopped :
           /\ Turns(f, part, stopped, Lost)
           /\ Halted \/ Top.stopped => stopped
           /\ part \in {"recovery", "always"}
           /\ EndRecovery => part = "always"
           /\ part = "recovery" => playbook[Top.node].recovery # <<>>
  <1>1. Inner /\ AtEnd /\ stack # <<>>
    BY EmptySeq DEF EndSteps, EndRecovery, AtEnd
  <1>2. Top \in FrameType /\ FrameOK(playbook, reached, Top)
    BY <1>1, TopTwo
  <1>3. /\ Top.failed \in BOOLEAN /\ Top.bad \in BOOLEAN /\ Top.lost \in BOOLEAN
        /\ Top.owed \in BOOLEAN /\ Top.stopped \in BOOLEAN /\ Halted \in BOOLEAN
    BY <1>1, FrameTypes DEF Halted, JInv
  <1>4. \A c, d \in BOOLEAN : (c \/ d) \in BOOLEAN /\ (c /\ d) \in BOOLEAN
    BY Zenon
  <1>5. Lost \in BOOLEAN
    BY <1>3, <1>4, Zenon DEF Lost
  <1>6. CASE EndSteps
    <2>1. PICK part : part = IF Lost /\ Block.recovery # <<>> THEN "recovery" ELSE "always"
      OBVIOUS
    <2>2. GoTo(part, [Top EXCEPT !.stopped = Halted, !.lost = Lost, !.owed = Top.bad])
      BY <1>6, <2>1 DEF EndSteps
    <2>3. part \in Parts /\ part \in {"recovery", "always"}
      BY <2>1 DEF Parts
    <2>4. PICK f : Turns(f, part, Halted, Lost)
      BY <1>2, <1>3, <1>5, <2>2, <2>3, Turned
    <2>5. Top.part = "steps"
      BY <1>6 DEF EndSteps
    <2>6. ~Top.stopped /\ ~EndRecovery
      BY <1>2, <2>5 DEF FrameOK, EndRecovery
    <2> QED
      BY <2>1, <2>3, <2>4, <2>6 DEF Block
  <1>7. CASE EndRecovery
    <2>1. GoTo("always", [Top EXCEPT !.stopped = Top.stopped \/ Halted, !.lost = Lost,
                                     !.owed = Lost /\ (Top.owed \/ Top.bad)])
      BY <1>7 DEF EndRecovery
    <2>2. (Top.stopped \/ Halted) \in BOOLEAN /\ (Lost /\ (Top.owed \/ Top.bad)) \in BOOLEAN
      BY <1>3, <1>4, <1>5, Zenon
    <2>3. "always" \in Parts
      BY DEF Parts
    <2>4. PICK f : Turns(f, "always", Top.stopped \/ Halted, Lost)
      BY <1>2, <1>5, <2>1, <2>2, <2>3, Turned
    <2> WITNESS f, "always", Top.stopped \/ Halted
    <2> QED
      BY <2>4
  <1> QED
    BY <1>6, <1>7

LEMMA TurnKept ==
  ASSUME JInv, VInv, EndSteps \/ EndRecovery
  PROVE  VInv'
  <1>1. /\ UNCHANGED <<playbook, process, cancelled, reached, trouble, closed, verdict>>
        /\ Alive /\ stack # <<>> /\ AtEnd /\ Inner
    <2>1. EndStep /\ ~EndRun /\ AtEnd
      BY EndPlain DEF EndStep, EndSteps, EndRecovery, EndRun
    <2> QED
      BY <2>1, EndPlain, EndAlive
  <1>2. cut \subseteq cut' /\ (EndRecovery => cut' = cut \cup (IF Halted THEN {Top.node} ELSE {}))
    BY EndPlain DEF EndStep, EndRecovery, RecoveryIsCut
  <1>3. PICK f, part, stopped :
          /\ Turns(f, part, stopped, Lost)
          /\ Halted \/ Top.stopped => stopped
          /\ part \in {"recovery", "always"}
          /\ EndRecovery => part = "always"
          /\ part = "recovery" => playbook[Top.node].recovery # <<>>
    BY TurnFacts DEF VInv
  <1>4. /\ f \in FrameType /\ stack' = ReplaceTop(f) /\ pc' = "step"
        /\ f.node = Top.node /\ f.part = part /\ f.at = 1 /\ ~f.failed /\ ~f.bad
        /\ f.stopped = stopped /\ f.lost = Lost
    BY <1>3 DEF Turns
  <1>5. /\ Top \in FrameType /\ stack[1] = Top
        /\ Len(stack) \in Nat /\ Len(stack) > 1 /\ DOMAIN stack = 1..Len(stack)
        /\ stack \in Seq(FrameType) /\ playbook \in Playbooks
        /\ FrameOK(playbook, reached, Top) /\ Top.node \in Nodes
    BY <1>1, TopTwo DEF VInv
  <1>6. /\ Len(stack') = Len(stack) /\ DOMAIN stack' = 1..Len(stack)
        /\ stack'[1] = f /\ \A i \in 2..Len(stack) : stack'[i] = stack[i]
    BY <1>1, <1>4, <1>5, ReplacedAt
  <1>7. ASSUME NEW i \in DOMAIN stack, i # 1 PROVE i \in DOMAIN stack' /\ stack'[i] = stack[i]
    BY <1>5, <1>6, <1>7
  <1>8. Kind = "block" /\ Top.part \in {"steps", "recovery"} /\ (Top.part = "recovery" => EndRecovery)
    BY DEF EndSteps, EndRecovery
  <1>9. StackInv'
    <2>1. FrameOK(playbook, reached, f)
      <3>1. ListOf(playbook, f) \in Seq(Nodes)
        <4>1. playbook[Top.node] \in StepConfig
          BY <1>5, PlaybooksAssumption
        <4> QED
          BY <1>3, <1>4, <4>1 DEF ListOf, StepConfig
      <3>2. \A k \in DOMAIN ListOf(playbook, f) : ~(k < f.at)
        <4>1. \A k \in DOMAIN ListOf(playbook, f) : k \in Nat /\ k >= 1
          BY <3>1, LenProperties
        <4> QED
          BY <1>4, <4>1
      <3> QED
        BY <1>3, <1>4, <1>8, <3>2 DEF FrameOK, Kind
    <2>2. Len(stack) # 1 /\ f.node = stack[1].node /\ Len(stack) \in Nat \ {0}
      BY <1>4, <1>5
    <2>3. Chained(playbook, reached, stack')
      BY <1>1, <1>5, <1>6, <2>1, <2>2, ChainReplaced DEF VInv, StackInv
    <2> QED
      BY <1>1, <2>3 DEF StackInv
  <1>10. PlaceInv'
    BY <1>1, <1>4 DEF PlaceInv, VInv, LeafPcs
  <1>11. GateInv'
    <2>1. ASSUME NEW c \in closed, StoppedBy(c)
          PROVE  \E j \in DOMAIN stack' : stack'[j].stopped
      <3>1. pc = "unwind" \/ \E i \in DOMAIN stack : stack[i].stopped
        BY <1>1, <2>1 DEF VInv, GateInv
      <3>2. CASE pc = "unwind" \/ stack[1].stopped
        <4>1. 1 \in DOMAIN stack' /\ stopped
          BY <1>3, <1>5, <1>6, <3>2 DEF Halted
        <4> QED
          BY <1>4, <1>6, <4>1
      <3>3. CASE \E i \in DOMAIN stack : i # 1 /\ stack[i].stopped
        BY <1>7, <3>3
      <3> QED
        BY <3>1, <3>2, <3>3
    <2> QED
      BY <1>1, <2>1 DEF VInv, GateInv, StoppedBy
  <1>12. CleanupInv'
    <2>1. \A i \in DOMAIN stack : i \in DOMAIN stack' /\ stack'[i].node = stack[i].node
      BY <1>4, <1>5, <1>6, <1>7
    <2> SUFFICES ASSUME ~cancelled, NEW b \in reached, b \notin Troubled, playbook[b].kind = "block"
                 PROVE  Cleaned(b) \/ \E j \in DOMAIN stack' : stack'[j].node = b
      BY <1>1 DEF CleanupInv, Cleaned, Troubled
    <2>2. Cleaned(b) \/ \E i \in DOMAIN stack : stack[i].node = b
      BY <1>1 DEF VInv, CleanupInv, Alive
    <2> QED
      BY <2>1, <2>2
  <1>13. TroubleInv'
    <2> SUFFICES ASSUME ~cancelled, NEW n \in Troubled
                 PROVE  MadeGood(n)' \/ \E j \in DOMAIN stack' : Answers(playbook, stack'[j], n)
      BY <1>1 DEF VInv, TroubleInv, Troubled
    <2>0. \A m \in Troubled :
            /\ m \in Nodes
            /\ MadeGood(m) \/ \E i \in DOMAIN stack : Answers(playbook, stack[i], m)
      BY <1>1 DEF VInv, TroubleInv, Troubled
    <2>1. n \in Nodes /\ (MadeGood(n) \/ \E i \in DOMAIN stack : Answers(playbook, stack[i], n))
      BY <2>0
    <2>2. CASE MadeGood(n)
      BY <1>1, <1>2, <2>2, RecoveredOn
    <2>3. CASE \E i \in DOMAIN stack : i # 1 /\ Answers(playbook, stack[i], n)
      BY <1>7, <2>3
    <2>4. CASE Answers(playbook, Top, n) /\ Lost
      <3>1. /\ Inside(playbook, f.node) \subseteq Inside(playbook, n)
            /\ Top.part = "steps" => f.node \in Inside(playbook, n)
        BY <1>4, <2>4 DEF Answers
      <3>2. f.part = "always" \/ Top.part = "steps"
        BY <1>3, <1>4, <1>8
      <3>3. f.part = "recovery" \/ f.part = "always"
        BY <1>3, <1>4
      <3>4. Answers(playbook, f, n)
        BY <1>4, <2>4, <3>1, <3>2, <3>3, Zenon DEF Answers
      <3>5. 1 \in DOMAIN stack'
        BY <1>5, <1>6
      <3> QED
        BY <1>6, <3>4, <3>5
    \* The recovery went well: the block is recovered, unless something in its recovery
    \* is still to be answered for, by the same calls.
    <2>5. CASE Answers(playbook, Top, n) /\ ~Lost
      <3>1. ~Top.failed /\ ~Top.bad /\ Top.lost
        BY <2>5, Zenon DEF Answers, Lost
      <3>2. EndRecovery /\ Top.part = "recovery"
        BY <1>5, <1>8, <3>1 DEF FrameOK
      <3>3. Top.node \in Inside(playbook, n) /\ Inside(playbook, Top.node) \subseteq Inside(playbook, n)
        BY <2>5, <3>1, <3>2, Zenon DEF Answers
      <3>4. Body = playbook[Top.node].recovery
        BY <3>2 DEF Body
      <3>5. Body # <<>> /\ Body[1] \in reached
        BY <1>1, <1>5, <3>2, <3>4, EndedPart DEF FrameOK, VInv
      <3>6. ~Halted => Range(Body) \subseteq reached
        BY <1>1, <3>1, EndedPart DEF VInv
      <3>7. CASE Range(Body) \cap Troubled = {}
        <4>1. Troubled' = Troubled
          BY <1>1 DEF Troubled
        <4>2. Top.node \notin cut' => ~Halted
          BY <1>2, <3>2
        <4>3. \A b : b = Top.node => RecoveredBy(b)'
          BY <1>1, <3>4, <3>5, <3>6, <3>7, <4>1, <4>2 DEF RecoveredBy
        <4>4. MadeGood(n)'
          BY <1>1, <3>3, <4>3 DEF MadeGood
        <4> QED
          BY <4>4
      <3>8. CASE Range(Body) \cap Troubled # {}
        <4>1. PICK d : d \in Range(Body) /\ d \in Troubled
          BY <3>8
        <4>2. Inside(playbook, d) = Inside(playbook, Top.node)
          <5>1. Top.part \in Parts /\ d \in Range(playbook[Top.node][Top.part])
            BY <3>2, <4>1 DEF Parts, Body
          <5>2. Inside(playbook, d)
                  = Inside(playbook, Top.node)
                      \cup (IF Top.part = "steps" THEN {Top.node} ELSE {})
            BY <1>5, <5>1, InsideList
          <5> QED
            BY <3>2, <5>2
        <4>3. Inside(playbook, d) \subseteq Inside(playbook, n)
          BY <3>3, <4>2
        <4>4. CASE MadeGood(d)
          <5>1. MadeGood(n)
            BY <4>3, <4>4 DEF MadeGood
          <5> QED
            BY <1>1, <1>2, <5>1, RecoveredOn
        <4>5. CASE \E i \in DOMAIN stack : Answers(playbook, stack[i], d)
          <5>1. PICK i \in DOMAIN stack : Answers(playbook, stack[i], d)
            BY <4>5
          <5>2. i # 1
            <6>1. Top.node \notin Inside(playbook, d)
              BY <1>5, <4>2, InsideDeep
            <6> QED
              BY <1>5, <3>1, <3>2, <5>1, <6>1, Zenon DEF Answers
          <5>3. Answers(playbook, stack[i], n)
            BY <4>3, <5>1 DEF Answers
          <5> QED
            BY <1>7, <5>2, <5>3
        <4> QED
          BY <2>0, <4>1, <4>4, <4>5
      <3> QED
        BY <3>7, <3>8
    <2> QED
      BY <1>5, <2>1, <2>2, <2>3, <2>4, <2>5
  <1>14. CleanVerdict'
    BY <1>4 DEF CleanVerdict, SuccessIsEarned
  <1> QED
    BY <1>9, <1>10, <1>11, <1>12, <1>13, <1>14 DEF VInv

\* The first call is the entry's: when it ends there is no other to answer for anything.
LEMMA EndRunKept ==
  ASSUME JInv, VInv, EndRun
  PROVE  VInv'
  <1>1. /\ UNCHANGED <<playbook, process, cancelled, reached, trouble, closed, cut>>
        /\ Alive /\ stack # <<>> /\ AtEnd
    <2>1. EndStep /\ ~EndRecovery
      BY DEF EndStep, EndRun, EndRecovery
    <2> QED
      BY <2>1, EndPlain, EndAlive
  <1>2. /\ pc' = "exited" /\ stack' = <<>> /\ ~Inner
        /\ verdict' = "ok" => ~Lost
    BY DEF EndRun
  <1>3. /\ Len(stack) = 1 /\ DOMAIN stack = {1} /\ stack[1] = Top
        /\ FrameOK(playbook, reached, Top) /\ Top.node = Root /\ Top.part = "steps"
    <2>1. Len(stack) \in Nat \ {0} /\ DOMAIN stack = 1..Len(stack) /\ stack[1] = Top
      BY <1>1, TopList
    <2>2. Len(stack) = 1
      BY <1>2, <2>1 DEF Inner
    <2>3. DOMAIN stack = {1}
      BY <2>1, <2>2
    <2> QED
      BY <1>1, <2>1, <2>2, <2>3 DEF VInv, StackInv, Chained
  <1>4. DOMAIN stack' = {} /\ stack' = <<>>
    BY <1>2
  <1>5. StackInv'
    BY <1>4 DEF StackInv, Chained
  <1>6. PlaceInv'
    BY <1>1, <1>2 DEF PlaceInv, VInv, LeafPcs
  <1>7. GateInv'
    BY <1>1, <1>2 DEF GateInv, VInv, StoppedBy, Alive
  <1>8. CleanupInv'
    <2> SUFFICES ASSUME ~cancelled, NEW b \in reached, b \notin Troubled, playbook[b].kind = "block"
                 PROVE  Cleaned(b)
      BY <1>1 DEF CleanupInv, Cleaned, Troubled
    <2>1. Cleaned(b) \/ \E i \in DOMAIN stack : stack[i].node = b
      BY <1>1 DEF VInv, CleanupInv, Alive
    <2>2. b # Root
      BY DEF VInv, PlaceInv
    <2> QED
      BY <1>3, <2>1, <2>2
  <1>9. TroubleInv'
    BY <1>1, <1>2 DEF TroubleInv, VInv, Alive
  <1>10. CleanVerdict'
    <2> SUFFICES ASSUME ~cancelled, verdict' = "ok", NEW t \in trouble
                 PROVE  \E b \in t.within : RecoveredBy(b)'
      BY <1>1 DEF CleanVerdict, SuccessIsEarned
    <2>1. t.node \in Troubled /\ t.within = Inside(playbook, t.node)
      BY DEF VInv, TroubleInv, Troubled
    <2>2. MadeGood(t.node) \/ Answers(playbook, Top, t.node)
      BY <1>1, <1>3, <2>1 DEF VInv, TroubleInv
    <2>3. ~Top.failed /\ ~Top.bad /\ ~Top.lost
      BY <1>2, <1>3, Zenon DEF Lost, FrameOK
    <2>4. MadeGood(t.node)
      BY <2>2, <2>3, Zenon DEF Answers
    <2>5. MadeGood(t.node)'
      BY <1>1, <2>4, RecoveredOn
    <2> QED
      BY <1>1, <2>1, <2>5 DEF MadeGood
  <1> QED
    BY <1>5, <1>6, <1>7, <1>8, <1>9, <1>10 DEF VInv

\* Interrupts, losses and new processes; a process that cannot connect.
LEMMA OutsideKept ==
  ASSUME JInv, VInv, ConnectFails \/ Interrupt \/ Crash \/ RefuseResume \/ Rest \/ UNCHANGED vars
  PROVE  VInv'
  <1> USE DEF journalVars, leafVars, processVars, history
  <1>1. UNCHANGED <<playbook, process, reached, trouble, closed, cut>>
    BY DEF ConnectFails, Interrupt, Crash, RefuseResume, Rest, vars
  <1>2. /\ cancelled' = cancelled \/ cancelled'
        /\ \/ stack' = stack /\ verdict' = verdict
              /\ (pc' = pc \/ (pc \in {"exited", "lost"} /\ pc' = "refused"))
           \/ stack' = <<>> /\ pc' = "lost"
           \/ stack' = <<>> /\ pc' = "exited" /\ verdict' = "failed" /\ pc = "connect"
    BY DEF ConnectFails, Interrupt, Crash, RefuseResume, Rest, vars, Down
  <1>3. StackInv'
    <2>1. CASE stack' = stack
      BY <1>1, <2>1 DEF StackInv, VInv
    <2>2. CASE stack' = <<>>
      <3>1. DOMAIN stack' = {}
        BY <2>2
      <3> QED
        BY <2>2, <3>1 DEF StackInv, Chained
    <2> QED
      BY <1>2, <2>1, <2>2
  <1>4. PlaceInv'
    <2>1. CASE stack' = stack /\ pc' = pc
      <3>1. Over' = Over /\ Node' = Node
        BY <1>1, <2>1 DEF Over, Node, Body, Top
      <3>2. PlaceInv
        BY DEF VInv
      <3> QED
        BY <1>1, <1>2, <2>1, <3>1, <3>2 DEF PlaceInv
    <2>2. CASE pc' \in {"refused", "lost", "exited"} /\ (pc' = "exited" => stack' = <<>>)
      BY <1>1, <2>2 DEF PlaceInv, VInv, LeafPcs
    <2> QED
      BY <1>2, <2>1, <2>2
  <1>5. GateInv'
    BY <1>1, <1>2 DEF GateInv, VInv, StoppedBy, Alive
  <1>6. CleanupInv'
    <2>1. CASE pc = "connect"
      <3>1. reached' = {}
        BY <1>1, <2>1 DEF VInv, PlaceInv
      <3> QED
        BY <3>1 DEF CleanupInv
    <2>2. CASE pc # "connect"
      BY <1>1, <1>2, <2>2 DEF CleanupInv, VInv, Cleaned, Troubled
    <2> QED
      BY <2>1, <2>2
  <1>7. TroubleInv'
    <2>1. TroubleInv
      BY DEF VInv
    <2>2. ASSUME NEW n, MadeGood(n) PROVE MadeGood(n)'
      BY <1>1, <2>2, RecoveredOn
    <2> QED
      BY <1>1, <1>2, <2>1, <2>2 DEF TroubleInv, Alive, Troubled
  <1>8. CleanVerdict'
    BY <1>1, <1>2 DEF CleanVerdict, SuccessIsEarned, VInv, RecoveredBy, Troubled
  <1> QED
    BY <1>3, <1>4, <1>5, <1>6, <1>7, <1>8 DEF VInv

LEMMA FirstCall ==
  ASSUME NEW p \in Playbooks, NEW r
  PROVE  Chained(p, r, <<Frame(Root)>>)
  <1> DEFINE s == <<Frame(Root)>>
  <1>1. Len(s) = 1 /\ DOMAIN s = {1} /\ s[1] = Frame(Root)
    OBVIOUS
  <1>2. /\ Frame(Root).node = Root /\ Frame(Root).part = "steps" /\ Frame(Root).at = 1
        /\ ~Frame(Root).stopped /\ ~Frame(Root).lost
    BY DEF Frame
  <1>3. FrameOK(p, r, Frame(Root))
    <2>1. ListOf(p, Frame(Root)) \in Seq(Nodes)
      BY <1>2, RootAssumption, PlaybooksAssumption DEF ListOf, StepConfig
    <2>2. \A k \in DOMAIN ListOf(p, Frame(Root)) : ~(k < 1)
      BY <2>1, LenProperties
    <2> QED
      BY <1>2, <2>2 DEF FrameOK
  <1>4. Inside(p, Root) = {}
    BY TreeAssumption
  <1>5. Around(s, 1) = {}
    <2> HIDE DEF s
    <2> QED
      BY <1>1 DEF Around
  <1>6. 1 + 1 \notin DOMAIN s
    BY <1>1
  <1> HIDE DEF s
  <1>7. \A i \in DOMAIN s : i = 1
    BY <1>1
  <1>8. \A i \in DOMAIN s : FrameOK(p, r, s[i]) /\ Inside(p, s[i].node) = Around(s, i)
    BY <1>1, <1>2, <1>3, <1>4, <1>5, <1>7
  <1>9. \A i \in DOMAIN s : i + 1 \in DOMAIN s => CallOK(p, r, s[i + 1], s[i])
    BY <1>6, <1>7
  <1>10. Chained(p, r, s)
    BY <1>1, <1>2, <1>8, <1>9 DEF Chained
  <1> QED
    BY <1>10 DEF s

LEMMA ResumeKept ==
  ASSUME JInv, VInv, Resume
  PROVE  VInv'
  <1>1. /\ playbook' = playbook /\ process' = process + 1 /\ closed' = closed
        /\ pc' = "connect" /\ stack' = <<Frame(Root)>> /\ reached' = {} /\ trouble' = {}
        /\ process \in Nat /\ playbook \in Playbooks
    BY BoundsAssumption DEF Resume, JInv, TypeOK
  <1>2. StackInv'
    BY <1>1, FirstCall DEF StackInv
  <1>3. PlaceInv'
    BY <1>1 DEF PlaceInv, LeafPcs
  <1>4. GateInv'
    <2>1. \A c \in closed : c.process \in Nat /\ c.process <= process + 1 /\ c.process # process + 1
      BY <1>1 DEF VInv, GateInv
    <2> QED
      BY <1>1, <2>1 DEF GateInv, StoppedBy
  <1>5. CleanupInv' /\ TroubleInv' /\ CleanVerdict'
    BY <1>1 DEF CleanupInv, TroubleInv, Troubled, CleanVerdict, SuccessIsEarned
  <1> QED
    BY <1>2, <1>3, <1>4, <1>5 DEF VInv

LEMMA InitVInv ==
  ASSUME Init
  PROVE  VInv
  <1>1. StackInv
    BY FirstCall DEF Init, StackInv
  <1>2. PlaceInv
    BY DEF Init, PlaceInv, LeafPcs
  <1>3. GateInv /\ CleanupInv /\ TroubleInv /\ CleanVerdict
    BY DEF Init, GateInv, CleanupInv, TroubleInv, Troubled, CleanVerdict, SuccessIsEarned
  <1> QED
    BY <1>1, <1>2, <1>3 DEF VInv

\* The invariant is inductive: a process goes on, ends a call, or is lost.
THEOREM VerdictInvariant == Spec => [](JInv /\ VInv)
  <1>1. ASSUME JInv, VInv, JInv', [Next]_vars PROVE VInv'
    <2>1. CASE Forward
      <3>1. CleanVerdict'
        BY <1>1, <2>1, ForwardPlain DEF CleanVerdict, SuccessIsEarned, Alive
      <3> QED
        BY <1>1, <2>1, <3>1, ForwardStackInv, ForwardPlace, ForwardGate, ForwardCleanup,
           ForwardTroubleInv DEF VInv, JInv
    <2>2. CASE Returns
      BY <1>1, <2>2, ReturnsKept
    <2>3. CASE NextIteration
      BY <1>1, <2>3, IterationKept
    <2>4. CASE EndSteps \/ EndRecovery
      BY <1>1, <2>4, TurnKept
    <2>5. CASE EndRun
      BY <1>1, <2>5, EndRunKept
    <2>6. CASE ConnectFails \/ Interrupt \/ Crash \/ RefuseResume \/ Rest \/ UNCHANGED vars
      BY <1>1, <2>6, OutsideKept
    <2>7. CASE Resume
      BY <1>1, <2>7, ResumeKept
    <2> QED
      BY <1>1, <2>1, <2>2, <2>3, <2>4, <2>5, <2>6, <2>7
      DEF Next, ProcessStep, EndStep, Forward, Returns
  <1> QED
    BY <1>1, InitVInv, JournalInvariant, PTL DEF Spec

\* README: a failed gate means that "later change steps are not executed".  Once a stop
\* or fail has been carried out (its message could be rendered, or executeValidationAction
\* gives an error that its callers do not stop for), whatever is still sent, commands of
\* actions too, is recovery or cleanup, for every playbook and every depth of nesting.
THEOREM GatesHold == Spec => []GateStopsProcess
  <1>1. JInv /\ VInv => GateStopsProcess
    <2> SUFFICES ASSUME JInv, VInv, \E c \in closed : StoppedBy(c), Sending PROVE InRecovery
      BY DEF GateStopsProcess, Told, StoppedBy
    <2>1. PICK i \in DOMAIN stack : stack[i].stopped
      BY DEF VInv, GateInv, Alive, Sending
    <2>2. stack[i].part # "steps"
      BY <2>1 DEF VInv, StackInv, Chained, FrameOK
    <2>3. stack[i] \in FrameType
      BY <2>1, ElementOfSeq, LenProperties DEF JInv, TypeOK
    <2> QED
      BY <2>1, <2>2, <2>3 DEF InRecovery, FrameType
  <1> QED
    BY <1>1, VerdictInvariant, PTL

\* README: "always runs in both cases".  Every block that was begun has begun its
\* cleanup by the time an uninterrupted process is done.
THEOREM CleanupIsReached == Spec => []AlwaysIsEntered
  <1>1. JInv /\ VInv => AlwaysIsEntered
    <2> SUFFICES ASSUME VInv, pc = "exited", ~cancelled, NEW b \in reached \ Troubled,
                        playbook[b].kind = "block"
                 PROVE  Cleaned(b)
      BY DEF AlwaysIsEntered
    <2>1. DOMAIN stack = {}
      BY DEF VInv, PlaceInv
    <2> QED
      BY <2>1 DEF VInv, CleanupInv
  <1> QED
    BY <1>1, VerdictInvariant, PTL

\* README: "A successful rollback marks the failed block as recovered; if rollback
\* itself fails, the workbook remains failed".  An uninterrupted device is reported as
\* good only if every failure was inside a block that was recovered.
THEOREM VerdictIsEarned == Spec => []CleanVerdict
  <1>1. JInv /\ VInv => CleanVerdict
    BY DEF VInv
  <1> QED
    BY <1>1, VerdictInvariant, PTL
===============================================================================
