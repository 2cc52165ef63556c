------------------------ MODULE MonitorPollingProofs ------------------------
(***************************************************************************)
(* MonitorPolling, for any number of devices, reminders, sessions and      *)
(* faults: one device at a time asks on the terminal, no session is left   *)
(* open, and who is said to be completed has its artifacts.                *)
(*                                                                         *)
(* Each property has an invariant of its own; all of them rest on the      *)
(* types.                                                                  *)
(***************************************************************************)
EXTENDS MonitorPolling, FiniteSetTheorems, TLAPS

Places == {"open", "before", "tick", "lost", "queue", "held", "start", "await", "loop",
           "end", "close", "over"}

Healths == {"none", "starting", "disconnected", "authentication-wait", "degraded",
            "healthy", "completed", "incomplete"}

AllTaken == {"before", "after"} \X Artifacts

TypeOK ==
  /\ pc \in [Devices -> Places] /\ why \in [Devices -> {"tick", "reminder"}]
  /\ stage \in [Devices -> Nat]
  /\ before \in [Devices -> BOOLEAN] /\ complete \in [Devices -> BOOLEAN]
  /\ failedSamples \in [Devices -> BOOLEAN] /\ pollErr \in [Devices -> BOOLEAN]
  /\ client \in [Devices -> Nat \ {0}] /\ link \in [Devices -> {"up", "denied", "down"}]
  /\ opened \in [Devices -> SUBSET Nat]
  /\ job \in [Devices -> {"none", "asking", "connected", "refused"}]
  /\ abandoned \in [Devices -> BOOLEAN]
  /\ health \in [Devices -> Healths]
  /\ sem \in Devices \cup {Nobody} /\ late \in Nat /\ cancelled \in BOOLEAN
  /\ exit \in {"running", "failure", "success"}
  /\ captured \in [Devices -> SUBSET AllTaken]

\* A goroutine is awaited or abandoned, and who gave one up does not come back.
JobState ==
  \A d \in Devices :
    /\ job[d] # "none" => pc[d] = "await" \/ abandoned[d]
    /\ pc[d] = "await" => job[d] # "none" /\ ~abandoned[d]
    /\ abandoned[d] => pc[d] \in {"lost", "end", "close", "over"}

\* Who is about to ask, or asks, is the one that has the semaphore, and only
\* who had looked at the context before it was cancelled begins to ask after.
PromptState ==
  /\ \A d \in Devices : pc[d] \in {"held", "start"} \/ job[d] = "asking" => sem = d
  /\ late <= 1 /\ (~cancelled => late = 0)
  /\ late = 1 => \A d \in Devices : pc[d] # "start"

\* What is open is the session in use, the NETCONF session, or the one that has come
\* up and that nobody uses yet.
Spare(d) == IF job[d] = "connected" THEN {client[d] + 1} ELSE {}

SessionState ==
  \A d \in Devices :
    /\ opened[d] \subseteq {0, client[d]} \cup Spare(d)
    /\ pc[d] = "over" => opened[d] \subseteq Spare(d)
    /\ pc[d] \notin {"over", "close"} => client[d] \in opened[d]
    /\ Spare(d) \subseteq opened[d]

\* What the verdict rests on, from the first capture to the health file.
Verdict(d) ==
  /\ before[d] /\ pc[d] \notin {"open", "before", "end", "close", "over"} =>
       captured[d] = {"before"} \X Artifacts
  /\ complete[d] => pc[d] \in {"end", "close", "over"} /\ captured[d] = AllTaken
  /\ health[d] = "completed" => complete[d] /\ pc[d] \in {"close", "over"}
  /\ ~pollErr[d] /\ pc[d] \notin {"open", "before"} => before[d]
  /\ ~pollErr[d] /\ pc[d] = "end" => complete[d]
  /\ ~pollErr[d] /\ pc[d] \in {"close", "over"} =>
       health[d] = "completed" /\ ~failedSamples[d]

ExitState ==
  exit # "running" => \A d \in Devices :
    pc[d] = "over" /\ (exit = "success" => ~pollErr[d])

VerdictState == (\A d \in Devices : Verdict(d)) /\ ExitState

-----------------------------------------------------------------------------
LEMMA InitTypes == Init => TypeOK
  <1> SUFFICES ASSUME Init PROVE TypeOK
    OBVIOUS
  <1>1. opened \in [Devices -> SUBSET Nat]
    BY DEF Init
  <1>2. captured \in [Devices -> SUBSET AllTaken]
    BY DEF Init
  <1>3. /\ before \in [Devices -> BOOLEAN] /\ complete \in [Devices -> BOOLEAN]
        /\ failedSamples \in [Devices -> BOOLEAN] /\ pollErr \in [Devices -> BOOLEAN]
        /\ abandoned \in [Devices -> BOOLEAN]
    BY DEF Init
  <1>4. /\ pc \in [Devices -> Places] /\ why \in [Devices -> {"tick", "reminder"}]
        /\ health \in [Devices -> Healths]
    BY DEF Init, Places, Healths
  <1>5. /\ job \in [Devices -> {"none", "asking", "connected", "refused"}]
        /\ link \in [Devices -> {"up", "denied", "down"}]
        /\ client \in [Devices -> Nat \ {0}] /\ stage \in [Devices -> Nat]
    BY DEF Init
  <1>6. /\ sem \in Devices \cup {Nobody} /\ late \in Nat /\ cancelled \in BOOLEAN
        /\ exit \in {"running", "failure", "success"}
    BY DEF Init
  <1> QED
    BY <1>1, <1>2, <1>3, <1>4, <1>5, <1>6 DEF TypeOK

\* What one capture takes is something that can be taken.
LEMMA TakenIsTyped ==
  ASSUME NEW d \in Devices, NEW got \in SUBSET Capturable(d)
  PROVE  /\ Taken("before", got) \subseteq AllTaken
         /\ Taken("after", got) \subseteq AllTaken
         /\ Taken("before", Artifacts) \cup Taken("after", Artifacts) = AllTaken
  BY DEF Capturable, Taken, AllTaken, Artifacts

\* Every step keeps the types.
LEMMA TypesKeep ==
  ASSUME TypeOK, [Next]_vars PROVE TypeOK'
  <1> USE DEF TypeOK, Places, Healths, At, Goto, Status, RunError, Mishap, Unless,
     loopVars, sessionVars, reauthVars
  <1>1. CASE UNCHANGED vars
    BY <1>1 DEF vars
  <1>2. ASSUME NEW d \in Devices, Open(d) PROVE TypeOK'
    BY <1>2 DEF Open
  <1>3. ASSUME NEW d \in Devices, OpenFails(d) PROVE TypeOK'
    BY <1>3 DEF OpenFails
  <1>4. ASSUME NEW d \in Devices, CaptureBefore(d) PROVE TypeOK'
    <2>1. PICK got \in SUBSET Capturable(d) :
            /\ captured' = [captured EXCEPT ![d] = Taken("before", got)]
            /\ before' = [before EXCEPT ![d] = got = Artifacts]
            /\ pollErr' = [pollErr EXCEPT ![d] = @ \/ got # Artifacts]
            /\ IF got = Artifacts THEN UNCHANGED health ELSE Status(d, "degraded")
      BY <1>4 DEF CaptureBefore
    <2>2. captured' \in [Devices -> SUBSET AllTaken]
      BY <2>1, TakenIsTyped
    <2>3. /\ before' \in [Devices -> BOOLEAN] /\ pollErr' \in [Devices -> BOOLEAN]
          /\ health' \in [Devices -> Healths]
      BY <2>1
    <2> QED
      BY <1>4, <2>2, <2>3 DEF CaptureBefore
  <1>5. ASSUME NEW d \in Devices, Tick(d) PROVE TypeOK'
    BY <1>5 DEF Tick, Findings, TickState, Record
  <1>6. ASSUME NEW d \in Devices, TickUnrecorded(d) PROVE TypeOK'
    BY <1>6 DEF TickUnrecorded, Findings, TickState, Record
  <1>7. ASSUME NEW d \in Devices, Lose(d) PROVE TypeOK'
    BY <1>7 DEF Lose
  <1>8. ASSUME NEW d \in Devices, Acquire(d) PROVE TypeOK'
    BY <1>8 DEF Acquire
  <1>9. ASSUME NEW d \in Devices, LeaveQueue(d) PROVE TypeOK'
    BY <1>9 DEF LeaveQueue, NotRefreshed, Unrecovered
  <1>10. ASSUME NEW d \in Devices, Proceed(d) PROVE TypeOK'
    BY <1>10 DEF Proceed
  <1>11. ASSUME NEW d \in Devices, Withdraw(d) PROVE TypeOK'
    BY <1>11 DEF Withdraw, NotRefreshed, Unrecovered
  <1>12. ASSUME NEW d \in Devices, Prompt(d) PROVE TypeOK'
    BY <1>12 DEF Prompt
  <1>13. ASSUME NEW d \in Devices, Swap(d) PROVE TypeOK'
    BY <1>13 DEF Swap
  <1>14. ASSUME NEW d \in Devices, GiveUp(d) PROVE TypeOK'
    BY <1>14 DEF GiveUp, NotRefreshed, Unrecovered
  <1>15. ASSUME NEW d \in Devices, Abandon(d) PROVE TypeOK'
    BY <1>15 DEF Abandon, LeaveRunning, NotRefreshed, Unrecovered
  <1>16. ASSUME NEW d \in Devices, CaptureAfter(d) PROVE TypeOK'
    BY <1>16, TakenIsTyped DEF CaptureAfter, Complete
  <1>17. ASSUME NEW d \in Devices, CloseRecorder(d) PROVE TypeOK'
    BY <1>17 DEF CloseRecorder
  <1>18. ASSUME NEW d \in Devices, CloseRecorderFails(d) PROVE TypeOK'
    BY <1>18 DEF CloseRecorderFails
  <1>19. ASSUME NEW d \in Devices, CloseSession(d) PROVE TypeOK'
    BY <1>19 DEF CloseSession
  <1>20. ASSUME NEW d \in Devices, TickerFires(d) PROVE TypeOK'
    BY <1>20 DEF TickerFires
  <1>21. ASSUME NEW d \in Devices, Remind(d) PROVE TypeOK'
    BY <1>21 DEF Remind
  <1>22. ASSUME NEW d \in Devices, Refresh(d) PROVE TypeOK'
    BY <1>22 DEF Refresh
  <1>23. ASSUME NEW d \in Devices, RefreshUnrecorded(d) PROVE TypeOK'
    BY <1>23 DEF RefreshUnrecorded
  <1>24. ASSUME NEW d \in Devices, Release(d) PROVE TypeOK'
    BY <1>24 DEF Release
  <1>25. ASSUME NEW d \in Devices, Drain(d) PROVE TypeOK'
    BY <1>25 DEF Drain, CloseLate
  <1>26. ASSUME NEW d \in Devices, Answer(d) PROVE TypeOK'
    BY <1>26 DEF Answer
  <1>27. ASSUME NEW d \in Devices, Degrade(d) PROVE TypeOK'
    BY <1>27 DEF Degrade
  <1>28. ASSUME Cancel PROVE TypeOK'
    BY <1>28 DEF Cancel
  <1>29. ASSUME Exit PROVE TypeOK'
    BY <1>29 DEF Exit
  <1> QED
    BY <1>1, <1>2, <1>3, <1>4, <1>5, <1>6, <1>7, <1>8, <1>9, <1>10, <1>11, <1>12, <1>13,
       <1>14, <1>15, <1>16, <1>17, <1>18, <1>19, <1>20, <1>21, <1>22, <1>23, <1>24,
       <1>25, <1>26, <1>27, <1>28, <1>29
       DEF Next, PollStep, TimerStep, JobStep, Exited

-----------------------------------------------------------------------------
(* One prompt at a time *)

PromptInv == TypeOK /\ JobState /\ PromptState

LEMMA InitPrompts == Init => PromptInv
  <1> SUFFICES ASSUME Init PROVE PromptInv
    OBVIOUS
  <1>1. JobState /\ PromptState
    BY DEF Init, JobState, PromptState
  <1> QED
    BY <1>1, InitTypes DEF PromptInv

\* A goroutine has an owner before and after every step.
LEMMA JobsKeep ==
  ASSUME TypeOK, JobState, [Next]_vars PROVE JobState'
  <1> USE DEF TypeOK, JobState, At, Goto, loopVars, sessionVars, reauthVars
  <1>1. CASE UNCHANGED vars
    BY <1>1 DEF vars
  <1>2. ASSUME NEW d \in Devices, Open(d) PROVE JobState'
    BY <1>2 DEF Open
  <1>3. ASSUME NEW d \in Devices, OpenFails(d) PROVE JobState'
    BY <1>3 DEF OpenFails
  <1>4. ASSUME NEW d \in Devices, CaptureBefore(d) PROVE JobState'
    BY <1>4 DEF CaptureBefore
  <1>5. ASSUME NEW d \in Devices, Tick(d) PROVE JobState'
    BY <1>5 DEF Tick
  <1>6. ASSUME NEW d \in Devices, TickUnrecorded(d) PROVE JobState'
    BY <1>6 DEF TickUnrecorded
  <1>7. ASSUME NEW d \in Devices, Lose(d) PROVE JobState'
    BY <1>7 DEF Lose
  <1>8. ASSUME NEW d \in Devices, Acquire(d) PROVE JobState'
    BY <1>8 DEF Acquire
  <1>9. ASSUME NEW d \in Devices, LeaveQueue(d) PROVE JobState'
    BY <1>9 DEF LeaveQueue, Unrecovered
  <1>10. ASSUME NEW d \in Devices, Proceed(d) PROVE JobState'
    BY <1>10 DEF Proceed
  <1>11. ASSUME NEW d \in Devices, Withdraw(d) PROVE JobState'
    BY <1>11 DEF Withdraw, Unrecovered
  <1>12. ASSUME NEW d \in Devices, Prompt(d) PROVE JobState'
    BY <1>12 DEF Prompt
  <1>13. ASSUME NEW d \in Devices, Swap(d) PROVE JobState'
    BY <1>13 DEF Swap
  <1>14. ASSUME NEW d \in Devices, GiveUp(d) PROVE JobState'
    BY <1>14 DEF GiveUp, Unrecovered
  <1>15. ASSUME NEW d \in Devices, Abandon(d) PROVE JobState'
    BY <1>15 DEF Abandon, Unrecovered
  <1>16. ASSUME NEW d \in Devices, CaptureAfter(d) PROVE JobState'
    BY <1>16 DEF CaptureAfter
  <1>17. ASSUME NEW d \in Devices, CloseRecorder(d) PROVE JobState'
    BY <1>17 DEF CloseRecorder
  <1>18. ASSUME NEW d \in Devices, CloseRecorderFails(d) PROVE JobState'
    BY <1>18 DEF CloseRecorderFails
  <1>19. ASSUME NEW d \in Devices, CloseSession(d) PROVE JobState'
    BY <1>19 DEF CloseSession
  <1>20. ASSUME NEW d \in Devices, TickerFires(d) PROVE JobState'
    BY <1>20 DEF TickerFires
  <1>21. ASSUME NEW d \in Devices, Remind(d) PROVE JobState'
    BY <1>21 DEF Remind
  <1>22. ASSUME NEW d \in Devices, Refresh(d) PROVE JobState'
    BY <1>22 DEF Refresh
  <1>23. ASSUME NEW d \in Devices, RefreshUnrecorded(d) PROVE JobState'
    BY <1>23 DEF RefreshUnrecorded
  <1>24. ASSUME NEW d \in Devices, Release(d) PROVE JobState'
    BY <1>24 DEF Release
  <1>25. ASSUME NEW d \in Devices, Drain(d) PROVE JobState'
    BY <1>25 DEF Drain
  <1>26. ASSUME NEW d \in Devices, Answer(d) PROVE JobState'
    BY <1>26 DEF Answer
  <1>27. ASSUME NEW d \in Devices, Degrade(d) PROVE JobState'
    BY <1>27 DEF Degrade
  <1>28. ASSUME Cancel PROVE JobState'
    BY <1>28 DEF Cancel
  <1>29. ASSUME Exit PROVE JobState'
    BY <1>29 DEF Exit
  <1> QED
    BY <1>1, <1>2, <1>3, <1>4, <1>5, <1>6, <1>7, <1>8, <1>9, <1>10, <1>11, <1>12, <1>13,
       <1>14, <1>15, <1>16, <1>17, <1>18, <1>19, <1>20, <1>21, <1>22, <1>23, <1>24,
       <1>25, <1>26, <1>27, <1>28, <1>29
       DEF Next, PollStep, TimerStep, JobStep, Exited

\* The semaphore changes hands only where nobody asks or is about to.
LEMMA PromptsKeep ==
  ASSUME TypeOK, JobState, PromptState, [Next]_vars PROVE PromptState'
  <1> USE DEF TypeOK, JobState, PromptState, At, Goto, loopVars, sessionVars, reauthVars
  <1>1. CASE UNCHANGED vars
    BY <1>1 DEF vars
  <1>2. ASSUME NEW d \in Devices, Open(d) PROVE PromptState'
    BY <1>2 DEF Open
  <1>3. ASSUME NEW d \in Devices, OpenFails(d) PROVE PromptState'
    BY <1>3 DEF OpenFails
  <1>4. ASSUME NEW d \in Devices, CaptureBefore(d) PROVE PromptState'
    BY <1>4 DEF CaptureBefore
  <1>5. ASSUME NEW d \in Devices, Tick(d) PROVE PromptState'
    BY <1>5 DEF Tick
  <1>6. ASSUME NEW d \in Devices, TickUnrecorded(d) PROVE PromptState'
    BY <1>6 DEF TickUnrecorded
  <1>7. ASSUME NEW d \in Devices, Lose(d) PROVE PromptState'
    BY <1>7 DEF Lose
  <1>8. ASSUME NEW d \in Devices, Acquire(d) PROVE PromptState'
    BY <1>8, PollingAssumption DEF Acquire
  <1>9. ASSUME NEW d \in Devices, LeaveQueue(d) PROVE PromptState'
    BY <1>9 DEF LeaveQueue, Unrecovered
  <1>10. ASSUME NEW d \in Devices, Proceed(d) PROVE PromptState'
    BY <1>10 DEF Proceed, ContextAlive
  <1>11. ASSUME NEW d \in Devices, Withdraw(d) PROVE PromptState'
    BY <1>11 DEF Withdraw, ContextAlive, Unrecovered
  <1>12. ASSUME NEW d \in Devices, Prompt(d) PROVE PromptState'
    BY <1>12 DEF Prompt
  <1>13. ASSUME NEW d \in Devices, Swap(d) PROVE PromptState'
    BY <1>13 DEF Swap
  <1>14. ASSUME NEW d \in Devices, GiveUp(d) PROVE PromptState'
    BY <1>14 DEF GiveUp, Unrecovered
  <1>15. ASSUME NEW d \in Devices, Abandon(d) PROVE PromptState'
    BY <1>15 DEF Abandon, LeaveRunning, Unrecovered
  <1>16. ASSUME NEW d \in Devices, CaptureAfter(d) PROVE PromptState'
    BY <1>16 DEF CaptureAfter
  <1>17. ASSUME NEW d \in Devices, CloseRecorder(d) PROVE PromptState'
    BY <1>17 DEF CloseRecorder
  <1>18. ASSUME NEW d \in Devices, CloseRecorderFails(d) PROVE PromptState'
    BY <1>18 DEF CloseRecorderFails
  <1>19. ASSUME NEW d \in Devices, CloseSession(d) PROVE PromptState'
    BY <1>19 DEF CloseSession
  <1>20. ASSUME NEW d \in Devices, TickerFires(d) PROVE PromptState'
    BY <1>20 DEF TickerFires
  <1>21. ASSUME NEW d \in Devices, Remind(d) PROVE PromptState'
    BY <1>21 DEF Remind
  <1>22. ASSUME NEW d \in Devices, Refresh(d) PROVE PromptState'
    BY <1>22 DEF Refresh
  <1>23. ASSUME NEW d \in Devices, RefreshUnrecorded(d) PROVE PromptState'
    BY <1>23 DEF RefreshUnrecorded
  <1>24. ASSUME NEW d \in Devices, Release(d) PROVE PromptState'
    BY <1>24 DEF Release
  <1>25. ASSUME NEW d \in Devices, Drain(d) PROVE PromptState'
    BY <1>25 DEF Drain
  <1>26. ASSUME NEW d \in Devices, Answer(d) PROVE PromptState'
    BY <1>26 DEF Answer
  <1>27. ASSUME NEW d \in Devices, Degrade(d) PROVE PromptState'
    BY <1>27 DEF Degrade
  <1>28. ASSUME Cancel PROVE PromptState'
    BY <1>28 DEF Cancel
  <1>29. ASSUME Exit PROVE PromptState'
    BY <1>29 DEF Exit
  <1> QED
    BY <1>1, <1>2, <1>3, <1>4, <1>5, <1>6, <1>7, <1>8, <1>9, <1>10, <1>11, <1>12, <1>13,
       <1>14, <1>15, <1>16, <1>17, <1>18, <1>19, <1>20, <1>21, <1>22, <1>23, <1>24,
       <1>25, <1>26, <1>27, <1>28, <1>29
       DEF Next, PollStep, TimerStep, JobStep, Exited

LEMMA OneAsks == ASSUME PromptState PROVE OnePromptAtATime
  <1>1. Cardinality({}) = 0 /\ Cardinality({sem}) = 1
    BY FS_EmptySet, FS_Singleton, Zenon
  <1>2. Asking = {} \/ Asking = {sem}
    BY DEF PromptState, Asking
  <1>3. Cardinality(Asking) <= 1
    BY <1>1, <1>2
  <1> QED
    BY <1>3 DEF PromptState, OnePromptAtATime

\* The inductive invariant of the semaphore: it belongs to whoever asks or is about
\* to, and every goroutine is awaited or given up (Reconnect).
THEOREM PromptInvariant == Spec => []PromptInv
  <1>1. PromptInv /\ [Next]_vars => PromptInv'
    BY TypesKeep, JobsKeep, PromptsKeep DEF PromptInv
  <1> QED
    BY InitPrompts, <1>1, PTL DEF Spec

\* For every number of devices: one prompt at a time, and at most one that begins
\* after the run is cancelled (Reconnect).
THEOREM PromptsExclude == Spec => []OnePromptAtATime
  <1>1. PromptInv => OnePromptAtATime
    BY OneAsks DEF PromptInv
  <1> QED
    BY PromptInvariant, <1>1, PTL

-----------------------------------------------------------------------------
(* Sessions *)

SessionInv == TypeOK /\ JobState /\ SessionState

LEMMA InitSessions == Init => SessionInv
  <1> SUFFICES ASSUME Init PROVE SessionInv
    OBVIOUS
  <1>1. JobState /\ SessionState
    BY DEF Init, JobState, SessionState, Spare
  <1> QED
    BY <1>1, InitTypes DEF SessionInv

\* Sessions come up in Answer, and go in Swap, Drain and CloseSession.
LEMMA SessionsKeep ==
  ASSUME TypeOK, JobState, SessionState, [Next]_vars PROVE SessionState'
  <1> USE DEF TypeOK, JobState, SessionState, Spare, At, Goto, loopVars, sessionVars,
     reauthVars
  <1>1. CASE UNCHANGED vars
    BY <1>1 DEF vars
  <1>2. ASSUME NEW d \in Devices, Open(d) PROVE SessionState'
    BY <1>2 DEF Open
  <1>3. ASSUME NEW d \in Devices, OpenFails(d) PROVE SessionState'
    BY <1>3 DEF OpenFails
  <1>4. ASSUME NEW d \in Devices, CaptureBefore(d) PROVE SessionState'
    BY <1>4 DEF CaptureBefore
  <1>5. ASSUME NEW d \in Devices, Tick(d) PROVE SessionState'
    BY <1>5 DEF Tick
  <1>6. ASSUME NEW d \in Devices, TickUnrecorded(d) PROVE SessionState'
    BY <1>6 DEF TickUnrecorded
  <1>7. ASSUME NEW d \in Devices, Lose(d) PROVE SessionState'
    BY <1>7 DEF Lose
  <1>8. ASSUME NEW d \in Devices, Acquire(d) PROVE SessionState'
    BY <1>8 DEF Acquire
  <1>9. ASSUME NEW d \in Devices, LeaveQueue(d) PROVE SessionState'
    BY <1>9 DEF LeaveQueue, Unrecovered
  <1>10. ASSUME NEW d \in Devices, Proceed(d) PROVE SessionState'
    BY <1>10 DEF Proceed
  <1>11. ASSUME NEW d \in Devices, Withdraw(d) PROVE SessionState'
    BY <1>11 DEF Withdraw, Unrecovered
  <1>12. ASSUME NEW d \in Devices, Prompt(d) PROVE SessionState'
    BY <1>12 DEF Prompt
  <1>13. ASSUME NEW d \in Devices, Swap(d) PROVE SessionState'
    BY <1>13 DEF Swap
  <1>14. ASSUME NEW d \in Devices, GiveUp(d) PROVE SessionState'
    BY <1>14 DEF GiveUp, Unrecovered
  <1>15. ASSUME NEW d \in Devices, Abandon(d) PROVE SessionState'
    BY <1>15 DEF Abandon, Unrecovered
  <1>16. ASSUME NEW d \in Devices, CaptureAfter(d) PROVE SessionState'
    BY <1>16 DEF CaptureAfter
  <1>17. ASSUME NEW d \in Devices, CloseRecorder(d) PROVE SessionState'
    BY <1>17 DEF CloseRecorder
  <1>18. ASSUME NEW d \in Devices, CloseRecorderFails(d) PROVE SessionState'
    BY <1>18 DEF CloseRecorderFails
  <1>19. ASSUME NEW d \in Devices, CloseSession(d) PROVE SessionState'
    BY <1>19 DEF CloseSession
  <1>20. ASSUME NEW d \in Devices, TickerFires(d) PROVE SessionState'
    BY <1>20 DEF TickerFires
  <1>21. ASSUME NEW d \in Devices, Remind(d) PROVE SessionState'
    BY <1>21 DEF Remind
  <1>22. ASSUME NEW d \in Devices, Refresh(d) PROVE SessionState'
    BY <1>22 DEF Refresh
  <1>23. ASSUME NEW d \in Devices, RefreshUnrecorded(d) PROVE SessionState'
    BY <1>23 DEF RefreshUnrecorded
  <1>24. ASSUME NEW d \in Devices, Release(d) PROVE SessionState'
    BY <1>24 DEF Release
  <1>25. ASSUME NEW d \in Devices, Drain(d) PROVE SessionState'
    BY <1>25 DEF Drain, CloseLate
  <1>26. ASSUME NEW d \in Devices, Answer(d) PROVE SessionState'
    BY <1>26 DEF Answer
  <1>27. ASSUME NEW d \in Devices, Degrade(d) PROVE SessionState'
    BY <1>27 DEF Degrade
  <1>28. ASSUME Cancel PROVE SessionState'
    BY <1>28 DEF Cancel
  <1>29. ASSUME Exit PROVE SessionState'
    BY <1>29 DEF Exit
  <1> QED
    BY <1>1, <1>2, <1>3, <1>4, <1>5, <1>6, <1>7, <1>8, <1>9, <1>10, <1>11, <1>12, <1>13,
       <1>14, <1>15, <1>16, <1>17, <1>18, <1>19, <1>20, <1>21, <1>22, <1>23, <1>24,
       <1>25, <1>26, <1>27, <1>28, <1>29
       DEF Next, PollStep, TimerStep, JobStep, Exited

\* The inductive invariant of the sessions: what is open is in use, or is the one
\* that has just come up (Reconnect, PollDevice).
THEOREM SessionInvariant == Spec => []SessionInv
  <1>1. SessionInv /\ [Next]_vars => SessionInv'
    BY TypesKeep, JobsKeep, SessionsKeep DEF SessionInv
  <1> QED
    BY InitSessions, <1>1, PTL DEF Spec

\* For every number of devices and of sessions, and whatever comes up late, none is
\* left open, and none in use is closed (Reconnect, PollDevice).
THEOREM NoSessionLeaks == Spec => []SessionsAreClosed
  <1>1. SessionInv => SessionsAreClosed
    BY DEF SessionInv, SessionState, SessionsAreClosed, Spare
  <1> QED
    BY SessionInvariant, <1>1, PTL

-----------------------------------------------------------------------------
(* The verdict *)

VerdictInv == TypeOK /\ VerdictState

LEMMA InitVerdict == Init => VerdictInv
  <1> SUFFICES ASSUME Init PROVE VerdictInv
    OBVIOUS
  <1>1. VerdictState
    BY DEF Init, VerdictState, Verdict, ExitState
  <1> QED
    BY <1>1, InitTypes DEF VerdictInv

\* The verdict is built in CaptureBefore, CaptureAfter and CloseRecorder.
LEMMA VerdictKeeps ==
  ASSUME TypeOK, VerdictState, [Next]_vars PROVE VerdictState'
  <1> USE DEF TypeOK, VerdictState, Verdict, ExitState, At, Goto, Status, RunError,
     loopVars, sessionVars, reauthVars
  <1>1. CASE UNCHANGED vars
    BY <1>1 DEF vars
  <1>2. ASSUME NEW d \in Devices, Open(d) PROVE VerdictState'
    BY <1>2 DEF Open
  <1>3. ASSUME NEW d \in Devices, OpenFails(d) PROVE VerdictState'
    BY <1>3 DEF OpenFails
  <1>4. ASSUME NEW d \in Devices, CaptureBefore(d) PROVE VerdictState'
    <2>1. PICK got \in SUBSET Capturable(d) :
            /\ captured' = [captured EXCEPT ![d] = Taken("before", got)]
            /\ before' = [before EXCEPT ![d] = got = Artifacts]
            /\ pollErr' = [pollErr EXCEPT ![d] = @ \/ got # Artifacts]
            /\ IF got = Artifacts THEN UNCHANGED health ELSE Status(d, "degraded")
      BY <1>4 DEF CaptureBefore
    <2>2. got = Artifacts => captured'[d] = {"before"} \X Artifacts
      BY <2>1 DEF Taken
    <2>3. pc[d] = "before" /\ exit = "running" /\ pc' = [pc EXCEPT ![d] = "tick"]
          /\ UNCHANGED <<complete, failedSamples, exit>>
      BY <1>4 DEF CaptureBefore
    <2>4. \A c \in Devices \ {d} : /\ pc'[c] = pc[c] /\ captured'[c] = captured[c]
                                  /\ before'[c] = before[c] /\ health'[c] = health[c]
                                  /\ pollErr'[c] = pollErr[c]
      BY <2>1, <2>3
    <2>5. /\ pc'[d] = "tick" /\ before'[d] = (got = Artifacts)
          /\ ~pollErr'[d] => got = Artifacts
          /\ ~complete[d] /\ health'[d] # "completed"
      <3>1. pc'[d] = "tick" /\ before'[d] = (got = Artifacts)
        BY <2>1, <2>3
      <3>2. ~pollErr'[d] => got = Artifacts
        <4>1. d \in DOMAIN pollErr /\ pollErr[d] \in BOOLEAN
          OBVIOUS
        <4>2. pollErr'[d] = (pollErr[d] \/ got # Artifacts)
          <5> HIDE DEF TypeOK, VerdictState, Verdict, ExitState
          <5> QED
            BY <2>1, <4>1
        <4> QED
          BY <4>2, Zenon
      <3>3. ~complete[d] /\ health[d] # "completed"
        BY <2>3
      <3>4. health'[d] # "completed"
        BY <2>1, <3>3
      <3> QED
        BY <3>1, <3>2, <3>3, <3>4
    <2>6. ExitState'
      BY <2>3 DEF ExitState
    <2>7. \A c \in Devices : Verdict(c)'
      <3> SUFFICES ASSUME NEW c \in Devices PROVE Verdict(c)'
        OBVIOUS
      <3>1. CASE c = d
        BY <2>2, <2>3, <2>5, <3>1
      <3>2. CASE c # d
        BY <2>3, <2>4, <3>2
      <3> QED
        BY <3>1, <3>2
    <2> QED
      BY <2>6, <2>7
  <1>5. ASSUME NEW d \in Devices, Tick(d) PROVE VerdictState'
    BY <1>5 DEF Tick, Findings, TickState, Record
  <1>6. ASSUME NEW d \in Devices, TickUnrecorded(d) PROVE VerdictState'
    BY <1>6 DEF TickUnrecorded, Findings, TickState, Record
  <1>7. ASSUME NEW d \in Devices, Lose(d) PROVE VerdictState'
    BY <1>7 DEF Lose
  <1>8. ASSUME NEW d \in Devices, Acquire(d) PROVE VerdictState'
    BY <1>8 DEF Acquire
  <1>9. ASSUME NEW d \in Devices, LeaveQueue(d) PROVE VerdictState'
    BY <1>9 DEF LeaveQueue, NotRefreshed, Unrecovered
  <1>10. ASSUME NEW d \in Devices, Proceed(d) PROVE VerdictState'
    BY <1>10 DEF Proceed
  <1>11. ASSUME NEW d \in Devices, Withdraw(d) PROVE VerdictState'
    BY <1>11 DEF Withdraw, NotRefreshed, Unrecovered
  <1>12. ASSUME NEW d \in Devices, Prompt(d) PROVE VerdictState'
    BY <1>12 DEF Prompt
  <1>13. ASSUME NEW d \in Devices, Swap(d) PROVE VerdictState'
    BY <1>13 DEF Swap
  <1>14. ASSUME NEW d \in Devices, GiveUp(d) PROVE VerdictState'
    BY <1>14 DEF GiveUp, NotRefreshed, Unrecovered
  <1>15. ASSUME NEW d \in Devices, Abandon(d) PROVE VerdictState'
    BY <1>15 DEF Abandon, NotRefreshed, Unrecovered
  <1>16. ASSUME NEW d \in Devices, CaptureAfter(d) PROVE VerdictState'
    <2>1. PICK got \in SUBSET Capturable(d) :
            /\ captured' = [captured EXCEPT ![d] = @ \cup Taken("after", got)]
            /\ complete' = [complete EXCEPT ![d] = Complete(d, got)]
            /\ pollErr' = [pollErr EXCEPT ![d] = @ \/ got # Artifacts]
      BY <1>16 DEF CaptureAfter
    <2>2. Complete(d, got) => captured'[d] = AllTaken
      BY <1>16, <2>1, TakenIsTyped DEF CaptureAfter, Complete, Taken
    <2> QED
      BY <1>16, <2>1, <2>2 DEF CaptureAfter, Complete
  <1>17. ASSUME NEW d \in Devices, CloseRecorder(d) PROVE VerdictState'
    BY <1>17 DEF CloseRecorder
  <1>18. ASSUME NEW d \in Devices, CloseRecorderFails(d) PROVE VerdictState'
    BY <1>18 DEF CloseRecorderFails
  <1>19. ASSUME NEW d \in Devices, CloseSession(d) PROVE VerdictState'
    BY <1>19 DEF CloseSession
  <1>20. ASSUME NEW d \in Devices, TickerFires(d) PROVE VerdictState'
    BY <1>20 DEF TickerFires
  <1>21. ASSUME NEW d \in Devices, Remind(d) PROVE VerdictState'
    BY <1>21 DEF Remind
  <1>22. ASSUME NEW d \in Devices, Refresh(d) PROVE VerdictState'
    BY <1>22 DEF Refresh
  <1>23. ASSUME NEW d \in Devices, RefreshUnrecorded(d) PROVE VerdictState'
    BY <1>23 DEF RefreshUnrecorded
  <1>24. ASSUME NEW d \in Devices, Release(d) PROVE VerdictState'
    BY <1>24 DEF Release
  <1>25. ASSUME NEW d \in Devices, Drain(d) PROVE VerdictState'
    BY <1>25 DEF Drain
  <1>26. ASSUME NEW d \in Devices, Answer(d) PROVE VerdictState'
    BY <1>26 DEF Answer
  <1>27. ASSUME NEW d \in Devices, Degrade(d) PROVE VerdictState'
    BY <1>27 DEF Degrade
  <1>28. ASSUME Cancel PROVE VerdictState'
    BY <1>28 DEF Cancel
  <1>29. ASSUME Exit PROVE VerdictState'
    BY <1>29 DEF Exit
  <1> QED
    BY <1>1, <1>2, <1>3, <1>4, <1>5, <1>6, <1>7, <1>8, <1>9, <1>10, <1>11, <1>12, <1>13,
       <1>14, <1>15, <1>16, <1>17, <1>18, <1>19, <1>20, <1>21, <1>22, <1>23, <1>24,
       <1>25, <1>26, <1>27, <1>28, <1>29
       DEF Next, PollStep, TimerStep, JobStep, Exited

\* The inductive invariant of the verdict: what each place of PollDevice has
\* established of the artifacts and of the errors.
THEOREM VerdictInvariant == Spec => []VerdictInv
  <1>1. VerdictInv /\ [Next]_vars => VerdictInv'
    BY TypesKeep, VerdictKeeps DEF VerdictInv
  <1> QED
    BY InitVerdict, <1>1, PTL DEF Spec

\* For every fleet and any faults: who is called completed has all its artifacts, and
\* a run that exits well has only completed devices (PollDevice, recorder.Close).
THEOREM CompletionEarned == Spec => []CompletedIsEarned
  <1>1. VerdictInv => CompletedIsEarned
    BY DEF VerdictInv, VerdictState, Verdict, ExitState, CompletedIsEarned, AllTaken
  <1> QED
    BY VerdictInvariant, <1>1, PTL
=============================================================================
