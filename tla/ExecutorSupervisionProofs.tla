--------------------- MODULE ExecutorSupervisionProofs ---------------------
(***************************************************************************)
(* What a supervised run leaves behind and what its verdict means, for     *)
(* every length of input, size of the pipe and number of interrupts.       *)
(***************************************************************************)
EXTENDS ExecutorSupervision, TLAPS

-----------------------------------------------------------------------------
(* The inductive invariant.                                                *)

\* The group: an exit is recorded with the child's end, and exit_code is a copy of it.
Processual ==
    /\ exit = "none" <=> child \in {"none", "running"}
    /\ code # "none" => code = exit
    /\ child = "none" <=> pc = "launch" \/ result = "launch"
    /\ result = "launch" => pc = "ended"
    /\ signals = "none" => exit # "stopped"

\* The shutdown: what each path to it has established, and what it leaves.
Shutting ==
    /\ signals = "none" <=> ~shutdown
    /\ after # "none" <=> pc \in {"grace", "kill"}
    /\ pc \in {"grace", "kill"} => shutdown
    /\ pc \in {"launch", "setup", "loop"} => ~shutdown /\ result = "none"
    /\ pc = "kill" => signals = "kill"
    /\ pc \in {"launch", "setup", "loop", "grace", "kill"} => lost = "no"
    /\ timedOut => shutdown
    /\ after = "timeout" => timedOut /\ result = "none"
    /\ after \in {"setup", "except"} => result # "none"
    /\ after = "final" => result = "none" /\ child = "reaped" /\ writer = "done"
                          /\ ~timedOut /\ exit # "stopped"
    /\ pc \in {"finally", "join"} =>
          IF shutdown THEN lost = "no" => child = "reaped" /\ signals = "kill"
                      ELSE result = "none" /\ lost = "no" /\ child = "reaped" /\ code = exit
    /\ pc \in {"finally", "join"} /\ shutdown /\ result = "none" => timedOut /\ lost = "no"

\* The writer: without an error it ends having written everything.
Writing ==
    /\ writer \in {"close", "closed", "done"} /\ ~writeError => sent = Chunks
    /\ pc = "launch" => writer = "none"
    /\ writer = "none" => pc \in {"launch", "setup"} \/ result # "none"

\* Before and after the verdict.
Deciding ==
    /\ pc = "decide" => /\ shutdown /\ result = "none" /\ lost = "no" /\ writer = "done"
                        /\ child = "reaped" /\ signals = "kill"
                        /\ ~timedOut => exit # "stopped" /\ code = exit
    /\ result \in Outcomes => pc = "ended" /\ writer = "done"
    /\ result # "incomplete"
    /\ NothingLeft /\ VerdictIsOwn

Supervised == TypeOK /\ Processual /\ Shutting /\ Writing /\ Deciding

USE DEF Processes, Outcomes, Errors

LEMMA SupervisedInit == Init => Supervised
<1> SUFFICES ASSUME Init PROVE Supervised
  OBVIOUS
<1> USE SizesAssumption DEF Init
<1>1. TypeOK
  <2>1. 0 \in 0..Chunks /\ 0 \in 0..MaxInterrupts
    OBVIOUS
  <2> QED
    BY <2>1 DEF TypeOK
<1>2. Processual /\ Shutting /\ Writing
  BY DEF Processual, Shutting, Writing
<1>3. Deciding
  BY DEF Deciding, NothingLeft, VerdictIsOwn
<1> QED
  BY <1>1, <1>2, <1>3 DEF Supervised

LEMMA SupervisedStep == Supervised /\ [Next]_vars => Supervised'
<1> SUFFICES ASSUME Supervised, [Next]_vars PROVE Supervised'
  OBVIOUS
<1> USE SizesAssumption
        DEF Supervised, TypeOK, Processual, Shutting, Writing, Deciding, NothingLeft, VerdictIsOwn,
            parent, thread, group
<1>1. CASE Launch
  BY <1>1 DEF Launch, Goto
<1>2. CASE StartWriter
  BY <1>2 DEF StartWriter
<1>3. CASE EnterLoop
  BY <1>3 DEF EnterLoop, Goto
<1>4. CASE GraceEnds
  BY <1>4 DEF GraceEnds, Reap
<1>5. CASE KillEnds
  <2>1. TypeOK'
    BY <1>5 DEF KillEnds, Reap, Return
  <2>2. Processual'
    BY <1>5 DEF KillEnds, Reap, Return
  <2>3. Shutting'
    BY <1>5 DEF KillEnds, Reap, Return
  <2>4. Writing'
    BY <1>5 DEF KillEnds, Reap, Return
  <2>5. Deciding'
    BY <1>5 DEF KillEnds, Reap, Return
  <2> QED
    BY <2>1, <2>2, <2>3, <2>4, <2>5
<1>6. CASE KillTimesOut
  BY <1>6 DEF KillTimesOut, Return
<1>7. CASE DeadlinePasses
  BY <1>7 DEF DeadlinePasses, Shutdown
<1>8. CASE ChildEnds
  BY <1>8 DEF ChildEnds, Iterating, Reap
<1>9. CASE WriterNoticed
  BY <1>9 DEF WriterNoticed, Iterating, Shutdown
<1>10. CASE StdoutEnds
  BY <1>10 DEF StdoutEnds, Iterating, Reap
<1>11. CASE Poll
  BY <1>11 DEF Poll, Iterating, Reap
<1>12. CASE CloseInput
  BY <1>12 DEF CloseInput, Goto
<1>13. CASE Join
  BY <1>13 DEF Join, Goto
<1>14. CASE JoinAndShutdown
  <2>0. result = "none" /\ child = "reaped" /\ ~timedOut /\ signals = "none" /\ lost = "no"
    BY <1>14 DEF JoinAndShutdown
  <2>1. TypeOK'
    BY <1>14, <2>0 DEF JoinAndShutdown, Shutdown
  <2>2. Processual'
    BY <1>14, <2>0 DEF JoinAndShutdown, Shutdown
  <2>3. Shutting'
    BY <1>14, <2>0 DEF JoinAndShutdown, Shutdown
  <2>4. Writing'
    BY <1>14, <2>0 DEF JoinAndShutdown, Shutdown
  <2>5. Deciding'
    BY <1>14, <2>0 DEF JoinAndShutdown, Shutdown
  <2> QED
    BY <2>1, <2>2, <2>3, <2>4, <2>5
<1>15. CASE Decide
  <2>1. TypeOK'
    BY <1>15 DEF Decide, Verdict
  <2>2. Processual'
    BY <1>15 DEF Decide, Verdict
  <2>3. Shutting'
    BY <1>15 DEF Decide, Verdict
  <2>4. Writing'
    BY <1>15 DEF Decide, Verdict
  <2>5. Deciding'
    <3>1. ~writeError => sent = Chunks
      BY <1>15 DEF Decide
    <3>2. CASE writeError
      <4>1. Verdict = "write"
        BY <3>2, Zenon DEF Verdict
      <4> QED
        BY <1>15, <4>1 DEF Decide
    <3>3. CASE ~writeError /\ closeError
      <4>1. Verdict = "close"
        BY <3>3, Zenon DEF Verdict
      <4> QED
        BY <1>15, <4>1 DEF Decide
    <3>4. CASE ~writeError /\ ~closeError /\ timedOut
      <4>1. Verdict = "timeout"
        BY <3>1, <3>4 DEF Verdict
      <4> QED
        BY <1>15, <3>1, <3>4, <4>1 DEF Decide
    <3>5. CASE ~writeError /\ ~closeError /\ ~timedOut /\ code = "zero"
      <4>1. Verdict = "success"
        BY <3>1, <3>5 DEF Verdict
      <4> QED
        BY <1>15, <3>1, <3>5, <4>1 DEF Decide
    <3>6. CASE ~writeError /\ ~closeError /\ ~timedOut /\ code # "zero"
      <4>1. Verdict = "failed"
        BY <3>1, <3>6 DEF Verdict
      <4> QED
        BY <1>15, <3>1, <3>6, <4>1 DEF Decide
    <3> QED
      BY <3>2, <3>3, <3>4, <3>5, <3>6
  <2> QED
    BY <2>1, <2>2, <2>3, <2>4, <2>5
<1>16. CASE LaunchFails
  <2>1. TypeOK'
    BY <1>16 DEF LaunchFails
  <2>2. Processual'
    BY <1>16 DEF LaunchFails
  <2>3. Shutting'
    BY <1>16 DEF LaunchFails
  <2>4. Writing'
    BY <1>16 DEF LaunchFails
  <2>5. Deciding'
    BY <1>16 DEF LaunchFails
  <2> QED
    BY <2>1, <2>2, <2>3, <2>4, <2>5
<1>17. CASE SetupFails
  BY <1>17 DEF SetupFails, Shutdown
<1>18. CASE StreamFails
  BY <1>18 DEF StreamFails, Iterating, Shutdown
<1>19. CASE InterruptWork
  BY <1>19 DEF InterruptWork, Interrupted, Shutdown
<1>20. CASE InterruptShutdown
  <2>1. TypeOK'
    BY <1>20 DEF InterruptShutdown, Interrupted
  <2>2. Processual'
    BY <1>20 DEF InterruptShutdown, Interrupted
  <2>3. Shutting'
    BY <1>20 DEF InterruptShutdown, Interrupted
  <2>4. Writing'
    BY <1>20 DEF InterruptShutdown, Interrupted
  <2>5. Deciding'
    BY <1>20 DEF InterruptShutdown, Interrupted
  <2> QED
    BY <2>1, <2>2, <2>3, <2>4, <2>5
<1>21. CASE InterruptEnd
  <2>1. TypeOK'
    BY <1>21 DEF InterruptEnd, Interrupted
  <2>2. Processual'
    BY <1>21 DEF InterruptEnd, Interrupted
  <2>3. Shutting'
    BY <1>21 DEF InterruptEnd, Interrupted
  <2>4. Writing'
    BY <1>21 DEF InterruptEnd, Interrupted
  <2>5. Deciding'
    BY <1>21 DEF InterruptEnd, Interrupted
  <2> QED
    BY <2>1, <2>2, <2>3, <2>4, <2>5
<1>22. CASE WriteChunk
  BY <1>22 DEF WriteChunk, WriterQuiet
<1>23. CASE WriteFails
  BY <1>23 DEF WriteFails, WriterQuiet
<1>24. CASE WriteEnds
  BY <1>24 DEF WriteEnds, WriterQuiet
<1>25. CASE CloseStdin
  <2>1. TypeOK'
    BY <1>25 DEF CloseStdin, WriterQuiet
  <2>2. Processual'
    BY <1>25 DEF CloseStdin, WriterQuiet
  <2>3. Shutting'
    BY <1>25 DEF CloseStdin, WriterQuiet
  <2>4. Writing'
    BY <1>25 DEF CloseStdin, WriterQuiet
  <2>5. Deciding'
    BY <1>25 DEF CloseStdin, WriterQuiet
  <2> QED
    BY <2>1, <2>2, <2>3, <2>4, <2>5
<1>26. CASE WriterDone
  BY <1>26 DEF WriterDone, WriterQuiet
<1>27. CASE ReadStdin
  BY <1>27 DEF ReadStdin, GroupOnly
<1>28. CASE CloseStream
  <2>0. holdsIn' \subseteq Processes /\ holdsOut' \subseteq Processes
    BY <1>28 DEF CloseStream
  <2>1. TypeOK'
    BY <1>28, <2>0 DEF CloseStream, GroupOnly
  <2>2. Processual'
    BY <1>28 DEF CloseStream, GroupOnly
  <2>3. Shutting'
    BY <1>28 DEF CloseStream, GroupOnly
  <2>4. Writing'
    BY <1>28 DEF CloseStream, GroupOnly
  <2>5. Deciding'
    BY <1>28 DEF CloseStream, GroupOnly
  <2> QED
    BY <2>1, <2>2, <2>3, <2>4, <2>5
<1>29. CASE Spawn
  <2>0. holdsIn' \subseteq Processes /\ holdsOut' \subseteq Processes
    BY <1>29 DEF Spawn
  <2>1. TypeOK'
    BY <1>29, <2>0 DEF Spawn, GroupOnly
  <2>2. Processual'
    BY <1>29 DEF Spawn, GroupOnly
  <2>3. Shutting'
    BY <1>29 DEF Spawn, GroupOnly
  <2>4. Writing'
    BY <1>29 DEF Spawn, GroupOnly
  <2>5. Deciding'
    BY <1>29 DEF Spawn, GroupOnly
  <2> QED
    BY <2>1, <2>2, <2>3, <2>4, <2>5
<1>30. CASE Exit
  BY <1>30 DEF Exit, GroupOnly
<1>31. CASE HelperExit
  BY <1>31 DEF HelperExit, GroupOnly
<1>32. CASE Expire
  BY <1>32 DEF Expire
<1>33. CASE JoinTimesOut
  <2>1. TypeOK'
    BY <1>33 DEF JoinTimesOut
  <2>2. Processual'
    BY <1>33 DEF JoinTimesOut
  <2>3. Shutting'
    BY <1>33 DEF JoinTimesOut
  <2>4. Writing'
    BY <1>33 DEF JoinTimesOut
  <2>5. Deciding'
    BY <1>33 DEF JoinTimesOut
  <2> QED
    BY <2>1, <2>2, <2>3, <2>4, <2>5
<1>34. CASE UNCHANGED vars
  BY <1>34 DEF vars
<1> QED
  BY <1>1, <1>2, <1>3, <1>4, <1>5, <1>6, <1>7, <1>8, <1>9, <1>10, <1>11, <1>12, <1>13, <1>14, <1>15, <1>16, <1>17, <1>18, <1>19, <1>20, <1>21, <1>22, <1>23, <1>24, <1>25, <1>26, <1>27, <1>28, <1>29, <1>30, <1>31, <1>32, <1>33, <1>34
     DEF Next, Parent, Failure, Operator, Writer, Group, Returned

-----------------------------------------------------------------------------
(* The theorems.                                                           *)

THEOREM SupervisedCorrect == Spec => []Supervised
  BY SupervisedInit, SupervisedStep, PTL DEF Spec

\* The variables of the supervision keep their types.
THEOREM SupervisionTypeCorrect == Spec => []TypeOK
<1>1. Supervised => TypeOK
  BY DEF Supervised
<1> QED
  BY <1>1, SupervisedCorrect, PTL

\* When run_execution returns, the process group is gone and the writer thread has ended, unless
\* SIGKILL was too slow, the writer starved or a Ctrl-C cut the shutdown short.
THEOREM NothingLeftCorrect == Spec => []NothingLeft
<1>1. Supervised => NothingLeft
  BY DEF Supervised, Deciding
<1> QED
  BY <1>1, SupervisedCorrect, PTL

\* success and failed are reported only of a child that exited by itself and got all its input.
THEOREM VerdictIsOwnCorrect == Spec => []VerdictIsOwn
<1>1. Supervised => VerdictIsOwn
  BY DEF Supervised, Deciding
<1> QED
  BY <1>1, SupervisedCorrect, PTL

\* The check of the bytes written after the run is never what fails.
THEOREM HandoffCompleteCorrect == Spec => []HandoffComplete
<1>1. Supervised => HandoffComplete
  BY DEF Supervised, Deciding, HandoffComplete
<1> QED
  BY <1>1, SupervisedCorrect, PTL
-----------------------------------------------------------------------------
(* Why the run ends: in every state but the last the parent, its thread or *)
(* the clock has a step to take, and every step leaves less to do.         *)

\* What the parent can do by itself: all but the waits of the loop and of the join.
ParentReady ==
    \/ pc \in {"launch", "setup", "grace", "kill", "finally", "decide"}
    \/ pc = "loop" /\ expired
    \/ pc = "join" /\ writer \in {"none", "done"} /\ (shutdown \/ writer = "done")

\* The thread has a step that neither a full pipe nor a reader that never reads can delay.
WriterReady ==
    \/ writer = "write" /\ (sent = Chunks \/ fd = "closed" \/ holdsIn = {})
    \/ writer \in {"close", "closed"}

ClockReady == pc # "launch" /\ ~expired

\* The descriptor is closed under a writer the parent joins.
Unblocked == pc = "join" => writer \in {"none", "done"} \/ fd = "closed"

LEMMA UnblockedInit == Init => Unblocked
  BY DEF Init, Unblocked

LEMMA UnblockedStep == Supervised /\ Unblocked /\ [Next]_vars => Unblocked'
<1> SUFFICES ASSUME Supervised, Unblocked, [Next]_vars PROVE Unblocked'
  OBVIOUS
<1> USE DEF Unblocked, parent, thread, group
<1>1. CASE Parent
  BY <1>1 DEF Parent, Launch, StartWriter, EnterLoop, GraceEnds, KillEnds, KillTimesOut,
     DeadlinePasses, ChildEnds, WriterNoticed, StdoutEnds, Poll, CloseInput, Join,
     JoinAndShutdown, Decide, Goto, Return, Shutdown, Iterating, Reap
<1>2. CASE Failure
  BY <1>2 DEF Failure, LaunchFails, SetupFails, StreamFails, JoinTimesOut, Shutdown
<1>3. CASE Operator
  BY <1>3 DEF Operator, InterruptWork, InterruptShutdown, InterruptEnd, Shutdown
<1>4. CASE Writer
  BY <1>4 DEF Writer, WriteChunk, WriteFails, WriteEnds, CloseStdin, WriterDone, WriterQuiet
<1>5. CASE Group
  BY <1>5 DEF Group, ReadStdin, CloseStream, Spawn, Exit, HelperExit, GroupOnly
<1>6. CASE Expire
  BY <1>6 DEF Expire
<1>7. CASE UNCHANGED vars
  BY <1>7 DEF vars
<1> QED
  BY <1>1, <1>2, <1>3, <1>4, <1>5, <1>6, <1>7 DEF Next, Returned

\* The supervision is never stuck: until the run has returned, the parent, the writer thread or
\* the clock can go on, whatever the group does with its streams and its signals.
THEOREM NeverStuck == Spec => [](pc # "ended" => ParentReady \/ WriterReady \/ ClockReady)
<1>1. Supervised /\ Unblocked => (pc # "ended" => ParentReady \/ WriterReady \/ ClockReady)
  BY DEF Supervised, TypeOK, Shutting, Writing, Unblocked, ParentReady, WriterReady, ClockReady
<1>2. Spec => []Unblocked
  BY UnblockedInit, UnblockedStep, SupervisedCorrect, PTL DEF Spec
<1> QED
  BY <1>1, <1>2, SupervisedCorrect, PTL

\* The parent's way to its return.
Position ==
    CASE pc = "launch" -> 11
      [] pc = "setup" -> 10
      [] pc = "loop" -> 9
      [] pc = "grace" /\ after # "final" -> 8
      [] pc = "kill" /\ after # "final" -> 7
      [] pc = "finally" -> 6
      [] pc = "join" -> 5
      [] pc = "grace" /\ after = "final" -> 4
      [] pc = "kill" /\ after = "final" -> 3
      [] pc = "decide" -> 1
      [] pc = "ended" -> 0

WriterLeft ==
    CASE writer = "none" -> 4
      [] writer = "write" -> 3
      [] writer = "close" -> 2
      [] writer = "closed" -> 1
      [] writer = "done" -> 0

\* A child to be launched has its two streams to close as well.
ChildLeft ==
    CASE child = "none" -> 4
      [] child = "running" -> 2
      [] child = "zombie" -> 1
      [] child = "reaped" -> 0

HelperLeft == IF helper = "none" THEN 2 ELSE IF helper = "alive" THEN 1 ELSE 0
Open(holders) == IF "child" \in holders THEN 1 ELSE 0
Unset(flag) == IF flag THEN 0 ELSE 1

Remaining ==
    Position + WriterLeft + ChildLeft + HelperLeft + Open(holdsIn) + Open(holdsOut)
    + Unset(eof) + Unset(expired) + (Chunks - sent) + (Chunks - taken)
LEMMA RemainingNat == Supervised => Remaining \in Nat
  BY SizesAssumption
  DEF Supervised, TypeOK, Remaining, Position, WriterLeft, ChildLeft, HelperLeft, Open, Unset

LEMMA RemainingLess ==
    Supervised /\ Supervised' /\ [Next]_vars => Remaining' < Remaining \/ UNCHANGED vars
<1> SUFFICES ASSUME Supervised, Supervised', [Next]_vars, ~ UNCHANGED vars
             PROVE  Remaining' < Remaining
  OBVIOUS
<1> USE SizesAssumption
        DEF Supervised, TypeOK, parent, thread, group, Remaining, Position, WriterLeft, ChildLeft,
            HelperLeft, Open, Unset
<1>1. CASE Launch
  BY <1>1 DEF Launch, Goto, Processual
<1>2. CASE StartWriter
  BY <1>2 DEF StartWriter
<1>3. CASE EnterLoop
  BY <1>3 DEF EnterLoop, Goto
<1>4. CASE GraceEnds
  BY <1>4 DEF GraceEnds, Reap, Shutting
<1>5. CASE KillEnds
  BY <1>5 DEF KillEnds, Reap, Return, Shutting
<1>6. CASE KillTimesOut
  BY <1>6 DEF KillTimesOut, Return, Shutting
<1>7. CASE DeadlinePasses
  BY <1>7 DEF DeadlinePasses, Shutdown
<1>8. CASE ChildEnds
  BY <1>8 DEF ChildEnds, Iterating, Reap
<1>9. CASE WriterNoticed
  BY <1>9 DEF WriterNoticed, Iterating, Shutdown
<1>10. CASE StdoutEnds
  BY <1>10 DEF StdoutEnds, Iterating, Reap
<1>11. CASE Poll
  BY <1>11 DEF Poll, Iterating, Reap
<1>12. CASE CloseInput
  BY <1>12 DEF CloseInput, Goto
<1>13. CASE Join
  BY <1>13 DEF Join, Goto
<1>14. CASE JoinAndShutdown
  BY <1>14 DEF JoinAndShutdown, Shutdown, Shutting
<1>15. CASE Decide
  BY <1>15 DEF Decide
<1>16. CASE LaunchFails
  BY <1>16 DEF LaunchFails
<1>17. CASE SetupFails
  BY <1>17 DEF SetupFails, Shutdown
<1>18. CASE StreamFails
  BY <1>18 DEF StreamFails, Iterating, Shutdown
<1>19. CASE JoinTimesOut
  BY <1>19 DEF JoinTimesOut
<1>20. CASE InterruptWork
  BY <1>20 DEF InterruptWork, Interrupted, Shutdown
<1>21. CASE InterruptShutdown
  BY <1>21 DEF InterruptShutdown, Interrupted, Shutting
<1>22. CASE InterruptEnd
  BY <1>22 DEF InterruptEnd, Interrupted
<1>23. CASE WriteChunk
  BY <1>23 DEF WriteChunk, WriterQuiet
<1>24. CASE WriteFails
  BY <1>24 DEF WriteFails, WriterQuiet
<1>25. CASE WriteEnds
  BY <1>25 DEF WriteEnds, WriterQuiet
<1>26. CASE CloseStdin
  BY <1>26 DEF CloseStdin, WriterQuiet
<1>27. CASE WriterDone
  BY <1>27 DEF WriterDone, WriterQuiet
<1>28. CASE ReadStdin
  BY <1>28 DEF ReadStdin, GroupOnly
<1>29. CASE CloseStream
  BY <1>29 DEF CloseStream, GroupOnly
<1>30. CASE Spawn
  BY <1>30 DEF Spawn, GroupOnly
<1>31. CASE Exit
  BY <1>31 DEF Exit, GroupOnly
<1>32. CASE HelperExit
  BY <1>32 DEF HelperExit, GroupOnly
<1>33. CASE Expire
  BY <1>33 DEF Expire
<1> QED
  BY <1>1, <1>2, <1>3, <1>4, <1>5, <1>6, <1>7, <1>8, <1>9, <1>10, <1>11, <1>12, <1>13, <1>14, <1>15, <1>16, <1>17, <1>18, <1>19, <1>20, <1>21, <1>22, <1>23, <1>24, <1>25, <1>26, <1>27, <1>28, <1>29, <1>30, <1>31, <1>32, <1>33
     DEF Next, Parent, Failure, Operator, Writer, Group, Returned

\* Every step of the supervision, a failure and a Ctrl-C included, leaves less to do, and what is
\* left is a natural number: with NeverStuck, nothing but the return can be the end of a run in
\* which the parent, its thread and the clock go on.
THEOREM SupervisionIsFinite ==
    Spec => [](Remaining \in Nat) /\ [][Remaining' < Remaining]_vars
<1>1. Supervised /\ Supervised' /\ [Next]_vars => [Remaining' < Remaining]_vars
  BY RemainingLess
<1>2. Supervised => Remaining \in Nat
  BY RemainingNat
<1> QED
  BY <1>1, <1>2, SupervisedCorrect, PTL DEF Spec
=============================================================================
