------------------------ MODULE ExecutorSupervision ------------------------
(***************************************************************************)
(* How CodexExecutor supervises one run of the agent: the process group it *)
(* launches, the thread that feeds its stdin, the loop that reads its      *)
(* stdout until it ends or the deadline passes, and the bounded shutdown.  *)
(*                                                                         *)
(* The parent is sequential (pc); its writer thread, the child, a helper   *)
(* process the child may leave in its group, the clock and the operator's  *)
(* Ctrl-C act beside it.                                                   *)
(***************************************************************************)
EXTENDS Integers

CONSTANTS
    Chunks,          \* input, in the pieces os.write takes
    PipeSize,        \* chunks the stdin pipe holds
    MaxInterrupts    \* bound on the operator's Ctrl-C

ASSUME SizesAssumption ==
    /\ Chunks \in Nat /\ PipeSize \in Nat \ {0}
    /\ MaxInterrupts \in Nat

VARIABLES
    pc,           \* the parent: where it is
    after,        \* the path that called _terminate_and_reap
    result,       \* the exception in flight or, in the end, what the run returned
    timedOut,     \* timed_out
    shutdown,     \* shutdown_attempted
    eof,          \* stdout_eof
    code,         \* exit_code
    writer,       \* the writer thread
    sent,         \* chunks written to stdin
    fd,           \* the parent's end of stdin
    writeError,   \* writer_state["error"]
    closeError,   \* writer_state["close_error"]
    child,        \* the group leader
    exit,         \* how it exited
    helper,       \* another process of the group
    holdsIn,      \* who holds the read end of stdin
    holdsOut,     \* who holds the write end of stdout
    taken,        \* chunks read from stdin
    signals,      \* the strongest signal sent to the group
    expired,      \* the deadline has passed
    interrupts,   \* Ctrl-C so far
    lost          \* why the group may be left alive: history of the shutdown

parent == <<pc, after, result, timedOut, shutdown, eof, code, lost>>
thread == <<writer, sent, fd, writeError, closeError>>
group == <<child, exit, helper, holdsIn, holdsOut, taken, signals>>
vars == <<parent, thread, group, expired, interrupts>>

Processes == {"child", "helper"}
Outcomes == {"success", "failed", "timeout"}
Errors == {"launch", "keyboard", "stream", "write", "close", "incomplete", "unreaped", "writer"}

TypeOK ==
    /\ pc \in {"launch", "setup", "loop", "grace", "kill", "finally", "join", "decide", "ended"}
    /\ after \in {"none", "setup", "timeout", "except", "final"}
    /\ result \in {"none"} \cup Outcomes \cup Errors
    /\ timedOut \in BOOLEAN /\ shutdown \in BOOLEAN /\ eof \in BOOLEAN /\ expired \in BOOLEAN
    /\ writeError \in BOOLEAN /\ closeError \in BOOLEAN
    /\ code \in {"none", "zero", "one", "stopped"}
    /\ writer \in {"none", "write", "close", "closed", "done"}
    /\ sent \in 0..Chunks /\ taken \in 0..Chunks
    /\ fd \in {"open", "closed"}
    /\ child \in {"none", "running", "zombie", "reaped"}
    /\ exit \in {"none", "zero", "one", "stopped"}
    /\ helper \in {"none", "alive", "dead"}
    /\ holdsIn \subseteq Processes /\ holdsOut \subseteq Processes
    /\ signals \in {"none", "int", "kill"}
    /\ interrupts \in 0..MaxInterrupts
    /\ lost \in {"no", "interrupted", "unkillable", "starved"}

Init ==
    /\ pc = "launch" /\ after = "none" /\ result = "none" /\ code = "none" /\ lost = "no"
    /\ timedOut = FALSE /\ shutdown = FALSE /\ eof = FALSE
    /\ writer = "none" /\ sent = 0 /\ fd = "open"
    /\ writeError = FALSE /\ closeError = FALSE
    /\ child = "none" /\ exit = "none" /\ helper = "none"
    /\ holdsIn = {} /\ holdsOut = {} /\ taken = 0 /\ signals = "none"
    /\ expired = FALSE /\ interrupts = 0

-----------------------------------------------------------------------------
(* The parent: launch and setup.                                           *)

Goto(to) == pc' = to /\ UNCHANGED <<after, result, timedOut, shutdown, eof, code, lost>>

Launch ==
    /\ pc = "launch"
    /\ Goto("setup")
    /\ child' = "running" /\ holdsIn' = {"child"} /\ holdsOut' = {"child"}
    /\ UNCHANGED <<exit, helper, taken, signals, thread, expired, interrupts>>

LaunchFails ==
    /\ pc = "launch"
    /\ pc' = "ended" /\ result' = "launch"
    /\ UNCHANGED <<after, timedOut, shutdown, eof, code, lost, thread, group, expired, interrupts>>

StartWriter ==
    /\ pc = "setup" /\ writer = "none"
    /\ writer' = "write"
    /\ UNCHANGED <<parent, sent, fd, writeError, closeError, group, expired, interrupts>>

EnterLoop ==
    /\ pc = "setup" /\ writer # "none"
    /\ Goto("loop")
    /\ UNCHANGED <<thread, group, expired, interrupts>>

-----------------------------------------------------------------------------
(* _terminate_and_reap: SIGINT, wait, SIGKILL, wait.                       *)

\* path calls it with this result in flight.
Shutdown(path, inFlight) ==
    /\ pc' = "grace" /\ after' = path /\ result' = inFlight
    /\ shutdown' = TRUE
    /\ signals' = IF signals = "none" THEN "int" ELSE signals
    /\ UNCHANGED <<eof, lost, exit, helper, holdsIn, holdsOut, taken>>

\* wait() reaps a child that has exited.
Reap == child' = IF child = "zombie" THEN "reaped" ELSE child

\* The child has exited, or SHUTDOWN_GRACE_SECONDS are over.
GraceEnds ==
    /\ pc = "grace"
    /\ pc' = "kill" /\ signals' = "kill"
    /\ \/ child # "running" /\ Reap /\ code' = exit
       \/ child = "running" /\ code' = "none" /\ UNCHANGED child
    /\ UNCHANGED <<after, result, timedOut, shutdown, eof, lost, exit, helper, holdsIn, holdsOut,
                   taken, thread, expired, interrupts>>

\* Where the caller goes on with the given exception in flight.
Return(inFlight) ==
    /\ result' = inFlight /\ after' = "none"
    /\ pc' = IF after # "final" THEN "finally"
             ELSE IF inFlight = "none" THEN "decide" ELSE "ended"

KillEnds ==
    /\ pc = "kill" /\ child # "running"
    /\ Reap
    /\ code' = IF code = "none" THEN exit ELSE code
    /\ Return(result)
    /\ UNCHANGED <<timedOut, shutdown, eof, lost, exit, helper, holdsIn, holdsOut, taken, signals,
                   thread, expired, interrupts>>

\* SHUTDOWN_KILL_SECONDS are over: CODEX_PROCESS_UNREAPED, or a note to the error in flight.
KillTimesOut ==
    /\ pc = "kill" /\ child = "running"
    /\ Return(IF result = "none" THEN "unreaped" ELSE result)
    /\ lost' = "unkillable"
    /\ UNCHANGED <<timedOut, shutdown, eof, code, group, thread, expired, interrupts>>

SetupFails ==
    /\ pc = "setup"
    /\ Shutdown("setup", "stream")
    /\ UNCHANGED <<timedOut, code, child, thread, expired, interrupts>>

-----------------------------------------------------------------------------
(* The parent's loop: one action per outcome of an iteration.              *)

Iterating == pc = "loop" /\ ~expired

\* Mutation: the end of stdout disables the deadline.
DeadlineBeforeEof ==
    /\ pc = "loop" /\ expired /\ ~eof
    /\ timedOut' = TRUE
    /\ Shutdown("timeout", "none")
    /\ UNCHANGED <<code, child, thread, expired, interrupts>>

DeadlinePasses ==
    /\ pc = "loop" /\ expired
    /\ timedOut' = TRUE
    /\ Shutdown("timeout", "none")
    /\ UNCHANGED <<code, child, thread, expired, interrupts>>

\* Past the end of stdout the loop waits for the child alone.
ChildEnds ==
    /\ Iterating /\ eof /\ child # "running"
    /\ Reap /\ code' = exit
    /\ pc' = "finally"
    /\ UNCHANGED <<after, result, timedOut, shutdown, eof, lost, exit, helper, holdsIn, holdsOut,
                   taken, signals, thread, expired, interrupts>>

WriterNoticed ==
    /\ Iterating /\ ~eof /\ (writeError \/ closeError)
    /\ Shutdown("except", IF writeError THEN "write" ELSE "close")
    /\ UNCHANGED <<timedOut, code, child, thread, expired, interrupts>>

\* Reading stdout, a progress callback or a heartbeat raises.
StreamFails ==
    /\ Iterating
    /\ Shutdown("except", "stream")
    /\ UNCHANGED <<timedOut, code, child, thread, expired, interrupts>>

\* The iteration that sees the end of stdout also polls the child.
StdoutEnds ==
    /\ Iterating /\ ~eof /\ holdsOut = {}
    /\ eof' = TRUE
    /\ Reap
    /\ IF child # "running" /\ writer = "done"
       THEN pc' = "finally" /\ code' = exit ELSE UNCHANGED <<pc, code>>
    /\ UNCHANGED <<after, result, timedOut, shutdown, lost, exit, helper, holdsIn, holdsOut,
                   taken, signals, thread, expired, interrupts>>

Poll ==
    /\ Iterating /\ ~eof /\ child = "zombie"
    /\ Reap
    /\ UNCHANGED <<parent, exit, helper, holdsIn, holdsOut, taken, signals, thread, expired,
                   interrupts>>

-----------------------------------------------------------------------------
(* The parent's finally, and its verdict.                                  *)

\* The writer is not done: close its descriptor under it.
CloseInput ==
    /\ pc = "finally"
    /\ fd' = IF writer = "done" THEN fd ELSE "closed"
    /\ Goto("join")
    /\ UNCHANGED <<writer, sent, writeError, closeError, group, expired, interrupts>>

Join ==
    /\ pc = "join" /\ writer \in {"none", "done"} /\ shutdown
    /\ Goto(IF result = "none" THEN "decide" ELSE "ended")
    /\ UNCHANGED <<thread, group, expired, interrupts>>

\* The writer has not run for all of the join's timeout: CODEX_INPUT_WRITER_UNREAPED, raised
\* before the group is shut down.  An error of the setup stays the one in flight.
JoinTimesOut ==
    /\ pc = "join" /\ writer \notin {"none", "done"}
    /\ pc' = "ended" /\ lost' = "starved"
    /\ result' \in {"writer"} \cup ({result} \ {"none"})
    /\ UNCHANGED <<after, timedOut, shutdown, eof, code, thread, group, expired, interrupts>>

\* Mutation: a run that ended by itself leaves its group alone.
JoinAndLeave ==
    /\ pc = "join" /\ writer = "done" /\ ~shutdown
    /\ Goto("decide")
    /\ UNCHANGED <<thread, group, expired, interrupts>>

\* A run that ended by itself still owns its process group.
JoinAndShutdown ==
    /\ pc = "join" /\ writer = "done" /\ ~shutdown
    /\ Shutdown("final", "none")
    /\ UNCHANGED <<timedOut, code, child, thread, expired, interrupts>>

\* Mutation: the writer's errors are forgotten.
VerdictOnExit ==
    IF timedOut THEN "timeout" ELSE IF code = "zero" THEN "success" ELSE "failed"

Verdict ==
    IF writeError THEN "write"
    ELSE IF closeError THEN "close"
    ELSE IF sent # Chunks THEN "incomplete"
    ELSE IF timedOut THEN "timeout"
    ELSE IF code = "zero" THEN "success" ELSE "failed"

Decide ==
    /\ pc = "decide"
    /\ pc' = "ended" /\ result' = Verdict
    /\ UNCHANGED <<after, timedOut, shutdown, eof, code, lost, thread, group, expired, interrupts>>

-----------------------------------------------------------------------------
(* KeyboardInterrupt, wherever the parent is.                              *)

Interrupted == interrupts < MaxInterrupts /\ interrupts' = interrupts + 1

InterruptWork ==
    /\ pc \in {"setup", "loop"}
    /\ Interrupted
    /\ Shutdown(IF pc = "setup" THEN "setup" ELSE "except", "keyboard")
    /\ UNCHANGED <<timedOut, code, child, thread, expired>>

\* _terminate_and_reap is left where it is; nobody calls it again.
InterruptShutdown ==
    /\ pc \in {"grace", "kill"}
    /\ Interrupted
    /\ result' = "keyboard" /\ after' = "none" /\ lost' = "interrupted"
    /\ pc' = IF after \in {"timeout", "except"} THEN "finally" ELSE "ended"
    /\ UNCHANGED <<timedOut, shutdown, eof, code, thread, group, expired>>

InterruptEnd ==
    /\ pc \in {"finally", "join", "decide"}
    /\ Interrupted
    /\ pc' = "ended" /\ result' = "keyboard"
    /\ lost' = IF pc = "decide" THEN lost ELSE "interrupted"
    /\ UNCHANGED <<after, timedOut, shutdown, eof, code, thread, group, expired>>

-----------------------------------------------------------------------------
(* The writer thread.                                                      *)

WriterQuiet == UNCHANGED <<parent, group, expired, interrupts>>

WriteChunk ==
    /\ writer = "write" /\ sent < Chunks
    /\ fd = "open" /\ holdsIn # {} /\ sent - taken < PipeSize
    /\ sent' = sent + 1
    /\ UNCHANGED <<writer, fd, writeError, closeError>> /\ WriterQuiet

\* Mutation: the error is not recorded.
WriteFailsSilently ==
    /\ writer = "write" /\ sent < Chunks
    /\ fd = "closed" \/ holdsIn = {}
    /\ writer' = "close"
    /\ UNCHANGED <<sent, fd, writeError, closeError>> /\ WriterQuiet

\* EBADF or EPIPE
WriteFails ==
    /\ writer = "write" /\ sent < Chunks
    /\ fd = "closed" \/ holdsIn = {}
    /\ writer' = "close" /\ writeError' = TRUE
    /\ UNCHANGED <<sent, fd, closeError>> /\ WriterQuiet

WriteEnds ==
    /\ writer = "write" /\ sent = Chunks
    /\ writer' = "close"
    /\ UNCHANGED <<sent, fd, writeError, closeError>> /\ WriterQuiet

\* _close_stdin: EBADF when the parent was faster.
CloseStdin ==
    /\ writer = "close"
    /\ writer' = "closed"
    /\ fd' = "closed"
    /\ closeError' = (fd = "closed")
    /\ UNCHANGED <<sent, writeError>> /\ WriterQuiet

WriterDone ==
    /\ writer = "closed"
    /\ writer' = "done"
    /\ UNCHANGED <<sent, fd, writeError, closeError>> /\ WriterQuiet

-----------------------------------------------------------------------------
(* The process group and the clock.                                        *)

GroupOnly == UNCHANGED <<parent, thread, expired, interrupts>>

ReadStdin ==
    /\ child = "running" /\ "child" \in holdsIn /\ taken < sent
    /\ taken' = taken + 1
    /\ UNCHANGED <<child, exit, helper, holdsIn, holdsOut, signals>> /\ GroupOnly

CloseStream ==
    /\ child = "running"
    /\ \/ "child" \in holdsIn /\ holdsIn' = holdsIn \ {"child"} /\ UNCHANGED holdsOut
       \/ "child" \in holdsOut /\ holdsOut' = holdsOut \ {"child"} /\ UNCHANGED holdsIn
    /\ UNCHANGED <<child, exit, helper, taken, signals>> /\ GroupOnly

\* The helper inherits the streams the child has open.
Spawn ==
    /\ child = "running" /\ helper = "none" /\ signals = "none"
    /\ helper' = "alive"
    /\ holdsIn' = holdsIn \cup {"helper" : p \in holdsIn}
    /\ holdsOut' = holdsOut \cup {"helper" : p \in holdsOut}
    /\ UNCHANGED <<child, exit, taken, signals>> /\ GroupOnly

\* stopped: it exits, in whatever way, after a signal was sent to the group.
Exit ==
    /\ child = "running"
    /\ child' = "zombie"
    /\ exit' \in IF signals = "none" THEN {"zero", "one"} ELSE {"stopped"}
    /\ holdsIn' = holdsIn \ {"child"} /\ holdsOut' = holdsOut \ {"child"}
    /\ UNCHANGED <<helper, taken, signals>> /\ GroupOnly

HelperExit ==
    /\ helper = "alive"
    /\ helper' = "dead"
    /\ holdsIn' = holdsIn \ {"helper"} /\ holdsOut' = holdsOut \ {"helper"}
    /\ UNCHANGED <<child, exit, taken, signals>> /\ GroupOnly

Expire ==
    /\ pc # "launch" /\ ~expired
    /\ expired' = TRUE
    /\ UNCHANGED <<parent, thread, group, interrupts>>

-----------------------------------------------------------------------------
Parent ==
    \/ Launch \/ StartWriter \/ EnterLoop
    \/ GraceEnds \/ KillEnds \/ KillTimesOut
    \/ DeadlinePasses \/ ChildEnds \/ WriterNoticed \/ StdoutEnds \/ Poll
    \/ CloseInput \/ Join \/ JoinAndShutdown \/ Decide

Failure == LaunchFails \/ SetupFails \/ StreamFails \/ JoinTimesOut
Operator == InterruptWork \/ InterruptShutdown \/ InterruptEnd
Writer == WriteChunk \/ WriteFails \/ WriteEnds \/ CloseStdin \/ WriterDone
Group == ReadStdin \/ CloseStream \/ Spawn \/ Exit \/ HelperExit

Returned == pc = "ended" /\ UNCHANGED vars

Next == Parent \/ Failure \/ Operator \/ Writer \/ Group \/ Expire \/ Returned

Spec == Init /\ [][Next]_vars

\* The parent and its thread run and the clock goes on; nothing is asked of the group.
FairSpec == Spec /\ WF_vars(Parent) /\ WF_vars(Writer) /\ WF_vars(Expire)

-----------------------------------------------------------------------------
(* What run_execution promises.                                            *)

\* When the run has returned, the child is reaped, its group was killed and no thread writes to
\* the descriptor that was stdin; excepted are a process SIGKILL does not end in time, a writer
\* that is not scheduled for the whole join and a Ctrl-C that falls into the shutdown itself.
NothingLeft ==
    pc = "ended" /\ lost = "no" =>
        /\ child # "none" => child = "reaped" /\ signals = "kill"
        /\ writer \in {"none", "done"}

\* A success or a failure is the child's own: it exited by itself, before any signal, within the
\* deadline the loop saw, and after it was handed its whole input without an error.
VerdictIsOwn ==
    result \in Outcomes =>
        /\ sent = Chunks /\ ~writeError /\ ~closeError
        /\ result = "success" => exit = "zero" /\ ~timedOut
        /\ result = "failed" => exit = "one" /\ ~timedOut

\* EXECUTION_INPUT_HANDOFF_INCOMPLETE never happens: a writer without an error wrote everything.
HandoffComplete == result # "incomplete"

\* The run ends, whatever its processes do and whichever signal they ignore.
Ends == <>(pc = "ended")

-----------------------------------------------------------------------------
(* What the code says of itself and does not do.                           *)

\* A Ctrl-C terminates and reaps the process (test_keyboard_interrupt_reaps_the_process), also
\* one that falls into the shutdown after the deadline.
InterruptReaps ==
    pc = "ended" /\ result = "keyboard" /\ timedOut /\ lost = "interrupted" => child = "reaped"
=============================================================================
