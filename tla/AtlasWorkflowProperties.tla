---------------------- MODULE AtlasWorkflowProperties ----------------------
(***************************************************************************)
(* What Atlas Agent's workflow promises, and what it does not: the safety  *)
(* properties of the durable state, the abstract life cycle it implements, *)
(* the ends of executions, and what the repair commands achieve.           *)
(***************************************************************************)
EXTENDS AtlasWorkflow

-----------------------------------------------------------------------------
(* Safety.                                                                 *)

\* At most one generation is RUNNING, whichever mix of execute, start-run, checkpoint and
\* recover started it: _admit_run_start, and replay never checks it itself.
SingleRunning ==
    \A g, h \in Gens : status[g] = "RUNNING" /\ status[h] = "RUNNING" => g = h

\* However commands crash and are repaired, at most one transaction and one checkpoint intent
\* are unresolved, and they belong to the same generation: recover resolves them independently.
OneInFlight ==
    /\ \A t, u \in outstanding : t = u
    /\ \A i, j \in intents : i = j
    /\ \A t \in outstanding, i \in intents : t.gen = i.gen

PromptFiles == {f \in spool : f[1] \in LifeDirs}
FilesOf(p) == {f \in PromptFiles : f[3] = p}

\* Through every crash and recovery a known generation keeps exactly one prompt file, where
\* its status says or where the unresolved transaction was taking it, and no directory of
\* the life cycle holds a file that is neither known nor being accepted.
PromptNeverLost ==
    /\ \A g \in Known :
          \/ FilesOf(prompt[g]) = {Home(g)}
          \/ \E t \in outstanding : t.gen = g /\ FilesOf(prompt[g]) = {t.dst}
    /\ \A f \in PromptFiles :
          \/ \E g \in Known : f[3] = prompt[g]
          \/ \E t \in outstanding : t.event = "PROMPT_ACCEPTED" /\ t.dst = f

\* A checkpoint is all or nothing: a generation COMPLETED as checkpoint has moved HEAD to its
\* commit, and a commit HEAD was moved to is completed or still has the intent that recover
\* finishes it from (checkpoint, _finish_checkpoint, _recover_checkpoint).
CheckpointAtomic ==
    \A g \in Gens :
        LET commits == {x[1] : x \in {y \in landed : y[2] = g}}
        IN  /\ status[g] = "COMPLETED" /\ prompt[g].action = "checkpoint" => commits # {}
            /\ \A c \in commits : \/ status[g] = "COMPLETED"
                                  \/ \E i \in intents : i.gen = g /\ i.commit = c

\* An owned run's RUN_STARTED is never journaled before its policy archive and its
\* execution-owner metadata are durable, recovery of a half-done start included.
RunsHaveOwner == \A g \in owned : art[g].policy /\ art[g].owner

\* A completion that replay refuses for ever.  The operator prepared it with complete-run: for a
\* checkpoint that start-run started, to which no CHECKPOINT_INTENT belongs, or with a result that
\* contradicts itself or names another session than the one the run resumed.
RefusedForGood(t) ==
    /\ t.event = "RUN_COMPLETED"
    /\ t.claim = "refused" \/ (t.prompt.action = "checkpoint" /\ intents = {})

\* The commands check before PREPARED what replay checks at the terminal event, whatever happens
\* between the two: replay refuses a prepared transaction in those two cases only.
RefusedOnlyWhenTyped ==
    op.pc = "terminal" /\ ~Admissible(op.tx) => RefusedForGood(op.tx)

CompletionRefused == \E t \in outstanding : RefusedForGood(t)

\* complete-run ended the run of g, and the reports do not bear its result out: they are not all
\* there, and recover derives none of them, or they say something else.
UnfoundedEnd(g) == claim[g] \in ByHand /\ ~ReportsOK(g)

\* Executors may fail, time out or raise, and the operator may edit files and the repository
\* at any moment: as long as no process dies and no write fails, every command that returns
\* leaves a workflow the next one accepts.  Excepted are a checkpoint whose repository
\* changed under it, an interrupted run whose reports are yet to be written or derived, a
\* recover that met the real reports of such a run, and what complete-run with a typed result
\* leaves: a completion replay refuses, or an end without the reports it takes.
HealthyWithoutFaults ==
    Free /\ used.faults = 0 /\ journal # <<>> =>
        \/ Preflight
        \/ CompletionRefused \/ intents # {}
        \/ Settled /\ \E g \in Gens : UnfoundedEnd(g)
        \/ /\ Settled
           /\ \E g \in Gens : fallback[g] # {} /\ IF Fresh THEN ~ReportsOK(g) ELSE ArtifactConflict

-----------------------------------------------------------------------------
(* The abstract life cycle.                                                *)

Lifecycle ==
    INSTANCE AtlasLifecycle WITH
        MaxGen <- MaxGen, Prompts <- Prompts,
        status <- status, prompt <- prompt, wit <- wit, boundary <- boundary

\* The journal's projection behaves like AtlasLifecycle: commands, crashes and repairs reach
\* only the steps of the life cycle, and the boundary moves only as the policies permit.
ImplementsLifecycle == Lifecycle!Spec

-----------------------------------------------------------------------------
(* Liveness.                                                               *)

\* state.json is not the projection from which recover resumes what is unresolved.
UnresolvedOutOfReach == ~Settled /\ cached # FirstUnresolved - 1

\* The file of the transaction is there twice: the operator dropped it into the inbox again after it
\* was moved, or rejected/ has held the same bytes before.
TwoCopies == \E t \in outstanding : {t.src, t.dst} \subseteq spool

\* A prompt or policy archive was published for a transition that was never prepared.
OrphanFile ==
    \/ archive # {prompt[g] : g \in Known}
    \/ \E g \in Gens \ owned : art[g] # NoFiles

\* state.json lags by more than one transition (RUN_STARTED was never saved, the run was
\* interrupted from the journal alone).
FarBehind == cached \notin {Len(journal), journal[Len(journal)].id - 1}

\* Reports of an ended execution are missing, and recover cannot derive them.
ArtifactsLost ==
    /\ \E g \in owned : ~ReportsOK(g)
    /\ ArtifactConflict \/ FarBehind

\* A run was ended by complete-run without the reports it takes, and nobody is left to write them.
EndedByHand == \E g \in Gens : UnfoundedEnd(g) /\ driver[g] = "none"

\* Somebody edited or committed while a checkpoint intent was unresolved.
RepositoryMoved ==
    \E i \in intents : \/ repo.head \notin {i.parent, i.commit}
                       \/ repo.head = i.parent /\ [repo EXCEPT !.index = 0] # i.wit
                       \/ repo.head = i.commit /\ ~Finishable(i)

\* What no command repairs.
DeadEnd ==
    \/ UnresolvedOutOfReach \/ TwoCopies \/ CompletionRefused
    \/ OrphanFile \/ ArtifactsLost \/ EndedByHand \/ RepositoryMoved

\* The lock holder takes its next step, an executing process that can take the lock again and
\* again gets it, and an operator who is refused runs recover and rebuild, again and again;
\* other commands, edits and faults are under no obligation.
Scheduling == WF_vars(Locked) /\ \A g \in Gens : SF_vars(Executing(g))
Repairing == SF_vars(RecoverBegin) /\ SF_vars(Rebuild)
FairSpec == Spec /\ Scheduling /\ Repairing

\* Recover and rebuild together repair every crash but the dead ends named above: always
\* again the workflow is healthy, or is in one of them.
Repaired == []<>(Preflight \/ DeadEnd \/ journal = <<>>)

\* The reports of the other runs validate.  They do while g runs, unless the executor of a run that
\* was interrupted under it is still at work, and overwrites what recover derived for it.
OthersReported(g) == \A h \in Gens \ {g} : ReportsOK(h)

\* No command can end the run of g: the reports of another run do not validate,
\* or the operator has prepared a completion of it that replay refuses.
Unendable(g) == ~OthersReported(g) \/ \E t \in outstanding : t.gen = g /\ t.claim = "refused"

\* An execution that started ends COMPLETED or INTERRUPTED whatever its executor does, as long
\* as no process dies and no write fails (execute catches every exception and interrupts the
\* run), the reports of other runs validate throughout, and no refused completion is typed.
RunsEnd ==
    \A g \in Gens :
        [](g \in owned /\ status[g] = "RUNNING" => ~Unendable(g)) =>
            (g \in owned /\ status[g] = "RUNNING" ~> status[g] # "RUNNING" \/ used.faults > 0)

\* Without faults a process leaves its run RUNNING in two cases only, in which complete_run and
\* interrupt_run were both refused: the reports of another run do not validate, or a completion
\* that the operator prepared for this one is refused by replay.
RunNeverAbandoned ==
    [][\A g \in owned :
          used'.faults = 0 /\ status'[g] = "RUNNING" /\ driver[g] # "none" /\ driver'[g] = "none"
              => Unendable(g)]_vars

-----------------------------------------------------------------------------
(* What the documentation says and the code does not do.                   *)

\* docs/agent-workflow.md: an interrupted transition is resumed by recover from the exact
\* pre-transaction projection.  Every unresolved transaction would be within its reach.
InterruptedTransitionRecoverable ==
    Free /\ outstanding # {} => cached = FirstUnresolved - 1
=============================================================================
