--------------------------- MODULE AtlasWorkflow ---------------------------
(***************************************************************************)
(* Atlas Agent's workflow: the commands of Workflow, each taken apart into *)
(* the steps between which a process can die, over the durable state they  *)
(* share: the journal, the spool of prompt files, the prompt archive, the  *)
(* report tree, the state.json cache and the Git repository.               *)
(*                                                                         *)
(* A command holds the fcntl lock from its ...Begin action to the action   *)
(* that releases it; op is the lock and the local state of its holder.     *)
(* The executor of a started run works without the lock (driver), and the  *)
(* operator edits the inbox and the repository at any time.                *)
(***************************************************************************)
EXTENDS AtlasJournal

CONSTANTS
    Legacy,       \* TRUE: prompts use schema /1, which start-run accepts without an owner
    MaxCommits,   \* bound on commit objects, the initial one included
    MaxWork,      \* bound on distinguishable contents of the work tree
    MaxDrops,     \* bound on files dropped into the inbox
    MaxFaults     \* bound on crashes, kills and failed writes

ASSUME BoundsAssumption ==
    /\ Legacy \in BOOLEAN
    /\ {MaxCommits, MaxWork, MaxDrops, MaxFaults} \subseteq Nat

VARIABLES
    spool,     \* prompt files, see Files
    archive,   \* contents of prompts/
    art,       \* report files of every generation's execution
    cached,    \* state.json: length of the journal prefix it projects, 0: no file
    repo,      \* current witness of the repository
    landed,    \* <<commit, generation>>: checkpoint commits HEAD has been moved to
    op,        \* the lock holder: command, program counter and locals
    batch,     \* ingest's locals: files to read, prompts parsed, witness, boundary
    driver,    \* the process that executes a generation
    snap,      \* that process' replay, made without the lock: a prefix length
    used       \* counters for the bounds

disk == <<spool, archive, art>>
work == <<repo, landed>>
process == <<op, batch, driver, snap>>
vars == <<journalVars, disk, cached, work, process, used>>

-----------------------------------------------------------------------------
(* Lock holder and executing process.                                      *)

Kinds == {"none", "init", "ingest", "cancel", "start", "complete", "interrupt",
          "checkpoint", "recover", "adopt"}
TxPCs == {"prepare", "owner", "rename", "terminal"}
PCs == TxPCs \cup {"idle", "append", "ingest", "archive", "policy", "intent", "advance",
                   "verify", "finish", "resolve", "abort", "save"}
Phases == {"none", "exec", "ran", "returned", "complete", "exit", "raised",
           "post", "failure", "resave", "resaved", "withdraw"}

Idle == [kind |-> "none", pc |-> "idle", next |-> "idle", by |-> "none",
         gen |-> 0, wit |-> NoWitness, tx |-> NoTx]
Free == op = Idle

Ops == [kind : Kinds, pc : PCs, next : PCs, by : {"none", "operator", "driver"},
        gen : 0..MaxGen, wit : Witnesses, tx : Txs \cup {NoTx}]

NoBatch == [todo |-> {}, parsed |-> {}, wit |-> NoWitness, boundary |-> NoWitness]
Batches == [todo : SUBSET (Names \X Prompts), parsed : SUBSET (Names \X Prompts),
            wit : Witnesses, boundary : Witnesses]

\* A result.json rewritten because collect_usage failed: of a run that succeeded, or did not.
TelemetryFailed == {"unmeasured", "unmeasuredFailure"}

NoFiles == [policy |-> FALSE, owner |-> FALSE,
            logs |-> "none", result |-> "none", usage |-> "none"]
Reports == [policy : BOOLEAN, owner : BOOLEAN,
            logs : {"none", "empty", "real"},
            result : {"none", "run", "failed", "failure", "derived"} \cup TelemetryFailed,
            usage : {"none", "run", "derived"}]

DiskTypeOK ==
    /\ spool \in SUBSET Files
    /\ archive \in SUBSET Prompts
    /\ art \in [Gens -> Reports]
    /\ cached \in Nat

ProcessTypeOK ==
    /\ op \in Ops
    /\ batch \in Batches
    /\ driver \in [Gens -> Phases]
    /\ snap \in [Gens -> Nat]

TypeOK ==
    /\ JournalTypeOK /\ DiskTypeOK /\ ProcessTypeOK
    /\ repo \in Witnesses
    /\ landed \in SUBSET (Nat \X Gens)
    /\ used \in [commits : Nat, drops : Nat, faults : Nat]

Init ==
    /\ JournalInit
    /\ spool = {} /\ archive = {}
    /\ art = [g \in Gens |-> NoFiles]
    /\ cached = 0
    /\ repo = [head |-> 1, index |-> 0, work |-> 0]
    /\ landed = {}
    /\ op = Idle /\ batch = NoBatch
    /\ driver = [g \in Gens |-> "none"]
    /\ snap = [g \in Gens |-> 0]
    /\ used = [commits |-> 1, drops |-> 0, faults |-> 0]

-----------------------------------------------------------------------------
(* validate_spool and _preflight.                                          *)

Dir == [ACCEPTED |-> "accepted", RUNNING |-> "running", COMPLETED |-> "completed",
        INTERRUPTED |-> "interrupted", CANCELLED |-> "cancelled"]
Home(g) == <<Dir[status[g]], "canonical", prompt[g]>>

\* A result whose telemetry failed excuses the missing usage.json.
Unmeasured == TelemetryFailed \cup {"derived"}

\* outcome "success" and exit code 0
Successful == {"run", "unmeasured"}

ReportsOK(g) ==
    /\ claim[g] # "unsupported"
    /\ IF g \in owned
       THEN /\ art[g].policy /\ art[g].owner
            /\ status[g] # "RUNNING" =>
                  /\ art[g].logs # "none" /\ art[g].result # "none"
                  /\ art[g].usage # "none" \/ art[g].result \in Unmeasured
            /\ status[g] = "COMPLETED" => art[g].result \in Successful
       ELSE art[g] = NoFiles

SpoolOK ==
    /\ {f \in spool : f[1] \in LifeDirs} = {Home(g) : g \in Known}
    /\ archive = {prompt[g] : g \in Known}
    /\ \A g \in Gens : ReportsOK(g)

Fresh == cached # 0 /\ cached = Len(journal)
Preflight == Settled /\ Fresh /\ SpoolOK

-----------------------------------------------------------------------------
(* What a released lock does to the process that held it.                  *)

NextPhase(o, outcome) ==
    CASE o.kind = "start"    -> [ok |-> "exec", unsaved |-> "resave", error |-> "none"][outcome]
      [] o.kind = "complete" -> [ok |-> "none", unsaved |-> "raised", error |-> "raised"][outcome]
      [] OTHER -> IF /\ outcome = "ok" /\ driver[o.gen] = "raised"
                     /\ art[o.gen].result \notin TelemetryFailed
                  THEN "post" ELSE "none"

\* outcome: "ok"; "unsaved", state.json was not written; "error", any other exception
Release(outcome) ==
    /\ op' = Idle
    /\ batch' = NoBatch
    /\ driver' = IF op.by = "driver"
                 THEN [driver EXCEPT ![op.gen] = NextPhase(op, outcome)] ELSE driver
    /\ UNCHANGED snap

Goto(pc) == op' = [op EXCEPT !.pc = pc] /\ UNCHANGED <<batch, driver, snap>>

Hold(kind, pc, by, g, w) ==
    /\ Free
    /\ op' = [Idle EXCEPT !.kind = kind, !.pc = pc, !.by = by, !.gen = g, !.wit = w]
    /\ UNCHANGED <<batch, driver, snap>>

Count(counter, bound) ==
    /\ used[counter] < bound
    /\ used' = [used EXCEPT ![counter] = @ + 1]

-----------------------------------------------------------------------------
(* move_transaction: PREPARED, (owner metadata,) rename, terminal event.   *)

Tx(event, g, p, from, to, w, ownedRun, files) ==
    [id |-> NextSeq, event |-> event, gen |-> g, prompt |-> p, src |-> from, dst |-> to,
     wit |-> w, owned |-> ownedRun, fallback |-> files, claim |-> "none"]

MoveTx(event, g, to, w, ownedRun, files) ==
    Tx(event, g, prompt[g], Home(g), <<to, "canonical", prompt[g]>>, w, ownedRun, files)

\* A command that consists of transaction t and is saved after it.
BeginMove(kind, pc, by, t) ==
    /\ Free
    /\ op' = [kind |-> kind, pc |-> pc, next |-> "save", by |-> by,
              gen |-> t.gen, wit |-> NoWitness, tx |-> t]
    /\ UNCHANGED <<batch, driver, snap>>

\* The lock holder goes on with transaction t, and after its terminal event at next.
Move(t, pc, next) == op' = [op EXCEPT !.pc = pc, !.tx = t, !.next = next]

Prepare ==
    /\ op.pc = "prepare"
    /\ LogPrepared(op.tx)
    /\ Goto(IF op.tx.owned THEN "owner" ELSE "rename")
    /\ UNCHANGED <<disk, cached, work, used>>

PublishOwner ==
    /\ op.pc = "owner"
    /\ art' = [art EXCEPT ![op.tx.gen].owner = TRUE]
    /\ Goto(IF op.tx.src \in spool THEN "rename" ELSE "terminal")
    /\ UNCHANGED <<journalVars, spool, archive, cached, work, used>>

Rename ==
    /\ op.pc = "rename"
    /\ spool' = (spool \ {op.tx.src}) \cup {op.tx.dst}
    /\ Goto("terminal")
    /\ UNCHANGED <<journalVars, archive, art, cached, work, used>>

Terminal ==
    /\ op.pc = "terminal"
    /\ LogTerminal(op.tx)
    /\ Goto(op.next)
    /\ UNCHANGED <<disk, cached, work, used>>

\* Journal.append refuses the terminal event; the transaction stays outstanding.
TerminalRefused ==
    /\ op.pc = "terminal" /\ ~Admissible(op.tx)
    /\ Release("error")
    /\ UNCHANGED <<journalVars, disk, cached, work, used>>

-----------------------------------------------------------------------------
(* init, rebuild, adopt_boundary, cancel.                                  *)

InitBegin ==
    /\ journal = <<>>
    /\ Hold("init", "append", "operator", 0, repo)
    /\ UNCHANGED <<journalVars, disk, cached, work, used>>

InitAppend ==
    /\ op.kind = "init" /\ op.pc = "append"
    /\ LogInitialized(op.wit)
    /\ Goto("save")
    /\ UNCHANGED <<disk, cached, work, used>>

Rebuild ==
    /\ Free /\ journal # <<>> /\ Settled /\ SpoolOK
    /\ cached # Len(journal)        \* otherwise nothing changes
    /\ cached' = Len(journal)
    /\ UNCHANGED <<journalVars, disk, work, process, used>>

AdoptBegin ==
    /\ Preflight
    /\ \A g \in Known : status[g] \in TerminalStatuses
    /\ repo.index = 0 /\ repo.work = 0 /\ repo # boundary
    /\ Hold("adopt", "append", "operator", 0, repo)
    /\ UNCHANGED <<journalVars, disk, cached, work, used>>

AdoptAppend ==
    /\ op.kind = "adopt" /\ op.pc = "append"
    /\ LogAdopted(op.wit)
    /\ Goto("save")
    /\ UNCHANGED <<disk, cached, work, used>>

CancelBegin(g) ==
    /\ Preflight /\ status[g] = "ACCEPTED"
    /\ BeginMove("cancel", "prepare", "operator",
                 MoveTx("PROMPT_CANCELLED", g, "cancelled", wit[g], FALSE, {}))
    /\ UNCHANGED <<journalVars, disk, cached, work, used>>

-----------------------------------------------------------------------------
(* ingest.                                                                 *)

IngestBegin ==
    /\ Free /\ Preflight
    /\ \E f \in spool : f[1] = "inbox"
    /\ op' = [Idle EXCEPT !.kind = "ingest", !.pc = "ingest", !.by = "operator"]
    /\ batch' = [todo |-> {<<f[2], f[3]>> : f \in {x \in spool : x[1] = "inbox"}},
                 parsed |-> {}, wit |-> repo, boundary |-> boundary]
    /\ UNCHANGED <<journalVars, disk, cached, work, driver, snap, used>>

\* _reject: the file goes to rejected/, whatever is wrong with it.
Rejection(name, p) ==
    Tx("PROMPT_REJECTED", p.gen, p, <<"inbox", name, p>>, <<"rejected", "canonical", p>>,
       batch.wit, FALSE, {})

\* The first file by name is read, hashed and recorded; one that does not parse is rejected.
Receive ==
    /\ op.pc = "ingest"
    /\ \E f \in batch.todo :
         /\ \A h \in batch.todo : f[1] <= h[1]
         /\ LogReceived
         /\ IF f[2].gen = 0
            THEN /\ batch' = [batch EXCEPT !.todo = @ \ {f}]
                 /\ Move([Rejection(f[1], f[2]) EXCEPT !.id = NextSeq + 1], "prepare", "ingest")
            ELSE /\ batch' = [batch EXCEPT !.todo = @ \ {f}, !.parsed = @ \cup {f}]
                 /\ UNCHANGED op
    /\ UNCHANGED <<disk, cached, work, driver, snap, used>>

\* Parsed prompts are taken by generation, hash and name.
IsFirst(f) ==
    \A h \in batch.parsed :
        \/ f[2].gen < h[2].gen
        \/ f[2].gen = h[2].gen /\ f[2] # h[2]
        \/ f[2] = h[2] /\ f[1] <= h[1]

\* Mutation: the generation is taken from the prompt without looking at the known ones.
AcceptableAgain(p) ==
    p.parent = p.gen - 1 /\ p.head = batch.wit.head /\ batch.wit = batch.boundary

Acceptable(p) ==
    /\ status[p.gen] = "NONE" /\ IsNext(p.gen)
    /\ p.parent = p.gen - 1
    /\ p.head = batch.wit.head
    /\ batch.wit = batch.boundary

Process ==
    /\ op.pc = "ingest" /\ batch.todo = {}
    /\ \E f \in batch.parsed :
         /\ IsFirst(f)
         /\ batch' = [batch EXCEPT !.parsed = @ \ {f}]
         /\ IF Acceptable(f[2])
            THEN Move(Tx("PROMPT_ACCEPTED", f[2].gen, f[2], <<"inbox", f[1], f[2]>>,
                         <<"accepted", "canonical", f[2]>>, batch.wit, FALSE, {}),
                      "archive", "ingest")
            ELSE Move(Rejection(f[1], f[2]), "prepare", "ingest")
    /\ UNCHANGED <<journalVars, disk, cached, work, driver, snap, used>>

Archive ==
    /\ op.pc = "archive"
    /\ archive' = archive \cup {op.tx.prompt}
    /\ Goto("prepare")
    /\ UNCHANGED <<journalVars, spool, art, cached, work, used>>

-----------------------------------------------------------------------------
(* execute and start_run up to the durable start of the run.               *)

\* Mutation: _admit_run_start is forgotten.
StartBeside(g, ownedRun) ==
    /\ Preflight /\ status[g] = "ACCEPTED"
    /\ IF ownedRun THEN prompt[g].action # "checkpoint"
                   ELSE Legacy \/ prompt[g].action = "checkpoint"
    /\ repo = wit[g]
    /\ BeginMove("start", IF ownedRun THEN "policy" ELSE "prepare",
                 IF ownedRun THEN "driver" ELSE "operator",
                 MoveTx("RUN_STARTED", g, "running", wit[g], ownedRun, {}))
    /\ UNCHANGED <<journalVars, disk, cached, work, used>>

StartBegin(g, ownedRun) ==
    /\ Preflight /\ status[g] = "ACCEPTED"
    /\ Running = {}                                       \* _admit_run_start
    /\ IF ownedRun THEN prompt[g].action # "checkpoint"
                   ELSE Legacy \/ prompt[g].action = "checkpoint"
    /\ repo = wit[g]
    /\ BeginMove("start", IF ownedRun THEN "policy" ELSE "prepare",
                 IF ownedRun THEN "driver" ELSE "operator",
                 MoveTx("RUN_STARTED", g, "running", wit[g], ownedRun, {}))
    /\ UNCHANGED <<journalVars, disk, cached, work, used>>

\* The repository is compared once more, then the policy archive is published.
PublishPolicy ==
    /\ op.pc = "policy" /\ repo = op.tx.wit
    /\ art' = [art EXCEPT ![op.gen].policy = TRUE]
    /\ Goto("prepare")
    /\ UNCHANGED <<journalVars, spool, archive, cached, work, used>>

PublishPolicyRefused ==
    /\ op.pc = "policy" /\ repo # op.tx.wit
    /\ Release("error")
    /\ UNCHANGED <<journalVars, disk, cached, work, used>>

-----------------------------------------------------------------------------
(* complete_run and interrupt_run.                                         *)

\* witness_matches_policy(now, record witness, action, running=True)
PolicyAllows(now, g) ==
    IF prompt[g].action = "implementation"
    THEN now.head = wit[g].head /\ now.index = wit[g].index
    ELSE now = wit[g]

CanComplete(g) == Preflight /\ status[g] = "RUNNING"

\* How complete_run ends the run of g, told c; it does not look for missing reports.
EndTx(event, g, to, w, c) == [MoveTx(event, g, to, w, FALSE, {}) EXCEPT !.claim = c]

\* The execution named in the result must be the run's; the operator may type that at any time.
CompleteBegin(g, by) ==
    /\ CanComplete(g)
    /\ by = "driver" => driver[g] = "complete"
    /\ IF PolicyAllows(repo, g)
       THEN \E c \in IF by = "driver" THEN {"executor"} ELSE Results :
              BeginMove("complete", "prepare", by,
                        EndTx("RUN_COMPLETED", g, "completed", repo, c))
       ELSE BeginMove("interrupt", "prepare", by,
                      EndTx("RUN_INTERRUPTED", g, "interrupted", wit[g],
                            IF by = "driver" THEN "executor" ELSE "typed"))
    /\ UNCHANGED <<journalVars, disk, cached, work, used>>

\* Mutation: unresolved transactions are not looked for.
CanInterruptUnsettled(g) ==
    /\ cached # 0
    /\ Fresh => SpoolOK
    /\ status[g] = "RUNNING" /\ Home(g) \in spool

\* A stale state.json is tolerated, and then the spool is not looked at.
CanInterrupt(g) ==
    /\ Settled /\ cached # 0
    /\ Fresh => SpoolOK
    /\ status[g] = "RUNNING" /\ Home(g) \in spool

\* Mutation: usage.json is missed only when the result is missing too.
MissingWithoutUsage(g) ==
    {a \in Artifacts :
        /\ g \in owned /\ art[g][a] = "none"
        /\ a = "usage" => art[g].result = "none"}

\* _missing_interruption_artifacts
MissingArtifacts(g) ==
    {a \in Artifacts :
        /\ g \in owned /\ art[g][a] = "none"
        /\ a = "usage" => art[g].result \notin {"none"} \cup Unmeasured}

InterruptBegin(g, by) ==
    /\ CanInterrupt(g)
    /\ by = "driver" => driver[g] \in {"exit", "raised", "withdraw"}
    /\ BeginMove("interrupt", "prepare", by,
                 MoveTx("RUN_INTERRUPTED", g, "interrupted", wit[g], FALSE, MissingArtifacts(g)))
    /\ UNCHANGED <<journalVars, disk, cached, work, used>>

-----------------------------------------------------------------------------
(* checkpoint.                                                             *)

\* Mutation: the reference is moved before the intent is journaled.
CheckpointWithoutIntent(g) ==
    /\ Free /\ Preflight
    /\ status[g] = "ACCEPTED" /\ prompt[g].action = "checkpoint"
    /\ Running = {}
    /\ repo = wit[g] /\ repo.index = 0 /\ repo.work # 0
    /\ Count("commits", MaxCommits)
    /\ repo' = [repo EXCEPT !.index = repo.work]
    /\ Hold("checkpoint", "advance", "operator", g,
            [head |-> used'.commits, index |-> 0, work |-> 0])
    /\ UNCHANGED <<journalVars, disk, cached, landed>>

\* prepare_checkpoint: stage exactly the reviewed work tree, create the commit object.
\* wit of op is from here on the witness the repository shall have afterwards.
CheckpointBegin(g) ==
    /\ Free /\ Preflight
    /\ status[g] = "ACCEPTED" /\ prompt[g].action = "checkpoint"
    /\ Running = {}
    /\ repo = wit[g] /\ repo.index = 0 /\ repo.work # 0
    /\ Count("commits", MaxCommits)
    /\ repo' = [repo EXCEPT !.index = repo.work]
    /\ Hold("checkpoint", "intent", "operator", g,
            [head |-> used'.commits, index |-> 0, work |-> 0])
    /\ UNCHANGED <<journalVars, disk, cached, landed>>

CheckpointIntent ==
    /\ op.pc = "intent"
    /\ LogIntent([seq |-> NextSeq, gen |-> op.gen, parent |-> wit[op.gen].head,
                  commit |-> op.wit.head, wit |-> wit[op.gen]])
    /\ Goto("advance")
    /\ UNCHANGED <<disk, cached, work, used>>

\* Contents are named relative to HEAD: committing w exchanges the names 0 and w.
Renamed(content, w) ==
    CASE content = 0 -> w [] content = w -> 0 [] OTHER -> content

\* advance_checkpoint: update-ref HEAD commit parent
CheckpointAdvance ==
    /\ op.pc = "advance" /\ repo.head = wit[op.gen].head
    /\ repo' = [head |-> op.wit.head,
                index |-> Renamed(repo.index, wit[op.gen].work),
                work |-> Renamed(repo.work, wit[op.gen].work)]
    /\ landed' = landed \cup {<<op.wit.head, op.gen>>}
    /\ Goto("verify")
    /\ UNCHANGED <<journalVars, disk, cached, used>>

\* verify_checkpoint_boundary
CheckpointVerify ==
    /\ op.pc = "verify" /\ repo = op.wit
    /\ Goto("finish")
    /\ UNCHANGED <<journalVars, disk, cached, work, used>>

CheckpointRefused ==                          \* CHECKPOINT_RECOVERY_REQUIRED
    /\ \/ op.pc = "advance" /\ repo.head # wit[op.gen].head
       \/ op.pc = "verify" /\ repo # op.wit
    /\ Release("error")
    /\ UNCHANGED <<journalVars, disk, cached, work, used>>

\* _finish_checkpoint: start the run if it is not started, then complete it.
CheckpointFinish ==
    /\ op.pc = "finish"
    /\ IF status[op.gen] = "ACCEPTED"
       THEN Move(MoveTx("RUN_STARTED", op.gen, "running", wit[op.gen], FALSE, {}),
                 "prepare", "finish")
       ELSE Move(MoveTx("RUN_COMPLETED", op.gen, "completed", op.wit, FALSE, {}),
                 "prepare", IF op.kind = "recover" THEN "resolve" ELSE "save")
    /\ UNCHANGED <<journalVars, disk, cached, work, batch, driver, snap, used>>

-----------------------------------------------------------------------------
(* recover.                                                                *)

FirstUnresolved ==
    LET seqs == {t.id : t \in outstanding} \cup {i.seq : i \in intents}
    IN  CHOOSE n \in seqs : \A m \in seqs : n <= m

\* Mutation: the lag is counted from the terminal event.
LagsTerminalEvent ==
    LET last == journal[Len(journal)]
    IN  /\ last.event \in {"RUN_STARTED", "RUN_COMPLETED", "RUN_INTERRUPTED", "PROMPT_CANCELLED"}
        /\ cached = Len(journal) - 1

\* With nothing unresolved, state.json may lag by the last transition only.
LagsOneTransition ==
    LET last == journal[Len(journal)]
    IN  /\ last.event \in {"RUN_STARTED", "RUN_COMPLETED", "RUN_INTERRUPTED", "PROMPT_CANCELLED"}
        /\ cached = last.id - 1

RecoverAccepts ==
    /\ cached # 0
    /\ IF Settled THEN Fresh \/ LagsOneTransition ELSE cached = FirstUnresolved - 1

RecoverBegin ==
    /\ RecoverAccepts
    /\ Hold("recover", "resolve", "operator", 0, NoWitness)
    /\ UNCHANGED <<journalVars, disk, cached, work, used>>

Resolving == op.pc = "resolve"

\* Exactly one of source and destination exists; a start must still be the only run.
Resolvable(t) ==
    /\ t.src \in spool <=> t.dst \notin spool
    /\ t.event = "RUN_STARTED" => Running \subseteq {t.gen}

\* Mutation: the file is taken to be moved already.
RecoverWithoutRename ==
    /\ Resolving
    /\ \E t \in outstanding :
         Resolvable(t) /\ Move(t, IF t.owned THEN "owner" ELSE "terminal", "resolve")
    /\ UNCHANGED <<journalVars, disk, cached, work, batch, driver, snap, used>>

\* Mutation: the owner metadata are taken to be there.
RecoverWithoutOwner ==
    /\ Resolving
    /\ \E t \in outstanding :
         Resolvable(t) /\ Move(t, IF t.src \in spool THEN "rename" ELSE "terminal", "resolve")
    /\ UNCHANGED <<journalVars, disk, cached, work, batch, driver, snap, used>>

RecoverTransaction ==
    /\ Resolving
    /\ \E t \in outstanding :
         /\ Resolvable(t)
         /\ Move(t, IF t.owned THEN "owner"
                    ELSE IF t.src \in spool THEN "rename" ELSE "terminal", "resolve")
    /\ UNCHANGED <<journalVars, disk, cached, work, batch, driver, snap, used>>

\* HEAD is still the parent: reset the index and see whether the reviewed state is back.
RecoverRollback ==
    /\ Resolving /\ outstanding = {}
    /\ \E i \in intents :
         /\ repo.head = i.parent /\ status[i.gen] = "ACCEPTED"
         /\ repo' = [repo EXCEPT !.index = 0]
         /\ IF repo' = i.wit
            THEN op' = [op EXCEPT !.pc = "abort", !.gen = i.gen] /\ UNCHANGED <<batch, driver, snap>>
            ELSE Release("error")
    /\ UNCHANGED <<journalVars, disk, cached, landed, used>>

RecoverAbort ==
    /\ op.pc = "abort"
    /\ \E i \in intents : i.gen = op.gen /\ LogAborted(i)
    /\ Goto("resolve")
    /\ UNCHANGED <<disk, cached, work, used>>

\* Mutation: only HEAD is compared with the intent.
FinishableDirty(i) ==
    /\ repo.head = i.commit
    /\ \/ status[i.gen] = "ACCEPTED" /\ Running = {}
       \/ status[i.gen] = "RUNNING"

\* HEAD is the recorded commit and the repository is clean: finish the generation.
Finishable(i) ==
    /\ repo = [head |-> i.commit, index |-> 0, work |-> 0]
    /\ \/ status[i.gen] = "ACCEPTED" /\ Running = {}
       \/ status[i.gen] = "RUNNING"

RecoverForward ==
    /\ Resolving /\ outstanding = {}
    /\ \E i \in intents :
         /\ repo.head # i.parent /\ Finishable(i)
         /\ op' = [op EXCEPT !.pc = "finish", !.gen = i.gen, !.wit = repo]
    /\ UNCHANGED <<journalVars, disk, cached, work, batch, driver, snap, used>>

RecoverRefused ==
    /\ Resolving
    /\ \/ \E t \in outstanding : ~Resolvable(t)
       \/ outstanding = {} /\ \E i \in intents :
             IF repo.head = i.parent THEN status[i.gen] # "ACCEPTED" ELSE ~Finishable(i)
    /\ Release("error")
    /\ UNCHANGED <<journalVars, disk, cached, work, used>>

\* Mutation: logs are derived like the other reports, with a text in them.
DerivedWithLogs == [logs |-> "derived", result |-> "derived", usage |-> "derived"]

\* The content a recovered artifact is derived to have; for logs, no bytes.
Derived == [logs |-> "empty", result |-> "derived", usage |-> "derived"]
Fallbacks ==
    {x \in owned \X Artifacts : status[x[1]] = "INTERRUPTED" /\ x[2] \in fallback[x[1]]}
ArtifactConflict == \E x \in Fallbacks : art[x[1]][x[2]] \notin {"none", Derived[x[2]]}

RecoverArtifact ==
    /\ Resolving /\ Settled
    /\ \E x \in Fallbacks :
         /\ art[x[1]][x[2]] = "none"
         /\ art' = [art EXCEPT ![x[1]][x[2]] = Derived[x[2]]]
    /\ UNCHANGED <<journalVars, spool, archive, cached, work, process, used>>

Recovered == \A x \in Fallbacks : art[x[1]][x[2]] = Derived[x[2]]

RecoverSave ==
    /\ Resolving /\ Settled /\ Recovered /\ SpoolOK
    /\ cached' = Len(journal)
    /\ Release("ok")
    /\ UNCHANGED <<journalVars, disk, work, used>>

\* RECOVERY_FALLBACK_ARTIFACT_CONFLICT or SPOOL_CORRUPT
RecoverFailed ==
    /\ Resolving /\ Settled
    /\ ArtifactConflict \/ (Recovered /\ ~SpoolOK)
    /\ Release("error")
    /\ UNCHANGED <<journalVars, disk, cached, work, used>>

-----------------------------------------------------------------------------
(* The end of a command: _save, and what can go wrong before it.           *)

Saving == \/ op.pc = "save"
          \/ op.pc = "ingest" /\ batch.todo = {} /\ batch.parsed = {}

Save ==
    /\ Saving
    /\ cached' = Len(journal)
    /\ Release("ok")
    /\ UNCHANGED <<journalVars, disk, work, used>>

SaveFails ==
    /\ Saving
    /\ Count("faults", MaxFaults)
    /\ Release("unsaved")
    /\ UNCHANGED <<journalVars, disk, cached, work>>

\* Journal.append fails: execute withdraws the policy archive of a run that never started.
StartFails ==
    /\ op.kind = "start" /\ op.pc = "prepare"
    /\ Count("faults", MaxFaults)
    /\ art' = [art EXCEPT ![op.gen].policy = FALSE]
    /\ Release("error")
    /\ UNCHANGED <<journalVars, spool, archive, cached, work>>

\* Journal.append fails: checkpoint rolls the staged index back.
IntentFails ==
    /\ op.pc = "intent" /\ repo.head = wit[op.gen].head
    /\ Count("faults", MaxFaults)
    /\ repo' = [repo EXCEPT !.index = 0]
    /\ Release("error")
    /\ UNCHANGED <<journalVars, disk, cached, landed>>

\* The process that holds the lock dies; the kernel releases the lock.
Crash ==
    /\ ~Free
    /\ Count("faults", MaxFaults)
    /\ op' = Idle /\ batch' = NoBatch
    /\ driver' = IF op.by = "driver" THEN [driver EXCEPT ![op.gen] = "none"] ELSE driver
    /\ UNCHANGED <<journalVars, disk, cached, work, snap>>

-----------------------------------------------------------------------------
(* The executing process between start and the end of the run: no lock.    *)

Unlocked(g) == ~(op.by = "driver" /\ op.gen = g)
Step(g, from, to) == driver[g] = from /\ driver' = [driver EXCEPT ![g] = to]

DriverQuiet == UNCHANGED <<journalVars, spool, archive, cached, work, op, batch, snap, used>>

ExecutorLogs(g) ==
    /\ Step(g, "exec", "ran")
    /\ art' = [art EXCEPT ![g].logs = "real"]
    /\ DriverQuiet

WriteResult(g) ==
    /\ Step(g, "ran", "returned")
    /\ \E outcome \in {"run", "failed"} : art' = [art EXCEPT ![g].result = outcome]
    /\ DriverQuiet

\* Mutation: a run that did not succeed is left alone.
CollectUsageAndLeave(g) ==
    /\ \E to \in {"complete", "none"} : Step(g, "returned", to)
    /\ art' = [art EXCEPT ![g].usage = "run"]
    /\ DriverQuiet

\* complete: success; exit: time-out, exit code or an unexpected session
CollectUsage(g) ==
    /\ \/ Step(g, "returned", "complete") /\ art[g].result = "run"
       \/ Step(g, "returned", "exit")
    /\ art' = [art EXCEPT ![g].usage = "run"]
    /\ DriverQuiet

TelemetryFails(g) ==
    /\ Step(g, "returned", "exit")
    /\ art' = [art EXCEPT ![g].result = IF @ = "run" THEN "unmeasured" ELSE "unmeasuredFailure"]
    /\ DriverQuiet

ExecutorRaises(g) ==
    /\ \E from \in {"exec", "ran", "returned"} : Step(g, from, "raised")
    /\ UNCHANGED art /\ DriverQuiet

\* After the interruption of a raised run is projected, its artifacts are written.
WriteFailureLogs(g) ==
    /\ Step(g, "post", "failure")
    /\ art' = [art EXCEPT ![g].usage = "run",
                          ![g].logs = IF @ = "none" THEN "empty" ELSE @]
    /\ DriverQuiet

WriteFailure(g) ==
    /\ Step(g, "failure", "none")
    /\ art' = [art EXCEPT ![g].result = "failure"]
    /\ DriverQuiet

\* The projection of RUN_STARTED failed: replay and save again, outside the lock.
Replay(g) ==
    /\ \/ Step(g, "resave", "resaved") /\ snap' = [snap EXCEPT ![g] = Len(journal)]
       \/ Step(g, "resave", "withdraw") /\ UNCHANGED snap
    /\ UNCHANGED <<journalVars, disk, cached, work, op, batch, used>>

UnlockedSave(g) ==
    /\ Step(g, "resaved", "withdraw")
    /\ cached' = snap[g]
    /\ UNCHANGED <<journalVars, disk, work, op, batch, snap, used>>

\* complete_run or interrupt_run raised before it wrote anything: while the run is executed, that
\* is one more exception to interrupt the run for.
DriverRefused(g) ==
    /\ Free
    /\ \/ Step(g, "complete", "raised") /\ ~CanComplete(g)
       \/ Step(g, "exit", "raised") /\ ~CanInterrupt(g)
       \/ \E from \in {"raised", "withdraw"} : Step(g, from, "none") /\ ~CanInterrupt(g)
    /\ UNCHANGED <<journalVars, disk, cached, work, op, batch, snap, used>>

KillDriver(g) ==
    /\ driver[g] # "none" /\ Unlocked(g)
    /\ Count("faults", MaxFaults)
    /\ driver' = [driver EXCEPT ![g] = "none"]
    /\ UNCHANGED <<journalVars, disk, cached, work, op, batch, snap>>

-----------------------------------------------------------------------------
(* The operator's inbox and repository, and the executor's edits.          *)

DropPrompt(n, p) ==
    /\ \A f \in spool : f[1] = "inbox" => f[2] # n
    /\ Count("drops", MaxDrops)
    /\ spool' = spool \cup {<<"inbox", n, p>>}
    /\ UNCHANGED <<journalVars, archive, art, cached, work, process>>

EditRepository ==
    /\ \/ \E w \in 0..MaxWork : w # repo.work /\ repo' = [repo EXCEPT !.work = w]
       \/ repo.index # repo.work /\ repo' = [repo EXCEPT !.index = repo.work]
       \/ repo.index # 0 /\ repo' = [repo EXCEPT !.index = 0]
    /\ UNCHANGED <<journalVars, disk, cached, landed, process, used>>

CommitRepository ==
    /\ repo.index # 0 \/ repo.work # 0
    /\ Count("commits", MaxCommits)
    /\ repo' = [head |-> used'.commits, index |-> 0, work |-> 0]
    /\ UNCHANGED <<journalVars, disk, cached, landed, process>>

-----------------------------------------------------------------------------
Command ==
    \/ InitBegin \/ Rebuild \/ AdoptBegin \/ IngestBegin \/ RecoverBegin
    \/ \E g \in Gens : \/ CancelBegin(g) \/ CheckpointBegin(g)
                       \/ \E b \in BOOLEAN : StartBegin(g, b)
                       \/ InterruptBegin(g, "operator") \/ CompleteBegin(g, "operator")

Locked ==
    \/ InitAppend \/ AdoptAppend \/ Receive \/ Process \/ Archive
    \/ PublishPolicy \/ PublishPolicyRefused
    \/ Prepare \/ PublishOwner \/ Rename \/ Terminal \/ TerminalRefused
    \/ CheckpointIntent \/ CheckpointAdvance \/ CheckpointVerify \/ CheckpointRefused
    \/ CheckpointFinish
    \/ RecoverTransaction \/ RecoverRollback \/ RecoverAbort \/ RecoverForward
    \/ RecoverRefused \/ RecoverArtifact \/ RecoverSave \/ RecoverFailed
    \/ Save

Executing(g) ==
    \/ ExecutorLogs(g) \/ WriteResult(g) \/ CollectUsage(g) \/ TelemetryFails(g)
    \/ ExecutorRaises(g) \/ WriteFailureLogs(g) \/ WriteFailure(g)
    \/ Replay(g) \/ UnlockedSave(g) \/ DriverRefused(g)
    \/ CompleteBegin(g, "driver") \/ InterruptBegin(g, "driver")

Fault ==
    \/ SaveFails \/ StartFails \/ IntentFails \/ Crash
    \/ \E g \in Gens : KillDriver(g)

Environment ==
    \/ \E n \in Names, p \in Prompts : DropPrompt(n, p)
    \/ EditRepository \/ CommitRepository

Next == Command \/ Locked \/ (\E g \in Gens : Executing(g)) \/ Fault \/ Environment

Spec == Init /\ [][Next]_vars
=============================================================================
