# A verification project for Atlas

TLA+ models of Atlas Agent (`tools/atlas_agent`) and of the Core store (`src/atlas`), the TLC runs
that check them, and theorems about them that TLAPS proves.  Every definition is translated from the Python source;
`PROJECT.json` gives the lines of each.

## 1. The system

Atlas has two halves.  **Atlas Agent** drives a coding agent through an operator-approved
sequence of prompts: it accepts prompt files, runs the agent in a sandbox, records every step in
an append-only journal and turns reviewed work into commits.  **Atlas Core** (`src/atlas`) is a
store of typed knowledge with snapshots, supersession and decision problems.  They share no state.

### 1.1 Inventory

| component | state it keeps | operations | correct when |
|---|---|---|---|
| **Journal** `journal.py`, `replay_journal` | `events.jsonl`; its projection (generation records, boundary, outstanding transactions and checkpoint intents) | `append` (validates the candidate journal first), `read`, replay | an event that replay refuses is never written; the projection only makes life-cycle steps |
| **Spool** `spool.py` | `inbox/ accepted/ running/ completed/ interrupted/ cancelled/ rejected/ prompts/ reports/`, the lock file | `lock`, `move_transaction`, `validate_spool` | a known prompt has exactly one file, where its status says |
| **Workflow** `workflow.py` | `state.json`, a cache of the projection; the locals of a running command | `init`, `ingest`, `cancel`, `execute`, `start_run`, `complete_run`, `interrupt_run`, `checkpoint`, `adopt_boundary`, `recover`, `rebuild` | one run at a time; checkpoint is all or nothing; a crash leaves what `recover` can finish; a started execution ends |
| **Repository** `repository.py` | HEAD, index, work tree | `witness`, `prepare_checkpoint`, `advance_checkpoint`, `verify_checkpoint_boundary`, `rollback_checkpoint` | HEAD moves only from the recorded parent to the recorded commit |
| **CLI, prompts, records** `cli.py`, `prompt.py`, `model.py` | none | parse, dispatch to a command | |
| **Codex executor** `executor.py`, `codex_executor.py` | a child process group, a writer thread, streams, a runtime home | prepare, run, interrupt, kill, reap, read the session's report | every child is reaped; one outcome; bounded by the deadline |
| **Bubblewrap executor** `bubblewrap.py` | scratch directories, an exec server, staged credentials, cache locks | create/clean scratch, start/stop server, publish credentials | what preparation acquired is released on every path |
| **One-shot executor** `one_shot.py` | a child process group, a scratch directory | run, terminate and reap | as above |
| **Toolchains** `toolchains.py` | cache directories and lock files | resolve capabilities, prepare backing, lock | one execution per cache at a time |
| **Policy, telemetry** `policy.py`, `telemetry.py` | `usage.json` | derive the sandbox policy, collect usage | |
| **Bounded JSONL** `jsonl.py` | buffer of a partial line | iterate | the lines of the file, the long ones marked, bounded memory |
| **Sessions** `workflow.py`, `journal.py`, `policy.py` | the session plan, parent context and observed session of each run, in the journal | decide fresh or reuse, record, validate the history again | what was accepted when it was journaled is accepted ever after; sessions form chains |
| **Release** `release.py`, `codex_release.py` | runtimes, installed controllers, `current-controller`, `active-controller.json`, launcher, the workflow's boundary | reconstruct, build, prepare; preflight, install, activate, verify, promote, post-cutover | a release stays what it was and keeps its runtime; what reports PASS is bound to one commit and one runtime |
| **PVC, review, context, semantics** `pvc*.py`, `review.py`, `context_plan.py`, `semantic.py`, `python_semantic.py`, `assets.py` | staged images | build and validate documents | |
| **Core store** `store.py` and its value modules | SQLite tables and their in-memory images | admit, snapshot, supersede, derive, decide, status, reopen | a decision's status says what is effective; stale is final; reopening refuses nothing the operations wrote |
| **Core grounding and problems** `rules.py`, `scope.py`, `problem.py` | none beyond the store | ground, evaluate, select, validate | a persisted grounding, problem and decision stay in agreement with their snapshot |
| **Language-server queries** `semantic_query.py`, `python_semantic_query.py` | a child process and a deadline | one query | one deadline for the whole exchange |

`experiments/`, `conformance/`, `knowledge-corpus/` and `codex-assets/` are proofs of concept, a
fixture validator and data; they are not part of the running system.

### 1.2 Interactions

Every Workflow command takes the blocking `flock` of `spool.lock`, replays the journal, compares
`state.json` and the spool with the projection (`_preflight`), and then acts in small durable
steps.  `execute` is the exception: it holds the lock until `RUN_STARTED` is durable, runs the
executor **without** it, and takes it again through `complete_run` or `interrupt_run`.  The
executor edits the work tree; the operator drops files into `inbox/`, edits and commits at any
time.  A process may die between any two durable steps, and `recover` then resumes from the
journal.

The operations of a Core store are calls on one handle.  Each commits one transaction and then
publishes it in memory.  Everything a reader sees is computed from the tables when asked for: the
view of a snapshot from all supersession edges, a grounding from the view, a problem from the
grounding, and the status of a decision from all of them.

Before `RUN_STARTED`, `execute` has the executor **prepare**: lock the caches of the capability plan,
open its authority, create the scratch directory and try the sandbox.  The preparation is withdrawn
by the workflow until `run_execution` takes it over, and by the executor's own `finally` afterwards.
Executors of several processes share the caches, the scratch store and the operator's Codex home,
from which sessions and credential are imported and to which they are published after the run.

The session a run continues, and what it is told about its parent, are decided under the lock and
journaled; every later command recomputes these decisions from the prefix of the journal they
were made on.

The release commands take no lock at all.  They share the repository, the Codex source worktree, the
installed runtimes, the installation and, through `promote`, the workflow's boundary.

### 1.3 What is hard

Crashes between the four steps of `move_transaction`, and again during recovery; the commit of a
checkpoint, which spans Git and the journal; the lock-free phase of an execution, in which its
reports appear while other commands validate the spool; a cache that is saved at the end of a
command and can lag; admission rules that replay does not repeat.  The teardown of an execution,
each step of which may fail, on three paths that take turns in owning it; a credential that is
replaced in the operator's home while another run, or a login, replaces it too.  History that is
validated again with the policy, the capabilities and the journal of another day.  Release commands
that read HEAD, tree and archive one after the other.  In the Core store, rows that are never written
again are validated again and again against a view that later edges change.  `PROJECT.json` lists the
hazards with their lines, and the properties that are about each.

## 2. The modules

| module | content |
|---|---|
| `AtlasJournal` | the journal as a sequence of events, the projection as variables that each append advances, and what replay refuses (`Admissible`, `IntentAdmissible`, `AdoptionAdmissible`) |
| `AtlasWorkflow` | EXTENDS it: spool, archive, reports, cache, repository, lock holder, executing process; one action per durable step of every command |
| `AtlasLifecycle` | **abstract**: what the operator is promised about generations and the boundary |
| `AtlasWorkflowProperties` | safety, liveness, and the refinement `Lifecycle!Spec` |
| `MCAtlasWorkflow` | prompt sets for TLC |
| `AtlasWorkflowProofs`, `AtlasRecoveryProofs`, `AtlasHealthProofs` | its theorems, the refinement among them; each EXTENDS the one before |
| `SessionHistory` | the provenance of a run: session plan, parent context, observed session, and their validation against the history |
| `ThreadChains` | **abstract**: runs form chains, none is continued twice |
| `SessionProperties`, `MCSessions` | what session reuse promises, the refinement `Chains!Spec`; the instance |
| `SessionProofs` | its theorems, the refinement among them |
| `ExecutorSupervision` | one run of the agent's process: launch, writer thread, loop, deadline, interrupt, shutdown, verdict; its properties |
| `ExecutorSupervisionProofs` | its theorems |
| `SandboxExecution` | the Bubblewrap executor around it: preparation, hand-over, imports, server, teardown, publication, abandonment |
| `CredentialChain` | **abstract**: which credential a run's publication may replace |
| `SandboxProperties`, `MCSandbox` | what the executor guarantees, the refinement `Credentials!Spec`; the instance |
| `SandboxProofs` | its theorems, the refinement among them |
| `RuntimeBuild` | how a Codex runtime is reconstructed, built and prepared; the repository and the operators |
| `ControllerRelease` | EXTENDS it: preflight, install, activate, verify, promote, post-cutover |
| `ReleaseProperties`, `MCRelease` | what the release commands promise; the instance |
| `ReleaseProofs` | its theorems |
| `CoreKnowledge` | the tables of records, derivations, snapshots and edges; what a snapshot shows; the operations that add to them; what reopening demands of them |
| `CoreDecisions` | EXTENDS it: evaluation, problem, decision, status, reopening |
| `CoreDecisionsProperties`, `MCCoreDecisions` | what decisions promise; the instance |
| `CoreDecisionsProofs` | theorems of every property but the one that fails |

Definitions marked *Mutation* differ from the one they stand beside by one plausible mistake.  No
action uses them; they are what each property has been seen to catch.

### 2.1 State and code

- `journal` holds the kind and the transaction of each event.  `status`, `prompt`, `wit`, `owned`,
  `fallback`, `claim`, `boundary`, `outstanding`, `intents` are `replay_journal(journal.read())`; as
  replay is a left fold, each `Log...` operator performs one iteration of its loop.  `Journal.append`
  replays the candidate before it writes, so the refusals of replay are guards of the appends.
- `spool` is the set of prompt files `<<directory, name, content>>`; outside `inbox/` the name is
  canonical.  `archive` is `prompts/`; `art[g]` the report files of `g`'s execution, by provenance
  of their content.  A `result.json` is the executor's own (`run`, or `failed` when the executor says so
  itself), one rewritten because telemetry failed (`unmeasured`, `unmeasuredFailure`), the `failure` that
  `execute` records, or `derived` by `recover`.
- `claim[g]` is what the result given to `complete_run` says, which it takes as it is given: the
  `executor`'s own, or one the operator typed, which agrees with the reports (`typed`), does not
  (`unsupported`: `validate_spool` refuses the spool from then on), or is one replay refuses (`refused`: it
  contradicts itself, or names another session than the one the run resumed).  `Results` bounds what may be
  typed.  Any RUNNING generation may be completed by hand, also one an executor is working for.
- `cached` is the length of the journal prefix whose projection is in `state.json`.
- `repo` is a witness: HEAD, and the content of index and work tree relative to it.
- `op` is the lock and its holder: the command, the next durable step (`pc`), and where to go
  after the transaction's terminal event (`next`).  A command's first action checks everything the
  code checks before its first durable step; each following action is one durable step;
  `Save`, `SaveFails`, a refusal or `Crash` releases the lock.
- `driver[g]` is the phase of the process that executes `g` while it does not hold the lock.  `post`
  and `failure` are the reports it writes for a run it has interrupted; `withdraw` is an execution whose
  `state.json` could not be written at the start, and which is interrupted for that.

`state_audit` prompts are treated by the workflow exactly like `patch_review` and are covered by
it.  What a prompt's session mode does to a start is the matter of `SessionHistory`, for which a
transition is one step.

`SessionHistory`:

- `gens[g]` is the record of generation `g`: prompt, status, and from the owner that `RUN_STARTED`
  carries the policy, the capability plan, the session plan (`plan`) and the parent context
  (`context`); from the terminal event the observed session and outcome (`result`).  `started` and
  `ended` are the positions of those events, so that `Before(k)` is the replay of a prefix.
- `Plan` and `ReuseVerdict` are `_session_plan` and `_reuse_snapshot` with their checks in order;
  `StartHolds` and `EndHolds` are `_validate_historical_provenance`; `Preflight` is what every command
  does first.  `Return`, `Raise`, `Die` are the ends of an `execute` call, `OperatorCompletes` and
  `OperatorInterrupts` the commands.
- `stuck` is a transaction that was prepared and whose terminal event replay refused.  In
  `AtlasWorkflow`, where sessions are not told apart, it is a transaction whose claim is `refused`.

`ExecutorSupervision` is one call of `CodexExecutor._run_execution_inner`:

- `pc` is the parent's position: `setup` between `Popen` and the loop, `loop`, `grace` and `kill`
  for the two waits of `_terminate_and_reap` (`after` says who called it), `finally` and `join`,
  `decide`.  `result` is the exception in flight and in the end what the caller gets; `shutdown`,
  `timedOut`, `eof`, `code` are the locals of those names.
- `writer`, `sent`, `writeError`, `closeError` are the thread and its `writer_state`; `fd` is the
  descriptor both threads close.
- `child` and `helper` are the process group, `holdsIn` and `holdsOut` who keeps its pipes open.
  The child may read or not, close its streams, exit when it likes and ignore both signals.
- `lost` remembers why a group may be left alive; it is only read by properties.

It is not composed with the workflow: `AtlasWorkflow` knows an executor by its outcomes (result,
exception, death), and those are the values of `result` and a crash of the parent.

`SandboxExecution` has callers (one `Workflow.execute` each), executor objects and execution ids:

- `pc[c]` is the caller's place: `locking` .. `proving` in `prepare_execution`, `identity` ..
  `handshake` in `run_execution` and `_start_server`, `client` while the supervised run is on,
  `stopping` .. `finishing` in `_stop_server` (`via` says who called it), `leaving` in the
  workflow's own `finally`.
- The variables of an executor are its attributes of the same purpose: `runLock`, `plan`, `locks`,
  `scratch`, `handle`, `descriptor`, `defer`, `source`, `transferred`.  A second call on the
  same object finds what the first left.
- `dir`, `fds`, `home` are the scratch store's entry of an id, its retained descriptors and what was
  imported; `server`, `mounts`, `image` the process in the namespace.
- `lineage` is the history of the credential: who wrote each version, from which one it was derived, and
  the file it lies in.  A file is its device and inode number, which is all `_publish_auth` compares: a
  login writes into the file there is or a new one, `os.replace` puts a new one in its place, and a number
  that is no longer in use may be given to a new file (`Files` bounds how many there are).
- A name in the store is `absent`, `ours` or somebody else's directory, `empty` or with content
  (`foreign`).  Comparing an entry and using its name are two steps (`Clean` and `RemoveScratch`,
  `MakeScratch` and `OpenScratch`), and what `create`, the probe and `prepare_execution` take back on
  failure are steps of their own (`Unmake`, `Unprobe`, `Retract`).  `used.raced` records the names at which a
  foreign directory appeared between two such steps (`Naming`).
- `earned`, `returned`, `excused`, `lost` and `used.raced` are history that only properties read.

`RuntimeBuild` and `ControllerRelease` have operators, each with one command at a time:

- `proc[o]` is the command, its next step and the values it has read; `repo`, `worktree`, `target`,
  `runtime`, `controllers`, `link`, `active`, `launcher` are files and directories; `boundary` is the
  workflow's.  `shell[o]` is the runtime `ATLAS_CODEX_EXECUTABLE` names.
- Each replacement, removal and rename is an action; so is each separate reading of something
  that others change.
- `proc[o].seen` records that somebody changed what the command reads while it ran, and
  `used.contested` the release ids at which a preparation removed a directory that was not its own.
  Both are only read by properties.

`CoreKnowledge` and `CoreDecisions` are one `Store`:

- `facts` and `derived` are `self.records`, `deps` the dependencies in `self.derivations`,
  `snapshots`, `parent`, `contents` are `self.snapshots`, `edges` is `self.supersessions`.  Database
  and memory are one state: every operation commits before it publishes.
- `Visible`, `Effective`, `Closure`, `Descends` are the functions of `store.py` of those purposes.
  Where the code loops to a fixed point or follows pointers, the model takes the largest or the
  smallest set closed under the step; lemmas of the proofs module say that it is.
- `scope`, `grounding`, `objective`, `outcome` are the four rows of a case, `rows` which of them are
  stored, `isolated` which of them the last opening refused.  `Live` is membership of the map in memory.
- `Observe` is `discover_relation` and `ground`: what it found and read, and `UNKNOWN` for a missing or
  ambiguous read, `ERROR` for an inexact one.  `Agrees`, `ProblemValid` and `Accepts` are the
  validations that admission, `status_of` and `_load` share.
- `AdmitDerived` takes any proof whose records are in the snapshot, effective there or not: the
  code does not repeat the evaluation.

### 2.2 Abstractions

Content is a small number, equal when the bytes are.  An append or an atomic replacement happens
entirely or not at all (the code writes, fsyncs and renames).  Hashes identify content.  A
failed write is modelled where the code handles it specially: `_save`, the append of
`RUN_STARTED` and the append of `CHECKPOINT_INTENT`.  Files already in the inbox are not
overwritten while they wait.

In `SessionHistory` a generation runs at most once, so its number is also its execution id and the
session its run opens.  A reuse prompt names an execution that has run, or `0`, one nobody knows.
Of an interrupted run only the observed session is kept, as nothing reads the rest.  A launcher that
calls `start-run` is assumed to publish its report directory.  Policies are compared by `kind`,
which stands for the six settings the code compares.

The supervision abstracts input to chunks and output to whether somebody holds its write end: what
is read changes no control flow but the heartbeat.  `StreamFails` stands for every exception of an
iteration.  `Launch` is atomic, as an interrupt inside `Popen` is Python's affair.  A reused
descriptor number is not modelled.

In the sandbox the checks of host binaries, the probe of the namespace, the argument list of bwrap
and the loopback handshake are reduced to whether they succeed; each may fail.  The comparison of
writable mounts with controller objects is kept, by identity of the object (`alias`).  A crash of
the controller kills its servers, as `--die-with-parent` does.  Two branches that `Workflow.execute` does
not reach are left out: `run_execution` with a preparation that is not the executor's last, and
abandoning one that recorded no scratch.

In the release what a check runs (smokes, imports, the resolver) is reduced to whether it succeeds.
A runtime is its digest, a commit its identity and the digest its policy names.

A record of the Core store is an identity with a slot, what a replacement must keep.  Rules,
contexts and vocabularies are fixed, their snapshot copies agree with them, and one context and one
rule serve all cases.  The set operators of a rule are a choice of the facts that make it `TRUE`.
Costs are numbers of facts; the optimum is determined by the candidates that attain it.  Damaged
rows and the older row formats are left out: reopening sees what the operations wrote.


## 3. The runs

| run | instance | checks |
|---|---|---|
| `crashes` | one file: an implementation, a checkpoint or a malformed one; legacy prompts, any typed result, 3 commits, 2 faults | `TypeOK`, `RunsHaveOwner`, `CheckpointAtomic`, `HealthyWithoutFaults`, `ImplementsLifecycle` |
| `inbox` | two files under two names, each an implementation or the patch review that follows it; typed results that replay refuses, 1 fault | `PromptNeverLost`, `SingleRunning`, `OneInFlight`, `RefusedOnlyWhenTyped`, `RunNeverAbandoned` |
| `repair` | 1 implementation or checkpoint, typed results that agree or are refused, 1 fault, fair repair and executors | `Repaired`, `RunsEnd` |
| `interrupted_transition` | 1 fault | `InterruptedTransitionRecoverable` is violated |
| `sessions` | 3 generations, 2 policies, 2 capability plans | `TypeOK`, `RefusedOnlyAfterTyping`, `ContextsAgree`, `ChainsAreReal`, `FreshIsNew`, `ImplementsThreadChains` |
| `hidden_taint` | the same | `TaintIsNotHidden` is violated |
| `supervision` | 2 chunks through a pipe of 1, 2 interrupts, fair parent | `NothingLeft`, `VerdictIsOwn`, `HandoffComplete`, `Ends` |
| `interrupted_shutdown` | 1 chunk, 1 interrupt | `InterruptReaps` is violated |
| `sandbox` | 2 callers with an executor each, 1 cache, 2 executions, 2 file numbers, 1 event, fair callers | `TypeOK`, `CacheExclusive`, `NothingLeftBehind`, `ServerIsPinned`, `SuccessIsComplete`, `ForeignUntouched`, `ImplementsCredentialChain`, `CallsEnd` |
| `release` | 2 operators, 3 commits on 2 branches, 2 runtimes, 2 names, 4 acts | `ReleaseRuns`, `InstallBinds`, `InstallationPaired`, `BuildQualified`, `BoundaryAdvances` |
| `core_store` | 3 snapshots, 7 facts, 1 derivation, 2 edges, 1 case of 2 candidates | `KnowledgeRestores`, `StatusMatchesView`, `StaleIsFinal`, `ReopenKeepsStatus`, `BranchesAreIndependent` |
| `core_history` | the same | `HistoryIsNotRewritten` is violated |

**Bounds.**

*Workflow.*  `MaxGen` prompts' generations, `MaxCommits` commit objects, `MaxWork` contents of the
work tree besides clean, `MaxDrops` files dropped, `MaxFaults` crashes, kills and failed writes, `Results`
what may be typed.  In `crashes` two faults let a recovery be interrupted by a crash; three commits are
the initial one, the checkpoint's and a foreign one between or after; every kind of typed result occurs.
In `inbox` two generations let a run start beside another, an executor of an interrupted run disturb the
next one, and a successor be refused while its parent is not terminal; two names let one batch hold a prompt
twice, or a prompt and its successor, in either order of names.  The instances are small because each
fault multiplies the interleavings; the theorems below hold for all bounds.  What is idle in them: no run
has a checkpoint beside another generation, so that the conjuncts of `OneInFlight` about intents, true of
`inbox` for want of one, rest on `OneInFlightCorrect`; and `repair` has one generation, so that the
premise of `RunsEnd` about the reports of other runs is only met in `inbox`, by `RunNeverAbandoned`.
`repair` leaves `unsupported` results to `crashes`: what they lead to, `EndedByHand`, is also reached with a
result that agrees and an executor that fails, or is killed, before it has written the reports.
`CHECK_DEADLOCK FALSE` is set where the bounds themselves, or the dead ends of section 3.1, stop the
workflow.

*Sessions.*  Three generations are the fewest in which two runs can name one target, a later run can
taint the lineage of a third, and a chain can be longer than the tighter policy's single hop; two
policies and two capability plans make every refusal and fallback of `_reuse_snapshot` happen.

*Supervision.*  Two chunks and a pipe of one let the writer block, fail before, between and after its
writes; two interrupts let the second fall into the shutdown the first one caused.

*Sandbox.*  Two executions run side by side or one after the other on one executor; an id is only a name,
and `Turns` fixes who takes which (`SomeOrders`: the one with both is the first to submit, or the only
one).  The first caller asks for the cache, a private session store and staged images; the second for the
same, for a writable workspace, or for capabilities whose digest is not the recorded one.  One event - a
login, a replaced Codex, a foreign directory or a crash - falls between any two steps, those between a
comparison and the use of a name included; a server may end at any time.  Two file numbers are the fewest
with which one is given out again after a replacement.  A writable workspace that holds a controller object
under another name is not in the run; the theorem `AuthorityUnwritableCorrect` covers it.

*Release.*  Four acts, a command or something an operator does, are enough for prepare, install and
two activations, or for two preparations and two installations side by side; the initial states with
everything installed leave all four for what comes after.  The two operators are symmetric.

*Core.*  Three snapshots give a chain and two branches; two edges a chain, a cycle that must be refused,
and one edge per branch.  The facts are the fewest with which a rule is `TRUE`, `UNKNOWN` and in error, a
candidate enters the scope by a derivation whose proof the scope's rule does not read, and both
replaced slots are admitted after the first snapshots.  Cases do not interact, so one suffices.  The
snapshots are symmetric: no definition of the instance names one.  The theorems hold for any number
of all of these.

### 3.1 What they show

**Workflow.**  Through crashes, kills, failed writes and repeated recovery a prompt is never lost or
doubled, at most one generation runs, one transaction is unresolved at a time, a run has its owner
metadata, and a checkpoint's commit and completion go together.  The projection implements
`AtlasLifecycle`: the boundary moves only by a completion within the policy of its action or by adoption
of a clean repository.

Without faults a command leaves a workflow the next one accepts, with these exceptions
(`HealthyWithoutFaults`): a checkpoint whose repository changed under it; an interrupted run whose reports
are yet to be written or derived, or whose real reports `recover` met; and what the operator can type.
`complete-run` accepts any result document that names the run's execution, at any time while the run is
RUNNING, and asks neither the history nor the reports.  With one that names another session than the one
the run resumed, or contradicts itself, it prepares the completion and moves the file before replay
refuses `RUN_COMPLETED` (`journal.py:550-561`, `605-610`): the transaction stays, the execution's own
completion and interruption are refused because of it, and so is every `recover`.  With one that agrees it
completes the run whatever the executor has written or goes on to write; without a successful `result.json`,
logs and usage the spool no longer validates (`spool.py:111-178`).  `start-run` of a checkpoint generation
ends like the first.  `RefusedOnlyWhenTyped` says that nothing else a command prepares is ever refused.

`Repaired` states how far repair goes: `recover` and `rebuild` bring the workflow back, or it is in
one of seven named dead ends:

- `UnresolvedOutOfReach`: `state.json` is not the projection from which `recover` resumes.  This happens
  to a transaction (section 3.2, 1.) and to a checkpoint intent: an execution whose `state.json` could not
  be written replays and saves again outside the lock, and if another generation's checkpoint has
  journaled its intent in between, the late save takes the projection back behind it;
- `TwoCopies`: the file of the transaction is there twice, because the operator dropped it into the inbox
  again after it was moved, or because `rejected/` already holds the same bytes;
- `CompletionRefused`: a completion that replay refuses, by hand: of a checkpoint started with `start-run`,
  or with a result that contradicts itself or the session of the run;
- `OrphanFile`: a prompt or policy archive published for a transition that was never prepared;
- `ArtifactsLost`: reports of an ended run that `recover` may not overwrite, or is too far behind to derive;
- `EndedByHand`: a run that `complete-run` ended, completed or interrupted, without the reports its result
  takes, and whose executor no longer works on them;
- `RepositoryMoved`: somebody edited or committed under an unresolved intent.

The documentation (`docs/roadmap.md`, 10.6) says that repair is not meant to be exhaustive; the property
says what is left.

`RunsEnd` says that without faults a started execution reaches a terminal event, whatever its executor does,
if no refused completion is typed and the reports of the other runs validate meanwhile.  They do not
always: an operator interrupts `g` while its executor is still at work, `recover` derives a `result.json` for
`g`, the next generation `h` starts, and the late executor of `g` overwrites the derived result.  From then
on `_preflight` and `interrupt_run` refuse, so that `h`'s `complete_run` and `interrupt_run` both fail and `h`
stays RUNNING without a process.  `RunNeverAbandoned` says that the two cases, another run's reports and a
refused completion typed for this one, are the only ways.

**Sessions.**  A history that Atlas wrote alone is never refused: every plan, parent context and observed
session is found again from the prefix of the journal it was decided on.  Only a result an operator
typed with `complete-run` can make later commands refuse.  Chains of resumed runs are as long as recorded,
stay within the policy of their day and keep session, settings and capabilities; no run is
continued twice, although prompts name targets in any order; two runs share a session only if one resumed it
or the capabilities changed.

**Supervision.**  A supervised run always ends, even if its child ignores every signal.  It then has reaped
the child, killed the group and ended its writer, unless SIGKILL was too slow, the writer thread starved or
a Ctrl-C fell into the shutdown; and it reports `success` or `failed` only of a child that exited by
itself after it was handed its whole input.

**Sandbox.**  No two servers that can still be reaped write one cache.  When no call is under way the executor
can be prepared again, its authority is closed, and neither scratch nor server remains but those that could
not be removed or reaped; `run_execution` reports these, while preparation and abandonment pass over them
(`bubblewrap.py:462`, `1129`, `workflow.py:1931`).  What runs is the Codex the snapshot pinned; success is only
reported after everything was published and removed; every call ends.

A foreign directory under an execution's name is left alone, outside the windows the code has: `cleanup`
compares the entry (`222-228`) and then calls `rmdir` by name (`229`), so that an *empty* directory that was put
there in between goes; `create` opens by name the directory it made (`138`), which makes whatever is there its
own, and if that fails removes it by name, emptied first if it could not be opened (`153-168`).
`ForeignUntouched` says that these are the only ones, and that outside `create`'s a directory with content
always stays.

The credentials implement `CredentialChain`.  The code compares device and inode of `auth.json` with those of
the file that was imported, before and under the lock (`1051`, `1072`), and holds no descriptor of that file
meanwhile (`776-779`).  It is not true, therefore, that no login and no refresh is ever overwritten: a login
that rewrites the file in place, a replaced file whose number was given out again, and a login between the
second comparison and `os.replace` are.  What the refinement says is that these are all: a publication replaces
the credential it was derived from, one that lies in the very file number it was imported from, or logins
made since the comparison, never what another run published under another number; each execution publishes
at most once, and only if its client succeeded.

**Release.**  An installed controller keeps its runtime; one installed while nobody touched the repository is
of one commit; an activation or verification that reports PASS and met no other found or left one release
behind the launcher; a build that reports PASS is of the qualified source; the boundary only advances,
which `adopt_boundary` checks again under the lock against the boundary and HEAD it finds there.  A commit
made while a controller is being installed gives a release of two commits; `InstallBinds` exempts it.

**Core.**  The status of a decision, computed from edges and recorded dependencies only, agrees
with the view it never looks at; `STALE` is final along a branch; a supersession on another branch
changes nothing if the decision's snapshot did not hold the replacement; and reopening isolates only
what already had status `INVALID`.

### 3.2 Where code and documentation disagree

1. *interrupted_transition.*  `ingest` journals `PROMPT_RECEIVED` and does not save `state.json`
   before the first transition.  If it dies between `TRANSITION_PREPARED` and the terminal event,
   `recover` finds a cache that is not the projection just before `PREPARED` and refuses; `rebuild`
   refuses because a transaction is outstanding, and tells the operator to run `recover`.
2. *interrupted_shutdown.*  `shutdown_attempted` is set before `_terminate_and_reap` runs; a Ctrl-C
   while it waits makes every later handler believe the shutdown was done, and the child may live on.
3. *core_history.*  The view of a snapshot omits every replacement whose edge is not visible there,
   also one it held as an ordinary record before the edge existed.  A supersession on a later
   snapshot between two records a decision read or discovered makes that decision `INVALID`
   relative to its own snapshot, and reopening isolates it.  The profile says (section 4) that
   supersession never rewrites the history of earlier snapshots; it also says that a replacement is
   visible on its branch only, which is the rule the code applies to records that were there before.
4. *hidden_taint.*  `_reuse_snapshot` compares the capability plans before it looks at the runs after
   the target, and a mismatch falls back to a fresh session; a lineage that is tainted is then not
   reported, although a comment there gives it priority over every fallback.

Met on the way, and part of the models without a run of their own:

- `recover` without an outstanding transaction derives the fallback reports of interrupted runs first,
  and refuses when the execution has meanwhile written its own (`HealthyWithoutFaults` names the state).
- `start-run` admits a checkpoint generation, whose `complete-run` then journals `PREPARED` and moves the
  file before replay refuses `RUN_COMPLETED` (`RefusedOnlyWhenTyped`, `Repaired`).
- `complete-run` of a run with an execution owner takes a result document without looking at its session or
  at the reports, and what it leaves may be refused for ever (section 3.1; `CompletionRefused`, `EndedByHand`;
  `stuck` in `SessionHistory`).
- `ScratchStore` removes by name what it compared, or did not compare, a step before, and `_publish_auth`
  takes an inode number for an identity (section 3.1; `ForeignUntouched`, `CredentialChain`).
- After the end of stdout the supervision leaves its loop when the child exits, and its `finally` closes
  stdin although the writer thread, done with its writes, is about to: a successful run is reported as
  `CODEX_INPUT_CLOSE_FAILED` (`VerdictIsOwn` allows it).
- `prepare-runtime` creates its release directory inside the `try` whose handler removes it: of two
  preparations of one release id the slower removes the directory of the faster (`used.contested`).
- Two installations of one HEAD are equal by head and tree only; what the first one read in between commits
  stays (`quiet`).

### 3.3 Fairness

`FairSpec` of the workflow assumes weak fairness of the lock holder (a process that runs takes its
next step), strong fairness of each step by which an executing process takes the lock (`flock`
blocks until it is free, and other commands come and go), and an operator who retries `recover`
and `rebuild` for as long as they are refused, which is what `Repaired` is about.  Nothing is
assumed of other commands, of edits or of faults.

`FairSpec` of the supervision assumes that the parent and its thread are scheduled and that time
passes; its waits are all bounded, so nothing is assumed of the child, the helper or the operator.

`FairSpec` of the sandbox assumes that while some call can take a step, some call does (weak fairness of the
callers' steps together, not of each).  That suffices because each call takes finitely many steps and the
only lock that is waited for, the publication lock, is held by a caller who can go on: between the second
comparison and the replacement, and its death releases it.  Every wait of a started execution has a
deadline.  Nothing is assumed of servers, logins or new calls.

## 4. The theorems

`AtlasWorkflowProofs` proves for every prompt set and every bound:

- `TypeCorrect`: `Spec => []TypeOK`.
- `OneInFlightCorrect`: at most one transaction and one intent are unresolved, of the same generation.
- `SingleRunningCorrect`: no two generations run.
- `RunsHaveOwnerCorrect`: an owned run has its policy archive and owner file.

Assumptions: `MaxGenAssumption`, `PromptsAssumption`, `NamesAssumption`, `BoundsAssumption`, evaluated by TLC in every
run.  The argument goes in four layers, each an inductive invariant given the ones before it.

1. `Typed`: `TypeOK` and `LocalsOK`, which relates the program counter to the locals (a holder in
   the middle of a transaction has one).
2. `Flight`: who may have something unresolved.  The lock holder's transaction is the only
   outstanding one from `PREPARED` to its terminal event; commands that start something new began
   with `Preflight`, hence with nothing outstanding; only a checkpoint or `recover` works beside an
   intent, and on its generation.  This is stronger than `OneInFlight`, which says nothing about
   the lock holder and is not inductive.
3. `Starting`: an unresolved or about-to-be-prepared `RUN_STARTED` implies that no other generation
   is running.  `SingleRunning` alone is not inductive because replay does not check it at the terminal event.
4. `Owning`: before the terminal event of an owned start the policy archive and owner file exist,
   and no other action removes them (`execute` withdraws the policy archive only when `PREPARED` was
   not written).

`AtlasRecoveryProofs` goes on from there, under the same assumptions, to what recovery rests on:
`CheckpointAtomicCorrect`, `RefusedOnlyWhenTypedCorrect`, `PromptNeverLostCorrect` and
`LifecycleImplemented`.  Two more layers:

5. `Recorded`, what a dead process left behind still fits the projection.  `Transacting`: every transaction
   that may yet be finished was prepared on the status, prompt, boundary and witness that replay has now,
   because nothing else was allowed to start.  `Landed`: an intent belongs to the generation it was
   written for, and HEAD stands on its commit only if it was moved there; commit numbers grow, so that a
   HEAD back on its parent has never left it, which is what `recover` concludes from looking at it.
   `Placing`: how far the lock holder has taken a checkpoint.  `CheckpointAtomic` alone is not inductive:
   that a run completes with its commit needs the intent, and that an intent is withdrawn only without a
   commit needs the commit numbers.  Replay's refusals and the refinement follow from `Transacting`: a
   terminal event is one step of `AtlasLifecycle`, and its guards are what `Prepared` says.
6. `Filing`: `PromptNeverLost`, and where the file of the transaction is while a lock holder is about to append
   its terminal event.

The same module proves what the fairness of the lock holder rests on.  Weak fairness of `Locked` only
brings a command to its end if it is never without a step and does not step for ever, and both are
matters of safety:

- `LockHolderGoesOn`: whoever holds the lock, at whatever point of whatever command, has a guard that is
  true.  `ENABLED` is out of the prover's reach, so the guards are stated one by one (`CanGoOn`); most are
  decided a step before they are used, and `Going` says that nothing undoes them.
- `CommandShortensCorrect`: every step of the lock holder brings it nearer to the end of its command, in the
  lexicographic order of files to read, prompts to take, a stage (`Stage`, a number for each program
  counter and what follows the transaction under way) and reports to derive; and no one else's step takes it
  back.  `WorkIsFinite` says that the sets in this measure are finite.  That a finite descent ends is
  induction over data, and is left to the reader.

`AtlasHealthProofs` builds on all of these invariants (`Sound`).  It proves that without faults the workflow
stays healthy, but for the exceptions above (`HealthyWithoutFaultsCorrect`), and a process leaves its run RUNNING
in the two cases only (`RunNeverAbandonedCorrect`), and that after faults repair is possible (`RepairPossible`) and ends well (`RepairEndsWellCorrect`).  Four
more layers:

7. `Kept`, how far the lock holder and the executing processes have taken the reports, whatever fails.  `Holding`
   ties command, transaction and process together, so that an executing process always has an owned run.
   `Unstarted` and `Phased`: what has been written for a run at each phase, and nothing before it starts.
   `Reported`: the reports of an ended run are there or named in its `fallback_artifacts`; that takes the list
   being drawn up while the executor may still write (`_missing_interruption_artifacts`), and the executor
   overwriting only what it then completes.  Recovery fails on the reports of a run only if this is broken
   (`RecoveredReports`).
8. `Calm`, what holds in addition as long as no fault has been counted.  `Archived`: the archive is ahead of the
   journal by the prompt under acceptance only.  `Unresolved`: what a released lock leaves outstanding is
   a completion that replay refuses.  `Projected`: whoever releases the lock with nothing
   unresolved has saved, or met an artifact conflict, which no later write undoes.  `Undisturbed`: no start
   has left files, no process saves again.  `HealthyWithoutFaults` alone says nothing while a command is
   under way.  `Founded`: what was ended by hand has its reports (`Clear`) when a command begins, and a
   command keeps that until it is about to save; a completion by hand that is not about to be saved is one
   replay refuses.  `Healthy` is both, without faults.
9. `Ending`, what becomes of a run.  `Acting`: a process that holds the lock at the end of its run saves only when
   the run is no longer RUNNING, so that it leaves it RUNNING only by a refusal.  `Spent`: the process that
   writes the reports of a failure has interrupted its run.  `Alone`: beside an unresolved checkpoint
   nothing else runs, so that no process is refused because of it.  `Grounded`: there is a `state.json`, and
   the late save does not empty it, as soon as there is anything to project.
10. `Mendable`, what a fault can leave.  `Trailing`: what the last event says of the transactions, and that as long
   as `ingest` was the last to journal, every report `recover` could derive has been derived, because `ingest`
   began with `Preflight`.  `state.json` lagging behind `ingest` is therefore never the reason why reports are
   refused, although `recover` does not accept such a lag.  `Queued`: a file stays in the inbox until its own
   transaction takes it, so that a prepared acceptance or rejection finds a copy.  `Crossing`: a checkpoint is
   started or completed only after its commit has landed, so that `recover`, finding HEAD on the parent,
   finds the generation ACCEPTED.  `Recovering`: what `recover` can be at.

`RepairPossible` needs no fairness and no operator: in every state with the lock free, outside the dead ends,
the checks of `recover` or those of `rebuild` pass.  `RepairEndsWell` says of each way in which `recover`
gives the lock back without being killed that the result is healthy, or one `rebuild` repairs, or a dead
end, or that the executor of a run ended by hand still owes its reports (`StillReporting`); so the two commands do not refuse in turn for ever.  Together with the descent above this is the safety
part of `Repaired`.  What is not in it: that steps are taken at all, and that an executor or a late save does
not spoil what was repaired each time; for these TLC's run stands.

`SessionProofs` proves every property of `sessions` for any number of generations, policies and capability plans,
under `Constants`: `SessionTypeCorrect`, `ContextsAgreeCorrect`, `ChainsAreRealCorrect`, `FreshIsNewCorrect`,
`RefusedOnlyAfterTypingCorrect` and the refinement `ThreadChainsImplemented`.  Two layers:

1. `Lived`: `Typed`; `Shaped`, which says of each record at what stage it is, and what its plan must have found
   when it was made (`Planned`, `Resumed`); `Serial`, runs follow one another in the order of their clocks; and
   `Once`, no run is the origin of two plans.  `Serial` is what makes a check against the state of the start
   still good at the end, in `FreshIsNew`.
2. `Hist`: every recorded decision is the one its prefix leads to now.  A step changes no prefix that an earlier run
   was judged by (`RightKept`), and a start is decided on the whole history because nothing else runs.  The end
   is the hard case: the prefix has grown by then, and the plan has to come out the same (`SamePlan`: two
   histories that agree on the runs other than this one lead to one decision, `LineageDepth` included).

`LineageDepth` and `Behind` are recursive functions: that their equations have a solution is proved first
(`DepthExists`), from the smallest generation at which there would be none (`Least`), as every edge
leads to an earlier generation.

`ExecutorSupervisionProofs` proves `SupervisionTypeCorrect`, `NothingLeftCorrect`,
`VerdictIsOwnCorrect` and `HandoffCompleteCorrect` for every `Chunks`, `PipeSize` and
`MaxInterrupts` (`SizesAssumption`), from one inductive invariant `Supervised`: `Processual` (an
exit status goes with the child's end, `code` is a copy of it), `Shutting` (what each caller of
the shutdown has established, and what holds between `finally` and `join` with and without it),
`Writing` (a writer without an error ends with everything written) and `Deciding`.  The properties
alone are not inductive: they speak of the end of a run and need what the shutdown left at `join`.

Why it ends is proved in two halves, neither of which mentions fairness.  `NeverStuck`: until the run has returned,
the parent, its writer or the clock has a step to take that no process of the group can delay
(`ParentReady`, `WriterReady`, `ClockReady`).  The case that needs an invariant is the join, where
a writer blocked on a full pipe has had its descriptor closed under it (`Unblocked`).
`SupervisionIsFinite`: what remains to be done (`Remaining`: the parent's way, the writer's, what the group has
left to close, to read and to exit) is a natural number, and every step makes it smaller, those of the group, of
a failure and of Ctrl-C included.

`SandboxProofs` proves every property of `sandbox` but `CallsEnd`, and also `AuthorityUnwritable`, for any
callers, caches, controller objects, requests and bounds, under `RequestsAssumption` and one hypothesis:
`Apart`, no two callers share an executor object.  A `Workflow` builds an executor for each `execute`, and
`_run_lock` alone would not do: a second caller's `finally` reads attributes the first has
overwritten.  Four layers again:

1. `Typed`: types, and the places at which an executor's attributes are set.
2. `Guarded`: a caller at work holds its `_run_lock`; a cache has at most one holder among executors,
   what a server has mounted is locked by its executor as long as it can be reaped, and its image and
   mounts passed the checks.  `CacheExclusive`, `ServerIsPinned` and `AuthorityUnwritable` follow.  Beside it
   `Raced`: a foreign directory under a name a caller is about to use appeared after the caller's last look.  With
   it `ForeignUntouched`.
3. `Tidied`: at each place, on each of the three paths into `_stop_server`, what is still held and who
   will release it (`Tidy`); what is owned by no caller is excused or lost (`Orphans`); executors nobody
   uses hold nothing (`Spare`).  This is what `NothingLeftBehind` needs, which only speaks of the end.
4. `Accounted`: what an execution has earned and published so far, and of the caller who holds the publication lock
   that some version of the credential lay in the file it imported from, and only logins came after it (`Seen`).  From it `SuccessIsComplete` and
   `CredentialChainImplemented`, the refinement: initial states map to initial states, and every step to
   a step of `CredentialChain` or a stutter.

Of `CallsEnd` the same two halves are proved.  `CallNeverStuck`: a call under way has a step of its own to take
(`CanGo`), or it waits for the publication lock and the holder is another caller about to replace or give up the
credential (`Publisher`): cache locks and executors are taken without waiting, and a preparation that is left
always has the scratch `abandon_prepared_execution` asks for (`Tidied`).  `CallShortens`: each step of a call
lowers its distance from the return (`Left`, at most 37 places through the three ways into
`_stop_server`) or, at the same place, takes one more of the cache locks it asked for; a step of anybody else leaves both as they
are, unless it is the crash that ends the call.

`ReleaseProofs` proves for any operators, commits, runtimes and number of acts `ReleaseTypeCorrect`,
`InstalledStaysCorrect`, `ReleaseRunsCorrect`, `InstallBindsCorrect`, `InstallationPairedCorrect`,
`BuildQualifiedCorrect` and `BoundaryAdvancesCorrect`.  The invariants speak of what a command *carries*: `Carried` (types of the
values it has read, by step), `Bound` (an installation nobody disturbed has read one commit throughout),
`Paired` (an activation nobody disturbed has left so far what it will report).  Both rest on a lemma about steps
of others: a value a command has read and nobody has `seen` changed is still the current one.  `RunsOK`
says that a runtime a release, a printed policy or a command relies on is there unless its name is
contested; a failed preparation removes only what it made itself or contests.  `Builds` says that while
a build is undisturbed the worktree is gone or holds the qualified source, so that whatever anybody compiles
there is qualified; a build that restores a `Cargo.lock` it read while it was edited disturbs the others like
an editor does.

`CoreDecisionsProofs` proves the five properties of `core_store` and its types for any records, slots,
snapshots, candidates and cases, under `KnowledgeAssumption` and `DecisionsAssumption`:

- `TypeCorrect`, with the order of the rows.
- `Restores` from the invariant `IInv`: types, `SnapshotsGrow` (a snapshot holds what its parent holds, and
  only records of the store), and the restorable tables, of which acyclic derivations need that a
  new derivation is cited by none before it.
- `StatusSound`: at the decision's own snapshot a valid problem cites effective records, `Supported` is the
  largest closed part, so the closure is effective there; `SnapshotsGrow` carries it to every
  descendant at which nothing of it is masked (`EffectiveCarries`).
- `StaleForever`: tables only grow, so closures and masks do, and a descendant sees its ancestors' edges.
- `ReopenSound` needs `Cascade`: isolation takes along whatever rests on a row.  Without it a decision could
  become valid by reopening.
- `BranchesSound`: a new edge elsewhere changes neither mask nor view.

Only model-checked: the liveness properties `RunsEnd`, `Repaired`, `Ends` and `CallsEnd`, as liveness under
fairness is beyond the prover.  What each rests on is proved without fairness: of the first two the safety part
(`RunNeverAbandonedCorrect`; `RepairPossible` and `RepairEndsWellCorrect`) and that the lock holder goes on and gets
nearer to its end (`LockHolderGoesOn`, `CommandShortensCorrect`, `WorkIsFinite`), of `Ends`
`NeverStuck` and `SupervisionIsFinite`, of `CallsEnd` `CallNeverStuck` and `CallShortens`.  That the conditions
these theorems name are those under which the actions are enabled is read off their guards, as `ENABLED`
is out of reach too.

## 5. What is left to do

In this order:

1. Protected and patch-owned untracked files through implementation, checkpoint and adoption.
2. Preparation and invalidation of caches in `toolchains.py` below the lock; the one-shot executor as a
   smaller instance of the supervision.
3. Damaged and legacy rows of a Core store, where isolation is a fixed point over four kinds of rows;
   `explain_m1`; a second handle on one database.

## 6. Not modelled

- **One-shot executor.**  One process with a deadline and no stdin of its own; the supervision covers
  the same sequence with more that can go wrong.
- **Bounded JSONL reader.**  A sequential reader of one file; what it computes for every input is data.
- **PVC bundles and context, review packages, context plans, semantic summaries, assets.**  They construct and
  validate documents and hold no state between calls; the executor model keeps their staged images.
- **Language-server queries.**  One request on one child under one deadline, read-only.
- **Untracked-file ownership** in the workflow, which the witness of `AtlasWorkflow` reduces to clean or not.
- **Mount table, payload schemas, historical journal formats, Git plumbing below the witness, rendering.**
  Input and output, or data that changes no step.
- **A second handle on one Core database, rows damaged outside Atlas, `explain_m1`**, as said in section 5.
- `experiments/`, `conformance/`, `knowledge-corpus/`, `codex-assets/`: not part of the running system.

`PROJECT.json` gives the reason for each component.
