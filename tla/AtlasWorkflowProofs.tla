----------------------- MODULE AtlasWorkflowProofs -----------------------
(***************************************************************************)
(* Proofs about the workflow for every set of prompts and every bound.     *)
(***************************************************************************)
EXTENDS AtlasWorkflowProperties, TLAPS

-----------------------------------------------------------------------------
(* Types.                                                                  *)

\* A transaction of a known generation names it; only starts carry an execution owner.
ValidTx(t) ==
    /\ t \in Txs
    /\ t.event \notin {"PROMPT_ACCEPTED", "PROMPT_REJECTED"} => t.gen \in Known
    /\ t.owned => t.event = "RUN_STARTED"

\* A command's locals mean something where the command uses them.
LocalsOK ==
    /\ \A g \in Known : prompt[g] \in Prompts
    /\ \A t \in outstanding : ValidTx(t)
    /\ op.pc \in TxPCs \cup {"archive", "policy"} => ValidTx(op.tx)
    /\ op.pc \in {"intent", "advance", "verify", "finish"} => op.gen \in Known
    /\ op.next = "finish" => op.gen \in Known
    /\ op.next \in {"idle", "save", "ingest", "finish", "resolve"}

Typed == TypeOK /\ LocalsOK

LEMMA HomeIsFile ==
    ASSUME Typed, NEW g \in Known
    PROVE  Home(g) \in Files /\ g \in Gens /\ prompt[g] \in Prompts
  <1>1. g \in Gens /\ status[g] # "NONE" /\ prompt[g] \in Prompts
    BY DEF Typed, LocalsOK, Known
  <1>2. status[g] \in Statuses
    BY <1>1 DEF Typed, TypeOK, JournalTypeOK
  <1>3. Dir[status[g]] \in LifeDirs
    BY <1>1, <1>2 DEF Statuses, Dir, LifeDirs
  <1> QED BY <1>1, <1>3 DEF Home, Files

LEMMA GensInBound == \A g \in Gens : g \in 0..MaxGen
  BY MaxGenAssumption DEF Gens

LEMMA JournalLength ==
    ASSUME TypeOK
    PROVE  Len(journal) \in Nat /\ NextSeq \in Nat
  BY DEF TypeOK, JournalTypeOK, NextSeq

LEMMA MoveTxType ==
    ASSUME Typed, NEW g \in Known, NEW event \in Transitions, NEW to \in LifeDirs,
           NEW w \in Witnesses, NEW ownedRun \in BOOLEAN, NEW files \in SUBSET Artifacts,
           ownedRun => event = "RUN_STARTED"
    PROVE  ValidTx(MoveTx(event, g, to, w, ownedRun, files))
  <1>1. Home(g) \in Files /\ g \in 0..MaxGen /\ prompt[g] \in Prompts
    BY HomeIsFile, GensInBound
  <1>2. <<to, "canonical", prompt[g]>> \in Files
    BY <1>1 DEF Files
  <1>3. NextSeq \in Nat
    BY JournalLength DEF Typed
  <1> QED BY <1>1, <1>2, <1>3 DEF MoveTx, Tx, Txs, ValidTx, Claims

\* What complete_run prepares: a move, and what it was told.
LEMMA EndTxType ==
    ASSUME Typed, NEW g \in Known, NEW event \in {"RUN_COMPLETED", "RUN_INTERRUPTED"},
           NEW to \in LifeDirs, NEW w \in Witnesses, NEW c \in Claims
    PROVE  ValidTx(EndTx(event, g, to, w, c))
  <1>1. ValidTx(MoveTx(event, g, to, w, FALSE, {})) BY MoveTxType DEF Transitions
  <1> QED BY <1>1 DEF EndTx, MoveTx, Tx, Txs, ValidTx

LEMMA IdleType == Idle \in Ops /\ NoBatch \in Batches /\ NoWitness \in Witnesses
  <1>1. NoWitness \in Witnesses BY DEF NoWitness, Witnesses
  <1>2. 0 \in 0..MaxGen BY MaxGenAssumption
  <1> QED BY <1>1, <1>2 DEF Idle, Ops, Kinds, PCs, TxPCs, NoBatch, Batches

-----------------------------------------------------------------------------
(* The helpers every action is built from.                                 *)

LEMMA CountType ==
    ASSUME TypeOK, NEW counter \in {"commits", "drops", "faults"}, NEW bound, Count(counter, bound)
    PROVE  used' \in [commits : Nat, drops : Nat, faults : Nat]
  <1>1. CASE counter = "commits" BY <1>1 DEF TypeOK, Count
  <1>2. CASE counter = "drops" BY <1>2 DEF TypeOK, Count
  <1>3. CASE counter = "faults" BY <1>3 DEF TypeOK, Count
  <1> QED BY <1>1, <1>2, <1>3

LEMMA GotoType ==
    ASSUME TypeOK, NEW pc \in PCs, Goto(pc)
    PROVE  /\ ProcessTypeOK'
           /\ op'.pc = pc /\ op'.tx = op.tx /\ op'.gen = op.gen /\ op'.next = op.next
           /\ op'.kind = op.kind /\ op'.by = op.by /\ op'.wit = op.wit
  BY DEF TypeOK, ProcessTypeOK, Goto, Ops

LEMMA HoldType ==
    ASSUME TypeOK, NEW kind \in Kinds, NEW pc \in PCs, NEW by \in {"none", "operator", "driver"},
           NEW g \in 0..MaxGen, NEW w \in Witnesses, Hold(kind, pc, by, g, w)
    PROVE  /\ ProcessTypeOK'
           /\ op'.pc = pc /\ op'.gen = g /\ op'.next = "idle" /\ op'.kind = kind
  BY IdleType DEF TypeOK, ProcessTypeOK, Hold, Ops, Idle

LEMMA ReleaseType ==
    ASSUME TypeOK, NEW outcome \in {"ok", "unsaved", "error"}, Release(outcome)
    PROVE  ProcessTypeOK' /\ op' = Idle
  <1>1. NextPhase(op, outcome) \in Phases
    <2>1. CASE outcome = "ok" BY <2>1 DEF NextPhase, Phases
    <2>2. CASE outcome = "unsaved" BY <2>2 DEF NextPhase, Phases
    <2>3. CASE outcome = "error" BY <2>3 DEF NextPhase, Phases
    <2> QED BY <2>1, <2>2, <2>3
  <1>2. driver' \in [Gens -> Phases]
    BY <1>1 DEF TypeOK, ProcessTypeOK, Release
  <1> QED BY <1>2, IdleType DEF TypeOK, ProcessTypeOK, Release

\* What a step owes the type invariant when it writes, or does not write, the journal.
JournalStep ==
    /\ JournalTypeOK' /\ Known \subseteq Known'
    /\ \A g \in Known' : prompt'[g] \in Prompts
    /\ \A t \in outstanding' : ValidTx(t)'

LEMMA JournalFrame ==
    ASSUME Typed, UNCHANGED journalVars
    PROVE  JournalStep
  BY DEF Typed, TypeOK, LocalsOK, JournalTypeOK, journalVars, records, Known, ValidTx, JournalStep

LEMMA LogType ==
    ASSUME TypeOK, NEW event, NEW id, [event |-> event, id |-> id] \in Events, Log(event, id)
    PROVE  journal' \in Seq(Events)
  BY DEF TypeOK, JournalTypeOK, Log

LEMMA LogTerminalType ==
    ASSUME Typed, NEW t, ValidTx(t), LogTerminal(t)
    PROVE  JournalStep
  <1> USE DEF Typed, TypeOK, JournalTypeOK
  <1>1. journal' \in Seq(Events)
    BY LogType DEF LogTerminal, ValidTx, Txs, Events
  <1>2. /\ t.prompt \in Prompts /\ t.wit \in Witnesses /\ t.fallback \in SUBSET Artifacts
        /\ t.event \in Transitions /\ t.id \in Nat /\ t.claim \in Claims
    BY DEF Txs, ValidTx
  <1>7. t.event # "PROMPT_REJECTED" => Outcome[t.event] \in Statuses \ {"NONE"}
    BY <1>2 DEF Outcome, Statuses, Transitions
  <1>8. t.event \notin {"PROMPT_REJECTED", "PROMPT_ACCEPTED"} =>
            status[t.gen] # "NONE" /\ prompt[t.gen] = t.prompt
    BY <1>2 DEF LogTerminal, Admissible, Transitions
  <1>3. status' \in [Gens -> Statuses] /\ Known \subseteq Known'
    BY <1>7 DEF LogTerminal, Known
  <1>4. /\ prompt' \in [Gens -> Prompts \cup {NoPrompt}] /\ wit' \in [Gens -> Witnesses]
        /\ fallback' \in [Gens -> SUBSET Artifacts] /\ boundary' \in Witnesses
        /\ claim' \in [Gens -> Claims]
    BY <1>2 DEF LogTerminal
  <1>5. owned' \in SUBSET Gens /\ outstanding' \in SUBSET Txs /\ intents' \in SUBSET Intents
    BY DEF LogTerminal, ValidTx, Known
  <1>9. \A u \in outstanding' : ValidTx(u)'
    BY <1>3 DEF LogTerminal, LocalsOK, ValidTx
  <1>6. ASSUME NEW g \in Known' PROVE prompt'[g] \in Prompts
    BY <1>2, <1>6, <1>8 DEF LogTerminal, LocalsOK, Known
  <1> QED BY <1>1, <1>3, <1>4, <1>5, <1>6, <1>9 DEF JournalStep

LEMMA LogPreparedType ==
    ASSUME Typed, NEW t, ValidTx(t), LogPrepared(t)
    PROVE  JournalStep
  <1>1. journal' \in Seq(Events)
    BY LogType DEF Typed, LogPrepared, Events, ValidTx, Txs
  <1> QED
    BY <1>1 DEF Typed, TypeOK, LocalsOK, JournalTypeOK, LogPrepared, records, Known, ValidTx,
                JournalStep

LEMMA LogReceivedType ==
    ASSUME Typed, LogReceived
    PROVE  JournalStep
  <1>1. journal' \in Seq(Events)
    BY LogType DEF Typed, LogReceived, Events
  <1> QED
    BY <1>1 DEF Typed, TypeOK, LocalsOK, JournalTypeOK, LogReceived, records, Known, ValidTx,
                JournalStep

LEMMA LogBoundaryType ==
    ASSUME Typed, NEW w \in Witnesses, LogInitialized(w) \/ LogAdopted(w)
    PROVE  JournalStep
  <1>1. journal' \in Seq(Events)
    BY LogType DEF Typed, LogInitialized, LogAdopted, Events
  <1> QED
    BY <1>1 DEF Typed, TypeOK, LocalsOK, JournalTypeOK, LogInitialized, LogAdopted, records,
                Known, ValidTx, JournalStep

LEMMA LogIntentType ==
    ASSUME Typed, NEW i \in Intents, LogIntent(i) \/ LogAborted(i)
    PROVE  JournalStep
  <1>1. journal' \in Seq(Events)
    BY LogType DEF Typed, LogIntent, LogAborted, Events
  <1> QED
    BY <1>1 DEF Typed, TypeOK, LocalsOK, JournalTypeOK, LogIntent, LogAborted, records, Known,
                ValidTx, JournalStep

-----------------------------------------------------------------------------
(* What every shape of step does to the locals of the lock holder.         *)

LEMMA ProcessFrame ==
    ASSUME Typed, UNCHANGED process
    PROVE  ProcessTypeOK' /\ UNCHANGED op
  BY DEF Typed, TypeOK, ProcessTypeOK, process

LEMMA DiskFrame ==
    ASSUME Typed, UNCHANGED <<disk, cached>>
    PROVE  DiskTypeOK'
  BY DEF Typed, TypeOK, DiskTypeOK, disk

LEMMA TypedKeep ==
    ASSUME Typed, JournalStep, UNCHANGED op
    PROVE  LocalsOK'
  BY DEF Typed, LocalsOK, JournalStep, ValidTx

LEMMA TypedGoto ==
    ASSUME Typed, JournalStep, NEW pc \in PCs, Goto(pc),
           pc \in TxPCs \cup {"archive", "policy"} => ValidTx(op.tx),
           pc \in {"intent", "advance", "verify", "finish"} => op.gen \in Known
    PROVE  ProcessTypeOK' /\ LocalsOK'
  <1>1. /\ ProcessTypeOK'
        /\ op'.pc = pc /\ op'.tx = op.tx /\ op'.gen = op.gen /\ op'.next = op.next
    BY GotoType DEF Typed
  <1> QED BY <1>1 DEF Typed, LocalsOK, JournalStep, ValidTx

LEMMA TypedHold ==
    ASSUME Typed, JournalStep, NEW kind \in Kinds,
           NEW pc \in {"append", "intent", "resolve", "ingest"},
           NEW by \in {"none", "operator", "driver"},
           NEW g \in 0..MaxGen, NEW w \in Witnesses, Hold(kind, pc, by, g, w),
           pc = "intent" => g \in Known
    PROVE  ProcessTypeOK' /\ LocalsOK'
  <1>1. ProcessTypeOK' /\ op'.pc = pc /\ op'.gen = g /\ op'.next = "idle"
    BY HoldType DEF Typed, PCs
  <1>2. pc \notin TxPCs \cup {"archive", "policy"}
    BY DEF TxPCs
  <1> QED BY <1>1, <1>2 DEF Typed, LocalsOK, JournalStep, ValidTx

LEMMA TypedRelease ==
    ASSUME Typed, JournalStep, NEW outcome \in {"ok", "unsaved", "error"}, Release(outcome)
    PROVE  ProcessTypeOK' /\ LocalsOK'
  <1>1. ProcessTypeOK' /\ op' = Idle
    BY ReleaseType DEF Typed
  <1> QED BY <1>1 DEF LocalsOK, JournalStep, ValidTx, Idle, TxPCs

\* op' as BeginMove and Move leave it.
LEMMA TypedTransaction ==
    ASSUME Typed, JournalStep, NEW t, ValidTx(t), op' \in Ops, op'.tx = t,
           op'.pc \in TxPCs \cup {"archive", "policy"},
           op'.next = "finish" => op'.gen \in Known,
           op'.next \in {"save", "ingest", "finish", "resolve"}
    PROVE  LocalsOK'
  <1>1. op'.pc \notin {"intent", "advance", "verify", "finish"}
    BY DEF TxPCs
  <1> QED BY <1>1 DEF LocalsOK, JournalStep, ValidTx

LEMMA TypedBeginMove ==
    ASSUME Typed, NEW kind \in Kinds, NEW pc \in {"prepare", "policy"},
           NEW by \in {"operator", "driver"}, NEW t, ValidTx(t), BeginMove(kind, pc, by, t),
           UNCHANGED <<journalVars, disk, cached, work, used>>
    PROVE  Typed'
  <1>1. op' \in Ops /\ op'.tx = t /\ op'.pc = pc /\ op'.next = "save"
    BY IdleType DEF BeginMove, ValidTx, Txs, Ops, PCs, TxPCs
  <1>2. ProcessTypeOK'
    BY <1>1 DEF BeginMove, Typed, TypeOK, ProcessTypeOK
  <1>3. JournalStep /\ DiskTypeOK'
    BY JournalFrame, DiskFrame
  <1>4. LocalsOK'
    BY <1>1, <1>3, TypedTransaction DEF TxPCs
  <1> QED BY <1>2, <1>3, <1>4 DEF Typed, TypeOK, work, JournalStep

LEMMA MoveFields ==
    ASSUME Typed, NEW t, NEW pc, NEW next, Move(t, pc, next)
    PROVE  /\ op'.tx = t /\ op'.pc = pc /\ op'.next = next /\ op'.gen = op.gen
           /\ op'.kind = op.kind /\ op'.by = op.by /\ op'.wit = op.wit
  BY DEF Typed, TypeOK, ProcessTypeOK, Move, Ops

LEMMA TypedMove ==
    ASSUME Typed, JournalStep, NEW t, ValidTx(t),
           NEW pc \in TxPCs \cup {"archive"},
           NEW next \in {"save", "ingest", "finish", "resolve"}, Move(t, pc, next),
           next = "finish" => op.gen \in Known
    PROVE  op' \in Ops /\ LocalsOK'
  <1>1. op' \in Ops /\ op'.tx = t /\ op'.pc = pc /\ op'.next = next /\ op'.gen = op.gen
    BY DEF Typed, TypeOK, ProcessTypeOK, Move, ValidTx, Ops, PCs, TxPCs
  <1> QED BY <1>1, TypedTransaction

-----------------------------------------------------------------------------
(* The type invariant, action by action.                                   *)

LEMMA TypedInit == Init => Typed
  <1> SUFFICES ASSUME Init PROVE Typed
    OBVIOUS
  <1>1. journal \in Seq(Events) /\ Known = {} /\ outstanding = {}
    BY DEF Init, JournalInit, Known
  <1>2. JournalTypeOK
    BY <1>1, IdleType DEF Init, JournalInit, JournalTypeOK, Statuses, Claims
  <1>3. DiskTypeOK /\ ProcessTypeOK
    BY <1>1, IdleType DEF Init, DiskTypeOK, ProcessTypeOK, NoFiles, Reports, Phases
  <1>4. repo \in Witnesses /\ landed = {} /\ used \in [commits : Nat, drops : Nat, faults : Nat]
    BY DEF Init, Witnesses
  <1>5. LocalsOK
    BY <1>1 DEF LocalsOK, Init, Idle, TxPCs
  <1> QED BY <1>2, <1>3, <1>4, <1>5 DEF Typed, TypeOK

LEMMA TypedStutter == Typed /\ UNCHANGED vars => Typed'
  BY DEF Typed, TypeOK, LocalsOK, JournalTypeOK, DiskTypeOK, ProcessTypeOK, Known, ValidTx, vars,
         journalVars, records, disk, work, process

\* The steps of the environment and of an executing process keep the lock holder's locals.
LEMMA TypedEnvironment ==
    ASSUME Typed, Environment
    PROVE  Typed'
  <1> USE DEF Typed, TypeOK
  <1>1. UNCHANGED <<journalVars, process>> /\ cached' = cached
    BY DEF Environment, DropPrompt, EditRepository, CommitRepository
  <1>2. JournalTypeOK' /\ ProcessTypeOK' /\ LocalsOK'
    BY <1>1, JournalFrame, ProcessFrame DEF LocalsOK, ValidTx, JournalStep
  <1>3. ASSUME NEW n \in Names, NEW p \in Prompts, DropPrompt(n, p) PROVE Typed'
    <2>1. <<"inbox", n, p>> \in Files BY DEF Files
    <2>2. DiskTypeOK' BY <1>3, <2>1 DEF DropPrompt, DiskTypeOK
    <2> QED BY <1>2, <1>3, <2>2, CountType DEF DropPrompt, work
  <1>4. CASE EditRepository
    <2>1. repo' \in Witnesses
      BY <1>4, BoundsAssumption DEF EditRepository, Witnesses
    <2> QED BY <1>2, <1>4, <2>1, DiskFrame DEF EditRepository
  <1>5. CASE CommitRepository
    <2>1. used' \in [commits : Nat, drops : Nat, faults : Nat]
      BY <1>5, CountType DEF CommitRepository
    <2>2. repo' \in Witnesses
      BY <1>5, <2>1 DEF CommitRepository, Witnesses
    <2> QED BY <1>2, <1>5, <2>1, <2>2, DiskFrame DEF CommitRepository
  <1> QED BY <1>3, <1>4, <1>5 DEF Environment

LEMMA KnownType ==
    ASSUME Typed, NEW g \in Gens, status[g] # "NONE"
    PROVE  g \in Known /\ g \in 0..MaxGen /\ repo \in Witnesses /\ wit[g] \in Witnesses
  BY GensInBound DEF Typed, TypeOK, JournalTypeOK, Known

LEMMA TypedComplete ==
    ASSUME Typed, NEW g \in Gens, NEW by \in {"operator", "driver"}, CompleteBegin(g, by)
    PROVE  Typed'
  <1>1. g \in Known /\ repo \in Witnesses /\ wit[g] \in Witnesses
    BY KnownType DEF CompleteBegin, CanComplete
  <1>2. UNCHANGED <<journalVars, disk, cached, work, used>>
    BY DEF CompleteBegin
  <1>3. {"executor", "typed"} \cup Results \subseteq Claims
    BY ResultsAssumption DEF Claims, ByHand
  <1>4. CASE PolicyAllows(repo, g)
    <2>1. PICK c \in Claims :
             BeginMove("complete", "prepare", by, EndTx("RUN_COMPLETED", g, "completed", repo, c))
      BY <1>3, <1>4 DEF CompleteBegin
    <2> DEFINE t == EndTx("RUN_COMPLETED", g, "completed", repo, c)
    <2>2. ValidTx(t) BY <1>1, EndTxType DEF LifeDirs
    <2>3. BeginMove("complete", "prepare", by, t) BY <2>1
    <2> HIDE DEF t
    <2> QED BY <1>2, <2>2, <2>3, TypedBeginMove DEF Kinds
  <1>5. CASE ~PolicyAllows(repo, g)
    <2> DEFINE c == IF by = "driver" THEN "executor" ELSE "typed"
               t == EndTx("RUN_INTERRUPTED", g, "interrupted", wit[g], c)
    <2>1. c \in Claims BY <1>3
    <2>2. BeginMove("interrupt", "prepare", by, t) BY <1>5 DEF CompleteBegin
    <2> HIDE DEF c
    <2>3. ValidTx(t) BY <1>1, <2>1, EndTxType DEF LifeDirs
    <2> HIDE DEF t
    <2> QED BY <1>2, <2>2, <2>3, TypedBeginMove DEF Kinds
  <1> QED BY <1>4, <1>5

LEMMA TypedInterrupt ==
    ASSUME Typed, NEW g \in Gens, NEW by \in {"operator", "driver"}, InterruptBegin(g, by)
    PROVE  Typed'
  <1>1. g \in Known /\ wit[g] \in Witnesses
    BY KnownType DEF InterruptBegin, CanInterrupt
  <1>2. MissingArtifacts(g) \in SUBSET Artifacts
    BY DEF MissingArtifacts
  <1> DEFINE t == MoveTx("RUN_INTERRUPTED", g, "interrupted", wit[g], FALSE, MissingArtifacts(g))
  <1>3. ValidTx(t)
    BY <1>1, <1>2, MoveTxType DEF Transitions, LifeDirs
  <1>4. BeginMove("interrupt", "prepare", by, t)
    BY DEF InterruptBegin
  <1> HIDE DEF t
  <1> QED BY <1>3, <1>4, TypedBeginMove DEF InterruptBegin, Kinds

LEMMA TypedCommand ==
    ASSUME Typed, Command
    PROVE  Typed'
  <1> USE DEF Typed, TypeOK
  <1>1. CASE InitBegin
    <2>1. ProcessTypeOK' /\ LocalsOK' /\ JournalStep /\ DiskTypeOK'
      BY <1>1, TypedHold, JournalFrame, DiskFrame, MaxGenAssumption DEF InitBegin, Kinds
    <2> QED BY <1>1, <2>1 DEF InitBegin, work, JournalStep
  <1>2. CASE Rebuild
    <2>1. DiskTypeOK' BY <1>2, JournalLength DEF Rebuild, disk, DiskTypeOK
    <2>2. ProcessTypeOK' /\ LocalsOK' /\ JournalStep
      BY <1>2, JournalFrame, ProcessFrame, TypedKeep DEF Rebuild
    <2> QED BY <1>2, <2>1, <2>2 DEF Rebuild, work, JournalStep
  <1>3. CASE AdoptBegin
    <2>1. ProcessTypeOK' /\ LocalsOK' /\ JournalStep /\ DiskTypeOK'
      BY <1>3, TypedHold, JournalFrame, DiskFrame, MaxGenAssumption DEF AdoptBegin, Kinds
    <2> QED BY <1>3, <2>1 DEF AdoptBegin, work, JournalStep
  <1>4. CASE IngestBegin
    <2>1. {<<f[2], f[3]>> : f \in {x \in spool : x[1] = "inbox"}} \subseteq Names \X Prompts
      BY DEF DiskTypeOK, Files, LifeDirs
    <2>2. batch' \in Batches
      BY <1>4, <2>1 DEF IngestBegin, Batches, JournalTypeOK
    <2>3. op' \in Ops /\ op'.pc = "ingest" /\ op'.next = "idle"
      BY <1>4, IdleType DEF IngestBegin, Idle, Ops, Kinds, PCs
    <2>4. ProcessTypeOK' /\ JournalStep /\ DiskTypeOK'
      BY <1>4, <2>2, <2>3, JournalFrame, DiskFrame DEF IngestBegin, ProcessTypeOK
    <2>5. LocalsOK'
      BY <2>3, <2>4 DEF LocalsOK, JournalStep, TxPCs, ValidTx
    <2> QED BY <1>4, <2>4, <2>5 DEF IngestBegin, work, JournalStep
  <1>5. CASE RecoverBegin
    <2>1. ProcessTypeOK' /\ LocalsOK' /\ JournalStep /\ DiskTypeOK'
      BY <1>5, TypedHold, JournalFrame, DiskFrame, MaxGenAssumption, IdleType
         DEF RecoverBegin, Kinds
    <2> QED BY <1>5, <2>1 DEF RecoverBegin, work, JournalStep
  <1>6. ASSUME NEW g \in Gens, CancelBegin(g) PROVE Typed'
    <2>1. g \in Known /\ wit[g] \in Witnesses BY <1>6, KnownType DEF CancelBegin
    <2> DEFINE t == MoveTx("PROMPT_CANCELLED", g, "cancelled", wit[g], FALSE, {})
    <2>2. ValidTx(t) BY <2>1, MoveTxType DEF Transitions, LifeDirs
    <2>3. BeginMove("cancel", "prepare", "operator", t) BY <1>6 DEF CancelBegin
    <2> HIDE DEF t
    <2> QED BY <1>6, <2>2, <2>3, TypedBeginMove DEF CancelBegin, Kinds
  <1>7. ASSUME NEW g \in Gens, CheckpointBegin(g) PROVE Typed'
    <2>1. g \in Known /\ g \in 0..MaxGen BY <1>7, KnownType DEF CheckpointBegin
    <2>2. used' \in [commits : Nat, drops : Nat, faults : Nat]
      BY <1>7, CountType DEF CheckpointBegin
    <2>3. repo' \in Witnesses /\ [head |-> used'.commits, index |-> 0, work |-> 0] \in Witnesses
      BY <1>7, <2>2 DEF CheckpointBegin, Witnesses
    <2>4. ProcessTypeOK' /\ LocalsOK' /\ JournalStep /\ DiskTypeOK'
      BY <1>7, <2>1, <2>3, TypedHold, JournalFrame, DiskFrame DEF CheckpointBegin, Kinds
    <2> QED BY <1>7, <2>2, <2>3, <2>4 DEF CheckpointBegin, JournalStep
  <1>8. ASSUME NEW g \in Gens, NEW b \in BOOLEAN, StartBegin(g, b) PROVE Typed'
    <2>1. g \in Known /\ wit[g] \in Witnesses BY <1>8, KnownType DEF StartBegin
    <2> DEFINE t == MoveTx("RUN_STARTED", g, "running", wit[g], b, {})
               pc == IF b THEN "policy" ELSE "prepare"
               by == IF b THEN "driver" ELSE "operator"
    <2>2. ValidTx(t) BY <2>1, MoveTxType DEF Transitions, LifeDirs
    <2>3. BeginMove("start", pc, by, t) /\ pc \in {"prepare", "policy"}
             /\ by \in {"operator", "driver"}
      BY <1>8 DEF StartBegin
    <2> HIDE DEF t, pc, by
    <2> QED BY <1>8, <2>2, <2>3, TypedBeginMove DEF StartBegin, Kinds
  <1> QED
    BY <1>1, <1>2, <1>3, <1>4, <1>5, <1>6, <1>7, <1>8, TypedComplete, TypedInterrupt DEF Command

LEMMA TypedExecuting ==
    ASSUME Typed, NEW g \in Gens, Executing(g)
    PROVE  Typed'
  <1> USE DEF Typed, TypeOK
  <1>1. CASE CompleteBegin(g, "driver") \/ InterruptBegin(g, "driver")
    BY <1>1, TypedComplete, TypedInterrupt
  <1>2. CASE \/ ExecutorLogs(g) \/ WriteResult(g) \/ CollectUsage(g) \/ TelemetryFails(g)
             \/ ExecutorRaises(g) \/ WriteFailureLogs(g) \/ WriteFailure(g)
    <2>1. DriverQuiet /\ driver' \in [Gens -> Phases]
      BY <1>2 DEF ExecutorLogs, WriteResult, CollectUsage, TelemetryFails, ExecutorRaises,
                  WriteFailureLogs, WriteFailure, Step, ProcessTypeOK, Phases
    <2>2. art[g] \in Reports BY DEF DiskTypeOK
    <2>4. PICK r \in Reports : art' = [art EXCEPT ![g] = r]
      <3>1. CASE ExecutorLogs(g)
        BY <2>2, <3>1 DEF ExecutorLogs, DiskTypeOK, Reports
      <3>2. CASE WriteResult(g)
        <4>1. PICK outcome \in {"run", "failed"} : art' = [art EXCEPT ![g].result = outcome]
          BY <3>2 DEF WriteResult
        <4> QED BY <2>2, <4>1 DEF DiskTypeOK, Reports
      <3>3. CASE CollectUsage(g)
        BY <2>2, <3>3 DEF CollectUsage, DiskTypeOK, Reports
      <3>4. CASE TelemetryFails(g)
        BY <2>2, <3>4 DEF TelemetryFails, DiskTypeOK, Reports, TelemetryFailed
      <3>5. CASE ExecutorRaises(g)
        BY <2>2, <3>5 DEF ExecutorRaises, DiskTypeOK
      <3>6. CASE WriteFailureLogs(g)
        BY <2>2, <3>6 DEF WriteFailureLogs, DiskTypeOK, Reports
      <3>7. CASE WriteFailure(g)
        BY <2>2, <3>7 DEF WriteFailure, DiskTypeOK, Reports
      <3> QED BY <1>2, <3>1, <3>2, <3>3, <3>4, <3>5, <3>6, <3>7
    <2>5. DiskTypeOK' /\ ProcessTypeOK'
      BY <2>1, <2>4 DEF DriverQuiet, DiskTypeOK, ProcessTypeOK
    <2>6. JournalStep /\ LocalsOK'
      BY <2>1, JournalFrame, TypedKeep DEF DriverQuiet
    <2> QED BY <2>1, <2>5, <2>6 DEF DriverQuiet, work, JournalStep
  <1>3. CASE Replay(g) \/ UnlockedSave(g) \/ DriverRefused(g)
    <2>1. DiskTypeOK'
      BY <1>3 DEF Replay, UnlockedSave, DriverRefused, DiskTypeOK, ProcessTypeOK, disk
    <2>2. ProcessTypeOK'
      BY <1>3, JournalLength DEF Replay, UnlockedSave, DriverRefused, ProcessTypeOK, Step, Phases
    <2>3. JournalStep /\ LocalsOK'
      BY <1>3, JournalFrame, TypedKeep DEF Replay, UnlockedSave, DriverRefused
    <2> QED BY <1>3, <2>1, <2>2, <2>3 DEF Replay, UnlockedSave, DriverRefused, work, JournalStep
  <1> QED BY <1>1, <1>2, <1>3 DEF Executing

LEMMA TypedFault ==
    ASSUME Typed, Fault
    PROVE  Typed'
  <1> USE DEF Typed, TypeOK
  <1>1. UNCHANGED journalVars /\ used' \in [commits : Nat, drops : Nat, faults : Nat]
    BY CountType DEF Fault, SaveFails, StartFails, IntentFails, Crash, KillDriver
  <1>2. JournalStep BY <1>1, JournalFrame
  <1>3. repo' \in Witnesses /\ landed' = landed
    BY DEF Fault, SaveFails, StartFails, IntentFails, Crash, KillDriver, work, Witnesses
  <1>4. DiskTypeOK'
    <2>1. CASE StartFails
      <3>1. art' \in [Gens -> Reports] BY <2>1 DEF StartFails, DiskTypeOK, Reports
      <3> QED BY <2>1, <3>1 DEF StartFails, DiskTypeOK
    <2>2. CASE UNCHANGED <<disk, cached>> BY <2>2, DiskFrame
    <2> QED BY <2>1, <2>2 DEF Fault, SaveFails, IntentFails, Crash, KillDriver
  <1>5. CASE SaveFails \/ StartFails \/ IntentFails
    BY <1>1, <1>2, <1>3, <1>4, <1>5, TypedRelease
       DEF SaveFails, StartFails, IntentFails, JournalStep
  <1>6. CASE Crash
    <2>1. op' = Idle /\ ProcessTypeOK'
      BY <1>6, IdleType DEF Crash, ProcessTypeOK, Phases
    <2>2. LocalsOK'
      BY <1>2, <2>1 DEF LocalsOK, JournalStep, ValidTx, Idle, TxPCs
    <2> QED BY <1>1, <1>2, <1>3, <1>4, <2>1, <2>2 DEF JournalStep
  <1>7. ASSUME NEW g \in Gens, KillDriver(g) PROVE Typed'
    <2>1. ProcessTypeOK' /\ LocalsOK'
      BY <1>2, <1>7, TypedKeep DEF KillDriver, ProcessTypeOK, Phases
    <2> QED BY <1>1, <1>2, <1>3, <1>4, <2>1 DEF JournalStep
  <1> QED BY <1>5, <1>6, <1>7 DEF Fault

\* move_transaction and the terminal event.
LEMMA TypedTransactionStep ==
    ASSUME Typed, Prepare \/ PublishOwner \/ Rename \/ Terminal \/ TerminalRefused
    PROVE  Typed'
  <1> USE DEF Typed, TypeOK
  <1>1. ValidTx(op.tx)
    BY DEF LocalsOK, TxPCs, Prepare, PublishOwner, Rename, Terminal, TerminalRefused
  <1>2. CASE Prepare
    <2>1. JournalStep BY <1>1, <1>2, LogPreparedType DEF Prepare
    <2>2. ProcessTypeOK' /\ LocalsOK'
      BY <1>1, <1>2, <2>1, TypedGoto DEF Prepare, PCs, TxPCs
    <2> QED BY <1>2, <2>1, <2>2, DiskFrame DEF Prepare, work, JournalStep
  <1>3. CASE PublishOwner
    <2>1. JournalStep BY <1>3, JournalFrame DEF PublishOwner
    <2>2. ProcessTypeOK' /\ LocalsOK'
      BY <1>1, <1>3, <2>1, TypedGoto DEF PublishOwner, PCs, TxPCs
    <2>3. DiskTypeOK' BY <1>3 DEF PublishOwner, DiskTypeOK, Reports
    <2> QED BY <1>3, <2>1, <2>2, <2>3 DEF PublishOwner, work, JournalStep
  <1>4. CASE Rename
    <2>1. JournalStep BY <1>4, JournalFrame DEF Rename
    <2>2. ProcessTypeOK' /\ LocalsOK'
      BY <1>1, <1>4, <2>1, TypedGoto DEF Rename, PCs, TxPCs
    <2>3. DiskTypeOK' BY <1>1, <1>4 DEF Rename, DiskTypeOK, ValidTx, Txs
    <2> QED BY <1>4, <2>1, <2>2, <2>3 DEF Rename, work, JournalStep
  <1>5. CASE Terminal
    <2>1. JournalStep BY <1>1, <1>5, LogTerminalType DEF Terminal
    <2>2. /\ op.next \in PCs /\ op.next \notin {"intent", "advance", "verify"}
          /\ op.next = "finish" => op.gen \in Known
      BY DEF LocalsOK, PCs
    <2>3. ProcessTypeOK' /\ LocalsOK'
      BY <1>1, <1>5, <2>1, <2>2, TypedGoto DEF Terminal
    <2> QED BY <1>5, <2>1, <2>3, DiskFrame DEF Terminal, work, JournalStep
  <1>6. CASE TerminalRefused
    <2>1. JournalStep /\ DiskTypeOK' BY <1>6, JournalFrame, DiskFrame DEF TerminalRefused
    <2>2. ProcessTypeOK' /\ LocalsOK' BY <1>6, <2>1, TypedRelease DEF TerminalRefused
    <2> QED BY <1>6, <2>1, <2>2 DEF TerminalRefused, work, JournalStep
  <1> QED BY <1>2, <1>3, <1>4, <1>5, <1>6

LEMMA TypedPublish ==
    ASSUME Typed, Archive \/ PublishPolicy \/ PublishPolicyRefused
    PROVE  Typed'
  <1> USE DEF Typed, TypeOK
  <1>1. JournalStep BY JournalFrame DEF Archive, PublishPolicy, PublishPolicyRefused
  <1>2. ValidTx(op.tx) BY DEF LocalsOK, Archive, PublishPolicy, PublishPolicyRefused
  <1>3. ProcessTypeOK' /\ LocalsOK'
    BY <1>1, <1>2, TypedGoto, TypedRelease
       DEF Archive, PublishPolicy, PublishPolicyRefused, PCs, TxPCs
  <1>4. DiskTypeOK'
    <2>1. CASE Archive BY <1>2, <2>1 DEF Archive, DiskTypeOK, ValidTx, Txs
    <2>2. CASE PublishPolicy
      <3>1. art' \in [Gens -> Reports] BY <2>2 DEF PublishPolicy, DiskTypeOK, Reports
      <3> QED BY <2>2, <3>1 DEF PublishPolicy, DiskTypeOK
    <2>3. CASE PublishPolicyRefused BY <2>3, DiskFrame DEF PublishPolicyRefused
    <2> QED BY <2>1, <2>2, <2>3
  <1> QED
    BY <1>1, <1>3, <1>4 DEF Archive, PublishPolicy, PublishPolicyRefused, work, JournalStep

LEMMA TypedAppend ==
    ASSUME Typed, InitAppend \/ AdoptAppend
    PROVE  Typed'
  <1> USE DEF Typed, TypeOK
  <1>1. op.wit \in Witnesses BY DEF ProcessTypeOK, Ops
  <1>2. JournalStep BY <1>1, LogBoundaryType DEF InitAppend, AdoptAppend
  <1>3. ProcessTypeOK' /\ LocalsOK'
    BY <1>2, TypedGoto DEF InitAppend, AdoptAppend, PCs, TxPCs
  <1> QED BY <1>2, <1>3, DiskFrame DEF InitAppend, AdoptAppend, work, JournalStep

\* Rejecting or accepting a file of the batch gives a transaction of the right type.
LEMMA IngestTxType ==
    ASSUME Typed, NEW name \in Names, NEW p \in Prompts, NEW id \in Nat
    PROVE  /\ ValidTx([Rejection(name, p) EXCEPT !.id = id]) /\ ValidTx(Rejection(name, p))
           /\ ValidTx(Tx("PROMPT_ACCEPTED", p.gen, p, <<"inbox", name, p>>,
                         <<"accepted", "canonical", p>>, batch.wit, FALSE, {}))
  <1>1. /\ <<"inbox", name, p>> \in Files /\ <<"rejected", "canonical", p>> \in Files
        /\ <<"accepted", "canonical", p>> \in Files
    BY DEF Files, LifeDirs
  <1>2. batch.wit \in Witnesses /\ p.gen \in 0..MaxGen
    BY PromptsAssumption DEF Typed, TypeOK, ProcessTypeOK, Batches
  <1>3. NextSeq \in Nat BY JournalLength DEF Typed
  <1> QED BY <1>1, <1>2, <1>3 DEF Rejection, Tx, ValidTx, Txs, Transitions, Claims

LEMMA TypedIngest ==
    ASSUME Typed, Receive \/ Process
    PROVE  Typed'
  <1> USE DEF Typed, TypeOK
  <1>1. CASE Receive
    <2>1. JournalStep BY <1>1, LogReceivedType DEF Receive
    <2>2. PICK f \in batch.todo :
             IF f[2].gen = 0
             THEN /\ batch' = [batch EXCEPT !.todo = @ \ {f}]
                  /\ Move([Rejection(f[1], f[2]) EXCEPT !.id = NextSeq + 1], "prepare", "ingest")
             ELSE /\ batch' = [batch EXCEPT !.todo = @ \ {f}, !.parsed = @ \cup {f}]
                  /\ UNCHANGED op
      BY <1>1 DEF Receive
    <2>3. f \in Names \X Prompts /\ NextSeq + 1 \in Nat
      BY JournalLength DEF ProcessTypeOK, Batches
    <2>4. batch' \in Batches
      <3> DEFINE todo == batch.todo \ {f}
                 parsed == batch.parsed \cup {f}
      <3>1. todo \in SUBSET (Names \X Prompts) /\ parsed \in SUBSET (Names \X Prompts)
        BY <2>3 DEF ProcessTypeOK, Batches
      <3>2. \/ batch' = [batch EXCEPT !.todo = todo]
            \/ batch' = [batch EXCEPT !.todo = todo, !.parsed = parsed]
        BY <2>2
      <3> HIDE DEF todo, parsed
      <3> QED BY <3>1, <3>2 DEF ProcessTypeOK, Batches
    <2>5. op' \in Ops /\ LocalsOK'
      <3>1. CASE f[2].gen = 0
        <4> DEFINE t == [Rejection(f[1], f[2]) EXCEPT !.id = NextSeq + 1]
        <4>1. ValidTx(t) BY <2>3, IngestTxType
        <4>2. Move(t, "prepare", "ingest") BY <2>2, <3>1
        <4> HIDE DEF t
        <4> QED BY <2>1, <4>1, <4>2, TypedMove DEF TxPCs
      <3>2. CASE f[2].gen # 0
        BY <2>1, <2>2, <3>2, TypedKeep DEF ProcessTypeOK
      <3> QED BY <3>1, <3>2
    <2>6. ProcessTypeOK' BY <1>1, <2>4, <2>5 DEF Receive, ProcessTypeOK
    <2> QED BY <1>1, <2>1, <2>5, <2>6, DiskFrame DEF Receive, work, JournalStep
  <1>2. CASE Process
    <2>1. JournalStep BY <1>2, JournalFrame DEF Process
    <2>2. PICK f \in batch.parsed :
             /\ batch' = [batch EXCEPT !.parsed = @ \ {f}]
             /\ IF Acceptable(f[2])
                THEN Move(Tx("PROMPT_ACCEPTED", f[2].gen, f[2], <<"inbox", f[1], f[2]>>,
                             <<"accepted", "canonical", f[2]>>, batch.wit, FALSE, {}),
                          "archive", "ingest")
                ELSE Move(Rejection(f[1], f[2]), "prepare", "ingest")
      BY <1>2 DEF Process
    <2>3. f \in Names \X Prompts
      BY DEF ProcessTypeOK, Batches
    <2>4. batch' \in Batches
      BY <2>2 DEF ProcessTypeOK, Batches
    <2>5. op' \in Ops /\ LocalsOK'
      <3>1. CASE Acceptable(f[2])
        <4> DEFINE t == Tx("PROMPT_ACCEPTED", f[2].gen, f[2], <<"inbox", f[1], f[2]>>,
                           <<"accepted", "canonical", f[2]>>, batch.wit, FALSE, {})
        <4>1. ValidTx(t) BY <2>3, IngestTxType
        <4>2. Move(t, "archive", "ingest") BY <2>2, <3>1
        <4> HIDE DEF t
        <4> QED BY <2>1, <4>1, <4>2, TypedMove DEF TxPCs
      <3>2. CASE ~Acceptable(f[2])
        <4> DEFINE t == Rejection(f[1], f[2])
        <4>1. ValidTx(t) BY <2>3, IngestTxType
        <4>2. Move(t, "prepare", "ingest") BY <2>2, <3>2
        <4> HIDE DEF t
        <4> QED BY <2>1, <4>1, <4>2, TypedMove DEF TxPCs
      <3> QED BY <3>1, <3>2
    <2>6. ProcessTypeOK' BY <1>2, <2>4, <2>5 DEF Process, ProcessTypeOK
    <2> QED BY <1>2, <2>1, <2>5, <2>6, DiskFrame DEF Process, work, JournalStep
  <1> QED BY <1>1, <1>2

LEMMA TypedCheckpoint ==
    ASSUME Typed, \/ CheckpointIntent \/ CheckpointAdvance \/ CheckpointVerify
                  \/ CheckpointRefused \/ CheckpointFinish
    PROVE  Typed'
  <1> USE DEF Typed, TypeOK
  <1>1. op.wit \in Witnesses BY DEF ProcessTypeOK, Ops
  <1>2. CASE CheckpointIntent
    <2>1. op.gen \in Known /\ op.gen \in Gens BY <1>2 DEF CheckpointIntent, LocalsOK, Known
    <2> DEFINE i == [seq |-> NextSeq, gen |-> op.gen, parent |-> wit[op.gen].head,
                     commit |-> op.wit.head, wit |-> wit[op.gen]]
    <2>2. wit[op.gen] \in Witnesses BY <2>1 DEF JournalTypeOK
    <2>3. i \in Intents BY <1>1, <2>1, <2>2, JournalLength DEF Intents, Witnesses
    <2>4. LogIntent(i) BY <1>2 DEF CheckpointIntent
    <2> HIDE DEF i
    <2>5. JournalStep BY <2>3, <2>4, LogIntentType
    <2>6. ProcessTypeOK' /\ LocalsOK'
      BY <1>2, <2>1, <2>5, TypedGoto DEF CheckpointIntent, PCs, TxPCs
    <2> QED BY <1>2, <2>5, <2>6, DiskFrame DEF CheckpointIntent, work, JournalStep
  <1>3. CASE CheckpointAdvance
    <2>1. op.gen \in Known /\ op.gen \in Gens BY <1>3 DEF CheckpointAdvance, LocalsOK, Known
    <2>2. JournalStep BY <1>3, JournalFrame DEF CheckpointAdvance
    <2>3. ProcessTypeOK' /\ LocalsOK'
      BY <1>3, <2>1, <2>2, TypedGoto DEF CheckpointAdvance, PCs, TxPCs
    <2>4. wit[op.gen] \in Witnesses BY <2>1 DEF JournalTypeOK
    <2>5. repo' \in Witnesses BY <1>1, <1>3, <2>4 DEF CheckpointAdvance, Renamed, Witnesses
    <2>6. landed' \in SUBSET (Nat \X Gens)
      BY <1>1, <1>3, <2>1 DEF CheckpointAdvance, Witnesses
    <2> QED BY <1>3, <2>2, <2>3, <2>5, <2>6, DiskFrame DEF CheckpointAdvance, JournalStep
  <1>4. CASE CheckpointVerify
    <2>1. op.gen \in Known BY <1>4 DEF CheckpointVerify, LocalsOK
    <2>2. JournalStep BY <1>4, JournalFrame DEF CheckpointVerify
    <2>3. ProcessTypeOK' /\ LocalsOK'
      BY <1>4, <2>1, <2>2, TypedGoto DEF CheckpointVerify, PCs, TxPCs
    <2> QED BY <1>4, <2>2, <2>3, DiskFrame DEF CheckpointVerify, work, JournalStep
  <1>5. CASE CheckpointRefused
    <2>1. JournalStep /\ ProcessTypeOK' /\ LocalsOK'
      BY <1>5, JournalFrame, TypedRelease DEF CheckpointRefused
    <2> QED BY <1>5, <2>1, DiskFrame DEF CheckpointRefused, work, JournalStep
  <1>6. CASE CheckpointFinish
    <2>1. op.gen \in Known /\ wit[op.gen] \in Witnesses
      BY <1>6 DEF CheckpointFinish, LocalsOK, Known, JournalTypeOK
    <2>2. JournalStep BY <1>6, JournalFrame DEF CheckpointFinish
    <2>3. op' \in Ops /\ LocalsOK'
      <3>1. CASE status[op.gen] = "ACCEPTED"
        <4> DEFINE t == MoveTx("RUN_STARTED", op.gen, "running", wit[op.gen], FALSE, {})
        <4>1. ValidTx(t) BY <2>1, MoveTxType DEF Transitions, LifeDirs
        <4>2. Move(t, "prepare", "finish") BY <1>6, <3>1 DEF CheckpointFinish
        <4> HIDE DEF t
        <4> QED BY <2>1, <2>2, <4>1, <4>2, TypedMove DEF TxPCs
      <3>2. CASE status[op.gen] # "ACCEPTED"
        <4> DEFINE t == MoveTx("RUN_COMPLETED", op.gen, "completed", op.wit, FALSE, {})
                   next == IF op.kind = "recover" THEN "resolve" ELSE "save"
        <4>1. ValidTx(t) BY <1>1, <2>1, MoveTxType DEF Transitions, LifeDirs
        <4>2. Move(t, "prepare", next) BY <1>6, <3>2 DEF CheckpointFinish
        <4>3. next \in {"resolve", "save"} OBVIOUS
        <4> HIDE DEF t, next
        <4> QED BY <2>1, <2>2, <4>1, <4>2, <4>3, TypedMove DEF TxPCs
      <3> QED BY <3>1, <3>2
    <2>4. ProcessTypeOK' BY <1>6, <2>3 DEF CheckpointFinish, ProcessTypeOK
    <2> QED BY <1>6, <2>2, <2>3, <2>4, DiskFrame DEF CheckpointFinish, work, JournalStep
  <1> QED BY <1>2, <1>3, <1>4, <1>5, <1>6

LEMMA TypedRecover ==
    ASSUME Typed, \/ RecoverTransaction \/ RecoverRollback \/ RecoverAbort \/ RecoverForward
                  \/ RecoverRefused \/ RecoverArtifact \/ RecoverSave \/ RecoverFailed
    PROVE  Typed'
  <1> USE DEF Typed, TypeOK
  <1>1. CASE RecoverTransaction
    <2>1. JournalStep BY <1>1, JournalFrame DEF RecoverTransaction
    <2>2. PICK t \in outstanding, pc \in {"owner", "rename", "terminal"} : Move(t, pc, "resolve")
      BY <1>1 DEF RecoverTransaction
    <2>3. op' \in Ops /\ LocalsOK'
      BY <2>1, <2>2, TypedMove DEF LocalsOK, TxPCs
    <2>4. ProcessTypeOK' BY <1>1, <2>3 DEF RecoverTransaction, ProcessTypeOK
    <2> QED BY <1>1, <2>1, <2>3, <2>4, DiskFrame DEF RecoverTransaction, work, JournalStep
  <1>2. CASE RecoverRollback
    <2>1. JournalStep BY <1>2, JournalFrame DEF RecoverRollback
    <2>2. PICK i \in intents :
            /\ repo.head = i.parent /\ status[i.gen] = "ACCEPTED"
            /\ repo' = [repo EXCEPT !.index = 0]
            /\ IF repo' = i.wit
               THEN op' = [op EXCEPT !.pc = "abort", !.gen = i.gen]
                       /\ UNCHANGED <<batch, driver, snap>>
               ELSE Release("error")
      BY <1>2 DEF RecoverRollback
    <2>3. i.gen \in Known /\ i.gen \in 0..MaxGen
      BY <2>2, GensInBound DEF JournalTypeOK, Intents, Known
    <2>4. ProcessTypeOK' /\ LocalsOK'
      <3>1. CASE repo' = i.wit
        <4>1. /\ op' \in Ops /\ op'.pc = "abort" /\ op'.gen \in Known /\ op'.next = op.next
          BY <2>2, <2>3, <3>1 DEF ProcessTypeOK, Ops, PCs
        <4>2. ProcessTypeOK' BY <2>2, <3>1, <4>1 DEF ProcessTypeOK
        <4> QED BY <2>1, <4>1, <4>2 DEF LocalsOK, JournalStep, ValidTx, TxPCs
      <3>2. CASE repo' # i.wit BY <2>1, <2>2, <3>2, TypedRelease
      <3> QED BY <3>1, <3>2
    <2>5. repo' \in Witnesses BY <2>2 DEF Witnesses
    <2> QED BY <1>2, <2>1, <2>4, <2>5, DiskFrame DEF RecoverRollback, JournalStep
  <1>3. CASE RecoverAbort
    <2>1. JournalStep BY <1>3, LogIntentType DEF RecoverAbort, JournalTypeOK
    <2>2. ProcessTypeOK' /\ LocalsOK' BY <1>3, <2>1, TypedGoto DEF RecoverAbort, PCs, TxPCs
    <2> QED BY <1>3, <2>1, <2>2, DiskFrame DEF RecoverAbort, work, JournalStep
  <1>4. CASE RecoverForward
    <2>1. JournalStep BY <1>4, JournalFrame DEF RecoverForward
    <2>2. PICK i \in intents :
            /\ Finishable(i) /\ op' = [op EXCEPT !.pc = "finish", !.gen = i.gen, !.wit = repo]
      BY <1>4 DEF RecoverForward
    <2>3. i.gen \in Known /\ i.gen \in 0..MaxGen
      BY <2>2, GensInBound DEF Finishable, JournalTypeOK, Intents, Known
    <2>4. op' \in Ops /\ op'.pc = "finish" /\ op'.gen \in Known /\ op'.next = op.next
      BY <2>2, <2>3 DEF ProcessTypeOK, Ops, PCs
    <2>5. ProcessTypeOK' BY <1>4, <2>4 DEF RecoverForward, ProcessTypeOK
    <2>6. LocalsOK' BY <2>1, <2>4 DEF LocalsOK, JournalStep, ValidTx, TxPCs
    <2> QED BY <1>4, <2>1, <2>5, <2>6, DiskFrame DEF RecoverForward, work, JournalStep
  <1>5. CASE RecoverRefused \/ RecoverFailed
    <2>1. JournalStep /\ ProcessTypeOK' /\ LocalsOK'
      BY <1>5, JournalFrame, TypedRelease DEF RecoverRefused, RecoverFailed
    <2> QED BY <1>5, <2>1, DiskFrame DEF RecoverRefused, RecoverFailed, work, JournalStep
  <1>6. CASE RecoverArtifact
    <2>1. JournalStep /\ ProcessTypeOK' /\ LocalsOK'
      BY <1>6, JournalFrame, ProcessFrame, TypedKeep DEF RecoverArtifact
    <2>2. PICK g \in Gens, a \in Artifacts : art' = [art EXCEPT ![g][a] = Derived[a]]
      BY <1>6 DEF RecoverArtifact, Fallbacks, JournalTypeOK
    <2>3. art' \in [Gens -> Reports]
      <3>1. art[g] \in Reports BY DEF DiskTypeOK
      <3>2. CASE a = "logs" BY <2>2, <3>1, <3>2 DEF Derived, Reports, DiskTypeOK
      <3>3. CASE a = "result" BY <2>2, <3>1, <3>3 DEF Derived, Reports, DiskTypeOK
      <3>4. CASE a = "usage" BY <2>2, <3>1, <3>4 DEF Derived, Reports, DiskTypeOK
      <3> QED BY <3>2, <3>3, <3>4 DEF Artifacts
    <2> QED BY <1>6, <2>1, <2>3 DEF RecoverArtifact, DiskTypeOK, work, JournalStep
  <1>7. CASE RecoverSave
    <2>1. JournalStep /\ ProcessTypeOK' /\ LocalsOK'
      BY <1>7, JournalFrame, TypedRelease DEF RecoverSave
    <2> QED BY <1>7, <2>1, JournalLength DEF RecoverSave, DiskTypeOK, disk, work, JournalStep
  <1> QED BY <1>1, <1>2, <1>3, <1>4, <1>5, <1>6, <1>7

LEMMA TypedSave ==
    ASSUME Typed, Save
    PROVE  Typed'
  <1>1. JournalStep /\ ProcessTypeOK' /\ LocalsOK'
    BY JournalFrame, TypedRelease DEF Save
  <1> QED
    BY <1>1, JournalLength DEF Typed, TypeOK, Save, DiskTypeOK, disk, work, JournalStep

LEMMA TypedNext == Typed /\ [Next]_vars => Typed'
  <1> SUFFICES ASSUME Typed, [Next]_vars PROVE Typed'
    OBVIOUS
  <1>1. CASE Locked
    BY <1>1, TypedTransactionStep, TypedPublish, TypedAppend, TypedIngest, TypedCheckpoint,
       TypedRecover, TypedSave DEF Locked
  <1> QED
    BY <1>1, TypedStutter, TypedCommand, TypedExecuting, TypedFault, TypedEnvironment DEF Next

LEMMA AlwaysTyped == Spec => []Typed
  BY TypedInit, TypedNext, PTL DEF Spec

\* The journal's projection, the files, the repository and the locals of every process keep
\* their types through every interleaving of commands, crashes and repairs.
THEOREM TypeCorrect == Spec => []TypeOK
  <1>1. Typed => TypeOK BY DEF Typed
  <1> QED BY <1>1, AlwaysTyped, PTL

-----------------------------------------------------------------------------
(* One transaction at a time.                                              *)

\* Where a lock holder carries a prepared transaction towards its terminal event.
Carrying == {"owner", "rename", "terminal"}

\* Only a crash, a refusal or recover leaves transactions and intents to somebody else.
Flight ==
    /\ journal = <<>> => outstanding = {} /\ intents = {}
    /\ \A t, u \in outstanding : t = u
    /\ op.pc \in Carrying => op.tx \in outstanding
    /\ op.pc \notin Carrying \cup {"idle", "resolve"} => outstanding = {}
    /\ \A i, j \in intents : i = j
    /\ \A t \in outstanding, i \in intents : t.gen = i.gen
    /\ op.pc \in TxPCs => \A i \in intents : i.gen = op.tx.gen
    /\ op.pc \in {"advance", "verify", "finish", "abort"} => \A i \in intents : i.gen = op.gen
    /\ op.pc \in {"append", "ingest", "archive", "policy", "intent", "save"} => intents = {}
    /\ op.pc \in TxPCs /\ op.next \in {"save", "ingest"} =>
          intents = {} \/ op.tx.event = "RUN_COMPLETED"
    /\ op.pc \in TxPCs /\ op.next = "finish" =>
          op.tx.event = "RUN_STARTED" /\ op.tx.gen = op.gen
    /\ op.pc \in {"archive", "policy"} => op.next \in {"save", "ingest"}

\* Whoever is about to start a run knows that none is running.
Starting ==
    /\ SingleRunning
    /\ \A t \in outstanding : t.event = "RUN_STARTED" => Running = {}
    /\ op.pc \in {"policy", "archive", "prepare"} /\ op.tx.event = "RUN_STARTED" => Running = {}
    /\ op.pc \in {"intent", "advance", "verify"} => Running = {}
    /\ op.pc = "finish" /\ status[op.gen] = "ACCEPTED" => Running = {}

\* The files of an owned start are durable before the journal needs them.
Owning ==
    /\ RunsHaveOwner
    /\ \A g \in owned : status[g] \notin {"NONE", "ACCEPTED"}
    /\ \A t \in outstanding : t.owned => art[t.gen].policy
    /\ op.pc \in TxPCs /\ op.tx.owned => art[op.tx.gen].policy
    /\ op.pc \in {"rename", "terminal"} /\ op.tx.owned => art[op.tx.gen].owner
    /\ op.kind = "start" /\ op.pc \in {"policy", "prepare"} =>
          op.gen = op.tx.gen /\ status[op.gen] = "ACCEPTED"
    /\ op.kind = "start" => op.next = "save" /\ op.pc \in TxPCs \cup {"policy", "save"}
    /\ op.pc = "policy" => op.kind = "start"
    /\ op.pc = "archive" => ~op.tx.owned

\* Every step that leaves the journal alone either keeps the lock holder's transaction, or
\* gives up the lock, or is one of these.
Quiet == UNCHANGED journalVars /\ (UNCHANGED op \/ op' = Idle)

LEMMA QuietSteps ==
    ASSUME \/ Environment \/ Fault \/ Rebuild \/ Save \/ TerminalRefused
           \/ PublishPolicyRefused \/ CheckpointRefused \/ UNCHANGED vars
           \/ RecoverRefused \/ RecoverArtifact \/ RecoverSave \/ RecoverFailed
           \/ \E g \in Gens : \/ ExecutorLogs(g) \/ WriteResult(g) \/ CollectUsage(g)
                              \/ TelemetryFails(g) \/ ExecutorRaises(g) \/ WriteFailureLogs(g)
                              \/ WriteFailure(g) \/ Replay(g) \/ UnlockedSave(g)
                              \/ DriverRefused(g)
    PROVE  Quiet
  BY DEF Quiet, Environment, DropPrompt, EditRepository, CommitRepository, Fault, SaveFails,
         StartFails, IntentFails, Crash, KillDriver, Rebuild, Save, TerminalRefused,
         PublishPolicyRefused, CheckpointRefused, RecoverRefused, RecoverArtifact, RecoverSave,
         RecoverFailed, Release, ExecutorLogs, WriteResult, CollectUsage, TelemetryFails,
         ExecutorRaises, WriteFailureLogs, WriteFailure, Replay, UnlockedSave, DriverRefused,
         DriverQuiet, process, vars

\* A command begins when nothing is unresolved, recover excepted.
LEMMA BeginSteps ==
    ASSUME Typed, NEW g \in Gens
    PROVE  /\ \A by \in {"operator", "driver"} : CompleteBegin(g, by) =>
                 /\ UNCHANGED journalVars /\ Settled /\ op'.kind \in {"complete", "interrupt"}
                 /\ op'.pc = "prepare" /\ op'.next = "save" /\ op'.gen = g /\ op'.tx.gen = g
                 /\ op'.tx.event \in {"RUN_COMPLETED", "RUN_INTERRUPTED"} /\ ~op'.tx.owned
           /\ \A by \in {"operator", "driver"} : InterruptBegin(g, by) =>
                 /\ UNCHANGED journalVars /\ Settled /\ op'.kind = "interrupt"
                 /\ op'.pc = "prepare" /\ op'.next = "save" /\ op'.gen = g /\ op'.tx.gen = g
                 /\ op'.tx.event = "RUN_INTERRUPTED" /\ ~op'.tx.owned
           /\ CancelBegin(g) =>
                 /\ UNCHANGED journalVars /\ Settled /\ op'.kind = "cancel"
                 /\ op'.pc = "prepare" /\ op'.next = "save" /\ op'.gen = g /\ op'.tx.gen = g
                 /\ op'.tx.event = "PROMPT_CANCELLED" /\ ~op'.tx.owned
           /\ \A b \in BOOLEAN : StartBegin(g, b) =>
                 /\ UNCHANGED journalVars /\ Settled /\ op'.kind = "start" /\ Running = {}
                 /\ op'.pc = IF b THEN "policy" ELSE "prepare"
                 /\ op'.next = "save" /\ op'.gen = g /\ op'.tx.gen = g
                 /\ op'.tx.event = "RUN_STARTED" /\ op'.tx.owned = b /\ status[g] = "ACCEPTED"
           /\ CheckpointBegin(g) =>
                 /\ UNCHANGED journalVars /\ Settled /\ op'.kind = "checkpoint" /\ Running = {}
                 /\ op'.pc = "intent" /\ op'.next = "idle" /\ op'.gen = g
  <1>1. ASSUME NEW by \in {"operator", "driver"}, CompleteBegin(g, by)
        PROVE  /\ UNCHANGED journalVars /\ Settled /\ op'.kind \in {"complete", "interrupt"}
               /\ op'.pc = "prepare" /\ op'.next = "save" /\ op'.gen = g /\ op'.tx.gen = g
               /\ op'.tx.event \in {"RUN_COMPLETED", "RUN_INTERRUPTED"} /\ ~op'.tx.owned
    <2>1. UNCHANGED journalVars /\ Settled
      BY <1>1 DEF CompleteBegin, CanComplete, Preflight
    <2>2. PICK kind \in {"complete", "interrupt"}, event \in {"RUN_COMPLETED", "RUN_INTERRUPTED"},
               to \in {"completed", "interrupted"}, w \in {repo, wit[g]},
               c \in {"executor", "typed"} \cup Results :
             BeginMove(kind, "prepare", by, EndTx(event, g, to, w, c))
      BY <1>1 DEF CompleteBegin
    <2>3. /\ EndTx(event, g, to, w, c).gen = g /\ EndTx(event, g, to, w, c).event = event
          /\ ~EndTx(event, g, to, w, c).owned
      BY DEF EndTx, MoveTx, Tx
    <2> QED BY <2>1, <2>2, <2>3 DEF BeginMove
  <1>2. ASSUME NEW by \in {"operator", "driver"}, InterruptBegin(g, by)
        PROVE  /\ UNCHANGED journalVars /\ Settled /\ op'.kind = "interrupt"
               /\ op'.pc = "prepare" /\ op'.next = "save" /\ op'.gen = g /\ op'.tx.gen = g
               /\ op'.tx.event = "RUN_INTERRUPTED" /\ ~op'.tx.owned
    BY <1>2 DEF InterruptBegin, CanInterrupt, BeginMove, MoveTx, Tx
  <1>3. ASSUME CancelBegin(g)
        PROVE  /\ UNCHANGED journalVars /\ Settled /\ op'.kind = "cancel"
               /\ op'.pc = "prepare" /\ op'.next = "save" /\ op'.gen = g /\ op'.tx.gen = g
               /\ op'.tx.event = "PROMPT_CANCELLED" /\ ~op'.tx.owned
    BY <1>3 DEF CancelBegin, Preflight, BeginMove, MoveTx, Tx
  <1>4. ASSUME NEW b \in BOOLEAN, StartBegin(g, b)
        PROVE  /\ UNCHANGED journalVars /\ Settled /\ op'.kind = "start" /\ Running = {}
               /\ op'.pc = IF b THEN "policy" ELSE "prepare"
               /\ op'.next = "save" /\ op'.gen = g /\ op'.tx.gen = g
               /\ op'.tx.event = "RUN_STARTED" /\ op'.tx.owned = b /\ status[g] = "ACCEPTED"
    BY <1>4 DEF StartBegin, Preflight, BeginMove, MoveTx, Tx
  <1>5. ASSUME CheckpointBegin(g)
        PROVE  /\ UNCHANGED journalVars /\ Settled /\ op'.kind = "checkpoint" /\ Running = {}
               /\ op'.pc = "intent" /\ op'.next = "idle" /\ op'.gen = g
    BY <1>5 DEF CheckpointBegin, Preflight, Hold, Idle
  <1> QED BY <1>1, <1>2, <1>3, <1>4, <1>5

LEMMA FlightInit == Init => Flight
  BY DEF Init, JournalInit, Flight, Idle, Carrying, TxPCs

LEMMA FlightQuiet ==
    ASSUME Flight, Quiet
    PROVE  Flight'
  BY DEF Flight, Quiet, journalVars, Idle, Carrying, TxPCs

LEMMA FlightCommand ==
    ASSUME Typed, Flight, NEW g \in Gens,
           \/ \E by \in {"operator", "driver"} : CompleteBegin(g, by) \/ InterruptBegin(g, by)
           \/ CancelBegin(g) \/ CheckpointBegin(g) \/ \E b \in BOOLEAN : StartBegin(g, b)
    PROVE  Flight'
  <1>1. /\ UNCHANGED journalVars /\ outstanding = {} /\ intents = {}
        /\ (op'.pc \in {"prepare", "policy"} /\ op'.next = "save") \/ op'.pc = "intent"
    BY BeginSteps DEF Settled
  <1> QED BY <1>1 DEF Flight, journalVars, Carrying, TxPCs

LEMMA FlightTransactionStep ==
    ASSUME Typed, Flight, \/ Prepare \/ PublishOwner \/ Rename \/ Terminal \/ Archive
                          \/ PublishPolicy
    PROVE  Flight'
  <1>1. PICK pc \in PCs : Goto(pc)
    <2>1. op.next \in PCs BY DEF Typed, LocalsOK, PCs
    <2> QED
      BY <2>1 DEF Prepare, PublishOwner, Rename, Terminal, Archive, PublishPolicy, PCs, TxPCs
  <1>2. /\ op'.pc = pc /\ op'.tx = op.tx /\ op'.gen = op.gen /\ op'.next = op.next
    BY <1>1, GotoType DEF Typed
  <1>3. CASE Prepare
    <2>1. pc \in {"owner", "rename"} BY <1>2, <1>3, GotoType DEF Prepare, Typed, PCs, TxPCs
    <2>2. /\ op.pc = "prepare" /\ outstanding' = outstanding \cup {op.tx} /\ intents' = intents
          /\ journal' # <<>>
      BY <1>3 DEF Prepare, LogPrepared, Log, Typed, TypeOK, JournalTypeOK
    <2>3. outstanding = {} /\ \A i \in intents : i.gen = op.tx.gen
      BY <2>2 DEF Flight, Carrying, TxPCs
    <2>4. /\ \A t, u \in outstanding' : t = u
          /\ \A t \in outstanding', i \in intents' : t.gen = i.gen
          /\ op'.tx \in outstanding'
      BY <1>2, <2>2, <2>3
    <2> QED
      BY <1>2, <2>1, <2>2, <2>3, <2>4 DEF Flight, Carrying, TxPCs
  <1>4. CASE PublishOwner \/ Rename
    <2>1. pc \in {"rename", "terminal"}
      BY <1>2, <1>4, GotoType DEF PublishOwner, Rename, Typed, PCs, TxPCs
    <2> QED BY <1>2, <1>4, <2>1 DEF PublishOwner, Rename, Flight, Carrying, TxPCs, journalVars
  <1>5. CASE Terminal
    <2>1. pc = op.next BY <1>2, <1>5, GotoType DEF Terminal, Typed, LocalsOK, PCs
    <2>2. outstanding = {op.tx} /\ outstanding' = {} /\ intents' \subseteq intents
      BY <1>5 DEF Terminal, LogTerminal, Flight, Carrying
    <2>3. \A i \in intents : i.gen = op.tx.gen
      BY <1>5 DEF Terminal, Flight, TxPCs
    <2>4. op.next \in {"save", "ingest"} => intents' = {}
      BY <1>5, <2>3 DEF Terminal, LogTerminal, Flight, TxPCs
    <2>5. op.next = "finish" => \A i \in intents : i.gen = op.gen
      BY <1>5, <2>3 DEF Terminal, Flight, TxPCs
    <2>6. op.next \in {"idle", "save", "ingest", "finish", "resolve"} BY DEF Typed, LocalsOK
    <2>7. journal' # <<>>
      BY <1>5 DEF Terminal, LogTerminal, Log, Typed, TypeOK, JournalTypeOK
    <2> QED
      BY <1>2, <2>1, <2>2, <2>4, <2>5, <2>6, <2>7 DEF Flight, Carrying, TxPCs
  <1>6. CASE Archive \/ PublishPolicy
    <2>1. pc = "prepare"
      BY <1>2, <1>6, GotoType DEF Archive, PublishPolicy, Typed, PCs, TxPCs
    <2> QED BY <1>2, <1>6, <2>1 DEF Archive, PublishPolicy, Flight, Carrying, TxPCs, journalVars
  <1> QED BY <1>3, <1>4, <1>5, <1>6

LEMMA FlightIngest ==
    ASSUME Typed, Flight, IngestBegin \/ Receive \/ Process
    PROVE  Flight'
  <1>1. /\ outstanding = {} /\ intents = {} /\ UNCHANGED <<outstanding, intents>>
    BY DEF IngestBegin, Receive, Process, Preflight, Settled, Flight, LogReceived, journalVars,
           Carrying
  <1>2. CASE IngestBegin BY <1>1, <1>2 DEF IngestBegin, Flight, Idle, Carrying, TxPCs
  <1>3. CASE UNCHANGED op BY <1>1, <1>3 DEF Flight
  <1>4. ASSUME NEW t, NEW pc \in {"prepare", "archive"}, Move(t, pc, "ingest") PROVE Flight'
    BY <1>1, <1>4, MoveFields DEF Flight, Carrying, TxPCs
  <1> QED BY <1>2, <1>3, <1>4 DEF Receive, Process

LEMMA FlightAppend ==
    ASSUME Typed, Flight, InitBegin \/ AdoptBegin \/ InitAppend \/ AdoptAppend
    PROVE  Flight'
  <1>1. /\ outstanding = {} /\ intents = {} /\ UNCHANGED <<outstanding, intents>>
    BY DEF InitBegin, AdoptBegin, InitAppend, AdoptAppend, Preflight, Settled, Flight,
           LogInitialized, LogAdopted, journalVars, Carrying
  <1>2. op'.pc \in {"append", "save"}
    BY GotoType DEF InitBegin, AdoptBegin, InitAppend, AdoptAppend, Typed, PCs, Hold, Idle
  <1> QED BY <1>1, <1>2 DEF Flight, Carrying, TxPCs

LEMMA FlightCheckpoint ==
    ASSUME Typed, Flight, CheckpointIntent \/ CheckpointAdvance \/ CheckpointVerify
                          \/ CheckpointFinish
    PROVE  Flight'
  <1>1. outstanding = {} /\ outstanding' = {}
    BY DEF CheckpointIntent, CheckpointAdvance, CheckpointVerify, CheckpointFinish, Flight,
           LogIntent, journalVars, Carrying
  <1>2. CASE CheckpointIntent
    <2>1. op'.pc = "advance" /\ op'.gen = op.gen
      BY <1>2, GotoType DEF CheckpointIntent, Typed, PCs
    <2>2. /\ \A i \in intents' : i.gen = op.gen
          /\ \A i, j \in intents' : i = j
          /\ journal' # <<>>
      BY <1>2 DEF CheckpointIntent, LogIntent, Log, Flight, Typed, TypeOK, JournalTypeOK
    <2> QED BY <1>1, <2>1, <2>2 DEF Flight, Carrying, TxPCs
  <1>3. CASE CheckpointAdvance \/ CheckpointVerify
    <2>1. op'.pc \in {"verify", "finish"} /\ op'.gen = op.gen
      BY <1>3, GotoType DEF CheckpointAdvance, CheckpointVerify, Typed, PCs
    <2> QED
      BY <1>1, <1>3, <2>1
         DEF CheckpointAdvance, CheckpointVerify, Flight, Carrying, TxPCs, journalVars
  <1>4. CASE CheckpointFinish
    <2>1. PICK t, next : /\ Move(t, "prepare", next) /\ t.gen = op.gen
                         /\ \/ next = "finish" /\ t.event = "RUN_STARTED"
                            \/ next \in {"resolve", "save"} /\ t.event = "RUN_COMPLETED"
      BY <1>4 DEF CheckpointFinish, MoveTx, Tx
    <2>2. /\ op'.tx = t /\ op'.pc = "prepare" /\ op'.next = next /\ op'.gen = op.gen
      BY <2>1, MoveFields
    <2>3. \A i \in intents : i.gen = op.gen BY <1>4 DEF CheckpointFinish, Flight
    <2> QED
      BY <1>1, <1>4, <2>1, <2>2, <2>3 DEF CheckpointFinish, Flight, Carrying, TxPCs, journalVars
  <1> QED BY <1>2, <1>3, <1>4

LEMMA FlightRecover ==
    ASSUME Typed, Flight, \/ RecoverBegin \/ RecoverTransaction \/ RecoverRollback
                          \/ RecoverAbort \/ RecoverForward
    PROVE  Flight'
  <1>1. CASE RecoverBegin BY <1>1 DEF RecoverBegin, Hold, Idle, Flight, Carrying, TxPCs, journalVars
  <1>2. CASE RecoverTransaction
    <2>1. PICK t \in outstanding, pc \in Carrying : Move(t, pc, "resolve")
      BY <1>2 DEF RecoverTransaction, Carrying
    <2>2. op'.tx = t /\ op'.pc = pc /\ op'.next = "resolve" BY <2>1, MoveFields
    <2> QED
      BY <1>2, <2>1, <2>2 DEF RecoverTransaction, Flight, Carrying, TxPCs, journalVars
  <1>3. CASE RecoverRollback
    <2>1. PICK i \in intents :
             \/ op' = [op EXCEPT !.pc = "abort", !.gen = i.gen]
             \/ op' = Idle
      BY <1>3 DEF RecoverRollback, Release
    <2>2. \/ op'.pc = "abort" /\ op'.gen = i.gen
          \/ op' = Idle
      BY <2>1 DEF Typed, TypeOK, ProcessTypeOK, Ops
    <2>3. UNCHANGED journalVars /\ outstanding = {} BY <1>3 DEF RecoverRollback
    <2>4. CASE op' = Idle BY <2>3, <2>4, FlightQuiet DEF Quiet
    <2>5. CASE op'.pc = "abort" /\ op'.gen = i.gen
      BY <2>1, <2>3, <2>5 DEF Flight, Carrying, TxPCs, journalVars
    <2> QED BY <2>2, <2>4, <2>5
  <1>4. CASE RecoverAbort
    <2>1. op'.pc = "resolve" BY <1>4, GotoType DEF RecoverAbort, Typed, PCs
    <2>2. outstanding' = {} /\ intents' \subseteq intents /\ journal' # <<>>
      BY <1>4 DEF RecoverAbort, LogAborted, Log, Flight, Carrying, Typed, TypeOK, JournalTypeOK
    <2> QED BY <2>1, <2>2 DEF Flight, Carrying, TxPCs
  <1>5. CASE RecoverForward
    <2>1. PICK i \in intents : op'.pc = "finish" /\ op'.gen = i.gen
      BY <1>5 DEF RecoverForward, Typed, TypeOK, ProcessTypeOK, Ops
    <2> QED
      BY <1>5, <2>1 DEF RecoverForward, Flight, Carrying, TxPCs, journalVars
  <1> QED BY <1>1, <1>2, <1>3, <1>4, <1>5

LEMMA FlightNext == Typed /\ Flight /\ [Next]_vars => Flight'
  <1> SUFFICES ASSUME Typed, Flight, [Next]_vars PROVE Flight'
    OBVIOUS
  <1>1. CASE Quiet BY <1>1, FlightQuiet
  <1>2. CASE Command
    BY <1>1, <1>2, QuietSteps, FlightCommand, FlightIngest, FlightAppend, FlightRecover DEF Command
  <1>3. CASE Locked
    BY <1>1, <1>3, QuietSteps, FlightTransactionStep, FlightIngest, FlightAppend,
       FlightCheckpoint, FlightRecover DEF Locked
  <1>4. ASSUME NEW g \in Gens, Executing(g) PROVE Flight'
    BY <1>1, <1>4, QuietSteps, FlightCommand DEF Executing
  <1> QED BY <1>1, <1>2, <1>3, <1>4, QuietSteps DEF Next

LEMMA AlwaysFlight == Spec => []Flight
  BY FlightInit, FlightNext, AlwaysTyped, PTL DEF Spec

\* However the commands of any number of generations interleave, crash and are repaired, at most
\* one transaction and one checkpoint intent are unresolved, and of the same generation.
THEOREM OneInFlightCorrect == Spec => []OneInFlight
  <1>1. Flight => OneInFlight BY DEF Flight, OneInFlight
  <1> QED BY <1>1, AlwaysFlight, PTL

-----------------------------------------------------------------------------
(* One run at a time.                                                      *)

LEMMA StartingQuiet ==
    ASSUME Starting, Quiet
    PROVE  Starting'
  BY DEF Starting, SingleRunning, Running, Quiet, journalVars, records, Idle

\* Where the terminal event of op.tx leaves the lock holder.
LEMMA AfterTerminal ==
    ASSUME Typed, Flight, Terminal
    PROVE  /\ outstanding = {op.tx} /\ outstanding' = {} /\ ValidTx(op.tx)
           /\ op'.pc = op.next /\ op'.gen = op.gen /\ op'.tx = op.tx /\ op'.kind = op.kind
           /\ op'.next = op.next /\ op.next \in {"idle", "save", "ingest", "finish", "resolve"}
           /\ op.next = "finish" => op.tx.event = "RUN_STARTED" /\ op.tx.gen = op.gen
           /\ op.tx.event \notin {"PROMPT_ACCEPTED", "PROMPT_REJECTED"} => op.tx.gen \in Gens
  <1>1. op.next \in {"idle", "save", "ingest", "finish", "resolve"} /\ ValidTx(op.tx)
    BY DEF Typed, LocalsOK, Terminal, TxPCs
  <1>2. op.next \in PCs BY <1>1 DEF PCs
  <1>3. /\ op'.pc = op.next /\ op'.gen = op.gen /\ op'.tx = op.tx /\ op'.kind = op.kind
        /\ op'.next = op.next
    BY <1>2, GotoType DEF Terminal, Typed
  <1> QED BY <1>1, <1>3 DEF Terminal, LogTerminal, Flight, Carrying, TxPCs, ValidTx, Known

LEMMA StartingTerminal ==
    ASSUME Typed, Flight, Starting, Terminal
    PROVE  Starting'
  <1> USE AfterTerminal
  <1>1. CASE op.tx.event = "RUN_STARTED"
    <2>1. Running = {} /\ status' = [status EXCEPT ![op.tx.gen] = "RUNNING"]
      BY <1>1 DEF Starting, Terminal, LogTerminal, Outcome
    <2>2. status'[op.tx.gen] = "RUNNING" /\ Running' = {op.tx.gen}
      BY <1>1, <2>1 DEF Running, Typed, TypeOK, JournalTypeOK
    <2> QED BY <2>2 DEF Starting, SingleRunning, Running
  <1>2. CASE op.tx.event # "RUN_STARTED"
    <2>1. Running' \subseteq Running
      BY <1>2 DEF Running, Terminal, LogTerminal, Outcome, Typed, TypeOK, JournalTypeOK, ValidTx,
                  Txs, Transitions
    <2> QED BY <1>2, <2>1 DEF Starting, SingleRunning, Running
  <1> QED BY <1>1, <1>2

LEMMA StartingCommand ==
    ASSUME Typed, Starting, NEW g \in Gens,
           \/ \E by \in {"operator", "driver"} : CompleteBegin(g, by) \/ InterruptBegin(g, by)
           \/ CancelBegin(g) \/ CheckpointBegin(g) \/ \E b \in BOOLEAN : StartBegin(g, b)
    PROVE  Starting'
  <1>1. /\ UNCHANGED journalVars
        /\ \/ op'.pc = "prepare" /\ op'.tx.event # "RUN_STARTED"
           \/ op'.pc \in {"prepare", "policy", "intent"} /\ Running = {}
    BY BeginSteps
  <1> QED BY <1>1 DEF Starting, SingleRunning, Running, journalVars, records

\* ingest goes on with the next file, or with the transaction that accepts or rejects it.
LEMMA IngestMoves ==
    ASSUME Typed, Receive \/ Process
    PROVE  \/ UNCHANGED op
           \/ /\ op'.pc \in {"prepare", "archive"} /\ op'.kind = op.kind
              /\ op'.tx.event \in {"PROMPT_ACCEPTED", "PROMPT_REJECTED"} /\ ~op'.tx.owned
  <1>1. ASSUME NEW t, NEW pc \in {"prepare", "archive"}, Move(t, pc, "ingest"),
               t.event \in {"PROMPT_ACCEPTED", "PROMPT_REJECTED"}, ~t.owned
        PROVE  /\ op'.pc \in {"prepare", "archive"} /\ op'.kind = op.kind
               /\ op'.tx.event \in {"PROMPT_ACCEPTED", "PROMPT_REJECTED"} /\ ~op'.tx.owned
    BY <1>1, MoveFields
  <1>2. ASSUME NEW name, NEW p, NEW id
        PROVE  LET r == [Rejection(name, p) EXCEPT !.id = id]
               IN  r.event = "PROMPT_REJECTED" /\ ~r.owned
    BY DEF Rejection, Tx
  <1>3. ASSUME NEW name, NEW p
        PROVE  Rejection(name, p).event = "PROMPT_REJECTED" /\ ~Rejection(name, p).owned
    BY DEF Rejection, Tx
  <1>4. CASE Receive
    <2>1. PICK f : \/ Move([Rejection(f[1], f[2]) EXCEPT !.id = NextSeq + 1], "prepare", "ingest")
                   \/ UNCHANGED op
      BY <1>4 DEF Receive
    <2> QED BY <1>1, <1>2, <2>1
  <1>5. CASE Process
    <2>1. PICK f : \/ Move(Tx("PROMPT_ACCEPTED", f[2].gen, f[2], <<"inbox", f[1], f[2]>>,
                              <<"accepted", "canonical", f[2]>>, batch.wit, FALSE, {}),
                           "archive", "ingest")
                   \/ Move(Rejection(f[1], f[2]), "prepare", "ingest")
      BY <1>5 DEF Process
    <2>2. CASE Move(Rejection(f[1], f[2]), "prepare", "ingest") BY <1>1, <1>3, <2>2
    <2>3. CASE Move(Tx("PROMPT_ACCEPTED", f[2].gen, f[2], <<"inbox", f[1], f[2]>>,
                       <<"accepted", "canonical", f[2]>>, batch.wit, FALSE, {}),
                    "archive", "ingest")
      BY <1>1, <2>3 DEF Tx
    <2> QED BY <2>1, <2>2, <2>3
  <1> QED BY <1>4, <1>5

\* A rollback ends in CHECKPOINT_ABORTED or is refused.
LEMMA RollbackMoves ==
    ASSUME Typed, RecoverRollback
    PROVE  /\ op'.pc \in {"abort", "idle"} /\ op'.kind \in {op.kind, "none"}
           /\ UNCHANGED journalVars /\ UNCHANGED art
  <1>1. PICK i \in intents :
           op' = Idle \/ op' = [op EXCEPT !.pc = "abort", !.gen = i.gen]
    BY DEF RecoverRollback, Release
  <1>2. op \in Ops BY DEF Typed, TypeOK, ProcessTypeOK
  <1>3. CASE op' = Idle BY <1>3 DEF Idle, RecoverRollback, disk
  <1>4. CASE op' = [op EXCEPT !.pc = "abort", !.gen = i.gen]
    BY <1>2, <1>4 DEF RecoverRollback, disk, Ops
  <1> QED BY <1>1, <1>3, <1>4

\* All other steps: the generations stay as they are, and so does what is known of them.
LEMMA StartingOther ==
    ASSUME Typed, Flight, Starting,
           \/ InitBegin \/ AdoptBegin \/ InitAppend \/ AdoptAppend
           \/ IngestBegin \/ Receive \/ Process \/ Archive \/ PublishPolicy
           \/ Prepare \/ PublishOwner \/ Rename
           \/ CheckpointIntent \/ CheckpointAdvance \/ CheckpointVerify \/ CheckpointFinish
           \/ RecoverBegin \/ RecoverTransaction \/ RecoverRollback \/ RecoverAbort
           \/ RecoverForward
    PROVE  Starting'
  <1> USE DEF Starting
  <1>1. Running' = Running /\ status' = status /\ SingleRunning'
    BY DEF InitBegin, AdoptBegin, InitAppend, AdoptAppend, IngestBegin, Receive, Process,
           Archive, PublishPolicy, Prepare, PublishOwner, Rename, CheckpointIntent,
           CheckpointAdvance, CheckpointVerify, CheckpointFinish, RecoverBegin,
           RecoverTransaction, RecoverRollback, RecoverAbort, RecoverForward, LogInitialized,
           LogAdopted, LogReceived, LogPrepared, LogIntent, LogAborted, journalVars, records,
           Running, SingleRunning
  <1>2. CASE Prepare
    <2>1. op'.pc \in {"owner", "rename"} BY <1>2, GotoType DEF Prepare, Typed, PCs, TxPCs
    <2> QED BY <1>1, <1>2, <2>1 DEF Prepare, LogPrepared
  <1>3. CASE \/ InitBegin \/ AdoptBegin \/ InitAppend \/ AdoptAppend \/ IngestBegin
             \/ PublishOwner \/ Rename \/ RecoverAbort \/ RecoverBegin
    <2>1. op'.pc \in {"append", "save", "ingest", "resolve", "rename", "terminal"}
      BY <1>3, GotoType
         DEF InitBegin, AdoptBegin, InitAppend, AdoptAppend, IngestBegin, PublishOwner, Rename,
             RecoverAbort, RecoverBegin, Typed, PCs, TxPCs, Hold, Idle
    <2>2. outstanding' = outstanding
      BY <1>3 DEF InitBegin, AdoptBegin, InitAppend, AdoptAppend, IngestBegin, PublishOwner,
                  Rename, RecoverAbort, RecoverBegin, LogInitialized, LogAdopted, LogAborted,
                  journalVars
    <2> QED BY <1>1, <2>1, <2>2
  <1>4. CASE Archive \/ PublishPolicy
    <2>1. /\ op'.pc = "prepare" /\ op'.tx = op.tx
      BY <1>4, GotoType DEF Archive, PublishPolicy, Typed, PCs, TxPCs
    <2> QED BY <1>1, <1>4, <2>1 DEF Archive, PublishPolicy, journalVars, Flight, Carrying
  <1>5. CASE Receive \/ Process
    <2>1. outstanding' = outstanding
      BY <1>5 DEF Receive, Process, LogReceived, journalVars
    <2>2. UNCHANGED op \/ (op'.pc \in {"prepare", "archive"} /\ op'.tx.event # "RUN_STARTED")
      BY <1>5, IngestMoves
    <2> QED BY <1>1, <2>1, <2>2
  <1>6. CASE CheckpointIntent \/ CheckpointAdvance \/ CheckpointVerify
    <2>1. op'.pc \in {"advance", "verify", "finish"} /\ Running = {}
      BY <1>6, GotoType
         DEF CheckpointIntent, CheckpointAdvance, CheckpointVerify, Typed, PCs
    <2>2. outstanding' = outstanding
      BY <1>6 DEF CheckpointIntent, CheckpointAdvance, CheckpointVerify, LogIntent, journalVars
    <2> QED BY <1>1, <2>1, <2>2
  <1>7. CASE CheckpointFinish
    <2>1. /\ op'.pc = "prepare"
          /\ op'.tx.event = "RUN_STARTED" => Running = {}
      BY <1>7, MoveFields DEF CheckpointFinish, MoveTx, Tx
    <2> QED BY <1>1, <1>7, <2>1 DEF CheckpointFinish, journalVars
  <1>8. CASE RecoverTransaction
    <2>1. op'.pc \in Carrying
      BY <1>8, MoveFields DEF RecoverTransaction, Carrying
    <2> QED BY <1>1, <1>8, <2>1 DEF RecoverTransaction, Carrying, journalVars
  <1>9. CASE RecoverRollback
    <2>1. op'.pc \in {"abort", "idle"} /\ UNCHANGED journalVars BY <1>9, RollbackMoves
    <2> QED BY <1>1, <2>1 DEF journalVars
  <1>10. CASE RecoverForward
    <2>1. /\ op'.pc = "finish"
          /\ status[op'.gen] = "ACCEPTED" => Running = {}
      BY <1>10 DEF RecoverForward, Finishable, Typed, TypeOK, ProcessTypeOK, Ops
    <2> QED BY <1>1, <1>10, <2>1 DEF RecoverForward, journalVars
  <1> QED BY <1>2, <1>3, <1>4, <1>5, <1>6, <1>7, <1>8, <1>9, <1>10

LEMMA StartingInit == Init => Starting
  BY DEF Init, JournalInit, Starting, SingleRunning, Running, Idle

LEMMA StartingNext == Typed /\ Flight /\ Starting /\ [Next]_vars => Starting'
  <1> SUFFICES ASSUME Typed, Flight, Starting, [Next]_vars PROVE Starting'
    OBVIOUS
  <1>1. CASE Quiet BY <1>1, StartingQuiet
  <1>2. CASE Command BY <1>1, <1>2, QuietSteps, StartingCommand, StartingOther DEF Command
  <1>3. CASE Locked BY <1>1, <1>3, QuietSteps, StartingTerminal, StartingOther DEF Locked
  <1>4. ASSUME NEW g \in Gens, Executing(g) PROVE Starting'
    BY <1>1, <1>4, QuietSteps, StartingCommand DEF Executing
  <1> QED BY <1>1, <1>2, <1>3, <1>4, QuietSteps DEF Next

LEMMA AlwaysStarting == Spec => []Starting
  BY StartingInit, StartingNext, AlwaysTyped, AlwaysFlight, PTL DEF Spec

\* Whatever starts them, and whatever crashes in between, two generations never run at once:
\* a start that recover or checkpoint finishes was admitted while nothing ran, and nothing else
\* can start before its transaction is resolved.
THEOREM SingleRunningCorrect == Spec => []SingleRunning
  <1>1. Starting => SingleRunning BY DEF Starting
  <1> QED BY <1>1, AlwaysStarting, PTL

-----------------------------------------------------------------------------
(* The execution owner.                                                    *)

LEMMA OwningInit == Init => Owning
  BY DEF Init, JournalInit, Owning, RunsHaveOwner, Idle, TxPCs

\* A step that takes no policy and no owner file away, and moves no transaction.
LEMMA OwningKept ==
    ASSUME Typed, Owning, Quiet,
           \A g \in Gens : art'[g].policy = art[g].policy /\ art'[g].owner = art[g].owner
    PROVE  Owning'
  <1>1. \A t \in outstanding : t.owned => t.gen \in Gens
    BY DEF Typed, LocalsOK, ValidTx, Known
  <1>2. op.pc \in TxPCs /\ op.tx.owned => op.tx.gen \in Gens
    BY DEF Typed, LocalsOK, ValidTx, Known
  <1>3. \A g \in owned : g \in Gens BY DEF Typed, TypeOK, JournalTypeOK
  <1>4. CASE UNCHANGED op
    BY <1>1, <1>2, <1>3, <1>4
       DEF Owning, RunsHaveOwner, Quiet, journalVars, records, TxPCs
  <1>5. CASE op' = Idle
    BY <1>1, <1>3, <1>5 DEF Owning, RunsHaveOwner, Quiet, journalVars, records, Idle, TxPCs
  <1> QED BY <1>4, <1>5 DEF Quiet

\* What the executing process and recover write are reports.
LEMMA ReportSteps ==
    ASSUME Typed,
           \/ RecoverArtifact
           \/ \E g \in Gens : \/ ExecutorLogs(g) \/ WriteResult(g) \/ CollectUsage(g)
                              \/ TelemetryFails(g) \/ ExecutorRaises(g) \/ WriteFailureLogs(g)
                              \/ WriteFailure(g) \/ Replay(g) \/ UnlockedSave(g)
                              \/ DriverRefused(g)
    PROVE  \A h \in Gens : art'[h].policy = art[h].policy /\ art'[h].owner = art[h].owner
  <1> USE DEF Typed, TypeOK, DiskTypeOK
  <1>1. CASE RecoverArtifact
    <2>1. PICK g \in Gens, a \in Artifacts : art' = [art EXCEPT ![g][a] = Derived[a]]
      BY <1>1 DEF RecoverArtifact, Fallbacks, JournalTypeOK
    <2>2. art[g] \in Reports BY DEF DiskTypeOK
    <2>3. CASE a = "logs" BY <2>1, <2>2, <2>3 DEF Reports
    <2>4. CASE a = "result" BY <2>1, <2>2, <2>4 DEF Reports
    <2>5. CASE a = "usage" BY <2>1, <2>2, <2>5 DEF Reports
    <2> QED BY <2>3, <2>4, <2>5 DEF Artifacts
  <1>2. ASSUME NEW g \in Gens,
               \/ ExecutorLogs(g) \/ WriteResult(g) \/ CollectUsage(g) \/ TelemetryFails(g)
               \/ ExecutorRaises(g) \/ WriteFailureLogs(g) \/ WriteFailure(g)
               \/ Replay(g) \/ UnlockedSave(g) \/ DriverRefused(g),
               NEW h \in Gens
        PROVE  art'[h].policy = art[h].policy /\ art'[h].owner = art[h].owner
    <2>1. art[g] \in Reports /\ art[h] \in Reports OBVIOUS
    <2>2. CASE UNCHANGED art BY <2>2
    <2>3. CASE ExecutorLogs(g) BY <2>1, <2>3 DEF ExecutorLogs, Reports
    <2>4. CASE WriteResult(g) BY <2>1, <2>4 DEF WriteResult, Reports
    <2>5. CASE CollectUsage(g) BY <2>1, <2>5 DEF CollectUsage, Reports
    <2>6. CASE TelemetryFails(g) BY <2>1, <2>6 DEF TelemetryFails, Reports
    <2>7. CASE WriteFailureLogs(g) BY <2>1, <2>7 DEF WriteFailureLogs, Reports
    <2>8. CASE WriteFailure(g) BY <2>1, <2>8 DEF WriteFailure, Reports
    <2> QED
      BY <1>2, <2>2, <2>3, <2>4, <2>5, <2>6, <2>7, <2>8
         DEF ExecutorRaises, Replay, UnlockedSave, DriverRefused, disk
  <1> QED BY <1>1, <1>2

\* Every other quiet step, a failed start excepted, writes no report at all.
LEMMA OwningQuiet ==
    ASSUME Typed, Owning,
           \/ Environment \/ (Fault /\ ~StartFails) \/ Rebuild \/ Save \/ TerminalRefused
           \/ PublishPolicyRefused \/ CheckpointRefused \/ UNCHANGED vars
           \/ RecoverRefused \/ RecoverArtifact \/ RecoverSave \/ RecoverFailed
           \/ \E g \in Gens : \/ ExecutorLogs(g) \/ WriteResult(g) \/ CollectUsage(g)
                              \/ TelemetryFails(g) \/ ExecutorRaises(g) \/ WriteFailureLogs(g)
                              \/ WriteFailure(g) \/ Replay(g) \/ UnlockedSave(g)
                              \/ DriverRefused(g)
    PROVE  Owning'
  <1>1. Quiet BY QuietSteps
  <1>2. CASE UNCHANGED art BY <1>1, <1>2, OwningKept
  <1>3. CASE art' # art
    <2>1. \A h \in Gens : art'[h].policy = art[h].policy /\ art'[h].owner = art[h].owner
      BY <1>3, ReportSteps
         DEF Environment, DropPrompt, EditRepository, CommitRepository, Fault, SaveFails,
             IntentFails, Crash, KillDriver, Rebuild, Save, TerminalRefused,
             PublishPolicyRefused, CheckpointRefused, RecoverRefused, RecoverSave,
             RecoverFailed, disk, vars
    <2> QED BY <1>1, <2>1, OwningKept
  <1> QED BY <1>2, <1>3

\* execute withdraws the policy of a run that was not started: its generation owns nothing.
LEMMA OwningStartFails ==
    ASSUME Typed, Flight, Owning, StartFails
    PROVE  Owning'
  <1>1. /\ op.gen \notin owned /\ outstanding = {} /\ UNCHANGED journalVars /\ op' = Idle
        /\ art' = [art EXCEPT ![op.gen].policy = FALSE]
    BY DEF StartFails, Owning, Flight, Carrying, Release
  <1>2. \A g \in Gens : g # op.gen => art'[g] = art[g]
    BY <1>1 DEF Typed, TypeOK, DiskTypeOK
  <1> QED
    BY <1>1, <1>2 DEF Owning, RunsHaveOwner, journalVars, records, Idle, TxPCs, Typed, TypeOK,
                      JournalTypeOK

LEMMA OwningCommand ==
    ASSUME Typed, Owning, NEW g \in Gens,
           \/ \E by \in {"operator", "driver"} : CompleteBegin(g, by) \/ InterruptBegin(g, by)
           \/ CancelBegin(g) \/ CheckpointBegin(g) \/ \E b \in BOOLEAN : StartBegin(g, b)
    PROVE  Owning'
  <1>1. UNCHANGED art
    BY DEF CompleteBegin, InterruptBegin, CancelBegin, CheckpointBegin, StartBegin, disk
  <1>2. /\ UNCHANGED journalVars
        /\ \/ op'.pc = "prepare" /\ ~op'.tx.owned /\ op'.kind # "start"
           \/ op'.pc = "prepare" /\ ~op'.tx.owned /\ op'.next = "save"
                /\ op'.gen = op'.tx.gen /\ status[op'.gen] = "ACCEPTED"
           \/ op'.pc = "policy" /\ op'.kind = "start" /\ op'.next = "save" /\ op'.gen = op'.tx.gen /\ status[op'.gen] = "ACCEPTED"
           \/ op'.pc = "intent" /\ op'.kind # "start"
    BY BeginSteps
  <1> QED BY <1>1, <1>2 DEF Owning, RunsHaveOwner, journalVars, records, TxPCs

LEMMA OwningTerminal ==
    ASSUME Typed, Flight, Owning, Terminal
    PROVE  Owning'
  <1>1. /\ outstanding' = {} /\ ValidTx(op.tx) /\ op.tx \in outstanding
        /\ op'.pc \in {"idle", "save", "ingest", "finish", "resolve"}
        /\ op'.pc = op.next /\ op'.next = op.next /\ op'.kind = op.kind
        /\ op.tx.event \notin {"PROMPT_ACCEPTED", "PROMPT_REJECTED"} => op.tx.gen \in Gens
    BY AfterTerminal
  <1>2. UNCHANGED art BY DEF Terminal, disk
  <1>3. \A g \in owned : status'[g] \notin {"NONE", "ACCEPTED"}
    <2> SUFFICES ASSUME NEW g \in owned PROVE status'[g] \notin {"NONE", "ACCEPTED"}
      OBVIOUS
    <2>1. g \in Known /\ status[g] \notin {"NONE", "ACCEPTED"}
      BY DEF Owning, Known, Typed, TypeOK, JournalTypeOK
    <2>2. op.tx.event = "PROMPT_ACCEPTED" => op.tx.gen # g
      BY <2>1 DEF Terminal, LogTerminal, Admissible, IsNext, Typed, TypeOK, JournalTypeOK,
                  Known, Gens
    <2>3. op.tx.event \in Transitions BY <1>1 DEF ValidTx, Txs
    <2> QED
      BY <2>1, <2>2, <2>3
         DEF Terminal, LogTerminal, Outcome, Transitions, Known, Typed, TypeOK, JournalTypeOK
  <1>4. CASE owned' = owned
    BY <1>1, <1>2, <1>3, <1>4 DEF Owning, RunsHaveOwner, TxPCs
  <1>5. CASE owned' # owned
    <2>1. op.tx.event = "RUN_STARTED" /\ op.tx.owned /\ owned' = owned \cup {op.tx.gen}
      BY <1>5 DEF Terminal, LogTerminal
    <2>2. status'[op.tx.gen] = "RUNNING"
      BY <1>1, <2>1 DEF Terminal, LogTerminal, Outcome, Typed, TypeOK, JournalTypeOK
    <2>3. art[op.tx.gen].policy /\ art[op.tx.gen].owner
      BY <1>1, <2>1 DEF Terminal, Owning
    <2> QED BY <1>1, <1>2, <1>3, <2>1, <2>2, <2>3 DEF Owning, RunsHaveOwner, TxPCs
  <1> QED BY <1>4, <1>5

\* What is left to show of a step that writes no record and takes no policy or owner away.
LEMMA OwningMoved ==
    ASSUME Typed, Owning, owned' = owned, status' = status,
           \A g \in Gens : /\ art[g].policy => art'[g].policy
                           /\ art[g].owner => art'[g].owner,
           \A t \in outstanding' : t.owned => art'[t.gen].policy,
           op'.pc \in TxPCs /\ op'.tx.owned => art'[op'.tx.gen].policy,
           op'.pc \in {"rename", "terminal"} /\ op'.tx.owned => art'[op'.tx.gen].owner,
           op'.kind = "start" =>
               /\ op'.next = "save" /\ op'.pc \in TxPCs \cup {"policy", "save"}
               /\ op'.pc \in {"policy", "prepare"} =>
                     op'.gen = op'.tx.gen /\ status[op'.gen] = "ACCEPTED",
           op'.pc = "policy" => op'.kind = "start",
           op'.pc = "archive" => ~op'.tx.owned
    PROVE  Owning'
  BY DEF Owning, RunsHaveOwner, Typed, TypeOK, JournalTypeOK

\* An owned transaction starts a generation that exists.
LEMMA OwnedGens ==
    ASSUME Typed
    PROVE  /\ \A t \in outstanding : t.owned => t.gen \in Gens
           /\ op.pc \in TxPCs \cup {"archive", "policy"} /\ op.tx.owned => op.tx.gen \in Gens
  BY DEF Typed, LocalsOK, ValidTx, Known

LEMMA OwningPublish ==
    ASSUME Typed, Owning, Archive \/ PublishPolicy \/ PublishOwner
    PROVE  Owning'
  <1> USE DEF Typed, TypeOK
  <1>1. CASE Archive
    <2>1. /\ op'.pc = "prepare" /\ op'.tx = op.tx /\ op'.kind = op.kind /\ UNCHANGED art
          /\ ~op.tx.owned /\ op.kind # "start" /\ UNCHANGED journalVars
      BY <1>1, GotoType DEF Archive, PCs, TxPCs, Owning
    <2> QED BY <2>1, OwningMoved DEF Owning, TxPCs, journalVars, records
  <1>2. CASE PublishPolicy
    <2>1. /\ op'.pc = "prepare" /\ op'.tx = op.tx /\ op'.kind = op.kind /\ op'.next = op.next
          /\ op'.gen = op.gen /\ UNCHANGED journalVars
          /\ op.kind = "start" => op.gen = op.tx.gen /\ status[op.gen] = "ACCEPTED"
      BY <1>2, GotoType DEF PublishPolicy, PCs, TxPCs, Owning
    <2>2. \A g \in Gens : /\ art[g].policy => art'[g].policy
                          /\ art[g].owner => art'[g].owner
      BY <1>2 DEF PublishPolicy, DiskTypeOK, Reports
    <2>3. op.tx.owned => art'[op.tx.gen].policy
      BY <1>2, OwnedGens DEF PublishPolicy, DiskTypeOK, Reports, Owning, TxPCs
    <2> QED BY <1>2, <2>1, <2>2, <2>3, OwnedGens, OwningMoved
            DEF Owning, TxPCs, journalVars, records, PublishPolicy
  <1>3. CASE PublishOwner
    <2>1. /\ op'.pc \in {"rename", "terminal"} /\ op'.tx = op.tx /\ op'.kind = op.kind
          /\ op'.next = op.next /\ UNCHANGED journalVars
      BY <1>3, GotoType DEF PublishOwner, PCs, TxPCs
    <2>2. \A g \in Gens : /\ art[g].policy => art'[g].policy
                          /\ art[g].owner => art'[g].owner
      BY <1>3 DEF PublishOwner, DiskTypeOK, Reports
    <2>3. op.tx.owned => art[op.tx.gen].policy /\ art'[op.tx.gen].owner
      BY <1>3, OwnedGens DEF PublishOwner, DiskTypeOK, Reports, Owning, TxPCs
    <2> QED BY <1>3, <2>1, <2>2, <2>3, OwnedGens, OwningMoved
            DEF Owning, TxPCs, journalVars, records, PublishOwner
  <1> QED BY <1>1, <1>2, <1>3
LEMMA OwningOther ==
    ASSUME Typed, Flight, Owning,
           \/ InitBegin \/ AdoptBegin \/ InitAppend \/ AdoptAppend
           \/ IngestBegin \/ Receive \/ Process \/ Prepare \/ Rename
           \/ CheckpointIntent \/ CheckpointAdvance \/ CheckpointVerify \/ CheckpointFinish
           \/ RecoverBegin \/ RecoverTransaction \/ RecoverRollback \/ RecoverAbort
           \/ RecoverForward
    PROVE  Owning'
  <1>1. owned' = owned /\ status' = status /\ art' = art
    BY DEF InitBegin, AdoptBegin, InitAppend, AdoptAppend, IngestBegin, Receive, Process,
           Prepare, Rename, CheckpointIntent, CheckpointAdvance, CheckpointVerify,
           CheckpointFinish, RecoverBegin, RecoverTransaction, RecoverRollback, RecoverAbort,
           RecoverForward, LogInitialized, LogAdopted, LogReceived, LogPrepared, LogIntent,
           LogAborted, journalVars, records, disk
  <1>2. CASE Prepare
    <2>1. /\ op'.pc = (IF op.tx.owned THEN "owner" ELSE "rename") /\ op'.tx = op.tx
          /\ op'.kind = op.kind /\ op'.next = op.next
      BY <1>2, GotoType DEF Prepare, Typed, PCs, TxPCs
    <2>2. outstanding' = outstanding \cup {op.tx} BY <1>2 DEF Prepare, LogPrepared
    <2>3. op.pc \in TxPCs BY <1>2 DEF Prepare, TxPCs
    <2> QED BY <1>1, <2>1, <2>2, <2>3, OwningMoved DEF Owning, TxPCs
  <1>3. CASE Rename
    <2>1. /\ op'.pc = "terminal" /\ op'.tx = op.tx /\ op'.kind = op.kind /\ op'.next = op.next
          /\ UNCHANGED journalVars
      BY <1>3, GotoType DEF Rename, Typed, PCs, TxPCs
    <2> QED BY <1>1, <1>3, <2>1, OwningMoved DEF Owning, Rename, TxPCs, journalVars
  <1>4. CASE \/ InitBegin \/ AdoptBegin \/ IngestBegin \/ RecoverBegin
             \/ InitAppend \/ AdoptAppend \/ RecoverAbort
             \/ CheckpointIntent \/ CheckpointAdvance \/ CheckpointVerify
    <2>1. /\ op'.pc \in {"append", "save", "ingest", "resolve", "advance", "verify", "finish"}
          /\ op'.kind # "start"
      BY <1>4, GotoType
         DEF InitBegin, AdoptBegin, InitAppend, AdoptAppend, IngestBegin, RecoverBegin,
             RecoverAbort, CheckpointIntent, CheckpointAdvance, CheckpointVerify, Owning, Typed,
             PCs, TxPCs, Hold, Idle
    <2>2. outstanding' = outstanding
      BY <1>4 DEF InitBegin, AdoptBegin, InitAppend, AdoptAppend, IngestBegin, RecoverBegin,
                  RecoverAbort, CheckpointIntent, CheckpointAdvance, CheckpointVerify,
                  LogInitialized, LogAdopted, LogAborted, LogIntent, journalVars
    <2> QED BY <1>1, <2>1, <2>2, OwningMoved DEF Owning, TxPCs
  <1>5. CASE Receive \/ Process
    <2>1. outstanding' = outstanding /\ op.pc = "ingest" /\ op.kind # "start"
      BY <1>5 DEF Receive, Process, LogReceived, journalVars, Owning, TxPCs
    <2>2. UNCHANGED op \/ (op'.pc \in {"prepare", "archive"} /\ op'.kind = op.kind /\ ~op'.tx.owned)
      BY <1>5, IngestMoves
    <2> QED BY <1>1, <2>1, <2>2, OwningMoved DEF Owning, TxPCs
  <1>6. CASE CheckpointFinish
    <2>1. /\ op'.pc = "prepare" /\ op'.kind = op.kind /\ ~op'.tx.owned
          /\ op.kind # "start" /\ outstanding' = outstanding
      BY <1>6, MoveFields DEF CheckpointFinish, MoveTx, Tx, Owning, TxPCs, journalVars
    <2> QED BY <1>1, <2>1, OwningMoved DEF Owning, TxPCs
  <1>7. CASE RecoverTransaction
    <2>1. PICK t \in outstanding :
             Move(t, IF t.owned THEN "owner"
                     ELSE IF t.src \in spool THEN "rename" ELSE "terminal", "resolve")
      BY <1>7 DEF RecoverTransaction
    <2>2. /\ op'.tx = t /\ op'.kind = op.kind /\ op'.pc \in {"owner", "rename", "terminal"}
          /\ t.owned => op'.pc = "owner"
      BY <2>1, MoveFields
    <2>3. op.kind # "start" /\ outstanding' = outstanding
      BY <1>7 DEF RecoverTransaction, Resolving, Owning, TxPCs, journalVars
    <2> QED BY <1>1, <2>2, <2>3, OwningMoved DEF Owning, TxPCs
  <1>8. CASE RecoverRollback
    <2>1. /\ op'.pc \in {"abort", "idle"} /\ op'.kind # "start" /\ UNCHANGED journalVars
      BY <1>8, RollbackMoves DEF RecoverRollback, Resolving, Owning, TxPCs
    <2> QED BY <1>1, <2>1, OwningMoved DEF Owning, TxPCs, journalVars
  <1>9. CASE RecoverForward
    <2>1. PICK i \in intents : op' = [op EXCEPT !.pc = "finish", !.gen = i.gen, !.wit = repo]
      BY <1>9 DEF RecoverForward
    <2>2. op'.pc = "finish" /\ op'.kind = op.kind
      BY <2>1 DEF Typed, TypeOK, ProcessTypeOK, Ops
    <2>3. op.kind # "start" /\ outstanding' = outstanding
      BY <1>9 DEF RecoverForward, Resolving, Owning, TxPCs, journalVars
    <2> QED BY <1>1, <2>2, <2>3, OwningMoved DEF Owning, TxPCs
  <1> QED BY <1>2, <1>3, <1>4, <1>5, <1>6, <1>7, <1>8, <1>9

LEMMA OwningNext == Typed /\ Flight /\ Owning /\ [Next]_vars => Owning'
  <1> SUFFICES ASSUME Typed, Flight, Owning, [Next]_vars PROVE Owning'
    OBVIOUS
  <1>1. CASE StartFails BY <1>1, OwningStartFails
  <1>2. CASE Command
    BY <1>2, OwningQuiet, OwningCommand, OwningOther DEF Command
  <1>3. CASE Locked
    BY <1>3, OwningQuiet, OwningTerminal, OwningPublish, OwningOther DEF Locked
  <1>4. ASSUME NEW g \in Gens, Executing(g) PROVE Owning'
    BY <1>4, OwningQuiet, OwningCommand DEF Executing
  <1> QED BY <1>1, <1>2, <1>3, <1>4, OwningQuiet DEF Next

LEMMA AlwaysOwning == Spec => []Owning
  BY OwningInit, OwningNext, AlwaysTyped, AlwaysFlight, PTL DEF Spec

\* RUN_STARTED of an owned run is journaled only when its policy archive and its owner metadata
\* are durable: execute writes both first, a failed start withdraws a policy nothing refers to,
\* and recover publishes the owner again before it repeats the terminal event.
THEOREM RunsHaveOwnerCorrect == Spec => []RunsHaveOwner
  <1>1. Owning => RunsHaveOwner BY DEF Owning
  <1> QED BY <1>1, AlwaysOwning, PTL
=============================================================================
