----------------------- MODULE AtlasRecoveryProofs -----------------------
(***************************************************************************)
(* What recovery rests on, for every set of prompts and every bound: a     *)
(* transaction or checkpoint that a dead process left behind still fits    *)
(* the projection it was prepared on.  From it: replay accepts what was    *)
(* prepared, checkpoints are atomic, no prompt is lost, the workflow       *)
(* implements AtlasLifecycle, and every command ends.                      *)
(***************************************************************************)
EXTENDS AtlasWorkflowProofs, FiniteSetTheorems, WellFoundedInduction

-----------------------------------------------------------------------------
(* The invariants.                                                         *)

\* The repository holds exactly what HEAD holds.
Clean(w) == w.index = 0 /\ w.work = 0

\* The checkpoint of g that moved HEAD to the head of w still has its intent.
Attested(g, w) ==
    /\ Clean(w)
    /\ <<w.head, g>> \in landed
    /\ \E i \in intents : i.gen = g /\ i.commit = w.head

\* A transaction that may yet be finished fits the projection it was prepared on.
Prepared(t) ==
    /\ t.event = "PROMPT_REJECTED" => t.src[1] = "inbox" /\ t.dst[1] = "rejected"
    /\ t.event = "PROMPT_ACCEPTED" =>
          /\ t.src[1] = "inbox" /\ t.dst = <<"accepted", "canonical", t.prompt>>
          /\ IsNext(t.gen) /\ t.prompt.gen = t.gen /\ t.prompt.parent = t.gen - 1
          /\ t.wit = boundary /\ t.prompt.head = boundary.head
    /\ t.event \notin {"PROMPT_REJECTED", "PROMPT_ACCEPTED"} =>
          /\ t.prompt = prompt[t.gen] /\ t.src = Home(t.gen)
          /\ t.dst = <<Dir[Outcome[t.event]], "canonical", t.prompt>>
          /\ status[t.gen] = IF t.event \in {"PROMPT_CANCELLED", "RUN_STARTED"}
                             THEN "ACCEPTED" ELSE "RUNNING"
    /\ t.event = "RUN_STARTED" => t.wit = wit[t.gen]
    /\ t.event = "RUN_COMPLETED" =>
          IF t.prompt.action = "checkpoint" THEN intents = {} \/ Attested(t.gen, t.wit)
          ELSE PolicyAllows(t.wit, t.gen)

\* The transaction the lock holder will prepare, or carries.
InHand == IF op.pc \in TxPCs \cup {"archive", "policy"} THEN {op.tx} ELSE {}
Pending == outstanding \cup InHand

Ingesting ==
    op.pc = "ingest" \/ (op.pc \in TxPCs \cup {"archive", "policy"} /\ op.next = "ingest")

Transacting ==
    /\ \A g \in Known : prompt[g].gen = g
    /\ journal = <<>> => Known = {} /\ boundary = NoWitness
    /\ \A t \in Pending : Prepared(t)
    /\ Ingesting => batch.boundary = boundary
    /\ Ingesting /\ op.pc # "ingest" => op.tx.event \in {"PROMPT_ACCEPTED", "PROMPT_REJECTED"}
    /\ op.pc = "append" /\ op.kind = "adopt" => Clean(op.wit) /\ op.wit # boundary

\* An intent belongs to the generation it was written for, and tells whether HEAD has moved.
Attributed(i) ==
    /\ i.gen \in Known /\ prompt[i.gen].action = "checkpoint"
    /\ i.parent = wit[i.gen].head /\ i.parent < i.commit /\ i.commit <= used.commits
    /\ repo.head = i.commit => <<i.commit, i.gen>> \in landed

Checkpointing == op.pc \in {"intent", "advance", "verify", "finish"}

\* Commit numbers only grow, so that HEAD, once on its parent again, has not left it.
Landed ==
    /\ CheckpointAtomic
    /\ repo.head <= used.commits
    /\ \A x \in landed : x[1] <= repo.head
    /\ \A i \in intents : Attributed(i)

\* How far the lock holder has taken a checkpoint.
Placing ==
    /\ Checkpointing \/ (op.pc \in TxPCs /\ op.next = "finish") =>
          prompt[op.gen].action = "checkpoint" /\ Clean(op.wit)
    /\ Checkpointing =>
          status[op.gen] = "ACCEPTED" \/ (op.pc = "finish" /\ status[op.gen] = "RUNNING")
    /\ op.pc = "intent" => /\ wit[op.gen].head < op.wit.head /\ op.wit.head <= used.commits
                           /\ repo.head # op.wit.head
    /\ op.pc = "advance" => \E i \in intents : i.gen = op.gen /\ i.commit = op.wit.head
    /\ op.pc \in {"verify", "finish"} \/ (op.pc \in TxPCs /\ op.next = "finish") =>
          Attested(op.gen, op.wit)
    /\ op.pc = "abort" => \A x \in landed, i \in intents : x[2] # i.gen

-----------------------------------------------------------------------------
(* Steps that leave the projection alone.                                  *)

\* The projection of generations, boundary and intents, and what has landed, stay as they are.
Still == UNCHANGED <<records, boundary, intents, landed>>

\* HEAD stays, or moves to a commit that is new.
HeadMoves ==
    \/ repo'.head = repo.head /\ used.commits <= used'.commits
    \/ repo'.head = used'.commits /\ used.commits < used'.commits

LEMMA Numbers ==
    ASSUME Typed
    PROVE  /\ repo.head \in Nat /\ used.commits \in Nat /\ op.wit.head \in Nat
           /\ \A x \in landed : x \in Nat \X Gens
           /\ \A g \in Gens : wit[g].head \in Nat
           /\ \A i \in intents : i.gen \in Gens /\ i.parent \in Nat /\ i.commit \in Nat
  BY DEF Typed, TypeOK, ProcessTypeOK, JournalTypeOK, Witnesses, Ops, Intents

LEMMA PreparedKept ==
    ASSUME Still, NEW t, Prepared(t)
    PROVE  Prepared(t)'
  BY DEF Still, records, Prepared, Attested, Home, PolicyAllows, IsNext, Known

LEMMA TransactingStill ==
    ASSUME Typed, Transacting, Still, journal' = <<>> => journal = <<>>,
           \A t \in Pending' : t \in Pending \/ Prepared(t),
           Ingesting' => batch'.boundary = boundary,
           Ingesting' /\ op'.pc # "ingest" =>
               op'.tx.event \in {"PROMPT_ACCEPTED", "PROMPT_REJECTED"},
           op'.pc = "append" /\ op'.kind = "adopt" => Clean(op'.wit) /\ op'.wit # boundary
    PROVE  Transacting'
  <1>1. \A t \in Pending' : Prepared(t)' BY PreparedKept DEF Transacting
  <1>2. boundary' = boundary /\ Known' = Known /\ prompt' = prompt BY DEF Still, records, Known
  <1>3. Clean(op'.wit) => Clean(op.wit)' BY DEF Clean
  <1> QED BY <1>1, <1>2, <1>3 DEF Transacting

LEMMA LandedStill ==
    ASSUME Typed, Landed, Still, HeadMoves, used'.commits \in Nat
    PROVE  Landed'
  <1> USE Numbers DEF Still, records, HeadMoves
  <1>1. CheckpointAtomic' BY DEF Landed, CheckpointAtomic
  <1>2. repo'.head <= used'.commits /\ \A x \in landed' : x[1] <= repo'.head
    BY DEF Landed
  <1>3. ASSUME NEW i \in intents PROVE Attributed(i)'
    BY DEF Landed, Attributed, Known
  <1> QED BY <1>1, <1>2, <1>3 DEF Landed

\* What the quiet steps do besides leaving the journal alone.
LEMMA QuietFrame ==
    ASSUME Typed,
           \/ Environment \/ Fault \/ Rebuild \/ Save \/ TerminalRefused
           \/ PublishPolicyRefused \/ CheckpointRefused \/ UNCHANGED vars
           \/ RecoverRefused \/ RecoverArtifact \/ RecoverSave \/ RecoverFailed
           \/ \E g \in Gens : \/ ExecutorLogs(g) \/ WriteResult(g) \/ CollectUsage(g)
                              \/ TelemetryFails(g) \/ ExecutorRaises(g) \/ WriteFailureLogs(g)
                              \/ WriteFailure(g) \/ Replay(g) \/ UnlockedSave(g)
                              \/ DriverRefused(g)
    PROVE  /\ Still /\ UNCHANGED <<journal, outstanding>> /\ HeadMoves /\ used'.commits \in Nat
           /\ op' = Idle \/ UNCHANGED <<op, batch>>
  <1> USE DEF HeadMoves
  <1>0. /\ used \in [commits : Nat, drops : Nat, faults : Nat] /\ used.commits \in Nat
        /\ repo \in Witnesses /\ repo.head \in Nat
    BY DEF Typed, TypeOK, Witnesses
  <1>1. Quiet BY QuietSteps
  <1>2. Still /\ UNCHANGED <<journal, outstanding>>
    BY <1>1 DEF Quiet, journalVars, Still, Environment, DropPrompt, EditRepository,
         CommitRepository, Fault, SaveFails, StartFails, IntentFails, Crash, KillDriver, Rebuild,
         Save, TerminalRefused, PublishPolicyRefused, CheckpointRefused, RecoverRefused,
         RecoverArtifact, RecoverSave, RecoverFailed, ExecutorLogs, WriteResult, CollectUsage,
         TelemetryFails, ExecutorRaises, WriteFailureLogs, WriteFailure, Replay, UnlockedSave,
         DriverRefused, DriverQuiet, work, vars
  <1>3. op' = Idle \/ UNCHANGED <<op, batch>>
    BY <1>1 DEF Quiet, Environment, DropPrompt, EditRepository,
         CommitRepository, Fault, SaveFails, StartFails, IntentFails, Crash, KillDriver, Rebuild,
         Save, TerminalRefused, PublishPolicyRefused, CheckpointRefused, RecoverRefused,
         RecoverArtifact, RecoverSave, RecoverFailed, Release, ExecutorLogs, WriteResult,
         CollectUsage, TelemetryFails, ExecutorRaises, WriteFailureLogs, WriteFailure, Replay,
         UnlockedSave, DriverRefused, DriverQuiet, process, vars
  <1> SUFFICES HeadMoves /\ used'.commits \in Nat BY <1>2, <1>3
  <1>4. CASE Environment
    <2>1. CASE CommitRepository
      <3>1. repo'.head = used'.commits /\ used'.commits = used.commits + 1
        BY <1>0, <2>1 DEF CommitRepository, Count
      <3> QED BY <1>0, <3>1
    <2>2. CASE EditRepository
      BY <1>0, <2>2 DEF EditRepository, Witnesses
    <2>3. CASE \E n \in Names, p \in Prompts : DropPrompt(n, p)
      BY <1>0, <2>3 DEF DropPrompt, Count, work
    <2> QED BY <1>4, <2>1, <2>2, <2>3 DEF Environment
  <1>5. CASE Fault
    <2>1. used'.commits = used.commits
      BY <1>0, <1>5 DEF Fault, SaveFails, StartFails, IntentFails, Crash, KillDriver, Count
    <2>2. repo'.head = repo.head
      BY <1>0, <1>5 DEF Fault, SaveFails, StartFails, IntentFails, Crash, KillDriver, work, Witnesses
    <2> QED BY <1>0, <2>1, <2>2
  <1>6. CASE ~Environment /\ ~Fault
    <2>1. UNCHANGED <<repo, used>>
      BY <1>6 DEF Rebuild, Save, TerminalRefused, PublishPolicyRefused, CheckpointRefused,
         RecoverRefused, RecoverArtifact, RecoverSave, RecoverFailed, ExecutorLogs, WriteResult,
         CollectUsage, TelemetryFails, ExecutorRaises, WriteFailureLogs, WriteFailure, Replay,
         UnlockedSave, DriverRefused, DriverQuiet, work, vars
    <2> QED BY <1>0, <2>1
  <1> QED BY <1>4, <1>5, <1>6

Recorded == Transacting /\ Landed /\ Placing

\* What a lock holder that is idle, or still about the same, owes.
LEMMA PlacingStill ==
    ASSUME Typed, Recorded, Still, HeadMoves, used'.commits \in Nat, op' = Idle \/ UNCHANGED op
    PROVE  Placing'
  <1>1. CASE op' = Idle BY <1>1 DEF Placing, Checkpointing, Idle, TxPCs
  <1>2. CASE UNCHANGED op
    <2>1. op.pc = "intent" => op'.wit.head <= used'.commits /\ repo'.head # op'.wit.head
      <3> DEFINE m == op.wit.head  n == used.commits  n2 == used'.commits  h == repo.head  h2 == repo'.head
      <3>1. m \in Nat /\ n \in Nat /\ n2 \in Nat /\ h \in Nat BY Numbers
      <3>2. (h2 = h /\ n <= n2) \/ (h2 = n2 /\ n < n2) BY DEF HeadMoves
      <3>3. op.pc = "intent" => m <= n /\ h # m BY DEF Recorded, Placing
      <3>4. op'.wit.head = m BY <1>2
      <3> HIDE DEF m, n, n2, h, h2
      <3>5. op.pc = "intent" => m <= n2 /\ h2 # m BY <3>1, <3>2, <3>3
      <3> QED BY <3>4, <3>5 DEF m, n2, h2
    <2>2. \A g, w : Attested(g, w) => Attested(g, w)'
      BY DEF Attested, Still
    <2>3. UNCHANGED <<prompt, status, wit, landed, intents>> BY DEF Still, records
    <2>4. Clean(op.wit)' <=> Clean(op.wit) BY <1>2 DEF Clean
    <2>5. Attested(op.gen, op.wit) => Attested(op.gen, op.wit)' BY <1>2, <2>3 DEF Attested, Clean
    <2> QED BY <1>2, <2>1, <2>3, <2>4, <2>5 DEF Recorded, Placing, Checkpointing
  <1> QED BY <1>1, <1>2

LEMMA RecordedQuiet ==
    ASSUME Typed, Recorded,
           \/ Environment \/ Fault \/ Rebuild \/ Save \/ TerminalRefused
           \/ PublishPolicyRefused \/ CheckpointRefused \/ UNCHANGED vars
           \/ RecoverRefused \/ RecoverArtifact \/ RecoverSave \/ RecoverFailed
           \/ \E g \in Gens : \/ ExecutorLogs(g) \/ WriteResult(g) \/ CollectUsage(g)
                              \/ TelemetryFails(g) \/ ExecutorRaises(g) \/ WriteFailureLogs(g)
                              \/ WriteFailure(g) \/ Replay(g) \/ UnlockedSave(g)
                              \/ DriverRefused(g)
    PROVE  Recorded'
  <1> DEFINE Same == op' = Idle \/ UNCHANGED <<op, batch>>
  <1>1. Still /\ UNCHANGED <<journal, outstanding>> /\ HeadMoves /\ used'.commits \in Nat /\ Same
    BY QuietFrame
  <1>2. Landed' BY <1>1, LandedStill DEF Recorded
  <1>3. Placing' BY <1>1, PlacingStill
  <1>4. Pending' \subseteq Pending
    BY <1>1 DEF Pending, InHand, Idle, TxPCs
  <1>5. /\ Ingesting' => Ingesting /\ UNCHANGED <<op, batch>>
        /\ op'.pc = "append" => UNCHANGED op
    BY <1>1 DEF Ingesting, Idle, TxPCs
  <1>6. Transacting'
    BY <1>1, <1>4, <1>5, TransactingStill DEF Recorded, Transacting
  <1> QED BY <1>2, <1>3, <1>6 DEF Recorded

-----------------------------------------------------------------------------
(* Commands begin.                                                         *)

LEMMA MovePrepared ==
    ASSUME Typed, NEW g \in Known, NEW w, NEW ownedRun, NEW files,
           NEW event \in {"PROMPT_CANCELLED", "RUN_STARTED", "RUN_COMPLETED", "RUN_INTERRUPTED"},
           status[g] = IF event \in {"PROMPT_CANCELLED", "RUN_STARTED"} THEN "ACCEPTED" ELSE "RUNNING",
           event = "RUN_STARTED" => w = wit[g],
           event = "RUN_COMPLETED" =>
               IF prompt[g].action = "checkpoint" THEN intents = {} \/ Attested(g, w)
               ELSE PolicyAllows(w, g)
    PROVE  Prepared(MoveTx(event, g, Dir[Outcome[event]], w, ownedRun, files))
  BY DEF Prepared, MoveTx, Tx

\* What complete_run prepares is a move, whatever it was told.
LEMMA EndPrepared ==
    ASSUME NEW event, NEW g, NEW to, NEW w, NEW c, Prepared(MoveTx(event, g, to, w, FALSE, {}))
    PROVE  Prepared(EndTx(event, g, to, w, c))
  BY DEF Prepared, EndTx, MoveTx, Tx

\* A lock holder that goes on with a prepared transaction, and will save or resolve after it.
LEMMA RecordedMove ==
    ASSUME Typed, Recorded, Still, UNCHANGED <<outstanding, repo, used>>,
           journal' = <<>> => journal = <<>>,
           Prepared(op'.tx), op'.pc \in TxPCs \cup {"archive", "policy"},
           op'.next \in {"save", "resolve"}
    PROVE  Recorded'
  <1>1. HeadMoves /\ used'.commits \in Nat BY Numbers DEF HeadMoves
  <1>2. Landed' BY <1>1, LandedStill DEF Recorded
  <1>3. Placing' BY DEF Placing, Checkpointing, TxPCs
  <1>4. \A t \in Pending' : t \in Pending \/ Prepared(t)
    BY DEF Pending, InHand
  <1>5. ~Ingesting' /\ op'.pc # "append" BY DEF Ingesting, TxPCs
  <1>6. Transacting' BY <1>4, <1>5, TransactingStill DEF Recorded
  <1> QED BY <1>2, <1>3, <1>6 DEF Recorded

LEMMA BeginPrepared ==
    ASSUME Typed, NEW g \in Gens,
           \/ \E by \in {"operator", "driver"} : CompleteBegin(g, by) \/ InterruptBegin(g, by)
           \/ CancelBegin(g) \/ \E b \in BOOLEAN : StartBegin(g, b)
    PROVE  /\ Prepared(op'.tx) /\ op'.pc \in TxPCs \cup {"archive", "policy"} /\ op'.next = "save"
           /\ Still /\ UNCHANGED <<journal, outstanding, repo, used>>
  <1> DEFINE Goal == Prepared(op'.tx) /\ op'.pc \in TxPCs \cup {"archive", "policy"} /\ op'.next = "save"
  <1>1. Still /\ UNCHANGED <<journal, outstanding, repo, used>>
    BY DEF CompleteBegin, InterruptBegin, CancelBegin, StartBegin, Still, journalVars, work
  <1>2. ASSUME NEW t, Prepared(t), NEW kind, NEW pc \in {"prepare", "policy"}, NEW by,
               BeginMove(kind, pc, by, t)
        PROVE  Goal
    BY <1>2 DEF BeginMove, TxPCs
  <1>3. Outcome["PROMPT_CANCELLED"] = "CANCELLED" /\ Outcome["RUN_STARTED"] = "RUNNING"
        /\ Outcome["RUN_COMPLETED"] = "COMPLETED" /\ Outcome["RUN_INTERRUPTED"] = "INTERRUPTED"
        /\ Dir["CANCELLED"] = "cancelled" /\ Dir["RUNNING"] = "running"
        /\ Dir["COMPLETED"] = "completed" /\ Dir["INTERRUPTED"] = "interrupted"
    BY DEF Outcome, Dir
  <1>4. CASE CancelBegin(g)
    <2>1. g \in Known /\ status[g] = "ACCEPTED" BY <1>4 DEF CancelBegin, Known
    <2>2. Prepared(MoveTx("PROMPT_CANCELLED", g, "cancelled", wit[g], FALSE, {}))
      BY <1>3, <2>1, MovePrepared
    <2> QED BY <1>1, <1>2, <1>4, <2>2 DEF CancelBegin
  <1>5. ASSUME NEW b \in BOOLEAN, StartBegin(g, b) PROVE Goal
    <2>1. g \in Known /\ status[g] = "ACCEPTED" BY <1>5 DEF StartBegin, Known
    <2>2. Prepared(MoveTx("RUN_STARTED", g, "running", wit[g], b, {}))
      BY <1>3, <2>1, MovePrepared
    <2> QED BY <1>2, <1>5, <2>2 DEF StartBegin
  <1>6. ASSUME NEW by \in {"operator", "driver"}, InterruptBegin(g, by) PROVE Goal
    <2>1. g \in Known /\ status[g] = "RUNNING" BY <1>6 DEF InterruptBegin, CanInterrupt, Known
    <2>2. Prepared(MoveTx("RUN_INTERRUPTED", g, "interrupted", wit[g], FALSE, MissingArtifacts(g)))
      BY <1>3, <2>1, MovePrepared
    <2> QED BY <1>2, <1>6, <2>2 DEF InterruptBegin
  <1>7. ASSUME NEW by \in {"operator", "driver"}, CompleteBegin(g, by) PROVE Goal
    <2>1. g \in Known /\ status[g] = "RUNNING" /\ intents = {}
      BY <1>7 DEF CompleteBegin, CanComplete, Known, Preflight, Settled
    <2>2. \A c : Prepared(EndTx("RUN_INTERRUPTED", g, "interrupted", wit[g], c))
      BY <1>3, <2>1, MovePrepared, EndPrepared
    <2>3. PolicyAllows(repo, g) => \A c : Prepared(EndTx("RUN_COMPLETED", g, "completed", repo, c))
      BY <1>3, <2>1, MovePrepared, EndPrepared
    <2>4. CASE PolicyAllows(repo, g)
      <3>1. PICK c \in {"executor"} \cup Results :
               BeginMove("complete", "prepare", by, EndTx("RUN_COMPLETED", g, "completed", repo, c))
        BY <1>7, <2>4 DEF CompleteBegin
      <3> QED BY <1>2, <1>7, <2>3, <2>4, <3>1 DEF CompleteBegin
    <2>5. CASE ~PolicyAllows(repo, g)
      BY <1>2, <1>7, <2>2, <2>5 DEF CompleteBegin
    <2> QED BY <2>4, <2>5
  <1> QED BY <1>1, <1>4, <1>5, <1>6, <1>7

\* checkpoint creates its commit object: a number HEAD has never had.
LEMMA RecordedCheckpointBegin ==
    ASSUME Typed, Recorded, NEW g \in Gens, CheckpointBegin(g)
    PROVE  Recorded'
  <1>0. /\ used \in [commits : Nat, drops : Nat, faults : Nat]
        /\ repo \in Witnesses
    BY DEF Typed, TypeOK
  <1>1. /\ Still /\ UNCHANGED <<journal, outstanding>> /\ outstanding = {}
        /\ status[g] = "ACCEPTED" /\ prompt[g].action = "checkpoint" /\ repo = wit[g]
    BY DEF CheckpointBegin, Still, journalVars, Preflight, Settled
  <1>2. repo'.head = repo.head /\ used'.commits = used.commits + 1 /\ used'.commits \in Nat
    BY <1>0 DEF CheckpointBegin, Count, Witnesses
  <1>3. /\ op'.pc = "intent" /\ op'.kind = "checkpoint" /\ op'.next = "idle" /\ op'.gen = g
        /\ op'.wit = [head |-> used'.commits, index |-> 0, work |-> 0]
    BY DEF CheckpointBegin, Hold, Idle
  <1>4. HeadMoves BY <1>2, Numbers DEF HeadMoves
  <1>5. Landed' BY <1>1, <1>2, <1>4, LandedStill DEF Recorded
  <1>6. Placing'
    <2>1. repo.head <= used.commits BY DEF Recorded, Landed
    <2>2. op'.wit.head = used.commits + 1 /\ Clean(op.wit)' BY <1>2, <1>3 DEF Clean
    <2>3. wit'[g].head = repo.head /\ wit'[g].head < op'.wit.head /\ repo'.head # op'.wit.head
      BY <1>1, <1>2, <2>1, <2>2, Numbers DEF Still, records
    <2>4. op'.wit.head <= used'.commits BY <1>2, <2>2
    <2> QED BY <1>1, <1>3, <2>2, <2>3, <2>4 DEF Placing, Checkpointing, TxPCs, Still, records
  <1>7. Transacting'
    <2>1. Pending' = {} BY <1>1, <1>3 DEF Pending, InHand, TxPCs
    <2>2. ~Ingesting' BY <1>3 DEF Ingesting, TxPCs
    <2> QED BY <1>1, <1>3, <2>1, <2>2, TransactingStill DEF Recorded
  <1> QED BY <1>5, <1>6, <1>7 DEF Recorded

\* init, adopt-boundary, ingest and recover take the lock.
LEMMA RecordedHold ==
    ASSUME Typed, Recorded, InitBegin \/ AdoptBegin \/ IngestBegin \/ RecoverBegin
    PROVE  Recorded'
  <1>0. Still /\ UNCHANGED <<journal, outstanding, repo, used>>
    BY DEF InitBegin, AdoptBegin, IngestBegin, RecoverBegin, Still, journalVars, work
  <1>1. /\ Still /\ UNCHANGED <<journal, outstanding, repo, used>>
        /\ op'.pc \in {"append", "ingest", "resolve"}
        /\ op'.pc = "ingest" => batch'.boundary = boundary
        /\ op'.pc = "append" /\ op'.kind = "adopt" => Clean(op'.wit) /\ op'.wit # boundary
    <2>1. CASE InitBegin BY <1>0, <2>1 DEF InitBegin, Hold, Idle
    <2>2. CASE AdoptBegin
      <3>1. op'.pc = "append" /\ op'.wit = repo BY <2>2 DEF AdoptBegin, Hold, Idle
      <3> QED BY <1>0, <2>2, <3>1 DEF AdoptBegin, Clean
    <2>3. CASE IngestBegin BY <1>0, <2>3 DEF IngestBegin, Idle
    <2>4. CASE RecoverBegin BY <1>0, <2>4 DEF RecoverBegin, Hold, Idle
    <2> QED BY <2>1, <2>2, <2>3, <2>4
  <1>2. Landed' BY <1>1, LandedStill, Numbers DEF Recorded, HeadMoves
  <1>3. Placing' BY <1>1 DEF Placing, Checkpointing, TxPCs
  <1>4. \A t \in Pending' : t \in Pending \/ Prepared(t) BY <1>1 DEF Pending, InHand, TxPCs
  <1>5. Ingesting' => op'.pc = "ingest" BY <1>1 DEF Ingesting, TxPCs
  <1>6. Transacting' BY <1>1, <1>4, <1>5, TransactingStill DEF Recorded
  <1> QED BY <1>2, <1>3, <1>6 DEF Recorded

-----------------------------------------------------------------------------
(* The lock holder goes on.                                                *)

\* It carries its transaction one step further, or prepares it.
LEMMA RecordedCarry ==
    ASSUME Typed, Flight, Recorded, Archive \/ PublishPolicy \/ Prepare \/ PublishOwner \/ Rename
    PROVE  Recorded'
  <1>1. Still /\ UNCHANGED <<repo, used, batch>> /\ (journal' = <<>> => journal = <<>>)
    BY DEF Archive, PublishPolicy, Prepare, PublishOwner, Rename, LogPrepared, Log, Goto, Still,
           journalVars, work, Typed, TypeOK, JournalTypeOK
  <1>2. PICK pc \in TxPCs : Goto(pc) /\ op.pc \in TxPCs \cup {"archive", "policy"}
    BY DEF Archive, PublishPolicy, Prepare, PublishOwner, Rename, TxPCs
  <1>3. /\ op'.pc = pc /\ op'.tx = op.tx /\ op'.gen = op.gen /\ op'.next = op.next
        /\ op'.kind = op.kind /\ op'.wit = op.wit
    BY <1>2, GotoType DEF PCs, TxPCs, Typed
  <1>4. outstanding' \subseteq outstanding \cup {op.tx}
    BY DEF Archive, PublishPolicy, Prepare, PublishOwner, Rename, LogPrepared, journalVars
  <1>5. Pending' \subseteq Pending
    BY <1>2, <1>3, <1>4 DEF Pending, InHand
  <1>6. Ingesting' => Ingesting /\ op.pc # "ingest"
    BY <1>2, <1>3 DEF Ingesting, TxPCs
  <1>7. Transacting'
    <2>1. Ingesting' => /\ batch'.boundary = boundary
                        /\ op'.tx.event \in {"PROMPT_ACCEPTED", "PROMPT_REJECTED"}
      BY <1>1, <1>3, <1>6 DEF Recorded, Transacting
    <2>2. op'.pc # "append" BY <1>3 DEF TxPCs
    <2> QED BY <1>1, <1>5, <2>1, <2>2, TransactingStill DEF Recorded
  <1>8. Landed' BY <1>1, LandedStill, Numbers DEF Recorded, HeadMoves
  <1>9. Placing'
    <2>1. op'.next = "finish" => op.pc \in TxPCs /\ op.next = "finish"
      BY <1>2, <1>3 DEF Flight
    <2>2. op'.next = "finish" =>
             prompt[op.gen].action = "checkpoint" /\ Clean(op.wit) /\ Attested(op.gen, op.wit)
      BY <2>1 DEF Recorded, Placing
    <2>3. /\ Attested(op.gen, op.wit) => Attested(op.gen, op.wit)'
          /\ Clean(op.wit) => Clean(op.wit)'
      BY <1>1, <1>3 DEF Attested, Clean, Still
    <2> QED BY <1>1, <1>3, <2>2, <2>3 DEF Placing, Checkpointing, TxPCs, Still, records
  <1> QED BY <1>7, <1>8, <1>9 DEF Recorded

\* ingest goes on with the next file, or with the transaction that accepts or rejects it.
LEMMA RecordedIngest ==
    ASSUME Typed, Recorded, Receive \/ Process
    PROVE  Recorded'
  <1>1. /\ Still /\ UNCHANGED <<outstanding, repo, used>> /\ (journal' = <<>> => journal = <<>>)
        /\ op.pc = "ingest"
    <2>1. CASE Receive
      <3>2. LogReceived BY <2>1 DEF Receive
      <3>1. journal' # <<>> BY <3>2 DEF LogReceived, Log, Typed, TypeOK, JournalTypeOK
      <3> QED BY <2>1, <3>1 DEF Receive, LogReceived, Still, work
    <2>2. CASE Process BY <2>2 DEF Process, Still, journalVars, work
    <2> QED BY <2>1, <2>2
  <1>2. batch'.boundary = boundary
    <2>1. batch.boundary = boundary BY <1>1 DEF Recorded, Transacting, Ingesting
    <2>2. batch'.boundary = batch.boundary
      BY DEF Receive, Process, Typed, TypeOK, ProcessTypeOK, Batches
    <2> QED BY <2>1, <2>2
  <1> DEFINE Gone(t, pc) == /\ op'.tx = t /\ op'.pc = pc /\ op'.next = "ingest"
                            /\ pc \in {"prepare", "archive"} /\ Prepared(t)
                            /\ t.event \in {"PROMPT_ACCEPTED", "PROMPT_REJECTED"}
  <1>3. UNCHANGED op \/ \E t, pc : Gone(t, pc)
    <2>1. ASSUME NEW name, NEW p, NEW id
          PROVE  /\ Prepared(Rejection(name, p)) /\ Rejection(name, p).event = "PROMPT_REJECTED"
                 /\ Prepared([Rejection(name, p) EXCEPT !.id = id])
                 /\ [Rejection(name, p) EXCEPT !.id = id].event = "PROMPT_REJECTED"
      BY DEF Rejection, Tx, Prepared
    <2>2. CASE Receive
      <3>1. PICK f : \/ Move([Rejection(f[1], f[2]) EXCEPT !.id = NextSeq + 1], "prepare", "ingest")
                     \/ UNCHANGED op
        BY <2>2 DEF Receive
      <3>2. CASE Move([Rejection(f[1], f[2]) EXCEPT !.id = NextSeq + 1], "prepare", "ingest")
        <4> DEFINE t == [Rejection(f[1], f[2]) EXCEPT !.id = NextSeq + 1]
        <4>1. Prepared(t) /\ t.event = "PROMPT_REJECTED" BY DEF Rejection, Tx, Prepared
        <4>2. Move(t, "prepare", "ingest") BY <3>2
        <4> HIDE DEF t
        <4>3. Gone(t, "prepare") BY <4>1, <4>2, MoveFields
        <4> QED BY <4>3
      <3> QED BY <3>1, <3>2
    <2>3. CASE Process
      <3>1. PICK f \in batch.parsed :
               IF Acceptable(f[2])
               THEN Move(Tx("PROMPT_ACCEPTED", f[2].gen, f[2], <<"inbox", f[1], f[2]>>,
                            <<"accepted", "canonical", f[2]>>, batch.wit, FALSE, {}),
                         "archive", "ingest")
               ELSE Move(Rejection(f[1], f[2]), "prepare", "ingest")
        BY <2>3 DEF Process
      <3>2. CASE Acceptable(f[2])
        <4> DEFINE t == Tx("PROMPT_ACCEPTED", f[2].gen, f[2], <<"inbox", f[1], f[2]>>,
                           <<"accepted", "canonical", f[2]>>, batch.wit, FALSE, {})
        <4>1. t.event = "PROMPT_ACCEPTED" /\ Prepared(t)
          <5>1. batch.wit = boundary BY <1>1, <3>2 DEF Acceptable, Recorded, Transacting, Ingesting
          <5> QED BY <3>2, <5>1 DEF Tx, Prepared, Acceptable
        <4>2. Move(t, "archive", "ingest") BY <3>1, <3>2
        <4> HIDE DEF t
        <4>3. Gone(t, "archive") BY <4>1, <4>2, MoveFields
        <4> QED BY <4>3
      <3>3. CASE ~Acceptable(f[2])
        <4> DEFINE t == Rejection(f[1], f[2])
        <4>1. Prepared(t) /\ t.event = "PROMPT_REJECTED" BY <2>1
        <4>2. Move(t, "prepare", "ingest") BY <3>1, <3>3
        <4> HIDE DEF t
        <4>3. Gone(t, "prepare") BY <4>1, <4>2, MoveFields
        <4> QED BY <4>3
      <3> QED BY <3>2, <3>3
    <2> QED BY <2>2, <2>3
  <1>4. Landed' BY <1>1, LandedStill, Numbers DEF Recorded, HeadMoves
  <1>5. CASE UNCHANGED op
    <2>1. Placing' BY <1>1, <1>5, PlacingStill, Numbers DEF HeadMoves
    <2>2. Pending' = Pending /\ op'.pc = "ingest" BY <1>1, <1>5 DEF Pending, InHand
    <2>3. Transacting' BY <1>1, <1>2, <2>2, TransactingStill DEF Recorded
    <2> QED BY <1>4, <2>1, <2>3 DEF Recorded
  <1>6. ASSUME NEW t, NEW pc, Gone(t, pc) PROVE Recorded'
    <2>1. Placing' BY <1>6 DEF Placing, Checkpointing, TxPCs
    <2>2. Pending' \subseteq Pending \cup {t} /\ op'.pc # "append"
      BY <1>1, <1>6 DEF Pending, InHand
    <2>3. Transacting' BY <1>1, <1>2, <1>6, <2>2, TransactingStill DEF Recorded
    <2> QED BY <1>4, <2>1, <2>3 DEF Recorded
  <1> QED BY <1>3, <1>5, <1>6

\* The boundary is set when nothing is pending.
LEMMA RecordedAppend ==
    ASSUME Typed, Flight, Recorded, InitAppend \/ AdoptAppend
    PROVE  Recorded'
  <1>1. /\ UNCHANGED <<records, intents, landed, outstanding, repo, used>> /\ outstanding = {}
        /\ op'.pc = "save" /\ journal' # <<>>
    BY GotoType DEF InitAppend, AdoptAppend, LogInitialized, LogAdopted, Log, Flight, Carrying,
           AdoptionAdmissible, Settled, work, Typed, TypeOK, JournalTypeOK, PCs
  <1>2. Pending' = {} BY <1>1 DEF Pending, InHand, TxPCs
  <1>3. Transacting'
    BY <1>1, <1>2 DEF Transacting, Recorded, Ingesting, TxPCs, records, Known
  <1>4. Landed'
    BY <1>1 DEF Recorded, Landed, CheckpointAtomic, Attributed, records, Known
  <1>5. Placing' BY <1>1 DEF Placing, Checkpointing, TxPCs
  <1> QED BY <1>3, <1>4, <1>5 DEF Recorded

\* recover takes up a transaction that was left behind: it still fits.
LEMMA RecordedRecoverTransaction ==
    ASSUME Typed, Recorded, RecoverTransaction
    PROVE  Recorded'
  <1>1. PICK t \in outstanding, pc \in {"owner", "rename", "terminal"} : Move(t, pc, "resolve")
    BY DEF RecoverTransaction
  <1>2. op'.tx = t /\ op'.pc = pc /\ op'.next = "resolve" BY <1>1, MoveFields
  <1>3. Still /\ UNCHANGED <<journal, outstanding, repo, used>>
    BY DEF RecoverTransaction, Still, journalVars, work
  <1>4. Prepared(op'.tx) BY <1>1, <1>2 DEF Recorded, Transacting, Pending
  <1> QED BY <1>2, <1>3, <1>4, RecordedMove DEF TxPCs

-----------------------------------------------------------------------------
(* The steps of a checkpoint.                                              *)

\* The program counters between which a checkpoint is driven carry no transaction.
LEMMA NothingInHand ==
    ASSUME NEW pc \in {"intent", "advance", "verify", "finish", "abort", "resolve", "save", "idle"},
           op'.pc = pc
    PROVE  InHand' = {} /\ ~Ingesting' /\ op'.pc # "append"
  BY DEF InHand, Ingesting, TxPCs

LEMMA RecordedIntent ==
    ASSUME Typed, Flight, Recorded, CheckpointIntent
    PROVE  Recorded'
  <1> DEFINE i == [seq |-> NextSeq, gen |-> op.gen, parent |-> wit[op.gen].head,
                   commit |-> op.wit.head, wit |-> wit[op.gen]]
  <1>1. /\ op.pc = "intent" /\ op.gen \in Known /\ outstanding = {} /\ intents = {}
        /\ status[op.gen] = "ACCEPTED" /\ prompt[op.gen].action = "checkpoint"
        /\ wit[op.gen].head < op.wit.head /\ op.wit.head <= used.commits
        /\ repo.head # op.wit.head /\ Clean(op.wit)
    BY DEF CheckpointIntent, Typed, LocalsOK, Flight, Carrying, Recorded, Placing, Checkpointing
  <1>2. /\ op'.pc = "advance" /\ op'.gen = op.gen /\ op'.wit = op.wit
    BY GotoType DEF CheckpointIntent, Typed, PCs
  <1>3. /\ intents' = {i} /\ UNCHANGED <<records, boundary, outstanding, landed, repo, used>>
        /\ journal' # <<>>
    BY <1>1 DEF CheckpointIntent, LogIntent, Log, work, Typed, TypeOK, JournalTypeOK
  <1>4. Transacting'
    BY <1>1, <1>2, <1>3, NothingInHand
       DEF Transacting, Recorded, Pending, records, Known
  <1>5. CheckpointAtomic'
    <2>1. \A x \in landed : status[x[2]] = "COMPLETED"
      <3> SUFFICES ASSUME NEW x \in landed PROVE status[x[2]] = "COMPLETED"
        OBVIOUS
      <3> QED BY <1>1, Numbers DEF Recorded, Landed, CheckpointAtomic
    <2> QED BY <1>1, <1>3 DEF Recorded, Landed, CheckpointAtomic, records
  <1>6. Landed'
    BY <1>1, <1>3, <1>5 DEF Recorded, Landed, Attributed, records, Known
  <1>7. Placing'
    BY <1>1, <1>2, <1>3 DEF Placing, Checkpointing, Clean, TxPCs, records
  <1> QED BY <1>4, <1>6, <1>7 DEF Recorded

LEMMA RecordedAdvance ==
    ASSUME Typed, Flight, Recorded, CheckpointAdvance
    PROVE  Recorded'
  <1> DEFINE c == op.wit.head
  <1>1. /\ op.pc = "advance" /\ op.gen \in Known /\ op.gen \in Gens /\ outstanding = {}
        /\ status[op.gen] = "ACCEPTED" /\ prompt[op.gen].action = "checkpoint" /\ Clean(op.wit)
        /\ repo.head = wit[op.gen].head
    BY DEF CheckpointAdvance, Typed, LocalsOK, Flight, Carrying, Recorded, Placing, Checkpointing,
           Known
  <1>2. /\ op'.pc = "verify" /\ op'.gen = op.gen /\ op'.wit = op.wit
    BY GotoType DEF CheckpointAdvance, Typed, PCs
  <1>3. /\ landed' = landed \cup {<<c, op.gen>>} /\ repo'.head = c
        /\ UNCHANGED <<journal, records, boundary, intents, outstanding, used>>
    BY DEF CheckpointAdvance, journalVars
  <1>4. PICK i \in intents : i.gen = op.gen /\ i.commit = c
    BY <1>1 DEF Recorded, Placing
  <1>5. repo.head < c /\ c <= used.commits
    BY <1>1, <1>4, Numbers DEF Recorded, Landed, Attributed
  <1>6. Transacting'
    BY <1>1, <1>2, <1>3, NothingInHand DEF Transacting, Recorded, Pending, records, Known
  <1>7. CheckpointAtomic'
    BY <1>1, <1>3, <1>4 DEF Recorded, Landed, CheckpointAtomic, records
  <1>8. ASSUME NEW j \in intents' PROVE Attributed(j)'
    <2>1. j \in intents /\ j = i BY <1>3, <1>4 DEF Flight
    <2> QED BY <1>3, <1>4, <2>1 DEF Recorded, Landed, Attributed, records, Known
  <1>9. \A x \in landed' : x[1] <= repo'.head
    BY <1>3, <1>5, Numbers DEF Recorded, Landed
  <1>10. Landed' BY <1>3, <1>5, <1>7, <1>8, <1>9 DEF Landed
  <1>11. Placing'
    BY <1>1, <1>2, <1>3, <1>4 DEF Placing, Checkpointing, Attested, Clean, TxPCs, records
  <1> QED BY <1>6, <1>10, <1>11 DEF Recorded

LEMMA RecordedVerify ==
    ASSUME Typed, Flight, Recorded, CheckpointVerify
    PROVE  Recorded'
  <1>1. op.pc = "verify" /\ Still /\ UNCHANGED <<journal, outstanding, repo, used>> /\ outstanding = {}
    BY DEF CheckpointVerify, Still, journalVars, work, Flight, Carrying
  <1>2. /\ op'.pc = "finish" /\ op'.gen = op.gen /\ op'.wit = op.wit
    BY GotoType DEF CheckpointVerify, Typed, PCs
  <1>3. Transacting'
    BY <1>1, <1>2, NothingInHand, TransactingStill DEF Recorded, Pending
  <1>4. Landed' BY <1>1, LandedStill, Numbers DEF Recorded, HeadMoves
  <1>5. Placing'
    BY <1>1, <1>2
       DEF Recorded, Placing, Checkpointing, Attested, Clean, TxPCs, Still, records
  <1> QED BY <1>3, <1>4, <1>5 DEF Recorded

\* _finish_checkpoint: what it prepares is what the intent stands for.
LEMMA RecordedFinish ==
    ASSUME Typed, Flight, Recorded, CheckpointFinish
    PROVE  Recorded'
  <1>1. /\ op.pc = "finish" /\ op.gen \in Known /\ op.gen \in Gens
        /\ Still /\ UNCHANGED <<journal, outstanding, repo, used>>
        /\ prompt[op.gen].action = "checkpoint" /\ Attested(op.gen, op.wit) /\ Clean(op.wit)
        /\ status[op.gen] \in {"ACCEPTED", "RUNNING"}
    BY DEF CheckpointFinish, Typed, LocalsOK, Recorded, Placing, Checkpointing, Still, journalVars,
           work, Known
  <1>2. Outcome["RUN_STARTED"] = "RUNNING" /\ Outcome["RUN_COMPLETED"] = "COMPLETED"
        /\ Dir["RUNNING"] = "running" /\ Dir["COMPLETED"] = "completed"
    BY DEF Outcome, Dir
  <1>3. CASE status[op.gen] = "ACCEPTED"
    <2> DEFINE t == MoveTx("RUN_STARTED", op.gen, "running", wit[op.gen], FALSE, {})
    <2>1. Prepared(t) BY <1>1, <1>2, <1>3, MovePrepared
    <2>2. Move(t, "prepare", "finish") BY <1>3 DEF CheckpointFinish
    <2> HIDE DEF t
    <2>3. /\ op'.tx = t /\ op'.pc = "prepare" /\ op'.next = "finish" /\ op'.gen = op.gen
          /\ op'.wit = op.wit
      BY <2>2, MoveFields
    <2>4. Transacting'
      <3>1. \A u \in Pending' : u \in Pending \/ Prepared(u)
        BY <1>1, <2>1, <2>3 DEF Pending, InHand
      <3>2. ~Ingesting' /\ op'.pc # "append" BY <2>3 DEF Ingesting
      <3> QED BY <1>1, <3>1, <3>2, TransactingStill DEF Recorded
    <2>5. Landed' BY <1>1, LandedStill, Numbers DEF Recorded, HeadMoves
    <2>6. Placing'
      BY <1>1, <2>3 DEF Placing, Checkpointing, Attested, Clean, TxPCs, Still, records
    <2> QED BY <2>4, <2>5, <2>6 DEF Recorded
  <1>4. CASE status[op.gen] = "RUNNING"
    <2> DEFINE t == MoveTx("RUN_COMPLETED", op.gen, "completed", op.wit, FALSE, {})
               next == IF op.kind = "recover" THEN "resolve" ELSE "save"
    <2>1. Prepared(t) BY <1>1, <1>2, <1>4, MovePrepared
    <2>2. Move(t, "prepare", next) BY <1>4 DEF CheckpointFinish
    <2>3. next \in {"save", "resolve"} OBVIOUS
    <2> HIDE DEF t, next
    <2>4. op'.tx = t /\ op'.pc = "prepare" /\ op'.next = next BY <2>2, MoveFields
    <2> QED BY <1>1, <2>1, <2>3, <2>4, RecordedMove DEF TxPCs
  <1> QED BY <1>1, <1>3, <1>4

-----------------------------------------------------------------------------
(* recover and a checkpoint that was left behind.                          *)

\* HEAD is on the parent of the intent, hence has never been on its commit.
LEMMA NotLanded ==
    ASSUME Typed, Flight, Landed, NEW i \in intents, repo.head = i.parent, status[i.gen] = "ACCEPTED"
    PROVE  \A x \in landed, j \in intents : x[2] # j.gen
  <1> SUFFICES ASSUME NEW x \in landed, x[2] = i.gen PROVE FALSE
    BY DEF Flight
  <1>1. \E j \in intents : j.gen = i.gen /\ j.commit = x[1]
    BY Numbers DEF Landed, CheckpointAtomic
  <1>2. x[1] = i.commit BY <1>1 DEF Flight
  <1>3. i.commit <= repo.head /\ i.parent < i.commit BY <1>2 DEF Landed, Attributed
  <1> QED BY <1>3, Numbers

LEMMA RecordedRollback ==
    ASSUME Typed, Flight, Recorded, RecoverRollback
    PROVE  Recorded'
  <1>1. PICK i \in intents :
           /\ repo.head = i.parent /\ status[i.gen] = "ACCEPTED"
           /\ repo' = [repo EXCEPT !.index = 0]
           /\ \/ op' = [op EXCEPT !.pc = "abort", !.gen = i.gen]
              \/ op' = Idle
    BY DEF RecoverRollback, Release
  <1>2. repo'.head = repo.head BY <1>1 DEF Typed, TypeOK, Witnesses
  <1>3. Still /\ UNCHANGED <<journal, outstanding, used>> /\ outstanding = {}
    BY DEF RecoverRollback, Still, journalVars
  <1>4. HeadMoves /\ used'.commits \in Nat BY <1>2, <1>3, Numbers DEF HeadMoves
  <1>5. Landed' BY <1>3, <1>4, LandedStill DEF Recorded
  <1>6. op'.pc \in {"abort", "idle"} BY RollbackMoves
  <1>7. Transacting'
    BY <1>3, <1>6, NothingInHand, TransactingStill DEF Recorded, Pending
  <1>8. \A x \in landed', j \in intents' : x[2] # j.gen
    BY <1>1, <1>3, NotLanded DEF Recorded, Still
  <1>9. Placing' BY <1>6, <1>8 DEF Placing, Checkpointing, TxPCs
  <1> QED BY <1>5, <1>7, <1>9 DEF Recorded

LEMMA RecordedAbort ==
    ASSUME Typed, Flight, Recorded, RecoverAbort
    PROVE  Recorded'
  <1>1. /\ op.pc = "abort" /\ outstanding = {}
        /\ \A x \in landed, i \in intents : x[2] # i.gen
    BY DEF RecoverAbort, Flight, Carrying, Recorded, Placing
  <1>2. PICK i \in intents : LogAborted(i) BY DEF RecoverAbort
  <1>3. /\ intents' = {} /\ journal' # <<>>
        /\ UNCHANGED <<records, boundary, outstanding, landed, repo, used>>
    BY <1>2 DEF RecoverAbort, LogAborted, Log, Flight, work, Typed, TypeOK, JournalTypeOK
  <1>4. op'.pc = "resolve" BY GotoType DEF RecoverAbort, Typed, PCs
  <1>5. Transacting'
    BY <1>1, <1>3, <1>4, NothingInHand DEF Transacting, Recorded, Pending, records, Known
  <1>6. CheckpointAtomic'
    <2>1. \A x \in landed : status[x[2]] = "COMPLETED"
      <3> SUFFICES ASSUME NEW x \in landed PROVE status[x[2]] = "COMPLETED"
        OBVIOUS
      <3> QED BY <1>1, Numbers DEF Recorded, Landed, CheckpointAtomic
    <2> QED BY <1>3, <2>1 DEF Recorded, Landed, CheckpointAtomic, records
  <1>7. Landed' BY <1>3, <1>6 DEF Recorded, Landed
  <1>8. Placing' BY <1>4 DEF Placing, Checkpointing, TxPCs
  <1> QED BY <1>5, <1>7, <1>8 DEF Recorded

LEMMA RecordedForward ==
    ASSUME Typed, Flight, Recorded, RecoverForward
    PROVE  Recorded'
  <1>1. PICK i \in intents :
           /\ repo.head # i.parent /\ Finishable(i)
           /\ op' = [op EXCEPT !.pc = "finish", !.gen = i.gen, !.wit = repo]
    BY DEF RecoverForward
  <1>2. op'.pc = "finish" /\ op'.gen = i.gen /\ op'.wit = repo
    BY <1>1 DEF Typed, TypeOK, ProcessTypeOK, Ops
  <1>3. Still /\ UNCHANGED <<journal, outstanding, repo, used>> /\ outstanding = {}
    BY DEF RecoverForward, Still, journalVars, work
  <1>4. /\ Clean(repo) /\ repo.head = i.commit /\ status[i.gen] \in {"ACCEPTED", "RUNNING"}
    BY <1>1 DEF Finishable, Clean
  <1>5. prompt[i.gen].action = "checkpoint" /\ Attested(i.gen, repo)
    BY <1>4 DEF Recorded, Landed, Attributed, Attested
  <1>6. Transacting'
    BY <1>2, <1>3, NothingInHand, TransactingStill DEF Recorded, Pending
  <1>7. Landed' BY <1>3, LandedStill, Numbers DEF Recorded, HeadMoves
  <1>8. Placing'
    BY <1>2, <1>3, <1>4, <1>5
       DEF Placing, Checkpointing, Attested, Clean, TxPCs, Still, records
  <1> QED BY <1>6, <1>7, <1>8 DEF Recorded

-----------------------------------------------------------------------------
(* The terminal event.                                                     *)

\* What the terminal event of a transaction makes of the generations.
LEMMA TerminalEffect ==
    ASSUME Typed, Flight, Recorded, Terminal
    PROVE  LET t == op.tx
               g == op.tx.gen
           IN  /\ Prepared(t) /\ ValidTx(t) /\ Admissible(t) /\ outstanding = {t}
               /\ UNCHANGED <<landed, repo, used, batch>> /\ journal' # <<>>
               /\ t.event \in {"PROMPT_REJECTED"} => UNCHANGED <<records, boundary, intents>>
               /\ t.event # "PROMPT_REJECTED" =>
                     g \in Gens /\ status' = [status EXCEPT ![g] = Outcome[t.event]]
               /\ t.event = "PROMPT_ACCEPTED" =>
                     /\ prompt' = [prompt EXCEPT ![g] = t.prompt] /\ wit' = [wit EXCEPT ![g] = t.wit]
                     /\ boundary' = boundary /\ intents' = intents /\ intents = {}
                     /\ g \notin Known /\ Known = 1..(g - 1)
               /\ t.event \notin {"PROMPT_ACCEPTED", "PROMPT_REJECTED"} =>
                     UNCHANGED <<prompt, wit>> /\ g \in Known
               /\ t.event = "RUN_COMPLETED" =>
                     boundary' = t.wit /\ intents' = {i \in intents : i.gen # g}
               /\ t.event # "RUN_COMPLETED" => boundary' = boundary /\ intents' = intents
  <1>1. /\ outstanding = {op.tx} /\ ValidTx(op.tx) /\ LogTerminal(op.tx) /\ Admissible(op.tx)
        /\ UNCHANGED <<landed, repo, used>> /\ op.pc = "terminal"
    BY AfterTerminal DEF Terminal, work, LogTerminal
  <1>2. Prepared(op.tx) BY <1>1 DEF Recorded, Transacting, Pending
  <1>3. journal' # <<>> BY <1>1 DEF LogTerminal, Log, Typed, TypeOK, JournalTypeOK
  <1>4. batch' = batch BY DEF Terminal, Goto
  <1>5. CASE op.tx.event = "PROMPT_ACCEPTED"
    <2>1. Known = 1..(op.tx.gen - 1) /\ op.tx.gen \in 0..MaxGen /\ op.tx.prompt \in Prompts
          /\ op.tx.prompt.parent = op.tx.gen - 1 /\ boundary = op.tx.wit
      BY <1>1, <1>2, <1>5 DEF Prepared, IsNext, ValidTx, Txs
    <2>2. op.tx.prompt.parent \in Nat BY <2>1, PromptsAssumption
    <2>3. op.tx.gen \in Gens /\ op.tx.gen \notin Known
      BY <2>1, <2>2, MaxGenAssumption DEF Gens
    <2>4. intents = {}
      BY <1>1, <2>3 DEF Flight, TxPCs, Recorded, Landed, Attributed
    <2> QED BY <1>1, <1>2, <1>3, <1>4, <1>5, <2>1, <2>3, <2>4 DEF LogTerminal
  <1>6. CASE op.tx.event # "PROMPT_ACCEPTED"
    <2>1. op.tx.event # "PROMPT_REJECTED" => op.tx.gen \in Known /\ op.tx.gen \in Gens
      BY <1>1, <1>6 DEF ValidTx, Known
    <2>2. op.tx.event = "PROMPT_REJECTED" => UNCHANGED <<records, boundary, intents>>
      BY <1>1 DEF LogTerminal, records
    <2> QED BY <1>1, <1>2, <1>3, <1>4, <1>6, <2>1, <2>2 DEF LogTerminal
  <1> QED BY <1>5, <1>6

LEMMA TransactingTerminal ==
    ASSUME Typed, Flight, Recorded, Terminal
    PROVE  Transacting'
  <1> DEFINE t == op.tx
             g == op.tx.gen
  <1>1. /\ op'.pc = op.next /\ op'.next = op.next /\ outstanding' = {}
        /\ op.next \in {"idle", "save", "ingest", "finish", "resolve"}
    BY AfterTerminal
  <1>2. Pending' = {} BY <1>1, NothingInHand DEF Pending, InHand, TxPCs
  <1>3. /\ UNCHANGED batch /\ journal' # <<>>
        /\ t.event \in {"PROMPT_REJECTED", "PROMPT_ACCEPTED"} => boundary' = boundary
    BY TerminalEffect
  <1>4. Ingesting' => batch'.boundary = boundary'
    <2>1. Ingesting' => Ingesting /\ op.pc # "ingest"
      BY <1>1 DEF Ingesting, TxPCs, Terminal
    <2> QED BY <1>3, <2>1 DEF Recorded, Transacting
  <1>5. Ingesting' => op'.pc = "ingest" BY <1>1 DEF Ingesting, TxPCs
  <1>6. ASSUME NEW h \in Known' PROVE prompt'[h].gen = h
    <2>1. h \in Gens BY DEF Known
    <2>2. CASE t.event = "PROMPT_ACCEPTED"
      <3>1. /\ status' = [status EXCEPT ![g] = Outcome[t.event]] /\ t.prompt.gen = g
            /\ prompt' = [prompt EXCEPT ![g] = t.prompt] /\ g \in Gens
        BY <2>2, TerminalEffect DEF Prepared
      <3>2. h # g => h \in Known BY <2>1, <3>1 DEF Known, Typed, TypeOK, JournalTypeOK
      <3> QED BY <2>1, <3>1, <3>2 DEF Recorded, Transacting, Typed, TypeOK, JournalTypeOK
    <2>3. CASE t.event = "PROMPT_REJECTED"
      BY <2>3, TerminalEffect DEF Recorded, Transacting, records, Known
    <2>4. CASE t.event \notin {"PROMPT_ACCEPTED", "PROMPT_REJECTED"}
      <3>1. prompt' = prompt /\ g \in Known /\ status' = [status EXCEPT ![g] = Outcome[t.event]]
        BY <2>4, TerminalEffect
      <3>2. h \in Known BY <2>1, <3>1 DEF Known, Typed, TypeOK, JournalTypeOK
      <3> QED BY <3>1, <3>2 DEF Recorded, Transacting
    <2> QED BY <2>2, <2>3, <2>4
  <1> QED BY <1>1, <1>2, <1>3, <1>4, <1>5, <1>6 DEF Transacting

LEMMA LandedTerminal ==
    ASSUME Typed, Flight, Recorded, Terminal
    PROVE  Landed'
  <1> DEFINE t == op.tx
             g == op.tx.gen
  <1>0. /\ UNCHANGED <<landed, repo, used>> /\ ValidTx(t) /\ t.event \in Transitions
        /\ status \in [Gens -> Statuses] /\ prompt \in [Gens -> Prompts \cup {NoPrompt}]
        /\ wit \in [Gens -> Witnesses]
    BY TerminalEffect DEF ValidTx, Txs, Typed, TypeOK, JournalTypeOK
  <1>1. CASE t.event = "PROMPT_REJECTED"
    <2>1. Still BY <1>0, <1>1, TerminalEffect DEF Still
    <2> QED BY <1>0, <2>1, LandedStill, Numbers DEF Recorded, HeadMoves
  <1>2. CASE t.event = "PROMPT_ACCEPTED"
    <2>1. /\ g \in Gens /\ status' = [status EXCEPT ![g] = "ACCEPTED"] /\ g \notin Known
          /\ prompt' = [prompt EXCEPT ![g] = t.prompt] /\ intents = {} /\ intents' = {}
      BY <1>2, TerminalEffect DEF Outcome
    <2>2. status[g] # "COMPLETED" BY <2>1 DEF Known
    <2>3. CheckpointAtomic'
      BY <1>0, <2>1, <2>2 DEF Recorded, Landed, CheckpointAtomic
    <2> QED BY <1>0, <2>1, <2>3 DEF Recorded, Landed
  <1>3. CASE t.event \in {"PROMPT_CANCELLED", "RUN_STARTED", "RUN_INTERRUPTED"}
    <2>1. /\ g \in Gens /\ status' = [status EXCEPT ![g] = Outcome[t.event]] /\ g \in Known
          /\ UNCHANGED <<prompt, wit, intents>> /\ Prepared(t)
      BY <1>3, TerminalEffect
    <2>2. status[g] \in {"ACCEPTED", "RUNNING"} BY <1>3, <2>1 DEF Prepared
    <2>3. Outcome[t.event] \in {"CANCELLED", "RUNNING", "INTERRUPTED"} BY <1>3 DEF Outcome
    <2>4. Known' = Known BY <1>0, <2>1, <2>3 DEF Known
    <2>5. CheckpointAtomic'
      BY <1>0, <2>1, <2>2, <2>3 DEF Recorded, Landed, CheckpointAtomic
    <2> QED BY <1>0, <2>1, <2>4, <2>5 DEF Recorded, Landed, Attributed
  <1>4. CASE t.event = "RUN_COMPLETED"
    <2>1. /\ g \in Gens /\ status' = [status EXCEPT ![g] = "COMPLETED"] /\ g \in Known
          /\ UNCHANGED <<prompt, wit>> /\ Prepared(t) /\ Admissible(t)
          /\ intents' = {i \in intents : i.gen # g}
      BY <1>4, TerminalEffect DEF Outcome
    <2>2. t.prompt = prompt[g] BY <1>4, <2>1 DEF Prepared
    <2>3. prompt[g].action = "checkpoint" => <<t.wit.head, g>> \in landed
      BY <1>4, <2>1, <2>2 DEF Prepared, Admissible, Attested
    <2>4. Known' = Known BY <1>0, <2>1 DEF Known
    <2>5. CheckpointAtomic'
      <3> SUFFICES ASSUME NEW h \in Gens
                   PROVE  LET commits == {x[1] : x \in {y \in landed : y[2] = h}}
                          IN  /\ status'[h] = "COMPLETED" /\ prompt'[h].action = "checkpoint" => commits # {}
                              /\ \A c \in commits : \/ status'[h] = "COMPLETED"
                                                    \/ \E i \in intents' : i.gen = h /\ i.commit = c
        BY <1>0 DEF CheckpointAtomic
      <3>1. CASE h = g BY <1>0, <2>1, <2>3, <3>1
      <3>2. CASE h # g BY <1>0, <2>1, <3>2 DEF Recorded, Landed, CheckpointAtomic
      <3> QED BY <3>1, <3>2
    <2>6. \A i \in intents' : Attributed(i)'
      BY <1>0, <2>1, <2>4 DEF Recorded, Landed, Attributed
    <2> QED BY <1>0, <2>5, <2>6 DEF Recorded, Landed
  <1> QED BY <1>0, <1>1, <1>2, <1>3, <1>4 DEF Transitions

LEMMA PlacingTerminal ==
    ASSUME Typed, Flight, Recorded, Terminal
    PROVE  Placing'
  <1> DEFINE t == op.tx
             g == op.tx.gen
  <1>1. /\ op'.pc = op.next /\ op'.next = op.next /\ op'.gen = op.gen
        /\ op.next \in {"idle", "save", "ingest", "finish", "resolve"}
        /\ op.next = "finish" => t.event = "RUN_STARTED" /\ g = op.gen
    BY AfterTerminal
  <1>2. CASE op.next # "finish"
    BY <1>1, <1>2 DEF Placing, Checkpointing, TxPCs
  <1>3. CASE op.next = "finish"
    <2>1. /\ g = op.gen /\ g \in Gens /\ status' = [status EXCEPT ![g] = "RUNNING"]
          /\ UNCHANGED <<prompt, wit, landed, intents>> /\ status \in [Gens -> Statuses]
      BY <1>1, <1>3, TerminalEffect DEF Outcome, Typed, TypeOK, JournalTypeOK
    <2>2. op'.wit = op.wit
      BY <1>1, <1>3, GotoType DEF Terminal, Typed, PCs
    <2>3. prompt[g].action = "checkpoint" /\ Clean(op.wit) /\ Attested(g, op.wit)
      BY <1>3, <2>1 DEF Terminal, TxPCs, Recorded, Placing
    <2> QED
      BY <1>1, <1>3, <2>1, <2>2, <2>3 DEF Placing, Checkpointing, Attested, Clean, TxPCs
  <1> QED BY <1>2, <1>3

-----------------------------------------------------------------------------
(* Replay accepts what was prepared; checkpoints are atomic.               *)

LEMMA RecordedInit == Init => Recorded
  BY DEF Init, JournalInit, Recorded, Transacting, Landed, Placing, CheckpointAtomic, Pending,
         InHand, Ingesting, Checkpointing, Idle, TxPCs, Known

LEMMA RecordedNext == Typed /\ Flight /\ Recorded /\ [Next]_vars => Recorded'
  <1> SUFFICES ASSUME Typed, Flight, Recorded, [Next]_vars PROVE Recorded'
    OBVIOUS
  <1>1. ASSUME NEW g \in Gens,
               \/ \E by \in {"operator", "driver"} : CompleteBegin(g, by) \/ InterruptBegin(g, by)
               \/ CancelBegin(g) \/ \E b \in BOOLEAN : StartBegin(g, b)
        PROVE  Recorded'
    BY <1>1, BeginPrepared, RecordedMove
  <1>2. CASE Command
    BY <1>1, <1>2, RecordedQuiet, RecordedCheckpointBegin, RecordedHold DEF Command
  <1>3. CASE Terminal
    BY <1>3, TransactingTerminal, LandedTerminal, PlacingTerminal DEF Recorded
  <1>4. CASE Locked
    BY <1>3, <1>4, RecordedQuiet, RecordedCarry, RecordedIngest, RecordedAppend,
       RecordedRecoverTransaction, RecordedIntent, RecordedAdvance, RecordedVerify, RecordedFinish,
       RecordedRollback, RecordedAbort, RecordedForward
       DEF Locked
  <1>5. ASSUME NEW g \in Gens, Executing(g) PROVE Recorded'
    BY <1>1, <1>5, RecordedQuiet DEF Executing
  <1> QED BY <1>2, <1>4, <1>5, RecordedQuiet DEF Next

LEMMA AlwaysRecorded == Spec => []Recorded
  BY RecordedInit, RecordedNext, AlwaysTyped, AlwaysFlight, PTL DEF Spec

\* A checkpoint is all or nothing through any crash and repair: HEAD is moved only under an
\* intent, an intent is withdrawn only while HEAD has never left its parent, and the run it
\* belongs to is completed only with the commit HEAD was moved to.
THEOREM CheckpointAtomicCorrect == Spec => []CheckpointAtomic
  <1>1. Recorded => CheckpointAtomic BY DEF Recorded, Landed
  <1> QED BY <1>1, AlwaysRecorded, PTL

\* What a command checked when it prepared a transaction still holds at its terminal event, be it
\* recover that appends it: replay refuses nothing but the completion that complete-run prepared
\* of a checkpoint run started by hand, or with a result that replay alone looks into.
THEOREM RefusedOnlyWhenTypedCorrect == Spec => []RefusedOnlyWhenTyped
  <1>1. Typed /\ Flight /\ Recorded => RefusedOnlyWhenTyped
    <2> SUFFICES ASSUME Typed, Flight, Recorded, op.pc = "terminal", ~Admissible(op.tx)
                 PROVE  RefusedForGood(op.tx)
      BY DEF RefusedOnlyWhenTyped
    <2>1. op.tx \in outstanding /\ Prepared(op.tx) /\ op.tx.event \in Transitions
      BY DEF Flight, Carrying, Recorded, Transacting, Pending, Typed, LocalsOK, ValidTx, Txs
    <2>2. op.tx.event = "RUN_COMPLETED" BY <2>1 DEF Admissible, Prepared, Transitions
    <2> QED BY <2>1, <2>2 DEF Admissible, Prepared, Attested, RefusedForGood
  <1> QED BY <1>1, AlwaysTyped, AlwaysFlight, AlwaysRecorded, PTL

-----------------------------------------------------------------------------
(* No prompt is lost.                                                      *)

\* Before the terminal event of a transition the file is where the transition takes it.
Filing ==
    /\ PromptNeverLost
    /\ op.pc = "terminal" /\ op.tx.event # "PROMPT_REJECTED" =>
          FilesOf(op.tx.prompt) = {op.tx.dst}
    /\ op.pc = "owner" => op.tx.owned

\* A step that moves no prompt file of the life cycle, and ends no transaction.
LEMMA FilingKept ==
    ASSUME Filing, UNCHANGED <<status, prompt>>, UNCHANGED PromptFiles,
           outstanding \subseteq outstanding',
           op'.pc = "terminal" /\ op'.tx.event # "PROMPT_REJECTED" =>
               FilesOf(op'.tx.prompt) = {op'.tx.dst},
           op'.pc = "owner" => op'.tx.owned
    PROVE  Filing'
  <1>1. \A p : FilesOf(p)' = FilesOf(p) BY DEF FilesOf
  <1>2. Known' = Known /\ \A g \in Known : Home(g)' = Home(g) BY DEF Known, Home
  <1>3. PromptNeverLost'
    <2>1. ASSUME NEW g \in Known
          PROVE  \/ FilesOf(prompt[g])' = {Home(g)'}
                 \/ \E t \in outstanding' : t.gen = g /\ FilesOf(prompt[g])' = {t.dst}
      <3>1. FilesOf(prompt[g])' = FilesOf(prompt[g]) BY DEF FilesOf
      <3> QED BY <1>2, <3>1 DEF Filing, PromptNeverLost
    <2>2. ASSUME NEW f \in PromptFiles'
          PROVE  \/ \E g \in Known : f[3] = prompt'[g]
                 \/ \E t \in outstanding' : t.event = "PROMPT_ACCEPTED" /\ t.dst = f
      BY DEF Filing, PromptNeverLost
    <2> QED BY <1>2, <2>1, <2>2 DEF PromptNeverLost
  <1>4. op'.pc = "terminal" /\ op'.tx.event # "PROMPT_REJECTED" =>
            FilesOf(op.tx.prompt)' = {op'.tx.dst}
    BY DEF FilesOf
  <1> QED BY <1>3, <1>4 DEF Filing

\* The files of a prompt under acceptance, and of one whose transition is prepared.
LEMMA FilesUnderWay ==
    ASSUME Typed, Flight, Recorded, PromptNeverLost, NEW t \in outstanding
    PROVE  /\ t.event = "PROMPT_ACCEPTED" => FilesOf(t.prompt) \subseteq {t.dst}
           /\ t.event \notin {"PROMPT_ACCEPTED", "PROMPT_REJECTED"} =>
                 FilesOf(t.prompt) = {t.src} \/ FilesOf(t.prompt) = {t.dst}
  <1>1. Prepared(t) /\ ValidTx(t) /\ \A u \in outstanding : u = t
    BY DEF Recorded, Transacting, Pending, Flight, Typed, LocalsOK
  <1>2. ASSUME t.event = "PROMPT_ACCEPTED", NEW f \in FilesOf(t.prompt) PROVE f = t.dst
    <2>1. f \in PromptFiles /\ f[3] = t.prompt BY <1>2 DEF FilesOf
    <2>2. t.gen \notin Known
      BY <1>1, <1>2 DEF Prepared, IsNext, ValidTx, Txs
    <2>3. ~\E g \in Known : f[3] = prompt[g]
      BY <1>1, <1>2, <2>1, <2>2 DEF Prepared, Recorded, Transacting
    <2> QED BY <1>1, <2>1, <2>3 DEF PromptNeverLost
  <1>3. ASSUME t.event \notin {"PROMPT_ACCEPTED", "PROMPT_REJECTED"}
        PROVE  FilesOf(t.prompt) = {t.src} \/ FilesOf(t.prompt) = {t.dst}
    BY <1>1, <1>3 DEF Prepared, ValidTx, PromptNeverLost
  <1> QED BY <1>2, <1>3

\* Where the source is gone, the rename has happened.
LEMMA AlreadyMoved ==
    ASSUME Typed, Flight, Recorded, PromptNeverLost, NEW t \in outstanding,
           t.event # "PROMPT_REJECTED", t.src \notin spool,
           t.event = "PROMPT_ACCEPTED" => t.dst \in spool
    PROVE  FilesOf(t.prompt) = {t.dst}
  <1>1. Prepared(t) BY DEF Recorded, Transacting, Pending
  <1>2. CASE t.event = "PROMPT_ACCEPTED"
    <2>1. t.dst \in FilesOf(t.prompt)
      BY <1>1, <1>2 DEF Prepared, FilesOf, PromptFiles, LifeDirs
    <2> QED BY <1>2, <2>1, FilesUnderWay
  <1>3. CASE t.event # "PROMPT_ACCEPTED"
    <2>1. t.src \notin FilesOf(t.prompt) BY DEF FilesOf, PromptFiles
    <2> QED BY <1>3, <2>1, FilesUnderWay
  <1> QED BY <1>2, <1>3

\* The directory a file of a known generation is in, and the one a transition takes it to.
LEMMA LifeDirectories ==
    ASSUME Typed, Recorded, NEW t \in Pending, ValidTx(t), t.event # "PROMPT_REJECTED"
    PROVE  /\ t.dst[1] \in LifeDirs /\ t.dst[3] = t.prompt
           /\ t.event = "PROMPT_ACCEPTED" => t.src[1] \notin LifeDirs
           /\ t.event # "PROMPT_ACCEPTED" => t.src[3] = t.prompt /\ t.gen \in Known
  <1>1. Prepared(t) /\ t.event \in Transitions BY DEF Recorded, Transacting, ValidTx, Txs
  <1>2. CASE t.event = "PROMPT_ACCEPTED" BY <1>1, <1>2 DEF Prepared, LifeDirs
  <1>3. CASE t.event # "PROMPT_ACCEPTED"
    <2>1. Outcome[t.event] \in {"CANCELLED", "RUNNING", "COMPLETED", "INTERRUPTED"}
      BY <1>1, <1>3 DEF Outcome, Transitions
    <2>2. Dir[Outcome[t.event]] \in LifeDirs BY <2>1 DEF Dir, LifeDirs
    <2> QED BY <1>1, <1>3, <2>2 DEF Prepared, ValidTx, Home
  <1> QED BY <1>2, <1>3

LEMMA FilingRename ==
    ASSUME Typed, Flight, Recorded, Filing, Rename
    PROVE  Filing'
  <1> DEFINE t == op.tx
  <1>1. /\ spool' = (spool \ {t.src}) \cup {t.dst} /\ t \in outstanding /\ t \in Pending /\ ValidTx(t)
        /\ UNCHANGED <<status, prompt, outstanding>> /\ Known' = Known
        /\ \A u \in outstanding : u = t
    BY DEF Rename, Flight, Carrying, Pending, Typed, LocalsOK, TxPCs, journalVars, records, Known
  <1>2. op'.pc = "terminal" /\ op'.tx = t BY GotoType DEF Rename, Typed, PCs, TxPCs
  <1>3. CASE t.event = "PROMPT_REJECTED"
    <2>1. t.src[1] \notin LifeDirs /\ t.dst[1] \notin LifeDirs
      BY <1>1, <1>3 DEF Recorded, Transacting, Prepared, LifeDirs
    <2>2. UNCHANGED PromptFiles BY <1>1, <2>1 DEF PromptFiles
    <2> QED BY <1>1, <1>2, <1>3, <2>2, FilingKept
  <1>4. CASE t.event # "PROMPT_REJECTED"
    <2>1. /\ t.dst[1] \in LifeDirs /\ t.dst[3] = t.prompt
          /\ t.event = "PROMPT_ACCEPTED" => t.src[1] \notin LifeDirs
          /\ t.event # "PROMPT_ACCEPTED" => t.src[3] = t.prompt /\ t.gen \in Known
      BY <1>1, <1>4, LifeDirectories
    <2>2. /\ \A f : f \in PromptFiles' => f \in PromptFiles \/ f = t.dst
          /\ \A f \in PromptFiles : f[3] # t.prompt => f \in PromptFiles'
          /\ t.dst \in PromptFiles'
          /\ t.src # t.dst => t.src \notin PromptFiles'
      BY <1>1, <2>1 DEF PromptFiles
    <2>3. FilesOf(t.prompt)' = {t.dst}
      <3>1. FilesOf(t.prompt) \subseteq {t.src, t.dst}
        BY <1>1, <1>4, FilesUnderWay DEF Filing, ValidTx, Txs
      <3>2. t.event = "PROMPT_ACCEPTED" => FilesOf(t.prompt) \subseteq {t.dst}
        BY <1>1, FilesUnderWay DEF Filing
      <3>3. \A f : f \in FilesOf(t.prompt)' <=> f \in PromptFiles' /\ f[3] = t.prompt
        BY <1>2 DEF FilesOf
      <3>4. \A f : f \in FilesOf(t.prompt) <=> f \in PromptFiles /\ f[3] = t.prompt
        BY DEF FilesOf
      <3>5. \A f \in FilesOf(t.prompt)' : f = t.dst
        <4> SUFFICES ASSUME NEW f \in FilesOf(t.prompt)', f # t.dst PROVE FALSE
          OBVIOUS
        <4>1. f \in PromptFiles' /\ f[3] = t.prompt BY <3>3
        <4>2. f \in FilesOf(t.prompt) BY <2>2, <3>4, <4>1
        <4>3. f = t.src /\ t.src # t.dst BY <3>1, <4>2
        <4> QED BY <2>2, <4>1, <4>3
      <3>6. t.dst \in FilesOf(t.prompt)' BY <2>1, <2>2, <3>3
      <3> QED BY <3>5, <3>6
    <2>4. ASSUME NEW p, p # t.prompt PROVE FilesOf(p)' = FilesOf(p)
      <3>1. \A f : f \in FilesOf(p)' <=> f \in PromptFiles' /\ f[3] = p BY DEF FilesOf
      <3>2. \A f : f \in FilesOf(p) <=> f \in PromptFiles /\ f[3] = p BY DEF FilesOf
      <3>3. \A f : f \in FilesOf(p)' <=> f \in FilesOf(p)
        BY <2>1, <2>2, <2>4, <3>1, <3>2
      <3>4. FilesOf(p)' \subseteq FilesOf(p) /\ FilesOf(p) \subseteq FilesOf(p)' BY <3>3
      <3> QED BY <3>4
    <2>5. ASSUME NEW g \in Known
          PROVE  \/ FilesOf(prompt[g])' = {Home(g)'}
                 \/ \E u \in outstanding' : u.gen = g /\ FilesOf(prompt[g])' = {u.dst}
      <3>1. CASE g = t.gen /\ t.event # "PROMPT_ACCEPTED"
        <4>1. prompt[g] = t.prompt BY <1>1, <1>4, <3>1 DEF Recorded, Transacting, Prepared
        <4>2. FilesOf(prompt[g])' = {t.dst} BY <1>1, <1>2, <2>3, <4>1 DEF FilesOf
        <4> QED BY <1>1, <3>1, <4>2
      <3>2. CASE g # t.gen \/ t.event = "PROMPT_ACCEPTED"
        <4>1. g # t.gen
          BY <1>1, <3>2 DEF Recorded, Transacting, Prepared, IsNext, ValidTx, Txs
        <4>2. prompt[g] # t.prompt
          <5>1. prompt[g].gen = g BY DEF Recorded, Transacting
          <5>2. t.prompt.gen = t.gen
            BY <1>1, <1>4, <2>1 DEF Recorded, Transacting, Prepared
          <5> QED BY <4>1, <5>1, <5>2
        <4>3. FilesOf(prompt[g])' = FilesOf(prompt[g]) BY <1>1, <2>4, <4>2 DEF FilesOf
        <4>4. FilesOf(prompt[g]) = {Home(g)} BY <1>1, <4>1 DEF Filing, PromptNeverLost
        <4> QED BY <1>1, <4>3, <4>4 DEF Home
      <3> QED BY <3>1, <3>2
    <2>6. ASSUME NEW f \in PromptFiles'
          PROVE  \/ \E g \in Known' : f[3] = prompt'[g]
                 \/ \E u \in outstanding' : u.event = "PROMPT_ACCEPTED" /\ u.dst = f
      <3>1. CASE f \in PromptFiles BY <1>1, <3>1 DEF Filing, PromptNeverLost
      <3>2. CASE f = t.dst
        BY <1>1, <1>4, <2>1, <3>2 DEF Recorded, Transacting, Prepared
      <3> QED BY <2>2, <3>1, <3>2
    <2>7. PromptNeverLost' BY <1>1, <2>5, <2>6 DEF PromptNeverLost
    <2> QED BY <1>2, <2>3, <2>7 DEF Filing
  <1> QED BY <1>3, <1>4

LEMMA FilingTerminal ==
    ASSUME Typed, Flight, Recorded, Filing, Terminal
    PROVE  Filing'
  <1> DEFINE t == op.tx
             n == op.tx.gen
  <1>1. /\ Prepared(t) /\ ValidTx(t) /\ outstanding = {t} /\ outstanding' = {}
        /\ op'.pc \notin {"terminal", "owner"} /\ PromptFiles' = PromptFiles /\ op'.tx = op.tx
    BY AfterTerminal, TerminalEffect DEF PromptFiles, Terminal, disk
  <1>2. \A p : FilesOf(p)' = FilesOf(p) BY <1>1 DEF FilesOf
  <1>3. SUFFICES PromptNeverLost' BY <1>1 DEF Filing
  <1>4. CASE t.event = "PROMPT_REJECTED"
    <2>1. UNCHANGED <<status, prompt>> BY <1>4, TerminalEffect DEF records
    <2>2. \A g \in Known : FilesOf(prompt[g]) # {t.dst}
      <3>1. t.dst[1] \notin LifeDirs BY <1>1, <1>4 DEF Prepared, LifeDirs
      <3>2. \A p : t.dst \notin FilesOf(p) BY <3>1 DEF FilesOf, PromptFiles
      <3> QED BY <3>2
    <2>3. \A g \in Known : FilesOf(prompt[g]) = {Home(g)}
      BY <1>1, <2>2 DEF Filing, PromptNeverLost
    <2>4. ASSUME NEW g \in Known PROVE FilesOf(prompt[g])' = {Home(g)'}
      <3>1. FilesOf(prompt[g])' = FilesOf(prompt[g]) BY <1>1, <2>1 DEF FilesOf
      <3> QED BY <2>1, <2>3, <3>1 DEF Home
    <2>5. \A f \in PromptFiles' : \E g \in Known : f[3] = prompt'[g]
      BY <1>1, <1>4, <2>1 DEF Filing, PromptNeverLost
    <2>6. Known' = Known BY <2>1 DEF Known
    <2> QED BY <2>4, <2>5, <2>6 DEF PromptNeverLost
  <1>5. CASE t.event # "PROMPT_REJECTED"
    <2>1. /\ n \in Gens /\ status' = [status EXCEPT ![n] = Outcome[t.event]]
          /\ t.event # "PROMPT_ACCEPTED" => UNCHANGED prompt /\ n \in Known
          /\ t.event = "PROMPT_ACCEPTED" =>
                prompt' = [prompt EXCEPT ![n] = t.prompt] /\ n \notin Known
          /\ t.event \in Transitions
      BY <1>1, <1>5, TerminalEffect DEF ValidTx, Txs
    <2>2. /\ status \in [Gens -> Statuses] /\ prompt \in [Gens -> Prompts \cup {NoPrompt}]
      BY DEF Typed, TypeOK, JournalTypeOK
    <2>3. prompt'[n] = t.prompt
      BY <1>1, <1>5, <2>1, <2>2 DEF Prepared
    <2>4. Home(n)' = t.dst /\ n \in Known'
      <3>1. status'[n] = Outcome[t.event] BY <2>1, <2>2
      <3>2. t.dst = <<Dir[Outcome[t.event]], "canonical", t.prompt>>
        BY <1>1, <1>5 DEF Prepared, Dir, Outcome
      <3>3. Outcome[t.event] # "NONE" BY <1>5, <2>1 DEF Outcome, Transitions
      <3> QED BY <1>1, <2>1, <2>3, <3>1, <3>2, <3>3 DEF Home, Known
    <2>5. FilesOf(t.prompt) = {t.dst}
      BY <1>5 DEF Filing, Terminal
    <2>6. FilesOf(prompt[n])' = {Home(n)'}
      <3>1. FilesOf(prompt[n])' = FilesOf(t.prompt) BY <1>1, <2>3 DEF FilesOf
      <3> QED BY <2>4, <2>5, <3>1
    <2>7. ASSUME NEW g \in Known', g # n PROVE g \in Known /\ FilesOf(prompt[g])' = {Home(g)'}
      <3>1. g \in Gens /\ status'[g] = status[g] /\ prompt'[g] = prompt[g]
        BY <2>1, <2>2, <2>7 DEF Known
      <3>2. g \in Known BY <3>1 DEF Known
      <3>3. FilesOf(prompt[g]) = {Home(g)} BY <1>1, <2>7, <3>2 DEF Filing, PromptNeverLost
      <3>4. FilesOf(prompt[g])' = FilesOf(prompt[g]) BY <1>1, <3>1 DEF FilesOf
      <3> QED BY <3>1, <3>2, <3>3, <3>4 DEF Home
    <2>8. ASSUME NEW f \in PromptFiles' PROVE \E g \in Known' : f[3] = prompt'[g]
      <3>1. CASE \E g \in Known : f[3] = prompt[g]
        <4>1. PICK g \in Known : f[3] = prompt[g] BY <3>1
        <4>2. g \in Gens BY DEF Known
        <4>3. prompt'[g] = prompt[g] BY <2>1, <2>2, <4>2
        <4>4. g \in Known'
          BY <2>1, <2>2, <2>4, <4>2 DEF Known
        <4> QED BY <4>1, <4>3, <4>4
      <3>2. CASE t.event = "PROMPT_ACCEPTED" /\ t.dst = f
        <4>1. f[3] = t.prompt BY <1>1, <3>2 DEF Prepared
        <4> QED BY <2>3, <2>4, <4>1
      <3> QED BY <1>1, <3>1, <3>2 DEF Filing, PromptNeverLost
    <2>9. \A g \in Known' : FilesOf(prompt[g])' = {Home(g)'}
      <3> SUFFICES ASSUME NEW g \in Known' PROVE FilesOf(prompt[g])' = {Home(g)'}
        OBVIOUS
      <3>1. CASE g = n BY <1>1, <2>6, <3>1 DEF FilesOf, Home
      <3>2. CASE g # n BY <2>7, <3>2
      <3> QED BY <3>1, <3>2
    <2> QED BY <2>8, <2>9 DEF PromptNeverLost
  <1> QED BY <1>4, <1>5

LEMMA FilingPublishOwner ==
    ASSUME Typed, Flight, Recorded, Filing, PublishOwner
    PROVE  Filing'
  <1>1. /\ UNCHANGED <<status, prompt, outstanding, spool>> /\ op.tx \in outstanding
        /\ UNCHANGED PromptFiles /\ op.pc = "owner"
    BY DEF PublishOwner, Flight, Carrying, journalVars, records, PromptFiles
  <1>2. /\ op'.tx = op.tx
        /\ op'.pc = "terminal" => op.tx.src \notin spool
    BY GotoType DEF PublishOwner, Typed, PCs, TxPCs
  <1>3. op.tx.event = "RUN_STARTED"
    BY <1>1 DEF Typed, LocalsOK, ValidTx, Filing, TxPCs
  <1>4. op'.pc = "terminal" => FilesOf(op.tx.prompt) = {op.tx.dst}
    BY <1>1, <1>2, <1>3, AlreadyMoved DEF Filing
  <1>5. op'.pc # "owner" BY GotoType DEF PublishOwner, Typed, PCs, TxPCs
  <1> QED BY <1>1, <1>2, <1>4, <1>5, FilingKept

LEMMA FilingRecover ==
    ASSUME Typed, Flight, Recorded, Filing, RecoverTransaction
    PROVE  Filing'
  <1>1. PICK t \in outstanding :
           /\ Resolvable(t)
           /\ Move(t, IF t.owned THEN "owner"
                      ELSE IF t.src \in spool THEN "rename" ELSE "terminal", "resolve")
    BY DEF RecoverTransaction
  <1>2. /\ op'.tx = t
        /\ op'.pc = "terminal" => t.src \notin spool
        /\ op'.pc = "owner" => t.owned
    BY <1>1, MoveFields
  <1>3. UNCHANGED <<status, prompt, outstanding, spool>> /\ UNCHANGED PromptFiles
    BY DEF RecoverTransaction, journalVars, records, disk, PromptFiles
  <1>4. op'.pc = "terminal" /\ t.event # "PROMPT_REJECTED" => FilesOf(t.prompt) = {t.dst}
    BY <1>1, <1>2, AlreadyMoved DEF Resolvable, Filing
  <1> QED BY <1>2, <1>3, <1>4, FilingKept

\* A step that leaves the spool alone, and comes to no terminal event.
LEMMA FilingUntouched ==
    ASSUME Filing, UNCHANGED <<status, prompt, spool>>, outstanding \subseteq outstanding',
           op'.pc # "terminal", op'.pc = "owner" => op'.tx.owned
    PROVE  Filing'
  BY FilingKept DEF PromptFiles

LEMMA FilingQuiet ==
    ASSUME Typed, Filing,
           \/ Environment \/ Fault \/ Rebuild \/ Save \/ TerminalRefused
           \/ PublishPolicyRefused \/ CheckpointRefused \/ UNCHANGED vars
           \/ RecoverRefused \/ RecoverArtifact \/ RecoverSave \/ RecoverFailed
           \/ \E g \in Gens : \/ ExecutorLogs(g) \/ WriteResult(g) \/ CollectUsage(g)
                              \/ TelemetryFails(g) \/ ExecutorRaises(g) \/ WriteFailureLogs(g)
                              \/ WriteFailure(g) \/ Replay(g) \/ UnlockedSave(g)
                              \/ DriverRefused(g)
    PROVE  Filing'
  <1>1. UNCHANGED <<status, prompt, outstanding>> /\ (op' = Idle \/ UNCHANGED op)
    BY QuietFrame DEF Still, records
  <1>2. UNCHANGED PromptFiles
    <2>1. CASE \E n \in Names, p \in Prompts : DropPrompt(n, p)
      <3>1. PICK n \in Names, p \in Prompts : spool' = spool \cup {<<"inbox", n, p>>}
        BY <2>1 DEF DropPrompt
      <3> QED BY <3>1 DEF PromptFiles, LifeDirs
    <2>2. CASE ~\E n \in Names, p \in Prompts : DropPrompt(n, p)
      <3>1. UNCHANGED spool
        BY <2>2 DEF Environment, EditRepository, CommitRepository, Fault, SaveFails, StartFails,
             IntentFails, Crash, KillDriver, Rebuild, Save, TerminalRefused, PublishPolicyRefused,
             CheckpointRefused, RecoverRefused, RecoverArtifact, RecoverSave, RecoverFailed,
             ExecutorLogs, WriteResult, CollectUsage, TelemetryFails, ExecutorRaises,
             WriteFailureLogs, WriteFailure, Replay, UnlockedSave, DriverRefused, DriverQuiet,
             disk, vars
      <3> QED BY <3>1 DEF PromptFiles
    <2> QED BY <2>1, <2>2
  <1>3. CASE op' = Idle BY <1>1, <1>2, <1>3, FilingKept DEF Idle
  <1>4. CASE UNCHANGED op BY <1>1, <1>2, <1>4, FilingKept DEF Filing
  <1> QED BY <1>1, <1>3, <1>4

LEMMA FilingCommand ==
    ASSUME Typed, Filing,
           \/ InitBegin \/ AdoptBegin \/ IngestBegin \/ RecoverBegin
           \/ \E g \in Gens :
                 \/ \E by \in {"operator", "driver"} : CompleteBegin(g, by) \/ InterruptBegin(g, by)
                 \/ CancelBegin(g) \/ CheckpointBegin(g) \/ \E b \in BOOLEAN : StartBegin(g, b)
    PROVE  Filing'
  <1>1. UNCHANGED <<status, prompt, outstanding, spool>>
    BY DEF InitBegin, AdoptBegin, IngestBegin, RecoverBegin, CompleteBegin, InterruptBegin,
           CancelBegin, CheckpointBegin, StartBegin, journalVars, records, disk
  <1>2. CASE InitBegin \/ AdoptBegin \/ IngestBegin \/ RecoverBegin
    BY <1>1, <1>2, FilingUntouched
       DEF InitBegin, AdoptBegin, IngestBegin, RecoverBegin, Hold, Idle
  <1>3. ASSUME NEW g \in Gens,
               \/ \E by \in {"operator", "driver"} : CompleteBegin(g, by) \/ InterruptBegin(g, by)
               \/ CancelBegin(g) \/ CheckpointBegin(g) \/ \E b \in BOOLEAN : StartBegin(g, b)
        PROVE  Filing'
    <2>1. op'.pc \in {"prepare", "policy", "intent"} BY <1>3, BeginSteps
    <2> QED BY <1>1, <2>1, FilingUntouched
  <1> QED BY <1>2, <1>3

LEMMA FilingLocked ==
    ASSUME Typed, Filing,
           \/ InitAppend \/ AdoptAppend \/ Receive \/ Process \/ Archive \/ PublishPolicy \/ Prepare
           \/ CheckpointIntent \/ CheckpointAdvance \/ CheckpointVerify \/ CheckpointFinish
           \/ RecoverRollback \/ RecoverAbort \/ RecoverForward
    PROVE  Filing'
  <1>1. UNCHANGED <<status, prompt, spool>> /\ outstanding \subseteq outstanding'
    BY DEF InitAppend, AdoptAppend, Receive, Process, Archive, PublishPolicy, Prepare,
           CheckpointIntent, CheckpointAdvance, CheckpointVerify, CheckpointFinish,
           RecoverRollback, RecoverAbort, RecoverForward, LogInitialized, LogAdopted, LogReceived,
           LogPrepared, LogIntent, LogAborted, journalVars, records, disk
  <1>2. CASE Prepare
    BY <1>1, <1>2, GotoType, FilingUntouched DEF Prepare, Typed, PCs, TxPCs
  <1>3. CASE Receive \/ Process
    <2>1. CASE UNCHANGED op BY <1>1, <2>1, FilingKept DEF Filing, PromptFiles
    <2>2. CASE ~UNCHANGED op BY <1>1, <1>3, <2>2, IngestMoves, FilingUntouched
    <2> QED BY <2>1, <2>2
  <1>4. CASE \/ InitAppend \/ AdoptAppend \/ Archive \/ PublishPolicy
             \/ CheckpointIntent \/ CheckpointAdvance \/ CheckpointVerify \/ RecoverAbort
    <2>1. PICK pc \in PCs \ {"terminal", "owner"} : Goto(pc)
      BY <1>4 DEF InitAppend, AdoptAppend, Archive, PublishPolicy, CheckpointIntent,
                  CheckpointAdvance, CheckpointVerify, RecoverAbort, PCs, TxPCs
    <2>2. op'.pc = pc BY <2>1, GotoType DEF Typed
    <2> QED BY <1>1, <2>2, FilingUntouched
  <1>5. CASE CheckpointFinish
    <2>1. op'.pc = "prepare" BY <1>5, MoveFields DEF CheckpointFinish
    <2> QED BY <1>1, <2>1, FilingUntouched
  <1>6. CASE RecoverRollback BY <1>1, <1>6, RollbackMoves, FilingUntouched
  <1>7. CASE RecoverForward
    <2>1. op'.pc = "finish" BY <1>7 DEF RecoverForward, Typed, TypeOK, ProcessTypeOK, Ops
    <2> QED BY <1>1, <2>1, FilingUntouched
  <1> QED BY <1>2, <1>3, <1>4, <1>5, <1>6, <1>7

LEMMA FilingInit == Init => Filing
  BY DEF Init, JournalInit, Filing, PromptNeverLost, PromptFiles, Known, Idle

LEMMA FilingNext == Typed /\ Flight /\ Recorded /\ Filing /\ [Next]_vars => Filing'
  <1> SUFFICES ASSUME Typed, Flight, Recorded, Filing, [Next]_vars PROVE Filing'
    OBVIOUS
  <1>1. CASE Command BY <1>1, FilingQuiet, FilingCommand DEF Command
  <1>2. CASE Locked
    BY <1>2, FilingQuiet, FilingLocked, FilingTerminal, FilingRename, FilingPublishOwner,
       FilingRecover DEF Locked
  <1>3. ASSUME NEW g \in Gens, Executing(g) PROVE Filing'
    BY <1>3, FilingQuiet, FilingCommand DEF Executing
  <1> QED BY <1>1, <1>2, <1>3, FilingQuiet DEF Next

LEMMA AlwaysFiling == Spec => []Filing
  BY FilingInit, FilingNext, AlwaysTyped, AlwaysFlight, AlwaysRecorded, PTL DEF Spec

\* The prompt file of a known generation exists exactly once, in the directory its status names or
\* where the unresolved transition took it, whatever crashes between PREPARED, rename and
\* terminal event and however recover goes on; and no directory of the life cycle holds a
\* file that is neither known nor being accepted.
THEOREM PromptNeverLostCorrect == Spec => []PromptNeverLost
  <1>1. Filing => PromptNeverLost BY DEF Filing
  <1> QED BY <1>1, AlwaysFiling, PTL

-----------------------------------------------------------------------------
(* The life cycle.                                                         *)

lifecycle == <<status, prompt, wit, boundary>>

LEMMA LifecycleInit == Init => Lifecycle!Init
  BY DEF Init, JournalInit, NoPrompt, NoWitness, Lifecycle!Init, Lifecycle!Gens, Lifecycle!Unset,
         Gens

\* Each terminal event is one step of the life cycle.
LEMMA LifecycleTerminal ==
    ASSUME Typed, Flight, Starting, Recorded, Terminal
    PROVE  [Lifecycle!Next]_lifecycle
  <1> DEFINE t == op.tx
             g == op.tx.gen
  <1>0. /\ Prepared(t) /\ ValidTx(t) /\ Admissible(t) /\ t.event \in Transitions
        /\ t.prompt \in Prompts /\ t.wit \in Witnesses
        /\ status \in [Gens -> Statuses] /\ Lifecycle!Gens = Gens
        /\ Lifecycle!Witnesses = Witnesses
    BY TerminalEffect
       DEF ValidTx, Txs, Typed, TypeOK, JournalTypeOK, Gens, Lifecycle!Gens, Witnesses,
           Lifecycle!Witnesses
  <1>1. CASE t.event = "PROMPT_REJECTED"
    BY <1>1, TerminalEffect DEF records, lifecycle
  <1>2. CASE t.event = "PROMPT_ACCEPTED"
    <2>1. /\ g \in Gens /\ status' = [status EXCEPT ![g] = "ACCEPTED"] /\ boundary' = boundary
          /\ prompt' = [prompt EXCEPT ![g] = t.prompt] /\ wit' = [wit EXCEPT ![g] = boundary]
          /\ Known = 1..(g - 1) /\ t.prompt.gen = g /\ t.prompt.parent = g - 1
          /\ t.prompt.head = boundary.head
      BY <1>2, TerminalEffect DEF Prepared, Outcome
    <2>2. \A h \in Gens : h < g <=> status[h] # "NONE"
      <3>1. g \in Nat /\ \A h \in Gens : h \in Nat /\ h >= 1
        BY <2>1, MaxGenAssumption DEF Gens
      <3>2. \A h \in Gens : h \in Known <=> status[h] # "NONE" BY DEF Known
      <3>3. \A h \in Gens : h \in 1..(g - 1) <=> h < g BY <3>1
      <3> QED BY <2>1, <3>2, <3>3
    <2>3. Lifecycle!Accept(g, t.prompt) BY <1>0, <2>1, <2>2 DEF Lifecycle!Accept
    <2> QED BY <1>0, <2>1, <2>3 DEF Lifecycle!Next
  <1>3. CASE t.event \in Transitions \ {"PROMPT_REJECTED", "PROMPT_ACCEPTED"}
    <2>1. /\ g \in Gens /\ status' = [status EXCEPT ![g] = Outcome[t.event]]
          /\ UNCHANGED <<prompt, wit>> /\ t.prompt = prompt[g]
          /\ status[g] = IF t.event \in {"PROMPT_CANCELLED", "RUN_STARTED"}
                         THEN "ACCEPTED" ELSE "RUNNING"
      BY <1>3, TerminalEffect DEF Prepared
    <2>2. CASE t.event = "PROMPT_CANCELLED"
      <3>1. Lifecycle!Cancel(g) BY <2>1, <2>2, TerminalEffect DEF Lifecycle!Cancel, Outcome
      <3> QED BY <1>0, <2>1, <3>1 DEF Lifecycle!Next
    <2>3. CASE t.event = "RUN_STARTED"
      <3>1. Running = {} BY <2>3, TerminalEffect DEF Starting
      <3>2. \A h \in Gens : status[h] # "RUNNING" BY <3>1 DEF Running
      <3>3. Lifecycle!Start(g)
        BY <1>0, <2>1, <2>3, <3>2, TerminalEffect DEF Lifecycle!Start, Outcome
      <3> QED BY <1>0, <2>1, <3>3 DEF Lifecycle!Next
    <2>4. CASE t.event = "RUN_INTERRUPTED"
      <3>1. Lifecycle!Interrupt(g) BY <2>1, <2>4, TerminalEffect DEF Lifecycle!Interrupt, Outcome
      <3> QED BY <1>0, <2>1, <3>1 DEF Lifecycle!Next
    <2>5. CASE t.event = "RUN_COMPLETED"
      <3>1. boundary' = t.wit BY <2>5, TerminalEffect
      <3>2. Lifecycle!WithinPolicy(g, t.wit)
        <4>1. prompt[g].action \in Actions BY <1>0, <2>1, PromptsAssumption
        <4>2. CASE prompt[g].action = "checkpoint"
          <5>1. PICK i \in intents : i.gen = g /\ i.commit = t.wit.head
            BY <1>0, <2>1, <2>5, <4>2 DEF Admissible
          <5>2. Attested(g, t.wit) BY <1>0, <2>1, <2>5, <4>2, <5>1 DEF Prepared
          <5>3. wit[g].head < t.wit.head
            BY <5>1 DEF Recorded, Landed, Attributed
          <5>4. wit[g].head # t.wit.head BY <2>1, <5>1, <5>3, Numbers
          <5> QED BY <4>2, <5>2, <5>4 DEF Attested, Clean, Lifecycle!WithinPolicy, Lifecycle!Clean
        <4>3. CASE prompt[g].action # "checkpoint"
          <5>1. PolicyAllows(t.wit, g) BY <1>0, <2>1, <2>5, <4>3 DEF Prepared
          <5> QED BY <4>1, <4>3, <5>1 DEF Actions, PolicyAllows, Lifecycle!WithinPolicy
        <4> QED BY <4>2, <4>3
      <3>3. Lifecycle!Complete(g)
        BY <1>0, <2>1, <2>5, <3>1, <3>2 DEF Lifecycle!Complete, Outcome
      <3> QED BY <1>0, <2>1, <3>3 DEF Lifecycle!Next
    <2> QED BY <1>3, <2>2, <2>3, <2>4, <2>5 DEF Transitions
  <1> QED BY <1>0, <1>1, <1>2, <1>3

LEMMA LifecycleAppend ==
    ASSUME Typed, Recorded, InitAppend \/ AdoptAppend
    PROVE  Lifecycle!Next
  <1>1. /\ op.wit \in Witnesses /\ Lifecycle!Gens = Gens /\ Lifecycle!Witnesses = Witnesses
        /\ status \in [Gens -> Statuses]
    BY DEF Typed, TypeOK, ProcessTypeOK, JournalTypeOK, Ops, Gens, Lifecycle!Gens, Witnesses,
           Lifecycle!Witnesses
  <1>2. CASE InitAppend
    <2>1. Known = {} /\ boundary = NoWitness
      BY <1>2 DEF InitAppend, LogInitialized, Recorded, Transacting
    <2>2. /\ \A g \in Gens : status[g] = "NONE"
          /\ boundary' = op.wit /\ UNCHANGED <<status, prompt, wit>>
      BY <1>2, <2>1 DEF InitAppend, LogInitialized, Known, records
    <2>3. Lifecycle!Initialize
      BY <1>1, <2>1, <2>2 DEF Lifecycle!Initialize, Lifecycle!Unset, NoWitness
    <2> QED BY <2>3 DEF Lifecycle!Next
  <1>3. CASE AdoptAppend
    <2>1. Clean(op.wit) /\ op.wit # boundary BY <1>3 DEF AdoptAppend, Recorded, Transacting
    <2>2. /\ \A g \in Known : status[g] \in TerminalStatuses
          /\ boundary' = op.wit /\ UNCHANGED <<status, prompt, wit>>
      BY <1>3 DEF AdoptAppend, LogAdopted, AdoptionAdmissible, records
    <2>3. \A g \in Gens : status[g] \in {"NONE", "COMPLETED", "INTERRUPTED", "CANCELLED"}
      BY <2>2 DEF Known, TerminalStatuses
    <2>4. Lifecycle!Adopt
      BY <1>1, <2>1, <2>2, <2>3 DEF Lifecycle!Adopt, Clean, Lifecycle!Clean
    <2> QED BY <2>4 DEF Lifecycle!Next
  <1> QED BY <1>2, <1>3

\* No other step of a lock holder appends an event that the life cycle sees.
LEMMA LifecycleLocked ==
    ASSUME \/ Receive \/ Process \/ Archive \/ PublishPolicy \/ Prepare \/ PublishOwner \/ Rename
           \/ CheckpointIntent \/ CheckpointAdvance \/ CheckpointVerify \/ CheckpointFinish
           \/ RecoverTransaction \/ RecoverRollback \/ RecoverAbort \/ RecoverForward
    PROVE  UNCHANGED lifecycle
  BY DEF Receive, Process, Archive, PublishPolicy, Prepare, PublishOwner, Rename,
         CheckpointIntent, CheckpointAdvance, CheckpointVerify, CheckpointFinish,
         RecoverTransaction, RecoverRollback, RecoverAbort, RecoverForward, LogReceived,
         LogPrepared, LogIntent, LogAborted, journalVars, records, lifecycle

LEMMA LifecycleCommand ==
    ASSUME \/ InitBegin \/ AdoptBegin \/ IngestBegin \/ RecoverBegin
           \/ \E g \in Gens :
                 \/ \E by \in {"operator", "driver"} : CompleteBegin(g, by) \/ InterruptBegin(g, by)
                 \/ CancelBegin(g) \/ CheckpointBegin(g) \/ \E b \in BOOLEAN : StartBegin(g, b)
    PROVE  UNCHANGED lifecycle
  BY DEF InitBegin, AdoptBegin, IngestBegin, RecoverBegin, CompleteBegin, InterruptBegin,
         CancelBegin, CheckpointBegin, StartBegin, journalVars, records, lifecycle

LEMMA LifecycleNext ==
    Typed /\ Flight /\ Starting /\ Recorded /\ [Next]_vars => [Lifecycle!Next]_lifecycle
  <1> SUFFICES ASSUME Typed, Flight, Starting, Recorded, [Next]_vars
               PROVE  [Lifecycle!Next]_lifecycle
    OBVIOUS
  <1> USE DEF lifecycle, Quiet, journalVars, records
  <1>1. CASE Quiet BY <1>1
  <1>2. CASE Command BY <1>1, <1>2, QuietSteps, LifecycleCommand DEF Command
  <1>3. CASE Locked
    BY <1>1, <1>3, QuietSteps, LifecycleLocked, LifecycleTerminal, LifecycleAppend DEF Locked
  <1>4. ASSUME NEW g \in Gens, Executing(g) PROVE [Lifecycle!Next]_lifecycle
    BY <1>1, <1>4, QuietSteps, LifecycleCommand DEF Executing
  <1> QED BY <1>1, <1>2, <1>3, <1>4, QuietSteps DEF Next

\* The journal's projection implements AtlasLifecycle for every set of prompts and every bound:
\* no interleaving of commands, crashes and repairs takes a generation, its prompt or the boundary
\* out of the life cycle, and the boundary moves only within the policy of the run that ends.
THEOREM LifecycleImplemented == Spec => ImplementsLifecycle
  <1>1. Typed /\ Flight /\ Starting /\ Recorded /\ [Next]_vars
          => [Lifecycle!Next]_<<status, prompt, wit, boundary>>
    BY LifecycleNext DEF lifecycle
  <1> QED
    BY LifecycleInit, <1>1, AlwaysTyped, AlwaysFlight, AlwaysStarting, AlwaysRecorded, PTL
       DEF Spec, ImplementsLifecycle, Lifecycle!Spec, Lifecycle!vars

-----------------------------------------------------------------------------
(* Commands end: the safety behind the fairness of the lock holder.        *)

\* What a program counter asks for before the step it stands at, where that is not left to a
\* refusal: that replay accepts the event Journal.append is about to write, and that there is
\* a first file to go on with.
CanGoOn ==
    /\ op.pc # "idle"
    /\ op.pc = "append" =>
          IF op.kind = "init" THEN journal = <<>> ELSE op.kind = "adopt" /\ AdoptionAdmissible
    /\ op.pc = "intent" =>
          IntentAdmissible([seq |-> NextSeq, gen |-> op.gen, parent |-> wit[op.gen].head,
                            commit |-> op.wit.head, wit |-> wit[op.gen]])
    /\ op.pc = "abort" => \E i \in intents : i.gen = op.gen /\ status[i.gen] = "ACCEPTED"
    /\ op.pc = "ingest" =>
          /\ batch.todo # {} => \E f \in batch.todo : \A h \in batch.todo : f[1] <= h[1]
          /\ batch.parsed # {} => \E f \in batch.parsed : IsFirst(f)

\* What is checked, or decided, a step before it is used.
Going ==
    /\ op.pc = "idle" => Free
    /\ op.pc \in TxPCs \cup {"archive", "policy"} => op.next # "idle"
    /\ op.pc = "append" =>
          IF op.kind = "init" THEN journal = <<>> ELSE op.kind = "adopt" /\ AdoptionAdmissible
    /\ op.pc = "abort" => \E i \in intents : i.gen = op.gen /\ status[i.gen] = "ACCEPTED"

\* The steps a transaction has left, and what comes after its terminal event.
Ahead ==
    CASE op.next = "finish" -> 15
      [] op.next = "resolve" /\ op.tx.event # "RUN_COMPLETED" /\ intents # {} -> 32
      [] OTHER -> 1
Place == [save |-> 1, ingest |-> 1, append |-> 2, terminal |-> 2, rename |-> 3, owner |-> 4,
          prepare |-> 5, archive |-> 6, policy |-> 6, verify |-> 24, advance |-> 25,
          intent |-> 26, abort |-> 27]

\* A bound on the steps the lock holder has before it, files and artifacts apart.
Stage ==
    CASE op.pc \in TxPCs \cup {"archive", "policy"} -> Ahead + Place[op.pc]
      [] op.pc = "finish"  -> IF status[op.gen] = "ACCEPTED" THEN 23 ELSE 8
      [] op.pc = "resolve" -> IF outstanding # {} THEN 40 ELSE IF intents # {} THEN 32 ELSE 1
      [] op.pc = "idle"    -> 0
      [] OTHER -> Place[op.pc]

\* The artifacts recover has still to derive.
Underived == {x \in Fallbacks : art[x[1]][x[2]] = "none"}

Shrinks(new, old) == new \subseteq old /\ new # old

\* Files to read, prompts to take, the stage and the artifacts to derive, in this order.
Shortens ==
    \/ op' = Idle
    \/ Shrinks(batch'.todo, batch.todo)
    \/ batch'.todo = batch.todo /\ Shrinks(batch'.parsed, batch.parsed)
    \/ batch' = batch /\ Stage' < Stage
    \/ batch' = batch /\ Stage' = Stage /\ Shrinks(Underived', Underived)

Lasts ==
    \/ op' = Idle
    \/ UNCHANGED <<op, batch, Stage>> /\ Underived' \subseteq Underived

\* Each step of its own brings the lock holder nearer to releasing the lock, and nothing anybody
\* else does meanwhile takes it further away.
CommandShortens == [][~Free => IF Locked THEN Shortens ELSE Lasts]_vars

\* The cases of Stage, before and after a step.
StageCases ==
    /\ op.pc \in TxPCs \cup {"archive", "policy"} => Stage = Ahead + Place[op.pc]
    /\ op.pc = "finish" => Stage = IF status[op.gen] = "ACCEPTED" THEN 23 ELSE 8
    /\ op.pc = "resolve" =>
          Stage = IF outstanding # {} THEN 40 ELSE IF intents # {} THEN 32 ELSE 1
    /\ op.pc = "idle" => Stage = 0
    /\ op.pc \in {"save", "ingest", "append", "verify", "advance", "intent", "abort"} =>
          Stage = Place[op.pc]
    /\ Ahead = IF op.next = "finish" THEN 15
               ELSE IF op.next = "resolve" /\ op.tx.event # "RUN_COMPLETED" /\ intents # {}
                    THEN 32 ELSE 1

LEMMA StageAt == StageCases /\ StageCases'
  <1>1. StageCases BY DEF StageCases, Stage, Ahead, TxPCs
  <1>2. StageCases' BY DEF StageCases, Stage, Ahead, TxPCs
  <1> QED BY <1>1, <1>2

\* From one program counter to another, for the steps that keep the transaction and its end.
LEMMA GotoShortens ==
    ASSUME Typed, NEW pc \in PCs, Goto(pc),
           \/ /\ op.pc \in TxPCs \cup {"archive", "policy"} /\ pc \in TxPCs
              /\ UNCHANGED intents /\ Place[pc] < Place[op.pc]
           \/ /\ {op.pc, pc} \subseteq {"save", "append", "verify", "advance", "intent"}
              /\ Place[pc] < Place[op.pc]
           \/ op.pc = "verify" /\ pc = "finish"
           \/ op.pc = "abort" /\ pc = "resolve" /\ outstanding' = {} /\ intents' = {}
    PROVE  Shortens
  <1>1. /\ op'.pc = pc /\ op'.tx = op.tx /\ op'.gen = op.gen /\ op'.next = op.next
        /\ batch' = batch
    BY GotoType DEF Goto, Typed
  <1>2. UNCHANGED intents => Ahead' = Ahead BY <1>1 DEF Ahead
  <1>3. Ahead \in Int BY DEF Ahead
  <1>4. Stage' < Stage BY <1>1, <1>2, <1>3, StageAt DEF StageCases, Place, TxPCs
  <1> QED BY <1>1, <1>4 DEF Shortens

\* The steps that go to a program counter with the transaction they have.
LEMMA StepsShorten ==
    ASSUME Typed, Flight,
           \/ InitAppend \/ AdoptAppend \/ Archive \/ PublishPolicy \/ Prepare \/ PublishOwner \/ Rename
           \/ CheckpointIntent \/ CheckpointAdvance \/ CheckpointVerify \/ RecoverAbort
    PROVE  Shortens
  <1> USE DEF PCs, TxPCs, Place
  <1>1. CASE InitAppend \/ AdoptAppend
    BY <1>1, GotoShortens DEF InitAppend, AdoptAppend
  <1>2. CASE Archive \/ PublishPolicy
    BY <1>2, GotoShortens DEF Archive, PublishPolicy, journalVars
  <1>3. CASE Prepare
    <2>1. PICK pc \in {"owner", "rename"} : Goto(pc) BY <1>3 DEF Prepare
    <2> QED BY <1>3, <2>1, GotoShortens DEF Prepare, LogPrepared
  <1>4. CASE PublishOwner \/ Rename
    <2>1. PICK pc \in {"rename", "terminal"} :
             Goto(pc) /\ UNCHANGED intents /\ (op.pc = "owner" \/ (op.pc = "rename" /\ pc = "terminal"))
      BY <1>4 DEF PublishOwner, Rename, journalVars
    <2> QED BY <2>1, GotoShortens
  <1>5. CASE CheckpointIntent \/ CheckpointAdvance \/ CheckpointVerify
    BY <1>5, GotoShortens DEF CheckpointIntent, CheckpointAdvance, CheckpointVerify
  <1>6. CASE RecoverAbort
    <2>1. op.pc = "abort" /\ Goto("resolve") BY <1>6 DEF RecoverAbort
    <2>2. outstanding' = {} /\ intents' = {}
      BY <1>6, <2>1 DEF RecoverAbort, LogAborted, Flight, Carrying
    <2> QED BY <2>1, <2>2, GotoShortens
  <1> QED BY <1>1, <1>2, <1>3, <1>4, <1>5, <1>6

\* The terminal event: what it leaves to do has been counted.
LEMMA TerminalShortens ==
    ASSUME Typed, Flight, Recorded, Going, Terminal
    PROVE  Shortens
  <1>1. /\ op'.pc = op.next /\ op'.gen = op.gen /\ op.pc = "terminal" /\ batch' = batch
        /\ op.next \in {"save", "ingest", "finish", "resolve"} /\ outstanding' = {}
        /\ op.next = "finish" => op.tx.event = "RUN_STARTED" /\ op.tx.gen = op.gen
    BY AfterTerminal DEF Terminal, Goto, Going, TxPCs
  <1>2. op.next = "finish" => status'[op.gen] = "RUNNING"
    BY <1>1, TerminalEffect DEF Outcome, Typed, TypeOK, JournalTypeOK
  <1>3. intents' \subseteq intents /\ (op.tx.event = "RUN_COMPLETED" => intents' = {})
    <2>1. \A i \in intents : i.gen = op.tx.gen BY <1>1 DEF Flight, TxPCs
    <2> QED BY <2>1 DEF Terminal, LogTerminal
  <1>4. Stage' < Stage BY <1>1, <1>2, <1>3, StageAt DEF StageCases, Place, TxPCs
  <1> QED BY <1>1, <1>4 DEF Shortens

\* A file is read or a prompt is taken.
LEMMA IngestShortens ==
    ASSUME Typed, Receive \/ Process
    PROVE  Shortens
  <1>0. batch \in Batches BY DEF Typed, TypeOK, ProcessTypeOK
  <1>1. CASE Receive
    <2>1. PICK f \in batch.todo :
             \/ batch' = [batch EXCEPT !.todo = batch.todo \ {f}]
             \/ batch' = [batch EXCEPT !.todo = batch.todo \ {f}, !.parsed = batch.parsed \cup {f}]
      BY <1>1 DEF Receive
    <2>2. batch'.todo = batch.todo \ {f} BY <1>0, <2>1 DEF Batches
    <2> QED BY <2>2 DEF Shortens, Shrinks
  <1>2. CASE Process
    <2>1. PICK f \in batch.parsed : batch' = [batch EXCEPT !.parsed = batch.parsed \ {f}]
      BY <1>2 DEF Process
    <2>2. batch'.todo = batch.todo /\ batch'.parsed = batch.parsed \ {f} BY <1>0, <2>1 DEF Batches
    <2> QED BY <2>2 DEF Shortens, Shrinks
  <1> QED BY <1>1, <1>2

\* A checkpoint's run, and what recover takes up.
LEMMA MovesShorten ==
    ASSUME Typed, Flight, Recorded, CheckpointFinish \/ RecoverTransaction \/ RecoverForward
    PROVE  Shortens
  <1> USE DEF Place, TxPCs
  <1>1. CASE CheckpointFinish
    <2>1. /\ op.pc = "finish" /\ batch' = batch /\ UNCHANGED <<status, intents>>
          /\ \/ status[op.gen] = "ACCEPTED"
                  /\ Move(MoveTx("RUN_STARTED", op.gen, "running", wit[op.gen], FALSE, {}), "prepare", "finish")
             \/ /\ status[op.gen] # "ACCEPTED"
                /\ \E next \in {"resolve", "save"} :
                      Move(MoveTx("RUN_COMPLETED", op.gen, "completed", op.wit, FALSE, {}), "prepare", next)
      BY <1>1 DEF CheckpointFinish, journalVars, records
    <2>2. CASE status[op.gen] = "ACCEPTED"
      <3>1. op'.pc = "prepare" /\ op'.next = "finish" BY <2>1, <2>2, MoveFields
      <3>2. Stage' < Stage BY <2>1, <2>2, <3>1, StageAt DEF StageCases
      <3> QED BY <2>1, <3>2 DEF Shortens
    <2>3. CASE status[op.gen] # "ACCEPTED"
      <3>1. op'.pc = "prepare" /\ op'.next # "finish" /\ op'.tx.event = "RUN_COMPLETED"
        BY <2>1, <2>3, MoveFields DEF MoveTx, Tx
      <3>2. Stage' < Stage BY <2>1, <2>3, <3>1, StageAt DEF StageCases
      <3> QED BY <2>1, <3>2 DEF Shortens
    <2> QED BY <2>2, <2>3
  <1>2. CASE RecoverTransaction
    <2>1. PICK t \in outstanding, pc \in {"owner", "rename", "terminal"} : Move(t, pc, "resolve")
      BY <1>2 DEF RecoverTransaction
    <2>2. op'.pc = pc /\ op'.next = "resolve" /\ op.pc = "resolve" /\ batch' = batch
          /\ UNCHANGED <<outstanding, intents>>
      BY <1>2, <2>1, MoveFields DEF RecoverTransaction, Resolving, journalVars
    <2>3. Stage' < Stage BY <2>2, <2>1, StageAt DEF StageCases
    <2> QED BY <2>2, <2>3 DEF Shortens
  <1>3. CASE RecoverForward
    <2>1. op'.pc = "finish" /\ op.pc = "resolve" /\ batch' = batch /\ intents # {} /\ outstanding = {}
      BY <1>3 DEF RecoverForward, Resolving, Typed, TypeOK, ProcessTypeOK, Ops
    <2>2. Stage' < Stage BY <2>1, StageAt DEF StageCases
    <2> QED BY <2>1, <2>2 DEF Shortens
  <1> QED BY <1>1, <1>2, <1>3

\* A rollback, and an artifact that is derived.
LEMMA RecoverShortens ==
    ASSUME Typed, RecoverRollback \/ RecoverArtifact
    PROVE  Shortens
  <1>1. CASE RecoverRollback
    <2>1. /\ op' = Idle \/ (op'.pc = "abort" /\ batch' = batch)
          /\ op.pc = "resolve" /\ outstanding = {} /\ intents # {}
      BY <1>1 DEF RecoverRollback, Resolving, Release, Typed, TypeOK, ProcessTypeOK, Ops
    <2>2. op' # Idle => Stage' < Stage BY <2>1, StageAt DEF StageCases, Place
    <2> QED BY <2>1, <2>2 DEF Shortens
  <1>2. CASE RecoverArtifact
    <2>1. PICK x \in Fallbacks : /\ art[x[1]][x[2]] = "none"
                                 /\ art' = [art EXCEPT ![x[1]][x[2]] = Derived[x[2]]]
      BY <1>2 DEF RecoverArtifact
    <2>2. /\ art \in [Gens -> Reports] /\ x[1] \in Gens /\ x[2] \in Artifacts /\ x = <<x[1], x[2]>>
          /\ Fallbacks \subseteq Gens \X Artifacts
      BY DEF Fallbacks, Typed, TypeOK, JournalTypeOK, DiskTypeOK
    <2>3. UNCHANGED <<op, batch, journalVars>> BY <1>2 DEF RecoverArtifact, process
    <2>4. Stage' = Stage /\ Fallbacks' = Fallbacks
      BY <2>3 DEF Stage, Ahead, Fallbacks, journalVars, records
    <2>5. art'[x[1]][x[2]] # "none"
      BY <2>1, <2>2 DEF Artifacts, Derived, Reports
    <2>6. ASSUME NEW y \in Fallbacks, art'[y[1]][y[2]] = "none" PROVE art[y[1]][y[2]] = "none"
      BY <2>1, <2>2, <2>6 DEF Artifacts, Derived, Reports
    <2>7. Shrinks(Underived', Underived)
      BY <2>1, <2>4, <2>5, <2>6 DEF Shrinks, Underived
    <2> QED BY <2>3, <2>4, <2>7 DEF Shortens
  <1> QED BY <1>1, <1>2

\* Every step of its own brings the lock holder nearer to the end of its command.
LEMMA LockedShortens ==
    ASSUME Typed, Flight, Recorded, Going, Locked
    PROVE  Shortens
  <1>1. CASE \/ Save \/ TerminalRefused \/ PublishPolicyRefused \/ CheckpointRefused
             \/ RecoverRefused \/ RecoverSave \/ RecoverFailed
    BY <1>1 DEF Save, TerminalRefused, PublishPolicyRefused, CheckpointRefused, RecoverRefused,
                RecoverSave, RecoverFailed, Release, Shortens
  <1> QED
    BY <1>1, StepsShorten, TerminalShortens, IngestShortens, MovesShorten, RecoverShortens
       DEF Locked

\* What anybody else does meanwhile leaves it where it is; so does nothing at all.
LEMMA OthersLast ==
    ASSUME Typed, Flight, Going, ~Free, [Next]_vars, ~Locked
    PROVE  Lasts
  <1>1. ~Command
    BY DEF Command, InitBegin, Rebuild, AdoptBegin, IngestBegin, RecoverBegin, CancelBegin,
           CheckpointBegin, StartBegin, InterruptBegin, CompleteBegin, Hold, BeginMove
  <1>2. ASSUME NEW g \in Gens
        PROVE  ~DriverRefused(g) /\ ~CompleteBegin(g, "driver") /\ ~InterruptBegin(g, "driver")
    BY DEF DriverRefused, CompleteBegin, InterruptBegin, BeginMove
  <1>3. CASE SaveFails \/ StartFails \/ IntentFails \/ Crash
    BY <1>3 DEF SaveFails, StartFails, IntentFails, Crash, Release, Lasts
  <1>4. CASE \/ Environment \/ UNCHANGED vars
             \/ \E g \in Gens : \/ KillDriver(g) \/ ExecutorRaises(g) \/ Replay(g) \/ UnlockedSave(g)
    <2>1. UNCHANGED <<op, batch, journalVars, art>>
      BY <1>4 DEF Environment, DropPrompt, EditRepository, CommitRepository, KillDriver, process,
                  ExecutorRaises, Replay, UnlockedSave, DriverQuiet, disk, vars
    <2> QED BY <2>1 DEF Lasts, Stage, Ahead, Underived, Fallbacks, journalVars, records
  <1>5. ASSUME NEW g \in Gens,
               \/ ExecutorLogs(g) \/ WriteResult(g) \/ CollectUsage(g) \/ TelemetryFails(g)
               \/ WriteFailureLogs(g) \/ WriteFailure(g)
        PROVE  Lasts
    <2>1. UNCHANGED <<op, batch, journalVars>>
      BY <1>5 DEF ExecutorLogs, WriteResult, CollectUsage, TelemetryFails, WriteFailureLogs,
                  WriteFailure, DriverQuiet
    <2>2. art \in [Gens -> Reports] BY DEF Typed, TypeOK, DiskTypeOK
    <2>3. \A h \in Gens, a \in Artifacts : art[h][a] # "none" => art'[h][a] # "none"
      <3>1. CASE WriteResult(g)
        <4>1. PICK outcome \in {"run", "failed"} : art' = [art EXCEPT ![g].result = outcome]
          BY <3>1 DEF WriteResult
        <4> QED BY <2>2, <4>1 DEF Reports, Artifacts
      <3>2. CASE TelemetryFails(g)
        BY <2>2, <3>2 DEF TelemetryFails, Reports, Artifacts
      <3> QED BY <1>5, <2>2, <3>1, <3>2 DEF ExecutorLogs, CollectUsage, WriteFailureLogs,
                  WriteFailure, Reports, Artifacts
    <2>4. UNCHANGED Stage /\ Fallbacks' = Fallbacks /\ Fallbacks \subseteq Gens \X Artifacts
      BY <2>1 DEF Stage, Ahead, Fallbacks, journalVars, records, Typed, TypeOK, JournalTypeOK
    <2>5. Underived' \subseteq Underived BY <2>3, <2>4 DEF Underived
    <2> QED BY <2>1, <2>4, <2>5 DEF Lasts
  <1> QED BY <1>1, <1>2, <1>3, <1>4, <1>5 DEF Next, Executing, Fault

LEMMA GoingInit == Init => Going
  BY DEF Init, Going, Free, Idle, TxPCs

\* The steps after which the lock holder's program counter is one of those Going speaks of.
LEMMA GoingGoto ==
    ASSUME Typed, Flight, Going,
           \/ Archive \/ PublishPolicy \/ Prepare \/ PublishOwner \/ Rename \/ Terminal
           \/ InitAppend \/ AdoptAppend
           \/ CheckpointIntent \/ CheckpointAdvance \/ CheckpointVerify \/ RecoverAbort
    PROVE  Going'
  <1>1. PICK pc \in {"prepare", "owner", "rename", "terminal", "save", "ingest", "advance",
                     "verify", "finish", "resolve"} :
           Goto(pc) /\ (pc \in TxPCs => op.pc \in TxPCs \cup {"archive", "policy"})
    <2>1. op.pc = "terminal" => op.next \in {"save", "ingest", "finish", "resolve"}
      BY DEF Going, Typed, LocalsOK, TxPCs
    <2> QED
      BY <2>1 DEF Archive, PublishPolicy, Prepare, PublishOwner, Rename, Terminal, InitAppend,
                  AdoptAppend, CheckpointIntent, CheckpointAdvance, CheckpointVerify, RecoverAbort,
                  TxPCs
  <1>2. op'.pc = pc /\ op'.next = op.next BY <1>1, GotoType DEF Typed, PCs, TxPCs
  <1> QED BY <1>1, <1>2 DEF Going, TxPCs

LEMMA GoingMove ==
    ASSUME Typed, Flight, Going,
           \/ Receive \/ Process \/ CheckpointFinish
           \/ RecoverTransaction \/ RecoverRollback \/ RecoverForward
    PROVE  Going'
  <1>0. op \in Ops BY DEF Typed, TypeOK, ProcessTypeOK
  <1>1. ASSUME NEW t, NEW pc \in TxPCs \cup {"archive"}, NEW next, next # "idle", Move(t, pc, next)
        PROVE  Going'
    BY <1>1, MoveFields DEF Going, TxPCs
  <1>2. CASE Receive \/ Process
    <2>1. UNCHANGED op => Going'
      BY <1>2 DEF Receive, Process, Going, TxPCs
    <2> QED BY <1>1, <1>2, <2>1 DEF Receive, Process, TxPCs
  <1>3. CASE CheckpointFinish \/ RecoverTransaction
    BY <1>1, <1>3 DEF CheckpointFinish, RecoverTransaction, TxPCs
  <1>4. CASE RecoverRollback
    <2>1. PICK i \in intents : /\ status[i.gen] = "ACCEPTED" /\ UNCHANGED journalVars
                               /\ op' = Idle \/ op' = [op EXCEPT !.pc = "abort", !.gen = i.gen]
      BY <1>4 DEF RecoverRollback, Release
    <2>2. op' = Idle \/ (op'.pc = "abort" /\ op'.gen = i.gen) BY <1>0, <2>1 DEF Ops
    <2> QED BY <2>1, <2>2 DEF Going, Free, Idle, TxPCs, journalVars, records
  <1>5. CASE RecoverForward
    <2>1. op'.pc = "finish" BY <1>0, <1>5 DEF RecoverForward, Ops
    <2> QED BY <2>1 DEF Going, TxPCs
  <1> QED BY <1>2, <1>3, <1>4, <1>5

LEMMA GoingBegin ==
    ASSUME Typed, Going, InitBegin \/ AdoptBegin \/ IngestBegin \/ RecoverBegin
    PROVE  Going'
  <1>1. CASE InitBegin
    BY <1>1 DEF InitBegin, Hold, Idle, Going, TxPCs, journalVars
  <1>2. CASE AdoptBegin
    <2>1. AdoptionAdmissible' BY <1>2 DEF AdoptBegin, Preflight, AdoptionAdmissible, Settled,
                                          journalVars, records, Known
    <2> QED BY <1>2, <2>1 DEF AdoptBegin, Hold, Idle, Going, TxPCs
  <1>3. CASE IngestBegin \/ RecoverBegin
    BY <1>3 DEF IngestBegin, RecoverBegin, Hold, Idle, Going, TxPCs
  <1> QED BY <1>1, <1>2, <1>3

LEMMA GoingNext == Typed /\ Flight /\ Going /\ [Next]_vars => Going'
  <1> SUFFICES ASSUME Typed, Flight, Going, [Next]_vars PROVE Going'
    OBVIOUS
  <1>1. CASE Quiet
    <2>1. AdoptionAdmissible' = AdoptionAdmissible
      BY <1>1 DEF Quiet, AdoptionAdmissible, Settled, Known, journalVars, records
    <2> QED BY <1>1, <2>1 DEF Quiet, Going, Free, Idle, TxPCs, journalVars, records
  <1>2. ASSUME NEW g \in Gens,
               \/ \E by \in {"operator", "driver"} : CompleteBegin(g, by) \/ InterruptBegin(g, by)
               \/ CancelBegin(g) \/ CheckpointBegin(g) \/ \E b \in BOOLEAN : StartBegin(g, b)
        PROVE  Going'
    <2>1. op'.pc = "intent" \/ (op'.pc \in {"prepare", "policy"} /\ op'.next = "save")
      BY <1>2, BeginSteps
    <2> QED BY <2>1 DEF Going, TxPCs
  <1>3. CASE Command
    BY <1>1, <1>2, <1>3, QuietSteps, GoingBegin DEF Command
  <1>4. CASE Locked
    BY <1>1, <1>4, QuietSteps, GoingGoto, GoingMove DEF Locked
  <1>5. ASSUME NEW g \in Gens, Executing(g) PROVE Going'
    BY <1>1, <1>2, <1>5, QuietSteps DEF Executing
  <1> QED BY <1>1, <1>3, <1>4, <1>5, QuietSteps DEF Next

LEMMA AlwaysGoing == Spec => []Going
  BY GoingInit, GoingNext, AlwaysTyped, AlwaysFlight, PTL DEF Spec

\* However long a command is, it is finite: each step of the lock holder shortens what is left
\* of it, and no executor, operator or killed process in between makes it longer.
THEOREM CommandShortensCorrect == Spec => CommandShortens
  <1>1. Typed /\ Flight /\ Recorded /\ Going /\ [Next]_vars /\ ~Free =>
           IF Locked THEN Shortens ELSE Lasts
    BY LockedShortens, OthersLast
  <1> QED BY <1>1, AlwaysTyped, AlwaysFlight, AlwaysRecorded, AlwaysGoing, PTL
             DEF Spec, CommandShortens

\* The initial segments of a set of numbers are finite sets, so that one of them is least.
LEMMA NatHasLeast ==
    ASSUME NEW S \in SUBSET Nat, S # {}
    PROVE  \E n \in S : \A m \in S : n <= m
  <1> DEFINE Upto(n) == {m \in S : m <= n}
             Segments == {Upto(n) : n \in S}
  <1>1. ASSUME NEW n \in S PROVE Upto(n) \in FiniteSubsetsOf(S)
    BY FS_BoundedSetOfNaturals DEF FiniteSubsetsOf
  <1>2. Segments \subseteq FiniteSubsetsOf(S) /\ Segments # {} BY <1>1
  <1>3. IsWellFoundedOn(StrictSubsetOrdering(S), FiniteSubsetsOf(S))
    BY FS_StrictSubsetOrderingWellFounded
  <1> HIDE DEF Segments
  <1>4. PICK U \in Segments : \A V \in Segments : ~(<<V, U>> \in StrictSubsetOrdering(S))
    BY <1>2, <1>3, WFMin
  <1>5. PICK n \in S : U = Upto(n) BY DEF Segments
  <1>6. ASSUME NEW m \in S PROVE n <= m
    <2>1. Upto(m) \in Segments BY DEF Segments
    <2>2. ~(Upto(m) \subseteq Upto(n) /\ Upto(m) # Upto(n))
      BY <1>4, <1>5, <2>1 DEF StrictSubsetOrdering
    <2>3. n \in Upto(n) /\ (m < n => n \notin Upto(m) /\ Upto(m) \subseteq Upto(n))
      <3>1. m \in Nat /\ n \in Nat /\ S \subseteq Nat OBVIOUS
      <3>2. n \in Upto(n) BY <3>1
      <3>3. m < n => n \notin Upto(m) BY <3>1
      <3>4. ASSUME m < n PROVE Upto(m) \subseteq Upto(n)
        <4>1. ASSUME NEW k \in S, k <= m PROVE k <= n BY <3>1, <3>4, <4>1
        <4> QED BY <4>1
      <3> QED BY <3>2, <3>3, <3>4
    <2>4. m < n \/ n <= m OBVIOUS
    <2> QED BY <2>2, <2>3, <2>4
  <1> QED BY <1>6

\* There is a first file to read and a first prompt to take.
LEMMA FirstFile ==
    ASSUME Typed
    PROVE  /\ batch.todo # {} => \E f \in batch.todo : \A h \in batch.todo : f[1] <= h[1]
           /\ batch.parsed # {} => \E f \in batch.parsed : IsFirst(f)
  <1>0. batch \in Batches BY DEF Typed, TypeOK, ProcessTypeOK
  <1>1. /\ \A f \in batch.todo \cup batch.parsed : f[1] \in Nat /\ f[2] \in Prompts
        /\ \A f \in batch.todo \cup batch.parsed : f[2].gen \in Nat
    <2>1. batch.todo \cup batch.parsed \subseteq Names \X Prompts BY <1>0 DEF Batches
    <2>2. \A p \in Prompts : p.gen \in Nat BY PromptsAssumption, MaxGenAssumption
    <2> QED BY <2>1, <2>2, NamesAssumption
  <1>2. ASSUME batch.todo # {}
        PROVE  \E f \in batch.todo : \A h \in batch.todo : f[1] <= h[1]
    <2> DEFINE S == {f[1] : f \in batch.todo}
    <2>1. PICK n \in S : \A m \in S : n <= m BY <1>1, <1>2, NatHasLeast
    <2> QED BY <2>1
  <1>3. ASSUME batch.parsed # {}
        PROVE  \E f \in batch.parsed : IsFirst(f)
    <2> DEFINE S == {f[2].gen : f \in batch.parsed}
    <2>1. PICK n \in S : \A m \in S : n <= m BY <1>1, <1>3, NatHasLeast
    <2>2. PICK e \in batch.parsed : e[2].gen = n BY <2>1
    <2> DEFINE T == {f[1] : f \in {h \in batch.parsed : h[2] = e[2]}}
    <2>3. PICK k \in T : \A m \in T : k <= m BY <1>1, NatHasLeast
    <2>4. PICK f \in batch.parsed : f[2] = e[2] /\ f[1] = k BY <2>3
    <2>5. ASSUME NEW h \in batch.parsed
          PROVE  \/ f[2].gen < h[2].gen
                 \/ f[2].gen = h[2].gen /\ f[2] # h[2]
                 \/ f[2] = h[2] /\ f[1] <= h[1]
      <3>1. n <= h[2].gen /\ n \in Nat BY <1>1, <2>1
      <3>2. h[2] = e[2] => k <= h[1] BY <2>3
      <3> QED BY <1>1, <2>2, <2>4, <3>1, <3>2
    <2> QED BY <2>5 DEF IsFirst
  <1> QED BY <1>2, <1>3

\* A lock holder is never stuck at its program counter: replay accepts the event it is about to
\* write, whatever happened since it was checked, the file it takes next exists.
THEOREM LockHolderGoesOn == Spec => [](~Free => CanGoOn)
  <1>1. Typed /\ Flight /\ Recorded /\ Going => (~Free => CanGoOn)
    <2> SUFFICES ASSUME Typed, Flight, Recorded, Going, ~Free PROVE CanGoOn
      OBVIOUS
    <2>1. op.pc = "intent" =>
             IntentAdmissible([seq |-> NextSeq, gen |-> op.gen, parent |-> wit[op.gen].head,
                               commit |-> op.wit.head, wit |-> wit[op.gen]])
      BY DEF Recorded, Placing, Checkpointing, Flight, IntentAdmissible
    <2> QED BY <2>1, FirstFile DEF CanGoOn, Going
  <1> QED BY <1>1, AlwaysTyped, AlwaysFlight, AlwaysRecorded, AlwaysGoing, PTL

\* The files of the spool, and with them what ingest has before it, are finitely many.
Finite == IsFiniteSet(spool) /\ IsFiniteSet(batch.todo) /\ IsFiniteSet(batch.parsed)

LEMMA FiniteInit == Init => Finite
  BY FS_EmptySet DEF Init, Finite, NoBatch

LEMMA FiniteNext == Typed /\ Finite /\ [Next]_vars => Finite'
  <1> SUFFICES ASSUME Typed, Finite, [Next]_vars PROVE Finite'
    OBVIOUS
  <1>0. batch \in Batches BY DEF Typed, TypeOK, ProcessTypeOK
  <1>1. IsFiniteSet(spool')
    <2>1. \/ spool' = spool
          \/ \E f : spool' = spool \cup {f}
          \/ \E e, f : spool' = (spool \ {e}) \cup {f}
      BY DEF Next, Command, Locked, Executing, Fault, Environment, vars, disk, DriverQuiet,
             InitBegin, Rebuild, AdoptBegin, IngestBegin, RecoverBegin, CancelBegin, CheckpointBegin,
             StartBegin, InterruptBegin, CompleteBegin, InitAppend, AdoptAppend, Receive, Process,
             Archive, PublishPolicy, PublishPolicyRefused, Prepare, PublishOwner, Rename, Terminal,
             TerminalRefused, CheckpointIntent, CheckpointAdvance, CheckpointVerify,
             CheckpointRefused, CheckpointFinish, RecoverTransaction, RecoverRollback, RecoverAbort,
             RecoverForward, RecoverRefused, RecoverArtifact, RecoverSave, RecoverFailed, Save,
             ExecutorLogs, WriteResult, CollectUsage, TelemetryFails, ExecutorRaises,
             WriteFailureLogs, WriteFailure, Replay, UnlockedSave, DriverRefused,
             SaveFails, StartFails, IntentFails, Crash, KillDriver, DropPrompt, EditRepository,
             CommitRepository
    <2>2. \A e : IsFiniteSet(spool \ {e})
      BY FS_Subset DEF Finite
    <2> QED BY <2>1, <2>2, FS_AddElement DEF Finite
  <1>2. IsFiniteSet(batch'.todo) /\ IsFiniteSet(batch'.parsed)
    <2>1. CASE UNCHANGED batch BY <2>1 DEF Finite
    <2>2. CASE batch' = NoBatch BY <2>2, FS_EmptySet DEF NoBatch
    <2>3. CASE IngestBegin
      <3> DEFINE I == {x \in spool : x[1] = "inbox"}
                 P == {<<f[2], f[3]>> : f \in I}
                 F == [f \in I |-> <<f[2], f[3]>>]
      <3>1. IsFiniteSet(I) BY FS_Subset DEF Finite
      <3>2. F \in Surjection(I, P) BY DEF Surjection
      <3>3. IsFiniteSet(P) BY <3>1, <3>2, FS_Surjection
      <3> QED BY <2>3, <3>3, FS_EmptySet DEF IngestBegin
    <2>4. CASE Receive
      <3>1. PICK f : /\ batch'.todo = batch.todo \ {f}
                     /\ batch'.parsed \in {batch.parsed, batch.parsed \cup {f}}
        BY <1>0, <2>4 DEF Receive, Batches
      <3> QED BY <3>1, FS_Subset, FS_AddElement DEF Finite
    <2>5. CASE Process
      <3>1. PICK f : batch'.todo = batch.todo /\ batch'.parsed = batch.parsed \ {f}
        BY <1>0, <2>5 DEF Process, Batches
      <3> QED BY <3>1, FS_Subset DEF Finite
    <2>6. UNCHANGED batch \/ batch' = NoBatch \/ IngestBegin \/ Receive \/ Process
      BY DEF Next, Command, Locked, Executing, Fault, Environment, vars, process, DriverQuiet,
             InitBegin, Rebuild, AdoptBegin, RecoverBegin, CancelBegin, CheckpointBegin, Hold,
             BeginMove, Goto, Release,
             StartBegin, InterruptBegin, CompleteBegin, InitAppend, AdoptAppend,
             Archive, PublishPolicy, PublishPolicyRefused, Prepare, PublishOwner, Rename, Terminal,
             TerminalRefused, CheckpointIntent, CheckpointAdvance, CheckpointVerify,
             CheckpointRefused, CheckpointFinish, RecoverTransaction, RecoverRollback, RecoverAbort,
             RecoverForward, RecoverRefused, RecoverArtifact, RecoverSave, RecoverFailed, Save,
             ExecutorLogs, WriteResult, CollectUsage, TelemetryFails, ExecutorRaises,
             WriteFailureLogs, WriteFailure, Replay, UnlockedSave, DriverRefused,
             SaveFails, StartFails, IntentFails, Crash, KillDriver, DropPrompt, EditRepository,
             CommitRepository
    <2> QED BY <2>1, <2>2, <2>3, <2>4, <2>5, <2>6
  <1> QED BY <1>1, <1>2 DEF Finite

LEMMA AlwaysFinite == Spec => []Finite
  BY FiniteInit, FiniteNext, AlwaysTyped, PTL DEF Spec

\* What Shortens counts down is finite: files and prompts, a number, artifacts.
THEOREM WorkIsFinite ==
    Spec => [](/\ IsFiniteSet(batch.todo) /\ IsFiniteSet(batch.parsed)
               /\ Stage \in Nat /\ IsFiniteSet(Underived))
  <1>1. Typed => Stage \in Nat
    <2> SUFFICES ASSUME Typed PROVE Stage \in Nat
      OBVIOUS
    <2>1. op.pc \in PCs BY DEF Typed, TypeOK, ProcessTypeOK, Ops
    <2> QED BY <2>1, StageAt DEF StageCases, PCs, TxPCs, Place
  <1>2. Typed => IsFiniteSet(Underived)
    <2> SUFFICES ASSUME Typed PROVE IsFiniteSet(Underived)
      OBVIOUS
    <2>1. IsFiniteSet(Gens) BY MaxGenAssumption, FS_Interval DEF Gens
    <2>2. IsFiniteSet(Artifacts)
      <3>1. IsFiniteSet({"logs"}) BY FS_Singleton
      <3>2. IsFiniteSet({"logs"} \cup {"result"}) BY <3>1, FS_AddElement
      <3>3. IsFiniteSet(({"logs"} \cup {"result"}) \cup {"usage"}) BY <3>2, FS_AddElement
      <3>4. ({"logs"} \cup {"result"}) \cup {"usage"} = Artifacts BY DEF Artifacts
      <3> QED BY <3>3, <3>4
    <2>3. Underived \subseteq Gens \X Artifacts
      BY DEF Underived, Fallbacks, Typed, TypeOK, JournalTypeOK
    <2> QED BY <2>1, <2>2, <2>3, FS_Product, FS_Subset
  <1> QED BY <1>1, <1>2, AlwaysTyped, AlwaysFinite, PTL DEF Finite
=============================================================================
