------------------------ MODULE AtlasHealthProofs ------------------------
(***************************************************************************)
(* Without a fault the workflow stays healthy, for every set of prompts    *)
(* and every bound: whatever the executors do and whatever the operator    *)
(* edits, a command that returns leaves what the next command accepts, and *)
(* no process leaves its run.  And whatever fails, recover and rebuild     *)
(* repair it, or it is one of the dead ends DeadEnd names.                 *)
(*                                                                         *)
(* Kept and Calm say of the archive, the cache and the reports how far the *)
(* lock holder and the executing processes have taken them: Kept holds     *)
(* whatever fails, Calm as long as nothing does, and Founded says what     *)
(* stands in the way of the next command when complete-run has ended a run *)
(* by hand.  Ending does the same for the end of a run, Mendable for what  *)
(* a crash can leave behind.                                               *)
(***************************************************************************)
EXTENDS AtlasRecoveryProofs

-----------------------------------------------------------------------------
(* The invariant.                                                          *)

\* The reports of g are there, but for those named missing when it was interrupted.
Accounted(g, missing) ==
    /\ "logs" \notin missing => art[g].logs # "none"
    /\ "result" \notin missing => art[g].result # "none"
    /\ {"result", "usage"} \cap missing = {} => art[g].usage # "none" \/ art[g].result \in Unmeasured

\* What is archived for a prompt under acceptance.
Accepting == IF op.pc \in TxPCs /\ op.tx.event = "PROMPT_ACCEPTED" THEN {op.tx.prompt} ELSE {}

\* A start that has published files for g, before the run is the journal's.
Publishing(g) == op.kind = "start" /\ op.gen = g /\ op.tx.owned /\ op.pc \in TxPCs

\* The executing process writes no more: the result of g is that of a run that succeeded.
Over == {"none", "complete", "raised"}
Concluded(g) == art[g].result = "run" /\ driver[g] \in Over

\* An end of a run that was prepared when its reports were there, or named as missing; what
\* the operator typed rests on nothing.
Reporting(t) ==
    /\ t.owned => t.prompt.action # "checkpoint"
    /\ t.event = "RUN_COMPLETED" \/ t.claim # "none" => t.fallback = {}
    /\ t.event \in {"RUN_COMPLETED", "RUN_INTERRUPTED"} /\ t.gen \in owned /\ t.claim \notin ByHand =>
          /\ Accounted(t.gen, t.fallback)
          /\ t.event = "RUN_COMPLETED" => Concluded(t.gen)

\* What the lock holder's command, its transaction and its process have to do with each other.
Holding ==
    /\ op.pc = "archive" => op.tx.event = "PROMPT_ACCEPTED"
    /\ op.pc = "policy" => op.tx.owned
    /\ op.kind = "start" /\ op.tx.owned => op.gen = op.tx.gen
    /\ op.kind = "start" /\ op.by = "driver" => op.tx.owned
    /\ op.kind = "start" /\ op.tx.owned /\ op.pc = "save" => op.gen \in owned
    /\ op.by = "driver" /\ op.kind # "start" => op.gen \in owned
    /\ op.by = "driver" => op.next = "save" /\ op.pc \in TxPCs \cup {"policy", "save"}
    /\ op.by = "driver" /\ op.kind \notin {"start", "complete"} =>
          IF op.pc = "save" THEN status[op.gen] = "INTERRUPTED"
          ELSE op.tx.event = "RUN_INTERRUPTED" /\ op.tx.gen = op.gen

\* Nothing is reported of a run, and no process executes it, before it has started.
Unstarted ==
    \A g \in Gens :
        g \notin owned \/ (op.kind = "start" /\ op.gen = g) =>
            art[g].logs = "none" /\ art[g].result = "none" /\ art[g].usage = "none" /\ driver[g] = "none"

\* What an executing process has written when it comes to a phase.
Phased ==
    \A g \in Gens :
        /\ driver[g] \in {"exec", "ran"} => art[g].result = "none" \/ "result" \in fallback[g]
        /\ driver[g] \in {"ran", "returned", "failure"} => art[g].logs # "none"
        /\ driver[g] = "returned" => art[g].result \in {"run", "failed"}
        /\ driver[g] = "failure" => art[g].usage # "none"
        /\ driver[g] = "complete" => Accounted(g, {}) /\ art[g].result = "run"
        /\ driver[g] \in {"post", "failure"} => status[g] = "INTERRUPTED"

\* The reports of a run that has ended, or whose end is prepared.
Reported ==
    /\ \A g \in Gens : /\ fallback[g] # {} => status[g] = "INTERRUPTED"
                       /\ claim[g] # "none" =>
                             status[g] \in {"COMPLETED", "INTERRUPTED"} /\ fallback[g] = {}
    /\ \A g \in owned : status[g] # "RUNNING" /\ claim[g] \notin ByHand =>
          Accounted(g, fallback[g]) /\ (status[g] = "COMPLETED" => Concluded(g))
    /\ \A g \in owned : prompt[g].action # "checkpoint"
    /\ \A t \in Pending : Reporting(t)

Kept == Holding /\ Unstarted /\ Phased /\ Reported

Archived == archive = {prompt[g] : g \in Known} \cup Accepting

Unresolved ==
    op.pc \in {"idle", "resolve"} => \A t \in outstanding : RefusedForGood(t)

Projected ==
    /\ Free /\ Settled /\ journal # <<>> => cached = Len(journal) \/ ArtifactConflict
    /\ op.pc = "policy" => cached = Len(journal)

\* An owned start is prepared and ended by one command, which alone publishes its files, and
\* its process did not have to save again.
Undisturbed ==
    /\ op.pc \in TxPCs /\ op.tx.owned => op.kind = "start"
    /\ \A g \in Gens : /\ g \notin owned /\ ~Publishing(g) => ~art[g].policy /\ ~art[g].owner
                       /\ driver[g] \notin {"resave", "resaved"}

Calm == Archived /\ Unresolved /\ Projected /\ Undisturbed

\* What complete-run ended has its reports.
Clear == \A g \in Gens : ~UnfoundedEnd(g)

\* Every command but recover and init begins when it has.  Until a command is saved that ends
\* another run, or while there is nothing to resume, it keeps them.
Founded ==
    /\ \/ op.pc \in {"append", "save"}
       \/ op.pc \in {"idle", "resolve"} /\ Settled /\ cached = Len(journal)
       \/ Clear
    /\ op.pc \in TxPCs \cup {"archive"} /\ op.tx.claim \in ByHand /\ op.next # "save" =>
          RefusedForGood(op.tx)

\* The invariants they rest on.
Sound ==
    /\ Typed /\ Flight /\ Starting /\ Owning /\ Recorded /\ Filing
    /\ RefusedOnlyWhenTyped

LEMMA AlwaysSound == Spec => []Sound
  BY AlwaysTyped, AlwaysFlight, AlwaysStarting, AlwaysOwning, AlwaysRecorded, AlwaysFiling,
     RefusedOnlyWhenTypedCorrect, PTL DEF Sound

-----------------------------------------------------------------------------
(* What the invariant comes to when no command is under way.               *)

\* With the missing reports derived, every report of a run is there.
LEMMA RecoveredReports ==
    ASSUME Sound, Kept, Recovered, NEW g \in owned, claim[g] \notin ByHand
    PROVE  ReportsOK(g)
  <1>1. g \in Gens BY DEF Sound, Typed, TypeOK, JournalTypeOK
  <1>2. art[g].policy /\ art[g].owner BY DEF Sound, Owning, RunsHaveOwner
  <1>3. CASE status[g] = "RUNNING" BY <1>2, <1>3 DEF ReportsOK, ByHand
  <1>4. CASE status[g] # "RUNNING"
    <2>1. /\ Accounted(g, fallback[g])
          /\ status[g] = "COMPLETED" => art[g].result \in Successful
      BY <1>4 DEF Kept, Reported, Concluded, Successful
    <2>2. ASSUME NEW a \in Artifacts, a \in fallback[g] PROVE art[g][a] = Derived[a]
      <3>1. status[g] = "INTERRUPTED" BY <1>1, <2>2 DEF Kept, Reported
      <3>2. <<g, a>> \in Fallbacks BY <2>2, <3>1 DEF Fallbacks
      <3> QED BY <3>2 DEF Recovered
    <2>3. art[g].logs # "none" BY <2>1, <2>2 DEF Accounted, Artifacts, Derived
    <2>4. art[g].result # "none" BY <2>1, <2>2 DEF Accounted, Artifacts, Derived
    <2>5. art[g].usage # "none" \/ art[g].result \in Unmeasured
      <3>1. CASE "result" \in fallback[g] BY <2>2, <3>1 DEF Artifacts, Derived, Unmeasured
      <3>2. CASE "usage" \in fallback[g] BY <2>2, <3>2 DEF Artifacts, Derived
      <3>3. CASE "result" \notin fallback[g] /\ "usage" \notin fallback[g]
        BY <2>1, <3>3 DEF Accounted
      <3> QED BY <3>1, <3>2, <3>3
    <2> QED BY <1>2, <2>1, <2>3, <2>4, <2>5 DEF ReportsOK, ByHand
  <1> QED BY <1>3, <1>4

\* A generation without a run has no reports.
LEMMA UnownedReports ==
    ASSUME Sound, Kept, Calm, NEW g \in Gens, g \notin owned, ~Publishing(g), claim[g] \notin ByHand
    PROVE  ReportsOK(g)
  <1>1. art[g] \in Reports BY DEF Sound, Typed, TypeOK, DiskTypeOK
  <1>2. /\ art[g].logs = "none" /\ art[g].result = "none" /\ art[g].usage = "none"
        /\ art[g].policy = FALSE /\ art[g].owner = FALSE
    BY <1>1 DEF Kept, Unstarted, Calm, Undisturbed, Reports
  <1>3. art[g] = NoFiles BY <1>1, <1>2 DEF Reports, NoFiles
  <1> QED BY <1>3 DEF ReportsOK, ByHand

\* Once nothing is unresolved, the prompt files are what validate_spool expects.
LEMMA SettledHomes ==
    ASSUME Sound, Settled
    PROVE  {f \in spool : f[1] \in LifeDirs} = {Home(g) : g \in Known}
  <1>1. /\ \A g \in Known : FilesOf(prompt[g]) = {Home(g)}
        /\ \A f \in PromptFiles : \E g \in Known : f[3] = prompt[g]
    BY DEF Settled, Sound, Filing, PromptNeverLost
  <1>2. ASSUME NEW f \in PromptFiles PROVE \E g \in Known : f = Home(g)
    <2>1. PICK g \in Known : f[3] = prompt[g] BY <1>1
    <2>2. f \in FilesOf(prompt[g]) BY <2>1 DEF FilesOf
    <2> QED BY <1>1, <2>2
  <1>3. ASSUME NEW g \in Known PROVE Home(g) \in PromptFiles
    BY <1>1 DEF FilesOf
  <1>4. PromptFiles = {Home(g) : g \in Known} BY <1>2, <1>3
  <1> QED BY <1>4 DEF PromptFiles

\* And without faults the archive is, too.
LEMMA SettledFiles ==
    ASSUME Sound, Calm, Settled, Accepting = {}
    PROVE  /\ {f \in spool : f[1] \in LifeDirs} = {Home(g) : g \in Known}
           /\ archive = {prompt[g] : g \in Known}
  BY SettledHomes DEF Calm, Archived

\* The theorem's state predicate.
LEMMA CalmIsHealthy ==
    ASSUME Sound, Kept, Calm
    PROVE  HealthyWithoutFaults
  <1> SUFFICES ASSUME Free, journal # <<>>, ~CompletionRefused, intents = {},
                      Settled => \A g \in Gens : ~UnfoundedEnd(g)
               PROVE  \/ Preflight
                      \/ /\ Settled
                         /\ \E g \in Gens : /\ fallback[g] # {}
                                            /\ IF Fresh THEN ~ReportsOK(g) ELSE ArtifactConflict
    BY DEF HealthyWithoutFaults
  <1>1. op.pc = "idle" /\ op.kind = "none" BY DEF Free, Idle
  <1>2. Settled
    <2>1. \A t \in outstanding : RefusedForGood(t) BY <1>1 DEF Calm, Unresolved, RefusedForGood
    <2> QED BY <2>1 DEF Settled, CompletionRefused
  <1>3. Accepting = {} /\ \A g \in Gens : ~Publishing(g)
    BY <1>1 DEF Accepting, Publishing, TxPCs
  <1>4. CASE cached = Len(journal)
    <2>1. Fresh
      <3>1. Len(journal) # 0 BY DEF Sound, Typed, TypeOK, JournalTypeOK
      <3> QED BY <1>4, <3>1 DEF Fresh
    <2>2. CASE \A g \in Gens : ReportsOK(g)
      BY <1>2, <1>3, <2>1, <2>2, SettledFiles DEF Preflight, SpoolOK
    <2>3. ASSUME NEW g \in Gens, ~ReportsOK(g) PROVE fallback[g] # {}
      <3> SUFFICES ASSUME fallback[g] = {} PROVE FALSE OBVIOUS
      <3>0. claim[g] \notin ByHand BY <1>2, <2>3 DEF UnfoundedEnd
      <3>1. g \in owned BY <1>3, <2>3, <3>0, UnownedReports
      <3>2. art[g].policy /\ art[g].owner BY <3>1 DEF Sound, Owning, RunsHaveOwner
      <3>3. /\ status[g] # "RUNNING" => Accounted(g, {})
            /\ status[g] = "COMPLETED" => art[g].result \in Successful
        BY <3>0, <3>1 DEF Kept, Reported, Concluded, Successful
      <3> QED BY <2>3, <3>0, <3>1, <3>2, <3>3 DEF ReportsOK, Accounted, ByHand
    <2> QED BY <1>2, <2>1, <2>2, <2>3
  <1>5. CASE cached # Len(journal)
    <2>1. ArtifactConflict /\ ~Fresh BY <1>2, <1>5 DEF Calm, Projected, Fresh
    <2>2. PICK x \in Fallbacks : TRUE BY <2>1 DEF ArtifactConflict
    <2>3. x[1] \in Gens /\ fallback[x[1]] # {}
      BY <2>2 DEF Fallbacks, Sound, Typed, TypeOK, JournalTypeOK
    <2> QED BY <1>2, <2>1, <2>3
  <1> QED BY <1>4, <1>5

-----------------------------------------------------------------------------
(* What a step has to show.                                                *)

LEMMA KeptInit == Init => Kept /\ Calm
  <1> SUFFICES ASSUME Init PROVE Kept /\ Calm OBVIOUS
  <1> USE DEF Init, JournalInit
  <1>1. Known = {} /\ Pending = {} /\ Accepting = {}
    BY DEF Known, Pending, InHand, Accepting, Idle, TxPCs
  <1>2. Archived /\ Unresolved /\ Projected /\ Holding
    BY <1>1 DEF Archived, Unresolved, Projected, Holding, Idle, TxPCs
  <1>3. Unstarted /\ Phased /\ Undisturbed BY DEF Unstarted, Phased, Undisturbed, NoFiles, Idle, TxPCs
  <1>4. Reported BY <1>1 DEF Reported
  <1> QED BY <1>2, <1>3, <1>4 DEF Kept, Calm

\* The generations, their reports and the processes that write them stay as they are.
Untouched == UNCHANGED <<records, art, driver>>

LEMMA PhasedUntouched ==
    ASSUME Kept, Untouched
    PROVE  Phased'
  BY DEF Kept, Phased, Untouched, records, Accounted

LEMMA ReportedUntouched ==
    ASSUME Kept, UNCHANGED records, \A t \in Pending' : t \in Pending \/ Reporting(t),
           \A g \in Gens : \A files : Accounted(g, files)' <=> Accounted(g, files),
           \A g \in owned : status[g] = "COMPLETED" \/ (\E t \in Pending' : t.gen = g) =>
               (Concluded(g) => Concluded(g)'),
           owned \subseteq Gens
    PROVE  Reported'
  <1>1. \A t \in Pending' : Reporting(t)' BY DEF Kept, Reported, Reporting, records
  <1> QED BY <1>1 DEF Kept, Reported, records

LEMMA ArchivedUntouched ==
    ASSUME Calm, UNCHANGED <<archive, status, prompt>>, Accepting' = Accepting
    PROVE  Archived'
  BY DEF Calm, Archived, Known

\* The lock holder goes on, and does not give the lock back.
LEMMA GoesOn ==
    ASSUME Sound, Kept, Untouched, Holding',
           op'.kind = "start" => op'.gen \notin owned \/ (op.kind = "start" /\ op'.gen = op.gen),
           \A t \in Pending' : t \in Pending \/ Reporting(t),
           Calm => /\ Archived'
                   /\ op'.pc # "idle" /\ (op'.pc = "policy" => cached' = Len(journal'))
                   /\ op'.pc = "resolve" => \A t \in outstanding' : RefusedForGood(t)'
                   /\ op'.pc \in TxPCs /\ op'.tx.owned => op'.kind = "start"
                   /\ \A g \in Gens : Publishing(g) => Publishing(g)'
    PROVE  Kept' /\ (Calm => Calm')
  <1> USE DEF Untouched, records
  <1>1. Kept'
    <2>1. Unstarted' BY DEF Kept, Unstarted
    <2>2. /\ \A g \in Gens : \A files : Accounted(g, files)' <=> Accounted(g, files)
          /\ \A g \in Gens : Concluded(g) => Concluded(g)'
      BY DEF Accounted, Concluded
    <2>3. Phased' BY PhasedUntouched
    <2>4. owned \subseteq Gens BY DEF Sound, Typed, TypeOK, JournalTypeOK
    <2>5. Reported' BY <2>2, <2>4, ReportedUntouched
    <2> QED BY <2>1, <2>3, <2>5 DEF Kept
  <1>2. ASSUME Calm PROVE Calm'
    <2>1. Unresolved' BY <1>2 DEF Unresolved, RefusedForGood
    <2>2. Projected' BY <1>2 DEF Projected, Free, Idle
    <2>3. Undisturbed' BY <1>2 DEF Calm, Undisturbed
    <2> QED BY <1>2, <2>1, <2>2, <2>3 DEF Calm
  <1> QED BY <1>1, <1>2

\* The lock is given back: by whoever held it, or by the kernel.
LEMMA KeptReleases ==
    ASSUME Sound, Kept, op' = Idle, UNCHANGED journalVars,
           \A g \in Gens : /\ art'[g].logs = art[g].logs /\ art'[g].result = art[g].result
                           /\ art'[g].usage = art[g].usage,
           driver' = driver \/ \E to \in {"none", "exec", "raised", "post", "resave"} :
               /\ driver' = [driver EXCEPT ![op.gen] = to]
               /\ to \in {"exec", "resave"} => op.kind = "start"
               /\ to = "post" => op.by = "driver" /\ op.kind \notin {"start", "complete"} /\ op.pc = "save"
               /\ to # "none" => op.gen \in owned
    PROVE  Kept'
  <1> USE DEF journalVars, records
  <1>1. /\ op'.pc = "idle" /\ op'.kind = "none" /\ op'.by = "none" /\ Pending' \subseteq Pending
        /\ driver \in [Gens -> Phases] /\ owned \subseteq Gens
    BY DEF Idle, Pending, InHand, TxPCs, Sound, Typed, TypeOK, ProcessTypeOK, JournalTypeOK
  <1>2. \A g \in Gens : \A files : Accounted(g, files)' <=> Accounted(g, files) BY DEF Accounted
  <1>3. Holding' BY <1>1 DEF Holding, TxPCs
  <1>4. Unstarted' BY <1>1 DEF Kept, Unstarted
  <1>5. Phased'
    <2> SUFFICES ASSUME NEW g \in Gens
                 PROVE  /\ driver'[g] \in {"exec", "ran"} => art[g].result = "none" \/ "result" \in fallback[g]
                        /\ driver'[g] \in {"ran", "returned", "failure"} => art[g].logs # "none"
                        /\ driver'[g] = "returned" => art[g].result \in {"run", "failed"}
                        /\ driver'[g] = "failure" => art[g].usage # "none"
                        /\ driver'[g] = "complete" => Accounted(g, {}) /\ art[g].result = "run"
                        /\ driver'[g] \in {"post", "failure"} => status[g] = "INTERRUPTED"
      BY <1>2 DEF Phased
    <2>1. CASE driver'[g] = driver[g] BY <2>1 DEF Kept, Phased
    <2>2. CASE driver'[g] # driver[g]
      <3>1. /\ g = op.gen /\ driver'[g] \in {"none", "exec", "raised", "post", "resave"}
            /\ driver'[g] = "exec" => op.kind = "start"
        BY <1>1, <2>2
      <3>2. op.kind = "start" => art[g].result = "none" BY <3>1 DEF Kept, Unstarted
      <3>3. driver'[g] = "post" => status[g] = "INTERRUPTED" BY <1>1, <2>2, <3>1 DEF Kept, Holding
      <3> QED BY <3>1, <3>2, <3>3
    <2> QED BY <2>1, <2>2
  <1>6. Reported'
    <2>1. ASSUME NEW g \in Gens, Concluded(g), status[g] = "COMPLETED" \/ \E t \in Pending' : t.gen = g
          PROVE  Concluded(g)'
      <3>1. CASE driver'[g] = driver[g] BY <2>1, <3>1 DEF Concluded
      <3>2. CASE driver'[g] # driver[g]
        <4>1. g = op.gen /\ driver'[g] \in {"none", "exec", "raised", "post", "resave"}
          BY <1>1, <3>2
        <4>2. driver'[g] \notin {"exec", "resave"}
          BY <1>1, <2>1, <3>2, <4>1 DEF Kept, Unstarted, Concluded
        <4>3. driver'[g] # "post"
          <5> SUFFICES ASSUME driver'[g] = "post" PROVE FALSE OBVIOUS
          <5>1. op.by = "driver" /\ op.kind \notin {"start", "complete"} /\ op.pc = "save"
            BY <1>1, <3>2
          <5>2. status[g] = "INTERRUPTED" BY <4>1, <5>1 DEF Kept, Holding
          <5>3. outstanding = {} BY <5>1 DEF Sound, Flight, Carrying, TxPCs
          <5> QED BY <1>1, <2>1, <5>2, <5>3 DEF Pending, InHand, TxPCs, Idle
        <4> QED BY <2>1, <4>1, <4>2, <4>3 DEF Concluded, Over
      <3> QED BY <3>1, <3>2
    <2> QED BY <1>1, <1>2, <2>1, ReportedUntouched
  <1> QED BY <1>3, <1>4, <1>5, <1>6 DEF Kept

LEMMA Releases ==
    ASSUME Sound, Kept, NEW outcome \in {"ok", "unsaved", "error"}, Release(outcome),
           UNCHANGED <<journalVars, art>>,
           op.kind = "start" /\ op.by = "driver" /\ outcome # "error" => op.gen \in owned,
           op.by = "driver" /\ outcome = "ok" => op.pc = "save",
           Calm => /\ outcome # "unsaved" /\ UNCHANGED archive
                   /\ op.pc \in TxPCs => op.pc = "terminal" /\ RefusedForGood(op.tx)
                   /\ Settled => cached' = Len(journal) \/ ArtifactConflict
    PROVE  Kept' /\ (Calm => Calm')
  <1> USE DEF journalVars, records
  <1>0. /\ op' = Idle /\ op'.pc = "idle" /\ op'.kind = "none" /\ op'.by = "none"
        /\ Accepting' = {} /\ InHand' = {} /\ \A g \in Gens : ~Publishing(g)'
    BY DEF Release, Idle, Accepting, InHand, Publishing, TxPCs
  <1>1. /\ op.by # "driver" => driver' = driver
        /\ op.by = "driver" =>
              /\ driver' = [driver EXCEPT ![op.gen] = NextPhase(op, outcome)]
              /\ NextPhase(op, outcome) \in {"none", "exec", "raised", "post", "resave"}
              /\ NextPhase(op, outcome) = "resave" => outcome = "unsaved" /\ op.kind = "start"
              /\ NextPhase(op, outcome) = "post" => outcome = "ok" /\ op.kind \notin {"start", "complete"}
              /\ op.kind # "start" => NextPhase(op, outcome) # "exec"
              /\ op.kind = "start" /\ outcome = "error" => NextPhase(op, outcome) = "none"
    BY DEF Release, NextPhase
  <1>2. op.by = "driver" /\ (op.kind # "start" \/ outcome # "error") => op.gen \in owned
    BY DEF Kept, Holding
  <1>3. Kept' BY <1>0, <1>1, <1>2, KeptReleases
  <1>4. ASSUME Calm PROVE Calm'
    <2>1. Accepting = {} /\ \A g \in Gens : ~Publishing(g)
      BY <1>4 DEF Accepting, Publishing, RefusedForGood, Sound, Typed, LocalsOK, ValidTx
    <2>2. Archived' BY <1>0, <1>4, <2>1 DEF Calm, Archived, Known
    <2>3. Unresolved'
      <3>1. \A t \in outstanding : RefusedForGood(t)
        <4>1. CASE op.pc \in Carrying
          <5>1. op.pc = "terminal" /\ RefusedForGood(op.tx)
            BY <1>4, <4>1 DEF Carrying, TxPCs
          <5>2. \A t \in outstanding : t = op.tx BY <4>1 DEF Sound, Flight
          <5> QED BY <5>1, <5>2
        <4>2. CASE op.pc \in {"idle", "resolve"} BY <1>4, <4>2 DEF Calm, Unresolved
        <4>3. CASE op.pc \notin Carrying \cup {"idle", "resolve"} BY <4>3 DEF Sound, Flight
        <4> QED BY <4>1, <4>2, <4>3
      <3> QED BY <3>1 DEF Unresolved, RefusedForGood
    <2>4. Projected'
      <3>1. ArtifactConflict' = ArtifactConflict BY DEF ArtifactConflict, Fallbacks
      <3> QED BY <1>0, <1>4, <3>1 DEF Projected, Settled
    <2>5. Undisturbed'
      <3>1. driver \in [Gens -> Phases] BY DEF Sound, Typed, TypeOK, ProcessTypeOK
      <3>2. ASSUME NEW g \in Gens PROVE driver'[g] \notin {"resave", "resaved"}
        <4>1. driver[g] \notin {"resave", "resaved"} BY <1>4 DEF Calm, Undisturbed
        <4>2. CASE op.by # "driver" BY <1>1, <4>1, <4>2
        <4>3. CASE op.by = "driver"
          <5>1. NextPhase(op, outcome) \in {"none", "exec", "raised", "post"}
            BY <1>1, <1>4, <4>3
          <5>2. driver' = [driver EXCEPT ![op.gen] = NextPhase(op, outcome)] BY <1>1, <4>3
          <5> HIDE DEF NextPhase
          <5> QED BY <3>1, <4>1, <5>1, <5>2
        <4> QED BY <4>2, <4>3
      <3> QED BY <1>0, <1>4, <2>1, <3>2 DEF Calm, Undisturbed, TxPCs
    <2> QED BY <2>2, <2>3, <2>4, <2>5 DEF Calm
  <1> QED BY <1>3, <1>4

\* What a report keeps to: nothing that is there is taken away, or made what recover derives.
Grows(g, r) ==
    /\ r.policy = art[g].policy /\ r.owner = art[g].owner
    /\ \A a \in Artifacts : /\ art[g][a] # "none" => r[a] # "none"
                            /\ art[g][a] \notin {"none", Derived[a]} => r[a] \notin {"none", Derived[a]}
    /\ \/ r.result = art[g].result \/ r.result \in Unmeasured \/ r.usage # "none"
       \/ driver[g] = "ran" /\ r.result \in {"run", "failed"}
    /\ status[g] = "COMPLETED" /\ art[g].result \in Successful => r.result \in Successful

\* A report of a started run is written.
LEMMA Writes ==
    ASSUME Sound, Kept, NEW g \in owned, ~(op.kind = "start" /\ op.gen = g),
           NEW to \in Phases, NEW r, art' = [art EXCEPT ![g] = r], driver' = [driver EXCEPT ![g] = to],
           Grows(g, r), UNCHANGED <<journalVars, op>>,
           to \in {"exec", "ran"} => r.result = "none" \/ "result" \in fallback[g],
           to \in {"ran", "returned", "failure"} => r.logs # "none",
           to = "returned" => r.result \in {"run", "failed"},
           to = "failure" => r.usage # "none",
           to \in {"post", "failure"} => status[g] = "INTERRUPTED",
           to = "complete" => r.logs # "none" /\ r.result = "run" /\ r.usage # "none",
           Concluded(g) => to \in Over /\ r.result = "run",
           Calm => UNCHANGED <<archive, cached>> /\ to \notin {"resave", "resaved"}
    PROVE  Kept' /\ (Calm => Calm')
  <1> USE DEF journalVars, records
  <1>0. /\ g \in Gens /\ art \in [Gens -> Reports] /\ driver \in [Gens -> Phases]
        /\ owned \subseteq Gens
    BY DEF Sound, Typed, TypeOK, DiskTypeOK, ProcessTypeOK, JournalTypeOK
  <1>1. /\ art'[g] = r /\ driver'[g] = to
        /\ \A h \in Gens : h # g => art'[h] = art[h] /\ driver'[h] = driver[h]
    BY <1>0
  <1>2. ASSUME NEW files, Accounted(g, files),
               driver[g] = "ran" => art[g].result = "none" \/ "result" \in files
        PROVE  Accounted(g, files)'
    <2>1. /\ art[g].logs # "none" => r.logs # "none"
          /\ art[g].result # "none" => r.result # "none"
          /\ art[g].usage # "none" => r.usage # "none"
      BY DEF Grows, Artifacts
    <2>2. CASE r.result = art[g].result \/ r.result \in Unmeasured \/ r.usage # "none"
      BY <1>1, <1>2, <2>1, <2>2 DEF Accounted
    <2>3. CASE driver[g] = "ran"
      <3>1. "result" \in files BY <1>2, <2>3 DEF Accounted
      <3> QED BY <1>1, <1>2, <2>1, <3>1 DEF Accounted
    <2> QED BY <2>2, <2>3 DEF Grows
  <1>3. ASSUME NEW h \in Gens, h # g, NEW files PROVE Accounted(h, files)' <=> Accounted(h, files)
    BY <1>1, <1>3 DEF Accounted
  <1>4. Holding' BY DEF Kept, Holding
  <1>5. Unstarted' BY <1>1 DEF Kept, Unstarted
  <1>6. Phased'
    <2>1. ASSUME NEW h \in Gens, h # g
          PROVE  driver'[h] = driver[h] /\ art'[h] = art[h] /\ (Accounted(h, {})' <=> Accounted(h, {}))
      BY <1>1, <1>3, <2>1
    <2>2. to = "complete" => Accounted(g, {})' /\ art'[g].result = "run" BY <1>1 DEF Accounted
    <2> QED BY <1>1, <2>1, <2>2 DEF Kept, Phased
  <1>7. Reported'
    <2>0. \A h \in Gens : Concluded(h) => Concluded(h)'
      BY <1>1 DEF Concluded
    <2>1. \A h \in owned : status[h] # "RUNNING" /\ claim[h] \notin ByHand =>
             Accounted(h, fallback[h])' /\ (status[h] = "COMPLETED" => Concluded(h)')
      <3>1. status[g] # "RUNNING" /\ claim[g] \notin ByHand => Accounted(g, fallback[g])'
        BY <1>0, <1>2 DEF Kept, Reported, Phased
      <3> QED BY <1>0, <1>3, <2>0, <3>1 DEF Kept, Reported
    <2>2. ASSUME NEW t \in Pending PROVE Reporting(t)'
      <3>1. Reporting(t) BY DEF Kept, Reported
      <3>2. ASSUME t.event \in {"RUN_COMPLETED", "RUN_INTERRUPTED"}, t.gen \in owned,
                   t.claim \notin ByHand
            PROVE  Accounted(t.gen, t.fallback)'
        <4>1. Accounted(t.gen, t.fallback) BY <3>1, <3>2 DEF Reporting
        <4>2. CASE t.gen = g
          <5>1. status[g] = "RUNNING"
            BY <3>2, <4>2 DEF Sound, Recorded, Transacting, Prepared
          <5>2. fallback[g] = {} BY <1>0, <5>1 DEF Kept, Reported
          <5>3. driver[g] = "ran" => art[g].result = "none" BY <1>0, <5>2 DEF Kept, Phased
          <5> QED BY <1>2, <4>1, <4>2, <5>3
        <4>3. CASE t.gen # g BY <1>0, <1>3, <3>2, <4>1, <4>3
        <4> QED BY <4>2, <4>3
      <3> QED BY <1>0, <2>0, <3>1, <3>2 DEF Reporting
    <2>3. Pending' = Pending BY DEF Pending, InHand
    <2> QED BY <2>1, <2>2, <2>3 DEF Kept, Reported
  <1>8. ASSUME Calm PROVE Calm'
    <2>1. Archived' BY <1>8 DEF Calm, Archived, Known, Accepting
    <2>2. Unresolved' BY <1>8 DEF Calm, Unresolved, RefusedForGood
    <2>3. Projected'
      <3>1. ASSUME ArtifactConflict PROVE ArtifactConflict'
        <4>1. PICK x \in Fallbacks : art[x[1]][x[2]] \notin {"none", Derived[x[2]]}
          BY <3>1 DEF ArtifactConflict
        <4>2. x[1] \in Gens /\ x[2] \in Artifacts /\ x \in Fallbacks' BY <1>0, <4>1 DEF Fallbacks
        <4>3. art'[x[1]][x[2]] \notin {"none", Derived[x[2]]}
          BY <1>1, <4>1, <4>2 DEF Grows
        <4> QED BY <4>2, <4>3 DEF ArtifactConflict
      <3> QED BY <1>8, <3>1 DEF Calm, Projected, Free, Settled
    <2>4. Undisturbed'
      <3>1. \A h \in Gens : Publishing(h)' <=> Publishing(h) BY DEF Publishing
      <3> QED BY <1>0, <1>1, <1>8, <3>1 DEF Calm, Undisturbed
    <2> QED BY <2>1, <2>2, <2>3, <2>4 DEF Calm
  <1> QED BY <1>4, <1>5, <1>6, <1>7, <1>8 DEF Kept

-----------------------------------------------------------------------------
(* Reports.                                                                *)

LEMMA ExecutingKeeps ==
    ASSUME Sound, Kept, NEW g \in Gens,
           \/ ExecutorLogs(g) \/ WriteResult(g) \/ CollectUsage(g) \/ TelemetryFails(g)
           \/ ExecutorRaises(g) \/ WriteFailureLogs(g) \/ WriteFailure(g)
           \/ Replay(g) \/ UnlockedSave(g) \/ DriverRefused(g) \/ KillDriver(g)
    PROVE  Kept' /\ (Calm => Calm')
  <1>0. /\ art \in [Gens -> Reports] /\ driver \in [Gens -> Phases] /\ art[g] \in Reports
    BY DEF Sound, Typed, TypeOK, DiskTypeOK, ProcessTypeOK
  <1>1. Calm => ~Replay(g) /\ ~UnlockedSave(g)
    <2>1. Calm => driver[g] \notin {"resave", "resaved"} BY DEF Calm, Undisturbed
    <2>2. Replay(g) => driver[g] = "resave" BY DEF Replay, Step
    <2>3. UnlockedSave(g) => driver[g] = "resaved" BY DEF UnlockedSave, Step
    <2> QED BY <2>1, <2>2, <2>3
  <1>2. driver[g] # "none" BY DEF Step, ExecutorLogs, WriteResult, CollectUsage, TelemetryFails,
         ExecutorRaises, WriteFailureLogs, WriteFailure, Replay, UnlockedSave, DriverRefused, KillDriver
  <1>3. g \in owned /\ ~(op.kind = "start" /\ op.gen = g) BY <1>2 DEF Kept, Unstarted
  <1>4. UNCHANGED <<journalVars, op>> /\ (Calm => UNCHANGED <<archive, cached>>)
    BY <1>1 DEF ExecutorLogs, WriteResult, CollectUsage, TelemetryFails, ExecutorRaises,
         WriteFailureLogs, WriteFailure, DriverRefused, Replay, UnlockedSave, KillDriver,
         DriverQuiet, disk
  <1>5. ASSUME NEW to \in Phases, NEW r, art' = [art EXCEPT ![g] = r],
               driver' = [driver EXCEPT ![g] = to], Grows(g, r),
               to \in {"exec", "ran"} => r.result = "none" \/ "result" \in fallback[g],
               to \in {"ran", "returned", "failure"} => r.logs # "none",
               to = "returned" => r.result \in {"run", "failed"},
               to = "failure" => r.usage # "none",
               to \in {"post", "failure"} => status[g] = "INTERRUPTED",
               to = "complete" => r.logs # "none" /\ r.result = "run" /\ r.usage # "none",
               Concluded(g) => to \in Over /\ r.result = "run",
               Calm => to \notin {"resave", "resaved"}
        PROVE  Kept' /\ (Calm => Calm')
    BY <1>3, <1>4, <1>5, Writes
  <1> USE DEF Step, Artifacts, Derived, Unmeasured, TelemetryFailed, Successful, Grows, Phases,
              Reports, Over, Concluded
  <1>6. CASE ExecutorLogs(g)
    <2> DEFINE r == [art[g] EXCEPT !.logs = "real"]
    <2>1. /\ art' = [art EXCEPT ![g] = r] /\ driver' = [driver EXCEPT ![g] = "ran"]
          /\ driver[g] = "exec"
      BY <1>0, <1>6 DEF ExecutorLogs
    <2>3. /\ r.logs = "real" /\ r.result = art[g].result /\ r.usage = art[g].usage
          /\ r.policy = art[g].policy /\ r.owner = art[g].owner
      BY <1>0
    <2>4. art[g].result = "none" \/ "result" \in fallback[g] BY <2>1 DEF Kept, Phased
    <2> HIDE DEF r
    <2>2. Grows(g, r) BY <2>3
    <2> QED BY <1>5, <2>1, <2>2, <2>3, <2>4
  <1>7. CASE WriteResult(g)
    <2>0. PICK outcome \in {"run", "failed"} : art' = [art EXCEPT ![g].result = outcome]
      BY <1>7 DEF WriteResult
    <2> DEFINE r == [art[g] EXCEPT !.result = outcome]
    <2>1. /\ art' = [art EXCEPT ![g] = r] /\ driver' = [driver EXCEPT ![g] = "returned"]
          /\ driver[g] = "ran"
      BY <1>0, <1>7, <2>0 DEF WriteResult
    <2>4. /\ art[g].logs # "none" /\ (art[g].result = "none" \/ "result" \in fallback[g])
          /\ fallback[g] # {} => status[g] = "INTERRUPTED"
      BY <2>1 DEF Kept, Phased, Reported
    <2>2. Grows(g, r) BY <1>0, <2>1, <2>4
    <2>3. r.logs = art[g].logs /\ r.result \in {"run", "failed"} BY <1>0
    <2> HIDE DEF r
    <2> QED BY <1>5, <2>1, <2>2, <2>3, <2>4
  <1>8. CASE CollectUsage(g)
    <2> DEFINE r == [art[g] EXCEPT !.usage = "run"]
    <2>1. PICK to \in {"complete", "exit"} :
             /\ art' = [art EXCEPT ![g] = r] /\ driver' = [driver EXCEPT ![g] = to]
             /\ driver[g] = "returned" /\ (to = "complete" => art[g].result = "run")
      BY <1>0, <1>8 DEF CollectUsage
    <2>2. Grows(g, r) BY <1>0
    <2>3. r.logs = art[g].logs /\ r.result = art[g].result /\ r.usage = "run" BY <1>0
    <2>4. art[g].logs # "none" /\ art[g].result \in {"run", "failed"} BY <2>1 DEF Kept, Phased
    <2> HIDE DEF r
    <2> QED BY <1>5, <2>1, <2>2, <2>3, <2>4
  <1>9. CASE TelemetryFails(g)
    <2> DEFINE to == IF art[g].result = "run" THEN "unmeasured" ELSE "unmeasuredFailure"
               r == [art[g] EXCEPT !.result = to]
    <2>1. /\ art' = [art EXCEPT ![g] = r] /\ driver' = [driver EXCEPT ![g] = "exit"]
          /\ driver[g] = "returned"
      BY <1>0, <1>9 DEF TelemetryFails
    <2>3. art[g].result \in {"run", "failed"} BY <2>1 DEF Kept, Phased
    <2>2. Grows(g, r) BY <1>0, <2>3
    <2> HIDE DEF r
    <2> QED BY <1>5, <2>1, <2>2
  <1>10. CASE \/ ExecutorRaises(g) \/ DriverRefused(g)
              \/ Replay(g) \/ UnlockedSave(g) \/ KillDriver(g)
    <2>1. PICK to \in {"raised", "none", "resaved", "withdraw"} :
             /\ art' = art /\ driver' = [driver EXCEPT ![g] = to]
             /\ Calm => to # "resaved"
             /\ to \in {"resaved", "withdraw"} => driver[g] \in {"resave", "resaved"}
      BY <1>1, <1>10 DEF ExecutorRaises, DriverRefused, Replay, UnlockedSave, KillDriver, disk
    <2>2. art' = [art EXCEPT ![g] = art[g]] BY <1>0, <2>1
    <2>3. Grows(g, art[g]) OBVIOUS
    <2> QED BY <1>5, <2>1, <2>2, <2>3
  <1>11. CASE WriteFailureLogs(g)
    <2> DEFINE l == IF art[g].logs = "none" THEN "empty" ELSE art[g].logs
               r == [art[g] EXCEPT !.usage = "run", !.logs = l]
    <2>1. /\ art' = [art EXCEPT ![g] = r] /\ driver' = [driver EXCEPT ![g] = "failure"]
          /\ driver[g] = "post"
      BY <1>0, <1>11 DEF WriteFailureLogs
    <2>2. Grows(g, r) BY <1>0
    <2>3. r.logs # "none" /\ r.usage = "run" BY <1>0
    <2>4. status[g] = "INTERRUPTED" BY <2>1 DEF Kept, Phased
    <2> HIDE DEF r
    <2> QED BY <1>5, <2>1, <2>2, <2>3, <2>4
  <1>12. CASE WriteFailure(g)
    <2> DEFINE r == [art[g] EXCEPT !.result = "failure"]
    <2>1. /\ art' = [art EXCEPT ![g] = r] /\ driver' = [driver EXCEPT ![g] = "none"]
          /\ driver[g] = "failure"
      BY <1>0, <1>12 DEF WriteFailure
    <2>2. art[g].usage # "none" /\ status[g] = "INTERRUPTED" BY <2>1 DEF Kept, Phased
    <2>3. Grows(g, r) BY <1>0, <2>2
    <2> HIDE DEF r
    <2> QED BY <1>5, <2>1, <2>3
  <1> QED BY <1>6, <1>7, <1>8, <1>9, <1>10, <1>11, <1>12

LEMMA ArtifactKeeps ==
    ASSUME Sound, Kept, RecoverArtifact
    PROVE  Kept' /\ (Calm => Calm')
  <1>0. /\ art \in [Gens -> Reports] /\ driver \in [Gens -> Phases] /\ owned \subseteq Gens
    BY DEF Sound, Typed, TypeOK, DiskTypeOK, ProcessTypeOK, JournalTypeOK
  <1>1. PICK x \in Fallbacks : /\ art[x[1]][x[2]] = "none"
                               /\ art' = [art EXCEPT ![x[1]][x[2]] = Derived[x[2]]]
    BY DEF RecoverArtifact
  <1> DEFINE g == x[1]
             a == x[2]
             r == [art[g] EXCEPT ![a] = Derived[a]]
  <1>2. g \in owned /\ g \in Gens /\ a \in Artifacts /\ a \in fallback[g] BY <1>0 DEF Fallbacks
  <1>3. art' = [art EXCEPT ![g] = r] /\ driver' = [driver EXCEPT ![g] = driver[g]]
    BY <1>0, <1>1, <1>2 DEF RecoverArtifact, process
  <1>4. UNCHANGED <<journalVars, archive, cached, op>> BY DEF RecoverArtifact, process
  <1>5. op.kind # "start" BY DEF RecoverArtifact, Resolving, Sound, Owning, TxPCs
  <1>6. /\ art[g] \in Reports /\ driver[g] \in Phases /\ art[g][a] = "none" BY <1>0, <1>1, <1>2
  <1> HIDE DEF g
  <1>7. /\ r.policy = art[g].policy /\ r.owner = art[g].owner /\ r[a] = Derived[a]
        /\ \A b \in Artifacts : b # a => r[b] = art[g][b]
    BY <1>2, <1>6 DEF Reports, Artifacts, Derived
  <1> HIDE DEF r, a
  <1>8. Grows(g, r)
    BY <1>2, <1>6, <1>7 DEF Grows, Artifacts, Derived, Unmeasured, TelemetryFailed, Successful
  <1>9. /\ art[g].logs # "none" => r.logs # "none"
        /\ art[g].result # "none" => r.result # "none"
        /\ art[g].usage # "none" => r.usage # "none"
        /\ art[g].result = r.result \/ (r.result = "derived" /\ "result" \in fallback[g])
    BY <1>2, <1>6, <1>7 DEF Artifacts, Derived
  <1>10. /\ driver[g] \in {"exec", "ran"} => r.result = "none" \/ "result" \in fallback[g]
         /\ driver[g] \in {"ran", "returned", "failure"} => r.logs # "none"
         /\ driver[g] = "returned" => r.result \in {"run", "failed"}
         /\ driver[g] = "failure" => r.usage # "none"
         /\ driver[g] \in {"post", "failure"} => status[g] = "INTERRUPTED"
         /\ driver[g] = "complete" => r.logs # "none" /\ r.result = "run" /\ r.usage # "none"
         /\ Concluded(g) => driver[g] \in Over /\ r.result = "run"
         /\ Calm => driver[g] \notin {"resave", "resaved"}
    <2>1. /\ driver[g] \in {"exec", "ran"} => art[g].result = "none" \/ "result" \in fallback[g]
          /\ driver[g] \in {"ran", "returned", "failure"} => art[g].logs # "none"
          /\ driver[g] = "returned" => art[g].result \in {"run", "failed"}
          /\ driver[g] = "failure" => art[g].usage # "none"
          /\ driver[g] \in {"post", "failure"} => status[g] = "INTERRUPTED"
          /\ driver[g] = "complete" => Accounted(g, {}) /\ art[g].result = "run"
      BY <1>2 DEF Kept, Phased
    <2>2. Calm => driver[g] \notin {"resave", "resaved"} BY <1>2 DEF Calm, Undisturbed
    <2>3. art[g].result \in {"run", "failed"} => r.result = art[g].result
      BY <1>2, <1>6, <1>7 DEF Artifacts
    <2> QED BY <1>9, <2>1, <2>2, <2>3 DEF Accounted, Unmeasured, TelemetryFailed, Concluded
  <1> QED BY <1>2, <1>3, <1>4, <1>5, <1>6, <1>8, <1>10, Writes

-----------------------------------------------------------------------------
(* The lock is released.                                                   *)

LEMMA EndsKeep ==
    ASSUME Sound, Kept,
           \/ Save \/ TerminalRefused \/ PublishPolicyRefused \/ CheckpointRefused
           \/ RecoverRefused \/ RecoverSave \/ RecoverFailed
           \/ (RecoverRollback /\ Release("error"))
    PROVE  Kept' /\ (Calm /\ (RecoverFailed => Founded) => Calm')
  <1>0. UNCHANGED <<journalVars, art, archive>>
    BY DEF Save, TerminalRefused, PublishPolicyRefused, CheckpointRefused, RecoverRefused,
           RecoverSave, RecoverFailed, RecoverRollback, disk
  <1>1. CASE Save
    <2>1. op.pc \in {"save", "ingest"} /\ Release("ok") /\ cached' = Len(journal)
      BY <1>1 DEF Save, Saving
    <2>2. op.kind = "start" /\ op.by = "driver" => op.gen \in owned
      BY <2>1 DEF Kept, Holding, TxPCs
    <2>3. op.pc \notin TxPCs BY <2>1 DEF TxPCs
    <2>4. op.by = "driver" => op.pc = "save" BY <2>1, <2>3 DEF Kept, Holding
    <2> QED BY <1>0, <2>1, <2>2, <2>3, <2>4, Releases
  <1>2. CASE TerminalRefused
    <2>1. RefusedForGood(op.tx) /\ op.pc = "terminal" /\ Release("error")
      BY <1>2 DEF TerminalRefused, Sound, RefusedOnlyWhenTyped
    <2>2. ~Settled BY <2>1 DEF Settled, Sound, Flight, Carrying
    <2> QED BY <1>0, <2>1, <2>2, Releases
  <1>3. CASE PublishPolicyRefused
    <2>1. op.pc = "policy" /\ Release("error") /\ (Calm => cached' = Len(journal))
      BY <1>3 DEF PublishPolicyRefused, Calm, Projected
    <2>2. op.pc \notin TxPCs BY <2>1 DEF TxPCs
    <2> QED BY <1>0, <2>1, <2>2, Releases
  <1>4. CASE CheckpointRefused
    <2>1. op.pc \in {"advance", "verify"} /\ Release("error") BY <1>4 DEF CheckpointRefused
    <2>2. ~Settled BY <2>1 DEF Settled, Sound, Recorded, Placing, Attested
    <2>3. op.pc \notin TxPCs BY <2>1 DEF TxPCs
    <2> QED BY <1>0, <2>1, <2>2, <2>3, Releases
  <1>5. CASE RecoverRefused \/ (RecoverRollback /\ Release("error"))
    <2>1. op.pc = "resolve" /\ Release("error") /\ ~Settled
      BY <1>5 DEF RecoverRefused, RecoverRollback, Resolving, Settled
    <2>2. op.pc \notin TxPCs BY <2>1 DEF TxPCs
    <2> QED BY <1>0, <2>1, <2>2, Releases
  <1>6. CASE RecoverSave
    <2>1. op.pc = "resolve" /\ Release("ok") /\ cached' = Len(journal)
      BY <1>6 DEF RecoverSave, Resolving
    <2>2. op.kind # "start" /\ op.pc \notin TxPCs BY <2>1 DEF Sound, Owning, TxPCs
    <2>3. op.by # "driver" BY <2>1, <2>2 DEF Kept, Holding
    <2> QED BY <1>0, <2>1, <2>2, <2>3, Releases
  <1>7. CASE RecoverFailed
    <2>1. op.pc = "resolve" /\ Release("error") /\ Settled
      BY <1>7 DEF RecoverFailed, Resolving
    <2>2. op.pc \notin TxPCs /\ Accepting = {} /\ \A g \in Gens : ~Publishing(g)
      BY <2>1 DEF TxPCs, Accepting, Publishing
    <2>3. ASSUME Calm, Founded, cached # Len(journal) PROVE ArtifactConflict
      <3> SUFFICES ASSUME ~ArtifactConflict PROVE FALSE OBVIOUS
      <3>1. Recovered /\ ~SpoolOK BY <1>7 DEF RecoverFailed
      <3>2. \A g \in Gens : ~UnfoundedEnd(g) BY <2>1, <2>3 DEF Founded, Clear
      <3>3. ASSUME NEW g \in Gens PROVE ReportsOK(g)
        <4>1. CASE claim[g] \in ByHand BY <3>2, <4>1 DEF UnfoundedEnd
        <4>2. CASE claim[g] \notin ByHand
          BY <2>2, <2>3, <3>1, <4>2, RecoveredReports, UnownedReports
        <4> QED BY <4>1, <4>2
      <3> QED BY <2>1, <2>2, <2>3, <3>1, <3>3, SettledFiles DEF SpoolOK
    <2>4. cached' = cached /\ journal' = journal BY <1>0, <1>7 DEF RecoverFailed, journalVars
    <2>5. CASE ~Founded
      <3>1. op.by # "driver" BY <2>1, <2>2 DEF Kept, Holding
      <3>2. op' = Idle /\ driver' = driver BY <2>1, <3>1 DEF Release
      <3> QED BY <1>0, <1>7, <2>5, <3>2, KeptReleases
    <2>6. CASE Founded
      <3>1. op.kind # "start" /\ op.by # "driver" BY <2>1, <2>2 DEF Sound, Owning, Kept, Holding
      <3> QED BY <1>0, <2>1, <2>2, <2>3, <2>4, <2>6, <3>1, Releases
    <2> QED BY <2>5, <2>6
  <1> QED BY <1>1, <1>2, <1>3, <1>4, <1>5, <1>6, <1>7

-----------------------------------------------------------------------------
(* Nothing of the workflow moves, or a command begins.                     *)

LEMMA AroundKeeps ==
    ASSUME Sound, Kept, Environment \/ Rebuild \/ UNCHANGED vars
    PROVE  Kept' /\ (Calm => Calm')
  <1> USE DEF journalVars, records
  <1>1. UNCHANGED <<journalVars, art, archive, op, driver>>
    BY DEF Environment, DropPrompt, EditRepository, CommitRepository, Rebuild, vars, disk, process
  <1>2. cached' = cached \/ cached' = Len(journal)
    BY DEF Environment, DropPrompt, EditRepository, CommitRepository, Rebuild, vars
  <1>3. Kept'
    <2>1. /\ \A g \in Gens : \A files : Accounted(g, files)' <=> Accounted(g, files)
          /\ \A g \in Gens : Concluded(g) => Concluded(g)'
      BY <1>1 DEF Accounted, Concluded
    <2>2. Phased' BY <1>1, PhasedUntouched DEF Untouched
    <2>3. owned \subseteq Gens /\ Pending' = Pending
      BY <1>1 DEF Sound, Typed, TypeOK, JournalTypeOK, Pending, InHand
    <2>4. Reported' BY <1>1, <2>1, <2>3, ReportedUntouched
    <2> QED BY <1>1, <2>2, <2>4 DEF Kept, Holding, Unstarted
  <1>4. ASSUME Calm PROVE Calm'
    <2>1. Archived' BY <1>1, <1>4, ArchivedUntouched DEF Accepting
    <2>2. Unresolved' BY <1>1, <1>4 DEF Calm, Unresolved, RefusedForGood
    <2>3. Projected'
      BY <1>1, <1>2, <1>4 DEF Calm, Projected, Free, Settled, ArtifactConflict, Fallbacks
    <2>4. Undisturbed' BY <1>1, <1>4 DEF Calm, Undisturbed, Publishing
    <2> QED BY <2>1, <2>2, <2>3, <2>4 DEF Calm
  <1> QED BY <1>3, <1>4

\* A command that begins does not take over anything.
LEMMA Takes ==
    ASSUME Sound, Kept, Free, UNCHANGED <<journalVars, art, driver, archive>>, Holding',
           op'.pc # "idle", op'.pc = "policy" => cached' = Len(journal'),
           op'.kind = "start" => op'.gen \notin owned,
           op'.pc \in TxPCs \cup {"archive", "policy"} =>
               /\ op'.tx.event # "PROMPT_ACCEPTED" /\ Reporting(op'.tx)
               /\ op'.tx.owned => op'.kind = "start"
    PROVE  Kept' /\ (Calm => Calm')
  <1> USE DEF journalVars, records
  <1>1. op.pc = "idle" /\ op.kind = "none" /\ Accepting = {} /\ \A g \in Gens : ~Publishing(g)
    BY DEF Free, Idle, Accepting, Publishing, TxPCs
  <1>2. Calm => Archived' BY <1>1, ArchivedUntouched DEF Accepting
  <1>3. Calm => \A t \in outstanding' : RefusedForGood(t)' BY <1>1 DEF Calm, Unresolved, RefusedForGood
  <1>4. \A t \in Pending' : t \in Pending \/ Reporting(t) BY DEF Pending, InHand
  <1> QED BY <1>1, <1>2, <1>3, <1>4, GoesOn DEF Untouched

LEMMA HoldsKeep ==
    ASSUME Sound, Kept,
           \/ InitBegin \/ AdoptBegin \/ IngestBegin \/ RecoverBegin
           \/ \E g \in Gens : CheckpointBegin(g)
    PROVE  Kept' /\ (Calm => Calm')
  <1>1. /\ Free /\ UNCHANGED <<journalVars, art, driver, archive>>
        /\ op'.pc \in {"append", "ingest", "resolve", "intent"}
        /\ op'.kind # "start" /\ op'.by = "operator"
    BY DEF InitBegin, AdoptBegin, IngestBegin, RecoverBegin, CheckpointBegin, Hold, Idle, disk
  <1>2. op'.pc \notin TxPCs \cup {"archive", "policy"} BY <1>1 DEF TxPCs
  <1>3. Holding' BY <1>1, <1>2 DEF Holding
  <1> QED BY <1>1, <1>2, <1>3, Takes

LEMMA BeginsKeep ==
    ASSUME Sound, Kept, NEW g \in Gens,
           \/ \E by \in {"operator", "driver"} : CompleteBegin(g, by) \/ InterruptBegin(g, by)
           \/ CancelBegin(g) \/ \E b \in BOOLEAN : StartBegin(g, b)
    PROVE  Kept' /\ (Calm => Calm')
  <1>0. /\ UNCHANGED <<journalVars, art, driver, archive, cached>> /\ Free
    BY DEF CompleteBegin, InterruptBegin, CancelBegin, StartBegin, BeginMove, disk
  <1>1. ASSUME NEW by \in {"operator", "driver"}, NEW kind \in {"complete", "interrupt", "cancel"},
               NEW event \in {"RUN_COMPLETED", "RUN_INTERRUPTED", "PROMPT_CANCELLED"},
               NEW t, BeginMove(kind, "prepare", by, t),
               t.event = event, ~t.owned, t.gen = g, Reporting(t),
               by = "driver" => g \in owned /\ (kind # "complete" => event = "RUN_INTERRUPTED")
        PROVE  Kept' /\ (Calm => Calm')
    <2>1. /\ op'.kind = kind /\ op'.pc = "prepare" /\ op'.next = "save" /\ op'.by = by /\ op'.gen = g
          /\ op'.tx = t
      BY <1>1 DEF BeginMove
    <2>2. Holding' BY <1>0, <1>1, <2>1 DEF Holding, TxPCs, journalVars, records
    <2> QED BY <1>0, <1>1, <2>1, <2>2, Takes
  <1>2. ASSUME NEW by \in {"operator", "driver"}, CompleteBegin(g, by) PROVE Kept' /\ (Calm => Calm')
    <2>1. by = "driver" => /\ g \in owned /\ Accounted(g, {}) /\ Concluded(g)
      BY <1>2 DEF CompleteBegin, Kept, Unstarted, Phased, Concluded, Over
    <2>2. ASSUME NEW event \in {"RUN_COMPLETED", "RUN_INTERRUPTED"}, NEW to, NEW w, NEW c,
                 by # "driver" => c \in ByHand
          PROVE  /\ EndTx(event, g, to, w, c).event = event /\ EndTx(event, g, to, w, c).gen = g
                 /\ ~EndTx(event, g, to, w, c).owned /\ Reporting(EndTx(event, g, to, w, c))
      BY <2>1, <2>2 DEF Reporting, EndTx, MoveTx, Tx
    <2>3. CASE PolicyAllows(repo, g)
      <3>1. PICK c \in IF by = "driver" THEN {"executor"} ELSE Results :
               BeginMove("complete", "prepare", by, EndTx("RUN_COMPLETED", g, "completed", repo, c))
        BY <1>2, <2>3 DEF CompleteBegin
      <3>2. by # "driver" => c \in ByHand BY <3>1, ResultsAssumption DEF ByHand
      <3> QED BY <1>1, <2>1, <2>2, <3>1, <3>2
    <2>4. CASE ~PolicyAllows(repo, g)
      <3>1. PICK c \in {"executor", "typed"} :
               /\ by # "driver" => c \in ByHand
               /\ BeginMove("interrupt", "prepare", by,
                            EndTx("RUN_INTERRUPTED", g, "interrupted", wit[g], c))
        BY <1>2, <2>4 DEF CompleteBegin, ByHand
      <3> QED BY <1>1, <2>1, <2>2, <3>1
    <2> QED BY <2>3, <2>4
  <1>3. ASSUME NEW by \in {"operator", "driver"}, InterruptBegin(g, by) PROVE Kept' /\ (Calm => Calm')
    <2>1. g \in owned => Accounted(g, MissingArtifacts(g))
      <3> SUFFICES ASSUME g \in owned PROVE Accounted(g, MissingArtifacts(g)) OBVIOUS
      <3>1. /\ "logs" \in MissingArtifacts(g) <=> art[g].logs = "none"
            /\ "result" \in MissingArtifacts(g) <=> art[g].result = "none"
            /\ "usage" \in MissingArtifacts(g) <=>
                  art[g].usage = "none" /\ art[g].result \notin {"none"} \cup Unmeasured
        BY DEF MissingArtifacts, Artifacts
      <3> QED BY <3>1 DEF Accounted
    <2>2. by = "driver" => g \in owned BY <1>3 DEF InterruptBegin, Kept, Unstarted
    <2> DEFINE t == MoveTx("RUN_INTERRUPTED", g, "interrupted", wit[g], FALSE, MissingArtifacts(g))
    <2>3. t.event = "RUN_INTERRUPTED" /\ ~t.owned /\ t.gen = g /\ Reporting(t)
      BY <2>1 DEF MoveTx, Tx, Reporting
    <2>4. BeginMove("interrupt", "prepare", by, t) BY <1>3 DEF InterruptBegin
    <2> HIDE DEF t
    <2> QED BY <1>1, <2>2, <2>3, <2>4
  <1>4. ASSUME CancelBegin(g) PROVE Kept' /\ (Calm => Calm')
    <2> DEFINE t == MoveTx("PROMPT_CANCELLED", g, "cancelled", wit[g], FALSE, {})
    <2>1. t.event = "PROMPT_CANCELLED" /\ ~t.owned /\ t.gen = g /\ Reporting(t)
      BY DEF MoveTx, Tx, Reporting
    <2>2. BeginMove("cancel", "prepare", "operator", t) BY <1>4 DEF CancelBegin
    <2> HIDE DEF t
    <2> QED BY <1>1, <2>1, <2>2
  <1>5. ASSUME NEW b \in BOOLEAN, StartBegin(g, b) PROVE Kept' /\ (Calm => Calm')
    <2>1. /\ op'.kind = "start" /\ op'.pc = (IF b THEN "policy" ELSE "prepare") /\ op'.next = "save"
          /\ op'.by = (IF b THEN "driver" ELSE "operator") /\ op'.gen = g
          /\ op'.tx.event = "RUN_STARTED" /\ op'.tx.owned = b /\ op'.tx.gen = g
          /\ op'.tx.prompt = prompt[g] /\ op'.tx.claim = "none" /\ op'.tx.fallback = {}
      BY <1>5 DEF StartBegin, BeginMove, MoveTx, Tx
    <2>2. g \notin owned BY <1>5 DEF StartBegin, Sound, Owning
    <2>3. cached' = Len(journal') BY <1>0, <1>5 DEF StartBegin, Preflight, Fresh, journalVars
    <2>4. Holding' BY <2>1 DEF Holding, TxPCs
    <2>5. Reporting(op'.tx) BY <1>5, <2>1 DEF StartBegin, Reporting
    <2> QED BY <1>0, <2>1, <2>2, <2>3, <2>4, <2>5, Takes
  <1> QED BY <1>2, <1>3, <1>4, <1>5

-----------------------------------------------------------------------------
(* The lock holder goes on.                                                *)

LEMMA HoldingGoto ==
    ASSUME Typed, Kept, NEW pc \in PCs \ {"archive", "policy"}, Goto(pc), owned \subseteq owned',
           pc = "save" /\ op.kind = "start" /\ op.tx.owned => op.gen \in owned',
           op.by = "driver" => pc \in TxPCs \cup {"save"} /\ op.pc # "save",
           op.by = "driver" /\ op.kind \notin {"start", "complete"} /\ pc = "save" =>
               status'[op.gen] = "INTERRUPTED"
    PROVE  Holding'
  <1>1. /\ op'.pc = pc /\ op'.tx = op.tx /\ op'.gen = op.gen /\ op'.next = op.next
        /\ op'.kind = op.kind /\ op'.by = op.by
    BY GotoType DEF Typed
  <1> QED BY <1>1 DEF Kept, Holding

LEMMA StepsKeep ==
    ASSUME Sound, Kept,
           \/ InitAppend \/ AdoptAppend \/ Prepare \/ Rename
           \/ CheckpointIntent \/ CheckpointAdvance \/ CheckpointVerify \/ RecoverAbort
    PROVE  Kept' /\ (Calm => Calm')
  <1>1. PICK pc \in TxPCs \cup {"save", "advance", "verify", "finish", "resolve"} :
           /\ Goto(pc) /\ (pc \in TxPCs <=> op.pc \in TxPCs)
           /\ pc = "resolve" => op.pc = "abort"
           /\ pc \notin TxPCs => op.pc \in {"append", "intent", "advance", "verify", "abort"}
    BY DEF InitAppend, AdoptAppend, Prepare, Rename, CheckpointIntent, CheckpointAdvance,
           CheckpointVerify, RecoverAbort, TxPCs
  <1>2. Untouched /\ UNCHANGED archive
    BY DEF InitAppend, AdoptAppend, Prepare, Rename, CheckpointIntent, CheckpointAdvance,
           CheckpointVerify, RecoverAbort, Goto, Untouched, LogInitialized, LogAdopted, LogPrepared,
           LogIntent, LogAborted, journalVars, disk
  <1>3. outstanding' \subseteq outstanding \cup InHand /\ (op.pc \notin TxPCs => outstanding' = outstanding)
    BY DEF InitAppend, AdoptAppend, Prepare, Rename, CheckpointIntent, CheckpointAdvance,
           CheckpointVerify, RecoverAbort, LogInitialized, LogAdopted, LogPrepared, LogIntent,
           LogAborted, journalVars, InHand, TxPCs
  <1>4. /\ op'.pc = pc /\ op'.tx = op.tx /\ op'.gen = op.gen /\ op'.kind = op.kind /\ op'.by = op.by
        /\ pc \in PCs \ {"archive", "policy"}
    BY <1>1, GotoType DEF Sound, Typed, PCs, TxPCs
  <1>5. Accepting' = Accepting BY <1>1, <1>4 DEF Accepting
  <1>6. Calm => Archived' BY <1>2, <1>5, ArchivedUntouched DEF Untouched, records
  <1>7. Holding'
    <2>1. op.kind = "start" => op.pc \in TxPCs \/ op.pc \in {"policy", "save"}
      BY DEF Sound, Owning
    <2>2. op.by = "driver" => op.pc \in TxPCs \/ op.pc \in {"policy", "save"} BY DEF Kept, Holding
    <2>3. pc \notin TxPCs => op.kind # "start" /\ op.by # "driver" BY <1>1, <2>1, <2>2 DEF TxPCs
    <2> QED BY <1>1, <1>2, <1>4, <2>3, HoldingGoto DEF Sound, Untouched, records, TxPCs
  <1>8. op'.pc = "resolve" => outstanding' = {}
    BY <1>1, <1>3, <1>4 DEF Sound, Flight, Carrying, TxPCs
  <1>9. \A g \in Gens : Publishing(g) => Publishing(g)' BY <1>1, <1>4 DEF Publishing
  <1>10. \A t \in Pending' : t \in Pending BY <1>1, <1>3, <1>4 DEF Pending, InHand, TxPCs
  <1>11. op'.pc # "idle" /\ op'.pc # "policy" BY <1>4, <1>1 DEF TxPCs
  <1>12. Calm /\ op'.pc \in TxPCs /\ op'.tx.owned => op'.kind = "start"
    BY <1>1, <1>4 DEF Calm, Undisturbed
  <1> QED BY <1>2, <1>4, <1>6, <1>7, <1>8, <1>9, <1>10, <1>11, <1>12, GoesOn

LEMMA ArchiveKeeps ==
    ASSUME Sound, Kept, Archive
    PROVE  Kept' /\ (Calm => Calm')
  <1>1. /\ op'.pc = "prepare" /\ op'.tx = op.tx /\ op'.gen = op.gen /\ op'.kind = op.kind
        /\ op'.by = op.by /\ Goto("prepare") /\ op.pc = "archive"
    BY GotoType DEF Archive, Sound, Typed, PCs, TxPCs
  <1>2. Untouched /\ UNCHANGED journalVars /\ archive' = archive \cup {op.tx.prompt}
    BY DEF Archive, Untouched, Goto, journalVars
  <1>3. op.tx.event = "PROMPT_ACCEPTED" /\ ~op.tx.owned /\ op.kind # "start" /\ op.by # "driver"
    BY <1>1 DEF Kept, Holding, Sound, Typed, LocalsOK, ValidTx, Owning, TxPCs
  <1>4. Calm => Archived'
    <2>1. Accepting = {} /\ Accepting' = {op.tx.prompt} BY <1>1, <1>3 DEF Accepting, TxPCs
    <2> QED BY <1>2, <2>1 DEF Calm, Archived, Known, journalVars, records
  <1>5. Holding'
    BY <1>1, <1>2, <1>3, HoldingGoto DEF Sound, journalVars, records, PCs, TxPCs
  <1>6. Pending' \subseteq Pending BY <1>1, <1>2 DEF Pending, InHand, journalVars
  <1>7. \A g \in Gens : ~Publishing(g) BY <1>3 DEF Publishing
  <1> QED BY <1>1, <1>2, <1>3, <1>4, <1>5, <1>6, <1>7, GoesOn

\* The lock holder takes up a transaction, or another part of its command.
LEMMA Moves ==
    ASSUME Sound, Kept, Untouched, UNCHANGED <<archive, outstanding>>,
           op.pc \notin TxPCs \cup {"policy", "save"}, op'.kind = op.kind, op'.by = op.by,
           op'.pc \notin {"idle", "policy", "resolve"},
           op'.pc = "archive" => op'.tx.event = "PROMPT_ACCEPTED",
           op'.pc \in TxPCs \cup {"archive"} => op'.tx \in Pending \/ Reporting(op'.tx),
           Calm /\ op'.pc \in TxPCs => op'.tx.event # "PROMPT_ACCEPTED" /\ ~op'.tx.owned
    PROVE  Kept' /\ (Calm => Calm')
  <1>1. op.kind # "start" /\ op.by # "driver" BY DEF Sound, Owning, Kept, Holding
  <1>2. Calm => Accepting = {} /\ Accepting' = {} BY DEF Accepting
  <1>3. Calm => Archived' BY <1>2, ArchivedUntouched DEF Untouched, records
  <1>4. Holding' BY <1>1 DEF Holding
  <1>5. \A t \in Pending' : t \in Pending \/ Reporting(t) BY DEF Pending, InHand
  <1>6. \A g \in Gens : ~Publishing(g) BY <1>1 DEF Publishing
  <1> QED BY <1>1, <1>3, <1>4, <1>5, <1>6, GoesOn

LEMMA IngestsKeep ==
    ASSUME Sound, Kept, Receive \/ Process
    PROVE  Kept' /\ (Calm => Calm')
  <1>0. /\ Untouched /\ UNCHANGED <<archive, outstanding>> /\ op.pc = "ingest"
        /\ op.pc \notin TxPCs \cup {"policy", "save"}
    BY DEF Receive, Process, Untouched, LogReceived, journalVars, disk, TxPCs
  <1>1. ASSUME NEW t, NEW pc, Move(t, pc, "ingest"), ~t.owned, t.fallback = {},
               \/ pc = "prepare" /\ t.event = "PROMPT_REJECTED"
               \/ pc = "archive" /\ t.event = "PROMPT_ACCEPTED"
        PROVE  Kept' /\ (Calm => Calm')
    <2>1. op'.tx = t /\ op'.pc = pc /\ op'.kind = op.kind /\ op'.by = op.by
      BY <1>1, MoveFields DEF Sound
    <2>2. Reporting(t) BY <1>1 DEF Reporting
    <2> QED BY <1>0, <1>1, <2>1, <2>2, Moves DEF TxPCs
  <1>2. CASE UNCHANGED op
    BY <1>0, <1>2, Moves
  <1>3. ASSUME NEW name, NEW p, NEW id
        PROVE  LET r == [Rejection(name, p) EXCEPT !.id = id]
               IN  r.event = "PROMPT_REJECTED" /\ ~r.owned /\ r.fallback = {}
    BY DEF Rejection, Tx
  <1>4. ASSUME NEW name, NEW p
        PROVE  /\ Rejection(name, p).event = "PROMPT_REJECTED" /\ ~Rejection(name, p).owned
               /\ Rejection(name, p).fallback = {}
    BY DEF Rejection, Tx
  <1>5. CASE Receive
    <2>1. PICK f : \/ Move([Rejection(f[1], f[2]) EXCEPT !.id = NextSeq + 1], "prepare", "ingest")
                   \/ UNCHANGED op
      BY <1>5 DEF Receive
    <2> QED BY <1>1, <1>2, <1>3, <2>1
  <1>6. CASE Process
    <2>1. PICK f : \/ Move(Tx("PROMPT_ACCEPTED", f[2].gen, f[2], <<"inbox", f[1], f[2]>>,
                              <<"accepted", "canonical", f[2]>>, batch.wit, FALSE, {}),
                           "archive", "ingest")
                   \/ Move(Rejection(f[1], f[2]), "prepare", "ingest")
      BY <1>6 DEF Process
    <2>2. CASE Move(Rejection(f[1], f[2]), "prepare", "ingest") BY <1>1, <1>4, <2>2
    <2>3. CASE Move(Tx("PROMPT_ACCEPTED", f[2].gen, f[2], <<"inbox", f[1], f[2]>>,
                       <<"accepted", "canonical", f[2]>>, batch.wit, FALSE, {}),
                    "archive", "ingest")
      BY <1>1, <2>3 DEF Tx
    <2> QED BY <2>1, <2>2, <2>3
  <1> QED BY <1>5, <1>6

LEMMA RecoversKeep ==
    ASSUME Sound, Kept, RecoverTransaction \/ RecoverForward \/ RecoverRollback
    PROVE  Kept' /\ (Calm => Calm')
  <1>0. /\ Untouched \/ (RecoverRollback /\ Release("error"))
        /\ UNCHANGED <<archive, outstanding>> /\ op.pc = "resolve"
        /\ op.pc \notin TxPCs \cup {"policy", "save"}
    BY DEF RecoverTransaction, RecoverForward, RecoverRollback, Resolving, Untouched, journalVars,
           disk, TxPCs
  <1>1. CASE RecoverTransaction
    <2>1. PICK t \in outstanding :
             Move(t, IF t.owned THEN "owner" ELSE IF t.src \in spool THEN "rename" ELSE "terminal",
                  "resolve")
      BY <1>1 DEF RecoverTransaction
    <2>2. Calm => t.event = "RUN_COMPLETED" /\ ~t.owned
      BY <1>0 DEF Calm, Unresolved, RefusedForGood, Sound, Typed, LocalsOK, ValidTx
    <2>3. /\ op'.tx = t /\ op'.pc \in {"owner", "rename", "terminal"} /\ op'.kind = op.kind
          /\ op'.by = op.by
      BY <2>1, MoveFields DEF Sound
    <2>4. Untouched BY <1>1 DEF RecoverTransaction, Untouched, journalVars, disk
    <2> QED BY <1>0, <2>2, <2>3, <2>4, Moves DEF Pending, TxPCs
  <1>2. CASE RecoverForward
    <2>1. PICK i \in intents : op' = [op EXCEPT !.pc = "finish", !.gen = i.gen, !.wit = repo]
      BY <1>2 DEF RecoverForward
    <2>2. op'.pc = "finish" /\ op'.kind = op.kind /\ op'.by = op.by
      BY <2>1 DEF Sound, Typed, TypeOK, ProcessTypeOK, Ops
    <2>3. Untouched BY <1>2 DEF RecoverForward, Untouched, journalVars, disk
    <2> QED BY <1>0, <2>2, <2>3, Moves DEF TxPCs
  <1>3. CASE RecoverRollback /\ Release("error")
    BY <1>3, EndsKeep DEF RecoverFailed, RecoverRollback, Settled
  <1>4. CASE RecoverRollback /\ ~Release("error")
    <2>1. PICK i \in intents : op' = [op EXCEPT !.pc = "abort", !.gen = i.gen]
      BY <1>4 DEF RecoverRollback
    <2>2. op'.pc = "abort" /\ op'.kind = op.kind /\ op'.by = op.by
      BY <2>1 DEF Sound, Typed, TypeOK, ProcessTypeOK, Ops
    <2> QED BY <1>0, <1>4, <2>2, Moves DEF TxPCs
  <1> QED BY <1>1, <1>2, <1>3, <1>4

LEMMA FinishKeeps ==
    ASSUME Sound, Kept, CheckpointFinish
    PROVE  Kept' /\ (Calm => Calm')
  <1>0. /\ Untouched /\ UNCHANGED <<archive, outstanding>> /\ op.pc = "finish"
        /\ op.pc \notin TxPCs \cup {"policy", "save"}
    BY DEF CheckpointFinish, Untouched, journalVars, disk, TxPCs
  <1>1. op.gen \notin owned
    <2>1. prompt[op.gen].action = "checkpoint" BY <1>0 DEF Sound, Recorded, Placing, Checkpointing
    <2> QED BY <2>1 DEF Kept, Reported
  <1>2. ASSUME NEW event \in {"RUN_STARTED", "RUN_COMPLETED"}, NEW to, NEW w, NEW next,
               Move(MoveTx(event, op.gen, to, w, FALSE, {}), "prepare", next)
        PROVE  Kept' /\ (Calm => Calm')
    <2> DEFINE t == MoveTx(event, op.gen, to, w, FALSE, {})
    <2>1. op'.tx = t /\ op'.pc = "prepare" /\ op'.kind = op.kind /\ op'.by = op.by
      BY <1>2, MoveFields DEF Sound
    <2>2. t.event = event /\ t.gen = op.gen /\ ~t.owned /\ t.fallback = {} BY DEF MoveTx, Tx
    <2> HIDE DEF t
    <2>3. Reporting(t) BY <1>1, <2>2 DEF Reporting
    <2> QED BY <1>0, <2>1, <2>2, <2>3, Moves DEF TxPCs
  <1> QED BY <1>2 DEF CheckpointFinish

\* The files a start publishes before its run is the journal's.
LEMMA PublishesKeep ==
    ASSUME Sound, Kept, PublishPolicy \/ PublishOwner
    PROVE  Kept' /\ (Calm => Calm')
  <1> USE DEF journalVars, records
  <1>0. art \in [Gens -> Reports] /\ owned \subseteq Gens
    BY DEF Sound, Typed, TypeOK, DiskTypeOK, JournalTypeOK
  <1>1. PICK pc \in TxPCs : Goto(pc)
    BY DEF PublishPolicy, PublishOwner, TxPCs
  <1>2. /\ op'.pc = pc /\ op'.tx = op.tx /\ op'.gen = op.gen /\ op'.kind = op.kind /\ op'.by = op.by
        /\ pc \in PCs \ {"archive", "policy"} /\ UNCHANGED driver
    BY <1>1, GotoType DEF Sound, Typed, PCs, TxPCs, Goto
  <1>3. UNCHANGED <<journalVars, archive>> BY DEF PublishPolicy, PublishOwner
  <1>4. op.tx \in Pending BY DEF PublishPolicy, PublishOwner, TxPCs, Pending, InHand
  <1>5. \A g \in Gens : /\ art'[g].logs = art[g].logs /\ art'[g].result = art[g].result
                        /\ art'[g].usage = art[g].usage
    BY <1>0 DEF PublishPolicy, PublishOwner, Reports
  <1>6. Kept'
    <2>1. Holding'
      <3>1. op.pc # "save" BY DEF PublishPolicy, PublishOwner
      <3> QED BY <1>1, <1>2, <1>3, <3>1, HoldingGoto DEF Sound, TxPCs
    <2>2. Unstarted' BY <1>2, <1>3, <1>5 DEF Kept, Unstarted
    <2>3. /\ \A g \in Gens : \A files : Accounted(g, files)' <=> Accounted(g, files)
          /\ \A g \in Gens : Concluded(g) => Concluded(g)'
      BY <1>2, <1>5 DEF Accounted, Concluded
    <2>4. Phased'
      <3>1. \A g \in Gens : /\ driver'[g] = driver[g] /\ fallback'[g] = fallback[g]
                            /\ status'[g] = status[g]
                            /\ Accounted(g, {}) => Accounted(g, {})'
        BY <1>2, <1>3, <2>3
      <3> QED BY <1>5, <3>1 DEF Kept, Phased
    <2>5. Pending' \subseteq Pending BY <1>2, <1>3, <1>4 DEF Pending, InHand
    <2>6. Reported' BY <1>0, <1>3, <2>3, <2>5, ReportedUntouched
    <2> QED BY <2>1, <2>2, <2>4, <2>6 DEF Kept
  <1>7. ASSUME Calm PROVE Calm'
    <2>1. op.kind = "start" /\ op.gen = op.tx.gen /\ op.tx.owned
      <3>1. CASE PublishPolicy BY <3>1 DEF PublishPolicy, Sound, Owning, Kept, Holding
      <3>2. CASE PublishOwner
        BY <1>7, <3>2 DEF PublishOwner, Sound, Filing, Kept, Holding, Calm, Undisturbed, TxPCs
      <3> QED BY <3>1, <3>2
    <2>2. op.tx.event # "PROMPT_ACCEPTED"
      BY <2>1 DEF PublishPolicy, PublishOwner, Sound, Typed, LocalsOK, ValidTx, TxPCs
    <2>3. Archived' BY <1>2, <1>3, <1>7, <2>2, ArchivedUntouched DEF Accepting
    <2>4. Unresolved' /\ Projected'
      BY <1>1, <1>2 DEF Unresolved, Projected, Free, Idle, TxPCs
    <2>5. Undisturbed'
      <3>1. \A g \in Gens : g # op.gen => art'[g] = art[g]
        BY <1>0, <2>1 DEF PublishPolicy, PublishOwner
      <3>2. ASSUME NEW g \in Gens, g \notin owned, ~Publishing(g)'
            PROVE  ~art'[g].policy /\ ~art'[g].owner
        <4>1. g # op.gen BY <1>1, <1>2, <2>1, <3>2 DEF Publishing
        <4>2. ~Publishing(g) BY <4>1 DEF Publishing
        <4> QED BY <1>7, <3>1, <3>2, <4>1, <4>2 DEF Calm, Undisturbed
      <3>3. UNCHANGED <<owned, driver>> /\ op'.kind = "start" BY <1>2, <1>3, <2>1
      <3>4. \A g \in Gens : driver[g] \notin {"resave", "resaved"} BY <1>7 DEF Calm, Undisturbed
      <3> QED BY <3>2, <3>3, <3>4 DEF Undisturbed
    <2> QED BY <2>3, <2>4, <2>5 DEF Calm
  <1> QED BY <1>6, <1>7

-----------------------------------------------------------------------------
(* Terminal events.                                                        *)

\* The reports are at a terminal event what they were when the transaction was prepared.
LEMMA ReportedTerminal ==
    ASSUME Sound, Kept, Terminal
    PROVE  Reported' /\ Phased'
  <1> DEFINE t == op.tx
             g == op.tx.gen
  <1>0. /\ UNCHANGED <<art, driver>> /\ outstanding' = {} /\ op'.pc \notin TxPCs \cup {"archive", "policy"}
        /\ status \in [Gens -> Statuses] /\ fallback \in [Gens -> SUBSET Artifacts]
        /\ claim \in [Gens -> Claims]
        /\ owned \subseteq Gens /\ t.event \in Transitions /\ Reporting(t)
        /\ t.owned => t.event = "RUN_STARTED"
    BY AfterTerminal DEF Terminal, Goto, disk, TxPCs, Sound, Typed, TypeOK, JournalTypeOK, ValidTx,
       Txs, Kept, Reported, Pending
  <1>1. /\ Prepared(t) /\ Admissible(t)
        /\ t.event = "PROMPT_REJECTED" => UNCHANGED <<records, boundary, intents>>
        /\ t.event # "PROMPT_REJECTED" => g \in Gens /\ status' = [status EXCEPT ![g] = Outcome[t.event]]
        /\ t.event = "PROMPT_ACCEPTED" => prompt' = [prompt EXCEPT ![g] = t.prompt] /\ g \notin Known
        /\ t.event \notin {"PROMPT_ACCEPTED", "PROMPT_REJECTED"} => UNCHANGED prompt /\ g \in Known
    BY TerminalEffect DEF Sound
  <1>2. /\ owned' = IF t.event = "RUN_STARTED" /\ t.owned THEN owned \cup {g} ELSE owned
        /\ fallback' = IF t.event = "RUN_INTERRUPTED" THEN [fallback EXCEPT ![g] = t.fallback] ELSE fallback
        /\ claim' = IF t.event \in {"RUN_COMPLETED", "RUN_INTERRUPTED"}
                     THEN [claim EXCEPT ![g] = t.claim] ELSE claim
    BY DEF Terminal, LogTerminal
  <1>3. /\ t.event \in {"PROMPT_CANCELLED", "RUN_STARTED"} => status[g] = "ACCEPTED"
        /\ t.event \in {"RUN_COMPLETED", "RUN_INTERRUPTED"} => status[g] = "RUNNING"
        /\ t.event \notin {"PROMPT_ACCEPTED", "PROMPT_REJECTED"} => prompt[g] = t.prompt
        /\ t.event = "PROMPT_ACCEPTED" /\ g \in Gens => status[g] = "NONE"
    BY <1>0, <1>1 DEF Admissible, Transitions, Known
  <1>4. \A h \in Gens : /\ \A files : Accounted(h, files)' <=> Accounted(h, files)
                         /\ (Concluded(h)' <=> Concluded(h))
    BY <1>0 DEF Accounted, Concluded
  <1> HIDE DEF t, g
  <1>5. t.event # "PROMPT_REJECTED" => fallback[g] = {}
    BY <1>0, <1>1, <1>3 DEF Kept, Reported, Transitions
  <1>6. \A h \in Gens : fallback'[h] # {} => status'[h] = "INTERRUPTED"
    <2>1. CASE t.event = "PROMPT_REJECTED" BY <1>1, <1>2, <2>1 DEF Kept, Reported, records
    <2>2. CASE t.event = "RUN_INTERRUPTED"
      BY <1>0, <1>1, <1>2, <2>2 DEF Kept, Reported, Outcome
    <2>3. CASE t.event \notin {"PROMPT_REJECTED", "RUN_INTERRUPTED"}
      BY <1>0, <1>1, <1>2, <1>5, <2>3 DEF Kept, Reported
    <2> QED BY <2>1, <2>2, <2>3
  <1>7. ASSUME NEW h \in owned', status'[h] # "RUNNING", claim'[h] \notin ByHand
        PROVE  Accounted(h, fallback'[h]) /\ (status'[h] = "COMPLETED" => Concluded(h))
    <2>1. CASE t.event = "PROMPT_REJECTED" BY <1>1, <1>2, <1>7, <2>1 DEF Kept, Reported, records
    <2>2. CASE t.event # "PROMPT_REJECTED" /\ h = g
      <3>1. t.event # "RUN_STARTED" BY <1>0, <1>1, <1>7, <2>2 DEF Outcome
      <3>2. h \in owned /\ status[h] \notin {"NONE", "ACCEPTED"}
        BY <1>2, <1>7, <3>1 DEF Sound, Owning
      <3>3. t.event \in {"RUN_COMPLETED", "RUN_INTERRUPTED"}
        BY <1>0, <1>1, <1>3, <2>2, <3>1, <3>2 DEF Transitions
      <3>6. t.claim \notin ByHand BY <1>0, <1>1, <1>2, <1>7, <2>2, <3>3
      <3>7. status'[h] = "COMPLETED" => t.event = "RUN_COMPLETED"
        BY <1>0, <1>1, <2>2, <3>3 DEF Outcome
      <3>4. Accounted(h, t.fallback) /\ (t.event = "RUN_COMPLETED" => Concluded(h))
        BY <1>0, <2>2, <3>2, <3>3, <3>6 DEF Reporting, g, t
      <3>5. fallback'[h] = t.fallback
        BY <1>0, <1>1, <1>2, <1>5, <2>2, <3>3 DEF Reporting
      <3> QED BY <3>4, <3>5, <3>7
    <2>3. CASE t.event # "PROMPT_REJECTED" /\ h # g
      <3>1. h \in owned /\ h \in Gens BY <1>0, <1>2, <2>3, <1>7
      <3>2. status'[h] = status[h] /\ fallback'[h] = fallback[h] /\ claim'[h] = claim[h]
        BY <1>0, <1>1, <1>2, <2>3, <3>1
      <3> QED BY <1>7, <3>1, <3>2 DEF Kept, Reported
    <2> QED BY <2>1, <2>2, <2>3
  <1>8. ASSUME NEW h \in owned' PROVE prompt'[h].action # "checkpoint"
    <2>1. CASE h \in owned
      <3>1. h \in Known BY <1>0, <2>1 DEF Sound, Owning, Known
      <3>2. prompt'[h] = prompt[h]
        <4>1. CASE t.event = "PROMPT_ACCEPTED"
          <5>1. h # g BY <1>1, <3>1, <4>1
          <5> QED BY <1>1, <3>1, <4>1, <5>1 DEF Sound, Typed, TypeOK, JournalTypeOK, Known
        <4>2. CASE t.event # "PROMPT_ACCEPTED" BY <1>1, <4>2 DEF records
        <4> QED BY <4>1, <4>2
      <3> QED BY <2>1, <3>2 DEF Kept, Reported
    <2>2. CASE h \notin owned
      <3>1. h = g /\ t.event = "RUN_STARTED" /\ t.owned BY <1>2, <1>8, <2>2
      <3> QED BY <1>0, <1>1, <1>3, <3>1 DEF Reporting
    <2> QED BY <2>1, <2>2
  <1>12. \A h \in Gens : claim'[h] # "none" =>
            status'[h] \in {"COMPLETED", "INTERRUPTED"} /\ fallback'[h] = {}
    <2>0. t.event # "PROMPT_REJECTED" => claim[g] = "none"
      BY <1>0, <1>1, <1>3 DEF Kept, Reported, Transitions
    <2>1. CASE t.event = "PROMPT_REJECTED" BY <1>1, <2>1 DEF Kept, Reported, records
    <2>2. CASE t.event \in {"RUN_COMPLETED", "RUN_INTERRUPTED"}
      <3>1. t.claim # "none" => t.fallback = {} BY <1>0 DEF Reporting
      <3> QED BY <1>0, <1>1, <1>2, <1>5, <2>2, <3>1 DEF Kept, Reported, Outcome
    <2>3. CASE t.event \notin {"PROMPT_REJECTED", "RUN_COMPLETED", "RUN_INTERRUPTED"}
      BY <1>0, <1>1, <1>2, <2>0, <2>3 DEF Kept, Reported
    <2> QED BY <2>1, <2>2, <2>3
  <1>9. Pending' = {} BY <1>0 DEF Pending, InHand
  <1>10. Reported'
    <2>1. owned' \subseteq Gens BY <1>0, <1>1, <1>2
    <2> QED BY <1>0, <1>4, <1>6, <1>7, <1>8, <1>9, <1>12, <2>1 DEF Reported, Accounted
  <1>11. Phased'
    <2>1. ASSUME NEW h \in Gens, driver[h] \in {"exec", "ran"}
          PROVE  art[h].result = "none" \/ "result" \in fallback'[h]
      <3>1. art[h].result = "none" \/ "result" \in fallback[h] BY <2>1 DEF Kept, Phased
      <3>2. CASE fallback'[h] = fallback[h] BY <3>1, <3>2
      <3>3. CASE fallback'[h] # fallback[h]
        <4>1. h = g /\ t.event = "RUN_INTERRUPTED" BY <1>0, <1>2, <3>3
        <4> QED BY <1>5, <3>1, <4>1
      <3> QED BY <3>2, <3>3
    <2>2. ASSUME NEW h \in Gens, status[h] = "INTERRUPTED" PROVE status'[h] = "INTERRUPTED"
      <3>1. t.event = "PROMPT_REJECTED" \/ h # g
        BY <1>0, <1>1, <1>3, <2>2 DEF Transitions
      <3> QED BY <1>0, <1>1, <2>2, <3>1 DEF records
    <2>3. \A h \in Gens : /\ driver'[h] = driver[h] /\ art'[h] = art[h]
                          /\ Accounted(h, {}) => Accounted(h, {})'
      BY <1>0 DEF Accounted
    <2> QED BY <2>1, <2>2, <2>3 DEF Kept, Phased
  <1> QED BY <1>10, <1>11

LEMMA TerminalKeeps ==
    ASSUME Sound, Kept, Terminal
    PROVE  Kept' /\ (Calm => Calm')
  <1> DEFINE t == op.tx
             g == op.tx.gen
  <1>0. /\ UNCHANGED <<art, driver, archive>> /\ outstanding' = {} /\ Goto(op.next)
        /\ op'.pc = op.next /\ op'.tx = t /\ op'.gen = op.gen /\ op'.kind = op.kind
        /\ op.next \in {"idle", "save", "ingest", "finish", "resolve"} /\ op.pc = "terminal"
        /\ t.event \in Transitions /\ (t.owned => t.event = "RUN_STARTED")
    BY AfterTerminal DEF Terminal, Goto, disk, Sound, ValidTx, Txs
  <1>1. /\ t.event = "PROMPT_REJECTED" => UNCHANGED records
        /\ t.event # "PROMPT_REJECTED" => g \in Gens /\ status' = [status EXCEPT ![g] = Outcome[t.event]]
        /\ t.event = "PROMPT_ACCEPTED" => prompt' = [prompt EXCEPT ![g] = t.prompt] /\ g \notin Known
        /\ t.event \notin {"PROMPT_ACCEPTED", "PROMPT_REJECTED"} => UNCHANGED prompt /\ g \in Known
    BY TerminalEffect DEF Sound
  <1>2. owned' = IF t.event = "RUN_STARTED" /\ t.owned THEN owned \cup {g} ELSE owned
    BY DEF Terminal, LogTerminal
  <1>4. t.owned => t.event = "RUN_STARTED" BY <1>0
  <1>3. Kept'
    <2>1. Holding'
      <3>1. op.next \in PCs \ {"archive", "policy"} /\ op.next \notin TxPCs BY <1>0 DEF PCs, TxPCs
      <3>2. op.by = "driver" => op.next = "save" BY DEF Kept, Holding
      <3>3. op.kind = "start" /\ t.owned => op.gen \in owned'
        BY <1>0, <1>2, <1>4 DEF Kept, Holding
      <3>4. op.by = "driver" /\ op.kind \notin {"start", "complete"} => status'[op.gen] = "INTERRUPTED"
        BY <1>0, <1>1 DEF Kept, Holding, Outcome, Sound, Typed, TypeOK, JournalTypeOK
      <3> QED BY <1>0, <1>2, <3>1, <3>2, <3>3, <3>4, HoldingGoto DEF Sound
    <2>2. Unstarted' BY <1>0, <1>2 DEF Kept, Unstarted
    <2> QED BY <2>1, <2>2, ReportedTerminal DEF Kept
  <1>5. ASSUME Calm PROVE Calm'
    <2>1. Archived'
      <3> USE DEF Sound, Typed, TypeOK, JournalTypeOK, Known
      <3>1. Accepting = (IF t.event = "PROMPT_ACCEPTED" THEN {t.prompt} ELSE {}) /\ Accepting' = {}
        BY <1>0 DEF Accepting, TxPCs
      <3>2. CASE t.event = "PROMPT_REJECTED"
        BY <1>0, <1>1, <1>5, <3>1, <3>2 DEF Calm, Archived, records
      <3>3. CASE t.event = "PROMPT_ACCEPTED"
        <4>1. Known' = Known \cup {g} BY <1>1, <3>3 DEF Outcome
        <4>2. prompt'[g] = t.prompt /\ \A h \in Known : prompt'[h] = prompt[h] BY <1>1, <3>3
        <4> QED BY <1>0, <1>5, <3>1, <3>3, <4>1, <4>2 DEF Calm, Archived
      <3>4. CASE t.event \notin {"PROMPT_REJECTED", "PROMPT_ACCEPTED"}
        <4>1. Outcome[t.event] # "NONE" BY <1>0, <3>4 DEF Outcome, Transitions
        <4>2. Known' = Known BY <1>1, <3>4, <4>1
        <4> QED BY <1>0, <1>1, <1>5, <3>1, <3>4, <4>2 DEF Calm, Archived
      <3> QED BY <3>2, <3>3, <3>4
    <2>2. Unresolved' BY <1>0 DEF Unresolved
    <2>3. Projected'
      <3>1. op'.tx # NoTx BY <1>0 DEF NoTx, Transitions
      <3> QED BY <1>0, <3>1 DEF Projected, Free, Idle
    <2>4. Undisturbed'
      <3>1. ASSUME NEW h \in Gens, h \notin owned' PROVE h \notin owned /\ ~Publishing(h)
        BY <1>0, <1>2, <1>4, <3>1 DEF Publishing, Kept, Holding
      <3> QED BY <1>0, <1>5, <3>1 DEF Calm, Undisturbed, TxPCs
    <2> QED BY <2>1, <2>2, <2>3, <2>4 DEF Calm
  <1> QED BY <1>3, <1>5

-----------------------------------------------------------------------------
(* Faults, and every step.                                                 *)

LEMMA FaultsKeep ==
    ASSUME Sound, Kept, Fault
    PROVE  Kept'
  <1>1. CASE SaveFails
    <2>1. op.pc \in {"save", "ingest"} /\ Release("unsaved") /\ UNCHANGED <<journalVars, art>>
      BY <1>1 DEF SaveFails, Saving, disk
    <2>2. op.kind = "start" /\ op.by = "driver" => op.gen \in owned
      BY <2>1 DEF Kept, Holding, TxPCs
    <2>3. /\ op' = Idle
          /\ op.by # "driver" => driver' = driver
          /\ op.by = "driver" => /\ driver' = [driver EXCEPT ![op.gen] = NextPhase(op, "unsaved")]
                                 /\ NextPhase(op, "unsaved") \in {"none", "raised", "resave"}
                                 /\ NextPhase(op, "unsaved") = "resave" => op.kind = "start"
      BY <2>1 DEF Release, NextPhase
    <2>4. op.by = "driver" => op.gen \in owned BY <2>2 DEF Kept, Holding
    <2> QED BY <2>1, <2>3, <2>4, KeptReleases
  <1>2. CASE StartFails
    <2>1. /\ op.kind = "start" /\ Release("error") /\ UNCHANGED journalVars
          /\ art' = [art EXCEPT ![op.gen].policy = FALSE]
      BY <1>2 DEF StartFails
    <2>2. /\ op' = Idle
          /\ driver' = driver \/ driver' = [driver EXCEPT ![op.gen] = "none"]
      BY <2>1 DEF Release, NextPhase
    <2>3. \A g \in Gens : /\ art'[g].logs = art[g].logs /\ art'[g].result = art[g].result
                          /\ art'[g].usage = art[g].usage
      BY <2>1 DEF Sound, Typed, TypeOK, DiskTypeOK, Reports
    <2> QED BY <2>1, <2>2, <2>3, KeptReleases
  <1>3. CASE IntentFails
    <2>1. op.pc = "intent" /\ Release("error") /\ UNCHANGED <<journalVars, art>>
      BY <1>3 DEF IntentFails, disk
    <2>2. op.by # "driver" BY <2>1 DEF Kept, Holding, TxPCs
    <2>3. op' = Idle /\ driver' = driver BY <2>1, <2>2 DEF Release
    <2> QED BY <2>1, <2>3, KeptReleases
  <1>4. CASE Crash
    <2>1. /\ op' = Idle /\ UNCHANGED <<journalVars, art>>
          /\ driver' = driver \/ driver' = [driver EXCEPT ![op.gen] = "none"]
      BY <1>4 DEF Crash, disk
    <2> QED BY <2>1, KeptReleases
  <1>5. ASSUME NEW g \in Gens, KillDriver(g) PROVE Kept'
    BY <1>5, ExecutingKeeps
  <1> QED BY <1>1, <1>2, <1>3, <1>4, <1>5 DEF Fault

LEMMA KeptNext ==
    ASSUME Sound, Kept, [Next]_vars
    PROVE  Kept' /\ (Calm /\ Founded /\ ~Fault => Calm')
  <1>1. CASE Command BY <1>1, AroundKeeps, HoldsKeep, BeginsKeep DEF Command
  <1>2. CASE Locked
    BY <1>2, EndsKeep, ArtifactKeeps, StepsKeep, ArchiveKeeps, IngestsKeep, RecoversKeep, FinishKeeps,
       PublishesKeep, TerminalKeeps DEF Locked
  <1>3. ASSUME NEW g \in Gens, Executing(g) PROVE Kept' /\ (Calm => Calm')
    BY <1>3, ExecutingKeeps, BeginsKeep DEF Executing
  <1> QED BY <1>1, <1>2, <1>3, AroundKeeps, FaultsKeep DEF Next

LEMMA AlwaysKept == Spec => []Kept
  BY KeptInit, KeptNext, AlwaysSound, PTL DEF Spec

\* The count of faults never falls, and a fault raises it.
LEMMA FaultsCount ==
    ASSUME Typed, [Next]_vars, used'.faults = 0
    PROVE  used.faults = 0 /\ ~Fault
  <1>0. used \in [commits : Nat, drops : Nat, faults : Nat] BY DEF Typed, TypeOK
  <1>1. CASE Fault
    <2>1. used' = [used EXCEPT !.faults = used.faults + 1]
      BY <1>1 DEF Fault, SaveFails, StartFails, IntentFails, Crash, KillDriver, Count
    <2>2. used'.faults = used.faults + 1 /\ used.faults \in Nat BY <1>0, <2>1
    <2> QED BY <2>2
  <1>2. CASE ~Fault
    <2>1. \/ UNCHANGED used \/ used' = [used EXCEPT !.commits = used.commits + 1]
          \/ used' = [used EXCEPT !.drops = used.drops + 1]
      <3>1. CASE Command
        BY <3>1 DEF Command, InitBegin, Rebuild, AdoptBegin, IngestBegin, RecoverBegin,
             CancelBegin, CheckpointBegin, StartBegin, InterruptBegin, CompleteBegin, Count
      <3>2. CASE Locked
        BY <3>2 DEF Locked, InitAppend, AdoptAppend, Receive, Process, Archive, PublishPolicy,
             PublishPolicyRefused, Prepare, PublishOwner, Rename, Terminal, TerminalRefused,
             CheckpointIntent, CheckpointAdvance, CheckpointVerify, CheckpointRefused,
             CheckpointFinish, RecoverTransaction, RecoverRollback, RecoverAbort, RecoverForward,
             RecoverRefused, RecoverArtifact, RecoverSave, RecoverFailed, Save
      <3>3. ASSUME NEW g \in Gens, Executing(g) PROVE UNCHANGED used
        BY <3>3 DEF Executing, ExecutorLogs, WriteResult, CollectUsage, TelemetryFails,
             ExecutorRaises, WriteFailureLogs, WriteFailure, Replay, UnlockedSave, DriverRefused,
             DriverQuiet, CompleteBegin, InterruptBegin
      <3>4. CASE Environment \/ UNCHANGED vars
        BY <3>4 DEF Environment, DropPrompt, EditRepository, CommitRepository, Count, vars
      <3> QED BY <1>2, <3>1, <3>2, <3>3, <3>4 DEF Next
    <2> QED BY <1>0, <1>2, <2>1
  <1> QED BY <1>1, <1>2

\* Only a terminal event changes the generations.
LEMMA RecordsMove ==
    ASSUME [Next]_vars, ~Terminal
    PROVE  UNCHANGED records
  <1>1. CASE Quiet BY <1>1 DEF Quiet, journalVars
  <1>2. CASE Command
    BY <1>1, <1>2, QuietSteps DEF Command, InitBegin, AdoptBegin, IngestBegin, RecoverBegin,
       CompleteBegin, InterruptBegin, CancelBegin, CheckpointBegin, StartBegin, journalVars
  <1>3. CASE Locked
    BY <1>1, <1>3, QuietSteps DEF Locked, InitAppend, AdoptAppend, Receive, Process, Archive,
       PublishPolicy, Prepare, PublishOwner, Rename, CheckpointIntent, CheckpointAdvance,
       CheckpointVerify, CheckpointFinish, RecoverTransaction, RecoverRollback, RecoverAbort,
       RecoverForward, LogInitialized, LogAdopted, LogReceived, LogPrepared, LogIntent, LogAborted,
       journalVars
  <1>4. ASSUME NEW g \in Gens, Executing(g) PROVE UNCHANGED records
    BY <1>1, <1>4, QuietSteps DEF Executing, CompleteBegin, InterruptBegin, journalVars
  <1> QED BY <1>1, <1>2, <1>3, <1>4, QuietSteps DEF Next

\* Once a run has started, its reports are written by its process and by recover alone.
LEMMA ReportsMove ==
    ASSUME Sound, Kept, [Next]_vars
    PROVE  \/ \A g \in Gens : status[g] # "ACCEPTED" => art'[g] = art[g]
           \/ \E g \in owned, r \in Reports :
                 art' = [art EXCEPT ![g] = r] /\ Grows(g, r) /\ UNCHANGED records
  <1>0. /\ art \in [Gens -> Reports] /\ driver \in [Gens -> Phases] /\ owned \subseteq Gens
    BY DEF Sound, Typed, TypeOK, DiskTypeOK, ProcessTypeOK, JournalTypeOK
  <1>1. CASE UNCHANGED art BY <1>1
  <1>2. ASSUME NEW g, status[g] = "ACCEPTED", NEW r, art' = [art EXCEPT ![g] = r]
        PROVE  \A h \in Gens : status[h] # "ACCEPTED" => art'[h] = art[h]
    BY <1>0, <1>2
  <1>3. CASE PublishOwner
    <2>1. op.tx \in outstanding /\ op.tx.owned /\ ValidTx(op.tx)
      BY <1>3 DEF PublishOwner, Sound, Flight, Filing, Carrying, Typed, LocalsOK
    <2>2. status[op.tx.gen] = "ACCEPTED"
      BY <2>1 DEF ValidTx, Sound, Recorded, Transacting, Pending, Prepared
    <2> QED BY <1>2, <1>3, <2>2 DEF PublishOwner
  <1>4. CASE PublishPolicy \/ StartFails
    <2>1. status[op.gen] = "ACCEPTED"
      BY <1>4 DEF PublishPolicy, StartFails, Sound, Owning
    <2> QED BY <1>2, <1>4, <2>1 DEF PublishPolicy, StartFails
  <1> USE DEF Reports, Artifacts, Derived, Unmeasured, TelemetryFailed, Successful, Grows
  <1>5. CASE RecoverArtifact
    <2>1. PICK x \in Fallbacks : /\ art[x[1]][x[2]] = "none"
                                 /\ art' = [art EXCEPT ![x[1]][x[2]] = Derived[x[2]]]
      BY <1>5 DEF RecoverArtifact
    <2> DEFINE g == x[1]
               a == x[2]
               r == [art[g] EXCEPT ![a] = Derived[a]]
    <2>2. g \in owned /\ g \in Gens /\ a \in Artifacts BY <1>0 DEF Fallbacks
    <2>3. art' = [art EXCEPT ![g] = r] BY <1>0, <2>1, <2>2
    <2>4. art[g] \in Reports /\ art[g][a] = "none" BY <1>0, <2>1, <2>2
    <2> HIDE DEF g
    <2>5. /\ r.policy = art[g].policy /\ r.owner = art[g].owner /\ r[a] = Derived[a]
          /\ \A b \in Artifacts : b # a => r[b] = art[g][b]
          /\ r \in Reports
      BY <2>2, <2>4
    <2> HIDE DEF r, a
    <2>6. Grows(g, r) BY <2>2, <2>4, <2>5
    <2> QED BY <1>5, <2>2, <2>3, <2>5, <2>6 DEF RecoverArtifact, journalVars
  <1>6. ASSUME NEW g \in Gens,
               \/ ExecutorLogs(g) \/ WriteResult(g) \/ CollectUsage(g) \/ TelemetryFails(g)
               \/ WriteFailureLogs(g) \/ WriteFailure(g)
        PROVE  \E r \in Reports : art' = [art EXCEPT ![g] = r] /\ Grows(g, r)
    <2>0. art[g] \in Reports BY <1>0
    <2>1. CASE ExecutorLogs(g)
      <3> DEFINE r == [art[g] EXCEPT !.logs = "real"]
      <3>1. art' = [art EXCEPT ![g] = r] BY <2>1 DEF ExecutorLogs
      <3>2. Grows(g, r) /\ r \in Reports BY <2>0
      <3> QED BY <3>1, <3>2
    <2>2. CASE WriteResult(g)
      <3>0. PICK outcome \in {"run", "failed"} : art' = [art EXCEPT ![g].result = outcome]
        BY <2>2 DEF WriteResult
      <3> DEFINE r == [art[g] EXCEPT !.result = outcome]
      <3>1. art' = [art EXCEPT ![g] = r] /\ driver[g] = "ran" BY <1>0, <2>2, <3>0 DEF WriteResult, Step
      <3>3. art[g].result = "none" \/ status[g] = "INTERRUPTED"
        BY <3>1 DEF Kept, Phased, Reported
      <3>2. Grows(g, r) /\ r \in Reports BY <2>0, <3>1, <3>3
      <3> QED BY <3>1, <3>2
    <2>3. CASE CollectUsage(g)
      <3> DEFINE r == [art[g] EXCEPT !.usage = "run"]
      <3>1. art' = [art EXCEPT ![g] = r] BY <2>3 DEF CollectUsage
      <3>2. Grows(g, r) /\ r \in Reports BY <2>0
      <3> QED BY <3>1, <3>2
    <2>4. CASE TelemetryFails(g)
      <3> DEFINE to == IF art[g].result = "run" THEN "unmeasured" ELSE "unmeasuredFailure"
                 r == [art[g] EXCEPT !.result = to]
      <3>1. art' = [art EXCEPT ![g] = r] /\ driver[g] = "returned"
        BY <1>0, <2>4 DEF TelemetryFails, Step
      <3>3. art[g].result \in {"run", "failed"} BY <3>1 DEF Kept, Phased
      <3>2. Grows(g, r) /\ r \in Reports BY <2>0, <3>3
      <3> QED BY <3>1, <3>2
    <2>5. CASE WriteFailureLogs(g)
      <3> DEFINE l == IF art[g].logs = "none" THEN "empty" ELSE art[g].logs
                 r == [art[g] EXCEPT !.usage = "run", !.logs = l]
      <3>1. art' = [art EXCEPT ![g] = r] BY <1>0, <2>5 DEF WriteFailureLogs
      <3>2. l \in {"empty", "real"} /\ (art[g].logs # "none" => l = art[g].logs) BY <2>0
      <3> HIDE DEF l
      <3>3. r \in Reports BY <2>0, <3>2
      <3>4. Grows(g, r) BY <2>0, <3>2
      <3> QED BY <3>1, <3>3, <3>4
    <2>6. CASE WriteFailure(g)
      <3> DEFINE r == [art[g] EXCEPT !.result = "failure"]
      <3>1. art' = [art EXCEPT ![g] = r] /\ driver[g] = "failure" BY <2>6 DEF WriteFailure, Step
      <3>2. art[g].usage # "none" /\ status[g] = "INTERRUPTED" BY <3>1 DEF Kept, Phased
      <3>3. Grows(g, r) /\ r \in Reports BY <2>0, <3>2
      <3> QED BY <3>1, <3>3
    <2> QED BY <1>6, <2>1, <2>2, <2>3, <2>4, <2>5, <2>6
  <1>7. ASSUME NEW g \in Gens,
               \/ ExecutorLogs(g) \/ WriteResult(g) \/ CollectUsage(g) \/ TelemetryFails(g)
               \/ WriteFailureLogs(g) \/ WriteFailure(g)
        PROVE  g \in owned /\ UNCHANGED records
    <2>1. driver[g] # "none" /\ UNCHANGED records
      BY <1>7 DEF Step, ExecutorLogs, WriteResult, CollectUsage, TelemetryFails, WriteFailureLogs,
           WriteFailure, DriverQuiet, journalVars
    <2> QED BY <2>1 DEF Kept, Unstarted
  <1>8. CASE \/ Command \/ Environment \/ UNCHANGED vars
    BY <1>1, <1>8 DEF Command, InitBegin, Rebuild, AdoptBegin, IngestBegin, RecoverBegin,
         CancelBegin, CheckpointBegin, StartBegin, InterruptBegin, CompleteBegin, Environment,
         DropPrompt, EditRepository, CommitRepository, vars, disk
  <1>9. CASE Locked
    <2>1. CASE ~PublishOwner /\ ~PublishPolicy /\ ~RecoverArtifact
      BY <1>1, <1>9, <2>1 DEF Locked, InitAppend, AdoptAppend, Receive, Process, Archive,
         PublishPolicyRefused, Prepare, Rename, Terminal, TerminalRefused, CheckpointIntent,
         CheckpointAdvance, CheckpointVerify, CheckpointRefused, CheckpointFinish,
         RecoverTransaction, RecoverRollback, RecoverAbort, RecoverForward, RecoverRefused,
         RecoverSave, RecoverFailed, Save, disk
    <2> QED BY <1>3, <1>4, <1>5, <2>1
  <1>10. CASE Fault /\ ~StartFails
    BY <1>1, <1>10 DEF Fault, SaveFails, IntentFails, Crash, KillDriver, disk
  <1>11. ASSUME NEW g \in Gens, Executing(g)
         PROVE  \/ \A h \in Gens : status[h] # "ACCEPTED" => art'[h] = art[h]
                \/ \E h \in owned, r \in Reports :
                      art' = [art EXCEPT ![h] = r] /\ Grows(h, r) /\ UNCHANGED records
    <2>1. CASE \/ ExecutorRaises(g) \/ Replay(g) \/ UnlockedSave(g) \/ DriverRefused(g)
               \/ CompleteBegin(g, "driver") \/ InterruptBegin(g, "driver")
      BY <1>1, <2>1 DEF ExecutorRaises, Replay, UnlockedSave, DriverRefused, CompleteBegin,
           InterruptBegin, disk
    <2>2. CASE \/ ExecutorLogs(g) \/ WriteResult(g) \/ CollectUsage(g) \/ TelemetryFails(g)
               \/ WriteFailureLogs(g) \/ WriteFailure(g)
      BY <1>6, <1>7, <2>2
    <2> QED BY <1>11, <2>1, <2>2 DEF Executing
  <1> QED BY <1>4, <1>8, <1>9, <1>10, <1>11 DEF Next

\* A report that is there for a run that was ended is there for good.
LEMMA ClearStays ==
    ASSUME Sound, Kept, [Next]_vars, ~Terminal, Clear
    PROVE  Clear'
  <1> USE DEF records
  <1>0. UNCHANGED records /\ art \in [Gens -> Reports] /\ owned \subseteq Gens
    BY RecordsMove DEF Sound, Typed, TypeOK, DiskTypeOK, JournalTypeOK
  <1> SUFFICES ASSUME NEW g \in Gens, claim[g] \in ByHand, ~ReportsOK(g)' PROVE FALSE
    BY <1>0 DEF Clear, UnfoundedEnd
  <1>1. ReportsOK(g) BY DEF Clear, UnfoundedEnd
  <1>2. status[g] \in {"COMPLETED", "INTERRUPTED"} /\ fallback[g] = {}
    BY DEF Kept, Reported, ByHand
  <1>3. PICK h \in owned, r \in Reports : art' = [art EXCEPT ![h] = r] /\ Grows(h, r)
    BY <1>0, <1>1, <1>2, ReportsMove DEF ReportsOK
  <1>4. h = g /\ art'[g] = r /\ g \in owned BY <1>0, <1>1, <1>3 DEF ReportsOK
  <1>5. driver[g] = "ran" => art[g].result = "none" BY <1>2 DEF Kept, Phased
  <1>6. /\ r.policy = art[g].policy /\ r.owner = art[g].owner
        /\ art[g].logs # "none" => r.logs # "none"
        /\ art[g].result # "none" => r.result # "none"
        /\ art[g].usage # "none" => r.usage # "none"
        /\ r.result = art[g].result \/ r.result \in Unmeasured \/ r.usage # "none" \/ driver[g] = "ran"
        /\ status[g] = "COMPLETED" /\ art[g].result \in Successful => r.result \in Successful
    BY <1>3, <1>4 DEF Grows, Artifacts
  <1> QED BY <1>0, <1>1, <1>2, <1>4, <1>5, <1>6 DEF ReportsOK

\* A terminal event that does not end a run by hand ends none without its reports.
LEMMA ClearTerminal ==
    ASSUME Sound, Kept, Terminal, Clear, op.tx.claim \notin ByHand
    PROVE  Clear'
  <1> DEFINE t == op.tx
             g == op.tx.gen
  <1>0. /\ UNCHANGED art /\ status \in [Gens -> Statuses] /\ claim \in [Gens -> Claims]
        /\ t.event \in Transitions /\ (t.owned => t.event = "RUN_STARTED")
    BY AfterTerminal DEF Terminal, disk, Sound, Typed, TypeOK, JournalTypeOK, ValidTx, Txs
  <1>1. /\ t.event = "PROMPT_REJECTED" => UNCHANGED records
        /\ t.event # "PROMPT_REJECTED" => status' = [status EXCEPT ![g] = Outcome[t.event]] /\ g \in Gens
        /\ t.event = "PROMPT_ACCEPTED" => g \notin Known
    BY TerminalEffect DEF Sound
  <1>2. /\ owned' = IF t.event = "RUN_STARTED" /\ t.owned THEN owned \cup {g} ELSE owned
        /\ claim' = IF t.event \in {"RUN_COMPLETED", "RUN_INTERRUPTED"}
                     THEN [claim EXCEPT ![g] = t.claim] ELSE claim
    BY DEF Terminal, LogTerminal
  <1>3. t.event # "PROMPT_REJECTED" => status[g] \notin {"COMPLETED", "INTERRUPTED"}
    BY <1>0, <1>1 DEF Terminal, LogTerminal, Admissible, Transitions, Known
  <1> HIDE DEF t, g
  <1> SUFFICES ASSUME NEW h \in Gens, claim'[h] \in ByHand, ~ReportsOK(h)' PROVE FALSE
    BY DEF Clear, UnfoundedEnd
  <1>4. t.event = "PROMPT_REJECTED" \/ h # g
    <2> SUFFICES ASSUME t.event # "PROMPT_REJECTED", h = g PROVE FALSE OBVIOUS
    <2>1. claim[g] \notin ByHand BY <1>1, <1>3 DEF Kept, Reported, ByHand
    <2> QED BY <1>0, <1>2, <2>1 DEF t
  <1>5. claim'[h] = claim[h] /\ status'[h] = status[h] /\ (h \in owned' <=> h \in owned)
    BY <1>0, <1>1, <1>2, <1>4 DEF records
  <1> QED BY <1>0, <1>5 DEF Clear, UnfoundedEnd, ReportsOK

\* A transaction taken from what the operator typed is refused for good, or its command is saved.
LEMMA TypedMoves ==
    ASSUME Sound, Kept, Calm, Founded, [Next]_vars, ~Fault,
           op'.pc \in TxPCs \cup {"archive"}, op'.tx.claim \in ByHand, op'.next # "save"
    PROVE  RefusedForGood(op.tx)' /\ UNCHANGED intents
  <1> USE DEF TxPCs
  <1>1. ASSUME NEW g \in Gens,
               \/ \E by \in {"operator", "driver"} : CompleteBegin(g, by) \/ InterruptBegin(g, by)
               \/ CancelBegin(g) \/ CheckpointBegin(g) \/ \E b \in BOOLEAN : StartBegin(g, b)
        PROVE  FALSE
    BY <1>1, BeginSteps DEF Sound
  <1>2. ~(InitBegin \/ AdoptBegin \/ IngestBegin \/ RecoverBegin)
    BY DEF InitBegin, AdoptBegin, IngestBegin, RecoverBegin, Hold, Idle
  <1>3. CASE Quiet BY <1>3 DEF Quiet, Idle, Founded, RefusedForGood, journalVars
  <1>4. CASE Archive \/ Prepare \/ PublishOwner \/ Rename \/ PublishPolicy
    <2>1. /\ op'.tx = op.tx /\ op'.next = op.next /\ op'.kind = op.kind
          /\ op.pc \in TxPCs \cup {"archive", "policy"} /\ UNCHANGED intents
      BY <1>4, GotoType DEF Archive, Prepare, PublishOwner, Rename, PublishPolicy, Sound, Typed, PCs,
         LogPrepared, journalVars
    <2>2. op.pc # "policy" BY <2>1 DEF Sound, Owning
    <2> QED BY <2>1, <2>2 DEF Founded, RefusedForGood
  <1>5. ~Terminal BY AfterTerminal DEF Sound
  <1>6. CASE \/ InitAppend \/ AdoptAppend \/ CheckpointIntent \/ CheckpointAdvance \/ CheckpointVerify
             \/ RecoverAbort
    <2>1. PICK pc \in {"save", "advance", "verify", "finish", "resolve"} : Goto(pc)
      BY <1>6 DEF InitAppend, AdoptAppend, CheckpointIntent, CheckpointAdvance, CheckpointVerify, RecoverAbort
    <2> QED BY <2>1, GotoType DEF Sound, Typed, PCs
  <1>7. CASE RecoverRollback \/ RecoverForward
    <2>1. op \in Ops BY DEF Sound, Typed, TypeOK, ProcessTypeOK
    <2>2. RecoverRollback => op'.pc \in {"idle", "abort"} BY RollbackMoves DEF Sound
    <2>3. RecoverForward => op'.pc = "finish"
      <3>1. ASSUME NEW i, op' = [op EXCEPT !.pc = "finish", !.gen = i.gen, !.wit = repo]
            PROVE  op'.pc = "finish"
        BY <2>1, <3>1 DEF Ops
      <3> QED BY <3>1 DEF RecoverForward
    <2> QED BY <1>7, <2>2, <2>3
  <1>8. CASE RecoverTransaction
    <2>1. PICK t \in outstanding, pc \in TxPCs : Move(t, pc, "resolve") /\ op.pc = "resolve"
      BY <1>8 DEF RecoverTransaction, Resolving
    <2>2. RefusedForGood(t) /\ op'.tx = t BY <2>1, MoveFields DEF Sound, Calm, Unresolved
    <2> QED BY <1>8, <2>2 DEF RefusedForGood, RecoverTransaction, journalVars
  <1>9. CASE CheckpointFinish
    <2>1. PICK event, to, w, next : Move(MoveTx(event, op.gen, to, w, FALSE, {}), "prepare", next)
      BY <1>9 DEF CheckpointFinish
    <2> QED BY <2>1, MoveFields DEF Sound, MoveTx, Tx, ByHand
  <1>10. CASE Receive \/ Process
    <2>1. (op'.tx = op.tx /\ op'.pc = op.pc) \/ op'.tx.claim = "none"
      <3>1. ASSUME NEW name, NEW p, NEW id
            PROVE  /\ Rejection(name, p).claim = "none"
                   /\ [Rejection(name, p) EXCEPT !.id = id].claim = "none"
        BY DEF Rejection, Tx
      <3>2. CASE Receive
        <4>1. PICK f : \/ Move([Rejection(f[1], f[2]) EXCEPT !.id = NextSeq + 1], "prepare", "ingest")
                       \/ UNCHANGED op
          BY <3>2 DEF Receive
        <4>2. CASE Move([Rejection(f[1], f[2]) EXCEPT !.id = NextSeq + 1], "prepare", "ingest")
          <5>1. op'.tx = [Rejection(f[1], f[2]) EXCEPT !.id = NextSeq + 1]
            BY <4>2, MoveFields DEF Sound
          <5> QED BY <3>1, <5>1
        <4> QED BY <4>1, <4>2
      <3>3. CASE Process
        <4>1. PICK f : \/ Move(Tx("PROMPT_ACCEPTED", f[2].gen, f[2], <<"inbox", f[1], f[2]>>,
                                  <<"accepted", "canonical", f[2]>>, batch.wit, FALSE, {}),
                               "archive", "ingest")
                       \/ Move(Rejection(f[1], f[2]), "prepare", "ingest")
          BY <3>3 DEF Process
        <4>2. Tx("PROMPT_ACCEPTED", f[2].gen, f[2], <<"inbox", f[1], f[2]>>,
                 <<"accepted", "canonical", f[2]>>, batch.wit, FALSE, {}).claim = "none"
          BY DEF Tx
        <4>3. CASE Move(Rejection(f[1], f[2]), "prepare", "ingest")
          <5>1. op'.tx = Rejection(f[1], f[2]) BY <4>3, MoveFields DEF Sound
          <5> QED BY <3>1, <5>1
        <4>4. CASE Move(Tx("PROMPT_ACCEPTED", f[2].gen, f[2], <<"inbox", f[1], f[2]>>,
                           <<"accepted", "canonical", f[2]>>, batch.wit, FALSE, {}),
                        "archive", "ingest")
          <5>1. op'.tx = Tx("PROMPT_ACCEPTED", f[2].gen, f[2], <<"inbox", f[1], f[2]>>,
                            <<"accepted", "canonical", f[2]>>, batch.wit, FALSE, {})
            BY <4>4, MoveFields DEF Sound
          <5> QED BY <4>2, <5>1
        <4> QED BY <4>1, <4>3, <4>4
      <3> QED BY <1>10, <3>2, <3>3
    <2>2. op.pc = "ingest" BY <1>10 DEF Receive, Process
    <2> QED BY <2>1, <2>2 DEF ByHand
  <1>11. CASE Command BY <1>1, <1>2, <1>3, <1>11, QuietSteps DEF Command
  <1>12. CASE Locked
    BY <1>3, <1>4, <1>5, <1>6, <1>7, <1>8, <1>9, <1>10, <1>12, QuietSteps DEF Locked
  <1>13. ASSUME NEW g \in Gens, Executing(g) PROVE RefusedForGood(op.tx)' /\ UNCHANGED intents
    BY <1>1, <1>3, <1>13, QuietSteps DEF Executing
  <1> QED BY <1>3, <1>11, <1>12, <1>13, QuietSteps DEF Next

\* While a run that was ended has not its reports, no command but recover and init begins.
LEMMA UnclearMoves ==
    ASSUME Sound, Kept, Calm, Founded, ~Clear, [Next]_vars, ~Fault
    PROVE  \/ op'.pc \in {"append", "save"}
           \/ op'.pc \in {"idle", "resolve"} /\ Settled' /\ cached' = Len(journal)'
  <1>0. /\ op.pc \in {"append", "save", "idle", "resolve"}
        /\ op.pc \in {"idle", "resolve"} => Settled /\ cached = Len(journal)
    BY DEF Founded
  <1>1. ~SpoolOK /\ ~Preflight
    BY DEF Clear, UnfoundedEnd, SpoolOK, Preflight
  <1>2. ASSUME UNCHANGED <<journalVars, op>>, cached' = cached \/ cached' = Len(journal)
        PROVE  \/ op'.pc \in {"append", "save"}
               \/ op'.pc \in {"idle", "resolve"} /\ Settled' /\ cached' = Len(journal)'
    BY <1>0, <1>2 DEF Settled, journalVars
  <1>3. ASSUME Free PROVE op.pc = "idle" /\ Settled /\ cached = Len(journal)
    BY <1>0, <1>3 DEF Free, Idle
  <1>4. ASSUME NEW g \in Gens, NEW by \in {"operator", "driver"},
               CompleteBegin(g, by) \/ InterruptBegin(g, by)
        PROVE  FALSE
    <2>1. CASE CompleteBegin(g, by) BY <1>1, <2>1 DEF CompleteBegin, CanComplete
    <2>2. CASE InterruptBegin(g, by)
      <3>1. Free /\ cached # 0 /\ (Fresh => SpoolOK)
        BY <2>2 DEF InterruptBegin, CanInterrupt, BeginMove
      <3> QED BY <1>1, <1>3, <3>1 DEF Fresh
    <2> QED BY <1>4, <2>1, <2>2
  <1>5. CASE Command
    <2>1. InitBegin \/ Rebuild \/ RecoverBegin
      BY <1>1, <1>4, <1>5 DEF Command, AdoptBegin, IngestBegin, CancelBegin, CheckpointBegin, StartBegin
    <2>2. CASE InitBegin BY <2>2 DEF InitBegin, Hold, Idle
    <2>3. CASE Rebuild BY <1>1, <2>3 DEF Rebuild
    <2>4. CASE RecoverBegin
      BY <1>3, <2>4 DEF RecoverBegin, Hold, Idle, Settled, journalVars
    <2> QED BY <2>1, <2>2, <2>3, <2>4
  <1>6. CASE Locked
    <2>1. CASE op.pc = "append"
      <3>1. InitAppend \/ AdoptAppend \/ RecoverArtifact
        BY <1>6, <2>1 DEF Locked, Receive, Process, Archive, PublishPolicy, PublishPolicyRefused,
           Prepare, PublishOwner, Rename, Terminal, TerminalRefused, CheckpointIntent,
           CheckpointAdvance, CheckpointVerify, CheckpointRefused, CheckpointFinish,
           RecoverTransaction, RecoverRollback, RecoverAbort, RecoverForward, RecoverRefused,
           RecoverSave, RecoverFailed, Resolving, Save, Saving
      <3> QED BY <2>1, <3>1, GotoType DEF InitAppend, AdoptAppend, RecoverArtifact, Resolving, Sound,
            Typed, PCs, TxPCs
    <2>2. CASE op.pc = "save"
      <3>1. Save
        BY <1>6, <2>2 DEF Locked, InitAppend, AdoptAppend, Receive, Process, Archive, PublishPolicy,
           PublishPolicyRefused, Prepare, PublishOwner, Rename, Terminal, TerminalRefused,
           CheckpointIntent, CheckpointAdvance, CheckpointVerify, CheckpointRefused, CheckpointFinish,
           RecoverTransaction, RecoverRollback, RecoverAbort, RecoverForward, RecoverRefused,
           RecoverArtifact, RecoverSave, RecoverFailed, Resolving
      <3>2. Settled BY <2>2 DEF Sound, Flight, Carrying, TxPCs, Settled
      <3> QED BY <3>1, <3>2 DEF Save, Release, Idle, Settled, journalVars
    <2>3. CASE op.pc \in {"idle", "resolve"}
      <3>0. Settled /\ cached = Len(journal) BY <1>0, <2>3
      <3>1. RecoverArtifact \/ RecoverSave \/ RecoverFailed
        BY <1>6, <2>3, <3>0 DEF Locked, InitAppend, AdoptAppend, Receive, Process, Archive,
           PublishPolicy, PublishPolicyRefused, Prepare, PublishOwner, Rename, Terminal,
           TerminalRefused, CheckpointIntent, CheckpointAdvance, CheckpointVerify, CheckpointRefused,
           CheckpointFinish, RecoverTransaction, RecoverRollback, RecoverAbort, RecoverForward,
           RecoverRefused, Resolving, Save, Saving, Settled
      <3>2. CASE RecoverArtifact BY <1>2, <3>2 DEF RecoverArtifact, process
      <3>3. CASE RecoverSave \/ RecoverFailed
        BY <3>0, <3>3 DEF RecoverSave, RecoverFailed, Release, Idle, Settled, journalVars
      <3> QED BY <3>1, <3>2, <3>3
    <2> QED BY <1>0, <2>1, <2>2, <2>3
  <1>7. ASSUME NEW g \in Gens, Executing(g)
        PROVE  UNCHANGED <<journalVars, op, cached>>
    <2>1. driver[g] # "resaved" BY DEF Calm, Undisturbed
    <2> QED BY <1>4, <1>7, <2>1 DEF Executing, ExecutorLogs, WriteResult, CollectUsage,
          TelemetryFails, ExecutorRaises, WriteFailureLogs, WriteFailure, Replay, UnlockedSave,
          DriverRefused, DriverQuiet, Step
  <1>8. CASE Environment \/ UNCHANGED vars
    BY <1>2, <1>8 DEF Environment, DropPrompt, EditRepository, CommitRepository, vars, process
  <1> QED BY <1>2, <1>5, <1>6, <1>7, <1>8 DEF Next

LEMMA FoundedNext ==
    ASSUME Sound, Kept, Calm, Founded, [Next]_vars, ~Fault
    PROVE  Founded'
  <1>1. op'.pc \in TxPCs \cup {"archive"} /\ op'.tx.claim \in ByHand /\ op'.next # "save" =>
           RefusedForGood(op.tx)'
    BY TypedMoves
  <1>2. CASE ~Clear BY <1>1, <1>2, UnclearMoves DEF Founded
  <1>3. CASE Clear /\ ~Terminal BY <1>1, <1>3, ClearStays DEF Founded
  <1>4. CASE Clear /\ Terminal
    <2>1. op.pc = "terminal" /\ op'.pc = op.next /\ Admissible(op.tx)
      BY <1>4, AfterTerminal DEF Sound, Terminal, LogTerminal
    <2>2. CASE op.next = "save" BY <1>1, <2>1, <2>2 DEF Founded
    <2>3. CASE op.next # "save"
      <3>1. op.tx.claim \notin ByHand
        BY <2>1, <2>3 DEF Founded, RefusedForGood, Admissible, TxPCs
      <3> QED BY <1>1, <1>4, <3>1, ClearTerminal DEF Founded
    <2> QED BY <2>2, <2>3
  <1> QED BY <1>2, <1>3, <1>4

LEMMA FoundedInit == Init => Founded
  <1> SUFFICES ASSUME Init PROVE Founded OBVIOUS
  <1>1. Clear BY DEF Init, JournalInit, Clear, UnfoundedEnd, ByHand
  <1>2. op.pc = "idle" BY DEF Init, Idle
  <1> QED BY <1>1, <1>2 DEF Founded, TxPCs

Healthy == used.faults = 0 => Calm /\ Founded

LEMMA HealthyNext == Sound /\ Kept /\ Healthy /\ [Next]_vars => Healthy'
  BY KeptNext, FoundedNext, FaultsCount DEF Healthy, Sound

LEMMA AlwaysHealthy == Spec => []Healthy
  <1>1. Init => Healthy BY KeptInit, FoundedInit DEF Healthy
  <1> QED BY <1>1, HealthyNext, AlwaysSound, AlwaysKept, PTL DEF Spec

\* As long as no process dies and no write fails, every command that returns leaves a workflow the
\* next one accepts, for every set of prompts and every bound and whatever executors and operator
\* do: the exceptions are a checkpoint whose repository changed under it, an interrupted run whose
\* reports are yet to come, a recover that met the real reports of such a run, and what a typed
\* complete-run leaves: a completion that replay refuses, or an end without the reports it takes.
THEOREM HealthyWithoutFaultsCorrect == Spec => []HealthyWithoutFaults
  <1>1. Sound /\ Kept /\ Healthy => HealthyWithoutFaults
    BY CalmIsHealthy DEF Healthy, HealthyWithoutFaults
  <1> QED BY <1>1, AlwaysSound, AlwaysKept, AlwaysHealthy, PTL

-----------------------------------------------------------------------------
(* No process leaves its run.                                              *)

\* How far an executing process that holds the lock has taken the end of its run.
Acting ==
    op.by = "driver" /\ op.kind # "start" =>
        /\ op.kind \in {"complete", "interrupt"}
        /\ op.pc \in TxPCs => /\ op.tx.gen = op.gen
                              /\ op.tx.event \in {"RUN_COMPLETED", "RUN_INTERRUPTED"}
                              /\ op.tx.claim \notin ByHand
        /\ op.pc = "save" => status[op.gen] # "RUNNING"

\* While a checkpoint is unresolved, no other generation runs.
Alone == \A i \in intents : Running \subseteq {i.gen}

\* No command but init has written anything.
Blank ==
    /\ Known = {} /\ Settled
    /\ op.kind \in {"none", "init"} /\ op.pc \in {"idle", "append", "save"}
    /\ op.pc = "save" => journal # <<>>
    /\ archive = {} /\ \A g \in Gens : art[g] = NoFiles

\* There is a state.json as soon as there is anything to project.
Grounded ==
    /\ IF cached = 0 THEN Blank ELSE journal # <<>>
    /\ \A g \in Gens : driver[g] = "resaved" => snap[g] # 0

Ending == Acting /\ Alone /\ Grounded

\* The run of a generation that has ended does not begin again.
LEMMA EndedStays ==
    ASSUME Sound, [Next]_vars, NEW g \in owned, status[g] # "RUNNING"
    PROVE  status'[g] # "RUNNING"
  <1>0. g \in Gens /\ status[g] \notin {"NONE", "ACCEPTED"} /\ status \in [Gens -> Statuses]
    BY DEF Sound, Owning, Typed, TypeOK, JournalTypeOK
  <1>1. CASE Terminal
    <2>1. op.tx.event = "RUN_STARTED" => status[op.tx.gen] = "ACCEPTED"
      BY <1>1 DEF Terminal, LogTerminal, Admissible
    <2>2. op.tx.event = "PROMPT_REJECTED" \/ status' = [status EXCEPT ![op.tx.gen] = Outcome[op.tx.event]]
      BY <1>1, TerminalEffect DEF Sound
    <2>3. op.tx.event \in Transitions BY <1>1, TerminalEffect DEF Sound, ValidTx, Txs
    <2>4. op.tx.event # "RUN_STARTED" /\ op.tx.event # "PROMPT_REJECTED"
              => Outcome[op.tx.event] # "RUNNING"
      BY <2>3 DEF Outcome, Transitions
    <2>5. op.tx.event = "PROMPT_REJECTED" => status' = status
      BY <1>1, TerminalEffect DEF Sound, records
    <2> QED BY <1>0, <2>1, <2>2, <2>4, <2>5
  <1>2. CASE ~Terminal BY <1>2, RecordsMove DEF records
  <1> QED BY <1>1, <1>2

\* A lock holder goes on with its transaction, or it is no executing process, or it is done.
LEMMA HolderMoves ==
    ASSUME Sound, Kept, [Next]_vars, ~Command, \A g \in Gens : ~Executing(g)
    PROVE  \/ op' = Idle \/ UNCHANGED op
           \/ op.by # "driver" /\ op'.by # "driver"
           \/ \E pc \in TxPCs \cup {"save"} :
                 /\ op'.pc = pc /\ op'.tx = op.tx /\ op'.gen = op.gen
                 /\ op'.kind = op.kind /\ op'.by = op.by
                 /\ pc \in TxPCs => op.pc \in TxPCs \cup {"archive", "policy"}
                 /\ pc = "save" => Terminal
  <1>1. CASE Quiet BY <1>1 DEF Quiet
  <1>2. CASE op.by = "driver" /\ Locked /\ ~Quiet
    <2>1. op.pc \in TxPCs \cup {"policy", "save"} BY <1>2 DEF Kept, Holding
    <2>2. Prepare \/ PublishOwner \/ Rename \/ Terminal \/ PublishPolicy
      BY <1>2, <2>1, QuietSteps
         DEF Locked, InitAppend, AdoptAppend, Receive, Process, Archive, CheckpointIntent,
             CheckpointAdvance, CheckpointVerify, CheckpointFinish, RecoverTransaction,
             RecoverRollback, RecoverAbort, RecoverForward, Resolving, TxPCs
    <2>3. op.pc = "terminal" => op.next = "save" BY <1>2 DEF Kept, Holding
    <2>4. PICK pc \in TxPCs \cup {"save"} :
             /\ Goto(pc) /\ (pc \in TxPCs => op.pc \in TxPCs \cup {"policy"})
             /\ pc = "save" => Terminal
      BY <2>2, <2>3 DEF Prepare, PublishOwner, Rename, Terminal, PublishPolicy, TxPCs
    <2> QED BY <2>4, GotoType DEF Sound, Typed, PCs, TxPCs
  <1>3. CASE op.by # "driver" /\ Locked /\ ~Quiet
    <2>1. ASSUME NEW pc \in PCs, Goto(pc) PROVE op'.by = op.by
      BY <2>1, GotoType DEF Sound, Typed
    <2>2. ASSUME NEW t, NEW pc, NEW next, Move(t, pc, next) PROVE op'.by = op.by
      BY <2>2, MoveFields DEF Sound
    <2>3. CASE \/ InitAppend \/ AdoptAppend \/ Archive \/ PublishPolicy \/ Prepare \/ PublishOwner
               \/ Rename \/ Terminal \/ CheckpointIntent \/ CheckpointAdvance \/ CheckpointVerify
               \/ RecoverAbort
      <3>1. op.pc = "terminal" => op.next \in PCs BY DEF Sound, Typed, TypeOK, ProcessTypeOK, Ops
      <3> QED BY <1>3, <2>1, <2>3, <3>1
            DEF InitAppend, AdoptAppend, Archive, PublishPolicy, Prepare, PublishOwner, Rename,
                Terminal, CheckpointIntent, CheckpointAdvance, CheckpointVerify, RecoverAbort, PCs, TxPCs
    <2>4. CASE Receive \/ Process \/ CheckpointFinish \/ RecoverTransaction
      <3>1. \/ UNCHANGED op \/ \E t, pc, next : Move(t, pc, next)
        BY <2>4 DEF Receive, Process, CheckpointFinish, RecoverTransaction
      <3> QED BY <1>3, <2>2, <3>1
    <2>5. CASE RecoverRollback \/ RecoverForward
      <3>1. op' = Idle \/ op'.by = op.by
        BY <2>5 DEF RecoverRollback, RecoverForward, Release, Sound, Typed, TypeOK, ProcessTypeOK, Ops
      <3> QED BY <1>3, <3>1
    <2> QED BY <1>3, <2>3, <2>4, <2>5, QuietSteps DEF Locked
  <1> QED BY <1>1, <1>2, <1>3, QuietSteps DEF Next

LEMMA ActingNext ==
    ASSUME Sound, Kept, Acting, [Next]_vars
    PROVE  Acting'
  <1>1. ASSUME NEW g \in Gens,
               \/ \E by \in {"operator", "driver"} : CompleteBegin(g, by) \/ InterruptBegin(g, by)
               \/ CancelBegin(g) \/ CheckpointBegin(g) \/ \E b \in BOOLEAN : StartBegin(g, b)
        PROVE  Acting'
    <2>1. CancelBegin(g) => op'.by = "operator" BY DEF CancelBegin, BeginMove
    <2>2. CheckpointBegin(g) => op'.by = "operator"
      <3>1. CheckpointBegin(g) => \E w : Hold("checkpoint", "intent", "operator", g, w)
        BY DEF CheckpointBegin
      <3> QED BY <3>1 DEF Hold, Idle
    <2>3. ASSUME NEW by \in {"operator", "driver"}, CompleteBegin(g, by), op'.by = "driver"
          PROVE  op'.tx.claim = "executor"
      <3>1. PICK kind \in {"complete", "interrupt"}, event \in {"RUN_COMPLETED", "RUN_INTERRUPTED"},
                 to \in {"completed", "interrupted"}, w \in {repo, wit[g]},
                 c \in {"executor", "typed"} \cup Results :
               /\ BeginMove(kind, "prepare", by, EndTx(event, g, to, w, c))
               /\ by = "driver" => c = "executor"
        <4>1. CASE PolicyAllows(repo, g)
          <5>1. PICK c \in IF by = "driver" THEN {"executor"} ELSE Results :
                   BeginMove("complete", "prepare", by,
                             EndTx("RUN_COMPLETED", g, "completed", repo, c))
            BY <2>3, <4>1 DEF CompleteBegin
          <5> QED BY <5>1
        <4>2. CASE ~PolicyAllows(repo, g) BY <2>3, <4>2 DEF CompleteBegin
        <4> QED BY <4>1, <4>2
      <3>2. op'.by = by /\ op'.tx = EndTx(event, g, to, w, c) BY <3>1 DEF BeginMove
      <3>3. EndTx(event, g, to, w, c).claim = c BY DEF EndTx, MoveTx, Tx
      <3> QED BY <2>3, <3>1, <3>2, <3>3
    <2>4. \A by \in {"operator", "driver"} : InterruptBegin(g, by) => op'.tx.claim = "none"
      BY DEF InterruptBegin, BeginMove, MoveTx, Tx
    <2> QED BY <1>1, <2>1, <2>2, <2>3, <2>4, BeginSteps DEF Sound, Acting, TxPCs, ByHand
  <1>2. CASE InitBegin \/ AdoptBegin \/ IngestBegin \/ RecoverBegin
    BY <1>2 DEF InitBegin, AdoptBegin, IngestBegin, RecoverBegin, Hold, Idle, Acting
  <1>3. CASE Quiet
    <2>1. op' = Idle \/ (UNCHANGED <<op, status>>) BY <1>3 DEF Quiet, journalVars, records
    <2> QED BY <2>1 DEF Acting, Idle
  <1>4. CASE Command BY <1>1, <1>2, <1>3, <1>4, QuietSteps DEF Command
  <1>5. ASSUME NEW g \in Gens, Executing(g) PROVE Acting'
    BY <1>1, <1>3, <1>5, QuietSteps DEF Executing
  <1>6. CASE ~Quiet /\ ~Command /\ \A g \in Gens : ~Executing(g)
    <2> SUFFICES ASSUME op'.by = "driver", op'.kind # "start" PROVE Acting' BY DEF Acting
    <2>1. CASE UNCHANGED op /\ ~Terminal
      <3>1. UNCHANGED status BY <2>1, RecordsMove DEF records
      <3> QED BY <2>1, <3>1 DEF Acting
    <2>2. CASE UNCHANGED op /\ Terminal
      <3>1. op.next = "save" /\ op.pc = "terminal" BY <2>2 DEF Kept, Holding, Terminal
      <3> QED BY <2>2, <3>1, AfterTerminal DEF Sound
    <2>3. CASE op' = Idle BY <2>3 DEF Idle
    <2>4. ASSUME NEW pc \in TxPCs \cup {"save"},
                 /\ op'.pc = pc /\ op'.tx = op.tx /\ op'.gen = op.gen
                 /\ op'.kind = op.kind /\ op'.by = op.by
                 /\ pc \in TxPCs => op.pc \in TxPCs \cup {"archive", "policy"}
                 /\ pc = "save" => Terminal
          PROVE  Acting'
      <3>1. op.pc \notin {"archive", "policy"}
        BY <2>4 DEF Sound, Owning, Kept, Holding, TxPCs
      <3>2. CASE pc \in TxPCs BY <2>4, <3>1, <3>2 DEF Acting, TxPCs
      <3>3. CASE pc = "save"
        <4>1. Terminal /\ op.pc = "terminal" BY <2>4, <3>3 DEF Terminal
        <4>2. op.tx.gen = op.gen /\ op.tx.event \in {"RUN_COMPLETED", "RUN_INTERRUPTED"}
          BY <2>4, <4>1 DEF Acting, TxPCs
        <4>3. op.gen \in Gens /\ status' = [status EXCEPT ![op.gen] = Outcome[op.tx.event]]
          BY <4>1, <4>2, TerminalEffect DEF Sound
        <4>4. status'[op.gen] # "RUNNING"
          BY <4>2, <4>3 DEF Outcome, Sound, Typed, TypeOK, JournalTypeOK
        <4> QED BY <2>4, <3>3, <4>4 DEF Acting, TxPCs
      <3> QED BY <3>2, <3>3
    <2> QED BY <1>6, <2>1, <2>2, <2>3, <2>4, HolderMoves
  <1> QED BY <1>3, <1>4, <1>5, <1>6

\* Who moves the process that executes g.
LEMMA DriverMoves ==
    ASSUME Sound, Kept, [Next]_vars, NEW g \in owned, driver'[g] # driver[g]
    PROVE  \/ Fault
           \/ ExecutorLogs(g) \/ WriteResult(g) \/ CollectUsage(g) \/ TelemetryFails(g)
           \/ ExecutorRaises(g) \/ WriteFailureLogs(g) \/ WriteFailure(g)
           \/ Replay(g) \/ UnlockedSave(g) \/ DriverRefused(g)
           \/ /\ Save \/ TerminalRefused \/ PublishPolicyRefused
              /\ op.by = "driver" /\ op.gen = g
  <1>0. g \in Gens /\ driver \in [Gens -> Phases]
    BY DEF Sound, Owning, Typed, TypeOK, JournalTypeOK, ProcessTypeOK
  <1>1. ASSUME NEW outcome, Release(outcome) PROVE op.by = "driver" /\ op.gen = g
    BY <1>0, <1>1 DEF Release
  <1>2. CASE Command \/ Environment \/ UNCHANGED vars
    <2>1. UNCHANGED driver
      BY <1>2 DEF Command, InitBegin, Rebuild, AdoptBegin, IngestBegin, RecoverBegin, CancelBegin,
           CheckpointBegin, StartBegin, InterruptBegin, CompleteBegin, Hold, BeginMove, Environment,
           DropPrompt, EditRepository, CommitRepository, vars, process
    <2> QED BY <2>1
  <1>3. CASE Save \/ TerminalRefused \/ PublishPolicyRefused
    BY <1>1, <1>3 DEF Save, TerminalRefused, PublishPolicyRefused
  <1>4. CASE CheckpointRefused \/ RecoverRefused \/ RecoverSave \/ RecoverFailed \/ RecoverRollback
    <2>1. op.pc \in {"advance", "verify", "resolve"} /\ (UNCHANGED driver \/ \E o : Release(o))
      BY <1>4 DEF CheckpointRefused, RecoverRefused, RecoverSave, RecoverFailed, RecoverRollback,
                  Resolving
    <2>2. op.by # "driver" BY <2>1 DEF Kept, Holding, TxPCs
    <2> QED BY <1>1, <2>1, <2>2
  <1>5. CASE Locked
    <2>1. CASE \/ InitAppend \/ AdoptAppend \/ Receive \/ Process \/ Archive \/ PublishPolicy
               \/ Prepare \/ PublishOwner \/ Rename \/ Terminal \/ CheckpointIntent
               \/ CheckpointAdvance \/ CheckpointVerify \/ CheckpointFinish \/ RecoverTransaction
               \/ RecoverAbort \/ RecoverForward \/ RecoverArtifact
      BY <2>1 DEF InitAppend, AdoptAppend, Receive, Process, Archive, PublishPolicy, Prepare,
           PublishOwner, Rename, Terminal, CheckpointIntent, CheckpointAdvance, CheckpointVerify,
           CheckpointFinish, RecoverTransaction, RecoverAbort, RecoverForward, RecoverArtifact,
           Goto, process
    <2> QED BY <1>3, <1>4, <1>5, <2>1 DEF Locked
  <1>6. ASSUME NEW h \in Gens, Executing(h)
        PROVE  \/ ExecutorLogs(g) \/ WriteResult(g) \/ CollectUsage(g) \/ TelemetryFails(g)
               \/ ExecutorRaises(g) \/ WriteFailureLogs(g) \/ WriteFailure(g)
               \/ Replay(g) \/ UnlockedSave(g) \/ DriverRefused(g)
    <2>1. CASE CompleteBegin(h, "driver") \/ InterruptBegin(h, "driver")
      BY <2>1 DEF CompleteBegin, InterruptBegin, BeginMove
    <2>2. CASE ~(CompleteBegin(h, "driver") \/ InterruptBegin(h, "driver"))
      <3>1. \E from, to : Step(h, from, to)
        BY <1>6, <2>2 DEF Executing, ExecutorLogs, WriteResult, CollectUsage, TelemetryFails,
             ExecutorRaises, WriteFailureLogs, WriteFailure, Replay, UnlockedSave, DriverRefused
      <3>2. h = g BY <1>0, <3>1 DEF Step
      <3> QED BY <1>6, <2>2, <3>2 DEF Executing
    <2> QED BY <2>1, <2>2
  <1> QED BY <1>2, <1>5, <1>6 DEF Next

\* What the end of a lock holder's command makes of the process.
LEMMA ReleasedPhase ==
    ASSUME Sound, Kept, Acting, NEW g \in owned, op.by = "driver", op.gen = g, driver[g] # "none",
           Save \/ TerminalRefused \/ PublishPolicyRefused
    PROVE  IF Save THEN status[g] # "RUNNING" ELSE op.kind = "complete" /\ driver'[g] = "raised"
  <1>0. g \in Gens /\ driver \in [Gens -> Phases]
    BY DEF Sound, Owning, Typed, TypeOK, JournalTypeOK, ProcessTypeOK
  <1>1. op.kind \in {"complete", "interrupt"} BY <1>0 DEF Kept, Unstarted, Acting
  <1>2. op.pc \in TxPCs \cup {"save"} BY <1>1 DEF Kept, Holding, Sound, Owning
  <1>3. CASE Save
    <2>1. op.pc = "save" BY <1>2, <1>3 DEF Save, Saving, TxPCs
    <2> QED BY <1>1, <1>3, <2>1 DEF Acting
  <1>4. CASE ~Save
    <2>1. TerminalRefused BY <1>2, <1>4 DEF PublishPolicyRefused, TxPCs
    <2>2. op.pc = "terminal" /\ ~Admissible(op.tx) /\ Release("error") BY <2>1 DEF TerminalRefused
    <2>3. op.tx.event = "RUN_COMPLETED" /\ op.tx.prompt.action = "checkpoint"
      <3>1. op.tx.claim \notin ByHand BY <1>1, <2>2 DEF Acting, TxPCs
      <3> QED BY <2>2, <3>1 DEF Sound, RefusedOnlyWhenTyped, RefusedForGood, ByHand
    <2>4. op.tx.prompt = prompt[op.tx.gen]
      <3>1. Prepared(op.tx)
        BY <2>2 DEF Sound, Recorded, Transacting, Pending, InHand, TxPCs
      <3> QED BY <2>3, <3>1 DEF Prepared
    <2>5. op.tx.gen = g BY <1>1, <2>2 DEF Acting, TxPCs
    <2>6. prompt[g].action # "checkpoint" BY DEF Kept, Reported
    <2> QED BY <2>3, <2>4, <2>5, <2>6
  <1> QED BY <1>3, <1>4

LEMMA AloneNext ==
    ASSUME Sound, Alone, [Next]_vars
    PROVE  Alone'
  <1>0. status \in [Gens -> Statuses] /\ \A i \in intents : i.gen \in Gens
    BY Numbers DEF Sound, Typed, TypeOK, JournalTypeOK
  <1>1. CASE Terminal
    <2>1. intents' \subseteq intents /\ \A i \in intents : i.gen = op.tx.gen
      BY <1>1, TerminalEffect DEF Sound, Flight, Terminal, TxPCs
    <2>2. status' = status \/ status' = [status EXCEPT ![op.tx.gen] = Outcome[op.tx.event]]
      BY <1>1, TerminalEffect DEF Sound, records
    <2> QED BY <1>0, <2>1, <2>2 DEF Alone, Running
  <1>2. CASE CheckpointIntent
    <2>1. Running = {} /\ UNCHANGED status
      BY <1>2 DEF CheckpointIntent, LogIntent, records, Sound, Starting
    <2> QED BY <2>1 DEF Alone, Running
  <1>3. CASE ~Terminal /\ ~CheckpointIntent
    <2>1. UNCHANGED status BY <1>3, RecordsMove DEF records
    <2>2. intents' \subseteq intents
      <3>1. CASE Quiet BY <3>1 DEF Quiet, journalVars
      <3>2. CASE Command
        BY <3>1, <3>2, QuietSteps DEF Command, InitBegin, AdoptBegin, IngestBegin, RecoverBegin,
           CompleteBegin, InterruptBegin, CancelBegin, CheckpointBegin, StartBegin, journalVars
      <3>3. CASE Locked
        BY <1>3, <3>1, <3>3, QuietSteps DEF Locked, InitAppend, AdoptAppend, Receive, Process,
           Archive, PublishPolicy, Prepare, PublishOwner, Rename, CheckpointAdvance,
           CheckpointVerify, CheckpointFinish, RecoverTransaction, RecoverRollback, RecoverAbort,
           RecoverForward, LogInitialized, LogAdopted, LogReceived, LogPrepared, LogAborted,
           journalVars
      <3>4. ASSUME NEW g \in Gens, Executing(g) PROVE intents' \subseteq intents
        BY <3>1, <3>4, QuietSteps DEF Executing, CompleteBegin, InterruptBegin, journalVars
      <3> QED BY <3>1, <3>2, <3>3, <3>4, QuietSteps DEF Next
    <2> QED BY <2>1, <2>2 DEF Alone, Running
  <1> QED BY <1>1, <1>2, <1>3

\* The journal only grows.
LEMMA JournalGrows ==
    ASSUME Typed, [Next]_vars, journal # <<>>
    PROVE  journal' # <<>> /\ Len(journal) \in Nat \ {0}
  <1>0. journal \in Seq(Events) BY DEF Typed, TypeOK, JournalTypeOK
  <1>1. UNCHANGED journal \/ \E e : journal' = Append(journal, e)
    <2>1. CASE Quiet BY <2>1 DEF Quiet, journalVars
    <2>2. CASE Command
      BY <2>1, <2>2, QuietSteps DEF Command, InitBegin, AdoptBegin, IngestBegin, RecoverBegin,
         CompleteBegin, InterruptBegin, CancelBegin, CheckpointBegin, StartBegin, journalVars
    <2>3. CASE Locked
      BY <2>1, <2>3, QuietSteps DEF Locked, InitAppend, AdoptAppend, Receive, Process, Archive,
         PublishPolicy, Prepare, PublishOwner, Rename, Terminal, CheckpointIntent,
         CheckpointAdvance, CheckpointVerify, CheckpointFinish, RecoverTransaction,
         RecoverRollback, RecoverAbort, RecoverForward, LogInitialized, LogAdopted, LogReceived,
         LogPrepared, LogTerminal, LogIntent, LogAborted, Log, journalVars
    <2>4. ASSUME NEW g \in Gens, Executing(g) PROVE UNCHANGED journal
      BY <2>4, QuietSteps DEF Executing, CompleteBegin, InterruptBegin, Quiet, journalVars
    <2> QED BY <2>1, <2>2, <2>3, <2>4, QuietSteps DEF Next
  <1> QED BY <1>0, <1>1

\* Before init has returned nothing else begins.
LEMMA BlankStays ==
    ASSUME Sound, Kept, Blank, cached = 0, cached' = 0, [Next]_vars
    PROVE  Blank'
  <1>0. /\ owned = {} /\ op.kind \notin {"start", "ingest", "adopt"}
        /\ \A g \in Gens : driver[g] = "none" /\ status[g] = "NONE"
        /\ ~Fresh /\ ~Preflight /\ outstanding = {} /\ intents = {}
    BY DEF Blank, Sound, Owning, Kept, Unstarted, Known, Fresh, Preflight, Typed, TypeOK,
           JournalTypeOK, Settled
  <1>1. ASSUME UNCHANGED <<journalVars, archive, art>>, UNCHANGED op \/ op' = Idle PROVE Blank'
    BY <1>1 DEF Blank, Known, Settled, Idle, journalVars, records
  <1>2. CASE Rebuild
    <2>1. journal # <<>> /\ cached' = Len(journal) BY <1>2 DEF Rebuild
    <2> QED BY <1>2, <2>1, JournalGrows DEF Sound
  <1>3. CASE Command /\ ~Rebuild
    <2>1. InitBegin
      BY <1>0, <1>3 DEF Command, AdoptBegin, IngestBegin, RecoverBegin, RecoverAccepts, CancelBegin,
           CheckpointBegin, StartBegin, InterruptBegin, CanInterrupt, CompleteBegin, CanComplete
    <2> QED BY <2>1 DEF InitBegin, Hold, Idle, Blank, Known, Settled, journalVars, records, disk
  <1>4. CASE Locked
    <2>1. InitAppend \/ Save
      BY <1>0, <1>4 DEF Blank, Locked, AdoptAppend, Receive, Process, Archive, PublishPolicy,
           PublishPolicyRefused, Prepare, PublishOwner, Rename, Terminal, TerminalRefused,
           CheckpointIntent, CheckpointAdvance, CheckpointVerify, CheckpointRefused,
           CheckpointFinish, RecoverTransaction, RecoverRollback, RecoverAbort, RecoverForward,
           RecoverRefused, RecoverArtifact, RecoverSave, RecoverFailed, Resolving
    <2>2. CASE InitAppend
      <3>1. op'.pc = "save" /\ op'.kind = op.kind
        BY <2>2, GotoType DEF InitAppend, Sound, Typed, PCs, TxPCs
      <3>2. UNCHANGED <<records, outstanding, intents, archive, art>> /\ journal' # <<>>
        BY <2>2 DEF InitAppend, LogInitialized, Log, disk, Sound, Typed, TypeOK, JournalTypeOK
      <3> QED BY <3>1, <3>2 DEF Blank, Known, Settled, records
    <2>3. CASE Save
      <3>1. journal # <<>> /\ cached' = Len(journal) BY <2>3 DEF Save, Saving, Blank
      <3> QED BY <3>1, JournalGrows DEF Sound
    <2> QED BY <2>1, <2>2, <2>3
  <1>5. ASSUME NEW g \in Gens, Executing(g) PROVE FALSE
    BY <1>0, <1>5 DEF Executing, ExecutorLogs, WriteResult, CollectUsage, TelemetryFails,
         ExecutorRaises, WriteFailureLogs, WriteFailure, Replay, UnlockedSave, DriverRefused, Step,
         CompleteBegin, CanComplete, InterruptBegin, CanInterrupt
  <1>6. CASE Fault
    <2>1. UNCHANGED <<journalVars, archive, art>> /\ (UNCHANGED op \/ op' = Idle)
      BY <1>0, <1>6 DEF Fault, SaveFails, StartFails, IntentFails, Crash, KillDriver, Release, disk,
           Blank
    <2> QED BY <1>1, <2>1
  <1>7. CASE Environment \/ UNCHANGED vars
    BY <1>1, <1>7 DEF Environment, DropPrompt, EditRepository, CommitRepository, vars, disk, process
  <1> QED BY <1>2, <1>3, <1>4, <1>5, <1>6, <1>7 DEF Next

\* state.json is written from the whole journal, but by a process that had to save again.
LEMMA CachedMoves ==
    ASSUME [Next]_vars, \A g \in Gens : ~UnlockedSave(g)
    PROVE  cached' = cached \/ cached' = Len(journal)
  BY DEF Next, Command, InitBegin, Rebuild, AdoptBegin, IngestBegin, RecoverBegin, CancelBegin,
         CheckpointBegin, StartBegin, InterruptBegin, CompleteBegin, Locked, InitAppend,
         AdoptAppend, Receive, Process, Archive, PublishPolicy, PublishPolicyRefused, Prepare,
         PublishOwner, Rename, Terminal, TerminalRefused, CheckpointIntent, CheckpointAdvance,
         CheckpointVerify, CheckpointRefused, CheckpointFinish, RecoverTransaction,
         RecoverRollback, RecoverAbort, RecoverForward, RecoverRefused, RecoverArtifact,
         RecoverSave, RecoverFailed, Save, Executing, ExecutorLogs, WriteResult, CollectUsage,
         TelemetryFails, ExecutorRaises, WriteFailureLogs, WriteFailure, Replay, DriverRefused,
         DriverQuiet, Fault, SaveFails, StartFails, IntentFails, Crash, KillDriver, Environment,
         DropPrompt, EditRepository, CommitRepository, vars

\* The replay outside the lock is the only other copy of the projection.
LEMMA SnapMoves ==
    ASSUME [Next]_vars, \A g \in Gens : ~Replay(g)
    PROVE  UNCHANGED snap
  BY DEF Next, Command, InitBegin, Rebuild, AdoptBegin, IngestBegin, RecoverBegin, CancelBegin,
         CheckpointBegin, StartBegin, InterruptBegin, CompleteBegin, Locked, InitAppend,
         AdoptAppend, Receive, Process, Archive, PublishPolicy, PublishPolicyRefused, Prepare,
         PublishOwner, Rename, Terminal, TerminalRefused, CheckpointIntent, CheckpointAdvance,
         CheckpointVerify, CheckpointRefused, CheckpointFinish, RecoverTransaction,
         RecoverRollback, RecoverAbort, RecoverForward, RecoverRefused, RecoverArtifact,
         RecoverSave, RecoverFailed, Save, Executing, ExecutorLogs, WriteResult, CollectUsage,
         TelemetryFails, ExecutorRaises, WriteFailureLogs, WriteFailure, UnlockedSave,
         DriverRefused, DriverQuiet, Fault, SaveFails, StartFails, IntentFails, Crash, KillDriver,
         Environment, DropPrompt, EditRepository, CommitRepository, vars, Hold, BeginMove, Goto,
         Release, process

LEMMA ResavedMoves ==
    ASSUME Sound, Kept, [Next]_vars, NEW g \in Gens, driver'[g] = "resaved", ~Replay(g)
    PROVE  driver[g] = "resaved"
  <1> SUFFICES ASSUME driver'[g] # driver[g] PROVE FALSE OBVIOUS
  <1>0. driver \in [Gens -> Phases] /\ Unstarted'
    BY KeptNext DEF Kept, Sound, Typed, TypeOK, ProcessTypeOK
  <1>1. g \in owned
    <2>1. g \in owned' BY <1>0 DEF Unstarted
    <2>2. Terminal => driver' = driver BY DEF Terminal, Goto
    <2> QED BY <2>1, <2>2, RecordsMove DEF records
  <1>2. ASSUME NEW h, NEW to, to # "resaved", driver' = [driver EXCEPT ![h] = to] PROVE FALSE
    BY <1>0, <1>2
  <1>3. ASSUME NEW o \in {"ok", "unsaved", "error"}, Release(o) PROVE FALSE
    <2>1. NextPhase(op, o) # "resaved" BY DEF NextPhase
    <2>2. driver' = [driver EXCEPT ![op.gen] = NextPhase(op, o)] BY <1>3 DEF Release
    <2> QED BY <1>2, <2>1, <2>2
  <1>4. CASE \/ SaveFails \/ StartFails \/ IntentFails
             \/ Save \/ TerminalRefused \/ PublishPolicyRefused
    BY <1>3, <1>4 DEF SaveFails, StartFails, IntentFails, Save, TerminalRefused, PublishPolicyRefused
  <1>5. CASE Crash
    <2>1. driver' = [driver EXCEPT ![op.gen] = "none"] BY <1>5 DEF Crash
    <2> QED BY <1>2, <2>1
  <1>6. ASSUME NEW h \in Gens, KillDriver(h) PROVE FALSE
    BY <1>2, <1>6 DEF KillDriver
  <1>7. CASE \/ ExecutorLogs(g) \/ WriteResult(g) \/ CollectUsage(g) \/ TelemetryFails(g)
             \/ ExecutorRaises(g) \/ WriteFailureLogs(g) \/ WriteFailure(g)
             \/ UnlockedSave(g) \/ DriverRefused(g)
    <2>1. PICK to \in {"ran", "returned", "complete", "exit", "raised", "withdraw", "failure", "none"} :
             driver' = [driver EXCEPT ![g] = to]
      BY <1>7 DEF ExecutorLogs, WriteResult, CollectUsage, TelemetryFails, ExecutorRaises,
           WriteFailureLogs, WriteFailure, UnlockedSave, DriverRefused, Step
    <2> QED BY <1>2, <2>1
  <1> QED BY <1>1, <1>4, <1>5, <1>6, <1>7, DriverMoves DEF Fault

LEMMA GroundedNext ==
    ASSUME Sound, Kept, Grounded, [Next]_vars
    PROVE  Grounded'
  <1>0. driver \in [Gens -> Phases] /\ snap \in [Gens -> Nat] /\ cached \in Nat
    BY DEF Sound, Typed, TypeOK, ProcessTypeOK, DiskTypeOK
  <1>1. ASSUME NEW g \in Gens, driver[g] # "none" PROVE cached # 0 /\ Len(journal) # 0
    <2>1. g \in Known
      BY <1>1 DEF Kept, Unstarted, Sound, Owning, Known
    <2>2. cached # 0 BY <2>1 DEF Grounded, Blank
    <2> QED BY <2>2, JournalGrows DEF Grounded, Sound
  <1>2. ASSUME cached' # 0 PROVE journal' # <<>>
    <2>1. CASE cached # 0 BY <2>1, JournalGrows DEF Grounded, Sound
    <2>2. CASE cached = 0 /\ journal # <<>> BY <2>2, JournalGrows DEF Sound
    <2>3. CASE cached = 0 /\ journal = <<>>
      <3>1. \A g \in Gens : ~UnlockedSave(g) BY <1>1, <2>3 DEF UnlockedSave, Step
      <3>2. cached' = cached \/ cached' = Len(journal)
        BY <3>1, CachedMoves
      <3> QED BY <1>2, <2>3, <3>2
    <2> QED BY <2>1, <2>2, <2>3
  <1>3. ASSUME cached' = 0 PROVE Blank'
    <2>1. CASE cached = 0 BY <1>3, <2>1, BlankStays DEF Grounded
    <2>2. CASE cached # 0
      <3>1. Len(journal) # 0 BY <2>2, JournalGrows DEF Grounded, Sound
      <3>2. \A g \in Gens : ~UnlockedSave(g)
        BY <1>3 DEF UnlockedSave, Step, Grounded
      <3>3. cached' = cached \/ cached' = Len(journal)
        BY <3>2, CachedMoves
      <3> QED BY <1>3, <2>2, <3>1, <3>3
    <2> QED BY <2>1, <2>2
  <1>4. ASSUME NEW g \in Gens, driver'[g] = "resaved" PROVE snap'[g] # 0
    <2>1. CASE \E h \in Gens : Replay(h)
      <3>1. PICK h \in Gens : Replay(h) BY <2>1
      <3>2. Len(journal) # 0 BY <1>1, <3>1 DEF Replay, Step
      <3>3. CASE h = g BY <1>0, <1>4, <3>1, <3>2, <3>3 DEF Replay, Step
      <3>4. CASE h # g BY <1>0, <1>4, <3>1, <3>4 DEF Replay, Step, Grounded
      <3> QED BY <3>3, <3>4
    <2>2. CASE \A h \in Gens : ~Replay(h)
      BY <1>4, <2>2, ResavedMoves, SnapMoves DEF Grounded
    <2> QED BY <2>1, <2>2
  <1> QED BY <1>2, <1>3, <1>4 DEF Grounded

LEMMA EndingInit == Init => Ending
  <1> SUFFICES ASSUME Init PROVE Ending OBVIOUS
  <1> USE DEF Init, JournalInit
  <1>1. Known = {} BY DEF Known
  <1> QED BY <1>1 DEF Ending, Acting, Alone, Grounded, Blank, Settled, Idle

LEMMA AlwaysEnding == Spec => []Ending
  <1>1. Sound /\ Kept /\ Ending /\ [Next]_vars => Ending'
    BY ActingNext, AloneNext, GroundedNext DEF Ending
  <1> QED BY <1>1, EndingInit, AlwaysSound, AlwaysKept, PTL DEF Spec

\* A generation whose process is refused by complete_run and by interrupt_run, without a fault.
LEMMA RefusedInterrupt ==
    ASSUME Sound, Kept, Calm, Ending, Free, NEW g \in owned, status[g] = "RUNNING", ~CanInterrupt(g)
    PROVE  Unendable(g)
  <1> SUFFICES ASSUME \A t \in outstanding : t.gen = g => t.claim # "refused"
               PROVE  ~OthersReported(g)
    BY DEF Unendable
  <1>0. g \in Gens /\ g \in Known /\ Running = {g}
    BY DEF Sound, Typed, TypeOK, JournalTypeOK, Known, Running, Starting, SingleRunning
  <1>1. journal # <<>> /\ cached # 0 BY <1>0 DEF Ending, Grounded, Blank
  <1>2. prompt[g].action # "checkpoint" BY DEF Kept, Reported
  <1>3. ~CompletionRefused
    <2> SUFFICES ASSUME NEW t \in outstanding, RefusedForGood(t) PROVE FALSE
      BY DEF CompletionRefused
    <2>1. Prepared(t) /\ ValidTx(t)
      BY DEF Sound, Recorded, Transacting, Pending, Typed, LocalsOK
    <2>2. t.gen \in Running /\ t.prompt = prompt[t.gen]
      BY <2>1 DEF Prepared, ValidTx, Running, Known, RefusedForGood
    <2> QED BY <1>0, <1>2, <2>2 DEF RefusedForGood
  <1>4. intents = {}
    <2> SUFFICES ASSUME NEW i \in intents PROVE FALSE OBVIOUS
    <2>1. prompt[i.gen].action = "checkpoint" BY DEF Sound, Recorded, Landed, Attributed
    <2>2. i.gen = g BY <1>0 DEF Ending, Alone
    <2> QED BY <1>2, <2>1, <2>2
  <1>5. Settled
    <2>1. op.pc = "idle" BY DEF Free, Idle
    <2> QED BY <1>3, <1>4, <2>1 DEF Calm, Unresolved, CompletionRefused, Settled
  <1>6. Home(g) \in spool
    <2>1. FilesOf(prompt[g]) = {Home(g)} BY <1>0, <1>5 DEF Settled, Sound, Filing, PromptNeverLost
    <2> QED BY <2>1 DEF FilesOf, PromptFiles
  <1>7. Fresh /\ ~SpoolOK BY <1>1, <1>5, <1>6 DEF CanInterrupt
  <1>8. PICK h \in Gens : ~ReportsOK(h)
    <2>1. Accepting = {} BY DEF Free, Idle, Accepting, TxPCs
    <2> QED BY <1>5, <1>7, <2>1, SettledFiles DEF SpoolOK
  <1>9. h # g
    <2>1. claim[g] = "none" BY <1>0 DEF Kept, Reported
    <2>2. ReportsOK(g) BY <2>1 DEF ReportsOK, Sound, Owning, RunsHaveOwner
    <2> QED BY <1>8, <2>2
  <1> QED BY <1>8, <1>9 DEF OthersReported

\* Without faults a process leaves its run RUNNING in two cases only, for every set of prompts and
\* every bound: complete_run and interrupt_run were both refused, because the reports of another
\* run do not validate, or because the operator has prepared a completion of this one that replay
\* refuses.  Whatever the executor returns or raises, execute ends the run otherwise.
THEOREM RunNeverAbandonedCorrect == Spec => RunNeverAbandoned
  <1>1. ASSUME Sound, Kept, Healthy, Ending, [Next]_vars, NEW g \in owned,
               used'.faults = 0, status'[g] = "RUNNING", driver[g] # "none", driver'[g] = "none"
        PROVE  Unendable(g)
    <2>0. /\ g \in Gens /\ ~Fault /\ Calm /\ driver \in [Gens -> Phases]
      BY <1>1, FaultsCount DEF Healthy, Sound, Typed, TypeOK, JournalTypeOK, ProcessTypeOK
    <2>1. status[g] = "RUNNING" BY <1>1, EndedStays
    <2>2. ASSUME NEW from, NEW to, to # "none", Step(g, from, to) PROVE FALSE
      BY <1>1, <2>0, <2>2 DEF Step
    <2>3. ~(ExecutorLogs(g) \/ WriteResult(g) \/ CollectUsage(g) \/ TelemetryFails(g)
            \/ ExecutorRaises(g) \/ WriteFailureLogs(g) \/ Replay(g) \/ UnlockedSave(g))
      BY <2>2 DEF ExecutorLogs, WriteResult, CollectUsage, TelemetryFails, ExecutorRaises,
                  WriteFailureLogs, Replay, UnlockedSave
    <2>4. ~WriteFailure(g) BY <1>1, <2>0, <2>1 DEF WriteFailure, Step, Kept, Phased
    <2>5. ASSUME Save \/ TerminalRefused \/ PublishPolicyRefused, op.by = "driver", op.gen = g PROVE FALSE
      BY <1>1, <2>1, <2>5, ReleasedPhase DEF Ending
    <2>6. DriverRefused(g) BY <1>1, <2>0, <2>3, <2>4, <2>5, DriverMoves
    <2>7. Free /\ ~CanInterrupt(g) BY <1>1, <2>0, <2>2, <2>6 DEF DriverRefused
    <2> QED BY <1>1, <2>0, <2>1, <2>7, RefusedInterrupt
  <1>2. Sound /\ Kept /\ Healthy /\ Ending /\ [Next]_vars
          => [\A g \in owned :
                 used'.faults = 0 /\ status'[g] = "RUNNING" /\ driver[g] # "none" /\ driver'[g] = "none"
                     => Unendable(g)]_vars
    BY <1>1
  <1> QED BY <1>2, AlwaysSound, AlwaysKept, AlwaysHealthy, AlwaysEnding, PTL DEF Spec, RunNeverAbandoned

-----------------------------------------------------------------------------
(* What is unrepaired is repaired, or is a dead end.                       *)

Entries == {"PROMPT_ACCEPTED", "PROMPT_REJECTED"}
LastEvent == journal[Len(journal)]

\* ingest has begun, and no other command has journaled anything since.
Entering ==
    \/ op.kind = "ingest"
    \/ \E t \in Pending : t.event \in Entries
    \/ journal # <<>> /\ LastEvent.event \in Entries

\* No report is missing that recover could derive and has not derived.
ReportsKnown == ArtifactConflict \/ \A g \in owned : ReportsOK(g)

\* What the last event says of the transactions.
Telling ==
    journal # <<>> =>
        /\ LastEvent.event = "TRANSITION_PREPARED" => outstanding # {}
        /\ LastEvent.event \notin Transitions \cup {"TRANSITION_PREPARED"} => LastEvent.id = 0

\* And of the reports.
Trailing == Telling /\ (Entering => ReportsKnown)

\* The inbox files ingest has yet to deal with.
Read == batch.todo \cup batch.parsed
Dropped(f) == <<"inbox", f[1], f[2]>>

\* A file stays in the inbox until its own transaction takes it from there.
Queued ==
    /\ op.pc = "ingest" \/ (op.pc \in TxPCs \cup {"archive"} /\ op.next = "ingest") => op.kind = "ingest"
    /\ op.kind = "ingest" =>
          /\ op.pc \in TxPCs \cup {"archive", "ingest"}
          /\ batch.todo \cap batch.parsed = {}
          /\ \A f \in Read : Dropped(f) \in spool
          /\ op.pc # "ingest" => op.next = "ingest" /\ \A f \in Read : op.tx.src # Dropped(f)
    /\ \A t \in Pending : t.event \in Entries => t.src \in spool \/ t.dst \in spool

\* A checkpoint is started or completed only once its commit has landed.
Crossing ==
    \A i \in intents : status[i.gen] # "ACCEPTED" \/ Pending # {} => <<i.commit, i.gen>> \in landed

\* recover does nothing but finish transactions and intents.
Recovering ==
    op.kind = "recover" =>
        /\ op.pc \in TxPCs \cup {"resolve", "abort", "finish"}
        /\ op.pc \in TxPCs => op.next \in {"resolve", "finish"}

Mendable == Trailing /\ Queued /\ Crossing /\ Recovering

\* The lock holder's command stays what it is until the lock is released.
LEMMA KindStays ==
    ASSUME Sound, Locked
    PROVE  op' = Idle \/ op'.kind = op.kind
  <1>1. ASSUME NEW pc \in PCs, Goto(pc) PROVE op'.kind = op.kind
    BY <1>1, GotoType DEF Sound, Typed
  <1>2. ASSUME NEW t, NEW pc, NEW next, Move(t, pc, next) PROVE op'.kind = op.kind
    BY <1>2, MoveFields DEF Sound
  <1>3. CASE \/ InitAppend \/ AdoptAppend \/ Archive \/ PublishPolicy \/ Prepare \/ PublishOwner
             \/ Rename \/ Terminal \/ CheckpointIntent \/ CheckpointAdvance \/ CheckpointVerify
             \/ RecoverAbort
    <2>1. op.pc = "terminal" => op.next \in PCs BY DEF Sound, Typed, TypeOK, ProcessTypeOK, Ops
    <2> QED BY <1>1, <1>3, <2>1
          DEF InitAppend, AdoptAppend, Archive, PublishPolicy, Prepare, PublishOwner, Rename,
              Terminal, CheckpointIntent, CheckpointAdvance, CheckpointVerify, RecoverAbort, PCs, TxPCs
  <1>4. CASE Receive \/ Process \/ CheckpointFinish \/ RecoverTransaction
    <2>1. \/ UNCHANGED op \/ \E t, pc, next : Move(t, pc, next)
      BY <1>4 DEF Receive, Process, CheckpointFinish, RecoverTransaction
    <2> QED BY <1>2, <2>1
  <1>5. CASE RecoverRollback \/ RecoverForward
    BY <1>5 DEF RecoverRollback, RecoverForward, Release, Sound, Typed, TypeOK, ProcessTypeOK, Ops
  <1>6. CASE Quiet BY <1>6 DEF Quiet
  <1> QED BY <1>3, <1>4, <1>5, <1>6, QuietSteps DEF Locked

LEMMA RecoveringNext ==
    ASSUME Sound, Recovering, [Next]_vars
    PROVE  Recovering'
  <1>1. CASE Quiet BY <1>1 DEF Quiet, Recovering, Idle
  <1>2. ASSUME NEW g \in Gens,
               \/ \E by \in {"operator", "driver"} : CompleteBegin(g, by) \/ InterruptBegin(g, by)
               \/ CancelBegin(g) \/ CheckpointBegin(g) \/ \E b \in BOOLEAN : StartBegin(g, b)
        PROVE  Recovering'
    <2>1. op'.kind # "recover" BY <1>2, BeginSteps DEF Sound
    <2> QED BY <2>1 DEF Recovering
  <1>3. CASE Command
    <2>1. CASE InitBegin \/ AdoptBegin \/ IngestBegin \/ RecoverBegin
      BY <2>1 DEF InitBegin, AdoptBegin, IngestBegin, RecoverBegin, Hold, Idle, Recovering, TxPCs
    <2> QED BY <1>1, <1>2, <1>3, <2>1, QuietSteps DEF Command
  <1>4. CASE Locked /\ ~Quiet
    <2> SUFFICES ASSUME op'.kind = "recover"
                 PROVE  /\ op'.pc \in TxPCs \cup {"resolve", "abort", "finish"}
                        /\ op'.pc \in TxPCs => op'.next \in {"resolve", "finish"}
      BY DEF Recovering
    <2>1. op.kind = "recover" BY <1>4, KindStays DEF Idle
    <2>2. /\ op.pc \in TxPCs \cup {"resolve", "abort", "finish"}
          /\ op.pc \in TxPCs => op.next \in {"resolve", "finish"}
      BY <2>1 DEF Recovering
    <2>3. CASE Prepare \/ PublishOwner \/ Rename
      <3>1. op'.pc \in TxPCs /\ op'.next = op.next /\ op.pc \in TxPCs
        BY <2>3, GotoType DEF Prepare, PublishOwner, Rename, Sound, Typed, PCs, TxPCs
      <3> QED BY <2>2, <3>1
    <2>4. CASE Terminal
      <3>1. op'.pc = op.next /\ op.pc \in TxPCs BY <2>4, AfterTerminal DEF Sound, Terminal, TxPCs
      <3> QED BY <2>2, <3>1 DEF TxPCs
    <2>5. CASE CheckpointFinish
      <3>1. \E t : Move(t, "prepare", "finish") \/ Move(t, "prepare", "resolve")
        BY <2>1, <2>5 DEF CheckpointFinish
      <3> QED BY <3>1, MoveFields DEF Sound, TxPCs
    <2>6. CASE RecoverTransaction
      <3>1. PICK t \in outstanding, pc \in {"owner", "rename", "terminal"} : Move(t, pc, "resolve")
        BY <2>6 DEF RecoverTransaction
      <3> QED BY <3>1, MoveFields DEF Sound, TxPCs
    <2>7. CASE RecoverRollback \/ RecoverForward \/ RecoverAbort
      <3>1. RecoverAbort => op'.pc = "resolve" BY GotoType DEF RecoverAbort, Sound, Typed, PCs
      <3>2. RecoverForward => op'.pc = "finish"
        BY DEF RecoverForward, Sound, Typed, TypeOK, ProcessTypeOK, Ops
      <3>3. ASSUME RecoverRollback PROVE op'.pc = "abort"
        <4>1. op' # Idle BY DEF Idle
        <4>2. PICK i \in intents : op' = [op EXCEPT !.pc = "abort", !.gen = i.gen]
          BY <3>3, <4>1 DEF RecoverRollback, Release
        <4>3. op \in Ops BY DEF Sound, Typed, TypeOK, ProcessTypeOK
        <4> QED BY <4>2, <4>3 DEF Ops
      <3> QED BY <2>7, <3>1, <3>2, <3>3 DEF TxPCs
    <2> QED BY <1>4, <2>2, <2>3, <2>4, <2>5, <2>6, <2>7, QuietSteps
         DEF Locked, InitAppend, AdoptAppend, Receive, Process, Archive, PublishPolicy,
             CheckpointIntent, CheckpointAdvance, CheckpointVerify, TxPCs
  <1>5. ASSUME NEW g \in Gens, Executing(g) PROVE Recovering'
    BY <1>1, <1>2, <1>5, QuietSteps DEF Executing
  <1> QED BY <1>1, <1>3, <1>4, <1>5, QuietSteps DEF Next

\* What HEAD was moved to stays so.
LEMMA LandedGrows == [Next]_vars => landed \subseteq landed'
  BY DEF Next, Command, InitBegin, Rebuild, AdoptBegin, IngestBegin, RecoverBegin, CancelBegin,
         CheckpointBegin, StartBegin, InterruptBegin, CompleteBegin, Locked, InitAppend,
         AdoptAppend, Receive, Process, Archive, PublishPolicy, PublishPolicyRefused, Prepare,
         PublishOwner, Rename, Terminal, TerminalRefused, CheckpointIntent, CheckpointAdvance,
         CheckpointVerify, CheckpointRefused, CheckpointFinish, RecoverTransaction,
         RecoverRollback, RecoverAbort, RecoverForward, RecoverRefused, RecoverArtifact,
         RecoverSave, RecoverFailed, Save, Executing, ExecutorLogs, WriteResult, CollectUsage,
         TelemetryFails, ExecutorRaises, WriteFailureLogs, WriteFailure, Replay, UnlockedSave,
         DriverRefused, DriverQuiet, Fault, SaveFails, StartFails, IntentFails, Crash, KillDriver,
         Environment, DropPrompt, EditRepository, CommitRepository, vars, work

\* The transactions under way after a step that ends none and begins none.
LEMMA PendingStays ==
    ASSUME Sound, [Next]_vars,
           \/ Quiet \/ InitBegin \/ AdoptBegin \/ IngestBegin \/ RecoverBegin
           \/ InitAppend \/ AdoptAppend \/ Archive \/ PublishPolicy \/ Prepare \/ PublishOwner
           \/ Rename \/ Terminal \/ CheckpointIntent \/ CheckpointAdvance \/ CheckpointVerify
           \/ RecoverTransaction \/ RecoverRollback \/ RecoverAbort \/ RecoverForward
    PROVE  Pending' \subseteq Pending
  <1>1. CASE Quiet BY <1>1 DEF Quiet, Pending, InHand, Idle, TxPCs, journalVars
  <1>2. CASE InitBegin \/ AdoptBegin \/ IngestBegin \/ RecoverBegin
    BY <1>2 DEF InitBegin, AdoptBegin, IngestBegin, RecoverBegin, Hold, Idle, Pending, InHand, TxPCs,
         journalVars
  <1>3. CASE \/ InitAppend \/ AdoptAppend \/ CheckpointIntent \/ CheckpointAdvance
             \/ CheckpointVerify \/ RecoverRollback \/ RecoverAbort \/ RecoverForward
    <2>1. UNCHANGED outstanding
      BY <1>3 DEF InitAppend, AdoptAppend, CheckpointIntent, CheckpointAdvance, CheckpointVerify,
           RecoverRollback, RecoverAbort, RecoverForward, LogInitialized, LogAdopted, LogIntent,
           LogAborted, journalVars
    <2>2. op'.pc \in {"save", "advance", "verify", "finish", "abort", "resolve", "idle"}
      <3>1. RecoverForward => op'.pc = "finish"
        BY DEF RecoverForward, Sound, Typed, TypeOK, ProcessTypeOK, Ops
      <3>2. RecoverRollback => op'.pc \in {"abort", "idle"} BY RollbackMoves DEF Sound
      <3> QED BY <1>3, <3>1, <3>2, GotoType
            DEF InitAppend, AdoptAppend, CheckpointIntent, CheckpointAdvance, CheckpointVerify,
                RecoverAbort, Sound, Typed, PCs, TxPCs
    <2> QED BY <2>1, <2>2 DEF Pending, InHand, TxPCs
  <1>4. CASE Archive \/ PublishPolicy \/ Prepare \/ PublishOwner \/ Rename
    <2>1. op'.tx = op.tx /\ op.pc \in TxPCs \cup {"archive", "policy"}
      BY <1>4, GotoType DEF Archive, PublishPolicy, Prepare, PublishOwner, Rename, Sound, Typed,
           PCs, TxPCs
    <2>2. outstanding' \subseteq outstanding \cup {op.tx}
      BY <1>4 DEF Archive, PublishPolicy, Prepare, PublishOwner, Rename, LogPrepared, journalVars
    <2> QED BY <2>1, <2>2 DEF Pending, InHand
  <1>5. CASE Terminal
    BY <1>5, AfterTerminal DEF Sound, Pending, InHand, TxPCs
  <1>6. CASE RecoverTransaction
    <2>1. PICK t \in outstanding, pc \in TxPCs : Move(t, pc, "resolve")
      BY <1>6 DEF RecoverTransaction, TxPCs
    <2>2. op'.tx = t BY <2>1, MoveFields DEF Sound
    <2> QED BY <1>6, <2>2 DEF RecoverTransaction, Pending, InHand, journalVars
  <1> QED BY <1>1, <1>2, <1>3, <1>4, <1>5, <1>6

LEMMA CrossingNext ==
    ASSUME Sound, Crossing, [Next]_vars
    PROVE  Crossing'
  <1>0. landed \subseteq landed' BY LandedGrows
  <1>1. ASSUME intents' \subseteq intents, UNCHANGED status, Pending' \subseteq Pending PROVE Crossing'
    BY <1>0, <1>1 DEF Crossing
  <1>2. ASSUME intents' = {} PROVE Crossing' BY <1>2 DEF Crossing
  <1>3. CASE \/ Quiet \/ InitBegin \/ AdoptBegin \/ IngestBegin \/ RecoverBegin
             \/ InitAppend \/ AdoptAppend \/ Archive \/ PublishPolicy \/ Prepare \/ PublishOwner
             \/ Rename \/ CheckpointAdvance \/ CheckpointVerify
             \/ RecoverTransaction \/ RecoverRollback \/ RecoverAbort \/ RecoverForward
    <2>1. intents' \subseteq intents /\ UNCHANGED status
      BY <1>3 DEF Quiet, InitBegin, AdoptBegin, IngestBegin, RecoverBegin, InitAppend, AdoptAppend,
           Archive, PublishPolicy, Prepare, PublishOwner, Rename, CheckpointAdvance,
           CheckpointVerify, RecoverTransaction, RecoverRollback, RecoverAbort, RecoverForward,
           LogInitialized, LogAdopted, LogPrepared, LogAborted, journalVars, records
    <2> QED BY <1>1, <1>3, <2>1, PendingStays
  <1>4. CASE Terminal
    <2>1. op.tx \in Pending BY <1>4 DEF Terminal, Pending, InHand, TxPCs
    <2>2. intents' \subseteq intents BY <1>4, TerminalEffect DEF Sound
    <2> QED BY <1>0, <2>1, <2>2 DEF Crossing
  <1>5. CASE CheckpointIntent
    <2>1. Pending' = {} /\ UNCHANGED status /\ intents = {}
      <3>1. op'.pc = "advance" BY <1>5, GotoType DEF CheckpointIntent, Sound, Typed, PCs
      <3> QED BY <1>5, <3>1 DEF CheckpointIntent, LogIntent, records, Pending, InHand, TxPCs, Sound,
                  Flight, Carrying
    <2>2. \A i \in intents' : status[i.gen] = "ACCEPTED"
      BY <1>5, <2>1 DEF CheckpointIntent, LogIntent, IntentAdmissible
    <2> QED BY <2>1, <2>2 DEF Crossing
  <1>6. CASE CheckpointFinish
    <2>1. UNCHANGED intents /\ op.pc = "finish" BY <1>6 DEF CheckpointFinish, journalVars
    <2>2. Attested(op.gen, op.wit) BY <2>1 DEF Sound, Recorded, Placing
    <2>3. \A i \in intents : <<i.commit, i.gen>> \in landed
      BY <2>1, <2>2 DEF Attested, Sound, Flight
    <2> QED BY <1>0, <2>1, <2>3 DEF Crossing
  <1>7. CASE Receive \/ Process
    BY <1>2, <1>7 DEF Receive, Process, LogReceived, journalVars, Sound, Flight
  <1>8. ASSUME NEW g \in Gens,
               \/ \E by \in {"operator", "driver"} : CompleteBegin(g, by) \/ InterruptBegin(g, by)
               \/ CancelBegin(g) \/ CheckpointBegin(g) \/ \E b \in BOOLEAN : StartBegin(g, b)
        PROVE  Crossing'
    <2>1. UNCHANGED journalVars /\ Settled BY <1>8, BeginSteps DEF Sound
    <2> QED BY <1>2, <2>1 DEF Settled, journalVars
  <1>9. CASE Command BY <1>3, <1>8, <1>9, QuietSteps DEF Command
  <1>10. CASE Locked BY <1>3, <1>4, <1>5, <1>6, <1>7, <1>10, QuietSteps DEF Locked
  <1>11. ASSUME NEW g \in Gens, Executing(g) PROVE Crossing'
    BY <1>3, <1>8, <1>11, QuietSteps DEF Executing
  <1> QED BY <1>3, <1>9, <1>10, <1>11, QuietSteps DEF Next

-----------------------------------------------------------------------------
(* The reports while ingest is the last that has written the journal.      *)

\* Writing a report leaves the reports known: what an executor overwrites was derived for it, and
\* then it is there for good.
LEMMA WritingKnown ==
    ASSUME Sound, Kept, ReportsKnown, NEW g \in owned, NEW r \in Reports,
           art' = [art EXCEPT ![g] = r], Grows(g, r), UNCHANGED records
    PROVE  ReportsKnown'
  <1> USE DEF records
  <1>0. g \in Gens /\ art \in [Gens -> Reports] /\ owned \subseteq Gens
    BY DEF Sound, Typed, TypeOK, DiskTypeOK, JournalTypeOK
  <1>1. art'[g] = r /\ \A h \in Gens : h # g => art'[h] = art[h] BY <1>0
  <1>2. CASE ArtifactConflict
    <2>1. PICK x \in Fallbacks : art[x[1]][x[2]] \notin {"none", Derived[x[2]]}
      BY <1>2 DEF ArtifactConflict
    <2>2. x[1] \in Gens /\ x[2] \in Artifacts /\ x \in Fallbacks' BY <1>0, <2>1 DEF Fallbacks
    <2>3. art'[x[1]][x[2]] \notin {"none", Derived[x[2]]}
      BY <1>1, <2>1, <2>2 DEF Grows
    <2> QED BY <2>2, <2>3 DEF ArtifactConflict, ReportsKnown
  <1>3. CASE \A h \in owned : ReportsOK(h)
    <2>1. \A h \in owned : h # g => ReportsOK(h)' BY <1>0, <1>1, <1>3 DEF ReportsOK
    <2>2. ASSUME ~ReportsOK(g)' PROVE ArtifactConflict'
      <3>1. ReportsOK(g) /\ art[g] \in Reports BY <1>0, <1>3
      <3>2. /\ r.policy = art[g].policy /\ r.owner = art[g].owner
            /\ art[g].logs # "none" => r.logs # "none"
            /\ art[g].result # "none" => r.result # "none"
            /\ art[g].usage # "none" => r.usage # "none"
        BY DEF Grows, Artifacts
      <3>3. /\ status[g] # "RUNNING" /\ art[g].result # "none"
            /\ r.usage = "none" /\ r.result \notin Unmeasured
        BY <1>1, <2>2, <3>1, <3>2 DEF ReportsOK, Grows
      <3>4. driver[g] = "ran" /\ r.result \in {"run", "failed"}
        BY <3>1, <3>2, <3>3 DEF Grows, ReportsOK
      <3>5. "result" \in fallback[g] BY <1>0, <3>3, <3>4 DEF Kept, Phased
      <3>6. <<g, "result">> \in Fallbacks'
        BY <1>0, <3>5 DEF Kept, Reported, Fallbacks, Artifacts
      <3>7. art'[g]["result"] \notin {"none", Derived["result"]} BY <1>1, <3>4 DEF Derived
      <3> QED BY <3>6, <3>7 DEF ArtifactConflict
    <2> QED BY <2>1, <2>2 DEF ReportsKnown
  <1> QED BY <1>2, <1>3 DEF ReportsKnown

\* Only ingest ends a generation's acceptance or rejection while it is entering.
LEMMA EnteringTerminal ==
    ASSUME Sound, Queued, Terminal, Entering'
    PROVE  op.tx.event \in Entries
  <1>1. /\ outstanding' = {} /\ op'.pc = op.next /\ op'.kind = op.kind
        /\ op.next \in {"idle", "save", "ingest", "finish", "resolve"}
    BY AfterTerminal DEF Sound
  <1>2. Pending' = {} BY <1>1 DEF Pending, InHand, TxPCs
  <1>3. CASE op'.kind = "ingest"
    <2>1. op.pc = "terminal" /\ op.next = "ingest" BY <1>1, <1>3 DEF Terminal, Queued
    <2> QED BY <2>1 DEF Entries, Sound, Recorded, Transacting, Ingesting, TxPCs
  <1>4. CASE journal' # <<>> /\ LastEvent'.event \in Entries
    <2>1. journal' = Append(journal, [event |-> op.tx.event, id |-> op.tx.id])
      BY DEF Terminal, LogTerminal, Log
    <2>2. LastEvent' = [event |-> op.tx.event, id |-> op.tx.id]
      BY <2>1 DEF LastEvent, Sound, Typed, TypeOK, JournalTypeOK
    <2> QED BY <1>4, <2>2
  <1> QED BY <1>2, <1>3, <1>4 DEF Entering

LEMMA ReportsStayKnown ==
    ASSUME Sound, Kept, Queued, [Next]_vars, ReportsKnown, Entering'
    PROVE  ReportsKnown'
  <1>1. CASE \E g \in owned, r \in Reports :
                art' = [art EXCEPT ![g] = r] /\ Grows(g, r) /\ UNCHANGED records
    BY <1>1, WritingKnown
  <1>2. CASE (\A g \in owned : art'[g] = art[g]) /\ ~Terminal
    <2>1. UNCHANGED records BY <1>2, RecordsMove
    <2>2. Fallbacks' = Fallbacks /\ \A x \in Fallbacks : x[1] \in owned BY <2>1 DEF Fallbacks, records
    <2>3. ArtifactConflict' <=> ArtifactConflict BY <1>2, <2>2 DEF ArtifactConflict
    <2>4. \A g \in owned : ReportsOK(g)' <=> ReportsOK(g) BY <1>2, <2>1 DEF ReportsOK, records
    <2> QED BY <2>1, <2>3, <2>4 DEF ReportsKnown, records
  <1>3. CASE Terminal
    <2>1. op.tx.event \in Entries BY <1>3, EnteringTerminal
    <2>2. /\ UNCHANGED <<art, owned, fallback>>
          /\ op.tx.event = "PROMPT_REJECTED" => UNCHANGED status
          /\ op.tx.event = "PROMPT_ACCEPTED" =>
                op.tx.gen \notin Known /\ op.tx.gen \in Gens
                /\ status' = [status EXCEPT ![op.tx.gen] = "ACCEPTED"]
      <3>1. UNCHANGED <<art, owned, fallback>>
        BY <1>3, <2>1 DEF Terminal, LogTerminal, Entries, disk
      <3>2. op.tx.event = "PROMPT_REJECTED" => UNCHANGED status
        BY <1>3, TerminalEffect DEF Sound, records
      <3>3. op.tx.event = "PROMPT_ACCEPTED" =>
               op.tx.gen \notin Known /\ op.tx.gen \in Gens
               /\ status' = [status EXCEPT ![op.tx.gen] = "ACCEPTED"]
        BY <1>3, TerminalEffect DEF Sound, Outcome
      <3> QED BY <3>1, <3>2, <3>3
    <2>3. \A g \in owned : status'[g] = status[g]
      BY <2>1, <2>2 DEF Entries, Sound, Owning, Known, Typed, TypeOK, JournalTypeOK
    <2>4. Fallbacks' = Fallbacks BY <2>2, <2>3 DEF Fallbacks
    <2>5. ArtifactConflict' <=> ArtifactConflict BY <2>2, <2>4 DEF ArtifactConflict
    <2>7. UNCHANGED claim
      BY <1>3, <2>1 DEF Terminal, LogTerminal, Entries
    <2>6. \A g \in owned : ReportsOK(g)' <=> ReportsOK(g) BY <2>2, <2>3, <2>7 DEF ReportsOK
    <2> QED BY <2>2, <2>5, <2>6 DEF ReportsKnown
  <1>4. \A g \in owned : g \in Gens /\ status[g] # "ACCEPTED"
    BY DEF Sound, Owning, Typed, TypeOK, JournalTypeOK
  <1> QED BY <1>1, <1>2, <1>3, <1>4, ReportsMove

\* What a step appends to the journal.
Appends(e) == journal' = Append(journal, e)

\* A step that is entering begins ingest, or follows one that was.
LEMMA EnteringMoves ==
    ASSUME Sound, Queued, [Next]_vars, Entering', ~IngestBegin
    PROVE  Entering
  <1>1. ASSUME UNCHANGED journal, Pending' \subseteq Pending,
               op'.kind = op.kind \/ op'.kind # "ingest"
        PROVE  Entering
    BY <1>1 DEF Entering, LastEvent
  <1>2. ASSUME NEW event, NEW id, Appends([event |-> event, id |-> id]), event \notin Entries,
               Pending' \subseteq Pending, op'.kind = op.kind \/ op'.kind # "ingest"
        PROVE  Entering
    <2>1. LastEvent' = [event |-> event, id |-> id]
      BY <1>2 DEF Appends, LastEvent, Sound, Typed, TypeOK, JournalTypeOK
    <2>2. LastEvent'.event \notin Entries BY <1>2, <2>1
    <2> QED BY <1>2, <2>2 DEF Entering
  <1>3. CASE Quiet
    BY <1>1, <1>3, PendingStays DEF Quiet, Idle, journalVars
  <1>4. ASSUME NEW g \in Gens,
               \/ \E by \in {"operator", "driver"} : CompleteBegin(g, by) \/ InterruptBegin(g, by)
               \/ CancelBegin(g) \/ CheckpointBegin(g) \/ \E b \in BOOLEAN : StartBegin(g, b)
        PROVE  Entering
    <2>1. /\ UNCHANGED journalVars /\ op'.kind # "ingest"
          /\ op'.pc = "intent" \/ op'.tx.event \notin Entries
      BY <1>4, BeginSteps DEF Sound, Entries
    <2>2. \A t \in Pending' : t \in outstanding \/ t.event \notin Entries
      BY <2>1 DEF Pending, InHand, TxPCs, journalVars
    <2> QED BY <2>1, <2>2 DEF Entering, LastEvent, Pending, journalVars
  <1>5. CASE InitBegin \/ AdoptBegin \/ RecoverBegin
    <2>1. op'.kind # "ingest" /\ UNCHANGED journal
      BY <1>5 DEF InitBegin, AdoptBegin, RecoverBegin, Hold, Idle, journalVars
    <2> QED BY <1>1, <1>5, <2>1, PendingStays
  <1>6. CASE Command BY <1>3, <1>4, <1>5, <1>6, QuietSteps DEF Command
  <1>7. CASE Locked
    <2>1. op'.kind = op.kind \/ op'.kind # "ingest" BY <1>7, KindStays DEF Idle
    <2>2. CASE Receive \/ Process
      BY <2>2 DEF Receive, Process, Queued, Entering
    <2>3. CASE Terminal
      <3>1. op.tx.event \in Entries BY <2>3, EnteringTerminal
      <3>2. op.tx \in Pending BY <2>3 DEF Terminal, Pending, InHand, TxPCs
      <3> QED BY <3>1, <3>2 DEF Entering
    <2>4. CASE Prepare \/ InitAppend \/ AdoptAppend \/ CheckpointIntent \/ RecoverAbort
      <3>1. \E event \in {"TRANSITION_PREPARED", "WORKFLOW_INITIALIZED", "CHECKPOINT_INTENT",
                         "CHECKPOINT_ABORTED", "REPOSITORY_BOUNDARY_ADOPTED"} :
               \E id : Appends([event |-> event, id |-> id])
        BY <2>4 DEF Prepare, InitAppend, AdoptAppend, CheckpointIntent, RecoverAbort, LogPrepared,
             LogInitialized, LogAdopted, LogIntent, LogAborted, Log, Appends
      <3>2. PICK event : event \notin Entries /\ \E id : Appends([event |-> event, id |-> id])
        BY <3>1 DEF Entries
      <3> QED BY <1>2, <2>1, <2>4, <3>2, PendingStays
    <2>5. CASE \/ Archive \/ PublishPolicy \/ PublishOwner \/ Rename \/ CheckpointAdvance
               \/ CheckpointVerify \/ RecoverTransaction \/ RecoverRollback \/ RecoverForward
      <3>1. UNCHANGED journal
        BY <2>5 DEF Archive, PublishPolicy, PublishOwner, Rename, CheckpointAdvance,
             CheckpointVerify, RecoverTransaction, RecoverRollback, RecoverForward, journalVars
      <3> QED BY <1>1, <2>1, <2>5, <3>1, PendingStays
    <2>6. CASE CheckpointFinish
      <3>1. \E t : t.event \notin Entries /\ \E pc, next : Move(t, pc, next)
        BY <2>6 DEF CheckpointFinish, MoveTx, Tx, Entries
      <3>2. op'.tx.event \notin Entries BY <3>1, MoveFields DEF Sound
      <3>3. UNCHANGED journalVars BY <2>6 DEF CheckpointFinish
      <3>4. \A t \in Pending' : t \in outstanding \/ t.event \notin Entries
        BY <3>2, <3>3 DEF Pending, InHand, journalVars
      <3> QED BY <2>1, <3>3, <3>4 DEF Entering, LastEvent, Pending, journalVars
    <2> QED BY <1>3, <1>7, <2>2, <2>3, <2>4, <2>5, <2>6, QuietSteps DEF Locked
  <1>8. ASSUME NEW g \in Gens, Executing(g) PROVE Entering
    BY <1>3, <1>4, <1>8, QuietSteps DEF Executing
  <1> QED BY <1>3, <1>6, <1>7, <1>8, QuietSteps DEF Next

LEMMA TrailingNext ==
    ASSUME Sound, Kept, Trailing, Queued, [Next]_vars
    PROVE  Trailing'
  <1>0. journal \in Seq(Events) BY DEF Sound, Typed, TypeOK, JournalTypeOK
  <1>1. ASSUME Entering' PROVE ReportsKnown'
    <2>1. CASE IngestBegin
      <3>1. \A g \in owned : ReportsOK(g)
        BY <2>1 DEF IngestBegin, Preflight, SpoolOK, Sound, Typed, TypeOK, JournalTypeOK
      <3>2. ReportsKnown BY <3>1 DEF ReportsKnown
      <3> QED BY <1>1, <3>2, ReportsStayKnown
    <2>2. CASE ~IngestBegin
      <3>1. ReportsKnown BY <1>1, <2>2, EnteringMoves DEF Trailing
      <3> QED BY <1>1, <3>1, ReportsStayKnown
    <2> QED BY <2>1, <2>2
  <1> SUFFICES Telling' BY <1>1 DEF Trailing
  <1>2. ASSUME NEW event, NEW id, Appends([event |-> event, id |-> id]),
               event = "TRANSITION_PREPARED" => outstanding' # {},
               event \notin Transitions \cup {"TRANSITION_PREPARED"} => id = 0
        PROVE  Telling'
    <2>1. LastEvent' = [event |-> event, id |-> id] BY <1>0, <1>2 DEF Appends, LastEvent
    <2> QED BY <1>2, <2>1 DEF Telling
  <1>3. ASSUME UNCHANGED <<journal, outstanding>> PROVE Telling'
    BY <1>3 DEF Trailing, Telling, LastEvent
  <1>4. CASE Quiet BY <1>3, <1>4 DEF Quiet, journalVars
  <1>5. CASE Command
    <2>1. UNCHANGED <<journal, outstanding>>
      BY <1>4, <1>5, QuietSteps DEF Command, InitBegin, AdoptBegin, IngestBegin, RecoverBegin,
         CompleteBegin, InterruptBegin, CancelBegin, CheckpointBegin, StartBegin, journalVars, Quiet
    <2> QED BY <1>3, <2>1
  <1>6. CASE Locked
    <2>1. CASE Prepare
      <3>1. Appends([event |-> "TRANSITION_PREPARED", id |-> op.tx.id]) /\ outstanding' # {}
        BY <2>1 DEF Prepare, LogPrepared, Log, Appends
      <3> QED BY <1>2, <3>1 DEF Transitions
    <2>2. CASE Terminal
      <3>1. Appends([event |-> op.tx.event, id |-> op.tx.id])
        BY <2>2 DEF Terminal, LogTerminal, Log, Appends
      <3>2. op.tx.event \in Transitions BY <2>2, TerminalEffect DEF Sound, ValidTx, Txs
      <3>3. op.tx.event # "TRANSITION_PREPARED" BY <3>2 DEF Transitions
      <3> QED BY <1>2, <3>1, <3>2, <3>3
    <2>3. CASE InitAppend \/ AdoptAppend \/ Receive \/ CheckpointIntent \/ RecoverAbort
      <3>1. \E event \in {"PROMPT_RECEIVED", "WORKFLOW_INITIALIZED", "CHECKPOINT_INTENT",
                         "CHECKPOINT_ABORTED", "REPOSITORY_BOUNDARY_ADOPTED"} :
               Appends([event |-> event, id |-> 0])
        BY <2>3 DEF Receive, InitAppend, AdoptAppend, CheckpointIntent, RecoverAbort, LogReceived,
             LogInitialized, LogAdopted, LogIntent, LogAborted, Log, Appends
      <3> QED BY <1>2, <3>1
    <2>4. CASE \/ Archive \/ PublishPolicy \/ PublishOwner \/ Rename \/ CheckpointAdvance
               \/ CheckpointVerify \/ RecoverTransaction \/ RecoverRollback \/ RecoverForward
               \/ Process \/ CheckpointFinish
      <3>1. UNCHANGED <<journal, outstanding>>
        BY <2>4 DEF Archive, PublishPolicy, PublishOwner, Rename, CheckpointAdvance,
             CheckpointVerify, RecoverTransaction, RecoverRollback, RecoverForward, Process,
             CheckpointFinish, journalVars
      <3> QED BY <1>3, <3>1
    <2> QED BY <1>4, <1>6, <2>1, <2>2, <2>3, <2>4, QuietSteps DEF Locked
  <1>7. ASSUME NEW g \in Gens, Executing(g) PROVE Telling'
    <2>1. UNCHANGED <<journal, outstanding>>
      BY <1>7, QuietSteps DEF Executing, CompleteBegin, InterruptBegin, journalVars, Quiet
    <2> QED BY <1>3, <2>1
  <1> QED BY <1>4, <1>5, <1>6, <1>7, QuietSteps DEF Next

-----------------------------------------------------------------------------
(* The files in the inbox.                                                 *)

\* Only a rename takes a file away.
LEMMA SpoolGrows == [Next]_vars /\ ~Rename => spool \subseteq spool'
  BY DEF Next, Command, InitBegin, Rebuild, AdoptBegin, IngestBegin, RecoverBegin, CancelBegin,
         CheckpointBegin, StartBegin, InterruptBegin, CompleteBegin, Locked, InitAppend,
         AdoptAppend, Receive, Process, Archive, PublishPolicy, PublishPolicyRefused, Prepare,
         PublishOwner, Terminal, TerminalRefused, CheckpointIntent, CheckpointAdvance,
         CheckpointVerify, CheckpointRefused, CheckpointFinish, RecoverTransaction,
         RecoverRollback, RecoverAbort, RecoverForward, RecoverRefused, RecoverArtifact,
         RecoverSave, RecoverFailed, Save, Executing, ExecutorLogs, WriteResult, CollectUsage,
         TelemetryFails, ExecutorRaises, WriteFailureLogs, WriteFailure, Replay, UnlockedSave,
         DriverRefused, DriverQuiet, Fault, SaveFails, StartFails, IntentFails, Crash, KillDriver,
         Environment, DropPrompt, EditRepository, CommitRepository, vars, disk

\* ingest goes on with the next file.
LEMMA QueuedIngest ==
    ASSUME Sound, Queued, Receive \/ Process
    PROVE  Queued'
  <1>0. /\ op.pc = "ingest" /\ op.kind = "ingest" /\ outstanding' = {} /\ UNCHANGED spool
        /\ batch \in Batches
    BY DEF Receive, Process, LogReceived, journalVars, disk, Queued, Sound, Flight, Carrying, Typed,
           TypeOK, ProcessTypeOK
  <1>1. \A f, h \in Read : Dropped(f) = Dropped(h) => f = h
    BY <1>0 DEF Read, Dropped, Batches
  <1>2. ASSUME NEW f \in Read, NEW t, NEW pc \in {"prepare", "archive"}, Move(t, pc, "ingest"),
               t.src = Dropped(f), Read' \subseteq Read \ {f}, batch'.todo \cap batch'.parsed = {}
        PROVE  Queued'
    <2>1. op'.tx = t /\ op'.pc = pc /\ op'.next = "ingest" /\ op'.kind = "ingest"
      BY <1>0, <1>2, MoveFields DEF Sound
    <2>2. Dropped(f) \in spool /\ \A h \in Read' : Dropped(h) \in spool /\ Dropped(h) # Dropped(f)
      BY <1>0, <1>1, <1>2 DEF Queued
    <2>3. Pending' = {t} BY <1>0, <2>1 DEF Pending, InHand, TxPCs
    <2> QED BY <1>0, <1>2, <2>1, <2>2, <2>3 DEF Queued, TxPCs, Dropped
  <1>3. CASE Receive
    <2>1. PICK f \in batch.todo :
             IF f[2].gen = 0
             THEN /\ batch' = [batch EXCEPT !.todo = @ \ {f}]
                  /\ Move([Rejection(f[1], f[2]) EXCEPT !.id = NextSeq + 1], "prepare", "ingest")
             ELSE /\ batch' = [batch EXCEPT !.todo = @ \ {f}, !.parsed = @ \cup {f}]
                  /\ UNCHANGED op
      BY <1>3 DEF Receive
    <2>2. batch.todo \cap batch.parsed = {} BY <1>0 DEF Queued
    <2>3. CASE f[2].gen = 0
      <3>1. /\ batch'.todo = batch.todo \ {f} /\ batch'.parsed = batch.parsed
            /\ Move([Rejection(f[1], f[2]) EXCEPT !.id = NextSeq + 1], "prepare", "ingest")
        BY <1>0, <2>1, <2>3 DEF Batches
      <3>2. [Rejection(f[1], f[2]) EXCEPT !.id = NextSeq + 1].src = Dropped(f)
        BY DEF Rejection, Tx, Dropped
      <3>3. f \in Read /\ Read' \subseteq Read \ {f} BY <2>2, <3>1 DEF Read
      <3> QED BY <1>2, <2>2, <3>1, <3>2, <3>3
    <2>4. CASE f[2].gen # 0
      <3>1. /\ batch'.todo = batch.todo \ {f} /\ batch'.parsed = batch.parsed \cup {f}
            /\ UNCHANGED op
        BY <1>0, <2>1, <2>4 DEF Batches
      <3>2. Read' = Read /\ batch'.todo \cap batch'.parsed = {} BY <2>2, <3>1 DEF Read
      <3>3. Pending' = {} BY <1>0, <3>1 DEF Pending, InHand, TxPCs
      <3> QED BY <1>0, <3>1, <3>2, <3>3 DEF Queued, TxPCs, Dropped
    <2> QED BY <2>3, <2>4
  <1>4. CASE Process
    <2>1. PICK f \in batch.parsed :
             /\ batch' = [batch EXCEPT !.parsed = @ \ {f}]
             /\ \/ Move(Tx("PROMPT_ACCEPTED", f[2].gen, f[2], <<"inbox", f[1], f[2]>>,
                          <<"accepted", "canonical", f[2]>>, batch.wit, FALSE, {}),
                       "archive", "ingest")
                \/ Move(Rejection(f[1], f[2]), "prepare", "ingest")
      BY <1>4 DEF Process
    <2>2. batch'.todo = batch.todo /\ batch'.parsed = batch.parsed \ {f} BY <1>0, <2>1 DEF Batches
    <2>3. batch.todo \cap batch.parsed = {} BY <1>0 DEF Queued
    <2>4. f \in Read /\ Read' \subseteq Read \ {f} /\ batch'.todo \cap batch'.parsed = {}
      BY <2>2, <2>3 DEF Read
    <2>5. Rejection(f[1], f[2]).src = Dropped(f) BY DEF Rejection, Tx, Dropped
    <2>6. Tx("PROMPT_ACCEPTED", f[2].gen, f[2], <<"inbox", f[1], f[2]>>,
             <<"accepted", "canonical", f[2]>>, batch.wit, FALSE, {}).src = Dropped(f)
      BY DEF Tx, Dropped
    <2> QED BY <1>2, <2>1, <2>4, <2>5, <2>6
  <1> QED BY <1>3, <1>4

LEMMA QueuedNext ==
    ASSUME Sound, Queued, [Next]_vars
    PROVE  Queued'
  <1>1. ~Rename => spool \subseteq spool' BY SpoolGrows
  <1>2. ASSUME spool \subseteq spool', Pending' \subseteq Pending, op' = Idle \/ UNCHANGED <<op, batch>>
        PROVE  Queued'
    BY <1>2 DEF Queued, Idle, TxPCs, Read, Dropped
  <1>3. CASE \/ Environment \/ Fault \/ Rebuild \/ Save \/ TerminalRefused
             \/ PublishPolicyRefused \/ CheckpointRefused \/ UNCHANGED vars
             \/ RecoverRefused \/ RecoverArtifact \/ RecoverSave \/ RecoverFailed
             \/ \E g \in Gens : \/ ExecutorLogs(g) \/ WriteResult(g) \/ CollectUsage(g)
                                \/ TelemetryFails(g) \/ ExecutorRaises(g) \/ WriteFailureLogs(g)
                                \/ WriteFailure(g) \/ Replay(g) \/ UnlockedSave(g)
                                \/ DriverRefused(g)
    <2>1. op' = Idle \/ UNCHANGED <<op, batch>> BY <1>3, QuietFrame DEF Sound
    <2>2. Pending' \subseteq Pending BY <1>3, QuietSteps, PendingStays
    <2>3. spool \subseteq spool'
      <3>1. Rename => UNCHANGED journalVars /\ op'.pc = "terminal" /\ op.pc = "rename"
        BY GotoType DEF Rename, Sound, Typed, PCs, TxPCs
      <3>2. Quiet BY <1>3, QuietSteps
      <3>3. ~Rename BY <3>1, <3>2 DEF Quiet, Idle
      <3> QED BY <1>1, <3>3
    <2> QED BY <1>2, <2>1, <2>2, <2>3
  <1>4. ASSUME spool \subseteq spool', \A t \in Pending' : t \in Pending \/ t.event \notin Entries,
               op'.kind # "ingest", op'.pc # "ingest",
               op'.next = "ingest" => op'.pc \notin TxPCs \cup {"archive"}
        PROVE  Queued'
    BY <1>4 DEF Queued
  <1>5. ASSUME NEW g \in Gens,
               \/ \E by \in {"operator", "driver"} : CompleteBegin(g, by) \/ InterruptBegin(g, by)
               \/ CancelBegin(g) \/ CheckpointBegin(g) \/ \E b \in BOOLEAN : StartBegin(g, b)
        PROVE  Queued'
    <2>1. /\ UNCHANGED journalVars /\ Settled /\ op'.kind # "ingest"
          /\ \/ op'.pc = "intent"
             \/ op'.pc \in {"prepare", "policy"} /\ op'.next = "save" /\ op'.tx.event \notin Entries
      BY <1>5, BeginSteps DEF Sound, Entries
    <2>2. \A t \in Pending' : t.event \notin Entries
      BY <2>1 DEF Pending, InHand, Settled, journalVars, TxPCs
    <2>3. spool \subseteq spool'
      BY <1>5 DEF CompleteBegin, InterruptBegin, CancelBegin, CheckpointBegin, StartBegin, disk
    <2> QED BY <1>4, <2>1, <2>2, <2>3 DEF TxPCs
  <1>6. CASE InitBegin \/ AdoptBegin \/ RecoverBegin
    <2>1. /\ op'.kind # "ingest" /\ op'.pc # "ingest" /\ op'.next = "idle" /\ spool \subseteq spool'
      BY <1>6 DEF InitBegin, AdoptBegin, RecoverBegin, Hold, Idle, disk
    <2>2. Pending' \subseteq Pending BY <1>6, PendingStays
    <2> QED BY <1>4, <2>1, <2>2
  <1>7. CASE IngestBegin
    <2>1. /\ op'.kind = "ingest" /\ op'.pc = "ingest" /\ outstanding' = {} /\ UNCHANGED spool
          /\ batch'.todo = {<<f[2], f[3]>> : f \in {x \in spool : x[1] = "inbox"}}
          /\ batch'.parsed = {}
      BY <1>7 DEF IngestBegin, Idle, Preflight, Settled, journalVars, disk
    <2>2. Pending' = {} BY <2>1 DEF Pending, InHand, TxPCs
    <2>3. ASSUME NEW f \in spool, f[1] = "inbox" PROVE <<"inbox", f[2], f[3]>> = f
      <3>1. f \in Files BY DEF Sound, Typed, TypeOK, DiskTypeOK
      <3>2. f \in {"inbox"} \X Names \X Prompts BY <2>3, <3>1 DEF Files, LifeDirs
      <3> QED BY <2>3, <3>2
    <2>4. \A f \in Read' : Dropped(f) \in spool BY <2>1, <2>3 DEF Read, Dropped
    <2> QED BY <2>1, <2>2, <2>4 DEF Queued, TxPCs, Dropped
  <1>8. CASE PublishPolicy
    <2>1. op'.kind = "start" /\ op'.pc = "prepare" /\ op'.next = "save"
      BY <1>8, GotoType DEF PublishPolicy, Sound, Typed, PCs, TxPCs, Owning
    <2>2. spool \subseteq spool' BY <1>8 DEF PublishPolicy
    <2>3. Pending' \subseteq Pending BY <1>8, PendingStays
    <2> QED BY <1>4, <2>1, <2>2, <2>3
  <1>9. CASE Archive \/ Prepare \/ PublishOwner \/ Rename
    <2>1. /\ op.pc \in TxPCs \cup {"archive"} /\ op'.pc \in TxPCs /\ op'.tx = op.tx
          /\ op'.next = op.next /\ op'.kind = op.kind /\ UNCHANGED batch
      BY <1>9, GotoType DEF Archive, Prepare, PublishOwner, Rename, Goto, Sound, Typed, PCs, TxPCs
    <2>2. Pending' \subseteq Pending BY <1>9, PendingStays
    <2>3. CASE ~Rename BY <1>1, <2>1, <2>2, <2>3 DEF Queued, Read, Dropped, TxPCs
    <2>4. CASE Rename
      <3>1. Pending = {op.tx} /\ spool' = (spool \ {op.tx.src}) \cup {op.tx.dst}
        BY <2>4 DEF Rename, Pending, InHand, TxPCs, Sound, Flight, Carrying
      <3>2. op.pc # "ingest" /\ op'.pc # "ingest" BY <2>1, <2>4 DEF Rename, TxPCs
      <3> QED BY <2>1, <2>2, <3>1, <3>2 DEF Queued, Read, Dropped, TxPCs
    <2> QED BY <2>3, <2>4
  <1>10. CASE Terminal
    <2>1. /\ op.pc = "terminal" /\ outstanding' = {} /\ op'.pc = op.next /\ op'.next = op.next
          /\ op'.kind = op.kind /\ UNCHANGED <<spool, batch>>
          /\ op.next \in {"idle", "save", "ingest", "finish", "resolve"}
      BY <1>10, AfterTerminal DEF Terminal, Goto, disk, Sound
    <2>2. Pending' = {} BY <2>1 DEF Pending, InHand, TxPCs
    <2> QED BY <2>1, <2>2 DEF Queued, Read, Dropped, TxPCs
  <1>11. CASE \/ InitAppend \/ AdoptAppend \/ CheckpointIntent \/ CheckpointAdvance \/ CheckpointVerify
              \/ RecoverAbort \/ RecoverRollback \/ RecoverForward
    <2>1. op.pc \notin TxPCs \cup {"archive", "ingest"}
      BY <1>11 DEF InitAppend, AdoptAppend, CheckpointIntent, CheckpointAdvance, CheckpointVerify,
           RecoverAbort, RecoverRollback, RecoverForward, Resolving, TxPCs
    <2>2. op.kind # "ingest" BY <2>1 DEF Queued
    <2>3. op'.kind # "ingest"
      <3>1. Locked BY <1>11 DEF Locked
      <3> QED BY <2>2, <3>1, KindStays DEF Idle
    <2>4. op'.pc \in {"save", "advance", "verify", "finish", "abort", "resolve", "idle"}
      <3>1. RecoverForward => op'.pc = "finish"
        BY DEF RecoverForward, Sound, Typed, TypeOK, ProcessTypeOK, Ops
      <3>2. RecoverRollback => op'.pc \in {"abort", "idle"} BY RollbackMoves DEF Sound
      <3> QED BY <1>11, <3>1, <3>2, GotoType
            DEF InitAppend, AdoptAppend, CheckpointIntent, CheckpointAdvance, CheckpointVerify,
                RecoverAbort, Sound, Typed, PCs, TxPCs
    <2>5. spool \subseteq spool'
      BY <1>11 DEF InitAppend, AdoptAppend, CheckpointIntent, CheckpointAdvance, CheckpointVerify,
           RecoverAbort, RecoverRollback, RecoverForward, disk
    <2>6. Pending' \subseteq Pending BY <1>11, PendingStays
    <2> QED BY <1>4, <2>3, <2>4, <2>5, <2>6 DEF TxPCs
  <1>12. CASE CheckpointFinish
    <2>1. /\ op.kind # "ingest" /\ UNCHANGED spool /\ UNCHANGED journalVars
      BY <1>12 DEF CheckpointFinish, Queued, TxPCs, disk
    <2>2. PICK t, next : /\ t.event \notin Entries /\ next # "ingest"
                         /\ Move(t, "prepare", next)
      BY <1>12 DEF CheckpointFinish, MoveTx, Tx, Entries
    <2>3. op'.tx = t /\ op'.pc = "prepare" /\ op'.next = next /\ op'.kind = op.kind
      BY <2>2, MoveFields DEF Sound
    <2>4. \A u \in Pending' : u \in Pending \/ u.event \notin Entries
      BY <2>1, <2>2, <2>3 DEF Pending, InHand, journalVars
    <2> QED BY <1>4, <2>1, <2>2, <2>3, <2>4
  <1>13. CASE RecoverTransaction
    <2>1. op.kind # "ingest" /\ UNCHANGED spool
      BY <1>13 DEF RecoverTransaction, Resolving, Queued, TxPCs, disk
    <2>2. PICK t \in outstanding, pc \in {"owner", "rename", "terminal"} : Move(t, pc, "resolve")
      BY <1>13 DEF RecoverTransaction
    <2>3. op'.kind = op.kind /\ op'.pc = pc /\ op'.next = "resolve" BY <2>2, MoveFields DEF Sound
    <2>4. Pending' \subseteq Pending BY <1>13, PendingStays
    <2> QED BY <1>4, <2>1, <2>2, <2>3, <2>4
  <1>14. CASE Receive \/ Process BY <1>14, QueuedIngest
  <1>15. CASE Command BY <1>3, <1>5, <1>6, <1>7, <1>15 DEF Command
  <1>16. CASE Locked
    BY <1>3, <1>8, <1>9, <1>10, <1>11, <1>12, <1>13, <1>14, <1>16 DEF Locked
  <1>17. ASSUME NEW g \in Gens, Executing(g) PROVE Queued'
    BY <1>3, <1>5, <1>17 DEF Executing
  <1> QED BY <1>3, <1>15, <1>16, <1>17 DEF Next

-----------------------------------------------------------------------------
(* What recover and rebuild accept, and what they leave.                   *)

LEMMA MendableInit == Init => Mendable
  <1> SUFFICES ASSUME Init PROVE Mendable OBVIOUS
  <1> USE DEF Init, JournalInit
  <1>1. Pending = {} BY DEF Pending, InHand, Idle, TxPCs
  <1> QED BY <1>1
        DEF Mendable, Trailing, Telling, Entering, Queued, Crossing, Recovering, Idle, TxPCs

LEMMA AlwaysMendable == Spec => []Mendable
  <1>1. Sound /\ Kept /\ Mendable /\ [Next]_vars => Mendable'
    BY TrailingNext, QueuedNext, CrossingNext, RecoveringNext DEF Mendable
  <1> QED BY <1>1, MendableInit, AlwaysSound, AlwaysKept, PTL DEF Spec

\* rebuild has something to do, and is not refused.
RebuildAccepts == journal # <<>> /\ Settled /\ SpoolOK /\ cached # Len(journal)

\* Once nothing is unresolved, the spool is refused for an orphan or for the reports of a run.
LEMMA RefusedSpool ==
    ASSUME Sound, Kept, Settled, ~SpoolOK, ~OrphanFile, ~EndedByHand
    PROVE  \E g \in owned : ~ReportsOK(g)
  <1>1. PICK g \in Gens : ~ReportsOK(g) BY SettledHomes DEF SpoolOK, OrphanFile
  <1>2. g \in owned
    <2> SUFFICES ASSUME g \notin owned PROVE FALSE OBVIOUS
    <2>1. claim[g] = "unsupported" BY <1>1 DEF ReportsOK, OrphanFile
    <2>2. driver[g] = "none" BY DEF Kept, Unstarted
    <2> QED BY <1>1, <2>1, <2>2 DEF EndedByHand, UnfoundedEnd, ByHand
  <1> QED BY <1>1, <1>2

LEMMA BlankSpool ==
    ASSUME Sound, Kept, Blank
    PROVE  SpoolOK
  <1>1. owned = {}
    BY DEF Blank, Known, Sound, Owning, Typed, TypeOK, JournalTypeOK
  <1>2. \A g \in Gens : ReportsOK(g)
    <2>1. \A g \in Gens : claim[g] = "none" BY DEF Blank, Known, Kept, Reported
    <2> QED BY <1>1, <2>1 DEF Blank, ReportsOK
  <1>3. archive = {prompt[g] : g \in Known} BY DEF Blank
  <1>4. Settled BY DEF Blank
  <1> QED BY <1>2, <1>3, <1>4, SettledHomes DEF SpoolOK

LEMMA Repairable ==
    ASSUME Sound, Kept, Ending, Mendable, Free, journal # <<>>, ~DeadEnd, ~RecoverAccepts
    PROVE  RebuildAccepts
  <1>0. Len(journal) \in Nat \ {0} /\ LastEvent \in Events /\ cached \in Nat
    BY DEF LastEvent, Sound, Typed, TypeOK, JournalTypeOK, DiskTypeOK
  <1>1. cached = 0 => Blank BY DEF Ending, Grounded
  <1>2. Settled
    <2> SUFFICES ASSUME ~Settled PROVE FALSE OBVIOUS
    <2>1. cached = FirstUnresolved - 1 BY DEF DeadEnd, UnresolvedOutOfReach
    <2>2. cached = 0 BY <2>1 DEF RecoverAccepts
    <2> QED BY <1>1, <2>2 DEF Blank
  <1>3. CASE cached = 0
    <2>1. SpoolOK BY <1>1, <1>3, BlankSpool
    <2> QED BY <1>0, <1>2, <1>3, <2>1 DEF RebuildAccepts
  <1>4. CASE cached # 0
    <2>1. ~Fresh /\ ~LagsOneTransition BY <1>2, <1>4 DEF RecoverAccepts
    <2>2. cached # Len(journal) BY <1>4, <2>1 DEF Fresh
    <2>3. SpoolOK
      <3> SUFFICES ASSUME ~SpoolOK PROVE FALSE OBVIOUS
      <3>1. PICK g \in owned : ~ReportsOK(g) BY <1>2, RefusedSpool DEF DeadEnd
      <3>2. ~ArtifactConflict /\ ~FarBehind BY <3>1 DEF DeadEnd, ArtifactsLost
      <3>3. cached = LastEvent.id - 1 BY <2>2, <3>2 DEF FarBehind, LastEvent
      <3>4. LastEvent.event \in Transitions
        <4>1. LastEvent.id # 0 BY <1>0, <3>3
        <4>2. outstanding = {} BY <1>2 DEF Settled
        <4> QED BY <4>1, <4>2 DEF Mendable, Trailing, Telling
      <3>5. LastEvent.event \in Entries
        BY <2>1, <3>3, <3>4 DEF LagsOneTransition, LastEvent, Transitions, Entries
      <3>6. Entering BY <3>5 DEF Entering
      <3> QED BY <3>1, <3>2, <3>6 DEF Mendable, Trailing, ReportsKnown
    <2> QED BY <1>2, <2>2, <2>3 DEF RebuildAccepts
  <1> QED BY <1>3, <1>4

\* Outside the dead ends no one is left without a command that helps: whatever has crashed, failed
\* or been edited, once the lock is free recover's checks of state.json pass, or rebuild's do.  The
\* operator whom _preflight refuses is never refused by both of them.
THEOREM RepairPossible ==
    Spec => [](Free /\ journal # <<>> => DeadEnd \/ RecoverAccepts \/ RebuildAccepts)
  <1>1. Sound /\ Kept /\ Ending /\ Mendable =>
           (Free /\ journal # <<>> => DeadEnd \/ RecoverAccepts \/ RebuildAccepts)
    BY Repairable
  <1> QED BY <1>1, AlwaysSound, AlwaysKept, AlwaysEnding, AlwaysMendable, PTL

-----------------------------------------------------------------------------

\* A fault is counted.
LEMMA FaultsRaise ==
    ASSUME Typed, Fault
    PROVE  used'.faults # used.faults
  <1>0. used \in [commits : Nat, drops : Nat, faults : Nat] BY DEF Typed, TypeOK
  <1>1. used' = [used EXCEPT !.faults = used.faults + 1]
    BY DEF Fault, SaveFails, StartFails, IntentFails, Crash, KillDriver, Count
  <1> QED BY <1>0, <1>1

\* How recover gives the lock back, unless it is killed.
LEMMA RecoverReturns ==
    ASSUME Sound, Recovering, [Next]_vars, ~Fault, op.kind = "recover", Free'
    PROVE  \/ TerminalRefused \/ RecoverRefused \/ RecoverSave \/ RecoverFailed
           \/ RecoverRollback /\ Release("error")
  <1>0. op' = Idle /\ op # Idle /\ ~Free BY DEF Free, Idle
  <1>1. op.pc \in TxPCs \cup {"resolve", "abort", "finish"} /\ op.kind = "recover"
    BY DEF Recovering
  <1>2. CASE Command
    BY <1>0, <1>2 DEF Command, InitBegin, Rebuild, AdoptBegin, IngestBegin, RecoverBegin, CancelBegin,
         CheckpointBegin, StartBegin, InterruptBegin, CompleteBegin, CanInterrupt, CanComplete, Hold,
         BeginMove
  <1>3. ASSUME NEW g \in Gens, Executing(g) PROVE FALSE
    BY <1>0, <1>3 DEF Executing, ExecutorLogs, WriteResult, CollectUsage, TelemetryFails,
         ExecutorRaises, WriteFailureLogs, WriteFailure, Replay, UnlockedSave, DriverRefused,
         DriverQuiet, CompleteBegin, InterruptBegin, BeginMove
  <1>4. CASE Environment \/ UNCHANGED vars
    BY <1>0, <1>4 DEF Environment, DropPrompt, EditRepository, CommitRepository, process, vars
  <1>5. ASSUME NEW pc \in PCs \ {"idle"}, Goto(pc) PROVE FALSE
    BY <1>0, <1>5, GotoType DEF Sound, Typed, Idle
  <1>6. ASSUME NEW t, NEW pc, NEW next, Move(t, pc, next), pc # "idle" PROVE FALSE
    BY <1>0, <1>6, MoveFields DEF Sound, Idle
  <1>7. CASE Locked
    <2>1. CASE Prepare \/ PublishOwner \/ Rename \/ RecoverAbort
      BY <1>5, <2>1 DEF Prepare, PublishOwner, Rename, RecoverAbort, PCs, TxPCs
    <2>2. CASE Terminal
      <3>1. op'.pc = op.next /\ op.pc \in TxPCs BY <2>2, AfterTerminal DEF Sound, Terminal, TxPCs
      <3> QED BY <1>0, <3>1 DEF Recovering, Idle
    <2>3. CASE CheckpointFinish
      <3>1. \E t, next : Move(t, "prepare", next) BY <2>3 DEF CheckpointFinish
      <3> QED BY <1>6, <3>1
    <2>4. CASE RecoverTransaction
      <3>1. \E t \in outstanding, pc \in {"owner", "rename", "terminal"} : Move(t, pc, "resolve")
        BY <2>4 DEF RecoverTransaction
      <3> QED BY <1>6, <3>1
    <2>5. CASE RecoverForward
      <3>1. op'.pc = "finish" BY <2>5 DEF RecoverForward, Sound, Typed, TypeOK, ProcessTypeOK, Ops
      <3> QED BY <1>0, <3>1 DEF Idle
    <2>6. CASE RecoverRollback
      <3>1. op \in Ops BY DEF Sound, Typed, TypeOK, ProcessTypeOK
      <3> QED BY <1>0, <2>6, <3>1 DEF RecoverRollback, Ops, Idle
    <2>7. CASE RecoverArtifact BY <1>0, <2>7 DEF RecoverArtifact, process
    <2> QED BY <1>1, <1>7, <2>1, <2>2, <2>3, <2>4, <2>5, <2>6, <2>7
         DEF Locked, InitAppend, AdoptAppend, Receive, Process, Archive, PublishPolicy,
             PublishPolicyRefused, CheckpointIntent, CheckpointAdvance, CheckpointVerify,
             CheckpointRefused, Save, Saving, TxPCs
  <1> QED BY <1>2, <1>3, <1>4, <1>7 DEF Next

\* Of a transaction's files at least one is there.
LEMMA OneCopy ==
    ASSUME Sound, Queued, NEW t \in outstanding
    PROVE  t.src \in spool \/ t.dst \in spool
  <1>1. CASE t.event \in Entries BY <1>1 DEF Queued, Pending
  <1>2. CASE t.event \notin Entries
    <2>1. FilesOf(t.prompt) = {t.src} \/ FilesOf(t.prompt) = {t.dst}
      BY <1>2, FilesUnderWay DEF Entries, Sound, Filing
    <2> QED BY <2>1 DEF FilesOf, PromptFiles
  <1> QED BY <1>1, <1>2

LEMMA RefusedRecover ==
    ASSUME Sound, Queued, Crossing, RecoverRefused
    PROVE  DeadEnd'
  <1>0. UNCHANGED <<journalVars, spool, repo>> BY DEF RecoverRefused, disk, work
  <1>1. ASSUME NEW t \in outstanding, ~Resolvable(t) PROVE TwoCopies'
    <2>1. t.event = "RUN_STARTED" => Running = {} BY DEF Sound, Starting
    <2>2. {t.src, t.dst} \subseteq spool BY <1>1, <2>1, OneCopy DEF Resolvable
    <2> QED BY <1>0, <2>2 DEF TwoCopies, journalVars
  <1>2. ASSUME NEW i \in intents, outstanding = {},
               IF repo.head = i.parent THEN status[i.gen] # "ACCEPTED" ELSE ~Finishable(i)
        PROVE  RepositoryMoved'
    <2>1. CASE repo.head = i.parent
      <3>1. <<i.commit, i.gen>> \in landed BY <1>2, <2>1 DEF Crossing
      <3>2. i.commit <= repo.head /\ i.parent < i.commit
        BY <3>1 DEF Sound, Recorded, Landed, Attributed
      <3> QED BY <2>1, <3>2, Numbers DEF Sound
    <2>2. CASE repo.head # i.parent
      <3>1. ~Finishable(i)' BY <1>0, <1>2, <2>2 DEF Finishable, Running, journalVars, records
      <3>2. repo'.head \notin {i.parent, i.commit} \/ (repo'.head = i.commit /\ ~Finishable(i)')
        BY <1>0, <2>2, <3>1
      <3>3. i \in intents' BY <1>0 DEF journalVars
      <3> QED BY <3>2, <3>3 DEF RepositoryMoved
    <2> QED BY <2>1, <2>2
  <1> QED BY <1>1, <1>2 DEF RecoverRefused, DeadEnd

\* A run was ended by complete-run, and its executor has still to write the reports it takes.
StillReporting == \E g \in Gens : UnfoundedEnd(g) /\ driver[g] # "none"

\* recover has come to the end of what is unresolved, and does not save.
LEMMA FailedRecover ==
    ASSUME Sound, Kept, Grounded, op.kind = "recover", RecoverFailed
    PROVE  (Preflight \/ DeadEnd \/ RebuildAccepts \/ StillReporting)'
  <1>0. UNCHANGED <<journalVars, disk, cached>> /\ Settled BY DEF RecoverFailed
  <1>1. journal # <<>> /\ cached # 0 BY DEF Grounded, Blank
  <1>2. UNCHANGED <<Known, Settled, ArtifactConflict, OrphanFile, FarBehind, Fresh>>
        /\ \A g \in Gens : UNCHANGED <<ReportsOK(g), Home(g)>>
    BY <1>0 DEF Known, Settled, ArtifactConflict, Fallbacks, OrphanFile, FarBehind, Fresh, ReportsOK,
         Home, journalVars, records, disk
  <1>3. SpoolOK' = SpoolOK
    BY <1>0, <1>2 DEF SpoolOK, Known, journalVars, records, disk
  <1>4. CASE SpoolOK
    BY <1>0, <1>1, <1>2, <1>3, <1>4 DEF Preflight, RebuildAccepts, Fresh, Settled, journalVars
  <1>5. CASE ~SpoolOK
    <2>1. CASE OrphanFile BY <1>2, <2>1 DEF DeadEnd
    <2>2. CASE ~OrphanFile
      <3>1. CASE \E g \in Gens : UnfoundedEnd(g)
        <4>1. PICK g \in Gens : UnfoundedEnd(g)' BY <1>0, <1>2, <3>1 DEF UnfoundedEnd, journalVars, records
        <4> QED BY <4>1 DEF StillReporting, EndedByHand, DeadEnd
      <3>2. CASE ~\E g \in Gens : UnfoundedEnd(g)
        <4>1. PICK g \in owned : ~ReportsOK(g)
          BY <1>0, <1>5, <2>2, <3>2, RefusedSpool DEF EndedByHand
        <4>2. g \in Gens BY DEF Sound, Typed, TypeOK, JournalTypeOK
        <4>3. ArtifactConflict
          BY <3>2, <4>1, <4>2, RecoveredReports DEF RecoverFailed, UnfoundedEnd
        <4>4. ArtifactsLost' BY <1>0, <1>2, <4>1, <4>2, <4>3 DEF ArtifactsLost, journalVars, records
        <4> QED BY <4>4 DEF DeadEnd
      <3> QED BY <3>1, <3>2
    <2> QED BY <2>1, <2>2
  <1> QED BY <1>4, <1>5

LEMMA RecoverEnds ==
    ASSUME Sound, Kept, Ending, Mendable, [Next]_vars,
           op.kind = "recover", Free', used'.faults = used.faults
    PROVE  (Preflight \/ DeadEnd \/ RebuildAccepts \/ StillReporting)'
  <1>1. CASE TerminalRefused
    <2>1. op.pc = "terminal" /\ ~Admissible(op.tx) /\ UNCHANGED journalVars
      BY <1>1 DEF TerminalRefused
    <2>2. op.tx \in outstanding /\ RefusedForGood(op.tx)
      BY <2>1 DEF Sound, RefusedOnlyWhenTyped, Flight, Carrying
    <2>3. CompletionRefused' BY <2>1, <2>2 DEF CompletionRefused, RefusedForGood, journalVars
    <2> QED BY <2>3 DEF DeadEnd
  <1>2. CASE RecoverRefused BY <1>2, RefusedRecover DEF Mendable
  <1>3. CASE RecoverSave
    <2>1. Len(journal) # 0
      <3>1. journal # <<>> BY DEF Ending, Grounded, Blank
      <3> QED BY <3>1 DEF Sound, Typed, TypeOK, JournalTypeOK
    <2>2. UNCHANGED <<journalVars, disk>> /\ cached' = Len(journal) /\ Settled /\ SpoolOK
      BY <1>3 DEF RecoverSave
    <2>3. SpoolOK'
      BY <2>2 DEF SpoolOK, Known, Home, ReportsOK, journalVars, records, disk
    <2> QED BY <2>1, <2>2, <2>3 DEF Preflight, Fresh, Settled, journalVars
  <1>4. CASE RecoverFailed BY <1>4, FailedRecover DEF Ending
  <1>5. CASE RecoverRollback /\ Release("error")
    <2>1. op' = Idle BY <1>5 DEF Release
    <2>2. op \in Ops /\ repo \in Witnesses BY DEF Sound, Typed, TypeOK, ProcessTypeOK
    <2>3. PICK i \in intents : /\ repo.head = i.parent /\ repo' = [repo EXCEPT !.index = 0]
                               /\ repo' # i.wit /\ UNCHANGED journalVars
      BY <1>5, <2>1, <2>2 DEF RecoverRollback, Ops, Idle
    <2>4. repo'.head = i.parent /\ [repo' EXCEPT !.index = 0] # i.wit
      BY <2>2, <2>3 DEF Witnesses
    <2> QED BY <2>3, <2>4 DEF RepositoryMoved, DeadEnd, journalVars
  <1> QED BY <1>1, <1>2, <1>3, <1>4, <1>5, RecoverReturns, FaultsRaise DEF Sound, Mendable

\* rebuild leaves what the next command accepts.
LEMMA RebuildEnds ==
    ASSUME Sound, Rebuild
    PROVE  Preflight'
  <1>1. Len(journal) # 0 BY DEF Rebuild, Sound, Typed, TypeOK, JournalTypeOK
  <1>2. SpoolOK' BY DEF Rebuild, SpoolOK, Known, Home, ReportsOK, journalVars, records, disk
  <1> QED BY <1>1, <1>2 DEF Rebuild, Preflight, Fresh, Settled, journalVars

\* However recover ends, unless it is killed, it has repaired the workflow, or left it where rebuild
\* repairs it, or come upon a dead end: it refuses in a dead end (a transaction it cannot resolve, a
\* checkpoint it can neither roll back nor finish, a report it may not overwrite, a terminal event
\* that replay refuses), or while the executor of a run that complete-run ended still owes its
\* reports.  And rebuild leaves what the next command accepts.
RepairEndsWell ==
    [][/\ op.kind = "recover" /\ Free' /\ used'.faults = used.faults =>
             (Preflight \/ DeadEnd \/ RebuildAccepts \/ StillReporting)'
       /\ Rebuild => Preflight']_vars

\* Recover and rebuild keep that promise, after any faults and for every set of prompts and bound.
THEOREM RepairEndsWellCorrect == Spec => RepairEndsWell
  <1>1. ASSUME Sound, Kept, Ending, Mendable, [Next]_vars
        PROVE  [/\ op.kind = "recover" /\ Free' /\ used'.faults = used.faults =>
                      (Preflight \/ DeadEnd \/ RebuildAccepts \/ StillReporting)'
                /\ Rebuild => Preflight']_vars
    BY <1>1, RecoverEnds, RebuildEnds
  <1> QED BY <1>1, AlwaysSound, AlwaysKept, AlwaysEnding, AlwaysMendable, PTL
       DEF Spec, RepairEndsWell
=============================================================================
