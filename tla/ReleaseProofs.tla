--------------------------- MODULE ReleaseProofs ---------------------------
(***************************************************************************)
(* What releases keep, for every repository, every set of operators and    *)
(* however many commands they run side by side.                            *)
(***************************************************************************)
EXTENDS ReleaseProperties, TLAPS

-----------------------------------------------------------------------------
(* What a command has read when it is at a step.                           *)

Preparing == {"making", "copying", "writing", "checking", "removing"}
Building == {"locking", "compiling", "built", "verifying", "restoring", "rechecking"}
Installing == {"tree", "archiving", "publishing", "installed"}
Activating == {"linking", "stating", "launching"}
Verifying == {"resolving", "reading", "running"}

Carried(p) ==
    /\ p.pc \in {"adding", "added"} => p.cmd = "reconstruct"
    /\ p.pc \in Building => p.cmd = "build"
    /\ p.pc \in Preparing => p.cmd = "prepare" /\ p.name \in Names /\ p.digest \in Digests
    /\ p.pc = "qualifying" => p.cmd \in {"preflight", "install", "promote"} /\ p.head \in Commits
    /\ p.pc \in Installing =>
          p.cmd = "install" /\ p.head \in Commits /\ p.name \in Names /\ p.digest \in Digests
    /\ p.pc \in {"archiving", "publishing"} => p.tree \in Commits
    /\ p.pc = "publishing" => p.source \in Commits
    /\ p.pc \in Activating => p.cmd = "activate" /\ p.head \in Commits /\ p.name \in Names
    /\ p.pc \in Verifying => p.cmd = "verify" /\ p.head \in Commits
    /\ p.pc \in {"witness", "adopting"} => p.cmd = "promote"
    /\ p.pc = "adopting" => <<p.tree, p.source>> \in Descends
    /\ p.pc = "cutover" => p.cmd \in {"promote", "cutover"}

Typed == TypeOK /\ \A o \in Operators : Carried(proc[o])

\* The two halves of Typed: the processes, and what they share.
ProcsOK == proc \in [Operators -> Processes] /\ \A o \in Operators : Carried(proc[o])
RepoOK == repo \in [head : Commits, policy : Digests, edited : BOOLEAN]
WorktreeOK ==
    /\ worktree \in [at : {None, "final", "other"}, lock : Locks, edited : BOOLEAN]
    /\ target \in Digests \cup {None}
RuntimeOK ==
    /\ runtime \in [Names -> Digests \cup {None, Partial}]
    /\ shell \in [Operators -> Names] /\ printed \subseteq Names
UsedOK == used \in [acts : 0..MaxActs, contested : SUBSET Names]
InstallationOK ==
    /\ controllers \in [Commits -> Releases \cup {NoRelease}]
    /\ link \in Commits \cup {None}
    /\ active \in [head : Commits, name : Names] \cup {NoController}
    /\ launcher \in {"none", "foreign", "managed"}
    /\ boundary \in Commits

LEMMA TypedParts ==
    Typed <=> ProcsOK /\ RepoOK /\ WorktreeOK /\ RuntimeOK /\ UsedOK /\ InstallationOK
BY DEF Typed, TypeOK, ProcsOK, RepoOK, WorktreeOK, RuntimeOK, UsedOK, InstallationOK

LEMMA TypedPartsNext ==
    ProcsOK' /\ RepoOK' /\ WorktreeOK' /\ RuntimeOK' /\ UsedOK' /\ InstallationOK' => Typed'
BY DEF Typed, TypeOK, ProcsOK, RepoOK, WorktreeOK, RuntimeOK, UsedOK, InstallationOK

LEMMA Worktrees ==
    {NoWorktree, Reconstructed} \subseteq [at : {None, "final", "other"}, lock : Locks, edited : BOOLEAN]
BY DEF Reconstructed, NoWorktree, Locks

USE DEF Preparing, Building, Installing, Activating, Verifying

\* What others change is all that is written into a process from outside.
LEMMA TouchTyped ==
    ASSUME NEW q \in Operators, NEW what, Typed
    PROVE  Touch(what, q) \in Processes /\ Carried(Touch(what, q))
<1> DEFINE seen == proc[q].seen \cup (what \cap Reads(proc[q].cmd))
<1>1. proc[q] \in Processes /\ Carried(proc[q])
  BY DEF Typed, TypeOK
<1>2. Reads(proc[q].cmd) \in SUBSET {"repo", "worktree", "active"}
  BY DEF Reads
<1>3. seen \in SUBSET {"repo", "worktree", "active"}
  BY <1>1, <1>2 DEF Processes
<1>4. Touch(what, q) = [proc[q] EXCEPT !.seen = seen]
  BY DEF Touch
<1> HIDE DEF seen
<1>5. Touch(what, q) \in Processes
  BY <1>1, <1>3, <1>4 DEF Processes
<1>6. Carried([proc[q] EXCEPT !.seen = seen])
  BY <1>1 DEF Processes, Carried
<1> QED
  BY <1>4, <1>5, <1>6

\* A command's own step and what it makes the others see keep every process well typed.
LEMMA StepTyped ==
    ASSUME NEW o \in Operators, NEW new \in Processes, NEW what,
           Typed, Carried(new), Step(o, new) \/ StepTouching(o, new, what)
    PROVE  ProcsOK'
<1>1. CASE Step(o, new)
  BY <1>1 DEF Step, Typed, TypeOK, ProcsOK
<1>2. CASE StepTouching(o, new, what)
  BY <1>2, TouchTyped DEF StepTouching, ProcsOK
<1> QED
  BY <1>1, <1>2

LEMMA MoveTyped ==
    ASSUME NEW what, Typed, Move(what)
    PROVE  ProcsOK' /\ UsedOK'
<1>1. UsedOK'
  BY ReleaseAssumption DEF Move, Typed, TypeOK, UsedOK
<1> QED
  BY <1>1, TouchTyped DEF Move, ProcsOK

\* Steps at which a command only goes on: what it carries serves the next one too.
Follows ==
    {<<"adding", "added">>, <<"added", "pass">>, <<"compiling", "built">>, <<"compiling", "restoring">>,
     <<"built", "verifying">>, <<"built", "restoring">>, <<"verifying", "restoring">>,
     <<"restoring", "rechecking">>, <<"rechecking", "pass">>, <<"making", "removing">>,
     <<"copying", "writing">>, <<"writing", "checking">>, <<"checking", "pass">>, <<"copying", "removing">>,
     <<"writing", "removing">>, <<"checking", "removing">>, <<"publishing", "installed">>,
     <<"installed", "pass">>, <<"linking", "stating">>, <<"stating", "launching">>, <<"launching", "pass">>,
     <<"resolving", "reading">>, <<"reading", "running">>, <<"running", "pass">>,
     <<"adopting", "cutover">>, <<"cutover", "pass">>}

LEMMA FollowsTyped ==
    ASSUME NEW o \in Operators, NEW pc, Typed, <<proc[o].pc, pc>> \in Follows
    PROVE  [proc[o] EXCEPT !.pc = pc] \in Processes /\ Carried([proc[o] EXCEPT !.pc = pc])
<1>1. proc[o] \in Processes /\ Carried(proc[o])
  BY DEF Typed, TypeOK
<1>2. pc \in Steps
  BY DEF Follows, Steps, FailsAt
<1>3. [proc[o] EXCEPT !.pc = pc] \in Processes
  BY <1>1, <1>2 DEF Processes
<1> QED
  BY <1>1, <1>3 DEF Processes, Carried, Follows

LEMMA GoTyped ==
    ASSUME NEW o \in Operators, NEW pc, NEW what, Typed, <<proc[o].pc, pc>> \in Follows,
           Go(o, pc) \/ StepTouching(o, [proc[o] EXCEPT !.pc = pc], what)
    PROVE  ProcsOK'
BY FollowsTyped, StepTyped DEF Go

LEMMA FailTyped ==
    ASSUME NEW o \in Operators, NEW what, Typed, Fail(o) \/ StepTouching(o, Idle, what)
    PROVE  ProcsOK'
<1>1. Idle \in Processes /\ Carried(Idle)
  BY DEF Idle, Processes, Carried, Commands, Steps, FailsAt, Locks
<1> QED
  BY <1>1, StepTyped DEF Fail

LEMMA BeginTyped ==
    ASSUME NEW o \in Operators, NEW new \in Processes, Typed, Carried(new), Begin(o, new)
    PROVE  ProcsOK' /\ UsedOK'
<1>1. UsedOK'
  BY ReleaseAssumption DEF Begin, Typed, TypeOK, UsedOK
<1> QED
  BY <1>1, StepTyped DEF Begin

\* Where the processes of reconstruct_source, build_runtime and prepare_runtime go.
LEMMA RuntimeProcs ==
    ASSUME NEW o \in Operators, Typed, RuntimeStep(o)
    PROVE  ProcsOK'
<1> USE DEF Commands, Steps, FailsAt, Locks
<1>a. proc[o] \in Processes /\ Carried(proc[o])
  BY DEF Typed, TypeOK
<1>1. CASE AddWorktree(o) \/ CheckWorktree(o) \/ Compile(o) \/ CompileFails(o) \/ CheckBuilt(o)
  BY <1>1, GoTyped DEF AddWorktree, CheckWorktree, Compile, CompileFails, CheckBuilt, Go, Pass, At, Follows
<1>2. CASE BuildFails(o) \/ MakeFails(o) \/ CopyRuntime(o) \/ CheckPolicy(o) \/ PrepareFails(o)
  BY <1>2, GoTyped DEF BuildFails, MakeFails, CopyRuntime, CheckPolicy, PrepareFails, Go, Pass, At, Follows
<1>3. CASE RestoreLock(o) \/ RecheckWorktree(o)
  <2>1. CASE RestoreLock(o)
    <3>1. PICK what : StepTouching(o, Idle, what) \/ StepTouching(o, [proc[o] EXCEPT !.pc = "rechecking"], what)
      BY <2>1 DEF RestoreLock
    <3>2. <<proc[o].pc, "rechecking">> \in Follows
      BY <2>1 DEF RestoreLock, At, Follows
    <3> QED
      BY <3>1, <3>2, GoTyped, FailTyped
  <2>2. CASE RecheckWorktree(o)
    BY <2>2, GoTyped, FailTyped DEF RecheckWorktree, Pass, At, Follows
  <2> QED
    BY <1>3, <2>1, <2>2
<1>4. CASE RemoveWorktree(o) \/ RemoveRelease(o) \/ Crash(o) \/ Return(o) \/ Fails(o)
  BY <1>4, FailTyped DEF RemoveWorktree, RemoveRelease, Crash, Return, Fails
<1>5. CASE WritePolicy(o)
  BY <1>5, FollowsTyped, StepTyped DEF WritePolicy, At, Follows
<1>6. CASE ReconstructBegin(o)
  <2> DEFINE new == [Idle EXCEPT !.cmd = "reconstruct", !.pc = "adding"]
  <2>1. new \in Processes /\ Carried(new)
    BY DEF Idle, Processes, Carried
  <2> QED
    BY <1>6, <2>1, BeginTyped DEF ReconstructBegin
<1>7. CASE BuildBegin(o)
  <2> DEFINE new == [Idle EXCEPT !.cmd = "build", !.pc = "locking"]
  <2>1. new \in Processes /\ Carried(new)
    BY DEF Idle, Processes, Carried
  <2> QED
    BY <1>7, <2>1, BeginTyped DEF BuildBegin
<1>8. ASSUME NEW n \in Names, PrepareBegin(o, n) PROVE ProcsOK'
  <2> DEFINE new == [Idle EXCEPT !.cmd = "prepare", !.pc = "making", !.name = n, !.digest = target]
  <2>1. target \in Digests
    BY <1>8 DEF PrepareBegin, Typed, TypeOK
  <2>2. new \in Processes /\ Carried(new)
    BY <2>1 DEF Idle, Processes, Carried
  <2> QED
    BY <1>8, <2>2, BeginTyped DEF PrepareBegin
<1>9. CASE ReadLock(o)
  <2> DEFINE new == [proc[o] EXCEPT !.lock = worktree.lock, !.pc = "compiling"]
  <2>a. proc[o].pc = "locking" /\ proc[o].cmd = "build" /\ worktree.lock \in Locks
    BY <1>9, <1>a DEF ReadLock, At, Typed, TypeOK, Carried
  <2>b. new \in Processes
    BY <1>a, <2>a DEF Processes
  <2>c. Carried(new)
    BY <1>a, <2>a DEF Processes, Carried
  <2>1. new \in Processes /\ Carried(new)
    BY <2>b, <2>c
  <2> QED
    BY <1>9, <2>1, StepTyped DEF ReadLock
<1>10. CASE VerifyCandidate(o)
  <2> DEFINE new == [proc[o] EXCEPT !.digest = target, !.pc = "restoring"]
  <2>a. proc[o].pc = "verifying" /\ proc[o].cmd = "build" /\ target \in Digests
    BY <1>10, <1>a DEF VerifyCandidate, At, Typed, TypeOK, Carried
  <2>b. new \in Processes
    BY <1>a, <2>a DEF Processes
  <2>c. Carried(new)
    BY <1>a, <2>a DEF Processes, Carried
  <2>1. new \in Processes /\ Carried(new)
    BY <2>b, <2>c
  <2> QED
    BY <1>10, <2>1, StepTyped DEF VerifyCandidate
<1>11. CASE MakeRelease(o)
  <2> DEFINE new == [proc[o] EXCEPT !.pc = "copying", !.made = TRUE]
  <2>a. proc[o].pc = "making" /\ proc[o].cmd = "prepare" /\ proc[o].name \in Names /\ proc[o].digest \in Digests
    BY <1>11, <1>a DEF MakeRelease, At, Carried
  <2>b. new \in Processes
    <3>1. "copying" \in Steps
      OBVIOUS
    <3> HIDE DEF Steps, FailsAt, Commands, Locks
    <3> QED
      BY <1>a, <3>1 DEF Processes
  <2>c. /\ new.pc = "copying" /\ new.cmd = "prepare"
        /\ new.name = proc[o].name /\ new.digest = proc[o].digest
    BY <1>a, <2>a DEF Processes
  <2> HIDE DEF new
  <2>d. Carried(new)
    BY <2>a, <2>c DEF Carried
  <2>1. new \in Processes /\ Carried(new)
    BY <2>b, <2>d
  <2>2. Step(o, new)
    BY <1>11 DEF MakeRelease, new
  <2> QED
    BY <2>1, <2>2, StepTyped
<1>12. ASSUME NEW n \in Names, Export(o, n) PROVE ProcsOK'
  BY <1>12 DEF Export, Typed, TypeOK, ProcsOK
<1> QED
  BY <1>1, <1>2, <1>3, <1>4, <1>5, <1>6, <1>7, <1>8, <1>9, <1>10, <1>11, <1>12 DEF RuntimeStep

\* Where the processes of the other commands go.
LEMMA ControllerProcs ==
    ASSUME NEW o \in Operators, Typed, ControllerStep(o)
    PROVE  ProcsOK'
<1> USE DEF Commands, Steps, FailsAt, Locks
<1>a. proc[o] \in Processes /\ Carried(proc[o])
  BY DEF Typed, TypeOK
<1>1. CASE Publish(o) \/ VerifyInstalled(o) \/ ReplaceLauncher(o) \/ ResolveLink(o)
  BY <1>1, GoTyped DEF Publish, VerifyInstalled, ReplaceLauncher, ResolveLink, Go, Pass, At, Follows
<1>2. CASE ReadInstalledPolicy(o) \/ RunLauncher(o) \/ Adopt(o) \/ Cutover(o)
  BY <1>2, GoTyped DEF ReadInstalledPolicy, RunLauncher, Adopt, Cutover, Go, Pass, At, Follows
<1>3. CASE PublishFails(o)
  BY <1>3, FailTyped DEF PublishFails
<1>4. CASE ReplaceLink(o) \/ ReplaceState(o)
  BY <1>4, GoTyped DEF ReplaceLink, ReplaceState, At, Follows
<1>5. ASSUME NEW cmd \in DOMAIN AfterPreflight, ReadHead(o, cmd) PROVE ProcsOK'
  <2> DEFINE new == [Idle EXCEPT !.cmd = cmd, !.pc = "qualifying", !.head = repo.head]
  <2>1. new \in Processes /\ Carried(new)
    BY DEF Idle, Processes, Carried, AfterPreflight, Typed, TypeOK
  <2> QED
    BY <1>5, <2>1, BeginTyped DEF ReadHead
<1>6. CASE QualifyRuntime(o)
  <2> DEFINE new == [proc[o] EXCEPT !.pc = AfterPreflight[proc[o].cmd],
                                    !.name = shell[o], !.digest = runtime[shell[o]]]
  <2>1. shell[o] \in Names /\ runtime[shell[o]] \in Digests
    BY <1>6 DEF QualifyRuntime, RuntimeRuns, Typed, TypeOK
  <2>2. proc[o].cmd \in DOMAIN AfterPreflight
    BY <1>6, <1>a DEF QualifyRuntime, At, Carried, AfterPreflight
  <2>3. AfterPreflight[proc[o].cmd] \in {"pass", "tree", "witness"}
        /\ (AfterPreflight[proc[o].cmd] = "tree" => proc[o].cmd = "install")
        /\ (AfterPreflight[proc[o].cmd] = "witness" => proc[o].cmd = "promote")
    BY <2>2 DEF AfterPreflight
  <2>4. new \in Processes /\ Carried(new)
    <3> DEFINE pc == AfterPreflight[proc[o].cmd]
    <3>1. pc \in {"pass", "tree", "witness"} /\ (pc = "tree" => proc[o].cmd = "install")
          /\ (pc = "witness" => proc[o].cmd = "promote")
      BY <2>3
    <3>a. pc \in Steps
      BY <3>1
    <3> HIDE DEF pc, Steps, FailsAt, Commands, Locks
    <3>2. [proc[o] EXCEPT !.pc = pc, !.name = shell[o], !.digest = runtime[shell[o]]] \in Processes
      BY <1>a, <2>1, <3>a DEF Processes
    <3>3. Carried([proc[o] EXCEPT !.pc = pc, !.name = shell[o], !.digest = runtime[shell[o]]])
      BY <1>6, <1>a, <2>1, <3>1 DEF QualifyRuntime, At, Processes, Carried
    <3> QED
      BY <3>2, <3>3 DEF pc
  <2> QED
    BY <1>6, <2>4, StepTyped DEF QualifyRuntime
<1>7. CASE ReadTree(o)
  <2> DEFINE new == [proc[o] EXCEPT !.tree = repo.head, !.pc = "archiving"]
  <2>a. proc[o].pc = "tree" /\ proc[o].cmd = "install" /\ repo.head \in Commits
    BY <1>7, <1>a DEF ReadTree, At, Typed, TypeOK, Carried
  <2>b. new \in Processes
    BY <1>a, <2>a DEF Processes
  <2>c. Carried(new)
    BY <1>a, <2>a DEF Processes, Carried
  <2>1. new \in Processes /\ Carried(new)
    BY <2>b, <2>c
  <2> QED
    BY <1>7, <2>1, StepTyped DEF ReadTree
<1>8. CASE FindInstalled(o)
  <2> DEFINE new == [proc[o] EXCEPT !.tree = repo.head, !.pc = "pass"]
  <2>a. proc[o].pc = "tree" /\ proc[o].cmd = "install" /\ repo.head \in Commits
    BY <1>8, <1>a DEF FindInstalled, At, Typed, TypeOK, Carried
  <2>b. new \in Processes
    BY <1>a, <2>a DEF Processes
  <2>c. Carried(new)
    BY <1>a, <2>a DEF Processes, Carried
  <2>1. new \in Processes /\ Carried(new)
    BY <2>b, <2>c
  <2> QED
    BY <1>8, <2>1, StepTyped DEF FindInstalled
<1>9. CASE ArchiveHead(o)
  <2> DEFINE new == [proc[o] EXCEPT !.source = repo.head, !.pc = "publishing"]
  <2>a. proc[o].pc = "archiving" /\ proc[o].cmd = "install" /\ repo.head \in Commits
    BY <1>9, <1>a DEF ArchiveHead, At, Typed, TypeOK, Carried
  <2>b. new \in Processes
    BY <1>a, <2>a DEF Processes
  <2>c. Carried(new)
    BY <1>a, <2>a DEF Processes, Carried
  <2>1. new \in Processes /\ Carried(new)
    BY <2>b, <2>c
  <2> QED
    BY <1>9, <2>1, StepTyped DEF ArchiveHead
<1>10. ASSUME NEW c \in Commits, ActivateBegin(o, c) PROVE ProcsOK'
  <2> DEFINE new == [Idle EXCEPT !.cmd = "activate", !.pc = "linking", !.head = c,
                                 !.name = controllers[c].name]
  <2>1. controllers[c].name \in Names
    BY <1>10 DEF ActivateBegin, ReleaseOK, Installed, Typed, TypeOK, Releases
  <2>2. new \in Processes /\ Carried(new)
    BY <2>1 DEF Idle, Processes, Carried
  <2> QED
    BY <1>10, <2>2, BeginTyped DEF ActivateBegin
<1>11. CASE VerifyBegin(o)
  <2> DEFINE new == [Idle EXCEPT !.cmd = "verify", !.pc = "resolving", !.head = active.head,
                                 !.digest = controllers[active.head].digest]
  <2>1. active.head \in Commits
    BY <1>11 DEF VerifyBegin, Typed, TypeOK
  <2>2. controllers[active.head].digest \in Digests
    BY <1>11, <2>1 DEF VerifyBegin, ReleaseOK, Installed, Typed, TypeOK, Releases
  <2>3. new \in Processes /\ Carried(new)
    BY <2>1, <2>2 DEF Idle, Processes, Carried
  <2> QED
    BY <1>11, <2>3, BeginTyped DEF VerifyBegin
<1>12. CASE ReadWitness(o)
  <2> DEFINE pc == IF boundary = repo.head THEN "cutover" ELSE "adopting"
             new == [proc[o] EXCEPT !.tree = boundary, !.source = repo.head, !.pc = pc]
  <2>1. pc \in {"cutover", "adopting"} /\ boundary \in Commits /\ repo.head \in Commits
    BY DEF Typed, TypeOK
  <2> HIDE DEF pc
  <2>a. proc[o].pc = "witness" /\ <<boundary, repo.head>> \in Descends
    BY <1>12 DEF ReadWitness, At
  <2>b. new \in Processes
    <3>1. pc \in Steps
      BY <2>1
    <3> HIDE DEF Steps, FailsAt, Commands, Locks
    <3> QED
      BY <1>a, <2>1, <3>1 DEF Processes
  <2>c. /\ new.pc = pc /\ new.cmd = "promote" /\ new.tree = boundary /\ new.source = repo.head
    BY <1>a, <2>a DEF Processes, Carried
  <2>3. Step(o, new)
    BY <1>12 DEF ReadWitness, pc
  <2> HIDE DEF new
  <2>d. Carried(new)
    BY <2>a, <2>1, <2>c DEF Carried
  <2>2. new \in Processes /\ Carried(new)
    BY <2>b, <2>d
  <2> QED
    BY <2>2, <2>3, StepTyped
<1>13. CASE CutoverBegin(o)
  <2> DEFINE new == [Idle EXCEPT !.cmd = "cutover", !.pc = "cutover"]
  <2>1. new \in Processes /\ Carried(new)
    BY DEF Idle, Processes, Carried
  <2> QED
    BY <1>13, <2>1, BeginTyped DEF CutoverBegin
<1> QED
  BY <1>1, <1>2, <1>3, <1>4, <1>5, <1>6, <1>7, <1>8, <1>9, <1>10, <1>11, <1>12, <1>13
     DEF ControllerStep

-----------------------------------------------------------------------------
(* Type correctness.                                                       *)

Shared == RepoOK /\ WorktreeOK /\ RuntimeOK /\ UsedOK /\ InstallationOK

LEMMA RuntimeShared ==
    ASSUME NEW o \in Operators, Typed, RuntimeStep(o), UNCHANGED controllerVars
    PROVE  Shared'
<1>a. Shared /\ proc[o] \in Processes /\ Carried(proc[o])
  BY TypedParts DEF Shared, Typed, TypeOK
<1>b. InstallationOK'
  BY <1>a DEF Shared, InstallationOK, controllerVars
<1> USE DEF Shared
<1>1. CASE AddWorktree(o) \/ RemoveWorktree(o) \/ Compile(o) \/ CompileFails(o) \/ RestoreLock(o)
  <2>1. UNCHANGED <<repo, runtime, shell, printed, used>>
    BY <1>1 DEF AddWorktree, RemoveWorktree, Compile, CompileFails, RestoreLock
  <2>2. RepoOK' /\ RuntimeOK' /\ UsedOK'
    BY <1>a, <2>1 DEF RepoOK, RuntimeOK, UsedOK
  <2>3. proc[o].lock \in Locks
    BY <1>a DEF Processes
  <2>4. WorktreeOK'
    <3>1. CASE AddWorktree(o) \/ RemoveWorktree(o)
      BY <3>1, <1>a, Worktrees DEF AddWorktree, RemoveWorktree, WorktreeOK
    <3>2. CASE Compile(o) \/ CompileFails(o)
      <4>1. Refreshed \subseteq Locks
        BY <1>a DEF Refreshed, WorktreeOK, Locks
      <4>2. \A lock \in Refreshed : [worktree EXCEPT !.lock = lock]
               \in [at : {None, "final", "other"}, lock : Locks, edited : BOOLEAN]
        BY <4>1, <1>a DEF WorktreeOK
      <4>3. target' \in Digests \cup {None}
        BY <3>2, <1>a, ReleaseAssumption DEF Compile, CompileFails, WorktreeOK
      <4> QED
        BY <3>2, <4>2, <4>3 DEF Compile, CompileFails, WorktreeOK
    <3>3. CASE RestoreLock(o)
      BY <3>3, <2>3, <1>a DEF RestoreLock, WorktreeOK
    <3> QED
      BY <1>1, <3>1, <3>2, <3>3
  <2> QED
    BY <1>b, <2>2, <2>4
<1>2. CASE MakeRelease(o) \/ CopyRuntime(o) \/ CheckPolicy(o) \/ (\E n \in Names : Export(o, n))
  <2>1. UNCHANGED <<repo, worktree, target, used>>
    BY <1>2 DEF MakeRelease, CopyRuntime, CheckPolicy, Export
  <2>2. ASSUME MakeRelease(o) \/ CopyRuntime(o) PROVE RuntimeOK'
    BY <2>2, <1>a DEF MakeRelease, CopyRuntime, At, RuntimeOK, Carried
  <2>3. ASSUME CheckPolicy(o) PROVE RuntimeOK'
    BY <2>3, <1>a DEF CheckPolicy, At, RuntimeOK, Carried
  <2>4. ASSUME NEW n \in Names, Export(o, n) PROVE RuntimeOK'
    BY <2>4, <1>a DEF Export, RuntimeOK
  <2> QED
    BY <1>a, <1>b, <1>2, <2>1, <2>2, <2>3, <2>4 DEF RepoOK, WorktreeOK, UsedOK
<1>3. CASE RemoveRelease(o)
  <2>1. RuntimeOK'
    BY <1>3, <1>a DEF RemoveRelease, At, RuntimeOK, Carried
  <2>2. UsedOK'
    BY <1>3, <1>a DEF RemoveRelease, At, UsedOK, Carried
  <2> QED
    BY <1>3, <1>a, <1>b, <2>1, <2>2 DEF RemoveRelease, RepoOK, WorktreeOK
<1>4. CASE WritePolicy(o)
  BY <1>4, <1>a, <1>b DEF WritePolicy, At, RepoOK, WorktreeOK, RuntimeOK, UsedOK, Carried
<1>5. CASE \/ CheckWorktree(o) \/ ReadLock(o) \/ CheckBuilt(o) \/ VerifyCandidate(o) \/ BuildFails(o)
           \/ RecheckWorktree(o) \/ MakeFails(o) \/ PrepareFails(o)
           \/ (Return(o) \/ Fails(o)) /\ UNCHANGED <<repo, worktree, target, runtime, shell, printed, used>>
  <2>1. UNCHANGED <<repo, worktree, target, runtime, shell, printed, used>>
    BY <1>5 DEF CheckWorktree, ReadLock, CheckBuilt, VerifyCandidate, BuildFails, RecheckWorktree,
                MakeFails, PrepareFails, RuntimeStep
  <2> QED
    BY <1>a, <1>b, <2>1 DEF RepoOK, WorktreeOK, RuntimeOK, UsedOK
<1>6. CASE ReconstructBegin(o) \/ BuildBegin(o) \/ (\E n \in Names : PrepareBegin(o, n)) \/ Crash(o)
  <2>1. UNCHANGED <<repo, worktree, target, runtime, shell, printed>>
    BY <1>6 DEF ReconstructBegin, BuildBegin, PrepareBegin, Crash
  <2>2. used.acts < MaxActs /\ used' = [used EXCEPT !.acts = @ + 1]
    BY <1>6 DEF ReconstructBegin, BuildBegin, PrepareBegin, Crash, Begin
  <2>3. UsedOK'
    BY <1>a, <2>2, ReleaseAssumption DEF UsedOK
  <2> QED
    BY <1>a, <1>b, <2>1, <2>3 DEF RepoOK, WorktreeOK, RuntimeOK
<1> QED
  BY <1>1, <1>2, <1>3, <1>4, <1>5, <1>6 DEF RuntimeStep

LEMMA ControllerShared ==
    ASSUME NEW o \in Operators, Typed, ControllerStep(o)
    PROVE  Shared'
<1>a. Shared /\ proc[o] \in Processes /\ Carried(proc[o])
  BY TypedParts DEF Shared, Typed, TypeOK
<1>b. UNCHANGED others
  BY DEF ControllerStep, ReadHead, QualifyRuntime, ReadTree, FindInstalled, ArchiveHead, Publish, PublishFails,
         VerifyInstalled, ActivateBegin, ReplaceLink, ReplaceState, ReplaceLauncher, VerifyBegin, ResolveLink,
         ReadInstalledPolicy, RunLauncher, ReadWitness, Adopt, CutoverBegin, Cutover
<1>c. RepoOK' /\ WorktreeOK' /\ RuntimeOK'
  BY <1>a, <1>b DEF others, Shared, RepoOK, WorktreeOK, RuntimeOK
<1> USE <1>c DEF Shared
<1>1. CASE \/ QualifyRuntime(o) \/ ReadTree(o) \/ FindInstalled(o) \/ ArchiveHead(o) \/ PublishFails(o)
           \/ VerifyInstalled(o) \/ ResolveLink(o) \/ ReadInstalledPolicy(o) \/ RunLauncher(o)
           \/ ReadWitness(o) \/ Cutover(o)
  <2>1. UNCHANGED <<used, controllerVars>>
    BY <1>1 DEF QualifyRuntime, ReadTree, FindInstalled, ArchiveHead, PublishFails, VerifyInstalled, ResolveLink,
                ReadInstalledPolicy, RunLauncher, ReadWitness, Cutover
  <2> QED
    BY <1>a, <2>1 DEF UsedOK, InstallationOK, controllerVars
<1>2. CASE \/ \E cmd \in DOMAIN AfterPreflight : ReadHead(o, cmd)
           \/ \E c \in Commits : ActivateBegin(o, c)
           \/ VerifyBegin(o) \/ CutoverBegin(o)
  <2>1. UNCHANGED controllerVars /\ used.acts < MaxActs /\ used' = [used EXCEPT !.acts = @ + 1]
    BY <1>2 DEF ReadHead, ActivateBegin, VerifyBegin, CutoverBegin, Begin
  <2>2. UsedOK'
    BY <1>a, <2>1, ReleaseAssumption DEF UsedOK
  <2> QED
    BY <1>a, <2>1, <2>2 DEF InstallationOK, controllerVars
<1>3. CASE Publish(o)
  <2>1. Release(proc[o]) \in Releases
    BY <1>3, <1>a DEF Publish, At, Release, Releases, Carried
  <2> QED
    BY <1>3, <1>a, <2>1 DEF Publish, At, Carried, UsedOK, InstallationOK
<1>4. CASE ReplaceLink(o) \/ ReplaceState(o) \/ ReplaceLauncher(o)
  <2>1. proc[o].head \in Commits /\ proc[o].name \in Names
    BY <1>4, <1>a DEF ReplaceLink, ReplaceState, ReplaceLauncher, At, Carried
  <2> QED
    BY <1>4, <1>a, <2>1 DEF ReplaceLink, ReplaceState, ReplaceLauncher, UsedOK, InstallationOK
<1>5. CASE Adopt(o)
  <2>1. repo.head \in Commits
    BY <1>a DEF RepoOK
  <2> QED
    BY <1>5, <1>a, <2>1 DEF Adopt, UsedOK, InstallationOK
<1> QED
  BY <1>1, <1>2, <1>3, <1>4, <1>5 DEF ControllerStep

LEMMA OperatorTyped == Typed /\ OperatorStep /\ UNCHANGED controllerVars => Typed'
<1> SUFFICES ASSUME Typed, OperatorStep, UNCHANGED controllerVars PROVE Typed'
  OBVIOUS
<1>a. Shared
  BY TypedParts DEF Shared
<1>b. InstallationOK'
  BY <1>a DEF Shared, InstallationOK, controllerVars
<1>1. ASSUME NEW c \in Commits, Commit(c) \/ Checkout(c) PROVE Typed'
  <2>1. ProcsOK' /\ UsedOK'
    BY <1>1, MoveTyped DEF Commit, Checkout
  <2>2. RepoOK' /\ WorktreeOK' /\ RuntimeOK'
    <3>1. CASE Commit(c)
      BY <3>1, <1>a DEF Commit, Shared, RepoOK, WorktreeOK, RuntimeOK
    <3>2. CASE Checkout(c)
      <4>1. PolicyOf[c] \in Digests
        BY ReleaseAssumption
      <4> QED
        BY <3>2, <4>1, <1>a DEF Checkout, Shared, RepoOK, WorktreeOK, RuntimeOK
    <3> QED
      BY <1>1, <3>1, <3>2
  <2> QED
    BY <1>b, <2>1, <2>2, TypedPartsNext
<1>2. CASE EditRepo
  <2>1. ProcsOK' /\ UsedOK'
    BY <1>2, MoveTyped DEF EditRepo
  <2>2. RepoOK' /\ WorktreeOK' /\ RuntimeOK'
    BY <1>2, <1>a DEF EditRepo, Shared, RepoOK, WorktreeOK, RuntimeOK
  <2> QED
    BY <1>b, <2>1, <2>2, TypedPartsNext
<1>3. ASSUME NEW w \in EditedWorktrees, EditWorktree(w) PROVE Typed'
  <2>1. ProcsOK' /\ UsedOK'
    BY <1>3, MoveTyped DEF EditWorktree
  <2>2. w \in [at : {None, "final", "other"}, lock : Locks, edited : BOOLEAN]
    BY Worktrees DEF EditedWorktrees, Locks
  <2>3. RepoOK' /\ WorktreeOK' /\ RuntimeOK'
    BY <1>3, <1>a, <2>2 DEF EditWorktree, Shared, RepoOK, WorktreeOK, RuntimeOK
  <2> QED
    BY <1>b, <2>1, <2>3, TypedPartsNext
<1> QED
  BY <1>1, <1>2, <1>3 DEF OperatorStep

LEMMA TypedStep == Typed /\ [Next]_vars => Typed'
<1> SUFFICES ASSUME Typed, [Next]_vars PROVE Typed'
  OBVIOUS
<1>a. ProcsOK /\ Shared
  BY TypedParts DEF Shared
<1>1. ASSUME NEW o \in Operators, RuntimeStep(o), UNCHANGED controllerVars PROVE Typed'
  BY <1>1, RuntimeProcs, RuntimeShared, TypedPartsNext DEF Shared
<1>2. ASSUME NEW o \in Operators, ControllerStep(o) PROVE Typed'
  BY <1>2, ControllerProcs, ControllerShared, TypedPartsNext DEF Shared
<1>3. CASE OperatorStep /\ UNCHANGED controllerVars
  BY <1>3, OperatorTyped
<1>4. ASSUME NEW c \in Commits, Checkpoint(c) PROVE Typed'
  <2>1. ProcsOK' /\ UsedOK'
    BY <1>4, MoveTyped DEF Checkpoint
  <2>2. RepoOK' /\ WorktreeOK' /\ RuntimeOK' /\ InstallationOK'
    BY <1>4, <1>a DEF Checkpoint, Shared, RepoOK, WorktreeOK, RuntimeOK, InstallationOK
  <2> QED
    BY <2>1, <2>2, TypedPartsNext
<1>5. CASE ForeignLauncher
  <2>1. ProcsOK' /\ UsedOK'
    BY <1>5, MoveTyped DEF ForeignLauncher
  <2>2. RepoOK' /\ WorktreeOK' /\ RuntimeOK' /\ InstallationOK'
    BY <1>5, <1>a DEF ForeignLauncher, others, Shared, RepoOK, WorktreeOK, RuntimeOK, InstallationOK
  <2> QED
    BY <2>1, <2>2, TypedPartsNext
<1>6. CASE UNCHANGED vars
  <2>1. ProcsOK'
    BY <1>6, <1>a DEF vars, runtimeVars, ProcsOK
  <2>2. Shared'
    BY <1>6, <1>a DEF vars, runtimeVars, controllerVars, Shared, RepoOK, WorktreeOK, RuntimeOK, UsedOK, InstallationOK
  <2> QED
    BY <2>1, <2>2, TypedPartsNext DEF Shared
<1> QED
  BY <1>1, <1>2, <1>3, <1>4, <1>5, <1>6 DEF Next

\* A release id that some past release used has a digest, and it is that release's.
LEMMA PastRuntimes ==
    ASSUME NEW past \in Pasts
    PROVE  /\ \A n \in Names : PastRuntime(past, n) \in Digests \cup {None}
           /\ \A c \in Commits : past[c] # None => PastRuntime(past, past[c]) = PolicyOf[c]
           /\ PastRuntime(past, FirstName) # None
<1>1. ASSUME NEW n \in Names, n # FirstName, NEW c \in Commits, past[c] = n
      PROVE  PastRuntime(past, n) = PolicyOf[c]
  <2> DEFINE d == CHOOSE x \in Commits : past[x] = n
  <2>1. d \in Commits /\ past[d] = n
    BY <1>1
  <2>2. n # None
    BY ReleaseAssumption
  <2> HIDE DEF d
  <2>3. PolicyOf[d] = PolicyOf[c]
    BY <1>1, <2>1, <2>2, ReleaseAssumption
  <2>4. PastRuntime(past, n) = PolicyOf[d]
    BY <1>1 DEF PastRuntime, d
  <2> QED
    BY <2>3, <2>4
<1>2. ASSUME NEW n \in Names PROVE PastRuntime(past, n) \in Digests \cup {None}
  <2>1. CASE n = FirstName
    BY <2>1, ReleaseAssumption DEF PastRuntime
  <2>2. CASE n # FirstName /\ \E c \in Commits : past[c] = n
    BY <2>2, <1>1, ReleaseAssumption
  <2>3. CASE n # FirstName /\ ~\E c \in Commits : past[c] = n
    BY <2>3 DEF PastRuntime
  <2> QED
    BY <2>1, <2>2, <2>3
<1>3. ASSUME NEW c \in Commits, past[c] # None PROVE PastRuntime(past, past[c]) = PolicyOf[c]
  <2>1. past[c] \in Names
    BY <1>3, ReleaseAssumption
  <2>2. CASE past[c] = FirstName
    BY <2>2, ReleaseAssumption DEF PastRuntime
  <2> QED
    BY <1>1, <2>1, <2>2
<1>4. PastRuntime(past, FirstName) # None
  BY ReleaseAssumption DEF PastRuntime
<1> QED
  BY <1>2, <1>3, <1>4

LEMMA TypedInit == Init => Typed
<1> SUFFICES ASSUME Init PROVE Typed
  OBVIOUS
<1>1. PICK past \in Pasts : /\ RuntimeInit(past)
                            /\ controllers = [c \in Commits |-> PastRelease(c, past[c])]
  BY DEF Init
<1>2. ProcsOK
  <2>1. Idle \in Processes /\ Carried(Idle)
    BY DEF Idle, Processes, Carried, Commands, Steps, FailsAt, Locks
  <2> QED
    BY <1>1, <2>1 DEF RuntimeInit, ProcsOK
<1>3. RepoOK /\ UsedOK
  BY <1>1, ReleaseAssumption DEF RuntimeInit, RepoOK, UsedOK
<1>4. WorktreeOK
  BY <1>1, Worktrees, ReleaseAssumption DEF RuntimeInit, WorktreeOK
<1>5. RuntimeOK
  BY <1>1, PastRuntimes, ReleaseAssumption DEF RuntimeInit, RuntimeOK
<1>6. InstallationOK
  <2>1. ASSUME NEW c \in Commits PROVE PastRelease(c, past[c]) \in Releases \cup {NoRelease}
    BY ReleaseAssumption DEF PastRelease, Releases
  <2> QED
    BY <1>1, <2>1, ReleaseAssumption DEF Init, InstallationOK
<1> QED
  BY <1>2, <1>3, <1>4, <1>5, <1>6, TypedParts

LEMMA TypedAlways == Spec => []Typed
BY TypedInit, TypedStep, PTL DEF Spec

\* Every reachable state is well typed.
THEOREM ReleaseTypeCorrect == Spec => []TypeOK
<1>1. Typed => TypeOK
  BY DEF Typed
<1> QED
  BY <1>1, TypedAlways, PTL

-----------------------------------------------------------------------------
(* Who changes what.                                                       *)

\* A process as others leave it: it only learns that something has changed.
Same(p, r) ==
    /\ r.cmd = p.cmd /\ r.pc = p.pc /\ r.head = p.head /\ r.tree = p.tree /\ r.source = p.source
    /\ r.name = p.name /\ r.digest = p.digest /\ r.lock = p.lock /\ r.made = p.made
    /\ p.seen \subseteq r.seen

\* It learns of every change to what it reads.
Watched(q) ==
    /\ Same(proc[q], proc'[q])
    /\ repo' # repo /\ proc[q].cmd = "install" => "repo" \in proc'[q].seen
    /\ <<link, active>>' # <<link, active>> /\ proc[q].cmd \in {"activate", "verify"} => "active" \in proc'[q].seen

Own(q) == (RuntimeStep(q) /\ UNCHANGED controllerVars) \/ ControllerStep(q)

LEMMA TouchSame ==
    ASSUME NEW q \in Operators, NEW what, Typed
    PROVE  /\ Same(proc[q], Touch(what, q))
           /\ "repo" \in what /\ proc[q].cmd = "install" => "repo" \in Touch(what, q).seen
           /\ "active" \in what /\ proc[q].cmd \in {"activate", "verify"} => "active" \in Touch(what, q).seen
<1> DEFINE seen == proc[q].seen \cup (what \cap Reads(proc[q].cmd))
<1>1. proc[q] \in Processes
  BY DEF Typed, TypeOK
<1>2. Touch(what, q) = [proc[q] EXCEPT !.seen = seen]
  BY DEF Touch
<1>3. /\ proc[q].cmd = "install" => Reads(proc[q].cmd) = {"repo"}
      /\ proc[q].cmd \in {"activate", "verify"} => Reads(proc[q].cmd) = {"active"}
  BY DEF Reads
<1>4. /\ proc[q].seen \subseteq seen
      /\ "repo" \in what /\ proc[q].cmd = "install" => "repo" \in seen
      /\ "active" \in what /\ proc[q].cmd \in {"activate", "verify"} => "active" \in seen
  BY <1>3
<1> HIDE DEF seen
<1> QED
  BY <1>1, <1>2, <1>4 DEF Same, Processes

\* A command that changes what others read is seen by all of them.
LEMMA OthersWatch ==
    ASSUME Typed, NEW q \in Operators, NEW o \in Operators, o # q,
           (RuntimeStep(o) /\ UNCHANGED controllerVars) \/ ControllerStep(o)
    PROVE  Watched(q)
<1>a. proc \in [Operators -> Processes] /\ Same(proc[q], proc[q])
  BY DEF Typed, TypeOK, Same
<1>1. ASSUME NEW what, proc'[q] = Touch(what, q),
             repo' # repo => "repo" \in what, <<link, active>>' # <<link, active>> => "active" \in what
      PROVE Watched(q)
  BY <1>1, TouchSame DEF Watched
<1>2. ASSUME proc'[q] = proc[q], UNCHANGED <<repo, link, active>> PROVE Watched(q)
  BY <1>2, <1>a DEF Watched
<1>3. ASSUME RuntimeStep(o), UNCHANGED controllerVars PROVE Watched(q)
  <2>1. CASE WritePolicy(o)
    <3>1. proc'[q] = Touch({"repo"}, q)
      BY <1>3, <2>1 DEF WritePolicy, StepTouching
    <3> QED
      BY <1>1, <1>3, <3>1 DEF controllerVars
  <2>2. CASE \E n \in Names : Export(o, n)
    BY <1>2, <1>3, <2>2 DEF Export, controllerVars
  <2>3. CASE RestoreLock(o)
    <3>1. PICK what : proc'[q] = Touch(what, q)
      BY <2>3 DEF RestoreLock, StepTouching
    <3>2. UNCHANGED <<repo, link, active>>
      BY <1>3, <2>3 DEF RestoreLock, controllerVars
    <3> QED
      BY <1>1, <3>1, <3>2
  <2>4. CASE ~WritePolicy(o) /\ ~RestoreLock(o) /\ ~\E n \in Names : Export(o, n)
    <3>1. UNCHANGED repo /\ \E new : Step(o, new)
      BY <1>3, <2>4
         DEF RuntimeStep, ReconstructBegin, AddWorktree, CheckWorktree, RemoveWorktree, BuildBegin, ReadLock, Compile,
             CompileFails, CheckBuilt, VerifyCandidate, BuildFails, RecheckWorktree, PrepareBegin,
             MakeRelease, MakeFails, CopyRuntime, CheckPolicy, PrepareFails, RemoveRelease, Return, Fails, Crash,
             Begin, Go, Pass, Fail
    <3>2. proc'[q] = proc[q]
      BY <1>3, <1>a, <3>1 DEF Step
    <3> QED
      BY <1>2, <1>3, <3>1, <3>2 DEF controllerVars
  <2> QED
    BY <2>1, <2>2, <2>3, <2>4
<1>4. ASSUME ControllerStep(o) PROVE Watched(q)
  <2>1. CASE ReplaceLink(o) \/ ReplaceState(o)
    <3>1. proc'[q] = Touch({"active"}, q) /\ UNCHANGED repo
      BY <1>4, <2>1 DEF ReplaceLink, ReplaceState, StepTouching, others
    <3> QED
      BY <1>1, <3>1
  <2>2. CASE ~ReplaceLink(o) /\ ~ReplaceState(o)
    <3>1. UNCHANGED <<repo, link, active>> /\ \E new : Step(o, new)
      BY <1>4, <2>2
         DEF ControllerStep, ReadHead, QualifyRuntime, ReadTree, FindInstalled, ArchiveHead, Publish, PublishFails,
             VerifyInstalled, ActivateBegin, ReplaceLauncher, VerifyBegin, ResolveLink, ReadInstalledPolicy,
             RunLauncher, ReadWitness, Adopt, CutoverBegin, Cutover, Begin, Go, Pass, Fail, others, controllerVars
    <3>2. proc'[q] = proc[q]
      BY <1>4, <1>a, <3>1 DEF Step
    <3> QED
      BY <1>2, <3>1, <3>2
  <2> QED
    BY <2>1, <2>2
<1> QED
  BY <1>3, <1>4

LEMMA MoveWatched ==
    ASSUME Typed, NEW q \in Operators, NEW what, Move(what), repo' # repo => "repo" \in what,
           <<link, active>>' # <<link, active>> => "active" \in what
    PROVE  Watched(q)
<1>1. proc'[q] = Touch(what, q)
  BY DEF Move
<1> QED
  BY <1>1, TouchSame DEF Watched

LEMMA Watching ==
    ASSUME Typed, Next, NEW q \in Operators
    PROVE  Watched(q) \/ Own(q)
<1>6. CASE OperatorStep /\ UNCHANGED controllerVars
  <2>1. CASE \E w \in EditedWorktrees : EditWorktree(w)
    BY MoveWatched, <1>6, <2>1 DEF EditWorktree, controllerVars
  <2>2. CASE EditRepo \/ \E c \in Commits : Commit(c) \/ Checkout(c)
    BY MoveWatched, <1>6, <2>2 DEF EditRepo, Commit, Checkout, controllerVars
  <2> QED
    BY <1>6, <2>1, <2>2 DEF OperatorStep
<1>7. ASSUME NEW c \in Commits, Checkpoint(c) PROVE Watched(q)
  BY MoveWatched, <1>7 DEF Checkpoint
<1>8. CASE ForeignLauncher
  BY MoveWatched, <1>8 DEF ForeignLauncher, others
<1> QED
  BY OthersWatch, <1>6, <1>7, <1>8 DEF Next, Own

\* The end of a build is that of the command, or its last check follows.
LEMMA Restored ==
    ASSUME NEW o \in Operators, Typed, RestoreLock(o)
    PROVE  \/ proc'[o] = Idle /\ proc[o].digest = None
           \/ proc'[o] = [proc[o] EXCEPT !.pc = "rechecking"] /\ proc[o].digest # None
BY DEF RestoreLock, StepTouching, Typed, TypeOK

\* A command that builds or prepares a runtime is no installation, activation or verification.
LEMMA RuntimeCommands ==
    ASSUME NEW o \in Operators, Typed, RuntimeStep(o)
    PROVE  \/ proc'[o].cmd \in {"none", "reconstruct", "build", "prepare"}
           \/ UNCHANGED <<proc, repo, worktree, target, runtime, printed, used>>
<1>a. proc \in [Operators -> Processes] /\ proc[o] \in Processes /\ Carried(proc[o])
  BY DEF Typed, TypeOK
<1>1. CASE \/ AddWorktree(o) \/ CheckWorktree(o) \/ ReadLock(o) \/ Compile(o) \/ CompileFails(o) \/ CheckBuilt(o)
           \/ VerifyCandidate(o) \/ BuildFails(o) \/ RestoreLock(o) \/ RecheckWorktree(o)
           \/ MakeRelease(o) \/ MakeFails(o) \/ CopyRuntime(o) \/ WritePolicy(o) \/ CheckPolicy(o)
           \/ PrepareFails(o)
  <2>1. proc[o].cmd \in {"reconstruct", "build", "prepare"}
    BY <1>1, <1>a
       DEF AddWorktree, CheckWorktree, ReadLock, Compile, CompileFails, CheckBuilt, VerifyCandidate, BuildFails,
           RestoreLock, RecheckWorktree, MakeRelease, MakeFails, CopyRuntime, WritePolicy, CheckPolicy,
           PrepareFails, At, Carried
  <2>2. proc'[o].cmd = proc[o].cmd \/ proc'[o] = Idle
    <3>1. CASE \/ AddWorktree(o) \/ CheckWorktree(o) \/ Compile(o) \/ CompileFails(o) \/ CheckBuilt(o)
               \/ BuildFails(o) \/ MakeFails(o) \/ CopyRuntime(o) \/ CheckPolicy(o) \/ PrepareFails(o)
      <4>1. \E pc : Go(o, pc)
        BY <3>1 DEF AddWorktree, CheckWorktree, Compile, CompileFails, CheckBuilt, BuildFails, MakeFails,
                    CopyRuntime, CheckPolicy, PrepareFails, Pass
      <4> QED
        BY <1>a, <4>1 DEF Go, Step, Processes
    <3>2. CASE RestoreLock(o) \/ RecheckWorktree(o)
      <4>1. CASE RestoreLock(o)
        BY <1>a, <4>1, Restored DEF Processes
      <4>2. CASE RecheckWorktree(o)
        <5>1. (\E pc : Go(o, pc)) \/ Fail(o)
          BY <4>2 DEF RecheckWorktree, Pass
        <5> QED
          BY <1>a, <5>1 DEF Go, Fail, Step, Processes
      <4> QED
        BY <3>2, <4>1, <4>2
    <3>3. CASE ReadLock(o) \/ VerifyCandidate(o) \/ MakeRelease(o)
      <4>2. CASE ReadLock(o)
        BY <4>2, <1>a DEF ReadLock, Step, Processes
      <4>3. CASE VerifyCandidate(o)
        BY <4>3, <1>a DEF VerifyCandidate, Step, Processes
      <4>4. CASE MakeRelease(o)
        BY <4>4, <1>a DEF MakeRelease, Step, Processes
      <4> QED
        BY <3>3, <4>2, <4>3, <4>4
    <3>4. CASE WritePolicy(o)
      BY <3>4, <1>a DEF WritePolicy, StepTouching, Processes
    <3> QED
      BY <1>1, <3>1, <3>2, <3>3, <3>4
  <2> QED
    BY <2>1, <2>2 DEF Idle
<1>2. CASE RemoveWorktree(o) \/ RemoveRelease(o) \/ Return(o) \/ Fails(o) \/ Crash(o)
  BY <1>2, <1>a DEF RemoveWorktree, RemoveRelease, Return, Fails, Crash, Fail, Step, Idle
<1>3. CASE ReconstructBegin(o) \/ BuildBegin(o) \/ (\E n \in Names : PrepareBegin(o, n))
  <2>1. \E new : Begin(o, new) /\ new.cmd \in {"reconstruct", "build", "prepare"}
    <3>1. CASE ReconstructBegin(o)
      <4> DEFINE new == [Idle EXCEPT !.cmd = "reconstruct", !.pc = "adding"]
      <4>1. Begin(o, new) /\ new.cmd = "reconstruct"
        BY <3>1 DEF ReconstructBegin, Idle
      <4> HIDE DEF new
      <4> QED
        BY <4>1
    <3>3. CASE BuildBegin(o)
      <4> DEFINE new == [Idle EXCEPT !.cmd = "build", !.pc = "locking"]
      <4>1. Begin(o, new) /\ new.cmd = "build"
        BY <3>3 DEF BuildBegin, Idle
      <4> HIDE DEF new
      <4> QED
        BY <4>1
    <3>2. ASSUME NEW n \in Names, PrepareBegin(o, n)
          PROVE  \E new : Begin(o, new) /\ new.cmd = "prepare"
      <4> DEFINE new == [Idle EXCEPT !.cmd = "prepare", !.pc = "making", !.name = n, !.digest = target]
      <4>1. Begin(o, new) /\ new.cmd = "prepare"
        BY <3>2 DEF PrepareBegin, Idle
      <4> HIDE DEF new
      <4> QED
        BY <4>1
    <3> QED
      BY <1>3, <3>1, <3>2, <3>3
  <2> QED
    BY <1>a, <2>1 DEF Begin, Step
<1>4. CASE \E n \in Names : Export(o, n)
  BY <1>4 DEF Export
<1> QED
  BY <1>1, <1>2, <1>3, <1>4 DEF RuntimeStep

\* Only a publication changes what is installed, and it never replaces anything.
LEMMA ControllersStay ==
    ASSUME Typed, [Next]_vars, ~UNCHANGED controllers
    PROVE  \E o \in Operators : Publish(o)
BY DEF Next, OperatorStep, Checkpoint, ForeignLauncher, controllerVars, vars, ControllerStep, ReadHead,
       QualifyRuntime, ReadTree, FindInstalled, ArchiveHead, PublishFails, VerifyInstalled, ActivateBegin,
       ReplaceLink, ReplaceState, ReplaceLauncher, VerifyBegin, ResolveLink, ReadInstalledPolicy, RunLauncher,
       ReadWitness, Adopt, CutoverBegin, Cutover

LEMMA InstalledStaysStep ==
    Typed /\ [Next]_vars => \A c \in Commits : Installed(c) => controllers'[c] = controllers[c]
<1> SUFFICES ASSUME Typed, [Next]_vars, NEW c \in Commits, Installed(c) PROVE controllers'[c] = controllers[c]
  OBVIOUS
<1>1. ASSUME NEW o \in Operators, Publish(o) PROVE controllers'[c] = controllers[c]
  BY <1>1 DEF Publish, Typed, TypeOK
<1> QED
  BY <1>1, ControllersStay

\* An installed controller is never replaced or changed.
THEOREM InstalledStaysCorrect == Spec => InstalledStays
<1>1. Typed /\ [Next]_vars => [\A c \in Commits : Installed(c) => controllers'[c] = controllers[c]]_vars
  BY InstalledStaysStep
<1> QED
  BY <1>1, TypedAlways, PTL DEF Spec, InstalledStays

LEMMA BoundaryStep ==
    Typed /\ [Next]_vars => (boundary' # boundary => <<boundary, boundary'>> \in Descends)
<1> SUFFICES ASSUME Typed, [Next]_vars, boundary' # boundary PROVE <<boundary, boundary'>> \in Descends
  OBVIOUS
<1>1. (\E o \in Operators : Adopt(o)) \/ (\E c \in Commits : Checkpoint(c))
  BY DEF Next, ForeignLauncher, controllerVars, vars, ControllerStep, ReadHead, QualifyRuntime, ReadTree,
         FindInstalled, ArchiveHead, Publish, PublishFails, VerifyInstalled, ActivateBegin, ReplaceLink,
         ReplaceState, ReplaceLauncher, VerifyBegin, ResolveLink, ReadInstalledPolicy, RunLauncher,
         ReadWitness, CutoverBegin, Cutover
<1>2. ASSUME NEW o \in Operators, Adopt(o) PROVE <<boundary, boundary'>> \in Descends
  BY <1>2 DEF Adopt, At, Typed, Carried
<1>3. ASSUME NEW c \in Commits, Checkpoint(c) PROVE <<boundary, boundary'>> \in Descends
  BY <1>3 DEF Checkpoint
<1> QED
  BY <1>1, <1>2, <1>3

\* The boundary only moves to descendants.
THEOREM BoundaryAdvancesCorrect == Spec => BoundaryAdvances
<1>1. Typed /\ [Next]_vars => [boundary' # boundary => <<boundary, boundary'>> \in Descends]_vars
  BY BoundaryStep
<1> QED
  BY <1>1, TypedAlways, PTL DEF Spec, BoundaryAdvances

-----------------------------------------------------------------------------
(* An installation binds one commit.                                       *)

\* While nobody touches the repository, all that install_controller has read is of one commit.
Bound(p) ==
    p.cmd = "install" /\ "repo" \notin p.seen =>
        /\ p.pc \in {"qualifying", "tree", "archiving", "publishing"} => Clean /\ repo.head = p.head
        /\ p.pc \in {"tree", "archiving", "publishing"} => p.digest = PolicyOf[p.head]
        /\ p.pc \in {"archiving", "publishing"} => p.tree = p.head
        /\ p.pc = "publishing" => p.source = p.head

Binds == (\A o \in Operators : Bound(proc[o])) /\ InstallBinds

LEMMA BoundOwn ==
    ASSUME Typed, NEW o \in Operators, Bound(proc[o]), ControllerStep(o)
    PROVE  Bound(proc[o])'
<1>a. proc \in [Operators -> Processes] /\ proc[o] \in Processes /\ Carried(proc[o]) /\ repo \in [head : Commits, policy : Digests, edited : BOOLEAN]
  BY DEF Typed, TypeOK
<1>b. UNCHANGED repo
  BY DEF ControllerStep, ReadHead, QualifyRuntime, ReadTree, FindInstalled, ArchiveHead, Publish, PublishFails,
         VerifyInstalled, ActivateBegin, ReplaceLink, ReplaceState, ReplaceLauncher, VerifyBegin, ResolveLink,
         ReadInstalledPolicy, RunLauncher, ReadWitness, Adopt, CutoverBegin, Cutover, others
<1>1. ASSUME NEW cmd \in DOMAIN AfterPreflight, ReadHead(o, cmd) PROVE Bound(proc[o])'
  <2> DEFINE new == [Idle EXCEPT !.cmd = cmd, !.pc = "qualifying", !.head = repo.head]
  <2>1. Clean /\ proc'[o] = new
    BY <1>1, <1>a DEF ReadHead, Begin, Step
  <2>2. new.head = repo.head /\ new.pc = "qualifying"
    BY DEF Idle
  <2> HIDE DEF new
  <2> QED
    BY <1>b, <2>1, <2>2 DEF Bound, Clean
<1>2. CASE QualifyRuntime(o)
  <2> DEFINE pc == AfterPreflight[proc[o].cmd]
             new == [proc[o] EXCEPT !.pc = pc, !.name = shell[o], !.digest = runtime[shell[o]]]
  <2>1. proc[o].pc = "qualifying" /\ proc'[o] = new /\ runtime[shell[o]] = repo.policy
    BY <1>2, <1>a DEF QualifyRuntime, At, Step
  <2>2. proc[o].cmd = "install" => pc = "tree"
    BY DEF AfterPreflight
  <2> HIDE DEF pc
  <2>3. /\ new.cmd = proc[o].cmd /\ new.seen = proc[o].seen /\ new.head = proc[o].head /\ new.pc = pc
        /\ new.digest = repo.policy
    BY <1>a, <2>1 DEF Processes
  <2> HIDE DEF new
  <2> QED
    BY <1>b, <2>1, <2>2, <2>3 DEF Bound, Clean
<1>3. CASE ReadTree(o)
  <2> DEFINE new == [proc[o] EXCEPT !.tree = repo.head, !.pc = "archiving"]
  <2>1. proc[o].pc = "tree" /\ proc'[o] = new
    BY <1>3, <1>a DEF ReadTree, At, Step
  <2>2. /\ new.cmd = proc[o].cmd /\ new.seen = proc[o].seen /\ new.head = proc[o].head /\ new.pc = "archiving"
        /\ new.digest = proc[o].digest /\ new.tree = repo.head
    BY <1>a DEF Processes
  <2> HIDE DEF new
  <2> QED
    BY <1>b, <2>1, <2>2 DEF Bound, Clean
<1>4. CASE ArchiveHead(o)
  <2> DEFINE new == [proc[o] EXCEPT !.source = repo.head, !.pc = "publishing"]
  <2>1. proc[o].pc = "archiving" /\ proc'[o] = new
    BY <1>4, <1>a DEF ArchiveHead, At, Step
  <2>2. /\ new.cmd = proc[o].cmd /\ new.seen = proc[o].seen /\ new.head = proc[o].head /\ new.pc = "publishing"
        /\ new.digest = proc[o].digest /\ new.tree = proc[o].tree /\ new.source = repo.head
    BY <1>a DEF Processes
  <2> HIDE DEF new
  <2> QED
    BY <1>b, <2>1, <2>2 DEF Bound, Clean
<1>5. ASSUME NEW pc, Go(o, pc), pc \notin {"qualifying", "tree", "archiving", "publishing"}
      PROVE  Bound(proc[o])'
  <2>1. proc'[o].pc = pc
    BY <1>5, <1>a DEF Go, Step, Processes
  <2> QED
    BY <1>5, <2>1 DEF Bound
<1>6. CASE Publish(o) \/ VerifyInstalled(o) \/ ReplaceLauncher(o) \/ ResolveLink(o) \/ ReadInstalledPolicy(o)
           \/ RunLauncher(o) \/ Adopt(o) \/ Cutover(o)
  BY <1>5, <1>6 DEF Publish, VerifyInstalled, ReplaceLauncher, ResolveLink, ReadInstalledPolicy, RunLauncher,
                    Adopt, Cutover, Pass
<1>7. CASE PublishFails(o)
  BY <1>7, <1>a DEF PublishFails, Fail, Step, Idle, Bound
<1>8. CASE FindInstalled(o)
  <2>1. proc'[o].pc = "pass"
    BY <1>8, <1>a DEF FindInstalled, Step, Processes
  <2> QED
    BY <2>1 DEF Bound
<1>9. CASE ReplaceLink(o) \/ ReplaceState(o) \/ ReadWitness(o)
  <2>1. proc[o].cmd \in {"activate", "promote"}
    BY <1>9, <1>a DEF ReplaceLink, ReplaceState, ReadWitness, At, Carried
  <2>2. proc'[o].cmd = proc[o].cmd
    <3>1. CASE ReplaceLink(o)
      BY <3>1, <1>a DEF ReplaceLink, StepTouching, Processes
    <3>2. CASE ReplaceState(o)
      BY <3>2, <1>a DEF ReplaceState, StepTouching, Processes
    <3>3. CASE ReadWitness(o)
      BY <3>3, <1>a DEF ReadWitness, Step, Processes
    <3> QED
      BY <1>9, <3>1, <3>2, <3>3
  <2> QED
    BY <2>1, <2>2 DEF Bound
<1>10. ASSUME NEW c \in Commits, ActivateBegin(o, c) PROVE Bound(proc[o])'
  <2>1. proc'[o].cmd = "activate"
    BY <1>10, <1>a DEF ActivateBegin, Begin, Step, Idle
  <2> QED
    BY <2>1 DEF Bound
<1>11. CASE VerifyBegin(o)
  <2>1. proc'[o].cmd = "verify"
    BY <1>11, <1>a DEF VerifyBegin, Begin, Step, Idle
  <2> QED
    BY <2>1 DEF Bound
<1>12. CASE CutoverBegin(o)
  <2>1. proc'[o].cmd = "cutover"
    BY <1>12, <1>a DEF CutoverBegin, Begin, Step, Idle
  <2> QED
    BY <2>1 DEF Bound
<1> QED
  BY <1>1, <1>2, <1>3, <1>4, <1>6, <1>7, <1>8, <1>9, <1>10, <1>11, <1>12 DEF ControllerStep

LEMMA BindsStep == Typed /\ Binds /\ [Next]_vars => Binds'
<1> SUFFICES ASSUME Typed, Binds, [Next]_vars PROVE Binds'
  OBVIOUS
<1>a. \A q \in Operators : Bound(proc[q])
  BY DEF Binds
<1>1. ASSUME NEW q \in Operators PROVE Bound(proc[q])'
  <2>1. CASE Next /\ Watched(q)
    BY <1>a, <2>1 DEF Watched, Same, Bound, Clean
  <2>2. CASE RuntimeStep(q)
    <3>1. CASE proc'[q].cmd \in {"none", "reconstruct", "build", "prepare"}
      BY <3>1 DEF Bound
    <3>2. CASE UNCHANGED <<proc, repo>>
      BY <1>a, <3>2 DEF Bound, Clean
    <3> QED
      BY <2>2, <3>1, <3>2, RuntimeCommands
  <2>3. CASE ControllerStep(q)
    BY <1>a, <2>3, BoundOwn
  <2>4. CASE UNCHANGED vars
    BY <1>a, <2>4 DEF vars, runtimeVars, Bound, Clean
  <2> QED
    BY <2>1, <2>2, <2>3, <2>4, Watching DEF Own
<1>2. InstallBinds'
  <2>1. CASE UNCHANGED controllers
    BY <2>1 DEF Binds, InstallBinds, Installed
  <2>2. ASSUME NEW o \in Operators, Publish(o) PROVE InstallBinds'
    <3>1. proc[o].head \in Commits /\ controllers \in [Commits -> Releases \cup {NoRelease}]
          /\ controllers' = [controllers EXCEPT ![proc[o].head] = Release(proc[o])]
      BY <2>2 DEF Publish, At, Typed, TypeOK, Carried
    <3>2. Release(proc[o]).quiet => /\ Release(proc[o]).tree = proc[o].head
                                    /\ Release(proc[o]).source = proc[o].head
                                    /\ Release(proc[o]).digest = PolicyOf[proc[o].head]
      BY <2>2, <1>a DEF Publish, At, Release, Bound, Typed, Carried
    <3> QED
      BY <3>1, <3>2 DEF Binds, InstallBinds, Installed
  <2> QED
    BY <2>1, <2>2, ControllersStay
<1> QED
  BY <1>1, <1>2 DEF Binds

LEMMA BindsInit == Init => Binds
<1> SUFFICES ASSUME Init PROVE Binds
  OBVIOUS
<1>1. PICK past \in Pasts : RuntimeInit(past) /\ controllers = [c \in Commits |-> PastRelease(c, past[c])]
  BY DEF Init
<1>2. \A o \in Operators : Bound(proc[o])
  BY <1>1 DEF RuntimeInit, Bound, Idle
<1>3. InstallBinds
  BY <1>1 DEF InstallBinds, Installed, PastRelease
<1> QED
  BY <1>2, <1>3 DEF Binds

\* A release holds the source and the runtime of the commit it is named for, unless somebody
\* touched the repository while it was installed.
THEOREM InstallBindsCorrect == Spec => []InstallBinds
<1>1. Binds => InstallBinds
  BY DEF Binds
<1> QED
  BY <1>1, BindsInit, BindsStep, TypedAlways, PTL DEF Spec

-----------------------------------------------------------------------------
(* What stands behind the launcher.                                        *)

\* What an activation that met no other has put in place so far, and what a verification that
\* met none has found.
Paired(p) ==
    "active" \notin p.seen =>
        /\ p.cmd = "activate" =>
              /\ p.pc \in Activating \cup {"pass"} =>
                    p.head \in Commits /\ Installed(p.head) /\ p.name = controllers[p.head].name
              /\ p.pc \in {"stating", "launching", "pass"} => link = p.head
              /\ p.pc \in {"launching", "pass"} => active.head = p.head /\ active.name = p.name
        /\ p.cmd = "verify" /\ p.pc \in Verifying \cup {"pass"} =>
              /\ p.head \in Commits /\ Installed(p.head) /\ p.digest = controllers[p.head].digest
              /\ active.head = p.head /\ active.name = controllers[p.head].name
              /\ p.pc \in {"reading", "running", "pass"} => link = p.head
              /\ p.pc \in {"running", "pass"} => PolicyOf[controllers[p.head].source] = p.digest

Pairs == \A o \in Operators : Paired(proc[o])

\* Nothing of what Paired says of a process changes while link and state stay.
LEMMA PairedStays ==
    ASSUME Typed, [Next]_vars, NEW q \in Operators, Paired(proc[q]), Same(proc[q], proc'[q]),
           \/ UNCHANGED <<link, active>>
           \/ proc[q].cmd \notin {"activate", "verify"}
           \/ "active" \in proc'[q].seen
    PROVE  Paired(proc[q])'
<1>1. \A c \in Commits : Installed(c) => Installed(c)' /\ controllers'[c] = controllers[c]
  BY InstalledStaysStep DEF Installed
<1> QED
  BY <1>1 DEF Same, Paired

LEMMA PairedOwn ==
    ASSUME Typed, Next, NEW o \in Operators, Paired(proc[o]), ControllerStep(o)
    PROVE  Paired(proc[o])'
<1>a. /\ proc \in [Operators -> Processes] /\ proc[o] \in Processes /\ Carried(proc[o])
      /\ active \in [head : Commits, name : Names] \cup {NoController}
  BY DEF Typed, TypeOK
<1>b. \A c \in Commits : Installed(c) => Installed(c)' /\ controllers'[c] = controllers[c]
  BY InstalledStaysStep DEF Installed
<1>c. ASSUME proc'[o].cmd \notin {"activate", "verify"} PROVE Paired(proc[o])'
  BY <1>c DEF Paired
<1>1. CASE \/ \E cmd \in DOMAIN AfterPreflight : ReadHead(o, cmd)
           \/ PublishFails(o) \/ CutoverBegin(o)
  <2>1. ASSUME NEW cmd \in DOMAIN AfterPreflight, ReadHead(o, cmd) PROVE proc'[o].cmd \notin {"activate", "verify"}
    <3>1. proc'[o].cmd = cmd
      BY <2>1, <1>a DEF ReadHead, Begin, Step, Idle
    <3> QED
      BY <3>1 DEF AfterPreflight
  <2>2. CASE PublishFails(o)
    BY <2>2, <1>a, <1>c DEF PublishFails, Fail, Step, Idle
  <2>3. CASE CutoverBegin(o)
    BY <2>3, <1>a, <1>c DEF CutoverBegin, Begin, Step, Idle
  <2> QED
    BY <1>1, <1>c, <2>1, <2>2, <2>3
<1>2. CASE \/ QualifyRuntime(o) \/ ReadTree(o) \/ FindInstalled(o) \/ ArchiveHead(o) \/ Publish(o)
           \/ VerifyInstalled(o) \/ ReadWitness(o) \/ Adopt(o) \/ Cutover(o)
  <2>1. proc[o].cmd \notin {"activate", "verify"}
    BY <1>2, <1>a DEF QualifyRuntime, ReadTree, FindInstalled, ArchiveHead, Publish, VerifyInstalled, ReadWitness,
                      Adopt, Cutover, At, Carried
  <2>2. proc'[o].cmd = proc[o].cmd
    <3>1. CASE Publish(o) \/ VerifyInstalled(o) \/ Adopt(o) \/ Cutover(o)
      BY <3>1, <1>a DEF Publish, VerifyInstalled, Adopt, Cutover, Go, Pass, Step, Processes
    <3>2. CASE QualifyRuntime(o)
      BY <3>2, <1>a DEF QualifyRuntime, Step, Processes
    <3>3. CASE ReadTree(o)
      BY <3>3, <1>a DEF ReadTree, Step, Processes
    <3>4. CASE FindInstalled(o)
      BY <3>4, <1>a DEF FindInstalled, Step, Processes
    <3>5. CASE ArchiveHead(o)
      BY <3>5, <1>a DEF ArchiveHead, Step, Processes
    <3>6. CASE ReadWitness(o)
      BY <3>6, <1>a DEF ReadWitness, Step, Processes
    <3> QED
      BY <1>2, <3>1, <3>2, <3>3, <3>4, <3>5, <3>6
  <2> QED
    BY <1>c, <2>1, <2>2
<1>3. ASSUME NEW c \in Commits, ActivateBegin(o, c) PROVE Paired(proc[o])'
  <2> DEFINE new == [Idle EXCEPT !.cmd = "activate", !.pc = "linking", !.head = c, !.name = controllers[c].name]
  <2>1. proc'[o] = new /\ Installed(c)
    BY <1>3, <1>a DEF ActivateBegin, Begin, Step, ReleaseOK
  <2>2. new.cmd = "activate" /\ new.pc = "linking" /\ new.head = c /\ new.name = controllers[c].name
    BY DEF Idle
  <2> HIDE DEF new
  <2> QED
    BY <1>b, <2>1, <2>2 DEF Paired
<1>4. CASE ReplaceLink(o)
  <2> DEFINE new == [proc[o] EXCEPT !.pc = "stating"]
  <2>1. proc'[o] = new /\ proc[o].pc = "linking" /\ proc[o].cmd = "activate" /\ link' = proc[o].head
    BY <1>4, <1>a DEF ReplaceLink, StepTouching, At, Carried
  <2>2. new.cmd = proc[o].cmd /\ new.pc = "stating" /\ new.head = proc[o].head /\ new.name = proc[o].name
        /\ new.seen = proc[o].seen
    BY <1>a DEF Processes
  <2> HIDE DEF new
  <2> QED
    BY <1>b, <2>1, <2>2 DEF Paired
<1>5. CASE ReplaceState(o)
  <2> DEFINE new == [proc[o] EXCEPT !.pc = "launching"]
  <2>1. proc'[o] = new /\ proc[o].pc = "stating" /\ proc[o].cmd = "activate" /\ UNCHANGED link
        /\ active' = [head |-> proc[o].head, name |-> proc[o].name]
    BY <1>5, <1>a DEF ReplaceState, StepTouching, At, Carried
  <2>2. new.cmd = proc[o].cmd /\ new.pc = "launching" /\ new.head = proc[o].head /\ new.name = proc[o].name
        /\ new.seen = proc[o].seen
    BY <1>a DEF Processes
  <2> HIDE DEF new
  <2> QED
    BY <1>b, <2>1, <2>2 DEF Paired
<1>6. CASE ReplaceLauncher(o)
  <2> DEFINE new == [proc[o] EXCEPT !.pc = "pass"]
  <2>1. proc'[o] = new /\ proc[o].pc = "launching" /\ proc[o].cmd = "activate" /\ UNCHANGED <<link, active>>
    BY <1>6, <1>a DEF ReplaceLauncher, Pass, Go, Step, At, Carried
  <2>2. new.cmd = proc[o].cmd /\ new.pc = "pass" /\ new.head = proc[o].head /\ new.name = proc[o].name
        /\ new.seen = proc[o].seen
    BY <1>a DEF Processes
  <2> HIDE DEF new
  <2> QED
    BY <1>b, <2>1, <2>2 DEF Paired
<1>7. CASE VerifyBegin(o)
  <2> DEFINE new == [Idle EXCEPT !.cmd = "verify", !.pc = "resolving", !.head = active.head,
                                 !.digest = controllers[active.head].digest]
  <2>1. /\ proc'[o] = new /\ active.head \in Commits /\ Installed(active.head)
        /\ active.name = controllers[active.head].name /\ UNCHANGED <<link, active>>
    BY <1>7, <1>a DEF VerifyBegin, Begin, Step, ReleaseOK, controllerVars
  <2>2. new.cmd = "verify" /\ new.pc = "resolving" /\ new.head = active.head
        /\ new.digest = controllers[active.head].digest
    BY DEF Idle
  <2> HIDE DEF new
  <2> QED
    BY <1>b, <2>1, <2>2 DEF Paired
<1>8. CASE ResolveLink(o) \/ ReadInstalledPolicy(o) \/ RunLauncher(o)
  <2>1. PICK pc : Go(o, pc) /\ pc \in {"reading", "running", "pass"}
    BY <1>8 DEF ResolveLink, ReadInstalledPolicy, RunLauncher, Pass
  <2> DEFINE new == [proc[o] EXCEPT !.pc = pc]
  <2>2. /\ proc'[o] = new /\ proc[o].cmd = "verify" /\ UNCHANGED <<link, active, controllers>>
        /\ proc[o].pc \in Verifying
    BY <1>8, <1>a, <2>1 DEF ResolveLink, ReadInstalledPolicy, RunLauncher, Go, Step, At, Carried, controllerVars
  <2>3. new.cmd = proc[o].cmd /\ new.pc = pc /\ new.head = proc[o].head /\ new.digest = proc[o].digest
        /\ new.seen = proc[o].seen
    BY <1>a DEF Processes
  <2> HIDE DEF new
  <2>4. /\ proc[o].pc = "resolving" => link = proc[o].head
        /\ proc[o].pc = "resolving" => pc = "reading"
        /\ proc[o].pc = "reading" => pc = "running" /\ PolicyOf[controllers[link].source] = proc[o].digest
        /\ proc[o].pc = "running" => pc = "pass"
    <3>1. (\A x : Go(o, x) => proc'[o].pc = x) /\ proc'[o].pc = pc
      BY <1>a, <2>2, <2>3 DEF Go, Step, Processes
    <3> QED
      BY <1>8, <3>1 DEF ResolveLink, ReadInstalledPolicy, RunLauncher, Pass, At
  <2> QED
    BY <1>b, <2>1, <2>2, <2>3, <2>4 DEF Paired
<1> QED
  BY <1>1, <1>2, <1>3, <1>4, <1>5, <1>6, <1>7, <1>8 DEF ControllerStep

LEMMA PairsStep == Typed /\ Pairs /\ [Next]_vars => Pairs'
<1> SUFFICES ASSUME Typed, Pairs, [Next]_vars, NEW q \in Operators PROVE Paired(proc[q])'
  BY DEF Pairs
<1>1. Paired(proc[q])
  BY DEF Pairs
<1>2. Same(proc[q], proc[q])
  BY DEF Typed, TypeOK, Processes, Same
<1>3. CASE Next /\ Watched(q)
  BY <1>1, <1>3, PairedStays DEF Watched
<1>4. CASE RuntimeStep(q) /\ UNCHANGED controllerVars
  BY <1>1, <1>2, <1>4, PairedStays, RuntimeCommands DEF Paired, controllerVars
<1>5. CASE Next /\ ControllerStep(q)
  BY <1>1, <1>5, PairedOwn
<1>6. CASE UNCHANGED vars
  BY <1>1, <1>2, <1>6, PairedStays DEF vars, runtimeVars, controllerVars
<1> QED
  BY <1>3, <1>4, <1>5, <1>6, Watching DEF Own

LEMMA PairsInit == Init => Pairs
<1> SUFFICES ASSUME Init, NEW o \in Operators PROVE Paired(proc[o])
  BY DEF Pairs
<1>1. proc[o] = Idle
  BY DEF Init, RuntimeInit
<1> QED
  BY <1>1 DEF Paired, Idle

\* An activation or a verification that reports PASS and met no other activation leaves or
\* found source and runtime of one release.
THEOREM InstallationPairedCorrect == Spec => []InstallationPaired
<1>1. Pairs => InstallationPaired
  BY DEF Pairs, Paired, InstallationPaired, At
<1> QED
  BY <1>1, PairsInit, PairsStep, TypedAlways, PTL DEF Spec

-----------------------------------------------------------------------------
(* The runtimes of the installed controllers.                              *)

\* Between mkdir and the report a release directory belongs to the command that made it.
Makes(p) == p.pc \in Preparing /\ p.made

Kept(n, d) == n \in printed /\ (n \notin used.contested => runtime[n] = d)

Keeps(o) ==
    /\ shell[o] \in printed
    /\ proc[o].pc \in {"tree", "archiving", "publishing"} => Kept(proc[o].name, proc[o].digest)
    /\ proc[o].pc \in {"copying", "writing", "checking"} => proc[o].made
    /\ proc[o].pc = "making" => ~proc[o].made

Owns(o) ==
    Makes(proc[o]) /\ proc[o].name \notin used.contested =>
        /\ runtime[proc[o].name] # None /\ proc[o].name \notin printed
        /\ \A q \in Operators : q # o /\ Makes(proc[q]) => proc[q].name # proc[o].name

InstalledKept(c) == Installed(c) => Kept(controllers[c].name, controllers[c].digest)
There == \A n \in printed \ used.contested : runtime[n] # None

RunsOK ==
    /\ \A o \in Operators : Keeps(o) /\ Owns(o)
    /\ (\A c \in Commits : InstalledKept(c)) /\ There

\* A step that leaves the runtimes and the releases alone, and after which its command has nothing
\* new to keep.
LEMMA QuietStep ==
    ASSUME Typed, RunsOK, NEW o \in Operators, UNCHANGED <<runtime, printed, shell, controllers>>,
           used'.contested = used.contested,
           \A q \in Operators : q # o => Same(proc[q], proc'[q]),
           proc'[o].pc \in {"tree", "archiving", "publishing"} => Kept(proc'[o].name, proc'[o].digest),
           proc'[o].pc \in {"copying", "writing", "checking"} => proc'[o].made,
           proc'[o].pc = "making" => ~proc'[o].made,
           Makes(proc'[o]) => Makes(proc[o]) /\ proc'[o].name = proc[o].name
    PROVE  RunsOK'
<1>1. ASSUME NEW q \in Operators
      PROVE  /\ Keeps(q)'
             /\ Makes(proc'[q]) => Makes(proc[q]) /\ proc'[q].name = proc[q].name
  BY DEF RunsOK, Keeps, Owns, InstalledKept, There, Kept, Makes, Same
<1>2. ASSUME NEW q \in Operators
      PROVE  Owns(q)'
  BY <1>1, <1>2 DEF RunsOK, Keeps, Owns, InstalledKept, There, Kept, Makes
<1>3. /\ \A c \in Commits : InstalledKept(c)'
      /\ There'
  BY DEF RunsOK, Keeps, Owns, InstalledKept, There, Kept, Makes, Installed
<1> QED
  BY <1>1, <1>2, <1>3 DEF RunsOK, Keeps, Owns, InstalledKept, There, Kept, Makes

LEMMA GoFields ==
    ASSUME Typed, NEW o \in Operators, NEW pc, Go(o, pc)
    PROVE  /\ proc'[o].pc = pc /\ proc'[o].cmd = proc[o].cmd /\ proc'[o].name = proc[o].name
           /\ proc'[o].digest = proc[o].digest /\ proc'[o].made = proc[o].made
BY DEF Go, Step, Typed, TypeOK, Processes

\* A step in which a command makes or fills the release directory it owns.
LEMMA MakersStep ==
    ASSUME Typed, RunsOK, NEW o \in Operators, UNCHANGED <<printed, shell, controllers, used>>,
           \A q \in Operators : q # o => Same(proc[q], proc'[q]),
           proc'[o].pc \in {"copying", "writing"}, proc'[o].made, proc'[o].name = proc[o].name,
           runtime'[proc[o].name] # None,
           \A m \in Names : m # proc[o].name => runtime'[m] = runtime[m],
           proc[o].name \notin used.contested =>
               /\ proc[o].name \notin printed
               /\ \A q \in Operators : q # o /\ Makes(proc[q]) => proc[q].name # proc[o].name
    PROVE  RunsOK'
<1>0. printed \subseteq Names
  BY DEF Typed, TypeOK
<1>1. \A m, d : Kept(m, d) => Kept(m, d)'
  BY <1>0 DEF Kept
<1>2. ASSUME NEW q \in Operators
      PROVE  /\ Keeps(q)'
             /\ proc'[q].name = proc[q].name
             /\ Makes(proc'[q]) /\ q # o => Makes(proc[q]) /\ proc[q].name \in Names
  <2>1. Carried(proc[q])
    BY DEF Typed
  <2>2. CASE q = o
    BY <2>2 DEF RunsOK, Keeps, Owns, InstalledKept, There, Kept, Makes
  <2>3. CASE q # o
    <3>1. Same(proc[q], proc'[q])
      BY <2>3
    <3>2. proc[q].pc \in Preparing => proc[q].name \in Names
      BY <2>1 DEF Carried
    <3> QED
      BY <1>1, <2>3, <3>1, <3>2 DEF RunsOK, Keeps, Owns, InstalledKept, There, Kept, Makes, Same
  <2> QED
    BY <2>2, <2>3
<1>3. ASSUME NEW q \in Operators
      PROVE  Owns(q)'
  BY <1>2, <1>3 DEF RunsOK, Keeps, Owns, InstalledKept, There, Kept, Makes
<1>4. /\ \A c \in Commits : InstalledKept(c)'
      /\ There'
  BY <1>0, <1>1 DEF RunsOK, Keeps, Owns, InstalledKept, There, Kept, Makes, Installed
<1> QED
  BY <1>2, <1>3, <1>4 DEF RunsOK, Keeps, Owns, InstalledKept, There, Kept, Makes

LEMMA RuntimeRunsOK ==
    ASSUME Typed, RunsOK, NEW o \in Operators, RuntimeStep(o), UNCHANGED controllerVars
    PROVE  RunsOK'
<1>a. /\ proc \in [Operators -> Processes] /\ proc[o] \in Processes /\ Carried(proc[o])
      /\ UNCHANGED controllers /\ used \in [acts : 0..MaxActs, contested : SUBSET Names]
      /\ runtime \in [Names -> Digests \cup {None, Partial}] /\ shell \in [Operators -> Names]
  BY DEF Typed, TypeOK, controllerVars
<1>b. ASSUME NEW q \in Operators, q # o PROVE Same(proc[q], proc'[q])
  BY <1>b, OthersWatch DEF Watched
<1>c. Carried(proc'[o])
  BY TypedStep DEF Next, Typed
<1>1. CASE \/ AddWorktree(o) \/ CheckWorktree(o) \/ RemoveWorktree(o) \/ ReadLock(o) \/ Compile(o)
           \/ CompileFails(o) \/ CheckBuilt(o) \/ VerifyCandidate(o) \/ BuildFails(o) \/ RestoreLock(o)
           \/ RecheckWorktree(o) \/ ReconstructBegin(o) \/ BuildBegin(o) \/ Crash(o)
           \/ (Return(o) \/ Fails(o)) /\ UNCHANGED <<repo, worktree, target, runtime, shell, printed, used>>
  <2>1. UNCHANGED <<runtime, printed, shell>>
    BY <1>1 DEF AddWorktree, CheckWorktree, RemoveWorktree, ReadLock, Compile, CompileFails, CheckBuilt,
                VerifyCandidate, BuildFails, RestoreLock, RecheckWorktree, ReconstructBegin, BuildBegin, Crash
  <2>2. used' = used \/ used' = [used EXCEPT !.acts = @ + 1]
    BY <1>1 DEF AddWorktree, CheckWorktree, RemoveWorktree, ReadLock, Compile, CompileFails, CheckBuilt,
                VerifyCandidate, BuildFails, RestoreLock, RecheckWorktree, ReconstructBegin, BuildBegin, Crash, Begin
  <2>3. used'.contested = used.contested
    BY <1>a, <2>2
  <2>4. proc'[o].pc \notin Preparing \cup Installing
    <3>1. CASE Fail(o)
      BY <3>1, <1>a DEF Fail, Step, Idle
    <3>2. CASE \E pc : Go(o, pc) /\ pc \in {"added", "pass", "built", "restoring", "verifying", "rechecking"}
      BY <3>2, GoFields
    <3>3. CASE ReadLock(o)
      BY <3>3, <1>a DEF ReadLock, Step, Processes
    <3>4. CASE VerifyCandidate(o)
      BY <3>4, <1>a DEF VerifyCandidate, Step, Processes
    <3>5. CASE ReconstructBegin(o)
      <4> DEFINE new == [Idle EXCEPT !.cmd = "reconstruct", !.pc = "adding"]
      <4>1. proc'[o] = new
        BY <3>5, <1>a DEF ReconstructBegin, Begin, Step
      <4>2. new.pc = "adding"
        BY DEF Idle
      <4> HIDE DEF new
      <4> QED
        BY <4>1, <4>2
    <3>6. CASE BuildBegin(o)
      <4> DEFINE new == [Idle EXCEPT !.cmd = "build", !.pc = "locking"]
      <4>1. proc'[o] = new
        BY <3>6, <1>a DEF BuildBegin, Begin, Step
      <4>2. new.pc = "locking"
        BY DEF Idle
      <4> HIDE DEF new
      <4> QED
        BY <4>1, <4>2
    <3>7. CASE RestoreLock(o)
      <4>1. Idle.pc = "idle"
        BY DEF Idle
      <4>2. [proc[o] EXCEPT !.pc = "rechecking"].pc = "rechecking"
        BY <1>a DEF Processes
      <4>3. proc'[o] = Idle \/ proc'[o] = [proc[o] EXCEPT !.pc = "rechecking"]
        BY <3>7, Restored
      <4> QED
        BY <4>1, <4>2, <4>3
    <3>8. CASE AddWorktree(o) \/ CheckWorktree(o) \/ RemoveWorktree(o) \/ RecheckWorktree(o)
      BY <3>8, <3>1, <3>2 DEF AddWorktree, CheckWorktree, RemoveWorktree, RecheckWorktree, Pass
    <3>9. CASE Compile(o) \/ CompileFails(o) \/ CheckBuilt(o) \/ BuildFails(o)
      BY <3>9, <3>1, <3>2 DEF Compile, CompileFails, CheckBuilt, BuildFails, Pass
    <3>10. CASE Crash(o) \/ Return(o) \/ Fails(o)
      BY <3>10, <3>1 DEF Crash, Return, Fails
    <3> QED
      BY <1>1, <3>3, <3>4, <3>5, <3>6, <3>7, <3>8, <3>9, <3>10
  <2> QED
    BY <1>a, <1>b, <2>1, <2>3, <2>4, QuietStep DEF Makes
<1>2. ASSUME NEW n \in Names, PrepareBegin(o, n) PROVE RunsOK'
  <2> DEFINE new == [Idle EXCEPT !.cmd = "prepare", !.pc = "making", !.name = n, !.digest = target]
  <2>1. /\ proc'[o] = new /\ UNCHANGED <<runtime, printed, shell>> /\ used' = [used EXCEPT !.acts = @ + 1]
    BY <1>2, <1>a DEF PrepareBegin, Begin, Step
  <2>2. new.pc = "making" /\ ~new.made
    BY DEF Idle
  <2> HIDE DEF new
  <2>3. used'.contested = used.contested
    BY <1>a, <2>1
  <2> QED
    BY <1>a, <1>b, <2>1, <2>2, <2>3, QuietStep DEF Makes
<1>3. CASE MakeFails(o) \/ PrepareFails(o)
  <2>1. /\ Go(o, "removing") /\ UNCHANGED <<runtime, printed, shell, used>>
        /\ proc[o].pc \in Preparing /\ (proc[o].pc = "making" => ~proc[o].made)
    BY <1>3 DEF MakeFails, PrepareFails, At, RunsOK, Keeps
  <2> QED
    BY <1>a, <1>b, <2>1, GoFields, QuietStep DEF Makes
<1>4. CASE WritePolicy(o)
  <2> DEFINE new == [proc[o] EXCEPT !.pc = "checking"]
  <2>1. proc'[o] = new /\ proc[o].pc = "writing" /\ proc[o].made /\ UNCHANGED <<runtime, printed, shell, used>>
    BY <1>4, <1>a DEF WritePolicy, StepTouching, At, RunsOK, Keeps
  <2>2. new.pc = "checking" /\ new.made = proc[o].made /\ new.name = proc[o].name
    BY <1>a DEF Processes
  <2> HIDE DEF new
  <2> QED
    BY <1>a, <1>b, <2>1, <2>2, QuietStep DEF Makes
<1>5. CASE \E n \in Names : Export(o, n)
  <2>1. UNCHANGED <<proc, runtime, printed, used>> /\ \A q \in Operators : shell'[q] \in printed
    BY <1>5, <1>a DEF Export, RunsOK, Keeps
  <2> QED
    BY <1>a, <2>1 DEF RunsOK, Keeps, Owns, InstalledKept, There, Kept, Makes, Installed
<1>6. CASE MakeRelease(o)
  <2> DEFINE n == proc[o].name
             new == [proc[o] EXCEPT !.pc = "copying", !.made = TRUE]
  <2>1. /\ proc'[o] = new /\ n \in Names /\ runtime[n] = None /\ runtime' = [runtime EXCEPT ![n] = Partial]
        /\ UNCHANGED <<printed, shell, used>>
    BY <1>6, <1>a DEF MakeRelease, Step, At, Carried
  <2>2. new.pc = "copying" /\ new.made /\ new.name = n
    BY <1>a DEF Processes
  <2> HIDE DEF new
  <2>3. n \notin used.contested => n \notin printed
    BY <2>1 DEF RunsOK, Keeps, Owns, InstalledKept, There, Kept, Makes
  <2>4. /\ runtime'[n] # None
        /\ \A m \in Names : m # n => runtime'[m] = runtime[m]
    BY <1>a, <2>1, ReleaseAssumption
  <2>5. n \notin used.contested => \A q \in Operators : q # o /\ Makes(proc[q]) => proc[q].name # n
    BY <2>1 DEF RunsOK, Keeps, Owns, InstalledKept, There, Kept, Makes
  <2> QED
    BY <1>a, <1>b, <2>1, <2>2, <2>3, <2>4, <2>5, MakersStep
<1>7. CASE CopyRuntime(o)
  <2> DEFINE n == proc[o].name
  <2>1. /\ Go(o, "writing") /\ proc[o].pc = "copying" /\ proc[o].made /\ n \in Names
        /\ runtime' = [runtime EXCEPT ![n] = target] /\ target \in Digests
        /\ UNCHANGED <<printed, shell, used>>
    BY <1>7, <1>a DEF CopyRuntime, At, Carried, RunsOK, Keeps
  <2>2. Makes(proc[o])
    BY <2>1 DEF Makes
  <2>3. /\ n \notin used.contested => n \notin printed
        /\ n \notin used.contested => \A q \in Operators : q # o /\ Makes(proc[q]) => proc[q].name # n
    BY <2>2 DEF RunsOK, Keeps, Owns, InstalledKept, There, Kept, Makes
  <2>4. /\ runtime'[n] # None
        /\ \A m \in Names : m # n => runtime'[m] = runtime[m]
    BY <1>a, <2>1, ReleaseAssumption
  <2> QED
    BY <1>a, <1>b, <2>1, <2>3, <2>4, GoFields, MakersStep
<1>8. CASE CheckPolicy(o)
  <2> DEFINE n == proc[o].name
  <2>1. /\ Go(o, "pass") /\ proc[o].pc = "checking" /\ proc[o].made /\ n \in Names
        /\ printed' = printed \cup {n} /\ UNCHANGED <<runtime, shell, used>>
    BY <1>8, <1>a DEF CheckPolicy, Pass, At, Carried, RunsOK, Keeps
  <2>2. Makes(proc[o]) /\ proc'[o].pc = "pass"
    BY <2>1, GoFields DEF Makes
  <2>3. n \notin used.contested =>
            /\ runtime[n] # None
            /\ \A q \in Operators : q # o /\ Makes(proc[q]) => proc[q].name # n
    BY <2>2 DEF RunsOK, Keeps, Owns, InstalledKept, There, Kept, Makes
  <2>4. \A m, d : Kept(m, d) => Kept(m, d)'
    BY <2>1 DEF Kept
  <2>5. \A q \in Operators : q # o => Same(proc[q], proc'[q])
    BY <1>b
  <2>6. ASSUME NEW q \in Operators
        PROVE  /\ Keeps(q)'
               /\ Makes(proc'[q]) => q # o /\ Makes(proc[q]) /\ proc'[q].name = proc[q].name
    BY <2>1, <2>2, <2>4, <2>5 DEF RunsOK, Keeps, Owns, InstalledKept, There, Kept, Makes, Same
  <2>7. ASSUME NEW q \in Operators
        PROVE  Owns(q)'
    BY <2>1, <2>3, <2>6, <2>7 DEF RunsOK, Keeps, Owns, InstalledKept, There, Kept, Makes
  <2>8. /\ \A c \in Commits : InstalledKept(c)'
        /\ There'
    BY <1>a, <2>1, <2>3, <2>4 DEF RunsOK, Keeps, Owns, InstalledKept, There, Kept, Makes, Installed
  <2> QED
    BY <2>6, <2>7, <2>8 DEF RunsOK, Keeps, Owns, InstalledKept, There, Kept, Makes
<1>9. CASE RemoveRelease(o)
  <2> DEFINE n == proc[o].name
             now == used.contested \cup {m \in {n} : ~proc[o].made /\ runtime[m] # None}
  <2>1. /\ proc'[o] = Idle /\ proc[o].pc = "removing" /\ n \in Names
        /\ runtime' = [runtime EXCEPT ![n] = None] /\ used' = [used EXCEPT !.contested = now]
        /\ UNCHANGED <<printed, shell>>
    BY <1>9, <1>a DEF RemoveRelease, At, Carried, Fail, Step
  <2>2. used'.contested = now
    BY <1>a, <2>1
  <2>3. runtime'[n] = None /\ \A m \in Names : m # n => runtime'[m] = runtime[m]
    BY <1>a, <2>1
  <2>4. n \notin now => \/ runtime[n] = None
                        \/ /\ n \notin printed
                           /\ \A q \in Operators : q # o /\ Makes(proc[q]) => proc[q].name # n
    BY <2>1 DEF RunsOK, Keeps, Owns, InstalledKept, There, Kept, Makes
  <2>5. proc'[o].pc = "idle" /\ used.contested \subseteq now
    BY <2>1 DEF Idle
  <2> HIDE DEF now
  <2>6. \A m, d : m \in Names /\ Kept(m, d) /\ (m = n /\ m \notin now => d # None) => Kept(m, d)'
    BY <2>1, <2>2, <2>3, <2>4, <2>5 DEF Kept
  <2>7. ASSUME NEW q \in Operators
        PROVE  /\ Keeps(q)'
               /\ Makes(proc'[q]) => q # o /\ Makes(proc[q]) /\ proc'[q].name = proc[q].name /\ proc[q].name \in Names
    <3>1. CASE q = o
      BY <3>1, <2>1, <2>5 DEF RunsOK, Keeps, Owns, InstalledKept, There, Kept, Makes
    <3>2. CASE q # o
      <4>1. Same(proc[q], proc'[q]) /\ Carried(proc[q])
        BY <1>b, <3>2 DEF Typed
      <4>2. ASSUME proc[q].pc \in {"tree", "archiving", "publishing"}
            PROVE  Kept(proc[q].name, proc[q].digest)'
        <5>1. PICK m \in Names, d \in Digests :
                  m = proc[q].name /\ d = proc[q].digest /\ m \in printed /\ (m \notin used.contested => runtime[m] = d)
          BY <4>1, <4>2 DEF Carried, RunsOK, Keeps, Kept
        <5>2. m = proc'[q].name /\ d = proc'[q].digest
          BY <4>1, <4>2, <5>1 DEF Same
        <5>3. d # None
          BY ReleaseAssumption
        <5>4. m \in printed' /\ (m \notin used'.contested => runtime'[m] = d)
          BY <5>1, <5>3, <2>6 DEF Kept
        <5> QED
          BY <5>2, <5>4 DEF Kept
      <4>3. proc[q].pc \in Preparing => proc[q].name \in Names
        BY <4>1 DEF Carried
      <4> QED
        BY <3>2, <4>1, <4>2, <4>3, <2>1 DEF RunsOK, Keeps, Owns, InstalledKept, There, Kept, Makes, Same
    <3> QED
      BY <3>1, <3>2
  <2>8. ASSUME NEW q \in Operators
        PROVE  Owns(q)'
    BY <2>1, <2>2, <2>3, <2>4, <2>5, <2>7, <2>8 DEF RunsOK, Keeps, Owns, InstalledKept, There, Kept, Makes
  <2>9. \A c \in Commits : InstalledKept(c)'
    <3> SUFFICES ASSUME NEW c \in Commits, Installed(c) PROVE InstalledKept(c)'
      BY <1>a DEF InstalledKept, Installed
    <3> DEFINE m == controllers[c].name
               d == controllers[c].digest
    <3>1. m \in Names /\ d \in Digests /\ Kept(m, d)
      BY DEF Typed, TypeOK, Installed, Releases, RunsOK, InstalledKept
    <3>2. m = controllers'[c].name /\ d = controllers'[c].digest
      BY <1>a
    <3> HIDE DEF m, d
    <3>3. d # None
      BY <3>1, ReleaseAssumption
    <3> QED
      BY <3>1, <3>2, <3>3, <2>6 DEF InstalledKept, Kept
  <2>10. There'
    <3>1. printed \subseteq Names
      BY DEF Typed, TypeOK
    <3> QED
      BY <3>1, <2>1, <2>2, <2>3, <2>4, <2>5 DEF RunsOK, Keeps, Owns, InstalledKept, There, Kept, Makes
  <2> QED
    BY <2>7, <2>8, <2>9, <2>10 DEF RunsOK, Keeps, Owns, InstalledKept, There, Kept, Makes
<1> QED
  BY <1>1, <1>2, <1>3, <1>4, <1>5, <1>6, <1>7, <1>8, <1>9 DEF RuntimeStep

\* A command of the controllers that has a runtime to keep has found it where the policy is.
LEMMA ControllerKeeps ==
    ASSUME Typed, NEW o \in Operators, ControllerStep(o), ~Publish(o), Keeps(o), There, used.contested \in SUBSET Names
    PROVE  /\ proc'[o].pc \notin Preparing
           /\ proc'[o].pc \in {"tree", "archiving", "publishing"} => Kept(proc'[o].name, proc'[o].digest)
<1>a. proc \in [Operators -> Processes] /\ proc[o] \in Processes
  BY DEF Typed, TypeOK
<1>1. CASE VerifyInstalled(o) \/ ReplaceLauncher(o) \/ ResolveLink(o) \/ ReadInstalledPolicy(o)
           \/ RunLauncher(o) \/ Adopt(o) \/ Cutover(o)
  <2>1. \E pc \in {"pass", "reading", "running", "cutover"} : Go(o, pc)
    BY <1>1 DEF VerifyInstalled, ReplaceLauncher, ResolveLink, ReadInstalledPolicy, RunLauncher, Adopt, Cutover, Pass
  <2> QED
    BY <2>1, GoFields
<1>2. CASE PublishFails(o)
  BY <1>2, <1>a DEF PublishFails, Fail, Step, Idle
<1>3. CASE ReplaceLink(o) \/ ReplaceState(o)
  <2>1. \E pc \in {"stating", "launching"} : proc'[o] = [proc[o] EXCEPT !.pc = pc]
    BY <1>3 DEF ReplaceLink, ReplaceState, StepTouching
  <2> QED
    BY <2>1, <1>a DEF Processes
<1>4. ASSUME NEW cmd \in DOMAIN AfterPreflight, ReadHead(o, cmd) PROVE proc'[o].pc \notin Preparing \cup {"tree", "archiving", "publishing"}
  <2> DEFINE new == [Idle EXCEPT !.cmd = cmd, !.pc = "qualifying", !.head = repo.head]
  <2>1. proc'[o] = new
    BY <1>4, <1>a DEF ReadHead, Begin, Step
  <2>2. new.pc = "qualifying"
    BY <1>a DEF Idle, Processes
  <2> HIDE DEF new
  <2> QED
    BY <2>1, <2>2
<1>5. ASSUME NEW c \in Commits, ActivateBegin(o, c) PROVE proc'[o].pc \notin Preparing \cup {"tree", "archiving", "publishing"}
  <2> DEFINE new == [Idle EXCEPT !.cmd = "activate", !.pc = "linking", !.head = c, !.name = controllers[c].name]
  <2>1. proc'[o] = new
    BY <1>5, <1>a DEF ActivateBegin, Begin, Step
  <2>2. new.pc = "linking"
    BY <1>a DEF Idle, Processes
  <2> HIDE DEF new
  <2> QED
    BY <2>1, <2>2
<1>6. CASE VerifyBegin(o)
  <2> DEFINE new == [Idle EXCEPT !.cmd = "verify", !.pc = "resolving", !.head = active.head,
                                 !.digest = controllers[active.head].digest]
  <2>1. proc'[o] = new
    BY <1>6, <1>a DEF VerifyBegin, Begin, Step
  <2>2. new.pc = "resolving"
    BY <1>a DEF Idle, Processes
  <2> HIDE DEF new
  <2> QED
    BY <2>1, <2>2
<1>7. CASE CutoverBegin(o)
  <2> DEFINE new == [Idle EXCEPT !.cmd = "cutover", !.pc = "cutover"]
  <2>1. proc'[o] = new
    BY <1>7, <1>a DEF CutoverBegin, Begin, Step
  <2>2. new.pc = "cutover"
    BY <1>a DEF Idle, Processes
  <2> HIDE DEF new
  <2> QED
    BY <2>1, <2>2
<1>8. CASE FindInstalled(o)
  <2> DEFINE new == [proc[o] EXCEPT !.tree = repo.head, !.pc = "pass"]
  <2>1. proc'[o] = new
    BY <1>8, <1>a DEF FindInstalled, Step
  <2>2. new.pc = "pass"
    BY <1>a DEF Idle, Processes
  <2> HIDE DEF new
  <2> QED
    BY <2>1, <2>2
<1>9. CASE ReadWitness(o)
  <2> DEFINE pc == IF boundary = repo.head THEN "cutover" ELSE "adopting"
             new == [proc[o] EXCEPT !.tree = boundary, !.source = repo.head, !.pc = pc]
  <2>1. proc'[o] = new
    BY <1>9, <1>a DEF ReadWitness, Step
  <2>2. pc \in {"cutover", "adopting"}
    OBVIOUS
  <2> HIDE DEF pc
  <2>3. new.pc = pc
    BY <1>a DEF Processes
  <2> HIDE DEF new
  <2> QED
    BY <2>1, <2>2, <2>3
<1>10. CASE ReadTree(o) \/ ArchiveHead(o)
  <2>1. proc[o].pc \in {"tree", "archiving"}
    BY <1>10 DEF ReadTree, ArchiveHead, At
  <2>2. proc'[o].name = proc[o].name /\ proc'[o].digest = proc[o].digest /\ proc'[o].pc \in {"archiving", "publishing"}
    <3>1. CASE ReadTree(o)
      BY <3>1, <1>a DEF ReadTree, Step, Processes
    <3>2. CASE ArchiveHead(o)
      BY <3>2, <1>a DEF ArchiveHead, Step, Processes
    <3> QED
      BY <1>10, <3>1, <3>2
  <2> QED
    BY <2>1, <2>2 DEF Keeps
<1>11. CASE QualifyRuntime(o)
  <2> DEFINE pc == AfterPreflight[proc[o].cmd]
             new == [proc[o] EXCEPT !.pc = pc, !.name = shell[o], !.digest = runtime[shell[o]]]
  <2>1. proc'[o] = new
    BY <1>11, <1>a DEF QualifyRuntime, Step
  <2>2. proc[o].cmd \in DOMAIN AfterPreflight
    BY <1>11 DEF QualifyRuntime, At, Typed, Carried, AfterPreflight
  <2>3. pc \in {"pass", "tree", "witness"}
    BY <2>2 DEF AfterPreflight
  <2> HIDE DEF pc
  <2>4. new.pc = pc /\ new.name = shell[o] /\ new.digest = runtime[shell[o]]
    BY <1>a DEF Processes
  <2> HIDE DEF new
  <2> QED
    BY <2>1, <2>3, <2>4 DEF Keeps, Kept
<1> QED
  BY <1>1, <1>2, <1>3, <1>4, <1>5, <1>6, <1>7, <1>8, <1>9, <1>10, <1>11 DEF ControllerStep

\* The steps of the controllers' commands leave every runtime alone.
LEMMA ControllerRunsOK ==
    ASSUME Typed, RunsOK, NEW o \in Operators, ControllerStep(o)
    PROVE  RunsOK'
<1>a. /\ proc \in [Operators -> Processes] /\ proc[o] \in Processes /\ Carried(proc[o])
      /\ used \in [acts : 0..MaxActs, contested : SUBSET Names]
  BY DEF Typed, TypeOK
<1>b. /\ Keeps(o) /\ UNCHANGED <<runtime, printed, shell>>
      /\ used' = used \/ used' = [used EXCEPT !.acts = @ + 1]
  BY DEF ControllerStep, RunsOK, ReadHead, QualifyRuntime, ReadTree, FindInstalled, ArchiveHead, Publish,
         PublishFails, VerifyInstalled, ActivateBegin, ReplaceLink, ReplaceState, ReplaceLauncher, VerifyBegin,
         ResolveLink, ReadInstalledPolicy, RunLauncher, ReadWitness, Adopt, CutoverBegin, Cutover, Begin, others
<1>c. used'.contested = used.contested
  BY <1>a, <1>b
<1>d. \A q \in Operators : q # o => Same(proc[q], proc'[q])
  BY OthersWatch DEF Watched
<1>1. CASE Publish(o)
  <2>1. /\ Go(o, "installed") /\ proc[o].pc = "publishing"
        /\ controllers' = [controllers EXCEPT ![proc[o].head] = Release(proc[o])]
    BY <1>1 DEF Publish, At
  <2>2. proc'[o].pc = "installed"
    BY <2>1, GoFields
  <2>3. Kept(proc[o].name, proc[o].digest)
    BY <1>b, <2>1 DEF Keeps
  <2>4. ASSUME NEW c \in Commits PROVE InstalledKept(c)'
    <3>1. CASE controllers'[c] = controllers[c]
      BY <1>b, <1>c, <3>1 DEF RunsOK, InstalledKept, Installed, Kept
    <3>2. CASE controllers'[c] # controllers[c]
      <4>1. controllers'[c] = Release(proc[o])
        BY <2>1, <3>2 DEF Typed, TypeOK
      <4>2. controllers'[c].name = proc[o].name /\ controllers'[c].digest = proc[o].digest
        BY <4>1 DEF Release
      <4> QED
        BY <1>b, <1>c, <2>3, <4>2 DEF InstalledKept, Kept
    <3> QED
      BY <3>1, <3>2
  <2>5. ASSUME NEW q \in Operators PROVE Keeps(q)' /\ Owns(q)'
    <3>1. CASE q = o
      BY <1>b, <2>2, <3>1 DEF Keeps, Owns, Makes
    <3>2. CASE q # o
      <4>1. Keeps(q)'
        BY <1>b, <1>c, <1>d, <3>2 DEF RunsOK, Keeps, Kept, Same
      <4>2. \A p \in Operators : Makes(proc'[p]) => p # o /\ Makes(proc[p]) /\ proc'[p].name = proc[p].name
        BY <1>d, <2>2 DEF Makes, Same
      <4>3. Owns(q)'
        BY <1>b, <1>c, <4>2 DEF RunsOK, Owns
      <4> QED
        BY <4>1, <4>3
    <3> QED
      BY <3>1, <3>2
  <2>6. There'
    BY <1>b, <1>c DEF RunsOK, There
  <2> QED
    BY <2>4, <2>5, <2>6 DEF RunsOK
<1>2. CASE ~Publish(o)
  <2>1. UNCHANGED controllers
    BY <1>2 DEF ControllerStep, ReadHead, QualifyRuntime, ReadTree, FindInstalled, ArchiveHead, PublishFails,
                VerifyInstalled, ActivateBegin, ReplaceLink, ReplaceState, ReplaceLauncher, VerifyBegin, ResolveLink,
                ReadInstalledPolicy, RunLauncher, ReadWitness, Adopt, CutoverBegin, Cutover, controllerVars
  <2>2. /\ proc'[o].pc \notin Preparing
        /\ proc'[o].pc \in {"tree", "archiving", "publishing"} =>
              Kept(proc'[o].name, proc'[o].digest)
    BY <1>2, <1>a, <1>b, ControllerKeeps DEF RunsOK
  <2> QED
    BY <1>b, <1>c, <1>d, <2>1, <2>2, QuietStep DEF Makes
<1> QED
  BY <1>1, <1>2

\* What operators do by hand, and a checkpoint, only adds to what the commands have seen.
LEMMA MoveRunsOK ==
    ASSUME Typed, RunsOK, NEW what, Move(what), UNCHANGED <<runtime, printed, shell, controllers>>
    PROVE  RunsOK'
<1>1. \A q \in Operators : Same(proc[q], proc'[q])
  BY TouchSame DEF Move
<1>2. used'.contested = used.contested
  BY DEF Move, Typed, TypeOK
<1>3. ASSUME NEW q \in Operators PROVE Keeps(q)' /\ Makes(proc'[q]) = Makes(proc[q]) /\ proc'[q].name = proc[q].name
  BY <1>1, <1>2 DEF RunsOK, Keeps, Kept, Makes, Same
<1>4. ASSUME NEW q \in Operators PROVE Owns(q)'
  BY <1>2, <1>3 DEF RunsOK, Owns
<1>5. There' /\ \A c \in Commits : InstalledKept(c)'
  BY <1>2 DEF RunsOK, There, InstalledKept, Installed, Kept
<1> QED
  BY <1>3, <1>4, <1>5 DEF RunsOK

LEMMA RunsStep == Typed /\ RunsOK /\ [Next]_vars => RunsOK'
<1> SUFFICES ASSUME Typed, RunsOK, [Next]_vars PROVE RunsOK'
  OBVIOUS
<1>1. CASE UNCHANGED vars
  BY <1>1 DEF vars, runtimeVars, controllerVars, RunsOK, Keeps, Owns, Kept, There, InstalledKept, Installed
<1>2. CASE OperatorStep /\ UNCHANGED controllerVars
  <2>1. UNCHANGED <<runtime, printed, shell, controllers>> /\ \E what : Move(what)
    BY <1>2 DEF OperatorStep, Commit, Checkout, EditRepo, EditWorktree, controllerVars
  <2> QED
    BY <2>1, MoveRunsOK
<1>3. ASSUME NEW c \in Commits, Checkpoint(c) PROVE RunsOK'
  BY <1>3, MoveRunsOK DEF Checkpoint
<1>4. CASE ForeignLauncher
  BY <1>4, MoveRunsOK DEF ForeignLauncher, others
<1> QED
  BY <1>1, <1>2, <1>3, <1>4, RuntimeRunsOK, ControllerRunsOK DEF Next

LEMMA RunsInit == Init => RunsOK
<1> SUFFICES ASSUME NEW past \in Pasts, RuntimeInit(past),
                    controllers = [c \in Commits |-> PastRelease(c, past[c])]
             PROVE  RunsOK
  BY DEF Init
<1>1. /\ runtime = [n \in Names |-> PastRuntime(past, n)] /\ used.contested = {}
      /\ printed = {n \in Names : PastRuntime(past, n) # None}
      /\ shell = [o \in Operators |-> FirstName] /\ proc = [o \in Operators |-> Idle]
  BY DEF RuntimeInit
<1>2. PastRuntime(past, FirstName) # None
  BY ReleaseAssumption DEF PastRuntime
<1>3. ASSUME NEW o \in Operators PROVE Keeps(o) /\ Owns(o)
  BY <1>1, <1>2, ReleaseAssumption DEF Keeps, Owns, Makes, Idle
<1>4. ASSUME NEW c \in Commits PROVE InstalledKept(c)
  <2> DEFINE n == past[c]
  <2>1. CASE n = None
    BY <1>4, <2>1 DEF InstalledKept, Installed, PastRelease
  <2>2. CASE n # None
    <3>1. controllers[c] = [tree |-> c, source |-> c, name |-> n, digest |-> PolicyOf[c], quiet |-> TRUE]
      BY <2>2 DEF PastRelease
    <3>2. n \in Names /\ PastRuntime(past, n) = PolicyOf[c] /\ PolicyOf[c] # None
      BY <2>2, PastRuntimes, ReleaseAssumption
    <3> HIDE DEF n
    <3> QED
      BY <1>1, <3>1, <3>2 DEF InstalledKept, Kept
  <2> QED
    BY <2>1, <2>2
<1>5. There
  BY <1>1 DEF There
<1> QED
  BY <1>3, <1>4, <1>5 DEF RunsOK

\* An installed release keeps the very runtime its manifest records, however many preparations
\* follow, fail or die, as long as none that lost a race for its release id removed it.
THEOREM ReleaseRunsCorrect == Spec => []ReleaseRuns
<1>1. Typed /\ RunsOK => ReleaseRuns
  BY DEF RunsOK, InstalledKept, Kept, ReleaseRuns, ReleaseOK
<1> QED
  BY <1>1, RunsInit, RunsStep, TypedAlways, PTL DEF Spec
-----------------------------------------------------------------------------
(* Builds.                                                                 *)

\* What a build nobody has disturbed stands on: the worktree is gone, or it is the qualified source.
Source == worktree.at = None \/ (worktree.at = "final" /\ ~worktree.edited /\ worktree.lock # "other")

Sound(p) ==
    p.cmd = "build" /\ "worktree" \notin p.seen =>
        /\ Source /\ p.lock # "other"
        /\ p.pc \in {"built", "verifying"} => target \in Qualified
        /\ p.digest \in Qualified \cup {None}
        /\ p.pc \in {"rechecking", "pass"} => p.digest \in Qualified

Builds == \A o \in Operators : Sound(proc[o])

\* No command edits the qualified source, and what any of them compiles from it is qualified.
LEMMA SourceStep ==
    ASSUME Typed, NEW o \in Operators, RuntimeStep(o), Source,
           RestoreLock(o) /\ worktree.at # None => proc[o].lock # "other"
    PROVE  Source' /\ (target' = target \/ target' \in Qualified)
<1>a. WorktreeOK /\ proc[o] \in Processes
  BY DEF Typed, TypeOK, WorktreeOK
<1>1. CASE AddWorktree(o) \/ RemoveWorktree(o)
  BY <1>1 DEF AddWorktree, RemoveWorktree, Reconstructed, NoWorktree, Source
<1>2. CASE Compile(o) \/ CompileFails(o)
  <2>1. PICK lock \in Refreshed : worktree' = [worktree EXCEPT !.lock = lock]
    BY <1>2 DEF Compile, CompileFails
  <2>2. worktree.lock # "other" => lock # "other"
    BY <2>1 DEF Refreshed
  <2>3. Source'
    BY <1>a, <2>1, <2>2 DEF Source, WorktreeOK
  <2>4. target' = target \/ target' \in Qualified
    BY <1>2 DEF Compile, CompileFails, Source
  <2> QED
    BY <2>3, <2>4
<1>3. CASE RestoreLock(o)
  <2>1. \/ worktree' = worktree
        \/ worktree.at # None /\ worktree' = [worktree EXCEPT !.lock = proc[o].lock]
    BY <1>3 DEF RestoreLock
  <2>2. target' = target
    BY <1>3 DEF RestoreLock
  <2> QED
    BY <1>3, <1>a, <2>1, <2>2 DEF Source, WorktreeOK
<1>4. CASE UNCHANGED <<worktree, target>>
  BY <1>4 DEF Source
<1>5. \/ UNCHANGED <<worktree, target>>
      \/ AddWorktree(o) \/ RemoveWorktree(o) \/ Compile(o) \/ CompileFails(o) \/ RestoreLock(o)
  BY DEF RuntimeStep, ReconstructBegin, CheckWorktree, BuildBegin, ReadLock, CheckBuilt, VerifyCandidate, BuildFails,
         RecheckWorktree, PrepareBegin, MakeRelease, MakeFails, CopyRuntime, WritePolicy, CheckPolicy,
         PrepareFails, RemoveRelease, Export, Return, Fails, Crash
<1> QED
  BY <1>1, <1>2, <1>3, <1>4, <1>5

LEMMA ControllerSource ==
    ASSUME NEW o \in Operators, ControllerStep(o)
    PROVE  UNCHANGED <<worktree, target>>
BY DEF ControllerStep, ReadHead, QualifyRuntime, ReadTree, FindInstalled, ArchiveHead, Publish, PublishFails,
       VerifyInstalled, ActivateBegin, ReplaceLink, ReplaceState, ReplaceLauncher, VerifyBegin, ResolveLink,
       ReadInstalledPolicy, RunLauncher, ReadWitness, Adopt, CutoverBegin, Cutover, others

LEMMA TouchSource ==
    ASSUME NEW q \in Operators, Typed, proc[q].cmd = "build", proc'[q] = Touch({"worktree"}, q)
    PROVE  "worktree" \in proc'[q].seen
<1> DEFINE seen == proc[q].seen \cup ({"worktree"} \cap Reads(proc[q].cmd))
<1>1. proc[q] \in Processes
  BY DEF Typed, TypeOK
<1>2. Touch({"worktree"}, q) = [proc[q] EXCEPT !.seen = seen]
  BY DEF Touch
<1>3. "worktree" \in seen
  BY DEF Reads
<1> HIDE DEF seen
<1> QED
  BY <1>1, <1>2, <1>3 DEF Processes

\* A build whose source anybody else changes learns of it.
LEMMA SourceWatched ==
    ASSUME Typed, Next, NEW q \in Operators, ~Own(q), Source, proc[q].cmd = "build",
           "worktree" \notin proc'[q].seen
    PROVE  Source' /\ (target' = target \/ target' \in Qualified)
<1>1. ASSUME NEW o \in Operators, RuntimeStep(o), UNCHANGED controllerVars
      PROVE  Source' /\ (target' = target \/ target' \in Qualified)
  <2>1. o # q
    BY <1>1 DEF Own
  <2>2. RestoreLock(o) /\ worktree.at # None => proc[o].lock # "other"
    <3> SUFFICES ASSUME RestoreLock(o), worktree.at # None, proc[o].lock = "other" PROVE FALSE
      OBVIOUS
    <3>1. proc'[q] = Touch({"worktree"}, q)
      BY <2>1 DEF RestoreLock, StepTouching
    <3> QED
      BY <3>1, TouchSource
  <2> QED
    BY <1>1, <2>2, SourceStep
<1>2. ASSUME NEW o \in Operators, ControllerStep(o)
      PROVE  Source' /\ (target' = target \/ target' \in Qualified)
  BY <1>2, ControllerSource DEF Source
<1>3. CASE OperatorStep \/ (\E c \in Commits : Checkpoint(c)) \/ ForeignLauncher
  <2>1. ASSUME NEW w \in EditedWorktrees, EditWorktree(w) PROVE FALSE
    <3>1. proc'[q] = Touch({"worktree"}, q)
      BY <2>1 DEF EditWorktree, Move
    <3> QED
      BY <3>1, TouchSource
  <2>2. UNCHANGED <<worktree, target>>
    BY <1>3, <2>1 DEF OperatorStep, Commit, Checkout, EditRepo, Checkpoint, ForeignLauncher, others
  <2> QED
    BY <2>2 DEF Source
<1> QED
  BY <1>1, <1>2, <1>3 DEF Next

\* The commands of a release are no builds.
LEMMA ControllerCommands ==
    ASSUME NEW o \in Operators, Typed, ControllerStep(o)
    PROVE  proc'[o].cmd # "build"
<1>a. proc \in [Operators -> Processes] /\ proc[o] \in Processes /\ Carried(proc[o])
  BY DEF Typed, TypeOK
<1>1. ASSUME NEW cmd \in DOMAIN AfterPreflight, ReadHead(o, cmd) PROVE proc'[o].cmd # "build"
  <2> DEFINE new == [Idle EXCEPT !.cmd = cmd, !.pc = "qualifying", !.head = repo.head]
  <2>1. proc'[o] = new
    BY <1>1, <1>a DEF ReadHead, Begin, Step
  <2>2. new.cmd = cmd /\ cmd # "build"
    BY DEF Idle, AfterPreflight
  <2> HIDE DEF new
  <2> QED
    BY <2>1, <2>2
<1>2. CASE QualifyRuntime(o) \/ ReadTree(o) \/ ArchiveHead(o) \/ FindInstalled(o) \/ ReadWitness(o)
  <2>1. proc[o].cmd # "build"
    BY <1>2, <1>a DEF QualifyRuntime, ReadTree, ArchiveHead, FindInstalled, ReadWitness, At, Carried
  <2>2. proc'[o].cmd = proc[o].cmd
    <3>1. CASE QualifyRuntime(o)
      BY <3>1, <1>a DEF QualifyRuntime, Step, Processes
    <3>2. CASE ReadTree(o)
      BY <3>2, <1>a DEF ReadTree, Step, Processes
    <3>3. CASE ArchiveHead(o)
      BY <3>3, <1>a DEF ArchiveHead, Step, Processes
    <3>4. CASE FindInstalled(o)
      BY <3>4, <1>a DEF FindInstalled, Step, Processes
    <3>5. CASE ReadWitness(o)
      BY <3>5, <1>a DEF ReadWitness, Step, Processes
    <3> QED
      BY <1>2, <3>1, <3>2, <3>3, <3>4, <3>5
  <2> QED
    BY <2>1, <2>2
<1>3. CASE Publish(o) \/ VerifyInstalled(o) \/ ReplaceLauncher(o) \/ ResolveLink(o) \/ ReadInstalledPolicy(o)
           \/ RunLauncher(o) \/ Adopt(o) \/ Cutover(o)
  <2>1. proc[o].cmd # "build"
    BY <1>3, <1>a DEF Publish, VerifyInstalled, ReplaceLauncher, ResolveLink, ReadInstalledPolicy, RunLauncher,
                      Adopt, Cutover, At, Carried
  <2>2. \E pc : Go(o, pc)
    BY <1>3 DEF Publish, VerifyInstalled, ReplaceLauncher, ResolveLink, ReadInstalledPolicy, RunLauncher,
                Adopt, Cutover, Pass
  <2> QED
    BY <2>1, <2>2, GoFields
<1>4. CASE PublishFails(o)
  BY <1>4, <1>a DEF PublishFails, Fail, Step, Idle
<1>5. CASE ReplaceLink(o) \/ ReplaceState(o)
  <2>1. proc[o].cmd = "activate"
    BY <1>5, <1>a DEF ReplaceLink, ReplaceState, At, Carried
  <2>2. proc'[o].cmd = proc[o].cmd
    BY <1>5, <1>a DEF ReplaceLink, ReplaceState, StepTouching, Processes
  <2> QED
    BY <2>1, <2>2
<1>6. ASSUME NEW c \in Commits, ActivateBegin(o, c) PROVE proc'[o].cmd # "build"
  BY <1>6, <1>a DEF ActivateBegin, Begin, Step, Idle
<1>7. CASE VerifyBegin(o)
  BY <1>7, <1>a DEF VerifyBegin, Begin, Step, Idle
<1>8. CASE CutoverBegin(o)
  BY <1>8, <1>a DEF CutoverBegin, Begin, Step, Idle
<1> QED
  BY <1>1, <1>2, <1>3, <1>4, <1>5, <1>6, <1>7, <1>8 DEF ControllerStep

\* A build's own steps, from the check of the worktree to the report.
LEMMA BuildOwn ==
    ASSUME Typed, NEW o \in Operators, RuntimeStep(o), Sound(proc[o])
    PROVE  Sound(proc[o])'
<1>a. proc \in [Operators -> Processes] /\ proc[o] \in Processes /\ Carried(proc[o])
  BY DEF Typed, TypeOK
<1>b. ASSUME Source, RestoreLock(o) => proc[o].lock # "other"
      PROVE  Source' /\ (target' = target \/ target' \in Qualified)
  BY <1>b, SourceStep
<1>1. ASSUME NEW pc, Go(o, pc), RestoreLock(o) => FALSE,
             pc \in {"built", "verifying"} => target' \in Qualified \/ proc[o].pc \in {"built", "verifying"}
                                              \/ proc[o].cmd # "build" \/ "worktree" \in proc[o].seen,
             pc \in {"rechecking", "pass"} => proc[o].pc \in {"rechecking", "pass"} \/ proc[o].cmd # "build"
      PROVE  Sound(proc[o])'
  <2>1. proc'[o] = [proc[o] EXCEPT !.pc = pc]
    BY <1>1, <1>a DEF Go, Step
  <2>2. /\ proc'[o].pc = pc /\ proc'[o].cmd = proc[o].cmd /\ proc'[o].seen = proc[o].seen
        /\ proc'[o].lock = proc[o].lock /\ proc'[o].digest = proc[o].digest
    BY <1>a, <2>1 DEF Processes
  <2> QED
    BY <1>1, <1>b, <2>2 DEF Sound
<1>2. CASE Compile(o)
  <2>1. Source /\ proc[o].cmd = "build" => target' \in Qualified
    BY <1>2 DEF Compile, Source
  <2>2. Go(o, "built")
    BY <1>2 DEF Compile
  <2>3. ~RestoreLock(o)
    BY <1>2 DEF Compile, RestoreLock, At
  <2>4. proc[o].cmd = "build" /\ "worktree" \notin proc[o].seen => Source
    BY DEF Sound
  <2> QED
    BY <1>1, <2>1, <2>2, <2>3, <2>4
<1>3. CASE CheckBuilt(o) \/ CompileFails(o) \/ BuildFails(o)
  <2>1. ~RestoreLock(o)
    BY <1>3 DEF CheckBuilt, CompileFails, BuildFails, RestoreLock, At
  <2>2. (Go(o, "verifying") /\ proc[o].pc = "built") \/ Go(o, "restoring")
    BY <1>3 DEF CheckBuilt, CompileFails, BuildFails, At
  <2> QED
    BY <1>1, <2>1, <2>2
<1>4. CASE RecheckWorktree(o)
  <2>1. ~RestoreLock(o) /\ proc[o].pc = "rechecking"
    BY <1>4 DEF RecheckWorktree, RestoreLock, At
  <2>2. CASE Go(o, "pass")
    BY <1>1, <2>1, <2>2
  <2>3. CASE Fail(o)
    BY <2>3, <1>a DEF Fail, Step, Idle, Sound
  <2> QED
    BY <1>4, <2>2, <2>3 DEF RecheckWorktree, Pass
<1>5. CASE BuildBegin(o)
  <2> DEFINE new == [Idle EXCEPT !.cmd = "build", !.pc = "locking"]
  <2>1. proc'[o] = new
    BY <1>5, <1>a DEF BuildBegin, Begin, Step
  <2>2. new.pc = "locking" /\ new.lock = "committed" /\ new.digest = None
    BY DEF Idle
  <2> HIDE DEF new
  <2>3. Source'
    BY <1>5 DEF BuildBegin, WorktreeClean, Source
  <2> QED
    BY <2>1, <2>2, <2>3 DEF Sound
<1>6. CASE ReadLock(o)
  <2> DEFINE new == [proc[o] EXCEPT !.lock = worktree.lock, !.pc = "compiling"]
  <2>1. proc'[o] = new /\ worktree.at # None /\ UNCHANGED <<worktree, target>>
    BY <1>6, <1>a DEF ReadLock, Step
  <2>2. /\ new.pc = "compiling" /\ new.lock = worktree.lock /\ new.digest = proc[o].digest
        /\ new.cmd = proc[o].cmd /\ new.seen = proc[o].seen
    BY <1>a DEF Processes
  <2> HIDE DEF new
  <2> QED
    BY <2>1, <2>2 DEF Sound, Source
<1>7. CASE VerifyCandidate(o)
  <2> DEFINE new == [proc[o] EXCEPT !.digest = target, !.pc = "restoring"]
  <2>1. proc'[o] = new /\ proc[o].pc = "verifying" /\ UNCHANGED <<worktree, target>>
    BY <1>7, <1>a DEF VerifyCandidate, At, Step
  <2>2. /\ new.pc = "restoring" /\ new.lock = proc[o].lock /\ new.digest = target
        /\ new.cmd = proc[o].cmd /\ new.seen = proc[o].seen
    BY <1>a DEF Processes
  <2> HIDE DEF new
  <2> QED
    BY <2>1, <2>2 DEF Sound, Source
<1>8. CASE RestoreLock(o)
  <2>1. CASE proc'[o] = Idle
    BY <2>1 DEF Idle, Sound
  <2>2. CASE proc'[o] = [proc[o] EXCEPT !.pc = "rechecking"] /\ proc[o].digest # None
    <3>1. /\ proc'[o].pc = "rechecking" /\ proc'[o].cmd = proc[o].cmd /\ proc'[o].seen = proc[o].seen
          /\ proc'[o].lock = proc[o].lock /\ proc'[o].digest = proc[o].digest
      BY <2>2, <1>a DEF Processes
    <3> QED
      BY <1>b, <2>2, <3>1 DEF Sound
  <2> QED
    BY <1>8, <2>1, <2>2, Restored
<1>9. CASE proc'[o].cmd # "build"
  BY <1>9 DEF Sound
<1>10. CASE UNCHANGED <<proc, worktree, target>>
  BY <1>10 DEF Sound, Source
<1>11. CASE \/ ReconstructBegin(o) \/ AddWorktree(o) \/ CheckWorktree(o) \/ RemoveWorktree(o)
            \/ (\E n \in Names : PrepareBegin(o, n)) \/ MakeRelease(o) \/ MakeFails(o) \/ CopyRuntime(o)
            \/ WritePolicy(o) \/ CheckPolicy(o) \/ PrepareFails(o) \/ RemoveRelease(o)
            \/ Return(o) \/ Fails(o) \/ Crash(o)
  <2>1. CASE RemoveWorktree(o) \/ RemoveRelease(o) \/ Return(o) \/ Fails(o) \/ Crash(o)
    BY <2>1, <1>9, <1>a DEF RemoveWorktree, RemoveRelease, Return, Fails, Crash, Fail, Step, Idle
  <2>2. CASE \/ AddWorktree(o) \/ CheckWorktree(o) \/ MakeFails(o) \/ CopyRuntime(o) \/ CheckPolicy(o)
             \/ PrepareFails(o)
    <3>1. proc[o].cmd # "build"
      BY <2>2, <1>a DEF AddWorktree, CheckWorktree, MakeFails, CopyRuntime, CheckPolicy, PrepareFails, At, Carried
    <3>2. \E pc : Go(o, pc)
      BY <2>2 DEF AddWorktree, CheckWorktree, MakeFails, CopyRuntime, CheckPolicy, PrepareFails, Pass
    <3> QED
      BY <1>9, <3>1, <3>2, GoFields
  <2>3. CASE MakeRelease(o) \/ WritePolicy(o)
    <3>1. proc[o].cmd # "build"
      BY <2>3, <1>a DEF MakeRelease, WritePolicy, At, Carried
    <3>2. proc'[o].cmd = proc[o].cmd
      <4>1. CASE MakeRelease(o)
        BY <4>1, <1>a DEF MakeRelease, Step, Processes
      <4>2. CASE WritePolicy(o)
        BY <4>2, <1>a DEF WritePolicy, StepTouching, Processes
      <4> QED
        BY <2>3, <4>1, <4>2
    <3> QED
      BY <1>9, <3>1, <3>2
  <2>4. CASE ReconstructBegin(o)
    BY <2>4, <1>9, <1>a DEF ReconstructBegin, Begin, Step, Idle
  <2>5. ASSUME NEW n \in Names, PrepareBegin(o, n) PROVE proc'[o].cmd # "build"
    BY <2>5, <1>a DEF PrepareBegin, Begin, Step, Idle
  <2> QED
    BY <1>9, <1>11, <2>1, <2>2, <2>3, <2>4, <2>5
<1>12. CASE \E n \in Names : Export(o, n)
  BY <1>10, <1>12 DEF Export
<1> QED
  BY <1>2, <1>3, <1>4, <1>5, <1>6, <1>7, <1>8, <1>11, <1>12 DEF RuntimeStep

LEMMA BuildsStep == Typed /\ Builds /\ [Next]_vars => Builds'
<1> SUFFICES ASSUME Typed, Builds, [Next]_vars, NEW q \in Operators PROVE Sound(proc[q])'
  BY DEF Builds
<1>a. Sound(proc[q])
  BY DEF Builds
<1>1. CASE UNCHANGED vars
  BY <1>a, <1>1 DEF vars, runtimeVars, Sound, Source
<1>2. CASE Next /\ RuntimeStep(q)
  BY <1>a, <1>2, BuildOwn
<1>3. CASE Next /\ ControllerStep(q)
  BY <1>3, ControllerCommands DEF Sound
<1>4. CASE Next /\ ~RuntimeStep(q) /\ ~ControllerStep(q)
  <2>1. ~Own(q)
    BY <1>4 DEF Own
  <2>2. Same(proc[q], proc'[q])
    BY <1>4, <2>1, Watching DEF Watched
  <2> SUFFICES ASSUME proc'[q].cmd = "build", "worktree" \notin proc'[q].seen
               PROVE  /\ Source' /\ proc'[q].lock # "other"
                      /\ proc'[q].pc \in {"built", "verifying"} => target' \in Qualified
                      /\ proc'[q].digest \in Qualified \cup {None}
                      /\ proc'[q].pc \in {"rechecking", "pass"} => proc'[q].digest \in Qualified
    BY DEF Sound
  <2>3. proc[q].cmd = "build" /\ "worktree" \notin proc[q].seen
    BY <2>2 DEF Same
  <2>4. Source' /\ (target' = target \/ target' \in Qualified)
    BY <1>a, <1>4, <2>1, <2>3, SourceWatched DEF Sound
  <2> QED
    BY <1>a, <2>2, <2>3, <2>4 DEF Same, Sound
<1> QED
  BY <1>1, <1>2, <1>3, <1>4

LEMMA BuildsInit == Init => Builds
<1> SUFFICES ASSUME Init PROVE Builds
  OBVIOUS
<1>1. \A o \in Operators : proc[o] = Idle
  BY DEF Init, RuntimeInit
<1> QED
  BY <1>1 DEF Builds, Sound, Idle

\* A build that reports PASS reports the digest of a binary of the qualified source, however many builds
\* share worktree and target, unless somebody meanwhile edited the source, by hand or by restoring an
\* edited Cargo.lock.
THEOREM BuildQualifiedCorrect == Spec => []BuildQualified
<1>1. Builds => BuildQualified
  BY DEF Builds, Sound, BuildQualified, At
<1> QED
  BY <1>1, BuildsInit, BuildsStep, TypedAlways, PTL DEF Spec

=============================================================================
