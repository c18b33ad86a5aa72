---------------------------- MODULE RuntimeBuild ----------------------------
(***************************************************************************)
(* How a Codex runtime comes to be: the qualified source is checked out    *)
(* into a worktree (reconstruct_source), built (build_runtime) and copied  *)
(* under a release id, whose digest the policy of the repository then      *)
(* names (prepare_runtime).  Every command is a process of its own, takes  *)
(* no lock, and may fail, be interrupted or die at any step; operators     *)
(* edit, commit and check out as they please.                              *)
(***************************************************************************)
EXTENDS Naturals

CONSTANTS
    Operators,      \* who runs release commands, one at a time each
    Commits,        \* the commits of the repository
    Descends,       \* pairs <<a, b>>: a is b or one of its ancestors
    PolicyOf,       \* commit -> the codex_binary_sha256 of its policy
    FirstCommit,    \* HEAD at the start
    Digests,        \* runtime binaries, by their SHA-256
    Qualified,      \* those a build of the recipe's final_ref produces
    Names,          \* release ids
    FirstName,      \* the release id of the runtime in use at the start
    Pasts,          \* which controllers may be installed at the start: commit -> release id
    None,           \* no commit, no digest, nothing there
    Partial,        \* a release directory without its executable
    MaxActs         \* bound: how many commands are run, changes made by hand, and crashes, in all

ASSUME ReleaseAssumption ==
    /\ FirstCommit \in Commits /\ FirstName \in Names
    /\ PolicyOf \in [Commits -> Digests] /\ Qualified \subseteq Digests
    /\ Pasts \subseteq [Commits -> Names \cup {None}]
    /\ \A past \in Pasts : \A c, d \in Commits :
          /\ past[c] # None /\ past[c] = past[d] => PolicyOf[c] = PolicyOf[d]
          /\ past[c] = FirstName => PolicyOf[c] = PolicyOf[FirstCommit]
    /\ Descends \subseteq Commits \X Commits
    /\ \A a \in Commits : <<a, a>> \in Descends
    /\ \A a, b, c \in Commits : <<a, b>> \in Descends /\ <<b, c>> \in Descends => <<a, c>> \in Descends
    /\ None \notin Digests \cup Names \cup Commits \cup {Partial} /\ Partial \notin Digests
    /\ MaxActs \in Nat

VARIABLES
    proc,       \* each operator's command: where it is and what it has read
    repo,       \* HEAD, the policy's digest in the work tree, other changes to it
    worktree,   \* the Codex source: its HEAD, Cargo.lock, other changes
    target,     \* target/release/codex
    runtime,    \* releases/<release id>: absent, without its executable, or its digest
    shell,      \* ATLAS_CODEX_EXECUTABLE of each operator, by release id
    printed,    \* the release ids prepare_runtime has reported
    used        \* acts so far, and the release ids
                \* whose directory was removed by a command that had not created it

runtimeVars == <<proc, repo, worktree, target, runtime, shell, printed, used>>

\* cmd and pc name the command and its next step; head, tree and source are commits it read,
\* name and digest a runtime, lock is Cargo.lock as build_runtime read it, made says that
\* this process created its release directory, seen is what others changed meanwhile.
Idle == [cmd |-> "none", pc |-> "idle", head |-> None, tree |-> None, source |-> None,
         name |-> None, digest |-> None, lock |-> "committed", made |-> FALSE, seen |-> {}]

At(o, pc) == proc[o].pc = pc

\* the piece of shared state that must hold still for what a command reports
Reads(cmd) ==
    CASE cmd = "build" -> {"worktree"} [] cmd = "install" -> {"repo"}
      [] cmd \in {"activate", "verify"} -> {"active"} [] OTHER -> {}

\* what a change makes of the commands that are running
Touch(what, q) == [proc[q] EXCEPT !.seen = @ \cup (what \cap Reads(proc[q].cmd))]

StepTouching(o, new, what) == proc' = [q \in Operators |-> IF q = o THEN new ELSE Touch(what, q)]
Step(o, new) == proc' = [proc EXCEPT ![o] = new]
Go(o, pc) == Step(o, [proc[o] EXCEPT !.pc = pc])
Fail(o) == Step(o, Idle)

\* a report is printed and the command ends
Pass(o) == Go(o, "pass")
Return(o) == At(o, "pass") /\ Fail(o)

\* any command that has nothing to undo may fail where it checks or runs something
FailsAt == {"adding", "locking", "qualifying", "witness", "tree", "archiving", "installed",
            "linking", "stating", "launching", "resolving", "reading", "running", "adopting", "cutover"}
Fails(o) == proc[o].pc \in FailsAt /\ Fail(o)

Begin(o, new) ==
    /\ At(o, "idle") /\ used.acts < MaxActs
    /\ used' = [used EXCEPT !.acts = @ + 1]
    /\ Step(o, new)

\* git status reports nothing
Clean == repo.policy = PolicyOf[repo.head] /\ ~repo.edited
WorktreeClean == worktree.at # None /\ worktree.lock = "committed" /\ ~worktree.edited

NoWorktree == [at |-> None, lock |-> "committed", edited |-> FALSE]
Reconstructed == [at |-> "final", lock |-> "committed", edited |-> FALSE]

\* the digest a release id has when those controllers were installed
PastRuntime(past, n) ==
    IF n = FirstName THEN PolicyOf[FirstCommit]
    ELSE IF \E c \in Commits : past[c] = n THEN PolicyOf[CHOOSE c \in Commits : past[c] = n]
    ELSE None

RuntimeInit(past) ==
    /\ proc = [o \in Operators |-> Idle]
    /\ repo = [head |-> FirstCommit, policy |-> PolicyOf[FirstCommit], edited |-> FALSE]
    /\ \/ worktree = NoWorktree /\ target = None
       \/ worktree = Reconstructed /\ target \in Qualified
    /\ runtime = [n \in Names |-> PastRuntime(past, n)]
    /\ shell = [o \in Operators |-> FirstName]
    /\ printed = {n \in Names : PastRuntime(past, n) # None}
    /\ used = [acts |-> 0, contested |-> {}]

-----------------------------------------------------------------------------
(* reconstruct_source.                                                     *)

\* the recipe resolves: tag, commits and lineage as it says
ReconstructBegin(o) ==
    /\ worktree.at = None
    /\ Begin(o, [Idle EXCEPT !.cmd = "reconstruct", !.pc = "adding"])
    /\ UNCHANGED <<repo, worktree, target, runtime, shell, printed>>

\* git worktree add creates the directory or refuses the one that is there
AddWorktree(o) ==
    /\ At(o, "adding") /\ worktree.at = None
    /\ worktree' = Reconstructed
    /\ Go(o, "added")
    /\ UNCHANGED <<repo, target, runtime, shell, printed, used>>

CheckWorktree(o) ==
    /\ At(o, "added") /\ worktree.at = "final" /\ WorktreeClean
    /\ Pass(o)
    /\ UNCHANGED <<repo, worktree, target, runtime, shell, printed, used>>

\* a check fails, or an interrupt: what was added is removed, by force
RemoveWorktree(o) ==
    /\ At(o, "added")
    /\ worktree' = NoWorktree
    /\ Fail(o)
    /\ UNCHANGED <<repo, target, runtime, shell, printed, used>>

-----------------------------------------------------------------------------
(* build_runtime.                                                          *)

\* Mutation: the HEAD of the worktree is not held against the recipe.
BuildAnyHead(o) ==
    /\ WorktreeClean
    /\ Begin(o, [Idle EXCEPT !.cmd = "build", !.pc = "locking"])
    /\ UNCHANGED <<repo, worktree, target, runtime, shell, printed>>

\* _verify_worktree, then the space and the identity of the tools
BuildBegin(o) ==
    /\ worktree.at = "final" /\ WorktreeClean
    /\ Begin(o, [Idle EXCEPT !.cmd = "build", !.pc = "locking"])
    /\ UNCHANGED <<repo, worktree, target, runtime, shell, printed>>

ReadLock(o) ==
    /\ At(o, "locking") /\ worktree.at # None
    /\ Step(o, [proc[o] EXCEPT !.lock = worktree.lock, !.pc = "compiling"])
    /\ UNCHANGED <<repo, worktree, target, runtime, shell, printed, used>>

\* cargo writes its own version into Cargo.lock when the workspace packages have none
Refreshed ==
    IF worktree.at # None /\ worktree.lock = "committed" THEN {"committed", "refreshed"} ELSE {worktree.lock}

\* What a build makes depends on the source it finds: only the qualified source is known to
\* give a qualified runtime.
Compile(o) ==
    /\ At(o, "compiling") /\ worktree.at # None
    /\ \E lock \in Refreshed : worktree' = [worktree EXCEPT !.lock = lock]
    /\ target' \in IF worktree.at = "final" /\ ~worktree.edited /\ worktree.lock # "other"
                      THEN Qualified ELSE Digests
    /\ Go(o, "built")
    /\ UNCHANGED <<repo, runtime, shell, printed, used>>

CompileFails(o) ==
    /\ At(o, "compiling")
    /\ \E lock \in Refreshed : worktree' = [worktree EXCEPT !.lock = lock]
    /\ Go(o, "restoring")
    /\ UNCHANGED <<repo, target, runtime, shell, printed, used>>

\* nothing changed, or Cargo.lock alone from what was read to what cargo writes
OnlyRefreshed(before) ==
    \/ WorktreeClean
    \/ worktree.at # None /\ ~worktree.edited /\ worktree.lock = "refreshed" /\ before = "committed"

CheckBuilt(o) ==
    /\ At(o, "built") /\ OnlyRefreshed(proc[o].lock)
    /\ Go(o, "verifying")
    /\ UNCHANGED <<repo, worktree, target, runtime, shell, printed, used>>

\* _verify_candidate; the digest is reported at the end
VerifyCandidate(o) ==
    /\ At(o, "verifying") /\ target # None
    /\ Step(o, [proc[o] EXCEPT !.digest = target, !.pc = "restoring"])
    /\ UNCHANGED <<repo, worktree, target, runtime, shell, printed, used>>

BuildFails(o) ==
    /\ proc[o].pc \in {"built", "verifying"}
    /\ Go(o, "restoring")
    /\ UNCHANGED <<repo, worktree, target, runtime, shell, printed, used>>

\* the finally of build_runtime; without a verified candidate the error goes on.  What was read
\* while somebody had edited it comes back, for whoever else is building.
RestoreLock(o) ==
    /\ At(o, "restoring")
    /\ worktree' = IF worktree.at = None THEN worktree ELSE [worktree EXCEPT !.lock = proc[o].lock]
    /\ LET new == IF proc[o].digest = None THEN Idle ELSE [proc[o] EXCEPT !.pc = "rechecking"]
           back == IF worktree.at # None /\ proc[o].lock = "other" THEN {"worktree"} ELSE {}
       IN StepTouching(o, new, back)
    /\ UNCHANGED <<repo, target, runtime, shell, printed, used>>

RecheckWorktree(o) ==
    /\ At(o, "rechecking")
    /\ IF WorktreeClean THEN Pass(o) ELSE Fail(o)
    /\ UNCHANGED <<repo, worktree, target, runtime, shell, printed, used>>

-----------------------------------------------------------------------------
(* prepare_runtime.                                                        *)

RuntimeRuns(n) == runtime[n] \in Digests

\* the repository is clean, the runtime in use and the candidate are executables, and the
\* release id is free; the whole policy file is read now and written later
PrepareBegin(o, n) ==
    /\ Clean /\ RuntimeRuns(shell[o]) /\ target # None /\ runtime[n] = None
    /\ Begin(o, [Idle EXCEPT !.cmd = "prepare", !.pc = "making", !.name = n, !.digest = target])
    /\ UNCHANGED <<repo, worktree, target, runtime, shell, printed>>

\* Mutation: a directory that is already there is used (exist_ok).
MakeOrShare(o) ==
    /\ At(o, "making")
    /\ runtime' = [runtime EXCEPT ![proc[o].name] = IF @ = None THEN Partial ELSE @]
    /\ Step(o, [proc[o] EXCEPT !.pc = "copying", !.made = TRUE])
    /\ UNCHANGED <<repo, worktree, target, shell, printed, used>>

MakeRelease(o) ==
    /\ At(o, "making") /\ runtime[proc[o].name] = None
    /\ runtime' = [runtime EXCEPT ![proc[o].name] = Partial]
    /\ Step(o, [proc[o] EXCEPT !.pc = "copying", !.made = TRUE])
    /\ UNCHANGED <<repo, worktree, target, shell, printed, used>>

\* mkdir fails inside the try, whose handler removes the directory that is there
MakeFails(o) ==
    /\ At(o, "making")
    /\ Go(o, "removing")
    /\ UNCHANGED <<repo, worktree, target, runtime, shell, printed, used>>

\* the candidate is copied, and the copy must have the digest that was read at first
CopyRuntime(o) ==
    /\ At(o, "copying") /\ runtime[proc[o].name] # None /\ target = proc[o].digest
    /\ runtime' = [runtime EXCEPT ![proc[o].name] = target]
    /\ Go(o, "writing")
    /\ UNCHANGED <<repo, worktree, target, shell, printed, used>>

\* the installed copy still has it, and the policy is replaced
WritePolicy(o) ==
    /\ At(o, "writing") /\ runtime[proc[o].name] = proc[o].digest
    /\ repo' = [repo EXCEPT !.policy = proc[o].digest]
    /\ StepTouching(o, [proc[o] EXCEPT !.pc = "checking"], {"repo"})
    /\ UNCHANGED <<worktree, target, runtime, shell, printed, used>>

CheckPolicy(o) ==
    /\ At(o, "checking") /\ repo.policy = proc[o].digest
    /\ printed' = printed \cup {proc[o].name}
    /\ Pass(o)
    /\ UNCHANGED <<repo, worktree, target, runtime, shell, used>>

\* any failure or interrupt after mkdir: the policy stays as it is
PrepareFails(o) ==
    /\ proc[o].pc \in {"copying", "writing", "checking"}
    /\ Go(o, "removing")
    /\ UNCHANGED <<repo, worktree, target, runtime, shell, printed, used>>

RemoveRelease(o) ==
    /\ At(o, "removing")
    /\ runtime' = [runtime EXCEPT ![proc[o].name] = None]
    /\ used' = [used EXCEPT !.contested = @ \cup {n \in {proc[o].name} : ~proc[o].made /\ runtime[n] # None}]
    /\ Fail(o)
    /\ UNCHANGED <<repo, worktree, target, shell, printed>>

-----------------------------------------------------------------------------
(* Operators.                                                              *)

\* somebody else's hand, seen by every command that is running
Move(what) ==
    /\ used.acts < MaxActs
    /\ used' = [used EXCEPT !.acts = @ + 1]
    /\ proc' = [q \in Operators |-> Touch(what, q)]

\* git commit, one or several
Commit(c) ==
    /\ c # repo.head /\ <<repo.head, c>> \in Descends /\ PolicyOf[c] = repo.policy
    /\ Move({"repo"})
    /\ repo' = [repo EXCEPT !.head = c, !.edited = FALSE]
    /\ UNCHANGED <<worktree, target, runtime, shell, printed>>

\* git checkout or reset of another commit; with c = HEAD the changes are dropped
Checkout(c) ==
    /\ Clean => c # repo.head
    /\ Move({"repo"})
    /\ repo' = [head |-> c, policy |-> PolicyOf[c], edited |-> FALSE]
    /\ UNCHANGED <<worktree, target, runtime, shell, printed>>

EditRepo ==
    /\ ~repo.edited
    /\ Move({"repo"})
    /\ repo' = [repo EXCEPT !.edited = TRUE]
    /\ UNCHANGED <<worktree, target, runtime, shell, printed>>

\* the Codex source is edited, cleaned up, or put on another commit
EditWorktree(w) ==
    /\ worktree.at # None /\ w # worktree
    /\ Move({"worktree"})
    /\ worktree' = w
    /\ UNCHANGED <<repo, target, runtime, shell, printed>>

\* export ATLAS_CODEX_EXECUTABLE as printed
Export(o, n) ==
    /\ At(o, "idle") /\ n \in printed /\ n # shell[o]
    /\ shell' = [shell EXCEPT ![o] = n]
    /\ UNCHANGED <<proc, repo, worktree, target, runtime, printed, used>>

\* a command dies with nothing undone, where failing would undo something
Crash(o) ==
    /\ proc[o].pc \notin {"idle", "pass"} \cup FailsAt /\ used.acts < MaxActs
    /\ used' = [used EXCEPT !.acts = @ + 1]
    /\ Fail(o)
    /\ UNCHANGED <<repo, worktree, target, runtime, shell, printed>>

\* The worktrees an operator's hand may leave.
EditedWorktrees ==
    {Reconstructed} \cup [at : {"final"}, lock : {"committed", "other"}, edited : {TRUE}]
                    \cup [at : {"other"}, lock : {"committed"}, edited : {FALSE}]

RuntimeStep(o) ==
    \/ ReconstructBegin(o) \/ AddWorktree(o) \/ CheckWorktree(o) \/ RemoveWorktree(o)
    \/ BuildBegin(o) \/ ReadLock(o) \/ Compile(o) \/ CompileFails(o) \/ CheckBuilt(o)
    \/ VerifyCandidate(o) \/ BuildFails(o) \/ RestoreLock(o) \/ RecheckWorktree(o)
    \/ \E n \in Names : PrepareBegin(o, n)
    \/ MakeRelease(o) \/ MakeFails(o) \/ CopyRuntime(o) \/ WritePolicy(o) \/ CheckPolicy(o)
    \/ PrepareFails(o) \/ RemoveRelease(o)
    \/ \E n \in Names : Export(o, n)
    \/ (Return(o) \/ Fails(o)) /\ UNCHANGED <<repo, worktree, target, runtime, shell, printed, used>>
    \/ Crash(o)

OperatorStep ==
    \/ \E c \in Commits : Commit(c) \/ Checkout(c)
    \/ EditRepo
    \/ \E w \in EditedWorktrees : EditWorktree(w)
=============================================================================
