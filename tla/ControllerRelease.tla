------------------------- MODULE ControllerRelease -------------------------
(***************************************************************************)
(* How a controller is released: preflight qualifies the repository and    *)
(* the runtime, install_controller archives HEAD as an immutable release,  *)
(* activate_controller points the installation at one, in three separate   *)
(* replacements, verify_installation checks the result, promote_controller *)
(* moves the workflow's boundary to HEAD.  The commands share the          *)
(* repository, the runtimes and the operators of RuntimeBuild.             *)
(***************************************************************************)
EXTENDS RuntimeBuild

VARIABLES
    controllers,    \* controllers/<head>: nothing, or the manifest and its source's commit
    link,           \* current-controller
    active,         \* active-controller.json: head and runtime of the launcher's environment
    launcher,       \* ~/.local/bin/aa
    boundary        \* HEAD of the journal's latest repository witness

controllerVars == <<controllers, link, active, launcher, boundary>>
vars == <<runtimeVars, controllerVars>>
others == <<repo, worktree, target, runtime, shell, printed>>

NoRelease == [tree |-> None, source |-> None, name |-> None, digest |-> None, quiet |-> TRUE]
NoController == [head |-> None, name |-> None]

PastRelease(c, name) ==
    IF name = None THEN NoRelease
    ELSE [tree |-> c, source |-> c, name |-> name, digest |-> PolicyOf[c], quiet |-> TRUE]

Init ==
    /\ \E past \in Pasts :
          /\ RuntimeInit(past)
          /\ controllers = [c \in Commits |-> PastRelease(c, past[c])]
    /\ link = None /\ active = NoController
    /\ launcher = "none"
    /\ boundary = FirstCommit

Installed(c) == controllers[c] # NoRelease

\* _verify_controller_release: the source is what the manifest says, nothing writes into it;
\* the runtime may be gone
ReleaseOK(c) == Installed(c) /\ runtime[controllers[c].name] = controllers[c].digest

\* status and doctor are content, the repository witness matches
WorkflowMatches == boundary = repo.head /\ Clean

-----------------------------------------------------------------------------
(* preflight, alone or at the start of another command.                    *)

ReadHead(o, cmd) ==
    /\ Clean
    /\ Begin(o, [Idle EXCEPT !.cmd = cmd, !.pc = "qualifying", !.head = repo.head])
    /\ UNCHANGED <<others, controllerVars>>

AfterPreflight == [preflight |-> "pass", install |-> "tree", promote |-> "witness"]

\* Mutation: the runtime is not held against the policy.
QualifyAny(o) ==
    /\ At(o, "qualifying")
    /\ RuntimeRuns(shell[o])
    /\ Step(o, [proc[o] EXCEPT !.pc = AfterPreflight[proc[o].cmd],
                               !.name = shell[o], !.digest = runtime[shell[o]]])
    /\ UNCHANGED <<others, used, controllerVars>>

\* the runtime is the one the policy names; assets, resolver and model smokes agree
QualifyRuntime(o) ==
    /\ At(o, "qualifying")
    /\ RuntimeRuns(shell[o]) /\ runtime[shell[o]] = repo.policy
    /\ Step(o, [proc[o] EXCEPT !.pc = AfterPreflight[proc[o].cmd],
                               !.name = shell[o], !.digest = runtime[shell[o]]])
    /\ UNCHANGED <<others, used, controllerVars>>

-----------------------------------------------------------------------------
(* install_controller.                                                     *)

ReadTree(o) ==
    /\ At(o, "tree")
    /\ ~Installed(proc[o].head)
    /\ Step(o, [proc[o] EXCEPT !.tree = repo.head, !.pc = "archiving"])
    /\ UNCHANGED <<others, used, controllerVars>>

\* ALREADY_INSTALLED, or a release of that name with another tree
FindInstalled(o) ==
    /\ At(o, "tree")
    /\ ReleaseOK(proc[o].head) /\ controllers[proc[o].head].tree = repo.head
    /\ Step(o, [proc[o] EXCEPT !.tree = repo.head, !.pc = "pass"])
    /\ UNCHANGED <<others, used, controllerVars>>

\* git archive HEAD, into a temporary directory
ArchiveHead(o) ==
    /\ At(o, "archiving")
    /\ Step(o, [proc[o] EXCEPT !.source = repo.head, !.pc = "publishing"])
    /\ UNCHANGED <<others, used, controllerVars>>

\* release.json and the commit of src/; quiet: nobody touched the repository meanwhile
Release(p) == [tree |-> p.tree, source |-> p.source, name |-> p.name, digest |-> p.digest,
               quiet |-> "repo" \notin p.seen]

\* the rename refuses a directory that is not empty
Publish(o) ==
    /\ At(o, "publishing") /\ ~Installed(proc[o].head)
    /\ controllers' = [controllers EXCEPT ![proc[o].head] = Release(proc[o])]
    /\ Go(o, "installed")
    /\ UNCHANGED <<others, used, link, active, launcher, boundary>>

\* somebody was faster, or an error: the temporary directory is removed
PublishFails(o) ==
    /\ At(o, "publishing")
    /\ Fail(o)
    /\ UNCHANGED <<others, used, controllerVars>>

VerifyInstalled(o) ==
    /\ At(o, "installed") /\ ReleaseOK(proc[o].head)
    /\ Pass(o)
    /\ UNCHANGED <<others, used, controllerVars>>

-----------------------------------------------------------------------------
(* activate_controller.                                                    *)

\* the release verifies, and what is to be replaced is Atlas's own
ActivateBegin(o, c) ==
    /\ ReleaseOK(c) /\ launcher # "foreign"
    /\ Begin(o, [Idle EXCEPT !.cmd = "activate", !.pc = "linking", !.head = c,
                             !.name = controllers[c].name])
    /\ UNCHANGED <<others, controllerVars>>

ReplaceLink(o) ==
    /\ At(o, "linking")
    /\ link' = proc[o].head
    /\ StepTouching(o, [proc[o] EXCEPT !.pc = "stating"], {"active"})
    /\ UNCHANGED <<others, used, controllers, active, launcher, boundary>>

ReplaceState(o) ==
    /\ At(o, "stating")
    /\ active' = [head |-> proc[o].head, name |-> proc[o].name]
    /\ StepTouching(o, [proc[o] EXCEPT !.pc = "launching"], {"active"})
    /\ UNCHANGED <<others, used, controllers, link, launcher, boundary>>

ReplaceLauncher(o) ==
    /\ At(o, "launching")
    /\ launcher' = "managed"
    /\ Pass(o)
    /\ UNCHANGED <<others, used, controllers, link, active, boundary>>

-----------------------------------------------------------------------------
(* verify_installation.                                                    *)

\* the state names a release that verifies, with its runtime
VerifyBegin(o) ==
    /\ active # NoController /\ ReleaseOK(active.head)
    /\ active.name = controllers[active.head].name
    /\ Begin(o, [Idle EXCEPT !.cmd = "verify", !.pc = "resolving", !.head = active.head,
                             !.digest = controllers[active.head].digest])
    /\ UNCHANGED <<others, controllerVars>>

\* Mutation: the link is only resolved.
ResolveAnyLink(o) ==
    /\ At(o, "resolving") /\ link # None
    /\ Go(o, "reading")
    /\ UNCHANGED <<others, used, controllerVars>>

ResolveLink(o) ==
    /\ At(o, "resolving") /\ link = proc[o].head
    /\ Go(o, "reading")
    /\ UNCHANGED <<others, used, controllerVars>>

\* the policy behind the link names the runtime
ReadInstalledPolicy(o) ==
    /\ At(o, "reading") /\ PolicyOf[controllers[link].source] = proc[o].digest
    /\ Go(o, "running")
    /\ UNCHANGED <<others, used, controllerVars>>

\* aa status, aa doctor and the imports, through the launcher
RunLauncher(o) ==
    /\ At(o, "running") /\ launcher = "managed" /\ WorkflowMatches
    /\ Pass(o)
    /\ UNCHANGED <<others, used, controllerVars>>

-----------------------------------------------------------------------------
(* promote_controller and post_cutover.                                    *)

\* the journal's boundary and HEAD, which must descend from it
ReadWitness(o) ==
    /\ At(o, "witness") /\ <<boundary, repo.head>> \in Descends
    /\ Step(o, [proc[o] EXCEPT !.tree = boundary, !.source = repo.head,
                               !.pc = IF boundary = repo.head THEN "cutover" ELSE "adopting"])
    /\ UNCHANGED <<others, used, controllerVars>>

\* Mutation: what promote_controller read is adopted, and nothing compared again under the lock.
AdoptAsRead(o) ==
    /\ At(o, "adopting")
    /\ boundary' = proc[o].source
    /\ Go(o, "cutover")
    /\ UNCHANGED <<others, used, controllers, link, active, launcher>>

\* Workflow.adopt_boundary, under the workflow's lock: both are still what they were, nothing is
\* edited, and HEAD is another commit than the boundary and descends from it.  A generation that
\* is not terminal refuses too: whether there is one is AtlasWorkflow's, here it is one of the
\* failures of the step.
Adopt(o) ==
    /\ At(o, "adopting")
    /\ boundary = proc[o].tree /\ repo.head = proc[o].source /\ Clean
    /\ repo.head # boundary /\ <<boundary, repo.head>> \in Descends
    /\ boundary' = repo.head
    /\ Go(o, "cutover")
    /\ UNCHANGED <<others, used, controllers, link, active, launcher>>

\* post_cutover on its own
CutoverBegin(o) ==
    /\ Begin(o, [Idle EXCEPT !.cmd = "cutover", !.pc = "cutover"])
    /\ UNCHANGED <<others, controllerVars>>

\* status, doctor and the runtime; a failure here leaves the adopted boundary
Cutover(o) ==
    /\ At(o, "cutover") /\ WorkflowMatches /\ RuntimeRuns(shell[o])
    /\ Pass(o)
    /\ UNCHANGED <<others, used, controllerVars>>

-----------------------------------------------------------------------------
(* Everything.                                                             *)

\* a checkpoint of the workflow commits and takes the commit as its boundary
Checkpoint(c) ==
    /\ boundary = repo.head /\ PolicyOf[c] = repo.policy
    /\ c # repo.head /\ <<repo.head, c>> \in Descends
    /\ Move({"repo"})
    /\ repo' = [repo EXCEPT !.head = c, !.edited = FALSE]
    /\ boundary' = c
    /\ UNCHANGED <<worktree, target, runtime, shell, printed, controllers, link, active, launcher>>

\* somebody has an aa of their own
ForeignLauncher ==
    /\ launcher # "foreign"
    /\ Move({"active"})
    /\ launcher' = "foreign"
    /\ UNCHANGED <<others, controllers, link, active, boundary>>

ControllerStep(o) ==
    \/ \E cmd \in DOMAIN AfterPreflight : ReadHead(o, cmd)
    \/ QualifyRuntime(o) \/ ReadTree(o) \/ FindInstalled(o) \/ ArchiveHead(o)
    \/ Publish(o) \/ PublishFails(o) \/ VerifyInstalled(o)
    \/ \E c \in Commits : ActivateBegin(o, c)
    \/ ReplaceLink(o) \/ ReplaceState(o) \/ ReplaceLauncher(o)
    \/ VerifyBegin(o) \/ ResolveLink(o) \/ ReadInstalledPolicy(o) \/ RunLauncher(o)
    \/ ReadWitness(o) \/ Adopt(o) \/ CutoverBegin(o) \/ Cutover(o)

Next ==
    \/ \E o \in Operators : RuntimeStep(o) /\ UNCHANGED controllerVars
    \/ \E o \in Operators : ControllerStep(o)
    \/ OperatorStep /\ UNCHANGED controllerVars
    \/ \E c \in Commits : Checkpoint(c)
    \/ ForeignLauncher

Spec == Init /\ [][Next]_vars
=============================================================================
