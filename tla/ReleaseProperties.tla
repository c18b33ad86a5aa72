------------------------- MODULE ReleaseProperties -------------------------
(***************************************************************************)
(* What the release commands promise when two operators run them side by   *)
(* side, commit and edit in between, and commands fail or die anywhere.    *)
(***************************************************************************)
EXTENDS ControllerRelease

Steps == FailsAt \cup {"idle", "pass", "added", "compiling", "built", "verifying", "restoring", "rechecking",
                       "making", "copying", "writing", "checking", "removing", "publishing"}

Commands == {"none", "reconstruct", "build", "prepare", "preflight", "install", "activate", "verify",
             "promote", "cutover"}

Locks == {"committed", "refreshed", "other"}
Processes ==
    [cmd : Commands, pc : Steps, head : Commits \cup {None}, tree : Commits \cup {None},
     source : Commits \cup {None}, name : Names \cup {None}, digest : Digests \cup {None},
     lock : Locks, made : BOOLEAN, seen : SUBSET {"repo", "worktree", "active"}]

Releases == [tree : Commits, source : Commits, name : Names, digest : Digests, quiet : BOOLEAN]

\* Every reachable state is well typed.
TypeOK ==
    /\ proc \in [Operators -> Processes]
    /\ repo \in [head : Commits, policy : Digests, edited : BOOLEAN]
    /\ worktree \in [at : {None, "final", "other"}, lock : Locks, edited : BOOLEAN]
    /\ target \in Digests \cup {None}
    /\ runtime \in [Names -> Digests \cup {None, Partial}]
    /\ shell \in [Operators -> Names] /\ printed \subseteq Names
    /\ used \in [acts : 0..MaxActs, contested : SUBSET Names]
    /\ controllers \in [Commits -> Releases \cup {NoRelease}]
    /\ link \in Commits \cup {None}
    /\ active \in [head : Commits, name : Names] \cup {NoController}
    /\ launcher \in {"none", "foreign", "managed"}
    /\ boundary \in Commits

\* An installed controller is immutable: two installations of one HEAD, at any distance, never
\* replace it or change its manifest (the rename of install_controller).
InstalledStays ==
    [][\A c \in Commits : Installed(c) => controllers'[c] = controllers[c]]_vars

\* Rollback stays possible: a release keeps the very runtime its manifest records, through any
\* number of later preparations, failed and interrupted ones included - unless two of them
\* raced for its release id, where the one that loses has removed the directory of the other.
ReleaseRuns ==
    \A c \in Commits : Installed(c) /\ controllers[c].name \notin used.contested => ReleaseOK(c)

\* A release holds the source of the commit it is named for, and the runtime that commit's
\* policy names, if nobody touched the repository while it was installed: HEAD is read by
\* preflight, its tree and its archive separately later.
InstallBinds ==
    \A c \in Commits :
        Installed(c) /\ controllers[c].quiet =>
            controllers[c].tree = c /\ controllers[c].source = c /\ controllers[c].digest = PolicyOf[c]

\* Link, state and launcher are replaced one after the other, without a lock.  Whatever crashed
\* or raced before, an activation or a verification that reports PASS and met no other
\* activation leaves or found the source and the runtime of one release behind the launcher.
InstallationPaired ==
    \A o \in Operators :
        At(o, "pass") /\ proc[o].cmd \in {"activate", "verify"} /\ "active" \notin proc[o].seen =>
            /\ link = active.head /\ link = proc[o].head
            /\ active.name = controllers[link].name
            /\ proc[o].cmd = "verify" => PolicyOf[controllers[link].source] = controllers[link].digest

\* The boundary of the workflow only moves to descendants, also when a second promotion, a
\* checkout or a checkpoint comes between the check of the ancestry and the adoption.
BoundaryAdvances ==
    [][boundary' # boundary => <<boundary, boundary'>> \in Descends]_vars

\* A build that reports PASS reports the digest of a binary of the qualified source, also when
\* another build shares worktree and target, unless somebody meanwhile edited the source, by
\* hand or by restoring an edited Cargo.lock in build_runtime.
BuildQualified ==
    \A o \in Operators :
        At(o, "pass") /\ proc[o].cmd = "build" /\ "worktree" \notin proc[o].seen =>
            proc[o].digest \in Qualified
=============================================================================
