-------------------------- MODULE SandboxProperties --------------------------
(* What the Bubblewrap executor has to guarantee: properties of SandboxExecution. *)
EXTENDS SandboxExecution

Quiet(x) == \A c \in Callers : Uses[c] = x => pc[c] = "idle"
Active(i) == \E c \in Callers : run[c] = i

\* Two servers never write the same persistent cache, whatever preparation fails or is abandoned
\* and whoever releases locks (CacheStore.lock_directory).  A server that could not be reaped is
\* outside: its locks go with the executor's next failing preparation.
CacheExclusive ==
    \A i, j \in Ids \ lost :
        i # j /\ server[i] = "alive" /\ server[j] = "alive"
        => mounts[i] \cap mounts[j] \cap Caches = {}

\* When no call is under way nothing of one is left: the executor can be prepared again, the
\* toolchain authority is closed, no server runs and no scratch remains, except what could not be
\* reaped or removed.  run_execution reports that, preparation and abandonment pass over it
\* (prepare_execution, ScratchStore.create, Workflow.execute).
NothingLeftBehind ==
    /\ \A x \in Executors : Quiet(x) =>
          /\ ~runLock[x] /\ plan[x] = 0
          /\ locks[x] # {} => handle[x] # 0 \/ scratch[x] # 0
    /\ \A i \in Ids : ~Active(i) =>
          /\ dir[i] = "ours" => i \in excused
          /\ server[i] = "alive" => i \in lost

\* What runs in the namespace is the Codex the snapshot pinned, although the installed one may be
\* replaced between any two steps.
ServerIsPinned == \A i \in Ids : server[i] = "alive" => image[i] = "pinned"

\* A server never has a controller object in its writable reach, under whatever name.
AuthorityUnwritable == \A i \in Ids : server[i] = "alive" => mounts[i] \cap Authority = {}

\* Publishing credentials keeps the promise of CredentialChain (_publish_auth).
Credentials ==
    INSTANCE CredentialChain WITH chain <- lineage, completed <- earned, Runs <- Ids
ImplementsCredentialChain == Credentials!Spec

\* A run is only reported successful when the client succeeded, its server is gone, its scratch is
\* removed, and the sessions and the credential it had imported were published.
SuccessIsComplete ==
    [][\A c \in Callers : run[c] \in returned' \ returned =>
          /\ run[c] \in earned /\ server[run[c]] = "dead" /\ dir[run[c]] # "ours"
          /\ req[c].persist => run[c] \in sessions
          /\ source[Uses[c]] # 0 => run[c] \in Credentials!Publishers]_vars

\* A directory somebody else put into the store is left alone (ATLAS_SANDBOX_SCRATCH_COLLISION,
\* ATLAS_SANDBOX_SCRATCH_CHANGED), unless it appeared between the last look at the entry and the
\* use of its name.  One that is not empty even then, unless it was at the opening of a new entry:
\* create takes for its own what it opens, and removes with its content what it could not open.
ForeignUntouched ==
    [][\A i \in Ids : dir[i] \in Foreign /\ dir'[i] # dir[i] =>
          /\ i \in used.raced
          /\ dir[i] = "foreign" =>
                \E c \in Callers : run[c] = i /\ pc[c] \in {"opening", "unopened"}]_vars

\* Every call ends: no cache lock, publication lock, server or failed teardown keeps an execution
\* for ever, so finitely many executions come to rest.
CallsEnd == <>[](\A c \in Callers : pc[c] = "idle")
=============================================================================
