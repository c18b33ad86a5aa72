-------------------------- MODULE SandboxExecution --------------------------
(***************************************************************************)
(* The Bubblewrap executor: what one execution acquires before the run is  *)
(* journaled (cache locks, toolchain authority, a scratch directory), the  *)
(* server it starts inside the namespace, and the teardown that reaps the  *)
(* server, publishes sessions and credentials and removes the scratch.     *)
(*                                                                         *)
(* A caller is one Workflow.execute; Uses says which executor object it    *)
(* works with, and an executor object lives in one process.  Executors     *)
(* share the machine's caches, the scratch store and the operator's home.  *)
(***************************************************************************)
EXTENDS Integers, Sequences

CONSTANTS
    Callers,
    Executors,
    Uses,            \* the executor of each caller
    Caches,
    Authority,       \* controller objects a workspace might alias: the home, .git, credentials
    Requests,        \* what each caller may ask for, see RequestsAssumption
    Files,           \* the inode numbers auth.json may have
    First,           \* the one it has at first
    MaxRuns,         \* bound on execution ids
    Turns,           \* bound on their order: which ids each caller may be the one to take
    MaxEvents        \* bound on logins, replaced executables, foreign directories and crashes

Ids == 1..MaxRuns

\* required: the policy's caches; caches: those of the capability plan (none without a plan);
\* digest: whether its digest is the snapshot's; persist: session_storage; pvc: staged images;
\* writes: workspace-write; alias: controller objects also found in the workspace.
ASSUME RequestsAssumption ==
    /\ Uses \in [Callers -> Executors]
    /\ Requests \in [Callers -> SUBSET
                         [required : SUBSET Caches, caches : SUBSET Caches, digest : BOOLEAN,
                          persist : BOOLEAN, pvc : BOOLEAN, writes : BOOLEAN,
                          alias : SUBSET Authority]]
    /\ First \in Files /\ Files # {First}
    /\ MaxRuns \in Nat /\ MaxEvents \in Nat
    /\ Turns \in [Callers -> SUBSET Ids]
    /\ 0 \notin Callers /\ 0 \notin Executors /\ Caches \cap Authority = {}

VARIABLES
    \* a caller
    pc,           \* where it is
    via,          \* who called _stop_server
    run,          \* its execution id, 0 when idle
    req,          \* what it asked for
    prepared,     \* the runtime_handle of its PreparedExecution
    sealed,       \* the Codex image in its sealed memfd
    errors,       \* whether the teardown recorded one
    images,       \* staged PVC images are open
    \* an executor object
    runLock,      \* _run_lock
    transferred,  \* _execution_ownership_transferred
    plan,         \* the run whose _capability_plan has open authority, 0 for None
    locks,        \* _capability_locks, each with the run that took it
    scratch,      \* _scratch
    handle,       \* _server
    descriptor,   \* _descriptor
    defer,        \* _defer_publication
    source,       \* _auth_identity: the credential that was imported, 0 for None
    stateDir,     \* _runtime_state is set
    \* an execution id
    owner,        \* the executor it was prepared by
    dir,          \* its entry in the scratch store
    fds,          \* the descriptors its owner keeps in _authorities
    home,         \* what was imported into the private home
    server,       \* the process in the namespace
    mounts,       \* what it can write beside its scratch
    image,        \* the Codex it runs
    \* the operator's Codex home
    installed,    \* the Codex executable
    lineage,      \* credentials: who wrote each, the one it was derived from, the file it lies in
    authLock,     \* the flock of publishers
    sessions,     \* runs whose sessions were published
    \* history
    earned,       \* runs the client completed with success
    returned,     \* runs reported as successful
    excused,      \* runs whose scratch could not be removed
    lost,         \* runs whose server could not be reaped
    used          \* bounded resources used up, and the names that were raced for

caller == <<pc, via, run, req, prepared, sealed, errors, images>>
executor == <<runLock, transferred, plan, locks, scratch, handle, descriptor, defer, source, stateDir>>
store == <<owner, dir, fds, home>>
process == <<server, mounts, image>>
operator == <<installed, lineage, authLock, sessions>>
history == <<earned, returned, excused, lost, used>>
vars == <<caller, executor, store, process, operator, history>>

NoRequest == [required |-> {}, caches |-> {}, digest |-> TRUE, persist |-> FALSE, pvc |-> FALSE,
              writes |-> FALSE, alias |-> {}]
Refusable == {"locking", "scratching", "describing", "proving", "refused"}
Preparing == Refusable \cup {"opening", "unopened", "unmarked", "probing", "unprobing", "retracting"}
Starting == {"importing", "launching", "handshake"}
Stopping == {"stopping", "persisting", "checking", "flocking", "replacing", "cleaning", "removing",
             "finishing"}
Running == {"identity", "client"} \cup Starting \cup Stopping
Places == {"idle", "prepared", "leaving"} \cup Preparing \cup Running

\* What a name in the store stands for: somebody else's directory is empty, or foreign.  Ours is the
\* one behind the descriptors its owner retains.
Foreign == {"empty", "foreign"}
Entries == {"absent", "ours"} \cup Foreign

TypeOK ==
    /\ pc \in [Callers -> Places]
    /\ via \in [Callers -> {"none", "start", "run", "abandon"}]
    /\ run \in [Callers -> Ids \cup {0}]
    /\ req \in [Callers -> (UNION {Requests[c] : c \in Callers}) \cup {NoRequest}]
    /\ prepared \in [Callers -> Ids \cup {0}]
    /\ sealed \in [Callers -> {"none", "pinned", "other"}]
    /\ errors \in [Callers -> BOOLEAN] /\ images \in [Callers -> BOOLEAN]
    /\ runLock \in [Executors -> BOOLEAN] /\ transferred \in [Executors -> BOOLEAN]
    /\ plan \in [Executors -> Ids \cup {0}]
    /\ locks \in [Executors -> SUBSET (Caches \X Ids)]
    /\ scratch \in [Executors -> Ids \cup {0}] /\ handle \in [Executors -> Ids \cup {0}]
    /\ descriptor \in [Executors -> Ids \cup {0}]
    /\ defer \in [Executors -> BOOLEAN] /\ stateDir \in [Executors -> BOOLEAN]
    /\ source \in [Executors -> Nat]
    /\ owner \in [Ids -> Executors \cup {0}]
    /\ dir \in [Ids -> Entries]
    /\ fds \in [Ids -> {"none", "open", "closed"}]
    /\ home \in [Ids -> SUBSET {"sessions", "auth"}]
    /\ server \in [Ids -> {"none", "alive", "dead"}]
    /\ mounts \in [Ids -> SUBSET (Caches \cup Authority)]
    /\ image \in [Ids -> {"none", "pinned", "other"}]
    /\ installed \in {"pinned", "other"}
    /\ lineage \in Seq([by : Ids \cup {0}, basis : Nat, file : Files])
    /\ authLock \in Callers \cup {0}
    /\ sessions \subseteq Ids /\ earned \subseteq Ids /\ returned \subseteq Ids
    /\ excused \subseteq Ids /\ lost \subseteq Ids
    /\ used \in [ids : 0..MaxRuns, events : 0..MaxEvents, raced : SUBSET Ids]

Init ==
    /\ pc = [c \in Callers |-> "idle"] /\ via = [c \in Callers |-> "none"]
    /\ run = [c \in Callers |-> 0] /\ req = [c \in Callers |-> NoRequest]
    /\ prepared = [c \in Callers |-> 0] /\ sealed = [c \in Callers |-> "none"]
    /\ errors = [c \in Callers |-> FALSE] /\ images = [c \in Callers |-> FALSE]
    /\ runLock = [x \in Executors |-> FALSE] /\ transferred = [x \in Executors |-> FALSE]
    /\ plan = [x \in Executors |-> 0] /\ locks = [x \in Executors |-> {}]
    /\ scratch = [x \in Executors |-> 0] /\ handle = [x \in Executors |-> 0]
    /\ descriptor = [x \in Executors |-> 0] /\ defer = [x \in Executors |-> FALSE]
    /\ source = [x \in Executors |-> 0] /\ stateDir = [x \in Executors |-> FALSE]
    /\ owner = [i \in Ids |-> 0]
    /\ dir = [i \in Ids |-> "absent"] /\ fds = [i \in Ids |-> "none"]
    /\ home = [i \in Ids |-> {}]
    /\ server = [i \in Ids |-> "none"] /\ mounts = [i \in Ids |-> {}]
    /\ image = [i \in Ids |-> "none"] /\ installed = "pinned"
    /\ lineage = <<[by |-> 0, basis |-> 0, file |-> First]>>
    /\ authLock = 0 /\ sessions = {}
    /\ earned = {} /\ returned = {} /\ excused = {} /\ lost = {}
    /\ used = [ids |-> 0, events |-> 0, raced |-> {}]

-----------------------------------------------------------------------------
(* Steps shared by the handlers. *)

Go(c, place) == pc' = [pc EXCEPT ![c] = place]

\* The call returns to whoever called Workflow.execute.
GoIdle(c) ==
    /\ Go(c, "idle")
    /\ via' = [via EXCEPT ![c] = "none"] /\ run' = [run EXCEPT ![c] = 0]
    /\ req' = [req EXCEPT ![c] = NoRequest] /\ prepared' = [prepared EXCEPT ![c] = 0]
    /\ sealed' = [sealed EXCEPT ![c] = "none"] /\ errors' = [errors EXCEPT ![c] = FALSE]
    /\ images' = [images EXCEPT ![c] = FALSE]

BeginStop(c, who) ==
    /\ Go(c, "stopping")
    /\ via' = [via EXCEPT ![c] = who] /\ errors' = [errors EXCEPT ![c] = FALSE]

\* _release_capability_locks drops every lock the executor has, of earlier runs too.
ReleaseLocks(x) == locks' = [locks EXCEPT ![x] = {}]

\* Mutation: the authority is kept.
KeepPlan(x) == plan' = [plan EXCEPT ![x] = @]

ClosePlan(x) == plan' = [plan EXCEPT ![x] = 0]
ReleaseRun(x) == runLock' = [runLock EXCEPT ![x] = FALSE]

\* lock_directory: flock without waiting; another descriptor of the same process conflicts too.
Held(k) == \E x \in Executors, i \in Ids : <<k, i>> \in locks[x]

\* _validate_capability_binding, before anything of the plan is used.
Bound(r) == r.caches = r.required /\ (r.caches # {} => r.digest)

\* Mutation: the entry is not compared again before it is removed.
SameHandle(s) == fds[s] = "open"

\* ScratchStore.cleanup: the entry still is the directory behind the descriptors, which empties it.
Same(s) == dir[s] = "ours" /\ fds[s] = "open"

\* cleanup raised: the entry stays, the descriptors are closed.
Keep(s) ==
    /\ fds' = [fds EXCEPT ![s] = IF @ = "none" THEN "none" ELSE "closed"]
    /\ excused' = excused \cup {s}
    /\ UNCHANGED <<owner, dir, home>>

\* os.rmdir by name, a step after the comparison: an empty directory goes, whosever it is.
RemoveEntry(s, gone) ==
    /\ gone => dir[s] \in {"ours", "empty"}
    /\ dir' = IF gone THEN [dir EXCEPT ![s] = "absent"] ELSE dir
    /\ home' = IF gone THEN [home EXCEPT ![s] = {}] ELSE home
    /\ fds' = [fds EXCEPT ![s] = IF @ = "none" THEN "none" ELSE "closed"]
    /\ excused' = IF gone THEN excused ELSE excused \cup {s}
    /\ UNCHANGED owner

-----------------------------------------------------------------------------
(* Preparation, before RUN_STARTED. *)

\* prepare_execution: the executor is taken without waiting; a refusal changes nothing.
Submit(c, r) ==
    LET x == Uses[c]  i == used.ids + 1 IN
    /\ pc[c] = "idle" /\ ~runLock[x] /\ i \in Turns[c]
    /\ Go(c, "locking")
    /\ run' = [run EXCEPT ![c] = i] /\ req' = [req EXCEPT ![c] = r]
    /\ images' = [images EXCEPT ![c] = r.pvc]
    /\ runLock' = [runLock EXCEPT ![x] = TRUE]
    /\ transferred' = [transferred EXCEPT ![x] = FALSE]
    /\ plan' = [plan EXCEPT ![x] = IF r.caches # {} THEN i ELSE 0]
    /\ owner' = [owner EXCEPT ![i] = x]
    /\ used' = [used EXCEPT !.ids = i]
    /\ UNCHANGED <<via, prepared, sealed, errors, locks, scratch, handle, descriptor, defer, source,
                   stateDir, dir, fds, home, process, operator, earned, returned, excused, lost>>

\* Mutation: the flock is shared.
LockShared(c, k) ==
    /\ pc[c] = "locking" /\ Bound(req[c])
    /\ k \in req[c].caches /\ <<k, run[c]>> \notin locks[Uses[c]]
    /\ locks' = [locks EXCEPT ![Uses[c]] = @ \cup {<<k, run[c]>>}]
    /\ UNCHANGED <<caller, runLock, transferred, plan, scratch, handle, descriptor, defer, source,
                   stateDir, store, process, operator, history>>

LockCache(c, k) ==
    LET x == Uses[c] IN
    /\ pc[c] = "locking" /\ Bound(req[c])
    /\ k \in req[c].caches /\ ~Held(k)
    /\ locks' = [locks EXCEPT ![x] = @ \cup {<<k, run[c]>>}]
    /\ UNCHANGED <<caller, runLock, transferred, plan, scratch, handle, descriptor, defer, source,
                   stateDir, store, process, operator, history>>

\* _validate_runtime_identity: executable, config, catalog and profile have the snapshot's digests.
Pinned == installed = "pinned"

CachesLocked(c) == \A k \in req[c].caches : <<k, run[c]>> \in locks[Uses[c]]

\* CodexExecutor._prepare_execution first; then version, namespace, topology and mode.
Qualify(c) ==
    /\ pc[c] = "locking" /\ Bound(req[c]) /\ CachesLocked(c) /\ Pinned
    /\ Go(c, "scratching")
    /\ UNCHANGED <<via, run, req, prepared, sealed, errors, images, executor, store, process,
                   operator, history>>

\* An entry of that name, whoever put it there, is a collision.
MakeScratch(c) ==
    LET i == run[c] IN
    /\ pc[c] = "scratching" /\ dir[i] = "absent"
    /\ Go(c, "opening")
    /\ dir' = [dir EXCEPT ![i] = "ours"]
    /\ UNCHANGED <<via, run, req, prepared, sealed, errors, images, executor, owner, fds, home,
                   process, operator, history>>

\* The directory is opened by its name: whosever it is now, it is taken for the execution's own.
OpenScratch(c) ==
    LET i == run[c] IN
    /\ pc[c] = "opening"
    /\ Go(c, "probing")
    /\ dir' = [dir EXCEPT ![i] = "ours"] /\ fds' = [fds EXCEPT ![i] = "open"]
    /\ UNCHANGED <<via, run, req, prepared, sealed, errors, images, executor, owner, home, process,
                   operator, history>>

\* unopened: the directory could not be opened; unmarked: it was, and its marker not written.
CreateFails(c) ==
    LET i == run[c] IN
    /\ pc[c] = "opening"
    /\ \/ Go(c, "unopened") /\ UNCHANGED dir
       \/ Go(c, "unmarked") /\ dir' = [dir EXCEPT ![i] = "ours"]
    /\ UNCHANGED <<via, run, req, prepared, sealed, errors, images, executor, owner, fds, home,
                   process, operator, history>>

\* What create takes back: the entry is removed by name and not compared; one that could not be
\* opened is also emptied by name.  Whatever fails of it is passed over.
Unmake(c) ==
    LET i == run[c] IN
    /\ pc[c] \in {"unopened", "unmarked"}
    /\ Go(c, "refused")
    /\ \E left \in {dir[i], "empty", "absent"} :
         /\ left = "empty" => dir[i] \in Foreign
         /\ pc[c] = "unmarked" /\ dir[i] = "foreign" => left = "foreign"
         /\ dir' = [dir EXCEPT ![i] = left]
         /\ excused' = IF left = "ours" THEN excused \cup {i} ELSE excused
    /\ UNCHANGED <<via, run, req, prepared, sealed, errors, images, executor, owner, fds, home,
                   process, operator, earned, returned, lost, used>>

ProbeScratch(c) ==
    /\ pc[c] = "probing"
    /\ Go(c, "describing")
    /\ scratch' = [scratch EXCEPT ![Uses[c]] = run[c]]
    /\ UNCHANGED <<via, run, req, prepared, sealed, errors, images, runLock, transferred, plan, locks,
                   handle, descriptor, defer, source, stateDir, store, process, operator, history>>

\* The error goes on to prepare_execution's handler; those of the cleanup are passed over.
ProbeFails(c) ==
    LET i == run[c] IN
    /\ pc[c] = "probing"
    /\ \/ Go(c, "unprobing") /\ Same(i) /\ UNCHANGED <<store, excused>>
       \/ Go(c, "refused") /\ Keep(i)
    /\ UNCHANGED <<via, run, req, prepared, sealed, errors, images, executor, process, operator,
                   earned, returned, lost, used>>

Unprobe(c) ==
    /\ pc[c] = "unprobing"
    /\ Go(c, "refused")
    /\ \E gone \in BOOLEAN : RemoveEntry(run[c], gone)
    /\ UNCHANGED <<via, run, req, prepared, sealed, errors, images, executor, process, operator,
                   earned, returned, lost, used>>

\* The descriptor is assigned before the plan's mounts and commands are tried in a namespace.
Describe(c) ==
    /\ pc[c] = "describing"
    /\ Go(c, "proving")
    /\ descriptor' = [descriptor EXCEPT ![Uses[c]] = run[c]]
    /\ UNCHANGED <<via, run, req, prepared, sealed, errors, images, runLock, transferred, plan, locks,
                   scratch, handle, defer, source, stateDir, store, process, operator, history>>

\* _capability_probe needs the plan's authority; without a plan there is nothing to try.
ProveCapabilities(c) ==
    /\ pc[c] = "proving"
    /\ req[c].caches # {} => plan[Uses[c]] = run[c]
    /\ Go(c, "prepared")
    /\ prepared' = [prepared EXCEPT ![c] = run[c]]
    /\ UNCHANGED <<via, run, req, sealed, errors, images, executor, store, process, operator, history>>

\* Any of the checks fails: what prepare_execution's handler takes back.  A scratch beside a
\* retained server is left.
PrepareFails(c) ==
    LET x == Uses[c]  s == scratch[x] IN
    /\ pc[c] \in Refusable
    /\ ReleaseLocks(x) /\ ClosePlan(x)
    /\ \/ /\ s # 0 /\ handle[x] = 0 /\ Same(s)
          /\ Go(c, "retracting")
          /\ UNCHANGED <<via, run, req, prepared, sealed, errors, images, runLock, scratch, store,
                         excused>>
       \/ /\ s # 0 /\ handle[x] = 0 /\ Keep(s)
          /\ GoIdle(c) /\ ReleaseRun(x)
          /\ scratch' = [scratch EXCEPT ![x] = 0]
       \/ /\ s = 0 \/ handle[x] # 0
          /\ GoIdle(c) /\ ReleaseRun(x)
          /\ excused' = IF s # 0 THEN excused \cup {s} ELSE excused
          /\ UNCHANGED <<scratch, store>>
    /\ UNCHANGED <<transferred, handle, descriptor, defer, source, stateDir, process, operator, earned,
                   returned, lost, used>>

Retract(c) ==
    LET x == Uses[c] IN
    /\ pc[c] = "retracting"
    /\ \E gone \in BOOLEAN : RemoveEntry(scratch[x], gone)
    /\ GoIdle(c) /\ ReleaseRun(x)
    /\ scratch' = [scratch EXCEPT ![x] = 0]
    /\ UNCHANGED <<transferred, plan, locks, handle, descriptor, defer, source, stateDir, process,
                   operator, earned, returned, lost, used>>

\* Workflow.execute gives up between the preparation and the run, or binding images fails.
Withdraw(c) ==
    /\ pc[c] = "prepared"
    /\ Go(c, "leaving")
    /\ UNCHANGED <<via, run, req, prepared, sealed, errors, images, executor, store, process,
                   operator, history>>

-----------------------------------------------------------------------------
(* The run. *)

OwnsPreparation(c) == prepared[c] = descriptor[Uses[c]] /\ runLock[Uses[c]]

\* run_execution: from here its own finally tears down, no longer the workflow's.  Its refusal
\* of a preparation that is not the executor's last is not reached from Workflow.execute.
HandOff(c) ==
    LET x == Uses[c] IN
    /\ pc[c] = "prepared" /\ OwnsPreparation(c)
    /\ Go(c, "identity")
    /\ transferred' = [transferred EXCEPT ![x] = TRUE]
    /\ defer' = [defer EXCEPT ![x] = TRUE]
    /\ UNCHANGED <<via, run, req, prepared, sealed, errors, images, runLock, plan, locks, scratch,
                   handle, descriptor, source, stateDir, store, process, operator, history>>

\* Mutation: the copy is not compared with the snapshot.
SealUnchecked(c) ==
    /\ pc[c] = "identity"
    /\ Go(c, "importing")
    /\ sealed' = [sealed EXCEPT ![c] = installed]
    /\ UNCHANGED <<via, run, req, prepared, errors, images, executor, store, process, operator,
                   history>>

\* The installed executable is copied into a sealed memfd; the copy is authenticated.
Seal(c) ==
    /\ pc[c] = "identity" /\ Pinned
    /\ Go(c, "importing")
    /\ sealed' = [sealed EXCEPT ![c] = installed]
    /\ UNCHANGED <<via, run, req, prepared, errors, images, executor, store, process, operator,
                   history>>

\* _copy_persistent_directory and the copy of the opened credential.
Imported(r) == {"auth"} \cup (IF r.persist THEN {"sessions"} ELSE {})

\* _open_auth_source: which credential the opened file was.
AuthSource == Len(lineage)

\* _start_server until the launch: runtime, sessions, credential and config into the private home.
Import(c) ==
    LET x == Uses[c]  s == scratch[x] IN
    /\ pc[c] = "importing" /\ s # 0 /\ fds[s] = "open"
    /\ Go(c, "launching")
    /\ defer' = [defer EXCEPT ![x] = TRUE]
    /\ stateDir' = [stateDir EXCEPT ![x] = req[c].persist]
    /\ source' = [source EXCEPT ![x] = AuthSource]
    /\ home' = [home EXCEPT ![s] = Imported(req[c])]
    /\ UNCHANGED <<via, run, req, prepared, sealed, errors, images, runLock, transferred, plan, locks,
                   scratch, handle, descriptor, owner, dir, fds, process, operator, history>>

\* _mount_command binds the caches and the workspace; .git is bound again read-only.
Reach(r) == r.caches \cup (IF r.writes THEN r.alias ELSE {})

\* _validate_writable_namespace: objects are compared by inode, however they are reached.
Separate(r) == r.writes => r.alias = {}

\* materialize_runtime: the bytes of the sealed memfd, checked again.
Materialized(c) == sealed[c]

Launch(c) ==
    LET x == Uses[c]  i == run[c] IN
    /\ pc[c] = "launching" /\ Separate(req[c])
    /\ req[c].caches # {} => plan[x] = i
    /\ Go(c, "handshake")
    /\ handle' = [handle EXCEPT ![x] = i]
    /\ server' = [server EXCEPT ![i] = "alive"]
    /\ mounts' = [mounts EXCEPT ![i] = Reach(req[c])]
    /\ image' = [image EXCEPT ![i] = Materialized(c)]
    /\ UNCHANGED <<via, run, req, prepared, sealed, errors, images, runLock, transferred, plan, locks,
                   scratch, descriptor, defer, source, stateDir, store, operator, history>>

\* One loopback endpoint was declared and nothing beside it; the client's own checks follow.
Connect(c) ==
    /\ pc[c] = "handshake" /\ server[run[c]] = "alive" /\ Pinned
    /\ Go(c, "client")
    /\ UNCHANGED <<via, run, req, prepared, sealed, errors, images, executor, store, process,
                   operator, history>>

\* The identity, an import, the launch or the handshake fails.  A sandbox or system error stops
\* the server inside _start_server first; run_execution's finally stops it in any case.
StartFails(c) ==
    /\ \/ pc[c] \in Starting /\ BeginStop(c, "start")
       \/ pc[c] \in Starting \cup {"identity"} /\ BeginStop(c, "run")
    /\ UNCHANGED <<run, req, prepared, sealed, images, executor, store, process, operator, history>>

\* The client ends.  Only a success may publish; its images are closed by its own finally.
ClientEnds(c, success) ==
    LET x == Uses[c] IN
    /\ pc[c] = "client"
    /\ BeginStop(c, "run")
    /\ images' = [images EXCEPT ![c] = FALSE]
    /\ defer' = [defer EXCEPT ![x] = ~success]
    /\ earned' = IF success THEN earned \cup {run[c]} ELSE earned
    /\ UNCHANGED <<run, req, prepared, sealed, runLock, transferred, plan, locks, scratch, handle,
                   descriptor, source, stateDir, store, process, operator, returned, excused, lost,
                   used>>

-----------------------------------------------------------------------------
(* _stop_server. *)

\* Closing its input ends the server; otherwise it is signalled.
Reaped(c) ==
    LET x == Uses[c]  h == handle[x] IN
    /\ pc[c] = "stopping"
    /\ server' = IF h = 0 THEN server ELSE [server EXCEPT ![h] = "dead"]
    /\ \/ /\ Go(c, IF defer[x] THEN "cleaning" ELSE "persisting")
          /\ UNCHANGED errors
       \/ /\ h # 0 /\ Go(c, "cleaning")
          /\ errors' = [errors EXCEPT ![c] = TRUE]
    /\ UNCHANGED <<via, run, req, prepared, sealed, images, executor, store, mounts, image, operator,
                   history>>

\* Mutation: an absent server counts as one that was not reaped.
UnreapedAbsent(c) ==
    LET x == Uses[c]  h == handle[x] IN
    /\ pc[c] = "stopping"
    /\ Go(c, "finishing")
    /\ errors' = [errors EXCEPT ![c] = TRUE]
    /\ lost' = lost \cup {h}
    /\ UNCHANGED <<via, run, req, prepared, sealed, images, executor, store, process, operator, earned,
                   returned, excused, used>>

Unreaped(c) ==
    LET x == Uses[c]  h == handle[x] IN
    /\ pc[c] = "stopping" /\ h # 0 /\ server[h] = "alive"
    /\ Go(c, "finishing")
    /\ errors' = [errors EXCEPT ![c] = TRUE]
    /\ lost' = lost \cup {h}
    /\ excused' = IF scratch[x] # 0 THEN excused \cup {scratch[x]} ELSE excused
    /\ UNCHANGED <<via, run, req, prepared, sealed, images, executor, store, process, operator, earned,
                   returned, used>>

\* Mutation: the lock's descriptor is not closed.
PublicationFailsLocked(c) ==
    /\ pc[c] \in {"persisting", "checking", "flocking", "replacing"}
    /\ pc[c] = "flocking" => authLock = 0
    /\ Go(c, "cleaning")
    /\ errors' = [errors EXCEPT ![c] = TRUE]
    /\ UNCHANGED <<via, run, req, prepared, sealed, images, executor, store, process, operator,
                   history>>

\* A step of the publication fails: what follows it is skipped, the scratch is still removed.
PublicationFails(c) ==
    /\ pc[c] \in {"persisting", "checking", "flocking", "replacing"}
    /\ pc[c] = "flocking" => authLock = 0
    /\ Go(c, "cleaning")
    /\ errors' = [errors EXCEPT ![c] = TRUE]
    /\ authLock' = IF authLock = c THEN 0 ELSE authLock
    /\ UNCHANGED <<via, run, req, prepared, sealed, images, executor, store, process, installed,
                   lineage, sessions, history>>

\* _publish_directory: every session file of the private home replaces its namesake.
Published(s) == sessions \cup {s}

PersistSessions(c) ==
    LET x == Uses[c]  s == scratch[x]
        due == req[c].persist /\ stateDir[x] /\ s # 0 IN
    /\ pc[c] = "persisting"
    /\ due => "sessions" \in home[s]
    /\ Go(c, "checking")
    /\ sessions' = IF due THEN Published(s) ELSE sessions
    /\ UNCHANGED <<via, run, req, prepared, sealed, errors, images, executor, store, process,
                   installed, lineage, authLock, history>>

\* (st_dev, st_ino) of the file that was imported: no descriptor keeps the number from being given
\* to another file, and a file written in place keeps it.
Current == lineage[Len(lineage)].file
Unchanged(x) == Current = lineage[source[x]].file

\* The credential is compared with the one that was imported, before and under the lock.
CheckAuth(c) ==
    LET x == Uses[c] IN
    /\ pc[c] = "checking"
    /\ IF source[x] = 0 \/ scratch[x] = 0 THEN Go(c, "cleaning")
                                          ELSE Unchanged(x) /\ Go(c, "flocking")
    /\ UNCHANGED <<via, run, req, prepared, sealed, errors, images, executor, store, process,
                   operator, history>>

\* Mutation: no second comparison under the lock.
LockAuthOnly(c) ==
    /\ pc[c] = "flocking" /\ authLock = 0
    /\ authLock' = c /\ Go(c, "replacing")
    /\ UNCHANGED <<via, run, req, prepared, sealed, errors, images, executor, store, process,
                   installed, lineage, sessions, history>>

LockAuth(c) ==
    /\ pc[c] = "flocking" /\ authLock = 0
    /\ Unchanged(Uses[c])
    /\ authLock' = c /\ Go(c, "replacing")
    /\ UNCHANGED <<via, run, req, prepared, sealed, errors, images, executor, store, process,
                   installed, lineage, sessions, history>>

ReplaceAuth(c) ==
    LET x == Uses[c]  s == scratch[x] IN
    /\ pc[c] = "replacing" /\ "auth" \in home[s]
    /\ \E f \in Files \ {Current} :
         lineage' = Append(lineage, [by |-> s, basis |-> source[x], file |-> f])
    /\ authLock' = 0 /\ Go(c, "cleaning")
    /\ UNCHANGED <<via, run, req, prepared, sealed, errors, images, executor, store, process,
                   installed, sessions, history>>

Clean(c) ==
    LET s == scratch[Uses[c]] IN
    /\ pc[c] = "cleaning"
    /\ \/ s = 0 /\ Go(c, "finishing") /\ UNCHANGED <<errors, store, excused>>
       \/ s # 0 /\ Go(c, "removing") /\ Same(s) /\ UNCHANGED <<errors, store, excused>>
       \/ s # 0 /\ Go(c, "finishing") /\ Keep(s) /\ errors' = [errors EXCEPT ![c] = TRUE]
    /\ UNCHANGED <<via, run, req, prepared, sealed, images, executor, process, operator, earned,
                   returned, lost, used>>

\* Mutation: a failed removal is not recorded.
RemoveQuietly(c) ==
    /\ pc[c] = "removing"
    /\ Go(c, "finishing")
    /\ \E gone \in BOOLEAN : RemoveEntry(scratch[Uses[c]], gone)
    /\ UNCHANGED <<via, run, req, prepared, sealed, errors, images, executor, process, operator, earned,
                   returned, lost, used>>

\* After the entry its marker is removed, which may fail too.
RemoveScratch(c) ==
    /\ pc[c] = "removing"
    /\ Go(c, "finishing")
    /\ \E gone, done \in BOOLEAN :
         /\ done => gone
         /\ RemoveEntry(scratch[Uses[c]], gone)
         /\ errors' = [errors EXCEPT ![c] = @ \/ ~done]
    /\ UNCHANGED <<via, run, req, prepared, sealed, images, executor, process, operator, earned,
                   returned, lost, used>>

\* Without an error the handles are dropped and the caches unlocked.  The locks go with an
\* abandoned preparation in any case, the plan and the executor with the end of a run.
FinishStop(c) ==
    LET x == Uses[c]  clean == ~errors[c] IN
    /\ pc[c] = "finishing"
    /\ handle' = IF clean THEN [handle EXCEPT ![x] = 0] ELSE handle
    /\ scratch' = IF clean THEN [scratch EXCEPT ![x] = 0] ELSE scratch
    /\ IF clean \/ via[c] = "abandon" THEN ReleaseLocks(x) ELSE UNCHANGED locks
    /\ CASE via[c] = "start" ->
              /\ BeginStop(c, "run")
              /\ UNCHANGED <<run, req, prepared, sealed, images, runLock, plan, returned>>
         [] via[c] = "run" /\ clean /\ run[c] \in earned ->
              /\ GoIdle(c) /\ ReleaseRun(x) /\ ClosePlan(x)
              /\ returned' = returned \cup {run[c]}
         [] via[c] = "run" /\ ~(clean /\ run[c] \in earned) ->
              /\ Go(c, "leaving") /\ ReleaseRun(x) /\ ClosePlan(x)
              /\ UNCHANGED <<via, run, req, prepared, sealed, errors, images, returned>>
         [] via[c] = "abandon" ->
              /\ GoIdle(c) /\ ReleaseRun(x)
              /\ UNCHANGED <<plan, returned>>
    /\ UNCHANGED <<transferred, descriptor, defer, source, stateDir, store, process, operator, earned,
                   excused, lost, used>>

\* abandon_prepared_execution, from the workflow's finally or a failed image binding.
Abandons(c) == ~transferred[Uses[c]] /\ OwnsPreparation(c)

Leave(c) ==
    LET x == Uses[c] IN
    /\ pc[c] = "leaving" /\ ~Abandons(c)
    /\ GoIdle(c)
    /\ UNCHANGED <<executor, store, process, operator, history>>

\* A preparation that returned has recorded its scratch: the branch without one is not reached.
Abandon(c) ==
    LET x == Uses[c] IN
    /\ pc[c] = "leaving" /\ Abandons(c) /\ scratch[x] # 0
    /\ BeginStop(c, "abandon") /\ ClosePlan(x)
    /\ images' = [images EXCEPT ![c] = FALSE]
    /\ UNCHANGED <<run, req, prepared, sealed, runLock, transferred, locks, scratch, handle,
                   descriptor, defer, source, stateDir, store, process, operator, history>>

-----------------------------------------------------------------------------
(* What happens around the executors. *)

Event == used.events < MaxEvents /\ used' = [used EXCEPT !.events = @ + 1]

ServerExits(i) ==
    /\ server[i] = "alive"
    /\ server' = [server EXCEPT ![i] = "dead"]
    /\ UNCHANGED <<caller, executor, store, mounts, image, operator, history>>

\* Into the file there is, or a new one in its place.
Login ==
    /\ Event
    /\ \E f \in Files : lineage' = Append(lineage, [by |-> 0, basis |-> Len(lineage), file |-> f])
    /\ UNCHANGED <<caller, executor, store, process, installed, authLock, sessions, earned, returned,
                   excused, lost>>

Upgrade ==
    /\ Event
    /\ installed' = IF installed = "pinned" THEN "other" ELSE "pinned"
    /\ UNCHANGED <<caller, executor, store, process, lineage, authLock, sessions, earned, returned,
                   excused, lost>>

\* c has created the entry of i, or seen that it is its own, and uses its name next.
Naming(c, i) ==
    \/ run[c] = i /\ pc[c] \in {"opening", "unopened", "unmarked", "unprobing"}
    \/ scratch[Uses[c]] = i /\ pc[c] \in {"retracting", "removing"}

\* Somebody else's directory appears under an execution's name, or replaces its own.
Plant(i) ==
    /\ used.events < MaxEvents /\ dir[i] \notin Foreign
    /\ \E entry \in Foreign : dir' = [dir EXCEPT ![i] = entry]
    /\ used' = [used EXCEPT !.events = @ + 1,
                            !.raced = IF \E c \in Callers : Naming(c, i) THEN @ \cup {i} ELSE @]
    /\ UNCHANGED <<caller, executor, owner, fds, home, process, operator, earned, returned, excused,
                   lost>>

\* The process of an executor is killed.  The kernel drops its locks and descriptors, and
\* --die-with-parent its servers; the scratch stays.
Crash(x) ==
    LET mine == {c \in Callers : Uses[c] = x}
        runs == {i \in 1..used.ids : owner[i] = x} IN
    /\ Event /\ \E c \in mine : pc[c] # "idle"
    /\ pc' = [c \in Callers |-> IF c \in mine THEN "idle" ELSE pc[c]]
    /\ via' = [c \in Callers |-> IF c \in mine THEN "none" ELSE via[c]]
    /\ run' = [c \in Callers |-> IF c \in mine THEN 0 ELSE run[c]]
    /\ req' = [c \in Callers |-> IF c \in mine THEN NoRequest ELSE req[c]]
    /\ prepared' = [c \in Callers |-> IF c \in mine THEN 0 ELSE prepared[c]]
    /\ sealed' = [c \in Callers |-> IF c \in mine THEN "none" ELSE sealed[c]]
    /\ errors' = [c \in Callers |-> IF c \in mine THEN FALSE ELSE errors[c]]
    /\ images' = [c \in Callers |-> IF c \in mine THEN FALSE ELSE images[c]]
    /\ runLock' = [runLock EXCEPT ![x] = FALSE] /\ transferred' = [transferred EXCEPT ![x] = FALSE]
    /\ ClosePlan(x) /\ ReleaseLocks(x)
    /\ scratch' = [scratch EXCEPT ![x] = 0] /\ handle' = [handle EXCEPT ![x] = 0]
    /\ descriptor' = [descriptor EXCEPT ![x] = 0] /\ defer' = [defer EXCEPT ![x] = FALSE]
    /\ source' = [source EXCEPT ![x] = 0] /\ stateDir' = [stateDir EXCEPT ![x] = FALSE]
    /\ fds' = [i \in Ids |-> IF i \in runs /\ fds[i] = "open" THEN "closed" ELSE fds[i]]
    /\ server' = [i \in Ids |-> IF i \in runs /\ server[i] = "alive" THEN "dead" ELSE server[i]]
    /\ excused' = excused \cup {i \in runs : dir[i] = "ours"}
    /\ authLock' = IF authLock \in mine THEN 0 ELSE authLock
    /\ UNCHANGED <<owner, dir, home, mounts, image, installed, lineage, sessions, earned, returned,
                   lost>>

Prepare(c) ==
    \/ \E k \in Caches : LockCache(c, k)
    \/ Qualify(c) \/ MakeScratch(c) \/ OpenScratch(c) \/ CreateFails(c) \/ Unmake(c)
    \/ ProbeScratch(c) \/ ProbeFails(c) \/ Unprobe(c)
    \/ Describe(c) \/ ProveCapabilities(c) \/ PrepareFails(c) \/ Retract(c)

Execute(c) ==
    \/ Withdraw(c) \/ HandOff(c) \/ Seal(c) \/ Import(c) \/ Launch(c)
    \/ Connect(c) \/ StartFails(c) \/ \E success \in BOOLEAN : ClientEnds(c, success)

Teardown(c) ==
    \/ Reaped(c) \/ Unreaped(c) \/ PublicationFails(c) \/ PersistSessions(c) \/ CheckAuth(c)
    \/ LockAuth(c) \/ ReplaceAuth(c) \/ Clean(c) \/ RemoveScratch(c) \/ FinishStop(c)
    \/ Leave(c) \/ Abandon(c)

Step(c) == Prepare(c) \/ Execute(c) \/ Teardown(c)

Next ==
    \/ \E c \in Callers : Step(c) \/ \E r \in Requests[c] : Submit(c, r)
    \/ \E i \in Ids : ServerExits(i) \/ Plant(i)
    \/ \E x \in Executors : Crash(x)
    \/ Login \/ Upgrade

Spec == Init /\ [][Next]_vars

\* Every wait of a started execution has a deadline, and the publication lock is only held
\* between the check and the replacement of one file: while a call can go on, some call does.
FairSpec == Spec /\ WF_vars(\E c \in Callers : Step(c))
=============================================================================
