---------------------------- MODULE SandboxProofs ----------------------------
(***************************************************************************)
(* What the Bubblewrap executor guarantees for any callers, caches,        *)
(* requests and number of runs, where no two callers share an executor.    *)
(***************************************************************************)
EXTENDS SandboxProperties, TLAPS

\* The callers of one executor object come one after the other, as one caller.
Apart == \A c, d \in Callers : Uses[c] = Uses[d] => c = d

-----------------------------------------------------------------------------
(* TypeOK in parts, one for each group of variables.                       *)

Asked == (UNION {Requests[c] : c \in Callers}) \cup {NoRequest}

CallersOK ==
    /\ pc \in [Callers -> Places]
    /\ via \in [Callers -> {"none", "start", "run", "abandon"}]
    /\ run \in [Callers -> Ids \cup {0}]
    /\ req \in [Callers -> Asked]
    /\ prepared \in [Callers -> Ids \cup {0}]
    /\ sealed \in [Callers -> {"none", "pinned", "other"}]
    /\ errors \in [Callers -> BOOLEAN] /\ images \in [Callers -> BOOLEAN]
ExecutorsOK ==
    /\ runLock \in [Executors -> BOOLEAN] /\ transferred \in [Executors -> BOOLEAN]
    /\ plan \in [Executors -> Ids \cup {0}]
    /\ locks \in [Executors -> SUBSET (Caches \X Ids)]
    /\ scratch \in [Executors -> Ids \cup {0}] /\ handle \in [Executors -> Ids \cup {0}]
    /\ descriptor \in [Executors -> Ids \cup {0}]
    /\ defer \in [Executors -> BOOLEAN] /\ stateDir \in [Executors -> BOOLEAN]
    /\ source \in [Executors -> Nat]
StoreOK ==
    /\ owner \in [Ids -> Executors \cup {0}]
    /\ dir \in [Ids -> {"absent", "ours", "empty", "foreign"}]
    /\ fds \in [Ids -> {"none", "open", "closed"}]
    /\ home \in [Ids -> SUBSET {"sessions", "auth"}]
ProcessOK ==
    /\ server \in [Ids -> {"none", "alive", "dead"}]
    /\ mounts \in [Ids -> SUBSET (Caches \cup Authority)]
    /\ image \in [Ids -> {"none", "pinned", "other"}]
Credential == [by : Ids \cup {0}, basis : Nat, file : Files]
OperatorOK ==
    /\ installed \in {"pinned", "other"}
    /\ lineage \in Seq(Credential)
    /\ authLock \in Callers \cup {0} /\ sessions \subseteq Ids
HistoryOK ==
    /\ earned \subseteq Ids /\ returned \subseteq Ids /\ excused \subseteq Ids /\ lost \subseteq Ids
    /\ used \in [ids : 0..MaxRuns, events : 0..MaxEvents, raced : SUBSET Ids]

LEMMA TypeParts ==
    TypeOK <=> CallersOK /\ ExecutorsOK /\ StoreOK /\ ProcessOK /\ OperatorOK /\ HistoryOK
BY DEF TypeOK, Asked, CallersOK, ExecutorsOK, StoreOK, ProcessOK, OperatorOK, HistoryOK, Entries, Foreign,
       Credential

LEMMA TypePartsNext ==
    CallersOK' /\ ExecutorsOK' /\ StoreOK' /\ ProcessOK' /\ OperatorOK' /\ HistoryOK' => TypeOK'
BY DEF TypeOK, Asked, CallersOK, ExecutorsOK, StoreOK, ProcessOK, OperatorOK, HistoryOK, Entries, Foreign,
       Credential

\* Where a caller is says which of its variables are set.
Placed(c) ==
    /\ pc[c] = "idle" <=> run[c] = 0
    /\ run[c] # 0 => run[c] <= used.ids /\ req[c] \in Requests[c] /\ owner[run[c]] = Uses[c]
    /\ pc[c] \in {"flocking", "replacing", "removing", "retracting"} => scratch[Uses[c]] # 0
    /\ pc[c] \in Stopping => via[c] # "none"

Typed ==
    /\ TypeOK
    /\ \A c \in Callers : Placed(c)
    /\ \A c, d \in Callers : run[c] = run[d] /\ run[c] # 0 => c = d

LEMMA AtWork ==
    ASSUME Typed, NEW c \in Callers, pc[c] # "idle"
    PROVE  run[c] \in Ids /\ req[c] \in Requests[c] /\ Uses[c] \in Executors
BY RequestsAssumption DEF Typed, TypeOK, Placed

\* What a caller works with.
LEMMA RequestTyped ==
    ASSUME NEW c \in Callers, NEW r \in Requests[c]
    PROVE  /\ r \in Asked
           /\ r.required \subseteq Caches /\ r.caches \subseteq Caches /\ r.alias \subseteq Authority
           /\ r.digest \in BOOLEAN /\ r.persist \in BOOLEAN /\ r.pvc \in BOOLEAN /\ r.writes \in BOOLEAN
<1>1. Requests[c] \in {Requests[d] : d \in Callers}
  OBVIOUS
<1>2. r \in Asked
  BY <1>1 DEF Asked
<1>3. r \in [required : SUBSET Caches, caches : SUBSET Caches, digest : BOOLEAN, persist : BOOLEAN,
             pvc : BOOLEAN, writes : BOOLEAN, alias : SUBSET Authority]
  BY RequestsAssumption
<1> QED
  BY <1>2, <1>3

LEMMA NothingAsked == NoRequest \in Asked
BY DEF Asked

-----------------------------------------------------------------------------
(* Type correctness.                                                       *)

\* Steps of a caller that only go on.
LEMMA OnlyGo ==
    ASSUME NEW c \in Callers,
           \/ Qualify(c) \/ MakeScratch(c) \/ OpenScratch(c) \/ CreateFails(c) \/ Unmake(c)
           \/ ProbeScratch(c) \/ ProbeFails(c) \/ Unprobe(c) \/ Describe(c) \/ Withdraw(c)
           \/ HandOff(c) \/ Import(c) \/ Launch(c) \/ Connect(c) \/ PersistSessions(c)
           \/ CheckAuth(c) \/ LockAuth(c) \/ ReplaceAuth(c)
    PROVE  /\ \E place \in Places \ {"idle"} : Go(c, place)
           /\ UNCHANGED <<via, run, req, prepared, sealed, errors, images>>
BY DEF Qualify, MakeScratch, OpenScratch, CreateFails, Unmake, ProbeScratch, ProbeFails, Unprobe,
     Describe, Withdraw, HandOff, Import, Launch, Connect, PersistSessions, CheckAuth, LockAuth,
     ReplaceAuth, caller, Places, Preparing, Refusable, Running, Starting, Stopping

LEMMA GoTyped ==
    ASSUME CallersOK, NEW c \in Callers, NEW place \in Places, Go(c, place),
           UNCHANGED <<via, run, req, prepared, sealed, errors, images>>
    PROVE  CallersOK'
BY DEF CallersOK, Go

LEMMA GoIdleTyped ==
    ASSUME CallersOK, NEW c \in Callers, GoIdle(c)
    PROVE  CallersOK'
<1>1. /\ pc' \in [Callers -> Places] /\ run' \in [Callers -> Ids \cup {0}]
      /\ via' \in [Callers -> {"none", "start", "run", "abandon"}]
      /\ prepared' \in [Callers -> Ids \cup {0}] /\ sealed' \in [Callers -> {"none", "pinned", "other"}]
  BY DEF CallersOK, GoIdle, Go, Places
<1>2. errors' \in [Callers -> BOOLEAN] /\ images' \in [Callers -> BOOLEAN]
  BY DEF CallersOK, GoIdle
<1>3. req' \in [Callers -> Asked]
  BY NothingAsked DEF CallersOK, GoIdle
<1> QED
  BY <1>1, <1>2, <1>3 DEF CallersOK

LEMMA BeginStopTyped ==
    ASSUME CallersOK, NEW c \in Callers, NEW who \in {"start", "run", "abandon"}, BeginStop(c, who),
           UNCHANGED <<run, req, prepared, sealed>>, images' \in [Callers -> BOOLEAN]
    PROVE  CallersOK'
BY DEF CallersOK, BeginStop, Go, Places, Running, Stopping

LEMMA FinishStopMoves ==
    ASSUME Typed, NEW c \in Callers, FinishStop(c)
    PROVE  \/ BeginStop(c, "run") /\ UNCHANGED <<run, req, prepared, sealed, images>>
           \/ GoIdle(c)
           \/ Go(c, "leaving") /\ UNCHANGED <<via, run, req, prepared, sealed, errors, images>>
<1>1. via[c] \in {"start", "run", "abandon"}
  BY DEF FinishStop, TypeOK, Typed, Placed, Stopping
<1>2. CASE via[c] = "start"
  BY <1>2 DEF FinishStop
<1>3. CASE via[c] = "run"
  BY <1>3 DEF FinishStop
<1>4. CASE via[c] = "abandon"
  BY <1>4 DEF FinishStop
<1> QED
  BY <1>1, <1>2, <1>3, <1>4

LEMMA FinishStopEnds ==
    ASSUME NEW c \in Callers, FinishStop(c), via[c] = "run"
    PROVE  GoIdle(c) \/ (Go(c, "leaving") /\ UNCHANGED <<via, run, req, prepared, sealed, errors, images>>)
<1>1. CASE ~errors[c] /\ run[c] \in earned
  BY <1>1 DEF FinishStop
<1>2. CASE ~(~errors[c] /\ run[c] \in earned)
  BY <1>2 DEF FinishStop
<1> QED
  BY <1>1, <1>2

LEMMA FinishStopReleases ==
    ASSUME Typed, NEW c \in Callers, FinishStop(c)
    PROVE  /\ locks' \in {locks, [locks EXCEPT ![Uses[c]] = {}]}
           /\ scratch' \in {scratch, [scratch EXCEPT ![Uses[c]] = 0]}
           /\ handle' \in {handle, [handle EXCEPT ![Uses[c]] = 0]}
           /\ runLock' \in {runLock, [runLock EXCEPT ![Uses[c]] = FALSE]}
           /\ plan' \in {plan, [plan EXCEPT ![Uses[c]] = 0]}
           /\ UNCHANGED <<transferred, descriptor, defer, source, stateDir>>
<1>1. /\ locks' \in {locks, [locks EXCEPT ![Uses[c]] = {}]}
      /\ scratch' \in {scratch, [scratch EXCEPT ![Uses[c]] = 0]}
      /\ handle' \in {handle, [handle EXCEPT ![Uses[c]] = 0]}
      /\ UNCHANGED <<transferred, descriptor, defer, source, stateDir>>
  BY DEF FinishStop, ReleaseLocks
<1>2. via[c] \in {"start", "run", "abandon"}
  BY DEF FinishStop, TypeOK, Typed, Placed, Stopping
<1>3. CASE via[c] = "start"
  BY <1>1, <1>3 DEF FinishStop
<1>4. CASE via[c] = "run"
  BY <1>1, <1>4 DEF FinishStop, ReleaseRun, ClosePlan
<1>5. CASE via[c] = "abandon"
  BY <1>1, <1>5 DEF FinishStop, ReleaseRun
<1> QED
  BY <1>2, <1>3, <1>4, <1>5

\* Steps that leave the executor alone.
LEMMA Unaffected ==
    ASSUME NEW c \in Callers,
           \/ Qualify(c) \/ MakeScratch(c) \/ OpenScratch(c) \/ CreateFails(c) \/ Unmake(c)
           \/ ProbeFails(c) \/ Unprobe(c) \/ ProveCapabilities(c) \/ Withdraw(c)
           \/ Seal(c) \/ Connect(c) \/ StartFails(c)
           \/ Reaped(c) \/ Unreaped(c) \/ PublicationFails(c) \/ PersistSessions(c) \/ CheckAuth(c)
           \/ LockAuth(c) \/ ReplaceAuth(c) \/ Clean(c) \/ RemoveScratch(c) \/ Leave(c)
    PROVE  UNCHANGED executor
BY DEF Qualify, MakeScratch, OpenScratch, CreateFails, Unmake, ProbeFails, Unprobe, ProveCapabilities,
     Withdraw, Seal, Connect, StartFails, Reaped, Unreaped, PublicationFails, PersistSessions, CheckAuth,
     LockAuth, ReplaceAuth, Clean, RemoveScratch, Leave

LEMMA CallersStep ==
    ASSUME Typed, NEW c \in Callers, Step(c)
    PROVE  CallersOK'
<1>a. CallersOK
  BY TypeParts DEF Typed
<1>1. CASE \E k \in Caches : LockCache(c, k)
  BY <1>1, <1>a DEF LockCache, CallersOK, caller
<1>2. CASE \/ Qualify(c) \/ MakeScratch(c) \/ OpenScratch(c) \/ CreateFails(c) \/ Unmake(c)
           \/ ProbeScratch(c) \/ ProbeFails(c) \/ Unprobe(c) \/ Describe(c) \/ Withdraw(c)
           \/ HandOff(c) \/ Import(c) \/ Launch(c) \/ Connect(c) \/ PersistSessions(c)
           \/ CheckAuth(c) \/ LockAuth(c) \/ ReplaceAuth(c)
  BY <1>2, <1>a, OnlyGo, GoTyped
<1>3. CASE PrepareFails(c) \/ Retract(c) \/ Leave(c)
  <2>1. GoIdle(c) \/ (Go(c, "retracting") /\ UNCHANGED <<via, run, req, prepared, sealed, errors, images>>)
    BY <1>3 DEF PrepareFails, Retract, Leave
  <2> QED
    BY <2>1, <1>a, GoIdleTyped, GoTyped DEF Places, Preparing
<1>4. CASE StartFails(c)
  BY <1>4, <1>a, BeginStopTyped DEF StartFails, CallersOK
<1>5. CASE \E success \in BOOLEAN : ClientEnds(c, success)
  <2>1. images' = [images EXCEPT ![c] = FALSE] /\ BeginStop(c, "run") /\ UNCHANGED <<run, req, prepared, sealed>>
    BY <1>5 DEF ClientEnds
  <2> QED
    BY <2>1, <1>a, BeginStopTyped DEF CallersOK
<1>6. CASE Abandon(c)
  <2>1. images' = [images EXCEPT ![c] = FALSE] /\ BeginStop(c, "abandon") /\ UNCHANGED <<run, req, prepared, sealed>>
    BY <1>6 DEF Abandon
  <2> QED
    BY <2>1, <1>a, BeginStopTyped DEF CallersOK
<1>7. CASE Reaped(c) \/ Unreaped(c) \/ PublicationFails(c)
  <2>1. /\ \E place \in {"cleaning", "persisting", "finishing"} : Go(c, place)
        /\ UNCHANGED errors \/ errors' = [errors EXCEPT ![c] = TRUE]
        /\ UNCHANGED <<via, run, req, prepared, sealed, images>>
    BY <1>7 DEF Reaped, Unreaped, PublicationFails
  <2>2. errors' \in [Callers -> BOOLEAN]
    BY <2>1, <1>a DEF CallersOK
  <2> QED
    BY <2>1, <2>2, <1>a DEF CallersOK, Go, Places, Running, Stopping
<1>8. CASE Clean(c) \/ RemoveScratch(c)
  <2>1. /\ \E place \in {"removing", "finishing"} : Go(c, place)
        /\ UNCHANGED <<via, run, req, prepared, sealed, images>>
        /\ \/ UNCHANGED errors \/ errors' = [errors EXCEPT ![c] = TRUE]
           \/ \E done \in BOOLEAN : errors' = [errors EXCEPT ![c] = @ \/ ~done]
    BY <1>8 DEF Clean, RemoveScratch
  <2>2. errors' \in [Callers -> BOOLEAN]
    BY <2>1, <1>a DEF CallersOK
  <2> QED
    BY <2>1, <2>2, <1>a DEF CallersOK, Go, Places, Running, Stopping
<1>9. CASE FinishStop(c)
  <2>1. \/ BeginStop(c, "run") /\ UNCHANGED <<run, req, prepared, sealed, images>>
        \/ GoIdle(c)
        \/ Go(c, "leaving") /\ UNCHANGED <<via, run, req, prepared, sealed, errors, images>>
    BY <1>9, FinishStopMoves
  <2> QED
    BY <2>1, <1>a, GoIdleTyped, BeginStopTyped, GoTyped DEF CallersOK, Places
<1>10. CASE ProveCapabilities(c)
  <2>1. Go(c, "prepared") /\ prepared' = [prepared EXCEPT ![c] = run[c]]
        /\ UNCHANGED <<via, run, req, sealed, errors, images>>
    BY <1>10 DEF ProveCapabilities
  <2> QED
    BY <2>1, <1>a DEF CallersOK, Go, Places
<1>11. CASE Seal(c)
  <2>1. Go(c, "importing") /\ sealed' = [sealed EXCEPT ![c] = installed]
        /\ UNCHANGED <<via, run, req, prepared, errors, images>>
    BY <1>11 DEF Seal
  <2> QED
    BY <2>1, <1>a, TypeParts DEF Typed, OperatorOK, CallersOK, Go, Places, Running, Starting
<1> QED
  BY <1>1, <1>2, <1>3, <1>4, <1>5, <1>6, <1>7, <1>8, <1>9, <1>10, <1>11 DEF Step, Prepare, Execute, Teardown

LEMMA ExecutorsStep ==
    ASSUME Typed, NEW c \in Callers, Step(c)
    PROVE  ExecutorsOK'
<1>a. ExecutorsOK /\ CallersOK /\ OperatorOK /\ Uses[c] \in Executors
  BY TypeParts, RequestsAssumption DEF Typed
<1>b. pc[c] # "idle" => run[c] \in Ids /\ req[c] \in Requests[c]
  BY AtWork
<1>1. CASE UNCHANGED executor
  BY <1>1, <1>a DEF ExecutorsOK, executor
<1>2. CASE \E k \in Caches : LockCache(c, k)
  <2> PICK k \in Caches : LockCache(c, k)
    BY <1>2
  <2>1. run[c] \in Ids
    BY <1>b DEF LockCache
  <2> QED
    BY <2>1, <1>a DEF LockCache, ExecutorsOK
<1>3. CASE ProbeScratch(c) \/ Describe(c)
  BY <1>3, <1>a, <1>b DEF ProbeScratch, Describe, ExecutorsOK
<1>4. CASE PrepareFails(c) \/ Retract(c)
  BY <1>4, <1>a DEF PrepareFails, Retract, ExecutorsOK, ReleaseLocks, ClosePlan, ReleaseRun
<1>5. CASE HandOff(c)
  BY <1>5, <1>a DEF HandOff, ExecutorsOK
<1>6. CASE Import(c)
  <2>1. req[c].persist \in BOOLEAN
    BY <1>6, <1>b, RequestTyped DEF Import
  <2>2. AuthSource \in Nat
    BY <1>a DEF AuthSource, OperatorOK
  <2> QED
    BY <2>1, <2>2, <1>6, <1>a DEF Import, ExecutorsOK
<1>7. CASE Launch(c)
  BY <1>7, <1>a, <1>b DEF Launch, ExecutorsOK
<1>8. CASE \E success \in BOOLEAN : ClientEnds(c, success)
  BY <1>8, <1>a DEF ClientEnds, ExecutorsOK
<1>9. CASE FinishStop(c)
  <2>1. locks' \in [Executors -> SUBSET (Caches \X Ids)]
    BY <1>9, <1>a, FinishStopReleases DEF ExecutorsOK
  <2> QED
    BY <2>1, <1>9, <1>a, FinishStopReleases DEF ExecutorsOK
<1>10. CASE Abandon(c)
  BY <1>10, <1>a DEF Abandon, ExecutorsOK, ClosePlan, ReleaseLocks, ReleaseRun
<1> QED
  BY <1>1, <1>2, <1>3, <1>4, <1>5, <1>6, <1>7, <1>8, <1>9, <1>10, Unaffected DEF Step, Prepare, Execute,
       Teardown

\* What the end of a cleanup does to the store.
LEMMA RemoveTyped ==
    ASSUME StoreOK, excused \subseteq Ids, NEW s \in Ids, Keep(s) \/ \E gone \in BOOLEAN : RemoveEntry(s, gone)
    PROVE  StoreOK' /\ excused' \subseteq Ids
<1>1. CASE Keep(s)
  BY <1>1 DEF StoreOK, Keep
<1>2. CASE \E gone \in BOOLEAN : RemoveEntry(s, gone)
  BY <1>2 DEF StoreOK, RemoveEntry
<1> QED
  BY <1>1, <1>2

LEMMA StoreStep ==
    ASSUME Typed, NEW c \in Callers, Step(c)
    PROVE  StoreOK' /\ excused' \subseteq Ids
<1>a. StoreOK /\ ExecutorsOK /\ CallersOK /\ excused \subseteq Ids /\ Uses[c] \in Executors
  BY TypeParts, RequestsAssumption DEF Typed, HistoryOK
<1>b. pc[c] # "idle" => run[c] \in Ids /\ req[c] \in Requests[c]
  BY AtWork
<1>c. scratch[Uses[c]] \in Ids \cup {0} /\ prepared[c] \in Ids \cup {0}
  BY <1>a DEF ExecutorsOK, CallersOK
<1>1. CASE UNCHANGED <<store, excused>>
  BY <1>1, <1>a DEF StoreOK, store
<1>2. CASE MakeScratch(c) \/ OpenScratch(c)
  BY <1>2, <1>a, <1>b DEF MakeScratch, OpenScratch, StoreOK, history
<1>3. CASE CreateFails(c) \/ Unmake(c)
  BY <1>3, <1>a, <1>b DEF CreateFails, Unmake, StoreOK, history
<1>4. CASE ProbeFails(c) \/ Unprobe(c)
  BY <1>4, <1>1, <1>a, <1>b, RemoveTyped DEF ProbeFails, Unprobe
<1>9. CASE PrepareFails(c)
  <2>1. CASE scratch[Uses[c]] # 0 /\ handle[Uses[c]] = 0
    BY <1>9, <2>1, <1>1, <1>a, <1>c, RemoveTyped DEF PrepareFails
  <2>2. CASE ~(scratch[Uses[c]] # 0 /\ handle[Uses[c]] = 0)
    BY <1>9, <2>2, <1>a, <1>c DEF PrepareFails, StoreOK, store
  <2> QED
    BY <2>1, <2>2
<1>10. CASE Retract(c) \/ RemoveScratch(c)
  <2>1. scratch[Uses[c]] \in Ids
    BY <1>10, <1>c DEF Retract, RemoveScratch, Typed, Placed
  <2> QED
    BY <1>10, <2>1, <1>a, RemoveTyped DEF Retract, RemoveScratch
<1>5. CASE Import(c)
  <2>1. Imported(req[c]) \subseteq {"sessions", "auth"}
    BY DEF Imported
  <2> QED
    BY <2>1, <1>5, <1>a, <1>c DEF Import, StoreOK, history
<1>6. CASE Unreaped(c)
  BY <1>6, <1>a, <1>c DEF Unreaped, StoreOK, store
<1>7. CASE Clean(c)
  BY <1>7, <1>a, <1>c, <1>1, RemoveTyped DEF Clean
<1>8. CASE \/ \E k \in Caches : LockCache(c, k)
           \/ Qualify(c) \/ ProbeScratch(c) \/ Describe(c) \/ ProveCapabilities(c)
           \/ Withdraw(c) \/ HandOff(c) \/ Seal(c) \/ Launch(c) \/ Connect(c) \/ StartFails(c)
           \/ \E success \in BOOLEAN : ClientEnds(c, success)
           \/ Reaped(c) \/ PublicationFails(c) \/ PersistSessions(c) \/ CheckAuth(c)
           \/ LockAuth(c) \/ ReplaceAuth(c) \/ FinishStop(c) \/ Leave(c) \/ Abandon(c)
  <2>1. UNCHANGED <<store, excused>>
    BY <1>8 DEF LockCache, Qualify, ProbeScratch, Describe, ProveCapabilities, Withdraw, HandOff, Seal,
         Launch, Connect, StartFails, ClientEnds, Reaped, PublicationFails, PersistSessions, CheckAuth,
         LockAuth, ReplaceAuth, FinishStop, Leave, Abandon, history
  <2> QED
    BY <2>1, <1>1
<1> QED
  BY <1>2, <1>3, <1>4, <1>5, <1>6, <1>7, <1>8, <1>9, <1>10 DEF Step, Prepare, Execute, Teardown

LEMMA ProcessStep ==
    ASSUME Typed, NEW c \in Callers, Step(c)
    PROVE  ProcessOK'
<1>a. ProcessOK /\ ExecutorsOK /\ CallersOK /\ Uses[c] \in Executors
  BY TypeParts, RequestsAssumption DEF Typed
<1>b. pc[c] # "idle" => run[c] \in Ids /\ req[c] \in Requests[c]
  BY AtWork
<1>1. CASE UNCHANGED process
  BY <1>1, <1>a DEF ProcessOK, process
<1>2. CASE Launch(c)
  <2>1. Reach(req[c]) \subseteq Caches \cup Authority
    BY <1>2, <1>b, RequestTyped DEF Launch, Reach
  <2>2. Materialized(c) \in {"none", "pinned", "other"}
    BY <1>a DEF Materialized, CallersOK
  <2> QED
    BY <2>1, <2>2, <1>2, <1>a, <1>b DEF Launch, ProcessOK
<1>3. CASE Reaped(c)
  BY <1>3, <1>a DEF Reaped, ProcessOK
<1>4. CASE \/ \E k \in Caches : LockCache(c, k)
           \/ Qualify(c) \/ MakeScratch(c) \/ OpenScratch(c) \/ CreateFails(c) \/ Unmake(c)
           \/ ProbeScratch(c) \/ ProbeFails(c) \/ Unprobe(c) \/ Describe(c)
           \/ ProveCapabilities(c) \/ PrepareFails(c) \/ Retract(c) \/ Withdraw(c) \/ HandOff(c) \/ Seal(c)
           \/ Import(c) \/ Connect(c) \/ StartFails(c) \/ \E success \in BOOLEAN : ClientEnds(c, success)
           \/ Unreaped(c) \/ PublicationFails(c) \/ PersistSessions(c) \/ CheckAuth(c) \/ LockAuth(c)
           \/ ReplaceAuth(c) \/ Clean(c) \/ RemoveScratch(c) \/ FinishStop(c) \/ Leave(c) \/ Abandon(c)
  <2>1. UNCHANGED process
    BY <1>4 DEF LockCache, Qualify, MakeScratch, OpenScratch, CreateFails, Unmake, ProbeScratch,
         ProbeFails, Unprobe, Describe, ProveCapabilities, PrepareFails, Retract, Withdraw, HandOff, Seal,
         Import, Connect, StartFails, ClientEnds, Unreaped, PublicationFails, PersistSessions, CheckAuth,
         LockAuth, ReplaceAuth, Clean, RemoveScratch, FinishStop, Leave, Abandon
  <2> QED
    BY <2>1, <1>1
<1> QED
  BY <1>2, <1>3, <1>4 DEF Step, Prepare, Execute, Teardown

LEMMA OperatorStep ==
    ASSUME Typed, NEW c \in Callers, Step(c)
    PROVE  OperatorOK'
<1>a. OperatorOK /\ ExecutorsOK /\ CallersOK /\ Uses[c] \in Executors
  BY TypeParts, RequestsAssumption DEF Typed
<1>c. scratch[Uses[c]] \in Ids \cup {0} /\ source[Uses[c]] \in Nat
  BY <1>a DEF ExecutorsOK
<1>1. CASE UNCHANGED operator
  BY <1>1, <1>a DEF OperatorOK, operator
<1>2. CASE PublicationFails(c)
  BY <1>2, <1>a DEF PublicationFails, OperatorOK
<1>3. CASE PersistSessions(c)
  BY <1>3, <1>a, <1>c DEF PersistSessions, OperatorOK, Published
<1>4. CASE LockAuth(c)
  BY <1>4, <1>a DEF LockAuth, OperatorOK
<1>5. CASE ReplaceAuth(c)
  <2>1. /\ \E f \in Files : lineage' = Append(lineage, [by |-> scratch[Uses[c]], basis |-> source[Uses[c]], file |-> f])
        /\ authLock' = 0 /\ UNCHANGED <<installed, sessions>>
    BY <1>5 DEF ReplaceAuth
  <2>2. lineage' \in Seq(Credential)
    BY <2>1, <1>a, <1>c DEF OperatorOK, Credential
  <2> QED
    BY <2>1, <2>2, <1>a DEF OperatorOK
<1>6. CASE \/ \E k \in Caches : LockCache(c, k)
           \/ Qualify(c) \/ MakeScratch(c) \/ OpenScratch(c) \/ CreateFails(c) \/ Unmake(c)
           \/ ProbeScratch(c) \/ ProbeFails(c) \/ Unprobe(c) \/ Describe(c)
           \/ ProveCapabilities(c) \/ PrepareFails(c) \/ Retract(c) \/ Withdraw(c) \/ HandOff(c) \/ Seal(c)
           \/ Import(c) \/ Launch(c) \/ Connect(c) \/ StartFails(c)
           \/ \E success \in BOOLEAN : ClientEnds(c, success)
           \/ Reaped(c) \/ Unreaped(c) \/ CheckAuth(c) \/ Clean(c) \/ RemoveScratch(c) \/ FinishStop(c)
           \/ Leave(c) \/ Abandon(c)
  <2>1. UNCHANGED operator
    BY <1>6 DEF LockCache, Qualify, MakeScratch, OpenScratch, CreateFails, Unmake, ProbeScratch,
         ProbeFails, Unprobe, Describe, ProveCapabilities, PrepareFails, Retract, Withdraw, HandOff, Seal,
         Import, Launch, Connect, StartFails, ClientEnds, Reaped, Unreaped, CheckAuth, Clean,
         RemoveScratch, FinishStop, Leave, Abandon
  <2> QED
    BY <2>1, <1>1
<1> QED
  BY <1>2, <1>3, <1>4, <1>5, <1>6 DEF Step, Prepare, Execute, Teardown

LEMMA HistoryStep ==
    ASSUME Typed, NEW c \in Callers, Step(c)
    PROVE  HistoryOK' /\ UNCHANGED used
<1>a. HistoryOK /\ ExecutorsOK /\ CallersOK /\ Uses[c] \in Executors
  BY TypeParts, RequestsAssumption DEF Typed
<1>b. pc[c] # "idle" => run[c] \in Ids
  BY AtWork
<1>c. excused' \subseteq Ids
  BY StoreStep
<1>1. CASE UNCHANGED <<earned, returned, lost, used>>
  BY <1>1, <1>a, <1>c DEF HistoryOK
<1>2. CASE \E success \in BOOLEAN : ClientEnds(c, success)
  BY <1>2, <1>a, <1>b, <1>c DEF ClientEnds, HistoryOK
<1>3. CASE Unreaped(c)
  <2>1. handle[Uses[c]] \in Ids
    BY <1>3, <1>a DEF Unreaped, ExecutorsOK
  <2> QED
    BY <2>1, <1>3, <1>a, <1>c DEF Unreaped, HistoryOK
<1>4. CASE FinishStop(c)
  <2>1. returned' \in {returned, returned \cup {run[c]}} /\ UNCHANGED <<earned, lost, used>>
    <3>1. via[c] \in {"start", "run", "abandon"}
      BY <1>4, <1>a DEF FinishStop, CallersOK, Typed, Placed, Stopping
    <3>2. CASE via[c] = "start"
      BY <1>4, <3>2 DEF FinishStop
    <3>3. CASE via[c] = "run"
      BY <1>4, <3>3 DEF FinishStop
    <3>4. CASE via[c] = "abandon"
      BY <1>4, <3>4 DEF FinishStop
    <3> QED
      BY <3>1, <3>2, <3>3, <3>4
  <2> QED
    BY <2>1, <1>4, <1>a, <1>b, <1>c DEF HistoryOK, FinishStop
<1>5. CASE \/ \E k \in Caches : LockCache(c, k)
           \/ Qualify(c) \/ MakeScratch(c) \/ OpenScratch(c) \/ CreateFails(c) \/ Unmake(c)
           \/ ProbeScratch(c) \/ ProbeFails(c) \/ Unprobe(c) \/ Describe(c)
           \/ ProveCapabilities(c) \/ PrepareFails(c) \/ Retract(c) \/ Withdraw(c) \/ HandOff(c) \/ Seal(c)
           \/ Import(c) \/ Launch(c) \/ Connect(c) \/ StartFails(c)
           \/ Reaped(c) \/ PublicationFails(c) \/ PersistSessions(c) \/ CheckAuth(c) \/ LockAuth(c)
           \/ ReplaceAuth(c) \/ Clean(c) \/ RemoveScratch(c) \/ Leave(c) \/ Abandon(c)
  <2>1. UNCHANGED <<earned, returned, lost, used>>
    BY <1>5 DEF LockCache, Qualify, MakeScratch, OpenScratch, CreateFails, Unmake, ProbeScratch,
         ProbeFails, Unprobe, Describe, ProveCapabilities, PrepareFails, Retract, Withdraw, HandOff, Seal,
         Import, Launch, Connect, StartFails, Reaped, PublicationFails, PersistSessions, CheckAuth,
         LockAuth, ReplaceAuth, Clean, RemoveScratch, Leave, Abandon, history
  <2> QED
    BY <2>1, <1>1
<1> QED
  BY <1>2, <1>3, <1>4, <1>5 DEF Step, Prepare, Execute, Teardown

\* Steps of a caller keep the types, those around the executors too.
LEMMA TypeStep ==
    ASSUME Typed, NEW c \in Callers, Step(c)
    PROVE  TypeOK'
BY CallersStep, ExecutorsStep, StoreStep, ProcessStep, OperatorStep, HistoryStep, TypePartsNext

LEMMA SubmitTypes ==
    ASSUME Typed, NEW c \in Callers, NEW r \in Requests[c], Submit(c, r)
    PROVE  TypeOK'
<1> DEFINE i == used.ids + 1  x == Uses[c]
<1>a. CallersOK /\ ExecutorsOK /\ StoreOK /\ HistoryOK /\ ProcessOK /\ OperatorOK /\ x \in Executors
  BY TypeParts, RequestsAssumption DEF Typed
<1>b. i \in Ids /\ r \in Asked /\ r.pvc \in BOOLEAN /\ MaxRuns \in Nat
  BY RequestTyped, RequestsAssumption DEF Submit
<1>1. CallersOK'
  BY <1>a, <1>b DEF Submit, CallersOK, Go, Places, Preparing, Refusable
<1>2. ExecutorsOK'
  BY <1>a, <1>b DEF Submit, ExecutorsOK
<1>3. StoreOK'
  BY <1>a, <1>b DEF Submit, StoreOK
<1>4. ProcessOK'
  BY <1>a DEF Submit, ProcessOK, process
<1>5. OperatorOK'
  BY <1>a DEF Submit, OperatorOK, operator
<1>6. HistoryOK'
  BY <1>a, <1>b DEF Submit, HistoryOK, Ids
<1> QED
  BY <1>1, <1>2, <1>3, <1>4, <1>5, <1>6, TypePartsNext

\* An event is counted.
LEMMA EventTyped ==
    ASSUME used \in [ids : 0..MaxRuns, events : 0..MaxEvents, raced : SUBSET Ids], Event
    PROVE  /\ used' \in [ids : 0..MaxRuns, events : 0..MaxEvents, raced : SUBSET Ids]
           /\ used'.ids = used.ids /\ used'.raced = used.raced
<1> DEFINE u == [used EXCEPT !.events = used.events + 1]
<1>1. used' = u /\ used.events < MaxEvents /\ MaxEvents \in Nat
  BY RequestsAssumption DEF Event
<1>2. used.events + 1 \in 0..MaxEvents
  BY <1>1
<1>3. u \in [ids : 0..MaxRuns, events : 0..MaxEvents, raced : SUBSET Ids]
  BY <1>2
<1>4. u.ids = used.ids /\ u.raced = used.raced
  OBVIOUS
<1> QED
  BY <1>1, <1>3, <1>4

LEMMA CrashTypes ==
    ASSUME Typed, NEW x \in Executors, Crash(x)
    PROVE  TypeOK'
<1>a. CallersOK /\ ExecutorsOK /\ StoreOK /\ HistoryOK /\ ProcessOK /\ OperatorOK
  BY TypeParts DEF Typed
<1>1. CallersOK'
  BY <1>a, NothingAsked DEF Crash, CallersOK, Places
<1>2. ExecutorsOK'
  BY <1>a DEF Crash, ExecutorsOK, ClosePlan, ReleaseLocks
<1>3. StoreOK'
  BY <1>a DEF Crash, StoreOK
<1>4. ProcessOK'
  BY <1>a DEF Crash, ProcessOK
<1>5. OperatorOK'
  BY <1>a DEF Crash, OperatorOK
<1>6. HistoryOK'
  <2>1. used' \in [ids : 0..MaxRuns, events : 0..MaxEvents, raced : SUBSET Ids]
    BY <1>a, EventTyped DEF Crash, HistoryOK
  <2>2. 1..used.ids \subseteq Ids
    BY <1>a, RequestsAssumption DEF HistoryOK, Ids
  <2> QED
    BY <1>a, <2>1, <2>2 DEF Crash, HistoryOK
<1> QED
  BY <1>1, <1>2, <1>3, <1>4, <1>5, <1>6, TypePartsNext

LEMMA AroundTypes ==
    ASSUME Typed, Login \/ Upgrade \/ \E i \in Ids : ServerExits(i) \/ Plant(i)
    PROVE  TypeOK' /\ UNCHANGED <<caller, executor, owner>> /\ used'.ids = used.ids
<1>a. CallersOK /\ ExecutorsOK /\ StoreOK /\ HistoryOK /\ ProcessOK /\ OperatorOK
  BY TypeParts DEF Typed
<1>1. UNCHANGED <<caller, executor, owner>>
  BY DEF Login, Upgrade, ServerExits, Plant, store
<1>2. CallersOK' /\ ExecutorsOK'
  BY <1>a, <1>1 DEF CallersOK, ExecutorsOK, caller, executor
<1>3. StoreOK'
  BY <1>a DEF Login, Upgrade, ServerExits, Plant, store, StoreOK, Foreign
<1>4. ProcessOK'
  BY <1>a DEF Login, Upgrade, ServerExits, Plant, process, ProcessOK
<1>5. OperatorOK'
  <2>1. CASE Login
    <3>1. Len(lineage) \in Nat
      BY <1>a DEF OperatorOK
    <3>2. lineage' \in Seq(Credential)
      BY <3>1, <1>a, <2>1 DEF Login, OperatorOK, Credential
    <3> QED
      BY <3>2, <2>1, <1>a DEF Login, OperatorOK
  <2>2. CASE Upgrade \/ \E i \in Ids : ServerExits(i) \/ Plant(i)
    BY <2>2, <1>a DEF Upgrade, ServerExits, Plant, operator, OperatorOK
  <2> QED
    BY <2>1, <2>2
<1>6. HistoryOK' /\ used'.ids = used.ids
  <2>a. used \in [ids : 0..MaxRuns, events : 0..MaxEvents, raced : SUBSET Ids]
    BY <1>a DEF HistoryOK
  <2>1. CASE Login \/ Upgrade
    BY <2>1, <2>a, <1>a, EventTyped DEF Login, Upgrade, HistoryOK
  <2>2. CASE \E i \in Ids : ServerExits(i)
    BY <2>2, <1>a DEF ServerExits, history, HistoryOK
  <2>3. CASE \E i \in Ids : Plant(i)
    <3>1. PICK i \in Ids : Plant(i)
      BY <2>3
    <3> DEFINE names == IF \E c \in Callers : Naming(c, i) THEN used.raced \cup {i} ELSE used.raced
    <3>2. /\ used' = [used EXCEPT !.events = used.events + 1, !.raced = names]
          /\ used.events < MaxEvents /\ MaxEvents \in Nat
          /\ UNCHANGED <<earned, returned, excused, lost>>
      BY <3>1, RequestsAssumption DEF Plant
    <3>3. names \in SUBSET Ids /\ used.events + 1 \in 0..MaxEvents
      BY <3>2, <2>a
    <3> HIDE DEF names
    <3> QED
      BY <3>2, <3>3, <2>a, <1>a DEF HistoryOK
  <2> QED
    BY <2>1, <2>2, <2>3
<1> QED
  BY <1>1, <1>2, <1>3, <1>4, <1>5, <1>6, TypePartsNext

-----------------------------------------------------------------------------
(* A step of a caller concerns that caller and its executor.               *)

LEMMA CallersFrame ==
    ASSUME Typed, NEW c \in Callers, Step(c), NEW d \in Callers, d # c
    PROVE  /\ pc'[d] = pc[d] /\ via'[d] = via[d] /\ run'[d] = run[d] /\ req'[d] = req[d]
           /\ prepared'[d] = prepared[d] /\ sealed'[d] = sealed[d] /\ errors'[d] = errors[d]
           /\ images'[d] = images[d]
<1>a. CallersOK
  BY TypeParts DEF Typed
<1> DEFINE Kept == /\ pc'[d] = pc[d] /\ via'[d] = via[d] /\ run'[d] = run[d] /\ req'[d] = req[d]
                   /\ prepared'[d] = prepared[d] /\ sealed'[d] = sealed[d] /\ errors'[d] = errors[d]
                   /\ images'[d] = images[d]
<1>1. CASE \E k \in Caches : LockCache(c, k)
  BY <1>1 DEF LockCache, caller
<1>2. CASE \/ Qualify(c) \/ MakeScratch(c) \/ OpenScratch(c) \/ CreateFails(c) \/ Unmake(c)
           \/ ProbeScratch(c) \/ ProbeFails(c) \/ Unprobe(c) \/ Describe(c) \/ Withdraw(c)
           \/ HandOff(c) \/ Import(c) \/ Launch(c) \/ Connect(c) \/ PersistSessions(c)
           \/ CheckAuth(c) \/ LockAuth(c) \/ ReplaceAuth(c)
  BY <1>2, <1>a, OnlyGo DEF Go, CallersOK
<1>3. CASE PrepareFails(c) \/ Retract(c) \/ Leave(c)
  <2>1. GoIdle(c) \/ (Go(c, "retracting") /\ UNCHANGED <<via, run, req, prepared, sealed, errors, images>>)
    BY <1>3 DEF PrepareFails, Retract, Leave
  <2> QED
    BY <2>1, <1>a DEF GoIdle, Go, CallersOK
<1>4. CASE StartFails(c) \/ Abandon(c) \/ \E success \in BOOLEAN : ClientEnds(c, success)
  BY <1>4, <1>a DEF StartFails, Abandon, ClientEnds, BeginStop, Go, CallersOK
<1>5. CASE Reaped(c) \/ Unreaped(c) \/ PublicationFails(c) \/ Clean(c) \/ RemoveScratch(c)
  BY <1>5, <1>a DEF Reaped, Unreaped, PublicationFails, Clean, RemoveScratch, Go, CallersOK
<1>6. CASE ProveCapabilities(c) \/ Seal(c)
  BY <1>6, <1>a DEF ProveCapabilities, Seal, Go, CallersOK
<1>7. CASE FinishStop(c)
  <2>1. \/ BeginStop(c, "run") /\ UNCHANGED <<run, req, prepared, sealed, images>>
        \/ GoIdle(c)
        \/ Go(c, "leaving") /\ UNCHANGED <<via, run, req, prepared, sealed, errors, images>>
    BY <1>7, FinishStopMoves
  <2> QED
    BY <2>1, <1>a DEF BeginStop, GoIdle, Go, CallersOK
<1> QED
  BY <1>1, <1>2, <1>3, <1>4, <1>5, <1>6, <1>7 DEF Step, Prepare, Execute, Teardown

LEMMA ExecutorsFrame ==
    ASSUME Typed, NEW c \in Callers, Step(c), NEW y \in Executors, y # Uses[c]
    PROVE  /\ runLock'[y] = runLock[y] /\ transferred'[y] = transferred[y] /\ plan'[y] = plan[y]
           /\ locks'[y] = locks[y] /\ scratch'[y] = scratch[y] /\ handle'[y] = handle[y]
           /\ descriptor'[y] = descriptor[y] /\ defer'[y] = defer[y] /\ source'[y] = source[y]
           /\ stateDir'[y] = stateDir[y]
<1>a. ExecutorsOK
  BY TypeParts DEF Typed
<1>1. CASE UNCHANGED executor
  BY <1>1 DEF executor
<1>2. CASE (\E k \in Caches : LockCache(c, k)) \/ ProbeScratch(c) \/ Describe(c) \/ HandOff(c) \/ Import(c)
           \/ Launch(c)
  BY <1>2, <1>a DEF LockCache, ProbeScratch, Describe, HandOff, Import, Launch, ExecutorsOK
<1>3. CASE PrepareFails(c) \/ Retract(c) \/ Abandon(c) \/ \E success \in BOOLEAN : ClientEnds(c, success)
  BY <1>3, <1>a DEF PrepareFails, Retract, Abandon, ClientEnds, ReleaseLocks, ClosePlan, ReleaseRun, ExecutorsOK
<1>4. CASE FinishStop(c)
  BY <1>4, <1>a, FinishStopReleases DEF ExecutorsOK
<1> QED
  BY <1>1, <1>2, <1>3, <1>4, Unaffected DEF Step, Prepare, Execute, Teardown

\* A caller at work stays with its request, or is done with it.
LEMMA Turn ==
    ASSUME Typed, NEW c \in Callers, Step(c)
    PROVE  /\ pc[c] # "idle" /\ UNCHANGED owner
           /\ \/ pc'[c] # "idle" /\ run'[c] = run[c] /\ req'[c] = req[c]
              \/ pc'[c] = "idle" /\ run'[c] = 0
           /\ pc'[c] \in Stopping => via'[c] # "none"
           /\ pc'[c] \in {"flocking", "replacing", "removing", "retracting"} => scratch'[Uses[c]] # 0
<1>a. CallersOK /\ ExecutorsOK /\ Uses[c] \in Executors /\ Placed(c)
  BY TypeParts, RequestsAssumption DEF Typed
<1>b. pc[c] \in Stopping => via[c] # "none"
  BY <1>a DEF Placed
<1>1. CASE \E k \in Caches : LockCache(c, k)
  BY <1>1 DEF LockCache, caller, Stopping, store
<1>2. CASE \/ Qualify(c) \/ MakeScratch(c) \/ OpenScratch(c) \/ CreateFails(c) \/ Unmake(c)
           \/ ProbeScratch(c) \/ ProbeFails(c) \/ Unprobe(c) \/ Describe(c) \/ Withdraw(c)
           \/ HandOff(c) \/ Import(c) \/ Launch(c) \/ Connect(c)
  BY <1>2, <1>a DEF Qualify, MakeScratch, OpenScratch, CreateFails, Unmake, ProbeScratch, ProbeFails,
       Unprobe, Describe, Withdraw, HandOff, Import, Launch, Connect, Go, CallersOK, Stopping, store,
       Keep, RemoveEntry
<1>3. CASE PersistSessions(c) \/ CheckAuth(c) \/ LockAuth(c) \/ ReplaceAuth(c)
  BY <1>3, <1>a, <1>b DEF PersistSessions, CheckAuth, LockAuth, ReplaceAuth, Go, CallersOK, Stopping,
       store, executor, Placed
<1>4. CASE PrepareFails(c) \/ Retract(c) \/ Leave(c)
  <2>1. /\ pc[c] # "idle"
        /\ \/ GoIdle(c)
           \/ /\ Go(c, "retracting") /\ UNCHANGED <<run, req, scratch>>
              /\ scratch[Uses[c]] # 0
    BY <1>4 DEF PrepareFails, Retract, Leave, Refusable
  <2>2. UNCHANGED owner
    BY <1>4 DEF PrepareFails, Retract, Leave, store, Keep, RemoveEntry
  <2> QED
    BY <2>1, <2>2, <1>a DEF GoIdle, Go, CallersOK, Stopping
<1>5. CASE StartFails(c) \/ Abandon(c) \/ \E success \in BOOLEAN : ClientEnds(c, success)
  BY <1>5, <1>a DEF StartFails, Abandon, ClientEnds, BeginStop, Go, CallersOK, Stopping, Starting, store
<1>6. CASE Reaped(c) \/ Unreaped(c) \/ PublicationFails(c)
  BY <1>6, <1>a, <1>b DEF Reaped, Unreaped, PublicationFails, Go, CallersOK, Stopping, store
<1>9. CASE Clean(c) \/ RemoveScratch(c)
  <2>1. /\ pc[c] \in {"cleaning", "removing"}
        /\ \/ Go(c, "finishing")
           \/ Go(c, "removing") /\ scratch[Uses[c]] # 0
        /\ UNCHANGED <<via, run, req, executor>>
    BY <1>9 DEF Clean, RemoveScratch
  <2>2. UNCHANGED owner
    BY <1>9 DEF Clean, RemoveScratch, store, Keep, RemoveEntry
  <2> QED
    BY <2>1, <2>2, <1>a, <1>b DEF Go, CallersOK, Stopping, executor
<1>7. CASE ProveCapabilities(c) \/ Seal(c)
  BY <1>7, <1>a DEF ProveCapabilities, Seal, Go, CallersOK, Stopping, store
<1>8. CASE FinishStop(c)
  <2>1. pc[c] = "finishing" /\ UNCHANGED owner
    BY <1>8 DEF FinishStop, store
  <2> QED
    BY <2>1, <1>8, <1>a, FinishStopMoves DEF BeginStop, GoIdle, Go, CallersOK, Stopping
<1> QED
  BY <1>1, <1>2, <1>3, <1>4, <1>5, <1>6, <1>7, <1>8, <1>9 DEF Step, Prepare, Execute, Teardown

LEMMA TypedStep ==
    ASSUME Apart, Typed, NEW c \in Callers, Step(c)
    PROVE  Typed'
<1>1. TypeOK' /\ UNCHANGED used
  BY TypeStep, HistoryStep
<1>a. TypeOK /\ \A d \in Callers : Placed(d) /\ Uses[d] \in Executors
  BY RequestsAssumption DEF Typed
<1>2. Placed(c)'
  BY <1>1, <1>a, Turn DEF Placed
<1>3. ASSUME NEW d \in Callers, d # c
      PROVE  Placed(d)' /\ run'[d] = run[d]
  <2>1. Uses[d] # Uses[c] /\ Uses[d] \in Executors
    BY <1>a, <1>3 DEF Apart
  <2>2. /\ pc'[d] = pc[d] /\ via'[d] = via[d] /\ run'[d] = run[d] /\ req'[d] = req[d]
        /\ scratch'[Uses[d]] = scratch[Uses[d]] /\ owner' = owner
    BY <2>1, <1>3, CallersFrame, ExecutorsFrame, Turn
  <2> QED
    BY <2>2, <1>1, <1>a DEF Placed
<1>4. \A d, e \in Callers : run'[d] = run'[e] /\ run'[d] # 0 => d = e
  BY <1>3, Turn DEF Typed
<1> QED
  BY <1>1, <1>2, <1>3, <1>4 DEF Typed

LEMMA TypedInit ==
    ASSUME Init
    PROVE  Typed
<1>1. CallersOK
  BY NothingAsked DEF Init, CallersOK, Places
<1>2. ExecutorsOK
  BY DEF Init, ExecutorsOK
<1>3. StoreOK /\ ProcessOK
  BY DEF Init, StoreOK, ProcessOK
<1>4. OperatorOK
  <2>1. [by |-> 0, basis |-> 0, file |-> First] \in Credential
    BY RequestsAssumption DEF Credential
  <2>2. <<[by |-> 0, basis |-> 0, file |-> First]>> \in Seq(Credential)
    BY <2>1
  <2> QED
    BY <2>2 DEF Init, OperatorOK
<1>7. HistoryOK
  BY RequestsAssumption DEF Init, HistoryOK
<1>5. \A c \in Callers : Placed(c)
  BY DEF Init, Placed, Stopping
<1>6. \A c, d \in Callers : run[c] = run[d] /\ run[c] # 0 => c = d
  BY DEF Init
<1> QED
  BY <1>1, <1>2, <1>3, <1>4, <1>5, <1>6, <1>7, TypeParts DEF Typed

LEMMA TypedSubmit ==
    ASSUME Apart, Typed, NEW c \in Callers, NEW r \in Requests[c], Submit(c, r)
    PROVE  Typed'
<1> DEFINE i == used.ids + 1
<1>a. TypeOK /\ used.ids \in Nat /\ \A d \in Callers : Placed(d) /\ Uses[d] \in Executors
  BY RequestsAssumption DEF Typed, TypeOK
<1>b. i \in Ids /\ i # 0 /\ i > used.ids
  BY <1>a, RequestsAssumption DEF Submit, Ids
<1>1. /\ pc' = [pc EXCEPT ![c] = "locking"] /\ run' = [run EXCEPT ![c] = i] /\ req' = [req EXCEPT ![c] = r]
      /\ owner' = [owner EXCEPT ![i] = Uses[c]] /\ used' = [used EXCEPT !.ids = i]
      /\ UNCHANGED <<via, scratch>>
  BY DEF Submit, Go
<1>2. TypeOK'
  BY SubmitTypes
<1>3. used'.ids = i
  BY <1>1, <1>a DEF TypeOK
<1>4. Placed(c)'
  <2>1. pc'[c] = "locking" /\ run'[c] = i /\ req'[c] = r /\ owner'[i] = Uses[c]
    BY <1>1, <1>a, <1>b DEF TypeOK
  <2> QED
    BY <2>1, <1>3, <1>a, <1>b DEF Placed, Stopping
<1>5. ASSUME NEW d \in Callers, d # c
      PROVE  Placed(d)' /\ run'[d] = run[d] /\ run[d] # i
  <2>1. /\ pc'[d] = pc[d] /\ run'[d] = run[d] /\ req'[d] = req[d] /\ UNCHANGED <<via, scratch>>
        /\ run[d] \in Ids \cup {0} /\ Placed(d)
    BY <1>1, <1>5, <1>a DEF TypeOK
  <2>2. run[d] # i
    BY <2>1, <1>a, <1>b DEF Placed, Ids
  <2>3. run[d] # 0 => owner'[run[d]] = owner[run[d]] /\ run[d] <= used'.ids
    BY <2>1, <2>2, <1>1, <1>3, <1>a DEF TypeOK, Placed, Ids
  <2> QED
    BY <2>1, <2>2, <2>3 DEF Placed
<1>6. \A d, e \in Callers : run'[d] = run'[e] /\ run'[d] # 0 => d = e
  BY <1>1, <1>5, <1>a DEF Typed, TypeOK
<1> QED
  BY <1>2, <1>4, <1>5, <1>6 DEF Typed

LEMMA TypedCrash ==
    ASSUME Apart, Typed, NEW x \in Executors, Crash(x)
    PROVE  Typed'
<1>a. TypeOK /\ \A d \in Callers : Placed(d) /\ Uses[d] \in Executors
  BY RequestsAssumption DEF Typed
<1>1. TypeOK' /\ UNCHANGED owner /\ used'.ids = used.ids
  BY <1>a, CrashTypes, EventTyped DEF Crash, TypeOK
<1>2. ASSUME NEW d \in Callers, Uses[d] = x
      PROVE  Placed(d)' /\ run'[d] = 0
  BY <1>2, <1>1 DEF Crash, Placed, Stopping
<1>3. ASSUME NEW d \in Callers, Uses[d] # x
      PROVE  Placed(d)' /\ run'[d] = run[d]
  <2>1. pc'[d] = pc[d] /\ run'[d] = run[d] /\ req'[d] = req[d] /\ via'[d] = via[d]
        /\ scratch'[Uses[d]] = scratch[Uses[d]]
    BY <1>3, <1>a DEF Crash, TypeOK
  <2> QED
    BY <2>1, <1>1, <1>a DEF Placed
<1>4. \A d, e \in Callers : run'[d] = run'[e] /\ run'[d] # 0 => d = e
  BY <1>2, <1>3 DEF Typed
<1> QED
  BY <1>1, <1>2, <1>3, <1>4 DEF Typed

LEMMA TypedAround ==
    ASSUME Typed, Login \/ Upgrade \/ \E i \in Ids : ServerExits(i) \/ Plant(i)
    PROVE  Typed'
BY AroundTypes DEF Typed, Placed, caller, executor

LEMMA TypedNext ==
    ASSUME Apart, Typed, [Next]_vars
    PROVE  Typed'
<1>1. CASE UNCHANGED vars
  BY <1>1 DEF vars, caller, executor, store, process, operator, history, Typed, TypeOK, Placed
<1>2. CASE Next
  BY <1>2, TypedStep, TypedSubmit, TypedCrash, TypedAround DEF Next
<1> QED
  BY <1>1, <1>2

\* Every reachable state is well typed, for any callers with executors of their own, caches,
\* requests and bounds.
THEOREM SandboxTypeCorrect ==
    ASSUME Apart
    PROVE  Spec => []TypeOK
<1>1. Init => Typed
  BY TypedInit
<1>2. Typed /\ [Next]_vars => Typed'
  BY TypedNext
<1>3. Typed => TypeOK
  BY DEF Typed
<1> QED
  BY <1>1, <1>2, <1>3, PTL DEF Spec

-----------------------------------------------------------------------------
(* Servers and cache locks.                                                *)

Holding == {"scratching", "opening", "probing", "describing", "proving", "prepared", "identity", "importing",
            "launching",
            "handshake", "client"}

\* A cache is locked from the qualification of the request to the end of its client.
Holds(c) == pc[c] \in Holding => \A k \in req[c].caches : <<k, run[c]>> \in locks[Uses[c]]
Sealed(c) == pc[c] \in {"importing", "launching"} => sealed[c] = "pinned"

OneHolder ==
    \A x, y \in Executors : \A k \in Caches : \A i, j \in Ids :
        <<k, i>> \in locks[x] /\ <<k, j>> \in locks[y] => x = y /\ i = j

\* The caller that answers for a running server.
Runs(c, i) ==
    /\ run[c] = i /\ pc[c] \in {"handshake", "client", "stopping"} /\ handle[Uses[c]] = i
    /\ \A k \in mounts[i] : <<k, i>> \in locks[Uses[c]]
Watched(i) ==
    server[i] = "alive" =>
        /\ image[i] = "pinned" /\ mounts[i] \subseteq Caches
        /\ i \in lost \/ \E c \in Callers : Runs(c, i)

Guarded ==
    /\ Typed
    /\ \A c \in Callers : Holds(c) /\ Sealed(c)
    /\ OneHolder
    /\ \A i \in Ids : Watched(i)

LEMMA HoldsStep ==
    ASSUME Typed, NEW c \in Callers, Step(c), Holds(c), Sealed(c)
    PROVE  Holds(c)' /\ Sealed(c)'
<1>a. CallersOK /\ ExecutorsOK /\ Uses[c] \in Executors
  BY TypeParts, RequestsAssumption DEF Typed
<1>1. CASE \E k \in Caches : LockCache(c, k)
  BY <1>1, <1>a DEF LockCache, caller, Holding, Holds, Sealed
<1>2. CASE Qualify(c)
  BY <1>2, <1>a DEF Qualify, CachesLocked, Go, CallersOK, executor, Holding, Holds, Sealed
<1>3. CASE \/ MakeScratch(c) \/ OpenScratch(c) \/ CreateFails(c) \/ Unmake(c) \/ ProbeScratch(c)
           \/ Describe(c) \/ ProveCapabilities(c) \/ HandOff(c)
           \/ Launch(c) \/ Connect(c)
  BY <1>3, <1>a DEF MakeScratch, OpenScratch, CreateFails, Unmake, ProbeScratch, Describe,
       ProveCapabilities, HandOff, Launch, Connect, Go, CallersOK, executor, Holding, Holds, Sealed
<1>4. CASE Seal(c)
  BY <1>4, <1>a DEF Seal, Pinned, Go, CallersOK, executor, Holding, Holds, Sealed
<1>5. CASE Import(c)
  BY <1>5, <1>a DEF Import, Go, CallersOK, Holding, Holds, Sealed
<1>6. CASE \/ ProbeFails(c) \/ Unprobe(c) \/ Withdraw(c) \/ StartFails(c)
           \/ \E success \in BOOLEAN : ClientEnds(c, success)
           \/ Reaped(c) \/ Unreaped(c) \/ PublicationFails(c) \/ PersistSessions(c) \/ CheckAuth(c)
           \/ LockAuth(c)
           \/ ReplaceAuth(c) \/ Clean(c) \/ RemoveScratch(c) \/ Abandon(c)
  <2>1. pc'[c] \notin Holding
    BY <1>6, <1>a DEF ProbeFails, Unprobe, Withdraw, StartFails, ClientEnds, Reaped, Unreaped,
         PublicationFails, PersistSessions, CheckAuth, LockAuth, ReplaceAuth, Clean, RemoveScratch,
         Abandon, BeginStop, Go, CallersOK, Holding
  <2> QED
    BY <2>1 DEF Holds, Sealed, Holding
<1>7. CASE PrepareFails(c) \/ Retract(c) \/ Leave(c)
  <2>1. pc'[c] \in {"idle", "retracting"}
    BY <1>7, <1>a DEF PrepareFails, Retract, Leave, GoIdle, Go, CallersOK
  <2> QED
    BY <2>1 DEF Holds, Sealed, Holding
<1>8. CASE FinishStop(c)
  <2>1. pc'[c] \in {"stopping", "idle", "leaving"}
    BY <1>8, <1>a, FinishStopMoves DEF BeginStop, GoIdle, Go, CallersOK
  <2> QED
    BY <2>1 DEF Holds, Sealed, Holding
<1> QED
  BY <1>1, <1>2, <1>3, <1>4, <1>5, <1>6, <1>7, <1>8 DEF Step, Prepare, Execute, Teardown

\* A step takes one free cache, or takes none.
LEMMA OneHolderStep ==
    ASSUME Typed, OneHolder, NEW c \in Callers, Step(c)
    PROVE  OneHolder'
<1>a. ExecutorsOK /\ Uses[c] \in Executors
  BY TypeParts, RequestsAssumption DEF Typed
<1>1. CASE \E k \in Caches : LockCache(c, k)
  <2> PICK k \in Caches : LockCache(c, k)
    BY <1>1
  <2>1. /\ \A y \in Executors : locks'[y] = IF y = Uses[c] THEN locks[y] \cup {<<k, run[c]>>} ELSE locks[y]
        /\ \A y \in Executors, i \in Ids : <<k, i>> \notin locks[y]
    BY <1>a DEF LockCache, Held, ExecutorsOK
  <2>2. ASSUME NEW y \in Executors, NEW l \in Caches, NEW i \in Ids
        PROVE  <<l, i>> \in locks'[y] <=> <<l, i>> \in locks[y] \/ (y = Uses[c] /\ l = k /\ i = run[c])
    <3>1. <<l, i>> \in {<<k, run[c]>>} <=> l = k /\ i = run[c]
      OBVIOUS
    <3>2. CASE y = Uses[c]
      BY <3>1, <3>2, <2>1
    <3>3. CASE y # Uses[c]
      BY <3>3, <2>1
    <3> QED
      BY <3>2, <3>3
  <2> QED
    BY <2>1, <2>2 DEF OneHolder
<1>2. CASE ~ \E k \in Caches : LockCache(c, k)
  <2>1. locks' = locks \/ locks' = [locks EXCEPT ![Uses[c]] = {}]
    BY <1>2, Unaffected, FinishStopReleases DEF Step, Prepare, Execute, Teardown, executor, ProbeScratch,
         Describe, PrepareFails, Retract, HandOff, Import, Launch, ClientEnds, Abandon, ReleaseLocks
  <2>2. \A y \in Executors : locks'[y] \subseteq locks[y]
    BY <2>1, <1>a DEF ExecutorsOK
  <2> QED
    BY <2>2 DEF OneHolder
<1> QED
  BY <1>1, <1>2

\* The server of a caller's own run, after its step.
LEMMA OwnServer ==
    ASSUME NEW c \in Callers, Typed, Holds(c), Sealed(c), Step(c), NEW i \in Ids, Runs(c, i), Watched(i)
    PROVE  Watched(i)'
<1>a. CallersOK /\ ExecutorsOK /\ ProcessOK /\ HistoryOK /\ Uses[c] \in Executors
  BY TypeParts, RequestsAssumption DEF Typed
<1>b. pc[c] \in {"handshake", "client", "stopping"} /\ handle[Uses[c]] = i /\ run[c] = i /\ i # 0
  BY DEF Runs, Ids
<1>1. CASE Connect(c)
  BY <1>1, <1>a DEF Connect, Go, CallersOK, executor, process, history, Watched, Runs
<1>2. CASE StartFails(c) \/ \E success \in BOOLEAN : ClientEnds(c, success)
  BY <1>2, <1>a DEF StartFails, ClientEnds, BeginStop, Go, CallersOK, executor, process, history, Watched, Runs
<1>3. CASE Reaped(c)
  <2>1. server'[i] = "dead"
    BY <1>3, <1>a, <1>b DEF Reaped, ProcessOK
  <2> QED
    BY <2>1 DEF Watched
<1>4. CASE Unreaped(c)
  <2>1. i \in lost' /\ UNCHANGED process
    BY <1>4, <1>a, <1>b DEF Unreaped
  <2> QED
    BY <2>1 DEF Watched, process
<1> QED
  BY <1>1, <1>2, <1>3, <1>4, <1>b DEF Step, Prepare, Execute, Teardown, LockCache, Qualify, MakeScratch,
       OpenScratch, CreateFails, Unmake, ProbeScratch, ProbeFails, Unprobe, Describe, ProveCapabilities,
       PrepareFails, Retract, Withdraw, HandOff, Seal, Import, Launch, PublicationFails, PersistSessions,
       CheckAuth, LockAuth, ReplaceAuth, Clean, RemoveScratch, FinishStop, Leave, Abandon, Preparing,
       Refusable

\* The server a launch starts.
LEMMA Launched ==
    ASSUME NEW c \in Callers, Typed, Holds(c), Sealed(c), Launch(c), NEW i \in Ids, i = run[c]
    PROVE  Watched(i)'
<1>a. CallersOK /\ ExecutorsOK /\ ProcessOK /\ Uses[c] \in Executors /\ i \in Ids /\ req[c] \in Requests[c]
  BY TypeParts, AtWork, RequestsAssumption DEF Typed, Launch
<1>1. server'[i] = "alive" /\ mounts'[i] = Reach(req[c]) /\ image'[i] = sealed[c]
  BY <1>a DEF Launch, ProcessOK, Materialized
<1>2. Reach(req[c]) = req[c].caches /\ req[c].caches \subseteq Caches
  BY <1>a, RequestTyped DEF Launch, Reach, Separate
<1>3. image'[i] = "pinned"
  BY <1>1 DEF Launch, Sealed
<1>4. Runs(c, i)'
  <2>1. pc'[c] = "handshake" /\ run'[c] = i /\ handle'[Uses[c]] = i /\ UNCHANGED locks
    BY <1>a DEF Launch, Go, CallersOK, ExecutorsOK
  <2>2. \A k \in req[c].caches : <<k, i>> \in locks[Uses[c]]
    BY DEF Launch, Holds, Holding
  <2> QED
    BY <2>1, <2>2, <1>1, <1>2 DEF Runs
<1> QED
  BY <1>1, <1>2, <1>3, <1>4 DEF Watched

\* Only a launch starts a server.
LEMMA NoLaunch ==
    ASSUME NEW c \in Callers, Typed, Step(c), ~Launch(c), NEW i \in Ids
    PROVE  /\ server'[i] = server[i] \/ server'[i] = "dead"
           /\ mounts'[i] = mounts[i] /\ image'[i] = image[i] /\ lost \subseteq lost'
<1>a. ProcessOK
  BY TypeParts DEF Typed
<1>1. CASE Reaped(c)
  BY <1>1, <1>a DEF Reaped, ProcessOK, history
<1>2. CASE FinishStop(c)
  BY <1>2 DEF FinishStop, process
<1>3. CASE ~Reaped(c) /\ ~FinishStop(c)
  BY <1>3 DEF Step, Prepare, Execute, Teardown, LockCache, Qualify, MakeScratch, OpenScratch, CreateFails,
       Unmake, ProbeScratch, ProbeFails, Unprobe, Describe, ProveCapabilities, PrepareFails, Retract,
       Withdraw, HandOff, Seal, Import, Connect, StartFails, ClientEnds, Unreaped, PublicationFails,
       PersistSessions, CheckAuth, LockAuth, ReplaceAuth, Clean, RemoveScratch, Leave, Abandon, process,
       history
<1> QED
  BY <1>1, <1>2, <1>3

\* And it starts that of the caller's run.
LEMMA OtherServers ==
    ASSUME NEW c \in Callers, Typed, Step(c), NEW i \in Ids, i # run[c]
    PROVE  /\ server'[i] = server[i] \/ server'[i] = "dead"
           /\ mounts'[i] = mounts[i] /\ image'[i] = image[i] /\ lost \subseteq lost'
<1>1. CASE Launch(c)
  BY <1>1, TypeParts DEF Launch, ProcessOK, history, Typed
<1> QED
  BY <1>1, NoLaunch

LEMMA GuardedStep ==
    ASSUME Apart, Guarded, NEW c \in Callers, Step(c)
    PROVE  Guarded'
<1>a. Typed /\ (\A d \in Callers : Holds(d) /\ Sealed(d)) /\ OneHolder /\ \A i \in Ids : Watched(i)
  BY DEF Guarded
<1>b. \A d \in Callers : Uses[d] \in Executors
  BY RequestsAssumption
<1>1. Typed' /\ OneHolder'
  BY <1>a, TypedStep, OneHolderStep
<1>2. ASSUME NEW d \in Callers, d # c
      PROVE  /\ pc'[d] = pc[d] /\ run'[d] = run[d] /\ req'[d] = req[d] /\ sealed'[d] = sealed[d]
             /\ locks'[Uses[d]] = locks[Uses[d]] /\ handle'[Uses[d]] = handle[Uses[d]]
  <2>1. Uses[d] # Uses[c]
    BY <1>2 DEF Apart
  <2> QED
    BY <2>1, <1>2, <1>a, <1>b, CallersFrame, ExecutorsFrame
<1>3. ASSUME NEW d \in Callers
      PROVE  Holds(d)' /\ Sealed(d)'
  BY <1>2, <1>a, HoldsStep DEF Holds, Sealed
<1>4. ASSUME NEW i \in Ids
      PROVE  Watched(i)'
  <2>1. CASE i # run[c]
    <3>1. \A d \in Callers : Runs(d, i) /\ mounts'[i] = mounts[i] => Runs(d, i)'
      BY <2>1, <1>2 DEF Runs
    <3> QED
      BY <2>1, <3>1, <1>a, OtherServers DEF Watched
  <2>2. CASE i = run[c] /\ Launch(c)
    BY <2>2, <1>a, Launched
  <2>3. CASE i = run[c] /\ ~Launch(c) /\ Runs(c, i)
    BY <2>3, <1>a, OwnServer
  <2>4. CASE i = run[c] /\ ~Launch(c) /\ ~Runs(c, i)
    <3>1. \A d \in Callers : run[d] = i => d = c
      BY <2>4, <1>a DEF Typed, Ids
    <3>2. \A d \in Callers : ~Runs(d, i)
      BY <3>1, <2>4 DEF Runs
    <3>3. /\ server'[i] = server[i] \/ server'[i] = "dead"
          /\ mounts'[i] = mounts[i] /\ image'[i] = image[i] /\ lost \subseteq lost'
      BY <2>4, <1>a, NoLaunch
    <3> QED
      BY <3>2, <3>3, <1>a DEF Watched
  <2> QED
    BY <2>1, <2>2, <2>3, <2>4
<1> QED
  BY <1>1, <1>3, <1>4 DEF Guarded

LEMMA GuardedSubmit ==
    ASSUME Apart, Guarded, NEW c \in Callers, NEW r \in Requests[c], Submit(c, r)
    PROVE  Guarded'
<1>a. Typed /\ (\A d \in Callers : Holds(d) /\ Sealed(d)) /\ OneHolder /\ \A i \in Ids : Watched(i)
  BY DEF Guarded
<1>b. CallersOK
  BY <1>a, TypeParts DEF Typed
<1>1. Typed'
  BY <1>a, TypedSubmit
<1>2. UNCHANGED <<locks, handle, sealed, server, mounts, image, lost>> /\ pc[c] = "idle" /\ pc'[c] = "locking"
  BY <1>b DEF Submit, Go, CallersOK, process
<1>3. ASSUME NEW d \in Callers, d # c
      PROVE  pc'[d] = pc[d] /\ run'[d] = run[d] /\ req'[d] = req[d]
  BY <1>3, <1>b DEF Submit, Go, CallersOK
<1>4. \A d \in Callers : Holds(d)' /\ Sealed(d)'
  BY <1>2, <1>3, <1>a DEF Holds, Sealed, Holding
<1>5. OneHolder'
  BY <1>2, <1>a DEF OneHolder
<1>6. \A i \in Ids : \A d \in Callers : Runs(d, i) => Runs(d, i)'
  BY <1>2, <1>3 DEF Runs
<1>7. \A i \in Ids : Watched(i)'
  BY <1>2, <1>6, <1>a DEF Watched
<1> QED
  BY <1>1, <1>4, <1>5, <1>7 DEF Guarded

LEMMA GuardedCrash ==
    ASSUME Apart, Guarded, NEW x \in Executors, Crash(x)
    PROVE  Guarded'
<1>a. Typed /\ (\A d \in Callers : Holds(d) /\ Sealed(d)) /\ OneHolder /\ \A i \in Ids : Watched(i)
  BY DEF Guarded
<1>b. CallersOK /\ ExecutorsOK /\ ProcessOK /\ StoreOK /\ HistoryOK /\ \A d \in Callers : Uses[d] \in Executors
  BY <1>a, TypeParts, RequestsAssumption DEF Typed
<1>1. Typed'
  BY <1>a, TypedCrash
<1>2. ASSUME NEW d \in Callers, Uses[d] # x
      PROVE  /\ pc'[d] = pc[d] /\ run'[d] = run[d] /\ req'[d] = req[d] /\ sealed'[d] = sealed[d]
             /\ locks'[Uses[d]] = locks[Uses[d]] /\ handle'[Uses[d]] = handle[Uses[d]]
  BY <1>2, <1>b DEF Crash, ReleaseLocks, CallersOK, ExecutorsOK
<1>3. ASSUME NEW d \in Callers, Uses[d] = x
      PROVE  pc'[d] = "idle"
  BY <1>3 DEF Crash
<1>4. \A d \in Callers : Holds(d)' /\ Sealed(d)'
  BY <1>2, <1>3, <1>a DEF Holds, Sealed, Holding
<1>5. OneHolder'
  <2>1. \A y \in Executors : locks'[y] \subseteq locks[y]
    BY <1>b DEF Crash, ReleaseLocks, ExecutorsOK
  <2> QED
    BY <2>1, <1>a DEF OneHolder
<1>6. UNCHANGED <<mounts, image, lost>>
  BY DEF Crash
<1>7. ASSUME NEW i \in Ids
      PROVE  Watched(i)'
  <2>1. server'[i] = IF i \in 1..used.ids /\ owner[i] = x /\ server[i] = "alive" THEN "dead" ELSE server[i]
    BY <1>b DEF Crash
  <2>2. ASSUME NEW d \in Callers, Runs(d, i), server'[i] = "alive"
        PROVE  Runs(d, i)'
    <3>1. owner[i] = Uses[d] /\ i \in 1..used.ids
      BY <2>2, <1>a, <1>b DEF Runs, Typed, Placed, Ids, HistoryOK
    <3>2. Uses[d] # x
      BY <3>1, <2>1, <2>2
    <3> QED
      BY <3>2, <1>2, <1>6, <2>2 DEF Runs
  <2> QED
    BY <2>1, <2>2, <1>6, <1>a DEF Watched
<1> QED
  BY <1>1, <1>4, <1>5, <1>7 DEF Guarded

LEMMA GuardedAround ==
    ASSUME Guarded, Login \/ Upgrade \/ \E i \in Ids : ServerExits(i) \/ Plant(i)
    PROVE  Guarded'
<1>a. Typed /\ (\A d \in Callers : Holds(d) /\ Sealed(d)) /\ OneHolder /\ \A i \in Ids : Watched(i)
  BY DEF Guarded
<1>1. Typed' /\ UNCHANGED <<pc, run, req, sealed, locks, handle>>
  BY <1>a, TypedAround, AroundTypes DEF caller, executor
<1>2. \A i \in Ids : server'[i] \in {server[i], "dead"} /\ UNCHANGED <<mounts, image, lost>>
  <2>1. ProcessOK
    BY <1>a, TypeParts DEF Typed
  <2> QED
    BY <2>1 DEF ProcessOK, Login, Upgrade, ServerExits, Plant, process, history
<1>3. \A i \in Ids : Watched(i)'
  BY <1>1, <1>2, <1>a DEF Watched, Runs
<1> QED
  BY <1>1, <1>3, <1>a DEF Guarded, Holds, Sealed, OneHolder

LEMMA GuardedInit ==
    ASSUME Init
    PROVE  Guarded
<1>1. Typed
  BY TypedInit
<1>2. (\A c \in Callers : Holds(c) /\ Sealed(c)) /\ OneHolder
  BY DEF Init, Holds, Sealed, Holding, OneHolder
<1>3. \A i \in Ids : Watched(i)
  BY DEF Init, Watched
<1> QED
  BY <1>1, <1>2, <1>3 DEF Guarded

LEMMA GuardedNext ==
    ASSUME Apart, Guarded, [Next]_vars
    PROVE  Guarded'
<1>1. CASE UNCHANGED vars
  <2>1. Typed'
    BY TypedNext DEF Guarded
  <2>2. UNCHANGED <<pc, run, req, sealed, locks, handle, server, mounts, image, lost>>
    BY <1>1 DEF vars, caller, executor, process, history
  <2>3. (\A c \in Callers : Holds(c)' /\ Sealed(c)') /\ OneHolder'
    BY <2>2 DEF Guarded, Holds, Sealed, OneHolder
  <2>4. \A i \in Ids : Watched(i)'
    BY <2>2 DEF Guarded, Watched, Runs
  <2> QED
    BY <2>1, <2>3, <2>4 DEF Guarded
<1>2. CASE Next
  BY <1>2, GuardedStep, GuardedSubmit, GuardedCrash, GuardedAround DEF Next
<1> QED
  BY <1>1, <1>2

LEMMA AlwaysGuarded ==
    ASSUME Apart
    PROVE  Spec => []Guarded
<1>1. Init => Guarded
  BY GuardedInit
<1>2. Guarded /\ [Next]_vars => Guarded'
  BY GuardedNext
<1> QED
  BY <1>1, <1>2, PTL DEF Spec

\* No two servers that can still be reaped write one cache: each is answered for by a caller whose
\* executor holds the lock of every cache it mounts, and a cache has one lock.
THEOREM CacheExclusiveCorrect ==
    ASSUME Apart
    PROVE  Spec => []CacheExclusive
<1>1. Guarded => CacheExclusive
  <2> SUFFICES ASSUME Guarded, NEW i \in Ids \ lost, NEW j \in Ids \ lost, i # j,
                      server[i] = "alive", server[j] = "alive"
               PROVE  mounts[i] \cap mounts[j] \cap Caches = {}
    BY DEF CacheExclusive
  <2>1. PICK c \in Callers : Runs(c, i)
    BY DEF Guarded, Watched
  <2>2. PICK d \in Callers : Runs(d, j)
    BY DEF Guarded, Watched
  <2>3. Uses[c] \in Executors /\ Uses[d] \in Executors
    BY RequestsAssumption
  <2>4. ASSUME NEW k \in Caches, k \in mounts[i], k \in mounts[j]
        PROVE  FALSE
    <3>1. <<k, i>> \in locks[Uses[c]] /\ <<k, j>> \in locks[Uses[d]]
      BY <2>1, <2>2, <2>4 DEF Runs
    <3> QED
      BY <3>1, <2>3 DEF Guarded, OneHolder
  <2> QED
    BY <2>4
<1> QED
  BY <1>1, AlwaysGuarded, PTL

\* Every server runs the Codex that the snapshot pinned: what is launched is the sealed copy, and
\* it is sealed only while the installed one is the pinned one.
THEOREM ServerIsPinnedCorrect ==
    ASSUME Apart
    PROVE  Spec => []ServerIsPinned
<1>1. Guarded => ServerIsPinned
  BY DEF Guarded, Watched, ServerIsPinned
<1> QED
  BY <1>1, AlwaysGuarded, PTL

\* No server can write a controller object.
THEOREM AuthorityUnwritableCorrect ==
    ASSUME Apart
    PROVE  Spec => []AuthorityUnwritable
<1>1. Guarded => AuthorityUnwritable
  BY RequestsAssumption DEF Guarded, Watched, AuthorityUnwritable
<1> QED
  BY <1>1, AlwaysGuarded, PTL

-----------------------------------------------------------------------------
(* The scratch store.                                                      *)

\* The entries a caller's step may change, and how.
LEMMA EntryStep ==
    ASSUME Typed, NEW c \in Callers, Step(c), NEW i \in Ids, dir'[i] # dir[i]
    PROVE  /\ MakeScratch(c) \/ Naming(c, i)
           /\ dir'[i] \in Foreign => dir[i] \in Foreign
           /\ dir[i] = "foreign" => run[c] = i /\ pc[c] \in {"opening", "unopened"}
<1>a. StoreOK /\ ExecutorsOK /\ CallersOK /\ Uses[c] \in Executors
  BY TypeParts, RequestsAssumption DEF Typed
<1>b. pc[c] # "idle" => run[c] \in Ids
  BY AtWork
<1>c. scratch[Uses[c]] \in Ids \cup {0}
  BY <1>a DEF ExecutorsOK
<1>1. CASE MakeScratch(c)
  BY <1>1, <1>a, <1>b DEF MakeScratch, StoreOK, Foreign
<1>2. CASE OpenScratch(c) \/ CreateFails(c)
  BY <1>2, <1>a, <1>b DEF OpenScratch, CreateFails, StoreOK, Foreign, Naming
<1>3. CASE Unmake(c)
  BY <1>3, <1>a, <1>b DEF Unmake, StoreOK, Foreign, Naming
<1>4. ASSUME NEW s \in Ids, NEW gone \in BOOLEAN, RemoveEntry(s, gone)
      PROVE  i = s /\ dir'[i] = "absent" /\ dir[i] # "foreign"
  BY <1>4, <1>a DEF RemoveEntry, StoreOK
<1>5. CASE Unprobe(c)
  BY <1>5, <1>b, <1>4 DEF Unprobe, Naming, Foreign
<1>6. CASE Retract(c) \/ RemoveScratch(c)
  <2>1. scratch[Uses[c]] \in Ids
    BY <1>6, <1>c DEF Retract, RemoveScratch, Typed, Placed
  <2> QED
    BY <1>6, <2>1, <1>4 DEF Retract, RemoveScratch, Naming, Foreign
<1>7. CASE ProbeFails(c) \/ PrepareFails(c) \/ Clean(c)
  BY <1>7 DEF ProbeFails, PrepareFails, Clean, Keep, store
<1> QED
  BY <1>1, <1>2, <1>3, <1>5, <1>6, <1>7 DEF Step, Prepare, Execute, Teardown, LockCache, Qualify, ProbeScratch,
     Describe, ProveCapabilities, Withdraw, HandOff, Seal, Import, Launch, Connect, StartFails, ClientEnds,
     Reaped, Unreaped, PublicationFails, PersistSessions, CheckAuth, LockAuth, ReplaceAuth, FinishStop, Leave,
     Abandon, store

\* Before it uses a name the caller has created the entry, or looked at it and found its own.
LEMMA NamingStep ==
    ASSUME Typed, NEW c \in Callers, Step(c), NEW i \in Ids, Naming(c, i)'
    PROVE  Naming(c, i) \/ dir'[i] = "ours"
<1> DEFINE Names == {"opening", "unopened", "unmarked", "unprobing", "retracting", "removing"}
<1>a. StoreOK /\ ExecutorsOK /\ CallersOK /\ Uses[c] \in Executors
  BY TypeParts, RequestsAssumption DEF Typed
<1>b. pc'[c] \in Names
  BY DEF Naming
<1>1. CASE MakeScratch(c)
  BY <1>1, <1>a DEF MakeScratch, Go, CallersOK, StoreOK, Naming
<1>2. CASE CreateFails(c)
  BY <1>2, <1>a DEF CreateFails, Go, CallersOK, Naming
<1>3. CASE ProbeFails(c)
  BY <1>3, <1>a, <1>b DEF ProbeFails, Go, CallersOK, Naming, Same, store
<1>4. CASE PrepareFails(c)
  <2>1. Go(c, "retracting") /\ Same(scratch[Uses[c]]) /\ UNCHANGED <<scratch, store>>
    BY <1>4, <1>a, <1>b DEF PrepareFails, GoIdle, Go, CallersOK
  <2> QED
    BY <2>1, <1>a DEF Go, CallersOK, Naming, Same, store
<1>5. CASE Clean(c)
  BY <1>5, <1>a, <1>b DEF Clean, Go, CallersOK, Naming, Same, store, executor
<1>6. CASE \E k \in Caches : LockCache(c, k)
  BY <1>6, <1>b DEF LockCache, caller
<1>7. CASE Retract(c) \/ Leave(c)
  BY <1>7, <1>a, <1>b DEF Retract, Leave, GoIdle, Go, CallersOK
<1>8. CASE FinishStop(c)
  BY <1>8, <1>a, <1>b, FinishStopMoves DEF BeginStop, GoIdle, Go, CallersOK
<1> QED
  BY <1>1, <1>2, <1>3, <1>4, <1>5, <1>6, <1>7, <1>8, <1>a, <1>b DEF Step, Prepare, Execute, Teardown,
       Qualify, OpenScratch, Unmake, ProbeScratch, Unprobe, Describe, ProveCapabilities, Withdraw,
       HandOff, Seal, Import, Launch, Connect, StartFails, ClientEnds, Reaped, Unreaped, PublicationFails,
       PersistSessions, CheckAuth, LockAuth, ReplaceAuth, RemoveScratch, Abandon, BeginStop, Go, CallersOK

\* Whoever uses a name that is somebody else's by now was raced for it.
Raced == \A c \in Callers : \A i \in Ids : Naming(c, i) /\ dir[i] \in Foreign => i \in used.raced

LEMMA RacedStep ==
    ASSUME Apart, Typed, Raced, NEW c \in Callers, Step(c)
    PROVE  Raced'
<1> SUFFICES ASSUME NEW d \in Callers, NEW i \in Ids, Naming(d, i)', dir'[i] \in Foreign
             PROVE  i \in used'.raced
  BY DEF Raced
<1>1. UNCHANGED used /\ dir[i] \in Foreign
  BY HistoryStep, EntryStep
<1>2. Naming(d, i)
  <2>1. CASE d = c
    BY <2>1, NamingStep DEF Foreign
  <2>2. CASE d # c
    <3>1. Uses[d] # Uses[c] /\ Uses[d] \in Executors
      BY <2>2, RequestsAssumption DEF Apart
    <3>2. run'[d] = run[d] /\ pc'[d] = pc[d] /\ scratch'[Uses[d]] = scratch[Uses[d]]
      BY <2>2, <3>1, CallersFrame, ExecutorsFrame
    <3> QED
      BY <3>2 DEF Naming
  <2> QED
    BY <2>1, <2>2
<1> QED
  BY <1>1, <1>2 DEF Raced

LEMMA RacedNext ==
    ASSUME Apart, Typed, Raced, [Next]_vars
    PROVE  Raced'
<1>a. CallersOK /\ ExecutorsOK /\ StoreOK /\ HistoryOK
  BY TypeParts DEF Typed
<1>1. CASE \E c \in Callers : Step(c)
  BY <1>1, RacedStep
<1>2. ASSUME NEW c \in Callers, NEW r \in Requests[c], Submit(c, r)
      PROVE  Raced'
  <2>1. /\ pc' = [pc EXCEPT ![c] = "locking"] /\ run' = [run EXCEPT ![c] = used.ids + 1]
        /\ UNCHANGED <<scratch, dir>> /\ used' = [used EXCEPT !.ids = used.ids + 1]
    BY <1>2 DEF Submit, Go
  <2>2. used'.raced = used.raced
    BY <2>1, <1>a DEF HistoryOK
  <2>3. \A d \in Callers : \A i \in Ids : Naming(d, i)' => Naming(d, i)
    BY <2>1, <1>a DEF Naming, CallersOK
  <2> QED
    BY <2>1, <2>2, <2>3 DEF Raced
<1>3. ASSUME NEW x \in Executors, Crash(x)
      PROVE  Raced'
  <2>1. used'.raced = used.raced /\ UNCHANGED dir
    BY <1>3, <1>a, EventTyped DEF Crash, HistoryOK
  <2>2. \A d \in Callers : \A i \in Ids : Naming(d, i)' => Naming(d, i)
    <3> SUFFICES ASSUME NEW d \in Callers, NEW i \in Ids, Naming(d, i)'
                 PROVE  Naming(d, i)
      OBVIOUS
    <3>1. Uses[d] # x
      BY <1>3 DEF Crash, Naming
    <3>2. pc'[d] = pc[d] /\ run'[d] = run[d] /\ scratch'[Uses[d]] = scratch[Uses[d]]
      BY <3>1, <1>3, <1>a, RequestsAssumption DEF Crash, CallersOK, ExecutorsOK
    <3> QED
      BY <3>2 DEF Naming
  <2> QED
    BY <2>1, <2>2 DEF Raced
<1>4. ASSUME NEW j \in Ids, Plant(j)
      PROVE  Raced'
  <2> DEFINE names == IF \E c \in Callers : Naming(c, j) THEN used.raced \cup {j} ELSE used.raced
  <2>1. /\ \A d \in Callers : \A i \in Ids : Naming(d, i)' <=> Naming(d, i)
        /\ \A i \in Ids : i # j => dir'[i] = dir[i]
    BY <1>4, <1>a DEF Plant, caller, executor, Naming, StoreOK
  <2>2. used' = [used EXCEPT !.events = used.events + 1, !.raced = names]
    BY <1>4 DEF Plant
  <2>3. used'.raced = names
    <3> HIDE DEF names
    <3> QED
      BY <2>2, <1>a DEF HistoryOK
  <2> QED
    BY <2>1, <2>3 DEF Raced
<1>5. CASE Login \/ Upgrade
  BY <1>5, <1>a, EventTyped DEF Login, Upgrade, HistoryOK, caller, executor, store, Naming, Raced
<1>6. CASE UNCHANGED vars \/ \E i \in Ids : ServerExits(i)
  BY <1>6 DEF ServerExits, vars, caller, executor, store, history, Naming, Raced
<1> QED
  BY <1>1, <1>2, <1>3, <1>4, <1>5, <1>6 DEF Next

\* A directory that is not the execution's own is left alone, unless it appeared while the caller
\* was about to use the name; one that is not empty only goes when a new entry is opened.
THEOREM ForeignUntouchedCorrect ==
    ASSUME Apart
    PROVE  Spec => ForeignUntouched
<1> DEFINE Untouched ==
             \A i \in Ids : dir[i] \in Foreign /\ dir'[i] # dir[i] =>
                 /\ i \in used.raced
                 /\ dir[i] = "foreign" =>
                       \E c \in Callers : run[c] = i /\ pc[c] \in {"opening", "unopened"}
<1>1. Typed /\ Raced /\ [Next]_vars => [Untouched]_vars
  <2> SUFFICES ASSUME Typed, Raced, Next, NEW i \in Ids, dir[i] \in Foreign, dir'[i] # dir[i]
               PROVE  /\ i \in used.raced
                      /\ dir[i] = "foreign" =>
                            \E c \in Callers : run[c] = i /\ pc[c] \in {"opening", "unopened"}
    OBVIOUS
  <2>1. PICK c \in Callers : Step(c)
    BY TypeParts DEF Next, Submit, ServerExits, Plant, Crash, Login, Upgrade, store, Typed, StoreOK
  <2>2. ~MakeScratch(c)
    BY <2>1, AtWork, TypeParts DEF MakeScratch, Foreign, Typed, StoreOK
  <2>3. Naming(c, i)
    BY <2>1, <2>2, EntryStep
  <2> QED
    BY <2>1, <2>3, EntryStep DEF Raced
<1>2. Init => Raced
  BY DEF Init, Raced, Naming
<1>3. Guarded => Typed
  BY DEF Guarded
<1>4. Typed /\ Raced /\ [Next]_vars => Raced'
  BY RacedNext
<1> QED
  BY <1>1, <1>2, <1>3, <1>4, AlwaysGuarded, PTL DEF Spec, ForeignUntouched

-----------------------------------------------------------------------------
(* What a call leaves behind.                                              *)

Begun == {"identity", "importing", "launching", "handshake", "client"}
Publishing == {"persisting", "checking", "flocking", "replacing"}

Gone(i) == dir[i] = "ours" => i \in excused
Retained(x) == handle[x] # 0 \/ scratch[x] # 0
Kept(x) == locks[x] # {} => Retained(x)

\* The executor of a caller that is done: it can be taken again.
Released(x) == ~runLock[x] /\ plan[x] = 0 /\ Kept(x)

\* A preparation that was not handed over is abandoned, a run was torn down before it leaves.
AtRest(c) ==
    /\ pc[c] = "idle" => Released(Uses[c])
    /\ pc[c] = "leaving" =>
          \/ Abandons(c) /\ scratch[Uses[c]] = run[c]
          \/ Released(Uses[c]) /\ Gone(run[c])

\* A caller at work has the executor, and what the executor holds is that caller's.
Owns(c) ==
    /\ pc[c] \notin {"idle", "leaving"} => runLock[Uses[c]]
    /\ pc[c] \in Preparing \cup {"prepared"} => ~transferred[Uses[c]]
    /\ pc[c] \in {"proving", "prepared"} => descriptor[Uses[c]] = run[c]
    /\ pc[c] = "prepared" => prepared[c] = run[c]
    /\ pc[c] \in Stopping /\ via[c] = "abandon" => plan[Uses[c]] = 0
    /\ pc[c] = "retracting" => plan[Uses[c]] = 0 /\ locks[Uses[c]] = {}

\* A scratch that exists is recorded for the teardown, until it is removed or reported.
Scratched(c) ==
    /\ pc[c] \in {"locking", "scratching"} => dir[run[c]] # "ours"
    /\ pc[c] \in {"describing", "proving", "prepared"} \cup Begun => scratch[Uses[c]] = run[c]
    /\ pc[c] \in (Stopping \ {"finishing"}) \cup {"retracting"} => scratch[Uses[c]] = run[c] \/ Gone(run[c])
    /\ pc[c] \in {"finishing", "refused"} => Gone(run[c])

\* A teardown with an error keeps a handle for the next one.
Failing(c) ==
    /\ pc[c] \in Begun \/ (pc[c] \in Stopping /\ via[c] = "start") => defer[Uses[c]]
    /\ pc[c] \in Publishing \/ (pc[c] = "stopping" /\ ~defer[Uses[c]]) => Retained(Uses[c])
    /\ pc[c] \in Stopping /\ errors[c] => Retained(Uses[c])

Tidy(c) == AtRest(c) /\ Owns(c) /\ Scratched(c) /\ Failing(c)

Orphans ==
    /\ \A i \in Ids : dir[i] = "ours" => i \in excused \/ Active(i)
    /\ \A i \in Ids : i > used.ids => dir[i] # "ours"

\* An executor nobody uses stays as it was.
Spare == \A x \in Executors : (\A c \in Callers : Uses[c] # x) => Released(x)

Tidied == Guarded /\ (\A c \in Callers : Tidy(c)) /\ Orphans /\ Spare

\* The steps that take an entry for the execution's own.
Makes(c) == MakeScratch(c) \/ OpenScratch(c) \/ CreateFails(c)

\* Other executions' scratch directories only disappear.
LEMMA StoreFrame ==
    ASSUME Typed, NEW c \in Callers, Step(c), NEW i \in Ids
    PROVE  /\ i # run[c] => (dir'[i] = "ours" => dir[i] = "ours")
           /\ ~Makes(c) => (dir'[i] = "ours" => dir[i] = "ours")
           /\ excused \subseteq excused'
<1>a. StoreOK /\ ExecutorsOK /\ CallersOK /\ Uses[c] \in Executors
  BY TypeParts, RequestsAssumption DEF Typed
<1>b. pc[c] # "idle" => run[c] \in Ids
  BY AtWork
<1>c. scratch[Uses[c]] \in Ids \cup {0}
  BY <1>a DEF ExecutorsOK
<1>d. ASSUME NEW s \in Ids, Keep(s) \/ \E gone \in BOOLEAN : RemoveEntry(s, gone)
      PROVE  (dir'[i] = "ours" => dir[i] = "ours") /\ excused \subseteq excused'
  BY <1>a, <1>d DEF Keep, RemoveEntry, StoreOK
<1>1. CASE dir' = dir /\ excused' = excused
  BY <1>1
<1>2. CASE Makes(c)
  BY <1>2, <1>a, <1>b DEF Makes, MakeScratch, OpenScratch, CreateFails, StoreOK, history
<1>3. CASE Unmake(c)
  BY <1>3, <1>a, <1>b DEF Unmake, StoreOK, Foreign
<1>4. CASE ProbeFails(c) \/ Unprobe(c)
  BY <1>4, <1>b, <1>d DEF ProbeFails, Unprobe, store
<1>5. CASE PrepareFails(c)
  BY <1>5, <1>c, <1>d DEF PrepareFails, store
<1>6. CASE Retract(c) \/ RemoveScratch(c)
  <2>1. scratch[Uses[c]] \in Ids
    BY <1>6, <1>c DEF Retract, RemoveScratch, Typed, Placed
  <2> QED
    BY <1>6, <2>1, <1>d DEF Retract, RemoveScratch
<1>7. CASE Clean(c)
  BY <1>7, <1>c, <1>d DEF Clean, store
<1>8. CASE Unreaped(c)
  BY <1>8 DEF Unreaped, store
<1> QED
  BY <1>1, <1>2, <1>3, <1>4, <1>5, <1>6, <1>7, <1>8 DEF Makes, Step, Prepare, Execute, Teardown,
       LockCache, Qualify, ProbeScratch, Describe, ProveCapabilities, Withdraw, HandOff, Seal, Import,
       Launch, Connect, StartFails, ClientEnds, Reaped, PublicationFails, PersistSessions, CheckAuth,
       LockAuth, ReplaceAuth, FinishStop, Leave, Abandon, store, history

\* Where the end of a teardown leads.
LEMMA FinishStopResult ==
    ASSUME NEW c \in Callers, Typed, FinishStop(c)
    PROVE  \/ via[c] = "start" /\ pc'[c] = "stopping" /\ via'[c] = "run" /\ ~errors'[c] /\ UNCHANGED <<runLock, run>>
           \/ /\ via[c] = "run" /\ ~runLock'[Uses[c]] /\ plan'[Uses[c]] = 0
              /\ \/ pc'[c] = "leaving" /\ UNCHANGED run
                 \/ pc'[c] = "idle" /\ run'[c] = 0
           \/ /\ via[c] = "abandon" /\ ~runLock'[Uses[c]] /\ UNCHANGED plan
              /\ pc'[c] = "idle" /\ run'[c] = 0
<1>a. CallersOK /\ ExecutorsOK /\ Uses[c] \in Executors
  BY TypeParts, RequestsAssumption DEF Typed
<1>1. via[c] \in {"start", "run", "abandon"}
  BY DEF FinishStop, TypeOK, Typed, Placed, Stopping
<1>2. CASE via[c] = "start"
  BY <1>2, <1>a DEF FinishStop, BeginStop, Go, CallersOK
<1>3. CASE via[c] = "run"
  <2>1. GoIdle(c) \/ (Go(c, "leaving") /\ UNCHANGED <<via, run, req, prepared, sealed, errors, images>>)
    BY <1>3, FinishStopEnds
  <2>2. /\ runLock' = [runLock EXCEPT ![Uses[c]] = FALSE]
        /\ plan' = [plan EXCEPT ![Uses[c]] = 0]
    BY <1>3 DEF FinishStop, ReleaseRun, ClosePlan
  <2> QED
    BY <1>3, <2>1, <2>2, <1>a DEF GoIdle, Go, CallersOK, ExecutorsOK
<1>4. CASE via[c] = "abandon"
  BY <1>4, <1>a DEF FinishStop, GoIdle, Go, ReleaseRun, CallersOK, ExecutorsOK
<1> QED
  BY <1>1, <1>2, <1>3, <1>4

LEMMA TidyStep ==
    ASSUME NEW c \in Callers, Typed, Tidy(c), Step(c)
    PROVE  Tidy(c)'
<1>a. CallersOK /\ ExecutorsOK /\ StoreOK /\ Uses[c] \in Executors
  BY TypeParts, RequestsAssumption DEF Typed
<1>b. run[c] \in Ids /\ run[c] # 0 /\ via[c] \in {"none", "start", "run", "abandon"}
  BY <1>a, AtWork, Turn DEF Ids, CallersOK
<1>c. scratch[Uses[c]] \in Ids \cup {0} /\ prepared[c] \in Ids \cup {0} /\ Placed(c)
  BY <1>a DEF ExecutorsOK, CallersOK, Typed
<1>1. CASE \E k \in Caches : LockCache(c, k)
  BY <1>1, <1>a, <1>b, <1>c DEF LockCache, caller, store, process, operator, history, Tidy, AtRest, Owns,
       Scratched, Failing, Released, Kept, Retained, Gone, Begun, Publishing, Preparing, Refusable,
       Stopping, Starting, Abandons, OwnsPreparation, CallersOK, ExecutorsOK, StoreOK, Go
<1>2. CASE Qualify(c)
  BY <1>2, <1>a, <1>b, <1>c DEF Qualify, executor, store, history, Tidy, AtRest, Owns, Scratched, Failing,
       Released, Kept, Retained, Gone, Begun, Publishing, Preparing, Refusable, Stopping, Starting,
       Abandons, OwnsPreparation, CallersOK, ExecutorsOK, StoreOK, Go
<1>3. CASE MakeScratch(c) \/ OpenScratch(c) \/ CreateFails(c) \/ Unmake(c)
  BY <1>3, <1>a, <1>b, <1>c DEF MakeScratch, OpenScratch, CreateFails, Unmake, executor, history, Tidy,
       AtRest, Owns, Scratched, Failing, Released, Kept, Retained, Gone, Begun, Publishing, Preparing,
       Refusable, Stopping, Starting, Abandons, OwnsPreparation, CallersOK, ExecutorsOK, StoreOK, Go
<1>4. CASE ProbeScratch(c)
  BY <1>4, <1>a, <1>b, <1>c DEF ProbeScratch, store, history, Tidy, AtRest, Owns, Scratched, Failing,
       Released, Kept, Retained, Gone, Begun, Publishing, Preparing, Refusable, Stopping, Starting,
       Abandons, OwnsPreparation, CallersOK, ExecutorsOK, StoreOK, Go
<1>5. CASE ProbeFails(c) \/ Unprobe(c)
  BY <1>5, <1>a, <1>b, <1>c DEF ProbeFails, Unprobe, Keep, RemoveEntry, executor, Tidy, AtRest, Owns,
       Scratched, Failing, Released, Kept, Retained, Gone, Begun, Publishing, Preparing, Refusable,
       Stopping, Starting, Abandons, OwnsPreparation, CallersOK, ExecutorsOK, StoreOK, Go
<1>6. CASE Describe(c)
  BY <1>6, <1>a, <1>b, <1>c DEF Describe, store, history, Tidy, AtRest, Owns, Scratched, Failing,
       Released, Kept, Retained, Gone, Begun, Publishing, Preparing, Refusable, Stopping, Starting,
       Abandons, OwnsPreparation, CallersOK, ExecutorsOK, StoreOK, Go
<1>7. CASE ProveCapabilities(c)
  BY <1>7, <1>a, <1>b, <1>c DEF ProveCapabilities, executor, store, history, Tidy, AtRest, Owns,
       Scratched, Failing, Released, Kept, Retained, Gone, Begun, Publishing, Preparing, Refusable,
       Stopping, Starting, Abandons, OwnsPreparation, CallersOK, ExecutorsOK, StoreOK, Go
<1>8. CASE PrepareFails(c) \/ Retract(c)
  BY <1>8, <1>a, <1>b, <1>c DEF PrepareFails, Retract, GoIdle, ReleaseLocks, ClosePlan, ReleaseRun, store,
       Keep, RemoveEntry, Tidy, AtRest, Owns, Scratched, Failing, Released, Kept, Retained, Gone, Begun,
       Publishing, Preparing, Refusable, Stopping, Starting, Abandons, OwnsPreparation, CallersOK,
       ExecutorsOK, StoreOK, Go
<1>9. CASE Withdraw(c)
  BY <1>9, <1>a, <1>b, <1>c DEF Withdraw, executor, store, history, Tidy, AtRest, Owns, Scratched,
       Failing, Released, Kept, Retained, Gone, Begun, Publishing, Preparing, Refusable, Stopping,
       Starting, Abandons, OwnsPreparation, CallersOK, ExecutorsOK, StoreOK, Go
<1>10. CASE HandOff(c)
  BY <1>10, <1>a, <1>b, <1>c DEF HandOff, store, history, Tidy, AtRest, Owns, Scratched, Failing,
       Released, Kept, Retained, Gone, Begun, Publishing, Preparing, Refusable, Stopping, Starting,
       Abandons, OwnsPreparation, CallersOK, ExecutorsOK, StoreOK, Go
<1>11. CASE Seal(c)
  BY <1>11, <1>a, <1>b, <1>c DEF Seal, executor, store, history, Tidy, AtRest, Owns, Scratched, Failing,
       Released, Kept, Retained, Gone, Begun, Publishing, Preparing, Refusable, Stopping, Starting,
       Abandons, OwnsPreparation, CallersOK, ExecutorsOK, StoreOK, Go
<1>12. CASE Import(c)
  BY <1>12, <1>a, <1>b, <1>c DEF Import, history, Tidy, AtRest, Owns, Scratched, Failing, Released, Kept,
       Retained, Gone, Begun, Publishing, Preparing, Refusable, Stopping, Starting, Abandons,
       OwnsPreparation, CallersOK, ExecutorsOK, StoreOK, Go
<1>13. CASE Launch(c)
  BY <1>13, <1>a, <1>b, <1>c DEF Launch, store, history, Tidy, AtRest, Owns, Scratched, Failing, Released,
       Kept, Retained, Gone, Begun, Publishing, Preparing, Refusable, Stopping, Starting, Abandons,
       OwnsPreparation, CallersOK, ExecutorsOK, StoreOK, Go
<1>14. CASE Connect(c)
  BY <1>14, <1>a, <1>b, <1>c DEF Connect, executor, store, history, Tidy, AtRest, Owns, Scratched,
       Failing, Released, Kept, Retained, Gone, Begun, Publishing, Preparing, Refusable, Stopping,
       Starting, Abandons, OwnsPreparation, CallersOK, ExecutorsOK, StoreOK, Go
<1>15. CASE StartFails(c)
  BY <1>15, <1>a, <1>b, <1>c DEF StartFails, BeginStop, executor, store, history, Tidy, AtRest, Owns,
       Scratched, Failing, Released, Kept, Retained, Gone, Begun, Publishing, Preparing, Refusable,
       Stopping, Starting, Abandons, OwnsPreparation, CallersOK, ExecutorsOK, StoreOK, Go
<1>16. CASE \E success \in BOOLEAN : ClientEnds(c, success)
  BY <1>16, <1>a, <1>b, <1>c DEF ClientEnds, BeginStop, store, Tidy, AtRest, Owns, Scratched, Failing,
       Released, Kept, Retained, Gone, Begun, Publishing, Preparing, Refusable, Stopping, Starting,
       Abandons, OwnsPreparation, CallersOK, ExecutorsOK, StoreOK, Go
<1>17. CASE Reaped(c)
  BY <1>17, <1>a, <1>b, <1>c DEF Reaped, executor, store, history, Tidy, AtRest, Owns, Scratched, Failing,
       Released, Kept, Retained, Gone, Begun, Publishing, Preparing, Refusable, Stopping, Starting,
       Abandons, OwnsPreparation, CallersOK, ExecutorsOK, StoreOK, Go
<1>18. CASE Unreaped(c)
  BY <1>18, <1>a, <1>b, <1>c DEF Unreaped, executor, store, Tidy, AtRest, Owns, Scratched, Failing,
       Released, Kept, Retained, Gone, Begun, Publishing, Preparing, Refusable, Stopping, Starting,
       Abandons, OwnsPreparation, CallersOK, ExecutorsOK, StoreOK, Go
<1>19. CASE PublicationFails(c)
  BY <1>19, <1>a, <1>b, <1>c DEF PublicationFails, executor, store, history, Tidy, AtRest, Owns,
       Scratched, Failing, Released, Kept, Retained, Gone, Begun, Publishing, Preparing, Refusable,
       Stopping, Starting, Abandons, OwnsPreparation, CallersOK, ExecutorsOK, StoreOK, Go
<1>20. CASE PersistSessions(c)
  BY <1>20, <1>a, <1>b, <1>c DEF PersistSessions, executor, store, history, Tidy, AtRest, Owns, Scratched,
       Failing, Released, Kept, Retained, Gone, Begun, Publishing, Preparing, Refusable, Stopping,
       Starting, Abandons, OwnsPreparation, CallersOK, ExecutorsOK, StoreOK, Go
<1>21. CASE CheckAuth(c) \/ LockAuth(c) \/ ReplaceAuth(c)
  BY <1>21, <1>a, <1>b, <1>c DEF CheckAuth, LockAuth, ReplaceAuth, executor, store, history, Tidy, AtRest,
       Owns, Scratched, Failing, Released, Kept, Retained, Gone, Begun, Publishing, Preparing, Refusable,
       Stopping, Starting, Abandons, OwnsPreparation, CallersOK, ExecutorsOK, StoreOK, Go
<1>22. CASE Clean(c) \/ RemoveScratch(c)
  <2>1. /\ pc[c] \in {"cleaning", "removing"} /\ pc'[c] \in {"removing", "finishing"}
        /\ UNCHANGED <<via, run, prepared, executor>>
    BY <1>22, <1>a DEF Clean, RemoveScratch, Go, CallersOK
  <2>2. AtRest(c)' /\ Owns(c)'
    BY <2>1 DEF Tidy, Owns, AtRest, Stopping, Preparing, Refusable, executor
  <2>3. Scratched(c)'
    <3>1. scratch[Uses[c]] = run[c] \/ Gone(run[c])
      BY <2>1 DEF Tidy, Scratched, Stopping
    <3>2. Gone(run[c]) => Gone(run[c])'
      <4>1. ~Makes(c)
        BY <2>1 DEF Makes, MakeScratch, OpenScratch, CreateFails
      <4> QED
        BY <2>1, <4>1, <1>b, StoreFrame DEF Gone
    <3>3. pc'[c] = "finishing" /\ scratch[Uses[c]] = run[c] => Gone(run[c])'
      <4>1. CASE Clean(c)
        BY <4>1, <1>a, <1>b DEF Clean, Go, CallersOK, Keep, Gone
      <4>2. CASE RemoveScratch(c)
        BY <4>2, <1>a, <1>b DEF RemoveScratch, RemoveEntry, Gone, StoreOK
      <4> QED
        BY <1>22, <4>1, <4>2
    <3> QED
      BY <2>1, <3>1, <3>2, <3>3 DEF Scratched, Stopping, Begun, executor, Gone
  <2>4. Failing(c)'
    <3>1. scratch[Uses[c]] = 0 => UNCHANGED errors
      BY <1>22, <1>c DEF Clean, RemoveScratch, Placed
    <3>2. errors'[c] => Retained(Uses[c])
      BY <2>1, <3>1 DEF Tidy, Failing, Stopping, Retained
    <3> QED
      BY <2>1, <3>2 DEF Tidy, Failing, Begun, Publishing, Stopping, Retained, executor
  <2> QED
    BY <2>2, <2>3, <2>4 DEF Tidy
<1>23. CASE FinishStop(c)
  <2>1. /\ pc[c] = "finishing" /\ Gone(run[c]) /\ runLock[Uses[c]] /\ UNCHANGED <<dir, excused, defer, transferred>>
        /\ errors[c] => Retained(Uses[c])
        /\ via[c] = "start" => defer[Uses[c]]
        /\ via[c] = "abandon" => plan[Uses[c]] = 0
        /\ via[c] \in {"start", "run", "abandon"}
    BY <1>23, <1>b, <1>c DEF FinishStop, Tidy, Scratched, Owns, Failing, Stopping, store, Placed
  <2>2. IF errors[c] THEN UNCHANGED <<handle, scratch>>
                     ELSE handle'[Uses[c]] = 0 /\ scratch'[Uses[c]] = 0 /\ locks'[Uses[c]] = {}
    BY <1>23, <1>a DEF FinishStop, ReleaseLocks, ExecutorsOK
  <2>3. Kept(Uses[c])'
    BY <2>1, <2>2 DEF Kept, Retained
  <2> QED
    BY <1>23, <2>1, <2>2, <2>3, FinishStopResult DEF Tidy, AtRest, Released, Owns, Scratched, Failing,
         Gone, Begun, Publishing, Preparing, Refusable, Stopping, Starting
<1>24. CASE Leave(c)
  BY <1>24, <1>a, <1>b, <1>c DEF Leave, GoIdle, executor, store, history, Tidy, AtRest, Owns, Scratched,
       Failing, Released, Kept, Retained, Gone, Begun, Publishing, Preparing, Refusable, Stopping,
       Starting, Abandons, OwnsPreparation, CallersOK, ExecutorsOK, StoreOK, Go
<1>25. CASE Abandon(c)
  BY <1>25, <1>a, <1>b, <1>c DEF Abandon, BeginStop, ClosePlan, store, history, Tidy, AtRest, Owns,
       Scratched, Failing, Released, Kept, Retained, Gone, Begun, Publishing, Preparing, Refusable,
       Stopping, Starting, Abandons, OwnsPreparation, CallersOK, ExecutorsOK, StoreOK, Go
<1> QED
  BY <1>1, <1>2, <1>3, <1>4, <1>5, <1>6, <1>7, <1>8, <1>9, <1>10, <1>11, <1>12, <1>13, <1>14, <1>15,
     <1>16, <1>17, <1>18, <1>19, <1>20, <1>21, <1>22, <1>23, <1>24, <1>25
     DEF Step, Prepare, Execute, Teardown

\* What only concerns the other callers and their executors.
LEMMA TidyKept ==
    ASSUME NEW d \in Callers, Tidy(d),
           /\ pc'[d] = pc[d] /\ via'[d] = via[d] /\ run'[d] = run[d]
           /\ prepared'[d] = prepared[d] /\ errors'[d] = errors[d] /\ images'[d] = images[d],
           /\ runLock'[Uses[d]] = runLock[Uses[d]] /\ transferred'[Uses[d]] = transferred[Uses[d]]
           /\ plan'[Uses[d]] = plan[Uses[d]] /\ locks'[Uses[d]] = locks[Uses[d]]
           /\ scratch'[Uses[d]] = scratch[Uses[d]] /\ handle'[Uses[d]] = handle[Uses[d]]
           /\ descriptor'[Uses[d]] = descriptor[Uses[d]] /\ defer'[Uses[d]] = defer[Uses[d]],
           pc[d] # "idle" => (dir'[run[d]] = "ours" => dir[run[d]] = "ours") /\ excused \subseteq excused'
    PROVE  Tidy(d)'
<1>1. AtRest(d)' /\ Owns(d)' /\ Failing(d)'
  BY DEF Tidy, AtRest, Owns, Failing, Released, Kept, Retained, Gone, Abandons, OwnsPreparation
<1>2. Scratched(d)'
  BY DEF Tidy, Scratched, Gone, Begun, Stopping
<1> QED
  BY <1>1, <1>2 DEF Tidy

\* A call that ends has removed its scratch or reported it.
LEMMA LeavesNothing ==
    ASSUME NEW c \in Callers, Typed, Tidy(c), Step(c), pc'[c] = "idle", NEW i \in Ids, i = run[c], dir'[i] = "ours"
    PROVE  i \in excused'
<1>a. CallersOK /\ ExecutorsOK /\ StoreOK /\ Uses[c] \in Executors
  BY TypeParts, RequestsAssumption DEF Typed
<1>b. pc[c] # "idle" /\ excused \subseteq excused' /\ (Gone(i) /\ dir[i] = "ours" => i \in excused')
  BY StoreFrame, Turn DEF Gone
<1>1. CASE PrepareFails(c)
  <2>1. dir[i] = "ours" /\ pc[c] \in Refusable
    BY <1>1 DEF PrepareFails, store, Keep
  <2>2. CASE pc[c] \in {"locking", "scratching", "refused"}
    BY <2>1, <2>2, <1>b DEF Tidy, Scratched, Gone
  <2>3. CASE pc[c] \in {"describing", "proving"}
    <3>1. scratch[Uses[c]] = i /\ i # 0
      BY <2>3 DEF Tidy, Scratched, Ids
    <3>2. ~Go(c, "retracting")
      BY <1>a DEF Go, CallersOK
    <3> QED
      BY <1>1, <3>1, <3>2 DEF PrepareFails, Keep
  <2> QED
    BY <2>1, <2>2, <2>3 DEF Refusable
<1>5. CASE Retract(c)
  <2>1. dir[i] = "ours" /\ pc[c] = "retracting"
    <3>1. ~Makes(c)
      BY <1>5 DEF Retract, Makes, MakeScratch, OpenScratch, CreateFails
    <3> QED
      BY <3>1, <1>5, StoreFrame DEF Retract
  <2>2. CASE scratch[Uses[c]] = i
    BY <2>2, <1>5, <1>a DEF Retract, RemoveEntry, StoreOK
  <2> QED
    BY <2>1, <2>2, <1>b DEF Tidy, Scratched
<1>2. CASE FinishStop(c)
  BY <1>2, <1>b DEF FinishStop, store, Tidy, Scratched, Gone
<1>3. CASE Leave(c)
  BY <1>3, <1>b DEF Leave, store, history, Tidy, AtRest, Gone
<1>4. CASE ~PrepareFails(c) /\ ~Retract(c) /\ ~FinishStop(c) /\ ~Leave(c)
  <2>1. pc'[c] # "idle"
    BY <1>4, <1>a, <1>b, OnlyGo DEF Step, Prepare, Execute, Teardown, Go, CallersOK, LockCache, caller,
         ProveCapabilities, Seal, StartFails, ClientEnds, Reaped, Unreaped, PublicationFails, Clean,
         RemoveScratch, Abandon, BeginStop
  <2> QED
    BY <2>1
<1> QED
  BY <1>1, <1>2, <1>3, <1>4, <1>5

LEMMA TidiedStep ==
    ASSUME Apart, Tidied, NEW c \in Callers, Step(c)
    PROVE  Tidied'
<1>a. Typed /\ Guarded /\ (\A d \in Callers : Tidy(d)) /\ Orphans /\ Spare
  BY DEF Tidied, Guarded
<1>b. CallersOK /\ HistoryOK /\ \A d \in Callers : Uses[d] \in Executors
  BY <1>a, TypeParts, RequestsAssumption DEF Typed
<1>c. pc'[c] # "idle" => run'[c] = run[c]
  BY <1>a, Turn
<1>1. Guarded' /\ Tidy(c)' /\ UNCHANGED used
  BY <1>a, GuardedStep, TidyStep, HistoryStep
<1>2. ASSUME NEW d \in Callers, d # c
      PROVE  Tidy(d)' /\ run'[d] = run[d]
  <2>1. Uses[d] # Uses[c]
    BY <1>2 DEF Apart
  <2>2. /\ pc'[d] = pc[d] /\ via'[d] = via[d] /\ run'[d] = run[d] /\ req'[d] = req[d]
        /\ prepared'[d] = prepared[d] /\ errors'[d] = errors[d] /\ images'[d] = images[d]
    BY <1>2, <1>a, CallersFrame
  <2>3. /\ runLock'[Uses[d]] = runLock[Uses[d]] /\ transferred'[Uses[d]] = transferred[Uses[d]]
        /\ plan'[Uses[d]] = plan[Uses[d]] /\ locks'[Uses[d]] = locks[Uses[d]]
        /\ scratch'[Uses[d]] = scratch[Uses[d]] /\ handle'[Uses[d]] = handle[Uses[d]]
        /\ descriptor'[Uses[d]] = descriptor[Uses[d]] /\ defer'[Uses[d]] = defer[Uses[d]]
    BY <2>1, <1>a, <1>b, ExecutorsFrame
  <2>4. pc[d] # "idle" => (dir'[run[d]] = "ours" => dir[run[d]] = "ours") /\ excused \subseteq excused'
    <3> SUFFICES ASSUME pc[d] # "idle"
                 PROVE  (dir'[run[d]] = "ours" => dir[run[d]] = "ours") /\ excused \subseteq excused'
      OBVIOUS
    <3>1. run[d] \in Ids /\ run[d] # run[c]
      BY <1>a, <1>2, AtWork DEF Typed, Ids
    <3> QED
      BY <3>1, <1>a, StoreFrame
  <2> QED
    BY <2>2, <2>3, <2>4, <1>a, TidyKept
<1>3. Orphans'
  <2>1. ASSUME NEW i \in Ids, dir'[i] = "ours"
        PROVE  i \in excused' \/ \E d \in Callers : run'[d] = i
    <3>1. CASE i = run[c]
      <4>1. CASE pc'[c] = "idle"
        BY <4>1, <3>1, <2>1, <1>a, LeavesNothing
      <4>2. CASE pc'[c] # "idle"
        BY <4>2, <3>1, <1>c
      <4> QED
        BY <4>1, <4>2
    <3>2. CASE i # run[c]
      <4>1. dir[i] = "ours" /\ excused \subseteq excused'
        BY <3>2, <2>1, <1>a, StoreFrame
      <4>2. CASE \E d \in Callers : run[d] = i
        BY <4>2, <3>2, <1>2
      <4> QED
        BY <4>1, <4>2, <1>a DEF Orphans, Active
    <3> QED
      BY <3>1, <3>2
  <2>2. ASSUME NEW i \in Ids, i > used.ids
        PROVE  dir'[i] # "ours"
    <3>1. i # run[c]
      BY <2>2, <1>a, <1>b, Turn DEF Typed, Placed, Ids, HistoryOK, CallersOK
    <3> QED
      BY <3>1, <2>2, <1>a, StoreFrame DEF Orphans
  <2> QED
    BY <2>1, <2>2, <1>1 DEF Orphans, Active
<1>4. Spare'
  BY <1>a, ExecutorsFrame DEF Spare, Released, Kept, Retained
<1> QED
  BY <1>1, <1>2, <1>3, <1>4 DEF Tidied

LEMMA TidiedInit ==
    ASSUME Init
    PROVE  Tidied
<1>1. Guarded
  BY GuardedInit
<1>2. \A x \in Executors : Released(x)
  BY DEF Init, Released, Kept
<1>3. \A c \in Callers : Tidy(c)
  BY <1>2, RequestsAssumption DEF Init, Tidy, AtRest, Owns, Scratched, Failing, Preparing, Refusable,
       Begun, Publishing, Stopping
<1>4. Orphans /\ Spare
  BY <1>2 DEF Init, Orphans, Spare
<1> QED
  BY <1>1, <1>3, <1>4 DEF Tidied

LEMMA TidiedSubmit ==
    ASSUME Apart, Tidied, NEW c \in Callers, NEW r \in Requests[c], Submit(c, r)
    PROVE  Tidied'
<1> DEFINE i == used.ids + 1
<1>a. Typed /\ Guarded /\ (\A d \in Callers : Tidy(d)) /\ Orphans /\ Spare
  BY DEF Tidied, Guarded
<1>b. CallersOK /\ ExecutorsOK /\ HistoryOK /\ \A d \in Callers : Uses[d] \in Executors
  BY <1>a, TypeParts, RequestsAssumption DEF Typed
<1>c. i \in Ids /\ i > used.ids /\ used'.ids = i /\ used.ids \in Nat
  BY <1>b, RequestsAssumption DEF Submit, HistoryOK
<1>1. Guarded'
  BY <1>a, GuardedSubmit
<1>2. /\ pc[c] = "idle" /\ pc'[c] = "locking" /\ run'[c] = i /\ runLock'[Uses[c]] /\ ~transferred'[Uses[c]]
      /\ UNCHANGED <<locks, scratch, handle, descriptor, defer, dir, excused, via, errors, prepared>>
  BY <1>b DEF Submit, Go, CallersOK, ExecutorsOK
<1>3. Tidy(c)'
  <2>1. dir'[i] # "ours"
    BY <1>2, <1>c, <1>a DEF Orphans
  <2> QED
    BY <2>1, <1>2 DEF Tidy, AtRest, Owns, Scratched, Failing, Preparing, Refusable, Begun, Publishing,
         Stopping, Starting
<1>4. ASSUME NEW d \in Callers, d # c
      PROVE  Tidy(d)' /\ run'[d] = run[d]
  <2>1. Uses[d] # Uses[c]
    BY <1>4 DEF Apart
  <2>2. /\ pc'[d] = pc[d] /\ run'[d] = run[d] /\ images'[d] = images[d]
        /\ runLock'[Uses[d]] = runLock[Uses[d]] /\ transferred'[Uses[d]] = transferred[Uses[d]]
        /\ plan'[Uses[d]] = plan[Uses[d]]
    BY <2>1, <1>4, <1>b DEF Submit, Go, CallersOK, ExecutorsOK
  <2> QED
    BY <2>2, <1>2, <1>a, TidyKept
<1>5. Orphans'
  <2>1. \A j \in Ids : dir'[j] = "ours" => j \in excused' \/ \E d \in Callers : run'[d] = j
    <3> SUFFICES ASSUME NEW j \in Ids, dir[j] = "ours", j \notin excused
                 PROVE  \E d \in Callers : run'[d] = j
      BY <1>2
    <3>1. PICK d \in Callers : run[d] = j
      BY <1>a DEF Orphans, Active
    <3>2. d # c
      BY <3>1, <1>2, <1>a DEF Typed, Placed, Ids
    <3> QED
      BY <3>1, <3>2, <1>4
  <2>2. \A j \in Ids : j > used'.ids => dir'[j] # "ours"
    BY <1>2, <1>c, <1>a DEF Orphans, Ids
  <2> QED
    BY <2>1, <2>2 DEF Orphans, Active
<1>6. Spare'
  BY <1>a, <1>b DEF Submit, Spare, Released, Kept, Retained, ExecutorsOK
<1> QED
  BY <1>1, <1>3, <1>4, <1>5, <1>6 DEF Tidied

LEMMA TidiedCrash ==
    ASSUME Apart, Tidied, NEW x \in Executors, Crash(x)
    PROVE  Tidied'
<1>a. Typed /\ Guarded /\ (\A d \in Callers : Tidy(d)) /\ Orphans /\ Spare
  BY DEF Tidied, Guarded
<1>b. CallersOK /\ ExecutorsOK /\ HistoryOK /\ \A d \in Callers : Uses[d] \in Executors
  BY <1>a, TypeParts, RequestsAssumption DEF Typed
<1>1. Guarded' /\ UNCHANGED dir /\ excused \subseteq excused' /\ used'.ids = used.ids
  BY <1>a, <1>b, GuardedCrash, EventTyped DEF Crash, HistoryOK
<1>2. Released(x)'
  BY <1>b DEF Crash, ClosePlan, ReleaseLocks, Released, Kept, ExecutorsOK
<1>3. ASSUME NEW d \in Callers, Uses[d] = x
      PROVE  Tidy(d)'
  <2>1. pc'[d] = "idle"
    BY <1>3 DEF Crash
  <2> QED
    BY <2>1, <1>2, <1>3 DEF Tidy, AtRest, Owns, Scratched, Failing, Preparing, Refusable, Begun,
         Publishing, Stopping, Starting
<1>4. ASSUME NEW d \in Callers, Uses[d] # x
      PROVE  Tidy(d)' /\ run'[d] = run[d]
  <2>1. /\ pc'[d] = pc[d] /\ via'[d] = via[d] /\ run'[d] = run[d]
        /\ prepared'[d] = prepared[d] /\ errors'[d] = errors[d] /\ images'[d] = images[d]
    BY <1>4, <1>b DEF Crash, CallersOK
  <2>2. /\ runLock'[Uses[d]] = runLock[Uses[d]] /\ transferred'[Uses[d]] = transferred[Uses[d]]
        /\ plan'[Uses[d]] = plan[Uses[d]] /\ locks'[Uses[d]] = locks[Uses[d]]
        /\ scratch'[Uses[d]] = scratch[Uses[d]] /\ handle'[Uses[d]] = handle[Uses[d]]
        /\ descriptor'[Uses[d]] = descriptor[Uses[d]] /\ defer'[Uses[d]] = defer[Uses[d]]
    BY <1>4, <1>b DEF Crash, ClosePlan, ReleaseLocks, ExecutorsOK
  <2> QED
    BY <2>1, <2>2, <1>1, <1>a, TidyKept
<1>5. Orphans'
  <2>1. ASSUME NEW i \in Ids, dir[i] = "ours", i \notin excused'
        PROVE  \E d \in Callers : run'[d] = i
    <3>1. PICK d \in Callers : run[d] = i
      BY <2>1, <1>1, <1>a DEF Orphans, Active
    <3>2. owner[i] = Uses[d] /\ i \in 1..used.ids
      BY <3>1, <1>a, <1>b DEF Typed, Placed, Ids, HistoryOK
    <3>3. Uses[d] # x
      BY <3>2, <2>1 DEF Crash
    <3> QED
      BY <3>1, <3>3, <1>4
  <2> QED
    BY <2>1, <1>1, <1>a DEF Orphans, Active
<1>6. Spare'
  <2>1. \E c \in Callers : Uses[c] = x
    BY DEF Crash
  <2> QED
    BY <2>1, <1>a, <1>b DEF Crash, ClosePlan, ReleaseLocks, Spare, Released, Kept, Retained, ExecutorsOK
<1> QED
  BY <1>1, <1>3, <1>4, <1>5, <1>6 DEF Tidied

LEMMA TidiedAround ==
    ASSUME Tidied, Login \/ Upgrade \/ \E i \in Ids : ServerExits(i) \/ Plant(i)
    PROVE  Tidied'
<1>a. Typed /\ Guarded /\ (\A d \in Callers : Tidy(d)) /\ Orphans /\ Spare
  BY DEF Tidied, Guarded
<1>1. Guarded' /\ UNCHANGED <<caller, executor>> /\ used'.ids = used.ids
  BY <1>a, GuardedAround, AroundTypes
<1>2. \A i \in Ids : (dir'[i] = "ours" => dir[i] = "ours") /\ UNCHANGED excused
  <2>1. StoreOK
    BY <1>a, TypeParts DEF Typed
  <2> QED
    BY <2>1 DEF StoreOK, Foreign, Login, Upgrade, ServerExits, Plant, store, history
<1>3. \A d \in Callers : pc[d] # "idle" => run[d] \in Ids
  BY <1>a, AtWork
<1>4. \A d \in Callers : Tidy(d)'
  BY <1>1, <1>2, <1>3, <1>a, TidyKept DEF caller, executor
<1>5. Orphans' /\ Spare'
  BY <1>1, <1>2, <1>a DEF Orphans, Active, Spare, Released, Kept, Retained, caller, executor
<1> QED
  BY <1>1, <1>4, <1>5 DEF Tidied

LEMMA TidiedNext ==
    ASSUME Apart, Tidied, [Next]_vars
    PROVE  Tidied'
<1>1. CASE UNCHANGED vars
  <2>1. Guarded'
    BY <1>1, GuardedNext DEF Tidied
  <2>2. UNCHANGED <<caller, executor, dir, excused, used>>
    BY <1>1 DEF vars, store, history
  <2>3. \A d \in Callers : Tidy(d)'
    BY <2>2, TidyKept DEF Tidied, caller, executor
  <2>4. Orphans' /\ Spare'
    BY <2>2 DEF Tidied, Orphans, Active, Spare, Released, Kept, Retained, caller, executor
  <2> QED
    BY <2>1, <2>3, <2>4 DEF Tidied
<1>2. CASE Next
  BY <1>2, TidiedStep, TidiedSubmit, TidiedCrash, TidiedAround DEF Next
<1> QED
  BY <1>1, <1>2

LEMMA AlwaysTidied ==
    ASSUME Apart
    PROVE  Spec => []Tidied
<1>1. Init => Tidied
  BY TidiedInit
<1>2. Tidied /\ [Next]_vars => Tidied'
  BY TidiedNext
<1> QED
  BY <1>1, <1>2, PTL DEF Spec

\* When the caller of an executor is done the executor can be taken again, its toolchain authority
\* is closed, a lock it keeps belongs to a teardown that kept a handle, and of a run that is over
\* no scratch is left that was not reported and no server that could be reaped.
THEOREM NothingLeftBehindCorrect ==
    ASSUME Apart
    PROVE  Spec => []NothingLeftBehind
<1>1. Tidied => NothingLeftBehind
  <2> SUFFICES ASSUME Tidied
               PROVE  NothingLeftBehind
    OBVIOUS
  <2>1. ASSUME NEW x \in Executors, Quiet(x)
        PROVE  Released(x)
    <3>1. CASE \E c \in Callers : Uses[c] = x
      BY <3>1, <2>1 DEF Quiet, Tidied, Tidy, AtRest
    <3>2. CASE ~ \E c \in Callers : Uses[c] = x
      BY <3>2 DEF Tidied, Spare
    <3> QED
      BY <3>1, <3>2
  <2>2. \A i \in Ids : ~Active(i) => (dir[i] = "ours" => i \in excused)
    BY DEF Tidied, Orphans
  <2>3. \A i \in Ids : ~Active(i) => (server[i] = "alive" => i \in lost)
    BY DEF Tidied, Guarded, Watched, Runs, Active
  <2> QED
    BY <2>1, <2>2, <2>3 DEF NothingLeftBehind, Released, Kept, Retained
<1> QED
  BY <1>1, AlwaysTidied, PTL

-----------------------------------------------------------------------------
(* Credentials and reported success.                                       *)

Publishers == {lineage[n].by : n \in 1..Len(lineage)}
Synced(c) == req[c].persist => run[c] \in sessions
Refreshed(c) == source[Uses[c]] # 0 => run[c] \in Publishers

\* What a server was given.
Ready(c) ==
    /\ pc[c] \in {"handshake", "client"} => handle[Uses[c]] = run[c]
    /\ pc[c] \in {"launching", "handshake", "client"} => stateDir[Uses[c]] = req[c].persist
    /\ \/ pc[c] \in Preparing \cup {"prepared"}
       \/ pc[c] = "leaving" /\ runLock[Uses[c]]
       \/ pc[c] \in Stopping /\ via[c] = "abandon"
       => home[run[c]] = {}
    /\ pc[c] \in Stopping /\ via[c] = "abandon" => scratch[Uses[c]] = run[c]

\* A client that succeeded, through its teardown.
Earns(c) ==
    /\ run[c] \in earned => pc[c] \in Stopping \cup {"leaving"}
    /\ run[c] \in earned /\ pc[c] = "leaving" => ~runLock[Uses[c]]
    /\ run[c] \in earned /\ pc[c] \in Stopping =>
          /\ via[c] = "run" /\ ~defer[Uses[c]] /\ scratch[Uses[c]] = run[c] /\ handle[Uses[c]] = run[c]
          /\ stateDir[Uses[c]] = req[c].persist
          /\ pc[c] # "stopping" /\ ~errors[c] => server[run[c]] = "dead"
          /\ pc[c] \in {"checking", "flocking", "replacing"} => Synced(c)
          /\ pc[c] \in {"cleaning", "removing", "finishing"} /\ ~errors[c] => Synced(c) /\ Refreshed(c)
          /\ pc[c] = "finishing" /\ ~errors[c] => dir[run[c]] # "ours"

\* Since the credential in the imported file was seen to be current only the operator wrote.
Seen(c, n) ==
    /\ n \in source[Uses[c]]..Len(lineage) /\ lineage[n].file = lineage[source[Uses[c]]].file
    /\ \A m \in n + 1..Len(lineage) : lineage[m].by = 0

\* Only a success publishes, once, and over what lies in the file it imported.
Chained(c) ==
    /\ run[c] # 0 /\ run[c] \in Publishers =>
          run[c] \in earned /\ pc[c] \in {"cleaning", "removing", "finishing", "leaving"}
    /\ pc[c] \in Publishing \/ (pc[c] = "stopping" /\ ~defer[Uses[c]]) => run[c] \in earned \/ via[c] = "abandon"
    /\ source[Uses[c]] <= Len(lineage)
    /\ pc[c] \in {"flocking", "replacing"} => source[Uses[c]] # 0
    /\ pc[c] = "replacing" => authLock = c /\ \E n \in Nat : Seen(c, n)

Unused == \A i \in Ids : i > used.ids => i \notin earned /\ i \notin Publishers /\ home[i] = {}

Accounted == Tidied /\ (\A c \in Callers : Ready(c) /\ Earns(c) /\ Chained(c)) /\ Unused

LEMMA PublishersGrow ==
    ASSUME OperatorOK, NEW e \in Credential, lineage' = Append(lineage, e)
    PROVE  /\ Len(lineage') = Len(lineage) + 1 /\ Len(lineage) \in Nat
           /\ \A n \in 1..Len(lineage) : lineage'[n] = lineage[n]
           /\ lineage'[Len(lineage) + 1] = e
           /\ Publishers' = Publishers \cup {e.by}
<1>1. /\ Len(lineage') = Len(lineage) + 1 /\ Len(lineage) \in Nat
      /\ \A n \in 1..Len(lineage) : lineage'[n] = lineage[n]
      /\ lineage'[Len(lineage) + 1] = e
  BY DEF OperatorOK
<1>2. Publishers' = Publishers \cup {e.by}
  BY <1>1 DEF Publishers
<1> QED
  BY <1>1, <1>2

\* The chain only grows, by an entry of the caller's own run.
LEMMA ChainStep ==
    ASSUME NEW c \in Callers, Typed, Step(c)
    PROVE  \/ UNCHANGED lineage /\ ~ReplaceAuth(c)
           \/ /\ ReplaceAuth(c)
              /\ \E f \in Files \ {Current} : \E e \in Credential :
                    /\ e = [by |-> scratch[Uses[c]], basis |-> source[Uses[c]], file |-> f]
                    /\ lineage' = Append(lineage, e)
<1>a. ExecutorsOK /\ Uses[c] \in Executors
  BY TypeParts, RequestsAssumption DEF Typed
<1>1. CASE ReplaceAuth(c)
  <2>1. PICK f \in Files \ {Current} :
               lineage' = Append(lineage, [by |-> scratch[Uses[c]], basis |-> source[Uses[c]], file |-> f])
    BY <1>1 DEF ReplaceAuth
  <2>2. [by |-> scratch[Uses[c]], basis |-> source[Uses[c]], file |-> f] \in Credential
    BY <1>a DEF ExecutorsOK, Credential
  <2> QED
    BY <1>1, <2>1, <2>2
<1>2. CASE ~ReplaceAuth(c)
  BY <1>2 DEF Step, Prepare, Execute, Teardown, LockCache, Qualify, MakeScratch, OpenScratch, CreateFails,
       Unmake, ProbeScratch, ProbeFails, Unprobe, Describe, ProveCapabilities, PrepareFails, Retract,
       Withdraw, HandOff, Seal, Import, Launch, Connect, StartFails, ClientEnds, Reaped, Unreaped,
       PublicationFails, PersistSessions, CheckAuth, LockAuth, Clean, RemoveScratch, FinishStop, Leave,
       Abandon, operator
<1> QED
  BY <1>1, <1>2

LEMMA ReadyStep ==
    ASSUME NEW c \in Callers, Typed, Tidy(c), Ready(c), Step(c)
    PROVE  Ready(c)'
<1>a. CallersOK /\ ExecutorsOK /\ StoreOK /\ ProcessOK /\ Uses[c] \in Executors
  BY TypeParts, RequestsAssumption DEF Typed
<1>b. run[c] \in Ids /\ run[c] # 0
  BY AtWork, Turn DEF Ids
<1>1. CASE \E k \in Caches : LockCache(c, k)
  BY <1>1, <1>a, <1>b DEF LockCache, caller,
         Ready, Go, Preparing, Refusable, Stopping, Starting, CallersOK, ExecutorsOK, StoreOK, executor, store
<1>2. CASE \/ Qualify(c) \/ MakeScratch(c) \/ OpenScratch(c) \/ CreateFails(c)
           \/ Unmake(c) \/ ProbeScratch(c) \/ Describe(c) \/ ProveCapabilities(c)
  BY <1>2, <1>a, <1>b DEF Qualify, MakeScratch, OpenScratch, CreateFails, Unmake, ProbeScratch, Describe,
       ProveCapabilities, Ready, Go, Preparing, Refusable, Stopping, Starting, CallersOK, ExecutorsOK,
       StoreOK, executor, store
<1>3. CASE ProbeFails(c) \/ Unprobe(c)
  BY <1>3, <1>a, <1>b DEF ProbeFails, Unprobe, Keep, RemoveEntry,
         Ready, Go, Preparing, Refusable, Stopping, Starting, CallersOK, ExecutorsOK, StoreOK, executor, store
<1>4. CASE PrepareFails(c) \/ Retract(c)
  BY <1>4, <1>a, <1>b DEF PrepareFails, Retract, GoIdle,
         Ready, Go, Preparing, Refusable, Stopping, Starting, CallersOK, ExecutorsOK, StoreOK, executor, store
<1>5. CASE Withdraw(c) \/ HandOff(c) \/ Seal(c)
  BY <1>5, <1>a, <1>b DEF Withdraw, HandOff, Seal,
         Ready, Go, Preparing, Refusable, Stopping, Starting, CallersOK, ExecutorsOK, StoreOK, executor, store
<1>6. CASE Import(c)
  BY <1>6, <1>a, <1>b DEF Import,
         Ready, Go, Preparing, Refusable, Stopping, Starting, CallersOK, ExecutorsOK, StoreOK, executor, store
<1>7. CASE Launch(c) \/ Connect(c)
  BY <1>7, <1>a, <1>b DEF Launch, Connect,
         Ready, Go, Preparing, Refusable, Stopping, Starting, CallersOK, ExecutorsOK, StoreOK, executor, store
<1>8. CASE StartFails(c) \/ \E success \in BOOLEAN : ClientEnds(c, success)
  BY <1>8, <1>a, <1>b DEF StartFails, ClientEnds, BeginStop,
         Ready, Go, Preparing, Refusable, Stopping, Starting, CallersOK, ExecutorsOK, StoreOK, executor, store
<1>9. CASE Reaped(c) \/ Unreaped(c) \/ PublicationFails(c)
  BY <1>9, <1>a, <1>b DEF Reaped, Unreaped, PublicationFails,
         Ready, Go, Preparing, Refusable, Stopping, Starting, CallersOK, ExecutorsOK, StoreOK, executor, store
<1>10. CASE PersistSessions(c) \/ CheckAuth(c) \/ LockAuth(c) \/ ReplaceAuth(c)
  BY <1>10, <1>a, <1>b DEF PersistSessions, CheckAuth, LockAuth, ReplaceAuth,
         Ready, Go, Preparing, Refusable, Stopping, Starting, CallersOK, ExecutorsOK, StoreOK, executor, store
<1>11. CASE Clean(c) \/ RemoveScratch(c)
  BY <1>11, <1>a, <1>b DEF Clean, RemoveScratch, Keep, RemoveEntry,
         Ready, Go, Preparing, Refusable, Stopping, Starting, CallersOK, ExecutorsOK, StoreOK, executor, store
<1>12. CASE FinishStop(c)
  BY <1>12, <1>a, FinishStopResult DEF Ready, Preparing, Refusable, Stopping
<1>13. CASE Leave(c)
  BY <1>13, <1>a, <1>b DEF Leave, GoIdle,
         Ready, Go, Preparing, Refusable, Stopping, Starting, CallersOK, ExecutorsOK, StoreOK, executor, store
<1>14. CASE Abandon(c)
  BY <1>14, <1>a, <1>b DEF Abandon, BeginStop, Abandons, OwnsPreparation, Tidy, AtRest, Released,
         Ready, Go, Preparing, Refusable, Stopping, Starting, CallersOK, ExecutorsOK, StoreOK, executor, store
<1> QED
  BY <1>1, <1>2, <1>3, <1>4, <1>5, <1>6, <1>7, <1>8, <1>9, <1>10, <1>11, <1>12, <1>13, <1>14 DEF Step,
       Prepare, Execute, Teardown

LEMMA PublishersStep ==
    ASSUME NEW c \in Callers, Typed, Step(c)
    PROVE  /\ ReplaceAuth(c) => Publishers' = Publishers \cup {scratch[Uses[c]]}
           /\ ~ReplaceAuth(c) => Publishers' = Publishers
<1>a. OperatorOK
  BY TypeParts DEF Typed
<1>1. CASE UNCHANGED lineage /\ ~ReplaceAuth(c)
  BY <1>1 DEF Publishers
<1>2. CASE ReplaceAuth(c)
  <2>1. PICK f \in Files, e \in Credential :
               /\ e = [by |-> scratch[Uses[c]], basis |-> source[Uses[c]], file |-> f]
               /\ lineage' = Append(lineage, e)
    BY <1>2, ChainStep
  <2>2. Publishers' = Publishers \cup {e.by}
    BY <2>1, <1>a, PublishersGrow
  <2> QED
    BY <1>2, <2>1, <2>2
<1> QED
  BY <1>1, <1>2, ChainStep

LEMMA EarnsStep ==
    ASSUME NEW c \in Callers, Typed, Tidy(c), Ready(c), Earns(c), Step(c)
    PROVE  Earns(c)'
<1>a. CallersOK /\ ExecutorsOK /\ StoreOK /\ ProcessOK /\ HistoryOK /\ Uses[c] \in Executors
  BY TypeParts, RequestsAssumption DEF Typed
<1>b. run[c] \in Ids /\ run[c] # 0 /\ 0 \notin earned
  BY <1>a, AtWork, Turn DEF Ids, HistoryOK
<1>c. /\ Publishers \subseteq Publishers'
      /\ ReplaceAuth(c) => scratch[Uses[c]] \in Publishers'
  BY PublishersStep
<1>1. CASE \E k \in Caches : LockCache(c, k)
  BY <1>1, <1>a, <1>b, <1>c DEF LockCache, caller, Earns, Synced, Refreshed, Go, Stopping, CallersOK,
       ExecutorsOK, StoreOK, ProcessOK, executor, store, process, history
<1>2. CASE \/ Qualify(c) \/ MakeScratch(c) \/ OpenScratch(c) \/ CreateFails(c)
           \/ Unmake(c) \/ ProbeScratch(c) \/ Describe(c) \/ ProveCapabilities(c)
  BY <1>2, <1>a, <1>b, <1>c DEF Qualify, MakeScratch, OpenScratch, CreateFails, Unmake, ProbeScratch,
       Describe, ProveCapabilities, Earns, Synced, Refreshed, Go, Stopping, CallersOK, ExecutorsOK,
       StoreOK, ProcessOK, executor, store, process, history
<1>3. CASE ProbeFails(c) \/ Unprobe(c)
  BY <1>3, <1>a, <1>b, <1>c DEF ProbeFails, Unprobe, Keep, RemoveEntry, Earns, Synced, Refreshed, Go,
       Stopping, CallersOK, ExecutorsOK, StoreOK, ProcessOK, executor, store, process, history
<1>4. CASE PrepareFails(c) \/ Retract(c)
  BY <1>4, <1>a, <1>b, <1>c DEF PrepareFails, Retract, GoIdle, Refusable, Earns, Synced, Refreshed, Go,
       Stopping, CallersOK, ExecutorsOK, StoreOK, ProcessOK, executor, store, process, history
<1>5. CASE Withdraw(c) \/ HandOff(c) \/ Seal(c)
  BY <1>5, <1>a, <1>b, <1>c DEF Withdraw, HandOff, Seal, Earns, Synced, Refreshed, Go, Stopping,
       CallersOK, ExecutorsOK, StoreOK, ProcessOK, executor, store, process, history
<1>6. CASE Import(c) \/ Launch(c) \/ Connect(c)
  BY <1>6, <1>a, <1>b, <1>c DEF Import, Launch, Connect, Earns, Synced, Refreshed, Go, Stopping,
       CallersOK, ExecutorsOK, StoreOK, ProcessOK, executor, store, process, history
<1>7. CASE StartFails(c)
  BY <1>7, <1>a, <1>b, <1>c DEF StartFails, BeginStop, Starting, Earns, Synced, Refreshed, Go, Stopping,
       CallersOK, ExecutorsOK, StoreOK, ProcessOK, executor, store, process, history
<1>8. CASE \E success \in BOOLEAN : ClientEnds(c, success)
  <2> PICK success \in BOOLEAN : ClientEnds(c, success)
    BY <1>8
  <2>1. /\ pc[c] = "client" /\ pc'[c] = "stopping" /\ via'[c] = "run" /\ defer'[Uses[c]] = ~success
        /\ UNCHANGED <<run, req, scratch, handle, stateDir>> /\ ~errors'[c]
    BY <1>a DEF ClientEnds, BeginStop, Go, CallersOK, ExecutorsOK
  <2>2. scratch[Uses[c]] = run[c] /\ handle[Uses[c]] = run[c] /\ stateDir[Uses[c]] = req[c].persist
    BY <2>1 DEF Tidy, Scratched, Begun, Ready
  <2>3. run[c] \in earned' => success
    BY <2>1 DEF ClientEnds, Earns, Stopping
  <2> QED
    BY <2>1, <2>2, <2>3 DEF Earns, Stopping
<1>9. CASE Reaped(c)
  BY <1>9, <1>a, <1>b, <1>c DEF Reaped, Earns, Synced, Refreshed, Go, Stopping, CallersOK, ExecutorsOK,
       StoreOK, ProcessOK, executor, store, process, history
<1>10. CASE Unreaped(c) \/ PublicationFails(c)
  BY <1>10, <1>a, <1>b, <1>c DEF Unreaped, PublicationFails, Earns, Synced, Refreshed, Go, Stopping,
       CallersOK, ExecutorsOK, StoreOK, ProcessOK, executor, store, process, history
<1>11. CASE PersistSessions(c)
  BY <1>11, <1>a, <1>b, <1>c DEF PersistSessions, Published, Earns, Synced, Refreshed, Go, Stopping,
       CallersOK, ExecutorsOK, StoreOK, ProcessOK, executor, store, process, history
<1>12. CASE CheckAuth(c) \/ LockAuth(c)
  <2>1. /\ pc[c] \in {"checking", "flocking"} /\ pc'[c] \in {"cleaning", "flocking", "replacing"}
        /\ UNCHANGED <<via, run, req, errors, sessions, executor, process, dir, earned>>
        /\ pc'[c] = "cleaning" => source[Uses[c]] = 0 \/ scratch[Uses[c]] = 0
    <3>1. CASE CheckAuth(c)
      BY <3>1, <1>a DEF CheckAuth, Go, CallersOK, store, operator, history
    <3>2. CASE LockAuth(c)
      BY <3>2, <1>a DEF LockAuth, Go, CallersOK, store, history
    <3> QED
      BY <1>12, <3>1, <3>2
  <2> QED
    BY <2>1, <1>b DEF Earns, Synced, Refreshed, Stopping, executor, process
<1>13. CASE ReplaceAuth(c)
  BY <1>13, <1>a, <1>b, <1>c DEF ReplaceAuth, Earns, Synced, Refreshed, Go, Stopping, CallersOK,
       ExecutorsOK, StoreOK, ProcessOK, executor, store, process, history
<1>14. CASE Clean(c) \/ RemoveScratch(c)
  <2>1. /\ pc[c] \in {"cleaning", "removing"} /\ pc'[c] \in {"removing", "finishing"}
        /\ UNCHANGED <<via, run, req, executor, process, sessions, earned>>
    BY <1>14, <1>a DEF Clean, RemoveScratch, Go, CallersOK, operator
  <2>2. CASE run[c] \in earned
    <3>1. scratch[Uses[c]] = run[c]
      BY <2>1, <2>2 DEF Earns, Stopping
    <3>2. ~errors'[c] => ~errors[c] /\ (pc'[c] = "finishing" => dir'[run[c]] # "ours")
      <4>1. CASE Clean(c)
        BY <4>1, <3>1, <1>a, <1>b DEF Clean, Go, CallersOK
      <4>2. CASE RemoveScratch(c)
        <5>1. PICK gone \in BOOLEAN, done \in BOOLEAN :
                     /\ done => gone
                     /\ RemoveEntry(run[c], gone) /\ errors' = [errors EXCEPT ![c] = @ \/ ~done]
          BY <4>2, <3>1 DEF RemoveScratch
        <5>2. ~errors'[c] => done /\ ~errors[c]
          BY <5>1, <1>a DEF CallersOK
        <5>3. gone => dir'[run[c]] # "ours"
          BY <5>1, <1>a, <1>b DEF RemoveEntry, StoreOK
        <5> QED
          BY <5>1, <5>2, <5>3
      <4> QED
        BY <1>14, <4>1, <4>2
    <3> QED
      BY <2>1, <3>2, <1>c DEF Earns, Synced, Refreshed, Stopping, executor, process
  <2>3. CASE run[c] \notin earned
    BY <2>1, <2>3 DEF Earns
  <2> QED
    BY <2>2, <2>3
<1>15. CASE FinishStop(c)
  <2>1. UNCHANGED earned /\ pc[c] = "finishing"
    BY <1>15 DEF FinishStop
  <2> QED
    BY <2>1, <1>15, <1>b, FinishStopResult DEF Earns, Stopping
<1>16. CASE Leave(c)
  BY <1>16, <1>a, <1>b, <1>c DEF Leave, GoIdle, Earns, Synced, Refreshed, Go, Stopping, CallersOK,
       ExecutorsOK, StoreOK, ProcessOK, executor, store, process, history
<1>17. CASE Abandon(c)
  BY <1>17, <1>a, <1>b, <1>c DEF Abandon, BeginStop, Abandons, OwnsPreparation, Earns, Synced, Refreshed,
       Go, Stopping, CallersOK, ExecutorsOK, StoreOK, ProcessOK, executor, store, process, history
<1> QED
  BY <1>1, <1>2, <1>3, <1>4, <1>5, <1>6, <1>7, <1>8, <1>9, <1>10, <1>11, <1>12, <1>13, <1>14, <1>15,
     <1>16, <1>17 DEF Step, Prepare, Execute, Teardown

\* A credential that is published belongs to the caller's run.
LEMMA PublishesOwn ==
    ASSUME NEW c \in Callers, Typed, Ready(c), Earns(c), Chained(c), ReplaceAuth(c)
    PROVE  /\ run[c] \in earned /\ run[c] \notin Publishers /\ scratch[Uses[c]] = run[c] /\ run[c] # 0
           /\ source[Uses[c]] \in 1..Len(lineage) /\ authLock = c
           /\ \E n \in 1..Len(lineage) : Seen(c, n)
<1>a. ExecutorsOK /\ OperatorOK /\ StoreOK /\ Uses[c] \in Executors
  BY TypeParts, RequestsAssumption DEF Typed
<1>1. pc[c] = "replacing" /\ "auth" \in home[scratch[Uses[c]]]
  BY DEF ReplaceAuth
<1>2. run[c] # 0
  BY <1>1 DEF Typed, Placed
<1>3. via[c] # "abandon"
  BY <1>1 DEF Ready, Stopping
<1>4. run[c] \in earned
  BY <1>1, <1>3 DEF Chained, Publishing
<1>5. scratch[Uses[c]] = run[c]
  BY <1>1, <1>4 DEF Earns, Stopping
<1>6. source[Uses[c]] \in 1..Len(lineage)
  <2>1. source[Uses[c]] \in Nat /\ source[Uses[c]] # 0 /\ source[Uses[c]] <= Len(lineage) /\ Len(lineage) \in Nat
    BY <1>1, <1>a DEF Chained, ExecutorsOK, OperatorOK
  <2> QED
    BY <2>1
<1>7. \E n \in 1..Len(lineage) : Seen(c, n)
  <2>1. PICK n \in Nat : Seen(c, n)
    BY <1>1 DEF Chained
  <2>2. n \in 1..Len(lineage)
    BY <2>1, <1>6, <1>a DEF Seen, OperatorOK
  <2> QED
    BY <2>1, <2>2
<1> QED
  BY <1>1, <1>2, <1>4, <1>5, <1>6, <1>7 DEF Chained

LEMMA ChainedStep ==
    ASSUME NEW c \in Callers, Typed, Tidy(c), Ready(c), Earns(c), Chained(c), Step(c)
    PROVE  Chained(c)'
<1>a. CallersOK /\ ExecutorsOK /\ OperatorOK /\ HistoryOK /\ Uses[c] \in Executors
  BY TypeParts, RequestsAssumption DEF Typed
<1>b. run[c] \in Ids /\ run[c] # 0 /\ Len(lineage) \in Nat
  BY <1>a, AtWork, Turn DEF Ids, OperatorOK
<1>c. ~ReplaceAuth(c) => Publishers' = Publishers
  BY PublishersStep
<1>1. CASE \E k \in Caches : LockCache(c, k)
  BY <1>1, <1>a, <1>b, <1>c DEF LockCache, ReplaceAuth, caller,
         Chained, Earns, Publishing, Go, Stopping, CallersOK, ExecutorsOK, executor, operator, history
<1>2. CASE \/ Qualify(c) \/ MakeScratch(c) \/ OpenScratch(c) \/ CreateFails(c)
           \/ Unmake(c) \/ ProbeScratch(c) \/ Describe(c) \/ ProveCapabilities(c)
  BY <1>2, <1>a, <1>b, <1>c DEF Qualify, MakeScratch, OpenScratch, CreateFails, Unmake, ProbeScratch,
       Describe, ProveCapabilities, ReplaceAuth, Chained, Earns, Publishing, Go, Stopping, CallersOK,
       ExecutorsOK, executor, operator, history
<1>3. CASE ProbeFails(c) \/ Unprobe(c)
  BY <1>3, <1>a, <1>b, <1>c DEF ProbeFails, Unprobe, Keep, RemoveEntry, ReplaceAuth,
         Chained, Earns, Publishing, Go, Stopping, CallersOK, ExecutorsOK, executor, operator, history
<1>4. CASE PrepareFails(c) \/ Retract(c)
  BY <1>4, <1>a, <1>b, <1>c DEF PrepareFails, Retract, GoIdle, ReplaceAuth, Preparing, Refusable,
         Chained, Earns, Publishing, Go, Stopping, CallersOK, ExecutorsOK, executor, operator, history
<1>5. CASE Withdraw(c) \/ HandOff(c) \/ Seal(c)
  BY <1>5, <1>a, <1>b, <1>c DEF Withdraw, HandOff, Seal, ReplaceAuth,
         Chained, Earns, Publishing, Go, Stopping, CallersOK, ExecutorsOK, executor, operator, history
<1>6. CASE Import(c)
  BY <1>6, <1>a, <1>b, <1>c DEF Import, AuthSource, ReplaceAuth,
         Chained, Earns, Publishing, Go, Stopping, CallersOK, ExecutorsOK, executor, operator, history
<1>7. CASE Launch(c) \/ Connect(c)
  BY <1>7, <1>a, <1>b, <1>c DEF Launch, Connect, ReplaceAuth,
         Chained, Earns, Publishing, Go, Stopping, CallersOK, ExecutorsOK, executor, operator, history
<1>8. CASE StartFails(c)
  BY <1>8, <1>a, <1>b, <1>c DEF StartFails, BeginStop, Starting, Tidy, Failing, Begun, ReplaceAuth,
         Chained, Earns, Publishing, Go, Stopping, CallersOK, ExecutorsOK, executor, operator, history
<1>9. CASE \E success \in BOOLEAN : ClientEnds(c, success)
  <2> PICK success \in BOOLEAN : ClientEnds(c, success)
    BY <1>9
  <2>1. /\ pc[c] = "client" /\ pc'[c] = "stopping" /\ defer'[Uses[c]] = ~success /\ UNCHANGED <<run, source, lineage>>
        /\ success => run[c] \in earned'
    BY <1>a DEF ClientEnds, BeginStop, Go, CallersOK, ExecutorsOK, operator
  <2>2. Publishers' = Publishers
    BY <2>1, <1>c DEF ReplaceAuth
  <2> QED
    BY <2>1, <2>2 DEF Chained, Publishing
<1>10. CASE Reaped(c) \/ Unreaped(c)
  BY <1>10, <1>a, <1>b, <1>c DEF Reaped, Unreaped, ReplaceAuth,
         Chained, Earns, Publishing, Go, Stopping, CallersOK, ExecutorsOK, executor, operator, history
<1>11. CASE PublicationFails(c)
  <2>1. /\ pc[c] \in Publishing /\ pc'[c] = "cleaning"
        /\ UNCHANGED <<run, via, source, earned, lineage, defer>>
    BY <1>11, <1>a DEF PublicationFails, Publishing, Go, CallersOK, executor, history
  <2>2. Publishers' = Publishers
    BY <2>1 DEF Publishers
  <2> QED
    BY <2>1, <2>2, <1>b DEF Chained, Publishing
<1>12. CASE PersistSessions(c)
  BY <1>12, <1>a, <1>b, <1>c DEF PersistSessions, ReplaceAuth,
         Chained, Earns, Publishing, Go, Stopping, CallersOK, ExecutorsOK, executor, operator, history
<1>13. CASE CheckAuth(c)
  BY <1>13, <1>a, <1>b, <1>c DEF CheckAuth, ReplaceAuth,
         Chained, Earns, Publishing, Go, Stopping, CallersOK, ExecutorsOK, executor, operator, history
<1>14. CASE LockAuth(c)
  <2>1. /\ pc[c] = "flocking" /\ pc'[c] = "replacing" /\ authLock' = c /\ Unchanged(Uses[c])
        /\ UNCHANGED <<run, via, source, earned, lineage, defer>>
    BY <1>14, <1>a DEF LockAuth, Go, CallersOK, executor, history
  <2>2. source[Uses[c]] \in Nat /\ source[Uses[c]] # 0 /\ source[Uses[c]] <= Len(lineage)
    BY <2>1, <1>a DEF Chained, ExecutorsOK
  <2>3. Seen(c, Len(lineage))'
    BY <2>1, <2>2, <1>b DEF Seen, Unchanged, Current
  <2>4. Publishers' = Publishers
    BY <2>1, <1>c DEF ReplaceAuth
  <2> QED
    BY <2>1, <2>3, <2>4, <1>b DEF Chained, Publishing
<1>15. CASE ReplaceAuth(c)
  <2>1. pc'[c] = "cleaning" /\ UNCHANGED <<run, via, source, earned>>
    BY <1>15, <1>a DEF ReplaceAuth, Go, CallersOK, executor, history
  <2>2. Len(lineage') = Len(lineage) + 1
    BY <1>15, <1>a, ChainStep, PublishersGrow
  <2>3. run[c] \in earned
    BY <1>15, PublishesOwn
  <2>4. source[Uses[c]] \in Nat
    BY <1>a DEF ExecutorsOK
  <2> QED
    BY <2>1, <2>2, <2>3, <2>4, <1>b DEF Chained, Publishing
<1>16. CASE Clean(c) \/ RemoveScratch(c)
  BY <1>16, <1>a, <1>b, <1>c DEF Clean, RemoveScratch, ReplaceAuth,
         Chained, Earns, Publishing, Go, Stopping, CallersOK, ExecutorsOK, executor, operator, history
<1>17. CASE FinishStop(c)
  <2>1. pc[c] = "finishing" /\ UNCHANGED <<earned, defer, source, lineage>> /\ Publishers' = Publishers
    BY <1>17, <1>c, FinishStopReleases DEF FinishStop, ReplaceAuth, operator
  <2>2. via[c] = "start" => defer[Uses[c]]
    BY <2>1 DEF Tidy, Failing, Stopping
  <2>3. run[c] \in Publishers => via[c] = "run"
    BY <2>1, <1>b DEF Chained, Earns, Stopping
  <2> QED
    BY <2>1, <2>2, <2>3, <1>17, FinishStopResult DEF Chained, Publishing
<1>18. CASE Leave(c)
  BY <1>18, <1>a, <1>b, <1>c DEF Leave, GoIdle, ReplaceAuth,
         Chained, Earns, Publishing, Go, Stopping, CallersOK, ExecutorsOK, executor, operator, history
<1>19. CASE Abandon(c)
  BY <1>19, <1>a, <1>b, <1>c DEF Abandon, BeginStop, Abandons, OwnsPreparation, ReplaceAuth,
         Chained, Earns, Publishing, Go, Stopping, CallersOK, ExecutorsOK, executor, operator, history
<1> QED
  BY <1>1, <1>2, <1>3, <1>4, <1>5, <1>6, <1>7, <1>8, <1>9, <1>10, <1>11, <1>12, <1>13, <1>14, <1>15,
     <1>16, <1>17, <1>18, <1>19 DEF Step, Prepare, Execute, Teardown

LEMMA EarnedStep ==
    ASSUME NEW c \in Callers, Typed, Step(c)
    PROVE  /\ earned \subseteq earned' /\ sessions \subseteq sessions'
           /\ earned' = earned \/ (pc[c] = "client" /\ earned' = earned \cup {run[c]})
           /\ \A i \in Ids : i # run[c] /\ server[i] = "dead" => server'[i] = "dead"
<1>1. \A i \in Ids : i # run[c] /\ server[i] = "dead" => server'[i] = "dead"
  BY OtherServers
<1>2. CASE \E success \in BOOLEAN : ClientEnds(c, success)
  BY <1>1, <1>2 DEF ClientEnds, operator
<1>3. CASE FinishStop(c)
  BY <1>1, <1>3 DEF FinishStop, operator
<1>4. CASE ~(\E success \in BOOLEAN : ClientEnds(c, success)) /\ ~FinishStop(c)
  BY <1>1, <1>4 DEF Step, Prepare, Execute, Teardown, LockCache, Qualify, MakeScratch, OpenScratch,
       CreateFails, Unmake, ProbeScratch, ProbeFails, Unprobe, Describe, ProveCapabilities, PrepareFails,
       Retract, Withdraw, HandOff, Seal, Import, Launch, Connect, StartFails, Reaped, Unreaped,
       PublicationFails, PersistSessions, Published, CheckAuth, LockAuth, ReplaceAuth, Clean,
       RemoveScratch, Leave, Abandon, operator, history
<1> QED
  BY <1>2, <1>3, <1>4

\* A private home that is empty stays so until its own execution fills it.
LEMMA HomeFrame ==
    ASSUME NEW c \in Callers, Typed, Tidy(c), Step(c), NEW i \in Ids, i # run[c], home[i] = {}
    PROVE  home'[i] = {}
<1>a. StoreOK /\ ExecutorsOK /\ CallersOK /\ Uses[c] \in Executors
  BY TypeParts, RequestsAssumption DEF Typed
<1>b. pc[c] # "idle" => run[c] \in Ids
  BY AtWork
<1>c. scratch[Uses[c]] \in Ids \cup {0} /\ prepared[c] \in Ids \cup {0}
  BY <1>a DEF ExecutorsOK, CallersOK
<1>d. ASSUME NEW s \in Ids, Keep(s) \/ \E gone \in BOOLEAN : RemoveEntry(s, gone)
      PROVE  home'[i] = {}
  BY <1>a, <1>d DEF Keep, RemoveEntry, StoreOK
<1>1. CASE home' = home
  BY <1>1
<1>2. CASE Import(c)
  <2>1. scratch[Uses[c]] = run[c]
    BY <1>2 DEF Import, Tidy, Scratched, Begun
  <2> QED
    BY <2>1, <1>2, <1>a DEF Import, StoreOK
<1>3. CASE ProbeFails(c) \/ Unprobe(c)
  BY <1>3, <1>b, <1>d DEF ProbeFails, Unprobe, store
<1>4. CASE PrepareFails(c) \/ Clean(c)
  BY <1>4, <1>c, <1>d DEF PrepareFails, Clean, store
<1>5. CASE Retract(c) \/ RemoveScratch(c)
  <2>1. scratch[Uses[c]] \in Ids
    BY <1>5, <1>c DEF Retract, RemoveScratch, Typed, Placed
  <2> QED
    BY <1>5, <2>1, <1>d DEF Retract, RemoveScratch
<1> QED
  BY <1>1, <1>2, <1>3, <1>4, <1>5 DEF Step, Prepare, Execute, Teardown, LockCache, Qualify, MakeScratch,
       OpenScratch, CreateFails, Unmake, ProbeScratch, Describe, ProveCapabilities, Withdraw, HandOff,
       Seal, Launch, Connect, StartFails, ClientEnds, Reaped, Unreaped, PublicationFails, PersistSessions,
       CheckAuth, LockAuth, ReplaceAuth, FinishStop, Leave, Abandon, store

\* The publication lock of another caller.
LEMMA LockKept ==
    ASSUME NEW c \in Callers, Step(c), ~ReplaceAuth(c), authLock # c, authLock # 0
    PROVE  authLock' = authLock
BY DEF Step, Prepare, Execute, Teardown, LockCache, Qualify, MakeScratch, OpenScratch, CreateFails,
     Unmake, ProbeScratch, ProbeFails, Unprobe, Describe, ProveCapabilities, PrepareFails, Retract,
     Withdraw, HandOff, Seal, Import, Launch, Connect, StartFails, ClientEnds, Reaped, Unreaped,
     PublicationFails, PersistSessions, CheckAuth, LockAuth, Clean, RemoveScratch, FinishStop, Leave,
     Abandon, operator

LEMMA AccountedStep ==
    ASSUME Apart, Accounted, NEW c \in Callers, Step(c)
    PROVE  Accounted'
<1>a. Typed /\ Tidied /\ (\A d \in Callers : Tidy(d) /\ Ready(d) /\ Earns(d) /\ Chained(d)) /\ Unused
  BY DEF Accounted, Tidied, Guarded
<1>b. CallersOK /\ HistoryOK /\ OperatorOK /\ ExecutorsOK /\ \A d \in Callers : Uses[d] \in Executors
  BY <1>a, TypeParts, RequestsAssumption DEF Typed
<1>1. Tidied' /\ Ready(c)' /\ Earns(c)' /\ Chained(c)' /\ UNCHANGED used
  BY <1>a, TidiedStep, ReadyStep, EarnsStep, ChainedStep, HistoryStep
<1>2. /\ Publishers \subseteq Publishers' /\ Publishers' \subseteq Publishers \cup {run[c]}
      /\ Len(lineage) \in Nat /\ Len(lineage) <= Len(lineage')
      /\ ~ReplaceAuth(c) => UNCHANGED lineage
  <2>1. CASE ReplaceAuth(c)
    <3>1. \E e \in Credential : lineage' = Append(lineage, e)
      BY <2>1, <1>a, ChainStep
    <3>2. Len(lineage) \in Nat /\ Len(lineage) <= Len(lineage')
      BY <3>1, <1>b, PublishersGrow
    <3>3. Publishers' = Publishers \cup {run[c]}
      BY <2>1, <1>a, PublishersStep, PublishesOwn
    <3> QED
      BY <2>1, <3>2, <3>3
  <2>2. CASE ~ReplaceAuth(c)
    <3>1. UNCHANGED lineage
      BY <2>2, <1>a, ChainStep
    <3>2. Len(lineage) \in Nat
      BY <1>b DEF OperatorOK
    <3> QED
      BY <2>2, <3>1, <3>2 DEF Publishers
  <2> QED
    BY <2>1, <2>2
<1>3. ASSUME NEW d \in Callers, d # c
      PROVE  Ready(d)' /\ Earns(d)' /\ Chained(d)'
  <2>1. Uses[d] # Uses[c]
    BY <1>3 DEF Apart
  <2>2. /\ pc'[d] = pc[d] /\ via'[d] = via[d] /\ run'[d] = run[d] /\ req'[d] = req[d] /\ errors'[d] = errors[d]
    BY <1>3, <1>a, CallersFrame
  <2>3. /\ runLock'[Uses[d]] = runLock[Uses[d]] /\ scratch'[Uses[d]] = scratch[Uses[d]]
        /\ handle'[Uses[d]] = handle[Uses[d]] /\ defer'[Uses[d]] = defer[Uses[d]]
        /\ source'[Uses[d]] = source[Uses[d]] /\ stateDir'[Uses[d]] = stateDir[Uses[d]]
    BY <2>1, <1>a, <1>b, ExecutorsFrame
  <2>4. pc[d] # "idle" => run[d] \in Ids /\ run[d] # run[c]
    BY <1>a, <1>3, AtWork DEF Typed, Ids
  <2>5. pc[d] = "idle" => run[d] = 0
    BY <1>a DEF Typed, Placed
  <2>6. Ready(d)'
    <3>1. pc[d] # "idle" /\ home[run[d]] = {} => home'[run[d]] = {}
      BY <2>4, <1>a, HomeFrame
    <3> QED
      BY <2>2, <2>3, <3>1, <1>a DEF Ready, Preparing, Refusable, Stopping
  <2>7. Earns(d)'
    <3>1. /\ run[d] \in earned' <=> run[d] \in earned
          /\ run[d] \in sessions => run[d] \in sessions'
      <4>1. earned' = earned \/ earned' = earned \cup {run[c]}
        BY <1>a, EarnedStep
      <4>2. run[d] = 0 => run[d] \notin earned'
        BY <1>1, TypeParts DEF Tidied, Guarded, Typed, HistoryOK, Ids, TypeOK
      <4> QED
        BY <4>1, <4>2, <2>4, <2>5, <1>a, EarnedStep
    <3>2. pc[d] # "idle" => /\ server[run[d]] = "dead" => server'[run[d]] = "dead"
                            /\ dir[run[d]] # "ours" => dir'[run[d]] # "ours"
      BY <2>4, <1>a, EarnedStep, StoreFrame
    <3> QED
      BY <2>2, <2>3, <3>1, <3>2, <1>2, <1>a DEF Earns, Synced, Refreshed, Stopping
  <2>8. Chained(d)'
    <3>1. run[d] # 0 => (run[d] \in Publishers' <=> run[d] \in Publishers)
      BY <2>4, <2>5, <1>2
    <3>2. pc[d] = "replacing" => ~ReplaceAuth(c) /\ authLock' = authLock
      <4>1. pc[d] = "replacing" => authLock = d
        BY <1>a DEF Chained
      <4>2. authLock # c /\ authLock # 0 => ~ReplaceAuth(c)
        BY <1>a, PublishesOwn
      <4>3. authLock # c /\ authLock # 0 => authLock' = authLock
        BY <4>2, LockKept
      <4> QED
        BY <4>1, <4>2, <4>3, <1>3, RequestsAssumption
    <3>3. source[Uses[d]] <= Len(lineage')
      BY <1>2, <1>a, <1>b DEF Chained, ExecutorsOK, OperatorOK
    <3>4. run[d] \in earned => run[d] \in earned'
      BY <1>a, EarnedStep
    <3>5. pc[d] = "replacing" => \A n \in Nat : Seen(d, n) => Seen(d, n)'
      BY <2>3, <3>2, <1>2 DEF Seen
    <3> QED
      BY <2>2, <2>3, <3>1, <3>2, <3>3, <3>4, <3>5, <1>a DEF Chained
  <2> QED
    BY <2>6, <2>7, <2>8
<1>4. Unused'
  <2> SUFFICES ASSUME NEW i \in Ids, i > used.ids
               PROVE  i \notin earned' /\ i \notin Publishers' /\ home'[i] = {}
    BY <1>1 DEF Unused
  <2>1. i # run[c]
    BY <1>a, <1>b, Turn DEF Typed, Placed, Ids, HistoryOK, CallersOK
  <2>2. home'[i] = {}
    BY <2>1, <1>a, HomeFrame DEF Unused
  <2> QED
    BY <2>1, <2>2, <1>2, <1>a, EarnedStep DEF Unused
<1> QED
  BY <1>1, <1>3, <1>4 DEF Accounted

LEMMA AccountedInit ==
    ASSUME Init
    PROVE  Accounted
<1>1. Tidied
  BY TidiedInit
<1>2. Len(lineage) = 1 /\ Publishers = {0}
  BY DEF Init, Publishers
<1>3. \A c \in Callers : Ready(c) /\ Earns(c) /\ Chained(c)
  <2> SUFFICES ASSUME NEW c \in Callers
               PROVE  Ready(c) /\ Earns(c) /\ Chained(c)
    OBVIOUS
  <2>1. pc[c] = "idle" /\ run[c] = 0 /\ earned = {} /\ source[Uses[c]] = 0
    BY RequestsAssumption DEF Init
  <2> QED
    BY <2>1, <1>2 DEF Ready, Earns, Chained, Publishing, Preparing, Refusable, Stopping
<1>4. Unused
  BY <1>2 DEF Init, Unused, Ids
<1> QED
  BY <1>1, <1>3, <1>4 DEF Accounted

\* What concerns neither the caller, its executor nor the store.
LEMMA AccountKept ==
    ASSUME NEW d \in Callers, Ready(d), Earns(d), Chained(d),
           /\ pc'[d] = pc[d] /\ via'[d] = via[d] /\ run'[d] = run[d] /\ req'[d] = req[d] /\ errors'[d] = errors[d],
           /\ runLock'[Uses[d]] = runLock[Uses[d]] /\ scratch'[Uses[d]] = scratch[Uses[d]]
           /\ handle'[Uses[d]] = handle[Uses[d]] /\ defer'[Uses[d]] = defer[Uses[d]]
           /\ source'[Uses[d]] = source[Uses[d]] /\ stateDir'[Uses[d]] = stateDir[Uses[d]],
           UNCHANGED <<home, lineage, sessions, earned>>,
           pc[d] = "replacing" => (authLock = d => authLock' = d),
           pc[d] # "idle" => /\ server[run[d]] = "dead" => server'[run[d]] = "dead"
                             /\ dir[run[d]] # "ours" => dir'[run[d]] # "ours"
    PROVE  Ready(d)' /\ Earns(d)' /\ Chained(d)'
<1>1. Ready(d)'
  BY DEF Ready, Preparing, Refusable, Stopping
<1>2. Publishers' = Publishers
  BY DEF Publishers
<1>3. Earns(d)'
  BY <1>2 DEF Earns, Synced, Refreshed, Stopping
<1>4. Chained(d)'
  <2>1. \A n \in Nat : Seen(d, n) => Seen(d, n)'
    BY DEF Seen
  <2> QED
    BY <1>2, <2>1 DEF Chained
<1> QED
  BY <1>1, <1>3, <1>4

LEMMA AccountedSubmit ==
    ASSUME Apart, Accounted, NEW c \in Callers, NEW r \in Requests[c], Submit(c, r)
    PROVE  Accounted'
<1> DEFINE i == used.ids + 1
<1>a. Typed /\ Tidied /\ (\A d \in Callers : Ready(d) /\ Earns(d) /\ Chained(d)) /\ Unused
  BY DEF Accounted, Tidied, Guarded
<1>b. CallersOK /\ ExecutorsOK /\ HistoryOK /\ \A d \in Callers : Uses[d] \in Executors
  BY <1>a, TypeParts, RequestsAssumption DEF Typed
<1>c. i \in Ids /\ i > used.ids /\ used'.ids = i /\ used.ids \in Nat
  BY <1>b, RequestsAssumption DEF Submit, HistoryOK
<1>1. Tidied' /\ UNCHANGED <<home, lineage, sessions, earned, authLock, server, dir, source>>
  BY <1>a, TidiedSubmit DEF Submit, operator, process
<1>2. Publishers' = Publishers
  BY <1>1 DEF Publishers
<1>3. Ready(c)' /\ Earns(c)' /\ Chained(c)'
  <2>1. pc'[c] = "locking" /\ run'[c] = i
    BY <1>b DEF Submit, Go, CallersOK
  <2>2. i \notin earned /\ i \notin Publishers /\ home[i] = {}
    BY <1>c, <1>a DEF Unused
  <2> QED
    BY <2>1, <2>2, <1>1, <1>2, <1>a DEF Ready, Earns, Chained, Preparing, Refusable, Publishing, Stopping
<1>4. ASSUME NEW d \in Callers, d # c
      PROVE  Ready(d)' /\ Earns(d)' /\ Chained(d)'
  <2>1. Uses[d] # Uses[c]
    BY <1>4 DEF Apart
  <2>2. /\ pc'[d] = pc[d] /\ via'[d] = via[d] /\ run'[d] = run[d] /\ req'[d] = req[d] /\ errors'[d] = errors[d]
        /\ runLock'[Uses[d]] = runLock[Uses[d]] /\ scratch'[Uses[d]] = scratch[Uses[d]]
        /\ handle'[Uses[d]] = handle[Uses[d]] /\ defer'[Uses[d]] = defer[Uses[d]]
        /\ source'[Uses[d]] = source[Uses[d]] /\ stateDir'[Uses[d]] = stateDir[Uses[d]]
    BY <2>1, <1>4, <1>b DEF Submit, Go, CallersOK, ExecutorsOK
  <2> QED
    BY <2>2, <1>1, <1>a, AccountKept
<1>5. Unused'
  BY <1>1, <1>2, <1>c, <1>a DEF Unused, Ids
<1> QED
  BY <1>1, <1>3, <1>4, <1>5 DEF Accounted

LEMMA AccountedCrash ==
    ASSUME Apart, Accounted, NEW x \in Executors, Crash(x)
    PROVE  Accounted'
<1>a. Typed /\ Tidied /\ (\A d \in Callers : Ready(d) /\ Earns(d) /\ Chained(d)) /\ Unused
  BY DEF Accounted, Tidied, Guarded
<1>b. CallersOK /\ ExecutorsOK /\ ProcessOK /\ HistoryOK /\ OperatorOK /\ \A d \in Callers : Uses[d] \in Executors
  BY <1>a, TypeParts, RequestsAssumption DEF Typed
<1>1. Tidied' /\ used'.ids = used.ids /\ UNCHANGED <<home, lineage, sessions, earned, dir>>
  BY <1>a, <1>b, TidiedCrash, EventTyped DEF Crash, HistoryOK
<1>2. Publishers' = Publishers
  BY <1>1 DEF Publishers
<1>3. ASSUME NEW d \in Callers, Uses[d] = x
      PROVE  Ready(d)' /\ Earns(d)' /\ Chained(d)'
  <2>1. pc'[d] = "idle" /\ run'[d] = 0 /\ source'[x] = 0 /\ 0 \notin earned' /\ Len(lineage') \in Nat
    BY <1>3, <1>1, <1>b DEF Crash, ExecutorsOK, HistoryOK, Ids, OperatorOK
  <2> QED
    BY <2>1, <1>3 DEF Ready, Earns, Chained, Preparing, Refusable, Publishing, Stopping
<1>4. ASSUME NEW d \in Callers, Uses[d] # x
      PROVE  Ready(d)' /\ Earns(d)' /\ Chained(d)'
  <2>1. /\ pc'[d] = pc[d] /\ via'[d] = via[d] /\ run'[d] = run[d] /\ req'[d] = req[d] /\ errors'[d] = errors[d]
    BY <1>4, <1>b DEF Crash, CallersOK
  <2>2. /\ runLock'[Uses[d]] = runLock[Uses[d]] /\ scratch'[Uses[d]] = scratch[Uses[d]]
        /\ handle'[Uses[d]] = handle[Uses[d]] /\ defer'[Uses[d]] = defer[Uses[d]]
        /\ source'[Uses[d]] = source[Uses[d]] /\ stateDir'[Uses[d]] = stateDir[Uses[d]]
    BY <1>4, <1>b DEF Crash, ExecutorsOK
  <2>3. authLock = d => authLock' = d
    BY <1>4 DEF Crash
  <2>4. pc[d] # "idle" => run[d] \in Ids
    BY <1>a, AtWork
  <2>5. pc[d] # "idle" => (server[run[d]] = "dead" => server'[run[d]] = "dead")
    BY <2>4, <1>b DEF Crash
  <2> QED
    BY <2>1, <2>2, <2>3, <2>5, <1>1, <1>a, AccountKept
<1>5. Unused'
  BY <1>1, <1>2, <1>a DEF Unused
<1> QED
  BY <1>1, <1>3, <1>4, <1>5 DEF Accounted

LEMMA AccountedAround ==
    ASSUME Accounted, Login \/ Upgrade \/ \E i \in Ids : ServerExits(i) \/ Plant(i)
    PROVE  Accounted'
<1>a. Typed /\ Tidied /\ (\A d \in Callers : Ready(d) /\ Earns(d) /\ Chained(d)) /\ Unused
  BY DEF Accounted, Tidied, Guarded
<1>b. ExecutorsOK /\ OperatorOK /\ StoreOK /\ ProcessOK /\ \A d \in Callers : Uses[d] \in Executors
  BY <1>a, TypeParts, RequestsAssumption DEF Typed
<1>1. Tidied' /\ UNCHANGED <<caller, executor>> /\ used'.ids = used.ids
  BY <1>a, TidiedAround, AroundTypes
<1>2. UNCHANGED <<home, sessions, earned, authLock>>
  BY DEF Login, Upgrade, ServerExits, Plant, store, operator, history
<1>3. \A i \in Ids : /\ server[i] = "dead" => server'[i] = "dead"
                     /\ dir[i] # "ours" => dir'[i] # "ours"
  BY <1>b DEF Login, Upgrade, ServerExits, Plant, store, process, StoreOK, ProcessOK, Foreign
<1>4. \A d \in Callers : pc[d] # "idle" => run[d] \in Ids
  BY <1>a, AtWork
<1>5. CASE ~Login
  <2>1. UNCHANGED lineage
    BY <1>5 DEF Upgrade, ServerExits, Plant, operator
  <2>2. \A d \in Callers : Ready(d)' /\ Earns(d)' /\ Chained(d)'
    BY <2>1, <1>1, <1>2, <1>3, <1>4, <1>a, AccountKept DEF caller, executor
  <2> QED
    BY <2>1, <2>2, <1>1, <1>2, <1>a DEF Accounted, Unused, Publishers
<1>6. CASE Login
  <2>1. UNCHANGED <<server, dir>>
    BY <1>6 DEF Login, store, process
  <2>2. /\ Len(lineage') = Len(lineage) + 1 /\ Len(lineage) \in Nat
        /\ \A n \in 1..Len(lineage) : lineage'[n] = lineage[n]
        /\ lineage'[Len(lineage) + 1].by = 0
        /\ Publishers' = Publishers \cup {0}
    <3>1. PICK f \in Files : lineage' = Append(lineage, [by |-> 0, basis |-> Len(lineage), file |-> f])
      BY <1>6 DEF Login
    <3>2. [by |-> 0, basis |-> Len(lineage), file |-> f] \in Credential
      BY <1>b DEF OperatorOK, Credential
    <3> QED
      BY <3>1, <3>2, <1>b, PublishersGrow
  <2>3. ASSUME NEW d \in Callers
        PROVE  Ready(d)' /\ Earns(d)' /\ Chained(d)'
    <3>1. Ready(d)'
      BY <1>1, <1>2, <1>a DEF Ready, caller, executor
    <3>2. Earns(d)'
      BY <1>1, <1>2, <2>1, <2>2, <1>a DEF Earns, Synced, Refreshed, caller, executor
    <3>3. pc[d] = "replacing" => \A n \in Nat : Seen(d, n) => Seen(d, n)'
      <4>1. pc[d] = "replacing" => source[Uses[d]] \in 1..Len(lineage)
        BY <2>2, <1>a, <1>b DEF Chained, ExecutorsOK
      <4> SUFFICES ASSUME pc[d] = "replacing", NEW n \in Nat, Seen(d, n)
                   PROVE  Seen(d, n)'
        OBVIOUS
      <4>2. /\ n \in source[Uses[d]]..Len(lineage') /\ source'[Uses[d]] = source[Uses[d]]
            /\ lineage'[n].file = lineage'[source[Uses[d]]].file
        BY <4>1, <2>2, <1>1 DEF Seen, executor
      <4>3. ASSUME NEW m \in n + 1..Len(lineage')
            PROVE  lineage'[m].by = 0
        BY <4>1, <4>3, <2>2 DEF Seen
      <4> QED
        BY <4>2, <4>3 DEF Seen
    <3>4. source[Uses[d]] <= Len(lineage')
      BY <2>2, <1>b, <1>a DEF Chained, ExecutorsOK
    <3>5. Chained(d)'
      BY <1>1, <1>2, <2>2, <3>3, <3>4, <1>a DEF Chained, caller, executor
    <3> QED
      BY <3>1, <3>2, <3>5
  <2>4. Unused'
    BY <1>1, <1>2, <2>2, <1>a DEF Unused, Ids
  <2> QED
    BY <2>3, <2>4, <1>1 DEF Accounted
<1> QED
  BY <1>5, <1>6

LEMMA AccountedNext ==
    ASSUME Apart, Accounted, [Next]_vars
    PROVE  Accounted'
<1>1. CASE UNCHANGED vars
  <2>1. Tidied'
    BY <1>1, TidiedNext DEF Accounted
  <2>2. UNCHANGED <<caller, executor, home, lineage, sessions, earned, authLock, server, dir, used>>
    BY <1>1 DEF vars, store, operator, process, history
  <2>3. \A d \in Callers : Ready(d)' /\ Earns(d)' /\ Chained(d)'
    BY <2>2, AccountKept DEF Accounted, caller, executor
  <2> QED
    BY <2>1, <2>2, <2>3 DEF Accounted, Unused, Publishers
<1>2. CASE Next
  BY <1>2, AccountedStep, AccountedSubmit, AccountedCrash, AccountedAround DEF Next
<1> QED
  BY <1>1, <1>2

LEMMA AlwaysAccounted ==
    ASSUME Apart
    PROVE  Spec => []Accounted
<1>1. Init => Accounted
  BY AccountedInit
<1>2. Accounted /\ [Next]_vars => Accounted'
  BY AccountedNext
<1> QED
  BY <1>1, <1>2, PTL DEF Spec

\* What a caller whose run is newly reported successful has done.
LEMMA Reported ==
    ASSUME Accounted, NEW c \in Callers, NEW d \in Callers, Step(d), run[c] \in returned' \ returned
    PROVE  /\ run[c] \in earned /\ server[run[c]] = "dead" /\ dir[run[c]] # "ours"
           /\ Synced(c) /\ Refreshed(c)
<1>a. Typed /\ Earns(d)
  BY DEF Accounted, Tidied, Guarded
<1>b. HistoryOK'
  BY <1>a, HistoryStep
<1>1. CASE FinishStop(d)
  <2>1. pc[d] = "finishing" /\ ~errors[d] /\ run[d] \in earned /\ returned' = returned \cup {run[d]}
    <3>1. via[d] \in {"start", "run", "abandon"}
      BY <1>1, <1>a DEF FinishStop, TypeOK, Typed, Placed, Stopping
    <3>2. CASE via[d] = "start"
      BY <3>2, <1>1 DEF FinishStop
    <3>3. CASE via[d] = "abandon"
      BY <3>3, <1>1 DEF FinishStop
    <3>4. CASE via[d] = "run" /\ ~errors[d] /\ run[d] \in earned
      BY <3>4, <1>1 DEF FinishStop
    <3>5. CASE via[d] = "run" /\ ~(~errors[d] /\ run[d] \in earned)
      BY <3>5, <1>1 DEF FinishStop
    <3> QED
      BY <3>1, <3>2, <3>3, <3>4, <3>5
  <2>2. run[c] = run[d] /\ run[c] # 0
    BY <2>1, <1>b DEF HistoryOK, Ids
  <2>3. c = d
    BY <2>2, <1>a DEF Typed
  <2> QED
    BY <2>1, <2>3, <1>a DEF Earns, Stopping
<1>2. CASE ~FinishStop(d)
  <2>1. returned' = returned
    BY <1>2 DEF Step, Prepare, Execute, Teardown, LockCache, Qualify, MakeScratch, OpenScratch,
         CreateFails, Unmake, ProbeScratch, ProbeFails, Unprobe, Describe, ProveCapabilities,
         PrepareFails, Retract, Withdraw, HandOff, Seal, Import, Launch, Connect, StartFails, ClientEnds,
         Reaped, Unreaped, PublicationFails, PersistSessions, CheckAuth, LockAuth, ReplaceAuth, Clean,
         RemoveScratch, Leave, Abandon, history
  <2> QED
    BY <2>1
<1> QED
  BY <1>1, <1>2

\* A run that is reported successful succeeded, its server is gone, its scratch is removed, and the
\* sessions and the credential it had imported are published.
THEOREM SuccessIsCompleteCorrect ==
    ASSUME Apart
    PROVE  Spec => SuccessIsComplete
<1>1. Accounted /\ [Next]_vars =>
          [\A c \in Callers : run[c] \in returned' \ returned =>
              /\ run[c] \in earned /\ server[run[c]] = "dead" /\ dir[run[c]] # "ours"
              /\ req[c].persist => run[c] \in sessions
              /\ source[Uses[c]] # 0 => run[c] \in Credentials!Publishers]_vars
  <2> SUFFICES ASSUME Accounted, Next, NEW c \in Callers, run[c] \in returned' \ returned
               PROVE  /\ run[c] \in earned /\ server[run[c]] = "dead" /\ dir[run[c]] # "ours"
                      /\ req[c].persist => run[c] \in sessions
                      /\ source[Uses[c]] # 0 => run[c] \in Credentials!Publishers
    OBVIOUS
  <2>1. \E d \in Callers : Step(d)
    BY DEF Next, Submit, ServerExits, Plant, Crash, Login, Upgrade, history
  <2> QED
    BY <2>1, Reported DEF Synced, Refreshed, Publishers, Credentials!Publishers
<1> QED
  BY <1>1, AlwaysAccounted, PTL DEF Spec, SuccessIsComplete

LEMMA ChainInit ==
    ASSUME Init
    PROVE  Credentials!Init
BY RequestsAssumption DEF Init, Credentials!Init

LEMMA ChainNext ==
    ASSUME Apart, Accounted, Next
    PROVE  Credentials!Next \/ UNCHANGED <<lineage, earned>>
<1>a. Typed /\ \A d \in Callers : Ready(d) /\ Earns(d) /\ Chained(d)
  BY DEF Accounted, Tidied, Guarded
<1>1. CASE \E c \in Callers : Step(c)
  <2> PICK c \in Callers : Step(c)
    BY <1>1
  <2>1. run[c] \in Ids
    BY <1>a, AtWork, Turn
  <2>2. CASE ReplaceAuth(c)
    <3>1. PICK seen \in 1..Len(lineage) : Seen(c, seen)
      BY <2>2, <1>a, PublishesOwn
    <3>2. /\ run[c] \in earned /\ run[c] \notin Credentials!Publishers /\ source[Uses[c]] \in 1..Len(lineage)
          /\ scratch[Uses[c]] = run[c]
      BY <2>2, <1>a, PublishesOwn DEF Publishers, Credentials!Publishers
    <3>3. PICK f \in Files \ {lineage[Len(lineage)].file} :
                 lineage' = Append(lineage, [by |-> run[c], basis |-> source[Uses[c]], file |-> f])
      BY <2>2, <3>2 DEF ReplaceAuth, Current
    <3>4. UNCHANGED earned
      BY <2>2 DEF ReplaceAuth, history
    <3>5. Credentials!Publish(run[c], source[Uses[c]], seen)
      BY <3>1, <3>2, <3>3, <3>4 DEF Seen, Credentials!Publish
    <3> QED
      BY <2>1, <3>1, <3>2, <3>5 DEF Credentials!Next
  <2>3. CASE ~ReplaceAuth(c)
    <3>1. UNCHANGED lineage
      BY <2>3, <1>a, ChainStep
    <3>2. \/ UNCHANGED earned
          \/ run[c] \notin earned /\ earned' = earned \cup {run[c]}
      BY <1>a, EarnedStep DEF Earns, Stopping
    <3> QED
      BY <2>1, <3>1, <3>2 DEF Credentials!Next, Credentials!Complete
  <2> QED
    BY <2>2, <2>3
<1>2. CASE Login
  BY <1>2 DEF Login, Credentials!Next, Credentials!Login
<1>3. CASE ~Login /\ ~ \E c \in Callers : Step(c)
  BY <1>3 DEF Next, Submit, ServerExits, Plant, Crash, Upgrade, operator, history
<1> QED
  BY <1>1, <1>2, <1>3

\* Every behaviour of the executors publishes credentials as CredentialChain promises.
THEOREM CredentialChainImplemented ==
    ASSUME Apart
    PROVE  Spec => ImplementsCredentialChain
<1>1. Init => Credentials!Init
  BY ChainInit
<1>2. Accounted /\ [Next]_vars => [Credentials!Next]_<<lineage, earned>>
  BY ChainNext DEF vars, operator, history
<1> QED
  BY <1>1, <1>2, AlwaysAccounted, PTL DEF Spec, ImplementsCredentialChain, Credentials!Spec

-----------------------------------------------------------------------------
(* Why a call ends: nothing but another publication is ever waited for,    *)
(* and every step of a call brings it nearer to its return.                *)

Waiting(c) == pc[c] = "flocking" /\ authLock # 0

\* A step of the caller is possible: beyond its place it needs nothing but what is written here.
CanGo(c) ==
    /\ ~Waiting(c)
    /\ pc[c] = "finishing" => via[c] \in {"start", "run", "abandon"}
    /\ pc[c] = "leaving" /\ Abandons(c) => scratch[Uses[c]] # 0

\* The publication lock is held between the check and the replacement of one file.
Publisher == authLock # 0 => pc[authLock] = "replacing"

LEMMA PublisherStep ==
    ASSUME Typed, Publisher, NEW c \in Callers, Step(c)
    PROVE  Publisher'
<1>a. CallersOK /\ OperatorOK /\ 0 \notin Callers
  BY TypeParts, RequestsAssumption DEF Typed
<1>1. CASE authLock # 0 /\ authLock # c
  <2>1. authLock' \in {0, authLock}
    BY <1>1, LockKept DEF ReplaceAuth
  <2>2. pc'[authLock] = pc[authLock]
    BY <1>1, <1>a, CallersFrame DEF OperatorOK
  <2> QED
    BY <2>1, <2>2 DEF Publisher
<1>2. CASE authLock = c
  <2>1. pc[c] = "replacing"
    BY <1>2, <1>a DEF Publisher
  <2>2. PublicationFails(c) \/ ReplaceAuth(c)
    BY <2>1 DEF Step, Prepare, Execute, Teardown, LockCache, Qualify, MakeScratch, OpenScratch,
         CreateFails, Unmake, ProbeScratch, ProbeFails, Unprobe, Describe, ProveCapabilities,
         PrepareFails, Retract, Withdraw, HandOff, Seal, Import, Launch, Connect, StartFails, ClientEnds,
         Reaped, Unreaped, PersistSessions, CheckAuth, LockAuth, Clean, RemoveScratch, FinishStop, Leave,
         Abandon, Preparing, Refusable, Starting
  <2>3. authLock' = 0
    BY <1>2, <2>2 DEF PublicationFails, ReplaceAuth
  <2> QED
    BY <2>3 DEF Publisher
<1>3. CASE authLock = 0
  <2>1. CASE LockAuth(c)
    BY <2>1, <1>a DEF LockAuth, Go, CallersOK, Publisher
  <2>2. CASE ~LockAuth(c)
    <3>1. authLock' = 0
      BY <2>2, <1>3, <1>a DEF Step, Prepare, Execute, Teardown, LockCache, Qualify, MakeScratch,
           OpenScratch, CreateFails, Unmake, ProbeScratch, ProbeFails, Unprobe, Describe,
           ProveCapabilities, PrepareFails, Retract, Withdraw, HandOff, Seal, Import, Launch, Connect,
           StartFails, ClientEnds, Reaped, Unreaped, PublicationFails, PersistSessions, CheckAuth,
           ReplaceAuth, Clean, RemoveScratch, FinishStop, Leave, Abandon, operator
    <3> QED
      BY <3>1 DEF Publisher
  <2> QED
    BY <2>1, <2>2
<1> QED
  BY <1>1, <1>2, <1>3

LEMMA PublisherNext ==
    ASSUME Typed, Publisher, [Next]_vars
    PROVE  Publisher'
<1>a. CallersOK /\ OperatorOK /\ 0 \notin Callers
  BY TypeParts, RequestsAssumption DEF Typed
<1>1. CASE \E c \in Callers : Step(c)
  BY <1>1, PublisherStep
<1>2. ASSUME NEW c \in Callers, NEW r \in Requests[c], Submit(c, r)
      PROVE  Publisher'
  <2>1. UNCHANGED authLock /\ pc[c] = "idle" /\ pc' = [pc EXCEPT ![c] = "locking"]
    BY <1>2 DEF Submit, Go, operator
  <2> QED
    BY <2>1, <1>a DEF Publisher, OperatorOK, CallersOK
<1>3. ASSUME NEW x \in Executors, Crash(x)
      PROVE  Publisher'
  BY <1>3, <1>a DEF Crash, Publisher, OperatorOK
<1>4. CASE Login \/ Upgrade \/ \E i \in Ids : ServerExits(i) \/ Plant(i)
  BY <1>4 DEF Login, Upgrade, ServerExits, Plant, caller, operator, Publisher
<1>5. CASE UNCHANGED vars
  BY <1>5 DEF vars, caller, operator, Publisher
<1> QED
  BY <1>1, <1>2, <1>3, <1>4, <1>5 DEF Next

\* No call is ever stuck: a preparation takes its locks without waiting, and whoever waits for the
\* publication lock waits for another caller that is about to replace or give up the credential.
THEOREM CallNeverStuck ==
    ASSUME Apart
    PROVE  Spec => [](\A c \in Callers : pc[c] # "idle" =>
                          \/ CanGo(c)
                          \/ Waiting(c) /\ authLock \in Callers \ {c} /\ pc[authLock] = "replacing")
<1>1. Init => Publisher
  BY DEF Init, Publisher
<1>2. Tidied => Typed
  BY DEF Tidied, Guarded
<1>3. Tidied /\ Publisher =>
        \A c \in Callers : pc[c] # "idle" =>
            \/ CanGo(c)
            \/ Waiting(c) /\ authLock \in Callers \ {c} /\ pc[authLock] = "replacing"
  <2> SUFFICES ASSUME Tidied, Publisher, NEW c \in Callers, pc[c] # "idle", ~CanGo(c)
               PROVE  Waiting(c) /\ authLock \in Callers \ {c} /\ pc[authLock] = "replacing"
    OBVIOUS
  <2>a. CallersOK /\ OperatorOK /\ Placed(c) /\ Tidy(c) /\ run[c] \in Ids
    BY <1>2, TypeParts, AtWork DEF Tidied, Typed
  <2>1. pc[c] = "finishing" => via[c] \in {"start", "run", "abandon"}
    BY <2>a DEF Placed, Stopping, CallersOK
  <2>2. pc[c] = "leaving" /\ Abandons(c) => scratch[Uses[c]] # 0
    BY <2>a DEF Tidy, AtRest, Released, Abandons, OwnsPreparation, Ids
  <2> QED
    BY <2>1, <2>2, <2>a DEF CanGo, Waiting, Publisher, OperatorOK
<1> QED
  BY <1>1, <1>2, <1>3, PublisherNext, AlwaysTidied, PTL DEF Spec

\* How far a place is from the return.  _stop_server runs for a failed start, for a run and for an
\* abandoned preparation, and the first is followed by the second.
Pass(who) == CASE who = "start" -> 17 [] who = "run" -> 9 [] who = "abandon" -> 0 [] who = "none" -> 0

Distance(place, who) ==
    CASE place = "idle" -> 0
      [] place = "retracting" -> 1
      [] place = "refused" -> 2
      [] place = "unprobing" -> 3
      [] place = "unmarked" -> 3
      [] place = "unopened" -> 3
      [] place = "leaving" -> 9
      [] place = "finishing" -> 1 + Pass(who)
      [] place = "removing" -> 2 + Pass(who)
      [] place = "cleaning" -> 3 + Pass(who)
      [] place = "replacing" -> 4 + Pass(who)
      [] place = "flocking" -> 5 + Pass(who)
      [] place = "checking" -> 6 + Pass(who)
      [] place = "persisting" -> 7 + Pass(who)
      [] place = "stopping" -> 8 + Pass(who)
      [] place = "client" -> 26
      [] place = "handshake" -> 27
      [] place = "launching" -> 28
      [] place = "importing" -> 29
      [] place = "identity" -> 30
      [] place = "prepared" -> 31
      [] place = "proving" -> 32
      [] place = "describing" -> 33
      [] place = "probing" -> 34
      [] place = "opening" -> 35
      [] place = "scratching" -> 36
      [] place = "locking" -> 37

Left(c) == Distance(pc[c], via[c])
Unlocked(c) == {k \in req[c].caches : <<k, run[c]>> \notin locks[Uses[c]]}

\* A step brings the call nearer to its end, or takes another of the locks it asked for.
Nearer(c) ==
    \/ Left(c)' < Left(c)
    \/ Left(c)' = Left(c) /\ Unlocked(c)' \subseteq Unlocked(c) /\ Unlocked(c)' # Unlocked(c)

LEMMA LeftNat ==
    ASSUME CallersOK, NEW c \in Callers
    PROVE  Left(c) \in 0..37
<1>1. pc[c] \in Places /\ via[c] \in {"none", "start", "run", "abandon"}
  BY DEF CallersOK
<1>2. Pass(via[c]) \in {0, 9, 17}
  BY <1>1 DEF Pass
<1> QED
  BY <1>1, <1>2 DEF Left, Distance, Places, Preparing, Refusable, Running, Starting, Stopping

LEMMA StepNearer ==
    ASSUME Apart, Tidied, NEW c \in Callers, Step(c)
    PROVE  Nearer(c)
<1>a. Typed /\ CallersOK /\ ExecutorsOK /\ Uses[c] \in Executors /\ Placed(c) /\ Tidy(c)
  BY TypeParts, RequestsAssumption DEF Tidied, Guarded, Typed
<1>b. via[c] \in {"none", "start", "run", "abandon"} /\ Pass(via[c]) \in {0, 9, 17}
  BY <1>a DEF CallersOK, Pass
<1> DEFINE Ends == Left(c)' < Left(c)
<1>1. CASE \E k \in Caches : LockCache(c, k)
  <2> PICK k \in Caches : LockCache(c, k)
    BY <1>1
  <2>1. /\ UNCHANGED caller /\ k \in req[c].caches /\ ~Held(k)
        /\ locks'[Uses[c]] = locks[Uses[c]] \cup {<<k, run[c]>>}
    BY <1>a DEF LockCache, ExecutorsOK
  <2>2. run[c] \in Ids
    BY <1>a, AtWork DEF LockCache
  <2>3. <<k, run[c]>> \notin locks[Uses[c]]
    BY <2>1, <2>2, <1>a DEF Held
  <2>4. Left(c)' = Left(c)
    BY <2>1 DEF caller, Left
  <2>5. Unlocked(c)' = Unlocked(c) \ {k} /\ k \in Unlocked(c)
    BY <2>1, <2>3 DEF caller, Unlocked
  <2> QED
    BY <2>4, <2>5 DEF Nearer
<1>2. CASE \/ Qualify(c) \/ MakeScratch(c) \/ OpenScratch(c) \/ CreateFails(c) \/ Unmake(c)
           \/ ProbeScratch(c) \/ ProbeFails(c) \/ Unprobe(c) \/ Describe(c)
           \/ ProveCapabilities(c)
  <2>1. \/ pc[c] = "locking" /\ pc'[c] = "scratching"
        \/ pc[c] = "scratching" /\ pc'[c] = "opening"
        \/ pc[c] = "opening" /\ pc'[c] \in {"probing", "unopened", "unmarked"}
        \/ pc[c] = "probing" /\ pc'[c] \in {"describing", "unprobing", "refused"}
        \/ pc[c] \in {"unopened", "unmarked", "unprobing"} /\ pc'[c] = "refused"
        \/ pc[c] = "describing" /\ pc'[c] = "proving"
        \/ pc[c] = "proving" /\ pc'[c] = "prepared"
    BY <1>2, <1>a DEF Qualify, MakeScratch, OpenScratch, CreateFails, Unmake, ProbeScratch, ProbeFails,
         Unprobe, Describe, ProveCapabilities, Go, CallersOK
  <2> QED
    BY <2>1 DEF Nearer, Left, Distance
<1>3. CASE PrepareFails(c) \/ Retract(c) \/ Leave(c)
  <2>1. \/ pc[c] \in Refusable \cup {"retracting", "leaving"} /\ pc'[c] = "idle"
        \/ pc[c] \in Refusable /\ pc'[c] = "retracting"
    BY <1>3, <1>a DEF PrepareFails, Retract, Leave, GoIdle, Go, CallersOK
  <2> QED
    BY <2>1 DEF Nearer, Left, Distance, Refusable
<1>4. CASE Withdraw(c) \/ HandOff(c) \/ Seal(c) \/ Import(c) \/ Launch(c) \/ Connect(c)
  <2>1. \/ pc[c] = "prepared" /\ pc'[c] \in {"leaving", "identity"}
        \/ pc[c] = "identity" /\ pc'[c] = "importing"
        \/ pc[c] = "importing" /\ pc'[c] = "launching"
        \/ pc[c] = "launching" /\ pc'[c] = "handshake"
        \/ pc[c] = "handshake" /\ pc'[c] = "client"
    BY <1>4, <1>a DEF Withdraw, HandOff, Seal, Import, Launch, Connect, Go, CallersOK
  <2> QED
    BY <2>1 DEF Nearer, Left, Distance
<1>5. CASE StartFails(c) \/ Abandon(c) \/ \E success \in BOOLEAN : ClientEnds(c, success)
  <2>1. /\ pc'[c] = "stopping"
        /\ \/ pc[c] \in Starting \cup {"identity", "client"} /\ via'[c] \in {"start", "run"}
           \/ pc[c] = "leaving" /\ via'[c] = "abandon"
    BY <1>5, <1>a DEF StartFails, Abandon, ClientEnds, BeginStop, Go, CallersOK
  <2>2. CASE pc[c] \in Starting \cup {"identity", "client"} /\ via'[c] \in {"start", "run"}
    <3>1. Left(c)' \in {25, 17}
      BY <2>1, <2>2 DEF Left, Distance, Pass
    <3>2. Left(c) \in 26..30
      BY <2>2 DEF Left, Distance, Starting
    <3> QED
      BY <3>1, <3>2 DEF Nearer
  <2>3. CASE pc[c] = "leaving" /\ via'[c] = "abandon"
    <3>1. Left(c)' = 8 /\ Left(c) = 9
      BY <2>1, <2>3 DEF Left, Distance, Pass
    <3> QED
      BY <3>1 DEF Nearer
  <2> QED
    BY <2>1, <2>2, <2>3
<1>6. CASE \/ Reaped(c) \/ Unreaped(c) \/ PublicationFails(c) \/ PersistSessions(c) \/ CheckAuth(c)
           \/ LockAuth(c) \/ ReplaceAuth(c) \/ Clean(c) \/ RemoveScratch(c)
  <2>1. /\ via'[c] = via[c]
        /\ \/ pc[c] = "stopping" /\ pc'[c] \in {"persisting", "cleaning", "finishing"}
           \/ pc[c] = "persisting" /\ pc'[c] \in {"checking", "cleaning"}
           \/ pc[c] = "checking" /\ pc'[c] \in {"flocking", "cleaning"}
           \/ pc[c] = "flocking" /\ pc'[c] \in {"replacing", "cleaning"}
           \/ pc[c] = "replacing" /\ pc'[c] = "cleaning"
           \/ pc[c] = "cleaning" /\ pc'[c] \in {"removing", "finishing"}
           \/ pc[c] = "removing" /\ pc'[c] = "finishing"
    BY <1>6, <1>a DEF Reaped, Unreaped, PublicationFails, PersistSessions, CheckAuth, LockAuth,
         ReplaceAuth, Clean, RemoveScratch, Go, CallersOK
  <2> QED
    BY <2>1, <1>b DEF Nearer, Left, Distance
<1>7. CASE FinishStop(c)
  <2>1. pc[c] = "finishing"
    BY <1>7 DEF FinishStop
  <2>2. \/ via[c] = "start" /\ pc'[c] = "stopping" /\ via'[c] = "run"
        \/ via[c] = "run" /\ pc'[c] \in {"leaving", "idle"}
        \/ via[c] = "abandon" /\ pc'[c] = "idle"
    BY <1>7, <1>a, FinishStopResult
  <2> QED
    BY <2>1, <2>2 DEF Nearer, Left, Distance, Pass
<1> QED
  BY <1>1, <1>2, <1>3, <1>4, <1>5, <1>6, <1>7 DEF Step, Prepare, Execute, Teardown

\* Nobody else takes a call back: what is not its own step leaves it where it is, with its locks,
\* or ends it by the crash of its executor's process.
LEMMA OthersKeep ==
    ASSUME Apart, Tidied, NEW c \in Callers, pc[c] # "idle", [Next]_vars, ~Step(c)
    PROVE  pc'[c] = "idle" \/ (UNCHANGED <<pc[c], via[c], run[c], req[c]>> /\ Unlocked(c)' = Unlocked(c))
<1>a. Typed /\ CallersOK /\ ExecutorsOK /\ Uses[c] \in Executors
  BY TypeParts, RequestsAssumption DEF Tidied, Guarded, Typed
<1> DEFINE Keeps == /\ pc'[c] = pc[c] /\ via'[c] = via[c] /\ run'[c] = run[c] /\ req'[c] = req[c]
                    /\ locks'[Uses[c]] = locks[Uses[c]]
<1>1. ASSUME NEW d \in Callers, Step(d)
      PROVE  Keeps
  <2>1. d # c /\ Uses[d] # Uses[c]
    BY <1>1 DEF Apart
  <2> QED
    BY <1>1, <1>a, <2>1, CallersFrame, ExecutorsFrame
<1>2. ASSUME NEW d \in Callers, NEW r \in Requests[d], Submit(d, r)
      PROVE  Keeps
  BY <1>2, <1>a DEF Submit, Go, CallersOK
<1>3. ASSUME NEW x \in Executors, Crash(x)
      PROVE  pc'[c] = "idle" \/ Keeps
  BY <1>3, <1>a DEF Crash, ReleaseLocks, ExecutorsOK
<1>4. ASSUME Login \/ Upgrade \/ \E i \in Ids : ServerExits(i) \/ Plant(i)
      PROVE  Keeps
  BY <1>4 DEF Login, Upgrade, ServerExits, Plant, caller, executor
<1>5. ASSUME UNCHANGED vars
      PROVE  Keeps
  BY <1>5 DEF vars, caller, executor
<1>6. pc'[c] = "idle" \/ Keeps
  BY <1>1, <1>2, <1>3, <1>4, <1>5 DEF Next
<1> QED
  BY <1>6 DEF Unlocked

\* Every step of a call, a failure it meets included, brings it nearer to its return, whose
\* distance is at most 37 places and the locks it asked for; no step of others sets it back.
THEOREM CallShortens ==
    ASSUME Apart
    PROVE  Spec => [][\A c \in Callers : pc[c] # "idle" =>
                          /\ Left(c) \in 0..37
                          /\ Step(c) => Nearer(c)
                          /\ ~Step(c) => \/ pc'[c] = "idle"
                                         \/ Left(c)' = Left(c) /\ Unlocked(c)' = Unlocked(c)]_vars
<1> DEFINE Shortens == \A c \in Callers : pc[c] # "idle" =>
                          /\ Left(c) \in 0..37
                          /\ Step(c) => Nearer(c)
                          /\ ~Step(c) => \/ pc'[c] = "idle"
                                         \/ Left(c)' = Left(c) /\ Unlocked(c)' = Unlocked(c)
<1>1. Tidied /\ [Next]_vars => Shortens
  <2> SUFFICES ASSUME Tidied, [Next]_vars, NEW c \in Callers, pc[c] # "idle"
               PROVE  /\ Left(c) \in 0..37
                      /\ Step(c) => Nearer(c)
                      /\ ~Step(c) => \/ pc'[c] = "idle"
                                     \/ Left(c)' = Left(c) /\ Unlocked(c)' = Unlocked(c)
    OBVIOUS
  <2>1. CallersOK
    BY TypeParts DEF Tidied, Guarded, Typed
  <2>2. UNCHANGED <<pc[c], via[c]>> => Left(c)' = Left(c)
    BY DEF Left
  <2> QED
    BY <2>1, <2>2, LeftNat, StepNearer, OthersKeep
<1>2. Spec => []Tidied
  BY AlwaysTidied
<1> QED
  BY <1>1, <1>2, PTL DEF Spec
=============================================================================
