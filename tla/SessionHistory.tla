--------------------------- MODULE SessionHistory ---------------------------
(***************************************************************************)
(* Which Codex session a generation runs in, and how the journal proves it *)
(* afterwards.  A prompt asks for a fresh session or for the session of an *)
(* earlier execution.  RUN_STARTED records what was decided, the terminal  *)
(* event what the executor observed, and from then on every command        *)
(* recomputes each decision from the prefix of the journal it was made on  *)
(* (_validate_historical_provenance) and refuses when one differs.         *)
(*                                                                         *)
(* A generation runs at most once, so its number stands for its execution  *)
(* identifier, and for the session that its run opens.  0 is no session    *)
(* and the identifier of no execution.  Transactions, the spool and the    *)
(* repository witness are AtlasWorkflow's: a transition is one step here.  *)
(***************************************************************************)
EXTENDS Integers, Sequences

CONSTANTS
    MaxGen,         \* bound on generations
    Actions,        \* implementation (any executed action), checkpoint
    Policies,       \* [kind, modes, gap, hops]: the compared settings, what the profile allows, limits
    Capabilities,   \* capability plans the machine may resolve to
    NoCaps,         \* the profile needs none
    Unset,          \* no policy: the generation has no execution owner
    Outcomes,       \* what an executor reports
    Reports         \* whether the agent's report can be extracted afterwards

ASSUME Constants ==
    /\ MaxGen \in Nat
    /\ Actions \subseteq {"implementation", "checkpoint"}
    /\ Policies \subseteq [kind : STRING, modes : SUBSET {"fresh", "reuse"}, gap : Nat, hops : Nat]
    /\ NoCaps \in Capabilities /\ Unset \notin Policies
    /\ "success" \in Outcomes /\ Outcomes \subseteq STRING
    /\ Reports \subseteq BOOLEAN

VARIABLES
    gens,       \* the accepted generations, as the journal projects them
    now,        \* number of lifecycle events journaled after acceptance
    live,       \* generations whose executor is at work in an execute call
    stuck       \* generation of a transaction whose terminal event was refused, 0 if none

vars == <<gens, now, live, stuck>>

Gens == DOMAIN gens
Ids == 0..MaxGen

Nothing == [requested |-> "none", mode |-> "none", from |-> 0, thread |-> 0, depth |-> 0, fallback |-> "none"]
NoContext == [kind |-> "unset", gen |-> 0, status |-> "none", exec |-> 0, thread |-> 0, claim |-> FALSE]
NoResult == [thread |-> 0, outcome |-> "none", claim |-> FALSE, typed |-> FALSE]

Owned(r) == r.plan # Nothing

\* The record PROMPT_ACCEPTED creates.
Record(p) ==
    [prompt |-> p, status |-> "ACCEPTED", policy |-> Unset, caps |-> NoCaps, plan |-> Nothing,
     context |-> NoContext, result |-> NoResult, started |-> 0, ended |-> 0]

Init == gens = <<>> /\ now = 0 /\ live = {} /\ stuck = 0

-----------------------------------------------------------------------------
(* The journal replayed up to an event.                                    *)

\* replay_journal([e for e in events if e.seq < k]): later runs and endings are undone.  A
\* generation accepted after k is still there, accepted and without an owner, which nothing reads.
Before(k) ==
    [g \in Gens |->
        CASE gens[g].ended \in 1..(k - 1) -> gens[g]
          [] gens[g].ended \notin 1..(k - 1) /\ gens[g].started \in 1..(k - 1) ->
                [gens[g] EXCEPT !.status = "RUNNING", !.result = NoResult]
          [] OTHER -> Record(gens[g].prompt)]

\* Mutation: only completed runs are asked for their session.
KnownCompleted(s) == {s[g].result.thread : g \in {h \in DOMAIN s : s[h].status = "COMPLETED"}} \ {0}

\* _known_thread_ids
Known(s) == {s[g].result.thread : g \in DOMAIN s} \ {0}

Succeeded(r) == r.status = "COMPLETED" /\ r.result.outcome = "success"

-----------------------------------------------------------------------------
(* The decision: _reuse_snapshot and its safe fallbacks.                   *)

SafeReuseFallbacks ==
    {"REUSE_TARGET_INCOMPATIBLE", "REUSE_GENERATION_GAP_EXCEEDED", "REUSE_HOT_HOPS_EXCEEDED",
     "REUSE_LINEAGE_ADVANCED", "REUSE_CAPABILITIES_INCOMPATIBLE"}

\* The edge a resuming run took is the one its own prompt names, to an earlier run.
EdgeOK(s, g) ==
    LET e == s[g].plan.from
    IN s[g].prompt.mode = "reuse" /\ s[g].prompt.target = e /\ e \in DOMAIN s /\ e < g /\ Owned(s[e])

\* Mutation: the depth behind the target is not counted.
LineageDepthOfTarget(s) == [g \in DOMAIN s |-> 0]

\* lineage_depth: the number of resumptions behind g, -1 when an edge is not authorised.
LineageDepth(s) ==
    LET depth[g \in DOMAIN s] ==
            IF s[g].plan.mode # "reuse" THEN 0
            ELSE IF ~EdgeOK(s, g) \/ depth[s[g].plan.from] = -1 THEN -1
            ELSE 1 + depth[s[g].plan.from]
    IN depth

\* The runs after the target whose records are examined.
Later(s, g, t) == {h \in DOMAIN s : h > t /\ h # g /\ Owned(s[h])}

\* A later run concerns the thread when it observed it or asked for it.
Relevant(s, h, thread) == s[h].result.thread = thread \/ s[h].plan.thread = thread

\* Asked for one thread, observed another or none: a contradiction wherever it happened.
Contradicts(s, h) == s[h].plan.mode = "reuse" /\ s[h].plan.thread # s[h].result.thread

\* REUSE_LINEAGE_TAINTED by a run after the target.
Tainted(s, g, t) ==
    \E h \in Later(s, g, t) :
        \/ Contradicts(s, h)
        \/ /\ Relevant(s, h, s[t].result.thread)
           /\ \/ ~Succeeded(s[h])
              \/ /\ s[h].plan.mode = "reuse"
                 /\ ~EdgeOK(s, h) \/ s[s[h].plan.from].result.thread # s[h].plan.thread

\* Mutation: nobody looks whether the thread has moved on.
AdvancedNever(s, g, t) == FALSE

\* REUSE_LINEAGE_ADVANCED
Advanced(s, g, t) == \E h \in Later(s, g, t) : Relevant(s, h, s[t].result.thread)

\* Two policies resolve to the same action, model, effort, sandbox, network and Codex.
Compatible(p, q) == p.kind = q.kind

\* What _reuse_snapshot answers for generation g under policy p and capability plan c, its
\* checks in the order of the code.
ReuseVerdict(s, g, p, c) ==
    LET t == s[g].prompt.target
        r == s[t]
        depth == LineageDepth(s)[t]
    IN IF t \notin DOMAIN s \/ ~Owned(r) THEN "REUSE_TARGET_UNKNOWN"
       ELSE IF r.result.thread = 0 THEN "REUSE_TARGET_NO_THREAD"
       ELSE IF Contradicts(s, t) THEN "REUSE_TARGET_PROVENANCE_INVALID"
       ELSE IF depth = -1 THEN "REUSE_LINEAGE_TAINTED"
       ELSE IF r.caps # c THEN "REUSE_CAPABILITIES_INCOMPATIBLE"
       ELSE IF Tainted(s, g, t) THEN "REUSE_LINEAGE_TAINTED"
       ELSE IF Advanced(s, g, t) THEN "REUSE_LINEAGE_ADVANCED"
       ELSE IF ~Succeeded(r) THEN "REUSE_LINEAGE_TAINTED"
       ELSE IF ~Compatible(r.policy, p) THEN "REUSE_TARGET_INCOMPATIBLE"
       ELSE IF g - t > p.gap THEN "REUSE_GENERATION_GAP_EXCEEDED"
       ELSE IF depth + 1 > p.hops THEN "REUSE_HOT_HOPS_EXCEEDED"
       ELSE "resume"

FreshPlan(requested, reason) ==
    [Nothing EXCEPT !.requested = requested, !.mode = "fresh", !.fallback = reason]

Refused == [Nothing EXCEPT !.mode = "refused"]

\* Mutation: every verdict falls back.
PlanAlways(s, g, p, c) ==
    LET verdict == ReuseVerdict(s, g, p, c)
        t == s[g].prompt.target
    IN IF s[g].prompt.mode = "fresh" THEN FreshPlan("fresh", "none")
       ELSE IF verdict = "resume"
            THEN [requested |-> "reuse", mode |-> "reuse", from |-> t, thread |-> s[t].result.thread,
                  depth |-> LineageDepth(s)[t] + 1, fallback |-> "none"]
       ELSE FreshPlan("reuse", verdict)

\* The session plan of a start: what the prompt asks for, resumed, or replaced by a fresh
\* session for one of the safe reasons; every other verdict refuses the start.
Plan(s, g, p, c) ==
    LET verdict == ReuseVerdict(s, g, p, c)
        t == s[g].prompt.target
    IN IF s[g].prompt.mode = "fresh" THEN FreshPlan("fresh", "none")
       ELSE IF verdict = "resume"
            THEN [requested |-> "reuse", mode |-> "reuse", from |-> t, thread |-> s[t].result.thread,
                  depth |-> LineageDepth(s)[t] + 1, fallback |-> "none"]
       ELSE IF verdict \in SafeReuseFallbacks THEN FreshPlan("reuse", verdict)
       ELSE Refused

-----------------------------------------------------------------------------
(* The immediate parent, as the executor is told about it.                 *)

\* Mutation: the report of an interrupted parent is withheld.
ParentContextCompletedOnly(s, g) ==
    IF g = 1 THEN [NoContext EXCEPT !.kind = "none"]
    ELSE LET parent == s[g - 1]
         IN [kind |-> IF parent.prompt.action = "checkpoint" THEN "checkpoint" ELSE "execution",
             gen |-> g - 1, status |-> parent.status,
             exec |-> IF Owned(parent) THEN g - 1 ELSE 0, thread |-> parent.result.thread,
             claim |-> parent.status = "COMPLETED" /\ parent.result.claim]

\* _parent_context: claim is the checkpoint's commit, or that a report of the run is available.
ParentContext(s, g) ==
    IF g = 1 THEN [NoContext EXCEPT !.kind = "none"]
    ELSE LET parent == s[g - 1]
         IN [kind |-> IF parent.prompt.action = "checkpoint" THEN "checkpoint" ELSE "execution",
             gen |-> g - 1, status |-> parent.status,
             exec |-> IF Owned(parent) THEN g - 1 ELSE 0, thread |-> parent.result.thread,
             claim |-> parent.status \in {"COMPLETED", "INTERRUPTED"} /\ parent.result.claim]

\* Journal._validate_parent_context, which every read of the journal applies again.
JournalTakesContext(form, s, g) ==
    \/ form.kind = "none" /\ g = 1
    \/ /\ form.kind # "none" /\ g > 1
       /\ form.gen = g - 1 /\ form.status = s[g - 1].status
       /\ form.kind = "checkpoint" <=> s[g - 1].prompt.action = "checkpoint"
       /\ form.kind = "execution" =>
             /\ form.exec = IF Owned(s[g - 1]) THEN g - 1 ELSE 0
             /\ form.thread = s[g - 1].result.thread
       /\ form.kind = "checkpoint" => form.claim = s[g - 1].result.claim
       /\ form.kind = "execution" /\ Owned(s[g - 1]) =>
             s[g - 1].ended # 0 /\ form.claim = s[g - 1].result.claim

-----------------------------------------------------------------------------
(* The journal judged: _validate_historical_provenance.                    *)

\* _validate_historical_session_plan: the archived policy and capability plan, the archived
\* prompt and the prefix lead to the same plan.
PlanHolds(s, g) == gens[g].plan = Plan(s, g, gens[g].policy, gens[g].caps)

\* _validate_authoritative_provenance
StartHolds(g) ==
    LET s == Before(gens[g].started)
    IN /\ gens[g].plan.requested = gens[g].prompt.mode
       /\ JournalTakesContext(gens[g].context, s, g)
       /\ gens[g].context = ParentContext(s, g)
       /\ PlanHolds(s, g)

\* Mutation: the session a capability fallback may observe is forgotten.
ThreadHoldsStrictly(s, g) ==
    LET thread == gens[g].result.thread
    IN gens[g].status = "COMPLETED" =>
        /\ thread # 0
        /\ IF gens[g].plan.mode = "reuse" THEN thread = gens[g].plan.thread ELSE thread \notin Known(s)

\* _validate_historical_thread; what an interruption observed is evidence, not a claim.
ThreadHolds(s, g) ==
    LET thread == gens[g].result.thread
    IN gens[g].status = "COMPLETED" =>
        /\ thread # 0
        /\ IF gens[g].plan.mode = "reuse" THEN thread = gens[g].plan.thread
           ELSE thread \notin Known(s) \/ gens[g].plan.fallback = "REUSE_CAPABILITIES_INCOMPATIBLE"

EndHolds(g) ==
    LET s == Before(gens[g].ended) IN PlanHolds(s, g) /\ ThreadHolds(s, g)

HistoryHolds ==
    \A g \in Gens :
        /\ gens[g].started # 0 /\ Owned(gens[g]) => StartHolds(g)
        /\ gens[g].ended # 0 /\ Owned(gens[g]) => EndHolds(g)

\* What every command checks before it does anything.
Preflight == stuck = 0 /\ HistoryHolds

-----------------------------------------------------------------------------
(* Before a run: ingest, cancel, checkpoint.                               *)

\* What prompt_create writes and parse_prompt accepts: a checkpoint is fresh, a reuse prompt names
\* an execution, one that has run or (0) one nobody knows.
Candidates ==
    {[action |-> a, mode |-> "fresh", target |-> 0] : a \in Actions} \cup
    {[action |-> a, mode |-> "reuse", target |-> t] :
        a \in Actions \ {"checkpoint"}, t \in {0} \cup {g \in Gens : Owned(gens[g])}}

Accept(p) ==
    /\ Len(gens) < MaxGen
    /\ gens' = Append(gens, Record(p))
    /\ UNCHANGED <<now, live, stuck>>

\* A journaled event about g that turns its record into r.
Journal(g, r) == now' = now + 1 /\ gens' = [gens EXCEPT ![g] = r]

Ended(g, status, result) ==
    Journal(g, [gens[g] EXCEPT !.status = status, !.result = result, !.ended = now + 1])

Cancel(g) ==
    /\ gens[g].status = "ACCEPTED"
    /\ Ended(g, "CANCELLED", NoResult)
    /\ UNCHANGED <<live, stuck>>

\* A checkpoint owns no execution; its result is the commit.  Its own steps are AtlasWorkflow's.
Checkpoint(g) ==
    /\ gens[g].status = "ACCEPTED" /\ gens[g].prompt.action = "checkpoint"
    /\ \A h \in Gens : gens[h].status # "RUNNING"
    /\ Ended(g, "COMPLETED", [NoResult EXCEPT !.claim = TRUE])
    /\ UNCHANGED <<live, stuck>>

-----------------------------------------------------------------------------
(* The start: execute, and start_run for a launcher.                       *)

\* _record and _admit_run_start
Admits(g) == gens[g].status = "ACCEPTED" /\ \A h \in Gens : gens[h].status # "RUNNING"

\* resolve_policy has a profile for the prompt, and it is not the manual one
\* (SESSION_MODE_FORBIDDEN, CHECKPOINT_MANUAL_REQUIRED).
Resolves(g, p) == gens[g].prompt.mode \in p.modes /\ gens[g].prompt.action # "checkpoint"

\* The owner RUN_STARTED records: the policy of the moment, archived, what the machine resolved
\* its needs to, and the plan that follows.
Start(g, p, c) ==
    /\ Admits(g)
    /\ Resolves(g, p)
    /\ LET plan == Plan(gens, g, p, c)
           context == ParentContext(gens, g)
       IN /\ plan # Refused
          /\ JournalTakesContext(context, gens, g)
          /\ Journal(g, [gens[g] EXCEPT !.status = "RUNNING", !.policy = p, !.caps = c, !.plan = plan,
                                        !.context = context, !.started = now + 1])

Execute(g, p, c) ==
    /\ Start(g, p, c)
    /\ live' = live \cup {g}
    /\ UNCHANGED stuck

\* A launcher brings its own execution identifier and publishes the report directory itself.  It
\* has no capability authority; a snapshot it supplies must be the one that is derived here.
StartRun(g, p) ==
    /\ Start(g, p, NoCaps)                              \* START_RUN_CAPABILITY_UNSUPPORTED
    /\ UNCHANGED <<live, stuck>>

-----------------------------------------------------------------------------
(* The end.                                                                *)

\* The sessions an executor or an operator can name: none, one that exists, a new one.
Sessions(g) == {0, g} \cup {gens[h].result.thread : h \in Gens}

\* _validate_observed_session, against the state execute read when the run started
Observes(g, thread) ==
    /\ thread # 0                                       \* FRESHNESS_UNVERIFIED, REUSE_THREAD_UNVERIFIED
    /\ IF gens[g].plan.mode = "reuse"
       THEN thread = gens[g].plan.thread                \* REUSE_THREAD_MISMATCH
       ELSE \/ thread \notin Known(Before(gens[g].started + 1))      \* FRESHNESS_VIOLATION
            \/ gens[g].plan.fallback = "REUSE_CAPABILITIES_INCOMPATIBLE"

\* interrupt_run keeps the result as evidence; of it, only the session is ever read again.  An
\* execute call still at work finds the run ended, and has nothing left to do.
Interrupt(g, result) ==
    /\ gens[g].status = "RUNNING"
    /\ Ended(g, "INTERRUPTED", [result EXCEPT !.outcome = "none", !.typed = FALSE])
    /\ live' = live \ {g}

\* complete_run: a run that touched what its action may not is interrupted with its result.
Complete(g, result) ==
    \/ gens[g].status = "RUNNING" /\ Ended(g, "COMPLETED", result) /\ live' = live \ {g}
    \/ Interrupt(g, result)                             \* REPOSITORY_POLICY_VIOLATION

\* The executor returns.  Only a successful run whose session, and model (OBSERVED_MODEL_MISMATCH),
\* are the planned ones is completed.
Return(g, thread, outcome, model, report) ==
    /\ g \in live
    /\ LET result == [thread |-> thread, outcome |-> outcome, claim |-> report, typed |-> FALSE]
       IN IF outcome = "success" /\ Observes(g, thread) /\ model
          THEN Complete(g, result) ELSE Interrupt(g, result)
    /\ UNCHANGED stuck

\* It raises, or the operator presses Ctrl-C: the run is interrupted without a result.
Raise(g, report) ==
    /\ g \in live
    /\ Interrupt(g, [NoResult EXCEPT !.claim = report])
    /\ UNCHANGED stuck

\* Its process dies, or every command refuses and nothing can be recorded.
Die(g) ==
    /\ g \in live
    /\ live' = live \ {g}
    /\ UNCHANGED <<gens, now, stuck>>

\* The interrupt-run command, with or without an execute call still at work.
OperatorInterrupts(g, report) ==
    /\ Interrupt(g, [NoResult EXCEPT !.claim = report])
    /\ UNCHANGED stuck

\* complete-run --result, which takes the result it is given: the identity and the input of the
\* execution are compared, the session is not.  For a resumed session the journal refuses the
\* terminal event after its transaction was prepared and the prompt moved.
OperatorCompletes(g, thread, outcome, report) ==
    /\ gens[g].status = "RUNNING"
    /\ LET result == [thread |-> thread, outcome |-> outcome, claim |-> report, typed |-> TRUE]
       IN IF gens[g].plan.mode = "reuse" /\ thread # gens[g].plan.thread
          THEN \/ Interrupt(g, result) /\ UNCHANGED stuck       \* REPOSITORY_POLICY_VIOLATION
               \/ stuck' = g /\ UNCHANGED <<gens, now, live>>
          ELSE Complete(g, result) /\ UNCHANGED stuck

\* Every command begins with _preflight, also the one that ends the run of an execute call.
Command ==
    \/ \E p \in Candidates : Accept(p)
    \/ \E g \in Gens :
        \/ Cancel(g) \/ Checkpoint(g)
        \/ \E p \in Policies : StartRun(g, p) \/ \E c \in Capabilities : Execute(g, p, c)
        \/ \E report \in Reports :
            \/ Raise(g, report) \/ OperatorInterrupts(g, report)
            \/ \E thread \in Sessions(g), outcome \in Outcomes :
                \/ OperatorCompletes(g, thread, outcome, report)
                \/ \E model \in BOOLEAN : Return(g, thread, outcome, model, report)

Next ==
    \/ Preflight /\ Command
    \/ \E g \in Gens : Die(g)

Spec == Init /\ [][Next]_vars
=============================================================================
