------------------------- MODULE SessionProperties -------------------------
(***************************************************************************)
(* What session reuse and the history of the sessions promise.             *)
(***************************************************************************)
EXTENDS SessionHistory

Statuses == {"ACCEPTED", "RUNNING", "COMPLETED", "INTERRUPTED", "CANCELLED"}
Modes == {"fresh", "reuse"}

\* The shape of the history: every record is one the events can produce, the clocks of its
\* events are in the past, and a run that is at work has started.
TypeOK ==
    /\ now \in Nat /\ stuck \in 0..Len(gens) /\ live \subseteq Gens
    /\ gens \in Seq([
            prompt : [action : Actions, mode : Modes, target : Ids],
            status : Statuses,
            policy : Policies \cup {Unset}, caps : Capabilities,
            plan : [requested : Modes \cup {"none"}, mode : Modes \cup {"none"}, from : Ids,
                    thread : Ids, depth : Ids, fallback : SafeReuseFallbacks \cup {"none"}],
            context : [kind : {"unset", "none", "checkpoint", "execution"}, gen : Ids,
                       status : Statuses \cup {"none"}, exec : Ids, thread : Ids, claim : BOOLEAN],
            result : [thread : Ids, outcome : Outcomes \cup {"none"}, claim : BOOLEAN, typed : BOOLEAN],
            started : 0..now, ended : 0..now])
    /\ Len(gens) <= MaxGen
    /\ \A g \in live : gens[g].status = "RUNNING"

\* What was live when it was journaled is accepted when it is replayed: no run that Atlas itself
\* started and ended makes a later command refuse.  Only a result the operator typed can.
RefusedOnlyAfterTyping ==
    Preflight \/ stuck # 0 \/ \E g \in Gens : gens[g].result.typed

\* What execute tells the executor about the parent is what the journal accepts at that point:
\* no generation that may run is refused for its parent's sake, whatever became of the parent.
ContextsAgree ==
    \A g \in Gens : Admits(g) => JournalTakesContext(ParentContext(gens, g), gens, g)

\* How many runs are really behind g in its chain, whatever its record says.
Behind ==
    LET behind[g \in Gens] == IF gens[g].plan.from = 0 THEN 0 ELSE 1 + behind[gens[g].plan.from]
    IN behind

\* A resumed session is the one its chain began with, under the settings and capabilities it began
\* with, and the chain is as long as recorded and no longer than the policy of the day allowed.
ChainsAreReal ==
    \A g \in Gens : gens[g].plan.mode = "reuse" =>
        LET f == gens[g].plan.from
        IN /\ f \in 1..(g - 1) /\ Succeeded(gens[f])
           /\ gens[g].plan.thread = gens[f].result.thread
           /\ gens[g].caps = gens[f].caps /\ gens[g].policy.kind = gens[f].policy.kind
           /\ gens[g].plan.depth = Behind[g] /\ Behind[g] <= gens[g].policy.hops

\* Two runs that Atlas completed share a session only if the later of them resumed it, or was
\* allowed to meet it because its capabilities had changed.
FreshIsNew ==
    \A g, h \in Gens :
        /\ gens[g].status = "COMPLETED" /\ Owned(gens[g]) /\ ~gens[g].result.typed
        /\ h # g /\ gens[h].ended \in 1..(gens[g].ended - 1) /\ Owned(gens[h])
        /\ gens[h].result.thread = gens[g].result.thread
        => \/ gens[g].plan.mode = "reuse"
           \/ gens[g].plan.fallback = "REUSE_CAPABILITIES_INCOMPATIBLE"

\* The runs form chains: each continues a run that ended well, and none is continued twice,
\* although prompts may name one target several times and run in another order.
Chains ==
    INSTANCE ThreadChains WITH
        Runs <- 1..MaxGen,
        state <- [g \in 1..MaxGen |->
                    CASE g \notin Gens -> "none"
                      [] g \in Gens /\ ~Owned(gens[g]) -> "none"
                      [] g \in Gens /\ Owned(gens[g]) /\ gens[g].status = "RUNNING" -> "open"
                      [] g \in Gens /\ Owned(gens[g]) /\ Succeeded(gens[g]) -> "good"
                      [] OTHER -> "bad"],
        from <- [g \in 1..MaxGen |-> IF g \in Gens THEN gens[g].plan.from ELSE 0]
ImplementsThreadChains == Chains!Spec

\* tools/atlas_agent/workflow.py: "Integrity of the later thread lineage is authoritative over
\* every ordinary stale/policy fallback decision".  No run would fall back to a fresh session while
\* the lineage it was to continue is tainted.
TaintIsNotHidden ==
    \A g \in Gens : gens[g].plan.fallback # "none" =>
        ~Tainted(Before(gens[g].started), g, gens[g].prompt.target)
=============================================================================
