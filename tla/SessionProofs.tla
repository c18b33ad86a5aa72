--------------------------- MODULE SessionProofs ---------------------------
(***************************************************************************)
(* What the history of the sessions guarantees, for any number of          *)
(* generations, policies and capability plans.                             *)
(***************************************************************************)
EXTENDS SessionProperties, TLAPS, WellFoundedInduction

-----------------------------------------------------------------------------
(* Induction over generations: a set of numbers has a smallest one.        *)

LEMMA Least ==
    ASSUME NEW S \in SUBSET Nat, S # {}
    PROVE  \E n \in S : \A m \in S : n <= m
  <1> DEFINE R == OpToRel(<, Nat)
  <1>1. \A m, n \in Nat : <<m, n>> \in R <=> m < n BY DEF OpToRel
  <1>2. IsWellFoundedOn(R, Nat) BY NatLessThanWellFounded
  <1> HIDE DEF R
  <1>3. PICK n \in S : \A m \in S : ~ (<<m, n>> \in R) BY <1>2, WFMin
  <1>4. ASSUME NEW m \in S PROVE n <= m
    <2>1. m \in Nat /\ n \in Nat OBVIOUS
    <2>2. ~(m < n) BY <1>1, <1>3, <2>1
    <2> QED BY <2>1, <2>2
  <1> QED BY <1>4

\* The depth of a lineage does what its recursive definition says: an authorised edge leads
\* to an earlier generation.
DepthBody(s, d, g) ==
    IF s[g].plan.mode # "reuse" THEN 0
    ELSE IF ~EdgeOK(s, g) \/ d[s[g].plan.from] = -1 THEN -1
    ELSE 1 + d[s[g].plan.from]

LEMMA BodyLocal ==
    ASSUME NEW s, NEW d, NEW e, NEW g, NEW n \in Nat, DOMAIN s = 1..n, g \in 1..n,
           \A h \in 1..(g - 1) : d[h] = e[h]
    PROVE  DepthBody(s, d, g) = DepthBody(s, e, g)
  <1>1. CASE EdgeOK(s, g)
    <2>1. s[g].plan.from \in 1..(g - 1) BY <1>1 DEF EdgeOK
    <2> QED BY <2>1 DEF DepthBody
  <1>2. CASE ~EdgeOK(s, g) BY <1>2 DEF DepthBody
  <1> QED BY <1>1, <1>2

LEMMA DepthExists ==
    ASSUME NEW s, NEW n \in Nat, DOMAIN s = 1..n
    PROVE  \E d : d = [g \in 1..n |-> DepthBody(s, d, g)]
  <1> DEFINE Good(m) == \E d : d = [g \in 1..m |-> DepthBody(s, d, g)]
             S == {m \in 0..n : ~ Good(m)}
  <1>1. Good(0)
    <2>1. \A d : [g \in 1..0 |-> DepthBody(s, d, g)] = [g \in {} |-> 0] OBVIOUS
    <2> QED BY <2>1
  <1>2. ASSUME NEW m \in 1..n, Good(m - 1) PROVE Good(m)
    <2>1. PICK d : d = [g \in 1..(m - 1) |-> DepthBody(s, d, g)] BY <1>2
    <2> DEFINE e == [g \in 1..m |-> DepthBody(s, d, g)]
    <2>2. \A g \in 1..(m - 1) : e[g] = d[g] BY <2>1
    <2>3. \A g \in 1..m : e[g] = DepthBody(s, d, g) OBVIOUS
    <2>4. e = [g \in 1..m |-> e[g]] OBVIOUS
    <2> HIDE DEF e
    <2>5. ASSUME NEW g \in 1..m PROVE e[g] = DepthBody(s, e, g)
      <3>1. \A h \in 1..(g - 1) : d[h] = e[h] BY <2>2
      <3>2. g \in 1..n OBVIOUS
      <3>3. DepthBody(s, d, g) = DepthBody(s, e, g) BY <3>1, <3>2, BodyLocal
      <3> QED BY <2>3, <3>3
    <2>6. e = [g \in 1..m |-> DepthBody(s, e, g)] BY <2>5, <2>4
    <2> QED BY <2>6
  <1> HIDE DEF Good
  <1>3. ASSUME S # {} PROVE FALSE
    <2>1. PICK m \in S : \A k \in S : m <= k
      <3>1. S \in SUBSET Nat OBVIOUS
      <3> HIDE DEF S
      <3> QED BY <1>3, <3>1, Least
    <2>2. m # 0 BY <1>1
    <2>3. m - 1 \notin S BY <2>1
    <2>4. Good(m - 1) BY <2>2, <2>3
    <2> QED BY <1>2, <2>2, <2>4
  <1>4. Good(n) BY <1>3
  <1> QED BY <1>4 DEF Good

LEMMA DepthUnfolds ==
    ASSUME NEW s, NEW n \in Nat, DOMAIN s = 1..n, NEW g \in 1..n
    PROVE  LineageDepth(s)[g] = DepthBody(s, LineageDepth(s), g)
  <1> DEFINE D == CHOOSE d : d = [h \in 1..n |-> DepthBody(s, d, h)]
  <1>1. D = [h \in 1..n |-> DepthBody(s, D, h)] BY DepthExists
  <1>2. LineageDepth(s) = D BY DEF LineageDepth, DepthBody
  <1> HIDE DEF D
  <1>3. D[g] = DepthBody(s, D, g) BY <1>1
  <1> QED BY <1>2, <1>3

-----------------------------------------------------------------------------
(* The invariants.                                                         *)

Prompts == [action : Actions, mode : Modes, target : Ids]
Plans == [requested : Modes \cup {"none"}, mode : Modes \cup {"none"}, from : Ids,
          thread : Ids, depth : Ids, fallback : SafeReuseFallbacks \cup {"none"}]
Contexts == [kind : {"unset", "none", "checkpoint", "execution"}, gen : Ids,
             status : Statuses \cup {"none"}, exec : Ids, thread : Ids, claim : BOOLEAN]
Results == [thread : Ids, outcome : Outcomes \cup {"none"}, claim : BOOLEAN, typed : BOOLEAN]
Records == [prompt : Prompts, status : Statuses, policy : Policies \cup {Unset},
            caps : Capabilities, plan : Plans, context : Contexts, result : Results,
            started : Nat, ended : Nat]

Typed ==
    /\ now \in Nat /\ gens \in Seq(Records) /\ Len(gens) <= MaxGen
    /\ stuck \in 0..Len(gens)
    /\ \A g \in live : g \in Gens /\ gens[g].status = "RUNNING"

\* How far the life of a generation has come is told by its status, its owner and its clocks alike.
Stage(r) ==
    /\ r.status = "ACCEPTED" => r = Record(r.prompt)
    /\ r.status = "CANCELLED" => ~Owned(r) /\ r.result = NoResult
    /\ r.status = "RUNNING" => Owned(r) /\ r.ended = 0 /\ r.result = NoResult
    /\ r.status \notin {"ACCEPTED", "RUNNING"} => r.ended \in 1..now
    /\ ~Owned(r) => r.started = 0 /\ r.result.thread = 0
    /\ Owned(r) => /\ r.status \in {"RUNNING", "COMPLETED", "INTERRUPTED"}
                   /\ r.prompt.action # "checkpoint" /\ r.policy \in Policies
                   /\ r.started \in 1..now /\ r.ended \in {0} \cup ((r.started + 1)..now)

\* A plan either opens a session or resumes that of the run its prompt names.
Planned(g) ==
    LET q == gens[g].plan
    IN \/ q = Nothing
       \/ /\ q.mode = "fresh" /\ q.from = 0 /\ q.thread = 0 /\ q.depth = 0
          /\ q.requested = gens[g].prompt.mode
       \/ /\ q.mode = "reuse" /\ q.requested = "reuse" /\ gens[g].prompt.mode = "reuse"
          /\ q.fallback = "none" /\ q.thread # 0
          /\ q.from = gens[g].prompt.target /\ q.from # 0

\* What a resuming run found at the run it resumed is still there.
Resumed(g) ==
    LET f == gens[g].plan.from
    IN gens[g].plan.mode = "reuse" =>
        /\ Owned(gens[f]) /\ Succeeded(gens[f]) /\ gens[f].ended < gens[g].started
        /\ gens[g].plan.thread = gens[f].result.thread
        /\ gens[g].caps = gens[f].caps /\ gens[g].policy.kind = gens[f].policy.kind
        /\ gens[g].plan.depth = gens[f].plan.depth + 1
        /\ gens[g].plan.depth <= gens[g].policy.hops

Shaped ==
    \A g \in Gens :
        /\ gens[g].prompt.target < g /\ gens[g].plan.depth < g
        /\ Stage(gens[g]) /\ Planned(g) /\ Resumed(g)

\* One run after the other, in whatever order of their generations.
Serial ==
    \A g, h \in Gens : g # h /\ Owned(gens[g]) /\ Owned(gens[h]) =>
        \/ gens[g].ended # 0 /\ gens[g].ended < gens[h].started
        \/ gens[h].ended # 0 /\ gens[h].ended < gens[g].started

\* No run is continued twice.
Once ==
    \A g, h \in Gens : g # h /\ gens[g].plan.mode = "reuse" => gens[g].plan.from # gens[h].plan.from

Lived == Typed /\ Shaped /\ Serial /\ Once

LEMMA LivedTypes == Lived => TypeOK
  <1> SUFFICES ASSUME Lived PROVE TypeOK
    OBVIOUS
  <1> DEFINE Timely == [
            prompt : [action : Actions, mode : Modes, target : Ids],
            status : Statuses,
            policy : Policies \cup {Unset}, caps : Capabilities,
            plan : [requested : Modes \cup {"none"}, mode : Modes \cup {"none"}, from : Ids,
                    thread : Ids, depth : Ids, fallback : SafeReuseFallbacks \cup {"none"}],
            context : [kind : {"unset", "none", "checkpoint", "execution"}, gen : Ids,
                       status : Statuses \cup {"none"}, exec : Ids, thread : Ids, claim : BOOLEAN],
            result : [thread : Ids, outcome : Outcomes \cup {"none"}, claim : BOOLEAN, typed : BOOLEAN],
            started : 0..now, ended : 0..now]
  <1>1. ASSUME NEW g \in Gens PROVE gens[g] \in Timely
    <2>1. gens[g] \in Records BY DEF Lived, Typed, Gens
    <2>2. Stage(gens[g]) /\ now \in Nat BY DEF Lived, Shaped, Typed
    <2>3. gens[g].started \in 0..now /\ gens[g].ended \in 0..now
      BY <2>1, <2>2 DEF Stage, Record, Records, Statuses
    <2> QED BY <2>1, <2>3 DEF Records, Prompts, Plans, Contexts, Results
  <1> HIDE DEF Timely
  <1>2. gens \in Seq(Timely)
    <2>1. Len(gens) \in Nat /\ gens \in [1..Len(gens) -> Timely]
      BY <1>1 DEF Lived, Typed, Gens
    <2> QED BY <2>1
  <1> QED BY <1>2 DEF Timely, TypeOK, Lived, Typed, Gens

-----------------------------------------------------------------------------
(* Lineages.                                                               *)

LEMMA Bounds ==
    ASSUME Lived
    PROVE  /\ Gens = 1..Len(gens) /\ Len(gens) \in Nat /\ Len(gens) <= MaxGen /\ MaxGen \in Nat
           /\ now \in Nat /\ \A g \in Gens : gens[g] \in Records
  BY Constants DEF Lived, Typed, Gens

\* Every edge of a recorded lineage is an authorised one.
LEMMA EdgesHold ==
    ASSUME Lived, NEW g \in Gens, gens[g].plan.mode = "reuse"
    PROVE  gens[g].plan.from \in 1..(g - 1) /\ gens[g].plan.from \in Gens /\ EdgeOK(gens, g)
  <1>1. Planned(g) /\ Resumed(g) /\ gens[g].prompt.target < g BY DEF Lived, Shaped
  <1>2. gens[g].plan # Nothing BY DEF Nothing
  <1>3. gens[g].plan.from = gens[g].prompt.target /\ gens[g].plan.from # 0
        /\ gens[g].prompt.mode = "reuse"
    BY <1>1, <1>2 DEF Planned
  <1>4. gens[g].plan.from \in Nat
    BY Bounds, <1>1 DEF Records, Plans, Ids
  <1>5. gens[g].plan.from \in 1..(g - 1) /\ gens[g].plan.from \in Gens
    BY Bounds, <1>1, <1>3, <1>4
  <1> QED BY <1>1, <1>3, <1>5 DEF EdgeOK, Resumed, Gens

\* The depth a plan recorded is the depth of its lineage.
LEMMA DepthRecorded ==
    ASSUME Lived, NEW g \in Gens
    PROVE  LineageDepth(gens)[g] = gens[g].plan.depth
  <1> DEFINE S == {h \in Gens : LineageDepth(gens)[h] # gens[h].plan.depth}
  <1>1. ASSUME S # {} PROVE FALSE
    <2>1. PICK h \in S : \A k \in S : h <= k
      <3>1. S \in SUBSET Nat BY Bounds
      <3> HIDE DEF S
      <3> QED BY <1>1, <3>1, Least
    <2>2. h \in Gens /\ LineageDepth(gens)[h] # gens[h].plan.depth OBVIOUS
    <2>3. LineageDepth(gens)[h] = DepthBody(gens, LineageDepth(gens), h)
      BY <2>2, Bounds, DepthUnfolds DEF Gens
    <2>4. Planned(h) /\ Resumed(h) BY <2>2 DEF Lived, Shaped
    <2>5. CASE gens[h].plan.mode # "reuse"
      BY <2>2, <2>3, <2>4, <2>5 DEF DepthBody, Planned, Nothing
    <2>6. CASE gens[h].plan.mode = "reuse"
      <3> DEFINE f == gens[h].plan.from
      <3>1. f \in 1..(h - 1) /\ f \in Gens /\ EdgeOK(gens, h) BY <2>2, <2>6, EdgesHold
      <3>2. f \notin S BY <2>1, <2>2, <3>1, Bounds
      <3>3. LineageDepth(gens)[f] = gens[f].plan.depth BY <3>1, <3>2
      <3>4. gens[f].plan.depth \in Nat
        BY <3>1, Bounds DEF Records, Plans, Ids
      <3>5. DepthBody(gens, LineageDepth(gens), h) = 1 + gens[f].plan.depth
        BY <2>6, <3>1, <3>3, <3>4 DEF DepthBody
      <3>6. gens[h].plan.depth = gens[f].plan.depth + 1 BY <2>4, <2>6 DEF Resumed
      <3> QED BY <2>2, <2>3, <3>4, <3>5, <3>6
    <2> QED BY <2>5, <2>6
  <1> QED BY <1>1

\* A plan that is not refused either opens a session or continues the run the prompt names, which
\* ended well and which no other run continues.
LEMMA PlanMakes ==
    ASSUME Lived, NEW g \in Gens, gens[g].status = "ACCEPTED", NEW p \in Policies,
           NEW c \in Capabilities, Plan(gens, g, p, c) # Refused
    PROVE  LET q == Plan(gens, g, p, c)
               t == gens[g].prompt.target
           IN  /\ q \in Plans /\ q # Nothing /\ q.depth < g /\ q.requested = gens[g].prompt.mode
               /\ \/ q.mode = "fresh" /\ q.from = 0 /\ q.thread = 0 /\ q.depth = 0
                  \/ /\ q.mode = "reuse" /\ gens[g].prompt.mode = "reuse" /\ q.fallback = "none"
                     /\ q.from = t /\ t \in 1..(g - 1) /\ t \in Gens
                     /\ Owned(gens[t]) /\ Succeeded(gens[t]) /\ gens[t].ended \in 1..now
                     /\ q.thread = gens[t].result.thread /\ q.thread # 0
                     /\ gens[t].caps = c /\ gens[t].policy.kind = p.kind
                     /\ q.depth = gens[t].plan.depth + 1 /\ q.depth <= p.hops
                     /\ \A h \in Gens : gens[h].plan.mode = "reuse" => gens[h].plan.from # t
  <1> DEFINE q == Plan(gens, g, p, c)
             t == gens[g].prompt.target
             v == ReuseVerdict(gens, g, p, c)
  <1>0. /\ gens[g].prompt.mode \in Modes /\ t \in Nat /\ t < g /\ g \in Nat /\ g <= MaxGen
        /\ MaxGen \in Nat /\ g >= 1
    BY Bounds DEF Lived, Shaped, Records, Prompts, Ids
  <1>4. ASSUME NEW m \in Modes, NEW why \in SafeReuseFallbacks \cup {"none"}
        PROVE  LET o == FreshPlan(m, why)
               IN  /\ o \in Plans /\ o # Nothing /\ o.mode = "fresh" /\ o.from = 0
                   /\ o.thread = 0 /\ o.depth = 0 /\ o.requested = m
    <2> DEFINE o == FreshPlan(m, why)
    <2>1. Nothing \in Plans BY <1>0 DEF Nothing, Plans, Ids
    <2>2. o \in Plans BY <2>1 DEF FreshPlan, Plans, Modes
    <2>3. /\ o.mode = "fresh" /\ o.from = 0 /\ o.thread = 0 /\ o.depth = 0 /\ o.requested = m
      BY DEF FreshPlan, Nothing
    <2>4. Nothing.mode = "none" BY DEF Nothing
    <2> HIDE DEF o
    <2>5. o # Nothing BY <2>3, <2>4
    <2> QED BY <2>2, <2>3, <2>5 DEF o
  <1>1. CASE gens[g].prompt.mode = "fresh"
    <2>1. q = FreshPlan("fresh", "none") BY <1>1 DEF Plan
    <2> QED BY <1>0, <1>1, <1>4, <2>1 DEF Modes
  <1>2. CASE gens[g].prompt.mode = "reuse" /\ v \in SafeReuseFallbacks
    <2>1. v # "resume" BY <1>2 DEF SafeReuseFallbacks
    <2> HIDE DEF v
    <2>2. q = FreshPlan("reuse", v) BY <1>2, <2>1 DEF Plan, v
    <2> QED BY <1>0, <1>2, <1>4, <2>2 DEF Modes
  <1>3. CASE gens[g].prompt.mode = "reuse" /\ v \notin SafeReuseFallbacks
    <2>1. v = "resume" BY <1>3 DEF Plan
    <2>2. /\ t \in DOMAIN gens /\ Owned(gens[t]) /\ gens[t].result.thread # 0 /\ gens[t].caps = c
          /\ ~Advanced(gens, g, t) /\ Succeeded(gens[t]) /\ Compatible(gens[t].policy, p)
          /\ ~(LineageDepth(gens)[t] + 1 > p.hops)
      BY <2>1 DEF ReuseVerdict
    <2>3. t \in Gens /\ t \in 1..(g - 1) BY <1>0, <2>2, Bounds DEF Gens
    <2>4. LineageDepth(gens)[t] = gens[t].plan.depth BY <2>3, DepthRecorded
    <2>5. /\ gens[t].plan.depth \in Nat /\ gens[t].plan.depth < t /\ gens[t].result.thread \in Ids
          /\ gens[t].ended \in 1..now
      <3>1. Stage(gens[t]) /\ gens[t].plan.depth < t BY <2>3 DEF Lived, Shaped
      <3>2. gens[t] \in Records BY <2>3, Bounds
      <3>3. gens[t].plan.depth \in Nat /\ gens[t].result.thread \in Ids
        BY <3>2 DEF Records, Plans, Results, Ids
      <3>4. gens[t].ended \in 1..now BY <2>2, <3>1 DEF Stage, Succeeded
      <3> QED BY <3>1, <3>3, <3>4
    <2>6. p.hops \in Nat BY Constants
    <2>7. q = [requested |-> "reuse", mode |-> "reuse", from |-> t,
               thread |-> gens[t].result.thread, depth |-> gens[t].plan.depth + 1,
               fallback |-> "none"]
      BY <1>3, <2>1, <2>4 DEF Plan
    <2>8. q \in Plans /\ q # Nothing
      BY <1>0, <2>3, <2>5, <2>7 DEF Plans, Modes, Ids, Nothing
    <2>9. ASSUME NEW h \in Gens, gens[h].plan.mode = "reuse", gens[h].plan.from = t
          PROVE  FALSE
      <3>1. h > t BY <2>9, EdgesHold, Bounds
      <3>2. h # g
        <4>1. gens[g] = Record(gens[g].prompt) BY DEF Lived, Shaped, Stage
        <4>2. gens[g].plan.mode = "none" BY <4>1 DEF Record, Nothing
        <4> QED BY <2>9, <4>2
      <3>3. Owned(gens[h]) BY <2>9 DEF Owned, Nothing
      <3>4. gens[h].plan.thread = gens[t].result.thread BY <2>9 DEF Lived, Shaped, Resumed
      <3>5. h \in Later(gens, g, t) BY <3>1, <3>2, <3>3 DEF Later, Gens
      <3> QED BY <2>2, <3>4, <3>5 DEF Advanced, Relevant
    <2>10. q.depth < g /\ q.depth <= p.hops BY <1>0, <2>2, <2>3, <2>4, <2>5, <2>6, <2>7
    <2>11. gens[t].policy.kind = p.kind BY <2>2 DEF Compatible
    <2>12. /\ q.mode = "reuse" /\ q.requested = "reuse" /\ q.fallback = "none" /\ q.from = t
           /\ q.thread = gens[t].result.thread /\ q.depth = gens[t].plan.depth + 1
      BY <2>7
    <2> HIDE DEF q, v, t
    <2> QED
      BY <1>3, <2>2, <2>3, <2>5, <2>8, <2>9, <2>10, <2>11, <2>12 DEF t, q
  <1> QED BY <1>0, <1>1, <1>2, <1>3 DEF Modes

-----------------------------------------------------------------------------
(* The steps.                                                              *)

\* A run ends; of what it observed, only a completion that Atlas made itself claims anything.
Ending(g, status, result) ==
    /\ gens[g].status = "RUNNING" /\ status \in {"COMPLETED", "INTERRUPTED"} /\ result \in Results
    /\ Ended(g, status, result)
    /\ status = "COMPLETED" /\ ~result.typed => Observes(g, result.thread)
    /\ live' = live \ {g} /\ stuck' = stuck

LEMMA StepCases ==
    ASSUME Lived, Next
    PROVE  \/ \E p \in Candidates : Accept(p)
           \/ \E g \in Gens : Cancel(g) \/ Checkpoint(g)
           \/ \E g \in Gens, p \in Policies, c \in Capabilities :
                 Start(g, p, c) /\ live' \in {live, live \cup {g}} /\ stuck' = stuck
           \/ \E g \in Gens, status \in {"COMPLETED", "INTERRUPTED"}, result \in Results :
                 Ending(g, status, result)
           \/ UNCHANGED <<gens, now>> /\ live' \subseteq live /\ stuck' \in {stuck} \cup Gens
  <1> DEFINE Ends == \E g \in Gens, status \in {"COMPLETED", "INTERRUPTED"}, result \in Results :
                        Ending(g, status, result)
  <1>1. ASSUME NEW g \in Gens, Die(g)
        PROVE  UNCHANGED <<gens, now>> /\ live' \subseteq live /\ stuck' \in {stuck} \cup Gens
    BY <1>1 DEF Die
  <1>2. ASSUME NEW g \in Gens, NEW result \in Results, Interrupt(g, result), stuck' = stuck
        PROVE  Ends
    <2> DEFINE kept == [result EXCEPT !.outcome = "none", !.typed = FALSE]
    <2>1. kept \in Results BY DEF Results
    <2> HIDE DEF kept
    <2>2. Interrupt(g, result) => gens[g].status = "RUNNING" /\ Ended(g, "INTERRUPTED", kept)
                                  /\ live' = live \ {g}
      BY DEF Interrupt, kept
    <2>3. Ending(g, "INTERRUPTED", kept) BY <1>2, <2>1, <2>2 DEF Ending
    <2> QED BY <2>1, <2>3
  <1>3. ASSUME NEW g \in Gens, NEW result \in Results, gens[g].status = "RUNNING",
               Complete(g, result), stuck' = stuck, result.typed \/ Observes(g, result.thread)
        PROVE  Ends
    <2>1. CASE Interrupt(g, result) BY <1>2, <1>3, <2>1
    <2>2. CASE Ended(g, "COMPLETED", result) /\ live' = live \ {g}
      <3>1. Ending(g, "COMPLETED", result) BY <1>3, <2>2 DEF Ending
      <3> QED BY <3>1
    <2> HIDE DEF Ends
    <2> QED BY <1>3, <2>1, <2>2 DEF Complete
  <1>4. ASSUME NEW g \in Gens, NEW report \in Reports
        PROVE  [NoResult EXCEPT !.claim = report] \in Results
    <2>1. NoResult \in Results /\ report \in BOOLEAN BY Bounds, Constants DEF NoResult, Results, Ids
    <2> QED BY <2>1 DEF Results
  <1>5. ASSUME NEW g \in Gens, NEW thread \in Sessions(g), NEW outcome \in Outcomes,
               NEW report \in Reports, NEW typed \in BOOLEAN
        PROVE  [thread |-> thread, outcome |-> outcome, claim |-> report, typed |-> typed] \in Results
    <2>1. report \in BOOLEAN BY Constants
    <2>2. thread \in Ids BY Bounds DEF Sessions, Ids, Records, Results
    <2> QED BY <2>1, <2>2 DEF Results
  <1>6. ASSUME NEW g \in Gens, NEW report \in Reports, Raise(g, report) \/ OperatorInterrupts(g, report)
        PROVE  Ends
    <2> DEFINE result == [NoResult EXCEPT !.claim = report]
    <2>1. result \in Results BY <1>4
    <2>2. Interrupt(g, result) /\ stuck' = stuck BY <1>6 DEF Raise, OperatorInterrupts
    <2> HIDE DEF result, Ends
    <2> QED BY <1>2, <2>1, <2>2
  <1>7. ASSUME NEW g \in Gens, NEW report \in Reports, NEW thread \in Sessions(g),
               NEW outcome \in Outcomes, NEW model \in BOOLEAN,
               Return(g, thread, outcome, model, report)
        PROVE  Ends
    <2> DEFINE result == [thread |-> thread, outcome |-> outcome, claim |-> report, typed |-> FALSE]
    <2>1. result \in Results BY <1>5
    <2>2. /\ IF outcome = "success" /\ Observes(g, thread) /\ model
             THEN Complete(g, result) ELSE Interrupt(g, result)
          /\ stuck' = stuck /\ g \in live
      BY <1>7 DEF Return
    <2>3. gens[g].status = "RUNNING" BY <2>2 DEF Lived, Typed
    <2>4. result.thread = thread OBVIOUS
    <2> HIDE DEF result, Ends
    <2> QED BY <1>2, <1>3, <2>1, <2>2, <2>3, <2>4
  <1>8. ASSUME NEW g \in Gens, NEW report \in Reports, NEW thread \in Sessions(g),
               NEW outcome \in Outcomes, OperatorCompletes(g, thread, outcome, report)
        PROVE  \/ Ends
               \/ UNCHANGED <<gens, now>> /\ live' \subseteq live /\ stuck' \in {stuck} \cup Gens
    <2> DEFINE result == [thread |-> thread, outcome |-> outcome, claim |-> report, typed |-> TRUE]
    <2>1. result \in Results /\ result.typed BY <1>5
    <2>2. /\ gens[g].status = "RUNNING"
          /\ \/ Interrupt(g, result) /\ UNCHANGED stuck
             \/ stuck' = g /\ UNCHANGED <<gens, now, live>>
             \/ Complete(g, result) /\ UNCHANGED stuck
      BY <1>8 DEF OperatorCompletes
    <2> HIDE DEF result, Ends
    <2> QED BY <1>2, <1>3, <2>1, <2>2
  <1>9. ASSUME NEW g \in Gens, NEW p \in Policies,
               StartRun(g, p) \/ \E c \in Capabilities : Execute(g, p, c)
        PROVE  \E c \in Capabilities :
                 Start(g, p, c) /\ live' \in {live, live \cup {g}} /\ stuck' = stuck
    BY <1>9, Constants DEF StartRun, Execute
  <1>10. CASE Preflight /\ Command
    <2> HIDE DEF Ends
    <2>1. \/ \E p \in Candidates : Accept(p)
          \/ \E g \in Gens :
                \/ Cancel(g) \/ Checkpoint(g)
                \/ \E p \in Policies : StartRun(g, p) \/ \E c \in Capabilities : Execute(g, p, c)
                \/ Ends
                \/ UNCHANGED <<gens, now>> /\ live' \subseteq live /\ stuck' \in {stuck} \cup Gens
      BY <1>6, <1>7, <1>8, <1>10 DEF Command
    <2> QED BY <1>9, <2>1 DEF Ends
  <1> QED BY <1>1, <1>10 DEF Next

\* What a journaled event about one generation changes.
LEMMA Journaled ==
    ASSUME Lived, NEW g \in Gens, NEW r \in Records, gens' = [gens EXCEPT ![g] = r]
    PROVE  /\ gens' \in Seq(Records) /\ Len(gens') = Len(gens) /\ Gens' = Gens
           /\ gens'[g] = r /\ \A h \in Gens : h # g => gens'[h] = gens[h]
  <1>1. gens \in [1..Len(gens) -> Records] /\ Len(gens) \in Nat BY DEF Lived, Typed
  <1>2. gens' \in [1..Len(gens) -> Records] BY <1>1
  <1>3. gens' \in Seq(Records) /\ Len(gens') = Len(gens) BY <1>1, <1>2
  <1> QED BY <1>1, <1>3 DEF Gens

\* An accepted prompt gets the next generation, and changes none before it.
LEMMA Accepted ==
    ASSUME Lived, NEW p \in Candidates, Accept(p)
    PROVE  /\ gens' \in Seq(Records) /\ Len(gens') = Len(gens) + 1 /\ Len(gens') <= MaxGen
           /\ Gens' = 1..(Len(gens) + 1) /\ gens'[Len(gens) + 1] = Record(p)
           /\ \A h \in Gens : gens'[h] = gens[h]
           /\ p.target \in 0..Len(gens) /\ Record(p) \in Records
  <1>1. p \in Prompts /\ p.target \in 0..Len(gens)
    BY Bounds, Constants DEF Candidates, Prompts, Modes, Ids
  <1>2. Record(p) \in Records
    BY <1>1, Bounds, Constants
       DEF Record, Records, Statuses, Nothing, NoContext, NoResult, Plans, Contexts, Results, Ids
  <1>3. gens \in Seq(Records) /\ gens' = Append(gens, Record(p)) /\ Len(gens) < MaxGen
    BY DEF Accept, Lived, Typed
  <1> HIDE DEF Records
  <1>4. gens' \in Seq(Records) /\ Len(gens') = Len(gens) + 1 BY <1>2, <1>3
  <1>5. Gens' = 1..(Len(gens) + 1) BY <1>4, Bounds DEF Gens
  <1>6. gens'[Len(gens) + 1] = Record(p) BY <1>2, <1>3
  <1>7. \A h \in Gens : gens'[h] = gens[h] BY <1>2, <1>3, Bounds
  <1>8. Len(gens') <= MaxGen BY <1>3, <1>4, Bounds
  <1> QED BY <1>1, <1>2, <1>4, <1>5, <1>6, <1>7, <1>8

-----------------------------------------------------------------------------
(* Every step keeps the life of the runs in order.                         *)

LEMMA LivedInit == Init => Lived
  BY Constants DEF Init, Lived, Typed, Shaped, Serial, Once, Gens

LEMMA LivedIdle ==
    ASSUME Lived, UNCHANGED <<gens, now>>, live' \subseteq live, stuck' \in {stuck} \cup Gens
    PROVE  Lived'
  <1>1. Gens' = Gens BY DEF Gens
  <1>2. Typed' BY <1>1, Bounds DEF Lived, Typed
  <1>3. Shaped' /\ Serial' /\ Once'
    BY <1>1 DEF Lived, Shaped, Serial, Once, Stage, Planned, Resumed
  <1> QED BY <1>2, <1>3 DEF Lived

LEMMA LivedAccept ==
    ASSUME Lived, NEW p \in Candidates, Accept(p)
    PROVE  Lived'
  <1> DEFINE n == Len(gens) + 1
  <1>1. /\ now' = now /\ live' = live /\ stuck' = stuck /\ n \in Nat /\ n \notin Gens /\ n \in Gens'
        /\ \A g \in Gens' : g = n \/ g \in Gens
        /\ gens'[n] = Record(p) /\ \A h \in Gens : gens'[h] = gens[h]
        /\ gens'[n].plan = Nothing /\ ~Owned(gens'[n]) /\ Gens \subseteq Gens'
    BY Accepted, Bounds DEF Accept, Record, Owned
  <1>2. Typed' BY <1>1, Accepted, Bounds DEF Lived, Typed
  <1>3. Shaped'
    <2> SUFFICES ASSUME NEW g \in Gens'
                 PROVE  /\ gens'[g].prompt.target < g /\ gens'[g].plan.depth < g
                        /\ Stage(gens[g])' /\ Planned(g)' /\ Resumed(g)'
      BY DEF Shaped
    <2>1. CASE g = n
      <3>1. /\ gens'[g].prompt = p /\ gens'[g].status = "ACCEPTED" /\ gens'[g] = Record(p)
            /\ gens'[g].plan = Nothing /\ gens'[g].started = 0 /\ gens'[g].result = NoResult
        BY <1>1, <2>1 DEF Record
      <3>2. Stage(gens[g])' BY <3>1, <1>1, <2>1 DEF Stage, NoResult, Owned
      <3> QED BY <3>1, <3>2, <2>1, <1>1, Accepted, Bounds DEF Planned, Resumed, Nothing
    <2>2. CASE g \in Gens
      <3>1. /\ gens[g].prompt.target < g /\ gens[g].plan.depth < g
            /\ Stage(gens[g]) /\ Planned(g) /\ Resumed(g)
        BY <2>2 DEF Lived, Shaped
      <3>2. gens[g].plan.mode = "reuse" => gens[g].plan.from \in Gens BY <2>2, EdgesHold
      <3> QED BY <1>1, <2>2, <3>1, <3>2 DEF Stage, Planned, Resumed
    <2> QED BY <1>1, <2>1, <2>2
  <1>4. Serial' BY <1>1 DEF Lived, Serial
  <1>5. Once' 
    <2> SUFFICES ASSUME NEW g \in Gens', NEW h \in Gens', g # h, gens'[g].plan.mode = "reuse"
                 PROVE  gens'[g].plan.from # gens'[h].plan.from
      BY DEF Once
    <2>1. g # n /\ g \in Gens BY <1>1 DEF Nothing
    <2>2. CASE h = n
      <3>1. gens'[h].plan.from = 0 BY <1>1, <2>2 DEF Nothing
      <3>2. gens[g].plan.from \in 1..(g - 1) BY <1>1, <2>1, EdgesHold
      <3>3. gens[g].plan.from # 0 BY <3>2, <2>1, Bounds
      <3> QED BY <1>1, <2>1, <3>1, <3>3
    <2>3. CASE h \in Gens BY <1>1, <2>1, <2>3 DEF Lived, Once
    <2> QED BY <1>1, <2>2, <2>3
  <1> QED BY <1>2, <1>3, <1>4, <1>5 DEF Lived

\* A generation nobody resumes, because it has not ended a run, may change.
LEMMA Unresumed ==
    ASSUME Lived, NEW g \in Gens, gens[g].status \in {"ACCEPTED", "RUNNING"}, NEW h \in Gens,
           gens[h].plan.mode = "reuse"
    PROVE  gens[h].plan.from # g
  BY DEF Lived, Shaped, Resumed, Succeeded

\* A step that journals an event about g and leaves its prompt and its plan.
LEMMA LivedKept ==
    ASSUME Lived, NEW g \in Gens, gens[g].status \in {"ACCEPTED", "RUNNING"},
           NEW r \in Records, gens' = [gens EXCEPT ![g] = r], now' = now + 1,
           r.prompt = gens[g].prompt, r.plan = gens[g].plan, r.policy = gens[g].policy,
           r.caps = gens[g].caps, r.started = gens[g].started, r.ended = now + 1,
           gens[g].ended = 0, r.status \notin {"ACCEPTED", "RUNNING"},
           r.status = "CANCELLED" => ~Owned(r) /\ r.result = NoResult,
           Owned(r) => r.status # "CANCELLED", ~Owned(r) => r.result.thread = 0,
           live' \subseteq live \ {g}, stuck' = stuck
    PROVE  Lived'
  <1>1. /\ gens' \in Seq(Records) /\ Len(gens') = Len(gens) /\ Gens' = Gens
        /\ gens'[g] = r /\ \A h \in Gens : h # g => gens'[h] = gens[h]
    BY Journaled
  <1>2. Typed' BY <1>1, Bounds DEF Lived, Typed
  <1>3. Shaped'
    <2> SUFFICES ASSUME NEW h \in Gens
                 PROVE  /\ gens'[h].prompt.target < h /\ gens'[h].plan.depth < h
                        /\ Stage(gens[h])' /\ Planned(h)' /\ Resumed(h)'
      BY <1>1 DEF Shaped
    <2>1. /\ gens[h].prompt.target < h /\ gens[h].plan.depth < h
          /\ Stage(gens[h]) /\ Planned(h) /\ Resumed(h)
      BY DEF Lived, Shaped
    <2>2. gens'[h].prompt = gens[h].prompt /\ gens'[h].plan = gens[h].plan
          /\ gens'[h].policy = gens[h].policy /\ gens'[h].caps = gens[h].caps
          /\ gens'[h].started = gens[h].started
      BY <1>1
    <2>3. Planned(h)' BY <2>1, <2>2 DEF Planned
    <2>4. Resumed(h)'
      <3> SUFFICES ASSUME gens[h].plan.mode = "reuse" PROVE Resumed(h)'
        BY <2>2 DEF Resumed
      <3>1. gens[h].plan.from \in Gens /\ gens[h].plan.from # g BY EdgesHold, Unresumed
      <3>2. gens'[gens[h].plan.from] = gens[gens[h].plan.from] BY <1>1, <3>1
      <3> QED BY <2>1, <2>2, <3>2 DEF Resumed
    <2>5. Stage(gens[h])'
      <3>1. CASE h = g
        <4>1. Stage(gens[g]) BY <2>1, <3>1
        <4>2. Owned(r) <=> Owned(gens[g]) BY DEF Owned
        <4>3. ~Owned(r) => r.started = 0 BY <4>1, <4>2 DEF Stage
        <4>4. Owned(r) => /\ r.status \in {"RUNNING", "COMPLETED", "INTERRUPTED"}
                          /\ r.prompt.action # "checkpoint" /\ r.policy \in Policies
                          /\ r.started \in 1..now
          BY <4>1, <4>2 DEF Stage, Records, Statuses
        <4>5. now + 1 \in 1..(now + 1) BY Bounds
        <4>6. Owned(r) => r.ended \in {0} \cup ((r.started + 1)..(now + 1)) /\ r.started \in 1..(now + 1)
          BY <4>4, Bounds
        <4> QED BY <1>1, <3>1, <4>3, <4>4, <4>5, <4>6 DEF Stage
      <3>2. CASE h # g
        BY <1>1, <2>1, <3>2, Bounds DEF Stage
      <3> QED BY <3>1, <3>2
    <2> QED BY <2>1, <2>2, <2>3, <2>4, <2>5
  <1>4. Serial'
    <2> SUFFICES ASSUME NEW x \in Gens, NEW y \in Gens, x # y, Owned(gens'[x]), Owned(gens'[y])
                 PROVE  \/ gens'[x].ended # 0 /\ gens'[x].ended < gens'[y].started
                        \/ gens'[y].ended # 0 /\ gens'[y].ended < gens'[x].started
      BY <1>1 DEF Serial
    <2>1. /\ \A h \in Gens : (Owned(gens'[h]) <=> Owned(gens[h])) /\ gens'[h].started = gens[h].started
          /\ \A h \in Gens : gens[h].ended # 0 => gens'[h].ended = gens[h].ended
      BY <1>1 DEF Owned
    <2> QED BY <2>1 DEF Lived, Serial
  <1>5. Once' BY <1>1 DEF Lived, Once
  <1> QED BY <1>2, <1>3, <1>4, <1>5 DEF Lived

After(x, status, result, k) == [x EXCEPT !.status = status, !.result = result, !.ended = k]

LEMMA Altered ==
    ASSUME NEW x \in Records, NEW status \in Statuses, NEW result \in Results, NEW k \in Nat
    PROVE  LET r == After(x, status, result, k)
           IN  /\ r \in Records /\ r.prompt = x.prompt /\ r.plan = x.plan /\ r.policy = x.policy
               /\ r.caps = x.caps /\ r.started = x.started /\ r.context = x.context
               /\ r.ended = k /\ r.status = status /\ r.result = result
  <1> DEFINE r == After(x, status, result, k)
  <1> USE DEF After
  <1>1. r \in Records BY DEF Records
  <1>2. /\ r.prompt = x.prompt /\ r.plan = x.plan /\ r.policy = x.policy
        /\ r.caps = x.caps /\ r.started = x.started /\ r.context = x.context
        /\ r.ended = k /\ r.status = status /\ r.result = result
    BY DEF Records
  <1> QED BY <1>1, <1>2

LEMMA LeaveEffect ==
    ASSUME Lived, NEW g \in Gens, Cancel(g) \/ Checkpoint(g)
    PROVE  \E r \in Records :
             /\ gens' = [gens EXCEPT ![g] = r] /\ now' = now + 1 /\ live' = live /\ stuck' = stuck
             /\ r.prompt = gens[g].prompt /\ r.plan = gens[g].plan /\ r.policy = gens[g].policy
             /\ r.caps = gens[g].caps /\ r.started = gens[g].started /\ r.ended = now + 1
             /\ r.status \in {"CANCELLED", "COMPLETED"} /\ r.result.thread = 0
             /\ r.status = "CANCELLED" => r.result = NoResult
             /\ ~Owned(r) /\ ~Owned(gens[g]) /\ gens[g].ended = 0 /\ gens[g].status = "ACCEPTED"
  <1>1. PICK status \in {"CANCELLED", "COMPLETED"}, result \in Results :
           /\ Ended(g, status, result) /\ result.thread = 0 /\ gens[g].status = "ACCEPTED"
           /\ status = "CANCELLED" => result = NoResult
           /\ live' = live /\ stuck' = stuck
    <2>1. NoResult \in Results /\ [NoResult EXCEPT !.claim = TRUE] \in Results
      <3>1. NoResult \in Results BY Bounds DEF NoResult, Results, Ids
      <3> QED BY <3>1 DEF Results
    <2>2. NoResult.thread = 0 /\ [NoResult EXCEPT !.claim = TRUE].thread = 0 BY DEF NoResult
    <2> QED BY <2>1, <2>2 DEF Cancel, Checkpoint
  <1> DEFINE r == After(gens[g], status, result, now + 1)
  <1>2. gens[g] \in Records /\ now \in Nat BY Bounds
  <1>3. /\ r \in Records /\ r.prompt = gens[g].prompt /\ r.plan = gens[g].plan
        /\ r.policy = gens[g].policy /\ r.caps = gens[g].caps /\ r.started = gens[g].started
        /\ r.ended = now + 1 /\ r.status = status /\ r.result = result
    BY <1>2, Altered DEF Statuses
  <1>4. gens' = [gens EXCEPT ![g] = r] /\ now' = now + 1 BY <1>1 DEF Ended, Journal, After
  <1>5. Stage(gens[g]) BY DEF Lived, Shaped
  <1>6. ~Owned(gens[g]) /\ gens[g].ended = 0 BY <1>1, <1>5 DEF Stage, Record, Owned
  <1> HIDE DEF r
  <1>7. ~Owned(r) BY <1>3, <1>6 DEF Owned
  <1> QED BY <1>1, <1>3, <1>4, <1>6, <1>7

LEMMA LivedLeave ==
    ASSUME Lived, NEW g \in Gens, Cancel(g) \/ Checkpoint(g)
    PROVE  Lived'
  <1>1. gens[g].status = "ACCEPTED" BY DEF Cancel, Checkpoint
  <1>2. live \subseteq live \ {g} BY <1>1 DEF Lived, Typed
  <1> QED BY <1>1, <1>2, LeaveEffect, LivedKept

LEMMA EndingEffect ==
    ASSUME Lived, NEW g \in Gens, NEW status \in {"COMPLETED", "INTERRUPTED"},
           NEW result \in Results, Ending(g, status, result)
    PROVE  LET r == After(gens[g], status, result, now + 1)
           IN  /\ r \in Records /\ r.prompt = gens[g].prompt /\ r.plan = gens[g].plan
               /\ r.policy = gens[g].policy /\ r.caps = gens[g].caps /\ r.started = gens[g].started
               /\ r.context = gens[g].context
               /\ r.ended = now + 1 /\ r.status = status /\ r.result = result
               /\ gens' = [gens EXCEPT ![g] = r] /\ now' = now + 1
               /\ Owned(gens[g]) /\ gens[g].ended = 0 /\ Owned(r)
  <1> DEFINE r == After(gens[g], status, result, now + 1)
  <1>1. gens[g] \in Records /\ now + 1 \in Nat /\ status \in Statuses BY Bounds DEF Statuses
  <1>2. /\ r \in Records /\ r.prompt = gens[g].prompt /\ r.plan = gens[g].plan
        /\ r.policy = gens[g].policy /\ r.caps = gens[g].caps /\ r.started = gens[g].started
        /\ r.ended = now + 1 /\ r.status = status /\ r.result = result
        /\ r.context = gens[g].context
    BY <1>1, Altered
  <1>3. gens' = [gens EXCEPT ![g] = r] /\ now' = now + 1 BY DEF Ending, Ended, Journal, After
  <1>4. Stage(gens[g]) BY DEF Lived, Shaped
  <1>5. Owned(gens[g]) /\ gens[g].ended = 0 BY <1>4 DEF Stage, Ending
  <1>6. Owned(r) BY <1>2, <1>5 DEF Owned
  <1> QED BY <1>2, <1>3, <1>5, <1>6

LEMMA LivedEnd ==
    ASSUME Lived, NEW g \in Gens, NEW status \in {"COMPLETED", "INTERRUPTED"},
           NEW result \in Results, Ending(g, status, result)
    PROVE  Lived'
  <1> DEFINE r == After(gens[g], status, result, now + 1)
  <1>1. /\ r \in Records /\ r.prompt = gens[g].prompt /\ r.plan = gens[g].plan
        /\ r.policy = gens[g].policy /\ r.caps = gens[g].caps /\ r.started = gens[g].started
        /\ r.ended = now + 1 /\ r.status = status /\ r.result = result
        /\ gens' = [gens EXCEPT ![g] = r] /\ now' = now + 1
        /\ Owned(gens[g]) /\ gens[g].ended = 0 /\ Owned(r)
    BY EndingEffect
  <1>2. /\ live' \subseteq live \ {g} /\ stuck' = stuck /\ status \in {"COMPLETED", "INTERRUPTED"}
        /\ gens[g].status = "RUNNING"
    BY DEF Ending
  <1> HIDE DEF r
  <1> QED BY <1>1, <1>2, LivedKept

Begun(x, p, c, plan, context, k) ==
    [x EXCEPT !.status = "RUNNING", !.policy = p, !.caps = c, !.plan = plan, !.context = context,
              !.started = k]

LEMMA BegunFields ==
    ASSUME NEW x \in Records, NEW p \in Policies, NEW c \in Capabilities, NEW plan \in Plans,
           NEW context \in Contexts, NEW k \in Nat
    PROVE  LET r == Begun(x, p, c, plan, context, k)
           IN  /\ r \in Records /\ r.prompt = x.prompt /\ r.plan = plan /\ r.policy = p
               /\ r.caps = c /\ r.started = k /\ r.context = context
               /\ r.ended = x.ended /\ r.status = "RUNNING" /\ r.result = x.result
  <1> DEFINE r == Begun(x, p, c, plan, context, k)
  <1> USE DEF Begun
  <1>1. r \in Records BY DEF Records, Statuses
  <1>2. /\ r.prompt = x.prompt /\ r.plan = plan /\ r.policy = p
        /\ r.caps = c /\ r.started = k /\ r.context = context
        /\ r.ended = x.ended /\ r.status = "RUNNING" /\ r.result = x.result
    BY DEF Records
  <1> QED BY <1>1, <1>2

LEMMA ContextType ==
    ASSUME Lived, NEW g \in Gens
    PROVE  ParentContext(gens, g) \in Contexts
  <1>1. CASE g = 1
    <2>1. NoContext \in Contexts BY Bounds DEF NoContext, Contexts, Ids
    <2> QED BY <1>1, <2>1 DEF ParentContext, Contexts
  <1>2. CASE g # 1
    <2>1. g - 1 \in Gens /\ g - 1 \in Ids /\ 0 \in Ids BY <1>2, Bounds DEF Ids
    <2> DEFINE parent == gens[g - 1]
               taken == parent.status \in {"COMPLETED", "INTERRUPTED"} /\ parent.result.claim
               kind == IF parent.prompt.action = "checkpoint" THEN "checkpoint" ELSE "execution"
    <2>2. parent \in Records BY <2>1, Bounds
    <2>3. /\ taken \in BOOLEAN /\ kind \in {"unset", "none", "checkpoint", "execution"}
          /\ parent.status \in Statuses \cup {"none"} /\ parent.result.thread \in Ids
      BY <2>2 DEF Records, Results
    <2>4. ParentContext(gens, g) =
            [kind |-> kind, gen |-> g - 1, status |-> parent.status,
             exec |-> IF Owned(parent) THEN g - 1 ELSE 0, thread |-> parent.result.thread,
             claim |-> taken]
      BY <1>2 DEF ParentContext
    <2> HIDE DEF parent, taken, kind
    <2> QED BY <2>1, <2>3, <2>4 DEF Contexts
  <1> QED BY <1>1, <1>2

LEMMA StartEffect ==
    ASSUME Lived, NEW g \in Gens, NEW p \in Policies, NEW c \in Capabilities, Start(g, p, c)
    PROVE  LET q == Plan(gens, g, p, c)
               r == Begun(gens[g], p, c, q, ParentContext(gens, g), now + 1)
           IN  /\ r \in Records /\ r.prompt = gens[g].prompt /\ r.plan = q /\ r.policy = p
               /\ r.caps = c /\ r.started = now + 1 /\ r.context = ParentContext(gens, g)
               /\ r.ended = 0 /\ r.status = "RUNNING" /\ r.result = NoResult
               /\ gens' = [gens EXCEPT ![g] = r] /\ now' = now + 1
               /\ gens[g].status = "ACCEPTED" /\ gens[g] = Record(gens[g].prompt)
               /\ gens[g].prompt.action # "checkpoint"
               /\ \A h \in Gens : gens[h].status # "RUNNING"
               /\ q # Refused /\ JournalTakesContext(ParentContext(gens, g), gens, g)
  <1> DEFINE q == Plan(gens, g, p, c)
             r == Begun(gens[g], p, c, q, ParentContext(gens, g), now + 1)
  <1>1. /\ gens[g].status = "ACCEPTED" /\ \A h \in Gens : gens[h].status # "RUNNING"
        /\ gens[g].prompt.action # "checkpoint" /\ q # Refused
        /\ gens' = [gens EXCEPT ![g] = r] /\ now' = now + 1
        /\ JournalTakesContext(ParentContext(gens, g), gens, g)
    BY DEF Start, Admits, Resolves, Journal, Begun
  <1>2. q \in Plans BY <1>1, PlanMakes
  <1>3. ParentContext(gens, g) \in Contexts BY ContextType
  <1>4. gens[g] \in Records /\ now + 1 \in Nat BY Bounds
  <1>5. gens[g] = Record(gens[g].prompt) BY <1>1 DEF Lived, Shaped, Stage
  <1>6. gens[g].ended = 0 /\ gens[g].result = NoResult
    <2> DEFINE x == gens[g].prompt
    <2>1. Record(x).ended = 0 /\ Record(x).result = NoResult BY DEF Record
    <2> QED BY <1>5, <2>1
  <1> HIDE DEF q
  <1>7. /\ r \in Records /\ r.prompt = gens[g].prompt /\ r.plan = q /\ r.policy = p
        /\ r.caps = c /\ r.started = now + 1 /\ r.context = ParentContext(gens, g)
        /\ r.ended = gens[g].ended /\ r.status = "RUNNING" /\ r.result = gens[g].result
    BY <1>2, <1>3, <1>4, BegunFields
  <1> HIDE DEF r
  <1> QED BY <1>1, <1>5, <1>6, <1>7 DEF q, r

LEMMA LivedStart ==
    ASSUME Lived, NEW g \in Gens, NEW p \in Policies, NEW c \in Capabilities, Start(g, p, c),
           live' \in {live, live \cup {g}}, stuck' = stuck
    PROVE  Lived'
  <1> DEFINE q == Plan(gens, g, p, c)
             r == Begun(gens[g], p, c, q, ParentContext(gens, g), now + 1)
             t == gens[g].prompt.target
  <1>1. /\ r \in Records /\ r.prompt = gens[g].prompt /\ r.plan = q /\ r.policy = p
        /\ r.caps = c /\ r.started = now + 1 /\ r.context = ParentContext(gens, g)
        /\ r.ended = 0 /\ r.status = "RUNNING" /\ r.result = NoResult
        /\ gens' = [gens EXCEPT ![g] = r] /\ now' = now + 1
        /\ gens[g].status = "ACCEPTED" /\ gens[g].prompt.action # "checkpoint"
        /\ \A h \in Gens : gens[h].status # "RUNNING"
        /\ q # Refused
    BY StartEffect
  <1>2. /\ q # Nothing /\ q.depth < g /\ q.requested = gens[g].prompt.mode
        /\ \/ q.mode = "fresh" /\ q.from = 0 /\ q.thread = 0 /\ q.depth = 0
           \/ /\ q.mode = "reuse" /\ gens[g].prompt.mode = "reuse" /\ q.fallback = "none"
              /\ q.from = t /\ t \in 1..(g - 1) /\ t \in Gens
              /\ Owned(gens[t]) /\ Succeeded(gens[t]) /\ gens[t].ended \in 1..now
              /\ q.thread = gens[t].result.thread /\ q.thread # 0
              /\ gens[t].caps = c /\ gens[t].policy.kind = p.kind
              /\ q.depth = gens[t].plan.depth + 1 /\ q.depth <= p.hops
              /\ \A h \in Gens : gens[h].plan.mode = "reuse" => gens[h].plan.from # t
    BY <1>1, PlanMakes
  <1> HIDE DEF q, r
  <1>3. /\ gens' \in Seq(Records) /\ Len(gens') = Len(gens) /\ Gens' = Gens
        /\ gens'[g] = r /\ \A h \in Gens : h # g => gens'[h] = gens[h]
    BY <1>1, Journaled
  <1>4. Typed' BY <1>1, <1>3, Bounds DEF Lived, Typed
  <1>5. \A h \in Gens : /\ gens[h].prompt.target < h /\ gens[h].plan.depth < h
                        /\ Stage(gens[h]) /\ Planned(h) /\ Resumed(h)
    BY DEF Lived, Shaped
  <1>6. gens[g] = Record(gens[g].prompt) /\ gens[g].plan = Nothing
    <2>1. gens[g] = Record(gens[g].prompt) BY <1>1, <1>5 DEF Stage
    <2> DEFINE x == gens[g].prompt
    <2>2. Record(x).plan = Nothing BY DEF Record
    <2> QED BY <2>1, <2>2
  <1>7. ASSUME NEW h \in Gens, h # g
        PROVE  Stage(gens[h])' /\ Planned(h)' /\ Resumed(h)'
    <2>1. Stage(gens[h])' BY <1>1, <1>3, <1>5, <1>7, Bounds DEF Stage
    <2>2. Planned(h)' BY <1>3, <1>5, <1>7 DEF Planned
    <2>3. gens[h].plan.mode = "reuse" => gens[h].plan.from \in Gens /\ gens[h].plan.from # g
      BY <1>1, EdgesHold, Unresumed
    <2>4. Resumed(h)' BY <1>3, <1>5, <1>7, <2>3 DEF Resumed
    <2> QED BY <2>1, <2>2, <2>4
  <1>8. Stage(gens[g])'
    <2>1. /\ gens'[g].status = "RUNNING" /\ gens'[g].ended = 0 /\ gens'[g].result = NoResult
          /\ gens'[g].policy = p /\ gens'[g].started = now + 1 /\ Owned(gens'[g])
          /\ gens'[g].prompt.action # "checkpoint"
      BY <1>1, <1>2, <1>3 DEF Owned
    <2> QED BY <1>1, <2>1, Bounds DEF Stage
  <1>9. Planned(g)'
    <2>1. CASE q.mode = "fresh" BY <1>1, <1>2, <1>3, <2>1 DEF Planned
    <2>2. CASE q.mode = "reuse"
      <3>1. q.from = t /\ t # 0 /\ q.thread # 0 /\ q.fallback = "none"
            /\ gens[g].prompt.mode = "reuse" /\ q.requested = "reuse"
        BY <1>2, <2>2, Bounds
      <3> QED BY <1>1, <1>3, <2>2, <3>1 DEF Planned
    <2> QED BY <1>2, <2>1, <2>2
  <1>10. Resumed(g)'
    <2> SUFFICES ASSUME q.mode = "reuse" PROVE Resumed(g)'
      BY <1>1, <1>3 DEF Resumed
    <2>1. t \in Gens /\ t # g BY <1>2, Bounds
    <2>2. gens'[t] = gens[t] BY <1>3, <2>1
    <2>3. gens[t].ended < now + 1 BY <1>2, Bounds
    <2>4. /\ gens'[g].plan.from = t /\ gens'[g].plan.thread = gens[t].result.thread
          /\ gens'[g].caps = c /\ gens'[g].policy = p /\ gens'[g].started = now + 1
          /\ gens'[g].plan.depth = gens[t].plan.depth + 1 /\ gens'[g].plan.depth <= p.hops
      BY <1>1, <1>2, <1>3
    <2> QED BY <1>2, <2>2, <2>3, <2>4 DEF Resumed
  <1>11. Shaped'
    <2>1. \A h \in Gens : gens'[h].prompt.target < h /\ gens'[h].plan.depth < h
      BY <1>1, <1>2, <1>3, <1>5
    <2> QED BY <1>3, <1>7, <1>8, <1>9, <1>10, <2>1 DEF Shaped
  <1>12. Serial'
    <2>1. ASSUME NEW h \in Gens, h # g, Owned(gens[h])
          PROVE  gens[h].ended # 0 /\ gens[h].ended < now + 1
      <3>1. Stage(gens[h]) /\ gens[h].status # "RUNNING" BY <1>1, <1>5
      <3>2. gens[h].ended \in 1..now BY <2>1, <3>1 DEF Stage
      <3> QED BY <3>2, Bounds
    <2>2. \A h \in Gens : h # g => (Owned(gens'[h]) <=> Owned(gens[h])) BY <1>3
    <2>3. gens'[g].started = now + 1 BY <1>1, <1>3
    <2> QED BY <1>3, <2>1, <2>2, <2>3 DEF Lived, Serial
  <1>13. Once'
    <2>1. \A h \in Gens : gens[h].plan.mode = "reuse" => gens[h].plan.from # 0
      <3> SUFFICES ASSUME NEW h \in Gens, gens[h].plan.mode = "reuse" PROVE gens[h].plan.from # 0
        OBVIOUS
      <3> QED BY EdgesHold, Bounds
    <2>2. ASSUME NEW h \in Gens, h # g, gens[h].plan.mode = "reuse"
          PROVE  gens[h].plan.from # q.from
      BY <1>2, <2>1, <2>2
    <2>3. ASSUME NEW h \in Gens, h # g, q.mode = "reuse"
          PROVE  gens[h].plan.from # q.from
      <3>1. q.from # 0 BY <1>2, <2>3, Bounds
      <3>2. gens[h].plan.mode # "reuse" => gens[h].plan.from = 0
        BY <1>5 DEF Planned, Nothing
      <3> QED BY <2>2, <2>3, <3>1, <3>2
    <2>4. gens'[g].plan = q BY <1>1, <1>3
    <2> SUFFICES ASSUME NEW x \in Gens, NEW y \in Gens, x # y, gens'[x].plan.mode = "reuse"
                 PROVE  gens'[x].plan.from # gens'[y].plan.from
      BY <1>3 DEF Once
    <2>5. CASE x = g BY <1>3, <2>3, <2>4, <2>5
    <2>6. CASE y = g BY <1>3, <2>2, <2>4, <2>6
    <2>7. CASE x # g /\ y # g BY <1>3, <2>7 DEF Lived, Once
    <2> QED BY <2>5, <2>6, <2>7
  <1> QED BY <1>4, <1>11, <1>12, <1>13 DEF Lived

LEMMA LivedNext == Lived /\ [Next]_vars => Lived'
  <1> SUFFICES ASSUME Lived, [Next]_vars PROVE Lived'
    OBVIOUS
  <1>1. CASE UNCHANGED vars BY <1>1, LivedIdle DEF vars
  <1>2. CASE Next
    <2>1. CASE \E p \in Candidates : Accept(p) BY <2>1, LivedAccept
    <2>2. CASE \E g \in Gens : Cancel(g) \/ Checkpoint(g) BY <2>2, LivedLeave
    <2>3. CASE \E g \in Gens, p \in Policies, c \in Capabilities :
                 Start(g, p, c) /\ live' \in {live, live \cup {g}} /\ stuck' = stuck
      BY <2>3, LivedStart
    <2>4. CASE \E g \in Gens, status \in {"COMPLETED", "INTERRUPTED"}, result \in Results :
                 Ending(g, status, result)
      BY <2>4, LivedEnd
    <2>5. CASE UNCHANGED <<gens, now>> /\ live' \subseteq live /\ stuck' \in {stuck} \cup Gens
      BY <2>5, LivedIdle
    <2> QED BY <1>2, <2>1, <2>2, <2>3, <2>4, <2>5, StepCases
  <1> QED BY <1>1, <1>2

LEMMA AlwaysLived == Spec => []Lived
  BY LivedInit, LivedNext, PTL DEF Spec

\* Every reachable history is well typed: plans, contexts and results are those the events can
\* produce, and no lineage is as deep as its generation.
THEOREM SessionTypeCorrect == Spec => []TypeOK
  BY LivedTypes, AlwaysLived, PTL

-----------------------------------------------------------------------------
(* Contexts and chains.                                                    *)

\* What execute tells the executor about the parent is what the journal accepts at that point:
\* no generation that may run is refused for its parent's sake, whatever became of the parent.
THEOREM ContextsAgreeCorrect == Spec => []ContextsAgree
  <1>1. Lived => ContextsAgree
    <2> SUFFICES ASSUME Lived, NEW g \in Gens, \A h \in Gens : gens[h].status # "RUNNING"
                 PROVE  JournalTakesContext(ParentContext(gens, g), gens, g)
      BY DEF ContextsAgree, Admits
    <2>1. CASE g = 1
      <3>1. ParentContext(gens, g).kind = "none" BY <2>1 DEF ParentContext, NoContext
      <3> QED BY <2>1, <3>1 DEF JournalTakesContext
    <2>2. CASE g # 1
      <3> DEFINE parent == gens[g - 1]
                 taken == parent.status \in {"COMPLETED", "INTERRUPTED"} /\ parent.result.claim
                 kind == IF parent.prompt.action = "checkpoint" THEN "checkpoint" ELSE "execution"
                 exec == IF Owned(parent) THEN g - 1 ELSE 0
                 form == ParentContext(gens, g)
      <3>1. g - 1 \in Gens /\ g > 1 BY <2>2, Bounds
      <3>2. parent \in Records /\ Stage(parent) /\ parent.status # "RUNNING"
        BY <3>1, Bounds DEF Lived, Shaped
      <3>3. /\ form.kind = kind /\ form.gen = g - 1 /\ form.status = parent.status
            /\ form.exec = exec /\ form.thread = parent.result.thread /\ form.claim = taken
        BY <2>2 DEF ParentContext
      <3>4. parent.status \notin {"COMPLETED", "INTERRUPTED"} => parent.result = NoResult
        <4>1. CASE parent.status = "ACCEPTED"
          <5> DEFINE x == parent.prompt
          <5>1. Record(x).result = NoResult BY DEF Record
          <5> QED BY <3>2, <4>1, <5>1 DEF Stage
        <4>2. CASE parent.status = "CANCELLED" BY <3>2, <4>2 DEF Stage
        <4> QED BY <3>2, <4>1, <4>2 DEF Records, Statuses
      <3>5. taken = parent.result.claim
        <4>1. parent.result.claim \in BOOLEAN BY <3>2 DEF Records, Results
        <4>2. NoResult.claim = FALSE BY DEF NoResult
        <4> QED BY <3>4, <4>1, <4>2
      <3>6. Owned(parent) => parent.ended # 0
        <4>1. now \in Nat BY Bounds
        <4> QED BY <3>2, <4>1 DEF Stage
      <3> HIDE DEF taken, form
      <3> QED BY <3>1, <3>3, <3>5, <3>6 DEF JournalTakesContext, form
    <2> QED BY <2>1, <2>2
  <1> QED BY <1>1, AlwaysLived, PTL

\* What is really behind a generation is what its plan recorded.
LEMMA BehindRecorded ==
    ASSUME Lived, NEW g \in Gens
    PROVE  Behind[g] = gens[g].plan.depth
  <1> DEFINE Body(d, h) == IF gens[h].plan.from = 0 THEN 0 ELSE 1 + d[gens[h].plan.from]
             recorded == [h \in Gens |-> gens[h].plan.depth]
             D == CHOOSE d : d = [h \in Gens |-> Body(d, h)]
  <1>1. \A h \in Gens :
           \/ gens[h].plan.from = 0 /\ gens[h].plan.depth = 0
           \/ /\ gens[h].plan.from # 0 /\ gens[h].plan.from \in 1..(h - 1)
              /\ gens[h].plan.from \in Gens
              /\ gens[gens[h].plan.from].plan.depth \in Nat
              /\ gens[h].plan.depth = 1 + gens[gens[h].plan.from].plan.depth
    <2> SUFFICES ASSUME NEW h \in Gens
                 PROVE  \/ gens[h].plan.from = 0 /\ gens[h].plan.depth = 0
                        \/ /\ gens[h].plan.from # 0 /\ gens[h].plan.from \in 1..(h - 1)
                           /\ gens[h].plan.from \in Gens
                           /\ gens[gens[h].plan.from].plan.depth \in Nat
                           /\ gens[h].plan.depth = 1 + gens[gens[h].plan.from].plan.depth
      OBVIOUS
    <2>1. Planned(h) /\ Resumed(h) BY DEF Lived, Shaped
    <2>2. CASE gens[h].plan.mode # "reuse" BY <2>1, <2>2 DEF Planned, Nothing
    <2>3. CASE gens[h].plan.mode = "reuse"
      <3>1. gens[h].plan.from \in 1..(h - 1) /\ gens[h].plan.from \in Gens BY <2>3, EdgesHold
      <3>2. gens[gens[h].plan.from].plan.depth \in Nat
        BY <3>1, Bounds DEF Records, Plans, Ids
      <3> QED BY <2>1, <2>3, <3>1, <3>2, Bounds DEF Resumed
    <2> QED BY <2>2, <2>3
  <1>2. recorded = [h \in Gens |-> Body(recorded, h)]
    <2>1. \A h \in Gens : recorded[h] = Body(recorded, h) BY <1>1
    <2>2. recorded = [h \in Gens |-> recorded[h]] OBVIOUS
    <2> HIDE DEF recorded
    <2> QED BY <2>1, <2>2
  <1>3. D = [h \in Gens |-> Body(D, h)]
    <2> HIDE DEF recorded
    <2> QED BY <1>2
  <1>4. Behind = D BY DEF Behind
  <1> HIDE DEF D
  <1>5. \A h \in Gens : D[h] = Body(D, h) BY <1>3
  <1> DEFINE S == {h \in Gens : D[h] # gens[h].plan.depth}
  <1>6. ASSUME S # {} PROVE FALSE
    <2>1. PICK h \in S : \A k \in S : h <= k
      <3>1. S \in SUBSET Nat BY Bounds
      <3> HIDE DEF S
      <3> QED BY <1>6, <3>1, Least
    <2>2. h \in Gens /\ D[h] # gens[h].plan.depth OBVIOUS
    <2>3. gens[h].plan.from # 0 BY <1>1, <1>5, <2>2
    <2>4. gens[h].plan.from \in 1..(h - 1) /\ gens[h].plan.from \in Gens BY <1>1, <2>2, <2>3
    <2>5. gens[h].plan.from \notin S BY <2>1, <2>2, <2>4, Bounds
    <2>6. D[gens[h].plan.from] = gens[gens[h].plan.from].plan.depth BY <2>4, <2>5
    <2> QED BY <1>1, <1>5, <2>2, <2>3, <2>6
  <1> QED BY <1>4, <1>6

\* A resumed session is the one its chain began with, under the settings and capabilities it
\* began with, and the chain is as long as recorded and no longer than the policy of the day allowed.
THEOREM ChainsAreRealCorrect == Spec => []ChainsAreReal
  <1>1. Lived => ChainsAreReal
    <2> SUFFICES ASSUME Lived, NEW g \in Gens, gens[g].plan.mode = "reuse"
                 PROVE  LET f == gens[g].plan.from
                        IN /\ f \in 1..(g - 1) /\ Succeeded(gens[f])
                           /\ gens[g].plan.thread = gens[f].result.thread
                           /\ gens[g].caps = gens[f].caps /\ gens[g].policy.kind = gens[f].policy.kind
                           /\ gens[g].plan.depth = Behind[g] /\ Behind[g] <= gens[g].policy.hops
      BY DEF ChainsAreReal
    <2>1. gens[g].plan.from \in 1..(g - 1) BY EdgesHold
    <2>2. Resumed(g) BY DEF Lived, Shaped
    <2> QED BY <2>1, <2>2, BehindRecorded DEF Resumed
  <1> QED BY <1>1, AlwaysLived, PTL

-----------------------------------------------------------------------------
(* New sessions.                                                           *)

LEMMA BeforeEnded ==
    ASSUME NEW k, NEW h \in Gens, gens[h].ended \in 1..(k - 1)
    PROVE  Before(k)[h] = gens[h]
  BY DEF Before

\* A run that Atlas itself completed has the session it resumed, or one that no run before it had.
LEMMA CompletedFresh ==
    ASSUME Lived, NEW g \in Gens, gens[g].status = "RUNNING", NEW thread, Observes(g, thread),
           NEW h \in Gens, h # g, Owned(gens[h]), gens[h].ended # 0,
           gens[h].result.thread = thread
    PROVE  gens[g].plan.mode = "reuse" \/ gens[g].plan.fallback = "REUSE_CAPABILITIES_INCOMPATIBLE"
  <1> DEFINE k == gens[g].started + 1
  <1>1. Stage(gens[g]) /\ Stage(gens[h]) /\ gens[g] \in Records /\ gens[h] \in Records
    BY Bounds DEF Lived, Shaped
  <1>2. gens[h].ended < gens[g].started
    BY <1>1 DEF Lived, Serial, Stage
  <1>3. gens[h].ended \in 1..(k - 1) BY <1>1, <1>2 DEF Records
  <1> HIDE DEF k
  <1>4. Before(k)[h] = gens[h] /\ h \in DOMAIN Before(k) BY <1>3, BeforeEnded DEF Before
  <1>5. thread # 0 BY DEF Observes
  <1>6. thread \in Known(Before(k)) BY <1>4, <1>5 DEF Known
  <1> QED BY <1>6 DEF Observes, k

LEMMA FreshNext == Lived /\ FreshIsNew /\ [Next]_vars => FreshIsNew'
  <1> SUFFICES ASSUME Lived, FreshIsNew, [Next]_vars,
                      NEW g \in Gens', NEW h \in Gens',
                      gens'[g].status = "COMPLETED", Owned(gens'[g]), ~gens'[g].result.typed,
                      h # g, gens'[h].ended \in 1..(gens'[g].ended - 1), Owned(gens'[h]),
                      gens'[h].result.thread = gens'[g].result.thread
               PROVE  \/ gens'[g].plan.mode = "reuse"
                      \/ gens'[g].plan.fallback = "REUSE_CAPABILITIES_INCOMPATIBLE"
    BY DEF FreshIsNew
  <1>1. CASE UNCHANGED <<gens, now>> BY <1>1 DEF FreshIsNew, Gens
  <1>2. ASSUME NEW p \in Candidates, Accept(p)
        PROVE  \/ gens'[g].plan.mode = "reuse"
               \/ gens'[g].plan.fallback = "REUSE_CAPABILITIES_INCOMPATIBLE"
    <2>1. ~Owned(gens'[Len(gens) + 1])
      <3>1. Record(p).plan = Nothing BY DEF Record
      <3> QED BY <1>2, <3>1, Accepted DEF Owned
    <2>2. /\ g \in Gens /\ h \in Gens /\ gens'[g] = gens[g] /\ gens'[h] = gens[h]
      BY <1>2, <2>1, Accepted, Bounds DEF Gens
    <2> QED BY <2>2 DEF FreshIsNew
  <1>3. ASSUME NEW x \in Gens, Cancel(x) \/ Checkpoint(x)
        PROVE  \/ gens'[g].plan.mode = "reuse"
               \/ gens'[g].plan.fallback = "REUSE_CAPABILITIES_INCOMPATIBLE"
    <2>1. PICK r \in Records : gens' = [gens EXCEPT ![x] = r] /\ ~Owned(r) BY <1>3, LeaveEffect
    <2>2. Gens' = Gens /\ gens'[x] = r /\ \A y \in Gens : y # x => gens'[y] = gens[y]
      BY <2>1, Journaled
    <2>3. g # x /\ h # x BY <2>1, <2>2
    <2> QED BY <2>2, <2>3 DEF FreshIsNew
  <1>4. ASSUME NEW x \in Gens, NEW p \in Policies, NEW c \in Capabilities, Start(x, p, c)
        PROVE  \/ gens'[g].plan.mode = "reuse"
               \/ gens'[g].plan.fallback = "REUSE_CAPABILITIES_INCOMPATIBLE"
    <2>1. PICK r \in Records : gens' = [gens EXCEPT ![x] = r] /\ r.status = "RUNNING" /\ r.ended = 0
      BY <1>4, StartEffect
    <2>2. Gens' = Gens /\ gens'[x] = r /\ \A y \in Gens : y # x => gens'[y] = gens[y]
      BY <2>1, Journaled
    <2>3. g # x /\ h # x BY <2>1, <2>2
    <2> QED BY <2>2, <2>3 DEF FreshIsNew
  <1>5. ASSUME NEW x \in Gens, NEW status \in {"COMPLETED", "INTERRUPTED"}, NEW result \in Results,
               Ending(x, status, result)
        PROVE  \/ gens'[g].plan.mode = "reuse"
               \/ gens'[g].plan.fallback = "REUSE_CAPABILITIES_INCOMPATIBLE"
    <2> DEFINE r == After(gens[x], status, result, now + 1)
    <2>1. /\ r \in Records /\ gens' = [gens EXCEPT ![x] = r] /\ r.plan = gens[x].plan
          /\ r.status = status /\ r.result = result /\ r.ended = now + 1
      BY <1>5, EndingEffect
    <2> HIDE DEF r
    <2>2. Gens' = Gens /\ gens'[x] = r /\ \A y \in Gens : y # x => gens'[y] = gens[y]
      BY <2>1, Journaled
    <2>3. CASE g = x
      <3>1. gens[x].status = "RUNNING" /\ Observes(x, result.thread)
        BY <1>5, <2>1, <2>2, <2>3 DEF Ending
      <3>2. /\ h \in Gens /\ h # x /\ Owned(gens[h]) /\ gens[h].result.thread = result.thread
            /\ gens[h].ended # 0
        BY <2>1, <2>2, <2>3, Bounds
      <3>3. gens[x].plan.mode = "reuse" \/ gens[x].plan.fallback = "REUSE_CAPABILITIES_INCOMPATIBLE"
        BY <3>1, <3>2, CompletedFresh
      <3> QED BY <2>1, <2>2, <2>3, <3>3
    <2>4. CASE g # x /\ h # x BY <2>2, <2>4 DEF FreshIsNew
    <2>5. CASE g # x /\ h = x
      <3>1. gens'[g] = gens[g] /\ g \in Gens /\ gens[g].ended \in Nat /\ gens[g].ended <= now
        <4>1. g \in Gens /\ gens'[g] = gens[g] BY <2>2, <2>5
        <4>2. Stage(gens[g]) /\ gens[g] \in Records /\ gens[g].status = "COMPLETED"
          BY <4>1, Bounds DEF Lived, Shaped
        <4>3. gens[g].ended \in 1..now BY <4>2 DEF Stage
        <4> QED BY <4>1, <4>3, Bounds
      <3> QED BY <2>1, <2>2, <2>5, <3>1, Bounds
    <2> QED BY <2>3, <2>4, <2>5
  <1>6. CASE Next
    BY <1>1, <1>2, <1>3, <1>4, <1>5, <1>6, StepCases
  <1> QED BY <1>1, <1>6 DEF vars

\* Two runs that Atlas completed share a session only if the later of them resumed it, or was
\* allowed to meet it because its capabilities had changed; although the check was made against
\* the state in which the later one started.
THEOREM FreshIsNewCorrect == Spec => []FreshIsNew
  <1>1. Init => FreshIsNew BY DEF Init, FreshIsNew, Gens
  <1> QED BY <1>1, FreshNext, AlwaysLived, PTL DEF Spec

-----------------------------------------------------------------------------
(* The abstract chains.                                                    *)

StateOf(g) ==
    CASE g \notin Gens -> "none"
      [] g \in Gens /\ ~Owned(gens[g]) -> "none"
      [] g \in Gens /\ Owned(gens[g]) /\ gens[g].status = "RUNNING" -> "open"
      [] g \in Gens /\ Owned(gens[g]) /\ Succeeded(gens[g]) -> "good"
      [] OTHER -> "bad"
FromOf(g) == IF g \in Gens THEN gens[g].plan.from ELSE 0
chain == <<[g \in 1..MaxGen |-> StateOf(g)], [g \in 1..MaxGen |-> FromOf(g)]>>

LEMMA ChainInit == Init => Chains!Init
  BY DEF Init, Gens, Chains!Init

\* A step that changes no run leaves the chains alone.
LEMMA ChainKept ==
    ASSUME \A g \in 1..MaxGen : StateOf(g)' = StateOf(g) /\ FromOf(g)' = FromOf(g)
    PROVE  UNCHANGED chain
  BY DEF chain

LEMMA ChainAccept ==
    ASSUME Lived, NEW p \in Candidates, Accept(p)
    PROVE  UNCHANGED chain
  <1> SUFFICES ASSUME NEW g \in 1..MaxGen PROVE StateOf(g)' = StateOf(g) /\ FromOf(g)' = FromOf(g)
    BY ChainKept
  <1>1. CASE g \in Gens
    <2>1. g \in Gens' /\ gens'[g] = gens[g] BY <1>1, Accepted, Bounds
    <2> QED BY <1>1, <2>1 DEF StateOf, FromOf
  <1>2. CASE g = Len(gens) + 1
    <2>1. g \notin Gens /\ g \in Gens' /\ gens'[g] = Record(p) BY <1>2, Accepted, Bounds
    <2>2. gens'[g].plan = Nothing BY <2>1 DEF Record
    <2>3. ~Owned(gens'[g]) /\ gens'[g].plan.from = 0 BY <2>2 DEF Owned, Nothing
    <2> QED BY <2>1, <2>3 DEF StateOf, FromOf
  <1>3. CASE g \notin Gens /\ g # Len(gens) + 1
    <2>1. g \notin Gens' BY <1>3, Accepted, Bounds
    <2> QED BY <1>3, <2>1 DEF StateOf, FromOf
  <1> QED BY <1>1, <1>2, <1>3

LEMMA ChainLeave ==
    ASSUME Lived, NEW x \in Gens, Cancel(x) \/ Checkpoint(x)
    PROVE  UNCHANGED chain
  <1>1. PICK r \in Records : /\ gens' = [gens EXCEPT ![x] = r] /\ ~Owned(r) /\ ~Owned(gens[x])
                             /\ r.plan = gens[x].plan
    BY LeaveEffect
  <1>2. Gens' = Gens /\ gens'[x] = r /\ \A y \in Gens : y # x => gens'[y] = gens[y]
    BY <1>1, Journaled
  <1> SUFFICES ASSUME NEW g \in 1..MaxGen PROVE StateOf(g)' = StateOf(g) /\ FromOf(g)' = FromOf(g)
    BY ChainKept
  <1>3. CASE g = x BY <1>1, <1>2, <1>3 DEF StateOf, FromOf
  <1>4. CASE g # x BY <1>2, <1>4 DEF StateOf, FromOf
  <1> QED BY <1>3, <1>4

LEMMA ChainEnd ==
    ASSUME Lived, NEW x \in Gens, NEW status \in {"COMPLETED", "INTERRUPTED"},
           NEW result \in Results, Ending(x, status, result)
    PROVE  Chains!Next
  <1> DEFINE r == After(gens[x], status, result, now + 1)
             how == IF status = "COMPLETED" /\ result.outcome = "success" THEN "good" ELSE "bad"
  <1>1. /\ r \in Records /\ gens' = [gens EXCEPT ![x] = r] /\ r.plan = gens[x].plan
        /\ r.status = status /\ r.result = result /\ Owned(r) /\ Owned(gens[x])
        /\ gens[x].status = "RUNNING"
    BY EndingEffect DEF Ending
  <1> HIDE DEF r
  <1>2. Gens' = Gens /\ gens'[x] = r /\ \A y \in Gens : y # x => gens'[y] = gens[y]
    BY <1>1, Journaled
  <1>3. x \in 1..MaxGen BY Bounds
  <1>4. StateOf(x) = "open" /\ StateOf(x)' = how
    BY <1>1, <1>2 DEF StateOf, Succeeded
  <1>5. \A g \in 1..MaxGen : g # x => StateOf(g)' = StateOf(g)
    BY <1>2 DEF StateOf
  <1>6. \A g \in 1..MaxGen : FromOf(g)' = FromOf(g)
    BY <1>1, <1>2 DEF FromOf
  <1> DEFINE old == [g \in 1..MaxGen |-> StateOf(g)]
             new == [g \in 1..MaxGen |-> StateOf(g)']
  <1>7. old[x] = "open" /\ new = [old EXCEPT ![x] = how] BY <1>3, <1>4, <1>5
  <1>8. [g \in 1..MaxGen |-> FromOf(g)'] = [g \in 1..MaxGen |-> FromOf(g)] BY <1>6
  <1>9. how \in {"good", "bad"} OBVIOUS
  <1> HIDE DEF how
  <1>10. Chains!End(x) BY <1>7, <1>8, <1>9 DEF Chains!End, StateOf, FromOf
  <1> QED BY <1>3, <1>10 DEF Chains!Next

LEMMA ChainStart ==
    ASSUME Lived, NEW x \in Gens, NEW p \in Policies, NEW c \in Capabilities, Start(x, p, c)
    PROVE  Chains!Next
  <1> DEFINE q == Plan(gens, x, p, c)
             f == Plan(gens, x, p, c).from
  <1>1. PICK r \in Records :
           /\ gens' = [gens EXCEPT ![x] = r] /\ r.plan = q /\ r.status = "RUNNING"
           /\ gens[x].status = "ACCEPTED" /\ gens[x] = Record(gens[x].prompt)
           /\ \A h \in Gens : gens[h].status # "RUNNING"
           /\ q # Refused
    BY StartEffect
  <1>2. /\ q # Nothing
        /\ \/ f = 0
           \/ /\ f \in 1..(x - 1) /\ f \in Gens /\ f # 0
              /\ Owned(gens[f]) /\ Succeeded(gens[f])
              /\ \A h \in Gens : gens[h].plan.mode = "reuse" => gens[h].plan.from # f
    BY <1>1, PlanMakes, Bounds
  <1> HIDE DEF q, f
  <1>3. Gens' = Gens /\ gens'[x] = r /\ \A y \in Gens : y # x => gens'[y] = gens[y]
    BY <1>1, Journaled
  <1>4. x \in 1..MaxGen BY Bounds
  <1>5. StateOf(x) = "none"
    <2> DEFINE y == gens[x].prompt
    <2>1. Record(y).plan = Nothing BY DEF Record
    <2> QED BY <1>1, <2>1 DEF StateOf, Owned
  <1>6. StateOf(x)' = "open"
    <2>1. gens'[x].plan = q /\ gens'[x].status = "RUNNING" BY <1>1, <1>3
    <2>2. Owned(gens'[x]) BY <1>2, <2>1 DEF Owned
    <2> QED BY <1>3, <2>1, <2>2 DEF StateOf, Succeeded
  <1>7. \A g \in 1..MaxGen : g # x => StateOf(g)' = StateOf(g) /\ FromOf(g)' = FromOf(g)
    BY <1>3 DEF StateOf, FromOf
  <1>8. FromOf(x)' = f BY <1>1, <1>3 DEF FromOf, q, f
  <1>9. \A g \in 1..MaxGen : StateOf(g) # "open" BY <1>1 DEF StateOf
  <1>10. f # 0 => /\ f \in 1..MaxGen /\ StateOf(f) = "good"
                  /\ \A g \in 1..MaxGen : FromOf(g) # f
    <2> SUFFICES ASSUME f # 0
                 PROVE  /\ f \in 1..MaxGen /\ StateOf(f) = "good"
                        /\ \A g \in 1..MaxGen : FromOf(g) # f
      OBVIOUS
    <2>1. f \in 1..MaxGen BY <1>2, Bounds
    <2>2. StateOf(f) = "good" BY <1>1, <1>2 DEF StateOf, Succeeded
    <2>3. ASSUME NEW g \in Gens, gens[g].plan.mode # "reuse" PROVE gens[g].plan.from = 0
      <3>1. Planned(g) BY DEF Lived, Shaped
      <3> QED BY <2>3, <3>1 DEF Planned, Nothing
    <2>4. \A g \in 1..MaxGen : FromOf(g) # f BY <1>2, <2>3 DEF FromOf
    <2> QED BY <2>1, <2>2, <2>4
  <1> DEFINE old == [g \in 1..MaxGen |-> StateOf(g)]
             was == [g \in 1..MaxGen |-> FromOf(g)]
  <1>11. [g \in 1..MaxGen |-> StateOf(g)'] = [old EXCEPT ![x] = "open"] BY <1>4, <1>6, <1>7
  <1>12. [g \in 1..MaxGen |-> FromOf(g)'] = [was EXCEPT ![x] = f] BY <1>4, <1>7, <1>8
  <1>13. /\ old[x] = "none" /\ \A g \in 1..MaxGen : old[g] # "open"
         /\ f # 0 => f \in 1..MaxGen /\ old[f] = "good" /\ \A g \in 1..MaxGen : was[g] # f
    BY <1>4, <1>5, <1>9, <1>10
  <1>14. PICK e \in (1..MaxGen) \cup {0} : e = f BY <1>10
  <1>15. Chains!Begin(x, e)
    BY <1>11, <1>12, <1>13, <1>14 DEF Chains!Begin, StateOf, FromOf
  <1> QED BY <1>4, <1>15 DEF Chains!Next

LEMMA ChainNext == Lived /\ [Next]_vars => [Chains!Next]_chain
  <1> SUFFICES ASSUME Lived, [Next]_vars PROVE Chains!Next \/ UNCHANGED chain
    OBVIOUS
  <1>1. CASE UNCHANGED <<gens, now>>
    BY <1>1 DEF chain, StateOf, FromOf, Gens
  <1>2. CASE Next
    BY <1>1, <1>2, StepCases, ChainAccept, ChainLeave, ChainStart, ChainEnd
  <1> QED BY <1>1, <1>2 DEF vars

\* The runs form chains, for any number of generations and whatever the prompts name, in whatever
\* order they run and end: the history implements ThreadChains.
THEOREM ThreadChainsImplemented == Spec => ImplementsThreadChains
  <1>1. Lived /\ [Next]_vars => [Chains!Next]_(Chains!vars)
    BY ChainNext DEF chain, Chains!vars, StateOf, FromOf
  <1> QED
    BY ChainInit, <1>1, AlwaysLived, PTL DEF Spec, ImplementsThreadChains, Chains!Spec

-----------------------------------------------------------------------------
(* The history replayed.  A decision is made on the runs that were over when it was made, and *)
(* they are what every later prefix up to it shows.                                            *)

\* The record r before the event k, and the generations G before it.
At(r, k) ==
    CASE r.ended \in 1..(k - 1) -> r
      [] r.ended \notin 1..(k - 1) /\ r.started \in 1..(k - 1) ->
            [r EXCEPT !.status = "RUNNING", !.result = NoResult]
      [] OTHER -> Record(r.prompt)
Prefix(G, k) == [g \in DOMAIN G |-> At(G[g], k)]

\* The verdicts of the journal on g, of a history G.
StartRight(G, g) ==
    LET s == Prefix(G, G[g].started)
    IN /\ G[g].plan.requested = G[g].prompt.mode
       /\ JournalTakesContext(G[g].context, s, g) /\ G[g].context = ParentContext(s, g)
       /\ G[g].plan = Plan(s, g, G[g].policy, G[g].caps)
PlanRight(G, g) == G[g].plan = Plan(Prefix(G, G[g].ended), g, G[g].policy, G[g].caps)
ThreadRight(G, g) ==
    LET s == Prefix(G, G[g].ended)
        thread == G[g].result.thread
    IN G[g].status = "COMPLETED" /\ ~G[g].result.typed =>
        /\ thread # 0
        /\ IF G[g].plan.mode = "reuse" THEN thread = G[g].plan.thread
           ELSE thread \notin Known(s) \/ G[g].plan.fallback = "REUSE_CAPABILITIES_INCOMPATIBLE"
Right(G, g) ==
    Owned(G[g]) => /\ StartRight(G, g)
                   /\ G[g].ended # 0 => PlanRight(G, g) /\ ThreadRight(G, g)
Hist == \A g \in Gens : Right(gens, g)

LEMMA HistHolds ==
    ASSUME Hist, stuck = 0, \A g \in Gens : ~gens[g].result.typed
    PROVE  Preflight
  <1>1. \A k : Before(k) = Prefix(gens, k) BY DEF Before, Prefix, At, Gens
  <1> SUFFICES ASSUME NEW g \in Gens, Owned(gens[g])
               PROVE  StartHolds(g) /\ (gens[g].ended # 0 => EndHolds(g))
    BY DEF Preflight, HistoryHolds
  <1>2. StartRight(gens, g) /\ (gens[g].ended # 0 => PlanRight(gens, g) /\ ThreadRight(gens, g))
    BY DEF Hist, Right
  <1>3. StartHolds(g) BY <1>1, <1>2 DEF StartHolds, StartRight, PlanHolds
  <1>4. ASSUME gens[g].ended # 0 PROVE EndHolds(g)
    <2>1. PlanHolds(Before(gens[g].ended), g) BY <1>1, <1>2, <1>4 DEF PlanHolds, PlanRight
    <2>2. ThreadHolds(Before(gens[g].ended), g) BY <1>1, <1>2, <1>4 DEF ThreadHolds, ThreadRight
    <2> QED BY <2>1, <2>2 DEF EndHolds
  <1> QED BY <1>3, <1>4

-----------------------------------------------------------------------------
(* Two histories that agree on the runs a decision looks at lead to the same decision. *)

\* s and s2 agree on the generations U; s2 may have later ones, none of which has run.
Agree(s, s2, n, m, U) ==
    /\ n \in Nat /\ m \in Nat /\ n <= m /\ DOMAIN s = 1..n /\ DOMAIN s2 = 1..m
    /\ U \subseteq 1..n
    /\ \A h \in U : /\ s[h].prompt = s2[h].prompt /\ s[h].plan = s2[h].plan
                    /\ s[h].plan.from \in U \cup {0}
                    /\ Owned(s[h]) => s[h] = s2[h]
    /\ \A h \in (n + 1)..m : ~Owned(s2[h])

LEMMA SameEdge ==
    ASSUME NEW s, NEW s2, NEW n, NEW m, NEW U, Agree(s, s2, n, m, U), NEW h \in U
    PROVE  EdgeOK(s, h) <=> EdgeOK(s2, h)
  <1> DEFINE e == s[h].plan.from
  <1>1. s2[h].plan.from = e /\ s2[h].prompt = s[h].prompt /\ e \in U \cup {0} BY DEF Agree
  <1>2. e \in DOMAIN s <=> e \in DOMAIN s2 BY <1>1 DEF Agree
  <1>3. e \in U => s[e].plan = s2[e].plan BY DEF Agree
  <1>4. e \in DOMAIN s => e \in U BY <1>1 DEF Agree
  <1>5. e \in DOMAIN s => (Owned(s[e]) <=> Owned(s2[e])) BY <1>3, <1>4 DEF Owned
  <1> QED BY <1>1, <1>2, <1>5 DEF EdgeOK

LEMMA SameDepth ==
    ASSUME NEW s, NEW s2, NEW n, NEW m, NEW U, Agree(s, s2, n, m, U), NEW g \in U
    PROVE  LineageDepth(s)[g] = LineageDepth(s2)[g]
  <1> DEFINE D == LineageDepth(s)
             E == LineageDepth(s2)
             S == {h \in U : D[h] # E[h]}
  <1>1. SUFFICES ASSUME S # {} PROVE FALSE
    BY <1>1
  <1>2. S \in SUBSET Nat
    <2>1. U \subseteq Nat BY DEF Agree
    <2> QED BY <2>1
  <1>3. PICK h \in S : \A k \in S : h <= k
    <2> HIDE DEF S
    <2> QED BY <1>1, <1>2, Least
  <1>4. h \in U /\ h \in 1..n /\ h \in 1..m /\ n \in Nat /\ m \in Nat /\ DOMAIN s = 1..n /\ DOMAIN s2 = 1..m
    BY DEF Agree
  <1>5. D[h] = DepthBody(s, D, h) BY <1>4, DepthUnfolds
  <1>6. E[h] = DepthBody(s2, E, h) BY <1>4, DepthUnfolds
  <1>7. s[h].plan = s2[h].plan /\ s[h].plan.from \in U \cup {0} BY <1>4 DEF Agree
  <1>8. EdgeOK(s, h) <=> EdgeOK(s2, h) BY <1>4, SameEdge
  <1>9. EdgeOK(s, h) => D[s[h].plan.from] = E[s[h].plan.from]
    <2> SUFFICES ASSUME EdgeOK(s, h) PROVE D[s[h].plan.from] = E[s[h].plan.from]
      OBVIOUS
    <2>1. s[h].plan.from < h /\ s[h].plan.from \in U BY <1>4, <1>7 DEF EdgeOK
    <2>2. s[h].plan.from \notin S
      <3>1. h \in Nat /\ s[h].plan.from \in Nat
        <4>1. U \subseteq Nat BY DEF Agree
        <4> QED BY <2>1, <4>1
      <3> HIDE DEF S
      <3> QED BY <1>3, <2>1, <3>1
    <2> QED BY <2>1, <2>2
  <1>10. D[h] # E[h] OBVIOUS
  <1> HIDE DEF D, E
  <1> QED BY <1>5, <1>6, <1>7, <1>8, <1>9, <1>10 DEF DepthBody

LEMMA SamePlan ==
    ASSUME NEW s, NEW s2, NEW n, NEW m, NEW U, Agree(s, s2, n, m, U), NEW x \in 1..n,
           \A h \in 1..n : h \in U \/ h = x,
           s[x].prompt = s2[x].prompt, s[x].prompt.target \in U \cup {0},
           NEW p, NEW c
    PROVE  Plan(s, x, p, c) = Plan(s2, x, p, c)
  <1> DEFINE t == s[x].prompt.target
             thread == s[t].result.thread
  <1>1. t \in U \cup {0} /\ s2[x].prompt.target = t OBVIOUS
  <1>2. CASE t = 0 \/ ~Owned(s[t])
    <2>1. t \notin DOMAIN s \/ ~Owned(s[t]) BY <1>2 DEF Agree
    <2>2. t \notin DOMAIN s2 \/ ~Owned(s2[t])
      <3>1. CASE t = 0 BY <3>1 DEF Agree
      <3>2. CASE t \in U
        <4>1. s[t].plan = s2[t].plan BY <3>2 DEF Agree
        <4>2. ~Owned(s[t]) BY <1>2, <3>2 DEF Agree
        <4> QED BY <4>1, <4>2 DEF Owned
      <3> QED BY <1>1, <3>1, <3>2
    <2>3. ReuseVerdict(s, x, p, c) = "REUSE_TARGET_UNKNOWN" BY <2>1 DEF ReuseVerdict
    <2>4. ReuseVerdict(s2, x, p, c) = "REUSE_TARGET_UNKNOWN" BY <1>1, <2>2 DEF ReuseVerdict
    <2> QED BY <2>3, <2>4 DEF Plan, SafeReuseFallbacks
  <1>3. CASE t \in U /\ Owned(s[t])
    <2>1. s[t] = s2[t] /\ t \in DOMAIN s /\ t \in DOMAIN s2
      <3>1. \A h \in U : (Owned(s[h]) => s[h] = s2[h]) /\ h \in DOMAIN s /\ h \in DOMAIN s2
        BY DEF Agree
      <3> QED BY <1>3, <3>1
    <2>2. LineageDepth(s)[t] = LineageDepth(s2)[t] BY <1>3, SameDepth
    <2>3. \A h \in Later(s, x, t) : h \in U /\ s[h] = s2[h] BY DEF Later, Agree
    <2>4. Later(s, x, t) = Later(s2, x, t)
      <3>1. ASSUME NEW h \in Later(s, x, t) PROVE h \in Later(s2, x, t)
        BY <2>3 DEF Later, Agree
      <3>2. ASSUME NEW h \in Later(s2, x, t) PROVE h \in Later(s, x, t)
        <4>1. h \in 1..m /\ Owned(s2[h]) /\ h > t /\ h # x BY DEF Later, Agree
        <4>2. h \in 1..n BY <4>1 DEF Agree
        <4>3. h \in U /\ s[h].plan = s2[h].plan BY <4>1, <4>2 DEF Agree
        <4>4. Owned(s[h]) BY <4>1, <4>3 DEF Owned
        <4> QED BY <4>1, <4>2, <4>4 DEF Later, Agree
      <3> QED BY <3>1, <3>2
    <2>5. Advanced(s, x, t) <=> Advanced(s2, x, t) BY <2>1, <2>3, <2>4 DEF Advanced, Relevant
    <2>6. Tainted(s, x, t) <=> Tainted(s2, x, t)
      <3> DEFINE Bad(w, h) ==
                    \/ Contradicts(w, h)
                    \/ /\ Relevant(w, h, w[t].result.thread)
                       /\ \/ ~Succeeded(w[h])
                          \/ /\ w[h].plan.mode = "reuse"
                             /\ ~EdgeOK(w, h) \/ w[w[h].plan.from].result.thread # w[h].plan.thread
      <3>1. ASSUME NEW h \in Later(s, x, t) PROVE Bad(s, h) <=> Bad(s2, h)
        <4>1. h \in U /\ s[h] = s2[h] BY <2>3
        <4>2. EdgeOK(s, h) <=> EdgeOK(s2, h) BY <4>1, SameEdge
        <4>3. EdgeOK(s, h) => s[s[h].plan.from] = s2[s2[h].plan.from]
          <5> SUFFICES ASSUME EdgeOK(s, h) PROVE s[s[h].plan.from] = s2[s2[h].plan.from]
            OBVIOUS
          <5>1. s[h].plan.from \in U /\ Owned(s[s[h].plan.from]) BY <4>1 DEF EdgeOK, Agree
          <5>2. s[s[h].plan.from] = s2[s[h].plan.from] BY <5>1 DEF Agree
          <5> QED BY <4>1, <5>2
        <4> QED BY <2>1, <4>1, <4>2, <4>3 DEF Contradicts, Relevant
      <3>2. (\E h \in Later(s, x, t) : Bad(s, h)) <=> (\E h \in Later(s2, x, t) : Bad(s2, h))
        <4> HIDE DEF Bad
        <4> QED BY <2>4, <3>1
      <3> QED BY <3>2 DEF Tainted
    <2>7. Contradicts(s, t) <=> Contradicts(s2, t) BY <2>1 DEF Contradicts
    <2>8. ReuseVerdict(s, x, p, c) = ReuseVerdict(s2, x, p, c)
      <3> HIDE DEF t
      <3>1. s[x].prompt.target = t /\ s2[x].prompt.target = t BY <1>1 DEF t
      <3> QED BY <1>3, <2>1, <2>2, <2>5, <2>6, <2>7, <3>1 DEF ReuseVerdict
    <2> QED BY <1>1, <2>1, <2>2, <2>8 DEF Plan
  <1> QED BY <1>1, <1>2, <1>3

-----------------------------------------------------------------------------
(* Every step leaves the decisions of earlier runs, and makes one that stands. *)

\* An event about x changes no prefix it is not in.
LEMMA PrefixKept ==
    ASSUME Lived, NEW x \in Gens, NEW r \in Records, gens' = [gens EXCEPT ![x] = r],
           NEW k, At(r, k) = At(gens[x], k)
    PROVE  Prefix(gens', k) = Prefix(gens, k)
  <1>1. /\ DOMAIN gens' = DOMAIN gens /\ gens'[x] = r
        /\ \A h \in DOMAIN gens : h # x => gens'[h] = gens[h]
    BY Journaled DEF Gens
  <1> QED BY <1>1 DEF Prefix

LEMMA RightKept ==
    ASSUME Lived, Hist, NEW x \in Gens, NEW r \in Records, gens' = [gens EXCEPT ![x] = r],
           NEW g \in Gens, g # x,
           Owned(gens[g]) => At(r, gens[g].started) = At(gens[x], gens[g].started),
           Owned(gens[g]) /\ gens[g].ended # 0 => At(r, gens[g].ended) = At(gens[x], gens[g].ended)
    PROVE  Right(gens', g)
  <1>1. gens'[g] = gens[g] BY Journaled
  <1>2. Right(gens, g) BY DEF Hist
  <1> SUFFICES ASSUME Owned(gens[g])
               PROVE  StartRight(gens', g) /\ (gens[g].ended # 0 => PlanRight(gens', g) /\ ThreadRight(gens', g))
    BY <1>1 DEF Right
  <1>3. StartRight(gens', g)
    <2>1. Prefix(gens', gens[g].started) = Prefix(gens, gens[g].started) BY PrefixKept
    <2> QED BY <1>1, <1>2, <2>1 DEF Right, StartRight
  <1>4. ASSUME gens[g].ended # 0 PROVE PlanRight(gens', g) /\ ThreadRight(gens', g)
    <2>1. Prefix(gens', gens[g].ended) = Prefix(gens, gens[g].ended) BY <1>4, PrefixKept
    <2>2. PlanRight(gens', g) BY <1>1, <1>2, <1>4, <2>1 DEF Right, PlanRight
    <2>3. ThreadRight(gens', g) BY <1>1, <1>2, <1>4, <2>1 DEF Right, ThreadRight
    <2> QED BY <2>2, <2>3
  <1> QED BY <1>3, <1>4

\* The clocks of an owned run are not ahead of the journal.
LEMMA Clocks ==
    ASSUME Lived, NEW g \in Gens, Owned(gens[g])
    PROVE  /\ gens[g].started \in 1..now /\ gens[g].ended \in 0..now /\ now \in Nat
           /\ gens[g].ended # 0 => gens[g].started < gens[g].ended
  <1>1. Stage(gens[g]) /\ gens[g] \in Records /\ now \in Nat BY Bounds DEF Lived, Shaped
  <1> QED BY <1>1 DEF Stage

LEMMA HistLeave ==
    ASSUME Lived, Hist, NEW x \in Gens, Cancel(x) \/ Checkpoint(x)
    PROVE  Hist'
  <1>1. PICK r \in Records :
           /\ gens' = [gens EXCEPT ![x] = r] /\ r.prompt = gens[x].prompt
           /\ r.started = gens[x].started /\ r.ended = now + 1 /\ ~Owned(r) /\ ~Owned(gens[x])
           /\ gens[x].ended = 0 /\ gens[x].status = "ACCEPTED"
    BY LeaveEffect
  <1>2. Gens' = Gens /\ gens'[x] = r BY <1>1, Journaled
  <1>3. gens[x].started = 0
    <2>1. Stage(gens[x]) BY DEF Lived, Shaped
    <2> QED BY <1>1, <2>1 DEF Stage
  <1>4. ASSUME NEW k \in 0..now PROVE At(r, k) = At(gens[x], k)
    <2>1. now \in Nat BY Bounds
    <2>2. At(r, k) = Record(r.prompt) BY <1>1, <1>3, <2>1 DEF At
    <2>3. At(gens[x], k) = Record(gens[x].prompt) BY <1>1, <1>3, <2>1 DEF At
    <2> QED BY <1>1, <2>2, <2>3
  <1> SUFFICES ASSUME NEW g \in Gens PROVE Right(gens', g)
    BY <1>2 DEF Hist
  <1>5. CASE g = x BY <1>1, <1>2, <1>5 DEF Right
  <1>6. CASE g # x
    <2>1. Owned(gens[g]) => gens[g].started \in 0..now /\ gens[g].ended \in 0..now
      BY Clocks
    <2>2. Owned(gens[g]) => At(r, gens[g].started) = At(gens[x], gens[g].started) BY <1>4, <2>1
    <2>3. Owned(gens[g]) /\ gens[g].ended # 0 => At(r, gens[g].ended) = At(gens[x], gens[g].ended)
      BY <1>4, <2>1
    <2> QED BY <1>1, <1>6, <2>2, <2>3, RightKept
  <1> QED BY <1>5, <1>6

\* A start is decided on the history itself: no other run is at work.
LEMMA HistStart ==
    ASSUME Lived, Hist, NEW x \in Gens, NEW p \in Policies, NEW c \in Capabilities, Start(x, p, c)
    PROVE  Hist'
  <1> DEFINE q == Plan(gens, x, p, c)
             context == ParentContext(gens, x)
  <1>1. PICK r \in Records :
           /\ gens' = [gens EXCEPT ![x] = r] /\ r.prompt = gens[x].prompt /\ r.plan = q
           /\ r.policy = p /\ r.caps = c /\ r.started = now + 1 /\ r.context = context /\ r.ended = 0
           /\ gens[x].status = "ACCEPTED" /\ gens[x] = Record(gens[x].prompt)
           /\ \A h \in Gens : gens[h].status # "RUNNING"
           /\ q # Refused /\ JournalTakesContext(context, gens, x)
    BY StartEffect
  <1>2. q.requested = gens[x].prompt.mode BY <1>1, PlanMakes
  <1> HIDE DEF q, context
  <1>3. Gens' = Gens /\ gens'[x] = r /\ \A h \in Gens : h # x => gens'[h] = gens[h]
    BY <1>1, Journaled
  <1>4. now \in Nat BY Bounds
  <1>5. gens[x].started = 0 /\ gens[x].ended = 0
    <2> DEFINE y == gens[x].prompt
    <2>1. Record(y).started = 0 /\ Record(y).ended = 0 BY DEF Record
    <2> QED BY <1>1, <2>1
  <1>6. ASSUME NEW k \in 0..(now + 1) PROVE At(r, k) = At(gens[x], k)
    <2>1. At(r, k) = Record(r.prompt) BY <1>1, <1>4 DEF At
    <2>2. At(gens[x], k) = Record(gens[x].prompt) BY <1>4, <1>5 DEF At
    <2> QED BY <1>1, <2>1, <2>2
  <1> SUFFICES ASSUME NEW g \in Gens PROVE Right(gens', g)
    BY <1>3 DEF Hist
  <1>7. CASE g # x
    <2>1. Owned(gens[g]) => gens[g].started \in 0..(now + 1) /\ gens[g].ended \in 0..(now + 1)
      BY <1>4, Clocks
    <2>2. Owned(gens[g]) => At(r, gens[g].started) = At(gens[x], gens[g].started) BY <1>6, <2>1
    <2>3. Owned(gens[g]) /\ gens[g].ended # 0 => At(r, gens[g].ended) = At(gens[x], gens[g].ended)
      BY <1>6, <2>1
    <2> QED BY <1>1, <1>7, <2>2, <2>3, RightKept
  <1>8. CASE g = x
    <2>1. ASSUME NEW h \in Gens PROVE At(gens[h], now + 1) = gens[h]
      <3>1. Stage(gens[h]) /\ gens[h] \in Records /\ gens[h].status # "RUNNING"
        BY <1>1, Bounds DEF Lived, Shaped
      <3>2. CASE gens[h].status = "ACCEPTED"
        <4>1. gens[h] = Record(gens[h].prompt) BY <3>1, <3>2 DEF Stage
        <4> DEFINE y == gens[h].prompt
        <4>2. Record(y).started = 0 /\ Record(y).ended = 0 BY DEF Record
        <4>3. gens[h].started = 0 /\ gens[h].ended = 0 BY <4>1, <4>2
        <4>4. At(gens[h], now + 1) = Record(gens[h].prompt) BY <1>4, <4>3 DEF At
        <4> QED BY <4>1, <4>4
      <3>3. CASE gens[h].status # "ACCEPTED"
        <4>1. gens[h].ended \in 1..now BY <3>1, <3>3 DEF Stage
        <4> QED BY <1>4, <4>1 DEF At
      <3> QED BY <3>2, <3>3
    <2>2. Prefix(gens', now + 1) = gens
      <3>1. Prefix(gens', now + 1) = Prefix(gens, now + 1)
        <4>1. At(r, now + 1) = At(gens[x], now + 1) BY <1>4, <1>6
        <4> QED BY <1>1, <4>1, PrefixKept
      <3>2. Prefix(gens, now + 1) = [h \in Gens |-> gens[h]] BY <2>1 DEF Prefix, Gens
      <3>3. gens = [h \in Gens |-> gens[h]] BY DEF Lived, Typed, Gens
      <3> QED BY <3>1, <3>2, <3>3
    <2>3. StartRight(gens', x)
      BY <1>1, <1>2, <1>3, <2>2 DEF StartRight, q, context
    <2> QED BY <1>1, <1>3, <1>8, <2>3 DEF Right
  <1> QED BY <1>7, <1>8

LEMMA AtRecord ==
    ASSUME NEW r \in Records, NEW k
    PROVE  At(r, k).prompt = r.prompt /\ At(r, k).plan \in {r.plan, Nothing}
  <1>1. Record(r.prompt).prompt = r.prompt /\ Record(r.prompt).plan = Nothing BY DEF Record
  <1>2. /\ [r EXCEPT !.status = "RUNNING", !.result = NoResult].prompt = r.prompt
        /\ [r EXCEPT !.status = "RUNNING", !.result = NoResult].plan = r.plan
    BY DEF Records
  <1>3. At(r, k) \in {r, [r EXCEPT !.status = "RUNNING", !.result = NoResult], Record(r.prompt)}
    BY DEF At
  <1> QED BY <1>1, <1>2, <1>3

LEMMA AtUnowned ==
    ASSUME NEW r \in Records, Stage(r), ~Owned(r), NEW k
    PROVE  ~Owned(At(r, k)) /\ At(r, k).result.thread = 0
  <1>1. r.plan = Nothing /\ r.started = 0 /\ r.result.thread = 0 BY DEF Owned, Stage
  <1>2. ~Owned(At(r, k)) BY <1>1, AtRecord DEF Owned
  <1>3. Record(r.prompt).result.thread = 0 BY DEF Record, NoResult
  <1>4. At(r, k) \in {r, Record(r.prompt)} BY <1>1 DEF At
  <1> QED BY <1>1, <1>2, <1>3, <1>4

LEMMA FromIn ==
    ASSUME Lived, NEW h \in Gens
    PROVE  gens[h].plan.from \in Gens \cup {0}
  <1>1. CASE gens[h].plan.mode = "reuse" BY <1>1, EdgesHold
  <1>2. CASE gens[h].plan.mode # "reuse"
    <2>1. Planned(h) BY DEF Lived, Shaped
    <2> QED BY <1>2, <2>1 DEF Planned, Nothing
  <1> QED BY <1>1, <1>2

\* Another prompt changes no decision: it is not one that has run.
LEMMA HistAccept ==
    ASSUME Lived, Hist, NEW p \in Candidates, Accept(p)
    PROVE  Hist'
  <1> DEFINE n == Len(gens)
  <1>1. /\ n \in Nat /\ Gens = 1..n /\ Gens' = 1..(n + 1) /\ gens'[n + 1] = Record(p)
        /\ \A h \in Gens : gens'[h] = gens[h] /\ gens[h] \in Records
        /\ DOMAIN gens = 1..n /\ DOMAIN gens' = 1..(n + 1)
    BY Accepted, Bounds DEF Gens
  <1> HIDE DEF n
  <1>2. Record(p).plan = Nothing /\ Record(p).prompt = p /\ Record(p).result.thread = 0
        /\ Record(p).started = 0 /\ Record(p).ended = 0
    BY DEF Record, NoResult
  <1>3. ASSUME NEW k
        PROVE  /\ Agree(Prefix(gens, k), Prefix(gens', k), n, n + 1, 1..n)
               /\ \A h \in 1..n : Prefix(gens, k)[h] = Prefix(gens', k)[h]
               /\ Prefix(gens', k)[n + 1].result.thread = 0
    <2> DEFINE s == Prefix(gens, k)
               s2 == Prefix(gens', k)
    <2>1. DOMAIN s = 1..n /\ DOMAIN s2 = 1..(n + 1) BY <1>1 DEF Prefix
    <2>2. \A h \in 1..n : s[h] = At(gens[h], k) /\ s[h] = s2[h] BY <1>1 DEF Prefix
    <2>3. s2[n + 1] = Record(p)
      <3>1. s2[n + 1] = At(Record(p), k) BY <1>1 DEF Prefix
      <3>2. At(Record(p), k) = Record(p) BY <1>2 DEF At
      <3> QED BY <3>1, <3>2
    <2>4. ~Owned(s2[n + 1]) /\ s2[n + 1].result.thread = 0 BY <1>2, <2>3 DEF Owned
    <2>5. ASSUME NEW h \in 1..n PROVE s[h].plan.from \in (1..n) \cup {0}
      <3>1. s[h].plan \in {gens[h].plan, Nothing} BY <1>1, <2>2, AtRecord
      <3>2. gens[h].plan.from \in (1..n) \cup {0} BY <1>1, FromIn
      <3> QED BY <3>1, <3>2 DEF Nothing
    <2> HIDE DEF s, s2
    <2>6. Agree(s, s2, n, n + 1, 1..n)
      <3>1. \A h \in (n + 1)..(n + 1) : ~Owned(s2[h])
        <4>1. \A h \in (n + 1)..(n + 1) : h = n + 1 BY <1>1
        <4> QED BY <2>4, <4>1
      <3>2. n <= n + 1 /\ n + 1 \in Nat BY <1>1
      <3> QED BY <1>1, <2>1, <2>2, <2>5, <3>1, <3>2 DEF Agree
    <2> QED BY <2>2, <2>4, <2>6 DEF s, s2
  <1>4. ASSUME NEW g \in Gens, Owned(gens[g]), NEW k, NEW policy, NEW caps
        PROVE  /\ Plan(Prefix(gens', k), g, policy, caps) = Plan(Prefix(gens, k), g, policy, caps)
               /\ ParentContext(Prefix(gens', k), g) = ParentContext(Prefix(gens, k), g)
               /\ \A form : JournalTakesContext(form, Prefix(gens, k), g)
                            => JournalTakesContext(form, Prefix(gens', k), g)
               /\ Known(Prefix(gens', k)) = Known(Prefix(gens, k))
    <2> DEFINE s == Prefix(gens, k)
               s2 == Prefix(gens', k)
    <2>1. Agree(s, s2, n, n + 1, 1..n) /\ \A h \in 1..n : s[h] = s2[h] BY <1>3
    <2>2. s2[n + 1].result.thread = 0 BY <1>3
    <2>3. DOMAIN s = 1..n /\ DOMAIN s2 = 1..(n + 1) BY <1>1 DEF Prefix
    <2>4. s[g].prompt.target \in (1..n) \cup {0}
      <3>1. s[g].prompt = gens[g].prompt BY <1>1, AtRecord DEF Prefix
      <3>2. gens[g].prompt.target < g BY DEF Lived, Shaped
      <3>3. gens[g].prompt.target \in Nat
        BY <1>1, Constants DEF Records, Prompts, Ids
      <3> QED BY <1>1, <3>1, <3>2, <3>3
    <2>5. g # 1 => g - 1 \in 1..n BY <1>1
    <2>6. g # 1 => s[g - 1] = s2[g - 1] BY <2>1, <2>5
    <2> HIDE DEF s, s2
    <2>7. Plan(s, g, policy, caps) = Plan(s2, g, policy, caps) BY <1>1, <2>1, <2>4, SamePlan
    <2>8. ParentContext(s2, g) = ParentContext(s, g) BY <2>6 DEF ParentContext
    <2>9. ASSUME NEW form, JournalTakesContext(form, s, g) PROVE JournalTakesContext(form, s2, g)
      <3>1. CASE g = 1 BY <1>1, <2>9, <3>1 DEF JournalTakesContext
      <3>2. CASE g # 1 BY <2>6, <2>9, <3>2 DEF JournalTakesContext
      <3> QED BY <3>1, <3>2
    <2>10. Known(s2) = Known(s)
      <3>1. DOMAIN s2 = DOMAIN s \cup {n + 1} BY <1>1, <2>3
      <3>2. \A h \in DOMAIN s : s[h] = s2[h] BY <2>1, <2>3
      <3> QED BY <2>2, <3>1, <3>2 DEF Known
    <2> QED BY <2>7, <2>8, <2>9, <2>10 DEF s, s2
  <1> SUFFICES ASSUME NEW g \in Gens', Owned(gens'[g])
               PROVE  StartRight(gens', g) /\ (gens'[g].ended # 0 => PlanRight(gens', g) /\ ThreadRight(gens', g))
    BY DEF Hist, Right
  <1>5. g \in Gens /\ gens'[g] = gens[g] /\ Owned(gens[g])
    <2>1. g # n + 1 BY <1>1, <1>2 DEF Owned
    <2> QED BY <1>1, <2>1
  <1>6. StartRight(gens, g) /\ (gens[g].ended # 0 => PlanRight(gens, g) /\ ThreadRight(gens, g))
    BY <1>5 DEF Hist, Right
  <1>7. StartRight(gens', g)
    <2> DEFINE k == gens[g].started
    <2> HIDE DEF k
    <2>1. /\ Plan(Prefix(gens', k), g, gens[g].policy, gens[g].caps)
                = Plan(Prefix(gens, k), g, gens[g].policy, gens[g].caps)
          /\ ParentContext(Prefix(gens', k), g) = ParentContext(Prefix(gens, k), g)
          /\ JournalTakesContext(gens[g].context, Prefix(gens, k), g)
             => JournalTakesContext(gens[g].context, Prefix(gens', k), g)
      BY <1>4, <1>5
    <2>2. gens'[g].started = k /\ gens[g].started = k BY <1>5 DEF k
    <2> QED BY <1>5, <1>6, <2>1, <2>2 DEF StartRight
  <1>8. ASSUME gens'[g].ended # 0 PROVE PlanRight(gens', g) /\ ThreadRight(gens', g)
    <2> DEFINE k == gens[g].ended
    <2> HIDE DEF k
    <2>1. /\ Plan(Prefix(gens', k), g, gens[g].policy, gens[g].caps)
                = Plan(Prefix(gens, k), g, gens[g].policy, gens[g].caps)
          /\ Known(Prefix(gens', k)) = Known(Prefix(gens, k))
      BY <1>4, <1>5
    <2>2. gens'[g].ended = k /\ gens[g].ended = k BY <1>5 DEF k
    <2>3. PlanRight(gens', g) BY <1>5, <1>6, <1>8, <2>1, <2>2 DEF PlanRight
    <2>4. ThreadRight(gens', g) BY <1>5, <1>6, <1>8, <2>1, <2>2 DEF ThreadRight
    <2> QED BY <2>3, <2>4
  <1> QED BY <1>7, <1>8

\* What the others did was over when x started, as long as x is at work.
LEMMA OverBefore ==
    ASSUME Lived, NEW x \in Gens, gens[x].status = "RUNNING", NEW h \in Gens, h # x, Owned(gens[h])
    PROVE  gens[h].ended \in 1..(gens[x].started - 1) /\ gens[h].started \in 1..(gens[x].started - 1)
  <1>1. Stage(gens[x]) BY DEF Lived, Shaped
  <1>2. Owned(gens[x]) /\ gens[x].ended = 0 BY <1>1 DEF Stage
  <1>3. gens[h].ended # 0 /\ gens[h].ended < gens[x].started BY <1>2 DEF Lived, Serial
  <1>4. gens[h].started < gens[h].ended /\ gens[h].started \in 1..now /\ gens[h].ended \in 0..now
    BY <1>3, Clocks
  <1>5. gens[x].started \in 1..now /\ now \in Nat BY <1>2, Clocks
  <1> QED BY <1>3, <1>4, <1>5

\* A run ends among the decisions and the sessions it started among.
LEMMA HistEnd ==
    ASSUME Lived, Hist, NEW x \in Gens, NEW status \in {"COMPLETED", "INTERRUPTED"},
           NEW result \in Results, Ending(x, status, result)
    PROVE  Hist'
  <1>0. now \in Nat /\ gens[x].started \in Nat /\ gens[x] \in Records BY Bounds DEF Records
  <1> PICK m \in Nat : m = now + 1 BY <1>0
  <1> PICK k \in Nat : k = gens[x].started BY <1>0
  <1>1. PICK r \in Records :
           /\ r.prompt = gens[x].prompt /\ r.plan = gens[x].plan /\ r.policy = gens[x].policy
           /\ r.caps = gens[x].caps /\ r.started = k /\ r.context = gens[x].context
           /\ r.ended = m /\ r.status = status /\ r.result = result
           /\ gens' = [gens EXCEPT ![x] = r] /\ Owned(gens[x]) /\ gens[x].ended = 0 /\ Owned(r)
    BY EndingEffect
  <1>2. gens[x].status = "RUNNING" /\ (status = "COMPLETED" /\ ~result.typed => Observes(x, result.thread))
    BY DEF Ending
  <1>3. Gens' = Gens /\ gens'[x] = r /\ \A h \in Gens : h # x => gens'[h] = gens[h]
    BY <1>1, Journaled
  <1>4. now \in Nat /\ k \in 1..now BY <1>1, Clocks
  <1>5. \A h \in Gens : h # x /\ Owned(gens[h]) =>
            gens[h].ended \in 1..(k - 1) /\ gens[h].started \in 1..(k - 1)
    BY <1>2, OverBefore
  <1>6. gens[x].started = k /\ m = now + 1 OBVIOUS
  <1>7. ASSUME NEW j \in 0..k PROVE At(r, j) = At(gens[x], j)
    <2>1. At(r, j) = Record(r.prompt) BY <1>1, <1>4 DEF At
    <2>2. At(gens[x], j) = Record(gens[x].prompt) BY <1>1, <1>4, <1>6 DEF At
    <2> QED BY <1>1, <2>1, <2>2
  <1> DEFINE s == Prefix(gens', k)
             s2 == Prefix(gens', m)
             U == Gens \ {x}
  <1> HIDE DEF s, s2
  <1>8. Right(gens, x) BY DEF Hist
  <1>9. Prefix(gens, k) = s
    <2>1. At(r, k) = At(gens[x], k) BY <1>4, <1>7
    <2> QED BY <1>1, <2>1, PrefixKept DEF s
  <1>10. StartRight(gens', x)
    BY <1>1, <1>3, <1>6, <1>8, <1>9 DEF Right, StartRight, s
  <1>11. ASSUME NEW h \in U
         PROVE  /\ s[h] = At(gens[h], k) /\ s2[h] = At(gens[h], m)
                /\ Owned(gens[h]) => s[h] = gens[h] /\ s2[h] = gens[h]
                /\ ~Owned(gens[h]) => /\ ~Owned(s[h]) /\ ~Owned(s2[h])
                                      /\ s[h].result.thread = 0 /\ s2[h].result.thread = 0
                /\ s[h].prompt = gens[h].prompt /\ s2[h].prompt = gens[h].prompt
    <2>1. s[h] = At(gens[h], k) /\ s2[h] = At(gens[h], m)
      BY <1>3 DEF Prefix, Gens, s, s2
    <2>2. gens[h] \in Records /\ Stage(gens[h]) BY Bounds DEF Lived, Shaped
    <2>3. Owned(gens[h]) => At(gens[h], k) = gens[h] /\ At(gens[h], m) = gens[h]
      <3> SUFFICES ASSUME Owned(gens[h]) PROVE At(gens[h], k) = gens[h] /\ At(gens[h], m) = gens[h]
        OBVIOUS
      <3>1. gens[h].ended \in 1..(k - 1) /\ gens[h].ended \in 1..(m - 1) BY <1>4, <1>5
      <3> QED BY <3>1 DEF At
    <2>4. ~Owned(gens[h]) => /\ ~Owned(At(gens[h], k)) /\ ~Owned(At(gens[h], m))
                             /\ At(gens[h], k).result.thread = 0 /\ At(gens[h], m).result.thread = 0
      BY <2>2, AtUnowned
    <2>5. At(gens[h], k).prompt = gens[h].prompt /\ At(gens[h], m).prompt = gens[h].prompt
      BY <2>2, AtRecord
    <2> QED BY <2>1, <2>3, <2>4, <2>5
  <1>12. DOMAIN s = Gens /\ DOMAIN s2 = Gens BY <1>3 DEF Prefix, Gens, s, s2
  <1>13. s2[x].prompt = gens[x].prompt /\ s[x].prompt = gens[x].prompt /\ s2[x].result.thread = 0
    <2>1. s2[x] = At(r, m) /\ s[x] = At(r, k) BY <1>3 DEF Prefix, Gens, s, s2
    <2>2. r.ended \notin 1..(m - 1) /\ r.started \in 1..(m - 1) BY <1>1, <1>4
    <2>3. At(r, m) = [r EXCEPT !.status = "RUNNING", !.result = NoResult] BY <2>2 DEF At
    <2>4. At(r, m).result.thread = 0
      <3>1. [r EXCEPT !.status = "RUNNING", !.result = NoResult].result = NoResult BY DEF Records
      <3>2. At(r, m).result = NoResult BY <2>3, <3>1
      <3>3. NoResult.thread = 0 BY DEF NoResult
      <3> QED BY <3>2, <3>3
    <2>5. At(r, m).prompt = r.prompt /\ At(r, k).prompt = r.prompt BY AtRecord
    <2> QED BY <1>1, <2>1, <2>4, <2>5
  <1>14. ASSUME NEW h \in U PROVE s[h].plan = s2[h].plan /\ s[h].plan.from \in U \cup {0}
    <2>1. CASE Owned(gens[h])
      <3>1. s[h].plan = gens[h].plan /\ s2[h].plan = gens[h].plan BY <1>11, <2>1
      <3>2. gens[h].plan.from \in Gens \cup {0} BY FromIn
      <3>3. gens[h].plan.from # x
        <4>1. CASE gens[h].plan.mode = "reuse" BY <1>2, <4>1, Unresumed
        <4>2. CASE gens[h].plan.mode # "reuse"
          <5>1. Planned(h) /\ x # 0 BY Bounds DEF Lived, Shaped
          <5> QED BY <4>2, <5>1 DEF Planned, Nothing
        <4> QED BY <4>1, <4>2
      <3> QED BY <3>1, <3>2, <3>3
    <2>2. CASE ~Owned(gens[h])
      <3>1. s[h].plan = Nothing /\ s2[h].plan = Nothing BY <1>11, <2>2 DEF Owned
      <3> QED BY <3>1 DEF Nothing
    <2> QED BY <2>1, <2>2
  <1>15. \A h \in U : Owned(s[h]) => s[h] = s2[h] BY <1>11
  <1>16. \A h \in U : s[h].prompt = s2[h].prompt BY <1>11
  <1>17. \A h \in U : Owned(gens[h]) => s2[h] = gens[h] BY <1>11
  <1>18. \A h \in U : ~Owned(gens[h]) => s2[h].result.thread = 0 BY <1>11
  <1>19. Gens = 1..Len(gens) /\ Len(gens) \in Nat BY Bounds
  <1>20. s[x].prompt.target \in U \cup {0}
    <2>1. gens[x].prompt.target < x BY DEF Lived, Shaped
    <2>2. gens[x].prompt.target \in Nat BY Bounds, Constants DEF Records, Prompts, Ids
    <2> QED BY <1>13, <1>19, <2>1, <2>2
  <1>21. Plan(s, x, r.policy, r.caps) = Plan(s2, x, r.policy, r.caps)
    <2> DEFINE n == Len(gens)
    <2>1. Agree(s, s2, n, n, U)
      <3>1. \A h \in (n + 1)..n : ~Owned(s2[h]) BY <1>19
      <3>2. n \in Nat /\ n <= n /\ DOMAIN s = 1..n /\ DOMAIN s2 = 1..n /\ U \subseteq 1..n
        BY <1>12, <1>19
      <3> HIDE DEF U, n
      <3> QED BY <1>14, <1>15, <1>16, <3>1, <3>2 DEF Agree
    <2>2. x \in 1..n /\ \A h \in 1..n : h \in U \/ h = x BY <1>19
    <2>3. s[x].prompt = s2[x].prompt BY <1>13
    <2> HIDE DEF U, n
    <2> QED BY <1>20, <2>1, <2>2, <2>3, SamePlan
  <1>22. PlanRight(gens', x)
    <2>1. r.plan = Plan(s, x, r.policy, r.caps)
      BY <1>1, <1>3, <1>10 DEF StartRight, s
    <2> QED BY <1>1, <1>3, <1>21, <2>1 DEF PlanRight, s2
  <1>23. ThreadRight(gens', x)
    <2> SUFFICES ASSUME status = "COMPLETED", ~result.typed
                 PROVE  /\ result.thread # 0
                        /\ IF gens[x].plan.mode = "reuse" THEN result.thread = gens[x].plan.thread
                           ELSE \/ result.thread \notin Known(s2)
                                \/ gens[x].plan.fallback = "REUSE_CAPABILITIES_INCOMPATIBLE"
      BY <1>1, <1>3 DEF ThreadRight, s2
    <2>1. Observes(x, result.thread) BY <1>2
    <2>2. Known(s2) \subseteq Known(Before(k + 1))
      <3> SUFFICES ASSUME NEW h \in Gens, s2[h].result.thread # 0
                   PROVE  s2[h].result.thread \in Known(Before(k + 1))
        BY <1>12 DEF Known
      <3>1. h # x BY <1>13
      <3>2. Owned(gens[h]) /\ s2[h] = gens[h] BY <1>17, <1>18, <3>1
      <3>3. gens[h].ended \in 1..(k + 1 - 1) BY <1>4, <1>5, <3>1, <3>2
      <3>4. Before(k + 1)[h] = gens[h] BY <3>3, BeforeEnded
      <3>5. h \in DOMAIN Before(k + 1) BY DEF Before
      <3> QED BY <3>2, <3>4, <3>5 DEF Known
    <2> QED BY <1>6, <2>1, <2>2 DEF Observes
  <1> SUFFICES ASSUME NEW g \in Gens PROVE Right(gens', g)
    BY <1>3 DEF Hist
  <1>24. CASE g = x BY <1>10, <1>22, <1>23, <1>24 DEF Right
  <1>25. CASE g # x
    <2>1. Owned(gens[g]) => gens[g].started \in 0..k /\ gens[g].ended \in 0..k
      BY <1>4, <1>5, <1>25
    <2>2. Owned(gens[g]) => At(r, gens[g].started) = At(gens[x], gens[g].started) BY <1>7, <2>1
    <2>3. Owned(gens[g]) /\ gens[g].ended # 0 => At(r, gens[g].ended) = At(gens[x], gens[g].ended)
      BY <1>7, <2>1
    <2> QED BY <1>1, <1>25, <2>2, <2>3, RightKept
  <1> QED BY <1>24, <1>25

LEMMA HistInit == Init => Hist
  BY DEF Init, Hist, Gens

LEMMA HistNext == Lived /\ Hist /\ [Next]_vars => Hist'
  <1> SUFFICES ASSUME Lived, Hist, [Next]_vars PROVE Hist'
    OBVIOUS
  <1>1. CASE UNCHANGED <<gens, now>>
    <2>1. gens' = gens BY <1>1
    <2> QED BY <2>1 DEF Hist, Gens
  <1>2. CASE Next
    BY <1>1, <1>2, StepCases, HistAccept, HistLeave, HistStart, HistEnd
  <1> QED BY <1>1, <1>2 DEF vars

\* What was live when it was journaled is accepted when it is replayed: as long as no operator typed
\* a result, every command finds each recorded plan, parent context and session again.
THEOREM RefusedOnlyAfterTypingCorrect == Spec => []RefusedOnlyAfterTyping
  <1>1. Hist => RefusedOnlyAfterTyping BY HistHolds DEF RefusedOnlyAfterTyping
  <1> QED BY <1>1, HistInit, HistNext, AlwaysLived, PTL DEF Spec

=============================================================================
