--------------------------- MODULE CoreDecisions ---------------------------
(***************************************************************************)
(* The decisions of a Core V1 store: a scope fixes a snapshot, its         *)
(* evaluation persists what was found and read there for each candidate,   *)
(* the problem adds the cost of each candidate that counts, the decision   *)
(* records the outcome.  None of the four rows is written again.  The      *)
(* status of a decision relative to a snapshot is computed from them and   *)
(* from the knowledge of CoreKnowledge each time it is asked for, and      *)
(* reopening the store validates every row again.                          *)
(*                                                                         *)
(* One case stands for a scope with one problem and one decision.  All     *)
(* scopes share a context, a rule and a manifest of candidates.  Only the  *)
(* current row formats are modelled: the evaluation writes no other.       *)
(***************************************************************************)
EXTENDS CoreKnowledge

CONSTANTS
    Cases,
    Candidates,
    RealizesSlot, \* Candidates -> the relation that puts one in scope
    ReadSlots,    \* Candidates -> the properties the rule reads of one
    CostSlot,     \* Candidates -> the property that holds its cost
    Covering,     \* Candidates -> the sets of facts that make the rule TRUE
    Shown,        \* the facts whose scope the context shows
    Exact,        \* the facts with an exact epistemic status
    CostOf,       \* Facts -> Nat
    NoFact

ASSUME DecisionsAssumption ==
    /\ Shown \subseteq Facts
    /\ Exact \subseteq Facts
    /\ Covering \in [Candidates -> SUBSET SUBSET Facts]
    /\ CostOf \in [Facts -> Nat]
    /\ NoFact \notin Facts

VARIABLES
    scope,        \* the snapshot each case is about
    grounding,    \* what its evaluation observed of each candidate
    objective,    \* the cost record its problem gives each candidate
    outcome,      \* its decision
    rows,         \* the persisted rows
    isolated      \* the rows the last reopening refused

decisions == <<scope, grounding, objective, outcome, rows, isolated>>
vars == <<knowledge, decisions>>

Kinds == {"scope", "grounding", "problem", "decision"}
Truths == {"TRUE", "FALSE", "UNKNOWN", "ERROR"}
Observation == [truth : Truths, found : SUBSET Knowledge,
                included : SUBSET Knowledge, reads : SUBSET Facts]
Nothing == [truth |-> "ERROR", found |-> {}, included |-> {}, reads |-> {}]
Undecided == [status |-> "NONE", best |-> {}]
Statuses == {"NONE", "RESOLVED", "NEEDS_INFORMATION", "NO_ADMISSIBLE_CANDIDATE"}

Stored(kind, k) == <<kind, k>> \in rows
Live(kind, k) == Stored(kind, k) /\ <<kind, k>> \notin isolated

\* A row is stored only after the row it rests on.
RowOrder ==
    \A k \in Cases :
        /\ Stored("decision", k) => Stored("problem", k)
        /\ Stored("problem", k) => Stored("grounding", k)
        /\ Stored("grounding", k) => Stored("scope", k)
        /\ Stored("scope", k) => scope[k] \in snapshots

\* Every variable has its type and the rows are in their order.
TypeOK ==
    /\ KnowledgeTypeOK
    /\ scope \in [Cases -> Snapshots \cup {NoSnapshot}]
    /\ grounding \in [Cases -> [Candidates -> Observation]]
    /\ objective \in [Cases -> [Candidates -> Facts \cup {NoFact}]]
    /\ outcome \in [Cases -> [status : Statuses, best : SUBSET Candidates]]
    /\ rows \subseteq Kinds \X Cases
    /\ isolated \subseteq rows
    /\ RowOrder

Init ==
    /\ KnowledgeInit
    /\ scope = [k \in Cases |-> NoSnapshot]
    /\ grounding = [k \in Cases |-> [c \in Candidates |-> Nothing]]
    /\ objective = [k \in Cases |-> [c \in Candidates |-> NoFact]]
    /\ outcome = [k \in Cases |-> Undecided]
    /\ rows = {}
    /\ isolated = {}

-----------------------------------------------------------------------------
(* Evaluating a candidate at a snapshot. *)

Found(c, s) == {r \in Effective(s) : SlotOf[r] = RealizesSlot[c]}
InContext == Shown \cup Derived
Read(slot, s) == {f \in Effective(s) \cap Shown : SlotOf[f] = slot}

\* A property read without exactly one answer leaves the rule UNKNOWN; one
\* whose only answer is not exact is an error of the observation.
Truth(c, s) ==
    LET answers == {Read(slot, s) : slot \in ReadSlots[c]}
    IN  IF \E f \in Facts \ Exact : {f} \in answers THEN "ERROR"
        ELSE IF \E A \in answers : \A f \in A : A # {f} THEN "UNKNOWN"
        ELSE IF UNION answers \in Covering[c] THEN "TRUE" ELSE "FALSE"

Observe(c, s) ==
    IF Truth(c, s) = "ERROR" THEN Nothing
    ELSE [truth |-> Truth(c, s), found |-> Found(c, s),
          included |-> Found(c, s) \cap InContext,
          reads |-> UNION {Read(slot, s) : slot \in ReadSlots[c]}]

\* A persisted observation still agrees with its snapshot: what it read is
\* effective there and the discovery gives what it gave.
Agrees(o, c, s) ==
    o.truth # "ERROR" =>
        /\ o.reads \subseteq Effective(s)
        /\ o.found = Found(c, s)
        /\ o.included = Found(c, s) \cap InContext

GroundingValid(k) == \A c \in Candidates : Agrees(grounding[k][c], c, scope[k])
Complete(k) == \A c \in Candidates : grounding[k][c].truth # "ERROR"

-----------------------------------------------------------------------------
(* Problem and decision. *)

\* The candidates that count: a relation of the context puts them in scope.
Weighed(k) == {c \in Candidates : grounding[k][c].included # {}}
Admissible(k) == {c \in Weighed(k) : grounding[k][c].truth = "TRUE"}

Eligible(c, s) == {f \in Effective(s) \cap Shown \cap Exact : SlotOf[f] = CostSlot[c]}

\* Each admissible candidate has one cost record at the snapshot, the others none.
Priced(k, choice) ==
    \A c \in Candidates :
        IF c \in Admissible(k) THEN Eligible(c, scope[k]) = {choice[c]}
        ELSE choice[c] = NoFact

ProblemValid(k) == Complete(k) /\ GroundingValid(k) /\ Priced(k, objective[k])

Cheapest(k) == {c \in Admissible(k) : \A x \in Admissible(k) :
                    CostOf[objective[k][c]] <= CostOf[objective[k][x]]}

Accepts(k, o) ==
    IF \E c \in Weighed(k) : grounding[k][c].truth = "UNKNOWN"
    THEN o = [status |-> "NEEDS_INFORMATION", best |-> {}]
    ELSE IF Admissible(k) = {}
    THEN o = [status |-> "NO_ADMISSIBLE_CANDIDATE", best |-> {}]
    ELSE o = [status |-> "RESOLVED", best |-> Cheapest(k)]

\* All the records a decision rests on, its derivations unfolded.
Cited(k) ==
    LET costs == {objective[k][c] : c \in Candidates} \ {NoFact}
    IN  costs \cup UNION {grounding[k][c].included \cup grounding[k][c].reads : c \in Candidates}

Basis(k) == Closure(Cited(k))

Status(k, s) ==
    IF ~ (/\ Live("decision", k) /\ Live("problem", k) /\ Live("grounding", k)
          /\ ProblemValid(k)
          /\ Accepts(k, outcome[k])
          /\ Descends(s, scope[k]))
    THEN "INVALID"
    ELSE IF Basis(k) \cap Masked(s) # {} THEN "STALE" ELSE "CURRENT"

-----------------------------------------------------------------------------
(* The operations. *)

CreateScope(k, s) ==
    /\ ~ Stored("scope", k)
    /\ s \in snapshots
    /\ scope' = [scope EXCEPT ![k] = s]
    /\ rows' = rows \cup {<<"scope", k>>}
    /\ UNCHANGED <<knowledge, grounding, objective, outcome, isolated>>

EvaluateScope(k) ==
    /\ Stored("scope", k) /\ ~ Stored("grounding", k)
    /\ grounding' = [grounding EXCEPT ![k] = [c \in Candidates |-> Observe(c, scope[k])]]
    /\ rows' = rows \cup {<<"grounding", k>>}
    /\ UNCHANGED <<knowledge, scope, objective, outcome, isolated>>

\* The problem is built again when it is admitted, and must be the same.
AdmitProblem(k, choice) ==
    /\ Live("grounding", k) /\ ~ Stored("problem", k)
    /\ Complete(k) /\ GroundingValid(k)
    /\ Priced(k, choice)
    /\ objective' = [objective EXCEPT ![k] = choice]
    /\ rows' = rows \cup {<<"problem", k>>}
    /\ UNCHANGED <<knowledge, scope, grounding, outcome, isolated>>

\* The decision is held against the stored problem, which is not held
\* against the knowledge again.
AdmitDecision(k, o) ==
    /\ Live("problem", k) /\ ~ Stored("decision", k)
    /\ Accepts(k, o)
    /\ outcome' = [outcome EXCEPT ![k] = o]
    /\ rows' = rows \cup {<<"decision", k>>}
    /\ UNCHANGED <<knowledge, scope, grounding, objective, isolated>>

\* Mutation: a grounding is lost once anything it read was replaced anywhere.
LostGroundingsAnywhere ==
    {k \in Cases : Stored("grounding", k) /\
        \E c \in Candidates, e \in edges : e.old \in grounding[k][c].reads}

\* What _load isolates: a grounding that no longer agrees with its snapshot,
\* a problem whose grounding is isolated or whose costs are not the ones
\* there, and the decision of an isolated problem.
LostGroundings == {k \in Cases : Stored("grounding", k) /\ ~ GroundingValid(k)}
LostProblems ==
    {k \in Cases : Stored("problem", k) /\ (k \in LostGroundings \/ ~ ProblemValid(k))}
LostDecisions ==
    {k \in Cases : Stored("decision", k) /\ (k \in LostProblems \/ ~ Accepts(k, outcome[k]))}

Reopen ==
    /\ isolated' = {"grounding"} \X LostGroundings
                   \cup {"problem"} \X LostProblems
                   \cup {"decision"} \X LostDecisions
    /\ UNCHANGED <<knowledge, scope, grounding, objective, outcome, rows>>

Decide(k) ==
    \/ \E s \in Snapshots : CreateScope(k, s)
    \/ EvaluateScope(k)
    \/ \E choice \in [Candidates -> Facts \cup {NoFact}] : AdmitProblem(k, choice)
    \/ \E o \in [status : Statuses, best : SUBSET Candidates] : AdmitDecision(k, o)

Next ==
    \/ KnowledgeNext /\ UNCHANGED decisions
    \/ \E k \in Cases : Decide(k)
    \/ Reopen

Spec == Init /\ [][Next]_vars
=============================================================================
