------------------------- MODULE CoreDecisionsProofs -------------------------
(***************************************************************************)
(* Proofs about the decisions of a Core V1 store, for any records, slots,  *)
(* snapshots, candidates and cases.                                        *)
(***************************************************************************)
EXTENDS CoreDecisionsProperties, TLAPS

-----------------------------------------------------------------------------
(* The view of a snapshot and the basis of a decision are the largest and  *)
(* the smallest of the sets closed under dependencies.                     *)

\* What is supported is part of the records, and holds what it was proved from.
LEMMA SupportedClosed ==
    ASSUME NEW R
    PROVE  /\ Supported(R) \subseteq R
           /\ \A x \in Supported(R) \cap derived : deps[x] \subseteq Supported(R)
<1>1. Supported(R) \subseteq R
  BY DEF Supported
<1>2. ASSUME NEW x \in Supported(R) \cap derived
      PROVE  deps[x] \subseteq Supported(R)
  <2>1. PICK C \in SUBSET (R \cap derived) :
            x \in C /\ \A y \in C : deps[y] \subseteq C \cup (R \ derived)
    BY <1>2 DEF Supported
  <2>2. C \cup (R \ derived) \subseteq Supported(R)
    BY <2>1 DEF Supported
  <2> QED BY <2>1, <2>2
<1> QED BY <1>1, <1>2

\* Any part of the records closed under dependencies is supported.
LEMMA SupportedLargest ==
    ASSUME NEW R, NEW Y \in SUBSET R,
           \A x \in Y \cap derived : deps[x] \subseteq Y
    PROVE  Y \subseteq Supported(R)
<1> DEFINE C == Y \cap derived
<1>1. C \in SUBSET (R \cap derived)
  OBVIOUS
<1>2. \A x \in C : deps[x] \subseteq C \cup (R \ derived)
  OBVIOUS
<1> QED BY <1>1, <1>2 DEF Supported

\* The closure holds what it was built from and is closed under dependencies.
LEMMA ClosureClosed ==
    ASSUME KnowledgeTypeOK, NEW X \in SUBSET Knowledge
    PROVE  /\ X \subseteq Closure(X)
           /\ \A x \in Closure(X) \cap derived : deps[x] \subseteq Closure(X)
<1>1. X \subseteq Closure(X)
  BY DEF Closure
<1>2. ASSUME NEW x \in Closure(X) \cap derived, NEW y \in deps[x]
      PROVE  y \in Closure(X)
  <2>1. y \in Knowledge
    BY <1>2 DEF KnowledgeTypeOK
  <2>2. ASSUME NEW C \in SUBSET derived,
               \A z \in derived : (z \in X \/ \E c \in C : z \in deps[c]) => z \in C
        PROVE  y \in X \cup UNION {deps[c] : c \in C}
    <3>1. x \in X \cup UNION {deps[c] : c \in C}
      BY <1>2, <2>2 DEF Closure
    <3>2. x \in C
      BY <1>2, <2>2, <3>1
    <3> QED BY <1>2, <3>2
  <2> QED BY <2>1, <2>2 DEF Closure
<1> QED BY <1>1, <1>2

\* It is the smallest such set.
LEMMA ClosureSmallest ==
    ASSUME NEW X, NEW Y, X \subseteq Y,
           \A x \in Y \cap derived : deps[x] \subseteq Y
    PROVE  Closure(X) \subseteq Y
<1> DEFINE C == Y \cap derived
<1>1. \A z \in derived : (z \in X \/ \E c \in C : z \in deps[c]) => z \in C
  OBVIOUS
<1>2. C \in SUBSET derived
  OBVIOUS
<1>3. Closure(X) \subseteq X \cup UNION {deps[c] : c \in C}
  BY <1>1, <1>2 DEF Closure
<1> QED BY <1>3

-----------------------------------------------------------------------------
(* Snapshots only hold more along a branch. *)

SnapshotsGrow ==
    \A s \in snapshots :
        /\ contents[s] \subseteq Records
        /\ parent[s] # NoSnapshot =>
              parent[s] \in snapshots /\ contents[parent[s]] \subseteq contents[s]

LEMMA Ancestors ==
    ASSUME SnapshotsGrow, NEW s \in snapshots, NEW a, Descends(s, a)
    PROVE  a \in snapshots /\ contents[a] \subseteq contents[s]
<1> DEFINE C == {x \in snapshots : contents[x] \subseteq contents[s]}
<1>1. C \in SUBSET snapshots /\ s \in C
  OBVIOUS
<1>2. \A x \in C : parent[x] \in C \cup {NoSnapshot}
  BY DEF SnapshotsGrow
<1> QED BY <1>1, <1>2 DEF Descends

LEMMA DescendsTransitive ==
    ASSUME NEW s, NEW a, NEW b, Descends(s, a), Descends(a, b)
    PROVE  Descends(s, b)
BY DEF Descends

\* A descendant sees every edge its ancestor sees.
LEMMA VisibleGrows ==
    ASSUME NEW s, NEW a, Descends(s, a)
    PROVE  Visible(a) \subseteq Visible(s)
BY DescendsTransitive DEF Visible

\* What is effective at a snapshot and rests on nothing masked at a
\* descendant is effective there.
LEMMA EffectiveCarries ==
    ASSUME KnowledgeTypeOK, SnapshotsGrow,
           NEW s \in snapshots, NEW a, Descends(s, a),
           NEW X \in SUBSET Effective(a),
           Closure(X) \cap Masked(s) = {}
    PROVE  Closure(X) \subseteq Effective(s)
<1> DEFINE A == contents[a] \ (Masked(a) \cup Foreign(a))
           S == contents[s] \ (Masked(s) \cup Foreign(s))
<1>1. a \in snapshots /\ contents[a] \subseteq contents[s]
  BY Ancestors
<1>2. Effective(a) = Supported(A) /\ Effective(s) = Supported(S)
  BY DEF Effective
<1>3. /\ Supported(A) \subseteq A
      /\ \A x \in Supported(A) \cap derived : deps[x] \subseteq Supported(A)
  BY SupportedClosed
<1>4. X \in SUBSET Knowledge
  BY <1>1, <1>2, <1>3 DEF KnowledgeTypeOK
<1>5. Closure(X) \subseteq Supported(A)
  <2> HIDE DEF A, S
  <2>1. \A Y : X \subseteq Y /\ (\A x \in Y \cap derived : deps[x] \subseteq Y)
                 => Closure(X) \subseteq Y
    BY ClosureSmallest
  <2> QED BY <1>2, <1>3, <2>1
<1>6. Foreign(s) \subseteq Foreign(a)
  BY VisibleGrows DEF Foreign
<1>7. Closure(X) \in SUBSET S
  BY <1>1, <1>3, <1>5, <1>6
<1>8. \A x \in Closure(X) \cap derived : deps[x] \subseteq Closure(X)
  BY <1>4, ClosureClosed
<1>9. \A R, Y : Y \in SUBSET R /\ (\A x \in Y \cap derived : deps[x] \subseteq Y)
                 => Y \subseteq Supported(R)
  BY SupportedLargest
<1> HIDE DEF A, S
<1>10. Closure(X) \subseteq Supported(S)
  BY <1>7, <1>8, <1>9, Zenon
<1> QED BY <1>2, <1>10

\* A valid problem cites only records effective at its snapshot.
LEMMA CitedEffective ==
    ASSUME NEW k \in Cases, ProblemValid(k)
    PROVE  Cited(k) \subseteq Effective(scope[k])
<1>1. ASSUME NEW c \in Candidates
      PROVE  grounding[k][c].included \cup grounding[k][c].reads \subseteq Effective(scope[k])
  BY DEF ProblemValid, Complete, GroundingValid, Agrees, Found
<1>2. ASSUME NEW c \in Candidates, objective[k][c] # NoFact
      PROVE  objective[k][c] \in Effective(scope[k])
  BY <1>2 DEF ProblemValid, Priced, Eligible
<1> QED BY <1>1, <1>2 DEF Cited

LEMMA ViewLemma ==
    ASSUME KnowledgeTypeOK, SnapshotsGrow
    PROVE  StatusMatchesView
<1> SUFFICES ASSUME NEW k \in Cases, NEW s \in snapshots
             PROVE  /\ Status(k, s) = "CURRENT" => Basis(k) \subseteq Effective(s)
                    /\ Status(k, s) = "STALE" => ~ (Basis(k) \subseteq Effective(s))
  BY DEF StatusMatchesView
<1>1. ASSUME Status(k, s) = "CURRENT"
      PROVE  Basis(k) \subseteq Effective(s)
  <2>1. /\ ProblemValid(k) /\ Descends(s, scope[k])
        /\ Basis(k) \cap Masked(s) = {}
    BY <1>1 DEF Status
  <2>2. Cited(k) \in SUBSET Effective(scope[k])
    BY <2>1, CitedEffective
  <2> QED BY <2>1, <2>2, EffectiveCarries DEF Basis
<1>2. ASSUME Status(k, s) = "STALE"
      PROVE  ~ (Basis(k) \subseteq Effective(s))
  <2>1. Basis(k) \cap Masked(s) # {}
    BY <1>2 DEF Status
  <2>2. Effective(s) \cap Masked(s) = {}
    BY SupportedClosed DEF Effective
  <2> QED BY <2>1, <2>2
<1> QED BY <1>1, <1>2

-----------------------------------------------------------------------------
(* Types. *)

LEMMA EffectiveTyped ==
    ASSUME KnowledgeTypeOK, NEW s \in Snapshots
    PROVE  Effective(s) \subseteq Knowledge
BY SupportedClosed DEF Effective, KnowledgeTypeOK

LEMMA ObserveTyped ==
    ASSUME KnowledgeTypeOK, NEW s \in Snapshots, NEW c \in Candidates
    PROVE  Observe(c, s) \in Observation
<1>1. Nothing \in Observation
  BY DEF Nothing, Observation, Truths
<1>2. Truth(c, s) \in Truths
  BY DEF Truth, Truths
<1>3. Found(c, s) \subseteq Knowledge
  BY EffectiveTyped DEF Found
<1>4. UNION {Read(slot, s) : slot \in ReadSlots[c]} \subseteq Facts
  BY DecisionsAssumption DEF Read
<1> QED BY <1>1, <1>2, <1>3, <1>4 DEF Observe, Observation

LEMMA KnowledgeTypeStep ==
    ASSUME KnowledgeTypeOK, KnowledgeNext
    PROVE  KnowledgeTypeOK'
<1> USE DEF KnowledgeTypeOK
<1>1. ASSUME NEW batch \in Batches, Admit(batch)
      PROVE  KnowledgeTypeOK'
  BY <1>1, KnowledgeAssumption DEF Admit
<1>2. ASSUME NEW s \in Snapshots, NEW p \in Snapshots \cup {NoSnapshot}, Snapshot(s, p)
      PROVE  KnowledgeTypeOK'
  BY <1>2 DEF Snapshot, Records, Knowledge
<1>3. ASSUME NEW e \in Edge, Supersede(e)
      PROVE  KnowledgeTypeOK'
  BY <1>3 DEF Supersede
<1>4. ASSUME NEW d \in Derived, NEW s \in Snapshots, NEW proof \in ProofsOf[d],
             AdmitDerived(d, s, proof)
      PROVE  KnowledgeTypeOK'
  BY <1>4 DEF AdmitDerived
<1> QED BY <1>1, <1>2, <1>3, <1>4 DEF KnowledgeNext

\* A new row of a case leaves the knowledge, and adds to the others.
LEMMA RowTyped ==
    ASSUME TypeOK, NEW kind \in Kinds, NEW k \in Cases,
           UNCHANGED <<knowledge, isolated>>, rows' = rows \cup {<<kind, k>>}
    PROVE  KnowledgeTypeOK' /\ rows' \subseteq Kinds \X Cases /\ isolated' \subseteq rows'
BY DEF TypeOK, KnowledgeTypeOK, knowledge

LEMMA TypeStep ==
    ASSUME TypeOK, [Next]_vars
    PROVE  TypeOK'
<1> DEFINE Data == /\ scope \in [Cases -> Snapshots \cup {NoSnapshot}]
                   /\ grounding \in [Cases -> [Candidates -> Observation]]
                   /\ objective \in [Cases -> [Candidates -> Facts \cup {NoFact}]]
                   /\ outcome \in [Cases -> [status : Statuses, best : SUBSET Candidates]]
<1>0. Data /\ RowOrder /\ KnowledgeTypeOK
  BY DEF TypeOK
<1>1. ASSUME KnowledgeNext, UNCHANGED decisions
      PROVE  TypeOK'
  <2>1. KnowledgeTypeOK'
    BY <1>0, <1>1, KnowledgeTypeStep
  <2>2. snapshots \subseteq snapshots'
    BY <1>1 DEF KnowledgeNext, Admit, Snapshot, Supersede, AdmitDerived
  <2>3. RowOrder'
    BY <1>0, <1>1, <2>2 DEF decisions, Stored, RowOrder
  <2> QED BY <1>1, <2>1, <2>3 DEF decisions, TypeOK
<1>2. ASSUME NEW k \in Cases, NEW s \in Snapshots, CreateScope(k, s)
      PROVE  TypeOK'
  <2>1. Data'
    BY <1>0, <1>2 DEF CreateScope
  <2>2. RowOrder'
    BY <1>0, <1>2 DEF CreateScope, Stored, RowOrder, knowledge
  <2> QED BY <1>2, <2>1, <2>2, RowTyped DEF CreateScope, TypeOK, Kinds
<1>3. ASSUME NEW k \in Cases, EvaluateScope(k)
      PROVE  TypeOK'
  <2>1. scope[k] \in Snapshots
    BY <1>0, <1>3 DEF EvaluateScope, KnowledgeTypeOK, RowOrder
  <2>2. [c \in Candidates |-> Observe(c, scope[k])] \in [Candidates -> Observation]
    BY <1>0, <2>1, ObserveTyped
  <2>3. Data'
    BY <1>0, <1>3, <2>2 DEF EvaluateScope
  <2>4. RowOrder'
    BY <1>0, <1>3 DEF EvaluateScope, Stored, RowOrder, knowledge
  <2> QED BY <1>3, <2>3, <2>4, RowTyped DEF EvaluateScope, TypeOK, Kinds
<1>4. ASSUME NEW k \in Cases, NEW choice \in [Candidates -> Facts \cup {NoFact}],
             AdmitProblem(k, choice)
      PROVE  TypeOK'
  <2>1. Data'
    BY <1>0, <1>4 DEF AdmitProblem
  <2>2. RowOrder'
    BY <1>0, <1>4 DEF AdmitProblem, Live, Stored, RowOrder, knowledge
  <2> QED BY <1>4, <2>1, <2>2, RowTyped DEF AdmitProblem, TypeOK, Kinds
<1>5. ASSUME NEW k \in Cases, NEW o \in [status : Statuses, best : SUBSET Candidates],
             AdmitDecision(k, o)
      PROVE  TypeOK'
  <2>1. Data'
    BY <1>0, <1>5 DEF AdmitDecision
  <2>2. RowOrder'
    BY <1>0, <1>5 DEF AdmitDecision, Live, Stored, RowOrder, knowledge
  <2> QED BY <1>5, <2>1, <2>2, RowTyped DEF AdmitDecision, TypeOK, Kinds
<1>6. ASSUME Reopen
      PROVE  TypeOK'
  <2>1. isolated' \subseteq rows'
    BY <1>6 DEF Reopen, LostGroundings, LostProblems, LostDecisions, Stored
  <2>2. UNCHANGED <<knowledge, scope, grounding, objective, outcome, rows>>
    BY <1>6 DEF Reopen
  <2>3. RowOrder' /\ KnowledgeTypeOK'
    BY <1>0, <2>2 DEF RowOrder, Stored, knowledge, KnowledgeTypeOK
  <2> QED BY <2>1, <2>2, <2>3 DEF TypeOK
<1>7. ASSUME UNCHANGED vars
      PROVE  TypeOK'
  <2>1. RowOrder' /\ KnowledgeTypeOK'
    BY <1>0, <1>7 DEF vars, decisions, RowOrder, Stored, knowledge, KnowledgeTypeOK
  <2> QED BY <1>7, <2>1 DEF vars, decisions, TypeOK
<1> QED BY <1>1, <1>2, <1>3, <1>4, <1>5, <1>6, <1>7 DEF Next, Decide

LEMMA InitTyped == Init => TypeOK
BY DEF Init, KnowledgeInit, TypeOK, KnowledgeTypeOK, RowOrder, Stored, Nothing, Undecided,
       Statuses, Observation, Truths, Kinds

\* Every variable keeps its type and no row is stored before the one it rests on.
THEOREM TypeCorrect == Spec => []TypeOK
<1>1. Init => TypeOK
  BY InitTyped
<1>2. TypeOK /\ [Next]_vars => TypeOK'
  BY TypeStep
<1> QED BY <1>1, <1>2, PTL DEF Spec

-----------------------------------------------------------------------------
(* The knowledge only grows, and what was admitted still satisfies the     *)
(* checks of a reopening.                                                  *)

\* The parts of RestorableKnowledge are opened wherever it is.
USE DEF EdgesRestore, SnapshotsRestore, DerivationsRestore

\* The invariant behind the rest: types, branches that only grow, and
\* restorable tables.
IInv ==
    /\ TypeOK
    /\ SnapshotsGrow
    /\ RestorableKnowledge

\* The records a derivation was proved from are all in the store.
LEMMA DepsAdmitted ==
    ASSUME SnapshotsGrow, RestorableKnowledge, NEW x \in derived
    PROVE  deps[x] \subseteq Records
BY DEF SnapshotsGrow, RestorableKnowledge

LEMMA AdmitStep ==
    ASSUME IInv, NEW batch \in Batches, Admit(batch)
    PROVE  SnapshotsGrow' /\ RestorableKnowledge'
<1>1. Records \subseteq Records'
  BY DEF Admit, Records
<1>2. UNCHANGED <<derived, deps, snapshots, parent, contents, edges>>
  BY DEF Admit
<1>3. SnapshotsGrow'
  BY <1>1, <1>2 DEF IInv, SnapshotsGrow
<1>4. \A e \in edges : ValidEdge(e)'
  BY <1>1, <1>2 DEF IInv, RestorableKnowledge, ValidEdge
<1> QED BY <1>1, <1>2, <1>3, <1>4 DEF IInv, RestorableKnowledge, Acyclic

LEMMA SnapshotStep ==
    ASSUME IInv, NEW s \in Snapshots, NEW p \in Snapshots \cup {NoSnapshot}, Snapshot(s, p)
    PROVE  SnapshotsGrow' /\ RestorableKnowledge'
<1>1. /\ snapshots' = snapshots \cup {s} /\ s \notin snapshots
      /\ p \in snapshots \cup {NoSnapshot}
      /\ Records' = Records
      /\ UNCHANGED <<derived, deps, edges>>
  BY DEF Snapshot, Records
<1>2. \A t \in snapshots : parent'[t] = parent[t] /\ contents'[t] = contents[t]
  BY DEF IInv, TypeOK, KnowledgeTypeOK, Snapshot
<1>3. parent'[s] = p /\ contents'[s] = Records
  BY DEF IInv, TypeOK, KnowledgeTypeOK, Snapshot
<1>4. SnapshotsGrow'
  BY <1>1, <1>2, <1>3 DEF IInv, SnapshotsGrow
<1>5. \A e \in edges : ValidEdge(e)'
  BY <1>1, <1>2 DEF IInv, RestorableKnowledge, ValidEdge
<1>6. \A t \in snapshots' : parent'[t] \in snapshots' \cup {NoSnapshot}
                            /\ contents'[t] \subseteq Records'
  BY <1>1, <1>2, <1>3 DEF IInv, RestorableKnowledge
<1>7. \A d \in derived : \E t \in snapshots' : deps[d] # {} /\ deps[d] \subseteq contents'[t]
  BY <1>1, <1>2 DEF IInv, RestorableKnowledge
<1> QED BY <1>1, <1>4, <1>5, <1>6, <1>7 DEF IInv, RestorableKnowledge, Acyclic

LEMMA SupersedeStep ==
    ASSUME IInv, NEW e \in Edge, Supersede(e)
    PROVE  SnapshotsGrow' /\ RestorableKnowledge'
<1>1. /\ edges' = edges \cup {e}
      /\ Records' = Records
      /\ UNCHANGED <<derived, deps, snapshots, parent, contents>>
  BY DEF Supersede, Records
<1>2. Acyclic(edges')
  <2>1. {f \in edges : f.old # e.old} \cup {e} = edges'
    BY <1>1 DEF Supersede
  <2> QED BY <2>1 DEF Supersede
<1>3. \A f \in edges' : ValidEdge(f)'
  BY <1>1 DEF IInv, RestorableKnowledge, ValidEdge, Supersede
<1>4. \A f, g \in edges' : f.old = g.old => f = g
  BY <1>1 DEF IInv, RestorableKnowledge, Supersede
<1>5. SnapshotsGrow'
  BY <1>1 DEF IInv, SnapshotsGrow
<1>6. Acyclic(edges)'
  BY <1>2 DEF Acyclic
<1> QED BY <1>1, <1>3, <1>4, <1>5, <1>6 DEF IInv, RestorableKnowledge

LEMMA AdmitDerivedStep ==
    ASSUME IInv, NEW d \in Derived, NEW s \in Snapshots, NEW proof \in ProofsOf[d],
           AdmitDerived(d, s, proof)
    PROVE  SnapshotsGrow' /\ RestorableKnowledge'
<1>1. /\ derived' = derived \cup {d} /\ d \notin derived
      /\ Records' = Records \cup {d}
      /\ proof # {} /\ proof \subseteq Records /\ proof \subseteq contents[s]
      /\ s \in snapshots
      /\ UNCHANGED <<facts, snapshots, parent, contents, edges>>
  BY DEF AdmitDerived, Records
<1>2. deps'[d] = proof /\ \A x \in derived : deps'[x] = deps[x]
  BY DEF IInv, TypeOK, KnowledgeTypeOK, AdmitDerived
<1>3. d \notin Records
  BY <1>1, KnowledgeAssumption DEF IInv, TypeOK, KnowledgeTypeOK, Records
<1>4. SnapshotsGrow'
  BY <1>1 DEF IInv, SnapshotsGrow
<1>5. \A e \in edges' : ValidEdge(e)'
  BY <1>1 DEF IInv, RestorableKnowledge, ValidEdge
<1>6. \A x \in derived' : \E t \in snapshots' :
          deps'[x] # {} /\ deps'[x] \subseteq contents'[t]
  BY <1>1, <1>2 DEF IInv, RestorableKnowledge
<1>7. ASSUME NEW C \in SUBSET derived', C # {}
      PROVE  \E x \in C : deps'[x] \cap C = {}
  <2>1. CASE C \ {d} = {}
    BY <1>1, <1>2, <1>3, <1>7, <2>1
  <2>2. CASE C \ {d} # {}
    <3>1. PICK x \in C \ {d} : deps[x] \cap (C \ {d}) = {}
      BY <1>1, <2>2 DEF IInv, RestorableKnowledge
    <3>2. d \notin deps[x]
      BY <1>1, <1>3, <3>1, DepsAdmitted DEF IInv
    <3> QED BY <1>1, <1>2, <3>1, <3>2
  <2> QED BY <2>1, <2>2
<1>8. Acyclic(edges)'
  BY <1>1 DEF IInv, RestorableKnowledge, Acyclic
<1>9. \A t \in snapshots' : parent'[t] \in snapshots' \cup {NoSnapshot}
                            /\ contents'[t] \subseteq Records'
  BY <1>1 DEF IInv, RestorableKnowledge
<1>10. \A e, f \in edges' : e.old = f.old => e = f
  BY <1>1 DEF IInv, RestorableKnowledge
<1> QED BY <1>4, <1>5, <1>6, <1>7, <1>8, <1>9, <1>10 DEF RestorableKnowledge

LEMMA KnowledgeUnchanged ==
    ASSUME IInv, UNCHANGED knowledge
    PROVE  SnapshotsGrow' /\ RestorableKnowledge'
BY DEF IInv, knowledge, SnapshotsGrow, RestorableKnowledge, Records, ValidEdge, Acyclic

\* A step is one of the knowledge, or leaves it as it is.
LEMMA StepCases ==
    ASSUME [Next]_vars
    PROVE  (KnowledgeNext /\ UNCHANGED decisions) \/ UNCHANGED knowledge
BY DEF Next, Decide, CreateScope, EvaluateScope, AdmitProblem, AdmitDecision, Reopen, vars

LEMMA InvariantStep ==
    ASSUME IInv, [Next]_vars
    PROVE  IInv'
<1>1. TypeOK'
  BY TypeStep DEF IInv
<1>2. CASE KnowledgeNext
  BY <1>1, <1>2, AdmitStep, SnapshotStep, SupersedeStep, AdmitDerivedStep
     DEF KnowledgeNext, IInv
<1>3. CASE UNCHANGED knowledge
  BY <1>1, <1>3, KnowledgeUnchanged DEF IInv
<1> QED BY <1>2, <1>3, StepCases

THEOREM Invariant == Spec => []IInv
<1>1. Init => IInv
  <2>1. Init => TypeOK
    BY InitTyped
  <2>2. Init => SnapshotsGrow /\ RestorableKnowledge
    BY DEF Init, KnowledgeInit, SnapshotsGrow, RestorableKnowledge, Acyclic
  <2> QED BY <2>1, <2>2 DEF IInv
<1>2. IInv /\ [Next]_vars => IInv'
  BY InvariantStep
<1> QED BY <1>1, <1>2, PTL DEF Spec

\* Reopening isolates no record, derivation, snapshot or edge that the
\* operations admitted.
THEOREM Restores == Spec => []KnowledgeRestores
<1>1. IInv => KnowledgeRestores
  BY DEF IInv, KnowledgeRestores
<1> QED BY <1>1, Invariant, PTL

\* The status computed from the edges says what the view of the snapshot says.
THEOREM StatusSound == Spec => []StatusMatchesView
<1>1. IInv => StatusMatchesView
  BY ViewLemma DEF IInv, TypeOK
<1> QED BY <1>1, Invariant, PTL

-----------------------------------------------------------------------------
(* A status never comes back to CURRENT. *)

LEMMA TablesGrow ==
    ASSUME IInv, [Next]_vars
    PROVE  /\ derived \subseteq derived' /\ \A x \in derived : deps'[x] = deps[x]
           /\ edges \subseteq edges'
           /\ snapshots \subseteq snapshots' /\ \A s \in snapshots : parent'[s] = parent[s]
<1>1. CASE UNCHANGED knowledge
  BY <1>1 DEF knowledge
<1>2. CASE KnowledgeNext
  <2>1. ASSUME NEW batch \in Batches, Admit(batch)
        PROVE  UNCHANGED <<derived, deps, snapshots, parent, edges>>
    BY <2>1 DEF Admit
  <2>2. ASSUME NEW s \in Snapshots, NEW p \in Snapshots \cup {NoSnapshot}, Snapshot(s, p)
        PROVE  /\ UNCHANGED <<derived, deps, edges>>
               /\ snapshots \subseteq snapshots' /\ \A t \in snapshots : parent'[t] = parent[t]
    BY <2>2 DEF Snapshot, IInv, TypeOK, KnowledgeTypeOK
  <2>3. ASSUME NEW e \in Edge, Supersede(e)
        PROVE  UNCHANGED <<derived, deps, snapshots, parent>> /\ edges \subseteq edges'
    BY <2>3 DEF Supersede
  <2>4. ASSUME NEW d \in Derived, NEW s \in Snapshots, NEW proof \in ProofsOf[d],
               AdmitDerived(d, s, proof)
        PROVE  /\ UNCHANGED <<snapshots, parent, edges>>
               /\ derived \subseteq derived' /\ \A x \in derived : deps'[x] = deps[x]
    BY <2>4 DEF AdmitDerived, IInv, TypeOK, KnowledgeTypeOK
  <2> QED BY <1>2, <2>1, <2>2, <2>3, <2>4 DEF KnowledgeNext
<1> QED BY <1>1, <1>2, StepCases

\* The rows of a decided case are never written again.
LEMMA RowsStay ==
    ASSUME IInv, [Next]_vars, NEW k \in Cases, Stored("decision", k)
    PROVE  /\ scope'[k] = scope[k] /\ grounding'[k] = grounding[k]
           /\ objective'[k] = objective[k]
           /\ Cited(k)' = Cited(k)
<1>1. Stored("problem", k) /\ Stored("grounding", k) /\ Stored("scope", k)
  BY DEF IInv, TypeOK, RowOrder
<1>2. CASE UNCHANGED <<scope, grounding, objective>>
  BY <1>2 DEF Cited
<1>3. CASE \E j \in Cases : Decide(j)
  <2>1. PICK j \in Cases : Decide(j)
    BY <1>3
  <2>2. CASE j = k
    <3>1. UNCHANGED <<scope, grounding, objective>>
      BY <1>1, <2>1, <2>2 DEF Decide, CreateScope, EvaluateScope, AdmitProblem, AdmitDecision
    <3> QED BY <3>1 DEF Cited
  <2>3. CASE j # k
    <3>1. scope'[k] = scope[k]
      BY <2>1, <2>3 DEF Decide, CreateScope, EvaluateScope, AdmitProblem, AdmitDecision,
                        IInv, TypeOK
    <3>2. grounding'[k] = grounding[k]
      BY <2>1, <2>3 DEF Decide, CreateScope, EvaluateScope, AdmitProblem, AdmitDecision,
                        IInv, TypeOK
    <3>3. objective'[k] = objective[k]
      BY <2>1, <2>3 DEF Decide, CreateScope, EvaluateScope, AdmitProblem, AdmitDecision,
                        IInv, TypeOK
    <3> QED BY <3>1, <3>2, <3>3 DEF Cited
  <2> QED BY <2>2, <2>3
<1> QED BY <1>2, <1>3 DEF Next, Reopen, vars, decisions

LEMMA CitedTyped ==
    ASSUME TypeOK, NEW k \in Cases
    PROVE  Cited(k) \in SUBSET Knowledge
<1>1. \A c \in Candidates : grounding[k][c] \in Observation /\ objective[k][c] \in Facts \cup {NoFact}
  BY DEF TypeOK
<1> QED BY <1>1 DEF Cited, Observation, Knowledge

ClosedClosures ==
    \A X \in SUBSET Knowledge :
        /\ X \subseteq Closure(X)
        /\ \A x \in Closure(X) \cap derived : deps[x] \subseteq Closure(X)

LEMMA ClosureClosedNext == KnowledgeTypeOK' => ClosedClosures'
<1>1. KnowledgeTypeOK => ClosedClosures
  BY ClosureClosed DEF ClosedClosures
<1> QED BY <1>1, PTL

LEMMA DescendsTransitiveNext ==
    \A s, a, b : Descends(s, a)' /\ Descends(a, b)' => Descends(s, b)'
BY DEF Descends

LEMMA BasisGrows ==
    ASSUME IInv, [Next]_vars, NEW k \in Cases, Stored("decision", k)
    PROVE  Basis(k) \subseteq Basis(k)'
<1>1. KnowledgeTypeOK'
  BY TypeStep DEF IInv, TypeOK
<1>2. PICK X \in SUBSET Knowledge : X = Cited(k) /\ X = Cited(k)'
  BY CitedTyped, RowsStay DEF IInv
<1>3. Basis(k) = Closure(X)
  BY <1>2 DEF Basis
<1>4. Basis(k)' = Closure(X)'
  BY <1>2 DEF Basis, Closure
<1>5. /\ X \subseteq Closure(X)'
      /\ \A x \in Closure(X)' \cap derived' : deps'[x] \subseteq Closure(X)'
  BY <1>1, ClosureClosedNext DEF ClosedClosures
<1>6. \A x \in Closure(X)' \cap derived : deps[x] \subseteq Closure(X)'
  BY <1>5, TablesGrow
<1>7. \A Z : X \subseteq Z /\ (\A x \in Z \cap derived : deps[x] \subseteq Z)
                 => Closure(X) \subseteq Z
  BY ClosureSmallest
<1>8. Closure(X) \subseteq Closure(X)'
  BY <1>5, <1>6, <1>7
<1> QED BY <1>3, <1>4, <1>8

LEMMA DescendsStays ==
    ASSUME IInv, [Next]_vars, NEW s \in snapshots, NEW a, Descends(s, a)
    PROVE  Descends(s, a)'
<1> SUFFICES ASSUME NEW C \in SUBSET snapshots', s \in C,
                    \A x \in C : parent'[x] \in C \cup {NoSnapshot}
             PROVE  a \in C
  BY DEF Descends
<1>1. \A x \in C \cap snapshots : parent[x] \in (C \cap snapshots) \cup {NoSnapshot}
  BY TablesGrow DEF IInv, RestorableKnowledge
<1> QED BY <1>1 DEF Descends

\* What is STALE at a snapshot never becomes CURRENT there or below.
THEOREM StaleForever == Spec => StaleIsFinal
<1> DEFINE A == \A k \in Cases, s \in snapshots : Status(k, s) = "STALE" =>
                    \A t \in snapshots' : Descends(t, s)' => Status(k, t)' # "CURRENT"
<1>1. IInv /\ [Next]_vars => A
  <2> SUFFICES ASSUME IInv, [Next]_vars, NEW k \in Cases, NEW s \in snapshots,
                      Status(k, s) = "STALE", NEW t \in snapshots', Descends(t, s)',
                      Status(k, t)' = "CURRENT"
               PROVE  FALSE
    OBVIOUS
  <2>1. Stored("decision", k) /\ Basis(k) \cap Masked(s) # {}
    BY DEF Status, Live
  <2>2. Basis(k)' \cap Masked(t)' = {}
    BY DEF Status
  <2>3. \A e \in Visible(s) : Descends(t, e.snapshot)'
    BY DescendsStays, DescendsTransitiveNext DEF Visible
  <2>4. Masked(s) \subseteq Masked(t)'
    BY <2>3, TablesGrow DEF Masked, Visible
  <2> QED BY <2>1, <2>2, <2>4, BasisGrows
<1>2. IInv /\ [Next]_vars => [A]_vars
  BY <1>1
<1> QED BY <1>2, Invariant, PTL DEF Spec, StaleIsFinal

-----------------------------------------------------------------------------
(* Reopening. *)

\* An isolated row takes the rows that rest on it along.
IsolationCascades ==
    \A k \in Cases :
        /\ Live("decision", k) => Live("problem", k)
        /\ Live("problem", k) => Live("grounding", k)

\* An operation adds one row of a case, under which the row it rests on is live.
LEMMA CascadeRow ==
    ASSUME TypeOK, IsolationCascades, NEW k \in Cases, Decide(k)
    PROVE  IsolationCascades'
<1>1. RowOrder /\ isolated \subseteq rows
  BY DEF TypeOK
<1>2. ASSUME NEW s \in Snapshots, CreateScope(k, s)
      PROVE  IsolationCascades'
  BY <1>1, <1>2 DEF CreateScope, IsolationCascades, Live, Stored
<1>3. ASSUME EvaluateScope(k)
      PROVE  IsolationCascades'
  BY <1>1, <1>3 DEF EvaluateScope, IsolationCascades, Live, Stored
<1>4. ASSUME NEW choice, AdmitProblem(k, choice)
      PROVE  IsolationCascades'
  BY <1>1, <1>4 DEF AdmitProblem, IsolationCascades, Live, Stored
<1>5. ASSUME NEW o, AdmitDecision(k, o)
      PROVE  IsolationCascades'
  BY <1>1, <1>5 DEF AdmitDecision, IsolationCascades, Live, Stored
<1> QED BY <1>2, <1>3, <1>4, <1>5 DEF Decide

LEMMA CascadeStep ==
    ASSUME TypeOK, IsolationCascades, [Next]_vars
    PROVE  IsolationCascades'
<1>1. CASE UNCHANGED <<rows, isolated>>
  BY <1>1 DEF IsolationCascades, Live, Stored
<1>2. CASE Reopen
  <2>1. RowOrder /\ UNCHANGED rows
    BY <1>2 DEF TypeOK, Reopen
  <2>2. \A k \in Cases :
            /\ <<"grounding", k>> \in isolated' <=> k \in LostGroundings
            /\ <<"problem", k>> \in isolated' <=> k \in LostProblems
            /\ <<"decision", k>> \in isolated' <=> k \in LostDecisions
    BY <1>2 DEF Reopen
  <2> QED BY <2>1, <2>2 DEF IsolationCascades, Live, Stored, RowOrder, LostProblems, LostDecisions
<1> QED BY <1>1, <1>2, CascadeRow DEF Next, vars, decisions

THEOREM Cascade == Spec => []IsolationCascades
<1>1. Init => IsolationCascades
  BY DEF Init, IsolationCascades, Live, Stored
<1>2. TypeOK /\ IsolationCascades /\ [Next]_vars => IsolationCascades'
  BY CascadeStep
<1> QED BY <1>1, <1>2, TypeCorrect, PTL DEF Spec

\* What the judgement of a case depends on, besides its rows.
LEMMA SameView ==
    ASSUME UNCHANGED knowledge
    PROVE  \A s : /\ Effective(s)' = Effective(s)
                  /\ Masked(s)' = Masked(s)
                  /\ \A a : Descends(s, a)' = Descends(s, a)
<1>1. \A s, a : Descends(s, a)' = Descends(s, a)
  BY DEF knowledge, Descends
<1>2. \A s : Visible(s)' = Visible(s)
  BY <1>1 DEF knowledge, Visible
<1>3. \A s : Masked(s)' = Masked(s) /\ Foreign(s)' = Foreign(s)
  BY <1>2 DEF knowledge, Masked, Foreign
<1>4. \A s : Effective(s)' = Effective(s)
  BY <1>3 DEF knowledge, Effective, Supported
<1> QED BY <1>1, <1>3, <1>4

LEMMA SameJudgement ==
    ASSUME NEW k \in Cases, UNCHANGED <<scope, grounding, objective, outcome>>,
           Effective(scope[k])' = Effective(scope[k])
    PROVE  /\ ProblemValid(k)' = ProblemValid(k)
           /\ Accepts(k, outcome[k])' = Accepts(k, outcome[k])
<1>1. GroundingValid(k)' = GroundingValid(k) /\ Complete(k)' = Complete(k)
  BY DEF GroundingValid, Complete, Agrees, Found
<1>2. Admissible(k)' = Admissible(k) /\ Weighed(k)' = Weighed(k)
  BY DEF Admissible, Weighed
<1>3. Priced(k, objective[k])' = Priced(k, objective[k])
  BY <1>2 DEF Priced, Eligible
<1>4. Cheapest(k)' = Cheapest(k)
  BY <1>2 DEF Cheapest
<1> QED BY <1>1, <1>2, <1>3, <1>4 DEF ProblemValid, Accepts

LEMMA SameBasis ==
    ASSUME NEW k \in Cases, UNCHANGED <<grounding, objective, derived, deps>>
    PROVE  Basis(k)' = Basis(k)
<1>1. Cited(k)' = Cited(k)
  BY DEF Cited
<1> QED BY <1>1 DEF Basis, Closure

\* Reopening keeps the status of the decisions the store still held.
THEOREM ReopenSound == Spec => ReopenKeepsStatus
<1> DEFINE A == Reopen => \A k \in Cases, s \in snapshots :
                    Live("decision", k) => Status(k, s)' = Status(k, s)
<1>1. TypeOK /\ IsolationCascades => A
  <2> SUFFICES ASSUME TypeOK, IsolationCascades, Reopen, NEW k \in Cases,
                      NEW s \in snapshots, Live("decision", k)
               PROVE  Status(k, s)' = Status(k, s)
    OBVIOUS
  <2>1. UNCHANGED <<knowledge, scope, grounding, objective, outcome, rows>>
    BY DEF Reopen
  <2>2. Live("problem", k) /\ Live("grounding", k)
    BY DEF IsolationCascades
  <2>3. /\ ProblemValid(k)' = ProblemValid(k)
        /\ Accepts(k, outcome[k])' = Accepts(k, outcome[k])
        /\ Descends(s, scope[k])' = Descends(s, scope[k])
        /\ Basis(k)' = Basis(k)
        /\ Masked(s)' = Masked(s)
    <3>1. PICK a : a = scope[k] /\ a = scope[k]'
      BY <2>1
    <3>2. Effective(scope[k])' = Effective(scope[k])
      <4>1. Effective(scope[k])' = Effective(a)'
        BY <3>1 DEF Effective, Supported, Masked, Foreign, Visible, Descends
      <4> QED BY <2>1, <3>1, <4>1, SameView
    <3>3. Descends(s, scope[k])' = Descends(s, scope[k])
      <4>1. Descends(s, scope[k])' = Descends(s, a)'
        BY <3>1 DEF Descends
      <4> QED BY <2>1, <3>1, <4>1, SameView
    <3>4. Basis(k)' = Basis(k)
      BY <2>1, SameBasis DEF knowledge
    <3>5. Masked(s)' = Masked(s)
      BY <2>1, SameView
    <3> QED BY <2>1, <3>2, <3>3, <3>4, <3>5, SameJudgement
  <2>4. CASE ProblemValid(k) /\ Accepts(k, outcome[k])
    <3>1. k \notin LostGroundings /\ k \notin LostProblems /\ k \notin LostDecisions
      BY <2>4 DEF ProblemValid, LostGroundings, LostProblems, LostDecisions
    <3>2. Live("decision", k)' /\ Live("problem", k)' /\ Live("grounding", k)'
      BY <2>1, <2>2, <3>1 DEF Reopen, Live, Stored
    <3> QED BY <2>2, <2>3, <3>2 DEF Status
  <2>5. CASE ~ (ProblemValid(k) /\ Accepts(k, outcome[k]))
    BY <2>3, <2>5 DEF Status
  <2> QED BY <2>4, <2>5
<1> QED BY <1>1, TypeCorrect, Cascade, PTL DEF ReopenKeepsStatus

-----------------------------------------------------------------------------
(* Branches. *)

\* Only a supersession adds an edge, and it adds one.
LEMMA NewEdge ==
    ASSUME [Next]_vars, NEW e \in edges' \ edges
    PROVE  /\ edges' = edges \cup {e}
           /\ UNCHANGED <<facts, derived, deps, snapshots, parent, contents>>
           /\ UNCHANGED decisions
<1>1. KnowledgeNext /\ UNCHANGED decisions
  BY StepCases DEF knowledge
<1>2. \E f \in Edge : Supersede(f)
  BY <1>1 DEF KnowledgeNext, Admit, Snapshot, AdmitDerived
<1> QED BY <1>1, <1>2 DEF Supersede

\* A snapshot that does not hold the replacement and does not descend from
\* the snapshot of the edge keeps its view.
LEMMA ViewElsewhere ==
    ASSUME [Next]_vars, NEW e \in edges' \ edges, NEW s, ~ Descends(s, e.snapshot)
    PROVE  /\ Masked(s)' = Masked(s)
           /\ e.new \notin contents[s] => Effective(s)' = Effective(s)
<1>1. /\ edges' = edges \cup {e}
      /\ UNCHANGED <<facts, derived, deps, snapshots, parent, contents>>
  BY NewEdge
<1>2. \A a : Descends(s, a)' = Descends(s, a)
  BY <1>1 DEF Descends
<1>3. Visible(s)' = Visible(s)
  BY <1>1, <1>2 DEF Visible
<1>4. Masked(s)' = Masked(s)
  BY <1>3 DEF Masked
<1>5. ASSUME e.new \notin contents[s]
      PROVE  Effective(s)' = Effective(s)
  <2>1. Foreign(s) \subseteq Foreign(s)' /\ Foreign(s)' \subseteq Foreign(s) \cup {e.new}
    BY <1>1, <1>3 DEF Foreign
  <2>2. contents'[s] \ (Masked(s)' \cup Foreign(s)') = contents[s] \ (Masked(s) \cup Foreign(s))
    BY <1>1, <1>4, <1>5, <2>1
  <2> QED BY <1>1, <2>2 DEF Effective, Supported
<1> QED BY <1>4, <1>5

\* A supersession outside the branch of a snapshot, by a record the decision
\* could not see, leaves every status there.
THEOREM BranchesSound == Spec => BranchesAreIndependent
<1> DEFINE A == \A k \in Cases : Live("decision", k) =>
                    \A e \in edges' \ edges, s \in snapshots :
                        ~ Descends(s, e.snapshot) /\ e.new \notin contents[scope[k]]
                           => Status(k, s)' = Status(k, s)
<1>1. [Next]_vars => A
  <2> SUFFICES ASSUME [Next]_vars, NEW k \in Cases, NEW e \in edges' \ edges,
                      NEW s \in snapshots,
                      ~ Descends(s, e.snapshot), e.new \notin contents[scope[k]]
               PROVE  Status(k, s)' = Status(k, s)
    OBVIOUS
  <2>1. /\ UNCHANGED <<scope, grounding, objective, outcome, rows, isolated>>
        /\ UNCHANGED <<facts, derived, deps, snapshots, parent, contents>>
    BY NewEdge DEF decisions
  <2>2. Descends(s, scope[k])' = Descends(s, scope[k])
    BY <2>1 DEF Descends
  <2>3. CASE Descends(s, scope[k])
    <3>1. PICK a : a = scope[k] /\ a = scope[k]'
      BY <2>1
    <3>2. ~ Descends(a, e.snapshot)
      BY <2>3, <3>1, DescendsTransitive
    <3>3. Effective(a)' = Effective(a)
      BY <3>1, <3>2, ViewElsewhere
    <3>4. Effective(scope[k])' = Effective(scope[k])
      <4>1. Effective(scope[k])' = Effective(a)'
        BY <3>1 DEF Effective, Supported, Masked, Foreign, Visible, Descends
      <4> QED BY <3>1, <3>3, <4>1
    <3>5. ProblemValid(k)' = ProblemValid(k)
          /\ Accepts(k, outcome[k])' = Accepts(k, outcome[k])
      BY <2>1, <3>4, SameJudgement
    <3>6. Masked(s)' = Masked(s) /\ Basis(k)' = Basis(k)
      BY <2>1, ViewElsewhere, SameBasis
    <3>7. \A kind : Live(kind, k)' = Live(kind, k)
      BY <2>1 DEF Live, Stored
    <3> QED BY <2>2, <3>5, <3>6, <3>7 DEF Status
  <2>4. CASE ~ Descends(s, scope[k])
    BY <2>2, <2>4 DEF Status
  <2> QED BY <2>3, <2>4
<1>2. [Next]_vars => [A]_vars
  BY <1>1
<1> QED BY <1>2, PTL DEF Spec, BranchesAreIndependent
=============================================================================
