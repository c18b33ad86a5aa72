----------------------- MODULE CoreDecisionsProperties -----------------------
(***************************************************************************)
(* What the decisions of a Core V1 store promise.                          *)
(***************************************************************************)
EXTENDS CoreDecisions

\* Reopening never isolates a record, a derivation, a snapshot or an edge
\* that the operations admitted: every persisted edge still satisfies its
\* checks, the chains of replacements and of derivations have no cycle, and
\* no reference dangles (supersede and admit_derived against _load).
KnowledgeRestores == RestorableKnowledge

\* A decision that is CURRENT relative to a snapshot rests, derivations
\* unfolded, only on records effective at that snapshot; a STALE one rests on
\* a record that is not.  status_of looks at the edges only, never at the
\* view of the reference snapshot.
StatusMatchesView ==
    \A k \in Cases, s \in snapshots :
        /\ Status(k, s) = "CURRENT" => Basis(k) \subseteq Effective(s)
        /\ Status(k, s) = "STALE" => ~ (Basis(k) \subseteq Effective(s))

\* What is STALE relative to a snapshot does not become CURRENT there, nor
\* relative to any descendant, whatever is admitted, superseded or reopened.
StaleIsFinal ==
    [][\A k \in Cases, s \in snapshots : Status(k, s) = "STALE" =>
          \A t \in snapshots' : Descends(t, s)' => Status(k, t)' # "CURRENT"]_vars

\* Reopening the store leaves the status of every decision it still held as
\* it was, relative to every snapshot.
ReopenKeepsStatus ==
    [][Reopen => \A k \in Cases, s \in snapshots :
          Live("decision", k) => Status(k, s)' = Status(k, s)]_vars

\* A supersession changes no status relative to a snapshot outside its
\* branch, as long as the replacement is not in the snapshot of the decision.
BranchesAreIndependent ==
    [][\A k \in Cases : Live("decision", k) =>
          \A e \in edges' \ edges, s \in snapshots :
              ~ Descends(s, e.snapshot) /\ e.new \notin contents[scope[k]]
                 => Status(k, s)' = Status(k, s)]_vars

\* "La supersession ne reecrit jamais l'histoire des snapshots anterieurs":
\* a supersession introduced by a later snapshot leaves a decision that was
\* CURRENT relative to its own snapshot valid there.
HistoryIsNotRewritten ==
    [][\A k \in Cases : Live("decision", k) =>
          \A e \in edges' \ edges :
              /\ Descends(e.snapshot, scope[k]) /\ e.snapshot # scope[k]
              /\ Status(k, scope[k]) = "CURRENT"
              => Status(k, scope[k])' # "INVALID"]_vars
=============================================================================
