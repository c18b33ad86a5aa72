--------------------------- MODULE CoreKnowledge ---------------------------
(***************************************************************************)
(* The append-only knowledge of a Core V1 store (src/src/atlas/store.py):  *)
(* records, derived relations with the records they were proved from,      *)
(* snapshots, and the supersession edges that replace one record by        *)
(* another from a snapshot on.  Nothing is ever removed; what a reader     *)
(* sees at a snapshot is computed from these four tables each time.        *)
(*                                                                         *)
(* A record is an identity with a slot: what it is about, the part of a    *)
(* replacement that may not change.  Values, vocabularies, provenance and  *)
(* the texts of rules are left out.                                        *)
(***************************************************************************)
EXTENDS Naturals, FiniteSets

CONSTANTS
    Facts,        \* identities of the records that callers admit
    Derived,      \* identities of the relations that a rule derived
    SlotOf,       \* Facts \cup Derived -> the slot of a record
    Batches,      \* the batches of facts callers admit
    ProofsOf,     \* Derived -> the sets of records a derivation may cite
    Snapshots,
    NoSnapshot,   \* the parent of a first snapshot
    MaxEdges      \* bound on the number of supersessions

Knowledge == Facts \cup Derived

ASSUME KnowledgeAssumption ==
    /\ Facts \cap Derived = {}
    /\ SlotOf \in [Knowledge -> {SlotOf[k] : k \in Knowledge}]
    /\ Batches \subseteq SUBSET Facts
    /\ ProofsOf \in [Derived -> SUBSET SUBSET Knowledge]
    /\ NoSnapshot \notin Snapshots

VARIABLES
    facts,        \* the admitted records
    derived,      \* the admitted derived relations
    deps,         \* what each derived relation was proved from
    snapshots,    \* the snapshots taken
    parent,       \* the parent each names
    contents,     \* the records each holds
    edges         \* the supersessions: old is replaced by new from a snapshot on

knowledge == <<facts, derived, deps, snapshots, parent, contents, edges>>

Records == facts \cup derived
Edge == [old : Knowledge, new : Knowledge, snapshot : Snapshots]

KnowledgeTypeOK ==
    /\ facts \subseteq Facts
    /\ derived \subseteq Derived
    /\ deps \in [Derived -> SUBSET Knowledge]
    /\ snapshots \subseteq Snapshots
    /\ parent \in [Snapshots -> Snapshots \cup {NoSnapshot}]
    /\ contents \in [Snapshots -> SUBSET Knowledge]
    /\ edges \subseteq Edge

KnowledgeInit ==
    /\ facts = {}
    /\ derived = {}
    /\ deps = [d \in Derived |-> {}]
    /\ snapshots = {}
    /\ parent = [s \in Snapshots |-> NoSnapshot]
    /\ contents = [s \in Snapshots |-> {}]
    /\ edges = {}

-----------------------------------------------------------------------------
(* What a reader sees at a snapshot. *)

\* a is s or one of its ancestors: it is in every set of snapshots that
\* holds s and the parent of each of its members.
Descends(s, a) ==
    \A C \in SUBSET snapshots :
        s \in C /\ (\A x \in C : parent[x] \in C \cup {NoSnapshot}) => a \in C

\* Mutation: every edge is visible everywhere.
VisibleEverywhere(s) == edges

Visible(s) == {e \in edges : Descends(s, e.snapshot)}
Masked(s) == {e.old : e \in Visible(s)}

\* Replacements made on other branches, which s must not see either.
Foreign(s) == {e.new : e \in edges} \ {e.new : e \in Visible(s)}

\* The largest part of records in which each derived relation keeps all the
\* records it was proved from.
Supported(records) ==
    LET given == records \ derived
    IN  given \cup UNION {C \in SUBSET (records \cap derived) :
                              \A d \in C : deps[d] \subseteq C \cup given}

Effective(s) == Supported(contents[s] \ (Masked(s) \cup Foreign(s)))

\* Mutation: the derivations are not unfolded.
ClosureDirect(cited) == cited

\* cited and everything it was derived from: the records in every such set.
Closure(cited) ==
    {k \in Knowledge :
        \A C \in SUBSET derived :
            (\A d \in derived : (d \in cited \/ \E c \in C : d \in deps[c]) => d \in C)
               => k \in cited \cup UNION {deps[c] : c \in C}}

-----------------------------------------------------------------------------
(* The operations.  Each persists its rows, commits, then publishes them   *)
(* in memory; a failed transaction changes neither.                        *)

\* A batch with an identity already admitted is refused as a whole.
Admit(batch) ==
    /\ batch # {}
    /\ batch \cap facts = {}
    /\ facts' = facts \cup batch
    /\ UNCHANGED <<derived, deps, snapshots, parent, contents, edges>>

\* A snapshot holds every record of the store, whatever its parent.
Snapshot(s, p) ==
    /\ s \notin snapshots
    /\ p \in snapshots \cup {NoSnapshot}
    /\ snapshots' = snapshots \cup {s}
    /\ parent' = [parent EXCEPT ![s] = p]
    /\ contents' = [contents EXCEPT ![s] = Records]
    /\ UNCHANGED <<facts, derived, deps, edges>>

\* No chain of replacements comes back to where it started.
Acyclic(E) ==
    \A C \in SUBSET {e.old : e \in E} :
        C # {} => \E e \in E : e.old \in C /\ e.new \notin C

ValidEdge(e) ==
    /\ e.old # e.new
    /\ {e.old, e.new} \subseteq Records
    /\ SlotOf[e.old] = SlotOf[e.new]
    /\ e.snapshot \in snapshots
    /\ {e.old, e.new} \subseteq contents[e.snapshot]

\* Mutation: without the check for cycles.
SupersedeUnchecked(e) ==
    /\ ValidEdge(e)
    /\ \A f \in edges : f.old # e.old
    /\ Cardinality(edges) < MaxEdges
    /\ edges' = edges \cup {e}
    /\ UNCHANGED <<facts, derived, deps, snapshots, parent, contents>>

\* Mutation: an existing replacement is redirected.
SupersedeAgain(e) ==
    /\ ValidEdge(e)
    /\ Acyclic({f \in edges : f.old # e.old} \cup {e})
    /\ edges' = {f \in edges : f.old # e.old} \cup {e}
    /\ Cardinality(edges') <= MaxEdges
    /\ UNCHANGED <<facts, derived, deps, snapshots, parent, contents>>

Supersede(e) ==
    /\ ValidEdge(e)
    /\ Acyclic({f \in edges : f.old # e.old} \cup {e})
    /\ \A f \in edges : f.old # e.old
    /\ Cardinality(edges) < MaxEdges
    /\ edges' = edges \cup {e}
    /\ UNCHANGED <<facts, derived, deps, snapshots, parent, contents>>

\* A derivation is admitted from the result of an earlier evaluation at s.
\* Its dependencies must be in s, but not effective there any more: the
\* evaluation is not repeated.
AdmitDerived(d, s, proof) ==
    /\ d \notin derived
    /\ s \in snapshots
    /\ proof # {}
    /\ proof \subseteq Records \cap contents[s]
    /\ derived' = derived \cup {d}
    /\ deps' = [deps EXCEPT ![d] = proof]
    /\ UNCHANGED <<facts, snapshots, parent, contents, edges>>

KnowledgeNext ==
    \/ \E batch \in Batches : Admit(batch)
    \/ \E s \in Snapshots, p \in Snapshots \cup {NoSnapshot} : Snapshot(s, p)
    \/ \E e \in Edge : Supersede(e)
    \/ \E d \in Derived, s \in Snapshots : \E proof \in ProofsOf[d] : AdmitDerived(d, s, proof)

-----------------------------------------------------------------------------
(* What reopening demands of the rows of these tables (_load): otherwise   *)
(* it isolates them.                                                       *)

EdgesRestore ==
    /\ \A e \in edges : ValidEdge(e)
    /\ \A e, f \in edges : e.old = f.old => e = f
    /\ Acyclic(edges)

SnapshotsRestore ==
    \A s \in snapshots :
        /\ parent[s] \in snapshots \cup {NoSnapshot}
        /\ contents[s] \subseteq Records

DerivationsRestore ==
    /\ \A d \in derived : \E s \in snapshots : deps[d] # {} /\ deps[d] \subseteq contents[s]
    /\ \A C \in SUBSET derived : C # {} => \E d \in C : deps[d] \cap C = {}

RestorableKnowledge == EdgesRestore /\ SnapshotsRestore /\ DerivationsRestore
=============================================================================
