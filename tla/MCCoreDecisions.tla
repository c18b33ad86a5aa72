--------------------------- MODULE MCCoreDecisions ---------------------------
(* Two candidates over 7 records and a derivation.    c1 is put in scope by *)
(* a, c2 by the derived relation d, which another rule proved from b1.  The *)
(* rule of the scope reads q1 or its later replacement q2, which is not     *)
(* exact; with q1 it is TRUE of both, and p1 and p2 are what they cost.     *)
EXTENDS CoreDecisionsProperties, TLC

CONSTANTS s1, s2, s3, k1, a, b1, b2, q1, q2, p1, p2, d, c1, c2

Symmetry == Permutations({s1, s2, s3})

MCFacts == {a, b1, b2, q1, q2, p1, p2}
MCSlotOf == [k \in MCFacts \cup {d} |->
    CASE k = a -> "realizes c1"          [] k = d -> "realizes c2"
      [] k \in {q1, q2} -> "capability"  [] k \in {b1, b2} -> "training"
      [] k = p1 -> "cost c1"             [] k = p2 -> "cost c2"]
MCBatches == {{a, b1, q1, p1, p2}, {b2, q2}}
MCProofsOf == [x \in {d} |-> {{b1}}]
MCCandidates == {c1, c2}
MCRealizes == [c \in MCCandidates |-> IF c = c1 THEN "realizes c1" ELSE "realizes c2"]
MCReads == [c \in MCCandidates |-> {"capability"}]
MCCost == [c \in MCCandidates |-> IF c = c1 THEN "cost c1" ELSE "cost c2"]
MCCovering == [c \in MCCandidates |-> {{q1}}]
MCExact == MCFacts \ {q2}
MCCostOf == [f \in MCFacts |-> IF f = p2 THEN 2 ELSE 1]
=============================================================================
