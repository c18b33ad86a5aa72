----------------------------- MODULE MCRelease -----------------------------
(***************************************************************************)
(* A repository with a main line b1, b2 and a side branch b3 from b1.  b2  *)
(* names another runtime than b1 and b3.                                   *)
(***************************************************************************)
EXTENDS ReleaseProperties, TLC

CONSTANTS o1, o2, b1, b2, b3, d1, d2

BothOperators == {o1, o2}
ThreeCommits == {b1, b2, b3}
Branches == {<<c, c>> : c \in ThreeCommits} \cup {<<b1, b2>>, <<b1, b3>>}
Policies == b1 :> d1 @@ b2 :> d2 @@ b3 :> d1
NothingYet == [c \in ThreeCommits |-> None]
AllInstalled == b1 :> "r1" @@ b2 :> "r2" @@ b3 :> "r1"
EitherPast == {NothingYet, AllInstalled}
TwoDigests == {d1, d2}
Symmetry == Permutations(BothOperators)
=============================================================================
