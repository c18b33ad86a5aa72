------------------------------ MODULE MCSandbox ------------------------------
(* Instances of SandboxProperties for TLC. *)
EXTENDS SandboxProperties, TLC
CONSTANTS c1, c2, x1, x2, k1, git

\* An id is only a name: whoever is second, c1 may as well be the one who submitted first.
SomeOrders == c1 :> {1, 2} @@ c2 :> {2}
OwnExecutors == c1 :> x1 @@ c2 :> x2

Reader == [required |-> {k1}, caches |-> {k1}, digest |-> TRUE, persist |-> TRUE, pvc |-> TRUE,
           writes |-> FALSE, alias |-> {git}]
Editor == [required |-> {}, caches |-> {}, digest |-> TRUE, persist |-> FALSE, pvc |-> FALSE,
           writes |-> TRUE, alias |-> {}]
Unbound == [Reader EXCEPT !.digest = FALSE, !.pvc = FALSE]

AllRequests == c1 :> {Reader} @@ c2 :> {Reader, Editor, Unbound}
=============================================================================
