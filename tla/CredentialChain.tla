--------------------------- MODULE CredentialChain ---------------------------
(***************************************************************************)
(* What publishing refreshed credentials promises.  A run's credential     *)
(* replaces one that lies in the file it was itself imported from, or a    *)
(* login the operator made since that file was looked at.  It replaces     *)
(* what another run published only if that lies in this very file, whose   *)
(* number was free again.  Every publication is a new file, only runs the  *)
(* client completed with success publish, and each at most once.           *)
(***************************************************************************)
EXTENDS Integers, Sequences

CONSTANTS Runs, Files

VARIABLES chain, completed

\* by is 0 for the operator.
Publishers == {chain[n].by : n \in 1..Len(chain)}

Init ==
    /\ \E f \in Files : chain = <<[by |-> 0, basis |-> 0, file |-> f]>>
    /\ completed = {}

Login ==
    /\ \E f \in Files : chain' = Append(chain, [by |-> 0, basis |-> Len(chain), file |-> f])
    /\ UNCHANGED completed

Complete(r) ==
    /\ r \notin completed
    /\ completed' = completed \cup {r}
    /\ UNCHANGED chain

\* seen is what was current when the file was compared.
Publish(r, basis, seen) ==
    /\ r \in completed /\ r \notin Publishers
    /\ basis <= seen /\ chain[seen].file = chain[basis].file
    /\ \A n \in seen + 1..Len(chain) : chain[n].by = 0
    /\ \E f \in Files \ {chain[Len(chain)].file} :
         chain' = Append(chain, [by |-> r, basis |-> basis, file |-> f])
    /\ UNCHANGED completed

Next ==
    \/ Login
    \/ \E r \in Runs : \/ Complete(r)
                      \/ \E basis, seen \in 1..Len(chain) : Publish(r, basis, seen)

Spec == Init /\ [][Next]_<<chain, completed>>
=============================================================================
