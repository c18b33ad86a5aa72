---------------------------- MODULE ThreadChains ----------------------------
(***************************************************************************)
(* What session reuse promises, without journal, policy or sessions: one   *)
(* run at a time; a run continues at most one earlier run, which ended     *)
(* well; and no run is ever continued twice.  The runs form chains.        *)
(***************************************************************************)
EXTENDS Naturals

CONSTANT Runs       \* positive numbers, one for each run there may be

VARIABLES
    state,      \* of each run: none, open, good, bad
    from        \* the run it continues, 0 if it opened a session of its own

vars == <<state, from>>

Init == state = [r \in Runs |-> "none"] /\ from = [r \in Runs |-> 0]

Begin(r, f) ==
    /\ state[r] = "none" /\ \A q \in Runs : state[q] # "open"
    /\ f # 0 => /\ f \in Runs /\ state[f] = "good"
                /\ \A q \in Runs : from[q] # f
    /\ state' = [state EXCEPT ![r] = "open"]
    /\ from' = [from EXCEPT ![r] = f]

End(r) ==
    /\ state[r] = "open"
    /\ \E how \in {"good", "bad"} : state' = [state EXCEPT ![r] = how]
    /\ UNCHANGED from

Next == \E r \in Runs : End(r) \/ \E f \in Runs \cup {0} : Begin(r, f)

Spec == Init /\ [][Next]_vars
=============================================================================
