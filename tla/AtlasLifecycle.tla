--------------------------- MODULE AtlasLifecycle ---------------------------
(***************************************************************************)
(* What Atlas Agent's workflow promises to its operator, without journal,  *)
(* files or crashes: generations are accepted one after the other against  *)
(* the current repository boundary, at most one runs, and each ends at     *)
(* most once.  The boundary moves only when a run completes within the     *)
(* policy of its action, or when an operator adopts a clean repository     *)
(* while nothing is pending.                                               *)
(***************************************************************************)
EXTENDS Integers

CONSTANTS MaxGen, Prompts

VARIABLES
    status,     \* lifecycle status of every generation
    prompt,     \* its prompt, once accepted
    wit,        \* the repository witness it was accepted against
    boundary    \* the repository witness last agreed on

vars == <<status, prompt, wit, boundary>>

Gens == 1..MaxGen
Witnesses == [head : Nat, index : Nat, work : Nat]
Unset == [head |-> 0, index |-> 0, work |-> 0]
Clean(w) == w.index = 0 /\ w.work = 0

Init ==
    /\ status = [g \in Gens |-> "NONE"]
    /\ prompt = [g \in Gens |-> [gen |-> 0, parent |-> 0, action |-> "none", head |-> 0]]
    /\ wit = [g \in Gens |-> Unset]
    /\ boundary = Unset

Initialize ==
    /\ \A g \in Gens : status[g] = "NONE"
    /\ boundary = Unset /\ boundary' \in Witnesses
    /\ UNCHANGED <<status, prompt, wit>>

\* The boundary is the witness a prompt is accepted against: accepting does not move it.
Accept(g, p) ==
    /\ \A h \in Gens : h < g <=> status[h] # "NONE"
    /\ p.gen = g /\ p.parent = g - 1 /\ p.head = boundary.head
    /\ status' = [status EXCEPT ![g] = "ACCEPTED"]
    /\ prompt' = [prompt EXCEPT ![g] = p]
    /\ wit' = [wit EXCEPT ![g] = boundary]
    /\ UNCHANGED boundary

Cancel(g) ==
    /\ status[g] = "ACCEPTED"
    /\ status' = [status EXCEPT ![g] = "CANCELLED"]
    /\ UNCHANGED <<prompt, wit, boundary>>

Start(g) ==
    /\ status[g] = "ACCEPTED"
    /\ \A h \in Gens : status[h] # "RUNNING"
    /\ status' = [status EXCEPT ![g] = "RUNNING"]
    /\ UNCHANGED <<prompt, wit, boundary>>

Interrupt(g) ==
    /\ status[g] = "RUNNING"
    /\ status' = [status EXCEPT ![g] = "INTERRUPTED"]
    /\ UNCHANGED <<prompt, wit, boundary>>

\* What the action of a run lets it do to the repository.
WithinPolicy(g, w) ==
    \/ /\ prompt[g].action = "implementation"
       /\ w.head = wit[g].head /\ w.index = wit[g].index
    \/ prompt[g].action = "patch_review" /\ w = wit[g]
    \/ prompt[g].action = "checkpoint" /\ w.head # wit[g].head /\ Clean(w)

Complete(g) ==
    /\ status[g] = "RUNNING"
    /\ boundary' \in Witnesses /\ WithinPolicy(g, boundary')
    /\ status' = [status EXCEPT ![g] = "COMPLETED"]
    /\ UNCHANGED <<prompt, wit>>

Adopt ==
    /\ \A g \in Gens : status[g] \in {"NONE", "COMPLETED", "INTERRUPTED", "CANCELLED"}
    /\ boundary' \in Witnesses /\ Clean(boundary') /\ boundary' # boundary
    /\ UNCHANGED <<status, prompt, wit>>

Next ==
    \/ Initialize \/ Adopt
    \/ \E g \in Gens :
          \/ Cancel(g) \/ Start(g) \/ Interrupt(g) \/ Complete(g)
          \/ \E p \in Prompts : Accept(g, p)

Spec == Init /\ [][Next]_vars
=============================================================================
