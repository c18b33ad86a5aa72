-------------------------- MODULE MCAtlasWorkflow --------------------------
(***************************************************************************)
(* Instances of the workflow for TLC.  Each prompt set is the operator's   *)
(* stock of prompt files; initial commit 1 is the HEAD every prompt names  *)
(* unless it is meant to be rejected.                                      *)
(***************************************************************************)
EXTENDS AtlasWorkflowProperties

Prompt(gen, action) == [gen |-> gen, parent |-> gen - 1, action |-> action, head |-> 1]

\* bytes parse_prompt refuses
Malformed == [gen |-> 0, parent |-> 0, action |-> "implementation", head |-> 0]

OneImplementation == {Prompt(1, "implementation")}
OneCheckpoint == {Prompt(1, "checkpoint")}

\* with MaxDrops = 1 the operator picks one
EitherPrompt == OneImplementation \cup OneCheckpoint
AnyFile == EitherPrompt \cup {Malformed}

\* an implementation and the patch review that follows it: under two names the same prompt
\* competes with itself for its generation
InboxPrompts == {Prompt(1, "implementation"), Prompt(2, "patch_review")}

\* what the operator may type: anything, one for each of the two dead ends, or the worse of them
AnyResult == ByHand
TypedOrRefused == {"typed", "refused"}
RefusedOnly == {"refused"}
============================================================================
