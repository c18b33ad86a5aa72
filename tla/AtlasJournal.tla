---------------------------- MODULE AtlasJournal ----------------------------
(***************************************************************************)
(* The append-only journal (events.jsonl) of Atlas Agent's workflow and    *)
(* the projection that replay_journal computes from it.                    *)
(*                                                                         *)
(* replay_journal is a left fold over the events, so the projection is     *)
(* kept here as variables that every append advances by one event: at all  *)
(* times they are the value of replay_journal(journal.read()).             *)
(* Journal.append validates the candidate journal, replay included, BEFORE *)
(* it writes: an event that replay would refuse is never written.          *)
(* Admissible, IntentAdmissible and AdoptionAdmissible state these rules.  *)
(***************************************************************************)
EXTENDS Integers, Sequences, FiniteSets

CONSTANTS
    MaxGen,      \* bound on prompt generations
    Prompts,     \* the prompt files an operator may drop, as parsed records
    Names,       \* file names an inbox file may have, in their sort order
    Results      \* the results an operator may type for complete-run, see Claims

Gens == 1..MaxGen
Actions == {"implementation", "patch_review", "checkpoint"}

(***************************************************************************)
(* A prompt stands for its bytes: two prompts with equal fields have the   *)
(* same SHA-256.  gen = 0 marks bytes that parse_prompt refuses.           *)
(***************************************************************************)
ASSUME MaxGenAssumption == MaxGen \in Nat \ {0}
ASSUME PromptsAssumption ==
    Prompts \subseteq [gen : 0..MaxGen, parent : Nat, action : Actions, head : Nat]
ASSUME NamesAssumption == Names \subseteq Nat
ASSUME ResultsAssumption == Results \subseteq {"typed", "unsupported", "refused"}

(***************************************************************************)
(* The repository witness: HEAD, the content of the index and the content  *)
(* of the work tree (tracked changes and unexpected untracked files).      *)
(* index = 0 and work = 0 say that they equal what HEAD holds.             *)
(***************************************************************************)
Witnesses == [head : Nat, index : Nat, work : Nat]
NoWitness == [head |-> 0, index |-> 0, work |-> 0]
NoPrompt == [gen |-> 0, parent |-> 0, action |-> "none", head |-> 0]

LifeDirs == {"accepted", "running", "completed", "interrupted", "cancelled"}

\* <<directory, name, content>>; outside the inbox the name is the canonical
\* g<generation>-<sha256>.txt of the content
Files == ({"inbox"} \X Names \X Prompts)
            \cup ((LifeDirs \cup {"rejected"}) \X {"canonical"} \X Prompts)
Artifacts == {"logs", "result", "usage"}

Transitions == {"PROMPT_ACCEPTED", "PROMPT_REJECTED", "PROMPT_CANCELLED",
                "RUN_STARTED", "RUN_COMPLETED", "RUN_INTERRUPTED"}
Statuses == {"NONE", "ACCEPTED", "RUNNING", "COMPLETED", "INTERRUPTED", "CANCELLED"}
TerminalStatuses == {"COMPLETED", "INTERRUPTED", "CANCELLED"}

Outcome == [PROMPT_ACCEPTED  |-> "ACCEPTED",  PROMPT_CANCELLED |-> "CANCELLED",
            RUN_STARTED      |-> "RUNNING",   RUN_COMPLETED    |-> "COMPLETED",
            RUN_INTERRUPTED  |-> "INTERRUPTED"]

(***************************************************************************)
(* A transaction is the payload that TRANSITION_PREPARED and its terminal  *)
(* event share.  id is the sequence number of the PREPARED event, unique   *)
(* like the uuid of the code; owned says that the payload carries          *)
(* "execution", fallback is fallback_artifacts.  claim is what the result  *)
(* passed to complete_run says of the executor, which the code takes as it *)
(* is given: the executor's own result, one typed by the operator that     *)
(* agrees with it, one that the reports or the history do not bear out,    *)
(* and one that replay refuses (it contradicts itself, or names another    *)
(* session than the one the run resumed).                                  *)
(***************************************************************************)
ByHand == {"typed", "unsupported", "refused"}
Claims == {"none", "executor"} \cup ByHand
Txs == [id : Nat, event : Transitions, gen : 0..MaxGen, prompt : Prompts, src : Files,
        dst : Files, wit : Witnesses, owned : BOOLEAN, fallback : SUBSET Artifacts,
        claim : Claims]
NoTx == [id |-> 0, event |-> "none"]
Intents == [seq : Nat, gen : Gens, parent : Nat, commit : Nat, wit : Witnesses]
Events == [event : Transitions \cup
              {"WORKFLOW_INITIALIZED", "PROMPT_RECEIVED", "TRANSITION_PREPARED",
               "CHECKPOINT_INTENT", "CHECKPOINT_ABORTED", "REPOSITORY_BOUNDARY_ADOPTED"},
           id : Nat]      \* transaction id, 0 for the events that carry none

VARIABLES
    journal,      \* events.jsonl
    status,       \* status of every generation ("NONE": no such record)
    prompt,       \* prompt of every accepted generation
    wit,          \* repository witness recorded at acceptance
    owned,        \* generations whose record has "execution"
    fallback,     \* fallback_artifacts of the generation's RUN_INTERRUPTED
    claim,        \* what the result in the event that ended the generation says
    boundary,     \* latest_repository_witness
    outstanding,  \* outstanding_transactions: prepared, no terminal event
    intents       \* outstanding_checkpoints

records == <<status, prompt, wit, owned, fallback, claim>>
journalVars == <<journal, records, boundary, outstanding, intents>>

JournalTypeOK ==
    /\ journal \in Seq(Events)
    /\ status \in [Gens -> Statuses]
    /\ prompt \in [Gens -> Prompts \cup {NoPrompt}]
    /\ wit \in [Gens -> Witnesses]
    /\ owned \in SUBSET Gens
    /\ fallback \in [Gens -> SUBSET Artifacts]
    /\ claim \in [Gens -> Claims]
    /\ boundary \in Witnesses
    /\ outstanding \in SUBSET Txs
    /\ intents \in SUBSET Intents

JournalInit ==
    /\ journal = <<>>
    /\ status = [g \in Gens |-> "NONE"]
    /\ prompt = [g \in Gens |-> NoPrompt]
    /\ wit = [g \in Gens |-> NoWitness]
    /\ owned = {}
    /\ fallback = [g \in Gens |-> {}]
    /\ claim = [g \in Gens |-> "none"]
    /\ boundary = NoWitness
    /\ outstanding = {}
    /\ intents = {}

Known == {g \in Gens : status[g] # "NONE"}
Running == {g \in Gens : status[g] = "RUNNING"}
Settled == outstanding = {} /\ intents = {}      \* otherwise INCOMPLETE_TRANSACTION
NextSeq == Len(journal) + 1

\* g = max(generations, default=0) + 1
IsNext(g) == Known = 1..(g - 1)

-----------------------------------------------------------------------------
(* What replay_journal refuses.                                            *)

Admissible(t) ==
    /\ t \in outstanding
    /\ t.event = "PROMPT_ACCEPTED" => IsNext(t.gen) /\ t.prompt.parent = t.gen - 1
    /\ t.event \in {"PROMPT_CANCELLED", "RUN_STARTED"} =>
          status[t.gen] = "ACCEPTED" /\ prompt[t.gen] = t.prompt
    /\ t.event = "RUN_STARTED" => t.wit = wit[t.gen]
    /\ t.event \in {"RUN_COMPLETED", "RUN_INTERRUPTED"} =>
          status[t.gen] = "RUNNING" /\ prompt[t.gen] = t.prompt
    /\ t.event = "RUN_COMPLETED" /\ t.prompt.action = "checkpoint" =>
          \E i \in intents : i.gen = t.gen /\ i.commit = t.wit.head
    /\ t.event = "RUN_COMPLETED" => t.claim # "refused"

IntentAdmissible(i) ==
    /\ status[i.gen] = "ACCEPTED" /\ prompt[i.gen].action = "checkpoint"
    /\ \A j \in intents : j.gen # i.gen
    /\ i.wit = wit[i.gen] /\ i.parent = wit[i.gen].head

AdoptionAdmissible ==
    Settled /\ \A g \in Known : status[g] \in TerminalStatuses

-----------------------------------------------------------------------------
(* Journal.append, one operator per kind of event.                         *)

Log(event, id) == journal' = Append(journal, [event |-> event, id |-> id])

LogInitialized(w) ==
    /\ journal = <<>>
    /\ Log("WORKFLOW_INITIALIZED", 0)
    /\ boundary' = w
    /\ UNCHANGED <<records, outstanding, intents>>

LogReceived ==
    /\ Log("PROMPT_RECEIVED", 0)
    /\ UNCHANGED <<records, boundary, outstanding, intents>>

LogPrepared(t) ==
    /\ Log("TRANSITION_PREPARED", t.id)
    /\ outstanding' = outstanding \cup {t}
    /\ UNCHANGED <<records, boundary, intents>>

LogTerminal(t) ==
    /\ Admissible(t)
    /\ Log(t.event, t.id)
    /\ outstanding' = outstanding \ {t}
    /\ status' = IF t.event = "PROMPT_REJECTED" THEN status
                 ELSE [status EXCEPT ![t.gen] = Outcome[t.event]]
    /\ IF t.event = "PROMPT_ACCEPTED"
       THEN prompt' = [prompt EXCEPT ![t.gen] = t.prompt] /\ wit' = [wit EXCEPT ![t.gen] = t.wit]
       ELSE UNCHANGED <<prompt, wit>>
    /\ owned' = IF t.event = "RUN_STARTED" /\ t.owned THEN owned \cup {t.gen} ELSE owned
    /\ fallback' = IF t.event = "RUN_INTERRUPTED"
                   THEN [fallback EXCEPT ![t.gen] = t.fallback] ELSE fallback
    /\ claim' = IF t.event \in {"RUN_COMPLETED", "RUN_INTERRUPTED"}
                THEN [claim EXCEPT ![t.gen] = t.claim] ELSE claim
    /\ boundary' = IF t.event \in {"PROMPT_ACCEPTED", "RUN_COMPLETED"} THEN t.wit ELSE boundary
    /\ intents' = IF t.event = "RUN_COMPLETED" THEN {i \in intents : i.gen # t.gen} ELSE intents

LogIntent(i) ==
    /\ IntentAdmissible(i)
    /\ Log("CHECKPOINT_INTENT", 0)
    /\ intents' = intents \cup {i}
    /\ UNCHANGED <<records, boundary, outstanding>>

LogAborted(i) ==
    /\ i \in intents /\ status[i.gen] = "ACCEPTED"
    /\ Log("CHECKPOINT_ABORTED", 0)
    /\ intents' = intents \ {i}
    /\ UNCHANGED <<records, boundary, outstanding>>

LogAdopted(w) ==
    /\ AdoptionAdmissible
    /\ Log("REPOSITORY_BOUNDARY_ADOPTED", 0)
    /\ boundary' = w
    /\ UNCHANGED <<records, outstanding, intents>>
=============================================================================
