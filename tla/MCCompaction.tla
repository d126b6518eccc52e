---------------------------- MODULE MCCompaction ----------------------------
(* Model-checking instance of Compaction.tla beside AgentSession.tla, which *)
(* leaves open where a compaction cuts.  "part" says which of them moves.   *)
EXTENDS MCAgentSession

CONSTANTS MaxEntries, MaxKeep

VARIABLES part, harness, branch, toSummarize, turnPrefix, covers, forgot

Cut == INSTANCE Compaction

branchVars == <<harness, branch, toSummarize, turnPrefix, covers, forgot>>

PartsSpec ==
  /\ part \in {"session", "branch"} /\ Init /\ Cut!BranchInit
  /\ part = "session" => harness
  /\ [][ \/ part = "session" /\ Next /\ UNCHANGED <<part, branchVars>>
         \/ part = "branch" /\ Cut!BranchNext /\ UNCHANGED <<part, vars>>
       ]_<<part, vars, branchVars>>

\* Compaction: summaries hand on what they were made from, but for the case
\* AllIsRemembered fails in.
NothingElseForgotten == Cut!NothingElseForgotten

\* A branch, as AgentSession has it.
AsSession(b) ==
  [i \in DOMAIN b |-> [role |-> b[i].role, id |-> i, keep |-> b[i].ref]]

\* The coding agent cuts only where AgentSession says it may.
CutIsLegal ==
  Cut!JustCompacted /\ ~harness =>
    branch[Len(branch)].ref \in CutPoints(AsSession(Cut!Before))

\* Wherever the budget is filled: what leaves the context is in the summaries and
\* nothing is in two places, no tool result is kept without the reply that called
\* for it, and the cut is one AgentSession allows.
CutIsSound == Cut!EachInOnePlace /\ Cut!ResultsFollowTheirReply /\ CutIsLegal
=============================================================================
