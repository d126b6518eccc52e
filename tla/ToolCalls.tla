----------------------------- MODULE ToolCalls ------------------------------
(***************************************************************************)
(* The life of one tool call of an assistant message, as the helpers of    *)
(* agent-loop.ts drive it: tool_execution_start, prepareToolCall,          *)
(* executePreparedToolCall, finalizeExecutedToolCall, tool_execution_end.  *)
(*                                                                         *)
(*   unused -> requested -> started -> settled            (immediate)      *)
(*                          started -> prepared -> executing -> returned   *)
(*                                     returned -> ending -> settled       *)
(*                          executing, returned, ending -> rejected        *)
(*                                                                         *)
(* In a parallel batch every prepared call is an async function of its     *)
(* own: nothing cancels it when the batch that awaits it is rejected.      *)
(* The module constrains only the state of the calls; Agent.tla conjoins   *)
(* its actions with the effect of the events they emit.                    *)
(***************************************************************************)
EXTENDS Naturals, FiniteSets, Sequences

CONSTANT MaxCalls          \* bound: tool calls the model requests in all

ASSUME MaxCallsAssumption == MaxCalls \in Nat

Calls == 1 .. MaxCalls

VARIABLES
  stage,        \* where each call is in its life
  outcome,      \* its finalized result: what shouldTerminateToolBatch reads
  owner,        \* the run whose assistant message asked for the call
  executed,     \* calls whose tool.execute() was entered (history)
  updated,      \* calls that reported a partial result
  badUpdate     \* calls one of whose update listeners failed

callVars == <<stage, outcome, owner, executed, updated, badUpdate>>

Stages == {"unused", "requested", "started", "prepared", "executing",
           "returned", "ending", "settled", "rejected"}
Outcomes == {"none", "ok", "terminate", "error"}

CallsTypeOK ==
  /\ stage \in [Calls -> Stages]
  /\ outcome \in [Calls -> Outcomes]
  /\ owner \in [Calls -> Nat]
  /\ executed \subseteq Calls
  /\ updated \subseteq Calls
  /\ badUpdate \subseteq Calls

CallsInit ==
  /\ stage = [c \in Calls |-> "unused"]
  /\ outcome = [c \in Calls |-> "none"]
  /\ owner = [c \in Calls |-> 0]
  /\ executed = {}
  /\ updated = {}
  /\ badUpdate = {}

-----------------------------------------------------------------------------
\* Every id a provider gives is new: ids are handed out in order.
Issued == Cardinality({c \in Calls : stage[c] # "unused"})
NextCalls(k) == [i \in 1 .. k |-> Issued + i]

\* An assistant message of run r asks for the k next calls.
Request(k, r) ==
  LET asked == Issued + 1 .. Issued + k
  IN  /\ stage' = [c \in Calls |-> IF c \in asked THEN "requested" ELSE stage[c]]
      /\ owner' = [c \in Calls |-> IF c \in asked THEN r ELSE owner[c]]
      /\ UNCHANGED <<outcome, executed, updated, badUpdate>>

\* tool_execution_start has been emitted.
Start(c) ==
  /\ stage[c] = "requested"
  /\ stage' = [stage EXCEPT ![c] = "started"]
  /\ UNCHANGED <<outcome, owner, executed, updated, badUpdate>>

\* prepareToolCall returned "immediate", or the message was truncated: the
\* call gets an error result and its tool is never entered.
FailImmediately(c) ==
  /\ stage[c] = "started"
  /\ stage' = [stage EXCEPT ![c] = "settled"]
  /\ outcome' = [outcome EXCEPT ![c] = "error"]
  /\ UNCHANGED <<owner, executed, updated, badUpdate>>

\* prepareToolCall returned "prepared"; a parallel batch defers execution.
Prepare(c) ==
  /\ stage[c] = "started"
  /\ stage' = [stage EXCEPT ![c] = "prepared"]
  /\ UNCHANGED <<outcome, owner, executed, updated, badUpdate>>

\* A sequential batch enters the tool as soon as the call is prepared.
Execute(c) ==
  /\ stage[c] = "started"
  /\ stage' = [stage EXCEPT ![c] = "executing"]
  /\ executed' = executed \union {c}
  /\ UNCHANGED <<outcome, owner, updated, badUpdate>>

\* Promise.all(finalizedCalls.map(...)) enters every prepared call at once.
ExecuteAll(S) ==
  /\ \A c \in S : stage[c] \in {"prepared", "settled"}
  /\ stage' = [c \in Calls |-> IF c \in S /\ stage[c] = "prepared"
                               THEN "executing" ELSE stage[c]]
  /\ executed' = executed \union {c \in S : stage[c] = "prepared"}
  /\ UNCHANGED <<outcome, owner, updated, badUpdate>>

\* Mutant: acceptingUpdates is never reset.
UpdateAnyTime(c, fails) ==
  /\ stage[c] \in {"executing", "returned", "ending", "settled"}
  /\ c \notin updated
  /\ updated' = updated \union {c}
  /\ badUpdate' = IF fails THEN badUpdate \union {c} ELSE badUpdate
  /\ UNCHANGED <<stage, outcome, owner, executed>>

\* The tool calls onUpdate.  acceptingUpdates is true only until execute()
\* settles.  One partial result per call is enough to tell orders apart.
Update(c, fails) ==
  /\ stage[c] = "executing"
  /\ c \notin updated
  /\ updated' = updated \union {c}
  /\ badUpdate' = IF fails THEN badUpdate \union {c} ELSE badUpdate
  /\ UNCHANGED <<stage, outcome, owner, executed>>

\* execute() settles, its updates are awaited and afterToolCall has run; a
\* failed update rejects the call, a throwing tool is only an error result.
Return(c, o) ==
  /\ stage[c] = "executing"
  /\ IF c \in badUpdate
     THEN /\ stage' = [stage EXCEPT ![c] = "rejected"]
          /\ UNCHANGED outcome
     ELSE /\ stage' = [stage EXCEPT ![c] = "returned"]
          /\ outcome' = [outcome EXCEPT ![c] = o]
  /\ UNCHANGED <<owner, executed, updated, badUpdate>>

\* tool_execution_end is reduced; its listeners run only inside a run.
EmitEnd(c, inRun) ==
  /\ stage[c] = "returned"
  /\ stage' = [stage EXCEPT ![c] = IF inRun THEN "ending" ELSE "rejected"]
  /\ UNCHANGED <<outcome, owner, executed, updated, badUpdate>>

\* The listeners of tool_execution_end resolve, or one of them throws.
EndListeners(c, fails) ==
  /\ stage[c] = "ending"
  /\ stage' = [stage EXCEPT ![c] = IF fails THEN "rejected" ELSE "settled"]
  /\ UNCHANGED <<outcome, owner, executed, updated, badUpdate>>
=============================================================================
