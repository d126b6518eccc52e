--------------------------- MODULE MCAgentSession ---------------------------
(* Model-checking instances of AgentSession.tla. *)
EXTENDS AgentSession, TLC

Symmetry == Permutations(Prompters)

-----------------------------------------------------------------------------
(* What the excuses of the properties stand for.  The code's comments say  *)
(* it; the configurations that check it find it violated.                  *)

\* isIdle: "no active agent run, retry, auto-compaction, or queued
\* continuation" - with no regard to prompts that overlap, and to the
\* compaction before a prompt.
IdleMeansIdle ==
  ~active => run.at = "none" /\ AtRest /\ \A p \in Prompters : pc[p] # "preflight"

\* subscribe: "Session persistence is handled internally".
EverythingIsHeard == ~deaf

\* What the next run starts from is what the session would rebuild, also after a
\* compaction that was recorded while a message waited for its handlers.
ContextIsNeverBehind ==
  ~deaf => Answers(context) = Answers(BuildContext(session \o saving))

\* retryAttempt: "0 if not retrying".
NoAttemptsLeft == AtRest => attempt = 0
=============================================================================
