---------------------------- MODULE PendingQueue ----------------------------
(***************************************************************************)
(* The PendingMessageQueue class of agent.ts: a FIFO of user messages that *)
(* is drained either whole or one message at a time, depending on a mode   *)
(* the owner may change at any moment.  AgentHarness keeps the same kind   *)
(* of queue as bare arrays (drainQueuedMessages).                          *)
(***************************************************************************)
EXTENDS Naturals, Sequences

\* QueueMode of types.ts.
Modes == {"all", "one-at-a-time"}

\* What drain() returns ...
Drained(mode, q) ==
  IF mode = "all" \/ q = <<>> THEN q ELSE <<Head(q)>>

\* ... and what it leaves in the queue.
Remaining(mode, q) ==
  IF mode = "all" \/ q = <<>> THEN <<>> ELSE Tail(q)
=============================================================================
