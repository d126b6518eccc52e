--------------------------- MODULE AgentMailbox -----------------------------
(***************************************************************************)
(* Agent.tla implements Mailbox.tla.  A message is queued until a poll     *)
(* drains its queue; it is taken from then on, in the pendingMessages of   *)
(* the loop or among the prompts and injected messages the loop is about   *)
(* to announce, until its message_end is reduced.                          *)
(***************************************************************************)
EXTENDS Agent

IdsInLane(s, lane) ==
  LET held == OfKinds(s, {lane})
  IN  [i \in 1 .. Len(held) |-> held[i].id]

Queued(lane) == IdsInLane(steeringQueue \o followUpQueue, lane)
Taken(lane)  == IdsInLane(Puts(out) \o pending, lane)

Delivered ==
  LET users == OfKinds(messages, Lanes)
  IN  [i \in 1 .. Len(users) |-> [lane |-> users[i].kind, id |-> users[i].id]]

Promise == INSTANCE Mailbox WITH
             Direct <- {"prompt"},
             given <- accepted,
             queued <- [lane \in Lanes |-> Queued(lane)],
             taken <- [lane \in Lanes |-> Taken(lane)],
             delivered <- Delivered,
             dropped <- gone,
             failing <- pc = "failing"

\* Every behaviour of the agent is one of the mailbox: order, no duplicate, and
\* nothing dropped but by a clear, a reset, or the failure of the run that had
\* taken it.
ImplementsMailbox == Promise!Spec
=============================================================================
