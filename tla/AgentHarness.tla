--------------------------- MODULE AgentHarness -----------------------------
(***************************************************************************)
(* AgentHarness of agent/src/harness/agent-harness.ts: the orchestration   *)
(* layer that owns a phase, the persisted session, the writes queued while *)
(* it is busy, three message queues and the abort controller of a run.     *)
(*                                                                         *)
(* Every public operation is an async function, so it is modelled as a     *)
(* thread (an "op") with a program counter that advances from one await    *)
(* to the next; what the low-level loop does between two of its callbacks  *)
(* (Agent.tla) is reduced to one assistant message per turn.  Nothing but  *)
(* the phase keeps two ops apart, and the phase is back to "idle" before   *)
(* the agent_end listeners of a run are awaited.                           *)
(***************************************************************************)
EXTENDS PendingQueue, FiniteSets

CONSTANTS
  MaxOps,         \* bound: prompts, compactions and tree navigations in all
  MaxTurns,       \* bound: turns of one prompt
  MaxMessages,    \* bound: user messages (prompts, steering, follow-up, next turn)
  MaxWrites,      \* bound: session writes of the application
  MaxFaults,      \* bound: hooks, listeners, providers or appends that throw
  WriteTypes,     \* the writes made: "config" (settings), "note" (messages)
  QueueMode,      \* steeringQueueMode and followUpQueueMode
  Structural,     \* TRUE: the application compacts and navigates the tree
  Overlap         \* TRUE: it starts an operation as soon as the phase allows;
                  \* FALSE: only when the promise of the previous one settled

ASSUME HarnessAssumption ==
  /\ {MaxOps, MaxTurns, MaxMessages, MaxWrites, MaxFaults} \subseteq Nat
  /\ QueueMode \in Modes
  /\ {Structural, Overlap} \subseteq BOOLEAN
  /\ WriteTypes \subseteq {"config", "note"}

Ops == 1 .. MaxOps

VARIABLES
  phase, config, steerQueue, followUpQueue, nextTurnQueue,
  pendingWrites,   \* pendingSessionWrites
  session,         \* entries of the session, in the order they were appended
  inFlight,        \* writes made while idle whose append is not done yet
  controller,      \* the op whose AbortController runAbortController is, or 0
  runPromise,      \* the op whose promise runPromise is, or 0
  \* --- locals of the operations
  pc, back,        \* where an op is; where it goes on after a flush
  held,            \* messages it took from a queue or was given
  turns, hasMore, failed, orphan,
  ctx,             \* context.messages of the low-level run
  used,            \* the config in the turn state its requests are made with
  \* --- history
  ops,             \* operations started
  accepted,        \* user messages so far; they are numbered
  writes, queued,  \* session writes so far; those that had to wait
  signalled,       \* ops whose signal is aborted
  abortAsked,      \* ops that were running when abort() was called
  promised,        \* messages given to nextTurn()
  faults,
  lost             \* messages that went with a turn that failed to start

stateVars == <<phase, config, session, pendingWrites, inFlight>>
queueVars == <<steerQueue, followUpQueue, nextTurnQueue>>
runVars   == <<controller, runPromise>>
snapVars  == <<ctx, used>>
opVars    == <<pc, back, held, turns, hasMore, failed, orphan, snapVars>>
histVars  == <<ops, accepted, writes, queued, signalled, abortAsked, promised,
              faults, lost>>
vars == <<stateVars, queueVars, runVars, opVars, histVars>>

-----------------------------------------------------------------------------
\* Session entries.  A write keeps its place in the order of queued writes
\* (seq, 0 if it was persisted at once); a user message the lane it came by.
Entry(type, n, seq) == [type |-> type, n |-> n, seq |-> seq]
User(lane, n) == Entry(lane, n, 0)
Lanes == {"prompt", "steer", "followUp", "nextTurn"}

\* buildContext(): the messages among the entries.
Context(s) ==
  LET C[k \in 0 .. Len(s)] ==
        IF k = 0 THEN <<>>
        ELSE IF s[k].type = "config" THEN C[k - 1] ELSE Append(C[k - 1], s[k])
  IN  C[Len(s)]

Numbers(s) == {s[i].n : i \in 1 .. Len(s)}
NextTurns(s) == {s[i].n : i \in {j \in 1 .. Len(s) : s[j].type = "nextTurn"}}

\* A prompt is over before "done" only when nothing of it is left to run.
Started(t) == pc[t] # "none"
Over(t)    == pc[t] = "done"
Running(t) == Started(t) /\ ~Over(t)

\* Op t goes to label l and changes nothing else of its own.
Goto(t, l) ==
  /\ pc' = [pc EXCEPT ![t] = l]
  /\ UNCHANGED <<back, held, turns, snapVars, hasMore, failed, orphan>>

\* Op t flushes the pending writes and goes on at l.
FlushThen(t, l) ==
  /\ pc' = [pc EXCEPT ![t] = "flush"]
  /\ back' = [back EXCEPT ![t] = l]

-----------------------------------------------------------------------------
(* prompt(), skill() and promptFromTemplate().                             *)

\* FALSE Overlap: the caller awaits an operation before it starts another.
MayStart ==
  /\ phase = "idle" /\ ops < MaxOps
  /\ Overlap \/ (inFlight = {} /\ \A t \in Ops : ~Running(t))

Prompt ==
  LET t == ops + 1 IN
  /\ MayStart
  /\ accepted < MaxMessages
  /\ ops' = t
  /\ accepted' = accepted + 1
  /\ phase' = "turn"
  /\ runPromise' = t
  /\ pc' = [pc EXCEPT ![t] = "snapshot"]
  /\ held' = [held EXCEPT ![t] = <<User("prompt", accepted + 1)>>]
  /\ UNCHANGED <<config, inFlight, session, pendingWrites, queueVars, controller, back, turns, snapVars,
                 hasMore, failed, orphan, writes, queued, signalled, abortAsked,
                 promised, faults, lost>>

\* createTurnState reads the session first, ...
BuildContext(t) ==
  /\ pc[t] \in {"snapshot", "refresh"}
  /\ ctx' = [ctx EXCEPT ![t] = Context(session)]
  /\ pc' = [pc EXCEPT ![t] = IF @ = "snapshot" THEN "resolve" ELSE "resolveNext"]
  /\ UNCHANGED <<stateVars, queueVars, runVars, back, held, turns, hasMore, failed,
                 orphan, used, histVars>>

\* ... and the config after the system prompt callback; executeTurn takes what
\* nextTurn() queued.
Snapshot(t) ==
  /\ pc[t] = "resolve"
  /\ used' = [used EXCEPT ![t] = config]
  /\ nextTurnQueue' = <<>>
  /\ held' = [held EXCEPT ![t] = nextTurnQueue \o @]
  /\ pc' = [pc EXCEPT ![t] = IF nextTurnQueue = <<>> THEN "hook" ELSE "queued"]
  /\ UNCHANGED <<stateVars, steerQueue, followUpQueue, runVars, back, turns, ctx, hasMore,
                 failed, orphan, histVars>>

QueueUpdateSent(t) ==
  /\ pc[t] = "queued"
  /\ Goto(t, "hook")
  /\ UNCHANGED <<stateVars, queueVars, runVars, histVars>>

\* before_agent_start has run: only now is there something abort() can reach.
StartRun(t) ==
  /\ pc[t] = "hook"
  /\ controller' = t
  /\ pc' = [pc EXCEPT ![t] = "announce"]
  /\ hasMore' = [hasMore EXCEPT ![t] = TRUE]
  /\ ctx' = [ctx EXCEPT ![t] = @ \o held[t]]
  /\ UNCHANGED <<stateVars, queueVars, runPromise, back, held, turns, used, failed, orphan,
                 histVars>>

\* message_end of a prompt ("announce") or of an injected message ("inject").
RecordMessage(t) ==
  /\ pc[t] \in {"announce", "inject"}
  /\ held[t] # <<>>
  /\ session' = Append(session, Head(held[t]))
  /\ held' = [held EXCEPT ![t] = Tail(@)]
  /\ ctx' = IF pc[t] = "inject" THEN [ctx EXCEPT ![t] = Append(@, Head(held[t]))] ELSE ctx
  /\ UNCHANGED <<phase, config, inFlight, pendingWrites, queueVars, runVars, pc, back, turns, used,
                 hasMore, failed, orphan, histVars>>

\* Mutant: a save point between the prompt and the answer.
AllRecordedFlush(t) ==
  /\ pc[t] \in {"announce", "inject"}
  /\ held[t] = <<>>
  /\ FlushThen(t, IF pc[t] = "announce" THEN "poll" ELSE "request")
  /\ UNCHANGED <<stateVars, queueVars, runVars, held, turns, snapVars, hasMore, failed, orphan,
                 histVars>>

AllRecorded(t) ==
  /\ pc[t] \in {"announce", "inject"}
  /\ held[t] = <<>>
  /\ Goto(t, IF pc[t] = "announce" THEN "poll" ELSE "request")
  /\ UNCHANGED <<stateVars, queueVars, runVars, histVars>>

\* drainQueuedMessages splices the queue, then awaits the queue_update event.
Take(t, taken, then) ==
  /\ held' = [held EXCEPT ![t] = taken]
  /\ pc' = [pc EXCEPT ![t] = then]
  /\ orphan' = [orphan EXCEPT ![t] = FALSE]
  /\ UNCHANGED <<turns, snapVars, failed>>

PollSteering(t) ==
  /\ pc[t] = "poll"
  /\ Take(t, Drained(QueueMode, steerQueue), IF steerQueue = <<>> THEN "inner" ELSE "drained")
  /\ steerQueue' = Remaining(QueueMode, steerQueue)
  /\ UNCHANGED <<stateVars, followUpQueue, nextTurnQueue, runVars, back, hasMore, histVars>>

DrainSent(t) ==
  /\ pc[t] = "drained"
  /\ Goto(t, "inner")
  /\ UNCHANGED <<stateVars, queueVars, runVars, histVars>>

Inject(t) ==
  /\ pc[t] = "inner"
  /\ hasMore[t] \/ held[t] # <<>>
  /\ Goto(t, "inject")
  /\ UNCHANGED <<stateVars, queueVars, runVars, histVars>>

PollFollowUps(t) ==
  /\ pc[t] = "inner"
  /\ ~hasMore[t] /\ held[t] = <<>>
  /\ followUpQueue # <<>>
  /\ Take(t, Drained(QueueMode, followUpQueue), "drained")
  /\ followUpQueue' = Remaining(QueueMode, followUpQueue)
  /\ hasMore' = [hasMore EXCEPT ![t] = TRUE]
  /\ UNCHANGED <<stateVars, steerQueue, nextTurnQueue, runVars, back, histVars>>

\* Nothing is left to do: the agent_end event, whose handler flushes first.
Stop(t) ==
  /\ pc[t] = "inner"
  /\ ~hasMore[t] /\ held[t] = <<>> /\ followUpQueue = <<>>
  /\ FlushThen(t, "idle")
  /\ UNCHANGED <<stateVars, queueVars, runVars, held, turns, snapVars, hasMore, failed, orphan,
                 histVars>>

\* One turn: the assistant message (and the results of its tools) is
\* persisted; after an error or an abort the loop does not go on.
Respond(t) ==
  /\ pc[t] = "request"
  /\ session' = Append(session, Entry("assistant", t, 0))
  /\ ctx' = [ctx EXCEPT ![t] = Append(@, Entry("assistant", t, 0))]
  /\ turns' = [turns EXCEPT ![t] = IF @ < MaxTurns THEN @ + 1 ELSE @]
  /\ \E more \in BOOLEAN, last \in BOOLEAN :
       /\ more => turns[t] + 1 < MaxTurns
       /\ hasMore' = [hasMore EXCEPT ![t] = more]
       /\ pc' = [pc EXCEPT ![t] = IF last THEN "lastTurnEnd" ELSE "turnEnd"]
  /\ UNCHANGED <<phase, config, inFlight, pendingWrites, queueVars, runVars, back, held, failed,
                 orphan, used, histVars>>

\* turn_end: the listeners first, then the flush, then save_point.
TurnEnd(t) ==
  /\ pc[t] \in {"turnEnd", "lastTurnEnd"}
  /\ FlushThen(t, IF pc[t] = "turnEnd" THEN "savePoint" ELSE "lastSave")
  /\ UNCHANGED <<stateVars, queueVars, runVars, held, turns, snapVars, hasMore, failed, orphan,
                 histVars>>

\* After save_point: prepareNextTurn flushes again and takes a new snapshot;
\* the end of the run flushes in the handler of agent_end.
SavePoint(t) ==
  /\ pc[t] \in {"savePoint", "lastSave", "failSave"}
  /\ FlushThen(t, IF pc[t] = "savePoint" THEN "refresh" ELSE "idle")
  /\ UNCHANGED <<stateVars, queueVars, runVars, held, turns, snapVars, hasMore, failed, orphan,
                 histVars>>

\* Mutant: the turn state is not handed to the loop.
RefreshStale(t) ==
  /\ pc[t] = "resolveNext"
  /\ Goto(t, "poll")
  /\ UNCHANGED <<stateVars, queueVars, runVars, histVars>>

Refresh(t) ==
  /\ pc[t] = "resolveNext"
  /\ used' = [used EXCEPT ![t] = config]
  /\ pc' = [pc EXCEPT ![t] = "poll"]
  /\ UNCHANGED <<stateVars, queueVars, runVars, back, held, turns, hasMore, failed,
                 orphan, ctx, histVars>>

-----------------------------------------------------------------------------
(* flushPendingSessionWrites: append the head, then shift, until empty.    *)

FlushAppend(t) ==
  /\ pc[t] = "flush"
  /\ pendingWrites # <<>>
  /\ session' = Append(session, Head(pendingWrites))
  /\ Goto(t, "shift")
  /\ UNCHANGED <<phase, config, inFlight, pendingWrites, queueVars, runVars, histVars>>

FlushShift(t) ==
  /\ pc[t] = "shift"
  /\ pendingWrites' = IF pendingWrites = <<>> THEN <<>> ELSE Tail(pendingWrites)
  /\ Goto(t, "flush")
  /\ UNCHANGED <<phase, config, inFlight, session, queueVars, runVars, histVars>>

Flushed(t) ==
  /\ pc[t] = "flush"
  /\ pendingWrites = <<>>
  /\ Goto(t, back[t])
  /\ UNCHANGED <<stateVars, queueVars, runVars, histVars>>

-----------------------------------------------------------------------------
(* The end of a run.                                                       *)

\* The handler of agent_end: idle before the listeners are called.
BecomeIdle(t) ==
  /\ pc[t] = "idle"
  /\ phase' = "idle"
  /\ Goto(t, "listeners")
  /\ UNCHANGED <<config, inFlight, session, pendingWrites, queueVars, runVars, histVars>>

\* Mutant: the run waits for its own promise.
ListenersWaitForIdle(t) ==
  /\ pc[t] = "listeners"
  /\ runPromise # t
  /\ FlushThen(t, "clear")
  /\ UNCHANGED <<stateVars, queueVars, runVars, held, turns, snapVars, hasMore, failed, orphan,
                 histVars>>

\* agent_end and settled have been awaited; the finally of executeTurn.
ListenersDone(t) ==
  /\ pc[t] = "listeners"
  /\ FlushThen(t, "clear")
  /\ UNCHANGED <<stateVars, queueVars, runVars, held, turns, snapVars, hasMore, failed, orphan,
                 histVars>>

ClearController(t) ==
  /\ pc[t] = "clear"
  /\ controller' = 0
  /\ Goto(t, IF failed[t] = "twice" THEN "catch" ELSE "settle")
  /\ UNCHANGED <<stateVars, queueVars, runPromise, histVars>>

\* catch of prompt(): the operation rejects.
Catch(t) ==
  /\ pc[t] = "catch"
  /\ phase' = "idle"
  /\ Goto(t, "settle")
  /\ UNCHANGED <<config, inFlight, session, pendingWrites, queueVars, runVars, histVars>>

\* finishRunPromise()
Settle(t) ==
  /\ pc[t] = "settle"
  /\ runPromise' = 0
  /\ Goto(t, "done")
  /\ UNCHANGED <<stateVars, queueVars, controller, histVars>>

\* emitRunFailure: an assistant error message, turn_end, agent_end.
ReportFailure(t) ==
  /\ pc[t] = "failure"
  /\ session' = Append(session, Entry("assistant", t, 0))
  /\ failed' = [failed EXCEPT ![t] = "once"]
  /\ FlushThen(t, "failSave")
  /\ UNCHANGED <<phase, config, inFlight, pendingWrites, queueVars, runVars, held, turns, snapVars, hasMore,
                 orphan, histVars>>

\* An await rejects.  Before the run exists prompt() itself catches; within
\* the run emitRunFailure does; a failure of that goes to the finally.
MayThrow == {"snapshot", "resolve", "queued", "hook", "announce", "inject", "drained", "request",
             "turnEnd", "lastTurnEnd", "savePoint", "lastSave", "refresh", "resolveNext", "flush",
             "listeners", "failure", "failSave"}

Handler(t) ==
  CASE pc[t] \in {"snapshot", "resolve", "queued", "hook"}     -> "catch"
    [] pc[t] = "flush" /\ back[t] = "clear"         -> "clear"
    [] failed[t] = "once" \/ pc[t] = "failure"      -> "final"
    [] OTHER                                        -> "failure"

\* Mutant: executeTurn splices the queue and puts nothing back.
RollBackDrained(t) ==
  IF pc[t] = "drained" /\ ~orphan[t] /\ held[t] # <<>> /\ held[t][1].type = "steer"
  THEN steerQueue' = held[t] \o steerQueue /\ UNCHANGED <<followUpQueue, nextTurnQueue>>
  ELSE IF pc[t] = "drained" /\ ~orphan[t] /\ held[t] # <<>>
  THEN followUpQueue' = held[t] \o followUpQueue /\ UNCHANGED <<steerQueue, nextTurnQueue>>
  ELSE UNCHANGED queueVars

\* What executeTurn or drainQueuedMessages put back when queue_update throws.
RollBack(t) ==
  LET lane == IF held[t] = <<>> THEN "none" ELSE held[t][1].type IN
  CASE pc[t] = "queued" ->
         /\ nextTurnQueue' = SubSeq(held[t], 1, Len(held[t]) - 1) \o nextTurnQueue
         /\ UNCHANGED <<steerQueue, followUpQueue>>
    [] pc[t] = "drained" /\ ~orphan[t] /\ lane = "steer" ->
         /\ steerQueue' = held[t] \o steerQueue
         /\ UNCHANGED <<followUpQueue, nextTurnQueue>>
    [] pc[t] = "drained" /\ ~orphan[t] /\ lane = "followUp" ->
         /\ followUpQueue' = held[t] \o followUpQueue
         /\ UNCHANGED <<steerQueue, nextTurnQueue>>
    [] OTHER -> UNCHANGED queueVars

\* Mutant: a flush takes the write off first and, when it fails, queues it again.
LeftByRequeue(t) ==
  IF pc[t] = "flush" /\ pendingWrites # <<>>
  THEN Append(Tail(pendingWrites), Head(pendingWrites))
  ELSE pendingWrites

\* The writes an exception leaves to later flushes: all of them.
LeftBy(t) == pendingWrites

Throw(t) ==
  /\ pc[t] \in MayThrow
  /\ faults < MaxFaults
  /\ faults' = faults + 1
  /\ RollBack(t)
  /\ held' = [held EXCEPT ![t] = <<>>]
  /\ IF pc[t] \in {"turnEnd", "lastTurnEnd"}
     THEN FlushThen(t, "failure") /\ UNCHANGED failed    \* rethrown after the flush
     ELSE IF Handler(t) = "final"
     THEN FlushThen(t, "clear") /\ failed' = [failed EXCEPT ![t] = "twice"]
     ELSE /\ pc' = [pc EXCEPT ![t] = Handler(t)]
          /\ failed' = IF Handler(t) = "clear" THEN [failed EXCEPT ![t] = "twice"] ELSE failed
          /\ UNCHANGED back
  /\ pendingWrites' = LeftBy(t)
  /\ lost' = IF pc[t] \in {"hook", "announce"} THEN lost \union Numbers(held[t]) ELSE lost
  /\ UNCHANGED <<phase, config, session, inFlight, runVars, turns, snapVars, hasMore, orphan,
                 ops, accepted, writes, queued, signalled, abortAsked, promised>>

-----------------------------------------------------------------------------
(* compact() and navigateTree().                                           *)

StartStructural(p) ==
  LET t == ops + 1 IN
  /\ Structural
  /\ MayStart
  /\ ops' = t
  /\ phase' = p
  /\ pc' = [pc EXCEPT ![t] = p]
  /\ UNCHANGED <<config, inFlight, session, pendingWrites, queueVars, runVars, back, held, turns, snapVars,
                 hasMore, failed, orphan, accepted, writes, queued, signalled,
                 abortAsked, promised, faults, lost>>

Compact      == StartStructural("compaction")
NavigateTree == StartStructural("branch_summary")

\* The summary is made (or a hook cancels, or something throws): append the
\* entry, notify, and become idle again in the finally.
StructuralWork(t) ==
  /\ pc[t] \in {"compaction", "branch_summary"}
  /\ session' \in {session, Append(session, Entry(pc[t], t, 0))}
  /\ Goto(t, "release")
  /\ UNCHANGED <<phase, config, inFlight, pendingWrites, queueVars, runVars, histVars>>

Release(t) ==
  /\ pc[t] = "release"
  /\ phase' = "idle"
  /\ Goto(t, "done")
  /\ UNCHANGED <<config, inFlight, session, pendingWrites, queueVars, runVars, histVars>>

-----------------------------------------------------------------------------
(* Operations that never wait for the run.                                 *)

\* setModel, setThinkingLevel, setTools, setActiveTools ("config") and
\* appendMessage ("note"): queued while not idle, else sent to the storage,
\* which the caller awaits (FALSE Overlap) before it goes on.
WriteWhileBusy(type) ==
  /\ phase # "idle"
  /\ writes < MaxWrites
  /\ writes' = writes + 1
  /\ queued' = queued + 1
  /\ pendingWrites' = Append(pendingWrites, Entry(type, writes + 1, queued + 1))
  /\ config' = IF type = "config" THEN writes + 1 ELSE config
  /\ UNCHANGED <<phase, session, inFlight, queueVars, runVars, opVars, ops, accepted,
                 signalled, abortAsked, promised, faults, lost>>

WriteWhileIdle(type) ==
  /\ phase = "idle"
  /\ writes < MaxWrites
  /\ Overlap \/ inFlight = {}
  /\ writes' = writes + 1
  /\ inFlight' = inFlight \union {Entry(type, writes + 1, 0)}
  /\ UNCHANGED <<phase, config, session, pendingWrites, queueVars, runVars, opVars, ops,
                 accepted, queued, signalled, abortAsked, promised, faults, lost>>

\* The append is done and the setter goes on, in whatever phase that is.
WriteDone(e) ==
  /\ e \in inFlight
  /\ inFlight' = inFlight \ {e}
  /\ session' = Append(session, e)
  /\ config' = IF e.type = "config" THEN e.n ELSE config
  /\ UNCHANGED <<phase, pendingWrites, queueVars, runVars, opVars, histVars>>

WriteFails(e) ==
  /\ e \in inFlight
  /\ inFlight' = inFlight \ {e}
  /\ faults < MaxFaults
  /\ faults' = faults + 1
  /\ UNCHANGED <<phase, config, session, pendingWrites, queueVars, runVars, opVars, ops,
                 accepted, writes, queued, signalled, abortAsked, promised, lost>>

Steer ==
  /\ phase # "idle"
  /\ accepted < MaxMessages
  /\ accepted' = accepted + 1
  /\ steerQueue' = Append(steerQueue, User("steer", accepted + 1))
  /\ UNCHANGED <<stateVars, followUpQueue, nextTurnQueue, runVars, opVars, ops, writes,
                 queued, signalled, abortAsked, promised, faults, lost>>

FollowUp ==
  /\ phase # "idle"
  /\ accepted < MaxMessages
  /\ accepted' = accepted + 1
  /\ followUpQueue' = Append(followUpQueue, User("followUp", accepted + 1))
  /\ UNCHANGED <<stateVars, steerQueue, nextTurnQueue, runVars, opVars, ops, writes,
                 queued, signalled, abortAsked, promised, faults, lost>>

NextTurn ==
  /\ accepted < MaxMessages
  /\ accepted' = accepted + 1
  /\ nextTurnQueue' = Append(nextTurnQueue, User("nextTurn", accepted + 1))
  /\ promised' = promised \union {accepted + 1}
  /\ UNCHANGED <<stateVars, steerQueue, followUpQueue, runVars, opVars, ops, writes,
                 queued, signalled, abortAsked, faults, lost>>

\* Labels of a run that has not emitted its agent_end yet.
InRun == {"snapshot", "resolve", "queued", "hook", "announce", "poll", "drained", "inner", "inject",
          "request", "turnEnd", "lastTurnEnd", "savePoint", "lastSave", "refresh",
          "resolveNext"}

\* abort() replaces the two queues by new arrays and signals the controller;
\* a drain that is under way would roll back into the old array.
Abort ==
  /\ steerQueue' = <<>>
  /\ followUpQueue' = <<>>
  /\ signalled' = signalled \union ({controller} \ {0})
  /\ abortAsked' = abortAsked \union {t \in Ops : pc[t] \in InRun}
  /\ orphan' = [t \in Ops |-> orphan[t] \/ pc[t] = "drained"]
  /\ UNCHANGED <<stateVars, nextTurnQueue, runVars, pc, back, held, turns, snapVars, hasMore,
                 failed, ops, accepted, writes, queued, promised, faults, lost>>

-----------------------------------------------------------------------------
Init ==
  /\ phase = "idle" /\ config = 0 /\ session = <<>> /\ pendingWrites = <<>>
  /\ steerQueue = <<>> /\ followUpQueue = <<>> /\ nextTurnQueue = <<>>
  /\ controller = 0 /\ runPromise = 0 /\ inFlight = {}
  /\ ctx = [t \in Ops |-> <<>>] /\ used = [t \in Ops |-> 0]
  /\ pc = [t \in Ops |-> "none"] /\ back = [t \in Ops |-> "none"]
  /\ held = [t \in Ops |-> <<>>] /\ turns = [t \in Ops |-> 0]
  /\ hasMore = [t \in Ops |-> FALSE] /\ failed = [t \in Ops |-> "no"]
  /\ orphan = [t \in Ops |-> FALSE]
  /\ ops = 0 /\ accepted = 0 /\ writes = 0 /\ queued = 0
  /\ signalled = {} /\ abortAsked = {} /\ promised = {} /\ faults = 0 /\ lost = {}

OpStep(t) ==
  \/ BuildContext(t) \/ Snapshot(t) \/ QueueUpdateSent(t) \/ StartRun(t)
  \/ RecordMessage(t) \/ AllRecorded(t) \/ PollSteering(t) \/ DrainSent(t)
  \/ Inject(t) \/ PollFollowUps(t) \/ Stop(t)
  \/ Respond(t) \/ TurnEnd(t) \/ SavePoint(t) \/ Refresh(t)
  \/ FlushAppend(t) \/ FlushShift(t) \/ Flushed(t)
  \/ BecomeIdle(t) \/ ListenersDone(t) \/ ClearController(t) \/ Catch(t) \/ Settle(t)
  \/ ReportFailure(t)
  \/ StructuralWork(t) \/ Release(t)

Application ==
  \/ Prompt \/ Compact \/ NavigateTree
  \/ \E type \in WriteTypes : WriteWhileBusy(type) \/ WriteWhileIdle(type)
  \/ \E e \in inFlight : WriteDone(e) \/ WriteFails(e)
  \/ Steer \/ FollowUp \/ NextTurn \/ Abort

Next == Application \/ \E t \in Ops : OpStep(t) \/ Throw(t)

Spec == Init /\ [][Next]_vars

\* Whatever an operation awaits settles sooner or later.
FairSpec == Spec /\ \A t \in Ops : WF_vars(OpStep(t))

-----------------------------------------------------------------------------
(* Properties.                                                             *)

Labels == {"none", "poll", "inner", "shift", "idle", "clear", "catch", "settle", "done",
           "compaction", "branch_summary", "release"} \union MayThrow

EntrySet == [type : Lanes \union {"assistant", "config", "note", "compaction", "branch_summary"},
             n : Nat, seq : Nat]

\* Every variable of the harness and of its operations has a value of its type.
TypeOK ==
  /\ phase \in {"idle", "turn", "compaction", "branch_summary"} /\ config \in Nat
  /\ session \in Seq(EntrySet) /\ pendingWrites \in Seq(EntrySet)
  /\ steerQueue \in Seq(EntrySet) /\ followUpQueue \in Seq(EntrySet)
  /\ nextTurnQueue \in Seq(EntrySet)
  /\ controller \in Ops \union {0} /\ runPromise \in Ops \union {0}
  /\ pc \in [Ops -> Labels] /\ back \in [Ops -> Labels]
  /\ held \in [Ops -> Seq(EntrySet)] /\ turns \in [Ops -> Nat]
  /\ hasMore \in [Ops -> BOOLEAN] /\ failed \in [Ops -> {"no", "once", "twice"}]
  /\ orphan \in [Ops -> BOOLEAN] /\ inFlight \subseteq EntrySet
  /\ ctx \in [Ops -> Seq(EntrySet)] /\ used \in [Ops -> Nat]
  /\ ops \in 0 .. MaxOps /\ accepted \in Nat /\ writes \in Nat /\ queued \in Nat
  /\ signalled \subseteq Ops /\ abortAsked \subseteq Ops /\ promised \subseteq Nat
  /\ faults \in Nat /\ lost \subseteq Nat

\* The queued writes that have not reached the session: the head that is being
\* appended counts as persisted.
Unflushed == IF \E t \in Ops : pc[t] = "shift" THEN Tail(pendingWrites) ELSE pendingWrites

\* Each write that had to wait is persisted exactly once and in the order the
\* writes were made, whatever fails in between.
WritesInOrderOnce ==
  LET saved == queued - Len(Unflushed)
      persisted == {i \in 1 .. Len(session) : session[i].seq > 0}
  IN  /\ {session[i].seq : i \in persisted} = 1 .. saved
      /\ \A i, j \in persisted : i < j => session[i].seq < session[j].seq
      /\ \A i \in 1 .. Len(Unflushed) : Unflushed[i].seq = saved + i

Quiet == phase = "idle" /\ \A t \in Ops : ~Running(t)

\* docs/agent-harness.md: pending session writes are always persisted, at
\* save points, at settlement and in failure cleanup: none waits in a
\* harness that has nothing left to do.
PendingWritesPersisted == Quiet => pendingWrites = <<>>

\* Writes reach the session in the order they were made: a reader never takes
\* an older model, thinking level or set of tools for the current one.
WritesInCallOrder ==
  LET log == SelectSeq(session \o Unflushed, LAMBDA e : e.type \in {"config", "note"})
  IN  \A i \in 1 .. Len(log) - 1 : log[i].n < log[i + 1].n

\* Writes made while busy land after the messages of the turn they were made
\* in: never between a user message and the answer to it.
WritesFollowTheTurn ==
  faults = 0 => \A i \in 1 .. Len(session) :
    session[i].seq > 0 =>
      /\ i > 1
      /\ session[i - 1].type \notin Lanes

\* A write that had to wait is saved, and behind the turn it was made in.
WritesReachTheirPlace == PendingWritesPersisted /\ WritesFollowTheTurn

\* docs/agent-harness.md, save points: what a request is made of is what the
\* session holds - the same messages in the same order, although the loop
\* appends to a context of its own and the session is written by others; and
\* no older model, thinking level or set of tools than the newest recorded.
RequestSeesSession ==
  \A t \in Ops : pc[t] = "request" =>
    /\ ctx[t] = Context(session)
    /\ \A i \in 1 .. Len(session) : session[i].type = "config" => session[i].n <= used[t]

\* A message given to nextTurn() is kept until it is recorded, whatever is aborted
\* and whatever fails, the queue_update in which executeTurn rolls back included,
\* with one exception, the messages in lost: executeTurn has no rollback left once
\* that event is sent, so a before_agent_start hook that throws, or an append or a
\* listener that throws while the messages are announced, takes those it holds.  As
\* long as no turn lost any, they stand in front of the prompt they were kept for.
NextTurnSurvives ==
  /\ \A n \in promised :
       n \in NextTurns(nextTurnQueue) \union NextTurns(session) \union lost
               \union UNION {NextTurns(held[t]) : t \in Ops}
  /\ lost = {} => \A i \in 1 .. Len(session) - 1 :
       session[i].type = "nextTurn" => session[i + 1].type \in {"nextTurn", "prompt"}

\* Without the exception: no failure loses a message given to nextTurn().
NextTurnNeverLost == promised \intersect lost = {}

\* No user message is recorded twice, even when a drain is rolled back.
UserMessagesOnce ==
  \A i, j \in 1 .. Len(session) :
    session[i].type \in Lanes /\ session[j].type \in Lanes /\ session[i].n = session[j].n
    => i = j

\* User messages are recorded once, and those for the next turn are lost to no abort
\* and to no failure but that of the hook or of the announcement of their own turn.
UserMessagesKept == UserMessagesOnce /\ NextTurnSurvives

\* The phase tells that a run is under way until its agent_end.
PhaseCoversRun == \A t \in Ops : pc[t] \in InRun => phase = "turn"

\* waitForIdle() has something to wait for as long as a prompt is running.
IdleWaitCoversRun ==
  \A t \in Ops : pc[t] \in InRun => runPromise = t

\* Why the last two hold when callers await (~Overlap): one operation runs at
\* a time, and from its start to its agent_end, the flushes in between
\* included, the phase and the promise are those of that run.
OnRun(t) == pc[t] \in InRun \/ (pc[t] \in {"flush", "shift"} /\ back[t] \in InRun)

OneRunAtATime ==
  /\ ops \in 0 .. MaxOps
  /\ pc \in [Ops -> Labels] /\ back \in [Ops -> Labels]
  /\ \A t \in Ops : t > ops => pc[t] = "none"
  /\ \A t \in Ops : pc[t] \in {"flush", "shift"} => back[t] # "none"
  /\ \A t, u \in Ops : Running(t) /\ Running(u) => t = u
  /\ \A t \in Ops : OnRun(t) => phase = "turn" /\ runPromise = t

\* abort() reaches the run it is called in: that run asks no provider any
\* more with a signal that is not aborted.
AbortReachesRun ==
  \A t \in abortAsked : pc[t] = "request" => t \in signalled

\* Every operation settles: its promise is resolved or rejected.
OpsSettle == \A t \in Ops : Started(t) ~> Over(t)
=============================================================================
