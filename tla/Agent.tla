------------------------------- MODULE Agent --------------------------------
(***************************************************************************)
(* The agent core of packages/agent: the run loop of agent-loop.ts         *)
(* (runAgentLoop, runLoop, streamAssistantResponse, the tool batches)      *)
(* driven by the Agent class of agent.ts (runs, queues, transcript).       *)
(*                                                                         *)
(* JavaScript runs one piece of code at a time, from one await to the      *)
(* next; an action is such a piece.  Every emit() is awaited, so the loop  *)
(* is modelled as a program counter pc plus the events `out` it is still   *)
(* to emit before it looks at pc again; between any two of its actions the *)
(* application may steer, abort, reset, ... and the tools of a parallel    *)
(* batch, which are threads of their own, may advance.                     *)
(***************************************************************************)
EXTENDS PendingQueue, ToolCalls

CONSTANTS
  ToolExecution,    \* config.toolExecution: "parallel" or "sequential"
  QueueModes,       \* the queue modes the application uses
  StopsAfterTurn,   \* TRUE: config.shouldStopAfterTurn is given (low-level API)
  MaxMessages,      \* bound: user messages the application submits
  MaxRuns,          \* bound: runs it starts
  MaxCallsPerTurn,  \* bound: tool calls of one assistant message
  MaxResets,        \* bound: calls of reset()
  MaxFaults         \* bound: listeners, hooks or providers that throw

ASSUME AgentAssumption ==
  /\ ToolExecution \in {"parallel", "sequential"}
  /\ QueueModes \subseteq Modes
  /\ StopsAfterTurn \in BOOLEAN
  /\ {MaxMessages, MaxRuns, MaxCallsPerTurn, MaxResets, MaxFaults} \subseteq Nat

VARIABLES
  \* --- class Agent
  active,           \* activeRun is set
  run,              \* number of runs started: names the current run
  aborted,          \* its abort signal
  messages,         \* _state.messages, the transcript
  streamingMessage, \* _state.streamingMessage is set
  isStreaming,      \* _state.isStreaming
  pendingToolCalls, \* _state.pendingToolCalls
  errorMessage,     \* _state.errorMessage is set
  steeringQueue, followUpQueue, steeringMode, followUpMode,
  \* --- locals of the loop
  pc, out,          \* where the loop is, and the events it emits first
  ctx,              \* currentContext.messages
  pending,          \* pendingMessages
  hasMore,          \* hasMoreToolCalls
  firstTurn, skipPoll,
  batch,            \* the tool batch being executed
  \* --- history
  accepted,         \* user messages submitted so far; they are numbered
  polledAt,         \* its value at the last getSteeringMessages
  gone,             \* those dropped on their way, by a clear, a reset or a failure
  torn,             \* the last reset() came in the middle of a run
  resets,
  faults,
  ended,            \* runs whose agent_end reached the listeners
  last              \* the last event listeners saw: its type and its run

classVars == <<active, run, aborted, messages, streamingMessage, isStreaming,
               pendingToolCalls, errorMessage>>
queueVars == <<steeringQueue, followUpQueue, steeringMode, followUpMode>>
loopVars  == <<pc, out, ctx, pending, hasMore, firstTurn, skipPoll, batch>>
lossVars  == <<gone, torn, resets>>
eventVars == <<ended, last>>
histVars  == <<accepted, polledAt, lossVars, faults, eventVars>>
vars == <<classVars, queueVars, loopVars, histVars, callVars>>

-----------------------------------------------------------------------------
(* Messages and events.                                                    *)

Lanes == {"prompt", "steer", "followUp"}
Stops == {"stop", "length", "error", "aborted"}   \* "stop" includes "toolUse"
Failed == {"error", "aborted"}

\* One record shape for all messages: id is the number of a user message or
\* of a tool call; kind is a lane, a stop reason or "result".
Message(role, id, kind, calls) ==
  [role |-> role, id |-> id, kind |-> kind, calls |-> calls]
User(n, lane)          == Message("user", n, lane, <<>>)
Assistant(stop, calls) == Message("assistant", 0, stop, calls)
Partial                == Message("assistant", 0, "partial", <<>>)
ToolResult(c)          == Message("toolResult", c, "result", <<>>)
NoMessage              == Message("none", 0, "none", <<>>)

MessageSet ==
  [role : {"user", "assistant", "toolResult", "none"}, id : Nat,
   kind : Lanes \union Stops \union {"partial", "result", "none"},
   calls : Seq(Calls)]

UserSet == [role : {"user"}, id : Nat, kind : Lanes, calls : {<<>>}]

EventTypes == {"none", "agent_start", "turn_start", "message_start", "message_end",
               "tool_execution_start", "tool_execution_update",
               "tool_execution_end", "turn_end", "agent_end"}
EventSet == [type : EventTypes, msg : MessageSet, call : Nat]

Event(type)          == [type |-> type, msg |-> NoMessage, call |-> 0]
MessageEvent(type, m) == [type |-> type, msg |-> m, call |-> 0]
ToolEvent(type, c)   == [type |-> type, msg |-> NoMessage, call |-> c]

\* message_start and message_end of every message of s, in order.
Announce(s) ==
  [i \in 1 .. 2 * Len(s) |->
     MessageEvent(IF i % 2 = 1 THEN "message_start" ELSE "message_end",
                  s[(i + 1) \div 2])]

\* What each event that is still to be emitted puts in the transcript.
Puts(events) ==
  [i \in 1 .. Len(events) |->
     IF events[i].type = "message_end" THEN events[i].msg ELSE NoMessage]

\* The messages of s of these kinds: SelectSeq, as a function of how much of s
\* is looked at.
OfKinds(s, kinds) ==
  LET among[n \in 0 .. Len(s)] ==
        IF n = 0 THEN <<>>
        ELSE IF s[n].kind \in kinds THEN Append(among[n - 1], s[n]) ELSE among[n - 1]
  IN  among[Len(s)]

UserIds(s) == {s[i].id : i \in {j \in 1 .. Len(s) : s[j].kind \in Lanes}}

\* What the loop has taken and not yet recorded.
InHand == Puts(out) \o pending

-----------------------------------------------------------------------------
(* processEvents: reduce the event, then call the listeners.               *)

\* Mutant: tool_execution_end does not remove the call.
ReduceKeepsCall(e) ==
  /\ messages' = IF e.type = "message_end" THEN Append(messages, e.msg) ELSE messages
  /\ streamingMessage' = CASE e.type = "message_start" -> TRUE
                           [] e.type \in {"message_end", "agent_end"} -> FALSE
                           [] OTHER -> streamingMessage
  /\ pendingToolCalls' = IF e.type = "tool_execution_start"
                         THEN pendingToolCalls \union {e.call} ELSE pendingToolCalls
  /\ errorMessage' = (errorMessage \/ (e.type = "turn_end" /\ e.msg.kind \in Failed))

Reduce(e) ==
  /\ messages' = IF e.type = "message_end" THEN Append(messages, e.msg) ELSE messages
  /\ streamingMessage' = CASE e.type = "message_start" -> TRUE
                           [] e.type \in {"message_end", "agent_end"} -> FALSE
                           [] OTHER -> streamingMessage
  /\ pendingToolCalls' =
       CASE e.type = "tool_execution_start" -> pendingToolCalls \union {e.call}
         [] e.type = "tool_execution_end"   -> pendingToolCalls \ {e.call}
         [] OTHER -> pendingToolCalls
  /\ errorMessage' = (errorMessage \/ (e.type = "turn_end" /\ e.msg.kind \in Failed))

\* Listeners see the event only while some run is active; the event belongs
\* to run r, whatever run is active now.
Listen(e, r) ==
  /\ last' = IF active THEN [type |-> e.type, run |-> r] ELSE last
  /\ ended' = IF active /\ e.type = "agent_end" THEN ended \union {r} ELSE ended

Emit ==
  /\ out # <<>>
  /\ Reduce(Head(out))
  /\ Listen(Head(out), run)
  /\ out' = Tail(out)
  /\ UNCHANGED <<active, run, aborted, isStreaming, queueVars, pc, ctx, pending,
                 hasMore, firstTurn, skipPoll, batch, accepted, polledAt,
                 lossVars, faults, callVars>>

NoBatch == [calls |-> <<>>, kind |-> "none", count |-> 0, cut |-> FALSE]

-----------------------------------------------------------------------------
(* Operations of class Agent.                                              *)

\* runWithLifecycle up to the first await, with runAgentLoop (msgs are the
\* prompts) or runAgentLoopContinue (none): loop state starts from a snapshot.
StartRun(msgs, skip) ==
  /\ ~active
  /\ run < MaxRuns
  /\ active' = TRUE
  /\ run' = run + 1
  /\ aborted' = FALSE
  /\ isStreaming' = TRUE
  /\ streamingMessage' = FALSE
  /\ errorMessage' = FALSE
  /\ ctx' = messages \o msgs
  /\ out' = <<Event("agent_start"), Event("turn_start")>> \o Announce(msgs)
  /\ pc' = "poll"
  /\ pending' = <<>>
  /\ hasMore' = TRUE
  /\ firstTurn' = TRUE
  /\ skipPoll' = skip
  /\ batch' = NoBatch
  /\ UNCHANGED <<messages, pendingToolCalls, polledAt, lossVars, faults, eventVars,
                 steeringMode, followUpMode, callVars>>

Prompt ==
  /\ accepted < MaxMessages
  /\ accepted' = accepted + 1
  /\ StartRun(<<User(accepted + 1, "prompt")>>, FALSE)
  /\ UNCHANGED <<steeringQueue, followUpQueue>>

\* continue(): from an assistant message only queued messages can go on.
Continue ==
  /\ messages # <<>>
  /\ UNCHANGED accepted
  /\ IF messages[Len(messages)].role # "assistant"
     THEN /\ StartRun(<<>>, FALSE)
          /\ UNCHANGED <<steeringQueue, followUpQueue>>
     ELSE \/ /\ steeringQueue # <<>>
             /\ StartRun(Drained(steeringMode, steeringQueue), TRUE)
             /\ steeringQueue' = Remaining(steeringMode, steeringQueue)
             /\ UNCHANGED followUpQueue
          \/ /\ steeringQueue = <<>> /\ followUpQueue # <<>>
             /\ StartRun(Drained(followUpMode, followUpQueue), FALSE)
             /\ followUpQueue' = Remaining(followUpMode, followUpQueue)
             /\ UNCHANGED steeringQueue

Steer ==
  /\ accepted < MaxMessages
  /\ accepted' = accepted + 1
  /\ steeringQueue' = Append(steeringQueue, User(accepted + 1, "steer"))
  /\ UNCHANGED <<classVars, followUpQueue, steeringMode, followUpMode, loopVars,
                 polledAt, lossVars, faults, eventVars, callVars>>

FollowUp ==
  /\ accepted < MaxMessages
  /\ accepted' = accepted + 1
  /\ followUpQueue' = Append(followUpQueue, User(accepted + 1, "followUp"))
  /\ UNCHANGED <<classVars, steeringQueue, steeringMode, followUpMode, loopVars,
                 polledAt, lossVars, faults, eventVars, callVars>>

ClearSteeringQueue ==
  /\ steeringQueue # <<>>
  /\ steeringQueue' = <<>>
  /\ gone' = gone \union UserIds(steeringQueue)
  /\ UNCHANGED <<classVars, followUpQueue, steeringMode, followUpMode, loopVars,
                 accepted, polledAt, torn, resets, faults, eventVars, callVars>>

ClearFollowUpQueue ==
  /\ followUpQueue # <<>>
  /\ followUpQueue' = <<>>
  /\ gone' = gone \union UserIds(followUpQueue)
  /\ UNCHANGED <<classVars, steeringQueue, steeringMode, followUpMode, loopVars,
                 accepted, polledAt, torn, resets, faults, eventVars, callVars>>

SetMode ==
  /\ steeringMode' \in QueueModes
  /\ followUpMode' \in QueueModes
  /\ UNCHANGED <<classVars, steeringQueue, followUpQueue, loopVars, histVars, callVars>>

Abort ==
  /\ active /\ ~aborted
  /\ aborted' = TRUE
  /\ UNCHANGED <<active, run, messages, streamingMessage, isStreaming, pendingToolCalls,
                 errorMessage, queueVars, loopVars, histVars, callVars>>

\* reset() does not look at activeRun: a run may be under way.
Reset ==
  /\ resets < MaxResets
  /\ resets' = resets + 1
  /\ messages' = <<>>
  /\ isStreaming' = FALSE
  /\ streamingMessage' = FALSE
  /\ pendingToolCalls' = {}
  /\ errorMessage' = FALSE
  /\ steeringQueue' = <<>>
  /\ followUpQueue' = <<>>
  /\ gone' = gone \union UserIds(steeringQueue) \union UserIds(followUpQueue)
  /\ torn' = active
  /\ UNCHANGED <<active, run, aborted, steeringMode, followUpMode, loopVars,
                 accepted, polledAt, faults, eventVars, callVars>>

\* Mutant: the pending tool calls are not cleared.
FinishRunKeepsCalls ==
  /\ pc \in {"end", "failing"} /\ out = <<>>
  /\ active' = FALSE
  /\ isStreaming' = FALSE
  /\ streamingMessage' = FALSE
  /\ pc' = "idle"
  /\ ctx' = <<>>
  /\ batch' = NoBatch
  /\ UNCHANGED <<run, aborted, messages, pendingToolCalls, errorMessage, queueVars, out,
                 pending, hasMore, firstTurn, skipPoll, histVars, callVars>>

\* finishRun
FinishRun ==
  /\ pc \in {"end", "failing"} /\ out = <<>>
  /\ active' = FALSE
  /\ isStreaming' = FALSE
  /\ streamingMessage' = FALSE
  /\ pendingToolCalls' = {}
  /\ pc' = "idle"
  /\ ctx' = <<>>
  /\ batch' = NoBatch
  /\ UNCHANGED <<run, aborted, messages, errorMessage, queueVars, out, pending,
                 hasMore, firstTurn, skipPoll, histVars, callVars>>

-----------------------------------------------------------------------------
(* runLoop.                                                                *)

\* Mutant: the queue is polled at the start of a run only.
PollSteeringOnce ==
  /\ pc \in {"poll", "turnEnd"} /\ out = <<>>
  /\ IF skipPoll \/ pc = "turnEnd"
     THEN pending' = <<>> /\ UNCHANGED steeringQueue
     ELSE /\ pending' = Drained(steeringMode, steeringQueue)
          /\ steeringQueue' = Remaining(steeringMode, steeringQueue)
  /\ skipPoll' = FALSE
  /\ pc' = "inner"
  /\ polledAt' = accepted
  /\ UNCHANGED <<classVars, followUpQueue, steeringMode, followUpMode, out, ctx,
                 hasMore, firstTurn, batch, accepted, lossVars, faults, eventVars,
                 callVars>>

\* getSteeringMessages, before the first turn and after every turn.
PollSteering ==
  /\ pc \in {"poll", "turnEnd"} /\ out = <<>>
  /\ IF skipPoll
     THEN pending' = <<>> /\ UNCHANGED steeringQueue
     ELSE /\ pending' = Drained(steeringMode, steeringQueue)
          /\ steeringQueue' = Remaining(steeringMode, steeringQueue)
  /\ skipPoll' = FALSE
  /\ pc' = "inner"
  /\ polledAt' = accepted
  /\ UNCHANGED <<classVars, followUpQueue, steeringMode, followUpMode, out, ctx,
                 hasMore, firstTurn, batch, accepted, lossVars, faults, eventVars,
                 callVars>>

\* Mutant: an aborted run does not inject what it has polled.
StartTurnUnlessAborted ==
  /\ pc = "inner" /\ out = <<>>
  /\ hasMore \/ pending # <<>>
  /\ out' = (IF firstTurn THEN <<>> ELSE <<Event("turn_start")>>)
               \o (IF aborted THEN <<>> ELSE Announce(pending))
  /\ ctx' = IF aborted THEN ctx ELSE ctx \o pending
  /\ pending' = <<>>
  /\ firstTurn' = FALSE
  /\ pc' = "request"
  /\ UNCHANGED <<classVars, queueVars, hasMore, skipPoll, batch, histVars, callVars>>

\* One pass of the inner loop up to the provider request: turn_start and the
\* injection of pendingMessages.
StartTurn ==
  /\ pc = "inner" /\ out = <<>>
  /\ hasMore \/ pending # <<>>
  /\ out' = (IF firstTurn THEN <<>> ELSE <<Event("turn_start")>>) \o Announce(pending)
  /\ ctx' = ctx \o pending
  /\ pending' = <<>>
  /\ firstTurn' = FALSE
  /\ pc' = "request"
  /\ UNCHANGED <<classVars, queueVars, hasMore, skipPoll, batch, histVars, callVars>>

\* The agent would stop: getFollowUpMessages decides.
PollFollowUps ==
  /\ pc = "inner" /\ out = <<>>
  /\ ~hasMore /\ pending = <<>>
  /\ pending' = Drained(followUpMode, followUpQueue)
  /\ followUpQueue' = Remaining(followUpMode, followUpQueue)
  /\ IF followUpQueue # <<>>
     THEN /\ hasMore' = TRUE
          /\ UNCHANGED <<pc, out>>
     ELSE /\ pc' = "end"
          /\ out' = <<Event("agent_end")>>
          /\ UNCHANGED hasMore
  /\ UNCHANGED <<classVars, steeringQueue, steeringMode, followUpMode, ctx, firstTurn,
                 skipPoll, batch, histVars, callVars>>

\* shouldStopAfterTurn returns true: stop without polling any queue.
StopAfterTurn ==
  /\ StopsAfterTurn
  /\ pc = "turnEnd" /\ out = <<>>
  /\ pc' = "end"
  /\ out' = <<Event("agent_end")>>
  /\ UNCHANGED <<classVars, queueVars, ctx, pending, hasMore, firstTurn, skipPoll,
                 batch, histVars, callVars>>

(* streamAssistantResponse *)

\* The provider's "start" event: a partial message joins the context.
StreamStart ==
  /\ pc = "request" /\ out = <<>>
  /\ ctx' = Append(ctx, Partial)
  /\ out' = <<MessageEvent("message_start", Partial)>>
  /\ pc' = "streaming"
  /\ UNCHANGED <<classVars, queueVars, pending, hasMore, firstTurn, skipPoll, batch,
                 histVars, callVars>>

BatchKinds(stop) ==
  IF stop = "length" THEN {"length"}
  ELSE {"sequential"} \union (IF ToolExecution = "parallel" THEN {"parallel"} ELSE {})

\* The final message arrives, with or without a "start" before it, and runLoop
\* goes on to the end of the run, a tool batch, or the end of the turn.
Respond(stop, k) ==
  LET msg  == Assistant(stop, NextCalls(k))
      said == (IF pc = "streaming" THEN <<>> ELSE <<MessageEvent("message_start", msg)>>)
                \o <<MessageEvent("message_end", msg)>>
  IN
  /\ pc \in {"request", "streaming"} /\ out = <<>>
  /\ Issued + k <= MaxCalls
  /\ Request(k, run)
  /\ ctx' = IF pc = "streaming" THEN [ctx EXCEPT ![Len(ctx)] = msg] ELSE Append(ctx, msg)
  /\ IF stop \in Failed
     THEN /\ out' = said \o <<MessageEvent("turn_end", msg), Event("agent_end")>>
          /\ pc' = "end"
          /\ UNCHANGED <<hasMore, batch>>
     ELSE IF k = 0
     THEN /\ out' = said \o <<MessageEvent("turn_end", msg)>>
          /\ pc' = "turnEnd"
          /\ hasMore' = FALSE
          /\ UNCHANGED batch
     ELSE /\ out' = said
          /\ pc' = "batch"
          /\ \E kind \in BatchKinds(stop) :
               batch' = [calls |-> NextCalls(k), kind |-> kind, count |-> 0, cut |-> FALSE]
          /\ UNCHANGED hasMore
  /\ UNCHANGED <<classVars, queueVars, pending, firstTurn, skipPoll, histVars>>

-----------------------------------------------------------------------------
(* Tool batches: failToolCallsFromTruncatedMessage ("length"),             *)
(* executeToolCallsSequential and executeToolCallsParallel.                *)

Current == batch.calls[batch.count]      \* the call the batch loop is at
Begun   == [i \in 1 .. batch.count |-> batch.calls[i]]
BegunSet == {batch.calls[i] : i \in 1 .. batch.count}
Results == [i \in 1 .. batch.count |-> ToolResult(batch.calls[i])]

\* shouldTerminateToolBatch; a truncated message never terminates its batch.
Terminates ==
  /\ batch.kind # "length" /\ batch.count > 0
  /\ \A c \in BegunSet : outcome[c] = "terminate"

batchFrame == <<classVars, queueVars, ctx, pending, hasMore, firstTurn, skipPoll, histVars>>

StartCall ==
  /\ pc = "batch" /\ out = <<>>
  /\ ~batch.cut /\ batch.count < Len(batch.calls)
  /\ batch' = [batch EXCEPT !.count = @ + 1]
  /\ Start(batch.calls[batch.count + 1])
  /\ out' = <<ToolEvent("tool_execution_start", batch.calls[batch.count + 1])>>
  /\ pc' = "prepare"
  /\ UNCHANGED batchFrame

\* prepareToolCall returned an immediate error (unknown tool, bad arguments,
\* blocked, hook threw, aborted), or the message was truncated.
RejectCall ==
  /\ pc = "prepare" /\ out = <<>>
  /\ FailImmediately(Current)
  /\ out' = <<ToolEvent("tool_execution_end", Current)>>
             \o (IF batch.kind = "parallel" THEN <<>> ELSE Announce(<<ToolResult(Current)>>))
  /\ pc' = "next"
  /\ UNCHANGED <<batch, batchFrame>>

\* prepareToolCall returned "prepared", which it never does once aborted.
AdmitCall ==
  /\ pc = "prepare" /\ out = <<>>
  /\ batch.kind # "length"
  /\ ~aborted
  /\ IF batch.kind = "parallel"
     THEN Prepare(Current) /\ pc' = "next"
     ELSE Execute(Current) /\ pc' = "await"
  /\ UNCHANGED <<out, batch, batchFrame>>

\* Sequential: the tool has settled, emit its result message.
AwaitCall ==
  /\ pc = "await"
  /\ stage[Current] = "settled"
  /\ out' = Announce(<<ToolResult(Current)>>)
  /\ pc' = "next"
  /\ UNCHANGED <<batch, batchFrame, callVars>>

\* Mutant: the batch also stops at a call that failed.
NextCallUnlessError ==
  /\ pc = "next" /\ out = <<>>
  /\ batch' = [batch EXCEPT !.cut = (aborted \/ outcome[Current] = "error")
                                      /\ batch.kind # "length"]
  /\ pc' = "batch"
  /\ UNCHANGED <<out, batchFrame, callVars>>

\* "if (signal?.aborted) break" at the end of the loop body.
NextCall ==
  /\ pc = "next" /\ out = <<>>
  /\ batch' = [batch EXCEPT !.cut = aborted /\ batch.kind # "length"]
  /\ pc' = "batch"
  /\ UNCHANGED <<out, batchFrame, callVars>>

AllBegun == batch.cut \/ batch.count = Len(batch.calls)

\* Parallel: the loop is over, Promise.all enters the prepared tools.
RunPrepared ==
  /\ pc = "batch" /\ out = <<>>
  /\ batch.kind = "parallel" /\ AllBegun
  /\ ExecuteAll(BegunSet)
  /\ pc' = "join"
  /\ UNCHANGED <<out, batch, batchFrame>>

\* Mutant: Promise.race instead of Promise.all.
JoinFirstCall ==
  /\ pc = "join"
  /\ \E c \in BegunSet : stage[c] = "settled"
  /\ out' = Announce(Results)
  /\ pc' = "batchEnd"
  /\ UNCHANGED <<batch, batchFrame, callVars>>

\* Promise.all resolves; the result messages follow in source order.
JoinCalls ==
  /\ pc = "join"
  /\ \A c \in BegunSet : stage[c] = "settled"
  /\ out' = Announce(Results)
  /\ pc' = "batchEnd"
  /\ UNCHANGED <<batch, batchFrame, callVars>>

\* Back in runLoop: the results join the context, the turn ends.
EndBatch ==
  /\ out = <<>>
  /\ \/ pc = "batchEnd"
     \/ pc = "batch" /\ batch.kind # "parallel" /\ AllBegun
  /\ ctx' = ctx \o Results
  /\ hasMore' = ~Terminates
  /\ out' = <<Event("turn_end")>>
  /\ pc' = "turnEnd"
  /\ batch' = NoBatch
  /\ UNCHANGED <<classVars, queueVars, pending, firstTurn, skipPoll, histVars, callVars>>

-----------------------------------------------------------------------------
(* The tools themselves: threads of their own, also after their run is over. *)

ToolUpdate(c) ==
  \E fails \in BOOLEAN :
    /\ fails /\ active => faults < MaxFaults
    /\ ~active => fails              \* "Agent listener invoked outside active run"
    /\ Update(c, fails)
    /\ Listen(ToolEvent("tool_execution_update", c), owner[c])
    /\ faults' = IF fails /\ active THEN faults + 1 ELSE faults
    /\ UNCHANGED <<classVars, queueVars, loopVars, accepted, polledAt, lossVars>>

ToolReturn(c) ==
  /\ \E o \in {"ok", "terminate", "error"} : Return(c, o)
  /\ UNCHANGED <<classVars, queueVars, loopVars, histVars>>

ToolEnd(c) ==
  /\ EmitEnd(c, active)
  /\ Reduce(ToolEvent("tool_execution_end", c))
  /\ Listen(ToolEvent("tool_execution_end", c), owner[c])
  /\ UNCHANGED <<active, run, aborted, isStreaming, queueVars, loopVars, accepted,
                 polledAt, lossVars, faults>>

ToolSettle(c) ==
  /\ EndListeners(c, FALSE)
  /\ UNCHANGED <<classVars, queueVars, loopVars, histVars>>

ToolFault(c) ==
  /\ faults < MaxFaults
  /\ faults' = faults + 1
  /\ EndListeners(c, TRUE)
  /\ UNCHANGED <<classVars, queueVars, loopVars, accepted, polledAt, lossVars, eventVars>>

-----------------------------------------------------------------------------
(* handleRunFailure: whatever the loop awaited rejected.                   *)

Fail ==
  LET m == Assistant(IF aborted THEN "aborted" ELSE "error", <<>>)
  IN  /\ out' = <<MessageEvent("message_start", m), MessageEvent("message_end", m),
                  MessageEvent("turn_end", m), Event("agent_end")>>
      /\ pc' = "failing"
      /\ pending' = <<>>
      /\ gone' = gone \union UserIds(InHand)
      /\ UNCHANGED <<classVars, queueVars, ctx, hasMore, firstTurn, skipPoll, batch,
                     accepted, polledAt, torn, resets, eventVars, callVars>>

\* A listener, a hook or the provider throws while the loop awaits it.
LoopFault ==
  /\ pc \notin {"idle", "failing", "await", "join"}
  /\ out # <<>> => Head(out).type # "agent_start"
  /\ faults < MaxFaults
  /\ faults' = faults + 1
  /\ Fail

\* Mutant: a rejected call of a parallel batch goes unnoticed.
SequentialFault ==
  /\ pc = "await"
  /\ \E c \in BegunSet : stage[c] = "rejected"
  /\ UNCHANGED faults
  /\ Fail

\* A tool call the loop awaits is rejected; the others run on.
BatchFault ==
  /\ pc \in {"await", "join"}
  /\ \E c \in BegunSet : stage[c] = "rejected"
  /\ UNCHANGED faults
  /\ Fail

\* A listener throws while handleRunFailure reports the failure.
ReportFault ==
  /\ pc = "failing" /\ Len(out) < 4
  /\ out # <<>>
  /\ faults < MaxFaults
  /\ faults' = faults + 1
  /\ out' = <<>>
  /\ UNCHANGED <<classVars, queueVars, pc, ctx, pending, hasMore, firstTurn, skipPoll,
                 batch, accepted, polledAt, lossVars, eventVars, callVars>>

-----------------------------------------------------------------------------
Init ==
  /\ active = FALSE /\ run = 0 /\ aborted = FALSE
  /\ messages = <<>> /\ streamingMessage = FALSE /\ isStreaming = FALSE
  /\ pendingToolCalls = {} /\ errorMessage = FALSE
  /\ steeringQueue = <<>> /\ followUpQueue = <<>>
  /\ steeringMode \in QueueModes /\ followUpMode \in QueueModes
  /\ pc = "idle" /\ out = <<>> /\ ctx = <<>> /\ pending = <<>>
  /\ hasMore = FALSE /\ firstTurn = FALSE /\ skipPoll = FALSE /\ batch = NoBatch
  /\ accepted = 0 /\ polledAt = 0 /\ gone = {} /\ torn = FALSE /\ resets = 0 /\ faults = 0
  /\ ended = {} /\ last = [type |-> "none", run |-> 0]
  /\ CallsInit

Response == \E stop \in Stops, k \in 0 .. MaxCallsPerTurn : Respond(stop, k)

LoopStep ==
  \/ Emit \/ PollSteering \/ StartTurn \/ PollFollowUps \/ StopAfterTurn
  \/ StreamStart \/ Response
  \/ StartCall \/ RejectCall \/ AdmitCall \/ AwaitCall \/ NextCall
  \/ RunPrepared \/ JoinCalls \/ EndBatch \/ BatchFault \/ FinishRun

ToolStep(c) == ToolReturn(c) \/ ToolEnd(c) \/ ToolSettle(c)

Application ==
  \/ Prompt \/ Continue \/ Steer \/ FollowUp
  \/ ClearSteeringQueue \/ ClearFollowUpQueue \/ SetMode \/ Abort \/ Reset

Fault == LoopFault \/ ReportFault \/ \E c \in Calls : ToolFault(c)

Next ==
  \/ LoopStep \/ Application \/ Fault
  \/ \E c \in Calls : ToolStep(c) \/ ToolUpdate(c)

Spec == Init /\ [][Next]_vars

\* The event loop always runs what is ready, a provider always answers and a
\* tool always returns; the application and the faults owe nothing.
Fairness == WF_vars(LoopStep) /\ \A c \in Calls : WF_vars(ToolStep(c))

FairSpec == Spec /\ Fairness

-----------------------------------------------------------------------------
(* Properties.                                                             *)

PCs == {"idle", "poll", "inner", "request", "streaming", "batch", "prepare", "await",
        "next", "join", "batchEnd", "turnEnd", "end", "failing"}

BatchSet == [calls : Seq(Calls), kind : {"none", "length", "sequential", "parallel"},
             count : Nat, cut : BOOLEAN]

\* Every variable of the loop and of class Agent has a value of its type.
TypeOK ==
  /\ active \in BOOLEAN /\ run \in Nat /\ aborted \in BOOLEAN
  /\ messages \in Seq(MessageSet)
  /\ streamingMessage \in BOOLEAN /\ isStreaming \in BOOLEAN
  /\ pendingToolCalls \subseteq Nat /\ errorMessage \in BOOLEAN
  /\ steeringQueue \in Seq(UserSet) /\ followUpQueue \in Seq(UserSet)
  /\ steeringMode \in QueueModes /\ followUpMode \in QueueModes
  /\ pc \in PCs /\ out \in Seq(EventSet)
  /\ ctx \in Seq(MessageSet) /\ pending \in Seq(UserSet)
  /\ hasMore \in BOOLEAN /\ firstTurn \in BOOLEAN /\ skipPoll \in BOOLEAN
  /\ batch \in BatchSet
  /\ accepted \in Nat /\ polledAt \in Nat /\ gone \subseteq Nat /\ torn \in BOOLEAN
  /\ resets \in Nat /\ faults \in Nat
  /\ ended \subseteq Nat /\ last \in [type : EventTypes, run : Nat]
  /\ CallsTypeOK

\* Between runs nothing of the last run is left in the public state: not
\* streaming, no partial message, no pending tool call - although the tools
\* of a failed parallel batch may still be running and ending.
IdleIsClean ==
  ~active => /\ ~isStreaming /\ ~streamingMessage
             /\ pendingToolCalls = {}
             /\ pc = "idle" /\ out = <<>>

\* The set of pending calls the UI shows follows the tools: no call of an
\* earlier run, none that has reported its end, every one that is being
\* executed, and nothing when the next request goes out.
PendingCallsAreOpen ==
  active /\ ~torn =>
    /\ \A c \in pendingToolCalls : owner[c] = run /\ stage[c] # "ending"
    /\ \A c \in Calls : owner[c] = run /\ stage[c] \in {"prepared", "executing", "returned"}
                         => c \in pendingToolCalls
    /\ pc = "request" => pendingToolCalls = {}

\* The loop's own copy of the conversation and the agent's transcript agree
\* whenever a provider is asked: what the model sees is what is recorded.
ContextIsTranscript ==
  pc = "request" /\ out = <<>> /\ ~torn => ctx = messages

\* A provider is never asked with a call of this run unanswered, unless the
\* run was aborted (the batch loop then breaks): results are in the
\* transcript, each once, in the order the assistant asked for them.
AnswersFollow(i) ==
  LET k == Len(messages[i].calls)
  IN  /\ i + k <= Len(messages)
      /\ \A j \in 1 .. k : messages[i + j] = ToolResult(messages[i].calls[j])
EveryCallAnswered ==
  pc = "request" /\ out = <<>> /\ ~torn /\ ~aborted =>
    \A i \in 1 .. Len(messages) :
      /\ messages[i].role = "assistant"
      /\ messages[i].kind \notin Failed
      /\ \A j \in 1 .. Len(messages[i].calls) : owner[messages[i].calls[j]] = run
      => AnswersFollow(i)

\* A tool call of a message the token limit cut off is never executed.
TruncatedNeverExecuted ==
  \A i \in 1 .. Len(messages) :
    messages[i].kind = "length" =>
      \A j \in 1 .. Len(messages[i].calls) : messages[i].calls[j] \notin executed

\* A turn of a healthy run joins all its tools: none still runs, or has yet to
\* report, when the turn ends, the next request goes out or the run is over.
NoToolOutlivesItsTurn ==
  faults = 0 /\ pc \in {"idle", "poll", "inner", "request", "streaming", "turnEnd", "end"} =>
    \A c \in Calls : stage[c] \in {"unused", "requested", "settled"}

\* A turn is over with its tools, and what they said is in the transcript.
TurnsAreWhole == EveryCallAnswered /\ NoToolOutlivesItsTurn

\* A follow-up never cuts in: what precedes it in the transcript is where the
\* agent would have stopped - an assistant message, the results of a batch
\* that terminated, or another follow-up.
FollowUpOnlyWhenStopping ==
  \A i \in 2 .. Len(messages) :
    messages[i].kind = "followUp" =>
      \/ messages[i - 1].role = "assistant"
      \/ messages[i - 1].kind = "followUp"
      \/ /\ messages[i - 1].role = "toolResult"
         /\ outcome[messages[i - 1].id] = "terminate"

\* README.md: agent_end is the final event of its run.
AgentEndIsFinal == last.run \in ended => last.type = "agent_end"

\* In a run nothing throws in, agent_end is final.
HealthyAgentEndIsFinal == faults = 0 => AgentEndIsFinal

\* A run that stops of its own accord leaves nothing in the queues but what
\* was queued after its last look at them, however many messages were queued
\* and whichever queue they are in.
NobodyLeftBehind ==
  /\ pc = "end" /\ Len(out) <= 1 /\ ~StopsAfterTurn
  /\ messages # <<>> /\ messages[Len(messages)].kind \notin Failed
  => \A n \in UserIds(steeringQueue \o followUpQueue) : n > polledAt

\* The ways of the messages: none is left behind, no follow-up cuts in, and
\* what the model is shown is what is recorded.
MessagesInPlace ==
  /\ NobodyLeftBehind
  /\ FollowUpOnlyWhenStopping
  /\ ContextIsTranscript

\* Every run settles: prompt() and waitForIdle() resolve.
RunSettles == active ~> ~active
=============================================================================
