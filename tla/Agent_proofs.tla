---------------------------- MODULE Agent_proofs ----------------------------
(***************************************************************************)
(* What TLAPS proves about Agent.tla and AgentMailbox.tla, for any number  *)
(* of tool calls, runs, messages, resets and faults, and for both          *)
(* execution modes.                                                        *)
(***************************************************************************)
EXTENDS AgentMailbox, SequenceTheorems, FiniteSetTheorems, WellFoundedInduction,
        NaturalsInduction, TLAPS

-----------------------------------------------------------------------------
(* What an idle agent shows.                                               *)

\* The program counter knows that a run is active: only StartRun leaves
\* "idle", only FinishRun returns to it.
LEMMA ActiveUnlessIdle ==
  ASSUME IdleIsClean, pc # "idle" \/ out # <<>>
  PROVE  active
  BY DEF IdleIsClean

\* The steps of the loop, from the first poll to the last turn.
LEMMA LoopKeepsIdleClean ==
  ASSUME IdleIsClean, LoopStep
  PROVE  IdleIsClean'
  <1>1. CASE Emit
    BY <1>1, ActiveUnlessIdle DEF Emit, IdleIsClean
  <1>2. CASE PollSteering \/ StartTurn \/ PollFollowUps \/ StopAfterTurn
    BY <1>2, ActiveUnlessIdle
    DEF PollSteering, StartTurn, PollFollowUps, StopAfterTurn, IdleIsClean, classVars
  <1>3. CASE StreamStart
    BY <1>3, ActiveUnlessIdle DEF StreamStart, IdleIsClean, classVars
  <1>4. ASSUME NEW stop \in Stops, NEW k \in 0 .. MaxCallsPerTurn, Respond(stop, k)
        PROVE  IdleIsClean'
    <2>1. pc \in {"request", "streaming"} /\ UNCHANGED classVars
      BY <1>4 DEF Respond
    <2> QED
      BY <2>1, ActiveUnlessIdle DEF IdleIsClean, classVars
  <1>5. CASE StartCall \/ RejectCall \/ AdmitCall \/ AwaitCall \/ NextCall \/ RunPrepared
             \/ JoinCalls \/ EndBatch
    <2>1. pc # "idle" /\ UNCHANGED classVars
      BY <1>5 DEF StartCall, RejectCall, AdmitCall, AwaitCall, NextCall, RunPrepared,
                  JoinCalls, EndBatch, batchFrame
    <2> QED
      BY <2>1, ActiveUnlessIdle DEF IdleIsClean, classVars
  <1>6. CASE BatchFault
    BY <1>6, ActiveUnlessIdle DEF BatchFault, Fail, IdleIsClean, classVars
  <1>7. CASE FinishRun
    BY <1>7 DEF FinishRun, IdleIsClean
  <1> QED
    BY <1>1, <1>2, <1>3, <1>4, <1>5, <1>6, <1>7 DEF LoopStep, Response

\* The calls of the application, at any moment of a run or between runs.
LEMMA ApplicationKeepsIdleClean ==
  ASSUME IdleIsClean, Application
  PROVE  IdleIsClean'
  <1>1. ASSUME NEW msgs, NEW skip, StartRun(msgs, skip)
        PROVE  IdleIsClean'
    BY <1>1 DEF StartRun, IdleIsClean
  <1>2. CASE Prompt \/ Continue
    BY <1>1, <1>2 DEF Prompt, Continue
  <1>3. CASE Steer \/ FollowUp \/ ClearSteeringQueue \/ ClearFollowUpQueue \/ SetMode
    BY <1>3 DEF Steer, FollowUp, ClearSteeringQueue, ClearFollowUpQueue, SetMode,
                IdleIsClean, classVars, loopVars
  <1>4. CASE Abort \/ Reset
    BY <1>4 DEF Abort, Reset, IdleIsClean, loopVars
  <1> QED
    BY <1>2, <1>3, <1>4 DEF Application

\* The tools, which may run on after the run that started them is over: the
\* end of such a straggler is still reduced, and takes a pending call away.
LEMMA ToolsKeepIdleClean ==
  ASSUME IdleIsClean, NEW c \in Calls, ToolStep(c) \/ ToolUpdate(c) \/ ToolFault(c)
  PROVE  IdleIsClean'
  <1>1. CASE ToolReturn(c) \/ ToolSettle(c) \/ ToolFault(c) \/ ToolUpdate(c)
    BY <1>1 DEF ToolReturn, ToolSettle, ToolFault, ToolUpdate, IdleIsClean, classVars,
                loopVars
  <1>2. CASE ToolEnd(c)
    BY <1>2 DEF ToolEnd, Reduce, ToolEvent, IdleIsClean, loopVars
  <1> QED
    BY <1>1, <1>2 DEF ToolStep

\* Whatever throws, wherever the loop awaits it.
LEMMA FaultsKeepIdleClean ==
  ASSUME IdleIsClean, LoopFault \/ ReportFault
  PROVE  IdleIsClean'
  <1>1. CASE LoopFault
    BY <1>1, ActiveUnlessIdle DEF LoopFault, Fail, IdleIsClean, classVars
  <1>2. CASE ReportFault
    BY <1>2, ActiveUnlessIdle DEF ReportFault, IdleIsClean, classVars
  <1> QED
    BY <1>1, <1>2

\* Between two runs nothing of the last one is left in the public state of the
\* agent, although the tools of a failed parallel batch may still run and end.
THEOREM IdleAgentIsClean == Spec => []IdleIsClean
  <1>1. Init => IdleIsClean
    BY DEF Init, IdleIsClean
  <1>2. IdleIsClean /\ [Next]_vars => IdleIsClean'
    <2>1. CASE UNCHANGED vars
      BY <2>1 DEF vars, classVars, loopVars, IdleIsClean
    <2> QED
      BY <2>1, LoopKeepsIdleClean, ApplicationKeepsIdleClean, ToolsKeepIdleClean,
         FaultsKeepIdleClean DEF Next, Fault
  <1> QED
    BY <1>1, <1>2, PTL DEF Spec

-----------------------------------------------------------------------------
(* Types, and the bounds of the batch loop.                                *)

ClassTypes ==
  /\ active \in BOOLEAN /\ run \in Nat /\ aborted \in BOOLEAN
  /\ messages \in Seq(MessageSet)
  /\ streamingMessage \in BOOLEAN /\ isStreaming \in BOOLEAN
  /\ pendingToolCalls \subseteq Nat /\ errorMessage \in BOOLEAN

QueueTypes ==
  /\ steeringQueue \in Seq(UserSet) /\ followUpQueue \in Seq(UserSet)
  /\ steeringMode \in QueueModes /\ followUpMode \in QueueModes

LoopTypes ==
  /\ pc \in PCs /\ out \in Seq(EventSet)
  /\ ctx \in Seq(MessageSet) /\ pending \in Seq(UserSet)
  /\ hasMore \in BOOLEAN /\ firstTurn \in BOOLEAN /\ skipPoll \in BOOLEAN
  /\ batch \in BatchSet

HistTypes ==
  /\ accepted \in Nat /\ polledAt \in Nat /\ gone \subseteq Nat /\ torn \in BOOLEAN
  /\ resets \in Nat /\ faults \in Nat
  /\ ended \subseteq Nat /\ last \in [type : EventTypes, run : Nat]

\* The batch loop is at one of its calls, or before the first; while a message
\* streams the context ends with its partial.
BatchInBounds ==
  /\ batch.count <= Len(batch.calls)
  /\ pc \in {"prepare", "await", "next"} => batch.count > 0
  /\ pc = "streaming" => ctx # <<>>

Sound == ClassTypes /\ QueueTypes /\ LoopTypes /\ HistTypes /\ CallsTypeOK /\ BatchInBounds

LEMMA SoundIsTyped == Sound => TypeOK
  BY DEF Sound, ClassTypes, QueueTypes, LoopTypes, HistTypes, TypeOK

-----------------------------------------------------------------------------
(* Facts about the data.                                                   *)

LEMMA MessageTypes ==
  /\ NoMessage \in MessageSet /\ Partial \in MessageSet
  /\ UserSet \subseteq MessageSet
  /\ \A n \in Nat, lane \in Lanes : User(n, lane) \in UserSet
  /\ \A stop \in Stops, calls \in Seq(Calls) : Assistant(stop, calls) \in MessageSet
  /\ \A n \in Nat : ToolResult(n) \in MessageSet
  BY EmptySeq DEF NoMessage, Partial, User, Assistant, ToolResult, Message, MessageSet, UserSet

LEMMA EventTypesOf ==
  /\ \A type \in EventTypes : Event(type) \in EventSet
  /\ \A type \in EventTypes, m \in MessageSet : MessageEvent(type, m) \in EventSet
  /\ \A type \in EventTypes, n \in Nat : ToolEvent(type, n) \in EventSet
  BY MessageTypes DEF Event, MessageEvent, ToolEvent, EventSet

LEMMA HalfOf ==
  ASSUME NEW n \in Nat, NEW i \in 1 .. 2 * n
  PROVE  (i + 1) \div 2 \in 1 .. n
  OBVIOUS

LEMMA AnnounceType ==
  ASSUME NEW s \in Seq(MessageSet)
  PROVE  Announce(s) \in Seq(EventSet)
  <1> DEFINE e(i) == MessageEvent(IF i % 2 = 1 THEN "message_start" ELSE "message_end",
                                  s[(i + 1) \div 2])
             n == 2 * Len(s)
  <1>1. Len(s) \in Nat /\ n \in Nat
    BY LenProperties
  <1>2. ASSUME NEW i \in 1 .. n
        PROVE  e(i) \in EventSet
    <2>1. (i + 1) \div 2 \in 1 .. Len(s)
      BY <1>1, HalfOf
    <2> QED
      BY <2>1, ElementOfSeq, EventTypesOf DEF EventTypes
  <1>3. Announce(s) = [i \in 1 .. n |-> e(i)]
    BY DEF Announce
  <1> HIDE DEF e, n
  <1> QED
    BY <1>1, <1>2, <1>3

LEMMA UsersAreMessages == \A s \in Seq(UserSet) : s \in Seq(MessageSet)
  BY SeqMonotonic, MessageTypes

LEMMA DrainTypes ==
  ASSUME NEW S, NEW mode, NEW q \in Seq(S)
  PROVE  Drained(mode, q) \in Seq(S) /\ Remaining(mode, q) \in Seq(S)
  BY HeadTailProperties, EmptySeq DEF Drained, Remaining

LEMMA IdType ==
  /\ \A m \in MessageSet : m.id \in Nat
  /\ \A e \in EventSet : e.msg \in MessageSet /\ e.call \in Nat /\ e.type \in EventTypes
  BY DEF MessageSet, EventSet

LEMMA UserIdsType ==
  ASSUME NEW s \in Seq(MessageSet)
  PROVE  UserIds(s) \subseteq Nat
  <1>1. ASSUME NEW i \in 1 .. Len(s) PROVE s[i].id \in Nat
    BY ElementOfSeq, IdType
  <1> QED
    BY <1>1 DEF UserIds

\* What each event puts in the transcript.
LEMMA PutsFacts ==
  ASSUME NEW o \in Seq(EventSet)
  PROVE  /\ Puts(o) \in Seq(MessageSet) /\ Len(Puts(o)) = Len(o)
         /\ \A i \in 1 .. Len(o) : Puts(o)[i] = IF o[i].type = "message_end" THEN o[i].msg ELSE NoMessage
  <1>1. Len(o) \in Nat /\ \A i \in 1 .. Len(o) : o[i].msg \in MessageSet
    BY ElementOfSeq, IdType
  <1> QED
    BY <1>1, MessageTypes DEF Puts

LEMMA InHandType ==
  ASSUME LoopTypes
  PROVE  InHand \in Seq(MessageSet)
  <1>1. Puts(out) \in Seq(MessageSet) /\ pending \in Seq(MessageSet)
    BY PutsFacts, UsersAreMessages DEF LoopTypes
  <1> QED
    BY <1>1, ConcatProperties DEF InHand

LEMMA SingleSeq == \A S : \A x \in S : <<x>> \in Seq(S)
  OBVIOUS

LEMMA Frames ==
  /\ ClassTypes /\ UNCHANGED classVars => ClassTypes'
  /\ QueueTypes /\ UNCHANGED queueVars => QueueTypes'
  /\ LoopTypes /\ UNCHANGED loopVars => LoopTypes'
  /\ HistTypes /\ UNCHANGED histVars => HistTypes'
  /\ CallsTypeOK /\ UNCHANGED callVars => CallsTypeOK'
  BY DEF ClassTypes, classVars, QueueTypes, queueVars, LoopTypes, loopVars, HistTypes,
         histVars, lossVars, eventVars, CallsTypeOK, callVars

LEMMA ReduceTypes ==
  ASSUME ClassTypes, NEW e \in EventSet, Reduce(e)
  PROVE  /\ messages' \in Seq(MessageSet) /\ streamingMessage' \in BOOLEAN
         /\ pendingToolCalls' \subseteq Nat /\ errorMessage' \in BOOLEAN
  <1>1. e.msg \in MessageSet /\ e.call \in Nat
    BY IdType
  <1>2. messages' \in Seq(MessageSet)
    BY <1>1, AppendProperties DEF Reduce, ClassTypes
  <1>3. pendingToolCalls' \subseteq Nat
    BY <1>1 DEF Reduce, ClassTypes
  <1>4. streamingMessage' \in BOOLEAN
    BY DEF Reduce, ClassTypes
  <1>5. errorMessage' \in BOOLEAN
    BY DEF Reduce, ClassTypes
  <1> QED
    BY <1>2, <1>3, <1>4, <1>5

LEMMA ListenTypes ==
  ASSUME HistTypes, NEW e \in EventSet, NEW r \in Nat, Listen(e, r)
  PROVE  ended' \subseteq Nat /\ last' \in [type : EventTypes, run : Nat]
  BY IdType DEF HistTypes, Listen

-----------------------------------------------------------------------------
(* Every step keeps the types, and stays within the batch.                 *)

LEMMA NoBatchType ==
  NoBatch \in BatchSet /\ NoBatch.count <= Len(NoBatch.calls) /\ NoBatch.calls = <<>>
  BY EmptySeq DEF NoBatch, BatchSet

LEMMA SoundInit == Init => Sound
  <1> SUFFICES ASSUME Init PROVE Sound
    OBVIOUS
  <1>1. ClassTypes /\ QueueTypes /\ HistTypes
    BY EmptySeq DEF Init, ClassTypes, QueueTypes, HistTypes, EventTypes
  <1>2. LoopTypes /\ BatchInBounds
    BY NoBatchType, EmptySeq DEF Init, LoopTypes, BatchInBounds, PCs
  <1>3. CallsTypeOK
    BY DEF Init, CallsInit, CallsTypeOK, Stages, Outcomes
  <1> QED
    BY <1>1, <1>2, <1>3 DEF Sound

LEMMA EmitSound ==
  ASSUME Sound, Emit
  PROVE  Sound'
  <1>1. Head(out) \in EventSet /\ Tail(out) \in Seq(EventSet)
    BY HeadTailProperties DEF Emit, Sound, LoopTypes
  <1>2. ClassTypes'
    BY <1>1, ReduceTypes DEF Emit, Sound, ClassTypes
  <1>3. HistTypes'
    BY <1>1, ListenTypes DEF Emit, Sound, ClassTypes, HistTypes, lossVars
  <1>4. LoopTypes' /\ BatchInBounds'
    BY <1>1 DEF Emit, Sound, LoopTypes, BatchInBounds
  <1> QED
    BY <1>2, <1>3, <1>4, Frames DEF Emit, Sound

LEMMA StartRunSound ==
  ASSUME Sound, NEW msgs \in Seq(UserSet), NEW skip \in BOOLEAN, StartRun(msgs, skip),
         steeringQueue' \in Seq(UserSet), followUpQueue' \in Seq(UserSet),
         accepted' \in Nat
  PROVE  Sound'
  <1>1. messages \o msgs \in Seq(MessageSet)
    BY ConcatProperties, UsersAreMessages DEF Sound, ClassTypes
  <1>2. <<Event("agent_start"), Event("turn_start")>> \o Announce(msgs) \in Seq(EventSet)
    <2>1. Announce(msgs) \in Seq(EventSet)
      BY AnnounceType, UsersAreMessages
    <2>2. Event("agent_start") \in EventSet /\ Event("turn_start") \in EventSet
      BY EventTypesOf DEF EventTypes
    <2>3. <<Event("agent_start"), Event("turn_start")>> \in Seq(EventSet)
      BY <2>2
    <2> QED
      BY <2>1, <2>3, ConcatProperties
  <1>3. ClassTypes'
    <2>1. /\ active' \in BOOLEAN /\ aborted' \in BOOLEAN /\ streamingMessage' \in BOOLEAN
          /\ isStreaming' \in BOOLEAN /\ errorMessage' \in BOOLEAN
      BY DEF StartRun
    <2>2. run' \in Nat /\ messages' \in Seq(MessageSet) /\ pendingToolCalls' \subseteq Nat
      BY DEF StartRun, Sound, ClassTypes
    <2> QED
      BY <2>1, <2>2 DEF ClassTypes
  <1>4. LoopTypes' /\ BatchInBounds'
    BY <1>1, <1>2, NoBatchType, EmptySeq DEF StartRun, LoopTypes, BatchInBounds, PCs
  <1>5. HistTypes' /\ QueueTypes'
    BY DEF StartRun, Sound, HistTypes, QueueTypes, lossVars, eventVars
  <1> QED
    BY <1>3, <1>4, <1>5, Frames DEF StartRun, Sound

LEMMA ApplicationSound ==
  ASSUME Sound, Application
  PROVE  Sound'
  <1>0. accepted + 1 \in Nat /\ \A lane \in Lanes : User(accepted + 1, lane) \in UserSet
    BY MessageTypes DEF Sound, HistTypes
  <1>1. CASE Prompt
    <2>1. <<User(accepted + 1, "prompt")>> \in Seq(UserSet)
      BY <1>0, SingleSeq DEF Lanes
    <2> QED
      BY <1>0, <1>1, <2>1, StartRunSound DEF Prompt, Sound, QueueTypes
  <1>2. CASE Continue
    <2>0. /\ steeringQueue \in Seq(UserSet) /\ followUpQueue \in Seq(UserSet)
          /\ accepted' \in Nat /\ <<>> \in Seq(UserSet)
      BY <1>2, EmptySeq DEF Continue, Sound, QueueTypes, HistTypes
    <2>1. CASE StartRun(<<>>, FALSE) /\ UNCHANGED <<steeringQueue, followUpQueue>>
      BY <2>0, <2>1, StartRunSound
    <2>2. CASE /\ StartRun(Drained(steeringMode, steeringQueue), TRUE)
               /\ steeringQueue' = Remaining(steeringMode, steeringQueue)
               /\ UNCHANGED followUpQueue
      BY <2>0, <2>2, StartRunSound, DrainTypes
    <2>3. CASE /\ StartRun(Drained(followUpMode, followUpQueue), FALSE)
               /\ followUpQueue' = Remaining(followUpMode, followUpQueue)
               /\ UNCHANGED steeringQueue
      BY <2>0, <2>3, StartRunSound, DrainTypes
    <2> QED
      BY <1>2, <2>1, <2>2, <2>3 DEF Continue
  <1>3. CASE Steer \/ FollowUp
    <2>1. HistTypes'
      BY <1>0, <1>3 DEF Steer, FollowUp, Sound, HistTypes, lossVars, eventVars
    <2>2. QueueTypes'
      <3>1. /\ Append(steeringQueue, User(accepted + 1, "steer")) \in Seq(UserSet)
            /\ Append(followUpQueue, User(accepted + 1, "followUp")) \in Seq(UserSet)
        BY <1>0, AppendProperties DEF Sound, QueueTypes, Lanes
      <3> QED
        BY <3>1, <1>3 DEF Steer, FollowUp, Sound, QueueTypes
    <2> QED
      BY <2>1, <2>2, <1>3, Frames
      DEF Steer, FollowUp, Sound, BatchInBounds, loopVars
  <1>4. CASE ClearSteeringQueue \/ ClearFollowUpQueue
    <2>1. UserIds(steeringQueue) \subseteq Nat /\ UserIds(followUpQueue) \subseteq Nat
      BY UserIdsType, UsersAreMessages DEF Sound, QueueTypes
    <2>2. HistTypes'
      BY <2>1, <1>4
      DEF ClearSteeringQueue, ClearFollowUpQueue, Sound, HistTypes, lossVars, eventVars
    <2>3. QueueTypes'
      BY <1>4, EmptySeq DEF ClearSteeringQueue, ClearFollowUpQueue, Sound, QueueTypes
    <2> QED
      BY <2>2, <2>3, <1>4, Frames
      DEF ClearSteeringQueue, ClearFollowUpQueue, Sound, BatchInBounds, loopVars
  <1>5. CASE SetMode
    <2>1. QueueTypes'
      BY <1>5 DEF SetMode, Sound, QueueTypes
    <2> QED
      BY <2>1, <1>5, Frames DEF SetMode, Sound, BatchInBounds, loopVars
  <1>6. CASE Abort
    <2>1. ClassTypes'
      BY <1>6 DEF Abort, Sound, ClassTypes
    <2> QED
      BY <2>1, <1>6, Frames DEF Abort, Sound, BatchInBounds, loopVars
  <1>7. CASE Reset
    <2>1. UserIds(steeringQueue) \subseteq Nat /\ UserIds(followUpQueue) \subseteq Nat
      BY UserIdsType, UsersAreMessages DEF Sound, QueueTypes
    <2>2. ClassTypes' /\ QueueTypes'
      BY <1>7, EmptySeq DEF Reset, Sound, ClassTypes, QueueTypes
    <2>3. HistTypes'
      <3>1. torn' \in BOOLEAN
        BY <1>7 DEF Reset, Sound, ClassTypes
      <3>2. accepted' \in Nat /\ polledAt' \in Nat /\ resets' \in Nat /\ faults' \in Nat
        BY <1>7 DEF Reset, Sound, HistTypes
      <3>3. /\ gone' \subseteq Nat /\ ended' \subseteq Nat
            /\ last' \in [type : EventTypes, run : Nat]
        BY <2>1, <1>7 DEF Reset, Sound, HistTypes, eventVars
      <3> QED
        BY <3>1, <3>2, <3>3 DEF HistTypes
    <2> QED
      BY <2>2, <2>3, <1>7, Frames DEF Reset, Sound, BatchInBounds, loopVars
  <1> QED
    BY <1>1, <1>2, <1>3, <1>4, <1>5, <1>6, <1>7 DEF Application

LEMMA FailSound ==
  ASSUME Sound, Fail, faults' \in Nat
  PROVE  Sound'
  <1> DEFINE m == Assistant(IF aborted THEN "aborted" ELSE "error", <<>>)
  <1>1. m \in MessageSet
    BY MessageTypes, EmptySeq DEF Stops
  <1>2. /\ MessageEvent("message_start", m) \in EventSet
        /\ MessageEvent("message_end", m) \in EventSet
        /\ MessageEvent("turn_end", m) \in EventSet /\ Event("agent_end") \in EventSet
    BY <1>1, EventTypesOf DEF EventTypes
  <1>3. out' \in Seq(EventSet)
    <2> HIDE DEF m
    <2>1. out' = <<MessageEvent("message_start", m), MessageEvent("message_end", m),
                   MessageEvent("turn_end", m), Event("agent_end")>>
      BY DEF Fail, m
    <2> QED
      BY <1>2, <2>1
  <1>4. LoopTypes' /\ BatchInBounds'
    BY <1>3, EmptySeq DEF Fail, Sound, LoopTypes, BatchInBounds, PCs
  <1>5. HistTypes'
    <2>1. UserIds(InHand) \subseteq Nat
      BY UserIdsType, InHandType DEF Sound
    <2> QED
      BY <2>1 DEF Fail, Sound, HistTypes, eventVars
  <1> QED
    BY <1>4, <1>5, Frames DEF Fail, Sound

LEMMA FaultSound ==
  ASSUME Sound, LoopFault \/ BatchFault \/ ReportFault
  PROVE  Sound'
  <1>1. CASE LoopFault
    BY <1>1, FailSound DEF LoopFault, Sound, HistTypes
  <1>2. CASE BatchFault
    BY <1>2, FailSound DEF BatchFault, Sound, HistTypes
  <1>3. CASE ReportFault
    <2>1. LoopTypes' /\ BatchInBounds' /\ HistTypes'
      BY <1>3, EmptySeq
      DEF ReportFault, Sound, LoopTypes, BatchInBounds, HistTypes, lossVars, eventVars
    <2> QED
      BY <1>3, <2>1, Frames DEF ReportFault, Sound
  <1> QED
    BY <1>1, <1>2, <1>3

LEMMA ToolSound ==
  ASSUME Sound, NEW c \in Calls, ToolStep(c) \/ ToolUpdate(c) \/ ToolFault(c)
  PROVE  Sound'
  <1>0. c \in Nat /\ owner[c] \in Nat
    BY DEF Calls, Sound, CallsTypeOK
  <1>1. CASE ToolReturn(c)
    <2>1. CallsTypeOK'
      BY <1>1 DEF ToolReturn, Return, Sound, CallsTypeOK, Stages, Outcomes
    <2> QED
      BY <1>1, <2>1, Frames DEF ToolReturn, Sound, BatchInBounds, loopVars
  <1>2. CASE ToolSettle(c) \/ ToolFault(c)
    <2>1. CallsTypeOK'
      BY <1>2 DEF ToolSettle, ToolFault, EndListeners, Sound, CallsTypeOK, Stages
    <2>2. HistTypes'
      <3>1. CASE ToolSettle(c)
        BY <3>1, Frames DEF ToolSettle, Sound
      <3>2. CASE ToolFault(c)
        BY <3>2 DEF ToolFault, Sound, HistTypes, lossVars, eventVars
      <3> QED
        BY <1>2, <3>1, <3>2
    <2> QED
      BY <1>2, <2>1, <2>2, Frames DEF ToolSettle, ToolFault, Sound, BatchInBounds, loopVars
  <1>3. CASE ToolEnd(c)
    <2>0. ToolEvent("tool_execution_end", c) \in EventSet
      BY <1>0, EventTypesOf DEF EventTypes
    <2>1. CallsTypeOK'
      BY <1>3 DEF ToolEnd, EmitEnd, Sound, CallsTypeOK, Stages
    <2>2. ClassTypes'
      BY <1>3, <2>0, ReduceTypes DEF ToolEnd, Sound, ClassTypes
    <2>3. HistTypes'
      BY <1>0, <1>3, <2>0, ListenTypes DEF ToolEnd, Sound, HistTypes, lossVars
    <2> QED
      BY <1>3, <2>1, <2>2, <2>3, Frames DEF ToolEnd, Sound, BatchInBounds, loopVars
  <1>4. CASE ToolUpdate(c)
    <2>0. ToolEvent("tool_execution_update", c) \in EventSet
      BY <1>0, EventTypesOf DEF EventTypes
    <2>1. CallsTypeOK'
      BY <1>4 DEF ToolUpdate, Update, Sound, CallsTypeOK
    <2>3. HistTypes'
      <3>1. ended' \subseteq Nat /\ last' \in [type : EventTypes, run : Nat]
        BY <1>0, <1>4, <2>0, ListenTypes DEF ToolUpdate, Sound
      <3> QED
        BY <1>4, <3>1 DEF ToolUpdate, Sound, HistTypes, lossVars
    <2> QED
      BY <1>4, <2>1, <2>3, Frames DEF ToolUpdate, Sound, BatchInBounds, loopVars
  <1> QED
    BY <1>1, <1>2, <1>3, <1>4 DEF ToolStep

LEMMA TurnSound ==
  ASSUME Sound, PollSteering \/ StartTurn \/ PollFollowUps \/ StopAfterTurn \/ FinishRun
  PROVE  Sound'
  <1>0. /\ steeringQueue \in Seq(UserSet) /\ followUpQueue \in Seq(UserSet)
        /\ pending \in Seq(UserSet) /\ pending \in Seq(MessageSet)
    BY UsersAreMessages DEF Sound, QueueTypes, LoopTypes
  <1>a. <<Event("agent_end")>> \in Seq(EventSet) /\ <<Event("turn_start")>> \in Seq(EventSet)
    BY EventTypesOf, SingleSeq DEF EventTypes
  <1>1. CASE PollSteering
    <2>1. steeringQueue' \in Seq(UserSet) /\ pending' \in Seq(UserSet)
      BY <1>0, <1>1, DrainTypes, EmptySeq DEF PollSteering
    <2>2. QueueTypes' /\ LoopTypes' /\ BatchInBounds'
      BY <1>1, <2>1 DEF PollSteering, Sound, QueueTypes, LoopTypes, BatchInBounds, PCs
    <2>3. HistTypes'
      BY <1>1 DEF PollSteering, Sound, HistTypes, lossVars, eventVars
    <2> QED
      BY <1>1, <2>2, <2>3, Frames DEF PollSteering, Sound
  <1>2. CASE StartTurn
    <2>1. ctx' \in Seq(MessageSet)
      BY <1>0, <1>2, ConcatProperties DEF StartTurn, Sound, LoopTypes
    <2>2. out' \in Seq(EventSet)
      BY <1>0, <1>a, <1>2, AnnounceType, ConcatProperties, EmptySeq DEF StartTurn
    <2>3. LoopTypes' /\ BatchInBounds'
      BY <1>2, <2>1, <2>2, EmptySeq DEF StartTurn, Sound, LoopTypes, BatchInBounds, PCs
    <2> QED
      BY <1>2, <2>3, Frames DEF StartTurn, Sound
  <1>3. CASE PollFollowUps
    <2>1. followUpQueue' \in Seq(UserSet) /\ pending' \in Seq(UserSet)
      BY <1>0, <1>3, DrainTypes DEF PollFollowUps
    <2>2. QueueTypes' /\ LoopTypes' /\ BatchInBounds'
      BY <1>3, <1>a, <2>1
      DEF PollFollowUps, Sound, QueueTypes, LoopTypes, BatchInBounds, PCs
    <2> QED
      BY <1>3, <2>2, Frames DEF PollFollowUps, Sound
  <1>4. CASE StopAfterTurn
    <2>1. LoopTypes' /\ BatchInBounds'
      BY <1>4, <1>a DEF StopAfterTurn, Sound, LoopTypes, BatchInBounds, PCs
    <2> QED
      BY <1>4, <2>1, Frames DEF StopAfterTurn, Sound
  <1>5. CASE FinishRun
    <2>1. LoopTypes' /\ BatchInBounds'
      BY <1>5, NoBatchType, EmptySeq DEF FinishRun, Sound, LoopTypes, BatchInBounds, PCs
    <2>2. ClassTypes'
      BY <1>5 DEF FinishRun, Sound, ClassTypes
    <2> QED
      BY <1>5, <2>1, <2>2, Frames DEF FinishRun, Sound
  <1> QED
    BY <1>1, <1>2, <1>3, <1>4, <1>5

LEMMA IssuedType == Issued \in Nat
  <1>1. IsFiniteSet(Calls)
    BY FS_Interval, MaxCallsAssumption DEF Calls
  <1>2. {c \in Calls : stage[c] # "unused"} \in SUBSET Calls
    OBVIOUS
  <1> QED
    BY <1>1, <1>2, FS_Subset, FS_CardinalityType DEF Issued

LEMMA NextCallsType ==
  ASSUME NEW k \in Nat, Issued + k <= MaxCalls
  PROVE  NextCalls(k) \in Seq(Calls)
  <1>1. \A i \in 1 .. k : Issued + i \in Calls
    BY IssuedType, MaxCallsAssumption DEF Calls
  <1> QED
    BY <1>1 DEF NextCalls

LEMMA StreamSound ==
  ASSUME Sound,
         StreamStart \/ \E stop \in Stops, k \in 0 .. MaxCallsPerTurn : Respond(stop, k)
  PROVE  Sound'
  <1>1. CASE StreamStart
    <2>1. ctx' \in Seq(MessageSet) /\ ctx' # <<>>
      BY <1>1, MessageTypes, AppendProperties DEF StreamStart, Sound, LoopTypes
    <2>2. out' \in Seq(EventSet)
      BY <1>1, MessageTypes, EventTypesOf, SingleSeq DEF StreamStart, EventTypes
    <2>3. LoopTypes' /\ BatchInBounds'
      BY <1>1, <2>1, <2>2 DEF StreamStart, Sound, LoopTypes, BatchInBounds, PCs
    <2> QED
      BY <1>1, <2>3, Frames DEF StreamStart, Sound
  <1>2. ASSUME NEW stop \in Stops, NEW k \in 0 .. MaxCallsPerTurn, Respond(stop, k)
        PROVE  Sound'
    <2> DEFINE msg  == Assistant(stop, NextCalls(k))
               said == (IF pc = "streaming" THEN <<>> ELSE <<MessageEvent("message_start", msg)>>)
                         \o <<MessageEvent("message_end", msg)>>
    <2>0. k \in Nat
      BY AgentAssumption
    <2>1. NextCalls(k) \in Seq(Calls)
      BY <1>2, <2>0, NextCallsType DEF Respond
    <2>2. msg \in MessageSet
      BY <2>1, MessageTypes
    <2>3. /\ MessageEvent("message_start", msg) \in EventSet
          /\ MessageEvent("message_end", msg) \in EventSet
          /\ MessageEvent("turn_end", msg) \in EventSet /\ Event("agent_end") \in EventSet
      BY <2>2, EventTypesOf DEF EventTypes
    <2>4. ctx' \in Seq(MessageSet)
      <3> HIDE DEF msg
      <3>1. ctx' = IF pc = "streaming" THEN [ctx EXCEPT ![Len(ctx)] = msg] ELSE Append(ctx, msg)
        BY <1>2 DEF Respond, msg
      <3>2. CASE pc = "streaming"
        <4>1. Len(ctx) \in 1 .. Len(ctx)
          BY <3>2, EmptySeq, LenProperties DEF Sound, LoopTypes, BatchInBounds
        <4> QED
          BY <2>2, <3>1, <3>2, <4>1, ExceptSeq DEF Sound, LoopTypes
      <3>3. CASE pc # "streaming"
        BY <2>2, <3>1, <3>3, AppendProperties DEF Sound, LoopTypes
      <3> QED
        BY <3>2, <3>3
    <2>5. said \in Seq(EventSet)
      <3> HIDE DEF msg
      <3> QED
        BY <2>3, SingleSeq, EmptySeq, ConcatProperties
    <2>6. /\ \/ /\ out' = said \o <<MessageEvent("turn_end", msg), Event("agent_end")>>
                /\ pc' = "end" /\ batch' = batch /\ hasMore' = hasMore
             \/ /\ out' = said \o <<MessageEvent("turn_end", msg)>>
                /\ pc' = "turnEnd" /\ batch' = batch /\ hasMore' = FALSE
             \/ /\ out' = said /\ pc' = "batch" /\ hasMore' = hasMore
                /\ \E kind \in BatchKinds(stop) :
                     batch' = [calls |-> NextCalls(k), kind |-> kind, count |-> 0, cut |-> FALSE]
          /\ UNCHANGED <<pending, firstTurn, skipPoll>>
      BY <1>2 DEF Respond
    <2>7. out' \in Seq(EventSet)
      <3> HIDE DEF msg, said
      <3>1. <<MessageEvent("turn_end", msg), Event("agent_end")>> \in Seq(EventSet)
        BY <2>3
      <3>2. <<MessageEvent("turn_end", msg)>> \in Seq(EventSet)
        BY <2>3
      <3> QED
        BY <2>5, <2>6, <3>1, <3>2, ConcatProperties
    <2>8. batch' \in BatchSet /\ batch'.count <= Len(batch'.calls)
      <3>1. CASE batch' = batch
        BY <3>1 DEF Sound, LoopTypes, BatchInBounds
      <3>2. CASE \E kind \in BatchKinds(stop) :
                   batch' = [calls |-> NextCalls(k), kind |-> kind, count |-> 0, cut |-> FALSE]
        <4>1. Len(NextCalls(k)) \in Nat
          BY <2>1, LenProperties
        <4> QED
          BY <2>1, <3>2, <4>1 DEF BatchKinds, BatchSet
      <3> QED
        BY <2>6, <3>1, <3>2
    <2>9. LoopTypes' /\ BatchInBounds'
      <3> HIDE DEF msg, said
      <3>1. pc' \in {"end", "turnEnd", "batch"} /\ hasMore' \in BOOLEAN
        BY <2>6 DEF Sound, LoopTypes
      <3> QED
        BY <2>4, <2>6, <2>7, <2>8, <3>1 DEF Sound, LoopTypes, BatchInBounds, PCs
    <2>10. CallsTypeOK'
      BY <1>2 DEF Respond, Request, Sound, CallsTypeOK, Stages, ClassTypes
    <2> QED
      BY <1>2, <2>9, <2>10, Frames DEF Respond, Sound
  <1> QED
    BY <1>1, <1>2

LEMMA BatchFacts ==
  ASSUME Sound
  PROVE  /\ Len(batch.calls) \in Nat /\ batch.count \in 0 .. Len(batch.calls)
         /\ \A i \in 1 .. Len(batch.calls) : batch.calls[i] \in Calls
         /\ BegunSet \subseteq Calls /\ Calls \subseteq Nat
         /\ pc \in {"prepare", "await", "next"} => Current \in Calls
  <1>1. batch.calls \in Seq(Calls) /\ batch.count \in Nat
    BY DEF Sound, LoopTypes, BatchSet
  <1>2. Len(batch.calls) \in Nat /\ batch.count \in 0 .. Len(batch.calls)
    BY <1>1, LenProperties DEF Sound, BatchInBounds
  <1>3. \A i \in 1 .. Len(batch.calls) : batch.calls[i] \in Calls
    BY <1>1, ElementOfSeq
  <1>4. pc \in {"prepare", "await", "next"} => batch.count \in 1 .. Len(batch.calls)
    BY <1>2 DEF Sound, BatchInBounds
  <1> QED
    BY <1>2, <1>3, <1>4 DEF BegunSet, Current, Calls

LEMMA ResultsType ==
  ASSUME Sound
  PROVE  Results \in Seq(MessageSet)
  <1>1. batch.count \in Nat /\ \A i \in 1 .. batch.count : ToolResult(batch.calls[i]) \in MessageSet
    BY BatchFacts, MessageTypes
  <1> QED
    BY <1>1 DEF Results

LEMMA BatchSound ==
  ASSUME Sound,
         \/ StartCall \/ RejectCall \/ AdmitCall \/ AwaitCall \/ NextCall
         \/ RunPrepared \/ JoinCalls \/ EndBatch
  PROVE  Sound'
  <1>1. CASE StartCall
    <2> DEFINE c == batch.calls[batch.count + 1]
    <2>1. c \in Calls /\ c \in Nat
      BY <1>1, BatchFacts DEF StartCall
    <2>2. out' \in Seq(EventSet)
      <3> HIDE DEF c
      <3>1. out' = <<ToolEvent("tool_execution_start", c)>>
        BY <1>1 DEF StartCall, c
      <3> QED
        BY <2>1, <3>1, EventTypesOf, SingleSeq DEF EventTypes
    <2>3. /\ batch' \in BatchSet /\ batch'.calls = batch.calls
          /\ batch'.count = batch.count + 1 /\ batch'.count <= Len(batch'.calls)
      <3>1. batch' = [batch EXCEPT !.count = batch.count + 1]
        BY <1>1 DEF StartCall
      <3>2. batch.count \in Nat /\ batch.count < Len(batch.calls) /\ Len(batch.calls) \in Nat
        BY <1>1, BatchFacts DEF StartCall
      <3>3. batch \in BatchSet
        BY DEF Sound, LoopTypes
      <3> QED
        BY <3>1, <3>2, <3>3 DEF BatchSet
    <2>4. LoopTypes' /\ BatchInBounds'
      BY <1>1, <2>2, <2>3, BatchFacts
      DEF StartCall, batchFrame, Sound, LoopTypes, BatchInBounds, PCs
    <2>5. CallsTypeOK'
      BY <1>1, <2>1 DEF StartCall, Start, Sound, CallsTypeOK, Stages
    <2> QED
      BY <1>1, <2>4, <2>5, Frames DEF StartCall, batchFrame, Sound
  <1>2. CASE RejectCall
    <2>1. Current \in Calls /\ Current \in Nat
      BY <1>2, BatchFacts DEF RejectCall
    <2>2. out' \in Seq(EventSet)
      <3>1. <<ToolEvent("tool_execution_end", Current)>> \in Seq(EventSet)
        BY <2>1, EventTypesOf, SingleSeq DEF EventTypes
      <3>2. Announce(<<ToolResult(Current)>>) \in Seq(EventSet)
        BY <2>1, MessageTypes, SingleSeq, AnnounceType
      <3> QED
        BY <1>2, <3>1, <3>2, ConcatProperties, EmptySeq DEF RejectCall
    <2>3. LoopTypes' /\ BatchInBounds'
      BY <1>2, <2>2 DEF RejectCall, batchFrame, Sound, LoopTypes, BatchInBounds, PCs
    <2>4. CallsTypeOK'
      BY <1>2, <2>1 DEF RejectCall, FailImmediately, Sound, CallsTypeOK, Stages, Outcomes
    <2> QED
      BY <1>2, <2>3, <2>4, Frames DEF RejectCall, batchFrame, Sound
  <1>3. CASE AdmitCall
    <2>1. Current \in Calls
      BY <1>3, BatchFacts DEF AdmitCall
    <2>2. LoopTypes' /\ BatchInBounds'
      BY <1>3 DEF AdmitCall, batchFrame, Sound, LoopTypes, BatchInBounds, PCs
    <2>3. CallsTypeOK'
      BY <1>3, <2>1 DEF AdmitCall, Prepare, Execute, Sound, CallsTypeOK, Stages
    <2> QED
      BY <1>3, <2>2, <2>3, Frames DEF AdmitCall, batchFrame, Sound
  <1>4. CASE AwaitCall
    <2>1. Current \in Calls /\ Current \in Nat
      BY <1>4, BatchFacts DEF AwaitCall
    <2>2. out' \in Seq(EventSet)
      BY <1>4, <2>1, MessageTypes, SingleSeq, AnnounceType DEF AwaitCall
    <2>3. LoopTypes' /\ BatchInBounds'
      BY <1>4, <2>2 DEF AwaitCall, batchFrame, Sound, LoopTypes, BatchInBounds, PCs
    <2> QED
      BY <1>4, <2>3, Frames DEF AwaitCall, batchFrame, Sound
  <1>5. CASE NextCall
    <2>1. batch' \in BatchSet /\ batch'.calls = batch.calls /\ batch'.count = batch.count
      <3> DEFINE cut == aborted /\ batch.kind # "length"
      <3>1. cut \in BOOLEAN
        OBVIOUS
      <3>2. batch' = [batch EXCEPT !.cut = cut]
        BY <1>5, Zenon DEF NextCall
      <3> HIDE DEF cut
      <3> QED
        BY <3>1, <3>2 DEF Sound, LoopTypes, BatchSet
    <2>2. LoopTypes' /\ BatchInBounds'
      BY <1>5, <2>1 DEF NextCall, batchFrame, Sound, LoopTypes, BatchInBounds, PCs
    <2> QED
      BY <1>5, <2>2, Frames DEF NextCall, batchFrame, Sound
  <1>6. CASE RunPrepared
    <2>1. CallsTypeOK'
      BY <1>6, BatchFacts DEF RunPrepared, ExecuteAll, Sound, CallsTypeOK, Stages
    <2>2. LoopTypes' /\ BatchInBounds'
      BY <1>6 DEF RunPrepared, batchFrame, Sound, LoopTypes, BatchInBounds, PCs
    <2> QED
      BY <1>6, <2>1, <2>2, Frames DEF RunPrepared, batchFrame, Sound
  <1>7. CASE JoinCalls
    <2>1. out' \in Seq(EventSet)
      BY <1>7, ResultsType, AnnounceType DEF JoinCalls
    <2>2. LoopTypes' /\ BatchInBounds'
      BY <1>7, <2>1 DEF JoinCalls, batchFrame, Sound, LoopTypes, BatchInBounds, PCs
    <2> QED
      BY <1>7, <2>2, Frames DEF JoinCalls, batchFrame, Sound
  <1>8. CASE EndBatch
    <2>1. ctx' \in Seq(MessageSet)
      BY <1>8, ResultsType, ConcatProperties DEF EndBatch, Sound, LoopTypes
    <2>2. out' \in Seq(EventSet)
      BY <1>8, EventTypesOf, SingleSeq DEF EndBatch, EventTypes
    <2>3. LoopTypes' /\ BatchInBounds'
      BY <1>8, <2>1, <2>2, NoBatchType
      DEF EndBatch, Sound, LoopTypes, BatchInBounds, PCs
    <2> QED
      BY <1>8, <2>3, Frames DEF EndBatch, Sound
  <1> QED
    BY <1>1, <1>2, <1>3, <1>4, <1>5, <1>6, <1>7, <1>8

LEMMA SoundStep == Sound /\ [Next]_vars => Sound'
  <1> SUFFICES ASSUME Sound, [Next]_vars PROVE Sound'
    OBVIOUS
  <1>1. CASE LoopStep
    BY <1>1, EmitSound, TurnSound, StreamSound, BatchSound, FaultSound
    DEF LoopStep, Response
  <1>2. CASE Fault
    BY <1>2, FaultSound, ToolSound DEF Fault
  <1>3. CASE \E c \in Calls : ToolStep(c) \/ ToolUpdate(c)
    BY <1>3, ToolSound
  <1>4. CASE UNCHANGED vars
    BY <1>4, Frames DEF vars, Sound, BatchInBounds, loopVars
  <1> QED
    BY <1>1, <1>2, <1>3, <1>4, ApplicationSound DEF Next

\* Every variable of the loop, of class Agent and of the tool calls has a
\* value of its type, and the batch loop stays within its batch.
THEOREM Typing == Spec => []TypeOK
  <1>1. Spec => []Sound
    BY SoundInit, SoundStep, PTL DEF Spec
  <1> QED
    BY <1>1, SoundIsTyped, PTL

-----------------------------------------------------------------------------
(* Truncated messages.  Their calls have been issued, so no later message  *)
(* asks for them, and they are in no batch that executes its calls.        *)

FromBatch(c) ==
  batch.kind # "length" /\ \E i \in 1 .. Len(batch.calls) : batch.calls[i] = c

Spared(m) ==
  m.kind = "length" =>
    \A j \in 1 .. Len(m.calls) :
      stage[m.calls[j]] # "unused" /\ m.calls[j] \notin executed /\ ~FromBatch(m.calls[j])

CutOff ==
  /\ \A c, d \in Calls : c < d /\ stage[d] # "unused" => stage[c] # "unused"
  /\ \A c \in executed : stage[c] # "unused"
  /\ \A i \in 1 .. Len(messages) : Spared(messages[i])
  /\ \A i \in 1 .. Len(out) : Spared(out[i].msg)

\* A step in which no message of a provider arrives: it issues no call, executes
\* only calls of the batch, and says nothing new about a truncated message.
Calm ==
  /\ \A c \in Calls : stage'[c] = "unused" <=> stage[c] = "unused"
  /\ \A c \in executed' : c \in executed \/ (FromBatch(c) /\ stage[c] # "unused")
  /\ batch' = batch \/ batch'.calls = <<>>
       \/ (batch'.kind = batch.kind /\ batch'.calls = batch.calls)
  /\ \A i \in 1 .. Len(messages') :
       \/ \E j \in 1 .. Len(messages) : messages'[i] = messages[j]
       \/ \E j \in 1 .. Len(out) : messages'[i] = out[j].msg
  /\ \A i \in 1 .. Len(out') :
       out'[i].msg.kind # "length" \/ \E j \in 1 .. Len(out) : out'[i] = out[j]

LEMMA CalmSpares ==
  ASSUME Sound, CutOff, Calm, NEW m \in MessageSet, Spared(m)
  PROVE  Spared(m)'
  <1> SUFFICES ASSUME m.kind = "length", NEW j \in 1 .. Len(m.calls)
               PROVE  /\ stage'[m.calls[j]] # "unused" /\ m.calls[j] \notin executed'
                      /\ ~FromBatch(m.calls[j])'
    BY DEF Spared
  <1> DEFINE c == m.calls[j]
  <1>1. c \in Calls
    BY ElementOfSeq DEF MessageSet
  <1>2. stage[c] # "unused" /\ c \notin executed /\ ~FromBatch(c)
    BY DEF Spared
  <1> HIDE DEF c
  <1>3. stage'[c] # "unused" /\ c \notin executed'
    BY <1>1, <1>2 DEF Calm
  <1>4. ~FromBatch(c)'
    <2>1. CASE batch' = batch \/ (batch'.kind = batch.kind /\ batch'.calls = batch.calls)
      BY <1>2, <2>1 DEF FromBatch
    <2>2. CASE batch'.calls = <<>>
      BY <2>2, EmptySeq DEF FromBatch
    <2> QED
      BY <2>1, <2>2 DEF Calm
  <1> QED
    BY <1>3, <1>4 DEF c

LEMMA CalmKeeps ==
  ASSUME Sound, Sound', CutOff, Calm
  PROVE  CutOff'
  <1>0. /\ \A i \in 1 .. Len(messages) : messages[i] \in MessageSet
        /\ \A i \in 1 .. Len(out) : out[i].msg \in MessageSet
    BY ElementOfSeq, IdType DEF Sound, ClassTypes, LoopTypes
  <1>1. (\A c, d \in Calls : c < d /\ stage[d] # "unused" => stage[c] # "unused")'
    BY DEF CutOff, Calm
  <1>2. (\A c \in executed : stage[c] # "unused")'
    BY DEF CutOff, Calm, Sound, CallsTypeOK
  <1>3. ASSUME NEW i \in 1 .. Len(messages')
        PROVE  Spared(messages[i])'
    <2>1. PICK m \in MessageSet : messages'[i] = m /\ Spared(m)
      <3>1. CASE \E j \in 1 .. Len(messages) : messages'[i] = messages[j]
        <4>1. PICK j \in 1 .. Len(messages) : messages'[i] = messages[j]
          BY <3>1
        <4>2. messages[j] \in MessageSet /\ Spared(messages[j])
          BY <1>0 DEF CutOff
        <4> QED
          BY <4>1, <4>2
      <3>2. CASE \E j \in 1 .. Len(out) : messages'[i] = out[j].msg
        <4>1. PICK j \in 1 .. Len(out) : messages'[i] = out[j].msg
          BY <3>2
        <4>2. out[j].msg \in MessageSet /\ Spared(out[j].msg)
          BY <1>0 DEF CutOff
        <4> QED
          BY <4>1, <4>2
      <3> QED
        BY <3>1, <3>2 DEF Calm
    <2>2. Spared(m)'
      BY <2>1, CalmSpares
    <2> QED
      BY <2>1, <2>2 DEF Spared
  <1>4. ASSUME NEW i \in 1 .. Len(out')
        PROVE  Spared(out[i].msg)'
    <2>1. CASE out'[i].msg.kind # "length"
      BY <2>1 DEF Spared
    <2>2. CASE \E j \in 1 .. Len(out) : out'[i] = out[j]
      <3>1. PICK m \in MessageSet : out'[i].msg = m /\ Spared(m)
        <4>1. PICK j \in 1 .. Len(out) : out'[i] = out[j]
          BY <2>2
        <4>2. out[j].msg \in MessageSet /\ Spared(out[j].msg)
          BY <1>0 DEF CutOff
        <4> QED
          BY <4>1, <4>2
      <3>2. Spared(m)'
        BY <3>1, CalmSpares
      <3> QED
        BY <3>1, <3>2 DEF Spared
    <2> QED
      BY <2>1, <2>2 DEF Calm
  <1> QED
    BY <1>1, <1>2, <1>3, <1>4 DEF CutOff

\* Events that say nothing of a truncated message.
Plain(o) == \A i \in 1 .. Len(o) : o[i].msg.kind # "length"

LEMMA PlainEvents ==
  /\ \A type \in EventTypes : Plain(<<Event(type)>>)
  /\ \A type \in EventTypes, n \in Nat : Plain(<<ToolEvent(type, n)>>)
  /\ Plain(<<>>)
  BY DEF Plain, Event, ToolEvent, NoMessage, Message

LEMMA PlainConcat ==
  ASSUME NEW a \in Seq(EventSet), NEW b \in Seq(EventSet), Plain(a), Plain(b)
  PROVE  Plain(a \o b)
  <1>1. SUFFICES ASSUME NEW i \in 1 .. Len(a) + Len(b)
                 PROVE  (a \o b)[i].msg.kind # "length"
    BY ConcatProperties DEF Plain
  <1>2. Len(a) \in Nat /\ Len(b) \in Nat
    BY LenProperties
  <1>3. CASE i <= Len(a)
    BY <1>2, <1>3, ConcatProperties DEF Plain
  <1>4. CASE i > Len(a)
    <2>1. i - Len(a) \in 1 .. Len(b) /\ (a \o b)[i] = b[i - Len(a)]
      BY <1>2, <1>4, ConcatProperties
    <2> QED
      BY <2>1 DEF Plain
  <1> QED
    BY <1>2, <1>3, <1>4

LEMMA PlainAnnounce ==
  ASSUME NEW s \in Seq(MessageSet), \A i \in 1 .. Len(s) : s[i].kind # "length"
  PROVE  Plain(Announce(s))
  <1>1. Len(s) \in Nat
    BY LenProperties
  <1>2. Len(Announce(s)) = 2 * Len(s)
    BY <1>1 DEF Announce
  <1>3. ASSUME NEW i \in 1 .. 2 * Len(s)
        PROVE  Announce(s)[i].msg.kind # "length"
    <2>1. Announce(s)[i].msg = s[(i + 1) \div 2]
      BY DEF Announce, MessageEvent
    <2>2. (i + 1) \div 2 \in 1 .. Len(s)
      BY <1>1, HalfOf
    <2> QED
      BY <2>1, <2>2
  <1> QED
    BY <1>2, <1>3 DEF Plain

LEMMA PlainUsers ==
  ASSUME NEW s \in Seq(UserSet)
  PROVE  Plain(Announce(s))
  <1>1. ASSUME NEW i \in 1 .. Len(s)
        PROVE  s[i].kind # "length"
    <2>1. s[i] \in UserSet
      BY ElementOfSeq
    <2> QED
      BY <2>1 DEF UserSet, Lanes
  <1> QED
    BY <1>1, PlainAnnounce, UsersAreMessages

LEMMA PlainResult ==
  ASSUME NEW c \in Nat
  PROVE  Plain(Announce(<<ToolResult(c)>>))
  <1> DEFINE s == <<ToolResult(c)>>
  <1>1. s \in Seq(MessageSet)
    BY MessageTypes, SingleSeq
  <1>2. \A i \in 1 .. Len(s) : s[i].kind # "length"
    BY DEF ToolResult, Message
  <1> HIDE DEF s
  <1>3. Plain(Announce(s))
    BY <1>1, <1>2, PlainAnnounce
  <1> QED
    BY <1>3 DEF s

LEMMA PlainResults ==
  ASSUME Sound
  PROVE  Plain(Announce(Results))
  <1>1. batch.count \in Nat
    BY BatchFacts
  <1>2. \A i \in 1 .. Len(Results) : Results[i].kind # "length"
    BY <1>1 DEF Results, ToolResult, Message
  <1> QED
    BY <1>2, ResultsType, PlainAnnounce

\* A step that leaves the calls, the batch and the transcript alone.
LEMMA CalmUnlessSaying ==
  ASSUME Sound, UNCHANGED <<stage, executed, messages>>, out' = out \/ Plain(out'),
         batch' = batch \/ batch'.calls = <<>>
           \/ (batch'.kind = batch.kind /\ batch'.calls = batch.calls)
  PROVE  Calm
  BY DEF Calm, Plain

LEMMA EmitCalm ==
  ASSUME Sound, Emit
  PROVE  Calm
  <1>1. out \in Seq(EventSet) /\ out # <<>> /\ messages \in Seq(MessageSet)
    BY DEF Emit, Sound, LoopTypes, ClassTypes
  <1>2. Len(out) \in Nat \ {0} /\ Head(out) = out[1] /\ Head(out).msg \in MessageSet
    BY <1>1, EmptySeq, HeadTailProperties, IdType
  <1>3. messages' = messages \/ messages' = Append(messages, out[1].msg)
    BY <1>2 DEF Emit, Reduce
  <1>4. \A i \in 1 .. Len(messages') :
           \/ \E j \in 1 .. Len(messages) : messages'[i] = messages[j]
           \/ \E j \in 1 .. Len(out) : messages'[i] = out[j].msg
    <2>1. CASE messages' = messages
      BY <2>1
    <2>2. CASE messages' = Append(messages, out[1].msg)
      <3>1. SUFFICES ASSUME NEW i \in 1 .. Len(messages) + 1
                     PROVE  \/ \E j \in 1 .. Len(messages) : messages'[i] = messages[j]
                            \/ \E j \in 1 .. Len(out) : messages'[i] = out[j].msg
        BY <1>1, <1>2, <2>2, AppendProperties
      <3>2. Len(messages) \in Nat
        BY <1>1, LenProperties
      <3>3. CASE i \in 1 .. Len(messages)
        BY <1>1, <1>2, <2>2, <3>3, AppendProperties
      <3>4. CASE i = Len(messages) + 1
        BY <1>1, <1>2, <2>2, <3>4, AppendProperties
      <3> QED
        BY <3>2, <3>3, <3>4
    <2> QED
      BY <1>3, <2>1, <2>2
  <1>5. \A i \in 1 .. Len(out') : \E j \in 1 .. Len(out) : out'[i] = out[j]
    <2>1. out' = Tail(out)
      BY DEF Emit
    <2>2. ASSUME NEW i \in 1 .. Len(Tail(out))
          PROVE  Tail(out)[i] = out[i + 1] /\ i + 1 \in 1 .. Len(out)
      BY <1>1, <1>2, HeadTailProperties
    <2> QED
      BY <2>1, <2>2
  <1>6. UNCHANGED <<stage, executed, batch>>
    BY DEF Emit, callVars
  <1> QED
    BY <1>4, <1>5, <1>6 DEF Calm

LEMMA StartRunCalm ==
  ASSUME Sound, NEW msgs \in Seq(UserSet), NEW skip, StartRun(msgs, skip)
  PROVE  Calm
  <1> DEFINE start == <<Event("agent_start"), Event("turn_start")>>
  <1>1. Plain(start)
    BY DEF Plain, Event, NoMessage, Message
  <1>2. start \in Seq(EventSet)
    <2>1. Event("agent_start") \in EventSet /\ Event("turn_start") \in EventSet
      BY EventTypesOf DEF EventTypes
    <2> QED
      BY <2>1
  <1>3. out' = start \o Announce(msgs) /\ batch'.calls = <<>>
    BY NoBatchType DEF StartRun
  <1> HIDE DEF start
  <1>4. Plain(out')
    BY <1>1, <1>2, <1>3, PlainUsers, PlainConcat, AnnounceType, UsersAreMessages
  <1> QED
    BY <1>3, <1>4, CalmUnlessSaying DEF StartRun, callVars

LEMMA ApplicationCalm ==
  ASSUME Sound, Application
  PROVE  Calm
  <1>1. CASE Prompt
    <2>1. <<User(accepted + 1, "prompt")>> \in Seq(UserSet)
      BY MessageTypes, SingleSeq DEF Lanes, Sound, HistTypes
    <2> QED
      BY <1>1, <2>1, StartRunCalm DEF Prompt
  <1>2. CASE Continue
    <2>1. /\ Drained(steeringMode, steeringQueue) \in Seq(UserSet)
          /\ Drained(followUpMode, followUpQueue) \in Seq(UserSet) /\ <<>> \in Seq(UserSet)
      BY DrainTypes, EmptySeq DEF Sound, QueueTypes
    <2> QED
      BY <1>2, <2>1, StartRunCalm DEF Continue
  <1>3. CASE Steer \/ FollowUp \/ ClearSteeringQueue \/ ClearFollowUpQueue \/ SetMode \/ Abort
    BY <1>3, CalmUnlessSaying
    DEF Steer, FollowUp, ClearSteeringQueue, ClearFollowUpQueue, SetMode, Abort, classVars,
        loopVars, callVars
  <1>4. CASE Reset
    <2>1. messages' = <<>> /\ Len(<<>>) = 0
      BY <1>4 DEF Reset
    <2> QED
      BY <1>4, <2>1 DEF Reset, Calm, loopVars, callVars
  <1> QED
    BY <1>1, <1>2, <1>3, <1>4 DEF Application

LEMMA FaultCalm ==
  ASSUME Sound, LoopFault \/ BatchFault \/ ReportFault
  PROVE  Calm
  <1>1. CASE Fail
    <2> DEFINE m == Assistant(IF aborted THEN "aborted" ELSE "error", <<>>)
    <2>1. out' = <<MessageEvent("message_start", m), MessageEvent("message_end", m),
                   MessageEvent("turn_end", m), Event("agent_end")>>
      BY <1>1 DEF Fail
    <2>2. m.kind # "length"
      BY DEF Assistant, Message
    <2> HIDE DEF m
    <2>3. Plain(out')
      BY <2>1, <2>2 DEF Plain, Event, MessageEvent, NoMessage, Message
    <2> QED
      BY <1>1, <2>3, CalmUnlessSaying DEF Fail, classVars, callVars
  <1>2. CASE ReportFault
    BY <1>2, PlainEvents, CalmUnlessSaying DEF ReportFault, classVars, callVars
  <1> QED
    BY <1>1, <1>2 DEF LoopFault, BatchFault

LEMMA ToolCalm ==
  ASSUME Sound, NEW c \in Calls, ToolStep(c) \/ ToolUpdate(c) \/ ToolFault(c)
  PROVE  Calm
  <1>1. executed' = executed /\ batch' = batch /\ out' = out
    BY DEF ToolStep, ToolReturn, ToolEnd, ToolSettle, ToolUpdate, ToolFault, Return, EmitEnd,
           EndListeners, Update, loopVars
  <1>2. messages' = messages
    BY DEF ToolStep, ToolReturn, ToolEnd, ToolSettle, ToolUpdate, ToolFault, Reduce, ToolEvent,
           classVars
  <1>3. \A d \in Calls : stage'[d] = "unused" <=> stage[d] = "unused"
    BY DEF ToolStep, ToolReturn, ToolEnd, ToolSettle, ToolUpdate, ToolFault, Return, EmitEnd,
           EndListeners, Update, Sound, CallsTypeOK
  <1> QED
    BY <1>1, <1>2, <1>3 DEF Calm

LEMMA TurnCalm ==
  ASSUME Sound,
         \/ PollSteering \/ StartTurn \/ PollFollowUps \/ StopAfterTurn \/ FinishRun
         \/ StreamStart
  PROVE  Calm
  <1>1. CASE PollSteering
    BY <1>1, CalmUnlessSaying DEF PollSteering, classVars, callVars
  <1>2. CASE StartTurn
    <2>1. Plain(Announce(pending)) /\ Announce(pending) \in Seq(EventSet)
      BY PlainUsers, AnnounceType, UsersAreMessages DEF Sound, LoopTypes
    <2>2. <<Event("turn_start")>> \in Seq(EventSet) /\ Plain(<<Event("turn_start")>>)
      BY EventTypesOf, SingleSeq, PlainEvents DEF EventTypes
    <2>3. Plain(out')
      BY <1>2, <2>1, <2>2, PlainConcat, PlainEvents, EmptySeq DEF StartTurn
    <2> QED
      BY <1>2, <2>3, CalmUnlessSaying DEF StartTurn, classVars, callVars
  <1>3. CASE PollFollowUps \/ StopAfterTurn
    <2>1. Plain(<<Event("agent_end")>>)
      BY PlainEvents DEF EventTypes
    <2> QED
      BY <1>3, <2>1, CalmUnlessSaying DEF PollFollowUps, StopAfterTurn, classVars, callVars
  <1>4. CASE FinishRun
    BY <1>4, NoBatchType, CalmUnlessSaying DEF FinishRun, callVars
  <1>5. CASE StreamStart
    <2>1. Plain(out')
      BY <1>5 DEF StreamStart, Plain, MessageEvent, Partial, Message
    <2> QED
      BY <1>5, <2>1, CalmUnlessSaying DEF StreamStart, classVars, callVars
  <1> QED
    BY <1>1, <1>2, <1>3, <1>4, <1>5

LEMMA BatchCalm ==
  ASSUME Sound,
         \/ StartCall \/ RejectCall \/ AdmitCall \/ AwaitCall \/ NextCall
         \/ RunPrepared \/ JoinCalls \/ EndBatch
  PROVE  Calm
  <1>1. CASE StartCall
    <2>1. batch.calls[batch.count + 1] \in Calls /\ batch.calls[batch.count + 1] \in Nat
      BY <1>1, BatchFacts DEF StartCall
    <2>2. Plain(out')
      BY <1>1, <2>1, PlainEvents DEF StartCall, EventTypes
    <2>3. batch'.calls = batch.calls /\ batch'.kind = batch.kind
      BY <1>1 DEF StartCall, Sound, LoopTypes, BatchSet
    <2>4. UNCHANGED <<executed, messages>>
      BY <1>1 DEF StartCall, Start, batchFrame, classVars
    <2>5. \A c \in Calls : stage'[c] = "unused" <=> stage[c] = "unused"
      BY <1>1 DEF StartCall, Start, Sound, CallsTypeOK
    <2> QED
      BY <2>2, <2>3, <2>4, <2>5 DEF Calm, Plain
  <1>2. CASE RejectCall
    <2>1. Current \in Calls /\ Current \in Nat
      BY <1>2, BatchFacts DEF RejectCall
    <2>2. Plain(out')
      <3>1. /\ <<ToolEvent("tool_execution_end", Current)>> \in Seq(EventSet)
            /\ Plain(<<ToolEvent("tool_execution_end", Current)>>)
        BY <2>1, EventTypesOf, SingleSeq, PlainEvents DEF EventTypes
      <3>2. /\ Announce(<<ToolResult(Current)>>) \in Seq(EventSet)
            /\ Plain(Announce(<<ToolResult(Current)>>))
        BY <2>1, MessageTypes, SingleSeq, AnnounceType, PlainResult
      <3> QED
        BY <1>2, <3>1, <3>2, PlainConcat, PlainEvents, EmptySeq DEF RejectCall
    <2>3. UNCHANGED <<executed, messages, batch>>
      BY <1>2 DEF RejectCall, FailImmediately, batchFrame, classVars
    <2>4. \A c \in Calls : stage'[c] = "unused" <=> stage[c] = "unused"
      BY <1>2 DEF RejectCall, FailImmediately, Sound, CallsTypeOK
    <2> QED
      BY <2>2, <2>3, <2>4 DEF Calm, Plain
  <1>3. CASE AdmitCall
    <2>1. Current \in Calls /\ FromBatch(Current) /\ stage[Current] = "started"
      BY <1>3, BatchFacts DEF AdmitCall, FromBatch, Current, Prepare, Execute, Sound, BatchInBounds
    <2>2. \A c \in executed' : c \in executed \/ c = Current
      BY <1>3 DEF AdmitCall, Prepare, Execute
    <2>3. UNCHANGED <<out, messages, batch>>
      BY <1>3 DEF AdmitCall, batchFrame, classVars
    <2>4. \A c \in Calls : stage'[c] = "unused" <=> stage[c] = "unused"
      BY <1>3, <2>1 DEF AdmitCall, Prepare, Execute, Sound, CallsTypeOK
    <2> QED
      BY <2>1, <2>2, <2>3, <2>4 DEF Calm
  <1>4. CASE AwaitCall
    <2>1. Plain(out')
      BY <1>4, BatchFacts, PlainResult DEF AwaitCall
    <2> QED
      BY <1>4, <2>1, CalmUnlessSaying DEF AwaitCall, batchFrame, classVars, callVars
  <1>5. CASE NextCall
    <2>1. batch'.kind = batch.kind /\ batch'.calls = batch.calls
      BY <1>5 DEF NextCall, Sound, LoopTypes, BatchSet
    <2> QED
      BY <1>5, <2>1, CalmUnlessSaying DEF NextCall, batchFrame, classVars, callVars
  <1>6. CASE RunPrepared
    <2>1. \A c \in BegunSet : FromBatch(c)
      BY <1>6, BatchFacts DEF RunPrepared, BegunSet, FromBatch
    <2>2. \A c \in executed' : c \in executed \/ (c \in BegunSet /\ stage[c] = "prepared")
      BY <1>6 DEF RunPrepared, ExecuteAll
    <2>3. UNCHANGED <<out, messages, batch>>
      BY <1>6 DEF RunPrepared, batchFrame, classVars
    <2>4. \A c \in Calls : stage'[c] = "unused" <=> stage[c] = "unused"
      BY <1>6 DEF RunPrepared, ExecuteAll, Sound, CallsTypeOK
    <2> QED
      BY <2>1, <2>2, <2>3, <2>4 DEF Calm
  <1>7. CASE JoinCalls
    <2>1. Plain(out')
      BY <1>7, PlainResults DEF JoinCalls
    <2> QED
      BY <1>7, <2>1, CalmUnlessSaying DEF JoinCalls, batchFrame, classVars, callVars
  <1>8. CASE EndBatch
    <2>1. Plain(out')
      BY <1>8, PlainEvents DEF EndBatch, EventTypes
    <2> QED
      BY <1>8, <2>1, NoBatchType, CalmUnlessSaying DEF EndBatch, classVars, callVars
  <1> QED
    BY <1>1, <1>2, <1>3, <1>4, <1>5, <1>6, <1>7, <1>8

\* Calls are issued in order: those that have been are the first Issued ones.
LEMMA IssuedAreTheFirst ==
  ASSUME CutOff
  PROVE  \A c \in Calls : stage[c] # "unused" <=> c <= Issued
  <1> DEFINE U == {c \in Calls : stage[c] # "unused"}
  <1>1. IsFiniteSet(U) /\ Issued = Cardinality(U)
    <2>1. IsFiniteSet(Calls) /\ U \in SUBSET Calls
      BY FS_Interval, MaxCallsAssumption DEF Calls
    <2> QED
      BY <2>1, FS_Subset DEF Issued
  <1>2. ASSUME NEW c \in Calls, stage[c] # "unused"
        PROVE  c <= Issued
    <2>1. 1 .. c \in SUBSET U
      BY <1>2, MaxCallsAssumption DEF CutOff, Calls
    <2>2. Cardinality(1 .. c) = c
      BY FS_Interval, MaxCallsAssumption DEF Calls
    <2> QED
      BY <1>1, <2>1, <2>2, FS_Subset
  <1>3. ASSUME NEW c \in Calls, stage[c] = "unused"
        PROVE  ~(c <= Issued)
    <2>1. U \in SUBSET (1 .. c - 1)
      BY <1>3, MaxCallsAssumption DEF CutOff, Calls
    <2>2. c \in Nat \ {0} /\ IsFiniteSet(1 .. c - 1) /\ Cardinality(1 .. c - 1) = c - 1
      BY FS_Interval, MaxCallsAssumption DEF Calls
    <2>3. Issued <= c - 1
      BY <1>1, <2>1, <2>2, FS_Subset
    <2> QED
      BY <2>2, <2>3, IssuedType
  <1> QED
    BY <1>2, <1>3

\* A message of a provider asks for calls nobody asked for before; if it is cut
\* off its batch is one that executes nothing.
LEMMA RespondKeeps ==
  ASSUME Sound, Sound', CutOff,
         NEW stop \in Stops, NEW k \in 0 .. MaxCallsPerTurn, Respond(stop, k)
  PROVE  CutOff'
  <1> DEFINE msg  == Assistant(stop, NextCalls(k))
             said == (IF pc = "streaming" THEN <<>> ELSE <<MessageEvent("message_start", msg)>>)
                       \o <<MessageEvent("message_end", msg)>>
             New(c) == \E i \in 1 .. k : c = Issued + i
  <1>0. k \in Nat /\ Issued \in Nat /\ Issued + k <= MaxCalls /\ MaxCalls \in Nat
    BY AgentAssumption, IssuedType, MaxCallsAssumption DEF Respond
  <1>1. \A c \in Calls : stage[c] # "unused" <=> c <= Issued
    BY IssuedAreTheFirst
  <1>2. \A c \in Calls : stage'[c] # "unused" <=> stage[c] # "unused" \/ New(c)
    <2>1. \A c \in Calls : New(c) <=> c \in Issued + 1 .. Issued + k
      <3>1. ASSUME NEW c \in Calls, c \in Issued + 1 .. Issued + k
            PROVE  New(c)
        <4>1. c - Issued \in 1 .. k /\ c = Issued + (c - Issued)
          BY <1>0, <3>1
        <4> QED
          BY <4>1
      <3> QED
        BY <1>0, <3>1
    <2> QED
      BY <2>1 DEF Respond, Request
  <1>3. \A c \in Calls : New(c) => stage[c] = "unused" /\ c \notin executed
    BY <1>0, <1>1 DEF CutOff, Calls
  <1>4. \A i \in 1 .. k : Issued + i \in Calls /\ New(Issued + i)
    BY <1>0 DEF Calls
  <1>5. NextCalls(k) \in Seq(Calls) /\ Len(NextCalls(k)) = k
        /\ \A i \in 1 .. k : NextCalls(k)[i] = Issued + i
    BY <1>0, NextCallsType DEF NextCalls
  <1>6. executed' = executed /\ messages' = messages
    BY DEF Respond, Request, classVars
  <1>7. \/ batch' = batch
        \/ /\ batch'.calls = NextCalls(k)
           /\ (stop = "length" => batch'.kind = "length")
    BY DEF Respond, BatchKinds
  <1>8. stop = "length" => k = 0 \/ batch'.kind = "length"
    BY DEF Respond, BatchKinds, Failed
  <1>9. ASSUME NEW m \in MessageSet, Spared(m)
        PROVE  Spared(m)'
    <2> SUFFICES ASSUME m.kind = "length", NEW j \in 1 .. Len(m.calls)
                 PROVE  /\ stage'[m.calls[j]] # "unused" /\ m.calls[j] \notin executed'
                        /\ ~FromBatch(m.calls[j])'
      BY DEF Spared
    <2> DEFINE c == m.calls[j]
    <2>1. c \in Calls
      BY ElementOfSeq DEF MessageSet
    <2>2. stage[c] # "unused" /\ c \notin executed /\ ~FromBatch(c)
      BY <1>9 DEF Spared
    <2> HIDE DEF c, New
    <2>3. stage'[c] # "unused" /\ c \notin executed' /\ ~New(c)
      BY <1>2, <1>3, <1>6, <2>1, <2>2
    <2>4. ~FromBatch(c)'
      <3>1. CASE batch' = batch
        BY <2>2, <3>1 DEF FromBatch
      <3>2. CASE batch'.calls = NextCalls(k)
        <4>1. \A i \in 1 .. k : NextCalls(k)[i] # c
          BY <1>4, <1>5, <2>3
        <4> QED
          BY <1>5, <3>2, <4>1 DEF FromBatch
      <3> QED
        BY <1>7, <3>1, <3>2
    <2> QED
      BY <2>3, <2>4 DEF c
  <1>p. PICK q : q = msg
    OBVIOUS
  <1>n. PICK n \in Nat : n = Issued
    BY <1>0
  <1>10. Spared(q)'
    <2> SUFFICES ASSUME stop = "length", NEW j \in 1 .. k
                 PROVE  /\ stage'[n + j] # "unused" /\ n + j \notin executed'
                        /\ ~FromBatch(n + j)'
      <3>1. q.kind = stop /\ Len(q.calls) = k /\ \A j \in 1 .. k : q.calls[j] = n + j
        BY <1>5, <1>n, <1>p DEF Assistant, Message
      <3> QED
        BY <3>1 DEF Spared
    <2>1. batch'.kind = "length"
      BY <1>8
    <2>2. n + j \in Calls /\ New(n + j)
      BY <1>4, <1>n
    <2> QED
      BY <1>2, <1>3, <1>6, <2>1, <2>2 DEF FromBatch
  <1>11. \A i \in 1 .. Len(out') : out'[i].msg = q \/ out'[i].msg.kind # "length"
    <2> DEFINE begin == MessageEvent("message_start", q)
               end   == MessageEvent("message_end", q)
               turn  == MessageEvent("turn_end", q)
               over  == Event("agent_end")
    <2>1. /\ begin.msg = q /\ end.msg = q /\ turn.msg = q
          /\ over.msg.kind # "length"
      BY DEF MessageEvent, Event, NoMessage, Message
    <2>2. \/ out' = (IF pc = "streaming" THEN <<>> ELSE <<begin>>) \o <<end>> \o <<turn, over>>
          \/ out' = (IF pc = "streaming" THEN <<>> ELSE <<begin>>) \o <<end>> \o <<turn>>
          \/ out' = (IF pc = "streaming" THEN <<>> ELSE <<begin>>) \o <<end>>
      BY <1>p DEF Respond
    <2> HIDE DEF begin, end, turn, over
    <2> DEFINE events == {begin, end, turn, over}
    <2>3. /\ (IF pc = "streaming" THEN <<>> ELSE <<begin>>) \in Seq(events)
          /\ <<end>> \in Seq(events)
          /\ <<turn, over>> \in Seq(events) /\ <<turn>> \in Seq(events)
      <3>1. begin \in events /\ end \in events /\ turn \in events /\ over \in events
        OBVIOUS
      <3> HIDE DEF events
      <3>2. <<>> \in Seq(events)
        OBVIOUS
      <3>3. <<begin>> \in Seq(events)
        BY <3>1
      <3>4. <<end>> \in Seq(events)
        BY <3>1
      <3>5. <<turn, over>> \in Seq(events)
        BY <3>1
      <3>6. <<turn>> \in Seq(events)
        BY <3>1
      <3> QED
        BY <3>2, <3>3, <3>4, <3>5, <3>6
    <2> HIDE DEF events
    <2>4. out' \in Seq(events)
      BY <2>2, <2>3, ConcatProperties
    <2>5. \A i \in 1 .. Len(out') : out'[i] \in events
      BY <2>4, ElementOfSeq
    <2> QED
      BY <2>1, <2>5 DEF events
  <1>12. (\A c, d \in Calls : c < d /\ stage[d] # "unused" => stage[c] # "unused")'
    <2>1. ASSUME NEW c \in Calls PROVE stage'[c] # "unused" <=> c <= Issued + k
      <3>1. c \in Nat /\ (New(c) <=> c \in Issued + 1 .. Issued + k)
        <4>1. ASSUME c \in Issued + 1 .. Issued + k
              PROVE  New(c)
          <5>1. c - Issued \in 1 .. k /\ c = Issued + (c - Issued)
            BY <1>0, <4>1
          <5> QED
            BY <5>1
        <4> QED
          BY <1>0, <4>1 DEF Calls
      <3> HIDE DEF New
      <3> QED
        BY <1>0, <1>1, <1>2, <3>1
    <2> QED
      BY <1>0, <2>1 DEF Calls
  <1>13. (\A c \in executed : stage[c] # "unused")'
    BY <1>2, <1>6 DEF CutOff, Sound, CallsTypeOK
  <1>14. (\A i \in 1 .. Len(messages) : Spared(messages[i]))'
    <2>1. ASSUME NEW i \in 1 .. Len(messages)
          PROVE  Spared(messages[i])'
      <3>1. PICK m \in MessageSet : m = messages[i]
        BY ElementOfSeq DEF Sound, ClassTypes
      <3>2. Spared(m)
        BY <3>1 DEF CutOff
      <3>3. Spared(m)'
        BY <1>9, <3>2
      <3> QED
        BY <1>6, <3>1, <3>3 DEF Spared
    <2> QED
      BY <1>6, <2>1
  <1>15. (\A i \in 1 .. Len(out) : Spared(out[i].msg))'
    <2>1. ASSUME NEW i \in 1 .. Len(out')
          PROVE  Spared(out[i].msg)'
      <3>1. CASE out'[i].msg = q
        BY <1>10, <3>1 DEF Spared
      <3>2. CASE out'[i].msg.kind # "length"
        BY <3>2 DEF Spared
      <3> QED
        BY <1>11, <3>1, <3>2
    <2> QED
      BY <2>1
  <1> QED
    BY <1>12, <1>13, <1>14, <1>15 DEF CutOff

LEMMA CutOffInit == Init => CutOff
  BY DEF Init, CallsInit, CutOff

LEMMA CutOffStep == Sound /\ Sound' /\ CutOff /\ [Next]_vars => CutOff'
  <1> SUFFICES ASSUME Sound, Sound', CutOff, [Next]_vars PROVE CutOff'
    OBVIOUS
  <1>1. CASE \E stop \in Stops, k \in 0 .. MaxCallsPerTurn : Respond(stop, k)
    BY <1>1, RespondKeeps
  <1>2. CASE UNCHANGED vars
    <2>1. Calm
      BY <1>2 DEF Calm, vars, classVars, loopVars, callVars
    <2> QED
      BY <2>1, CalmKeeps
  <1>3. CASE LoopStep /\ ~(\E stop \in Stops, k \in 0 .. MaxCallsPerTurn : Respond(stop, k))
    BY <1>3, EmitCalm, TurnCalm, BatchCalm, FaultCalm, CalmKeeps DEF LoopStep, Response
  <1>4. CASE Application \/ Fault \/ \E c \in Calls : ToolStep(c) \/ ToolUpdate(c)
    BY <1>4, ApplicationCalm, FaultCalm, ToolCalm, CalmKeeps DEF Fault
  <1> QED
    BY <1>1, <1>2, <1>3, <1>4 DEF Next

LEMMA CutOffSpares == CutOff => TruncatedNeverExecuted
  BY DEF CutOff, Spared, TruncatedNeverExecuted

\* A tool call of a message the token limit cut off is never executed.
THEOREM TruncatedIsSpared == Spec => []TruncatedNeverExecuted
  <1>1. Spec => []Sound
    BY SoundInit, SoundStep, PTL DEF Spec
  <1>2. Spec => []CutOff
    BY <1>1, CutOffInit, CutOffStep, PTL DEF Spec
  <1> QED
    BY <1>2, CutOffSpares, PTL

-----------------------------------------------------------------------------
(* The tools of a run: which calls may be under way, whose they are, and   *)
(* what the events still to come say of them.                              *)

\* Where the loop has no batch.
Between == {"idle", "poll", "inner", "request", "streaming", "turnEnd", "end"}

Ended(c) == out # <<>> /\ out[1] = ToolEvent("tool_execution_end", c)

\* The batch belongs to the run; outside of a parallel batch no call is begun
\* before the last one is settled.
BatchOfRun ==
  /\ pc = "idle" <=> ~active
  /\ pc \in Between => batch = NoBatch
  /\ pc = "join" => batch.kind = "parallel"
  /\ \A c \in Calls : owner[c] <= run
  /\ \A i \in 1 .. Len(batch.calls) : owner[batch.calls[i]] = run
  /\ \A i \in 1 .. batch.count :
       \/ batch.kind = "parallel" \/ stage[batch.calls[i]] = "settled"
       \/ i = batch.count /\ pc \in {"prepare", "await", "failing"}
  /\ pc = "batchEnd" => \A i \in 1 .. batch.count : stage[batch.calls[i]] = "settled"

\* The events of a call are those of the current one, and agent_end is the last.
Heralds(o, at) ==
  /\ at = "prepare" =>
       /\ stage[Current] = "started"
       /\ o # <<>> => o = <<ToolEvent("tool_execution_start", Current)>>
  /\ \A i \in 1 .. Len(o) :
       /\ o[i].type = "tool_execution_start" => at = "prepare"
       /\ o[i].type = "tool_execution_end" =>
            at = "next" /\ i = 1 /\ o[i].call = Current /\ stage[Current] = "settled"
       /\ o[i].type = "agent_end" => i = Len(o) /\ at \in {"end", "failing"}

\* What the pending calls are, unless reset() has torn the run.
PendingOfRun ==
  active /\ ~torn =>
    /\ \A c \in pendingToolCalls : c \in Calls /\ owner[c] = run /\ stage[c] # "ending"
    /\ \A c \in Calls : owner[c] = run /\ stage[c] \in {"prepared", "executing", "returned"}
                         => c \in pendingToolCalls
    /\ pc = "prepare" /\ out = <<>> => Current \in pendingToolCalls
    /\ pc # "failing" =>
         \A c \in pendingToolCalls : c \in BegunSet /\ (stage[c] = "settled" => Ended(c))

\* While nothing has thrown, the tools that are under way are in the batch, and
\* nobody has heard of the run after its end.
Healthy ==
  faults = 0 =>
    /\ pc # "failing" /\ badUpdate = {}
    /\ \A c \in Calls : stage[c] # "rejected"
    /\ \A c \in Calls : stage[c] \notin {"unused", "requested", "settled"} => c \in BegunSet
    /\ ended \subseteq 0 .. run /\ last.run <= run
    /\ run \in ended => pc = "idle" \/ (pc = "end" /\ out = <<>>)
    /\ last.run \in ended => last.type = "agent_end"

Tools == BatchOfRun /\ Heralds(out, pc) /\ PendingOfRun /\ Healthy

\* Events that neither start nor end anything.
Silent(o) ==
  \A i \in 1 .. Len(o) :
    o[i].type \notin {"tool_execution_start", "tool_execution_end", "agent_end"}

LEMMA SilentConcat ==
  ASSUME NEW a \in Seq(EventSet), NEW b \in Seq(EventSet), Silent(a), Silent(b)
  PROVE  Silent(a \o b)
  <1>1. SUFFICES ASSUME NEW i \in 1 .. Len(a) + Len(b)
                 PROVE  (a \o b)[i].type \notin
                          {"tool_execution_start", "tool_execution_end", "agent_end"}
    BY ConcatProperties DEF Silent
  <1>2. Len(a) \in Nat /\ Len(b) \in Nat
    BY LenProperties
  <1>3. CASE i <= Len(a)
    BY <1>2, <1>3, ConcatProperties DEF Silent
  <1>4. CASE i > Len(a)
    <2>1. i - Len(a) \in 1 .. Len(b) /\ (a \o b)[i] = b[i - Len(a)]
      BY <1>2, <1>4, ConcatProperties
    <2> QED
      BY <2>1 DEF Silent
  <1> QED
    BY <1>2, <1>3, <1>4

LEMMA SilentAnnounce ==
  ASSUME NEW s \in Seq(MessageSet)
  PROVE  Announce(s) \in Seq(EventSet) /\ Silent(Announce(s))
  <1>1. Len(s) \in Nat
    BY LenProperties
  <1>2. Len(Announce(s)) = 2 * Len(s)
    BY <1>1 DEF Announce
  <1>3. \A i \in 1 .. 2 * Len(s) : Announce(s)[i].type \in {"message_start", "message_end"}
    BY DEF Announce, MessageEvent
  <1> QED
    BY <1>2, <1>3, AnnounceType DEF Silent

LEMMA SilentHeralds == \A o, at : Silent(o) /\ at # "prepare" => Heralds(o, at)
  BY DEF Silent, Heralds

LEMMA BatchBounds ==
  ASSUME Sound
  PROVE  /\ Len(batch.calls) \in Nat /\ batch.count \in 0 .. Len(batch.calls)
         /\ \A i \in 1 .. batch.count : batch.calls[i] \in Calls
         /\ batch = NoBatch => BegunSet = {} /\ Len(batch.calls) = 0 /\ batch.count = 0
  <1>1. NoBatch.count = 0 /\ Len(NoBatch.calls) = 0
    BY DEF NoBatch
  <1> QED
    BY <1>1, BatchFacts DEF BegunSet

LEMMA ToolsInit == Init => Tools
  <1> SUFFICES ASSUME Init PROVE Tools
    OBVIOUS
  <1>1. NoBatch.count = 0 /\ Len(NoBatch.calls) = 0
    BY DEF NoBatch
  <1>2. BatchOfRun
    BY <1>1 DEF Init, CallsInit, BatchOfRun, Between
  <1>3. Heralds(out, pc)
    BY DEF Init, Heralds
  <1>4. PendingOfRun /\ Healthy
    BY DEF Init, CallsInit, PendingOfRun, Healthy
  <1> QED
    BY <1>2, <1>3, <1>4 DEF Tools

\* The steps of the loop between two batches.
LEMMA BetweenTools ==
  ASSUME Sound, Tools, out = <<>>, pc \in Between \ {"idle", "end"}, pc' \in Between \ {"idle"},
         UNCHANGED <<active, run, pendingToolCalls, torn, faults, ended, last, batch, callVars>>,
         Heralds(out, pc)'
  PROVE  Tools'
  <1>1. batch = NoBatch /\ BegunSet = {} /\ batch.count = 0
    BY BatchBounds DEF Tools, BatchOfRun
  <1>2. BatchOfRun'
    BY <1>1 DEF Tools, BatchOfRun, Between, callVars
  <1>3. PendingOfRun'
    <2>1. active /\ ~torn => pendingToolCalls = {}
      BY <1>1 DEF Tools, PendingOfRun, Between
    <2> QED
      BY <2>1, <1>1 DEF Tools, PendingOfRun, callVars, Between
  <1>4. Healthy'
    BY <1>1 DEF Tools, Healthy, BegunSet, callVars, Between
  <1> QED
    BY <1>2, <1>3, <1>4 DEF Tools

LEMMA TurnTools ==
  ASSUME Sound, Tools,
         PollSteering \/ StartTurn \/ PollFollowUps \/ StopAfterTurn \/ StreamStart
  PROVE  Tools'
  <1>1. /\ out = <<>> /\ pc \in Between \ {"idle", "end"} /\ pc' \in Between \ {"idle"}
        /\ UNCHANGED <<active, run, pendingToolCalls, torn, faults, ended, last, batch, callVars>>
    BY DEF PollSteering, StartTurn, PollFollowUps, StopAfterTurn, StreamStart, Between,
           classVars, histVars, lossVars, eventVars
  <1>2. Heralds(out', pc')
    <2>1. CASE PollSteering
      BY <2>1, <1>1 DEF PollSteering, Heralds, Between
    <2>2. CASE StartTurn
      <3>1. Announce(pending) \in Seq(EventSet) /\ Silent(Announce(pending))
        BY SilentAnnounce, UsersAreMessages DEF Sound, LoopTypes
      <3>2. <<Event("turn_start")>> \in Seq(EventSet) /\ Silent(<<Event("turn_start")>>)
        BY EventTypesOf, SingleSeq DEF EventTypes, Silent, Event
      <3>3. <<>> \in Seq(EventSet) /\ Silent(<<>>)
        BY EmptySeq DEF Silent
      <3>4. Silent(out')
        BY <2>2, <3>1, <3>2, <3>3, SilentConcat DEF StartTurn
      <3> QED
        BY <1>1, <3>4, SilentHeralds DEF Between
    <2>3. CASE PollFollowUps
      <3>1. out' = <<>> \/ (out' = <<Event("agent_end")>> /\ pc' = "end")
        BY <2>3, <1>1 DEF PollFollowUps
      <3>2. CASE out' = <<>>
        BY <1>1, <3>2 DEF Heralds, Between
      <3>3. CASE out' = <<Event("agent_end")>> /\ pc' = "end"
        BY <3>3 DEF Heralds, Event
      <3> QED
        BY <3>1, <3>2, <3>3
    <2>4. CASE StopAfterTurn
      BY <2>4 DEF StopAfterTurn, Heralds, Event
    <2>5. CASE StreamStart
      BY <2>5 DEF StreamStart, Heralds, MessageEvent
    <2> QED
      BY <2>1, <2>2, <2>3, <2>4, <2>5
  <1>3. Heralds(out, pc)'
    BY <1>1, <1>2 DEF Heralds, Current, callVars, Between
  <1> QED
    BY <1>1, <1>3, BetweenTools

\* What the application does in the middle of a run.
LEMMA ApplicationTools ==
  ASSUME Sound, Tools, IdleIsClean,
         \/ Steer \/ FollowUp \/ ClearSteeringQueue \/ ClearFollowUpQueue \/ SetMode \/ Abort
         \/ Reset
  PROVE  Tools'
  <1>1. UNCHANGED <<active, run, faults, ended, last, loopVars, callVars>>
    BY DEF Steer, FollowUp, ClearSteeringQueue, ClearFollowUpQueue, SetMode, Abort, Reset,
           classVars, histVars, eventVars
  <1>2. UNCHANGED <<pendingToolCalls, torn>> \/ (pendingToolCalls' = {} /\ torn' = active)
    BY DEF Steer, FollowUp, ClearSteeringQueue, ClearFollowUpQueue, SetMode, Abort, Reset,
           classVars, histVars, lossVars
  <1>3. BatchOfRun' /\ Heralds(out, pc)' /\ Healthy'
    BY <1>1 DEF Tools, BatchOfRun, Heralds, Current, Healthy, BegunSet, loopVars, callVars
  <1>4. PendingOfRun'
    BY <1>1, <1>2 DEF Tools, PendingOfRun, BegunSet, Current, Ended, loopVars, callVars
  <1> QED
    BY <1>3, <1>4 DEF Tools

LEMMA StartRunTools ==
  ASSUME Sound, Tools, IdleIsClean, NEW msgs \in Seq(UserSet), NEW skip, StartRun(msgs, skip)
  PROVE  Tools'
  <1>1. /\ ~active /\ active' /\ run' = run + 1 /\ pc' = "poll" /\ batch' = NoBatch
        /\ UNCHANGED <<pendingToolCalls, torn, faults, ended, last, callVars>>
    BY DEF StartRun, lossVars, eventVars
  <1>2. run \in Nat /\ owner \in [Calls -> Nat]
    BY DEF Sound, ClassTypes, CallsTypeOK
  <1>3. pendingToolCalls = {} /\ pc = "idle" /\ batch = NoBatch
    BY <1>1 DEF IdleIsClean, Tools, BatchOfRun, Between
  <1>4. NoBatch.count = 0 /\ Len(NoBatch.calls) = 0
    BY DEF NoBatch
  <1>5. BatchOfRun'
    BY <1>1, <1>2, <1>4 DEF Tools, BatchOfRun, Between, callVars
  <1>6. Heralds(out, pc)'
    <2> DEFINE start == <<Event("agent_start"), Event("turn_start")>>
    <2>1. start \in Seq(EventSet) /\ Silent(start)
      <3>1. Event("agent_start") \in EventSet /\ Event("turn_start") \in EventSet
        BY EventTypesOf DEF EventTypes
      <3>2. start \in Seq(EventSet)
        BY <3>1
      <3> QED
        BY <3>2 DEF Silent, Event
    <2>2. Announce(msgs) \in Seq(EventSet) /\ Silent(Announce(msgs))
      BY SilentAnnounce, UsersAreMessages
    <2>3. out' = start \o Announce(msgs)
      BY DEF StartRun
    <2> HIDE DEF start
    <2>4. Silent(out')
      BY <2>1, <2>2, <2>3, SilentConcat
    <2> QED
      BY <1>1, <2>4 DEF Silent, Heralds
  <1>7. PendingOfRun'
    <2>1. \A c \in Calls : owner[c] # run + 1
      BY <1>2 DEF Tools, BatchOfRun
    <2> QED
      BY <1>1, <1>3, <2>1 DEF PendingOfRun, callVars
  <1>8. Healthy'
    <2>1. ended \subseteq 0 .. run /\ faults = 0 => run + 1 \notin ended
      BY <1>2
    <2>2. last.run \in Nat
      BY DEF Sound, HistTypes
    <2> QED
      BY <1>1, <1>2, <1>3, <2>1, <2>2, <1>4 DEF Tools, Healthy, BegunSet, callVars
  <1> QED
    BY <1>5, <1>6, <1>7, <1>8 DEF Tools

LEMMA FinishRunTools ==
  ASSUME Sound, Tools, FinishRun
  PROVE  Tools'
  <1>1. NoBatch.count = 0 /\ Len(NoBatch.calls) = 0
    BY DEF NoBatch
  <1>2. /\ pc \in {"end", "failing"} /\ out = <<>> /\ ~active' /\ pc' = "idle" /\ batch' = NoBatch
        /\ pendingToolCalls' = {} /\ out' = <<>>
        /\ UNCHANGED <<run, torn, faults, ended, last, callVars>>
    BY DEF FinishRun, histVars, lossVars, eventVars
  <1>3. BatchOfRun' /\ Heralds(out, pc)' /\ PendingOfRun'
    BY <1>1, <1>2 DEF Tools, BatchOfRun, Heralds, PendingOfRun, Between, callVars
  <1>4. Healthy'
    <2>1. faults = 0 => pc = "end" /\ batch = NoBatch
      BY <1>2 DEF Tools, Healthy, BatchOfRun, Between
    <2> QED
      BY <1>1, <1>2, <2>1 DEF Tools, Healthy, BegunSet, callVars
  <1> QED
    BY <1>3, <1>4 DEF Tools

\* What throws, and what is reported of it.
LEMMA FaultTools ==
  ASSUME Sound, Tools, LoopFault \/ BatchFault \/ ReportFault
  PROVE  Tools'
  <1>1. CASE LoopFault \/ BatchFault
    <2>1. /\ Fail /\ pc # "idle"
          /\ faults' = faults + 1 \/ (faults' = faults /\ pc \in {"await", "join"}
                                      /\ \E c \in BegunSet : stage[c] = "rejected")
      BY <1>1 DEF LoopFault, BatchFault
    <2>2. /\ pc' = "failing"
          /\ UNCHANGED <<active, run, pendingToolCalls, torn, ended, last, batch, callVars>>
      BY <2>1 DEF Fail, classVars, eventVars
    <2>3. BegunSet \subseteq Calls /\ faults \in Nat
      BY BatchFacts DEF Sound, HistTypes
    <2>4. faults' # 0
      BY <2>1, <2>3 DEF Tools, Healthy
    <2>5. Healthy'
      BY <2>4 DEF Healthy
    <2>6. BatchOfRun' /\ PendingOfRun'
      BY <2>1, <2>2 DEF Tools, BatchOfRun, PendingOfRun, Between, callVars
    <2>7. Heralds(out, pc)'
      <3> DEFINE m == Assistant(IF aborted THEN "aborted" ELSE "error", <<>>)
      <3>1. out' = <<MessageEvent("message_start", m), MessageEvent("message_end", m),
                     MessageEvent("turn_end", m), Event("agent_end")>>
        BY <2>1 DEF Fail
      <3> HIDE DEF m
      <3> QED
        BY <2>2, <3>1 DEF Heralds, MessageEvent, Event
    <2> QED
      BY <2>5, <2>6, <2>7 DEF Tools
  <1>2. CASE ReportFault
    <2>1. /\ pc = "failing" /\ pc' = "failing" /\ out' = <<>> /\ faults' = faults + 1
          /\ UNCHANGED <<active, run, pendingToolCalls, torn, ended, last, batch, callVars>>
      BY <1>2 DEF ReportFault, classVars, lossVars, eventVars
    <2>2. faults' # 0
      BY <2>1 DEF Sound, HistTypes
    <2> QED
      BY <2>1, <2>2 DEF Tools, BatchOfRun, Heralds, PendingOfRun, Healthy, callVars
  <1> QED
    BY <1>1, <1>2

LEMMA EmitTools ==
  ASSUME Sound, Tools, IdleIsClean, Emit
  PROVE  Tools'
  <1> DEFINE e == Head(out)
  <1>1. out \in Seq(EventSet) /\ out # <<>> /\ active
    BY DEF Emit, Sound, LoopTypes, IdleIsClean
  <1>2. /\ Len(out) \in Nat \ {0} /\ e = out[1] /\ e \in EventSet /\ out' = Tail(out)
        /\ Len(Tail(out)) = Len(out) - 1
        /\ \A i \in 1 .. Len(Tail(out)) : Tail(out)[i] = out[i + 1] /\ i + 1 \in 1 .. Len(out)
    BY <1>1, EmptySeq, HeadTailProperties DEF Emit
  <1>3. /\ UNCHANGED <<active, run, pc, batch, torn, faults, callVars>>
        /\ pendingToolCalls' = (CASE e.type = "tool_execution_start" -> pendingToolCalls \union {e.call}
                                 [] e.type = "tool_execution_end" -> pendingToolCalls \ {e.call}
                                 [] OTHER -> pendingToolCalls)
        /\ last' = [type |-> e.type, run |-> run]
        /\ ended' = IF e.type = "agent_end" THEN ended \union {run} ELSE ended
    BY <1>1 DEF Emit, Reduce, Listen, lossVars
  <1>4. Heralds(out, pc)
    BY DEF Tools
  <1>9. 1 \in 1 .. Len(out)
    BY <1>2
  <1>10. /\ e.type = "tool_execution_start" => pc = "prepare"
         /\ e.type = "tool_execution_end" =>
              pc = "next" /\ e.call = Current /\ stage[Current] = "settled"
         /\ e.type = "agent_end" => 1 = Len(out) /\ pc \in {"end", "failing"}
         /\ pc = "prepare" => e.type = "tool_execution_start" /\ e.call = Current
                               /\ stage[Current] = "started"
    <2>1. e = out[1]
      BY <1>2
    <2> HIDE DEF e
    <2>2. pc = "prepare" => e.type = "tool_execution_start" /\ e.call = Current
                            /\ stage[Current] = "started"
      <3>1. SUFFICES ASSUME pc = "prepare"
                     PROVE  /\ e.type = "tool_execution_start" /\ e.call = Current
                            /\ stage[Current] = "started"
        OBVIOUS
      <3>2. out = <<ToolEvent("tool_execution_start", Current)>> /\ stage[Current] = "started"
        BY <1>1, <1>4, <3>1 DEF Heralds
      <3>3. e = ToolEvent("tool_execution_start", Current)
        BY <2>1, <3>2
      <3> QED
        BY <3>2, <3>3 DEF ToolEvent
    <2> QED
      BY <1>4, <1>9, <2>1, <2>2 DEF Heralds
  <1>5. BatchOfRun'
    BY <1>3 DEF Tools, BatchOfRun, callVars
  <1>6. Heralds(out, pc)'
    <2>0. UNCHANGED <<stage, Current>>
      BY <1>3 DEF Current, callVars
    <2>1. CASE pc = "prepare"
      <3>1. out = <<ToolEvent("tool_execution_start", Current)>>
        BY <1>1, <1>4, <2>1 DEF Heralds
      <3>2. Len(out) = 1
        BY <3>1
      <3>3. Tail(out) = <<>>
        BY <1>1, <1>2, <3>2, HeadTailProperties, EmptySeq
      <3>4. stage[Current] = "started"
        BY <1>4, <2>1 DEF Heralds
      <3>5. out' = <<>> /\ Len(<<>>) = 0 /\ pc' = pc
        BY <1>2, <1>3, <3>3
      <3>6. stage'[Current'] = "started"
        BY <2>0, <3>4
      <3> HIDE DEF e
      <3> QED
        BY <2>1, <3>5, <3>6 DEF Heralds
    <2>2. CASE pc # "prepare"
      <3>1. ASSUME NEW i \in 1 .. Len(Tail(out))
            PROVE  /\ Tail(out)[i].type \notin {"tool_execution_start", "tool_execution_end"}
                   /\ Tail(out)[i].type = "agent_end" =>
                        i = Len(Tail(out)) /\ pc \in {"end", "failing"}
        <4>1. Tail(out)[i] = out[i + 1] /\ i + 1 \in 1 .. Len(out) /\ i + 1 # 1
          BY <1>2
        <4>2. out[i + 1].type = "agent_end" => i + 1 = Len(out) /\ pc \in {"end", "failing"}
          BY <1>4, <4>1 DEF Heralds
        <4>3. out[i + 1].type \notin {"tool_execution_start", "tool_execution_end"}
          BY <1>4, <2>2, <4>1 DEF Heralds
        <4> QED
          <5> DEFINE t == Tail(out)[i]
          <5>a. t = out[i + 1]
            BY ONLY <4>1
          <5>b. Len(out) \in Nat /\ Len(Tail(out)) = Len(out) - 1 /\ i \in Nat
            BY <1>2
          <5>1. t = out[i + 1] /\ (i + 1 = Len(out) => i = Len(Tail(out)))
            BY ONLY <5>a, <5>b
          <5> HIDE DEF e, t
          <5>2. /\ t.type \notin {"tool_execution_start", "tool_execution_end"}
                /\ t.type = "agent_end" => i = Len(Tail(out)) /\ pc \in {"end", "failing"}
            BY <4>2, <4>3, <5>1
          <5> QED
            BY <5>2 DEF t
      <3> QED
        BY <1>2, <1>3, <2>2, <3>1 DEF Heralds
    <2> QED
      BY <2>1, <2>2
  <1> HIDE DEF e
  <1>7. PendingOfRun'
    <2> SUFFICES ASSUME active, ~torn PROVE PendingOfRun'
      BY <1>1, <1>3 DEF PendingOfRun
    <2>0. PendingOfRun
      BY DEF Tools
    <2>1. CASE e.type = "tool_execution_start"
      <3>1. /\ pc = "prepare" /\ e.call = Current /\ stage[Current] = "started"
        BY <1>10, <2>1
      <3>2. /\ Current \in BegunSet /\ owner[Current] = run /\ Current \in Calls
        <4>1. batch.count \in 1 .. Len(batch.calls)
          BY <3>1, BatchFacts DEF Sound, BatchInBounds
        <4> QED
          BY <3>1, <4>1, BatchFacts DEF Tools, BatchOfRun, Current, BegunSet
      <3>3. pendingToolCalls' = pendingToolCalls \union {Current}
        BY <1>3, <2>1, <3>1
      <3>4. UNCHANGED <<BegunSet, Current>> /\ ~Ended(Current)
        BY <1>2, <1>3, <2>1 DEF BegunSet, Current, Ended, ToolEvent
      <3>5. \A c \in pendingToolCalls : ~Ended(c)
        BY <1>2, <2>1 DEF Ended, ToolEvent
      <3> QED
        BY <1>3, <2>0, <3>1, <3>2, <3>3, <3>4, <3>5 DEF PendingOfRun, callVars
    <2>2. CASE e.type = "tool_execution_end"
      <3>1. /\ pc = "next" /\ e.call = Current /\ stage[Current] = "settled"
        BY <1>10, <2>2
      <3>2. pendingToolCalls' = pendingToolCalls \ {Current}
        BY <1>3, <2>2, <3>1
      <3>3. \A c : Ended(c) => c = Current
        BY <1>2, <3>1 DEF Ended, ToolEvent
      <3>4. UNCHANGED <<BegunSet, Current>>
        BY <1>3 DEF BegunSet, Current
      <3>5. \A c \in pendingToolCalls' : stage[c] # "settled"
        BY <2>0, <3>1, <3>2, <3>3 DEF PendingOfRun
      <3> QED
        BY <1>3, <2>0, <3>1, <3>2, <3>4, <3>5 DEF PendingOfRun, callVars
    <2>3. CASE e.type \notin {"tool_execution_start", "tool_execution_end"}
      <3>1. pendingToolCalls' = pendingToolCalls /\ \A c : ~Ended(c)
        BY <1>2, <1>3, <2>3 DEF Ended, ToolEvent
      <3>2. UNCHANGED <<BegunSet, Current>>
        BY <1>3 DEF BegunSet, Current
      <3>3. pc = "prepare" => Current \in pendingToolCalls
        <4>1. pc # "prepare"
          BY <1>10, <2>3
        <4> QED
          BY <4>1
      <3> QED
        BY <1>3, <2>0, <3>1, <3>2, <3>3 DEF PendingOfRun, callVars
    <2> QED
      BY <2>1, <2>2, <2>3
  <1>8. Healthy'
    <2>1. faults = 0 => run \notin ended
      BY <1>1 DEF Tools, Healthy, BatchOfRun
    <2>2. e.type = "agent_end" => out' = <<>> /\ pc \in {"end", "failing"}
      <3>1. e.type = "agent_end" => Len(out) = 1 /\ pc \in {"end", "failing"}
        BY <1>10
      <3>2. Len(out) = 1 => Tail(out) = <<>>
        BY <1>1, <1>2, HeadTailProperties, EmptySeq
      <3> QED
        BY <1>2, <3>1, <3>2
    <2>3. run \in Nat
      BY DEF Sound, ClassTypes
    <2> QED
      BY <1>3, <2>1, <2>2, <2>3 DEF Tools, Healthy, BegunSet, callVars
  <1> QED
    BY <1>5, <1>6, <1>7, <1>8 DEF Tools

LEMMA Join ==
  ASSUME NEW S, NEW s \in Seq(S), NEW t \in Seq(S), NEW u \in Seq(S),
         Len(u) = Len(s) + Len(t),
         \A i \in 1 .. Len(s) : u[i] = s[i],
         \A i \in 1 .. Len(t) : u[Len(s) + i] = t[i]
  PROVE  s \o t = u
  <1>1. s \o t \in Seq(S) /\ Len(s \o t) = Len(u) /\ Len(s) \in Nat /\ Len(t) \in Nat
    BY ConcatProperties
  <1>2. ASSUME NEW i \in 1 .. Len(s \o t) PROVE (s \o t)[i] = u[i]
    <2>1. (s \o t)[i] = IF i <= Len(s) THEN s[i] ELSE t[i - Len(s)]
      BY <1>1, ConcatProperties
    <2>2. CASE i <= Len(s)
      BY <1>1, <2>1, <2>2
    <2>3. CASE i > Len(s)
      <3>1. i - Len(s) \in 1 .. Len(t) /\ Len(s) + (i - Len(s)) = i
        BY <1>1, <2>3
      <3> QED
        BY <1>1, <2>1, <2>3, <3>1
    <2> QED
      BY <1>1, <2>2, <2>3
  <1> QED
    BY <1>1, <1>2, SeqEqual

\* Joining literal sequences.
LEMMA Join01 ==
  ASSUME NEW a
  PROVE  <<>> \o <<a>> = <<a>>
  <1> DEFINE S == {a}
             s == <<>>
             t == <<a>>
             u == <<a>>
  <1>1. Len(u) = Len(s) + Len(t)
    OBVIOUS
  <1>2. \A i \in 1 .. Len(s) : u[i] = s[i]
    OBVIOUS
  <1>3. \A i \in 1 .. Len(t) : u[Len(s) + i] = t[i]
    OBVIOUS
  <1>4. s \in Seq(S) /\ t \in Seq(S) /\ u \in Seq(S)
    OBVIOUS
  <1> HIDE DEF S, s, t, u
  <1>5. s \o t = u
    BY ONLY <1>1, <1>2, <1>3, <1>4, Join
  <1> QED
    BY ONLY <1>5 DEF s, t, u

LEMMA Join11 ==
  ASSUME NEW a, NEW b
  PROVE  <<a>> \o <<b>> = <<a, b>>
  <1> DEFINE S == {a, b}
             s == <<a>>
             t == <<b>>
             u == <<a, b>>
  <1>1. Len(u) = Len(s) + Len(t)
    OBVIOUS
  <1>2. \A i \in 1 .. Len(s) : u[i] = s[i]
    OBVIOUS
  <1>3. \A i \in 1 .. Len(t) : u[Len(s) + i] = t[i]
    OBVIOUS
  <1>4. s \in Seq(S) /\ t \in Seq(S) /\ u \in Seq(S)
    OBVIOUS
  <1> HIDE DEF S, s, t, u
  <1>5. s \o t = u
    BY ONLY <1>1, <1>2, <1>3, <1>4, Join
  <1> QED
    BY ONLY <1>5 DEF s, t, u

LEMMA Join21 ==
  ASSUME NEW a, NEW b, NEW c
  PROVE  <<a, b>> \o <<c>> = <<a, b, c>>
  <1> DEFINE S == {a, b, c}
             s == <<a, b>>
             t == <<c>>
             u == <<a, b, c>>
  <1>1. Len(u) = Len(s) + Len(t)
    OBVIOUS
  <1>2. \A i \in 1 .. Len(s) : u[i] = s[i]
    OBVIOUS
  <1>3. \A i \in 1 .. Len(t) : u[Len(s) + i] = t[i]
    OBVIOUS
  <1>4. s \in Seq(S) /\ t \in Seq(S) /\ u \in Seq(S)
    OBVIOUS
  <1> HIDE DEF S, s, t, u
  <1>5. s \o t = u
    BY ONLY <1>1, <1>2, <1>3, <1>4, Join
  <1> QED
    BY ONLY <1>5 DEF s, t, u

LEMMA Join12 ==
  ASSUME NEW a, NEW b, NEW c
  PROVE  <<a>> \o <<b, c>> = <<a, b, c>>
  <1> DEFINE S == {a, b, c}
             s == <<a>>
             t == <<b, c>>
             u == <<a, b, c>>
  <1>1. Len(u) = Len(s) + Len(t)
    OBVIOUS
  <1>2. \A i \in 1 .. Len(s) : u[i] = s[i]
    OBVIOUS
  <1>3. \A i \in 1 .. Len(t) : u[Len(s) + i] = t[i]
    OBVIOUS
  <1>4. s \in Seq(S) /\ t \in Seq(S) /\ u \in Seq(S)
    OBVIOUS
  <1> HIDE DEF S, s, t, u
  <1>5. s \o t = u
    BY ONLY <1>1, <1>2, <1>3, <1>4, Join
  <1> QED
    BY ONLY <1>5 DEF s, t, u

LEMMA Join22 ==
  ASSUME NEW a, NEW b, NEW c, NEW d
  PROVE  <<a, b>> \o <<c, d>> = <<a, b, c, d>>
  <1> DEFINE S == {a, b, c, d}
             s == <<a, b>>
             t == <<c, d>>
             u == <<a, b, c, d>>
  <1>1. Len(u) = Len(s) + Len(t)
    OBVIOUS
  <1>2. \A i \in 1 .. Len(s) : u[i] = s[i]
    OBVIOUS
  <1>3. \A i \in 1 .. Len(t) : u[Len(s) + i] = t[i]
    OBVIOUS
  <1>4. s \in Seq(S) /\ t \in Seq(S) /\ u \in Seq(S)
    OBVIOUS
  <1> HIDE DEF S, s, t, u
  <1>5. s \o t = u
    BY ONLY <1>1, <1>2, <1>3, <1>4, Join
  <1> QED
    BY ONLY <1>5 DEF s, t, u

\* What a provider's answer makes the loop say.
LEMMA AnswerEvents ==
  ASSUME NEW stop \in Stops, NEW k \in 0 .. MaxCallsPerTurn, Respond(stop, k)
  PROVE  LET m     == Assistant(stop, NextCalls(k))
             begin == MessageEvent("message_start", m)
             end   == MessageEvent("message_end", m)
             turn  == MessageEvent("turn_end", m)
             over  == Event("agent_end")
         IN \/ stop \in Failed /\ pc' = "end" /\ batch' = batch /\ hasMore' = hasMore
               /\ out' = IF pc = "streaming" THEN <<end, turn, over>> ELSE <<begin, end, turn, over>>
            \/ stop \notin Failed /\ k = 0 /\ pc' = "turnEnd" /\ batch' = batch /\ hasMore' = FALSE
               /\ out' = IF pc = "streaming" THEN <<end, turn>> ELSE <<begin, end, turn>>
            \/ /\ stop \notin Failed /\ k # 0 /\ pc' = "batch" /\ hasMore' = hasMore
               /\ out' = IF pc = "streaming" THEN <<end>> ELSE <<begin, end>>
               /\ \E kind \in BatchKinds(stop) :
                    batch' = [calls |-> NextCalls(k), kind |-> kind, count |-> 0, cut |-> FALSE]
  <1> DEFINE m     == Assistant(stop, NextCalls(k))
             begin == MessageEvent("message_start", m)
             end   == MessageEvent("message_end", m)
             turn  == MessageEvent("turn_end", m)
             over  == Event("agent_end")
             said  == (IF pc = "streaming" THEN <<>> ELSE <<begin>>) \o <<end>>
  <1>1. \/ stop \in Failed /\ pc' = "end" /\ batch' = batch /\ hasMore' = hasMore
           /\ out' = said \o <<turn, over>>
        \/ stop \notin Failed /\ k = 0 /\ pc' = "turnEnd" /\ batch' = batch /\ hasMore' = FALSE
           /\ out' = said \o <<turn>>
        \/ /\ stop \notin Failed /\ k # 0 /\ pc' = "batch" /\ hasMore' = hasMore
           /\ out' = said
           /\ \E kind \in BatchKinds(stop) :
                batch' = [calls |-> NextCalls(k), kind |-> kind, count |-> 0, cut |-> FALSE]
    BY DEF Respond
  <1> HIDE DEF m, begin, end, turn, over
  <1>2. /\ said = IF pc = "streaming" THEN <<end>> ELSE <<begin, end>>
        /\ said \o <<turn>> = IF pc = "streaming" THEN <<end, turn>> ELSE <<begin, end, turn>>
        /\ said \o <<turn, over>> = IF pc = "streaming" THEN <<end, turn, over>>
                                    ELSE <<begin, end, turn, over>>
    <2>1. CASE pc = "streaming"
      <3>1. said = <<end>>
        BY <2>1, Join01
      <3>a. <<end>> \o <<turn>> = <<end, turn>>
        BY Join11
      <3>b. <<end>> \o <<turn, over>> = <<end, turn, over>>
        BY Join12
      <3> HIDE DEF said
      <3>2. said \o <<turn>> = <<end, turn>>
        BY <3>1, <3>a
      <3>3. said \o <<turn, over>> = <<end, turn, over>>
        BY <3>1, <3>b
      <3> QED
        BY <2>1, <3>1, <3>2, <3>3
    <2>2. CASE pc # "streaming"
      <3>1. said = <<begin, end>>
        BY <2>2, Join11
      <3>a. <<begin, end>> \o <<turn>> = <<begin, end, turn>>
        BY Join21
      <3>b. <<begin, end>> \o <<turn, over>> = <<begin, end, turn, over>>
        BY Join22
      <3> HIDE DEF said
      <3>2. said \o <<turn>> = <<begin, end, turn>>
        BY <3>1, <3>a
      <3>3. said \o <<turn, over>> = <<begin, end, turn, over>>
        BY <3>1, <3>b
      <3> QED
        BY <2>2, <3>1, <3>2, <3>3
    <2> QED
      BY <2>1, <2>2
  <1> QED
    BY <1>1, <1>2 DEF m, begin, end, turn, over, said

LEMMA RespondTools ==
  ASSUME Sound, Tools,
         NEW stop \in Stops, NEW k \in 0 .. MaxCallsPerTurn, Respond(stop, k)
  PROVE  Tools'
  <1>1. /\ pc \in {"request", "streaming"} /\ pc' \in {"end", "turnEnd", "batch"}
        /\ batch = NoBatch /\ BegunSet = {} /\ batch.count = 0 /\ out = <<>>
        /\ Len(batch.calls) = 0
        /\ UNCHANGED <<active, run, pendingToolCalls, torn, faults, ended, last>>
        /\ outcome' = outcome /\ badUpdate' = badUpdate
    BY BatchBounds DEF Respond, Tools, BatchOfRun, Between, classVars, histVars, lossVars,
                       eventVars, Request
  <1>2. \A c \in Calls : \/ stage'[c] = stage[c] /\ owner'[c] = owner[c]
                         \/ stage'[c] = "requested" /\ owner'[c] = run
    BY DEF Respond, Request
  <1>3. k \in Nat /\ Issued \in Nat /\ run \in Nat
    BY AgentAssumption, IssuedType DEF Sound, ClassTypes
  <1>4. \A i \in 1 .. k : NextCalls(k)[i] \in Calls /\ owner'[NextCalls(k)[i]] = run
    <2>1. SUFFICES ASSUME NEW i \in 1 .. k
                   PROVE  NextCalls(k)[i] \in Calls /\ owner'[NextCalls(k)[i]] = run
      OBVIOUS
    <2>2. NextCalls(k)[i] = Issued + i
      BY <1>3 DEF NextCalls
    <2>3. Issued + i \in Calls
      BY <1>3, MaxCallsAssumption DEF Respond, Calls
    <2> QED
      BY <1>3, <2>2, <2>3 DEF Respond, Request
  <1>5. \/ batch' = batch
        \/ /\ pc' = "batch" /\ batch'.calls = NextCalls(k) /\ batch'.count = 0
    BY DEF Respond
  <1>6. pc' \in Between => batch' = batch
    BY DEF Respond, Between
  <1>7. BatchOfRun'
    <2>1. \A i \in 1 .. Len(batch'.calls) : owner'[batch'.calls[i]] = run
      <3>1. Len(NextCalls(k)) = k
        BY <1>3 DEF NextCalls
      <3> QED
        BY <1>1, <1>4, <1>5, <3>1
    <2>2. batch'.count = 0
      BY <1>1, <1>5
    <2> QED
      BY <1>1, <1>2, <1>3, <1>6, <2>1, <2>2 DEF Tools, BatchOfRun, Between
  <1>8. Heralds(out, pc)'
    <2> DEFINE m     == Assistant(stop, NextCalls(k))
               begin == MessageEvent("message_start", m)
               end   == MessageEvent("message_end", m)
               turn  == MessageEvent("turn_end", m)
               over  == Event("agent_end")
    <2>1. \/ pc' = "end" /\ out' = <<end, turn, over>>
          \/ pc' = "end" /\ out' = <<begin, end, turn, over>>
          \/ out' = <<end, turn>> \/ out' = <<begin, end, turn>>
          \/ out' = <<end>> \/ out' = <<begin, end>>
      BY AnswerEvents
    <2>2. /\ begin.type = "message_start" /\ end.type = "message_end"
          /\ turn.type = "turn_end" /\ over.type = "agent_end"
      BY DEF MessageEvent, Event
    <2> HIDE DEF begin, end, turn, over, m
    <2>3. pc' # "prepare" /\ pc' # "next"
      BY <1>1
    <2>4. CASE pc' = "end" /\ out' = <<end, turn, over>>
      BY <2>2, <2>3, <2>4 DEF Heralds
    <2>5. CASE pc' = "end" /\ out' = <<begin, end, turn, over>>
      BY <2>2, <2>3, <2>5 DEF Heralds
    <2>6. CASE out' = <<end, turn>>
      BY <2>2, <2>3, <2>6 DEF Heralds
    <2>7. CASE out' = <<begin, end, turn>>
      BY <2>2, <2>3, <2>7 DEF Heralds
    <2>8. CASE out' = <<end>>
      BY <2>2, <2>3, <2>8 DEF Heralds
    <2>9. CASE out' = <<begin, end>>
      BY <2>2, <2>3, <2>9 DEF Heralds
    <2> QED
      BY <2>1, <2>4, <2>5, <2>6, <2>7, <2>8, <2>9
  <1>9. PendingOfRun'
    <2>1. active /\ ~torn => pendingToolCalls = {}
      BY <1>1 DEF Tools, PendingOfRun
    <2> QED
      BY <1>1, <1>2, <2>1 DEF Tools, PendingOfRun
  <1>10. Healthy'
    BY <1>1, <1>2 DEF Tools, Healthy, BegunSet
  <1> QED
    BY <1>7, <1>8, <1>9, <1>10 DEF Tools

\* The tools themselves.
LEMMA ToolTools ==
  ASSUME Sound, Tools, IdleIsClean, NEW c \in Calls, ToolStep(c) \/ ToolUpdate(c) \/ ToolFault(c)
  PROVE  Tools'
  <1>0. UNCHANGED <<active, run, torn, pc, out, batch, owner>>
    BY DEF ToolStep, ToolUpdate, ToolFault, ToolReturn, ToolEnd, ToolSettle, Return, EmitEnd,
           EndListeners, Update, classVars, loopVars, histVars, lossVars
  <1>a. UNCHANGED <<Current, BegunSet>> /\ c \in Nat
    BY <1>0 DEF Current, BegunSet, Calls
  <1>1. /\ \A d \in Calls \ {c} : stage'[d] = stage[d]
        /\ \/ stage'[c] = stage[c] /\ stage[c] = "executing"
           \/ stage[c] = "executing" /\ stage'[c] \in {"returned", "rejected"}
           \/ stage[c] = "returned" /\ stage'[c] \in {"ending", "rejected"}
           \/ stage[c] = "ending" /\ stage'[c] \in {"settled", "rejected"}
    BY DEF ToolStep, ToolUpdate, ToolFault, ToolReturn, ToolEnd, ToolSettle, Return, EmitEnd,
           EndListeners, Update, Sound, CallsTypeOK
  <1>b. \A d \in Calls : stage[d] \in {"started", "settled"} => stage'[d] = stage[d]
    BY <1>1
  <1>2. BatchOfRun'
    <2>1. \A i \in 1 .. batch.count : batch.calls[i] \in Calls
      BY BatchBounds
    <2> QED
      BY <1>0, <1>b, <2>1 DEF Tools, BatchOfRun
  <1>3. Heralds(out, pc)'
    <2>1. pc \in {"prepare", "next"} => Current \in Calls
      BY BatchFacts
    <2> QED
      BY <1>0, <1>a, <1>b, <2>1 DEF Tools, Heralds
  <1>4. PendingOfRun'
    <2>1. \/ pendingToolCalls' = pendingToolCalls /\ ~ToolEnd(c)
          \/ pendingToolCalls' = pendingToolCalls \ {c} /\ ToolEnd(c)
      BY <1>a DEF ToolStep, ToolUpdate, ToolFault, ToolReturn, ToolEnd, ToolSettle, Reduce,
             ToolEvent, classVars, EmitEnd, Return, EndListeners
    <2>2. CASE ToolEnd(c)
      <3>1. stage[c] = "returned" /\ stage'[c] \in {"ending", "rejected"}
        BY <2>2 DEF ToolEnd, EmitEnd, Sound, CallsTypeOK
      <3>2. pendingToolCalls' = pendingToolCalls \ {c}
        BY <2>1, <2>2
      <3> SUFFICES ASSUME active, ~torn PROVE PendingOfRun'
        BY <1>0 DEF PendingOfRun
      <3>3. \A d \in pendingToolCalls' : d \in Calls /\ owner'[d] = run' /\ stage'[d] # "ending"
        BY <1>0, <1>1, <3>2 DEF Tools, PendingOfRun
      <3>4. \A d \in Calls : owner'[d] = run' /\ stage'[d] \in {"prepared", "executing", "returned"}
                            => d \in pendingToolCalls'
        BY <1>0, <1>1, <3>1, <3>2 DEF Tools, PendingOfRun
      <3>5. pc' = "prepare" /\ out' = <<>> => Current' \in pendingToolCalls'
        BY <1>0, <1>a, <3>1, <3>2 DEF Tools, PendingOfRun, Heralds
      <3>6. pc' # "failing" =>
              \A d \in pendingToolCalls' : d \in BegunSet' /\ (stage'[d] = "settled" => Ended(d)')
        BY <1>0, <1>a, <1>1, <3>1, <3>2 DEF Tools, PendingOfRun, Ended
      <3> QED
        BY <3>3, <3>4, <3>5, <3>6 DEF PendingOfRun
    <2>3. CASE ~ToolEnd(c)
      <3>1. stage'[c] \in {"executing", "returned", "rejected"} \/ stage[c] = "ending"
        BY <2>3 DEF ToolStep, ToolUpdate, ToolFault, ToolReturn, ToolSettle, Return, EndListeners,
                    Update, Sound, CallsTypeOK
      <3>2. pendingToolCalls' = pendingToolCalls
        BY <2>1, <2>3
      <3> SUFFICES ASSUME active, ~torn PROVE PendingOfRun'
        BY <1>0 DEF PendingOfRun
      <3>3. \A d \in pendingToolCalls' : d \in Calls /\ owner'[d] = run' /\ stage'[d] # "ending"
        BY <1>0, <1>1, <3>1, <3>2 DEF Tools, PendingOfRun
      <3>4. \A d \in Calls : owner'[d] = run' /\ stage'[d] \in {"prepared", "executing", "returned"}
                            => d \in pendingToolCalls'
        BY <1>0, <1>1, <3>1, <3>2 DEF Tools, PendingOfRun
      <3>5. pc' = "prepare" /\ out' = <<>> => Current' \in pendingToolCalls'
        BY <1>0, <1>a, <3>2 DEF Tools, PendingOfRun
      <3>6. pc' # "failing" =>
              \A d \in pendingToolCalls' : d \in BegunSet' /\ (stage'[d] = "settled" => Ended(d)')
        BY <1>0, <1>a, <1>1, <3>1, <3>2 DEF Tools, PendingOfRun, Ended
      <3> QED
        BY <3>3, <3>4, <3>5, <3>6 DEF PendingOfRun
    <2> QED
      BY <2>2, <2>3
  <1>5. Healthy'
    <2> SUFFICES ASSUME faults' = 0 PROVE Healthy'
      BY DEF Healthy
    <2>1. faults = 0 /\ ~ToolFault(c)
      <3>1. ~ToolFault(c)
        <4>1. faults \in Nat
          BY DEF Sound, HistTypes
        <4>2. SUFFICES ASSUME ToolFault(c) PROVE FALSE
          OBVIOUS
        <4>3. faults' = faults + 1
          BY <4>2 DEF ToolFault
        <4> QED
          BY <4>1, <4>3
      <3>2. faults = 0
        <4>1. CASE ToolStep(c)
          BY <4>1 DEF ToolStep, ToolReturn, ToolEnd, ToolSettle, histVars
        <4>2. CASE ToolUpdate(c)
          BY <4>2 DEF ToolUpdate, Sound, HistTypes
        <4> QED
          BY <3>1, <4>1, <4>2
      <3> QED
        BY <3>1, <3>2
    <2>2. stage[c] \in {"executing", "returned", "ending"}
      BY <1>1
    <2>3. c \in BegunSet /\ active /\ pc \notin Between /\ owner[c] = run /\ run \notin ended
      <3>1. c \in BegunSet
        BY <2>1, <2>2 DEF Tools, Healthy
      <3>2. pc \notin Between
        BY <3>1, BatchBounds DEF Tools, BatchOfRun
      <3>3. active /\ run \notin ended
        BY <2>1, <3>2 DEF Tools, BatchOfRun, Healthy, Between
      <3>4. owner[c] = run
        BY <3>1, BatchBounds DEF Tools, BatchOfRun, BegunSet
      <3> QED
        BY <3>1, <3>2, <3>3, <3>4
    <2>4. badUpdate' = {} /\ stage'[c] # "rejected"
      <3>1. badUpdate = {} /\ stage[c] # "rejected"
        BY <2>1 DEF Tools, Healthy
      <3>2. CASE ToolReturn(c)
        BY <1>1, <3>1, <3>2 DEF ToolReturn, Return, Sound, CallsTypeOK
      <3>3. CASE ToolEnd(c)
        BY <2>3, <3>1, <3>3 DEF ToolEnd, EmitEnd, Sound, CallsTypeOK
      <3>4. CASE ToolSettle(c)
        BY <3>1, <3>4 DEF ToolSettle, EndListeners, Sound, CallsTypeOK
      <3>5. CASE ToolUpdate(c)
        BY <2>1, <2>3, <3>1, <3>5 DEF ToolUpdate, Update, Sound, HistTypes
      <3> QED
        BY <2>1, <3>2, <3>3, <3>4, <3>5 DEF ToolStep
    <2>5. ended' = ended /\ (last' = last \/ last'.run = run)
      <3>1. CASE ToolReturn(c) \/ ToolSettle(c)
        BY <3>1 DEF ToolReturn, ToolSettle, histVars, eventVars
      <3>2. CASE ToolEnd(c)
        BY <2>3, <3>2 DEF ToolEnd, Listen, ToolEvent
      <3>3. CASE ToolUpdate(c)
        BY <2>3, <3>3 DEF ToolUpdate, Listen, ToolEvent
      <3> QED
        BY <2>1, <3>1, <3>2, <3>3 DEF ToolStep
    <2>6. run \in Nat
      BY DEF Sound, ClassTypes
    <2> QED
      BY <1>0, <1>a, <1>1, <2>1, <2>3, <2>4, <2>5, <2>6 DEF Tools, Healthy
  <1> QED
    BY <1>2, <1>3, <1>4, <1>5 DEF Tools

\* The batch loops.
LEMMA BatchTools ==
  ASSUME Sound, Tools,
         \/ StartCall \/ RejectCall \/ AdmitCall \/ AwaitCall \/ NextCall
         \/ RunPrepared \/ JoinCalls \/ EndBatch
  PROVE  Tools'
  <1> USE DEF Tools
  <1>a. /\ Len(batch.calls) \in Nat /\ batch.count \in 0 .. Len(batch.calls)
        /\ \A i \in 1 .. Len(batch.calls) : batch.calls[i] \in Calls
        /\ BegunSet \subseteq Calls /\ Calls \subseteq Nat
        /\ pc \in {"prepare", "await", "next"} => Current \in Calls /\ batch.count > 0
    BY BatchFacts DEF Sound, BatchInBounds
  <1>b. UNCHANGED <<active, run, torn, pendingToolCalls, faults, ended, last, badUpdate, owner>>
    BY DEF StartCall, RejectCall, AdmitCall, AwaitCall, NextCall, RunPrepared, JoinCalls, EndBatch,
           batchFrame, classVars, histVars, lossVars, eventVars, callVars, Start, FailImmediately,
           Prepare, Execute, ExecuteAll
  <1>c. pc \notin {"idle", "failing"} /\ pc' \notin {"idle", "failing"} /\ active
    BY DEF StartCall, RejectCall, AdmitCall, AwaitCall, NextCall, RunPrepared, JoinCalls, EndBatch,
           BatchOfRun
  <1>d. stage \in [Calls -> Stages]
    BY DEF Sound, CallsTypeOK
  <1>e. ~torn /\ pc # "next" => \A c \in pendingToolCalls : stage[c] # "settled"
    <2> SUFFICES ASSUME ~torn, pc # "next", NEW c \in pendingToolCalls, stage[c] = "settled"
                 PROVE  FALSE
      OBVIOUS
    <2>1. out # <<>> /\ out[1] = ToolEvent("tool_execution_end", c)
      BY <1>c DEF PendingOfRun, Ended
    <2>2. out \in Seq(EventSet) /\ 1 \in 1 .. Len(out)
      BY <2>1, EmptySeq, LenProperties DEF Sound, LoopTypes
    <2>3. out[1].type = "tool_execution_end"
      BY <2>1 DEF ToolEvent
    <2> QED
      BY <2>2, <2>3 DEF Heralds
  <1>1. CASE StartCall
    <2> DEFINE c == batch.calls[batch.count + 1]
    <2>1. /\ batch.count + 1 \in 1 .. Len(batch.calls)
          /\ batch.kind \in {"none", "length", "sequential", "parallel"}
      BY <1>1, <1>a DEF StartCall, Sound, LoopTypes, BatchSet
    <2>2. /\ batch'.calls = batch.calls /\ batch'.count = batch.count + 1
          /\ batch'.kind = batch.kind
      BY <1>1 DEF StartCall, Sound, LoopTypes, BatchSet
    <2>3. /\ c \in Calls /\ stage[c] = "requested" /\ stage' = [stage EXCEPT ![c] = "started"]
          /\ out' = <<ToolEvent("tool_execution_start", c)>> /\ pc = "batch" /\ pc' = "prepare"
          /\ out = <<>>
      BY <1>1, <1>a, <2>1 DEF StartCall, Start
    <2>4. Current' = c /\ BegunSet' = BegunSet \union {c}
      BY <1>a, <2>1, <2>2 DEF Current, BegunSet
    <2> HIDE DEF c
    <2>5. stage'[c] = "started" /\ \A d \in Calls \ {c} : stage'[d] = stage[d]
      BY <1>d, <2>3
    <2>6. BatchOfRun'
      <3>1. \A i \in 1 .. batch.count : batch.kind = "parallel" \/ stage'[batch.calls[i]] = "settled"
        BY <1>a, <2>3, <2>5 DEF BatchOfRun
      <3> QED
        BY <1>a, <1>b, <1>c, <2>1, <2>2, <2>3, <3>1 DEF BatchOfRun, Between
    <2>7. Heralds(out, pc)'
      BY <2>3, <2>4, <2>5 DEF Heralds, ToolEvent
    <2>8. PendingOfRun'
      BY <1>b, <1>c, <1>e, <2>3, <2>4, <2>5 DEF PendingOfRun
    <2>9. Healthy'
      BY <1>b, <1>c, <2>3, <2>4, <2>5 DEF Healthy
    <2> QED
      BY <2>6, <2>7, <2>8, <2>9
  <1>2. CASE RejectCall
    <2>1. /\ Current \in Calls /\ stage[Current] = "started" /\ batch' = batch
          /\ stage' = [stage EXCEPT ![Current] = "settled"]
          /\ pc = "prepare" /\ pc' = "next" /\ out = <<>>
      BY <1>2, <1>a DEF RejectCall, FailImmediately
    <2>2. Current' = Current /\ BegunSet' = BegunSet
      BY <2>1 DEF Current, BegunSet
    <2>3. stage'[Current] = "settled" /\ \A d \in Calls \ {Current} : stage'[d] = stage[d]
      BY <1>d, <2>1
    <2>4. BatchOfRun'
      <3>1. \A i \in 1 .. batch.count : batch.kind = "parallel" \/ stage'[batch.calls[i]] = "settled"
        BY <1>a, <2>1, <2>3 DEF BatchOfRun, Current
      <3> QED
        BY <1>a, <1>b, <1>c, <2>1, <3>1 DEF BatchOfRun, Between
    <2>5. /\ out' # <<>> /\ out'[1] = ToolEvent("tool_execution_end", Current)
          /\ \A i \in 1 .. Len(out') : i # 1 =>
               out'[i].type \notin {"tool_execution_start", "tool_execution_end", "agent_end"}
      <3> DEFINE e    == <<ToolEvent("tool_execution_end", Current)>>
                 rest == IF batch.kind = "parallel" THEN <<>> ELSE Announce(<<ToolResult(Current)>>)
      <3>1. e \in Seq(EventSet) /\ Len(e) = 1 /\ e[1] = ToolEvent("tool_execution_end", Current)
        BY <1>a, <2>1, EventTypesOf, SingleSeq DEF EventTypes
      <3>2. rest \in Seq(EventSet) /\ Silent(rest)
        <4>1. <<ToolResult(Current)>> \in Seq(MessageSet)
          BY <1>a, <2>1, MessageTypes, SingleSeq
        <4>2. Announce(<<ToolResult(Current)>>) \in Seq(EventSet) /\ Silent(Announce(<<ToolResult(Current)>>))
          BY <4>1, SilentAnnounce
        <4>3. <<>> \in Seq(EventSet) /\ Silent(<<>>)
          BY EmptySeq DEF Silent
        <4> QED
          BY <4>2, <4>3
      <3>3. out' = e \o rest
        BY <1>2 DEF RejectCall
      <3> HIDE DEF e, rest
      <3>4. /\ out' \in Seq(EventSet) /\ Len(rest) \in Nat /\ Len(out') = 1 + Len(rest)
            /\ \A i \in 1 .. Len(out') : out'[i] = IF i <= 1 THEN e[i] ELSE rest[i - 1]
        <4>1. /\ e \o rest \in Seq(EventSet) /\ Len(e \o rest) = Len(e) + Len(rest)
              /\ \A i \in 1 .. Len(e) + Len(rest) :
                   (e \o rest)[i] = IF i <= Len(e) THEN e[i] ELSE rest[i - Len(e)]
          BY <3>1, <3>2, ConcatProperties
        <4> QED
          BY ONLY <3>1, <3>2, <3>3, <4>1, LenProperties
      <3>5. ASSUME NEW i \in 1 .. Len(out'), i # 1
            PROVE  out'[i].type \notin {"tool_execution_start", "tool_execution_end", "agent_end"}
        <4>1. i - 1 \in 1 .. Len(rest) /\ out'[i] = rest[i - 1]
          BY <3>4, <3>5
        <4> QED
          BY <3>2, <4>1 DEF Silent
      <3>6. 1 \in 1 .. Len(out') /\ out' # <<>>
        BY <3>4, EmptySeq
      <3>7. out'[1] = e[1]
        BY <3>4, <3>6
      <3> QED
        BY <3>1, <3>5, <3>6, <3>7
    <2>6. Heralds(out, pc)'
      <3>1. out'[1].type = "tool_execution_end" /\ out'[1].call = Current
        BY <2>5 DEF ToolEvent
      <3> QED
        BY <2>1, <2>2, <2>3, <2>5, <3>1 DEF Heralds
    <2>7. PendingOfRun'
      <3>1. Ended(Current)'
        BY <2>2, <2>5 DEF Ended
      <3>2. \A d \in pendingToolCalls : ~torn => d \in Calls
        BY <1>c DEF PendingOfRun
      <3>3. \A d : d = Current => (out' # <<>> /\ out'[1] = ToolEvent("tool_execution_end", d))
        BY <2>5
      <3> SUFFICES ASSUME ~torn PROVE PendingOfRun'
        BY <1>b DEF PendingOfRun
      <3>4. \A d \in pendingToolCalls :
              d \in BegunSet /\ (stage'[d] = "settled" => Ended(d)')
        BY <1>c, <1>e, <2>1, <2>3, <3>2, <3>3 DEF PendingOfRun, Ended
      <3>5. \A d \in pendingToolCalls : d \in Calls /\ owner[d] = run /\ stage'[d] # "ending"
        BY <1>c, <2>3 DEF PendingOfRun
      <3>6. \A d \in Calls : owner[d] = run /\ stage'[d] \in {"prepared", "executing", "returned"}
                            => d \in pendingToolCalls
        BY <1>c, <2>3 DEF PendingOfRun
      <3> QED
        BY <1>b, <2>1, <2>2, <3>4, <3>5, <3>6 DEF PendingOfRun
    <2>8. Healthy'
      BY <1>b, <1>c, <2>1, <2>2, <2>3 DEF Healthy
    <2> QED
      BY <2>4, <2>6, <2>7, <2>8
  <1>3. CASE AdmitCall
    <2>1. /\ Current \in Calls /\ stage[Current] = "started" /\ batch' = batch
          /\ pc = "prepare" /\ out = <<>> /\ out' = <<>>
          /\ \/ /\ batch.kind = "parallel" /\ pc' = "next"
                /\ stage' = [stage EXCEPT ![Current] = "prepared"]
             \/ /\ batch.kind # "parallel" /\ pc' = "await"
                /\ stage' = [stage EXCEPT ![Current] = "executing"]
      BY <1>3, <1>a DEF AdmitCall, Prepare, Execute
    <2>2. Current' = Current /\ BegunSet' = BegunSet
      BY <2>1 DEF Current, BegunSet
    <2>3. /\ stage'[Current] \in {"prepared", "executing"}
          /\ \A d \in Calls \ {Current} : stage'[d] = stage[d]
      BY <1>d, <2>1
    <2>4. BatchOfRun'
      <3>1. \A i \in 1 .. batch.count :
              batch.kind = "parallel" \/ stage'[batch.calls[i]] = "settled" \/ i = batch.count
        <4> SUFFICES ASSUME NEW i \in 1 .. batch.count, batch.kind # "parallel", i # batch.count
                     PROVE  stage'[batch.calls[i]] = "settled"
          OBVIOUS
        <4>1. batch.calls[i] \in Calls /\ stage[batch.calls[i]] = "settled"
          BY <1>a DEF BatchOfRun
        <4> QED
          BY <2>1, <2>3, <4>1
      <3> QED
        BY <1>a, <1>b, <1>c, <2>1, <3>1 DEF BatchOfRun, Between
    <2>5. Heralds(out, pc)'
      BY <2>1, EmptySeq DEF Heralds
    <2>6. PendingOfRun'
      <3>1. active /\ ~torn => Current \in pendingToolCalls
        BY <2>1 DEF PendingOfRun
      <3> SUFFICES ASSUME ~torn PROVE PendingOfRun'
        BY <1>b DEF PendingOfRun
      <3>2. \A d \in pendingToolCalls :
              /\ d \in Calls /\ owner[d] = run /\ stage'[d] \notin {"ending", "settled"}
              /\ d \in BegunSet
        BY <1>c, <1>e, <2>1, <2>3 DEF PendingOfRun
      <3>3. \A d \in Calls : owner[d] = run /\ stage'[d] \in {"prepared", "executing", "returned"}
                            => d \in pendingToolCalls
        BY <1>c, <2>3, <3>1 DEF PendingOfRun
      <3> QED
        BY <1>b, <2>1, <2>2, <3>2, <3>3 DEF PendingOfRun
    <2>7. Healthy'
      BY <1>b, <1>c, <2>1, <2>2, <2>3 DEF Healthy
    <2> QED
      BY <2>4, <2>5, <2>6, <2>7
  <1>4. CASE AwaitCall \/ JoinCalls
    <2>1. /\ pc \in {"await", "join"} /\ pc' \in {"next", "batchEnd"} /\ stage' = stage
          /\ batch' = batch
          /\ pc' = "batchEnd" => pc = "join" /\ \A c \in BegunSet : stage[c] = "settled"
          /\ pc' = "next" => pc = "await" /\ stage[Current] = "settled"
      BY <1>4 DEF AwaitCall, JoinCalls, callVars
    <2>2. BegunSet' = BegunSet
      BY <2>1 DEF BegunSet
    <2>3. Silent(out')
      <3>1. CASE AwaitCall
        <4>1. <<ToolResult(Current)>> \in Seq(MessageSet)
          BY <3>1, <1>a, MessageTypes, SingleSeq DEF AwaitCall
        <4> QED
          BY <3>1, <4>1, SilentAnnounce DEF AwaitCall
      <3>2. CASE JoinCalls
        BY <3>2, ResultsType, SilentAnnounce DEF JoinCalls
      <3> QED
        BY <1>4, <3>1, <3>2
    <2>4. Heralds(out, pc)'
      BY <2>1, <2>3 DEF Heralds, Silent
    <2>5. BatchOfRun'
      <3>1. pc' = "batchEnd" => \A i \in 1 .. batch.count : stage[batch.calls[i]] = "settled"
        BY <2>1 DEF BegunSet
      <3>2. pc' = "next" => stage[batch.calls[batch.count]] = "settled"
        BY <2>1 DEF Current
      <3> QED
        BY <1>b, <1>c, <2>1, <3>1, <3>2 DEF BatchOfRun, Between
    <2>6. PendingOfRun'
      BY <1>b, <1>c, <1>e, <2>1, <2>2 DEF PendingOfRun
    <2>7. Healthy'
      BY <1>b, <1>c, <2>1, <2>2 DEF Healthy
    <2> QED
      BY <2>4, <2>5, <2>6, <2>7
  <1>5. CASE NextCall
    <2>1. /\ pc = "next" /\ pc' = "batch" /\ stage' = stage /\ out = <<>> /\ out' = <<>>
          /\ batch'.calls = batch.calls /\ batch'.count = batch.count /\ batch'.kind = batch.kind
      BY <1>5 DEF NextCall, callVars, Sound, LoopTypes, BatchSet
    <2>2. BegunSet' = BegunSet
      BY <2>1 DEF BegunSet
    <2>3. BatchOfRun'
      BY <1>b, <1>c, <2>1 DEF BatchOfRun, Between
    <2>4. Heralds(out, pc)'
      BY <2>1, EmptySeq DEF Heralds
    <2>5. PendingOfRun'
      BY <1>b, <1>c, <2>1, <2>2 DEF PendingOfRun, Ended
    <2>6. Healthy'
      BY <1>b, <1>c, <2>1, <2>2 DEF Healthy
    <2> QED
      BY <2>3, <2>4, <2>5, <2>6
  <1>6. CASE RunPrepared
    <2>1. /\ pc = "batch" /\ pc' = "join" /\ out = <<>> /\ out' = <<>> /\ batch' = batch
          /\ batch.kind = "parallel"
          /\ \A c \in BegunSet : stage[c] \in {"prepared", "settled"}
          /\ stage' = [c \in Calls |-> IF c \in BegunSet /\ stage[c] = "prepared"
                                       THEN "executing" ELSE stage[c]]
      BY <1>6 DEF RunPrepared, ExecuteAll
    <2>2. BegunSet' = BegunSet
      BY <2>1 DEF BegunSet
    <2>3. \A d \in Calls : stage'[d] = stage[d]
                           \/ (d \in BegunSet /\ stage[d] = "prepared" /\ stage'[d] = "executing")
      BY <2>1
    <2>4. BatchOfRun'
      BY <1>b, <1>c, <2>1 DEF BatchOfRun, Between
    <2>5. Heralds(out, pc)'
      BY <2>1, EmptySeq DEF Heralds
    <2>6. PendingOfRun'
      <3> SUFFICES ASSUME ~torn PROVE PendingOfRun'
        BY <1>b DEF PendingOfRun
      <3>1. \A d \in pendingToolCalls :
              /\ d \in Calls /\ owner[d] = run /\ stage'[d] \notin {"ending", "settled"}
              /\ d \in BegunSet
        BY <1>c, <1>e, <2>1, <2>3 DEF PendingOfRun
      <3>2. \A d \in Calls : owner[d] = run /\ stage'[d] \in {"prepared", "executing", "returned"}
                            => d \in pendingToolCalls
        BY <1>c, <2>3 DEF PendingOfRun
      <3> QED
        BY <1>b, <2>1, <2>2, <3>1, <3>2 DEF PendingOfRun
    <2>7. Healthy'
      BY <1>b, <1>c, <2>1, <2>2, <2>3 DEF Healthy
    <2> QED
      BY <2>4, <2>5, <2>6, <2>7
  <1>7. CASE EndBatch
    <2>1. /\ pc' = "turnEnd" /\ stage' = stage /\ batch' = NoBatch /\ out = <<>>
          /\ out' = <<Event("turn_end")>>
          /\ pc = "batchEnd" \/ (pc = "batch" /\ batch.kind # "parallel")
      BY <1>7 DEF EndBatch, callVars
    <2>2. NoBatch.count = 0 /\ Len(NoBatch.calls) = 0
      BY DEF NoBatch
    <2>3. \A c \in BegunSet : stage[c] = "settled"
      BY <2>1 DEF BatchOfRun, BegunSet
    <2>4. ~torn => pendingToolCalls = {}
      BY <1>c, <1>e, <2>1, <2>3 DEF PendingOfRun
    <2>5. BatchOfRun'
      BY <1>b, <1>c, <2>1, <2>2 DEF BatchOfRun, Between
    <2>6. Heralds(out, pc)'
      BY <2>1 DEF Heralds, Event
    <2>7. PendingOfRun'
      BY <1>b, <1>c, <2>1, <2>4 DEF PendingOfRun
    <2>8. Healthy'
      BY <1>b, <1>c, <2>1, <2>3 DEF Healthy
    <2> QED
      BY <2>5, <2>6, <2>7, <2>8
  <1> QED
    BY <1>1, <1>2, <1>3, <1>4, <1>5, <1>6, <1>7

LEMMA ToolsStep ==
  ASSUME Sound, Tools, IdleIsClean, [Next]_vars
  PROVE  Tools'
  <1>1. CASE UNCHANGED vars
    BY <1>1 DEF vars, classVars, queueVars, loopVars, histVars, lossVars, eventVars, callVars,
                Tools, BatchOfRun, Heralds, PendingOfRun, Healthy, Current, BegunSet, Ended
  <1>2. CASE Prompt \/ Continue
    <2>1. ASSUME NEW m \in Modes, NEW q \in Seq(UserSet) PROVE Drained(m, q) \in Seq(UserSet)
      BY <2>1, DrainTypes
    <2>2. CASE Prompt
      <3>1. <<User(accepted + 1, "prompt")>> \in Seq(UserSet)
        BY MessageTypes, SingleSeq DEF Sound, HistTypes, Lanes
      <3> QED
        BY <2>2, <3>1, StartRunTools DEF Prompt
    <2>3. CASE Continue
      <3>1. /\ Drained(steeringMode, steeringQueue) \in Seq(UserSet)
            /\ Drained(followUpMode, followUpQueue) \in Seq(UserSet)
            /\ <<>> \in Seq(UserSet)
        BY <2>1, AgentAssumption, EmptySeq DEF Sound, QueueTypes
      <3> QED
        BY <2>3, <3>1, StartRunTools DEF Continue
    <2> QED
      BY <1>2, <2>2, <2>3
  <1>3. CASE Application /\ ~Prompt /\ ~Continue
    BY <1>3, ApplicationTools DEF Application
  <1>4. CASE Response
    BY <1>4, RespondTools DEF Response
  <1>5. CASE LoopStep /\ ~Response
    BY <1>5, EmitTools, TurnTools, BatchTools, FinishRunTools, FaultTools DEF LoopStep
  <1>6. CASE \E c \in Calls : ToolStep(c) \/ ToolUpdate(c) \/ ToolFault(c)
    BY <1>6, ToolTools
  <1>7. CASE LoopFault \/ ReportFault
    BY <1>7, FaultTools
  <1> QED
    BY <1>1, <1>2, <1>3, <1>4, <1>5, <1>6, <1>7 DEF Next, Fault

LEMMA ToolsInvariant == Spec => []Tools
  <1>1. Init => Sound /\ Tools /\ IdleIsClean
    BY SoundInit, ToolsInit DEF Init, IdleIsClean
  <1>2. Sound /\ Tools /\ [Next]_vars /\ IdleIsClean => Tools' /\ Sound'
    BY ToolsStep, SoundStep
  <1> QED
    BY <1>1, <1>2, IdleAgentIsClean, PTL DEF Spec

\* The calls the public state shows as pending are those of this run's batch
\* that have started and not reported their end: none of an earlier run, none
\* that is over, every one that runs, and none when a request goes out.
THEOREM PendingCallsAreTrue == Spec => []PendingCallsAreOpen
  <1>1. Sound /\ Tools => PendingCallsAreOpen
    <2> SUFFICES ASSUME Sound, Tools, active, ~torn PROVE PendingCallsAreOpen
      BY DEF PendingCallsAreOpen
    <2>1. pc = "request" => pendingToolCalls = {}
      <3> SUFFICES ASSUME pc = "request" PROVE pendingToolCalls = {}
        OBVIOUS
      <3>1. BegunSet = {}
        BY BatchBounds DEF Tools, BatchOfRun, Between
      <3> QED
        BY <3>1 DEF Tools, PendingOfRun
    <2> QED
      BY <2>1 DEF Tools, PendingOfRun, PendingCallsAreOpen
  <1>2. Spec => []Sound
    BY SoundInit, SoundStep, PTL DEF Spec
  <1> QED
    BY <1>1, <1>2, ToolsInvariant, PTL

\* In a run nothing throws in, listeners hear nothing after agent_end.
THEOREM HealthyRunsEndOnce == Spec => []HealthyAgentEndIsFinal
  <1>1. Tools => HealthyAgentEndIsFinal
    BY DEF Tools, Healthy, HealthyAgentEndIsFinal, AgentEndIsFinal
  <1> QED
    BY <1>1, ToolsInvariant, PTL

\* A turn nothing throws in joins every tool it has started.
THEOREM TurnsJoinTheirTools == Spec => []NoToolOutlivesItsTurn
  <1>1. Sound /\ Tools => NoToolOutlivesItsTurn
    <2> SUFFICES ASSUME Sound, Tools, faults = 0, pc \in Between
                 PROVE  \A c \in Calls : stage[c] \in {"unused", "requested", "settled"}
      BY DEF NoToolOutlivesItsTurn, Between
    <2>1. BegunSet = {}
      BY BatchBounds DEF Tools, BatchOfRun
    <2> QED
      BY <2>1 DEF Tools, Healthy
  <1>2. Spec => []Sound
    BY SoundInit, SoundStep, PTL DEF Spec
  <1> QED
    BY <1>1, <1>2, ToolsInvariant, PTL

-----------------------------------------------------------------------------
(* The conversation: what the transcript will hold once the loop has said  *)
(* all it has to say, which is what its context and the queues are         *)
(* compared with.                                                          *)

\* s is the sequence of the messages that the events of o end: at[i] of them
\* among the first i events.
Ahead(o, s) ==
  \E at \in [0 .. Len(o) -> 0 .. Len(s)] :
    /\ at[0] = 0 /\ at[Len(o)] = Len(s)
    /\ \A i, j \in 0 .. Len(o) : i <= j => at[i] <= at[j]
    /\ \A i \in 1 .. Len(o) :
         IF o[i].type = "message_end"
         THEN at[i] = at[i - 1] + 1 /\ s[at[i]] = o[i].msg
         ELSE at[i] = at[i - 1]

\* A message after which the agent would stop, or goes on with a follow-up.
Stopping(m, results) ==
  \/ m.role = "assistant"
  \/ m.kind = "followUp"
  \/ m.role = "toolResult" /\ m.id \in Calls /\ results[m.id] = "terminate"

Ready(t, results) == t = <<>> \/ Stopping(t[Len(t)], results)

PairsFit(t, results) ==
  \A i \in 2 .. Len(t) : t[i].kind = "followUp" => Stopping(t[i - 1], results)

AllOf(s, kind) == \A i \in 1 .. Len(s) : s[i].kind = kind

\* A call has no result before it is known; after that it does not change.
Undecided == {"unused", "requested", "started", "prepared", "executing"}
OutcomesWait == \A c \in Calls : stage[c] \in Undecided => outcome[c] = "none"

\* Follow-ups are taken up only where the agent would have stopped.
FollowUps(t) ==
  /\ PairsFit(t, outcome) /\ OutcomesWait
  /\ AllOf(steeringQueue, "steer") /\ AllOf(followUpQueue, "followUp")
  /\ pc # "inner" => pending = <<>>
  /\ AllOf(pending, "steer") \/ (AllOf(pending, "followUp") /\ Ready(t, outcome))
  /\ pc \in {"inner", "turnEnd"} /\ ~hasMore => Ready(t, outcome)
  /\ pc = "batchEnd" \/ (pc \in {"batch", "next"} /\ batch.kind # "parallel") =>
       batch.count = 0 \/ t = <<>> \/ t[Len(t)] = ToolResult(batch.calls[batch.count])

\* Every call the conversation mentions has been asked for.
Asked(t, at) ==
  \A i \in 1 .. Len(t) : \A j \in 1 .. Len(t[i].calls) : at[t[i].calls[j]] # "unused"

InBatch == pc \in {"batch", "prepare", "await", "next", "join", "batchEnd"}

\* How many results of the batch the transcript has.
Told ==
  IF batch.kind = "parallel" THEN IF pc = "batchEnd" THEN batch.count ELSE 0
  ELSE IF pc \in {"prepare", "await"} THEN batch.count - 1 ELSE batch.count

ResultsOf(calls, n) == [i \in 1 .. n |-> ToolResult(calls[i])]

\* What the next request sends is the transcript.
Context(t) ==
  active /\ ~torn =>
    /\ pc \in {"poll", "inner", "request", "turnEnd"} => ctx = t
    /\ pc = "streaming" => ctx = Append(t, Partial)
    /\ InBatch => t = ctx \o ResultsOf(batch.calls, Told)

AnswersIn(t, i) ==
  /\ i + Len(t[i].calls) <= Len(t)
  /\ \A j \in 1 .. Len(t[i].calls) : t[i + j] = ToolResult(t[i].calls[j])

\* An assistant message all whose calls belong to run r.
Asks(m, whose, r) ==
  /\ m.role = "assistant" /\ m.kind \notin Failed
  /\ \A j \in 1 .. Len(m.calls) : whose[m.calls[j]] = r

\* What the context asks in this run is answered, but for the batch.
Answers ==
  active /\ ~torn /\ ~aborted /\ pc \notin {"failing", "end"} =>
    /\ ~batch.cut
    /\ \A i \in 1 .. Len(ctx) :
         Asks(ctx[i], owner, run) =>
           \/ AnswersIn(ctx, i)
           \/ InBatch /\ i = Len(ctx) /\ ctx[i].calls = batch.calls

Later(q) == \A i \in 1 .. Len(q) : q[i].id > polledAt

\* A loop that stops has looked at both queues.
LooksLast(t) ==
  /\ polledAt <= accepted
  /\ skipPoll => pc \in {"idle", "poll", "failing"}
  /\ pc = "poll" => hasMore
  /\ pc = "inner" /\ pending = <<>> /\ ~hasMore => Later(steeringQueue)
  /\ pc = "end" /\ ~StopsAfterTurn =>
       \/ Later(steeringQueue) /\ Later(followUpQueue)
       \/ t = <<>> \/ t[Len(t)].kind \in Failed
  /\ pc = "end" /\ out # <<>> => out[Len(out)].type = "agent_end"

\* Where the batch waits for tools, and where it has nothing left to begin.
Waits ==
  /\ pc \in {"await", "join"} => out = <<>>
  /\ pc = "await" => batch.kind # "parallel"
  /\ pc \in {"join", "batchEnd"} => batch.cut \/ batch.count = Len(batch.calls)

Talk(t) ==
  /\ FollowUps(t) /\ Asked(t, stage) /\ Asked(ctx, stage)
  /\ Context(t) /\ Answers /\ Waits /\ LooksLast(t)

Talking ==
  \E s, t \in Seq(MessageSet) : Ahead(out, s) /\ t = messages \o s /\ Talk(t)

\* A conversation of no message.
LEMMA AheadNone ==
  ASSUME NEW o \in Seq(EventSet), \A i \in 1 .. Len(o) : o[i].type # "message_end"
  PROVE  Ahead(o, <<>>)
  <1> DEFINE at == [i \in 0 .. Len(o) |-> 0]
  <1>1. Len(o) \in Nat /\ Len(<<>>) = 0
    BY LenProperties
  <1>2. at \in [0 .. Len(o) -> 0 .. Len(<<>>)] /\ \A i \in 0 .. Len(o) : at[i] = 0
    BY <1>1
  <1>3. 0 \in 0 .. Len(o) /\ Len(o) \in 0 .. Len(o)
        /\ \A i \in 1 .. Len(o) : i \in 0 .. Len(o) /\ i - 1 \in 0 .. Len(o)
    BY <1>1
  <1> HIDE DEF at
  <1> QED
    BY <1>1, <1>2, <1>3 DEF Ahead

LEMMA AheadOfNothing ==
  ASSUME NEW s \in Seq(MessageSet), Ahead(<<>>, s)
  PROVE  s = <<>>
  <1>1. Len(<<>>) = 0 /\ Len(s) = 0
    BY DEF Ahead
  <1> QED
    BY <1>1, EmptySeq

\* The first event is emitted.
LEMMA AheadTail ==
  ASSUME NEW o \in Seq(EventSet), o # <<>>, NEW s \in Seq(MessageSet), Ahead(o, s)
  PROVE  IF o[1].type = "message_end"
         THEN s # <<>> /\ s[1] = o[1].msg /\ Ahead(Tail(o), Tail(s))
         ELSE Ahead(Tail(o), s)
  <1>1. /\ Len(o) \in Nat \ {0} /\ Tail(o) \in Seq(EventSet) /\ Len(Tail(o)) = Len(o) - 1
        /\ \A i \in 1 .. Len(o) - 1 : Tail(o)[i] = o[i + 1]
    BY EmptySeq, HeadTailProperties, LenProperties
  <1>2. PICK at \in [0 .. Len(o) -> 0 .. Len(s)] :
          /\ at[0] = 0 /\ at[Len(o)] = Len(s)
          /\ \A i, j \in 0 .. Len(o) : i <= j => at[i] <= at[j]
          /\ \A i \in 1 .. Len(o) :
               IF o[i].type = "message_end"
               THEN at[i] = at[i - 1] + 1 /\ s[at[i]] = o[i].msg
               ELSE at[i] = at[i - 1]
    BY DEF Ahead
  <1>3. Len(s) \in Nat /\ 1 \in 1 .. Len(o) /\ 1 - 1 = 0 /\ 1 \in 0 .. Len(o) /\ at[1] \in 0 .. Len(s)
    BY <1>1, LenProperties
  <1>4. CASE o[1].type = "message_end"
    <2>1. at[1] = 1 /\ s[1] = o[1].msg
      BY <1>2, <1>3, <1>4
    <2>2. s # <<>> /\ Len(s) >= 1
      BY <1>3, <2>1, EmptySeq
    <2>3. /\ Tail(s) \in Seq(MessageSet) /\ Len(Tail(s)) = Len(s) - 1
          /\ \A i \in 1 .. Len(s) - 1 : Tail(s)[i] = s[i + 1]
      BY <2>2, HeadTailProperties, LenProperties
    <2> DEFINE to == [i \in 0 .. Len(Tail(o)) |-> at[i + 1] - 1]
    <2>4. \A i \in 0 .. Len(Tail(o)) : /\ i + 1 \in 0 .. Len(o) /\ at[i + 1] \in 1 .. Len(s)
                                       /\ to[i] = at[i + 1] - 1
      BY <1>1, <1>2, <1>3, <2>1
    <2>5. to \in [0 .. Len(Tail(o)) -> 0 .. Len(Tail(s))]
      BY <1>3, <2>3, <2>4
    <2>6. 0 \in 0 .. Len(Tail(o)) /\ Len(Tail(o)) \in 0 .. Len(Tail(o))
      BY <1>1
    <2>7. to[0] = 0 /\ to[Len(Tail(o))] = Len(Tail(s))
      BY <1>1, <1>2, <2>1, <2>3, <2>4, <2>6
    <2>8. \A i, j \in 0 .. Len(Tail(o)) : i <= j => to[i] <= to[j]
      <3> SUFFICES ASSUME NEW i \in 0 .. Len(Tail(o)), NEW j \in 0 .. Len(Tail(o)), i <= j
                   PROVE  to[i] <= to[j]
        OBVIOUS
      <3>1. at[i + 1] <= at[j + 1]
        BY <1>1, <1>2, <2>4
      <3> QED
        BY <1>3, <2>4, <3>1
    <2> HIDE DEF to
    <2>9. ASSUME NEW i \in 1 .. Len(Tail(o))
          PROVE  IF Tail(o)[i].type = "message_end"
                 THEN to[i] = to[i - 1] + 1 /\ Tail(s)[to[i]] = Tail(o)[i].msg
                 ELSE to[i] = to[i - 1]
      <3>1. /\ i + 1 \in 1 .. Len(o) /\ Tail(o)[i] = o[i + 1] /\ i - 1 \in 0 .. Len(Tail(o))
            /\ (i - 1) + 1 = i /\ (i + 1) - 1 = i /\ i \in 0 .. Len(Tail(o))
        BY <1>1
      <3>2. to[i] = at[i + 1] - 1 /\ to[i - 1] = at[i] - 1 /\ at[i] \in 1 .. Len(s)
            /\ at[i + 1] \in 1 .. Len(s)
        BY <2>4, <3>1
      <3>3. IF o[i + 1].type = "message_end"
            THEN at[i + 1] = at[i] + 1 /\ s[at[i + 1]] = o[i + 1].msg
            ELSE at[i + 1] = at[i]
        BY <1>2, <3>1
      <3>4. CASE o[i + 1].type = "message_end"
        <4>0. at[i + 1] = at[i] + 1 /\ at[i] \in Nat /\ at[i + 1] \in Nat
          BY <1>3, <3>2, <3>3, <3>4
        <4>1. to[i] \in 1 .. Len(s) - 1 /\ to[i] + 1 = at[i + 1]
          <5>1. to[i] = at[i]
            BY ONLY <3>2, <4>0
          <5>2. at[i] + 1 <= Len(s) /\ at[i] >= 1
            BY ONLY <1>3, <3>2, <4>0
          <5> QED
            BY ONLY <1>3, <4>0, <5>1, <5>2
        <4>2. Tail(s)[to[i]] = s[at[i + 1]]
          BY <2>3, <4>1
        <4>3. to[i] = to[i - 1] + 1
          BY ONLY <1>3, <3>2, <4>0
        <4> QED
          BY <3>1, <3>3, <3>4, <4>2, <4>3
      <3>5. CASE o[i + 1].type # "message_end"
        BY <3>1, <3>2, <3>3, <3>5
      <3> QED
        BY <3>4, <3>5
    <2>10. Ahead(Tail(o), Tail(s))
      BY <2>5, <2>7, <2>8, <2>9 DEF Ahead
    <2> QED
      BY <1>4, <2>1, <2>2, <2>10
  <1>5. CASE o[1].type # "message_end"
    <2>1. at[1] = 0
      BY <1>2, <1>3, <1>5
    <2> DEFINE to == [i \in 0 .. Len(Tail(o)) |-> at[i + 1]]
    <2>4. \A i \in 0 .. Len(Tail(o)) : /\ i + 1 \in 0 .. Len(o) /\ at[i + 1] \in 0 .. Len(s)
                                       /\ to[i] = at[i + 1]
      BY <1>1, <1>2, <1>3
    <2>5. to \in [0 .. Len(Tail(o)) -> 0 .. Len(s)]
      BY <1>3, <2>4
    <2>6. 0 \in 0 .. Len(Tail(o)) /\ Len(Tail(o)) \in 0 .. Len(Tail(o))
      BY <1>1
    <2>7. to[0] = 0 /\ to[Len(Tail(o))] = Len(s)
      BY <1>1, <1>2, <2>1, <2>4, <2>6
    <2>8. \A i, j \in 0 .. Len(Tail(o)) : i <= j => to[i] <= to[j]
      BY <1>1, <1>2, <2>4
    <2> HIDE DEF to
    <2>9. ASSUME NEW i \in 1 .. Len(Tail(o))
          PROVE  IF Tail(o)[i].type = "message_end"
                 THEN to[i] = to[i - 1] + 1 /\ s[to[i]] = Tail(o)[i].msg
                 ELSE to[i] = to[i - 1]
      <3>1. /\ i + 1 \in 1 .. Len(o) /\ Tail(o)[i] = o[i + 1] /\ i - 1 \in 0 .. Len(Tail(o))
            /\ (i - 1) + 1 = i /\ (i + 1) - 1 = i /\ i \in 0 .. Len(Tail(o))
        BY <1>1
      <3>2. to[i] = at[i + 1] /\ to[i - 1] = at[i]
        BY <2>4, <3>1
      <3>3. IF o[i + 1].type = "message_end"
            THEN at[i + 1] = at[i] + 1 /\ s[at[i + 1]] = o[i + 1].msg
            ELSE at[i + 1] = at[i]
        BY <1>2, <3>1
      <3> QED
        BY <3>1, <3>2, <3>3
    <2>10. Ahead(Tail(o), s)
      BY <2>5, <2>7, <2>8, <2>9 DEF Ahead
    <2> QED
      BY <1>5, <2>10
  <1> QED
    BY <1>4, <1>5

\* Two parts of what is to come, one after the other.
LEMMA AheadConcat ==
  ASSUME NEW o \in Seq(EventSet), NEW s \in Seq(MessageSet), Ahead(o, s),
         NEW p \in Seq(EventSet), NEW t \in Seq(MessageSet), Ahead(p, t)
  PROVE  Ahead(o \o p, s \o t)
  <1>1. /\ Len(o) \in Nat /\ Len(p) \in Nat /\ Len(s) \in Nat /\ Len(t) \in Nat
        /\ Len(o \o p) = Len(o) + Len(p) /\ Len(s \o t) = Len(s) + Len(t)
        /\ \A i \in 1 .. Len(o) + Len(p) : (o \o p)[i] = IF i <= Len(o) THEN o[i] ELSE p[i - Len(o)]
        /\ \A i \in 1 .. Len(s) + Len(t) : (s \o t)[i] = IF i <= Len(s) THEN s[i] ELSE t[i - Len(s)]
    BY ConcatProperties, LenProperties
  <1>2. PICK a \in [0 .. Len(o) -> 0 .. Len(s)] :
          /\ a[0] = 0 /\ a[Len(o)] = Len(s)
          /\ \A i, j \in 0 .. Len(o) : i <= j => a[i] <= a[j]
          /\ \A i \in 1 .. Len(o) :
               IF o[i].type = "message_end"
               THEN a[i] = a[i - 1] + 1 /\ s[a[i]] = o[i].msg
               ELSE a[i] = a[i - 1]
    BY DEF Ahead
  <1>3. PICK b \in [0 .. Len(p) -> 0 .. Len(t)] :
          /\ b[0] = 0 /\ b[Len(p)] = Len(t)
          /\ \A i, j \in 0 .. Len(p) : i <= j => b[i] <= b[j]
          /\ \A i \in 1 .. Len(p) :
               IF p[i].type = "message_end"
               THEN b[i] = b[i - 1] + 1 /\ t[b[i]] = p[i].msg
               ELSE b[i] = b[i - 1]
    BY DEF Ahead
  <1> DEFINE lo == Len(o)
             lp == Len(p)
             ls == Len(s)
             lt == Len(t)
             n  == lo + lp
             at == [i \in 0 .. n |-> IF i <= lo THEN a[i] ELSE ls + b[i - lo]]
  <1>4. /\ lo \in Nat /\ lp \in Nat /\ ls \in Nat /\ lt \in Nat
        /\ Len(o \o p) = n /\ Len(s \o t) = ls + lt
        /\ \A i \in 1 .. n : (o \o p)[i] = IF i <= lo THEN o[i] ELSE p[i - lo]
        /\ \A i \in 1 .. ls + lt : (s \o t)[i] = IF i <= ls THEN s[i] ELSE t[i - ls]
        /\ a[0] = 0 /\ a[lo] = ls /\ b[0] = 0 /\ b[lp] = lt
        /\ \A i \in 0 .. lo : a[i] \in 0 .. ls
        /\ \A i \in 0 .. lp : b[i] \in 0 .. lt
    BY <1>1, <1>2, <1>3
  <1>5. /\ \A i, j \in 0 .. lo : i <= j => a[i] <= a[j]
        /\ \A i, j \in 0 .. lp : i <= j => b[i] <= b[j]
        /\ \A i \in 1 .. lo :
             IF o[i].type = "message_end" THEN a[i] = a[i - 1] + 1 /\ s[a[i]] = o[i].msg
             ELSE a[i] = a[i - 1]
        /\ \A i \in 1 .. lp :
             IF p[i].type = "message_end" THEN b[i] = b[i - 1] + 1 /\ t[b[i]] = p[i].msg
             ELSE b[i] = b[i - 1]
    BY <1>2, <1>3
  <1> HIDE DEF lo, lp, ls, lt
  <1>6. /\ at = [i \in 0 .. n |-> at[i]]
        /\ \A i \in 0 .. n : at[i] = IF i <= lo THEN a[i] ELSE ls + b[i - lo]
    OBVIOUS
  <1> HIDE DEF at, n
  <1>b. lo \in Nat /\ lp \in Nat /\ ls \in Nat /\ lt \in Nat
    BY <1>4
  <1>a. n = lo + lp /\ n \in Nat
    BY ONLY <1>4 DEF n
  <1>7. ASSUME NEW i \in 0 .. n
        PROVE  \/ i \in 0 .. lo /\ at[i] = a[i] /\ a[i] \in 0 .. ls
               \/ /\ i > lo /\ i - lo \in 1 .. lp /\ at[i] = ls + b[i - lo]
                  /\ b[i - lo] \in 0 .. lt
    <2>1. CASE i <= lo
      <3>1. i \in 0 .. lo
        BY ONLY <1>4, <1>a, <2>1, <1>7
      <3> QED
        BY ONLY <1>4, <1>6, <2>1, <3>1, <1>7
    <2>2. CASE i > lo
      <3>1. i - lo \in 1 .. lp /\ i - lo \in 0 .. lp /\ ~(i <= lo)
        BY ONLY <1>4, <1>a, <2>2, <1>7
      <3> QED
        BY ONLY <1>4, <1>6, <2>2, <3>1, <1>7
    <2> QED
      BY ONLY <1>4, <1>a, <2>1, <2>2, <1>7
  <1>8. at \in [0 .. n -> 0 .. Len(s \o t)]
    <2>1. ASSUME NEW i \in 0 .. n PROVE at[i] \in 0 .. ls + lt
      <3>1. CASE at[i] = a[i] /\ a[i] \in 0 .. ls
        BY ONLY <1>4, <3>1
      <3>2. CASE at[i] = ls + b[i - lo] /\ b[i - lo] \in 0 .. lt
        BY ONLY <1>b, <3>2
      <3> QED
        BY <1>7, <3>1, <3>2
    <2> QED
      BY <1>4, <1>6, <2>1
  <1>9. at[0] = 0
    BY ONLY <1>4, <1>a, <1>6
  <1>10. at[n] = Len(s \o t)
    <2>1. CASE lp = 0
      <3>1. n = lo /\ n \in 0 .. n /\ lt = 0
        BY ONLY <1>4, <1>a, <2>1
      <3> QED
        BY ONLY <1>4, <1>6, <3>1
    <2>2. CASE lp # 0
      <3>1. ~(n <= lo) /\ n - lo = lp /\ n \in 0 .. n
        BY ONLY <1>4, <1>a, <2>2
      <3>2. at[n] = ls + b[lp]
        BY ONLY <1>6, <3>1
      <3> QED
        BY ONLY <1>4, <3>2
    <2> QED
      BY <2>1, <2>2
  <1>11. ASSUME NEW i \in 0 .. n, NEW j \in 0 .. n, i <= j
         PROVE  at[i] <= at[j]
    <2>1. CASE i \in 0 .. lo /\ at[i] = a[i] /\ j \in 0 .. lo /\ at[j] = a[j]
      BY <1>5, <1>11, <2>1
    <2>2. CASE /\ at[i] = a[i] /\ a[i] \in 0 .. ls
               /\ at[j] = ls + b[j - lo] /\ b[j - lo] \in 0 .. lt
      <3> DEFINE x == a[i]
                 y == b[j - lo]
      <3>1. x \in 0 .. ls /\ y \in 0 .. lt
        BY ONLY <2>2
      <3>2. at[i] = x /\ at[j] = ls + y
        BY ONLY <2>2
      <3> HIDE DEF x, y
      <3>3. x <= ls + y
        BY ONLY <1>b, <3>1
      <3> QED
        BY ONLY <3>2, <3>3
    <2>3. CASE i > lo /\ j \in 0 .. lo
      BY ONLY <1>4, <1>a, <1>11, <2>3
    <2>4. CASE /\ i - lo \in 1 .. lp /\ at[i] = ls + b[i - lo] /\ b[i - lo] \in 0 .. lt
               /\ j - lo \in 1 .. lp /\ at[j] = ls + b[j - lo] /\ b[j - lo] \in 0 .. lt
      <3>1. i - lo \in 0 .. lp /\ j - lo \in 0 .. lp /\ i - lo <= j - lo
        BY ONLY <1>4, <1>a, <1>11, <2>4
      <3>2. b[i - lo] <= b[j - lo]
        BY ONLY <1>5, <3>1
      <3> QED
        <4> DEFINE x == b[i - lo]
                   y == b[j - lo]
        <4>1. x \in 0 .. lt /\ y \in 0 .. lt /\ x <= y
          BY ONLY <2>4, <3>2
        <4>2. at[i] = ls + x /\ at[j] = ls + y
          BY ONLY <2>4
        <4> HIDE DEF x, y
        <4>3. ls + x <= ls + y
          BY ONLY <1>b, <4>1
        <4> QED
          BY ONLY <4>2, <4>3
    <2> QED
      BY <1>7, <2>1, <2>2, <2>3, <2>4
  <1>12. ASSUME NEW i \in 1 .. n
         PROVE  IF (o \o p)[i].type = "message_end"
                THEN at[i] = at[i - 1] + 1 /\ (s \o t)[at[i]] = (o \o p)[i].msg
                ELSE at[i] = at[i - 1]
    <2>0. i \in 0 .. n /\ i - 1 \in 0 .. n
      BY ONLY <1>4, <1>a, <1>12
    <2>1. CASE i <= lo
      <3>1. i \in 1 .. lo /\ i - 1 \in 0 .. lo /\ i - 1 <= lo /\ i \in 0 .. lo
        BY ONLY <1>4, <1>a, <2>1, <1>12
      <3>2. (o \o p)[i] = o[i] /\ at[i] = a[i] /\ at[i - 1] = a[i - 1]
        BY ONLY <1>4, <1>6, <2>0, <2>1, <3>1, <1>12
      <3>3. IF o[i].type = "message_end"
            THEN a[i] = a[i - 1] + 1 /\ s[a[i]] = o[i].msg
            ELSE a[i] = a[i - 1]
        BY ONLY <1>5, <3>1
      <3>4. CASE o[i].type = "message_end"
        <4>0. a[i] = a[i - 1] + 1 /\ a[i - 1] \in 0 .. ls /\ a[i] \in 0 .. ls
          BY ONLY <1>4, <3>1, <3>3, <3>4
        <4>1. a[i] \in 1 .. ls + lt /\ a[i] <= ls
          <5> DEFINE x == a[i]
                     y == a[i - 1]
          <5>1. x = y + 1 /\ x \in 0 .. ls /\ y \in 0 .. ls
            BY ONLY <4>0
          <5> HIDE DEF x, y
          <5>2. x \in 1 .. ls + lt /\ x <= ls
            BY ONLY <1>b, <5>1
          <5> QED
            BY ONLY <5>2 DEF x
        <4>2. (s \o t)[a[i]] = s[a[i]]
          BY ONLY <1>4, <4>1
        <4> QED
          BY ONLY <3>2, <3>3, <3>4, <4>2
      <3>5. CASE o[i].type # "message_end"
        BY ONLY <3>2, <3>3, <3>5
      <3> QED
        BY <3>4, <3>5
    <2>2. CASE i > lo
      <3> DEFINE k == i - lo
      <3>1. k \in 1 .. lp /\ k - 1 \in 0 .. lp /\ k \in 0 .. lp /\ ~(i <= lo)
        BY ONLY <1>4, <1>a, <2>2, <1>12
      <3>2. (o \o p)[i] = p[k] /\ at[i] = ls + b[k]
        BY ONLY <1>4, <1>6, <2>0, <3>1, <1>12
      <3>3. at[i - 1] = ls + b[k - 1]
        <4>1. CASE i - 1 <= lo
          <5>1. k - 1 = 0 /\ i - 1 = lo
            BY ONLY <1>4, <1>a, <2>2, <4>1, <1>12
          <5>2. at[i - 1] = a[lo]
            BY ONLY <1>6, <2>0, <4>1, <5>1
          <5> QED
            BY ONLY <1>4, <5>1, <5>2
        <4>2. CASE ~(i - 1 <= lo)
          <5>1. (i - 1) - lo = k - 1
            BY ONLY <1>4, <1>a, <1>12
          <5>2. at[i - 1] = ls + b[(i - 1) - lo]
            BY ONLY <1>6, <2>0, <4>2
          <5> QED
            BY ONLY <5>1, <5>2
        <4> QED
          BY <4>1, <4>2
      <3> HIDE DEF k
      <3>4. IF p[k].type = "message_end"
            THEN b[k] = b[k - 1] + 1 /\ t[b[k]] = p[k].msg
            ELSE b[k] = b[k - 1]
        BY ONLY <1>5, <3>1
      <3>5. b[k] \in 0 .. lt /\ b[k - 1] \in 0 .. lt
        BY ONLY <1>4, <3>1
      <3>6. CASE p[k].type = "message_end"
        <4>0. b[k] = b[k - 1] + 1
          BY ONLY <3>4, <3>6
        <4>1. ~(ls + b[k] <= ls) /\ (ls + b[k]) - ls = b[k]
              /\ ls + b[k] \in 1 .. ls + lt
          BY ONLY <1>b, <3>5, <4>0
        <4>2. (s \o t)[ls + b[k]] = t[b[k]]
          BY ONLY <1>4, <4>1
        <4>3. ls + b[k] = (ls + b[k - 1]) + 1
          BY ONLY <1>4, <3>5, <4>0
        <4> QED
          BY ONLY <3>2, <3>3, <3>4, <3>6, <4>2, <4>3
      <3>7. CASE p[k].type # "message_end"
        BY ONLY <3>2, <3>3, <3>4, <3>7
      <3> QED
        BY <3>6, <3>7
    <2> QED
      <3>1. i <= lo \/ i > lo
        BY ONLY <1>b, <1>a, <1>12
      <3> QED
        BY ONLY <3>1, <2>1, <2>2
  <1>13. Len(o \o p) = n
    BY <1>4
  <1> QED
    BY <1>8, <1>9, <1>10, <1>11, <1>12, <1>13 DEF Ahead

\* The end of one message.
LEMMA AheadEnd ==
  ASSUME NEW m \in MessageSet
  PROVE  Ahead(<<MessageEvent("message_end", m)>>, <<m>>)
  <1> DEFINE o  == <<MessageEvent("message_end", m)>>
             at == [i \in 0 .. 1 |-> i]
  <1>1. Len(o) = 1 /\ Len(<<m>>) = 1 /\ o[1].type = "message_end" /\ o[1].msg = m
    BY DEF MessageEvent
  <1> HIDE DEF o
  <1>2. at \in [0 .. 1 -> 0 .. 1] /\ at[0] = 0 /\ at[1] = 1 /\ \A i \in 0 .. 1 : at[i] = i
    OBVIOUS
  <1> HIDE DEF at
  <1>3. \A i \in 1 .. 1 : i = 1 /\ i - 1 = 0
    OBVIOUS
  <1>4. <<m>>[1] = m
    OBVIOUS
  <1>5. Ahead(o, <<m>>)
    BY <1>1, <1>2, <1>3, <1>4 DEF Ahead
  <1> QED
    BY <1>5 DEF o

\* message_start and message_end of every message of a sequence.
LEMMA AheadAnnounce ==
  ASSUME NEW s \in Seq(MessageSet)
  PROVE  Ahead(Announce(s), s)
  <1> DEFINE o  == Announce(s)
             at == [i \in 0 .. 2 * Len(s) |-> i \div 2]
  <1>1. Len(s) \in Nat /\ o = Announce(s) /\ Len(o) = 2 * Len(s)
    BY LenProperties DEF Announce
  <1>2. \A i \in 1 .. 2 * Len(s) : /\ o[i].type = (IF i % 2 = 1 THEN "message_start" ELSE "message_end")
                                   /\ o[i].msg = s[(i + 1) \div 2]
    BY DEF Announce, MessageEvent
  <1> HIDE DEF o
  <1>3. \A i \in 0 .. 2 * Len(s) : at[i] = i \div 2 /\ i \div 2 \in 0 .. Len(s)
    BY <1>1
  <1>4. at \in [0 .. 2 * Len(s) -> 0 .. Len(s)]
    BY <1>3
  <1> HIDE DEF at
  <1>5. at[0] = 0 /\ at[2 * Len(s)] = Len(s)
    BY <1>1, <1>3
  <1>6. \A i, j \in 0 .. 2 * Len(s) : i <= j => at[i] <= at[j]
    BY <1>1, <1>3
  <1>7. ASSUME NEW i \in 1 .. 2 * Len(s)
        PROVE  IF o[i].type = "message_end"
               THEN at[i] = at[i - 1] + 1 /\ s[at[i]] = o[i].msg
               ELSE at[i] = at[i - 1]
    <2>1. i - 1 \in 0 .. 2 * Len(s) /\ i \in 0 .. 2 * Len(s) /\ i % 2 \in {0, 1}
      BY <1>1
    <2>2. at[i] = i \div 2 /\ at[i - 1] = (i - 1) \div 2
      BY <1>3, <2>1
    <2>3. CASE i % 2 = 1
      <3>1. i \div 2 = (i - 1) \div 2
        BY <1>1, <2>3
      <3> QED
        BY <1>2, <2>2, <2>3, <3>1
    <2>4. CASE i % 2 = 0
      <3>1. i \div 2 = (i - 1) \div 2 + 1 /\ i \div 2 = (i + 1) \div 2
        BY <1>1, <2>4
      <3> QED
        BY <1>2, <2>2, <2>4, <3>1
    <2> QED
      BY <2>1, <2>3, <2>4
  <1>8. Ahead(o, s)
    BY <1>1, <1>4, <1>5, <1>6, <1>7 DEF Ahead
  <1> QED
    BY <1>8 DEF o

-----------------------------------------------------------------------------
(* What the parts of the conversation say of a longer one.                 *)

LEMMA JoinFacts ==
  ASSUME NEW t \in Seq(MessageSet), NEW u \in Seq(MessageSet)
  PROVE  /\ Len(t) \in Nat /\ Len(u) \in Nat
         /\ t \o u \in Seq(MessageSet) /\ Len(t \o u) = Len(t) + Len(u)
         /\ \A i \in 1 .. Len(t) : i \in 1 .. Len(t \o u) /\ (t \o u)[i] = t[i]
         /\ \A i \in 1 .. Len(u) : Len(t) + i \in 1 .. Len(t \o u) /\ (t \o u)[Len(t) + i] = u[i]
         /\ \A i \in 1 .. Len(t \o u) : \/ i \in 1 .. Len(t)
                                        \/ i - Len(t) \in 1 .. Len(u) /\ Len(t) + (i - Len(t)) = i
         /\ u # <<>> => Len(u) \in 1 .. Len(u) /\ (t \o u)[Len(t \o u)] = u[Len(u)]
         /\ t \o <<>> = t /\ <<>> \o t = t /\ Len(<<>>) = 0 /\ <<>> \in Seq(MessageSet)
  <1>1. /\ Len(t) \in Nat /\ Len(u) \in Nat
        /\ t \o u \in Seq(MessageSet) /\ Len(t \o u) = Len(t) + Len(u)
        /\ \A i \in 1 .. Len(t) + Len(u) : (t \o u)[i] = IF i <= Len(t) THEN t[i] ELSE u[i - Len(t)]
    BY ConcatProperties, LenProperties
  <1>2. \A i \in 1 .. Len(t) : i \in 1 .. Len(t) + Len(u) /\ i <= Len(t)
    BY <1>1
  <1>3. ASSUME NEW i \in 1 .. Len(u)
        PROVE  Len(t) + i \in 1 .. Len(t) + Len(u) /\ (t \o u)[Len(t) + i] = u[i]
    <2>1. Len(t) + i \in 1 .. Len(t) + Len(u) /\ ~(Len(t) + i <= Len(t)) /\ (Len(t) + i) - Len(t) = i
      BY <1>1
    <2> QED
      BY <1>1, <2>1
  <1>4. u # <<>> => Len(u) \in 1 .. Len(u)
    BY <1>1, EmptySeq
  <1>5. t \o <<>> = t /\ <<>> \o t = t /\ Len(<<>>) = 0 /\ <<>> \in Seq(MessageSet)
    BY ConcatEmptySeq, EmptySeq
  <1>6. \A i \in 1 .. Len(t \o u) : \/ i \in 1 .. Len(t)
                                    \/ i - Len(t) \in 1 .. Len(u) /\ Len(t) + (i - Len(t)) = i
    BY <1>1
  <1> QED
    BY <1>1, <1>2, <1>3, <1>4, <1>5, <1>6

LEMMA PairsOfParts ==
  ASSUME NEW t \in Seq(MessageSet), NEW u \in Seq(MessageSet), NEW results,
         PairsFit(t \o u, results)
  PROVE  PairsFit(t, results) /\ PairsFit(u, results)
  <1>1. ASSUME NEW i \in 2 .. Len(t), t[i].kind = "followUp"
        PROVE  Stopping(t[i - 1], results)
    <2>1. i \in 2 .. Len(t \o u) /\ i \in 1 .. Len(t) /\ i - 1 \in 1 .. Len(t)
      BY JoinFacts
    <2>2. (t \o u)[i] = t[i] /\ (t \o u)[i - 1] = t[i - 1]
      BY <2>1, JoinFacts
    <2> QED
      BY <1>1, <2>1, <2>2 DEF PairsFit
  <1>2. ASSUME NEW i \in 2 .. Len(u), u[i].kind = "followUp"
        PROVE  Stopping(u[i - 1], results)
    <2>1. /\ Len(t) + i \in 2 .. Len(t \o u) /\ i \in 1 .. Len(u) /\ i - 1 \in 1 .. Len(u)
          /\ (Len(t) + i) - 1 = Len(t) + (i - 1)
      BY JoinFacts
    <2>2. (t \o u)[Len(t) + i] = u[i] /\ (t \o u)[Len(t) + (i - 1)] = u[i - 1]
      BY <2>1, JoinFacts
    <2> QED
      BY <1>2, <2>1, <2>2 DEF PairsFit
  <1> QED
    BY <1>1, <1>2 DEF PairsFit

LEMMA PairsOfWhole ==
  ASSUME NEW t \in Seq(MessageSet), NEW u \in Seq(MessageSet), NEW results,
         PairsFit(t, results), PairsFit(u, results),
         u = <<>> \/ u[1].kind # "followUp" \/ Ready(t, results)
  PROVE  PairsFit(t \o u, results)
  <1> SUFFICES ASSUME NEW i \in 2 .. Len(t \o u), (t \o u)[i].kind = "followUp"
               PROVE  Stopping((t \o u)[i - 1], results)
    BY DEF PairsFit
  <1>1. Len(t) \in Nat /\ Len(u) \in Nat /\ Len(t \o u) = Len(t) + Len(u)
    BY JoinFacts
  <1>2. CASE i <= Len(t)
    <2>1. i \in 2 .. Len(t) /\ i \in 1 .. Len(t) /\ i - 1 \in 1 .. Len(t)
      BY <1>1, <1>2
    <2>2. (t \o u)[i] = t[i] /\ (t \o u)[i - 1] = t[i - 1]
      BY <2>1, JoinFacts
    <2> QED
      BY <2>1, <2>2 DEF PairsFit
  <1>3. CASE i = Len(t) + 1
    <2>1. /\ 1 \in 1 .. Len(u) /\ i = Len(t) + 1 /\ i - 1 = Len(t) /\ Len(t) \in 1 .. Len(t)
          /\ u # <<>> /\ t # <<>>
      BY <1>1, <1>3, EmptySeq
    <2>2. (t \o u)[i] = u[1] /\ (t \o u)[i - 1] = t[Len(t)]
      BY <2>1, JoinFacts
    <2> QED
      BY <2>1, <2>2 DEF Ready
  <1>4. CASE i > Len(t) + 1
    <2> DEFINE k == i - Len(t)
    <2>1. k \in 2 .. Len(u) /\ k \in 1 .. Len(u) /\ k - 1 \in 1 .. Len(u)
          /\ i = Len(t) + k /\ i - 1 = Len(t) + (k - 1)
      <3> DEFINE lt == Len(t)
                 lu == Len(u)
      <3>1. lt \in Nat /\ lu \in Nat /\ i \in 2 .. lt + lu /\ i > lt + 1 /\ k = i - lt
        BY <1>1, <1>4
      <3> HIDE DEF lt, lu, k
      <3>2. k \in 2 .. lu /\ k \in 1 .. lu /\ k - 1 \in 1 .. lu /\ i = lt + k /\ i - 1 = lt + (k - 1)
        BY ONLY <3>1
      <3> QED
        BY ONLY <3>2 DEF lt, lu
    <2> HIDE DEF k
    <2>2. (t \o u)[i] = u[k] /\ (t \o u)[i - 1] = u[k - 1]
      BY <2>1, JoinFacts
    <2> QED
      BY <2>1, <2>2 DEF PairsFit
  <1> QED
    BY <1>1, <1>2, <1>3, <1>4

LEMMA AskedJoin ==
  ASSUME NEW t \in Seq(MessageSet), NEW u \in Seq(MessageSet), NEW at
  PROVE  Asked(t \o u, at) <=> Asked(t, at) /\ Asked(u, at)
  <1>1. ASSUME Asked(t \o u, at) PROVE Asked(t, at) /\ Asked(u, at)
    <2>1. ASSUME NEW i \in 1 .. Len(t), NEW j \in 1 .. Len(t[i].calls)
          PROVE  at[t[i].calls[j]] # "unused"
      <3>1. i \in 1 .. Len(t \o u) /\ (t \o u)[i] = t[i]
        BY JoinFacts
      <3> QED
        BY <1>1, <3>1 DEF Asked
    <2>2. ASSUME NEW i \in 1 .. Len(u), NEW j \in 1 .. Len(u[i].calls)
          PROVE  at[u[i].calls[j]] # "unused"
      <3>1. Len(t) + i \in 1 .. Len(t \o u) /\ (t \o u)[Len(t) + i] = u[i]
        BY JoinFacts
      <3> QED
        BY <1>1, <3>1 DEF Asked
    <2> QED
      BY <2>1, <2>2 DEF Asked
  <1>2. ASSUME Asked(t, at), Asked(u, at) PROVE Asked(t \o u, at)
    <2> SUFFICES ASSUME NEW i \in 1 .. Len(t \o u), NEW j \in 1 .. Len((t \o u)[i].calls)
                 PROVE  at[(t \o u)[i].calls[j]] # "unused"
      BY DEF Asked
    <2>1. CASE i \in 1 .. Len(t)
      BY <1>2, <2>1, JoinFacts DEF Asked
    <2>2. CASE i - Len(t) \in 1 .. Len(u) /\ Len(t) + (i - Len(t)) = i
      <3>1. (t \o u)[i] = u[i - Len(t)]
        BY <2>2, JoinFacts
      <3> QED
        BY <1>2, <2>2, <3>1 DEF Asked
    <2> QED
      BY <2>1, <2>2, JoinFacts
  <1> QED
    BY <1>1, <1>2

\* Messages that ask for no call, and of which no follow-up is the first.
LEMMA NothingAsked ==
  ASSUME NEW u \in Seq(MessageSet), NEW at, \A i \in 1 .. Len(u) : u[i].calls = <<>>
  PROVE  Asked(u, at)
  BY EmptySeq DEF Asked

LEMMA UsersAskNothing ==
  ASSUME NEW u \in Seq(UserSet), NEW at
  PROVE  u \in Seq(MessageSet) /\ Asked(u, at)
  <1>1. u \in Seq(MessageSet)
    BY UsersAreMessages
  <1>2. \A i \in 1 .. Len(u) : u[i].calls = <<>>
    <2>1. \A i \in 1 .. Len(u) : u[i] \in UserSet
      BY ElementOfSeq
    <2> QED
      BY <2>1 DEF UserSet
  <1> QED
    BY <1>1, <1>2, NothingAsked

\* A sequence all of one lane.
LEMMA LanePairs ==
  ASSUME NEW u \in Seq(MessageSet), NEW results,
         AllOf(u, "followUp") \/ \A i \in 1 .. Len(u) : u[i].kind # "followUp"
  PROVE  PairsFit(u, results)
  <1> SUFFICES ASSUME NEW i \in 2 .. Len(u), u[i].kind = "followUp"
               PROVE  Stopping(u[i - 1], results)
    BY DEF PairsFit
  <1>1. Len(u) \in Nat
    BY LenProperties
  <1>2. i \in 1 .. Len(u) /\ i - 1 \in 1 .. Len(u)
    BY <1>1
  <1> QED
    BY <1>2 DEF AllOf, Stopping

-----------------------------------------------------------------------------
(* What no step undoes: a call stays asked for, by the same run, and a     *)
(* result is final.                                                        *)

Grown ==
  \A c \in Calls :
    /\ stage[c] # "unused" => stage'[c] # "unused" /\ owner'[c] = owner[c]
    /\ outcome[c] = "terminate" => outcome'[c] = "terminate"
    /\ stage'[c] \in Undecided => outcome'[c] = "none"

LEMMA GrownRespond ==
  ASSUME Sound, CutOff, OutcomesWait,
         NEW stop \in Stops, NEW k \in 0 .. MaxCallsPerTurn, Respond(stop, k)
  PROVE  Grown
  <1>1. Issued \in Nat /\ \A c \in Calls : stage[c] # "unused" <=> c <= Issued
    BY IssuedType, IssuedAreTheFirst
  <1>2. outcome' = outcome /\ \A c \in Calls :
          \/ stage'[c] = stage[c] /\ owner'[c] = owner[c]
          \/ c \in Issued + 1 .. Issued + k /\ stage'[c] = "requested"
    BY DEF Respond, Request
  <1>3. k \in Nat
    BY AgentAssumption
  <1>4. \A c \in Issued + 1 .. Issued + k : ~(c <= Issued)
    BY <1>1, <1>3
  <1>5. \A c \in Calls : c \in Issued + 1 .. Issued + k => stage[c] = "unused"
    BY <1>1, <1>4
  <1> QED
    BY <1>2, <1>5 DEF Grown, OutcomesWait, Undecided

LEMMA GrownStep ==
  ASSUME Sound, CutOff, OutcomesWait, [Next]_vars
  PROVE  Grown
  <1>0. stage \in [Calls -> Stages] /\ outcome \in [Calls -> Outcomes] /\ owner \in [Calls -> Nat]
    BY DEF Sound, CallsTypeOK
  <1>1. CASE UNCHANGED callVars
    BY <1>1 DEF callVars, Grown, OutcomesWait
  <1>2. CASE StartCall
    BY <1>0, <1>2 DEF StartCall, Start, Grown, OutcomesWait, Undecided
  <1>3. CASE RejectCall
    BY <1>0, <1>3 DEF RejectCall, FailImmediately, Grown, OutcomesWait, Undecided
  <1>4. CASE AdmitCall
    BY <1>0, <1>4 DEF AdmitCall, Prepare, Execute, Grown, OutcomesWait, Undecided
  <1>5. CASE RunPrepared
    BY <1>0, <1>5 DEF RunPrepared, ExecuteAll, Grown, OutcomesWait, Undecided
  <1>6. ASSUME NEW c \in Calls, ToolReturn(c) \/ ToolEnd(c) \/ ToolSettle(c) \/ ToolUpdate(c) \/ ToolFault(c)
        PROVE  Grown
    <2>1. CASE ToolReturn(c)
      BY <1>0, <2>1 DEF ToolReturn, Return, Grown, OutcomesWait, Undecided
    <2>2. CASE ToolEnd(c)
      BY <1>0, <2>2 DEF ToolEnd, EmitEnd, Grown, OutcomesWait, Undecided
    <2>3. CASE ToolSettle(c) \/ ToolFault(c)
      BY <1>0, <2>3 DEF ToolSettle, ToolFault, EndListeners, Grown, OutcomesWait, Undecided
    <2>4. CASE ToolUpdate(c)
      BY <1>0, <2>4 DEF ToolUpdate, Update, Grown, OutcomesWait, Undecided
    <2> QED
      BY <1>6, <2>1, <2>2, <2>3, <2>4
  <1>7. CASE Response
    BY <1>7, GrownRespond DEF Response
  <1>8. CASE UNCHANGED vars
    BY <1>1, <1>8 DEF vars
  <1>9. CASE Application
    <2>1. ASSUME NEW m, NEW b, StartRun(m, b) PROVE UNCHANGED callVars
      BY <2>1 DEF StartRun
    <2>2. CASE Prompt \/ Continue
      BY <1>1, <2>1, <2>2 DEF Prompt, Continue
    <2>3. CASE ~Prompt /\ ~Continue
      BY <1>1, <1>9, <2>3 DEF Application, Steer, FollowUp, ClearSteeringQueue, ClearFollowUpQueue,
                      SetMode, Abort, Reset
    <2> QED
      BY <2>2, <2>3
  <1>10. CASE LoopFault \/ ReportFault \/ BatchFault
    BY <1>1, <1>10 DEF LoopFault, ReportFault, BatchFault, Fail
  <1>11. CASE Emit \/ PollSteering \/ StartTurn \/ PollFollowUps \/ StopAfterTurn \/ StreamStart
              \/ AwaitCall \/ NextCall \/ JoinCalls \/ EndBatch \/ FinishRun
    BY <1>1, <1>11 DEF Emit, PollSteering, StartTurn, PollFollowUps, StopAfterTurn, StreamStart,
                       AwaitCall, NextCall, JoinCalls, EndBatch, FinishRun
  <1> QED
    BY <1>2, <1>3, <1>4, <1>5, <1>6, <1>7, <1>8, <1>9, <1>10, <1>11
    DEF Next, LoopStep, ToolStep, Fault

LEMMA GrownKeeps ==
  ASSUME Grown
  PROVE  /\ OutcomesWait'
         /\ \A m : Stopping(m, outcome) => Stopping(m, outcome')
         /\ \A t : Ready(t, outcome) => Ready(t, outcome')
         /\ \A t : PairsFit(t, outcome) => PairsFit(t, outcome')
         /\ \A t \in Seq(MessageSet) : Asked(t, stage) => Asked(t, stage')
         /\ \A t \in Seq(MessageSet) : Asked(t, stage) =>
              \A i \in 1 .. Len(t) : Asks(t[i], owner', run) => Asks(t[i], owner, run)
  <1>1. OutcomesWait'
    BY DEF Grown, OutcomesWait
  <1>2. \A m : Stopping(m, outcome) => Stopping(m, outcome')
    BY DEF Grown, Stopping
  <1>3. \A t : Ready(t, outcome) => Ready(t, outcome')
    BY <1>2 DEF Ready
  <1>4. \A t : PairsFit(t, outcome) => PairsFit(t, outcome')
    BY <1>2 DEF PairsFit
  <1>5. ASSUME NEW t \in Seq(MessageSet), NEW i \in 1 .. Len(t), NEW j \in 1 .. Len(t[i].calls)
        PROVE  t[i].calls[j] \in Calls
    <2>1. t[i] \in MessageSet
      BY ElementOfSeq
    <2>2. t[i].calls \in Seq(Calls)
      BY <2>1 DEF MessageSet
    <2> QED
      BY <2>2, ElementOfSeq
  <1>6. \A t \in Seq(MessageSet) : Asked(t, stage) => Asked(t, stage')
    BY <1>5 DEF Grown, Asked
  <1>7. ASSUME NEW t \in Seq(MessageSet), Asked(t, stage), NEW i \in 1 .. Len(t),
               Asks(t[i], owner', run)
        PROVE  Asks(t[i], owner, run)
    <2>1. \A j \in 1 .. Len(t[i].calls) : owner'[t[i].calls[j]] = owner[t[i].calls[j]]
      BY <1>5, <1>7 DEF Grown, Asked
    <2> QED
      BY <1>7, <2>1 DEF Asks
  <1> QED
    BY <1>1, <1>2, <1>3, <1>4, <1>6, <1>7

-----------------------------------------------------------------------------
(* The steps that add nothing to the conversation.                         *)

LEMMA TalkKept ==
  ASSUME NEW t \in Seq(MessageSet), Sound, Talk(t), Grown,
         UNCHANGED <<active, run, torn, pc, ctx, pending, hasMore, skipPoll, batch, polledAt>>,
         aborted => aborted', accepted' \in Nat, accepted <= accepted',
         AllOf(steeringQueue', "steer"), AllOf(followUpQueue', "followUp"),
         Later(steeringQueue) => Later(steeringQueue)',
         Later(followUpQueue) => Later(followUpQueue)',
         out' # <<>> => out # <<>> /\ out'[Len(out')] = out[Len(out)]
  PROVE  Talk(t)'
  <1>0. ctx \in Seq(MessageSet) /\ accepted \in Nat /\ polledAt \in Nat
    BY DEF Sound, LoopTypes, HistTypes
  <1>1. FollowUps(t)'
    BY GrownKeeps DEF Talk, FollowUps
  <1>2. Asked(t, stage') /\ Asked(ctx, stage')
    BY <1>0, GrownKeeps DEF Talk
  <1>3. Context(t)'
    BY DEF Talk, Context, InBatch, Told
  <1>4. Answers'
    <2>1. \A i \in 1 .. Len(ctx) : Asks(ctx[i], owner', run) => Asks(ctx[i], owner, run)
      BY <1>0, GrownKeeps DEF Talk
    <2> QED
      BY <2>1 DEF Talk, Answers, InBatch
  <1>5. LooksLast(t)'
    <2>1. polledAt' <= accepted'
      BY <1>0 DEF Talk, LooksLast
    <2> QED
      BY <2>1 DEF Talk, LooksLast
  <1>6. Waits'
    BY DEF Talk, Waits
  <1> QED
    BY <1>1, <1>2, <1>3, <1>4, <1>5, <1>6 DEF Talk

LEMMA ApplicationTalk ==
  ASSUME Sound, Sound', Talking, Grown,
         \/ Steer \/ FollowUp \/ ClearSteeringQueue \/ ClearFollowUpQueue \/ SetMode \/ Abort
  PROVE  Talking'
  <1>1. PICK s \in Seq(MessageSet), t \in Seq(MessageSet) :
          Ahead(out, s) /\ t = messages \o s /\ Talk(t)
    BY DEF Talking
  <1>2. /\ UNCHANGED <<active, run, torn, pc, ctx, pending, hasMore, skipPoll, batch, polledAt, out,
                       messages>>
        /\ aborted => aborted'
        /\ accepted' = accepted \/ accepted' = accepted + 1
    BY DEF Steer, FollowUp, ClearSteeringQueue, ClearFollowUpQueue, SetMode, Abort,
           classVars, loopVars, histVars, lossVars
  <1>3. accepted \in Nat /\ polledAt \in Nat /\ polledAt <= accepted
    BY <1>1 DEF Sound, HistTypes, Talk, LooksLast
  <1>4. accepted' \in Nat /\ accepted <= accepted'
    BY <1>2, <1>3
  <1>5. ASSUME NEW q \in Seq(UserSet), NEW lane \in Lanes
        PROVE  /\ Append(q, User(accepted + 1, lane)) \in Seq(UserSet)
               /\ AllOf(q, lane) => AllOf(Append(q, User(accepted + 1, lane)), lane)
               /\ (\A i \in 1 .. Len(q) : q[i].id > polledAt)
                    => \A i \in 1 .. Len(Append(q, User(accepted + 1, lane))) :
                         Append(q, User(accepted + 1, lane))[i].id > polledAt
    <2> DEFINE u == User(accepted + 1, lane)
    <2>1. u \in UserSet /\ u.kind = lane /\ u.id = accepted + 1
      BY <1>3, MessageTypes DEF User, Message
    <2> HIDE DEF u
    <2>2. /\ Append(q, u) \in Seq(UserSet) /\ Len(Append(q, u)) = Len(q) + 1 /\ Len(q) \in Nat
          /\ \A i \in 1 .. Len(q) + 1 : Append(q, u)[i] = IF i = Len(q) + 1 THEN u ELSE q[i]
      BY <2>1, AppendProperties, LenProperties
    <2>3. u.id > polledAt
      BY <1>3, <2>1
    <2>4. \A i \in 1 .. Len(q) + 1 : i = Len(q) + 1 \/ i \in 1 .. Len(q)
      BY <2>2
    <2>5. AllOf(q, lane) => AllOf(Append(q, u), lane)
      BY <2>1, <2>2, <2>4 DEF AllOf
    <2>6. (\A i \in 1 .. Len(q) : q[i].id > polledAt)
            => \A i \in 1 .. Len(Append(q, u)) : Append(q, u)[i].id > polledAt
      BY <2>2, <2>3, <2>4
    <2> QED
      BY <2>2, <2>5, <2>6 DEF u
  <1>6. steeringQueue \in Seq(UserSet) /\ followUpQueue \in Seq(UserSet)
        /\ AllOf(steeringQueue, "steer") /\ AllOf(followUpQueue, "followUp")
    BY <1>1 DEF Sound, QueueTypes, Talk, FollowUps
  <1>7. /\ AllOf(steeringQueue', "steer") /\ AllOf(followUpQueue', "followUp")
        /\ Later(steeringQueue) => Later(steeringQueue)'
        /\ Later(followUpQueue) => Later(followUpQueue)'
    <2>1. CASE Steer
      <3>1. followUpQueue' = followUpQueue
            /\ steeringQueue' = Append(steeringQueue, User(accepted + 1, "steer"))
        BY <2>1 DEF Steer
      <3> QED
        BY <1>2, <1>5, <1>6, <3>1 DEF Later, Lanes
    <2>2. CASE FollowUp
      <3>1. steeringQueue' = steeringQueue
            /\ followUpQueue' = Append(followUpQueue, User(accepted + 1, "followUp"))
        BY <2>2 DEF FollowUp
      <3> QED
        BY <1>2, <1>5, <1>6, <3>1 DEF Later, Lanes
    <2>3. CASE ~Steer /\ ~FollowUp
      <3>1. /\ steeringQueue' = steeringQueue \/ steeringQueue' = <<>>
            /\ followUpQueue' = followUpQueue \/ followUpQueue' = <<>>
        BY <2>3 DEF ClearSteeringQueue, ClearFollowUpQueue, SetMode, Abort, queueVars
      <3>2. AllOf(<<>>, "steer") /\ AllOf(<<>>, "followUp") /\ Len(<<>>) = 0
        BY EmptySeq DEF AllOf
      <3>3. AllOf(steeringQueue', "steer") /\ AllOf(followUpQueue', "followUp")
        BY <1>6, <3>1, <3>2
      <3>4. Later(steeringQueue) => Later(steeringQueue)'
        BY <1>2, <3>1, <3>2 DEF Later
      <3>5. Later(followUpQueue) => Later(followUpQueue)'
        BY <1>2, <3>1, <3>2 DEF Later
      <3> QED
        BY <3>3, <3>4, <3>5
    <2> QED
      BY <2>1, <2>2, <2>3
  <1>8. Talk(t)'
    BY <1>1, <1>2, <1>4, <1>7, TalkKept
  <1> QED
    BY <1>1, <1>2, <1>8 DEF Talking

LEMMA ToolTalk ==
  ASSUME Sound, Sound', Talking, Grown, NEW c \in Calls,
         ToolStep(c) \/ ToolUpdate(c) \/ ToolFault(c)
  PROVE  Talking'
  <1>1. PICK s \in Seq(MessageSet), t \in Seq(MessageSet) :
          Ahead(out, s) /\ t = messages \o s /\ Talk(t)
    BY DEF Talking
  <1>2. /\ UNCHANGED <<active, run, torn, pc, ctx, pending, hasMore, skipPoll, batch, polledAt, out,
                       messages, aborted, accepted, steeringQueue, followUpQueue>>
    BY DEF ToolStep, ToolUpdate, ToolFault, ToolReturn, ToolEnd, ToolSettle, Reduce, ToolEvent,
           classVars, queueVars, loopVars, histVars, lossVars
  <1>3. accepted \in Nat /\ accepted <= accepted
    BY DEF Sound, HistTypes
  <1>4. /\ AllOf(steeringQueue', "steer") /\ AllOf(followUpQueue', "followUp")
        /\ Later(steeringQueue) => Later(steeringQueue)'
        /\ Later(followUpQueue) => Later(followUpQueue)'
    BY <1>1, <1>2 DEF Talk, FollowUps, Later
  <1>5. Talk(t)'
    BY <1>1, <1>2, <1>3, <1>4, TalkKept
  <1> QED
    BY <1>1, <1>2, <1>5 DEF Talking

\* The next event: a message that ends moves into the transcript.
LEMMA EmitTalk ==
  ASSUME Sound, Sound', Talking, Grown, Emit
  PROVE  Talking'
  <1>1. PICK s \in Seq(MessageSet), t \in Seq(MessageSet) :
          Ahead(out, s) /\ t = messages \o s /\ Talk(t)
    BY DEF Talking
  <1>2. /\ UNCHANGED <<active, run, torn, pc, ctx, pending, hasMore, skipPoll, batch, polledAt,
                       aborted, accepted, steeringQueue, followUpQueue>>
        /\ out' = Tail(out) /\ out # <<>>
        /\ messages' = IF Head(out).type = "message_end" THEN Append(messages, Head(out).msg)
                       ELSE messages
    BY DEF Emit, Reduce, queueVars, lossVars
  <1>3. out \in Seq(EventSet) /\ messages \in Seq(MessageSet) /\ accepted \in Nat
        /\ accepted <= accepted
    BY DEF Sound, LoopTypes, ClassTypes, HistTypes
  <1>4. /\ Len(out) \in Nat \ {0} /\ Head(out) = out[1] /\ Len(Tail(out)) = Len(out) - 1
        /\ \A i \in 1 .. Len(out) - 1 : Tail(out)[i] = out[i + 1]
        /\ Tail(out) \in Seq(EventSet)
    BY <1>2, <1>3, EmptySeq, HeadTailProperties
  <1>5. out' # <<>> => out # <<>> /\ out'[Len(out')] = out[Len(out)]
    <2> SUFFICES ASSUME out' # <<>> PROVE out'[Len(out')] = out[Len(out)]
      BY <1>2
    <2>1. Len(Tail(out)) \in Nat \ {0}
      BY <1>2, <1>4, EmptySeq
    <2>2. Len(Tail(out)) \in 1 .. Len(out) - 1 /\ Len(Tail(out)) + 1 = Len(out)
      BY <1>4, <2>1
    <2> QED
      BY <1>2, <1>4, <2>2
  <1>6. /\ AllOf(steeringQueue', "steer") /\ AllOf(followUpQueue', "followUp")
        /\ Later(steeringQueue) => Later(steeringQueue)'
        /\ Later(followUpQueue) => Later(followUpQueue)'
    BY <1>1, <1>2 DEF Talk, FollowUps, Later
  <1>7. Talk(t)'
    BY <1>1, <1>2, <1>3, <1>5, <1>6, TalkKept
  <1>8. \E r \in Seq(MessageSet) : Ahead(out', r) /\ t = messages' \o r
    <2>1. CASE out[1].type = "message_end"
      <3>1. s # <<>> /\ s[1] = out[1].msg /\ Ahead(Tail(out), Tail(s))
        BY <1>1, <1>2, <1>3, <2>1, AheadTail
      <3>2. Tail(s) \in Seq(MessageSet) /\ s = <<s[1]>> \o Tail(s) /\ s[1] \in MessageSet
            /\ <<s[1]>> \in Seq(MessageSet)
        <4>1. Len(s) \in Nat \ {0} /\ Tail(s) \in Seq(MessageSet) /\ Len(Tail(s)) = Len(s) - 1
              /\ \A i \in 1 .. Len(Tail(s)) : Tail(s)[i] = s[i + 1]
          BY <3>1, EmptySeq, HeadTailProperties
        <4>2. 1 \in 1 .. Len(s) /\ s[1] \in MessageSet
          BY <4>1, ElementOfSeq
        <4>3. <<s[1]>> \in Seq(MessageSet) /\ Len(<<s[1]>>) = 1 /\ <<s[1]>>[1] = s[1]
          BY <4>2, SingleSeq
        <4>4. \A i \in 1 .. Len(<<s[1]>>) : s[i] = <<s[1]>>[i]
          BY <4>3
        <4>5. \A i \in 1 .. Len(Tail(s)) : s[Len(<<s[1]>>) + i] = Tail(s)[i]
          BY <4>1, <4>3
        <4>6. Len(s) = Len(<<s[1]>>) + Len(Tail(s))
          BY <4>1, <4>3
        <4>7. <<s[1]>> \o Tail(s) = s
          BY ONLY <1>1, <4>1, <4>3, <4>4, <4>5, <4>6, Join
        <4> QED
          BY <4>1, <4>2, <4>3, <4>7
      <3>3. messages' = messages \o <<s[1]>>
        <4>1. messages' = Append(messages, s[1])
          BY <1>2, <1>4, <2>1, <3>1
        <4> QED
          BY <1>3, <3>2, <4>1, AppendIsConcat
      <3>4. messages' \o Tail(s) = t
        BY <1>1, <1>3, <3>2, <3>3, ConcatAssociative
      <3> QED
        BY <1>2, <3>1, <3>2, <3>4
    <2>2. CASE out[1].type # "message_end"
      <3>1. Ahead(Tail(out), s)
        BY <1>1, <1>2, <1>3, <2>2, AheadTail
      <3> QED
        BY <1>1, <1>2, <1>4, <2>2, <3>1
    <2> QED
      BY <2>1, <2>2
  <1> QED
    BY <1>7, <1>8 DEF Talking

\* reset() drops what the transcript holds; what is to come still comes.
LEMMA ResetTalk ==
  ASSUME Sound, Sound', Talking, Grown, Reset
  PROVE  Talking'
  <1>1. PICK s \in Seq(MessageSet), t \in Seq(MessageSet) :
          Ahead(out, s) /\ t = messages \o s /\ Talk(t)
    BY DEF Talking
  <1>2. /\ UNCHANGED <<active, pc, ctx, out, pending, hasMore, skipPoll, batch, polledAt, accepted>>
        /\ messages' = <<>> /\ steeringQueue' = <<>> /\ followUpQueue' = <<>> /\ torn' = active
    BY DEF Reset, loopVars
  <1>3. messages \in Seq(MessageSet) /\ ctx \in Seq(MessageSet)
    BY DEF Sound, ClassTypes, LoopTypes
  <1>4. /\ s = <<>> \/ (s[Len(s)] = t[Len(t)] /\ t # <<>>)
        /\ messages' \o s = s
    <2>1. messages' \o s = s
      BY <1>2, ConcatEmptySeq
    <2>2. s # <<>> => t # <<>>
      BY <1>1, <1>3, ConcatEqualIffEmpty
    <2>3. s # <<>> => (messages \o s)[Len(messages \o s)] = s[Len(s)]
      BY <1>3, JoinFacts
    <2>4. s # <<>> => t[Len(t)] = s[Len(s)]
      BY <1>1, <2>3
    <2> QED
      BY <2>1, <2>2, <2>4
  <1>5. PairsFit(s, outcome') /\ OutcomesWait' /\ (Ready(t, outcome) => Ready(s, outcome'))
    BY <1>1, <1>3, <1>4, PairsOfParts, GrownKeeps DEF Talk, FollowUps, Ready
  <1>6. Asked(s, stage') /\ Asked(ctx, stage')
    BY <1>1, <1>3, AskedJoin, GrownKeeps DEF Talk
  <1>7. AllOf(<<>>, "steer") /\ AllOf(<<>>, "followUp") /\ Len(<<>>) = 0
    BY EmptySeq DEF AllOf
  <1>8. FollowUps(s)'
    BY <1>1, <1>2, <1>4, <1>5, <1>7 DEF Talk, FollowUps
  <1>9. LooksLast(s)'
    <2>1. Later(steeringQueue)' /\ Later(followUpQueue)'
      BY <1>2, <1>7 DEF Later
    <2> QED
      BY <1>1, <1>2, <2>1 DEF Talk, LooksLast
  <1>10. Context(s)' /\ Answers' /\ Waits'
    BY <1>1, <1>2 DEF Talk, Context, Answers, Waits
  <1>11. Talk(s)'
    BY <1>2, <1>6, <1>8, <1>9, <1>10 DEF Talk
  <1> QED
    BY <1>1, <1>2, <1>4, <1>11 DEF Talking

-----------------------------------------------------------------------------
(* The steps of runLoop.                                                   *)

\* Where the loop has emitted all it had to, the conversation is the transcript.
LEMMA Quiet ==
  ASSUME Sound, Talking, out = <<>>
  PROVE  messages \in Seq(MessageSet) /\ Talk(messages)
  <1>1. PICK s \in Seq(MessageSet), t \in Seq(MessageSet) :
          Ahead(out, s) /\ t = messages \o s /\ Talk(t)
    BY DEF Talking
  <1>2. messages \in Seq(MessageSet)
    BY DEF Sound, ClassTypes
  <1>3. s = <<>>
    BY <1>1, AheadOfNothing
  <1>4. t = messages
    BY <1>1, <1>2, <1>3, ConcatEmptySeq
  <1> QED
    BY <1>1, <1>2, <1>4

LEMMA NothingAhead == Ahead(<<>>, <<>>)
  <1>1. <<>> \in Seq(EventSet) /\ \A i \in 1 .. Len(<<>>) : FALSE
    BY EmptySeq
  <1> QED
    BY <1>1, AheadNone

\* What a queue gives is of its lane, and it gives nothing only when empty.
LEMMA DrainLanes ==
  ASSUME NEW q \in Seq(UserSet), NEW mode, NEW lane, AllOf(q, lane)
  PROVE  /\ Drained(mode, q) \in Seq(UserSet) /\ Remaining(mode, q) \in Seq(UserSet)
         /\ AllOf(Drained(mode, q), lane) /\ AllOf(Remaining(mode, q), lane)
         /\ Drained(mode, q) = <<>> => q = <<>> /\ Remaining(mode, q) = <<>>
         /\ q # <<>> => Drained(mode, q) # <<>>
  <1>1. AllOf(<<>>, lane) /\ <<>> \in Seq(UserSet)
    BY EmptySeq DEF AllOf
  <1>2. CASE mode = "all" \/ q = <<>>
    BY <1>1, <1>2 DEF Drained, Remaining
  <1>3. CASE mode # "all" /\ q # <<>>
    <2>1. Drained(mode, q) = <<Head(q)>> /\ Remaining(mode, q) = Tail(q)
      BY <1>3 DEF Drained, Remaining
    <2>2. /\ Len(q) \in Nat \ {0} /\ Head(q) = q[1] /\ Head(q) \in UserSet
          /\ Tail(q) \in Seq(UserSet) /\ Len(Tail(q)) = Len(q) - 1
          /\ \A i \in 1 .. Len(q) - 1 : Tail(q)[i] = q[i + 1]
      BY <1>3, EmptySeq, HeadTailProperties
    <2>3. 1 \in 1 .. Len(q) /\ \A i \in 1 .. Len(q) - 1 : i + 1 \in 1 .. Len(q)
      BY <2>2
    <2>4. AllOf(<<Head(q)>>, lane)
      <3>1. Len(<<Head(q)>>) = 1 /\ <<Head(q)>>[1] = Head(q)
        OBVIOUS
      <3> QED
        BY <2>2, <2>3, <3>1 DEF AllOf
    <2>5. AllOf(Tail(q), lane)
      BY <2>2, <2>3 DEF AllOf
    <2>6. <<Head(q)>> \in Seq(UserSet) /\ <<Head(q)>> # <<>>
      BY <2>2, SingleSeq
    <2> QED
      BY <1>3, <2>1, <2>2, <2>4, <2>5, <2>6
  <1> QED
    BY <1>2, <1>3

LEMMA PollSteeringTalk ==
  ASSUME Sound, Sound', Talking, Grown, PollSteering
  PROVE  Talking'
  <1>1. /\ UNCHANGED <<active, run, aborted, torn, messages, followUpQueue, out, ctx, hasMore, batch,
                       accepted>>
        /\ pc \in {"poll", "turnEnd"} /\ pc' = "inner" /\ out = <<>>
        /\ skipPoll' = FALSE /\ polledAt' = accepted
    BY DEF PollSteering, classVars, lossVars
  <1>2. messages \in Seq(MessageSet) /\ Talk(messages)
    BY <1>1, Quiet
  <1>3. /\ steeringQueue \in Seq(UserSet) /\ AllOf(steeringQueue, "steer")
        /\ accepted \in Nat
    BY <1>2 DEF Sound, QueueTypes, HistTypes, Talk, FollowUps
  <1>4. AllOf(steeringQueue', "steer") /\ AllOf(pending', "steer")
    <2>1. AllOf(<<>>, "steer")
      BY EmptySeq DEF AllOf
    <2> QED
      BY <1>3, <2>1, DrainLanes DEF PollSteering
  <1>5. pending' = <<>> /\ ~hasMore => steeringQueue' = <<>>
    <2> SUFFICES ASSUME pending' = <<>>, ~hasMore PROVE steeringQueue' = <<>>
      OBVIOUS
    <2>1. ~skipPoll
      BY <1>1, <1>2 DEF Talk, LooksLast
    <2> QED
      BY <1>3, <2>1, DrainLanes DEF PollSteering
  <1>6. FollowUps(messages)'
    BY <1>1, <1>2, <1>4, GrownKeeps DEF Talk, FollowUps, LooksLast
  <1>7. Asked(messages, stage)' /\ Asked(ctx, stage)'
    BY <1>1, <1>2, GrownKeeps DEF Talk, Sound, LoopTypes
  <1>8. Context(messages)'
    BY <1>1, <1>2 DEF Talk, Context, InBatch
  <1>9. Answers'
    <2>1. owner' = owner
      BY DEF PollSteering, callVars
    <2> QED
      BY <1>1, <1>2, <2>1 DEF Talk, Answers, InBatch
  <1>10. Waits' /\ LooksLast(messages)'
    <2>1. steeringQueue' = <<>> => Later(steeringQueue)'
      BY EmptySeq DEF Later
    <2> QED
      BY <1>1, <1>2, <1>3, <1>5, <2>1 DEF Talk, Waits, LooksLast
  <1>11. Talk(messages)'
    BY <1>6, <1>7, <1>8, <1>9, <1>10 DEF Talk
  <1>12. Ahead(out', <<>>) /\ messages' = messages' \o <<>> /\ <<>> \in Seq(MessageSet)
    BY <1>1, <1>2, NothingAhead, EmptySeq, ConcatEmptySeq
  <1> QED
    BY <1>1, <1>2, <1>11, <1>12 DEF Talking

LEMMA PollFollowUpsTalk ==
  ASSUME Sound, Sound', Talking, Grown, PollFollowUps
  PROVE  Talking'
  <1>1. /\ UNCHANGED <<active, run, aborted, torn, messages, steeringQueue, ctx, skipPoll, batch,
                       accepted, polledAt, owner>>
        /\ pc = "inner" /\ ~hasMore /\ pending = <<>> /\ out = <<>>
        /\ pending' = Drained(followUpMode, followUpQueue)
        /\ followUpQueue' = Remaining(followUpMode, followUpQueue)
        /\ \/ followUpQueue # <<>> /\ hasMore' /\ pc' = "inner" /\ out' = <<>>
           \/ followUpQueue = <<>> /\ pc' = "end" /\ out' = <<Event("agent_end")>> /\ hasMore' = hasMore
    BY DEF PollFollowUps, classVars, callVars, histVars, lossVars
  <1>2. messages \in Seq(MessageSet) /\ Talk(messages)
    BY <1>1, Quiet
  <1>3. followUpQueue \in Seq(UserSet) /\ AllOf(followUpQueue, "followUp")
    BY <1>2 DEF Sound, QueueTypes, Talk, FollowUps
  <1>4. AllOf(followUpQueue', "followUp") /\ AllOf(pending', "followUp")
    BY <1>1, <1>3, DrainLanes
  <1>5. followUpQueue = <<>> => pending' = <<>> /\ followUpQueue' = <<>>
    BY <1>1 DEF Drained, Remaining
  <1>6. Ready(messages, outcome')
    BY <1>1, <1>2, GrownKeeps DEF Talk, FollowUps
  <1>7. FollowUps(messages)'
    BY <1>1, <1>2, <1>4, <1>5, <1>6, GrownKeeps DEF Talk, FollowUps
  <1>8. Asked(messages, stage)' /\ Asked(ctx, stage)'
    BY <1>1, <1>2, GrownKeeps DEF Talk, Sound, LoopTypes
  <1>9. Context(messages)'
    BY <1>1, <1>2 DEF Talk, Context, InBatch
  <1>10. Answers'
    BY <1>1, <1>2 DEF Talk, Answers, InBatch
  <1>11. out' # <<>> => out'[Len(out')].type = "agent_end"
    BY <1>1 DEF Event
  <1>12. Waits' /\ LooksLast(messages)'
    <2>1. followUpQueue' = <<>> => Later(followUpQueue)'
      BY EmptySeq DEF Later
    <2>2. pc' = "end" => Later(steeringQueue)'
      BY <1>1, <1>2 DEF Talk, LooksLast, Later
    <2> QED
      BY <1>1, <1>2, <1>5, <1>11, <2>1, <2>2 DEF Talk, Waits, LooksLast
  <1>13. Talk(messages)'
    BY <1>7, <1>8, <1>9, <1>10, <1>12 DEF Talk
  <1>14. Ahead(out', <<>>)
    <2>1. \A i \in 1 .. Len(out') : out'[i].type # "message_end"
      BY <1>1, EmptySeq DEF Event
    <2> QED
      BY <2>1, AheadNone DEF Sound, LoopTypes
  <1>15. messages' = messages' \o <<>> /\ <<>> \in Seq(MessageSet)
    BY <1>1, <1>2, EmptySeq, ConcatEmptySeq
  <1> QED
    BY <1>1, <1>2, <1>13, <1>14, <1>15 DEF Talking

LEMMA StopTalk ==
  ASSUME Sound, Sound', Talking, Grown, StopAfterTurn
  PROVE  Talking'
  <1>1. /\ UNCHANGED <<active, run, aborted, torn, messages, steeringQueue, followUpQueue, ctx,
                       pending, hasMore, skipPoll, batch, accepted, polledAt, owner>>
        /\ pc = "turnEnd" /\ pc' = "end" /\ out = <<>> /\ out' = <<Event("agent_end")>>
        /\ StopsAfterTurn
    BY DEF StopAfterTurn, classVars, queueVars, callVars, histVars, lossVars
  <1>2. messages \in Seq(MessageSet) /\ Talk(messages)
    BY <1>1, Quiet
  <1>3. FollowUps(messages)'
    BY <1>1, <1>2, GrownKeeps DEF Talk, FollowUps
  <1>4. Asked(messages, stage)' /\ Asked(ctx, stage)'
    BY <1>1, <1>2, GrownKeeps DEF Talk, Sound, LoopTypes
  <1>5. Context(messages)' /\ Answers'
    BY <1>1 DEF Context, Answers, InBatch
  <1>6. out'[Len(out')].type = "agent_end"
    BY <1>1 DEF Event
  <1>7. Waits' /\ LooksLast(messages)'
    BY <1>1, <1>2, <1>6 DEF Talk, Waits, LooksLast
  <1>8. Talk(messages)'
    BY <1>3, <1>4, <1>5, <1>7 DEF Talk
  <1>9. Ahead(out', <<>>)
    <2>1. \A i \in 1 .. Len(out') : out'[i].type # "message_end"
      BY <1>1 DEF Event
    <2> QED
      BY <2>1, AheadNone DEF Sound, LoopTypes
  <1>10. messages' = messages' \o <<>> /\ <<>> \in Seq(MessageSet)
    BY <1>1, <1>2, EmptySeq, ConcatEmptySeq
  <1> QED
    BY <1>1, <1>2, <1>8, <1>9, <1>10 DEF Talking

LEMMA FinishTalk ==
  ASSUME Sound, Sound', Talking, Grown, FinishRun
  PROVE  Talking'
  <1>1. /\ UNCHANGED <<messages, steeringQueue, followUpQueue, out,
                       pending, hasMore, skipPoll, accepted, polledAt>>
        /\ pc \in {"end", "failing"} /\ pc' = "idle" /\ out = <<>> /\ ctx' = <<>> /\ ~active'
        /\ batch' = NoBatch
    BY DEF FinishRun, queueVars, histVars, lossVars
  <1>2. messages \in Seq(MessageSet) /\ Talk(messages)
    BY <1>1, Quiet
  <1>3. FollowUps(messages)'
    BY <1>1, <1>2, GrownKeeps DEF Talk, FollowUps
  <1>4. Asked(messages, stage)' /\ Asked(ctx, stage)'
    <2>1. Asked(<<>>, stage')
      BY EmptySeq DEF Asked
    <2> QED
      BY <1>1, <1>2, <2>1, GrownKeeps DEF Talk
  <1>5. Context(messages)' /\ Answers'
    BY <1>1 DEF Context, Answers
  <1>6. Waits' /\ LooksLast(messages)'
    BY <1>1, <1>2 DEF Talk, Waits, LooksLast
  <1>7. Talk(messages)'
    BY <1>3, <1>4, <1>5, <1>6 DEF Talk
  <1>8. Ahead(out', <<>>) /\ messages' = messages' \o <<>> /\ <<>> \in Seq(MessageSet)
    BY <1>1, <1>2, NothingAhead, EmptySeq, ConcatEmptySeq
  <1> QED
    BY <1>1, <1>2, <1>7, <1>8 DEF Talking

\* The answers stay where they are when the context grows.
LEMMA AnswersStay ==
  ASSUME NEW t \in Seq(MessageSet), NEW u \in Seq(MessageSet), NEW i \in 1 .. Len(t), AnswersIn(t, i)
  PROVE  AnswersIn(t \o u, i)
  <1>1. /\ Len(t) \in Nat /\ Len(u) \in Nat /\ Len(t \o u) = Len(t) + Len(u)
        /\ (t \o u)[i] = t[i] /\ t[i] \in MessageSet
    BY JoinFacts, ElementOfSeq
  <1>2. Len(t[i].calls) \in Nat
    BY <1>1, LenProperties DEF MessageSet
  <1> DEFINE k == Len(t[i].calls)
  <1>3. i + k <= Len(t)
    BY DEF AnswersIn
  <1>4. ASSUME NEW j \in 1 .. k PROVE (t \o u)[i + j] = ToolResult(t[i].calls[j])
    <2>1. i + j \in 1 .. Len(t)
      BY <1>1, <1>2, <1>3
    <2>2. (t \o u)[i + j] = t[i + j]
      BY <2>1, JoinFacts
    <2> QED
      BY <2>2 DEF AnswersIn
  <1>5. i + k <= Len(t \o u)
    BY <1>1, <1>2, <1>3
  <1> QED
    BY <1>1, <1>4, <1>5 DEF AnswersIn

LEMMA UsersAskNobody ==
  ASSUME NEW u \in Seq(UserSet), NEW i \in 1 .. Len(u), NEW whose, NEW r
  PROVE  ~Asks(u[i], whose, r)
  <1>1. u[i] \in UserSet
    BY ElementOfSeq
  <1> QED
    BY <1>1 DEF UserSet, Asks

\* An empty message is answered wherever it stands.
LEMMA NoCallsAnswered ==
  ASSUME NEW t \in Seq(MessageSet), NEW i \in 1 .. Len(t), t[i].calls = <<>>
  PROVE  AnswersIn(t, i)
  <1>1. Len(t) \in Nat /\ Len(t[i].calls) = 0
    BY LenProperties, EmptySeq
  <1> QED
    BY <1>1 DEF AnswersIn

LEMMA StartTurnTalk ==
  ASSUME Sound, Sound', Talking, Grown, StartTurn
  PROVE  Talking'
  <1>1. /\ UNCHANGED <<active, run, aborted, torn, messages, steeringQueue, followUpQueue, hasMore,
                       skipPoll, batch, accepted, polledAt, owner>>
        /\ pc = "inner" /\ pc' = "request" /\ out = <<>>
        /\ out' = (IF firstTurn THEN <<>> ELSE <<Event("turn_start")>>) \o Announce(pending)
        /\ ctx' = ctx \o pending /\ pending' = <<>>
    BY DEF StartTurn, classVars, queueVars, callVars, histVars, lossVars
  <1>2. messages \in Seq(MessageSet) /\ Talk(messages)
    BY <1>1, Quiet
  <1>3. PICK p \in Seq(UserSet) : p = pending
    BY DEF Sound, LoopTypes
  <1>4. PICK c \in Seq(MessageSet) : c = ctx
    BY DEF Sound, LoopTypes
  <1>5. p \in Seq(MessageSet)
    BY UsersAreMessages
  <1>6. PICK t \in Seq(MessageSet) : t = messages \o p
    BY <1>2, <1>5, JoinFacts
  <1>7. PairsFit(t, outcome') /\ OutcomesWait'
    <2>1. p = <<>> \/ p[1].kind # "followUp" \/ Ready(messages, outcome)
      <3>1. p # <<>> => 1 \in 1 .. Len(p)
        BY EmptySeq, LenProperties
      <3> QED
        BY <1>2, <1>3, <3>1 DEF Talk, FollowUps, AllOf
    <2>2. PairsFit(p, outcome)
      BY <1>2, <1>3, <1>5, LanePairs DEF Talk, FollowUps, AllOf
    <2>3. PairsFit(t, outcome)
      BY <1>2, <1>5, <1>6, <2>1, <2>2, PairsOfWhole DEF Talk, FollowUps
    <2> QED
      BY <1>2, <2>3, GrownKeeps DEF Talk, FollowUps
  <1>8. FollowUps(t)'
    <2>1. AllOf(<<>>, "steer")
      BY EmptySeq DEF AllOf
    <2> QED
      BY <1>1, <1>2, <1>7, <2>1 DEF Talk, FollowUps
  <1>9. Asked(t, stage') /\ Asked(ctx', stage')
    <2>1. Asked(messages, stage') /\ Asked(c, stage') /\ Asked(p, stage')
      BY <1>2, <1>4, GrownKeeps, UsersAskNothing DEF Talk
    <2> QED
      BY <1>1, <1>2, <1>3, <1>4, <1>5, <1>6, <2>1, AskedJoin
  <1>10. Context(t)'
    BY <1>1, <1>2, <1>3, <1>6 DEF Talk, Context, InBatch
  <1>11. Answers'
    <2> SUFFICES ASSUME active, ~torn, ~aborted, NEW i \in 1 .. Len(ctx'), Asks(ctx'[i], owner, run)
                 PROVE  AnswersIn(ctx', i)
      BY <1>1, <1>2 DEF Talk, Answers
    <2>1. ctx' = c \o p
      BY <1>1, <1>3, <1>4
    <2>2. CASE i \in 1 .. Len(c)
      <3>1. (c \o p)[i] = c[i]
        BY <1>5, <2>2, JoinFacts
      <3>2. AnswersIn(c, i)
        BY <1>1, <1>2, <1>4, <2>1, <2>2, <3>1 DEF Talk, Answers, InBatch
      <3> QED
        BY <1>5, <2>1, <2>2, <3>2, AnswersStay
    <2>3. CASE i \notin 1 .. Len(c)
      <3>1. i - Len(c) \in 1 .. Len(p) /\ Len(c) + (i - Len(c)) = i
        BY <1>5, <2>1, <2>3, JoinFacts
      <3>2. (c \o p)[i] = p[i - Len(c)]
        BY <1>5, <3>1, JoinFacts
      <3> QED
        BY <2>1, <3>1, <3>2, UsersAskNobody
    <2> QED
      BY <2>2, <2>3
  <1>12. Waits' /\ LooksLast(t)'
    BY <1>1, <1>2 DEF Talk, Waits, LooksLast
  <1>13. Talk(t)'
    BY <1>8, <1>9, <1>10, <1>11, <1>12 DEF Talk
  <1>14. Ahead(out', p)
    <2> DEFINE o == IF firstTurn THEN <<>> ELSE <<Event("turn_start")>>
    <2>1. o \in Seq(EventSet) /\ Ahead(o, <<>>)
      <3>1. CASE firstTurn
        BY <3>1, NothingAhead, EmptySeq
      <3>2. CASE ~firstTurn
        <4>1. o \in Seq(EventSet)
          BY <3>2, EventTypesOf, SingleSeq DEF EventTypes
        <4>2. \A i \in 1 .. Len(o) : o[i].type # "message_end"
          BY <3>2 DEF Event
        <4> QED
          BY <4>1, <4>2, AheadNone
      <3> QED
        BY <3>1, <3>2
    <2>2. PICK b \in Seq(EventSet) : b = o
      BY <2>1
    <2>3. Ahead(b \o Announce(p), <<>> \o p)
      BY <1>5, <2>1, <2>2, AheadConcat, AheadAnnounce, AnnounceType, EmptySeq
    <2>4. <<>> \o p = p
      BY <1>5, ConcatEmptySeq
    <2> QED
      BY <1>1, <1>3, <2>2, <2>3, <2>4
  <1> QED
    BY <1>1, <1>5, <1>6, <1>13, <1>14 DEF Talking

\* A run starts with messages of one lane; follow-ups only where it stopped.
LEMMA StartRunTalk ==
  ASSUME Sound, Sound', Tools, IdleIsClean, Talking, Grown,
         NEW msgs \in Seq(UserSet), NEW skip, StartRun(msgs, skip),
         (\A i \in 1 .. Len(msgs) : msgs[i].kind # "followUp")
           \/ (AllOf(msgs, "followUp") /\ Ready(messages, outcome)),
         accepted' \in Nat, accepted <= accepted',
         AllOf(steeringQueue', "steer"), AllOf(followUpQueue', "followUp")
  PROVE  Talking'
  <1>1. /\ UNCHANGED <<messages, polledAt, torn, owner>>
        /\ ~active /\ active' /\ run' = run + 1 /\ ~aborted'
        /\ out' = <<Event("agent_start"), Event("turn_start")>> \o Announce(msgs)
        /\ ctx' = messages \o msgs /\ pending' = <<>> /\ pc' = "poll"
        /\ hasMore' = TRUE /\ batch' = NoBatch
    BY DEF StartRun, callVars, lossVars
  <1>2. out = <<>> /\ run \in Nat /\ accepted \in Nat /\ polledAt \in Nat
    BY <1>1 DEF IdleIsClean, Sound, ClassTypes, HistTypes
  <1>3. messages \in Seq(MessageSet) /\ Talk(messages)
    BY <1>2, Quiet
  <1>4. msgs \in Seq(MessageSet)
    BY UsersAreMessages
  <1>5. PICK c \in Seq(MessageSet) : c = messages
    BY <1>3
  <1>6. PICK t \in Seq(MessageSet) : t = c \o msgs
    BY <1>4, JoinFacts
  <1>7. PairsFit(t, outcome') /\ OutcomesWait'
    <2>1. msgs = <<>> \/ msgs[1].kind # "followUp" \/ Ready(c, outcome)
      <3>1. msgs # <<>> => 1 \in 1 .. Len(msgs)
        BY EmptySeq, LenProperties
      <3> QED
        BY <1>5, <3>1 DEF AllOf
    <2>2. PairsFit(msgs, outcome)
      BY <1>4, LanePairs
    <2>3. PairsFit(t, outcome)
      BY <1>3, <1>4, <1>5, <1>6, <2>1, <2>2, PairsOfWhole DEF Talk, FollowUps
    <2> QED
      BY <1>3, <2>3, GrownKeeps DEF Talk, FollowUps
  <1>8. FollowUps(t)'
    <2>1. AllOf(<<>>, "steer")
      BY EmptySeq DEF AllOf
    <2> QED
      BY <1>1, <1>7, <2>1 DEF FollowUps
  <1>9. Asked(t, stage') /\ Asked(ctx', stage')
    <2>1. Asked(c, stage') /\ Asked(msgs, stage')
      BY <1>3, <1>5, GrownKeeps, UsersAskNothing DEF Talk
    <2> QED
      BY <1>1, <1>4, <1>5, <1>6, <2>1, AskedJoin
  <1>10. Context(t)'
    BY <1>1, <1>5, <1>6 DEF Context, InBatch
  <1>11. Answers'
    <2> SUFFICES ASSUME NEW i \in 1 .. Len(t), Asks(t[i], owner, run + 1)
                 PROVE  AnswersIn(t, i)
      BY <1>1, <1>5, <1>6 DEF Answers, NoBatch
    <2>0. t[i] \in MessageSet
      BY ElementOfSeq
    <2>1. t[i].calls \in Seq(Calls)
      BY <2>0 DEF MessageSet
    <2>2. ASSUME t[i].calls # <<>> PROVE FALSE
      <3>1. 1 \in 1 .. Len(t[i].calls)
        BY <2>1, <2>2, EmptySeq, LenProperties
      <3>2. t[i].calls[1] \in Calls
        BY <2>1, <3>1, ElementOfSeq
      <3>3. owner[t[i].calls[1]] = run + 1 /\ owner[t[i].calls[1]] <= run
        BY <3>1, <3>2 DEF Asks, Tools, BatchOfRun
      <3> QED
        BY <1>2, <3>3
    <2> QED
      BY <2>2, NoCallsAnswered
  <1>12. Waits' /\ LooksLast(t)'
    <2>1. polledAt' <= accepted'
      BY <1>1, <1>2, <1>3 DEF Talk, LooksLast
    <2> QED
      BY <1>1, <2>1 DEF Waits, LooksLast
  <1>13. Talk(t)'
    BY <1>8, <1>9, <1>10, <1>11, <1>12 DEF Talk
  <1>14. Ahead(out', msgs)
    <2> DEFINE o == <<Event("agent_start"), Event("turn_start")>>
    <2>1. o \in Seq(EventSet)
      BY EventTypesOf DEF EventTypes
    <2>2. Len(o) = 2 /\ o[1].type = "agent_start" /\ o[2].type = "turn_start"
      BY DEF Event
    <2> HIDE DEF o
    <2>3. Ahead(o, <<>>)
      <3>1. \A i \in 1 .. 2 : i = 1 \/ i = 2
        OBVIOUS
      <3> QED
        BY <2>1, <2>2, <3>1, AheadNone
    <2>4. Ahead(o \o Announce(msgs), <<>> \o msgs)
      BY <1>4, <2>1, <2>3, AheadConcat, AheadAnnounce, AnnounceType, EmptySeq
    <2>5. <<>> \o msgs = msgs
      BY <1>4, ConcatEmptySeq
    <2> QED
      BY <1>1, <2>4, <2>5 DEF o
  <1> QED
    BY <1>1, <1>4, <1>5, <1>6, <1>13, <1>14 DEF Talking

LEMMA RunTalk ==
  ASSUME Sound, Sound', Tools, IdleIsClean, Talking, Grown, Prompt \/ Continue
  PROVE  Talking'
  <1>1. /\ steeringQueue \in Seq(UserSet) /\ followUpQueue \in Seq(UserSet) /\ accepted \in Nat
        /\ accepted + 1 \in Nat /\ accepted <= accepted + 1 /\ accepted <= accepted
    BY DEF Sound, QueueTypes, HistTypes
  <1>2. ASSUME NEW msgs, NEW skip, StartRun(msgs, skip)
        PROVE  messages \in Seq(MessageSet) /\ Talk(messages)
    BY <1>2, Quiet DEF StartRun, IdleIsClean
  <1>3. CASE Prompt
    <2> DEFINE u == User(accepted + 1, "prompt")
    <2>1. StartRun(<<u>>, FALSE) /\ UNCHANGED <<steeringQueue, followUpQueue>> /\ accepted' = accepted + 1
      BY <1>3 DEF Prompt
    <2>2. u \in UserSet /\ u.kind = "prompt"
      BY <1>1, MessageTypes DEF User, Message, Lanes
    <2> HIDE DEF u
    <2>3. <<u>> \in Seq(UserSet) /\ \A i \in 1 .. Len(<<u>>) : <<u>>[i].kind # "followUp"
      BY <2>2, SingleSeq
    <2>4. AllOf(steeringQueue, "steer") /\ AllOf(followUpQueue, "followUp")
      BY <1>2, <2>1 DEF Talk, FollowUps
    <2>5. PICK m \in Seq(UserSet) : m = <<u>>
      BY <2>3
    <2> QED
      BY <1>1, <2>1, <2>3, <2>4, <2>5, StartRunTalk
  <1>4. CASE Continue /\ messages[Len(messages)].role # "assistant"
    <2>1. StartRun(<<>>, FALSE) /\ UNCHANGED <<steeringQueue, followUpQueue, accepted>>
      BY <1>4 DEF Continue
    <2>2. <<>> \in Seq(UserSet) /\ \A i \in 1 .. Len(<<>>) : <<>>[i].kind # "followUp"
      BY EmptySeq
    <2>3. AllOf(steeringQueue, "steer") /\ AllOf(followUpQueue, "followUp")
      BY <1>2, <2>1 DEF Talk, FollowUps
    <2> QED
      BY <1>1, <2>1, <2>2, <2>3, StartRunTalk
  <1>5. CASE Continue /\ messages[Len(messages)].role = "assistant"
    <2> DEFINE Steered == /\ StartRun(Drained(steeringMode, steeringQueue), TRUE)
                          /\ steeringQueue' = Remaining(steeringMode, steeringQueue)
                          /\ UNCHANGED followUpQueue
               Followed == /\ StartRun(Drained(followUpMode, followUpQueue), FALSE)
                           /\ followUpQueue' = Remaining(followUpMode, followUpQueue)
                           /\ UNCHANGED steeringQueue
    <2>1. UNCHANGED accepted /\ (Steered \/ Followed)
      BY <1>5 DEF Continue
    <2>2. AllOf(steeringQueue, "steer") /\ AllOf(followUpQueue, "followUp")
      BY <1>2, <2>1 DEF Talk, FollowUps
    <2>3. Ready(messages, outcome)
      BY <1>5 DEF Ready, Stopping
    <2>4. CASE Steered
      <3>1. PICK m \in Seq(UserSet) : m = Drained(steeringMode, steeringQueue)
        BY <1>1, <2>2, DrainLanes
      <3>2. AllOf(m, "steer") /\ AllOf(steeringQueue', "steer")
        BY <1>1, <2>2, <2>4, <3>1, DrainLanes
      <3>3. \A i \in 1 .. Len(m) : m[i].kind # "followUp"
        BY <3>2 DEF AllOf
      <3> QED
        BY <1>1, <2>1, <2>2, <2>4, <3>1, <3>2, <3>3, StartRunTalk
    <2>5. CASE Followed
      <3>1. PICK m \in Seq(UserSet) : m = Drained(followUpMode, followUpQueue)
        BY <1>1, <2>2, DrainLanes
      <3>2. AllOf(m, "followUp") /\ AllOf(followUpQueue', "followUp")
        BY <1>1, <2>2, <2>5, <3>1, DrainLanes
      <3> QED
        BY <1>1, <2>1, <2>2, <2>3, <2>5, <3>1, <3>2, StartRunTalk
    <2> HIDE DEF Steered, Followed
    <2> QED
      BY <2>1, <2>4, <2>5
  <1> QED
    BY <1>3, <1>4, <1>5

LEMMA ResultFacts ==
  \A c : /\ ToolResult(c).role = "toolResult" /\ ToolResult(c).kind = "result"
         /\ ToolResult(c).id = c /\ ToolResult(c).calls = <<>>
  BY DEF ToolResult, Message

\* What does not answer can be left out.
LEMMA AnswersInside ==
  ASSUME NEW t \in Seq(MessageSet), NEW m \in MessageSet, m.role # "toolResult",
         NEW i \in 1 .. Len(t), AnswersIn(t \o <<m>>, i)
  PROVE  AnswersIn(t, i)
  <1>1. /\ Len(t) \in Nat /\ <<m>> \in Seq(MessageSet) /\ Len(<<m>>) = 1 /\ <<m>>[1] = m
        /\ 1 \in 1 .. Len(<<m>>)
    BY LenProperties, SingleSeq
  <1>2. PICK w \in Seq(MessageSet) : w = t \o <<m>>
    BY <1>1, JoinFacts
  <1>3. Len(w) = Len(t) + 1 /\ w[Len(t) + 1] = m /\ \A k \in 1 .. Len(t) : w[k] = t[k]
    BY <1>1, <1>2, JoinFacts
  <1>4. t[i] \in MessageSet
    BY ElementOfSeq
  <1> DEFINE k == Len(t[i].calls)
  <1>5. k \in Nat
    BY <1>4, LenProperties DEF MessageSet
  <1>6. i + k <= Len(w) /\ \A j \in 1 .. k : w[i + j] = ToolResult(t[i].calls[j])
    BY <1>2, <1>3 DEF AnswersIn
  <1>7. ASSUME NEW j \in 1 .. k PROVE i + j # Len(t) + 1
    <2>1. w[i + j].role = "toolResult"
      BY <1>6, ResultFacts
    <2> QED
      BY <1>3, <2>1
  <1> HIDE DEF k
  <1>8. i + k <= Len(t)
    <2>1. CASE k = 0
      BY <1>1, <2>1
    <2>2. CASE k # 0
      <3>1. k \in 1 .. k
        BY <1>5, <2>2
      <3>2. i + k # Len(t) + 1 /\ i + k <= Len(t) + 1
        BY <1>3, <1>6, <1>7, <3>1
      <3>3. i \in Nat /\ Len(t) \in Nat
        BY <1>1
      <3> QED
        BY ONLY <1>5, <3>2, <3>3
    <2> QED
      BY <2>1, <2>2
  <1>9. ASSUME NEW j \in 1 .. k PROVE t[i + j] = ToolResult(t[i].calls[j])
    <2>1. i + j \in 1 .. Len(t)
      BY <1>1, <1>5, <1>8
    <2> QED
      BY <1>3, <1>6, <2>1
  <1> QED
    BY <1>8, <1>9 DEF AnswersIn, k

LEMMA StreamStartTalk ==
  ASSUME Sound, Sound', Talking, Grown, StreamStart
  PROVE  Talking'
  <1>1. /\ UNCHANGED <<active, run, aborted, torn, messages, steeringQueue, followUpQueue, hasMore,
                       pending, skipPoll, batch, accepted, polledAt, owner>>
        /\ pc = "request" /\ pc' = "streaming" /\ out = <<>>
        /\ out' = <<MessageEvent("message_start", Partial)>>
        /\ ctx' = Append(ctx, Partial)
    BY DEF StreamStart, classVars, queueVars, callVars, histVars, lossVars
  <1>2. messages \in Seq(MessageSet) /\ Talk(messages)
    BY <1>1, Quiet
  <1>3. PICK c \in Seq(MessageSet) : c = ctx
    BY DEF Sound, LoopTypes
  <1>4. /\ Partial \in MessageSet /\ <<Partial>> \in Seq(MessageSet) /\ Len(<<Partial>>) = 1
        /\ <<Partial>>[1] = Partial /\ Partial.calls = <<>>
    BY MessageTypes, SingleSeq DEF Partial, Message
  <1>a. PICK p \in Seq(MessageSet) : p = <<Partial>> /\ Len(p) = 1 /\ p[1] = Partial
    BY <1>4
  <1>5. PICK w \in Seq(MessageSet) : w = c \o p /\ w = Append(c, Partial)
    <2>1. Append(c, Partial) = c \o <<Partial>>
      BY <1>4, AppendIsConcat
    <2> QED
      BY <1>a, <2>1, JoinFacts
  <1>6. Len(c) \in Nat /\ Len(w) = Len(c) + 1 /\ w[Len(c) + 1] = Partial
        /\ \A i \in 1 .. Len(c) : w[i] = c[i]
    BY <1>5, <1>4, AppendProperties, LenProperties
  <1>7. FollowUps(messages)'
    BY <1>1, <1>2, GrownKeeps DEF Talk, FollowUps
  <1>8. Asked(messages, stage)' /\ Asked(ctx, stage)'
    <2>1. Asked(messages, stage') /\ Asked(c, stage')
      BY <1>2, <1>3, GrownKeeps DEF Talk
    <2>2. Asked(p, stage')
      <3>1. \A i \in 1 .. Len(p) : p[i].calls = <<>>
        BY <1>4, <1>a
      <3> QED
        BY <3>1, NothingAsked
    <2>3. Asked(w, stage')
      BY <1>5, <2>1, <2>2, AskedJoin
    <2> QED
      BY <1>1, <1>3, <1>5, <2>1, <2>3
  <1>9. Context(messages)'
    BY <1>1, <1>2 DEF Talk, Context, InBatch
  <1>10. Answers'
    <2> SUFFICES ASSUME active, ~torn, ~aborted, NEW i \in 1 .. Len(w), Asks(w[i], owner, run)
                 PROVE  AnswersIn(w, i)
      BY <1>1, <1>2, <1>3, <1>5 DEF Talk, Answers
    <2>1. CASE i \in 1 .. Len(c)
      <3>1. AnswersIn(c, i)
        BY <1>1, <1>2, <1>3, <1>6, <2>1 DEF Talk, Answers, InBatch
      <3> QED
        BY <1>5, <2>1, <3>1, AnswersStay
    <2>2. CASE i \notin 1 .. Len(c)
      <3>1. i = Len(c) + 1
        BY <1>6, <2>2
      <3> QED
        BY <1>4, <1>6, <3>1, NoCallsAnswered
    <2> QED
      BY <2>1, <2>2
  <1>11. Waits' /\ LooksLast(messages)'
    BY <1>1, <1>2 DEF Talk, Waits, LooksLast
  <1>12. Talk(messages)'
    BY <1>7, <1>8, <1>9, <1>10, <1>11 DEF Talk
  <1>13. Ahead(out', <<>>)
    <2>1. \A i \in 1 .. Len(out') : out'[i].type # "message_end"
      BY <1>1 DEF MessageEvent
    <2> QED
      BY <2>1, AheadNone DEF Sound, LoopTypes
  <1>14. messages' = messages' \o <<>> /\ <<>> \in Seq(MessageSet)
    BY <1>1, <1>2, EmptySeq, ConcatEmptySeq
  <1> QED
    BY <1>1, <1>2, <1>12, <1>13, <1>14 DEF Talking

\* The failure message is all that is to come.
LEMMA FailTalk ==
  ASSUME Sound, Sound', Talking, Grown, pc # "idle", Fail
  PROVE  Talking'
  <1> DEFINE m == Assistant(IF aborted THEN "aborted" ELSE "error", <<>>)
             o == <<MessageEvent("message_start", m), MessageEvent("message_end", m),
                    MessageEvent("turn_end", m), Event("agent_end")>>
  <1>1. PICK s \in Seq(MessageSet), u \in Seq(MessageSet) :
          Ahead(out, s) /\ u = messages \o s /\ Talk(u)
    BY DEF Talking
  <1>2. /\ UNCHANGED <<active, run, torn, messages, steeringQueue, followUpQueue, ctx, hasMore,
                       skipPoll, batch, accepted, polledAt>>
        /\ pc' = "failing" /\ pending' = <<>> /\ out' = o
    BY DEF Fail, classVars, queueVars
  <1>3. m \in MessageSet /\ m.kind # "followUp" /\ m.calls = <<>>
    BY MessageTypes, EmptySeq DEF Assistant, Message, Stops
  <1>4. Ahead(o, <<m>>)
    <2> DEFINE e == <<MessageEvent("message_end", m)>>
               a == <<MessageEvent("message_start", m)>>
               z == <<MessageEvent("turn_end", m), Event("agent_end")>>
    <2>1. a \in Seq(EventSet) /\ e \in Seq(EventSet) /\ z \in Seq(EventSet)
      BY <1>3, EventTypesOf, SingleSeq DEF EventTypes
    <2>2. Ahead(e, <<m>>)
      BY <1>3, AheadEnd
    <2>3. Ahead(a, <<>>)
      <3>1. \A i \in 1 .. Len(a) : a[i].type # "message_end"
        BY DEF MessageEvent
      <3> QED
        BY <2>1, <3>1, AheadNone
    <2>4. Ahead(z, <<>>)
      <3>1. Len(z) = 2 /\ z[1].type = "turn_end" /\ z[2].type = "agent_end"
        BY DEF MessageEvent, Event
      <3>2. \A i \in 1 .. 2 : i = 1 \/ i = 2
        OBVIOUS
      <3> HIDE DEF z
      <3> QED
        BY <2>1, <3>1, <3>2, AheadNone
    <2>5. o = (a \o e) \o z
      <3> HIDE DEF m
      <3> QED
        BY DEF MessageEvent, Event
    <2> HIDE DEF a, e, z, m, o
    <2>6. <<>> \o <<m>> = <<m>> /\ <<m>> \o <<>> = <<m>> /\ <<m>> \in Seq(MessageSet)
          /\ <<>> \in Seq(MessageSet)
      BY <1>3, SingleSeq, JoinFacts
    <2>7. Ahead(a \o e, <<m>>) /\ a \o e \in Seq(EventSet)
      BY <2>1, <2>2, <2>3, <2>6, AheadConcat, ConcatProperties
    <2> QED
      BY <2>1, <2>4, <2>5, <2>6, <2>7, AheadConcat
  <1> HIDE DEF m
  <1>5. PICK f \in Seq(MessageSet) : f = <<m>> /\ Len(f) = 1 /\ f[1] = m
    <2>1. <<m>> \in Seq(MessageSet)
      BY <1>3, SingleSeq
    <2>2. Len(<<m>>) = 1 /\ <<m>>[1] = m
      OBVIOUS
    <2> QED
      BY <2>1, <2>2
  <1>6. PICK c \in Seq(MessageSet) : c = messages
    BY DEF Sound, ClassTypes
  <1>7. PICK t \in Seq(MessageSet) : t = c \o f
    BY JoinFacts
  <1>8. PairsFit(t, outcome') /\ OutcomesWait'
    <2>1. PairsFit(c, outcome') /\ OutcomesWait'
      BY <1>1, <1>6, PairsOfParts, GrownKeeps DEF Talk, FollowUps
    <2>2. PairsFit(f, outcome')
      <3>1. \A i \in 1 .. Len(f) : f[i].kind # "followUp"
        BY <1>3, <1>5
      <3> QED
        BY <3>1, LanePairs
    <2> QED
      BY <1>3, <1>5, <1>7, <2>1, <2>2, PairsOfWhole
  <1>9. FollowUps(t)'
    <2>1. AllOf(<<>>, "steer")
      BY EmptySeq DEF AllOf
    <2> QED
      BY <1>1, <1>2, <1>8, <2>1 DEF Talk, FollowUps
  <1>10. Asked(t, stage') /\ Asked(ctx', stage')
    <2>1. Asked(c, stage)
      BY <1>1, <1>6, AskedJoin DEF Talk
    <2>2. Asked(c, stage') /\ Asked(ctx, stage')
      BY <1>1, <2>1, GrownKeeps DEF Talk, Sound, LoopTypes
    <2>3. Asked(f, stage')
      <3>1. \A i \in 1 .. Len(f) : f[i].calls = <<>>
        BY <1>3, <1>5
      <3> QED
        BY <3>1, NothingAsked
    <2> QED
      BY <1>2, <1>7, <2>2, <2>3, AskedJoin
  <1>11. Context(t)' /\ Answers' /\ Waits'
    BY <1>2 DEF Context, Answers, InBatch, Waits
  <1>12. LooksLast(t)'
    BY <1>1, <1>2 DEF Talk, LooksLast
  <1>13. Talk(t)'
    BY <1>9, <1>10, <1>11, <1>12 DEF Talk
  <1> QED
    BY <1>2, <1>4, <1>5, <1>6, <1>7, <1>13 DEF Talking

LEMMA ReportFaultTalk ==
  ASSUME Sound, Sound', Talking, Grown, ReportFault
  PROVE  Talking'
  <1>1. PICK s \in Seq(MessageSet), u \in Seq(MessageSet) :
          Ahead(out, s) /\ u = messages \o s /\ Talk(u)
    BY DEF Talking
  <1>2. /\ UNCHANGED <<active, run, torn, messages, steeringQueue, followUpQueue, ctx, hasMore,
                       pending, skipPoll, batch, accepted, polledAt>>
        /\ pc = "failing" /\ pc' = "failing" /\ out' = <<>>
    BY DEF ReportFault, classVars, queueVars, lossVars
  <1>3. PICK t \in Seq(MessageSet) : t = messages
    BY DEF Sound, ClassTypes
  <1>4. PairsFit(t, outcome') /\ OutcomesWait'
    BY <1>1, <1>3, PairsOfParts, GrownKeeps DEF Talk, FollowUps
  <1>5. FollowUps(t)'
    <2>1. AllOf(<<>>, "steer")
      BY EmptySeq DEF AllOf
    <2> QED
      BY <1>1, <1>2, <1>4, <2>1 DEF Talk, FollowUps
  <1>6. Asked(t, stage') /\ Asked(ctx', stage')
    <2>1. Asked(t, stage)
      BY <1>1, <1>3, AskedJoin DEF Talk
    <2> QED
      BY <1>1, <1>2, <2>1, GrownKeeps DEF Talk, Sound, LoopTypes
  <1>7. Context(t)' /\ Answers' /\ Waits' /\ LooksLast(t)'
    BY <1>1, <1>2 DEF Talk, Context, Answers, InBatch, Waits, LooksLast
  <1>8. Talk(t)'
    BY <1>5, <1>6, <1>7 DEF Talk
  <1>9. Ahead(out', <<>>) /\ t = messages' \o <<>> /\ <<>> \in Seq(MessageSet)
    BY <1>2, <1>3, NothingAhead, EmptySeq, ConcatEmptySeq
  <1> QED
    BY <1>8, <1>9 DEF Talking

\* One message ends, wherever among the events.
LEMMA AheadOne ==
  ASSUME NEW o \in Seq(EventSet), NEW m \in MessageSet, NEW k \in 1 .. Len(o), o[k].msg = m,
         \A i \in 1 .. Len(o) : o[i].type = "message_end" <=> i = k
  PROVE  Ahead(o, <<m>>)
  <1> DEFINE at == [i \in 0 .. Len(o) |-> IF i < k THEN 0 ELSE 1]
  <1>1. Len(o) \in Nat /\ k \in Nat \ {0} /\ k <= Len(o)
    BY LenProperties
  <1>2. Len(<<m>>) = 1 /\ <<m>>[1] = m
    OBVIOUS
  <1>3. at \in [0 .. Len(o) -> 0 .. 1] /\ \A i \in 0 .. Len(o) : at[i] = IF i < k THEN 0 ELSE 1
    BY <1>1
  <1> HIDE DEF at
  <1>4. at[0] = 0 /\ at[Len(o)] = 1
    BY <1>1, <1>3
  <1>5. \A i, j \in 0 .. Len(o) : i <= j => at[i] <= at[j]
    BY <1>1, <1>3
  <1>6. ASSUME NEW i \in 1 .. Len(o)
        PROVE  IF o[i].type = "message_end"
               THEN at[i] = at[i - 1] + 1 /\ <<m>>[at[i]] = o[i].msg
               ELSE at[i] = at[i - 1]
    <2>1. i \in 0 .. Len(o) /\ i - 1 \in 0 .. Len(o)
      BY <1>1
    <2>2. at[i] = (IF i < k THEN 0 ELSE 1) /\ at[i - 1] = (IF i - 1 < k THEN 0 ELSE 1)
      BY <1>3, <2>1
    <2>3. CASE i = k
      BY <1>1, <1>2, <2>2, <2>3
    <2>4. CASE i # k
      BY <1>1, <2>2, <2>4
    <2> QED
      BY <2>3, <2>4
  <1> QED
    BY <1>2, <1>3, <1>4, <1>5, <1>6 DEF Ahead

LEMMA AnswerAhead ==
  ASSUME Sound', NEW stop \in Stops, NEW k \in 0 .. MaxCallsPerTurn, Respond(stop, k),
         NEW m \in MessageSet, m = Assistant(stop, NextCalls(k))
  PROVE  Ahead(out', <<m>>) /\ (pc' = "end" => out'[Len(out')].type = "agent_end")
  <1> DEFINE begin == MessageEvent("message_start", m)
             end   == MessageEvent("message_end", m)
             turn  == MessageEvent("turn_end", m)
             over  == Event("agent_end")
  <1>1. \/ out' = <<end, turn, over>> \/ out' = <<begin, end, turn, over>>
        \/ pc' # "end" /\ (out' = <<end, turn>> \/ out' = <<begin, end, turn>>)
        \/ pc' # "end" /\ (out' = <<end>> \/ out' = <<begin, end>>)
    BY AnswerEvents
  <1>2. /\ begin.type = "message_start" /\ end.type = "message_end" /\ end.msg = m
        /\ turn.type = "turn_end" /\ over.type = "agent_end"
    BY DEF MessageEvent, Event
  <1>3. PICK o \in Seq(EventSet) : o = out'
    BY DEF Sound, LoopTypes
  <1> HIDE DEF begin, end, turn, over
  <1>4. /\ 1 .. 1 = {1} /\ 1 .. 2 = {1, 2} /\ 1 .. 3 = {1, 2, 3} /\ 1 .. 4 = {1, 2, 3, 4}
    OBVIOUS
  <1>5. ASSUME o = <<end, turn, over>> PROVE Ahead(o, <<m>>) /\ o[Len(o)].type = "agent_end"
    <2>1. Len(o) = 3 /\ o[1] = end /\ o[2] = turn /\ o[3] = over
      BY <1>5
    <2>2. 1 \in 1 .. Len(o) /\ \A i \in 1 .. Len(o) : o[i].type = "message_end" <=> i = 1
      BY <1>2, <1>4, <2>1
    <2> QED
      BY <1>2, <2>1, <2>2, AheadOne
  <1>6. ASSUME o = <<begin, end, turn, over>> PROVE Ahead(o, <<m>>) /\ o[Len(o)].type = "agent_end"
    <2>1. Len(o) = 4 /\ o[1] = begin /\ o[2] = end /\ o[3] = turn /\ o[4] = over
      BY <1>6
    <2>2. 2 \in 1 .. Len(o) /\ \A i \in 1 .. Len(o) : o[i].type = "message_end" <=> i = 2
      BY <1>2, <1>4, <2>1
    <2> QED
      BY <1>2, <2>1, <2>2, AheadOne
  <1>7. ASSUME o = <<end, turn>> PROVE Ahead(o, <<m>>)
    <2>1. Len(o) = 2 /\ o[1] = end /\ o[2] = turn
      BY <1>7
    <2>2. 1 \in 1 .. Len(o) /\ \A i \in 1 .. Len(o) : o[i].type = "message_end" <=> i = 1
      BY <1>2, <1>4, <2>1
    <2> QED
      BY <1>2, <2>1, <2>2, AheadOne
  <1>8. ASSUME o = <<begin, end, turn>> PROVE Ahead(o, <<m>>)
    <2>1. Len(o) = 3 /\ o[1] = begin /\ o[2] = end /\ o[3] = turn
      BY <1>8
    <2>2. 2 \in 1 .. Len(o) /\ \A i \in 1 .. Len(o) : o[i].type = "message_end" <=> i = 2
      BY <1>2, <1>4, <2>1
    <2> QED
      BY <1>2, <2>1, <2>2, AheadOne
  <1>9. ASSUME o = <<end>> PROVE Ahead(o, <<m>>)
    <2>1. Len(o) = 1 /\ o[1] = end
      BY <1>9
    <2>2. 1 \in 1 .. Len(o) /\ \A i \in 1 .. Len(o) : o[i].type = "message_end" <=> i = 1
      BY <1>2, <1>4, <2>1
    <2> QED
      BY <1>2, <2>1, <2>2, AheadOne
  <1>10. ASSUME o = <<begin, end>> PROVE Ahead(o, <<m>>)
    <2>1. Len(o) = 2 /\ o[1] = begin /\ o[2] = end
      BY <1>10
    <2>2. 2 \in 1 .. Len(o) /\ \A i \in 1 .. Len(o) : o[i].type = "message_end" <=> i = 2
      BY <1>2, <1>4, <2>1
    <2> QED
      BY <1>2, <2>1, <2>2, AheadOne
  <1> QED
    BY <1>1, <1>3, <1>5, <1>6, <1>7, <1>8, <1>9, <1>10

LEMMA RespondTalk ==
  ASSUME Sound, Sound', Tools, CutOff, Talking, Grown,
         NEW stop \in Stops, NEW k \in 0 .. MaxCallsPerTurn, Respond(stop, k)
  PROVE  Talking'
  <1>1. /\ UNCHANGED <<active, run, aborted, torn, messages, steeringQueue, followUpQueue,
                       pending, skipPoll, accepted, polledAt>>
        /\ pc \in {"request", "streaming"} /\ out = <<>>
        /\ Issued + k <= MaxCalls /\ Request(k, run)
    BY DEF Respond, classVars, queueVars, histVars, lossVars
  <1>2. messages \in Seq(MessageSet) /\ Talk(messages)
    BY <1>1, Quiet
  <1>3. k \in Nat /\ NextCalls(k) \in Seq(Calls)
    BY <1>1, AgentAssumption, NextCallsType
  <1>4. PICK m \in MessageSet : m = Assistant(stop, NextCalls(k))
    BY <1>3, MessageTypes
  <1>5. m.role = "assistant" /\ m.kind = stop /\ m.calls = NextCalls(k)
    BY <1>4 DEF Assistant, Message
  <1>6. PICK f \in Seq(MessageSet) : f = <<m>> /\ Len(f) = 1 /\ f[1] = m
    <2>1. <<m>> \in Seq(MessageSet)
      BY SingleSeq
    <2>2. Len(<<m>>) = 1 /\ <<m>>[1] = m
      OBVIOUS
    <2> QED
      BY <2>1, <2>2
  <1>7. PICK b \in Seq(MessageSet) : b = messages
    BY <1>2
  <1>8. PICK t \in Seq(MessageSet) : t = b \o f
    BY JoinFacts
  <1>9. /\ Len(b) \in Nat /\ Len(t) = Len(b) + 1 /\ t[Len(t)] = m
        /\ \A i \in 1 .. Len(b) : t[i] = b[i]
    <2>1. /\ Len(b) \in Nat /\ Len(t) = Len(b) + 1
          /\ \A i \in 1 .. Len(b) : t[i] = b[i]
      BY <1>6, <1>8, JoinFacts
    <2>2. f # <<>>
      BY <1>6, EmptySeq
    <2>3. t[Len(t)] = f[Len(f)]
      BY <1>8, <2>2, JoinFacts
    <2> QED
      BY <1>6, <2>1, <2>3
  \* Where the loop goes.
  <1>10. \/ stop \in Failed /\ pc' = "end" /\ batch' = batch /\ hasMore' = hasMore
         \/ k = 0 /\ pc' = "turnEnd" /\ batch' = batch
         \/ pc' = "batch" /\ batch'.calls = m.calls /\ batch'.count = 0 /\ ~batch'.cut
    BY <1>5 DEF Respond
  <1>11. Ahead(out', f) /\ (pc' = "end" => out'[Len(out')].type = "agent_end")
    BY <1>4, <1>6, AnswerAhead
  <1>12. Asked(f, stage')
    <2> SUFFICES ASSUME NEW j \in 1 .. Len(m.calls) PROVE stage'[m.calls[j]] # "unused"
      BY <1>6 DEF Asked
    <2>1. j \in 1 .. k /\ m.calls[j] = Issued + j
      BY <1>3, <1>5 DEF NextCalls
    <2>a. PICK n \in Nat : n = Issued
      BY IssuedType
    <2>b. n + j \in 1 .. MaxCalls /\ n + j \in n + 1 .. n + k
      BY <1>1, <1>3, <2>1, <2>a, MaxCallsAssumption
    <2>2. Issued + j \in Calls /\ Issued + j \in Issued + 1 .. Issued + k
      BY <2>a, <2>b DEF Calls
    <2> QED
      BY <1>1, <2>1, <2>2 DEF Request
  <1>13. FollowUps(t)'
    <2>1. PairsFit(b, outcome') /\ OutcomesWait'
      BY <1>2, <1>7, GrownKeeps DEF Talk, FollowUps
    <2>2. m.kind # "followUp"
      BY <1>5 DEF Stops
    <2>3. PairsFit(f, outcome')
      <3>1. \A i \in 1 .. Len(f) : f[i].kind # "followUp"
        BY <1>6, <2>2
      <3> QED
        BY <3>1, LanePairs
    <2>4. PairsFit(t, outcome')
      BY <1>6, <1>8, <2>1, <2>2, <2>3, PairsOfWhole
    <2>5. Ready(t, outcome')
      BY <1>5, <1>9 DEF Ready, Stopping
    <2>6. pending' = <<>> /\ AllOf(<<>>, "steer")
      BY <1>1, <1>2, EmptySeq DEF Talk, FollowUps, AllOf
    <2> QED
      BY <1>1, <1>2, <1>10, <2>1, <2>4, <2>5, <2>6 DEF Talk, FollowUps
  \* The context before, and with the message.
  <1>14. PICK c \in Seq(MessageSet) : c = ctx
    BY DEF Sound, LoopTypes
  <1>15. PICK d \in Seq(MessageSet) : d = ctx'
    BY DEF Sound, LoopTypes
  <1>16. Len(c) \in Nat /\ (pc = "streaming" => c # <<>> /\ Len(c) \in 1 .. Len(c))
    <2>1. Len(c) \in Nat /\ (c # <<>> => Len(c) \in 1 .. Len(c))
      BY EmptySeq, LenProperties
    <2> QED
      BY <1>14, <2>1 DEF Sound, BatchInBounds
  <1>17. Asked(d, stage')
    <2> SUFFICES ASSUME NEW i \in 1 .. Len(d), NEW j \in 1 .. Len(d[i].calls)
                 PROVE  stage'[d[i].calls[j]] # "unused"
      BY DEF Asked
    <2>1. Asked(c, stage')
      BY <1>2, <1>14, GrownKeeps DEF Talk
    <2>2. d[i] = m \/ (i \in 1 .. Len(c) /\ d[i] = c[i])
      <3>1. CASE pc = "streaming"
        <4>1. d = [c EXCEPT ![Len(c)] = m]
          BY <1>4, <1>14, <1>15, <3>1 DEF Respond
        <4> QED
          BY <1>16, <3>1, <4>1
      <3>2. CASE pc # "streaming"
        <4>1. d = Append(c, m)
          BY <1>4, <1>14, <1>15, <3>2 DEF Respond
        <4>2. Len(d) = Len(c) + 1 /\ \A n \in 1 .. Len(c) + 1 : d[n] = IF n = Len(c) + 1 THEN m ELSE c[n]
          BY <4>1, AppendProperties
        <4> QED
          BY <1>16, <4>2
      <3> QED
        BY <3>1, <3>2
    <2>3. CASE d[i] = m
      BY <1>6, <1>12, <2>3 DEF Asked
    <2>4. CASE i \in 1 .. Len(c) /\ d[i] = c[i]
      BY <2>1, <2>4 DEF Asked
    <2> QED
      BY <2>2, <2>3, <2>4
  <1>18. active /\ ~torn => d = t /\ (c = b \/ c = b \o <<Partial>>)
    <2> SUFFICES ASSUME active, ~torn PROVE d = t /\ (c = b \/ c = b \o <<Partial>>)
      OBVIOUS
    <2>0. Partial \in MessageSet /\ t = Append(b, m)
      BY <1>6, <1>8, MessageTypes, AppendIsConcat
    <2>1. CASE pc = "streaming"
      <3>1. c = Append(b, Partial) /\ d = [c EXCEPT ![Len(c)] = m]
        BY <1>1, <1>2, <1>4, <1>7, <1>14, <1>15, <2>1 DEF Talk, Context, Respond
      <3>2. /\ Len(c) = Len(b) + 1 /\ \A i \in 1 .. Len(b) : c[i] = b[i]
            /\ Len(d) = Len(c) /\ d[Len(c)] = m
            /\ \A i \in 1 .. Len(b) : i \in 1 .. Len(c) /\ i # Len(c)
        BY <1>9, <2>0, <3>1, AppendProperties
      <3>a. \A i \in 1 .. Len(c) : i # Len(c) => d[i] = c[i]
        <4>1. PICK n : n = Len(c)
          OBVIOUS
        <4>2. DOMAIN c = 1 .. n
          BY <4>1, LenProperties
        <4>3. d = [c EXCEPT ![n] = m]
          BY <3>1, <4>1
        <4>4. ASSUME NEW i \in 1 .. n, i # n PROVE d[i] = c[i]
          BY <4>2, <4>3, <4>4
        <4> QED
          BY ONLY <4>1, <4>4
      <3>3. \A i \in 1 .. Len(b) : d[i] = c[i]
        BY <3>2, <3>a
      <3>4. Len(d) = Len(t) /\ \A i \in 1 .. Len(d) : d[i] = t[i]
        BY <1>9, <3>2, <3>3
      <3>5. d = t
        BY <3>4, SeqEqual
      <3>6. c = b \o <<Partial>>
        BY <2>0, <3>1, AppendIsConcat
      <3> QED
        BY <3>5, <3>6
    <2>2. CASE pc # "streaming"
      <3>1. c = b /\ d = Append(c, m)
        BY <1>1, <1>2, <1>4, <1>7, <1>14, <1>15, <2>2 DEF Talk, Context, Respond
      <3> QED
        BY <2>0, <3>1
    <2> QED
      BY <2>1, <2>2
  <1>19. Context(t)'
    <2> SUFFICES ASSUME active, ~torn PROVE Context(t)'
      BY <1>1 DEF Context
    <2>1. ctx' = t
      BY <1>15, <1>18
    <2>2. pc' = "batch" => Told' = 0
      BY <1>10 DEF Told
    <2>3. t \o ResultsOf(batch'.calls, 0) = t
      <3>1. ResultsOf(batch'.calls, 0) = <<>>
        BY DEF ResultsOf
      <3> QED
        BY <3>1, ConcatEmptySeq
    <2> QED
      BY <1>10, <2>1, <2>2, <2>3 DEF Context, InBatch
  <1>20. Answers'
    <2> SUFFICES ASSUME active, ~torn, ~aborted, pc' # "end"
                 PROVE  /\ ~batch'.cut
                        /\ \A i \in 1 .. Len(t) :
                             Asks(t[i], owner', run) =>
                               \/ AnswersIn(t, i)
                               \/ InBatch' /\ i = Len(t) /\ t[i].calls = batch'.calls
      BY <1>1, <1>15, <1>18 DEF Answers
    <2>1. ~batch'.cut
      BY <1>1, <1>2, <1>10 DEF Talk, Answers
    <2>2. ASSUME NEW i \in 1 .. Len(b), Asks(t[i], owner', run)
          PROVE  AnswersIn(t, i)
      <3>1. Asks(b[i], owner, run)
        BY <1>2, <1>7, <1>9, <2>2, GrownKeeps DEF Talk
      <3>2. AnswersIn(b, i)
        <4>1. CASE c = b
          BY <1>1, <1>2, <1>14, <3>1, <4>1 DEF Talk, Answers, InBatch
        <4>2. CASE c = b \o <<Partial>>
          <5>1. Partial \in MessageSet /\ Partial.role # "toolResult"
            BY MessageTypes DEF Partial, Message
          <5>2. <<Partial>> \in Seq(MessageSet)
            BY <5>1, SingleSeq
          <5>3. i \in 1 .. Len(c) /\ c[i] = b[i]
            BY <4>2, <5>2, JoinFacts
          <5>4. AnswersIn(c, i)
            BY <1>1, <1>2, <1>14, <3>1, <5>3 DEF Talk, Answers, InBatch
          <5> QED
            BY <4>2, <5>1, <5>4, AnswersInside
        <4> QED
          BY <1>18, <4>1, <4>2
      <3> QED
        BY <1>8, <3>2, AnswersStay
    <2>3. ASSUME NEW i \in 1 .. Len(t), i \notin 1 .. Len(b)
          PROVE  AnswersIn(t, i) \/ (InBatch' /\ i = Len(t) /\ t[i].calls = batch'.calls)
      <3>1. i = Len(t) /\ t[i] = m
        BY <1>9, <2>3
      <3>2. CASE pc' = "batch"
        BY <1>10, <3>1, <3>2 DEF InBatch
      <3>3. CASE pc' # "batch"
        <4>1. NextCalls(k) = <<>>
          <5>1. k = 0
            BY <1>10, <2>1, <3>3
          <5> QED
            BY <5>1 DEF NextCalls
        <4> QED
          BY <1>5, <3>1, <4>1, NoCallsAnswered
      <3> QED
        BY <3>2, <3>3
    <2> QED
      BY <2>1, <2>2, <2>3
  <1>21. Waits' /\ LooksLast(t)'
    <2>1. pc' = "end" => t[Len(t)].kind \in Failed
      BY <1>5, <1>9, <1>10
    <2> QED
      BY <1>1, <1>2, <1>10, <1>11, <2>1 DEF Talk, Waits, LooksLast
  <1>22. Asked(t, stage')
    <2>1. Asked(b, stage')
      BY <1>2, <1>7, GrownKeeps DEF Talk
    <2> QED
      BY <1>8, <1>12, <2>1, AskedJoin
  <1>23. Talk(t)'
    BY <1>13, <1>15, <1>17, <1>19, <1>20, <1>21, <1>22 DEF Talk
  <1> QED
    BY <1>1, <1>7, <1>8, <1>11, <1>23 DEF Talking

-----------------------------------------------------------------------------
(* The steps of a batch.                                                   *)

LEMMA ResultsOfFacts ==
  ASSUME NEW calls, NEW n \in Nat, \A i \in 1 .. n : calls[i] \in Nat
  PROVE  /\ ResultsOf(calls, n) \in Seq(MessageSet) /\ Len(ResultsOf(calls, n)) = n
         /\ \A i \in 1 .. n : ResultsOf(calls, n)[i] = ToolResult(calls[i])
         /\ n = 0 => ResultsOf(calls, n) = <<>>
  BY MessageTypes DEF ResultsOf

LEMMA ResultsOfMore ==
  ASSUME NEW calls, NEW n \in Nat, \A i \in 1 .. n + 1 : calls[i] \in Nat
  PROVE  ResultsOf(calls, n + 1) = ResultsOf(calls, n) \o <<ToolResult(calls[n + 1])>>
  <1>1. PICK m \in MessageSet : m = ToolResult(calls[n + 1])
    <2>1. n + 1 \in 1 .. n + 1
      OBVIOUS
    <2> QED
      BY <2>1, MessageTypes
  <1>2. PICK a \in Seq(MessageSet) : a = ResultsOf(calls, n) /\ Len(a) = n
                                     /\ \A i \in 1 .. n : a[i] = ToolResult(calls[i])
    <2>1. \A i \in 1 .. n : calls[i] \in Nat
      OBVIOUS
    <2> QED
      BY <2>1, ResultsOfFacts
  <1>3. PICK b \in Seq(MessageSet) : b = ResultsOf(calls, n + 1) /\ Len(b) = n + 1
                                     /\ \A i \in 1 .. n + 1 : b[i] = ToolResult(calls[i])
    <2>1. n + 1 \in Nat
      OBVIOUS
    <2> QED
      BY <2>1, ResultsOfFacts
  <1>4. Append(a, m) \in Seq(MessageSet) /\ Len(Append(a, m)) = n + 1
        /\ \A i \in 1 .. n + 1 : Append(a, m)[i] = IF i = n + 1 THEN m ELSE a[i]
    BY <1>2, AppendProperties
  <1>5. \A i \in 1 .. n + 1 : Append(a, m)[i] = b[i]
    BY <1>1, <1>2, <1>3, <1>4
  <1>6. Append(a, m) = b
    BY <1>3, <1>4, <1>5, SeqEqual
  <1>7. Append(a, m) = a \o <<m>>
    BY AppendIsConcat
  <1> QED
    BY <1>1, <1>2, <1>3, <1>6, <1>7

\* A step of a batch, which adds the results u to the conversation.
LEMMA BatchKeeps ==
  ASSUME Sound, Sound', Talk(messages), Grown,
         UNCHANGED <<active, run, aborted, torn, messages, steeringQueue, followUpQueue, ctx,
                     pending, hasMore, skipPoll, accepted, polledAt, owner>>,
         InBatch, InBatch', batch'.calls = batch.calls, ~aborted /\ ~batch.cut => ~batch'.cut, Waits',
         NEW u \in Seq(MessageSet), Ahead(out', u),
         \A i \in 1 .. Len(u) : u[i].kind = "result" /\ u[i].calls = <<>>,
         NEW t \in Seq(MessageSet), t = messages \o u,
         NEW told \in Seq(MessageSet), told = ResultsOf(batch.calls, Told),
         ResultsOf(batch'.calls, Told') = told \o u,
         pc' = "batchEnd" \/ (pc' \in {"batch", "next"} /\ batch'.kind # "parallel") =>
           batch'.count = 0 \/ t = <<>> \/ t[Len(t)] = ToolResult(batch'.calls[batch'.count])
  PROVE  Talking'
  <1>1. messages \in Seq(MessageSet) /\ ctx \in Seq(MessageSet)
    BY DEF Sound, ClassTypes, LoopTypes
  <1>2. PairsFit(t, outcome') /\ OutcomesWait'
    <2>1. PairsFit(messages, outcome') /\ OutcomesWait'
      BY GrownKeeps DEF Talk, FollowUps
    <2>2. PairsFit(u, outcome')
      BY LanePairs
    <2>3. u = <<>> \/ u[1].kind # "followUp"
      <3>1. u # <<>> => 1 \in 1 .. Len(u)
        BY EmptySeq, LenProperties
      <3> QED
        BY <3>1
    <2> QED
      BY <1>1, <2>1, <2>2, <2>3, PairsOfWhole
  <1>3. FollowUps(t)'
    <2>1. pending' = <<>> /\ AllOf(pending', "steer")
      BY EmptySeq DEF Talk, FollowUps, InBatch, AllOf
    <2>2. pc' \notin {"inner", "turnEnd"}
      BY DEF InBatch
    <2>3. AllOf(steeringQueue', "steer") /\ AllOf(followUpQueue', "followUp")
      BY DEF Talk, FollowUps
    <2> QED
      BY <1>2, <2>1, <2>2, <2>3 DEF FollowUps
  <1>4. Asked(t, stage') /\ Asked(ctx', stage')
    <2>1. Asked(messages, stage') /\ Asked(ctx, stage')
      BY <1>1, GrownKeeps DEF Talk
    <2>2. Asked(u, stage')
      BY NothingAsked
    <2> QED
      BY <1>1, <2>1, <2>2, AskedJoin
  <1>5. Context(t)'
    <2> SUFFICES ASSUME active, ~torn PROVE t = ctx \o ResultsOf(batch'.calls, Told')
      BY DEF Context, InBatch
    <2>1. messages = ctx \o told
      BY DEF Talk, Context
    <2>2. (ctx \o told) \o u = ctx \o (told \o u)
      BY <1>1, ConcatAssociative
    <2> QED
      BY <2>1, <2>2
  <1>6. Answers'
    BY DEF Talk, Answers, InBatch
  <1>7. LooksLast(t)'
    <2>1. polledAt' <= accepted' /\ ~skipPoll'
      BY DEF Talk, LooksLast, InBatch
    <2> QED
      BY <2>1 DEF LooksLast, InBatch
  <1>8. Talk(t)'
    BY <1>3, <1>4, <1>5, <1>6, <1>7 DEF Talk
  <1> QED
    BY <1>8 DEF Talking

LEMMA BatchTalk ==
  ASSUME Sound, Sound', Tools, Talking, Grown,
         StartCall \/ RejectCall \/ AdmitCall \/ AwaitCall \/ NextCall \/ RunPrepared \/ JoinCalls
  PROVE  Talking'
  <1>1. /\ UNCHANGED <<active, run, aborted, torn, messages, steeringQueue, followUpQueue, ctx,
                       pending, hasMore, skipPoll, accepted, polledAt, owner>>
        /\ InBatch /\ InBatch'
    BY DEF StartCall, RejectCall, AdmitCall, AwaitCall, NextCall, RunPrepared, JoinCalls, InBatch,
           batchFrame, classVars, queueVars, histVars, lossVars, callVars, Start, FailImmediately,
           Prepare, Execute, ExecuteAll
  <1>2. out = <<>>
    <2>1. CASE pc \notin {"await", "join"}
      BY <2>1 DEF StartCall, RejectCall, AdmitCall, AwaitCall, NextCall, RunPrepared, JoinCalls
    <2>2. CASE pc \in {"await", "join"}
      BY <2>2 DEF Talking, Talk, Waits
    <2> QED
      BY <2>1, <2>2
  <1>3. messages \in Seq(MessageSet) /\ Talk(messages)
    BY <1>2, Quiet
  <1>4. PICK b \in Seq(MessageSet) : b = messages
    BY <1>3
  <1>5. PICK n \in Nat : n = batch.count
    BY DEF Sound, LoopTypes, BatchSet
  <1>6. PICK calls \in Seq(Calls) : calls = batch.calls
    BY DEF Sound, LoopTypes, BatchSet
  <1>7. n \in 0 .. Len(calls) /\ (pc \in {"prepare", "await", "next"} => n # 0)
        /\ \A i \in 1 .. Len(calls) : calls[i] \in Nat
    <2>1. n \in 0 .. Len(calls)
      BY <1>5, <1>6, BatchFacts
    <2>2. pc \in {"prepare", "await", "next"} => n # 0
      BY <1>5 DEF Sound, BatchInBounds
    <2>3. \A i \in 1 .. Len(calls) : calls[i] \in Nat
      BY <1>6, BatchFacts
    <2> QED
      BY <2>1, <2>2, <2>3
  <1>8. \A k \in 0 .. n : ResultsOf(calls, k) \in Seq(MessageSet) /\ k \in Nat
    <2> SUFFICES ASSUME NEW k \in 0 .. n PROVE ResultsOf(calls, k) \in Seq(MessageSet) /\ k \in Nat
      OBVIOUS
    <2>1. k \in Nat /\ \A i \in 1 .. k : i \in 1 .. Len(calls)
      BY <1>7, LenProperties
    <2> QED
      BY <1>7, <2>1, ResultsOfFacts
  <1>9. Told \in 0 .. n
    BY <1>5, <1>7 DEF Told
  <1>10. PICK told \in Seq(MessageSet) : told = ResultsOf(calls, Told)
    BY <1>8, <1>9
  <1>11. b \o <<>> = b /\ told \o <<>> = told /\ <<>> \in Seq(MessageSet) /\ Len(<<>>) = 0
    BY ConcatEmptySeq, EmptySeq
  <1>12. PICK none \in Seq(MessageSet) : none = <<>> /\ Len(none) = 0
    BY <1>11
  \* The steps that say nothing.
  <1>13. ASSUME batch'.calls = batch.calls, ~aborted /\ ~batch.cut => ~batch'.cut, Waits',
                Ahead(out', <<>>), Told' = Told,
                pc' = "batchEnd" \/ (pc' \in {"batch", "next"} /\ batch'.kind # "parallel") =>
                  batch'.count = 0 \/ b = <<>> \/ b[Len(b)] = ToolResult(batch'.calls[batch'.count])
         PROVE  Talking'
    <2>1. Ahead(out', none) /\ b = messages \o none /\ told = ResultsOf(batch.calls, Told)
          /\ ResultsOf(batch'.calls, Told') = told \o none
      BY <1>4, <1>6, <1>10, <1>11, <1>12, <1>13
    <2>2. \A i \in 1 .. Len(none) : none[i].kind = "result" /\ none[i].calls = <<>>
      BY <1>12
    <2> QED
      BY <1>1, <1>3, <1>13, <2>1, <2>2, BatchKeeps
  \* Those that say the result of the current call.
  <1>14. ASSUME pc \in {"prepare", "await"}, batch' = batch, pc' = "next", batch.kind # "parallel",
                Ahead(out', <<ToolResult(Current)>>)
         PROVE  Talking'
    <2>1. n \in 1 .. Len(calls) /\ n - 1 \in Nat /\ (n - 1) + 1 = n
      BY <1>7, <1>14
    <2>2. PICK r \in MessageSet : r = ToolResult(Current) /\ r = ToolResult(calls[n])
      BY <1>5, <1>6, <1>7, <2>1, MessageTypes DEF Current
    <2>3. PICK u \in Seq(MessageSet) : u = <<r>> /\ Len(u) = 1 /\ u[1] = r
      <3>1. <<r>> \in Seq(MessageSet)
        BY SingleSeq
      <3>2. Len(<<r>>) = 1 /\ <<r>>[1] = r
        OBVIOUS
      <3> QED
        BY <3>1, <3>2
    <2>4. PICK t \in Seq(MessageSet) : t = b \o u
      BY JoinFacts
    <2>5. Told = n - 1 /\ Told' = n
      BY <1>5, <1>14 DEF Told
    <2>6. ResultsOf(calls, n) = told \o u
      <3>1. \A i \in 1 .. (n - 1) + 1 : calls[i] \in Nat
        BY <1>7, <2>1
      <3>2. ResultsOf(calls, (n - 1) + 1) = ResultsOf(calls, n - 1) \o <<ToolResult(calls[(n - 1) + 1])>>
        BY <2>1, <3>1, ResultsOfMore
      <3> QED
        BY <1>10, <2>1, <2>2, <2>3, <2>5, <3>2
    <2>7. t[Len(t)] = r
      <3>1. u # <<>>
        BY <2>3, EmptySeq
      <3> QED
        BY <2>3, <2>4, <3>1, JoinFacts
    <2>8. \A i \in 1 .. Len(u) : u[i].kind = "result" /\ u[i].calls = <<>>
      BY <2>2, <2>3, ResultFacts
    <2>9. Waits'
      BY <1>14 DEF Waits
    <2>10. Ahead(out', u) /\ told = ResultsOf(batch.calls, Told)
           /\ ResultsOf(batch'.calls, Told') = told \o u /\ t = messages \o u
      BY <1>4, <1>6, <1>10, <1>14, <2>2, <2>3, <2>4, <2>5, <2>6
    <2>11. t[Len(t)] = ToolResult(batch'.calls[batch'.count])
      BY <1>5, <1>6, <1>14, <2>2, <2>7
    <2> QED
      BY <1>1, <1>3, <1>14, <2>8, <2>9, <2>10, <2>11, BatchKeeps
  <1>15. CASE StartCall
    <2>1. /\ batch'.calls = batch.calls /\ batch'.cut = batch.cut /\ batch'.kind = batch.kind
          /\ batch'.count = batch.count + 1 /\ pc = "batch" /\ pc' = "prepare"
          /\ out' = <<ToolEvent("tool_execution_start", batch.calls[batch.count + 1])>>
      BY <1>15 DEF StartCall, Sound, LoopTypes, BatchSet
    <2>2. Told' = Told /\ Waits'
      BY <1>5, <2>1 DEF Told, Waits
    <2>3. Ahead(out', <<>>)
      <3>1. \A i \in 1 .. Len(out') : out'[i].type # "message_end"
        BY <2>1 DEF ToolEvent
      <3> QED
        BY <3>1, AheadNone DEF Sound, LoopTypes
    <2> QED
      BY <1>13, <2>1, <2>2, <2>3
  <1>16. CASE RejectCall
    <2> DEFINE e == <<ToolEvent("tool_execution_end", Current)>>
    <2>1. /\ batch' = batch /\ pc = "prepare" /\ pc' = "next"
          /\ out' = e \o (IF batch.kind = "parallel" THEN <<>> ELSE Announce(<<ToolResult(Current)>>))
      BY <1>16 DEF RejectCall
    <2>2. e \in Seq(EventSet) /\ Ahead(e, <<>>)
      <3>1. Current \in Nat
        BY <2>1, BatchFacts
      <3>2. e \in Seq(EventSet)
        BY <3>1, EventTypesOf, SingleSeq DEF EventTypes
      <3>3. \A i \in 1 .. Len(e) : e[i].type # "message_end"
        BY DEF ToolEvent
      <3> QED
        BY <3>2, <3>3, AheadNone
    <2>3. PICK o \in Seq(EventSet) : o = e
      BY <2>2
    <2>4. CASE batch.kind = "parallel"
      <3>1. out' = o
        <4>1. o \o <<>> = o
          BY ConcatEmptySeq
        <4> QED
          BY <2>1, <2>3, <2>4, <4>1
      <3>2. Told' = Told /\ Waits'
        BY <2>1, <2>4 DEF Told, Waits
      <3> QED
        BY <1>13, <2>1, <2>2, <2>3, <2>4, <3>1, <3>2
    <2>5. CASE batch.kind # "parallel"
      <3>1. PICK r \in MessageSet : r = ToolResult(Current)
        BY <2>1, BatchFacts, MessageTypes
      <3>2. <<r>> \in Seq(MessageSet)
        BY SingleSeq
      <3>3. Ahead(o \o Announce(<<r>>), <<>> \o <<r>>) /\ <<>> \o <<r>> = <<r>>
        BY <1>11, <2>2, <2>3, <3>2, AheadConcat, AheadAnnounce, AnnounceType, ConcatEmptySeq
      <3>4. Ahead(out', <<r>>)
        BY <2>1, <2>3, <2>5, <3>1, <3>3
      <3> QED
        BY <1>14, <2>1, <2>5, <3>1, <3>4
    <2> QED
      BY <2>4, <2>5
  <1>17. CASE AdmitCall
    <2>1. /\ batch' = batch /\ out' = out /\ pc = "prepare"
          /\ IF batch.kind = "parallel" THEN pc' = "next" ELSE pc' = "await"
      BY <1>17 DEF AdmitCall
    <2>2. Told' = Told /\ Waits'
      BY <1>2, <2>1 DEF Told, Waits
    <2> QED
      BY <1>2, <1>13, <2>1, <2>2, NothingAhead
  <1>18. CASE AwaitCall
    <2>1. batch' = batch /\ pc = "await" /\ pc' = "next" /\ out' = Announce(<<ToolResult(Current)>>)
      BY <1>18 DEF AwaitCall
    <2>2. batch.kind # "parallel"
      BY <1>3, <2>1 DEF Talk, Waits
    <2>3. PICK r \in MessageSet : r = ToolResult(Current)
      BY <2>1, BatchFacts, MessageTypes
    <2>4. Ahead(Announce(<<r>>), <<r>>)
      BY SingleSeq, AheadAnnounce
    <2> QED
      BY <1>14, <2>1, <2>2, <2>3, <2>4
  <1>19. CASE NextCall
    <2> DEFINE cut == aborted /\ batch.kind # "length"
    <2>1. batch' = [batch EXCEPT !.cut = cut] /\ pc = "next" /\ pc' = "batch" /\ out' = out
      BY <1>19, Zenon DEF NextCall
    <2>2. cut \in BOOLEAN /\ (~aborted => ~cut)
      OBVIOUS
    <2> HIDE DEF cut
    <2>3. /\ batch'.calls = batch.calls /\ batch'.cut = cut /\ batch'.kind = batch.kind
          /\ batch'.count = batch.count
      BY <2>1, <2>2 DEF Sound, LoopTypes, BatchSet
    <2>4. Told' = Told /\ Waits'
      BY <2>1, <2>3 DEF Told, Waits
    <2>5. batch.kind # "parallel" => n = 0 \/ b = <<>> \/ b[Len(b)] = ToolResult(calls[n])
      BY <1>3, <1>4, <1>5, <1>6, <2>1 DEF Talk, FollowUps
    <2> QED
      BY <1>2, <1>5, <1>6, <1>13, <2>1, <2>2, <2>3, <2>4, <2>5, NothingAhead
  <1>20. CASE RunPrepared
    <2>1. /\ batch' = batch /\ out' = out /\ pc = "batch" /\ pc' = "join" /\ batch.kind = "parallel"
          /\ batch.cut \/ batch.count = Len(batch.calls)
      BY <1>20 DEF RunPrepared, AllBegun
    <2>2. Told' = Told /\ Waits'
      BY <1>2, <2>1 DEF Told, Waits
    <2> QED
      BY <1>2, <1>13, <2>1, <2>2, NothingAhead
  <1>21. CASE JoinCalls
    <2>1. /\ batch' = batch /\ pc = "join" /\ pc' = "batchEnd"
          /\ out' = Announce(ResultsOf(calls, n))
      BY <1>5, <1>6, <1>21 DEF JoinCalls, Results, ResultsOf
    <2>2. batch.kind = "parallel" /\ (batch.cut \/ batch.count = Len(batch.calls))
      BY <1>3, <2>1 DEF Tools, BatchOfRun, Talk, Waits
    <2>3. Told = 0 /\ Told' = n
      BY <1>5, <2>1, <2>2 DEF Told
    <2>a. \A i \in 1 .. n : calls[i] \in Nat
      BY <1>7, LenProperties
    <2>4. PICK u \in Seq(MessageSet) : u = ResultsOf(calls, n)
      BY <2>a, ResultsOfFacts
    <2>5. Len(u) = n /\ (\A i \in 1 .. n : u[i] = ToolResult(calls[i])) /\ (n = 0 => u = <<>>)
      BY <2>a, <2>4, ResultsOfFacts
    <2>6. told = <<>>
      BY <1>10, <2>3 DEF ResultsOf
    <2>7. PICK t \in Seq(MessageSet) : t = b \o u
      BY JoinFacts
    <2>8. n = 0 \/ t[Len(t)] = ToolResult(calls[n])
      <3>1. n # 0 => u # <<>> /\ n \in 1 .. n
        BY <2>5, EmptySeq
      <3> QED
        BY <2>5, <2>7, <3>1, JoinFacts
    <2>9. \A i \in 1 .. Len(u) : u[i].kind = "result" /\ u[i].calls = <<>>
      BY <2>5, ResultFacts
    <2>10. Waits'
      BY <2>1, <2>2 DEF Waits
    <2>11. Ahead(out', u) /\ told = ResultsOf(batch.calls, Told)
           /\ ResultsOf(batch'.calls, Told') = told \o u /\ t = messages \o u
      <3>1. <<>> \o u = u
        BY ConcatEmptySeq
      <3> QED
        BY <1>4, <1>6, <1>10, <2>1, <2>3, <2>4, <2>6, <2>7, <3>1, AheadAnnounce
    <2>12. batch'.count = 0 \/ t[Len(t)] = ToolResult(batch'.calls[batch'.count])
      BY <1>5, <1>6, <2>1, <2>8
    <2> QED
      BY <1>1, <1>3, <2>1, <2>9, <2>10, <2>11, <2>12, BatchKeeps
  <1> QED
    BY <1>15, <1>16, <1>17, <1>18, <1>19, <1>20, <1>21

LEMMA EndBatchTalk ==
  ASSUME Sound, Sound', Tools, Talking, Grown, EndBatch
  PROVE  Talking'
  <1>1. /\ UNCHANGED <<active, run, aborted, torn, messages, steeringQueue, followUpQueue,
                       pending, skipPoll, accepted, polledAt, owner, outcome>>
        /\ pc = "batchEnd" \/ (pc = "batch" /\ batch.kind # "parallel" /\ AllBegun)
        /\ pc' = "turnEnd" /\ out = <<>> /\ out' = <<Event("turn_end")>> /\ batch' = NoBatch
        /\ hasMore' = ~Terminates
    BY DEF EndBatch, classVars, queueVars, histVars, lossVars, callVars
  <1>2. messages \in Seq(MessageSet) /\ Talk(messages)
    BY <1>1, Quiet
  <1>3. PICK b \in Seq(MessageSet) : b = messages
    BY <1>2
  <1>4. PICK c \in Seq(MessageSet) : c = ctx
    BY DEF Sound, LoopTypes
  <1>5. PICK n \in Nat : n = batch.count
    BY DEF Sound, LoopTypes, BatchSet
  <1>6. PICK calls \in Seq(Calls) : calls = batch.calls
    BY DEF Sound, LoopTypes, BatchSet
  <1>7. n \in 0 .. Len(calls) /\ Len(calls) \in Nat /\ \A i \in 1 .. n : calls[i] \in Calls /\ calls[i] \in Nat
    <2>1. n \in 0 .. Len(calls) /\ Len(calls) \in Nat
      BY <1>5, <1>6, BatchFacts
    <2>2. \A i \in 1 .. Len(calls) : calls[i] \in Calls /\ calls[i] \in Nat
      BY <1>6, BatchFacts
    <2> QED
      BY <2>1, <2>2
  <1>8. PICK r \in Seq(MessageSet) : r = ResultsOf(calls, n)
    BY <1>7, ResultsOfFacts
  <1>9. Len(r) = n /\ \A i \in 1 .. n : r[i] = ToolResult(calls[i])
    BY <1>7, <1>8, ResultsOfFacts
  <1>10. ctx' = c \o r
    BY <1>4, <1>5, <1>6, <1>8 DEF EndBatch, Results, ResultsOf
  <1>11. active /\ ~torn => b = c \o r
    <2>1. Told = n
      BY <1>1, <1>5 DEF Told
    <2> QED
      BY <1>1, <1>2, <1>3, <1>4, <1>6, <1>8, <2>1 DEF Talk, Context, InBatch
  <1>12. ~hasMore' => Ready(messages, outcome)
    <2> SUFFICES ASSUME Terminates, messages # <<>> PROVE Ready(messages, outcome)
      BY <1>1 DEF Ready
    <2>1. n \in 1 .. n /\ calls[n] \in BegunSet
      BY <1>5, <1>6 DEF Terminates, BegunSet
    <2>2. outcome[calls[n]] = "terminate" /\ calls[n] \in Calls
      BY <1>7, <2>1 DEF Terminates
    <2>3. messages[Len(messages)] = ToolResult(calls[n])
      BY <1>1, <1>2, <1>5, <1>6, <2>1 DEF Talk, FollowUps
    <2> QED
      BY <2>2, <2>3, ResultFacts DEF Ready, Stopping
  <1>13. FollowUps(messages)'
    <2>1. pending' = <<>> /\ AllOf(pending', "steer")
      BY <1>1, <1>2, EmptySeq DEF Talk, FollowUps, AllOf
    <2> QED
      BY <1>1, <1>2, <1>12, <2>1, GrownKeeps DEF Talk, FollowUps
  <1>14. Asked(messages, stage') /\ Asked(ctx', stage')
    <2>1. Asked(messages, stage') /\ Asked(c, stage')
      BY <1>2, <1>4, GrownKeeps DEF Talk
    <2>2. \A i \in 1 .. Len(r) : r[i].calls = <<>>
      BY <1>9, ResultFacts
    <2> QED
      BY <1>10, <2>1, <2>2, NothingAsked, AskedJoin
  <1>15. Context(messages)'
    BY <1>1, <1>3, <1>10, <1>11 DEF Context, InBatch
  <1>16. Answers'
    <2> SUFFICES ASSUME active, ~torn, ~aborted
                 PROVE  \A i \in 1 .. Len(b) : Asks(b[i], owner, run) => AnswersIn(b, i)
      BY <1>1, <1>10, <1>11 DEF Answers, NoBatch
    <2>1. n = Len(calls)
      BY <1>1, <1>2, <1>5, <1>6 DEF Talk, Answers, Waits, AllBegun
    <2>2. ASSUME NEW i \in 1 .. Len(b), Asks(b[i], owner, run)
          PROVE  AnswersIn(b, i)
      <3>1. CASE i \in 1 .. Len(c)
        <4>1. c[i] = b[i]
          BY <1>11, <3>1, JoinFacts
        <4>2. AnswersIn(c, i) \/ (i = Len(c) /\ c[i].calls = calls)
          BY <1>1, <1>2, <1>4, <1>6, <2>2, <3>1, <4>1 DEF Talk, Answers
        <4>3. CASE AnswersIn(c, i)
          BY <1>11, <3>1, <4>3, AnswersStay
        <4>4. CASE i = Len(c) /\ c[i].calls = calls
          <5>a. b = c \o r
            BY <1>11
          <5>b. /\ Len(c \o r) = Len(c) + Len(r)
                /\ \A j \in 1 .. Len(r) : (c \o r)[Len(c) + j] = r[j]
            BY JoinFacts
          <5>1. Len(b) = Len(c) + n /\ \A j \in 1 .. n : b[Len(c) + j] = r[j]
            BY <1>9, <5>a, <5>b
          <5> QED
            BY <1>9, <2>1, <4>1, <4>4, <5>1 DEF AnswersIn
        <4> QED
          BY <4>2, <4>3, <4>4
      <3>2. CASE i \notin 1 .. Len(c)
        <4>1. i - Len(c) \in 1 .. Len(r) /\ b[Len(c) + (i - Len(c))] = r[i - Len(c)]
              /\ Len(c) + (i - Len(c)) = i
          BY <1>11, <2>2, <3>2, JoinFacts
        <4>2. b[i].role = "toolResult"
          BY <1>9, <4>1, ResultFacts
        <4> QED
          BY <2>2, <4>2 DEF Asks
      <3> QED
        BY <3>1, <3>2
    <2> QED
      BY <2>2
  <1>17. Waits' /\ LooksLast(messages)'
    BY <1>1, <1>2 DEF Talk, Waits, LooksLast
  <1>18. Talk(messages)'
    BY <1>1, <1>13, <1>14, <1>15, <1>16, <1>17 DEF Talk
  <1>19. Ahead(out', <<>>)
    <2>1. \A i \in 1 .. Len(out') : out'[i].type # "message_end"
      BY <1>1 DEF Event
    <2> QED
      BY <2>1, AheadNone DEF Sound, LoopTypes
  <1>20. messages' = messages' \o <<>> /\ <<>> \in Seq(MessageSet)
    BY <1>1, <1>2, EmptySeq, ConcatEmptySeq
  <1> QED
    BY <1>1, <1>2, <1>18, <1>19, <1>20 DEF Talking

-----------------------------------------------------------------------------
(* The conversation, in every reachable state.                             *)

LEMMA TalkInit == Init => Talking
  <1> SUFFICES ASSUME Init PROVE Talking
    OBVIOUS
  <1>1. Len(<<>>) = 0 /\ <<>> \in Seq(MessageSet) /\ <<>> \o <<>> = <<>>
    BY EmptySeq, ConcatEmptySeq
  <1>2. PairsFit(<<>>, outcome) /\ Asked(<<>>, stage) /\ AllOf(<<>>, "steer") /\ AllOf(<<>>, "followUp")
    BY <1>1 DEF PairsFit, Asked, AllOf
  <1>3. OutcomesWait
    BY DEF Init, CallsInit, OutcomesWait
  <1>4. FollowUps(<<>>) /\ Context(<<>>) /\ Answers /\ Waits /\ LooksLast(<<>>)
    BY <1>2, <1>3 DEF Init, FollowUps, Context, Answers, Waits, LooksLast
  <1>5. Talk(<<>>)
    BY <1>2, <1>4 DEF Init, Talk
  <1> QED
    BY <1>1, <1>5, NothingAhead DEF Init, Talking

LEMMA TalkStep ==
  ASSUME Sound, Sound', CutOff, Tools, IdleIsClean, Talking, [Next]_vars
  PROVE  Talking'
  <1>1. Grown
    <2>1. OutcomesWait
      BY DEF Talking, Talk, FollowUps
    <2> QED
      BY <2>1, GrownStep
  <1>2. CASE UNCHANGED vars
    <2>1. PICK s \in Seq(MessageSet), t \in Seq(MessageSet) :
            Ahead(out, s) /\ t = messages \o s /\ Talk(t)
      BY DEF Talking
    <2>2. UNCHANGED <<classVars, queueVars, loopVars, histVars>>
      BY <1>2 DEF vars
    <2>3. UNCHANGED <<active, run, torn, pc, ctx, pending, hasMore, skipPoll, batch, polledAt, out,
                      messages, aborted, accepted, steeringQueue, followUpQueue>>
      BY <2>2 DEF classVars, queueVars, loopVars, histVars, lossVars
    <2>4. accepted \in Nat /\ accepted <= accepted
      BY DEF Sound, HistTypes
    <2>5. /\ AllOf(steeringQueue', "steer") /\ AllOf(followUpQueue', "followUp")
          /\ Later(steeringQueue) => Later(steeringQueue)'
          /\ Later(followUpQueue) => Later(followUpQueue)'
      BY <2>1, <2>3 DEF Talk, FollowUps, Later
    <2>6. Talk(t)'
      BY <1>1, <2>1, <2>3, <2>4, <2>5, TalkKept
    <2> QED
      BY <2>1, <2>3, <2>6 DEF Talking
  <1>3. CASE LoopStep
    <2>1. CASE Emit
      BY <1>1, <2>1, EmitTalk
    <2>2. CASE PollSteering
      BY <1>1, <2>2, PollSteeringTalk
    <2>3. CASE StartTurn
      BY <1>1, <2>3, StartTurnTalk
    <2>4. CASE PollFollowUps
      BY <1>1, <2>4, PollFollowUpsTalk
    <2>5. CASE StopAfterTurn
      BY <1>1, <2>5, StopTalk
    <2>6. CASE StreamStart
      BY <1>1, <2>6, StreamStartTalk
    <2>7. CASE Response
      BY <1>1, <2>7, RespondTalk DEF Response
    <2>8. CASE StartCall \/ RejectCall \/ AdmitCall \/ AwaitCall \/ NextCall \/ RunPrepared \/ JoinCalls
      BY <1>1, <2>8, BatchTalk
    <2>9. CASE EndBatch
      BY <1>1, <2>9, EndBatchTalk
    <2>10. CASE BatchFault
      <3>1. pc # "idle" /\ Fail
        BY <2>10 DEF BatchFault
      <3> QED
        BY <1>1, <3>1, FailTalk
    <2>11. CASE FinishRun
      BY <1>1, <2>11, FinishTalk
    <2> QED
      BY <1>3, <2>1, <2>2, <2>3, <2>4, <2>5, <2>6, <2>7, <2>8, <2>9, <2>10, <2>11 DEF LoopStep
  <1>4. CASE Application
    BY <1>1, <1>4, RunTalk, ApplicationTalk, ResetTalk DEF Application
  <1>5. CASE LoopFault
    <2>1. pc # "idle" /\ Fail
      BY <1>5 DEF LoopFault
    <2> QED
      BY <1>1, <2>1, FailTalk
  <1>6. CASE ReportFault
    BY <1>1, <1>6, ReportFaultTalk
  <1>7. ASSUME NEW c \in Calls, ToolStep(c) \/ ToolUpdate(c) \/ ToolFault(c)
        PROVE  Talking'
    BY <1>1, <1>7, ToolTalk
  <1> QED
    BY <1>2, <1>3, <1>4, <1>5, <1>6, <1>7 DEF Next, Fault

LEMMA TalkInvariant == Spec => [](Sound /\ IdleIsClean /\ Talking)
  <1>1. Init => Talking
    BY TalkInit
  <1>2. Spec => []Sound
    <2>1. Init => Sound
      BY SoundInit
    <2>2. Sound /\ [Next]_vars => Sound'
      BY SoundStep
    <2> QED
      BY <2>1, <2>2, PTL DEF Spec
  <1>3. Spec => []CutOff
    <2>1. Init => CutOff
      BY CutOffInit
    <2>2. Sound /\ Sound' /\ CutOff /\ [Next]_vars => CutOff'
      BY CutOffStep
    <2> QED
      BY <1>2, <2>1, <2>2, PTL DEF Spec
  <1>4. Sound /\ Sound' /\ CutOff /\ Tools /\ IdleIsClean /\ Talking /\ [Next]_vars => Talking'
    BY TalkStep
  <1> QED
    BY <1>1, <1>2, <1>3, <1>4, IdleAgentIsClean, ToolsInvariant, PTL DEF Spec

\* Whenever a provider is asked, the loop's own copy of the conversation is
\* the transcript, whatever was steered, queued or aborted on the way there.
THEOREM ContextMatches == Spec => []ContextIsTranscript
  <1>1. Sound /\ IdleIsClean /\ Talking => ContextIsTranscript
    <2> SUFFICES ASSUME Sound, IdleIsClean, Talking, pc = "request", out = <<>>, ~torn
                 PROVE  ctx = messages
      BY DEF ContextIsTranscript
    <2>1. Talk(messages) /\ active
      BY Quiet DEF IdleIsClean
    <2> QED
      BY <2>1 DEF Talk, Context
  <1> QED
    BY <1>1, TalkInvariant, PTL

\* A provider is never asked with a call of the run unanswered: every call of
\* the transcript is followed by its result, in the order of the calls.
THEOREM CallsAreAnswered == Spec => []EveryCallAnswered
  <1>1. Sound /\ IdleIsClean /\ Talking => EveryCallAnswered
    <2> SUFFICES ASSUME Sound, IdleIsClean, Talking, pc = "request", out = <<>>, ~torn, ~aborted,
                        NEW i \in 1 .. Len(messages), Asks(messages[i], owner, run)
                 PROVE  AnswersFollow(i)
      BY DEF EveryCallAnswered, Asks
    <2>1. Talk(messages) /\ active
      BY Quiet DEF IdleIsClean
    <2>2. ctx = messages
      BY <2>1 DEF Talk, Context
    <2>3. AnswersIn(messages, i)
      BY <2>1, <2>2 DEF Talk, Answers, InBatch
    <2> QED
      BY <2>3 DEF AnswersIn, AnswersFollow
  <1> QED
    BY <1>1, TalkInvariant, PTL

\* A turn is over with its tools, and what they said is in the transcript.
THEOREM TurnsAreComplete == Spec => []TurnsAreWhole
  <1>1. EveryCallAnswered /\ NoToolOutlivesItsTurn => TurnsAreWhole
    BY DEF TurnsAreWhole
  <1> QED
    BY <1>1, CallsAreAnswered, TurnsJoinTheirTools, PTL

\* No follow-up cuts in, no message is left behind by a run that stops of its
\* own accord, and what the model is shown is what is recorded: for any number
\* of messages, in either queue mode, whatever the application does meanwhile.
THEOREM EveryMessageInItsPlace == Spec => []MessagesInPlace
  <1>1. Sound /\ Talking => FollowUpOnlyWhenStopping
    <2> SUFFICES ASSUME Sound, Talking PROVE FollowUpOnlyWhenStopping
      OBVIOUS
    <2>1. PICK s \in Seq(MessageSet), t \in Seq(MessageSet) :
            Ahead(out, s) /\ t = messages \o s /\ Talk(t)
      BY DEF Talking
    <2>2. PairsFit(messages, outcome)
      BY <2>1, PairsOfParts DEF Talk, FollowUps, Sound, ClassTypes
    <2> QED
      BY <2>2 DEF PairsFit, Stopping, FollowUpOnlyWhenStopping
  <1>2. Sound /\ Talking => NobodyLeftBehind
    <2> SUFFICES ASSUME Sound, Talking, pc = "end", Len(out) <= 1, ~StopsAfterTurn,
                        messages # <<>>, messages[Len(messages)].kind \notin Failed,
                        NEW n \in UserIds(steeringQueue \o followUpQueue)
                 PROVE  n > polledAt
      BY DEF NobodyLeftBehind
    <2>1. PICK s \in Seq(MessageSet), t \in Seq(MessageSet) :
            Ahead(out, s) /\ t = messages \o s /\ Talk(t)
      BY DEF Talking
    <2>2. PICK o \in Seq(EventSet) : o = out
      BY DEF Sound, LoopTypes
    <2>3. s = <<>>
      <3>1. CASE o = <<>>
        BY <2>1, <2>2, <3>1, AheadOfNothing
      <3>2. CASE o # <<>>
        <4>1. Len(o) = 1 /\ Tail(o) = <<>>
          <5>1. Len(o) \in Nat \ {0} /\ Tail(o) \in Seq(EventSet) /\ Len(Tail(o)) = Len(o) - 1
            BY <3>2, EmptySeq, LenProperties, HeadTailProperties
          <5>2. Len(o) = 1 /\ Len(Tail(o)) = 0
            BY <2>2, <5>1
          <5> QED
            BY <5>1, <5>2, EmptySeq
        <4>2. o[1].type # "message_end"
          BY <2>1, <2>2, <3>2, <4>1 DEF Talk, LooksLast
        <4>3. Ahead(<<>>, s)
          BY <2>1, <2>2, <3>2, <4>1, <4>2, AheadTail
        <4> QED
          BY <4>3, AheadOfNothing
      <3> QED
        BY <3>1, <3>2
    <2>4. t = messages
      BY <2>1, <2>3, ConcatEmptySeq DEF Sound, ClassTypes
    <2>5. Later(steeringQueue) /\ Later(followUpQueue)
      BY <2>1, <2>4 DEF Talk, LooksLast
    <2>6. PICK q \in Seq(MessageSet), p \in Seq(MessageSet) : q = steeringQueue /\ p = followUpQueue
      BY UsersAreMessages DEF Sound, QueueTypes
    <2>7. PICK i \in 1 .. Len(q \o p) : n = (q \o p)[i].id
      BY <2>6 DEF UserIds
    <2>8. CASE i \in 1 .. Len(q)
      <3>1. (q \o p)[i] = q[i]
        BY <2>8, JoinFacts
      <3> QED
        BY <2>5, <2>6, <2>7, <2>8, <3>1 DEF Later
    <2>9. CASE i \notin 1 .. Len(q)
      <3>1. i - Len(q) \in 1 .. Len(p) /\ Len(q) + (i - Len(q)) = i
        BY <2>7, <2>9, JoinFacts
      <3>2. (q \o p)[i] = p[i - Len(q)]
        BY <3>1, JoinFacts
      <3> QED
        BY <2>5, <2>6, <2>7, <3>1, <3>2 DEF Later
    <2> QED
      BY <2>8, <2>9
  <1>3. FollowUpOnlyWhenStopping /\ NobodyLeftBehind /\ ContextIsTranscript => MessagesInPlace
    BY DEF MessagesInPlace
  <1> QED
    BY <1>1, <1>2, <1>3, ContextMatches, TalkInvariant, PTL

-----------------------------------------------------------------------------
(* The mailbox: the messages of a lane, wherever the agent holds them.     *)

LEMMA Least ==
  ASSUME NEW S \in SUBSET Nat, S # {}
  PROVE  \E x \in S : \A y \in S : x <= y
  <1> DEFINE R == {ss \in Nat \X Nat : ss[1] < ss[2]}
  <1>1. IsWellFoundedOn(R, Nat)
    BY NatLessThanWellFounded DEF OpToRel
  <1>2. PICK z \in S : \A y \in S : <<y, z>> \notin R
    <2> HIDE DEF R
    <2> QED
      BY <1>1, WFMin
  <1>3. \A y \in S : z <= y
    <2> SUFFICES ASSUME NEW y \in S, y < z PROVE FALSE
      OBVIOUS
    <2>1. <<y, z>> \in R
      OBVIOUS
    <2> QED
      BY <1>2, <2>1
  <1> QED
    BY <1>3

\* How the messages of these kinds are gathered, n messages looked at.
Gathers(kinds, f, s, N) ==
  /\ DOMAIN f = 0..N /\ f[0] = <<>>
  /\ \A n \in 1..N : f[n] = IF s[n].kind \in kinds THEN Append(f[n - 1], s[n]) ELSE f[n - 1]

Gathering(kinds, f, s, N) ==
  f = [n \in 0..N |-> IF n = 0 THEN <<>>
                      ELSE IF s[n].kind \in kinds THEN Append(f[n - 1], s[n]) ELSE f[n - 1]]

LEMMA GathersExists ==
  ASSUME NEW kinds, NEW s, NEW M \in Nat
  PROVE  \E f : Gathering(kinds, f, s, M)
  <1> DEFINE Body(f, n) == IF n = 0 THEN <<>>
                           ELSE IF s[n].kind \in kinds THEN Append(f[n - 1], s[n]) ELSE f[n - 1]
             S == {N \in Nat : ~\E f : f = [n \in 0..N |-> Body(f, n)]}
  <1>1. SUFFICES ASSUME S # {} PROVE FALSE
    <2>1. S = {} => \E f : f = [n \in 0..M |-> Body(f, n)]
      OBVIOUS
    <2> QED
      BY <2>1 DEF Gathering
  <1>2. PICK N \in S : \A K \in S : N <= K
    <2>1. S \in SUBSET Nat
      OBVIOUS
    <2> HIDE DEF S
    <2> QED
      BY <1>1, <2>1, Least
  <1>3. N \in Nat /\ ~\E f : f = [n \in 0..N |-> Body(f, n)]
    OBVIOUS
  <1>4. CASE N = 0
    <2> DEFINE f == [n \in 0..0 |-> <<>>]
    <2>1. f = [n \in 0..0 |-> Body(f, n)]
      OBVIOUS
    <2> HIDE DEF Body, f
    <2> QED
      BY <1>3, <1>4, <2>1
  <1>5. CASE N # 0
    <2>1. N - 1 \in Nat /\ N - 1 \notin S
      <3>1. N \in Nat
        BY <1>3
      <3>2. N - 1 \in Nat /\ ~(N <= N - 1)
        BY <1>5, <3>1
      <3> HIDE DEF S
      <3> QED
        BY <1>2, <3>2
    <2>2. PICK f : f = [n \in 0..(N - 1) |-> Body(f, n)]
      BY <2>1
    <2> DEFINE g == [n \in 0..N |-> IF n = N THEN Body(f, N) ELSE f[n]]
    <2>3. ASSUME NEW n \in 0..N
          PROVE  g[n] = Body(g, n)
      <3>1. CASE n = 0
        <4>1. g[0] = f[0] /\ f[0] = Body(f, 0) /\ n # N
          BY <1>3, <1>5, <2>2, <3>1
        <4> QED
          BY <3>1, <4>1
      <3>2. CASE n # 0
        <4>1. n - 1 \in 0..N /\ n - 1 # N /\ n \in Nat
          BY <1>3, <2>3, <3>2
        <4>2. g[n - 1] = f[n - 1]
          BY <4>1
        <4>3. Body(g, n) = Body(f, n)
          BY <3>2, <4>2
        <4>4. CASE n = N
          BY <4>3, <4>4
        <4>5. CASE n # N
          <5>1. n \in 0..(N - 1)
            BY <1>3, <4>1, <4>5
          <5>2. f[n] = Body(f, n)
            BY <2>2, <5>1
          <5>3. g[n] = f[n]
            BY <4>5
          <5> HIDE DEF Body, g
          <5> QED
            BY <4>3, <5>2, <5>3
        <4> QED
          BY <4>4, <4>5
      <3> QED
        BY <3>1, <3>2
    <2>4. DOMAIN g = 0..N /\ g = [n \in DOMAIN g |-> g[n]]
      OBVIOUS
    <2> HIDE DEF Body, g
    <2>5. g = [n \in 0..N |-> Body(g, n)]
      BY <2>3, <2>4
    <2> QED
      BY <1>3, <2>5
  <1> QED
    BY <1>4, <1>5

LEMMA OfKindsGather ==
  ASSUME NEW kinds, NEW s, Len(s) \in Nat
  PROVE  \E f : Gathers(kinds, f, s, Len(s)) /\ OfKinds(s, kinds) = f[Len(s)]
  <1> DEFINE f == CHOOSE h : Gathering(kinds, h, s, Len(s))
  <1>0. \E h : Gathering(kinds, h, s, Len(s))
    BY GathersExists
  <1>2. OfKinds(s, kinds) = f[Len(s)]
    BY DEF OfKinds, Gathering
  <1> HIDE DEF f
  <1>a. Gathering(kinds, f, s, Len(s))
    BY ONLY <1>0 DEF f
  <1>1. f = [n \in 0..Len(s) |->
                     IF n = 0 THEN <<>> ELSE IF s[n].kind \in kinds THEN Append(f[n - 1], s[n]) ELSE f[n - 1]]
    BY ONLY <1>a DEF Gathering
  <1>3. DOMAIN f = 0..Len(s) /\ f[0] = <<>>
    BY <1>1
  <1>4. ASSUME NEW n \in 1..Len(s)
        PROVE  f[n] = IF s[n].kind \in kinds THEN Append(f[n - 1], s[n]) ELSE f[n - 1]
    <2>1. n \in 0..Len(s) /\ n # 0
      OBVIOUS
    <2> QED
      BY <1>1, <2>1
  <1> QED
    BY <1>2, <1>3, <1>4 DEF Gathers

LEMMA GathersSame ==
  ASSUME NEW kinds, NEW f, NEW g, NEW s, NEW t, NEW N \in Nat, NEW M \in Nat, N <= M,
         Gathers(kinds, f, s, N), Gathers(kinds, g, t, M), \A i \in 1..N : s[i] = t[i]
  PROVE  \A n \in 0..N : f[n] = g[n]
  <1> DEFINE S == {n \in 0..N : f[n] # g[n]}
  <1>1. SUFFICES ASSUME S # {} PROVE FALSE
    OBVIOUS
  <1>2. PICK n \in S : \A k \in S : n <= k
    <2>1. S \in SUBSET Nat
      OBVIOUS
    <2> HIDE DEF S
    <2> QED
      BY <1>1, <2>1, Least
  <1>3. n \in 0..N /\ f[n] # g[n]
    OBVIOUS
  <1>4. n # 0
    BY <1>3 DEF Gathers
  <1>5. n \in 1..N /\ n \in 1..M /\ n - 1 \in 0..N /\ ~(n <= n - 1)
    BY <1>3, <1>4
  <1>6. n - 1 \notin S
    <2> HIDE DEF S
    <2> QED
      BY <1>2, <1>5
  <1>7. f[n - 1] = g[n - 1]
    BY <1>5, <1>6
  <1> QED
    BY <1>3, <1>5, <1>7 DEF Gathers

LEMMA OfKindsEmpty == \A kinds : OfKinds(<<>>, kinds) = <<>>
  <1> SUFFICES ASSUME NEW kinds PROVE OfKinds(<<>>, kinds) = <<>>
    OBVIOUS
  <1>1. Len(<<>>) = 0 /\ Len(<<>>) \in Nat
    OBVIOUS
  <1>2. PICK f : Gathers(kinds, f, <<>>, Len(<<>>)) /\ OfKinds(<<>>, kinds) = f[Len(<<>>)]
    BY <1>1, OfKindsGather
  <1> QED
    BY <1>1, <1>2 DEF Gathers

\* The messages of these kinds, one message at a time.
LEMMA OfKindsAppend ==
  ASSUME NEW kinds, NEW s \in Seq(MessageSet), NEW m \in MessageSet
  PROVE  OfKinds(Append(s, m), kinds) = IF m.kind \in kinds THEN Append(OfKinds(s, kinds), m) ELSE OfKinds(s, kinds)
  <1> DEFINE t == Append(s, m)
             n == Len(s)
  <1>2. n \in Nat /\ Len(t) = n + 1 /\ Len(t) \in Nat /\ t[n + 1] = m /\ \A i \in 1..n : s[i] = t[i]
    OBVIOUS
  <1> HIDE DEF t
  <1>3. PICK f : Gathers(kinds, f, s, n) /\ OfKinds(s, kinds) = f[n]
    BY <1>2, OfKindsGather
  <1>4. PICK g : Gathers(kinds, g, t, Len(t)) /\ OfKinds(t, kinds) = g[Len(t)]
    BY <1>2, OfKindsGather
  <1> HIDE DEF n
  <1>5. Gathers(kinds, g, t, n + 1) /\ OfKinds(t, kinds) = g[n + 1] /\ n + 1 \in Nat /\ n <= n + 1
    BY <1>2, <1>4
  <1>6. f[n] = g[n]
    <2>1. n \in 0..n
      BY <1>2
    <2> QED
      BY <1>2, <1>3, <1>5, <2>1, GathersSame
  <1>7. g[n + 1] = IF m.kind \in kinds THEN Append(g[n], m) ELSE g[n]
    <2>1. n + 1 \in 1..(n + 1) /\ (n + 1) - 1 = n
      BY <1>2
    <2> QED
      BY <1>2, <1>5, <2>1 DEF Gathers
  <1> QED
    BY <1>3, <1>5, <1>6, <1>7 DEF t

LEMMA Split ==
  ASSUME NEW s \in Seq(MessageSet), s # <<>>
  PROVE  /\ SubSeq(s, 1, Len(s) - 1) \in Seq(MessageSet) /\ s[Len(s)] \in MessageSet
         /\ Len(SubSeq(s, 1, Len(s) - 1)) = Len(s) - 1 /\ Len(s) - 1 \in Nat
         /\ \A i \in 1..(Len(s) - 1) : SubSeq(s, 1, Len(s) - 1)[i] = s[i]
         /\ s = Append(SubSeq(s, 1, Len(s) - 1), s[Len(s)])
  <1>1. Len(s) \in Nat /\ Len(s) >= 1 /\ Len(s) - 1 \in Nat /\ s[Len(s)] \in MessageSet
    OBVIOUS
  <1>2. 1 \in Int /\ Len(s) - 1 \in Int /\ \A i \in 1..(Len(s) - 1) : s[i] \in MessageSet
    BY <1>1
  <1>3. /\ SubSeq(s, 1, Len(s) - 1) \in Seq(MessageSet)
        /\ Len(SubSeq(s, 1, Len(s) - 1)) = Len(s) - 1
        /\ \A i \in 1..(Len(s) - 1) : SubSeq(s, 1, Len(s) - 1)[i] = s[i]
    <2> DEFINE n == Len(s) - 1
    <2>1. n \in Nat /\ n \in Int /\ \A i \in 1..n : s[i] \in MessageSet
      BY <1>1, <1>2
    <2> HIDE DEF n
    <2>2. /\ SubSeq(s, 1, n) \in Seq(MessageSet)
          /\ Len(SubSeq(s, 1, n)) = IF 1 <= n THEN n - 1 + 1 ELSE 0
          /\ \A i \in 1..(n - 1 + 1) : SubSeq(s, 1, n)[i] = s[1 + i - 1]
      BY ONLY <2>1, SubSeqProperties
    <2>3. (IF 1 <= n THEN n - 1 + 1 ELSE 0) = n /\ n - 1 + 1 = n /\ \A i \in 1..n : 1 + i - 1 = i
      BY <2>1
    <2>4. SubSeq(s, 1, n) \in Seq(MessageSet) /\ Len(SubSeq(s, 1, n)) = n
          /\ \A i \in 1..n : SubSeq(s, 1, n)[i] = s[i]
      BY <2>2, <2>3
    <2> QED
      BY <2>4 DEF n
  <1>4. s = SubSeq(s, 1, Len(s) - 1) \o <<s[Len(s)]>>
    <2>1. 1 \in 1..Len(s) /\ Len(s) \in 1..Len(s)
      BY <1>1
    <2> QED
      BY <2>1, SubSeqFull, SubSeqRecursiveSecond
  <1> QED
    BY <1>1, <1>3, <1>4, AppendIsConcat

LEMMA OfKindsTyped ==
  ASSUME NEW kinds, NEW r \in Seq(MessageSet)
  PROVE  OfKinds(r, kinds) \in Seq(MessageSet)
  <1> DEFINE S == {n \in Nat : \E s \in Seq(MessageSet) : Len(s) = n /\ OfKinds(s, kinds) \notin Seq(MessageSet)}
  <1>1. SUFFICES ASSUME S # {} PROVE FALSE
    <2>1. Len(r) \in Nat
      OBVIOUS
    <2> QED
      BY <2>1
  <1>2. PICK n \in S : \A k \in S : n <= k
    <2>1. S \in SUBSET Nat
      OBVIOUS
    <2> HIDE DEF S
    <2> QED
      BY <1>1, <2>1, Least
  <1>3. PICK s \in Seq(MessageSet) : Len(s) = n /\ OfKinds(s, kinds) \notin Seq(MessageSet)
    OBVIOUS
  <1>4. s # <<>>
    <2>1. <<>> \in Seq(MessageSet)
      OBVIOUS
    <2> QED
      BY <1>3, <2>1, OfKindsEmpty
  <1> DEFINE f == SubSeq(s, 1, Len(s) - 1)
  <1>5. f \in Seq(MessageSet) /\ s[n] \in MessageSet /\ Len(f) = n - 1 /\ n - 1 \in Nat /\ s = Append(f, s[n])
    BY <1>3, <1>4, Split
  <1> HIDE DEF f
  <1>6. n - 1 \notin S
    <2>1. n \in Nat /\ ~(n <= n - 1)
      OBVIOUS
    <2> HIDE DEF S
    <2> QED
      BY <1>2, <2>1
  <1>7. OfKinds(f, kinds) \in Seq(MessageSet)
    BY <1>5, <1>6
  <1>8. OfKinds(s, kinds) = Append(OfKinds(f, kinds), s[n]) \/ OfKinds(s, kinds) = OfKinds(f, kinds)
    BY <1>5, OfKindsAppend
  <1>9. Append(OfKinds(f, kinds), s[n]) \in Seq(MessageSet)
    <2> DEFINE g == OfKinds(f, kinds)
    <2>1. g \in Seq(MessageSet) /\ s[n] \in MessageSet
      BY <1>5, <1>7
    <2> HIDE DEF g
    <2>2. Append(g, s[n]) \in Seq(MessageSet)
      BY <2>1, AppendProperties
    <2> QED
      BY <2>2 DEF g
  <1> QED
    BY <1>3, <1>7, <1>8, <1>9

LEMMA ConcatAppend ==
  ASSUME NEW s \in Seq(MessageSet), NEW t \in Seq(MessageSet), NEW m \in MessageSet
  PROVE  s \o Append(t, m) = Append(s \o t, m) /\ s \o t \in Seq(MessageSet)
  <1>1. <<m>> \in Seq(MessageSet) /\ s \o t \in Seq(MessageSet)
    OBVIOUS
  <1>2. Append(t, m) = t \o <<m>> /\ Append(s \o t, m) = (s \o t) \o <<m>>
    BY <1>1, AppendIsConcat
  <1>3. (s \o t) \o <<m>> = s \o (t \o <<m>>)
    BY <1>1, ConcatAssociative
  <1> QED
    BY <1>1, <1>2, <1>3

LEMMA OfKindsConcat ==
  ASSUME NEW kinds, NEW s \in Seq(MessageSet), NEW r \in Seq(MessageSet)
  PROVE  OfKinds(s \o r, kinds) = OfKinds(s, kinds) \o OfKinds(r, kinds)
  <1> DEFINE S == {n \in Nat : \E t \in Seq(MessageSet) : Len(t) = n /\ OfKinds(s \o t, kinds) # OfKinds(s, kinds) \o OfKinds(t, kinds)}
  <1>0. OfKinds(s, kinds) \in Seq(MessageSet)
    BY OfKindsTyped
  <1>1. SUFFICES ASSUME S # {} PROVE FALSE
    <2>1. Len(r) \in Nat
      OBVIOUS
    <2> QED
      BY <2>1
  <1>2. PICK n \in S : \A k \in S : n <= k
    <2>1. S \in SUBSET Nat
      OBVIOUS
    <2> HIDE DEF S
    <2> QED
      BY <1>1, <2>1, Least
  <1>3. PICK t \in Seq(MessageSet) : Len(t) = n /\ OfKinds(s \o t, kinds) # OfKinds(s, kinds) \o OfKinds(t, kinds)
    OBVIOUS
  <1>4. t # <<>>
    <2>1. s \o <<>> = s /\ OfKinds(s, kinds) \o <<>> = OfKinds(s, kinds) /\ OfKinds(<<>>, kinds) = <<>>
      BY <1>0, ConcatEmptySeq, OfKindsEmpty
    <2> QED
      BY <1>3, <2>1
  <1> DEFINE f == SubSeq(t, 1, Len(t) - 1)
             m == t[n]
  <1>5. f \in Seq(MessageSet) /\ m \in MessageSet /\ Len(f) = n - 1 /\ n - 1 \in Nat /\ t = Append(f, m)
    BY <1>3, <1>4, Split
  <1> HIDE DEF f, m
  <1>6. n - 1 \notin S
    <2>1. n \in Nat /\ ~(n <= n - 1)
      OBVIOUS
    <2> HIDE DEF S
    <2> QED
      BY <1>2, <2>1
  <1>7. OfKinds(s \o f, kinds) = OfKinds(s, kinds) \o OfKinds(f, kinds)
    BY <1>5, <1>6
  <1>8. s \o t = Append(s \o f, m) /\ s \o f \in Seq(MessageSet)
    BY <1>5, ConcatAppend
  <1>9. OfKinds(f, kinds) \in Seq(MessageSet)
    BY <1>5, OfKindsTyped
  <1>10. Append(OfKinds(s, kinds) \o OfKinds(f, kinds), m) = OfKinds(s, kinds) \o Append(OfKinds(f, kinds), m)
    BY <1>0, <1>5, <1>9, ConcatAppend
  <1>11. /\ OfKinds(s \o t, kinds) = IF m.kind \in kinds THEN Append(OfKinds(s \o f, kinds), m) ELSE OfKinds(s \o f, kinds)
         /\ OfKinds(t, kinds) = IF m.kind \in kinds THEN Append(OfKinds(f, kinds), m) ELSE OfKinds(f, kinds)
    <2>1. \A u \in Seq(MessageSet) : OfKinds(Append(u, m), kinds)
                                     = IF m.kind \in kinds THEN Append(OfKinds(u, kinds), m) ELSE OfKinds(u, kinds)
      BY ONLY <1>5, OfKindsAppend
    <2> QED
      BY ONLY <1>5, <1>8, <2>1
  <1> QED
    BY <1>3, <1>7, <1>10, <1>11

\* The messages of users among s, as the mailbox has them.
Users(s) ==
  [i \in 1 .. Len(OfKinds(s, Lanes)) |->
     [lane |-> OfKinds(s, Lanes)[i].kind, id |-> OfKinds(s, Lanes)[i].id]]

LEMMA OneOfKinds ==
  ASSUME NEW kinds, NEW m \in MessageSet
  PROVE  OfKinds(<<m>>, kinds) = IF m.kind \in kinds THEN <<m>> ELSE <<>>
  <1>1. <<>> \in Seq(MessageSet) /\ Append(<<>>, m) = <<m>>
    OBVIOUS
  <1>2. OfKinds(<<>>, kinds) = <<>>
    BY OfKindsEmpty
  <1>3. OfKinds(Append(<<>>, m), kinds) = IF m.kind \in kinds THEN Append(OfKinds(<<>>, kinds), m) ELSE OfKinds(<<>>, kinds)
    BY ONLY <1>1, m \in MessageSet, OfKindsAppend
  <1> QED
    BY ONLY <1>1, <1>2, <1>3

\* What is of no such kind.
LEMMA NoneOfKinds ==
  ASSUME NEW kinds, NEW r \in Seq(MessageSet), \A i \in 1 .. Len(r) : r[i].kind \notin kinds
  PROVE  OfKinds(r, kinds) = <<>>
  <1> DEFINE n == Len(r)
  <1>1. n \in Nat
    OBVIOUS
  <1>2. PICK f : Gathers(kinds, f, r, n) /\ OfKinds(r, kinds) = f[n]
    BY <1>1, OfKindsGather
  <1> DEFINE S == {k \in Nat : k <= n /\ f[k] # <<>>}
  <1>3. SUFFICES ASSUME S # {} PROVE FALSE
    BY <1>1, <1>2
  <1>4. PICK k \in S : \A j \in S : k <= j
    <2>1. S \in SUBSET Nat
      OBVIOUS
    <2> HIDE DEF S
    <2> QED
      BY <1>3, <2>1, Least
  <1>5. k \in Nat /\ k <= n /\ f[k] # <<>>
    OBVIOUS
  <1>6. k # 0
    BY <1>2, <1>5 DEF Gathers
  <1>7. k \in 1 .. n /\ k - 1 \in Nat /\ k - 1 <= n /\ ~(k <= k - 1)
    BY <1>1, <1>5, <1>6
  <1>8. f[k - 1] = <<>>
    <2>1. k - 1 \notin S
      <3> HIDE DEF S
      <3> QED
        BY <1>4, <1>7
    <2> QED
      BY <1>7, <2>1
  <1>9. f[k] = f[k - 1]
    <2>1. r[k].kind \notin kinds
      BY <1>7
    <2> QED
      BY <1>2, <1>7, <2>1 DEF Gathers
  <1> QED
    BY <1>5, <1>8, <1>9

LEMMA NumbersOf ==
  ASSUME NEW t \in Seq(MessageSet)
  PROVE  /\ [i \in 1 .. Len(t) |-> t[i].id] \in Seq(Nat)
         /\ Len([i \in 1 .. Len(t) |-> t[i].id]) = Len(t)
  <1>1. Len(t) \in Nat /\ \A i \in 1 .. Len(t) : t[i].id \in Nat
    BY ElementOfSeq, IdType
  <1> QED
    BY <1>1

LEMMA LaneFacts ==
  ASSUME NEW lane
  PROVE  /\ IdsInLane(<<>>, lane) = <<>>
         /\ \A s \in Seq(MessageSet) : IdsInLane(s, lane) \in Seq(Nat)
         /\ \A s \in Seq(MessageSet) :
              (\A i \in 1 .. Len(s) : s[i].kind # lane) => IdsInLane(s, lane) = <<>>
         /\ \A m \in MessageSet : IdsInLane(<<m>>, lane) = IF m.kind = lane THEN <<m.id>> ELSE <<>>
  <1>1. IdsInLane(<<>>, lane) = <<>>
    <2> DEFINE t == <<>>
    <2>1. OfKinds(<<>>, {lane}) = t /\ t \in Seq(MessageSet) /\ Len(t) = 0
      BY OfKindsEmpty
    <2> HIDE DEF t
    <2>2. IdsInLane(<<>>, lane) \in Seq(Nat) /\ Len(IdsInLane(<<>>, lane)) = 0
      BY <2>1, NumbersOf DEF IdsInLane
    <2> QED
      BY <2>2, EmptySeq
  <1>2. ASSUME NEW s \in Seq(MessageSet) PROVE IdsInLane(s, lane) \in Seq(Nat)
    <2> DEFINE t == OfKinds(s, {lane})
    <2>1. t \in Seq(MessageSet)
      BY OfKindsTyped
    <2>2. IdsInLane(s, lane) = [i \in 1 .. Len(t) |-> t[i].id]
      BY DEF IdsInLane
    <2> HIDE DEF t
    <2>3. Len(t) \in Nat /\ \A i \in 1 .. Len(t) : t[i].id \in Nat
      BY <2>1, ElementOfSeq, IdType
    <2> QED
      BY <2>2, <2>3
  <1>3. ASSUME NEW s \in Seq(MessageSet), \A i \in 1 .. Len(s) : s[i].kind # lane
        PROVE  IdsInLane(s, lane) = <<>>
    <2>1. OfKinds(s, {lane}) = <<>>
      BY <1>3, NoneOfKinds
    <2> QED
      BY <1>1, <2>1, OfKindsEmpty DEF IdsInLane
  <1>4. ASSUME NEW m \in MessageSet
        PROVE  IdsInLane(<<m>>, lane) = IF m.kind = lane THEN <<m.id>> ELSE <<>>
    <2>1. OfKinds(<<m>>, {lane}) = IF m.kind = lane THEN <<m>> ELSE <<>>
      BY OneOfKinds
    <2>2. CASE m.kind = lane
      <3> DEFINE t == <<m>>
      <3>1. OfKinds(<<m>>, {lane}) = t /\ t \in Seq(MessageSet) /\ Len(t) = 1 /\ t[1] = m
        BY <2>1, <2>2
      <3> HIDE DEF t
      <3>2. IdsInLane(<<m>>, lane) = [i \in 1 .. Len(t) |-> t[i].id]
        BY <3>1 DEF IdsInLane
      <3>3. /\ IdsInLane(<<m>>, lane) \in Seq(Nat) /\ Len(IdsInLane(<<m>>, lane)) = 1
            /\ IdsInLane(<<m>>, lane)[1] = m.id
        BY <3>1, <3>2, NumbersOf
      <3>4. m.id \in Nat /\ <<m.id>> \in Seq(Nat) /\ Len(<<m.id>>) = 1 /\ <<m.id>>[1] = m.id
        BY IdType
      <3>5. IdsInLane(<<m>>, lane) = <<m.id>>
        BY <3>3, <3>4, SeqEqual
      <3> QED
        BY <2>2, <3>5
    <2>3. CASE m.kind # lane
      BY <1>1, <2>1, <2>3, OfKindsEmpty DEF IdsInLane
    <2> QED
      BY <2>2, <2>3
  <1> QED
    BY <1>1, <1>2, <1>3, <1>4

LEMMA LaneConcat ==
  ASSUME NEW lane, NEW s \in Seq(MessageSet), NEW t \in Seq(MessageSet)
  PROVE  IdsInLane(s \o t, lane) = IdsInLane(s, lane) \o IdsInLane(t, lane)
  <1> DEFINE a == OfKinds(s, {lane})
             b == OfKinds(t, {lane})
             n == Len(a)
             m == Len(b)
  <1>1. a \in Seq(MessageSet) /\ b \in Seq(MessageSet)
    BY OfKindsTyped
  <1>2. OfKinds(s \o t, {lane}) = a \o b
    BY OfKindsConcat
  <1>3. /\ IdsInLane(s, lane) = [i \in 1 .. n |-> a[i].id]
        /\ IdsInLane(t, lane) = [i \in 1 .. m |-> b[i].id]
        /\ IdsInLane(s \o t, lane) = [i \in 1 .. Len(a \o b) |-> (a \o b)[i].id]
    BY <1>2 DEF IdsInLane
  <1> HIDE DEF a, b
  <1>4. n \in Nat /\ m \in Nat
    BY <1>1
  <1>5. Len(a \o b) = n + m /\ \A i \in 1 .. n + m : (a \o b)[i] = IF i <= n THEN a[i] ELSE b[i - n]
    BY <1>1
  <1> HIDE DEF n, m
  <1> DEFINE x == [i \in 1 .. n |-> a[i].id]
             y == [i \in 1 .. m |-> b[i].id]
  <1>6. (\A i \in 1 .. n : a[i].id \in Nat) /\ (\A i \in 1 .. m : b[i].id \in Nat)
    BY <1>1, ElementOfSeq, IdType DEF n, m
  <1>7. x \in Seq(Nat) /\ y \in Seq(Nat) /\ Len(x) = n /\ Len(y) = m
    BY <1>4, <1>6
  <1> HIDE DEF x, y
  <1>8. x \o y = [i \in 1 .. n + m |-> IF i <= n THEN a[i].id ELSE b[i - n].id]
    <2>1. x \o y \in Seq(Nat) /\ Len(x \o y) = n + m
          /\ \A i \in 1 .. n + m : (x \o y)[i] = IF i <= n THEN x[i] ELSE y[i - n]
      BY <1>4, <1>7, ConcatProperties
    <2>2. ASSUME NEW i \in 1 .. n + m
          PROVE  (x \o y)[i] = IF i <= n THEN a[i].id ELSE b[i - n].id
      <3>1. CASE i <= n
        <4>1. i \in 1 .. n
          BY <1>4, <3>1
        <4> QED
          BY <2>1, <3>1, <4>1 DEF x
      <3>2. CASE ~(i <= n)
        <4>1. i - n \in 1 .. m
          BY <1>4, <3>2
        <4> QED
          BY <2>1, <3>2, <4>1 DEF y
      <3> QED
        BY <3>1, <3>2
    <2> DEFINE z == [i \in 1 .. n + m |-> IF i <= n THEN a[i].id ELSE b[i - n].id]
    <2>3. ASSUME NEW i \in 1 .. n + m PROVE (IF i <= n THEN a[i].id ELSE b[i - n].id) \in Nat
      <3>1. i <= n => i \in 1 .. n
        BY <1>4
      <3>2. ~(i <= n) => i - n \in 1 .. m
        BY <1>4
      <3> QED
        BY <1>6, <3>1, <3>2
    <2>4. z \in Seq(Nat) /\ Len(z) = n + m /\ \A i \in 1 .. n + m : z[i] = IF i <= n THEN a[i].id ELSE b[i - n].id
      BY <1>4, <2>3
    <2> HIDE DEF z
    <2>5. x \o y = z
      BY <2>1, <2>2, <2>4, SeqEqual
    <2> QED
      BY <2>5 DEF z
  <1>9. [i \in 1 .. n + m |-> (a \o b)[i].id] = [i \in 1 .. n + m |-> IF i <= n THEN a[i].id ELSE b[i - n].id]
    BY <1>5
  <1> QED
    BY <1>3, <1>5, <1>8, <1>9 DEF x, y

\* What the events put in the transcript is what is ahead.
LEMMA PutsTail ==
  ASSUME NEW o \in Seq(EventSet), o # <<>>
  PROVE  /\ o[1] \in EventSet /\ Tail(o) \in Seq(EventSet) /\ Len(Tail(o)) = Len(o) - 1 /\ Len(o) \in Nat
         /\ Puts(o) = <<IF o[1].type = "message_end" THEN o[1].msg ELSE NoMessage>> \o Puts(Tail(o))
  <1>1. /\ Len(o) \in Nat \ {0} /\ o[1] \in EventSet /\ Tail(o) \in Seq(EventSet)
        /\ Len(Tail(o)) = Len(o) - 1 /\ \A i \in 1 .. Len(o) - 1 : Tail(o)[i] = o[i + 1]
    BY EmptySeq, HeadTailProperties, LenProperties, ElementOfSeq
  <1> DEFINE e == IF o[1].type = "message_end" THEN o[1].msg ELSE NoMessage
             p == Puts(Tail(o))
  <1>2. e \in MessageSet
    BY <1>1, MessageTypes, IdType
  <1>3. /\ p \in Seq(MessageSet) /\ Len(p) = Len(o) - 1
        /\ \A i \in 1 .. Len(o) - 1 : p[i] = IF o[i + 1].type = "message_end" THEN o[i + 1].msg ELSE NoMessage
    BY <1>1, PutsFacts
  <1>4. /\ Puts(o) \in Seq(MessageSet) /\ Len(Puts(o)) = Len(o) /\ Puts(o)[1] = e
        /\ \A i \in 1 .. Len(o) : Puts(o)[i] = IF o[i].type = "message_end" THEN o[i].msg ELSE NoMessage
    BY <1>1, PutsFacts
  <1> HIDE DEF e, p
  <1> DEFINE u == <<e>>
  <1>5. u \in Seq(MessageSet) /\ Len(u) = 1 /\ u[1] = e
    BY <1>2
  <1> HIDE DEF u
  <1>6. /\ u \o p \in Seq(MessageSet) /\ Len(u \o p) = Len(o)
        /\ \A i \in 1 .. Len(o) : (u \o p)[i] = IF i <= 1 THEN u[i] ELSE p[i - 1]
    <2>1. p \in Seq(MessageSet) /\ Len(p) = Len(o) - 1
      BY <1>3
    <2>2. /\ u \o p \in Seq(MessageSet) /\ Len(u \o p) = Len(u) + Len(p)
          /\ \A i \in 1 .. Len(u) + Len(p) : (u \o p)[i] = IF i <= Len(u) THEN u[i] ELSE p[i - Len(u)]
      BY ONLY <1>5, <2>1, ConcatProperties
    <2>3. Len(u) + Len(p) = Len(o)
      BY <1>1, <1>5, <2>1
    <2> QED
      BY <1>5, <2>2, <2>3
  <1>7. ASSUME NEW i \in 1 .. Len(o) PROVE Puts(o)[i] = (u \o p)[i]
    <2>1. CASE i = 1
      BY <1>4, <1>5, <1>6, <2>1
    <2>2. CASE i # 1
      <3>1. i - 1 \in 1 .. Len(o) - 1 /\ ~(i <= 1) /\ (i - 1) + 1 = i
        BY <1>1, <2>2
      <3> QED
        BY <1>3, <1>4, <1>6, <3>1
    <2> QED
      BY <2>1, <2>2
  <1>8. Puts(o) = u \o p
    BY <1>4, <1>6, <1>7, SeqEqual
  <1> QED
    BY <1>1, <1>8 DEF u, e, p

LEMMA FirstAndRest ==
  ASSUME NEW s \in Seq(MessageSet), s # <<>>
  PROVE  s[1] \in MessageSet /\ Tail(s) \in Seq(MessageSet) /\ s = <<s[1]>> \o Tail(s)
  <1>1. /\ Len(s) \in Nat \ {0} /\ s[1] \in MessageSet /\ Tail(s) \in Seq(MessageSet)
        /\ Len(Tail(s)) = Len(s) - 1 /\ \A i \in 1 .. Len(s) - 1 : Tail(s)[i] = s[i + 1]
    BY EmptySeq, HeadTailProperties, LenProperties, ElementOfSeq
  <1> DEFINE u == <<s[1]>>
             p == Tail(s)
  <1>5. u \in Seq(MessageSet) /\ Len(u) = 1 /\ u[1] = s[1]
    BY <1>1
  <1> HIDE DEF u, p
  <1>6. /\ u \o p \in Seq(MessageSet) /\ Len(u \o p) = Len(s)
        /\ \A i \in 1 .. Len(s) : (u \o p)[i] = IF i <= 1 THEN u[i] ELSE p[i - 1]
    <2>1. p \in Seq(MessageSet) /\ Len(p) = Len(s) - 1
      BY <1>1 DEF p
    <2>2. /\ u \o p \in Seq(MessageSet) /\ Len(u \o p) = Len(u) + Len(p)
          /\ \A i \in 1 .. Len(u) + Len(p) : (u \o p)[i] = IF i <= Len(u) THEN u[i] ELSE p[i - Len(u)]
      BY ONLY <1>5, <2>1, ConcatProperties
    <2>3. Len(u) + Len(p) = Len(s)
      BY <1>1, <1>5, <2>1
    <2> QED
      BY <1>5, <2>2, <2>3
  <1>7. ASSUME NEW i \in 1 .. Len(s) PROVE s[i] = (u \o p)[i]
    <2>1. CASE i = 1
      BY <1>5, <1>6, <2>1
    <2>2. CASE i # 1
      <3>1. i - 1 \in 1 .. Len(s) - 1 /\ ~(i <= 1) /\ (i - 1) + 1 = i
        BY <1>1, <2>2
      <3> QED
        BY <1>1, <1>6, <3>1 DEF p
    <2> QED
      BY <2>1, <2>2
  <1>8. s = u \o p
    BY <1>6, <1>7, SeqEqual
  <1> QED
    BY <1>1, <1>8 DEF u, p

LEMMA AheadIsPut ==
  ASSUME NEW lane \in Lanes, NEW q \in Seq(EventSet), NEW r \in Seq(MessageSet), Ahead(q, r)
  PROVE  IdsInLane(Puts(q), lane) = IdsInLane(r, lane)
  <1> DEFINE S == {n \in Nat : \E o \in Seq(EventSet), s \in Seq(MessageSet) :
                     Len(o) = n /\ Ahead(o, s) /\ IdsInLane(Puts(o), lane) # IdsInLane(s, lane)}
  <1>1. SUFFICES ASSUME S # {} PROVE FALSE
    <2>1. Len(q) \in Nat
      OBVIOUS
    <2> QED
      BY <2>1
  <1>2. PICK n \in S : \A k \in S : n <= k
    <2>1. S \in SUBSET Nat
      OBVIOUS
    <2> HIDE DEF S
    <2> QED
      BY <1>1, <2>1, Least
  <1>3. PICK o \in Seq(EventSet), s \in Seq(MessageSet) :
          Len(o) = n /\ Ahead(o, s) /\ IdsInLane(Puts(o), lane) # IdsInLane(s, lane)
    OBVIOUS
  <1>4. o # <<>>
    <2>1. ASSUME o = <<>> PROVE FALSE
      <3>1. s = <<>>
        BY <1>3, <2>1, AheadOfNothing
      <3>2. Puts(o) = <<>>
        <4>1. Puts(o) \in Seq(MessageSet) /\ Len(Puts(o)) = 0
          BY <2>1, PutsFacts
        <4> QED
          BY <4>1, EmptySeq
      <3> QED
        BY <1>3, <3>1, <3>2
    <2> QED
      BY <2>1
  <1> DEFINE e == IF o[1].type = "message_end" THEN o[1].msg ELSE NoMessage
             p == Puts(Tail(o))
  <1>5. /\ o[1] \in EventSet /\ Tail(o) \in Seq(EventSet) /\ Len(Tail(o)) = n - 1 /\ n \in Nat
        /\ Puts(o) = <<e>> \o p
    BY <1>3, <1>4, PutsTail
  <1>6. e \in MessageSet /\ <<e>> \in Seq(MessageSet) /\ p \in Seq(MessageSet)
    <2>1. e \in MessageSet
      BY <1>5, MessageTypes, IdType
    <2>2. p \in Seq(MessageSet)
      BY <1>5, PutsFacts
    <2> HIDE DEF e, p
    <2> QED
      BY <2>1, <2>2
  <1>7. IdsInLane(Puts(o), lane) = IdsInLane(<<e>>, lane) \o IdsInLane(p, lane)
    <2> HIDE DEF e, p
    <2> DEFINE u == <<e>>
    <2>1. u \in Seq(MessageSet) /\ Puts(o) = u \o p
      BY <1>5, <1>6
    <2> HIDE DEF u
    <2>2. IdsInLane(u \o p, lane) = IdsInLane(u, lane) \o IdsInLane(p, lane)
      BY ONLY <1>6, <2>1, LaneConcat
    <2> QED
      BY <2>1, <2>2 DEF u
  <1>8. ASSUME NEW t \in Seq(MessageSet), Ahead(Tail(o), t)
        PROVE  IdsInLane(p, lane) = IdsInLane(t, lane)
    <2>1. n - 1 \notin S
      <3>1. ~(n <= n - 1)
        BY <1>5
      <3> HIDE DEF S
      <3> QED
        BY <1>2, <3>1
    <2>2. n - 1 \in Nat
      BY <1>5, LenProperties
    <2> QED
      BY <1>5, <1>8, <2>1, <2>2
  <1>9. CASE o[1].type = "message_end"
    <2>1. s # <<>> /\ s[1] = o[1].msg /\ Ahead(Tail(o), Tail(s))
      BY <1>3, <1>4, <1>9, AheadTail
    <2>2. Tail(s) \in Seq(MessageSet) /\ s = <<s[1]>> \o Tail(s) /\ e = s[1]
      BY <1>9, <2>1, FirstAndRest
    <2> HIDE DEF e, p, S
    <2>3. IdsInLane(s, lane) = IdsInLane(<<e>>, lane) \o IdsInLane(Tail(s), lane)
      <3> DEFINE u == <<e>>
                 v == Tail(s)
      <3>1. u \in Seq(MessageSet) /\ v \in Seq(MessageSet) /\ s = u \o v
        BY <1>6, <2>2
      <3> HIDE DEF u, v
      <3>2. IdsInLane(u \o v, lane) = IdsInLane(u, lane) \o IdsInLane(v, lane)
        BY ONLY <3>1, LaneConcat
      <3> QED
        BY <3>1, <3>2 DEF u, v
    <2> QED
      BY <1>3, <1>7, <1>8, <2>1, <2>2, <2>3
  <1>10. CASE o[1].type # "message_end"
    <2>1. Ahead(Tail(o), s) /\ e = NoMessage
      BY <1>3, <1>4, <1>10, AheadTail
    <2>2. IdsInLane(<<e>>, lane) = <<>>
      <3>1. NoMessage.kind = "none" /\ "none" # lane
        BY DEF NoMessage, Message, Lanes
      <3> QED
        BY <1>6, <2>1, <3>1, LaneFacts
    <2>3. IdsInLane(p, lane) = IdsInLane(s, lane) /\ IdsInLane(p, lane) \in Seq(Nat)
      BY <1>6, <1>8, <2>1, LaneFacts
    <2>4. <<>> \o IdsInLane(p, lane) = IdsInLane(p, lane)
      BY <2>3, ConcatEmptySeq
    <2> HIDE DEF e, p, S
    <2> QED
      BY <1>3, <1>7, <2>2, <2>3, <2>4
  <1> QED
    BY <1>9, <1>10

\* The numbers of the messages of a lane, as a set.
Numbers(t) == {t[i].id : i \in 1 .. Len(t)}
NumbersAmong(s, kinds) == {s[i].id : i \in {j \in 1 .. Len(s) : s[j].kind \in kinds}}

LEMMA NumbersAppend ==
  ASSUME NEW s \in Seq(MessageSet), NEW m \in MessageSet, NEW kinds
  PROVE  /\ Numbers(Append(s, m)) = Numbers(s) \union {m.id}
         /\ NumbersAmong(Append(s, m), kinds)
              = IF m.kind \in kinds THEN NumbersAmong(s, kinds) \union {m.id} ELSE NumbersAmong(s, kinds)
  <1> DEFINE n == Len(s)
             t == Append(s, m)
  <1>1. n \in Nat /\ Len(t) = n + 1 /\ t[n + 1] = m /\ \A i \in 1 .. n : t[i] = s[i]
    BY AppendProperties, LenProperties
  <1> HIDE DEF t
  <1>2. Numbers(t) = Numbers(s) \union {m.id}
    <2>1. 1 .. n + 1 = (1 .. n) \union {n + 1}
      BY <1>1
    <2> QED
      BY <1>1, <2>1 DEF Numbers
  <1>3. NumbersAmong(t, kinds)
          = IF m.kind \in kinds THEN NumbersAmong(s, kinds) \union {m.id} ELSE NumbersAmong(s, kinds)
    <2> DEFINE A == {j \in 1 .. n : s[j].kind \in kinds}
               B == {j \in 1 .. n + 1 : t[j].kind \in kinds}
    <2>1. B = IF m.kind \in kinds THEN A \union {n + 1} ELSE A
      BY <1>1
    <2>2. \A i \in A : t[i] = s[i]
      BY <1>1
    <2>3. NumbersAmong(t, kinds) = {t[i].id : i \in B} /\ NumbersAmong(s, kinds) = {s[i].id : i \in A}
      BY <1>1 DEF NumbersAmong
    <2> HIDE DEF A, B, n
    <2> QED
      BY <1>1, <2>1, <2>2, <2>3
  <1> QED
    BY <1>2, <1>3 DEF t

LEMMA NumbersOfKinds ==
  ASSUME NEW kinds, NEW r \in Seq(MessageSet)
  PROVE  Numbers(OfKinds(r, kinds)) = NumbersAmong(r, kinds)
  <1> DEFINE S == {n \in Nat : \E s \in Seq(MessageSet) :
                     Len(s) = n /\ Numbers(OfKinds(s, kinds)) # NumbersAmong(s, kinds)}
  <1>1. SUFFICES ASSUME S # {} PROVE FALSE
    <2>1. Len(r) \in Nat
      OBVIOUS
    <2> QED
      BY <2>1
  <1>2. PICK n \in S : \A k \in S : n <= k
    <2>1. S \in SUBSET Nat
      OBVIOUS
    <2> HIDE DEF S
    <2> QED
      BY <1>1, <2>1, Least
  <1>3. PICK s \in Seq(MessageSet) : Len(s) = n /\ Numbers(OfKinds(s, kinds)) # NumbersAmong(s, kinds)
    OBVIOUS
  <1>4. s # <<>>
    <2>1. Numbers(<<>>) = {} /\ NumbersAmong(<<>>, kinds) = {}
      BY DEF Numbers, NumbersAmong
    <2> QED
      BY <1>3, <2>1, OfKindsEmpty
  <1> DEFINE f == SubSeq(s, 1, Len(s) - 1)
  <1>5. f \in Seq(MessageSet) /\ s[n] \in MessageSet /\ Len(f) = n - 1 /\ n - 1 \in Nat /\ s = Append(f, s[n])
    BY <1>3, <1>4, Split
  <1> HIDE DEF f
  <1>6. n - 1 \notin S
    <2>1. n \in Nat /\ ~(n <= n - 1)
      OBVIOUS
    <2> HIDE DEF S
    <2> QED
      BY <1>2, <2>1
  <1>7. Numbers(OfKinds(f, kinds)) = NumbersAmong(f, kinds)
    BY <1>5, <1>6
  <1>8. PICK m \in MessageSet, g \in Seq(MessageSet) : m = s[n] /\ g = OfKinds(f, kinds)
    BY <1>5, OfKindsTyped
  <1>9. OfKinds(s, kinds) = IF m.kind \in kinds THEN Append(g, m) ELSE g
    <2>1. OfKinds(Append(f, m), kinds)
            = IF m.kind \in kinds THEN Append(OfKinds(f, kinds), m) ELSE OfKinds(f, kinds)
      BY ONLY <1>5, m \in MessageSet, OfKindsAppend
    <2> HIDE DEF S
    <2> QED
      BY <1>5, <1>8, <2>1
  <1>10. /\ Numbers(Append(g, m)) = Numbers(g) \union {m.id}
         /\ NumbersAmong(Append(f, m), kinds)
              = IF m.kind \in kinds THEN NumbersAmong(f, kinds) \union {m.id} ELSE NumbersAmong(f, kinds)
    BY <1>5, NumbersAppend
  <1> HIDE DEF S
  <1> QED
    BY <1>3, <1>5, <1>7, <1>8, <1>9, <1>10

LEMMA ContentOfLane ==
  ASSUME NEW s \in Seq(MessageSet), NEW lane
  PROVE  Promise!Content(IdsInLane(s, lane)) = NumbersAmong(s, {lane})
  <1>1. PICK t \in Seq(MessageSet) : t = OfKinds(s, {lane})
    BY OfKindsTyped
  <1>2. IdsInLane(s, lane) = [i \in 1 .. Len(t) |-> t[i].id] /\ Len(IdsInLane(s, lane)) = Len(t)
    BY <1>1, NumbersOf DEF IdsInLane
  <1>3. Promise!Content(IdsInLane(s, lane)) = Numbers(t)
    <2>1. \A i \in 1 .. Len(t) : IdsInLane(s, lane)[i] = t[i].id
      BY <1>2
    <2> QED
      BY <1>2, <2>1 DEF Promise!Content, Numbers
  <1> QED
    BY <1>1, <1>3, NumbersOfKinds

\* What one takes from the front, and what it leaves.
LEMMA Parted ==
  ASSUME NEW a \in Seq(Nat), NEW b \in Seq(Nat)
  PROVE  /\ SubSeq(a \o b, 1, Len(a)) = a
         /\ SubSeq(a \o b, Len(a) + 1, Len(a \o b)) = b
         /\ Len(a) \in Nat /\ Len(a \o b) = Len(a) + Len(b) /\ a \o b \in Seq(Nat) /\ Len(b) \in Nat
  <1> DEFINE s == a \o b
             i == Len(a)
             l == Len(b)
  <1>1. s \in Seq(Nat) /\ Len(s) = i + l /\ i \in Nat /\ l \in Nat
        /\ \A k \in 1 .. i + l : s[k] = IF k <= i THEN a[k] ELSE b[k - i]
    BY ConcatProperties, LenProperties
  <1>i. i = Len(a) /\ l = Len(b)
    OBVIOUS
  <1> HIDE DEF s, i, l
  <1>2. \A k \in 1 .. i : s[k] = a[k]
    BY <1>1
  <1>3. ASSUME NEW k \in 1 .. l PROVE s[i + k] = b[k]
    <2>1. i + k \in 1 .. i + l /\ ~(i + k <= i) /\ (i + k) - i = k
      BY <1>1
    <2> QED
      BY <1>1, <2>1
  <1>4. \A k \in 1 .. i + l : s[k] \in Nat
    BY <1>1, ElementOfSeq
  <1>5. SubSeq(s, 1, i) = a
    <2>1. \A k \in 1 .. i : s[k] \in Nat
      BY <1>1, <1>4
    <2>2. /\ SubSeq(s, 1, i) \in Seq(Nat)
          /\ Len(SubSeq(s, 1, i)) = IF 1 <= i THEN i - 1 + 1 ELSE 0
          /\ \A k \in 1 .. (i - 1 + 1) : SubSeq(s, 1, i)[k] = s[1 + k - 1]
      <3>1. i \in Int /\ 1 \in Int
        BY <1>1
      <3> QED
        BY ONLY <2>1, <3>1, SubSeqProperties
    <2>3. Len(SubSeq(s, 1, i)) = i /\ \A k \in 1 .. i : SubSeq(s, 1, i)[k] = a[k]
      <3>1. (IF 1 <= i THEN i - 1 + 1 ELSE 0) = i /\ i - 1 + 1 = i /\ \A k \in 1 .. i : 1 + k - 1 = k
        BY <1>1
      <3> QED
        BY <1>2, <2>2, <3>1
    <2> QED
      BY <1>i, <2>2, <2>3, SeqEqual
  <1>6. SubSeq(s, i + 1, i + l) = b
    <2> DEFINE m == i + 1
               n == i + l
    <2>1. m \in Int /\ n \in Int /\ n - m + 1 = l /\ m >= 1
      BY <1>1
    <2>2. ASSUME NEW k \in m .. n PROVE s[k] \in Nat
      <3>1. k \in 1 .. i + l
        BY <1>1, <2>1
      <3> QED
        BY <1>4, <3>1
    <2>3. \A k \in 1 .. l : m + k - 1 = i + k
      BY <1>1
    <2>4. (IF m <= n THEN n - m + 1 ELSE 0) = l
      BY <1>1
    <2>5. \A k \in 1 .. l : s[m + k - 1] = b[k]
      BY <1>3, <2>3
    <2> HIDE DEF m, n
    <2>6. /\ SubSeq(s, m, n) \in Seq(Nat)
          /\ Len(SubSeq(s, m, n)) = IF m <= n THEN n - m + 1 ELSE 0
          /\ \A k \in 1 .. (n - m + 1) : SubSeq(s, m, n)[k] = s[m + k - 1]
      BY ONLY <2>1, <2>2, SubSeqProperties
    <2>7. Len(SubSeq(s, m, n)) = l /\ \A k \in 1 .. l : SubSeq(s, m, n)[k] = b[k]
      BY <2>1, <2>4, <2>5, <2>6
    <2>8. SubSeq(s, m, n) = b
      BY <1>i, <2>6, <2>7, SeqEqual
    <2> QED
      BY <2>8 DEF m, n
  <1> QED
    BY <1>1, <1>5, <1>6 DEF s, i, l

LEMMA NothingAdded ==
  ASSUME NEW a \in Seq(Nat)
  PROVE  <<>> \o a = a /\ a \o <<>> = a
  OBVIOUS

LEMMA UserKinds ==
  ASSUME NEW q \in Seq(UserSet), NEW i \in 1 .. Len(q)
  PROVE  q[i] \in UserSet /\ q[i] \in MessageSet
  BY ElementOfSeq, MessageTypes

\* A queue of one kind holds nothing for the other lanes.
LEMMA OtherLanes ==
  ASSUME NEW q \in Seq(UserSet), NEW kind, AllOf(q, kind), NEW lane, lane # kind
  PROVE  IdsInLane(q, lane) = <<>>
  <1>1. q \in Seq(MessageSet)
    BY UsersAreMessages
  <1>2. \A i \in 1 .. Len(q) : q[i].kind # lane
    BY DEF AllOf
  <1> QED
    BY <1>1, <1>2, LaneFacts

LEMMA LaneAppend ==
  ASSUME NEW q \in Seq(UserSet), NEW u \in UserSet, NEW lane
  PROVE  /\ IdsInLane(Append(q, u), lane)
              = IF u.kind = lane THEN IdsInLane(q, lane) \o <<u.id>> ELSE IdsInLane(q, lane)
         /\ Append(q, u) \in Seq(UserSet)
  <1> DEFINE s == <<u>>
  <1>1. q \in Seq(MessageSet) /\ u \in MessageSet /\ s \in Seq(MessageSet)
    BY UsersAreMessages, MessageTypes
  <1>2. IdsInLane(s, lane) = IF u.kind = lane THEN <<u.id>> ELSE <<>>
    BY <1>1, LaneFacts
  <1>3. Append(q, u) = q \o s
    BY AppendIsConcat
  <1> HIDE DEF s
  <1>4. IdsInLane(q \o s, lane) = IdsInLane(q, lane) \o IdsInLane(s, lane)
    BY ONLY <1>1, LaneConcat
  <1>5. IdsInLane(q, lane) \in Seq(Nat)
    BY <1>1, LaneFacts
  <1>6. IdsInLane(q, lane) \o <<>> = IdsInLane(q, lane)
    BY <1>5, NothingAdded
  <1>7. Append(q, u) \in Seq(UserSet)
    OBVIOUS
  <1> QED
    BY <1>2, <1>3, <1>4, <1>6, <1>7

\* What is drained and what remains are the queue.
LEMMA DrainWhole ==
  ASSUME NEW q \in Seq(UserSet), NEW mode, NEW lane
  PROVE  /\ Drained(mode, q) \in Seq(UserSet) /\ Remaining(mode, q) \in Seq(UserSet)
         /\ IdsInLane(Drained(mode, q), lane) \in Seq(Nat) /\ IdsInLane(Remaining(mode, q), lane) \in Seq(Nat)
         /\ IdsInLane(q, lane) = IdsInLane(Drained(mode, q), lane) \o IdsInLane(Remaining(mode, q), lane)
  <1> DEFINE d == Drained(mode, q)
             r == Remaining(mode, q)
  <1>1. d \in Seq(UserSet) /\ r \in Seq(UserSet)
    BY DrainTypes
  <1>2. d \in Seq(MessageSet) /\ r \in Seq(MessageSet) /\ q \in Seq(MessageSet)
    BY <1>1, UsersAreMessages
  <1>3. q = d \o r
    <2>1. CASE mode = "all" \/ q = <<>>
      <3>1. d = q /\ r = <<>>
        BY <2>1 DEF Drained, Remaining
      <3>2. q \o <<>> = q
        BY <1>2, ConcatEmptySeq
      <3> QED
        BY <3>1, <3>2
    <2>2. CASE ~(mode = "all" \/ q = <<>>)
      <3>1. d = <<Head(q)>> /\ r = Tail(q)
        BY <2>2 DEF Drained, Remaining
      <3>2. Head(q) = q[1]
        OBVIOUS
      <3>3. q = <<q[1]>> \o Tail(q)
        BY <1>2, <2>2, FirstAndRest
      <3> QED
        BY <3>1, <3>2, <3>3
    <2> QED
      BY <2>1, <2>2
  <1> HIDE DEF d, r
  <1>4. IdsInLane(d \o r, lane) = IdsInLane(d, lane) \o IdsInLane(r, lane)
    BY ONLY <1>2, LaneConcat
  <1>5. IdsInLane(d, lane) \in Seq(Nat) /\ IdsInLane(r, lane) \in Seq(Nat)
    BY <1>2, LaneFacts
  <1> QED
    BY <1>1, <1>3, <1>4, <1>5 DEF d, r

LEMMA NothingPut == Puts(<<>>) = <<>>
  <1>1. <<>> \in Seq(EventSet) /\ Len(<<>>) = 0
    OBVIOUS
  <1>2. Puts(<<>>) \in Seq(MessageSet) /\ Len(Puts(<<>>)) = 0
    BY <1>1, PutsFacts
  <1> QED
    BY <1>2, EmptySeq

\* Events announcing these messages put them in the transcript.
LEMMA LaneAhead ==
  ASSUME NEW lane \in Lanes, NEW o \in Seq(EventSet), NEW s \in Seq(UserSet), Ahead(o, s)
  PROVE  IdsInLane(Puts(o), lane) = IdsInLane(s, lane)
  BY AheadIsPut, UsersAreMessages

\* What is ahead and is nobody's message is of no lane.
LEMMA NoLaneAhead ==
  ASSUME NEW lane \in Lanes, NEW o \in Seq(EventSet), NEW s \in Seq(MessageSet), Ahead(o, s),
         \A i \in 1 .. Len(s) : s[i].kind \notin Lanes
  PROVE  IdsInLane(Puts(o), lane) = <<>>
  <1>1. IdsInLane(s, lane) = <<>>
    BY LaneFacts
  <1> QED
    BY <1>1, AheadIsPut

\* The messages of users, one message at a time.
LEMMA UsersFacts ==
  /\ Users(<<>>) = <<>>
  /\ \A s \in Seq(MessageSet), m \in MessageSet :
       Users(Append(s, m)) = IF m.kind \in Lanes THEN Append(Users(s), [lane |-> m.kind, id |-> m.id])
                             ELSE Users(s)
  <1>1. Users(<<>>) = <<>>
    <2>1. OfKinds(<<>>, Lanes) = <<>>
      BY OfKindsEmpty
    <2> DEFINE t == <<>>
    <2>2. t \in Seq(MessageSet) /\ Len(t) = 0 /\ OfKinds(<<>>, Lanes) = t
      BY <2>1
    <2> HIDE DEF t
    <2>3. Users(<<>>) = [i \in 1 .. Len(t) |-> [lane |-> t[i].kind, id |-> t[i].id]]
      BY <2>2 DEF Users
    <2>4. 1 .. Len(t) = {}
      BY <2>2
    <2> QED
      BY <2>3, <2>4
  <1>2. ASSUME NEW s \in Seq(MessageSet), NEW m \in MessageSet
        PROVE  Users(Append(s, m)) = IF m.kind \in Lanes THEN Append(Users(s), [lane |-> m.kind, id |-> m.id])
                                     ELSE Users(s)
    <2> DEFINE a == OfKinds(s, Lanes)
               x(i) == [lane |-> a[i].kind, id |-> a[i].id]
               y == [lane |-> m.kind, id |-> m.id]
    <2>1. a \in Seq(MessageSet)
      BY OfKindsTyped
    <2>2. Users(s) = [i \in 1 .. Len(a) |-> x(i)]
      BY DEF Users
    <2>3. OfKinds(Append(s, m), Lanes) = IF m.kind \in Lanes THEN Append(a, m) ELSE a
      BY OfKindsAppend
    <2>4. CASE m.kind \notin Lanes
      BY <2>2, <2>3, <2>4 DEF Users
    <2>5. CASE m.kind \in Lanes
      <3> HIDE DEF a
      <3> DEFINE b == Append(a, m)
                 n == Len(a)
      <3>1. n \in Nat /\ Len(b) = n + 1 /\ b[n + 1] = m /\ \A i \in 1 .. n : b[i] = a[i]
        BY <2>1, AppendProperties, LenProperties
      <3>2. Users(Append(s, m)) = [i \in 1 .. Len(b) |-> [lane |-> b[i].kind, id |-> b[i].id]]
        BY <2>3, <2>5 DEF Users
      <3> HIDE DEF b
      <3>3. Users(Append(s, m)) = [i \in 1 .. n + 1 |-> [lane |-> b[i].kind, id |-> b[i].id]]
        BY <3>1, <3>2
      <3> DEFINE R == [lane : {a[i].kind : i \in 1 .. n} \union {m.kind},
                       id : {a[i].id : i \in 1 .. n} \union {m.id}]
      <3>4. y \in R /\ \A i \in 1 .. n : x(i) \in R
        OBVIOUS
      <3>5. /\ Users(s) \in Seq(R) /\ Len(Users(s)) = n
            /\ \A i \in 1 .. n : Users(s)[i] = x(i)
        <4> DEFINE v(i) == x(i)
        <4>1. Users(s) = [i \in 1 .. n |-> v(i)] /\ n \in Nat /\ \A i \in 1 .. n : v(i) \in R
          BY <2>2, <3>1, <3>4
        <4>2. \A i \in 1 .. n : v(i) = x(i)
          OBVIOUS
        <4> HIDE DEF v, R
        <4>3. /\ Users(s) \in Seq(R) /\ Len(Users(s)) = n
              /\ \A i \in 1 .. n : Users(s)[i] = v(i)
          BY ONLY <4>1
        <4> QED
          BY <4>2, <4>3
      <3> HIDE DEF R, x, y
      <3>6. /\ Append(Users(s), y) \in Seq(R) /\ Len(Append(Users(s), y)) = n + 1
            /\ Append(Users(s), y)[n + 1] = y
            /\ \A i \in 1 .. n : Append(Users(s), y)[i] = x(i)
        BY <3>1, <3>4, <3>5, AppendProperties
      <3>7. ASSUME NEW i \in 1 .. n + 1
            PROVE  Append(Users(s), y)[i] = [lane |-> b[i].kind, id |-> b[i].id]
        <4>1. CASE i = n + 1
          BY <3>1, <3>6, <4>1 DEF y
        <4>2. CASE i # n + 1
          <5>1. i \in 1 .. n
            BY <3>1, <4>2
          <5> QED
            BY <3>1, <3>6, <5>1 DEF x
        <4> QED
          BY <4>1, <4>2
      <3> DEFINE l == Append(Users(s), y)
                 w(i) == [lane |-> b[i].kind, id |-> b[i].id]
      <3>8. l \in Seq(R) /\ Len(l) = n + 1 /\ \A i \in 1 .. n + 1 : l[i] = w(i)
        BY <3>6, <3>7
      <3> HIDE DEF l, w
      <3>9. l = [i \in 1 .. n + 1 |-> w(i)]
        BY ONLY <3>8
      <3> QED
        BY <2>5, <3>3, <3>9 DEF l, w, y
    <2> QED
      BY <2>4, <2>5
  <1> QED
    BY <1>1, <1>2

-----------------------------------------------------------------------------
(* A step of the agent is one of the mailbox.                              *)

Mails == [Promise!Next]_(Promise!vars)

\* What the mailbox does not see: the number of messages, those dropped, and
\* whether the run is reporting a failure.
Unseen ==
  /\ accepted' = accepted /\ gone' = gone
  /\ pc' = "failing" <=> pc = "failing"

LEMMA Parts ==
  ASSUME Sound, NEW lane
  PROVE  /\ Taken(lane) = IdsInLane(Puts(out), lane) \o IdsInLane(pending, lane)
         /\ Queued(lane) = IdsInLane(steeringQueue, lane) \o IdsInLane(followUpQueue, lane)
         /\ IdsInLane(Puts(out), lane) \in Seq(Nat) /\ IdsInLane(pending, lane) \in Seq(Nat)
         /\ IdsInLane(steeringQueue, lane) \in Seq(Nat) /\ IdsInLane(followUpQueue, lane) \in Seq(Nat)
         /\ Taken(lane) \in Seq(Nat) /\ Queued(lane) \in Seq(Nat)
  <1> DEFINE e == Puts(out)
  <1>1. /\ e \in Seq(MessageSet) /\ pending \in Seq(MessageSet)
        /\ steeringQueue \in Seq(MessageSet) /\ followUpQueue \in Seq(MessageSet)
    BY PutsFacts, UsersAreMessages DEF Sound, LoopTypes, QueueTypes
  <1> HIDE DEF e
  <1>2. IdsInLane(e \o pending, lane) = IdsInLane(e, lane) \o IdsInLane(pending, lane)
    BY ONLY <1>1, LaneConcat
  <1>3. IdsInLane(steeringQueue \o followUpQueue, lane)
          = IdsInLane(steeringQueue, lane) \o IdsInLane(followUpQueue, lane)
    BY ONLY <1>1, LaneConcat
  <1>4. /\ IdsInLane(e, lane) \in Seq(Nat) /\ IdsInLane(pending, lane) \in Seq(Nat)
        /\ IdsInLane(steeringQueue, lane) \in Seq(Nat) /\ IdsInLane(followUpQueue, lane) \in Seq(Nat)
    BY <1>1, LaneFacts
  <1>5. /\ IdsInLane(e, lane) \o IdsInLane(pending, lane) \in Seq(Nat)
        /\ IdsInLane(steeringQueue, lane) \o IdsInLane(followUpQueue, lane) \in Seq(Nat)
    BY <1>4, ConcatProperties
  <1> QED
    BY <1>2, <1>3, <1>4, <1>5 DEF Taken, Queued, e

LEMMA PartsNext ==
  ASSUME Sound', NEW lane
  PROVE  /\ Taken(lane)' = IdsInLane(Puts(out'), lane) \o IdsInLane(pending', lane)
         /\ Queued(lane)' = IdsInLane(steeringQueue', lane) \o IdsInLane(followUpQueue', lane)
         /\ IdsInLane(Puts(out'), lane) \in Seq(Nat) /\ IdsInLane(pending', lane) \in Seq(Nat)
         /\ IdsInLane(steeringQueue', lane) \in Seq(Nat) /\ IdsInLane(followUpQueue', lane) \in Seq(Nat)
         /\ Taken(lane)' \in Seq(Nat) /\ Queued(lane)' \in Seq(Nat)
  <1>1. PICK e \in Seq(MessageSet), q \in Seq(MessageSet) : e = Puts(out') /\ q = pending'
    BY PutsFacts, UsersAreMessages DEF Sound, LoopTypes
  <1>2. PICK s \in Seq(MessageSet), f \in Seq(MessageSet) : s = steeringQueue' /\ f = followUpQueue'
    BY UsersAreMessages DEF Sound, QueueTypes
  <1>3. /\ IdsInLane(e \o q, lane) = IdsInLane(e, lane) \o IdsInLane(q, lane)
        /\ IdsInLane(s \o f, lane) = IdsInLane(s, lane) \o IdsInLane(f, lane)
    BY LaneConcat
  <1>4. /\ IdsInLane(e, lane) \in Seq(Nat) /\ IdsInLane(q, lane) \in Seq(Nat)
        /\ IdsInLane(s, lane) \in Seq(Nat) /\ IdsInLane(f, lane) \in Seq(Nat)
    BY LaneFacts
  <1>5. /\ IdsInLane(e, lane) \o IdsInLane(q, lane) \in Seq(Nat)
        /\ IdsInLane(s, lane) \o IdsInLane(f, lane) \in Seq(Nat)
    BY <1>4, ConcatProperties
  <1>6. Taken(lane)' = IdsInLane(e \o q, lane) /\ Queued(lane)' = IdsInLane(s \o f, lane)
    BY <1>1, <1>2 DEF Taken, Queued, IdsInLane
  <1> QED
    BY <1>1, <1>2, <1>3, <1>4, <1>5, <1>6

LEMMA NoneDelivered ==
  ASSUME UNCHANGED messages
  PROVE  Delivered' = Delivered
  BY DEF Delivered

\* A step of the agent that changes nothing for the mailbox, and one for each of
\* its actions.
LEMMA MailStays ==
  ASSUME Unseen, Delivered' = Delivered,
         \A lane \in Lanes : Taken(lane)' = Taken(lane) /\ Queued(lane)' = Queued(lane)
  PROVE  Mails
  <1>1. /\ [lane \in Lanes |-> Queued(lane)]' = [lane \in Lanes |-> Queued(lane)]
        /\ [lane \in Lanes |-> Taken(lane)]' = [lane \in Lanes |-> Taken(lane)]
    OBVIOUS
  <1>2. (pc = "failing")' = (pc = "failing")
    BY Zenon DEF Unseen
  <1>3. UNCHANGED Promise!vars
    BY <1>1, <1>2 DEF Promise!vars, Unseen
  <1> QED
    BY <1>3 DEF Mails

LEMMA MailTaken ==
  ASSUME Unseen, Delivered' = Delivered, NEW to \in Lanes, NEW d \in Seq(Nat), NEW r \in Seq(Nat),
         Queued(to) = d \o r, Queued(to)' = r, Taken(to) = <<>>, Taken(to)' = d,
         \A lane \in Lanes : lane # to => Taken(lane)' = Taken(lane) /\ Queued(lane)' = Queued(lane)
  PROVE  Mails
  <1>1. CASE d = <<>>
    <2>1. <<>> \o r = r
      BY NothingAdded
    <2>2. Queued(to)' = Queued(to) /\ Taken(to)' = Taken(to)
      BY <1>1, <2>1
    <2> QED
      BY <2>2, MailStays
  <1>2. CASE d # <<>>
    <2> DEFINE n == Len(d)
    <2>0. d \o r \in Seq(Nat) /\ <<>> \o d = d
      BY NothingAdded
    <2>1. n \in 1 .. Len(Queued(to))
      <3>1. n \in Nat /\ Len(r) \in Nat /\ Len(d \o r) = n + Len(r) /\ n # 0
        BY <1>2, Parted, EmptySeq
      <3> HIDE DEF n
      <3> QED
        BY <3>1
    <2>2. SubSeq(Queued(to), 1, n) = d /\ SubSeq(Queued(to), n + 1, Len(Queued(to))) = r
      BY Parted
    <2>3. Taken(to)' = Taken(to) \o SubSeq(Queued(to), 1, n)
      BY <2>0, <2>2
    <2>4. Queued(to)' = SubSeq(Queued(to), n + 1, Len(Queued(to)))
      BY <2>2
    <2> HIDE DEF n
    <2> DEFINE qs == [lane \in Lanes |-> Queued(lane)]
               ts == [lane \in Lanes |-> Taken(lane)]
    <2>5. qs[to] = Queued(to) /\ ts[to] = Taken(to)
      OBVIOUS
    <2>6. ts' = [ts EXCEPT ![to] = ts[to] \o SubSeq(qs[to], 1, n)]
      BY <2>3
    <2>7. qs' = [qs EXCEPT ![to] = SubSeq(qs[to], n + 1, Len(qs[to]))]
      BY <2>4
    <2>8. (pc = "failing")' = (pc = "failing")
      BY Zenon DEF Unseen
    <2>9. Promise!Take(to)
      <3> HIDE DEF qs, ts
      <3>1. n \in 1 .. Len(qs[to])
        BY <2>1, <2>5
      <3>2. /\ ts' = [ts EXCEPT ![to] = @ \o SubSeq(qs[to], 1, n)]
            /\ qs' = [qs EXCEPT ![to] = SubSeq(@, n + 1, Len(@))]
        BY <2>6, <2>7
      <3>3. accepted' = accepted /\ gone' = gone
        BY DEF Unseen
      <3> QED
        BY <2>8, <3>1, <3>2, <3>3 DEF Promise!Take, qs, ts
    <2> QED
      BY <2>9 DEF Mails, Promise!Next
  <1> QED
    BY <1>1, <1>2

LEMMA MailAccepted ==
  ASSUME NEW to \in Lanes, accepted' = accepted + 1, Delivered' = Delivered, gone' = gone,
         pc' = "failing" <=> pc = "failing",
         IF to = "prompt"
         THEN Taken(to)' = Append(Taken(to), accepted + 1) /\ Queued(to)' = Queued(to)
         ELSE Queued(to)' = Append(Queued(to), accepted + 1) /\ Taken(to)' = Taken(to),
         \A lane \in Lanes : lane # to => Taken(lane)' = Taken(lane) /\ Queued(lane)' = Queued(lane)
  PROVE  Mails
  <1>1. (pc = "failing")' = (pc = "failing")
    BY Zenon
  <1> DEFINE qs == [lane \in Lanes |-> Queued(lane)]
             ts == [lane \in Lanes |-> Taken(lane)]
  <1>2. CASE to = "prompt"
    <2>1. ts' = [ts EXCEPT ![to] = Append(@, accepted + 1)] /\ qs' = qs
      BY <1>2
    <2>2. Promise!Accept(to)
      BY <1>1, <1>2, <2>1 DEF Promise!Accept
    <2> QED
      BY <2>2 DEF Mails, Promise!Next
  <1>3. CASE to # "prompt"
    <2>1. qs' = [qs EXCEPT ![to] = Append(@, accepted + 1)] /\ ts' = ts
      BY <1>3
    <2>2. Promise!Accept(to)
      BY <1>1, <1>3, <2>1 DEF Promise!Accept
    <2> QED
      BY <2>2 DEF Mails, Promise!Next
  <1> QED
    BY <1>2, <1>3

LEMMA MailDelivered ==
  ASSUME Unseen, NEW to \in Lanes, Taken(to) # <<>>,
         Delivered' = Append(Delivered, [lane |-> to, id |-> Head(Taken(to))]),
         Taken(to)' = Tail(Taken(to)),
         \A lane \in Lanes : Queued(lane)' = Queued(lane),
         \A lane \in Lanes : lane # to => Taken(lane)' = Taken(lane)
  PROVE  Mails
  <1>1. (pc = "failing")' = (pc = "failing")
    BY Zenon DEF Unseen
  <1>2. /\ [lane \in Lanes |-> Taken(lane)]'
             = [[lane \in Lanes |-> Taken(lane)] EXCEPT ![to] = Tail(@)]
        /\ [lane \in Lanes |-> Queued(lane)]' = [lane \in Lanes |-> Queued(lane)]
    OBVIOUS
  <1>3. Promise!Deliver(to)
    BY <1>1, <1>2 DEF Promise!Deliver, Unseen
  <1> QED
    BY <1>3 DEF Mails, Promise!Next

LEMMA MailCleared ==
  ASSUME NEW to \in Lanes, accepted' = accepted, Delivered' = Delivered,
         pc' = "failing" <=> pc = "failing",
         gone' = gone \union Promise!Content(Queued(to)), Queued(to)' = <<>>,
         \A lane \in Lanes : Taken(lane)' = Taken(lane),
         \A lane \in Lanes : lane # to => Queued(lane)' = Queued(lane)
  PROVE  Mails
  <1>1. (pc = "failing")' = (pc = "failing")
    BY Zenon
  <1>2. /\ [lane \in Lanes |-> Queued(lane)]'
             = [[lane \in Lanes |-> Queued(lane)] EXCEPT ![to] = <<>>]
        /\ [lane \in Lanes |-> Taken(lane)]' = [lane \in Lanes |-> Taken(lane)]
    OBVIOUS
  <1>3. Promise!Clear(to)
    BY <1>1, <1>2 DEF Promise!Clear
  <1> QED
    BY <1>3 DEF Mails, Promise!Next

LEMMA MailReset ==
  ASSUME accepted' = accepted, Delivered' = <<>>, pc' = "failing" <=> pc = "failing",
         gone' = gone \union UNION {Promise!Content(Queued(lane)) : lane \in Lanes},
         \A lane \in Lanes : Taken(lane)' = Taken(lane) /\ Queued(lane)' = <<>>
  PROVE  Mails
  <1>1. (pc = "failing")' = (pc = "failing")
    BY Zenon
  <1>2. /\ [lane \in Lanes |-> Queued(lane)]' = Promise!Nothing
        /\ [lane \in Lanes |-> Taken(lane)]' = [lane \in Lanes |-> Taken(lane)]
    BY DEF Promise!Nothing
  <1>3. Promise!Reset
    BY <1>1, <1>2 DEF Promise!Reset
  <1> QED
    BY <1>3 DEF Mails, Promise!Next

LEMMA MailFailed ==
  ASSUME accepted' = accepted, Delivered' = Delivered, pc # "failing", pc' = "failing",
         gone' = gone \union UNION {Promise!Content(Taken(lane)) : lane \in Lanes},
         \A lane \in Lanes : Taken(lane)' = <<>> /\ Queued(lane)' = Queued(lane)
  PROVE  Mails
  <1>1. (pc = "failing")' = TRUE
    BY Zenon
  <1>2. /\ [lane \in Lanes |-> Taken(lane)]' = Promise!Nothing
        /\ [lane \in Lanes |-> Queued(lane)]' = [lane \in Lanes |-> Queued(lane)]
    BY DEF Promise!Nothing
  <1>3. Promise!Fail
    BY <1>1, <1>2 DEF Promise!Fail
  <1> QED
    BY <1>3 DEF Mails, Promise!Next

LEMMA MailReported ==
  ASSUME accepted' = accepted, Delivered' = Delivered, gone' = gone, pc = "failing", pc' # "failing",
         \A lane \in Lanes : Taken(lane)' = Taken(lane) /\ Queued(lane)' = Queued(lane)
  PROVE  Mails
  <1>1. (pc = "failing")' = FALSE
    BY Zenon
  <1>2. /\ [lane \in Lanes |-> Taken(lane)]' = [lane \in Lanes |-> Taken(lane)]
        /\ [lane \in Lanes |-> Queued(lane)]' = [lane \in Lanes |-> Queued(lane)]
    OBVIOUS
  <1>3. Promise!Reported
    BY <1>1, <1>2 DEF Promise!Reported
  <1> QED
    BY <1>3 DEF Mails, Promise!Next

\* What the invariant of the conversation says of the lanes.
LEMMA LaneState ==
  ASSUME Sound, Talking
  PROVE  /\ out \in Seq(EventSet) /\ pending \in Seq(UserSet)
         /\ steeringQueue \in Seq(UserSet) /\ followUpQueue \in Seq(UserSet)
         /\ messages \in Seq(MessageSet) /\ accepted \in Nat
         /\ AllOf(steeringQueue, "steer") /\ AllOf(followUpQueue, "followUp")
         /\ pc # "inner" => pending = <<>>
         /\ pc \in {"await", "join"} => out = <<>>
  <1>1. /\ out \in Seq(EventSet) /\ pending \in Seq(UserSet)
        /\ steeringQueue \in Seq(UserSet) /\ followUpQueue \in Seq(UserSet)
        /\ messages \in Seq(MessageSet) /\ accepted \in Nat
    BY DEF Sound, LoopTypes, QueueTypes, ClassTypes, HistTypes
  <1>2. PICK t \in Seq(MessageSet) : Talk(t)
    BY DEF Talking
  <1> QED
    BY <1>1, <1>2 DEF Talk, FollowUps, Waits

\* A step that touches neither the queues nor what is pending nor the transcript,
\* and announces no message of a lane where nothing was left to announce.
LEMMA QuietStep ==
  ASSUME Sound, Sound', Unseen, UNCHANGED <<messages, pending, steeringQueue, followUpQueue>>,
         \A lane \in Lanes : IdsInLane(Puts(out'), lane) = IdsInLane(Puts(out), lane)
  PROVE  Mails
  <1>1. ASSUME NEW lane \in Lanes PROVE Taken(lane)' = Taken(lane) /\ Queued(lane)' = Queued(lane)
    <2>1. IdsInLane(Puts(out'), lane) = IdsInLane(Puts(out), lane)
      OBVIOUS
    <2> QED
      BY <2>1, Parts, PartsNext
  <1> QED
    BY <1>1, NoneDelivered, MailStays

\* The same, the messages announced being nobody's.
LEMMA NobodysMessage ==
  ASSUME Sound, Sound', Unseen, UNCHANGED <<messages, pending, steeringQueue, followUpQueue>>,
         out = <<>>, NEW s \in Seq(MessageSet), Ahead(out', s),
         \A i \in 1 .. Len(s) : s[i].kind \notin Lanes
  PROVE  Mails
  <1>1. ASSUME NEW lane \in Lanes PROVE IdsInLane(Puts(out'), lane) = IdsInLane(Puts(out), lane)
    <2>1. out' \in Seq(EventSet)
      BY DEF Sound, LoopTypes
    <2>2. IdsInLane(Puts(out'), lane) = <<>>
      BY <2>1, NoLaneAhead
    <2>3. IdsInLane(Puts(out), lane) = <<>>
      BY NothingPut, LaneFacts
    <2> QED
      BY <2>2, <2>3
  <1> QED
    BY <1>1, QuietStep

\* An event that ends no message.
LEMMA SaysNothing ==
  ASSUME Sound, Sound', Unseen, UNCHANGED <<messages, pending, steeringQueue, followUpQueue>>,
         out = <<>>, \A i \in 1 .. Len(out') : out'[i].type # "message_end"
  PROVE  Mails
  <1>1. out' \in Seq(EventSet)
    BY DEF Sound, LoopTypes
  <1>2. Ahead(out', <<>>)
    BY <1>1, AheadNone
  <1>3. <<>> \in Seq(MessageSet) /\ \A i \in 1 .. Len(<<>>) : <<>>[i].kind \notin Lanes
    OBVIOUS
  <1> QED
    BY <1>2, <1>3, NobodysMessage

\* The steps of the tools, of the batch and of the provider say nothing that is
\* of a lane.
LEMMA UntouchedMails ==
  ASSUME Sound, Sound', Unseen, UNCHANGED <<messages, pending, steeringQueue, followUpQueue, out>>
  PROVE  Mails
  BY QuietStep

LEMMA ToolMails ==
  ASSUME Sound, Sound', NEW c \in Calls, ToolStep(c) \/ ToolUpdate(c) \/ ToolFault(c)
  PROVE  Mails
  <1>1. UNCHANGED <<messages, pending, steeringQueue, followUpQueue, out>>
    BY DEF ToolStep, ToolUpdate, ToolFault, ToolReturn, ToolEnd, ToolSettle, Reduce, ToolEvent,
           classVars, queueVars, loopVars, histVars
  <1>2. accepted' = accepted /\ gone' = gone /\ pc' = pc
    BY DEF ToolStep, ToolUpdate, ToolFault, ToolReturn, ToolEnd, ToolSettle, loopVars, histVars, lossVars
  <1> QED
    BY <1>1, <1>2, UntouchedMails DEF Unseen

LEMMA BatchMails ==
  ASSUME Sound, Sound', Talking,
         StartCall \/ RejectCall \/ AdmitCall \/ AwaitCall \/ NextCall \/ RunPrepared \/ JoinCalls \/ EndBatch
  PROVE  Mails
  <1>0. Unseen
    <2>1. accepted' = accepted /\ gone' = gone
      BY DEF StartCall, RejectCall, AdmitCall, AwaitCall, NextCall, RunPrepared, JoinCalls, EndBatch,
             batchFrame, histVars, lossVars
    <2>2. pc # "failing" /\ pc' # "failing"
      BY DEF StartCall, RejectCall, AdmitCall, AwaitCall, NextCall, RunPrepared, JoinCalls, EndBatch
    <2> QED
      BY <2>1, <2>2 DEF Unseen
  <1>1. UNCHANGED <<messages, pending, steeringQueue, followUpQueue>>
    BY DEF StartCall, RejectCall, AdmitCall, AwaitCall, NextCall, RunPrepared, JoinCalls, EndBatch,
           batchFrame, classVars, queueVars, histVars
  <1>2. out = <<>>
    BY LaneState DEF StartCall, RejectCall, AdmitCall, AwaitCall, NextCall, RunPrepared, JoinCalls, EndBatch
  <1>3. CASE StartCall
    <2>1. out' = <<ToolEvent("tool_execution_start", batch.calls[batch.count + 1])>>
      BY <1>3 DEF StartCall
    <2>2. \A i \in 1 .. Len(out') : out'[i].type # "message_end"
      BY <2>1 DEF ToolEvent
    <2> QED
      BY <1>0, <1>1, <1>2, <2>2, SaysNothing
  <1>4. CASE EndBatch
    <2>1. out' = <<Event("turn_end")>>
      BY <1>4 DEF EndBatch
    <2>2. \A i \in 1 .. Len(out') : out'[i].type # "message_end"
      BY <2>1 DEF Event
    <2> QED
      BY <1>0, <1>1, <1>2, <2>2, SaysNothing
  <1>5. CASE AdmitCall \/ NextCall \/ RunPrepared
    <2>1. out' = out
      BY <1>5 DEF AdmitCall, NextCall, RunPrepared
    <2> QED
      BY <1>0, <1>1, <2>1, UntouchedMails
  \* The result of the current call.
  <1>6. ASSUME pc \in {"prepare", "await"}
        PROVE  /\ <<ToolResult(Current)>> \in Seq(MessageSet)
               /\ \A i \in 1 .. Len(<<ToolResult(Current)>>) : <<ToolResult(Current)>>[i].kind \notin Lanes
    <2>1. PICK r \in MessageSet : r = ToolResult(Current)
      BY <1>6, BatchFacts, MessageTypes
    <2>2. r.kind \notin Lanes
      BY <2>1, ResultFacts DEF Lanes
    <2>3. <<r>> \in Seq(MessageSet) /\ \A i \in 1 .. Len(<<r>>) : <<r>>[i] = r
      OBVIOUS
    <2> QED
      BY <2>1, <2>2, <2>3
  <1>7. CASE AwaitCall
    <2>1. pc = "await" /\ out' = Announce(<<ToolResult(Current)>>)
      BY <1>7 DEF AwaitCall
    <2>2. PICK s \in Seq(MessageSet) : s = <<ToolResult(Current)>> /\ \A i \in 1 .. Len(s) : s[i].kind \notin Lanes
      BY <1>6, <2>1
    <2>3. Ahead(out', s)
      BY <2>1, <2>2, AheadAnnounce
    <2> QED
      BY <1>0, <1>1, <1>2, <2>2, <2>3, NobodysMessage
  <1>8. CASE RejectCall
    <2>1. /\ pc = "prepare"
          /\ out' = <<ToolEvent("tool_execution_end", Current)>>
                      \o (IF batch.kind = "parallel" THEN <<>> ELSE Announce(<<ToolResult(Current)>>))
      BY <1>8 DEF RejectCall
    <2>2. PICK s \in Seq(MessageSet) : s = <<ToolResult(Current)>> /\ \A i \in 1 .. Len(s) : s[i].kind \notin Lanes
      BY <1>6, <2>1
    <2>3. PICK e \in Seq(EventSet) : e = <<ToolEvent("tool_execution_end", Current)>> /\ Ahead(e, <<>>)
      <3> DEFINE e == <<ToolEvent("tool_execution_end", Current)>>
      <3>1. Current \in Nat
        BY <2>1, BatchFacts
      <3>2. e \in Seq(EventSet)
        BY <3>1, EventTypesOf, SingleSeq DEF EventTypes
      <3>3. \A i \in 1 .. Len(e) : e[i].type # "message_end"
        BY DEF ToolEvent
      <3> QED
        BY <3>2, <3>3, AheadNone
    <2>4. CASE batch.kind = "parallel"
      <3>1. e \o <<>> = e
        BY ConcatEmptySeq
      <3>2. Ahead(out', <<>>)
        BY <2>1, <2>3, <2>4, <3>1
      <3>3. <<>> \in Seq(MessageSet) /\ \A i \in 1 .. Len(<<>>) : <<>>[i].kind \notin Lanes
        OBVIOUS
      <3> QED
        BY <1>0, <1>1, <1>2, <3>2, <3>3, NobodysMessage
    <2>5. CASE batch.kind # "parallel"
      <3>1. Ahead(e \o Announce(s), <<>> \o s) /\ <<>> \o s = s
        BY <2>3, AheadConcat, AheadAnnounce, AnnounceType, ConcatEmptySeq, EmptySeq
      <3>2. Ahead(out', s)
        BY <2>1, <2>2, <2>3, <2>5, <3>1
      <3> QED
        BY <1>0, <1>1, <1>2, <2>2, <3>2, NobodysMessage
    <2> QED
      BY <2>4, <2>5
  <1>9. CASE JoinCalls
    <2>1. out' = Announce(Results)
      BY <1>9 DEF JoinCalls
    <2>2. PICK s \in Seq(MessageSet) : s = Results
      BY ResultsType
    <2>3. \A i \in 1 .. Len(s) : s[i].kind \notin Lanes
      <3>1. batch.count \in Nat /\ Len(s) = batch.count /\ \A i \in 1 .. batch.count : s[i] = ToolResult(batch.calls[i])
        BY <2>2, BatchFacts DEF Results
      <3> QED
        BY <3>1, ResultFacts DEF Lanes
    <2>4. Ahead(out', s)
      BY <2>1, <2>2, AheadAnnounce
    <2> QED
      BY <1>0, <1>1, <1>2, <2>3, <2>4, NobodysMessage
  <1> QED
    BY <1>3, <1>4, <1>5, <1>7, <1>8, <1>9

LEMMA StreamMails ==
  ASSUME Sound, Sound', StopAfterTurn \/ StreamStart \/ Response
  PROVE  Mails
  <1>0. Unseen
    <2>1. accepted' = accepted /\ gone' = gone
      BY DEF StopAfterTurn, StreamStart, Response, Respond, histVars, lossVars
    <2>2. pc # "failing" /\ pc' # "failing"
      BY DEF StopAfterTurn, StreamStart, Response, Respond
    <2> QED
      BY <2>1, <2>2 DEF Unseen
  <1>1. UNCHANGED <<messages, pending, steeringQueue, followUpQueue>> /\ out = <<>>
    BY DEF StopAfterTurn, StreamStart, Response, Respond, classVars, queueVars, histVars
  <1>2. CASE StopAfterTurn
    <2>1. out' = <<Event("agent_end")>>
      BY <1>2 DEF StopAfterTurn
    <2>2. \A i \in 1 .. Len(out') : out'[i].type # "message_end"
      BY <2>1 DEF Event
    <2> QED
      BY <1>0, <1>1, <2>2, SaysNothing
  <1>3. CASE StreamStart
    <2>1. out' = <<MessageEvent("message_start", Partial)>>
      BY <1>3 DEF StreamStart
    <2>2. \A i \in 1 .. Len(out') : out'[i].type # "message_end"
      BY <2>1 DEF MessageEvent
    <2> QED
      BY <1>0, <1>1, <2>2, SaysNothing
  <1>4. ASSUME NEW stop \in Stops, NEW k \in 0 .. MaxCallsPerTurn, Respond(stop, k)
        PROVE  Mails
    <2>1. Issued + k <= MaxCalls
      BY <1>4 DEF Respond
    <2>2. k \in Nat /\ NextCalls(k) \in Seq(Calls)
      BY <2>1, AgentAssumption, NextCallsType
    <2>3. PICK m \in MessageSet : m = Assistant(stop, NextCalls(k))
      BY <2>2, MessageTypes
    <2>4. Ahead(out', <<m>>)
      BY <1>4, <2>3, AnswerAhead
    <2>5. m.kind \notin Lanes
      BY <2>3 DEF Assistant, Message, Stops, Lanes
    <2>6. <<m>> \in Seq(MessageSet) /\ \A i \in 1 .. Len(<<m>>) : <<m>>[i] = m
      OBVIOUS
    <2> QED
      BY <1>0, <1>1, <2>4, <2>5, <2>6, NobodysMessage
  <1> QED
    BY <1>2, <1>3, <1>4 DEF Response

\* Nothing of a lane is left to announce.
LEMMA NothingOut ==
  ASSUME NEW lane
  PROVE  IdsInLane(Puts(<<>>), lane) = <<>> /\ IdsInLane(<<>>, lane) = <<>>
  BY NothingPut, LaneFacts

\* What is taken from the steering queue is pending or announced.
LEMMA SteeringTaken ==
  ASSUME Sound, Sound', Talking, Unseen, UNCHANGED <<messages, followUpQueue>>,
         out = <<>>, pending = <<>>, NEW mode, steeringQueue' = Remaining(mode, steeringQueue),
         \/ out' = <<>> /\ pending' = Drained(mode, steeringQueue)
         \/ Ahead(out', Drained(mode, steeringQueue)) /\ pending' = <<>>
  PROVE  Mails
  <1>0. /\ steeringQueue \in Seq(UserSet) /\ followUpQueue \in Seq(UserSet) /\ out' \in Seq(EventSet)
        /\ AllOf(steeringQueue, "steer") /\ AllOf(followUpQueue, "followUp")
    BY LaneState DEF Sound, LoopTypes
  <1>1. PICK d \in Seq(UserSet) : d = Drained(mode, steeringQueue)
    BY <1>0, DrainWhole
  <1>2. AllOf(d, "steer") /\ AllOf(steeringQueue', "steer") /\ steeringQueue' \in Seq(UserSet)
    BY <1>0, <1>1, DrainLanes, DrainWhole
  <1>3. ASSUME NEW lane \in Lanes
        PROVE  Taken(lane) = <<>> /\ Taken(lane)' = IdsInLane(d, lane)
    <2>1. Taken(lane) = <<>>
      <3>1. Taken(lane) = <<>> \o <<>>
        BY Parts, NothingOut
      <3> QED
        BY <3>1
    <2>2. CASE out' = <<>> /\ pending' = d
      <3>1. Taken(lane)' = <<>> \o IdsInLane(d, lane) /\ IdsInLane(d, lane) \in Seq(Nat)
        BY <2>2, PartsNext, NothingOut
      <3> QED
        BY <2>1, <3>1, NothingAdded
    <2>3. CASE Ahead(out', d) /\ pending' = <<>>
      <3>1. IdsInLane(Puts(out'), lane) = IdsInLane(d, lane)
        BY <1>0, <2>3, LaneAhead
      <3>2. Taken(lane)' = IdsInLane(d, lane) \o <<>> /\ IdsInLane(d, lane) \in Seq(Nat)
        BY <2>3, <3>1, PartsNext, NothingOut
      <3> QED
        BY <2>1, <3>2, NothingAdded
    <2> QED
      BY <1>1, <2>2, <2>3
  <1>4. ASSUME NEW lane \in Lanes, lane # "steer"
        PROVE  Taken(lane)' = Taken(lane) /\ Queued(lane)' = Queued(lane)
    <2>1. IdsInLane(d, lane) = <<>> /\ IdsInLane(steeringQueue, lane) = <<>> /\ IdsInLane(steeringQueue', lane) = <<>>
      BY <1>0, <1>2, <1>4, OtherLanes
    <2> QED
      BY <1>3, <2>1, Parts, PartsNext
  <1> DEFINE to == "steer"
  <1>5. to \in Lanes
    BY DEF Lanes
  <1>6. PICK a \in Seq(Nat), r \in Seq(Nat) : a = IdsInLane(d, to) /\ r = IdsInLane(steeringQueue', to)
    BY <1>0, <1>1, DrainWhole
  <1>7. Queued(to) = a \o r /\ Queued(to)' = r
    <2>1. IdsInLane(steeringQueue, to) = a \o r
      BY <1>0, <1>1, <1>6, DrainWhole
    <2>2. IdsInLane(followUpQueue, to) = <<>>
      BY <1>0, OtherLanes
    <2>3. Queued(to) = (a \o r) \o <<>> /\ Queued(to)' = r \o <<>>
      BY <1>6, <2>1, <2>2, Parts, PartsNext
    <2>4. a \o r \in Seq(Nat)
      OBVIOUS
    <2> QED
      BY <2>3, <2>4, NothingAdded
  <1>8. Taken(to) = <<>> /\ Taken(to)' = a
    BY <1>3, <1>5, <1>6
  <1> HIDE DEF to
  <1>9. \A lane \in Lanes : lane # to => Taken(lane)' = Taken(lane) /\ Queued(lane)' = Queued(lane)
    BY <1>4 DEF to
  <1> QED
    BY <1>5, <1>7, <1>8, <1>9, NoneDelivered, MailTaken

LEMMA PollSteeringMails ==
  ASSUME Sound, Sound', Talking, PollSteering
  PROVE  Mails
  <1>0. Unseen
    <2>1. accepted' = accepted /\ gone' = gone
      BY DEF PollSteering, lossVars
    <2>2. pc # "failing" /\ pc' # "failing"
      BY DEF PollSteering
    <2> QED
      BY <2>1, <2>2 DEF Unseen
  <1>1. /\ UNCHANGED <<messages, followUpQueue, out>> /\ out = <<>> /\ pc \in {"poll", "turnEnd"}
        /\ IF skipPoll THEN pending' = <<>> /\ steeringQueue' = steeringQueue
           ELSE /\ pending' = Drained(steeringMode, steeringQueue)
                /\ steeringQueue' = Remaining(steeringMode, steeringQueue)
    BY DEF PollSteering, classVars
  <1>2. pending = <<>>
    BY <1>1, LaneState
  <1>3. CASE skipPoll
    BY <1>0, <1>1, <1>2, <1>3, UntouchedMails
  <1>4. CASE ~skipPoll
    BY <1>0, <1>1, <1>2, <1>4, SteeringTaken
  <1> QED
    BY <1>3, <1>4

\* Taken from the queue of follow-ups, where nothing else is pending.
LEMMA FollowUpsTaken ==
  ASSUME Sound, Sound', Talking, Unseen, UNCHANGED <<messages, steeringQueue>>,
         out = <<>>, pending = <<>>, NEW mode, followUpQueue' = Remaining(mode, followUpQueue),
         \/ Ahead(out', <<>>) /\ pending' = Drained(mode, followUpQueue)
         \/ Ahead(out', Drained(mode, followUpQueue)) /\ pending' = <<>>
  PROVE  Mails
  <1>0. /\ steeringQueue \in Seq(UserSet) /\ followUpQueue \in Seq(UserSet) /\ out' \in Seq(EventSet)
        /\ AllOf(steeringQueue, "steer") /\ AllOf(followUpQueue, "followUp")
    BY LaneState DEF Sound, LoopTypes
  <1>1. PICK d \in Seq(UserSet) : d = Drained(mode, followUpQueue)
    BY <1>0, DrainWhole
  <1>2. AllOf(d, "followUp") /\ AllOf(followUpQueue', "followUp") /\ followUpQueue' \in Seq(UserSet)
    BY <1>0, <1>1, DrainLanes, DrainWhole
  <1>3. ASSUME NEW lane \in Lanes
        PROVE  Taken(lane) = <<>> /\ Taken(lane)' = IdsInLane(d, lane)
    <2>1. Taken(lane) = <<>>
      <3>1. Taken(lane) = <<>> \o <<>>
        BY Parts, NothingOut
      <3> QED
        BY <3>1
    <2>2. CASE Ahead(out', <<>>) /\ pending' = d
      <3>1. IdsInLane(Puts(out'), lane) = <<>>
        <4>1. <<>> \in Seq(UserSet)
          OBVIOUS
        <4> QED
          BY <1>0, <2>2, <4>1, LaneAhead, NothingOut
      <3>2. Taken(lane)' = <<>> \o IdsInLane(d, lane) /\ IdsInLane(d, lane) \in Seq(Nat)
        BY <2>2, <3>1, PartsNext
      <3> QED
        BY <2>1, <3>2, NothingAdded
    <2>3. CASE Ahead(out', d) /\ pending' = <<>>
      <3>1. IdsInLane(Puts(out'), lane) = IdsInLane(d, lane)
        BY <1>0, <2>3, LaneAhead
      <3>2. Taken(lane)' = IdsInLane(d, lane) \o <<>> /\ IdsInLane(d, lane) \in Seq(Nat)
        BY <2>3, <3>1, PartsNext, NothingOut
      <3> QED
        BY <2>1, <3>2, NothingAdded
    <2> QED
      BY <1>1, <2>2, <2>3
  <1>4. ASSUME NEW lane \in Lanes, lane # "followUp"
        PROVE  Taken(lane)' = Taken(lane) /\ Queued(lane)' = Queued(lane)
    <2>1. IdsInLane(d, lane) = <<>> /\ IdsInLane(followUpQueue, lane) = <<>> /\ IdsInLane(followUpQueue', lane) = <<>>
      BY <1>0, <1>2, <1>4, OtherLanes
    <2> QED
      BY <1>3, <2>1, Parts, PartsNext
  <1> DEFINE to == "followUp"
  <1>5. to \in Lanes
    BY DEF Lanes
  <1>6. PICK a \in Seq(Nat), r \in Seq(Nat) : a = IdsInLane(d, to) /\ r = IdsInLane(followUpQueue', to)
    BY <1>0, <1>1, DrainWhole
  <1>7. Queued(to) = a \o r /\ Queued(to)' = r
    <2>1. IdsInLane(followUpQueue, to) = a \o r
      BY <1>0, <1>1, <1>6, DrainWhole
    <2>2. IdsInLane(steeringQueue, to) = <<>>
      BY <1>0, OtherLanes
    <2>3. Queued(to) = <<>> \o (a \o r) /\ Queued(to)' = <<>> \o r
      BY <1>6, <2>1, <2>2, Parts, PartsNext
    <2>4. a \o r \in Seq(Nat)
      OBVIOUS
    <2> QED
      BY <2>3, <2>4, NothingAdded
  <1>8. Taken(to) = <<>> /\ Taken(to)' = a
    BY <1>3, <1>5, <1>6
  <1> HIDE DEF to
  <1>9. \A lane \in Lanes : lane # to => Taken(lane)' = Taken(lane) /\ Queued(lane)' = Queued(lane)
    BY <1>4 DEF to
  <1> QED
    BY <1>5, <1>7, <1>8, <1>9, NoneDelivered, MailTaken

LEMMA PollFollowUpsMails ==
  ASSUME Sound, Sound', Talking, PollFollowUps
  PROVE  Mails
  <1>0. Unseen
    <2>1. accepted' = accepted /\ gone' = gone
      BY DEF PollFollowUps, histVars, lossVars
    <2>2. pc # "failing" /\ pc' # "failing"
      BY DEF PollFollowUps
    <2> QED
      BY <2>1, <2>2 DEF Unseen
  <1>1. /\ UNCHANGED <<messages, steeringQueue>> /\ out = <<>> /\ pending = <<>>
        /\ pending' = Drained(followUpMode, followUpQueue)
        /\ followUpQueue' = Remaining(followUpMode, followUpQueue)
        /\ out' = out \/ out' = <<Event("agent_end")>>
    BY DEF PollFollowUps, classVars, histVars
  <1>2. Ahead(out', <<>>)
    <2>1. CASE out' = <<>>
      BY <2>1, NothingAhead
    <2>2. CASE out' = <<Event("agent_end")>>
      <3>1. out' \in Seq(EventSet) /\ \A i \in 1 .. Len(out') : out'[i].type # "message_end"
        BY <2>2 DEF Sound, LoopTypes, Event
      <3> QED
        BY <3>1, AheadNone
    <2> QED
      BY <1>1, <2>1, <2>2
  <1> QED
    BY <1>0, <1>1, <1>2, FollowUpsTaken

LEMMA StartTurnMails ==
  ASSUME Sound, Sound', StartTurn
  PROVE  Mails
  <1>0. Unseen
    <2>1. accepted' = accepted /\ gone' = gone
      BY DEF StartTurn, histVars, lossVars
    <2>2. pc # "failing" /\ pc' # "failing"
      BY DEF StartTurn
    <2> QED
      BY <2>1, <2>2 DEF Unseen
  <1>1. /\ UNCHANGED <<messages, steeringQueue, followUpQueue>> /\ out = <<>> /\ pending' = <<>>
        /\ out' = (IF firstTurn THEN <<>> ELSE <<Event("turn_start")>>) \o Announce(pending)
        /\ pending \in Seq(UserSet) /\ out' \in Seq(EventSet)
    BY DEF StartTurn, classVars, histVars, queueVars, Sound, LoopTypes
  <1>2. pending \in Seq(MessageSet)
    BY <1>1, UsersAreMessages
  <1>3. Ahead(out', pending)
    <2> DEFINE o == IF firstTurn THEN <<>> ELSE <<Event("turn_start")>>
    <2>1. o \in Seq(EventSet) /\ Ahead(o, <<>>)
      <3>1. CASE firstTurn
        BY <3>1, NothingAhead, EmptySeq
      <3>2. CASE ~firstTurn
        <4>1. o \in Seq(EventSet)
          BY <3>2, EventTypesOf, SingleSeq DEF EventTypes
        <4>2. \A i \in 1 .. Len(o) : o[i].type # "message_end"
          BY <3>2 DEF Event
        <4> QED
          BY <4>1, <4>2, AheadNone
      <3> QED
        BY <3>1, <3>2
    <2>2. PICK b \in Seq(EventSet) : b = o
      BY <2>1
    <2>3. Ahead(b \o Announce(pending), <<>> \o pending)
      BY <1>2, <2>1, <2>2, AheadConcat, AheadAnnounce, AnnounceType, EmptySeq
    <2>4. <<>> \o pending = pending
      BY <1>2, ConcatEmptySeq
    <2> QED
      BY <1>1, <2>2, <2>3, <2>4
  <1>4. ASSUME NEW lane \in Lanes
        PROVE  Taken(lane)' = Taken(lane) /\ Queued(lane)' = Queued(lane)
    <2>1. IdsInLane(Puts(out'), lane) = IdsInLane(pending, lane)
      BY <1>1, <1>3, LaneAhead
    <2>2. PICK p \in Seq(Nat) : p = IdsInLane(pending, lane)
      BY Parts
    <2>3. Taken(lane) = <<>> \o p /\ Taken(lane)' = p \o <<>>
      BY <1>1, <2>1, <2>2, Parts, PartsNext, NothingOut
    <2>4. Queued(lane)' = Queued(lane)
      BY <1>1, Parts, PartsNext
    <2> QED
      BY <2>3, <2>4, NothingAdded
  <1> QED
    BY <1>0, <1>1, <1>4, NoneDelivered, MailStays

Moves(a, b, c) == (a \o b) \o c = a \o (b \o c)

LEMMA NumbersMove ==
  ASSUME NEW a \in Seq(Nat), NEW b \in Seq(Nat), NEW c \in Seq(Nat)
  PROVE  Moves(a, b, c) /\ a \o b \in Seq(Nat)
  BY DEF Moves

\* Emit delivers the message of a lane, or none.
LEMMA EmitMails ==
  ASSUME Sound, Sound', Emit
  PROVE  Mails
  <1>0. Unseen
    BY DEF Emit, Unseen, lossVars
  <1>1. /\ UNCHANGED <<pending, steeringQueue, followUpQueue>> /\ out # <<>> /\ out' = Tail(out)
        /\ messages' = IF Head(out).type = "message_end" THEN Append(messages, Head(out).msg) ELSE messages
        /\ out \in Seq(EventSet) /\ messages \in Seq(MessageSet)
    BY DEF Emit, Reduce, queueVars, Sound, LoopTypes, ClassTypes
  <1>2. Head(out) = out[1] /\ out[1] \in EventSet /\ Tail(out) \in Seq(EventSet)
    BY <1>1, PutsTail
  <1> DEFINE e == IF out[1].type = "message_end" THEN out[1].msg ELSE NoMessage
  <1>3. e \in MessageSet
    BY <1>2, MessageTypes, IdType
  <1>4. Puts(out) = <<e>> \o Puts(out') /\ Puts(out') \in Seq(MessageSet)
    BY <1>1, <1>2, PutsTail, PutsFacts
  <1>5. e.kind \in Lanes => out[1].type = "message_end" /\ e = out[1].msg
    BY DEF NoMessage, Message, Lanes
  <1> HIDE DEF e
  <1>6. ASSUME NEW lane \in Lanes
        PROVE  /\ Queued(lane)' = Queued(lane)
               /\ IF e.kind = lane THEN Taken(lane) = <<e.id>> \o Taken(lane)' /\ Taken(lane)' \in Seq(Nat)
                  ELSE Taken(lane) = Taken(lane)'
    <2> DEFINE u == <<e>>
               p == Puts(out')
    <2>0. IdsInLane(u, lane) = IF e.kind = lane THEN <<e.id>> ELSE <<>>
      BY <1>3, LaneFacts
    <2>1. u \in Seq(MessageSet) /\ p \in Seq(MessageSet) /\ Puts(out) = u \o p
      BY <1>3, <1>4
    <2> HIDE DEF u, p
    <2>2. IdsInLane(u \o p, lane) = IdsInLane(u, lane) \o IdsInLane(p, lane)
      BY ONLY <2>1, LaneConcat
    <2>3. PICK a \in Seq(Nat) : a = IdsInLane(p, lane)
      BY <2>1, LaneFacts
    <2>4. PICK q \in Seq(Nat) : q = IdsInLane(pending, lane)
      BY Parts
    <2>5. Taken(lane)' = a \o q
      BY <1>1, <2>3, <2>4, PartsNext DEF p
    <2>6. PICK b \in Seq(Nat) : b = IdsInLane(u, lane)
      BY <2>1, LaneFacts
    <2>7. Taken(lane) = (b \o a) \o q
      BY <2>1, <2>2, <2>3, <2>4, <2>6, Parts
    <2>8. a \o q \in Seq(Nat) /\ Moves(b, a, q)
      BY NumbersMove
    <2>9. Taken(lane) = b \o (a \o q)
      BY <2>7, <2>8, Zenon DEF Moves
    <2>10. Queued(lane)' = Queued(lane)
      BY <1>1, Parts, PartsNext
    <2>11. CASE e.kind = lane
      BY <2>0, <2>5, <2>6, <2>8, <2>9, <2>10, <2>11
    <2>12. CASE e.kind # lane
      <3>1. b = <<>>
        BY <2>0, <2>6, <2>12
      <3> QED
        BY <2>5, <2>8, <2>9, <2>10, <2>12, <3>1, NothingAdded
    <2> QED
      BY <2>11, <2>12
  <1>7. CASE e.kind \in Lanes
    <2>6. PICK to \in Lanes : to = e.kind
      BY <1>7
    <2>1. PICK w \in Seq(Nat) : w = Taken(to)' /\ Taken(to) = <<e.id>> \o w
      <3>1. Taken(to) = <<e.id>> \o Taken(to)' /\ Taken(to)' \in Seq(Nat)
        BY <1>6, <2>6
      <3> QED
        BY <3>1
    <2>2. e.id \in Nat
      BY <1>3, IdType
    <2>3. Head(<<e.id>> \o w) = e.id /\ Tail(<<e.id>> \o w) = w /\ <<e.id>> \o w # <<>>
      BY <2>2
    <2>4. Delivered' = Append(Delivered, [lane |-> e.kind, id |-> e.id])
      <3>1. messages' = Append(messages, e)
        BY <1>1, <1>2, <1>5, <1>7
      <3>2. Delivered' = Users(messages') /\ Delivered = Users(messages)
        BY DEF Delivered, Users
      <3> QED
        BY <1>1, <1>3, <1>7, <3>1, <3>2, UsersFacts
    <2>5. \A lane \in Lanes : lane # to => Taken(lane)' = Taken(lane)
      BY <1>6, <2>6
    <2>7. Taken(to) # <<>> /\ Head(Taken(to)) = e.id /\ Taken(to)' = Tail(Taken(to))
      BY <2>1, <2>3, <2>6
    <2>8. \A lane \in Lanes : Queued(lane)' = Queued(lane)
      BY <1>6
    <2> QED
      BY <1>0, <2>4, <2>5, <2>6, <2>7, <2>8, MailDelivered
  <1>8. CASE e.kind \notin Lanes
    <2>1. \A lane \in Lanes : Taken(lane)' = Taken(lane) /\ Queued(lane)' = Queued(lane)
      BY <1>6, <1>8
    <2>2. Delivered' = Delivered
      <3>1. Delivered' = Users(messages') /\ Delivered = Users(messages)
        BY DEF Delivered, Users
      <3>2. CASE out[1].type = "message_end"
        <4>1. messages' = Append(messages, e)
          BY <1>1, <1>2, <3>2 DEF e
        <4> QED
          BY <1>1, <1>3, <1>8, <3>1, <4>1, UsersFacts
      <3>3. CASE out[1].type # "message_end"
        BY <1>1, <1>2, <3>1, <3>3
      <3> QED
        BY <3>2, <3>3
    <2> QED
      BY <1>0, <2>1, <2>2, MailStays
  <1> QED
    BY <1>7, <1>8

\* A run starts by announcing these messages.
LEMMA StartAhead ==
  ASSUME Sound', NEW msgs \in Seq(UserSet), NEW skip, StartRun(msgs, skip)
  PROVE  Ahead(out', msgs) /\ pending' = <<>> /\ out' \in Seq(EventSet)
  <1>1. /\ out' = <<Event("agent_start"), Event("turn_start")>> \o Announce(msgs)
        /\ pending' = <<>> /\ out' \in Seq(EventSet)
    BY DEF StartRun, Sound, LoopTypes
  <1>2. msgs \in Seq(MessageSet)
    BY UsersAreMessages
  <1> DEFINE o == <<Event("agent_start"), Event("turn_start")>>
  <1>3. o \in Seq(EventSet)
    BY EventTypesOf DEF EventTypes
  <1>4. Len(o) = 2 /\ o[1].type = "agent_start" /\ o[2].type = "turn_start"
    BY DEF Event
  <1> HIDE DEF o
  <1>5. Ahead(o, <<>>)
    <2>1. \A i \in 1 .. 2 : i = 1 \/ i = 2
      OBVIOUS
    <2> QED
      BY <1>3, <1>4, <2>1, AheadNone
  <1>6. Ahead(o \o Announce(msgs), <<>> \o msgs)
    BY <1>2, <1>3, <1>5, AheadConcat, AheadAnnounce, AnnounceType, EmptySeq
  <1>7. <<>> \o msgs = msgs
    BY <1>2, ConcatEmptySeq
  <1> QED
    BY <1>1, <1>6, <1>7 DEF o

\* Nothing is under way where a run can start.
LEMMA StartClean ==
  ASSUME Sound, IdleIsClean, Talking, ~active
  PROVE  out = <<>> /\ pending = <<>>
  <1>1. pc = "idle" /\ out = <<>>
    BY DEF IdleIsClean
  <1> QED
    BY <1>1, LaneState

LEMMA ContinueMails ==
  ASSUME Sound, Sound', IdleIsClean, Talking, Continue
  PROVE  Mails
  <1> DEFINE Alone == StartRun(<<>>, FALSE) /\ UNCHANGED <<steeringQueue, followUpQueue>>
             Steered == /\ StartRun(Drained(steeringMode, steeringQueue), TRUE)
                        /\ steeringQueue' = Remaining(steeringMode, steeringQueue)
                        /\ UNCHANGED followUpQueue
             Followed == /\ StartRun(Drained(followUpMode, followUpQueue), FALSE)
                         /\ followUpQueue' = Remaining(followUpMode, followUpQueue)
                         /\ UNCHANGED steeringQueue
  <1>1. accepted' = accepted /\ (Alone \/ Steered \/ Followed)
    BY DEF Continue
  <1>2. ASSUME NEW msgs, NEW skip, StartRun(msgs, skip)
        PROVE  out = <<>> /\ pending = <<>> /\ UNCHANGED messages /\ Unseen
    <2>1. out = <<>> /\ pending = <<>> /\ UNCHANGED messages /\ gone' = gone
      BY <1>2, StartClean DEF StartRun, lossVars
    <2>2. pc' # "failing" /\ pc # "failing"
      BY <1>2 DEF StartRun, IdleIsClean
    <2> QED
      BY <1>1, <2>1, <2>2 DEF Unseen
  <1>3. CASE Alone
    <2>1. <<>> \in Seq(UserSet)
      OBVIOUS
    <2>2. Ahead(out', <<>>) /\ pending' = <<>>
      BY <1>3, <2>1, StartAhead
    <2>3. <<>> \in Seq(MessageSet) /\ \A i \in 1 .. Len(<<>>) : <<>>[i].kind \notin Lanes
      OBVIOUS
    <2> QED
      BY <1>1, <1>2, <1>3, <2>2, <2>3, NobodysMessage
  <1>4. CASE Steered
    <2>1. PICK d \in Seq(UserSet) : d = Drained(steeringMode, steeringQueue)
      BY DrainWhole DEF Sound, QueueTypes
    <2>2. Ahead(out', d) /\ pending' = <<>>
      BY <1>4, <2>1, StartAhead
    <2> QED
      BY <1>1, <1>2, <1>4, <2>1, <2>2, SteeringTaken
  <1>5. CASE Followed
    <2>1. PICK d \in Seq(UserSet) : d = Drained(followUpMode, followUpQueue)
      BY DrainWhole DEF Sound, QueueTypes
    <2>2. Ahead(out', d) /\ pending' = <<>>
      BY <1>5, <2>1, StartAhead
    <2> QED
      BY <1>1, <1>2, <1>5, <2>1, <2>2, FollowUpsTaken
  <1> HIDE DEF Alone, Steered, Followed
  <1> QED
    BY <1>1, <1>3, <1>4, <1>5

\* What is submitted waits at the end of its lane.
LEMMA Submitted ==
  ASSUME Sound, NEW lane \in Lanes
  PROVE  User(accepted + 1, lane) \in UserSet /\ User(accepted + 1, lane).kind = lane
         /\ User(accepted + 1, lane).id = accepted + 1 /\ accepted \in Nat
  BY MessageTypes DEF Sound, HistTypes, User, Message

LEMMA PromptMails ==
  ASSUME Sound, Sound', IdleIsClean, Talking, Prompt
  PROVE  Mails
  <1>1. /\ accepted' = accepted + 1 /\ StartRun(<<User(accepted + 1, "prompt")>>, FALSE)
        /\ UNCHANGED <<steeringQueue, followUpQueue, messages, gone>>
        /\ pc' # "failing" /\ pc # "failing"
    BY DEF Prompt, StartRun, lossVars, IdleIsClean
  <1>2. out = <<>> /\ pending = <<>>
    BY <1>1, StartClean DEF StartRun
  <1>3. PICK u \in UserSet : u = User(accepted + 1, "prompt") /\ u.kind = "prompt" /\ u.id = accepted + 1
                             /\ accepted \in Nat
    <2>1. "prompt" \in Lanes
      BY DEF Lanes
    <2> QED
      BY <2>1, Submitted
  <1>4. PICK m \in Seq(UserSet) : m = <<u>>
    BY SingleSeq
  <1>5. Ahead(out', m) /\ pending' = <<>> /\ out' \in Seq(EventSet)
    BY <1>1, <1>3, <1>4, StartAhead
  <1>6. ASSUME NEW lane \in Lanes
        PROVE  IdsInLane(Puts(out'), lane) = IF lane = "prompt" THEN <<accepted + 1>> ELSE <<>>
    <2>1. IdsInLane(Puts(out'), lane) = IdsInLane(<<u>>, lane)
      BY <1>4, <1>5, LaneAhead
    <2>2. u \in MessageSet
      BY MessageTypes
    <2> QED
      BY <1>3, <2>1, <2>2, LaneFacts
  <1>7. ASSUME NEW lane \in Lanes
        PROVE  /\ Queued(lane)' = Queued(lane)
               /\ lane # "prompt" => Taken(lane)' = Taken(lane)
    <2>1. lane # "prompt" => IdsInLane(Puts(out'), lane) = IdsInLane(Puts(out), lane)
      BY <1>2, <1>6, NothingOut
    <2> QED
      BY <1>1, <1>2, <1>5, <2>1, Parts, PartsNext
  <1>8. Taken("prompt") = <<>> /\ Taken("prompt")' = <<accepted + 1>>
    <2>1. Taken("prompt") = <<>> \o <<>>
      BY <1>2, Parts, NothingOut
    <2>2. IdsInLane(Puts(out'), "prompt") = <<accepted + 1>>
      BY <1>6 DEF Lanes
    <2>3. Taken("prompt")' = <<accepted + 1>> \o <<>>
      BY <1>5, <2>2, PartsNext, NothingOut
    <2>4. <<>> \o <<>> = <<>> /\ <<accepted + 1>> \o <<>> = <<accepted + 1>>
      BY <1>3
    <2> QED
      BY <2>1, <2>3, <2>4, Zenon
  <1>9. Taken("prompt")' = Append(Taken("prompt"), accepted + 1)
    <2>1. Append(<<>>, accepted + 1) = <<accepted + 1>>
      BY <1>3
    <2> QED
      BY <1>8, <2>1
  <1>10. "prompt" \in Lanes
    BY DEF Lanes
  <1> QED
    BY <1>1, <1>7, <1>9, <1>10, NoneDelivered, MailAccepted

LEMMA QueueMails ==
  ASSUME Sound, Sound', Talking, Steer \/ FollowUp
  PROVE  Mails
  <1>1. UNCHANGED <<messages, out, pending, gone, pc>> /\ accepted' = accepted + 1
    BY DEF Steer, FollowUp, classVars, loopVars, lossVars
  <1>2. /\ AllOf(steeringQueue, "steer") /\ AllOf(followUpQueue, "followUp")
        /\ steeringQueue \in Seq(UserSet) /\ followUpQueue \in Seq(UserSet) /\ accepted \in Nat
    BY LaneState
  <1>3. "steer" \in Lanes /\ "followUp" \in Lanes
    BY DEF Lanes
  <1>4. CASE Steer
    <2>1. PICK u \in UserSet : u = User(accepted + 1, "steer") /\ u.kind = "steer" /\ u.id = accepted + 1
      BY <1>3, Submitted
    <2>2. steeringQueue' = Append(steeringQueue, u) /\ followUpQueue' = followUpQueue
      BY <1>4, <2>1 DEF Steer
    <2>3. ASSUME NEW lane \in Lanes
          PROVE  /\ Taken(lane)' = Taken(lane)
                 /\ lane # "steer" => Queued(lane)' = Queued(lane)
      <3>1. lane # "steer" => IdsInLane(steeringQueue', lane) = IdsInLane(steeringQueue, lane)
        BY <1>2, <2>1, <2>2, LaneAppend
      <3> QED
        BY <1>1, <2>2, <3>1, Parts, PartsNext
    <2>4. Queued("steer")' = Append(Queued("steer"), accepted + 1)
      <3>1. PICK c \in Seq(Nat) : c = IdsInLane(steeringQueue, "steer")
        BY Parts
      <3>2. IdsInLane(steeringQueue', "steer") = c \o <<accepted + 1>>
        <4>1. IdsInLane(Append(steeringQueue, u), "steer") = IdsInLane(steeringQueue, "steer") \o <<u.id>>
          BY <1>2, <2>1, LaneAppend
        <4> QED
          BY <2>1, <2>2, <3>1, <4>1
      <3>3. IdsInLane(followUpQueue, "steer") = <<>>
        BY <1>2, OtherLanes
      <3>4. Queued("steer") = c \o <<>> /\ Queued("steer")' = (c \o <<accepted + 1>>) \o <<>>
        BY <2>2, <3>1, <3>2, <3>3, Parts, PartsNext
      <3>5. c \o <<accepted + 1>> \in Seq(Nat) /\ c \o <<accepted + 1>> = Append(c, accepted + 1)
        BY <1>2
      <3>6. Queued("steer") = c /\ Queued("steer")' = c \o <<accepted + 1>>
        BY <3>4, <3>5, NothingAdded
      <3> QED
        BY <3>5, <3>6
    <2> QED
      BY <1>1, <1>3, <2>3, <2>4, NoneDelivered, MailAccepted
  <1>5. CASE FollowUp
    <2>1. PICK u \in UserSet : u = User(accepted + 1, "followUp") /\ u.kind = "followUp" /\ u.id = accepted + 1
      BY <1>3, Submitted
    <2>2. followUpQueue' = Append(followUpQueue, u) /\ steeringQueue' = steeringQueue
      BY <1>5, <2>1 DEF FollowUp
    <2>3. ASSUME NEW lane \in Lanes
          PROVE  /\ Taken(lane)' = Taken(lane)
                 /\ lane # "followUp" => Queued(lane)' = Queued(lane)
      <3>1. lane # "followUp" => IdsInLane(followUpQueue', lane) = IdsInLane(followUpQueue, lane)
        BY <1>2, <2>1, <2>2, LaneAppend
      <3> QED
        BY <1>1, <2>2, <3>1, Parts, PartsNext
    <2>4. Queued("followUp")' = Append(Queued("followUp"), accepted + 1)
      <3>1. PICK c \in Seq(Nat) : c = IdsInLane(followUpQueue, "followUp")
        BY Parts
      <3>2. IdsInLane(followUpQueue', "followUp") = c \o <<accepted + 1>>
        <4>1. IdsInLane(Append(followUpQueue, u), "followUp") = IdsInLane(followUpQueue, "followUp") \o <<u.id>>
          BY <1>2, <2>1, LaneAppend
        <4> QED
          BY <2>1, <2>2, <3>1, <4>1
      <3>3. IdsInLane(steeringQueue, "followUp") = <<>>
        BY <1>2, OtherLanes
      <3>4. Queued("followUp") = <<>> \o c /\ Queued("followUp")' = <<>> \o (c \o <<accepted + 1>>)
        BY <2>2, <3>1, <3>2, <3>3, Parts, PartsNext
      <3>5. c \o <<accepted + 1>> \in Seq(Nat) /\ c \o <<accepted + 1>> = Append(c, accepted + 1)
        BY <1>2
      <3>6. Queued("followUp") = c /\ Queued("followUp")' = c \o <<accepted + 1>>
        BY <3>4, <3>5, NothingAdded
      <3> QED
        BY <3>5, <3>6
    <2> QED
      BY <1>1, <1>3, <2>3, <2>4, NoneDelivered, MailAccepted
  <1> QED
    BY <1>4, <1>5

\* Every user message of the queue is of its lane.
LEMMA LaneOfQueue ==
  ASSUME NEW q \in Seq(UserSet), NEW kind \in Lanes, AllOf(q, kind)
  PROVE  UserIds(q) = Promise!Content(IdsInLane(q, kind))
  <1>1. q \in Seq(MessageSet)
    BY UsersAreMessages
  <1>2. Promise!Content(IdsInLane(q, kind)) = NumbersAmong(q, {kind})
    BY <1>1, ContentOfLane
  <1>3. {j \in 1 .. Len(q) : q[j].kind \in Lanes} = {j \in 1 .. Len(q) : q[j].kind \in {kind}}
    BY DEF AllOf
  <1> QED
    BY <1>2, <1>3 DEF UserIds, NumbersAmong

\* What the queues hold, lane by lane.
LEMMA QueuedByLane ==
  ASSUME Sound, Talking
  PROVE  /\ Promise!Content(Queued("steer")) = UserIds(steeringQueue)
         /\ Promise!Content(Queued("followUp")) = UserIds(followUpQueue)
         /\ Promise!Content(Queued("prompt")) = {}
         /\ Queued("steer") = IdsInLane(steeringQueue, "steer")
         /\ Queued("followUp") = IdsInLane(followUpQueue, "followUp")
  <1>1. /\ AllOf(steeringQueue, "steer") /\ AllOf(followUpQueue, "followUp")
        /\ steeringQueue \in Seq(UserSet) /\ followUpQueue \in Seq(UserSet)
    BY LaneState
  <1>2. "steer" \in Lanes /\ "followUp" \in Lanes
    BY DEF Lanes
  <1>3. /\ IdsInLane(steeringQueue, "followUp") = <<>> /\ IdsInLane(steeringQueue, "prompt") = <<>>
        /\ IdsInLane(followUpQueue, "steer") = <<>> /\ IdsInLane(followUpQueue, "prompt") = <<>>
    BY <1>1, OtherLanes
  <1>4. /\ Queued("steer") = IdsInLane(steeringQueue, "steer") \o <<>>
        /\ Queued("followUp") = <<>> \o IdsInLane(followUpQueue, "followUp")
        /\ Queued("prompt") = <<>> \o <<>>
        /\ IdsInLane(steeringQueue, "steer") \in Seq(Nat) /\ IdsInLane(followUpQueue, "followUp") \in Seq(Nat)
    BY <1>3, Parts
  <1>5. /\ Queued("steer") = IdsInLane(steeringQueue, "steer")
        /\ Queued("followUp") = IdsInLane(followUpQueue, "followUp")
    BY <1>4, NothingAdded
  <1>6. Promise!Content(Queued("prompt")) = {}
    <2>1. Queued("prompt") = <<>>
      BY <1>4
    <2> QED
      BY <2>1 DEF Promise!Content
  <1> QED
    BY <1>1, <1>2, <1>5, <1>6, LaneOfQueue

\* Clearing a queue, resetting and failing drop what they say they drop.
LEMMA ClearMails ==
  ASSUME Sound, Sound', Talking, ClearSteeringQueue \/ ClearFollowUpQueue
  PROVE  Mails
  <1>1. UNCHANGED <<accepted, messages, out, pending, pc>>
    BY DEF ClearSteeringQueue, ClearFollowUpQueue, classVars, loopVars
  <1>2. \A lane \in Lanes : Taken(lane)' = Taken(lane)
    BY <1>1, Parts, PartsNext
  <1>3. /\ AllOf(steeringQueue, "steer") /\ AllOf(followUpQueue, "followUp")
        /\ steeringQueue \in Seq(UserSet) /\ followUpQueue \in Seq(UserSet)
    BY LaneState
  <1>4. CASE ClearSteeringQueue
    <2>1. /\ steeringQueue' = <<>> /\ followUpQueue' = followUpQueue
          /\ gone' = gone \union UserIds(steeringQueue)
      BY <1>4 DEF ClearSteeringQueue
    <2>2. Queued("steer")' = <<>>
      <3>1. IdsInLane(followUpQueue, "steer") = <<>>
        BY <1>3, OtherLanes
      <3>2. Queued("steer")' = <<>> \o <<>>
        BY <2>1, <3>1, PartsNext, NothingOut
      <3> QED
        BY <3>2
    <2>3. ASSUME NEW lane \in Lanes, lane # "steer" PROVE Queued(lane)' = Queued(lane)
      <3>1. IdsInLane(steeringQueue, lane) = <<>>
        BY <1>3, <2>3, OtherLanes
      <3> QED
        BY <2>1, <3>1, Parts, PartsNext, NothingOut
    <2>4. "steer" \in Lanes
      BY DEF Lanes
    <2>5. gone' = gone \union Promise!Content(Queued("steer"))
      BY <2>1, QueuedByLane
    <2> QED
      BY <1>1, <1>2, <2>2, <2>3, <2>4, <2>5, NoneDelivered, MailCleared
  <1>5. CASE ClearFollowUpQueue
    <2>1. /\ followUpQueue' = <<>> /\ steeringQueue' = steeringQueue
          /\ gone' = gone \union UserIds(followUpQueue)
      BY <1>5 DEF ClearFollowUpQueue
    <2>2. Queued("followUp")' = <<>>
      <3>1. IdsInLane(steeringQueue, "followUp") = <<>>
        BY <1>3, OtherLanes
      <3>2. Queued("followUp")' = <<>> \o <<>>
        BY <2>1, <3>1, PartsNext, NothingOut
      <3> QED
        BY <3>2
    <2>3. ASSUME NEW lane \in Lanes, lane # "followUp" PROVE Queued(lane)' = Queued(lane)
      <3>1. IdsInLane(followUpQueue, lane) = <<>>
        BY <1>3, <2>3, OtherLanes
      <3> QED
        BY <2>1, <3>1, Parts, PartsNext, NothingOut
    <2>4. "followUp" \in Lanes
      BY DEF Lanes
    <2>5. gone' = gone \union Promise!Content(Queued("followUp"))
      BY <2>1, QueuedByLane
    <2> QED
      BY <1>1, <1>2, <2>2, <2>3, <2>4, <2>5, NoneDelivered, MailCleared
  <1> QED
    BY <1>4, <1>5

LEMMA ResetMails ==
  ASSUME Sound, Sound', Talking, Reset
  PROVE  Mails
  <1>1. /\ UNCHANGED <<accepted, out, pending, pc>>
        /\ messages' = <<>> /\ steeringQueue' = <<>> /\ followUpQueue' = <<>>
        /\ gone' = gone \union UserIds(steeringQueue) \union UserIds(followUpQueue)
    BY DEF Reset, loopVars
  <1>2. Delivered' = <<>>
    <2>1. Delivered' = Users(messages')
      BY DEF Delivered, Users
    <2> QED
      BY <1>1, <2>1, UsersFacts
  <1>3. ASSUME NEW lane \in Lanes PROVE Taken(lane)' = Taken(lane) /\ Queued(lane)' = <<>>
    <2>1. Queued(lane)' = <<>> \o <<>>
      BY <1>1, PartsNext, NothingOut
    <2>2. Taken(lane)' = Taken(lane)
      BY <1>1, Parts, PartsNext
    <2> QED
      BY <2>1, <2>2
  <1>4. gone' = gone \union UNION {Promise!Content(Queued(lane)) : lane \in Lanes}
    <2>1. UNION {Promise!Content(Queued(lane)) : lane \in Lanes}
            = UserIds(steeringQueue) \union UserIds(followUpQueue)
      BY QueuedByLane DEF Lanes
    <2> QED
      BY <1>1, <2>1
  <1> QED
    BY <1>1, <1>2, <1>3, <1>4, MailReset

\* What the loop has taken, lane by lane.
LEMMA TakenByLane ==
  ASSUME Sound
  PROVE  UNION {Promise!Content(Taken(lane)) : lane \in Lanes} = UserIds(InHand)
  <1>1. PICK s \in Seq(MessageSet) : s = InHand
    BY InHandType DEF Sound
  <1>2. \A lane \in Lanes : Taken(lane) = IdsInLane(s, lane)
    BY <1>1 DEF Taken, InHand
  <1>3. \A lane \in Lanes : Promise!Content(Taken(lane)) = NumbersAmong(s, {lane})
    BY <1>2, ContentOfLane
  <1>4. UNION {NumbersAmong(s, {lane}) : lane \in Lanes} = UserIds(s)
    BY DEF NumbersAmong, UserIds
  <1>5. UNION {Promise!Content(Taken(lane)) : lane \in Lanes} = UNION {NumbersAmong(s, {lane}) : lane \in Lanes}
    BY <1>3
  <1> QED
    BY <1>1, <1>4, <1>5

\* A failure reports nobody's message.
Reporting == pc = "failing" => \A i \in 1 .. Len(out) : out[i].msg.kind \notin Lanes

LEMMA FailureSays ==
  ASSUME Fail, out' \in Seq(EventSet)
  PROVE  /\ \A i \in 1 .. Len(out') : out'[i].msg.kind \notin Lanes
         /\ pending' = <<>> /\ pc' = "failing"
  <1> DEFINE m == Assistant(IF aborted THEN "aborted" ELSE "error", <<>>)
             o == <<MessageEvent("message_start", m), MessageEvent("message_end", m),
                    MessageEvent("turn_end", m), Event("agent_end")>>
  <1>1. pending' = <<>> /\ out' = o /\ pc' = "failing"
    BY DEF Fail
  <1>2. m.kind \notin Lanes /\ NoMessage.kind \notin Lanes
    BY DEF Assistant, Message, Lanes, NoMessage
  <1> HIDE DEF m
  <1>3. Len(o) = 4 /\ o[1].msg = m /\ o[2].msg = m /\ o[3].msg = m /\ o[4].msg = NoMessage
    BY DEF MessageEvent, Event
  <1> HIDE DEF o
  <1>4. 1 .. 4 = {1, 2, 3, 4}
    OBVIOUS
  <1> QED
    BY <1>1, <1>2, <1>3, <1>4

\* Events of nobody's message hold nothing for a lane.
LEMMA NothingReported ==
  ASSUME NEW o \in Seq(EventSet), NEW lane \in Lanes, \A i \in 1 .. Len(o) : o[i].msg.kind \notin Lanes
  PROVE  IdsInLane(Puts(o), lane) = <<>>
  <1>1. PICK s \in Seq(MessageSet) : s = Puts(o)
    BY PutsFacts
  <1>2. NoMessage.kind \notin Lanes
    BY DEF NoMessage, Message, Lanes
  <1>3. \A i \in 1 .. Len(s) : s[i].kind # lane
    BY <1>1, <1>2, PutsFacts
  <1> QED
    BY <1>1, <1>3, LaneFacts

LEMMA FailMails ==
  ASSUME Sound, Sound', UNCHANGED accepted, pc # "failing", Fail
  PROVE  Mails
  <1>1. UNCHANGED <<messages, steeringQueue, followUpQueue>> /\ gone' = gone \union UserIds(InHand)
    BY DEF Fail, classVars, queueVars
  <1>2. out' \in Seq(EventSet)
    BY DEF Sound, LoopTypes
  <1>3. pending' = <<>> /\ pc' = "failing" /\ \A i \in 1 .. Len(out') : out'[i].msg.kind \notin Lanes
    BY <1>2, FailureSays
  <1>4. ASSUME NEW lane \in Lanes PROVE Taken(lane)' = <<>> /\ Queued(lane)' = Queued(lane)
    <2>1. IdsInLane(Puts(out'), lane) = <<>>
      BY <1>2, <1>3, NothingReported
    <2>2. Taken(lane)' = <<>> \o <<>>
      BY <1>3, <2>1, PartsNext, NothingOut
    <2>3. Queued(lane)' = Queued(lane)
      BY <1>1, Parts, PartsNext
    <2> QED
      BY <2>2, <2>3
  <1> QED
    BY <1>1, <1>3, <1>4, TakenByLane, NoneDelivered, MailFailed

LEMMA FaultMails ==
  ASSUME Sound, Sound', Talking, Reporting, LoopFault \/ BatchFault \/ ReportFault
  PROVE  Mails
  <1>1. CASE LoopFault \/ BatchFault
    BY <1>1, FailMails DEF LoopFault, BatchFault, Fail
  <1>2. CASE ReportFault
    <2>1. UNCHANGED <<messages, steeringQueue, followUpQueue, pending>> /\ out' = <<>> /\ pc = "failing"
      BY <1>2 DEF ReportFault, classVars, queueVars
    <2>2. Unseen
      BY <1>2 DEF ReportFault, Unseen, lossVars
    <2>3. ASSUME NEW lane \in Lanes PROVE IdsInLane(Puts(out'), lane) = IdsInLane(Puts(out), lane)
      <3>1. IdsInLane(Puts(out), lane) = <<>>
        BY <2>1, NothingReported DEF Reporting, Sound, LoopTypes
      <3> QED
        BY <2>1, <3>1, NothingOut
    <2> QED
      BY <2>1, <2>2, <2>3, QuietStep
  <1> QED
    BY <1>1, <1>2

\* Where a run ends nothing is taken, and a failed one has been reported.
LEMMA FinishMails ==
  ASSUME Sound, Sound', FinishRun
  PROVE  Mails
  <1>1. /\ UNCHANGED <<accepted, gone, messages, pending, steeringQueue, followUpQueue, out>>
        /\ pc' = "idle"
    BY DEF FinishRun, queueVars, histVars, lossVars
  <1>2. CASE pc = "failing"
    <2>1. \A lane \in Lanes : Taken(lane)' = Taken(lane) /\ Queued(lane)' = Queued(lane)
      BY <1>1, Parts, PartsNext
    <2> QED
      BY <1>1, <1>2, <2>1, NoneDelivered, MailReported
  <1>3. CASE pc # "failing"
    <2>1. Unseen
      BY <1>1, <1>3 DEF Unseen
    <2> QED
      BY <1>1, <2>1, UntouchedMails
  <1> QED
    BY <1>2, <1>3

LEMMA MailStep ==
  ASSUME Sound, Sound', IdleIsClean, Talking, Reporting, [Next]_vars
  PROVE  Mails
  <1>1. CASE UNCHANGED vars
    <2>1. UNCHANGED <<messages, pending, steeringQueue, followUpQueue, out>> /\ Unseen
      BY <1>1 DEF vars, classVars, queueVars, loopVars, histVars, lossVars, Unseen
    <2> QED
      BY <2>1, UntouchedMails
  <1>2. CASE LoopStep
    <2>1. CASE Emit \/ PollSteering \/ StartTurn \/ PollFollowUps
      BY <2>1, EmitMails, PollSteeringMails, StartTurnMails, PollFollowUpsMails
    <2>2. CASE StopAfterTurn \/ StreamStart \/ Response
      BY <2>2, StreamMails
    <2>3. CASE StartCall \/ RejectCall \/ AdmitCall \/ AwaitCall \/ NextCall \/ RunPrepared \/ JoinCalls \/ EndBatch
      BY <2>3, BatchMails
    <2>4. CASE BatchFault
      BY <2>4, FaultMails
    <2>5. CASE FinishRun
      BY <2>5, FinishMails
    <2> QED
      BY <1>2, <2>1, <2>2, <2>3, <2>4, <2>5 DEF LoopStep
  <1>3. CASE Application
    <2>1. CASE SetMode \/ Abort
      <3>1. UNCHANGED <<messages, pending, steeringQueue, followUpQueue, out>> /\ Unseen
        BY <2>1 DEF SetMode, Abort, classVars, loopVars, queueVars, histVars, lossVars, Unseen
      <3> QED
        BY <3>1, UntouchedMails
    <2> QED
      BY <1>3, <2>1, PromptMails, ContinueMails, QueueMails, ClearMails, ResetMails DEF Application
  <1>4. CASE LoopFault \/ ReportFault
    BY <1>4, FaultMails
  <1>5. ASSUME NEW c \in Calls, ToolStep(c) \/ ToolUpdate(c) \/ ToolFault(c)
        PROVE  Mails
    BY <1>5, ToolMails
  <1> QED
    BY <1>1, <1>2, <1>3, <1>4, <1>5 DEF Next, Fault

LEMMA ReportingStep ==
  ASSUME Sound, Sound', Reporting, [Next]_vars
  PROVE  Reporting'
  <1> SUFFICES ASSUME pc' = "failing"
               PROVE  \A i \in 1 .. Len(out') : out'[i].msg.kind \notin Lanes
    BY DEF Reporting
  <1>1. out \in Seq(EventSet) /\ out' \in Seq(EventSet)
    BY DEF Sound, LoopTypes
  <1>2. CASE Fail
    BY <1>1, <1>2, FailureSays
  <1>3. CASE Emit
    <2>1. out # <<>> /\ out' = Tail(out) /\ pc = "failing"
      BY <1>3 DEF Emit
    <2>2. Len(out) \in Nat \ {0} /\ Len(out') = Len(out) - 1 /\ \A i \in 1 .. Len(out) - 1 : out'[i] = out[i + 1]
      BY <1>1, <2>1, EmptySeq, HeadTailProperties, LenProperties
    <2>3. \A i \in 1 .. Len(out) - 1 : i + 1 \in 1 .. Len(out)
      BY <2>2
    <2> QED
      BY <2>1, <2>2, <2>3 DEF Reporting
  <1>4. CASE ReportFault
    <2>1. out' = <<>>
      BY <1>4 DEF ReportFault
    <2> QED
      BY <2>1
  <1>5. CASE out' = out /\ pc' = pc
    BY <1>5 DEF Reporting
  <1>6. ASSUME NEW c \in Calls, ToolStep(c) \/ ToolUpdate(c) \/ ToolFault(c)
        PROVE  out' = out /\ pc' = pc
    BY <1>6 DEF ToolStep, ToolUpdate, ToolFault, ToolReturn, ToolEnd, ToolSettle, loopVars
  <1>7. CASE Application
    <2>1. ~Prompt /\ ~Continue
      BY DEF Prompt, Continue, StartRun
    <2>2. out' = out /\ pc' = pc
      BY <1>7, <2>1 DEF Application, Steer, FollowUp, ClearSteeringQueue, ClearFollowUpQueue, SetMode,
                        Abort, Reset, loopVars
    <2> QED
      BY <1>5, <2>2
  <1>8. CASE LoopStep
    <2>1. ~(PollSteering \/ StartTurn \/ StopAfterTurn \/ StreamStart \/ FinishRun)
      BY DEF PollSteering, StartTurn, StopAfterTurn, StreamStart, FinishRun
    <2>2. ~PollFollowUps
      BY DEF PollFollowUps
    <2>3. ~(StartCall \/ RejectCall \/ AdmitCall \/ AwaitCall \/ NextCall \/ RunPrepared \/ JoinCalls \/ EndBatch)
      BY DEF StartCall, RejectCall, AdmitCall, AwaitCall, NextCall, RunPrepared, JoinCalls, EndBatch
    <2>4. ~Response
      BY DEF Response, Respond
    <2> QED
      BY <1>2, <1>3, <1>8, <2>1, <2>2, <2>3, <2>4 DEF LoopStep, BatchFault
  <1>9. CASE UNCHANGED vars
    BY <1>5, <1>9 DEF vars, loopVars
  <1> QED
    BY <1>2, <1>4, <1>5, <1>6, <1>7, <1>8, <1>9 DEF Next, Fault, LoopFault

LEMMA MailInit == Init => Promise!Init
  <1> SUFFICES ASSUME Init PROVE Promise!Init
    OBVIOUS
  <1>1. /\ accepted = 0 /\ messages = <<>> /\ out = <<>> /\ pending = <<>>
        /\ steeringQueue = <<>> /\ followUpQueue = <<>> /\ gone = {} /\ pc = "idle"
    BY DEF Init
  <1>2. Delivered = <<>>
    <2>1. Delivered = Users(messages)
      BY DEF Delivered, Users
    <2> QED
      BY <1>1, <2>1, UsersFacts
  <1>3. ASSUME NEW lane \in Lanes PROVE Taken(lane) = <<>> /\ Queued(lane) = <<>>
    <2>1. Taken(lane) = <<>> \o <<>> /\ Queued(lane) = <<>> \o <<>>
      BY <1>1, SoundInit, Parts, NothingOut
    <2> QED
      BY <2>1
  <1>4. (pc = "failing") = FALSE
    BY <1>1
  <1>5. [lane \in Lanes |-> Taken(lane)] = Promise!Nothing /\ [lane \in Lanes |-> Queued(lane)] = Promise!Nothing
    BY <1>3 DEF Promise!Nothing
  <1> QED
    BY <1>1, <1>2, <1>4, <1>5 DEF Promise!Init

\* The agent is a mailbox: whatever is steered, cleared, reset, aborted or fails,
\* the messages of a lane enter the transcript in the order they were accepted,
\* each at most once; every other one is queued, taken or dropped, and nothing is
\* dropped but by the clear of its queue, by a reset while it is queued, or by
\* the failure of the run that had taken it.
THEOREM AgentIsMailbox == Spec => ImplementsMailbox
  <1>1. Sound /\ Sound' /\ IdleIsClean /\ Talking /\ Reporting /\ [Next]_vars
          => [Promise!Next]_(Promise!vars) /\ Reporting'
    BY MailStep, ReportingStep DEF Mails
  <1>2. Init => Reporting
    BY DEF Init, Reporting
  <1> QED
    BY <1>1, <1>2, MailInit, TalkInvariant, PTL DEF Spec, ImplementsMailbox, Promise!Spec
=============================================================================
