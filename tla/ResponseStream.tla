--------------------------- MODULE ResponseStream ---------------------------
(***************************************************************************)
(* One provider request, from the provider to the agent loop, through one  *)
(* or two EventStreams:                                                    *)
(*   - an API implementation pushes to an inner stream, which lazyStream   *)
(*     and forwardStream (ai/src/api/lazy.ts) copy to the outer one;       *)
(*   - streamProxy (agent/src/proxy.ts) is itself the outer stream;        *)
(*   - streamAssistantResponse (agent-loop.ts) iterates over the outer one *)
(*     and takes the assistant message from its result().                  *)
(***************************************************************************)
EXTENDS Naturals, Sequences

CONSTANT
  ResponseEvents  \* bound: events of one response

VARIABLES
  inQueue, inWaiting, inDone, inResult, inLog, inEnded,
  inAt, inInbox, inReceived,
  outQueue, outWaiting, outDone, outResult, outLog, outEnded,
  outAt, outInbox, outReceived,
  proxy,          \* the stream function is streamProxy (it stays so)
  provider,       \* "setup", "streaming", "final", "over"
  forwarded,      \* events forwardStream has pushed to the outer stream
  loop,           \* "iterating", "result", "returned", "threw"
  message         \* what streamAssistantResponse returned

innerVars == <<inQueue, inWaiting, inDone, inResult, inLog, inEnded, inAt, inInbox,
               inReceived>>
outerVars == <<outQueue, outWaiting, outDone, outResult, outLog, outEnded, outAt,
               outInbox, outReceived>>
partyVars == <<proxy, provider, forwarded, loop, message>>
responseVars == <<innerVars, outerVars, partyVars>>

Inner == INSTANCE EventStream WITH
  MaxEvents <- ResponseEvents,
  Consumers <- {"forward"}, queue <- inQueue, waiting <- inWaiting, done <- inDone,
  result <- inResult, log <- inLog, ended <- inEnded,
  at <- inAt, inbox <- inInbox, received <- inReceived

Outer == INSTANCE EventStream WITH
  MaxEvents <- ResponseEvents,
  Consumers <- {"loop"}, queue <- outQueue, waiting <- outWaiting, done <- outDone,
  result <- outResult, log <- outLog, ended <- outEnded,
  at <- outAt, inbox <- outInbox, received <- outReceived

ResponseInit ==
  /\ Inner!Init /\ Outer!Init
  /\ proxy \in BOOLEAN
  /\ provider = IF proxy THEN "streaming" ELSE "setup"
  /\ forwarded = 0
  /\ loop = "iterating"
  /\ message = Inner!Pending

-----------------------------------------------------------------------------
(* The provider.                                                           *)

\* lazyStream: the setup yields the inner stream, or rejects, and then an
\* error event and its message end the outer stream.
Setup ==
  /\ provider = "setup"
  /\ provider' = "streaming"
  /\ UNCHANGED <<innerVars, outerVars, forwarded, loop, message, proxy>>

\* Mutant: the rejection of the setup is not caught.
SetupFailsSilently ==
  /\ provider = "setup"
  /\ provider' = "over"
  /\ UNCHANGED <<innerVars, outerVars, forwarded, loop, message, proxy>>

SetupFails ==
  /\ provider = "setup"
  /\ provider' = "final"
  /\ Outer!Push([n |-> 1, final |-> TRUE])
  /\ UNCHANGED <<innerVars, forwarded, loop, message, proxy>>

\* What the provider has pushed.
SourceLog == IF proxy \/ inLog = <<>> THEN outLog ELSE inLog

ProviderPush(final) ==
  LET e == [n |-> Len(SourceLog) + 1, final |-> final] IN
  IF proxy THEN Outer!Push(e) /\ UNCHANGED innerVars
           ELSE Inner!Push(e) /\ UNCHANGED outerVars

\* A text, thinking or tool call event, or the start.
Delta ==
  /\ provider = "streaming"
  /\ Len(SourceLog) < ResponseEvents
  /\ ProviderPush(FALSE)
  /\ UNCHANGED partyVars

\* The event "done" or "error" ...
Final ==
  /\ provider = "streaming"
  /\ ProviderPush(TRUE)
  /\ provider' = "final"
  /\ UNCHANGED <<forwarded, loop, message, proxy>>

\* ... and the end() that follows it.
EndAfterFinal ==
  /\ provider = "final"
  /\ provider' = "over"
  /\ IF inLog = <<>>
     THEN Outer!End(Outer!Pending) /\ UNCHANGED innerVars
     ELSE Inner!End(Inner!Pending) /\ UNCHANGED outerVars
  /\ UNCHANGED <<forwarded, loop, message, proxy>>

\* streamProxy: the body of the response is over before a "done" or "error".
HangUp ==
  /\ proxy
  /\ provider = "streaming"
  /\ provider' = "over"
  /\ Outer!End(Outer!Pending)
  /\ UNCHANGED <<innerVars, forwarded, loop, message, proxy>>

-----------------------------------------------------------------------------
(* forwardStream: for await (event of source) target.push(event).          *)

Forwarding == forwarded < Len(inReceived["forward"])

Pull ==
  /\ provider \in {"streaming", "final", "over"} /\ ~proxy
  /\ ~Forwarding
  /\ Inner!ConsumerStep("forward")
  /\ UNCHANGED <<outerVars, partyVars>>

Forward ==
  /\ Forwarding
  /\ Outer!Push(inReceived["forward"][forwarded + 1])
  /\ forwarded' = forwarded + 1
  /\ UNCHANGED <<innerVars, provider, loop, message, proxy>>

\* target.end(await source.result())
EndOuter ==
  /\ inAt["forward"] = "returned"
  /\ ~Forwarding
  /\ inResult # Inner!Pending
  /\ ~outEnded
  /\ Outer!End(inResult)
  /\ UNCHANGED <<innerVars, partyVars>>

-----------------------------------------------------------------------------
(* streamAssistantResponse.                                                *)

Seen == outReceived["loop"]
SeesFinal == Seen # <<>> /\ Seen[Len(Seen)].final

LoopPull ==
  /\ loop = "iterating"
  /\ ~SeesFinal
  /\ Outer!ConsumerStep("loop")
  /\ UNCHANGED <<innerVars, partyVars>>

\* Mutant: the loop stops iterating as soon as the stream is done.
AwaitResultEarly ==
  /\ loop = "iterating"
  /\ outDone
  /\ loop' = "result"
  /\ UNCHANGED <<innerVars, outerVars, provider, forwarded, message, proxy>>

\* Both a final event and the end of the iteration lead to result().
AwaitResult ==
  /\ loop = "iterating"
  /\ SeesFinal \/ outAt["loop"] = "returned"
  /\ loop' = "result"
  /\ UNCHANGED <<innerVars, outerVars, provider, forwarded, message, proxy>>

TakeResult ==
  /\ loop = "result"
  /\ outResult # Outer!Pending
  /\ loop' = "returned"
  /\ message' = outResult
  /\ UNCHANGED <<innerVars, outerVars, provider, forwarded, proxy>>

\* An event sink rejects: the loop leaves its for-await.
SinkThrows ==
  /\ loop = "iterating"
  /\ Outer!Leave("loop")
  /\ loop' = "threw"
  /\ UNCHANGED <<innerVars, provider, forwarded, message, proxy>>

-----------------------------------------------------------------------------
Request == Setup \/ SetupFails \/ Final \/ EndAfterFinal
Copy    == Pull \/ Forward \/ EndOuter
Consume == LoopPull \/ AwaitResult \/ TakeResult

ResponseNext == Request \/ Delta \/ HangUp \/ Copy \/ Consume \/ SinkThrows

ResponseSpec == ResponseInit /\ [][ResponseNext]_responseVars

\* Transports end: the provider pushes its last event or sees the connection
\* close; the rest are continuations of awaits that settle.
FairResponseSpec ==
  /\ ResponseSpec
  /\ WF_responseVars(Request \/ HangUp) /\ WF_responseVars(Copy) /\ WF_responseVars(Consume)

-----------------------------------------------------------------------------
(* Properties.                                                             *)

\* Every variable of the parties and of the two streams has its type.
ResponseTypeOK ==
  /\ Inner!TypeOK /\ Outer!TypeOK
  /\ provider \in {"setup", "streaming", "final", "over"}
  /\ forwarded \in 0 .. ResponseEvents + 1
  /\ loop \in {"iterating", "result", "returned", "threw"}
  /\ message \in Inner!Event

\* What the loop sees is what the provider pushed, in that order and without
\* a gap, though it went through two queues and two sets of resolvers.
LoopSeesAPrefix ==
  /\ Len(Seen) <= Len(SourceLog)
  /\ \A i \in 1 .. Len(Seen) : Seen[i] = SourceLog[i]

\* The assistant message of the turn is that of the last event the provider
\* pushed, and the loop has seen every update that came before it.
MessageIsTheFinalOne ==
  /\ LoopSeesAPrefix
  /\ loop = "returned" =>
    /\ message = SourceLog[Len(SourceLog)] /\ message.final
    /\ Seen = SourceLog

\* The connection of a proxy was closed before its final event.
HungUp == proxy /\ provider = "over" /\ ~\E i \in 1 .. Len(SourceLog) : SourceLog[i].final

\* The request has come to an answer or an error, or its proxy hung up.
Answered == loop \in {"returned", "threw"} \/ HungUp

\* agent/src/types.ts: failures are encoded in the stream, by protocol events
\* and a final message; so a request comes to an answer whatever happens.
EveryRequestSettles == <>(loop \in {"returned", "threw"})
=============================================================================
