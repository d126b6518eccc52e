---------------------------- MODULE AgentSession ----------------------------
(***************************************************************************)
(* AgentSession of the coding agent (core/agent-session.ts): the layer     *)
(* that keeps one conversation over one Agent.  It records what the agent  *)
(* emits in the session file, retries failed replies after a delay,        *)
(* compacts the session when the context is full, holds back the results   *)
(* of shell commands until a run has settled, mirrors the agent's queues   *)
(* for the user interface, and lets others wait until it is idle.          *)
(*                                                                         *)
(* Every step is what happens between two macrotasks: a call from outside, *)
(* an event of the run, a timer, an answer of the model.  The agent's run  *)
(* is the one of Agent.tla at the grain its session sees: the messages it  *)
(* announces, when it drains the queues, when it ends.  Tokens are         *)
(* abstracted to what a reply says of them: a reply of kind "full" puts    *)
(* the context over the threshold, and so does one of kind "length".       *)
(***************************************************************************)
EXTENDS PendingQueue, FiniteSets, SequencesExt

CONSTANTS
  Prompters,       \* callers of prompt(), one call at a time each
  Waiters,         \* those who wait for idleness; "compact" is one of them
  Contents,        \* what users queue: subset of {"text", "image"}
  Replies,         \* the kinds of replies, other than "stop", explored
  Mode,            \* steering and follow-up mode of the queues
  MaxRetries,      \* retry.maxRetries of the settings
  MaxMessages,     \* bound: messages that come from outside
  MaxReplies,      \* bound: replies other than "stop"
  MaxCompactions   \* bound: compactions that are started

ASSUME SessionAssumption ==
  /\ "compact" \in Waiters
  /\ Contents \subseteq {"text", "image"}
  /\ Replies \subseteq {"full", "tools", "error", "fatal", "overflow", "length", "aborted"}
  /\ Mode \in Modes
  /\ {MaxRetries, MaxMessages, MaxReplies, MaxCompactions} \subseteq Nat

VARIABLES
  active,        \* _isAgentRunActive
  connected,     \* _unsubscribeAgent is set: the agent's events are heard
  waiting,       \* those behind _idleWaitPromise
  context,       \* agent.state.messages
  session,       \* the entries on the session's branch
  saving,        \* the message _handleAgentEvent will append to it
  pendingBash,   \* _pendingBashMessages
  nextTurn,      \* _pendingNextTurnMessages
  steering, followUp,        \* the agent's queues
  shownSteering, shownFollowUp,  \* _steeringMessages, _followUpMessages
  last,          \* _lastAssistantMessage, as a sequence of at most one
  attempt,       \* _retryAttempt
  recovered,     \* _overflowRecoveryAttempted
  pc,            \* where each call of prompt() is
  msgs,          \* the messages a call of prompt() has built
  held,          \* its failed reply, or what its compaction will keep
  compactor,     \* where the call of compact() is
  keeping,       \* what that compaction will keep
  run,           \* the agent's run
  clock,         \* time stamps, and the ids of messages and entries
  deaf,          \* history: a message was finished with nobody listening
  crossed,       \* history: records were changed meanwhile, see Meanwhile
  threw,         \* history: agent.continue() had nothing to continue from
  overlapped,    \* history: a prompt ran while the session was active
  sent, odd, compactions  \* counters of the bounds

calls == <<pc, msgs, held>>
manual == <<compactor, keeping>>
queues == <<steering, followUp>>
shown == <<shownSteering, shownFollowUp>>
records == <<context, session, pendingBash, saving, crossed>>
retries == <<last, attempt, recovered>>
history == <<deaf, threw, overlapped>>
bounds == <<sent, odd, compactions>>

vars == <<active, connected, waiting, records, nextTurn, queues, shown, retries,
          calls, manual, run, clock, history, bounds>>

-----------------------------------------------------------------------------
(* Messages.  An entry of the session holds the message itself.            *)

Message(role, kind, id) == [role |-> role, kind |-> kind, id |-> id, keep |-> 0]
CompactionOf(id, keep) ==
  [role |-> "compaction", kind |-> "summary", id |-> id, keep |-> keep]

Failed(m) == m.role = "assistant" /\ m.kind \in {"error", "fatal", "overflow"}
Overflown(m) == m.kind \in {"overflow", "length"}
LastOf(s) == s[Len(s)]
EndsWith(s, role) == s # <<>> /\ LastOf(s).role = role

\* Taking a failed reply off the end of the context, "keep in session".
WithoutTrailingReply(ctx) ==
  IF EndsWith(ctx, "assistant") THEN SubSeq(ctx, 1, Len(ctx) - 1) ELSE ctx

Positions(s, Test(_)) == {i \in DOMAIN s : Test(s[i])}
Latest(S) == CHOOSE i \in S : \A j \in S : j <= i
IsCompaction(m) == m.role = "compaction"
IsReply(m) == m.role = "assistant"
HasUsage(m) == IsReply(m) /\ ~Failed(m) /\ m.kind # "aborted"

\* buildContextEntries: the latest compaction, what it kept, what came after.
BuildContext(s) ==
  LET C == Positions(s, IsCompaction)
      c == Latest(C)
      K == {i \in 1..(c - 1) : s[i].id = s[c].keep}
  IN  IF C = {} THEN s
      ELSE <<s[c]>>
           \o (IF K = {} THEN <<>> ELSE SubSeq(s, Latest(K), c - 1))
           \o SubSeq(s, c + 1, Len(s))

\* prepareCompaction: the entries it may keep from.  Tool results are no cut
\* points, and there must be something to summarize before the cut.  Sizes
\* decide which one it is, and whether there is one at all.
Boundary(s) ==
  LET C == Positions(s, IsCompaction)
      K == {i \in DOMAIN s : s[i].id = s[Latest(C)].keep}
  IN  IF C = {} THEN 1 ELSE IF K = {} THEN Latest(C) + 1 ELSE Latest(K)

CutPoints(s) ==
  IF EndsWith(s, "compaction") THEN {}
  ELSE {i \in Boundary(s)..Len(s) :
          /\ s[i].role \notin {"result", "compaction"}
          /\ \E j \in Boundary(s)..(i - 1) : ~IsCompaction(s[j])}

\* A reply older than the latest compaction says nothing about the context.
BeforeCompaction(m) ==
  \E i \in DOMAIN session : IsCompaction(session[i]) /\ m.id <= session[i].id

\* The last reply in the context that reports its usage decides for a failed one.
UsageIsHigh(m) ==
  LET U == Positions(context, HasUsage) IN
  IF HasUsage(m) THEN m.kind = "full"
  ELSE /\ U # {}
       /\ context[Latest(U)].kind \in {"full", "length"}
       /\ ~BeforeCompaction(context[Latest(U)])

\* What _checkCompaction decides for a reply.
Verdict(m) ==
  IF BeforeCompaction(m) THEN "none"
  ELSE IF Overflown(m) THEN (IF recovered THEN "none" ELSE "overflow")
  ELSE IF UsageIsHigh(m) THEN "threshold" ELSE "none"

HasQueued == steering # <<>> \/ followUp # <<>>
NoRun == [at |-> "none", todo |-> <<>>, skip |-> FALSE, aborted |-> FALSE]
NewRun(todo, skip) == [at |-> "prompts", todo |-> todo, skip |-> skip, aborted |-> FALSE]
Nothing == [id |-> 0, retry |-> FALSE]

Init ==
  /\ active = FALSE /\ connected = TRUE /\ waiting = {}
  /\ context = <<>> /\ session = <<>> /\ saving = <<>> /\ crossed = FALSE
  /\ pendingBash = <<>> /\ nextTurn = <<>>
  /\ steering = <<>> /\ followUp = <<>>
  /\ shownSteering = <<>> /\ shownFollowUp = <<>>
  /\ last = <<>> /\ attempt = 0 /\ recovered = FALSE
  /\ pc = [p \in Prompters |-> "idle"]
  /\ msgs = [p \in Prompters |-> <<>>]
  /\ held = [p \in Prompters |-> Nothing]
  /\ compactor = "idle" /\ keeping = 0
  /\ run = NoRun /\ clock = 1
  /\ deaf = FALSE /\ threw = FALSE /\ overlapped = FALSE
  /\ sent = 0 /\ odd = 0 /\ compactions = 0

\* Somebody else changes the records while the extensions' handlers of a message
\* are awaited, which the context has and the session has not.
Meanwhile ==
  /\ UNCHANGED saving
  /\ crossed' = (crossed \/ (saving # <<>> /\ <<context, session>>' # <<context, session>>))

-----------------------------------------------------------------------------
(* The end of a call of prompt() or sendCustomMessage(): the finally block *)
(* of _runAgentPrompt up to its await of the agent_settled handlers, and   *)
(* the end of that await.                                                  *)

Settle(p, ctx, entries) ==
  /\ context' = ctx \o pendingBash
  /\ session' = entries \o pendingBash
  /\ pendingBash' = <<>>
  /\ active' = FALSE
  /\ pc' = [pc EXCEPT ![p] = "settling"]
  /\ held' = [held EXCEPT ![p] = Nothing]

\* Mutant: nobody is told.
SettledUnheard(p) ==
  /\ pc[p] = "settling"
  /\ pc' = [pc EXCEPT ![p] = "idle"]
  /\ UNCHANGED <<active, connected, waiting, records, nextTurn, queues, shown,
                 retries, msgs, held, manual, run, clock, history, bounds>>

\* The handlers of agent_settled have returned: _resolveIdleWaitIfIdle.
Settled(p) ==
  /\ pc[p] = "settling"
  /\ pc' = [pc EXCEPT ![p] = "idle"]
  /\ waiting' = IF active THEN waiting ELSE {}
  /\ UNCHANGED <<active, connected, records, nextTurn, queues, shown, retries,
                 msgs, held, manual, run, clock, history, bounds>>

(* agent.continue() on a context: from a reply only with queued messages,  *)
(* otherwise from where the transcript ends; it throws if a run is at work *)
(* or if there is nothing to continue from.  The caller's own run is over. *)

Released(p) == IF pc[p] = "running" THEN NoRun ELSE run

Starts(p, ctx, entries, todo, skip) ==
  /\ run' = NewRun(todo, skip)
  /\ pc' = [pc EXCEPT ![p] = "running"]
  /\ held' = [held EXCEPT ![p] = Nothing]
  /\ context' = ctx /\ session' = entries
  /\ UNCHANGED <<active, pendingBash, threw>>

Resume(p, ctx, entries) ==
  LET free == Released(p).at = "none"
      fromReply == EndsWith(ctx, "assistant")
      nowhere == ctx = <<>> \/ (fromReply /\ ~HasQueued)
  IN  \/ /\ free /\ ctx # <<>> /\ ~fromReply
         /\ Starts(p, ctx, entries, <<>>, FALSE)
         /\ UNCHANGED queues
      \/ /\ free /\ fromReply /\ steering # <<>>
         /\ Starts(p, ctx, entries, Drained(Mode, steering), TRUE)
         /\ steering' = Remaining(Mode, steering)
         /\ UNCHANGED followUp
      \/ /\ free /\ fromReply /\ steering = <<>> /\ followUp # <<>>
         /\ Starts(p, ctx, entries, Drained(Mode, followUp), FALSE)
         /\ followUp' = Remaining(Mode, followUp)
         /\ UNCHANGED steering
      \/ /\ ~free \/ nowhere
         /\ Settle(p, ctx, entries)
         /\ threw' = (threw \/ free)
         /\ run' = Released(p)
         /\ UNCHANGED queues

SettleOnly(p, ctx, entries) ==
  /\ Settle(p, ctx, entries)
  /\ run' = Released(p)
  /\ UNCHANGED <<queues, threw>>

\* The end of _handlePostAgentRun: once more if messages are waiting.
Proceed(p, ctx, entries) ==
  IF HasQueued THEN Resume(p, ctx, entries) ELSE SettleOnly(p, ctx, entries)

(* _checkCompaction after a run: start a compaction that has something to  *)
(* do, or go on without.  Recovering from an overflow takes the reply off  *)
(* the context first.                                                      *)

StartsCompaction(p, verdict, entries, phase) ==
  /\ compactions < MaxCompactions
  /\ compactions' = compactions + 1
  /\ \E i \in CutPoints(entries) :
        held' = [held EXCEPT ![p] = [id |-> entries[i].id,
                                     retry |-> verdict = "overflow"]]
  /\ pc' = [pc EXCEPT ![p] = phase]

CheckCompaction(p, m) ==
  LET verdict == IF m.kind = "aborted" THEN "none" ELSE Verdict(m)
      ctx == IF verdict = "overflow" THEN WithoutTrailingReply(context) ELSE context
  IN  /\ recovered' = (recovered \/ verdict = "overflow")
      /\ \/ /\ verdict # "none"
            /\ StartsCompaction(p, verdict, session, "compacting")
            /\ context' = ctx
            /\ run' = Released(p)
            /\ UNCHANGED <<session, pendingBash, active, queues, threw>>
         \/ /\ Proceed(p, ctx, session)
            /\ UNCHANGED compactions

-----------------------------------------------------------------------------
(* prompt(): the checks before the run, with the compaction they may need, *)
(* then the messages, the before_agent_start handlers, and the run.        *)

\* The user's message and the asides kept for it.
Build(p) ==
  /\ msgs' = [msgs EXCEPT ![p] = <<Message("user", "text", clock)>> \o nextTurn]
  /\ nextTurn' = <<>>
  /\ clock' = clock + 1

\* The last reply is checked again, aborted ones included.
Submit(p) ==
  LET R == Positions(context, IsReply)
      verdict == IF R = {} THEN "none" ELSE Verdict(context[Latest(R)])
      ctx == context \o pendingBash
      entries == session \o pendingBash
  IN  /\ pc[p] = "idle" /\ ~active
      /\ sent < MaxMessages
      /\ sent' = sent + 1
      /\ pendingBash' = <<>> /\ session' = entries
      /\ context' = IF verdict = "overflow" THEN WithoutTrailingReply(ctx) ELSE ctx
      /\ recovered' = (recovered \/ verdict = "overflow")
      /\ \/ /\ verdict # "none"
            /\ StartsCompaction(p, verdict, entries, "preflight")
            /\ UNCHANGED <<msgs, nextTurn, clock>>
         \/ /\ pc' = [pc EXCEPT ![p] = "starting"]
            /\ Build(p)
            /\ UNCHANGED <<held, compactions>>
      /\ Meanwhile
      /\ UNCHANGED <<active, connected, waiting, queues, shown, last, attempt,
                     manual, run, history, odd>>

\* _runAgentPrompt: agent.prompt() throws if a run is at work, and the finally
\* block then declares the session idle.
Runs(p, todo) ==
  /\ msgs' = [msgs EXCEPT ![p] = <<>>]
  /\ overlapped' = (overlapped \/ active)
  /\ \/ /\ run.at = "none"
        /\ run' = NewRun(todo, FALSE)
        /\ active' = TRUE
        /\ pc' = [pc EXCEPT ![p] = "running"]
        /\ UNCHANGED <<records, held>>
     \/ /\ run.at # "none"
        /\ Settle(p, context, session) /\ Meanwhile
        /\ UNCHANGED run
  /\ UNCHANGED <<connected, waiting, nextTurn, queues, shown, retries, manual,
                 deaf, threw, odd, compactions>>

Run(p) ==
  /\ pc[p] = "starting"
  /\ Runs(p, msgs[p])
  /\ UNCHANGED <<clock, sent>>

\* sendCustomMessage with triggerTurn: a run without the checks.
SendTrigger(p) ==
  /\ pc[p] = "idle" /\ ~active
  /\ sent < MaxMessages
  /\ sent' = sent + 1
  /\ clock' = clock + 1
  /\ Runs(p, <<Message("custom", "text", clock)>>)

-----------------------------------------------------------------------------
(* The agent's run, as far as its session hears of it: _handleAgentEvent   *)
(* for message_start and message_end.                                      *)

\* message_end: the agent keeps the message; what the session hears it appends
\* when the handlers of extensions have returned, and the run waits for that.
Finished(m) ==
  /\ saving = <<>>
  /\ context' = Append(context, m)
  /\ saving' = IF connected THEN <<m>> ELSE <<>>
  /\ deaf' = (deaf \/ ~connected)
  /\ UNCHANGED <<session, pendingBash, crossed>>

\* They have returned: the message is saved, and what a reply says is noted.
Save ==
  /\ saving # <<>>
  /\ LET m == saving[1] IN
       /\ session' = Append(session, m)
       /\ IF IsReply(m)
          THEN /\ last' = saving
               /\ recovered' = (recovered /\ Failed(m))
               /\ attempt' = IF Failed(m) THEN attempt ELSE 0
          ELSE UNCHANGED retries
  /\ saving' = <<>>
  /\ UNCHANGED <<active, connected, waiting, context, pendingBash, crossed, nextTurn,
                 queues, shown, calls, manual, run, clock, history, bounds>>

\* Mutant: only the steering queue's mirror is looked at.
UnshowSteering(m) ==
  /\ shownSteering' = IF connected /\ m.role = "user" THEN RemoveFirst(shownSteering, m.id)
                      ELSE shownSteering
  /\ UNCHANGED shownFollowUp

\* A message that is delivered leaves the mirror it is first found in, unless
\* it has no text.
Unshow(m) ==
  LET steers == Contains(shownSteering, m.id)
      heard == connected /\ m.role = "user" /\ m.kind = "text"
  IN  /\ shownSteering' = IF heard THEN RemoveFirst(shownSteering, m.id) ELSE shownSteering
      /\ shownFollowUp' = IF heard /\ ~steers THEN RemoveFirst(shownFollowUp, m.id)
                          ELSE shownFollowUp

\* A prompt or a drained message enters the transcript.  What comes between its
\* message_start and its message_end may as well come before both.
Announce ==
  /\ run.at \in {"prompts", "turn"} /\ run.todo # <<>>
  /\ LET m == Head(run.todo) IN
       /\ Unshow(m)
       /\ Finished(m)
       /\ recovered' = (recovered /\ ~(connected /\ m.role = "user"))
  /\ run' = [run EXCEPT !.todo = Tail(@)]
  /\ UNCHANGED <<active, connected, waiting, nextTurn, queues, last,
                 attempt, calls, manual, clock, threw, overlapped, bounds>>

\* The poll before a turn: of a run, skipped if it is made of drained steering
\* messages, or of a turn after one with tool calls.
Poll ==
  /\ run.at = "prompts" /\ run.todo = <<>> /\ saving = <<>>
  /\ run' = [run EXCEPT !.at = "turn",
                        !.todo = IF run.skip THEN <<>> ELSE Drained(Mode, steering)]
  /\ steering' = IF run.skip THEN steering ELSE Remaining(Mode, steering)
  /\ UNCHANGED <<active, connected, waiting, records, nextTurn, followUp, shown,
                 retries, calls, manual, clock, history, bounds>>

\* The model answers.  An aborted request answers "aborted".
Reply(kind) ==
  /\ run.at = "turn" /\ run.todo = <<>>
  /\ run.aborted <=> kind = "aborted"
  /\ kind \in {"stop", "aborted"} \/ (odd < MaxReplies /\ kind \in Replies)
  /\ odd' = IF kind \in {"stop", "aborted"} THEN odd ELSE odd + 1
  /\ LET m == Message("assistant", kind, clock) IN
       /\ Finished(m)
       /\ run' = [run EXCEPT !.at = IF kind = "tools" THEN "tools"
                                    ELSE IF Failed(m) \/ kind = "aborted" THEN "ending"
                                    ELSE "stopping"]
  /\ clock' = clock + 1
  /\ UNCHANGED <<active, connected, waiting, nextTurn, queues, shown, retries,
                 calls, manual, threw, overlapped, sent, compactions>>

\* The call's result; the poll at the end of the turn follows.
ToolResult ==
  /\ run.at = "tools"
  /\ Finished(Message("result", "text", clock))
  /\ clock' = clock + 1
  /\ run' = [run EXCEPT !.at = "prompts", !.skip = FALSE]
  /\ UNCHANGED <<active, connected, waiting, nextTurn, queues, shown,
                 retries, calls, manual, threw, overlapped, bounds>>

\* The polls of a turn without tool calls: steering, then follow-ups.
Stopping ==
  /\ run.at = "stopping" /\ saving = <<>>
  /\ IF steering # <<>>
     THEN /\ run' = [run EXCEPT !.at = "turn", !.todo = Drained(Mode, steering)]
          /\ steering' = Remaining(Mode, steering)
          /\ UNCHANGED followUp
     ELSE /\ run' = [run EXCEPT !.at = IF followUp = <<>> THEN "ending" ELSE "turn",
                                !.todo = Drained(Mode, followUp)]
          /\ followUp' = Remaining(Mode, followUp)
          /\ UNCHANGED steering
  /\ UNCHANGED <<active, connected, waiting, records, nextTurn, shown, retries,
                 calls, manual, clock, history, bounds>>

-----------------------------------------------------------------------------
(* _handlePostAgentRun, when the run has finished.                         *)

RunIsOver(p) == pc[p] = "running" /\ run.at = "ending" /\ saving = <<>>

NoMoreRetries(m) == m.kind # "error" \/ attempt >= MaxRetries

\* No reply was heard: nothing to retry, nothing to compact, no continuation.
RunUnheard(p) ==
  /\ RunIsOver(p) /\ last = <<>>
  /\ Settle(p, context, session) /\ Meanwhile
  /\ run' = NoRun
  /\ UNCHANGED <<connected, waiting, nextTurn, queues, shown, retries, msgs, manual,
                 clock, history, bounds>>

\* _prepareRetry: the failed reply leaves the context, and the delay begins.
Retry(p) ==
  /\ RunIsOver(p) /\ last # <<>>
  /\ ~NoMoreRetries(last[1])
  /\ attempt' = attempt + 1
  /\ context' = WithoutTrailingReply(context)
  /\ held' = [held EXCEPT ![p] = [id |-> last[1].id, retry |-> FALSE]]
  /\ pc' = [pc EXCEPT ![p] = "delaying"]
  /\ last' = <<>> /\ run' = NoRun
  /\ UNCHANGED <<active, connected, waiting, session, pendingBash, saving, crossed,
                 nextTurn, queues, shown, recovered, msgs, manual, clock, history, bounds>>

\* Mutant: the attempts of a prompt are not given up with it.
KeepsAttempts(m) == attempt

\* The reply is not retried: give up the attempts of a failed one, then compact.
AttemptsAfter(m) == IF Failed(m) THEN 0 ELSE attempt

RunEnds(p) ==
  /\ RunIsOver(p) /\ last # <<>>
  /\ NoMoreRetries(last[1])
  /\ attempt' = AttemptsAfter(last[1])
  /\ last' = <<>>
  /\ CheckCompaction(p, last[1]) /\ Meanwhile
  /\ UNCHANGED <<connected, waiting, nextTurn, shown, msgs, manual, clock, deaf, overlapped,
                 sent, odd>>

\* The delay is over: the transcript is continued without the failed reply.
DelayOver(p) ==
  /\ pc[p] = "delaying"
  /\ Resume(p, context, session) /\ Meanwhile
  /\ UNCHANGED <<connected, waiting, nextTurn, shown, retries, msgs, manual, clock,
                 deaf, overlapped, bounds>>

\* abortRetry() cut it short: the attempts are given up.
DelayAborted(p) ==
  /\ pc[p] = "cancelled"
  /\ attempt' = 0
  /\ CheckCompaction(p, Message("assistant", "error", held[p].id)) /\ Meanwhile
  /\ UNCHANGED <<connected, waiting, nextTurn, shown, last, msgs, manual, clock,
                 deaf, overlapped, sent, odd>>

-----------------------------------------------------------------------------
(* The compaction's summary arrives, or does not: _runAutoCompaction after *)
(* its await, and what its two callers do with the result.                 *)

Compacted(keep) == Append(session, CompactionOf(clock, keep))

\* Mutant: the context is not rebuilt.
ContextKept(p) == context

\* A recovery takes the failed reply off the rebuilt context once more.
ContextAfter(p) ==
  LET ctx == BuildContext(Compacted(held[p].id)) IN
  IF held[p].retry /\ Failed(LastOf(ctx)) THEN WithoutTrailingReply(ctx) ELSE ctx

\* Before a prompt: the prompt follows.
PreflightDone(p) ==
  /\ pc[p] = "preflight"
  /\ \/ /\ session' = Compacted(held[p].id)
        /\ context' = ContextAfter(p)
        /\ msgs' = [msgs EXCEPT ![p] = <<Message("user", "text", clock + 1)>> \o nextTurn]
        /\ clock' = clock + 2
     \/ /\ UNCHANGED <<session, context>>
        /\ msgs' = [msgs EXCEPT ![p] = <<Message("user", "text", clock)>> \o nextTurn]
        /\ clock' = clock + 1
  /\ nextTurn' = <<>>
  /\ held' = [held EXCEPT ![p] = Nothing]
  /\ pc' = [pc EXCEPT ![p] = "starting"]
  /\ Meanwhile
  /\ UNCHANGED <<active, connected, waiting, pendingBash, queues, shown, retries,
                 manual, run, history, bounds>>

\* After a run: a recovery retries, any other goes on with what is queued.
CompactionDone(p) ==
  /\ pc[p] = "compacting"
  /\ clock' = clock + 1
  /\ IF held[p].retry
     THEN Resume(p, ContextAfter(p), Compacted(held[p].id))
     ELSE Proceed(p, ContextAfter(p), Compacted(held[p].id))
  /\ Meanwhile
  /\ UNCHANGED <<connected, waiting, nextTurn, shown, retries, msgs, manual, deaf,
                 overlapped, bounds>>

\* No summary, a cancellation by an extension, or abortCompaction().
CompactionFails(p) ==
  /\ pc[p] = "compacting"
  /\ Proceed(p, context, session) /\ Meanwhile
  /\ UNCHANGED <<connected, waiting, nextTurn, shown, retries, msgs, manual, clock,
                 deaf, overlapped, bounds>>

-----------------------------------------------------------------------------
(* Calls from outside.                                                     *)

Sends ==
  /\ sent < MaxMessages
  /\ sent' = sent + 1
  /\ clock' = clock + 1

\* _queueSteer and _queueFollowUp, while the session is streaming.
Steer(content) ==
  /\ active /\ Sends
  /\ steering' = Append(steering, Message("user", content, clock))
  /\ shownSteering' = Append(shownSteering, clock)
  /\ UNCHANGED <<active, connected, waiting, records, nextTurn, followUp,
                 shownFollowUp, retries, calls, manual, run, history, odd, compactions>>

FollowUp(content) ==
  /\ active /\ Sends
  /\ followUp' = Append(followUp, Message("user", content, clock))
  /\ shownFollowUp' = Append(shownFollowUp, clock)
  /\ UNCHANGED <<active, connected, waiting, records, nextTurn, steering,
                 shownSteering, retries, calls, manual, run, history, odd, compactions>>

\* sendCustomMessage: queued while streaming, added at once when not, or kept
\* for the next prompt.
QueueCustom ==
  /\ active /\ Sends
  /\ \/ /\ steering' = Append(steering, Message("custom", "text", clock))
        /\ UNCHANGED followUp
     \/ /\ followUp' = Append(followUp, Message("custom", "text", clock))
        /\ UNCHANGED steering
  /\ UNCHANGED <<active, connected, waiting, records, nextTurn, shown, retries,
                 calls, manual, run, history, odd, compactions>>

Recorded(m) ==
  /\ context' = Append(context, m)
  /\ session' = Append(session, m)
  /\ Meanwhile

Note ==
  /\ ~active /\ Sends
  /\ Recorded(Message("custom", "text", clock))
  /\ UNCHANGED <<active, connected, waiting, pendingBash, nextTurn, queues, shown,
                 retries, calls, manual, run, history, odd, compactions>>

PushNextTurn ==
  /\ Sends
  /\ nextTurn' = Append(nextTurn, Message("custom", "text", clock))
  /\ UNCHANGED <<active, connected, waiting, records, queues, shown, retries,
                 calls, manual, run, history, odd, compactions>>

\* Mutant: the result is recorded at once.
BashIsNeverDeferred == FALSE

\* recordBashResult defers while the session is streaming.
BashIsDeferred == active

BashDone ==
  /\ Sends
  /\ LET m == Message("bash", "text", clock) IN
       IF BashIsDeferred
       THEN /\ pendingBash' = Append(pendingBash, m)
            /\ UNCHANGED <<context, session, saving, crossed>>
       ELSE /\ Recorded(m)
            /\ UNCHANGED pendingBash
  /\ UNCHANGED <<active, connected, waiting, nextTurn, queues, shown, retries,
                 calls, manual, run, history, odd, compactions>>

ClearQueue ==
  /\ steering' = <<>> /\ followUp' = <<>>
  /\ shownSteering' = <<>> /\ shownFollowUp' = <<>>
  /\ UNCHANGED <<active, connected, waiting, records, nextTurn, retries, calls,
                 manual, run, clock, history, bounds>>

\* abort(): the delay of a retry and the run, not a compaction; then wait.
Aborts(w) ==
  /\ pc' = [p \in Prompters |-> IF pc[p] = "delaying" THEN "cancelled" ELSE pc[p]]
  /\ run' = IF run.at = "none" THEN run ELSE [run EXCEPT !.aborted = TRUE]
  /\ waiting' = IF active THEN waiting \union {w} ELSE waiting

Abort(w) ==
  /\ w # "compact"
  /\ Aborts(w)
  /\ UNCHANGED <<active, connected, records, nextTurn, queues, shown, retries, msgs,
                 held, manual, clock, history, bounds>>

\* waitForIdle().
Wait(w) ==
  /\ w # "compact" /\ active
  /\ waiting' = waiting \union {w}
  /\ UNCHANGED <<active, connected, records, nextTurn, queues, shown, retries,
                 calls, manual, run, clock, history, bounds>>

-----------------------------------------------------------------------------
(* compact(): stop listening, abort, wait, then compact what the session   *)
(* holds by then, and listen again.                                        *)

Compact ==
  /\ compactor = "idle" /\ compactions < MaxCompactions
  /\ compactions' = compactions + 1
  /\ compactor' = "aborting"
  /\ connected' = FALSE
  /\ Aborts("compact")
  /\ UNCHANGED <<active, records, nextTurn, queues, shown, retries, msgs, held,
                 keeping, clock, history, sent, odd>>

CompactPrepares ==
  /\ compactor = "aborting" /\ "compact" \notin waiting
  /\ \/ /\ compactor' = "compacting"
        /\ \E i \in CutPoints(session) : keeping' = session[i].id
        /\ UNCHANGED connected
     \/ /\ compactor' = "idle"
        /\ connected' = TRUE
        /\ UNCHANGED keeping
  /\ UNCHANGED <<active, waiting, records, nextTurn, queues, shown, retries, calls,
                 run, clock, history, bounds>>

CompactEnds ==
  /\ compactor = "compacting"
  /\ compactor' = "idle" /\ keeping' = 0
  /\ connected' = TRUE
  /\ \/ /\ session' = Compacted(keeping)
        /\ context' = BuildContext(Compacted(keeping))
        /\ clock' = clock + 1
     \/ UNCHANGED <<session, context, clock>>
  /\ Meanwhile
  /\ UNCHANGED <<active, waiting, pendingBash, nextTurn, queues, shown, retries,
                 calls, run, history, bounds>>

-----------------------------------------------------------------------------
RunStep ==
  \/ Announce \/ Save \/ Poll \/ ToolResult \/ Stopping
  \/ \E kind \in Replies \union {"stop"} : Reply(kind)

CallStep(p) ==
  \/ Run(p) \/ RunUnheard(p) \/ Retry(p) \/ RunEnds(p)
  \/ DelayOver(p) \/ DelayAborted(p)
  \/ PreflightDone(p) \/ CompactionDone(p) \/ CompactionFails(p)
  \/ Settled(p)

Outside ==
  \/ \E content \in Contents : Steer(content) \/ FollowUp(content)
  \/ QueueCustom \/ Note \/ PushNextTurn \/ BashDone \/ ClearQueue
  \/ \E w \in Waiters : Abort(w) \/ Wait(w)

Next ==
  \/ \E p \in Prompters : Submit(p) \/ SendTrigger(p) \/ CallStep(p)
  \/ RunStep \/ Outside
  \/ Compact \/ CompactPrepares \/ CompactEnds

Spec == Init /\ [][Next]_vars

\* The model answers, timers fire, handlers return, summaries arrive or fail.
Fairness ==
  /\ WF_vars(RunStep)
  /\ \A p \in Prompters : WF_vars(CallStep(p))
  /\ WF_vars(CompactPrepares) /\ WF_vars(CompactEnds)

FairSpec == Spec /\ Fairness

-----------------------------------------------------------------------------
(* Properties.                                                             *)

\* Shape of the state; no retry beyond the settings, no cut beyond the session.
TypeOK ==
  /\ {active, connected, recovered, deaf, threw, overlapped} \subseteq BOOLEAN
  /\ crossed \in BOOLEAN
  /\ waiting \subseteq Waiters
  /\ attempt \in 0..MaxRetries
  /\ Len(last) <= 1 /\ Len(saving) <= 1
  /\ pc \in [Prompters -> {"idle", "preflight", "starting", "running", "delaying",
                           "cancelled", "compacting", "settling"}]
  /\ run.at \in {"none", "prompts", "turn", "tools", "stopping", "ending"}
  /\ compactor \in {"idle", "aborting", "compacting"}

\* Retries, recoveries, deferred shell results and compactions, in whatever
\* order: the next run starts from what the session would rebuild once the
\* message that is being saved is there, but for replies that failed.  (Not
\* after messages finished while compact() had stopped listening, and not after
\* records that were changed while a message was being saved: the rebuild of a
\* compaction forgets it.)
Answered(m) == ~(IsReply(m) /\ (Failed(m) \/ Overflown(m)))

\* SelectSeq(s, Answered), as a function of how much of s is looked at.
Answers(s) ==
  LET among[n \in 0..Len(s)] ==
        IF n = 0 THEN <<>>
        ELSE IF Answered(s[n]) THEN Append(among[n - 1], s[n]) ELSE among[n - 1]
  IN  among[Len(s)]

ContextIsSession ==
  ~deaf /\ ~crossed => Answers(context) = Answers(BuildContext(session \o saving))

\* The compaction before a prompt was recorded while a tool of another run worked.
CutIn ==
  \E i \in 1..(Len(session) - 1) : session[i].kind = "tools" /\ IsCompaction(session[i + 1])

\* A tool call and its result are never parted or left alone in the context
\* (with the same exceptions, and that of prompts that overlap).
ToolPairs ==
  ~deaf /\ ~crossed /\ ~overlapped /\ ~CutIn =>
    /\ \A i \in 1..(Len(context) - 1) :
         context[i].kind = "tools" => context[i + 1].role = "result"
    /\ \A i \in DOMAIN context :
         context[i].role = "result" => i > 1 /\ context[i - 1].kind = "tools"

\* "Tracks pending messages, removed when delivered": what is shown as pending
\* is still to be delivered, and what is queued is shown.
Pending == {m \in {steering[i] : i \in DOMAIN steering}
                  \union {followUp[i] : i \in DOMAIN followUp}
                  \union {run.todo[i] : i \in DOMAIN run.todo} : m.role = "user"}
ShownIds == {shownSteering[i] : i \in DOMAIN shownSteering}
            \union {shownFollowUp[i] : i \in DOMAIN shownFollowUp}
QueuedUsers == {m \in {steering[i] : i \in DOMAIN steering}
                      \union {followUp[i] : i \in DOMAIN followUp} : m.role = "user"}

QueuesAreShown ==
  /\ {m.id : m \in QueuedUsers} \subseteq ShownIds
  /\ ~deaf => ShownIds \subseteq {m.id : m \in Pending}

\* No call has a run, a delay or a compaction after a run in hand.
AtRest == \A p \in Prompters : pc[p] \in {"idle", "preflight", "starting", "settling"}

\* Errors, aborts, retries, recoveries and compactions: no message queued
\* while the session was streaming is left in a queue when it settles.
NothingStranded == AtRest /\ ~deaf => ~HasQueued

\* Each prompt has its own attempts: none are left over from the last one.
FreshRetries == AtRest /\ ~deaf /\ ~threw => attempt = 0

\* Unless a prompt ran while another was active: a session that says it is idle
\* has no run at work, and no retry, compaction or continuation ahead.
IdleIsIdle == ~active /\ ~overlapped => run.at = "none" /\ AtRest

\* Idle means done: nothing runs or is ahead, nothing is queued, and no attempts
\* are left over.
IdleMeansDone == IdleIsIdle /\ NothingStranded /\ FreshRetries

\* Whoever waits for the session to be idle is told, whatever fails on the way.
WaitersReturn == waiting # {} ~> waiting = {}

\* "agent.continue() cannot continue from an assistant message".
ContinueNeverThrows == ~threw
=============================================================================
