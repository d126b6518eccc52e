# Verification of the agent runtime

TLA+ models of the runtime this repository is built on: the agent loop and the
`Agent` class, the `AgentHarness` with its persisted session, the `AgentSession`
of the coding agent, the streams that carry provider events, the session tree
and its JSONL file, the queue that serialises the file tools, the orchestrator
that runs agent processes, the credentials several processes share, and the
cockpit that shows a session in a browser. TLC checks them on small instances;
TLAPS proves the results listed below for every value of the constants. `PROJECT.json` lists the
runs, the mutants that show what each property can catch, the source lines of
every definition, the hazards and the theorems.

Run a model with `tlc -config HarnessWrites.cfg MCAgentHarness.tla`, proofs with
`tlapm FileLocks_proofs.tla` (`Agent_proofs`, `AgentHarness_proofs`,
`AgentSession_proofs` and `Supervisors_proofs` take up to a quarter of an hour each,
from nothing).

## 1. The system

JavaScript runs one piece of code at a time, from one `await` to the next. All
interleaving in this code base happens at awaits, so in every module an action
is the code between two awaits, and whatever may run meanwhile is another action.

| component (`src/packages/...`) | state | operations | interacts with |
|---|---|---|---|
| agent loop, `agent/src/agent-loop.ts` | locals of a run: context, pending messages, the tool batch | request, stream, sequential / parallel / truncated tool batches, poll the queues | emits events to its owner, which it awaits; asks the owner for queued messages |
| `Agent`, `agent/src/agent.ts` | active run and abort controller, transcript, pending tool calls, two queues and their modes, listeners | `prompt`, `continue`, `steer`, `followUp`, `clear*`, `abort`, `reset`, `waitForIdle` | starts the loop, reduces its events, calls listeners |
| `AgentHarness`, `agent/src/harness/agent-harness.ts` | phase, run promise, controller, pending session writes, three queues, configuration | `prompt`, `compact`, `navigateTree`, setters, `appendMessage`, `steer`, `followUp`, `nextTurn`, `abort`, `waitForIdle` | starts the loop; records its messages in the session; awaits hooks and listeners |
| event streams, `ai/src/utils/event-stream.ts` | queue, waiting resolvers, done flag, final result | `push`, `end`, iteration, `result` | every provider and the loop |
| lazy streams, `ai/src/api/lazy.ts`; `agent/src/proxy.ts` | the inner and the outer stream | setup, forward, end | provider → loop |
| session, `agent/src/harness/session/*` | JSONL file; entries, leaf and labels in memory | append, label, compact, move, fork, open | harness |
| file mutation queue, `coding-agent/src/core/tools/file-mutation-queue.ts` | a chain of promises per real path | `withFileMutationQueue` | the edit and write tools of one parallel batch |
| agent session, `coding-agent/src/core/agent-session.ts` | active flag, retry counter, overflow mark, last reply, deferred shell results, mirrors of the agent's queues, idle promise | `prompt`, `steer`, `followUp`, `sendCustomMessage`, `compact`, `abort`, `clearQueue`, `waitForIdle`, `recordBashResult`; retry and automatic compaction after a run | `Agent` (its events), session manager |
| compaction, `coding-agent/src/core/compaction/compaction.ts`, its twin in `agent/src/harness/compaction/` | none: functions of a branch | `prepareCompaction` (cut, history, beginning of a split turn), `compact` (summaries) | agent session, harness; the branch of the session |
| orchestrator, `orchestrator/src/*` | instance records on disk, live children, heartbeats, pending requests | spawn, stop, RPC, exit handler, recover, shut down | child processes, the Radius registry |
| credentials, `coding-agent/src/core/auth-storage.ts`, `ai/src/models.ts`, `ai/src/auth/resolve.ts` | `auth.json` and its lock file, the copy in memory, the provider's newest refresh token | `getAuth` (refresh), `login`, `logout`, start of a process | other pi processes, the OAuth provider |
| cockpit, `extensions/pi-cockpit/packages/react-pi/src/*` | server: records of open threads, pending opens, numbered events; browser: what it shows, messages shown ahead, its event stream, its load and send requests | open, delete, subscribe and reconnect, `getThread`, send, compact, restart of the server | agent sessions; HTTP and an event stream between server and browser |
| the rest: repositories of sessions, coding tools, extension loading, modes, providers, terminal UI | | | see `PROJECT.json` |

What is hard here, and what must hold:

* **Agent and loop.** Tools of a parallel batch outlive a batch that was
  rejected; updates come late; aborts cut batches; messages are queued while the
  loop polls. Calls must be answered once and in order, truncated calls never
  executed, messages delivered once, a run must settle and leave a clean agent.
* **Harness.** Writes arrive while a turn runs and are flushed later, one await
  at a time; a failure may happen at any of these awaits; the phase is the only
  lock. Nothing may be recorded twice, out of order or not at all.
* **Streams.** A lost wakeup, an event given twice, a response that never ends.
* **Session.** Appends interleave, writes tear, the process dies; the tree must
  stay a tree, and an acknowledged entry must not disappear without an error.
* **File queue.** Keys depend on a file system that changes.
* **Agent session.** Retries, overflow recovery and compaction run after the
  agent's run and before the prompt settles, while messages are still queued,
  shell commands end, a second prompt or `compact()` arrives. The context and
  the session must agree, a queue must not be forgotten, an idle session must
  really be idle, and whoever waits for it must be told.
* **Compaction.** The cut may fall in a turn, on metadata, on the boundary of the
  compaction before. Every entry must be summarized or kept, once; results stay
  with their call; a summary must stand for those before it.
* **Orchestrator.** A stop meets another stop, a registration, an exit, a
  heartbeat, a shutdown, a crash. No process may be forgotten, no record or
  registration may outlive its process, every call returns.
* **Credentials.** A refresh token is rotated by its use: two refreshes of one
  token, or a rotation that is not saved, end the login.
* **Cockpit.** Events, snapshots and answers to requests travel apart; streams
  drop and are opened again, the server restarts and numbers from 0, a thread is
  deleted while it is opened. A thread must have one session, and the browser
  must in the end show the session as it is.

The full list is under `hazards` in `PROJECT.json`, each at its line.

## 2. The modules

| module | models | extends / instantiates |
|---|---|---|
| `PendingQueue` | `PendingMessageQueue`: what a drain takes | |
| `ToolCalls` | the life of one tool call | |
| `Agent` | loop and `Agent` class | `PendingQueue`, `ToolCalls` |
| `Mailbox` | abstract: a message is queued, taken by a run, delivered or dropped | |
| `AgentMailbox` | refinement of `Mailbox` by `Agent` | `Agent`, `Mailbox` |
| `AgentHarness` | the harness | `PendingQueue` |
| `EventStream` | one stream, any iterators | |
| `ResponseStream` | provider → inner → outer stream → loop | `EventStream` twice |
| `SessionEntries` | entries, paths, labels, contexts, forks as operators | |
| `Session` | the session over its JSONL file | `SessionEntries` |
| `SessionTree` | abstract: the in-memory storage, every operation atomic | `SessionEntries` |
| `FileMutationQueue` | the file queue over a file system with links | |
| `AgentSession` | the session of the coding agent over one agent | `PendingQueue` |
| `Compaction` | prepareCompaction and compact over a branch that grows | |
| `MCCompaction` | `Compaction` beside `AgentSession`, in one run; `CutIsSound` ties them | `MCAgentSession`, `Compaction` |
| `Supervisor` | the orchestrator, its children, its records, Radius | |
| `Credentials` | processes over one `auth.json` and one lock file | |
| `Cockpit` | one thread: supervisor, event stream, browser | |
| `MC*` | instances for TLC | |
| `MCPrimitives` | four parts that know nothing of each other, checked in one run: `part` says which one moves | `EventStream`, `ResponseStream`, `FileMutationQueue`, `Credentials` |
| `Agent_proofs` | theorems of the agent and its loop, and that they implement `Mailbox` | `AgentMailbox`, `TLAPS` |
| `AgentHarness_proofs`, `Session_proofs` | theorems | the module they are about, `TLAPS` |
| `Streams_proofs` | theorems | `EventStream`, `ResponseStream`, `TLAPS` |
| `Supervisors_proofs` | theorems of the two servers that own agents, and of the browser of one | `Supervisor`, `Cockpit`, `TLAPS` |
| `FileLocks_proofs` | theorems of the two parts that keep writers of one file apart | `FileMutationQueue`, `Credentials`, `TLAPS` |
| `AgentSession_proofs` | theorems | `AgentSession`, `TLAPS` |
| `Compaction_proofs` | theorems | `MCCompaction`, for the cuts it holds against `AgentSession`; `TLAPS` |

### Agent (`agent-loop.ts`, `agent.ts`)

`pc` is where the loop is, `out` the events it still has to emit before it looks
at `pc` again; `Emit` hands one event to the reducer (`Reduce`, `processEvents`)
and the listeners. `ctx` is the loop's context, `messages` the transcript of the
class: they are separate variables because `reset()` and a failure change one
and not the other. A prepared call of a parallel batch is a thread of its own
(`ToolStep`), with the stages of `ToolCalls`. Message contents, arguments and
validation are abstracted to what decides control: the stop reason, the number
of calls, the outcome of a call (`ok`, `terminate`, `error`).
`Fail` is `handleRunFailure`; `MaxFaults` listeners, hooks or providers throw.

`Mailbox` is what the agent promises of its messages, lane by lane (prompts,
steering messages, follow-ups): one is accepted (`Accept`), taken by a run, the
oldest first (`Take`), and delivered in that order (`Deliver`). Only three steps
drop any: `Clear` and `Reset` what is queued and no more, `Fail` what the run has
taken and no more, once per run, with its report (`Reported`) behind it.
`AgentMailbox` maps the queues to what is queued and the loop's `pendingMessages`
and events to come to what is taken.

### AgentHarness (`agent-harness.ts`)

Every public operation is a thread ("op") with a program counter; `Throw` is an
exception at any of the awaits in `MayThrow` and follows the handlers of the
code (`Handler`): the drain's roll back, the flush before a rethrow, the failure
report, the outer catch. What the loop does between two callbacks is reduced to
one assistant message per turn; the loop itself is `Agent`. A configuration is
the number of the write that set it. A write while idle is two steps, because
the setters await their append before they assign. Extra messages of
`before_agent_start` and the results of other hooks are left out. `WriteTypes` says
which writes are made: "config" stands for the setters, "note" for messages.
`lost` is a history variable: the `nextTurn` messages of a turn that fails in a
before_agent_start hook or an announcement, behind the code's only rollback (543).
`Overlap` says what the application does: FALSE, it awaits an operation (and an
idle write) before it starts another; TRUE, it starts one as soon as the phase
allows. `compact` and `navigateTree` are one shape (`StructuralWork`): their
appends and their awaits.

### Streams (`event-stream.ts`, `lazy.ts`, `proxy.ts`)

`EventStream` has the code's `queue`, `waiting`, `done` and final result, and
for each iterator where it is and what it was handed (`inbox`); an event is its
number. `ResponseStream` instantiates it twice. `proxy` chooses the wiring:
`lazyStream` copies an inner stream to the outer one, `streamProxy` pushes to
the outer stream itself and may see its connection close (`HangUp`).

### Session (`session.ts`, `jsonl-storage.ts`, `memory-storage.ts`, `repo-utils.ts`)

`file` is a sequence of lines; a torn append leaves a line without its newline
(`ragged`), and the next append joins it (`spoiled`). `Open` loads the file and
fails on a line that does not parse, as the code does. "message" stands for all
plain appends. The id and the leaf of an append are read in one step, only
microtasks lie between them; ids do not collide. Large entries are written in
several chunks, which is why a line may be torn.

### FileMutationQueue (`file-mutation-queue.ts`)

`number` is the place of a call in `registrationQueue`, `ahead` the promise it
waits for, `queues` the map. Any program may create and remove the files of
`Paths`; `RealPath` holds the links. `Lookup` is the `realpath` call: a missing
file yields its unresolved path.

### AgentSession (`agent-session.ts`, parts of `session-manager.ts`, `compaction.ts`)

A step is what happens between two macrotasks. A call of `prompt()` is a thread
(`pc`): preflight, run, delay of a retry, compaction, settling; `compact()` is
another (`compactor`). `run` is the agent's run at the grain the session sees;
`context` is `agent.state.messages` and `session` the entries on the branch.
`BuildContext` is `buildContextEntries`, `Boundary` and its users what
`prepareCompaction` may choose from; its choice is in `Compaction`, and
`CutIsSound` says that it is one of these.

A message enters the context when the agent has finished it (`Finished`), and waits
in `saving` while `_handleAgentEvent` awaits the handlers of extensions; then it is
appended to the session (`Save`). The run goes on after that, everybody else may go on
before: a second prompt may be submitted, its compaction may be recorded and the
context rebuilt, a note or a shell result may be recorded. `crossed` is the history
of that: the records were changed while a message was being saved. From then on
context and session may differ, which is the counterexample of `ContextIsNeverBehind`
in section 5, and the excuse of `ContextIsSession` and `ToolPairs`.

Abstractions: the message_start and the message_end of a message the run announces are
one step; an append to the session does not throw, since the session manager keeps an
entry in memory before it writes it (`_appendEntry`, `session-manager.ts:975`), and
memory is what contexts are built from; time stamps and ids come from one clock, so two
messages never share a millisecond; the texts of queued messages are distinct
(the mirrors are searched by text); a reply has at most one tool call; sizes in
tokens are what a reply says of them ("full" is over the threshold, "length" cut
off by it), and which cut point is taken is a choice among the legal ones;
`steer` and `followUp` come while the session is active; `abort()` does not
reach an automatic compaction. Models, thinking levels, extensions' own state,
tree navigation, reloading and settings are left out.

`ToolPairs` has four excuses. `deaf`, `crossed` and `overlapped` mark the counterexamples of
section 5. `CutIn` is a compaction recorded between a call and its result: a run that
an extension starts (`sendCustomMessage` with `triggerTurn`) while a prompt is in its
preflight may be waiting for its tool when the compaction before that prompt is
recorded, and the next compaction may keep from between the two on. TLC finds it
with two prompters, three messages, three replies and two compactions.


### Compaction (`compaction.ts` of the coding agent and of the agent package)

`branch` is `pathEntries`, an entry its kind and a reference: the first kept
entry of a compaction, the reply of a tool result. `harness` chooses between the
two packages, which differ in what the walk back counts (`Counted`), where the
cut may move back to (`StopsBack`), what begins a turn, and whether an empty
compaction is refused (`Worthwhile`). An entry counts one token and the
budget is chosen anew at each compaction, so it may be filled at any entry that
counts. `covers` (history) is what a summary was made from, directly or through
the summary it was given; `forgot` says that a compaction was given none. A
compaction may come at any entry, also where the session would wait. Hooks that
replace the summary, token estimates, the lists of files and legacy entries
without ids are left out.

### Supervisor (`supervisor.ts`, `rpc-process.ts`, `storage.ts`, `radius.ts`, `serve.ts`)

An instance is a record: what memory and `instances.json` say of it, its child,
where its spawn, exit handler, heartbeat and each `stopInstance` are. `Callers`
are those inside `stopInstance`, `Main` is `shutdown()`. Radius is the set of
instances it knows (`known`); it may forget one, and a request to it may fail.
A crash kills the orchestrator, and its children's stdin ends with it; `Restart`
begins `recoverAfterRestart` while the server already takes requests. Excuses of
the properties are history variables: `late` (registered after its end), `early`
(spawned during a recovery, which then overwrites its record), `lost` (Radius
refused a disconnect). Shutdown closes the server and not its connections (`serve.ts:47`),
and `shutdown()` lists its instances once (`supervisor.ts:336`): what an open
connection spawns after that is in `unlisted`, nothing stops it, and
`RecordsAreTrue` excuses it of its half about the shutdown.

### Credentials (`auth-storage.ts`, `models.ts`, `resolve.ts`)

A credential is a grant (one login) and a generation (its refreshes); the
provider refuses every generation but the newest. A call holds the lock from the
lock file to its removal; the only await under it is the provider's answer, and
all else under it is one step. `Sync` keeps the other calls of a process still
while one is between two synchronous system calls. `GrowStale` is the theft of a
lock whose owner lives (a process that sleeps); the lock of a dead one is free
(`Lockable`). At the start one provider is logged in, or there is no file. API keys, environment credentials and
the in-memory store are left out.

### Cockpit (`ThreadSupervisor.ts`, `ThreadController.ts`, `threadState.ts`, `eventSource.ts`, `httpClient.ts`)

On the server, `record`, `seq` and `sessions` are what the supervisor keeps of
the thread, `opener` is where each call of `ensureOpen` is (the map
`pendingOpens` is `PendingOpens`), `sessionFile` the file a deletion unlinks
after the record is gone. `transcript`, `run`, `attempt` (retries are under way),
`rev` and `pending` are the session as its events show it; what it does inside
is `AgentSession`. Between them and the browser there are three connections: the
stream `sse` with its frames in flight, the newest `getThread` (`load`) and
`sendMessage` (`post`). In the browser `view` is the state of the reducer
(`Reduce`), with `busy` for the flags of a compaction and of a retry, which the
browser shows as running, too (`Spinning`); `optimistic` the messages shown ahead of the server, `mounted` the
hook. A server step is one macrotask and its events are one event: `agent_start` with
the user's message (`begin`, or `resume` with a queue_update when the message was queued),
`message_end` with `agent_end` or with the next queued message (`end`, or `recovered`
with auto_retry_end), the end of a failed reply with auto_retry_start
(`retry`), with auto_retry_end (`over`) or alone (`failed`), the start of the next
attempt (`again`), and the start and the end of a compaction (`compacting`; `compacted`, or
`uncompacted` when it fails). A snapshot keeps the two flags and replaces everything else, as
`applySnapshot` does.

History variables: `epoch` is where the events of this server begin in the row of
the events of all of them, since a restarted server counts from 0 again (`At`);
`known` is the newest position in that row the view was
given, `doubt` the last change it was not told of, until a snapshot is newer;
`stray` says that a message was shown ahead in a view longer than the transcript
(or before a compaction), where it cannot be recognised; `cut` holds the flags
that were shown when their stream was dropped, until they are cleared: their end may be
lost, and no snapshot clears them. `ViewSettles` excuses `doubt`, `stray` and `cut`
and nothing else; `SpinnerStops` excuses a thread at rest with `doubt` or `cut`.
Left out: aborts of a run or of the delay of a retry, the flags of automatic
compactions (the session's run is then under way), requests of the host UI, branches, models, the
catalogue of threads, tool executions, and that `httpClient` shares one stream
among subscribers and closes it late. A `compact()` is of a session at rest;
prompts that overlap it are in `AgentSession`.

## 3. The runs

The 11 passing runs are exhaustive for their bounds.

| run | bounds | question |
|---|---|---|
| `AgentTools` | 2 runs, 2 calls, 2 faults, parallel | Do transcript, pending calls and tools stay consistent over aborted, truncated and rejected batches, and does every run settle? |
| `AgentQueues` | 2 messages, 2 runs, both modes, a reset, a fault | Does the loop with its queues implement `Mailbox`, do follow-ups wait, does the model see what is recorded, and is no message lost but to a clear, a reset or the failure of its run? |
| `HarnessWrites` | 2 prompts, 2 turns, 2 messages, 2 writes | Are session writes saved, after their turn, and seen by the next request? |
| `HarnessFaults` | 2 operations, 2 messages, 2 writes of messages, 1 fault | Does an exception anywhere lose, repeat or reorder something, and does every operation settle? |
| `Primitives` | 2 iterators and 3 events; a response of 5 events; 3 calls on 2 paths of one file; 2 processes, 2 providers, 2 logins or logouts, 2 rotations, 1 fault | Do the inductive invariants of the streams and the file queue hold, is a response answered, is a refresh token used once and its successor saved? |
| `SessionReopen` | 1 caller, 4 entries, 2 crashes, 1 failed append | Do memory and file agree, and do they implement `SessionTree`? |
| `SessionShared` | 2 callers, 4 entries, a crash, a failed and a torn append | Does the tree stay sound, and is a loss never silent? |
| `Supervisor` | 1 instance, a caller and `shutdown()`, 1 fault, 1 forgotten registration, 1 crash | Do processes, records, registrations and heartbeats agree, and does every call return? |
| `AgentSession` | 2 callers of `prompt()`, `compact()`, 2 messages, 2 replies that are not plain, 1 retry, 1 compaction; beside it, branches of 6 entries, budgets up to 3, both packages | Do context and session agree, are queues shown and emptied, is an idle session idle? Is everything cut away summarized, once, do results keep their reply, do summaries hand on the ones before? |
| `AgentSessionWaits` | 1 caller, the same with 1 such reply, fair | Is everybody told who waits for the session to be idle? |
| `Cockpit` | 2 inputs (messages sent, drops, restarts, deletions, compactions, failing replies, refusals, ... together), 1 update of a reply | Has a thread one session, does the browser end with what the session is, does what it shows as running, compacting or retrying ever end? |

Why the bounds are enough: two operations of the harness or two runs are the
least that can overlap or inherit state; two calls are the least batch with a
sibling; two messages let one wait in each lane, or one be queued while the
other is delivered; two writes are the least that can be reordered; four entries
allow a branch, a compaction on it and a move; three calls of the file queue
allow one to run, one to wait and one to register while an entry is deleted; a
stop, a shutdown, an exit and a crash of one instance meet in every order, and
two instances share nothing but the loops over them; two replies that are not
plain let a recovery follow a retry, and a retry a recovery; a token refreshed
twice needs two calls, one of another process; six entries hold two compactions,
and between them a turn to split; two inputs of the cockpit are two
messages (one queued behind the other), a message with one trouble, or a trouble
that meets another. Counters that code leaves
unbounded are capped by the `Max` constants only.

A larger instance that is not in the list of runs: `CockpitWide` (three inputs, no
updates, 2.5 million states) holds. So do `AgentQueues` with three messages, `Compaction` with 7
entries and budgets up to 4, `AgentSession` with three messages and `Mode = "all"`
(5.8 million states), `Supervisor` with two instances or two callers, and
`Credentials` with three calls (3 million).

One run, `CompactionForgets`, ends in a violation; it is the finding of section 5.

**Fairness.** `FairSpec` asks weak fairness of steps whose await settles by
itself: the loop, a tool once called, an iterator that was woken, an operation of
the harness, a call of the file queue. It is justified by the event loop, and by
the assumption that a provider answers and a tool returns. For the agent session: the model
answers, timers fire, summaries arrive or fail. For the orchestrator: a request
to Radius or to a child is answered or fails, and a child that was told to end
ends; nothing makes one end by itself. For the cockpit (`Progress`): the server
handles what arrives, the network delivers it or fails, the model ends its
reply. Nothing is asked of the application, of users or of faults, and
`Credentials` has no liveness. `ResponseStream` asks that a transport ends: the
provider pushes its last event or the connection closes. Without that no
request settles, in the model or in the code.

## 4. The proofs

Every theorem is for all values of the constants: any number of calls, messages,
runs, operations, instances, faults and crashes. Each has the same shape, an
invariant that the initial states have and every action keeps, one lemma per
action, and the property as a consequence.

| theorem | says | argument |
|---|---|---|
| `Streams_proofs!Invariance` | `StreamInv` is invariant | one lemma per action; `StreamInv` strengthens the properties by "the queue is the rest of the log" and "who waits is registered once" |
| `Typing`, `NoLostWakeup`, `ExactlyOnce`, `Ordering`, `FinalResult` | type correctness; no iterator sleeps beside an event; an event is given once; in order; the result is the final event's | conjuncts of `StreamInv` |
| `Streams_proofs!TheMessageIsFinal` | `MessageIsTheFinalOne`, for responses of any length: the loop sees a prefix of what the provider said, and ends its turn with the final message after seeing all up to it | `RequestInv`: a stream with one iterator has given it its log but for the event in flight and the queue (`Good`, stated once of a record that stands for either stream); the outer log is what the forwarder has forwarded of what it read (`Copied`); who iterates no longer has seen all, and what the loop returns is the end of the outer log (`Answer`) |
| `Agent_proofs!IdleAgentIsClean` | `IdleIsClean`: an idle agent streams nothing and has no pending call | inductive as it stands: only `StartRun` leaves `idle`, only `FinishRun` returns to it, and a straggler's event changes the pending calls only of an active run |
| `Agent_proofs!Typing` | type correctness of the agent | `Sound`: the types and `BatchInBounds` (the batch loop is at one of its calls) |
| `Agent_proofs!TruncatedIsSpared` | no call of a truncated message is ever executed | `CutOff` beside `Sound`: ids are issued in order, an executed call was issued, and the calls of a truncated message, recorded or still to be emitted, are issued, not executed and in no batch that executes. Every action but the arrival of a message is `Calm` (it issues nothing and executes only its batch) |
| `Agent_proofs!PendingCallsAreTrue`, `HealthyRunsEndOnce` | `PendingCallsAreOpen`, `HealthyAgentEndIsFinal`: what the public state shows as pending are the calls of this run's batch that began and did not report their end; after a run in which nothing throws, listeners hear nothing behind `agent_end` | `Tools`: what the stages of the calls are at each place of the batch loop (`BatchOfRun`), what the events still to be emitted will make of the pending set (`Heralds`, `PendingOfRun`), and that without a fault every thread that is under way is one of the batch (`Healthy`) |
| `Agent_proofs!TurnsAreComplete` | `TurnsAreWhole`: a turn nothing throws in joins every tool it started, and at a request every call of the transcript is followed by its results, once and in order | `TurnsJoinTheirTools` from `Tools`; `CallsAreAnswered` from `Talking`, which describes the transcript with the events still to be reduced (`Ahead`) and so holds while the two differ |
| `Agent_proofs!EveryMessageInItsPlace` | `MessagesInPlace`: follow-ups come only where the run would stop, no message is left by a run that ends of its own, and the model is shown what is recorded | `Talking` again: context and future transcript agree (`Context`), what follows a reply (`FollowUps`, `Asked`, `Answers`), and where the loop waits (`Waits`) |
| `Agent_proofs!AgentIsMailbox` | `ImplementsMailbox`: messages of a lane reach the transcript in the order they were accepted, each at most once; one is dropped by a clear of its queue or a reset while it is queued, or by the failure of the run that had taken it, and by nothing else | `Talking`, with which lane each queue holds and where nothing is pending; what `Mailbox` calls queued and taken is told apart, lane by lane, in the two queues, in what is pending and in what is to be announced, and each step of the agent is then one step of the mailbox or a stutter: a poll takes from the front of one lane, an event delivers the first one taken, a fault drops what is in hand; what `OfKinds` does to sequences is proved by least counterexample |
| `AgentHarness_proofs!HarnessTypes`, `RecordedOnce` | type correctness; no user message is recorded twice; whatever overlaps or fails | `AnyInv`: `Apart`, a message is in one of the queues, in the hands of one operation or in the session |
| `AgentHarness_proofs!AwaitedRunsAreCovered` | without overlap, phase and run promise cover every run | `OneRunAtATime`: at most one op is started and not over; every step of the harness moves that op (`Moves`) |
| `AgentHarness_proofs!WritesAreSavedInOrder` | `WritesInOrderOnce`, without overlap: pending writes, however many, are saved once and in order, whichever append or listener fails | `HarnessInv`, `InOrder`: what is saved and what is pending make up what was written, but for the one write a flush has appended and not yet shifted |
| `AgentHarness_proofs!NextTurnsAreKept` | `UserMessagesKept`, without overlap: user messages are recorded once; what was given to `nextTurn()` is in its queue, with the prompt that took it, recorded in front of that prompt, or `lost`: its turn failed in a before_agent_start hook or an announcement, where nothing is rolled back | `NextTurnHeld`: what was taken off the queue is with the prompt that took it until it is recorded or lost |
| `AgentHarness_proofs!RequestsAreOfTheSession` | `RequestSeesSession`, without overlap: a request is of the messages of the session and of no older configuration than recorded | `Known`: what `createTurnState` has read, and what the loop has appended since, is what the session has |
| `AgentHarness_proofs!WritesLandBehindTheTurn`, `WritesAreSaved` | a write that had to wait is never recorded between a user message and its answer; where nothing fails and nothing structural happens, an idle harness has saved all of them (`WritesReachTheirPlace`) | `InPlace` and `Settles`: who flushes, and that nobody becomes idle in front of it |
| `Compaction_proofs!BranchTypes`, `CutsAreSound` | type correctness; `CutIsSound`: what leaves the context is summarized, once, results stay with their reply, and the cut is one `AgentSession` allows | `BranchInv`: entries point back (`Pointing`); from a reply to its result there are only results of it and, in the coding agent, entries without a message (`ResultsAreClose`), so a cut, which is at neither, cannot part them |
| `Compaction_proofs!SummariesAreHandedOn` | `NothingElseForgotten`: but for the summary of the finding in section 5, all that was ever said is in the context or handed on to the summary in it | `SummaryIsWhole`: the newest summary covers all before its first kept entry, unless `forgot` |
| `Supervisors_proofs!SupervisorTypes`, `NobodyIsOrphaned`, `RecordsStayTrue`, `PresenceEndsWithTheInstance` | type correctness; `NoOrphans`, `RecordsAreTrue`, `PresenceEnds` | `SupervisorInv`: what the places of an instance's spawn, exit handler, heartbeat and stops say of its child, record, registration and file (`Fit`), and what the mode of the orchestrator says of all of them (`InMode`: while it is shutting down an instance that is live is still to be stopped, being stopped, or `unlisted`). Instances share only the mode, so an action is a change of one |
| `AgentSession_proofs!SessionTypeCorrect`, `SessionIdleMeansDone` | type correctness; `IdleMeansDone`: an idle session has no prompt under way but overlapped ones, strands nothing that is queued, and the next prompt has all its retries | `SessionTypes`; `IdleInv`: without overlap one place is occupied and it says whether the session is active (`OneRun`, `ActiveIsBusy`, `BusyIsActive`), who is at rest has left nothing in the agent's queues, and the retry counter belongs to the prompt under way (`Attempts`) |
| `AgentSession_proofs!SessionQueuesAreShown` | `QueuesAreShown`: what is shown as queued is what is queued or about to be announced, each message once | `QueueInv`: each mirror is its queue behind what the run has taken and not announced; ids are older than the clock and different, so a search of the mirror finds the right one |
| `AgentSession_proofs!SessionKeepsTheContext` | `ContextIsSession`: the messages the model is shown and those the session would rebuild, with the one it is saving, have the same answers, for conversations of any length, unless the session was deaf or the records were `crossed` | `ContextInv`: context and rebuilt `session \o saving` agree but for failed replies (`Agree`), and where a retry is about to take the last reply off the context, it is a failed one (`Poised`). Rebuilding goes through the last compaction; the lemmas on it (`Builds`, `LastAnswer`) are inductions by way of the least counterexample |
| `AgentSession_proofs!SessionKeepsToolPairs` | `ToolPairs`: a call has its result behind it, a result its call before it, but for the four excuses of section 2 | `IdInv`: a result has an id nothing else has, and no compaction keeps from a result on; `PairInv`: context and session are paired but for the call whose tool is running, and neither is cut at it (`Fit`) |
| `Session_proofs!SessionTyping`, `TreeStaysSound`, `AcknowledgedIsKept` | type correctness; `TreeIsSound`: parents come first, in memory and in a file that loads, and the leaf exists; `NothingLostSilently`: what was acknowledged is in the session whenever it is open. However many callers overlap and whatever crashes, fails or tears | `SharedInv`: the memory of an open session is what a load of its entries would make (`MemoryIsLoaded`), every call under way names parents that are there (`CallsAreBelow`), and a file that loads has all that memory has and what has landed (`FileIsAhead`) |
| `Session_proofs!MemoryStaysFile`, `BranchesAreKept` | `MemoryIsFile`, `BranchesHold`, for one caller at a time: memory is what a load would make; a compaction keeps from its own branch, a fork is a branch | `SoloInv`: at most one call is under way, it fits the leaf it read (`Fits`), the file is memory and the line that has landed (`Matches`), and ids grow along both (`Grown`). The lemmas on `PathToRoot` (it ends, it is a chain down to its entry, what is appended does not change it) go by the least id that would break them |
| `Session_proofs!FileIsTheTree` | `ImplementsTree`: the file of one caller at a time implements `SessionTree` while no line tears | from `SoloInv`: an `Append` that lands is a step of the tree (`LandIsAStep`), every other action, crash, failure or opening leaves `Written` as it is (`OthersStutter`) |
| `FileLocks_proofs!Invariance`, `Serialized`, `MapIsExact` | calls of a key run one at a time in order; the map holds exactly the live keys | `IInv`: each active call's predecessor is the active call before it, and the map's entry is the last one |
| `FileLocks_proofs!OneWriter` | without links no two calls of a file run together | keys are then the real paths |
| `FileLocks_proofs!AuthTyping`, `RefreshSafety`, `StoreSafety` | type correctness; a rotated token is shown to the provider again only if its successor was lost in a fault or a lock was stolen; `auth.json` holds what was written last, and no closed grant comes back | `AuthInv`: while no lock was stolen, one living call holds the lock and only it is inside; a token in the file, or read by the call that refreshes, is the newest of its grant, lost, or the one being replaced; a new grant is nowhere yet (`Fresh`), so a login cannot bring one back |
| `Supervisors_proofs!SingleSession` | a thread has one session at a time, and none without a record, for every number of inputs and updates | `OpensInv`: at most one open is pending, it exists only without a record, and `sessions` counts the record; only `Create` of the pending open adds a session, and it ends that open |
| `Supervisors_proofs!ViewComesToRest` | `ViewSettles`: when the session rests and nothing is on its way, the browser shows it as it is, as running, compacting or retrying only what is, unless something it was not told of has had no snapshot since, a message was shown ahead where it cannot be recognised, or a flag was shown when its stream was dropped | `ShowingInv`: while a file is there, whatever is still on its way makes good what the view lacks. A snapshot that opens a stream, and the answer of a load, say all of a session in which nothing runs, or are older than something behind them (`FreshIsCurrent`, `LoadIsCurrent`); what a run said is followed by its end, which asks for a snapshot (`RunsAreClosed`); without one to come the view is that of the session but for the request not taken (`ViewIsCurrent`, `ShownAtRest`); a message shown ahead has not been taken or stands where it is looked for (`AheadIsKnown`). `FlagInv`: numbers of frames grow (`Ascending`), and what was said to begin goes on, or its end is on the same stream behind it, or the stream was dropped in between (`cut`) |

**Assumptions.** The named ASSUMEs of the modules: bounds are naturals, modes are
modes, `RealPath` maps paths to paths, every call has a process. Beyond them some
theorems have hypotheses of their own:

* `MaxEntries \in Nat` for the theorems of `Compaction_proofs`.
* `~Overlap` where the table says "without overlap": the application awaits one
  operation of the harness before it starts another. The hypothesis is needed,
  `HarnessOverlap` shows `PhaseCoversRun`, `IdleWaitCoversRun` and
  `WritesInOrderOnce` violated without it.
* `~Structural` and `MaxFaults = 0` as well for `WritesAreSaved`: `HarnessGaps` shows
  that `compact()` and `navigateTree()` leave writes pending, and a flush that throws
  leaves its writes to the next one.
* `"image" \notin Contents` for `SessionQueuesAreShown`: a queued message with images
  and no text is never taken off the mirror, which `SessionAlone` shows.
* `~Concurrent` for `MemoryStaysFile`, `BranchesAreKept` and `FileIsTheTree`: the
  application awaits an append before it makes the next. Two that overlap read the
  same leaf and may land in either order: memory then applies them in another order
  than the file has them, and a compaction may land beside the branch it was made of.
* `MaxTears = 0` as well for `FileIsTheTree`: the line appended to a torn one becomes
  part of it, so the call resolves and the tree has no new entry. The file does not
  load any more; that is why `AcknowledgedIsKept` needs no such hypothesis.
* `RealPath[p] = p` for `OneWriter`; `FileQueueAlias` is the reason.

Each inductive invariant was checked by TLC, on instances like those of section 3 and
in a form it can evaluate (`Talking`, for one, quantifies over all sequences), before it
was proved; those of the harness also with overlap, structural operations and faults.

**Only model-checked.** Liveness (TLAPS has no fairness or ENABLED here):
`RunSettles`, `OpsSettle`, `IteratorsReturn`, `RequestSettles`, `CallsReturn`,
`CallersReturn`, `ForgottenIsRegisteredAgain`, `WaitersReturn`, `SpinnerStops`. Every other
property of the passing runs is stated by a theorem.

## 5. Where code and documentation disagree

* `CompactionForgets`: `coding-agent/docs/compaction.md:106` says that for a
  split turn the history summary is of "Previous context (if any)", and `:43`
  that the previous summary is passed on "when present". When the split turn
  begins where the kept context begins, there is no history of its own, and
  `compact()` writes "No prior history." (`compaction.ts:781`,
  `agent/src/harness/compaction/compaction.ts:668`): the previous summary is
  dropped. `NothingElseForgotten` checks that nothing is forgotten otherwise.

Further configurations, outside the list of runs, reproduce counterexamples
worth knowing. Where one lists several invariants, TLC stops at the first; without
it TLC finds the next.

| configuration | property | shows |
|---|---|---|
| `AgentEndFinal` | `AgentEndIsFinal` | after a rejected batch, tools still report events behind `agent_end`, called the "final event for the run" in `agent/README.md:147` |
| `HarnessGaps` | `WritesInCallOrder` | a write made while idle-bound listeners run overtakes an earlier one (`agent/docs/agent-harness.md:16`) |
| | `AbortReachesRun` | an abort before the run's controller exists reaches nothing (`agent-harness.ts:562`, `:975`) |
| | `PendingWritesPersisted` | `agent/docs/agent-harness.md:90` says pending writes are "always persisted … at operation settlement, and in failure cleanup"; `compact()` and `navigateTree()` settle without a flush (`agent-harness.ts:727`, `:824`) |
| `HarnessOverlap` | `PhaseCoversRun`, `IdleWaitCoversRun` | with `Overlap`, the end of one run makes a second one look idle, or hides it from `waitForIdle()` |
| | `WritesInOrderOnce` | with `Overlap`, two flushes append one write twice and drop another |
| | `NextTurnNeverLost` | also without `Overlap`: a before_agent_start hook (`agent-harness.ts:548`) or an announcement that throws after the rollback of `:543` loses the messages given to `nextTurn()` |
| `ResponseProxy` (module `ResponseStream`) | `EveryRequestSettles` | a proxy connection that closes early leaves `result()` pending (`proxy.ts:213`) |
| `FileQueueAlias` | `OneRunsPerFile` | `file-mutation-queue.ts:29` promises to serialise operations "targeting the same file"; two paths of one file have two keys while it is missing (`:19`) |
| `SupervisorGaps` | `NoOrphansAtAll` | Radius refuses a disconnect: the stop ends before it disposes of the process |
| | `NoZombieHeartbeat` | a registration answered after the stop starts a heartbeat nothing ends |
| | `NothingLeftRunning` | an instance spawned over an open connection while `shutdown()` walks the list it took once (`supervisor.ts:336`, `serve.ts:47`) is on file as starting or online after the exit |
| | `SignalEnds` | an instance that shutdown cannot disconnect keeps the orchestrator from exiting |
| `SupervisorRestarts` | `RegistrationsEnd` | a record saved while `recoverAfterRestart()` is under way is overwritten by what it read before (`supervisor.ts:254`): after the next crash nobody disconnects that instance |
| `SessionAlone` | `ContinueNeverThrows` | the message taken off the context makes a retry possible, since "agent.continue() cannot continue from an assistant message" (`agent-session.ts:1963`); after the compaction of an overflow it is taken off only when its stop reason is "error" (`:2167`): an overflow answered with "length" leaves it, and `continue()` throws |
| | `QueuesAreShown` | a queued message with images and no text is never taken off the shown queue (`agent-session.ts:298`) |
| `SessionGaps` | `IdleMeansIdle` | `isIdle` (`:868`) with overlapping prompts, and during the compaction before a prompt |
| | `EverythingIsHeard` | `compact()` stops listening before it aborts (`:785`, `:1772`): the messages of the run that ends meanwhile are in the context and not in the session |
| | `ContextIsNeverBehind` | a message is in the context (`agent.ts:539`) and its handlers are awaited (`agent-session.ts:598`) before it is in the session; the compaction of another prompt rebuilds the context in between, and the model is not shown that message again until the next rebuild |
| | `NoAttemptsLeft` | `retryAttempt` is "0 if not retrying" (`:872`); a retry whose `continue()` throws leaves it |
| `CredentialsGaps` | `FirstLoginsKept` | `ensureFileExists()` is not under the lock (`auth-storage.ts:42`): a process that starts first overwrites a login |
| | `StartedKnowsLogins` | the load at the start gives up after 200 ms while another process refreshes, and is not repeated |
| | `MemoryWasSaved` | memory has the new credential (`:237`) before the write that may fail (`:129`) |
| `CockpitGaps` | `DeletedStaysDeleted` | a thread deleted while its session is being opened comes back (`ThreadSupervisor.ts:686`) |
| | `ViewAlwaysSettles` | what the browser is not told of: a manual compaction (`ThreadSupervisor.ts:537` speaks of a "snapshot refresh in the reducer" that the reducer does not make); what a stream opened with `?snapshot=false` missed while it was reconnected (`eventSource.ts:13` promises a snapshot on every reconnect); an unnumbered answer of `getThread` older than the events applied before it; the end of a compaction or a retry that was lost with its stream, since a snapshot keeps both flags although "any divergence self-heals" (`threadState.ts:117`, `:121`, `usePiRuntime.ts:221`) |

## 6. Plan

Done: all of the above. Next would be what is left of the parts that PROJECT.json lists
as partly modelled: the branches, host requests and catalogue of the cockpit first,
since they share its event stream.

Not modelled, and not planned: rendering and key decoding, wire formats of the
vendors, discovery and loading of extensions and packages, the text processing
of the tools, the directory layout of session repositories, settings files.
