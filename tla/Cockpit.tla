------------------------------ MODULE Cockpit -------------------------------
(***************************************************************************)
(* One thread of the cockpit (extensions/pi-cockpit/packages/react-pi):    *)
(* PiThreadSupervisor (node/ThreadSupervisor.ts), which opens the thread's *)
(* AgentSession and numbers its events; the event stream and the requests  *)
(* of the HTTP client (client/eventSource.ts, httpClient.ts); and          *)
(* PiThreadController (runtime/ThreadController.ts) with its reducer       *)
(* (threadState.ts), which keep what the browser shows.                    *)
(*                                                                         *)
(* A server step is one macrotask, and what it emits is one event here:    *)
(* "begin" is agent_start with the user's message ("resume" when it was    *)
(* queued), "end" is message_end with agent_end or with the next queued    *)
(* message ("recovered" after a retry); "retry" is what a failed reply     *)
(* emits when it is tried again, "over" when it is no more, "failed" when  *)
(* it never was.  Requests and the stream are separate connections, in no  *)
(* order with each other.                                                  *)
(***************************************************************************)
EXTENDS Naturals, Sequences

CONSTANTS
  MaxInputs,     \* bound: messages the user sends, and drops, restarts,
                 \* deletions, compactions, ..., all together
  MaxUpdates     \* bound: message_updates of one reply

ASSUME CockpitAssumption == {MaxInputs, MaxUpdates} \subseteq Nat

VARIABLES
  record,      \* records has the thread
  seq,         \* record.seq
  epoch,       \* history: where the events of this server begin in the row of all
  sessionFile, \* "present", "unlinking", "gone"
  sessions,    \* AgentSessions of the thread that are not disposed
  opener,      \* where the calls of ensureOpen are
  transcript,  \* session.messages
  run,         \* the session's run
  attempt,     \* session._retryAttempt > 0
  rev,         \* the update of the reply that streams
  pending,     \* the session's queued messages
  sse,         \* the event stream
  load,        \* the newest getThread request
  post,        \* the sendMessage request
  view,        \* PiThreadState
  optimistic,  \* optimisticUserMessages
  mounted,     \* the thread is on screen
  known,       \* history: the newest event or snapshot the view was given
  doubt,       \* history: the last event it was not given, until a snapshot is newer
  stray,       \* history: a message shown ahead may never be recognised
  cut,         \* history: what was shown as busy when its stream was dropped
  replies, sends, troubles

supervisorVars == <<record, seq, epoch, sessionFile, sessions, opener>>
sessionVars == <<transcript, run, attempt, rev, pending>>
clientVars == <<view, optimistic, mounted>>
history == <<known, doubt, stray, cut>>
bounds == <<replies, sends, troubles>>
cockpitVars == <<supervisorVars, sessionVars, sse, load, post, clientVars, history, bounds>>

Openers == {"events", "send"}
Final == MaxUpdates + 1
Message(id, r) == [id |-> id, rev |-> r]
User(id) == Message(id, Final)
ReplyId(n) == 10 + n
SummaryId(n) == 20 + n

\* The servers' events in one row.
At(n) == epoch + n + 1
Position == At(seq)
Later(a, b) == IF a > b THEN a ELSE b

MoreInputs == sends + troubles < MaxInputs
Trouble == MoreInputs /\ troubles' = troubles + 1

\* What runs after a resolved ensureOpen() runs before any other macrotask.
Resumed == \A k \in Openers : opener[k] # "ready"

-----------------------------------------------------------------------------
(* Events, snapshots, and the reducer.                                     *)

\* snapshotOf, or what the file says of a thread without a record.
Snapshot == [messages |-> transcript, running |-> run # "idle", queue |-> pending,
             asof |-> Position]
Event(kind, msg, queue) ==
  [kind |-> kind, seq |-> seq + 1, msg |-> msg, queue |-> queue]
SnapshotEvent(snap, n) == [kind |-> "snapshot", seq |-> n, snap |-> snap]

Attached == sse.at = "on" /\ sse.attached

\* openPiEventStream: a dropped stream is opened again, with the same URL.
Dropped == [sse EXCEPT !.at = "dialing", !.attached = FALSE, !.frames = <<>>]

\* What the view shows as busy then may end unheard.
CutOff == cut' = cut \union view.busy

\* emit: number the event, and hand it to the stream if one listens.
Emit(event) ==
  /\ seq' = seq + 1
  /\ sse' = IF Attached THEN [sse EXCEPT !.frames = Append(@, event)] ELSE sse

Streaming(v) == v.pointer \in DOMAIN v.messages
Put(v, msg) == [v EXCEPT !.messages[v.pointer] = msg]
Push(v, msg) == [v EXCEPT !.messages = Append(@, msg)]
PushReply(v, msg) == [Push(v, msg) EXCEPT !.pointer = Len(v.messages) + 1]

\* message_end closes the reply that streams; without one it does nothing.
Close(v, msg) == IF Streaming(v) THEN [Put(v, msg) EXCEPT !.pointer = 0] ELSE v

\* Mutant: a snapshot without queued messages leaves those that are shown.
RestoredWithQueue(v, snap) ==
  [v EXCEPT !.messages = snap.messages, !.pointer = 0, !.loaded = "loaded",
            !.queue = IF snap.queue = <<>> THEN @ ELSE snap.queue,
            !.run = IF snap.running THEN "running" ELSE "idle"]

\* A snapshot takes the place of everything but the flags of a compaction and
\* of a retry.
Restored(v, snap) ==
  [v EXCEPT !.messages = snap.messages, !.pointer = 0, !.loaded = "loaded",
            !.queue = snap.queue,
            !.run = IF snap.running THEN "running" ELSE "idle"]

Reduced(v, e) ==
  CASE e.kind = "snapshot" -> Restored(v, e.snap)
    [] e.kind = "begin"  -> [Push(v, e.msg[1]) EXCEPT !.run = "running"]
    [] e.kind = "resume" -> [Push(v, e.msg[1]) EXCEPT !.run = "running", !.queue = e.queue]
    [] e.kind = "again"  -> [v EXCEPT !.run = "running"]
    [] e.kind = "start"  -> PushReply(v, e.msg[1])
    [] e.kind = "update" -> IF Streaming(v) THEN Put(v, e.msg[1])
                            ELSE PushReply(v, e.msg[1])
    [] e.kind \in {"end", "recovered"} ->
         LET w == Close(v, e.msg[1]) IN
         IF Len(e.msg) = 1 THEN [w EXCEPT !.run = "idle", !.pointer = 0]
         ELSE [Push(w, e.msg[2]) EXCEPT !.queue = e.queue]
    [] e.kind \in {"retry", "over", "failed"} -> [Close(v, e.msg[1]) EXCEPT !.pointer = 0]
    [] e.kind = "queue"  -> [v EXCEPT !.queue = e.queue]
    [] OTHER -> v

\* compaction_start and _end, auto_retry_start and _end.
Begins(kind) == CASE kind = "compacting" -> {"compaction"}
                  [] kind = "retry" -> {"retry"}
                  [] OTHER -> {}
Ends(kind) == CASE kind \in {"compacted", "uncompacted"} -> {"compaction"}
                [] kind \in {"recovered", "over"} -> {"retry"}
                [] OTHER -> {}

\* What ends with an error event.
Faulty == {"error", "uncompacted", "retry", "over", "failed"}

\* Events that are no newer than the last one are ignored, but not an error.
Reduce(v, e) ==
  LET heard == e.kind = "snapshot" \/ e.seq > v.lastSeq
  IN  [(IF heard THEN Reduced(v, e) ELSE v) EXCEPT
         !.busy = IF heard THEN (v.busy \ Ends(e.kind)) \union Begins(e.kind) ELSE v.busy,
         !.run = IF e.kind \in Faulty THEN "failed" ELSE @,
         !.lastSeq = Later(v.lastSeq, e.seq)]

\* s without what is in drop: filter, as a function of how much of s is looked at.
Without(s, drop) ==
  LET left[n \in 0..Len(s)] ==
        IF n = 0 THEN <<>>
        ELSE IF s[n] \in drop THEN left[n - 1] ELSE Append(left[n - 1], s[n])
  IN  left[Len(s)]

\* A message shown ahead goes when it shows up behind those there were then.
Confirmed(opt, v) ==
  {opt[j] : j \in {k \in DOMAIN opt : \E i \in DOMAIN v.messages :
                      i > opt[k].base /\ v.messages[i].id = opt[k].id}}
Unconfirmed(opt, v) == Without(opt, Confirmed(opt, v))

\* dispatch: the reducer, then the messages shown ahead, then a new load for
\* an event the reducer does not know.
Dispatch(e, refresh) ==
  LET v == Reduce(view, e)
  IN  /\ view' = IF refresh THEN [v EXCEPT !.loaded = "loading"] ELSE v
      /\ optimistic' = Unconfirmed(optimistic, v)

NoPost == [at |-> "none", id |-> 0, queued |-> FALSE]

-----------------------------------------------------------------------------
(* The supervisor.                                                         *)

\* Mutant: a cold open does not see that another one is pending.
NobodyOpens == {}

\* pendingOpens.
PendingOpens == {k \in Openers : opener[k] \in {"looking", "creating"}}

\* ensureOpen, of a thread without a record: the pending open, or a cold one.
OpenFor(k) ==
  /\ ~record /\ opener[k] = "idle" /\ Resumed
  /\ opener' = [opener EXCEPT ![k] = IF PendingOpens # {} THEN "waiting" ELSE "looking"]

\* ensureOpen returns to k: at once if there is a record and k asks.
Returns(k, asks) ==
  /\ \/ opener[k] \in {"ready", "unknown"}
     \/ opener[k] = "idle" /\ record /\ asks /\ Resumed
  /\ opener' = [opener EXCEPT ![k] = "idle"]

\* Mutant: those who wait for k's open never hear of it.
AnswerAlone(k, result) == opener' = [opener EXCEPT ![k] = result]

\* What k's open came to is what those who wait for it get.
Answer(k, result) ==
  opener' = [c \in Openers |-> IF c = k \/ opener[c] = "waiting" THEN result ELSE opener[c]]

\* openCold: findSessionInfo has looked for the file.
Look(k) ==
  /\ opener[k] = "looking" /\ Resumed
  /\ IF sessionFile = "gone" THEN Answer(k, "unknown")
     ELSE IF record THEN Answer(k, "ready")
     ELSE opener' = [opener EXCEPT ![k] = "creating"]
  /\ UNCHANGED <<record, seq, epoch, sessionFile, sessions, sessionVars, sse, load, post,
                 clientVars, history, bounds>>

\* openSession: the session is created and bound, the record new.
Create(k) ==
  /\ opener[k] = "creating" /\ Resumed
  /\ record' = TRUE /\ seq' = 0
  /\ sessions' = sessions + 1
  /\ Answer(k, "ready")
  /\ UNCHANGED <<epoch, sessionFile, sessionVars, sse, load, post, clientVars, history, bounds>>

\* deleteThread: the record goes at once, the file after its unlink.
DeleteThread ==
  /\ sessionFile = "present" /\ Resumed /\ Trouble
  /\ sessionFile' = "unlinking"
  /\ record' = FALSE
  /\ sessions' = IF record THEN sessions - 1 ELSE sessions
  /\ run' = "idle" /\ attempt' = FALSE /\ rev' = 0 /\ pending' = <<>>
  /\ sse' = [sse EXCEPT !.attached = FALSE]
  /\ UNCHANGED <<seq, epoch, opener, transcript, load, post, clientVars,
                 history, replies, sends>>

Unlinked ==
  /\ sessionFile = "unlinking" /\ Resumed
  /\ sessionFile' = "gone"
  /\ UNCHANGED <<record, seq, epoch, sessions, opener, sessionVars, sse, load, post,
                 clientVars, history, bounds>>

\* The server process is replaced by a new one.
ServerRestarts ==
  /\ Trouble
  /\ epoch' = epoch + seq + 1 /\ seq' = 0
  /\ record' = FALSE /\ sessions' = 0
  /\ opener' = [k \in Openers |-> "idle"]
  /\ run' = "idle" /\ attempt' = FALSE /\ rev' = 0 /\ pending' = <<>>
  /\ CutOff
  /\ sse' = IF sse.at = "on" THEN Dropped ELSE sse
  /\ post' = IF post.at = "sent" THEN [post EXCEPT !.at = "refused"] ELSE post
  /\ UNCHANGED <<sessionFile, transcript, load, clientVars, known, doubt, stray, replies, sends>>

-----------------------------------------------------------------------------
(* The event stream.                                                       *)

\* subscribe(), for a stream that was asked for.
Subscribing == sse.at = "dialing"

StreamArrives ==
  /\ Subscribing /\ OpenFor("events")
  /\ UNCHANGED <<record, seq, epoch, sessionFile, sessions, sessionVars, sse, load, post,
                 clientVars, history, bounds>>

\* The listener is added, behind a snapshot if one was asked for.  A thread
\* that cannot be opened is an error, and the stream stays open.
Attach ==
  /\ Returns("events", Subscribing)
  /\ sse' = IF ~Subscribing THEN sse
            ELSE [sse EXCEPT !.at = "on", !.attached = opener["events"] # "unknown",
                    !.frames = IF opener["events"] = "unknown"
                               THEN <<[Event("error", <<>>, <<>>) EXCEPT !.seq = 0]>>
                               ELSE IF sse.fresh THEN <<SnapshotEvent(Snapshot, seq)>>
                               ELSE <<>>]
  /\ doubt' = IF Subscribing /\ ~sse.fresh THEN Later(doubt, Position) ELSE doubt
  /\ UNCHANGED <<record, seq, epoch, sessionFile, sessions, sessionVars, load, post, clientVars,
                 known, stray, cut, bounds>>

Drop ==
  /\ sse.at = "on" /\ Trouble
  /\ sse' = Dropped /\ CutOff
  /\ UNCHANGED <<supervisorVars, sessionVars, load, post, clientVars, known, doubt, stray,
                 replies, sends>>

\* An event comes; one the reducer does not know asks for a snapshot, unless
\* a load is in flight (refreshInBackground).
Deliver ==
  /\ sse.at = "on" /\ sse.frames # <<>>
  /\ LET e == Head(sse.frames)
         refresh == e.kind = "settled" /\ load.at = "none"
     IN  /\ Dispatch(e, refresh)
         /\ load' = IF refresh THEN [load EXCEPT !.at = "asked"] ELSE load
         /\ known' = Later(known, At(e.seq))
         /\ doubt' = IF e.kind = "compacted" THEN Later(doubt, At(e.seq))
                      ELSE IF e.kind = "snapshot" /\ e.snap.asof >= doubt THEN 0 ELSE doubt
  /\ cut' = cut \intersect view'.busy
  /\ sse' = [sse EXCEPT !.frames = Tail(@)]
  /\ UNCHANGED <<supervisorVars, sessionVars, post, mounted, stray, bounds>>

-----------------------------------------------------------------------------
(* The session, as its events show it.                                     *)

\* prompt() for a request: a run begins, the message is queued, or it is
\* refused: by prompt() itself while a run is active, or by the preflight.
Begin(kind, id, queue) ==
  /\ run' = "thinking"
  /\ transcript' = Append(transcript, User(id))
  /\ pending' = queue
  /\ Emit(Event(kind, <<User(id)>>, queue))

PostArrives ==
  /\ post.at = "sent" /\ OpenFor("send")
  /\ UNCHANGED <<record, seq, epoch, sessionFile, sessions, sessionVars, sse, load, post,
                 clientVars, history, bounds>>

Prompt ==
  /\ run # "compacting"
  /\ Returns("send", post.at = "sent")
  /\ \/ /\ opener["send"] # "unknown" /\ run = "idle"
        /\ Begin("begin", post.id, pending)
        /\ post' = [post EXCEPT !.at = "accepted"]
        /\ UNCHANGED <<attempt, rev, bounds>>
     \/ /\ opener["send"] # "unknown" /\ run # "idle" /\ post.queued
        /\ pending' = Append(pending, post.id)
        /\ Emit(Event("queue", <<>>, pending'))
        /\ post' = [post EXCEPT !.at = "accepted"]
        /\ UNCHANGED <<transcript, run, attempt, rev, bounds>>
     \/ /\ opener["send"] # "unknown"
        /\ IF run # "idle" /\ ~post.queued THEN UNCHANGED troubles ELSE Trouble
        /\ Emit(Event("error", <<>>, <<>>))
        /\ post' = [post EXCEPT !.at = "refused"]
        /\ UNCHANGED <<sessionVars, replies, sends>>
     \/ /\ opener["send"] = "unknown"
        /\ post' = [post EXCEPT !.at = "refused"]
        /\ UNCHANGED <<sessionVars, seq, sse, bounds>>
  /\ UNCHANGED <<record, epoch, sessionFile, sessions, load, clientVars, history>>

\* The model begins its reply, goes on with it, ends it.  After its end the
\* loop takes a queued message, or the run ends.
StartReply ==
  /\ run = "thinking" /\ Resumed
  /\ run' = "streaming"
  /\ replies' = replies + 1
  /\ Emit(Event("start", <<Message(ReplyId(replies'), 0)>>, <<>>))
  /\ UNCHANGED <<transcript, attempt, rev, pending, sends, troubles>>

UpdateReply ==
  /\ run = "streaming" /\ rev < MaxUpdates /\ Resumed
  /\ rev' = rev + 1
  /\ Emit(Event("update", <<Message(ReplyId(replies), rev')>>, <<>>))
  /\ UNCHANGED <<transcript, run, attempt, pending, bounds>>

EndReply ==
  /\ run = "streaming" /\ Resumed
  /\ LET reply == User(ReplyId(replies))
         kind == IF attempt THEN "recovered" ELSE "end"
     IN IF pending = <<>>
        THEN /\ run' = "ending"
             /\ transcript' = Append(transcript, reply)
             /\ Emit(Event(kind, <<reply>>, <<>>))
             /\ UNCHANGED pending
        ELSE /\ run' = "thinking"
             /\ transcript' = transcript \o <<reply, User(Head(pending))>>
             /\ pending' = Tail(pending)
             /\ Emit(Event(kind, <<reply, User(Head(pending))>>, pending'))
  /\ attempt' = FALSE /\ rev' = 0
  /\ UNCHANGED bounds

\* The reply fails: it is taken back and tried again after a delay
\* (_prepareRetry), or it stays, and the run ends.
FailReply ==
  /\ run = "streaming" /\ Resumed /\ Trouble
  /\ LET reply == User(ReplyId(replies)) IN
     \/ /\ run' = "retrying" /\ attempt' = TRUE
        /\ Emit(Event("retry", <<reply>>, <<>>))
        /\ UNCHANGED transcript
     \/ /\ run' = "ending" /\ attempt' = FALSE
        /\ transcript' = Append(transcript, reply)
        /\ Emit(Event(IF attempt THEN "over" ELSE "failed", <<reply>>, <<>>))
  /\ rev' = 0
  /\ UNCHANGED <<pending, replies, sends>>

RetryOver ==
  /\ run = "retrying" /\ Resumed
  /\ run' = "thinking"
  /\ Emit(Event("again", <<>>, <<>>))
  /\ UNCHANGED <<transcript, attempt, rev, pending, bounds>>

\* What was queued after the end of the run is continued with; without it the
\* session has settled.
Settle ==
  /\ run = "ending" /\ Resumed
  /\ IF pending = <<>>
     THEN /\ run' = "idle"
          /\ Emit(Event("settled", <<>>, <<>>))
          /\ UNCHANGED <<transcript, pending>>
     ELSE Begin("resume", Head(pending), Tail(pending))
  /\ UNCHANGED <<attempt, rev, bounds>>

RunStep ==
  /\ StartReply \/ UpdateReply \/ EndReply \/ FailReply \/ RetryOver \/ Settle
  /\ UNCHANGED <<record, epoch, sessionFile, sessions, opener, load, post, clientVars, history>>

\* compact() of a session at rest: a summary takes the place of what was said.
\* A prompt that overlaps it is left to AgentSession.
Compact ==
  /\ record /\ run = "idle" /\ Resumed /\ Trouble
  /\ run' = "compacting"
  /\ Emit(Event("compacting", <<>>, <<>>))
  /\ UNCHANGED <<record, epoch, sessionFile, sessions, opener, transcript, attempt, rev,
                 pending, load, post, clientVars, history, replies, sends>>

Compacted ==
  /\ run = "compacting" /\ Resumed
  /\ run' = "idle"
  /\ \/ /\ transcript' = <<User(SummaryId(troubles))>>
        /\ Emit(Event("compacted", <<>>, <<>>))
        /\ doubt' = At(seq + 1)
        /\ stray' = (stray \/ optimistic # <<>>)
     \/ /\ Emit(Event("uncompacted", <<>>, <<>>))
        /\ UNCHANGED <<transcript, doubt, stray>>
  /\ UNCHANGED <<record, epoch, sessionFile, sessions, opener, attempt, rev, pending, load,
                 post, clientVars, known, cut, bounds>>

-----------------------------------------------------------------------------
(* The controller.                                                         *)

\* load(): a pending request is joined, unless a new one is asked for.
Load(force) ==
  IF load.at = "none" \/ force
  THEN /\ load' = [load EXCEPT !.at = "asked"]
       /\ view' = [view EXCEPT !.loaded = "loading"]
  ELSE UNCHANGED <<load, view>>

\* ensureEventSubscription.
Subscribe(fresh) ==
  sse' = IF sse.at = "off" THEN [sse EXCEPT !.at = "dialing", !.fresh = fresh] ELSE sse

\* The hook's effects: load(), then connect().
Mount ==
  /\ ~mounted
  /\ mounted' = TRUE
  /\ Load(FALSE)
  /\ Subscribe(view'.loaded # "loaded")
  /\ UNCHANGED <<supervisorVars, sessionVars, post, optimistic, history, bounds>>

\* Nobody has looked at the thread for a while.
Disconnect ==
  /\ sse.at # "off" /\ Trouble
  /\ mounted' = FALSE
  /\ sse' = [Dropped EXCEPT !.at = "off"] /\ CutOff
  /\ UNCHANGED <<supervisorVars, sessionVars, load, post, view, optimistic, known, doubt,
                 stray, replies, sends>>

Refresh ==
  /\ Trouble
  /\ Load(TRUE)
  /\ UNCHANGED <<supervisorVars, sessionVars, sse, post, optimistic, mounted, history,
                 replies, sends>>

\* getThread, and its answer: a snapshot that always applies.
GetThread ==
  /\ load.at = "asked" /\ Resumed
  /\ record \/ sessionFile # "gone"
  /\ load' = [at |-> "answered", snap |-> <<Snapshot>>]
  /\ UNCHANGED <<supervisorVars, sessionVars, sse, post, clientVars, history, bounds>>

NoLoad == [at |-> "none", snap |-> <<>>]

Loaded ==
  /\ load.at = "answered"
  /\ LET asof == load.snap[1].asof IN
     /\ Dispatch(SnapshotEvent(load.snap[1], 0), FALSE)
     /\ doubt' = IF asof < known THEN Later(doubt, known)
                 ELSE IF asof >= doubt THEN 0 ELSE doubt
     /\ known' = Later(known, asof)
  /\ load' = NoLoad
  /\ UNCHANGED <<supervisorVars, sessionVars, sse, post, mounted, stray, cut, bounds>>

LoadFails ==
  /\ load.at = "asked"
  /\ IF record \/ sessionFile # "gone" THEN Trouble ELSE UNCHANGED troubles
  /\ load' = NoLoad
  /\ view' = [view EXCEPT !.loaded = "loaded"]
  /\ doubt' = Later(doubt, Position)
  /\ UNCHANGED <<supervisorVars, sessionVars, sse, post, optimistic, mounted, known, stray,
                 cut, replies, sends>>

\* sendMessage: while the thread seems to run the message is shown as queued,
\* otherwise as said, and the thread as running.
Send ==
  /\ mounted /\ post.at = "none" /\ MoreInputs
  /\ sends' = sends + 1
  /\ Subscribe(FALSE)
  /\ IF view.run = "running"
     THEN /\ view' = [view EXCEPT !.queue = Append(@, sends')]
          /\ UNCHANGED <<optimistic, stray>>
     ELSE /\ view' = [view EXCEPT !.run = "running"]
          /\ optimistic' = Append(optimistic, [id |-> sends', base |-> Len(view.messages)])
          /\ stray' = (stray \/ Len(view.messages) > Len(transcript))
  /\ post' = [at |-> "sent", id |-> sends', queued |-> view.run = "running"]
  /\ UNCHANGED <<supervisorVars, sessionVars, load, mounted, known, doubt, cut, replies,
                 troubles>>

\* A refusal takes back what was shown ahead.
TakeBack ==
  IF post.queued
  THEN /\ view' = [view EXCEPT !.queue = Without(@, {post.id})]
       /\ UNCHANGED optimistic
  ELSE /\ view' = [view EXCEPT !.run = "failed"]
       /\ optimistic' = Without(optimistic, {optimistic[j] : j \in {k \in DOMAIN optimistic :
                                                            optimistic[k].id = post.id}})

PostReturns ==
  /\ post.at \in {"accepted", "refused"}
  /\ post' = NoPost
  /\ IF post.at = "refused" THEN TakeBack ELSE UNCHANGED <<view, optimistic>>
  /\ UNCHANGED <<supervisorVars, sessionVars, sse, load, mounted, history, bounds>>

-----------------------------------------------------------------------------
CockpitInit ==
  /\ record = FALSE /\ seq = 0 /\ epoch = 0
  /\ sessionFile = "present" /\ sessions = 0
  /\ opener = [k \in Openers |-> "idle"]
  /\ transcript = <<User(SummaryId(0))>>
  /\ run = "idle" /\ attempt = FALSE /\ rev = 0 /\ pending = <<>>
  /\ sse = [at |-> "off", fresh |-> FALSE, attached |-> FALSE, frames |-> <<>>]
  /\ load = NoLoad /\ post = NoPost
  /\ view = [messages |-> <<>>, pointer |-> 0, run |-> "idle", queue |-> <<>>,
             busy |-> {}, loaded |-> "pending", lastSeq |-> 0]
  /\ optimistic = <<>> /\ mounted = FALSE
  /\ known = 0 /\ doubt = Position /\ stray = FALSE /\ cut = {}
  /\ replies = 0 /\ sends = 0 /\ troubles = 0

Progress ==
  \/ \E k \in Openers : Look(k) \/ Create(k)
  \/ Unlinked \/ StreamArrives \/ Attach \/ Deliver
  \/ Prompt \/ RunStep \/ Compacted \/ GetThread \/ Loaded \/ PostArrives \/ PostReturns
  \/ (sessionFile = "gone" /\ LoadFails)

CockpitNext ==
  \/ Progress
  \/ DeleteThread \/ ServerRestarts \/ Drop \/ Compact
  \/ Mount \/ Disconnect \/ Refresh \/ LoadFails \/ Send

CockpitSpec == CockpitInit /\ [][CockpitNext]_cockpitVars
CockpitFairSpec == CockpitSpec /\ WF_cockpitVars(Progress)

-----------------------------------------------------------------------------
(* Properties.                                                             *)

CockpitTypeOK ==
  /\ {record, mounted, stray, attempt} \subseteq BOOLEAN
  /\ sessionFile \in {"present", "unlinking", "gone"}
  /\ opener \in [Openers -> {"idle", "looking", "creating", "waiting", "ready", "unknown"}]
  /\ run \in {"idle", "thinking", "streaming", "retrying", "ending", "compacting"}
  /\ sse.at \in {"off", "dialing", "on"}
  /\ load.at \in {"none", "asked", "answered"}
  /\ post.at \in {"none", "sent", "accepted", "refused"}
  /\ view.run \in {"idle", "running", "failed"}
  /\ view.loaded \in {"pending", "loading", "loaded"}
  /\ cut \subseteq view.busy /\ view.busy \subseteq {"compaction", "retry"}

\* A thread has one live session at a time, however its opens overlap with
\* each other, with a deletion and with a restart.
OneSession == sessions <= 1 /\ (record => sessions = 1)

\* The session rests, and nothing is on its way to the browser.
Quiet ==
  /\ sessionFile = "present" /\ record /\ run = "idle"
  /\ \A k \in Openers : opener[k] = "idle"
  /\ sse.at = "on" /\ sse.frames = <<>>
  /\ load.at = "none" /\ post.at = "none"

\* isPiStateRunning.
Spinning == view.run = "running" \/ view.busy # {}

\* What the browser shows of a thread at rest.
Agrees ==
  /\ view.messages = transcript
  /\ optimistic = <<>>
  /\ ~Spinning
  /\ view.queue = <<>>

\* Drops, restarts, snapshots that cross events, refusals, retries, and messages
\* shown ahead: in the end the browser shows the session as it is.  Excused are
\* a change it was not told of that has had no snapshot since (doubt), a
\* message shown ahead where it cannot be recognised (stray), and a compaction
\* or a retry that was shown when its stream was dropped: a snapshot keeps
\* these flags, and their end may have been lost (cut).
ViewSettles == Quiet /\ doubt = 0 /\ ~stray /\ cut = {} => Agrees

\* A thread that is shown as running, compacting or retrying is not shown so
\* for ever, unless its stream was closed or the thread deleted, or it rests
\* and the view was not told: of the end of a compaction of which a snapshot
\* said "running", or of another change without a snapshot since (doubt); of
\* the end of a compaction or a retry whose stream was dropped (cut).
SpinnerStops ==
  Spinning
    ~> \/ ~Spinning
       \/ sse.at = "off" \/ sessionFile # "present"
       \/ Quiet /\ (doubt # 0 \/ cut # {})

\* Not so of the code: a thread at rest is always shown as it is; a deleted
\* thread stays deleted.
ViewAlwaysSettles == Quiet => Agrees
DeletedStaysDeleted == sessionFile = "gone" => ~record
=============================================================================
