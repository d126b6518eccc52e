----------------------------- MODULE Supervisor -----------------------------
(***************************************************************************)
(* The orchestrator of packages/orchestrator: OrchestratorSupervisor       *)
(* (supervisor.ts) with the agent processes it runs (rpc-process.ts), the  *)
(* records it keeps of them in instances.json (storage.ts), the heartbeats *)
(* it sends for them to the Radius service (radius.ts) and its start and   *)
(* shutdown (serve.ts).  The machine's own registration and heartbeats are *)
(* left out.  One step is what runs between two events of the event loop.  *)
(***************************************************************************)
EXTENDS Naturals

CONSTANTS
  Instances,          \* ids of the instances that may be spawned
  Callers,            \* who may be inside stopInstance: IPC requests ...
  Main,               \* ... and shutdown()
  Radius,             \* isRadiusEnabled()
  NotFoundThreshold,  \* NOT_FOUND_RETRY_THRESHOLD
  MaxFaults,          \* bound on failing requests and writes
  MaxForgets,         \* bound on Radius forgetting a registration
  MaxCrashes          \* bound on the orchestrator being killed

ASSUME SupervisorAssumption ==
  /\ Main \notin Callers
  /\ Radius \in BOOLEAN
  /\ NotFoundThreshold \in Nat \ {0}
  /\ {MaxFaults, MaxForgets, MaxCrashes} \subseteq Nat

VARIABLES
  inst,       \* each instance: see Instance
  mode,       \* the orchestrator process
  closing,    \* shutdown() has begun
  todo,       \* the instances shutdown() has not come to yet
  unlisted,   \* history: those spawned after it had listed its own
  snapshot,   \* what recoverAfterRestart will save
  recovering, \* the instances it has not disconnected yet
  faults, forgets, crashes

vars == <<inst, mode, closing, todo, unlisted, snapshot, recovering,
          faults, forgets, crashes>>
daemon == <<mode, closing, todo, snapshot, recovering, crashes>>

NoRecord == [status |-> "none", pi |-> FALSE]
Records  == [status : {"none", "starting", "online", "stopping", "stopped", "error"},
             pi : BOOLEAN]
Stoppers == Callers \union {Main}
NoStop   == [at |-> "no", proc |-> FALSE]

Instance ==
  [record : Records,       \* live.record; pi is its radiusPiId
   file   : Records,       \* its entry in instances.json
   live   : BOOLEAN,       \* it is in liveInstances
   proc   : BOOLEAN,       \* live.resources.rpcProcess is set
   bound  : BOOLEAN,       \* its exit listener is registered
   child  : {"none", "running", "term", "exited"},  \* term: told to end
   spawn  : {"none", "starting", "registering", "disposing", "online", "failed"},
   exiting: BOOLEAN,       \* handleUnexpectedRpcExit awaits the disconnect
   stop   : [Stoppers -> [at : {"no", "disconnecting", "disposing"}, proc : BOOLEAN]],
   rpc    : {"none", "command", "state"},
   entry  : BOOLEAN,       \* it is in piHeartbeatStates
   beat   : {"idle", "posting", "registering"},
   missed : 0..NotFoundThreshold,
   clone  : Records,       \* the record reRegisterPi works on
   known  : BOOLEAN,       \* Radius lists it
   early  : BOOLEAN,       \* history: spawned while recovery was under way
   late   : BOOLEAN,       \* history: registered after a stop or an exit
   lost   : BOOLEAN]       \* history: a disconnect of it failed

NewInstance ==
  [record |-> NoRecord, file |-> NoRecord, live |-> FALSE, proc |-> FALSE,
   bound |-> FALSE, child |-> "none", spawn |-> "none", exiting |-> FALSE,
   stop |-> [s \in Stoppers |-> NoStop], rpc |-> "none", entry |-> FALSE,
   beat |-> "idle", missed |-> 0, clone |-> NoRecord, known |-> FALSE,
   early |-> FALSE, late |-> FALSE, lost |-> FALSE]

Running == mode \in {"recovering", "up"}
Alive(x) == x.child \in {"running", "term"}

-----------------------------------------------------------------------------
(* What the methods do to one instance.                                    *)

Upsert(x) == [x EXCEPT !.file = x.record]
SetStatus(x, s) == Upsert([x EXCEPT !.record.status = s])
SetPi(x, pi) == Upsert([x EXCEPT !.record.pi = pi])

\* spawnInstance ends in the finally of failSpawn.
SpawnFailed(x) ==
  [SetStatus(x, "stopped") EXCEPT !.live = FALSE, !.spawn = "failed"]

\* rejectAllPending, and what the rejected requests go on with: a spawn that
\* awaits get_state fails, and has no process to dispose of any more.
RejectAll(x) ==
  LET y == [x EXCEPT !.rpc = "none"]
  IN IF y.spawn = "starting" THEN SpawnFailed(SetStatus(y, "error")) ELSE y

\* failSpawn of an instance that still has its process disposes of it.
FailSpawn(x) ==
  LET y == [SetStatus(x, "error") EXCEPT !.bound = FALSE]
  IN IF y.proc /\ y.child # "exited"
     THEN [y EXCEPT !.proc = FALSE, !.rpc = "none", !.child = "term",
                    !.spawn = "disposing"]
     ELSE SpawnFailed([y EXCEPT !.proc = FALSE])

\* The finally of stopInstance.
StopDone(x, s) ==
  [x EXCEPT !.record.status = "stopped", !.live = FALSE, !.file = NoRecord,
            !.stop[s] = NoStop]

\* Mutant: the process is not disposed of.
DisposeNothing(x, s, proc) == StopDone(x, s)

\* Mutant: dispose() awaits an exit that may have come already.
DisposeAnyway(x, s, proc) ==
  IF ~proc THEN StopDone(x, s)
  ELSE [RejectAll([x EXCEPT !.proc = FALSE]) EXCEPT
          !.child = IF @ = "running" THEN "term" ELSE @,
          !.stop[s] = [at |-> "disposing", proc |-> TRUE]]

\* cleanupAcquiredResources once the Pi is disconnected: proc says whether
\* the instance had its process when the clean-up began.
Dispose(x, s, proc) ==
  LET y == RejectAll([x EXCEPT !.proc = FALSE])
  IN CASE ~proc -> StopDone(x, s)
       [] proc /\ x.child = "exited" -> StopDone(y, s)
       [] OTHER -> [y EXCEPT !.child = "term",
                             !.stop[s] = [at |-> "disposing", proc |-> TRUE]]

\* stopInstance up to its first await; disconnectPi forgets the heartbeat.
BeginStop(x, s) ==
  LET y == [SetStatus(x, "stopping") EXCEPT !.bound = FALSE]
  IN IF y.record.pi
     THEN [y EXCEPT !.entry = FALSE,
                    !.stop[s] = [at |-> "disconnecting", proc |-> y.proc]]
     ELSE Dispose(y, s, y.proc)

\* handleUnexpectedRpcExit up to its await.
UnexpectedExit(x) ==
  LET y == [SetStatus(x, "error") EXCEPT !.bound = FALSE, !.proc = FALSE]
  IN IF ~x.bound \/ ~x.live \/ x.record.status \in {"stopping", "stopped"} THEN x
     ELSE IF y.record.pi THEN [y EXCEPT !.exiting = TRUE, !.entry = FALSE]
     ELSE [y EXCEPT !.live = FALSE]

\* Everybody who awaits the exit in dispose() goes on.
Disposed(x) ==
  LET y == IF x.spawn = "disposing" THEN SpawnFailed(x) ELSE x
      stopped == {s \in Stoppers : y.stop[s].at = "disposing"}
  IN IF stopped = {} THEN y
     ELSE [y EXCEPT !.record.status = "stopped", !.live = FALSE, !.file = NoRecord,
                    !.stop = [s \in Stoppers |-> IF s \in stopped THEN NoStop ELSE @[s]]]

\* The memory of the orchestrator is gone; the child sees the end of stdin.
Forgotten(x) ==
  [NewInstance EXCEPT !.file = x.file, !.known = x.known,
     !.child = IF x.child = "running" THEN "term" ELSE x.child,
     !.spawn = IF x.spawn = "none" THEN "none" ELSE "failed",
     !.early = x.early, !.late = x.late, !.lost = x.lost]

-----------------------------------------------------------------------------
Init ==
  /\ inst = [i \in Instances |-> NewInstance]
  /\ mode = "up" /\ closing = FALSE /\ todo = {} /\ unlisted = {}
  /\ snapshot = [i \in Instances |-> NoRecord] /\ recovering = {}
  /\ faults = 0 /\ forgets = 0 /\ crashes = 0

\* What happens to one instance changes nothing else.
Becomes(i, x) ==
  /\ inst' = [inst EXCEPT ![i] = x]
  /\ UNCHANGED <<daemon, unlisted, faults, forgets>>

\* The same, by a request or a write that fails.
BecomesByFault(i, x) ==
  /\ faults < MaxFaults
  /\ faults' = faults + 1
  /\ inst' = [inst EXCEPT ![i] = x]
  /\ UNCHANGED <<daemon, unlisted, forgets>>

(* spawnInstance.  Shutdown closes the server, not its connections, so that *)
(* a request may still spawn what shutdown() has not listed.               *)
Started(x) ==
  Upsert([x EXCEPT !.record.status = "starting", !.live = TRUE,
                   !.early = mode = "recovering"])

Enlist(i) ==
  /\ Running /\ inst[i].spawn = "none"
  /\ unlisted' = IF closing THEN unlisted \union {i} ELSE unlisted
  /\ UNCHANGED <<daemon, forgets>>

Spawn(i) ==
  /\ Enlist(i)
  /\ inst' = [inst EXCEPT ![i] = [Started(@) EXCEPT !.proc = TRUE, !.bound = TRUE,
                                                   !.child = "running", !.spawn = "starting"]]
  /\ UNCHANGED faults

\* The process cannot be created.
SpawnThrows(i) ==
  /\ Enlist(i)
  /\ faults < MaxFaults /\ faults' = faults + 1
  /\ inst' = [inst EXCEPT ![i] = FailSpawn(Started(@))]

\* The child answers get_state; without Radius that was all.
StateAnswered(i) ==
  LET x == Upsert(inst[i])
  IN /\ Running /\ x.spawn = "starting" /\ x.child = "running"
     /\ Becomes(i, IF Radius THEN [x EXCEPT !.spawn = "registering"]
                   ELSE [SetStatus(x, "online") EXCEPT !.spawn = "online"])

\* get_state cannot be written to the child.
WriteFails(i) ==
  /\ Running /\ inst[i].spawn = "starting" /\ inst[i].child = "running"
  /\ BecomesByFault(i, FailSpawn(inst[i]))

\* registerPi, startPiHeartbeat, and the rest of spawnInstance: nobody asks
\* whether the instance is still live.
RegisterOk(i) ==
  LET x == inst[i]
      y == [SetPi(x, TRUE) EXCEPT !.entry = TRUE, !.missed = 0, !.known = TRUE]
  IN /\ Running /\ x.spawn = "registering"
     /\ Becomes(i, [SetStatus(y, "online") EXCEPT !.spawn = "online",
                      !.late = x.late \/ x.record.status # "starting"])

RegisterFails(i) ==
  /\ Running /\ inst[i].spawn = "registering"
  /\ BecomesByFault(i, FailSpawn(inst[i]))

(* The child ends, by itself, by a signal or because its stdin does.       *)
ChildExits(i) ==
  LET x == [inst[i] EXCEPT !.child = "exited"]
      y == UnexpectedExit(x)
  IN /\ Alive(inst[i]) /\ mode # "stuck"
     /\ Becomes(i, IF Running THEN Disposed(RejectAll(y)) ELSE x)

\* handleUnexpectedRpcExit has disconnected the Pi, or failed to.
ExitHandled(i) ==
  /\ Running /\ inst[i].exiting
  /\ Becomes(i, [SetPi(inst[i], FALSE) EXCEPT !.exiting = FALSE, !.live = FALSE,
                                              !.known = FALSE])

ExitUnhandled(i) ==
  /\ Running /\ inst[i].exiting
  /\ BecomesByFault(i, [inst[i] EXCEPT !.exiting = FALSE, !.live = FALSE, !.lost = TRUE])

(* stopInstance.                                                           *)
Stop(i, s) ==
  /\ Running /\ s \in Callers /\ inst[i].live /\ inst[i].stop[s].at = "no"
  /\ Becomes(i, BeginStop(inst[i], s))

StopDisconnected(i, s) ==
  LET x == inst[i]
  IN /\ Running /\ x.stop[s].at = "disconnecting"
     /\ Becomes(i, Dispose([x EXCEPT !.record.pi = FALSE, !.known = FALSE],
                           s, x.stop[s].proc))

\* The clean-up throws before the child is disposed of.  A shutdown() that
\* throws rejects shutdownPromise, and the handler of the unhandled rejection
\* awaits that promise again, for ever.
StopDisconnectFails(i, s) ==
  /\ Running /\ inst[i].stop[s].at = "disconnecting"
  /\ faults < MaxFaults /\ faults' = faults + 1
  /\ inst' = [inst EXCEPT ![i] = [StopDone(@, s) EXCEPT !.lost = TRUE]]
  /\ mode' = IF s = Main THEN "stuck" ELSE mode
  /\ UNCHANGED <<closing, todo, unlisted, snapshot, recovering, crashes, forgets>>

(* handleRpc and the handle of openRpcStream, for a command after which    *)
(* the session's state is asked for.  The handle outlives the instance.    *)
RpcSend(i) ==
  /\ Running /\ Alive(inst[i]) /\ inst[i].rpc = "none" /\ inst[i].record # NoRecord
  /\ Becomes(i, [inst[i] EXCEPT !.rpc = "command"])

RpcAnswered(i) ==
  /\ Running /\ Alive(inst[i]) /\ inst[i].rpc = "command"
  /\ Becomes(i, IF inst[i].proc THEN [inst[i] EXCEPT !.rpc = "state"]
                ELSE Upsert([inst[i] EXCEPT !.rpc = "none"]))

RpcRefreshed(i) ==
  /\ Running /\ Alive(inst[i]) /\ inst[i].rpc = "state"
  /\ Becomes(i, Upsert([inst[i] EXCEPT !.rpc = "none"]))

-----------------------------------------------------------------------------
(* heartbeatPi.                                                            *)
BeatStart(i) ==
  /\ Running /\ inst[i].entry /\ inst[i].beat = "idle"
  /\ Becomes(i, [inst[i] EXCEPT !.beat = "posting"])

BeatOk(i) ==
  /\ Running /\ inst[i].beat = "posting" /\ inst[i].known
  /\ Becomes(i, [inst[i] EXCEPT !.beat = "idle", !.missed = 0])

BeatFails(i) ==
  /\ Running /\ inst[i].beat = "posting"
  /\ BecomesByFault(i, [inst[i] EXCEPT !.beat = "idle"])

\* Mutant: the count starts again with every answer.
NotFoundOnce(x) == [x EXCEPT !.beat = "idle", !.missed = 1]

\* Radius does not know the Pi: the third time in a row it is registered
\* again, unless it is not live any more (reRegisterPi up to its await).
NotFound(x) ==
  LET y == [x EXCEPT !.missed = IF @ < NotFoundThreshold THEN @ + 1 ELSE @]
  IN CASE y.missed < NotFoundThreshold -> [y EXCEPT !.beat = "idle"]
       [] y.missed = NotFoundThreshold /\ y.live
            -> [y EXCEPT !.beat = "registering", !.clone = y.record]
       [] OTHER -> [y EXCEPT !.beat = "idle", !.entry = FALSE]

BeatNotFound(i) ==
  /\ Running /\ inst[i].beat = "posting" /\ ~inst[i].known
  /\ Becomes(i, NotFound(inst[i]))

\* registerPi and updateInstance, with the record as it was before.
ReRegister(x) ==
  LET r == [x.clone EXCEPT !.pi = TRUE]
      y == [x EXCEPT !.entry = TRUE, !.missed = 0, !.known = TRUE, !.beat = "idle",
                     !.clone = NoRecord, !.file = r,
                     !.late = @ \/ ~x.live \/ x.record.status # "online"]
  IN IF x.live THEN [y EXCEPT !.record = r] ELSE y

ReRegistered(i) ==
  /\ Running /\ inst[i].beat = "registering"
  /\ Becomes(i, ReRegister(inst[i]))

ReRegisterFails(i) ==
  /\ Running /\ inst[i].beat = "registering"
  /\ BecomesByFault(i, [inst[i] EXCEPT !.beat = "idle", !.clone = NoRecord])

\* Radius: it forgets a registration.
Forget(i) ==
  /\ inst[i].known /\ forgets < MaxForgets
  /\ forgets' = forgets + 1
  /\ inst' = [inst EXCEPT ![i].known = FALSE]
  /\ UNCHANGED <<daemon, unlisted, faults>>

-----------------------------------------------------------------------------
(* serve(): signals, shutdown, crash, restart.                             *)
Signal ==
  /\ mode = "up" /\ ~closing
  /\ closing' = TRUE
  /\ todo' = {i \in Instances : inst[i].live}
  /\ UNCHANGED <<inst, mode, unlisted, snapshot, recovering, faults, forgets, crashes>>

\* Mutant: shutdown() does not await stopInstance.
MainNeverWaits == TRUE

MainIdle == \A i \in Instances : inst[i].stop[Main].at = "no"

\* shutdown() stops one instance after the other; which is next does not matter.
ShutdownStop(i) ==
  /\ Running /\ closing /\ i \in todo /\ MainIdle
  /\ todo' = todo \ {i}
  /\ inst' = IF inst[i].live THEN [inst EXCEPT ![i] = BeginStop(@, Main)] ELSE inst
  /\ UNCHANGED <<mode, closing, unlisted, snapshot, recovering, faults, forgets, crashes>>

\* radiusPresence.stop() and process.exit().
ShutdownEnds ==
  /\ Running /\ closing /\ todo = {} /\ MainIdle
  /\ mode' = "exited"
  /\ inst' = [i \in Instances |-> Forgotten(inst[i])]
  /\ UNCHANGED <<closing, todo, unlisted, snapshot, recovering, faults, forgets, crashes>>

\* The machine cannot be disconnected: shutdown() throws.
ShutdownFails ==
  /\ Running /\ Radius /\ closing /\ todo = {} /\ MainIdle
  /\ faults < MaxFaults /\ faults' = faults + 1
  /\ mode' = "stuck"
  /\ UNCHANGED <<inst, closing, todo, unlisted, snapshot, recovering, forgets, crashes>>

Down ==
  /\ mode' = "down" /\ closing' = FALSE /\ todo' = {} /\ unlisted' = {} /\ recovering' = {}
  /\ inst' = [i \in Instances |-> Forgotten(inst[i])]
  /\ snapshot' = [i \in Instances |-> NoRecord]

Crash ==
  /\ Running /\ crashes < MaxCrashes
  /\ crashes' = crashes + 1
  /\ Down
  /\ UNCHANGED <<faults, forgets>>

\* Mutant: the statuses are corrected, but Radius is not told.
NobodyToDisconnect == {}

\* recoverAfterRestart: the records with a Pi are disconnected one by one,
\* and then everything that was read is saved, corrected.
ToDisconnect == {i \in Instances : Radius /\ inst[i].file.pi}

\* Mutant: an instance that was starting is left alone.
RecoveredOnline(r) == IF r.status = "online" THEN [r EXCEPT !.status = "stopped"] ELSE r

Recovered(r) ==
  IF r.status \in {"online", "starting"} THEN [r EXCEPT !.status = "stopped"] ELSE r

\* saveInstances(instances) ends recovery when nobody is left.
Recovery(left, saved, x) ==
  /\ recovering' = left
  /\ IF left # {} THEN mode' = "recovering" /\ inst' = x /\ snapshot' = saved
     ELSE /\ mode' = "up"
          /\ inst' = [i \in Instances |-> [x[i] EXCEPT !.file = saved[i]]]
          /\ snapshot' = [i \in Instances |-> NoRecord]

Restart ==
  /\ mode = "down"
  /\ Recovery(ToDisconnect, [i \in Instances |-> Recovered(inst[i].file)], inst)
  /\ UNCHANGED <<closing, todo, unlisted, faults, forgets, crashes>>

RecoverOne(i) ==
  /\ mode = "recovering" /\ i \in recovering
  /\ Recovery(recovering \ {i}, snapshot, [inst EXCEPT ![i].known = FALSE])
  /\ UNCHANGED <<closing, todo, unlisted, faults, forgets, crashes>>

\* serve() throws, and the process ends.
RecoverFails ==
  /\ mode = "recovering"
  /\ faults < MaxFaults /\ faults' = faults + 1
  /\ Down
  /\ UNCHANGED <<forgets, crashes>>

-----------------------------------------------------------------------------
SpawnSteps(i) ==
  \/ StateAnswered(i) \/ WriteFails(i) \/ RegisterOk(i) \/ RegisterFails(i)
ExitSteps(i) == ExitHandled(i) \/ ExitUnhandled(i)
StopSteps(i, s) == StopDisconnected(i, s) \/ StopDisconnectFails(i, s)
BeatSteps(i) ==
  \/ BeatStart(i) \/ BeatOk(i) \/ BeatFails(i) \/ BeatNotFound(i)
  \/ ReRegistered(i) \/ ReRegisterFails(i)
RpcSteps(i) == RpcSend(i) \/ RpcAnswered(i) \/ RpcRefreshed(i)
ShutdownSteps == (\E i \in Instances : ShutdownStop(i)) \/ ShutdownEnds \/ ShutdownFails
RecoverySteps == (\E i \in Instances : RecoverOne(i)) \/ RecoverFails

Next ==
  \/ \E i \in Instances :
       \/ Spawn(i) \/ SpawnThrows(i) \/ SpawnSteps(i)
       \/ ChildExits(i) \/ ExitSteps(i) \/ RpcSteps(i)
       \/ BeatSteps(i) \/ Forget(i)
       \/ \E s \in Stoppers : Stop(i, s) \/ StopSteps(i, s)
  \/ Signal \/ ShutdownSteps \/ Crash \/ Restart \/ RecoverySteps

Spec == Init /\ [][Next]_vars

\* What was asked for is answered; a child that got SIGTERM, or whose stdin
\* has ended, ends.
Fairness ==
  /\ \A i \in Instances :
       /\ WF_vars(SpawnSteps(i)) /\ WF_vars(ExitSteps(i)) /\ WF_vars(BeatSteps(i))
       /\ WF_vars(ChildExits(i) /\ inst[i].child = "term")
       /\ \A s \in Stoppers : WF_vars(StopSteps(i, s))
  /\ WF_vars(ShutdownSteps) /\ WF_vars(RecoverySteps)

FairSpec == Spec /\ Fairness

-----------------------------------------------------------------------------
TypeOK ==
  /\ inst \in [Instances -> Instance]
  /\ mode \in {"recovering", "up", "down", "exited", "stuck"}
  /\ closing \in BOOLEAN /\ todo \subseteq Instances /\ unlisted \subseteq Instances
  /\ snapshot \in [Instances -> Records] /\ recovering \subseteq Instances
  /\ faults \in 0..MaxFaults /\ forgets \in 0..MaxForgets
  /\ crashes \in 0..MaxCrashes

\* Somebody has taken it on to end the child of x: the instance that still
\* has it, a spawn or a stop that disposes of it, a stop that will.
Tended(x) ==
  \/ x.live /\ x.proc
  \/ x.child = "term"
  \/ \E s \in Stoppers : x.stop[s].at = "disconnecting" /\ x.stop[s].proc

\* No agent process is left running that the orchestrator has forgotten,
\* through failing spawns, exits and overlapping stops, unless Radius refused
\* to disconnect it: that failure ends the clean-up before its process.
NoOrphans ==
  \A i \in Instances :
    Running /\ inst[i].child = "running" => Tended(inst[i]) \/ inst[i].lost

\* instances.json says of a live instance what the supervisor knows, and
\* calls no other instance starting or online, whatever order a stop, an
\* exit, a failing spawn, an RPC and a restart come in; except for the
\* registrations that are answered after the end, and the records a recovery
\* overwrites because the server already takes requests.
RecordsMatchLive ==
  \A i \in Instances : LET x == inst[i] IN
    /\ mode = "up" /\ x.live /\ ~x.early => x.file.status = x.record.status
    /\ mode = "up" /\ x.file.status \in {"starting", "online"} => x.live \/ x.late

\* A heartbeat is kept for live instances only: stop, exit, failure and
\* shutdown all end it, while a beat may be in flight.
HeartbeatsAreLive ==
  \A i \in Instances : inst[i].entry => inst[i].live \/ inst[i].late

\* Radius lists no ended instance: every end disconnects it, and what a
\* crash left is disconnected by the recovery, unless an earlier recovery has
\* overwritten its record.
RadiusForgetsEnded ==
  \A i \in Instances : LET x == inst[i] IN
    mode = "up" /\ x.known =>
      \/ x.live \/ x.late \/ x.lost \/ x.early
      \/ x.exiting \/ \E s \in Stoppers : x.stop[s].at = "disconnecting"

\* What Radius and the heartbeats say of an instance ends with it.
PresenceEnds == HeartbeatsAreLive /\ RadiusForgetsEnded

\* After an orderly shutdown no record of a running instance is left, and
\* Radius lists none, but for what a recovery has overwritten, and for the
\* instances a connection that was still open has spawned after shutdown()
\* listed those it stops: nothing stops them.
ShutdownIsClean ==
  mode = "exited" =>
    \A i \in Instances : LET x == inst[i] IN
      x.late \/ x.lost \/ i \in unlisted \/
        /\ x.known => x.early
        /\ x.file.status \notin {"starting", "online"}

\* What is on file is true, also of what came before a restart or a shutdown.
RecordsAreTrue == RecordsMatchLive /\ ShutdownIsClean

\* Every stop returns: also the second one of an instance, and the one that
\* meets an exit, a spawn or a failure.
StopReturns ==
  \A i \in Instances : \A s \in Stoppers :
    inst[i].stop[s].at # "no" ~> inst[i].stop[s].at = "no" \/ mode = "stuck"

\* Every registration ends, and the spawn with it.
SpawnSettles ==
  \A i \in Instances :
    inst[i].spawn \in {"starting", "registering", "disposing"}
      ~> inst[i].spawn \in {"online", "failed"} \/ mode = "stuck"

\* Both: whatever overlaps, no caller waits for ever.
CallersReturn == StopReturns /\ SpawnSettles

\* An online instance Radius has forgotten is registered again.
ForgottenIsRegisteredAgain ==
  \A i \in Instances :
    inst[i].record = [status |-> "online", pi |-> TRUE] /\ inst[i].live /\ ~inst[i].known
      ~> inst[i].known \/ ~inst[i].live \/ inst[i].record.status # "online" \/ mode = "stuck"
=============================================================================
