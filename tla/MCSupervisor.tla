---------------------------- MODULE MCSupervisor ----------------------------
(* Model-checking instances of Supervisor.tla. *)
EXTENDS Supervisor, TLC

Symmetry == Permutations(Instances)

-----------------------------------------------------------------------------
(* What the excuses of the properties stand for; none of it is promised by *)
(* the code, and the configurations that check it find it violated.        *)

\* No heartbeat outlives its instance, registrations answered late included.
NoZombieHeartbeat == \A i \in Instances : inst[i].entry => inst[i].live

\* A stop whose disconnect fails ends the process all the same.
NoOrphansAtAll ==
  \A i \in Instances : Running /\ inst[i].child = "running" => Tended(inst[i])

\* Radius forgets every ended instance, also the ones spawned while a recovery
\* was under way: it saves what it read before they were there, and the next
\* restart does not know of them.
RegistrationsEnd ==
  \A i \in Instances : LET x == inst[i] IN
    mode = "up" /\ x.known =>
      \/ x.live \/ x.late \/ x.lost
      \/ x.exiting \/ \E s \in Stoppers : x.stop[s].at = "disconnecting"

\* After an orderly shutdown nothing is on file as running, the instances spawned
\* while shutdown() was under way included.
NothingLeftRunning ==
  mode = "exited" =>
    \A i \in Instances : inst[i].file.status \notin {"starting", "online"} \/ inst[i].late \/ inst[i].lost

\* A signal ends the orchestrator.
SignalEnds == closing ~> mode \in {"exited", "down"}
=============================================================================
