-------------------------- MODULE Supervisors_proofs ------------------------
(***************************************************************************)
(* Of the two servers that own agents: the safety properties of the        *)
(* orchestrator (Supervisor.tla), for any number of instances, callers,    *)
(* faults, forgotten registrations and crashes; and that a thread of the   *)
(* cockpit (Cockpit.tla) has one live session at a time, however its opens *)
(* overlap with each other, with deletions and with restarts of the        *)
(* server, and that the browser comes to show it as it is, whatever the    *)
(* bounds are.                                                             *)
(***************************************************************************)
EXTENDS Supervisor, Cockpit, SequenceTheorems, WellFoundedInduction, NaturalsInduction, TLAPS

-----------------------------------------------------------------------------
(* The orchestrator.                                                       *)

Claimed == {"starting", "online"}

NoStops(x) == \A s \in Stoppers : x.stop[s].at = "no"

\* What an orchestrator that has ended leaves in memory of an instance.
Inert(x) ==
  /\ ~x.live /\ ~x.proc /\ ~x.bound /\ ~x.exiting /\ ~x.entry
  /\ x.record = NoRecord /\ x.beat = "idle" /\ x.rpc = "none"
  /\ x.spawn \in {"none", "failed"} /\ x.child # "running" /\ NoStops(x)

\* Who ends the child: a stop that found no process leaves none behind.
Children(x) ==
  /\ x.child = "running" => Tended(x) \/ x.lost
  /\ \A s \in Stoppers : x.stop[s].at = "disconnecting" /\ ~x.stop[s].proc => ~x.proc
  /\ x.exiting => x.child = "exited"
  /\ x.spawn = "none" => Inert(x) /\ x.child = "none" /\ ~x.known

\* How far a spawn has come when there is a registration to speak of.
Spawning(x) ==
  /\ x.spawn = "starting" /\ x.child = "running"
       => x.live /\ x.proc /\ ~x.exiting /\ NoStops(x)
  /\ x.record.pi => x.spawn = "online"
  /\ x.entry \/ x.beat # "idle" => x.spawn = "online"
  /\ x.known => x.spawn \in {"online", "failed"}
  /\ x.spawn = "registering" \/ x.entry \/ x.beat # "idle" \/ x.known => Radius
  /\ x.beat = "registering" /\ x.record.status = "online" => x.clone.status = "online"

\* What is called starting or online is not being ended; a heartbeat is of a
\* registered instance.
Claims(x) ==
  ~x.late =>
    /\ x.record.status \in Claimed => x.live /\ ~x.exiting /\ NoStops(x)
    /\ x.entry => x.record = [status |-> "online", pi |-> TRUE]
    /\ \A s \in Stoppers : x.stop[s].at = "disposing" => ~x.record.pi

\* Radius lists only what is live and on file.
Listed(x) ==
  x.known /\ ~x.late /\ ~x.lost /\ ~x.early => x.live /\ x.record.pi /\ x.file.pi

\* The file says of a live instance what the orchestrator knows, and calls
\* nothing else starting or online.
OnFile(x, m) ==
  /\ x.live /\ ~x.early => x.file.status = x.record.status
  /\ m = "up" /\ ~x.late /\ x.file.status \in Claimed => x.record.status = x.file.status

Fields == {"record", "file", "live", "proc", "bound", "child", "spawn", "exiting", "stop",
           "rpc", "entry", "beat", "missed", "clone", "known", "early", "late", "lost"}
Shaped(x) == x = [f \in Fields |-> x[f]]

Statuses == {"none", "starting", "online", "stopping", "stopped", "error"}
IsRecord(r) == r = [status |-> r.status, pi |-> r.pi] /\ r.status \in Statuses /\ r.pi \in BOOLEAN
Typed(x) ==
  /\ IsRecord(x.record) /\ IsRecord(x.file) /\ IsRecord(x.clone)
  /\ x.live \in BOOLEAN /\ x.proc \in BOOLEAN /\ x.bound \in BOOLEAN
  /\ x.child \in {"none", "running", "term", "exited"}
  /\ x.spawn \in {"none", "starting", "registering", "disposing", "online", "failed"}
  /\ x.exiting \in BOOLEAN
  /\ x.stop \in [Stoppers -> [at : {"no", "disconnecting", "disposing"}, proc : BOOLEAN]]
  /\ x.rpc \in {"none", "command", "state"}
  /\ x.entry \in BOOLEAN /\ x.beat \in {"idle", "posting", "registering"}
  /\ x.missed \in 0..NotFoundThreshold
  /\ x.known \in BOOLEAN /\ x.early \in BOOLEAN /\ x.late \in BOOLEAN /\ x.lost \in BOOLEAN

LEMMA InstanceFacts == \A x : x \in Instance <=> Shaped(x) /\ Typed(x)
  <1> SUFFICES ASSUME NEW x PROVE x \in Instance <=> Shaped(x) /\ Typed(x)
    OBVIOUS
  <1>0. \A r : r \in Records <=> IsRecord(r)
    BY DEF Records, IsRecord, Statuses
  <1>1. ASSUME x \in Instance PROVE Shaped(x)
    BY <1>1 DEF Instance, Shaped, Fields
  <1>2. ASSUME x \in Instance PROVE Typed(x)
    BY <1>2, <1>0 DEF Instance, Typed
  <1>3. ASSUME Shaped(x), Typed(x) PROVE x \in Instance
    <2>1. x = [record |-> x.record, file |-> x.file, live |-> x.live, proc |-> x.proc,
               bound |-> x.bound, child |-> x.child, spawn |-> x.spawn, exiting |-> x.exiting,
               stop |-> x.stop, rpc |-> x.rpc, entry |-> x.entry, beat |-> x.beat,
               missed |-> x.missed, clone |-> x.clone, known |-> x.known,
               early |-> x.early, late |-> x.late, lost |-> x.lost]
      BY <1>3 DEF Shaped, Fields
    <2> QED BY <2>1, <1>3, <1>0 DEF Typed, Instance
  <1> QED BY <1>1, <1>2, <1>3

\* All of it, of an instance under an orchestrator in mode m.
Fit(x, m) ==
  /\ Shaped(x) /\ Typed(x)
  /\ Children(x) /\ Spawning(x) /\ Claims(x) /\ OnFile(x, m)
  /\ m = "up" => Listed(x)

\* What a step of x to y may not do to a shutdown that has begun.
Stays(x, y) ==
  /\ y.early = x.early
  /\ y.live => x.live /\ (x.stop[Main].at # "no" => y.stop[Main].at # "no")

LEMMA Extensional ==
  ASSUME NEW x, NEW y, Shaped(x), Shaped(y), \A f \in Fields : x[f] = y[f]
  PROVE  x = y
  BY Zenon DEF Shaped

\* The record of x with another status.
WithStatus(x, s) == [status |-> s, pi |-> x.record.pi]

LEMMA RecordWith ==
  ASSUME NEW r, IsRecord(r), NEW s, NEW p
  PROVE  /\ [r EXCEPT !.status = s] = [status |-> s, pi |-> r.pi]
         /\ [r EXCEPT !.pi = p] = [status |-> r.status, pi |-> p]
  BY DEF IsRecord

LEMMA SetStatusIs ==
  ASSUME NEW x, Shaped(x), IsRecord(x.record), NEW s
  PROVE  SetStatus(x, s) = [x EXCEPT !.record = WithStatus(x, s), !.file = WithStatus(x, s)]
  <1> DEFINE y == [x EXCEPT !.record = WithStatus(x, s), !.file = WithStatus(x, s)]
  <1>1. Shaped(SetStatus(x, s)) BY Zenon DEF Shaped, SetStatus, Upsert
  <1>2. Shaped(y) BY Zenon DEF Shaped
  <1>3. [x.record EXCEPT !.status = s] = WithStatus(x, s)
    BY RecordWith DEF WithStatus
  <1>4. \A f \in Fields : SetStatus(x, s)[f] = y[f]
    BY <1>3 DEF SetStatus, Upsert, Shaped, Fields
  <1> QED BY <1>1, <1>2, <1>4, Extensional

LEMMA SetPiIs ==
  ASSUME NEW x, Shaped(x), IsRecord(x.record), NEW p
  PROVE  LET r == [status |-> x.record.status, pi |-> p]
         IN SetPi(x, p) = [x EXCEPT !.record = r, !.file = r]
  <1> DEFINE r == [status |-> x.record.status, pi |-> p]
             y == [x EXCEPT !.record = r, !.file = r]
  <1>1. Shaped(SetPi(x, p)) BY Zenon DEF Shaped, SetPi, Upsert
  <1>2. Shaped(y) BY Zenon DEF Shaped
  <1>3. [x.record EXCEPT !.pi = p] = r
    BY RecordWith
  <1>4. \A f \in Fields : SetPi(x, p)[f] = y[f]
    BY <1>3 DEF SetPi, Upsert, Shaped, Fields
  <1> QED BY <1>1, <1>2, <1>4, Extensional

LEMMA SpawnFailedIs ==
  ASSUME NEW x, Shaped(x), IsRecord(x.record)
  PROVE  SpawnFailed(x) = [x EXCEPT !.record = WithStatus(x, "stopped"), !.file = WithStatus(x, "stopped"),
                             !.live = FALSE, !.spawn = "failed"]
  <1> DEFINE y == [x EXCEPT !.record = WithStatus(x, "stopped"), !.file = WithStatus(x, "stopped"),
                             !.live = FALSE, !.spawn = "failed"]
             z == [x EXCEPT !.record = WithStatus(x, "stopped"), !.file = WithStatus(x, "stopped")]
  <1>0. SpawnFailed(x) = [z EXCEPT !.live = FALSE, !.spawn = "failed"]
    BY SetStatusIs, Zenon DEF SpawnFailed
  <1>1. Shaped(z) BY Zenon DEF Shaped
  <1>2. Shaped([z EXCEPT !.live = FALSE, !.spawn = "failed"]) BY <1>1, Zenon DEF Shaped
  <1>3. Shaped(y) BY Zenon DEF Shaped
  <1>4. \A f \in Fields : SpawnFailed(x)[f] = y[f]
    BY <1>0 DEF Shaped, Fields
  <1> QED BY <1>0, <1>2, <1>3, <1>4, Extensional

LEMMA FailSpawnIs ==
  ASSUME NEW x, Shaped(x), IsRecord(x.record)
  PROVE  FailSpawn(x) =
           IF x.proc /\ x.child # "exited"
           THEN [x EXCEPT !.record = WithStatus(x, "error"), !.file = WithStatus(x, "error"),
                   !.bound = FALSE, !.proc = FALSE, !.rpc = "none", !.child = "term", !.spawn = "disposing"]
           ELSE [x EXCEPT !.record = WithStatus(x, "stopped"), !.file = WithStatus(x, "stopped"),
                   !.bound = FALSE, !.proc = FALSE, !.live = FALSE, !.spawn = "failed"]
  <1> DEFINE e == WithStatus(x, "error")
             z == [x EXCEPT !.record = e, !.file = e]
             y == [z EXCEPT !.bound = FALSE]
             a == [y EXCEPT !.proc = FALSE, !.rpc = "none", !.child = "term", !.spawn = "disposing"]
             b == [y EXCEPT !.proc = FALSE]
             c == [b EXCEPT !.record = WithStatus(x, "stopped"), !.file = WithStatus(x, "stopped"),
                            !.live = FALSE, !.spawn = "failed"]
             a1 == [x EXCEPT !.record = WithStatus(x, "error"), !.file = WithStatus(x, "error"),
                   !.bound = FALSE, !.proc = FALSE, !.rpc = "none", !.child = "term", !.spawn = "disposing"]
             c1 == [x EXCEPT !.record = WithStatus(x, "stopped"), !.file = WithStatus(x, "stopped"),
                   !.bound = FALSE, !.proc = FALSE, !.live = FALSE, !.spawn = "failed"]
  <1>1. y = [SetStatus(x, "error") EXCEPT !.bound = FALSE]
    BY SetStatusIs, Zenon
  <1>2. Shaped(z) BY Zenon DEF Shaped
  <1>3. Shaped(y) BY <1>2, Zenon DEF Shaped
  <1>4. y.proc = x.proc /\ y.child = x.child BY DEF Shaped, Fields
  <1>5. Shaped(b) /\ IsRecord(b.record) /\ WithStatus(b, "stopped") = WithStatus(x, "stopped")
    <2>1. Shaped(b) BY <1>3, Zenon DEF Shaped
    <2> QED BY <2>1 DEF Shaped, Fields, WithStatus, IsRecord, Statuses
  <1>6. FailSpawn(x) = IF x.proc /\ x.child # "exited" THEN a ELSE SpawnFailed(b)
    BY <1>1, <1>4, Zenon DEF FailSpawn
  <1>7. SpawnFailed(b) = c
    BY <1>5, SpawnFailedIs, Zenon
  <1>8. Shaped(a) /\ Shaped(a1) /\ Shaped(c) /\ Shaped(c1) BY <1>3, <1>5, Zenon DEF Shaped
  <1>9. a = a1
    <2>1. \A f \in Fields : a[f] = a1[f] BY DEF Shaped, Fields
    <2> QED BY <2>1, <1>8, Extensional
  <1>10. c = c1
    <2>1. \A f \in Fields : c[f] = c1[f] BY DEF Shaped, Fields
    <2> QED BY <2>1, <1>8, Extensional
  <1> QED BY <1>6, <1>7, <1>9, <1>10, Zenon


LEMMA FailSpawnFits ==
  ASSUME NEW x, NEW m \in {"up", "recovering"}, Fit(x, m), x.spawn \in {"starting", "registering"}
  PROVE  Fit(FailSpawn(x), m) /\ Stays(x, FailSpawn(x))
  <1>0. Shaped(x) /\ IsRecord(x.record)
    BY DEF Fit, Typed
  <1>1. CASE x.proc /\ x.child # "exited"
    <2> DEFINE y == [x EXCEPT !.record = WithStatus(x, "error"), !.file = WithStatus(x, "error"), !.bound = FALSE,
                     !.proc = FALSE, !.rpc = "none", !.child = "term", !.spawn = "disposing"]
    <2>1. FailSpawn(x) = y
      BY <1>0, <1>1, FailSpawnIs, Zenon
    <2>2. Shaped(y)
      BY Zenon DEF Fit, Shaped
    <2>3. Typed(y)
      BY <1>1 DEF Fit, Shaped, Fields, Typed, IsRecord, Statuses, WithStatus
    <2>4. Children(y) /\ Spawning(y) /\ Claims(y)
      BY <1>1 DEF Fit, Shaped, Fields, WithStatus, Children, Tended, Inert, NoStops,
           Spawning, Claims, Claimed
    <2>5. OnFile(y, m) /\ (m = "up" => Listed(y)) /\ Stays(x, y)
      BY <1>1 DEF Fit, Shaped, Fields, WithStatus, Children, Inert, Spawning, Claims, Claimed,
           OnFile, Listed, Stays
    <2> HIDE DEF y
    <2> QED
      BY <2>1, <2>2, <2>3, <2>4, <2>5 DEF Fit
  <1>2. CASE ~(x.proc /\ x.child # "exited")
    <2> DEFINE y == [x EXCEPT !.record = WithStatus(x, "stopped"), !.file = WithStatus(x, "stopped"), !.bound = FALSE,
                     !.proc = FALSE, !.live = FALSE, !.spawn = "failed"]
    <2>1. FailSpawn(x) = y
      BY <1>0, <1>2, FailSpawnIs, Zenon
    <2>2. Shaped(y)
      BY Zenon DEF Fit, Shaped
    <2>3. Typed(y)
      BY <1>2 DEF Fit, Shaped, Fields, Typed, IsRecord, Statuses, WithStatus
    <2>4. Children(y) /\ Spawning(y) /\ Claims(y)
      BY <1>2 DEF Fit, Shaped, Fields, WithStatus, Children, Tended, Inert, NoStops,
           Spawning, Claims, Claimed
    <2>5. OnFile(y, m) /\ (m = "up" => Listed(y)) /\ Stays(x, y)
      BY <1>2 DEF Fit, Shaped, Fields, WithStatus, Children, Inert, Spawning, Claims, Claimed,
           OnFile, Listed, Stays
    <2> HIDE DEF y
    <2> QED
      BY <2>1, <2>2, <2>3, <2>4, <2>5 DEF Fit
  <1> QED BY <1>1, <1>2

LEMMA StateAnsweredFits ==
  ASSUME NEW x, NEW m \in {"up", "recovering"}, Fit(x, m), x.spawn = "starting", x.child = "running"
  PROVE  LET y == IF Radius THEN [Upsert(x) EXCEPT !.spawn = "registering"]
                  ELSE [SetStatus(Upsert(x), "online") EXCEPT !.spawn = "online"]
         IN Fit(y, m) /\ Stays(x, y)
  <1>1. CASE Radius
    <2> DEFINE y == [x EXCEPT !.file = x.record, !.spawn = "registering"]
    <2>1. [Upsert(x) EXCEPT !.spawn = "registering"] = y
      BY SMT DEF Upsert
    <2>2. Shaped(y)
      BY Zenon DEF Fit, Shaped
    <2>3. Typed(y)
      BY <1>1 DEF Fit, Shaped, Fields, Typed, IsRecord, Statuses, WithStatus
    <2>4. Children(y) /\ Spawning(y) /\ Claims(y)
      BY <1>1 DEF Fit, Shaped, Fields, WithStatus, Children, Tended, Inert, NoStops,
           Spawning, Claims, Claimed
    <2>5. OnFile(y, m) /\ (m = "up" => Listed(y)) /\ Stays(x, y)
      BY <1>1 DEF Fit, Shaped, Fields, WithStatus, Children, Inert, Spawning, Claims, Claimed,
           OnFile, Listed, Stays
    <2> HIDE DEF y
    <2> QED
      BY <1>1, <2>1, <2>2, <2>3, <2>4, <2>5 DEF Fit
  <1>2. CASE ~Radius
    <2> DEFINE u == Upsert(x)
    <2>a. Shaped(u)
      BY Zenon DEF Upsert, Fit, Shaped
    <2>b. IsRecord(u.record) /\ WithStatus(u, "online") = WithStatus(x, "online")
      BY DEF Upsert, Fit, Typed, Shaped, Fields, IsRecord, Statuses, WithStatus
    <2>c. SetStatus(u, "online") = [u EXCEPT !.record = WithStatus(x, "online"), !.file = WithStatus(x, "online")]
      BY <2>a, <2>b, SetStatusIs, Zenon
    <2> DEFINE y == [x EXCEPT !.record = WithStatus(x, "online"), !.file = WithStatus(x, "online"), !.spawn = "online"]
    <2>1. [SetStatus(u, "online") EXCEPT !.spawn = "online"] = y
      BY <2>c, Extensional DEF Upsert, Fit, Shaped, Fields
    <2>2. Shaped(y)
      BY Zenon DEF Fit, Shaped
    <2>3. Typed(y)
      BY <1>2 DEF Fit, Shaped, Fields, Typed, IsRecord, Statuses, WithStatus
    <2>4. Children(y) /\ Spawning(y) /\ Claims(y)
      BY <1>2 DEF Fit, Shaped, Fields, WithStatus, Children, Tended, Inert, NoStops,
           Spawning, Claims, Claimed
    <2>5. OnFile(y, m) /\ (m = "up" => Listed(y)) /\ Stays(x, y)
      BY <1>2 DEF Fit, Shaped, Fields, WithStatus, Children, Inert, Spawning, Claims, Claimed,
           OnFile, Listed, Stays
    <2> HIDE DEF y
    <2> QED
      BY <1>2, <2>1, <2>2, <2>3, <2>4, <2>5 DEF Fit
  <1> QED BY <1>1, <1>2

LEMMA RegisterOkFits ==
  ASSUME NEW x, NEW m \in {"up", "recovering"}, Fit(x, m), x.spawn = "registering",
         NEW late \in BOOLEAN, ~late => ~x.late /\ x.record.status = "starting"
  PROVE  LET u == [SetPi(x, TRUE) EXCEPT !.entry = TRUE, !.missed = 0, !.known = TRUE]
             y == [SetStatus(u, "online") EXCEPT !.spawn = "online", !.late = late]
         IN Fit(y, m) /\ Stays(x, y)
  <1> DEFINE r == [status |-> "online", pi |-> TRUE]
             q == [status |-> x.record.status, pi |-> TRUE]
             u == [SetPi(x, TRUE) EXCEPT !.entry = TRUE, !.missed = 0, !.known = TRUE]
             v == [x EXCEPT !.record = q, !.file = q, !.entry = TRUE, !.missed = 0, !.known = TRUE]
  <1>a. u = v
    BY SetPiIs DEF Fit, Typed
  <1>b. Shaped(v)
    BY Zenon DEF Fit, Shaped
  <1>c. IsRecord(v.record) /\ WithStatus(v, "online") = r
    BY DEF Fit, Typed, Shaped, Fields, IsRecord, Statuses, WithStatus
  <1>d. SetStatus(u, "online") = [v EXCEPT !.record = r, !.file = r]
    <2> HIDE DEF u, v, r
    <2> QED BY <1>a, <1>b, <1>c, SetStatusIs, Zenon
  <1>e. 0 \in 0..NotFoundThreshold
    BY SupervisorAssumption
  <1> DEFINE y == [x EXCEPT !.record = r, !.file = r, !.entry = TRUE, !.missed = 0, !.known = TRUE,
                   !.spawn = "online", !.late = late]
  <1>1. [SetStatus(u, "online") EXCEPT !.spawn = "online", !.late = late] = y
    BY <1>d, Extensional DEF Fit, Shaped, Fields
  <1>2. Shaped(y)
    BY Zenon DEF Fit, Shaped
  <1>3. Typed(y)
    BY <1>e DEF Fit, Shaped, Fields, Typed, IsRecord, Statuses, WithStatus
  <1>4. Children(y) /\ Spawning(y) /\ Claims(y)
    BY <1>e DEF Fit, Shaped, Fields, WithStatus, Children, Tended, Inert, NoStops,
         Spawning, Claims, Claimed
  <1>5. OnFile(y, m) /\ (m = "up" => Listed(y)) /\ Stays(x, y)
    BY <1>e DEF Fit, Shaped, Fields, WithStatus, Children, Inert, Spawning, Claims, Claimed,
         OnFile, Listed, Stays
  <1> HIDE DEF y
  <1> QED
    BY <1>1, <1>2, <1>3, <1>4, <1>5 DEF Fit

LEMMA ChildFits ==
  ASSUME NEW x, NEW m \in {"up", "recovering"}, Fit(x, m), Alive(x)
  PROVE  Fit([x EXCEPT !.child = "exited"], m) /\ Stays(x, [x EXCEPT !.child = "exited"])
  <1> DEFINE y == [x EXCEPT !.child = "exited"]
  <1>1. [x EXCEPT !.child = "exited"] = y
    OBVIOUS
  <1>0. x.spawn # "none"
    BY DEF Alive, Fit, Children
  <1>2. Shaped(y)
    BY Zenon DEF Fit, Shaped
  <1>3. Typed(y)
    BY <1>0 DEF Fit, Shaped, Fields, Typed, IsRecord, Statuses, WithStatus
  <1>4. Children(y) /\ Spawning(y) /\ Claims(y)
    BY <1>0 DEF Fit, Shaped, Fields, WithStatus, Children, Tended, Inert, NoStops,
         Spawning, Claims, Claimed
  <1>5. OnFile(y, m) /\ (m = "up" => Listed(y)) /\ Stays(x, y)
    BY <1>0 DEF Fit, Shaped, Fields, WithStatus, Children, Inert, Spawning, Claims, Claimed,
         OnFile, Listed, Stays
  <1> HIDE DEF y
  <1> QED
    BY <1>1, <1>2, <1>3, <1>4, <1>5 DEF Fit

LEMMA UnexpectedExitFits ==
  ASSUME NEW x, NEW m \in {"up", "recovering"}, Fit(x, m), x.child = "exited"
  PROVE  LET y == UnexpectedExit(x)
         IN Fit(y, m) /\ Stays(x, y) /\ y.child = "exited" /\ y.spawn = x.spawn
  <1>0. Shaped(x) /\ IsRecord(x.record)
    BY DEF Fit, Typed
  <1> DEFINE e == WithStatus(x, "error")
             z == [SetStatus(x, "error") EXCEPT !.bound = FALSE, !.proc = FALSE]
             v == [x EXCEPT !.record = e, !.file = e, !.bound = FALSE, !.proc = FALSE]
  <1>a. z = v
    BY <1>0, SetStatusIs
  <1>b. Shaped(v) /\ v.record.pi = x.record.pi
    <2>1. Shaped(v)
      BY Zenon DEF Fit, Shaped
    <2> QED BY <2>1 DEF Fit, Shaped, Fields, WithStatus
  <1>1. CASE ~x.bound \/ ~x.live \/ x.record.status \in {"stopping", "stopped"}
    BY <1>1 DEF UnexpectedExit, Stays
  <1>2. CASE x.bound /\ x.live /\ x.record.status \notin {"stopping", "stopped"} /\ x.record.pi
    <2> DEFINE y == [x EXCEPT !.record = e, !.file = e, !.bound = FALSE, !.proc = FALSE,
                     !.exiting = TRUE, !.entry = FALSE]
    <2>1. UnexpectedExit(x) = y
      <3>1. UnexpectedExit(x) = [z EXCEPT !.exiting = TRUE, !.entry = FALSE]
        BY <1>2, <1>a, <1>b, Zenon DEF UnexpectedExit
      <3>2. [v EXCEPT !.exiting = TRUE, !.entry = FALSE] = y
        OBVIOUS
      <3> QED BY <3>1, <3>2, <1>a, Zenon
    <2>2. Shaped(y)
      BY Zenon DEF Fit, Shaped
    <2>3. Typed(y)
      BY <1>2 DEF Fit, Shaped, Fields, Typed, IsRecord, Statuses, WithStatus
    <2>4. Children(y) /\ Spawning(y) /\ Claims(y)
      BY <1>2 DEF Fit, Shaped, Fields, WithStatus, Children, Tended, Inert, NoStops,
           Spawning, Claims, Claimed
    <2>5. OnFile(y, m) /\ (m = "up" => Listed(y)) /\ Stays(x, y)
      BY <1>2 DEF Fit, Shaped, Fields, WithStatus, Children, Inert, Spawning, Claims, Claimed,
           OnFile, Listed, Stays
    <2>6. y.child = x.child /\ y.spawn = x.spawn
      BY DEF Fit, Shaped, Fields
    <2> HIDE DEF y
    <2> QED
      BY <2>6, <2>1, <2>2, <2>3, <2>4, <2>5 DEF Fit
  <1>3. CASE x.bound /\ x.live /\ x.record.status \notin {"stopping", "stopped"} /\ ~x.record.pi
    <2> DEFINE y == [x EXCEPT !.record = e, !.file = e, !.bound = FALSE, !.proc = FALSE, !.live = FALSE]
    <2>1. UnexpectedExit(x) = y
      <3>1. UnexpectedExit(x) = [z EXCEPT !.live = FALSE]
        BY <1>3, <1>a, <1>b, Zenon DEF UnexpectedExit
      <3>2. [v EXCEPT !.live = FALSE] = y
        OBVIOUS
      <3> QED BY <3>1, <3>2, <1>a, Zenon
    <2>2. Shaped(y)
      BY Zenon DEF Fit, Shaped
    <2>3. Typed(y)
      BY <1>3 DEF Fit, Shaped, Fields, Typed, IsRecord, Statuses, WithStatus
    <2>4. Children(y) /\ Spawning(y) /\ Claims(y)
      BY <1>3 DEF Fit, Shaped, Fields, WithStatus, Children, Tended, Inert, NoStops,
           Spawning, Claims, Claimed
    <2>5. OnFile(y, m) /\ (m = "up" => Listed(y)) /\ Stays(x, y)
      BY <1>3 DEF Fit, Shaped, Fields, WithStatus, Children, Inert, Spawning, Claims, Claimed,
           OnFile, Listed, Stays
    <2>6. y.child = x.child /\ y.spawn = x.spawn
      BY DEF Fit, Shaped, Fields
    <2> HIDE DEF y
    <2> QED
      BY <2>6, <2>1, <2>2, <2>3, <2>4, <2>5 DEF Fit
  <1> QED BY <1>1, <1>2, <1>3

LEMMA RejectAllIs ==
  ASSUME NEW x, Shaped(x), IsRecord(x.record)
  PROVE  RejectAll(x) =
           IF x.spawn = "starting"
           THEN [x EXCEPT !.rpc = "none", !.record = WithStatus(x, "stopped"),
                          !.file = WithStatus(x, "stopped"), !.live = FALSE, !.spawn = "failed"]
           ELSE [x EXCEPT !.rpc = "none"]
  <1> DEFINE v == [x EXCEPT !.rpc = "none"]
             e == WithStatus(x, "error")
             s == WithStatus(x, "stopped")
             w == [x EXCEPT !.rpc = "none", !.record = e, !.file = e]
             y == [x EXCEPT !.rpc = "none", !.record = s, !.file = s, !.live = FALSE, !.spawn = "failed"]
  <1>1. Shaped(v) /\ v.spawn = x.spawn
    <2>1. Shaped(v)
      BY Zenon DEF Shaped
    <2> QED BY <2>1 DEF Shaped, Fields
  <1>2. SetStatus(v, "error") = w
    <2>1. IsRecord(v.record) /\ WithStatus(v, "error") = e
      BY <1>1 DEF Shaped, Fields, IsRecord, WithStatus
    <2>2. SetStatus(v, "error") = [v EXCEPT !.record = e, !.file = e]
      <3> HIDE DEF v, e
      <3> QED BY <2>1, <1>1, SetStatusIs, Zenon
    <2> QED BY <2>2
  <1>3. Shaped(w)
    BY Zenon DEF Shaped
  <1>4. IsRecord(w.record) /\ WithStatus(w, "stopped") = s
    BY DEF Shaped, Fields, IsRecord, Statuses, WithStatus
  <1>5. SpawnFailed(w) = [w EXCEPT !.record = s, !.file = s, !.live = FALSE, !.spawn = "failed"]
    <2> HIDE DEF w, s
    <2> QED BY <1>3, <1>4, SpawnFailedIs, Zenon
  <1>6. [w EXCEPT !.record = s, !.file = s, !.live = FALSE, !.spawn = "failed"] = y
    BY Extensional DEF Shaped, Fields
  <1>7. RejectAll(x) = IF x.spawn = "starting" THEN SpawnFailed(w) ELSE v
    BY <1>1, <1>2, Zenon DEF RejectAll
  <1> QED BY <1>5, <1>6, <1>7, Zenon

LEMMA RejectAllShaped ==
  ASSUME NEW x, Shaped(x), IsRecord(x.record)
  PROVE  Shaped(RejectAll(x)) /\ IsRecord(RejectAll(x).record)
  <1>1. CASE x.spawn = "starting"
    <2> DEFINE y == [x EXCEPT !.rpc = "none", !.record = WithStatus(x, "stopped"),
                          !.file = WithStatus(x, "stopped"), !.live = FALSE, !.spawn = "failed"]
    <2>1. RejectAll(x) = y
      BY <1>1, RejectAllIs, Zenon
    <2>2. Shaped(y)
      BY Zenon DEF Shaped
    <2>3. IsRecord(y.record)
      BY DEF Shaped, Fields, WithStatus, IsRecord, Statuses
    <2> QED BY <2>1, <2>2, <2>3, Zenon
  <1>2. CASE x.spawn # "starting"
    <2> DEFINE y == [x EXCEPT !.rpc = "none"]
    <2>1. RejectAll(x) = y
      BY <1>2, RejectAllIs, Zenon
    <2>2. Shaped(y)
      BY Zenon DEF Shaped
    <2>3. IsRecord(y.record)
      BY DEF Shaped, Fields
    <2> QED BY <2>1, <2>2, <2>3, Zenon
  <1> QED BY <1>1, <1>2

\* What it leaves alone.
LEMMA RejectAllKeeps ==
  ASSUME NEW x, Shaped(x), IsRecord(x.record)
  PROVE  LET y == RejectAll(x)
         IN /\ y.child = x.child /\ y.stop = x.stop /\ y.record.pi = x.record.pi
            /\ y.late = x.late /\ y.lost = x.lost /\ y.early = x.early
            /\ y.spawn # "starting" /\ (y.spawn = "none" => x.spawn = "none")
            /\ y.record.status \in {x.record.status, "stopped"}
  <1>1. CASE x.spawn = "starting"
    <2> DEFINE y == [x EXCEPT !.rpc = "none", !.record = WithStatus(x, "stopped"),
                          !.file = WithStatus(x, "stopped"), !.live = FALSE, !.spawn = "failed"]
    <2>1. RejectAll(x) = y
      BY <1>1, RejectAllIs, Zenon
    <2>2. /\ y.child = x.child /\ y.stop = x.stop /\ y.record.pi = x.record.pi
          /\ y.late = x.late /\ y.lost = x.lost /\ y.early = x.early
          /\ y.spawn = "failed" /\ y.record.status = "stopped"
      BY DEF Shaped, Fields, WithStatus
    <2> HIDE DEF y
    <2> QED BY <2>1, <2>2
  <1>2. CASE x.spawn # "starting"
    <2> DEFINE y == [x EXCEPT !.rpc = "none"]
    <2>1. RejectAll(x) = y
      BY <1>2, RejectAllIs, Zenon
    <2>2. /\ y.child = x.child /\ y.stop = x.stop /\ y.record = x.record
          /\ y.late = x.late /\ y.lost = x.lost /\ y.early = x.early /\ y.spawn = x.spawn
      BY DEF Shaped, Fields
    <2> HIDE DEF y
    <2> QED BY <1>2, <2>1, <2>2
  <1> QED BY <1>1, <1>2

LEMMA RejectAllFits ==
  ASSUME NEW x, NEW m \in {"up", "recovering"}, Fit(x, m), x.child # "running"
  PROVE  Fit(RejectAll(x), m) /\ Stays(x, RejectAll(x))
  <1>0. Shaped(x) /\ IsRecord(x.record)
    BY DEF Fit, Typed
  <1>1. CASE x.spawn # "starting"
    <2> DEFINE y == [x EXCEPT !.rpc = "none"]
    <2>1. RejectAll(x) = y
      BY <1>0, <1>1, RejectAllIs, Zenon
    <2>2. Shaped(y)
      BY Zenon DEF Fit, Shaped
    <2>3. Typed(y)
      BY <1>1 DEF Fit, Shaped, Fields, Typed, IsRecord, Statuses, WithStatus
    <2>4. Children(y) /\ Spawning(y) /\ Claims(y)
      BY <1>1 DEF Fit, Shaped, Fields, WithStatus, Children, Tended, Inert, NoStops,
           Spawning, Claims, Claimed
    <2>5. OnFile(y, m) /\ (m = "up" => Listed(y)) /\ Stays(x, y)
      BY <1>1 DEF Fit, Shaped, Fields, WithStatus, Children, Inert, Spawning, Claims, Claimed,
           OnFile, Listed, Stays
    <2> HIDE DEF y
    <2> QED
      BY <2>1, <2>2, <2>3, <2>4, <2>5 DEF Fit
  <1>2. CASE x.spawn = "starting"
    <2> DEFINE y == [x EXCEPT !.rpc = "none", !.record = WithStatus(x, "stopped"),
                     !.file = WithStatus(x, "stopped"), !.live = FALSE, !.spawn = "failed"]
    <2>1. RejectAll(x) = y
      BY <1>0, <1>2, RejectAllIs, Zenon
    <2>2. Shaped(y)
      BY Zenon DEF Fit, Shaped
    <2>3. Typed(y)
      BY <1>2 DEF Fit, Shaped, Fields, Typed, IsRecord, Statuses, WithStatus
    <2>4. Children(y) /\ Spawning(y) /\ Claims(y)
      BY <1>2 DEF Fit, Shaped, Fields, WithStatus, Children, Tended, Inert, NoStops,
           Spawning, Claims, Claimed
    <2>5. OnFile(y, m) /\ (m = "up" => Listed(y)) /\ Stays(x, y)
      BY <1>2 DEF Fit, Shaped, Fields, WithStatus, Children, Inert, Spawning, Claims, Claimed,
           OnFile, Listed, Stays
    <2> HIDE DEF y
    <2> QED
      BY <2>1, <2>2, <2>3, <2>4, <2>5 DEF Fit
  <1> QED BY <1>1, <1>2

LEMMA ExitHandledFits ==
  ASSUME NEW x, NEW m \in {"up", "recovering"}, Fit(x, m), x.exiting
  PROVE  Fit([SetPi(x, FALSE) EXCEPT !.exiting = FALSE, !.live = FALSE, !.known = FALSE], m) /\ Stays(x, [SetPi(x, FALSE) EXCEPT !.exiting = FALSE, !.live = FALSE, !.known = FALSE])
  <1> DEFINE r == [status |-> x.record.status, pi |-> FALSE]
  <1> DEFINE y == [x EXCEPT !.record = r, !.file = r, !.exiting = FALSE, !.live = FALSE, !.known = FALSE]
  <1>1. [SetPi(x, FALSE) EXCEPT !.exiting = FALSE, !.live = FALSE, !.known = FALSE] = y
    BY SetPiIs DEF Fit, Typed
  <1>2. Shaped(y)
    BY Zenon DEF Fit, Shaped
  <1>3. Typed(y)
    BY DEF Fit, Shaped, Fields, Typed, IsRecord, Statuses, WithStatus
  <1>4. Children(y) /\ Spawning(y) /\ Claims(y)
    BY DEF Fit, Shaped, Fields, WithStatus, Children, Tended, Inert, NoStops,
         Spawning, Claims, Claimed
  <1>5. OnFile(y, m) /\ (m = "up" => Listed(y)) /\ Stays(x, y)
    BY DEF Fit, Shaped, Fields, WithStatus, Children, Inert, Spawning, Claims, Claimed,
         OnFile, Listed, Stays
  <1> HIDE DEF y
  <1> QED
    BY <1>1, <1>2, <1>3, <1>4, <1>5 DEF Fit

LEMMA ExitUnhandledFits ==
  ASSUME NEW x, NEW m \in {"up", "recovering"}, Fit(x, m), x.exiting
  PROVE  Fit([x EXCEPT !.exiting = FALSE, !.live = FALSE, !.lost = TRUE], m) /\ Stays(x, [x EXCEPT !.exiting = FALSE, !.live = FALSE, !.lost = TRUE])
  <1> DEFINE y == [x EXCEPT !.exiting = FALSE, !.live = FALSE, !.lost = TRUE]
  <1>1. [x EXCEPT !.exiting = FALSE, !.live = FALSE, !.lost = TRUE] = y
    OBVIOUS
  <1>2. Shaped(y)
    BY Zenon DEF Fit, Shaped
  <1>3. Typed(y)
    BY DEF Fit, Shaped, Fields, Typed, IsRecord, Statuses, WithStatus
  <1>4. Children(y) /\ Spawning(y) /\ Claims(y)
    BY DEF Fit, Shaped, Fields, WithStatus, Children, Tended, Inert, NoStops,
         Spawning, Claims, Claimed
  <1>5. OnFile(y, m) /\ (m = "up" => Listed(y)) /\ Stays(x, y)
    BY DEF Fit, Shaped, Fields, WithStatus, Children, Inert, Spawning, Claims, Claimed,
         OnFile, Listed, Stays
  <1> HIDE DEF y
  <1> QED
    BY <1>1, <1>2, <1>3, <1>4, <1>5 DEF Fit

\* What a stop or the end of a process leaves of x.
Ended(x, stop, lost) ==
  [x EXCEPT !.record = WithStatus(x, "stopped"), !.live = FALSE, !.file = NoRecord,
            !.stop = stop, !.lost = lost]

LEMMA EndedFits ==
  ASSUME NEW x, NEW m \in {"up", "recovering"}, Fit(x, m), x.spawn # "none",
         x.record.status \in Claimed => x.late, x.spawn = "starting" => x.child # "running",
         NEW lost \in BOOLEAN, x.lost => lost, lost \/ x.late \/ ~x.record.pi,
         NEW stop \in [Stoppers -> [at : {"no", "disconnecting", "disposing"}, proc : BOOLEAN]],
         \A s \in Stoppers : stop[s] \in {x.stop[s], NoStop},
         x.child = "running" =>
           lost \/ \E s \in Stoppers : stop[s].at = "disconnecting" /\ stop[s].proc
  PROVE  Fit(Ended(x, stop, lost), m) /\ Stays(x, Ended(x, stop, lost))
  <1> DEFINE y == [x EXCEPT !.record = WithStatus(x, "stopped"), !.live = FALSE, !.file = NoRecord,
                   !.stop = stop, !.lost = lost]
  <1>1. Ended(x, stop, lost) = y
    BY Zenon DEF Ended
  <1>2. Shaped(y)
    BY Zenon DEF Fit, Shaped
  <1>3. Typed(y)
    BY DEF NoRecord, NoStop, Fit, Shaped, Fields, Typed, IsRecord, Statuses, WithStatus
  <1>4. Children(y) /\ Spawning(y) /\ Claims(y)
    BY DEF NoRecord, NoStop, Fit, Shaped, Fields, WithStatus, Children, Tended, Inert, NoStops,
         Spawning, Claims, Claimed
  <1>5. OnFile(y, m) /\ (m = "up" => Listed(y)) /\ Stays(x, y)
    BY DEF NoRecord, NoStop, Fit, Shaped, Fields, WithStatus, Children, Inert, Spawning, Claims, Claimed,
         OnFile, Listed, Stays
  <1> HIDE DEF y
  <1> QED
    BY <1>1, <1>2, <1>3, <1>4, <1>5 DEF Fit

LEMMA RpcFits ==
  ASSUME NEW x, NEW m \in {"up", "recovering"}, Fit(x, m), x.spawn # "none",
         NEW rpc \in {"none", "command", "state"}, NEW file \in {x.file, x.record}
  PROVE  Fit([x EXCEPT !.rpc = rpc, !.file = file], m) /\ Stays(x, [x EXCEPT !.rpc = rpc, !.file = file])
  <1> DEFINE y == [x EXCEPT !.rpc = rpc, !.file = file]
  <1>1. [x EXCEPT !.rpc = rpc, !.file = file] = y
    OBVIOUS
  <1>2. Shaped(y)
    BY Zenon DEF Fit, Shaped
  <1>3. Typed(y)
    BY DEF Fit, Shaped, Fields, Typed, IsRecord, Statuses, WithStatus
  <1>4. Children(y) /\ Spawning(y) /\ Claims(y)
    BY DEF Fit, Shaped, Fields, WithStatus, Children, Tended, Inert, NoStops,
         Spawning, Claims, Claimed
  <1>5. OnFile(y, m) /\ (m = "up" => Listed(y)) /\ Stays(x, y)
    BY DEF Fit, Shaped, Fields, WithStatus, Children, Inert, Spawning, Claims, Claimed,
         OnFile, Listed, Stays
  <1> HIDE DEF y
  <1> QED
    BY <1>1, <1>2, <1>3, <1>4, <1>5 DEF Fit

Beating(x, beat, missed, clone, entry) ==
  [x EXCEPT !.beat = beat, !.missed = missed, !.clone = clone, !.entry = entry]

LEMMA BeatFits ==
  ASSUME NEW x, NEW m \in {"up", "recovering"}, Fit(x, m), x.spawn = "online",
         NEW beat \in {"idle", "posting", "registering"}, NEW missed \in 0..NotFoundThreshold,
         NEW clone, IsRecord(clone), beat = "registering" => clone = x.record,
         NEW entry \in BOOLEAN, entry => x.entry, Radius
  PROVE  LET y == Beating(x, beat, missed, clone, entry) IN Fit(y, m) /\ Stays(x, y)
  <1> DEFINE y == [x EXCEPT !.beat = beat, !.missed = missed, !.clone = clone, !.entry = entry]
  <1>1. Beating(x, beat, missed, clone, entry) = y
    BY Zenon DEF Beating
  <1>2. Shaped(y)
    BY Zenon DEF Fit, Shaped
  <1>3. Typed(y)
    BY DEF Fit, Shaped, Fields, Typed, IsRecord, Statuses, WithStatus
  <1>4. Children(y) /\ Spawning(y) /\ Claims(y)
    BY DEF Fit, Shaped, Fields, WithStatus, Children, Tended, Inert, NoStops,
         Spawning, Claims, Claimed
  <1>5. OnFile(y, m) /\ (m = "up" => Listed(y)) /\ Stays(x, y)
    BY DEF Fit, Shaped, Fields, WithStatus, Children, Inert, Spawning, Claims, Claimed,
         OnFile, Listed, Stays
  <1> HIDE DEF y
  <1> QED
    BY <1>1, <1>2, <1>3, <1>4, <1>5 DEF Fit

\* The steps of heartbeatPi are of this form.
LEMMA BeatsAre ==
  ASSUME NEW x, Shaped(x), Typed(x)
  PROVE  /\ [x EXCEPT !.beat = "posting"] = Beating(x, "posting", x.missed, x.clone, x.entry)
         /\ [x EXCEPT !.beat = "idle"] = Beating(x, "idle", x.missed, x.clone, x.entry)
         /\ [x EXCEPT !.beat = "idle", !.missed = 0] = Beating(x, "idle", 0, x.clone, x.entry)
         /\ [x EXCEPT !.beat = "idle", !.clone = NoRecord] = Beating(x, "idle", x.missed, NoRecord, x.entry)
         /\ LET n == IF x.missed < NotFoundThreshold THEN x.missed + 1 ELSE x.missed
            IN NotFound(x) \in {Beating(x, "idle", n, x.clone, x.entry),
                                Beating(x, "registering", n, x.record, x.entry),
                                Beating(x, "idle", n, x.clone, FALSE)}
  <1>1. [x EXCEPT !.beat = "posting"] = Beating(x, "posting", x.missed, x.clone, x.entry)
    BY Extensional DEF Beating, Shaped, Fields
  <1>2. [x EXCEPT !.beat = "idle"] = Beating(x, "idle", x.missed, x.clone, x.entry)
    BY Extensional DEF Beating, Shaped, Fields
  <1>3. [x EXCEPT !.beat = "idle", !.missed = 0] = Beating(x, "idle", 0, x.clone, x.entry)
    BY Extensional DEF Beating, Shaped, Fields
  <1>4. [x EXCEPT !.beat = "idle", !.clone = NoRecord] = Beating(x, "idle", x.missed, NoRecord, x.entry)
    BY Extensional DEF Beating, Shaped, Fields
  <1> DEFINE n == IF x.missed < NotFoundThreshold THEN x.missed + 1 ELSE x.missed
             y == [x EXCEPT !.missed = n]
             a == [y EXCEPT !.beat = "idle"]
             b == [y EXCEPT !.beat = "registering", !.clone = x.record]
             c == [y EXCEPT !.beat = "idle", !.entry = FALSE]
  <1>5. NotFound(x) \in {a, b, c}
    <2>1. [x EXCEPT !.missed = IF @ < NotFoundThreshold THEN @ + 1 ELSE @] = y
      OBVIOUS
    <2>2. y.missed = n /\ y.record = x.record
      BY DEF Shaped, Fields
    <2>3. \/ n < NotFoundThreshold /\ n # NotFoundThreshold
          \/ ~(n < NotFoundThreshold) /\ n = NotFoundThreshold
      <3>1. x.missed \in 0..NotFoundThreshold /\ NotFoundThreshold \in Nat
        BY SupervisorAssumption DEF Typed
      <3> QED BY <3>1
    <2>4. y.live = x.live /\ x.live \in BOOLEAN
      BY DEF Shaped, Fields, Typed
    <2> HIDE DEF n, y
    <2>5. CASE y.missed < NotFoundThreshold /\ ~(y.missed = NotFoundThreshold)
      BY <2>1, <2>5, Zenon DEF NotFound
    <2>6. CASE ~(y.missed < NotFoundThreshold) /\ y.missed = NotFoundThreshold /\ y.live
      BY <2>1, <2>2, <2>6, Zenon DEF NotFound
    <2>7. CASE ~(y.missed < NotFoundThreshold) /\ ~(y.missed = NotFoundThreshold /\ y.live)
      BY <2>1, <2>7, Zenon DEF NotFound
    <2> QED BY <2>2, <2>3, <2>5, <2>6, <2>7
  <1> HIDE DEF n
  <1>6. a = Beating(x, "idle", n, x.clone, x.entry)
    BY Extensional DEF Beating, Shaped, Fields
  <1>7. b = Beating(x, "registering", n, x.record, x.entry)
    BY Extensional DEF Beating, Shaped, Fields
  <1>8. c = Beating(x, "idle", n, x.clone, FALSE)
    BY Extensional DEF Beating, Shaped, Fields
  <1> HIDE DEF a, b, c
  <1> QED BY <1>1, <1>2, <1>3, <1>4, <1>5, <1>6, <1>7, <1>8, Zenon DEF n

LEMMA NotFoundFits ==
  ASSUME NEW x, NEW m \in {"up", "recovering"}, Fit(x, m), x.beat = "posting"
  PROVE  Fit(NotFound(x), m) /\ Stays(x, NotFound(x))
  <1> DEFINE n == IF x.missed < NotFoundThreshold THEN x.missed + 1 ELSE x.missed
  <1>1. /\ Shaped(x) /\ Typed(x) /\ x.spawn = "online" /\ Radius
        /\ IsRecord(x.record) /\ IsRecord(x.clone) /\ x.entry \in BOOLEAN
    BY DEF Fit, Typed, Spawning
  <1>2. n \in 0..NotFoundThreshold
    BY <1>1, SupervisorAssumption DEF Typed
  <1>3. NotFound(x) \in {Beating(x, "idle", n, x.clone, x.entry),
                         Beating(x, "registering", n, x.record, x.entry),
                         Beating(x, "idle", n, x.clone, FALSE)}
    BY <1>1, BeatsAre, Zenon
  <1> HIDE DEF n
  <1>4. LET y == Beating(x, "idle", n, x.clone, x.entry) IN Fit(y, m) /\ Stays(x, y)
    BY <1>1, <1>2, BeatFits
  <1>5. LET y == Beating(x, "registering", n, x.record, x.entry) IN Fit(y, m) /\ Stays(x, y)
    BY <1>1, <1>2, BeatFits
  <1>6. LET y == Beating(x, "idle", n, x.clone, FALSE) IN Fit(y, m) /\ Stays(x, y)
    BY <1>1, <1>2, BeatFits
  <1> QED BY <1>3, <1>4, <1>5, <1>6, Zenon

LEMMA ReRegisterFits ==
  ASSUME NEW x, NEW m \in {"up", "recovering"}, Fit(x, m), x.beat = "registering"
  PROVE  Fit(ReRegister(x), m) /\ Stays(x, ReRegister(x))
  <1> DEFINE r == [status |-> x.clone.status, pi |-> TRUE]
  <1>a. [x.clone EXCEPT !.pi = TRUE] = r /\ 0 \in 0..NotFoundThreshold /\ IsRecord(NoRecord)
    <2>0. IsRecord(x.clone)
      BY DEF Fit, Typed
    <2>1. [x.clone EXCEPT !.pi = TRUE] = r
      BY <2>0, RecordWith
    <2>2. 0 \in 0..NotFoundThreshold
      BY SupervisorAssumption
    <2>3. IsRecord(NoRecord)
      BY DEF IsRecord, Statuses, NoRecord
    <2> QED BY <2>1, <2>2, <2>3
  <1>1. CASE x.live
    <2> DEFINE late == x.late \/ x.record.status # "online"
    <2> DEFINE y == [x EXCEPT !.record = r, !.entry = TRUE, !.missed = 0, !.known = TRUE, !.beat = "idle",
                     !.clone = NoRecord, !.file = r, !.late = late]
    <2>1. ReRegister(x) = y
      BY <1>1, <1>a, Extensional DEF ReRegister, Fit, Shaped, Fields
    <2>2. Shaped(y)
      BY Zenon DEF Fit, Shaped
    <2>3. Typed(y)
      BY <1>1, <1>a DEF Fit, Shaped, Fields, Typed, IsRecord, Statuses, WithStatus
    <2>4. Children(y) /\ Spawning(y) /\ Claims(y)
      BY <1>1, <1>a DEF Fit, Shaped, Fields, WithStatus, Children, Tended, Inert, NoStops,
           Spawning, Claims, Claimed
    <2>5. OnFile(y, m) /\ (m = "up" => Listed(y)) /\ Stays(x, y)
      BY <1>1, <1>a DEF Fit, Shaped, Fields, WithStatus, Children, Inert, Spawning, Claims, Claimed,
           OnFile, Listed, Stays
    <2> HIDE DEF y
    <2> QED
      BY <2>1, <2>2, <2>3, <2>4, <2>5 DEF Fit
  <1>2. CASE ~x.live
    <2> DEFINE y == [x EXCEPT !.entry = TRUE, !.missed = 0, !.known = TRUE, !.beat = "idle",
                     !.clone = NoRecord, !.file = r, !.late = TRUE]
    <2>1. ReRegister(x) = y
      BY <1>2, <1>a, Extensional DEF ReRegister, Fit, Shaped, Fields
    <2>2. Shaped(y)
      BY Zenon DEF Fit, Shaped
    <2>3. Typed(y)
      BY <1>2, <1>a DEF Fit, Shaped, Fields, Typed, IsRecord, Statuses, WithStatus
    <2>4. Children(y) /\ Spawning(y) /\ Claims(y)
      BY <1>2, <1>a DEF Fit, Shaped, Fields, WithStatus, Children, Tended, Inert, NoStops,
           Spawning, Claims, Claimed
    <2>5. OnFile(y, m) /\ (m = "up" => Listed(y)) /\ Stays(x, y)
      BY <1>2, <1>a DEF Fit, Shaped, Fields, WithStatus, Children, Inert, Spawning, Claims, Claimed,
           OnFile, Listed, Stays
    <2> HIDE DEF y
    <2> QED
      BY <2>1, <2>2, <2>3, <2>4, <2>5 DEF Fit
  <1>3. x.live \in BOOLEAN
    BY DEF Fit, Typed
  <1> QED BY <1>1, <1>2, <1>3

StopEnded(x, s) == [x.stop EXCEPT ![s] = NoStop]

LEMMA StopDoneIs ==
  ASSUME NEW x, Shaped(x), IsRecord(x.record), NEW s
  PROVE  /\ StopDone(x, s) = Ended(x, StopEnded(x, s), x.lost)
         /\ [StopDone(x, s) EXCEPT !.lost = TRUE] = Ended(x, StopEnded(x, s), TRUE)
  <1>1. [x.record EXCEPT !.status = "stopped"] = WithStatus(x, "stopped")
    BY RecordWith DEF WithStatus
  <1>2. [StopDone(x, s) EXCEPT !.lost = TRUE] = Ended(x, StopEnded(x, s), TRUE)
    BY <1>1, Extensional DEF StopDone, Ended, StopEnded, Shaped, Fields
  <1>3. StopDone(x, s) = Ended(x, StopEnded(x, s), x.lost)
    BY <1>1, Extensional DEF StopDone, Ended, StopEnded, Shaped, Fields
  <1> QED BY <1>2, <1>3

LEMMA StopDoneFits ==
  ASSUME NEW x, NEW m \in {"up", "recovering"}, Fit(x, m), x.spawn # "none",
         x.record.status \in Claimed => x.late, x.spawn = "starting" => x.child # "running",
         NEW lost \in BOOLEAN, x.lost => lost, lost \/ x.late \/ ~x.record.pi,
         NEW s \in Stoppers,
         x.child = "running" =>
           lost \/ \E t \in Stoppers \ {s} : x.stop[t].at = "disconnecting" /\ x.stop[t].proc
  PROVE  LET y == Ended(x, StopEnded(x, s), lost) IN Fit(y, m) /\ Stays(x, y)
  <1> DEFINE stop == StopEnded(x, s)
  <1>1. Typed(x)
    BY DEF Fit
  <1>2. /\ stop \in [Stoppers -> [at : {"no", "disconnecting", "disposing"}, proc : BOOLEAN]]
        /\ \A t \in Stoppers : stop[t] \in {x.stop[t], NoStop}
        /\ \A t \in Stoppers \ {s} : stop[t] = x.stop[t]
    BY <1>1 DEF Typed, NoStop, StopEnded
  <1>3. x.child = "running" =>
            lost \/ \E t \in Stoppers : stop[t].at = "disconnecting" /\ stop[t].proc
    BY <1>2
  <1> HIDE DEF stop
  <1> QED BY <1>2, <1>3, EndedFits DEF stop


LEMMA DisposeFits ==
  ASSUME NEW x, NEW m \in {"up", "recovering"}, Fit(x, m), x.spawn # "none",
         x.record.status \in Claimed => x.late, x.late \/ ~x.record.pi,
         NEW s \in Stoppers, NEW proc \in BOOLEAN,
         \/ x.stop[s].at = "disconnecting" /\ proc = x.stop[s].proc
         \/ x.stop[s].at = "no" /\ proc = x.proc
  PROVE  Fit(Dispose(x, s, proc), m) /\ Stays(x, Dispose(x, s, proc))
  <1> DEFINE v == [x EXCEPT !.proc = FALSE]
  <1>0. Shaped(x) /\ Typed(x) /\ IsRecord(x.record)
    BY DEF Fit, Typed
  <1>1. CASE ~proc
    <2>1. Dispose(x, s, proc) = Ended(x, StopEnded(x, s), x.lost)
      BY <1>0, <1>1, StopDoneIs, Zenon DEF Dispose
    <2>2. x.spawn = "starting" => x.child # "running"
      BY <1>1 DEF Fit, Spawning, NoStops
    <2>3. x.child = "running" =>
            x.lost \/ \E t \in Stoppers \ {s} : x.stop[t].at = "disconnecting" /\ x.stop[t].proc
      BY <1>0, <1>1 DEF Fit, Children, Tended, Typed
    <2>4. x.lost \in BOOLEAN
      BY <1>0 DEF Typed
    <2> QED BY <2>1, <2>2, <2>3, <2>4, StopDoneFits
  <1>2. CASE proc /\ x.child = "exited"
    <2>1. Fit(v, m) /\ Stays(x, v)
      <3> DEFINE y == [x EXCEPT !.proc = FALSE]
      <3>1. v = y
        OBVIOUS
      <3>2. Shaped(y)
        BY Zenon DEF Fit, Shaped
      <3>3. Typed(y)
        BY <1>2 DEF Fit, Shaped, Fields, Typed, IsRecord, Statuses, WithStatus
      <3>4. Children(y) /\ Spawning(y) /\ Claims(y)
        BY <1>2 DEF Fit, Shaped, Fields, WithStatus, Children, Tended, Inert, NoStops,
             Spawning, Claims, Claimed
      <3>5. OnFile(y, m) /\ (m = "up" => Listed(y)) /\ Stays(x, y)
        BY <1>2 DEF Fit, Shaped, Fields, WithStatus, Children, Inert, Spawning, Claims, Claimed,
             OnFile, Listed, Stays
      <3> HIDE DEF y
      <3> QED
        BY <3>1, <3>2, <3>3, <3>4, <3>5 DEF Fit
    <2>2. v.child = x.child /\ v.stop = x.stop /\ v.record = x.record /\ v.spawn = x.spawn
          /\ v.late = x.late /\ v.lost = x.lost
      BY <1>0 DEF Shaped, Fields
    <2>3. Shaped(v) /\ IsRecord(v.record)
      BY <2>1 DEF Fit, Typed
    <2> HIDE DEF v
    <2> DEFINE w == RejectAll(v)
    <2>4. Fit(w, m) /\ Stays(v, w)
      BY <1>2, <2>1, <2>2, RejectAllFits
    <2>5. /\ w.child = "exited" /\ w.spawn # "starting" /\ w.spawn # "none" /\ w.late = x.late
          /\ w.record.status \in Claimed => w.late
          /\ w.late \/ ~w.record.pi
      BY <1>2, <2>2, <2>3, RejectAllKeeps DEF Claimed
    <2>6. w.lost \in BOOLEAN /\ Shaped(w) /\ IsRecord(w.record)
      BY <2>4 DEF Fit, Typed
    <2>7. Dispose(x, s, proc) = StopDone(w, s)
      BY <1>2, Zenon DEF Dispose, v
    <2> HIDE DEF w
    <2>9. StopDone(w, s) = Ended(w, StopEnded(w, s), w.lost)
      BY <2>6, StopDoneIs
    <2>8. Fit(Ended(w, StopEnded(w, s), w.lost), m) /\ Stays(w, Ended(w, StopEnded(w, s), w.lost))
      BY <2>4, <2>5, <2>6, StopDoneFits
    <2> QED BY <2>1, <2>4, <2>7, <2>8, <2>9 DEF Stays
  <1>3. CASE proc /\ x.child # "exited"
    <2> DEFINE stop == [x.stop EXCEPT ![s] = [at |-> "disposing", proc |-> TRUE]]
    <2>a. /\ stop \in [Stoppers -> [at : {"no", "disconnecting", "disposing"}, proc : BOOLEAN]]
          /\ stop[s].at = "disposing" /\ \A t \in Stoppers \ {s} : stop[t] = x.stop[t]
          /\ x.stop[Main].at # "no" => stop[Main].at # "no"
      BY <1>0 DEF Typed, Stoppers
    <2>b. Shaped(v) /\ IsRecord(v.record) /\ v.spawn = x.spawn /\ v.stop = x.stop
          /\ WithStatus(v, "stopped") = WithStatus(x, "stopped")
      <3>1. Shaped(v)
        BY <1>0, Zenon DEF Shaped
      <3> QED BY <1>0, <3>1 DEF Shaped, Fields, WithStatus
    <2>c. Dispose(x, s, proc) = [RejectAll(v) EXCEPT !.child = "term", !.stop[s] = [at |-> "disposing", proc |-> TRUE]]
      BY <1>3, Zenon DEF Dispose
    <2>d. RejectAll(v).stop = x.stop
      BY <2>b, RejectAllKeeps
    <2>e. Dispose(x, s, proc) = [RejectAll(v) EXCEPT !.child = "term", !.stop = stop]
      BY <2>c, <2>d
    <2>1. CASE x.spawn # "starting"
      <3>a. RejectAll(v) = [v EXCEPT !.rpc = "none"]
        BY <2>b, <2>1, RejectAllIs, Zenon
      <3> HIDE DEF stop
      <3> DEFINE y == [x EXCEPT !.proc = FALSE, !.rpc = "none", !.child = "term", !.stop = stop]
      <3>1. Dispose(x, s, proc) = y
        BY <2>e, <3>a, <1>0, Extensional DEF Shaped, Fields
      <3>2. Shaped(y)
        BY Zenon DEF Fit, Shaped
      <3>3. Typed(y)
        BY <1>3, <2>a, <2>1 DEF Fit, Shaped, Fields, Typed, IsRecord, Statuses, WithStatus
      <3>a1. Children(y) /\ Spawning(y)
        BY <1>3, <2>a, <2>1 DEF Fit, Shaped, Fields, WithStatus, Children, Tended, Inert, NoStops, Spawning
      <3>a2. Claims(y)
        BY <1>3, <2>a, <2>1 DEF Fit, Shaped, Fields, WithStatus, Claims, Claimed, NoStops
      <3>4. Children(y) /\ Spawning(y) /\ Claims(y)
        BY <3>a1, <3>a2
      <3>5. OnFile(y, m) /\ (m = "up" => Listed(y)) /\ Stays(x, y)
        BY <1>3, <2>a, <2>1 DEF Fit, Shaped, Fields, WithStatus, Children, Inert, Spawning, Claims, Claimed,
             OnFile, Listed, Stays
      <3> HIDE DEF y
      <3> QED
        BY <3>1, <3>2, <3>3, <3>4, <3>5 DEF Fit
    <2>2. CASE x.spawn = "starting"
      <3>a. RejectAll(v) = [v EXCEPT !.rpc = "none", !.record = WithStatus(x, "stopped"),
                          !.file = WithStatus(x, "stopped"), !.live = FALSE, !.spawn = "failed"]
        BY <2>b, <2>2, RejectAllIs, Zenon
      <3> HIDE DEF stop
      <3> DEFINE y == [x EXCEPT !.proc = FALSE, !.rpc = "none", !.record = WithStatus(x, "stopped"),
                       !.file = WithStatus(x, "stopped"), !.live = FALSE, !.spawn = "failed",
                       !.child = "term", !.stop = stop]
      <3>1. Dispose(x, s, proc) = y
        BY <2>e, <3>a, <1>0, Extensional DEF Shaped, Fields
      <3>2. Shaped(y)
        BY Zenon DEF Fit, Shaped
      <3>3. Typed(y)
        BY <1>3, <2>a, <2>2 DEF Fit, Shaped, Fields, Typed, IsRecord, Statuses, WithStatus
      <3>4. Children(y) /\ Spawning(y) /\ Claims(y)
        BY <1>3, <2>a, <2>2 DEF Fit, Shaped, Fields, WithStatus, Children, Tended, Inert, NoStops,
             Spawning, Claims, Claimed
      <3>5. OnFile(y, m) /\ (m = "up" => Listed(y)) /\ Stays(x, y)
        BY <1>3, <2>a, <2>2 DEF Fit, Shaped, Fields, WithStatus, Children, Inert, Spawning, Claims, Claimed,
             OnFile, Listed, Stays
      <3> HIDE DEF y
      <3> QED
        BY <3>1, <3>2, <3>3, <3>4, <3>5 DEF Fit
    <2> QED BY <2>1, <2>2
  <1> QED BY <1>1, <1>2, <1>3


LEMMA DisposeEnds ==
  ASSUME NEW x, Shaped(x), Typed(x), NEW s \in Stoppers, NEW proc \in BOOLEAN
  PROVE  LET y == Dispose(x, s, proc) IN y.live => y.stop[s].at # "no"
  <1> DEFINE v == [x EXCEPT !.proc = FALSE]
  <1>0. /\ Shaped(v) /\ IsRecord(v.record) /\ IsRecord(x.record)
        /\ v.stop = x.stop
    <2>1. Shaped(v)
      BY Zenon DEF Shaped
    <2> QED BY <2>1 DEF Shaped, Typed, Fields
  <1>1. ASSUME NEW w, Shaped(w), IsRecord(w.record)
        PROVE  ~StopDone(w, s).live
    BY <1>1 DEF StopDone, Shaped, Fields
  <1>2. CASE ~proc
    BY <1>0, <1>1, <1>2 DEF Dispose
  <1>3. CASE proc /\ x.child = "exited"
    <2>1. Shaped(RejectAll(v)) /\ IsRecord(RejectAll(v).record)
      BY <1>0, RejectAllShaped
    <2> QED BY <1>1, <1>3, <2>1 DEF Dispose
  <1>4. CASE proc /\ x.child # "exited"
    <2> DEFINE w == RejectAll(v)
    <2>1. Shaped(w) /\ w.stop = x.stop
      BY <1>0, RejectAllShaped, RejectAllKeeps
    <2>2. Dispose(x, s, proc) = [w EXCEPT !.child = "term", !.stop[s] = [at |-> "disposing", proc |-> TRUE]]
      BY <1>4, Zenon DEF Dispose
    <2> HIDE DEF w
    <2>3. x.stop \in [Stoppers -> [at : {"no", "disconnecting", "disposing"}, proc : BOOLEAN]]
      BY DEF Typed
    <2> DEFINE stop == [x.stop EXCEPT ![s] = [at |-> "disposing", proc |-> TRUE]]
    <2>4. stop[s].at = "disposing"
      BY <2>3
    <2>5. Dispose(x, s, proc) = [w EXCEPT !.child = "term", !.stop = stop]
      BY <2>1, <2>2
    <2> HIDE DEF stop
    <2>6. [w EXCEPT !.child = "term", !.stop = stop].stop = stop
      BY <2>1 DEF Shaped, Fields
    <2> QED BY <2>4, <2>5, <2>6
  <1> QED BY <1>2, <1>3, <1>4

LEMMA BeginStopFits ==
  ASSUME NEW x, NEW m \in {"up", "recovering"}, Fit(x, m), x.live, NEW s \in Stoppers, x.stop[s].at = "no"
  PROVE  LET y == BeginStop(x, s)
         IN Fit(y, m) /\ Stays(x, y) /\ (y.live => y.stop[s].at # "no")
  <1> DEFINE z == [x EXCEPT !.record = WithStatus(x, "stopping"), !.file = WithStatus(x, "stopping"),
                            !.bound = FALSE]
  <1>0. Shaped(x) /\ Typed(x) /\ IsRecord(x.record) /\ x.spawn # "none"
    BY DEF Fit, Typed, Children, Inert
  <1>1. [SetStatus(x, "stopping") EXCEPT !.bound = FALSE] = z
    BY <1>0, SetStatusIs
  <1>2. /\ z.record = WithStatus(x, "stopping") /\ z.stop = x.stop /\ z.spawn = x.spawn
        /\ z.proc = x.proc /\ z.live
    BY <1>0 DEF Shaped, Fields
  <1>3. CASE x.record.pi
    <2> DEFINE stop == [x.stop EXCEPT ![s] = [at |-> "disconnecting", proc |-> x.proc]]
    <2>a. /\ stop \in [Stoppers -> [at : {"no", "disconnecting", "disposing"}, proc : BOOLEAN]]
          /\ stop[s].at = "disconnecting" /\ stop[s].proc = x.proc
          /\ \A t \in Stoppers \ {s} : stop[t] = x.stop[t]
          /\ x.stop[Main].at # "no" => stop[Main].at # "no"
      BY <1>0 DEF Typed, Stoppers
    <2>b. BeginStop(x, s) = [z EXCEPT !.entry = FALSE, !.stop = stop]
      <3>1. BeginStop(x, s) = [z EXCEPT !.entry = FALSE, !.stop[s] = [at |-> "disconnecting", proc |-> z.proc]]
        <4> HIDE DEF z
        <4>1. z.record.pi
          BY <1>2, <1>3 DEF WithStatus
        <4> QED BY <4>1, <1>1, Zenon DEF BeginStop
      <3> HIDE DEF z
      <3> QED BY <3>1, <1>2
    <2> HIDE DEF stop
    <2> DEFINE y == [x EXCEPT !.record = WithStatus(x, "stopping"), !.file = WithStatus(x, "stopping"),
                     !.bound = FALSE, !.entry = FALSE, !.stop = stop]
    <2>1. BeginStop(x, s) = y
      BY <2>b
    <2>2. Shaped(y)
      BY Zenon DEF Fit, Shaped
    <2>3. Typed(y)
      BY <2>a, <1>3 DEF Fit, Shaped, Fields, Typed, IsRecord, Statuses, WithStatus
    <2>4. Children(y) /\ Spawning(y) /\ Claims(y)
      BY <2>a, <1>3 DEF Fit, Shaped, Fields, WithStatus, Children, Tended, Inert, NoStops,
           Spawning, Claims, Claimed
    <2>5. OnFile(y, m) /\ (m = "up" => Listed(y)) /\ Stays(x, y)
      BY <2>a, <1>3 DEF Fit, Shaped, Fields, WithStatus, Children, Inert, Spawning, Claims, Claimed,
           OnFile, Listed, Stays
    <2>6. y.stop = stop
      BY DEF Fit, Shaped, Fields
    <2> HIDE DEF y
    <2> QED
      BY <2>a, <2>6, <2>1, <2>2, <2>3, <2>4, <2>5 DEF Fit
  <1>4. CASE ~x.record.pi
    <2>1. Fit(z, m) /\ Stays(x, z)
      <3> DEFINE y == [x EXCEPT !.record = WithStatus(x, "stopping"), !.file = WithStatus(x, "stopping"),
                     !.bound = FALSE]
      <3>1. z = y
        OBVIOUS
      <3>2. Shaped(y)
        BY Zenon DEF Fit, Shaped
      <3>3. Typed(y)
        BY <1>0, <1>4 DEF Fit, Shaped, Fields, Typed, IsRecord, Statuses, WithStatus
      <3>4. Children(y) /\ Spawning(y) /\ Claims(y)
        BY <1>0, <1>4 DEF Fit, Shaped, Fields, WithStatus, Children, Tended, Inert, NoStops,
             Spawning, Claims, Claimed
      <3>5. OnFile(y, m) /\ (m = "up" => Listed(y)) /\ Stays(x, y)
        BY <1>0, <1>4 DEF Fit, Shaped, Fields, WithStatus, Children, Inert, Spawning, Claims, Claimed,
             OnFile, Listed, Stays
      <3> HIDE DEF y
      <3> QED
        BY <3>1, <3>2, <3>3, <3>4, <3>5 DEF Fit
    <2> HIDE DEF z
    <2>2. BeginStop(x, s) = Dispose(z, s, x.proc)
      <3>1. z.record.pi = x.record.pi
        BY <1>2 DEF WithStatus
      <3> QED BY <1>1, <1>2, <1>4, <3>1, Zenon DEF BeginStop
    <2>3. /\ z.record.status \in Claimed => z.late
          /\ z.late \/ ~z.record.pi
          /\ x.proc \in BOOLEAN /\ Shaped(z) /\ Typed(z)
      BY <1>2, <1>4, <1>0, <2>1 DEF Claimed, WithStatus, Typed, Fit
    <2>4. Fit(Dispose(z, s, x.proc), m) /\ Stays(z, Dispose(z, s, x.proc))
      BY <1>0, <1>2, <2>1, <2>3, DisposeFits
    <2>5. Dispose(z, s, x.proc).live => Dispose(z, s, x.proc).stop[s].at # "no"
      BY <2>3, DisposeEnds
    <2> QED BY <2>1, <2>2, <2>4, <2>5 DEF Stays
  <1> QED BY <1>3, <1>4, <1>0 DEF IsRecord


LEMMA StopDisconnectedFits ==
  ASSUME NEW x, NEW m \in {"up", "recovering"}, Fit(x, m), NEW s \in Stoppers, x.stop[s].at = "disconnecting"
  PROVE  LET y == Dispose([x EXCEPT !.record.pi = FALSE, !.known = FALSE], s, x.stop[s].proc)
         IN Fit(y, m) /\ Stays(x, y)
  <1> DEFINE r == [status |-> x.record.status, pi |-> FALSE]
             v == [x EXCEPT !.record = r, !.known = FALSE]
             proc == x.stop[s].proc
  <1>0. Shaped(x) /\ Typed(x) /\ IsRecord(x.record) /\ x.spawn # "none"
    BY DEF Fit, Typed, Children, Inert, NoStops
  <1>a. proc \in BOOLEAN
    BY <1>0 DEF Typed
  <1>1. [x EXCEPT !.record.pi = FALSE, !.known = FALSE] = v
    <2>1. [x.record EXCEPT !.pi = FALSE] = r
      BY <1>0, RecordWith
    <2>2. [x EXCEPT !.record = [x.record EXCEPT !.pi = FALSE], !.known = FALSE] = v
      BY <2>1
    <2>3. [x EXCEPT !.record.pi = FALSE, !.known = FALSE] = [x EXCEPT !.record = [x.record EXCEPT !.pi = FALSE], !.known = FALSE]
      BY <1>0, Extensional DEF Shaped, Fields
    <2> QED BY <2>2, <2>3
  <1>2. Fit(v, m) /\ Stays(x, v)
    <2> DEFINE y == [x EXCEPT !.record = r, !.known = FALSE]
    <2>1. v = y
      OBVIOUS
    <2>2. Shaped(y)
      BY Zenon DEF Fit, Shaped
    <2>3. Typed(y)
      BY <1>0 DEF Fit, Shaped, Fields, Typed, IsRecord, Statuses, WithStatus
    <2>4. Children(y) /\ Spawning(y) /\ Claims(y)
      BY <1>0 DEF Fit, Shaped, Fields, WithStatus, Children, Tended, Inert, NoStops,
           Spawning, Claims, Claimed
    <2>5. OnFile(y, m) /\ (m = "up" => Listed(y)) /\ Stays(x, y)
      BY <1>0 DEF Fit, Shaped, Fields, WithStatus, Children, Inert, Spawning, Claims, Claimed,
           OnFile, Listed, Stays
    <2> HIDE DEF y
    <2> QED
      BY <2>1, <2>2, <2>3, <2>4, <2>5 DEF Fit
  <1>3. /\ v.stop = x.stop /\ v.spawn = x.spawn /\ v.record = r
        /\ v.record.status \in Claimed => v.late
    BY <1>0 DEF Fit, Shaped, Fields, Claims, NoStops
  <1> HIDE DEF v
  <1>4. Fit(Dispose(v, s, proc), m) /\ Stays(v, Dispose(v, s, proc))
    BY <1>0, <1>a, <1>2, <1>3, DisposeFits
  <1> QED BY <1>1, <1>2, <1>4 DEF Stays


LEMMA StopDisconnectFailsFits ==
  ASSUME NEW x, NEW m \in {"up", "recovering"}, Fit(x, m), NEW s \in Stoppers, x.stop[s].at = "disconnecting"
  PROVE  LET y == [StopDone(x, s) EXCEPT !.lost = TRUE]
         IN Fit(y, m) /\ Stays(x, y) /\ y.lost /\ ~y.live
  <1>0. Shaped(x) /\ IsRecord(x.record) /\ x.spawn # "none"
    BY DEF Fit, Typed, Children, Inert, NoStops
  <1>1. [StopDone(x, s) EXCEPT !.lost = TRUE] = Ended(x, StopEnded(x, s), TRUE)
    BY <1>0, StopDoneIs
  <1>2. /\ x.record.status \in Claimed => x.late
        /\ x.spawn = "starting" => x.child # "running"
    BY DEF Fit, Claims, Spawning, NoStops
  <1>3. Fit(Ended(x, StopEnded(x, s), TRUE), m) /\ Stays(x, Ended(x, StopEnded(x, s), TRUE))
    BY <1>0, <1>2, StopDoneFits
  <1>4. Ended(x, StopEnded(x, s), TRUE).lost /\ ~Ended(x, StopEnded(x, s), TRUE).live
    BY <1>0 DEF Ended, Shaped, Fields
  <1> QED BY <1>1, <1>3, <1>4


LEMMA DisposedFits ==
  ASSUME NEW x, NEW m \in {"up", "recovering"}, Fit(x, m), x.child # "running", x.spawn # "none"
  PROVE  Fit(Disposed(x), m) /\ Stays(x, Disposed(x))
  <1> DEFINE w == IF x.spawn = "disposing" THEN SpawnFailed(x) ELSE x
             stopped == {s \in Stoppers : w.stop[s].at = "disposing"}
             stop == [s \in Stoppers |-> IF s \in stopped THEN NoStop ELSE w.stop[s]]
  <1>0. Shaped(x) /\ IsRecord(x.record)
    BY DEF Fit, Typed
  <1>1. Fit(w, m) /\ Stays(x, w) /\ w.child # "running" /\ w.spawn # "none"
    <2>1. CASE x.spawn = "disposing"
      <3>a. w = SpawnFailed(x)
        BY <2>1
      <3> DEFINE y == [x EXCEPT !.record = WithStatus(x, "stopped"), !.file = WithStatus(x, "stopped"),
                       !.live = FALSE, !.spawn = "failed"]
      <3>1. SpawnFailed(x) = y
        BY <1>0, SpawnFailedIs, Zenon
      <3>2. Shaped(y)
        BY Zenon DEF Fit, Shaped
      <3>3. Typed(y)
        BY <2>1 DEF Fit, Shaped, Fields, Typed, IsRecord, Statuses, WithStatus
      <3>4. Children(y) /\ Spawning(y) /\ Claims(y)
        BY <2>1 DEF Fit, Shaped, Fields, WithStatus, Children, Tended, Inert, NoStops,
             Spawning, Claims, Claimed
      <3>5. OnFile(y, m) /\ (m = "up" => Listed(y)) /\ Stays(x, y)
        BY <2>1 DEF Fit, Shaped, Fields, WithStatus, Children, Inert, Spawning, Claims, Claimed,
             OnFile, Listed, Stays
      <3>6. y.child = x.child /\ y.spawn = "failed"
        BY DEF Fit, Shaped, Fields
      <3> HIDE DEF y, w
      <3> QED
        BY <3>a, <3>6, <3>1, <3>2, <3>3, <3>4, <3>5 DEF Fit
    <2>2. CASE x.spawn # "disposing"
      BY <2>2 DEF Stays
    <2> QED BY <2>1, <2>2
  <1> HIDE DEF w
  <1>2. CASE stopped = {}
    <2>1. Disposed(x) = w
      BY <1>2, Zenon DEF Disposed, w
    <2> QED BY <1>1, <2>1
  <1>3. CASE stopped # {}
    <2>0. Shaped(w) /\ Typed(w) /\ IsRecord(w.record)
      BY <1>1 DEF Fit, Typed
    <2>1. Disposed(x) = [w EXCEPT !.record.status = "stopped", !.live = FALSE, !.file = NoRecord, !.stop = stop]
      BY <1>3, Zenon DEF Disposed, w
    <2>2. [w.record EXCEPT !.status = "stopped"] = WithStatus(w, "stopped")
      BY <2>0, RecordWith DEF WithStatus
    <2>3. /\ stop \in [Stoppers -> [at : {"no", "disconnecting", "disposing"}, proc : BOOLEAN]]
          /\ \A s \in Stoppers : stop[s] \in {w.stop[s], NoStop}
          /\ w.lost \in BOOLEAN
      BY <2>0 DEF Typed, NoStop
    <2>4. (w.record.status \in Claimed => w.late) /\ (w.late \/ ~w.record.pi)
      <3>1. PICK s \in Stoppers : w.stop[s].at = "disposing"
        BY <1>3
      <3> QED BY <1>1, <3>1 DEF Fit, Claims, NoStops
    <2> HIDE DEF stop
    <2>5. Disposed(x) = Ended(w, stop, w.lost)
      BY <2>0, <2>1, <2>2, Extensional DEF Ended, Shaped, Fields
    <2>6. Fit(Ended(w, stop, w.lost), m) /\ Stays(w, Ended(w, stop, w.lost))
      BY <1>1, <2>3, <2>4, EndedFits
    <2> QED BY <1>1, <2>5, <2>6 DEF Stays
  <1> QED BY <1>2, <1>3


\* The end of a child, with all that hears of it.
LEMMA ChildExitsFits ==
  ASSUME NEW x, NEW m \in {"up", "recovering"}, Fit(x, m), Alive(x)
  PROVE  LET y == Disposed(RejectAll(UnexpectedExit([x EXCEPT !.child = "exited"])))
         IN Fit(y, m) /\ Stays(x, y)
  <1> DEFINE a == [x EXCEPT !.child = "exited"]
             b == UnexpectedExit(a)
             c == RejectAll(b)
  <1>0. x.spawn # "none" /\ Shaped(x)
    BY DEF Fit, Children, Alive
  <1>1. Fit(a, m) /\ Stays(x, a) /\ a.child = "exited" /\ a.spawn = x.spawn
    <2>1. a.child = "exited" /\ a.spawn = x.spawn
      BY <1>0 DEF Shaped, Fields
    <2> QED BY <2>1, ChildFits
  <1> HIDE DEF a
  <1>2. Fit(b, m) /\ Stays(a, b) /\ b.child = "exited" /\ b.spawn = x.spawn
    BY <1>1, UnexpectedExitFits
  <1>3. Shaped(b) /\ IsRecord(b.record)
    BY <1>2 DEF Fit, Typed
  <1> HIDE DEF b
  <1>4. Fit(c, m) /\ Stays(b, c) /\ c.child = "exited" /\ c.spawn # "none"
    BY <1>0, <1>2, <1>3, RejectAllFits, RejectAllKeeps
  <1> HIDE DEF c
  <1>5. Fit(Disposed(c), m) /\ Stays(c, Disposed(c))
    BY <1>4, DisposedFits
  <1> QED BY <1>1, <1>2, <1>4, <1>5 DEF Stays, a, b, c

\* The record of a spawn, by whether recovery is under way.
Born(x, early) ==
  Upsert([x EXCEPT !.record.status = "starting", !.live = TRUE, !.early = early])

LEMMA StartedIs ==
  ASSUME NEW x, Shaped(x), IsRecord(x.record), NEW early
  PROVE  Born(x, early) = [x EXCEPT !.record = WithStatus(x, "starting"), !.file = WithStatus(x, "starting"),
                                !.live = TRUE, !.early = early]
  <1>1. [x.record EXCEPT !.status = "starting"] = WithStatus(x, "starting")
    BY RecordWith DEF WithStatus
  <1> DEFINE y == [x EXCEPT !.record = WithStatus(x, "starting"), !.file = WithStatus(x, "starting"),
                                !.live = TRUE, !.early = early]
  <1>2. Shaped(Born(x, early))
    <2> DEFINE z == [x EXCEPT !.record.status = "starting", !.live = TRUE, !.early = early]
    <2>1. Shaped(z)
      BY Zenon DEF Shaped
    <2>2. Born(x, early) = Upsert(z)
      BY Zenon DEF Born
    <2> HIDE DEF z
    <2> QED BY <2>1, <2>2, Zenon DEF Upsert, Shaped
  <1>3. Shaped(y)
    BY Zenon DEF Shaped
  <1>4. \A f \in Fields : Born(x, early)[f] = y[f]
    BY <1>1 DEF Born, Upsert, Shaped, Fields
  <1> QED BY <1>2, <1>3, <1>4, Extensional

Spawned(x, early) ==
  [Born(x, early) EXCEPT !.proc = TRUE, !.bound = TRUE, !.child = "running", !.spawn = "starting"]

LEMMA SpawnFits ==
  ASSUME NEW x, NEW m \in {"up", "recovering"}, Fit(x, m), x.spawn = "none",
         NEW early, early = (m = "recovering")
  PROVE  LET y == Spawned(x, early)
         IN Fit(y, m) /\ (m = "recovering" => y.early)
  <1> DEFINE r == WithStatus(x, "starting")
  <1>a. /\ Shaped(x) /\ IsRecord(x.record) /\ early \in BOOLEAN
        /\ r = [status |-> "starting", pi |-> FALSE] /\ ~x.proc /\ x.child = "none"
        /\ NoStops(x) /\ ~x.known
    <2>1. Shaped(x) /\ IsRecord(x.record)
      BY DEF Fit, Typed
    <2>2. early \in BOOLEAN
      OBVIOUS
    <2>3. Inert(x) /\ x.child = "none" /\ ~x.known
      BY DEF Fit, Children
    <2>4. ~x.proc /\ NoStops(x) /\ x.record = NoRecord
      BY <2>3 DEF Inert
    <2>5. r = [status |-> "starting", pi |-> FALSE]
      BY <2>4 DEF NoRecord, WithStatus
    <2> QED BY <2>1, <2>2, <2>3, <2>4, <2>5
  <1> HIDE DEF r
  <1>b. Born(x, early) = [x EXCEPT !.record = r, !.file = r, !.live = TRUE, !.early = early]
    BY <1>a, StartedIs DEF r
  <1> DEFINE y == [x EXCEPT !.record = r, !.file = r, !.live = TRUE, !.early = early,
                   !.proc = TRUE, !.bound = TRUE, !.child = "running", !.spawn = "starting"]
  <1>1. Spawned(x, early) = y
    BY <1>b DEF Spawned
  <1>2. Shaped(y)
    BY Zenon DEF Fit, Shaped
  <1>3. Typed(y)
    BY <1>a DEF Fit, Shaped, Fields, Typed, IsRecord, Statuses, WithStatus
  <1>4. Children(y) /\ Spawning(y) /\ Claims(y)
    BY <1>a DEF Fit, Shaped, Fields, WithStatus, Children, Tended, Inert, NoStops,
         Spawning, Claims, Claimed
  <1>5. OnFile(y, m) /\ (m = "up" => Listed(y))
    BY <1>a DEF Fit, Shaped, Fields, WithStatus, Children, Inert, Spawning, Claims, Claimed,
         OnFile, Listed, Stays
  <1>6. y.early = early
    BY <1>a DEF Shaped, Fields
  <1> HIDE DEF y
  <1> QED
    BY <1>1, <1>2, <1>3, <1>4, <1>5, <1>6 DEF Fit
LEMMA SpawnThrowsFits ==
  ASSUME NEW x, NEW m \in {"up", "recovering"}, Fit(x, m), x.spawn = "none",
         NEW early, early = (m = "recovering")
  PROVE  LET y == FailSpawn(Born(x, early))
         IN Fit(y, m) /\ (m = "recovering" => y.early) /\ ~y.live
  <1> DEFINE r == WithStatus(x, "starting")
  <1>a. /\ Shaped(x) /\ IsRecord(x.record) /\ early \in BOOLEAN
        /\ r = [status |-> "starting", pi |-> FALSE] /\ ~x.proc /\ x.child = "none"
        /\ NoStops(x) /\ ~x.known
    <2>1. Shaped(x) /\ IsRecord(x.record)
      BY DEF Fit, Typed
    <2>2. early \in BOOLEAN
      OBVIOUS
    <2>3. Inert(x) /\ x.child = "none" /\ ~x.known
      BY DEF Fit, Children
    <2>4. ~x.proc /\ NoStops(x) /\ x.record = NoRecord
      BY <2>3 DEF Inert
    <2>5. r = [status |-> "starting", pi |-> FALSE]
      BY <2>4 DEF NoRecord, WithStatus
    <2> QED BY <2>1, <2>2, <2>3, <2>4, <2>5
  <1> HIDE DEF r
  <1> DEFINE s == [x EXCEPT !.record = r, !.file = r, !.live = TRUE, !.early = early]
             q == [status |-> "stopped", pi |-> FALSE]
  <1>b. FailSpawn(Born(x, early)) = [s EXCEPT !.record = q, !.file = q, !.bound = FALSE, !.proc = FALSE,
                                          !.live = FALSE, !.spawn = "failed"]
    <2>1. Born(x, early) = s
      BY <1>a, StartedIs DEF r
    <2>2. Shaped(s)
      BY <1>a, Zenon DEF Shaped
    <2>3. ~s.proc /\ IsRecord(s.record) /\ WithStatus(s, "stopped") = q
      BY <1>a DEF Shaped, Fields, IsRecord, Statuses, WithStatus
    <2> HIDE DEF s, q
    <2> QED BY <2>1, <2>2, <2>3, FailSpawnIs, Zenon
  <1> DEFINE y == [x EXCEPT !.live = FALSE, !.early = early, !.record = q, !.file = q,
                   !.bound = FALSE, !.proc = FALSE, !.spawn = "failed"]
  <1>1. FailSpawn(Born(x, early)) = y
    BY <1>b, <1>a, Extensional DEF Shaped, Fields
  <1>2. Shaped(y)
    BY Zenon DEF Fit, Shaped
  <1>3. Typed(y)
    BY <1>a DEF Fit, Shaped, Fields, Typed, IsRecord, Statuses, WithStatus
  <1>4. Children(y) /\ Spawning(y) /\ Claims(y)
    BY <1>a DEF Fit, Shaped, Fields, WithStatus, Children, Tended, Inert, NoStops,
         Spawning, Claims, Claimed
  <1>5. OnFile(y, m) /\ (m = "up" => Listed(y))
    BY <1>a DEF Fit, Shaped, Fields, WithStatus, Children, Inert, Spawning, Claims, Claimed,
         OnFile, Listed, Stays
  <1>7. ~y.live
    BY <1>a DEF Shaped, Fields
  <1>6. y.early = early
    BY <1>a DEF Shaped, Fields
  <1> HIDE DEF y
  <1> QED
    BY <1>1, <1>2, <1>3, <1>4, <1>5, <1>6, <1>7 DEF Fit
LEMMA ForgetFits ==
  ASSUME NEW x, NEW m, Fit(x, m)
  PROVE  LET y == [x EXCEPT !.known = FALSE]
         IN /\ Fit(y, m) /\ Stays(x, y) /\ ~y.known /\ y.file = x.file /\ y.late = x.late
            /\ (Inert(x) => Inert(y)) /\ (y.live => x.live)
  <1> DEFINE y == [x EXCEPT !.known = FALSE]
  <1>1. [x EXCEPT !.known = FALSE] = y
    OBVIOUS
  <1>2. Shaped(y)
    BY Zenon DEF Fit, Shaped
  <1>3. Typed(y)
    BY DEF Fit, Shaped, Fields, Typed, IsRecord, Statuses, WithStatus
  <1>4. Children(y) /\ Spawning(y) /\ Claims(y)
    BY DEF Fit, Shaped, Fields, WithStatus, Children, Tended, Inert, NoStops,
         Spawning, Claims, Claimed
  <1>5. OnFile(y, m) /\ Listed(y) /\ Stays(x, y)
    BY DEF Fit, Shaped, Fields, WithStatus, Children, Inert, Spawning, Claims, Claimed,
         OnFile, Listed, Stays
  <1>6. ~y.known /\ y.file = x.file /\ y.late = x.late /\ (Inert(x) => Inert(y)) /\ (y.live => x.live)
    BY DEF Fit, Shaped, Fields, Inert, NoStops
  <1> HIDE DEF y
  <1> QED
    BY <1>1, <1>2, <1>3, <1>4, <1>5, <1>6 DEF Fit

\* What an orchestrator that ends leaves behind.
LEMMA ForgottenFits ==
  ASSUME NEW x, NEW m \in {"down", "exited"}, Shaped(x), Typed(x), Children(x), Spawning(x)
  PROVE  LET y == Forgotten(x)
         IN /\ Fit(y, m) /\ Inert(y)
            /\ y.known = x.known /\ y.file = x.file
            /\ y.early = x.early /\ y.late = x.late /\ y.lost = x.lost
  <1> DEFINE y == Forgotten(x)
  <1>1. Shaped(y)
    <2>1. Shaped(NewInstance)
      BY DEF Shaped, Fields, NewInstance
    <2> QED BY <2>1, Zenon DEF Forgotten, Shaped
  <1>2. /\ y.record = NoRecord /\ y.file = x.file /\ ~y.live /\ ~y.proc /\ ~y.bound
        /\ y.child = (IF x.child = "running" THEN "term" ELSE x.child)
        /\ y.spawn = (IF x.spawn = "none" THEN "none" ELSE "failed")
        /\ ~y.exiting /\ y.stop = [s \in Stoppers |-> NoStop] /\ y.rpc = "none"
        /\ ~y.entry /\ y.beat = "idle" /\ y.missed = 0 /\ y.clone = NoRecord
        /\ y.known = x.known /\ y.early = x.early /\ y.late = x.late /\ y.lost = x.lost
    BY DEF Forgotten, NewInstance
  <1>3. /\ y.live \in BOOLEAN /\ y.proc \in BOOLEAN /\ y.bound \in BOOLEAN
        /\ y.exiting \in BOOLEAN /\ y.entry \in BOOLEAN
    BY DEF Forgotten, NewInstance
  <1>4. IsRecord(NoRecord) /\ NoRecord.status = "none" /\ NoRecord.pi = FALSE
        /\ 0 \in 0..NotFoundThreshold
        /\ [s \in Stoppers |-> NoStop] \in [Stoppers -> [at : {"no", "disconnecting", "disposing"}, proc : BOOLEAN]]
        /\ \A s \in Stoppers : [t \in Stoppers |-> NoStop][s].at = "no"
    BY SupervisorAssumption DEF IsRecord, NoRecord, Statuses, NoStop
  <1> HIDE DEF y
  <1>5. Typed(y)
    BY <1>2, <1>3, <1>4 DEF Typed
  <1>6. Inert(y)
    BY <1>2, <1>4, <1>5 DEF Inert, NoStops, Typed
  <1>7. Children(y) /\ Spawning(y) /\ Claims(y) /\ OnFile(y, m)
    BY <1>2, <1>4, <1>6 DEF Children, Inert, Spawning, Claims, Claimed, OnFile, NoStops
  <1> QED BY <1>1, <1>2, <1>5, <1>6, <1>7 DEF Fit, y

-----------------------------------------------------------------------------
\* Radius lists an instance of the last orchestrator only while it is on file,
\* and until it is disconnected; an orderly shutdown leaves those it did not know of.
LeftOver(i) ==
  LET x == inst[i]
  IN x.known /\ ~x.late /\ ~x.lost /\ ~x.early =>
       /\ x.file.pi
       /\ mode = "exited" => i \in unlisted
       /\ mode = "recovering" => i \in recovering

\* What the mode says of an instance.
InMode(i) ==
  LET x == inst[i]
  IN /\ mode \in {"down", "exited"} => Inert(x)
     /\ mode = "recovering" => Inert(x) \/ x.early
     /\ mode = "recovering" => snapshot[i].status \notin Claimed
     /\ mode \notin {"up", "stuck"} => LeftOver(i)
     /\ mode = "exited" /\ x.file.status \in Claimed => x.late \/ i \in unlisted
     /\ mode = "up" /\ closing /\ x.live
          => i \in todo \/ x.stop[Main].at # "no" \/ i \in unlisted

Daemon ==
  /\ mode \in {"recovering", "up", "down", "exited", "stuck"}
  /\ closing \in BOOLEAN /\ todo \subseteq Instances /\ unlisted \subseteq Instances
  /\ snapshot \in [Instances -> Records] /\ recovering \subseteq Instances
  /\ faults \in 0..MaxFaults /\ forgets \in 0..MaxForgets
  /\ crashes \in 0..MaxCrashes
  /\ closing => mode \in {"up", "exited", "stuck"}

SupervisorInv ==
  /\ Daemon
  /\ inst = [i \in Instances |-> inst[i]]
  /\ \A i \in Instances : Fit(inst[i], mode) /\ InMode(i)

LEMMA InitInv == Init => SupervisorInv
  <1> SUFFICES ASSUME Init PROVE SupervisorInv
    OBVIOUS
  <1>1. Daemon
    <2>1. 0 \in 0..MaxFaults /\ 0 \in 0..MaxForgets /\ 0 \in 0..MaxCrashes
      BY SupervisorAssumption
    <2>2. NoRecord \in Records
      BY DEF Records, NoRecord
    <2> QED BY <2>1, <2>2 DEF Init, Daemon
  <1>2. inst = [i \in Instances |-> inst[i]] /\ \A i \in Instances : inst[i] = NewInstance
    BY DEF Init
  <1>3. Shaped(NewInstance)
    BY DEF Shaped, Fields, NewInstance
  <1>4. IsRecord(NoRecord) /\ NoRecord.status = "none" /\ NoRecord.pi = FALSE
        /\ 0 \in 0..NotFoundThreshold
    BY SupervisorAssumption DEF IsRecord, NoRecord, Statuses
  <1>5. Typed(NewInstance) /\ Inert(NewInstance) /\ NewInstance.child = "none" /\ ~NewInstance.known
    BY <1>4 DEF Typed, NewInstance, NoStop, Inert, NoStops
  <1>6. /\ Children(NewInstance) /\ Spawning(NewInstance) /\ Claims(NewInstance)
        /\ OnFile(NewInstance, "up") /\ Listed(NewInstance)
    BY <1>4, <1>5 DEF NewInstance, NoStop, Inert, NoStops, Children, Spawning, Claims, Claimed, OnFile, Listed
  <1>7. \A i \in Instances : Fit(inst[i], mode)
    BY <1>2, <1>3, <1>5, <1>6 DEF Fit, Init
  <1>8. \A i \in Instances : InMode(i)
    BY <1>2, <1>5 DEF InMode, Init
  <1> QED BY <1>1, <1>2, <1>7, <1>8 DEF SupervisorInv

LEMMA TypeOKFromInv == SupervisorInv => TypeOK
  <1> SUFFICES ASSUME SupervisorInv PROVE TypeOK
    OBVIOUS
  <1>1. \A i \in Instances : inst[i] \in Instance
    BY InstanceFacts DEF SupervisorInv, Fit
  <1> QED BY <1>1 DEF SupervisorInv, TypeOK, Daemon

\* A step of one instance, which the orchestrator does not notice.
LEMMA InstanceStep ==
  ASSUME SupervisorInv, Running, NEW i \in Instances, NEW y, Fit(y, mode),
         inst' = [inst EXCEPT ![i] = y],
         mode = "recovering" => y.early,
         todo' \in {todo, todo \ {i}},
         unlisted \subseteq unlisted', unlisted' \subseteq Instances,
         closing /\ y.live => i \in todo' \/ y.stop[Main].at # "no" \/ i \in unlisted',
         faults' \in 0..MaxFaults, forgets' \in 0..MaxForgets,
         UNCHANGED <<mode, closing, snapshot, recovering, crashes>>
  PROVE  SupervisorInv'
  <1>1. Daemon'
    BY DEF SupervisorInv, Daemon
  <1>2. inst' = [j \in Instances |-> inst'[j]] /\ inst'[i] = y
        /\ \A j \in Instances \ {i} : inst'[j] = inst[j]
    BY DEF SupervisorInv
  <1>3. ASSUME NEW j \in Instances PROVE Fit(inst'[j], mode') /\ InMode(j)'
    <2>1. CASE j = i
      <3>1. Fit(inst'[j], mode')
        BY <1>2, <2>1
      <3>2. InMode(j)'
        BY <1>2, <2>1 DEF SupervisorInv, InMode, LeftOver, Running
      <3> QED BY <3>1, <3>2
    <2>2. CASE j # i
      <3>1. Fit(inst[j], mode) /\ InMode(j) /\ inst'[j] = inst[j]
        BY <1>2, <2>2 DEF SupervisorInv
      <3>2. j \in todo => j \in todo'
        BY <2>2
      <3> QED BY <3>1, <3>2 DEF InMode, LeftOver
    <2> QED BY <2>1, <2>2
  <1> QED BY <1>1, <1>2, <1>3 DEF SupervisorInv

\* The steps of what an instance is busy with.
LEMMA BusyStep ==
  ASSUME SupervisorInv, Running, NEW i \in Instances, ~Inert(inst[i]),
         NEW y, Fit(y, mode), Stays(inst[i], y),
         Becomes(i, y) \/ BecomesByFault(i, y)
  PROVE  SupervisorInv'
  <1>1. mode = "recovering" => y.early
    BY DEF SupervisorInv, InMode, Stays
  <1>2. closing /\ y.live => i \in todo \/ y.stop[Main].at # "no" \/ i \in unlisted
    BY DEF SupervisorInv, InMode, Stays, Running, Daemon
  <1>4. unlisted \subseteq Instances
    BY DEF SupervisorInv, Daemon
  <1>3. faults' \in 0..MaxFaults /\ forgets' \in 0..MaxForgets
    BY SupervisorAssumption DEF SupervisorInv, Daemon, Becomes, BecomesByFault
  <1> QED BY <1>1, <1>2, <1>3, <1>4, InstanceStep DEF Becomes, BecomesByFault, daemon

LEMMA SpawnInv ==
  ASSUME SupervisorInv, NEW i \in Instances, Spawn(i) \/ SpawnThrows(i)
  PROVE  SupervisorInv'
  <1> DEFINE x == inst[i]
             early == mode = "recovering"
             y == Spawned(x, early)
             z == FailSpawn(Born(x, early))
  <1>1. /\ Fit(x, mode) /\ Running /\ x.spawn = "none" /\ mode \in {"up", "recovering"}
        /\ UNCHANGED <<daemon, forgets>>
    BY DEF SupervisorInv, Spawn, SpawnThrows, Enlist, Running
  <1>2. faults' \in 0..MaxFaults /\ forgets' \in 0..MaxForgets
    BY SupervisorAssumption DEF SupervisorInv, Daemon, Spawn, SpawnThrows, Enlist
  <1>5. /\ unlisted \subseteq unlisted' /\ unlisted' \subseteq Instances
        /\ (closing => i \in unlisted')
    BY DEF SupervisorInv, Daemon, Spawn, SpawnThrows, Enlist
  <1>0. early = (mode = "recovering")
    OBVIOUS
  <1>s. Started(x) = Born(x, early)
    BY Zenon DEF Started, Born
  <1> HIDE DEF early
  <1>3. CASE Spawn(i)
    <2>1. Fit(y, mode) /\ (mode = "recovering" => y.early)
      BY <1>0, <1>1, SpawnFits
    <2>2. inst' = [inst EXCEPT ![i] = y]
      BY <1>3, <1>s DEF Spawn, Spawned
    <2> HIDE DEF y
    <2> QED BY <1>1, <1>2, <1>5, <2>1, <2>2, InstanceStep DEF daemon
  <1>4. CASE SpawnThrows(i)
    <2>1. Fit(z, mode) /\ (mode = "recovering" => z.early) /\ ~z.live
      BY <1>0, <1>1, SpawnThrowsFits
    <2>2. inst' = [inst EXCEPT ![i] = z]
      BY <1>4, <1>s DEF SpawnThrows
    <2> HIDE DEF z
    <2> QED BY <1>1, <1>2, <1>5, <2>1, <2>2, InstanceStep DEF daemon
  <1> QED BY <1>3, <1>4

LEMMA SpawnStepsInv ==
  ASSUME SupervisorInv, NEW i \in Instances, SpawnSteps(i)
  PROVE  SupervisorInv'
  <1> DEFINE x == inst[i]
  <1>1. Fit(x, mode) /\ mode \in {"up", "recovering"} /\ Running
    BY DEF SupervisorInv, SpawnSteps, StateAnswered, WriteFails, RegisterOk, RegisterFails, Running
  <1>2. ~Inert(x)
    <2>1. Upsert(x).spawn = x.spawn
      BY <1>1 DEF Upsert, Fit, Shaped, Fields
    <2> QED BY <2>1 DEF SpawnSteps, StateAnswered, WriteFails, RegisterOk, RegisterFails, Inert
  <1>3. CASE StateAnswered(i)
    <2> DEFINE y == IF Radius THEN [Upsert(x) EXCEPT !.spawn = "registering"]
                    ELSE [SetStatus(Upsert(x), "online") EXCEPT !.spawn = "online"]
    <2>1. x.spawn = "starting" /\ x.child = "running"
      BY <1>1, <1>3 DEF StateAnswered, Upsert, Fit, Shaped, Fields
    <2>2. Fit(y, mode) /\ Stays(x, y)
      BY <1>1, <2>1, StateAnsweredFits
    <2>3. Becomes(i, y)
      BY <1>3, Zenon DEF StateAnswered
    <2> QED BY <1>1, <1>2, <2>2, <2>3, BusyStep
  <1>4. CASE WriteFails(i) \/ RegisterFails(i)
    <2>1. x.spawn \in {"starting", "registering"} /\ BecomesByFault(i, FailSpawn(x))
      BY <1>4, Zenon DEF WriteFails, RegisterFails
    <2>2. Fit(FailSpawn(x), mode) /\ Stays(x, FailSpawn(x))
      BY <1>1, <2>1, FailSpawnFits
    <2> QED BY <1>1, <1>2, <2>1, <2>2, BusyStep
  <1>5. CASE RegisterOk(i)
    <2> DEFINE late == x.late \/ x.record.status # "starting"
               u == [SetPi(x, TRUE) EXCEPT !.entry = TRUE, !.missed = 0, !.known = TRUE]
               y == [SetStatus(u, "online") EXCEPT !.spawn = "online", !.late = late]
    <2>1. x.spawn = "registering" /\ Becomes(i, y)
      BY <1>5, Zenon DEF RegisterOk
    <2>2. late \in BOOLEAN /\ (~late => ~x.late /\ x.record.status = "starting")
      OBVIOUS
    <2> HIDE DEF late
    <2>3. Fit(y, mode) /\ Stays(x, y)
      BY <1>1, <2>1, <2>2, RegisterOkFits
    <2> HIDE DEF y
    <2> QED BY <1>1, <1>2, <2>1, <2>3, BusyStep
  <1> QED BY <1>3, <1>4, <1>5 DEF SpawnSteps

LEMMA ChildExitsInv ==
  ASSUME SupervisorInv, NEW i \in Instances, ChildExits(i)
  PROVE  SupervisorInv'
  <1> DEFINE x == inst[i]
             a == [x EXCEPT !.child = "exited"]
             y == Disposed(RejectAll(UnexpectedExit(a)))
  <1>1. /\ Fit(x, mode) /\ InMode(i) /\ Alive(x)
        /\ inst' = [inst EXCEPT ![i] = IF Running THEN y ELSE a]
        /\ UNCHANGED <<daemon, unlisted, faults, forgets>>
        /\ Shaped(x) /\ Typed(x) /\ mode # "stuck"
    BY Zenon DEF SupervisorInv, ChildExits, Becomes, Fit
  <1>2. CASE Running /\ ~Inert(x)
    <2>1. Fit(y, mode) /\ Stays(x, y)
      BY <1>1, <1>2, ChildExitsFits DEF Running
    <2>2. Becomes(i, y)
      BY <1>2, Zenon DEF ChildExits
    <2> HIDE DEF y
    <2> QED BY <1>2, <2>1, <2>2, BusyStep
  <1>3. CASE ~Running \/ Inert(x)
    <2>1. /\ a.child = "exited" /\ Shaped(a)
          /\ a.record = x.record /\ a.file = x.file /\ a.live = x.live /\ a.proc = x.proc
          /\ a.bound = x.bound /\ a.spawn = x.spawn /\ a.exiting = x.exiting /\ a.stop = x.stop
          /\ a.rpc = x.rpc /\ a.entry = x.entry /\ a.beat = x.beat /\ a.missed = x.missed
          /\ a.clone = x.clone /\ a.known = x.known /\ a.early = x.early /\ a.late = x.late
          /\ a.lost = x.lost
      <3>1. Shaped(a)
        BY <1>1, Zenon DEF Shaped
      <3> QED BY <1>1, <3>1 DEF Shaped, Fields
    <2>2. Inert(x) /\ x.spawn # "none"
      BY <1>1, <1>3 DEF SupervisorInv, Daemon, Running, InMode, Fit, Children, Alive
    <2> HIDE DEF a
    <2>3. Inert(a)
      BY <2>1, <2>2 DEF Inert, NoStops
    <2>4. Fit(a, mode)
      <3>1. Typed(a)
        BY <1>1, <2>1 DEF Typed
      <3>2. Children(a) /\ Spawning(a)
        BY <1>1, <2>1, <2>2, <2>3 DEF Fit, Children, Spawning, Inert
      <3>3. Claims(a) /\ OnFile(a, mode) /\ (mode = "up" => Listed(a))
        BY <1>1, <2>1, <2>2, <2>3 DEF Fit, Claims, OnFile, Listed, NoStops
      <3> QED BY <2>1, <3>1, <3>2, <3>3 DEF Fit
    <2>5. y = a
      <3>1. UnexpectedExit(a) = a
        BY <2>3, Zenon DEF UnexpectedExit, Inert
      <3>2. RejectAll(a) = a
        <4> DEFINE b == [a EXCEPT !.rpc = "none"]
        <4>1. b = a
          BY <2>1, <2>3, Extensional DEF Inert, Shaped, Fields
        <4>2. a.spawn # "starting"
          BY <2>3 DEF Inert
        <4> HIDE DEF b
        <4>3. RejectAll(a) = IF b.spawn = "starting" THEN SpawnFailed(SetStatus(b, "error")) ELSE b
          BY Zenon DEF RejectAll, b
        <4> QED BY <4>1, <4>2, <4>3
      <3>3. Disposed(a) = a
        <4>1. a.spawn # "disposing" /\ {s \in Stoppers : a.stop[s].at = "disposing"} = {}
          BY <2>3 DEF Inert, NoStops
        <4> QED BY <4>1, Zenon DEF Disposed
      <3> QED BY <3>1, <3>2, <3>3
    <2>6. inst' = [inst EXCEPT ![i] = a]
      BY <1>1, <2>5
    <2>7. Daemon'
      BY <1>1 DEF SupervisorInv, Daemon, daemon
    <2>8. inst' = [j \in Instances |-> inst'[j]] /\ inst'[i] = a
          /\ \A j \in Instances \ {i} : inst'[j] = inst[j]
      BY <2>6 DEF SupervisorInv
    <2>9. ASSUME NEW j \in Instances PROVE Fit(inst'[j], mode') /\ InMode(j)'
      <3>1. CASE j = i
        <4>1. Fit(inst'[j], mode')
          BY <1>1, <2>4, <2>8, <3>1 DEF daemon
        <4>2. InMode(j)'
          BY <1>1, <2>1, <2>3, <2>8, <3>1 DEF InMode, LeftOver, daemon, Inert
        <4> QED BY <4>1, <4>2
      <3>2. CASE j # i
        <4>1. Fit(inst[j], mode) /\ InMode(j) /\ inst'[j] = inst[j]
          BY <2>8, <3>2 DEF SupervisorInv
        <4> QED BY <1>1, <4>1 DEF InMode, LeftOver, daemon
      <3> QED BY <3>1, <3>2
    <2> QED BY <2>7, <2>8, <2>9 DEF SupervisorInv
  <1> QED BY <1>2, <1>3

LEMMA ExitStepsInv ==
  ASSUME SupervisorInv, NEW i \in Instances, ExitSteps(i)
  PROVE  SupervisorInv'
  <1> DEFINE x == inst[i]
             y == [SetPi(x, FALSE) EXCEPT !.exiting = FALSE, !.live = FALSE, !.known = FALSE]
             z == [x EXCEPT !.exiting = FALSE, !.live = FALSE, !.lost = TRUE]
  <1>1. Fit(x, mode) /\ mode \in {"up", "recovering"} /\ x.exiting /\ ~Inert(x)
    BY Zenon DEF SupervisorInv, ExitSteps, ExitHandled, ExitUnhandled, Running, Inert
  <1>2. CASE ExitHandled(i)
    <2>1. Fit(y, mode) /\ Stays(x, y)
      BY <1>1, ExitHandledFits
    <2>2. Becomes(i, y) /\ Running
      BY <1>2, Zenon DEF ExitHandled
    <2> HIDE DEF y
    <2> QED BY <1>1, <2>1, <2>2, BusyStep
  <1>3. CASE ExitUnhandled(i)
    <2>1. Fit(z, mode) /\ Stays(x, z)
      BY <1>1, ExitUnhandledFits
    <2>2. BecomesByFault(i, z) /\ Running
      BY <1>3, Zenon DEF ExitUnhandled
    <2> HIDE DEF z
    <2> QED BY <1>1, <2>1, <2>2, BusyStep
  <1> QED BY <1>2, <1>3 DEF ExitSteps

LEMMA StopInv ==
  ASSUME SupervisorInv, NEW i \in Instances, NEW s \in Stoppers, Stop(i, s)
  PROVE  SupervisorInv'
  <1> DEFINE x == inst[i]
             y == BeginStop(x, s)
  <1>1. /\ Fit(x, mode) /\ mode \in {"up", "recovering"} /\ x.live /\ ~Inert(x)
        /\ x.stop[s].at = "no" /\ Running
    BY Zenon DEF SupervisorInv, Stop, Running, Inert
  <1>2. Fit(y, mode) /\ Stays(x, y)
    BY <1>1, BeginStopFits
  <1>3. Becomes(i, y)
    BY Zenon DEF Stop
  <1> HIDE DEF y
  <1> QED BY <1>1, <1>2, <1>3, BusyStep

LEMMA StopDisconnectedInv ==
  ASSUME SupervisorInv, NEW i \in Instances, NEW s \in Stoppers, StopDisconnected(i, s)
  PROVE  SupervisorInv'
  <1> DEFINE x == inst[i]
             y == Dispose([x EXCEPT !.record.pi = FALSE, !.known = FALSE], s, x.stop[s].proc)
  <1>1. /\ Fit(x, mode) /\ mode \in {"up", "recovering"} /\ ~Inert(x)
        /\ x.stop[s].at = "disconnecting" /\ Running
    BY DEF SupervisorInv, StopDisconnected, Running, Inert, NoStops
  <1>2. Fit(y, mode) /\ Stays(x, y)
    BY <1>1, StopDisconnectedFits
  <1>3. Becomes(i, y)
    BY Zenon DEF StopDisconnected
  <1> HIDE DEF y
  <1> QED BY <1>1, <1>2, <1>3, BusyStep

\* A shutdown that cannot disconnect an instance is stuck: the mode changes.
LEMMA FitStuck == \A x : \A m : Fit(x, m) => Fit(x, "stuck")
  BY DEF Fit, OnFile

LEMMA StopDisconnectFailsInv ==
  ASSUME SupervisorInv, NEW i \in Instances, NEW s \in Stoppers, StopDisconnectFails(i, s)
  PROVE  SupervisorInv'
  <1> DEFINE x == inst[i]
             y == [StopDone(x, s) EXCEPT !.lost = TRUE]
  <1>1. /\ Fit(x, mode) /\ mode \in {"up", "recovering"} /\ ~Inert(x)
        /\ x.stop[s].at = "disconnecting" /\ Running
    BY DEF SupervisorInv, StopDisconnectFails, Running, Inert, NoStops
  <1>2. Fit(y, mode) /\ Stays(x, y) /\ y.lost /\ ~y.live
    BY <1>1, StopDisconnectFailsFits
  <1>3. /\ inst' = [inst EXCEPT ![i] = y] /\ mode' = IF s = Main THEN "stuck" ELSE mode
        /\ faults' = faults + 1 /\ faults < MaxFaults
        /\ UNCHANGED <<closing, todo, unlisted, snapshot, recovering, crashes, forgets>>
    BY Zenon DEF StopDisconnectFails
  <1> HIDE DEF y
  <1>4. faults' \in 0..MaxFaults /\ forgets' \in 0..MaxForgets
    BY <1>3, SupervisorAssumption DEF SupervisorInv, Daemon
  <1>5. CASE mode' = mode
    <2>1. mode = "recovering" => y.early
      BY <1>1, <1>2 DEF SupervisorInv, InMode, Stays
    <2>2. unlisted \subseteq Instances
      BY DEF SupervisorInv, Daemon
    <2> QED BY <1>1, <1>2, <1>3, <1>4, <1>5, <2>1, <2>2, InstanceStep
  <1>6. CASE mode' = "stuck"
    <2>1. Daemon'
      BY <1>1, <1>3, <1>4, <1>6 DEF SupervisorInv, Daemon
    <2>2. inst' = [j \in Instances |-> inst'[j]] /\ inst'[i] = y
          /\ \A j \in Instances \ {i} : inst'[j] = inst[j]
      BY <1>3 DEF SupervisorInv
    <2>3. \A j \in Instances : Fit(inst'[j], "stuck")
      BY <1>2, <2>2, FitStuck DEF SupervisorInv
    <2>4. \A j \in Instances : InMode(j)'
      BY <1>6 DEF InMode
    <2> QED BY <1>6, <2>1, <2>2, <2>3, <2>4 DEF SupervisorInv
  <1> QED BY <1>3, <1>5, <1>6

LEMMA RpcStepsInv ==
  ASSUME SupervisorInv, NEW i \in Instances, RpcSteps(i)
  PROVE  SupervisorInv'
  <1> DEFINE x == inst[i]
  <1>1. Fit(x, mode) /\ mode \in {"up", "recovering"} /\ Running /\ Shaped(x)
        /\ Alive(x) /\ (x.record # NoRecord \/ x.rpc # "none")
    BY Zenon DEF SupervisorInv, RpcSteps, RpcSend, RpcAnswered, RpcRefreshed, Running, Fit
  <1>2. ~Inert(x)
    BY <1>1 DEF Inert
  <1>3. x.spawn # "none"
    BY <1>1, <1>2 DEF Fit, Children
  <1>4. PICK rpc \in {"none", "command", "state"}, file \in {x.file, x.record} :
          Becomes(i, [x EXCEPT !.rpc = rpc, !.file = file])
    <2> DEFINE kept(rpc) == [x EXCEPT !.rpc = rpc, !.file = x.file]
               saved == [x EXCEPT !.rpc = "none", !.file = x.record]
    <2>1. \A rpc \in {"command", "state"} : [x EXCEPT !.rpc = rpc] = kept(rpc)
      <3> SUFFICES ASSUME NEW rpc \in {"command", "state"} PROVE [x EXCEPT !.rpc = rpc] = kept(rpc)
        OBVIOUS
      <3>1. Shaped([x EXCEPT !.rpc = rpc]) /\ Shaped(kept(rpc))
        BY <1>1, Zenon DEF Shaped
      <3>2. \A f \in Fields : [x EXCEPT !.rpc = rpc][f] = kept(rpc)[f]
        BY <1>1 DEF Shaped, Fields
      <3> HIDE DEF kept
      <3> QED BY <3>1, <3>2, Extensional
    <2>2. Upsert([x EXCEPT !.rpc = "none"]) = saved
      BY <1>1 DEF Upsert, Shaped, Fields
    <2>3. CASE RpcSend(i)
      BY <2>1, <2>3 DEF RpcSend
    <2>4. CASE RpcAnswered(i)
      BY <2>1, <2>2, <2>4 DEF RpcAnswered
    <2>5. CASE RpcRefreshed(i)
      BY <2>2, <2>5 DEF RpcRefreshed
    <2> QED BY <2>3, <2>4, <2>5 DEF RpcSteps
  <1> DEFINE y == [x EXCEPT !.rpc = rpc, !.file = file]
  <1>5. Fit(y, mode) /\ Stays(x, y)
    BY <1>1, <1>3, RpcFits
  <1>6. Becomes(i, y)
    BY <1>4
  <1> HIDE DEF y
  <1> QED BY <1>1, <1>2, <1>5, <1>6, BusyStep

LEMMA BeatStepsInv ==
  ASSUME SupervisorInv, NEW i \in Instances, BeatSteps(i)
  PROVE  SupervisorInv'
  <1> DEFINE x == inst[i]
             simple(y) == y \in {Beating(x, "posting", x.missed, x.clone, x.entry),
                                 Beating(x, "idle", x.missed, x.clone, x.entry),
                                 Beating(x, "idle", 0, x.clone, x.entry),
                                 Beating(x, "idle", x.missed, NoRecord, x.entry)}
  <1>1. Fit(x, mode) /\ mode \in {"up", "recovering"} /\ Running /\ Shaped(x) /\ Typed(x)
        /\ (x.entry \/ x.beat # "idle")
    BY DEF SupervisorInv, BeatSteps, BeatStart, BeatOk, BeatFails, BeatNotFound, ReRegistered,
           ReRegisterFails, Running, Fit
  <1>2. ~Inert(x) /\ x.spawn = "online" /\ Radius
    BY <1>1 DEF Fit, Spawning, Inert
  <1>3. ASSUME NEW y, simple(y) PROVE Fit(y, mode) /\ Stays(x, y)
    <2>1. IsRecord(NoRecord) /\ IsRecord(x.clone) /\ x.missed \in 0..NotFoundThreshold
          /\ x.entry \in BOOLEAN
      BY <1>1 DEF Typed, IsRecord, NoRecord, Statuses
    <2>2. 0 \in 0..NotFoundThreshold
      BY SupervisorAssumption
    <2> HIDE DEF x
    <2> QED BY <1>1, <1>2, <1>3, <2>1, <2>2, BeatFits
  <1>4. ASSUME NEW y, Fit(y, mode), Stays(x, y), Becomes(i, y) \/ BecomesByFault(i, y)
        PROVE  SupervisorInv'
    BY <1>1, <1>2, <1>4, BusyStep
  <1>5. /\ [x EXCEPT !.beat = "posting"] = Beating(x, "posting", x.missed, x.clone, x.entry)
        /\ [x EXCEPT !.beat = "idle"] = Beating(x, "idle", x.missed, x.clone, x.entry)
        /\ [x EXCEPT !.beat = "idle", !.missed = 0] = Beating(x, "idle", 0, x.clone, x.entry)
        /\ [x EXCEPT !.beat = "idle", !.clone = NoRecord] = Beating(x, "idle", x.missed, NoRecord, x.entry)
    BY <1>1, BeatsAre
  <1>6. CASE BeatStart(i) \/ BeatOk(i) \/ BeatFails(i) \/ ReRegisterFails(i)
    <2>1. \E y : simple(y) /\ (Becomes(i, y) \/ BecomesByFault(i, y))
      BY <1>5, <1>6 DEF BeatStart, BeatOk, BeatFails, ReRegisterFails
    <2> HIDE DEF simple
    <2> QED BY <1>3, <1>4, <2>1
  <1>7. CASE BeatNotFound(i)
    <2>1. Fit(NotFound(x), mode) /\ Stays(x, NotFound(x)) /\ Becomes(i, NotFound(x))
      BY <1>1, <1>7, NotFoundFits DEF BeatNotFound
    <2> QED BY <1>4, <2>1
  <1>8. CASE ReRegistered(i)
    <2>1. Fit(ReRegister(x), mode) /\ Stays(x, ReRegister(x)) /\ Becomes(i, ReRegister(x))
      BY <1>1, <1>8, ReRegisterFits DEF ReRegistered
    <2> QED BY <1>4, <2>1
  <1> QED BY <1>6, <1>7, <1>8 DEF BeatSteps

\* Radius may forget a registration whatever the orchestrator does.
LEMMA ForgetInv ==
  ASSUME SupervisorInv, NEW i \in Instances, Forget(i)
  PROVE  SupervisorInv'
  <1> DEFINE x == inst[i]
             y == [x EXCEPT !.known = FALSE]
  <1>1. Fit(x, mode) /\ InMode(i)
    BY DEF SupervisorInv
  <1>2. /\ Fit(y, mode) /\ Stays(x, y) /\ ~y.known /\ y.file = x.file /\ y.late = x.late
        /\ (Inert(x) => Inert(y)) /\ (y.live => x.live)
    BY <1>1, ForgetFits
  <1>3. inst' = [inst EXCEPT ![i] = y] /\ UNCHANGED <<daemon, unlisted, faults>>
        /\ forgets' = forgets + 1 /\ forgets < MaxForgets
    BY Zenon DEF Forget
  <1> HIDE DEF y
  <1>4. Daemon'
    BY <1>3, SupervisorAssumption DEF SupervisorInv, Daemon, daemon
  <1>5. inst' = [j \in Instances |-> inst'[j]] /\ inst'[i] = y
        /\ \A j \in Instances \ {i} : inst'[j] = inst[j]
    BY <1>3 DEF SupervisorInv
  <1>6. ASSUME NEW j \in Instances PROVE Fit(inst'[j], mode') /\ InMode(j)'
    <2>1. CASE j = i
      <3>1. Fit(inst'[j], mode')
        BY <1>2, <1>3, <1>5, <2>1 DEF daemon
      <3>2. InMode(j)'
        BY <1>1, <1>2, <1>3, <1>5, <2>1 DEF InMode, LeftOver, daemon, Stays
      <3> QED BY <3>1, <3>2
    <2>2. CASE j # i
      <3>1. Fit(inst[j], mode) /\ InMode(j) /\ inst'[j] = inst[j]
        BY <1>5, <2>2 DEF SupervisorInv
      <3> QED BY <1>3, <3>1 DEF InMode, LeftOver, daemon
    <2> QED BY <2>1, <2>2
  <1> QED BY <1>4, <1>5, <1>6 DEF SupervisorInv

-----------------------------------------------------------------------------
\* Signals and shutdown.
LEMMA SignalInv == SupervisorInv /\ Signal => SupervisorInv'
  <1> SUFFICES ASSUME SupervisorInv, Signal PROVE SupervisorInv'
    OBVIOUS
  <1>1. Daemon'
    BY DEF SupervisorInv, Daemon, Signal
  <1>2. \A i \in Instances : InMode(i)'
    BY DEF SupervisorInv, Signal, InMode, LeftOver
  <1> QED BY <1>1, <1>2 DEF SupervisorInv, Signal

LEMMA ShutdownStopInv ==
  ASSUME SupervisorInv, NEW i \in Instances, ShutdownStop(i)
  PROVE  SupervisorInv'
  <1> DEFINE x == inst[i]
             y == BeginStop(x, Main)
  <1>1. /\ Fit(x, mode) /\ mode = "up" /\ Main \in Stoppers /\ x.stop[Main].at = "no"
        /\ todo' = todo \ {i} /\ Running
        /\ inst' = IF x.live THEN [inst EXCEPT ![i] = y] ELSE inst
        /\ UNCHANGED <<mode, closing, unlisted, snapshot, recovering, faults, forgets, crashes>>
    BY DEF SupervisorInv, Daemon, ShutdownStop, Running, MainIdle, Stoppers
  <1>2. faults' \in 0..MaxFaults /\ forgets' \in 0..MaxForgets /\ unlisted \subseteq Instances
    BY <1>1 DEF SupervisorInv, Daemon
  <1>3. CASE x.live
    <2>1. Fit(y, mode) /\ (y.live => y.stop[Main].at # "no")
      BY <1>1, <1>3, BeginStopFits
    <2> HIDE DEF y
    <2> QED BY <1>1, <1>2, <1>3, <2>1, InstanceStep
  <1>4. CASE ~x.live
    <2>1. inst' = [inst EXCEPT ![i] = x]
      BY <1>1, <1>4 DEF SupervisorInv
    <2> QED BY <1>1, <1>2, <1>4, <2>1, InstanceStep
  <1> QED BY <1>3, <1>4

\* Nothing shutdown() has listed is live when it ends, so nothing of it is
\* called starting or online, and Radius lists none of it.
LEMMA ShutdownEndsInv == SupervisorInv /\ ShutdownEnds => SupervisorInv'
  <1> SUFFICES ASSUME SupervisorInv, ShutdownEnds PROVE SupervisorInv'
    OBVIOUS
  <1>1. /\ mode = "up" /\ closing /\ todo = {} /\ MainIdle /\ mode' = "exited"
        /\ inst' = [i \in Instances |-> Forgotten(inst[i])]
        /\ UNCHANGED <<closing, todo, unlisted, snapshot, recovering, faults, forgets, crashes>>
    BY DEF SupervisorInv, Daemon, ShutdownEnds, Running
  <1>2. Daemon'
    BY <1>1 DEF SupervisorInv, Daemon
  <1>3. ASSUME NEW i \in Instances PROVE Fit(inst'[i], mode') /\ InMode(i)'
    <2> DEFINE x == inst[i]
               y == Forgotten(x)
    <2>1. Fit(x, "up") /\ (x.live => i \in unlisted)
      BY <1>1 DEF SupervisorInv, InMode, MainIdle
    <2>2. x.file.status \in Claimed => x.late \/ i \in unlisted
      BY <2>1 DEF Fit, OnFile, Claims
    <2>3. x.known /\ ~x.late /\ ~x.lost /\ ~x.early => x.file.pi /\ i \in unlisted
      BY <2>1 DEF Fit, Listed
    <2>4. /\ Fit(y, "exited") /\ Inert(y)
          /\ y.known = x.known /\ y.file = x.file
          /\ y.early = x.early /\ y.late = x.late /\ y.lost = x.lost
      BY <2>1, ForgottenFits DEF Fit
    <2>5. inst'[i] = y
      BY <1>1
    <2> HIDE DEF y
    <2> QED BY <1>1, <2>2, <2>3, <2>4, <2>5 DEF InMode, LeftOver, Inert
  <1>4. inst' = [i \in Instances |-> inst'[i]]
    BY <1>1
  <1> QED BY <1>2, <1>3, <1>4 DEF SupervisorInv

LEMMA ShutdownFailsInv == SupervisorInv /\ ShutdownFails => SupervisorInv'
  <1> SUFFICES ASSUME SupervisorInv, ShutdownFails PROVE SupervisorInv'
    OBVIOUS
  <1>1. Daemon'
    BY SupervisorAssumption DEF SupervisorInv, Daemon, ShutdownFails
  <1>2. \A i \in Instances : Fit(inst'[i], mode')
    BY FitStuck DEF SupervisorInv, ShutdownFails
  <1>3. \A i \in Instances : InMode(i)'
    BY DEF ShutdownFails, InMode
  <1> QED BY <1>1, <1>2, <1>3 DEF SupervisorInv, ShutdownFails

-----------------------------------------------------------------------------
\* Crash and recovery.
LEMMA DownInv ==
  ASSUME SupervisorInv, Running, Down,
         faults' \in 0..MaxFaults, forgets' \in 0..MaxForgets, crashes' \in 0..MaxCrashes
  PROVE  SupervisorInv'
  <1>1. Daemon'
    <2>1. NoRecord \in Records
      BY DEF Records, NoRecord
    <2> QED BY <2>1 DEF Down, Daemon
  <1>2. ASSUME NEW i \in Instances PROVE Fit(inst'[i], mode') /\ InMode(i)'
    <2> DEFINE x == inst[i]
               y == Forgotten(x)
    <2>1. Fit(x, mode) /\ (x.known /\ ~x.late /\ ~x.lost /\ ~x.early => x.file.pi)
      BY DEF SupervisorInv, Running, InMode, LeftOver, Fit, Listed
    <2>2. /\ Fit(y, "down") /\ Inert(y)
          /\ y.known = x.known /\ y.file = x.file
          /\ y.early = x.early /\ y.late = x.late /\ y.lost = x.lost
      BY <2>1, ForgottenFits DEF Fit
    <2>3. inst'[i] = y /\ mode' = "down" /\ closing' = FALSE
      BY DEF Down
    <2> HIDE DEF y
    <2> QED BY <2>1, <2>2, <2>3 DEF InMode, LeftOver
  <1>3. inst' = [i \in Instances |-> inst'[i]]
    BY DEF Down
  <1> QED BY <1>1, <1>2, <1>3 DEF SupervisorInv

LEMMA CrashInv == SupervisorInv /\ (Crash \/ RecoverFails) => SupervisorInv'
  <1> SUFFICES ASSUME SupervisorInv, Crash \/ RecoverFails PROVE SupervisorInv'
    OBVIOUS
  <1>1. /\ faults' \in 0..MaxFaults /\ forgets' \in 0..MaxForgets /\ crashes' \in 0..MaxCrashes
    BY SupervisorAssumption DEF SupervisorInv, Daemon, Crash, RecoverFails
  <1>2. Running /\ Down
    BY DEF Crash, RecoverFails, Running
  <1> QED BY <1>1, <1>2, DownInv

\* What recovery saves is true of what it leaves.
LEMMA RefiledFits ==
  ASSUME NEW x, NEW m, Fit(x, m), Inert(x) \/ x.early,
         NEW r, IsRecord(r), r.status \notin Claimed,
         ~(x.known /\ ~x.late /\ ~x.lost /\ ~x.early)
  PROVE  LET y == [x EXCEPT !.file = r] IN Fit(y, "up")
  <1> DEFINE y == [x EXCEPT !.file = r]
  <1>2. Shaped(y)
    BY Zenon DEF Fit, Shaped
  <1>3. Typed(y)
    BY DEF Fit, Shaped, Fields, Typed
  <1>4. Children(y) /\ Spawning(y) /\ Claims(y)
    BY DEF Fit, Shaped, Fields, Children, Tended, Inert, NoStops, Spawning, Claims, Claimed
  <1>5. OnFile(y, "up") /\ Listed(y)
    BY DEF Fit, Shaped, Fields, Inert, Claimed, OnFile, Listed
  <1> HIDE DEF y
  <1>6. Fit(y, "up")
    BY <1>2, <1>3, <1>4, <1>5 DEF Fit
  <1> QED BY <1>6 DEF y

\* The last step of a recovery.
LEMMA RecoveredInv ==
  ASSUME SupervisorInv, mode \in {"down", "recovering"}, NEW x, NEW saved,
         mode' = "up", recovering' = {},
         inst' = [i \in Instances |-> [x[i] EXCEPT !.file = saved[i]]],
         snapshot' = [i \in Instances |-> NoRecord],
         UNCHANGED <<closing, todo, unlisted, faults, forgets, crashes>>,
         \A i \in Instances :
           /\ Fit(x[i], mode) /\ (Inert(x[i]) \/ x[i].early)
           /\ IsRecord(saved[i]) /\ saved[i].status \notin Claimed
           /\ ~(x[i].known /\ ~x[i].late /\ ~x[i].lost /\ ~x[i].early)
  PROVE  SupervisorInv'
  <1>1. Daemon' /\ ~closing'
    <2>1. NoRecord \in Records
      BY DEF Records, NoRecord
    <2> QED BY <2>1 DEF SupervisorInv, Daemon
  <1>2. ASSUME NEW i \in Instances PROVE Fit(inst'[i], mode') /\ InMode(i)'
    <2>1. Fit([x[i] EXCEPT !.file = saved[i]], "up")
      BY RefiledFits
    <2>2. Fit(inst'[i], mode')
      BY <2>1
    <2> QED BY <2>2, <1>1 DEF InMode
  <1> QED BY <1>1, <1>2 DEF SupervisorInv

\* What a restart finds is corrected before anything else is saved.
LEMMA RecoveredFits ==
  ASSUME NEW r, IsRecord(r)
  PROVE  IsRecord(Recovered(r)) /\ Recovered(r).status \notin Claimed
  BY DEF IsRecord, Statuses, Recovered, Claimed

LEMMA RestartInv == SupervisorInv /\ Restart => SupervisorInv'
  <1> SUFFICES ASSUME SupervisorInv, Restart PROVE SupervisorInv'
    OBVIOUS
  <1> DEFINE saved == [i \in Instances |-> Recovered(inst[i].file)]
  <1>1. \A i \in Instances :
          /\ Fit(inst[i], "down") /\ Inert(inst[i]) /\ LeftOver(i)
          /\ IsRecord(saved[i]) /\ saved[i].status \notin Claimed
          /\ (i \notin ToDisconnect =>
                ~(inst[i].known /\ ~inst[i].late /\ ~inst[i].lost /\ ~inst[i].early))
    <2> SUFFICES ASSUME NEW i \in Instances
                 PROVE  /\ Fit(inst[i], "down") /\ Inert(inst[i]) /\ LeftOver(i)
                        /\ IsRecord(saved[i]) /\ saved[i].status \notin Claimed
                        /\ (i \notin ToDisconnect =>
                              ~(inst[i].known /\ ~inst[i].late /\ ~inst[i].lost /\ ~inst[i].early))
      OBVIOUS
    <2>1. Fit(inst[i], "down") /\ Inert(inst[i]) /\ LeftOver(i)
      BY DEF SupervisorInv, Restart, InMode
    <2>2. IsRecord(inst[i].file) /\ (inst[i].known => Radius)
      BY <2>1 DEF Fit, Typed, Spawning
    <2>3. IsRecord(saved[i]) /\ saved[i].status \notin Claimed
      BY <2>2, RecoveredFits
    <2>4. i \notin ToDisconnect =>
            ~(inst[i].known /\ ~inst[i].late /\ ~inst[i].lost /\ ~inst[i].early)
      BY <2>1, <2>2 DEF LeftOver, ToDisconnect
    <2> QED BY <2>1, <2>3, <2>4
  <1>2. /\ Recovery(ToDisconnect, saved, inst) /\ mode = "down"
        /\ UNCHANGED <<closing, todo, unlisted, faults, forgets, crashes>>
    BY Zenon DEF Restart
  <1>3. saved \in [Instances -> Records]
    <2>1. \A r : IsRecord(r) => r \in Records
      BY DEF IsRecord, Statuses, Records
    <2>2. \A i \in Instances : saved[i] \in Records
      BY <1>1, <2>1
    <2> QED BY <2>2
  <1>s. saved = [i \in Instances |-> saved[i]]
    OBVIOUS
  <1> HIDE DEF saved
  <1>4. CASE ToDisconnect = {}
    <2>1. /\ mode' = "up" /\ recovering' = {}
          /\ inst' = [i \in Instances |-> [inst[i] EXCEPT !.file = saved[i]]]
          /\ snapshot' = [i \in Instances |-> NoRecord]
      BY <1>2, <1>4 DEF Recovery
    <2> QED BY <1>1, <1>2, <1>4, <2>1, RecoveredInv
  <1>5. CASE ToDisconnect # {}
    <2>1. mode' = "recovering" /\ recovering' = ToDisconnect /\ inst' = inst /\ snapshot' = saved
      BY <1>2, <1>5 DEF Recovery
    <2>2. Daemon'
      BY <1>2, <1>3, <2>1 DEF SupervisorInv, Daemon, ToDisconnect
    <2>3. ASSUME NEW i \in Instances PROVE Fit(inst'[i], mode') /\ InMode(i)'
      <3>1. Fit(inst'[i], mode')
        BY <1>1, <2>1 DEF Fit, OnFile
      <3>2. InMode(i)'
        BY <1>1, <2>1 DEF InMode, LeftOver
      <3> QED BY <3>1, <3>2
    <2> QED BY <2>1, <2>2, <2>3 DEF SupervisorInv
  <1> QED BY <1>4, <1>5

LEMMA RecoverOneInv ==
  ASSUME SupervisorInv, NEW i \in Instances, RecoverOne(i)
  PROVE  SupervisorInv'
  <1> DEFINE left == recovering \ {i}
             y == [inst[i] EXCEPT !.known = FALSE]
             x == [inst EXCEPT ![i] = y]
  <1>1. /\ Recovery(left, snapshot, x) /\ mode = "recovering" /\ ~closing
        /\ UNCHANGED <<closing, todo, unlisted, faults, forgets, crashes>>
    BY Zenon DEF RecoverOne, SupervisorInv, Daemon
  <1>2. Fit(y, mode) /\ (Inert(y) \/ y.early) /\ ~y.known
    BY <1>1, ForgetFits DEF SupervisorInv, InMode, Stays
  <1>3. x = [j \in Instances |-> x[j]] /\ x[i] = y /\ \A j \in Instances \ {i} : x[j] = inst[j]
    BY DEF SupervisorInv
  <1> HIDE DEF x, y
  <1>4. \A j \in Instances :
          /\ Fit(x[j], mode) /\ (Inert(x[j]) \/ x[j].early)
          /\ IsRecord(snapshot[j]) /\ snapshot[j].status \notin Claimed
          /\ (x[j].known /\ ~x[j].late /\ ~x[j].lost /\ ~x[j].early => j \in left /\ x[j].file.pi)
    <2>1. ASSUME NEW j \in Instances
          PROVE  IsRecord(snapshot[j]) /\ snapshot[j].status \notin Claimed
      BY <1>1 DEF SupervisorInv, InMode, Daemon, Records, IsRecord, Statuses
    <2>2. ASSUME NEW j \in Instances \ {i}
          PROVE  /\ Fit(x[j], mode) /\ (Inert(x[j]) \/ x[j].early)
                 /\ (x[j].known /\ ~x[j].late /\ ~x[j].lost /\ ~x[j].early
                       => j \in left /\ x[j].file.pi)
      BY <1>1, <1>3 DEF SupervisorInv, InMode, LeftOver
    <2> QED BY <1>2, <1>3, <2>1, <2>2
  <1> HIDE DEF left
  <1>5. CASE left = {}
    <2>1. /\ mode' = "up" /\ recovering' = {}
          /\ inst' = [j \in Instances |-> [x[j] EXCEPT !.file = snapshot[j]]]
          /\ snapshot' = [j \in Instances |-> NoRecord]
      BY <1>1, <1>5 DEF Recovery
    <2>2. \A j \in Instances : ~(x[j].known /\ ~x[j].late /\ ~x[j].lost /\ ~x[j].early)
      BY <1>4, <1>5
    <2> QED BY <1>1, <1>4, <2>1, <2>2, RecoveredInv
  <1>6. CASE left # {}
    <2>1. mode' = "recovering" /\ recovering' = left /\ inst' = x /\ snapshot' = snapshot
      BY <1>1, <1>6 DEF Recovery
    <2>2. Daemon'
      BY <1>1, <2>1 DEF SupervisorInv, Daemon, left
    <2>3. ASSUME NEW j \in Instances PROVE Fit(inst'[j], mode') /\ InMode(j)'
      <3>1. Fit(inst'[j], mode')
        BY <1>1, <1>4, <2>1
      <3>2. InMode(j)'
        BY <1>1, <1>4, <2>1 DEF InMode, LeftOver
      <3> QED BY <3>1, <3>2
    <2> QED BY <1>3, <2>1, <2>2, <2>3 DEF SupervisorInv
  <1> QED BY <1>5, <1>6

-----------------------------------------------------------------------------
LEMMA NextInv == SupervisorInv /\ [Next]_vars => SupervisorInv'
  <1> SUFFICES ASSUME SupervisorInv, [Next]_vars PROVE SupervisorInv'
    OBVIOUS
  <1>1. ASSUME NEW i \in Instances, Spawn(i) \/ SpawnThrows(i) PROVE SupervisorInv'
    BY <1>1, SpawnInv
  <1>2. ASSUME NEW i \in Instances, SpawnSteps(i) PROVE SupervisorInv'
    BY <1>2, SpawnStepsInv
  <1>3. ASSUME NEW i \in Instances, ChildExits(i) PROVE SupervisorInv'
    BY <1>3, ChildExitsInv
  <1>4. ASSUME NEW i \in Instances, ExitSteps(i) PROVE SupervisorInv'
    BY <1>4, ExitStepsInv
  <1>5. ASSUME NEW i \in Instances, RpcSteps(i) PROVE SupervisorInv'
    BY <1>5, RpcStepsInv
  <1>6. ASSUME NEW i \in Instances, BeatSteps(i) PROVE SupervisorInv'
    BY <1>6, BeatStepsInv
  <1>7. ASSUME NEW i \in Instances, Forget(i) PROVE SupervisorInv'
    BY <1>7, ForgetInv
  <1>8. ASSUME NEW i \in Instances, NEW s \in Stoppers, Stop(i, s) \/ StopSteps(i, s)
        PROVE  SupervisorInv'
    BY <1>8, StopInv, StopDisconnectedInv, StopDisconnectFailsInv DEF StopSteps
  <1>9. ASSUME Signal \/ ShutdownSteps PROVE SupervisorInv'
    BY <1>9, SignalInv, ShutdownStopInv, ShutdownEndsInv, ShutdownFailsInv DEF ShutdownSteps
  <1>10. ASSUME Crash \/ Restart \/ RecoverySteps PROVE SupervisorInv'
    BY <1>10, CrashInv, RestartInv, RecoverOneInv DEF RecoverySteps
  <1>11. CASE UNCHANGED vars
    BY <1>11 DEF vars, SupervisorInv, Daemon, InMode, LeftOver
  <1>12. CASE Next
    BY <1>12, <1>1, <1>2, <1>3, <1>4, <1>5, <1>6, <1>7, <1>8, <1>9, <1>10 DEF Next
  <1> QED BY <1>11, <1>12

LEMMA SupervisorInvariant == Spec => []SupervisorInv
  BY InitInv, NextInv, PTL DEF Spec

\* Every variable keeps its type, whatever the orchestrator, its agent
\* processes and Radius do.
THEOREM SupervisorTypes == Spec => []TypeOK
  BY SupervisorInvariant, TypeOKFromInv, PTL

\* No agent process is left running that the orchestrator has forgotten,
\* through failing spawns, exits and overlapping stops, but for the ones whose
\* disconnect Radius refused.
THEOREM NobodyIsOrphaned == Spec => []NoOrphans
  <1>1. SupervisorInv => NoOrphans
    BY DEF SupervisorInv, NoOrphans, Fit, Children
  <1> QED BY <1>1, SupervisorInvariant, PTL

\* instances.json is true of what is live while the orchestrator is up, and
\* of everything after an orderly shutdown, but for the instances that were
\* spawned over an open connection after shutdown() had listed its own.
THEOREM RecordsStayTrue == Spec => []RecordsAreTrue
  <1>1. SupervisorInv => RecordsMatchLive
    <2> SUFFICES ASSUME SupervisorInv, NEW i \in Instances, mode = "up"
                 PROVE  /\ inst[i].live /\ ~inst[i].early
                             => inst[i].file.status = inst[i].record.status
                        /\ inst[i].file.status \in {"starting", "online"}
                             => inst[i].live \/ inst[i].late
      BY DEF RecordsMatchLive
    <2>1. Fit(inst[i], "up")
      BY DEF SupervisorInv
    <2> QED BY <2>1 DEF Fit, OnFile, Claims, Claimed
  <1>2. SupervisorInv => ShutdownIsClean
    <2> SUFFICES ASSUME SupervisorInv, NEW i \in Instances, mode = "exited",
                        ~inst[i].late, ~inst[i].lost, i \notin unlisted
                 PROVE  /\ inst[i].known => inst[i].early
                        /\ inst[i].file.status \notin {"starting", "online"}
      BY DEF ShutdownIsClean
    <2>1. LeftOver(i) /\ inst[i].file.status \notin Claimed
      BY DEF SupervisorInv, InMode
    <2> QED BY <2>1 DEF LeftOver, Claimed
  <1>3. SupervisorInv => RecordsAreTrue
    BY <1>1, <1>2 DEF RecordsAreTrue
  <1> QED BY <1>3, SupervisorInvariant, PTL

\* Heartbeats are sent for live instances only, and Radius lists no ended
\* one, but for the registrations answered after the end, the disconnects that
\* failed and the records a recovery has overwritten.
THEOREM PresenceEndsWithTheInstance == Spec => []PresenceEnds
  <1>1. SupervisorInv => HeartbeatsAreLive
    <2> SUFFICES ASSUME SupervisorInv, NEW i \in Instances, inst[i].entry, ~inst[i].late
                 PROVE  inst[i].live
      BY DEF HeartbeatsAreLive
    <2>1. Claims(inst[i])
      BY DEF SupervisorInv, Fit
    <2> QED BY <2>1 DEF Claims, Claimed
  <1>2. SupervisorInv => RadiusForgetsEnded
    BY DEF SupervisorInv, RadiusForgetsEnded, Fit, Listed
  <1>3. SupervisorInv => PresenceEnds
    BY <1>1, <1>2 DEF PresenceEnds
  <1> QED BY <1>3, SupervisorInvariant, PTL

-----------------------------------------------------------------------------
(* A thread of the cockpit.                                                *)

OpenerStates == {"idle", "looking", "creating", "waiting", "ready", "unknown"}

\* One call at a time opens the thread, and only while there is no record; the
\* sessions are those of the record.
OpensInv ==
  /\ record \in BOOLEAN
  /\ opener \in [Openers -> OpenerStates]
  /\ sessions = (IF record THEN 1 ELSE 0)
  /\ PendingOpens # {} => ~record
  /\ \A j, k \in PendingOpens : j = k

openVars == <<record, sessions, opener>>

LEMMA InitOpens == CockpitInit => OpensInv
  BY DEF CockpitInit, OpensInv, PendingOpens, OpenerStates, Openers

\* A call that asks for the thread joins the open there is.
LEMMA AskingKeeps ==
  ASSUME OpensInv, NEW k \in Openers, OpenFor(k), UNCHANGED <<record, sessions>>
  PROVE  OpensInv'
  <1>1. opener' = [opener EXCEPT ![k] = IF PendingOpens # {} THEN "waiting" ELSE "looking"]
    BY DEF OpenFor
  <1>2. ~record
    BY DEF OpenFor
  <1>3. \A c \in Openers : opener'[c] = IF c # k THEN opener[c]
                           ELSE IF PendingOpens # {} THEN "waiting" ELSE "looking"
    BY <1>1 DEF OpensInv
  <1>4. opener' \in [Openers -> OpenerStates]
    BY <1>1 DEF OpensInv, OpenerStates
  <1>5. \A i, j \in PendingOpens' : i = j
    <2>1. CASE PendingOpens = {}
      BY <1>3, <2>1 DEF PendingOpens
    <2>2. CASE PendingOpens # {}
      BY <1>3, <2>2 DEF PendingOpens, OpensInv
    <2> QED BY <2>1, <2>2
  <1> QED BY <1>2, <1>4, <1>5 DEF OpensInv

\* A call that goes on is none that opens.
LEMMA ReturningKeeps ==
  ASSUME OpensInv, NEW k \in Openers, NEW asks, Returns(k, asks), UNCHANGED <<record, sessions>>
  PROVE  OpensInv'
  <1>1. opener' = [opener EXCEPT ![k] = "idle"]
    BY DEF Returns
  <1>2. opener' \in [Openers -> OpenerStates] /\ PendingOpens' \subseteq PendingOpens
    BY <1>1 DEF OpensInv, OpenerStates, PendingOpens
  <1> QED BY <1>2 DEF OpensInv

\* The answer ends the open for everybody.
LEMMA AnswerEnds ==
  ASSUME OpensInv, NEW k \in PendingOpens, NEW result \in {"ready", "unknown"},
         Answer(k, result)
  PROVE  opener' \in [Openers -> OpenerStates] /\ PendingOpens' = {}
  BY DEF OpensInv, OpenerStates, PendingOpens, Answer

LEMMA LookKeeps == ASSUME OpensInv, NEW k \in Openers, Look(k) PROVE OpensInv'
  <1>1. k \in PendingOpens /\ UNCHANGED <<record, sessions>>
    BY DEF Look, PendingOpens
  <1>2. CASE Answer(k, "unknown") \/ Answer(k, "ready")
    BY <1>1, <1>2, AnswerEnds DEF OpensInv
  <1>3. CASE opener' = [opener EXCEPT ![k] = "creating"]
    <2>1. opener' \in [Openers -> OpenerStates] /\ PendingOpens' = PendingOpens
      BY <1>1, <1>3 DEF OpensInv, OpenerStates, PendingOpens
    <2> QED BY <1>1, <2>1 DEF OpensInv
  <1> QED BY <1>2, <1>3 DEF Look

LEMMA CreateKeeps == ASSUME OpensInv, NEW k \in Openers, Create(k) PROVE OpensInv'
  <1>1. k \in PendingOpens /\ Answer(k, "ready")
    BY DEF Create, PendingOpens
  <1>2. ~record /\ sessions = 0
    BY <1>1 DEF OpensInv
  <1>3. record' = TRUE /\ sessions' = 1
    BY <1>2 DEF Create
  <1> QED BY <1>1, <1>3, AnswerEnds DEF OpensInv

LEMMA DeleteKeeps == ASSUME OpensInv, DeleteThread PROVE OpensInv'
  <1>1. record' = FALSE /\ sessions' = 0 /\ opener' = opener
    BY DEF DeleteThread, OpensInv
  <1> QED BY <1>1 DEF OpensInv, PendingOpens

LEMMA RestartKeeps == ASSUME OpensInv, ServerRestarts PROVE OpensInv'
  BY DEF OpensInv, ServerRestarts, PendingOpens, OpenerStates

LEMMA RestKeeps == ASSUME OpensInv, UNCHANGED openVars PROVE OpensInv'
  BY DEF OpensInv, openVars, PendingOpens

\* Every other step leaves the opens, the record and its session alone.
LEMMA Elsewhere ==
  ASSUME \/ Unlinked \/ Deliver \/ RunStep \/ Compacted \/ GetThread \/ Loaded \/ PostReturns
         \/ LoadFails \/ Drop \/ Compact \/ Mount \/ Disconnect \/ Refresh \/ Send
         \/ UNCHANGED cockpitVars
  PROVE  UNCHANGED openVars
  BY DEF Unlinked, Deliver, RunStep, Compacted, GetThread, Loaded, PostReturns, LoadFails,
         Drop, Compact, Mount, Disconnect, Refresh, Send, cockpitVars, supervisorVars, openVars

LEMMA NextOpens == ASSUME OpensInv, [CockpitNext]_cockpitVars PROVE OpensInv'
  <1>1. ASSUME NEW k \in Openers, Look(k) \/ Create(k) PROVE OpensInv'
    BY <1>1, LookKeeps, CreateKeeps
  <1>2. CASE StreamArrives
    BY <1>2, AskingKeeps DEF StreamArrives, Openers
  <1>3. CASE PostArrives
    BY <1>3, AskingKeeps DEF PostArrives, Openers
  <1>4. CASE Attach
    BY <1>4, ReturningKeeps DEF Attach, Openers
  <1>5. CASE Prompt
    <2>1. UNCHANGED <<record, sessions>> /\ Returns("send", post.at = "sent")
      BY <1>5 DEF Prompt
    <2> QED BY <2>1, ReturningKeeps DEF Openers
  <1>6. CASE DeleteThread
    BY <1>6, DeleteKeeps
  <1>7. CASE ServerRestarts
    BY <1>7, RestartKeeps
  <1>8. CASE \/ Unlinked \/ Deliver \/ RunStep \/ Compacted \/ GetThread \/ Loaded
             \/ PostReturns \/ LoadFails \/ Drop \/ Compact \/ Mount \/ Disconnect
             \/ Refresh \/ Send \/ UNCHANGED cockpitVars
    BY <1>8, Elsewhere, RestKeeps
  <1> QED BY <1>1, <1>2, <1>3, <1>4, <1>5, <1>6, <1>7, <1>8 DEF CockpitNext, Progress

\* A thread has one live session at a time (pendingOpens and records of
\* ThreadSupervisor.ts).
THEOREM SingleSession == CockpitSpec => []OneSession
  <1>1. OpensInv => OneSession
    BY DEF OpensInv, OneSession
  <1> QED BY InitOpens, NextOpens, <1>1, PTL DEF CockpitSpec

-----------------------------------------------------------------------------
(* What Without does to a sequence.                                        *)

LEMMA Smallest ==
  ASSUME NEW S \in SUBSET Nat, S # {}
  PROVE  \E x \in S : \A y \in S : x <= y
  <1> DEFINE R == {ss \in Nat \X Nat : ss[1] < ss[2]}
  <1>1. IsWellFoundedOn(R, Nat)
    BY NatLessThanWellFounded DEF OpToRel
  <1>2. PICK z \in S : \A y \in S : <<y, z>> \notin R
    <2> HIDE DEF R
    <2> QED
      BY <1>1, WFMin
  <1>3. \A y \in S : z <= y
    <2> SUFFICES ASSUME NEW y \in S, y < z PROVE FALSE
      OBVIOUS
    <2>1. <<y, z>> \in R
      OBVIOUS
    <2> QED
      BY <1>2, <2>1
  <1> QED
    BY <1>3

\* left is what stays of s without drop, n of its elements looked at.
Filtering(left, s, drop, N) ==
  left = [n \in 0..N |-> IF n = 0 THEN <<>>
                         ELSE IF s[n] \in drop THEN left[n - 1] ELSE Append(left[n - 1], s[n])]

LEMMA FilteringExists ==
  ASSUME NEW drop, NEW s, NEW M \in Nat
  PROVE  \E f : Filtering(f, s, drop, M)
  <1> DEFINE Body(f, n) == IF n = 0 THEN <<>>
                           ELSE IF s[n] \in drop THEN f[n - 1] ELSE Append(f[n - 1], s[n])
             S == {N \in Nat : ~\E f : f = [n \in 0..N |-> Body(f, n)]}
  <1>1. SUFFICES ASSUME S # {} PROVE FALSE
    <2>1. S = {} => \E f : f = [n \in 0..M |-> Body(f, n)]
      OBVIOUS
    <2> QED
      BY <2>1 DEF Filtering
  <1>2. PICK N \in S : \A K \in S : N <= K
    <2>1. S \in SUBSET Nat
      OBVIOUS
    <2> HIDE DEF S
    <2> QED
      BY <1>1, <2>1, Smallest
  <1>3. N \in Nat /\ ~\E f : f = [n \in 0..N |-> Body(f, n)]
    OBVIOUS
  <1>4. CASE N = 0
    <2> DEFINE f == [n \in 0..0 |-> <<>>]
    <2>1. f = [n \in 0..0 |-> Body(f, n)]
      OBVIOUS
    <2> HIDE DEF Body, f
    <2> QED
      BY <1>3, <1>4, <2>1
  <1>5. CASE N # 0
    <2>1. N - 1 \in Nat /\ N - 1 \notin S
      <3>1. N \in Nat
        BY <1>3
      <3>2. N - 1 \in Nat /\ ~(N <= N - 1)
        BY <1>5, <3>1
      <3> HIDE DEF S
      <3> QED
        BY <1>2, <3>2
    <2>2. PICK f : f = [n \in 0..(N - 1) |-> Body(f, n)]
      BY <2>1
    <2> DEFINE g == [n \in 0..N |-> IF n = N THEN Body(f, N) ELSE f[n]]
    <2>3. ASSUME NEW n \in 0..N
          PROVE  g[n] = Body(g, n)
      <3>1. CASE n = 0
        <4>1. g[0] = f[0] /\ f[0] = Body(f, 0) /\ n # N
          BY <1>3, <1>5, <2>2, <3>1
        <4> QED
          BY <3>1, <4>1
      <3>2. CASE n # 0
        <4>1. n - 1 \in 0..N /\ n - 1 # N /\ n \in Nat
          BY <1>3, <2>3, <3>2
        <4>2. g[n - 1] = f[n - 1]
          BY <4>1
        <4>3. Body(g, n) = Body(f, n)
          BY <3>2, <4>2
        <4>4. CASE n = N
          BY <4>3, <4>4
        <4>5. CASE n # N
          <5>1. n \in 0..(N - 1)
            BY <1>3, <4>1, <4>5
          <5>2. f[n] = Body(f, n)
            BY <2>2, <5>1
          <5>3. g[n] = f[n]
            BY <4>5
          <5> HIDE DEF Body, g
          <5> QED
            BY <4>3, <5>2, <5>3
        <4> QED
          BY <4>4, <4>5
      <3> QED
        BY <3>1, <3>2
    <2>4. DOMAIN g = 0..N /\ g = [n \in DOMAIN g |-> g[n]]
      OBVIOUS
    <2> HIDE DEF Body, g
    <2>5. g = [n \in 0..N |-> Body(g, n)]
      BY <2>3, <2>4
    <2> QED
      BY <1>3, <2>5
  <1> QED
    BY <1>4, <1>5

\* Elements of s that are not in drop, and no others.
Left(r, s, drop) ==
  \A j \in DOMAIN r : \E i \in DOMAIN s : r[j] = s[i] /\ s[i] \notin drop

LEMMA WithoutLeaves ==
  ASSUME NEW T, NEW s \in Seq(T), NEW drop
  PROVE  Without(s, drop) \in Seq(T) /\ Left(Without(s, drop), s, drop)
  <1> DEFINE f == CHOOSE h : Filtering(h, s, drop, Len(s))
             S == {n \in 0..Len(s) : ~(f[n] \in Seq(T) /\ Left(f[n], s, drop))}
  <1>1. Len(s) \in Nat /\ DOMAIN s = 1..Len(s)
    OBVIOUS
  <1>2. Filtering(f, s, drop, Len(s))
    <2>1. \E h : Filtering(h, s, drop, Len(s))
      BY <1>1, FilteringExists
    <2> QED BY ONLY <2>1
  <1>3. Without(s, drop) = f[Len(s)]
    BY DEF Without, Filtering
  <1> HIDE DEF f
  <1>4. ASSUME NEW n \in 0..Len(s)
        PROVE  f[n] = IF n = 0 THEN <<>>
                      ELSE IF s[n] \in drop THEN f[n - 1] ELSE Append(f[n - 1], s[n])
    BY <1>2 DEF Filtering
  <1>5. S = {}
    <2>1. SUFFICES ASSUME S # {} PROVE FALSE
      OBVIOUS
    <2>2. PICK n \in S : \A k \in S : n <= k
      <3>1. S \in SUBSET Nat
        BY <1>1
      <3> HIDE DEF S
      <3> QED BY <2>1, <3>1, Smallest
    <2>3. n # 0
      <3>1. f[0] = <<>>
        BY <1>1, <1>4
      <3>2. <<>> \in Seq(T) /\ Left(<<>>, s, drop)
        BY DEF Left
      <3>3. n = 0 => n \notin S
        BY <3>1, <3>2
      <3> QED BY <3>3
    <2>4. n \in 1..Len(s) /\ n - 1 \in 0..Len(s) /\ ~(n <= n - 1)
      BY <1>1, <2>3
    <2>5. n - 1 \notin S
      <3> HIDE DEF S
      <3> QED BY <2>2, <2>4
    <2>6. f[n - 1] \in Seq(T) /\ Left(f[n - 1], s, drop)
      BY <2>4, <2>5
    <2>7. CASE s[n] \in drop
      <3>1. f[n] = f[n - 1]
        BY <1>4, <2>3, <2>7
      <3> QED BY <2>6, <3>1
    <2>8. CASE s[n] \notin drop
      <3>1. f[n] = Append(f[n - 1], s[n])
        BY <1>4, <2>3, <2>8
      <3>2. s[n] \in T /\ n \in DOMAIN s
        BY <1>1, <2>4
      <3>3. PICK r \in Seq(T) : r = f[n - 1]
        BY <2>6
      <3>4. Append(r, s[n]) \in Seq(T)
        BY <3>2
      <3>5. ASSUME NEW j \in DOMAIN Append(r, s[n])
            PROVE  \E i \in DOMAIN s : Append(r, s[n])[j] = s[i] /\ s[i] \notin drop
        <4>1. CASE j \in DOMAIN r
          <5>1. Append(r, s[n])[j] = r[j]
            BY <3>2, <4>1
          <5> QED BY <2>6, <3>3, <4>1, <5>1 DEF Left
        <4>2. CASE j \notin DOMAIN r
          <5>1. Append(r, s[n])[j] = s[n]
            BY <3>2, <4>2
          <5> QED BY <2>8, <3>2, <5>1
        <4> QED BY <4>1, <4>2
      <3>6. f[n] \in Seq(T) /\ Left(f[n], s, drop)
        BY <3>1, <3>3, <3>4, <3>5 DEF Left
      <3> QED BY <3>6
    <2> QED BY <2>7, <2>8
  <1>6. Len(s) \notin S /\ Len(s) \in 0..Len(s)
    BY <1>1, <1>5
  <1> QED BY <1>3, <1>6

LEMMA WithoutIs ==
  ASSUME NEW T, NEW s \in Seq(T), NEW drop, NEW r, r = Without(s, drop)
  PROVE  r \in Seq(T) /\ \A j \in 1..Len(r) : \E i \in 1..Len(s) : r[j] = s[i] /\ s[i] \notin drop
  <1>1. r \in Seq(T) /\ Left(r, s, drop)
    BY WithoutLeaves
  <1>2. DOMAIN r = 1..Len(r) /\ DOMAIN s = 1..Len(s)
    BY <1>1
  <1> QED BY <1>1, <1>2 DEF Left

-----------------------------------------------------------------------------
(* Types.                                                                  *)

MessageType == [id : Nat, rev : Nat]
SnapshotType == [messages : Seq(MessageType), running : BOOLEAN, queue : Seq(Nat), asof : Nat]
SingleKinds == {"begin", "resume", "start", "update", "retry", "over", "failed"}
EndKinds == {"end", "recovered"}
BareKinds == {"again", "queue", "error", "settled", "compacting", "compacted", "uncompacted"}
PlainKinds == SingleKinds \union EndKinds \union BareKinds
RestoreType == [kind : {"snapshot"}, seq : Nat, snap : SnapshotType]
PlainType ==
  {e \in [kind : PlainKinds, seq : Nat, msg : Seq(MessageType), queue : Seq(Nat)] :
     /\ e.kind \in SingleKinds => Len(e.msg) = 1
     /\ e.kind \in EndKinds => Len(e.msg) \in {1, 2}}
FrameType == RestoreType \union PlainType
StreamType == [at : {"off", "dialing", "on"}, fresh : BOOLEAN, attached : BOOLEAN,
               frames : Seq(FrameType)]
LoadType == [at : {"none", "asked", "answered"}, snap : Seq(SnapshotType)]
PostType == [at : {"none", "sent", "accepted", "refused"}, id : Nat, queued : BOOLEAN]
Flags == {"compaction", "retry"}
ViewType == [messages : Seq(MessageType), pointer : Nat, run : {"idle", "running", "failed"},
             queue : Seq(Nat), busy : SUBSET Flags, loaded : {"pending", "loading", "loaded"}, lastSeq : Nat]
AheadType == [id : Nat, base : Nat]

ServerTypes ==
  seq \in Nat /\ epoch \in Nat /\ sessionFile \in {"present", "unlinking", "gone"}

TalkTypes ==
  /\ transcript \in Seq(MessageType)
  /\ run \in {"idle", "thinking", "streaming", "retrying", "ending", "compacting"}
  /\ attempt \in BOOLEAN /\ rev \in Nat /\ pending \in Seq(Nat)

WireTypes ==
  /\ sse \in StreamType
  /\ load \in LoadType /\ (load.at = "answered" => Len(load.snap) = 1)
  /\ post \in PostType

BrowserTypes == view \in ViewType /\ optimistic \in Seq(AheadType) /\ mounted \in BOOLEAN

HistoryTypes ==
  /\ known \in Nat /\ doubt \in Nat /\ stray \in BOOLEAN
  /\ replies \in Nat /\ sends \in Nat /\ troubles \in Nat

ThreadTypes == ServerTypes /\ TalkTypes /\ WireTypes /\ BrowserTypes /\ HistoryTypes

LEMMA EmptyTyped == <<>> \in Seq(MessageType) /\ <<>> \in Seq(Nat)
  BY EmptySeq

LEMMA MessageTyped == \A id, r \in Nat : Message(id, r) \in MessageType
  BY DEF Message, MessageType

LEMMA FinalTyped == Final \in Nat
  BY CockpitAssumption DEF Final

LEMMA UserTyped == \A id \in Nat : User(id) \in MessageType
  BY MessageTyped, FinalTyped DEF User

LEMMA PositionTyped == ASSUME ServerTypes PROVE Position \in Nat /\ \A n \in Nat : At(n) \in Nat
  BY DEF ServerTypes, Position, At

LEMMA LaterTyped == \A a, b \in Nat : Later(a, b) \in Nat /\ Later(a, b) >= a /\ Later(a, b) >= b
  BY DEF Later

LEMMA SnapshotTyped == ASSUME ServerTypes, TalkTypes PROVE Snapshot \in SnapshotType
  BY PositionTyped DEF TalkTypes, Snapshot, SnapshotType

LEMMA EmitTyped ==
  ASSUME ServerTypes, sse \in StreamType, NEW e \in FrameType, Emit(e)
  PROVE  seq' \in Nat /\ sse' \in StreamType
  <1>1. PICK f \in Seq(FrameType) : f = sse.frames
    BY DEF StreamType
  <1>2. Append(f, e) \in Seq(FrameType)
    BY AppendProperties
  <1>3. PICK g \in Seq(FrameType) : g = Append(f, e)
    BY <1>2
  <1>4. [sse EXCEPT !.frames = g] \in StreamType
    BY DEF StreamType
  <1>5. sse' = IF Attached THEN [sse EXCEPT !.frames = g] ELSE sse
    BY <1>1, <1>3 DEF Emit
  <1>6. seq' \in Nat
    BY DEF ServerTypes, Emit
  <1>7. sse' \in StreamType
    BY <1>4, <1>5
  <1> QED BY <1>6, <1>7

LEMMA EventTyped ==
  ASSUME ServerTypes, NEW k \in PlainKinds, NEW m \in Seq(MessageType), NEW q \in Seq(Nat),
         k \in SingleKinds => Len(m) = 1, k \in EndKinds => Len(m) \in {1, 2}
  PROVE  Event(k, m, q) \in FrameType
  <1>1. [kind |-> k, seq |-> seq + 1, msg |-> m, queue |-> q]
          \in [kind : PlainKinds, seq : Nat, msg : Seq(MessageType), queue : Seq(Nat)]
    BY DEF ServerTypes
  <1>2. [kind |-> k, seq |-> seq + 1, msg |-> m, queue |-> q] \in PlainType
    BY <1>1 DEF PlainType
  <1> QED BY <1>2 DEF Event, FrameType

\* The reducer keeps a view a view.
LEMMA PutTyped ==
  ASSUME NEW v \in ViewType, NEW m \in MessageType
  PROVE  /\ Push(v, m) \in ViewType /\ PushReply(v, m) \in ViewType
         /\ Streaming(v) => Put(v, m) \in ViewType
         /\ Close(v, m) \in ViewType
  <1>1. Push(v, m) \in ViewType
    <2>1. PICK s \in Seq(MessageType) : s = v.messages
      BY DEF ViewType
    <2>2. PICK t \in Seq(MessageType) : t = Append(s, m)
      BY AppendProperties
    <2>3. [v EXCEPT !.messages = t] \in ViewType
      BY DEF ViewType
    <2> QED BY <2>1, <2>2, <2>3 DEF Push
  <1>2. PushReply(v, m) \in ViewType
    <2>1. Len(v.messages) + 1 \in Nat
      BY DEF ViewType
    <2>2. PICK w \in ViewType : w = Push(v, m)
      BY <1>1
    <2>3. [w EXCEPT !.pointer = Len(v.messages) + 1] \in ViewType
      BY <2>1 DEF ViewType
    <2> QED BY <2>2, <2>3 DEF PushReply
  <1>3. Streaming(v) => Put(v, m) \in ViewType
    <2>1. PICK s \in Seq(MessageType) : s = v.messages
      BY DEF ViewType
    <2>2. Streaming(v) => v.pointer \in 1..Len(s)
      BY <2>1 DEF Streaming
    <2>3. SUFFICES ASSUME Streaming(v) PROVE Put(v, m) \in ViewType
      OBVIOUS
    <2>4. PICK t \in Seq(MessageType) : t = [s EXCEPT ![v.pointer] = m]
      BY <2>2, <2>3, ExceptSeq
    <2>5. [v EXCEPT !.messages = t] \in ViewType
      BY DEF ViewType
    <2>6. Put(v, m) = [v EXCEPT !.messages = t]
      BY <2>1, <2>4 DEF Put
    <2> QED BY <2>5, <2>6
  <1>4. Close(v, m) \in ViewType
    BY <1>3 DEF Close, ViewType
  <1> QED BY <1>1, <1>2, <1>3, <1>4

LEMMA RestoredTyped ==
  ASSUME NEW v \in ViewType, NEW s \in SnapshotType
  PROVE  Restored(v, s) \in ViewType
  BY DEF ViewType, SnapshotType, Restored

LEMMA ReducedTyped ==
  ASSUME NEW v \in ViewType, NEW e \in FrameType
  PROVE  Reduced(v, e) \in ViewType
  <1>1. CASE e \in RestoreType
    <2>1. e.kind = "snapshot" /\ e.snap \in SnapshotType
      BY <1>1 DEF RestoreType
    <2> QED BY <2>1, RestoredTyped DEF Reduced
  <1>2. CASE e \in PlainType
    <2>0. e.kind \in PlainKinds /\ e.msg \in Seq(MessageType) /\ e.queue \in Seq(Nat)
      BY <1>2 DEF PlainType
    <2>1. CASE e.kind \in SingleKinds \union EndKinds
      <3>1. Len(e.msg) \in {1, 2} /\ (e.kind \in SingleKinds => Len(e.msg) = 1)
        BY <1>2, <2>1 DEF PlainType
      <3>2. e.msg[1] \in MessageType /\ (Len(e.msg) # 1 => e.msg[2] \in MessageType)
        BY <2>0, <3>1
      <3>3. CASE e.kind \in {"begin", "resume"}
        <4>1. Push(v, e.msg[1]) \in ViewType
          BY <3>2, PutTyped
        <4>2. /\ [Push(v, e.msg[1]) EXCEPT !.run = "running", !.queue = e.queue] \in ViewType
              /\ [Push(v, e.msg[1]) EXCEPT !.run = "running"] \in ViewType
          BY <2>0, <4>1 DEF ViewType
        <4> QED BY <3>3, <4>2 DEF Reduced
      <3>4. CASE e.kind = "start"
        BY <3>2, <3>4, PutTyped DEF Reduced
      <3>5. CASE e.kind = "update"
        BY <3>2, <3>5, PutTyped DEF Reduced
      <3>6. CASE e.kind \in EndKinds
        <4> DEFINE w == Close(v, e.msg[1])
        <4>1. w \in ViewType
          BY <3>2, PutTyped
        <4>2. Reduced(v, e) = IF Len(e.msg) = 1 THEN [w EXCEPT !.run = "idle", !.pointer = 0]
                              ELSE [Push(w, e.msg[2]) EXCEPT !.queue = e.queue]
          BY <3>6 DEF Reduced, EndKinds
        <4> HIDE DEF w
        <4>3. CASE Len(e.msg) = 1
          <5>1. [w EXCEPT !.run = "idle", !.pointer = 0] \in ViewType
            BY <4>1 DEF ViewType
          <5> QED BY <4>2, <4>3, <5>1
        <4>4. CASE Len(e.msg) # 1
          <5>1. Push(w, e.msg[2]) \in ViewType
            BY <3>2, <4>1, <4>4, PutTyped
          <5>2. [Push(w, e.msg[2]) EXCEPT !.queue = e.queue] \in ViewType
            BY <2>0, <5>1 DEF ViewType
          <5> QED BY <4>2, <4>4, <5>2
        <4> QED BY <4>3, <4>4
      <3>7. CASE e.kind \in {"retry", "over", "failed"}
        <4>1. PICK w \in ViewType : w = Close(v, e.msg[1])
          BY <3>2, PutTyped
        <4>2. [w EXCEPT !.pointer = 0] \in ViewType
          BY DEF ViewType
        <4> QED BY <3>7, <4>1, <4>2 DEF Reduced
      <3> QED BY <2>1, <3>3, <3>4, <3>5, <3>6, <3>7 DEF SingleKinds
    <2>2. CASE e.kind \in {"queue", "again"}
      BY <2>0, <2>2 DEF Reduced, ViewType
    <2>3. CASE e.kind \in BareKinds \ {"queue", "again"}
      BY <2>3 DEF Reduced, BareKinds
    <2> QED BY <2>0, <2>1, <2>2, <2>3 DEF PlainKinds
  <1> QED BY <1>1, <1>2 DEF FrameType

LEMMA FlagsTyped ==
  ASSUME NEW v \in ViewType, NEW k
  PROVE  (v.busy \ Ends(k)) \union Begins(k) \in SUBSET Flags
  <1>1. Begins(k) \subseteq Flags
    BY DEF Begins, Flags
  <1> QED BY <1>1 DEF ViewType

LEMMA ReduceTyped ==
  ASSUME NEW v \in ViewType, NEW e \in FrameType
  PROVE  Reduce(v, e) \in ViewType
  <1> DEFINE heard == e.kind = "snapshot" \/ e.seq > v.lastSeq
  <1>1. PICK w \in ViewType : w = IF heard THEN Reduced(v, e) ELSE v
    BY ReducedTyped
  <1>2. Later(v.lastSeq, e.seq) \in Nat
    BY LaterTyped DEF ViewType, FrameType, RestoreType, PlainType
  <1>3. PICK b \in SUBSET Flags :
          b = IF heard THEN (v.busy \ Ends(e.kind)) \union Begins(e.kind) ELSE v.busy
    BY FlagsTyped DEF ViewType
  <1>4. ASSUME NEW x \in {"idle", "running", "failed"}, NEW n \in Nat
        PROVE  [w EXCEPT !.busy = b, !.run = x, !.lastSeq = n] \in ViewType
    BY DEF ViewType
  <1>5. Reduce(v, e) = [w EXCEPT !.busy = b, !.run = IF e.kind \in Faulty THEN "failed" ELSE w.run,
                                 !.lastSeq = Later(v.lastSeq, e.seq)]
    BY <1>1, <1>3 DEF Reduce
  <1>6. PICK x \in {"idle", "running", "failed"} : x = IF e.kind \in Faulty THEN "failed" ELSE w.run
    BY <1>1 DEF ViewType
  <1>7. PICK n \in Nat : n = Later(v.lastSeq, e.seq)
    BY <1>2
  <1>8. Reduce(v, e) = [w EXCEPT !.busy = b, !.run = x, !.lastSeq = n]
    BY <1>5, <1>6, <1>7
  <1> QED BY <1>4, <1>8

LEMMA DispatchTyped ==
  ASSUME BrowserTypes, NEW e \in FrameType, NEW refresh \in BOOLEAN, Dispatch(e, refresh)
  PROVE  view' \in ViewType /\ optimistic' \in Seq(AheadType)
  <1>1. Reduce(view, e) \in ViewType
    BY ReduceTyped DEF BrowserTypes
  <1>2. view' \in ViewType
    BY <1>1 DEF Dispatch, ViewType
  <1>3. optimistic' = Without(optimistic, Confirmed(optimistic, Reduce(view, e)))
    BY DEF Dispatch, Unconfirmed
  <1>4. optimistic' \in Seq(AheadType)
    BY <1>3, WithoutLeaves DEF BrowserTypes
  <1> QED BY <1>2, <1>4

\* What a step leaves alone keeps its type.
LEMMA SameTypes ==
  ASSUME ThreadTypes
  PROVE  /\ UNCHANGED <<seq, epoch, sessionFile>> => ServerTypes'
         /\ UNCHANGED sessionVars => TalkTypes'
         /\ UNCHANGED <<sse, load, post>> => WireTypes'
         /\ UNCHANGED clientVars => BrowserTypes'
         /\ UNCHANGED <<history, bounds>> => HistoryTypes'
  BY DEF ThreadTypes, ServerTypes, TalkTypes, WireTypes, BrowserTypes, HistoryTypes,
         sessionVars, clientVars, history, bounds

\* A step of the server that emits an event and leaves the browser alone.
LEMMA EmittingTypes ==
  ASSUME ThreadTypes, NEW e \in FrameType, Emit(e), UNCHANGED <<epoch, sessionFile, load, clientVars>>,
         TalkTypes', HistoryTypes', post' \in PostType
  PROVE  ThreadTypes'
  <1>1. seq' \in Nat /\ sse' \in StreamType
    BY EmitTyped DEF ThreadTypes, WireTypes
  <1> QED BY <1>1 DEF ThreadTypes, ServerTypes, WireTypes, BrowserTypes, clientVars

LEMMA PlainTypes ==
  ASSUME ThreadTypes,
         \/ \E k \in Openers : Look(k)
         \/ StreamArrives \/ PostArrives \/ UNCHANGED cockpitVars
  PROVE  ThreadTypes'
  BY SameTypes DEF Look, StreamArrives, PostArrives, ThreadTypes, cockpitVars, supervisorVars

LEMMA CreateTypes == ASSUME ThreadTypes, NEW k \in Openers, Create(k) PROVE ThreadTypes'
  BY SameTypes DEF Create, ThreadTypes, ServerTypes

LEMMA UnlinkedTypes == ASSUME ThreadTypes, Unlinked PROVE ThreadTypes'
  BY SameTypes DEF Unlinked, ThreadTypes, ServerTypes

LEMMA DroppedTypes == ASSUME sse \in StreamType PROVE Dropped \in StreamType
  <1>1. PICK f \in Seq(FrameType) : f = <<>>
    BY EmptySeq
  <1>2. [sse EXCEPT !.at = "dialing", !.attached = FALSE, !.frames = f] \in StreamType
    BY DEF StreamType
  <1> QED BY <1>1, <1>2 DEF Dropped

LEMMA DeleteTypes == ASSUME ThreadTypes, DeleteThread PROVE ThreadTypes'
  <1>0. PICK q \in Seq(Nat) : q = <<>>
    BY EmptyTyped
  <1>1. ServerTypes' /\ TalkTypes' /\ BrowserTypes'
    <2>1. ServerTypes'
      BY DEF DeleteThread, ThreadTypes, ServerTypes
    <2>2. transcript' = transcript /\ run' = "idle" /\ attempt' = FALSE /\ rev' = 0 /\ pending' = q
      BY <1>0 DEF DeleteThread
    <2>3. TalkTypes'
      BY <2>2 DEF ThreadTypes, TalkTypes
    <2> QED BY <2>1, <2>3, SameTypes DEF DeleteThread, ThreadTypes
  <1>2. HistoryTypes'
    <2>1. UNCHANGED <<known, doubt, stray, replies, sends>> /\ troubles' = troubles + 1
      BY DEF DeleteThread, Trouble, history
    <2> QED BY <2>1 DEF ThreadTypes, HistoryTypes
  <1>3. sse' \in StreamType
    BY DEF DeleteThread, ThreadTypes, WireTypes, StreamType
  <1>4. WireTypes'
    BY <1>3 DEF DeleteThread, ThreadTypes, WireTypes
  <1> QED BY <1>1, <1>2, <1>4 DEF ThreadTypes

LEMMA RestartTypes == ASSUME ThreadTypes, ServerRestarts PROVE ThreadTypes'
  <1>0. PICK q \in Seq(Nat) : q = <<>>
    BY EmptyTyped
  <1>1. ServerTypes' /\ TalkTypes' /\ BrowserTypes'
    <2>1. ServerTypes'
      BY DEF ServerRestarts, ThreadTypes, ServerTypes
    <2>2. transcript' = transcript /\ run' = "idle" /\ attempt' = FALSE /\ rev' = 0 /\ pending' = q
      BY <1>0 DEF ServerRestarts
    <2>3. TalkTypes'
      BY <2>2 DEF ThreadTypes, TalkTypes
    <2> QED BY <2>1, <2>3, SameTypes DEF ServerRestarts, ThreadTypes
  <1>2. HistoryTypes'
    <2>1. UNCHANGED <<known, doubt, stray, replies, sends>> /\ troubles' = troubles + 1
      BY DEF ServerRestarts, Trouble
    <2> QED BY <2>1 DEF ThreadTypes, HistoryTypes
  <1>3. sse' \in StreamType
    BY DroppedTypes DEF ServerRestarts, ThreadTypes, WireTypes
  <1>4. post' \in PostType
    BY DEF ServerRestarts, ThreadTypes, WireTypes, PostType
  <1>5. WireTypes'
    BY <1>3, <1>4 DEF ServerRestarts, ThreadTypes, WireTypes
  <1> QED BY <1>1, <1>2, <1>5 DEF ThreadTypes

LEMMA SnapshotEventTyped ==
  ASSUME NEW s \in SnapshotType, NEW n \in Nat
  PROVE  SnapshotEvent(s, n) \in FrameType
  BY DEF SnapshotEvent, FrameType, RestoreType

LEMMA AttachTypes == ASSUME ThreadTypes, Attach PROVE ThreadTypes'
  <1>1. ServerTypes' /\ TalkTypes' /\ BrowserTypes'
    BY SameTypes DEF Attach, ThreadTypes
  <1>2. HistoryTypes'
    BY LaterTyped, PositionTyped DEF Attach, ThreadTypes, HistoryTypes, bounds
  <1>3. sse' \in StreamType
    <2>1. SnapshotEvent(Snapshot, seq) \in FrameType
      BY SnapshotTyped, SnapshotEventTyped DEF ThreadTypes, ServerTypes
    <2>2. Event("error", <<>>, <<>>) \in PlainType
      BY DEF ThreadTypes, ServerTypes, Event, PlainType, PlainKinds, SingleKinds, EndKinds, BareKinds
    <2>3. PICK e \in PlainType : e = Event("error", <<>>, <<>>)
      BY <2>2
    <2>4. [e EXCEPT !.seq = 0] \in PlainType
      BY <2>3 DEF PlainType
    <2>5. [Event("error", <<>>, <<>>) EXCEPT !.seq = 0] \in FrameType
      BY <2>3, <2>4 DEF FrameType
    <2>6. ASSUME NEW f \in Seq(FrameType), NEW b \in BOOLEAN
          PROVE  [sse EXCEPT !.at = "on", !.attached = b, !.frames = f] \in StreamType
      BY DEF ThreadTypes, WireTypes, StreamType
    <2> DEFINE f == IF opener["events"] = "unknown"
                    THEN <<[Event("error", <<>>, <<>>) EXCEPT !.seq = 0]>>
                    ELSE IF sse.fresh THEN <<SnapshotEvent(Snapshot, seq)>>
                    ELSE <<>>
               b == opener["events"] # "unknown"
    <2>7. \A x \in FrameType : <<x>> \in Seq(FrameType)
      OBVIOUS
    <2>8. f \in Seq(FrameType)
      BY <2>1, <2>5, <2>7
    <2>9. sse' = IF ~Subscribing THEN sse
                 ELSE [sse EXCEPT !.at = "on", !.attached = b, !.frames = f]
      BY DEF Attach
    <2>10. b \in BOOLEAN
      OBVIOUS
    <2> HIDE DEF f, b
    <2> QED BY <2>6, <2>8, <2>9, <2>10 DEF ThreadTypes, WireTypes
  <1>4. WireTypes'
    BY <1>3 DEF Attach, ThreadTypes, WireTypes
  <1> QED BY <1>1, <1>2, <1>4 DEF ThreadTypes

LEMMA DropTypes == ASSUME ThreadTypes, Drop PROVE ThreadTypes'
  <1>1. ServerTypes' /\ TalkTypes' /\ BrowserTypes'
    BY SameTypes DEF Drop, ThreadTypes, supervisorVars
  <1>2. HistoryTypes'
    BY DEF Drop, Trouble, ThreadTypes, HistoryTypes, history
  <1>3. WireTypes'
    BY DroppedTypes DEF Drop, ThreadTypes, WireTypes
  <1> QED BY <1>1, <1>2, <1>3 DEF ThreadTypes

LEMMA FirstFrame ==
  ASSUME sse \in StreamType, sse.frames # <<>>
  PROVE  Head(sse.frames) = sse.frames[1] /\ sse.frames[1] \in FrameType /\ sse.frames[1].seq \in Nat
  <1>1. PICK f \in Seq(FrameType) : f = sse.frames
    BY DEF StreamType
  <1>2. Len(f) \in Nat \ {0} /\ Head(f) = f[1] /\ f[1] \in FrameType
    BY <1>1
  <1>3. f[1].seq \in Nat
    BY <1>2 DEF FrameType, RestoreType, PlainType
  <1> QED BY <1>1, <1>2, <1>3

LEMMA DeliverTypes == ASSUME ThreadTypes, Deliver PROVE ThreadTypes'
  <1> DEFINE e == Head(sse.frames)
             refresh == e.kind = "settled" /\ load.at = "none"
  <1>1. e \in FrameType /\ e.seq \in Nat
    BY FirstFrame DEF Deliver, ThreadTypes, WireTypes
  <1>2. refresh \in BOOLEAN
    OBVIOUS
  <1>3. Dispatch(e, refresh) /\ load' = (IF refresh THEN [load EXCEPT !.at = "asked"] ELSE load)
    BY DEF Deliver
  <1>4. view' \in ViewType /\ optimistic' \in Seq(AheadType)
    <2> HIDE DEF e, refresh
    <2> QED BY <1>1, <1>2, <1>3, DispatchTyped DEF ThreadTypes
  <1>5. ServerTypes' /\ TalkTypes'
    BY SameTypes DEF Deliver, ThreadTypes, supervisorVars
  <1>6. BrowserTypes'
    BY <1>4 DEF Deliver, ThreadTypes, BrowserTypes
  <1>7. known' \in Nat
    <2>1. known' = Later(known, At(e.seq))
      BY DEF Deliver
    <2> HIDE DEF e
    <2> QED BY <1>1, <2>1, LaterTyped, PositionTyped DEF ThreadTypes, HistoryTypes
  <1>8. doubt' \in Nat
    <2>1. doubt' \in {Later(doubt, At(e.seq)), 0, doubt}
      BY DEF Deliver
    <2>2. At(e.seq) \in Nat /\ doubt \in Nat /\ 0 \in Nat
      BY <1>1, PositionTyped DEF ThreadTypes, HistoryTypes
    <2> HIDE DEF e
    <2>3. Later(doubt, At(e.seq)) \in Nat
      BY <2>2, LaterTyped
    <2> QED BY ONLY <2>1, <2>2, <2>3
  <1>9. HistoryTypes'
    BY <1>7, <1>8 DEF Deliver, ThreadTypes, HistoryTypes, bounds
  <1>10. sse' \in StreamType
    <2>1. PICK f \in Seq(FrameType) : f = sse.frames
      BY DEF ThreadTypes, WireTypes, StreamType
    <2>2. Tail(f) \in Seq(FrameType)
      BY <2>1, HeadTailProperties DEF Deliver
    <2>3. [sse EXCEPT !.frames = Tail(f)] \in StreamType
      BY <2>2 DEF ThreadTypes, WireTypes, StreamType
    <2> QED BY <2>1, <2>3 DEF Deliver
  <1>11. load' \in LoadType /\ (load'.at = "answered" => Len(load'.snap) = 1)
    <2> HIDE DEF e
    <2> QED BY <1>3 DEF ThreadTypes, WireTypes, LoadType
  <1>12. WireTypes'
    BY <1>10, <1>11 DEF Deliver, ThreadTypes, WireTypes
  <1> QED BY <1>5, <1>6, <1>9, <1>12 DEF ThreadTypes

LEMMA BeginTypes ==
  ASSUME ServerTypes, TalkTypes, NEW k \in {"begin", "resume"}, NEW id \in Nat, NEW q \in Seq(Nat),
         Begin(k, id, q), UNCHANGED <<attempt, rev>>
  PROVE  TalkTypes' /\ Event(k, <<User(id)>>, q) \in FrameType
  <1>1. User(id) \in MessageType
    BY UserTyped
  <1>2. <<User(id)>> \in Seq(MessageType) /\ Len(<<User(id)>>) = 1
    BY <1>1
  <1>3. Event(k, <<User(id)>>, q) \in FrameType
    BY <1>2, EventTyped DEF PlainKinds, SingleKinds, EndKinds, BareKinds
  <1>4. transcript' \in Seq(MessageType)
    BY <1>1, AppendProperties DEF Begin, TalkTypes
  <1> QED BY <1>3, <1>4 DEF Begin, TalkTypes

LEMMA ErrorTyped == ASSUME ServerTypes PROVE Event("error", <<>>, <<>>) \in FrameType
  BY EventTyped, EmptyTyped DEF PlainKinds, SingleKinds, EndKinds, BareKinds

LEMMA PromptTypes == ASSUME ThreadTypes, Prompt PROVE ThreadTypes'
  <1>1. UNCHANGED <<epoch, sessionFile, load, clientVars>>
    BY DEF Prompt
  <1>2. post' \in PostType
    BY DEF Prompt, ThreadTypes, WireTypes, PostType
  <1>3. HistoryTypes'
    BY DEF Prompt, Trouble, ThreadTypes, HistoryTypes, history, bounds
  <1>4. CASE Begin("begin", post.id, pending) /\ UNCHANGED <<attempt, rev>>
    <2>1. post.id \in Nat /\ pending \in Seq(Nat)
      BY DEF ThreadTypes, WireTypes, PostType, TalkTypes
    <2>2. TalkTypes' /\ Event("begin", <<User(post.id)>>, pending) \in FrameType
      BY <1>4, <2>1, BeginTypes DEF ThreadTypes
    <2> QED BY <1>1, <1>2, <1>3, <1>4, <2>2, EmittingTypes DEF Begin
  <1>5. CASE pending' = Append(pending, post.id) /\ Emit(Event("queue", <<>>, pending')) /\ UNCHANGED <<transcript, run, attempt, rev>>
    <2>1. pending' \in Seq(Nat)
      BY <1>5, AppendProperties DEF ThreadTypes, WireTypes, PostType, TalkTypes
    <2>2. Event("queue", <<>>, pending') \in FrameType
      BY <2>1, EventTyped, EmptyTyped DEF PlainKinds, SingleKinds, EndKinds, BareKinds, ThreadTypes
    <2>3. TalkTypes'
      BY <1>5, <2>1 DEF ThreadTypes, TalkTypes
    <2> QED BY <1>1, <1>2, <1>3, <1>5, <2>2, <2>3, EmittingTypes
  <1>6. CASE Emit(Event("error", <<>>, <<>>)) /\ UNCHANGED sessionVars
    <2>1. TalkTypes'
      BY <1>6, SameTypes
    <2> QED BY <1>1, <1>2, <1>3, <1>6, <2>1, ErrorTyped, EmittingTypes DEF ThreadTypes
  <1>7. CASE UNCHANGED <<sessionVars, seq, sse>>
    BY <1>1, <1>2, <1>3, <1>7, SameTypes DEF ThreadTypes, WireTypes
  <1> QED BY <1>4, <1>5, <1>6, <1>7 DEF Prompt, bounds

LEMMA ReplyTyped == \A n \in Nat : ReplyId(n) \in Nat /\ SummaryId(n) \in Nat
  BY DEF ReplyId, SummaryId

LEMMA RunTypes == ASSUME ThreadTypes, RunStep PROVE ThreadTypes'
  <1>1. UNCHANGED <<epoch, sessionFile, load, clientVars, post>> /\ post' \in PostType
    BY DEF RunStep, ThreadTypes, WireTypes
  <1>2. HistoryTypes'
    BY DEF RunStep, StartReply, UpdateReply, EndReply, FailReply, RetryOver, Settle, Trouble,
           ThreadTypes, HistoryTypes, history, bounds
  <1>3. CASE StartReply
    <2>1. Message(ReplyId(replies'), 0) \in MessageType
      BY <1>2, MessageTyped, ReplyTyped DEF HistoryTypes
    <2>2. <<Message(ReplyId(replies'), 0)>> \in Seq(MessageType) /\ Len(<<Message(ReplyId(replies'), 0)>>) = 1
      BY <2>1
    <2>3. Event("start", <<Message(ReplyId(replies'), 0)>>, <<>>) \in FrameType
      BY <2>2, EventTyped, EmptyTyped DEF PlainKinds, SingleKinds, EndKinds, BareKinds, ThreadTypes
    <2>4. TalkTypes'
      BY <1>3 DEF StartReply, ThreadTypes, TalkTypes
    <2> QED BY <1>1, <1>2, <1>3, <2>3, <2>4, EmittingTypes DEF StartReply
  <1>4. CASE UpdateReply
    <2>0. rev' \in Nat
      BY <1>4 DEF UpdateReply, ThreadTypes, TalkTypes
    <2>1. Message(ReplyId(replies), rev') \in MessageType
      BY <2>0, MessageTyped, ReplyTyped DEF ThreadTypes, HistoryTypes
    <2>2. <<Message(ReplyId(replies), rev')>> \in Seq(MessageType) /\ Len(<<Message(ReplyId(replies), rev')>>) = 1
      BY <2>1
    <2>3. Event("update", <<Message(ReplyId(replies), rev')>>, <<>>) \in FrameType
      BY <2>2, EventTyped, EmptyTyped DEF PlainKinds, SingleKinds, EndKinds, BareKinds, ThreadTypes
    <2>4. TalkTypes'
      BY <1>4, <2>0 DEF UpdateReply, ThreadTypes, TalkTypes
    <2> QED BY <1>1, <1>2, <1>4, <2>3, <2>4, EmittingTypes DEF UpdateReply
  <1>5. CASE EndReply
    <2> DEFINE reply == User(ReplyId(replies))
               kind == IF attempt THEN "recovered" ELSE "end"
    <2>1. reply \in MessageType /\ kind \in EndKinds
      BY UserTyped, ReplyTyped DEF ThreadTypes, HistoryTypes, EndKinds
    <2>2. CASE pending = <<>>
      <3>1. /\ run' = "ending" /\ attempt' = FALSE /\ rev' = 0 /\ pending' = pending
            /\ transcript' = Append(transcript, reply) /\ Emit(Event(kind, <<reply>>, <<>>))
        BY <1>5, <2>2 DEF EndReply
      <3> HIDE DEF reply, kind
      <3>2. <<reply>> \in Seq(MessageType) /\ Len(<<reply>>) = 1
        BY <2>1
      <3>3. Event(kind, <<reply>>, <<>>) \in FrameType
        BY <2>1, <3>2, EventTyped, EmptyTyped DEF PlainKinds, SingleKinds, EndKinds, BareKinds, ThreadTypes
      <3>4. transcript' \in Seq(MessageType)
        BY <2>1, <3>1, AppendProperties DEF ThreadTypes, TalkTypes
      <3>5. TalkTypes'
        BY <3>1, <3>4 DEF ThreadTypes, TalkTypes
      <3> QED BY <1>1, <1>2, <3>1, <3>3, <3>5, EmittingTypes
    <2>3. CASE pending # <<>>
      <3> DEFINE user == User(Head(pending))
      <3>1. /\ run' = "thinking" /\ attempt' = FALSE /\ rev' = 0 /\ pending' = Tail(pending)
            /\ transcript' = transcript \o <<reply, user>> /\ Emit(Event(kind, <<reply, user>>, pending'))
        BY <1>5, <2>3 DEF EndReply
      <3>2. Head(pending) \in Nat /\ Tail(pending) \in Seq(Nat)
        BY <2>3, HeadTailProperties DEF ThreadTypes, TalkTypes
      <3>3. user \in MessageType
        BY <3>2, UserTyped
      <3> HIDE DEF reply, user, kind
      <3>4. <<reply, user>> \in Seq(MessageType) /\ Len(<<reply, user>>) = 2
        BY <2>1, <3>3
      <3>5. Event(kind, <<reply, user>>, pending') \in FrameType
        BY <2>1, <3>1, <3>2, <3>4, EventTyped DEF PlainKinds, SingleKinds, EndKinds, BareKinds, ThreadTypes
      <3>6. transcript' \in Seq(MessageType)
        BY <3>1, <3>4, ConcatProperties DEF ThreadTypes, TalkTypes
      <3>7. TalkTypes'
        BY <3>1, <3>2, <3>6 DEF TalkTypes
      <3> QED BY <1>1, <1>2, <3>1, <3>5, <3>7, EmittingTypes
    <2> QED BY <2>2, <2>3
  <1>6. CASE Settle
    <2>1. CASE pending = <<>>
      <3>1. Event("settled", <<>>, <<>>) \in FrameType
        BY EventTyped, EmptyTyped DEF PlainKinds, SingleKinds, EndKinds, BareKinds, ThreadTypes
      <3>2. TalkTypes'
        BY <1>6, <2>1 DEF Settle, ThreadTypes, TalkTypes
      <3> QED BY <1>1, <1>2, <1>6, <2>1, <3>1, <3>2, EmittingTypes DEF Settle
    <2>2. CASE pending # <<>>
      <3>1. Head(pending) \in Nat /\ Tail(pending) \in Seq(Nat)
        BY <2>2, HeadTailProperties DEF ThreadTypes, TalkTypes
      <3>2. Begin("resume", Head(pending), Tail(pending)) /\ UNCHANGED <<attempt, rev>>
        BY <1>6, <2>2 DEF Settle
      <3>3. TalkTypes' /\ Event("resume", <<User(Head(pending))>>, Tail(pending)) \in FrameType
        BY <3>1, <3>2, BeginTypes DEF ThreadTypes
      <3> QED BY <1>1, <1>2, <3>2, <3>3, EmittingTypes DEF Begin
    <2> QED BY <2>1, <2>2
  <1>7. CASE FailReply
    <2>1. PICK reply \in MessageType : reply = User(ReplyId(replies))
      BY UserTyped, ReplyTyped DEF ThreadTypes, HistoryTypes
    <2>2. <<reply>> \in Seq(MessageType) /\ Len(<<reply>>) = 1
      BY <2>1
    <2>3. \A k \in {"retry", "over", "failed"} : Event(k, <<reply>>, <<>>) \in FrameType
      BY <2>2, EventTyped, EmptyTyped DEF PlainKinds, SingleKinds, EndKinds, BareKinds, ThreadTypes
    <2>4. Append(transcript, reply) \in Seq(MessageType)
      BY AppendProperties DEF ThreadTypes, TalkTypes
    <2>5. TalkTypes'
      BY <1>7, <2>1, <2>4 DEF FailReply, ThreadTypes, TalkTypes
    <2> QED BY <1>1, <1>2, <1>7, <2>1, <2>3, <2>5, EmittingTypes DEF FailReply
  <1>8. CASE RetryOver
    <2>1. Event("again", <<>>, <<>>) \in FrameType
      BY EventTyped, EmptyTyped DEF PlainKinds, SingleKinds, EndKinds, BareKinds, ThreadTypes
    <2>2. TalkTypes'
      BY <1>8 DEF RetryOver, ThreadTypes, TalkTypes
    <2> QED BY <1>1, <1>2, <1>8, <2>1, <2>2, EmittingTypes DEF RetryOver
  <1> QED BY <1>3, <1>4, <1>5, <1>6, <1>7, <1>8 DEF RunStep

LEMMA CompactTypes == ASSUME ThreadTypes, Compact \/ Compacted PROVE ThreadTypes'
  <1>1. \A k \in {"compacting", "compacted", "uncompacted"} : Event(k, <<>>, <<>>) \in FrameType
    BY EventTyped, EmptyTyped DEF PlainKinds, SingleKinds, EndKinds, BareKinds, ThreadTypes
  <1>2. UNCHANGED <<epoch, sessionFile, load, clientVars, post>> /\ post' \in PostType
    BY DEF Compact, Compacted, ThreadTypes, WireTypes
  <1>3. CASE Compact
    <2>1. TalkTypes' /\ HistoryTypes'
      BY <1>3 DEF Compact, Trouble, ThreadTypes, TalkTypes, HistoryTypes, history
    <2> QED BY <1>1, <1>2, <1>3, <2>1, EmittingTypes DEF Compact
  <1>4. CASE Compacted
    <2>1. At(seq + 1) \in Nat
      BY PositionTyped DEF ThreadTypes, ServerTypes
    <2>2. HistoryTypes'
      BY <1>4, <2>1 DEF Compacted, ThreadTypes, HistoryTypes, bounds
    <2>3. User(SummaryId(troubles)) \in MessageType
      BY UserTyped, ReplyTyped DEF ThreadTypes, HistoryTypes
    <2>4. <<User(SummaryId(troubles))>> \in Seq(MessageType)
      BY <2>3
    <2>5. TalkTypes'
      BY <1>4, <2>4 DEF Compacted, ThreadTypes, TalkTypes
    <2> QED BY <1>1, <1>2, <1>4, <2>2, <2>5, EmittingTypes DEF Compacted
  <1> QED BY <1>3, <1>4

LEMMA LoadTypes ==
  ASSUME ThreadTypes, NEW force \in BOOLEAN, Load(force)
  PROVE  /\ view' \in ViewType /\ load' \in LoadType
         /\ (load'.at = "answered" => Len(load'.snap) = 1)
  BY DEF Load, ThreadTypes, BrowserTypes, WireTypes, ViewType, LoadType

LEMMA SubscribeTypes ==
  ASSUME sse \in StreamType, NEW fresh \in BOOLEAN, Subscribe(fresh)
  PROVE  sse' \in StreamType
  BY DEF Subscribe, StreamType

LEMMA LookingTypes ==
  ASSUME ThreadTypes, Mount \/ Disconnect \/ Refresh
  PROVE  ThreadTypes'
  <1>1. ServerTypes' /\ TalkTypes'
    BY SameTypes DEF Mount, Disconnect, Refresh, supervisorVars
  <1>2. HistoryTypes'
    <2>1. UNCHANGED <<known, doubt, stray, replies, sends>> /\ (Trouble \/ UNCHANGED troubles)
      BY DEF Mount, Disconnect, Refresh, history, bounds
    <2> QED BY <2>1 DEF Trouble, ThreadTypes, HistoryTypes
  <1>3. CASE Mount
    <2>1. Load(FALSE) /\ Subscribe(view'.loaded # "loaded") /\ mounted' = TRUE /\ UNCHANGED <<post, optimistic>>
      BY <1>3 DEF Mount
    <2>2. sse' \in StreamType
      BY <2>1, SubscribeTypes DEF ThreadTypes, WireTypes
    <2> QED BY <1>1, <1>2, <2>1, <2>2, LoadTypes DEF ThreadTypes, WireTypes, BrowserTypes
  <1>4. CASE Disconnect
    <2>1. PICK d \in StreamType : d = Dropped
      BY DroppedTypes DEF ThreadTypes, WireTypes
    <2>2. [d EXCEPT !.at = "off"] \in StreamType
      BY DEF StreamType
    <2> QED BY <1>1, <1>2, <1>4, <2>1, <2>2 DEF Disconnect, ThreadTypes, WireTypes, BrowserTypes
  <1>5. CASE Refresh
    BY <1>1, <1>2, <1>5, LoadTypes DEF Refresh, ThreadTypes, WireTypes, BrowserTypes
  <1> QED BY <1>3, <1>4, <1>5

LEMMA RequestTypes ==
  ASSUME ThreadTypes, GetThread \/ LoadFails
  PROVE  ThreadTypes'
  <1>1. ServerTypes' /\ TalkTypes'
    BY SameTypes DEF GetThread, LoadFails, supervisorVars
  <1>2. CASE GetThread
    <2>1. <<Snapshot>> \in Seq(SnapshotType) /\ Len(<<Snapshot>>) = 1
      BY SnapshotTyped DEF ThreadTypes
    <2>2. WireTypes'
      BY <1>2, <2>1 DEF GetThread, ThreadTypes, WireTypes, LoadType
    <2> QED BY <1>1, <1>2, <2>2, SameTypes DEF GetThread, ThreadTypes
  <1>3. CASE LoadFails
    <2>1. HistoryTypes'
      BY <1>3, LaterTyped, PositionTyped DEF LoadFails, Trouble, ThreadTypes, HistoryTypes
    <2>2. NoLoad \in LoadType /\ NoLoad.at # "answered"
      <3>1. <<>> \in Seq(SnapshotType)
        BY EmptySeq
      <3> QED BY <3>1 DEF NoLoad, LoadType
    <2>3. view' \in ViewType
      BY <1>3 DEF LoadFails, ThreadTypes, BrowserTypes, ViewType
    <2> QED BY <1>1, <1>3, <2>1, <2>2, <2>3 DEF LoadFails, ThreadTypes, WireTypes, BrowserTypes
  <1> QED BY <1>2, <1>3

LEMMA AnswerIs ==
  ASSUME ThreadTypes, load.at = "answered"
  PROVE  load.snap[1] \in SnapshotType
  BY DEF ThreadTypes, WireTypes, LoadType

LEMMA LoadedTypes == ASSUME ThreadTypes, Loaded PROVE ThreadTypes'
  <1> DEFINE s == load.snap[1]
  <1>1. s \in SnapshotType /\ s.asof \in Nat
    BY AnswerIs DEF Loaded, SnapshotType
  <1>2. Dispatch(SnapshotEvent(s, 0), FALSE) /\ known' = Later(known, s.asof)
    BY DEF Loaded
  <1>3. doubt' \in {Later(doubt, known), 0, doubt}
    BY DEF Loaded
  <1> HIDE DEF s
  <1>4. SnapshotEvent(s, 0) \in FrameType
    BY <1>1, SnapshotEventTyped
  <1>5. view' \in ViewType /\ optimistic' \in Seq(AheadType)
    BY <1>2, <1>4, DispatchTyped DEF ThreadTypes
  <1>6. known' \in Nat
    BY <1>1, <1>2, LaterTyped DEF ThreadTypes, HistoryTypes
  <1>7. doubt' \in Nat
    <2>1. Later(doubt, known) \in Nat /\ doubt \in Nat
      BY LaterTyped DEF ThreadTypes, HistoryTypes
    <2> QED BY <1>3, <2>1
  <1>8. NoLoad \in LoadType /\ NoLoad.at # "answered"
    <2>1. <<>> \in Seq(SnapshotType)
      BY EmptySeq
    <2> QED BY <2>1 DEF NoLoad, LoadType
  <1>9. ServerTypes' /\ TalkTypes'
    BY SameTypes DEF Loaded, supervisorVars
  <1> QED BY <1>5, <1>6, <1>7, <1>8, <1>9 DEF Loaded, ThreadTypes, WireTypes, BrowserTypes, HistoryTypes, bounds

LEMMA SendTypes == ASSUME ThreadTypes, Send PROVE ThreadTypes'
  <1>1. ServerTypes' /\ TalkTypes'
    BY SameTypes DEF Send, supervisorVars
  <1>2. sends' \in Nat
    BY DEF Send, ThreadTypes, HistoryTypes
  <1>3. sse' \in StreamType
    BY SubscribeTypes DEF Send, ThreadTypes, WireTypes
  <1>4. post' \in PostType
    BY <1>2 DEF Send, PostType
  <1>5. Len(view.messages) \in Nat /\ Len(transcript) \in Nat
    BY DEF ThreadTypes, BrowserTypes, ViewType, TalkTypes
  <1>6. HistoryTypes'
    BY <1>2, <1>5 DEF Send, ThreadTypes, HistoryTypes
  <1>7. view' \in ViewType
    <2>1. CASE view.run = "running"
      <3>1. PICK q \in Seq(Nat) : q = Append(view.queue, sends')
        BY <1>2, AppendProperties DEF ThreadTypes, BrowserTypes, ViewType
      <3>2. [view EXCEPT !.queue = q] \in ViewType
        BY DEF ThreadTypes, BrowserTypes, ViewType
      <3> QED BY <2>1, <3>1, <3>2 DEF Send
    <2>2. CASE view.run # "running"
      BY <2>2 DEF Send, ThreadTypes, BrowserTypes, ViewType
    <2> QED BY <2>1, <2>2
  <1>8. optimistic' \in Seq(AheadType)
    <2>1. [id |-> sends', base |-> Len(view.messages)] \in AheadType
      BY <1>2, <1>5 DEF AheadType
    <2>2. Append(optimistic, [id |-> sends', base |-> Len(view.messages)]) \in Seq(AheadType)
      BY <2>1, AppendProperties DEF ThreadTypes, BrowserTypes
    <2> QED BY <2>2 DEF Send, ThreadTypes, BrowserTypes
  <1> QED BY <1>1, <1>3, <1>4, <1>6, <1>7, <1>8 DEF Send, ThreadTypes, WireTypes, BrowserTypes

LEMMA PostReturnsTypes == ASSUME ThreadTypes, PostReturns PROVE ThreadTypes'
  <1>1. ServerTypes' /\ TalkTypes' /\ HistoryTypes'
    BY SameTypes DEF PostReturns, ThreadTypes, supervisorVars
  <1>2. NoPost \in PostType
    BY DEF NoPost, PostType
  <1>3. view' \in ViewType /\ optimistic' \in Seq(AheadType)
    <2>1. CASE UNCHANGED <<view, optimistic>>
      BY <2>1 DEF ThreadTypes, BrowserTypes
    <2>2. CASE TakeBack
      <3>1. PICK q \in Seq(Nat) : q = Without(view.queue, {post.id})
        BY WithoutLeaves DEF ThreadTypes, BrowserTypes, ViewType
      <3>2. [view EXCEPT !.queue = q] \in ViewType /\ [view EXCEPT !.run = "failed"] \in ViewType
        BY DEF ThreadTypes, BrowserTypes, ViewType
      <3>3. view' \in ViewType
        BY <2>2, <3>1, <3>2 DEF TakeBack
      <3>4. \A drop : Without(optimistic, drop) \in Seq(AheadType)
        BY WithoutLeaves DEF ThreadTypes, BrowserTypes
      <3> QED BY <2>2, <3>3, <3>4 DEF TakeBack, ThreadTypes, BrowserTypes
    <2> QED BY <2>1, <2>2 DEF PostReturns
  <1> QED BY <1>1, <1>2, <1>3 DEF PostReturns, ThreadTypes, WireTypes, BrowserTypes

LEMMA InitTypes == CockpitInit => ThreadTypes
  <1> SUFFICES ASSUME CockpitInit PROVE ThreadTypes
    OBVIOUS
  <1>1. User(SummaryId(0)) \in MessageType
    BY UserTyped, ReplyTyped
  <1>2. <<User(SummaryId(0))>> \in Seq(MessageType)
    BY <1>1
  <1>3. ServerTypes /\ TalkTypes
    BY <1>2, EmptyTyped DEF CockpitInit, ServerTypes, TalkTypes
  <1>4. <<>> \in Seq(FrameType) /\ <<>> \in Seq(SnapshotType) /\ <<>> \in Seq(AheadType)
    BY EmptySeq
  <1>5. sse \in StreamType /\ load \in LoadType /\ load.at # "answered" /\ post \in PostType
    BY <1>4 DEF CockpitInit, StreamType, LoadType, PostType, NoLoad, NoPost
  <1>6. view \in ViewType
    BY EmptyTyped DEF CockpitInit, ViewType
  <1>7. HistoryTypes
    BY <1>3, PositionTyped DEF CockpitInit, HistoryTypes
  <1> QED BY <1>3, <1>4, <1>5, <1>6, <1>7 DEF CockpitInit, ThreadTypes, WireTypes, BrowserTypes

LEMMA NextTypes == ASSUME ThreadTypes, [CockpitNext]_cockpitVars PROVE ThreadTypes'
  BY PlainTypes, CreateTypes, UnlinkedTypes, DeleteTypes, RestartTypes, AttachTypes, DropTypes,
     DeliverTypes, PromptTypes, RunTypes, CompactTypes, LookingTypes, RequestTypes, LoadedTypes,
     SendTypes, PostReturnsTypes DEF CockpitNext, Progress

-----------------------------------------------------------------------------
(* What the browser is still going to be told.                             *)

Frames == sse.frames
Calm == run \in {"idle", "compacting"}
Saying == SingleKinds \union EndKinds \union {"again", "queue"}
Silent == {"error", "compacting", "uncompacted"}
Restoring == {"settled", "compacted", "snapshot"}

\* A snapshot is on its way, or asked for, or will be.
SnapshotComes == load.at # "none" \/ \E i \in 1..Len(Frames) : Frames[i].kind \in Restoring

\* A snapshot is all there is to say of a thread in which nothing runs.
Current(s) == s.messages = transcript /\ s.queue = <<>>

\* What the browser knows of, or knows it has missed, is newer than position p.
Newer(p) == known > p \/ doubt > p \/ sse.at # "on"
Overtaken(p) ==
  Newer(p) \/ \E i \in 1..Len(Frames) : At(Frames[i].seq) > p /\ Frames[i].kind \notin Silent
Followed(p) == Newer(p) \/ \E i \in 1..Len(Frames) : At(Frames[i].seq) > p

\* The request to send has not been taken.
Untaken == post.at \in {"sent", "refused"}

\* Where a thread is opened, has a record, has a stream; nothing waits in a calm one.
Opening ==
  /\ \A k \in Openers : opener[k] # "unknown" /\ (opener[k] = "ready" => record)
  /\ ~record => seq = 0 /\ run = "idle"
  /\ sse.at = "on" => sse.attached /\ record
  /\ sse.at # "on" => Frames = <<>>
  /\ Calm => pending = <<>>
  /\ opener["send"] # "idle" => post.at = "sent"

\* A stream begins with its snapshot, or has none.
OneRestore ==
  \A i \in 1..Len(Frames) :
    Frames[i].kind = "snapshot" => i = 1 /\ Frames[i].snap.asof = At(Frames[i].seq)

\* What a run said is followed by its end.
RunsAreClosed ==
  Calm => \A i \in 1..Len(Frames) : Frames[i].kind \in Saying =>
            \E j \in 1..Len(Frames) : j > i /\ Frames[j].kind = "settled"

\* The snapshot of a stream says all that its other frames do not.
Fresh(s) ==
  /\ Calm => Current(s) \/ \E i \in 1..Len(Frames) : i > 1 /\ Frames[i].kind \notin Silent
  /\ run = "idle" => ~s.running \/ Len(Frames) > 1
FreshIsCurrent == Len(Frames) > 0 /\ Frames[1].kind = "snapshot" => Fresh(Frames[1].snap)

\* The answer of a load says all, or is older than something else on its way.
Answers(s) ==
  /\ s.asof <= Position
  /\ Calm /\ s.asof = Position => Current(s)
  /\ run = "idle" /\ s.asof = Position => ~s.running
  /\ Calm => Current(s) \/ Overtaken(s.asof)
  /\ run = "idle" => ~s.running \/ Followed(s.asof)
LoadIsCurrent == load.at = "answered" => Answers(load.snap[1])

\* Without a snapshot to come the view is that of the session, but for the
\* request that has not been taken.
Told == sse.at = "on" /\ doubt = 0 /\ ~SnapshotComes
ViewIsCurrent ==
  Calm /\ Told =>
    /\ view.messages = transcript
    /\ \A i \in 1..Len(view.queue) : Untaken /\ post.queued /\ view.queue[i] = post.id
    /\ ~stray => \A j \in 1..Len(optimistic) :
                   Untaken /\ ~post.queued /\ optimistic[j].id = post.id
ShownAtRest ==
  run = "idle" /\ Told /\ Len(Frames) = 0 /\ view.run = "running" => Untaken /\ ~post.queued

\* The session compacts, or has tried again.
Underway(f) == IF f = "compaction" THEN run = "compacting" ELSE attempt

\* What was said to begin goes on, or is followed by its end.
FlagsAreClosed ==
  \A i \in 1..Len(Frames) : \A f \in Begins(Frames[i].kind) :
    Underway(f) \/ \E j \in 1..Len(Frames) : i < j /\ f \in Ends(Frames[j].kind)

\* A stream counts on, from what the server has said.
Ascending ==
  \A i \in 1..Len(Frames) :
    /\ Frames[i].seq <= seq
    /\ \A j \in 1..Len(Frames) : i < j => Frames[i].seq < Frames[j].seq

\* The end of what is shown as busy is to come on the stream that said so.
EndComes(f) ==
  \E j \in 1..Len(Frames) : f \in Ends(Frames[j].kind) /\ Frames[j].seq > view.lastSeq
FlagsEnd ==
  \A f \in view.busy \ cut :
    sse.at = "on" /\ view.lastSeq <= seq /\ (Underway(f) \/ EndComes(f))

\* What is tried again is part of a run.
AttemptRuns == attempt => run \in {"thinking", "streaming", "retrying"}

FlagsHold == FlagsAreClosed /\ Ascending /\ FlagsEnd /\ AttemptRuns
FlagInv == sessionFile = "present" => FlagsHold

\* A message shown ahead has not been taken, or stands where it is looked for.
Recorded(o) == \E k \in 1..Len(transcript) : k > o.base /\ transcript[k].id = o.id
Waiting(o) ==
  Untaken /\ ~post.queued /\ o.id = post.id /\ o.base <= Len(transcript)
AheadIsKnown ==
  ~stray => \A j \in 1..Len(optimistic) : Waiting(optimistic[j]) \/ Recorded(optimistic[j])

Showing ==
  /\ Opening /\ OneRestore /\ RunsAreClosed /\ FreshIsCurrent
  /\ LoadIsCurrent /\ ViewIsCurrent /\ ShownAtRest /\ AheadIsKnown
ShowingInv == ThreadTypes /\ (sessionFile = "present" => Showing)

LEMMA InitShowing == CockpitInit => ShowingInv
  <1> SUFFICES ASSUME CockpitInit PROVE ShowingInv
    OBVIOUS
  <1>1. Len(Frames) = 0 /\ Len(optimistic) = 0
    BY DEF CockpitInit, Frames
  <1>2. Opening
    BY <1>1 DEF CockpitInit, Opening, Openers, Frames, Calm, NoPost
  <1>3. sse.at # "on" /\ load.at # "answered"
    BY DEF CockpitInit, NoLoad
  <1> QED BY <1>1, <1>2, <1>3, InitTypes
          DEF ShowingInv, Showing, OneRestore, RunsAreClosed, FreshIsCurrent,
              LoadIsCurrent, ViewIsCurrent, ShownAtRest, AheadIsKnown, Told

\* At rest nothing is left to be told.
LEMMA ShowingSettles == ShowingInv /\ FlagInv => ViewSettles
  <1> SUFFICES ASSUME ShowingInv, FlagInv, Quiet, doubt = 0, ~stray, cut = {} PROVE Agrees
    BY DEF ViewSettles
  <1>1. Showing /\ run = "idle" /\ sse.at = "on" /\ Frames = <<>> /\ load.at = "none" /\ post.at = "none"
    BY DEF ShowingInv, Quiet, Frames
  <1>2. Len(Frames) = 0
    BY <1>1
  <1>3. Calm /\ Told /\ ~Untaken
    BY <1>1, <1>2 DEF Calm, Told, SnapshotComes, Untaken
  <1>4. view.messages = transcript /\ Len(view.queue) \notin Nat \ {0} /\ Len(optimistic) \notin Nat \ {0}
    BY <1>1, <1>3 DEF Showing, ViewIsCurrent
  <1>5. view.run # "running"
    BY <1>1, <1>2, <1>3 DEF Showing, ShownAtRest
  <1>6. view.queue \in Seq(Nat) /\ optimistic \in Seq(AheadType)
    BY DEF ShowingInv, ThreadTypes, BrowserTypes, ViewType
  <1>7. view.queue = <<>> /\ optimistic = <<>>
    BY <1>4, <1>6, EmptySeq, LenProperties
  <1>8. ASSUME NEW f \in view.busy PROVE FALSE
    <2>1. FlagsEnd /\ AttemptRuns /\ f \in view.busy \ cut
      BY <1>8 DEF FlagInv, FlagsHold, Quiet
    <2>2. ~Underway(f)
      BY <1>1, <2>1 DEF AttemptRuns, Underway
    <2> QED BY <1>2, <2>1, <2>2 DEF FlagsEnd, EndComes
  <1>9. view.busy = {}
    BY <1>8
  <1> QED BY <1>4, <1>5, <1>7, <1>9 DEF Agrees, Spinning

LEMMA FramesTyped ==
  ASSUME ThreadTypes
  PROVE  /\ Frames \in Seq(FrameType) /\ Len(Frames) \in Nat
         /\ \A i \in 1..Len(Frames) : Frames[i] \in FrameType /\ Frames[i].seq \in Nat
                                      /\ At(Frames[i].seq) \in Nat
  <1>1. PICK f \in Seq(FrameType) : f = Frames
    BY DEF ThreadTypes, WireTypes, StreamType, Frames
  <1>2. \A e \in FrameType : e.seq \in Nat
    BY DEF FrameType, RestoreType, PlainType
  <1>3. Len(f) \in Nat /\ \A i \in 1..Len(f) : f[i] \in FrameType
    OBVIOUS
  <1>4. \A i \in 1..Len(f) : f[i].seq \in Nat
    BY <1>2, <1>3
  <1>5. \A i \in 1..Len(f) : At(f[i].seq) \in Nat
    BY <1>4, PositionTyped DEF ThreadTypes
  <1> QED BY <1>1, <1>3, <1>4, <1>5

\* What an event changes.
LEMMA Emitted ==
  ASSUME ThreadTypes, Opening, NEW e \in FrameType, Emit(e), UNCHANGED epoch
  PROVE  /\ seq' = seq + 1 /\ Position' = Position + 1 /\ At(seq + 1) = Position + 1
         /\ sse'.at = sse.at /\ sse'.attached = sse.attached
         /\ \A n : At(n)' = At(n)
         /\ sse.at # "on" => Frames' = Frames /\ Len(Frames) = 0
         /\ sse.at = "on" => /\ Len(Frames') = Len(Frames) + 1
                             /\ Frames'[Len(Frames) + 1] = e
                             /\ \A i \in 1..Len(Frames) : Frames'[i] = Frames[i]
  <1>1. seq' = seq + 1 /\ Position' = Position + 1 /\ At(seq + 1) = Position + 1
    BY DEF Emit, Position, At, ThreadTypes, ServerTypes
  <1>2. sse'.at = sse.at /\ sse'.attached = sse.attached
    BY DEF Emit, ThreadTypes, WireTypes, StreamType
  <1>3. \A n : At(n)' = At(n)
    BY DEF At
  <1>4. sse.at # "on" => Frames' = Frames /\ Len(Frames) = 0
    BY DEF Emit, Attached, Opening, Frames
  <1>5. CASE sse.at = "on"
    <2>1. Frames' = Append(Frames, e)
      BY <1>5 DEF Emit, Attached, Opening, Frames, ThreadTypes, WireTypes, StreamType
    <2>2. PICK f \in Seq(FrameType) : f = Frames
      BY FramesTyped
    <2>3. /\ Len(Append(f, e)) = Len(f) + 1 /\ Append(f, e)[Len(f) + 1] = e
          /\ \A i \in 1..Len(f) : Append(f, e)[i] = f[i]
      BY AppendProperties
    <2> QED BY <1>1, <1>2, <1>3, <1>5, <2>1, <2>2, <2>3
  <1> QED BY <1>1, <1>2, <1>3, <1>4, <1>5

\* Every frame but the new one was there.
LEMMA EmittedFrames ==
  ASSUME ThreadTypes, Opening, NEW e \in FrameType, Emit(e), UNCHANGED epoch
  PROVE  /\ Len(Frames) \in Nat /\ Len(Frames') \in Nat
         /\ 1..Len(Frames) \subseteq 1..Len(Frames')
         /\ \A i \in 1..Len(Frames) : Frames'[i] = Frames[i]
         /\ \A i \in 1..Len(Frames') : i \notin 1..Len(Frames) =>
              sse.at = "on" /\ i = Len(Frames) + 1 /\ Frames'[i] = e
         /\ sse.at = "on" => /\ Len(Frames) + 1 \in 1..Len(Frames')
                             /\ Frames'[Len(Frames) + 1] = e
  BY Emitted, FramesTyped

LEMMA EmitKeepsRestore ==
  ASSUME ThreadTypes, Showing, NEW e \in FrameType, e.kind # "snapshot", Emit(e), UNCHANGED epoch
  PROVE  OneRestore'
  <1>1. ASSUME NEW i \in 1..Len(Frames'), Frames'[i].kind = "snapshot"
        PROVE  i = 1 /\ Frames'[i].snap.asof = At(Frames'[i].seq)
    <2>1. i \in 1..Len(Frames) /\ Frames'[i] = Frames[i]
      BY <1>1, EmittedFrames DEF Showing
    <2> QED BY <1>1, <2>1 DEF Showing, OneRestore
  <1>2. \A n : At(n)' = At(n)
    BY Emitted DEF Showing
  <1> QED BY <1>1, <1>2 DEF OneRestore, At

\* While something runs there is more to come.
LEMMA BusyEmits ==
  ASSUME ThreadTypes, Showing, NEW e \in FrameType, e.kind # "snapshot", Emit(e),
         UNCHANGED <<epoch, load>>, ~Calm'
  PROVE  /\ OneRestore' /\ RunsAreClosed' /\ FreshIsCurrent'
         /\ LoadIsCurrent' /\ ViewIsCurrent' /\ ShownAtRest'
  <1>1. OneRestore'
    BY EmitKeepsRestore
  <1>2. ~Calm' /\ run' # "idle"
    BY DEF Calm
  <1>3. LoadIsCurrent'
    <2>1. SUFFICES ASSUME load.at = "answered" PROVE LoadIsCurrent'
      BY DEF LoadIsCurrent
    <2>2. PICK s \in SnapshotType : s = load.snap[1]
      BY <2>1, AnswerIs
    <2>3. s.asof <= Position /\ s.asof \in Nat
      BY <2>1, <2>2 DEF Showing, LoadIsCurrent, Answers, SnapshotType
    <2>4. s.asof <= Position'
      BY <2>3, Emitted, PositionTyped DEF Showing, ThreadTypes
    <2> QED BY <1>2, <2>2, <2>4 DEF LoadIsCurrent, Answers
  <1> QED BY <1>1, <1>2, <1>3 DEF RunsAreClosed, FreshIsCurrent, Fresh, ViewIsCurrent, ShownAtRest

\* What overtakes a position goes on to; an event overtakes all there were.
LEMMA EmitFollows ==
  ASSUME ThreadTypes, Showing, NEW e \in FrameType, e.seq = seq + 1, Emit(e),
         UNCHANGED <<epoch, known, doubt>>, NEW p \in Nat, p <= Position
  PROVE  /\ Overtaken(p) => Overtaken(p)'
         /\ e.kind \notin Silent => Overtaken(p)'
         /\ Followed(p)'
  <1>1. /\ sse'.at = sse.at /\ At(e.seq) > p
        /\ Newer(p)' <=> Newer(p)
    <2>1. sse'.at = sse.at /\ At(seq + 1) = Position + 1 /\ Position \in Nat
      BY Emitted, PositionTyped DEF Showing, ThreadTypes
    <2>2. At(e.seq) > p
      BY <2>1
    <2> QED BY <2>1, <2>2 DEF Newer
  <1>2. \A i \in 1..Len(Frames) : i \in 1..Len(Frames') /\ Frames'[i] = Frames[i]
    BY EmittedFrames DEF Showing
  <1>3. Overtaken(p) => Overtaken(p)'
    <2>1. ASSUME NEW i \in 1..Len(Frames), At(Frames[i].seq) > p, Frames[i].kind \notin Silent
          PROVE  Overtaken(p)'
      <3>1. i \in 1..Len(Frames') /\ At(Frames'[i].seq) > p /\ Frames'[i].kind \notin Silent
        BY <1>2, <2>1
      <3> QED BY <3>1 DEF Overtaken, At
    <2> QED BY <1>1, <2>1 DEF Overtaken
  <1>4. CASE sse.at = "on"
    <2>1. Len(Frames) + 1 \in 1..Len(Frames') /\ Frames'[Len(Frames) + 1] = e
      BY <1>4, EmittedFrames DEF Showing
    <2>2. PICK i \in 1..Len(Frames') : Frames'[i] = e /\ At(Frames'[i].seq) > p
      BY <1>1, <2>1
    <2>3. Followed(p)' /\ (e.kind \notin Silent => Overtaken(p)')
      BY <2>2 DEF Overtaken, Followed, At
    <2> QED BY <1>3, <2>3
  <1>5. CASE sse.at # "on"
    BY <1>1, <1>5 DEF Overtaken, Followed, Newer
  <1> QED BY <1>3, <1>4, <1>5

\* A run has settled, or something has failed, and nothing runs.
LEMMA CalmEmits ==
  ASSUME ThreadTypes, Showing, NEW e \in FrameType, e.seq = seq + 1, Emit(e),
         UNCHANGED <<epoch, load, known, doubt, stray, transcript, view, optimistic>>,
         Calm', post'.id = post.id, post'.queued = post.queued, Untaken => Untaken',
         \/ e.kind = "settled"
         \/ e.kind \in Silent /\ Calm
  PROVE  /\ OneRestore' /\ RunsAreClosed' /\ FreshIsCurrent'
         /\ LoadIsCurrent' /\ ViewIsCurrent' /\ ShownAtRest'
  <1>0. /\ e.kind # "snapshot" /\ e.kind \notin Saying
        /\ (e.kind = "settled" => e.kind \notin Silent)
        /\ (e.kind # "settled" => Calm /\ e.kind \in Silent)
        /\ \A s : Current(s)' = Current(s)
    BY DEF Saying, SingleKinds, EndKinds, Silent, Current
  <1>1. OneRestore'
    BY <1>0, EmitKeepsRestore
  <1>2. RunsAreClosed'
    <2>1. SUFFICES ASSUME NEW i \in 1..Len(Frames'), Frames'[i].kind \in Saying
                   PROVE  \E j \in 1..Len(Frames') : j > i /\ Frames'[j].kind = "settled"
      BY DEF RunsAreClosed
    <2>2. i \in 1..Len(Frames) /\ Frames[i].kind \in Saying
      BY <1>0, <2>1, EmittedFrames DEF Showing
    <2>3. CASE e.kind = "settled"
      <3>1. sse.at = "on"
        BY <2>2, Emitted DEF Showing
      <3> QED BY <2>2, <2>3, <3>1, EmittedFrames DEF Showing
    <2>4. CASE e.kind # "settled"
      <3>1. PICK j \in 1..Len(Frames) : j > i /\ Frames[j].kind = "settled"
        BY <1>0, <2>2, <2>4 DEF Showing, RunsAreClosed
      <3> QED BY <3>1, EmittedFrames DEF Showing
    <2> QED BY <2>3, <2>4
  <1>3. FreshIsCurrent'
    <2>1. SUFFICES ASSUME Len(Frames') > 0, Frames'[1].kind = "snapshot" PROVE FreshIsCurrent'
      BY DEF FreshIsCurrent
    <2>2. /\ Len(Frames) > 0 /\ Frames[1].kind = "snapshot" /\ Frames'[1] = Frames[1]
          /\ sse.at = "on" /\ Len(Frames') = Len(Frames) + 1 /\ Frames'[Len(Frames) + 1] = e
          /\ Len(Frames) \in Nat
      <3>1. 1 \in 1..Len(Frames')
        BY <2>1, EmittedFrames DEF Showing
      <3>2. 1 \in 1..Len(Frames) /\ Frames'[1] = Frames[1]
        BY <1>0, <2>1, <3>1, EmittedFrames DEF Showing
      <3> QED BY <2>1, <3>2, Emitted, EmittedFrames DEF Showing
    <2>3. Len(Frames') > 1
      BY <2>2
    <2>4. Current(Frames[1].snap) \/ \E i \in 1..Len(Frames') : i > 1 /\ Frames'[i].kind \notin Silent
      <3>1. CASE e.kind = "settled"
        BY <1>0, <2>2, <3>1
      <3>2. CASE e.kind # "settled"
        <4>1. Fresh(Frames[1].snap) /\ Calm
          BY <1>0, <2>2, <3>2 DEF Showing, FreshIsCurrent
        <4>2. Current(Frames[1].snap) \/ \E i \in 1..Len(Frames) : i > 1 /\ Frames[i].kind \notin Silent
          BY <4>1 DEF Fresh
        <4> QED BY <4>2, EmittedFrames DEF Showing
      <3> QED BY <3>1, <3>2
    <2> QED BY <1>0, <2>2, <2>3, <2>4 DEF FreshIsCurrent, Fresh, Current
  <1>4. LoadIsCurrent'
    <2>1. SUFFICES ASSUME load.at = "answered" PROVE LoadIsCurrent'
      BY DEF LoadIsCurrent
    <2>2. PICK s \in SnapshotType : s = load.snap[1]
      BY <2>1, AnswerIs
    <2>3. Answers(s) /\ s.asof \in Nat /\ s.asof <= Position
      BY <2>1, <2>2 DEF Showing, LoadIsCurrent, Answers, SnapshotType
    <2>4. Position \in Nat /\ Position' = Position + 1
      BY Emitted, PositionTyped DEF Showing, ThreadTypes
    <2>5. Current(s) \/ Overtaken(s.asof)'
      <3>1. CASE e.kind = "settled"
        BY <1>0, <2>3, <3>1, EmitFollows
      <3>2. CASE e.kind # "settled"
        <4>1. Current(s) \/ Overtaken(s.asof)
          BY <1>0, <2>3, <3>2 DEF Answers
        <4> QED BY <2>3, <4>1, EmitFollows
      <3> QED BY <3>1, <3>2
    <2>6. Followed(s.asof)'
      BY <2>3, EmitFollows
    <2>7. s.asof <= Position' /\ s.asof # Position'
      BY <2>3, <2>4
    <2>8. Answers(s)'
      BY <1>0, <2>5, <2>6, <2>7 DEF Answers
    <2> QED BY <2>2, <2>8 DEF LoadIsCurrent, Answers, Current, Overtaken, Followed, Newer, At
  <1>5. ViewIsCurrent'
    <2>1. SUFFICES ASSUME Told' PROVE ViewIsCurrent'
      BY DEF ViewIsCurrent
    <2>2. sse.at = "on" /\ doubt = 0 /\ ~SnapshotComes' /\ load'.at = "none"
      BY <2>1, Emitted DEF Told, Showing, SnapshotComes
    <2>3. e.kind # "settled"
      BY <2>2, EmittedFrames DEF SnapshotComes, Showing, Restoring
    <2>4. ~SnapshotComes
      BY <2>2, EmittedFrames DEF SnapshotComes, Showing
    <2>5. Calm /\ Told
      BY <1>0, <2>2, <2>3, <2>4 DEF Told
    <2> QED BY <2>5 DEF Showing, ViewIsCurrent
  <1>6. ShownAtRest'
    <2>1. SUFFICES ASSUME Told', Len(Frames') = 0 PROVE FALSE
      BY DEF ShownAtRest
    <2>2. sse.at = "on"
      BY <2>1, Emitted DEF Told, Showing
    <2> QED BY <2>1, <2>2, EmittedFrames DEF Showing
  <1> QED BY <1>1, <1>2, <1>3, <1>4, <1>5, <1>6

\* The transcript has only grown, and a message shown ahead is still waiting or
\* has been recorded.
LEMMA AheadStays ==
  ASSUME ThreadTypes, AheadIsKnown, UNCHANGED <<stray, optimistic>>,
         transcript' \in Seq(MessageType), Len(transcript) <= Len(transcript'),
         \A k \in 1..Len(transcript) : transcript'[k] = transcript[k],
         \A o \in AheadType : Waiting(o) => Waiting(o)' \/ Recorded(o)'
  PROVE  AheadIsKnown'
  <1>1. optimistic \in Seq(AheadType) /\ Len(transcript) \in Nat /\ Len(transcript') \in Nat
    BY DEF ThreadTypes, BrowserTypes, TalkTypes
  <1>2. \A j \in 1..Len(optimistic) : optimistic[j] \in AheadType
    BY <1>1
  <1>3. ASSUME NEW o \in AheadType, Recorded(o) PROVE Recorded(o)'
    <2>1. PICK k \in 1..Len(transcript) : k > o.base /\ transcript[k].id = o.id
      BY <1>3 DEF Recorded
    <2>2. k \in 1..Len(transcript') /\ transcript'[k].id = o.id
      BY <1>1, <2>1
    <2> QED BY <2>1, <2>2 DEF Recorded
  <1>4. ASSUME ~stray, NEW j \in 1..Len(optimistic)
        PROVE  Waiting(optimistic[j])' \/ Recorded(optimistic[j])'
    <2>1. PICK o \in AheadType : o = optimistic[j]
      BY <1>2, <1>4
    <2>2. Waiting(o) \/ Recorded(o)
      BY <1>4, <2>1 DEF AheadIsKnown
    <2>3. Waiting(o)' \/ Recorded(o)'
      BY <1>3, <2>2
    <2> QED BY <2>1, <2>3 DEF Waiting, Recorded, Untaken
  <1> QED BY <1>4 DEF AheadIsKnown, Waiting, Recorded, Untaken

LEMMA AheadSame ==
  ASSUME ThreadTypes, AheadIsKnown, UNCHANGED <<stray, optimistic, transcript>>,
         post'.id = post.id, post'.queued = post.queued, Untaken => Untaken'
  PROVE  AheadIsKnown'
  <1>1. \A o : Waiting(o) => Waiting(o)'
    BY DEF Waiting
  <1>2. transcript \in Seq(MessageType) /\ Len(transcript) \in Nat
    BY DEF ThreadTypes, TalkTypes
  <1> QED BY <1>1, <1>2, AheadStays

LEMMA EventIs ==
  ASSUME NEW k, NEW m, NEW q
  PROVE  Event(k, m, q).seq = seq + 1 /\ Event(k, m, q).kind = k
  BY DEF Event

LEMMA PromptShows ==
  ASSUME OpensInv, ThreadTypes, Showing, sessionFile = "present", Prompt
  PROVE  Showing'
  <1>1. /\ UNCHANGED <<record, epoch, load, view, optimistic, known, doubt, stray>>
        /\ opener' = [opener EXCEPT !["send"] = "idle"] /\ run # "compacting"
    BY DEF Prompt, Returns, clientVars, history
  <1>2. /\ opener["send"] # "unknown" /\ record /\ post.at = "sent"
        /\ \A k \in Openers : opener'[k] # "unknown" /\ (opener'[k] = "ready" => record)
        /\ opener'["send"] = "idle"
    BY <1>1 DEF Prompt, Returns, Showing, Opening, OpensInv, Openers
  <1>3. CASE run = "idle" /\ Begin("begin", post.id, pending) /\ post' = [post EXCEPT !.at = "accepted"]
    <2> DEFINE e == Event("begin", <<User(post.id)>>, pending)
    <2>1. post.id \in Nat /\ pending \in Seq(Nat) /\ run' = "thinking" /\ Emit(e)
      BY <1>3 DEF ThreadTypes, WireTypes, PostType, TalkTypes, Begin
    <2>2. e \in FrameType /\ e.kind = "begin"
      <3>1. User(post.id) \in MessageType
        BY <2>1, UserTyped
      <3>2. <<User(post.id)>> \in Seq(MessageType) /\ Len(<<User(post.id)>>) = 1
        BY <3>1
      <3> QED BY <2>1, <3>2, EventTyped, EventIs DEF PlainKinds, SingleKinds, EndKinds, BareKinds, ThreadTypes
    <2> HIDE DEF e
    <2>3. ~Calm'
      BY <2>1 DEF Calm
    <2>4. /\ OneRestore' /\ RunsAreClosed' /\ FreshIsCurrent'
          /\ LoadIsCurrent' /\ ViewIsCurrent' /\ ShownAtRest'
      BY <1>1, <2>1, <2>2, <2>3, BusyEmits
    <2>5. AheadIsKnown'
      <3>1. transcript' = Append(transcript, User(post.id)) /\ User(post.id) \in MessageType
        BY <1>3, <2>1, UserTyped DEF Begin
      <3>2. PICK t \in Seq(MessageType) : t = transcript
        BY DEF ThreadTypes, TalkTypes
      <3>3. /\ transcript' \in Seq(MessageType) /\ Len(transcript') = Len(transcript) + 1
            /\ Len(transcript) \in Nat
            /\ \A k \in 1..Len(transcript) : transcript'[k] = transcript[k]
            /\ transcript'[Len(transcript) + 1] = User(post.id)
        BY <3>1, <3>2, AppendProperties
      <3>4. User(post.id).id = post.id
        BY DEF User, Message
      <3>5. ASSUME NEW o \in AheadType, Waiting(o) PROVE Recorded(o)'
        <4>1. o.base \in Nat /\ o.base <= Len(transcript) /\ o.id = post.id
          BY <3>5 DEF Waiting, AheadType
        <4>2. Len(transcript) + 1 \in 1..Len(transcript') /\ Len(transcript) + 1 > o.base
          BY <3>3, <4>1
        <4> QED BY <3>3, <3>4, <4>1, <4>2 DEF Recorded
      <3>6. Len(transcript) <= Len(transcript')
        BY <3>3
      <3> QED BY <1>1, <3>3, <3>5, <3>6, AheadStays DEF Showing
    <2>6. sse'.at = sse.at /\ sse'.attached = sse.attached /\ (sse.at # "on" => Frames' = Frames)
      BY <1>1, <2>1, <2>2, Emitted DEF Showing
    <2>7. Opening'
      BY <1>1, <1>2, <2>3, <2>6 DEF Showing, Opening
    <2> QED BY <2>4, <2>5, <2>7 DEF Showing
  <1>4. CASE /\ run # "idle" /\ post.queued /\ pending' = Append(pending, post.id)
             /\ Emit(Event("queue", <<>>, pending')) /\ post' = [post EXCEPT !.at = "accepted"]
             /\ UNCHANGED <<transcript, run, attempt, rev>>
    <2> DEFINE e == Event("queue", <<>>, pending')
    <2>1. e \in FrameType /\ e.kind = "queue" /\ Emit(e)
      <3>1. pending' \in Seq(Nat)
        BY <1>4, AppendProperties DEF ThreadTypes, WireTypes, PostType, TalkTypes
      <3> QED BY <1>4, <3>1, EventTyped, EmptyTyped DEF PlainKinds, SingleKinds, EndKinds, BareKinds, ThreadTypes, Event
    <2> HIDE DEF e
    <2>2. ~Calm'
      BY <1>1, <1>4 DEF Calm
    <2>3. /\ OneRestore' /\ RunsAreClosed' /\ FreshIsCurrent'
          /\ LoadIsCurrent' /\ ViewIsCurrent' /\ ShownAtRest'
      BY <1>1, <2>1, <2>2, BusyEmits
    <2>4. AheadIsKnown'
      <3>1. \A o : ~Waiting(o)
        BY <1>4 DEF Waiting
      <3>2. transcript \in Seq(MessageType) /\ Len(transcript) \in Nat
        BY DEF ThreadTypes, TalkTypes
      <3> QED BY <1>1, <1>4, <3>1, <3>2, AheadStays DEF Showing
    <2>5. sse'.at = sse.at /\ sse'.attached = sse.attached /\ (sse.at # "on" => Frames' = Frames)
      BY <1>1, <2>1, Emitted DEF Showing
    <2>6. Opening'
      BY <1>1, <1>2, <2>2, <2>5 DEF Showing, Opening
    <2> QED BY <2>3, <2>4, <2>6 DEF Showing
  <1>5. CASE Emit(Event("error", <<>>, <<>>)) /\ post' = [post EXCEPT !.at = "refused"] /\ UNCHANGED sessionVars
    <2> DEFINE e == Event("error", <<>>, <<>>)
    <2>1. e \in FrameType /\ e.kind = "error" /\ Emit(e) /\ e.seq = seq + 1
      BY <1>5, ErrorTyped, EventIs DEF ThreadTypes
    <2> HIDE DEF e
    <2>2. post'.id = post.id /\ post'.queued = post.queued /\ Untaken'
      BY <1>5 DEF Untaken, ThreadTypes, WireTypes, PostType
    <2>3. UNCHANGED <<transcript, run, pending>>
      BY <1>5 DEF sessionVars
    <2>4. /\ OneRestore' /\ RunsAreClosed' /\ FreshIsCurrent'
          /\ LoadIsCurrent' /\ ViewIsCurrent' /\ ShownAtRest'
      <3>1. CASE Calm
        <4>1. Calm'
          BY <2>3, <3>1 DEF Calm
        <4> QED BY <1>1, <2>1, <2>2, <2>3, <3>1, <4>1, CalmEmits DEF Silent
      <3>2. CASE ~Calm
        <4>1. ~Calm'
          BY <2>3, <3>2 DEF Calm
        <4> QED BY <1>1, <2>1, <4>1, BusyEmits
      <3> QED BY <3>1, <3>2
    <2>5. AheadIsKnown'
      BY <1>1, <2>2, <2>3, AheadSame DEF Showing
    <2>6. sse'.at = sse.at /\ sse'.attached = sse.attached /\ (sse.at # "on" => Frames' = Frames)
      BY <1>1, <2>1, Emitted DEF Showing
    <2>7. Opening'
      BY <1>1, <1>2, <2>3, <2>6 DEF Showing, Opening, Calm
    <2> QED BY <2>4, <2>5, <2>7 DEF Showing
  <1> QED BY <1>2, <1>3, <1>4, <1>5 DEF Prompt

LEMMA AheadGrows ==
  ASSUME ThreadTypes, AheadIsKnown, UNCHANGED <<stray, optimistic, post>>,
         transcript' \in Seq(MessageType), Len(transcript) <= Len(transcript'),
         \A k \in 1..Len(transcript) : transcript'[k] = transcript[k]
  PROVE  AheadIsKnown'
  <1>1. Len(transcript) \in Nat /\ Len(transcript') \in Nat
    BY DEF ThreadTypes, TalkTypes
  <1>2. \A o \in AheadType : Waiting(o) => Waiting(o)'
    <2>1. \A o \in AheadType : o.base \in Nat
      BY DEF AheadType
    <2> QED BY <1>1, <2>1 DEF Waiting, Untaken
  <1> QED BY <1>2, AheadStays

\* The events of a reply.
LEMMA ReplyEvents ==
  ASSUME ThreadTypes, StartReply \/ UpdateReply \/ EndReply \/ FailReply \/ RetryOver,
         replies' \in Nat
  PROVE  \E e \in FrameType :
           /\ e.kind # "snapshot" /\ e.seq = seq + 1 /\ Emit(e)
           /\ e.kind # "compacting" /\ (e.kind = "retry" => attempt')
           /\ attempt => attempt' \/ e.kind \in {"recovered", "over"}
  <1>1. CASE StartReply
    <2>1. Message(ReplyId(replies'), 0) \in MessageType
      BY MessageTyped, ReplyTyped
    <2>2. <<Message(ReplyId(replies'), 0)>> \in Seq(MessageType) /\ Len(<<Message(ReplyId(replies'), 0)>>) = 1
      BY <2>1
    <2>3. Event("start", <<Message(ReplyId(replies'), 0)>>, <<>>) \in FrameType
      BY <2>2, EventTyped, EmptyTyped DEF PlainKinds, SingleKinds, EndKinds, BareKinds, ThreadTypes
    <2> QED BY <1>1, <2>3, EventIs DEF StartReply
  <1>2. CASE UpdateReply
    <2>0. rev' \in Nat
      BY <1>2 DEF UpdateReply, ThreadTypes, TalkTypes
    <2>1. Message(ReplyId(replies), rev') \in MessageType
      BY <2>0, MessageTyped, ReplyTyped DEF ThreadTypes, HistoryTypes
    <2>2. <<Message(ReplyId(replies), rev')>> \in Seq(MessageType) /\ Len(<<Message(ReplyId(replies), rev')>>) = 1
      BY <2>1
    <2>3. Event("update", <<Message(ReplyId(replies), rev')>>, <<>>) \in FrameType
      BY <2>2, EventTyped, EmptyTyped DEF PlainKinds, SingleKinds, EndKinds, BareKinds, ThreadTypes
    <2> QED BY <1>2, <2>3, EventIs DEF UpdateReply
  <1>3. CASE EndReply
    <2> DEFINE reply == User(ReplyId(replies))
               kind == IF attempt THEN "recovered" ELSE "end"
    <2>1. /\ reply \in MessageType /\ kind \in EndKinds
          /\ kind \notin {"snapshot", "compacting", "retry"} /\ (attempt => kind = "recovered")
      BY UserTyped, ReplyTyped DEF ThreadTypes, HistoryTypes, EndKinds
    <2>2. CASE pending = <<>>
      <3>1. Emit(Event(kind, <<reply>>, <<>>))
        BY <1>3, <2>2 DEF EndReply
      <3> HIDE DEF reply, kind
      <3>2. <<reply>> \in Seq(MessageType) /\ Len(<<reply>>) = 1
        BY <2>1
      <3>3. Event(kind, <<reply>>, <<>>) \in FrameType
        BY <2>1, <3>2, EventTyped, EmptyTyped DEF PlainKinds, SingleKinds, EndKinds, BareKinds, ThreadTypes
      <3> QED BY <2>1, <3>1, <3>3, EventIs
    <2>3. CASE pending # <<>>
      <3> DEFINE user == User(Head(pending))
      <3>1. pending' = Tail(pending) /\ Emit(Event(kind, <<reply, user>>, pending'))
        BY <1>3, <2>3 DEF EndReply
      <3>2. Head(pending) \in Nat /\ Tail(pending) \in Seq(Nat)
        BY <2>3, HeadTailProperties DEF ThreadTypes, TalkTypes
      <3>3. user \in MessageType
        BY <3>2, UserTyped
      <3> HIDE DEF reply, user, kind
      <3>4. <<reply, user>> \in Seq(MessageType) /\ Len(<<reply, user>>) = 2
        BY <2>1, <3>3
      <3>5. Event(kind, <<reply, user>>, pending') \in FrameType
        BY <2>1, <3>1, <3>2, <3>4, EventTyped DEF PlainKinds, SingleKinds, EndKinds, BareKinds, ThreadTypes
      <3> QED BY <2>1, <3>1, <3>5, EventIs
    <2> QED BY <2>2, <2>3
  <1>4. CASE FailReply
    <2>1. PICK reply \in MessageType : reply = User(ReplyId(replies))
      BY UserTyped, ReplyTyped DEF ThreadTypes, HistoryTypes
    <2>2. <<reply>> \in Seq(MessageType) /\ Len(<<reply>>) = 1
      BY <2>1
    <2>3. PICK k \in {"retry", "over", "failed"} :
            /\ Emit(Event(k, <<reply>>, <<>>)) /\ (k = "retry" => attempt')
            /\ attempt => k \in {"retry", "over"}
      <3>1. CASE attempt' /\ Emit(Event("retry", <<reply>>, <<>>))
        BY <3>1
      <3>2. CASE Emit(Event(IF attempt THEN "over" ELSE "failed", <<reply>>, <<>>))
        BY <3>2
      <3> QED BY <1>4, <2>1, <3>1, <3>2 DEF FailReply
    <2>4. Event(k, <<reply>>, <<>>) \in FrameType
      BY <2>2, EventTyped, EmptyTyped DEF PlainKinds, SingleKinds, EndKinds, BareKinds, ThreadTypes
    <2> QED BY <2>3, <2>4, EventIs
  <1>5. CASE RetryOver
    <2>1. Event("again", <<>>, <<>>) \in FrameType
      BY EventTyped, EmptyTyped DEF PlainKinds, SingleKinds, EndKinds, BareKinds, ThreadTypes
    <2> QED BY <1>5, <2>1, EventIs DEF RetryOver
  <1> QED BY <1>1, <1>2, <1>3, <1>4, <1>5

\* What a run says leaves what was said.
LEMMA RunGrows ==
  ASSUME ThreadTypes,
         StartReply \/ UpdateReply \/ EndReply \/ FailReply \/ RetryOver \/ Settle
  PROVE  Len(transcript) <= Len(transcript') /\ \A k \in 1..Len(transcript) : transcript'[k] = transcript[k]
  <1>1. PICK t \in Seq(MessageType) : t = transcript
    BY DEF ThreadTypes, TalkTypes
  <1>2. ASSUME NEW id \in Nat, transcript' = Append(transcript, User(id))
        PROVE  Len(transcript) <= Len(transcript') /\ \A k \in 1..Len(transcript) : transcript'[k] = transcript[k]
    BY <1>1, <1>2, UserTyped, AppendProperties
  <1>3. ASSUME NEW i \in Nat, NEW j \in Nat, transcript' = transcript \o <<User(i), User(j)>>
        PROVE  Len(transcript) <= Len(transcript') /\ \A k \in 1..Len(transcript) : transcript'[k] = transcript[k]
    <2>1. User(i) \in MessageType /\ User(j) \in MessageType
      BY UserTyped
    <2>2. <<User(i), User(j)>> \in Seq(MessageType)
      BY <2>1
    <2>3. PICK r \in Seq(MessageType) : r = <<User(i), User(j)>>
      BY <2>2
    <2>4. Len(t \o r) = Len(t) + Len(r) /\ Len(t) \in Nat /\ Len(r) \in Nat /\ \A k \in 1..Len(t) : (t \o r)[k] = t[k]
      BY ConcatProperties
    <2> QED BY <1>1, <1>3, <2>3, <2>4
  <1>4. CASE UNCHANGED transcript
    BY <1>1, <1>4
  <1>5. pending # <<>> => Head(pending) \in Nat
    BY HeadTailProperties DEF ThreadTypes, TalkTypes
  <1>6. ReplyId(replies) \in Nat
    BY ReplyTyped DEF ThreadTypes, HistoryTypes
  <1>7. \/ UNCHANGED transcript
        \/ transcript' = Append(transcript, User(ReplyId(replies)))
        \/ pending # <<>> /\ transcript' = transcript \o <<User(ReplyId(replies)), User(Head(pending))>>
        \/ pending # <<>> /\ transcript' = Append(transcript, User(Head(pending)))
    BY DEF StartReply, UpdateReply, EndReply, FailReply, RetryOver, Settle, Begin
  <1> QED BY <1>2, <1>3, <1>4, <1>5, <1>6, <1>7

LEMMA RunShows ==
  ASSUME ThreadTypes, ThreadTypes', Showing, RunStep
  PROVE  Showing'
  <1>1. /\ UNCHANGED <<record, epoch, opener, load, post, view, optimistic, known, doubt, stray>>
        /\ StartReply \/ UpdateReply \/ EndReply \/ FailReply \/ RetryOver \/ Settle
    BY DEF RunStep, clientVars, history
  <1>2. run # "idle" /\ run # "compacting" /\ record
    BY <1>1 DEF StartReply, UpdateReply, EndReply, FailReply, RetryOver, Settle, Showing, Opening
  <1>3. AheadIsKnown'
    BY <1>1, RunGrows, AheadGrows DEF Showing, ThreadTypes, TalkTypes
  <1>4. ASSUME NEW e \in FrameType, Emit(e), Calm' => pending' = <<>>
        PROVE  Opening'
    <2>1. sse'.at = sse.at /\ sse'.attached = sse.attached /\ (sse.at # "on" => Frames' = Frames)
      BY <1>1, <1>4, Emitted DEF Showing
    <2> QED BY <1>1, <1>2, <1>4, <2>1 DEF Showing, Opening
  <1>5. ASSUME NEW e \in FrameType, Emit(e), e.kind # "snapshot", ~Calm'
        PROVE  Showing'
    <2>1. /\ OneRestore' /\ RunsAreClosed' /\ FreshIsCurrent'
          /\ LoadIsCurrent' /\ ViewIsCurrent' /\ ShownAtRest'
      BY <1>1, <1>5, BusyEmits
    <2> QED BY <1>3, <1>4, <1>5, <2>1 DEF Showing
  <1>6. CASE StartReply \/ UpdateReply \/ EndReply \/ FailReply \/ RetryOver
    <2>1. ~Calm'
      BY <1>6 DEF Calm, StartReply, UpdateReply, EndReply, FailReply, RetryOver
    <2>2. replies' \in Nat
      BY DEF ThreadTypes, HistoryTypes
    <2> QED BY <1>5, <1>6, <2>1, <2>2, ReplyEvents
  <1>7. CASE Settle /\ pending # <<>>
    <2>1. Begin("resume", Head(pending), Tail(pending)) /\ UNCHANGED <<attempt, rev>>
      BY <1>7 DEF Settle
    <2>2. Head(pending) \in Nat /\ Tail(pending) \in Seq(Nat)
      BY <1>7, HeadTailProperties DEF ThreadTypes, TalkTypes
    <2>3. Event("resume", <<User(Head(pending))>>, Tail(pending)) \in FrameType
      BY <2>1, <2>2, BeginTypes DEF ThreadTypes
    <2>4. ~Calm'
      BY <2>1 DEF Begin, Calm
    <2> QED BY <1>5, <2>1, <2>3, <2>4, EventIs DEF Begin
  <1>8. CASE Settle /\ pending = <<>>
    <2> DEFINE e == Event("settled", <<>>, <<>>)
    <2>1. e \in FrameType /\ e.kind = "settled" /\ e.seq = seq + 1
      <3>1. e \in FrameType
        BY EventTyped, EmptyTyped DEF PlainKinds, SingleKinds, EndKinds, BareKinds, ThreadTypes
      <3> QED BY <3>1, EventIs
    <2>2. Emit(e) /\ run' = "idle" /\ UNCHANGED <<transcript, pending>>
      BY <1>8 DEF Settle
    <2> HIDE DEF e
    <2>3. Calm' /\ pending' = <<>>
      BY <1>8, <2>2 DEF Calm
    <2>4. post'.id = post.id /\ post'.queued = post.queued /\ (Untaken => Untaken')
      BY <1>1 DEF Untaken
    <2>5. /\ OneRestore' /\ RunsAreClosed' /\ FreshIsCurrent'
          /\ LoadIsCurrent' /\ ViewIsCurrent' /\ ShownAtRest'
      BY <1>1, <2>1, <2>2, <2>3, <2>4, CalmEmits
    <2> QED BY <1>3, <1>4, <2>1, <2>2, <2>3, <2>5 DEF Showing
  <1> QED BY <1>1, <1>6, <1>7, <1>8

LEMMA CompactedShows ==
  ASSUME ThreadTypes, Showing, Compacted
  PROVE  Showing'
  <1>1. /\ UNCHANGED <<record, epoch, opener, load, post, view, optimistic, known, pending>>
        /\ run = "compacting" /\ run' = "idle" /\ Calm /\ Calm' /\ record
    BY DEF Compacted, clientVars, Calm, Showing, Opening
  <1>2. ASSUME NEW e \in FrameType, Emit(e)
        PROVE  Opening'
    <2>1. sse'.at = sse.at /\ sse'.attached = sse.attached /\ (sse.at # "on" => Frames' = Frames)
      BY <1>1, <1>2, Emitted DEF Showing
    <2> QED BY <1>1, <2>1 DEF Showing, Opening
  <1>3. CASE Emit(Event("uncompacted", <<>>, <<>>)) /\ UNCHANGED <<transcript, doubt, stray>>
    <2> DEFINE e == Event("uncompacted", <<>>, <<>>)
    <2>1. e \in FrameType /\ e.kind \in Silent /\ e.seq = seq + 1 /\ Emit(e)
      <3>1. e \in FrameType
        BY EventTyped, EmptyTyped DEF PlainKinds, SingleKinds, EndKinds, BareKinds, ThreadTypes
      <3> QED BY <1>3, <3>1, EventIs DEF Silent
    <2> HIDE DEF e
    <2>2. post'.id = post.id /\ post'.queued = post.queued /\ (Untaken => Untaken')
      BY <1>1 DEF Untaken
    <2>3. /\ OneRestore' /\ RunsAreClosed' /\ FreshIsCurrent'
          /\ LoadIsCurrent' /\ ViewIsCurrent' /\ ShownAtRest'
      BY <1>1, <1>3, <2>1, <2>2, CalmEmits
    <2>4. AheadIsKnown'
      BY <1>1, <1>3, <2>2, AheadSame DEF Showing
    <2> QED BY <1>2, <2>1, <2>3, <2>4 DEF Showing
  <1>4. CASE Emit(Event("compacted", <<>>, <<>>)) /\ doubt' = At(seq + 1) /\ stray' = (stray \/ optimistic # <<>>)
    <2> DEFINE e == Event("compacted", <<>>, <<>>)
    <2>1. e \in FrameType /\ e.kind = "compacted" /\ Emit(e)
      BY <1>4, EventTyped, EmptyTyped, EventIs DEF PlainKinds, SingleKinds, EndKinds, BareKinds, ThreadTypes
    <2> HIDE DEF e
    <2>2. doubt' = Position + 1 /\ Position' = Position + 1 /\ Position \in Nat
      BY <1>1, <1>4, <2>1, Emitted, PositionTyped DEF Showing, ThreadTypes
    <2>3. OneRestore'
      BY <1>1, <2>1, EmitKeepsRestore
    <2>4. RunsAreClosed'
      <3>1. SUFFICES ASSUME NEW i \in 1..Len(Frames'), Frames'[i].kind \in Saying
                     PROVE  \E j \in 1..Len(Frames') : j > i /\ Frames'[j].kind = "settled"
        BY DEF RunsAreClosed
      <3>2. i \in 1..Len(Frames) /\ Frames[i].kind \in Saying
        BY <1>1, <2>1, <3>1, EmittedFrames DEF Showing, Saying, SingleKinds, EndKinds
      <3>3. PICK j \in 1..Len(Frames) : j > i /\ Frames[j].kind = "settled"
        BY <1>1, <3>2 DEF Showing, RunsAreClosed
      <3> QED BY <1>1, <2>1, <3>3, EmittedFrames DEF Showing
    <2>5. FreshIsCurrent'
      <3>1. SUFFICES ASSUME Len(Frames') > 0, Frames'[1].kind = "snapshot" PROVE FreshIsCurrent'
        BY DEF FreshIsCurrent
      <3>2. 1 \in 1..Len(Frames')
        BY <1>1, <2>1, <3>1, EmittedFrames DEF Showing
      <3>3. 1 \in 1..Len(Frames) /\ sse.at = "on"
        BY <1>1, <2>1, <3>1, <3>2, EmittedFrames, Emitted DEF Showing
      <3>4. Len(Frames) + 1 \in 1..Len(Frames') /\ Frames'[Len(Frames) + 1] = e /\ Len(Frames) + 1 > 1 /\ Len(Frames') > 1
        BY <1>1, <2>1, <3>3, EmittedFrames DEF Showing
      <3>5. e.kind \notin Silent
        BY <2>1 DEF Silent
      <3> QED BY <3>4, <3>5 DEF FreshIsCurrent, Fresh
    <2>6. LoadIsCurrent'
      <3>1. SUFFICES ASSUME load.at = "answered" PROVE LoadIsCurrent'
        BY <1>1 DEF LoadIsCurrent
      <3>2. PICK s \in SnapshotType : s = load.snap[1]
        BY <3>1, AnswerIs
      <3>3. s.asof \in Nat /\ s.asof <= Position
        BY <3>1, <3>2 DEF Showing, LoadIsCurrent, Answers, SnapshotType
      <3>4. s.asof <= Position' /\ s.asof # Position' /\ doubt' > s.asof
        BY <2>2, <3>3
      <3> QED BY <1>1, <3>2, <3>4 DEF LoadIsCurrent, Answers, Overtaken, Followed, Newer
    <2>7. ~Told'
      BY <2>2 DEF Told
    <2>8. AheadIsKnown'
      <3>1. ~stray' => Len(optimistic') = 0
        BY <1>1, <1>4
      <3> QED BY <3>1 DEF AheadIsKnown
    <2> QED BY <1>2, <2>1, <2>3, <2>4, <2>5, <2>6, <2>7, <2>8 DEF Showing, ViewIsCurrent, ShownAtRest
  <1> QED BY <1>3, <1>4 DEF Compacted

\* The parts of what is shown that do not look at the opens.
Shown ==
  /\ OneRestore /\ RunsAreClosed /\ FreshIsCurrent
  /\ LoadIsCurrent /\ ViewIsCurrent /\ ShownAtRest /\ AheadIsKnown

LEMMA ShownSame ==
  ASSUME Shown, UNCHANGED <<seq, epoch, transcript, run, sse, load, post, view,
                            optimistic, known, doubt, stray>>
  PROVE  Shown'
  <1>1. Frames' = Frames /\ (Calm' <=> Calm) /\ (Untaken' <=> Untaken) /\ Position' = Position
        /\ (SnapshotComes' <=> SnapshotComes) /\ (Told' <=> Told)
    BY DEF Frames, Calm, Untaken, Position, At, SnapshotComes, Told
  <1>2. OneRestore' /\ RunsAreClosed' /\ FreshIsCurrent'
    BY <1>1 DEF Shown, OneRestore, RunsAreClosed, FreshIsCurrent, Fresh, Current, At
  <1>3. LoadIsCurrent'
    BY <1>1 DEF Shown, LoadIsCurrent, Answers, Current, Overtaken, Followed, Newer, At
  <1>4. ViewIsCurrent' /\ ShownAtRest'
    BY <1>1 DEF Shown, ViewIsCurrent, ShownAtRest
  <1>5. AheadIsKnown'
    BY <1>1 DEF Shown, AheadIsKnown, Waiting, Recorded
  <1> QED BY <1>2, <1>3, <1>4, <1>5 DEF Shown

LEMMA OpenShows ==
  ASSUME OpensInv, ThreadTypes, Showing, sessionFile = "present",
         \/ \E k \in Openers : Look(k) \/ Create(k)
         \/ StreamArrives \/ PostArrives \/ UNCHANGED cockpitVars
  PROVE  Showing'
  <1>1. /\ UNCHANGED <<epoch, transcript, run, sse, load, post, view, optimistic, known, doubt, stray, pending>>
        /\ UNCHANGED seq \/ \E k \in Openers : Create(k)
    BY DEF Look, Create, StreamArrives, PostArrives, cockpitVars, supervisorVars, sessionVars, clientVars, history
  <1>2. ASSUME NEW k \in Openers, Create(k)
        PROVE  ~record /\ seq = 0 /\ seq' = 0 /\ run = "idle" /\ record' = TRUE
    <2>1. k \in PendingOpens
      BY <1>2 DEF Create, PendingOpens
    <2>2. ~record
      BY <2>1 DEF OpensInv
    <2> QED BY <1>2, <2>2 DEF Create, Showing, Opening
  <1>3. UNCHANGED seq
    BY <1>1, <1>2
  <1>4. Shown'
    BY <1>1, <1>3, ShownSame DEF Showing, Shown
  <1>5. \A k \in Openers : opener'[k] # "unknown" /\ (opener'[k] = "ready" => record')
    <2>1. ASSUME NEW k \in Openers, Create(k) PROVE \A c \in Openers : opener'[c] # "unknown"
      BY <2>1 DEF Create, Answer, Showing, Opening
    <2>2. ASSUME NEW k \in Openers, Look(k)
          PROVE  \A c \in Openers : opener'[c] # "unknown" /\ (opener'[c] = "ready" => record')
      BY <2>2 DEF Look, Answer, Showing, Opening, OpensInv
    <2>3. CASE StreamArrives \/ PostArrives
      BY <2>3 DEF StreamArrives, PostArrives, OpenFor, Showing, Opening, OpensInv
    <2>4. CASE UNCHANGED cockpitVars
      BY <2>4 DEF cockpitVars, supervisorVars, Showing, Opening
    <2> QED BY <1>2, <2>1, <2>2, <2>3, <2>4
  <1>6. opener'["send"] # "idle" => post'.at = "sent"
    <2>1. ASSUME NEW k \in Openers, Create(k) \/ Look(k), opener["send"] = "idle"
          PROVE  opener'["send"] = "idle"
      <3>1. opener[k] # "idle" /\ k # "send"
        BY <2>1 DEF Create, Look
      <3> QED BY <2>1, <3>1 DEF Create, Look, Answer, OpensInv, Openers
    <2>2. CASE StreamArrives
      BY <2>2 DEF StreamArrives, OpenFor, Showing, Opening, OpensInv
    <2>3. CASE PostArrives
      BY <2>3 DEF PostArrives
    <2>4. CASE UNCHANGED cockpitVars
      BY <2>4 DEF cockpitVars, supervisorVars, Showing, Opening
    <2> QED BY <1>1, <2>1, <2>2, <2>3, <2>4 DEF Showing, Opening
  <1>7. record => record'
    BY <1>2 DEF Look, StreamArrives, PostArrives, cockpitVars, supervisorVars
  <1>8. Opening'
    BY <1>1, <1>3, <1>5, <1>6, <1>7 DEF Showing, Opening, Calm, Frames, OpensInv
  <1> QED BY <1>4, <1>8 DEF Showing, Shown

\* Without a stream nothing is claimed of what is shown.
LEMMA OfflineShows ==
  ASSUME ThreadTypes, Shown, sse'.at # "on", Frames' = <<>>, UNCHANGED load,
         \/ Position' = Position /\ UNCHANGED <<transcript, run>>
         \/ Position' > Position /\ Position' \in Nat
  PROVE  /\ OneRestore' /\ RunsAreClosed' /\ FreshIsCurrent'
         /\ LoadIsCurrent' /\ ViewIsCurrent' /\ ShownAtRest'
  <1>1. Len(Frames') = 0 /\ ~Told'
    BY DEF Told
  <1>2. LoadIsCurrent'
    <2>1. SUFFICES ASSUME load.at = "answered" PROVE LoadIsCurrent'
      BY DEF LoadIsCurrent
    <2>2. PICK s \in SnapshotType : s = load.snap[1]
      BY <2>1, AnswerIs
    <2>3. Answers(s) /\ s.asof \in Nat /\ Position \in Nat
      BY <2>1, <2>2, PositionTyped DEF Shown, LoadIsCurrent, SnapshotType, ThreadTypes
    <2>4. CASE Position' = Position /\ UNCHANGED <<transcript, run>>
      BY <2>2, <2>3, <2>4 DEF LoadIsCurrent, Answers, Calm, Current, Overtaken, Followed, Newer
    <2>5. CASE Position' > Position /\ Position' \in Nat
      <3>1. s.asof <= Position' /\ s.asof # Position'
        BY <2>3, <2>5 DEF Answers
      <3> QED BY <2>2, <3>1 DEF LoadIsCurrent, Answers, Overtaken, Followed, Newer
    <2> QED BY <2>4, <2>5
  <1> QED BY <1>1, <1>2 DEF OneRestore, RunsAreClosed, FreshIsCurrent, ViewIsCurrent, ShownAtRest

LEMMA OfflineSteps ==
  ASSUME OpensInv, ThreadTypes, Showing, sessionFile = "present", ServerRestarts \/ Drop \/ Disconnect
  PROVE  Showing'
  <1>0. Shown
    BY DEF Showing, Shown
  <1>1. Frames' = <<>> /\ sse'.at # "on" /\ UNCHANGED <<load, transcript, optimistic, stray>>
    <2>1. Dropped.at = "dialing" /\ Dropped.frames = <<>>
      BY DEF Dropped, ThreadTypes, WireTypes, StreamType
    <2>2. Dropped \in StreamType
      BY DroppedTypes DEF ThreadTypes, WireTypes
    <2>3. [Dropped EXCEPT !.at = "off"].at = "off" /\ [Dropped EXCEPT !.at = "off"].frames = <<>>
      BY <2>1, <2>2 DEF StreamType
    <2>4. sse.at # "on" => sse.frames = <<>>
      BY DEF Showing, Opening, Frames
    <2> QED BY <2>1, <2>3, <2>4 DEF ServerRestarts, Drop, Disconnect, Frames, sessionVars, clientVars, history
  <1>2. post'.id = post.id /\ post'.queued = post.queued /\ (Untaken => Untaken')
    BY DEF ServerRestarts, Drop, Disconnect, Untaken, ThreadTypes, WireTypes, PostType
  <1>3. AheadIsKnown'
    BY <1>1, <1>2, AheadSame DEF Showing
  <1>4. CASE ServerRestarts
    <2>1. Position' > Position /\ Position' \in Nat
      BY <1>4 DEF ServerRestarts, Position, At, ThreadTypes, ServerTypes
    <2>2. Opening'
      BY <1>1, <1>4 DEF ServerRestarts, Opening, Openers
    <2> QED BY <1>0, <1>1, <1>3, <2>1, <2>2, OfflineShows DEF Showing
  <1>5. CASE Drop \/ Disconnect
    <2>1. UNCHANGED <<seq, epoch, record, opener, run, pending, post>>
      BY <1>5 DEF Drop, Disconnect, supervisorVars, sessionVars
    <2>2. Position' = Position
      BY <2>1 DEF Position, At
    <2>3. Opening'
      BY <1>1, <2>1 DEF Showing, Opening, Calm
    <2> QED BY <1>0, <1>1, <1>3, <2>1, <2>2, <2>3, OfflineShows DEF Showing
  <1> QED BY <1>4, <1>5

LEMMA CompactShows ==
  ASSUME ThreadTypes, Showing, Compact
  PROVE  Showing'
  <1>1. /\ UNCHANGED <<record, epoch, opener, transcript, pending, load, post, view, optimistic, known, doubt, stray>>
        /\ run = "idle" /\ run' = "compacting" /\ Calm /\ Calm' /\ record
    BY DEF Compact, clientVars, history, Calm
  <1> DEFINE e == Event("compacting", <<>>, <<>>)
  <1>2. e \in FrameType /\ e.kind \in Silent /\ e.seq = seq + 1 /\ Emit(e)
    <2>1. e \in FrameType
      BY EventTyped, EmptyTyped DEF PlainKinds, SingleKinds, EndKinds, BareKinds, ThreadTypes
    <2> QED BY <2>1, EventIs DEF Silent, Compact
  <1> HIDE DEF e
  <1>3. post'.id = post.id /\ post'.queued = post.queued /\ (Untaken => Untaken')
    BY <1>1 DEF Untaken
  <1>4. /\ OneRestore' /\ RunsAreClosed' /\ FreshIsCurrent'
        /\ LoadIsCurrent' /\ ViewIsCurrent' /\ ShownAtRest'
    BY <1>1, <1>2, <1>3, CalmEmits
  <1>5. AheadIsKnown'
    BY <1>1, <1>3, AheadSame DEF Showing
  <1>6. sse'.at = sse.at /\ sse'.attached = sse.attached /\ (sse.at # "on" => Frames' = Frames)
    BY <1>1, <1>2, Emitted DEF Showing
  <1>7. Opening'
    BY <1>1, <1>6 DEF Showing, Opening
  <1> QED BY <1>4, <1>5, <1>7 DEF Showing

\* A step that leaves the session and the frames alone.
LEMMA WireSame ==
  ASSUME Shown, UNCHANGED <<seq, epoch, transcript, run>>, Frames' = Frames,
         \/ load'.at # "answered"
         \/ UNCHANGED <<load, known, doubt>> /\ (sse'.at = "on" <=> sse.at = "on")
  PROVE  OneRestore' /\ RunsAreClosed' /\ FreshIsCurrent' /\ LoadIsCurrent'
  <1>1. (Calm' <=> Calm) /\ Position' = Position
    BY DEF Calm, Position, At
  <1>2. OneRestore' /\ RunsAreClosed' /\ FreshIsCurrent'
    BY <1>1 DEF Shown, OneRestore, RunsAreClosed, FreshIsCurrent, Fresh, Current, At
  <1>3. ASSUME load'.at # "answered" PROVE LoadIsCurrent'
    BY <1>3 DEF LoadIsCurrent
  <1>4. ASSUME UNCHANGED <<load, known, doubt>>, (sse'.at = "on" <=> sse.at = "on")
        PROVE  LoadIsCurrent'
    <2>1. (Newer(0)' <=> Newer(0)) /\ \A p : Newer(p)' <=> Newer(p)
      BY <1>4 DEF Newer
    <2>2. \A p : (Overtaken(p)' <=> Overtaken(p)) /\ (Followed(p)' <=> Followed(p))
      BY <2>1 DEF Overtaken, Followed, At
    <2> QED BY <1>1, <1>4, <2>2 DEF Shown, LoadIsCurrent, Answers, Current, Overtaken, Followed, Newer, At
  <1> QED BY <1>2, <1>3, <1>4

LEMMA OpeningSame ==
  ASSUME Opening, UNCHANGED <<record, seq, opener, run, pending>>, Frames' = Frames,
         sse'.at = "on" <=> sse.at = "on", sse'.attached = sse.attached,
         post.at = "sent" => post'.at = "sent"
  PROVE  Opening'
  <1>1. (Calm' <=> Calm)
    BY DEF Calm
  <1> QED BY <1>1 DEF Opening

LEMMA SubscribeIs ==
  ASSUME ThreadTypes, NEW fresh \in BOOLEAN, Subscribe(fresh)
  PROVE  Frames' = Frames /\ (sse'.at = "on" <=> sse.at = "on") /\ sse'.attached = sse.attached
  BY DEF Subscribe, Frames, ThreadTypes, WireTypes, StreamType

LEMMA LookShows ==
  ASSUME ThreadTypes, Showing, Mount \/ Refresh
  PROVE  Showing'
  <1>0. Shown
    BY DEF Showing, Shown
  <1>1. UNCHANGED <<record, seq, epoch, opener, transcript, run, pending, post, optimistic, known, doubt, stray>>
    BY DEF Mount, Refresh, supervisorVars, sessionVars, history
  <1>2. Frames' = Frames /\ (sse'.at = "on" <=> sse.at = "on") /\ sse'.attached = sse.attached
    <2>1. CASE Mount
      BY <2>1, SubscribeIs DEF Mount
    <2>2. CASE Refresh
      BY <2>2 DEF Refresh, Frames
    <2> QED BY <2>1, <2>2
  <1>3. load'.at = "asked" \/ UNCHANGED <<load, view>>
    BY DEF Mount, Refresh, Load, ThreadTypes, WireTypes, LoadType
  <1>4. OneRestore' /\ RunsAreClosed' /\ FreshIsCurrent' /\ LoadIsCurrent'
    BY <1>0, <1>1, <1>2, <1>3, WireSame
  <1>5. ViewIsCurrent' /\ ShownAtRest'
    <2>1. SUFFICES ASSUME Told' PROVE ViewIsCurrent' /\ ShownAtRest'
      BY DEF ViewIsCurrent, ShownAtRest
    <2>2. UNCHANGED <<load, view>>
      BY <1>3, <2>1 DEF Told, SnapshotComes
    <2>3. Told /\ (Calm' <=> Calm) /\ (Untaken' <=> Untaken)
      BY <1>1, <1>2, <2>1, <2>2 DEF Told, SnapshotComes, Calm, Untaken
    <2> QED BY <1>1, <1>2, <2>1, <2>2, <2>3 DEF Showing, ViewIsCurrent, ShownAtRest
  <1>6. AheadIsKnown'
    BY <1>1, AheadSame DEF Showing, Untaken
  <1>7. Opening'
    BY <1>1, <1>2, OpeningSame DEF Showing
  <1> QED BY <1>4, <1>5, <1>6, <1>7 DEF Showing

LEMMA GetShows ==
  ASSUME ThreadTypes, Showing, GetThread
  PROVE  Showing'
  <1>0. Shown
    BY DEF Showing, Shown
  <1>1. UNCHANGED <<record, seq, epoch, opener, transcript, run, pending, sse, post, view, optimistic, known, doubt, stray>>
    BY DEF GetThread, supervisorVars, sessionVars, clientVars, history
  <1>2. load'.at = "answered" /\ load'.snap[1] = Snapshot
    BY DEF GetThread
  <1>3. Frames' = Frames /\ Position' = Position /\ (Calm' <=> Calm) /\ ~Told' /\ Position \in Nat
    BY <1>1, <1>2, PositionTyped DEF Frames, Position, At, Calm, Told, SnapshotComes, ThreadTypes
  <1>4. OneRestore' /\ RunsAreClosed' /\ FreshIsCurrent'
    BY <1>1, <1>3 DEF Showing, OneRestore, RunsAreClosed, FreshIsCurrent, Fresh, Current, At
  <1>5. LoadIsCurrent'
    <2>1. /\ Snapshot.asof = Position /\ Snapshot.messages = transcript /\ Snapshot.queue = pending
          /\ (run = "idle" => ~Snapshot.running)
      BY DEF Snapshot
    <2>2. Calm => Snapshot.queue = <<>>
      BY <2>1 DEF Showing, Opening
    <2>3. PICK s : s = Snapshot
      OBVIOUS
    <2>4. s.asof <= Position' /\ (Calm' => s.messages = transcript' /\ s.queue = <<>>) /\ (run' = "idle" => ~s.running)
      BY <1>1, <1>3, <2>1, <2>2, <2>3
    <2> QED BY <1>2, <2>3, <2>4 DEF LoadIsCurrent, Answers, Current
  <1>6. AheadIsKnown'
    BY <1>1, AheadSame DEF Showing, Untaken
  <1>7. Opening'
    BY <1>1, <1>3, OpeningSame DEF Showing
  <1> QED BY <1>3, <1>4, <1>5, <1>6, <1>7 DEF Showing, ViewIsCurrent, ShownAtRest

LEMMA LoadFailsShows ==
  ASSUME ThreadTypes, Showing, LoadFails
  PROVE  Showing'
  <1>0. Shown
    BY DEF Showing, Shown
  <1>1. UNCHANGED <<record, seq, epoch, opener, transcript, run, pending, sse, post, optimistic, stray>>
    BY DEF LoadFails, supervisorVars, sessionVars
  <1>2. load'.at = "none"
    BY DEF LoadFails, NoLoad
  <1>3. ~Told'
    <2>1. Position > 0 /\ Position \in Nat
      BY DEF Position, At, ThreadTypes, ServerTypes
    <2>2. doubt' > 0
      BY <2>1 DEF LoadFails, Later, ThreadTypes, HistoryTypes
    <2> QED BY <2>2 DEF Told
  <1>4. OneRestore' /\ RunsAreClosed' /\ FreshIsCurrent' /\ LoadIsCurrent'
    BY <1>0, <1>1, <1>2, WireSame DEF Frames
  <1>5. AheadIsKnown'
    BY <1>1, AheadSame DEF Showing, Untaken
  <1>6. Opening'
    BY <1>1, OpeningSame DEF Showing, Frames
  <1> QED BY <1>3, <1>4, <1>5, <1>6 DEF Showing, ViewIsCurrent, ShownAtRest

LEMMA SendShows ==
  ASSUME ThreadTypes, Showing, Send
  PROVE  Showing'
  <1>0. Shown
    BY DEF Showing, Shown
  <1>1. UNCHANGED <<record, seq, epoch, opener, transcript, run, pending, load, known, doubt>> /\ post.at = "none"
    BY DEF Send, supervisorVars, sessionVars
  <1>2. Frames' = Frames /\ (sse'.at = "on" <=> sse.at = "on") /\ sse'.attached = sse.attached
    BY SubscribeIs DEF Send
  <1>3. OneRestore' /\ RunsAreClosed' /\ FreshIsCurrent' /\ LoadIsCurrent'
    BY <1>0, <1>1, <1>2, WireSame
  <1>4. ~Untaken /\ Untaken' /\ post'.id = sends' /\ (post'.queued <=> view.run = "running") /\ sends' \in Nat
    <2>1. post' = [at |-> "sent", id |-> sends', queued |-> view.run = "running"]
      BY DEF Send
    <2>2. post'.at = "sent" /\ post'.id = sends' /\ post'.queued = (view.run = "running")
      BY <2>1, Zenon
    <2>3. post'.queued <=> view.run = "running"
      BY <2>2
    <2>4. sends' \in Nat
      BY DEF Send, ThreadTypes, HistoryTypes
    <2> QED BY <1>1, <2>2, <2>3, <2>4 DEF Untaken
  <1>5. (Told' <=> Told) /\ (Calm' <=> Calm)
    BY <1>1, <1>2 DEF Told, SnapshotComes, Calm
  <1>6. PICK q \in Seq(Nat) : q = view.queue
    BY DEF ThreadTypes, BrowserTypes, ViewType
  <1>7. PICK o \in Seq(AheadType) : o = optimistic
    BY DEF ThreadTypes, BrowserTypes
  <1>8. Calm /\ Told => view.messages = transcript /\ Len(q) = 0 /\ (~stray => Len(o) = 0)
    BY <1>4, <1>6, <1>7, LenProperties DEF Showing, ViewIsCurrent
  <1>9. Opening'
    BY <1>1, <1>2, OpeningSame DEF Showing
  <1>10. CASE view.run = "running"
    <2>1. /\ view'.messages = view.messages /\ view'.queue = Append(q, sends') /\ view'.run = view.run
          /\ UNCHANGED <<optimistic, stray>>
      BY <1>6, <1>10 DEF Send, ThreadTypes, BrowserTypes, ViewType
    <2>2. ViewIsCurrent'
      <3>1. SUFFICES ASSUME Calm, Told PROVE ViewIsCurrent'
        BY <1>5 DEF ViewIsCurrent
      <3>2. Len(Append(q, sends')) = 1 /\ Append(q, sends')[1] = sends'
        BY <1>4, <1>8, <3>1, AppendProperties
      <3>3. \A i \in 1..Len(view'.queue) : view'.queue[i] = sends'
        BY <2>1, <3>2
      <3>4. \A i \in 1..Len(view'.queue) : Untaken' /\ post'.queued /\ view'.queue[i] = post'.id
        BY <1>4, <1>10, <3>3
      <3>5. view'.messages = transcript'
        BY <1>1, <1>8, <2>1, <3>1
      <3>6. ~stray' => Len(optimistic') = 0
        BY <1>7, <1>8, <2>1, <3>1
      <3> QED BY <3>4, <3>5, <3>6 DEF ViewIsCurrent
    <2>3. ShownAtRest'
      BY <1>1, <1>2, <1>4, <1>5, <1>10 DEF Showing, ShownAtRest
    <2>4. AheadIsKnown'
      <3>1. \A x : ~Waiting(x)
        BY <1>4 DEF Waiting
      <3> QED BY <1>1, <2>1, <3>1 DEF Showing, AheadIsKnown, Recorded
    <2> QED BY <1>3, <1>9, <2>2, <2>3, <2>4 DEF Showing
  <1>11. CASE view.run # "running"
    <2> DEFINE n == [id |-> sends', base |-> Len(view.messages)]
    <2>1. /\ view'.messages = view.messages /\ view'.queue = view.queue
          /\ optimistic' = Append(o, n) /\ stray' = (stray \/ Len(view.messages) > Len(transcript))
      BY <1>7, <1>11 DEF Send, ThreadTypes, BrowserTypes, ViewType
    <2>2. Len(view.messages) \in Nat /\ Len(transcript) \in Nat
      BY DEF ThreadTypes, BrowserTypes, ViewType, TalkTypes
    <2>3. n \in AheadType /\ n.id = sends' /\ n.base = Len(view.messages)
      BY <1>4, <2>2 DEF AheadType
    <2> HIDE DEF n
    <2>4. /\ Len(Append(o, n)) = Len(o) + 1 /\ Append(o, n)[Len(o) + 1] = n /\ Len(o) \in Nat
          /\ \A i \in 1..Len(o) : Append(o, n)[i] = o[i]
      BY <2>3, AppendProperties, LenProperties
    <2>5. ViewIsCurrent'
      <3>1. SUFFICES ASSUME Calm, Told PROVE ViewIsCurrent'
        BY <1>5 DEF ViewIsCurrent
      <3>2. view'.messages = transcript' /\ Len(view'.queue) = 0
        BY <1>1, <1>6, <1>8, <2>1, <3>1
      <3>3. ASSUME ~stray', NEW j \in 1..Len(optimistic')
            PROVE  Untaken' /\ ~post'.queued /\ optimistic'[j].id = post'.id
        <4>1. Len(o) = 0
          BY <1>8, <2>1, <3>1, <3>3
        <4>2. optimistic'[j] = n
          BY <2>1, <2>4, <4>1
        <4> QED BY <1>4, <1>11, <2>3, <4>2
      <3> QED BY <3>2, <3>3 DEF ViewIsCurrent
    <2>6. ShownAtRest'
      BY <1>4, <1>11 DEF ShownAtRest
    <2>7. AheadIsKnown'
      <3>1. SUFFICES ASSUME ~stray', NEW j \in 1..Len(optimistic'), NEW x, x = optimistic'[j]
                     PROVE  Waiting(x)' \/ Recorded(x)'
        BY DEF AheadIsKnown, Waiting, Recorded, Untaken
      <3>2. ~stray /\ Len(view.messages) <= Len(transcript)
        <4>1. ~(stray \/ Len(view.messages) > Len(transcript))
          BY <2>1, <3>1, Zenon
        <4> QED BY <2>2, <4>1
      <3>3. CASE j \in 1..Len(o)
        <4>1. x = o[j]
          BY <2>1, <2>4, <3>1, <3>3
        <4>2. Recorded(x)
          BY <1>4, <1>7, <3>2, <3>3, <4>1 DEF Showing, AheadIsKnown, Waiting
        <4> QED BY <1>1, <4>2 DEF Recorded
      <3>4. CASE j \notin 1..Len(o)
        <4>1. x = n
          BY <2>1, <2>4, <3>1, <3>4
        <4>2. Untaken' /\ ~post'.queued /\ n.id = post'.id /\ n.base <= Len(transcript')
          BY <1>1, <1>4, <1>11, <2>3, <3>2
        <4> QED BY <4>1, <4>2 DEF Waiting
      <3> QED BY <3>3, <3>4
    <2> QED BY <1>3, <1>9, <2>5, <2>6, <2>7 DEF Showing
  <1> QED BY <1>10, <1>11

\* An answer takes back at most what was shown ahead of it.
LEMMA PostReturnsShows ==
  ASSUME ThreadTypes, Showing, PostReturns
  PROVE  Showing'
  <1>0. Shown
    BY DEF Showing, Shown
  <1>1. /\ UNCHANGED <<record, seq, epoch, opener, transcript, run, pending, sse, load, known, doubt, stray>>
        /\ post.at \in {"accepted", "refused"} /\ ~Untaken'
    BY DEF PostReturns, supervisorVars, sessionVars, history, NoPost, Untaken
  <1>2. OneRestore' /\ RunsAreClosed' /\ FreshIsCurrent' /\ LoadIsCurrent'
    BY <1>0, <1>1, WireSame DEF Frames
  <1>3. Opening'
    BY <1>1, OpeningSame DEF Showing, Frames
  <1>4. Frames' = Frames /\ (Told' <=> Told) /\ (Calm' <=> Calm)
    BY <1>1 DEF Frames, Told, SnapshotComes, Calm
  <1>5. PICK q \in Seq(Nat) : q = view.queue
    BY DEF ThreadTypes, BrowserTypes, ViewType
  <1>6. PICK o \in Seq(AheadType) : o = optimistic
    BY DEF ThreadTypes, BrowserTypes
  <1>7. view' \in ViewType /\ optimistic' \in Seq(AheadType)
    BY PostReturnsTypes DEF ThreadTypes, BrowserTypes
  \* What is left is no longer that of the request.
  <1>8. /\ view'.messages = view.messages
        /\ \A i \in 1..Len(view'.queue) :
             \E k \in 1..Len(q) : view'.queue[i] = q[k] /\ ~(Untaken /\ post.queued /\ q[k] = post.id)
        /\ \A j \in 1..Len(optimistic') :
             \E k \in 1..Len(o) : optimistic'[j] = o[k] /\ ~(Untaken /\ ~post.queued /\ o[k].id = post.id)
        /\ view'.run = "running" => view.run = "running" /\ ~(Untaken /\ ~post.queued)
    <2>1. CASE post.at = "accepted"
      <3>1. UNCHANGED <<view, optimistic>> /\ ~Untaken
        BY <2>1 DEF PostReturns, Untaken
      <3> QED BY <1>5, <1>6, <3>1
    <2>2. CASE post.at = "refused" /\ post.queued
      <3>1. /\ UNCHANGED optimistic /\ view'.messages = view.messages /\ view'.run = view.run
            /\ view'.queue = Without(q, {post.id})
        BY <1>5, <2>2 DEF PostReturns, TakeBack, ThreadTypes, BrowserTypes, ViewType
      <3>2. PICK r : r = Without(q, {post.id})
        OBVIOUS
      <3>3. \A i \in 1..Len(r) : \E k \in 1..Len(q) : r[i] = q[k] /\ q[k] # post.id
        <4>1. \A i \in 1..Len(r) : \E k \in 1..Len(q) : r[i] = q[k] /\ q[k] \notin {post.id}
          BY <3>2, WithoutIs
        <4> QED BY <4>1
      <3>4. \A i \in 1..Len(view'.queue) :
              \E k \in 1..Len(q) : view'.queue[i] = q[k] /\ ~(Untaken /\ post.queued /\ q[k] = post.id)
        <4>1. view'.queue = r
          BY <3>1, <3>2
        <4>2. SUFFICES ASSUME NEW i \in 1..Len(r)
                       PROVE  \E k \in 1..Len(q) : r[i] = q[k] /\ ~(Untaken /\ post.queued /\ q[k] = post.id)
          BY <4>1
        <4>3. PICK k \in 1..Len(q) : r[i] = q[k] /\ q[k] # post.id
          BY <3>3
        <4> QED BY <4>3
      <3>5. \A j \in 1..Len(optimistic') :
              \E k \in 1..Len(o) : optimistic'[j] = o[k] /\ ~(Untaken /\ ~post.queued /\ o[k].id = post.id)
        BY <1>6, <2>2, <3>1
      <3> QED BY <2>2, <3>1, <3>4, <3>5
    <2>3. CASE post.at = "refused" /\ ~post.queued
      <3> DEFINE drop == {optimistic[j] : j \in {k \in DOMAIN optimistic : optimistic[k].id = post.id}}
      <3>1. /\ view'.messages = view.messages /\ view'.run = "failed" /\ view'.queue = view.queue
            /\ optimistic' = Without(o, drop)
        BY <1>6, <2>3 DEF PostReturns, TakeBack, ThreadTypes, BrowserTypes, ViewType
      <3>2. \A k \in DOMAIN o : o[k] \notin drop => o[k].id # post.id
        BY <1>6
      <3> HIDE DEF drop
      <3>3. PICK r : r = Without(o, drop)
        OBVIOUS
      <3>4. \A j \in 1..Len(r) : \E k \in 1..Len(o) : r[j] = o[k] /\ o[k] \notin drop
        BY <3>3, WithoutIs
      <3>5. \A j \in 1..Len(r) : \E k \in 1..Len(o) : r[j] = o[k] /\ o[k].id # post.id
        BY <3>2, <3>4
      <3> QED BY <1>5, <2>3, <3>1, <3>3, <3>5
    <2> QED BY <1>1, <2>1, <2>2, <2>3
  <1>9. ViewIsCurrent'
    <2>1. SUFFICES ASSUME Calm, Told PROVE ViewIsCurrent'
      BY <1>4 DEF ViewIsCurrent
    <2>2. /\ view.messages = transcript
          /\ \A i \in 1..Len(q) : Untaken /\ post.queued /\ q[i] = post.id
          /\ ~stray => \A j \in 1..Len(o) : Untaken /\ ~post.queued /\ o[j].id = post.id
      BY <1>5, <1>6, <2>1 DEF Showing, ViewIsCurrent
    <2>3. view'.messages = transcript'
      BY <1>1, <1>8, <2>2
    <2>4. \A i \in 1..Len(view'.queue) : FALSE
      BY <1>8, <2>2
    <2>5. ~stray => \A j \in 1..Len(optimistic') : FALSE
      BY <1>8, <2>2
    <2> QED BY <1>1, <2>3, <2>4, <2>5 DEF ViewIsCurrent
  <1>10. ShownAtRest'
    BY <1>1, <1>4, <1>8 DEF Showing, ShownAtRest
  <1>11. AheadIsKnown'
    <2>1. SUFFICES ASSUME ~stray, NEW j \in 1..Len(optimistic'), NEW x, x = optimistic'[j] PROVE Recorded(x)'
      BY <1>1 DEF AheadIsKnown, Recorded
    <2>2. PICK k \in 1..Len(o) : x = o[k] /\ ~(Untaken /\ ~post.queued /\ o[k].id = post.id)
      BY <1>8, <2>1
    <2>3. Recorded(x)
      BY <1>6, <2>1, <2>2 DEF Showing, AheadIsKnown, Waiting
    <2> QED BY <1>1, <2>3 DEF Recorded
  <1> QED BY <1>2, <1>3, <1>9, <1>10, <1>11 DEF Showing

\* A stream begins with its snapshot, or with a doubt.
LEMMA AttachShows ==
  ASSUME OpensInv, ThreadTypes, Showing, sessionFile = "present", Attach
  PROVE  Showing'
  <1>0. Shown
    BY DEF Showing, Shown
  <1>1. /\ UNCHANGED <<record, seq, epoch, transcript, run, pending, load, post, view, optimistic, known, stray>>
        /\ opener' = [opener EXCEPT !["events"] = "idle"]
    BY DEF Attach, Returns, sessionVars, clientVars
  <1>2. /\ opener["events"] # "unknown" /\ record
        /\ \A k \in Openers : opener'[k] # "unknown" /\ (opener'[k] = "ready" => record)
        /\ opener'["send"] = opener["send"]
    BY <1>1 DEF Attach, Returns, Showing, Opening, OpensInv, Openers
  <1>3. AheadIsKnown'
    BY <1>1, AheadSame DEF Showing, Untaken
  <1>4. (Calm' <=> Calm) /\ Position' = Position /\ Position \in Nat /\ Position > 0 /\ At(seq) = Position
    BY <1>1 DEF Calm, Position, At, ThreadTypes, ServerTypes
  <1>5. CASE ~Subscribing
    <2>1. UNCHANGED <<sse, doubt>>
      BY <1>5 DEF Attach
    <2>2. Shown'
      BY <1>0, <1>1, <2>1, ShownSame
    <2>3. Opening'
      BY <1>1, <1>2, <1>4, <2>1 DEF Showing, Opening, Frames
    <2> QED BY <2>2, <2>3 DEF Showing, Shown
  <1>6. CASE Subscribing
    <2>1. /\ sse'.at = "on" /\ sse'.attached /\ Len(Frames) = 0
          /\ Frames' = IF sse.fresh THEN <<SnapshotEvent(Snapshot, seq)>> ELSE <<>>
          /\ doubt' = IF ~sse.fresh THEN Later(doubt, Position) ELSE doubt
      <3>1. sse' = [sse EXCEPT !.at = "on", !.attached = TRUE,
                      !.frames = IF sse.fresh THEN <<SnapshotEvent(Snapshot, seq)>> ELSE <<>>]
        BY <1>2, <1>6 DEF Attach
      <3>2. Frames = <<>>
        BY <1>6 DEF Showing, Opening, Subscribing
      <3>3. sse'.at = "on" /\ sse'.attached
            /\ sse'.frames = IF sse.fresh THEN <<SnapshotEvent(Snapshot, seq)>> ELSE <<>>
        BY <3>1 DEF ThreadTypes, WireTypes, StreamType
      <3> QED BY <1>6, <3>2, <3>3 DEF Attach, Frames
    <2>2. Opening'
      BY <1>1, <1>2, <1>4, <2>1 DEF Showing, Opening
    <2>3. Snapshot.asof = Position /\ Snapshot.messages = transcript /\ Snapshot.queue = pending
          /\ (run = "idle" => ~Snapshot.running)
      BY DEF Snapshot
    <2>4. PICK w : w = Snapshot
      OBVIOUS
    <2>5. PICK e : e = SnapshotEvent(w, seq)
      OBVIOUS
    <2>6. e.kind = "snapshot" /\ e.seq = seq /\ e.snap = w
      BY <2>5 DEF SnapshotEvent
    <2>7. Calm => w.queue = <<>>
      BY <2>3, <2>4 DEF Showing, Opening
    <2>8. LoadIsCurrent'
      <3>1. SUFFICES ASSUME load.at = "answered" PROVE LoadIsCurrent'
        BY <1>1 DEF LoadIsCurrent
      <3>2. PICK s \in SnapshotType : s = load.snap[1]
        BY <3>1, AnswerIs
      <3>3. Answers(s) /\ s.asof \in Nat
        BY <3>1, <3>2 DEF Showing, LoadIsCurrent, SnapshotType
      <3>4. s.asof < Position => Overtaken(s.asof)' /\ Followed(s.asof)'
        <4>1. SUFFICES ASSUME s.asof < Position PROVE Overtaken(s.asof)' /\ Followed(s.asof)'
          OBVIOUS
        <4>2. CASE sse.fresh
          <5>1. Frames' = <<e>>
            BY <2>1, <2>4, <2>5, <4>2
          <5>2. 1 \in 1..Len(Frames') /\ Frames'[1] = e
            BY <5>1
          <5>3. At(seq)' = Position /\ At(e.seq)' = At(seq)'
            BY <1>1, <1>4, <2>6 DEF At
          <5> QED BY <2>6, <4>1, <5>2, <5>3 DEF Overtaken, Followed, At, Silent
        <4>3. CASE ~sse.fresh
          <5>1. doubt' >= Position /\ doubt' \in Nat
            BY <1>4, <2>1, <4>3, LaterTyped DEF ThreadTypes, HistoryTypes
          <5> QED BY <1>4, <3>3, <4>1, <5>1 DEF Overtaken, Followed, Newer
        <4> QED BY <4>2, <4>3
      <3>5. s.asof < Position \/ s.asof = Position
        BY <1>4, <3>3 DEF Answers
      <3>6. Answers(s)'
        BY <1>1, <1>4, <3>3, <3>4, <3>5 DEF Answers, Current
      <3> QED BY <1>1, <3>2, <3>6 DEF LoadIsCurrent, Answers, Current, Overtaken, Followed, Newer, At
    <2>9. OneRestore' /\ RunsAreClosed' /\ FreshIsCurrent' /\ ~Told'
      <3>1. CASE sse.fresh
        <4>1. Frames' = <<e>>
          BY <2>1, <2>4, <2>5, <3>1
        <4>2. Len(Frames') = 1 /\ Frames'[1] = e
          BY <4>1
        <4>3. w.asof = Position /\ (Calm => w.messages = transcript /\ w.queue = <<>>) /\ (run = "idle" => ~w.running)
          BY <2>3, <2>4, <2>7
        <4>4. OneRestore'
          BY <1>1, <1>4, <2>6, <4>2, <4>3 DEF OneRestore, At
        <4>5. RunsAreClosed'
          BY <2>6, <4>2 DEF RunsAreClosed, Saying, SingleKinds, EndKinds
        <4>6. FreshIsCurrent'
          BY <1>1, <1>4, <2>6, <4>2, <4>3 DEF FreshIsCurrent, Fresh, Current
        <4>7. ~Told'
          BY <2>6, <4>2 DEF Told, SnapshotComes, Restoring
        <4> QED BY <4>4, <4>5, <4>6, <4>7
      <3>2. CASE ~sse.fresh
        <4>1. Frames' = <<>> /\ Len(Frames') = 0
          BY <2>1, <3>2
        <4>2. doubt' # 0
          BY <1>4, <2>1, <3>2, LaterTyped DEF ThreadTypes, HistoryTypes
        <4> QED BY <4>1, <4>2 DEF OneRestore, RunsAreClosed, FreshIsCurrent, Told
      <3> QED BY <3>1, <3>2
    <2> QED BY <1>3, <2>2, <2>8, <2>9 DEF Showing, ViewIsCurrent, ShownAtRest
  <1> QED BY <1>5, <1>6

\* What the reducer makes of a snapshot, and of what changes no message.
LEMMA RestoreIs ==
  ASSUME NEW v \in ViewType, NEW e \in FrameType, e.kind = "snapshot"
  PROVE  /\ e.snap \in SnapshotType
         /\ Reduce(v, e).messages = e.snap.messages /\ Reduce(v, e).queue = e.snap.queue
         /\ Reduce(v, e).run = "running" => e.snap.running
  <1>1. e \in RestoreType
    BY DEF FrameType, PlainType, PlainKinds, SingleKinds, EndKinds, BareKinds
  <1>2. e.snap \in SnapshotType
    BY <1>1 DEF RestoreType
  <1>3. PICK w \in ViewType : w = Restored(v, e.snap)
    BY <1>2, RestoredTyped
  <1>4. w.messages = e.snap.messages /\ w.queue = e.snap.queue /\ (w.run = "running" => e.snap.running)
    BY <1>2, <1>3 DEF Restored, ViewType, SnapshotType
  <1>5. Reduced(v, e) = w
    BY <1>3 DEF Reduced
  <1>6. \E b, n : Reduce(v, e) = [w EXCEPT !.busy = b, !.run = w.run, !.lastSeq = n]
    BY <1>5 DEF Reduce, Faulty
  <1> QED BY <1>2, <1>4, <1>6 DEF ViewType

LEMMA SilentIs ==
  ASSUME NEW v \in ViewType, NEW e \in FrameType, e.kind \in Silent
  PROVE  /\ Reduce(v, e).messages = v.messages /\ Reduce(v, e).queue = v.queue
         /\ e.kind # "compacting" => Reduce(v, e).run = "failed"
  <1>1. Reduced(v, e) = v
    BY DEF Reduced, Silent
  <1>2. \E b, n : Reduce(v, e) = [v EXCEPT !.busy = b, !.run = IF e.kind \in Faulty THEN "failed" ELSE v.run,
                                        !.lastSeq = n]
    BY <1>1 DEF Reduce
  <1>3. e.kind # "compacting" => e.kind \in Faulty
    BY DEF Silent, Faulty
  <1> QED BY <1>2, <1>3 DEF ViewType

\* A message that is still shown ahead was shown ahead, and is not in the view.
LEMMA UnconfirmedIs ==
  ASSUME ThreadTypes, NEW w \in ViewType, NEW r, r = Unconfirmed(optimistic, w)
  PROVE  \A j \in 1..Len(r) : \E k \in 1..Len(optimistic) :
           /\ r[j] = optimistic[k]
           /\ ~\E i \in 1..Len(w.messages) : i > r[j].base /\ w.messages[i].id = r[j].id
  <1>1. PICK o \in Seq(AheadType) : o = optimistic
    BY DEF ThreadTypes, BrowserTypes
  <1>2. \A j \in 1..Len(r) : \E k \in 1..Len(o) : r[j] = o[k] /\ o[k] \notin Confirmed(o, w)
    BY <1>1, WithoutIs DEF Unconfirmed
  <1>3. DOMAIN w.messages = 1..Len(w.messages) /\ DOMAIN o = 1..Len(o)
    BY DEF ViewType
  <1>4. ASSUME NEW k \in 1..Len(o), o[k] \notin Confirmed(o, w)
        PROVE  ~\E i \in 1..Len(w.messages) : i > o[k].base /\ w.messages[i].id = o[k].id
    BY <1>3, <1>4 DEF Confirmed
  <1> QED BY <1>1, <1>2, <1>4

\* Where the view is that of the session, only the request that has not been
\* taken is shown ahead.
LEMMA AheadSettles ==
  ASSUME ThreadTypes, AheadIsKnown, ~stray, NEW w \in ViewType, w.messages = transcript,
         NEW r, r = Unconfirmed(optimistic, w)
  PROVE  \A j \in 1..Len(r) : Untaken /\ ~post.queued /\ r[j].id = post.id
  <1>1. SUFFICES ASSUME NEW j \in 1..Len(r) PROVE Waiting(r[j])
    BY DEF Waiting
  <1>2. PICK k \in 1..Len(optimistic) :
          /\ r[j] = optimistic[k]
          /\ ~\E i \in 1..Len(w.messages) : i > r[j].base /\ w.messages[i].id = r[j].id
    BY <1>1, UnconfirmedIs
  <1>3. ~Recorded(r[j])
    BY <1>2 DEF Recorded
  <1> QED BY <1>2, <1>3 DEF AheadIsKnown

LEMMA AheadShrinks ==
  ASSUME ThreadTypes, AheadIsKnown, UNCHANGED <<stray, transcript, post>>,
         NEW w \in ViewType, optimistic' = Unconfirmed(optimistic, w)
  PROVE  AheadIsKnown'
  <1>1. PICK r : r = Unconfirmed(optimistic, w)
    OBVIOUS
  <1>2. ASSUME ~stray, NEW j \in 1..Len(r) PROVE Waiting(r[j]) \/ Recorded(r[j])
    BY <1>1, <1>2, UnconfirmedIs DEF AheadIsKnown
  <1> QED BY <1>1, <1>2 DEF AheadIsKnown, Waiting, Recorded, Untaken

\* Where nothing runs and no snapshot comes, nothing comes that changes a message.
LEMMA OnlySilent ==
  ASSUME ThreadTypes, RunsAreClosed, Calm, NEW m \in Nat,
         \A i \in 1..Len(Frames) : i > m => Frames[i].kind \notin Restoring
  PROVE  \A i \in 1..Len(Frames) : i > m => Frames[i].kind \in Silent
  <1>1. SUFFICES ASSUME NEW i \in 1..Len(Frames), i > m PROVE Frames[i].kind \in Silent
    OBVIOUS
  <1>2. Frames[i].kind \in Restoring \union Saying \union Silent
    BY FramesTyped DEF FrameType, RestoreType, PlainType, PlainKinds, SingleKinds, EndKinds, BareKinds,
                       Saying, Restoring, Silent
  <1>3. Frames[i].kind \notin Saying
    <2>1. SUFFICES ASSUME Frames[i].kind \in Saying PROVE FALSE
      OBVIOUS
    <2>2. PICK j \in 1..Len(Frames) : j > i /\ Frames[j].kind = "settled"
      BY <2>1 DEF RunsAreClosed
    <2>3. Len(Frames) \in Nat
      BY FramesTyped
    <2> QED BY <1>1, <2>2, <2>3 DEF Restoring
  <1> QED BY <1>1, <1>2, <1>3

\* The answer of a load takes the place of what is shown.
LEMMA LoadedShows ==
  ASSUME ThreadTypes, Showing, Loaded
  PROVE  Showing'
  <1>0. Shown
    BY DEF Showing, Shown
  <1>1. /\ UNCHANGED <<record, seq, epoch, opener, transcript, run, pending, sse, post, stray>>
        /\ load.at = "answered" /\ load'.at = "none"
    BY DEF Loaded, supervisorVars, sessionVars, NoLoad
  <1>2. PICK s \in SnapshotType : s = load.snap[1]
    BY <1>1, AnswerIs
  <1>3. PICK e \in FrameType : e = SnapshotEvent(s, 0)
    BY SnapshotEventTyped
  <1>4. e.kind = "snapshot" /\ e.snap = s
    BY <1>3 DEF SnapshotEvent
  <1>5. PICK w \in ViewType : w = Reduce(view, e)
    BY ReduceTyped DEF ThreadTypes, BrowserTypes
  <1>6. w.messages = s.messages /\ w.queue = s.queue /\ (w.run = "running" => s.running)
    BY <1>4, <1>5, RestoreIs DEF ThreadTypes, BrowserTypes
  <1>7. view' = w /\ optimistic' = Unconfirmed(optimistic, w)
    BY <1>2, <1>3, <1>5 DEF Loaded, Dispatch
  <1>8. doubt' = IF s.asof < known THEN Later(doubt, known)
                 ELSE IF s.asof >= doubt THEN 0 ELSE doubt
    BY <1>2 DEF Loaded
  <1>9. OneRestore' /\ RunsAreClosed' /\ FreshIsCurrent' /\ LoadIsCurrent'
    BY <1>0, <1>1, WireSame DEF Frames
  <1>10. Opening'
    BY <1>1, OpeningSame DEF Showing, Frames
  <1>11. AheadIsKnown'
    BY <1>1, <1>7, AheadShrinks DEF Showing
  <1>12. Answers(s)
    BY <1>1, <1>2 DEF Showing, LoadIsCurrent
  <1>13. (Calm' <=> Calm) /\ Frames' = Frames
    BY <1>1 DEF Calm, Frames
  \* Without a doubt it is newer than all that came before.
  <1>14. Told' => ~Newer(s.asof) /\ \A i \in 1..Len(Frames) : Frames[i].kind \notin Restoring
    <2>1. SUFFICES ASSUME Told' PROVE ~Newer(s.asof) /\ \A i \in 1..Len(Frames) : Frames[i].kind \notin Restoring
      OBVIOUS
    <2>2. sse.at = "on" /\ doubt' = 0 /\ \A i \in 1..Len(Frames) : Frames[i].kind \notin Restoring
      BY <1>1, <1>13, <2>1 DEF Told, SnapshotComes
    <2>3. s.asof \in Nat /\ known \in Nat /\ doubt \in Nat
      BY DEF SnapshotType, ThreadTypes, HistoryTypes
    <2>4. s.asof >= known
      <3>1. SUFFICES ASSUME s.asof < known PROVE FALSE
        BY <2>3
      <3>2. doubt' = Later(doubt, known)
        BY <1>8, <3>1
      <3>3. doubt' >= known /\ doubt' \in Nat
        BY <2>3, <3>2, LaterTyped
      <3> QED BY <2>2, <2>3, <3>1, <3>3
    <2>5. s.asof >= doubt
      BY <1>8, <2>2, <2>3, <2>4
    <2> QED BY <2>2, <2>3, <2>4, <2>5 DEF Newer
  <1>15. ViewIsCurrent'
    <2>1. SUFFICES ASSUME Calm, Told' PROVE ViewIsCurrent'
      BY <1>13 DEF ViewIsCurrent
    <2>2. \A i \in 1..Len(Frames) : Frames[i].kind \in Silent
      <3>1. \A i \in 1..Len(Frames) : i > 0 => Frames[i].kind \in Silent
        BY <1>14, <2>1, OnlySilent DEF Showing
      <3> QED BY <3>1, FramesTyped
    <2>3. Current(s)
      BY <1>12, <1>14, <2>1, <2>2 DEF Answers, Overtaken
    <2>4. view'.messages = transcript /\ Len(view'.queue) = 0
      BY <1>6, <1>7, <2>3 DEF Current
    <2>5. ~stray => \A j \in 1..Len(optimistic') : Untaken /\ ~post.queued /\ optimistic'[j].id = post.id
      <3>1. SUFFICES ASSUME ~stray PROVE \A j \in 1..Len(optimistic') : Untaken /\ ~post.queued /\ optimistic'[j].id = post.id
        OBVIOUS
      <3>2. PICK r : r = Unconfirmed(optimistic, w)
        OBVIOUS
      <3>3. \A j \in 1..Len(r) : Untaken /\ ~post.queued /\ r[j].id = post.id
        BY <1>7, <2>4, <3>1, <3>2, AheadSettles DEF Showing
      <3> QED BY <1>7, <3>2, <3>3
    <2> QED BY <1>1, <2>4, <2>5 DEF ViewIsCurrent, Untaken
  <1>16. ShownAtRest'
    <2>1. SUFFICES ASSUME run = "idle", Told', Len(Frames) = 0, view'.run = "running" PROVE FALSE
      BY <1>1, <1>13 DEF ShownAtRest
    <2>2. s.running /\ ~Followed(s.asof)
      BY <1>6, <1>7, <1>14, <2>1 DEF Followed
    <2> QED BY <1>12, <2>1, <2>2 DEF Answers
  <1> QED BY <1>9, <1>10, <1>11, <1>15, <1>16 DEF Showing

\* An event is taken off the stream.
LEMMA DeliverShows ==
  ASSUME ThreadTypes, Showing, FlagsAreClosed, Deliver
  PROVE  Showing'
  <1>1. /\ UNCHANGED <<record, seq, epoch, opener, transcript, run, pending, post, stray>>
        /\ sse.at = "on" /\ Frames # <<>>
    BY DEF Deliver, supervisorVars, sessionVars, Frames
  <1>2. PICK f \in Seq(FrameType) : f = Frames
    BY FramesTyped
  <1>3. PICK e \in FrameType : e = f[1] /\ e = Head(sse.frames) /\ e.seq \in Nat
    BY <1>1, <1>2, FirstFrame DEF ThreadTypes, WireTypes, Frames
  <1>4. /\ Len(f) \in Nat /\ Len(f) >= 1 /\ Len(Tail(f)) = Len(f) - 1
        /\ \A i \in 1..Len(Tail(f)) : i + 1 \in 1..Len(f) /\ Tail(f)[i] = f[i + 1]
        /\ \A i \in 1..Len(f) : i > 1 => i - 1 \in 1..Len(Tail(f)) /\ Tail(f)[i - 1] = f[i]
    <2>1. f # <<>>
      BY <1>1, <1>2
    <2> QED BY <2>1, HeadTailProperties
  <1>5. Frames' = Tail(f) /\ sse'.at = "on" /\ sse'.attached = sse.attached
    BY <1>1, <1>2 DEF Deliver, Frames, ThreadTypes, WireTypes, StreamType
  <1>6. PICK refresh \in BOOLEAN : refresh <=> (e.kind = "settled" /\ load.at = "none")
    OBVIOUS
  <1>7. /\ Dispatch(e, refresh)
        /\ load' = IF refresh THEN [load EXCEPT !.at = "asked"] ELSE load
        /\ known' = Later(known, At(e.seq))
        /\ doubt' = IF e.kind = "compacted" THEN Later(doubt, At(e.seq))
                    ELSE IF e.kind = "snapshot" /\ e.snap.asof >= doubt THEN 0 ELSE doubt
    <2>1. refresh = (Head(sse.frames).kind = "settled" /\ load.at = "none")
      BY <1>3, <1>6
    <2> QED BY <1>3, <2>1 DEF Deliver
  <1>8. PICK w \in ViewType : w = Reduce(view, e)
    BY ReduceTyped DEF ThreadTypes, BrowserTypes
  <1>9. optimistic' = Unconfirmed(optimistic, w) /\ (~refresh => view' = w)
    BY <1>7, <1>8 DEF Dispatch
  <1>10. Opening'
    BY <1>1, <1>5 DEF Showing, Opening, Calm
  <1>11. AheadIsKnown'
    BY <1>1, <1>9, AheadShrinks DEF Showing
  <1>12. (Calm' <=> Calm) /\ Position' = Position /\ \A n : At(n)' = At(n)
    BY <1>1 DEF Calm, Position, At
  <1>13. /\ OneRestore /\ RunsAreClosed
         /\ At(e.seq) \in Nat /\ At(e.seq) > 0 /\ known \in Nat /\ doubt \in Nat
         /\ known' >= known /\ known' >= At(e.seq) /\ known' \in Nat
    <2>1. At(e.seq) \in Nat /\ At(e.seq) > 0 /\ known \in Nat /\ doubt \in Nat
      BY <1>3 DEF At, ThreadTypes, ServerTypes, HistoryTypes
    <2> QED BY <1>7, <2>1, LaterTyped DEF Showing
  <1>14. \A i \in 1..Len(Frames') : Frames'[i].kind # "snapshot"
    <2>1. SUFFICES ASSUME NEW i \in 1..Len(Tail(f)), Tail(f)[i].kind = "snapshot" PROVE FALSE
      BY <1>5
    <2>2. i + 1 \in 1..Len(f) /\ f[i + 1].kind = "snapshot" /\ i + 1 # 1
      BY <1>4, <2>1
    <2> QED BY <1>2, <1>13, <2>2 DEF OneRestore
  <1>15. OneRestore' /\ FreshIsCurrent'
    <2>1. OneRestore'
      BY <1>14 DEF OneRestore
    <2>2. Len(Frames') > 0 => 1 \in 1..Len(Frames')
      BY <1>4, <1>5
    <2> QED BY <1>14, <2>1, <2>2 DEF FreshIsCurrent
  <1>16. RunsAreClosed'
    <2>1. SUFFICES ASSUME Calm, NEW i \in 1..Len(Tail(f)), Tail(f)[i].kind \in Saying
                   PROVE  \E j \in 1..Len(Tail(f)) : j > i /\ Tail(f)[j].kind = "settled"
      BY <1>5, <1>12 DEF RunsAreClosed
    <2>2. i + 1 \in 1..Len(f) /\ f[i + 1].kind \in Saying
      BY <1>4, <2>1
    <2>3. PICK j \in 1..Len(f) : j > i + 1 /\ f[j].kind = "settled"
      BY <1>2, <1>13, <2>1, <2>2 DEF RunsAreClosed
    <2>4. j > 1 /\ j - 1 > i
      BY <1>4, <2>1, <2>3
    <2>5. j - 1 \in 1..Len(Tail(f)) /\ Tail(f)[j - 1].kind = "settled"
      BY <1>4, <2>3, <2>4
    <2> QED BY <2>4, <2>5
  \* What was on its way is still, or the view knows of it.
  <1>17. ASSUME NEW p \in Nat PROVE (Overtaken(p) => Overtaken(p)') /\ (Followed(p) => Followed(p)')
    <2>1. Newer(p) => Newer(p)'
      <3>1. CASE known > p
        <4>1. known' > p
          BY <1>13, <3>1
        <4> QED BY <4>1 DEF Newer
      <3>2. CASE doubt > p
        <4>1. CASE e.kind = "snapshot" /\ e.snap.asof >= doubt
          <5>1. 1 \in 1..Len(Frames) /\ Frames[1] = e
            BY <1>2, <1>3, <1>4
          <5>2. e.snap.asof = At(e.seq)
            BY <1>13, <4>1, <5>1 DEF OneRestore
          <5>3. known' > p
            BY <1>13, <3>2, <4>1, <5>2
          <5> QED BY <5>3 DEF Newer
        <4>2. CASE ~(e.kind = "snapshot" /\ e.snap.asof >= doubt)
          <5>1. doubt' = doubt \/ doubt' = Later(doubt, At(e.seq))
            BY <1>7, <4>2
          <5>2. doubt' \in Nat /\ doubt' >= doubt
            <6>1. Later(doubt, At(e.seq)) \in Nat /\ Later(doubt, At(e.seq)) >= doubt
              BY <1>13, LaterTyped
            <6> QED BY <1>13, <5>1, <6>1
          <5>3. doubt' > p
            BY <1>13, <3>2, <5>2
          <5> QED BY <5>3 DEF Newer
        <4> QED BY <4>1, <4>2
      <3> QED BY <1>1, <3>1, <3>2 DEF Newer
    <2>2. ASSUME NEW i \in 1..Len(Frames), At(Frames[i].seq) > p
          PROVE  Newer(p)' \/ (i > 1 /\ i - 1 \in 1..Len(Frames') /\ Frames'[i - 1] = Frames[i])
      <3>1. CASE i = 1
        <4>1. Frames[i] = e
          BY <1>2, <1>3, <3>1
        <4>2. At(e.seq) > p
          BY <2>2, <4>1
        <4>3. known' > p
          BY <1>13, <4>2
        <4> QED BY <4>3 DEF Newer
      <3>2. CASE i > 1
        BY <1>2, <1>4, <1>5, <2>2, <3>2
      <3> QED BY <2>2, <3>1, <3>2
    <2>3. ASSUME NEW i \in 1..Len(Frames), At(Frames[i].seq) > p, Frames[i].kind \notin Silent PROVE Overtaken(p)'
      <3>1. CASE Newer(p)'
        BY <3>1 DEF Overtaken, Newer
      <3>2. CASE ~Newer(p)'
        <4>1. i - 1 \in 1..Len(Frames') /\ Frames'[i - 1] = Frames[i]
          BY <2>2, <2>3, <3>2
        <4>2. \E k \in 1..Len(Frames') : At(Frames'[k].seq) > p /\ Frames'[k].kind \notin Silent
          BY <2>3, <4>1
        <4> QED BY <1>1, <4>2 DEF Overtaken, At
      <3> QED BY <3>1, <3>2
    <2>4. ASSUME NEW i \in 1..Len(Frames), At(Frames[i].seq) > p PROVE Followed(p)'
      <3>1. CASE Newer(p)'
        BY <3>1 DEF Followed, Newer
      <3>2. CASE ~Newer(p)'
        <4>1. i - 1 \in 1..Len(Frames') /\ Frames'[i - 1] = Frames[i]
          BY <2>2, <2>4, <3>2
        <4>2. \E k \in 1..Len(Frames') : At(Frames'[k].seq) > p
          BY <2>4, <4>1
        <4> QED BY <1>1, <4>2 DEF Followed, At
      <3> QED BY <3>1, <3>2
    <2>5. Newer(p) => Overtaken(p)' /\ Followed(p)'
      BY <2>1 DEF Overtaken, Followed, Newer
    <2> QED BY <2>3, <2>4, <2>5 DEF Overtaken, Followed
  <1>18. LoadIsCurrent'
    <2>1. SUFFICES ASSUME load'.at = "answered" PROVE LoadIsCurrent'
      BY DEF LoadIsCurrent
    <2>2. load' = load /\ load.at = "answered"
      BY <1>6, <1>7, <2>1 DEF ThreadTypes, WireTypes, LoadType
    <2>3. PICK s \in SnapshotType : s = load.snap[1]
      BY <2>2, AnswerIs
    <2>4. Answers(s) /\ s.asof \in Nat
      BY <2>2, <2>3 DEF Showing, LoadIsCurrent, SnapshotType
    <2>5. Answers(s)'
      BY <1>1, <1>12, <1>17, <2>4 DEF Answers, Current
    <2> QED BY <2>2, <2>3, <2>5 DEF LoadIsCurrent, Answers, Current, Overtaken, Followed, Newer, At
  <1>19. ASSUME Told'
         PROVE  /\ ~refresh /\ load.at = "none" /\ e.kind \notin {"settled", "compacted"}
                /\ \A i \in 1..Len(Frames) : i > 1 => Frames[i].kind \notin Restoring
    <2>1. load'.at = "none" /\ doubt' = 0 /\ \A i \in 1..Len(Frames') : Frames'[i].kind \notin Restoring
      BY <1>19 DEF Told, SnapshotComes
    <2>2. ~refresh /\ load.at = "none"
      BY <1>7, <2>1 DEF ThreadTypes, WireTypes, LoadType
    <2>3. e.kind # "compacted"
      BY <1>7, <1>13, <2>1, LaterTyped
    <2>4. \A i \in 1..Len(Frames) : i > 1 => Frames[i].kind \notin Restoring
      BY <1>2, <1>4, <1>5, <2>1
    <2> QED BY <1>6, <2>2, <2>3, <2>4
  <1>20. e.kind = "snapshot" =>
           /\ w.messages = e.snap.messages /\ w.queue = e.snap.queue /\ (w.run = "running" => e.snap.running)
           /\ Fresh(e.snap)
    <2>1. SUFFICES ASSUME e.kind = "snapshot"
                   PROVE  /\ w.messages = e.snap.messages /\ w.queue = e.snap.queue
                          /\ (w.run = "running" => e.snap.running) /\ Fresh(e.snap)
      OBVIOUS
    <2>2. Fresh(e.snap)
      BY <1>2, <1>3, <1>4, <2>1 DEF Showing, FreshIsCurrent
    <2> QED BY <1>8, <2>1, <2>2, RestoreIs DEF ThreadTypes, BrowserTypes
  <1>21. e.kind \in Silent => /\ w.messages = view.messages /\ w.queue = view.queue
                              /\ (e.kind # "compacting" => w.run = "failed")
    BY <1>8, SilentIs DEF ThreadTypes, BrowserTypes
  <1>22. ASSUME Calm, Told'
         PROVE  /\ e.kind \in {"snapshot"} \union Silent
                /\ \A i \in 1..Len(Frames) : i > 1 => Frames[i].kind \in Silent
    <2>1. \A i \in 1..Len(Frames) : i > 1 => Frames[i].kind \in Silent
      BY <1>13, <1>19, <1>22, OnlySilent
    <2>2. e.kind \notin Saying
      <3>1. SUFFICES ASSUME e.kind \in Saying PROVE FALSE
        OBVIOUS
      <3>2. 1 \in 1..Len(Frames) /\ Frames[1] = e
        BY <1>2, <1>3, <1>4
      <3>3. PICK j \in 1..Len(Frames) : j > 1 /\ Frames[j].kind = "settled"
        BY <1>13, <1>22, <3>1, <3>2 DEF RunsAreClosed
      <3> QED BY <2>1, <3>3 DEF Silent
    <2>3. e.kind \in {"settled", "compacted", "snapshot"} \union Silent \union Saying
      BY DEF FrameType, RestoreType, PlainType, PlainKinds, SingleKinds, EndKinds, BareKinds, Saying, Silent
    <2> QED BY <1>19, <1>22, <2>1, <2>2, <2>3
  <1>23. ViewIsCurrent'
    <2>1. SUFFICES ASSUME Calm, Told' PROVE ViewIsCurrent'
      BY <1>12 DEF ViewIsCurrent
    <2>2. view' = w
      BY <1>9, <1>19, <2>1
    <2>3. w.messages = transcript /\ \A i \in 1..Len(w.queue) : Untaken /\ post.queued /\ w.queue[i] = post.id
      <3>1. CASE e.kind = "snapshot"
        <4>1. Current(e.snap)
          BY <1>20, <1>22, <2>1, <3>1 DEF Fresh
        <4> QED BY <1>20, <3>1, <4>1 DEF Current
      <3>2. CASE e.kind \in Silent
        <4>1. ~SnapshotComes
          <5>1. SUFFICES ASSUME NEW i \in 1..Len(Frames), Frames[i].kind \in Restoring PROVE FALSE
            BY <1>19, <2>1 DEF SnapshotComes
          <5>2. i = 1
            BY <1>19, <2>1, <5>1, FramesTyped
          <5> QED BY <1>2, <1>3, <3>2, <5>1, <5>2 DEF Restoring, Silent
        <4>2. doubt = 0
          BY <1>7, <2>1, <3>2 DEF Told, Silent
        <4>3. Told
          BY <1>1, <4>1, <4>2 DEF Told
        <4> QED BY <1>21, <2>1, <3>2, <4>3 DEF Showing, ViewIsCurrent
      <3> QED BY <1>22, <2>1, <3>1, <3>2
    <2>4. ~stray => \A j \in 1..Len(optimistic') : Untaken /\ ~post.queued /\ optimistic'[j].id = post.id
      <3>1. SUFFICES ASSUME ~stray PROVE \A j \in 1..Len(optimistic') : Untaken /\ ~post.queued /\ optimistic'[j].id = post.id
        OBVIOUS
      <3>2. PICK r : r = Unconfirmed(optimistic, w)
        OBVIOUS
      <3>3. \A j \in 1..Len(r) : Untaken /\ ~post.queued /\ r[j].id = post.id
        BY <2>3, <3>1, <3>2, AheadSettles DEF Showing
      <3> QED BY <1>9, <3>2, <3>3
    <2> QED BY <1>1, <2>2, <2>3, <2>4 DEF ViewIsCurrent, Untaken
  <1>24. ShownAtRest'
    <2>1. SUFFICES ASSUME run = "idle", Told', Len(Frames') = 0, view'.run = "running" PROVE FALSE
      BY <1>1 DEF ShownAtRest
    <2>2. Calm /\ view' = w /\ Len(Frames) = 1
      BY <1>2, <1>4, <1>5, <1>9, <1>19, <2>1 DEF Calm
    <2>3. CASE e.kind = "snapshot"
      BY <1>20, <2>1, <2>2, <2>3 DEF Fresh
    <2>4. CASE e.kind \in Silent
      <3>1. e.kind = "compacting"
        BY <1>21, <2>1, <2>2, <2>4
      <3>2. 1 \in 1..Len(Frames) /\ Frames[1] = e /\ Len(Frames) = 1
        BY <1>2, <1>3, <2>2
      <3>3. \E j \in 1..Len(Frames) : 1 < j
        BY <2>1, <3>1, <3>2 DEF FlagsAreClosed, Begins, Underway
      <3> QED BY <3>2, <3>3
    <2> QED BY <1>22, <2>1, <2>2, <2>3, <2>4
  <1> QED BY <1>10, <1>11, <1>15, <1>16, <1>18, <1>23, <1>24 DEF Showing

-----------------------------------------------------------------------------
(* What is shown as busy comes to its end.                                 *)

LEMMA InitFlags == CockpitInit => FlagInv
  <1> SUFFICES ASSUME CockpitInit PROVE FlagsHold
    BY DEF FlagInv
  <1>1. Len(Frames) = 0 /\ view.busy = {} /\ ~attempt
    BY DEF CockpitInit, Frames
  <1> QED BY <1>1 DEF FlagsHold, FlagsAreClosed, Ascending, FlagsEnd, AttemptRuns

LEMMA BeginsIsFlag == \A k : Begins(k) \subseteq Flags
  BY DEF Begins, Flags

LEMMA FlagsSame ==
  ASSUME FlagsHold, UNCHANGED <<seq, run, attempt, cut>>, Frames' = Frames,
         sse'.at = "on" <=> sse.at = "on",
         view'.busy = view.busy, view'.lastSeq = view.lastSeq
  PROVE  FlagsHold'
  <1>1. \A f : Underway(f)' <=> Underway(f)
    BY DEF Underway
  <1>2. FlagsAreClosed' /\ Ascending' /\ AttemptRuns'
    BY <1>1 DEF FlagsHold, FlagsAreClosed, Ascending, AttemptRuns
  <1>3. \A f : EndComes(f)' <=> EndComes(f)
    BY DEF EndComes
  <1>4. FlagsEnd'
    BY <1>1, <1>3 DEF FlagsHold, FlagsEnd
  <1> QED BY <1>2, <1>4 DEF FlagsHold

\* With its stream, what is shown as busy is cut off.
LEMMA FlagsOffline ==
  ASSUME Len(Frames') = 0, view'.busy \subseteq cut', AttemptRuns'
  PROVE  FlagsHold'
  BY DEF FlagsHold, FlagsAreClosed, Ascending, FlagsEnd

\* An event says that something begins which does, and that it ends when it does.
LEMMA FlagsEmit ==
  ASSUME ThreadTypes, Opening, FlagsHold, NEW e \in FrameType, e.seq = seq + 1, Emit(e),
         UNCHANGED <<epoch, view, cut>>,
         \A f \in Flags : Underway(f) => Underway(f)' \/ f \in Ends(e.kind),
         \A f \in Begins(e.kind) : Underway(f)',
         AttemptRuns'
  PROVE  FlagsHold'
  <1>1. PICK m \in Nat : m = Len(Frames)
    BY FramesTyped
  <1>2. /\ \A i \in 1..m : i \in 1..Len(Frames') /\ Frames'[i] = Frames[i]
        /\ \A i \in 1..Len(Frames') : i \notin 1..m => i = m + 1 /\ Frames'[i] = e
        /\ sse.at = "on" => m + 1 \in 1..Len(Frames') /\ Frames'[m + 1] = e
    BY <1>1, EmittedFrames
  <1>3. sse.at # "on" => m = 0
    BY <1>1 DEF Opening
  <1>4. seq \in Nat /\ seq' = seq + 1 /\ sse'.at = sse.at
    BY Emitted DEF ThreadTypes, ServerTypes
  <1>5. FlagsAreClosed'
    <2>1. SUFFICES ASSUME NEW i \in 1..Len(Frames'), NEW f \in Begins(Frames'[i].kind), ~Underway(f)'
                   PROVE  \E j \in 1..Len(Frames') : i < j /\ f \in Ends(Frames'[j].kind)
      BY DEF FlagsAreClosed
    <2>2. i \in 1..m /\ Frames'[i] = Frames[i]
      BY <1>2, <2>1
    <2>3. f \in Flags /\ sse.at = "on"
      BY <1>3, <2>1, <2>2, BeginsIsFlag
    <2>4. CASE Underway(f)
      <3>1. f \in Ends(e.kind) /\ i < m + 1
        BY <1>1, <2>1, <2>2, <2>3, <2>4
      <3> QED BY <1>2, <2>3, <3>1
    <2>5. CASE ~Underway(f)
      <3>1. PICK j \in 1..m : i < j /\ f \in Ends(Frames[j].kind)
        BY <1>1, <2>1, <2>2, <2>5 DEF FlagsHold, FlagsAreClosed
      <3> QED BY <1>2, <3>1
    <2> QED BY <2>4, <2>5
  <1>6. Ascending'
    <2>1. \A i \in 1..m : Frames[i].seq <= seq /\ Frames[i].seq \in Nat
      BY <1>1, FramesTyped DEF FlagsHold, Ascending
    <2>2. \A i, j \in 1..m : i < j => Frames[i].seq < Frames[j].seq
      BY <1>1 DEF FlagsHold, Ascending
    <2>3. ASSUME NEW i \in 1..Len(Frames') PROVE Frames'[i].seq <= seq'
      <3>1. CASE i \in 1..m
        BY <1>2, <1>4, <2>1, <3>1
      <3>2. CASE i \notin 1..m
        BY <1>2, <1>4, <3>2
      <3> QED BY <3>1, <3>2
    <2>4. ASSUME NEW i \in 1..Len(Frames'), NEW j \in 1..Len(Frames'), i < j
          PROVE  Frames'[i].seq < Frames'[j].seq
      <3>1. CASE j \in 1..m
        <4>1. i \in 1..m
          BY <1>1, <2>4, <3>1
        <4> QED BY <1>2, <2>2, <2>4, <3>1, <4>1
      <3>2. CASE j \notin 1..m
        <4>1. j = m + 1 /\ Frames'[j].seq = seq + 1
          BY <1>2, <3>2
        <4>2. i \in 1..m
          BY <1>2, <2>4, <4>1
        <4>3. Frames'[i] = Frames[i] /\ Frames[i].seq <= seq /\ Frames[i].seq \in Nat
          BY <1>2, <2>1, <4>2
        <4> QED BY <1>4, <4>1, <4>3
      <3> QED BY <3>1, <3>2
    <2> QED BY <2>3, <2>4 DEF Ascending
  <1>7. FlagsEnd'
    <2>1. SUFFICES ASSUME NEW f \in view.busy \ cut
                   PROVE  sse'.at = "on" /\ view'.lastSeq <= seq' /\ (Underway(f)' \/ EndComes(f)')
      BY DEF FlagsEnd
    <2>2. sse.at = "on" /\ view.lastSeq <= seq /\ view.lastSeq \in Nat /\ (Underway(f) \/ EndComes(f)) /\ f \in Flags
      BY DEF FlagsHold, FlagsEnd, ThreadTypes, BrowserTypes, ViewType
    <2>3. view'.lastSeq = view.lastSeq /\ view.lastSeq <= seq' /\ view.lastSeq < seq + 1
      BY <1>4, <2>2
    <2>4. CASE Underway(f)
      <3>1. CASE f \in Ends(e.kind)
        <4>1. PICK j \in 1..Len(Frames') : Frames'[j] = e
          BY <1>2, <2>2
        <4>2. f \in Ends(Frames'[j].kind) /\ Frames'[j].seq > view'.lastSeq
          BY <1>4, <2>2, <2>3, <3>1, <4>1
        <4>3. EndComes(f)'
          BY <4>2 DEF EndComes
        <4> QED BY <1>4, <2>2, <2>3, <4>3
      <3> QED BY <1>4, <2>2, <2>3, <2>4, <3>1
    <2>5. CASE EndComes(f)
      <3>1. PICK j \in 1..m : f \in Ends(Frames[j].kind) /\ Frames[j].seq > view.lastSeq
        BY <1>1, <2>5 DEF EndComes
      <3>2. EndComes(f)'
        BY <1>2, <2>3, <3>1 DEF EndComes
      <3> QED BY <1>4, <2>2, <2>3, <3>2
    <2> QED BY <2>2, <2>4, <2>5
  <1> QED BY <1>5, <1>6, <1>7 DEF FlagsHold

\* What the reducer makes of the flags.
LEMMA ReduceFlags ==
  ASSUME NEW v \in ViewType, NEW e \in FrameType, NEW heard,
         heard <=> (e.kind = "snapshot" \/ e.seq > v.lastSeq)
  PROVE  /\ Reduce(v, e).busy = IF heard THEN (v.busy \ Ends(e.kind)) \union Begins(e.kind) ELSE v.busy
         /\ Reduce(v, e).lastSeq = Later(v.lastSeq, e.seq)
  <1>1. PICK w \in ViewType :
          w = IF e.kind = "snapshot" \/ e.seq > v.lastSeq THEN Reduced(v, e) ELSE v
    BY ReducedTyped
  <1>2. PICK b : b = IF e.kind = "snapshot" \/ e.seq > v.lastSeq
                     THEN (v.busy \ Ends(e.kind)) \union Begins(e.kind) ELSE v.busy
    OBVIOUS
  <1>3. PICK n : n = Later(v.lastSeq, e.seq)
    OBVIOUS
  <1>4. \E x : Reduce(v, e) = [w EXCEPT !.busy = b, !.run = x, !.lastSeq = n]
    BY <1>1, <1>2, <1>3 DEF Reduce
  <1>5. \A x : [w EXCEPT !.busy = b, !.run = x, !.lastSeq = n].busy = b
               /\ [w EXCEPT !.busy = b, !.run = x, !.lastSeq = n].lastSeq = n
    BY <1>1 DEF ViewType
  <1> QED BY <1>2, <1>3, <1>4, <1>5

LEMMA DispatchFlags ==
  ASSUME BrowserTypes, NEW e \in FrameType, NEW refresh \in BOOLEAN, Dispatch(e, refresh)
  PROVE  view'.busy = Reduce(view, e).busy /\ view'.lastSeq = Reduce(view, e).lastSeq
  <1>1. PICK w \in ViewType : w = Reduce(view, e)
    BY ReduceTyped DEF BrowserTypes
  <1>2. view' = IF refresh THEN [w EXCEPT !.loaded = "loading"] ELSE w
    BY <1>1 DEF Dispatch
  <1>3. view'.busy = w.busy /\ view'.lastSeq = w.lastSeq
    BY <1>1, <1>2 DEF ViewType
  <1> QED BY <1>1, <1>3

LEMMA DeliverFlags ==
  ASSUME ThreadTypes, FlagsHold, Deliver
  PROVE  FlagsHold'
  <1>1. /\ UNCHANGED <<seq, run, attempt>> /\ sse.at = "on" /\ Frames # <<>>
        /\ cut' = cut \intersect view'.busy
    BY DEF Deliver, supervisorVars, sessionVars, Frames
  <1>2. PICK g \in Seq(FrameType) : g = Frames
    BY FramesTyped
  <1>3. PICK e \in FrameType : e = g[1] /\ e = Head(sse.frames) /\ e.seq \in Nat
    BY <1>1, <1>2, FirstFrame DEF ThreadTypes, WireTypes, Frames
  <1>4. /\ Len(g) \in Nat /\ Len(g) >= 1 /\ Len(Tail(g)) = Len(g) - 1
        /\ \A i \in 1..Len(Tail(g)) : i + 1 \in 1..Len(g) /\ Tail(g)[i] = g[i + 1]
        /\ \A i \in 1..Len(g) : i > 1 => i - 1 \in 1..Len(Tail(g)) /\ Tail(g)[i - 1] = g[i]
    <2>1. g # <<>>
      BY <1>1, <1>2
    <2> QED BY <2>1, HeadTailProperties
  <1>5. Frames' = Tail(g) /\ sse'.at = "on"
    BY <1>1, <1>2 DEF Deliver, Frames, ThreadTypes, WireTypes, StreamType
  <1>6. PICK heard \in BOOLEAN : heard <=> (e.kind = "snapshot" \/ e.seq > view.lastSeq)
    OBVIOUS
  <1>7. /\ view'.busy = IF heard THEN (view.busy \ Ends(e.kind)) \union Begins(e.kind) ELSE view.busy
        /\ view'.lastSeq = Later(view.lastSeq, e.seq)
    <2>1. PICK refresh \in BOOLEAN : Dispatch(e, refresh)
      BY <1>3 DEF Deliver
    <2>2. view'.busy = Reduce(view, e).busy /\ view'.lastSeq = Reduce(view, e).lastSeq
      BY <2>1, DispatchFlags DEF ThreadTypes
    <2> QED BY <1>6, <2>2, ReduceFlags DEF ThreadTypes, BrowserTypes
  <1>8. \A f : Underway(f)' <=> Underway(f)
    BY <1>1 DEF Underway
  <1>9. /\ \A i \in 1..Len(g) : g[i].seq <= seq /\ g[i].seq \in Nat
        /\ \A i, j \in 1..Len(g) : i < j => g[i].seq < g[j].seq
    BY <1>2, FramesTyped DEF FlagsHold, Ascending
  <1>10. Ascending'
    <2>1. ASSUME NEW i \in 1..Len(Tail(g)) PROVE Tail(g)[i].seq <= seq
      BY <1>4, <1>9
    <2>2. ASSUME NEW i \in 1..Len(Tail(g)), NEW j \in 1..Len(Tail(g)), i < j
          PROVE  Tail(g)[i].seq < Tail(g)[j].seq
      <3>1. i + 1 \in 1..Len(g) /\ j + 1 \in 1..Len(g) /\ i + 1 < j + 1
        BY <1>4, <2>2
      <3>2. g[i + 1].seq < g[j + 1].seq
        BY <1>9, <3>1
      <3> QED BY <1>4, <3>2
    <2> QED BY <1>1, <1>5, <2>1, <2>2 DEF Ascending
  <1>11. FlagsAreClosed'
    <2>1. SUFFICES ASSUME NEW i \in 1..Len(Tail(g)), NEW f \in Begins(Tail(g)[i].kind), ~Underway(f)
                   PROVE  \E j \in 1..Len(Tail(g)) : i < j /\ f \in Ends(Tail(g)[j].kind)
      BY <1>5, <1>8 DEF FlagsAreClosed
    <2>2. i + 1 \in 1..Len(g) /\ f \in Begins(g[i + 1].kind)
      BY <1>4, <2>1
    <2>3. PICK j \in 1..Len(g) : i + 1 < j /\ f \in Ends(g[j].kind)
      BY <1>2, <2>1, <2>2 DEF FlagsHold, FlagsAreClosed
    <2>4. j > 1 /\ i < j - 1
      BY <1>4, <2>1, <2>3
    <2>5. j - 1 \in 1..Len(Tail(g)) /\ Tail(g)[j - 1] = g[j]
      BY <1>4, <2>3, <2>4
    <2> QED BY <2>3, <2>4, <2>5
  <1>12. view.lastSeq \in Nat /\ 1 \in 1..Len(g) /\ e.seq <= seq /\ seq \in Nat
    <2>1. view.lastSeq \in Nat /\ seq \in Nat
      BY DEF ThreadTypes, BrowserTypes, ViewType, ServerTypes
    <2>2. 1 \in 1..Len(g)
      BY <1>4
    <2>3. g[1].seq <= seq
      BY <1>9, <2>2
    <2> QED BY <1>3, <2>1, <2>2, <2>3
  <1>13. ASSUME NEW j \in 1..Len(g), NEW f, f \in Ends(g[j].kind), j > 1, g[j].seq > view.lastSeq
         PROVE  EndComes(f)'
    <2>1. g[j].seq > e.seq
      BY <1>3, <1>9, <1>12, <1>13
    <2>2. g[j].seq > Later(view.lastSeq, e.seq)
      BY <1>13, <2>1 DEF Later
    <2>3. j - 1 \in 1..Len(Tail(g)) /\ Tail(g)[j - 1] = g[j]
      BY <1>4, <1>13
    <2>4. PICK h \in 1..Len(Tail(g)) : Tail(g)[h] = g[j]
      BY <2>3
    <2> QED BY <1>5, <1>7, <1>13, <2>2, <2>4 DEF EndComes
  <1>14. FlagsEnd'
    <2>1. SUFFICES ASSUME NEW f \in view'.busy, f \notin cut'
                   PROVE  sse'.at = "on" /\ view'.lastSeq <= seq' /\ (Underway(f)' \/ EndComes(f)')
      BY DEF FlagsEnd
    <2>2. f \notin cut
      BY <1>1, <2>1
    <2>3. CASE f \in view.busy /\ ~(heard /\ f \in Ends(e.kind))
      <3>1. view.lastSeq <= seq /\ (Underway(f) \/ EndComes(f))
        BY <2>2, <2>3 DEF FlagsHold, FlagsEnd
      <3>2. view'.lastSeq <= seq'
        BY <1>1, <1>7, <1>12, <3>1 DEF Later
      <3>3. CASE EndComes(f)
        <4>1. PICK j \in 1..Len(g) : f \in Ends(g[j].kind) /\ g[j].seq > view.lastSeq
          BY <1>2, <3>3 DEF EndComes
        <4>2. j # 1
          BY <1>3, <1>6, <2>3, <4>1
        <4>3. j > 1
          BY <1>4, <4>1, <4>2
        <4> QED BY <1>5, <1>13, <3>2, <4>1, <4>3
      <3> QED BY <1>5, <1>8, <3>1, <3>2, <3>3
    <2>4. CASE heard /\ f \in Begins(e.kind)
      <3>1. e.kind # "snapshot"
        BY <2>4 DEF Begins
      <3>2. e.seq > view.lastSeq
        BY <1>6, <2>4, <3>1
      <3>3. view'.lastSeq = e.seq
        BY <1>7, <1>12, <1>3, <3>2 DEF Later
      <3>4. Underway(f) \/ \E j \in 1..Len(g) : 1 < j /\ f \in Ends(g[j].kind)
        BY <1>2, <1>3, <1>12, <2>4 DEF FlagsHold, FlagsAreClosed
      <3>5. CASE \E j \in 1..Len(g) : 1 < j /\ f \in Ends(g[j].kind)
        <4>1. PICK j \in 1..Len(g) : 1 < j /\ f \in Ends(g[j].kind)
          BY <3>5
        <4>2. g[j].seq > e.seq /\ g[j].seq \in Nat
          BY <1>3, <1>9, <1>12, <4>1
        <4>3. g[j].seq > view.lastSeq
          BY <1>3, <1>12, <3>2, <4>2
        <4> QED BY <1>1, <1>5, <1>12, <1>13, <3>3, <4>1, <4>3
      <3> QED BY <1>1, <1>5, <1>8, <1>12, <3>3, <3>4, <3>5
    <2> QED BY <1>7, <2>1, <2>3, <2>4
  <1>15. AttemptRuns'
    BY <1>1 DEF FlagsHold, AttemptRuns
  <1> QED BY <1>10, <1>11, <1>14, <1>15 DEF FlagsHold

LEMMA AttachFlags ==
  ASSUME OpensInv, ThreadTypes, Showing, sessionFile = "present", FlagsHold, Attach
  PROVE  FlagsHold'
  <1>1. UNCHANGED <<seq, run, attempt, view, cut>> /\ opener["events"] # "unknown"
    BY DEF Attach, sessionVars, clientVars, Showing, Opening, Openers
  <1>2. CASE ~Subscribing
    <2>1. UNCHANGED sse
      BY <1>2 DEF Attach
    <2> QED BY <1>1, <2>1, FlagsSame DEF Frames
  <1>3. CASE Subscribing
    <2>1. sse'.frames = IF sse.fresh THEN <<SnapshotEvent(Snapshot, seq)>> ELSE <<>>
      <3>1. sse' = [sse EXCEPT !.at = "on", !.attached = TRUE,
                      !.frames = IF sse.fresh THEN <<SnapshotEvent(Snapshot, seq)>> ELSE <<>>]
        BY <1>1, <1>3 DEF Attach
      <3> QED BY <3>1 DEF ThreadTypes, WireTypes, StreamType
    <2>2. view.busy \subseteq cut /\ AttemptRuns
      BY <1>3 DEF FlagsHold, FlagsEnd, Subscribing
    <2>3. view'.busy \subseteq cut' /\ AttemptRuns'
      BY <1>1, <2>2 DEF AttemptRuns
    <2>4. CASE ~sse.fresh
      <3>1. Len(Frames') = 0
        BY <2>1, <2>4 DEF Frames
      <3> QED BY <2>3, <3>1, FlagsOffline
    <2>5. CASE sse.fresh
      <3>1. PICK e : e = SnapshotEvent(Snapshot, seq)
        OBVIOUS
      <3>2. e.kind = "snapshot" /\ e.seq = seq
        BY <3>1 DEF SnapshotEvent
      <3>3. Len(Frames') = 1 /\ Frames'[1] = e
        BY <2>1, <2>5, <3>1 DEF Frames
      <3>4. FlagsAreClosed'
        BY <3>2, <3>3 DEF FlagsAreClosed, Begins
      <3>5. Ascending'
        BY <1>1, <3>2, <3>3 DEF Ascending, ThreadTypes, ServerTypes
      <3>6. FlagsEnd'
        BY <2>3 DEF FlagsEnd
      <3> QED BY <2>3, <3>4, <3>5, <3>6 DEF FlagsHold
    <2> QED BY <2>4, <2>5
  <1> QED BY <1>2, <1>3

LEMMA OfflineFlags ==
  ASSUME ThreadTypes, Showing, FlagsHold, ServerRestarts \/ Drop \/ Disconnect
  PROVE  FlagsHold'
  <1>1. Dropped.frames = <<>> /\ Dropped \in StreamType
    BY DroppedTypes DEF Dropped, ThreadTypes, WireTypes, StreamType
  <1>2. [Dropped EXCEPT !.at = "off"].frames = <<>>
    BY <1>1 DEF StreamType
  <1>3. sse.at # "on" => sse.frames = <<>>
    BY DEF Showing, Opening, Frames
  <1>4. sse'.frames = <<>>
    BY <1>1, <1>2, <1>3 DEF ServerRestarts, Drop, Disconnect
  <1>5. view' = view /\ cut' = cut \union view.busy
    BY DEF ServerRestarts, Drop, Disconnect, CutOff, clientVars
  <1>6. AttemptRuns'
    BY DEF ServerRestarts, Drop, Disconnect, sessionVars, FlagsHold, AttemptRuns
  <1>7. Len(Frames') = 0
    BY <1>4 DEF Frames
  <1>8. view'.busy \subseteq cut'
    BY <1>5
  <1> QED BY <1>6, <1>7, <1>8, FlagsOffline

LEMMA OpenFlags ==
  ASSUME OpensInv, ThreadTypes, Showing, FlagsHold,
         \/ \E k \in Openers : Look(k) \/ Create(k)
         \/ StreamArrives \/ PostArrives \/ UNCHANGED cockpitVars
  PROVE  FlagsHold'
  <1>1. UNCHANGED <<run, attempt, sse, view, cut>> /\ (UNCHANGED seq \/ \E k \in Openers : Create(k))
    BY DEF Look, Create, StreamArrives, PostArrives, cockpitVars, supervisorVars, sessionVars, clientVars, history
  <1>2. ASSUME NEW k \in Openers, Create(k)
        PROVE  seq = 0 /\ seq' = 0
    <2>1. k \in PendingOpens
      BY <1>2 DEF Create, PendingOpens
    <2>2. ~record
      BY <2>1 DEF OpensInv
    <2> QED BY <1>2, <2>2 DEF Create, Showing, Opening
  <1>3. UNCHANGED seq
    BY <1>1, <1>2
  <1> QED BY <1>1, <1>3, FlagsSame DEF Frames

\* What the controller does to its view leaves the flags alone.
LEMMA ViewFlags ==
  ASSUME ThreadTypes, Showing, FlagsHold,
         Mount \/ Refresh \/ GetThread \/ Loaded \/ LoadFails \/ Send \/ PostReturns
  PROVE  FlagsHold'
  <1>1. UNCHANGED <<seq, run, attempt, cut>>
    BY DEF Mount, Refresh, GetThread, Loaded, LoadFails, Send, PostReturns,
           supervisorVars, sessionVars, history
  <1>2. Frames' = Frames /\ (sse'.at = "on" <=> sse.at = "on")
    <2>1. CASE Mount
      BY <2>1, SubscribeIs DEF Mount
    <2>2. CASE Send
      BY <2>2, SubscribeIs DEF Send
    <2>3. CASE Refresh \/ GetThread \/ Loaded \/ LoadFails \/ PostReturns
      BY <2>3 DEF Refresh, GetThread, Loaded, LoadFails, PostReturns, Frames
    <2> QED BY <2>1, <2>2, <2>3
  <1>3. view'.busy = view.busy /\ view'.lastSeq = view.lastSeq
    <2>0. view \in ViewType
      BY DEF ThreadTypes, BrowserTypes
    <2>1. CASE Mount \/ Refresh
      BY <2>0, <2>1 DEF Mount, Refresh, Load, ViewType
    <2>2. CASE GetThread
      BY <2>2 DEF GetThread, clientVars
    <2>3. CASE LoadFails
      BY <2>0, <2>3 DEF LoadFails, ViewType
    <2>4. CASE Send
      BY <2>0, <2>4 DEF Send, ViewType
    <2>5. CASE PostReturns
      <3>1. view' = view \/ TakeBack
        BY <2>5 DEF PostReturns
      <3>2. CASE TakeBack /\ post.queued
        <4>1. view' = [view EXCEPT !.queue = Without(view.queue, {post.id})]
          BY <3>2 DEF TakeBack
        <4> QED BY <2>0, <4>1 DEF ViewType
      <3>3. CASE TakeBack /\ ~post.queued
        <4>1. view' = [view EXCEPT !.run = "failed"]
          BY <3>3 DEF TakeBack
        <4> QED BY <2>0, <4>1 DEF ViewType
      <3> QED BY <3>1, <3>2, <3>3
    <2>6. CASE Loaded
      <3>1. PICK s \in SnapshotType : s = load.snap[1]
        BY <2>6, AnswerIs DEF Loaded
      <3>2. PICK e \in FrameType : e = SnapshotEvent(s, 0) /\ e.kind = "snapshot" /\ e.seq = 0
        <4>1. SnapshotEvent(s, 0) \in FrameType
          BY SnapshotEventTyped
        <4> QED BY <4>1 DEF SnapshotEvent
      <3>3. Dispatch(e, FALSE)
        BY <2>6, <3>1, <3>2 DEF Loaded
      <3>4. view'.busy = Reduce(view, e).busy /\ view'.lastSeq = Reduce(view, e).lastSeq
        BY <3>3, DispatchFlags DEF ThreadTypes
      <3>5. Reduce(view, e).busy = (view.busy \ Ends(e.kind)) \union Begins(e.kind)
            /\ Reduce(view, e).lastSeq = Later(view.lastSeq, 0)
        BY <2>0, <3>2, ReduceFlags
      <3>6. Ends(e.kind) = {} /\ Begins(e.kind) = {}
        BY <3>2 DEF Ends, Begins
      <3>7. Later(view.lastSeq, 0) = view.lastSeq
        BY <2>0 DEF Later, ViewType
      <3> QED BY <3>4, <3>5, <3>6, <3>7
    <2> QED BY <2>1, <2>2, <2>3, <2>4, <2>5, <2>6
  <1> QED BY <1>1, <1>2, <1>3, FlagsSame

LEMMA PromptFlags ==
  ASSUME OpensInv, ThreadTypes, Showing, sessionFile = "present", FlagsHold, Prompt
  PROVE  FlagsHold'
  <1>1. UNCHANGED <<epoch, view, cut, attempt>> /\ run # "compacting" /\ opener["send"] # "unknown"
    BY DEF Prompt, sessionVars, clientVars, history, Showing, Opening, Openers
  <1>2. post.id \in Nat /\ pending \in Seq(Nat)
    BY DEF ThreadTypes, WireTypes, PostType, TalkTypes
  <1>3. CASE run = "idle" /\ Begin("begin", post.id, pending)
    <2> DEFINE e == Event("begin", <<User(post.id)>>, pending)
    <2>1. Emit(e) /\ run' = "thinking"
      BY <1>3 DEF Begin
    <2>2. e \in FrameType /\ e.seq = seq + 1 /\ e.kind = "begin"
      <3>1. User(post.id) \in MessageType
        BY <1>2, UserTyped
      <3>2. <<User(post.id)>> \in Seq(MessageType) /\ Len(<<User(post.id)>>) = 1
        BY <3>1
      <3>3. e \in FrameType
        BY <1>2, <3>2, EventTyped DEF PlainKinds, SingleKinds, EndKinds, BareKinds, ThreadTypes
      <3> QED BY <3>3, EventIs
    <2> HIDE DEF e
    <2>3. \A f \in Flags : Underway(f) => Underway(f)'
      BY <1>1, <1>3 DEF Underway
    <2>4. Begins(e.kind) = {} /\ AttemptRuns'
      BY <2>1, <2>2 DEF Begins, AttemptRuns
    <2> QED BY <1>1, <2>1, <2>2, <2>3, <2>4, FlagsEmit DEF Showing
  <1>4. CASE UNCHANGED run /\ pending' = Append(pending, post.id) /\ Emit(Event("queue", <<>>, pending'))
    <2> DEFINE e == Event("queue", <<>>, pending')
    <2>1. e \in FrameType /\ e.seq = seq + 1 /\ e.kind = "queue"
      <3>1. pending' \in Seq(Nat)
        BY <1>2, <1>4, AppendProperties
      <3>2. e \in FrameType
        BY <3>1, EventTyped, EmptyTyped DEF PlainKinds, SingleKinds, EndKinds, BareKinds, ThreadTypes
      <3> QED BY <3>2, EventIs
    <2> HIDE DEF e
    <2>2. Emit(e)
      BY <1>4 DEF e
    <2>3. \A f \in Flags : Underway(f) => Underway(f)'
      BY <1>1, <1>4 DEF Underway
    <2>4. Begins(e.kind) = {} /\ AttemptRuns'
      BY <1>1, <1>4, <2>1 DEF Begins, FlagsHold, AttemptRuns
    <2> QED BY <1>1, <2>1, <2>2, <2>3, <2>4, FlagsEmit DEF Showing
  <1>5. CASE UNCHANGED run /\ Emit(Event("error", <<>>, <<>>))
    <2> DEFINE e == Event("error", <<>>, <<>>)
    <2>1. e \in FrameType /\ e.seq = seq + 1 /\ e.kind = "error"
      BY ErrorTyped, EventIs DEF ThreadTypes
    <2> HIDE DEF e
    <2>2. Emit(e)
      BY <1>5 DEF e
    <2>3. \A f \in Flags : Underway(f) => Underway(f)'
      BY <1>1, <1>5 DEF Underway
    <2>4. Begins(e.kind) = {} /\ AttemptRuns'
      BY <1>1, <1>5, <2>1 DEF Begins, FlagsHold, AttemptRuns
    <2> QED BY <1>1, <2>1, <2>2, <2>3, <2>4, FlagsEmit DEF Showing
  <1>6. \/ run = "idle" /\ Begin("begin", post.id, pending)
        \/ UNCHANGED run /\ pending' = Append(pending, post.id) /\ Emit(Event("queue", <<>>, pending'))
        \/ UNCHANGED run /\ Emit(Event("error", <<>>, <<>>))
    BY <1>1 DEF Prompt, sessionVars
  <1> QED BY <1>3, <1>4, <1>5, <1>6

LEMMA RunFlags ==
  ASSUME ThreadTypes, ThreadTypes', Showing, FlagsHold, RunStep
  PROVE  FlagsHold'
  <1>1. /\ UNCHANGED <<epoch, view, cut>>
        /\ StartReply \/ UpdateReply \/ EndReply \/ FailReply \/ RetryOver \/ Settle
    BY DEF RunStep, clientVars, history
  <1>2. run # "compacting"
    BY <1>1 DEF StartReply, UpdateReply, EndReply, FailReply, RetryOver, Settle
  <1>3. CASE StartReply \/ UpdateReply \/ EndReply \/ FailReply \/ RetryOver
    <2>1. replies' \in Nat
      BY DEF ThreadTypes, HistoryTypes
    <2>2. PICK e \in FrameType :
            /\ e.kind # "snapshot" /\ e.seq = seq + 1 /\ Emit(e)
            /\ e.kind # "compacting" /\ (e.kind = "retry" => attempt')
            /\ attempt => attempt' \/ e.kind \in {"recovered", "over"}
      BY <1>3, <2>1, ReplyEvents
    <2>3. ASSUME NEW f \in Flags, Underway(f) PROVE Underway(f)' \/ f \in Ends(e.kind)
      <3>1. f = "retry" /\ attempt
        BY <1>2, <2>3 DEF Underway, Flags
      <3>2. CASE e.kind \in {"recovered", "over"}
        BY <3>1, <3>2 DEF Ends
      <3> QED BY <2>2, <3>1, <3>2 DEF Underway
    <2>4. ASSUME NEW f \in Begins(e.kind) PROVE Underway(f)'
      <3>1. f = "retry" /\ e.kind = "retry"
        BY <2>2, <2>4 DEF Begins
      <3> QED BY <2>2, <3>1 DEF Underway
    <2>5. AttemptRuns'
      BY <1>3 DEF StartReply, UpdateReply, EndReply, FailReply, RetryOver, AttemptRuns
    <2> QED BY <1>1, <2>2, <2>3, <2>4, <2>5, FlagsEmit DEF Showing
  <1>4. CASE Settle
    <2>1. ~attempt /\ ~attempt'
      BY <1>4 DEF Settle, FlagsHold, AttemptRuns
    <2>2. AttemptRuns' /\ \A f \in Flags : ~Underway(f)
      BY <1>2, <2>1 DEF AttemptRuns, Underway
    <2>3. CASE pending # <<>>
      <3> DEFINE e == Event("resume", <<User(Head(pending))>>, Tail(pending))
      <3>1. Begin("resume", Head(pending), Tail(pending)) /\ UNCHANGED <<attempt, rev>>
        BY <1>4, <2>3 DEF Settle
      <3>2. Head(pending) \in Nat /\ Tail(pending) \in Seq(Nat)
        BY <2>3, HeadTailProperties DEF ThreadTypes, TalkTypes
      <3>3. e \in FrameType /\ e.seq = seq + 1 /\ e.kind = "resume" /\ Emit(e)
        <4>1. e \in FrameType
          BY <3>1, <3>2, BeginTypes DEF ThreadTypes
        <4> QED BY <3>1, <4>1, EventIs DEF Begin
      <3>4. Begins(e.kind) = {}
        BY <3>3 DEF Begins
      <3> HIDE DEF e
      <3> QED BY <1>1, <2>2, <3>3, <3>4, FlagsEmit DEF Showing
    <2>4. CASE pending = <<>>
      <3> DEFINE e == Event("settled", <<>>, <<>>)
      <3>1. e \in FrameType
        BY EventTyped, EmptyTyped DEF PlainKinds, SingleKinds, EndKinds, BareKinds, ThreadTypes
      <3>2. e.seq = seq + 1 /\ e.kind = "settled" /\ Emit(e)
        BY <1>4, <2>4, EventIs DEF Settle
      <3>3. Begins(e.kind) = {}
        BY <3>2 DEF Begins
      <3> HIDE DEF e
      <3> QED BY <1>1, <2>2, <3>1, <3>2, <3>3, FlagsEmit DEF Showing
    <2> QED BY <2>3, <2>4
  <1> QED BY <1>1, <1>3, <1>4

LEMMA CompactFlags ==
  ASSUME ThreadTypes, Showing, FlagsHold, Compact \/ Compacted
  PROVE  FlagsHold'
  <1>1. UNCHANGED <<epoch, view, cut, attempt>> /\ ~attempt
    BY DEF Compact, Compacted, clientVars, history, FlagsHold, AttemptRuns
  <1>2. AttemptRuns' /\ ~Underway("retry")
    BY <1>1 DEF AttemptRuns, Underway
  <1>3. PICK k \in {"compacting", "compacted", "uncompacted"} :
          /\ Emit(Event(k, <<>>, <<>>))
          /\ k = "compacting" => run = "idle" /\ run' = "compacting"
          /\ k # "compacting" => run = "compacting"
    BY DEF Compact, Compacted
  <1> DEFINE e == Event(k, <<>>, <<>>)
  <1>4. e \in FrameType
    BY EventTyped, EmptyTyped DEF PlainKinds, SingleKinds, EndKinds, BareKinds, ThreadTypes
  <1>5. e.seq = seq + 1 /\ e.kind = k /\ Emit(e)
    BY <1>3, EventIs
  <1> HIDE DEF e
  <1>6. ASSUME NEW f \in Flags, Underway(f) PROVE f \in Ends(e.kind)
    <2>1. f = "compaction" /\ run = "compacting"
      BY <1>2, <1>6 DEF Underway, Flags
    <2>2. k # "compacting"
      BY <1>3, <2>1
    <2> QED BY <1>5, <2>1, <2>2 DEF Ends
  <1>7. ASSUME NEW f \in Begins(e.kind) PROVE Underway(f)'
    <2>1. k = "compacting" /\ f = "compaction"
      BY <1>5, <1>7 DEF Begins
    <2> QED BY <1>3, <2>1 DEF Underway
  <1> QED BY <1>1, <1>2, <1>4, <1>5, <1>6, <1>7, FlagsEmit DEF Showing

-----------------------------------------------------------------------------
\* A session that is deleted is never there again.
LEMMA NextShowing ==
  ASSUME OpensInv, ShowingInv, FlagInv, [CockpitNext]_cockpitVars
  PROVE  ShowingInv' /\ FlagInv'
  <1>1. ThreadTypes'
    BY NextTypes DEF ShowingInv
  <1>2. ASSUME sessionFile' = "present" PROVE Showing' /\ FlagsHold'
    <2>1. /\ ~DeleteThread /\ ~Unlinked
          /\ sessionFile = "present"
      BY <1>2 DEF DeleteThread, Unlinked, CockpitNext, Progress, Look, Create, StreamArrives, Attach,
                  Deliver, Prompt, RunStep, Compacted, GetThread, Loaded, PostArrives, PostReturns,
                  LoadFails, ServerRestarts, Drop, Compact, Mount, Disconnect, Refresh, Send,
                  cockpitVars, supervisorVars
    <2>2. ThreadTypes /\ Showing /\ FlagsHold /\ FlagsAreClosed
      BY <2>1 DEF ShowingInv, FlagInv, FlagsHold
    <2>3. CASE (\E k \in Openers : Look(k) \/ Create(k)) \/ StreamArrives \/ PostArrives \/ UNCHANGED cockpitVars
      BY <2>1, <2>2, <2>3, OpenShows, OpenFlags
    <2>4. CASE Attach
      BY <2>1, <2>2, <2>4, AttachShows, AttachFlags
    <2>5. CASE Prompt
      BY <2>1, <2>2, <2>5, PromptShows, PromptFlags
    <2>6. CASE ServerRestarts \/ Drop \/ Disconnect
      BY <2>1, <2>2, <2>6, OfflineSteps, OfflineFlags
    <2>7. CASE Deliver
      BY <2>2, <2>7, DeliverShows, DeliverFlags
    <2>8. CASE Loaded \/ LoadFails \/ GetThread
      BY <2>2, <2>8, LoadedShows, LoadFailsShows, GetShows, ViewFlags
    <2>9. CASE Mount \/ Refresh \/ Send \/ PostReturns
      BY <2>2, <2>9, LookShows, SendShows, PostReturnsShows, ViewFlags
    <2>10. CASE RunStep
      BY <1>1, <2>2, <2>10, RunShows, RunFlags
    <2>11. CASE Compact \/ Compacted
      BY <2>2, <2>11, CompactShows, CompactedShows, CompactFlags
    <2> QED BY <2>1, <2>3, <2>4, <2>5, <2>6, <2>7, <2>8, <2>9, <2>10, <2>11 DEF CockpitNext, Progress
  <1> QED BY <1>1, <1>2 DEF ShowingInv, FlagInv

\* When the session rests and nothing is on its way, the browser shows the
\* session as it is, and not as running, compacting or retrying
\* (threadState.ts, ThreadController.ts, ThreadSupervisor.ts), unless
\* something it was not told of has had no snapshot since, a message shown
\* ahead cannot be recognised, or a compaction or a retry was shown when its
\* stream was dropped.
THEOREM ViewComesToRest == CockpitSpec => []ViewSettles
  <1>1. CockpitInit => OpensInv /\ ShowingInv /\ FlagInv
    BY InitOpens, InitShowing, InitFlags
  <1>2. OpensInv /\ ShowingInv /\ FlagInv /\ [CockpitNext]_cockpitVars
          => OpensInv' /\ ShowingInv' /\ FlagInv'
    BY NextOpens, NextShowing
  <1> QED BY <1>1, <1>2, ShowingSettles, PTL DEF CockpitSpec
=============================================================================
