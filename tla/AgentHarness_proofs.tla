------------------------ MODULE AgentHarness_proofs -------------------------
(***************************************************************************)
(* What TLAPS proves about AgentHarness.tla, for any number of operations, *)
(* turns, messages, writes and faults.                                     *)
(*                                                                         *)
(* Whatever the application does: types, and that no user message is       *)
(* recorded twice.  For a caller that awaits each operation before it      *)
(* starts the next (~Overlap): the phase and the promise of waitForIdle()  *)
(* cover every run, writes that had to wait are saved once and in order    *)
(* and behind their turn, what was promised for the next turn is kept, and *)
(* requests are made of what the session holds.                            *)
(*                                                                         *)
(* OneRunAtATime comes first; HarnessInv, below it, adds what waits and    *)
(* who holds it, and one conjunct per property.                            *)
(***************************************************************************)
EXTENDS AgentHarness, SequenceTheorems, WellFoundedInduction, NaturalsInduction, TLAPS


\* What one step of the running operation t may do: it moves t only, and a
\* step that leaves t on its run was taken there and keeps the phase.
Moves(t) ==
  /\ Running(t)
  /\ ops' = ops
  /\ pc' \in [Ops -> Labels] /\ back' \in [Ops -> Labels]
  /\ pc'[t] # "none" /\ (pc'[t] \in {"flush", "shift"} => back'[t] # "none")
  /\ \A u \in Ops : u # t => pc'[u] = pc[u]
  /\ OnRun(t)' => OnRun(t) /\ phase' = phase /\ runPromise' = runPromise

\* Such a step keeps the invariant: every other operation is over or unborn.
LEMMA StepOfOne ==
  ASSUME OneRunAtATime, NEW t \in Ops, Moves(t)
  PROVE  OneRunAtATime'
  <1>1. \A u \in Ops : u # t => pc[u] \in {"none", "done"} /\ pc'[u] = pc[u]
    BY DEF OneRunAtATime, Running, Started, Over, Moves
  <1>2. t <= ops
    BY DEF OneRunAtATime, Running, Started, Ops, Moves
  <1>3. \A u \in Ops : u > ops' => pc'[u] = "none"
    BY <1>1, <1>2 DEF OneRunAtATime, Ops, Moves
  <1>6. \A u \in Ops : pc'[u] \in {"flush", "shift"} => back'[u] # "none"
    BY <1>1 DEF Moves
  <1>4. ASSUME NEW u \in Ops, NEW v \in Ops, Running(u)', Running(v)'
        PROVE  u = v
    BY <1>1, <1>4 DEF Running, Started, Over
  <1>5. ASSUME NEW u \in Ops, OnRun(u)'
        PROVE  phase' = "turn" /\ runPromise' = u
    <2>1. u = t
      BY <1>1, <1>5 DEF OnRun, InRun
    <2> QED
      BY <2>1, <1>5 DEF OneRunAtATime, Moves
  <1> QED
    BY <1>3, <1>4, <1>5, <1>6 DEF OneRunAtATime, Moves

\* The start of a run, up to the first request.
LEMMA StartMoves ==
  ASSUME OneRunAtATime, NEW t \in Ops,
         \/ BuildContext(t) \/ Snapshot(t) \/ QueueUpdateSent(t) \/ StartRun(t)
         \/ RecordMessage(t) \/ AllRecorded(t)
  PROVE  Moves(t)
  <1> USE DEF OneRunAtATime, Moves, Running, Started, Over, OnRun, InRun, Labels, MayThrow,
              stateVars, runVars, histVars, opVars
  <1>1. CASE BuildContext(t)
    BY <1>1 DEF BuildContext
  <1>2. CASE Snapshot(t)
    BY <1>2 DEF Snapshot
  <1>3. CASE QueueUpdateSent(t)
    BY <1>3 DEF QueueUpdateSent, Goto
  <1>4. CASE StartRun(t)
    BY <1>4 DEF StartRun
  <1>5. CASE RecordMessage(t)
    BY <1>5 DEF RecordMessage
  <1>6. CASE AllRecorded(t)
    BY <1>6 DEF AllRecorded, Goto
  <1> QED
    BY <1>1, <1>2, <1>3, <1>4, <1>5, <1>6

\* The loop of a run, its save points and its flushes.
LEMMA LoopMoves ==
  ASSUME OneRunAtATime, NEW t \in Ops,
         \/ PollSteering(t) \/ DrainSent(t) \/ Inject(t) \/ PollFollowUps(t) \/ Stop(t)
         \/ Respond(t) \/ TurnEnd(t) \/ SavePoint(t) \/ Refresh(t)
         \/ FlushAppend(t) \/ FlushShift(t) \/ Flushed(t)
  PROVE  Moves(t)
  <1> USE DEF OneRunAtATime, Moves, Running, Started, Over, OnRun, InRun, Labels, MayThrow,
              stateVars, runVars, histVars, opVars
  <1>1. CASE PollSteering(t)
    BY <1>1 DEF PollSteering, Take
  <1>2. CASE DrainSent(t) \/ Inject(t)
    BY <1>2 DEF DrainSent, Inject, Goto
  <1>3. CASE PollFollowUps(t)
    BY <1>3 DEF PollFollowUps, Take
  <1>4. CASE Stop(t)
    BY <1>4 DEF Stop, FlushThen
  <1>5. CASE Respond(t)
    BY <1>5 DEF Respond
  <1>6. CASE TurnEnd(t)
    BY <1>6 DEF TurnEnd, FlushThen
  <1>7. CASE SavePoint(t)
    BY <1>7 DEF SavePoint, FlushThen
  <1>8. CASE Refresh(t)
    BY <1>8 DEF Refresh
  <1>9. CASE FlushAppend(t) \/ FlushShift(t)
    BY <1>9 DEF FlushAppend, FlushShift, Goto
  <1>10. CASE Flushed(t)
    BY <1>10 DEF Flushed, Goto
  <1> QED
    BY <1>1, <1>2, <1>3, <1>4, <1>5, <1>6, <1>7, <1>8, <1>9, <1>10

\* The end of a run, its failure, and the structural operations.
LEMMA EndMoves ==
  ASSUME OneRunAtATime, NEW t \in Ops,
         \/ BecomeIdle(t) \/ ListenersDone(t) \/ ClearController(t) \/ Catch(t)
         \/ Settle(t) \/ ReportFailure(t) \/ StructuralWork(t) \/ Release(t)
  PROVE  Moves(t)
  <1> USE DEF OneRunAtATime, Moves, Running, Started, Over, OnRun, InRun, Labels, MayThrow,
              stateVars, runVars, histVars, opVars
  <1>1. CASE BecomeIdle(t)
    BY <1>1 DEF BecomeIdle, Goto
  <1>2. CASE ListenersDone(t)
    BY <1>2 DEF ListenersDone, FlushThen
  <1>3. CASE ClearController(t)
    BY <1>3 DEF ClearController, Goto
  <1>4. CASE Catch(t) \/ Settle(t)
    BY <1>4 DEF Catch, Settle, Goto
  <1>5. CASE ReportFailure(t)
    BY <1>5 DEF ReportFailure, FlushThen
  <1>6. CASE StructuralWork(t) \/ Release(t)
    BY <1>6 DEF StructuralWork, Release, Goto
  <1> QED
    BY <1>1, <1>2, <1>3, <1>4, <1>5, <1>6

\* A rejected await takes the operation off its run, to some handler.
LEMMA ThrowMoves ==
  ASSUME OneRunAtATime, NEW t \in Ops, Throw(t)
  PROVE  Moves(t)
  <1> USE DEF OneRunAtATime, Labels, MayThrow, stateVars, runVars
  <1>1. Running(t) /\ ops' = ops
    BY DEF Throw, Running, Started, Over
  <1>2. Handler(t) \in {"catch", "clear", "final", "failure"}
    BY DEF Handler
  <1>3. /\ back' = back \/ back' = [back EXCEPT ![t] = "failure"]
                        \/ back' = [back EXCEPT ![t] = "clear"]
        /\ \E l \in {"flush", "catch", "clear", "failure"} :
             /\ pc' = [pc EXCEPT ![t] = l]
             /\ l = "flush" => back'[t] \in {"failure", "clear"}
        /\ phase' = phase /\ runPromise' = runPromise
    BY <1>2 DEF Throw, FlushThen
  <1>4. ~OnRun(t)'
    BY <1>3 DEF OnRun, InRun
  <1> QED
    BY <1>1, <1>3, <1>4 DEF Moves

-----------------------------------------------------------------------------
\* An operation starts alone: the caller has awaited the one before it.
LEMMA StartAlone ==
  ASSUME OneRunAtATime, ~Overlap, Prompt \/ Compact \/ NavigateTree
  PROVE  OneRunAtATime'
  <1> DEFINE t == ops + 1
  <1>1. /\ t \in Ops /\ ops' = t
        /\ \A u \in Ops : pc[u] \in {"none", "done"}
    BY HarnessAssumption
    DEF Prompt, Compact, NavigateTree, StartStructural, MayStart, OneRunAtATime, Ops,
        Running, Started, Over
  <1>2. PICK l \in {"snapshot", "compaction", "branch_summary"} :
          /\ pc' = [pc EXCEPT ![t] = l] /\ back' = back
          /\ l = "snapshot" => phase' = "turn" /\ runPromise' = t
    BY DEF Prompt, Compact, NavigateTree, StartStructural
  <1>3. pc' \in [Ops -> Labels] /\ back' \in [Ops -> Labels]
    BY <1>1, <1>2 DEF OneRunAtATime, Labels, MayThrow
  <1>4. \A u \in Ops : pc'[u] = IF u = t THEN l ELSE pc[u]
    BY <1>1, <1>2 DEF OneRunAtATime
  <1>5. ops' \in 0 .. MaxOps /\ \A u \in Ops : u > ops' => pc'[u] = "none"
    BY <1>1, <1>4, HarnessAssumption DEF OneRunAtATime, Ops
  <1>6. \A u, v \in Ops : Running(u)' /\ Running(v)' => u = v
    BY <1>1, <1>4 DEF Running, Started, Over
  <1>7. \A u \in Ops : pc'[u] \in {"flush", "shift"} => back'[u] # "none"
    BY <1>1, <1>4
  <1>8. \A u \in Ops : OnRun(u)' => phase' = "turn" /\ runPromise' = u
    BY <1>1, <1>2, <1>4 DEF OnRun, InRun
  <1> QED
    BY <1>3, <1>5, <1>6, <1>7, <1>8 DEF OneRunAtATime

\* What the application does beside the operations leaves them where they are.
LEMMA OthersKeep ==
  ASSUME OneRunAtATime,
         UNCHANGED <<phase, runPromise, ops, pc, back>>
  PROVE  OneRunAtATime'
  BY DEF OneRunAtATime, Running, Started, Over, OnRun

LEMMA NextKeeps ==
  ASSUME OneRunAtATime, ~Overlap, [Next]_vars
  PROVE  OneRunAtATime'
  <1>1. CASE Prompt \/ Compact \/ NavigateTree
    BY <1>1, StartAlone
  <1>2. CASE \/ \E type \in {"config", "note"} : WriteWhileBusy(type) \/ WriteWhileIdle(type)
             \/ \E e \in inFlight : WriteDone(e) \/ WriteFails(e)
    BY <1>2, OthersKeep
    DEF WriteWhileBusy, WriteWhileIdle, WriteDone, WriteFails, opVars, runVars, histVars
  <1>3. CASE Steer \/ FollowUp \/ NextTurn \/ Abort
    BY <1>3, OthersKeep DEF Steer, FollowUp, NextTurn, Abort, stateVars, opVars, runVars
  <1>4. ASSUME NEW t \in Ops, OpStep(t) \/ Throw(t)
        PROVE  OneRunAtATime'
    <2>1. Moves(t)
      BY <1>4, StartMoves, LoopMoves, EndMoves, ThrowMoves DEF OpStep
    <2> QED
      BY <2>1, StepOfOne
  <1>5. CASE UNCHANGED vars
    BY <1>5, OthersKeep DEF vars, stateVars, opVars, runVars, histVars
  <1> QED
    BY <1>1, <1>2, <1>3, <1>4, <1>5, HarnessAssumption DEF Next, Application

\* For callers that await, the phase tells of every run until its agent_end,
\* and waitForIdle() has its promise to wait for.
THEOREM AwaitedRunsAreCovered ==
  ASSUME ~Overlap
  PROVE  Spec => [](PhaseCoversRun /\ IdleWaitCoversRun)
  <1>1. Init => OneRunAtATime
    BY HarnessAssumption
    DEF Init, OneRunAtATime, Labels, Ops, OnRun, InRun, Running, Started
  <1>2. OneRunAtATime /\ [Next]_vars => OneRunAtATime'
    BY NextKeeps
  <1>3. OneRunAtATime => PhaseCoversRun /\ IdleWaitCoversRun
    BY DEF OneRunAtATime, OnRun, PhaseCoversRun, IdleWaitCoversRun
  <1> QED
    BY <1>1, <1>2, <1>3, PTL DEF Spec
-----------------------------------------------------------------------------
\* Nobody writes beside a run: what was begun while idle has been appended.
NothingBeside ==
  /\ phase # "idle" => inFlight = {}
  /\ inFlight = {} \/ \E e \in inFlight : inFlight = {e}

\* The first of q queued writes are in s, each once and in order; the rest are u.
SavedInOrder(s, u, q) ==
  /\ Len(u) <= q
  /\ {s[i].seq : i \in {j \in 1 .. Len(s) : s[j].seq > 0}} = 1 .. (q - Len(u))
  /\ \A i, j \in {k \in 1 .. Len(s) : s[k].seq > 0} : i < j => s[i].seq < s[j].seq
  /\ \A i \in 1 .. Len(u) : u[i].seq = q - Len(u) + i

InOrder ==
  /\ SavedInOrder(session, Unflushed, queued)
  /\ \A t \in Ops : pc[t] = "shift" => pendingWrites # <<>>

\* What waits and what an operation holds: messages by the lane they came by, and
\* the writes of the application.  An operation returns from a flush to where its
\* turn goes on, to the end of its run or to the report of a failure.
Of(types) == [type : types, n : Nat, seq : {0}]
Writes    == [type : {"config", "note"}, n : Nat, seq : Nat]

Opening(s) == \E q \in Seq(Of({"nextTurn"})), p \in Of({"prompt"}) : s = Append(q, p)

Holds(t) ==
  /\ pc[t] \in {"snapshot", "resolve"} => \E p \in Of({"prompt"}) : held[t] = <<p>>
  /\ pc[t] \in {"queued", "hook"} => Opening(held[t])
  /\ pc[t] = "announce" => held[t] = <<>> \/ Opening(held[t])
  /\ pc[t] \in {"drained", "inner", "inject"} =>
       held[t] \in Seq(Of({"steer"})) \union Seq(Of({"followUp"}))
  /\ pc[t] \notin {"snapshot", "resolve", "queued", "hook", "announce", "drained", "inner", "inject"} =>
       held[t] = <<>>

Returns(t) ==
  pc[t] \in {"flush", "shift"} =>
    back[t] \in {"savePoint", "lastSave", "refresh", "idle", "clear", "failure", "failSave"}

Kinds ==
  /\ steerQueue \in Seq(Of({"steer"})) /\ followUpQueue \in Seq(Of({"followUp"}))
  /\ nextTurnQueue \in Seq(Of({"nextTurn"})) /\ pendingWrites \in Seq(Writes)
  /\ inFlight \subseteq Of({"config", "note"})
  /\ \A t \in Ops : Holds(t) /\ Returns(t) /\ (t > ops => pc[t] = "none")

\* Every user message is in one place: a queue, the hands of one operation, or the
\* session.
Distinct(s) == \A i, j \in 1 .. Len(s) : s[i].n = s[j].n => i = j
Recorded(s) == {s[i].n : i \in {j \in 1 .. Len(s) : s[j].type \in Lanes}}
Once(s) ==
  \A i, j \in 1 .. Len(s) : s[i].type \in Lanes /\ s[j].type \in Lanes /\ s[i].n = s[j].n => i = j

Separate(Q, F, N, R, H, max) ==
  /\ Q \intersect F = {} /\ Q \intersect N = {} /\ F \intersect N = {}
  /\ R \intersect Q = {} /\ R \intersect F = {} /\ R \intersect N = {}
  /\ \A t \in Ops : H[t] \intersect (Q \union F \union N \union R) = {}
  /\ \A t, u \in Ops : t # u => H[t] \intersect H[u] = {}
  /\ Q \union F \union N \union R \subseteq 1 .. max
  /\ \A t \in Ops : H[t] \subseteq 1 .. max

Apart ==
  /\ Once(session)
  /\ Distinct(steerQueue) /\ Distinct(followUpQueue) /\ Distinct(nextTurnQueue)
  /\ \A t \in Ops : Distinct(held[t])
  /\ Separate(Numbers(steerQueue), Numbers(followUpQueue), Numbers(nextTurnQueue),
              Recorded(session), [t \in Ops |-> Numbers(held[t])], accepted)

\* The next turn: while its messages are being recorded, nothing comes between.
Followed(s) ==
  \A i \in 1 .. Len(s) - 1 : s[i].type = "nextTurn" => s[i + 1].type \in {"nextTurn", "prompt"}

Ends(s, type) == s # <<>> /\ s[Len(s)].type = type

NextTurnHeld ==
  /\ \A n \in promised :
       n \in NextTurns(nextTurnQueue) \union NextTurns(session) \union lost
             \union UNION {NextTurns(held[t]) : t \in Ops}
  /\ lost = {} => Followed(session)
  /\ lost = {} /\ Ends(session, "nextTurn") => \E t \in Ops : pc[t] = "announce" /\ held[t] # <<>>

\* What a request is made of: from the snapshot on, the context of the run is that of
\* the session, and no newer config is recorded than the one the run uses.
Newest(s, k) == \A i \in 1 .. Len(s) : s[i].type = "config" => s[i].n <= k

Knows(t) ==
  /\ pc[t] \in {"resolve", "queued", "hook", "poll", "drained", "inner", "inject", "request",
                "resolveNext"} => ctx[t] = Context(session)
  /\ pc[t] = "announce" => ctx[t] = Context(session) \o held[t]
  /\ pc[t] \in {"queued", "hook", "announce", "poll", "drained", "inner", "inject", "request"} =>
       Newest(session, used[t])

Known ==
  /\ config <= writes
  /\ Newest(session, config) /\ Newest(pendingWrites, config)
  /\ \A e \in inFlight : e.n = writes
  /\ \A t \in Ops : Knows(t)

\* Where a write lands: a run that goes to flush has answered what it was given.
Placed(s) == \A i \in 1 .. Len(s) : s[i].seq > 0 => i > 1 /\ s[i - 1].type \notin Lanes
Answered(s) == s # <<>> /\ s[Len(s)].type \notin Lanes

Answers(t) ==
  /\ pc[t] \in {"flush", "shift", "savePoint", "lastSave", "turnEnd", "lastTurnEnd", "idle",
                "listeners", "refresh", "resolveNext"} => Answered(session)
  /\ pc[t] \in {"poll", "drained", "inner"} /\ ~hasMore[t] => Answered(session)
  /\ pc[t] = "announce" => hasMore[t]
  /\ pc[t] \notin {"catch", "failure", "failSave"} /\ failed[t] = "no"
  /\ pc[t] \in {"flush", "shift"} => back[t] \notin {"failure", "failSave"}

InPlace == faults = 0 => Placed(session) /\ \A t \in Ops : Answers(t)

\* What is left when nothing fails: a harness that becomes idle has flushed.
Leaves(t) ==
  /\ pc[t] \notin {"compaction", "branch_summary", "release"}
  /\ pc[t] \in {"listeners", "clear", "settle"} \/ (pc[t] \in {"flush", "shift"} /\ back[t] = "clear")
       => phase = "idle"
  /\ pc[t] \in {"clear", "settle"} => pendingWrites = <<>>

Settles ==
  faults = 0 /\ ~Structural =>
    /\ \A t \in Ops : Leaves(t)
    /\ (\A t \in Ops : ~Running(t)) => phase = "idle" /\ pendingWrites = <<>>

HarnessInv ==
  /\ TypeOK /\ Kinds /\ Apart
  /\ OneRunAtATime /\ NothingBeside /\ InOrder /\ NextTurnHeld /\ Known /\ InPlace /\ Settles

AnyInv == TypeOK /\ Kinds /\ Apart
-----------------------------------------------------------------------------
(* The context a session makes.                                            *)

LEMMA UpTo ==
  ASSUME NEW n \in Nat, NEW G, 0 \in G,
         \A m \in 0 .. n : m < n /\ m \in G => m + 1 \in G
  PROVE  \A m \in 0 .. n : m \in G
<1> DEFINE B == {m \in 0 .. n : m \notin G}
           R == {ss \in Nat \X Nat : ss[1] < ss[2]}
<1> SUFFICES ASSUME B # {} PROVE FALSE
  OBVIOUS
<1>1. IsWellFoundedOn(R, Nat)
  BY NatLessThanWellFounded DEF OpToRel
<1>2. B \subseteq Nat
  OBVIOUS
<1>3. PICK m \in B : \A k \in B : <<k, m>> \notin R
  <2> HIDE DEF R, B
  <2> QED
    BY <1>1, <1>2, WFMin
<1>4. m \in 0 .. n /\ m \notin G /\ m # 0
  OBVIOUS
<1>5. m - 1 \in 0 .. n /\ m - 1 < n /\ m - 1 + 1 = m
  BY <1>4
<1>6. m - 1 \notin B
  <2>1. <<m - 1, m>> \in Nat \X Nat /\ <<m - 1, m>>[1] < <<m - 1, m>>[2]
    BY <1>4, <1>5
  <2> QED
    BY <1>3, <2>1
<1> QED
  BY <1>4, <1>5, <1>6

\* What one entry adds.
Added(c, e) == IF e.type = "config" THEN c ELSE Append(c, e)

\* C holds the contexts of the beginnings of s up to m.
Builds(C, s, m) ==
  C = [k \in 0 .. m |-> IF k = 0 THEN <<>> ELSE Added(C[k - 1], s[k])]

LEMMA Built ==
  ASSUME NEW s, NEW n \in Nat
  PROVE  \E C : Builds(C, s, n)
<1> DEFINE G == {m \in 0 .. n : \E C : Builds(C, s, m)}
<1>1. 0 \in G
  <2>1. Builds([k \in 0 .. 0 |-> <<>>], s, 0)
    BY DEF Builds
  <2> QED
    BY <2>1
<1>2. ASSUME NEW m \in 0 .. n, m < n, m \in G
      PROVE  m + 1 \in G
  <2>1. PICK C : Builds(C, s, m)
    BY <1>2
  <2> DEFINE D == [k \in 0 .. (m + 1) |-> IF k = m + 1 THEN Added(C[m], s[m + 1]) ELSE C[k]]
  <2>2. \A k \in 0 .. (m + 1) : D[k] = IF k = 0 THEN <<>> ELSE Added(D[k - 1], s[k])
    <3> SUFFICES ASSUME NEW k \in 0 .. (m + 1)
                 PROVE  D[k] = IF k = 0 THEN <<>> ELSE Added(D[k - 1], s[k])
      OBVIOUS
    <3>1. CASE k = m + 1
      <4>1. k - 1 = m /\ k # 0 /\ m \in 0 .. (m + 1) /\ m # m + 1
        BY <3>1
      <4>2. D[k - 1] = C[m] /\ D[k] = Added(C[m], s[m + 1])
        BY <3>1, <4>1
      <4> QED
        BY <3>1, <4>1, <4>2
    <3>2. CASE k # m + 1
      <4>1. k \in 0 .. m /\ D[k] = C[k]
        BY <3>2
      <4>2. C[k] = IF k = 0 THEN <<>> ELSE Added(C[k - 1], s[k])
        BY <2>1, <4>1 DEF Builds
      <4>3. k # 0 => D[k - 1] = C[k - 1]
        BY <4>1
      <4> QED
        BY <4>1, <4>2, <4>3
    <3> QED
      BY <3>1, <3>2
  <2>3. D = [k \in 0 .. (m + 1) |-> D[k]]
    OBVIOUS
  <2>4. Builds(D, s, m + 1)
    <3> HIDE DEF D
    <3> QED
      BY <2>2, <2>3 DEF Builds
  <2>5. m + 1 \in 0 .. n
    BY <1>2
  <2> QED
    BY <2>4, <2>5
<1>3. n \in G
  <2> HIDE DEF G
  <2> QED
    BY <1>1, <1>2, UpTo
<1> QED
  BY <1>3

LEMMA BuildsAlike ==
  ASSUME NEW s, NEW r, NEW n \in Nat, NEW m \in Nat, n <= m, NEW C, NEW D,
         Builds(C, s, n), Builds(D, r, m), \A k \in 1 .. n : s[k] = r[k]
  PROVE  \A k \in 0 .. n : C[k] = D[k]
<1> DEFINE G == {k \in 0 .. n : C[k] = D[k]}
<1>0. /\ \A k \in 0 .. n : C[k] = IF k = 0 THEN <<>> ELSE Added(C[k - 1], s[k])
      /\ \A k \in 0 .. m : D[k] = IF k = 0 THEN <<>> ELSE Added(D[k - 1], r[k])
  BY DEF Builds
<1>1. 0 \in G
  BY <1>0
<1>2. ASSUME NEW k \in 0 .. n, k < n, k \in G
      PROVE  k + 1 \in G
  <2>1. k + 1 \in 0 .. n /\ k + 1 \in 0 .. m /\ k + 1 \in 1 .. n /\ k + 1 - 1 = k /\ k + 1 # 0
    BY <1>2
  <2>2. C[k + 1] = Added(C[k], s[k + 1]) /\ D[k + 1] = Added(D[k], r[k + 1])
    BY <1>0, <2>1
  <2> QED
    BY <1>2, <2>1, <2>2
<1> HIDE DEF G
<1>3. \A k \in 0 .. n : k \in G
  BY <1>1, <1>2, UpTo
<1> QED
  BY <1>3 DEF G

LEMMA ContextBuilt ==
  ASSUME NEW s, Len(s) \in Nat
  PROVE  \E C : Builds(C, s, Len(s)) /\ Context(s) = C[Len(s)]
<1>1. PICK n \in Nat : n = Len(s)
  OBVIOUS
<1> DEFINE C == CHOOSE f : f = [k \in 0 .. n |->
                  IF k = 0 THEN <<>>
                  ELSE IF s[k].type = "config" THEN f[k - 1] ELSE Append(f[k - 1], s[k])]
<1>2. Context(s) = C[n]
  BY <1>1 DEF Context
<1>3. Builds(C, s, n)
  BY Built DEF Builds, Added
<1> HIDE DEF C
<1> QED
  BY <1>1, <1>2, <1>3

\* An entry is in the context unless it only configures.
LEMMA ContextAppended ==
  ASSUME NEW s \in Seq(EntrySet), NEW e \in EntrySet
  PROVE  Context(Append(s, e)) = Added(Context(s), e)
<1>1. PICK n \in Nat : n = Len(s)
  OBVIOUS
<1>2. PICK r : r = Append(s, e)
  OBVIOUS
<1>3. Len(r) = n + 1 /\ r[n + 1] = e /\ \A k \in 1 .. n : s[k] = r[k]
  BY <1>1, <1>2
<1>4. PICK C : Builds(C, s, n) /\ Context(s) = C[n]
  BY <1>1, ContextBuilt
<1>5. PICK m \in Nat : m = n + 1
  OBVIOUS
<1>6. PICK D : Builds(D, r, m) /\ Context(r) = D[m]
  BY <1>3, <1>5, ContextBuilt
<1>7. C[n] = D[n]
  <2>1. n <= m /\ n \in 0 .. n
    BY <1>5
  <2>2. \A k \in 0 .. n : C[k] = D[k]
    BY <1>3, <1>4, <1>6, <2>1, BuildsAlike
  <2> QED
    BY <2>1, <2>2
<1>8. m \in 0 .. m /\ m # 0 /\ m - 1 = n
  BY <1>5
<1>9. D[m] = Added(D[n], r[m])
  BY <1>6, <1>8 DEF Builds
<1> QED
  BY <1>2, <1>3, <1>4, <1>5, <1>6, <1>7, <1>9

LEMMA ContextTyped ==
  ASSUME NEW s \in Seq(EntrySet)
  PROVE  Context(s) \in Seq(EntrySet)
<1>1. PICK n \in Nat : n = Len(s)
  OBVIOUS
<1>2. PICK C : Builds(C, s, n) /\ Context(s) = C[n]
  BY <1>1, ContextBuilt
<1> DEFINE G == {k \in 0 .. n : C[k] \in Seq(EntrySet)}
<1>3. \A k \in 0 .. n : C[k] = IF k = 0 THEN <<>> ELSE Added(C[k - 1], s[k])
  BY <1>2 DEF Builds
<1>4. 0 \in G
  <2>1. C[0] = <<>> /\ 0 \in 0 .. n
    BY <1>3
  <2>2. C[0] \in Seq(EntrySet)
    BY <2>1
  <2> QED
    BY <2>1, <2>2
<1>5. ASSUME NEW k \in 0 .. n, k < n, k \in G
      PROVE  k + 1 \in G
  <2>1. k + 1 \in 0 .. n /\ k + 1 \in 1 .. n /\ k + 1 - 1 = k /\ k + 1 # 0
    BY <1>5
  <2>2. C[k + 1] = Added(C[k], s[k + 1]) /\ s[k + 1] \in EntrySet
    BY <1>1, <1>3, <2>1
  <2>3. C[k + 1] \in Seq(EntrySet)
    BY <1>5, <2>2 DEF Added
  <2> QED
    BY <2>1, <2>3
<1> HIDE DEF G
<1>6. \A k \in 0 .. n : k \in G
  BY <1>4, <1>5, UpTo
<1> QED
  BY <1>2, <1>6 DEF G

-----------------------------------------------------------------------------
(* Types.                                                                  *)

LEMMA LabelFacts ==
  /\ MayThrow \subseteq Labels /\ InRun \subseteq Labels
  /\ {"none", "shift", "idle", "clear", "catch", "settle", "done", "release",
      "compaction", "branch_summary"} \subseteq Labels
  /\ {"flush", "listeners", "failure", "failSave", "poll", "drained", "inner"} \subseteq Labels
BY DEF MayThrow, InRun, Labels

LEMMA DrainTypes ==
  ASSUME NEW mode, NEW q \in Seq(EntrySet)
  PROVE  Drained(mode, q) \in Seq(EntrySet) /\ Remaining(mode, q) \in Seq(EntrySet)
BY DEF Drained, Remaining

LEMMA EntryTypes ==
  /\ \A t \in Ops : Entry("assistant", t, 0) \in EntrySet
  /\ \A t \in Ops : Entry("compaction", t, 0) \in EntrySet
  /\ \A t \in Ops : Entry("branch_summary", t, 0) \in EntrySet
  /\ \A lane \in Lanes : \A n \in Nat : User(lane, n) \in EntrySet
  /\ \A type \in {"config", "note"} : \A n, s \in Nat : Entry(type, n, s) \in EntrySet
BY DEF Entry, User, EntrySet, Lanes, Ops

LEMMA NumbersTyped ==
  ASSUME NEW s \in Seq(EntrySet)
  PROVE  Numbers(s) \subseteq Nat
<1>1. \A i \in 1 .. Len(s) : s[i] \in EntrySet
  OBVIOUS
<1>2. \A i \in 1 .. Len(s) : s[i].n \in Nat
  BY <1>1 DEF EntrySet
<1> QED
  BY <1>2 DEF Numbers

LEMMA TypesStart ==
  ASSUME TypeOK, NEW t \in Ops,
         \/ BuildContext(t) \/ Snapshot(t) \/ QueueUpdateSent(t) \/ StartRun(t)
         \/ RecordMessage(t) \/ AllRecorded(t)
  PROVE  TypeOK'
<1> USE DEF TypeOK, stateVars, queueVars, runVars, snapVars, opVars, histVars
<1>0. /\ {"resolve", "resolveNext", "hook", "queued", "announce", "poll", "request"} \subseteq Labels
      /\ session \in Seq(EntrySet)
  BY LabelFacts DEF MayThrow
<1>1. CASE BuildContext(t)
  <2>1. Context(session) \in Seq(EntrySet)
    BY ContextTyped
  <2> QED
    BY <1>0, <1>1, <2>1 DEF BuildContext
<1>2. CASE Snapshot(t)
  <2>1. nextTurnQueue \o held[t] \in Seq(EntrySet)
    OBVIOUS
  <2>2. held' \in [Ops -> Seq(EntrySet)] /\ used' \in [Ops -> Nat]
    BY <1>2, <2>1 DEF Snapshot
  <2>3. pc' \in [Ops -> Labels]
    BY <1>0, <1>2 DEF Snapshot
  <2>4. nextTurnQueue' \in Seq(EntrySet)
    BY <1>2 DEF Snapshot
  <2> QED
    BY <1>2, <2>2, <2>3, <2>4 DEF Snapshot
<1>3. CASE QueueUpdateSent(t)
  BY <1>0, <1>3 DEF QueueUpdateSent, Goto
<1>4. CASE StartRun(t)
  <2>1. ctx[t] \o held[t] \in Seq(EntrySet)
    OBVIOUS
  <2>2. ctx' \in [Ops -> Seq(EntrySet)]
    BY <1>4, <2>1 DEF StartRun
  <2>3. pc' \in [Ops -> Labels] /\ hasMore' \in [Ops -> BOOLEAN] /\ controller' \in Ops
    BY <1>0, <1>4 DEF StartRun
  <2> QED
    BY <1>4, <2>2, <2>3 DEF StartRun
<1>5. CASE RecordMessage(t)
  <2>1. Head(held[t]) \in EntrySet /\ Tail(held[t]) \in Seq(EntrySet)
    BY <1>5 DEF RecordMessage
  <2>2. Append(session, Head(held[t])) \in Seq(EntrySet)
    BY <2>1
  <2> QED
    <3>1. Append(ctx[t], Head(held[t])) \in Seq(EntrySet)
      BY <2>1
    <3>2. ctx' \in [Ops -> Seq(EntrySet)]
      BY <1>5, <3>1 DEF RecordMessage
    <3>3. held' \in [Ops -> Seq(EntrySet)] /\ session' \in Seq(EntrySet)
      BY <1>5, <2>1, <2>2 DEF RecordMessage
    <3> QED
      BY <1>5, <3>2, <3>3 DEF RecordMessage
<1>6. CASE AllRecorded(t)
  BY <1>0, <1>6 DEF AllRecorded, Goto
<1> QED
  BY <1>1, <1>2, <1>3, <1>4, <1>5, <1>6

LEMMA TypesLoop ==
  ASSUME TypeOK, NEW t \in Ops,
         \/ PollSteering(t) \/ DrainSent(t) \/ Inject(t) \/ PollFollowUps(t) \/ Stop(t)
         \/ Respond(t) \/ TurnEnd(t) \/ SavePoint(t) \/ Refresh(t)
         \/ FlushAppend(t) \/ FlushShift(t) \/ Flushed(t)
  PROVE  TypeOK'
<1> USE DEF TypeOK, stateVars, queueVars, runVars, snapVars, opVars, histVars
<1>0. {"inner", "drained", "inject", "flush", "idle", "turnEnd", "lastTurnEnd", "savePoint",
       "lastSave", "refresh", "poll", "shift"} \subseteq Labels
  BY LabelFacts DEF MayThrow
<1>1. CASE PollSteering(t)
  BY <1>0, <1>1, DrainTypes DEF PollSteering, Take
<1>2. CASE DrainSent(t) \/ Inject(t)
  BY <1>0, <1>2 DEF DrainSent, Inject, Goto
<1>3. CASE PollFollowUps(t)
  BY <1>0, <1>3, DrainTypes DEF PollFollowUps, Take
<1>4. CASE Stop(t)
  BY <1>0, <1>4 DEF Stop, FlushThen
<1>5. CASE Respond(t)
  <2>1. Entry("assistant", t, 0) \in EntrySet
    BY EntryTypes
  <2>2. Append(session, Entry("assistant", t, 0)) \in Seq(EntrySet)
    BY <2>1
  <2> QED
    <3>1. Append(ctx[t], Entry("assistant", t, 0)) \in Seq(EntrySet)
      BY <2>1
    <3>2. ctx' \in [Ops -> Seq(EntrySet)] /\ session' \in Seq(EntrySet)
      BY <1>5, <2>2, <3>1 DEF Respond
    <3>3. turns[t] + 1 \in Nat
      OBVIOUS
    <3>4. turns' \in [Ops -> Nat]
      BY <1>5, <3>3 DEF Respond
    <3>5. PICK more \in BOOLEAN, last \in BOOLEAN :
            /\ hasMore' = [hasMore EXCEPT ![t] = more]
            /\ pc' = [pc EXCEPT ![t] = IF last THEN "lastTurnEnd" ELSE "turnEnd"]
      BY <1>5 DEF Respond
    <3>6. pc' \in [Ops -> Labels]
      BY <1>0, <3>5
    <3>7. hasMore' \in [Ops -> BOOLEAN]
      BY <3>5
    <3> QED
      BY <1>5, <3>2, <3>4, <3>6, <3>7 DEF Respond
<1>6. CASE TurnEnd(t)
  BY <1>0, <1>6 DEF TurnEnd, FlushThen
<1>7. CASE SavePoint(t)
  BY <1>0, <1>7 DEF SavePoint, FlushThen
<1>8. CASE Refresh(t)
  BY <1>0, <1>8 DEF Refresh
<1>9. CASE FlushAppend(t)
  <2>1. Head(pendingWrites) \in EntrySet
    BY <1>9 DEF FlushAppend
  <2>2. Append(session, Head(pendingWrites)) \in Seq(EntrySet)
    BY <2>1
  <2> QED
    BY <1>0, <1>9, <2>2 DEF FlushAppend, Goto
<1>10. CASE FlushShift(t)
  <2>1. pendingWrites' \in Seq(EntrySet)
    BY <1>10 DEF FlushShift
  <2>2. pc' \in [Ops -> Labels]
    BY <1>0, <1>10 DEF FlushShift, Goto
  <2> QED
    BY <1>10, <2>1, <2>2 DEF FlushShift, Goto
<1>11. CASE Flushed(t)
  BY <1>11 DEF Flushed, Goto
<1> QED
  BY <1>1, <1>2, <1>3, <1>4, <1>5, <1>6, <1>7, <1>8, <1>9, <1>10, <1>11

LEMMA TypesEnd ==
  ASSUME TypeOK, NEW t \in Ops,
         \/ BecomeIdle(t) \/ ListenersDone(t) \/ ClearController(t) \/ Catch(t)
         \/ Settle(t) \/ ReportFailure(t) \/ StructuralWork(t) \/ Release(t)
  PROVE  TypeOK'
<1> USE DEF TypeOK, stateVars, queueVars, runVars, snapVars, opVars, histVars
<1>0. {"listeners", "flush", "clear", "catch", "settle", "done", "failSave", "release"}
        \subseteq Labels
  BY LabelFacts DEF MayThrow
<1>1. CASE BecomeIdle(t)
  BY <1>0, <1>1 DEF BecomeIdle, Goto
<1>2. CASE ListenersDone(t)
  BY <1>0, <1>2 DEF ListenersDone, FlushThen
<1>3. CASE ClearController(t)
  BY <1>0, <1>3 DEF ClearController, Goto
<1>4. CASE Catch(t) \/ Settle(t)
  BY <1>0, <1>4 DEF Catch, Settle, Goto
<1>5. CASE ReportFailure(t)
  <2>1. Entry("assistant", t, 0) \in EntrySet
    BY EntryTypes
  <2>2. Append(session, Entry("assistant", t, 0)) \in Seq(EntrySet)
    BY <2>1
  <2> QED
    BY <1>0, <1>5, <2>2 DEF ReportFailure, FlushThen
<1>6. CASE StructuralWork(t)
  <2>1. Entry(pc[t], t, 0) \in EntrySet
    BY <1>6, EntryTypes DEF StructuralWork
  <2>2. Append(session, Entry(pc[t], t, 0)) \in Seq(EntrySet)
    BY <2>1
  <2> QED
    BY <1>0, <1>6, <2>2 DEF StructuralWork, Goto
<1>7. CASE Release(t)
  BY <1>0, <1>7 DEF Release, Goto
<1> QED
  BY <1>1, <1>2, <1>3, <1>4, <1>5, <1>6, <1>7

LEMMA TypesThrow ==
  ASSUME TypeOK, NEW t \in Ops, Throw(t)
  PROVE  TypeOK'
<1> USE DEF TypeOK, stateVars, queueVars, runVars, snapVars, opVars, histVars
<1>0. {"flush", "clear", "catch", "failure"} \subseteq Labels
  BY LabelFacts DEF MayThrow
<1>1. steerQueue' \in Seq(EntrySet) /\ followUpQueue' \in Seq(EntrySet)
      /\ nextTurnQueue' \in Seq(EntrySet)
  <2>1. held[t] \in Seq(EntrySet)
    OBVIOUS
  <2>2. held[t] \o steerQueue \in Seq(EntrySet) /\ held[t] \o followUpQueue \in Seq(EntrySet)
    BY <2>1
  <2>3. pc[t] = "queued" => nextTurnQueue' = SubSeq(held[t], 1, Len(held[t]) - 1) \o nextTurnQueue
    BY DEF Throw, RollBack
  <2>4. SubSeq(held[t], 1, Len(held[t]) - 1) \in Seq(EntrySet)
    <3>1. PICK h \in Seq(EntrySet), k \in Nat : h = held[t] /\ k = Len(h)
      BY <2>1
    <3>2. SubSeq(h, 1, k - 1) \in Seq(EntrySet)
      BY <3>1
    <3> QED
      BY <3>1, <3>2
  <2>5. \/ pc[t] = "queued" /\ UNCHANGED <<steerQueue, followUpQueue>>
        \/ steerQueue' = held[t] \o steerQueue /\ UNCHANGED <<followUpQueue, nextTurnQueue>>
        \/ followUpQueue' = held[t] \o followUpQueue /\ UNCHANGED <<steerQueue, nextTurnQueue>>
        \/ UNCHANGED queueVars
    BY DEF Throw, RollBack
  <2>6. SubSeq(held[t], 1, Len(held[t]) - 1) \o nextTurnQueue \in Seq(EntrySet)
    BY <2>4
  <2> QED
    BY <2>2, <2>3, <2>5, <2>6
<1>2. Handler(t) \in {"catch", "clear", "final", "failure"}
  BY DEF Handler
<1>3. /\ back' = back \/ back' = [back EXCEPT ![t] = "failure"]
                      \/ back' = [back EXCEPT ![t] = "clear"]
      /\ \E l \in {"flush", "catch", "clear", "failure"} : pc' = [pc EXCEPT ![t] = l]
      /\ failed' = failed \/ failed' = [failed EXCEPT ![t] = "twice"]
  BY <1>2 DEF Throw, FlushThen
<1>4. pc' \in [Ops -> Labels] /\ back' \in [Ops -> Labels] /\ failed' \in [Ops -> {"no", "once", "twice"}]
  <2>1. pc' \in [Ops -> Labels]
    BY <1>0, <1>3
  <2>2. back' \in [Ops -> Labels]
    BY <1>0, <1>3
  <2>3. failed' \in [Ops -> {"no", "once", "twice"}]
    BY <1>3
  <2> QED
    BY <2>1, <2>2, <2>3
<1>5. /\ pendingWrites' = pendingWrites /\ faults' = faults + 1 /\ held' = [held EXCEPT ![t] = <<>>]
      /\ UNCHANGED <<phase, config, session, inFlight, runVars, turns, snapVars, hasMore, orphan,
                 ops, accepted, writes, queued, signalled, abortAsked, promised>>
  BY DEF Throw, LeftBy
<1>6. held' \in [Ops -> Seq(EntrySet)] /\ faults' \in Nat /\ lost' \subseteq Nat
  <2>1. Numbers(held[t]) \subseteq Nat
    <3>1. held[t] \in Seq(EntrySet)
      OBVIOUS
    <3> QED
      BY ONLY <3>1, NumbersTyped
  <2>2. lost' \in {lost, lost \union Numbers(held[t])}
    BY DEF Throw
  <2> QED
    BY <1>5, <2>1, <2>2
<1> QED
  BY <1>1, <1>4, <1>5, <1>6

LEMMA TypesApplication ==
  ASSUME TypeOK, Application
  PROVE  TypeOK'
<1> USE DEF TypeOK, stateVars, queueVars, runVars, snapVars, opVars, histVars
<1>0. {"snapshot", "compaction", "branch_summary"} \subseteq Labels
  BY LabelFacts DEF MayThrow
<1>1. CASE Prompt
  <2>1. /\ ops + 1 \in Ops /\ ops + 1 \in 0 .. MaxOps
    BY <1>1, HarnessAssumption DEF Prompt, MayStart, Ops
  <2>2. User("prompt", accepted + 1) \in EntrySet
    BY EntryTypes DEF Lanes
  <2> QED
    <3>1. <<User("prompt", accepted + 1)>> \in Seq(EntrySet)
      BY <2>2
    <3>2. held' \in [Ops -> Seq(EntrySet)] /\ accepted' \in Nat
      BY <1>1, <2>1, <3>1 DEF Prompt
    <3>3. pc' \in [Ops -> Labels] /\ phase' = "turn" /\ runPromise' \in Ops /\ ops' \in 0 .. MaxOps
      BY <1>0, <1>1, <2>1 DEF Prompt
    <3> QED
      BY <1>1, <3>2, <3>3 DEF Prompt
<1>2. CASE Compact \/ NavigateTree
  <2>1. /\ ops + 1 \in Ops /\ ops + 1 \in 0 .. MaxOps
    <3>1. ops < MaxOps /\ ops \in Nat /\ MaxOps \in Nat
      BY <1>2, HarnessAssumption DEF Compact, NavigateTree, StartStructural, MayStart
    <3> QED
      BY <3>1 DEF Ops
  <2> QED
    BY <1>0, <1>2, <2>1 DEF Compact, NavigateTree, StartStructural
<1>3. ASSUME NEW type \in {"config", "note"}, WriteWhileBusy(type) \/ WriteWhileIdle(type)
      PROVE  TypeOK'
  <2>1. Entry(type, writes + 1, queued + 1) \in EntrySet /\ Entry(type, writes + 1, 0) \in EntrySet
    BY EntryTypes
  <2> QED
    <3>1. CASE WriteWhileBusy(type)
      <4>1. Append(pendingWrites, Entry(type, writes + 1, queued + 1)) \in Seq(EntrySet)
        BY <2>1
      <4>2. config' \in Nat /\ writes' \in Nat /\ queued' \in Nat /\ pendingWrites' \in Seq(EntrySet)
        BY <3>1, <4>1 DEF WriteWhileBusy
      <4> QED
        BY <3>1, <4>2 DEF WriteWhileBusy
    <3>2. CASE WriteWhileIdle(type)
      <4>1. writes' \in Nat /\ inFlight' \subseteq EntrySet
        BY <3>2, <2>1 DEF WriteWhileIdle
      <4> QED
        BY <3>2, <4>1 DEF WriteWhileIdle
    <3> QED
      BY <1>3, <3>1, <3>2
<1>4. ASSUME NEW e \in inFlight, WriteDone(e) \/ WriteFails(e)
      PROVE  TypeOK'
  <2>1. e \in EntrySet /\ e.n \in Nat
    BY DEF EntrySet
  <2> QED
    <3>1. CASE WriteDone(e)
      <4>1. Append(session, e) \in Seq(EntrySet)
        BY <2>1
      <4>2. config' \in Nat /\ session' \in Seq(EntrySet) /\ inFlight' \subseteq EntrySet
        BY <3>1, <2>1, <4>1 DEF WriteDone
      <4> QED
        BY <3>1, <4>2 DEF WriteDone
    <3>2. CASE WriteFails(e)
      <4>1. faults' \in Nat /\ inFlight' \subseteq EntrySet
        BY <3>2 DEF WriteFails
      <4> QED
        BY <3>2, <4>1 DEF WriteFails
    <3> QED
      BY <1>4, <3>1, <3>2
<1>5. CASE Steer \/ FollowUp \/ NextTurn
  <2>1. \A lane \in Lanes : User(lane, accepted + 1) \in EntrySet
    BY EntryTypes
  <2>2. {"steer", "followUp", "nextTurn"} \subseteq Lanes
    BY DEF Lanes
  <2> QED
    <3>1. accepted + 1 \in Nat
      OBVIOUS
    <3>2. /\ Append(steerQueue, User("steer", accepted + 1)) \in Seq(EntrySet)
          /\ Append(followUpQueue, User("followUp", accepted + 1)) \in Seq(EntrySet)
          /\ Append(nextTurnQueue, User("nextTurn", accepted + 1)) \in Seq(EntrySet)
      BY <2>1, <2>2
    <3>3. CASE Steer
      BY <3>1, <3>2, <3>3 DEF Steer
    <3>4. CASE FollowUp
      BY <3>1, <3>2, <3>4 DEF FollowUp
    <3>5. CASE NextTurn
      BY <3>1, <3>2, <3>5 DEF NextTurn
    <3> QED
      BY <1>5, <3>3, <3>4, <3>5
<1>6. CASE Abort
  <2>1. /\ steerQueue' \in Seq(EntrySet) /\ followUpQueue' \in Seq(EntrySet)
        /\ signalled' \subseteq Ops /\ abortAsked' \subseteq Ops
    BY <1>6 DEF Abort
  <2>2. orphan' \in [Ops -> BOOLEAN]
    BY <1>6 DEF Abort
  <2> QED
    BY <1>6, <2>1, <2>2 DEF Abort
<1> QED
  BY <1>1, <1>2, <1>3, <1>4, <1>5, <1>6, HarnessAssumption DEF Application

LEMMA TypesKept ==
  ASSUME TypeOK, [Next]_vars
  PROVE  TypeOK'
<1>1. CASE UNCHANGED vars
  BY <1>1 DEF TypeOK, vars, stateVars, queueVars, runVars, snapVars, opVars, histVars
<1>2. ASSUME NEW t \in Ops, OpStep(t) \/ Throw(t)
      PROVE  TypeOK'
  BY <1>2, TypesStart, TypesLoop, TypesEnd, TypesThrow DEF OpStep
<1> QED
  BY <1>1, <1>2, TypesApplication DEF Next

LEMMA TypesInit ==
  ASSUME Init
  PROVE  TypeOK
BY HarnessAssumption, LabelFacts DEF Init, TypeOK

\* TypeOK: every variable of the harness and of its operations has a value of its
\* type, whatever overlaps or fails.
THEOREM HarnessTypes == Spec => []TypeOK
  BY TypesInit, TypesKept, PTL DEF Spec

-----------------------------------------------------------------------------
(* What a step of one operation leaves alone.                              *)

\* Every action of operation t, and a rejection.
ByOp(t) == OpStep(t) \/ Throw(t)

LEMMA StepsAreOfOne ==
  ASSUME TypeOK, NEW t \in Ops, ByOp(t)
  PROVE  /\ pc[t] \notin {"none", "done"}
         /\ UNCHANGED <<config, inFlight, ops, accepted, writes, queued, promised>>
         /\ phase' = phase \/ phase' = "idle"
         /\ \A u \in Ops : u # t =>
              /\ pc'[u] = pc[u] /\ back'[u] = back[u] /\ held'[u] = held[u]
              /\ ctx'[u] = ctx[u] /\ used'[u] = used[u] /\ hasMore'[u] = hasMore[u]
              /\ failed'[u] = failed[u]
<1> USE DEF TypeOK, stateVars, queueVars, runVars, snapVars, opVars, histVars
<1>1. CASE \/ BuildContext(t) \/ Snapshot(t) \/ QueueUpdateSent(t) \/ StartRun(t)
           \/ RecordMessage(t) \/ AllRecorded(t)
  BY <1>1 DEF BuildContext, Snapshot, QueueUpdateSent, StartRun, RecordMessage, AllRecorded, Goto
<1>2. CASE \/ PollSteering(t) \/ DrainSent(t) \/ Inject(t) \/ PollFollowUps(t) \/ Stop(t)
  BY <1>2 DEF PollSteering, DrainSent, Inject, PollFollowUps, Stop, Take, Goto, FlushThen
<1>3. CASE Respond(t)
  BY <1>3 DEF Respond
<1>4. CASE TurnEnd(t) \/ SavePoint(t) \/ Refresh(t) \/ FlushAppend(t) \/ FlushShift(t)
  BY <1>4 DEF TurnEnd, SavePoint, Refresh, FlushAppend, FlushShift, Goto, FlushThen
<1>5. CASE Flushed(t)
  BY <1>5 DEF Flushed, Goto
<1>6. CASE BecomeIdle(t) \/ ListenersDone(t) \/ ClearController(t) \/ Catch(t) \/ Settle(t)
  BY <1>6 DEF BecomeIdle, ListenersDone, ClearController, Catch, Settle, Goto, FlushThen
<1>7. CASE ReportFailure(t) \/ StructuralWork(t) \/ Release(t)
  BY <1>7 DEF ReportFailure, StructuralWork, Release, Goto, FlushThen
<1>8. CASE Throw(t)
  <2>1. /\ back' = back \/ back' = [back EXCEPT ![t] = "failure"]
                        \/ back' = [back EXCEPT ![t] = "clear"]
        /\ \E l \in Labels \union {"final"} : pc' = [pc EXCEPT ![t] = l]
        /\ failed' = failed \/ failed' = [failed EXCEPT ![t] = "twice"]
    <3>1. Handler(t) \in Labels \union {"final"}
      BY LabelFacts DEF Handler
    <3> QED
      BY <1>8, <3>1, LabelFacts DEF Throw, FlushThen
  <2>2. /\ pc[t] \notin {"none", "done"} /\ held' = [held EXCEPT ![t] = <<>>]
        /\ UNCHANGED <<phase, config, inFlight, ops, accepted, writes, queued, promised, snapVars, hasMore>>
    BY <1>8 DEF Throw, MayThrow
  <2> QED
    BY <2>1, <2>2
<1> QED
  BY <1>1, <1>2, <1>3, <1>4, <1>5, <1>6, <1>7, <1>8 DEF ByOp, OpStep

\* Where a rejected await leaves its operation.
LEMMA WhereItThrows ==
  ASSUME TypeOK, NEW t \in Ops, Throw(t)
  PROVE  /\ pc[t] \in MayThrow
         /\ pc'[t] \in {"flush", "catch", "clear", "failure"}
         /\ pc'[t] = "flush" => back'[t] \in {"failure", "clear"}
         /\ held' = [held EXCEPT ![t] = <<>>]
         /\ faults' = faults + 1 /\ faults' \in Nat \ {0} /\ faults < MaxFaults
         /\ UNCHANGED <<session, pendingWrites>>
<1> USE DEF TypeOK
<1>1. Handler(t) \in {"catch", "clear", "final", "failure"}
  BY DEF Handler
<1>2. pc'[t] \in {"flush", "catch", "clear", "failure"} /\ (pc'[t] = "flush" => back'[t] \in {"failure", "clear"})
  BY <1>1 DEF Throw, FlushThen
<1> QED
  BY <1>2 DEF Throw, LeftBy

\* Few steps append to the session, and one shortens the queue of writes.
LEMMA WhoAppends ==
  ASSUME TypeOK, NEW t \in Ops, ByOp(t)
  PROVE  /\ \/ session' = session
            \/ RecordMessage(t) \/ Respond(t) \/ FlushAppend(t) \/ ReportFailure(t)
            \/ StructuralWork(t)
         /\ pendingWrites' = pendingWrites \/ FlushShift(t)
<1> USE DEF stateVars
<1>1. CASE \/ BuildContext(t) \/ Snapshot(t) \/ QueueUpdateSent(t) \/ StartRun(t)
           \/ RecordMessage(t) \/ AllRecorded(t)
  BY <1>1 DEF BuildContext, Snapshot, QueueUpdateSent, StartRun, RecordMessage, AllRecorded
<1>2. CASE \/ PollSteering(t) \/ DrainSent(t) \/ Inject(t) \/ PollFollowUps(t) \/ Stop(t)
           \/ Respond(t) \/ TurnEnd(t) \/ SavePoint(t) \/ Refresh(t) \/ FlushAppend(t)
           \/ FlushShift(t) \/ Flushed(t)
  BY <1>2 DEF PollSteering, DrainSent, Inject, PollFollowUps, Stop, Respond, TurnEnd, SavePoint,
              Refresh, FlushAppend, FlushShift, Flushed
<1>3. CASE \/ BecomeIdle(t) \/ ListenersDone(t) \/ ClearController(t) \/ Catch(t) \/ Settle(t)
           \/ ReportFailure(t) \/ StructuralWork(t) \/ Release(t)
  BY <1>3 DEF BecomeIdle, ListenersDone, ClearController, Catch, Settle, ReportFailure,
              StructuralWork, Release
<1>4. CASE Throw(t)
  BY <1>4, WhereItThrows
<1> QED
  BY <1>1, <1>2, <1>3, <1>4 DEF ByOp, OpStep

\* What comes from the application besides new operations: writes, messages, aborts.
Beside ==
  \/ \E type \in {"config", "note"} : WriteWhileBusy(type) \/ WriteWhileIdle(type)
  \/ \E e \in inFlight : WriteDone(e) \/ WriteFails(e)
  \/ Steer \/ FollowUp \/ NextTurn \/ Abort

LEMMA BesideKeeps ==
  ASSUME Beside
  PROVE  UNCHANGED <<phase, pc, back, held, ctx, used, hasMore, failed, ops>>
BY DEF Beside, WriteWhileBusy, WriteWhileIdle, WriteDone, WriteFails, Steer, FollowUp, NextTurn, Abort,
       stateVars, opVars, snapVars, histVars

LEMMA Steps ==
  ASSUME [Next]_vars
  PROVE  \/ UNCHANGED vars
         \/ Prompt \/ Compact \/ NavigateTree
         \/ Beside
         \/ \E t \in Ops : ByOp(t)
BY HarnessAssumption DEF Next, Application, Beside, ByOp

-----------------------------------------------------------------------------
(* What waits, and what an operation holds.                                *)

LEMMA KindFacts ==
  /\ Of({"steer"}) \subseteq EntrySet /\ Of({"followUp"}) \subseteq EntrySet
  /\ Of({"nextTurn"}) \subseteq EntrySet /\ Of({"prompt"}) \subseteq EntrySet
  /\ Writes \subseteq EntrySet /\ Of({"config", "note"}) \subseteq Writes
  /\ \A n \in Nat : /\ User("prompt", n) \in Of({"prompt"}) /\ User("steer", n) \in Of({"steer"})
                    /\ User("followUp", n) \in Of({"followUp"}) /\ User("nextTurn", n) \in Of({"nextTurn"})
  /\ \A type \in {"config", "note"} : \A n, s \in Nat :
       Entry(type, n, s) \in Writes /\ Entry(type, n, 0) \in Of({"config", "note"})
BY DEF Of, Writes, EntrySet, Entry, User, Lanes

LEMMA DrainKinds ==
  ASSUME NEW S, NEW mode, NEW q \in Seq(S)
  PROVE  /\ Drained(mode, q) \in Seq(S) /\ Remaining(mode, q) \in Seq(S)
         /\ q = <<>> => Drained(mode, q) = <<>>
BY DEF Drained, Remaining

\* An opening is the messages for this turn, and its prompt last.
LEMMA Openings ==
  /\ \A q \in Seq(Of({"nextTurn"})) : \A p \in Of({"prompt"}) :
       q \o <<p>> = Append(q, p) /\ Opening(q \o <<p>>)
  /\ \A s : Opening(s) =>
       /\ s \in Seq(EntrySet) /\ s # <<>>
       /\ SubSeq(s, 1, Len(s) - 1) \in Seq(Of({"nextTurn"}))
       /\ Head(s) \in Of({"nextTurn", "prompt"})
       /\ Tail(s) = <<>> \/ Opening(Tail(s))
       /\ Head(s).type = "nextTurn" => Opening(Tail(s))
<1>1. ASSUME NEW q \in Seq(Of({"nextTurn"})), NEW p \in Of({"prompt"})
      PROVE  q \o <<p>> = Append(q, p) /\ Opening(q \o <<p>>)
  <2>1. q \o <<p>> = Append(q, p)
    OBVIOUS
  <2> QED
    BY <2>1 DEF Opening
<1>2. ASSUME NEW s, Opening(s)
      PROVE  /\ s \in Seq(EntrySet) /\ s # <<>>
             /\ SubSeq(s, 1, Len(s) - 1) \in Seq(Of({"nextTurn"}))
             /\ Head(s) \in Of({"nextTurn", "prompt"})
             /\ Tail(s) = <<>> \/ Opening(Tail(s))
             /\ Head(s).type = "nextTurn" => Opening(Tail(s))
  <2>1. PICK q \in Seq(Of({"nextTurn"})), p \in Of({"prompt"}) : s = Append(q, p)
    BY <1>2 DEF Opening
  <2>2. PICK n \in Nat : n = Len(q)
    BY <2>1
  <2>3. s \in Seq(EntrySet)
    <3>1. q \in Seq(EntrySet) /\ p \in EntrySet
      BY <2>1, KindFacts
    <3> QED
      BY <2>1, <3>1
  <2>4. Len(s) = n + 1 /\ s[n + 1] = p /\ \A i \in 1 .. n : s[i] = q[i]
    BY <2>1, <2>2
  <2>5. SubSeq(s, 1, Len(s) - 1) = q
    <3>1. Len(s) - 1 = n
      BY <2>2, <2>4
    <3>2. SubSeq(s, 1, n) \in Seq(EntrySet) /\ Len(SubSeq(s, 1, n)) = n
          /\ \A i \in 1 .. n : SubSeq(s, 1, n)[i] = s[i]
      BY <2>3, <2>4, <2>2
    <3>3. q \in Seq(EntrySet)
      BY <2>1, KindFacts
    <3> QED
      BY <2>2, <2>4, <3>1, <3>2, <3>3, SeqEqual
  <2>6. CASE q = <<>>
    <3>1. s = <<p>>
      BY <2>1, <2>6
    <3>2. Head(s) = p /\ Tail(s) = <<>>
      BY <3>1
    <3>3. p \in Of({"nextTurn", "prompt"}) /\ p.type # "nextTurn"
      BY <2>1 DEF Of
    <3>4. s # <<>>
      BY <3>1
    <3> QED
      BY <2>1, <2>3, <2>5, <3>2, <3>3, <3>4
  <2>7. CASE q # <<>>
    <3>1. Head(s) = Head(q) /\ Tail(s) = Append(Tail(q), p) /\ s # <<>>
      BY <2>1, <2>7
    <3>2. Head(q) \in Of({"nextTurn"}) /\ Tail(q) \in Seq(Of({"nextTurn"}))
      BY <2>1, <2>7
    <3>3. Opening(Tail(s))
      BY <2>1, <3>1, <3>2 DEF Opening
    <3>4. Head(q) \in Of({"nextTurn", "prompt"})
      BY <3>2 DEF Of
    <3> QED
      BY <2>1, <2>3, <2>5, <3>1, <3>3, <3>4
  <2> QED
    BY <2>6, <2>7
<1> QED
  BY <1>1, <1>2

\* The parts of Kinds.
QueueKinds ==
  /\ steerQueue \in Seq(Of({"steer"})) /\ followUpQueue \in Seq(Of({"followUp"}))
  /\ nextTurnQueue \in Seq(Of({"nextTurn"})) /\ pendingWrites \in Seq(Writes)
  /\ inFlight \subseteq Of({"config", "note"})

\* An operation's own part is all a step of it can break.
LEMMA KindsOfOne ==
  ASSUME TypeOK, Kinds, NEW t \in Ops, ByOp(t), QueueKinds', Holds(t)', Returns(t)'
  PROVE  Kinds'
<1>1. \A u \in Ops : u # t => Holds(u)' /\ Returns(u)' /\ (u > ops' => pc'[u] = "none")
  BY StepsAreOfOne DEF Kinds, Holds, Returns
<1>2. t <= ops'
  BY StepsAreOfOne DEF Kinds, TypeOK, Ops
<1>3. ops' \in Nat
  <2>1. ops' = ops
    BY StepsAreOfOne
  <2> QED
    BY <2>1 DEF TypeOK
<1> QED
  BY <1>1, <1>2, <1>3 DEF Kinds, QueueKinds, Ops

LEMMA KindsStart ==
  ASSUME TypeOK, Kinds, NEW t \in Ops,
         \/ BuildContext(t) \/ Snapshot(t) \/ QueueUpdateSent(t) \/ StartRun(t)
         \/ RecordMessage(t) \/ AllRecorded(t)
  PROVE  QueueKinds' /\ Holds(t)' /\ Returns(t)'
<1> USE DEF stateVars, queueVars
<1>0. Holds(t) /\ Returns(t) /\ QueueKinds
  BY DEF Kinds, QueueKinds
<1>1. CASE BuildContext(t)
  BY <1>0, <1>1 DEF BuildContext, QueueKinds, Holds, Returns, TypeOK
<1>2. CASE Snapshot(t)
  <2>1. PICK p \in Of({"prompt"}) : held[t] = <<p>>
    BY <1>0, <1>2 DEF Snapshot, Holds
  <2>2. Opening(nextTurnQueue \o <<p>>)
    BY <1>0, Openings DEF QueueKinds
  <2>3. Opening(held'[t]) /\ pc'[t] \in {"queued", "hook"}
    BY <1>2, <2>1, <2>2 DEF Snapshot, TypeOK
  <2>4. Opening(held[t])'
    BY <2>3 DEF Opening
  <2>5. Holds(t)' /\ Returns(t)'
    BY <2>3, <2>4 DEF Holds, Returns
  <2>6. QueueKinds'
    BY <1>0, <1>2 DEF Snapshot, QueueKinds
  <2> QED
    BY <2>5, <2>6
<1>3. CASE QueueUpdateSent(t)
  BY <1>0, <1>3 DEF QueueUpdateSent, Goto, QueueKinds, Holds, Returns, TypeOK
<1>4. CASE StartRun(t)
  BY <1>0, <1>4 DEF StartRun, QueueKinds, Holds, Returns, TypeOK
<1>5. CASE RecordMessage(t)
  <2>1. held'[t] = Tail(held[t]) /\ pc'[t] = pc[t] /\ held[t] # <<>> /\ pc[t] \in {"announce", "inject"}
    BY <1>5 DEF RecordMessage, TypeOK
  <2>2. pc[t] = "announce" => Tail(held[t]) = <<>> \/ Opening(Tail(held[t]))
    BY <1>0, <2>1, Openings DEF Holds
  <2>3. pc[t] = "inject" => Tail(held[t]) \in Seq(Of({"steer"})) \union Seq(Of({"followUp"}))
    BY <1>0, <2>1 DEF Holds
  <2>4. Opening(Tail(held[t])) => Opening(held[t])'
    BY <2>1 DEF Opening
  <2>5. Holds(t)' /\ Returns(t)'
    BY <2>1, <2>2, <2>3, <2>4 DEF Holds, Returns
  <2>6. QueueKinds'
    BY <1>0, <1>5 DEF RecordMessage, QueueKinds
  <2> QED
    BY <2>5, <2>6
<1>6. CASE AllRecorded(t)
  BY <1>0, <1>6 DEF AllRecorded, Goto, QueueKinds, Holds, Returns, TypeOK
<1> QED
  BY <1>1, <1>2, <1>3, <1>4, <1>5, <1>6

LEMMA KindsLoop ==
  ASSUME TypeOK, Kinds, NEW t \in Ops,
         \/ PollSteering(t) \/ DrainSent(t) \/ Inject(t) \/ PollFollowUps(t) \/ Stop(t)
         \/ Respond(t) \/ TurnEnd(t) \/ SavePoint(t) \/ Refresh(t)
         \/ FlushAppend(t) \/ FlushShift(t) \/ Flushed(t)
  PROVE  QueueKinds' /\ Holds(t)' /\ Returns(t)'
<1> USE DEF stateVars, queueVars
<1>0. Holds(t) /\ Returns(t) /\ QueueKinds
  BY DEF Kinds, QueueKinds
<1>1. CASE PollSteering(t)
  <2>1. held'[t] \in Seq(Of({"steer"})) /\ pc'[t] \in {"inner", "drained"}
    BY <1>0, <1>1, DrainKinds DEF PollSteering, Take, QueueKinds, TypeOK
  <2>2. steerQueue' \in Seq(Of({"steer"}))
    BY <1>0, <1>1, DrainKinds DEF PollSteering, QueueKinds
  <2>3. Holds(t)' /\ Returns(t)'
    BY <2>1 DEF Holds, Returns
  <2> QED
    BY <1>0, <1>1, <2>2, <2>3 DEF PollSteering, QueueKinds
<1>2. CASE DrainSent(t) \/ Inject(t)
  BY <1>0, <1>2 DEF DrainSent, Inject, Goto, QueueKinds, Holds, Returns, TypeOK
<1>3. CASE PollFollowUps(t)
  <2>1. held'[t] \in Seq(Of({"followUp"})) /\ pc'[t] = "drained"
    BY <1>0, <1>3, DrainKinds DEF PollFollowUps, Take, QueueKinds, TypeOK
  <2>2. followUpQueue' \in Seq(Of({"followUp"}))
    BY <1>0, <1>3, DrainKinds DEF PollFollowUps, QueueKinds
  <2>3. Holds(t)' /\ Returns(t)'
    BY <2>1 DEF Holds, Returns
  <2> QED
    BY <1>0, <1>3, <2>2, <2>3 DEF PollFollowUps, QueueKinds
<1>4. CASE Stop(t)
  BY <1>0, <1>4 DEF Stop, FlushThen, QueueKinds, Holds, Returns, TypeOK
<1>5. CASE Respond(t)
  <2>1. pc'[t] \in {"lastTurnEnd", "turnEnd"} /\ held' = held /\ pc[t] = "request"
    BY <1>5 DEF Respond, TypeOK
  <2>2. Holds(t)' /\ Returns(t)'
    BY <1>0, <2>1 DEF Holds, Returns
  <2> QED
    BY <1>0, <1>5, <2>2 DEF Respond, QueueKinds
<1>6. CASE TurnEnd(t)
  BY <1>0, <1>6 DEF TurnEnd, FlushThen, QueueKinds, Holds, Returns, TypeOK
<1>7. CASE SavePoint(t)
  BY <1>0, <1>7 DEF SavePoint, FlushThen, QueueKinds, Holds, Returns, TypeOK
<1>8. CASE Refresh(t)
  BY <1>0, <1>8 DEF Refresh, QueueKinds, Holds, Returns, TypeOK
<1>9. CASE FlushAppend(t)
  BY <1>0, <1>9 DEF FlushAppend, Goto, QueueKinds, Holds, Returns, TypeOK
<1>10. CASE FlushShift(t)
  <2>1. pendingWrites' \in Seq(Writes)
    BY <1>0, <1>10 DEF FlushShift, QueueKinds
  <2>2. Holds(t)' /\ Returns(t)'
    BY <1>0, <1>10 DEF FlushShift, Goto, Holds, Returns, TypeOK
  <2> QED
    BY <1>0, <1>10, <2>1, <2>2 DEF FlushShift, QueueKinds
<1>11. CASE Flushed(t)
  BY <1>0, <1>11 DEF Flushed, Goto, QueueKinds, Holds, Returns, TypeOK
<1> QED
  BY <1>1, <1>2, <1>3, <1>4, <1>5, <1>6, <1>7, <1>8, <1>9, <1>10, <1>11

LEMMA KindsEnd ==
  ASSUME TypeOK, Kinds, NEW t \in Ops,
         \/ BecomeIdle(t) \/ ListenersDone(t) \/ ClearController(t) \/ Catch(t)
         \/ Settle(t) \/ ReportFailure(t) \/ StructuralWork(t) \/ Release(t)
  PROVE  QueueKinds' /\ Holds(t)' /\ Returns(t)'
<1> USE DEF stateVars, queueVars
<1>0. Holds(t) /\ Returns(t) /\ QueueKinds
  BY DEF Kinds, QueueKinds
<1>1. CASE BecomeIdle(t)
  BY <1>0, <1>1 DEF BecomeIdle, Goto, QueueKinds, Holds, Returns, TypeOK
<1>2. CASE ListenersDone(t)
  BY <1>0, <1>2 DEF ListenersDone, FlushThen, QueueKinds, Holds, Returns, TypeOK
<1>3. CASE ClearController(t)
  BY <1>0, <1>3 DEF ClearController, Goto, QueueKinds, Holds, Returns, TypeOK
<1>4. CASE Catch(t) \/ Settle(t)
  BY <1>0, <1>4 DEF Catch, Settle, Goto, QueueKinds, Holds, Returns, TypeOK
<1>5. CASE ReportFailure(t)
  BY <1>0, <1>5 DEF ReportFailure, FlushThen, QueueKinds, Holds, Returns, TypeOK
<1>6. CASE StructuralWork(t) \/ Release(t)
  BY <1>0, <1>6 DEF StructuralWork, Release, Goto, QueueKinds, Holds, Returns, TypeOK
<1> QED
  BY <1>1, <1>2, <1>3, <1>4, <1>5, <1>6

\* A rejection puts what was taken back into the queue it came from.
LEMMA RollsBack ==
  ASSUME TypeOK, Kinds, NEW t \in Ops, Throw(t)
  PROVE  \/ /\ pc[t] = "queued" /\ Opening(held[t])
            /\ nextTurnQueue' = SubSeq(held[t], 1, Len(held[t]) - 1) \o nextTurnQueue
            /\ UNCHANGED <<steerQueue, followUpQueue>>
         \/ /\ held[t] \in Seq(Of({"steer"}))
            /\ steerQueue' = held[t] \o steerQueue /\ UNCHANGED <<followUpQueue, nextTurnQueue>>
         \/ /\ held[t] \in Seq(Of({"followUp"}))
            /\ followUpQueue' = held[t] \o followUpQueue /\ UNCHANGED <<steerQueue, nextTurnQueue>>
         \/ UNCHANGED queueVars
<1>0. Holds(t)
  BY DEF Kinds
<1>1. CASE pc[t] = "queued"
  BY <1>0, <1>1 DEF Throw, RollBack, Holds
<1>2. CASE pc[t] = "drained" /\ held[t] = <<>>
  BY <1>2 DEF Throw, RollBack
<1>3. CASE pc[t] = "drained" /\ held[t] # <<>>
  <2>1. held[t] \in Seq(Of({"steer"})) \/ held[t] \in Seq(Of({"followUp"}))
    BY <1>0, <1>3 DEF Holds
  <2>2. held[t] \in Seq(Of({"steer"})) => held[t][1].type = "steer"
    <3> SUFFICES ASSUME held[t] \in Seq(Of({"steer"}))
                 PROVE  held[t][1].type = "steer"
      OBVIOUS
    <3>1. held[t][1] \in Of({"steer"})
      <4>1. PICK S : S = Of({"steer"})
        OBVIOUS
      <4>2. PICK h \in Seq(S) : h = held[t]
        BY <4>1
      <4>3. h[1] \in S
        BY <1>3, <4>2
      <4> QED
        BY <4>1, <4>2, <4>3
    <3> QED
      BY <3>1 DEF Of
  <2>3. held[t] \in Seq(Of({"followUp"})) => held[t][1].type = "followUp"
    <3> SUFFICES ASSUME held[t] \in Seq(Of({"followUp"}))
                 PROVE  held[t][1].type = "followUp"
      OBVIOUS
    <3>1. held[t][1] \in Of({"followUp"})
      <4>1. PICK S : S = Of({"followUp"})
        OBVIOUS
      <4>2. PICK h \in Seq(S) : h = held[t]
        BY <4>1
      <4>3. h[1] \in S
        BY <1>3, <4>2
      <4> QED
        BY <4>1, <4>2, <4>3
    <3> QED
      BY <3>1 DEF Of
  <2>4. \/ held[t][1].type = "steer" /\ steerQueue' = held[t] \o steerQueue /\ UNCHANGED <<followUpQueue, nextTurnQueue>>
        \/ held[t][1].type = "followUp" /\ followUpQueue' = held[t] \o followUpQueue /\ UNCHANGED <<steerQueue, nextTurnQueue>>
        \/ UNCHANGED queueVars
    BY <1>3 DEF Throw, RollBack
  <2> QED
    BY <2>1, <2>2, <2>3, <2>4
<1>4. CASE pc[t] \notin {"queued", "drained"}
  BY <1>4 DEF Throw, RollBack
<1> QED
  BY <1>1, <1>2, <1>3, <1>4

LEMMA KindsThrow ==
  ASSUME TypeOK, Kinds, NEW t \in Ops, Throw(t)
  PROVE  QueueKinds' /\ Holds(t)' /\ Returns(t)'
<1>0. Holds(t) /\ Returns(t) /\ QueueKinds
  BY DEF Kinds, QueueKinds
<1>1. Holds(t)' /\ Returns(t)'
  <2>1. held'[t] = <<>>
    BY WhereItThrows DEF TypeOK
  <2> QED
    BY <2>1, WhereItThrows DEF Holds, Returns
<1>2. /\ steerQueue' \in Seq(Of({"steer"})) /\ followUpQueue' \in Seq(Of({"followUp"}))
      /\ nextTurnQueue' \in Seq(Of({"nextTurn"}))
  <2>1. \/ nextTurnQueue' \in Seq(Of({"nextTurn"})) /\ UNCHANGED <<steerQueue, followUpQueue>>
        \/ steerQueue' \in Seq(Of({"steer"})) /\ UNCHANGED <<followUpQueue, nextTurnQueue>>
        \/ followUpQueue' \in Seq(Of({"followUp"})) /\ UNCHANGED <<steerQueue, nextTurnQueue>>
        \/ UNCHANGED queueVars
    <3>1. Opening(held[t]) => SubSeq(held[t], 1, Len(held[t]) - 1) \in Seq(Of({"nextTurn"}))
      BY Openings
    <3>2. \A q \in Seq(Of({"nextTurn"})) : q \o nextTurnQueue \in Seq(Of({"nextTurn"}))
      BY <1>0 DEF QueueKinds
    <3>3. \A q \in Seq(Of({"steer"})) : q \o steerQueue \in Seq(Of({"steer"}))
      BY <1>0 DEF QueueKinds
    <3>4. \A q \in Seq(Of({"followUp"})) : q \o followUpQueue \in Seq(Of({"followUp"}))
      BY <1>0 DEF QueueKinds
    <3> HIDE DEF Of
    <3> QED
      BY <3>1, <3>2, <3>3, <3>4, RollsBack
  <2> QED
    BY <1>0, <2>1 DEF QueueKinds, queueVars
<1>3. pendingWrites' \in Seq(Writes) /\ inFlight' \subseteq Of({"config", "note"})
  BY <1>0, WhereItThrows, StepsAreOfOne DEF QueueKinds, ByOp
<1> QED
  BY <1>1, <1>2, <1>3 DEF QueueKinds

\* The number of the next operation is that of no other.
LEMMA Newcomer ==
  ASSUME TypeOK, MayStart
  PROVE  ops + 1 \in Ops /\ ops \in Nat
<1>1. ops < MaxOps /\ ops \in Nat /\ MaxOps \in Nat
  BY HarnessAssumption DEF MayStart, TypeOK
<1> QED
  BY <1>1 DEF Ops

LEMMA KindsPrompt ==
  ASSUME TypeOK, Kinds, Prompt \/ Compact \/ NavigateTree
  PROVE  Kinds'
<1>1. PICK t \in Ops : t = ops + 1 /\ ops \in Nat /\ ops' = t
  BY Newcomer DEF Prompt, Compact, NavigateTree, StartStructural
<1>2. /\ \A u \in Ops : u # t => pc'[u] = pc[u] /\ held'[u] = held[u]
      /\ back' = back
      /\ UNCHANGED <<queueVars, pendingWrites, inFlight>>
  BY <1>1 DEF Prompt, Compact, NavigateTree, StartStructural, TypeOK
<1>3. Holds(t)' /\ Returns(t)'
  <2>1. CASE Prompt
    <3>1. pc'[t] = "snapshot" /\ held'[t] = <<User("prompt", accepted + 1)>>
      BY <1>1, <2>1 DEF Prompt, TypeOK
    <3>2. User("prompt", accepted + 1) \in Of({"prompt"})
      BY KindFacts DEF TypeOK
    <3> QED
      BY <3>1, <3>2 DEF Holds, Returns
  <2>2. CASE Compact \/ NavigateTree
    <3>1. pc'[t] \in {"compaction", "branch_summary"} /\ held' = held
      BY <1>1, <2>2 DEF Compact, NavigateTree, StartStructural, TypeOK
    <3>2. held[t] = <<>>
      BY <1>1 DEF Kinds, Holds
    <3> QED
      BY <3>1, <3>2 DEF Holds, Returns
  <2> QED
    BY <2>1, <2>2
<1>4. \A u \in Ops : Holds(u)' /\ Returns(u)' /\ (u > ops' => pc'[u] = "none")
  <2> SUFFICES ASSUME NEW u \in Ops, u # t
               PROVE  Holds(u)' /\ Returns(u)' /\ (u > ops' => pc'[u] = "none")
    BY <1>1, <1>3
  <2>1. Holds(u)' /\ Returns(u)'
    BY <1>2 DEF Kinds, Holds, Returns
  <2>2. u > ops' => pc'[u] = "none"
    BY <1>1, <1>2 DEF Kinds, Ops
  <2> QED
    BY <2>1, <2>2
<1> QED
  BY <1>2, <1>4 DEF Kinds, queueVars

LEMMA KindsBeside ==
  ASSUME TypeOK, Kinds, Beside
  PROVE  Kinds'
<1>0. QueueKinds
  BY DEF Kinds, QueueKinds
<1>1. QueueKinds'
  <2>1. ASSUME NEW type \in {"config", "note"}, WriteWhileBusy(type) \/ WriteWhileIdle(type)
        PROVE  QueueKinds'
    <3>1. Entry(type, writes + 1, queued + 1) \in Writes /\ Entry(type, writes + 1, 0) \in Of({"config", "note"})
      BY KindFacts DEF TypeOK
    <3>2. CASE WriteWhileBusy(type)
      <4>1. Append(pendingWrites, Entry(type, writes + 1, queued + 1)) \in Seq(Writes)
        BY <1>0, <3>1 DEF QueueKinds
      <4> QED
        BY <1>0, <3>2, <4>1 DEF WriteWhileBusy, QueueKinds, queueVars
    <3>3. CASE WriteWhileIdle(type)
      BY <1>0, <3>1, <3>3 DEF WriteWhileIdle, QueueKinds, queueVars
    <3> QED
      BY <2>1, <3>2, <3>3
  <2>2. ASSUME NEW e \in inFlight, WriteDone(e) \/ WriteFails(e)
        PROVE  QueueKinds'
    BY <1>0, <2>2 DEF WriteDone, WriteFails, QueueKinds, queueVars
  <2>3. CASE Steer \/ FollowUp \/ NextTurn
    <3>1. /\ Append(steerQueue, User("steer", accepted + 1)) \in Seq(Of({"steer"}))
          /\ Append(followUpQueue, User("followUp", accepted + 1)) \in Seq(Of({"followUp"}))
          /\ Append(nextTurnQueue, User("nextTurn", accepted + 1)) \in Seq(Of({"nextTurn"}))
      BY <1>0, KindFacts DEF QueueKinds, TypeOK
    <3> QED
      BY <1>0, <2>3, <3>1 DEF Steer, FollowUp, NextTurn, QueueKinds, stateVars
  <2>4. CASE Abort
    BY <1>0, <2>4 DEF Abort, QueueKinds, stateVars
  <2> QED
    BY <2>1, <2>2, <2>3, <2>4 DEF Beside
<1> QED
  BY <1>1, BesideKeeps DEF Kinds, QueueKinds, Holds, Returns

LEMMA KindsKept ==
  ASSUME TypeOK, Kinds, [Next]_vars
  PROVE  Kinds'
<1>1. ASSUME NEW t \in Ops, ByOp(t)
      PROVE  Kinds'
  <2>1. QueueKinds' /\ Holds(t)' /\ Returns(t)'
    BY <1>1, KindsStart, KindsLoop, KindsEnd, KindsThrow DEF ByOp, OpStep
  <2> QED
    BY <1>1, <2>1, KindsOfOne
<1>2. CASE UNCHANGED vars
  BY <1>2 DEF Kinds, Holds, Returns, Opening, vars, stateVars, queueVars, opVars, histVars
<1> QED
  BY <1>1, <1>2, Steps, KindsPrompt, KindsBeside

LEMMA KindsInit ==
  ASSUME Init
  PROVE  Kinds
BY DEF Init, Kinds, Holds, Returns
-----------------------------------------------------------------------------
(* Queued writes reach the session once and in order.                      *)

\* An entry that did not have to wait changes nothing in their order.
LEMMA OrderPlain ==
  ASSUME NEW s \in Seq(EntrySet), NEW u \in Seq(EntrySet), NEW q \in Nat,
         SavedInOrder(s, u, q), NEW e \in EntrySet, e.seq = 0
  PROVE  SavedInOrder(Append(s, e), u, q)
<1>1. PICK n \in Nat : n = Len(s)
  OBVIOUS
<1>a. Append(s, e) \in Seq(EntrySet)
  OBVIOUS
<1>2. PICK r \in Seq(EntrySet) : r = Append(s, e)
  BY <1>a
<1>3. Len(r) = n + 1 /\ r[n + 1] = e /\ \A k \in 1 .. n : r[k] = s[k]
  BY <1>1, <1>2
<1>4. {k \in 1 .. (n + 1) : r[k].seq > 0} = {k \in 1 .. n : s[k].seq > 0}
  BY <1>3
<1>5. {r[i].seq : i \in {j \in 1 .. Len(r) : r[j].seq > 0}} = {s[i].seq : i \in {j \in 1 .. Len(s) : s[j].seq > 0}}
  <2>1. \A i \in {k \in 1 .. n : s[k].seq > 0} : r[i].seq = s[i].seq
    BY <1>3
  <2> QED
    BY <1>1, <1>3, <1>4, <2>1
<1>6. \A i, j \in {k \in 1 .. Len(r) : r[k].seq > 0} : i < j => r[i].seq < r[j].seq
  BY <1>1, <1>3, <1>4 DEF SavedInOrder
<1> QED
  BY <1>2, <1>5, <1>6 DEF SavedInOrder

\* The first that waits is appended.
LEMMA OrderSaved ==
  ASSUME NEW s \in Seq(EntrySet), NEW u \in Seq(EntrySet), NEW q \in Nat,
         SavedInOrder(s, u, q), u # <<>>
  PROVE  SavedInOrder(Append(s, Head(u)), Tail(u), q)
<1>1. PICK n \in Nat, m \in Nat : n = Len(s) /\ m = Len(u)
  OBVIOUS
<1>2. PICK e \in EntrySet : e = Head(u)
  OBVIOUS
<1>a. Append(s, e) \in Seq(EntrySet) /\ Tail(u) \in Seq(EntrySet)
  OBVIOUS
<1>3. PICK r \in Seq(EntrySet) : r = Append(s, e)
  BY <1>a
<1>4. PICK v \in Seq(EntrySet) : v = Tail(u)
  BY <1>a
<1>5. Len(r) = n + 1 /\ r[n + 1] = e /\ \A k \in 1 .. n : r[k] = s[k]
  BY <1>1, <1>3
<1>6. m \in Nat \ {0} /\ Len(v) = m - 1 /\ \A k \in 1 .. (m - 1) : v[k] = u[k + 1]
  BY <1>1, <1>4
<1>7. PICK saved \in Nat : saved = q - m
  BY <1>1 DEF SavedInOrder
<1>8. e.seq = saved + 1
  <2>1. e = u[1] /\ 1 \in 1 .. m
    BY <1>2, <1>6
  <2> QED
    BY <1>1, <1>7, <2>1 DEF SavedInOrder
<1>9. q - Len(v) = saved + 1 /\ Len(v) <= q
  BY <1>1, <1>6, <1>7 DEF SavedInOrder
<1> DEFINE P == {k \in 1 .. n : s[k].seq > 0}
<1>10. {k \in 1 .. (n + 1) : r[k].seq > 0} = P \union {n + 1}
  BY <1>5, <1>8
<1>11. {s[i].seq : i \in P} = 1 .. saved /\ \A i, j \in P : i < j => s[i].seq < s[j].seq
  BY <1>1, <1>7 DEF SavedInOrder
<1>12. {r[i].seq : i \in P \union {n + 1}} = 1 .. (saved + 1)
  <2>1. {r[i].seq : i \in P \union {n + 1}} = {s[i].seq : i \in P} \union {saved + 1}
    <3>1. \A i \in P : r[i].seq = s[i].seq
      BY <1>5
    <3>2. r[n + 1].seq = saved + 1
      BY <1>5, <1>8
    <3> HIDE DEF P
    <3> QED
      BY <3>1, <3>2
  <2>2. (1 .. saved) \union {saved + 1} = 1 .. (saved + 1)
    BY <1>7
  <2>3. {s[i].seq : i \in P} = 1 .. saved
    BY <1>11
  <2> HIDE DEF P
  <2> QED
    BY <2>1, <2>2, <2>3
<1>13. ASSUME NEW i \in P \union {n + 1}, NEW j \in P \union {n + 1}, i < j
       PROVE  r[i].seq < r[j].seq
  <2>1. i \in P /\ r[i].seq = s[i].seq
    BY <1>5, <1>13
  <2>2. CASE j \in P
    BY <1>5, <1>11, <1>13, <2>1, <2>2
  <2>3. CASE j = n + 1
    <3>1. s[i].seq \in 1 .. saved
      BY <1>11, <2>1
    <3> QED
      BY <1>5, <1>8, <2>1, <2>3, <3>1
  <2> QED
    BY <2>2, <2>3
<1>14. \A i \in 1 .. Len(v) : v[i].seq = q - Len(v) + i
  <2> SUFFICES ASSUME NEW i \in 1 .. (m - 1)
               PROVE  v[i].seq = saved + 1 + i
    BY <1>6, <1>9
  <2>1. v[i] = u[i + 1] /\ i + 1 \in 1 .. m
    BY <1>6
  <2>2. u[i + 1].seq = saved + (i + 1)
    BY <1>1, <1>7, <2>1 DEF SavedInOrder
  <2> QED
    BY <2>1, <2>2
<1> HIDE DEF P
<1>15. SavedInOrder(r, v, q)
  BY <1>5, <1>9, <1>10, <1>12, <1>13, <1>14 DEF SavedInOrder
<1> QED
  BY <1>2, <1>3, <1>4, <1>15

\* One more write has to wait.
LEMMA OrderQueued ==
  ASSUME NEW s \in Seq(EntrySet), NEW u \in Seq(EntrySet), NEW q \in Nat,
         SavedInOrder(s, u, q), NEW e \in EntrySet, e.seq = q + 1
  PROVE  SavedInOrder(s, Append(u, e), q + 1)
<1>1. PICK m \in Nat : m = Len(u)
  OBVIOUS
<1>a. Append(u, e) \in Seq(EntrySet)
  OBVIOUS
<1>2. PICK v \in Seq(EntrySet) : v = Append(u, e)
  BY <1>a
<1>3. Len(v) = m + 1 /\ v[m + 1] = e /\ \A k \in 1 .. m : v[k] = u[k]
  BY <1>1, <1>2
<1>4. q + 1 - Len(v) = q - m /\ Len(v) <= q + 1
  BY <1>1, <1>3 DEF SavedInOrder
<1>5. \A i \in 1 .. Len(v) : v[i].seq = q + 1 - Len(v) + i
  <2> SUFFICES ASSUME NEW i \in 1 .. (m + 1)
               PROVE  v[i].seq = q - m + i
    BY <1>3, <1>4
  <2>1. CASE i = m + 1
    BY <1>3, <2>1
  <2>2. CASE i # m + 1
    <3>1. i \in 1 .. m
      BY <2>2
    <3>2. u[i].seq = q - m + i
      BY <1>1, <3>1 DEF SavedInOrder
    <3> QED
      BY <1>3, <3>1, <3>2
  <2> QED
    BY <2>1, <2>2
<1>6. SavedInOrder(s, v, q + 1)
  BY <1>1, <1>4, <1>5 DEF SavedInOrder
<1> QED
  BY <1>2, <1>6

\* For a caller that awaits: nothing waits beside a run, and one operation runs.
LEMMA BesideKept ==
  ASSUME TypeOK, NothingBeside, ~Overlap, [Next]_vars
  PROVE  NothingBeside'
<1>1. CASE Prompt \/ Compact \/ NavigateTree
  BY <1>1 DEF Prompt, Compact, NavigateTree, StartStructural, MayStart, NothingBeside
<1>2. CASE \E type \in {"config", "note"} : WriteWhileBusy(type) \/ WriteWhileIdle(type)
  BY <1>2 DEF WriteWhileBusy, WriteWhileIdle, NothingBeside
<1>3. CASE \E e \in inFlight : WriteDone(e) \/ WriteFails(e)
  BY <1>3 DEF WriteDone, WriteFails, NothingBeside
<1>4. CASE Steer \/ FollowUp \/ NextTurn \/ Abort
  BY <1>4 DEF Steer, FollowUp, NextTurn, Abort, stateVars, NothingBeside
<1>5. ASSUME NEW t \in Ops, ByOp(t)
      PROVE  NothingBeside'
  BY <1>5, StepsAreOfOne DEF NothingBeside
<1>6. CASE UNCHANGED vars
  BY <1>6 DEF vars, stateVars, NothingBeside
<1> QED
  BY <1>1, <1>2, <1>3, <1>4, <1>5, <1>6, Steps DEF Beside

LEMMA Alone ==
  ASSUME OneRunAtATime, NEW t \in Ops, pc[t] \notin {"none", "done"}
  PROVE  \A u \in Ops : u # t => pc[u] \in {"none", "done"}
BY DEF OneRunAtATime, Running, Started, Over

\* What is appended besides the queued writes did not have to wait.
LEMMA AppendsPlain ==
  ASSUME TypeOK, Kinds, NEW t \in Ops,
         RecordMessage(t) \/ Respond(t) \/ ReportFailure(t) \/ StructuralWork(t)
  PROVE  \/ session' = session
         \/ \E e \in EntrySet : e.seq = 0 /\ session' = Append(session, e)
<1>1. CASE RecordMessage(t)
  <2>1. Head(held[t]) \in Of({"nextTurn", "prompt"}) \/ Head(held[t]) \in Of({"steer"})
        \/ Head(held[t]) \in Of({"followUp"})
    <3>1. Holds(t) /\ held[t] # <<>> /\ pc[t] \in {"announce", "inject"}
      BY <1>1 DEF Kinds, RecordMessage
    <3>2. CASE pc[t] = "announce"
      BY <3>1, <3>2, Openings DEF Holds
    <3>3. CASE pc[t] = "inject"
      <4>1. held[t] \in Seq(Of({"steer"})) \/ held[t] \in Seq(Of({"followUp"}))
        BY <3>1, <3>3 DEF Holds
      <4> HIDE DEF Of
      <4> QED
        BY <3>1, <4>1
    <3> QED
      BY <3>1, <3>2, <3>3
  <2>2. Head(held[t]) \in EntrySet /\ Head(held[t]).seq = 0
    BY <2>1 DEF Of, EntrySet, Lanes
  <2> QED
    BY <1>1, <2>2 DEF RecordMessage
<1>2. CASE Respond(t) \/ ReportFailure(t)
  <2>1. Entry("assistant", t, 0) \in EntrySet /\ Entry("assistant", t, 0).seq = 0
    BY EntryTypes DEF Entry
  <2> QED
    BY <1>2, <2>1 DEF Respond, ReportFailure
<1>3. CASE StructuralWork(t)
  <2>1. Entry(pc[t], t, 0) \in EntrySet /\ Entry(pc[t], t, 0).seq = 0
    BY <1>3, EntryTypes DEF Entry, StructuralWork
  <2> QED
    BY <1>3, <2>1 DEF StructuralWork
<1> QED
  BY <1>1, <1>2, <1>3

\* Only an append of the head of the queue is followed by its shift.
LEMMA WhoShifts ==
  ASSUME TypeOK, Kinds, NEW t \in Ops, ByOp(t)
  PROVE  pc'[t] = "shift" => FlushAppend(t)
<1>1. CASE \/ BuildContext(t) \/ Snapshot(t) \/ QueueUpdateSent(t) \/ StartRun(t)
           \/ AllRecorded(t)
  BY <1>1 DEF BuildContext, Snapshot, QueueUpdateSent, StartRun, AllRecorded, Goto, TypeOK
<1>2. CASE RecordMessage(t)
  BY <1>2 DEF RecordMessage, TypeOK
<1>3. CASE PollSteering(t) \/ DrainSent(t) \/ Inject(t) \/ PollFollowUps(t) \/ Stop(t)
  BY <1>3 DEF PollSteering, DrainSent, Inject, PollFollowUps, Stop, Take, Goto, FlushThen, TypeOK
<1>4. CASE Respond(t)
  BY <1>4 DEF Respond, TypeOK
<1>5. CASE TurnEnd(t) \/ SavePoint(t) \/ Refresh(t) \/ FlushShift(t)
  BY <1>5 DEF TurnEnd, SavePoint, Refresh, FlushShift, Goto, FlushThen, TypeOK
<1>6. CASE Flushed(t)
  BY <1>6 DEF Flushed, Goto, TypeOK, Kinds, Returns
<1>7. CASE \/ BecomeIdle(t) \/ ListenersDone(t) \/ ClearController(t) \/ Catch(t) \/ Settle(t)
           \/ ReportFailure(t) \/ StructuralWork(t) \/ Release(t)
  BY <1>7 DEF BecomeIdle, ListenersDone, ClearController, Catch, Settle, ReportFailure,
              StructuralWork, Release, Goto, FlushThen, TypeOK
<1>8. CASE Throw(t)
  BY <1>8, WhereItThrows
<1> QED
  BY <1>1, <1>2, <1>3, <1>4, <1>5, <1>6, <1>7, <1>8 DEF ByOp, OpStep

LEMMA InOrderByOp ==
  ASSUME TypeOK, Kinds, OneRunAtATime, InOrder, NEW t \in Ops, ByOp(t)
  PROVE  InOrder'
<1>1. \A u \in Ops : u # t => pc[u] \in {"none", "done"} /\ pc'[u] = pc[u]
  BY StepsAreOfOne, Alone
<1>2. /\ Unflushed = IF pc[t] = "shift" THEN Tail(pendingWrites) ELSE pendingWrites
      /\ Unflushed' = IF pc'[t] = "shift" THEN Tail(pendingWrites') ELSE pendingWrites'
  BY <1>1 DEF Unflushed
<1>3. queued' = queued /\ queued \in Nat /\ session \in Seq(EntrySet) /\ pendingWrites \in Seq(EntrySet)
  BY StepsAreOfOne DEF TypeOK
<1>4. SavedInOrder(session, Unflushed, queued) /\ (pc[t] = "shift" => pendingWrites # <<>>)
  BY DEF InOrder
<1>5. CASE FlushAppend(t)
  <2>1. pc[t] = "flush" /\ pc'[t] = "shift" /\ pendingWrites # <<>> /\ pendingWrites' = pendingWrites
        /\ session' = Append(session, Head(pendingWrites))
    BY <1>5 DEF FlushAppend, Goto, TypeOK
  <2>2. Unflushed = pendingWrites /\ Unflushed' = Tail(pendingWrites)
    BY <1>2, <2>1
  <2>3. SavedInOrder(Append(session, Head(pendingWrites)), Tail(pendingWrites), queued)
    BY <1>3, <1>4, <2>1, <2>2, OrderSaved
  <2>4. SavedInOrder(session', Unflushed', queued')
    BY <1>3, <2>1, <2>2, <2>3
  <2> QED
    BY <1>1, <2>1, <2>4 DEF InOrder, SavedInOrder
<1>6. CASE FlushShift(t)
  <2>1. pc[t] = "shift" /\ pc'[t] = "flush" /\ pendingWrites' = Tail(pendingWrites) /\ session' = session
    BY <1>4, <1>6 DEF FlushShift, Goto, TypeOK
  <2>2. Unflushed' = Unflushed
    BY <1>2, <2>1
  <2> QED
    BY <1>1, <1>3, <1>4, <2>1, <2>2 DEF InOrder, SavedInOrder
<1>7. CASE ~FlushAppend(t) /\ ~FlushShift(t)
  <2>1. pc'[t] # "shift" /\ pendingWrites' = pendingWrites
    BY <1>7, WhoShifts, WhoAppends
  <2>2. pc[t] # "shift"
    <3>1. ASSUME pc[t] = "shift" PROVE FALSE
      BY <1>7, <3>1 DEF ByOp, OpStep, BuildContext, Snapshot, QueueUpdateSent, StartRun, RecordMessage,
         AllRecorded, PollSteering, DrainSent, Inject, PollFollowUps, Stop, Respond, TurnEnd, SavePoint,
         Refresh, Flushed, BecomeIdle, ListenersDone, ClearController, Catch, Settle, ReportFailure,
         StructuralWork, Release, Throw, MayThrow
    <3> QED
      BY <3>1
  <2>3. Unflushed' = Unflushed /\ Unflushed = pendingWrites
    BY <1>2, <2>1, <2>2
  <2>4. session' = session \/ \E e \in EntrySet : e.seq = 0 /\ session' = Append(session, e)
    BY <1>7, WhoAppends, AppendsPlain
  <2>5. SavedInOrder(session', pendingWrites, queued)
    BY <1>3, <1>4, <2>3, <2>4, OrderPlain
  <2> QED
    BY <1>1, <1>3, <2>1, <2>3, <2>5 DEF InOrder, SavedInOrder
<1> QED
  BY <1>5, <1>6, <1>7

LEMMA InOrderBeside ==
  ASSUME TypeOK, Kinds, InOrder, Beside
  PROVE  InOrder'
<1>1. session \in Seq(EntrySet) /\ pendingWrites \in Seq(EntrySet) /\ queued \in Nat /\ pc' = pc
  BY BesideKeeps DEF TypeOK
<1>2. SavedInOrder(session, Unflushed, queued) /\ \A t \in Ops : pc[t] = "shift" => pendingWrites # <<>>
  BY DEF InOrder
<1>3. PICK u \in Seq(EntrySet) : u = Unflushed
  <2>1. (\E t \in Ops : pc[t] = "shift") => Tail(pendingWrites) \in Seq(EntrySet)
    BY <1>1, <1>2
  <2> QED
    BY <1>1, <2>1 DEF Unflushed
<1>4. ASSUME NEW type \in {"config", "note"}, WriteWhileBusy(type)
      PROVE  InOrder'
  <2>1. PICK e : e = Entry(type, writes + 1, queued + 1)
    OBVIOUS
  <2>2. e \in EntrySet /\ e.seq = queued + 1
    BY <1>1, <2>1, EntryTypes DEF Entry, TypeOK
  <2>3. pendingWrites' = Append(pendingWrites, e) /\ queued' = queued + 1 /\ session' = session
    BY <1>4, <2>1 DEF WriteWhileBusy
  <2>4. Unflushed' = Append(u, e) /\ pendingWrites' # <<>>
    <3>1. pendingWrites # <<>> => Tail(Append(pendingWrites, e)) = Append(Tail(pendingWrites), e)
      BY <1>1, <2>2
    <3>2. Append(pendingWrites, e) # <<>>
      BY <1>1, <2>2
    <3> QED
      BY <1>1, <1>2, <1>3, <2>3, <3>1, <3>2 DEF Unflushed
  <2>5. SavedInOrder(session, Append(u, e), queued + 1)
    BY <1>1, <1>2, <1>3, <2>2, OrderQueued
  <2> QED
    BY <2>3, <2>4, <2>5 DEF InOrder, SavedInOrder
<1>5. ASSUME NEW e \in inFlight, WriteDone(e)
      PROVE  InOrder'
  <2>1. e \in EntrySet /\ e.seq = 0
    BY DEF Kinds, Of, EntrySet
  <2>2. SavedInOrder(Append(session, e), u, queued)
    BY <1>1, <1>2, <1>3, <2>1, OrderPlain
  <2>3. session' = Append(session, e) /\ pendingWrites' = pendingWrites /\ queued' = queued
    BY <1>5 DEF WriteDone, histVars
  <2>4. Unflushed' = u
    BY <1>1, <1>3, <2>3 DEF Unflushed
  <2> QED
    BY <1>1, <1>2, <2>2, <2>3, <2>4 DEF InOrder, SavedInOrder
<1>6. CASE UNCHANGED <<session, pendingWrites, queued>>
  <2>1. Unflushed' = Unflushed
    BY <1>1, <1>6 DEF Unflushed
  <2> QED
    BY <1>1, <1>2, <1>6, <2>1 DEF InOrder, SavedInOrder
<1>7. \/ \E type \in {"config", "note"} : WriteWhileBusy(type)
      \/ \E e \in inFlight : WriteDone(e)
      \/ UNCHANGED <<session, pendingWrites, queued>>
  BY DEF Beside, WriteWhileIdle, WriteFails, Steer, FollowUp, NextTurn, Abort, stateVars
<1> QED
  BY <1>4, <1>5, <1>6, <1>7

LEMMA InOrderKept ==
  ASSUME TypeOK, Kinds, OneRunAtATime, InOrder, [Next]_vars
  PROVE  InOrder'
<1>1. CASE Prompt \/ Compact \/ NavigateTree
  <2>1. PICK t \in Ops : t = ops + 1 /\ ops \in Nat
    BY <1>1, Newcomer DEF Prompt, Compact, NavigateTree, StartStructural
  <2>2. /\ \A u \in Ops : u # t => pc'[u] = pc[u]
        /\ pc'[t] \in {"snapshot", "compaction", "branch_summary"}
        /\ UNCHANGED <<session, pendingWrites, queued>>
    BY <1>1, <2>1 DEF Prompt, Compact, NavigateTree, StartStructural, TypeOK
  <2>3. pc[t] = "none"
    BY <2>1 DEF OneRunAtATime, Ops
  <2>4. Unflushed' = Unflushed
    BY <2>2, <2>3 DEF Unflushed
  <2> QED
    BY <2>2, <2>4 DEF InOrder, SavedInOrder
<1>2. CASE UNCHANGED vars
  <2>1. UNCHANGED <<session, pendingWrites, queued, pc>>
    BY <1>2 DEF vars, stateVars, opVars, histVars
  <2>2. Unflushed' = Unflushed
    BY <2>1 DEF Unflushed
  <2> QED
    BY <2>1, <2>2 DEF InOrder, SavedInOrder
<1> QED
  BY <1>1, <1>2, Steps, InOrderByOp, InOrderBeside

LEMMA InOrderInit ==
  ASSUME Init
  PROVE  InOrder /\ NothingBeside
<1>1. session = <<>> /\ pendingWrites = <<>> /\ queued = 0 /\ Unflushed = <<>>
  BY DEF Init, Unflushed
<1>2. SavedInOrder(<<>>, <<>>, 0)
  BY DEF SavedInOrder
<1>3. \A t \in Ops : pc[t] # "shift"
  BY DEF Init
<1> QED
  BY <1>1, <1>2, <1>3 DEF InOrder, NothingBeside, Init

LEMMA InOrderOnce ==
  ASSUME InOrder
  PROVE  WritesInOrderOnce
BY DEF InOrder, SavedInOrder, WritesInOrderOnce
-----------------------------------------------------------------------------
(* What is promised for the next turn is kept.                             *)

LEMMA NumbersAppended ==
  ASSUME NEW S, NEW s \in Seq(S), NEW e
  PROVE  Numbers(Append(s, e)) = Numbers(s) \union {e.n}
<1>1. PICK n \in Nat : n = Len(s)
  OBVIOUS
<1>2. Len(Append(s, e)) = n + 1 /\ \A i \in 1 .. (n + 1) : Append(s, e)[i] = IF i = n + 1 THEN e ELSE s[i]
  BY <1>1
<1>3. PICK r : r = Append(s, e)
  OBVIOUS
<1>4. Len(r) = n + 1 /\ \A i \in 1 .. (n + 1) : r[i] = IF i = n + 1 THEN e ELSE s[i]
  BY <1>2, <1>3
<1>5. {r[i].n : i \in 1 .. (n + 1)} = {s[i].n : i \in 1 .. n} \union {e.n}
  <2>1. \A i \in 1 .. (n + 1) : i = n + 1 \/ i \in 1 .. n
    OBVIOUS
  <2>2. 1 .. n \subseteq 1 .. (n + 1) /\ n + 1 \in 1 .. (n + 1) /\ n + 1 \notin 1 .. n
    OBVIOUS
  <2> QED
    BY <1>4, <2>1, <2>2
<1> QED
  BY <1>1, <1>3, <1>4, <1>5 DEF Numbers

LEMMA NumbersSplit ==
  ASSUME NEW S, NEW s \in Seq(S), s # <<>>
  PROVE  Numbers(s) = {Head(s).n} \union Numbers(Tail(s))
<1>1. PICK n \in Nat \ {0} : n = Len(s)
  OBVIOUS
<1>2. PICK r : r = Tail(s)
  OBVIOUS
<1>3. Len(r) = n - 1 /\ \A i \in 1 .. (n - 1) : r[i] = s[i + 1]
  BY <1>1, <1>2
<1>4. {s[i].n : i \in 1 .. n} = {s[1].n} \union {r[i].n : i \in 1 .. (n - 1)}
  <2>1. \A i \in 1 .. n : i = 1 \/ (i - 1 \in 1 .. (n - 1) /\ r[i - 1] = s[i])
    BY <1>3
  <2>2. \A i \in 1 .. (n - 1) : i + 1 \in 1 .. n /\ r[i] = s[i + 1]
    BY <1>3
  <2>3. 1 \in 1 .. n
    OBVIOUS
  <2> QED
    BY <2>1, <2>2, <2>3
<1> QED
  BY <1>1, <1>2, <1>3, <1>4 DEF Numbers

LEMMA NumbersJoined ==
  ASSUME NEW S, NEW s \in Seq(S), NEW r \in Seq(S)
  PROVE  Numbers(s \o r) = Numbers(s) \union Numbers(r)
<1>1. PICK n \in Nat, m \in Nat : n = Len(s) /\ m = Len(r)
  OBVIOUS
<1>2. PICK v : v = s \o r
  OBVIOUS
<1>3. Len(v) = n + m /\ \A i \in 1 .. (n + m) : v[i] = IF i <= n THEN s[i] ELSE r[i - n]
  BY <1>1, <1>2
<1>4. {v[i].n : i \in 1 .. (n + m)} = {s[i].n : i \in 1 .. n} \union {r[i].n : i \in 1 .. m}
  <2>1. \A i \in 1 .. (n + m) : (i \in 1 .. n /\ v[i] = s[i]) \/ (i - n \in 1 .. m /\ v[i] = r[i - n])
    BY <1>3
  <2>2. \A i \in 1 .. n : i \in 1 .. (n + m) /\ v[i] = s[i]
    BY <1>3
  <2>3. \A i \in 1 .. m : i + n \in 1 .. (n + m) /\ v[i + n] = r[i]
    BY <1>3
  <2> DEFINE V == {v[i].n : i \in 1 .. (n + m)}
             A == {s[i].n : i \in 1 .. n}
             B == {r[i].n : i \in 1 .. m}
  <2>4. V \subseteq A \union B
    BY <2>1
  <2>5. A \subseteq V
    BY <2>2
  <2>6. B \subseteq V
    BY <2>3
  <2> HIDE DEF V, A, B
  <2>7. V = A \union B
    BY <2>4, <2>5, <2>6
  <2> QED
    BY <2>7 DEF V, A, B
<1> QED
  BY <1>1, <1>2, <1>3, <1>4 DEF Numbers

\* The same of the messages for the next turn.
Its(e) == IF e.type = "nextTurn" THEN {e.n} ELSE {}

LEMMA NextTurnsUnion ==
  ASSUME NEW S, NEW s \in Seq(S)
  PROVE  NextTurns(s) = UNION {Its(s[i]) : i \in 1 .. Len(s)}
BY DEF NextTurns, Its

LEMMA NextTurnsAppended ==
  ASSUME NEW S, NEW s \in Seq(S), NEW e \in S
  PROVE  NextTurns(Append(s, e)) = NextTurns(s) \union Its(e)
<1>1. PICK n \in Nat : n = Len(s)
  OBVIOUS
<1>2. PICK r \in Seq(S) : r = Append(s, e)
  <2>1. Append(s, e) \in Seq(S)
    OBVIOUS
  <2> QED
    BY <2>1
<1>3. Len(r) = n + 1 /\ r[n + 1] = e /\ \A i \in 1 .. n : r[i] = s[i]
  BY <1>1, <1>2
<1>4. UNION {Its(r[i]) : i \in 1 .. (n + 1)} = (UNION {Its(s[i]) : i \in 1 .. n}) \union Its(e)
  <2>1. \A i \in 1 .. (n + 1) : i = n + 1 \/ i \in 1 .. n
    OBVIOUS
  <2>2. 1 .. n \subseteq 1 .. (n + 1) /\ n + 1 \in 1 .. (n + 1)
    OBVIOUS
  <2> QED
    BY <1>3, <2>1, <2>2
<1>5. NextTurns(r) = UNION {Its(r[i]) : i \in 1 .. (n + 1)} /\ NextTurns(s) = UNION {Its(s[i]) : i \in 1 .. n}
  BY <1>1, <1>3, NextTurnsUnion
<1> QED
  BY <1>2, <1>4, <1>5

LEMMA NextTurnsSplit ==
  ASSUME NEW S, NEW s \in Seq(S), s # <<>>
  PROVE  NextTurns(s) = Its(Head(s)) \union NextTurns(Tail(s))
<1>1. PICK n \in Nat \ {0} : n = Len(s)
  OBVIOUS
<1>2. PICK r \in Seq(S) : r = Tail(s)
  <2>1. Tail(s) \in Seq(S)
    OBVIOUS
  <2> QED
    BY <2>1
<1>3. Len(r) = n - 1 /\ (\A i \in 1 .. (n - 1) : r[i] = s[i + 1]) /\ Head(s) = s[1]
  BY <1>1, <1>2
<1>4. UNION {Its(s[i]) : i \in 1 .. n} = Its(s[1]) \union UNION {Its(r[i]) : i \in 1 .. (n - 1)}
  <2>1. \A i \in 1 .. n : i = 1 \/ (i - 1 \in 1 .. (n - 1) /\ r[i - 1] = s[i])
    BY <1>3
  <2>2. \A i \in 1 .. (n - 1) : i + 1 \in 1 .. n /\ r[i] = s[i + 1]
    BY <1>3
  <2>3. 1 \in 1 .. n
    OBVIOUS
  <2> QED
    BY <2>1, <2>2, <2>3
<1>5. NextTurns(r) = UNION {Its(r[i]) : i \in 1 .. (n - 1)} /\ NextTurns(s) = UNION {Its(s[i]) : i \in 1 .. n}
  BY <1>1, <1>3, NextTurnsUnion
<1> QED
  BY <1>2, <1>3, <1>4, <1>5

LEMMA NextTurnsJoined ==
  ASSUME NEW S, NEW s \in Seq(S), NEW r \in Seq(S)
  PROVE  NextTurns(s \o r) = NextTurns(s) \union NextTurns(r)
<1>1. PICK n \in Nat, m \in Nat : n = Len(s) /\ m = Len(r)
  OBVIOUS
<1>2. PICK v \in Seq(S) : v = s \o r
  <2>1. s \o r \in Seq(S)
    OBVIOUS
  <2> QED
    BY <2>1
<1>3. Len(v) = n + m /\ \A i \in 1 .. (n + m) : v[i] = IF i <= n THEN s[i] ELSE r[i - n]
  BY <1>1, <1>2
<1> DEFINE V == UNION {Its(v[i]) : i \in 1 .. (n + m)}
           A == UNION {Its(s[i]) : i \in 1 .. n}
           B == UNION {Its(r[i]) : i \in 1 .. m}
<1>4. V \subseteq A \union B
  <2>1. \A i \in 1 .. (n + m) : (i \in 1 .. n /\ v[i] = s[i]) \/ (i - n \in 1 .. m /\ v[i] = r[i - n])
    BY <1>3
  <2> QED
    BY <2>1
<1>5. A \subseteq V
  <2>1. \A i \in 1 .. n : i \in 1 .. (n + m) /\ v[i] = s[i]
    BY <1>3
  <2> QED
    BY <2>1
<1>6. B \subseteq V
  <2>1. \A i \in 1 .. m : i + n \in 1 .. (n + m) /\ v[i + n] = r[i]
    BY <1>3
  <2> QED
    BY <2>1
<1>7. NextTurns(v) = V /\ NextTurns(s) = A /\ NextTurns(r) = B
  BY <1>1, <1>3, NextTurnsUnion
<1> HIDE DEF V, A, B
<1> QED
  BY <1>2, <1>4, <1>5, <1>6, <1>7

\* Only a held opening has any, and its prompt is none of them.
LEMMA NoNextTurns ==
  ASSUME NEW x, x # "nextTurn", NEW s \in Seq(Of({x}))
  PROVE  NextTurns(s) = {}
<1>1. \A i \in 1 .. Len(s) : s[i] \in Of({x})
  <2> HIDE DEF Of
  <2> QED
    OBVIOUS
<1>2. \A i \in 1 .. Len(s) : s[i].type # "nextTurn"
  BY <1>1 DEF Of
<1> QED
  BY <1>2 DEF NextTurns

LEMMA OpeningNextTurns ==
  ASSUME NEW s, Opening(s)
  PROVE  NextTurns(s) \subseteq NextTurns(SubSeq(s, 1, Len(s) - 1)) /\ Numbers(s) # {}
<1>1. PICK q \in Seq(Of({"nextTurn"})), p \in Of({"prompt"}) : s = Append(q, p)
  BY DEF Opening
<1>2. PICK n \in Nat : n = Len(q)
  BY <1>1
<1>3. Len(s) = n + 1 /\ s[n + 1] = p /\ p.type # "nextTurn"
  BY <1>1, <1>2 DEF Of
<1>4. s \in Seq(EntrySet)
  BY Openings
<1>5. PICK r \in Seq(EntrySet) : r = SubSeq(s, 1, n)
  <2>1. SubSeq(s, 1, n) \in Seq(EntrySet)
    BY <1>2, <1>3, <1>4
  <2> QED
    BY <2>1
<1>6. Len(r) = n /\ \A i \in 1 .. n : r[i] = s[i]
  BY <1>2, <1>3, <1>4, <1>5
<1>7. \A i \in 1 .. Len(s) : s[i].type = "nextTurn" => i \in 1 .. Len(r) /\ r[i] = s[i]
  BY <1>3, <1>6
<1>8. NextTurns(s) \subseteq NextTurns(r)
  BY <1>7 DEF NextTurns
<1>9. n + 1 \in 1 .. Len(s) /\ Len(s) - 1 = n
  BY <1>2, <1>3
<1> QED
  BY <1>5, <1>8, <1>9 DEF Numbers

\* Few steps move messages.
LEMMA WhoMoves ==
  ASSUME NEW t \in Ops, OpStep(t)
  PROVE  /\ held' = held \/ Snapshot(t) \/ RecordMessage(t) \/ PollSteering(t) \/ PollFollowUps(t)
         /\ nextTurnQueue' = nextTurnQueue \/ Snapshot(t)
         /\ steerQueue' = steerQueue \/ PollSteering(t)
         /\ followUpQueue' = followUpQueue \/ PollFollowUps(t)
         /\ faults' = faults /\ lost' = lost
<1> USE DEF stateVars, queueVars, runVars, snapVars, opVars, histVars
<1>1. CASE \/ BuildContext(t) \/ Snapshot(t) \/ QueueUpdateSent(t) \/ StartRun(t)
           \/ RecordMessage(t) \/ AllRecorded(t)
  BY <1>1 DEF BuildContext, Snapshot, QueueUpdateSent, StartRun, RecordMessage, AllRecorded, Goto
<1>2. CASE \/ PollSteering(t) \/ DrainSent(t) \/ Inject(t) \/ PollFollowUps(t) \/ Stop(t)
           \/ Respond(t) \/ TurnEnd(t) \/ SavePoint(t) \/ Refresh(t) \/ FlushAppend(t)
           \/ FlushShift(t) \/ Flushed(t)
  BY <1>2 DEF PollSteering, DrainSent, Inject, PollFollowUps, Stop, Respond, TurnEnd, SavePoint,
              Refresh, FlushAppend, FlushShift, Flushed, Goto
<1>3. CASE \/ BecomeIdle(t) \/ ListenersDone(t) \/ ClearController(t) \/ Catch(t) \/ Settle(t)
           \/ ReportFailure(t) \/ StructuralWork(t) \/ Release(t)
  BY <1>3 DEF BecomeIdle, ListenersDone, ClearController, Catch, Settle, ReportFailure,
              StructuralWork, Release, Goto
<1> QED
  BY <1>1, <1>2, <1>3 DEF OpStep

\* An operation that records what it was given does nothing else.
LEMMA Announcing ==
  ASSUME NEW t \in Ops, OpStep(t), pc[t] = "announce", held[t] # <<>>
  PROVE  RecordMessage(t)
BY DEF OpStep, BuildContext, Snapshot, QueueUpdateSent, StartRun, RecordMessage, AllRecorded,
       PollSteering, DrainSent, Inject, PollFollowUps, Stop, Respond, TurnEnd, SavePoint, Refresh,
       FlushAppend, FlushShift, Flushed, BecomeIdle, ListenersDone, ClearController, Catch, Settle,
       ReportFailure, StructuralWork, Release

LEMMA FollowedOn ==
  ASSUME NEW s \in Seq(EntrySet), NEW e \in EntrySet, Followed(s),
         Ends(s, "nextTurn") => e.type \in {"nextTurn", "prompt"}
  PROVE  Followed(Append(s, e)) /\ (Ends(Append(s, e), "nextTurn") => e.type = "nextTurn")
<1>1. PICK n \in Nat : n = Len(s)
  OBVIOUS
<1>2. PICK r : r = Append(s, e)
  OBVIOUS
<1>3. Len(r) = n + 1 /\ r[n + 1] = e /\ (\A k \in 1 .. n : r[k] = s[k]) /\ r # <<>>
  BY <1>1, <1>2
<1>4. ASSUME NEW i \in 1 .. n, r[i].type = "nextTurn"
      PROVE  r[i + 1].type \in {"nextTurn", "prompt"}
  <2>1. CASE i = n
    <3>1. s # <<>> /\ s[n].type = "nextTurn"
      BY <1>1, <1>3, <1>4, <2>1
    <3> QED
      BY <1>1, <1>3, <2>1, <3>1 DEF Ends
  <2>2. CASE i # n
    <3>1. i \in 1 .. (n - 1) /\ i + 1 \in 1 .. n
      BY <2>2
    <3> QED
      BY <1>1, <1>3, <1>4, <3>1 DEF Followed
  <2> QED
    BY <2>1, <2>2
<1>5. Followed(r)
  BY <1>3, <1>4 DEF Followed
<1>6. Ends(r, "nextTurn") => e.type = "nextTurn"
  BY <1>3 DEF Ends
<1> QED
  BY <1>2, <1>5, <1>6

\* What a step of an operation appends, and of what type.
LEMMA AppendedTypes ==
  ASSUME TypeOK, Kinds, NEW t \in Ops, OpStep(t)
  PROVE  \/ session' = session
         \/ /\ RecordMessage(t) /\ Head(held[t]) \in EntrySet
            /\ session' = Append(session, Head(held[t]))
            /\ pc[t] = "announce" => Opening(held[t]) /\ Head(held[t]).type \in {"nextTurn", "prompt"}
            /\ pc[t] = "inject" => Head(held[t]).type \in {"steer", "followUp"}
         \/ /\ ~RecordMessage(t)
            /\ \E e \in EntrySet : e.type \notin Lanes /\ session' = Append(session, e)
<1>1. CASE RecordMessage(t)
  <2>1. Holds(t) /\ held[t] # <<>> /\ held[t] \in Seq(EntrySet) /\ pc[t] \in {"announce", "inject"}
    BY <1>1 DEF Kinds, RecordMessage, TypeOK
  <2>2. pc[t] = "announce" => Opening(held[t]) /\ Head(held[t]).type \in {"nextTurn", "prompt"}
    <3>1. pc[t] = "announce" => Opening(held[t])
      BY <2>1 DEF Holds
    <3>2. Opening(held[t]) => Head(held[t]) \in Of({"nextTurn", "prompt"})
      BY Openings
    <3> QED
      BY <3>1, <3>2 DEF Of
  <2>3. pc[t] = "inject" => Head(held[t]).type \in {"steer", "followUp"}
    <3> SUFFICES ASSUME pc[t] = "inject"
                 PROVE  Head(held[t]).type \in {"steer", "followUp"}
      OBVIOUS
    <3>1. held[t] \in Seq(Of({"steer"})) \/ held[t] \in Seq(Of({"followUp"}))
      BY <2>1 DEF Holds
    <3>2. Head(held[t]) \in Of({"steer"}) \/ Head(held[t]) \in Of({"followUp"})
      <4> HIDE DEF Of
      <4> QED
        BY <2>1, <3>1
    <3> QED
      BY <3>2 DEF Of
  <2>4. Head(held[t]) \in EntrySet
    BY <2>1
  <2> QED
    BY <1>1, <2>2, <2>3, <2>4 DEF RecordMessage
<1>2. CASE Respond(t) \/ ReportFailure(t)
  <2>1. Entry("assistant", t, 0) \in EntrySet /\ Entry("assistant", t, 0).type \notin Lanes
    BY EntryTypes DEF Entry, Lanes
  <2>2. ~RecordMessage(t)
    BY <1>2 DEF Respond, ReportFailure, RecordMessage
  <2> QED
    BY <1>2, <2>1, <2>2 DEF Respond, ReportFailure
<1>3. CASE StructuralWork(t)
  <2>1. Entry(pc[t], t, 0) \in EntrySet /\ Entry(pc[t], t, 0).type \notin Lanes
    BY <1>3, EntryTypes DEF Entry, StructuralWork, Lanes
  <2>2. ~RecordMessage(t)
    BY <1>3 DEF StructuralWork, RecordMessage
  <2> QED
    BY <1>3, <2>1, <2>2 DEF StructuralWork
<1>4. CASE FlushAppend(t)
  <2>1. Head(pendingWrites) \in Writes
    BY <1>4 DEF FlushAppend, Kinds
  <2>2. Head(pendingWrites) \in EntrySet /\ Head(pendingWrites).type \notin Lanes
    BY <2>1 DEF Writes, EntrySet, Lanes
  <2>3. ~RecordMessage(t)
    BY <1>4 DEF FlushAppend, RecordMessage
  <2> QED
    BY <1>4, <2>2, <2>3 DEF FlushAppend
<1> QED
  BY <1>1, <1>2, <1>3, <1>4, WhoAppends DEF ByOp

\* A promised message stays in the queue, with an operation or in the session.
LEMMA PromiseMoves ==
  ASSUME TypeOK, Kinds, NEW t \in Ops, OpStep(t)
  PROVE  /\ NextTurns(session) \subseteq NextTurns(session)'
         /\ NextTurns(nextTurnQueue) \subseteq NextTurns(nextTurnQueue)' \union NextTurns(held[t])'
         /\ NextTurns(held[t]) \subseteq NextTurns(held[t])' \union NextTurns(session)'
<1> USE DEF TypeOK
<1>1. NextTurns(session) \subseteq NextTurns(session)'
  <2>1. session' = session \/ \E e \in EntrySet : session' = Append(session, e)
    BY AppendedTypes
  <2>2. ASSUME NEW e \in EntrySet, session' = Append(session, e)
        PROVE  NextTurns(session) \subseteq NextTurns(session')
    <3>1. NextTurns(Append(session, e)) = NextTurns(session) \union Its(e)
      BY NextTurnsAppended
    <3> QED
      BY <2>2, <3>1
  <2>3. NextTurns(session)' = NextTurns(session')
    BY DEF NextTurns
  <2>4. CASE session' = session
    BY <2>3, <2>4
  <2>5. CASE session' # session
    <3>1. PICK e \in EntrySet : session' = Append(session, e)
      BY <2>1, <2>5
    <3> QED
      BY <2>2, <2>3, <3>1
  <2> QED
    BY <2>4, <2>5
<1>2. NextTurns(held[t])' = NextTurns(held'[t]) /\ NextTurns(nextTurnQueue)' = NextTurns(nextTurnQueue')
      /\ NextTurns(session)' = NextTurns(session')
  BY DEF NextTurns
<1>3. Holds(t) /\ NextTurns(<<>>) = {}
  BY DEF Kinds, NextTurns
<1>4. CASE Snapshot(t)
  <2>1. held'[t] = nextTurnQueue \o held[t]
    BY <1>4 DEF Snapshot
  <2>2. NextTurns(nextTurnQueue \o held[t]) = NextTurns(nextTurnQueue) \union NextTurns(held[t])
    BY NextTurnsJoined
  <2> QED
    BY <1>1, <1>2, <2>1, <2>2
<1>5. CASE RecordMessage(t)
  <2>1. held[t] # <<>> /\ held'[t] = Tail(held[t]) /\ session' = Append(session, Head(held[t])) /\ nextTurnQueue' = nextTurnQueue
    BY <1>5 DEF RecordMessage, queueVars
  <2>2. NextTurns(held[t]) = Its(Head(held[t])) \union NextTurns(Tail(held[t]))
    BY <2>1, NextTurnsSplit
  <2>3. NextTurns(Append(session, Head(held[t]))) = NextTurns(session) \union Its(Head(held[t]))
    <3>1. Head(held[t]) \in EntrySet
      BY <2>1
    <3> QED
      BY <3>1, NextTurnsAppended
  <2> QED
    BY <1>1, <1>2, <2>1, <2>2, <2>3
<1>6. CASE PollSteering(t)
  <2>1. held[t] = <<>> /\ nextTurnQueue' = nextTurnQueue
    BY <1>3, <1>6 DEF PollSteering, Holds
  <2> QED
    BY <1>1, <1>2, <1>3, <2>1
<1>7. CASE PollFollowUps(t)
  <2>1. held[t] = <<>> /\ nextTurnQueue' = nextTurnQueue
    BY <1>7 DEF PollFollowUps
  <2> QED
    BY <1>1, <1>2, <1>3, <2>1
<1> QED
  BY <1>1, <1>2, <1>4, <1>5, <1>6, <1>7, WhoMoves

LEMMA NextTurnByOp ==
  ASSUME TypeOK, Kinds, OneRunAtATime, NextTurnHeld, NEW t \in Ops, OpStep(t)
  PROVE  NextTurnHeld'
<1>0. lost' = lost /\ promised' = promised /\ session \in Seq(EntrySet)
  BY WhoMoves, StepsAreOfOne DEF ByOp, TypeOK
<1>a. /\ \A n \in promised : \/ n \in NextTurns(nextTurnQueue) \/ n \in NextTurns(session)
                             \/ n \in lost \/ \E u \in Ops : n \in NextTurns(held[u])
      /\ lost = {} => Followed(session)
      /\ lost = {} /\ Ends(session, "nextTurn") => \E u \in Ops : pc[u] = "announce" /\ held[u] # <<>>
  BY <1>0 DEF NextTurnHeld
<1>1. ASSUME NEW n \in promised
      PROVE  \/ n \in NextTurns(nextTurnQueue)' \/ n \in NextTurns(session)'
             \/ n \in lost' \/ \E u \in Ops : n \in NextTurns(held[u])'
  <2>1. CASE n \in NextTurns(nextTurnQueue) \/ n \in NextTurns(session) \/ n \in NextTurns(held[t])
    BY <2>1, PromiseMoves
  <2>2. CASE \E u \in Ops : u # t /\ n \in NextTurns(held[u])
    <3>1. PICK u \in Ops : u # t /\ n \in NextTurns(held[u])
      BY <2>2
    <3>2. held'[u] = held[u]
      BY <3>1, StepsAreOfOne DEF ByOp
    <3>3. NextTurns(held[u])' = NextTurns(held[u])
      BY <3>2 DEF NextTurns
    <3> QED
      BY <3>1, <3>3
  <2> QED
    BY <1>0, <1>a, <2>1, <2>2
<1>2. lost = {} /\ Ends(session, "nextTurn") => pc[t] = "announce" /\ held[t] # <<>> /\ RecordMessage(t)
  <2>1. pc[t] \notin {"none", "done"}
    BY StepsAreOfOne DEF ByOp
  <2>2. \A u \in Ops : u # t => pc[u] \in {"none", "done"}
    BY <2>1, Alone
  <2>3. lost = {} /\ Ends(session, "nextTurn") => pc[t] = "announce" /\ held[t] # <<>>
    BY <1>a, <2>2
  <2> QED
    BY <2>3, Announcing
<1>3. CASE session' = session
  <2>1. lost = {} => ~Ends(session, "nextTurn")
    <3>1. ~RecordMessage(t)
      <4>1. PICK n \in Nat : n = Len(session)
        BY <1>0
      <4>2. \A e \in EntrySet : Len(Append(session, e)) = n + 1
        BY <1>0, <4>1
      <4>3. \A e \in EntrySet : Append(session, e) # session
        BY <4>1, <4>2
      <4> QED
        BY <1>3, <4>3 DEF RecordMessage, TypeOK
    <3> QED
      BY <1>2, <3>1
  <2> QED
    BY <1>0, <1>1, <1>3, <1>a, <2>1 DEF NextTurnHeld, Followed, Ends
<1>4. ASSUME NEW e \in EntrySet, session' = Append(session, e),
             lost = {} /\ Ends(session, "nextTurn") => e.type \in {"nextTurn", "prompt"},
             e.type = "nextTurn" => pc'[t] = "announce" /\ held'[t] # <<>>
      PROVE  NextTurnHeld'
  <2>1. lost = {} =>
          Followed(Append(session, e)) /\ (Ends(Append(session, e), "nextTurn") => e.type = "nextTurn")
    BY <1>0, <1>4, <1>a, FollowedOn
  <2>2. lost = {} => Followed(session') /\ (Ends(session', "nextTurn") => pc'[t] = "announce" /\ held'[t] # <<>>)
    BY <1>4, <2>1
  <2> QED
    BY <1>0, <1>1, <2>2 DEF NextTurnHeld, Followed, Ends
<1>5. CASE RecordMessage(t) /\ session' # session
  <2>1. /\ Head(held[t]) \in EntrySet /\ session' = Append(session, Head(held[t]))
        /\ pc[t] \in {"announce", "inject"} /\ pc' = pc /\ held'[t] = Tail(held[t])
        /\ pc[t] = "announce" => Opening(held[t]) /\ Head(held[t]).type \in {"nextTurn", "prompt"}
        /\ pc[t] = "inject" => Head(held[t]).type \in {"steer", "followUp"}
    <3>1. pc[t] \in {"announce", "inject"} /\ pc' = pc /\ held'[t] = Tail(held[t])
      BY <1>5 DEF RecordMessage, TypeOK
    <3> QED
      BY <1>5, <3>1, AppendedTypes
  <2>2. Head(held[t]).type = "nextTurn" => pc'[t] = "announce" /\ held'[t] # <<>>
    <3> SUFFICES ASSUME Head(held[t]).type = "nextTurn"
                 PROVE  pc'[t] = "announce" /\ held'[t] # <<>>
      OBVIOUS
    <3>1. Opening(held[t]) /\ pc[t] = "announce"
      BY <2>1
    <3>2. Opening(Tail(held[t]))
      BY <3>1, Openings
    <3>3. Tail(held[t]) # <<>>
      BY <3>2, Openings
    <3> QED
      BY <2>1, <3>1, <3>3
  <2> QED
    BY <1>2, <1>4, <2>1, <2>2
<1>6. CASE ~RecordMessage(t) /\ session' # session
  <2>1. PICK e \in EntrySet : e.type \notin Lanes /\ session' = Append(session, e)
    BY <1>6, AppendedTypes
  <2>2. e.type # "nextTurn"
    BY <2>1 DEF Lanes
  <2> QED
    BY <1>2, <1>4, <1>6, <2>1, <2>2
<1> QED
  BY <1>3, <1>5, <1>6

LEMMA NextTurnBeside ==
  ASSUME TypeOK, Kinds, OneRunAtATime, NothingBeside, NextTurnHeld, Beside
  PROVE  NextTurnHeld'
<1>0. pc' = pc /\ held' = held /\ session \in Seq(EntrySet) /\ nextTurnQueue \in Seq(EntrySet)
  BY BesideKeeps DEF TypeOK
<1>1. CASE UNCHANGED <<session, nextTurnQueue, promised, lost>>
  BY <1>0, <1>1 DEF NextTurnHeld, NextTurns, Followed, Ends
<1>2. ASSUME NEW e \in inFlight, WriteDone(e)
      PROVE  NextTurnHeld'
  <2>1. e \in EntrySet /\ e.type \in {"config", "note"}
    BY DEF Kinds, Of, EntrySet
  <2>2. session' = Append(session, e) /\ UNCHANGED <<nextTurnQueue, promised, lost>>
    BY <1>2 DEF WriteDone, queueVars, histVars
  <2>3. phase = "idle"
    BY <1>2 DEF NothingBeside
  <2>4. \A u \in Ops : pc[u] # "announce"
    BY <2>3 DEF OneRunAtATime, OnRun, InRun
  <2>5. lost = {} => Followed(session) /\ ~Ends(session, "nextTurn")
    BY <2>2, <2>4 DEF NextTurnHeld
  <2>6. lost = {} => Followed(Append(session, e)) /\ ~Ends(Append(session, e), "nextTurn")
    BY <1>0, <2>1, <2>5, FollowedOn
  <2>7. NextTurns(session) \subseteq NextTurns(session')
    <3>1. NextTurns(Append(session, e)) = NextTurns(session) \union Its(e)
      BY <1>0, <2>1, NextTurnsAppended
    <3> QED
      BY <2>2, <3>1
  <2>8. lost = {} => Followed(session') /\ ~Ends(session', "nextTurn")
    BY <2>2, <2>6
  <2>9. \A n \in promised : n \in NextTurns(nextTurnQueue) \union NextTurns(session') \union lost
                                 \union UNION {NextTurns(held[t]) : t \in Ops}
    BY <2>2, <2>7 DEF NextTurnHeld
  <2> QED
    BY <1>0, <2>2, <2>8, <2>9 DEF NextTurnHeld, NextTurns, Followed, Ends
<1>3. CASE NextTurn
  <2>1. PICK e \in EntrySet : e = User("nextTurn", accepted + 1)
    BY EntryTypes DEF TypeOK, Lanes
  <2>2. nextTurnQueue' = Append(nextTurnQueue, e) /\ promised' = promised \union {e.n} /\ UNCHANGED <<session, lost>>
    BY <1>3, <2>1 DEF NextTurn, stateVars, User, Entry
  <2>3. NextTurns(nextTurnQueue') = NextTurns(nextTurnQueue) \union {e.n}
    <3>1. NextTurns(Append(nextTurnQueue, e)) = NextTurns(nextTurnQueue) \union {e.n}
      BY <1>0, <2>1, NextTurnsAppended DEF Its, User, Entry
    <3> QED
      BY <2>2, <3>1
  <2>4. \A n \in promised' : n \in NextTurns(nextTurnQueue') \union NextTurns(session) \union lost
                                  \union UNION {NextTurns(held[t]) : t \in Ops}
    BY <2>2, <2>3 DEF NextTurnHeld
  <2> QED
    BY <1>0, <2>2, <2>4 DEF NextTurnHeld, NextTurns, Followed, Ends
<1>4. \/ UNCHANGED <<session, nextTurnQueue, promised, lost>> \/ NextTurn
      \/ \E e \in inFlight : WriteDone(e)
  BY DEF Beside, WriteWhileBusy, WriteWhileIdle, WriteFails, Steer, FollowUp, Abort, stateVars,
         queueVars, histVars
<1> QED
  BY <1>1, <1>2, <1>3, <1>4

\* An operation that fails puts them back, has none, or is the exception.
LEMMA NextTurnThrow ==
  ASSUME TypeOK, Kinds, OneRunAtATime, NextTurnHeld, NEW t \in Ops, Throw(t)
  PROVE  NextTurnHeld'
<1>1. /\ held'[t] = <<>> /\ session' = session /\ promised' = promised
      /\ \A u \in Ops : u # t => held'[u] = held[u] /\ pc'[u] = pc[u]
  <2>1. held' = [held EXCEPT ![t] = <<>>] /\ session' = session
    BY WhereItThrows
  <2>2. promised' = promised /\ \A u \in Ops : u # t => held'[u] = held[u] /\ pc'[u] = pc[u]
    BY StepsAreOfOne DEF ByOp
  <2>3. held'[t] = <<>>
    BY <2>1 DEF TypeOK
  <2> QED
    BY <2>1, <2>2, <2>3
<1>2. lost' = IF pc[t] \in {"hook", "announce"} THEN lost \union Numbers(held[t]) ELSE lost
  BY DEF Throw
<1>3. Holds(t)
  BY DEF Kinds
<1>4. NextTurns(held[t]) \subseteq NextTurns(nextTurnQueue') \union lost'
  <2>1. CASE pc[t] = "queued"
    <3>1. PICK q : q = SubSeq(held[t], 1, Len(held[t]) - 1)
      OBVIOUS
    <3>2. nextTurnQueue' = q \o nextTurnQueue
      BY <2>1, <3>1 DEF Throw, RollBack
    <3>3. Opening(held[t])
      BY <1>3, <2>1 DEF Holds
    <3>4. q \in Seq(EntrySet) /\ nextTurnQueue \in Seq(EntrySet)
      <4>1. q \in Seq(Of({"nextTurn"}))
        BY <3>1, <3>3, Openings
      <4> QED
        BY <4>1, KindFacts DEF TypeOK
    <3>5. NextTurns(q \o nextTurnQueue) = NextTurns(q) \union NextTurns(nextTurnQueue)
      BY <3>4, NextTurnsJoined
    <3> QED
      BY <3>1, <3>2, <3>3, <3>5, OpeningNextTurns
  <2>2. CASE pc[t] \in {"hook", "announce"}
    BY <1>2, <2>2 DEF NextTurns, Numbers
  <2>3. CASE pc[t] \in {"snapshot", "resolve"}
    <3>1. PICK p \in Of({"prompt"}) : held[t] = <<p>>
      BY <1>3, <2>3 DEF Holds
    <3>2. held[t] \in Seq(Of({"prompt"}))
      BY <3>1
    <3> QED
      BY <3>2, NoNextTurns
  <2>4. CASE pc[t] \notin {"queued", "hook", "announce", "snapshot", "resolve"}
    <3>1. held[t] = <<>> \/ held[t] \in Seq(Of({"steer"})) \/ held[t] \in Seq(Of({"followUp"}))
      BY <1>3, <2>4 DEF Holds
    <3>2. NextTurns(<<>>) = {}
      BY DEF NextTurns
    <3>3. held[t] \in Seq(Of({"steer"})) => NextTurns(held[t]) = {}
      BY NoNextTurns
    <3>4. held[t] \in Seq(Of({"followUp"})) => NextTurns(held[t]) = {}
      BY NoNextTurns
    <3> QED
      BY <3>1, <3>2, <3>3, <3>4
  <2> QED
    BY <2>1, <2>2, <2>3, <2>4
<1>5. NextTurns(nextTurnQueue) \subseteq NextTurns(nextTurnQueue')
  <2>1. CASE pc[t] = "queued"
    <3>1. PICK q : q = SubSeq(held[t], 1, Len(held[t]) - 1)
      OBVIOUS
    <3>2. nextTurnQueue' = q \o nextTurnQueue
      BY <2>1, <3>1 DEF Throw, RollBack
    <3>3. Opening(held[t])
      BY <1>3, <2>1 DEF Holds
    <3>4. q \in Seq(EntrySet) /\ nextTurnQueue \in Seq(EntrySet)
      <4>1. q \in Seq(Of({"nextTurn"}))
        BY <3>1, <3>3, Openings
      <4> QED
        BY <4>1, KindFacts DEF TypeOK
    <3>5. NextTurns(q \o nextTurnQueue) = NextTurns(q) \union NextTurns(nextTurnQueue)
      BY <3>4, NextTurnsJoined
    <3> QED
      BY <3>2, <3>5
  <2>2. CASE pc[t] # "queued"
    <3>1. nextTurnQueue' = nextTurnQueue
      BY <2>2 DEF Throw, RollBack, queueVars
    <3> QED
      BY <3>1
  <2> QED
    BY <2>1, <2>2
<1>6. lost \subseteq lost'
  BY <1>2
<1>7. \A n \in promised : n \in NextTurns(nextTurnQueue') \union NextTurns(session) \union lost'
                               \union UNION {NextTurns(held'[u]) : u \in Ops}
  <2> SUFFICES ASSUME NEW n \in promised
               PROVE  \/ n \in NextTurns(nextTurnQueue') \union NextTurns(session) \union lost'
                      \/ \E u \in Ops : n \in NextTurns(held'[u])
    OBVIOUS
  <2>1. CASE n \in NextTurns(nextTurnQueue) \union NextTurns(session) \union lost
    BY <1>5, <1>6, <2>1
  <2>2. CASE \E u \in Ops : n \in NextTurns(held[u])
    <3>1. PICK u \in Ops : n \in NextTurns(held[u])
      BY <2>2
    <3>2. CASE u = t
      BY <1>4, <3>1, <3>2
    <3>3. CASE u # t
      BY <1>1, <3>1, <3>3
    <3> QED
      BY <3>2, <3>3
  <2> QED
    BY <2>1, <2>2 DEF NextTurnHeld
<1>8. ASSUME lost' = {}
      PROVE  Followed(session) /\ ~Ends(session, "nextTurn")
  <2>1. lost = {}
    BY <1>6, <1>8
  <2>2. \A u \in Ops : pc[u] = "announce" => u = t
    <3>1. pc[t] \notin {"none", "done"}
      BY WhereItThrows DEF MayThrow
    <3> QED
      BY <3>1, Alone
  <2>3. pc[t] = "announce" => held[t] = <<>>
    <3>1. pc[t] = "announce" /\ held[t] # <<>> => Opening(held[t])
      BY <1>3 DEF Holds
    <3>2. pc[t] = "announce" /\ held[t] # <<>> => Numbers(held[t]) # {}
      BY <3>1, OpeningNextTurns
    <3>3. pc[t] = "announce" => Numbers(held[t]) = {}
      BY <1>2, <1>8
    <3> QED
      BY <3>2, <3>3
  <2> QED
    BY <2>1, <2>2, <2>3 DEF NextTurnHeld
<1>9. \A n \in promised' : n \in NextTurns(nextTurnQueue)' \union NextTurns(session)' \union lost'
                                \union UNION {NextTurns(held[u]) : u \in Ops}'
  BY <1>1, <1>7 DEF NextTurns
<1>10. Followed(session)' = Followed(session) /\ Ends(session, "nextTurn")' = Ends(session, "nextTurn")
  BY <1>1 DEF Followed, Ends
<1> QED
  BY <1>8, <1>9, <1>10 DEF NextTurnHeld

LEMMA NextTurnKept ==
  ASSUME TypeOK, Kinds, OneRunAtATime, NothingBeside, NextTurnHeld, ~Overlap, [Next]_vars
  PROVE  NextTurnHeld'
<1>1. CASE Prompt \/ Compact \/ NavigateTree
  <2>1. PICK t \in Ops : t = ops + 1 /\ ops \in Nat
    BY <1>1, Newcomer DEF Prompt, Compact, NavigateTree, StartStructural
  <2>2. /\ \A u \in Ops : u # t => held'[u] = held[u]
        /\ UNCHANGED <<session, nextTurnQueue, promised, lost>>
    BY <1>1, <2>1 DEF Prompt, Compact, NavigateTree, StartStructural, TypeOK, queueVars
  <2>3. held[t] = <<>>
    BY <2>1 DEF Kinds, Holds
  <2>4. \A u \in Ops : pc[u] \in {"none", "done"}
    BY <1>1 DEF Prompt, Compact, NavigateTree, StartStructural, MayStart, Running, Started, Over
  <2>5. \A u \in Ops : NextTurns(held[u]) \subseteq NextTurns(held'[u])
    BY <2>2, <2>3 DEF NextTurns
  <2>6. lost = {} => ~Ends(session, "nextTurn") /\ Followed(session)
    BY <2>4 DEF NextTurnHeld
  <2>7. \A n \in promised :
          n \in NextTurns(nextTurnQueue) \union NextTurns(session) \union lost \union UNION {NextTurns(held'[t_1]) : t_1 \in Ops}
    BY <2>5 DEF NextTurnHeld
  <2> QED
    BY <2>2, <2>6, <2>7 DEF NextTurnHeld, NextTurns, Followed, Ends
<1>2. ASSUME NEW t \in Ops, Throw(t)
      PROVE  NextTurnHeld'
  BY <1>2, NextTurnThrow
<1>3. CASE UNCHANGED vars
  BY <1>3 DEF vars, stateVars, queueVars, opVars, histVars, NextTurnHeld, NextTurns, Followed, Ends
<1> QED
  BY <1>1, <1>2, <1>3, Steps, NextTurnByOp, NextTurnBeside DEF ByOp

LEMMA NextTurnInit ==
  ASSUME Init
  PROVE  NextTurnHeld
BY DEF Init, NextTurnHeld, Followed, Ends

LEMMA NextTurnSafe ==
  ASSUME NextTurnHeld
  PROVE  NextTurnSurvives
BY DEF NextTurnHeld, NextTurnSurvives, Followed
-----------------------------------------------------------------------------
(* Requests are made of what the session holds.                            *)

LEMMA NewestAppended ==
  ASSUME NEW s \in Seq(EntrySet), NEW e \in EntrySet, NEW k,
         Newest(s, k), e.type = "config" => e.n <= k
  PROVE  Newest(Append(s, e), k)
<1>1. PICK n \in Nat : n = Len(s)
  OBVIOUS
<1>2. PICK r : r = Append(s, e)
  OBVIOUS
<1>3. Len(r) = n + 1 /\ r[n + 1] = e /\ \A i \in 1 .. n : r[i] = s[i]
  BY <1>1, <1>2
<1>4. \A i \in 1 .. (n + 1) : i = n + 1 \/ i \in 1 .. n
  OBVIOUS
<1>5. Newest(r, k)
  BY <1>1, <1>3, <1>4 DEF Newest
<1> QED
  BY <1>2, <1>5

LEMMA NewestTail ==
  ASSUME NEW s \in Seq(EntrySet), NEW k, Newest(s, k), s # <<>>
  PROVE  Newest(Tail(s), k) /\ (Head(s).type = "config" => Head(s).n <= k)
<1>1. PICK n \in Nat \ {0} : n = Len(s)
  OBVIOUS
<1>2. PICK r : r = Tail(s)
  OBVIOUS
<1>3. Len(r) = n - 1 /\ (\A i \in 1 .. (n - 1) : r[i] = s[i + 1] /\ i + 1 \in 1 .. n)
  BY <1>1, <1>2
<1>4. Newest(r, k)
  BY <1>1, <1>3 DEF Newest
<1>5. Head(s) = s[1] /\ 1 \in 1 .. n
  BY <1>1
<1> QED
  BY <1>1, <1>2, <1>4, <1>5 DEF Newest

LEMMA NewestRaised ==
  ASSUME NEW s \in Seq(EntrySet), NEW k \in Nat, NEW m \in Nat, k <= m, Newest(s, k)
  PROVE  Newest(s, m)
<1>1. \A i \in 1 .. Len(s) : s[i].n \in Nat
  <2>1. \A i \in 1 .. Len(s) : s[i] \in EntrySet
    OBVIOUS
  <2> QED
    BY <2>1 DEF EntrySet
<1> QED
  BY <1>1 DEF Newest

\* Moving the head from the right to the left changes nothing of the whole.
LEMMA HeadMoves ==
  ASSUME NEW c \in Seq(EntrySet), NEW h \in Seq(EntrySet), h # <<>>
  PROVE  Append(c, Head(h)) \o Tail(h) = c \o h
<1>1. PICK n \in Nat, m \in Nat \ {0} : n = Len(c) /\ m = Len(h)
  OBVIOUS
<1>2. Append(c, Head(h)) \in Seq(EntrySet) /\ Tail(h) \in Seq(EntrySet)
  OBVIOUS
<1>3. PICK a \in Seq(EntrySet) : a = Append(c, Head(h))
  BY <1>2
<1>4. PICK b \in Seq(EntrySet) : b = Tail(h)
  BY <1>2
<1>5. Len(a) = n + 1 /\ a[n + 1] = h[1] /\ \A i \in 1 .. n : a[i] = c[i]
  BY <1>1, <1>3
<1>6. Len(b) = m - 1 /\ \A i \in 1 .. (m - 1) : b[i] = h[i + 1]
  BY <1>1, <1>4
<1>7. a \o b \in Seq(EntrySet) /\ c \o h \in Seq(EntrySet)
  OBVIOUS
<1>8. Len(a \o b) = n + m /\ Len(c \o h) = n + m
  <2>1. Len(a \o b) = Len(a) + Len(b) /\ Len(c \o h) = Len(c) + Len(h)
    OBVIOUS
  <2>2. n \in Nat /\ m \in Nat
    BY <1>1
  <2> QED
    BY <1>1, <1>5, <1>6, <2>1, <2>2
<1>9. ASSUME NEW i \in 1 .. (n + m)
      PROVE  (a \o b)[i] = (c \o h)[i]
  <2>1. (c \o h)[i] = IF i <= n THEN c[i] ELSE h[i - n]
    BY <1>1
  <2>2. (a \o b)[i] = IF i <= n + 1 THEN a[i] ELSE b[i - (n + 1)]
    BY <1>5, <1>6
  <2>3. CASE i <= n
    BY <1>5, <2>1, <2>2, <2>3
  <2>4. CASE i = n + 1
    <3>1. i - n = 1
      BY <2>4
    <3> QED
      BY <1>5, <2>1, <2>2, <2>4, <3>1
  <2>5. CASE i > n + 1
    <3>1. i - (n + 1) \in 1 .. (m - 1) /\ i - (n + 1) + 1 = i - n
      BY <2>5
    <3>2. b[i - (n + 1)] = h[i - n]
      BY <1>6, <3>1
    <3> QED
      BY <2>1, <2>2, <2>5, <3>2
  <2>6. i <= n \/ i = n + 1 \/ i > n + 1
    <3>1. n \in Nat /\ m \in Nat
      BY <1>1
    <3>2. i \in Int
      BY <3>1
    <3> QED
      BY <3>1, <3>2
  <2> QED
    BY <2>3, <2>4, <2>5, <2>6
<1>10. a \o b = c \o h
  BY <1>7, <1>8, <1>9, SeqEqual
<1> QED
  BY <1>3, <1>4, <1>10

\* A recorded config is not newer than the current one.
LEMMA NewestByOp ==
  ASSUME TypeOK, Kinds, Known, NEW t \in Ops, ByOp(t)
  PROVE  Newest(session', config) /\ Newest(pendingWrites', config)
<1>0. /\ session \in Seq(EntrySet) /\ pendingWrites \in Seq(EntrySet)
      /\ Newest(session, config) /\ Newest(pendingWrites, config)
  BY DEF TypeOK, Known
<1>1. Newest(pendingWrites', config)
  <2>1. pendingWrites' = pendingWrites \/ (pendingWrites # <<>> /\ pendingWrites' = Tail(pendingWrites))
    BY WhoAppends DEF FlushShift
  <2> QED
    BY <1>0, <2>1, NewestTail
<1>2. CASE FlushAppend(t)
  <2>1. session' = Append(session, Head(pendingWrites)) /\ pendingWrites # <<>>
    BY <1>2 DEF FlushAppend
  <2>2. Head(pendingWrites) \in EntrySet
    BY <1>0, <2>1
  <2>3. Head(pendingWrites).type = "config" => Head(pendingWrites).n <= config
    BY <1>0, <2>1, NewestTail
  <2>4. Newest(Append(session, Head(pendingWrites)), config)
    BY <1>0, <2>2, <2>3, NewestAppended
  <2> QED
    BY <1>1, <2>1, <2>4
<1>3. CASE session' # session /\ ~FlushAppend(t)
  <2>1. PICK e \in EntrySet : e.type # "config" /\ session' = Append(session, e)
    <3>1. CASE RecordMessage(t)
      <4>1. OpStep(t) /\ pc[t] \in {"announce", "inject"}
        BY <3>1 DEF OpStep, RecordMessage
      <4>2. Head(held[t]) \in EntrySet /\ session' = Append(session, Head(held[t]))
            /\ Head(held[t]).type \in {"nextTurn", "prompt", "steer", "followUp"}
        BY <1>3, <3>1, <4>1, AppendedTypes
      <4> QED
        BY <4>2
    <3>2. CASE Respond(t) \/ ReportFailure(t)
      <4>1. Entry("assistant", t, 0) \in EntrySet /\ Entry("assistant", t, 0).type # "config"
        BY EntryTypes DEF Entry
      <4> QED
        BY <3>2, <4>1 DEF Respond, ReportFailure
    <3>3. CASE StructuralWork(t)
      <4>1. Entry(pc[t], t, 0) \in EntrySet /\ Entry(pc[t], t, 0).type # "config"
        BY <3>3, EntryTypes DEF Entry, StructuralWork
      <4> QED
        BY <1>3, <3>3, <4>1 DEF StructuralWork
    <3> QED
      BY <1>3, <3>1, <3>2, <3>3, WhoAppends
  <2>2. Newest(Append(session, e), config)
    BY <1>0, <2>1, NewestAppended
  <2> QED
    BY <1>1, <2>1, <2>2
<1> QED
  BY <1>0, <1>1, <1>2, <1>3

\* The operation itself: from its snapshot to its requests.
LEMMA KnowsRecord ==
  ASSUME TypeOK, Kinds, NEW t \in Ops, Knows(t), RecordMessage(t)
  PROVE  Knows(t)'
<1>1. /\ held[t] # <<>> /\ held[t] \in Seq(EntrySet) /\ pc' = pc /\ used' = used
      /\ held'[t] = Tail(held[t]) /\ pc[t] \in {"announce", "inject"}
      /\ session \in Seq(EntrySet) /\ ctx[t] \in Seq(EntrySet)
      /\ ctx'[t] = IF pc[t] = "inject" THEN Append(ctx[t], Head(held[t])) ELSE ctx[t]
  BY DEF RecordMessage, TypeOK
<1>2. PICK e \in EntrySet : e = Head(held[t]) /\ session' = Append(session, e)
                            /\ e.type \in {"nextTurn", "prompt", "steer", "followUp"}
  <2>1. OpStep(t)
    BY DEF OpStep
  <2>2. session' = Append(session, Head(held[t])) /\ Head(held[t]) \in EntrySet
    BY <1>1 DEF RecordMessage
  <2>3. session' # session
    <3>1. PICK n \in Nat : n = Len(session)
      BY <1>1
    <3>2. Len(session') = n + 1
      BY <1>1, <2>2, <3>1
    <3> QED
      BY <3>1, <3>2
  <2> QED
    BY <1>1, <2>1, <2>2, <2>3, AppendedTypes
<1>3. Context(session') = Append(Context(session), e) /\ Context(session) \in Seq(EntrySet)
  <2>1. Context(Append(session, e)) = Added(Context(session), e)
    BY <1>1, ContextAppended
  <2> QED
    BY <1>1, <1>2, <2>1, ContextTyped DEF Added
<1>4. Newest(session, used[t])
  BY <1>1 DEF Knows
<1>5. Newest(session', used[t])
  <2>1. Newest(Append(session, e), used[t])
    BY <1>1, <1>2, <1>4, NewestAppended
  <2> QED
    BY <1>2, <2>1
<1>6. Context(session)' = Context(session') /\ (Newest(session, used[t])' <=> Newest(session', used[t]))
  BY <1>1 DEF Context, Newest
<1>7. CASE pc[t] = "announce"
  <2>1. ctx[t] = Context(session) \o held[t]
    BY <1>7 DEF Knows
  <2>2. Append(Context(session), e) \o Tail(held[t]) = Context(session) \o held[t]
    BY <1>1, <1>2, <1>3, HeadMoves
  <2>3. ctx'[t] = Context(session') \o held'[t]
    BY <1>1, <1>3, <1>7, <2>1, <2>2
  <2> QED
    BY <1>1, <1>5, <1>6, <1>7, <2>3 DEF Knows
<1>8. CASE pc[t] = "inject"
  <2>1. ctx'[t] = Context(session')
    BY <1>1, <1>2, <1>3, <1>8 DEF Knows
  <2> QED
    BY <1>1, <1>5, <1>6, <1>8, <2>1 DEF Knows
<1> QED
  BY <1>1, <1>7, <1>8

LEMMA KnowsByOp ==
  ASSUME TypeOK, Kinds, Known, NEW t \in Ops, OpStep(t)
  PROVE  Knows(t)'
<1>0. Knows(t) /\ Newest(session, config) /\ Holds(t)
      /\ session \in Seq(EntrySet) /\ Context(session) \in Seq(EntrySet)
  BY ContextTyped DEF Known, Kinds, TypeOK
<1>a. ASSUME session' = session
      PROVE  Context(session)' = Context(session)
             /\ \A k : Newest(session', k) <=> Newest(session, k)
  BY <1>a DEF Context, Newest
<1> USE DEF stateVars
<1>1. CASE BuildContext(t)
  <2>1. session' = session /\ ctx'[t] = Context(session) /\ pc'[t] \in {"resolve", "resolveNext"}
    BY <1>1 DEF BuildContext, TypeOK
  <2> QED
    BY <1>a, <2>1 DEF Knows
<1>2. CASE Snapshot(t)
  <2>1. session' = session /\ ctx' = ctx /\ pc'[t] \in {"hook", "queued"} /\ used'[t] = config
        /\ pc[t] = "resolve"
    BY <1>2 DEF Snapshot, TypeOK
  <2>2. ctx[t] = Context(session)
    BY <1>0, <2>1 DEF Knows
  <2>3. Newest(session, used[t])'
    BY <1>0, <2>1 DEF Newest
  <2> QED
    BY <1>a, <2>1, <2>2, <2>3 DEF Knows
<1>3. CASE StartRun(t)
  <2>1. session' = session /\ ctx'[t] = ctx[t] \o held[t] /\ pc'[t] = "announce" /\ used' = used
        /\ pc[t] = "hook" /\ held' = held
    BY <1>3 DEF StartRun, TypeOK
  <2>2. ctx[t] = Context(session) /\ Newest(session, used[t])
    BY <1>0, <2>1 DEF Knows
  <2>3. Newest(session, used[t])'
    BY <2>1, <2>2 DEF Newest
  <2> QED
    BY <1>a, <2>1, <2>2, <2>3 DEF Knows
<1>4. CASE RecordMessage(t)
  BY <1>0, <1>4, KnowsRecord
<1>5. CASE AllRecorded(t)
  <2>1. session' = session /\ ctx' = ctx /\ pc'[t] \in {"poll", "request"} /\ used' = used
        /\ pc[t] \in {"announce", "inject"} /\ held[t] = <<>>
    BY <1>5 DEF AllRecorded, Goto, snapVars, TypeOK
  <2>2. Context(session) \o <<>> = Context(session)
    BY <1>0
  <2>3. ctx[t] = Context(session) /\ Newest(session, used[t])
    BY <1>0, <2>1, <2>2 DEF Knows
  <2>4. Newest(session, used[t])'
    BY <2>1, <2>3 DEF Newest
  <2> QED
    BY <1>a, <2>1, <2>3, <2>4 DEF Knows
<1>6. CASE QueueUpdateSent(t) \/ PollSteering(t) \/ DrainSent(t) \/ Inject(t) \/ PollFollowUps(t)
  <2>1. session' = session /\ ctx' = ctx /\ used' = used
        /\ pc[t] \in {"queued", "poll", "drained", "inner"}
        /\ pc'[t] \in {"hook", "inner", "drained", "inject"}
    BY <1>6 DEF QueueUpdateSent, PollSteering, DrainSent, Inject, PollFollowUps, Take, Goto, snapVars, TypeOK
  <2>2. ctx[t] = Context(session) /\ Newest(session, used[t])
    BY <1>0, <2>1 DEF Knows
  <2>3. Newest(session, used[t])'
    BY <2>1, <2>2 DEF Newest
  <2> QED
    BY <1>a, <2>1, <2>2, <2>3 DEF Knows
<1>7. CASE Refresh(t)
  <2>1. session' = session /\ ctx' = ctx /\ used'[t] = config /\ pc[t] = "resolveNext" /\ pc'[t] = "poll"
    BY <1>7 DEF Refresh, TypeOK
  <2>2. ctx[t] = Context(session)
    BY <1>0, <2>1 DEF Knows
  <2>3. Newest(session, used[t])'
    BY <1>0, <2>1 DEF Newest
  <2> QED
    BY <1>a, <2>1, <2>2, <2>3 DEF Knows
<1>8. ASSUME pc'[t] \notin {"resolve", "queued", "hook", "announce", "poll", "drained", "inner", "inject",
                            "request", "resolveNext"}
      PROVE  Knows(t)'
  BY <1>8 DEF Knows
<1>9. CASE Respond(t)
  <2>1. pc'[t] \in {"turnEnd", "lastTurnEnd"}
    BY <1>9 DEF Respond, TypeOK
  <2> QED
    BY <1>8, <2>1
<1>10. CASE Flushed(t)
  <2>1. pc'[t] \in {"savePoint", "lastSave", "refresh", "idle", "clear", "failure", "failSave"}
    BY <1>10 DEF Flushed, Goto, TypeOK, Kinds, Returns
  <2> QED
    BY <1>8, <2>1
<1>11. CASE \/ Stop(t) \/ TurnEnd(t) \/ SavePoint(t) \/ FlushAppend(t) \/ FlushShift(t)
            \/ BecomeIdle(t) \/ ListenersDone(t) \/ ClearController(t) \/ Catch(t) \/ Settle(t)
            \/ ReportFailure(t) \/ StructuralWork(t) \/ Release(t)
  <2>1. pc'[t] \in {"flush", "shift", "listeners", "catch", "settle", "done", "release"}
    BY <1>11 DEF Stop, TurnEnd, SavePoint, FlushAppend, FlushShift, BecomeIdle, ListenersDone,
       ClearController, Catch, Settle, ReportFailure, StructuralWork, Release, Goto, FlushThen, TypeOK
  <2> QED
    BY <1>8, <2>1
<1> QED
  BY <1>1, <1>2, <1>3, <1>4, <1>5, <1>6, <1>7, <1>9, <1>10, <1>11 DEF OpStep

LEMMA KnownByOp ==
  ASSUME TypeOK, Kinds, OneRunAtATime, Known, NEW t \in Ops, ByOp(t)
  PROVE  Known'
<1>1. Newest(session', config') /\ Newest(pendingWrites', config') /\ config' <= writes'
      /\ \A e \in inFlight' : e.n = writes'
  <2>1. config' = config /\ writes' = writes /\ inFlight' = inFlight
    BY StepsAreOfOne
  <2>2. Newest(session', config) /\ Newest(pendingWrites', config)
    BY NewestByOp
  <2> QED
    BY <2>1, <2>2 DEF Known
<1>2. Knows(t)'
  <2>1. CASE OpStep(t)
    BY <2>1, KnowsByOp
  <2>2. CASE Throw(t)
    <3>1. pc'[t] \in {"flush", "catch", "clear", "failure"}
      BY <2>2, WhereItThrows
    <3> QED
      BY <3>1 DEF Knows
  <2> QED
    BY <2>1, <2>2 DEF ByOp
<1>3. \A u \in Ops : u # t => Knows(u)'
  <2>1. \A u \in Ops : u # t => pc'[u] \in {"none", "done"}
    BY StepsAreOfOne, Alone
  <2> QED
    BY <2>1 DEF Knows
<1> QED
  BY <1>1, <1>2, <1>3 DEF Known, Newest

LEMMA KnowsSame ==
  ASSUME UNCHANGED <<session, pc, held, ctx, used>>, NEW t \in Ops, Knows(t)
  PROVE  Knows(t)'
<1>1. Context(session)' = Context(session)
  BY DEF Context
<1> QED
  BY <1>1 DEF Knows, Newest

LEMMA KnownBeside ==
  ASSUME TypeOK, Kinds, OneRunAtATime, NothingBeside, Known, ~Overlap, Beside
  PROVE  Known'
<1>0. /\ pc' = pc /\ held' = held /\ ctx' = ctx /\ used' = used
      /\ session \in Seq(EntrySet) /\ pendingWrites \in Seq(EntrySet)
      /\ config \in Nat /\ writes \in Nat /\ queued \in Nat
  BY BesideKeeps DEF TypeOK
<1>k. /\ config <= writes /\ Newest(session, config) /\ Newest(pendingWrites, config)
      /\ (\A e \in inFlight : e.n = writes) /\ \A t \in Ops : Knows(t)
  BY DEF Known
<1>1. ASSUME NEW type \in {"config", "note"}, WriteWhileBusy(type)
      PROVE  Known'
  <2>1. PICK e : e = Entry(type, writes + 1, queued + 1)
    OBVIOUS
  <2>2. e \in EntrySet /\ e.n = writes + 1 /\ e.type = type
    <3>1. writes + 1 \in Nat /\ queued + 1 \in Nat
      BY <1>0
    <3>2. e \in EntrySet
      BY <2>1, <3>1, EntryTypes
    <3>3. e.n = writes + 1 /\ e.type = type
      BY <2>1 DEF Entry
    <3> QED
      BY <3>2, <3>3
  <2>3. /\ pendingWrites' = Append(pendingWrites, e) /\ writes' = writes + 1 /\ inFlight' = {}
        /\ session' = session /\ config' = IF type = "config" THEN writes + 1 ELSE config
    BY <1>1, <2>1 DEF WriteWhileBusy, NothingBeside
  <2>4. config' \in Nat /\ config <= config' /\ config' <= writes'
    BY <1>0, <1>k, <2>3
  <2>5. Newest(session, config') /\ Newest(pendingWrites, config')
    BY <1>0, <1>k, <2>4, NewestRaised
  <2>6. Newest(Append(pendingWrites, e), config')
    <3>1. e.type = "config" => e.n <= config'
      BY <1>0, <2>2, <2>3
    <3> QED
      BY <1>0, <2>2, <2>5, <3>1, NewestAppended
  <2>7. \A t \in Ops : Knows(t)'
    BY <1>0, <1>k, <2>3, KnowsSame
  <2> QED
    BY <2>3, <2>4, <2>5, <2>6, <2>7 DEF Known, Newest
<1>2. ASSUME NEW type \in {"config", "note"}, WriteWhileIdle(type)
      PROVE  Known'
  <2>1. /\ inFlight' = {Entry(type, writes + 1, 0)} /\ writes' = writes + 1
        /\ UNCHANGED <<session, pendingWrites, config>>
    BY <1>2 DEF WriteWhileIdle
  <2>2. \A e \in inFlight' : e.n = writes'
    BY <2>1 DEF Entry
  <2>3. config' <= writes'
    BY <1>0, <1>k, <2>1
  <2> QED
    BY <1>0, <1>k, <2>1, <2>2, <2>3, KnowsSame DEF Known, Newest
<1>3. ASSUME NEW e \in inFlight, WriteDone(e)
      PROVE  Known'
  <2>1. e \in EntrySet /\ e.n = writes
    BY <1>k DEF TypeOK
  <2>2. /\ session' = Append(session, e) /\ pendingWrites' = pendingWrites /\ writes' = writes
        /\ inFlight' \subseteq inFlight /\ config' = IF e.type = "config" THEN e.n ELSE config
    BY <1>3 DEF WriteDone, histVars
  <2>3. config' \in Nat /\ config <= config' /\ config' <= writes'
    BY <1>0, <1>k, <2>1, <2>2
  <2>4. Newest(session, config') /\ Newest(pendingWrites, config')
    BY <1>0, <1>k, <2>3, NewestRaised
  <2>5. Newest(Append(session, e), config')
    <3>1. e.type = "config" => e.n <= config'
      BY <1>0, <2>1, <2>2
    <3> QED
      BY <1>0, <2>1, <2>4, <3>1, NewestAppended
  <2>6. \A t \in Ops : Knows(t)'
    <3>1. phase = "idle"
      BY <1>3 DEF NothingBeside
    <3>2. \A t \in Ops : pc[t] \notin InRun
      BY <3>1 DEF OneRunAtATime, OnRun
    <3> QED
      BY <1>0, <3>2 DEF InRun, Knows
  <2> QED
    BY <1>k, <2>2, <2>3, <2>4, <2>5, <2>6 DEF Known, Newest
<1>4. CASE UNCHANGED <<session, pendingWrites, config, writes>> /\ inFlight' \subseteq inFlight
  BY <1>0, <1>k, <1>4, KnowsSame DEF Known, Newest
<1>5. \/ \E type \in {"config", "note"} : WriteWhileBusy(type) \/ WriteWhileIdle(type)
      \/ \E e \in inFlight : WriteDone(e)
      \/ UNCHANGED <<session, pendingWrites, config, writes>> /\ inFlight' \subseteq inFlight
  BY DEF Beside, WriteFails, Steer, FollowUp, NextTurn, Abort, stateVars, histVars
<1> QED
  BY <1>1, <1>2, <1>3, <1>4, <1>5

LEMMA KnownKept ==
  ASSUME TypeOK, Kinds, OneRunAtATime, NothingBeside, Known, ~Overlap, [Next]_vars
  PROVE  Known'
<1>1. CASE Prompt \/ Compact \/ NavigateTree
  <2>1. PICK t \in Ops : t = ops + 1 /\ ops \in Nat
    BY <1>1, Newcomer DEF Prompt, Compact, NavigateTree, StartStructural
  <2>2. /\ \A u \in Ops : pc'[u] \in {"none", "done", "snapshot", "compaction", "branch_summary"}
        /\ UNCHANGED <<session, pendingWrites, config, writes, inFlight>>
    <3>1. \A u \in Ops : pc[u] \in {"none", "done"}
      BY <1>1 DEF Prompt, Compact, NavigateTree, StartStructural, MayStart, Running, Started, Over
    <3> QED
      BY <1>1, <2>1, <3>1 DEF Prompt, Compact, NavigateTree, StartStructural, TypeOK
  <2>3. \A u \in Ops : Knows(u)'
    BY <2>2 DEF Knows
  <2> QED
    BY <2>2, <2>3 DEF Known, Newest
<1>2. CASE UNCHANGED vars
  <2>1. UNCHANGED <<session, pendingWrites, config, writes, inFlight, pc, held, ctx, used>>
    BY <1>2 DEF vars, stateVars, queueVars, opVars, snapVars, histVars
  <2>2. \A t \in Ops : Knows(t)'
    BY <2>1, KnowsSame DEF Known
  <2> QED
    BY <2>1, <2>2 DEF Known, Newest
<1> QED
  BY <1>1, <1>2, Steps, KnownByOp, KnownBeside

LEMMA KnownInit ==
  ASSUME Init
  PROVE  Known
BY DEF Init, Known, Knows, Newest

LEMMA KnownSeen ==
  ASSUME Known
  PROVE  RequestSeesSession
BY DEF Known, Knows, Newest, RequestSeesSession
-----------------------------------------------------------------------------
(* Writes land behind the turn they were made in.                          *)

LEMMA PlacedOn ==
  ASSUME NEW s \in Seq(EntrySet), NEW e \in EntrySet, Placed(s), e.seq > 0 => Answered(s)
  PROVE  Placed(Append(s, e)) /\ (e.type \notin Lanes => Answered(Append(s, e)))
<1>1. PICK n \in Nat : n = Len(s)
  OBVIOUS
<1>2. PICK r : r = Append(s, e)
  OBVIOUS
<1>3. Len(r) = n + 1 /\ r[n + 1] = e /\ (\A k \in 1 .. n : r[k] = s[k]) /\ r # <<>>
  BY <1>1, <1>2
<1>4. ASSUME NEW i \in 1 .. (n + 1), r[i].seq > 0
      PROVE  i > 1 /\ r[i - 1].type \notin Lanes
  <2>1. CASE i = n + 1
    <3>1. s # <<>> /\ s[n].type \notin Lanes
      BY <1>1, <1>3, <1>4, <2>1 DEF Answered
    <3>2. n # 0
      BY <1>1, <3>1
    <3>3. i > 1 /\ i - 1 = n /\ n \in 1 .. n
      BY <1>1, <2>1, <3>2
    <3> QED
      BY <1>3, <3>1, <3>3
  <2>2. CASE i # n + 1
    <3>1. i \in 1 .. n /\ r[i] = s[i]
      BY <1>1, <1>3, <2>2
    <3>2. i > 1 /\ s[i - 1].type \notin Lanes
      BY <1>1, <1>4, <3>1 DEF Placed
    <3>3. i - 1 \in 1 .. n
      BY <3>1, <3>2
    <3> QED
      BY <1>3, <3>2, <3>3
  <2> QED
    BY <2>1, <2>2
<1>5. Placed(r) /\ (e.type \notin Lanes => Answered(r))
  BY <1>3, <1>4 DEF Placed, Answered
<1> QED
  BY <1>2, <1>5

\* The session stays in place; what an operation appends besides messages answers.
LEMMA PlacedByOp ==
  ASSUME TypeOK, Kinds, NEW t \in Ops, OpStep(t), Placed(session), Answers(t)
  PROVE  /\ Placed(session')
         /\ session' = session \/ RecordMessage(t) \/ Answered(session')
<1>0. session \in Seq(EntrySet)
  BY DEF TypeOK
<1>1. CASE FlushAppend(t)
  <2>1. session' = Append(session, Head(pendingWrites)) /\ pendingWrites # <<>> /\ pc[t] = "flush"
    BY <1>1 DEF FlushAppend
  <2>2. Head(pendingWrites) \in Writes
    BY <2>1 DEF Kinds
  <2>3. Head(pendingWrites) \in EntrySet /\ Head(pendingWrites).type \notin Lanes
    BY <2>2 DEF Writes, EntrySet, Lanes
  <2>4. Answered(session)
    BY <2>1 DEF Answers
  <2> QED
    BY <1>0, <2>1, <2>3, <2>4, PlacedOn
<1>2. CASE RecordMessage(t) \/ Respond(t) \/ ReportFailure(t) \/ StructuralWork(t)
  <2>1. session' = session \/ \E e \in EntrySet : e.seq = 0 /\ session' = Append(session, e)
    BY <1>2, AppendsPlain
  <2>2. CASE session' # session
    <3>1. PICK e \in EntrySet : e.seq = 0 /\ session' = Append(session, e)
      BY <2>1, <2>2
    <3>2. Placed(session') /\ (e.type \notin Lanes => Answered(session'))
      BY <1>0, <3>1, PlacedOn
    <3>3. RecordMessage(t) \/ \E f \in EntrySet : f.type \notin Lanes /\ session' = Append(session, f)
      BY <2>2, AppendedTypes
    <3>4. ASSUME NEW f \in EntrySet, f.type \notin Lanes, session' = Append(session, f)
          PROVE  Answered(session')
      <4>1. PICK n \in Nat : n = Len(session)
        BY <1>0
      <4>2. Append(session, f)[n + 1] = f /\ Append(session, e)[n + 1] = e
        BY <1>0, <4>1
      <4>3. e = f
        BY <3>1, <3>4, <4>2
      <4> QED
        BY <3>2, <3>4, <4>3
    <3> QED
      BY <3>2, <3>3, <3>4
  <2> QED
    BY <2>1, <2>2
<1> QED
  BY <1>1, <1>2, WhoAppends DEF ByOp

LEMMA AnswersByOp ==
  ASSUME TypeOK, Kinds, NEW t \in Ops, OpStep(t), Placed(session), Answers(t)
  PROVE  Answers(t)'
<1>0. session' = session \/ RecordMessage(t) \/ Answered(session')
  BY PlacedByOp
<1>a. Answered(session)' <=> Answered(session')
  BY DEF Answered
<1>1. CASE BuildContext(t)
  BY <1>1, <1>a DEF BuildContext, stateVars, Answers, TypeOK
<1>2. CASE Snapshot(t)
  BY <1>2, <1>a DEF Snapshot, stateVars, Answers, TypeOK
<1>3. CASE QueueUpdateSent(t) \/ DrainSent(t) \/ Inject(t)
  BY <1>3, <1>a DEF QueueUpdateSent, DrainSent, Inject, Goto, stateVars, Answers, TypeOK
<1>4. CASE StartRun(t)
  BY <1>4, <1>a DEF StartRun, stateVars, Answers, TypeOK
<1>5. CASE RecordMessage(t)
  BY <1>5, <1>a DEF RecordMessage, Answers, TypeOK
<1>6. CASE AllRecorded(t)
  BY <1>6, <1>a DEF AllRecorded, Goto, stateVars, Answers, TypeOK
<1>7. CASE PollSteering(t)
  BY <1>7, <1>a DEF PollSteering, Take, stateVars, Answers, TypeOK
<1>8. CASE PollFollowUps(t)
  BY <1>8, <1>a DEF PollFollowUps, Take, stateVars, Answers, TypeOK
<1>9. CASE Stop(t)
  BY <1>9, <1>a DEF Stop, FlushThen, stateVars, Answers, TypeOK
<1>10. CASE Respond(t)
  <2>1. Answered(session')
    <3>1. ~RecordMessage(t)
      BY <1>10 DEF Respond, RecordMessage
    <3>2. session' # session
      <4>1. PICK n \in Nat : n = Len(session)
        BY DEF TypeOK
      <4>2. Len(Append(session, Entry("assistant", t, 0))) = n + 1
        BY <4>1 DEF TypeOK
      <4>3. Append(session, Entry("assistant", t, 0)) # session
        BY <4>1, <4>2
      <4> QED
        BY <1>10, <4>3 DEF Respond
    <3> QED
      BY <1>0, <3>1, <3>2
  <2>2. pc'[t] \in {"lastTurnEnd", "turnEnd"} /\ failed' = failed
    BY <1>10 DEF Respond, TypeOK
  <2> QED
    BY <1>a, <2>1, <2>2 DEF Answers
<1>11. CASE TurnEnd(t) \/ SavePoint(t) \/ Refresh(t)
  BY <1>11, <1>a DEF TurnEnd, SavePoint, Refresh, FlushThen, stateVars, Answers, TypeOK
<1>12. CASE FlushAppend(t)
  <2>1. Answered(session) /\ pc[t] = "flush" /\ pc'[t] = "shift" /\ failed' = failed /\ back' = back
    BY <1>12 DEF FlushAppend, Goto, Answers, TypeOK
  <2>2. ~RecordMessage(t)
    BY <2>1 DEF RecordMessage
  <2>3. Answered(session')
    BY <1>0, <2>1, <2>2
  <2> QED
    BY <1>a, <2>1, <2>3 DEF Answers
<1>13. CASE FlushShift(t)
  BY <1>13, <1>a DEF FlushShift, Goto, Answers, TypeOK
<1>14. CASE Flushed(t)
  <2>1. /\ pc'[t] \in {"savePoint", "lastSave", "refresh", "idle", "clear"} /\ failed' = failed
        /\ session' = session /\ Answered(session)
    BY <1>14 DEF Flushed, Goto, stateVars, TypeOK, Kinds, Returns, Answers
  <2> QED
    BY <1>a, <2>1 DEF Answers
<1>15. CASE BecomeIdle(t) \/ ListenersDone(t) \/ ClearController(t)
  BY <1>15, <1>a DEF BecomeIdle, ListenersDone, ClearController, Goto, FlushThen, stateVars, Answers, TypeOK
<1>16. CASE Catch(t) \/ ReportFailure(t)
  BY <1>16 DEF Catch, ReportFailure, Answers
<1>17. CASE Settle(t) \/ StructuralWork(t) \/ Release(t)
  BY <1>17, <1>a DEF Settle, StructuralWork, Release, Goto, stateVars, Answers, TypeOK
<1> QED
  BY <1>1, <1>2, <1>3, <1>4, <1>5, <1>6, <1>7, <1>8, <1>9, <1>10, <1>11, <1>12, <1>13, <1>14, <1>15,
     <1>16, <1>17 DEF OpStep

LEMMA InPlaceKept ==
  ASSUME TypeOK, Kinds, OneRunAtATime, InPlace, ~Overlap, [Next]_vars
  PROVE  InPlace'
<1> SUFFICES ASSUME faults' = 0
             PROVE  InPlace'
  BY DEF InPlace
<1>a. (Placed(session)' <=> Placed(session')) /\ (Answered(session)' <=> Answered(session'))
  BY DEF Placed, Answered
<1>1. ASSUME NEW t \in Ops, OpStep(t)
      PROVE  InPlace'
  <2>1. Placed(session) /\ Answers(t)
    BY <1>1, WhoMoves DEF InPlace
  <2>2. Placed(session') /\ Answers(t)'
    BY <1>1, <2>1, PlacedByOp, AnswersByOp
  <2>3. \A u \in Ops : u # t => Answers(u)'
    <3> SUFFICES ASSUME NEW u \in Ops, u # t
                 PROVE  Answers(u)'
      OBVIOUS
    <3>1. pc'[u] \in {"none", "done"} /\ failed'[u] = failed[u]
      BY <1>1, StepsAreOfOne, Alone DEF ByOp
    <3>2. failed[u] = "no"
      BY <1>1, WhoMoves DEF InPlace, Answers
    <3> QED
      BY <3>1, <3>2 DEF Answers
  <2> QED
    BY <1>a, <2>2, <2>3 DEF InPlace
<1>2. ASSUME NEW t \in Ops, Throw(t)
      PROVE  InPlace'
  BY <1>2, WhereItThrows
<1>3. CASE Prompt \/ Compact \/ NavigateTree
  <2>1. PICK t \in Ops : t = ops + 1 /\ ops \in Nat
    BY <1>3, Newcomer DEF Prompt, Compact, NavigateTree, StartStructural
  <2>2. /\ \A u \in Ops : pc'[u] \in {"none", "done", "snapshot", "compaction", "branch_summary"}
        /\ UNCHANGED <<session, failed, faults>>
    <3>1. \A u \in Ops : pc[u] \in {"none", "done"}
      BY <1>3 DEF Prompt, Compact, NavigateTree, StartStructural, MayStart, Running, Started, Over
    <3> QED
      BY <1>3, <2>1, <3>1 DEF Prompt, Compact, NavigateTree, StartStructural, TypeOK
  <2> QED
    BY <1>a, <2>2 DEF InPlace, Answers
<1>4. CASE Beside
  <2>1. UNCHANGED <<pc, back, hasMore, failed>>
    BY <1>4, BesideKeeps
  <2>2. faults = 0
    BY <1>4 DEF Beside, WriteWhileBusy, WriteWhileIdle, WriteDone, WriteFails, Steer, FollowUp, NextTurn,
       Abort, histVars, TypeOK
  <2>3. Placed(session) /\ \A u \in Ops : Answers(u)
    BY <2>2 DEF InPlace
  <2>4. session' = session \/ \E e \in inFlight : session' = Append(session, e)
    BY <1>4 DEF Beside, WriteWhileBusy, WriteWhileIdle, WriteDone, WriteFails, Steer, FollowUp, NextTurn,
       Abort, stateVars
  <2>5. Placed(session') /\ (session' = session \/ Answered(session'))
    <3>1. ASSUME NEW e \in inFlight, session' = Append(session, e)
          PROVE  Placed(session') /\ Answered(session')
      <4>1. e \in EntrySet /\ e.seq = 0 /\ e.type \notin Lanes
        BY DEF Kinds, Of, EntrySet, Lanes
      <4>2. session \in Seq(EntrySet)
        BY DEF TypeOK
      <4> QED
        BY <2>3, <3>1, <4>1, <4>2, PlacedOn
    <3> QED
      BY <2>3, <2>4, <3>1
  <2> QED
    BY <1>a, <2>1, <2>3, <2>5 DEF InPlace, Answers
<1>5. CASE UNCHANGED vars
  BY <1>5 DEF vars, stateVars, opVars, histVars, InPlace, Placed, Answers, Answered
<1> QED
  BY <1>1, <1>2, <1>3, <1>4, <1>5, Steps DEF ByOp

LEMMA InPlaceInit ==
  ASSUME Init
  PROVE  InPlace
BY DEF Init, InPlace, Placed, Answers

LEMMA InPlaceFollows ==
  ASSUME InPlace
  PROVE  WritesFollowTheTurn
BY DEF InPlace, Placed, WritesFollowTheTurn

-----------------------------------------------------------------------------
(* When nothing fails, nothing is left waiting.                            *)

LEMMA LeavesByOp ==
  ASSUME TypeOK, Kinds, NEW t \in Ops, OpStep(t), Answers(t), Leaves(t)
  PROVE  Leaves(t)' /\ (pc'[t] = "done" => phase' = "idle" /\ pendingWrites' = <<>>)
<1>1. CASE BuildContext(t)
  BY <1>1 DEF BuildContext, Leaves, TypeOK
<1>2. CASE Snapshot(t)
  BY <1>2 DEF Snapshot, Leaves, TypeOK
<1>3. CASE QueueUpdateSent(t) \/ DrainSent(t) \/ Inject(t) \/ AllRecorded(t)
  BY <1>3 DEF QueueUpdateSent, DrainSent, Inject, AllRecorded, Goto, Leaves, TypeOK
<1>4. CASE StartRun(t)
  BY <1>4 DEF StartRun, Leaves, TypeOK
<1>5. CASE RecordMessage(t)
  BY <1>5 DEF RecordMessage, Leaves, TypeOK
<1>6. CASE PollSteering(t) \/ PollFollowUps(t)
  BY <1>6 DEF PollSteering, PollFollowUps, Take, Leaves, TypeOK
<1>7. CASE Stop(t) \/ TurnEnd(t) \/ SavePoint(t)
  BY <1>7 DEF Stop, TurnEnd, SavePoint, FlushThen, Leaves, TypeOK
<1>8. CASE Respond(t)
  <2>1. pc'[t] \in {"lastTurnEnd", "turnEnd"}
    BY <1>8 DEF Respond, TypeOK
  <2> QED
    BY <2>1 DEF Leaves
<1>9. CASE Refresh(t)
  BY <1>9 DEF Refresh, Leaves, TypeOK
<1>10. CASE FlushAppend(t) \/ FlushShift(t)
  BY <1>10 DEF FlushAppend, FlushShift, Goto, Leaves, TypeOK
<1>11. CASE Flushed(t)
  <2>1. /\ pc[t] = "flush" /\ pc'[t] = back[t] /\ UNCHANGED <<phase, pendingWrites>> /\ pendingWrites = <<>>
        /\ back[t] \in {"savePoint", "lastSave", "refresh", "idle", "clear", "failure", "failSave"}
    BY <1>11 DEF Flushed, Goto, stateVars, TypeOK, Kinds, Returns
  <2>2. back[t] = "clear" => phase = "idle"
    BY <2>1 DEF Leaves
  <2> QED
    BY <2>1, <2>2 DEF Leaves
<1>12. CASE BecomeIdle(t) \/ ListenersDone(t)
  BY <1>12 DEF BecomeIdle, ListenersDone, Goto, FlushThen, stateVars, Leaves, TypeOK
<1>13. CASE ClearController(t)
  BY <1>13 DEF ClearController, Goto, stateVars, Leaves, Answers, TypeOK
<1>14. CASE Catch(t) \/ ReportFailure(t)
  BY <1>14 DEF Catch, ReportFailure, Answers
<1>15. CASE Settle(t)
  BY <1>15 DEF Settle, Goto, stateVars, Leaves, TypeOK
<1>16. CASE StructuralWork(t) \/ Release(t)
  BY <1>16 DEF StructuralWork, Release, Leaves
<1> QED
  BY <1>1, <1>2, <1>3, <1>4, <1>5, <1>6, <1>7, <1>8, <1>9, <1>10, <1>11, <1>12, <1>13, <1>14, <1>15,
     <1>16 DEF OpStep

LEMMA SettlesKept ==
  ASSUME TypeOK, Kinds, OneRunAtATime, InPlace, Settles, ~Overlap, [Next]_vars
  PROVE  Settles'
<1> SUFFICES ASSUME faults' = 0, ~Structural
             PROVE  /\ \A t \in Ops : Leaves(t)'
                    /\ (\A t \in Ops : ~Running(t)') => phase' = "idle" /\ pendingWrites' = <<>>
  BY DEF Settles
<1>0. ASSUME faults = 0
      PROVE  /\ \A t \in Ops : Leaves(t) /\ Answers(t)
             /\ (\A t \in Ops : ~Running(t)) => phase = "idle" /\ pendingWrites = <<>>
  BY <1>0 DEF Settles, InPlace
<1>1. ASSUME NEW t \in Ops, OpStep(t)
      PROVE  /\ \A u \in Ops : Leaves(u)'
             /\ (\A u \in Ops : ~Running(u)') => phase' = "idle" /\ pendingWrites' = <<>>
  <2>1. faults = 0 /\ Leaves(t) /\ Answers(t)
    BY <1>0, <1>1, WhoMoves
  <2>2. Leaves(t)' /\ (pc'[t] = "done" => phase' = "idle" /\ pendingWrites' = <<>>)
    BY <1>1, <2>1, LeavesByOp
  <2>3. \A u \in Ops : u # t => pc'[u] \in {"none", "done"}
    BY <1>1, StepsAreOfOne, Alone DEF ByOp
  <2>4. pc'[t] # "none"
    <3>1. Moves(t)
      BY <1>1, StartMoves, LoopMoves, EndMoves DEF OpStep
    <3> QED
      BY <3>1 DEF Moves
  <2>5. \A u \in Ops : u # t => Leaves(u)'
    BY <2>3 DEF Leaves
  <2> QED
    BY <2>2, <2>4, <2>5 DEF Running, Started, Over
<1>2. ASSUME NEW t \in Ops, Throw(t)
      PROVE  FALSE
  BY <1>2, WhereItThrows
<1>3. CASE Prompt
  <2>1. PICK t \in Ops : t = ops + 1 /\ ops \in Nat
    BY <1>3, Newcomer DEF Prompt
  <2>2. /\ \A u \in Ops : pc'[u] \in {"none", "done", "snapshot"}
        /\ pc'[t] = "snapshot"
    <3>1. \A u \in Ops : pc[u] \in {"none", "done"}
      BY <1>3 DEF Prompt, MayStart, Running, Started, Over
    <3> QED
      BY <1>3, <2>1, <3>1 DEF Prompt, TypeOK
  <2> QED
    BY <2>2 DEF Leaves, Running, Started, Over
<1>4. CASE Compact \/ NavigateTree
  BY <1>4 DEF Compact, NavigateTree, StartStructural
<1>5. CASE Beside
  <2>1. UNCHANGED <<phase, pc, back>>
    BY <1>5, BesideKeeps
  <2>2. faults = 0
    BY <1>5 DEF Beside, WriteWhileBusy, WriteWhileIdle, WriteDone, WriteFails, Steer, FollowUp, NextTurn,
       Abort, histVars, TypeOK
  <2>3. pendingWrites' = pendingWrites \/ phase # "idle"
    BY <1>5 DEF Beside, WriteWhileBusy, WriteWhileIdle, WriteDone, WriteFails, Steer, FollowUp, NextTurn,
       Abort, stateVars
  <2> QED
    BY <1>0, <2>1, <2>2, <2>3 DEF Leaves, Running, Started, Over
<1>6. CASE UNCHANGED vars
  BY <1>0, <1>6 DEF vars, stateVars, opVars, histVars, Leaves, Running, Started, Over
<1> QED
  BY <1>1, <1>2, <1>3, <1>4, <1>5, <1>6, Steps DEF ByOp

LEMMA SettlesInit ==
  ASSUME Init
  PROVE  Settles
BY DEF Init, Settles, Leaves
-----------------------------------------------------------------------------
(* Every user message is in one place.                                     *)

LEMMA DistinctSplit ==
  ASSUME NEW s \in Seq(EntrySet), Distinct(s), s # <<>>
  PROVE  Distinct(Tail(s)) /\ Head(s).n \notin Numbers(Tail(s))
<1>1. PICK n \in Nat \ {0} : n = Len(s)
  OBVIOUS
<1>2. PICK r : r = Tail(s)
  OBVIOUS
<1>3. Len(r) = n - 1 /\ \A i \in 1 .. (n - 1) : r[i] = s[i + 1]
  BY <1>1, <1>2
<1>4. \A i, j \in 1 .. n : s[i].n = s[j].n => i = j
  BY <1>1 DEF Distinct
<1>5. \A i \in 1 .. (n - 1) : i + 1 \in 1 .. n /\ i + 1 # 1 /\ 1 \in 1 .. n
  BY <1>1
<1>6. Distinct(r)
  <2> SUFFICES ASSUME NEW i \in 1 .. (n - 1), NEW j \in 1 .. (n - 1), r[i].n = r[j].n
               PROVE  i = j
    BY <1>3 DEF Distinct
  <2>1. i + 1 \in 1 .. n /\ j + 1 \in 1 .. n /\ s[i + 1].n = s[j + 1].n
    BY <1>3, <1>5
  <2>2. i + 1 = j + 1
    BY <1>4, <2>1
  <2> QED
    BY <2>2
<1>7. s[1].n \notin Numbers(r)
  <2> SUFFICES ASSUME NEW i \in 1 .. (n - 1), s[1].n = r[i].n
               PROVE  FALSE
    BY <1>3 DEF Numbers
  <2> QED
    BY <1>3, <1>4, <1>5
<1> QED
  BY <1>2, <1>6, <1>7

LEMMA DistinctJoined ==
  ASSUME NEW s \in Seq(EntrySet), NEW r \in Seq(EntrySet), Distinct(s), Distinct(r),
         Numbers(s) \intersect Numbers(r) = {}
  PROVE  Distinct(s \o r)
<1>1. PICK n \in Nat, m \in Nat : n = Len(s) /\ m = Len(r)
  OBVIOUS
<1>2. PICK v : v = s \o r
  OBVIOUS
<1>3. Len(v) = n + m /\ \A i \in 1 .. (n + m) : v[i] = IF i <= n THEN s[i] ELSE r[i - n]
  BY <1>1, <1>2
<1>4. \A i \in 1 .. n : \A j \in 1 .. m : s[i].n # r[j].n
  BY <1>1 DEF Numbers
<1>5. \A i \in 1 .. (n + m) : (i \in 1 .. n /\ v[i] = s[i]) \/ (i - n \in 1 .. m /\ v[i] = r[i - n])
  BY <1>3
<1>6. /\ \A i, j \in 1 .. n : s[i].n = s[j].n => i = j
      /\ \A i, j \in 1 .. m : r[i].n = r[j].n => i = j
  BY <1>1 DEF Distinct
<1>7. ASSUME NEW i \in 1 .. (n + m), NEW j \in 1 .. (n + m), v[i].n = v[j].n
      PROVE  i = j
  <2>1. CASE i \in 1 .. n /\ v[i] = s[i]
    <3>1. j \in 1 .. n /\ v[j] = s[j]
      BY <1>4, <1>5, <1>7, <2>1
    <3> QED
      BY <1>6, <1>7, <2>1, <3>1
  <2>2. CASE i - n \in 1 .. m /\ v[i] = r[i - n]
    <3>1. j - n \in 1 .. m /\ v[j] = r[j - n]
      BY <1>4, <1>5, <1>7, <2>2
    <3>2. i - n = j - n
      BY <1>6, <1>7, <2>2, <3>1
    <3> QED
      BY <1>1, <3>2
  <2> QED
    BY <1>5, <2>1, <2>2
<1>8. Distinct(v)
  BY <1>3, <1>7 DEF Distinct
<1> QED
  BY <1>2, <1>8

LEMMA DistinctAppended ==
  ASSUME NEW s \in Seq(EntrySet), NEW e \in EntrySet, Distinct(s), e.n \notin Numbers(s)
  PROVE  Distinct(Append(s, e))
<1>1. PICK n \in Nat : n = Len(s)
  OBVIOUS
<1>2. PICK v : v = Append(s, e)
  OBVIOUS
<1>3. Len(v) = n + 1 /\ v[n + 1] = e /\ \A i \in 1 .. n : v[i] = s[i]
  BY <1>1, <1>2
<1>4. (\A i \in 1 .. n : s[i].n # e.n) /\ \A i, j \in 1 .. n : s[i].n = s[j].n => i = j
  BY <1>1 DEF Numbers, Distinct
<1>5. \A i \in 1 .. (n + 1) : i = n + 1 \/ i \in 1 .. n
  OBVIOUS
<1>6. Distinct(v)
  BY <1>3, <1>4, <1>5 DEF Distinct
<1> QED
  BY <1>2, <1>6

\* What comes before the last.
LEMMA DistinctFront ==
  ASSUME NEW s \in Seq(EntrySet), Distinct(s), s # <<>>
  PROVE  /\ SubSeq(s, 1, Len(s) - 1) \in Seq(EntrySet)
         /\ Distinct(SubSeq(s, 1, Len(s) - 1))
         /\ Numbers(SubSeq(s, 1, Len(s) - 1)) \subseteq Numbers(s)
<1>1. PICK n \in Nat \ {0} : n = Len(s)
  OBVIOUS
<1>2. PICK m \in Nat : m = n - 1
  BY <1>1
<1>3. SubSeq(s, 1, m) \in Seq(EntrySet) /\ Len(SubSeq(s, 1, m)) = m
      /\ \A i \in 1 .. m : SubSeq(s, 1, m)[i] = s[i]
  BY <1>1, <1>2
<1>4. PICK r : r = SubSeq(s, 1, m)
  OBVIOUS
<1>5. \A i \in 1 .. m : i \in 1 .. n
  BY <1>1, <1>2
<1>6. Distinct(r) /\ Numbers(r) \subseteq Numbers(s)
  BY <1>1, <1>3, <1>4, <1>5 DEF Distinct, Numbers
<1>7. m = Len(s) - 1
  BY <1>1, <1>2
<1> QED
  BY <1>3, <1>4, <1>6, <1>7

\* A drain splits its queue.
LEMMA DrainApart ==
  ASSUME NEW mode, NEW q \in Seq(EntrySet), Distinct(q)
  PROVE  /\ Drained(mode, q) \in Seq(EntrySet) /\ Remaining(mode, q) \in Seq(EntrySet)
         /\ Distinct(Drained(mode, q)) /\ Distinct(Remaining(mode, q))
         /\ Numbers(Drained(mode, q)) \subseteq Numbers(q)
         /\ Numbers(Remaining(mode, q)) \subseteq Numbers(q)
         /\ Numbers(Drained(mode, q)) \intersect Numbers(Remaining(mode, q)) = {}
<1>0. Distinct(<<>>) /\ Numbers(<<>>) = {} /\ <<>> \in Seq(EntrySet)
  BY DEF Distinct, Numbers
<1>1. \/ Drained(mode, q) = q /\ Remaining(mode, q) = <<>>
      \/ q # <<>> /\ Drained(mode, q) = <<Head(q)>> /\ Remaining(mode, q) = Tail(q)
  BY DEF Drained, Remaining
<1>2. CASE Drained(mode, q) = q /\ Remaining(mode, q) = <<>>
  BY <1>0, <1>2
<1>3. CASE q # <<>> /\ Drained(mode, q) = <<Head(q)>> /\ Remaining(mode, q) = Tail(q)
  <2>1. Numbers(q) = {Head(q).n} \union Numbers(Tail(q))
    BY <1>3, NumbersSplit
  <2>2. Distinct(Tail(q)) /\ Head(q).n \notin Numbers(Tail(q))
    BY <1>3, DistinctSplit
  <2>3. PICK e \in EntrySet : e = Head(q)
    <3>1. Head(q) \in EntrySet
      BY <1>3
    <3> QED
      BY <3>1
  <2>4. Distinct(<<e>>) /\ Numbers(<<e>>) = {e.n} /\ <<e>> \in Seq(EntrySet)
    <3>1. Len(<<e>>) = 1 /\ <<e>>[1] = e
      OBVIOUS
    <3>2. PICK r : r = <<e>>
      OBVIOUS
    <3>3. Len(r) = 1 /\ r[1] = e
      BY <3>1, <3>2
    <3>4. Distinct(r) /\ Numbers(r) = {e.n}
      BY <3>3 DEF Distinct, Numbers
    <3> QED
      BY <3>2, <3>4
  <2>5. Tail(q) \in Seq(EntrySet)
    BY <1>3
  <2> QED
    BY <1>3, <2>1, <2>2, <2>3, <2>4, <2>5
<1> QED
  BY <1>1, <1>2, <1>3

\* The user messages of a longer session.
LEMMA RecordedOn ==
  ASSUME NEW s \in Seq(EntrySet), NEW e \in EntrySet, Once(s),
         e.type \in Lanes => e.n \notin Recorded(s)
  PROVE  /\ Once(Append(s, e))
         /\ e.type \notin Lanes => Recorded(Append(s, e)) = Recorded(s)
         /\ e.type \in Lanes => Recorded(Append(s, e)) = Recorded(s) \union {e.n}
<1>1. PICK n \in Nat : n = Len(s)
  OBVIOUS
<1>2. PICK v : v = Append(s, e)
  OBVIOUS
<1>3. Len(v) = n + 1 /\ v[n + 1] = e /\ \A i \in 1 .. n : v[i] = s[i]
  BY <1>1, <1>2
<1>4. \A i \in 1 .. (n + 1) : i = n + 1 \/ i \in 1 .. n
  OBVIOUS
<1>5. 1 .. n \subseteq 1 .. (n + 1) /\ n + 1 \in 1 .. (n + 1)
  OBVIOUS
<1>6. /\ e.type \in Lanes => \A i \in 1 .. n : s[i].type \in Lanes => s[i].n # e.n
      /\ \A i, j \in 1 .. n : s[i].type \in Lanes /\ s[j].type \in Lanes /\ s[i].n = s[j].n => i = j
  BY <1>1 DEF Recorded, Once
<1>7. Once(v)
  BY <1>3, <1>4, <1>6 DEF Once
<1>8. \A x : x \in Recorded(s) <=> \E i \in 1 .. n : s[i].type \in Lanes /\ x = s[i].n
  BY <1>1 DEF Recorded
<1>9. \A x : x \in Recorded(v) <=> \E i \in 1 .. (n + 1) : v[i].type \in Lanes /\ x = v[i].n
  BY <1>3 DEF Recorded
<1>10. \A x : x \in Recorded(v) <=> x \in Recorded(s) \/ (e.type \in Lanes /\ x = e.n)
  BY <1>3, <1>4, <1>5, <1>8, <1>9
<1>11. /\ e.type \notin Lanes => Recorded(v) = Recorded(s)
       /\ e.type \in Lanes => Recorded(v) = Recorded(s) \union {e.n}
  BY <1>10
<1> QED
  BY <1>2, <1>7, <1>11

\* Apart, of the values of the next state.
LEMMA ApartNext ==
  ASSUME Once(session'), Distinct(steerQueue'), Distinct(followUpQueue'), Distinct(nextTurnQueue'),
         \A t \in Ops : Distinct(held'[t]),
         Separate(Numbers(steerQueue'), Numbers(followUpQueue'), Numbers(nextTurnQueue'),
                  Recorded(session'), [t \in Ops |-> Numbers(held'[t])], accepted')
  PROVE  Apart'
BY DEF Apart, Once, Distinct, Separate, Numbers, Recorded

\* An entry that is no user message changes nothing.
LEMMA ApartPlain ==
  ASSUME TypeOK, Apart, UNCHANGED <<queueVars, held, accepted>>,
         session' = session \/ \E e \in EntrySet : e.type \notin Lanes /\ session' = Append(session, e)
  PROVE  Apart'
<1>1. session \in Seq(EntrySet) /\ Once(session)
  BY DEF TypeOK, Apart
<1>2. Once(session') /\ Recorded(session') = Recorded(session)
  BY <1>1, RecordedOn
<1> QED
  BY <1>2, ApartNext DEF Apart, queueVars

\* An operation takes what a queue gives it, or what it holds is put back.
LEMMA ApartSnapshot ==
  ASSUME TypeOK, Apart, NEW t \in Ops, Snapshot(t)
  PROVE  Apart'
<1>1. /\ nextTurnQueue' = <<>> /\ held' = [held EXCEPT ![t] = nextTurnQueue \o held[t]]
      /\ UNCHANGED <<session, steerQueue, followUpQueue, accepted>>
  BY DEF Snapshot, stateVars, histVars
<1>2. nextTurnQueue \in Seq(EntrySet) /\ held[t] \in Seq(EntrySet) /\ held \in [Ops -> Seq(EntrySet)]
  BY DEF TypeOK
<1>3. Numbers(nextTurnQueue \o held[t]) = Numbers(nextTurnQueue) \union Numbers(held[t])
  BY <1>2, NumbersJoined
<1>4. Distinct(nextTurnQueue \o held[t])
  <2>1. Numbers(nextTurnQueue) \intersect Numbers(held[t]) = {}
    BY DEF Apart, Separate
  <2> QED
    BY <1>2, <2>1, DistinctJoined DEF Apart
<1>5. Distinct(<<>>) /\ Numbers(<<>>) = {}
  BY DEF Distinct, Numbers
<1>6. PICK H : H = [u \in Ops |-> Numbers(held[u])]
  OBVIOUS
<1>7. PICK G : G = [u \in Ops |-> Numbers(held'[u])]
  OBVIOUS
<1>8. /\ G[t] = Numbers(nextTurnQueue) \union H[t]
      /\ \A u \in Ops : u # t => G[u] = H[u]
  BY <1>1, <1>2, <1>3, <1>6, <1>7
<1>9. Separate(Numbers(steerQueue), Numbers(followUpQueue), {}, Recorded(session), G, accepted)
  <2>1. Separate(Numbers(steerQueue), Numbers(followUpQueue), Numbers(nextTurnQueue), Recorded(session), H, accepted)
    BY <1>6 DEF Apart
  <2> QED
    BY <1>8, <2>1 DEF Separate
<1>10. \A u \in Ops : Distinct(held'[u])
  BY <1>1, <1>2, <1>4 DEF Apart
<1> QED
  BY <1>1, <1>5, <1>7, <1>9, <1>10, ApartNext DEF Apart

LEMMA ApartRecord ==
  ASSUME TypeOK, Kinds, Apart, NEW t \in Ops, RecordMessage(t)
  PROVE  Apart'
<1>1. /\ held[t] # <<>> /\ held' = [held EXCEPT ![t] = Tail(held[t])]
      /\ session' = Append(session, Head(held[t])) /\ pc[t] \in {"announce", "inject"}
      /\ UNCHANGED <<steerQueue, followUpQueue, nextTurnQueue, accepted>>
  BY DEF RecordMessage, queueVars, histVars
<1>2. held[t] \in Seq(EntrySet) /\ held \in [Ops -> Seq(EntrySet)] /\ session \in Seq(EntrySet)
  BY DEF TypeOK
<1>3. PICK e \in EntrySet : e = Head(held[t])
  <2>1. Head(held[t]) \in EntrySet
    BY <1>1, <1>2
  <2> QED
    BY <2>1
<1>4. e.type \in Lanes
  <2>1. OpStep(t) /\ session' # session
    <3>1. PICK n \in Nat : n = Len(session)
      BY <1>2
    <3>2. Len(session') = n + 1
      BY <1>1, <1>2, <1>3, <3>1
    <3> QED
      BY <3>1, <3>2 DEF OpStep
  <2> QED
    BY <1>1, <1>3, <2>1, AppendedTypes DEF Lanes
<1>5. Numbers(held[t]) = {e.n} \union Numbers(Tail(held[t])) /\ e.n \notin Numbers(Tail(held[t]))
      /\ Distinct(Tail(held[t]))
  BY <1>1, <1>2, <1>3, NumbersSplit, DistinctSplit DEF Apart
<1>6. e.n \notin Recorded(session)
  BY <1>5 DEF Apart, Separate
<1>7. Once(session') /\ Recorded(session') = Recorded(session) \union {e.n}
  <2>1. Once(Append(session, e)) /\ Recorded(Append(session, e)) = Recorded(session) \union {e.n}
    BY <1>2, <1>4, <1>6, RecordedOn DEF Apart
  <2> QED
    BY <1>1, <1>3, <2>1
<1>8. PICK H : H = [u \in Ops |-> Numbers(held[u])]
  OBVIOUS
<1>9. PICK G : G = [u \in Ops |-> Numbers(held'[u])]
  OBVIOUS
<1>10. /\ G[t] \subseteq H[t] /\ e.n \in H[t] /\ e.n \notin G[t]
       /\ \A u \in Ops : u # t => G[u] = H[u]
  BY <1>1, <1>2, <1>5, <1>8, <1>9
<1>11. Separate(Numbers(steerQueue), Numbers(followUpQueue), Numbers(nextTurnQueue),
                Recorded(session) \union {e.n}, G, accepted)
  <2>1. Separate(Numbers(steerQueue), Numbers(followUpQueue), Numbers(nextTurnQueue), Recorded(session), H, accepted)
    BY <1>8 DEF Apart
  <2> QED
    BY <1>10, <2>1 DEF Separate
<1>12. \A u \in Ops : Distinct(held'[u])
  BY <1>1, <1>2, <1>5 DEF Apart
<1> QED
  BY <1>1, <1>7, <1>9, <1>11, <1>12, ApartNext DEF Apart

LEMMA ApartPoll ==
  ASSUME TypeOK, Apart, NEW t \in Ops, PollSteering(t) \/ PollFollowUps(t)
  PROVE  Apart'
<1>2. held \in [Ops -> Seq(EntrySet)] /\ steerQueue \in Seq(EntrySet) /\ followUpQueue \in Seq(EntrySet)
      /\ Distinct(steerQueue) /\ Distinct(followUpQueue)
  BY DEF TypeOK, Apart
<1>3. UNCHANGED <<session, nextTurnQueue, accepted>>
  BY DEF PollSteering, PollFollowUps, stateVars, histVars
<1>8. PICK H : H = [u \in Ops |-> Numbers(held[u])]
  OBVIOUS
<1>9. PICK G : G = [u \in Ops |-> Numbers(held'[u])]
  OBVIOUS
<1>a. Separate(Numbers(steerQueue), Numbers(followUpQueue), Numbers(nextTurnQueue), Recorded(session), H, accepted)
  BY <1>8 DEF Apart
<1>4. CASE PollSteering(t)
  <2>1. /\ held' = [held EXCEPT ![t] = Drained(QueueMode, steerQueue)]
        /\ steerQueue' = Remaining(QueueMode, steerQueue) /\ followUpQueue' = followUpQueue
    BY <1>4 DEF PollSteering, Take
  <2>2. /\ Distinct(held'[t]) /\ Distinct(steerQueue')
        /\ Numbers(held'[t]) \subseteq Numbers(steerQueue)
        /\ Numbers(steerQueue') \subseteq Numbers(steerQueue)
        /\ Numbers(held'[t]) \intersect Numbers(steerQueue') = {}
    BY <1>2, <2>1, DrainApart
  <2>3. G[t] = Numbers(held'[t]) /\ \A u \in Ops : u # t => G[u] = H[u]
    BY <1>2, <1>8, <1>9, <2>1
  <2>4. Separate(Numbers(steerQueue'), Numbers(followUpQueue), Numbers(nextTurnQueue), Recorded(session), G, accepted)
    BY <1>a, <2>2, <2>3 DEF Separate
  <2>5. \A u \in Ops : Distinct(held'[u])
    BY <1>2, <2>1, <2>2 DEF Apart
  <2> QED
    BY <1>3, <1>9, <2>1, <2>2, <2>4, <2>5, ApartNext DEF Apart
<1>5. CASE PollFollowUps(t)
  <2>1. /\ held' = [held EXCEPT ![t] = Drained(QueueMode, followUpQueue)]
        /\ followUpQueue' = Remaining(QueueMode, followUpQueue) /\ steerQueue' = steerQueue
    BY <1>5 DEF PollFollowUps, Take
  <2>2. /\ Distinct(held'[t]) /\ Distinct(followUpQueue')
        /\ Numbers(held'[t]) \subseteq Numbers(followUpQueue)
        /\ Numbers(followUpQueue') \subseteq Numbers(followUpQueue)
        /\ Numbers(held'[t]) \intersect Numbers(followUpQueue') = {}
    BY <1>2, <2>1, DrainApart
  <2>3. G[t] = Numbers(held'[t]) /\ \A u \in Ops : u # t => G[u] = H[u]
    BY <1>2, <1>8, <1>9, <2>1
  <2>4. Separate(Numbers(steerQueue), Numbers(followUpQueue'), Numbers(nextTurnQueue), Recorded(session), G, accepted)
    BY <1>a, <2>2, <2>3 DEF Separate
  <2>5. \A u \in Ops : Distinct(held'[u])
    BY <1>2, <2>1, <2>2 DEF Apart
  <2> QED
    BY <1>3, <1>9, <2>1, <2>2, <2>4, <2>5, ApartNext DEF Apart
<1> QED
  BY <1>4, <1>5

LEMMA ApartThrow ==
  ASSUME TypeOK, Kinds, Apart, NEW t \in Ops, Throw(t)
  PROVE  Apart'
<1>1. held' = [held EXCEPT ![t] = <<>>] /\ session' = session /\ accepted' = accepted
  BY WhereItThrows, StepsAreOfOne DEF ByOp
<1>2. /\ held \in [Ops -> Seq(EntrySet)] /\ held[t] \in Seq(EntrySet) /\ steerQueue \in Seq(EntrySet)
      /\ followUpQueue \in Seq(EntrySet) /\ nextTurnQueue \in Seq(EntrySet) /\ Distinct(held[t])
      /\ Distinct(steerQueue) /\ Distinct(followUpQueue) /\ Distinct(nextTurnQueue) /\ Once(session)
  BY DEF TypeOK, Apart
<1>3. Distinct(<<>>) /\ Numbers(<<>>) = {}
  BY DEF Distinct, Numbers
<1>4. PICK H : H = [u \in Ops |-> Numbers(held[u])]
  OBVIOUS
<1>5. PICK G : G = [u \in Ops |-> Numbers(held'[u])]
  OBVIOUS
<1>6. H[t] = Numbers(held[t]) /\ G[t] = {} /\ \A u \in Ops : u # t => G[u] = H[u]
  BY <1>1, <1>2, <1>3, <1>4, <1>5
<1>7. \A u \in Ops : Distinct(held'[u])
  BY <1>1, <1>2, <1>3 DEF Apart
<1>8. Separate(Numbers(steerQueue), Numbers(followUpQueue), Numbers(nextTurnQueue), Recorded(session), H, accepted)
  BY <1>4 DEF Apart
<1>9. /\ Numbers(held[t]) \intersect Numbers(steerQueue) = {}
      /\ Numbers(held[t]) \intersect Numbers(followUpQueue) = {}
      /\ Numbers(held[t]) \intersect Numbers(nextTurnQueue) = {}
  BY <1>6, <1>8 DEF Separate
<1>10. CASE pc[t] = "queued" /\ Opening(held[t])
            /\ nextTurnQueue' = SubSeq(held[t], 1, Len(held[t]) - 1) \o nextTurnQueue
            /\ UNCHANGED <<steerQueue, followUpQueue>>
  <2>1. held[t] # <<>>
    BY <1>10, Openings
  <2>2. PICK q : q = SubSeq(held[t], 1, Len(held[t]) - 1)
    OBVIOUS
  <2>3. q \in Seq(EntrySet) /\ Distinct(q) /\ Numbers(q) \subseteq Numbers(held[t])
    BY <1>2, <2>1, <2>2, DistinctFront
  <2>4. Numbers(q \o nextTurnQueue) = Numbers(q) \union Numbers(nextTurnQueue)
    BY <1>2, <2>3, NumbersJoined
  <2>5. Distinct(q \o nextTurnQueue)
    BY <1>2, <1>9, <2>3, DistinctJoined
  <2>6. nextTurnQueue' = q \o nextTurnQueue /\ UNCHANGED <<steerQueue, followUpQueue>>
    BY <1>10, <2>2
  <2>7. Separate(Numbers(steerQueue), Numbers(followUpQueue), Numbers(q) \union Numbers(nextTurnQueue), Recorded(session), G, accepted)
    BY <1>6, <1>8, <2>3 DEF Separate
  <2> QED
    BY <1>1, <1>2, <1>5, <1>7, <2>4, <2>5, <2>6, <2>7, ApartNext
<1>11. CASE steerQueue' = held[t] \o steerQueue /\ UNCHANGED <<followUpQueue, nextTurnQueue>>
  <2>1. Numbers(held[t] \o steerQueue) = Numbers(held[t]) \union Numbers(steerQueue)
    BY <1>2, NumbersJoined
  <2>2. Distinct(held[t] \o steerQueue)
    BY <1>2, <1>9, DistinctJoined
  <2>3. Separate(Numbers(held[t]) \union Numbers(steerQueue), Numbers(followUpQueue), Numbers(nextTurnQueue), Recorded(session), G, accepted)
    BY <1>6, <1>8 DEF Separate
  <2> QED
    BY <1>1, <1>2, <1>5, <1>7, <1>11, <2>1, <2>2, <2>3, ApartNext
<1>12. CASE followUpQueue' = held[t] \o followUpQueue /\ UNCHANGED <<steerQueue, nextTurnQueue>>
  <2>1. Numbers(held[t] \o followUpQueue) = Numbers(held[t]) \union Numbers(followUpQueue)
    BY <1>2, NumbersJoined
  <2>2. Distinct(held[t] \o followUpQueue)
    BY <1>2, <1>9, DistinctJoined
  <2>3. Separate(Numbers(steerQueue), Numbers(held[t]) \union Numbers(followUpQueue), Numbers(nextTurnQueue), Recorded(session), G, accepted)
    BY <1>6, <1>8 DEF Separate
  <2> QED
    BY <1>1, <1>2, <1>5, <1>7, <1>12, <2>1, <2>2, <2>3, ApartNext
<1>13. CASE UNCHANGED queueVars
  <2>1. Separate(Numbers(steerQueue), Numbers(followUpQueue), Numbers(nextTurnQueue), Recorded(session), G, accepted)
    BY <1>6, <1>8 DEF Separate
  <2> QED
    BY <1>1, <1>2, <1>5, <1>7, <1>13, <2>1, ApartNext DEF queueVars
<1> QED
  BY <1>10, <1>11, <1>12, <1>13, RollsBack

\* A new message has a number no other has.
LEMMA ApartAccepted ==
  ASSUME TypeOK, Apart, Steer \/ FollowUp \/ NextTurn
  PROVE  Apart'
<1>1. UNCHANGED <<session, held>> /\ accepted' = accepted + 1 /\ accepted \in Nat
  BY DEF Steer, FollowUp, NextTurn, stateVars, opVars, TypeOK
<1>2. PICK n \in Nat : n = accepted + 1 /\ n \notin 1 .. accepted /\ 1 .. accepted \subseteq 1 .. n /\ n \in 1 .. n
  BY <1>1
<1>3. /\ steerQueue \in Seq(EntrySet) /\ followUpQueue \in Seq(EntrySet) /\ nextTurnQueue \in Seq(EntrySet)
      /\ Distinct(steerQueue) /\ Distinct(followUpQueue) /\ Distinct(nextTurnQueue) /\ Once(session)
      /\ \A u \in Ops : Distinct(held[u])
  BY DEF TypeOK, Apart
<1>4. PICK H : H = [u \in Ops |-> Numbers(held[u])]
  OBVIOUS
<1>5. H = [u \in Ops |-> Numbers(held'[u])]
  BY <1>1, <1>4
<1>6. Separate(Numbers(steerQueue), Numbers(followUpQueue), Numbers(nextTurnQueue), Recorded(session), H, accepted)
  BY <1>4 DEF Apart
<1>7. n \notin Numbers(steerQueue) /\ n \notin Numbers(followUpQueue) /\ n \notin Numbers(nextTurnQueue)
      /\ n \notin Recorded(session) /\ \A u \in Ops : n \notin H[u]
  BY <1>2, <1>6 DEF Separate
<1>8. \A lane \in {"steer", "followUp", "nextTurn"} : User(lane, n) \in EntrySet /\ User(lane, n).n = n
  BY DEF User, Entry, EntrySet, Lanes
<1>9. CASE Steer
  <2>1. PICK e \in EntrySet : e = User("steer", n) /\ e.n = n
    BY <1>8
  <2>2. steerQueue' = Append(steerQueue, e) /\ UNCHANGED <<followUpQueue, nextTurnQueue>>
    BY <1>2, <1>9, <2>1 DEF Steer
  <2>3. Numbers(steerQueue') = Numbers(steerQueue) \union {n} /\ Distinct(steerQueue')
    <3>1. Numbers(Append(steerQueue, e)) = Numbers(steerQueue) \union {e.n}
      BY <1>3, NumbersAppended
    <3>2. Distinct(Append(steerQueue, e))
      BY <1>3, <1>7, <2>1, DistinctAppended
    <3> QED
      BY <2>1, <2>2, <3>1, <3>2
  <2>4. Separate(Numbers(steerQueue) \union {n}, Numbers(followUpQueue), Numbers(nextTurnQueue), Recorded(session), H, n)
    BY <1>2, <1>6, <1>7 DEF Separate
  <2> QED
    BY <1>1, <1>2, <1>3, <1>5, <2>2, <2>3, <2>4, ApartNext
<1>10. CASE FollowUp
  <2>1. PICK e \in EntrySet : e = User("followUp", n) /\ e.n = n
    BY <1>8
  <2>2. followUpQueue' = Append(followUpQueue, e) /\ UNCHANGED <<steerQueue, nextTurnQueue>>
    BY <1>2, <1>10, <2>1 DEF FollowUp
  <2>3. Numbers(followUpQueue') = Numbers(followUpQueue) \union {n} /\ Distinct(followUpQueue')
    <3>1. Numbers(Append(followUpQueue, e)) = Numbers(followUpQueue) \union {e.n}
      BY <1>3, NumbersAppended
    <3>2. Distinct(Append(followUpQueue, e))
      BY <1>3, <1>7, <2>1, DistinctAppended
    <3> QED
      BY <2>1, <2>2, <3>1, <3>2
  <2>4. Separate(Numbers(steerQueue), Numbers(followUpQueue) \union {n}, Numbers(nextTurnQueue), Recorded(session), H, n)
    BY <1>2, <1>6, <1>7 DEF Separate
  <2> QED
    BY <1>1, <1>2, <1>3, <1>5, <2>2, <2>3, <2>4, ApartNext
<1>11. CASE NextTurn
  <2>1. PICK e \in EntrySet : e = User("nextTurn", n) /\ e.n = n
    BY <1>8
  <2>2. nextTurnQueue' = Append(nextTurnQueue, e) /\ UNCHANGED <<steerQueue, followUpQueue>>
    BY <1>2, <1>11, <2>1 DEF NextTurn
  <2>3. Numbers(nextTurnQueue') = Numbers(nextTurnQueue) \union {n} /\ Distinct(nextTurnQueue')
    <3>1. Numbers(Append(nextTurnQueue, e)) = Numbers(nextTurnQueue) \union {e.n}
      BY <1>3, NumbersAppended
    <3>2. Distinct(Append(nextTurnQueue, e))
      BY <1>3, <1>7, <2>1, DistinctAppended
    <3> QED
      BY <2>1, <2>2, <3>1, <3>2
  <2>4. Separate(Numbers(steerQueue), Numbers(followUpQueue), Numbers(nextTurnQueue) \union {n}, Recorded(session), H, n)
    BY <1>2, <1>6, <1>7 DEF Separate
  <2> QED
    BY <1>1, <1>2, <1>3, <1>5, <2>2, <2>3, <2>4, ApartNext
<1> QED
  BY <1>9, <1>10, <1>11

LEMMA ApartPrompt ==
  ASSUME TypeOK, Apart, Prompt
  PROVE  Apart'
<1>1. PICK t \in Ops : t = ops + 1
  BY Newcomer DEF Prompt
<1>2. UNCHANGED <<session, steerQueue, followUpQueue, nextTurnQueue>> /\ accepted' = accepted + 1 /\ accepted \in Nat
      /\ held \in [Ops -> Seq(EntrySet)]
  BY DEF Prompt, queueVars, TypeOK
<1>3. PICK n \in Nat : n = accepted + 1 /\ n \notin 1 .. accepted /\ 1 .. accepted \subseteq 1 .. n /\ n \in 1 .. n
  BY <1>2
<1>4. PICK e : e = User("prompt", n)
  OBVIOUS
<1>5. held' = [held EXCEPT ![t] = <<e>>] /\ e.n = n
  <2>1. e.n = n
    BY <1>4 DEF User, Entry
  <2> QED
    BY <1>1, <1>3, <1>4, <2>1 DEF Prompt
<1>6. Distinct(<<e>>) /\ Numbers(<<e>>) = {n}
  <2>1. PICK r : r = <<e>>
    OBVIOUS
  <2>2. Len(r) = 1 /\ r[1] = e
    BY <2>1
  <2>3. Distinct(r) /\ Numbers(r) = {e.n}
    BY <2>2 DEF Distinct, Numbers
  <2> QED
    BY <1>5, <2>1, <2>3
<1>7. PICK H : H = [u \in Ops |-> Numbers(held[u])]
  OBVIOUS
<1>8. PICK G : G = [u \in Ops |-> Numbers(held'[u])]
  OBVIOUS
<1>9. G[t] = {n} /\ \A u \in Ops : u # t => G[u] = H[u]
  BY <1>2, <1>5, <1>6, <1>7, <1>8
<1>10. Separate(Numbers(steerQueue), Numbers(followUpQueue), Numbers(nextTurnQueue), Recorded(session), G, n)
  <2>1. Separate(Numbers(steerQueue), Numbers(followUpQueue), Numbers(nextTurnQueue), Recorded(session), H, accepted)
    BY <1>7 DEF Apart
  <2> QED
    BY <1>3, <1>9, <2>1 DEF Separate
<1>11. \A u \in Ops : Distinct(held'[u])
  BY <1>2, <1>5, <1>6 DEF Apart
<1> QED
  BY <1>2, <1>3, <1>8, <1>10, <1>11, ApartNext DEF Apart

LEMMA ApartKept ==
  ASSUME TypeOK, Kinds, Apart, [Next]_vars
  PROVE  Apart'
<1>1. ASSUME NEW t \in Ops, OpStep(t)
      PROVE  Apart'
  <2>1. CASE ~(Snapshot(t) \/ RecordMessage(t) \/ PollSteering(t) \/ PollFollowUps(t))
    <3>1. UNCHANGED <<queueVars, held, accepted>>
      BY <1>1, <2>1, WhoMoves, StepsAreOfOne DEF ByOp, queueVars
    <3>2. session' = session \/ \E e \in EntrySet : e.type \notin Lanes /\ session' = Append(session, e)
      BY <1>1, <2>1, AppendedTypes
    <3> QED
      BY <3>1, <3>2, ApartPlain
  <2> QED
    BY <2>1, ApartSnapshot, ApartRecord, ApartPoll
<1>2. CASE Compact \/ NavigateTree
  BY <1>2, ApartPlain DEF Compact, NavigateTree, StartStructural
<1>3. CASE Abort
  <2>1. steerQueue' = <<>> /\ followUpQueue' = <<>> /\ UNCHANGED <<session, nextTurnQueue, held, accepted>>
    BY <1>3 DEF Abort, stateVars
  <2>2. Distinct(<<>>) /\ Numbers(<<>>) = {}
    BY DEF Distinct, Numbers
  <2>3. PICK H : H = [u \in Ops |-> Numbers(held[u])]
    OBVIOUS
  <2>4. Separate({}, {}, Numbers(nextTurnQueue), Recorded(session), H, accepted)
    <3>1. Separate(Numbers(steerQueue), Numbers(followUpQueue), Numbers(nextTurnQueue), Recorded(session), H, accepted)
      BY <2>3 DEF Apart
    <3> QED
      BY <3>1 DEF Separate
  <2> QED
    BY <2>1, <2>2, <2>3, <2>4, ApartNext DEF Apart
<1>4. CASE \/ \E type \in {"config", "note"} : WriteWhileBusy(type) \/ WriteWhileIdle(type)
           \/ \E e \in inFlight : WriteDone(e) \/ WriteFails(e)
  <2>1. UNCHANGED <<queueVars, held, accepted>>
    BY <1>4 DEF WriteWhileBusy, WriteWhileIdle, WriteDone, WriteFails, opVars, histVars
  <2>2. \A e \in inFlight : e \in EntrySet /\ e.type \notin Lanes
    BY DEF Kinds, Of, EntrySet, Lanes
  <2>3. session' = session \/ \E e \in inFlight : session' = Append(session, e)
    BY <1>4 DEF WriteWhileBusy, WriteWhileIdle, WriteDone, WriteFails
  <2> QED
    BY <2>1, <2>2, <2>3, ApartPlain
<1>5. CASE UNCHANGED vars
  BY <1>5, ApartPlain DEF vars, stateVars, queueVars, opVars, histVars
<1> QED
  BY <1>1, <1>2, <1>3, <1>4, <1>5, Steps, ApartThrow, ApartAccepted, ApartPrompt DEF ByOp, Beside

LEMMA ApartInit ==
  ASSUME Init
  PROVE  Apart
BY DEF Init, Apart, Once, Distinct, Separate, Numbers, Recorded

LEMMA ApartOnce ==
  ASSUME Apart
  PROVE  UserMessagesOnce
BY DEF Apart, Once, UserMessagesOnce
-----------------------------------------------------------------------------
(* The theorems.                                                           *)

\* What holds whatever overlaps.
LEMMA AnyInvariant == Spec => []AnyInv
<1>1. Init => AnyInv
  BY TypesInit, KindsInit, ApartInit DEF AnyInv
<1>2. AnyInv /\ [Next]_vars => AnyInv'
  BY TypesKept, KindsKept, ApartKept DEF AnyInv
<1> QED
  BY <1>1, <1>2, PTL DEF Spec

\* What holds for a caller that awaits.
LEMMA HarnessInvariant ==
  ASSUME ~Overlap
  PROVE  Spec => []HarnessInv
<1>1. Init => HarnessInv
  <2> SUFFICES ASSUME Init
               PROVE  HarnessInv
    OBVIOUS
  <2>1. OneRunAtATime
    BY HarnessAssumption DEF Init, OneRunAtATime, Labels, Ops, OnRun, InRun, Running, Started
  <2> QED
    BY <2>1, TypesInit, KindsInit, ApartInit, InOrderInit, NextTurnInit, KnownInit, InPlaceInit, SettlesInit
    DEF HarnessInv
<1>2. HarnessInv /\ [Next]_vars => HarnessInv'
  <2> SUFFICES ASSUME HarnessInv, [Next]_vars
               PROVE  HarnessInv'
    OBVIOUS
  <2>0. TypeOK /\ Kinds /\ Apart /\ OneRunAtATime /\ NothingBeside /\ InOrder /\ NextTurnHeld /\ Known
        /\ InPlace /\ Settles
    BY DEF HarnessInv
  <2>1. TypeOK' /\ Kinds' /\ Apart'
    BY <2>0, TypesKept, KindsKept, ApartKept
  <2>2. OneRunAtATime' /\ NothingBeside' /\ InOrder'
    BY <2>0, NextKeeps, BesideKept, InOrderKept
  <2>3. NextTurnHeld' /\ Known'
    BY <2>0, NextTurnKept, KnownKept
  <2>4. InPlace' /\ Settles'
    BY <2>0, InPlaceKept, SettlesKept
  <2> QED
    BY <2>1, <2>2, <2>3, <2>4 DEF HarnessInv
<1> QED
  BY <1>1, <1>2, PTL DEF Spec

\* UserMessagesOnce: no user message is recorded twice, whatever operations overlap,
\* whatever is aborted and whichever drain is rolled back.
THEOREM RecordedOnce == Spec => []UserMessagesOnce
<1>1. AnyInv => UserMessagesOnce
  BY ApartOnce DEF AnyInv
<1> QED
  BY <1>1, AnyInvariant, PTL

\* UserMessagesKept: for a caller that awaits, none is recorded twice, and what was
\* given to nextTurn() is kept until it is recorded whatever is aborted and whatever
\* throws, the rollback of executeTurn included: only a hook or an announcement that
\* fails after that rollback loses messages, those its own operation holds.  Until
\* that happens they stand in front of the prompt of their turn.
THEOREM NextTurnsAreKept ==
  ASSUME ~Overlap
  PROVE  Spec => []UserMessagesKept
<1>1. HarnessInv => UserMessagesKept
  BY ApartOnce, NextTurnSafe DEF HarnessInv, UserMessagesKept
<1> QED
  BY <1>1, HarnessInvariant, PTL

\* WritesInOrderOnce: for a caller that awaits, flushPendingSessionWrites saves each
\* write that had to wait once and in order, whichever append or hook fails and
\* wherever a flush is left half done.
THEOREM WritesAreSavedInOrder ==
  ASSUME ~Overlap
  PROVE  Spec => []WritesInOrderOnce
<1>1. HarnessInv => WritesInOrderOnce
  BY InOrderOnce DEF HarnessInv
<1> QED
  BY <1>1, HarnessInvariant, PTL

\* RequestSeesSession: for a caller that awaits, a request is made of the messages the
\* session holds, in their order, and of no older config than the newest recorded,
\* although the loop appends to a context of its own and createTurnState reads the
\* session and the config at different times.
THEOREM RequestsAreOfTheSession ==
  ASSUME ~Overlap
  PROVE  Spec => []RequestSeesSession
<1>1. HarnessInv => RequestSeesSession
  BY KnownSeen DEF HarnessInv
<1> QED
  BY <1>1, HarnessInvariant, PTL

\* WritesFollowTheTurn: for a caller that awaits, a write that had to wait never lands
\* between a user message and the answer to it, as long as nothing fails.
THEOREM WritesLandBehindTheTurn ==
  ASSUME ~Overlap
  PROVE  Spec => []WritesFollowTheTurn
<1>1. HarnessInv => WritesFollowTheTurn
  BY InPlaceFollows DEF HarnessInv
<1> QED
  BY <1>1, HarnessInvariant, PTL

\* Nothing has failed so far.
Faultless == faults = 0

\* WritesReachTheirPlace: where nothing fails and there is no compaction and no tree
\* navigation, every write that had to wait is besides saved when the harness has
\* nothing left to do.  Both conditions are needed: compact() and navigateTree() flush
\* nothing, and a flush that throws leaves its writes to the next one.
THEOREM WritesAreSaved ==
  ASSUME ~Overlap, ~Structural, MaxFaults = 0
  PROVE  Spec => []WritesReachTheirPlace
<1>1. Init => Faultless
  BY DEF Init, Faultless
<1>2. Faultless /\ TypeOK /\ [Next]_vars => Faultless'
  <2> SUFFICES ASSUME faults = 0, TypeOK, [Next]_vars
               PROVE  faults' = 0
    BY DEF Faultless
  <2>1. ASSUME NEW t \in Ops, OpStep(t)
        PROVE  faults' = 0
    BY <2>1, WhoMoves
  <2>2. ASSUME NEW t \in Ops, Throw(t)
        PROVE  FALSE
    BY <2>2 DEF Throw
  <2>3. CASE Prompt \/ Compact \/ NavigateTree
    BY <2>3 DEF Prompt, Compact, NavigateTree, StartStructural
  <2>4. CASE Beside
    BY <2>4 DEF Beside, WriteWhileBusy, WriteWhileIdle, WriteDone, WriteFails, Steer, FollowUp, NextTurn,
       Abort, histVars
  <2>5. CASE UNCHANGED vars
    BY <2>5 DEF vars, histVars
  <2> QED
    BY <2>1, <2>2, <2>3, <2>4, <2>5, Steps DEF ByOp
<1>3. HarnessInv => TypeOK
  BY DEF HarnessInv
<1>4. HarnessInv /\ Faultless => WritesReachTheirPlace
  <2> SUFFICES ASSUME HarnessInv, Faultless
               PROVE  WritesReachTheirPlace
    OBVIOUS
  <2>1. WritesFollowTheTurn
    BY InPlaceFollows DEF HarnessInv
  <2>2. PendingWritesPersisted
    BY DEF Faultless, HarnessInv, Settles, PendingWritesPersisted, Quiet
  <2> QED
    BY <2>1, <2>2 DEF WritesReachTheirPlace
<1>5. Spec => []HarnessInv
  BY HarnessInvariant
<1>6. Spec => []TypeOK
  BY <1>3, <1>5, PTL
<1>7. Spec => []Faultless
  BY <1>1, <1>2, <1>6, PTL DEF Spec
<1> QED
  BY <1>4, <1>5, <1>7, PTL
=============================================================================
