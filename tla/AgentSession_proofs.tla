------------------------- MODULE AgentSession_proofs ------------------------
(***************************************************************************)
(* The safety properties of AgentSession.tla, for any number of callers,   *)
(* messages, replies, retries and compactions.                             *)
(***************************************************************************)
EXTENDS AgentSession, SequenceTheorems, WellFoundedInduction, NaturalsInduction, TLAPS

-----------------------------------------------------------------------------
(* Types.                                                                  *)

ReplyKinds == {"stop", "full", "tools", "error", "fatal", "overflow", "length", "aborted"}
Kinds == ReplyKinds \union {"text", "image", "summary"}
Roles == {"user", "custom", "bash", "assistant", "result", "compaction"}

\* A message is a reply if its kind is that of one.
Messages ==
  {m \in [role : Roles, kind : Kinds, id : Nat, keep : Nat] :
     m.role = "assistant" <=> m.kind \in ReplyKinds}

\* What waits to be said, and what shell commands leave.
Loose  == {m \in Messages : m.role \in {"user", "custom"} /\ m.kind \in Contents \union {"text"}}
Asides == {m \in Messages : m.role = "custom" /\ m.kind = "text"}
Bashes == {m \in Messages : m.role = "bash"}

Places == {"idle", "preflight", "starting", "running", "delaying", "cancelled",
           "compacting", "settling"}
Stages == {"none", "prompts", "turn", "tools", "stopping", "ending"}
RunRecords  == [at : Stages, todo : Seq(Loose), skip : BOOLEAN, aborted : BOOLEAN]

SessionTypes ==
  /\ active \in BOOLEAN /\ connected \in BOOLEAN /\ waiting \subseteq Waiters
  /\ context \in Seq(Messages) /\ session \in Seq(Messages)
  /\ pendingBash \in Seq(Bashes) /\ nextTurn \in Seq(Asides)
  /\ steering \in Seq(Loose) /\ followUp \in Seq(Loose)
  /\ shownSteering \in Seq(Nat) /\ shownFollowUp \in Seq(Nat)
  /\ last \in Seq(Messages) /\ Len(last) <= 1 /\ (last # <<>> => last[1].role = "assistant")
  /\ attempt \in 0..MaxRetries /\ recovered \in BOOLEAN
  /\ pc \in [Prompters -> Places]
  /\ msgs \in [Prompters -> Seq(Loose)]
  /\ held \in [Prompters -> [id : Nat, retry : BOOLEAN]]
  /\ compactor \in {"idle", "aborting", "compacting"} /\ keeping \in Nat
  /\ run \in RunRecords /\ clock \in Nat
  /\ deaf \in BOOLEAN /\ threw \in BOOLEAN /\ overlapped \in BOOLEAN

\* What is being saved: nothing, or one message of the run.
SavingTypes ==
  /\ crossed \in BOOLEAN
  /\ saving # <<>> => \E m \in Messages : saving = <<m>> /\ m.role # "compaction"

LEMMA Greatest ==
  ASSUME NEW n \in Nat, NEW S \in SUBSET (1..n), S # {}
  PROVE  Latest(S) \in S /\ \A y \in S : y <= Latest(S)
<1> DEFINE R == {ss \in Nat \X Nat : ss[1] < ss[2]}
           T == {n - x : x \in S}
<1>1. IsWellFoundedOn(R, Nat)
  BY NatLessThanWellFounded DEF OpToRel
<1>2. T \in SUBSET Nat /\ T # {}
  <2>1. T \in SUBSET Nat
    OBVIOUS
  <2>2. T # {}
    OBVIOUS
  <2> QED
    BY <2>1, <2>2
<1>3. PICK z \in T : \A y \in T : <<y, z>> \notin R
  <2> HIDE DEF R, T
  <2> QED
    BY <1>1, <1>2, WFMin
<1>4. PICK x \in S : z = n - x
  BY <1>3
<1>5. \A y \in S : y <= x
  <2> SUFFICES ASSUME NEW y \in S, x < y PROVE FALSE
    OBVIOUS
  <2>1. <<n - y, n - x>> \in Nat \X Nat /\ n - y < n - x /\ n - y \in T
    OBVIOUS
  <2>2. <<n - y, n - x>> \in R
    BY <2>1
  <2> QED
    BY <1>3, <1>4, <2>1, <2>2
<1> QED
  BY <1>5 DEF Latest

LEMMA LatestIs ==
  ASSUME NEW n \in Nat, NEW S \in SUBSET (1..n), n \in S
  PROVE  Latest(S) = n
<1>1. Latest(S) \in S /\ \A y \in S : y <= Latest(S)
  BY Greatest
<1>2. Latest(S) \in 1..n /\ n <= Latest(S)
  BY <1>1
<1> QED
  BY <1>2

LEMMA Made ==
  ASSUME NEW id \in Nat
  PROVE  /\ Message("user", "text", id) \in Loose
         /\ \A content \in Contents : Message("user", content, id) \in Loose
         /\ Message("custom", "text", id) \in Asides
         /\ Message("bash", "text", id) \in Bashes
         /\ Message("result", "text", id) \in Messages
         /\ \A kind \in ReplyKinds : Message("assistant", kind, id) \in Messages
         /\ \A keep \in Nat : CompactionOf(id, keep) \in Messages
         /\ Asides \subseteq Loose /\ Loose \subseteq Messages /\ Bashes \subseteq Messages
  BY SessionAssumption DEF Message, CompactionOf, Loose, Asides, Bashes, Messages, Roles, Kinds, ReplyKinds

LEMMA Fields ==
  ASSUME NEW r, NEW k, NEW id, NEW n
  PROVE  /\ Message(r, k, id).role = r /\ Message(r, k, id).kind = k /\ Message(r, k, id).id = id
         /\ CompactionOf(id, n).role = "compaction" /\ CompactionOf(id, n).kind = "summary"
         /\ CompactionOf(id, n).id = id /\ CompactionOf(id, n).keep = n
  BY DEF Message, CompactionOf

LEMMA MessageFields ==
  ASSUME NEW m \in Messages
  PROVE  /\ m.role \in Roles /\ m.kind \in Kinds /\ m.id \in Nat
         /\ m.role = "assistant" <=> m.kind \in ReplyKinds
  BY DEF Messages

\* What a queue gives, and what it keeps.
LEMMA Drain ==
  ASSUME NEW S, NEW q \in Seq(S)
  PROVE  /\ Drained(Mode, q) \in Seq(S) /\ Remaining(Mode, q) \in Seq(S)
         /\ q = <<>> => Drained(Mode, q) = <<>> /\ Remaining(Mode, q) = <<>>
         /\ q # <<>> => Drained(Mode, q) # <<>>
         /\ \/ Drained(Mode, q) = q /\ Remaining(Mode, q) = <<>>
            \/ q # <<>> /\ Drained(Mode, q) = <<Head(q)>> /\ Remaining(Mode, q) = Tail(q)
<1>1. CASE Mode = "all" \/ q = <<>>
  BY <1>1 DEF Drained, Remaining
<1>2. CASE ~(Mode = "all" \/ q = <<>>)
  <2>1. Drained(Mode, q) = <<Head(q)>> /\ Remaining(Mode, q) = Tail(q)
    BY <1>2 DEF Drained, Remaining
  <2>2. Head(q) \in S /\ Tail(q) \in Seq(S)
    BY <1>2, HeadTailProperties
  <2> QED
    BY <1>2, <2>1, <2>2
<1> QED
  BY <1>1, <1>2

-----------------------------------------------------------------------------
(* The context that is built from a session.                               *)

LEMMA ContextOf ==
  ASSUME NEW s, NEW c, Positions(s, IsCompaction) # {}, c = Latest(Positions(s, IsCompaction)),
         NEW K, K = {i \in 1..(c - 1) : s[i].id = s[c].keep}
  PROVE  BuildContext(s) = <<s[c]>> \o (IF K = {} THEN <<>> ELSE SubSeq(s, Latest(K), c - 1))
                           \o SubSeq(s, c + 1, Len(s))
  BY DEF BuildContext

\* A compaction that has just been recorded: it, and what it kept to the end.
LEMMA Rebuilt ==
  ASSUME NEW s \in Seq(Messages), NEW c \in Messages, c.role = "compaction"
  PROVE  \/ BuildContext(Append(s, c)) = <<c>>
         \/ \E k \in 1..Len(s) : /\ s[k].id = c.keep
                                 /\ BuildContext(Append(s, c)) = <<c>> \o SubSeq(s, k, Len(s))
<1> DEFINE n == Len(s)
           t == Append(s, c)
           C == Positions(t, IsCompaction)
           K == {i \in 1..n : t[i].id = t[n + 1].keep}
<1>1. n \in Nat /\ t \in Seq(Messages) /\ Len(t) = n + 1 /\ t[n + 1] = c /\ \A i \in 1..n : t[i] = s[i]
  BY AppendProperties
<1>2. C \in SUBSET (1..(n + 1)) /\ n + 1 \in C
  BY <1>1 DEF Positions, IsCompaction
<1>3. Latest(C) = n + 1
  <2>1. n + 1 \in Nat
    BY <1>1
  <2> HIDE DEF C, n
  <2> QED
    BY <1>2, <2>1, LatestIs
<1>4. SubSeq(t, n + 2, n + 1) = <<>>
  BY <1>1, SubSeqEmpty
<1>5. BuildContext(t) = <<c>> \o (IF K = {} THEN <<>> ELSE SubSeq(t, Latest(K), n)) \o <<>>
  <2>1. (n + 1) - 1 = n /\ (n + 1) + 1 = n + 2 /\ C # {}
    BY <1>1, <1>2
  <2>2. K = {i \in 1..((n + 1) - 1) : t[i].id = t[n + 1].keep}
    BY <2>1
  <2> HIDE DEF n, t, K
  <2>3. BuildContext(t) = <<t[n + 1]>> \o (IF K = {} THEN <<>> ELSE SubSeq(t, Latest(K), (n + 1) - 1))
                          \o SubSeq(t, (n + 1) + 1, Len(t))
    BY <1>3, <2>1, <2>2, ContextOf
  <2> QED
    BY <1>1, <1>4, <2>1, <2>3
<1>6. CASE K = {}
  BY <1>5, <1>6, ConcatEmptySeq
<1>7. CASE K # {}
  <2> DEFINE k == Latest(K)
  <2>1. k \in K
    <3>1. K \in SUBSET (1..n)
      OBVIOUS
    <3> HIDE DEF K
    <3> QED
      BY <1>1, <1>7, <3>1, Greatest
  <2> HIDE DEF k
  <2>2. k \in 1..n /\ s[k].id = c.keep
    BY <1>1, <2>1
  <2>3. SubSeq(t, k, n) = SubSeq(s, k, n) /\ SubSeq(s, k, n) \in Seq(Messages)
    <3>1. t = s \o <<c>>
      BY AppendIsConcat
    <3>2. SubSeq(s, k, n) \in Seq(Messages)
      BY <1>1, <2>2
    <3> QED
      BY <1>1, <2>2, <3>1, <3>2, SubSeqOfConcat1
  <2>4. BuildContext(t) = <<c>> \o SubSeq(s, k, n)
    <3>1. BuildContext(t) = <<c>> \o SubSeq(t, k, n) \o <<>>
      BY <1>5, <1>7 DEF k
    <3> HIDE DEF n, t
    <3>2. <<c>> \o SubSeq(s, k, n) \in Seq(Messages)
      BY <2>3
    <3> QED
      BY <2>3, <3>1, <3>2, ConcatEmptySeq
  <2> QED
    BY <2>2, <2>4
<1> QED
  BY <1>6, <1>7

-----------------------------------------------------------------------------
(* How a run of _handlePostAgentRun goes on: with another run, to its end, *)
(* or into a compaction.                                                   *)

Put(p, place) == pc' = [pc EXCEPT ![p] = place]

Continues(p, ctx, entries) ==
  /\ ctx # <<>> /\ Released(p).at = "none"
  /\ Put(p, "running") /\ held' = [held EXCEPT ![p] = Nothing]
  /\ context' = ctx /\ session' = entries
  /\ UNCHANGED <<active, pendingBash, threw>>
  /\ \E todo, skip :
       /\ run' = NewRun(todo, skip) /\ skip \in BOOLEAN
       /\ \/ /\ todo = <<>> /\ ~EndsWith(ctx, "assistant")
             /\ UNCHANGED queues
          \/ /\ steering # <<>> /\ todo = Drained(Mode, steering)
             /\ steering' = Remaining(Mode, steering) /\ UNCHANGED followUp
          \/ /\ steering = <<>> /\ followUp # <<>> /\ todo = Drained(Mode, followUp)
             /\ followUp' = Remaining(Mode, followUp) /\ UNCHANGED steering

\* It ends: for nothing is queued, another run is at work, or there is nothing
\* to continue from.
Rests(p, ctx, entries) ==
  /\ Settle(p, ctx, entries) /\ run' = Released(p)
  /\ UNCHANGED queues
  /\ threw' \in {threw, TRUE}
  /\ Released(p).at # "none" \/ ctx = <<>> \/ ~HasQueued

\* The end after a continuation that was asked for.
Declines(p, ctx, entries) ==
  /\ Rests(p, ctx, entries)
  /\ Released(p).at # "none" \/ threw' = TRUE

Compacts(p, ctx) ==
  /\ Put(p, "compacting") /\ context' = ctx /\ run' = Released(p)
  /\ \E i \in CutPoints(session), retry \in BOOLEAN :
       held' = [held EXCEPT ![p] = [id |-> session[i].id, retry |-> retry]]
  /\ UNCHANGED <<session, pendingBash, active, queues, threw>>

GoesOn(p, ctx, entries) ==
  \/ Continues(p, ctx, entries) \/ Rests(p, ctx, entries)
  \/ Compacts(p, ctx) /\ entries = session

LEMMA Resumes ==
  ASSUME SessionTypes, NEW p \in Prompters, NEW ctx, NEW entries, Resume(p, ctx, entries)
  PROVE  Continues(p, ctx, entries) \/ Declines(p, ctx, entries)
<1> USE DEF Put, SessionTypes
<1>1. CASE Released(p).at = "none" /\ ctx # <<>> /\ ~EndsWith(ctx, "assistant")
           /\ Starts(p, ctx, entries, <<>>, FALSE) /\ UNCHANGED queues
  BY <1>1 DEF Starts, Continues
<1>2. CASE /\ Released(p).at = "none" /\ EndsWith(ctx, "assistant") /\ steering # <<>>
           /\ Starts(p, ctx, entries, Drained(Mode, steering), TRUE)
           /\ steering' = Remaining(Mode, steering)
           /\ UNCHANGED followUp
  BY <1>2 DEF Starts, Continues, EndsWith
<1>3. CASE /\ Released(p).at = "none" /\ EndsWith(ctx, "assistant") /\ steering = <<>> /\ followUp # <<>>
           /\ Starts(p, ctx, entries, Drained(Mode, followUp), FALSE)
           /\ followUp' = Remaining(Mode, followUp)
           /\ UNCHANGED steering
  BY <1>3 DEF Starts, Continues, EndsWith
<1>4. CASE /\ Released(p).at # "none" \/ ctx = <<>> \/ (EndsWith(ctx, "assistant") /\ ~HasQueued)
           /\ Settle(p, ctx, entries)
           /\ threw' = (threw \/ Released(p).at = "none")
           /\ run' = Released(p)
           /\ UNCHANGED queues
  BY <1>4 DEF Declines, Rests
<1> QED
  BY <1>1, <1>2, <1>3, <1>4 DEF Resume

LEMMA Proceeds ==
  ASSUME SessionTypes, NEW p \in Prompters, NEW ctx, NEW entries, Proceed(p, ctx, entries)
  PROVE  Continues(p, ctx, entries) \/ Rests(p, ctx, entries)
<1>1. CASE HasQueued
  BY <1>1, Resumes DEF Proceed, Declines
<1>2. CASE ~HasQueued
  BY <1>2 DEF Proceed, SettleOnly, Rests
<1> QED
  BY <1>1, <1>2

\* An overflow takes the reply off the context first.
LEMMA Checks ==
  ASSUME SessionTypes, NEW p \in Prompters, NEW m, CheckCompaction(p, m)
  PROVE  /\ recovered' \in BOOLEAN
         /\ \E ctx : /\ GoesOn(p, ctx, session)
                     /\ \/ ctx = context
                        \/ ctx = WithoutTrailingReply(context) /\ Overflown(m)
<1> DEFINE verdict == IF m.kind = "aborted" THEN "none" ELSE Verdict(m)
           ctx == IF verdict = "overflow" THEN WithoutTrailingReply(context) ELSE context
<1>1. verdict = "overflow" => Overflown(m)
  BY DEF Verdict
<1>2. ASSUME StartsCompaction(p, verdict, session, "compacting"), context' = ctx,
             run' = Released(p), UNCHANGED <<session, pendingBash, active, queues, threw>>
      PROVE  GoesOn(p, ctx, session)
  <2>1. PICK i \in CutPoints(session) :
          held' = [held EXCEPT ![p] = [id |-> session[i].id, retry |-> verdict = "overflow"]]
    BY <1>2 DEF StartsCompaction
  <2>2. (verdict = "overflow") \in BOOLEAN
    OBVIOUS
  <2>3. pc' = [pc EXCEPT ![p] = "compacting"]
    BY <1>2 DEF StartsCompaction
  <2> HIDE DEF verdict, ctx
  <2>4. Compacts(p, ctx)
    BY <1>2, <2>1, <2>2, <2>3 DEF Compacts, Put
  <2> QED
    BY <2>4 DEF GoesOn
<1>3. ASSUME Proceed(p, ctx, session)
      PROVE  GoesOn(p, ctx, session)
  <2> HIDE DEF ctx
  <2> QED
    BY <1>3, Proceeds DEF GoesOn
<1>4. GoesOn(p, ctx, session)
  <2>1. \/ /\ StartsCompaction(p, verdict, session, "compacting") /\ context' = ctx
           /\ run' = Released(p) /\ UNCHANGED <<session, pendingBash, active, queues, threw>>
        \/ Proceed(p, ctx, session)
    BY DEF CheckCompaction
  <2> HIDE DEF verdict, ctx
  <2> QED
    BY <1>2, <1>3, <2>1
<1>5. recovered' \in BOOLEAN
  BY DEF CheckCompaction, SessionTypes
<1>6. ctx = context \/ (ctx = WithoutTrailingReply(context) /\ Overflown(m))
  BY <1>1
<1> HIDE DEF verdict, ctx
<1> QED
  BY <1>4, <1>5, <1>6

\* What is left of a context whose first message is no reply.
LEMMA Trimmed ==
  ASSUME NEW ctx \in Seq(Messages)
  PROVE  /\ WithoutTrailingReply(ctx) \in Seq(Messages)
         /\ ctx # <<>> /\ ~IsReply(ctx[1]) =>
              WithoutTrailingReply(ctx) # <<>> /\ ~IsReply(WithoutTrailingReply(ctx)[1])
<1>1. CASE ~EndsWith(ctx, "assistant")
  BY <1>1 DEF WithoutTrailingReply
<1>2. CASE EndsWith(ctx, "assistant")
  <2>1. Len(ctx) \in Nat /\ Len(ctx) >= 1 /\ ctx[Len(ctx)].role = "assistant"
    BY <1>2 DEF EndsWith, LastOf
  <2>2. WithoutTrailingReply(ctx) = SubSeq(ctx, 1, Len(ctx) - 1)
    BY <1>2 DEF WithoutTrailingReply
  <2>3. SubSeq(ctx, 1, Len(ctx) - 1) \in Seq(Messages)
    BY <2>1
  <2>4. ASSUME ~IsReply(ctx[1])
        PROVE  Len(ctx) - 1 >= 1
    BY <2>1, <2>4 DEF IsReply
  <2>5. ASSUME ~IsReply(ctx[1])
        PROVE  /\ SubSeq(ctx, 1, Len(ctx) - 1) # <<>>
               /\ ~IsReply(SubSeq(ctx, 1, Len(ctx) - 1)[1])
    <3>1. /\ Len(SubSeq(ctx, 1, Len(ctx) - 1)) = Len(ctx) - 1
          /\ SubSeq(ctx, 1, Len(ctx) - 1)[1] = ctx[1]
      BY <2>1, <2>4, <2>5
    <3>2. Len(SubSeq(ctx, 1, Len(ctx) - 1)) # 0
      BY <2>1, <2>4, <2>5, <3>1
    <3>3. SubSeq(ctx, 1, Len(ctx) - 1) # <<>>
      <4>1. \A s \in Seq(Messages) : Len(s) # 0 => s # <<>>
        OBVIOUS
      <4> QED
        BY <2>3, <3>2, <4>1
    <3> HIDE DEF IsReply
    <3> QED
      BY <2>5, <3>1, <3>3
  <2> HIDE DEF IsReply
  <2> QED
    BY <2>2, <2>3, <2>5
<1> QED
  BY <1>1, <1>2

LEMMA Joined ==
  ASSUME NEW s \in Seq(Messages), NEW t \in Seq(Messages)
  PROVE  /\ s \o t \in Seq(Messages)
         /\ s # <<>> => s \o t # <<>> /\ (s \o t)[1] = s[1]
         /\ s = <<>> /\ t # <<>> => s \o t # <<>> /\ (s \o t)[1] = t[1]
<1>1. s \o t \in Seq(Messages) /\ Len(s \o t) = Len(s) + Len(t)
  BY ConcatProperties
<1>2. ASSUME s # <<>>
      PROVE  s \o t # <<>> /\ (s \o t)[1] = s[1]
  BY <1>1, <1>2, ConcatProperties
<1>3. s = <<>> => s \o t = t
  BY ConcatEmptySeq
<1> QED
  BY <1>1, <1>2, <1>3

LEMMA RebuiltContext ==
  ASSUME NEW s \in Seq(Messages), NEW c \in Messages, c.role = "compaction"
  PROVE  /\ BuildContext(Append(s, c)) \in Seq(Messages)
         /\ BuildContext(Append(s, c)) # <<>> /\ BuildContext(Append(s, c))[1] = c
<1>1. <<c>> \in Seq(Messages) /\ <<c>> # <<>> /\ <<c>>[1] = c
  OBVIOUS
<1>2. ASSUME NEW k \in 1..Len(s)
      PROVE  SubSeq(s, k, Len(s)) \in Seq(Messages)
  OBVIOUS
<1>3. CASE BuildContext(Append(s, c)) = <<c>>
  BY <1>1, <1>3
<1>4. ASSUME NEW k \in 1..Len(s), BuildContext(Append(s, c)) = <<c>> \o SubSeq(s, k, Len(s))
      PROVE  /\ BuildContext(Append(s, c)) \in Seq(Messages)
             /\ BuildContext(Append(s, c)) # <<>> /\ BuildContext(Append(s, c))[1] = c
  <2>1. SubSeq(s, k, Len(s)) \in Seq(Messages)
    BY <1>2
  <2>2. /\ <<c>> \o SubSeq(s, k, Len(s)) \in Seq(Messages)
        /\ <<c>> \o SubSeq(s, k, Len(s)) # <<>> /\ (<<c>> \o SubSeq(s, k, Len(s)))[1] = <<c>>[1]
    BY <1>1, <2>1, Joined
  <2> QED
    BY <1>1, <1>4, <2>2
<1> QED
  BY <1>3, <1>4, Rebuilt

\* The context after a compaction begins with it.
LEMMA AfterCompaction ==
  ASSUME SessionTypes, NEW p \in Prompters
  PROVE  /\ Compacted(held[p].id) \in Seq(Messages)
         /\ ContextAfter(p) \in Seq(Messages) /\ ContextAfter(p) # <<>> /\ ~IsReply(ContextAfter(p)[1])
<1> DEFINE c == CompactionOf(clock, held[p].id)
           ctx == BuildContext(Compacted(held[p].id))
<1>1. c \in Messages /\ c.role = "compaction"
  BY Made, Fields DEF SessionTypes
<1>2. Compacted(held[p].id) = Append(session, c) /\ Compacted(held[p].id) \in Seq(Messages)
  BY <1>1 DEF Compacted, SessionTypes
<1>3. ctx \in Seq(Messages) /\ ctx # <<>> /\ ctx[1] = c
  <2> HIDE DEF c
  <2> QED
    BY <1>1, <1>2, RebuiltContext DEF SessionTypes
<1>4. ~IsReply(ctx[1])
  BY <1>1, <1>3 DEF IsReply
<1>5. ContextAfter(p) = ctx \/ ContextAfter(p) = WithoutTrailingReply(ctx)
  BY DEF ContextAfter
<1> HIDE DEF ctx, c
<1> QED
  BY <1>2, <1>3, <1>4, <1>5, Trimmed

-----------------------------------------------------------------------------
(* The six steps that end a run, a delay or a compaction after a run.      *)

Busy == {"running", "delaying", "cancelled", "compacting"}

Outcome(p, ctx, entries) ==
  /\ GoesOn(p, ctx, entries)
  /\ ctx \in Seq(Messages) /\ entries \in Seq(Messages)
  /\ context # <<>> /\ ~IsReply(context[1]) => ctx # <<>> /\ ~IsReply(ctx[1])

EndStep(p) == RunEnds(p) \/ DelayOver(p) \/ DelayAborted(p) \/ CompactionDone(p) \/ CompactionFails(p)

LEMMA Ends ==
  ASSUME SessionTypes, NEW p \in Prompters, EndStep(p)
  PROVE  /\ \E ctx, entries : Outcome(p, ctx, entries)
         /\ pc[p] \in Busy /\ (pc[p] = "running" => run.at = "ending")
         /\ UNCHANGED <<connected, waiting, nextTurn, shown, msgs, manual, deaf, overlapped>>
         /\ clock' \in {clock, clock + 1} /\ recovered' \in BOOLEAN
         /\ \/ last' = last /\ attempt' \in {attempt, 0}
            \/ pc[p] = "running" /\ last' = <<>> /\ attempt' \in {attempt, 0}
         /\ Meanwhile /\ (pc[p] = "running" => saving = <<>>)
<1> USE DEF Busy, Outcome
<1>0. /\ context \in Seq(Messages) /\ session \in Seq(Messages) /\ recovered \in BOOLEAN
      /\ WithoutTrailingReply(context) \in Seq(Messages)
      /\ context # <<>> /\ ~IsReply(context[1]) =>
           WithoutTrailingReply(context) # <<>> /\ ~IsReply(WithoutTrailingReply(context)[1])
  BY Trimmed DEF SessionTypes
<1>1. CASE RunEnds(p)
  <2>1. /\ recovered' \in BOOLEAN
        /\ \E ctx : GoesOn(p, ctx, session) /\ (ctx = context \/ ctx = WithoutTrailingReply(context))
    <3>1. CheckCompaction(p, last[1])
      BY <1>1 DEF RunEnds
    <3> QED
      BY <3>1, Checks
  <2>2. attempt' \in {attempt, 0}
    BY <1>1 DEF RunEnds, AttemptsAfter
  <2> QED
    BY <1>0, <1>1, <2>1, <2>2 DEF RunEnds, RunIsOver, shown, manual
<1>2. CASE DelayOver(p)
  <2>1. GoesOn(p, context, session)
    BY <1>2, Resumes DEF DelayOver, GoesOn, Declines
  <2> QED
    BY <1>0, <1>2, <2>1 DEF DelayOver, shown, manual, retries, bounds
<1>3. CASE DelayAborted(p)
  <2>1. /\ recovered' \in BOOLEAN
        /\ \E ctx : GoesOn(p, ctx, session) /\ (ctx = context \/ ctx = WithoutTrailingReply(context))
    <3>1. CheckCompaction(p, Message("assistant", "error", held[p].id))
      BY <1>3 DEF DelayAborted
    <3> QED
      BY <3>1, Checks
  <2> QED
    BY <1>0, <1>3, <2>1 DEF DelayAborted, shown, manual
<1>4. CASE CompactionDone(p)
  <2>1. GoesOn(p, ContextAfter(p), Compacted(held[p].id))
    <3>1. CASE Resume(p, ContextAfter(p), Compacted(held[p].id))
      BY <3>1, Resumes DEF GoesOn, Declines
    <3>2. CASE Proceed(p, ContextAfter(p), Compacted(held[p].id))
      BY <3>2, Proceeds DEF GoesOn
    <3> QED
      BY <1>4, <3>1, <3>2 DEF CompactionDone
  <2> QED
    BY <1>0, <1>4, <2>1, AfterCompaction DEF CompactionDone, shown, manual, retries, bounds
<1>5. CASE CompactionFails(p)
  <2>1. GoesOn(p, context, session)
    BY <1>5, Proceeds DEF CompactionFails, GoesOn
  <2> QED
    BY <1>0, <1>5, <2>1 DEF CompactionFails, shown, manual, retries, bounds
<1> QED
  BY <1>1, <1>2, <1>3, <1>4, <1>5 DEF EndStep

\* A compaction keeps from an entry that is no tool result.
LEMMA Cuts ==
  ASSUME NEW s \in Seq(Messages), NEW i \in CutPoints(s)
  PROVE  /\ i \in 1..Len(s) /\ s[i] \in Messages /\ s[i].id \in Nat
         /\ s[i].role \notin {"result", "compaction"}
<1> DEFINE C == Positions(s, IsCompaction)
           K == {j \in DOMAIN s : s[j].id = s[Latest(C)].keep}
<1>1. Len(s) \in Nat /\ C \in SUBSET (1..Len(s)) /\ K \in SUBSET (1..Len(s))
  BY DEF Positions
<1>2. C # {} => Latest(C) \in 1..Len(s)
  <2> HIDE DEF C
  <2> QED
    BY <1>1, Greatest
<1>3. K # {} => Latest(K) \in 1..Len(s)
  <2> HIDE DEF K
  <2> QED
    BY <1>1, Greatest
<1>4. Boundary(s) \in Nat /\ Boundary(s) >= 1
  <2>1. Boundary(s) = IF C = {} THEN 1 ELSE IF K = {} THEN Latest(C) + 1 ELSE Latest(K)
    BY DEF Boundary
  <2> HIDE DEF C, K
  <2> QED
    BY <1>1, <1>2, <1>3, <2>1
<1>5. i \in Boundary(s)..Len(s) /\ s[i].role \notin {"result", "compaction"}
  BY DEF CutPoints
<1>6. i \in 1..Len(s)
  BY <1>1, <1>4, <1>5
<1>7. s[i] \in Messages
  BY <1>6
<1> QED
  BY <1>5, <1>6, <1>7, MessageFields

LEMMA GoesOnTypes ==
  ASSUME SessionTypes, NEW p \in Prompters, NEW ctx \in Seq(Messages), NEW entries \in Seq(Messages),
         GoesOn(p, ctx, entries)
  PROVE  /\ active' \in BOOLEAN /\ context' \in Seq(Messages) /\ session' \in Seq(Messages)
         /\ pendingBash' \in Seq(Bashes) /\ threw' \in BOOLEAN
         /\ pc' \in [Prompters -> Places] /\ held' \in [Prompters -> [id : Nat, retry : BOOLEAN]]
         /\ run' \in RunRecords /\ steering' \in Seq(Loose) /\ followUp' \in Seq(Loose)
<1>0. /\ Nothing \in [id : Nat, retry : BOOLEAN] /\ NoRun \in RunRecords /\ Released(p) \in RunRecords
      /\ \A todo \in Seq(Loose), skip \in BOOLEAN : NewRun(todo, skip) \in RunRecords
      /\ <<>> \in Seq(Loose) /\ <<>> \in Seq(Bashes)
  BY DEF Nothing, NoRun, NewRun, Released, RunRecords, Stages, SessionTypes
<1>1. CASE Continues(p, ctx, entries)
  <2>1. /\ Drained(Mode, steering) \in Seq(Loose) /\ Remaining(Mode, steering) \in Seq(Loose)
        /\ Drained(Mode, followUp) \in Seq(Loose) /\ Remaining(Mode, followUp) \in Seq(Loose)
    BY Drain DEF SessionTypes
  <2>2. PICK todo, skip :
       /\ run' = NewRun(todo, skip) /\ skip \in BOOLEAN
       /\ \/ /\ todo = <<>> /\ ~EndsWith(ctx, "assistant")
             /\ UNCHANGED queues
          \/ /\ steering # <<>> /\ todo = Drained(Mode, steering)
             /\ steering' = Remaining(Mode, steering) /\ UNCHANGED followUp
          \/ /\ steering = <<>> /\ followUp # <<>> /\ todo = Drained(Mode, followUp)
             /\ followUp' = Remaining(Mode, followUp) /\ UNCHANGED steering
    BY <1>1 DEF Continues
  <2>3. run' \in RunRecords /\ steering' \in Seq(Loose) /\ followUp' \in Seq(Loose)
    BY <1>0, <2>1, <2>2 DEF queues, SessionTypes
  <2> QED
    BY <1>0, <1>1, <2>3 DEF Continues, SessionTypes, Put, Places
<1>2. CASE Rests(p, ctx, entries)
  <2>1. pendingBash \in Seq(Messages)
    BY Made DEF SessionTypes
  <2>2. ctx \o pendingBash \in Seq(Messages) /\ entries \o pendingBash \in Seq(Messages)
    BY <2>1, Joined
  <2> QED
    BY <1>0, <1>2, <2>2 DEF Rests, Settle, SessionTypes, Places, queues
<1>3. CASE Compacts(p, ctx)
  <2>1. held' \in [Prompters -> [id : Nat, retry : BOOLEAN]]
    BY <1>3, Cuts DEF Compacts, SessionTypes
  <2> QED
    BY <1>0, <1>3, <2>1 DEF Compacts, Put, SessionTypes, Places, queues
<1> QED
  BY <1>1, <1>2, <1>3 DEF GoesOn

LEMMA EndTypes ==
  ASSUME SessionTypes, NEW p \in Prompters, EndStep(p)
  PROVE  SessionTypes'
<1>1. PICK ctx, entries : Outcome(p, ctx, entries)
  BY Ends
<1>2. /\ active' \in BOOLEAN /\ context' \in Seq(Messages) /\ session' \in Seq(Messages)
      /\ pendingBash' \in Seq(Bashes) /\ threw' \in BOOLEAN
      /\ pc' \in [Prompters -> Places] /\ held' \in [Prompters -> [id : Nat, retry : BOOLEAN]]
      /\ run' \in RunRecords /\ steering' \in Seq(Loose) /\ followUp' \in Seq(Loose)
  BY <1>1, GoesOnTypes DEF Outcome
<1>3. MaxRetries \in Nat
  BY SessionAssumption
<1>4. /\ UNCHANGED <<connected, waiting, nextTurn, shown, msgs, manual, deaf, overlapped>>
      /\ clock' \in {clock, clock + 1} /\ recovered' \in BOOLEAN
      /\ attempt' \in {attempt, 0} /\ last' \in {last, <<>>}
  BY Ends
<1>5. attempt' \in 0..MaxRetries /\ clock' \in Nat
  BY <1>3, <1>4 DEF SessionTypes
<1>6. last' \in Seq(Messages) /\ Len(last') <= 1 /\ (last' # <<>> => last'[1].role = "assistant")
  <2>1. CASE last' = last
    BY <2>1 DEF SessionTypes
  <2>2. CASE last' = <<>>
    BY <2>2
  <2> QED
    BY <1>4, <2>1, <2>2
<1>7. /\ connected' = connected /\ waiting' = waiting /\ nextTurn' = nextTurn
      /\ shownSteering' = shownSteering /\ shownFollowUp' = shownFollowUp /\ msgs' = msgs
      /\ keeping' = keeping /\ compactor' = compactor /\ deaf' = deaf /\ overlapped' = overlapped
  BY <1>4 DEF shown, manual
<1> QED
  BY <1>2, <1>4, <1>5, <1>6, <1>7 DEF SessionTypes

-----------------------------------------------------------------------------
(* Every step keeps the types.                                             *)

LEMMA RunsTypes ==
  ASSUME SessionTypes, NEW p \in Prompters, NEW todo \in Seq(Loose), Runs(p, todo)
  PROVE  /\ active' \in BOOLEAN /\ context' \in Seq(Messages) /\ session' \in Seq(Messages)
         /\ pendingBash' \in Seq(Bashes) /\ overlapped' \in BOOLEAN
         /\ pc' \in [Prompters -> Places] /\ held' \in [Prompters -> [id : Nat, retry : BOOLEAN]]
         /\ msgs' \in [Prompters -> Seq(Loose)] /\ run' \in RunRecords
<1>0. /\ Nothing \in [id : Nat, retry : BOOLEAN] /\ NewRun(todo, FALSE) \in RunRecords
      /\ <<>> \in Seq(Loose) /\ <<>> \in Seq(Bashes)
  BY DEF Nothing, NewRun, RunRecords, Stages
<1>1. context \o pendingBash \in Seq(Messages) /\ session \o pendingBash \in Seq(Messages)
  <2>1. pendingBash \in Seq(Messages)
    BY Made DEF SessionTypes
  <2> QED
    BY <2>1, Joined DEF SessionTypes
<1>2. msgs' \in [Prompters -> Seq(Loose)] /\ overlapped' \in BOOLEAN
  BY <1>0 DEF Runs, SessionTypes
<1>3. CASE /\ run.at = "none"
           /\ run' = NewRun(todo, FALSE)
           /\ active' = TRUE
           /\ pc' = [pc EXCEPT ![p] = "running"]
           /\ UNCHANGED <<records, held>>
  BY <1>0, <1>2, <1>3 DEF SessionTypes, Places, records
<1>4. CASE Settle(p, context, session) /\ UNCHANGED run
  BY <1>0, <1>1, <1>2, <1>4 DEF SessionTypes, Places, Settle
<1> QED
  BY <1>3, <1>4 DEF Runs

LEMMA BuildTypes ==
  ASSUME SessionTypes, NEW n \in Nat
  PROVE  /\ <<Message("user", "text", n)>> \o nextTurn \in Seq(Loose)
         /\ <<Message("user", "text", n)>> \o nextTurn # <<>>
<1>1. <<Message("user", "text", n)>> \in Seq(Loose) /\ nextTurn \in Seq(Loose)
  BY Made DEF SessionTypes
<1>2. <<Message("user", "text", n)>> \o nextTurn \in Seq(Loose)
  BY <1>1, ConcatProperties
<1>3. Len(<<Message("user", "text", n)>> \o nextTurn) = 1 + Len(nextTurn) /\ Len(nextTurn) \in Nat
  BY <1>1, ConcatProperties
<1>4. Len(<<Message("user", "text", n)>> \o nextTurn) # 0
  BY <1>3
<1>5. \A s \in Seq(Loose) : Len(s) # 0 => s # <<>>
  OBVIOUS
<1> QED
  BY <1>2, <1>4, <1>5

LEMMA Announced ==
  ASSUME SessionTypes, run.todo # <<>>
  PROVE  Head(run.todo) \in Loose /\ Tail(run.todo) \in Seq(Loose)
<1>1. run.todo \in Seq(Loose)
  BY DEF SessionTypes, RunRecords
<1> QED
  BY <1>1, HeadTailProperties
LEMMA Least ==
  ASSUME NEW S \in SUBSET Nat, S # {}
  PROVE  \E x \in S : \A y \in S : x <= y
<1> DEFINE R == {ss \in Nat \X Nat : ss[1] < ss[2]}
<1>1. IsWellFoundedOn(R, Nat)
  BY NatLessThanWellFounded DEF OpToRel
<1>2. PICK z \in S : \A y \in S : <<y, z>> \notin R
  <2> HIDE DEF R
  <2> QED
    BY <1>1, WFMin
<1>3. \A y \in S : z <= y
  <2> SUFFICES ASSUME NEW y \in S, y < z PROVE FALSE
    OBVIOUS
  <2>1. <<y, z>> \in R
    OBVIOUS
  <2> QED
    BY <1>2, <2>1
<1> QED
  BY <1>3

\* A mirror without the message that is delivered.
LEMMA Removed ==
  ASSUME NEW s \in Seq(Nat), NEW e \in Nat
  PROVE  /\ RemoveFirst(s, e) \in Seq(Nat)
         /\ ~Contains(s, e) => RemoveFirst(s, e) = s
         /\ Contains(s, e) =>
              \E i \in 1..Len(s) :
                /\ s[i] = e /\ Len(RemoveFirst(s, e)) = Len(s) - 1
                /\ \A j \in 1..(Len(s) - 1) :
                     RemoveFirst(s, e)[j] = IF j < i THEN s[j] ELSE s[j + 1]
<1> DEFINE I == {i \in 1..Len(s) : s[i] = e}
<1>0. Contains(s, e) <=> I # {}
  BY DEF Contains
<1>1. CASE I = {}
  <2>1. ~\E i \in 1..Len(s) : s[i] = e
    BY <1>1
  <2>2. RemoveFirst(s, e) = s
    BY <2>1 DEF RemoveFirst
  <2> QED
    BY <1>0, <1>1, <2>2
<1>2. CASE I # {}
  <2> DEFINE i == CHOOSE x \in I : \A y \in I : x <= y
  <2>1. i \in I
    <3>1. I \in SUBSET Nat
      OBVIOUS
    <3> HIDE DEF I
    <3>2. \E x \in I : \A y \in I : x <= y
      BY <1>2, <3>1, Least
    <3> QED
      BY <3>2
  <2>2. RemoveFirst(s, e) = RemoveAt(s, i)
    BY <1>2 DEF RemoveFirst, SelectInSeq, Min
  <2> HIDE DEF i
  <2>3. i \in 1..Len(s) /\ s[i] = e
    BY <2>1
  <2>4. RemoveAt(s, i) = SubSeq(s, 1, i - 1) \o SubSeq(s, i + 1, Len(s))
    BY DEF RemoveAt
  <2>5. /\ SubSeq(s, 1, i - 1) \in Seq(Nat) /\ SubSeq(s, i + 1, Len(s)) \in Seq(Nat)
        /\ Len(SubSeq(s, 1, i - 1)) = i - 1 /\ Len(SubSeq(s, i + 1, Len(s))) = Len(s) - i
        /\ \A j \in 1..(i - 1) : SubSeq(s, 1, i - 1)[j] = s[j]
        /\ \A j \in 1..(Len(s) - i) : SubSeq(s, i + 1, Len(s))[j] = s[i + j]
    BY <2>3
  <2>6. /\ RemoveAt(s, i) \in Seq(Nat) /\ Len(RemoveAt(s, i)) = Len(s) - 1
        /\ \A j \in 1..(Len(s) - 1) : RemoveAt(s, i)[j] = IF j < i THEN s[j] ELSE s[j + 1]
    <3> DEFINE a == SubSeq(s, 1, i - 1)
               b == SubSeq(s, i + 1, Len(s))
    <3>1. a \in Seq(Nat) /\ b \in Seq(Nat) /\ Len(a) = i - 1 /\ Len(b) = Len(s) - i
      BY <2>5
    <3>2. /\ \A j \in 1..(i - 1) : a[j] = s[j]
          /\ \A j \in 1..(Len(s) - i) : b[j] = s[i + j]
      BY <2>5
    <3> HIDE DEF a, b
    <3>3. /\ a \o b \in Seq(Nat) /\ Len(a \o b) = Len(a) + Len(b)
          /\ \A j \in 1..(Len(a) + Len(b)) :
               (a \o b)[j] = IF j <= Len(a) THEN a[j] ELSE b[j - Len(a)]
      BY <3>1, ConcatProperties
    <3>4. Len(a \o b) = Len(s) - 1 /\ Len(s) \in Nat /\ i \in 1..Len(s)
      BY <2>3, <3>1, <3>3
    <3>5. ASSUME NEW j \in 1..(Len(s) - 1)
          PROVE  (a \o b)[j] = IF j < i THEN s[j] ELSE s[j + 1]
      <4>1. CASE j < i
        BY <3>1, <3>2, <3>3, <3>4, <4>1
      <4>2. CASE ~(j < i)
        <5>1. (a \o b)[j] = b[j - (i - 1)]
          <6>1. j \in 1..(Len(a) + Len(b)) /\ ~(j <= Len(a))
            BY <3>1, <3>4, <4>2
          <6> QED
            BY <3>1, <3>3, <6>1
        <5>2. j - (i - 1) \in 1..(Len(s) - i) /\ i + (j - (i - 1)) = j + 1
          BY <3>4, <4>2
        <5> QED
          BY <3>2, <4>2, <5>1, <5>2
      <4> QED
        BY <4>1, <4>2
    <3> QED
      BY <2>4, <3>3, <3>4, <3>5 DEF a, b
  <2> QED
    BY <1>0, <1>2, <2>2, <2>3, <2>6
<1> QED
  BY <1>1, <1>2

LEMMA Spoken ==
  ASSUME SessionTypes, NEW m \in Messages, Finished(m)
  PROVE  /\ context' \in Seq(Messages) /\ session' \in Seq(Messages) /\ deaf' \in BOOLEAN
         /\ session' = session /\ pendingBash' = pendingBash
  BY DEF Finished, SessionTypes

LEMMA Unshown ==
  ASSUME SessionTypes, NEW m \in Messages, Unshow(m)
  PROVE  shownSteering' \in Seq(Nat) /\ shownFollowUp' \in Seq(Nat)
<1>1. m.id \in Nat
  BY MessageFields
<1>2. RemoveFirst(shownSteering, m.id) \in Seq(Nat) /\ RemoveFirst(shownFollowUp, m.id) \in Seq(Nat)
  BY <1>1, Removed DEF SessionTypes
<1> QED
  BY <1>2 DEF Unshow, SessionTypes

LEMMA Types ==
  ASSUME SessionTypes, SavingTypes, [Next]_vars
  PROVE  SessionTypes'
<1> USE DEF queues, shown, records, retries, calls, manual, history, bounds
<1>0. /\ clock \in Nat /\ clock + 1 \in Nat /\ clock + 2 \in Nat
      /\ <<>> \in Seq(Loose) /\ <<>> \in Seq(Bashes) /\ <<>> \in Seq(Asides) /\ <<>> \in Seq(Nat)
      /\ <<>> \in Seq(Messages) /\ Len(<<>>) = 0
      /\ Nothing \in [id : Nat, retry : BOOLEAN] /\ NoRun \in RunRecords
      /\ \A todo \in Seq(Loose), skip \in BOOLEAN : NewRun(todo, skip) \in RunRecords
      /\ MaxRetries \in Nat /\ MaxRetries >= 0 /\ 0 \in 0..MaxRetries
  <2>1. MaxRetries \in Nat
    BY SessionAssumption
  <2>2. MaxRetries >= 0 /\ 0 \in 0..MaxRetries
    BY <2>1
  <2>3. /\ Nothing \in [id : Nat, retry : BOOLEAN] /\ NoRun \in RunRecords
        /\ \A todo \in Seq(Loose), skip \in BOOLEAN : NewRun(todo, skip) \in RunRecords
    BY DEF Nothing, NoRun, NewRun, RunRecords, Stages
  <2>4. clock \in Nat /\ clock + 1 \in Nat /\ clock + 2 \in Nat
    BY DEF SessionTypes
  <2> QED
    BY <2>1, <2>2, <2>3, <2>4
<1>1. /\ Drained(Mode, steering) \in Seq(Loose) /\ Remaining(Mode, steering) \in Seq(Loose)
      /\ Drained(Mode, followUp) \in Seq(Loose) /\ Remaining(Mode, followUp) \in Seq(Loose)
  BY Drain DEF SessionTypes
<1>2. /\ run \in RunRecords /\ run.at \in Stages /\ run.todo \in Seq(Loose)
      /\ \A at \in Stages, todo \in Seq(Loose) : [run EXCEPT !.at = at, !.todo = todo] \in RunRecords
      /\ \A at \in Stages : [run EXCEPT !.at = at] \in RunRecords
      /\ \A todo \in Seq(Loose) : [run EXCEPT !.todo = todo] \in RunRecords
      /\ [run EXCEPT !.aborted = TRUE] \in RunRecords
  BY DEF SessionTypes, RunRecords, Stages
<1>3. /\ context \o pendingBash \in Seq(Messages) /\ session \o pendingBash \in Seq(Messages)
      /\ WithoutTrailingReply(context) \in Seq(Messages)
      /\ WithoutTrailingReply(context \o pendingBash) \in Seq(Messages)
  <2>1. pendingBash \in Seq(Messages)
    BY Made DEF SessionTypes
  <2> QED
    BY <2>1, Joined, Trimmed DEF SessionTypes
<1>4. ASSUME NEW p \in Prompters, Submit(p) PROVE SessionTypes'
  <2>1. held' \in [Prompters -> [id : Nat, retry : BOOLEAN]] /\ pc' \in [Prompters -> Places]
    <3>1. ASSUME NEW verdict,
                 StartsCompaction(p, verdict, session \o pendingBash, "preflight")
          PROVE  held' \in [Prompters -> [id : Nat, retry : BOOLEAN]] /\ pc' \in [Prompters -> Places]
      <4>1. \A i \in CutPoints(session \o pendingBash) : (session \o pendingBash)[i].id \in Nat
        BY <1>3, Cuts
      <4>2. PICK i \in CutPoints(session \o pendingBash) :
              held' = [held EXCEPT ![p] = [id |-> (session \o pendingBash)[i].id,
                                           retry |-> verdict = "overflow"]]
        BY <3>1 DEF StartsCompaction
      <4>3. [id |-> (session \o pendingBash)[i].id, retry |-> verdict = "overflow"]
              \in [id : Nat, retry : BOOLEAN]
        BY <4>1
      <4>4. pc' = [pc EXCEPT ![p] = "preflight"]
        BY <3>1 DEF StartsCompaction
      <4> QED
        BY <4>2, <4>3, <4>4 DEF SessionTypes, Places
    <3>2. ASSUME pc' = [pc EXCEPT ![p] = "starting"], UNCHANGED held
          PROVE  held' \in [Prompters -> [id : Nat, retry : BOOLEAN]] /\ pc' \in [Prompters -> Places]
      BY <3>2 DEF SessionTypes, Places
    <3> QED
      BY <1>4, <3>1, <3>2 DEF Submit
  <2>2. msgs' \in [Prompters -> Seq(Loose)] /\ nextTurn' \in Seq(Asides) /\ clock' \in Nat
    <3>1. <<Message("user", "text", clock)>> \o nextTurn \in Seq(Loose)
      BY <1>0, BuildTypes
    <3>2. Build(p) \/ UNCHANGED <<msgs, nextTurn, clock>>
      BY <1>4 DEF Submit
    <3> QED
      BY <1>0, <3>1, <3>2 DEF Build, SessionTypes
  <2>3. /\ context' \in Seq(Messages) /\ session' \in Seq(Messages) /\ pendingBash' \in Seq(Bashes)
        /\ recovered' \in BOOLEAN
    BY <1>0, <1>3, <1>4 DEF Submit, SessionTypes
  <2>4. UNCHANGED <<active, connected, waiting, queues, shown, last, attempt, manual, run, history>>
    BY <1>4 DEF Submit
  <2> QED
    BY <2>1, <2>2, <2>3, <2>4 DEF SessionTypes
<1>5. ASSUME NEW p \in Prompters, SendTrigger(p) PROVE SessionTypes'
  <2>1. <<Message("custom", "text", clock)>> \in Seq(Loose)
    BY <1>0, Made
  <2>2. Runs(p, <<Message("custom", "text", clock)>>)
    BY <1>5 DEF SendTrigger
  <2>3. UNCHANGED <<connected, waiting, nextTurn, queues, shown, retries, manual, deaf, threw>>
    BY <2>2 DEF Runs
  <2> QED
    BY <1>0, <1>5, <2>1, <2>2, <2>3, RunsTypes DEF SendTrigger, SessionTypes
<1>6. ASSUME NEW p \in Prompters, Run(p) PROVE SessionTypes'
  <2>1. msgs[p] \in Seq(Loose) /\ Runs(p, msgs[p])
    BY <1>6 DEF Run, SessionTypes
  <2>2. UNCHANGED <<connected, waiting, nextTurn, queues, shown, retries, manual, deaf, threw>>
    BY <2>1 DEF Runs
  <2> QED
    BY <1>0, <1>6, <2>1, <2>2, RunsTypes DEF Run, SessionTypes
<1>7. ASSUME NEW p \in Prompters, RunUnheard(p) PROVE SessionTypes'
  BY <1>0, <1>3, <1>7 DEF RunUnheard, Settle, SessionTypes, Places
<1>8. ASSUME NEW p \in Prompters, Retry(p) PROVE SessionTypes'
  <2>1. last[1] \in Messages /\ last[1].id \in Nat
    <3>1. last # <<>> /\ last \in Seq(Messages)
      BY <1>8 DEF Retry, SessionTypes
    <3>2. last[1] \in Messages
      BY <3>1
    <3> QED
      BY <3>2, MessageFields
  <2>2. attempt < MaxRetries /\ attempt \in Nat
    BY <1>0, <1>8 DEF Retry, NoMoreRetries, SessionTypes
  <2>3. attempt' \in 0..MaxRetries
    BY <1>0, <1>8, <2>2 DEF Retry
  <2>4. held' \in [Prompters -> [id : Nat, retry : BOOLEAN]] /\ pc' \in [Prompters -> Places]
    BY <1>8, <2>1 DEF Retry, SessionTypes, Places
  <2> QED
    BY <1>0, <1>3, <1>8, <2>3, <2>4 DEF Retry, SessionTypes
<1>9. ASSUME NEW p \in Prompters, PreflightDone(p) PROVE SessionTypes'
  <2>1. /\ <<Message("user", "text", clock)>> \o nextTurn \in Seq(Loose)
        /\ <<Message("user", "text", clock + 1)>> \o nextTurn \in Seq(Loose)
    BY <1>0, BuildTypes
  <2>2. Compacted(held[p].id) \in Seq(Messages) /\ ContextAfter(p) \in Seq(Messages)
    BY AfterCompaction
  <2>3. msgs' \in [Prompters -> Seq(Loose)] /\ clock' \in Nat
    BY <1>0, <1>9, <2>1 DEF PreflightDone, SessionTypes
  <2> QED
    BY <1>0, <1>9, <2>2, <2>3 DEF PreflightDone, SessionTypes, Places
<1>10. ASSUME NEW p \in Prompters, Settled(p) PROVE SessionTypes'
  BY <1>10 DEF Settled, SessionTypes, Places
<1>11. ASSUME Announce PROVE SessionTypes'
  <2> DEFINE m == Head(run.todo)
  <2>1. m \in Messages /\ Tail(run.todo) \in Seq(Loose)
    BY <1>11, Announced, Made DEF Announce, SessionTypes
  <2>2. Unshow(m) /\ Finished(m) /\ run' = [run EXCEPT !.todo = Tail(@)]
    BY <1>11 DEF Announce
  <2>3. recovered' \in BOOLEAN
    BY <1>11 DEF Announce, SessionTypes
  <2> HIDE DEF m
  <2>4. /\ context' \in Seq(Messages) /\ session' \in Seq(Messages) /\ deaf' \in BOOLEAN
        /\ shownSteering' \in Seq(Nat) /\ shownFollowUp' \in Seq(Nat)
        /\ pendingBash' = pendingBash
    BY <2>1, <2>2, Spoken, Unshown
  <2>5. run' \in RunRecords
    BY <1>2, <2>1, <2>2
  <2> QED
    BY <1>11, <2>3, <2>4, <2>5 DEF Announce, SessionTypes
<1>12. ASSUME Poll PROVE SessionTypes'
  BY <1>0, <1>1, <1>2, <1>12 DEF Poll, SessionTypes, Stages
<1>13. ASSUME NEW kind \in Replies \union {"stop"}, Reply(kind) PROVE SessionTypes'
  <2> DEFINE m == Message("assistant", kind, clock)
  <2>1. m \in Messages /\ m.role = "assistant"
    <3>1. kind \in ReplyKinds
      BY SessionAssumption DEF ReplyKinds
    <3> QED
      BY <1>0, <3>1, Made, Fields
  <2>2. Finished(m)
    BY <1>13 DEF Reply
  <2>3. run' \in RunRecords
    BY <1>2, <1>13 DEF Reply, Stages
  <2> HIDE DEF m
  <2>4. /\ context' \in Seq(Messages) /\ session' \in Seq(Messages) /\ deaf' \in BOOLEAN
        /\ pendingBash' = pendingBash
    BY <2>1, <2>2, Spoken
  <2> QED
    BY <1>0, <1>13, <2>3, <2>4 DEF Reply, SessionTypes
<1>14. ASSUME ToolResult PROVE SessionTypes'
  <2>1. /\ context' \in Seq(Messages) /\ session' \in Seq(Messages) /\ deaf' \in BOOLEAN
        /\ pendingBash' = pendingBash
    BY <1>0, <1>14, Made, Spoken DEF ToolResult
  <2>2. run' \in RunRecords
    BY <1>14 DEF ToolResult, SessionTypes, RunRecords, Stages
  <2> QED
    BY <1>0, <1>14, <2>1, <2>2 DEF ToolResult, SessionTypes
<1>15. ASSUME Stopping PROVE SessionTypes'
  <2>1. run' \in RunRecords /\ steering' \in Seq(Loose) /\ followUp' \in Seq(Loose)
    <3>1. CASE steering # <<>>
      BY <1>1, <1>2, <1>15, <3>1 DEF Stopping, SessionTypes, Stages
    <3>2. CASE steering = <<>>
      BY <1>1, <1>2, <1>15, <3>2 DEF Stopping, SessionTypes, Stages
    <3> QED
      BY <3>1, <3>2
  <2>2. UNCHANGED <<active, connected, waiting, records, nextTurn, shown, retries,
                    calls, manual, clock, history>>
    BY <1>15 DEF Stopping
  <2> QED
    BY <2>1, <2>2 DEF SessionTypes
<1>16. ASSUME NEW content \in Contents, Steer(content) \/ FollowUp(content) PROVE SessionTypes'
  <2>1. Message("user", content, clock) \in Loose
    BY <1>0, Made, SessionAssumption
  <2>2. /\ Append(steering, Message("user", content, clock)) \in Seq(Loose)
        /\ Append(followUp, Message("user", content, clock)) \in Seq(Loose)
        /\ Append(shownSteering, clock) \in Seq(Nat) /\ Append(shownFollowUp, clock) \in Seq(Nat)
    BY <1>0, <2>1 DEF SessionTypes
  <2>3. CASE Steer(content)
    BY <1>0, <2>2, <2>3 DEF Steer, Sends, SessionTypes
  <2>4. CASE FollowUp(content)
    BY <1>0, <2>2, <2>4 DEF FollowUp, Sends, SessionTypes
  <2> QED
    BY <1>16, <2>3, <2>4
<1>17. ASSUME QueueCustom \/ Note \/ PushNextTurn \/ BashDone PROVE SessionTypes'
  <2>1. /\ Message("custom", "text", clock) \in Asides /\ Message("custom", "text", clock) \in Loose
        /\ Message("custom", "text", clock) \in Messages
        /\ Message("bash", "text", clock) \in Bashes /\ Message("bash", "text", clock) \in Messages
    BY <1>0, Made
  <2>2. CASE QueueCustom
    <3>1. /\ Append(steering, Message("custom", "text", clock)) \in Seq(Loose)
          /\ Append(followUp, Message("custom", "text", clock)) \in Seq(Loose)
      BY <2>1 DEF SessionTypes
    <3> QED
      BY <1>0, <2>2, <3>1 DEF QueueCustom, Sends, SessionTypes
  <2>3. CASE Note
    BY <1>0, <2>1, <2>3 DEF Note, Sends, Recorded, SessionTypes
  <2>4. CASE PushNextTurn
    BY <1>0, <2>1, <2>4 DEF PushNextTurn, Sends, SessionTypes
  <2>5. CASE BashDone
    <3> DEFINE m == Message("bash", "text", clock)
    <3>1. /\ Append(pendingBash, m) \in Seq(Bashes)
          /\ Append(context, m) \in Seq(Messages) /\ Append(session, m) \in Seq(Messages)
      BY <2>1 DEF SessionTypes
    <3>2. /\ pendingBash' \in {Append(pendingBash, m), pendingBash}
          /\ context' \in {context, Append(context, m)} /\ session' \in {session, Append(session, m)}
      BY <2>5 DEF BashDone, Recorded
    <3> HIDE DEF m
    <3>3. pendingBash' \in Seq(Bashes) /\ context' \in Seq(Messages) /\ session' \in Seq(Messages)
      BY <3>1, <3>2 DEF SessionTypes
    <3> QED
      BY <1>0, <2>5, <3>3 DEF BashDone, Sends, SessionTypes
  <2> QED
    BY <1>17, <2>2, <2>3, <2>4, <2>5
<1>18. ASSUME ClearQueue PROVE SessionTypes'
  BY <1>0, <1>18 DEF ClearQueue, SessionTypes
<1>19. ASSUME NEW w \in Waiters, Aborts(w)
       PROVE  /\ pc' \in [Prompters -> Places] /\ run' \in RunRecords /\ waiting' \subseteq Waiters
  BY <1>2, <1>19 DEF Aborts, SessionTypes, Places
<1>20. ASSUME NEW w \in Waiters, Abort(w) \/ Wait(w) PROVE SessionTypes'
  BY <1>19, <1>20 DEF Abort, Wait, SessionTypes
<1>21. ASSUME Compact PROVE SessionTypes'
  BY <1>19, <1>21, SessionAssumption DEF Compact, SessionTypes
<1>22. ASSUME CompactPrepares PROVE SessionTypes'
  <2>1. \A i \in CutPoints(session) : session[i].id \in Nat
    BY Cuts DEF SessionTypes
  <2> QED
    BY <1>22, <2>1 DEF CompactPrepares, SessionTypes
<1>23. ASSUME CompactEnds PROVE SessionTypes'
  <2> DEFINE c == CompactionOf(clock, keeping)
  <2>1. c \in Messages /\ c.role = "compaction"
    BY Made, Fields DEF SessionTypes
  <2>2. Compacted(keeping) = Append(session, c)
    BY DEF Compacted
  <2> HIDE DEF c
  <2>3. Compacted(keeping) \in Seq(Messages) /\ BuildContext(Compacted(keeping)) \in Seq(Messages)
    BY <2>1, <2>2, RebuiltContext DEF SessionTypes
  <2> QED
    BY <1>0, <1>23, <2>3 DEF CompactEnds, SessionTypes
<1>24. ASSUME UNCHANGED vars PROVE SessionTypes'
  BY <1>24 DEF vars, SessionTypes
<1>25. ASSUME NEW p \in Prompters, CallStep(p) PROVE SessionTypes'
  BY <1>6, <1>7, <1>8, <1>9, <1>10, <1>25, EndTypes DEF CallStep, EndStep
<1>26. ASSUME Outside PROVE SessionTypes'
  BY <1>16, <1>17, <1>18, <1>20, <1>26 DEF Outside
<1>27. ASSUME Save PROVE SessionTypes'
  <2>1. PICK m \in Messages : saving = <<m>> /\ m.role # "compaction"
    BY <1>27 DEF Save, SavingTypes
  <2>2. /\ session' = Append(session, m)
        /\ \/ /\ m.role = "assistant" /\ last' = <<m>> /\ attempt' \in {attempt, 0}
              /\ recovered' \in {recovered, FALSE}
           \/ UNCHANGED retries
    BY <1>27, <2>1 DEF Save, IsReply, SessionTypes
  <2>3. session' \in Seq(Messages)
    BY <2>2 DEF SessionTypes
  <2>4. last' \in Seq(Messages) /\ Len(last') <= 1 /\ (last' # <<>> => last'[1].role = "assistant")
    <3>1. CASE m.role = "assistant" /\ last' = <<m>>
      BY <3>1
    <3>2. CASE last' = last
      BY <3>2 DEF SessionTypes
    <3> QED
      BY <2>2, <3>1, <3>2
  <2>5. attempt' \in 0..MaxRetries /\ recovered' \in BOOLEAN
    BY <1>0, <2>2 DEF SessionTypes
  <2>6. UNCHANGED <<active, connected, waiting, context, pendingBash, nextTurn, queues, shown,
                    calls, manual, run, clock, history>>
    BY <1>27 DEF Save
  <2> QED
    BY <2>3, <2>4, <2>5, <2>6 DEF SessionTypes
<1>28. ASSUME RunStep PROVE SessionTypes'
  BY <1>11, <1>12, <1>13, <1>14, <1>15, <1>27, <1>28 DEF RunStep
<1> QED
  BY <1>4, <1>5, <1>21, <1>22, <1>23, <1>24, <1>25, <1>26, <1>28 DEF Next

LEMMA Saves ==
  ASSUME SavingTypes, NEW m \in Messages, m.role # "compaction", Finished(m)
  PROVE  SavingTypes'
  BY DEF Finished, SavingTypes

\* Whatever the step is, it leaves alone what is being saved, unless it is a
\* step of the run.
LEMMA Leaves ==
  ASSUME SavingTypes, saving' = saving, crossed' = crossed \/ Meanwhile
  PROVE  SavingTypes'
  BY DEF Meanwhile, SavingTypes

LEMMA SavingKept ==
  ASSUME SessionTypes, SavingTypes, [Next]_vars
  PROVE  SavingTypes'
<1> USE DEF records
<1>1. ASSUME NEW p \in Prompters, Submit(p) PROVE SavingTypes'
  BY <1>1, Leaves DEF Submit, Meanwhile
<1>2. ASSUME NEW p \in Prompters, NEW todo, Runs(p, todo) PROVE SavingTypes'
  BY <1>2, Leaves DEF Runs, Meanwhile
<1>3. ASSUME NEW p \in Prompters, CallStep(p) PROVE SavingTypes'
  <2>1. CASE EndStep(p)
    BY <2>1, Ends, Leaves DEF Meanwhile
  <2>2. CASE Run(p)
    BY <1>2, <2>2 DEF Run
  <2>3. CASE RunUnheard(p) \/ PreflightDone(p)
    BY <2>3, Leaves DEF RunUnheard, PreflightDone, Meanwhile
  <2>4. CASE Retry(p) \/ Settled(p)
    BY <2>4, Leaves DEF Retry, Settled
  <2> QED
    BY <1>3, <2>1, <2>2, <2>3, <2>4 DEF CallStep, EndStep
<1>4. ASSUME Announce PROVE SavingTypes'
  <2>1. Head(run.todo) \in Loose /\ Head(run.todo) \in Messages
    BY <1>4, Announced, Made DEF Announce, SessionTypes
  <2>2. Head(run.todo).role # "compaction"
    BY <2>1 DEF Loose
  <2> QED
    BY <1>4, <2>1, <2>2, Saves DEF Announce
<1>5. ASSUME NEW kind \in Replies \union {"stop"}, Reply(kind) PROVE SavingTypes'
  <2> DEFINE m == Message("assistant", kind, clock)
  <2>1. m \in Messages /\ m.role # "compaction"
    <3>1. kind \in ReplyKinds
      BY SessionAssumption DEF ReplyKinds
    <3> QED
      BY <3>1, Made, Fields DEF SessionTypes
  <2>2. Finished(m)
    BY <1>5 DEF Reply
  <2> HIDE DEF m
  <2> QED
    BY <2>1, <2>2, Saves
<1>6. ASSUME ToolResult PROVE SavingTypes'
  <2>1. Message("result", "text", clock) \in Messages /\ Message("result", "text", clock).role # "compaction"
    BY Made, Fields DEF SessionTypes
  <2> QED
    BY <1>6, <2>1, Saves DEF ToolResult
<1>7. ASSUME Poll \/ Stopping PROVE SavingTypes'
  BY <1>7, Leaves DEF Poll, Stopping
<1>8. ASSUME Save PROVE SavingTypes'
  BY <1>8 DEF Save, SavingTypes
<1>9. ASSUME RunStep PROVE SavingTypes'
  BY <1>4, <1>5, <1>6, <1>7, <1>8, <1>9 DEF RunStep
<1>10. ASSUME Outside PROVE SavingTypes'
  BY <1>10, Leaves DEF Outside, Steer, FollowUp, QueueCustom, Note, PushNextTurn, BashDone, Recorded,
     ClearQueue, Abort, Wait, Meanwhile
<1>11. ASSUME Compact \/ CompactPrepares \/ CompactEnds PROVE SavingTypes'
  BY <1>11, Leaves DEF Compact, CompactPrepares, CompactEnds, Meanwhile
<1>12. ASSUME UNCHANGED vars PROVE SavingTypes'
  BY <1>12, Leaves DEF vars
<1>13. ASSUME NEW p \in Prompters, SendTrigger(p) PROVE SavingTypes'
  BY <1>2, <1>13 DEF SendTrigger
<1> QED
  BY <1>1, <1>3, <1>9, <1>10, <1>11, <1>12, <1>13 DEF Next

-----------------------------------------------------------------------------
(* Idle means done.                                                        *)

\* One call has the run, and it is at work as long as the call waits for it;
\* unless prompts overlapped, one call at most is busy, and the session is
\* active then.
OneRun ==
  /\ \A p, q \in Prompters : pc[p] = "running" /\ pc[q] = "running" => p = q
  /\ run.at # "none" <=> \E p \in Prompters : pc[p] = "running"
ActiveIsBusy == active => ~AtRest
BusyIsActive ==
  ~overlapped =>
    /\ \A p, q \in Prompters : pc[p] \in Busy /\ pc[q] \in Busy => p = q
    /\ ~AtRest => active
Lone == OneRun /\ ActiveIsBusy /\ BusyIsActive

\* A context never begins with a reply, so that taking one off leaves something
\* to continue from.
Grounded ==
  /\ context # <<>> => ~IsReply(context[1])
  /\ run.at \in {"turn", "tools", "stopping", "ending"} => context # <<>>
  /\ run.at = "prompts" /\ run.todo = <<>> => context # <<>>
  /\ \A p \in Prompters : pc[p] \in {"delaying", "cancelled", "compacting"} => context # <<>>
  /\ \A p \in Prompters : pc[p] = "starting" => msgs[p] # <<>>

\* A run that nobody missed has its last reply remembered, or is saving it.
Replied == run.at \in {"tools", "stopping", "ending"}
Replying == saving # <<>> /\ IsReply(saving[1])
Heard == ~deaf /\ Replied => last # <<>> \/ Replying

\* Attempts are counted while a call retries, and given up at a reply that did
\* not fail.
Attempts ==
  /\ ~deaf /\ ~threw /\ attempt # 0 =>
       \E p \in Prompters : pc[p] \in {"running", "delaying", "cancelled"}
  /\ ~deaf /\ Replied /\ ~Replying /\ last # <<>> /\ ~Failed(last[1]) => attempt = 0

IdleInv == Lone /\ Grounded /\ Heard /\ NothingStranded /\ Attempts

\* The call that stops being busy, by continuing, by settling or by compacting.
LEMMA GoesOnIdle ==
  ASSUME SessionTypes, IdleInv, NEW p \in Prompters, NEW ctx, NEW entries, Outcome(p, ctx, entries),
         pc[p] \in Busy, pc[p] = "running" => run.at = "ending",
         UNCHANGED <<deaf, overlapped, msgs>>
  PROVE  Lone' /\ Grounded' /\ NothingStranded' /\ (Replied' => Replied /\ UNCHANGED run /\ pc[p] # "running")
<1> USE DEF SessionTypes, Put, Busy, AtRest
<1>0. /\ context # <<>> /\ ctx # <<>> /\ ~IsReply(ctx[1])
      /\ ctx \o pendingBash # <<>> /\ ~IsReply((ctx \o pendingBash)[1])
  <2>1. context # <<>> /\ ~IsReply(context[1])
    BY DEF IdleInv, Grounded
  <2>2. ctx # <<>> /\ ~IsReply(ctx[1]) /\ ctx \in Seq(Messages) /\ pendingBash \in Seq(Messages)
    BY <2>1, Made DEF Outcome
  <2> QED
    BY <2>1, <2>2, Joined
<1>1. CASE Continues(p, ctx, entries)
  <2>1. run'.at = "prompts"
    BY <1>1 DEF Continues, NewRun
  <2>2. run.at = "none" \/ pc[p] = "running"
    BY <1>1 DEF Continues, Released
  <2>3. pc' = [pc EXCEPT ![p] = "running"] /\ context' = ctx /\ active' = active
    BY <1>1 DEF Continues
  <2>4. OneRun'
    BY <2>1, <2>2, <2>3 DEF IdleInv, Lone, OneRun
  <2>5. ActiveIsBusy' /\ BusyIsActive'
    BY <2>3 DEF IdleInv, Lone, ActiveIsBusy, BusyIsActive
  <2>6. Grounded'
    <3>1. msgs' = msgs /\ \A q \in Prompters : pc'[q] = "starting" => pc[q] = "starting"
      BY <2>3
    <3> QED
      BY <1>0, <2>1, <2>3, <3>1 DEF IdleInv, Grounded
  <2>7. NothingStranded'
    BY <2>3 DEF NothingStranded
  <2> QED
    BY <2>1, <2>4, <2>5, <2>6, <2>7 DEF Lone, Replied
<1>2. CASE Rests(p, ctx, entries)
  <2>1. /\ run' = Released(p) /\ pc' = [pc EXCEPT ![p] = "settling"] /\ active' = FALSE
        /\ context' = ctx \o pendingBash /\ UNCHANGED queues
    BY <1>2 DEF Rests, Settle
  <2>2. (pc[p] = "running" /\ run'.at = "none" /\ run' = NoRun) \/ (pc[p] # "running" /\ run' = run)
    BY <2>1 DEF Released, NoRun
  <2>3. OneRun'
    BY <2>1, <2>2 DEF IdleInv, Lone, OneRun
  <2>4. ActiveIsBusy' /\ BusyIsActive'
    <3>1. ActiveIsBusy'
      BY <2>1 DEF ActiveIsBusy
    <3>2. ASSUME ~overlapped, NEW q \in Prompters
          PROVE  pc'[q] \in {"idle", "preflight", "starting", "settling"}
      BY <2>1, <3>2 DEF IdleInv, Lone, BusyIsActive, Places
    <3>3. BusyIsActive'
      BY <3>2 DEF BusyIsActive
    <3> QED
      BY <3>1, <3>3
  <2>5. Grounded'
    <3>1. msgs' = msgs /\ \A q \in Prompters : pc'[q] = "starting" => pc[q] = "starting"
      BY <2>1
    <3> QED
      BY <1>0, <2>1, <2>2, <3>1 DEF IdleInv, Grounded, NoRun
  <2>6. NothingStranded'
    <3>1. Released(p).at = "none" => ~HasQueued
      BY <1>0, <1>2 DEF Rests
    <3>2. HasQueued' => run'.at # "none"
      BY <2>1, <3>1 DEF HasQueued, queues
    <3> QED
      BY <2>3, <3>2 DEF OneRun, NothingStranded
  <2> QED
    BY <2>2, <2>3, <2>4, <2>5, <2>6 DEF Lone, Replied
<1>3. CASE Compacts(p, ctx)
  <2>1. run' = Released(p) /\ pc' = [pc EXCEPT ![p] = "compacting"] /\ context' = ctx /\ active' = active
    BY <1>3 DEF Compacts
  <2>2. (pc[p] = "running" /\ run'.at = "none" /\ run' = NoRun) \/ (pc[p] # "running" /\ run' = run)
    BY <2>1 DEF Released, NoRun
  <2>3. OneRun'
    BY <2>1, <2>2 DEF IdleInv, Lone, OneRun
  <2>4. ActiveIsBusy' /\ BusyIsActive'
    BY <2>1 DEF IdleInv, Lone, ActiveIsBusy, BusyIsActive
  <2>5. Grounded'
    <3>1. msgs' = msgs /\ \A q \in Prompters : pc'[q] = "starting" => pc[q] = "starting"
      BY <2>1
    <3> QED
      BY <1>0, <2>1, <2>2, <3>1 DEF IdleInv, Grounded, NoRun
  <2>6. NothingStranded'
    BY <2>1 DEF NothingStranded
  <2> QED
    BY <2>2, <2>3, <2>4, <2>5, <2>6 DEF Lone, Replied
<1> QED
  BY <1>1, <1>2, <1>3 DEF Outcome, GoesOn

LEMMA GoesOnPlaces ==
  ASSUME SessionTypes, NEW p \in Prompters, NEW ctx, NEW entries, GoesOn(p, ctx, entries)
  PROVE  (\A q \in Prompters \ {p} : pc'[q] = pc[q]) /\ (~threw' => ~threw)
  BY DEF SessionTypes, GoesOn, Continues, Rests, Compacts, Put, Settle

LEMMA EndIdle ==
  ASSUME SessionTypes, IdleInv, NEW p \in Prompters, EndStep(p)
  PROVE  IdleInv'
<1>1. PICK ctx, entries : Outcome(p, ctx, entries)
  BY Ends
<1>2. /\ pc[p] \in Busy /\ (pc[p] = "running" => run.at = "ending")
      /\ UNCHANGED <<deaf, overlapped, msgs>>
      /\ \/ last' = last /\ attempt' \in {attempt, 0}
         \/ pc[p] = "running" /\ last' = <<>> /\ attempt' \in {attempt, 0}
      /\ saving' = saving /\ (pc[p] = "running" => saving = <<>>)
  BY Ends DEF Meanwhile
<1>3. /\ Lone' /\ Grounded' /\ NothingStranded'
      /\ Replied' => Replied /\ UNCHANGED run /\ pc[p] # "running"
  BY <1>1, <1>2, GoesOnIdle
<1>4. Heard'
  BY <1>2, <1>3 DEF IdleInv, Heard, Replying
<1>5. ASSUME ~deaf', ~threw', attempt' # 0
      PROVE  \E q \in Prompters : pc'[q] \in {"running", "delaying", "cancelled"}
  <2>1. ~threw /\ ~deaf /\ attempt # 0 /\ attempt' = attempt
    BY <1>1, <1>2, <1>5, GoesOnPlaces DEF Outcome
  <2>2. PICK q \in Prompters : pc[q] \in {"running", "delaying", "cancelled"}
    BY <2>1 DEF IdleInv, Attempts
  <2>3. CASE q # p
    BY <1>1, <2>2, <2>3, GoesOnPlaces DEF Outcome
  <2>4. CASE q = p
    <3>1. ~RunEnds(p)
      <4>1. SUFFICES ASSUME RunEnds(p) PROVE FALSE
        OBVIOUS
      <4>2. /\ run.at = "ending" /\ saving = <<>> /\ last # <<>>
            /\ attempt' = AttemptsAfter(last[1])
        BY <4>1 DEF RunEnds, RunIsOver
      <4>3. ~Failed(last[1]) => attempt = 0
        BY <2>1, <4>2 DEF IdleInv, Attempts, Replied, Replying
      <4> QED
        BY <1>5, <4>2, <4>3 DEF AttemptsAfter
    <3>2. ~DelayAborted(p) /\ ~CompactionDone(p) /\ ~CompactionFails(p)
      BY <1>5, <2>2, <2>4 DEF DelayAborted, CompactionDone, CompactionFails
    <3>3. DelayOver(p)
      BY <3>1, <3>2 DEF EndStep
    <3>4. Continues(p, context, session) \/ Declines(p, context, session)
      BY <3>3, Resumes DEF DelayOver
    <3>5. CASE Continues(p, context, session)
      BY <3>5 DEF Continues, Put, SessionTypes
    <3>6. CASE Declines(p, context, session)
      <4>1. Released(p).at # "none" /\ pc[p] # "running"
        BY <1>5, <3>3, <3>6 DEF Declines, DelayOver
      <4>2. PICK r \in Prompters : pc[r] = "running"
        BY <4>1 DEF Released, IdleInv, Lone, OneRun
      <4>3. r # p
        BY <4>1, <4>2
      <4> QED
        BY <1>1, <4>2, <4>3, GoesOnPlaces DEF Outcome
    <3> QED
      BY <3>4, <3>5, <3>6
  <2> QED
    BY <2>3, <2>4
<1>6. ASSUME ~deaf', Replied', ~Replying', last' # <<>>, ~Failed(last'[1])
      PROVE  attempt' = 0
  BY <1>2, <1>3, <1>6 DEF IdleInv, Attempts, Replying
<1> QED
  BY <1>3, <1>4, <1>5, <1>6 DEF IdleInv, Attempts

\* A run that is started, or refused because another is at work.
LEMMA RunsIdle ==
  ASSUME SessionTypes, IdleInv, NEW p \in Prompters, NEW todo \in Seq(Loose), todo # <<>>,
         Runs(p, todo), pc[p] \in {"idle", "starting"}
  PROVE  IdleInv'
<1> USE DEF SessionTypes, AtRest
<1>0. UNCHANGED <<last, attempt, recovered, deaf, threw, steering, followUp>>
      /\ overlapped' = (overlapped \/ active) /\ msgs' = [msgs EXCEPT ![p] = <<>>]
  BY DEF Runs, retries, queues
<1>1. CASE /\ run.at = "none" /\ run' = NewRun(todo, FALSE) /\ active' = TRUE
           /\ pc' = [pc EXCEPT ![p] = "running"] /\ UNCHANGED <<records, held>>
  <2>1. run'.at = "prompts" /\ run'.todo = todo /\ context' = context
    BY <1>1 DEF NewRun, records
  <2>2. OneRun'
    BY <1>1, <2>1 DEF IdleInv, Lone, OneRun
  <2>3. ActiveIsBusy' /\ BusyIsActive'
    <3>1. ActiveIsBusy'
      BY <1>1 DEF ActiveIsBusy
    <3>2. ~overlapped' => \A q \in Prompters : pc[q] \notin Busy
      BY <1>0 DEF IdleInv, Lone, BusyIsActive, Busy
    <3> QED
      BY <1>1, <3>1, <3>2 DEF BusyIsActive, Busy
  <2>4. Grounded'
    <3>1. \A q \in Prompters : q # p => pc'[q] = pc[q] /\ msgs'[q] = msgs[q]
      BY <1>0, <1>1
    <3>2. pc'[p] = "running"
      BY <1>1
    <3> QED
      BY <2>1, <3>1, <3>2 DEF IdleInv, Grounded
  <2>5. NothingStranded' /\ Heard' /\ Attempts'
    <3>1. pc'[p] = "running"
      BY <1>1
    <3> QED
      BY <2>1, <3>1 DEF NothingStranded, Heard, Attempts, Replied
  <2> QED
    BY <2>2, <2>3, <2>4, <2>5 DEF IdleInv, Lone
<1>2. CASE run.at # "none" /\ Settle(p, context, session) /\ UNCHANGED <<run, saving>>
  <2>1. /\ pc' = [pc EXCEPT ![p] = "settling"] /\ active' = FALSE /\ run' = run
        /\ context' = context \o pendingBash
    BY <1>2 DEF Settle
  <2>2. OneRun'
    BY <2>1 DEF IdleInv, Lone, OneRun
  <2>3. PICK r \in Prompters : pc[r] = "running"
    BY <1>2 DEF IdleInv, Lone, OneRun
  <2>4. r # p /\ pc'[r] = "running"
    BY <2>1, <2>3
  <2>5. overlapped'
    BY <1>0, <2>3 DEF IdleInv, Lone, BusyIsActive
  <2>6. ActiveIsBusy' /\ BusyIsActive'
    BY <2>1, <2>5 DEF ActiveIsBusy, BusyIsActive
  <2>7. Grounded'
    <3>1. \A q \in Prompters : q # p => pc'[q] = pc[q] /\ msgs'[q] = msgs[q]
      BY <1>0, <2>1
    <3>2. context # <<>> => context' # <<>> /\ context'[1] = context[1]
      BY <2>1, Joined, Made
    <3>3. context' # <<>> => ~IsReply(context'[1])
      <4>1. CASE context # <<>>
        BY <3>2, <4>1 DEF IdleInv, Grounded
      <4>2. CASE context = <<>>
        <5>1. context' = pendingBash
          BY <2>1, <4>2, Made, ConcatEmptySeq
        <5>2. context' # <<>> => context'[1] \in Bashes
          BY <5>1
        <5> QED
          BY <5>2 DEF Bashes, IsReply
      <4> QED
        BY <4>1, <4>2
    <3>4. pc'[p] = "settling"
      BY <2>1
    <3> QED
      BY <2>1, <3>1, <3>2, <3>3, <3>4 DEF IdleInv, Grounded
  <2>8. NothingStranded' /\ Heard' /\ Attempts'
    BY <1>0, <1>2, <2>1, <2>4 DEF IdleInv, NothingStranded, Heard, Attempts, Replied, Replying
  <2> QED
    BY <2>2, <2>6, <2>7, <2>8 DEF IdleInv, Lone
<1> QED
  BY <1>1, <1>2 DEF Runs, Meanwhile

\* Steps that leave the run, the calls and the transcript's beginning alone.
LEMMA OthersIdle ==
  ASSUME SessionTypes, IdleInv,
         UNCHANGED <<active, run, pc, last, attempt, saving, deaf, threw, overlapped>>,
         \A p \in Prompters : pc[p] = "starting" => msgs'[p] = msgs[p],
         context # <<>> => context' # <<>> /\ context'[1] = context[1],
         context = <<>> /\ context' # <<>> => ~IsReply(context'[1]),
         HasQueued' => HasQueued \/ active
  PROVE  IdleInv'
<1>1. Lone'
  BY DEF IdleInv, Lone, OneRun, ActiveIsBusy, BusyIsActive, AtRest
<1>2. Grounded'
  BY DEF IdleInv, Grounded
<1>3. Heard' /\ Attempts'
  BY DEF IdleInv, Heard, Attempts, Replied, Replying
<1>4. NothingStranded'
  BY DEF IdleInv, Lone, ActiveIsBusy, NothingStranded, AtRest
<1> QED
  BY <1>1, <1>2, <1>3, <1>4 DEF IdleInv

LEMMA Lengthened ==
  ASSUME NEW ctx \in Seq(Messages), NEW m \in Messages
  PROVE  Append(ctx, m) # <<>>
<1>1. Append(ctx, m) \in Seq(Messages) /\ Len(ctx) \in Nat /\ Len(Append(ctx, m)) = Len(ctx) + 1
  BY AppendProperties
<1> QED
  BY <1>1

\* Steps of the run: where it is, and what it says.
LEMMA RunIdle ==
  ASSUME SessionTypes, IdleInv, UNCHANGED <<active, pc, msgs, threw, overlapped>>,
         run.at # "none", run'.at # "none", deaf => deaf',
         \/ context' = context /\ context # <<>>
         \/ \E m \in Messages : context' = Append(context, m) /\ (context = <<>> => ~IsReply(m)),
         ~deaf' /\ Replied' =>
           \/ Replied /\ last' = last /\ attempt' = attempt /\ saving' = saving
           \/ Replying'
  PROVE  IdleInv'
<1> USE DEF SessionTypes
<1>1. PICK p \in Prompters : pc[p] = "running"
  BY DEF IdleInv, Lone, OneRun
<1>2. Lone'
  BY DEF IdleInv, Lone, OneRun, ActiveIsBusy, BusyIsActive, AtRest
<1>3. /\ context # <<>> => context' # <<>> /\ context'[1] = context[1]
      /\ context = <<>> /\ context' # <<>> => ~IsReply(context'[1])
      /\ context' # <<>>
  <2>1. CASE context' = context /\ context # <<>>
    BY <2>1
  <2>2. ASSUME NEW m \in Messages, context' = Append(context, m), context = <<>> => ~IsReply(m)
        PROVE  /\ context # <<>> => context' # <<>> /\ context'[1] = context[1]
               /\ context = <<>> => context' # <<>> /\ ~IsReply(context'[1])
    <3>1. context' # <<>>
      BY <2>2, Lengthened DEF SessionTypes
    <3>2. context # <<>> => context'[1] = context[1]
      BY <2>2
    <3>3. context = <<>> => context'[1] = m
      BY <2>2
    <3> QED
      BY <2>2, <3>1, <3>2, <3>3
  <2> QED
    BY <2>1, <2>2
<1>5. Grounded'
  BY <1>3 DEF IdleInv, Grounded
<1>6. NothingStranded'
  BY <1>1 DEF NothingStranded, AtRest
<1>7. Heard' /\ Attempts'
  <2>1. ASSUME ~deaf', Replied'
        PROVE  /\ last' # <<>> \/ Replying'
               /\ ~Replying' /\ last' # <<>> /\ ~Failed(last'[1]) => attempt' = 0
    BY <2>1 DEF IdleInv, Heard, Attempts, Replying
  <2> QED
    BY <1>1, <2>1 DEF Heard, Attempts
<1> QED
  BY <1>2, <1>5, <1>6, <1>7 DEF IdleInv

\* The reply that has been saved is remembered.
LEMMA SaveIdle ==
  ASSUME SessionTypes, IdleInv, Save
  PROVE  IdleInv'
<1>1. /\ UNCHANGED <<active, context, run, deaf, threw, overlapped, steering, followUp>>
      /\ UNCHANGED <<pc, msgs>>
      /\ saving # <<>> /\ saving' = <<>> /\ (attempt' # 0 => attempt' = attempt)
      /\ IF Replying THEN last' = saving /\ (~Failed(saving[1]) => attempt' = 0)
         ELSE UNCHANGED <<last, attempt>>
  BY DEF Save, Replying, queues, calls, history, retries
<1>2. Lone' /\ Grounded' /\ NothingStranded'
  BY <1>1 DEF IdleInv, Lone, OneRun, ActiveIsBusy, BusyIsActive, AtRest, Grounded, NothingStranded,
              HasQueued
<1>3. Heard'
  BY <1>1 DEF IdleInv, Heard, Replied
<1>4. Attempts'
  <2>1. ASSUME ~deaf', ~threw', attempt' # 0
        PROVE  \E p \in Prompters : pc'[p] \in {"running", "delaying", "cancelled"}
    BY <1>1, <2>1 DEF IdleInv, Attempts
  <2>2. ASSUME ~deaf', Replied', last' # <<>>, ~Failed(last'[1])
        PROVE  attempt' = 0
    <3>1. CASE Replying
      BY <1>1, <2>2, <3>1
    <3>2. CASE ~Replying
      BY <1>1, <2>2, <3>2 DEF IdleInv, Attempts, Replied
    <3> QED
      BY <3>1, <3>2
  <2> QED
    BY <2>1, <2>2 DEF Attempts
<1> QED
  BY <1>2, <1>3, <1>4 DEF IdleInv

\* Steps of a call that is not busy: before its run, or after its end.
LEMMA RestIdle ==
  ASSUME SessionTypes, IdleInv, NEW p \in Prompters,
         NEW place \in {"idle", "preflight", "starting", "settling"},
         pc[p] \in {"idle", "preflight", "starting", "settling"},
         pc' = [pc EXCEPT ![p] = place], place = "starting" => msgs'[p] # <<>>,
         \A q \in Prompters \ {p} : msgs'[q] = msgs[q],
         UNCHANGED <<active, run, last, attempt, saving, deaf, threw, overlapped, steering, followUp>>,
         context # <<>> => context' # <<>> /\ ~IsReply(context'[1]),
         context = <<>> /\ context' # <<>> => ~IsReply(context'[1])
  PROVE  IdleInv'
<1> USE DEF SessionTypes
<1>1. OneRun'
  BY DEF IdleInv, Lone, OneRun
<1>2. AtRest' <=> AtRest
  BY DEF AtRest
<1>3. ActiveIsBusy' /\ BusyIsActive'
  BY <1>2 DEF IdleInv, Lone, ActiveIsBusy, BusyIsActive, Busy
<1>4. Grounded'
  BY DEF IdleInv, Grounded
<1>5. Heard' /\ NothingStranded'
  BY <1>2 DEF IdleInv, Heard, Replied, Replying, NothingStranded, HasQueued
<1>6. Attempts'
  <2>1. \A q \in Prompters : pc[q] \in {"running", "delaying", "cancelled"} => pc'[q] = pc[q]
    OBVIOUS
  <2> QED
    BY <2>1 DEF IdleInv, Attempts, Replied, Replying
<1> QED
  BY <1>1, <1>3, <1>4, <1>5, <1>6 DEF IdleInv, Lone

LEMMA AbortsIdle ==
  ASSUME SessionTypes, IdleInv, NEW w \in Waiters, Aborts(w),
         UNCHANGED <<active, context, last, attempt, saving, deaf, threw, overlapped, steering,
                     followUp, msgs>>
  PROVE  IdleInv'
<1> USE DEF SessionTypes
<1>1. /\ \A q \in Prompters : pc'[q] = IF pc[q] = "delaying" THEN "cancelled" ELSE pc[q]
      /\ run'.at = run.at /\ run'.todo = run.todo
  BY DEF Aborts, RunRecords
<1>2. AtRest' <=> AtRest
  BY <1>1 DEF AtRest
<1>3. Lone'
  BY <1>1, <1>2 DEF IdleInv, Lone, OneRun, ActiveIsBusy, BusyIsActive, Busy
<1>4. Grounded' /\ Heard'
  BY <1>1 DEF IdleInv, Grounded, Heard, Replied, Replying
<1>5. NothingStranded' /\ Attempts'
  BY <1>1, <1>2 DEF IdleInv, NothingStranded, HasQueued, Attempts, Replied, Replying
<1> QED
  BY <1>3, <1>4, <1>5 DEF IdleInv

LEMMA RetryIdle ==
  ASSUME SessionTypes, IdleInv, NEW p \in Prompters, Retry(p)
  PROVE  IdleInv'
<1> USE DEF SessionTypes
<1>1. /\ pc[p] = "running" /\ pc' = [pc EXCEPT ![p] = "delaying"]
      /\ context' = WithoutTrailingReply(context) /\ run'.at = "none" /\ run.at = "ending"
      /\ UNCHANGED <<active, msgs, deaf, threw, overlapped>>
  BY DEF Retry, RunIsOver, NoRun, history
<1>2. context # <<>> /\ ~IsReply(context[1])
  BY <1>1 DEF IdleInv, Grounded
<1>3. context' # <<>> /\ ~IsReply(context'[1])
  BY <1>1, <1>2, Trimmed
<1>4. Lone'
  <2>1. OneRun'
    BY <1>1 DEF IdleInv, Lone, OneRun
  <2> QED
    BY <1>1, <2>1 DEF IdleInv, Lone, ActiveIsBusy, BusyIsActive, Busy, AtRest
<1>5. Grounded'
  BY <1>1, <1>3 DEF IdleInv, Grounded
<1>6. Heard' /\ NothingStranded' /\ Attempts'
  BY <1>1 DEF Heard, NothingStranded, AtRest, Attempts, Replied
<1> QED
  BY <1>4, <1>5, <1>6 DEF IdleInv

LEMMA UnheardIdle ==
  ASSUME SessionTypes, IdleInv, NEW p \in Prompters, RunUnheard(p)
  PROVE  IdleInv'
<1> USE DEF SessionTypes
<1>1. /\ pc[p] = "running" /\ pc' = [pc EXCEPT ![p] = "settling"]
      /\ context' = context \o pendingBash /\ run'.at = "none" /\ run.at = "ending"
      /\ active' = FALSE /\ UNCHANGED <<msgs, overlapped>>
  BY DEF RunUnheard, RunIsOver, Settle, NoRun, history
<1>2. deaf'
  BY DEF RunUnheard, RunIsOver, IdleInv, Heard, Replied, Replying, history
<1>3. context' # <<>> /\ ~IsReply(context'[1])
  <2>1. context # <<>> /\ ~IsReply(context[1])
    BY <1>1 DEF IdleInv, Grounded
  <2> QED
    BY <1>1, <2>1, Joined, Made
<1>4. Lone'
  <2>1. OneRun'
    BY <1>1 DEF IdleInv, Lone, OneRun
  <2>2. ActiveIsBusy'
    BY <1>1 DEF ActiveIsBusy
  <2>3. ASSUME ~overlapped, NEW q \in Prompters
        PROVE  pc'[q] \in {"idle", "preflight", "starting", "settling"}
    BY <1>1, <2>3 DEF IdleInv, Lone, BusyIsActive, Places, Busy
  <2>4. BusyIsActive'
    BY <1>1, <2>3 DEF BusyIsActive, Busy, AtRest
  <2> QED
    BY <2>1, <2>2, <2>4 DEF Lone
<1>5. Grounded'
  BY <1>1, <1>3 DEF IdleInv, Grounded
<1>6. Heard' /\ NothingStranded' /\ Attempts'
  BY <1>2 DEF Heard, NothingStranded, Attempts
<1> QED
  BY <1>4, <1>5, <1>6 DEF IdleInv

\* The context of a prompt, with the results of shell commands that were held
\* back, and without the reply that overflowed.
LEMMA SubmitContext ==
  ASSUME SessionTypes, IdleInv, NEW ctx,
         ctx = context \o pendingBash \/ ctx = WithoutTrailingReply(context \o pendingBash)
  PROVE  /\ context # <<>> => ctx # <<>>
         /\ ctx # <<>> => ~IsReply(ctx[1])
<1>1. /\ context \in Seq(Messages) /\ pendingBash \in Seq(Messages) /\ pendingBash \in Seq(Bashes)
      /\ context \o pendingBash \in Seq(Messages)
      /\ context # <<>> => ~IsReply(context[1])
  BY Made, Joined DEF SessionTypes, IdleInv, Grounded
<1>2. context # <<>> => context \o pendingBash # <<>> /\ ~IsReply((context \o pendingBash)[1])
  BY <1>1, Joined
<1>3. context \o pendingBash # <<>> => ~IsReply((context \o pendingBash)[1])
  <2>1. ASSUME context = <<>>, pendingBash # <<>>
        PROVE  ~IsReply((context \o pendingBash)[1])
    <3>1. (context \o pendingBash)[1] = pendingBash[1]
      BY <1>1, <2>1, Joined
    <3>2. pendingBash[1] \in Bashes
      BY <1>1, <2>1
    <3> QED
      BY <3>1, <3>2 DEF Bashes, IsReply
  <2>2. context = <<>> /\ pendingBash = <<>> => context \o pendingBash = <<>>
    BY <1>1, ConcatEmptySeq
  <2> QED
    BY <1>2, <2>1, <2>2
<1>4. WithoutTrailingReply(context \o pendingBash) # <<>> => context \o pendingBash # <<>>
  <2>1. ASSUME context \o pendingBash = <<>>
        PROVE  WithoutTrailingReply(context \o pendingBash) = <<>>
    BY <2>1 DEF WithoutTrailingReply, EndsWith
  <2> QED
    BY <2>1
<1> DEFINE both == context \o pendingBash
<1>5. both \in Seq(Messages)
  BY <1>1
<1> HIDE DEF both
<1>6. both # <<>> /\ ~IsReply(both[1]) =>
        WithoutTrailingReply(both) # <<>> /\ ~IsReply(WithoutTrailingReply(both)[1])
  BY <1>5, Trimmed
<1> QED
  BY <1>2, <1>3, <1>4, <1>6 DEF both

LEMMA Idle ==
  ASSUME SessionTypes, SavingTypes, IdleInv, [Next]_vars
  PROVE  IdleInv'
<1> USE DEF queues, shown, records, retries, calls, manual, history, bounds
<1>0. SessionTypes'
  BY Types
<1>1. ASSUME NEW p \in Prompters, Submit(p) PROVE IdleInv'
  <2>1. /\ context' = context \o pendingBash \/ context' = WithoutTrailingReply(context \o pendingBash)
        /\ pc[p] = "idle"
        /\ UNCHANGED <<active, run, last, attempt, saving, deaf, threw, overlapped, steering, followUp>>
    BY <1>1 DEF Submit, Meanwhile
  <2>2. /\ context # <<>> => context' # <<>> /\ ~IsReply(context'[1])
        /\ context = <<>> /\ context' # <<>> => ~IsReply(context'[1])
    BY <2>1, SubmitContext
  <2>3. CASE pc' = [pc EXCEPT ![p] = "preflight"] /\ UNCHANGED msgs
    BY <2>1, <2>2, <2>3, RestIdle
  <2>4. CASE pc' = [pc EXCEPT ![p] = "starting"] /\ Build(p)
    <3>1. msgs' = [msgs EXCEPT ![p] = <<Message("user", "text", clock)>> \o nextTurn]
      BY <2>4 DEF Build
    <3>2. <<Message("user", "text", clock)>> \o nextTurn # <<>>
      BY BuildTypes DEF SessionTypes
    <3>3. msgs'[p] # <<>> /\ \A q \in Prompters \ {p} : msgs'[q] = msgs[q]
      BY <3>1, <3>2 DEF SessionTypes
    <3> QED
      BY <2>1, <2>2, <2>4, <3>3, RestIdle
  <2> QED
    BY <1>1, <2>3, <2>4 DEF Submit, StartsCompaction
<1>2. ASSUME NEW p \in Prompters, SendTrigger(p) PROVE IdleInv'
  <2>1. <<Message("custom", "text", clock)>> \in Seq(Loose) /\ <<Message("custom", "text", clock)>> # <<>>
    BY Made DEF SessionTypes
  <2>2. pc[p] = "idle" /\ Runs(p, <<Message("custom", "text", clock)>>)
    BY <1>2 DEF SendTrigger
  <2> QED
    BY <2>1, <2>2, RunsIdle
<1>3. ASSUME NEW p \in Prompters, Run(p) PROVE IdleInv'
  <2>1. msgs[p] \in Seq(Loose) /\ msgs[p] # <<>> /\ pc[p] = "starting" /\ Runs(p, msgs[p])
    BY <1>3 DEF Run, SessionTypes, IdleInv, Grounded
  <2> QED
    BY <2>1, RunsIdle
<1>4. ASSUME NEW p \in Prompters, PreflightDone(p) PROVE IdleInv'
  <2>1. /\ pc[p] = "preflight" /\ pc' = [pc EXCEPT ![p] = "starting"]
        /\ UNCHANGED <<active, run, last, attempt, saving, deaf, threw, overlapped, steering, followUp>>
        /\ context' \in {context, ContextAfter(p)}
    BY <1>4 DEF PreflightDone, Meanwhile
  <2>2. msgs'[p] # <<>> /\ \A q \in Prompters \ {p} : msgs'[q] = msgs[q]
    <3>1. clock \in Nat /\ clock + 1 \in Nat
      BY DEF SessionTypes
    <3>2. \/ msgs' = [msgs EXCEPT ![p] = <<Message("user", "text", clock)>> \o nextTurn]
          \/ msgs' = [msgs EXCEPT ![p] = <<Message("user", "text", clock + 1)>> \o nextTurn]
      BY <1>4 DEF PreflightDone
    <3>3. /\ <<Message("user", "text", clock)>> \o nextTurn # <<>>
          /\ <<Message("user", "text", clock + 1)>> \o nextTurn # <<>>
      BY <3>1, BuildTypes
    <3> QED
      BY <3>2, <3>3 DEF SessionTypes
  <2>3. /\ context # <<>> => context' # <<>> /\ ~IsReply(context'[1])
        /\ context = <<>> /\ context' # <<>> => ~IsReply(context'[1])
    BY <2>1, AfterCompaction DEF IdleInv, Grounded
  <2> QED
    BY <2>1, <2>2, <2>3, RestIdle
<1>5. ASSUME NEW p \in Prompters, Settled(p) PROVE IdleInv'
  <2>1. /\ pc[p] = "settling" /\ pc' = [pc EXCEPT ![p] = "idle"]
        /\ UNCHANGED <<context, msgs>>
        /\ UNCHANGED <<active, run, last, attempt, saving, deaf, threw, overlapped, steering, followUp>>
    BY <1>5 DEF Settled
  <2>2. /\ context # <<>> => context' # <<>> /\ ~IsReply(context'[1])
        /\ context = <<>> /\ context' # <<>> => ~IsReply(context'[1])
    BY <2>1 DEF IdleInv, Grounded
  <2> QED
    BY <2>1, <2>2, RestIdle
<1>6. ASSUME NEW p \in Prompters, CallStep(p) PROVE IdleInv'
  BY <1>3, <1>4, <1>5, <1>6, EndIdle, RetryIdle, UnheardIdle DEF CallStep, EndStep
<1>7. ASSUME Announce PROVE IdleInv'
  <2> DEFINE m == Head(run.todo)
  <2>1. m \in Loose /\ m \in Messages
    BY <1>7, Announced, Made DEF Announce
  <2>2. context' = Append(context, m) /\ (deaf => deaf') /\ run'.at = run.at /\ run.at \in {"prompts", "turn"}
    BY <1>7 DEF Announce, Finished, SessionTypes, RunRecords
  <2>3. ~IsReply(m)
    BY <2>1 DEF Loose, IsReply
  <2>4. UNCHANGED <<active, pc, msgs, threw, overlapped>>
    BY <1>7 DEF Announce
  <2> HIDE DEF m
  <2> QED
    BY <2>1, <2>2, <2>3, <2>4, RunIdle DEF Replied
<1>8. ASSUME Poll PROVE IdleInv'
  <2>1. /\ run.at = "prompts" /\ run.todo = <<>> /\ run'.at = "turn" /\ UNCHANGED <<deaf, context>>
        /\ UNCHANGED <<active, pc, msgs, threw, overlapped>>
    BY <1>8 DEF Poll, SessionTypes, RunRecords
  <2>2. context # <<>>
    BY <2>1 DEF IdleInv, Grounded
  <2> QED
    BY <2>1, <2>2, RunIdle DEF Replied
<1>9. ASSUME NEW kind \in Replies \union {"stop"}, Reply(kind) PROVE IdleInv'
  <2> DEFINE m == Message("assistant", kind, clock)
  <2>1. m \in Messages
    <3>1. kind \in ReplyKinds
      BY SessionAssumption DEF ReplyKinds
    <3> QED
      BY <3>1, Made DEF SessionTypes
  <2>2. /\ run.at = "turn" /\ run'.at \in {"tools", "ending", "stopping"}
        /\ UNCHANGED <<active, pc, msgs, threw, overlapped>>
    BY <1>9 DEF Reply, SessionTypes, RunRecords
  <2>3. context' = Append(context, m) /\ (deaf => deaf') /\ context # <<>>
    BY <1>9, <2>2 DEF Reply, Finished, IdleInv, Grounded
  <2>4. ~deaf' => Replying'
    <3>1. m.role = "assistant"
      BY Fields
    <3>2. Finished(m)
      BY <1>9 DEF Reply
    <3> HIDE DEF m
    <3>3. ~deaf' => saving' = <<m>>
      BY <3>2 DEF Finished
    <3> QED
      BY <3>1, <3>3 DEF Replying, IsReply
  <2> HIDE DEF m
  <2> QED
    BY <2>1, <2>2, <2>3, <2>4, RunIdle
<1>10. ASSUME ToolResult PROVE IdleInv'
  <2> DEFINE m == Message("result", "text", clock)
  <2>1. m \in Messages /\ ~IsReply(m)
    BY Made, Fields DEF SessionTypes, IsReply
  <2>2. /\ run.at = "tools" /\ run'.at = "prompts" /\ context' = Append(context, m) /\ (deaf => deaf')
        /\ UNCHANGED <<active, pc, msgs, threw, overlapped>>
    BY <1>10 DEF ToolResult, Finished, SessionTypes, RunRecords
  <2> HIDE DEF m
  <2> QED
    BY <2>1, <2>2, RunIdle DEF Replied
<1>11. ASSUME Stopping PROVE IdleInv'
  <2>1. /\ run.at = "stopping" /\ run'.at \in {"turn", "ending"} /\ UNCHANGED <<deaf, context>>
        /\ UNCHANGED <<active, pc, msgs, threw, overlapped, last, attempt, saving>>
    BY <1>11 DEF Stopping, SessionTypes, RunRecords
  <2>2. context # <<>>
    BY <2>1 DEF IdleInv, Grounded
  <2> QED
    BY <2>1, <2>2, RunIdle DEF Replied
<1>12. ASSUME NEW content \in Contents, Steer(content) \/ FollowUp(content) PROVE IdleInv'
  <2>1. UNCHANGED <<active, run, pc, last, attempt, saving, deaf, threw, overlapped, context, msgs>> /\ active
    BY <1>12 DEF Steer, FollowUp
  <2> QED
    BY <2>1, OthersIdle
<1>13. ASSUME QueueCustom \/ PushNextTurn \/ ClearQueue PROVE IdleInv'
  <2>1. /\ UNCHANGED <<active, run, pc, last, attempt, saving, deaf, threw, overlapped, context, msgs>>
        /\ HasQueued' => HasQueued \/ active
    BY <1>13 DEF QueueCustom, PushNextTurn, ClearQueue, HasQueued
  <2> QED
    BY <2>1, OthersIdle
<1>14. ASSUME Note \/ BashDone PROVE IdleInv'
  <2>1. /\ UNCHANGED <<active, run, pc, last, attempt, saving, deaf, threw, overlapped, msgs>>
        /\ HasQueued' => HasQueued \/ active
    BY <1>14 DEF Note, BashDone, HasQueued, Recorded, Meanwhile
  <2>2. PICK m : /\ m \in Messages /\ ~IsReply(m)
                 /\ context' = context \/ context' = Append(context, m)
    <3>1. /\ Message("custom", "text", clock) \in Messages /\ ~IsReply(Message("custom", "text", clock))
          /\ Message("bash", "text", clock) \in Messages /\ ~IsReply(Message("bash", "text", clock))
      BY Made, Fields DEF SessionTypes, IsReply
    <3> QED
      BY <1>14, <3>1 DEF Note, BashDone, Recorded
  <2>3. /\ context # <<>> => context' # <<>> /\ context'[1] = context[1]
        /\ context = <<>> /\ context' # <<>> => ~IsReply(context'[1])
    <3>1. CASE context' = context
      BY <3>1
    <3>2. CASE context' = Append(context, m)
      <4>1. context \in Seq(Messages)
        BY DEF SessionTypes
      <4> QED
        BY <2>2, <3>2, <4>1
    <3> QED
      BY <2>2, <3>1, <3>2
  <2> QED
    BY <2>1, <2>3, OthersIdle
<1>15. ASSUME NEW w \in Waiters, Abort(w) PROVE IdleInv'
  BY <1>15, AbortsIdle DEF Abort
<1>16. ASSUME NEW w \in Waiters, Wait(w) PROVE IdleInv'
  <2>1. /\ UNCHANGED <<active, run, pc, last, attempt, saving, deaf, threw, overlapped, context, msgs>>
        /\ HasQueued' => HasQueued \/ active
    BY <1>16 DEF Wait, HasQueued
  <2> QED
    BY <2>1, OthersIdle
<1>17. ASSUME Compact PROVE IdleInv'
  BY <1>17, AbortsIdle, SessionAssumption DEF Compact
<1>18. ASSUME CompactPrepares PROVE IdleInv'
  <2>1. /\ UNCHANGED <<active, run, pc, last, attempt, saving, deaf, threw, overlapped, context, msgs>>
        /\ HasQueued' => HasQueued \/ active
    BY <1>18 DEF CompactPrepares, HasQueued
  <2> QED
    BY <2>1, OthersIdle
<1>19. ASSUME CompactEnds PROVE IdleInv'
  <2> DEFINE c == CompactionOf(clock, keeping)
  <2>1. c \in Messages /\ c.role = "compaction" /\ Compacted(keeping) = Append(session, c)
    BY Made, Fields DEF SessionTypes, Compacted
  <2>2. /\ UNCHANGED <<active, run, pc, last, attempt, saving, deaf, threw, overlapped, msgs>>
        /\ UNCHANGED <<steering, followUp>>
        /\ context' \in {context, BuildContext(Compacted(keeping))}
    BY <1>19 DEF CompactEnds, Meanwhile
  <2> HIDE DEF c
  <2>3. BuildContext(Compacted(keeping)) # <<>> /\ BuildContext(Compacted(keeping))[1] = c
    BY <2>1, RebuiltContext DEF SessionTypes
  <2>4. context' # <<>> => ~IsReply(context'[1])
    BY <2>1, <2>2, <2>3 DEF IdleInv, Grounded, IsReply
  <2>5. context # <<>> => context' # <<>>
    BY <2>2, <2>3
  <2>6. Lone' /\ Heard' /\ Attempts'
    BY <2>2 DEF IdleInv, Lone, OneRun, ActiveIsBusy, BusyIsActive, AtRest, Heard, Attempts, Replied,
              Replying
  <2>7. Grounded'
    BY <2>2, <2>4, <2>5 DEF IdleInv, Grounded
  <2>8. NothingStranded'
    BY <2>2 DEF IdleInv, NothingStranded, AtRest, HasQueued
  <2> QED
    BY <2>6, <2>7, <2>8 DEF IdleInv
<1>20. ASSUME UNCHANGED vars PROVE IdleInv'
  <2>1. /\ UNCHANGED <<active, run, pc, last, attempt, saving, deaf, threw, overlapped, context, msgs>>
        /\ HasQueued' => HasQueued \/ active
    BY <1>20 DEF vars, HasQueued
  <2> QED
    BY <2>1, OthersIdle
<1>21. ASSUME RunStep PROVE IdleInv'
  BY <1>7, <1>8, <1>9, <1>10, <1>11, <1>21, SaveIdle DEF RunStep
<1>22. ASSUME Outside PROVE IdleInv'
  BY <1>12, <1>13, <1>14, <1>15, <1>16, <1>22 DEF Outside
<1> QED
  BY <1>1, <1>2, <1>6, <1>17, <1>18, <1>19, <1>20, <1>21, <1>22 DEF Next

LEMMA IdleStarts ==
  ASSUME Init
  PROVE  SessionTypes /\ SavingTypes /\ IdleInv
<1>1. SessionTypes
  <2>1. MaxRetries \in Nat /\ 0 \in 0..MaxRetries
    BY SessionAssumption
  <2>2. /\ <<>> \in Seq(Loose) /\ <<>> \in Seq(Bashes) /\ <<>> \in Seq(Asides) /\ <<>> \in Seq(Nat)
        /\ <<>> \in Seq(Messages) /\ Len(<<>>) = 0
        /\ Nothing \in [id : Nat, retry : BOOLEAN] /\ NoRun \in RunRecords
    BY DEF Nothing, NoRun, RunRecords, Stages
  <2>3. pc \in [Prompters -> Places] /\ msgs \in [Prompters -> Seq(Loose)]
        /\ held \in [Prompters -> [id : Nat, retry : BOOLEAN]]
    BY <2>2 DEF Init, Places
  <2>4. /\ active = FALSE /\ connected = TRUE /\ waiting = {}
        /\ context = <<>> /\ session = <<>> /\ pendingBash = <<>> /\ nextTurn = <<>>
        /\ steering = <<>> /\ followUp = <<>> /\ shownSteering = <<>> /\ shownFollowUp = <<>>
        /\ last = <<>> /\ attempt = 0 /\ recovered = FALSE /\ compactor = "idle" /\ keeping = 0
        /\ run = NoRun /\ clock = 1 /\ deaf = FALSE /\ threw = FALSE /\ overlapped = FALSE
    BY DEF Init
  <2>5. /\ active \in BOOLEAN /\ connected \in BOOLEAN /\ waiting \subseteq Waiters
        /\ recovered \in BOOLEAN /\ deaf \in BOOLEAN /\ threw \in BOOLEAN /\ overlapped \in BOOLEAN
        /\ compactor \in {"idle", "aborting", "compacting"}
    BY <2>4
  <2>6. keeping \in Nat /\ clock \in Nat /\ attempt \in 0..MaxRetries /\ run \in RunRecords
    BY <2>1, <2>2, <2>4
  <2>7. /\ context \in Seq(Messages) /\ session \in Seq(Messages)
        /\ pendingBash \in Seq(Bashes) /\ nextTurn \in Seq(Asides)
        /\ steering \in Seq(Loose) /\ followUp \in Seq(Loose)
        /\ shownSteering \in Seq(Nat) /\ shownFollowUp \in Seq(Nat)
    BY <2>2, <2>4
  <2>8. last \in Seq(Messages) /\ Len(last) <= 1 /\ (last # <<>> => last[1].role = "assistant")
    BY <2>2, <2>4
  <2> QED
    BY <2>3, <2>5, <2>6, <2>7, <2>8 DEF SessionTypes
<1>2. IdleInv
  BY DEF Init, IdleInv, Lone, OneRun, ActiveIsBusy, BusyIsActive, AtRest, Grounded, Heard, Replied,
         NothingStranded, HasQueued, Attempts, NoRun, Busy
<1>3. SavingTypes
  BY DEF Init, SavingTypes
<1> QED
  BY <1>1, <1>2, <1>3

\* The shape of the state.
THEOREM SessionTypeCorrect == Spec => []TypeOK
<1>1. Init => SessionTypes /\ SavingTypes
  BY IdleStarts
<1>2. SessionTypes /\ SavingTypes /\ [Next]_vars => (SessionTypes /\ SavingTypes)'
  BY Types, SavingKept
<1>3. SessionTypes /\ SavingTypes => TypeOK
  <2> SUFFICES ASSUME SessionTypes, SavingTypes PROVE TypeOK
    OBVIOUS
  <2>1. Len(saving) <= 1
    <3>1. CASE saving = <<>>
      BY <3>1
    <3>2. CASE saving # <<>>
      <4>1. PICK m \in Messages : saving = <<m>>
        BY <3>2 DEF SavingTypes
      <4> QED
        BY <4>1
    <3> QED
      BY <3>1, <3>2
  <2>4. crossed \in BOOLEAN
    BY DEF SavingTypes
  <2>2. /\ {active, connected, recovered, deaf, threw, overlapped} \subseteq BOOLEAN
        /\ waiting \subseteq Waiters
        /\ attempt \in 0..MaxRetries
        /\ Len(last) <= 1
    BY DEF SessionTypes
  <2>3. /\ pc \in [Prompters -> Places] /\ run.at \in Stages
        /\ compactor \in {"idle", "aborting", "compacting"}
    BY DEF SessionTypes, RunRecords
  <2> QED
    BY <2>1, <2>2, <2>3, <2>4 DEF TypeOK, Places, Stages
<1> QED
  BY <1>1, <1>2, <1>3, PTL DEF Spec

\* A session that says it is idle has no run at work and no retry, compaction
\* or continuation ahead, unless a prompt ran while another was active; and
\* when the calls rest, no message is stranded in a queue and no attempt is
\* left over.
THEOREM SessionIdleMeansDone == Spec => []IdleMeansDone
<1>1. Init => SessionTypes /\ SavingTypes /\ IdleInv
  BY IdleStarts
<1>2. SessionTypes /\ SavingTypes /\ IdleInv /\ [Next]_vars
        => (SessionTypes /\ SavingTypes /\ IdleInv)'
  BY Types, SavingKept, Idle
<1>3. SessionTypes /\ IdleInv => IdleMeansDone
  <2> SUFFICES ASSUME SessionTypes, IdleInv PROVE IdleMeansDone
    OBVIOUS
  <2>1. IdleIsIdle
    <3>1. AtRest => ~\E p \in Prompters : pc[p] = "running"
      BY DEF AtRest
    <3> QED
      BY <3>1 DEF IdleInv, Lone, OneRun, BusyIsActive, IdleIsIdle
  <2>2. FreshRetries
    BY DEF IdleInv, Attempts, FreshRetries, AtRest
  <2> QED
    BY <2>1, <2>2 DEF IdleInv, IdleMeansDone
<1> QED
  BY <1>1, <1>2, <1>3, PTL DEF Spec

-----------------------------------------------------------------------------
(* Queues and their mirrors.                                               *)

\* The users' messages of a queue, by their ids; each is there once.
UserIds(s) == {s[i].id : i \in {j \in DOMAIN s : s[j].role = "user"}}
OnceUser(s) ==
  \A i, j \in DOMAIN s : s[i].role = "user" /\ s[j].role = "user" /\ s[i].id = s[j].id => i = j
Once(s) == \A i, j \in DOMAIN s : s[i] = s[j] => i = j

LEMMA UserIdsOf ==
  ASSUME NEW s \in Seq(Loose), NEW m \in Loose
  PROVE  /\ UserIds(<<>>) = {} /\ OnceUser(<<>>)
         /\ UserIds(Append(s, m)) = IF m.role = "user" THEN UserIds(s) \union {m.id} ELSE UserIds(s)
         /\ UserIds(<<m>>) = IF m.role = "user" THEN {m.id} ELSE {}
         /\ OnceUser(s) /\ (m.role = "user" => m.id \notin UserIds(s)) => OnceUser(Append(s, m))
<1>1. UserIds(<<>>) = {} /\ OnceUser(<<>>)
  BY DEF UserIds, OnceUser
<1>2. UserIds(<<m>>) = IF m.role = "user" THEN {m.id} ELSE {}
  BY DEF UserIds
<1> DEFINE t == Append(s, m)
           n == Len(s)
<1>3. /\ n \in Nat /\ DOMAIN t = 1..(n + 1) /\ DOMAIN s = 1..n /\ t[n + 1] = m
      /\ \A i \in 1..n : t[i] = s[i]
  OBVIOUS
<1> HIDE DEF t, n
<1>4. UserIds(t) = IF m.role = "user" THEN UserIds(s) \union {m.id} ELSE UserIds(s)
  <2>1. \A i \in 1..(n + 1) : i \in 1..n \/ i = n + 1
    BY <1>3
  <2>2. 1..n \subseteq 1..(n + 1) /\ n + 1 \in 1..(n + 1)
    BY <1>3
  <2>3. CASE m.role = "user"
    BY <1>3, <2>1, <2>2, <2>3 DEF UserIds
  <2>4. CASE m.role # "user"
    BY <1>3, <2>1, <2>2, <2>4 DEF UserIds
  <2> QED
    BY <2>3, <2>4
<1>5. OnceUser(s) /\ (m.role = "user" => m.id \notin UserIds(s)) => OnceUser(t)
  <2>1. \A i \in 1..(n + 1) : i \in 1..n \/ i = n + 1
    BY <1>3
  <2> QED
    BY <1>3, <2>1 DEF UserIds, OnceUser
<1> QED
  BY <1>1, <1>2, <1>4, <1>5 DEF t

\* A queue is split into what it gives and what it keeps.
LEMMA UserIdsSplit ==
  ASSUME NEW s \in Seq(Loose), s # <<>>
  PROVE  /\ UserIds(s) = UserIds(<<Head(s)>>) \union UserIds(Tail(s))
         /\ OnceUser(s) => OnceUser(Tail(s)) /\ UserIds(<<Head(s)>>) \intersect UserIds(Tail(s)) = {}
<1> DEFINE n == Len(s)
           t == Tail(s)
           h == <<Head(s)>>
<1>1. /\ n \in Nat /\ n >= 1 /\ DOMAIN s = 1..n /\ DOMAIN t = 1..(n - 1)
      /\ \A i \in 1..(n - 1) : t[i] = s[i + 1]
      /\ DOMAIN h = {1} /\ h[1] = s[1]
  OBVIOUS
<1> HIDE DEF n, t, h
<1>2. /\ \A i \in 1..n : i = 1 \/ (i - 1 \in 1..(n - 1) /\ (i - 1) + 1 = i)
      /\ \A i \in 1..(n - 1) : i + 1 \in 1..n /\ i + 1 # 1
      /\ 1 \in 1..n
      /\ \A i, j \in 1..(n - 1) : i + 1 = j + 1 => i = j
  BY <1>1
<1>3. UserIds(s) \subseteq UserIds(h) \union UserIds(t)
  <2>1. SUFFICES ASSUME NEW i \in 1..n, s[i].role = "user"
                 PROVE  s[i].id \in UserIds(h) \union UserIds(t)
    BY <1>1 DEF UserIds
  <2>2. CASE i = 1
    BY <1>1, <2>1, <2>2 DEF UserIds
  <2>3. CASE i # 1
    <3>1. i - 1 \in DOMAIN t /\ t[i - 1] = s[i]
      BY <1>1, <1>2, <2>1, <2>3
    <3> QED
      BY <2>1, <3>1 DEF UserIds
  <2> QED
    BY <2>2, <2>3
<1>4. UserIds(h) \union UserIds(t) \subseteq UserIds(s)
  <2>1. ASSUME NEW i \in 1..(n - 1), t[i].role = "user"
        PROVE  t[i].id \in UserIds(s)
    <3>1. i + 1 \in DOMAIN s /\ s[i + 1] = t[i]
      BY <1>1, <1>2
    <3> QED
      BY <2>1, <3>1 DEF UserIds
  <2>2. UserIds(t) \subseteq UserIds(s)
    BY <1>1, <2>1 DEF UserIds
  <2>3. UserIds(h) \subseteq UserIds(s)
    BY <1>1, <1>2 DEF UserIds
  <2> QED
    BY <2>2, <2>3
<1>5. ASSUME OnceUser(s)
      PROVE  OnceUser(t) /\ UserIds(h) \intersect UserIds(t) = {}
  <2>1. ASSUME NEW i \in 1..(n - 1), NEW j \in 1..(n - 1),
               t[i].role = "user", t[j].role = "user", t[i].id = t[j].id
        PROVE  i = j
    <3>1. /\ i + 1 \in DOMAIN s /\ s[i + 1] = t[i]
          /\ j + 1 \in DOMAIN s /\ s[j + 1] = t[j]
      BY <1>1, <1>2
    <3>2. i + 1 = j + 1
      BY <1>5, <2>1, <3>1 DEF OnceUser
    <3> QED
      BY <1>2, <3>2
  <2>2. ASSUME NEW i \in 1..(n - 1), t[i].role = "user", h[1].role = "user", h[1].id = t[i].id
        PROVE  FALSE
    <3>1. i + 1 \in DOMAIN s /\ s[i + 1] = t[i] /\ 1 \in DOMAIN s /\ s[1] = h[1] /\ i + 1 # 1
      BY <1>1, <1>2
    <3> QED
      BY <1>5, <2>2, <3>1 DEF OnceUser
  <2>3. OnceUser(t)
    BY <1>1, <2>1 DEF OnceUser
  <2>4. UserIds(h) \intersect UserIds(t) = {}
    BY <1>1, <2>2 DEF UserIds
  <2> QED
    BY <2>3, <2>4
<1> QED
  BY <1>3, <1>4, <1>5 DEF t, h

LEMMA UserIdsDrained ==
  ASSUME NEW q \in Seq(Loose)
  PROVE  /\ UserIds(q) = UserIds(Drained(Mode, q)) \union UserIds(Remaining(Mode, q))
         /\ OnceUser(q) => /\ OnceUser(Remaining(Mode, q))
                           /\ UserIds(Drained(Mode, q)) \intersect UserIds(Remaining(Mode, q)) = {}
<1>1. UserIds(<<>>) = {} /\ OnceUser(<<>>)
  BY DEF UserIds, OnceUser
<1>2. CASE Drained(Mode, q) = q /\ Remaining(Mode, q) = <<>>
  BY <1>1, <1>2
<1>3. CASE q # <<>> /\ Drained(Mode, q) = <<Head(q)>> /\ Remaining(Mode, q) = Tail(q)
  BY <1>3, UserIdsSplit
<1> QED
  BY <1>2, <1>3, Drain

LEMMA UserIdsBuilt ==
  ASSUME SessionTypes, NEW n \in Nat
  PROVE  UserIds(<<Message("user", "text", n)>> \o nextTurn) = {n}
<1> DEFINE m == Message("user", "text", n)
           s == <<m>> \o nextTurn
<1>1. m.role = "user" /\ m.id = n /\ m \in Loose /\ nextTurn \in Seq(Asides)
  BY Fields, Made DEF SessionTypes
<1> HIDE DEF m
<1>2. /\ DOMAIN s = 1..(1 + Len(nextTurn)) /\ Len(nextTurn) \in Nat /\ s[1] = m
      /\ \A i \in 2..(1 + Len(nextTurn)) : s[i] = nextTurn[i - 1]
  BY <1>1
<1> HIDE DEF s
<1>3. \A i \in DOMAIN s : i = 1 \/ s[i].role = "custom"
  <2>1. ASSUME NEW i \in 2..(1 + Len(nextTurn))
        PROVE  s[i].role = "custom"
    <3>1. i - 1 \in 1..Len(nextTurn)
      BY <1>2
    <3>2. nextTurn[i - 1] \in Asides
      BY <1>1, <3>1
    <3> QED
      BY <1>2, <3>2 DEF Asides
  <2>2. \A i \in 1..(1 + Len(nextTurn)) : i = 1 \/ i \in 2..(1 + Len(nextTurn))
    BY <1>2
  <2> QED
    BY <1>2, <2>1, <2>2
<1>4. 1 \in DOMAIN s
  BY <1>2
<1>5. UserIds(s) = {n}
  BY <1>1, <1>2, <1>3, <1>4 DEF UserIds
<1> QED
  BY <1>5 DEF s, m

\* A mirror without a message, when it held it once.
LEMMA RangeRemoved ==
  ASSUME NEW s \in Seq(Nat), NEW e \in Nat, Once(s)
  PROVE  Range(RemoveFirst(s, e)) = Range(s) \ {e} /\ Once(RemoveFirst(s, e))
<1> DEFINE t == RemoveFirst(s, e)
           n == Len(s)
<1>0. Contains(s, e) <=> \E i \in 1..n : s[i] = e
  BY DEF Contains
<1>1. CASE ~Contains(s, e)
  <2>1. t = s
    BY <1>1, Removed
  <2>2. e \notin Range(s)
    BY <1>0, <1>1 DEF Range
  <2> QED
    BY <2>1, <2>2
<1>2. CASE Contains(s, e)
  <2>1. PICK i \in 1..n : /\ s[i] = e /\ Len(t) = n - 1
                          /\ \A j \in 1..(n - 1) : t[j] = IF j < i THEN s[j] ELSE s[j + 1]
    BY <1>2, Removed
  <2>2. t \in Seq(Nat)
    BY Removed
  <2>3. /\ n \in Nat /\ DOMAIN s = 1..n /\ DOMAIN t = 1..(n - 1)
    BY <2>1, <2>2
  <2> HIDE DEF t, n
  <2>4. \A j \in 1..n : j # i => s[j] # e
    BY <2>1, <2>3 DEF Once
  <2>5. \A j \in 1..(n - 1) : /\ j < i => t[j] = s[j] /\ j \in 1..n /\ j # i
                              /\ ~(j < i) => t[j] = s[j + 1] /\ j + 1 \in 1..n /\ j + 1 # i
    BY <2>1, <2>3
  <2>6. Range(t) \subseteq Range(s) \ {e}
    BY <2>3, <2>4, <2>5 DEF Range
  <2>7. Range(s) \ {e} \subseteq Range(t)
    <3>1. ASSUME NEW j \in 1..n, j # i
          PROVE  \E k \in 1..(n - 1) : t[k] = s[j]
      <4>1. CASE j < i
        <5>1. j \in 1..(n - 1)
          BY <2>1, <2>3, <4>1
        <5> QED
          BY <2>5, <4>1, <5>1
      <4>2. CASE ~(j < i)
        <5>1. j - 1 \in 1..(n - 1) /\ ~(j - 1 < i) /\ (j - 1) + 1 = j
          BY <2>1, <2>3, <3>1, <4>2
        <5> QED
          BY <2>5, <5>1
      <4> QED
        BY <4>1, <4>2
    <3>2. ASSUME NEW x \in Range(s) \ {e}
          PROVE  x \in Range(t)
      <4>1. PICK j \in 1..n : x = s[j]
        BY <2>3 DEF Range
      <4>2. j # i
        BY <2>1, <3>2, <4>1
      <4>3. PICK k \in 1..(n - 1) : t[k] = s[j]
        BY <3>1, <4>2
      <4> QED
        BY <2>3, <4>1, <4>3 DEF Range
    <3> QED
      BY <3>2
  <2>8. Once(t)
    <3>1. SUFFICES ASSUME NEW j \in 1..(n - 1), NEW k \in 1..(n - 1), t[j] = t[k]
                   PROVE  j = k
      BY <2>3 DEF Once
    <3>0. i \in Int /\ j \in Int /\ k \in Int
      BY <2>1, <2>3
    <3>2. CASE j < i /\ k < i
      BY <2>3, <2>5, <3>1, <3>2 DEF Once
    <3>3. CASE ~(j < i) /\ ~(k < i)
      <4>1. j + 1 = k + 1
        <5>1. t[k] = s[k + 1] /\ k + 1 \in 1..n /\ t[j] = s[j + 1] /\ j + 1 \in 1..n
          BY <2>5, <3>3
        <5> QED
          BY <2>3, <3>1, <5>1 DEF Once
      <4> QED
        BY <4>1
    <3>4. CASE j < i /\ ~(k < i)
      <4>1. j = k + 1
        <5>1. t[j] = s[j] /\ j \in 1..n /\ t[k] = s[k + 1] /\ k + 1 \in 1..n
          BY <2>5, <3>4
        <5> QED
          BY <2>3, <3>1, <5>1 DEF Once
      <4> QED
        BY <3>0, <3>4, <4>1
    <3>5. CASE ~(j < i) /\ k < i
      <4>1. j + 1 = k
        <5>1. t[k] = s[k] /\ k \in 1..n /\ t[j] = s[j + 1] /\ j + 1 \in 1..n
          BY <2>5, <3>5
        <5> QED
          BY <2>3, <3>1, <5>1 DEF Once
      <4> QED
        BY <3>0, <3>5, <4>1
    <3> QED
      BY <3>2, <3>3, <3>4, <3>5
  <2> QED
    BY <2>6, <2>7, <2>8 DEF t
<1> QED
  BY <1>1, <1>2

LEMMA RangeAppended ==
  ASSUME NEW s \in Seq(Nat), NEW e \in Nat
  PROVE  /\ Range(Append(s, e)) = Range(s) \union {e}
         /\ Once(s) /\ e \notin Range(s) => Once(Append(s, e))
         /\ Range(<<>>) = {} /\ Once(<<>>)
<1> DEFINE t == Append(s, e)
           n == Len(s)
<1>1. /\ n \in Nat /\ DOMAIN t = 1..(n + 1) /\ DOMAIN s = 1..n /\ t[n + 1] = e
      /\ \A i \in 1..n : t[i] = s[i]
  OBVIOUS
<1> HIDE DEF t, n
<1>2. /\ \A i \in 1..(n + 1) : i \in 1..n \/ i = n + 1
      /\ 1..n \subseteq 1..(n + 1) /\ n + 1 \in 1..(n + 1)
  BY <1>1
<1>3. Range(t) = Range(s) \union {e}
  BY <1>1, <1>2 DEF Range
<1>4. Once(s) /\ e \notin Range(s) => Once(t)
  BY <1>1, <1>2 DEF Once, Range
<1>5. Range(<<>>) = {} /\ Once(<<>>)
  BY DEF Range, Once
<1> QED
  BY <1>3, <1>4, <1>5 DEF t

Queued == UserIds(steering) \union UserIds(followUp)
Mirror == Range(shownSteering) \union Range(shownFollowUp)

\* Every queued message is in one queue once, in no run and in no prompt yet; it
\* is shown.  What is shown is queued or about to be said, if every message has
\* a text to be found by.
QueueInv ==
  /\ \A n \in Queued \union UserIds(run.todo) \union Mirror : n < clock
  /\ \A p \in Prompters : \A n \in UserIds(msgs[p]) : n < clock /\ n \notin Queued
  /\ OnceUser(steering) /\ OnceUser(followUp)
  /\ UserIds(steering) \intersect UserIds(followUp) = {}
  /\ UserIds(run.todo) \intersect Queued = {}
  /\ Once(shownSteering) /\ Once(shownFollowUp)
  /\ Range(shownSteering) \intersect Range(shownFollowUp) = {}
  /\ Queued \subseteq Mirror
  /\ run.at \notin {"prompts", "turn"} => run.todo = <<>>
  /\ "image" \notin Contents /\ ~deaf => Mirror \subseteq Queued \union UserIds(run.todo)

LEMMA QueueIdsTyped ==
  ASSUME SessionTypes
  PROVE  /\ UserIds(steering) \subseteq Nat /\ UserIds(followUp) \subseteq Nat
         /\ UserIds(run.todo) \subseteq Nat /\ \A p \in Prompters : UserIds(msgs[p]) \subseteq Nat
         /\ Range(shownSteering) \subseteq Nat /\ Range(shownFollowUp) \subseteq Nat
<1>1. \A s \in Seq(Loose) : UserIds(s) \subseteq Nat
  <2>1. SUFFICES ASSUME NEW s \in Seq(Loose), NEW i \in DOMAIN s PROVE s[i].id \in Nat
    BY DEF UserIds
  <2>2. s[i] \in Loose
    OBVIOUS
  <2>3. s[i] \in Messages
    BY <2>2 DEF Loose
  <2> QED
    BY <2>3, MessageFields
<1>2. \A s \in Seq(Nat) : Range(s) \subseteq Nat
  BY DEF Range
<1> QED
  BY <1>1, <1>2 DEF SessionTypes, RunRecords

\* Steps that move messages between the queues, the prompts and the run.
LEMMA QueueMoves ==
  ASSUME SessionTypes, QueueInv, SessionTypes',
         OnceUser(steering'), OnceUser(followUp'),
         UserIds(steering') \subseteq UserIds(steering), UserIds(followUp') \subseteq UserIds(followUp),
         Queued \union UserIds(run.todo) \subseteq Queued' \union UserIds(run'.todo),
         \A n \in UserIds(run'.todo) : n < clock' /\ n \notin Queued',
         run'.at \notin {"prompts", "turn"} => run'.todo = <<>>,
         UNCHANGED <<shownSteering, shownFollowUp>>, clock <= clock', deaf => deaf',
         \A p \in Prompters : \A n \in UserIds(msgs'[p]) :
           n < clock' /\ (n \in UserIds(msgs[p]) \/ n >= clock)
  PROVE  QueueInv'
<1>1. clock \in Nat /\ clock' \in Nat
  BY DEF SessionTypes
<1>2. /\ UserIds(steering) \subseteq Nat /\ UserIds(followUp) \subseteq Nat /\ Mirror \subseteq Nat
      /\ Mirror' = Mirror /\ Queued' \subseteq Queued /\ Queued \subseteq Nat
      /\ UserIds(run.todo) \subseteq Nat
  BY QueueIdsTyped DEF Mirror, Queued
<1>3. \A n \in Queued' \union UserIds(run'.todo) \union Mirror' : n < clock'
  BY <1>1, <1>2 DEF QueueInv
<1>4. \A p \in Prompters : \A n \in UserIds(msgs'[p]) : n < clock' /\ n \notin Queued'
  <2>1. SUFFICES ASSUME NEW p \in Prompters, NEW n \in UserIds(msgs'[p]), n \in Queued PROVE FALSE
    BY <1>2
  <2>2. n \in Nat /\ n < clock
    BY <1>2, <2>1 DEF QueueInv
  <2>3. n \in UserIds(msgs[p]) \/ n >= clock
    BY <2>1, Zenon
  <2>4. ~(n >= clock)
    BY <1>1, <2>2, SMTT(30)
  <2> QED
    BY <2>1, <2>3, <2>4 DEF QueueInv
<1>5. Queued' \subseteq Mirror'
  BY <1>2 DEF QueueInv
<1>6. "image" \notin Contents /\ ~deaf' => Mirror' \subseteq Queued' \union UserIds(run'.todo)
  BY <1>2 DEF QueueInv
<1>7. /\ UserIds(steering') \intersect UserIds(followUp') = {}
      /\ UserIds(run'.todo) \intersect Queued' = {}
      /\ Once(shownSteering') /\ Once(shownFollowUp')
      /\ Range(shownSteering') \intersect Range(shownFollowUp') = {}
  BY DEF QueueInv
<1> QED
  BY <1>3, <1>4, <1>5, <1>6, <1>7 DEF QueueInv

\* The queues are drained into a run that had nothing left to say.
LEMMA QueueDrains ==
  ASSUME SessionTypes, QueueInv, SessionTypes', run.todo = <<>>,
         run'.at \in {"prompts", "turn"} \/ run'.todo = <<>>,
         \/ UNCHANGED queues /\ run'.todo = <<>>
         \/ steering' = Remaining(Mode, steering) /\ run'.todo = Drained(Mode, steering) /\ UNCHANGED followUp
         \/ followUp' = Remaining(Mode, followUp) /\ run'.todo = Drained(Mode, followUp) /\ UNCHANGED steering,
         UNCHANGED <<shownSteering, shownFollowUp, msgs>>, clock <= clock', deaf => deaf'
  PROVE  QueueInv'
<1>0. clock \in Nat /\ clock' \in Nat /\ UserIds(<<>>) = {}
  BY DEF SessionTypes, UserIds
<1>1. /\ UserIds(steering) = UserIds(Drained(Mode, steering)) \union UserIds(Remaining(Mode, steering))
      /\ OnceUser(Remaining(Mode, steering))
      /\ UserIds(Drained(Mode, steering)) \intersect UserIds(Remaining(Mode, steering)) = {}
      /\ UserIds(followUp) = UserIds(Drained(Mode, followUp)) \union UserIds(Remaining(Mode, followUp))
      /\ OnceUser(Remaining(Mode, followUp))
      /\ UserIds(Drained(Mode, followUp)) \intersect UserIds(Remaining(Mode, followUp)) = {}
  BY UserIdsDrained DEF SessionTypes, QueueInv
<1>2. /\ OnceUser(steering') /\ OnceUser(followUp')
      /\ UserIds(steering') \subseteq UserIds(steering) /\ UserIds(followUp') \subseteq UserIds(followUp)
      /\ Queued \union UserIds(run.todo) \subseteq Queued' \union UserIds(run'.todo)
      /\ \A n \in UserIds(run'.todo) : n \notin Queued' /\ n \in Queued
  <2>1. CASE UNCHANGED queues /\ run'.todo = <<>>
    BY <1>0, <2>1 DEF QueueInv, Queued, queues
  <2>2. CASE steering' = Remaining(Mode, steering) /\ run'.todo = Drained(Mode, steering) /\ UNCHANGED followUp
    BY <1>0, <1>1, <2>2 DEF QueueInv, Queued
  <2>3. CASE followUp' = Remaining(Mode, followUp) /\ run'.todo = Drained(Mode, followUp) /\ UNCHANGED steering
    BY <1>0, <1>1, <2>3 DEF QueueInv, Queued
  <2> QED
    BY <2>1, <2>2, <2>3
<1>3. Queued \subseteq Nat /\ \A p \in Prompters : UserIds(msgs[p]) \subseteq Nat
  BY QueueIdsTyped DEF Queued
<1>4. \A n \in UserIds(run'.todo) : n < clock' /\ n \notin Queued'
  <2>1. \A n \in Queued : n < clock /\ n \in Nat
    BY <1>3 DEF QueueInv
  <2>2. \A n \in Queued : n < clock'
    BY <1>0, <2>1
  <2> QED
    BY <1>2, <2>2
<1>5. \A p \in Prompters : \A n \in UserIds(msgs'[p]) :
        n < clock' /\ (n \in UserIds(msgs[p]) \/ n >= clock)
  <2>1. SUFFICES ASSUME NEW p \in Prompters, NEW n \in UserIds(msgs[p]) PROVE n < clock'
    OBVIOUS
  <2>2. n < clock /\ n \in Nat
    BY <1>3 DEF QueueInv
  <2> QED
    BY <1>0, <2>2
<1> QED
  BY <1>2, <1>4, <1>5, QueueMoves

\* Steps that leave queues and run alone, but for the time and the callers.
LEMMA QueueStays ==
  ASSUME SessionTypes, QueueInv, SessionTypes',
         UNCHANGED <<steering, followUp, shownSteering, shownFollowUp>>,
         run'.todo = run.todo, run'.at = run.at, clock <= clock', deaf => deaf',
         \A p \in Prompters : \A n \in UserIds(msgs'[p]) :
           n < clock' /\ (n \in UserIds(msgs[p]) \/ n >= clock)
  PROVE  QueueInv'
<1>1. clock \in Nat /\ clock' \in Nat /\ UserIds(run.todo) \subseteq Nat
  BY QueueIdsTyped DEF SessionTypes
<1>2. Queued' = Queued
  BY DEF Queued
<1>3. \A n \in UserIds(run'.todo) : n < clock' /\ n \notin Queued'
  BY <1>1, <1>2 DEF QueueInv
<1>4. /\ OnceUser(steering') /\ OnceUser(followUp') /\ (run'.at \notin {"prompts", "turn"} => run'.todo = <<>>)
      /\ Queued \union UserIds(run.todo) \subseteq Queued' \union UserIds(run'.todo)
  BY <1>2 DEF QueueInv
<1> QED
  BY <1>3, <1>4, QueueMoves

LEMMA OldMessages ==
  ASSUME SessionTypes, QueueInv, SessionTypes', UNCHANGED msgs, clock <= clock'
  PROVE  \A p \in Prompters : \A n \in UserIds(msgs'[p]) :
           n < clock' /\ (n \in UserIds(msgs[p]) \/ n >= clock)
<1>1. clock \in Nat /\ clock' \in Nat /\ \A p \in Prompters : UserIds(msgs[p]) \subseteq Nat
  BY QueueIdsTyped DEF SessionTypes
<1>2. SUFFICES ASSUME NEW p \in Prompters, NEW n \in UserIds(msgs[p]) PROVE n < clock'
  OBVIOUS
<1>3. n < clock /\ n \in Nat
  BY <1>1 DEF QueueInv
<1> QED
  BY <1>1, <1>3

\* A message that comes, one that is announced, and the queues being cleared.
LEMMA QueueTakes ==
  ASSUME SessionTypes, QueueInv, SessionTypes', NEW content \in Contents,
         Steer(content) \/ FollowUp(content)
  PROVE  QueueInv'
<1> DEFINE m == Message("user", content, clock)
<1>1. m \in Loose /\ m.role = "user" /\ m.id = clock /\ clock \in Nat /\ clock' = clock + 1
  <2>1. clock \in Nat
    BY DEF SessionTypes
  <2>2. clock' = clock + 1
    BY DEF Steer, FollowUp, Sends
  <2> QED
    BY <2>1, <2>2, Made, Fields
<1>2. /\ UNCHANGED <<run, msgs, deaf>>
      /\ \/ /\ steering' = Append(steering, m) /\ followUp' = followUp
            /\ shownSteering' = Append(shownSteering, clock) /\ shownFollowUp' = shownFollowUp
         \/ /\ followUp' = Append(followUp, m) /\ steering' = steering
            /\ shownFollowUp' = Append(shownFollowUp, clock) /\ shownSteering' = shownSteering
  BY DEF Steer, FollowUp, calls, history
<1> HIDE DEF m
<1>3. /\ UserIds(Append(steering, m)) = UserIds(steering) \union {clock}
      /\ UserIds(Append(followUp, m)) = UserIds(followUp) \union {clock}
      /\ clock \notin UserIds(steering) => OnceUser(Append(steering, m))
      /\ clock \notin UserIds(followUp) => OnceUser(Append(followUp, m))
  BY <1>1, UserIdsOf DEF SessionTypes, QueueInv
<1>4. /\ Range(Append(shownSteering, clock)) = Range(shownSteering) \union {clock}
      /\ Range(Append(shownFollowUp, clock)) = Range(shownFollowUp) \union {clock}
      /\ clock \notin Range(shownSteering) => Once(Append(shownSteering, clock))
      /\ clock \notin Range(shownFollowUp) => Once(Append(shownFollowUp, clock))
  BY <1>1, RangeAppended DEF SessionTypes, QueueInv
<1>5. clock \notin Queued \union UserIds(run.todo) \union Mirror
  BY <1>1 DEF QueueInv
<1>6. Queued' = Queued \union {clock} /\ Mirror' = Mirror \union {clock}
  BY <1>2, <1>3, <1>4 DEF Queued, Mirror
<1>7. /\ Queued \subseteq Nat /\ UserIds(run.todo) \subseteq Nat /\ Mirror \subseteq Nat
      /\ \A p \in Prompters : UserIds(msgs[p]) \subseteq Nat
  BY QueueIdsTyped DEF Queued, Mirror
<1>8. \A n \in Queued' \union UserIds(run'.todo) \union Mirror' : n < clock'
  <2>1. SUFFICES ASSUME NEW n \in (Queued \union UserIds(run.todo) \union Mirror) \union {clock} PROVE n < clock'
    BY <1>2, <1>6
  <2>2. n = clock \/ (n \in Nat /\ n < clock)
    BY <1>7 DEF QueueInv
  <2> QED
    BY <1>1, <2>2
<1>9. \A p \in Prompters : \A n \in UserIds(msgs'[p]) : n < clock' /\ n \notin Queued'
  <2>1. SUFFICES ASSUME NEW p \in Prompters, NEW n \in UserIds(msgs[p]) PROVE n < clock' /\ n \notin Queued'
    BY <1>2
  <2>2. n \in Nat /\ n < clock /\ n \notin Queued
    BY <1>7 DEF QueueInv
  <2> QED
    BY <1>1, <1>6, <2>2
<1>10. /\ OnceUser(steering') /\ OnceUser(followUp') /\ Once(shownSteering') /\ Once(shownFollowUp')
       /\ UserIds(steering') \intersect UserIds(followUp') = {}
       /\ Range(shownSteering') \intersect Range(shownFollowUp') = {}
  <2>1. /\ clock \notin UserIds(steering) /\ clock \notin UserIds(followUp)
        /\ clock \notin Range(shownSteering) /\ clock \notin Range(shownFollowUp)
    BY <1>5 DEF Queued, Mirror
  <2>2. /\ OnceUser(steering) /\ OnceUser(followUp) /\ Once(shownSteering) /\ Once(shownFollowUp)
        /\ UserIds(steering) \intersect UserIds(followUp) = {}
        /\ Range(shownSteering) \intersect Range(shownFollowUp) = {}
    BY DEF QueueInv
  <2>3. CASE /\ steering' = Append(steering, m) /\ followUp' = followUp
             /\ shownSteering' = Append(shownSteering, clock) /\ shownFollowUp' = shownFollowUp
    BY <1>3, <1>4, <2>1, <2>2, <2>3
  <2>4. CASE /\ followUp' = Append(followUp, m) /\ steering' = steering
             /\ shownFollowUp' = Append(shownFollowUp, clock) /\ shownSteering' = shownSteering
    BY <1>3, <1>4, <2>1, <2>2, <2>4
  <2> QED
    BY <1>2, <2>3, <2>4
<1>11. /\ UserIds(run'.todo) \intersect Queued' = {} /\ Queued' \subseteq Mirror'
       /\ run'.at \notin {"prompts", "turn"} => run'.todo = <<>>
       /\ "image" \notin Contents /\ ~deaf' => Mirror' \subseteq Queued' \union UserIds(run'.todo)
  BY <1>2, <1>5, <1>6 DEF QueueInv
<1> QED
  BY <1>8, <1>9, <1>10, <1>11 DEF QueueInv

LEMMA QueueAnnounces ==
  ASSUME SessionTypes, QueueInv, SessionTypes', Announce
  PROVE  QueueInv'
<1> DEFINE m == Head(run.todo)
<1>1. /\ m \in Loose /\ run.todo # <<>> /\ run.todo \in Seq(Loose) /\ run'.todo = Tail(run.todo)
      /\ run'.at = run.at /\ run.at \in {"prompts", "turn"}
      /\ UNCHANGED <<steering, followUp, msgs, clock>> /\ Unshow(m) /\ deaf' = (deaf \/ ~connected)
  BY Announced DEF Announce, Finished, SessionTypes, RunRecords, queues, calls
<1>2. UserIds(run.todo) = UserIds(<<m>>) \union UserIds(Tail(run.todo))
  BY <1>1, UserIdsSplit
<1> HIDE DEF m
<1>3. /\ UserIds(<<m>>) = IF m.role = "user" THEN {m.id} ELSE {}
      /\ m.id \in Nat
  <2>1. m \in Messages
    BY <1>1 DEF Loose
  <2> QED
    BY <1>1, <2>1, UserIdsOf, MessageFields
<1>4. Queued' = Queued /\ UserIds(run'.todo) \subseteq UserIds(run.todo)
  BY <1>1, <1>2 DEF Queued
<1>5. CASE connected /\ m.role = "user" /\ m.kind = "text"
  <2>1. /\ shownSteering' = RemoveFirst(shownSteering, m.id)
        /\ shownFollowUp' = IF Contains(shownSteering, m.id) THEN shownFollowUp
                            ELSE RemoveFirst(shownFollowUp, m.id)
    BY <1>1, <1>5 DEF Unshow
  <2>2. /\ Range(RemoveFirst(shownSteering, m.id)) = Range(shownSteering) \ {m.id}
        /\ Once(RemoveFirst(shownSteering, m.id))
        /\ Range(RemoveFirst(shownFollowUp, m.id)) = Range(shownFollowUp) \ {m.id}
        /\ Once(RemoveFirst(shownFollowUp, m.id))
    BY <1>3, RangeRemoved DEF SessionTypes, QueueInv
  <2>3. Contains(shownSteering, m.id) => m.id \in Range(shownSteering)
    <3>1. shownSteering \in Seq(Nat)
      BY DEF SessionTypes
    <3>2. DOMAIN shownSteering = 1..Len(shownSteering)
      BY <3>1
    <3> QED
      BY <3>2 DEF Contains, Range
  <2>4. /\ Range(shownSteering') = Range(shownSteering) \ {m.id}
        /\ Range(shownFollowUp') = Range(shownFollowUp) \ {m.id}
        /\ Once(shownSteering') /\ Once(shownFollowUp')
    BY <2>1, <2>2, <2>3 DEF QueueInv
  <2>5. Mirror' = Mirror \ {m.id}
    BY <2>4 DEF Mirror
  <2>6. m.id \notin Queued /\ UserIds(run.todo) = {m.id} \union UserIds(run'.todo)
    BY <1>1, <1>2, <1>3, <1>5 DEF QueueInv
  <2>7. Queued' \subseteq Mirror'
    BY <1>4, <2>5, <2>6 DEF QueueInv
  <2>8. "image" \notin Contents /\ ~deaf' => Mirror' \subseteq Queued' \union UserIds(run'.todo)
    BY <1>1, <1>4, <2>5, <2>6 DEF QueueInv
  <2>9. /\ \A n \in Queued' \union UserIds(run'.todo) \union Mirror' : n < clock'
        /\ \A p \in Prompters : \A n \in UserIds(msgs'[p]) : n < clock' /\ n \notin Queued'
    BY <1>1, <1>4, <2>5 DEF QueueInv
  <2>10. UserIds(run'.todo) \intersect Queued' = {}
    BY <1>4 DEF QueueInv
  <2>11. /\ OnceUser(steering') /\ OnceUser(followUp') /\ UserIds(steering') \intersect UserIds(followUp') = {}
         /\ Range(shownSteering') \intersect Range(shownFollowUp') = {}
         /\ run'.at \notin {"prompts", "turn"} => run'.todo = <<>>
    BY <1>1, <2>4 DEF QueueInv
  <2> QED
    BY <2>4, <2>7, <2>8, <2>9, <2>10, <2>11 DEF QueueInv
<1>6. CASE ~(connected /\ m.role = "user" /\ m.kind = "text")
  <2>1. UNCHANGED <<shownSteering, shownFollowUp>> /\ Mirror' = Mirror
    BY <1>1, <1>6 DEF Unshow, Mirror
  <2>2. "image" \notin Contents /\ ~deaf' => m.role # "user"
    <3>1. m.kind \in Contents \union {"text"}
      BY <1>1 DEF Loose
    <3> QED
      BY <1>1, <1>6, <3>1, SessionAssumption
  <2>3. "image" \notin Contents /\ ~deaf' => Mirror' \subseteq Queued' \union UserIds(run'.todo)
    BY <1>1, <1>2, <1>3, <1>4, <2>1, <2>2 DEF QueueInv
  <2>4. /\ \A n \in Queued' \union UserIds(run'.todo) \union Mirror' : n < clock'
        /\ \A p \in Prompters : \A n \in UserIds(msgs'[p]) : n < clock' /\ n \notin Queued'
    BY <1>1, <1>4, <2>1 DEF QueueInv
  <2>5. UserIds(run'.todo) \intersect Queued' = {} /\ Queued' \subseteq Mirror'
    BY <1>4, <2>1 DEF QueueInv
  <2>6. /\ OnceUser(steering') /\ OnceUser(followUp') /\ UserIds(steering') \intersect UserIds(followUp') = {}
        /\ Once(shownSteering') /\ Once(shownFollowUp')
        /\ Range(shownSteering') \intersect Range(shownFollowUp') = {}
        /\ run'.at \notin {"prompts", "turn"} => run'.todo = <<>>
    BY <1>1, <2>1 DEF QueueInv
  <2> QED
    BY <2>3, <2>4, <2>5, <2>6 DEF QueueInv
<1> QED
  BY <1>5, <1>6

LEMMA QueueClears ==
  ASSUME SessionTypes, QueueInv, SessionTypes', ClearQueue
  PROVE  QueueInv'
<1>1. /\ steering' = <<>> /\ followUp' = <<>> /\ shownSteering' = <<>> /\ shownFollowUp' = <<>>
      /\ UNCHANGED <<run, msgs, clock, deaf>>
  BY DEF ClearQueue, calls, history
<1>2. UserIds(<<>>) = {} /\ OnceUser(<<>>) /\ Range(<<>>) = {} /\ Once(<<>>)
  BY DEF UserIds, OnceUser, Range, Once
<1>3. Queued' = {} /\ Mirror' = {}
  BY <1>1, <1>2 DEF Queued, Mirror
<1> QED
  BY <1>1, <1>2, <1>3 DEF QueueInv

LEMMA QueueEnds ==
  ASSUME SessionTypes, QueueInv, SessionTypes', NEW p \in Prompters, EndStep(p)
  PROVE  QueueInv'
<1>1. PICK ctx, entries : GoesOn(p, ctx, entries)
  BY Ends DEF Outcome
<1>2. /\ pc[p] = "running" => run.at = "ending"
      /\ UNCHANGED <<shownSteering, shownFollowUp, msgs, deaf>>
      /\ clock' \in {clock, clock + 1} /\ clock \in Nat
  BY Ends DEF shown, SessionTypes
<1>3. clock <= clock'
  BY <1>2
<1>4. pc[p] = "running" => run.todo = <<>>
  BY <1>2 DEF QueueInv
<1>5. CASE Continues(p, ctx, entries)
  <2>1. run.todo = <<>>
    <3>1. run.at = "none" \/ pc[p] = "running"
      BY <1>5 DEF Continues, Released
    <3> QED
      BY <1>4, <3>1 DEF QueueInv
  <2>2. /\ run'.at = "prompts"
        /\ \/ UNCHANGED queues /\ run'.todo = <<>>
           \/ steering' = Remaining(Mode, steering) /\ run'.todo = Drained(Mode, steering) /\ UNCHANGED followUp
           \/ followUp' = Remaining(Mode, followUp) /\ run'.todo = Drained(Mode, followUp) /\ UNCHANGED steering
    BY <1>5 DEF Continues, NewRun
  <2> QED
    BY <1>2, <1>3, <2>1, <2>2, QueueDrains
<1>6. CASE Rests(p, ctx, entries) \/ Compacts(p, ctx)
  <2>1. run' = Released(p) /\ UNCHANGED queues
    BY <1>6 DEF Rests, Compacts
  <2>2. CASE pc[p] = "running"
    BY <1>2, <1>3, <1>4, <2>1, <2>2, QueueDrains DEF Released, NoRun
  <2>3. CASE pc[p] # "running"
    <3>1. run' = run
      BY <2>1, <2>3 DEF Released
    <3> QED
      BY <1>2, <1>3, <2>1, <3>1, OldMessages, QueueStays DEF queues
  <2> QED
    BY <2>2, <2>3
<1> QED
  BY <1>1, <1>5, <1>6 DEF GoesOn

\* A call's own messages, when it builds them and when its run takes them.
LEMMA QueueBuilds ==
  ASSUME SessionTypes, QueueInv, SessionTypes', NEW p \in Prompters, NEW n \in Nat,
         msgs' = [msgs EXCEPT ![p] = <<Message("user", "text", n)>> \o nextTurn],
         clock <= n, n < clock',
         UNCHANGED <<steering, followUp, shownSteering, shownFollowUp, run, deaf>>
  PROVE  QueueInv'
<1>1. clock \in Nat /\ clock' \in Nat
  BY DEF SessionTypes
<1>2. UserIds(msgs'[p]) = {n}
  BY UserIdsBuilt DEF SessionTypes
<1>3. \A q \in Prompters : q # p => msgs'[q] = msgs[q]
  BY DEF SessionTypes
<1>4. ASSUME NEW q \in Prompters, NEW k \in UserIds(msgs'[q])
      PROVE  k < clock' /\ (k \in UserIds(msgs[q]) \/ k >= clock)
  <2>1. CASE q = p
    BY <1>1, <1>2, <1>4, <2>1
  <2>2. CASE q # p
    <3>1. k \in UserIds(msgs[q]) /\ k \in Nat /\ k < clock
      BY <1>3, <1>4, <2>2, QueueIdsTyped DEF QueueInv
    <3> QED
      BY <1>1, <3>1
  <2> QED
    BY <2>1, <2>2
<1> QED
  BY <1>1, <1>4, QueueStays

LEMMA QueueRuns ==
  ASSUME SessionTypes, QueueInv, SessionTypes', NEW p \in Prompters, NEW todo \in Seq(Loose), Runs(p, todo),
         \A n \in UserIds(todo) : n < clock' /\ n \notin Queued, clock <= clock'
  PROVE  QueueInv'
<1>1. /\ clock \in Nat /\ clock' \in Nat /\ UserIds(<<>>) = {}
      /\ UNCHANGED <<steering, followUp, shownSteering, shownFollowUp, deaf>>
      /\ msgs' = [msgs EXCEPT ![p] = <<>>]
  BY DEF SessionTypes, UserIds, Runs, queues, shown
<1>2. ASSUME NEW q \in Prompters, NEW k \in UserIds(msgs'[q])
      PROVE  k < clock' /\ (k \in UserIds(msgs[q]) \/ k >= clock)
  <2>1. q # p /\ msgs'[q] = msgs[q]
    BY <1>1, <1>2 DEF SessionTypes
  <2>2. k \in UserIds(msgs[q]) /\ k \in Nat /\ k < clock
    BY <1>2, <2>1, QueueIdsTyped DEF QueueInv
  <2> QED
    BY <1>1, <2>2
<1>3. CASE run.at = "none" /\ run' = NewRun(todo, FALSE)
  <2>1. run.todo = <<>> /\ run'.todo = todo /\ run'.at = "prompts"
    BY <1>3 DEF QueueInv, NewRun
  <2>2. /\ OnceUser(steering') /\ OnceUser(followUp') /\ Queued' = Queued
        /\ Queued \union UserIds(run.todo) \subseteq Queued' \union UserIds(run'.todo)
    BY <1>1, <2>1 DEF QueueInv, Queued
  <2> QED
    BY <1>1, <1>2, <2>1, <2>2, QueueMoves
<1>4. CASE UNCHANGED run
  BY <1>1, <1>2, <1>4, QueueStays
<1> QED
  BY <1>3, <1>4 DEF Runs

LEMMA QueueSteps ==
  ASSUME SessionTypes, SavingTypes, QueueInv, [Next]_vars
  PROVE  QueueInv'
<1> USE DEF queues, shown, records, retries, calls, manual, history, bounds
<1>0. SessionTypes' /\ clock \in Nat /\ UserIds(<<>>) = {}
  <2>1. clock \in Nat
    BY DEF SessionTypes
  <2>2. UserIds(<<>>) = {}
    BY DEF UserIds
  <2> QED
    BY <2>1, <2>2, Types
<1>1. ASSUME NEW p \in Prompters, Submit(p) PROVE QueueInv'
  <2>1. UNCHANGED <<steering, followUp, shownSteering, shownFollowUp, run, deaf>>
    BY <1>1 DEF Submit
  <2>2. CASE UNCHANGED <<msgs, clock>>
    <3>1. clock <= clock'
      BY <1>0, <2>2
    <3> QED
      BY <1>0, <2>1, <2>2, <3>1, OldMessages, QueueStays
  <2>3. CASE Build(p)
    <3>1. clock <= clock /\ clock < clock'
      BY <1>0, <2>3 DEF Build
    <3> QED
      BY <1>0, <2>1, <2>3, <3>1, QueueBuilds DEF Build
  <2> QED
    BY <1>1, <2>2, <2>3 DEF Submit
<1>2. ASSUME NEW p \in Prompters, SendTrigger(p) PROVE QueueInv'
  <2> DEFINE m == Message("custom", "text", clock)
  <2>1. m \in Loose /\ m.role = "custom"
    BY <1>0, Made, Fields
  <2>2. Runs(p, <<m>>) /\ clock' = clock + 1
    BY <1>2 DEF SendTrigger
  <2> HIDE DEF m
  <2>3. <<m>> \in Seq(Loose) /\ UserIds(<<m>>) = {}
    <3>1. <<>> \in Seq(Loose)
      OBVIOUS
    <3>2. UserIds(<<m>>) = {}
      BY <2>1, <3>1, UserIdsOf
    <3> QED
      BY <2>1, <3>2
  <2>4. clock <= clock'
    BY <1>0, <2>2
  <2> QED
    BY <1>0, <2>2, <2>3, <2>4, QueueRuns
<1>3. ASSUME NEW p \in Prompters, Run(p) PROVE QueueInv'
  <2>1. Runs(p, msgs[p]) /\ clock' = clock /\ msgs[p] \in Seq(Loose)
    BY <1>3 DEF Run, SessionTypes
  <2>2. clock <= clock' /\ \A n \in UserIds(msgs[p]) : n < clock' /\ n \notin Queued
    BY <1>0, <2>1 DEF QueueInv
  <2> QED
    BY <1>0, <2>1, <2>2, QueueRuns
<1>4. ASSUME NEW p \in Prompters, PreflightDone(p) PROVE QueueInv'
  <2>1. UNCHANGED <<steering, followUp, shownSteering, shownFollowUp, run, deaf>>
    BY <1>4 DEF PreflightDone
  <2>2. \/ /\ msgs' = [msgs EXCEPT ![p] = <<Message("user", "text", clock)>> \o nextTurn]
           /\ clock' = clock + 1
        \/ /\ msgs' = [msgs EXCEPT ![p] = <<Message("user", "text", clock + 1)>> \o nextTurn]
           /\ clock' = clock + 2
    BY <1>4 DEF PreflightDone
  <2>3. /\ clock <= clock /\ clock < clock + 1 /\ clock <= clock + 1 /\ clock + 1 < clock + 2
        /\ clock + 1 \in Nat
    BY <1>0
  <2>4. CASE /\ msgs' = [msgs EXCEPT ![p] = <<Message("user", "text", clock)>> \o nextTurn]
             /\ clock' = clock + 1
    BY <1>0, <2>1, <2>3, <2>4, QueueBuilds
  <2>5. CASE /\ msgs' = [msgs EXCEPT ![p] = <<Message("user", "text", clock + 1)>> \o nextTurn]
             /\ clock' = clock + 2
    BY <1>0, <2>1, <2>3, <2>5, QueueBuilds
  <2> QED
    BY <2>2, <2>4, <2>5
<1>5. ASSUME UNCHANGED <<steering, followUp, shownSteering, shownFollowUp, msgs>>,
             run'.todo = run.todo, run'.at = run.at, clock' \in {clock, clock + 1}, deaf => deaf'
      PROVE  QueueInv'
  <2>1. clock <= clock'
    BY <1>0, <1>5
  <2> QED
    BY <1>0, <1>5, <2>1, OldMessages, QueueStays
<1>6. ASSUME NEW p \in Prompters, Settled(p) PROVE QueueInv'
  BY <1>5, <1>6 DEF Settled
<1>7. ASSUME NEW p \in Prompters, RunUnheard(p) \/ Retry(p) PROVE QueueInv'
  <2>1. /\ run.at = "ending" /\ run' = NoRun /\ deaf' = deaf
        /\ UNCHANGED <<steering, followUp, shownSteering, shownFollowUp, msgs, clock>>
    BY <1>7 DEF RunUnheard, Retry, RunIsOver
  <2>2. run.todo = <<>> /\ run'.todo = <<>> /\ clock <= clock'
    BY <1>0, <2>1 DEF QueueInv, NoRun
  <2> QED
    BY <1>0, <2>1, <2>2, QueueDrains
<1>8. ASSUME NEW p \in Prompters, CallStep(p) PROVE QueueInv'
  BY <1>0, <1>3, <1>4, <1>6, <1>7, <1>8, QueueEnds DEF CallStep, EndStep
<1>9. ASSUME Poll PROVE QueueInv'
  <2>1. /\ run.todo = <<>> /\ run'.at = "turn" /\ UNCHANGED <<shownSteering, shownFollowUp, msgs, clock, deaf>>
        /\ \/ UNCHANGED queues /\ run'.todo = <<>>
           \/ steering' = Remaining(Mode, steering) /\ run'.todo = Drained(Mode, steering) /\ UNCHANGED followUp
    BY <1>9 DEF Poll, SessionTypes, RunRecords
  <2>2. clock <= clock'
    BY <1>0, <2>1
  <2> QED
    BY <1>0, <2>1, <2>2, QueueDrains
<1>10. ASSUME NEW kind \in Replies \union {"stop"}, Reply(kind) PROVE QueueInv'
  <2>1. /\ run.todo = <<>> /\ run'.todo = <<>> /\ UNCHANGED <<queues, shownSteering, shownFollowUp, msgs>>
        /\ clock' = clock + 1 /\ (deaf => deaf')
    BY <1>10 DEF Reply, Finished, SessionTypes, RunRecords
  <2>2. clock <= clock'
    BY <1>0, <2>1
  <2> QED
    BY <1>0, <2>1, <2>2, QueueDrains
<1>11. ASSUME ToolResult PROVE QueueInv'
  <2>1. /\ run.at = "tools" /\ run'.at = "prompts" /\ run'.todo = run.todo
        /\ UNCHANGED <<queues, shownSteering, shownFollowUp, msgs>>
        /\ clock' = clock + 1 /\ (deaf => deaf')
    BY <1>11 DEF ToolResult, Finished, SessionTypes, RunRecords
  <2>2. clock <= clock' /\ run.todo = <<>>
    BY <1>0, <2>1 DEF QueueInv
  <2> QED
    BY <1>0, <2>1, <2>2, QueueDrains
<1>12. ASSUME Stopping PROVE QueueInv'
  <2>1. /\ run.at = "stopping" /\ UNCHANGED <<shownSteering, shownFollowUp, msgs, clock, deaf>>
        /\ run'.at \in {"prompts", "turn"} \/ run'.todo = <<>>
        /\ \/ steering' = Remaining(Mode, steering) /\ run'.todo = Drained(Mode, steering) /\ UNCHANGED followUp
           \/ followUp' = Remaining(Mode, followUp) /\ run'.todo = Drained(Mode, followUp) /\ UNCHANGED steering
    BY <1>12 DEF Stopping, SessionTypes, RunRecords, Drained
  <2>2. clock <= clock' /\ run.todo = <<>>
    BY <1>0, <2>1 DEF QueueInv
  <2> QED
    BY <1>0, <2>1, <2>2, QueueDrains
<1>13. ASSUME QueueCustom PROVE QueueInv'
  <2> DEFINE m == Message("custom", "text", clock)
  <2>1. m \in Loose /\ m.role = "custom"
    BY <1>0, Made, Fields
  <2>2. /\ UNCHANGED <<run, shownSteering, shownFollowUp, msgs, deaf>> /\ clock' = clock + 1
        /\ \/ steering' = Append(steering, m) /\ followUp' = followUp
           \/ followUp' = Append(followUp, m) /\ steering' = steering
    BY <1>13 DEF QueueCustom, Sends
  <2> HIDE DEF m
  <2>3. /\ UserIds(steering') = UserIds(steering) /\ UserIds(followUp') = UserIds(followUp)
        /\ OnceUser(steering') /\ OnceUser(followUp')
    <3>1. m.role # "user"
      BY <2>1
    <3>2. /\ steering \in Seq(Loose) /\ followUp \in Seq(Loose)
          /\ OnceUser(steering) /\ OnceUser(followUp)
      BY DEF SessionTypes, QueueInv
    <3>3. /\ UserIds(Append(steering, m)) = UserIds(steering) /\ OnceUser(Append(steering, m))
          /\ UserIds(Append(followUp, m)) = UserIds(followUp) /\ OnceUser(Append(followUp, m))
      BY <2>1, <3>1, <3>2, UserIdsOf
    <3> QED
      BY <2>2, <3>2, <3>3
  <2>4. clock <= clock'
    BY <1>0, <2>2
  <2>5. Queued' = Queued /\ \A n \in UserIds(run'.todo) : n < clock' /\ n \notin Queued'
    <3>1. Queued' = Queued
      BY <2>3 DEF Queued
    <3>2. SUFFICES ASSUME NEW n \in UserIds(run.todo) PROVE n < clock' /\ n \notin Queued
      BY <2>2, <3>1
    <3>3. n \in Nat /\ n < clock /\ n \notin Queued
      BY QueueIdsTyped DEF QueueInv
    <3> QED
      BY <1>0, <2>2, <3>3
  <2>6. run'.at \notin {"prompts", "turn"} => run'.todo = <<>>
    BY <2>2 DEF QueueInv
  <2>7. \A p \in Prompters : \A n \in UserIds(msgs'[p]) : n < clock' /\ (n \in UserIds(msgs[p]) \/ n >= clock)
    BY <1>0, <2>2, <2>4, OldMessages
  <2> QED
    BY <1>0, <2>2, <2>3, <2>4, <2>5, <2>6, <2>7, QueueMoves
<1>14. ASSUME Note \/ PushNextTurn \/ BashDone PROVE QueueInv'
  BY <1>5, <1>14 DEF Note, PushNextTurn, BashDone, Sends
<1>15. ASSUME NEW w, Aborts(w) PROVE run'.todo = run.todo /\ run'.at = run.at
  BY <1>15 DEF Aborts, SessionTypes, RunRecords
<1>16. ASSUME NEW w \in Waiters, Abort(w) \/ Wait(w) PROVE QueueInv'
  BY <1>5, <1>15, <1>16 DEF Abort, Wait
<1>17. ASSUME Compact \/ CompactPrepares \/ CompactEnds PROVE QueueInv'
  BY <1>5, <1>15, <1>17 DEF Compact, CompactPrepares, CompactEnds
<1>18. ASSUME UNCHANGED vars PROVE QueueInv'
  BY <1>5, <1>18 DEF vars
<1>21. ASSUME Save PROVE QueueInv'
  BY <1>5, <1>21 DEF Save
<1>19. ASSUME RunStep PROVE QueueInv'
  BY <1>0, <1>9, <1>10, <1>11, <1>12, <1>19, <1>21, QueueAnnounces DEF RunStep
<1>20. ASSUME Outside PROVE QueueInv'
  BY <1>0, <1>13, <1>14, <1>16, <1>20, QueueTakes, QueueClears DEF Outside
<1> QED
  BY <1>1, <1>2, <1>8, <1>17, <1>18, <1>19, <1>20 DEF Next

LEMMA QueueStarts ==
  ASSUME Init
  PROVE  QueueInv
<1>1. UserIds(<<>>) = {} /\ OnceUser(<<>>) /\ Range(<<>>) = {} /\ Once(<<>>)
  BY DEF UserIds, OnceUser, Range, Once
<1>2. Queued = {} /\ Mirror = {}
  BY <1>1 DEF Init, Queued, Mirror
<1> QED
  BY <1>1, <1>2 DEF Init, QueueInv, NoRun

\* What is shown as pending is still to be delivered, and what is queued is
\* shown, if every message that is queued has a text to find it by.
THEOREM SessionQueuesAreShown ==
  ASSUME "image" \notin Contents
  PROVE  Spec => []QueuesAreShown
<1>1. Init => SessionTypes /\ SavingTypes /\ QueueInv
  BY IdleStarts, QueueStarts
<1>2. SessionTypes /\ SavingTypes /\ QueueInv /\ [Next]_vars
        => (SessionTypes /\ SavingTypes /\ QueueInv)'
  BY Types, SavingKept, QueueSteps
<1>3. SessionTypes /\ QueueInv => QueuesAreShown
  <2> SUFFICES ASSUME SessionTypes, QueueInv PROVE QueuesAreShown
    OBVIOUS
  <2>1. {m.id : m \in QueuedUsers} = Queued
    BY DEF QueuedUsers, Queued, UserIds
  <2>2. {m.id : m \in Pending} = Queued \union UserIds(run.todo)
    BY DEF Pending, Queued, UserIds
  <2>3. ShownIds = Mirror
    BY DEF ShownIds, Mirror, Range
  <2> QED
    BY <2>1, <2>2, <2>3 DEF QueueInv, QueuesAreShown
<1> QED
  BY <1>1, <1>2, <1>3, PTL DEF Spec

-----------------------------------------------------------------------------
(* The context is what the session would rebuild.                          *)

\* How the answers of s are gathered, n messages looked at.
Gathers(f, s, N) ==
  /\ DOMAIN f = 0..N /\ f[0] = <<>>
  /\ \A n \in 1..N : f[n] = IF Answered(s[n]) THEN Append(f[n - 1], s[n]) ELSE f[n - 1]

LEMMA GathersExists ==
  ASSUME NEW s, NEW M \in Nat
  PROVE  \E f : f = [n \in 0..M |-> IF n = 0 THEN <<>>
                                    ELSE IF Answered(s[n]) THEN Append(f[n - 1], s[n]) ELSE f[n - 1]]
<1> DEFINE Body(f, n) == IF n = 0 THEN <<>>
                         ELSE IF Answered(s[n]) THEN Append(f[n - 1], s[n]) ELSE f[n - 1]
           S == {N \in Nat : ~\E f : f = [n \in 0..N |-> Body(f, n)]}
<1>1. SUFFICES ASSUME S # {} PROVE FALSE
  <2>1. S = {} => \E f : f = [n \in 0..M |-> Body(f, n)]
    OBVIOUS
  <2> QED
    BY <2>1
<1>2. PICK N \in S : \A K \in S : N <= K
  <2>1. S \in SUBSET Nat
    OBVIOUS
  <2> HIDE DEF S
  <2> QED
    BY <1>1, <2>1, Least
<1>3. N \in Nat /\ ~\E f : f = [n \in 0..N |-> Body(f, n)]
  OBVIOUS
<1>4. CASE N = 0
  <2> DEFINE f == [n \in 0..0 |-> <<>>]
  <2>1. f = [n \in 0..0 |-> Body(f, n)]
    OBVIOUS
  <2> HIDE DEF Body, f
  <2> QED
    BY <1>3, <1>4, <2>1
<1>5. CASE N # 0
  <2>1. N - 1 \in Nat /\ N - 1 \notin S
    <3>1. N \in Nat
      BY <1>3
    <3>2. N - 1 \in Nat /\ ~(N <= N - 1)
      BY <1>5, <3>1
    <3> HIDE DEF S
    <3> QED
      BY <1>2, <3>2
  <2>2. PICK f : f = [n \in 0..(N - 1) |-> Body(f, n)]
    BY <2>1
  <2> DEFINE g == [n \in 0..N |-> IF n = N THEN Body(f, N) ELSE f[n]]
  <2>3. ASSUME NEW n \in 0..N
        PROVE  g[n] = Body(g, n)
    <3>1. CASE n = 0
      <4>1. g[0] = f[0] /\ f[0] = Body(f, 0) /\ n # N
        BY <1>3, <1>5, <2>2, <3>1
      <4> QED
        BY <3>1, <4>1
    <3>2. CASE n # 0
      <4>1. n - 1 \in 0..N /\ n - 1 # N /\ n \in Nat
        BY <1>3, <2>3, <3>2
      <4>2. g[n - 1] = f[n - 1]
        BY <4>1
      <4>3. Body(g, n) = Body(f, n)
        BY <3>2, <4>2
      <4>4. CASE n = N
        BY <4>3, <4>4
      <4>5. CASE n # N
        <5>1. n \in 0..(N - 1)
          BY <1>3, <4>1, <4>5
        <5>2. f[n] = Body(f, n)
          BY <2>2, <5>1
        <5>3. g[n] = f[n]
          BY <4>5
        <5> HIDE DEF Body, g
        <5> QED
          BY <4>3, <5>2, <5>3
      <4> QED
        BY <4>4, <4>5
    <3> QED
      BY <3>1, <3>2
  <2>4. DOMAIN g = 0..N /\ g = [n \in DOMAIN g |-> g[n]]
    OBVIOUS
  <2> HIDE DEF Body, g
  <2>5. g = [n \in 0..N |-> Body(g, n)]
    BY <2>3, <2>4
  <2> QED
    BY <1>3, <2>5
<1> QED
  BY <1>4, <1>5

LEMMA AnswersGather ==
  ASSUME NEW s, Len(s) \in Nat
  PROVE  \E f : Gathers(f, s, Len(s)) /\ Answers(s) = f[Len(s)]
<1> DEFINE f == CHOOSE f : f = [n \in 0..Len(s) |->
                   IF n = 0 THEN <<>> ELSE IF Answered(s[n]) THEN Append(f[n - 1], s[n]) ELSE f[n - 1]]
<1>1. f = [n \in 0..Len(s) |->
                   IF n = 0 THEN <<>> ELSE IF Answered(s[n]) THEN Append(f[n - 1], s[n]) ELSE f[n - 1]]
  BY GathersExists
<1>2. Answers(s) = f[Len(s)]
  BY DEF Answers
<1> HIDE DEF f
<1>3. DOMAIN f = 0..Len(s) /\ f[0] = <<>>
  BY <1>1
<1>4. ASSUME NEW n \in 1..Len(s)
      PROVE  f[n] = IF Answered(s[n]) THEN Append(f[n - 1], s[n]) ELSE f[n - 1]
  <2>1. n \in 0..Len(s) /\ n # 0
    OBVIOUS
  <2> QED
    BY <1>1, <2>1
<1> QED
  BY <1>2, <1>3, <1>4 DEF Gathers

LEMMA GathersSame ==
  ASSUME NEW f, NEW g, NEW s, NEW t, NEW N \in Nat, NEW M \in Nat, N <= M,
         Gathers(f, s, N), Gathers(g, t, M), \A i \in 1..N : s[i] = t[i]
  PROVE  \A n \in 0..N : f[n] = g[n]
<1> DEFINE S == {n \in 0..N : f[n] # g[n]}
<1>1. SUFFICES ASSUME S # {} PROVE FALSE
  OBVIOUS
<1>2. PICK n \in S : \A k \in S : n <= k
  <2>1. S \in SUBSET Nat
    OBVIOUS
  <2> HIDE DEF S
  <2> QED
    BY <1>1, <2>1, Least
<1>3. n \in 0..N /\ f[n] # g[n]
  OBVIOUS
<1>4. n # 0
  BY <1>3 DEF Gathers
<1>5. n \in 1..N /\ n \in 1..M /\ n - 1 \in 0..N /\ ~(n <= n - 1)
  BY <1>3, <1>4
<1>6. n - 1 \notin S
  <2> HIDE DEF S
  <2> QED
    BY <1>2, <1>5
<1>7. f[n - 1] = g[n - 1]
  BY <1>5, <1>6
<1> QED
  BY <1>3, <1>5, <1>7 DEF Gathers

LEMMA AnswersEmpty == Answers(<<>>) = <<>>
<1>1. Len(<<>>) = 0 /\ Len(<<>>) \in Nat
  OBVIOUS
<1>2. PICK f : Gathers(f, <<>>, Len(<<>>)) /\ Answers(<<>>) = f[Len(<<>>)]
  BY <1>1, AnswersGather
<1> QED
  BY <1>1, <1>2 DEF Gathers

\* The answers of a sequence, one message at a time.
LEMMA AnswersAppend ==
  ASSUME NEW s \in Seq(Messages), NEW m \in Messages
  PROVE  Answers(Append(s, m)) = IF Answered(m) THEN Append(Answers(s), m) ELSE Answers(s)
<1> DEFINE t == Append(s, m)
           n == Len(s)
<1>2. n \in Nat /\ Len(t) = n + 1 /\ Len(t) \in Nat /\ t[n + 1] = m /\ \A i \in 1..n : s[i] = t[i]
  OBVIOUS
<1> HIDE DEF t
<1>3. PICK f : Gathers(f, s, n) /\ Answers(s) = f[n]
  BY <1>2, AnswersGather
<1>4. PICK g : Gathers(g, t, Len(t)) /\ Answers(t) = g[Len(t)]
  BY <1>2, AnswersGather
<1> HIDE DEF n
<1>5. Gathers(g, t, n + 1) /\ Answers(t) = g[n + 1] /\ n + 1 \in Nat /\ n <= n + 1
  BY <1>2, <1>4
<1>6. f[n] = g[n]
  <2>1. n \in 0..n
    BY <1>2
  <2> QED
    BY <1>2, <1>3, <1>5, <2>1, GathersSame
<1>7. g[n + 1] = IF Answered(m) THEN Append(g[n], m) ELSE g[n]
  <2>1. n + 1 \in 1..(n + 1) /\ (n + 1) - 1 = n
    BY <1>2
  <2> QED
    BY <1>2, <1>5, <2>1 DEF Gathers
<1> QED
  BY <1>3, <1>5, <1>6, <1>7 DEF t

LEMMA Split ==
  ASSUME NEW s \in Seq(Messages), s # <<>>
  PROVE  /\ SubSeq(s, 1, Len(s) - 1) \in Seq(Messages) /\ s[Len(s)] \in Messages
         /\ Len(SubSeq(s, 1, Len(s) - 1)) = Len(s) - 1 /\ Len(s) - 1 \in Nat
         /\ \A i \in 1..(Len(s) - 1) : SubSeq(s, 1, Len(s) - 1)[i] = s[i]
         /\ s = Append(SubSeq(s, 1, Len(s) - 1), s[Len(s)])
<1>1. Len(s) \in Nat /\ Len(s) >= 1 /\ Len(s) - 1 \in Nat /\ s[Len(s)] \in Messages
  OBVIOUS
<1>2. 1 \in Int /\ Len(s) - 1 \in Int /\ \A i \in 1..(Len(s) - 1) : s[i] \in Messages
  BY <1>1
<1>3. /\ SubSeq(s, 1, Len(s) - 1) \in Seq(Messages)
      /\ Len(SubSeq(s, 1, Len(s) - 1)) = Len(s) - 1
      /\ \A i \in 1..(Len(s) - 1) : SubSeq(s, 1, Len(s) - 1)[i] = s[i]
  <2> DEFINE n == Len(s) - 1
  <2>1. n \in Nat /\ n \in Int /\ \A i \in 1..n : s[i] \in Messages
    BY <1>1, <1>2
  <2> HIDE DEF n
  <2>2. /\ SubSeq(s, 1, n) \in Seq(Messages)
        /\ Len(SubSeq(s, 1, n)) = IF 1 <= n THEN n - 1 + 1 ELSE 0
        /\ \A i \in 1..(n - 1 + 1) : SubSeq(s, 1, n)[i] = s[1 + i - 1]
    BY ONLY <2>1, SubSeqProperties
  <2>3. (IF 1 <= n THEN n - 1 + 1 ELSE 0) = n /\ n - 1 + 1 = n /\ \A i \in 1..n : 1 + i - 1 = i
    BY <2>1
  <2>4. SubSeq(s, 1, n) \in Seq(Messages) /\ Len(SubSeq(s, 1, n)) = n
        /\ \A i \in 1..n : SubSeq(s, 1, n)[i] = s[i]
    BY <2>2, <2>3
  <2> QED
    BY <2>4 DEF n
<1>4. s = SubSeq(s, 1, Len(s) - 1) \o <<s[Len(s)]>>
  <2>1. 1 \in 1..Len(s) /\ Len(s) \in 1..Len(s)
    BY <1>1
  <2> QED
    BY <2>1, SubSeqFull, SubSeqRecursiveSecond
<1> QED
  BY <1>1, <1>3, <1>4, AppendIsConcat

LEMMA AnswersTyped ==
  ASSUME NEW r \in Seq(Messages)
  PROVE  Answers(r) \in Seq(Messages)
<1> DEFINE S == {n \in Nat : \E s \in Seq(Messages) : Len(s) = n /\ Answers(s) \notin Seq(Messages)}
<1>1. SUFFICES ASSUME S # {} PROVE FALSE
  <2>1. Len(r) \in Nat
    OBVIOUS
  <2> QED
    BY <2>1
<1>2. PICK n \in S : \A k \in S : n <= k
  <2>1. S \in SUBSET Nat
    OBVIOUS
  <2> HIDE DEF S
  <2> QED
    BY <1>1, <2>1, Least
<1>3. PICK s \in Seq(Messages) : Len(s) = n /\ Answers(s) \notin Seq(Messages)
  OBVIOUS
<1>4. s # <<>>
  <2>1. <<>> \in Seq(Messages)
    OBVIOUS
  <2> QED
    BY <1>3, <2>1, AnswersEmpty
<1> DEFINE f == SubSeq(s, 1, Len(s) - 1)
<1>5. f \in Seq(Messages) /\ s[n] \in Messages /\ Len(f) = n - 1 /\ n - 1 \in Nat /\ s = Append(f, s[n])
  BY <1>3, <1>4, Split
<1> HIDE DEF f
<1>6. n - 1 \notin S
  <2>1. n \in Nat /\ ~(n <= n - 1)
    OBVIOUS
  <2> HIDE DEF S
  <2> QED
    BY <1>2, <2>1
<1>7. Answers(f) \in Seq(Messages)
  BY <1>5, <1>6
<1>8. Answers(s) = Append(Answers(f), s[n]) \/ Answers(s) = Answers(f)
  BY <1>5, AnswersAppend
<1>9. Append(Answers(f), s[n]) \in Seq(Messages)
  <2> DEFINE g == Answers(f)
  <2>1. g \in Seq(Messages) /\ s[n] \in Messages
    BY <1>5, <1>7
  <2> HIDE DEF g
  <2>2. Append(g, s[n]) \in Seq(Messages)
    BY <2>1, AppendProperties
  <2> QED
    BY <2>2 DEF g
<1> QED
  BY <1>3, <1>7, <1>8, <1>9

LEMMA ConcatAppend ==
  ASSUME NEW s \in Seq(Messages), NEW t \in Seq(Messages), NEW m \in Messages
  PROVE  s \o Append(t, m) = Append(s \o t, m) /\ s \o t \in Seq(Messages)
<1>1. <<m>> \in Seq(Messages) /\ s \o t \in Seq(Messages)
  OBVIOUS
<1>2. Append(t, m) = t \o <<m>> /\ Append(s \o t, m) = (s \o t) \o <<m>>
  BY <1>1, AppendIsConcat
<1>3. (s \o t) \o <<m>> = s \o (t \o <<m>>)
  BY <1>1, ConcatAssociative
<1> QED
  BY <1>1, <1>2, <1>3

LEMMA AnswersConcat ==
  ASSUME NEW s \in Seq(Messages), NEW r \in Seq(Messages)
  PROVE  Answers(s \o r) = Answers(s) \o Answers(r)
<1> DEFINE S == {n \in Nat : \E t \in Seq(Messages) : Len(t) = n /\ Answers(s \o t) # Answers(s) \o Answers(t)}
<1>0. Answers(s) \in Seq(Messages)
  BY AnswersTyped
<1>1. SUFFICES ASSUME S # {} PROVE FALSE
  <2>1. Len(r) \in Nat
    OBVIOUS
  <2> QED
    BY <2>1
<1>2. PICK n \in S : \A k \in S : n <= k
  <2>1. S \in SUBSET Nat
    OBVIOUS
  <2> HIDE DEF S
  <2> QED
    BY <1>1, <2>1, Least
<1>3. PICK t \in Seq(Messages) : Len(t) = n /\ Answers(s \o t) # Answers(s) \o Answers(t)
  OBVIOUS
<1>4. t # <<>>
  <2>1. s \o <<>> = s /\ Answers(s) \o <<>> = Answers(s) /\ Answers(<<>>) = <<>>
    BY <1>0, ConcatEmptySeq, AnswersEmpty
  <2> QED
    BY <1>3, <2>1
<1> DEFINE f == SubSeq(t, 1, Len(t) - 1)
           m == t[n]
<1>5. f \in Seq(Messages) /\ m \in Messages /\ Len(f) = n - 1 /\ n - 1 \in Nat /\ t = Append(f, m)
  BY <1>3, <1>4, Split
<1> HIDE DEF f, m
<1>6. n - 1 \notin S
  <2>1. n \in Nat /\ ~(n <= n - 1)
    OBVIOUS
  <2> HIDE DEF S
  <2> QED
    BY <1>2, <2>1
<1>7. Answers(s \o f) = Answers(s) \o Answers(f)
  BY <1>5, <1>6
<1>8. s \o t = Append(s \o f, m) /\ s \o f \in Seq(Messages)
  BY <1>5, ConcatAppend
<1>9. Answers(f) \in Seq(Messages)
  BY <1>5, AnswersTyped
<1>10. Append(Answers(s) \o Answers(f), m) = Answers(s) \o Append(Answers(f), m)
  BY <1>0, <1>5, <1>9, ConcatAppend
<1>11. /\ Answers(s \o t) = IF Answered(m) THEN Append(Answers(s \o f), m) ELSE Answers(s \o f)
       /\ Answers(t) = IF Answered(m) THEN Append(Answers(f), m) ELSE Answers(f)
  BY <1>5, <1>8, AnswersAppend
<1> QED
  BY <1>3, <1>7, <1>10, <1>11

\* Nothing among the messages of t stands for other messages.
Plain(t) == \A i \in DOMAIN t : ~IsCompaction(t[i])

LEMMA Ranged ==
  ASSUME NEW s \in Seq(Messages), NEW m \in Nat, m >= 1, NEW n \in Nat, n <= Len(s)
  PROVE  SubSeq(s, m, n) \in Seq(Messages)
<1>1. \A i \in m..n : s[i] \in Messages
  <2>1. ASSUME NEW i \in m..n PROVE i \in 1..Len(s)
    <3>1. Len(s) \in Nat
      OBVIOUS
    <3> QED
      BY <3>1
  <2> QED
    BY <2>1
<1> QED
  BY ONLY <1>1, m \in Nat, n \in Nat, SubSeqProperties

\* What a session gives and what more it gives when plain messages follow.
LEMMA Builds ==
  ASSUME NEW s \in Seq(Messages), NEW t \in Seq(Messages), Plain(t)
  PROVE  BuildContext(s) \in Seq(Messages) /\ BuildContext(s \o t) = BuildContext(s) \o t
<1> DEFINE C == Positions(s, IsCompaction)
           n == Len(s)
           r == s \o t
<1>1. /\ n \in Nat /\ r \in Seq(Messages) /\ Len(r) = n + Len(t) /\ Len(t) \in Nat
      /\ \A i \in 1..n : r[i] = s[i]
      /\ \A i \in 1..Len(t) : r[n + i] = t[i]
  <2>1. /\ n \in Nat /\ r \in Seq(Messages) /\ Len(r) = n + Len(t) /\ Len(t) \in Nat
        /\ \A i \in 1..(n + Len(t)) : r[i] = IF i <= n THEN s[i] ELSE t[i - n]
    BY ConcatProperties
  <2> HIDE DEF r, n
  <2>2. ASSUME NEW i \in 1..Len(t) PROVE r[n + i] = t[i]
    <3>1. n + i \in 1..(n + Len(t)) /\ ~(n + i <= n) /\ (n + i) - n = i
      BY <2>1
    <3> QED
      BY <2>1, <3>1
  <2>3. ASSUME NEW i \in 1..n PROVE r[i] = s[i]
    <3>1. i \in 1..(n + Len(t)) /\ i <= n
      BY <2>1
    <3> QED
      BY <2>1, <3>1
  <2> QED
    BY <2>1, <2>2, <2>3
<1>2. C \in SUBSET (1..n) /\ Positions(r, IsCompaction) = C
  <2>1. C \in SUBSET (1..n)
    BY DEF Positions
  <2>2. ASSUME NEW i \in DOMAIN r, IsCompaction(r[i]) PROVE i \in C
    <3>1. i \in 1..n
      <4>1. SUFFICES ASSUME i > n PROVE FALSE
        BY <1>1
      <4>2. i - n \in 1..Len(t) /\ i = n + (i - n)
        BY <1>1, <4>1
      <4>3. r[i] = t[i - n] /\ i - n \in DOMAIN t
        BY <1>1, <4>2
      <4> QED
        BY <2>2, <4>3 DEF Plain
    <3> QED
      BY <1>1, <2>2, <3>1 DEF Positions
  <2>3. ASSUME NEW i \in C PROVE i \in DOMAIN r /\ IsCompaction(r[i])
    BY <1>1, <2>3 DEF Positions
  <2> QED
    BY <2>1, <2>2, <2>3 DEF Positions
<1>3. CASE C = {}
  BY <1>1, <1>2, <1>3 DEF BuildContext
<1>4. CASE C # {}
  <2> DEFINE c == Latest(C)
             K == {i \in 1..(c - 1) : s[i].id = s[c].keep}
             kept(x) == IF K = {} THEN <<>> ELSE SubSeq(x, Latest(K), c - 1)
  <2>1. c \in 1..n /\ c \in Nat /\ c >= 1 /\ c <= n /\ c - 1 \in Nat /\ c + 1 \in Nat /\ c + 1 >= 1
    <3>1. c \in 1..n
      <4> HIDE DEF C, n
      <4> QED
        BY <1>1, <1>2, <1>4, Greatest
    <3> HIDE DEF c
    <3> QED
      BY <1>1, <3>1
  <2> HIDE DEF c
  <2>2. K = {i \in 1..(c - 1) : r[i].id = r[c].keep}
    BY <1>1, <2>1
  <2>3. K \in SUBSET (1..(c - 1)) /\ (K # {} => Latest(K) \in 1..(c - 1))
    <3>1. K \in SUBSET (1..(c - 1))
      OBVIOUS
    <3> HIDE DEF K
    <3> QED
      BY <2>1, <3>1, Greatest
  <2>4. BuildContext(s) = <<s[c]>> \o kept(s) \o SubSeq(s, c + 1, n)
    <3> HIDE DEF C, K, n
    <3> QED
      BY <1>4, ContextOf DEF c, K, n, C
  <2>5. BuildContext(r) = <<r[c]>> \o kept(r) \o SubSeq(r, c + 1, Len(r))
    <3> HIDE DEF r, n
    <3>1. Positions(r, IsCompaction) # {} /\ c = Latest(Positions(r, IsCompaction))
      BY <1>2, <1>4 DEF c
    <3> HIDE DEF C, K
    <3> QED
      BY <2>2, <3>1, ContextOf
  <2>6. r[c] = s[c] /\ s[c] \in Messages
    BY <1>1, <2>1
  <2>7. kept(s) \in Seq(Messages) /\ kept(r) = kept(s)
    <3>1. CASE K = {}
      BY <3>1
    <3>2. CASE K # {}
      <4> DEFINE k == Latest(K)
      <4>1. k \in 1..(c - 1)
        BY <2>3, <3>2
      <4> HIDE DEF K, k
      <4>2. k \in Nat /\ k >= 1 /\ c - 1 <= n
        BY <1>1, <2>1, <4>1
      <4>3. SubSeq(s, k, c - 1) \in Seq(Messages)
        BY <2>1, <4>2, Ranged
      <4>4. SubSeq(r, k, c - 1) = SubSeq(s, k, c - 1)
        <5>1. k \in 1..Len(s) /\ c - 1 \in k..Len(s)
          BY <1>1, <2>1, <4>1
        <5> HIDE DEF n
        <5> QED
          BY <5>1, SubSeqOfConcat1
      <4> QED
        BY <3>2, <4>3, <4>4 DEF k
    <3> QED
      BY <3>1, <3>2
  <2>8. SubSeq(s, c + 1, n) \in Seq(Messages) /\ SubSeq(r, c + 1, Len(r)) = SubSeq(s, c + 1, n) \o t
    <3>1. SubSeq(s, c + 1, n) \in Seq(Messages)
      BY <1>1, <2>1, Ranged
    <3> DEFINE a == SubSeq(r, c + 1, Len(r))
               b == SubSeq(s, c + 1, n) \o t
    <3>2. a \in Seq(Messages) /\ Len(a) = Len(r) - c /\ \A i \in 1..(Len(r) - c) : a[i] = r[c + i]
      <4> DEFINE N == Len(r)
      <4>1. N \in Nat /\ c + 1 \in Int /\ N \in Int /\ \A i \in (c + 1)..N : r[i] \in Messages
        <5>1. \A i \in (c + 1)..N : i \in 1..N
          BY <1>1, <2>1
        <5> QED
          BY <1>1, <2>1, <5>1
      <4> HIDE DEF N, r
      <4>2. /\ SubSeq(r, c + 1, N) \in Seq(Messages)
            /\ Len(SubSeq(r, c + 1, N)) = IF c + 1 <= N THEN N - (c + 1) + 1 ELSE 0
            /\ \A i \in 1..(N - (c + 1) + 1) : SubSeq(r, c + 1, N)[i] = r[c + 1 + i - 1]
        BY ONLY <4>1, SubSeqProperties
      <4>3. N >= c /\ N - (c + 1) + 1 = N - c /\ (IF c + 1 <= N THEN N - c ELSE 0) = N - c
            /\ \A i \in 1..(N - c) : c + 1 + i - 1 = c + i
        BY <1>1, <2>1, <4>1 DEF N
      <4> QED
        BY <4>2, <4>3 DEF N
    <3>3. /\ SubSeq(s, c + 1, n) \in Seq(Messages) /\ Len(SubSeq(s, c + 1, n)) = n - c
          /\ \A i \in 1..(n - c) : SubSeq(s, c + 1, n)[i] = s[c + i]
      <4>1. n \in Nat /\ c + 1 \in Int /\ n \in Int /\ \A i \in (c + 1)..n : s[i] \in Messages
        <5>1. \A i \in (c + 1)..n : i \in 1..n
          BY <1>1, <2>1
        <5> QED
          BY <1>1, <2>1, <5>1
      <4> HIDE DEF n
      <4>2. /\ SubSeq(s, c + 1, n) \in Seq(Messages)
            /\ Len(SubSeq(s, c + 1, n)) = IF c + 1 <= n THEN n - (c + 1) + 1 ELSE 0
            /\ \A i \in 1..(n - (c + 1) + 1) : SubSeq(s, c + 1, n)[i] = s[c + 1 + i - 1]
        BY ONLY <4>1, SubSeqProperties
      <4>3. n >= c /\ n - (c + 1) + 1 = n - c /\ (IF c + 1 <= n THEN n - c ELSE 0) = n - c
            /\ \A i \in 1..(n - c) : c + 1 + i - 1 = c + i
        BY <2>1, <4>1
      <4> QED
        BY <4>2, <4>3
    <3> DEFINE u == SubSeq(s, c + 1, n)
    <3>4. b \in Seq(Messages) /\ Len(b) = Len(r) - c
      <4> HIDE DEF u, n
      <4>1. u \in Seq(Messages) /\ Len(u) = n - c
        BY <3>3 DEF u
      <4>2. u \o t \in Seq(Messages) /\ Len(u \o t) = Len(u) + Len(t)
        BY <4>1, ConcatProperties
      <4>3. Len(u) + Len(t) = Len(r) - c
        BY <1>1, <2>1, <4>1
      <4> QED
        BY <4>2, <4>3 DEF u
    <3>5. ASSUME NEW i \in 1..(Len(r) - c) PROVE a[i] = b[i]
      <4> HIDE DEF u, n, r, a
      <4>0. u \in Seq(Messages) /\ Len(u) = n - c /\ n \in Nat /\ Len(r) = n + Len(t) /\ c \in Nat /\ c <= n
        BY <1>1, <2>1, <3>3 DEF u
      <4>1. CASE i <= n - c
        <5>1. i \in 1..Len(u) /\ c + i \in 1..n /\ i \in 1..(n - c)
          BY <4>0, <4>1
        <5>2. (u \o t)[i] = u[i]
          BY <4>0, <5>1, ConcatProperties
        <5>3. u[i] = s[c + i] /\ r[c + i] = s[c + i] /\ a[i] = r[c + i]
          BY <1>1, <3>2, <3>3, <5>1 DEF u
        <5> QED
          BY <5>2, <5>3 DEF u
      <4>2. CASE ~(i <= n - c)
        <5>1. PICK j \in 1..Len(t) : i = Len(u) + j /\ c + i = n + j
          <6>1. i - Len(u) \in 1..Len(t) /\ i = Len(u) + (i - Len(u)) /\ c + i = n + (i - Len(u))
            BY <1>1, <4>0, <4>2
          <6> QED
            BY <6>1
        <5>2. (u \o t)[i] = t[j]
          <6>1. i \in 1..(Len(u) + Len(t)) /\ ~(i <= Len(u)) /\ i - Len(u) = j
            BY <1>1, <4>0, <5>1
          <6> QED
            BY <4>0, <6>1, ConcatProperties
        <5>3. r[n + j] = t[j]
          BY <1>1, <5>1
        <5>4. a[i] = r[c + i]
          BY <3>2
        <5> QED
          BY <5>1, <5>2, <5>3, <5>4 DEF u
      <4> QED
        BY <4>1, <4>2
    <3>6. a = b
      <4> HIDE DEF a, b
      <4> QED
        BY <3>2, <3>4, <3>5, SeqEqual
    <3> QED
      BY <3>1, <3>6
  <2> HIDE DEF K, kept, C, r
  <2>9. BuildContext(s) \in Seq(Messages)
    <3>1. <<s[c]>> \in Seq(Messages)
      BY <2>6
    <3> QED
      BY <2>4, <2>7, <2>8, <3>1, ConcatProperties
  <2>10. BuildContext(r) = BuildContext(s) \o t
    <3>1. <<s[c]>> \o kept(s) \in Seq(Messages)
      <4>1. <<s[c]>> \in Seq(Messages)
        BY <2>6
      <4> QED
        BY <2>7, <4>1, ConcatProperties
    <3> DEFINE a == <<s[c]>> \o kept(s)
               b == SubSeq(s, c + 1, n)
    <3> HIDE DEF a, b, n
    <3>2. a \o (b \o t) = (a \o b) \o t
      <4>1. a \in Seq(Messages) /\ b \in Seq(Messages)
        BY <2>8, <3>1 DEF a, b
      <4> QED
        BY <4>1, ConcatAssociative
    <3> QED
      BY <2>4, <2>5, <2>6, <2>7, <2>8, <3>2 DEF a, b
  <2> QED
    BY <2>9, <2>10 DEF r
<1> QED
  BY <1>3, <1>4

\* A reply that did not fail; a conversation that ends with one has nothing to
\* answer, and no reply ever follows one directly.
Good(m) == IsReply(m) /\ Answered(m)
EndsGood(s) == s # <<>> /\ Good(s[Len(s)])
NoRow(s) == \A i \in 1..(Len(s) - 1) : Good(s[i]) => ~IsReply(s[i + 1])

Agree(ctx, entries) ==
  /\ Answers(ctx) = Answers(BuildContext(entries))
  /\ NoRow(ctx) /\ NoRow(entries)

\* Taking the last message off, or putting one on.
LEMMA Fronts ==
  ASSUME NEW f \in Seq(Messages), NEW m \in Messages
  PROVE  /\ Append(f, m) \in Seq(Messages) /\ Append(f, m) # <<>>
         /\ EndsGood(Append(f, m)) <=> Good(m)
         /\ NoRow(Append(f, m)) <=> NoRow(f) /\ (EndsGood(f) => ~IsReply(m))
<1> DEFINE n == Len(f)
           s == Append(f, m)
<1>1. /\ n \in Nat /\ s \in Seq(Messages) /\ Len(s) = n + 1 /\ s[n + 1] = m
      /\ \A i \in 1..n : s[i] = f[i]
  BY AppendProperties
<1>2. s # <<>> /\ (EndsGood(s) <=> Good(m))
  BY <1>1 DEF EndsGood
<1>3. f # <<>> <=> n >= 1
  OBVIOUS
<1> HIDE DEF n, s
<1>4. NoRow(s) => NoRow(f)
  <2> SUFFICES ASSUME NoRow(s), NEW i \in 1..(n - 1), Good(f[i]) PROVE ~IsReply(f[i + 1])
    BY DEF NoRow, n
  <2>1. i \in 1..((n + 1) - 1) /\ i \in 1..n /\ i + 1 \in 1..n
    BY <1>1
  <2>2. s[i] = f[i] /\ s[i + 1] = f[i + 1]
    BY <1>1, <2>1
  <2> QED
    BY <1>1, <2>1, <2>2 DEF NoRow
<1>5. NoRow(s) /\ EndsGood(f) => ~IsReply(m)
  <2> SUFFICES ASSUME NoRow(s), EndsGood(f) PROVE ~IsReply(m)
    OBVIOUS
  <2>1. n >= 1 /\ Good(f[n])
    BY <1>3 DEF EndsGood, n
  <2>2. n \in 1..((n + 1) - 1) /\ n \in 1..n
    BY <1>1, <2>1
  <2>3. Good(s[n])
    BY <1>1, <2>1, <2>2
  <2> QED
    BY <1>1, <2>2, <2>3 DEF NoRow
<1>6. ASSUME NoRow(f), EndsGood(f) => ~IsReply(m)
      PROVE  NoRow(s)
  <2> SUFFICES ASSUME NEW i \in 1..n, Good(s[i]) PROVE ~IsReply(s[i + 1])
    <3>1. Len(s) - 1 = n
      BY <1>1
    <3> QED
      BY <3>1 DEF NoRow
  <2>1. s[i] = f[i]
    BY <1>1
  <2>2. CASE i = n
    BY <1>1, <1>3, <1>6, <2>1, <2>2 DEF EndsGood, n
  <2>3. CASE i # n
    <3>1. i \in 1..(n - 1) /\ i + 1 \in 1..n
      BY <1>1, <2>3
    <3>2. s[i + 1] = f[i + 1]
      BY <1>1, <3>1
    <3> QED
      BY <1>6, <2>1, <3>1, <3>2 DEF NoRow, n
  <2> QED
    BY <2>2, <2>3
<1> QED
  BY <1>1, <1>2, <1>4, <1>5, <1>6 DEF s

\* Plain messages that are no replies follow.
Quiet(t) == \A i \in DOMAIN t : ~IsCompaction(t[i]) /\ ~IsReply(t[i])

LEMMA QuietRow ==
  ASSUME NEW s \in Seq(Messages), NEW t \in Seq(Messages), Quiet(t), NoRow(s)
  PROVE  NoRow(s \o t) /\ (EndsGood(s \o t) => EndsGood(s))
<1> DEFINE n == Len(s)
           r == s \o t
<1>1. /\ n \in Nat /\ Len(t) \in Nat /\ r \in Seq(Messages) /\ Len(r) = n + Len(t)
      /\ \A i \in 1..(n + Len(t)) : r[i] = IF i <= n THEN s[i] ELSE t[i - n]
  BY ConcatProperties
<1>2. s # <<>> <=> n >= 1
  OBVIOUS
<1>3. ASSUME NEW i \in 1..(n + Len(t)), i > n
      PROVE  ~IsReply(r[i])
  <2> HIDE DEF r, n
  <2>1. i - n \in 1..Len(t) /\ ~(i <= n)
    BY <1>1, <1>3
  <2>2. r[i] = t[i - n] /\ i - n \in DOMAIN t
    BY <1>1, <2>1
  <2> QED
    BY <2>2 DEF Quiet
<1> HIDE DEF r, n
<1>4. ASSUME NEW i \in 1..(Len(r) - 1), Good(r[i])
      PROVE  ~IsReply(r[i + 1])
  <2>1. i \in 1..(n + Len(t)) /\ i + 1 \in 1..(n + Len(t)) /\ i \in Nat
    BY <1>1
  <2>2. CASE i + 1 > n
    BY <1>3, <2>1, <2>2
  <2>3. CASE ~(i + 1 > n)
    <3>1. i <= n /\ i + 1 <= n /\ i \in 1..(n - 1)
      BY <1>1, <2>1, <2>3
    <3>2. r[i] = s[i] /\ r[i + 1] = s[i + 1]
      BY <1>1, <2>1, <3>1
    <3> QED
      BY <1>4, <3>1, <3>2 DEF NoRow, n
  <2> QED
    BY <2>2, <2>3
<1>5. ASSUME EndsGood(r)
      PROVE  EndsGood(s)
  <2>1. Len(r) \in 1..(n + Len(t)) /\ Good(r[Len(r)])
    BY <1>1, <1>5 DEF EndsGood
  <2>2. ~(Len(r) > n)
    BY <1>3, <2>1 DEF Good
  <2>3. Len(r) = n /\ n >= 1
    BY <1>1, <2>1, <2>2
  <2>4. r[n] = s[n]
    BY <1>1, <2>1, <2>3
  <2> QED
    BY <1>2, <2>1, <2>3, <2>4 DEF EndsGood, n
<1> QED
  BY <1>4, <1>5 DEF NoRow, r

LEMMA AgreeQuiet ==
  ASSUME NEW ctx \in Seq(Messages), NEW entries \in Seq(Messages), NEW t \in Seq(Messages),
         Quiet(t), Agree(ctx, entries)
  PROVE  Agree(ctx \o t, entries \o t) /\ (EndsGood(ctx \o t) => EndsGood(ctx))
<1>1. BuildContext(entries) \in Seq(Messages) /\ BuildContext(entries \o t) = BuildContext(entries) \o t
  BY Builds DEF Plain, Quiet
<1>2. /\ Answers(ctx \o t) = Answers(ctx) \o Answers(t)
      /\ Answers(BuildContext(entries) \o t) = Answers(BuildContext(entries)) \o Answers(t)
  BY <1>1, AnswersConcat
<1> QED
  BY <1>1, <1>2, QuietRow DEF Agree

\* The last answer of a conversation without rows of replies is its last
\* message, if it is a reply.
LEMMA LastAnswer ==
  ASSUME NEW s \in Seq(Messages), NoRow(s), Answers(s) # <<>>, IsReply(Answers(s)[Len(Answers(s))])
  PROVE  EndsGood(s)
<1>1. s # <<>>
  BY AnswersEmpty
<1> DEFINE Lasts(r) == \E k \in 1..Len(r) : /\ Answered(r[k]) /\ r[k] = Answers(r)[Len(Answers(r))]
                                            /\ \A i \in (k + 1)..Len(r) : ~Answered(r[i])
           S == {n \in Nat : \E r \in Seq(Messages) : Len(r) = n /\ Answers(r) # <<>> /\ ~Lasts(r)}
<1>2. S = {}
  <2> SUFFICES ASSUME S # {} PROVE FALSE
    OBVIOUS
  <2>1. PICK n \in S : \A k \in S : n <= k
    <3>1. S \in SUBSET Nat
      OBVIOUS
    <3> HIDE DEF S
    <3> QED
      BY <3>1, Least
  <2>2. PICK r \in Seq(Messages) : Len(r) = n /\ Answers(r) # <<>> /\ ~Lasts(r)
    OBVIOUS
  <2>3. r # <<>>
    BY <2>2, AnswersEmpty
  <2> DEFINE f == SubSeq(r, 1, Len(r) - 1)
  <2>4. /\ f \in Seq(Messages) /\ r[n] \in Messages /\ Len(f) = n - 1 /\ n - 1 \in Nat
        /\ r = Append(f, r[n]) /\ \A i \in 1..(n - 1) : f[i] = r[i]
    BY <2>2, <2>3, Split
  <2> HIDE DEF f
  <2>5. n \in Nat /\ n >= 1 /\ ~(n <= n - 1)
    BY <2>4
  <2>6. CASE Answered(r[n])
    <3>1. Answers(r) = Append(Answers(f), r[n])
      BY <2>4, <2>6, AnswersAppend
    <3>2. Answers(f) \in Seq(Messages)
      BY <2>4, AnswersTyped
    <3>3. Answers(r)[Len(Answers(r))] = r[n]
      <4> DEFINE a == Answers(f)
      <4>1. a \in Seq(Messages) /\ Answers(r) = Append(a, r[n])
        BY <3>1, <3>2
      <4> HIDE DEF a
      <4> QED
        BY <2>4, <4>1, AppendProperties
    <3>4. n \in 1..Len(r) /\ (n + 1)..Len(r) = {}
      BY <2>2, <2>5
    <3>5. Lasts(r)
      BY <2>6, <3>3, <3>4
    <3> HIDE DEF Lasts
    <3> QED
      BY <2>2, <3>5
  <2>7. CASE ~Answered(r[n])
    <3>1. Answers(r) = Answers(f)
      BY <2>4, <2>7, AnswersAppend
    <3>2. n - 1 \notin S
      <4> HIDE DEF S
      <4> QED
        BY <2>1, <2>5
    <3>3. Lasts(f)
      <4> HIDE DEF Lasts
      <4> QED
        BY <2>2, <2>4, <3>1, <3>2
    <3>4. PICK k \in 1..(n - 1) : /\ Answered(f[k]) /\ f[k] = Answers(f)[Len(Answers(f))]
                                  /\ \A i \in (k + 1)..(n - 1) : ~Answered(f[i])
      BY <2>4, <3>3
    <3>5. k \in 1..Len(r) /\ Answered(r[k]) /\ r[k] = Answers(r)[Len(Answers(r))]
      BY <2>2, <2>4, <2>5, <3>1, <3>4
    <3>6. ASSUME NEW i \in (k + 1)..Len(r) PROVE ~Answered(r[i])
      <4>1. CASE i = n
        BY <2>7, <4>1
      <4>2. CASE i # n
        <5>1. i \in (k + 1)..(n - 1) /\ i \in 1..(n - 1)
          BY <2>2, <2>5, <3>4, <4>2
        <5> QED
          BY <2>4, <3>4, <5>1
      <4> QED
        BY <4>1, <4>2
    <3>7. Lasts(r)
      BY <3>5, <3>6
    <3> HIDE DEF Lasts
    <3> QED
      BY <2>2, <3>7
  <2> QED
    BY <2>6, <2>7
<1>3. Lasts(s)
  <2>1. Len(s) \in Nat
    OBVIOUS
  <2> HIDE DEF Lasts
  <2> QED
    BY <1>2, <2>1
<1>4. PICK k \in 1..Len(s) : /\ Answered(s[k]) /\ s[k] = Answers(s)[Len(Answers(s))]
                             /\ \A i \in (k + 1)..Len(s) : ~Answered(s[i])
  BY <1>3
<1>5. Good(s[k])
  BY <1>4 DEF Good
<1>6. k = Len(s)
  <2> SUFFICES ASSUME k # Len(s) PROVE FALSE
    OBVIOUS
  <2>1. k \in 1..(Len(s) - 1) /\ k + 1 \in (k + 1)..Len(s)
    <3>1. Len(s) \in Nat
      OBVIOUS
    <3> QED
      BY <3>1
  <2>2. ~IsReply(s[k + 1])
    BY <1>5, <2>1 DEF NoRow
  <2>3. ~Answered(s[k + 1])
    BY <1>4, <2>1
  <2> QED
    BY <2>2, <2>3 DEF Answered
<1> QED
  BY <1>1, <1>5, <1>6 DEF EndsGood

LEMMA AgreeEnds ==
  ASSUME NEW ctx \in Seq(Messages), NEW entries \in Seq(Messages), Agree(ctx, entries), EndsGood(entries)
  PROVE  EndsGood(ctx)
<1> DEFINE f == SubSeq(entries, 1, Len(entries) - 1)
           m == entries[Len(entries)]
           b == BuildContext(f)
<1>1. f \in Seq(Messages) /\ m \in Messages /\ entries = Append(f, m)
  BY Split DEF EndsGood
<1>2. Good(m)
  BY DEF EndsGood
<1> HIDE DEF f, m
<1>3. Plain(<<m>>) /\ <<m>> \in Seq(Messages) /\ entries = f \o <<m>>
  BY <1>1, <1>2, AppendIsConcat DEF Good, Plain, IsReply, IsCompaction
<1>4. b \in Seq(Messages) /\ BuildContext(entries) = b \o <<m>>
  BY <1>1, <1>3, Builds
<1> HIDE DEF b
<1>5. b \o <<m>> = Append(b, m) /\ Answers(b) \in Seq(Messages)
  BY <1>1, <1>4, AppendIsConcat, AnswersTyped
<1>6. Answers(ctx) = Append(Answers(b), m)
  BY <1>1, <1>2, <1>4, <1>5, AnswersAppend DEF Agree, Good
<1>7. Answers(ctx) # <<>> /\ Answers(ctx)[Len(Answers(ctx))] = m
  <2> DEFINE a == Answers(b)
  <2>1. a \in Seq(Messages) /\ Answers(ctx) = Append(a, m)
    BY <1>5, <1>6
  <2> HIDE DEF a
  <2>2. Len(a) \in Nat /\ Len(Append(a, m)) = Len(a) + 1 /\ Append(a, m)[Len(a) + 1] = m
    BY <1>1, <2>1, AppendProperties
  <2>3. Append(a, m) # <<>>
    BY <1>1, <2>1, Fronts
  <2> QED
    BY <2>1, <2>2, <2>3
<1> QED
  BY <1>2, <1>7, LastAnswer DEF Agree, Good

\* A message that is said and recorded; replies never follow a good one.
LEMMA AgreeAppend ==
  ASSUME NEW ctx \in Seq(Messages), NEW entries \in Seq(Messages), NEW m \in Messages,
         Agree(ctx, entries), ~IsCompaction(m), IsReply(m) => ~EndsGood(ctx)
  PROVE  Agree(Append(ctx, m), Append(entries, m)) /\ (EndsGood(Append(ctx, m)) <=> Good(m))
<1> DEFINE b == BuildContext(entries)
<1>1. Plain(<<m>>) /\ <<m>> \in Seq(Messages) /\ Append(entries, m) = entries \o <<m>>
  BY AppendIsConcat DEF Plain
<1>2. b \in Seq(Messages) /\ BuildContext(Append(entries, m)) = b \o <<m>>
  BY <1>1, Builds
<1>3. Answers(ctx) = Answers(b) /\ NoRow(ctx) /\ NoRow(entries)
  BY DEF Agree
<1> HIDE DEF b
<1>4. BuildContext(Append(entries, m)) = Append(b, m)
  BY <1>2, AppendIsConcat
<1>5. Answers(Append(ctx, m)) = Answers(Append(b, m))
  BY <1>2, <1>3, AnswersAppend
<1>6. EndsGood(entries) => EndsGood(ctx)
  BY AgreeEnds
<1> QED
  BY <1>3, <1>4, <1>5, <1>6, Fronts DEF Agree

\* A reply that failed is taken off the end.
LEMMA AgreeTrimmed ==
  ASSUME NEW ctx \in Seq(Messages), NEW entries \in Seq(Messages),
         Agree(ctx, entries), ~EndsGood(ctx)
  PROVE  Agree(WithoutTrailingReply(ctx), entries) /\ ~EndsGood(WithoutTrailingReply(ctx))
<1>1. CASE ~EndsWith(ctx, "assistant")
  BY <1>1 DEF WithoutTrailingReply
<1>2. CASE EndsWith(ctx, "assistant")
  <2> DEFINE f == SubSeq(ctx, 1, Len(ctx) - 1)
             m == ctx[Len(ctx)]
  <2>1. f \in Seq(Messages) /\ m \in Messages /\ ctx = Append(f, m)
    BY <1>2, Split DEF EndsWith
  <2>2. IsReply(m) /\ ~Answered(m)
    BY <1>2 DEF EndsWith, LastOf, IsReply, EndsGood, Good
  <2>3. WithoutTrailingReply(ctx) = f
    BY <1>2 DEF WithoutTrailingReply
  <2> HIDE DEF f, m
  <2>4. Answers(ctx) = Answers(f)
    BY <2>1, <2>2, AnswersAppend
  <2>5. NoRow(f) /\ ~EndsGood(f)
    BY <2>1, <2>2, Fronts DEF Agree
  <2> QED
    BY <2>3, <2>4, <2>5 DEF Agree
<1> QED
  BY <1>1, <1>2

\* The context is built anew from a session that ends with a compaction.
LEMMA AgreeRebuilt ==
  ASSUME NEW s \in Seq(Messages), NEW c \in Messages, IsCompaction(c), NoRow(s)
  PROVE  /\ BuildContext(Append(s, c)) \in Seq(Messages) /\ Append(s, c) \in Seq(Messages)
         /\ Agree(BuildContext(Append(s, c)), Append(s, c))
         /\ EndsGood(BuildContext(Append(s, c))) => EndsGood(s)
<1> DEFINE b == BuildContext(Append(s, c))
           n == Len(s)
<1>1. c.role = "compaction" /\ ~IsReply(c) /\ Append(s, c) \in Seq(Messages)
  BY DEF IsCompaction, IsReply
<1>2. NoRow(Append(s, c))
  BY <1>1, Fronts
<1>3. b \in Seq(Messages)
  BY <1>1, RebuiltContext
<1>4. NoRow(b) /\ (EndsGood(b) => EndsGood(s))
  <2>1. CASE b = <<c>>
    <3>1. Len(b) = 1 /\ b[1] = c /\ 1..(Len(b) - 1) = {}
      BY <2>1
    <3> QED
      BY <1>1, <3>1 DEF NoRow, EndsGood, Good
  <2>2. ASSUME NEW k \in 1..n, b = <<c>> \o SubSeq(s, k, n)
        PROVE  NoRow(b) /\ (EndsGood(b) => EndsGood(s))
    <3> DEFINE u == SubSeq(s, k, n)
    <3>1. /\ n \in Nat /\ n >= 1 /\ k \in Nat /\ u \in Seq(Messages) /\ Len(u) = n - k + 1
          /\ \A i \in 1..(n - k + 1) : u[i] = s[k + i - 1]
      <4>1. n \in Nat /\ k \in Int /\ n \in Int /\ k <= n /\ \A i \in k..n : s[i] \in Messages
        <5>1. n \in Nat /\ k \in 1..n /\ \A i \in k..n : i \in 1..n
          OBVIOUS
        <5> QED
          BY <5>1
      <4> HIDE DEF n
      <4>2. /\ SubSeq(s, k, n) \in Seq(Messages)
            /\ Len(SubSeq(s, k, n)) = IF k <= n THEN n - k + 1 ELSE 0
            /\ \A i \in 1..(n - k + 1) : SubSeq(s, k, n)[i] = s[k + i - 1]
        BY ONLY <4>1, SubSeqProperties
      <4> QED
        BY <4>1, <4>2
    <3>2. /\ Len(b) = n - k + 2 /\ b[1] = c
          /\ \A i \in 2..(n - k + 2) : b[i] = s[k + i - 2]
      <4> HIDE DEF u, n
      <4>1. <<c>> \in Seq(Messages) /\ Len(<<c>>) = 1 /\ <<c>>[1] = c /\ b = <<c>> \o u
        BY <2>2 DEF u, n
      <4> HIDE DEF b
      <4>2. /\ Len(b) = 1 + (n - k + 1)
            /\ \A i \in 1..(1 + (n - k + 1)) : b[i] = IF i <= 1 THEN <<c>>[i] ELSE u[i - 1]
        BY <3>1, <4>1, ConcatProperties
      <4>3. ASSUME NEW i \in 2..(n - k + 2) PROVE b[i] = s[k + i - 2]
        <5>1. i \in 1..(1 + (n - k + 1)) /\ ~(i <= 1) /\ i - 1 \in 1..(n - k + 1) /\ k + (i - 1) - 1 = k + i - 2
          BY <3>1
        <5>2. b[i] = u[i - 1]
          BY <4>2, <5>1
        <5>3. u[i - 1] = s[k + (i - 1) - 1]
          BY <3>1, <5>1
        <5> QED
          BY <5>1, <5>2, <5>3
      <4>4. b[1] = c
        BY <3>1, <4>1, <4>2
      <4> QED
        BY <3>1, <4>2, <4>3, <4>4
    <3> HIDE DEF u, b, n
    <3>3. ASSUME NEW i \in 1..(Len(b) - 1), Good(b[i])
          PROVE  ~IsReply(b[i + 1])
      <4>1. i # 1
        BY <1>1, <3>2, <3>3 DEF Good
      <4>2. /\ i \in 2..(n - k + 2) /\ i + 1 \in 2..(n - k + 2)
            /\ k + i - 2 \in 1..(n - 1) /\ k + (i + 1) - 2 = (k + i - 2) + 1
        BY <3>1, <3>2, <4>1
      <4>3. b[i] = s[k + i - 2] /\ b[i + 1] = s[(k + i - 2) + 1]
        <5>1. b[i] = s[k + i - 2]
          BY <3>2, <4>2
        <5>2. b[i + 1] = s[k + (i + 1) - 2]
          BY <3>2, <4>2
        <5> QED
          BY <4>2, <5>1, <5>2
      <4> DEFINE j == k + i - 2
      <4>4. j \in 1..(n - 1) /\ b[i] = s[j] /\ b[i + 1] = s[j + 1]
        BY <4>2, <4>3
      <4> HIDE DEF j
      <4> QED
        BY <3>3, <4>4 DEF NoRow, n
    <3>4. b[Len(b)] = s[n] /\ s # <<>>
      <4>1. Len(b) \in 2..(n - k + 2) /\ k + Len(b) - 2 = n
        BY <2>2, <3>1, <3>2
      <4>2. b[Len(b)] = s[k + Len(b) - 2]
        BY <3>2, <4>1
      <4>3. s # <<>>
        BY <3>1 DEF n
      <4> QED
        BY <4>1, <4>2, <4>3
    <3> QED
      BY <3>3, <3>4 DEF NoRow, EndsGood, n
  <2>3. b = <<c>> \/ \E k \in 1..n : b = <<c>> \o SubSeq(s, k, n)
    BY <1>1, Rebuilt
  <2> QED
    BY <2>1, <2>2, <2>3
<1> QED
  BY <1>1, <1>2, <1>3, <1>4 DEF Agree

LEMMA AgreeAfter ==
  ASSUME SessionTypes, NEW p \in Prompters, Agree(context, session)
  PROVE  /\ Agree(ContextAfter(p), Compacted(held[p].id))
         /\ EndsGood(ContextAfter(p)) => EndsGood(context)
<1> DEFINE c == CompactionOf(clock, held[p].id)
           b == BuildContext(Compacted(held[p].id))
<1>1. c \in Messages /\ IsCompaction(c) /\ session \in Seq(Messages) /\ context \in Seq(Messages)
  BY Made, Fields DEF SessionTypes, IsCompaction
<1>2. Compacted(held[p].id) = Append(session, c)
  BY DEF Compacted
<1> HIDE DEF c
<1>3. /\ b \in Seq(Messages) /\ Compacted(held[p].id) \in Seq(Messages)
      /\ Agree(b, Compacted(held[p].id)) /\ (EndsGood(b) => EndsGood(session))
  BY <1>1, <1>2, AgreeRebuilt DEF Agree
<1>4. EndsGood(session) => EndsGood(context)
  BY <1>1, AgreeEnds
<1>5. \/ ContextAfter(p) = b
      \/ ContextAfter(p) = WithoutTrailingReply(b) /\ Failed(LastOf(b))
  BY DEF ContextAfter
<1> HIDE DEF b
<1>6. Failed(LastOf(b)) => ~EndsGood(b)
  BY DEF EndsGood, Good, Answered, LastOf
<1> QED
  BY <1>3, <1>4, <1>5, <1>6, AgreeTrimmed

\* What was last answered, as far as the session has heard it.
Answer == IF Replying THEN saving ELSE last

\* A run that is about to ask the model, or whose last reply failed.
Poised ==
  \/ run.at \in {"prompts", "turn"} /\ run.todo = <<>>
  \/ run.at \in {"stopping", "ending"} /\ Answer # <<>> /\ ~Answered(Answer[1])

\* Context and session agree once what is being saved is there, and the context
\* does not end with a good reply when the next message will be one, or when a
\* reply is to be taken off.
ContextInv ==
  ~deaf /\ ~crossed =>
    Agree(context, session \o saving) /\ (Poised => ~EndsGood(context))

LEMMA Ledger ==
  ASSUME NEW s \in Seq(Messages), NEW m \in Messages
  PROVE  s \o <<>> = s /\ s \o <<m>> = Append(s, m)
  BY ConcatEmptySeq, AppendIsConcat

LEMMA BashesQuiet ==
  ASSUME SessionTypes
  PROVE  /\ pendingBash \in Seq(Messages) /\ Quiet(pendingBash)
         /\ context \in Seq(Messages) /\ session \in Seq(Messages)
<1>1. pendingBash \in Seq(Bashes) /\ Bashes \subseteq Messages
  BY Made DEF SessionTypes
<1>2. pendingBash \in Seq(Messages)
  BY <1>1
<1>3. \A i \in DOMAIN pendingBash : pendingBash[i].role = "bash"
  BY <1>1 DEF Bashes
<1> QED
  BY <1>2, <1>3 DEF Quiet, IsCompaction, IsReply, SessionTypes

LEMMA SettleContext ==
  ASSUME SessionTypes, NEW p, NEW ctx \in Seq(Messages), NEW entries \in Seq(Messages),
         Settle(p, ctx, entries), Agree(ctx, entries)
  PROVE  Agree(context', session') /\ (EndsGood(context') => EndsGood(ctx))
<1>1. context' = ctx \o pendingBash /\ session' = entries \o pendingBash
  BY DEF Settle
<1> QED
  BY <1>1, BashesQuiet, AgreeQuiet

LEMMA GoesOnPoised ==
  ASSUME SessionTypes, NEW p \in Prompters, NEW ctx, NEW entries, GoesOn(p, ctx, entries)
  PROVE  run' = Released(p) \/ (Poised' => ~EndsGood(context'))
<1>1. CASE Continues(p, ctx, entries)
  <2>1. context' = ctx
    BY <1>1 DEF Continues
  <2>2. PICK todo, skip : /\ run' = NewRun(todo, skip)
                          /\ \/ todo = <<>> /\ ~EndsWith(ctx, "assistant")
                             \/ steering # <<>> /\ todo = Drained(Mode, steering)
                             \/ followUp # <<>> /\ todo = Drained(Mode, followUp)
    BY <1>1 DEF Continues
  <2>3. todo # <<>> \/ ~EndsWith(ctx, "assistant")
    BY <2>2, Drain DEF SessionTypes
  <2>4. Poised' => ~EndsWith(ctx, "assistant")
    BY <2>2, <2>3 DEF Poised, NewRun
  <2>5. EndsGood(ctx) => EndsWith(ctx, "assistant")
    BY DEF EndsGood, EndsWith, LastOf, Good, IsReply
  <2> QED
    BY <2>1, <2>4, <2>5
<1>2. CASE Rests(p, ctx, entries)
  BY <1>2 DEF Rests
<1>3. CASE Compacts(p, ctx) /\ entries = session
  BY <1>3 DEF Compacts
<1> QED
  BY <1>1, <1>2, <1>3 DEF GoesOn

LEMMA GoesOnContext ==
  ASSUME SessionTypes, NEW p \in Prompters, NEW ctx \in Seq(Messages), NEW entries \in Seq(Messages),
         GoesOn(p, ctx, entries), Agree(ctx, entries)
  PROVE  Agree(context', session') /\ (EndsGood(context') => EndsGood(ctx))
<1>1. CASE Continues(p, ctx, entries)
  BY <1>1 DEF Continues
<1>2. CASE Rests(p, ctx, entries)
  BY <1>2, SettleContext DEF Rests
<1>3. CASE Compacts(p, ctx) /\ entries = session
  BY <1>3 DEF Compacts
<1> QED
  BY <1>1, <1>2, <1>3 DEF GoesOn

LEMMA Sources ==
  ASSUME SessionTypes, ContextInv, ~deaf, ~crossed, saving = <<>>, NEW p \in Prompters, EndStep(p)
  PROVE  \E ctx \in Seq(Messages), entries \in Seq(Messages) :
           GoesOn(p, ctx, entries) /\ Agree(ctx, entries) /\ (EndsGood(ctx) => EndsGood(context))
<1>0. /\ context \in Seq(Messages) /\ session \in Seq(Messages) /\ Agree(context, session)
      /\ WithoutTrailingReply(context) \in Seq(Messages)
  BY Trimmed, Ledger DEF SessionTypes, ContextInv
<1>1. CASE RunEnds(p)
  <2>1. CheckCompaction(p, last[1]) /\ run.at = "ending" /\ last # <<>> /\ last[1].role = "assistant"
    BY <1>1 DEF RunEnds, RunIsOver, SessionTypes
  <2>2. PICK ctx : /\ GoesOn(p, ctx, session)
                   /\ \/ ctx = context
                      \/ ctx = WithoutTrailingReply(context) /\ Overflown(last[1])
    BY <2>1, Checks
  <2>3. CASE ctx = context
    BY <1>0, <2>2, <2>3
  <2>4. CASE ctx = WithoutTrailingReply(context) /\ Overflown(last[1])
    <3>1. ~EndsGood(context)
      BY <2>1, <2>4 DEF ContextInv, Poised, Answer, Replying, Answered, IsReply
    <3>2. Agree(ctx, session) /\ ~EndsGood(ctx)
      BY <1>0, <2>4, <3>1, AgreeTrimmed
    <3> QED
      BY <1>0, <2>2, <2>4, <3>2
  <2> QED
    BY <2>2, <2>3, <2>4
<1>2. CASE DelayOver(p)
  <2>1. GoesOn(p, context, session)
    BY <1>2, Resumes DEF DelayOver, GoesOn, Declines
  <2> QED
    BY <1>0, <2>1
<1>3. CASE DelayAborted(p)
  <2> DEFINE m == Message("assistant", "error", held[p].id)
  <2>1. CheckCompaction(p, m) /\ ~Overflown(m)
    BY <1>3, Fields DEF DelayAborted, Overflown
  <2> HIDE DEF m
  <2>2. GoesOn(p, context, session)
    BY <2>1, Checks
  <2> QED
    BY <1>0, <2>2
<1>4. CASE CompactionDone(p)
  <2>1. GoesOn(p, ContextAfter(p), Compacted(held[p].id))
    <3>1. CASE Resume(p, ContextAfter(p), Compacted(held[p].id))
      BY <3>1, Resumes DEF GoesOn, Declines
    <3>2. CASE Proceed(p, ContextAfter(p), Compacted(held[p].id))
      BY <3>2, Proceeds DEF GoesOn
    <3> QED
      BY <1>4, <3>1, <3>2 DEF CompactionDone
  <2> QED
    BY <1>0, <2>1, AfterCompaction, AgreeAfter
<1>5. CASE CompactionFails(p)
  <2>1. GoesOn(p, context, session)
    BY <1>5, Proceeds DEF CompactionFails, GoesOn
  <2> QED
    BY <1>0, <2>1
<1> QED
  BY <1>1, <1>2, <1>3, <1>4, <1>5 DEF EndStep

LEMMA EndsContext ==
  ASSUME SessionTypes, SessionTypes', ContextInv, NEW p \in Prompters, EndStep(p)
  PROVE  ContextInv'
<1> SUFFICES ASSUME ~deaf', ~crossed'
             PROVE  Agree(context', session' \o saving') /\ (Poised' => ~EndsGood(context'))
  BY DEF ContextInv
<1>1. /\ ~deaf /\ (last' = last \/ pc[p] = "running") /\ saving' = saving /\ ~crossed
      /\ pc[p] = "running" => saving = <<>>
      /\ saving # <<>> => context' = context /\ session' = session
  BY Ends DEF Meanwhile
<1>2. /\ Agree(context', session' \o saving') /\ (EndsGood(context') => EndsGood(context))
  <2>1. CASE saving = <<>>
    <3>1. PICK ctx \in Seq(Messages), entries \in Seq(Messages) :
            GoesOn(p, ctx, entries) /\ Agree(ctx, entries) /\ (EndsGood(ctx) => EndsGood(context))
      BY <1>1, <2>1, Sources
    <3>2. Agree(context', session') /\ (EndsGood(context') => EndsGood(ctx))
      BY <3>1, GoesOnContext
    <3>3. session' \o saving' = session'
      BY <1>1, <2>1, Ledger DEF SessionTypes
    <3> QED
      BY <3>1, <3>2, <3>3
  <2>2. CASE saving # <<>>
    BY <1>1, <2>2 DEF ContextInv
  <2> QED
    BY <2>1, <2>2
<1>3. run' = Released(p) \/ (Poised' => ~EndsGood(context'))
  BY Ends, GoesOnPoised DEF Outcome
<1>4. ASSUME run' = Released(p), Poised'
      PROVE  ~EndsGood(context')
  <2>1. pc[p] # "running"
    BY <1>4 DEF Released, Poised, NoRun
  <2>2. Poised
    BY <1>1, <1>4, <2>1 DEF Released, Poised, Answer, Replying
  <2> QED
    BY <1>1, <1>2, <2>2 DEF ContextInv
<1> QED
  BY <1>2, <1>3, <1>4

\* What is said, is no reply, and will be saved if it was heard.
LEMMA SaidContext ==
  ASSUME SessionTypes, ContextInv, NEW m \in Messages, ~IsReply(m), ~IsCompaction(m), Finished(m)
  PROVE  ContextInv'
<1> SUFFICES ASSUME ~deaf', ~crossed'
             PROVE  Agree(context', session' \o saving') /\ ~EndsGood(context')
  BY DEF ContextInv
<1>1. /\ ~deaf /\ ~crossed /\ saving = <<>>
      /\ context' = Append(context, m) /\ session' = session /\ saving' = <<m>>
  BY DEF Finished
<1>2. context \in Seq(Messages) /\ session \in Seq(Messages) /\ Agree(context, session)
  BY <1>1, Ledger DEF SessionTypes, ContextInv
<1>3. session' \o saving' = Append(session, m)
  BY <1>1, <1>2, Ledger
<1> QED
  BY <1>1, <1>2, <1>3, AgreeAppend DEF Good

\* Other steps leave a run as it is, and do not make the context end well; what
\* they change while a message is being saved counts as crossed.
LEMMA CalmContext ==
  ASSUME SessionTypes, SessionTypes', ContextInv, deaf' = deaf, Meanwhile, Poised' => Poised,
         ~deaf /\ Agree(context, session) =>
           Agree(context', session') /\ (EndsGood(context') => EndsGood(context))
  PROVE  ContextInv'
<1> SUFFICES ASSUME ~deaf', ~crossed'
             PROVE  /\ Agree(context', session' \o saving')
                    /\ EndsGood(context') => EndsGood(context)
  BY DEF ContextInv, Meanwhile
<1>1. /\ ~deaf /\ ~crossed /\ saving' = saving
      /\ saving # <<>> => context' = context /\ session' = session
  BY DEF Meanwhile
<1>2. CASE saving = <<>>
  <2>1. session \o saving = session /\ session' \o saving' = session'
    BY <1>1, <1>2, Ledger DEF SessionTypes
  <2> QED
    BY <1>1, <2>1 DEF ContextInv
<1>3. CASE saving # <<>>
  BY <1>1, <1>3 DEF ContextInv
<1> QED
  BY <1>2, <1>3

LEMMA SubmitAgree ==
  ASSUME SessionTypes, NEW p \in Prompters, Submit(p), Agree(context, session)
  PROVE  Agree(context', session') /\ (EndsGood(context') => EndsGood(context))
<1> DEFINE R == Positions(context, IsReply)
           verdict == IF R = {} THEN "none" ELSE Verdict(context[Latest(R)])
           ctx == context \o pendingBash
           entries == session \o pendingBash
<1>1. /\ ctx \in Seq(Messages) /\ entries \in Seq(Messages) /\ Agree(ctx, entries)
      /\ EndsGood(ctx) => EndsGood(context)
  BY BashesQuiet, AgreeQuiet, Joined
<1>2. session' = entries /\ context' = IF verdict = "overflow" THEN WithoutTrailingReply(ctx) ELSE ctx
  BY DEF Submit
<1>3. verdict = "overflow" => ~EndsGood(context)
  <2> SUFFICES ASSUME verdict = "overflow", EndsGood(context) PROVE FALSE
    OBVIOUS
  <2>1. Overflown(context[Latest(R)])
    BY DEF Verdict
  <2> DEFINE n == Len(context)
  <2>2. n \in Nat /\ n \in 1..n /\ Good(context[n]) /\ DOMAIN context = 1..n
    BY DEF EndsGood, SessionTypes
  <2> HIDE DEF n
  <2>3. R \in SUBSET (1..n) /\ n \in R
    BY <2>2 DEF Positions, Good
  <2>4. Latest(R) = n
    <3> HIDE DEF R
    <3> QED
      BY <2>2, <2>3, LatestIs
  <2> QED
    BY <2>1, <2>2, <2>4 DEF Good, Answered
<1> HIDE DEF ctx, entries, verdict
<1>4. CASE verdict = "overflow"
  BY <1>1, <1>2, <1>3, <1>4, AgreeTrimmed
<1>5. CASE verdict # "overflow"
  BY <1>1, <1>2, <1>5
<1> QED
  BY <1>4, <1>5

LEMMA RunsContext ==
  ASSUME SessionTypes, SessionTypes', ContextInv, NEW p \in Prompters, NEW todo, todo # <<>>, Runs(p, todo)
  PROVE  ContextInv'
<1> USE DEF records, retries
<1>1. deaf' = deaf /\ last' = last
  BY DEF Runs
<1>2. CASE run' = NewRun(todo, FALSE) /\ UNCHANGED records
  BY <1>1, <1>2 DEF ContextInv, Poised, NewRun
<1>3. CASE Settle(p, context, session) /\ Meanwhile /\ UNCHANGED run
  <2>1. Agree(context, session) => Agree(context', session') /\ (EndsGood(context') => EndsGood(context))
    BY <1>3, SettleContext DEF SessionTypes
  <2>2. Poised' => Poised
    BY <1>1, <1>3 DEF Poised, Answer, Replying, Meanwhile
  <2> QED
    BY <1>1, <1>3, <2>1, <2>2, CalmContext
<1> QED
  BY <1>2, <1>3 DEF Runs

LEMMA RunContext ==
  ASSUME SessionTypes, SavingTypes, ContextInv, RunStep
  PROVE  ContextInv'
<1>0. context \in Seq(Messages) /\ session \in Seq(Messages) /\ clock \in Nat
  BY DEF SessionTypes
<1>1. ASSUME Announce PROVE ContextInv'
  <2>1. run.todo \in Seq(Loose) /\ run.todo # <<>> /\ Finished(Head(run.todo))
    BY <1>1 DEF Announce, SessionTypes, RunRecords
  <2>2. Head(run.todo) \in Loose
    BY <2>1, HeadTailProperties
  <2> QED
    BY <2>1, <2>2, Made, SaidContext DEF Loose, IsReply, IsCompaction
<1>2. ASSUME Poll PROVE ContextInv'
  <2>1. Poised /\ UNCHANGED <<context, session, deaf>>
    BY <1>2 DEF Poll, Poised, records, history
  <2>2. UNCHANGED <<saving, crossed>>
    BY <1>2 DEF Poll, records
  <2> QED
    BY <2>1, <2>2 DEF ContextInv
<1>3. ASSUME NEW kind \in Replies \union {"stop"}, Reply(kind) PROVE ContextInv'
  <2> DEFINE m == Message("assistant", kind, clock)
  <2>1. m \in Messages /\ IsReply(m) /\ ~IsCompaction(m)
    <3>1. kind \in ReplyKinds
      BY SessionAssumption DEF ReplyKinds
    <3> QED
      BY <1>0, <3>1, Made, Fields DEF IsReply, IsCompaction
  <2>2. /\ run.at = "turn" /\ run.todo = <<>> /\ Finished(m)
        /\ run'.at \notin {"prompts", "turn"}
    BY <1>3 DEF Reply, SessionTypes, RunRecords
  <2> HIDE DEF m
  <2> SUFFICES ASSUME ~deaf', ~crossed'
               PROVE  Agree(context', session' \o saving') /\ (Poised' => ~EndsGood(context'))
    BY DEF ContextInv
  <2>3. /\ ~deaf /\ ~crossed /\ saving = <<>>
        /\ context' = Append(context, m) /\ session' = session /\ saving' = <<m>>
    BY <2>2 DEF Finished
  <2>4. Agree(context, session) /\ ~EndsGood(context)
    BY <1>0, <2>2, <2>3, Ledger DEF ContextInv, Poised
  <2>5. session' \o saving' = Append(session, m)
    BY <1>0, <2>1, <2>3, Ledger
  <2>6. Agree(context', session' \o saving') /\ (EndsGood(context') <=> Good(m))
    BY <1>0, <2>1, <2>3, <2>4, <2>5, AgreeAppend
  <2>7. Poised' => ~Answered(m)
    <3>1. saving' # <<>> /\ saving'[1] = m
      BY <2>3
    <3>2. Answer' = <<m>>
      BY <2>1, <2>3, <3>1 DEF Answer, Replying
    <3> QED
      BY <2>2, <3>2 DEF Poised
  <2> QED
    BY <2>6, <2>7 DEF Good
<1>4. ASSUME ToolResult PROVE ContextInv'
  <2> DEFINE m == Message("result", "text", clock)
  <2>1. m \in Messages /\ ~IsReply(m) /\ ~IsCompaction(m) /\ Finished(m)
    BY <1>0, <1>4, Made, Fields DEF ToolResult, IsReply, IsCompaction
  <2> HIDE DEF m
  <2> QED
    BY <2>1, SaidContext
<1>5. ASSUME Stopping PROVE ContextInv'
  <2>1. run.at = "stopping" /\ UNCHANGED <<context, session, last, saving, crossed, deaf>>
    BY <1>5 DEF Stopping, records, retries, history
  <2>2. run'.at = "ending" \/ (run'.at = "turn" /\ run'.todo # <<>>)
    <3>1. CASE steering # <<>>
      <4>1. run' = [run EXCEPT !.at = "turn", !.todo = Drained(Mode, steering)]
        BY <1>5, <3>1 DEF Stopping
      <4>2. Drained(Mode, steering) # <<>>
        BY <3>1, Drain DEF SessionTypes
      <4> QED
        BY <4>1, <4>2 DEF SessionTypes, RunRecords
    <3>2. CASE steering = <<>> /\ followUp # <<>>
      <4>1. run' = [run EXCEPT !.at = IF followUp = <<>> THEN "ending" ELSE "turn",
                               !.todo = Drained(Mode, followUp)]
        BY <1>5, <3>2 DEF Stopping
      <4>2. Drained(Mode, followUp) # <<>>
        BY <3>2, Drain DEF SessionTypes
      <4> QED
        BY <3>2, <4>1, <4>2 DEF SessionTypes, RunRecords
    <3>3. CASE steering = <<>> /\ followUp = <<>>
      <4>1. run' = [run EXCEPT !.at = IF followUp = <<>> THEN "ending" ELSE "turn",
                               !.todo = Drained(Mode, followUp)]
        BY <1>5, <3>3 DEF Stopping
      <4>2. run \in RunRecords
        BY DEF SessionTypes
      <4>3. run'.at = IF followUp = <<>> THEN "ending" ELSE "turn"
        BY <4>1, <4>2 DEF RunRecords
      <4> QED
        BY <3>3, <4>3
    <3> QED
      BY <3>1, <3>2, <3>3
  <2>3. Poised' => Poised
    BY <2>1, <2>2 DEF Poised, Answer, Replying
  <2> QED
    BY <2>1, <2>3 DEF ContextInv
<1>6. ASSUME Save PROVE ContextInv'
  <2>1. PICK m \in Messages : saving = <<m>>
    BY <1>6 DEF Save, SavingTypes
  <2>2. /\ session' = Append(session, m) /\ saving' = <<>> /\ UNCHANGED <<context, crossed, deaf, run>>
        /\ last' = IF IsReply(m) THEN saving ELSE last
    BY <1>6, <2>1 DEF Save, history, retries
  <2>3. session' \o saving' = session \o saving
    <3>1. session' \in Seq(Messages) /\ session \o <<m>> = Append(session, m)
      BY <1>0, <2>2, Ledger
    <3>2. session' \o <<>> = session'
      BY <3>1, Ledger
    <3> QED
      BY <2>1, <2>2, <3>1, <3>2
  <2>4. Answer' = Answer
    BY <2>1, <2>2 DEF Answer, Replying
  <2> QED
    BY <2>2, <2>3, <2>4 DEF ContextInv, Poised
<1> QED
  BY <1>1, <1>2, <1>3, <1>4, <1>5, <1>6 DEF RunStep

LEMMA ContextSteps ==
  ASSUME SessionTypes, SavingTypes, IdleInv, ContextInv, [Next]_vars
  PROVE  ContextInv'
<1> USE DEF queues, shown, records, retries, calls, manual, history, bounds
<1>0. /\ context \in Seq(Messages) /\ session \in Seq(Messages) /\ clock \in Nat
      /\ SessionTypes'
  BY Types DEF SessionTypes
<1>1. ASSUME UNCHANGED <<context, session, saving, crossed, last, deaf>>, run'.at = run.at,
             run'.todo = run.todo
      PROVE  ContextInv'
  BY <1>1 DEF ContextInv, Poised, Answer, Replying
<1>18. ASSUME UNCHANGED <<run, last>>, Meanwhile PROVE Poised' => Poised
  BY <1>18 DEF Poised, Answer, Replying, Meanwhile
<1>2. ASSUME NEW m \in Messages, ~IsReply(m), ~IsCompaction(m), Recorded(m),
             UNCHANGED <<run, last, deaf>>
      PROVE  ContextInv'
  <2>1. Agree(context, session) => Agree(context', session') /\ ~EndsGood(context')
    BY <1>0, <1>2, AgreeAppend DEF Recorded, Good
  <2>2. Meanwhile
    BY <1>2 DEF Recorded
  <2> QED
    BY <1>0, <1>2, <1>18, <2>1, <2>2, CalmContext
<1>3. ASSUME NEW p \in Prompters, Submit(p) PROVE ContextInv'
  <2>1. UNCHANGED <<run, last, deaf>> /\ Meanwhile
    BY <1>3 DEF Submit
  <2>2. Agree(context, session) => Agree(context', session') /\ (EndsGood(context') => EndsGood(context))
    BY <1>3, SubmitAgree
  <2> QED
    BY <1>0, <1>18, <2>1, <2>2, CalmContext
<1>4. ASSUME NEW p \in Prompters, SendTrigger(p) PROVE ContextInv'
  <2> DEFINE todo == <<Message("custom", "text", clock)>>
  <2>1. Runs(p, todo) /\ todo # <<>>
    BY <1>4 DEF SendTrigger
  <2> HIDE DEF todo
  <2> QED
    BY <1>0, <2>1, RunsContext
<1>5. ASSUME NEW p \in Prompters, Run(p) PROVE ContextInv'
  <2>1. Runs(p, msgs[p]) /\ msgs[p] # <<>>
    BY <1>5 DEF Run, IdleInv, Grounded
  <2> QED
    BY <1>0, <2>1, RunsContext
<1>6. ASSUME NEW p \in Prompters, RunUnheard(p) PROVE ContextInv'
  <2>1. Settle(p, context, session) /\ run' = NoRun /\ deaf' = deaf /\ Meanwhile
    BY <1>6 DEF RunUnheard
  <2>2. Agree(context, session) => Agree(context', session') /\ (EndsGood(context') => EndsGood(context))
    BY <1>0, <2>1, SettleContext
  <2> QED
    BY <1>0, <2>1, <2>2, CalmContext DEF Poised, NoRun
<1>7. ASSUME NEW p \in Prompters, Retry(p) PROVE ContextInv'
  <2>1. /\ run.at = "ending" /\ last # <<>> /\ last[1].kind = "error" /\ last[1].role = "assistant"
        /\ run' = NoRun /\ deaf' = deaf /\ context' = WithoutTrailingReply(context) /\ session' = session
        /\ saving = <<>> /\ saving' = <<>> /\ crossed' = crossed /\ session \o saving = session
    BY <1>0, <1>7, Ledger DEF Retry, RunIsOver, NoMoreRetries, SessionTypes
  <2>2. Poised
    BY <2>1 DEF Poised, Answer, Replying, Answered, Failed, IsReply
  <2>3. ~deaf /\ ~crossed => Agree(context', session' \o saving')
    BY <1>0, <2>1, <2>2, AgreeTrimmed DEF ContextInv
  <2> QED
    BY <2>1, <2>3 DEF ContextInv, Poised, NoRun
<1>8. ASSUME NEW p \in Prompters, PreflightDone(p) PROVE ContextInv'
  <2>1. /\ UNCHANGED <<run, last, deaf>> /\ Meanwhile
        /\ \/ session' = Compacted(held[p].id) /\ context' = ContextAfter(p)
           \/ UNCHANGED <<session, context>>
    BY <1>8 DEF PreflightDone
  <2>2. Agree(context, session) => Agree(context', session') /\ (EndsGood(context') => EndsGood(context))
    BY <2>1, AgreeAfter
  <2> QED
    BY <1>0, <1>18, <2>1, <2>2, CalmContext
<1>9. ASSUME NEW p \in Prompters, CallStep(p) PROVE ContextInv'
  <2>1. ASSUME Settled(p) PROVE ContextInv'
    BY <1>1, <2>1 DEF Settled
  <2> QED
    BY <1>0, <1>5, <1>6, <1>7, <1>8, <1>9, <2>1, EndsContext DEF CallStep, EndStep
<1>10. ASSUME Note \/ BashDone PROVE ContextInv'
  <2>1. CASE Note
    <3> DEFINE m == Message("custom", "text", clock)
    <3>1. m \in Messages /\ ~IsReply(m) /\ ~IsCompaction(m) /\ Recorded(m) /\ UNCHANGED <<run, last, deaf>>
      BY <1>0, <2>1, Made, Fields DEF Note, IsReply, IsCompaction
    <3> HIDE DEF m
    <3> QED
      BY <1>2, <3>1
  <2>2. CASE BashDone
    <3> DEFINE m == Message("bash", "text", clock)
    <3>1. /\ m \in Messages /\ ~IsReply(m) /\ ~IsCompaction(m) /\ UNCHANGED <<run, last, deaf>>
          /\ Recorded(m) \/ UNCHANGED <<context, session, saving, crossed>>
      BY <1>0, <2>2, Made, Fields DEF BashDone, IsReply, IsCompaction
    <3> HIDE DEF m
    <3> QED
      BY <1>1, <1>2, <3>1
  <2> QED
    BY <1>10, <2>1, <2>2
<1>11. ASSUME \/ \E content \in Contents : Steer(content) \/ FollowUp(content)
              \/ QueueCustom \/ PushNextTurn \/ ClearQueue
       PROVE  ContextInv'
  BY <1>1, <1>11 DEF Steer, FollowUp, QueueCustom, PushNextTurn, ClearQueue
<1>12. ASSUME NEW w, Aborts(w) PROVE run'.at = run.at /\ run'.todo = run.todo
  BY <1>12 DEF Aborts, SessionTypes, RunRecords
<1>13. ASSUME NEW w \in Waiters, Abort(w) \/ Wait(w) PROVE ContextInv'
  BY <1>1, <1>12, <1>13 DEF Abort, Wait
<1>14. ASSUME Outside PROVE ContextInv'
  BY <1>10, <1>11, <1>13, <1>14 DEF Outside
<1>15. ASSUME Compact \/ CompactPrepares PROVE ContextInv'
  BY <1>1, <1>12, <1>15 DEF Compact, CompactPrepares
<1>16. ASSUME CompactEnds PROVE ContextInv'
  <2> DEFINE c == CompactionOf(clock, keeping)
  <2>0. clock \in Nat /\ keeping \in Nat
    BY DEF SessionTypes
  <2>1. c \in Messages /\ IsCompaction(c) /\ Compacted(keeping) = Append(session, c)
    <3>1. c \in Messages /\ IsCompaction(c)
      BY <2>0, Made, Fields DEF IsCompaction
    <3>2. Compacted(keeping) = Append(session, c)
      BY DEF Compacted
    <3> QED
      BY <3>1, <3>2
  <2>2. /\ UNCHANGED <<run, last, deaf>> /\ Meanwhile
        /\ \/ session' = Append(session, c) /\ context' = BuildContext(Append(session, c))
           \/ UNCHANGED <<session, context>>
    BY <1>16, <2>1 DEF CompactEnds
  <2> HIDE DEF c
  <2>3. Agree(context, session) => Agree(context', session') /\ (EndsGood(context') => EndsGood(context))
    <3> SUFFICES ASSUME Agree(context, session), session' = Append(session, c),
                        context' = BuildContext(Append(session, c))
                 PROVE  Agree(context', session') /\ (EndsGood(context') => EndsGood(context))
      BY <2>2
    <3>1. Agree(context, session)
      OBVIOUS
    <3>2. Agree(context', session') /\ (EndsGood(context') => EndsGood(session))
      BY <1>0, <2>1, <3>1, AgreeRebuilt DEF Agree
    <3> QED
      BY <1>0, <3>1, <3>2, AgreeEnds
  <2> QED
    BY <1>0, <1>18, <2>2, <2>3, CalmContext
<1>17. ASSUME UNCHANGED vars PROVE ContextInv'
  BY <1>1, <1>17 DEF vars
<1> QED
  BY <1>3, <1>4, <1>9, <1>14, <1>15, <1>16, <1>17, RunContext DEF Next

\* What the model is shown is what the session file would rebuild once the message
\* that is being saved is there, but for the replies that failed: as long as the
\* session has heard all that was said, and nothing else was recorded or rebuilt
\* while a message was being saved.
THEOREM SessionKeepsTheContext == Spec => []ContextIsSession
<1>1. Init => SessionTypes /\ SavingTypes /\ IdleInv /\ ContextInv
  <2> SUFFICES ASSUME Init PROVE ContextInv
    BY IdleStarts
  <2>1. context = <<>> /\ session \o saving = <<>>
    <3>1. context = <<>> /\ session = <<>> /\ saving = <<>> /\ <<>> \in Seq(Messages)
      BY DEF Init
    <3> QED
      BY <3>1, ConcatEmptySeq
  <2>2. Positions(<<>>, IsCompaction) = {}
    BY DEF Positions
  <2>3. BuildContext(<<>>) = <<>>
    BY <2>2 DEF BuildContext
  <2>4. NoRow(<<>>)
    BY DEF NoRow
  <2> QED
    BY <2>1, <2>3, <2>4 DEF ContextInv, Agree, EndsGood
<1>2. SessionTypes /\ SavingTypes /\ IdleInv /\ ContextInv /\ [Next]_vars
        => (SessionTypes /\ SavingTypes /\ IdleInv /\ ContextInv)'
  BY Types, SavingKept, Idle, ContextSteps
<1>3. ContextInv => ContextIsSession
  BY DEF ContextInv, Agree, ContextIsSession
<1> QED
  BY <1>1, <1>2, <1>3, PTL DEF Spec

-----------------------------------------------------------------------------
(* Ids.  A compaction keeps from an entry it names by its id: nothing that *)
(* is no result has the id of one.                                         *)

Ids(s) == {s[i].id : i \in DOMAIN s}
Results(s) == {s[i].id : i \in {j \in DOMAIN s : s[j].role = "result"}}
Said(s) == {s[i].id : i \in {j \in DOMAIN s : s[j].role # "result"}}

\* What compactions that are under way will keep from.
Keeps ==
  {held[p].id : p \in {q \in Prompters : pc[q] \in {"preflight", "compacting"}}}
  \union {keeping : x \in {y \in {0} : compactor = "compacting"}}

\* The ids of all that is no result and is in the session, may yet enter it, or
\* is named as what will be kept.
Others ==
  Said(session) \union Said(saving) \union Ids(pendingBash) \union Ids(nextTurn) \union Ids(steering)
  \union Ids(followUp) \union Ids(run.todo) \union (UNION {Ids(msgs[p]) : p \in Prompters})
  \union Keeps

Older(n) == {i \in Nat : i < n}
Told == Results(session) \union Results(saving)
IdInv == /\ Told \union Others \subseteq Older(clock)
         /\ Told \intersect Others = {}

LEMMA IdsAppend ==
  ASSUME NEW s \in Seq(Messages), NEW m \in Messages
  PROVE  /\ Ids(Append(s, m)) = Ids(s) \union {m.id}
         /\ m.role = "result" => /\ Results(Append(s, m)) = Results(s) \union {m.id}
                                 /\ Said(Append(s, m)) = Said(s)
         /\ m.role # "result" => /\ Results(Append(s, m)) = Results(s)
                                 /\ Said(Append(s, m)) = Said(s) \union {m.id}
<1> DEFINE t == Append(s, m)
           n == Len(s)
<1>1. /\ n \in Nat /\ DOMAIN t = 1..(n + 1) /\ DOMAIN s = 1..n /\ t[n + 1] = m
      /\ \A i \in 1..n : t[i] = s[i]
  OBVIOUS
<1>2. \A i \in 1..(n + 1) : i \in 1..n \/ i = n + 1
  BY <1>1
<1>3. n + 1 \in 1..(n + 1) /\ 1..n \subseteq 1..(n + 1)
  BY <1>1
<1> HIDE DEF t, n
<1>4. Ids(t) = Ids(s) \union {m.id}
  BY <1>1, <1>2, <1>3 DEF Ids
<1>5. m.role = "result" => Results(t) = Results(s) \union {m.id} /\ Said(t) = Said(s)
  BY <1>1, <1>2, <1>3 DEF Results, Said
<1>6. m.role # "result" => Results(t) = Results(s) /\ Said(t) = Said(s) \union {m.id}
  BY <1>1, <1>2, <1>3 DEF Results, Said
<1> QED
  BY <1>4, <1>5, <1>6 DEF t

LEMMA IdsJoin ==
  ASSUME NEW s \in Seq(Messages), NEW t \in Seq(Messages)
  PROVE  /\ Ids(s \o t) = Ids(s) \union Ids(t)
         /\ (\A i \in DOMAIN t : t[i].role # "result") =>
              Results(s \o t) = Results(s) /\ Said(s \o t) = Said(s) \union Ids(t)
<1> DEFINE u == s \o t
           n == Len(s)
           k == Len(t)
<1>1. /\ n \in Nat /\ k \in Nat /\ DOMAIN u = 1..(n + k) /\ DOMAIN s = 1..n /\ DOMAIN t = 1..k
      /\ \A i \in 1..n : u[i] = s[i]
      /\ \A i \in 1..k : u[n + i] = t[i]
  OBVIOUS
<1>2. /\ \A i \in 1..(n + k) : i \in 1..n \/ (i - n \in 1..k /\ i = n + (i - n))
      /\ \A i \in 1..n : i \in 1..(n + k)
      /\ \A i \in 1..k : n + i \in 1..(n + k)
  BY <1>1
<1> HIDE DEF u, n, k
<1>3. \A i \in DOMAIN u : (i \in DOMAIN s /\ u[i] = s[i]) \/ \E j \in DOMAIN t : u[i] = t[j]
  <2> SUFFICES ASSUME NEW i \in 1..(n + k)
               PROVE  (i \in DOMAIN s /\ u[i] = s[i]) \/ \E j \in DOMAIN t : u[i] = t[j]
    BY <1>1
  <2>1. CASE i \in 1..n
    BY <1>1, <2>1
  <2>2. CASE i - n \in 1..k /\ i = n + (i - n)
    <3>1. u[i] = t[i - n]
      BY <1>1, <2>2
    <3> QED
      BY <1>1, <2>2, <3>1
  <2> QED
    BY <1>2, <2>1, <2>2
<1>4. /\ \A i \in DOMAIN s : i \in DOMAIN u /\ u[i] = s[i]
      /\ \A j \in DOMAIN t : \E i \in DOMAIN u : u[i] = t[j]
  BY <1>1, <1>2
<1>5. Ids(u) = Ids(s) \union Ids(t)
  BY <1>3, <1>4 DEF Ids
<1>6. ASSUME \A i \in DOMAIN t : t[i].role # "result"
      PROVE  Results(u) = Results(s) /\ Said(u) = Said(s) \union Ids(t)
  <2>1. Results(u) = Results(s)
    BY <1>3, <1>4, <1>6 DEF Results
  <2>2. Said(u) = Said(s) \union Ids(t)
    BY <1>3, <1>4, <1>6 DEF Said, Ids
  <2> QED
    BY <2>1, <2>2
<1> QED
  BY <1>5, <1>6 DEF u

LEMMA IdsHead ==
  ASSUME NEW s \in Seq(Messages), s # <<>>
  PROVE  /\ Head(s).id \in Ids(s) /\ Ids(Tail(s)) \subseteq Ids(s)
         /\ Ids(<<Head(s)>>) \subseteq Ids(s)
<1> DEFINE n == Len(s)
<1>1. /\ n \in Nat /\ n >= 1 /\ DOMAIN s = 1..n /\ Head(s) = s[1] /\ DOMAIN Tail(s) = 1..(n - 1)
      /\ \A i \in 1..(n - 1) : Tail(s)[i] = s[i + 1]
  <2>1. Len(s) >= 1 /\ Len(s) \in Nat
    BY EmptySeq
  <2> QED
    BY <2>1, HeadTailProperties
<1>2. 1 \in 1..n /\ \A i \in 1..(n - 1) : i + 1 \in 1..n
  BY <1>1
<1> HIDE DEF n
<1>3. Head(s).id \in Ids(s)
  BY <1>1, <1>2 DEF Ids
<1>4. Ids(Tail(s)) \subseteq Ids(s)
  BY <1>1, <1>2 DEF Ids
<1>5. Ids(<<Head(s)>>) = {Head(s).id}
  BY DEF Ids
<1> QED
  BY <1>3, <1>4, <1>5

LEMMA IdsEmpty == Ids(<<>>) = {} /\ Results(<<>>) = {} /\ Said(<<>>) = {}
BY DEF Ids, Results, Said

LEMMA IdsDrained ==
  ASSUME NEW q \in Seq(Messages)
  PROVE  Ids(Drained(Mode, q)) \subseteq Ids(q) /\ Ids(Remaining(Mode, q)) \subseteq Ids(q)
BY Drain, IdsHead, IdsEmpty

LEMMA OthersHave ==
  ASSUME SessionTypes
  PROVE  /\ Said(session) \subseteq Others /\ Ids(pendingBash) \subseteq Others
         /\ Said(saving) \subseteq Others
         /\ Ids(nextTurn) \subseteq Others /\ Ids(steering) \subseteq Others
         /\ Ids(followUp) \subseteq Others /\ Ids(run.todo) \subseteq Others
         /\ \A p \in Prompters : Ids(msgs[p]) \subseteq Others
         /\ \A p \in Prompters : pc[p] \in {"preflight", "compacting"} => held[p].id \in Others
         /\ compactor = "compacting" => keeping \in Others
<1>1. /\ \A p \in Prompters : pc[p] \in {"preflight", "compacting"} => held[p].id \in Keeps
      /\ compactor = "compacting" => keeping \in Keeps
  BY DEF Keeps
<1>2. Keeps \subseteq Others /\ \A p \in Prompters : Ids(msgs[p]) \subseteq Others
  BY DEF Others
<1>3. /\ Said(session) \subseteq Others /\ Ids(pendingBash) \subseteq Others
      /\ Said(saving) \subseteq Others
      /\ Ids(nextTurn) \subseteq Others /\ Ids(steering) \subseteq Others
      /\ Ids(followUp) \subseteq Others /\ Ids(run.todo) \subseteq Others
  BY DEF Others
<1> QED
  BY <1>1, <1>2, <1>3

\* What becomes new after a step, and what was there.
Reach == Others \union (Older(clock') \ Older(clock))

LEMMA ReachHas ==
  ASSUME SessionTypes
  PROVE  Others \subseteq Reach /\ \A n \in Nat : clock <= n /\ n < clock' => n \in Reach
BY DEF Reach, Older, SessionTypes

Placed(X) ==
  /\ Said(session') \subseteq X /\ Said(saving') \subseteq X
  /\ Ids(pendingBash') \subseteq X /\ Ids(nextTurn') \subseteq X
  /\ Ids(steering') \subseteq X /\ Ids(followUp') \subseteq X /\ Ids(run'.todo) \subseteq X
  /\ \A p \in Prompters : Ids(msgs'[p]) \subseteq X
  /\ \A p \in Prompters : pc'[p] \in {"preflight", "compacting"} => held'[p].id \in X
  /\ compactor' = "compacting" => keeping' \in X

LEMMA OthersIn ==
  ASSUME NEW X, Placed(X)
  PROVE  Others' \subseteq X
<1>1. Keeps' \subseteq X
  BY DEF Keeps, Placed
<1>2. (UNION {Ids(msgs[p]) : p \in Prompters})' \subseteq X
  BY DEF Placed
<1>3. /\ Said(session)' \subseteq X /\ Said(saving)' \subseteq X
      /\ Ids(pendingBash)' \subseteq X /\ Ids(nextTurn)' \subseteq X
      /\ Ids(steering)' \subseteq X /\ Ids(followUp)' \subseteq X /\ Ids(run.todo)' \subseteq X
  BY DEF Placed, Said, Ids
<1> QED
  BY <1>1, <1>2, <1>3 DEF Others

\* A step that makes no result: what it adds has new ids.
LEMMA IdSaves ==
  ASSUME SessionTypes, SessionTypes', IdInv, clock <= clock',
         Results(session') \union Results(saving') \subseteq Told, Placed(Reach)
  PROVE  IdInv'
<1>1. Others' \subseteq Reach
  BY OthersIn
<1>2. clock \in Nat /\ clock' \in Nat
  BY DEF SessionTypes
<1>3. Older(clock) \subseteq Older(clock')
  BY <1>2 DEF Older
<1>4. Told' \subseteq Told
  <2>1. Told' = Results(session') \union Results(saving')
    BY DEF Told, Results
  <2> QED
    BY <2>1
<1> QED
  BY <1>1, <1>3, <1>4 DEF IdInv, Reach

LEMMA IdMoves ==
  ASSUME SessionTypes, SessionTypes', IdInv, clock <= clock', saving' = saving,
         Results(session') \subseteq Results(session), Placed(Reach)
  PROVE  IdInv'
<1>1. Results(saving') = Results(saving)
  OBVIOUS
<1>2. Results(session') \union Results(saving') \subseteq Told
  BY <1>1 DEF Told
<1> QED
  BY <1>2, IdSaves

LEMMA IdResult ==
  ASSUME SessionTypes, SessionTypes', IdInv, clock' = clock + 1,
         Results(session') \union Results(saving') \subseteq Told \union {clock}, Placed(Others)
  PROVE  IdInv'
<1>1. Others' \subseteq Others
  BY OthersIn
<1>2. clock \in Nat
  BY DEF SessionTypes
<1>3. Older(clock) \subseteq Older(clock') /\ clock \in Older(clock') /\ clock \notin Older(clock)
  BY <1>2 DEF Older
<1>4. Told' \subseteq Told \union {clock}
  <2>1. Told' = Results(session') \union Results(saving')
    BY DEF Told, Results
  <2> QED
    BY <2>1
<1> QED
  BY <1>1, <1>3, <1>4 DEF IdInv

LEMMA EndSources ==
  ASSUME SessionTypes, NEW p \in Prompters, EndStep(p)
  PROVE  \E ctx \in Seq(Messages), entries \in Seq(Messages) :
           /\ GoesOn(p, ctx, entries)
           /\ \/ entries = session /\ ctx \in {context, WithoutTrailingReply(context)}
              \/ /\ pc[p] = "compacting" /\ clock' = clock + 1
                 /\ entries = Compacted(held[p].id) /\ ctx = ContextAfter(p)
<1>0. /\ context \in Seq(Messages) /\ session \in Seq(Messages)
      /\ WithoutTrailingReply(context) \in Seq(Messages)
  BY Trimmed DEF SessionTypes
<1>1. ASSUME NEW m, CheckCompaction(p, m)
      PROVE  \E ctx \in {context, WithoutTrailingReply(context)} : GoesOn(p, ctx, session)
  BY <1>1, Checks
<1>2. CASE RunEnds(p)
  <2>1. CheckCompaction(p, last[1])
    BY <1>2 DEF RunEnds
  <2> QED
    BY <1>0, <1>1, <2>1
<1>3. CASE DelayAborted(p)
  <2>1. CheckCompaction(p, Message("assistant", "error", held[p].id))
    BY <1>3 DEF DelayAborted
  <2> QED
    BY <1>0, <1>1, <2>1
<1>4. CASE DelayOver(p)
  <2>1. GoesOn(p, context, session)
    BY <1>4, Resumes DEF DelayOver, GoesOn, Declines
  <2> QED
    BY <1>0, <2>1
<1>5. CASE CompactionFails(p)
  <2>1. GoesOn(p, context, session)
    BY <1>5, Proceeds DEF CompactionFails, GoesOn
  <2> QED
    BY <1>0, <2>1
<1>6. CASE CompactionDone(p)
  <2>1. /\ pc[p] = "compacting" /\ clock' = clock + 1
        /\ \/ Resume(p, ContextAfter(p), Compacted(held[p].id))
           \/ Proceed(p, ContextAfter(p), Compacted(held[p].id))
    BY <1>6 DEF CompactionDone
  <2>2. GoesOn(p, ContextAfter(p), Compacted(held[p].id))
    BY <2>1, Resumes, Proceeds DEF GoesOn, Declines
  <2> QED
    BY <2>1, <2>2, AfterCompaction
<1> QED
  BY <1>2, <1>3, <1>4, <1>5, <1>6 DEF EndStep

\* What is queued and what shell commands leave is no result.
LEMMA NoResults ==
  ASSUME SessionTypes
  PROVE  /\ pendingBash \in Seq(Messages) /\ \A i \in DOMAIN pendingBash : pendingBash[i].role # "result"
         /\ steering \in Seq(Messages) /\ followUp \in Seq(Messages) /\ run.todo \in Seq(Messages)
         /\ nextTurn \in Seq(Messages) /\ \A p \in Prompters : msgs[p] \in Seq(Messages)
<1>1. /\ pendingBash \in Seq(Bashes) /\ nextTurn \in Seq(Asides) /\ run.todo \in Seq(Loose)
      /\ steering \in Seq(Loose) /\ followUp \in Seq(Loose) /\ \A p \in Prompters : msgs[p] \in Seq(Loose)
  BY DEF SessionTypes, RunRecords
<1>2. Bashes \subseteq Messages /\ Asides \subseteq Messages /\ Loose \subseteq Messages
  BY DEF Bashes, Asides, Loose
<1>3. \A i \in DOMAIN pendingBash : pendingBash[i].role # "result"
  BY <1>1 DEF Bashes
<1> QED
  BY <1>1, <1>2, <1>3

LEMMA CutsAreSaid ==
  ASSUME NEW s \in Seq(Messages), NEW i \in CutPoints(s)
  PROVE  s[i].id \in Said(s)
<1>1. i \in DOMAIN s /\ s[i].role # "result"
  BY Cuts
<1> QED
  BY <1>1 DEF Said

LEMMA GoesOnIds ==
  ASSUME SessionTypes, SessionTypes', IdInv, NEW p \in Prompters, NEW ctx, NEW entries \in Seq(Messages),
         GoesOn(p, ctx, entries), clock <= clock', Results(entries) = Results(session),
         Said(entries) \subseteq Reach, UNCHANGED <<saving, nextTurn, msgs, manual>>
  PROVE  IdInv'
<1> USE DEF Put, manual, queues
<1>0. /\ Placed(Reach) <=> /\ Said(session') \subseteq Reach /\ Ids(pendingBash') \subseteq Reach
                           /\ Ids(steering') \subseteq Reach /\ Ids(followUp') \subseteq Reach
                           /\ Ids(run'.todo) \subseteq Reach
                           /\ \A q \in Prompters : pc'[q] \in {"preflight", "compacting"} =>
                                                     held'[q].id \in Reach
      /\ Said(session) \subseteq Reach /\ Said(saving) \subseteq Reach
      /\ Ids(pendingBash) \subseteq Reach
      /\ Ids(steering) \subseteq Reach /\ Ids(followUp) \subseteq Reach /\ Ids(run.todo) \subseteq Reach
      /\ \A q \in Prompters : pc[q] \in {"preflight", "compacting"} => held[q].id \in Reach
  BY OthersHave, ReachHas DEF Placed
<1>1. pc \in [Prompters -> Places] /\ held \in [Prompters -> [id : Nat, retry : BOOLEAN]]
  BY DEF SessionTypes
<1>2. Ids(Released(p).todo) \subseteq Reach
  BY <1>0, IdsEmpty DEF Released, NoRun
<1>3. CASE Continues(p, ctx, entries)
  <2>1. session' = entries /\ pendingBash' = pendingBash /\ pc' = [pc EXCEPT ![p] = "running"]
        /\ held' = [held EXCEPT ![p] = Nothing]
    BY <1>3 DEF Continues
  <2>2. \A q \in Prompters : pc'[q] \in {"preflight", "compacting"} => held'[q].id \in Reach
    BY <1>0, <1>1, <2>1
  <2>3. Ids(run'.todo) \subseteq Reach /\ Ids(steering') \subseteq Reach /\ Ids(followUp') \subseteq Reach
    <3>1. PICK todo, skip :
            /\ run' = NewRun(todo, skip)
            /\ \/ todo = <<>> /\ UNCHANGED queues
               \/ /\ todo = Drained(Mode, steering)
                  /\ steering' = Remaining(Mode, steering) /\ UNCHANGED followUp
               \/ /\ todo = Drained(Mode, followUp)
                  /\ followUp' = Remaining(Mode, followUp) /\ UNCHANGED steering
      BY <1>3 DEF Continues
    <3>2. run'.todo = todo
      BY <3>1 DEF NewRun
    <3> QED
      BY <1>0, <3>1, <3>2, IdsEmpty, IdsDrained, NoResults
  <2>4. Placed(Reach) /\ Results(session') \subseteq Results(session)
    BY <1>0, <2>1, <2>2, <2>3
  <2> QED
    BY <2>4, IdMoves
<1>4. CASE Rests(p, ctx, entries)
  <2>1. /\ session' = entries \o pendingBash /\ pendingBash' = <<>> /\ pc' = [pc EXCEPT ![p] = "settling"]
        /\ held' = [held EXCEPT ![p] = Nothing] /\ run' = Released(p) /\ UNCHANGED <<steering, followUp>>
    BY <1>4 DEF Rests, Settle
  <2>2. \A q \in Prompters : pc'[q] \in {"preflight", "compacting"} => held'[q].id \in Reach
    BY <1>0, <1>1, <2>1
  <2>3. Results(session') = Results(entries) /\ Said(session') = Said(entries) \union Ids(pendingBash)
    BY <2>1, IdsJoin, NoResults
  <2>4. Placed(Reach) /\ Results(session') \subseteq Results(session)
    BY <1>0, <1>2, <2>1, <2>2, <2>3, IdsEmpty
  <2> QED
    BY <2>4, IdMoves
<1>5. CASE Compacts(p, ctx)
  <2>1. /\ session' = session /\ pendingBash' = pendingBash /\ pc' = [pc EXCEPT ![p] = "compacting"]
        /\ run' = Released(p) /\ UNCHANGED <<steering, followUp>>
    BY <1>5 DEF Compacts
  <2>2. PICK i \in CutPoints(session), retry \in BOOLEAN :
          held' = [held EXCEPT ![p] = [id |-> session[i].id, retry |-> retry]]
    BY <1>5 DEF Compacts
  <2>3. held'[p].id = session[i].id /\ \A q \in Prompters \ {p} : held'[q] = held[q] /\ pc'[q] = pc[q]
    BY <1>1, <2>1, <2>2
  <2>4. session[i].id \in Reach
    <3>1. session[i].id \in Said(session)
      BY CutsAreSaid DEF SessionTypes
    <3> QED
      BY <1>0, <3>1
  <2>5. \A q \in Prompters : pc'[q] \in {"preflight", "compacting"} => held'[q].id \in Reach
    BY <1>0, <2>3, <2>4
  <2>6. Placed(Reach) /\ Results(session') \subseteq Results(session)
    BY <1>0, <1>2, <2>1, <2>5
  <2> QED
    BY <2>6, IdMoves
<1> QED
  BY <1>3, <1>4, <1>5 DEF GoesOn

\* All that is known now is in Reach, and so is what is numbered by this step.
Known(X) ==
  /\ Said(session) \subseteq X /\ Said(saving) \subseteq X
  /\ Ids(pendingBash) \subseteq X /\ Ids(nextTurn) \subseteq X
  /\ Ids(steering) \subseteq X /\ Ids(followUp) \subseteq X /\ Ids(run.todo) \subseteq X
  /\ \A p \in Prompters : Ids(msgs[p]) \subseteq X
  /\ \A p \in Prompters : pc[p] \in {"preflight", "compacting"} => held[p].id \in X
  /\ compactor = "compacting" => keeping \in X
  /\ Ids(<<>>) \subseteq X

LEMMA KnownIs ==
  ASSUME SessionTypes
  PROVE  Known(Others) /\ Known(Reach)
BY OthersHave, ReachHas, IdsEmpty DEF Known

LEMMA CompactedIds ==
  ASSUME SessionTypes, NEW n \in Nat
  PROVE  /\ Compacted(n) \in Seq(Messages) /\ Results(Compacted(n)) = Results(session)
         /\ Said(Compacted(n)) = Said(session) \union {clock}
<1>1. /\ CompactionOf(clock, n) \in Messages /\ CompactionOf(clock, n).role # "result"
      /\ CompactionOf(clock, n).id = clock /\ session \in Seq(Messages)
  BY Made, Fields DEF SessionTypes
<1> QED
  BY <1>1, IdsAppend DEF Compacted

LEMMA BuiltIds ==
  ASSUME SessionTypes, NEW n \in Nat
  PROVE  Ids(<<Message("user", "text", n)>> \o nextTurn) = {n} \union Ids(nextTurn)
<1> DEFINE m == Message("user", "text", n)
<1>1. m \in Messages /\ m.id = n
  BY Made, Fields
<1> HIDE DEF m
<1>2. <<m>> \in Seq(Messages) /\ Ids(<<m>>) = {n}
  BY <1>1 DEF Ids
<1>3. Ids(<<m>> \o nextTurn) = {n} \union Ids(nextTurn)
  BY <1>2, IdsJoin, NoResults
<1> QED
  BY <1>3 DEF m

LEMMA RunsIds ==
  ASSUME SessionTypes, SessionTypes', IdInv, NEW p \in Prompters, NEW todo, Runs(p, todo),
         Ids(todo) \subseteq Reach, clock <= clock'
  PROVE  IdInv'
<1> USE DEF queues, manual, records
<1>0. /\ Known(Reach) /\ pc \in [Prompters -> Places] /\ held \in [Prompters -> [id : Nat, retry : BOOLEAN]]
      /\ msgs \in [Prompters -> Seq(Loose)]
  BY KnownIs DEF SessionTypes
<1>1. /\ msgs' = [msgs EXCEPT ![p] = <<>>]
      /\ UNCHANGED <<nextTurn, steering, followUp, compactor, keeping>>
  BY DEF Runs
<1>2. CASE run' = NewRun(todo, FALSE) /\ pc' = [pc EXCEPT ![p] = "running"] /\ UNCHANGED <<records, held>>
  <2>1. run'.todo = todo
    BY <1>2 DEF NewRun
  <2>2. Placed(Reach)
    BY <1>0, <1>1, <1>2, <2>1 DEF Known, Placed
  <2> QED
    BY <1>2, <2>2, IdMoves
<1>3. CASE Settle(p, context, session) /\ Meanwhile /\ UNCHANGED run
  <2>1. /\ session' = session \o pendingBash /\ pendingBash' = <<>>
        /\ pc' = [pc EXCEPT ![p] = "settling"] /\ held' = [held EXCEPT ![p] = Nothing]
        /\ saving' = saving
    BY <1>3 DEF Settle, Meanwhile
  <2>2. Results(session') = Results(session) /\ Said(session') = Said(session) \union Ids(pendingBash)
    BY <2>1, IdsJoin, NoResults DEF SessionTypes
  <2>3. Placed(Reach)
    BY <1>0, <1>1, <1>3, <2>1, <2>2 DEF Known, Placed
  <2> QED
    BY <2>1, <2>2, <2>3, IdMoves
<1> QED
  BY <1>2, <1>3 DEF Runs

LEMMA EndIds ==
  ASSUME SessionTypes, SessionTypes', IdInv, NEW p \in Prompters, EndStep(p)
  PROVE  IdInv'
<1>1. UNCHANGED <<saving, nextTurn, msgs, manual>> /\ clock' \in {clock, clock + 1}
  BY Ends DEF Meanwhile
<1>2. PICK ctx \in Seq(Messages), entries \in Seq(Messages) :
        /\ GoesOn(p, ctx, entries)
        /\ \/ entries = session
           \/ pc[p] = "compacting" /\ clock' = clock + 1 /\ entries = Compacted(held[p].id)
  BY EndSources
<1>3. clock \in Nat /\ clock <= clock' /\ held[p].id \in Nat
  <2>1. clock \in Nat /\ held \in [Prompters -> [id : Nat, retry : BOOLEAN]]
    BY DEF SessionTypes
  <2>2. clock <= clock'
    BY <1>1, <2>1
  <2> QED
    BY <2>1, <2>2
<1>4. Results(entries) = Results(session) /\ Said(entries) \subseteq Reach
  <2>1. Said(session) \subseteq Reach
    BY KnownIs DEF Known
  <2>2. CASE entries = session
    BY <2>1, <2>2
  <2>3. CASE clock' = clock + 1 /\ entries = Compacted(held[p].id)
    <3>1. clock \in Reach
      BY <1>3, <2>3, ReachHas
    <3> QED
      BY <1>3, <2>1, <2>3, <3>1, CompactedIds
  <2> QED
    BY <1>2, <2>2, <2>3
<1> QED
  BY <1>1, <1>2, <1>3, <1>4, GoesOnIds

LEMMA SubmitIds ==
  ASSUME SessionTypes, SessionTypes', IdInv, NEW p \in Prompters, Submit(p)
  PROVE  IdInv'
<1> USE DEF queues, manual
<1>0. /\ Known(Reach) /\ pc \in [Prompters -> Places] /\ held \in [Prompters -> [id : Nat, retry : BOOLEAN]]
      /\ msgs \in [Prompters -> Seq(Loose)] /\ clock \in Nat
  BY KnownIs DEF SessionTypes
<1> DEFINE entries == session \o pendingBash
<1>1. /\ session' = entries /\ pendingBash' = <<>>
      /\ UNCHANGED <<saving, run, steering, followUp, compactor, keeping>>
  BY DEF Submit, Meanwhile
<1>2. /\ entries \in Seq(Messages) /\ Results(entries) = Results(session)
      /\ Said(entries) = Said(session) \union Ids(pendingBash)
  <2>1. session \in Seq(Messages) /\ pendingBash \in Seq(Messages)
    BY NoResults DEF SessionTypes
  <2> QED
    BY <2>1, IdsJoin, NoResults, ConcatProperties
<1>3. \/ /\ \E verdict : StartsCompaction(p, verdict, entries, "preflight")
         /\ UNCHANGED <<msgs, nextTurn, clock>>
      \/ /\ pc' = [pc EXCEPT ![p] = "starting"] /\ Build(p) /\ UNCHANGED held
  BY DEF Submit
<1> HIDE DEF entries
<1>4. Said(session') \subseteq Reach /\ Results(session') \subseteq Results(session)
  BY <1>0, <1>1, <1>2 DEF Known
<1>5. ASSUME NEW verdict, StartsCompaction(p, verdict, entries, "preflight"),
             UNCHANGED <<msgs, nextTurn, clock>>
      PROVE  IdInv'
  <2>1. PICK i \in CutPoints(entries) :
          held' = [held EXCEPT ![p] = [id |-> entries[i].id, retry |-> verdict = "overflow"]]
    BY <1>5 DEF StartsCompaction
  <2>2. entries[i].id \in Reach
    BY <1>1, <1>2, <1>4, CutsAreSaid
  <2>3. pc' = [pc EXCEPT ![p] = "preflight"]
    BY <1>5 DEF StartsCompaction
  <2>4. \A q \in Prompters : pc'[q] \in {"preflight", "compacting"} => held'[q].id \in Reach
    BY <1>0, <2>1, <2>2, <2>3 DEF Known
  <2>5. Placed(Reach)
    BY <1>0, <1>1, <1>4, <1>5, <2>4 DEF Known, Placed
  <2> QED
    BY <1>0, <1>1, <1>4, <1>5, <2>5, IdMoves
<1>6. ASSUME pc' = [pc EXCEPT ![p] = "starting"], Build(p), UNCHANGED held
      PROVE  IdInv'
  <2>1. /\ msgs' = [msgs EXCEPT ![p] = <<Message("user", "text", clock)>> \o nextTurn]
        /\ nextTurn' = <<>> /\ clock' = clock + 1
    BY <1>6 DEF Build
  <2>2. clock \in Reach /\ clock <= clock'
    BY <1>0, <2>1, ReachHas
  <2>3. Ids(msgs'[p]) = {clock} \union Ids(nextTurn)
    BY <1>0, <2>1, BuiltIds
  <2>4. \A q \in Prompters : Ids(msgs'[q]) \subseteq Reach
    BY <1>0, <2>1, <2>2, <2>3 DEF Known
  <2>5. Placed(Reach)
    BY <1>0, <1>1, <1>4, <1>6, <2>1, <2>4 DEF Known, Placed
  <2> QED
    BY <1>1, <1>4, <2>2, <2>5, IdMoves
<1> QED
  BY <1>3, <1>5, <1>6

\* The run: a message of it enters the session, or moves out of a queue.
LEMMA RunIds ==
  ASSUME SessionTypes, SavingTypes, SessionTypes', IdInv, RunStep
  PROVE  IdInv'
<1> USE DEF queues, shown, records, retries, calls, manual, history, bounds
<1>0. /\ Known(Reach) /\ session \in Seq(Messages) /\ clock \in Nat /\ run \in RunRecords
      /\ clock <= clock
  <2>1. session \in Seq(Messages) /\ clock \in Nat /\ run \in RunRecords
    BY DEF SessionTypes
  <2> QED
    BY <2>1, KnownIs
<1>1. ASSUME NEW m \in Messages, Finished(m)
      PROVE  /\ session' = session /\ pendingBash' = pendingBash /\ Said(saving') \subseteq Ids(<<m>>)
             /\ Ids(<<m>>) = {m.id}
             /\ m.role # "result" => Results(session') \union Results(saving') \subseteq Told
             /\ m.role = "result" => Said(saving') = {}
             /\ Results(session') \union Results(saving') \subseteq Told \union {m.id}
  <2>1. session' = session /\ pendingBash' = pendingBash /\ saving' \in {<<m>>, <<>>}
    BY <1>1 DEF Finished
  <2>2. /\ Ids(<<m>>) = {m.id} /\ Said(<<m>>) \subseteq {m.id} /\ Results(<<m>>) \subseteq {m.id}
        /\ m.role # "result" => Results(<<m>>) = {}
        /\ m.role = "result" => Said(<<m>>) = {}
    BY DEF Ids, Said, Results
  <2> QED
    BY <2>1, <2>2, IdsEmpty DEF Told
<1>2. /\ Ids(Drained(Mode, steering)) \subseteq Ids(steering)
      /\ Ids(Remaining(Mode, steering)) \subseteq Ids(steering)
      /\ Ids(Drained(Mode, followUp)) \subseteq Ids(followUp)
      /\ Ids(Remaining(Mode, followUp)) \subseteq Ids(followUp)
  BY IdsDrained, NoResults
<1>3. ASSUME Announce PROVE IdInv'
  <2> DEFINE m == Head(run.todo)
  <2>1. /\ run.todo # <<>> /\ Finished(m) /\ run' = [run EXCEPT !.todo = Tail(@)]
        /\ UNCHANGED <<nextTurn, steering, followUp, pc, msgs, held, compactor, keeping, clock>>
    BY <1>3 DEF Announce
  <2>2. run.todo \in Seq(Loose) /\ m \in Loose
    BY <1>0, <2>1, HeadTailProperties DEF RunRecords
  <2>3. m \in Messages /\ m.role # "result"
    BY <2>2 DEF Loose
  <2>4. m.id \in Ids(run.todo) /\ Ids(Tail(run.todo)) \subseteq Ids(run.todo)
    BY <2>1, NoResults, IdsHead
  <2>5. run'.todo = Tail(run.todo)
    BY <1>0, <2>1 DEF RunRecords
  <2> HIDE DEF m
  <2>6. m.id \in Reach
    BY <1>0, <2>4 DEF Known
  <2>7. /\ session' = session /\ pendingBash' = pendingBash /\ Said(saving') \subseteq Reach
        /\ Results(session') \union Results(saving') \subseteq Told
    BY <1>1, <2>1, <2>3, <2>6
  <2>8. Placed(Reach)
    BY <1>0, <2>1, <2>4, <2>5, <2>7 DEF Known, Placed
  <2> QED
    BY <1>0, <2>1, <2>7, <2>8, IdSaves
<1>4. ASSUME Poll PROVE IdInv'
  <2>1. /\ UNCHANGED <<session, saving, pendingBash, nextTurn, followUp, pc, msgs, held, compactor, keeping, clock>>
        /\ run' = [run EXCEPT !.at = "turn",
                              !.todo = IF run.skip THEN <<>> ELSE Drained(Mode, steering)]
        /\ steering' \in {steering, Remaining(Mode, steering)}
    BY <1>4 DEF Poll
  <2>2. run'.todo \in {<<>>, Drained(Mode, steering)}
    BY <1>0, <2>1 DEF RunRecords
  <2>3. Ids(run'.todo) \subseteq Reach /\ Ids(steering') \subseteq Reach
    BY <1>0, <1>2, <2>1, <2>2 DEF Known
  <2>4. Placed(Reach)
    BY <1>0, <2>1, <2>3 DEF Known, Placed
  <2> QED
    BY <1>0, <2>1, <2>4, IdMoves
<1>5. ASSUME NEW kind \in Replies \union {"stop"}, Reply(kind) PROVE IdInv'
  <2> DEFINE m == Message("assistant", kind, clock)
  <2>1. /\ Finished(m) /\ clock' = clock + 1
        /\ UNCHANGED <<nextTurn, steering, followUp, pc, msgs, held, compactor, keeping>>
    BY <1>5 DEF Reply
  <2>2. run'.todo = run.todo
    BY <1>0, <1>5 DEF Reply, RunRecords
  <2>3. m \in Messages /\ m.role # "result" /\ m.id = clock
    <3>1. kind \in ReplyKinds
      BY SessionAssumption DEF ReplyKinds
    <3> QED
      BY <1>0, <3>1, Made, Fields
  <2> HIDE DEF m
  <2>4. clock <= clock' /\ clock \in Reach
    BY <1>0, <2>1, ReachHas
  <2>5. /\ session' = session /\ pendingBash' = pendingBash /\ Said(saving') \subseteq Reach
        /\ Results(session') \union Results(saving') \subseteq Told
    BY <1>1, <2>1, <2>3, <2>4
  <2>6. Placed(Reach)
    BY <1>0, <2>1, <2>2, <2>5 DEF Known, Placed
  <2> QED
    BY <2>4, <2>5, <2>6, IdSaves
<1>6. ASSUME ToolResult PROVE IdInv'
  <2> DEFINE m == Message("result", "text", clock)
  <2>1. /\ Finished(m) /\ clock' = clock + 1 /\ run' = [run EXCEPT !.at = "prompts", !.skip = FALSE]
        /\ UNCHANGED <<nextTurn, steering, followUp, pc, msgs, held, compactor, keeping>>
    BY <1>6 DEF ToolResult
  <2>2. run'.todo = run.todo
    BY <1>0, <2>1 DEF RunRecords
  <2>3. m \in Messages /\ m.role = "result" /\ m.id = clock
    BY <1>0, Made, Fields
  <2> HIDE DEF m
  <2>4. /\ session' = session /\ pendingBash' = pendingBash /\ Said(saving') = {}
        /\ Results(session') \union Results(saving') \subseteq Told \union {clock}
    BY <1>1, <2>1, <2>3
  <2>5. Known(Others)
    BY KnownIs
  <2>6. Placed(Others)
    BY <2>1, <2>2, <2>4, <2>5 DEF Known, Placed
  <2> QED
    BY <2>1, <2>4, <2>6, IdResult
<1>7. ASSUME Stopping PROVE IdInv'
  <2>1. UNCHANGED <<session, saving, pendingBash, nextTurn, pc, msgs, held, compactor, keeping, clock>>
    BY <1>7 DEF Stopping
  <2>2. /\ run'.todo \in {Drained(Mode, steering), Drained(Mode, followUp)}
        /\ steering' \in {steering, Remaining(Mode, steering)}
        /\ followUp' \in {followUp, Remaining(Mode, followUp)}
    BY <1>0, <1>7 DEF Stopping, RunRecords
  <2>3. Ids(run'.todo) \subseteq Reach /\ Ids(steering') \subseteq Reach /\ Ids(followUp') \subseteq Reach
    BY <1>0, <1>2, <2>2 DEF Known
  <2>4. Placed(Reach)
    BY <1>0, <2>1, <2>3 DEF Known, Placed
  <2> QED
    BY <1>0, <2>1, <2>4, IdMoves
<1>8. ASSUME Save PROVE IdInv'
  <2>1. PICK m \in Messages : saving = <<m>>
    BY <1>8 DEF Save, SavingTypes
  <2>2. /\ session' = Append(session, m) /\ saving' = <<>>
        /\ UNCHANGED <<pendingBash, nextTurn, steering, followUp, run, pc, msgs, held, compactor, keeping, clock>>
    BY <1>8, <2>1 DEF Save
  <2>3. /\ m.role = "result" => Results(saving) = {m.id} /\ Said(saving) = {}
        /\ m.role # "result" => Results(saving) = {} /\ Said(saving) = {m.id}
    BY <2>1 DEF Results, Said
  <2>4. /\ Said(session') = Said(session) \union Said(saving)
        /\ Results(session') = Results(session) \union Results(saving)
    BY <1>0, <2>2, <2>3, IdsAppend
  <2>5. Said(saving') = {} /\ Results(saving') = {}
    BY <2>2, IdsEmpty
  <2>6. Placed(Reach)
    BY <1>0, <2>2, <2>4, <2>5 DEF Known, Placed
  <2> QED
    BY <1>0, <2>2, <2>4, <2>5, <2>6, IdSaves DEF Told
<1> QED
  BY <1>3, <1>4, <1>5, <1>6, <1>7, <1>8 DEF RunStep

LEMMA CallIds ==
  ASSUME SessionTypes, SessionTypes', IdInv, NEW p \in Prompters,
         RunUnheard(p) \/ Retry(p) \/ PreflightDone(p) \/ Settled(p)
  PROVE  IdInv'
<1> USE DEF queues, shown, records, retries, calls, manual, history, bounds
<1>0. /\ Known(Reach) /\ session \in Seq(Messages) /\ clock \in Nat /\ clock <= clock
      /\ pc \in [Prompters -> Places] /\ held \in [Prompters -> [id : Nat, retry : BOOLEAN]]
      /\ msgs \in [Prompters -> Seq(Loose)]
  <2>1. /\ session \in Seq(Messages) /\ clock \in Nat
        /\ pc \in [Prompters -> Places] /\ held \in [Prompters -> [id : Nat, retry : BOOLEAN]]
        /\ msgs \in [Prompters -> Seq(Loose)]
    BY DEF SessionTypes
  <2> QED
    BY <2>1, KnownIs
<1>1. CASE RunUnheard(p)
  <2>1. /\ session' = session \o pendingBash /\ pendingBash' = <<>> /\ run'.todo = <<>>
        /\ pc' = [pc EXCEPT ![p] = "settling"] /\ held' = [held EXCEPT ![p] = Nothing]
        /\ UNCHANGED <<saving, nextTurn, steering, followUp, msgs, compactor, keeping, clock>>
    BY <1>1 DEF RunUnheard, Settle, NoRun, Meanwhile
  <2>2. Results(session') = Results(session) /\ Said(session') = Said(session) \union Ids(pendingBash)
    BY <1>0, <2>1, IdsJoin, NoResults
  <2>3. Placed(Reach)
    BY <1>0, <2>1, <2>2 DEF Known, Placed
  <2> QED
    BY <1>0, <2>1, <2>2, <2>3, IdMoves
<1>2. CASE Retry(p)
  <2>1. /\ run'.todo = <<>> /\ pc' = [pc EXCEPT ![p] = "delaying"]
        /\ held' = [held EXCEPT ![p] = [id |-> last[1].id, retry |-> FALSE]]
        /\ UNCHANGED <<session, saving, pendingBash, nextTurn, steering, followUp, msgs, compactor, keeping,
                       clock>>
    BY <1>2 DEF Retry, NoRun
  <2>2. Placed(Reach)
    BY <1>0, <2>1 DEF Known, Placed
  <2> QED
    BY <1>0, <2>1, <2>2, IdMoves
<1>3. CASE PreflightDone(p)
  <2>1. /\ nextTurn' = <<>> /\ held' = [held EXCEPT ![p] = Nothing] /\ pc' = [pc EXCEPT ![p] = "starting"]
        /\ UNCHANGED <<saving, pendingBash, steering, followUp, run, compactor, keeping>>
    BY <1>3 DEF PreflightDone, Meanwhile
  <2>2. \/ /\ session' = Compacted(held[p].id) /\ clock' = clock + 2
           /\ msgs' = [msgs EXCEPT ![p] = <<Message("user", "text", clock + 1)>> \o nextTurn]
        \/ /\ session' = session /\ clock' = clock + 1
           /\ msgs' = [msgs EXCEPT ![p] = <<Message("user", "text", clock)>> \o nextTurn]
    BY <1>3 DEF PreflightDone
  <2>3. held[p].id \in Nat /\ clock <= clock' /\ clock \in Reach
    BY <1>0, <2>2, ReachHas
  <2>4. Said(session') \subseteq Reach /\ Results(session') \subseteq Results(session)
    BY <1>0, <2>2, <2>3, CompactedIds DEF Known
  <2>5. Ids(msgs'[p]) \subseteq Reach
    <3>1. PICK n \in {clock, clock + 1} :
            n < clock' /\ msgs' = [msgs EXCEPT ![p] = <<Message("user", "text", n)>> \o nextTurn]
      BY <1>0, <2>2
    <3>2. n \in Nat /\ clock <= n
      BY <1>0, <3>1
    <3>3. Ids(msgs'[p]) = {n} \union Ids(nextTurn) /\ n \in Reach
      BY <1>0, <3>1, <3>2, BuiltIds, ReachHas
    <3> QED
      BY <1>0, <3>3 DEF Known
  <2>6. \A q \in Prompters \ {p} : msgs'[q] = msgs[q]
    BY <1>0, <2>2
  <2>7. Placed(Reach)
    BY <1>0, <2>1, <2>4, <2>5, <2>6 DEF Known, Placed
  <2> QED
    BY <2>1, <2>3, <2>4, <2>7, IdMoves
<1>4. CASE Settled(p)
  <2>1. /\ pc' = [pc EXCEPT ![p] = "idle"]
        /\ UNCHANGED <<session, saving, pendingBash, nextTurn, steering, followUp, msgs, held, run,
                       compactor, keeping, clock>>
    BY <1>4 DEF Settled
  <2>2. Placed(Reach)
    BY <1>0, <2>1 DEF Known, Placed
  <2> QED
    BY <1>0, <2>1, <2>2, IdMoves
<1> QED
  BY <1>1, <1>2, <1>3, <1>4

LEMMA OutsideIds ==
  ASSUME SessionTypes, SessionTypes', IdInv, Outside
  PROVE  IdInv'
<1> USE DEF queues, shown, records, retries, calls, manual, history, bounds
<1>0. /\ Known(Reach) /\ session \in Seq(Messages) /\ clock \in Nat /\ clock <= clock
      /\ pc \in [Prompters -> Places] /\ run \in RunRecords
  <2>1. /\ session \in Seq(Messages) /\ clock \in Nat
        /\ pc \in [Prompters -> Places] /\ run \in RunRecords
    BY DEF SessionTypes
  <2> QED
    BY <2>1, KnownIs
<1>1. ASSUME clock' = clock + 1 PROVE clock <= clock' /\ clock \in Reach
  BY <1>0, <1>1, ReachHas
<1>2. ASSUME NEW q \in Seq(Messages), Ids(q) \subseteq Reach, NEW m \in Messages, m.id \in Reach
      PROVE  Ids(Append(q, m)) \subseteq Reach
  BY <1>2, IdsAppend
<1>3. /\ steering \in Seq(Messages) /\ followUp \in Seq(Messages) /\ nextTurn \in Seq(Messages)
      /\ pendingBash \in Seq(Messages)
      /\ Ids(steering) \subseteq Reach /\ Ids(followUp) \subseteq Reach /\ Ids(nextTurn) \subseteq Reach
      /\ Ids(pendingBash) \subseteq Reach
  BY <1>0, NoResults DEF Known
<1>4. /\ \A content \in Contents : /\ Message("user", content, clock) \in Messages
                                   /\ Message("user", content, clock).id = clock
      /\ Message("custom", "text", clock) \in Messages /\ Message("custom", "text", clock).id = clock
      /\ Message("custom", "text", clock).role # "result"
      /\ Message("bash", "text", clock) \in Messages /\ Message("bash", "text", clock).id = clock
      /\ Message("bash", "text", clock).role # "result"
  BY <1>0, Made, Fields
<1>5. ASSUME \E content \in Contents : Steer(content) \/ FollowUp(content)
      PROVE  IdInv'
  <2>1. /\ clock' = clock + 1
        /\ UNCHANGED <<session, saving, pendingBash, nextTurn, run, pc, msgs, held, compactor, keeping>>
    BY <1>5 DEF Steer, FollowUp, Sends
  <2>2. Ids(steering') \subseteq Reach /\ Ids(followUp') \subseteq Reach
    <3>1. PICK content \in Contents : Steer(content) \/ FollowUp(content)
      BY <1>5
    <3>2. /\ steering' \in {steering, Append(steering, Message("user", content, clock))}
          /\ followUp' \in {followUp, Append(followUp, Message("user", content, clock))}
      BY <3>1 DEF Steer, FollowUp
    <3> QED
      BY <1>1, <1>2, <1>3, <1>4, <2>1, <3>2
  <2>3. Placed(Reach)
    BY <1>0, <2>1, <2>2 DEF Known, Placed
  <2> QED
    BY <1>1, <2>1, <2>3, IdMoves
<1>6. ASSUME QueueCustom PROVE IdInv'
  <2>1. /\ clock' = clock + 1
        /\ UNCHANGED <<session, saving, pendingBash, nextTurn, run, pc, msgs, held, compactor, keeping>>
    BY <1>6 DEF QueueCustom, Sends
  <2>2. /\ steering' \in {steering, Append(steering, Message("custom", "text", clock))}
        /\ followUp' \in {followUp, Append(followUp, Message("custom", "text", clock))}
    BY <1>6 DEF QueueCustom
  <2>3. Ids(steering') \subseteq Reach /\ Ids(followUp') \subseteq Reach
    BY <1>1, <1>2, <1>3, <1>4, <2>1, <2>2
  <2>4. Placed(Reach)
    BY <1>0, <2>1, <2>3 DEF Known, Placed
  <2> QED
    BY <1>1, <2>1, <2>4, IdMoves
<1>7. ASSUME NEW m \in Messages, m.role # "result", m.id = clock, Recorded(m), clock' = clock + 1,
             UNCHANGED <<pendingBash, nextTurn, steering, followUp, run, pc, msgs, held, compactor, keeping>>
      PROVE  IdInv'
  <2>1. Results(session') = Results(session) /\ Said(session') = Said(session) \union {clock}
    BY <1>0, <1>7, IdsAppend DEF Recorded
  <2>3. saving' = saving
    BY <1>7 DEF Recorded, Meanwhile
  <2>2. Placed(Reach)
    BY <1>0, <1>1, <1>7, <2>1, <2>3 DEF Known, Placed
  <2> QED
    BY <1>1, <1>7, <2>1, <2>2, <2>3, IdMoves
<1>8. ASSUME Note PROVE IdInv'
  BY <1>4, <1>7, <1>8 DEF Note, Sends
<1>9. ASSUME PushNextTurn PROVE IdInv'
  <2>1. /\ clock' = clock + 1 /\ nextTurn' = Append(nextTurn, Message("custom", "text", clock))
        /\ UNCHANGED <<session, saving, pendingBash, steering, followUp, run, pc, msgs, held, compactor,
                       keeping>>
    BY <1>9 DEF PushNextTurn, Sends
  <2>2. Ids(nextTurn') \subseteq Reach
    BY <1>1, <1>2, <1>3, <1>4, <2>1
  <2>3. Placed(Reach)
    BY <1>0, <2>1, <2>2 DEF Known, Placed
  <2> QED
    BY <1>1, <2>1, <2>3, IdMoves
<1>10. ASSUME BashDone PROVE IdInv'
  <2>1. /\ clock' = clock + 1
        /\ UNCHANGED <<nextTurn, steering, followUp, run, pc, msgs, held, compactor, keeping>>
        /\ \/ Recorded(Message("bash", "text", clock)) /\ UNCHANGED pendingBash
           \/ /\ pendingBash' = Append(pendingBash, Message("bash", "text", clock))
              /\ UNCHANGED <<context, session, saving>>
    BY <1>10 DEF BashDone, Sends
  <2>2. CASE Recorded(Message("bash", "text", clock)) /\ UNCHANGED pendingBash
    BY <1>4, <1>7, <2>1, <2>2
  <2>3. CASE /\ pendingBash' = Append(pendingBash, Message("bash", "text", clock))
             /\ UNCHANGED <<context, session, saving>>
    <3>1. Ids(pendingBash') \subseteq Reach
      BY <1>1, <1>2, <1>3, <1>4, <2>1, <2>3
    <3>2. Placed(Reach)
      BY <1>0, <2>1, <2>3, <3>1 DEF Known, Placed
    <3> QED
      BY <1>1, <2>1, <2>3, <3>2, IdMoves
  <2> QED
    BY <2>1, <2>2, <2>3
<1>11. ASSUME ClearQueue PROVE IdInv'
  <2>1. /\ steering' = <<>> /\ followUp' = <<>>
        /\ UNCHANGED <<session, saving, pendingBash, nextTurn, run, pc, msgs, held, compactor, keeping,
                       clock>>
    BY <1>11 DEF ClearQueue
  <2>2. Placed(Reach)
    BY <1>0, <2>1 DEF Known, Placed
  <2> QED
    BY <1>0, <2>1, <2>2, IdMoves
<1>12. ASSUME NEW w \in Waiters, Abort(w) \/ Wait(w) PROVE IdInv'
  <2>1. UNCHANGED <<session, saving, pendingBash, nextTurn, steering, followUp, msgs, held, compactor,
                    keeping, clock>>
    BY <1>12 DEF Abort, Wait
  <2>2. run'.todo = run.todo /\ \A p \in Prompters : pc'[p] \in {"preflight", "compacting"} => pc'[p] = pc[p]
    BY <1>0, <1>12 DEF Abort, Wait, Aborts, RunRecords
  <2>3. Placed(Reach)
    BY <1>0, <2>1, <2>2 DEF Known, Placed
  <2> QED
    BY <1>0, <2>1, <2>3, IdMoves
<1> QED
  BY <1>5, <1>6, <1>8, <1>9, <1>10, <1>11, <1>12 DEF Outside

LEMMA CompactIds ==
  ASSUME SessionTypes, SessionTypes', IdInv, Compact \/ CompactPrepares \/ CompactEnds
  PROVE  IdInv'
<1> USE DEF queues, shown, records, retries, calls, manual, history, bounds
<1>0. /\ Known(Reach) /\ session \in Seq(Messages) /\ clock \in Nat /\ clock <= clock
      /\ pc \in [Prompters -> Places] /\ run \in RunRecords /\ keeping \in Nat
  <2>1. /\ session \in Seq(Messages) /\ clock \in Nat /\ keeping \in Nat
        /\ pc \in [Prompters -> Places] /\ run \in RunRecords
    BY DEF SessionTypes
  <2> QED
    BY <2>1, KnownIs
<1>1. CASE Compact
  <2>1. /\ compactor' = "aborting"
        /\ UNCHANGED <<session, saving, pendingBash, nextTurn, steering, followUp, msgs, held, keeping, clock>>
    BY <1>1 DEF Compact
  <2>2. run'.todo = run.todo /\ \A p \in Prompters : pc'[p] \in {"preflight", "compacting"} => pc'[p] = pc[p]
    BY <1>0, <1>1 DEF Compact, Aborts, RunRecords
  <2>3. Placed(Reach)
    BY <1>0, <2>1, <2>2 DEF Known, Placed
  <2> QED
    BY <1>0, <2>1, <2>3, IdMoves
<1>2. CASE CompactPrepares
  <2>1. UNCHANGED <<session, saving, pendingBash, nextTurn, steering, followUp, run, pc, msgs, held, clock>>
    BY <1>2 DEF CompactPrepares
  <2>2. compactor' = "compacting" => keeping' \in Reach
    <3> SUFFICES ASSUME compactor' = "compacting" PROVE keeping' \in Reach
      OBVIOUS
    <3>1. PICK i \in CutPoints(session) : keeping' = session[i].id
      BY <1>2 DEF CompactPrepares
    <3>2. keeping' \in Said(session)
      BY <1>0, <3>1, CutsAreSaid
    <3> QED
      BY <1>0, <3>2 DEF Known
  <2>3. Placed(Reach)
    BY <1>0, <2>1, <2>2 DEF Known, Placed
  <2> QED
    BY <1>0, <2>1, <2>3, IdMoves
<1>3. CASE CompactEnds
  <2>1. /\ compactor' = "idle"
        /\ UNCHANGED <<saving, pendingBash, nextTurn, steering, followUp, run, pc, msgs, held>>
        /\ \/ session' = Compacted(keeping) /\ clock' = clock + 1
           \/ session' = session /\ clock' = clock
    BY <1>3 DEF CompactEnds, Meanwhile
  <2>2. clock <= clock' /\ (clock' = clock + 1 => clock \in Reach)
    BY <1>0, <2>1, ReachHas
  <2>3. Said(session') \subseteq Reach /\ Results(session') \subseteq Results(session)
    BY <1>0, <2>1, <2>2, CompactedIds DEF Known
  <2>4. Placed(Reach)
    BY <1>0, <2>1, <2>3 DEF Known, Placed
  <2> QED
    BY <2>1, <2>2, <2>3, <2>4, IdMoves
<1> QED
  BY <1>1, <1>2, <1>3

LEMMA IdSteps ==
  ASSUME SessionTypes, SavingTypes, IdInv, [Next]_vars
  PROVE  IdInv'
<1>0. SessionTypes'
  BY Types
<1>1. ASSUME NEW p \in Prompters, SendTrigger(p) PROVE IdInv'
  <2> DEFINE m == Message("custom", "text", clock)
  <2>1. Runs(p, <<m>>) /\ clock' = clock + 1 /\ m.id = clock
    BY <1>1, Fields DEF SendTrigger
  <2> HIDE DEF m
  <2>2. clock \in Nat
    BY DEF SessionTypes
  <2>3. clock <= clock' /\ clock \in Reach
    BY <2>1, <2>2, ReachHas
  <2>4. Ids(<<m>>) \subseteq Reach
    BY <2>1, <2>3 DEF Ids
  <2> QED
    BY <1>0, <2>1, <2>3, <2>4, RunsIds
<1>2. ASSUME NEW p \in Prompters, Run(p) PROVE IdInv'
  <2>1. Runs(p, msgs[p]) /\ clock' = clock
    BY <1>2 DEF Run
  <2>2. clock \in Nat
    BY DEF SessionTypes
  <2>3. clock <= clock' /\ Ids(msgs[p]) \subseteq Reach
    BY <2>1, <2>2, KnownIs DEF Known
  <2> QED
    BY <1>0, <2>1, <2>3, RunsIds
<1>3. ASSUME UNCHANGED vars PROVE IdInv'
  <2> USE DEF vars, records, queues, calls, manual
  <2>1. Told' = Told /\ clock' = clock
    BY <1>3 DEF Told, Results
  <2>2. /\ Said(session)' = Said(session) /\ Said(saving)' = Said(saving)
        /\ Ids(pendingBash)' = Ids(pendingBash) /\ Ids(nextTurn)' = Ids(nextTurn)
        /\ Ids(steering)' = Ids(steering) /\ Ids(followUp)' = Ids(followUp)
        /\ Ids(run.todo)' = Ids(run.todo)
    BY <1>3 DEF Said, Ids
  <2>3. Keeps' = Keeps /\ (UNION {Ids(msgs[p]) : p \in Prompters})' = UNION {Ids(msgs[p]) : p \in Prompters}
    BY <1>3 DEF Keeps, Ids
  <2>4. Others' = Others
    BY <2>2, <2>3 DEF Others
  <2> QED
    BY <2>1, <2>4 DEF IdInv, Older
<1>4. ASSUME NEW p \in Prompters, CallStep(p) PROVE IdInv'
  BY <1>0, <1>2, <1>4, CallIds, EndIds DEF CallStep, EndStep
<1> QED
  BY <1>0, <1>1, <1>3, <1>4, SubmitIds, RunIds, OutsideIds, CompactIds DEF Next
-----------------------------------------------------------------------------
(* Calls and results.                                                      *)

Paired(s) ==
  /\ \A i \in 1..(Len(s) - 1) : s[i].kind = "tools" => s[i + 1].role = "result"
  /\ \A i \in DOMAIN s : s[i].role = "result" => i > 1 /\ s[i - 1].kind = "tools"
EndsCalling(s) == s # <<>> /\ s[Len(s)].kind = "tools"
CutAt(s) == \E i \in 1..(Len(s) - 1) : s[i].kind = "tools" /\ IsCompaction(s[i + 1])

\* Both are whole, but for the call whose tool is at work.
Whole(ctx, entries, working) ==
  /\ Paired(ctx) /\ Paired(entries)
  /\ EndsCalling(ctx) <=> working
  /\ EndsCalling(entries) <=> working

LEMMA PairedAppend ==
  ASSUME NEW s \in Seq(Messages), NEW m \in Messages
  PROVE  /\ Paired(s) /\ (EndsCalling(s) <=> m.role = "result") => Paired(Append(s, m))
         /\ EndsCalling(Append(s, m)) <=> m.kind = "tools"
         /\ CutAt(s) => CutAt(Append(s, m))
         /\ EndsCalling(s) /\ IsCompaction(m) => CutAt(Append(s, m))
<1> DEFINE t == Append(s, m)
           n == Len(s)
<1>1. /\ n \in Nat /\ DOMAIN t = 1..(n + 1) /\ DOMAIN s = 1..n /\ Len(t) = n + 1 /\ t[n + 1] = m
      /\ \A i \in 1..n : t[i] = s[i]
      /\ t # <<>> /\ (s # <<>> <=> n >= 1)
  BY AppendProperties, EmptySeq
<1> HIDE DEF t, n
<1>2. EndsCalling(t) <=> m.kind = "tools"
  BY <1>1 DEF EndsCalling
<1>3. EndsCalling(s) <=> n >= 1 /\ s[n].kind = "tools"
  BY <1>1 DEF EndsCalling, n
<1>4. ASSUME Paired(s), EndsCalling(s) <=> m.role = "result"
      PROVE  Paired(t)
  <2>1. ASSUME NEW i \in 1..(Len(t) - 1), t[i].kind = "tools"
        PROVE  t[i + 1].role = "result"
    <3>1. CASE i = n
      BY <1>1, <1>3, <1>4, <2>1, <3>1
    <3>2. CASE i # n
      <4>1. i \in 1..(n - 1) /\ i + 1 \in 1..n /\ i \in 1..n
        BY <1>1, <2>1, <3>2
      <4> QED
        BY <1>1, <1>4, <2>1, <4>1 DEF Paired, n
    <3> QED
      BY <3>1, <3>2
  <2>2. ASSUME NEW i \in 1..(n + 1), t[i].role = "result"
        PROVE  i > 1 /\ t[i - 1].kind = "tools"
    <3>1. CASE i = n + 1
      <4>1. n >= 1 /\ s[n].kind = "tools"
        BY <1>1, <1>3, <1>4, <2>2, <3>1
      <4> QED
        BY <1>1, <3>1, <4>1
    <3>2. CASE i # n + 1
      <4>1. i \in 1..n
        BY <1>1, <3>2
      <4>2. i > 1 /\ s[i - 1].kind = "tools"
        BY <1>1, <1>4, <2>2, <4>1 DEF Paired
      <4>3. i - 1 \in 1..n
        BY <1>1, <4>1, <4>2
      <4> QED
        BY <1>1, <4>2, <4>3
    <3> QED
      BY <3>1, <3>2
  <2> QED
    BY <1>1, <2>1, <2>2 DEF Paired
<1>5. CutAt(s) => CutAt(t)
  <2> SUFFICES ASSUME CutAt(s) PROVE CutAt(t)
    OBVIOUS
  <2>1. PICK i \in 1..(n - 1) : s[i].kind = "tools" /\ IsCompaction(s[i + 1])
    BY DEF CutAt, n
  <2>2. i \in 1..n /\ i + 1 \in 1..n
    BY <1>1, <2>1
  <2> QED
    BY <1>1, <2>1, <2>2 DEF CutAt
<1>6. EndsCalling(s) /\ IsCompaction(m) => CutAt(t)
  <2> SUFFICES ASSUME EndsCalling(s), IsCompaction(m) PROVE CutAt(t)
    OBVIOUS
  <2>1. n \in 1..(Len(t) - 1) /\ t[n].kind = "tools" /\ IsCompaction(t[n + 1])
    BY <1>1, <1>3
  <2> QED
    BY <2>1 DEF CutAt
<1> QED
  BY <1>2, <1>4, <1>5, <1>6 DEF t

Silent(t) == \A i \in DOMAIN t : t[i].kind # "tools" /\ t[i].role # "result"

LEMMA PairedJoin ==
  ASSUME NEW s \in Seq(Messages), NEW t \in Seq(Messages), Silent(t)
  PROVE  /\ Paired(s) /\ ~EndsCalling(s) => Paired(s \o t) /\ ~EndsCalling(s \o t)
         /\ CutAt(s) => CutAt(s \o t)
<1> DEFINE u == s \o t
           n == Len(s)
           k == Len(t)
<1>1. /\ n \in Nat /\ k \in Nat /\ DOMAIN u = 1..(n + k) /\ DOMAIN s = 1..n /\ DOMAIN t = 1..k
      /\ \A i \in 1..n : u[i] = s[i]
      /\ \A i \in 1..k : u[n + i] = t[i]
      /\ Len(u) = n + k /\ (s # <<>> <=> n >= 1)
  BY ConcatProperties, EmptySeq
<1> HIDE DEF u, n, k
<1>2. EndsCalling(s) <=> n >= 1 /\ s[n].kind = "tools"
  BY <1>1 DEF EndsCalling, n
<1>3. ASSUME NEW i \in 1..(n + k), i > n
      PROVE  u[i].kind # "tools" /\ u[i].role # "result"
  <2>1. i - n \in 1..k /\ u[i] = u[n + (i - n)]
    BY <1>1, <1>3
  <2>2. u[i] = t[i - n]
    BY <1>1, <2>1
  <2> QED
    BY <1>1, <2>1, <2>2 DEF Silent
<1>4. ASSUME Paired(s), ~EndsCalling(s)
      PROVE  Paired(u) /\ ~EndsCalling(u)
  <2>1. ASSUME NEW i \in 1..(n + k - 1), u[i].kind = "tools"
        PROVE  u[i + 1].role = "result"
    <3>1. i \in 1..n
      BY <1>1, <1>3, <2>1
    <3>2. i # n
      BY <1>1, <1>2, <1>4, <2>1, <3>1
    <3>3. i \in 1..(n - 1) /\ i + 1 \in 1..n
      BY <1>1, <3>1, <3>2
    <3> QED
      BY <1>1, <1>4, <2>1, <3>1, <3>3 DEF Paired, n
  <2>2. ASSUME NEW i \in 1..(n + k), u[i].role = "result"
        PROVE  i > 1 /\ u[i - 1].kind = "tools"
    <3>1. i \in 1..n
      BY <1>1, <1>3, <2>2
    <3>2. i > 1 /\ s[i - 1].kind = "tools"
      BY <1>1, <1>4, <2>2, <3>1 DEF Paired
    <3>3. i - 1 \in 1..n
      BY <1>1, <3>1, <3>2
    <3> QED
      BY <1>1, <3>2, <3>3
  <2>3. ~EndsCalling(u)
    <3> SUFFICES ASSUME u # <<>>, u[n + k].kind = "tools" PROVE FALSE
      BY <1>1 DEF EndsCalling
    <3>1. n + k >= 1 /\ n + k \in 1..(n + k)
      <4>1. n + k # 0
        BY <1>1, EmptySeq, ConcatProperties DEF u
      <4> QED
        BY <1>1, <4>1
    <3>2. k = 0
      BY <1>1, <1>3, <3>1
    <3> QED
      BY <1>1, <1>2, <1>4, <3>1, <3>2
  <2>4. Paired(u)
    <3>1. 1..(Len(u) - 1) = 1..(n + k - 1) /\ DOMAIN u = 1..(n + k)
      BY <1>1
    <3> QED
      BY <2>1, <2>2, <3>1 DEF Paired
  <2> QED
    BY <2>3, <2>4
<1>5. CutAt(s) => CutAt(u)
  <2> SUFFICES ASSUME CutAt(s) PROVE CutAt(u)
    OBVIOUS
  <2>1. PICK i \in 1..(n - 1) : s[i].kind = "tools" /\ IsCompaction(s[i + 1])
    BY DEF CutAt, n
  <2>2. i \in 1..n /\ i + 1 \in 1..n /\ i \in 1..(n + k - 1)
    BY <1>1, <2>1
  <2> QED
    BY <1>1, <2>1, <2>2 DEF CutAt
<1> QED
  BY <1>4, <1>5 DEF u

LEMMA PairedTrimmed ==
  ASSUME NEW s \in Seq(Messages), Paired(s), ~EndsCalling(s)
  PROVE  Paired(WithoutTrailingReply(s)) /\ ~EndsCalling(WithoutTrailingReply(s))
<1> DEFINE t == WithoutTrailingReply(s)
           n == Len(s)
<1>1. CASE ~EndsWith(s, "assistant")
  BY <1>1 DEF WithoutTrailingReply
<1>2. CASE EndsWith(s, "assistant")
  <2>1. n \in Nat /\ n >= 1 /\ s[n].role = "assistant" /\ DOMAIN s = 1..n
    BY <1>2, EmptySeq DEF EndsWith, LastOf
  <2>2. /\ Len(t) = n - 1 /\ DOMAIN t = 1..(n - 1) /\ \A i \in 1..(n - 1) : t[i] = s[i]
    <3>1. t = SubSeq(s, 1, n - 1)
      BY <1>2 DEF WithoutTrailingReply
    <3> HIDE DEF t, n
    <3> QED
      BY <2>1, <3>1
  <2> HIDE DEF t
  <2>3. Paired(t)
    <3>1. ASSUME NEW i \in 1..(n - 2), t[i].kind = "tools"
          PROVE  t[i + 1].role = "result"
      <4>1. i \in 1..(n - 1) /\ i + 1 \in 1..(n - 1)
        BY <2>1
      <4> HIDE DEF n
      <4> QED
        BY <2>2, <3>1, <4>1 DEF Paired, n
    <3>2. ASSUME NEW i \in 1..(n - 1), t[i].role = "result"
          PROVE  i > 1 /\ t[i - 1].kind = "tools"
      <4>1. i \in 1..n /\ s[i].role = "result"
        BY <2>1, <2>2, <3>2
      <4>2. i > 1 /\ s[i - 1].kind = "tools"
        BY <2>1, <4>1 DEF Paired
      <4>3. i - 1 \in 1..(n - 1)
        BY <2>1, <4>2
      <4> HIDE DEF n
      <4> QED
        BY <2>2, <4>2, <4>3
    <3>3. Len(t) - 1 = n - 2
      BY <2>1, <2>2
    <3> HIDE DEF n
    <3> QED
      BY <2>2, <3>1, <3>2, <3>3 DEF Paired
  <2>4. ~EndsCalling(t)
    <3> SUFFICES ASSUME t # <<>>, t[n - 1].kind = "tools" PROVE FALSE
      BY <2>2 DEF EndsCalling
    <3>1. n - 1 \in 1..(n - 1)
      <4>1. t \in Seq(Messages)
        BY Trimmed DEF t
      <4> QED
        BY <2>1, <2>2, <4>1, EmptySeq
    <3>2. s[n - 1].kind = "tools"
      BY <2>2, <3>1
    <3>3. s[(n - 1) + 1].role = "result"
      BY <3>1, <3>2 DEF Paired
    <3> QED
      BY <2>1, <3>3
  <2> QED
    BY <2>3, <2>4 DEF t
<1> QED
  BY <1>1, <1>2

\* A context rebuilt from an entry that is no result.
LEMMA PairedRebuilt ==
  ASSUME NEW s \in Seq(Messages), NEW c \in Messages, IsCompaction(c), Paired(s), ~EndsCalling(s),
         \A k \in DOMAIN s : s[k].id = c.keep => s[k].role # "result"
  PROVE  /\ Paired(BuildContext(Append(s, c))) /\ ~EndsCalling(BuildContext(Append(s, c)))
<1> DEFINE b == BuildContext(Append(s, c))
<1>0. c.kind # "tools" /\ c.role = "compaction"
  <2>1. c.role = "compaction" /\ (c.role = "assistant" <=> c.kind \in ReplyKinds)
    BY MessageFields DEF IsCompaction
  <2> QED
    BY <2>1 DEF ReplyKinds
<1>1. ASSUME b = <<c>> PROVE Paired(b) /\ ~EndsCalling(b)
  <2>1. Len(<<c>>) = 1 /\ <<c>>[1] = c /\ DOMAIN <<c>> = {1} /\ 1..(Len(<<c>>) - 1) = {}
    OBVIOUS
  <2>2. Paired(<<c>>) /\ ~EndsCalling(<<c>>)
    BY <1>0, <2>1 DEF Paired, EndsCalling
  <2> HIDE DEF b
  <2> QED
    BY <1>1, <2>2
<1>2. ASSUME NEW k \in 1..Len(s), s[k].id = c.keep, b = <<c>> \o SubSeq(s, k, Len(s))
      PROVE  Paired(b) /\ ~EndsCalling(b)
  <2> DEFINE n == Len(s)
             t == <<c>> \o SubSeq(s, k, n)
  <2>1. n \in Nat /\ k \in 1..n /\ k \in Nat /\ k >= 1 /\ k <= n /\ DOMAIN s = 1..n
    BY <1>2
  <2>2. s[k].role # "result"
    BY <1>2, <2>1
  <2>3. /\ Len(t) = n - k + 2 /\ DOMAIN t = 1..(n - k + 2) /\ t[1] = c
        /\ \A i \in 2..(n - k + 2) : t[i] = s[k + i - 2]
    <3>1. /\ SubSeq(s, k, n) \in Seq(Messages) /\ Len(SubSeq(s, k, n)) = n - k + 1
          /\ \A i \in 1..(n - k + 1) : SubSeq(s, k, n)[i] = s[k + i - 1]
      BY <2>1
    <3>2. <<c>> \in Seq(Messages) /\ Len(<<c>>) = 1 /\ <<c>>[1] = c
      OBVIOUS
    <3>3. Len(t) = 1 + (n - k + 1) /\ DOMAIN t = 1..Len(t) /\ t[1] = c
          /\ \A i \in 1..(n - k + 1) : t[1 + i] = SubSeq(s, k, n)[i]
      BY <3>1, <3>2
    <3>4. ASSUME NEW i \in 2..(n - k + 2)
          PROVE  t[i] = s[k + i - 2]
      <4>1. i - 1 \in 1..(n - k + 1) /\ 1 + (i - 1) = i /\ k + (i - 1) - 1 = k + i - 2
        BY <2>1
      <4> HIDE DEF t, n
      <4> QED
        BY <3>1, <3>3, <4>1
    <3>5. 1 + (n - k + 1) = n - k + 2
      BY <2>1
    <3> QED
      BY <3>3, <3>4, <3>5
  <2>4. n >= 1 /\ s[n].kind # "tools"
    <3>1. n >= 1 /\ s # <<>>
      BY <2>1, EmptySeq
    <3> QED
      BY <3>1 DEF EndsCalling
  <2>5. /\ \A i \in 1..(n - 1) : s[i].kind = "tools" => s[i + 1].role = "result"
        /\ \A i \in 1..n : s[i].role = "result" => i > 1 /\ s[i - 1].kind = "tools"
    BY <2>1 DEF Paired
  <2> HIDE DEF n, t
  <2>6. ASSUME NEW i \in 1..(n - k + 1), t[i].kind = "tools"
        PROVE  t[i + 1].role = "result"
    <3>1. i # 1
      BY <1>0, <2>3, <2>6
    <3>2. i \in 2..(n - k + 2) /\ i + 1 \in 2..(n - k + 2) /\ k + i - 2 \in 1..(n - 1)
          /\ (k + i - 2) + 1 = k + (i + 1) - 2
      BY <2>1, <3>1
    <3>3. s[k + i - 2].kind = "tools" /\ t[i + 1] = s[k + (i + 1) - 2]
      BY <2>3, <2>6, <3>2
    <3>4. s[(k + i - 2) + 1].role = "result"
      BY <2>5, <3>2, <3>3
    <3> QED
      BY <3>2, <3>3, <3>4
  <2>7. ASSUME NEW i \in 1..(n - k + 2), t[i].role = "result"
        PROVE  i > 1 /\ t[i - 1].kind = "tools"
    <3>1. i # 1
      BY <1>0, <2>3, <2>7
    <3>2. i # 2
      <4> SUFFICES ASSUME i = 2 PROVE FALSE
        OBVIOUS
      <4>1. 2 \in 2..(n - k + 2) /\ k + 2 - 2 = k
        BY <2>1
      <4>2. t[2] = s[k + 2 - 2]
        BY <2>3, <4>1
      <4> QED
        BY <2>2, <2>7, <4>1, <4>2
    <3>3. i \in 2..(n - k + 2) /\ i - 1 \in 2..(n - k + 2) /\ k + i - 2 \in 1..n
          /\ (k + i - 2) - 1 = k + (i - 1) - 2 /\ i > 1
      BY <2>1, <3>1, <3>2
    <3>4. s[k + i - 2].role = "result" /\ t[i - 1] = s[k + (i - 1) - 2]
      BY <2>3, <2>7, <3>3
    <3>5. s[(k + i - 2) - 1].kind = "tools"
      BY <2>5, <3>3, <3>4
    <3> QED
      BY <3>3, <3>4, <3>5
  <2>8. Paired(t)
    <3>1. 1..(Len(t) - 1) = 1..(n - k + 1)
      BY <2>1, <2>3
    <3> QED
      BY <2>3, <2>6, <2>7, <3>1 DEF Paired
  <2>9. ~EndsCalling(t)
    <3>1. n - k + 2 \in 2..(n - k + 2) /\ k + (n - k + 2) - 2 = n
      BY <2>1
    <3>2. t[n - k + 2] = s[k + (n - k + 2) - 2]
      BY <2>3, <3>1
    <3>3. t[Len(t)] = s[n]
      BY <2>3, <3>1, <3>2
    <3> QED
      BY <2>4, <3>3 DEF EndsCalling
  <2>10. b = t
    BY <1>2 DEF t, n
  <2> HIDE DEF b
  <2> QED
    BY <2>8, <2>9, <2>10
<1>3. b = <<c>> \/ \E k \in 1..Len(s) : s[k].id = c.keep /\ b = <<c>> \o SubSeq(s, k, Len(s))
  BY <1>0, Rebuilt
<1> HIDE DEF b
<1>4. Paired(b) /\ ~EndsCalling(b)
  BY <1>1, <1>2, <1>3
<1> QED
  BY <1>4 DEF b

\* Unless a compaction was recorded between a call and its result.
Fit(ctx, entries, working) == CutAt(entries) \/ Whole(ctx, entries, working)

PairInv == ~deaf /\ ~crossed /\ ~overlapped => Fit(context, session \o saving, run.at = "tools")

LEMMA FitAppend ==
  ASSUME NEW ctx \in Seq(Messages), NEW s \in Seq(Messages), NEW m \in Messages,
         NEW working \in BOOLEAN, Fit(ctx, s, working), working <=> m.role = "result"
  PROVE  Fit(Append(ctx, m), Append(s, m), m.kind = "tools")
BY PairedAppend DEF Fit, Whole

LEMMA FitJoin ==
  ASSUME NEW ctx \in Seq(Messages), NEW s \in Seq(Messages), NEW t \in Seq(Messages), Silent(t),
         Fit(ctx, s, FALSE)
  PROVE  Fit(ctx \o t, s \o t, FALSE)
BY PairedJoin DEF Fit, Whole

LEMMA FitTrimmed ==
  ASSUME NEW ctx \in Seq(Messages), NEW s, Fit(ctx, s, FALSE)
  PROVE  Fit(WithoutTrailingReply(ctx), s, FALSE)
BY PairedTrimmed DEF Fit, Whole

\* What a compaction keeps from is no result.
LEMMA KeptIs ==
  ASSUME IdInv, NEW n \in Others, NEW k \in DOMAIN session, session[k].id = n
  PROVE  session[k].role # "result"
BY DEF IdInv, Told, Results

LEMMA FitRebuilt ==
  ASSUME SessionTypes, IdInv, NEW n \in Others, n \in Nat, NEW working \in BOOLEAN,
         Fit(context, session, working)
  PROVE  /\ Fit(BuildContext(Compacted(n)), Compacted(n), FALSE)
         /\ working => CutAt(Compacted(n))
<1> DEFINE c == CompactionOf(clock, n)
<1>1. c \in Messages /\ IsCompaction(c) /\ c.keep = n /\ c.role # "result" /\ c.kind # "tools"
  BY Made, Fields DEF SessionTypes, IsCompaction
<1>2. session \in Seq(Messages) /\ Compacted(n) = Append(session, c)
  BY DEF SessionTypes, Compacted
<1> HIDE DEF c
<1>3. \A k \in DOMAIN session : session[k].id = c.keep => session[k].role # "result"
  BY <1>1, KeptIs
<1>4. CASE CutAt(session)
  BY <1>1, <1>2, <1>4, PairedAppend DEF Fit
<1>5. CASE Whole(context, session, working) /\ working
  BY <1>1, <1>2, <1>5, PairedAppend DEF Fit, Whole
<1>6. CASE Whole(context, session, working) /\ ~working
  <2>1. Paired(session) /\ ~EndsCalling(session)
    BY <1>6 DEF Whole
  <2>2. Paired(BuildContext(Append(session, c))) /\ ~EndsCalling(BuildContext(Append(session, c)))
    BY <1>1, <1>2, <1>3, <2>1, PairedRebuilt
  <2>3. Paired(Append(session, c)) /\ ~EndsCalling(Append(session, c))
    BY <1>1, <1>2, <2>1, PairedAppend
  <2> QED
    BY <1>2, <1>6, <2>2, <2>3 DEF Fit, Whole
<1> QED
  BY <1>4, <1>5, <1>6 DEF Fit

LEMMA FitAfter ==
  ASSUME SessionTypes, IdInv, NEW p \in Prompters, pc[p] \in {"preflight", "compacting"},
         NEW working \in BOOLEAN, Fit(context, session, working)
  PROVE  /\ Fit(ContextAfter(p), Compacted(held[p].id), FALSE)
         /\ working => CutAt(Compacted(held[p].id))
<1> DEFINE n == held[p].id
<1>1. n \in Others /\ n \in Nat
  <2>1. n \in Others
    BY OthersHave
  <2>2. held \in [Prompters -> [id : Nat, retry : BOOLEAN]]
    BY DEF SessionTypes
  <2> QED
    BY <2>1, <2>2
<1>2. Fit(BuildContext(Compacted(n)), Compacted(n), FALSE) /\ (working => CutAt(Compacted(n)))
  <2> HIDE DEF n
  <2> QED
    BY <1>1, FitRebuilt
<1>3. BuildContext(Compacted(n)) \in Seq(Messages)
  <2>1. CompactionOf(clock, n) \in Messages /\ CompactionOf(clock, n).role = "compaction"
    BY <1>1, Made, Fields DEF SessionTypes
  <2>2. session \in Seq(Messages)
    BY DEF SessionTypes
  <2> QED
    BY <2>1, <2>2, RebuiltContext DEF Compacted
<1>4. ContextAfter(p) \in {BuildContext(Compacted(n)), WithoutTrailingReply(BuildContext(Compacted(n)))}
  BY DEF ContextAfter
<1> HIDE DEF n
<1>5. Fit(ContextAfter(p), Compacted(n), FALSE)
  BY <1>2, <1>3, <1>4, FitTrimmed
<1> QED
  BY <1>2, <1>5 DEF n

LEMMA BashesSilent ==
  ASSUME SessionTypes
  PROVE  pendingBash \in Seq(Messages) /\ Silent(pendingBash)
<1>1. pendingBash \in Seq(Bashes)
  BY DEF SessionTypes
<1>2. ASSUME NEW m \in Bashes PROVE m.role # "result" /\ m.kind # "tools"
  <2>1. m \in Messages /\ m.role = "bash"
    BY DEF Bashes
  <2>2. m.kind \notin ReplyKinds
    BY <2>1, MessageFields
  <2> QED
    BY <2>1, <2>2 DEF ReplyKinds
<1> QED
  BY <1>1, <1>2, NoResults DEF Silent

LEMMA GoesOnStage ==
  ASSUME NEW p \in Prompters, NEW ctx, NEW entries, GoesOn(p, ctx, entries), run.at # "tools"
  PROVE  run'.at # "tools"
<1>1. Released(p).at # "tools"
  BY DEF Released, NoRun
<1>2. CASE Continues(p, ctx, entries)
  <2>1. PICK todo, skip : run' = NewRun(todo, skip)
    BY <1>2 DEF Continues
  <2> QED
    BY <2>1 DEF NewRun
<1>3. CASE Rests(p, ctx, entries)
  BY <1>1, <1>3 DEF Rests
<1>4. CASE Compacts(p, ctx)
  BY <1>1, <1>4 DEF Compacts
<1> QED
  BY <1>2, <1>3, <1>4 DEF GoesOn

LEMMA GoesOnFit ==
  ASSUME SessionTypes, NEW p \in Prompters, NEW ctx \in Seq(Messages), NEW entries \in Seq(Messages),
         GoesOn(p, ctx, entries), Fit(ctx, entries, FALSE), run.at # "tools"
  PROVE  Fit(context', session', FALSE)
<1>1. CASE Continues(p, ctx, entries)
  <2>1. context' = ctx /\ session' = entries
    BY <1>1 DEF Continues
  <2> QED
    BY <2>1
<1>2. CASE Rests(p, ctx, entries)
  <2>1. context' = ctx \o pendingBash /\ session' = entries \o pendingBash
    BY <1>2 DEF Rests, Settle
  <2>2. Fit(ctx \o pendingBash, entries \o pendingBash, FALSE)
    BY BashesSilent, FitJoin
  <2> QED
    BY <2>1, <2>2
<1>3. CASE Compacts(p, ctx) /\ entries = session
  BY <1>3 DEF Compacts
<1> QED
  BY <1>1, <1>2, <1>3 DEF GoesOn

\* Unless calls overlap, no tool is at work in an idle session, or at the end of
\* a run, a delay or a compaction.
LEMMA NoToolAtWork ==
  ASSUME SessionTypes, IdleInv, ~overlapped
  PROVE  /\ ~active => run.at = "none"
         /\ \A p \in Prompters :
              pc[p] \in Busy /\ (pc[p] = "running" => run.at = "ending") => run.at # "tools"
<1>1. /\ run.at # "none" <=> \E q \in Prompters : pc[q] = "running"
      /\ \A p, q \in Prompters : pc[p] \in Busy /\ pc[q] \in Busy => p = q
      /\ ~AtRest => active
  BY DEF IdleInv, Lone, OneRun, BusyIsActive
<1>2. ~active => run.at = "none"
  BY <1>1 DEF AtRest
<1>3. ASSUME NEW p \in Prompters, pc[p] \in Busy, pc[p] = "running" => run.at = "ending", run.at = "tools"
      PROVE  FALSE
  <2>1. PICK q \in Prompters : pc[q] = "running"
    BY <1>1, <1>3
  <2>2. p = q
    BY <1>1, <1>3, <2>1 DEF Busy
  <2> QED
    BY <1>3, <2>1, <2>2
<1> QED
  BY <1>2, <1>3

\* What is being saved is no compaction, and cuts nothing in.
LEMMA CutSaved ==
  ASSUME SessionTypes, SavingTypes, CutAt(session \o saving)
  PROVE  CutAt(session)
<1>1. session \in Seq(Messages)
  BY DEF SessionTypes
<1>2. CASE saving = <<>>
  BY <1>1, <1>2, Ledger
<1>3. CASE saving # <<>>
  <2>1. PICK m \in Messages : saving = <<m>> /\ m.role # "compaction"
    BY <1>3 DEF SavingTypes
  <2> DEFINE t == Append(session, m)
             n == Len(session)
  <2>2. CutAt(t)
    BY <1>1, <2>1, Ledger
  <2>3. n \in Nat /\ Len(t) = n + 1 /\ t[n + 1] = m /\ \A i \in 1..n : t[i] = session[i]
    BY <1>1, AppendProperties
  <2> HIDE DEF t, n
  <2>4. PICK i \in 1..n : t[i].kind = "tools" /\ IsCompaction(t[i + 1])
    BY <2>2, <2>3 DEF CutAt
  <2>5. i # n
    BY <2>1, <2>3, <2>4 DEF IsCompaction
  <2>6. i \in 1..(n - 1) /\ i + 1 \in 1..n
    BY <2>3, <2>4, <2>5
  <2> QED
    BY <2>3, <2>4, <2>6 DEF CutAt, n
<1> QED
  BY <1>2, <1>3

\* Steps that are none of the run's, and neither begin nor end a tool's work;
\* what they change while a message is being saved counts as crossed.
LEMMA CalmPairs ==
  ASSUME SessionTypes, SessionTypes', PairInv, deaf' = deaf, overlapped' = overlapped, Meanwhile,
         NEW working, working = (run.at = "tools"), working = (run'.at = "tools"),
         saving = <<>> /\ ~deaf /\ ~overlapped /\ Fit(context, session, working) =>
           Fit(context', session', working)
  PROVE  PairInv'
<1> SUFFICES ASSUME ~deaf', ~crossed', ~overlapped'
             PROVE  Fit(context', session' \o saving', working)
  BY DEF PairInv
<1>1. /\ ~deaf /\ ~overlapped /\ ~crossed /\ saving' = saving
      /\ saving # <<>> => context' = context /\ session' = session
  BY DEF Meanwhile
<1>2. Fit(context, session \o saving, working)
  BY <1>1 DEF PairInv
<1>3. CASE saving = <<>>
  <2>1. session \o saving = session /\ session' \o saving' = session'
    BY <1>1, <1>3, Ledger DEF SessionTypes
  <2> QED
    BY <1>1, <1>2, <1>3, <2>1
<1>4. CASE saving # <<>>
  BY <1>1, <1>2, <1>4
<1> QED
  BY <1>3, <1>4

LEMMA EndPairs ==
  ASSUME SessionTypes, SessionTypes', IdleInv, IdInv, PairInv, NEW p \in Prompters, EndStep(p)
  PROVE  PairInv'
<1> SUFFICES ASSUME ~overlapped PROVE PairInv'
  <2>1. overlapped' = overlapped
    BY Ends
  <2> QED
    BY <2>1 DEF PairInv
<1>1. /\ pc[p] \in Busy /\ (pc[p] = "running" => run.at = "ending")
      /\ deaf' = deaf /\ overlapped' = overlapped /\ Meanwhile
  BY Ends
<1>2. run.at # "tools"
  BY <1>1, NoToolAtWork
<1>3. PICK ctx \in Seq(Messages), entries \in Seq(Messages) :
        /\ GoesOn(p, ctx, entries)
        /\ \/ entries = session /\ ctx \in {context, WithoutTrailingReply(context)}
           \/ pc[p] = "compacting" /\ entries = Compacted(held[p].id) /\ ctx = ContextAfter(p)
  BY EndSources
<1>4. run'.at # "tools"
  BY <1>2, <1>3, GoesOnStage
<1>5. ASSUME Fit(context, session, FALSE) PROVE Fit(context', session', FALSE)
  <2>1. Fit(ctx, entries, FALSE)
    <3>1. CASE entries = session /\ ctx \in {context, WithoutTrailingReply(context)}
      BY <1>5, <3>1, FitTrimmed DEF SessionTypes
    <3>2. CASE pc[p] = "compacting" /\ entries = Compacted(held[p].id) /\ ctx = ContextAfter(p)
      BY <1>5, <3>2, FitAfter
    <3> QED
      BY <1>3, <3>1, <3>2
  <2> QED
    BY <1>2, <1>3, <2>1, GoesOnFit
<1>6. FALSE = (run.at = "tools") /\ FALSE = (run'.at = "tools")
  BY <1>2, <1>4
<1> QED
  BY <1>1, <1>5, <1>6, CalmPairs

\* A run starts while no tool is at work; otherwise the calls overlap.
LEMMA RunsPairs ==
  ASSUME SessionTypes, IdleInv, PairInv, NEW p \in Prompters, NEW todo, Runs(p, todo),
         pc[p] \in {"idle", "starting"}
  PROVE  PairInv'
<1> USE DEF records
<1> SUFFICES ASSUME ~deaf', ~crossed', ~overlapped'
             PROVE  Fit(context', session' \o saving', run'.at = "tools")
  BY DEF PairInv
<1>1. ~deaf /\ ~overlapped /\ ~active
  BY DEF Runs
<1>2. run.at = "none"
  BY <1>1, NoToolAtWork
<1>3. run' = NewRun(todo, FALSE) /\ UNCHANGED records
  BY <1>2 DEF Runs
<1>4. Fit(context, session \o saving, FALSE)
  <2>1. (run.at = "tools") = FALSE
    BY <1>2
  <2>2. ~crossed
    BY <1>3
  <2> QED
    BY <1>1, <2>1, <2>2 DEF PairInv
<1>5. (run'.at = "tools") = FALSE
  BY <1>3 DEF NewRun
<1>6. context' = context /\ session' \o saving' = session \o saving
  BY <1>3
<1> QED
  BY <1>4, <1>5, <1>6

LEMMA RunPairs ==
  ASSUME SessionTypes, SavingTypes, PairInv, RunStep
  PROVE  PairInv'
<1> SUFFICES ASSUME ~deaf', ~crossed', ~overlapped'
             PROVE  Fit(context', session' \o saving', run'.at = "tools")
  BY DEF PairInv
<1>0. /\ context \in Seq(Messages) /\ session \in Seq(Messages) /\ clock \in Nat /\ run \in RunRecords
  BY DEF SessionTypes
<1>1. ASSUME ~deaf, ~crossed, ~overlapped PROVE Fit(context, session \o saving, run.at = "tools")
  BY <1>1 DEF PairInv
<1>2. ASSUME NEW m \in Messages, Finished(m), ~overlapped, run.at = "tools" <=> m.role = "result",
             run'.at = "tools" <=> m.kind = "tools"
      PROVE  Fit(context', session' \o saving', run'.at = "tools")
  <2>1. /\ ~deaf /\ ~crossed /\ saving = <<>> /\ saving' = <<m>>
        /\ context' = Append(context, m) /\ session' = session
    BY <1>2 DEF Finished
  <2>4. session \o saving = session /\ session' \o saving' = Append(session, m)
    BY <1>0, <1>2, <2>1, Ledger
  <2>2. Fit(context', session' \o saving', m.kind = "tools")
    <3> DEFINE working == run.at = "tools"
    <3>1. working \in BOOLEAN /\ Fit(context, session, working) /\ (working <=> m.role = "result")
      BY <1>1, <1>2, <2>1, <2>4
    <3> HIDE DEF working
    <3>2. Fit(Append(context, m), Append(session, m), m.kind = "tools")
      BY <1>0, <1>2, <3>1, FitAppend
    <3> QED
      BY <2>1, <2>4, <3>2
  <2>3. (run'.at = "tools") = (m.kind = "tools")
    BY <1>2
  <2> QED
    BY <2>2, <2>3
<1>3. CASE Announce
  <2> DEFINE m == Head(run.todo)
  <2>1. run.at \in {"prompts", "turn"} /\ run.todo # <<>> /\ Finished(m) /\ ~overlapped
        /\ run' = [run EXCEPT !.todo = Tail(@)]
    BY <1>3 DEF Announce
  <2>2. run.todo \in Seq(Loose) /\ m \in Loose /\ run'.at = run.at
    BY <1>0, <2>1, HeadTailProperties DEF RunRecords
  <2>3. m \in Messages /\ m.role \in {"user", "custom"}
    BY <2>2 DEF Loose
  <2> HIDE DEF m
  <2>4. m.kind # "tools" /\ m.role # "result"
    BY <2>3, MessageFields DEF ReplyKinds
  <2> QED
    BY <1>2, <2>1, <2>2, <2>3, <2>4
<1>4. CASE Poll
  <2>1. run.at = "prompts" /\ run'.at = "turn" /\ UNCHANGED <<context, session, saving, crossed, deaf, overlapped>>
    BY <1>0, <1>4 DEF Poll, records, history, RunRecords
  <2>2. (run.at = "tools") = (run'.at = "tools")
    BY <2>1
  <2> QED
    BY <1>1, <2>1, <2>2
<1>5. ASSUME NEW kind \in Replies \union {"stop"}, Reply(kind)
      PROVE  Fit(context', session' \o saving', run'.at = "tools")
  <2> DEFINE m == Message("assistant", kind, clock)
  <2>1. run.at = "turn" /\ Finished(m) /\ ~overlapped
    BY <1>5 DEF Reply
  <2>2. m \in Messages /\ m.role = "assistant" /\ m.kind = kind
    <3>1. kind \in ReplyKinds
      BY SessionAssumption DEF ReplyKinds
    <3> QED
      BY <1>0, <3>1, Made, Fields
  <2>3. run'.at = "tools" <=> kind = "tools"
    BY <1>0, <1>5 DEF Reply, RunRecords
  <2> HIDE DEF m
  <2> QED
    BY <1>2, <2>1, <2>2, <2>3
<1>6. CASE ToolResult
  <2> DEFINE m == Message("result", "text", clock)
  <2>1. run.at = "tools" /\ Finished(m) /\ ~overlapped /\ run'.at = "prompts"
    BY <1>0, <1>6 DEF ToolResult, RunRecords
  <2>2. m \in Messages /\ m.role = "result" /\ m.kind = "text"
    BY <1>0, Made, Fields
  <2> HIDE DEF m
  <2> QED
    BY <1>2, <2>1, <2>2
<1>7. CASE Stopping
  <2>1. run.at = "stopping" /\ UNCHANGED <<context, session, saving, crossed, deaf, overlapped>>
    BY <1>7 DEF Stopping, records, history
  <2>2. run'.at \in {"turn", "ending"}
    BY <1>0, <1>7 DEF Stopping, RunRecords
  <2>3. (run.at = "tools") = (run'.at = "tools")
    BY <2>1, <2>2
  <2> QED
    BY <1>1, <2>1, <2>3
<1>8. CASE Save
  <2>1. PICK m \in Messages : saving = <<m>>
    BY <1>8 DEF Save, SavingTypes
  <2>2. /\ session' = Append(session, m) /\ saving' = <<>>
        /\ UNCHANGED <<context, crossed, deaf, overlapped, run>>
    BY <1>8, <2>1 DEF Save, history
  <2>3. session' \o saving' = session \o saving
    <3>1. session' \in Seq(Messages) /\ session \o <<m>> = Append(session, m)
      BY <1>0, <2>2, Ledger
    <3>2. session' \o <<>> = session'
      BY <3>1, Ledger
    <3> QED
      BY <2>1, <2>2, <3>1, <3>2
  <2> QED
    BY <1>1, <2>2, <2>3
<1> QED
  BY <1>3, <1>4, <1>5, <1>6, <1>7, <1>8 DEF RunStep

LEMMA PairSteps ==
  ASSUME SessionTypes, SavingTypes, IdleInv, IdInv, PairInv, [Next]_vars
  PROVE  PairInv'
<1> USE DEF queues, shown, records, retries, calls, manual, history, bounds
<1>0. /\ context \in Seq(Messages) /\ session \in Seq(Messages) /\ clock \in Nat /\ run \in RunRecords
      /\ SessionTypes'
  BY Types DEF SessionTypes
<1>1. ASSUME UNCHANGED <<context, session, saving, crossed, deaf, overlapped>>, run'.at = run.at
      PROVE  PairInv'
  <2>1. (run'.at = "tools") = (run.at = "tools") /\ session' \o saving' = session \o saving
    BY <1>1
  <2> QED
    BY <1>1, <2>1 DEF PairInv
<1>2. ASSUME NEW m \in Messages, m.role # "result", m.kind # "tools", Recorded(m), ~active,
             UNCHANGED <<run, deaf, overlapped>>
      PROVE  PairInv'
  <2> SUFFICES ASSUME ~overlapped PROVE PairInv'
    BY <1>2 DEF PairInv
  <2>1. run.at = "none"
    BY <1>2, NoToolAtWork
  <2>2. /\ FALSE = (run.at = "tools") /\ FALSE = (run'.at = "tools")
        /\ (m.kind = "tools") = FALSE /\ (m.role = "result") = FALSE
    BY <1>2, <2>1
  <2>3. Fit(context, session, FALSE) => Fit(context', session', FALSE)
    <3>1. Fit(context, session, FALSE) => Fit(Append(context, m), Append(session, m), m.kind = "tools")
      BY <1>0, <1>2, <2>2, FitAppend
    <3> QED
      BY <1>2, <2>2, <3>1 DEF Recorded
  <2>4. Meanwhile
    BY <1>2 DEF Recorded
  <2> QED
    BY <1>0, <1>2, <2>2, <2>3, <2>4, CalmPairs
<1>3. ASSUME NEW p \in Prompters, Submit(p) PROVE PairInv'
  <2> DEFINE R == Positions(context, IsReply)
             verdict == IF R = {} THEN "none" ELSE Verdict(context[Latest(R)])
             ctx == context \o pendingBash
             entries == session \o pendingBash
  <2>1. /\ session' = entries /\ context' = (IF verdict = "overflow" THEN WithoutTrailingReply(ctx) ELSE ctx)
        /\ ~active /\ Meanwhile /\ UNCHANGED <<run, deaf, overlapped>>
    BY <1>3 DEF Submit
  <2> HIDE DEF verdict
  <2> SUFFICES ASSUME ~overlapped PROVE PairInv'
    BY <2>1 DEF PairInv
  <2>2. run.at = "none"
    BY <2>1, NoToolAtWork
  <2>3. FALSE = (run.at = "tools") /\ FALSE = (run'.at = "tools")
    BY <2>1, <2>2
  <2>4. Fit(context, session, FALSE) => Fit(ctx, entries, FALSE)
    BY <1>0, BashesSilent, FitJoin
  <2>5. ctx \in Seq(Messages)
    BY <1>0, BashesSilent, ConcatProperties
  <2> HIDE DEF ctx, entries
  <2>6. Fit(context, session, FALSE) => Fit(context', session', FALSE)
    BY <2>1, <2>4, <2>5, FitTrimmed
  <2> QED
    BY <1>0, <2>1, <2>3, <2>6, CalmPairs
<1>4. ASSUME NEW p \in Prompters, SendTrigger(p) PROVE PairInv'
  <2> DEFINE todo == <<Message("custom", "text", clock)>>
  <2>1. Runs(p, todo) /\ pc[p] = "idle"
    BY <1>4 DEF SendTrigger
  <2> HIDE DEF todo
  <2> QED
    BY <2>1, RunsPairs
<1>5. ASSUME NEW p \in Prompters, Run(p) PROVE PairInv'
  BY <1>5, RunsPairs DEF Run
<1>6. ASSUME NEW p \in Prompters, RunUnheard(p) PROVE PairInv'
  <2>1. /\ run.at = "ending" /\ run' = NoRun /\ UNCHANGED <<deaf, overlapped>> /\ Meanwhile
        /\ context' = context \o pendingBash /\ session' = session \o pendingBash
    BY <1>6 DEF RunUnheard, RunIsOver, Settle
  <2>2. FALSE = (run.at = "tools") /\ FALSE = (run'.at = "tools")
    BY <2>1 DEF NoRun
  <2>3. Fit(context, session, FALSE) => Fit(context', session', FALSE)
    BY <1>0, <2>1, BashesSilent, FitJoin
  <2> QED
    BY <1>0, <2>1, <2>2, <2>3, CalmPairs
<1>7. ASSUME NEW p \in Prompters, Retry(p) PROVE PairInv'
  <2>1. /\ run.at = "ending" /\ saving = <<>> /\ run' = NoRun
        /\ UNCHANGED <<session, saving, crossed, deaf, overlapped>>
        /\ context' = WithoutTrailingReply(context)
    BY <1>7 DEF Retry, RunIsOver
  <2>2. FALSE = (run.at = "tools") /\ FALSE = (run'.at = "tools")
    BY <2>1 DEF NoRun
  <2>3. Fit(context, session, FALSE) => Fit(context', session', FALSE)
    BY <1>0, <2>1, FitTrimmed
  <2>4. Meanwhile
    BY <2>1 DEF Meanwhile, SavingTypes
  <2> QED
    BY <1>0, <2>1, <2>2, <2>3, <2>4, CalmPairs
<1>8. ASSUME NEW working \in BOOLEAN, NEW ctx, NEW entries, Fit(ctx, entries, FALSE),
             working => CutAt(entries)
      PROVE  Fit(ctx, entries, working)
  BY <1>8 DEF Fit
<1>9. ASSUME NEW p \in Prompters, PreflightDone(p) PROVE PairInv'
  <2>1. /\ pc[p] = "preflight" /\ UNCHANGED <<run, deaf, overlapped>> /\ Meanwhile
        /\ \/ session' = Compacted(held[p].id) /\ context' = ContextAfter(p)
           \/ UNCHANGED <<session, context>>
    BY <1>9 DEF PreflightDone
  <2> DEFINE working == run.at = "tools"
  <2>2. working \in BOOLEAN /\ working = (run.at = "tools") /\ working = (run'.at = "tools")
    BY <2>1
  <2> HIDE DEF working
  <2>3. Fit(context, session, working) => Fit(context', session', working)
    <3>1. CASE session' = Compacted(held[p].id) /\ context' = ContextAfter(p)
      BY <1>8, <2>1, <2>2, <3>1, FitAfter
    <3>2. CASE UNCHANGED <<session, context>>
      BY <3>2
    <3> QED
      BY <2>1, <3>1, <3>2
  <2> QED
    BY <1>0, <2>1, <2>2, <2>3, CalmPairs
<1>10. ASSUME NEW p \in Prompters, CallStep(p) PROVE PairInv'
  <2>1. ASSUME Settled(p) PROVE PairInv'
    BY <1>1, <2>1 DEF Settled
  <2> QED
    BY <1>0, <1>5, <1>6, <1>7, <1>9, <1>10, <2>1, EndPairs DEF CallStep, EndStep
<1>11. ASSUME Note \/ BashDone PROVE PairInv'
  <2>1. CASE Note
    <3> DEFINE m == Message("custom", "text", clock)
    <3>1. /\ m \in Messages /\ m.role # "result" /\ m.kind # "tools" /\ Recorded(m) /\ ~active
          /\ UNCHANGED <<run, deaf, overlapped>>
      BY <1>0, <2>1, Made, Fields DEF Note
    <3> HIDE DEF m
    <3> QED
      BY <1>2, <3>1
  <2>2. CASE BashDone
    <3> DEFINE m == Message("bash", "text", clock)
    <3>1. /\ m \in Messages /\ m.role # "result" /\ m.kind # "tools" /\ UNCHANGED <<run, deaf, overlapped>>
          /\ (Recorded(m) /\ ~active) \/ UNCHANGED <<context, session, saving, crossed>>
      BY <1>0, <2>2, Made, Fields DEF BashDone, BashIsDeferred
    <3> HIDE DEF m
    <3> QED
      BY <1>1, <1>2, <3>1
  <2> QED
    BY <1>11, <2>1, <2>2
<1>12. ASSUME \/ \E content \in Contents : Steer(content) \/ FollowUp(content)
              \/ QueueCustom \/ PushNextTurn \/ ClearQueue
       PROVE  PairInv'
  BY <1>1, <1>12 DEF Steer, FollowUp, QueueCustom, PushNextTurn, ClearQueue
<1>13. ASSUME NEW w, Aborts(w) PROVE run'.at = run.at
  BY <1>0, <1>13 DEF Aborts, RunRecords
<1>14. ASSUME NEW w \in Waiters, Abort(w) \/ Wait(w) PROVE PairInv'
  BY <1>1, <1>13, <1>14 DEF Abort, Wait
<1>15. ASSUME Outside PROVE PairInv'
  BY <1>11, <1>12, <1>14, <1>15 DEF Outside
<1>16. ASSUME Compact \/ CompactPrepares PROVE PairInv'
  BY <1>1, <1>13, <1>16 DEF Compact, CompactPrepares
<1>17. ASSUME CompactEnds PROVE PairInv'
  <2>1. /\ compactor = "compacting" /\ UNCHANGED <<run, deaf, overlapped>>
        /\ Meanwhile
        /\ \/ session' = Compacted(keeping) /\ context' = BuildContext(Compacted(keeping))
           \/ UNCHANGED <<session, context>>
    BY <1>17 DEF CompactEnds
  <2> DEFINE working == run.at = "tools"
  <2>2. working \in BOOLEAN /\ working = (run.at = "tools") /\ working = (run'.at = "tools")
    BY <2>1
  <2> HIDE DEF working
  <2>3. Fit(context, session, working) => Fit(context', session', working)
    <3>1. CASE session' = Compacted(keeping) /\ context' = BuildContext(Compacted(keeping))
      <4>1. keeping \in Others /\ keeping \in Nat
        BY <2>1, OthersHave DEF SessionTypes
      <4> QED
        BY <1>8, <2>2, <3>1, <4>1, FitRebuilt
    <3>2. CASE UNCHANGED <<session, context>>
      BY <3>2
    <3> QED
      BY <2>1, <3>1, <3>2
  <2> QED
    BY <1>0, <2>1, <2>2, <2>3, CalmPairs
<1>18. ASSUME UNCHANGED vars PROVE PairInv'
  BY <1>1, <1>18 DEF vars
<1> QED
  BY <1>3, <1>4, <1>10, <1>15, <1>16, <1>17, <1>18, RunPairs DEF Next

\* A tool call in what the model is shown is followed by its result, and a
\* result comes right behind a call, whatever is retried, compacted or deferred
\* in between: unless events were missed, prompts overlapped, records were changed
\* while a message was being saved, or a compaction was recorded between the two.
THEOREM SessionKeepsToolPairs == Spec => []ToolPairs
<1>1. Init => SessionTypes /\ SavingTypes /\ IdleInv /\ IdInv /\ PairInv
  <2> SUFFICES ASSUME Init PROVE IdInv /\ PairInv
    BY IdleStarts
  <2>1. /\ context = <<>> /\ session = <<>> /\ saving = <<>> /\ pendingBash = <<>> /\ nextTurn = <<>>
        /\ steering = <<>> /\ followUp = <<>> /\ run = NoRun /\ run.todo = <<>> /\ run.at = "none"
        /\ pc = [p \in Prompters |-> "idle"] /\ msgs = [p \in Prompters |-> <<>>]
        /\ compactor = "idle"
    BY DEF Init, NoRun
  <2>2. Keeps = {} /\ (UNION {Ids(msgs[p]) : p \in Prompters}) = {}
    BY <2>1, IdsEmpty DEF Keeps
  <2>3. Others = {} /\ Told = {}
    BY <2>1, <2>2, IdsEmpty DEF Others, Told
  <2>4. Paired(<<>>) /\ ~EndsCalling(<<>>) /\ session \o saving = <<>>
    BY <2>1 DEF Paired, EndsCalling
  <2> QED
    BY <2>1, <2>3, <2>4 DEF IdInv, PairInv, Fit, Whole
<1>2. SessionTypes /\ SavingTypes /\ IdleInv /\ IdInv /\ PairInv /\ [Next]_vars
        => (SessionTypes /\ SavingTypes /\ IdleInv /\ IdInv /\ PairInv)'
  BY Types, SavingKept, Idle, IdSteps, PairSteps
<1>3. SessionTypes /\ SavingTypes /\ PairInv => ToolPairs
  <2> SUFFICES ASSUME SessionTypes, SavingTypes, PairInv, ~deaf, ~crossed, ~overlapped, ~CutIn
               PROVE  Paired(context)
    BY DEF ToolPairs, Paired
  <2>1. Fit(context, session \o saving, run.at = "tools") /\ ~CutAt(session)
    BY DEF PairInv, CutIn, CutAt
  <2> QED
    BY <2>1, CutSaved DEF Fit, Whole
<1> QED
  BY <1>1, <1>2, <1>3, PTL DEF Spec
=============================================================================
