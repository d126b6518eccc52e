------------------------- MODULE Compaction_proofs -------------------------
(***************************************************************************)
(* Proofs about Compaction.tla, for branches and budgets of any size, and  *)
(* about the cuts MCCompaction.tla holds against those of AgentSession.    *)
(*                                                                         *)
(* That no cut parts a result from its reply takes two facts: between the  *)
(* two there is nothing a cut may be placed at, and a cut that moves back  *)
(* stops at a result.                                                      *)
(***************************************************************************)
EXTENDS MCCompaction, SequenceTheorems, WellFoundedInduction, NaturalsInduction, TLAPS

-----------------------------------------------------------------------------
(* The inductive invariant, in parts that speak of any branch b.           *)

Entries == [role: Cut!Roles, ref: Nat]

\* Entries point back, and the latest compaction keeps at least one of them.
Pointing(b) ==
  /\ b \in Seq(Entries)
  /\ \A i \in DOMAIN b : b[i].ref < i
  /\ \A i \in DOMAIN b : b[i].role = "compaction" => b[i].ref >= 1

\* From its reply to a result there are only results of that reply, and in the
\* coding agent (~h) entries without a message.
CloseTo(b, h, j, r) ==
  /\ r >= 1 /\ b[r].role = "assistant"
  /\ \A k \in (r + 1)..j : \/ b[k].role = "result" /\ b[k].ref = r
                           \/ ~h /\ b[k].role = "meta"

ResultsAreClose(b, h) ==
  \A j \in DOMAIN b : b[j].role = "result" => CloseTo(b, h, j, b[j].ref)

\* ResultsFollowTheirReply, said of b.
ResultsFollow(b) ==
  \A j \in DOMAIN b : b[j].role = "result" /\ Cut!BoundaryStart(b) <= j =>
                        Cut!BoundaryStart(b) <= b[j].ref

\* What was said before the context begins is in its latest summary, but for a
\* branch that has let one go.
SummaryIsWhole(b, covered, gone) ==
  gone \/ \A i \in DOMAIN b :
            /\ b[i].role \notin {"meta", "compaction"}
            /\ i < Cut!BoundaryStart(b)
            => i \in covered[Cut!LatestCompaction(b)]

BranchInv ==
  /\ harness \in BOOLEAN /\ forgot \in BOOLEAN
  /\ Len(branch) <= MaxEntries /\ DOMAIN covers = 1..MaxEntries
  /\ toSummarize \union turnPrefix \subseteq DOMAIN branch
  /\ Pointing(branch)
  /\ ResultsAreClose(branch, harness)
  /\ ResultsFollow(branch)
  /\ SummaryIsWhole(branch, covers, forgot)
  /\ Cut!EachInOnePlace
  /\ CutIsLegal

-----------------------------------------------------------------------------
(* Least and greatest elements.                                            *)

LEMMA LeastOf ==
  ASSUME NEW S \in SUBSET Nat, S # {}
  PROVE  /\ Cut!Min(S) \in S
         /\ \A y \in S : Cut!Min(S) <= y
<1> DEFINE R == {ss \in Nat \X Nat : ss[1] < ss[2]}
<1>1. IsWellFoundedOn(R, Nat)
  BY NatLessThanWellFounded DEF OpToRel
<1>2. PICK x \in S : \A y \in S : <<y, x>> \notin R
  <2> HIDE DEF R
  <2> QED
    BY <1>1, WFMin
<1>3. \A y \in S : x <= y
  <2> SUFFICES ASSUME NEW y \in S, y < x PROVE FALSE
    OBVIOUS
  <2>1. <<y, x>> \in Nat \X Nat /\ <<y, x>>[1] < <<y, x>>[2]
    OBVIOUS
  <2> QED
    BY <1>2, <2>1
<1> QED
  BY <1>3 DEF Cut!Min

LEMMA GreatestOf ==
  ASSUME NEW n \in Nat, NEW S \in SUBSET (1..n), S # {}
  PROVE  /\ Cut!Max(S) \in S
         /\ \A y \in S : Cut!Max(S) >= y
<1> DEFINE T == {n - x : x \in S}
<1>1. T \in SUBSET Nat
  OBVIOUS
<1>1a. T # {}
  OBVIOUS
<1>2. Cut!Min(T) \in T /\ \A y \in T : Cut!Min(T) <= y
  <2> HIDE DEF T
  <2> QED
    BY <1>1, <1>1a, LeastOf
<1>3. PICK x \in S : Cut!Min(T) = n - x
  BY <1>2
<1>4. \A y \in S : x >= y
  <2> SUFFICES ASSUME NEW y \in S PROVE x >= y
    OBVIOUS
  <2>1. n - y \in T
    OBVIOUS
  <2>2. n - x <= n - y
    BY <1>2, <1>3, <2>1
  <2> QED
    BY <2>2
<1> QED
  BY <1>4 DEF Cut!Max

LEMMA LastOfIn ==
  ASSUME NEW n \in Nat, NEW S \in SUBSET (1..n)
  PROVE  /\ Cut!LastOf(S) \in 0..n
         /\ Cut!LastOf(S) = 0 <=> S = {}
         /\ S # {} => Cut!LastOf(S) \in S
         /\ \A y \in S : Cut!LastOf(S) >= y
<1>1. CASE S = {}
  BY <1>1 DEF Cut!LastOf
<1>2. CASE S # {}
  <2>1. Cut!LastOf(S) = Cut!Max(S)
    BY <1>2 DEF Cut!LastOf
  <2>2. Cut!Max(S) \in S /\ \A y \in S : Cut!Max(S) >= y
    BY <1>2, GreatestOf
  <2> DEFINE m == Cut!Max(S)
  <2>3. m \in S /\ (\A y \in S : m >= y) /\ Cut!LastOf(S) = m
    BY <2>1, <2>2
  <2> HIDE DEF m
  <2>4. m \in 1..n
    BY <2>3
  <2>5. m \in 0..n /\ m # 0
    BY <2>4
  <2> QED
    BY <1>2, <2>3, <2>5
<1> QED
  BY <1>1, <1>2

LEMMA LastOfIs ==
  ASSUME NEW n \in Nat, NEW S \in SUBSET (1..n), NEW x \in S, \A y \in S : y <= x
  PROVE  Cut!LastOf(S) = x
<1>1. S # {} /\ Cut!LastOf(S) = Cut!Max(S)
  BY DEF Cut!LastOf
<1>2. Cut!Max(S) \in S /\ Cut!Max(S) >= x
  BY <1>1, GreatestOf
<1>3. Cut!Max(S) \in 1..n /\ Cut!Max(S) <= x
  BY <1>2
<1> QED
  BY <1>1, <1>2, <1>3

-----------------------------------------------------------------------------
(* A branch, and a branch with one entry more.                             *)

LEMMA LatestFacts ==
  ASSUME NEW b \in Seq(Entries)
  PROVE  /\ Cut!LatestCompaction(b) \in 0..Len(b)
         /\ Cut!LatestCompaction(b) # 0 =>
              b[Cut!LatestCompaction(b)].role = "compaction"
         /\ \A i \in DOMAIN b : b[i].role = "compaction" => i <= Cut!LatestCompaction(b)
<1> DEFINE S == Cut!Places(b, {"compaction"})
           n == Len(b)
<1>1. S = {i \in 1..n : b[i].role = "compaction"} /\ n \in Nat /\ DOMAIN b = 1..n
  BY DEF Cut!Places
<1>2. S \in SUBSET (1..n) /\ Cut!LatestCompaction(b) = Cut!LastOf(S)
  BY <1>1 DEF Cut!LatestCompaction
<1> HIDE DEF S, n
<1>3. /\ Cut!LastOf(S) \in 0..n
      /\ Cut!LastOf(S) = 0 <=> S = {}
      /\ S # {} => Cut!LastOf(S) \in S
      /\ \A y \in S : Cut!LastOf(S) >= y
  BY <1>1, <1>2, LastOfIn
<1>4. Cut!LatestCompaction(b) \in 0..n
  BY <1>2, <1>3
<1>5. ASSUME Cut!LatestCompaction(b) # 0
      PROVE  b[Cut!LatestCompaction(b)].role = "compaction"
  BY <1>1, <1>2, <1>3, <1>5
<1>6. ASSUME NEW i \in DOMAIN b, b[i].role = "compaction"
      PROVE  i <= Cut!LatestCompaction(b)
  <2>1. i \in S
    BY <1>1, <1>6
  <2> QED
    BY <1>1, <1>2, <1>3, <2>1
<1> QED
  BY <1>4, <1>5, <1>6 DEF n

LEMMA BoundaryFacts ==
  ASSUME NEW b, Pointing(b)
  PROVE  /\ Cut!BoundaryStart(b) \in Nat /\ Cut!BoundaryStart(b) >= 1
         /\ Cut!LatestCompaction(b) = 0 => Cut!BoundaryStart(b) = 1
         /\ Cut!LatestCompaction(b) # 0 =>
              Cut!BoundaryStart(b) < Cut!LatestCompaction(b)
         /\ b # <<>> => Cut!BoundaryStart(b) <= Len(b)
<1>0. b \in Seq(Entries)
  BY DEF Pointing
<1> DEFINE n == Len(b)
           c == Cut!LatestCompaction(b)
<1>1. n \in Nat /\ DOMAIN b = 1..n /\ (b # <<>> => n >= 1)
  BY <1>0
<1>2. c \in 0..n /\ (c # 0 => b[c].role = "compaction")
  BY <1>0, LatestFacts
<1>3. Cut!BoundaryStart(b) = IF c = 0 THEN 1 ELSE b[c].ref
  BY DEF Cut!BoundaryStart
<1> HIDE DEF n, c
<1>4. CASE c = 0
  BY <1>1, <1>3, <1>4 DEF n, c
<1>5. CASE c # 0
  <2>1. c \in 1..n /\ b[c] \in Entries /\ b[c].ref < c /\ b[c].ref >= 1
    BY <1>0, <1>1, <1>2, <1>5 DEF Pointing
  <2>2. b[c].ref \in Nat
    BY <2>1 DEF Entries
  <2> QED
    BY <1>1, <1>3, <1>5, <2>1, <2>2 DEF n, c
<1> QED
  BY <1>4, <1>5

LEMMA Appended ==
  ASSUME NEW b \in Seq(Entries), NEW e \in Entries, NEW d, d = Append(b, e)
  PROVE  /\ d \in Seq(Entries)
         /\ Len(d) = Len(b) + 1
         /\ DOMAIN d = 1..(Len(b) + 1)
         /\ \A i \in 1..Len(b) : d[i] = b[i]
         /\ d[Len(b) + 1] = e
         /\ d # <<>>
OBVIOUS

LEMMA LatestAppended ==
  ASSUME NEW b \in Seq(Entries), NEW e \in Entries, NEW d, d = Append(b, e)
  PROVE  /\ e.role # "compaction" =>
              /\ Cut!LatestCompaction(d) = Cut!LatestCompaction(b)
              /\ Cut!BoundaryStart(d) = Cut!BoundaryStart(b)
         /\ e.role = "compaction" =>
              /\ Cut!LatestCompaction(d) = Len(b) + 1
              /\ Cut!BoundaryStart(d) = e.ref
<1>1. PICK n \in Nat : n = Len(b)
  OBVIOUS
<1>2. /\ d \in Seq(Entries) /\ Len(d) = n + 1 /\ DOMAIN d = 1..(n + 1) /\ DOMAIN b = 1..n
      /\ \A i \in 1..n : d[i] = b[i]
      /\ d[n + 1] = e
  BY <1>1, Appended
<1> DEFINE p == Cut!LatestCompaction(b)
           q == Cut!LatestCompaction(d)
<1>3. /\ p \in 0..n
      /\ p # 0 => b[p].role = "compaction"
      /\ \A i \in 1..n : b[i].role = "compaction" => i <= p
  BY <1>1, <1>2, LatestFacts
<1>4. /\ q \in 0..(n + 1)
      /\ q # 0 => d[q].role = "compaction"
      /\ \A i \in 1..(n + 1) : d[i].role = "compaction" => i <= q
  BY <1>2, LatestFacts
<1>5. /\ Cut!BoundaryStart(b) = IF p = 0 THEN 1 ELSE b[p].ref
      /\ Cut!BoundaryStart(d) = IF q = 0 THEN 1 ELSE d[q].ref
  BY DEF Cut!BoundaryStart
<1> HIDE DEF p, q
<1>6. ASSUME e.role # "compaction"
      PROVE  p = q
  <2>1. q # n + 1
    BY <1>2, <1>4, <1>6
  <2>2. q <= p
    <3>1. CASE q = 0
      BY <1>3, <3>1
    <3>2. CASE q # 0
      BY <1>2, <1>3, <1>4, <2>1, <3>2
    <3> QED
      BY <3>1, <3>2
  <2>3. p <= q
    <3>1. CASE p = 0
      BY <1>4, <3>1
    <3>2. CASE p # 0
      BY <1>2, <1>3, <1>4, <3>2
    <3> QED
      BY <3>1, <3>2
  <2> QED
    BY <1>3, <1>4, <2>2, <2>3
<1>7. ASSUME e.role = "compaction"
      PROVE  q = n + 1
  BY <1>2, <1>4, <1>7
<1>8. ASSUME e.role # "compaction"
      PROVE  Cut!BoundaryStart(d) = Cut!BoundaryStart(b)
  BY <1>2, <1>3, <1>5, <1>6, <1>8
<1>9. ASSUME e.role = "compaction"
      PROVE  Cut!BoundaryStart(d) = e.ref
  <2>1. q = n + 1 /\ q # 0
    BY <1>7, <1>9
  <2> QED
    BY <1>2, <1>5, <2>1
<1>10. e.role # "compaction" => Cut!LatestCompaction(d) = Cut!LatestCompaction(b)
  BY <1>6 DEF p, q
<1>11. e.role = "compaction" => Cut!LatestCompaction(d) = Len(b) + 1
  BY <1>1, <1>7 DEF q
<1> QED
  BY <1>8, <1>9, <1>10, <1>11

-----------------------------------------------------------------------------
(* Where a cut falls.                                                      *)

\* The budget chooses one of the places where a cut is valid.
LEMMA ChosenIsValid ==
  ASSUME NEW b \in Seq(Entries), NEW start \in Nat, start >= 1, NEW keep,
         Cut!ValidCutPoints(b, start) # {}
  PROVE  /\ Cut!ChosenCut(b, start, keep) \in start..Len(b)
         /\ b[Cut!ChosenCut(b, start, keep)].role \in {"user", "assistant", "bash", "note"}
<1> DEFINE cuts == Cut!ValidCutPoints(b, start)
           n == Len(b)
           filled == Cut!LastOf({i \in start..Len(b) :
                                   Cut!Cardinality(Cut!Counted(b) \ 1..(i - 1)) >= keep})
           later == {c \in cuts : c >= filled}
           P == IF filled = 0 \/ later = {} THEN cuts ELSE later
<1>1. n \in Nat /\ DOMAIN b = 1..n
  OBVIOUS
<1>2. \A c \in cuts : /\ c \in start..n
                      /\ b[c].role \in {"user", "assistant", "bash", "note"}
  <2> SUFFICES ASSUME NEW c \in cuts
               PROVE  /\ c \in start..n
                      /\ b[c].role \in {"user", "assistant", "bash", "note"}
    OBVIOUS
  <2>1. /\ c \in 1..n /\ c \notin 1..(start - 1)
        /\ b[c].role \in {"user", "assistant", "bash", "note"}
    BY <1>1 DEF Cut!ValidCutPoints, Cut!Places
  <2> HIDE DEF n
  <2>2. c \in start..n
    BY <1>1, <2>1
  <2> QED
    BY <2>1, <2>2
<1>3. Cut!ChosenCut(b, start, keep) = Cut!Min(P)
  BY DEF Cut!ChosenCut
<1>4. P \subseteq cuts /\ P # {}
  OBVIOUS
<1> HIDE DEF cuts, P, n
<1>5. P \in SUBSET Nat
  BY <1>1, <1>2, <1>4
<1>6. Cut!Min(P) \in P
  BY <1>4, <1>5, LeastOf
<1> QED
  BY <1>2, <1>3, <1>4, <1>6 DEF n

\* It moves back over nothing a cut stops at.
LEMMA WidenedStops ==
  ASSUME NEW b, NEW start \in Nat, NEW cut \in Nat, start <= cut
  PROVE  /\ Cut!Widened(b, start, cut) \in start..cut
         /\ \A i \in Cut!Widened(b, start, cut)..(cut - 1) : i \notin Cut!StopsBack(b)
<1> DEFINE J == {j \in start..cut : j..(cut - 1) \intersect Cut!StopsBack(b) = {}}
<1>1. cut \in J
  OBVIOUS
<1>2. J \in SUBSET Nat /\ J # {}
  BY <1>1
<1>3. Cut!Min(J) \in J
  <2> HIDE DEF J
  <2> QED
    BY <1>2, LeastOf
<1>4. Cut!Widened(b, start, cut) = Cut!Min(J)
  BY DEF Cut!Widened
<1> QED
  BY <1>3, <1>4

LEMMA TurnStartsBefore ==
  ASSUME NEW b \in Seq(Entries), NEW start \in Nat, start >= 1, NEW at \in Nat
  PROVE  \/ Cut!TurnStart(b, at, start) = 0
         \/ Cut!TurnStart(b, at, start) \in start..at
<1> DEFINE S == Cut!Places(b, {"user", "bash", "note"}) \intersect start..at
<1>1. S \subseteq start..at /\ S \in SUBSET (1..at)
  OBVIOUS
<1>2. Cut!TurnStart(b, at, start) = Cut!LastOf(S)
  BY DEF Cut!TurnStart
<1> HIDE DEF S
<1>3. /\ Cut!LastOf(S) = 0 <=> S = {}
      /\ S # {} => Cut!LastOf(S) \in S
  BY <1>1, LastOfIn
<1> QED
  BY <1>1, <1>2, <1>3

\* A cut is where the context begins, for want of a valid place, or a valid place
\* moved back over nothing a cut stops at; the turn it splits begins before it.
LEMMA CutPointFacts ==
  ASSUME NEW b \in Seq(Entries), NEW start \in 1..Len(b), NEW keep,
         NEW cut, cut = Cut!CutPoint(b, start, keep)
  PROVE  /\ cut.first \in start..Len(b)
         /\ cut.turn = 0 \/ cut.turn \in start..cut.first
         /\ \/ cut.first = start /\ cut.turn = 0
            \/ \E c \in start..Len(b) :
                 /\ cut.first <= c
                 /\ b[c].role \in {"user", "assistant", "bash", "note"}
                 /\ \A i \in cut.first..(c - 1) : i \notin Cut!StopsBack(b)
<1>1. PICK n \in Nat : n = Len(b)
  OBVIOUS
<1>2. start \in Nat /\ start >= 1 /\ start <= n
  BY <1>1
<1>3. CASE Cut!ValidCutPoints(b, start) = {}
  <2>1. cut = [first |-> start, turn |-> 0]
    BY <1>3 DEF Cut!CutPoint
  <2> QED
    BY <1>1, <1>2, <2>1
<1>4. CASE Cut!ValidCutPoints(b, start) # {}
  <2>1. PICK c \in start..n : /\ c = Cut!ChosenCut(b, start, keep)
                              /\ b[c].role \in {"user", "assistant", "bash", "note"}
    BY <1>1, <1>2, <1>4, ChosenIsValid
  <2>2. c \in Nat /\ start <= c
    BY <1>2, <2>1
  <2>3. PICK f \in start..c : /\ f = Cut!Widened(b, start, c)
                              /\ \A i \in f..(c - 1) : i \notin Cut!StopsBack(b)
    BY <1>2, <2>2, WidenedStops
  <2>4. f \in Nat /\ f \in start..n /\ f <= c
    BY <1>2, <2>1, <2>3
  <2>5. PICK t : t = Cut!TurnStart(b, f, start)
    OBVIOUS
  <2>6. t = 0 \/ t \in start..f
    BY <1>2, <2>4, <2>5, TurnStartsBefore
  <2>7. cut.first = f /\ (cut.turn = 0 \/ cut.turn = t)
    BY <1>4, <2>1, <2>3, <2>5 DEF Cut!CutPoint
  <2>8. cut.first \in start..n /\ cut.first <= c
    BY <2>4, <2>7
  <2>9. cut.turn = 0 \/ cut.turn \in start..cut.first
    BY <2>6, <2>7
  <2>10. \A i \in cut.first..(c - 1) : i \notin Cut!StopsBack(b)
    BY <2>3, <2>7
  <2>11. c \in start..n /\ cut.first <= c
    BY <2>1, <2>8
  <2> QED
    BY <1>1, <2>1, <2>8, <2>9, <2>10, <2>11
<1> QED
  BY <1>3, <1>4

-----------------------------------------------------------------------------
(* An entry that is no compaction.                                         *)

LEMMA StillPointing ==
  ASSUME NEW b, Pointing(b), NEW e \in Entries, e.ref <= Len(b),
         e.role = "compaction" => e.ref >= 1,
         NEW d, d = Append(b, e)
  PROVE  Pointing(d)
<1>0. b \in Seq(Entries)
  BY DEF Pointing
<1>1. PICK n \in Nat : n = Len(b)
  BY <1>0
<1>2. /\ d \in Seq(Entries) /\ DOMAIN d = 1..(n + 1) /\ DOMAIN b = 1..n
      /\ \A i \in 1..n : d[i] = b[i]
      /\ d[n + 1] = e
  BY <1>0, <1>1, Appended
<1>3. ASSUME NEW i \in 1..(n + 1)
      PROVE  d[i].ref < i /\ (d[i].role = "compaction" => d[i].ref >= 1)
  <2>1. CASE i \in 1..n
    <3>1. b[i].ref < i /\ (b[i].role = "compaction" => b[i].ref >= 1)
      BY <1>2, <2>1 DEF Pointing
    <3> QED
      BY <1>2, <2>1, <3>1
  <2>2. CASE i = n + 1
    <3>1. e.ref \in Nat
      BY DEF Entries
    <3> QED
      BY <1>1, <1>2, <2>2, <3>1
  <2> QED
    BY <1>1, <1>3, <2>1, <2>2
<1> QED
  BY <1>2, <1>3 DEF Pointing

LEMMA StillClose ==
  ASSUME NEW b, Pointing(b), NEW h, ResultsAreClose(b, h),
         NEW e \in Entries, NEW d, d = Append(b, e),
         e.role = "result" =>
           /\ 1 <= e.ref /\ e.ref <= Len(b) /\ b[e.ref].role = "assistant"
           /\ \A k \in (e.ref + 1)..Len(b) :
                \/ b[k].role = "result" /\ b[k].ref = e.ref
                \/ ~h /\ b[k].role = "meta"
  PROVE  ResultsAreClose(d, h)
<1>0. b \in Seq(Entries)
  BY DEF Pointing
<1>1. PICK n \in Nat : n = Len(b)
  BY <1>0
<1>2. /\ d \in Seq(Entries) /\ DOMAIN d = 1..(n + 1) /\ DOMAIN b = 1..n
      /\ \A i \in 1..n : d[i] = b[i]
      /\ d[n + 1] = e
  BY <1>0, <1>1, Appended
<1> SUFFICES ASSUME NEW j \in 1..(n + 1), d[j].role = "result"
             PROVE  CloseTo(d, h, j, d[j].ref)
  BY <1>2 DEF ResultsAreClose
<1>3. PICK r \in Nat : r = d[j].ref
  <2>1. d[j] \in Entries
    BY <1>2
  <2> QED
    BY <2>1 DEF Entries
<1>4. CASE j \in 1..n
  <2>1. b[j].role = "result" /\ b[j].ref = r /\ r < j
    BY <1>2, <1>3, <1>4 DEF Pointing
  <2>2. CloseTo(b, h, j, r)
    BY <1>2, <1>4, <2>1 DEF ResultsAreClose
  <2>3. \A k \in r..j : k >= 1 => d[k] = b[k]
    BY <1>2, <1>4
  <2>4. r >= 1 /\ b[r].role = "assistant" /\ d[r] = b[r]
    BY <2>1, <2>2, <2>3, <1>4 DEF CloseTo
  <2>5. ASSUME NEW k \in (r + 1)..j
        PROVE  (d[k].role = "result" /\ d[k].ref = r) \/ (~h /\ d[k].role = "meta")
    <3>1. (b[k].role = "result" /\ b[k].ref = r) \/ (~h /\ b[k].role = "meta")
      BY <2>2 DEF CloseTo
    <3>2. d[k] = b[k]
      BY <1>1, <1>2, <1>3, <1>4, <2>4
    <3> QED
      BY <3>1, <3>2
  <2> QED
    BY <1>3, <2>4, <2>5 DEF CloseTo
<1>5. CASE j = n + 1
  <2>1. r = e.ref /\ e.role = "result"
    BY <1>2, <1>3, <1>5
  <2>2. /\ 1 <= r /\ r <= n /\ b[r].role = "assistant"
        /\ \A k \in (r + 1)..n : \/ b[k].role = "result" /\ b[k].ref = r
                                 \/ ~h /\ b[k].role = "meta"
    BY <1>1, <2>1
  <2>3. d[r] = b[r]
    BY <1>2, <2>2
  <2>4. ASSUME NEW k \in (r + 1)..j
        PROVE  (d[k].role = "result" /\ d[k].ref = r) \/ (~h /\ d[k].role = "meta")
    <3>1. CASE k = n + 1
      BY <1>2, <2>1, <3>1
    <3>2. CASE k \in (r + 1)..n
      <4>1. d[k] = b[k]
        BY <1>2, <2>2, <3>2
      <4> QED
        BY <2>2, <3>2, <4>1
    <3> QED
      BY <1>1, <1>3, <1>5, <3>1, <3>2
  <2> QED
    BY <1>3, <2>2, <2>3, <2>4 DEF CloseTo
<1> QED
  BY <1>1, <1>4, <1>5

LEMMA StillFollowing ==
  ASSUME NEW b, Pointing(b), ResultsFollow(b),
         NEW e \in Entries, e.role # "compaction", NEW d, d = Append(b, e),
         e.role = "result" => Cut!BoundaryStart(b) <= e.ref
  PROVE  ResultsFollow(d)
<1>0. b \in Seq(Entries)
  BY DEF Pointing
<1>1. PICK n \in Nat : n = Len(b)
  BY <1>0
<1>2. /\ DOMAIN d = 1..(n + 1) /\ DOMAIN b = 1..n
      /\ \A i \in 1..n : d[i] = b[i]
      /\ d[n + 1] = e
  BY <1>0, <1>1, Appended
<1>3. Cut!BoundaryStart(d) = Cut!BoundaryStart(b)
  BY <1>0, LatestAppended
<1> SUFFICES ASSUME NEW j \in 1..(n + 1), d[j].role = "result", Cut!BoundaryStart(b) <= j
             PROVE  Cut!BoundaryStart(b) <= d[j].ref
  BY <1>2, <1>3 DEF ResultsFollow
<1>4. CASE j \in 1..n
  BY <1>2, <1>4 DEF ResultsFollow
<1>5. CASE j = n + 1
  BY <1>2, <1>5
<1> QED
  BY <1>1, <1>4, <1>5

LEMMA StillWhole ==
  ASSUME NEW b, Pointing(b), NEW covered, NEW gone, SummaryIsWhole(b, covered, gone),
         NEW e \in Entries, e.role # "compaction", NEW d, d = Append(b, e)
  PROVE  SummaryIsWhole(d, covered, gone)
<1>0. b \in Seq(Entries)
  BY DEF Pointing
<1>1. PICK n \in Nat : n = Len(b)
  BY <1>0
<1>2. /\ DOMAIN d = 1..(n + 1) /\ DOMAIN b = 1..n
      /\ \A i \in 1..n : d[i] = b[i]
  BY <1>0, <1>1, Appended
<1>3. /\ Cut!BoundaryStart(d) = Cut!BoundaryStart(b)
      /\ Cut!LatestCompaction(d) = Cut!LatestCompaction(b)
  BY <1>0, LatestAppended
<1> SUFFICES ASSUME ~gone, NEW i \in 1..(n + 1),
                    d[i].role \notin {"meta", "compaction"}, i < Cut!BoundaryStart(b)
             PROVE  i \in covered[Cut!LatestCompaction(b)]
  BY <1>2, <1>3 DEF SummaryIsWhole
<1>4. i \in 1..n
  <2>1. b # <<>> => Cut!BoundaryStart(b) <= n
    BY <1>1, BoundaryFacts
  <2>2. b = <<>> => Cut!BoundaryStart(b) = 1
    <3> SUFFICES ASSUME b = <<>> PROVE Cut!LatestCompaction(b) = 0
      BY BoundaryFacts
    <3>1. Cut!LatestCompaction(b) \in 0..Len(b)
      BY <1>0, LatestFacts
    <3> QED
      BY <3>1
  <2>3. Cut!BoundaryStart(b) \in Nat
    BY BoundaryFacts
  <2> QED
    BY <1>1, <2>1, <2>2, <2>3
<1> QED
  BY <1>2, <1>4 DEF SummaryIsWhole

-----------------------------------------------------------------------------
(* A compaction.                                                           *)

\* No cut parts a result from its reply.
LEMMA CutsPartNothing ==
  ASSUME NEW b, Pointing(b), harness \in BOOLEAN, ResultsAreClose(b, harness),
         ResultsFollow(b), b # <<>>, NEW keep,
         NEW cut, cut = Cut!CutPoint(b, Cut!BoundaryStart(b), keep),
         NEW j \in DOMAIN b, b[j].role = "result", cut.first <= j
  PROVE  cut.first <= b[j].ref
<1>0. b \in Seq(Entries)
  BY DEF Pointing
<1>1. PICK n \in Nat : n = Len(b)
  BY <1>0
<1>2. PICK start : start = Cut!BoundaryStart(b)
  OBVIOUS
<1>3. DOMAIN b = 1..n /\ start \in 1..n
  BY <1>0, <1>1, <1>2, BoundaryFacts
<1>4. /\ cut.first \in start..n
      /\ \/ cut.first = start
         \/ \E c \in start..n :
              /\ cut.first <= c
              /\ b[c].role \in {"user", "assistant", "bash", "note"}
              /\ \A i \in cut.first..(c - 1) : i \notin Cut!StopsBack(b)
  BY <1>0, <1>1, <1>2, <1>3, CutPointFacts
<1>5. PICK f \in start..n : f = cut.first
  BY <1>4
<1>6. PICK r \in Nat : r = b[j].ref
  <2>1. b[j] \in Entries
    BY <1>0
  <2> QED
    BY <2>1 DEF Entries
<1>7. CASE f = start
  BY <1>2, <1>5, <1>6, <1>7 DEF ResultsFollow
<1>8. ASSUME NEW c \in start..n, f <= c,
             b[c].role \in {"user", "assistant", "bash", "note"},
             \A i \in f..(c - 1) : i \notin Cut!StopsBack(b),
             r < f
      PROVE  FALSE
  <2>1. CloseTo(b, harness, j, r)
    BY <1>6 DEF ResultsAreClose
  <2>2. CASE c <= j
    <3>1. c \in (r + 1)..j
      BY <1>3, <1>5, <1>6, <1>8, <2>2
    <3>2. b[c].role \in {"result", "meta"}
      BY <2>1, <3>1 DEF CloseTo
    <3> QED
      BY <1>8, <3>2
  <2>3. CASE j < c
    <3>1. j \in f..(c - 1)
      BY <1>3, <1>5, <1>8, <2>3
    <3>2. j \in Cut!StopsBack(b)
      BY DEF Cut!StopsBack, Cut!Places, Cut!Roles
    <3> QED
      BY <1>8, <3>1, <3>2
  <2> QED
    BY <1>3, <1>8, <2>2, <2>3
<1>9. f <= r
  <2> SUFFICES ASSUME r < f PROVE FALSE
    BY <1>3, <1>5, <1>6
  <2>1. f # start
    BY <1>3, <1>5, <1>6, <1>7
  <2> QED
    BY <1>4, <1>5, <1>8, <2>1
<1> QED
  BY <1>5, <1>6, <1>9

\* What was said from one place to a later one, parted at a place between.
LEMMA SaidParted ==
  ASSUME NEW b, NEW x \in Nat, NEW y \in Nat, NEW z \in Nat, x <= y, y <= z
  PROVE  /\ Cut!Said(b, x, z) = Cut!Said(b, x, y) \union Cut!Said(b, y, z)
         /\ Cut!Said(b, x, y) \intersect Cut!Said(b, y, z) = {}
<1>1. x..(z - 1) = (x..(y - 1)) \union (y..(z - 1))
  OBVIOUS
<1>2. (x..(y - 1)) \intersect (y..(z - 1)) = {}
  OBVIOUS
<1> QED
  BY <1>1, <1>2 DEF Cut!Said

LEMMA SaidAppended ==
  ASSUME NEW b \in Seq(Entries), NEW e \in Entries, e.role = "compaction"
  PROVE  \A x, z : Cut!Said(Append(b, e), x, z) = Cut!Said(b, x, z)
<1>0. PICK d : d = Append(b, e)
  OBVIOUS
<1>1. PICK n \in Nat : n = Len(b)
  OBVIOUS
<1>2. /\ DOMAIN d = 1..(n + 1) /\ DOMAIN b = 1..n
      /\ \A i \in 1..n : d[i] = b[i]
      /\ d[n + 1] = e
  BY <1>0, <1>1, Appended
<1> DEFINE R == Cut!Roles \ {"meta", "compaction"}
<1>3. Cut!Places(d, R) = Cut!Places(b, R)
  <2>1. \A i : i \in 1..(n + 1) /\ d[i].role \in R <=> i \in 1..n /\ b[i].role \in R
    <3> TAKE i
    <3>1. CASE i \in 1..n
      BY <1>1, <1>2, <3>1
    <3>2. CASE i = n + 1
      BY <1>1, <1>2, <3>2
    <3>3. CASE i \notin 1..(n + 1)
      BY <1>1, <3>3
    <3> QED
      BY <1>1, <3>1, <3>2, <3>3
  <2> HIDE DEF R
  <2> QED
    BY <1>2, <2>1 DEF Cut!Places
<1> HIDE DEF R
<1> QED
  BY <1>0, <1>3 DEF Cut!Said, R

-----------------------------------------------------------------------------
(* The steps.                                                              *)

LEMMA GrowsByAnEntry ==
  ASSUME BranchInv, MaxEntries \in Nat,
         NEW role \in Cut!Roles \ {"compaction"}, NEW ref \in Nat,
         ref <= Len(branch),
         role = "result" =>
           /\ 1 <= ref /\ branch[ref].role = "assistant"
           /\ \A k \in (ref + 1)..Len(branch) :
                \/ branch[k].role = "result" /\ branch[k].ref = ref
                \/ ~harness /\ branch[k].role = "meta"
           /\ Cut!BoundaryStart(branch) <= ref,
         Cut!AppendEntry(role, ref)
  PROVE  BranchInv'
<1>1. PICK b : b = branch
  OBVIOUS
<1>2. /\ Pointing(b) /\ ResultsAreClose(b, harness) /\ ResultsFollow(b)
      /\ SummaryIsWhole(b, covers, forgot)
  BY <1>1 DEF BranchInv
<1>3. PICK e : e = Cut!Entry(role, ref)
  OBVIOUS
<1>4. e \in Entries /\ e.role = role /\ e.ref = ref /\ role # "compaction"
  BY <1>3 DEF Entries, Cut!Entry
<1>5. PICK d : d = Append(b, e)
  OBVIOUS
<1>6. /\ branch' = d /\ Len(b) < MaxEntries
      /\ toSummarize' = {} /\ turnPrefix' = {}
      /\ harness' = harness /\ covers' = covers /\ forgot' = forgot
  BY <1>1, <1>3, <1>5 DEF Cut!AppendEntry
<1>7. b \in Seq(Entries)
  BY <1>2 DEF Pointing
<1>8. /\ Len(d) = Len(b) + 1 /\ d[Len(b) + 1] = e
  BY <1>4, <1>5, <1>7, Appended
<1>9. Pointing(d)
  BY <1>1, <1>2, <1>4, <1>5, StillPointing
<1>10. ResultsAreClose(d, harness)
  <2>1. PICK h : h = harness
    OBVIOUS
  <2>2. ResultsAreClose(d, h)
    BY <1>1, <1>2, <1>4, <1>5, <2>1, StillClose
  <2> QED
    BY <2>1, <2>2
<1>11. ResultsFollow(d)
  BY <1>1, <1>2, <1>4, <1>5, StillFollowing
<1>12. SummaryIsWhole(d, covers, forgot)
  <2>1. PICK c, g : c = covers /\ g = forgot
    OBVIOUS
  <2>2. SummaryIsWhole(d, c, g)
    BY <1>2, <1>4, <1>5, <2>1, StillWhole
  <2> QED
    BY <2>1, <2>2
<1>13. ~Cut!JustCompacted'
  BY <1>4, <1>6, <1>8 DEF Cut!JustCompacted
<1>14. (Cut!EachInOnePlace /\ CutIsLegal)'
  BY <1>13 DEF Cut!EachInOnePlace, CutIsLegal
<1>15. Len(d) <= MaxEntries
  BY <1>6, <1>7, <1>8
<1>16. /\ (harness \in BOOLEAN)' /\ (forgot \in BOOLEAN)'
       /\ (DOMAIN covers = 1..MaxEntries)'
       /\ (toSummarize \union turnPrefix \subseteq DOMAIN branch)'
  BY <1>6 DEF BranchInv
<1>17. /\ Pointing(branch)' /\ ResultsAreClose(branch, harness)'
       /\ ResultsFollow(branch)' /\ SummaryIsWhole(branch, covers, forgot)'
       /\ (Len(branch) <= MaxEntries)'
  BY <1>6, <1>9, <1>10, <1>11, <1>12, <1>15
<1> QED
  BY <1>14, <1>16, <1>17 DEF BranchInv

LEMMA ResultsKeep ==
  ASSUME BranchInv, MaxEntries \in Nat, Cut!Result
  PROVE  BranchInv'
<1>1. PICK b : b = branch
  OBVIOUS
<1>2. /\ harness \in BOOLEAN
      /\ Pointing(b) /\ ResultsAreClose(b, harness) /\ ResultsFollow(b)
  BY <1>1 DEF BranchInv
<1>3. b \in Seq(Entries)
  BY <1>2 DEF Pointing
<1>4. PICK n \in Nat : n = Len(b)
  BY <1>3
<1> DEFINE S == Cut!Places(b, Cut!Roles \ {"meta"})
<1>5. PICK newest : newest = IF harness THEN n ELSE Cut!LastOf(S)
  OBVIOUS
<1>6. /\ newest # 0
      /\ \/ b[newest].role = "assistant" /\ Cut!AppendEntry("result", newest)
         \/ b[newest].role = "result" /\ Cut!AppendEntry("result", b[newest].ref)
  BY <1>1, <1>4, <1>5 DEF Cut!Result
<1>7. DOMAIN b = 1..n /\ \A i \in 1..n : b[i] \in Entries
  BY <1>3, <1>4
<1>8. \A i \in 1..n : b[i].role \in Cut!Roles /\ b[i].ref \in Nat
  BY <1>7 DEF Entries
<1>9. /\ newest \in 1..n
      /\ \A k \in (newest + 1)..n : ~harness /\ b[k].role = "meta"
      /\ b[newest].role # "compaction" /\ b[newest].role # "meta"
      /\ \A k \in 1..n : b[k].role = "compaction" => k <= newest
  <2>1. CASE harness
    <3>1. newest = n /\ n \in 1..n
      BY <1>4, <1>5, <1>6, <2>1
    <3> QED
      BY <1>4, <1>6, <3>1
  <2>2. CASE ~harness
    <3>1. S \in SUBSET (1..n)
      BY <1>7 DEF Cut!Places
    <3>2. newest = Cut!LastOf(S)
      BY <1>5, <2>2
    <3>3. \A i \in 1..n : i \in S <=> b[i].role # "meta"
      BY <1>7, <1>8 DEF Cut!Places
    <3> HIDE DEF S
    <3>4. newest \in S /\ \A y \in S : newest >= y
      BY <1>4, <1>6, <3>1, <3>2, LastOfIn
    <3>5. newest \in 1..n
      BY <3>1, <3>4
    <3>6. \A k \in (newest + 1)..n : b[k].role = "meta"
      <4> SUFFICES ASSUME NEW k \in (newest + 1)..n, b[k].role # "meta" PROVE FALSE
        OBVIOUS
      <4>1. k \in 1..n
        BY <1>4, <3>5
      <4>2. k \in S
        BY <3>3, <4>1
      <4> QED
        BY <1>4, <3>4, <3>5, <4>2
    <3>7. \A k \in 1..n : b[k].role = "compaction" => k <= newest
      BY <1>4, <3>3, <3>4, <3>5
    <3> QED
      BY <1>6, <2>2, <3>5, <3>6, <3>7
  <2> QED
    BY <1>2, <2>1, <2>2
<1>10. PICK start \in Nat : start = Cut!BoundaryStart(b)
  BY <1>2, BoundaryFacts
<1>11. start <= newest
  <2>1. PICK c \in 0..n : c = Cut!LatestCompaction(b)
    BY <1>3, <1>4, LatestFacts
  <2>2. CASE c = 0
    <3>1. start = 1
      BY <1>2, <1>10, <2>1, <2>2, BoundaryFacts
    <3> QED
      BY <1>4, <1>9, <3>1
  <2>3. CASE c # 0
    <3>1. c \in 1..n /\ b[c].role = "compaction" /\ start < c
      BY <1>2, <1>3, <1>10, <2>1, <2>3, LatestFacts, BoundaryFacts
    <3>2. c <= newest
      BY <1>9, <3>1
    <3> QED
      BY <1>9, <3>1, <3>2
  <2> QED
    BY <2>2, <2>3
<1>12. CASE b[newest].role = "assistant" /\ Cut!AppendEntry("result", newest)
  <2>1. newest \in Nat /\ newest <= Len(branch) /\ 1 <= newest
    BY <1>1, <1>4, <1>9
  <2>2. \A k \in (newest + 1)..Len(branch) :
          \/ branch[k].role = "result" /\ branch[k].ref = newest
          \/ ~harness /\ branch[k].role = "meta"
    BY <1>1, <1>4, <1>9
  <2>3. "result" \in Cut!Roles \ {"compaction"}
    BY DEF Cut!Roles
  <2>4. branch[newest].role = "assistant" /\ Cut!BoundaryStart(branch) <= newest
    BY <1>1, <1>10, <1>11, <1>12
  <2> QED
    BY <1>12, <2>1, <2>2, <2>3, <2>4, GrowsByAnEntry
<1>13. CASE b[newest].role = "result" /\ Cut!AppendEntry("result", b[newest].ref)
  <2>1. PICK r \in Nat : r = b[newest].ref
    BY <1>8, <1>9
  <2>2. CloseTo(b, harness, newest, r) /\ r < newest
    BY <1>2, <1>7, <1>9, <1>13, <2>1 DEF ResultsAreClose, Pointing
  <2>3. 1 <= r /\ b[r].role = "assistant" /\ r <= n
    BY <1>4, <1>9, <2>2 DEF CloseTo
  <2>4. ASSUME NEW k \in (r + 1)..n
        PROVE  (b[k].role = "result" /\ b[k].ref = r) \/ (~harness /\ b[k].role = "meta")
    <3>1. CASE k <= newest
      BY <1>4, <1>9, <2>2, <3>1 DEF CloseTo
    <3>2. CASE newest < k
      BY <1>4, <1>9, <3>2
    <3> QED
      BY <1>4, <1>9, <3>1, <3>2
  <2>5. start <= r
    BY <1>2, <1>7, <1>9, <1>10, <1>11, <1>13, <2>1 DEF ResultsFollow
  <2>6. "result" \in Cut!Roles \ {"compaction"}
    BY DEF Cut!Roles
  <2>7. /\ r <= Len(branch) /\ branch[r].role = "assistant"
        /\ Cut!BoundaryStart(branch) <= r
        /\ \A k \in (r + 1)..Len(branch) :
             \/ branch[k].role = "result" /\ branch[k].ref = r
             \/ ~harness /\ branch[k].role = "meta"
    BY <1>1, <1>4, <1>10, <2>3, <2>4, <2>5
  <2>8. Cut!AppendEntry("result", r)
    BY <1>13, <2>1
  <2> QED
    BY <2>3, <2>6, <2>7, <2>8, GrowsByAnEntry
<1> QED
  BY <1>6, <1>12, <1>13

\* A cut the coding agent makes is one AgentSession has.
LEMMA CutsAreLegal ==
  ASSUME NEW b, Pointing(b), ~harness, NEW n \in Nat, n = Len(b), n >= 1,
         b[n].role # "compaction",
         NEW start \in 1..n, start = Cut!BoundaryStart(b),
         NEW f \in start..n,
         f # start,
         \E c \in start..n : /\ f <= c
                             /\ b[c].role \in {"user", "assistant", "bash", "note"}
                             /\ \A i \in f..(c - 1) : i \notin Cut!StopsBack(b),
         Cut!Said(b, start, f) # {}
  PROVE  f \in CutPoints(AsSession(b))
<1>0. b \in Seq(Entries) /\ DOMAIN b = 1..n
  BY DEF Pointing
<1>1. \A i \in 1..n : b[i].role \in Cut!Roles /\ b[i].ref \in Nat
  <2> SUFFICES ASSUME NEW i \in 1..n PROVE b[i].role \in Cut!Roles /\ b[i].ref \in Nat
    OBVIOUS
  <2>1. b[i] \in Entries
    BY <1>0
  <2> QED
    BY <2>1 DEF Entries
<1>2. PICK s : s = AsSession(b)
  OBVIOUS
<1>3. /\ DOMAIN s = 1..n
      /\ \A i \in 1..n : s[i].role = b[i].role /\ s[i].id = i /\ s[i].keep = b[i].ref
  BY <1>0, <1>2 DEF AsSession
<1>4. PICK T : T = {s[i] : i \in 1..n}
  OBVIOUS
<1>5. s \in Seq(T) /\ Len(s) = n
  <2>1. s = [i \in 1..n |-> [role |-> b[i].role, id |-> i, keep |-> b[i].ref]]
    BY <1>0, <1>2 DEF AsSession
  <2>2. \A i \in 1..n : s[i] \in T
    BY <1>4
  <2>3. s \in [1..n -> T]
    BY <2>1, <2>2
  <2> QED
    BY <2>3
<1>6. ~EndsWith(s, "compaction")
  BY <1>3, <1>5 DEF EndsWith, LastOf
<1>7. Boundary(s) = start
  <2>1. PICK C : C = {i \in 1..n : b[i].role = "compaction"}
    OBVIOUS
  <2>2. Positions(s, IsCompaction) = C
    BY <1>3, <2>1 DEF Positions, IsCompaction
  <2>3. CASE C = {}
    <3>1. Cut!LatestCompaction(b) = 0
      <4>1. PICK c \in 0..n : c = Cut!LatestCompaction(b)
        BY <1>0, LatestFacts
      <4>2. c # 0 => c \in C
        BY <1>0, <2>1, <4>1, LatestFacts
      <4> QED
        BY <2>3, <4>1, <4>2
    <3>2. start = 1
      BY <3>1, BoundaryFacts
    <3> QED
      BY <2>2, <2>3, <3>2 DEF Boundary
  <2>4. CASE C # {}
    <3>1. PICK c \in 0..n : c = Cut!LatestCompaction(b)
      BY <1>0, LatestFacts
    <3>2. /\ c # 0 => b[c].role = "compaction"
          /\ \A i \in C : i <= c
      BY <1>0, <2>1, <3>1, LatestFacts
    <3>3. c # 0
      BY <2>1, <2>4, <3>1, <3>2
    <3>4. c \in C /\ c \in 1..n
      BY <2>1, <3>1, <3>2, <3>3
    <3>5. Latest(C) = c
      <4>1. \A x \in C : (\A y \in C : y <= x) => x = c
        <5> SUFFICES ASSUME NEW x \in C, \A y \in C : y <= x PROVE x = c
          OBVIOUS
        <5>1. x \in 1..n /\ c <= x /\ x <= c
          BY <2>1, <3>2, <3>4
        <5> QED
          BY <3>4, <5>1
      <4> QED
        BY <3>2, <3>4, <4>1 DEF Latest
    <3>6. start = b[c].ref
      BY <3>1, <3>3 DEF Cut!BoundaryStart
    <3>7. {i \in DOMAIN s : s[i].id = s[c].keep} = {start}
      BY <1>3, <3>4, <3>6
    <3>8. Latest({start}) = start
      BY DEF Latest
    <3> QED
      BY <2>2, <2>4, <3>5, <3>7, <3>8 DEF Boundary
  <2> QED
    BY <2>3, <2>4
<1>8. s[f].role \notin {"result", "compaction"}
  <2>1. PICK c \in start..n :
          /\ f <= c
          /\ b[c].role \in {"user", "assistant", "bash", "note"}
          /\ \A i \in f..(c - 1) : i \notin Cut!StopsBack(b)
    OBVIOUS
  <2>2. f \in 1..n
    OBVIOUS
  <2>3. CASE f = c
    BY <1>3, <2>1, <2>2, <2>3
  <2>4. CASE f < c
    <3>1. f \in f..(c - 1)
      BY <2>4
    <3>2. f \notin Cut!StopsBack(b)
      BY <2>1, <3>1
    <3>3. b[f].role = "meta"
      BY <1>0, <1>1, <2>2, <3>2 DEF Cut!StopsBack, Cut!Places
    <3> QED
      BY <1>3, <2>2, <3>3
  <2> QED
    BY <2>1, <2>3, <2>4
<1>9. \E j \in start..(f - 1) : ~IsCompaction(s[j])
  <2>1. PICK j \in Cut!Said(b, start, f) : TRUE
    OBVIOUS
  <2>2. j \in start..(f - 1) /\ j \in 1..n /\ b[j].role # "compaction"
    BY <1>0, <2>1 DEF Cut!Said, Cut!Places
  <2> QED
    BY <1>3, <2>2 DEF IsCompaction
<1>10. f \in Boundary(s)..Len(s)
  BY <1>5, <1>7
<1>11. /\ s[f].role \notin {"result", "compaction"}
       /\ \E j \in Boundary(s)..(f - 1) : ~IsCompaction(s[j])
  BY <1>7, <1>8, <1>9
<1>12. f \in CutPoints(s)
  BY <1>6, <1>10, <1>11 DEF CutPoints
<1> QED
  BY <1>2, <1>12

LEMMA CompactKeeps ==
  ASSUME BranchInv, MaxEntries \in Nat, NEW keep, Cut!Compact(keep)
  PROVE  BranchInv'
<1>1. PICK b : b = branch
  OBVIOUS
<1>2. PICK h : h = harness
  OBVIOUS
<1>3. /\ Pointing(b) /\ ResultsAreClose(b, h) /\ ResultsFollow(b)
      /\ h \in BOOLEAN /\ harness' = h
  BY <1>1, <1>2 DEF BranchInv, Cut!Compact
<1>4. b \in Seq(Entries) /\ b # <<>>
  BY <1>1, <1>3 DEF Pointing, Cut!Compact
<1>5. PICK n \in Nat : n = Len(b)
  BY <1>4
<1>6. n >= 1 /\ DOMAIN b = 1..n
  BY <1>4, <1>5
<1>7. PICK start \in 1..n : start = Cut!BoundaryStart(b)
  BY <1>3, <1>4, <1>5, BoundaryFacts
<1>8. PICK cut : cut = Cut!CutPoint(b, start, keep)
  OBVIOUS
<1>9. PICK f, t : f = cut.first /\ t = cut.turn
  OBVIOUS
<1>10. /\ f \in start..n
       /\ t = 0 \/ t \in start..f
       /\ \/ f = start /\ t = 0
          \/ \E c \in start..n : /\ f <= c
                                 /\ b[c].role \in {"user", "assistant", "bash", "note"}
                                 /\ \A i \in f..(c - 1) : i \notin Cut!StopsBack(b)
  BY <1>4, <1>5, <1>7, <1>8, <1>9, CutPointFacts
<1>11. start \in Nat /\ f \in Nat /\ start <= f /\ f <= n /\ f <= n + 1 /\ f >= 1
  BY <1>5, <1>7, <1>10
<1>12. PICK u, before, prefix, p :
         /\ u = IF t = 0 THEN f ELSE t
         /\ before = Cut!Said(b, start, u)
         /\ prefix = IF t = 0 THEN {} ELSE Cut!Said(b, t, f)
         /\ p = Cut!LatestCompaction(b)
  OBVIOUS
<1>13. /\ Cut!Said(b, start, f) = before \union prefix
       /\ Cut!Said(b, start, n + 1) =
            (before \union prefix) \union Cut!Said(b, f, n + 1)
       /\ before \intersect prefix = {}
       /\ (before \union prefix) \intersect Cut!Said(b, f, n + 1) = {}
  <2>1. n + 1 \in Nat
    BY <1>5
  <2>2. /\ Cut!Said(b, start, n + 1) = Cut!Said(b, start, f) \union Cut!Said(b, f, n + 1)
        /\ Cut!Said(b, start, f) \intersect Cut!Said(b, f, n + 1) = {}
    BY <1>11, <2>1, SaidParted
  <2>3. Cut!Said(b, start, f) = before \union prefix /\ before \intersect prefix = {}
    <3>1. CASE t = 0
      BY <1>12, <3>1
    <3>2. CASE t # 0
      <4>1. t \in Nat /\ start <= t /\ t <= f
        BY <1>10, <1>11, <3>2
      <4>2. /\ Cut!Said(b, start, f) = Cut!Said(b, start, t) \union Cut!Said(b, t, f)
            /\ Cut!Said(b, start, t) \intersect Cut!Said(b, t, f) = {}
        BY <1>11, <4>1, SaidParted
      <4> QED
        BY <1>12, <3>2, <4>2
    <3> QED
      BY <3>1, <3>2
  <2> QED
    BY <2>2, <2>3
<1>14. PICK e : e = Cut!Entry("compaction", f)
  OBVIOUS
<1>15. e \in Entries /\ e.role = "compaction" /\ e.ref = f
  BY <1>11, <1>14 DEF Entries, Cut!Entry, Cut!Roles
<1>16. PICK d : d = Append(b, e)
  OBVIOUS
<1>17. PICK over : over = (p # 0 /\ (before # {} \/ prefix = {}))
  OBVIOUS
<1>18. Cut!HistoryEnd(cut) = u
  BY <1>9, <1>12 DEF Cut!HistoryEnd
<1>19. /\ b[n].role # "compaction"
       /\ n < MaxEntries
       /\ harness \/ before \union prefix # {}
       /\ branch' = d
       /\ toSummarize' = before /\ turnPrefix' = prefix
       /\ covers' = [covers EXCEPT ![n + 1] =
                       before \union prefix \union (IF over THEN covers[p] ELSE {})]
       /\ forgot' = (forgot \/ (p # 0 /\ before = {} /\ prefix # {}))
  BY <1>1, <1>5, <1>7, <1>8, <1>9, <1>12, <1>14, <1>16, <1>17, <1>18
     DEF Cut!Compact, Cut!TakesPreviousOver, Cut!Worthwhile
<1>20. /\ d \in Seq(Entries) /\ Len(d) = n + 1 /\ DOMAIN d = 1..(n + 1)
       /\ \A i \in 1..n : d[i] = b[i]
       /\ d[n + 1] = e
  BY <1>4, <1>5, <1>15, <1>16, Appended
<1>21. Cut!LatestCompaction(d) = n + 1 /\ Cut!BoundaryStart(d) = f
  BY <1>4, <1>5, <1>15, <1>16, LatestAppended
<1>22. Pointing(d)
  BY <1>3, <1>5, <1>11, <1>15, <1>16, StillPointing
<1>23. ResultsAreClose(d, h)
  BY <1>3, <1>15, <1>16, StillClose
<1>24. ResultsFollow(d)
  <2> SUFFICES ASSUME NEW j \in 1..(n + 1), d[j].role = "result", f <= j
               PROVE  f <= d[j].ref
    BY <1>20, <1>21 DEF ResultsFollow
  <2>1. j \in 1..n
    BY <1>5, <1>15, <1>20
  <2>2. b[j].role = "result" /\ d[j] = b[j]
    BY <1>20, <2>1
  <2>3. cut = Cut!CutPoint(b, Cut!BoundaryStart(b), keep) /\ cut.first <= j /\ j \in DOMAIN b
    BY <1>6, <1>7, <1>8, <1>9, <2>1
  <2>4. harness \in BOOLEAN /\ ResultsAreClose(b, harness)
    BY <1>2, <1>3
  <2>5. cut.first <= b[j].ref
    BY <1>3, <1>4, <2>2, <2>3, <2>4, CutsPartNothing
  <2> QED
    BY <1>9, <2>2, <2>5
<1>25. PICK gone, gone2, c, c2 : /\ gone = forgot /\ gone2 = forgot'
                                 /\ c = covers /\ c2 = covers'
  OBVIOUS
<1>26. SummaryIsWhole(d, c2, gone2)
  <2> SUFFICES ASSUME ~gone2, NEW i \in 1..(n + 1),
                      d[i].role \notin {"meta", "compaction"}, i < f
               PROVE  i \in c2[n + 1]
    BY <1>20, <1>21 DEF SummaryIsWhole
  <2>1. i \in 1..n /\ d[i] = b[i]
    BY <1>5, <1>11, <1>20
  <2>2. n + 1 \in 1..MaxEntries
    BY <1>5, <1>19
  <2>3. DOMAIN covers = 1..MaxEntries
    BY DEF BranchInv
  <2>4. c2[n + 1] = before \union prefix \union (IF over THEN c[p] ELSE {})
    BY <1>19, <1>25, <2>2, <2>3
  <2>5. ~gone /\ ~(p # 0 /\ before = {} /\ prefix # {})
    BY <1>19, <1>25
  <2>6. CASE start <= i
    <3>1. b[i].role \in Cut!Roles
      <4>1. b[i] \in Entries
        BY <1>4, <1>6, <2>1
      <4> QED
        BY <4>1 DEF Entries
    <3>2. i \in start..(f - 1)
      BY <1>11, <2>1, <2>6
    <3>3. i \in Cut!Said(b, start, f)
      BY <1>6, <2>1, <3>1, <3>2 DEF Cut!Said, Cut!Places
    <3> QED
      BY <1>13, <2>4, <3>3
  <2>7. CASE i < start
    <3>1. p # 0
      <4> SUFFICES ASSUME p = 0 PROVE FALSE
        OBVIOUS
      <4>1. start = 1
        BY <1>3, <1>7, <1>12, BoundaryFacts
      <4> QED
        BY <2>1, <2>7, <4>1
    <3>2. over
      BY <1>17, <2>5, <3>1
    <3>3. SummaryIsWhole(b, c, gone)
      BY <1>1, <1>25 DEF BranchInv
    <3>4. i \in c[p]
      BY <1>6, <1>7, <1>12, <2>1, <2>5, <2>7, <3>3 DEF SummaryIsWhole
    <3> QED
      BY <2>4, <3>2, <3>4
  <2> QED
    BY <1>11, <2>6, <2>7
<1>27. SubSeq(d, 1, n) = b
  <2>1. Len(SubSeq(d, 1, n)) = n /\ \A i \in 1..n : SubSeq(d, 1, n)[i] = d[i]
    BY <1>5, <1>20
  <2>2. SubSeq(d, 1, n) \in Seq(Entries)
    BY <1>5, <1>20
  <2> QED
    BY <1>4, <1>5, <1>20, <2>1, <2>2, SeqEqual
<1>28. PICK z : z = Len(d)
  OBVIOUS
<1>29. Cut!Before' = b
  <2>1. Len(d) - 1 = n
    BY <1>5, <1>20
  <2> QED
    BY <1>19, <1>27, <2>1 DEF Cut!Before
<1>30. Cut!EachInOnePlace'
  <2>1. Cut!Said(d, f, n + 1) = Cut!Said(b, f, n + 1)
    <3>1. e.role = "compaction" /\ e \in Entries
      BY <1>15
    <3> QED
      BY ONLY <1>4, <1>16, <3>1, SaidAppended
  <2>2. Len(branch') = n + 1
    BY <1>19, <1>20
  <2>3. /\ Cut!Said(Cut!Before', Cut!BoundaryStart(Cut!Before'), Len(branch'))
             = Cut!Said(b, start, n + 1)
        /\ Cut!Said(branch', Cut!BoundaryStart(branch'), Len(branch'))
             = Cut!Said(b, f, n + 1)
    BY <1>7, <1>19, <1>21, <1>29, <2>1, <2>2
  <2> QED
    BY <1>13, <1>19, <2>3 DEF Cut!EachInOnePlace
<1>31. CutIsLegal'
  <2> SUFFICES ASSUME ~h
               PROVE  f \in CutPoints(AsSession(b))
    <3>1. branch'[Len(branch')].ref = f
      BY <1>15, <1>19, <1>20
    <3> QED
      BY <1>3, <1>29, <3>1 DEF CutIsLegal
  <2>1. ~harness /\ before \union prefix # {}
    BY <1>2, <1>19
  <2>2. Cut!Said(b, start, f) # {}
    BY <1>13, <2>1
  <2>3. f # start
    <3>1. Cut!Said(b, start, start) = {}
      <4>1. start..(start - 1) = {}
        BY <1>11
      <4> QED
        BY <4>1 DEF Cut!Said
    <3> QED
      BY <2>2, <3>1
  <2> QED
    BY <1>3, <1>5, <1>6, <1>7, <1>10, <1>19, <2>1, <2>2, <2>3, CutsAreLegal
<1>32. /\ Pointing(branch)' /\ ResultsAreClose(branch, harness)'
       /\ ResultsFollow(branch)' /\ SummaryIsWhole(branch, covers, forgot)'
  BY <1>3, <1>19, <1>22, <1>23, <1>24, <1>25, <1>26
<1>33. /\ (harness \in BOOLEAN)' /\ (forgot \in BOOLEAN)'
       /\ (Len(branch) <= MaxEntries)'
       /\ (DOMAIN covers = 1..MaxEntries)'
  <2>1. forgot' \in BOOLEAN
    BY <1>19 DEF BranchInv
  <2>2. Len(branch') <= MaxEntries
    BY <1>5, <1>19, <1>20
  <2>3. DOMAIN covers' = 1..MaxEntries
    BY <1>19 DEF BranchInv
  <2> QED
    BY <1>3, <2>1, <2>2, <2>3
<1>34. (toSummarize \union turnPrefix \subseteq DOMAIN branch)'
  <2>1. Cut!Said(b, start, f) \subseteq 1..n
    BY <1>6 DEF Cut!Said, Cut!Places
  <2>2. 1..n \subseteq 1..(n + 1)
    BY <1>5
  <2> QED
    BY <1>13, <1>19, <1>20, <2>1, <2>2
<1> QED
  BY <1>30, <1>31, <1>32, <1>33, <1>34 DEF BranchInv

-----------------------------------------------------------------------------
(* The theorems.                                                           *)

LEMMA BranchInductive ==
  ASSUME MaxEntries \in Nat, BranchInv, [Cut!BranchNext]_branchVars
  PROVE  BranchInv'
<1>1. CASE UNCHANGED branchVars
  <2>1. /\ harness' = harness /\ branch' = branch /\ toSummarize' = toSummarize
        /\ turnPrefix' = turnPrefix /\ covers' = covers /\ forgot' = forgot
    BY <1>1 DEF branchVars
  <2>2. (Cut!EachInOnePlace /\ CutIsLegal)'
    BY <2>1 DEF BranchInv, Cut!EachInOnePlace, CutIsLegal, Cut!JustCompacted, Cut!Before
  <2> QED
    BY <2>1, <2>2 DEF BranchInv
<1>2. CASE Cut!Say
  <2>1. PICK role \in {"user", "bash", "note", "meta"} : Cut!AppendEntry(role, 0)
    BY <1>2 DEF Cut!Say
  <2>2. role \in Cut!Roles \ {"compaction"} /\ role # "result"
    BY DEF Cut!Roles
  <2>3. 0 <= Len(branch)
    BY DEF BranchInv, Pointing
  <2> QED
    BY <2>1, <2>2, <2>3, GrowsByAnEntry
<1>3. CASE Cut!Reply
  <2>1. Cut!AppendEntry("assistant", 0)
    BY <1>3 DEF Cut!Reply
  <2>2. "assistant" \in Cut!Roles \ {"compaction"}
    BY DEF Cut!Roles
  <2>3. 0 <= Len(branch)
    BY DEF BranchInv, Pointing
  <2> QED
    BY <2>1, <2>2, <2>3, GrowsByAnEntry
<1>4. CASE Cut!Result
  BY <1>4, ResultsKeep
<1>5. CASE \E keep \in 1..MaxKeep : Cut!Compact(keep)
  BY <1>5, CompactKeeps
<1> QED
  BY <1>1, <1>2, <1>3, <1>4, <1>5 DEF Cut!BranchNext

LEMMA BranchStarts ==
  ASSUME MaxEntries \in Nat, Cut!BranchInit
  PROVE  BranchInv
<1>1. /\ harness \in BOOLEAN /\ branch = <<>> /\ forgot = FALSE
      /\ toSummarize = {} /\ turnPrefix = {}
      /\ covers = [i \in 1..MaxEntries |-> {}]
  BY DEF Cut!BranchInit
<1>2. Len(branch) = 0 /\ DOMAIN branch = {} /\ branch \in Seq(Entries)
  BY <1>1
<1>3. Cut!EachInOnePlace /\ CutIsLegal
  BY <1>1 DEF Cut!EachInOnePlace, CutIsLegal, Cut!JustCompacted
<1>4. /\ Pointing(branch) /\ ResultsAreClose(branch, harness)
      /\ ResultsFollow(branch) /\ SummaryIsWhole(branch, covers, forgot)
  BY <1>2 DEF Pointing, ResultsAreClose, ResultsFollow, SummaryIsWhole
<1>5. forgot \in BOOLEAN /\ Len(branch) <= MaxEntries /\ DOMAIN covers = 1..MaxEntries
  <2>1. Len(branch) <= MaxEntries
    BY <1>2
  <2>2. DOMAIN covers = 1..MaxEntries
    BY <1>1
  <2> QED
    BY <1>1, <2>1, <2>2
<1>6. toSummarize \union turnPrefix \subseteq DOMAIN branch
  BY <1>1
<1> QED
  BY <1>1, <1>3, <1>4, <1>5, <1>6 DEF BranchInv

LEMMA BranchImplies ==
  ASSUME BranchInv
  PROVE  CutIsSound /\ NothingElseForgotten
<1>1. PICK b : b = branch
  OBVIOUS
<1>2. /\ Pointing(b) /\ ResultsFollow(b) /\ SummaryIsWhole(b, covers, forgot)
      /\ Cut!EachInOnePlace /\ CutIsLegal
  BY <1>1 DEF BranchInv
<1>3. b \in Seq(Entries)
  BY <1>2 DEF Pointing
<1>4. PICK n \in Nat : n = Len(b)
  BY <1>3
<1>5. DOMAIN b = 1..n
  BY <1>3, <1>4
<1>6. PICK start \in Nat : start = Cut!BoundaryStart(b)
  BY <1>2, BoundaryFacts
<1>7. Cut!ResultsFollowTheirReply
  <2> SUFFICES ASSUME NEW j \in 1..n, b[j].role = "result", j \in start..n
               PROVE  b[j].ref \in start..n
    BY <1>1, <1>4, <1>5, <1>6
       DEF Cut!ResultsFollowTheirReply, Cut!Context, Cut!Places
  <2>1. b[j].ref < j
    BY <1>2, <1>5 DEF Pointing
  <2>2. start <= b[j].ref
    BY <1>2, <1>5, <1>6 DEF ResultsFollow
  <2>3. b[j].ref \in Nat
    <3>1. b[j] \in Entries
      BY <1>3, <1>5
    <3> QED
      BY <3>1 DEF Entries
  <2> QED
    BY <1>4, <1>6, <2>1, <2>2, <2>3
<1>8. NothingElseForgotten
  <2> SUFFICES ASSUME ~forgot, NEW i \in Cut!Said(b, 1, n + 1)
               PROVE  \/ i \in Cut!Context(b)
                      \/ \E c \in Cut!Context(b) \union {Cut!LatestCompaction(b)} :
                           c # 0 /\ i \in covers[c]
    BY <1>1, <1>4
       DEF NothingElseForgotten, Cut!NothingElseForgotten, Cut!AllIsRemembered
  <2>1. i \in 1..n /\ b[i].role \notin {"meta", "compaction"}
    BY <1>5 DEF Cut!Said, Cut!Places
  <2>2. CASE start <= i
    BY <1>4, <1>6, <2>1, <2>2 DEF Cut!Context
  <2>3. CASE i < start
    <3>1. i \in covers[Cut!LatestCompaction(b)]
      BY <1>2, <1>5, <1>6, <2>1, <2>3 DEF SummaryIsWhole
    <3>2. Cut!LatestCompaction(b) # 0
      <4> SUFFICES ASSUME Cut!LatestCompaction(b) = 0 PROVE FALSE
        OBVIOUS
      <4>1. start = 1
        BY <1>2, <1>6, BoundaryFacts
      <4> QED
        BY <2>1, <2>3, <4>1
    <3> QED
      BY <3>1, <3>2
  <2> QED
    BY <1>6, <2>1, <2>2, <2>3
<1> QED
  BY <1>2, <1>7, <1>8 DEF CutIsSound

\* BranchTypeOK: entries have a role and point back, and what a compaction
\* summarizes are entries of the branch.
THEOREM BranchTypes ==
  ASSUME MaxEntries \in Nat
  PROVE  Cut!BranchSpec => []Cut!BranchTypeOK
<1>1. Cut!BranchInit => BranchInv
  BY BranchStarts
<1>2. BranchInv /\ [Cut!BranchNext]_branchVars => BranchInv'
  BY BranchInductive
<1>3. BranchInv => Cut!BranchTypeOK
  <2> SUFFICES ASSUME BranchInv PROVE Cut!BranchTypeOK
    OBVIOUS
  <2>1. PICK b : b = branch
    OBVIOUS
  <2>2. Pointing(b) /\ {harness, forgot} \subseteq BOOLEAN
        /\ toSummarize \union turnPrefix \subseteq DOMAIN b
    BY <2>1 DEF BranchInv
  <2>3. ASSUME NEW i \in DOMAIN b
        PROVE  b[i].role \in Cut!Roles /\ b[i].ref \in 0..(i - 1)
    <3>1. b[i] \in Entries /\ b[i].ref < i /\ i \in Nat
      BY <2>2 DEF Pointing
    <3>2. b[i].role \in Cut!Roles /\ b[i].ref \in Nat
      BY <3>1 DEF Entries
    <3> QED
      BY <3>1, <3>2
  <2> QED
    BY <2>1, <2>2, <2>3 DEF Cut!BranchTypeOK
<1> QED
  BY <1>1, <1>2, <1>3, PTL DEF Cut!BranchSpec, Cut!compactionVars, branchVars

\* CutIsSound: wherever compactions of the agent or of the harness cut, what
\* leaves the context is in the summaries and nothing is in two places, no tool
\* result is kept without its reply, and AgentSession allows the agent's cut.
THEOREM CutsAreSound ==
  ASSUME MaxEntries \in Nat
  PROVE  Cut!BranchSpec => []CutIsSound
<1>1. Cut!BranchInit => BranchInv
  BY BranchStarts
<1>2. BranchInv /\ [Cut!BranchNext]_branchVars => BranchInv'
  BY BranchInductive
<1>3. BranchInv => CutIsSound
  BY BranchImplies
<1> QED
  BY <1>1, <1>2, <1>3, PTL DEF Cut!BranchSpec, Cut!compactionVars, branchVars

\* NothingElseForgotten: unless a split turn that begins where the context does
\* let a summary go, all that was ever said is in the context or was handed on
\* from summary to summary to the one in it.
THEOREM SummariesAreHandedOn ==
  ASSUME MaxEntries \in Nat
  PROVE  Cut!BranchSpec => []NothingElseForgotten
<1>1. Cut!BranchInit => BranchInv
  BY BranchStarts
<1>2. BranchInv /\ [Cut!BranchNext]_branchVars => BranchInv'
  BY BranchInductive
<1>3. BranchInv => NothingElseForgotten
  BY BranchImplies
<1> QED
  BY <1>1, <1>2, <1>3, PTL DEF Cut!BranchSpec, Cut!compactionVars, branchVars
=============================================================================
