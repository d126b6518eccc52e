----------------------------- MODULE Compaction -----------------------------
(***************************************************************************)
(* What a compaction summarizes and what it keeps: prepareCompaction,      *)
(* findCutPoint and compact of the coding agent                            *)
(* (coding-agent/src/core/compaction/compaction.ts), and those of the      *)
(* agent package (agent/src/harness/compaction/compaction.ts) where they   *)
(* differ.                                                                 *)
(*                                                                         *)
(* A branch grows entry by entry; an entry's id is its place.  What is in  *)
(* it is left out, but for its kind.  Sizes are left out too: one entry    *)
(* counts one token, and how many recent ones to keep is a choice, so that *)
(* the budget may be reached at any entry that counts.                     *)
(***************************************************************************)
EXTENDS Naturals, Sequences, FiniteSetsExt

CONSTANTS
  MaxEntries,    \* bound: entries of the branch
  MaxKeep        \* bound: keepRecentTokens

VARIABLES
  harness,       \* TRUE: the agent package's functions; FALSE: the coding agent's
  branch,        \* pathEntries
  toSummarize,   \* messagesToSummarize of the compaction that ends the branch
  turnPrefix,    \* its turnPrefixMessages
  covers,        \* history: what each compaction's summary was made from
  forgot         \* history: a compaction has let go of the summary before it

compactionVars == <<harness, branch, toSummarize, turnPrefix, covers, forgot>>

\* "note" is a custom message or a branch summary, "meta" an entry that says
\* nothing to the model: a change of model or level, a label, a name.
Roles == {"user", "assistant", "result", "bash", "note", "meta", "compaction"}

\* ref: the first kept entry of a compaction, the reply a result answers to.
Entry(role, ref) == [role |-> role, ref |-> ref]

Places(b, roles) == {i \in DOMAIN b : b[i].role \in roles}
LastOf(S) == IF S = {} THEN 0 ELSE Max(S)

-----------------------------------------------------------------------------
(* Where the branch may be cut.                                            *)

LatestCompaction(b) == LastOf(Places(b, {"compaction"}))

\* boundaryStart: where the context begins, but for the summary.
BoundaryStart(b) ==
  LET c == LatestCompaction(b) IN IF c = 0 THEN 1 ELSE b[c].ref

\* findValidCutPoints: never at a tool result.
ValidCutPoints(b, start) ==
  Places(b, {"user", "assistant", "bash", "note"}) \ 1..(start - 1)

\* What findCutPoint counts when it walks back from the newest entry.
Counted(b) ==
  Places(b, IF harness THEN {"user", "assistant", "result", "bash"} ELSE Roles \ {"meta"})

\* The first cut point at or after the entry that fills the budget; with none
\* there, or with a budget that is not filled, the first of all.
ChosenCut(b, start, keep) ==
  LET cuts == ValidCutPoints(b, start)
      filled == LastOf({i \in start..Len(b) : Cardinality(Counted(b) \ 1..(i - 1)) >= keep})
      later == {c \in cuts : c >= filled}
  IN  Min(IF filled = 0 \/ later = {} THEN cuts ELSE later)

\* The cut moves back over the entries before it, as far as one of these.
StopsBack(b) ==
  Places(b, IF harness THEN {"compaction", "user", "assistant", "result", "bash"}
            ELSE Roles \ {"meta"})

Widened(b, start, cut) ==
  Min({j \in start..cut : j..(cut - 1) \intersect StopsBack(b) = {}})

\* findTurnStartIndex, 0 when there is none.
TurnStart(b, at, start) ==
  LastOf(Places(b, {"user", "bash", "note"}) \intersect start..at)

\* findCutPoint.
CutPoint(b, start, keep) ==
  IF ValidCutPoints(b, start) = {} THEN [first |-> start, turn |-> 0]
  ELSE LET cut == Widened(b, start, ChosenCut(b, start, keep))
           begins == b[cut].role \in IF harness THEN {"user"} ELSE {"user", "bash", "note"}
       IN  [first |-> cut, turn |-> IF begins THEN 0 ELSE TurnStart(b, cut, start)]

\* What is said in the entries from start up to but not including end.
Said(b, start, end) == Places(b, Roles \ {"meta", "compaction"}) \intersect start..(end - 1)

\* Mutant: the history is taken up to the cut, the turn's beginning included.
HistoryUpToTheCut(cut) == cut.first

\* historyEnd: where a turn is split, the history ends with the turn before.
HistoryEnd(cut) == IF cut.turn = 0 THEN cut.first ELSE cut.turn

-----------------------------------------------------------------------------
(* A branch grows.                                                         *)

AppendEntry(role, ref) ==
  /\ Len(branch) < MaxEntries
  /\ branch' = Append(branch, Entry(role, ref))
  /\ toSummarize' = {} /\ turnPrefix' = {}
  /\ UNCHANGED <<harness, covers, forgot>>

\* The user's side, and entries without a message.
Say == \E role \in {"user", "bash", "note", "meta"} : AppendEntry(role, 0)

Reply == Places(branch, Roles \ {"meta"}) # {} /\ AppendEntry("assistant", 0)

\* A result follows its reply, or another result.  The coding agent records a
\* change of model at once, even between them.
Result ==
  LET last == IF harness THEN Len(branch) ELSE LastOf(Places(branch, Roles \ {"meta"}))
  IN  /\ last # 0
      /\ \/ branch[last].role = "assistant" /\ AppendEntry("result", last)
         \/ branch[last].role = "result" /\ AppendEntry("result", branch[last].ref)

\* Mutant: the summary before is not among what the summary is made from.
TakesNothingOver(history, prefix) == FALSE

\* compact: the summary before goes into the history's; a split turn without a
\* history has "No prior history.".
TakesPreviousOver(history, prefix) == history # {} \/ prefix = {}

\* The coding agent refuses when there is nothing to summarize.
Worthwhile(history, prefix) == harness \/ history \union prefix # {}

\* prepareCompaction and compact.
Compact(keep) ==
  /\ branch # <<>> /\ branch[Len(branch)].role # "compaction"
  /\ LET start == BoundaryStart(branch)
         cut == CutPoint(branch, start, keep)
         history == Said(branch, start, HistoryEnd(cut))
         prefix == IF cut.turn = 0 THEN {} ELSE Said(branch, cut.turn, cut.first)
         previous == LatestCompaction(branch)
         over == previous # 0 /\ TakesPreviousOver(history, prefix)
     IN  /\ Worthwhile(history, prefix)
         /\ Len(branch) < MaxEntries
         /\ branch' = Append(branch, Entry("compaction", cut.first))
         /\ toSummarize' = history /\ turnPrefix' = prefix
         /\ covers' = [covers EXCEPT ![Len(branch) + 1] =
                         history \union prefix \union (IF over THEN covers[previous] ELSE {})]
         /\ forgot' = (forgot \/ (previous # 0 /\ history = {} /\ prefix # {}))
  /\ UNCHANGED harness

BranchInit ==
  /\ harness \in BOOLEAN
  /\ branch = <<>> /\ toSummarize = {} /\ turnPrefix = {}
  /\ covers = [i \in 1..MaxEntries |-> {}] /\ forgot = FALSE

BranchNext == Say \/ Reply \/ Result \/ \E keep \in 1..MaxKeep : Compact(keep)

BranchSpec == BranchInit /\ [][BranchNext]_compactionVars

-----------------------------------------------------------------------------
(* Properties.                                                             *)

BranchTypeOK ==
  /\ {harness, forgot} \subseteq BOOLEAN
  /\ \A i \in DOMAIN branch : branch[i].role \in Roles /\ branch[i].ref \in 0..(i - 1)
  /\ toSummarize \union turnPrefix \subseteq DOMAIN branch

\* What the model is sent, as buildContextEntries chooses it.
Context(b) == BoundaryStart(b)..Len(b)

JustCompacted == branch # <<>> /\ branch[Len(branch)].role = "compaction"
Before == SubSeq(branch, 1, Len(branch) - 1)

\* What was in the context before a compaction is afterwards in the history, in
\* the beginning of a split turn or still in the context, and in one of them.
EachInOnePlace ==
  JustCompacted =>
    LET said == Said(Before, BoundaryStart(Before), Len(branch))
        kept == Said(branch, BoundaryStart(branch), Len(branch))
    IN  /\ said = toSummarize \union turnPrefix \union kept
        /\ toSummarize \intersect turnPrefix = {}
        /\ kept \intersect (toSummarize \union turnPrefix) = {}

\* A tool result in the context has the reply that called for it before it.
ResultsFollowTheirReply ==
  \A i \in Context(branch) \intersect Places(branch, {"result"}) :
    branch[i].ref \in Context(branch)

\* All that was ever said is in the context, or went into a summary there.
AllIsRemembered ==
  \A i \in Said(branch, 1, Len(branch) + 1) :
    \/ i \in Context(branch)
    \/ \E c \in Context(branch) \union {LatestCompaction(branch)} : c # 0 /\ i \in covers[c]

\* Only a split turn that begins where the context does lets a summary go.
NothingElseForgotten == ~forgot => AllIsRemembered
=============================================================================
