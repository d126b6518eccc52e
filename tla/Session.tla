------------------------------ MODULE Session -------------------------------
(***************************************************************************)
(* The Session class over JsonlSessionStorage: an append reads the active  *)
(* leaf, appends one line to the file, and only then updates the memory    *)
(* of the storage and resolves.  The process may die at any moment, a      *)
(* write may fail or be cut short, and the file may be opened again.       *)
(***************************************************************************)
EXTENDS SessionEntries, FiniteSets

CONSTANTS
  Writers,      \* callers of the session
  Concurrent,   \* TRUE: a caller does not wait for the others' appends
  MaxEntries,   \* bound: entries written
  MaxCrashes,   \* bound: crashes
  MaxFaults,    \* bound: appends that fail and leave the file as it was
  MaxTears      \* bound: appends that fail having written part of the line

ASSUME SessionAssumption ==
  /\ Concurrent \in BOOLEAN
  /\ {MaxEntries, MaxCrashes, MaxFaults, MaxTears} \subseteq Nat

VARIABLES
  file,         \* the lines after the header
  opened,       \* a process has the storage open
  entries, currentLeafId, labelsById,   \* the memory of the storage
  op,           \* what each caller is doing
  nextId,       \* ids generated so far
  acked,        \* ids of the appends that resolved (history)
  crashes, faults, tears

memVars  == <<entries, currentLeafId, labelsById>>
histVars == <<crashes, faults, tears>>
vars == <<file, opened, memVars, op, nextId, acked, histVars>>

-----------------------------------------------------------------------------
(* Lines.  A ragged line has no newline: what is appended next joins it.   *)

Line(e)  == [kind |-> "entry", entry |-> e]
NoEntry  == Entry("message", 0, 0, 0)
Ragged   == [kind |-> "ragged", entry |-> NoEntry]
Spoiled  == [kind |-> "spoiled", entry |-> NoEntry]

LineSet == [kind : {"entry", "ragged", "spoiled"}, entry : EntrySet]

IsRagged(f) == f # <<>> /\ f[Len(f)].kind = "ragged"

WithLine(f, e) ==
  IF IsRagged(f) THEN [f EXCEPT ![Len(f)] = Spoiled] ELSE Append(f, Line(e))
WithTear(f) == IF IsRagged(f) THEN f ELSE Append(f, Ragged)

\* The entries up to the first line that is not one.
Written ==
  [i \in {n \in 1 .. Len(file) : \A j \in 1 .. n : file[j].kind = "entry"} |-> file[i].entry]

\* Mutant: the loader ends at a line that is no valid JSON, and says nothing.
LoadsAny(f) == TRUE

\* loadJsonlStorage throws at the first line that is not an entry.
Loads(f) == \A i \in 1 .. Len(f) : f[i].kind = "entry"

-----------------------------------------------------------------------------
(* Calls.                                                                  *)

Idle == [pc |-> "idle", entry |-> NoEntry, more |-> FALSE]

MayCall(w) ==
  /\ opened
  /\ op[w] = Idle
  /\ ~Concurrent => \A v \in Writers : op[v] = Idle
  /\ nextId < MaxEntries

\* The synchronous half of an append: a new id, the parent, the file system
\* is asked to write the line.
Ask(w, type, parent, target, more) ==
  /\ nextId' = nextId + 1
  /\ op' = [op EXCEPT ![w] =
       [pc |-> "append", entry |-> Entry(type, nextId + 1, parent, target), more |-> more]]
  /\ UNCHANGED <<file, opened, memVars, acked, histVars>>

\* Mutant: below the last entry, which is not the leaf after a move.
AppendMessageLast(w) ==
  /\ MayCall(w)
  /\ Ask(w, "message", IF entries = <<>> THEN 0 ELSE entries[Len(entries)].id, 0, FALSE)

\* appendMessage and the other plain appends.
AppendMessage(w) ==
  /\ MayCall(w)
  /\ Ask(w, "message", currentLeafId, 0, FALSE)

\* appendLabel, for an entry that exists.
AppendLabel(w, target) ==
  /\ MayCall(w)
  /\ target \in Ids(entries)
  /\ \E type \in {"label", "unlabel"} : Ask(w, type, currentLeafId, target, FALSE)

\* Mutant: the first kept entry may be one of another branch.
PrepareCompactionAny(w, kept) ==
  /\ MayCall(w)
  /\ kept \in Ids(entries)
  /\ op' = [op EXCEPT ![w] = [pc |-> "compacting", entry |-> Entry("compaction", 0, 0, kept),
                              more |-> FALSE]]
  /\ UNCHANGED <<file, opened, memVars, nextId, acked, histVars>>

\* A compaction picks its first kept entry from the branch ...
PrepareCompaction(w, kept) ==
  /\ MayCall(w)
  /\ kept \in Ids(PathToRoot(entries, currentLeafId))
  /\ op' = [op EXCEPT ![w] = [pc |-> "compacting", entry |-> Entry("compaction", 0, 0, kept),
                              more |-> FALSE]]
  /\ UNCHANGED <<file, opened, memVars, nextId, acked, histVars>>

\* ... and is appended when the summary is there.
AppendCompaction(w) ==
  /\ op[w].pc = "compacting"
  /\ nextId < MaxEntries
  /\ Ask(w, "compaction", currentLeafId, op[w].entry.targetId, FALSE)

\* moveTo: setLeafId appends a leaf entry; `summarize` says that a
\* branch_summary follows.
MoveTo(w, target, summarize) ==
  /\ MayCall(w)
  /\ target \in Ids(entries) \union {0}
  /\ Ask(w, "leaf", currentLeafId, target, summarize)

AppendSummary(w) ==
  /\ op[w].pc = "summary"
  /\ nextId < MaxEntries
  /\ Ask(w, "branch_summary", op[w].entry.targetId, 0, FALSE)

-----------------------------------------------------------------------------
(* The file system.                                                        *)

\* fs.appendFile has written the line.
Land(w) ==
  /\ op[w].pc = "append"
  /\ file' = WithLine(file, op[w].entry)
  /\ op' = [op EXCEPT ![w].pc = "landed"]
  /\ UNCHANGED <<opened, memVars, nextId, acked, histVars>>

\* Mutant: a call that failed has already changed the memory.
AppendFailsLate(w) ==
  /\ op[w].pc = "append"
  /\ faults < MaxFaults
  /\ faults' = faults + 1
  /\ currentLeafId' = leafIdAfterEntry(op[w].entry)
  /\ op' = [op EXCEPT ![w] = Idle]
  /\ UNCHANGED <<file, opened, entries, labelsById, nextId, acked, crashes, tears>>

\* It failed: the call throws and the memory is as before.
AppendFails(w) ==
  /\ op[w].pc = "append"
  /\ faults < MaxFaults
  /\ faults' = faults + 1
  /\ op' = [op EXCEPT ![w] = Idle]
  /\ UNCHANGED <<file, opened, memVars, nextId, acked, crashes, tears>>

\* It failed half way (a full disk).
AppendTears(w) ==
  /\ op[w].pc = "append"
  /\ tears < MaxTears
  /\ tears' = tears + 1
  /\ file' = WithTear(file)
  /\ op' = [op EXCEPT ![w] = Idle]
  /\ UNCHANGED <<opened, memVars, nextId, acked, crashes, faults>>

\* The rest of appendEntry or setLeafId, once the file system has answered.
Resolve(w) ==
  LET e == op[w].entry IN
  /\ op[w].pc = "landed"
  /\ entries' = Append(entries, e)
  /\ labelsById' = UpdateLabels(labelsById, e)
  /\ currentLeafId' = leafIdAfterEntry(e)
  /\ acked' = acked \union {e.id}
  /\ op' = [op EXCEPT ![w] = IF @.more THEN [@ EXCEPT !.pc = "summary"] ELSE Idle]
  /\ UNCHANGED <<file, opened, nextId, histVars>>

\* The process dies; a line that was being written may be left ragged.
Crash ==
  /\ opened
  /\ crashes < MaxCrashes
  /\ crashes' = crashes + 1
  /\ opened' = FALSE
  /\ file' \in {file} \union
       (IF \E w \in Writers : op[w].pc = "append" THEN {WithTear(file)} ELSE {})
  /\ entries' = <<>> /\ currentLeafId' = 0 /\ labelsById' = {}
  /\ op' = [w \in Writers |-> Idle]
  /\ UNCHANGED <<nextId, acked, faults, tears>>

\* JsonlSessionStorage.open
Open ==
  /\ ~opened
  /\ Loads(file)
  /\ opened' = TRUE
  /\ entries' = Written
  /\ currentLeafId' = LoadedLeaf(Written)
  /\ labelsById' = BuildLabels(Written)
  /\ UNCHANGED <<file, op, nextId, acked, histVars>>

-----------------------------------------------------------------------------
\* JsonlSessionStorage.create: a header and no entry.
Init ==
  /\ file = <<>> /\ opened = TRUE
  /\ entries = <<>> /\ currentLeafId = 0 /\ labelsById = {}
  /\ op = [w \in Writers |-> Idle]
  /\ nextId = 0 /\ acked = {}
  /\ crashes = 0 /\ faults = 0 /\ tears = 0

Call(w) ==
  \/ AppendMessage(w) \/ AppendCompaction(w) \/ AppendSummary(w)
  \/ \E t \in 0 .. MaxEntries :
       \/ AppendLabel(w, t) \/ PrepareCompaction(w, t)
       \/ \E summarize \in BOOLEAN : MoveTo(w, t, summarize)

Storage(w) == Land(w) \/ AppendFails(w) \/ AppendTears(w) \/ Resolve(w)

Next == Crash \/ Open \/ \E w \in Writers : Call(w) \/ Storage(w)

Spec == Init /\ [][Next]_vars

-----------------------------------------------------------------------------
(* Properties.                                                             *)

OpSet == [pc : {"idle", "append", "landed", "compacting", "summary"}, entry : EntrySet,
          more : BOOLEAN]

\* Every variable has a value of its type.
TypeOK ==
  /\ file \in Seq(LineSet) /\ opened \in BOOLEAN
  /\ entries \in Seq(EntrySet) /\ currentLeafId \in Nat
  /\ labelsById \subseteq Nat \X Nat
  /\ op \in [Writers -> OpSet]
  /\ nextId \in Nat /\ acked \subseteq Nat
  /\ crashes \in Nat /\ faults \in Nat /\ tears \in Nat

\* An append that resolved is never lost without a word: whenever the session
\* is open - also after crashes and torn lines - all of them are in it.
NothingLostSilently == opened => acked \subseteq Ids(entries)

\* getPathToRoot never meets a missing parent and always ends, getLeafId
\* never throws: parents precede their children, in memory and in the file
\* that will be loaded.
WellFounded(es) ==
  /\ \A i \in 1 .. Len(es) :
       es[i].parentId = 0 \/ \E j \in 1 .. i - 1 : es[j].id = es[i].parentId
  /\ LoadedLeaf(es) = 0 \/ LoadedLeaf(es) \in Ids(es)
TreeIsSound ==
  /\ opened => WellFounded(entries)
  /\ opened => currentLeafId \in Ids(entries) \union {0}
  /\ Loads(file) => WellFounded(Written)

\* Between calls the memory is what a fresh open would load: a crash costs
\* nothing that had resolved, the leaf moves and labels included.
MemoryIsFile ==
  opened /\ tears = 0 /\ (\A w \in Writers : op[w].pc \notin {"append", "landed"}) =>
    /\ entries = Written
    /\ currentLeafId = LoadedLeaf(Written)
    /\ labelsById = BuildLabels(Written)

\* A compaction keeps entries of its own branch, so the context after it has
\* everything from its first kept entry on and nothing twice.
CompactionKeepsItsBranch ==
  \A i \in 1 .. Len(entries) :
    entries[i].type = "compaction" =>
      LET path == PathToRoot(entries, entries[i].id)
          ctx  == ContextEntries(path)
      IN  /\ entries[i].targetId \in Ids(path)
          /\ ctx[1] = entries[i]
          /\ Len(ctx) = Cardinality(Ids(ctx))
          /\ \A j, k \in 1 .. Len(path) :
               path[j].id = entries[i].targetId /\ j <= k => path[k].id \in Ids(ctx)

\* A session forked at an entry has that entry's branch and nothing else,
\* unless the leaf had been moved to a leaf entry.
ForkIsTheBranch ==
  \A id \in Ids(entries) :
    LET path == PathToRoot(entries, id)
        fork == EntriesToFork(entries, id)
    IN  (\A i \in 1 .. Len(path) : path[i].type # "leaf") =>
          /\ LoadedLeaf(fork) = id
          /\ WellFounded(fork)
          /\ PathToRoot(fork, id) = path
          /\ Ids(fork) = Ids(path)

\* Compactions and forks hold to one branch, whatever moves came before.
BranchesHold == CompactionKeepsItsBranch /\ ForkIsTheBranch

\* Used by one caller at a time and while no append tears, the file is the
\* tree: each line that lands is one atomic step of it.
Tree == INSTANCE SessionTree WITH
          EntryIds <- 1 .. MaxEntries, entries <- Written, leafId <- LoadedLeaf(Written),
          labelsById <- BuildLabels(Written)
ImplementsTree == Tree!Spec
=============================================================================
