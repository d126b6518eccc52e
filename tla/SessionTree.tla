---------------------------- MODULE SessionTree -----------------------------
(***************************************************************************)
(* What a session promises: a tree of entries that only grows, one entry   *)
(* at a time and each below the active leaf, and a leaf that moves only to *)
(* what is in the tree.  This is InMemorySessionStorage used by one caller *)
(* at a time; Session.tla shows that the JSONL file implements it.         *)
(***************************************************************************)
EXTENDS SessionEntries

CONSTANT EntryIds          \* the ids entries may have

VARIABLES entries, leafId, labelsById

Init ==
  /\ entries = <<>>
  /\ leafId = 0
  /\ labelsById = {}

\* appendEntry with the parent Session reads from the storage.
AppendEntry(type, id, target) ==
  LET e == Entry(type, id, leafId, target)
  IN  /\ id \notin Ids(entries)
      /\ entries' = Append(entries, e)
      /\ labelsById' = UpdateLabels(labelsById, e)
      /\ leafId' = id

\* setLeafId: moving is itself an entry.
SetLeafId(id, target) ==
  /\ id \notin Ids(entries)
  /\ target \in Ids(entries) \union {0}
  /\ entries' = Append(entries, Entry("leaf", id, leafId, target))
  /\ leafId' = target
  /\ UNCHANGED labelsById

Next ==
  \E id \in EntryIds, target \in EntryIds \union {0} :
    SetLeafId(id, target) \/ \E type \in Types \ {"leaf"} : AppendEntry(type, id, target)

Spec == Init /\ [][Next]_<<entries, leafId, labelsById>>
=============================================================================
