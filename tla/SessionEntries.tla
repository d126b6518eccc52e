--------------------------- MODULE SessionEntries ---------------------------
(***************************************************************************)
(* The entries of a session and what is derived from a list of them: the   *)
(* active leaf, the labels, the path from an entry to the root, and the    *)
(* entries that make up the model's context.  Ids are natural numbers in   *)
(* the order they were generated and 0 is null (the root).                 *)
(***************************************************************************)
EXTENDS Naturals, Sequences

\* "message" stands for every plain append (messages, custom entries, model,
\* thinking level and tools changes, the session name); a label entry with an
\* empty label is "unlabel".
Types == {"message", "label", "unlabel", "compaction", "branch_summary", "leaf"}

\* target: what is labelled, the firstKeptEntryId, or where a leaf moved to.
Entry(type, id, parent, target) ==
  [type |-> type, id |-> id, parentId |-> parent, targetId |-> target]

EntrySet == [type : Types, id : Nat, parentId : Nat, targetId : Nat]

Ids(es) == {es[i].id : i \in 1 .. Len(es)}
ById(es, id) == es[CHOOSE i \in 1 .. Len(es) : es[i].id = id]

leafIdAfterEntry(e) == IF e.type = "leaf" THEN e.targetId ELSE e.id

\* The leaf a storage finds when it loads es: each entry overrides the last.
LoadedLeaf(es) == IF es = <<>> THEN 0 ELSE leafIdAfterEntry(es[Len(es)])

\* Mutant: an empty label does not remove the label.
UpdateLabelsKeeps(labels, e) ==
  IF e.type = "label"
  THEN {p \in labels : p[1] # e.targetId} \union {<<e.targetId, e.id>>}
  ELSE labels

\* updateLabelCache; labels are pairs <<labelled entry, label entry>>.
UpdateLabels(labels, e) ==
  LET others == {p \in labels : p[1] # e.targetId}
  IN  CASE e.type = "label"   -> others \union {<<e.targetId, e.id>>}
        [] e.type = "unlabel" -> others
        [] OTHER              -> labels

\* buildLabelsById: the last word on each entry counts.
BuildLabels(es) ==
  {<<es[i].targetId, es[i].id>> : i \in {j \in 1 .. Len(es) :
     /\ es[j].type = "label"
     /\ \A k \in j + 1 .. Len(es) :
          es[k].type \in {"label", "unlabel"} => es[k].targetId # es[j].targetId}}

\* getPathToRoot: from the root down to id.
PathToRoot(es, id) ==
  LET path[n \in Ids(es) \union {0}] ==
        IF n = 0 THEN <<>> ELSE Append(path[ById(es, n).parentId], ById(es, n))
  IN  path[id]

\* defaultContextEntryTransform: the last compaction of the path replaces all
\* that precedes its first kept entry.
ContextEntries(path) ==
  LET compactions == {i \in 1 .. Len(path) : path[i].type = "compaction"}
  IN  IF compactions = {} THEN path
      ELSE LET c == CHOOSE i \in compactions : \A j \in compactions : j <= i
               kept(i) == \E j \in 1 .. i : path[j].id = path[c].targetId
               before == {i \in 1 .. c - 1 : kept(i)}
               first == IF before = {} THEN c
                        ELSE CHOOSE i \in before : \A j \in before : i <= j
           IN  <<path[c]>> \o SubSeq(path, first, c - 1)
                           \o SubSeq(path, c + 1, Len(path))

\* getEntriesToFork: the entries a session forked at id starts from.
EntriesToFork(es, id) == PathToRoot(es, id)
=============================================================================
